------------------------------- MODULE KvStore -------------------------------
(***************************************************************************)
(* What a script keeps across its reloads: the key-value tables of         *)
(* internal/store/kv.go and the bindings store, store.state and global of  *)
(* internal/lua/api_store.go.  A table read is a lookup in db; a proxy     *)
(* made by store.state answers from its cache.  The steps of a stop are in *)
(* Supervisor; what matters here is that the next generation may start as  *)
(* soon as the script is untracked, while the older one still drains.      *)
(***************************************************************************)
EXTENDS Naturals

CONSTANTS
    Scripts, Global,  \* the scopes of the tables: script_kv by script, global_kv
    Keys,
    Values,           \* what a write may store
    Initials,         \* what a script may give as the default of a key
    Gens,             \* Lua VMs
    Nil, None

Stores == Scripts \cup {Global}
Defaults == [Keys -> Initials \cup {Nil}]
Proxies == [cache : [Keys -> Values \cup Initials \cup {Nil}], defaults : Defaults]

ASSUME KvAssumption ==
    /\ Global \notin Scripts /\ None \notin Scripts \cup Gens
    /\ Nil \notin Values \cup Initials /\ None \notin Proxies

VARIABLES
    db,         \* the committed rows: their values, or Nil
    vm,         \* generation -> the script its VM runs, or None
    tracked,    \* script -> its newest generation, or None
    cancelled,  \* generations whose context is done
    proxy,      \* generation -> [cache, defaults] of its state proxy, or None
    last,       \* history variable: script -> key -> what its last write may have left
    aside       \* history variable: generation -> keys written past its proxy

scriptVars == <<vm, tracked, cancelled>>
kvVars == <<db, scriptVars, proxy, last, aside>>

\* The row a statement addresses: what its scope binds, and the key.  The mutant
\* forgets the script id.
Row_Unscoped(x, k) == <<IF x = Global THEN "global_kv" ELSE "script_kv", k>>

Row(x, k) == IF x = Global THEN <<"global_kv", k>> ELSE <<"script_kv", x, k>>

Rows == {Row(x, k) : x \in Stores, k \in Keys}

Get(x, k) == db[Row(x, k)]
GetAll(x) == [k \in Keys |-> Get(x, k)]

KvInit ==
    /\ db = [r \in Rows |-> Nil]
    /\ vm = [g \in Gens |-> None]
    /\ tracked = [s \in Scripts |-> None]
    /\ cancelled = {}
    /\ proxy = [g \in Gens |-> None]
    /\ last = [s \in Scripts |-> [k \in Keys |-> {Nil}]]
    /\ aside = [g \in Gens |-> {}]

-----------------------------------------------------------------------------
(* Generations come and go *)

StartScript(s, g) ==
    /\ tracked[s] = None /\ vm[g] = None
    /\ tracked' = [tracked EXCEPT ![s] = g]
    /\ vm' = [vm EXCEPT ![g] = s]
    /\ UNCHANGED <<db, cancelled, proxy, last, aside>>

\* From here on the generation drains, and the next one may be started.
StopScript(s) ==
    /\ tracked[s] # None
    /\ tracked' = [tracked EXCEPT ![s] = None]
    /\ UNCHANGED <<db, vm, cancelled, proxy, last, aside>>

\* The drain took longer than stopTimeout.
Abort(g) ==
    /\ vm[g] # None /\ tracked[vm[g]] # g
    /\ cancelled' = cancelled \cup {g}
    /\ UNCHANGED <<db, vm, tracked, proxy, last, aside>>

Discard(gs) ==
    /\ vm' = [g \in Gens |-> IF g \in gs THEN None ELSE vm[g]]
    /\ proxy' = [g \in Gens |-> IF g \in gs THEN None ELSE proxy[g]]
    /\ aside' = [g \in Gens |-> IF g \in gs THEN {} ELSE aside[g]]
    /\ cancelled' = cancelled \ gs

Ends(g) ==
    /\ vm[g] # None /\ tracked[vm[g]] # g
    /\ Discard({g})
    /\ UNCHANGED <<db, tracked, last>>

\* The process dies; what was committed is there when it comes back.
Crash ==
    /\ Discard(Gens)
    /\ tracked' = [s \in Scripts |-> None]
    /\ UNCHANGED <<db, last>>

-----------------------------------------------------------------------------
(* The bindings.  A VM whose context is done executes nothing any more. *)

Running(g) == vm[g] # None /\ g \notin cancelled

\* store.state: the rows win over the defaults.  The cache is not touched by
\* any other write.  When the rows cannot be read, or converted, it raises and
\* leaves everything as it is.
newStateProxy(rows, defaults) ==
    [k \in Keys |-> IF rows[k] # Nil THEN rows[k] ELSE defaults[k]]

State(g, defaults) ==
    /\ Running(g)
    /\ proxy' = [proxy EXCEPT ![g] = [cache |-> newStateProxy(GetAll(vm[g]), defaults),
                                      defaults |-> defaults]]
    /\ aside' = [aside EXCEPT ![g] = {}]
    /\ UNCHANGED <<db, scriptVars, last>>

Noted(x, k, v, certain) ==
    [s \in Scripts |-> IF s = x
                         THEN [last[s] EXCEPT ![k] = {v} \cup IF certain THEN {} ELSE @]
                         ELSE last[s]]

\* Set of key k of store x by g; a nil deletes the row.  It returns, or raises with
\* nothing stored, or g is aborted while the statement runs.
Set(g, x, k, v) ==
    \/ /\ db' = [db EXCEPT ![Row(x, k)] = v]
       /\ last' = Noted(x, k, v, TRUE)
       /\ UNCHANGED scriptVars
    \/ /\ last' = Noted(x, k, v, FALSE)
       /\ UNCHANGED <<db, scriptVars>>
    \/ /\ tracked[vm[g]] # g
       /\ cancelled' = cancelled \cup {g}
       /\ db' \in {db, [db EXCEPT ![Row(x, k)] = v]}
       /\ last' = Noted(x, k, v, FALSE)
       /\ UNCHANGED <<vm, tracked>>

\* The proxies of x that do not see a write of k, but for those of the writer.
PastProxies(x, k, writers) ==
    [g \in Gens |->
        CASE g \in writers -> aside[g] \ {k}
          [] g \notin writers /\ vm[g] = x /\ proxy[g] # None -> aside[g] \cup {k}
          [] OTHER -> aside[g]]

\* store.set and store.delete, global.set and global.delete.
Store(g, x, k, v) ==
    /\ Running(g) /\ x \in {vm[g], Global}
    /\ Set(g, x, k, v)
    /\ aside' = PastProxies(x, k, {})
    /\ UNCHANGED proxy

\* An assignment to the proxy: the cache first, then the table.
Assign(g, k, v) ==
    /\ Running(g) /\ proxy[g] # None
    /\ proxy' = [proxy EXCEPT ![g].cache[k] = v]
    /\ Set(g, vm[g], k, v)
    /\ aside' = PastProxies(vm[g], k, {g})

\* A read of the proxy.
Index(g, k) == proxy[g].cache[k]

KvNext ==
    \/ \E s \in Scripts, g \in Gens : StartScript(s, g)
    \/ \E s \in Scripts : StopScript(s)
    \/ \E g \in Gens : Abort(g) \/ Ends(g)
    \/ Crash
    \/ \E g \in Gens, d \in Defaults : State(g, d)
    \/ \E g \in Gens, x \in Stores, k \in Keys, v \in Values \cup {Nil} : Store(g, x, k, v)
    \/ \E g \in Gens, k \in Keys, v \in Values \cup {Nil} : Assign(g, k, v)

KvSpec == KvInit /\ [][KvNext]_kvVars

-----------------------------------------------------------------------------
(* Properties *)

\* Across reloads, overlapping generations, aborted writes and crashes, a proxy
\* answers what the script's last write of the key left there - or the default, when
\* that was nil or there was none.  Known exceptions: the key was written past the
\* proxy since it was made, by store.set or by an older generation that was still
\* draining while the newer one loaded (supervisor.go:219): the cache is "per proxy
\* instance" (lua_api.md).
ProxyRemembers ==
    \A g \in Gens : proxy[g] # None =>
        \A k \in Keys \ aside[g] :
            LET read == Index(g, k)  stored == last[vm[g]][k]
            IN  read \in stored \/ (Nil \in stored /\ read = proxy[g].defaults[k])

=============================================================================
