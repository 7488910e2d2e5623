----------------------------- MODULE MqttTopics -----------------------------
(***************************************************************************)
(* Topic filters, internal/mqtt/topic.go.  A topic and a filter are        *)
(* sequences of levels, what strings.Split makes of them at the slashes.   *)
(***************************************************************************)
EXTENDS Naturals, Sequences

CONSTANTS
    GluedLevels,  \* levels with a wildcard next to other characters, as in "x+"
    ServerLevels  \* levels that begin with $

Wild == {"#", "+"}
Empty == <<"">>

\* A filter no topic could ever match is refused when the script loads.
ValidateFilter(filter) ==
    /\ filter # Empty
    /\ \A i \in DOMAIN filter :
        /\ filter[i] = "#" => i = Len(filter)
        /\ filter[i] \notin GluedLevels

\* The first n levels of the loop of Match let the topic through.
LevelsAgree(filter, topic, n) ==
    \A i \in 1..n : i <= Len(topic) /\ filter[i] \in {"+", topic[i]}

RootIsServer(filter, topic) == topic[1] \in ServerLevels /\ filter[1] \in Wild

Match_RootOnly(filter, topic) ==
    \/ filter = topic
    \/ /\ ~RootIsServer(filter, topic)
       /\ \/ \E i \in DOMAIN filter : filter[i] = "#" /\ i <= Len(topic) /\ LevelsAgree(filter, topic, i - 1)
          \/ Len(filter) = Len(topic) /\ LevelsAgree(filter, topic, Len(filter))
Match(filter, topic) ==
    \/ filter = topic
    \/ /\ ~RootIsServer(filter, topic)
       /\ \/ \E i \in DOMAIN filter : filter[i] = "#" /\ LevelsAgree(filter, topic, i - 1)
          \/ Len(filter) = Len(topic) /\ LevelsAgree(filter, topic, Len(filter))

\* What a broker means by a filter: a trailing # stands for any number of levels,
\* none among them, and a + for one.
Denotes(filter, topic) ==
    /\ ~RootIsServer(filter, topic)
    /\ \E n \in 0..Len(topic) :
        LET open == filter[Len(filter)] = "#"
            stem == IF open THEN SubSeq(filter, 1, Len(filter) - 1) ELSE filter
            full == IF open THEN stem \o [i \in 1..n |-> "+"] ELSE stem
        IN  /\ Len(full) = Len(topic)
            /\ \A i \in DOMAIN topic : full[i] \in {"+", topic[i]}

=============================================================================
