-------------------------- MODULE MCRequestRouter ---------------------------
(* An instance of RequestRouter: a request for the script's page, the file of      *)
(* which serves it, or one level of it, or nothing; two calls that can fail.      *)
EXTENDS RequestRouter

CONSTANT c1

Get(prefix) == [method |-> "GET", prefix |-> prefix]
MCAsked == [c \in {c1} |-> [mounted |-> TRUE, method |-> "GET", path |-> <<"a", "b">>]]
MCFiles == {{Get(<<>>), Get(<<"a">>)}, {}}

=============================================================================
