----------------------------- MODULE MCHistory ------------------------------
(* An instance of History: the light is kept twice as long as the automation, by *)
(* the second of three rules; the first is malformed, the third overlaps it.      *)
EXTENDS History

MCRules == <<[pattern |-> {Light}, days |-> 0],
             [pattern |-> {Light}, days |-> 2],
             [pattern |-> {Light}, days |-> 1]>>

=============================================================================
