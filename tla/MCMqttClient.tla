---------------------------- MODULE MCMqttClient ----------------------------
(* An instance of MqttClient: two scripts share a filter, the first has one that *)
(* denotes its own parent too, the second one that its load refuses.              *)
EXTENDS MqttClient

CONSTANTS button, climate

MCScripts == {button, climate}
Shared == <<"+">>
MCAsks == [s \in MCScripts |->
            IF s = button THEN << <<"z", "#">>, Shared>> ELSE <<Shared, <<"#", "z">> >>]
MCTopics == {<<"z">>, <<"$SYS">>}
MCRetained == {<<"z">>}

=============================================================================
