-------------------------------- MODULE MCMqtt ---------------------------------
(***************************************************************************)
(* An instance of MqttConsumer for TLC: two topics, so that one can be     *)
(* registered while the other is being subscribed to.                      *)
(***************************************************************************)
EXTENDS MqttConsumer

CONSTANTS t1, t2

TwoTopics == {t1, t2}

================================================================================
