-------------------------- MODULE MCKafkaConsumer --------------------------
(***************************************************************************)
(* KafkaConsumer for TLC.  Two runs are the least in which a message can   *)
(* be redelivered, two messages the least in which one is behind another   *)
(* in its partition or waits while another partition is served.            *)
(***************************************************************************)
EXTENDS KafkaConsumer
=============================================================================
