-------------------------- MODULE MCKafkaProducer --------------------------
(***************************************************************************)
(* KafkaProducer for TLC: two keys, three events and a queue of two, so    *)
(* that the queue is full while earlier events are in any state.           *)
(***************************************************************************)
EXTENDS KafkaProducer, TLC

Symmetry == Permutations(Symbols)
=============================================================================
