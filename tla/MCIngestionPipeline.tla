------------------------ MODULE MCIngestionPipeline ------------------------
(***************************************************************************)
(* IngestionPipeline for TLC: the cfg files give the constants values.     *)
(***************************************************************************)
EXTENDS IngestionPipeline
=============================================================================
