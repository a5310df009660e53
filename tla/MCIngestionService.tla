------------------------- MODULE MCIngestionService -------------------------
(***************************************************************************)
(* IngestionService for TLC: the cfg gives the constants values.           *)
(***************************************************************************)
EXTENDS IngestionService
=============================================================================
