---------------------------- MODULE MCLiveSource ----------------------------
(***************************************************************************)
(* LiveSource for TLC.  Backoff is counted in units of ten seconds, so     *)
(* that the schedule 1, 2, 3, 3 reaches its cap.                           *)
(***************************************************************************)
EXTENDS LiveSource
=============================================================================
