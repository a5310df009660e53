--------------------------- MODULE MCBoundedQueue ---------------------------
(***************************************************************************)
(* BoundedQueue for TLC: two threads on each side, so that a notification  *)
(* can wake the wrong one.  One item value is enough here, because order   *)
(* is proved for all of them; no symmetry, because liveness is checked.    *)
(***************************************************************************)
EXTENDS BoundedQueue
=============================================================================
