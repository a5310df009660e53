-------------------------- MODULE MarketDataSource --------------------------
(***************************************************************************)
(* What the interface MarketDataSource                                     *)
(* (include/tickforge/market_data_source.hpp) promises the thread that     *)
(* calls next(): false means no more events, because of stop() or because  *)
(* the source ended; true means an event, and no call that begins after    *)
(* stop() returns one.  IngestionPipeline assumes this of its source.      *)
(***************************************************************************)
CONSTANT Ends  \* whether the source can end by itself (a replay file)

VARIABLES
  caller,          \* the thread that calls next()
  outcome,         \* what next() returned last
  stop_requested

vars == <<caller, outcome, stop_requested>>

Init ==
  /\ caller = "idle"
  /\ outcome = "none"
  /\ stop_requested = FALSE

(* start() comes before next(): it withdraws an earlier stop().            *)
Start ==
  /\ caller = "idle"
  /\ stop_requested' = FALSE
  /\ UNCHANGED <<caller, outcome>>

(* stop(), from any thread at any time. *)
Stop ==
  /\ stop_requested' = TRUE
  /\ UNCHANGED <<caller, outcome>>

Call ==
  /\ caller = "idle"
  /\ caller' = "called"
  /\ outcome' = "none"
  /\ UNCHANGED stop_requested

(* The call has seen that there is no stop request. *)
Enter ==
  /\ caller = "called"
  /\ ~stop_requested
  /\ caller' = "open"
  /\ UNCHANGED <<outcome, stop_requested>>

ReturnTrue ==
  /\ caller = "open"
  /\ caller' = "idle"
  /\ outcome' = "true"
  /\ UNCHANGED stop_requested

ReturnFalse ==
  /\ caller \in {"called", "open"}
  /\ stop_requested \/ Ends
  /\ caller' = "idle"
  /\ outcome' = "false"
  /\ UNCHANGED stop_requested

Next == Start \/ Stop \/ Call \/ Enter \/ ReturnTrue \/ ReturnFalse

Spec == Init /\ [][Next]_vars
=============================================================================
