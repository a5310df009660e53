--------------------------- MODULE EventPublisher ---------------------------
(***************************************************************************)
(* What the interface EventPublisher (include/tickforge/event_publisher.hpp) *)
(* promises the pipeline, with the delivery counts of KafkaEventProducer   *)
(* that services/ingestion prints.  Events are numbered by the calls of    *)
(* publish().  An accepted event is pending until a delivery report for it *)
(* has been counted; the broker may store it meanwhile, and only a stored  *)
(* one is reported as delivered.  A failed report says nothing: the broker *)
(* may have the event.                                                     *)
(***************************************************************************)
EXTENDS Naturals, FiniteSets

VARIABLES
  published,  \* calls of publish()
  pending,    \* events accepted and not yet reported
  onBroker,   \* events the broker has stored
  dropped,    \* number of events pending when the publisher was destroyed
  successes,  \* deliverySuccessCount()
  failures,   \* deliveryFailureCount()
  flushed,    \* how the last flush() ended: no, done or timeout
  open        \* not destroyed yet

vars == <<published, pending, onBroker, dropped, successes, failures, flushed, open>>

Init ==
  /\ published = 0
  /\ pending = {}
  /\ onBroker = {}
  /\ dropped = 0
  /\ successes = 0
  /\ failures = 0
  /\ flushed = "no"
  /\ open = TRUE

(* publish() returns ok. *)
Publish(ok) ==
  /\ open
  /\ published' = published + 1
  /\ pending' = IF ok THEN pending \cup {published + 1} ELSE pending
  /\ flushed' = "no"
  /\ UNCHANGED <<onBroker, dropped, successes, failures, open>>

Store(e) ==
  /\ e \in pending
  /\ onBroker' = onBroker \cup {e}
  /\ UNCHANGED <<published, pending, dropped, successes, failures, flushed, open>>

(* Mutant: every report is taken for a success. *)
SettleUnread(S, F) ==
  /\ S \cup F \subseteq pending /\ S \cap F = {}
  /\ pending' = pending \ (S \cup F)
  /\ successes' = successes + Cardinality(S \cup F)
  /\ UNCHANGED <<published, onBroker, dropped, failures, flushed, open>>

(* Mutant: reports of failure are not counted. *)
SettleUncounted(S, F) ==
  /\ S \cup F \subseteq pending /\ S \cap F = {}
  /\ S \subseteq onBroker
  /\ pending' = pending \ (S \cup F)
  /\ successes' = successes + Cardinality(S)
  /\ UNCHANGED <<published, onBroker, dropped, failures, flushed, open>>

(* Reports are called back: S was delivered, F was not. *)
Settle(S, F) ==
  /\ S \cup F \subseteq pending /\ S \cap F = {}
  /\ S \subseteq onBroker
  /\ pending' = pending \ (S \cup F)
  /\ successes' = successes + Cardinality(S)
  /\ failures' = failures + Cardinality(F)
  /\ UNCHANGED <<published, onBroker, dropped, flushed, open>>

(* flush() returns because nothing is pending, or at its timeout. *)
Flush(done) ==
  /\ open
  /\ done => pending = {}
  /\ flushed' = IF done THEN "done" ELSE "timeout"
  /\ UNCHANGED <<published, pending, onBroker, dropped, successes, failures, open>>

(* The destructor gives up what is still pending. *)
Destroy ==
  /\ open
  /\ dropped' = Cardinality(pending)
  /\ pending' = {}
  /\ open' = FALSE
  /\ UNCHANGED <<published, onBroker, successes, failures, flushed>>

Next ==
  \/ \E ok \in BOOLEAN : Publish(ok) \/ Flush(ok)
  \/ \E e \in pending : Store(e)
  \/ \E S, F \in SUBSET pending : Settle(S, F)
  \/ Destroy

Spec == Init /\ [][Next]_vars
=============================================================================
