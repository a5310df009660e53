--------------------------- MODULE BoundedChannel ---------------------------
(***************************************************************************)
(* What BoundedQueue<T> (include/tickforge/bounded_queue.hpp) promises its *)
(* callers, with no lock and no condition variable: a first-in first-out   *)
(* channel of bounded size that can be closed.  Sending fails only once    *)
(* the channel is closed; receiving fails only once it is closed and       *)
(* everything accepted has been delivered.  BoundedQueue implements this   *)
(* specification; IngestionPipeline uses it for its queue_ member.         *)
(***************************************************************************)
EXTENDS Naturals, Sequences

CONSTANTS
  Senders,    \* threads that call push()
  Receivers,  \* threads that call pop()
  Item,       \* the values of type T
  Capacity    \* capacity_

VARIABLES
  accepted,   \* items push() accepted, in order
  delivered,  \* items pop() handed out, in order
  closed,     \* shutdown() has taken effect
  highWater,  \* the most items the channel ever held
  result      \* per caller: outcome of its current or last call

vars == <<accepted, delivered, closed, highWater, result>>

Callers == Senders \cup Receivers

Pending == Len(accepted) - Len(delivered)

Init ==
  /\ accepted = <<>>
  /\ delivered = <<>>
  /\ closed = FALSE
  /\ highWater = 0
  /\ result = [t \in Callers |-> "none"]

(* A caller starts a new call: the outcome of its previous one is gone. *)
Call(t) ==
  /\ result' = [result EXCEPT ![t] = "none"]
  /\ UNCHANGED <<accepted, delivered, closed, highWater>>

Accept(s, x) ==
  /\ result[s] = "none"
  /\ ~closed
  /\ Pending < Capacity
  /\ accepted' = Append(accepted, x)
  /\ highWater' = IF Pending + 1 > highWater THEN Pending + 1 ELSE highWater
  /\ result' = [result EXCEPT ![s] = "true"]
  /\ UNCHANGED <<delivered, closed>>

Refuse(s) ==
  /\ result[s] = "none"
  /\ closed
  /\ result' = [result EXCEPT ![s] = "false"]
  /\ UNCHANGED <<accepted, delivered, closed, highWater>>

(* The oldest accepted item that was not delivered yet. *)
Deliver(r) ==
  /\ result[r] = "none"
  /\ Pending > 0
  /\ delivered' = Append(delivered, accepted[Len(delivered) + 1])
  /\ result' = [result EXCEPT ![r] = "true"]
  /\ UNCHANGED <<accepted, closed, highWater>>

EndOfStream(r) ==
  /\ result[r] = "none"
  /\ closed
  /\ Pending = 0
  /\ result' = [result EXCEPT ![r] = "false"]
  /\ UNCHANGED <<accepted, delivered, closed, highWater>>

Close ==
  /\ closed' = TRUE
  /\ UNCHANGED <<accepted, delivered, highWater, result>>

Next ==
  \/ \E t \in Callers : Call(t)
  \/ \E s \in Senders : Refuse(s) \/ \E x \in Item : Accept(s, x)
  \/ \E r \in Receivers : Deliver(r) \/ EndOfStream(r)
  \/ Close

Spec == Init /\ [][Next]_vars
=============================================================================
