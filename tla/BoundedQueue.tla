---------------------------- MODULE BoundedQueue ----------------------------
(***************************************************************************)
(* BoundedQueue<T> of include/tickforge/bounded_queue.hpp: a std::queue    *)
(* behind one mutex and two condition variables, used by any number of     *)
(* pushing and popping threads and by threads that call shutdown().        *)
(*                                                                         *)
(* A step of the model is a stretch of code between two points at which    *)
(* another thread can interfere: taking the mutex and testing the wait     *)
(* predicate, releasing it into the wait set, the critical section up to   *)
(* the unlock, and each notify, which the code issues after the unlock.    *)
(* A thread that is blocked in wait() is one whose pc is push_wait or      *)
(* pop_wait; notify moves it to push_lock or pop_lock, where it competes   *)
(* for the mutex and tests its predicate again.                            *)
(***************************************************************************)
EXTENDS Naturals, Sequences, FiniteSets

CONSTANTS
  Producers,  \* threads that call push()
  Consumers,  \* threads that call pop()
  Stoppers,   \* threads that call shutdown()
  Item,       \* the values of type T
  NoItem,     \* "no call of push() in progress"
  NoThread,   \* owner of a free mutex
  Capacity,   \* capacity_ (0 is a legal argument of the constructor)
  MaxPushes   \* bound: number of push() calls

Threads == Producers \cup Consumers \cup Stoppers

ASSUME QueueAssumption ==
  /\ IsFiniteSet(Threads)
  /\ Producers \cap Consumers = {}
  /\ Producers \cap Stoppers = {}
  /\ Consumers \cap Stoppers = {}
  /\ NoItem \notin Item
  /\ NoThread \notin Threads
  /\ Capacity \in Nat
  /\ MaxPushes \in Nat

VARIABLES
  queue_,            \* the std::queue
  high_water_mark_,
  shutdown_,
  mutex_,            \* owner, or NoThread
  pc,                \* where each thread is
  item,              \* argument of the push() in progress
  pushes,            \* calls of push() so far (bounded by MaxPushes)
  result,            \* outcome of each thread's current or last call
  accepted,          \* history: items enqueued, in order
  delivered          \* history: items dequeued, in order

data == <<queue_, high_water_mark_, accepted, delivered>>
calls == <<item, pushes, result>>
vars == <<data, shutdown_, mutex_, pc, calls>>

Callers == Producers \cup Consumers

PushPc == {"idle", "push_lock", "push_block", "push_wait", "push_body",
           "push_notify"}
PopPc == {"idle", "pop_lock", "pop_block", "pop_wait", "pop_body",
          "pop_notify"}
StopPc == {"idle", "shut_full", "shut_empty"}

Waiting(S, label) == {t \in S : pc[t] = label}

Init ==
  /\ queue_ = <<>>
  /\ high_water_mark_ = 0
  /\ shutdown_ = FALSE
  /\ mutex_ = NoThread
  /\ pc = [t \in Threads |-> "idle"]
  /\ item = [p \in Producers |-> NoItem]
  /\ pushes = 0
  /\ result = [t \in Callers |-> "none"]
  /\ accepted = <<>>
  /\ delivered = <<>>

Goto(t, label) == pc' = [pc EXCEPT ![t] = label]

(* condition_variable::notify_one by t, which goes on to label: if threads *)
(* of S are blocked at from, one of them wakes up and goes for the mutex.  *)
NotifyOne(t, label, S, from, to) ==
  \/ /\ Waiting(S, from) = {}
     /\ Goto(t, label)
  \/ \E w \in Waiting(S, from) : pc' = [pc EXCEPT ![t] = label, ![w] = to]

(* condition_variable::notify_all by t. *)
NotifyAll(t, label, S, from, to) ==
  pc' = [u \in Threads |-> IF u = t THEN label
                           ELSE IF u \in Waiting(S, from) THEN to ELSE pc[u]]

-----------------------------------------------------------------------------
(* push() *)

NotFull == Len(queue_) < Capacity \/ shutdown_

(* The call itself; what it returned the last time is forgotten.  A        *)
(* producer may call again after a refused push().                         *)
PushCall(p, x) ==
  /\ pc[p] = "idle"
  /\ pushes < MaxPushes
  /\ pushes' = pushes + 1
  /\ item' = [item EXCEPT ![p] = x]
  /\ result' = [result EXCEPT ![p] = "none"]
  /\ Goto(p, "push_lock")
  /\ UNCHANGED <<data, shutdown_, mutex_>>

(* Take the mutex and evaluate the predicate of not_full_.wait(). *)
PushTest(p) ==
  /\ pc[p] = "push_lock"
  /\ mutex_ = NoThread
  /\ mutex_' = p
  /\ Goto(p, IF NotFull THEN "push_body" ELSE "push_block")
  /\ UNCHANGED <<data, shutdown_, calls>>

(* wait() releases the mutex and blocks in one atomic step. *)
PushBlock(p) ==
  /\ pc[p] = "push_block"
  /\ mutex_' = NoThread
  /\ Goto(p, "push_wait")
  /\ UNCHANGED <<data, shutdown_, calls>>

(* A wakeup nobody asked for, which condition_variable::wait allows. *)
PushSpurious(p) ==
  /\ pc[p] = "push_wait"
  /\ Goto(p, "push_lock")
  /\ UNCHANGED <<data, shutdown_, mutex_, calls>>

(* Mutant: shutdown_ is not tested again after the wait. *)
NeverRefuse == FALSE

(* The test of shutdown_ after the wait. *)
Refused == shutdown_

PushRefused(p) ==
  /\ pc[p] = "push_body"
  /\ Refused
  /\ mutex_' = NoThread
  /\ result' = [result EXCEPT ![p] = "false"]
  /\ item' = [item EXCEPT ![p] = NoItem]
  /\ Goto(p, "idle")
  /\ UNCHANGED <<data, shutdown_, pushes>>

PushEnqueue(p) ==
  /\ pc[p] = "push_body"
  /\ ~Refused
  /\ queue_' = Append(queue_, item[p])
  /\ high_water_mark_' = IF Len(queue_') > high_water_mark_
                         THEN Len(queue_') ELSE high_water_mark_
  /\ mutex_' = NoThread
  /\ accepted' = Append(accepted, item[p])
  /\ result' = [result EXCEPT ![p] = "true"]
  /\ item' = [item EXCEPT ![p] = NoItem]
  /\ Goto(p, "push_notify")
  /\ UNCHANGED <<shutdown_, pushes, delivered>>

(* Mutant: notify only when the queue has just become non-empty. *)
PushNotifyOnEdge(p) ==
  /\ pc[p] = "push_notify"
  /\ IF Len(queue_) = 1
     THEN NotifyOne(p, "idle", Consumers, "pop_wait", "pop_lock")
     ELSE Goto(p, "idle")
  /\ UNCHANGED <<data, shutdown_, mutex_, calls>>

(* not_empty_.notify_one() after the unlock, then return true. *)
PushNotify(p) ==
  /\ pc[p] = "push_notify"
  /\ NotifyOne(p, "idle", Consumers, "pop_wait", "pop_lock")
  /\ UNCHANGED <<data, shutdown_, mutex_, calls>>

-----------------------------------------------------------------------------
(* pop() *)

NotEmpty == queue_ # <<>> \/ shutdown_

(* Every caller in the repository is a loop `while (queue_.pop(event))`:   *)
(* a consumer calls again until pop() has returned false.                  *)
PopCall(c) ==
  /\ pc[c] = "idle"
  /\ result[c] # "false"
  /\ result' = [result EXCEPT ![c] = "none"]
  /\ Goto(c, "pop_lock")
  /\ UNCHANGED <<data, shutdown_, mutex_, item, pushes>>

PopTest(c) ==
  /\ pc[c] = "pop_lock"
  /\ mutex_ = NoThread
  /\ mutex_' = c
  /\ Goto(c, IF NotEmpty THEN "pop_body" ELSE "pop_block")
  /\ UNCHANGED <<data, shutdown_, calls>>

PopBlock(c) ==
  /\ pc[c] = "pop_block"
  /\ mutex_' = NoThread
  /\ Goto(c, "pop_wait")
  /\ UNCHANGED <<data, shutdown_, calls>>

PopSpurious(c) ==
  /\ pc[c] = "pop_wait"
  /\ Goto(c, "pop_lock")
  /\ UNCHANGED <<data, shutdown_, mutex_, calls>>

(* The test of the queue after the wait. *)
Drained == queue_ = <<>>

(* Shut down and drained: return false. *)
PopDrained(c) ==
  /\ pc[c] = "pop_body"
  /\ Drained
  /\ mutex_' = NoThread
  /\ result' = [result EXCEPT ![c] = "false"]
  /\ Goto(c, "idle")
  /\ UNCHANGED <<data, shutdown_, item, pushes>>

PopDequeue(c) ==
  /\ pc[c] = "pop_body"
  /\ ~Drained
  /\ delivered' = Append(delivered, Head(queue_))
  /\ queue_' = Tail(queue_)
  /\ mutex_' = NoThread
  /\ result' = [result EXCEPT ![c] = "true"]
  /\ Goto(c, "pop_notify")
  /\ UNCHANGED <<high_water_mark_, shutdown_, item, pushes, accepted>>

(* Mutant: notify only when the queue has just stopped being full. *)
PopNotifyOnEdge(c) ==
  /\ pc[c] = "pop_notify"
  /\ IF Len(queue_) = Capacity - 1
     THEN NotifyOne(c, "idle", Producers, "push_wait", "push_lock")
     ELSE Goto(c, "idle")
  /\ UNCHANGED <<data, shutdown_, mutex_, calls>>

(* not_full_.notify_one() after the unlock, then return true. *)
PopNotify(c) ==
  /\ pc[c] = "pop_notify"
  /\ NotifyOne(c, "idle", Producers, "push_wait", "push_lock")
  /\ UNCHANGED <<data, shutdown_, mutex_, calls>>

-----------------------------------------------------------------------------
(* shutdown(), idempotent: a stopper may call it again. *)

(* Mutant: shutdown_ is set without the mutex. *)
ShutdownSetUnlocked(s) ==
  /\ pc[s] = "idle"
  /\ shutdown_' = TRUE
  /\ Goto(s, "shut_full")
  /\ UNCHANGED <<data, mutex_, calls>>

ShutdownSet(s) ==
  /\ pc[s] = "idle"
  /\ mutex_ = NoThread
  /\ shutdown_' = TRUE
  /\ Goto(s, "shut_full")
  /\ UNCHANGED <<data, mutex_, calls>>

ShutdownNotifyFull(s) ==
  /\ pc[s] = "shut_full"
  /\ NotifyAll(s, "shut_empty", Producers, "push_wait", "push_lock")
  /\ UNCHANGED <<data, shutdown_, mutex_, calls>>

(* Mutant: notify_one() where notify_all() is needed. *)
ShutdownNotifyOneEmpty(s) ==
  /\ pc[s] = "shut_empty"
  /\ NotifyOne(s, "idle", Consumers, "pop_wait", "pop_lock")
  /\ UNCHANGED <<data, shutdown_, mutex_, calls>>

ShutdownNotifyEmpty(s) ==
  /\ pc[s] = "shut_empty"
  /\ NotifyAll(s, "idle", Consumers, "pop_wait", "pop_lock")
  /\ UNCHANGED <<data, shutdown_, mutex_, calls>>

-----------------------------------------------------------------------------
PushStep(p) ==
  \/ PushTest(p) \/ PushBlock(p) \/ PushRefused(p) \/ PushEnqueue(p)
  \/ PushNotify(p)

PopStep(c) ==
  \/ PopTest(c) \/ PopBlock(c) \/ PopDrained(c) \/ PopDequeue(c)
  \/ PopNotify(c)

ShutdownStep(s) == ShutdownNotifyFull(s) \/ ShutdownNotifyEmpty(s)

Next ==
  \/ \E p \in Producers :
       \/ \E x \in Item : PushCall(p, x)
       \/ PushStep(p)
       \/ PushSpurious(p)
  \/ \E c \in Consumers : PopCall(c) \/ PopStep(c) \/ PopSpurious(c)
  \/ \E s \in Stoppers : ShutdownSet(s) \/ ShutdownStep(s)

Spec == Init /\ [][Next]_vars

(* A thread that is inside an operation keeps running, a mutex that is     *)
(* free again and again is eventually obtained (the one place where weak   *)
(* fairness is not enough), and consumers loop on pop().  Nothing makes a  *)
(* producer push, a stopper call shutdown(), or a wakeup be spurious.      *)
Fairness ==
  /\ \A p \in Producers : SF_vars(PushTest(p)) /\ WF_vars(PushStep(p))
  /\ \A c \in Consumers : /\ SF_vars(PopTest(c)) /\ WF_vars(PopStep(c))
                          /\ WF_vars(PopCall(c))
  /\ \A s \in Stoppers : WF_vars(ShutdownStep(s))

FairSpec == Spec /\ Fairness

-----------------------------------------------------------------------------
(* Safety *)

(* Every variable has the values its declaration in the class allows, and  *)
(* every thread is inside the function it called.                          *)
TypeOK ==
  /\ queue_ \in Seq(Item)
  /\ high_water_mark_ \in Nat
  /\ shutdown_ \in BOOLEAN
  /\ mutex_ \in Threads \cup {NoThread}
  /\ pc \in [Threads -> PushPc \cup PopPc \cup StopPc]
  /\ \A p \in Producers : pc[p] \in PushPc
  /\ \A c \in Consumers : pc[c] \in PopPc
  /\ \A s \in Stoppers : pc[s] \in StopPc
  /\ item \in [Producers -> Item \cup {NoItem}]
  /\ pushes \in Nat
  /\ result \in [Callers -> {"none", "true", "false"}]
  /\ accepted \in Seq(Item)
  /\ delivered \in Seq(Item)

(* Nothing push() accepted is dropped, duplicated or reordered, whatever   *)
(* the threads do and whenever shutdown() comes: it has been handed out or *)
(* is still queued, in the order of acceptance.                            *)
NothingLost == accepted = delivered \o queue_

(* push() waits while the queue is full: the queue never outgrows          *)
(* capacity_, and the high-water mark bounds what it ever held.            *)
CapacityBound ==
  /\ Len(queue_) <= high_water_mark_
  /\ high_water_mark_ <= Capacity

(* A consumer is told "no more" only when there is no more: after          *)
(* shutdown(), with every accepted item handed out.  Since push() accepts  *)
(* nothing from then on, no item can appear behind its back.               *)
DrainedBeforeFalse ==
  \A c \in Consumers : result[c] = "false" => shutdown_ /\ delivered = accepted

(* Threads inside a call that are awake and have yet to act on the queue.  *)
AwakePoppers == {c \in Consumers : pc[c] \in {"pop_lock", "pop_body"}}
AwakePushers == {p \in Producers : pc[p] \in {"push_lock", "push_body"}}

(* notify_one() is called after the unlock, and may pick a waiter or find  *)
(* none.  No wakeup is lost by that: while a consumer sleeps in pop(),     *)
(* every queued item has a notification on its way or an awake consumer    *)
(* inside pop() that has yet to test the queue.                            *)
ItemWakeupPending ==
  Waiting(Consumers, "pop_wait") # {} =>
    Len(queue_) <= Cardinality(Waiting(Producers, "push_notify"))
                   + Cardinality(AwakePoppers)

(* The same for the other direction: while a producer sleeps in push(),    *)
(* every free slot has a notification on its way or an awake producer that *)
(* has yet to test the queue.                                              *)
SlotWakeupPending ==
  Waiting(Producers, "push_wait") # {} /\ ~shutdown_ =>
    Capacity - Len(queue_)
      <= Cardinality(Waiting(Consumers, "pop_notify"))
         + Cardinality(AwakePushers)

(* shutdown() reaches every sleeper, also one that tested its predicate    *)
(* just before shutdown_ was set: whoever sleeps after that has a          *)
(* notify_all() ahead of it.                                               *)
ShutdownWakeupPending ==
  shutdown_ =>
    /\ Waiting(Producers, "push_wait") # {} =>
         Waiting(Stoppers, "shut_full") # {}
    /\ Waiting(Consumers, "pop_wait") # {} =>
         {s \in Stoppers : pc[s] \in {"shut_full", "shut_empty"}} # {}

(* The monitor implements the channel its callers see: each push(), pop()  *)
(* and shutdown() takes effect in one step inside its critical section.    *)
Channel == INSTANCE BoundedChannel
             WITH Senders <- Producers, Receivers <- Consumers,
                  closed <- shutdown_, highWater <- high_water_mark_

ChannelSpec == Channel!Spec

-----------------------------------------------------------------------------
(* Liveness, under FairSpec *)

(* Every accepted item is handed out, with or without a shutdown().        *)
EveryItemDelivered ==
  \A n \in 1..MaxPushes : Len(accepted) >= n ~> Len(delivered) >= n

(* After shutdown() every consumer loop ends.                              *)
ShutdownEndsConsumers == shutdown_ ~> \A c \in Consumers : result[c] = "false"

(* A blocked push() does not keep the queue from moving: as long as        *)
(* consumers pop, the call returns or another one is accepted meanwhile,   *)
(* so that with one producer, as in IngestionPipeline, every push()        *)
(* returns.  Of several producers one may be overtaken for ever, because   *)
(* notify_one() promises it nothing but another look at the queue.  After  *)
(* shutdown() every push() returns.                                        *)
PushProgress ==
  \A p \in Producers :
    /\ \A n \in 0..MaxPushes :
         pc[p] # "idle" /\ Len(accepted) = n ~> pc[p] = "idle" \/ Len(accepted) > n
    /\ pc[p] # "idle" /\ shutdown_ ~> pc[p] = "idle"
=============================================================================
