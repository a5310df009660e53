------------------------- MODULE BoundedQueue_proofs -------------------------
(***************************************************************************)
(* Proofs about BoundedQueue for any finite sets of threads, any item set, *)
(* any capacity (0 included) and any number of calls.                      *)
(*                                                                         *)
(* The safety properties are not inductive by themselves: they depend on   *)
(* what a thread that holds the mutex learned when it tested its wait      *)
(* predicate still being true when it acts on it.  IInv adds that: the     *)
(* mutex is owned by exactly the threads inside a critical section, and    *)
(* the predicate the owner tested still has the value it saw.              *)
(***************************************************************************)
EXTENDS BoundedQueue, TLAPS, SequenceTheorems, FiniteSetTheorems

USE DEF data, calls, Refused, Drained

InPush == {"push_lock", "push_block", "push_wait", "push_body"}
InPop == {"pop_lock", "pop_block", "pop_wait", "pop_body"}
Critical == {"push_block", "push_body", "pop_block", "pop_body"}

(* The mutex is held exactly by the thread inside a critical section. *)
MutexInv == \A t \in Threads : pc[t] \in Critical <=> mutex_ = t

(* Inside a call its outcome is open, and inside push() the item is there. *)
CallInv ==
  /\ \A p \in Producers : pc[p] \in InPush => item[p] \in Item /\ result[p] = "none"
  /\ \A c \in Consumers : pc[c] \in InPop => result[c] = "none"

(* What the owner of the mutex saw when it tested its predicate holds. *)
TestedInv ==
  \A t \in Threads :
    /\ pc[t] = "push_body" => NotFull
    /\ pc[t] = "push_block" => ~NotFull
    /\ pc[t] = "pop_body" => NotEmpty
    /\ pc[t] = "pop_block" => ~NotEmpty

IInv ==
  /\ TypeOK
  /\ MutexInv
  /\ CallInv
  /\ TestedInv
  /\ NothingLost
  /\ CapacityBound
  /\ DrainedBeforeFalse

-----------------------------------------------------------------------------
(* Every step keeps the types; the item of a push() in progress is a real  *)
(* item because CallInv says so.                                           *)
LEMMA TypeStep ==
  ASSUME TypeOK, CallInv, [Next]_vars
  PROVE TypeOK'
<1> USE QueueAssumption DEF TypeOK, CallInv, Threads, Callers, PushPc, PopPc, StopPc, InPush, InPop
<1>1. ASSUME NEW p \in Producers, NEW x \in Item, PushCall(p, x) PROVE TypeOK'
  BY <1>1 DEF PushCall, Goto
<1>2. ASSUME NEW p \in Producers, PushTest(p) PROVE TypeOK'
  BY <1>2 DEF PushTest, Goto
<1>3. ASSUME NEW p \in Producers, PushBlock(p) PROVE TypeOK'
  BY <1>3 DEF PushBlock, Goto
<1>4. ASSUME NEW p \in Producers, PushSpurious(p) PROVE TypeOK'
  BY <1>4 DEF PushSpurious, Goto
<1>5. ASSUME NEW p \in Producers, PushRefused(p) PROVE TypeOK'
  BY <1>5 DEF PushRefused, Goto
<1>6. ASSUME NEW p \in Producers, PushEnqueue(p) PROVE TypeOK'
  BY <1>6 DEF PushEnqueue, Goto
<1>7. ASSUME NEW p \in Producers, PushNotify(p) PROVE TypeOK'
  BY <1>7, ZenonT(60) DEF PushNotify, NotifyOne, Waiting, Goto
<1>8. ASSUME NEW c \in Consumers, PopCall(c) PROVE TypeOK'
  BY <1>8 DEF PopCall, Goto
<1>9. ASSUME NEW c \in Consumers, PopTest(c) PROVE TypeOK'
  BY <1>9 DEF PopTest, Goto
<1>10. ASSUME NEW c \in Consumers, PopBlock(c) PROVE TypeOK'
  BY <1>10 DEF PopBlock, Goto
<1>11. ASSUME NEW c \in Consumers, PopSpurious(c) PROVE TypeOK'
  BY <1>11 DEF PopSpurious, Goto
<1>12. ASSUME NEW c \in Consumers, PopDrained(c) PROVE TypeOK'
  BY <1>12 DEF PopDrained, Goto
<1>13. ASSUME NEW c \in Consumers, PopDequeue(c) PROVE TypeOK'
  BY <1>13 DEF PopDequeue, Goto
<1>14. ASSUME NEW c \in Consumers, PopNotify(c) PROVE TypeOK'
  BY <1>14, ZenonT(60) DEF PopNotify, NotifyOne, Waiting, Goto
<1>15. ASSUME NEW s \in Stoppers, ShutdownSet(s) PROVE TypeOK'
  BY <1>15 DEF ShutdownSet, Goto
<1>16. ASSUME NEW s \in Stoppers, ShutdownNotifyFull(s) PROVE TypeOK'
  BY <1>16 DEF ShutdownNotifyFull, NotifyAll, Waiting
<1>17. ASSUME NEW s \in Stoppers, ShutdownNotifyEmpty(s) PROVE TypeOK'
  BY <1>17, SMTT(40) DEF ShutdownNotifyEmpty, NotifyAll, Waiting
<1>18. CASE UNCHANGED vars
  BY <1>18 DEF vars
<1>19. QED
  BY <1>1, <1>2, <1>3, <1>4, <1>5, <1>6, <1>7, <1>8, <1>9, <1>10, <1>11,
     <1>12, <1>13, <1>14, <1>15, <1>16, <1>17, <1>18
  DEF Next, PushStep, PopStep, ShutdownStep

(* A thread enters a critical section only by finding the mutex free, and  *)
(* leaves it by freeing the mutex.                                         *)
LEMMA MutexStep ==
  ASSUME TypeOK, MutexInv, [Next]_vars
  PROVE MutexInv'
<1> USE QueueAssumption DEF TypeOK, MutexInv, Critical, Threads, PushPc, PopPc, StopPc
<1>1. ASSUME NEW p \in Producers, NEW x \in Item, PushCall(p, x) PROVE MutexInv'
  BY <1>1 DEF PushCall, Goto
<1>2. ASSUME NEW p \in Producers, PushTest(p) PROVE MutexInv'
  BY <1>2 DEF PushTest, Goto
<1>3. ASSUME NEW p \in Producers, PushBlock(p) PROVE MutexInv'
  BY <1>3 DEF PushBlock, Goto
<1>4. ASSUME NEW p \in Producers, PushSpurious(p) PROVE MutexInv'
  BY <1>4 DEF PushSpurious, Goto
<1>5. ASSUME NEW p \in Producers, PushRefused(p) PROVE MutexInv'
  BY <1>5 DEF PushRefused, Goto
<1>6. ASSUME NEW p \in Producers, PushEnqueue(p) PROVE MutexInv'
  BY <1>6 DEF PushEnqueue, Goto
<1>7. ASSUME NEW p \in Producers, PushNotify(p) PROVE MutexInv'
  BY <1>7, SMTT(40) DEF PushNotify, NotifyOne, Waiting, Goto
<1>8. ASSUME NEW c \in Consumers, PopCall(c) PROVE MutexInv'
  BY <1>8 DEF PopCall, Goto
<1>9. ASSUME NEW c \in Consumers, PopTest(c) PROVE MutexInv'
  BY <1>9 DEF PopTest, Goto
<1>10. ASSUME NEW c \in Consumers, PopBlock(c) PROVE MutexInv'
  BY <1>10 DEF PopBlock, Goto
<1>11. ASSUME NEW c \in Consumers, PopSpurious(c) PROVE MutexInv'
  BY <1>11 DEF PopSpurious, Goto
<1>12. ASSUME NEW c \in Consumers, PopDrained(c) PROVE MutexInv'
  BY <1>12 DEF PopDrained, Goto
<1>13. ASSUME NEW c \in Consumers, PopDequeue(c) PROVE MutexInv'
  BY <1>13 DEF PopDequeue, Goto
<1>14. ASSUME NEW c \in Consumers, PopNotify(c) PROVE MutexInv'
  BY <1>14, SMTT(40) DEF PopNotify, NotifyOne, Waiting, Goto
<1>15. ASSUME NEW s \in Stoppers, ShutdownSet(s) PROVE MutexInv'
  BY <1>15 DEF ShutdownSet, Goto
<1>16. ASSUME NEW s \in Stoppers, ShutdownNotifyFull(s) PROVE MutexInv'
  BY <1>16 DEF ShutdownNotifyFull, NotifyAll, Waiting
<1>17. ASSUME NEW s \in Stoppers, ShutdownNotifyEmpty(s) PROVE MutexInv'
  BY <1>17, SMTT(40) DEF ShutdownNotifyEmpty, NotifyAll, Waiting
<1>18. CASE UNCHANGED vars
  BY <1>18 DEF vars
<1>19. QED
  BY <1>1, <1>2, <1>3, <1>4, <1>5, <1>6, <1>7, <1>8, <1>9, <1>10, <1>11,
     <1>12, <1>13, <1>14, <1>15, <1>16, <1>17, <1>18
  DEF Next, PushStep, PopStep, ShutdownStep

(* A call has no outcome until its critical section decides it, and push() *)
(* keeps its item until then.                                              *)
LEMMA CallStep ==
  ASSUME TypeOK, CallInv, [Next]_vars
  PROVE CallInv'
<1> USE QueueAssumption DEF TypeOK, CallInv, InPush, InPop, Threads, Callers
<1>1. ASSUME NEW p \in Producers, NEW x \in Item, PushCall(p, x) PROVE CallInv'
  BY <1>1 DEF PushCall, Goto
<1>2. ASSUME NEW p \in Producers, PushTest(p) PROVE CallInv'
  BY <1>2 DEF PushTest, Goto
<1>3. ASSUME NEW p \in Producers, PushBlock(p) PROVE CallInv'
  BY <1>3 DEF PushBlock, Goto
<1>4. ASSUME NEW p \in Producers, PushSpurious(p) PROVE CallInv'
  BY <1>4 DEF PushSpurious, Goto
<1>5. ASSUME NEW p \in Producers, PushRefused(p) PROVE CallInv'
  BY <1>5 DEF PushRefused, Goto
<1>6. ASSUME NEW p \in Producers, PushEnqueue(p) PROVE CallInv'
  BY <1>6 DEF PushEnqueue, Goto
<1>7. ASSUME NEW p \in Producers, PushNotify(p) PROVE CallInv'
  BY <1>7, SMTT(40) DEF PushNotify, NotifyOne, Waiting, Goto
<1>8. ASSUME NEW c \in Consumers, PopCall(c) PROVE CallInv'
  BY <1>8 DEF PopCall, Goto
<1>9. ASSUME NEW c \in Consumers, PopTest(c) PROVE CallInv'
  BY <1>9 DEF PopTest, Goto
<1>10. ASSUME NEW c \in Consumers, PopBlock(c) PROVE CallInv'
  BY <1>10 DEF PopBlock, Goto
<1>11. ASSUME NEW c \in Consumers, PopSpurious(c) PROVE CallInv'
  BY <1>11 DEF PopSpurious, Goto
<1>12. ASSUME NEW c \in Consumers, PopDrained(c) PROVE CallInv'
  BY <1>12 DEF PopDrained, Goto
<1>13. ASSUME NEW c \in Consumers, PopDequeue(c) PROVE CallInv'
  BY <1>13 DEF PopDequeue, Goto
<1>14. ASSUME NEW c \in Consumers, PopNotify(c) PROVE CallInv'
  BY <1>14, ZenonT(60) DEF PopNotify, NotifyOne, Waiting, Goto
<1>15. ASSUME NEW s \in Stoppers, ShutdownSet(s) PROVE CallInv'
  BY <1>15 DEF ShutdownSet, Goto
<1>16. ASSUME NEW s \in Stoppers, ShutdownNotifyFull(s) PROVE CallInv'
  BY <1>16 DEF ShutdownNotifyFull, NotifyAll, Waiting
<1>17. ASSUME NEW s \in Stoppers, ShutdownNotifyEmpty(s) PROVE CallInv'
  BY <1>17, SMTT(40) DEF ShutdownNotifyEmpty, NotifyAll, Waiting
<1>18. CASE UNCHANGED vars
  BY <1>18 DEF vars
<1>19. QED
  BY <1>1, <1>2, <1>3, <1>4, <1>5, <1>6, <1>7, <1>8, <1>9, <1>10, <1>11,
     <1>12, <1>13, <1>14, <1>15, <1>16, <1>17, <1>18
  DEF Next, PushStep, PopStep, ShutdownStep

(* While a thread holds the mutex nobody changes the queue or shutdown_,   *)
(* so the predicate it tested keeps its value.                             *)
LEMMA TestedStep ==
  ASSUME TypeOK, MutexInv, TestedInv, [Next]_vars
  PROVE TestedInv'
<1> USE QueueAssumption DEF TypeOK, MutexInv, TestedInv, Critical, Threads,
        NotFull, NotEmpty, PushPc, PopPc, StopPc
<1>1. ASSUME NEW p \in Producers, NEW x \in Item, PushCall(p, x) PROVE TestedInv'
  BY <1>1 DEF PushCall, Goto
<1>2. ASSUME NEW p \in Producers, PushTest(p) PROVE TestedInv'
  BY <1>2 DEF PushTest, Goto
<1>3. ASSUME NEW p \in Producers, PushBlock(p) PROVE TestedInv'
  BY <1>3 DEF PushBlock, Goto
<1>4. ASSUME NEW p \in Producers, PushSpurious(p) PROVE TestedInv'
  BY <1>4 DEF PushSpurious, Goto
<1>5. ASSUME NEW p \in Producers, PushRefused(p) PROVE TestedInv'
  BY <1>5 DEF PushRefused, Goto
<1>6. ASSUME NEW p \in Producers, PushEnqueue(p) PROVE TestedInv'
  BY <1>6 DEF PushEnqueue, Goto
<1>7. ASSUME NEW p \in Producers, PushNotify(p) PROVE TestedInv'
  BY <1>7, SMTT(40) DEF PushNotify, NotifyOne, Waiting, Goto
<1>8. ASSUME NEW c \in Consumers, PopCall(c) PROVE TestedInv'
  BY <1>8 DEF PopCall, Goto
<1>9. ASSUME NEW c \in Consumers, PopTest(c) PROVE TestedInv'
  BY <1>9 DEF PopTest, Goto
<1>10. ASSUME NEW c \in Consumers, PopBlock(c) PROVE TestedInv'
  BY <1>10 DEF PopBlock, Goto
<1>11. ASSUME NEW c \in Consumers, PopSpurious(c) PROVE TestedInv'
  BY <1>11 DEF PopSpurious, Goto
<1>12. ASSUME NEW c \in Consumers, PopDrained(c) PROVE TestedInv'
  BY <1>12 DEF PopDrained, Goto
<1>13. ASSUME NEW c \in Consumers, PopDequeue(c) PROVE TestedInv'
  BY <1>13 DEF PopDequeue, Goto
<1>14. ASSUME NEW c \in Consumers, PopNotify(c) PROVE TestedInv'
  BY <1>14, SMTT(40) DEF PopNotify, NotifyOne, Waiting, Goto
<1>15. ASSUME NEW s \in Stoppers, ShutdownSet(s) PROVE TestedInv'
  BY <1>15 DEF ShutdownSet, Goto
<1>16. ASSUME NEW s \in Stoppers, ShutdownNotifyFull(s) PROVE TestedInv'
  BY <1>16 DEF ShutdownNotifyFull, NotifyAll, Waiting
<1>17. ASSUME NEW s \in Stoppers, ShutdownNotifyEmpty(s) PROVE TestedInv'
  BY <1>17, SMTT(40) DEF ShutdownNotifyEmpty, NotifyAll, Waiting
<1>18. CASE UNCHANGED vars
  BY <1>18 DEF vars
<1>19. QED
  BY <1>1, <1>2, <1>3, <1>4, <1>5, <1>6, <1>7, <1>8, <1>9, <1>10, <1>11,
     <1>12, <1>13, <1>14, <1>15, <1>16, <1>17, <1>18
  DEF Next, PushStep, PopStep, ShutdownStep

-----------------------------------------------------------------------------
(* The steps that touch the queue or shutdown_; every other step leaves    *)
(* the data alone and reports nothing but what it reported before.         *)
DataUnchanged == UNCHANGED <<queue_, high_water_mark_, shutdown_, accepted, delivered>>

LEMMA DataStep ==
  ASSUME TypeOK, [Next]_vars
  PROVE \/ \E p \in Producers : PushEnqueue(p)
        \/ \E c \in Consumers : PopDequeue(c)
        \/ \E c \in Consumers : PopDrained(c)
        \/ \E s \in Stoppers : ShutdownSet(s)
        \/ /\ DataUnchanged
           /\ \A c \in Consumers : result'[c] = "false" => result[c] = "false"
<1> USE QueueAssumption DEF DataUnchanged, TypeOK, Callers
<1>1. CASE UNCHANGED vars
  BY <1>1 DEF vars
<1>2. ASSUME NEW p \in Producers, NEW x \in Item, PushCall(p, x)
      PROVE DataUnchanged /\ \A c \in Consumers : result'[c] = "false" => result[c] = "false"
  BY <1>2 DEF PushCall
<1>3. ASSUME NEW p \in Producers, PushStep(p) \/ PushSpurious(p)
      PROVE PushEnqueue(p) \/ (DataUnchanged /\ \A c \in Consumers : result'[c] = "false" => result[c] = "false")
  BY <1>3 DEF PushStep, PushSpurious, PushTest, PushBlock, PushRefused, PushNotify
<1>4. ASSUME NEW c \in Consumers, PopCall(c) \/ PopStep(c) \/ PopSpurious(c)
      PROVE \/ PopDequeue(c) \/ PopDrained(c)
            \/ DataUnchanged /\ \A d \in Consumers : result'[d] = "false" => result[d] = "false"
  BY <1>4 DEF PopCall, PopStep, PopSpurious, PopTest, PopBlock, PopNotify
<1>5. ASSUME NEW s \in Stoppers, ShutdownStep(s)
      PROVE DataUnchanged /\ \A c \in Consumers : result'[c] = "false" => result[c] = "false"
  BY <1>5 DEF ShutdownStep, ShutdownNotifyFull, ShutdownNotifyEmpty
<1>6. QED
  BY <1>1, <1>2, <1>3, <1>4, <1>5 DEF Next

(* Appending at the back of the queue appends to the whole stream; taking  *)
(* the front item moves it over the border between delivered and queued.   *)
LEMMA StreamAppend ==
  ASSUME NEW S, NEW d \in Seq(S), NEW q \in Seq(S), NEW x \in S
  PROVE Append(d \o q, x) = d \o Append(q, x)
  OBVIOUS

LEMMA StreamMove ==
  ASSUME NEW S, NEW d \in Seq(S), NEW q \in Seq(S), q # <<>>
  PROVE /\ Append(d, Head(q)) \o Tail(q) = d \o q
        /\ (d \o q)[Len(d) + 1] = Head(q)
        /\ Len(d) # Len(d \o q)
  OBVIOUS

(* No step loses, duplicates or reorders an item. *)
LEMMA NothingLostStep ==
  ASSUME TypeOK, CallInv, NothingLost, [Next]_vars
  PROVE NothingLost'
<1>1. ASSUME NEW p \in Producers, PushEnqueue(p) PROVE NothingLost'
  <2>1. item[p] \in Item
    BY <1>1 DEF PushEnqueue, CallInv, InPush
  <2>2. QED
    BY <1>1, <2>1, StreamAppend, SMTT(40) DEF PushEnqueue, NothingLost, TypeOK
<1>2. ASSUME NEW c \in Consumers, PopDequeue(c) PROVE NothingLost'
  BY <1>2, StreamMove DEF PopDequeue, NothingLost, TypeOK
<1>3. ASSUME NEW c \in Consumers, PopDrained(c) PROVE NothingLost'
  BY <1>3 DEF PopDrained, NothingLost
<1>4. ASSUME NEW s \in Stoppers, ShutdownSet(s) PROVE NothingLost'
  BY <1>4 DEF ShutdownSet, NothingLost
<1>5. CASE DataUnchanged
  BY <1>5 DEF DataUnchanged, NothingLost
<1>6. QED
  BY <1>1, <1>2, <1>3, <1>4, <1>5, DataStep

(* An item is enqueued only below capacity: its producer tested NotFull    *)
(* under the mutex, and a shut down queue refuses it.                      *)
LEMMA CapacityStep ==
  ASSUME TypeOK, TestedInv, CapacityBound, [Next]_vars
  PROVE CapacityBound'
<1> USE QueueAssumption DEF CapacityBound, TypeOK
<1>1. ASSUME NEW p \in Producers, PushEnqueue(p) PROVE CapacityBound'
  <2>1. Len(queue_) < Capacity
    BY <1>1 DEF PushEnqueue, TestedInv, NotFull, Threads
  <2>2. Len(queue_') = Len(queue_) + 1
    BY <1>1 DEF PushEnqueue
  <2>3. QED
    BY <1>1, <2>1, <2>2 DEF PushEnqueue
<1>2. ASSUME NEW c \in Consumers, PopDequeue(c) PROVE CapacityBound'
  <2>1. Len(queue_') = Len(queue_) - 1
    BY <1>2 DEF PopDequeue
  <2>2. QED
    BY <1>2, <2>1 DEF PopDequeue
<1>3. ASSUME NEW c \in Consumers, PopDrained(c) PROVE CapacityBound'
  BY <1>3 DEF PopDrained
<1>4. ASSUME NEW s \in Stoppers, ShutdownSet(s) PROVE CapacityBound'
  BY <1>4 DEF ShutdownSet
<1>5. CASE DataUnchanged
  BY <1>5 DEF DataUnchanged
<1>6. QED
  BY <1>1, <1>2, <1>3, <1>4, <1>5, DataStep

(* Once a consumer has been told "no more", nothing is enqueued and        *)
(* nothing is left to hand out.                                            *)
LEMMA DrainedStep ==
  ASSUME TypeOK, TestedInv, NothingLost, DrainedBeforeFalse, [Next]_vars
  PROVE DrainedBeforeFalse'
<1> USE QueueAssumption DEF DrainedBeforeFalse
<1>1. ASSUME NEW p \in Producers, PushEnqueue(p) PROVE DrainedBeforeFalse'
  BY <1>1 DEF PushEnqueue, TypeOK, Callers
<1>2. ASSUME NEW c \in Consumers, PopDequeue(c) PROVE DrainedBeforeFalse'
  <2>1. delivered # accepted
    BY <1>2, StreamMove DEF PopDequeue, NothingLost, TypeOK
  <2>2. QED
    BY <1>2, <2>1 DEF PopDequeue, TypeOK, Callers
<1>3. ASSUME NEW c \in Consumers, PopDrained(c) PROVE DrainedBeforeFalse'
  <2>1. shutdown_
    BY <1>3 DEF PopDrained, TestedInv, NotEmpty, Threads
  <2>2. delivered = accepted
    BY <1>3, ConcatEmptySeq DEF PopDrained, NothingLost, TypeOK
  <2>3. QED
    BY <1>3, <2>1, <2>2 DEF PopDrained
<1>4. ASSUME NEW s \in Stoppers, ShutdownSet(s) PROVE DrainedBeforeFalse'
  BY <1>4 DEF ShutdownSet
<1>5. CASE DataUnchanged /\ \A c \in Consumers : result'[c] = "false" => result[c] = "false"
  BY <1>5 DEF DataUnchanged
<1>6. QED
  BY <1>1, <1>2, <1>3, <1>4, <1>5, DataStep

LEMMA InitIInv == Init => IInv
<1> SUFFICES ASSUME Init PROVE IInv
  OBVIOUS
<1> USE QueueAssumption DEF Init
<1>1. TypeOK
  <2>1. /\ queue_ \in Seq(Item) /\ accepted \in Seq(Item) /\ delivered \in Seq(Item)
        /\ high_water_mark_ \in Nat /\ pushes \in Nat
    OBVIOUS
  <2>2. /\ item \in [Producers -> Item \cup {NoItem}]
        /\ result \in [Callers -> {"none", "true", "false"}]
        /\ pc \in [Threads -> PushPc \cup PopPc \cup StopPc]
    BY DEF PushPc
  <2>3. /\ shutdown_ \in BOOLEAN /\ mutex_ \in Threads \cup {NoThread}
        /\ \A t \in Threads : pc[t] = "idle"
    OBVIOUS
  <2>4. /\ \A p \in Producers : pc[p] \in PushPc
        /\ \A c \in Consumers : pc[c] \in PopPc
        /\ \A s \in Stoppers : pc[s] \in StopPc
    BY <2>3 DEF Threads, PushPc, PopPc, StopPc
  <2>5. QED
    BY <2>1, <2>2, <2>3, <2>4 DEF TypeOK
<1>2. MutexInv /\ CallInv /\ TestedInv
  BY DEF MutexInv, Critical, CallInv, InPush, InPop, TestedInv, Threads
<1>3. NothingLost /\ CapacityBound /\ DrainedBeforeFalse
  BY DEF NothingLost, CapacityBound, DrainedBeforeFalse, Callers
<1>4. QED
  BY <1>1, <1>2, <1>3 DEF IInv

LEMMA IInvStep == IInv /\ [Next]_vars => IInv'
  BY TypeStep, MutexStep, CallStep, TestedStep, NothingLostStep, CapacityStep,
     DrainedStep DEF IInv

(* The inductive invariant holds in every reachable state. *)
THEOREM Invariance == Spec => []IInv
  BY InitIInv, IInvStep, PTL DEF Spec

(* The queue's data and its threads' program counters keep their types. *)
THEOREM TypeCorrectness == Spec => []TypeOK
<1>1. IInv => TypeOK
  BY DEF IInv
<1>2. QED
  BY <1>1, Invariance, PTL

(* push(), pop() and shutdown() lose, duplicate and reorder nothing. *)
THEOREM Fifo == Spec => []NothingLost
<1>1. IInv => NothingLost
  BY DEF IInv
<1>2. QED
  BY <1>1, Invariance, PTL

(* The queue never holds more than capacity_ items. *)
THEOREM Bounded == Spec => []CapacityBound
<1>1. IInv => CapacityBound
  BY DEF IInv
<1>2. QED
  BY <1>1, Invariance, PTL

(* pop() returns false only on a shut down queue that has been drained. *)
THEOREM DrainThenStop == Spec => []DrainedBeforeFalse
<1>1. IInv => DrainedBeforeFalse
  BY DEF IInv
<1>2. QED
  BY <1>1, Invariance, PTL

-----------------------------------------------------------------------------
(* Refinement.  The call of push() or pop() is the channel's Call, the     *)
(* critical section that decides the outcome is its Accept, Refuse,        *)
(* Deliver or EndOfStream, setting shutdown_ is its Close; locking,        *)
(* waiting and notifying are invisible.                                    *)
LEMMA ChannelStep ==
  ASSUME IInv, [Next]_vars
  PROVE [Channel!Next]_(Channel!vars)
<1> USE DEF Channel!vars, Channel!Callers, Callers
<1>0. TypeOK /\ CallInv /\ TestedInv /\ NothingLost
  BY DEF IInv
<1>p. Channel!Pending = Len(queue_)
  BY <1>0 DEF Channel!Pending, NothingLost, TypeOK
<1>1. ASSUME NEW p \in Producers, NEW x \in Item, PushCall(p, x) PROVE Channel!Next
  <2>1. Channel!Call(p)
    BY <1>1 DEF PushCall, Channel!Call
  <2>2. QED
    BY <2>1 DEF Channel!Next
<1>2. ASSUME NEW p \in Producers, PushEnqueue(p) PROVE Channel!Next
  <2>1. item[p] \in Item /\ result[p] = "none" /\ Len(queue_) < Capacity
    BY <1>0, <1>2 DEF PushEnqueue, CallInv, InPush, TestedInv, NotFull, Threads
  <2>2. Channel!Accept(p, item[p])
    BY <1>2, <1>p, <2>1 DEF PushEnqueue, Channel!Accept
  <2>3. QED
    BY <2>1, <2>2 DEF Channel!Next
<1>3. ASSUME NEW p \in Producers, PushRefused(p) PROVE Channel!Next
  <2>1. result[p] = "none"
    BY <1>0, <1>3 DEF PushRefused, CallInv, InPush
  <2>2. Channel!Refuse(p)
    BY <1>3, <2>1 DEF PushRefused, Channel!Refuse
  <2>3. QED
    BY <2>2 DEF Channel!Next
<1>4. ASSUME NEW c \in Consumers, PopCall(c) PROVE Channel!Next
  <2>1. Channel!Call(c)
    BY <1>4 DEF PopCall, Channel!Call
  <2>2. QED
    BY <2>1 DEF Channel!Next
<1>5. ASSUME NEW c \in Consumers, PopDequeue(c) PROVE Channel!Next
  <2>1. result[c] = "none"
    BY <1>0, <1>5 DEF PopDequeue, CallInv, InPop
  <2>2. accepted[Len(delivered) + 1] = Head(queue_)
    BY <1>0, <1>5, StreamMove DEF PopDequeue, NothingLost, TypeOK
  <2>3. Channel!Pending > 0
    BY <1>0, <1>p, <1>5 DEF PopDequeue, TypeOK
  <2>4. Channel!Deliver(c)
    BY <1>5, <2>1, <2>2, <2>3 DEF PopDequeue, Channel!Deliver
  <2>5. QED
    BY <2>4 DEF Channel!Next
<1>6. ASSUME NEW c \in Consumers, PopDrained(c) PROVE Channel!Next
  <2>1. result[c] = "none" /\ shutdown_
    BY <1>0, <1>6 DEF PopDrained, CallInv, InPop, TestedInv, NotEmpty, Threads
  <2>2. Channel!Pending = 0
    BY <1>p, <1>6 DEF PopDrained
  <2>3. Channel!EndOfStream(c)
    BY <1>6, <2>1, <2>2 DEF PopDrained, Channel!EndOfStream
  <2>4. QED
    BY <2>3 DEF Channel!Next
<1>7. ASSUME NEW s \in Stoppers, ShutdownSet(s) PROVE Channel!Next
  <2>1. Channel!Close
    BY <1>7 DEF ShutdownSet, Channel!Close
  <2>2. QED
    BY <2>1 DEF Channel!Next
<1>8. ASSUME NEW p \in Producers,
             PushTest(p) \/ PushBlock(p) \/ PushSpurious(p) \/ PushNotify(p)
      PROVE UNCHANGED Channel!vars
  BY <1>8 DEF PushTest, PushBlock, PushSpurious, PushNotify
<1>9. ASSUME NEW c \in Consumers,
             PopTest(c) \/ PopBlock(c) \/ PopSpurious(c) \/ PopNotify(c)
      PROVE UNCHANGED Channel!vars
  BY <1>9 DEF PopTest, PopBlock, PopSpurious, PopNotify
<1>10. ASSUME NEW s \in Stoppers, ShutdownStep(s) PROVE UNCHANGED Channel!vars
  BY <1>10 DEF ShutdownStep, ShutdownNotifyFull, ShutdownNotifyEmpty
<1>11. CASE UNCHANGED vars
  BY <1>11 DEF vars
<1>12. QED
  BY <1>1, <1>2, <1>3, <1>4, <1>5, <1>6, <1>7, <1>8, <1>9, <1>10, <1>11
  DEF Next, PushStep, PopStep

LEMMA ChannelInit == Init => Channel!Init
  BY DEF Init, Channel!Init, Callers, Channel!Callers

(* The mutex and the two condition variables implement the closable        *)
(* bounded channel its callers rely on.                                    *)
THEOREM ImplementsChannel == Spec => ChannelSpec
<1>1. IInv /\ [Next]_vars => [Channel!Next]_(Channel!vars)
  BY ChannelStep
<1>2. QED
  BY <1>1, ChannelInit, Invariance, PTL DEF Spec, ChannelSpec, Channel!Spec

-----------------------------------------------------------------------------
(* Wakeups *)

(* A thread that sleeps on a shut down queue has a notify_all() ahead of   *)
(* it: it cannot have started to sleep after shutdown_ was set, because    *)
(* shutdown() needs the mutex it held from its test until it slept.        *)
LEMMA ShutdownWakeupStep ==
  ASSUME TypeOK, TestedInv, ShutdownWakeupPending, [Next]_vars
  PROVE ShutdownWakeupPending'
<1> USE QueueAssumption DEF TypeOK, TestedInv, ShutdownWakeupPending, Waiting,
        Threads, PushPc, PopPc, StopPc
<1>1. ASSUME NEW p \in Producers, NEW x \in Item, PushCall(p, x) PROVE ShutdownWakeupPending'
  BY <1>1 DEF PushCall, Goto
<1>2. ASSUME NEW p \in Producers, PushTest(p) PROVE ShutdownWakeupPending'
  BY <1>2 DEF PushTest, Goto
<1>3. ASSUME NEW p \in Producers, PushBlock(p) PROVE ShutdownWakeupPending'
  BY <1>3 DEF PushBlock, NotFull, Goto
<1>4. ASSUME NEW p \in Producers, PushSpurious(p) PROVE ShutdownWakeupPending'
  BY <1>4 DEF PushSpurious, Goto
<1>5. ASSUME NEW p \in Producers, PushRefused(p) PROVE ShutdownWakeupPending'
  BY <1>5 DEF PushRefused, Goto
<1>6. ASSUME NEW p \in Producers, PushEnqueue(p) PROVE ShutdownWakeupPending'
  BY <1>6 DEF PushEnqueue, Goto
<1>7. ASSUME NEW p \in Producers, PushNotify(p) PROVE ShutdownWakeupPending'
  BY <1>7 DEF PushNotify, NotifyOne, Goto
<1>8. ASSUME NEW c \in Consumers, PopCall(c) PROVE ShutdownWakeupPending'
  BY <1>8 DEF PopCall, Goto
<1>9. ASSUME NEW c \in Consumers, PopTest(c) PROVE ShutdownWakeupPending'
  BY <1>9 DEF PopTest, Goto
<1>10. ASSUME NEW c \in Consumers, PopBlock(c) PROVE ShutdownWakeupPending'
  BY <1>10 DEF PopBlock, NotEmpty, Goto
<1>11. ASSUME NEW c \in Consumers, PopSpurious(c) PROVE ShutdownWakeupPending'
  BY <1>11 DEF PopSpurious, Goto
<1>12. ASSUME NEW c \in Consumers, PopDrained(c) PROVE ShutdownWakeupPending'
  BY <1>12 DEF PopDrained, Goto
<1>13. ASSUME NEW c \in Consumers, PopDequeue(c) PROVE ShutdownWakeupPending'
  BY <1>13 DEF PopDequeue, Goto
<1>14. ASSUME NEW c \in Consumers, PopNotify(c) PROVE ShutdownWakeupPending'
  BY <1>14 DEF PopNotify, NotifyOne, Goto
<1>15. ASSUME NEW s \in Stoppers, ShutdownSet(s) PROVE ShutdownWakeupPending'
  BY <1>15 DEF ShutdownSet, Goto
<1>16. ASSUME NEW s \in Stoppers, ShutdownNotifyFull(s) PROVE ShutdownWakeupPending'
  BY <1>16 DEF ShutdownNotifyFull, NotifyAll
<1>17. ASSUME NEW s \in Stoppers, ShutdownNotifyEmpty(s) PROVE ShutdownWakeupPending'
  BY <1>17, ZenonT(60) DEF ShutdownNotifyEmpty, NotifyAll
<1>18. CASE UNCHANGED vars
  BY <1>18 DEF vars
<1>19. QED
  BY <1>1, <1>2, <1>3, <1>4, <1>5, <1>6, <1>7, <1>8, <1>9, <1>10, <1>11,
     <1>12, <1>13, <1>14, <1>15, <1>16, <1>17, <1>18
  DEF Next, PushStep, PopStep, ShutdownStep

(* shutdown() wakes every sleeping push() and pop(). *)
THEOREM ShutdownWakesAll == Spec => []ShutdownWakeupPending
<1>1. Init => ShutdownWakeupPending
  BY DEF Init, ShutdownWakeupPending
<1>2. IInv /\ ShutdownWakeupPending /\ [Next]_vars => ShutdownWakeupPending'
  BY ShutdownWakeupStep DEF IInv
<1>3. QED
  BY <1>1, <1>2, Invariance, PTL DEF Spec

(* Sets of threads are finite, and how the size of one moves when a thread *)
(* enters or leaves it.                                                    *)
LEMMA ThreadSetFinite ==
  ASSUME NEW S, S \subseteq Threads
  PROVE IsFiniteSet(S)
  BY QueueAssumption, FS_Subset

LEMMA Enter ==
  ASSUME NEW S, IsFiniteSet(S), NEW x, x \notin S
  PROVE /\ Cardinality(S \cup {x}) = Cardinality(S) + 1
        /\ Cardinality(S) \in Nat
  BY FS_AddElement, FS_CardinalityType

LEMMA Leave ==
  ASSUME NEW S, IsFiniteSet(S), NEW x \in S
  PROVE /\ Cardinality(S \ {x}) = Cardinality(S) - 1
        /\ Cardinality(S) \in Nat
  BY FS_RemoveElement, FS_CardinalityType

(* A notification, or an awake consumer, for every queued item: push()     *)
(* adds an item and a pending notification, notify_one() trades the        *)
(* notification for an awake consumer, and pop() takes an item and stops   *)
(* being awake.  A consumer starts to sleep only on an empty queue.        *)
LEMMA ItemWakeupStep ==
  ASSUME TypeOK, TestedInv, ItemWakeupPending, [Next]_vars
  PROVE ItemWakeupPending'
<1> DEFINE A == Waiting(Producers, "push_notify")
           B == AwakePoppers
           W == Waiting(Consumers, "pop_wait")
<1> USE QueueAssumption DEF TypeOK, Threads, PushPc, PopPc, StopPc
<1>f. /\ IsFiniteSet(A) /\ IsFiniteSet(B)
      /\ Cardinality(A) \in Nat /\ Cardinality(B) \in Nat
      /\ Cardinality(A)' \in Nat /\ Cardinality(B)' \in Nat
  <2>1. A \subseteq Threads /\ B \subseteq Threads /\ A' \subseteq Threads /\ B' \subseteq Threads
    BY DEF Waiting, AwakePoppers
  <2>2. IsFiniteSet(A) /\ IsFiniteSet(B) /\ IsFiniteSet(A') /\ IsFiniteSet(B')
    BY <2>1, ThreadSetFinite
  <2>3. QED
    BY <2>2, FS_CardinalityType
<1>i. W # {} => Len(queue_) <= Cardinality(A) + Cardinality(B)
  BY DEF ItemWakeupPending
<1>q. (W # {} => Len(queue_) <= Cardinality(A) + Cardinality(B))'
      => ItemWakeupPending'
  BY DEF ItemWakeupPending
<1>n. Len(queue_) \in Nat
  OBVIOUS
<1>s. CASE A' = A /\ B' = B /\ W' = W /\ queue_' = queue_
  BY <1>s, <1>i, <1>q
<1>1. ASSUME NEW p \in Producers, NEW x \in Item, PushCall(p, x) PROVE ItemWakeupPending'
  <2>1. A' = A /\ B' = B /\ W' = W /\ queue_' = queue_
    BY <1>1 DEF PushCall, Goto, Waiting, AwakePoppers
  <2>2. QED
    BY <2>1, <1>s
<1>2. ASSUME NEW p \in Producers,
             PushTest(p) \/ PushBlock(p) \/ PushSpurious(p) \/ PushRefused(p)
      PROVE ItemWakeupPending'
  <2>1. A' = A /\ B' = B /\ W' = W /\ queue_' = queue_
    BY <1>2 DEF PushTest, PushBlock, PushSpurious, PushRefused, Goto, Waiting, AwakePoppers
  <2>2. QED
    BY <2>1, <1>s
<1>3. ASSUME NEW p \in Producers, PushEnqueue(p) PROVE ItemWakeupPending'
  <2>1. p \notin A /\ A' = A \cup {p} /\ B' = B /\ W' = W
    BY <1>3 DEF PushEnqueue, Goto, Waiting, AwakePoppers
  <2>2. Len(queue_') = Len(queue_) + 1
    BY <1>3 DEF PushEnqueue
  <2>3. Cardinality(A') = Cardinality(A) + 1
    BY <2>1, <1>f, Enter
  <2>4. QED
    BY <2>1, <2>2, <2>3, <1>f, <1>i, <1>q, <1>n
<1>4. ASSUME NEW p \in Producers, PushNotify(p) PROVE ItemWakeupPending'
  <2>1. CASE W = {}
    <3>1. W' = {}
      BY <1>4, <2>1 DEF PushNotify, NotifyOne, Goto, Waiting
    <3>2. QED
      BY <3>1, <1>q
  <2>2. CASE W # {}
    <3>1. PICK w \in W : pc' = [pc EXCEPT ![p] = "idle", ![w] = "pop_lock"]
      BY <1>4, <2>2 DEF PushNotify, NotifyOne
    <3>2. p \in A /\ w \notin B /\ A' = A \ {p} /\ B' = B \cup {w} /\ queue_' = queue_
      BY <1>4, <3>1 DEF PushNotify, Waiting, AwakePoppers
    <3>3. Cardinality(A') = Cardinality(A) - 1 /\ Cardinality(B') = Cardinality(B) + 1
      BY <3>2, <1>f, Enter, Leave
    <3>4. QED
      BY <2>2, <3>2, <3>3, <1>f, <1>i, <1>q, <1>n
  <2>3. QED
    BY <2>1, <2>2
<1>5. ASSUME NEW c \in Consumers, PopCall(c) \/ PopSpurious(c) PROVE ItemWakeupPending'
  <2>1. /\ c \notin B /\ A' = A /\ B' = B \cup {c} /\ W' \subseteq W
        /\ queue_' = queue_
    BY <1>5 DEF PopCall, PopSpurious, Goto, Waiting, AwakePoppers
  <2>2. Cardinality(B') = Cardinality(B) + 1
    BY <2>1, <1>f, Enter
  <2>3. QED
    BY <2>1, <2>2, <1>f, <1>i, <1>q, <1>n
<1>6. ASSUME NEW c \in Consumers, PopTest(c) PROVE ItemWakeupPending'
  <2>1. CASE NotEmpty
    <3>1. A' = A /\ B' = B /\ W' = W /\ queue_' = queue_
      BY <1>6, <2>1 DEF PopTest, Goto, Waiting, AwakePoppers
    <3>2. QED
      BY <3>1, <1>s
  <2>2. CASE ~NotEmpty
    BY <1>6, <2>2, <1>f, <1>q DEF PopTest, NotEmpty
  <2>3. QED
    BY <2>1, <2>2
<1>7. ASSUME NEW c \in Consumers, PopBlock(c) \/ PopDrained(c) PROVE ItemWakeupPending'
  <2>1. queue_' = <<>>
    BY <1>7 DEF PopBlock, PopDrained, TestedInv, NotEmpty
  <2>2. QED
    BY <2>1, <1>f, <1>q
<1>8. ASSUME NEW c \in Consumers, PopDequeue(c) PROVE ItemWakeupPending'
  <2>1. c \in B /\ A' = A /\ B' = B \ {c} /\ W' = W
    BY <1>8 DEF PopDequeue, Goto, Waiting, AwakePoppers
  <2>2. Len(queue_') = Len(queue_) - 1
    BY <1>8 DEF PopDequeue
  <2>3. Cardinality(B') = Cardinality(B) - 1
    BY <2>1, <1>f, Leave
  <2>4. QED
    BY <2>1, <2>2, <2>3, <1>f, <1>i, <1>q, <1>n
<1>9. ASSUME NEW c \in Consumers, PopNotify(c) PROVE ItemWakeupPending'
  <2>1. A' = A /\ B' = B /\ W' = W /\ queue_' = queue_
    BY <1>9, ZenonT(60) DEF PopNotify, NotifyOne, Goto, Waiting, AwakePoppers
  <2>2. QED
    BY <2>1, <1>s
<1>10. ASSUME NEW s \in Stoppers, ShutdownSet(s) \/ ShutdownNotifyFull(s)
       PROVE ItemWakeupPending'
  <2>1. A' = A /\ B' = B /\ W' = W /\ queue_' = queue_
    BY <1>10 DEF ShutdownSet, ShutdownNotifyFull, NotifyAll, Goto, Waiting, AwakePoppers
  <2>2. QED
    BY <2>1, <1>s
<1>11. ASSUME NEW s \in Stoppers, ShutdownNotifyEmpty(s) PROVE ItemWakeupPending'
  <2>1. W' = {}
    BY <1>11 DEF ShutdownNotifyEmpty, NotifyAll, Waiting
  <2>2. QED
    BY <2>1, <1>q
<1>12. CASE UNCHANGED vars
  BY <1>12, <1>s DEF vars, Waiting, AwakePoppers
<1>13. QED
  BY <1>1, <1>2, <1>3, <1>4, <1>5, <1>6, <1>7, <1>8, <1>9, <1>10, <1>11, <1>12
  DEF Next, PushStep, PopStep, ShutdownStep

(* A notification, or an awake producer, for every free slot: pop() frees  *)
(* a slot and owes a notification, notify_one() trades it for an awake     *)
(* producer, and push() fills a slot and stops being awake.  A producer    *)
(* starts to sleep only on a full queue.                                   *)
LEMMA SlotWakeupStep ==
  ASSUME TypeOK, TestedInv, SlotWakeupPending, [Next]_vars
  PROVE SlotWakeupPending'
<1> DEFINE A == Waiting(Consumers, "pop_notify")
           B == AwakePushers
           W == Waiting(Producers, "push_wait")
           Free == Capacity - Len(queue_)
<1> USE QueueAssumption DEF TypeOK, Threads, PushPc, PopPc, StopPc
<1>f. /\ IsFiniteSet(A) /\ IsFiniteSet(B)
      /\ Cardinality(A) \in Nat /\ Cardinality(B) \in Nat
      /\ Cardinality(A)' \in Nat /\ Cardinality(B)' \in Nat
  <2>1. A \subseteq Threads /\ B \subseteq Threads /\ A' \subseteq Threads /\ B' \subseteq Threads
    BY DEF Waiting, AwakePushers
  <2>2. IsFiniteSet(A) /\ IsFiniteSet(B) /\ IsFiniteSet(A') /\ IsFiniteSet(B')
    BY <2>1, ThreadSetFinite
  <2>3. QED
    BY <2>2, FS_CardinalityType
<1>i. W # {} /\ ~shutdown_ => Free <= Cardinality(A) + Cardinality(B)
  BY DEF SlotWakeupPending
<1>q. (W # {} /\ ~shutdown_ => Free <= Cardinality(A) + Cardinality(B))'
      => SlotWakeupPending'
  BY DEF SlotWakeupPending
<1>n. Len(queue_) \in Nat
  OBVIOUS
<1>s. CASE A' = A /\ B' = B /\ W' = W /\ queue_' = queue_ /\ shutdown_' = shutdown_
  BY <1>s, <1>i, <1>q
<1>1. ASSUME NEW p \in Producers, NEW x \in Item, PushCall(p, x) PROVE SlotWakeupPending'
  <2>1. /\ p \notin B /\ A' = A /\ B' = B \cup {p} /\ W' = W
        /\ queue_' = queue_ /\ shutdown_' = shutdown_
    BY <1>1 DEF PushCall, Goto, Waiting, AwakePushers
  <2>2. Cardinality(B') = Cardinality(B) + 1
    BY <2>1, <1>f, Enter
  <2>3. QED
    BY <2>1, <2>2, <1>f, <1>i, <1>q, <1>n
<1>2. ASSUME NEW p \in Producers, PushSpurious(p) PROVE SlotWakeupPending'
  <2>1. /\ p \notin B /\ A' = A /\ B' = B \cup {p} /\ W # {}
        /\ queue_' = queue_ /\ shutdown_' = shutdown_
    BY <1>2 DEF PushSpurious, Goto, Waiting, AwakePushers
  <2>2. Cardinality(B') = Cardinality(B) + 1
    BY <2>1, <1>f, Enter
  <2>3. QED
    BY <2>1, <2>2, <1>f, <1>i, <1>q, <1>n
<1>3. ASSUME NEW p \in Producers, PushTest(p) PROVE SlotWakeupPending'
  <2>1. CASE NotFull
    <3>1. A' = A /\ B' = B /\ W' = W /\ queue_' = queue_ /\ shutdown_' = shutdown_
      BY <1>3, <2>1 DEF PushTest, Goto, Waiting, AwakePushers
    <3>2. QED
      BY <3>1, <1>s
  <2>2. CASE ~NotFull
    BY <1>3, <2>2, <1>f, <1>q, <1>n DEF PushTest, NotFull
  <2>3. QED
    BY <2>1, <2>2
<1>4. ASSUME NEW p \in Producers, PushBlock(p) PROVE SlotWakeupPending'
  <2>1. Free' <= 0
    BY <1>4, <1>n DEF PushBlock, TestedInv, NotFull
  <2>2. QED
    BY <2>1, <1>f, <1>q, <1>n, <1>4 DEF PushBlock
<1>5. ASSUME NEW p \in Producers, PushRefused(p) PROVE SlotWakeupPending'
  BY <1>5, <1>q DEF PushRefused
<1>6. ASSUME NEW p \in Producers, PushEnqueue(p) PROVE SlotWakeupPending'
  <2>1. /\ p \in B /\ A' = A /\ B' = B \ {p} /\ W' = W
        /\ shutdown_' = shutdown_
    BY <1>6 DEF PushEnqueue, Goto, Waiting, AwakePushers
  <2>2. Len(queue_') = Len(queue_) + 1
    BY <1>6 DEF PushEnqueue
  <2>3. Cardinality(B') = Cardinality(B) - 1
    BY <2>1, <1>f, Leave
  <2>4. QED
    BY <2>1, <2>2, <2>3, <1>f, <1>i, <1>q, <1>n
<1>7. ASSUME NEW p \in Producers, PushNotify(p) PROVE SlotWakeupPending'
  <2>1. A' = A /\ B' = B /\ W' = W /\ queue_' = queue_ /\ shutdown_' = shutdown_
    BY <1>7, ZenonT(60) DEF PushNotify, NotifyOne, Goto, Waiting, AwakePushers
  <2>2. QED
    BY <2>1, <1>s
<1>8. ASSUME NEW c \in Consumers,
             PopCall(c) \/ PopTest(c) \/ PopBlock(c) \/ PopSpurious(c) \/ PopDrained(c)
      PROVE SlotWakeupPending'
  <2>1. A' = A /\ B' = B /\ W' = W /\ queue_' = queue_ /\ shutdown_' = shutdown_
    BY <1>8 DEF PopCall, PopTest, PopBlock, PopSpurious, PopDrained, Goto, Waiting, AwakePushers
  <2>2. QED
    BY <2>1, <1>s
<1>9. ASSUME NEW c \in Consumers, PopDequeue(c) PROVE SlotWakeupPending'
  <2>1. /\ c \notin A /\ A' = A \cup {c} /\ B' = B /\ W' = W
        /\ shutdown_' = shutdown_
    BY <1>9 DEF PopDequeue, Goto, Waiting, AwakePushers
  <2>2. Len(queue_') = Len(queue_) - 1
    BY <1>9 DEF PopDequeue
  <2>3. Cardinality(A') = Cardinality(A) + 1
    BY <2>1, <1>f, Enter
  <2>4. QED
    BY <2>1, <2>2, <2>3, <1>f, <1>i, <1>q, <1>n
<1>10. ASSUME NEW c \in Consumers, PopNotify(c) PROVE SlotWakeupPending'
  <2>1. CASE W = {}
    <3>1. W' = {}
      BY <1>10, <2>1 DEF PopNotify, NotifyOne, Goto, Waiting
    <3>2. QED
      BY <3>1, <1>q
  <2>2. CASE W # {}
    <3>1. PICK w \in W : pc' = [pc EXCEPT ![c] = "idle", ![w] = "push_lock"]
      BY <1>10, <2>2 DEF PopNotify, NotifyOne
    <3>2. /\ c \in A /\ w \notin B /\ A' = A \ {c} /\ B' = B \cup {w}
          /\ queue_' = queue_ /\ shutdown_' = shutdown_
      BY <1>10, <3>1 DEF PopNotify, Waiting, AwakePushers
    <3>3. Cardinality(A') = Cardinality(A) - 1 /\ Cardinality(B') = Cardinality(B) + 1
      BY <3>2, <1>f, Enter, Leave
    <3>4. QED
      BY <2>2, <3>2, <3>3, <1>f, <1>i, <1>q, <1>n
  <2>3. QED
    BY <2>1, <2>2
<1>11. ASSUME NEW s \in Stoppers, ShutdownSet(s) PROVE SlotWakeupPending'
  BY <1>11, <1>q DEF ShutdownSet
<1>12. ASSUME NEW s \in Stoppers, ShutdownNotifyFull(s) PROVE SlotWakeupPending'
  <2>1. W' = {}
    BY <1>12 DEF ShutdownNotifyFull, NotifyAll, Waiting
  <2>2. QED
    BY <2>1, <1>q
<1>13. ASSUME NEW s \in Stoppers, ShutdownNotifyEmpty(s) PROVE SlotWakeupPending'
  <2>1. A' = A /\ B' = B /\ W' = W /\ queue_' = queue_ /\ shutdown_' = shutdown_
    BY <1>13 DEF ShutdownNotifyEmpty, NotifyAll, Waiting, AwakePushers
  <2>2. QED
    BY <2>1, <1>s
<1>14. CASE UNCHANGED vars
  BY <1>14, <1>s DEF vars, Waiting, AwakePushers
<1>15. QED
  BY <1>1, <1>2, <1>3, <1>4, <1>5, <1>6, <1>7, <1>8, <1>9, <1>10, <1>11, <1>12,
     <1>13, <1>14
  DEF Next, PushStep, PopStep, ShutdownStep

(* No wakeup of a consumer is lost: notifying after the unlock is enough. *)
THEOREM NoLostItemWakeup == Spec => []ItemWakeupPending
<1>1. Init => ItemWakeupPending
  BY DEF Init, ItemWakeupPending, Waiting, Threads
<1>2. IInv /\ ItemWakeupPending /\ [Next]_vars => ItemWakeupPending'
  BY ItemWakeupStep DEF IInv
<1>3. QED
  BY <1>1, <1>2, Invariance, PTL DEF Spec

(* No wakeup of a producer is lost. *)
THEOREM NoLostSlotWakeup == Spec => []SlotWakeupPending
<1>1. Init => SlotWakeupPending
  BY DEF Init, SlotWakeupPending, Waiting, Threads
<1>2. IInv /\ SlotWakeupPending /\ [Next]_vars => SlotWakeupPending'
  BY SlotWakeupStep DEF IInv
<1>3. QED
  BY <1>1, <1>2, Invariance, PTL DEF Spec
=============================================================================
