------------------------- MODULE LiveSource_proofs -------------------------
(***************************************************************************)
(* Proofs about LiveSource, for all backoff limits, whatever the network   *)
(* does and whatever closing a socket does to a blocked recv().            *)
(*                                                                         *)
(* StoppedStaysClosed is not inductive: it rests on the mutex.  A reader   *)
(* about to publish a connection (emplace) holds ws_mutex_ and looked at   *)
(* stop_requested_ while holding it, so a stop() that it did not see has   *)
(* still to take the mutex and will close what is published (MutexInv).    *)
(* BackoffSchedule is about the moment of the sleep; BackoffInv carries    *)
(* the schedule through the attempts in between.                           *)
(***************************************************************************)
EXTENDS LiveSource, FiniteSetTheorems, FunctionTheorems, TLAPS

USE DEF counts, connection, retry, stopping, Return, Min, Discard, Double,
        StopSeen

(* The mutex is held exactly while a connection is published, and no       *)
(* stop() has completed by then; stop() sets its flag before all else.     *)
MutexInv ==
  /\ ws_mutex_ = "reader" <=> reader = "emplace"
  /\ stopper = "close" \/ stopDone => stop_requested_
  /\ reader = "emplace" => ~stopDone

IInv == TypeOK /\ MutexInv /\ StoppedStaysClosed /\ StreamValid /\ Accounted

LEMMA InitIInv == Init => IInv
<1> SUFFICES ASSUME Init PROVE IInv
  OBVIOUS
<1> USE LiveAssumption DEF Init
<1>1. TypeOK
  <2>1. /\ stop_requested_ \in BOOLEAN /\ connected_ \in BOOLEAN
        /\ had_connected_once_ \in BOOLEAN /\ stopDone \in BOOLEAN
    BY Zenon
  <2>2. QED
    BY <2>1 DEF TypeOK, ReaderPc
<1>2. MutexInv /\ StoppedStaysClosed /\ StreamValid
  BY DEF MutexInv, StoppedStaysClosed, StreamValid
<1>3. Accounted
  BY DEF Accounted
<1>4. QED
  BY <1>1, <1>2, <1>3 DEF IInv

(* The steps of the reader that touch only where it is, what it returned   *)
(* and how long it backs off.                                              *)
QuietStep ==
  \/ NextCall \/ LoopStop \/ LoopGo \/ ConnectLoop \/ ConnectFailed
  \/ BackoffSleep \/ ReadBegin \/ RecvInterrupted

LEMMA TypeStep == TypeOK /\ [Next]_vars => TypeOK'
<1> SUFFICES ASSUME TypeOK, [Next]_vars PROVE TypeOK'
  OBVIOUS
<1> USE LiveAssumption DEF TypeOK, ReaderPc
<1>1. CASE Start
  BY <1>1 DEF Start
<1>2. CASE StopFlag
  BY <1>2 DEF StopFlag
<1>3. CASE StopClose
  BY <1>3 DEF StopClose
<1>4. CASE QuietStep
  <2>1. CASE NextCall
    BY <2>1 DEF NextCall
  <2>2. CASE LoopStop
    BY <2>2 DEF LoopStop
  <2>3. CASE LoopGo
    BY <2>3 DEF LoopGo
  <2>4. CASE ConnectLoop
    BY <2>4 DEF ConnectLoop
  <2>5. CASE ConnectFailed
    BY <2>5 DEF ConnectFailed
  <2>6. CASE BackoffSleep
    BY <2>6 DEF BackoffSleep
  <2>7. CASE ReadBegin
    BY <2>7 DEF ReadBegin
  <2>8. CASE RecvInterrupted
    BY <2>8 DEF RecvInterrupted
  <2>9. QED
    BY <1>4, <2>1, <2>2, <2>3, <2>4, <2>5, <2>6, <2>7, <2>8 DEF QuietStep
<1>5. CASE ConnectThrows
  <2>1. connected_' \in BOOLEAN
    BY <1>5, Zenon DEF ConnectThrows
  <2>2. QED
    BY <1>5, <2>1 DEF ConnectThrows
<1>6. CASE ConnectDone
  BY <1>6 DEF ConnectDone
<1>7. CASE ConnectEmplace
  BY <1>7 DEF ConnectEmplace
<1>8. CASE TakeStream
  BY <1>8 DEF TakeStream
<1>9. CASE RecvError
  BY <1>9 DEF RecvError
<1>10. CASE ReadFailed
  BY <1>10 DEF ReadFailed
<1>11. CASE RecvMessage
  BY <1>11 DEF RecvMessage
<1>12. CASE ParseMalformed \/ ParseThrows
  BY <1>12 DEF ParseMalformed, ParseThrows
<1>13. CASE ParseEvent
  BY <1>13 DEF ParseEvent
<1>14. CASE UNCHANGED vars
  BY <1>14 DEF vars
<1>15. QED
  BY <1>1, <1>2, <1>3, <1>4, <1>5, <1>6, <1>7, <1>8, <1>9, <1>10, <1>11,
     <1>12, <1>13, <1>14
  DEF Next, ReaderStep, Connecting, QuietStep

LEMMA MutexStep == IInv /\ [Next]_vars => MutexInv' /\ StoppedStaysClosed'
<1> SUFFICES ASSUME IInv, [Next]_vars PROVE MutexInv' /\ StoppedStaysClosed'
  OBVIOUS
<1> USE DEF IInv, TypeOK, ReaderPc, MutexInv, StoppedStaysClosed
<1>1. CASE Start
  BY <1>1 DEF Start
<1>2. CASE StopFlag
  BY <1>2 DEF StopFlag
<1>3. CASE StopClose
  BY <1>3 DEF StopClose
<1>4. CASE QuietStep
  BY <1>4 DEF QuietStep, NextCall, LoopStop, LoopGo, ConnectLoop, ConnectFailed,
              BackoffSleep, ReadBegin, RecvInterrupted
<1>5. CASE ConnectThrows
  BY <1>5 DEF ConnectThrows
<1>6. CASE ConnectDone
  BY <1>6 DEF ConnectDone
<1>7. CASE ConnectEmplace
  BY <1>7 DEF ConnectEmplace
<1>8. CASE TakeStream
  BY <1>8 DEF TakeStream
<1>9. CASE RecvError
  BY <1>9 DEF RecvError
<1>10. CASE ReadFailed
  BY <1>10 DEF ReadFailed
<1>11. CASE RecvMessage \/ ParseMalformed \/ ParseThrows \/ ParseEvent
  BY <1>11 DEF RecvMessage, ParseMalformed, ParseThrows, ParseEvent
<1>12. CASE UNCHANGED vars
  BY <1>12 DEF vars
<1>13. QED
  BY <1>1, <1>2, <1>3, <1>4, <1>5, <1>6, <1>7, <1>8, <1>9, <1>10, <1>11, <1>12
  DEF Next, ReaderStep, Connecting, QuietStep

LEMMA StreamStep == IInv /\ [Next]_vars => StreamValid'
<1> SUFFICES ASSUME IInv, [Next]_vars PROVE StreamValid'
  OBVIOUS
<1> USE DEF IInv, TypeOK, ReaderPc, StreamValid
<1>1. CASE Start \/ StopFlag \/ StopClose
  BY <1>1 DEF Start, StopFlag, StopClose
<1>2. CASE QuietStep
  BY <1>2 DEF QuietStep, NextCall, LoopStop, LoopGo, ConnectLoop, ConnectFailed,
              BackoffSleep, ReadBegin, RecvInterrupted
<1>3. CASE ConnectThrows \/ ConnectDone
  BY <1>3 DEF ConnectThrows, ConnectDone
<1>4. CASE ConnectEmplace
  BY <1>4 DEF ConnectEmplace
<1>5. CASE TakeStream
  BY <1>5 DEF TakeStream
<1>6. CASE RecvError \/ ReadFailed
  BY <1>6 DEF RecvError, ReadFailed
<1>7. CASE RecvMessage \/ ParseMalformed \/ ParseThrows \/ ParseEvent
  BY <1>7 DEF RecvMessage, ParseMalformed, ParseThrows, ParseEvent
<1>8. CASE UNCHANGED vars
  BY <1>8 DEF vars
<1>9. QED
  BY <1>1, <1>2, <1>3, <1>4, <1>5, <1>6, <1>7, <1>8
  DEF Next, ReaderStep, Connecting, QuietStep

LEMMA AccountedStep == IInv /\ [Next]_vars => Accounted'
<1> SUFFICES ASSUME IInv, [Next]_vars PROVE Accounted'
  OBVIOUS
<1> USE DEF IInv, TypeOK, ReaderPc, Accounted
<1>1. CASE Start \/ StopFlag \/ StopClose
  BY <1>1 DEF Start, StopFlag, StopClose
<1>2. CASE QuietStep
  BY <1>2 DEF QuietStep, NextCall, LoopStop, LoopGo, ConnectLoop, ConnectFailed,
              BackoffSleep, ReadBegin, RecvInterrupted
<1>3. CASE ConnectThrows \/ ConnectDone
  BY <1>3 DEF ConnectThrows, ConnectDone
<1>4. CASE ConnectEmplace
  BY <1>4 DEF ConnectEmplace
<1>5. CASE TakeStream
  BY <1>5 DEF TakeStream
<1>6. CASE RecvError \/ ReadFailed
  BY <1>6 DEF RecvError, ReadFailed
<1>7. CASE RecvMessage
  BY <1>7 DEF RecvMessage
<1>8. CASE ParseMalformed \/ ParseThrows \/ ParseEvent
  BY <1>8 DEF ParseMalformed, ParseThrows, ParseEvent
<1>9. CASE UNCHANGED vars
  BY <1>9 DEF vars
<1>10. QED
  BY <1>1, <1>2, <1>3, <1>4, <1>5, <1>6, <1>7, <1>8, <1>9
  DEF Next, ReaderStep, Connecting, QuietStep

(* The inductive invariant holds in every reachable state. *)
THEOREM Invariance == Spec => []IInv
<1>1. IInv /\ [Next]_vars => IInv'
  BY TypeStep, MutexStep, StreamStep, AccountedStep DEF IInv
<1>2. QED
  BY <1>1, InitIInv, PTL DEF Spec

(* Every variable keeps its type, and the backoff stays within its limits. *)
THEOREM TypeCorrectness == Spec => []TypeOK
<1>1. IInv => TypeOK
  BY DEF IInv
<1>2. QED
  BY <1>1, Invariance, PTL

(* However stop() and a connection attempt cross, no connection is open    *)
(* once stop() has returned.                                               *)
THEOREM StopCloses == Spec => []StoppedStaysClosed
<1>1. IInv => StoppedStaysClosed
  BY DEF IInv
<1>2. QED
  BY <1>1, Invariance, PTL

(* next() never reads through a pointer to no connection. *)
THEOREM NoNullStream == Spec => []StreamValid
<1>1. IInv => StreamValid
  BY DEF IInv
<1>2. QED
  BY <1>1, Invariance, PTL

(* Messages and reconnects are counted exactly. *)
THEOREM CountersExact == Spec => []Accounted
<1>1. IInv => Accounted
  BY DEF IInv
<1>2. QED
  BY <1>1, Invariance, PTL

-----------------------------------------------------------------------------
(* Each step of LiveSource is one step of the interface, or none. *)
LEMMA SourceStep == IInv /\ [Next]_vars => [Source!Next]_Source!vars
<1> SUFFICES ASSUME IInv, [Next]_vars PROVE [Source!Next]_Source!vars
  OBVIOUS
<1> USE DEF IInv, TypeOK, ReaderPc, Source!vars
<1>1. CASE Start
  BY <1>1 DEF Start, Source!Next, Source!Start
<1>2. CASE StopFlag
  BY <1>2 DEF StopFlag, Source!Next, Source!Stop
<1>3. CASE StopClose
  BY <1>3 DEF StopClose
<1>4. CASE NextCall
  BY <1>4 DEF NextCall, Source!Next, Source!Call
<1>5. CASE LoopStop
  BY <1>5 DEF LoopStop, Source!Next, Source!ReturnFalse
<1>6. CASE LoopGo
  BY <1>6 DEF LoopGo, Source!Next, Source!Enter
<1>7. CASE ConnectLoop
  BY <1>7 DEF ConnectLoop, Source!Next, Source!ReturnFalse
<1>8. CASE ConnectFailed
  BY <1>8 DEF ConnectFailed, Source!Next, Source!ReturnFalse
<1>9. CASE BackoffSleep \/ ReadBegin \/ RecvInterrupted
  BY <1>9 DEF BackoffSleep, ReadBegin, RecvInterrupted
<1>10. CASE ConnectThrows \/ ConnectDone \/ ConnectEmplace
  BY <1>10 DEF ConnectThrows, ConnectDone, ConnectEmplace
<1>11. CASE TakeStream \/ RecvError \/ RecvMessage \/ ParseMalformed
             \/ ParseThrows
  BY <1>11 DEF TakeStream, RecvError, RecvMessage, ParseMalformed, ParseThrows
<1>12. CASE ReadFailed
  BY <1>12 DEF ReadFailed, Source!Next, Source!ReturnFalse
<1>13. CASE ParseEvent
  BY <1>13 DEF ParseEvent, Source!Next, Source!ReturnTrue
<1>14. CASE UNCHANGED vars
  BY <1>14 DEF vars
<1>15. QED
  BY <1>1, <1>2, <1>3, <1>4, <1>5, <1>6, <1>7, <1>8, <1>9, <1>10, <1>11,
     <1>12, <1>13, <1>14
  DEF Next, ReaderStep, Connecting

(* LiveSource implements the interface the pipeline relies on: next()      *)
(* returns false only because of stop().                                   *)
THEOREM ImplementsSource == Spec => SourceSpec
<1>1. Init => Source!Init
  BY DEF Init, Source!Init
<1>2. QED
  BY <1>1, SourceStep, Invariance, PTL DEF Spec, SourceSpec, Source!Spec

-----------------------------------------------------------------------------
(* The backoff *)

(* The subsets of 1..n+1 are those of 1..n, each without and with n + 1. *)
LEMMA DoubledPower ==
  ASSUME NEW n \in Nat
  PROVE  2^n \in Nat /\ 2^(n + 1) = 2 * 2^n
<1> DEFINE S == 1..n
           T == S \cup {n + 1}
           With == {A \cup {n + 1} : A \in SUBSET S}
           add == [A \in SUBSET S |-> A \cup {n + 1}]
<1>1. IsFiniteSet(S) /\ Cardinality(S) = n /\ n + 1 \notin S
  BY FS_Interval
<1>2. IsFiniteSet(T) /\ Cardinality(T) = n + 1
  BY <1>1, FS_AddElement
<1>3. /\ IsFiniteSet(SUBSET S) /\ Cardinality(SUBSET S) = 2^n
      /\ Cardinality(SUBSET T) = 2^(n + 1)
  BY <1>1, <1>2, FS_SUBSET
<1>4. add \in Bijection(SUBSET S, With)
  <2>1. add \in [SUBSET S -> With]
    OBVIOUS
  <2>2. ASSUME NEW A \in SUBSET S, NEW B \in SUBSET S, add[A] = add[B]
        PROVE  A = B
    <3>1. A \cup {n + 1} = B \cup {n + 1}
      BY <2>2
    <3>2. n + 1 \notin A /\ n + 1 \notin B
      BY <1>1
    <3>3. QED
      BY <3>1, <3>2
  <2>3. \A D \in With : \E A \in SUBSET S : add[A] = D
    OBVIOUS
  <2>4. QED
    BY <2>1, <2>2, <2>3 DEF Bijection, Injection, Surjection, IsInjective
<1>5. IsFiniteSet(With) /\ Cardinality(With) = Cardinality(SUBSET S)
  BY <1>3, <1>4, FS_Bijection DEF ExistsBijection
<1>6. SUBSET T = (SUBSET S) \cup With /\ (SUBSET S) \cap With = {}
  <2>1. ASSUME NEW A \in SUBSET T PROVE A \in (SUBSET S) \cup With
    <3>1. CASE n + 1 \in A
      <4>1. A \ {n + 1} \in SUBSET S /\ A = (A \ {n + 1}) \cup {n + 1}
        BY <3>1
      <4>2. QED
        BY <4>1
    <3>2. CASE n + 1 \notin A
      BY <3>2
    <3>3. QED
      BY <3>1, <3>2
  <2>2. ASSUME NEW A \in (SUBSET S) \cup With PROVE A \in SUBSET T
    OBVIOUS
  <2>3. ASSUME NEW A \in With PROVE A \notin SUBSET S
    <3>1. n + 1 \in A
      BY <2>3
    <3>2. QED
      BY <1>1, <3>1
  <2>4. QED
    BY <2>1, <2>2, <2>3
<1> HIDE DEF S, T, With, add
<1>7. Cardinality((SUBSET S) \cup With) =
        Cardinality(SUBSET S) + Cardinality(With) - Cardinality((SUBSET S) \cap With)
  BY <1>3, <1>5, FS_Union
<1>8. Cardinality({}) = 0 /\ Cardinality(SUBSET S) \in Nat
  BY <1>3, FS_EmptySet, FS_CardinalityType
<1>9. Cardinality(SUBSET T) = Cardinality(SUBSET S) + Cardinality(SUBSET S) - 0
  BY <1>5, <1>6, <1>7, <1>8
<1>10. QED
  BY <1>3, <1>8, <1>9

LEMMA SleepDoubles ==
  ASSUME NEW n \in Nat \ {0}
  PROVE  Double(SleepBefore(n)) = SleepBefore(n + 1)
<1> DEFINE q == 2^(n - 1)
<1>1. q \in Nat /\ 2^n = 2 * q
  <2>1. n - 1 \in Nat /\ (n - 1) + 1 = n
    OBVIOUS
  <2>2. QED
    BY <2>1, DoubledPower
<1>2. InitialBackoff \in Nat /\ MaxBackoff \in Nat
  BY LiveAssumption
<1>3. SleepBefore(n + 1) = Min(InitialBackoff * (2 * q), MaxBackoff)
  BY <1>1 DEF SleepBefore
<1>4. CASE n = 1
  <2>1. q = 1
    BY <1>4
  <2>2. QED
    BY <1>2, <1>3, <1>4, <2>1 DEF SleepBefore
<1>5. CASE n # 1
  <2>1. SleepBefore(n) = Min(InitialBackoff * q, MaxBackoff)
    BY <1>5 DEF SleepBefore
  <2> DEFINE x == InitialBackoff * q
  <2>2. x \in Nat /\ InitialBackoff * (2 * q) = 2 * x
    BY <1>1, <1>2
  <2> HIDE DEF x, q
  <2>3. Min(Min(x, MaxBackoff) * 2, MaxBackoff) = Min(2 * x, MaxBackoff)
    BY <1>2, <2>2
  <2>4. QED
    BY <1>3, <2>1, <2>2, <2>3 DEF x
<1>6. QED
  BY <1>4, <1>5

(* While an attempt is made, backoff is what would be slept after it.  A   *)
(* failure that was not counted was a connection discarded because of a    *)
(* stop(), and leads to no sleep.                                          *)
BackoffInv ==
  /\ reader \in {"connect_loop", "connecting"} /\ failures < MaxFailures
       => backoff = SleepBefore(failures + 1)
  /\ reader = "connect_failed" /\ ~stop_requested_ =>
       /\ failures >= 1 \/ MaxFailures = 0
       /\ failures \in 1..(MaxFailures - 1) => backoff = SleepBefore(failures)
  /\ reader = "backoff" => failures >= 1 \/ MaxFailures = 0
  /\ BackoffSchedule

LEMMA BackoffStep ==
  ASSUME TypeOK, BackoffInv, [Next]_vars
  PROVE  BackoffInv'
<1> USE DEF BackoffInv, BackoffSchedule
<1>0. failures \in Nat /\ MaxFailures \in Nat
  BY LiveAssumption DEF TypeOK
<1>1. CASE LoopGo
  BY <1>0, <1>1 DEF LoopGo, SleepBefore
<1>2. CASE ConnectLoop
  BY <1>2 DEF ConnectLoop
<1>3. CASE ConnectThrows
  <2>1. /\ reader = "connecting" /\ reader' = "connect_failed" /\ backoff' = backoff
        /\ failures' = IF failures + 1 < MaxFailures THEN failures + 1 ELSE MaxFailures
    BY <1>3 DEF ConnectThrows
  <2>2. ASSUME failures' \in 1..(MaxFailures - 1) PROVE backoff' = SleepBefore(failures')
    <3>1. failures' = failures + 1 /\ failures < MaxFailures
      BY <1>0, <2>1, <2>2
    <3>2. QED
      BY <2>1, <3>1
  <2>3. failures' >= 1 \/ MaxFailures = 0
    BY <1>0, <2>1
  <2>4. QED
    BY <2>1, <2>2, <2>3 DEF SleepBefore
<1>4. CASE ConnectDone
  BY <1>4 DEF ConnectDone
<1>5. CASE ConnectFailed
  BY <1>5 DEF ConnectFailed
<1>6. CASE BackoffSleep
  <2>1. /\ reader = "backoff" /\ reader' = "connect_loop" /\ failures' = failures
        /\ backoff' = Double(backoff)
    BY <1>6 DEF BackoffSleep
  <2>2. ASSUME failures < MaxFailures PROVE backoff' = SleepBefore(failures + 1)
    <3>1. failures \in 1..(MaxFailures - 1) /\ failures \in Nat \ {0}
      BY <1>0, <2>1, <2>2
    <3>2. backoff = SleepBefore(failures)
      BY <2>1, <3>1
    <3>3. QED
      BY <2>1, <3>1, <3>2, SleepDoubles
  <2>3. QED
    BY <2>1, <2>2 DEF SleepBefore
<1>7. CASE StopFlag
  BY <1>7 DEF StopFlag
<1>8. CASE Start \/ StopClose \/ NextCall \/ LoopStop \/ ConnectEmplace
  BY <1>8 DEF Start, StopClose, NextCall, LoopStop, ConnectEmplace
<1>9. CASE TakeStream \/ ReadBegin \/ RecvError \/ RecvInterrupted \/ ReadFailed
  BY <1>9 DEF TakeStream, ReadBegin, RecvError, RecvInterrupted, ReadFailed
<1>10. CASE RecvMessage \/ ParseMalformed \/ ParseThrows \/ ParseEvent
  BY <1>10 DEF RecvMessage, ParseMalformed, ParseThrows, ParseEvent
<1>11. CASE UNCHANGED vars
  BY <1>11 DEF vars
<1>12. QED
  BY <1>1, <1>2, <1>3, <1>4, <1>5, <1>6, <1>7, <1>8, <1>9, <1>10, <1>11
  DEF Next, ReaderStep, Connecting

(* Within one outage the sleeps between attempts are initial_backoff       *)
(* doubled every time and capped by max_backoff, in every configuration,   *)
(* and a new outage starts over: only the loop of next() enters            *)
(* ensureConnected(), and a stop() in between leaves no odd sleep behind.  *)
THEOREM BackoffScheduled == Spec => []BackoffSchedule
<1>1. Init => BackoffInv
  BY DEF Init, BackoffInv, BackoffSchedule
<1>2. TypeOK /\ BackoffInv /\ [Next]_vars => BackoffInv'
  BY BackoffStep
<1>3. BackoffInv => BackoffSchedule
  BY DEF BackoffInv
<1>4. QED
  BY <1>1, <1>2, <1>3, TypeCorrectness, PTL DEF Spec
=============================================================================
