------------------------ MODULE KafkaConsumer_proofs ------------------------
(***************************************************************************)
(* Proofs about KafkaConsumer for any partitions, any kinds of message and *)
(* any number of messages, runs, crashes and failed commits.               *)
(*                                                                         *)
(* The argument: within a run a position only grows, and stored is always  *)
(* position because rd_kafka_consumer_poll() stores what it hands out      *)
(* (OffsetInv).  So a message below the position has been handled, unless  *)
(* it is in hand or was in hand when a run died (SkipInv); and a message   *)
(* at or above it has been handled only by earlier runs, each of which     *)
(* ended in a crash or a failed commit (TimesInv).  The counters follow    *)
(* the position (FiniteInv gives the sums a meaning).                      *)
(***************************************************************************)
EXTENDS KafkaConsumer, TLAPS, FiniteSetTheorems

USE DEF broker, client, counters, flags, history

InHand == thread \in {"parse", "count"}

(* The order of the offsets, and the message in hand is the last taken. *)
OffsetInv ==
  /\ stored = position
  /\ \A p \in Partitions : /\ begin[p] <= committed[p]
                           /\ committed[p] <= position[p]
                           /\ position[p] <= Len(log[p])
  /\ InHand => msg # NoMessage /\ position[msg[1]] = msg[2] + 1
  /\ main = "closing" => thread = "done"

(* Messages taken from the topic in this run or before it, but not handled *)
Skipped == {m \in Partitions \X Offsets :
              m[2] < position[m[1]] /\ times[m[1]][m[2]] = 0}

Hand == IF Alive /\ InHand THEN {msg} ELSE {}

SkipInv == Cardinality(Skipped \ Hand) <= crashes

(* How often a message was handled by the runs that lost their commit. *)
Failures == crashes + uncommitted

TimesInv ==
  \A p \in Partitions, o \in Offsets :
    /\ times[p][o] <= 1 + Failures
    /\ position[p] <= o => times[p][o] <= Failures
    /\ Alive /\ InHand /\ msg = <<p, o>> => times[p][o] <= Failures
    /\ ~Alive /\ committed[p] <= o => times[p][o] <= Failures

FiniteInv ==
  /\ IsFiniteSet(Units(Lengths)) /\ Sum(Lengths) <= MaxMessages
  /\ IsFiniteSet(Units(per_partition_counts))

IInv == TypeOK /\ OffsetInv /\ SkipInv /\ TimesInv /\ FiniteInv /\ CountsAgree

-----------------------------------------------------------------------------
(* Sums over the partitions *)

LEMMA UnitsMember ==
  ASSUME NEW f, NEW x
  PROVE  x \in Units(f) <=>
           \E p \in Partitions, i \in Int : i \in 1..f[p] /\ x = <<p, i>>
<1>1. ASSUME x \in Units(f)
      PROVE  \E p \in Partitions, i \in Int : i \in 1..f[p] /\ x = <<p, i>>
  <2>1. PICK p \in Partitions : x \in {p} \X (1..f[p])
    BY <1>1 DEF Units
  <2>2. x = <<p, x[2]>> /\ x[2] \in 1..f[p] /\ x[2] \in Int
    BY <2>1
  <2>3. QED
    BY <2>2
<1>2. ASSUME NEW p \in Partitions, NEW i \in 1..f[p], x = <<p, i>>
      PROVE  x \in Units(f)
  BY <1>2 DEF Units
<1>3. QED
  BY <1>1, <1>2

(* One more in one partition is one more in all. *)
LEMMA SumIncrement ==
  ASSUME NEW f \in [Partitions -> Nat], NEW p \in Partitions, IsFiniteSet(Units(f)),
         NEW g \in [Partitions -> Nat], g[p] = f[p] + 1,
         \A q \in Partitions : q # p => g[q] = f[q]
  PROVE  IsFiniteSet(Units(g)) /\ Sum(g) = Sum(f) + 1 /\ Sum(f) \in Nat
<1> DEFINE new == <<p, f[p] + 1>>
<1>1. g[p] = f[p] + 1 /\ f[p] \in Nat /\ \A q \in Partitions : q # p => g[q] = f[q]
  OBVIOUS
<1>2. new \notin Units(f)
  <2>1. SUFFICES ASSUME new \in Units(f) PROVE FALSE
    OBVIOUS
  <2>2. PICK q \in Partitions, i \in Int : i \in 1..f[q] /\ new = <<q, i>>
    BY <2>1, UnitsMember
  <2>3. q = p /\ i = f[p] + 1
    BY <2>2
  <2>4. QED
    BY <1>1, <2>2, <2>3
<1>3. Units(g) = Units(f) \cup {new}
  <2>1. ASSUME NEW x \in Units(g) PROVE x \in Units(f) \cup {new}
    <3>1. PICK q \in Partitions, i \in Int : i \in 1..g[q] /\ x = <<q, i>>
      BY <2>1, UnitsMember
    <3>2. i \in 1..f[q] \/ (q = p /\ i = f[p] + 1)
      BY <1>1, <3>1
    <3>3. QED
      BY <3>1, <3>2, UnitsMember
  <2>2. ASSUME NEW x \in Units(f) PROVE x \in Units(g)
    <3>1. PICK q \in Partitions, i \in Int : i \in 1..f[q] /\ x = <<q, i>>
      BY <2>2, UnitsMember
    <3>2. i \in 1..g[q]
      BY <1>1, <3>1
    <3>3. QED
      BY <3>1, <3>2, UnitsMember
  <2>3. new \in Units(g)
    <3>1. f[p] + 1 \in 1..g[p] /\ f[p] + 1 \in Int
      BY <1>1
    <3>2. \E q \in Partitions, i \in Int : i \in 1..g[q] /\ new = <<q, i>>
      BY <3>1
    <3>3. QED
      BY <3>2, UnitsMember
  <2>4. QED
    BY <2>1, <2>2, <2>3
<1> HIDE DEF new
<1>4. IsFiniteSet(Units(g)) /\ Cardinality(Units(g)) = Cardinality(Units(f)) + 1
  BY <1>2, <1>3, FS_AddElement
<1>5. Cardinality(Units(f)) \in Nat
  BY FS_CardinalityType
<1>6. QED
  BY <1>4, <1>5 DEF Sum

(* A function below another has the smaller sum. *)
LEMMA SumSmaller ==
  ASSUME NEW f \in [Partitions -> Nat], NEW g \in [Partitions -> Nat],
         IsFiniteSet(Units(g)), \A p \in Partitions : f[p] <= g[p]
  PROVE  IsFiniteSet(Units(f)) /\ Sum(f) \in Nat
<1>1. Units(f) \subseteq Units(g)
  <2>1. ASSUME NEW x \in Units(f) PROVE x \in Units(g)
    <3>1. PICK p \in Partitions, i \in Int : i \in 1..f[p] /\ x = <<p, i>>
      BY <2>1, UnitsMember
    <3>2. f[p] \in Nat /\ g[p] \in Nat /\ f[p] <= g[p]
      OBVIOUS
    <3>3. i \in 1..g[p]
      BY <3>1, <3>2
    <3>4. QED
      BY <3>1, <3>3, UnitsMember
  <2>2. QED
    BY <2>1
<1>2. QED
  BY <1>1, FS_Subset, FS_CardinalityType DEF Sum

LEMMA SumZero ==
  IsFiniteSet(Units(Zero)) /\ Sum(Zero) = 0
<1>1. Units(Zero) = {}
  <2>1. \A p \in Partitions : 1..Zero[p] = {}
    BY DEF Zero
  <2>2. QED
    BY <2>1, UnitsMember
<1>2. QED
  BY <1>1, FS_EmptySet DEF Sum

(* No partition holds more than all of them. *)
LEMMA SumBounds ==
  ASSUME NEW f \in [Partitions -> Nat], IsFiniteSet(Units(f)), NEW p \in Partitions
  PROVE  f[p] <= Sum(f)
<1> DEFINE T == {p} \X (1..f[p])
<1>1. f[p] \in Nat
  OBVIOUS
<1>2. IsFiniteSet(1..f[p]) /\ Cardinality(1..f[p]) = f[p]
  <2>1. Cardinality(1..f[p]) = IF 1 > f[p] THEN 0 ELSE f[p] - 1 + 1
    BY <1>1, FS_Interval
  <2>2. IsFiniteSet(1..f[p])
    BY <1>1, FS_Interval
  <2>3. QED
    BY <1>1, <2>1, <2>2
<1>3. IsFiniteSet({p}) /\ Cardinality({p}) = 1
  BY FS_Singleton
<1>4. Cardinality(T) = 1 * f[p]
  <2>1. Cardinality(T) = Cardinality({p}) * Cardinality(1..f[p])
    BY <1>2, <1>3, FS_Product
  <2>2. QED
    BY <1>2, <1>3, <2>1
<1>5. T \subseteq Units(f)
  BY DEF Units
<1>6. Cardinality(T) <= Cardinality(Units(f))
  BY <1>5, FS_Subset
<1> HIDE DEF T
<1>7. QED
  BY <1>1, <1>4, <1>6 DEF Sum

-----------------------------------------------------------------------------
(* A message that is handled has been handled once more, and no other. *)
LEMMA HandledOnce ==
  ASSUME TypeOK, InHand, Handled
  PROVE  /\ times' \in [Partitions -> [Offsets -> Nat]]
         /\ \A p \in Partitions, o \in Offsets :
              times'[p][o] = IF msg = <<p, o>> THEN times[p][o] + 1 ELSE times[p][o]
<1> DEFINE q == msg[1]  n == msg[2]
<1>1. q \in Partitions /\ n \in Nat /\ msg = <<q, n>>
  BY DEF TypeOK, InHand
<1>2. times' = [times EXCEPT ![q] = [times[q] EXCEPT ![n] = @ + 1]]
  BY DEF Handled
<1> HIDE DEF q, n
<1>3. /\ times \in [Partitions -> [Offsets -> Nat]]
      /\ times[q] \in [Offsets -> Nat]
  BY <1>1 DEF TypeOK
<1>4. [times[q] EXCEPT ![n] = @ + 1] \in [Offsets -> Nat]
  <2>1. CASE n \in Offsets
    <3>1. times[q][n] + 1 \in Nat
      BY <1>3, <2>1
    <3>2. QED
      BY <1>3, <3>1
  <2>2. CASE n \notin Offsets
    BY <1>3, <2>2
  <2>3. QED
    BY <2>1, <2>2
<1>5. times' \in [Partitions -> [Offsets -> Nat]]
  BY <1>2, <1>3, <1>4
<1>6. ASSUME NEW p \in Partitions, NEW o \in Offsets
      PROVE  times'[p][o] = IF msg = <<p, o>> THEN times[p][o] + 1 ELSE times[p][o]
  <2>1. CASE p = q
    <3>1. times'[p] = [times[q] EXCEPT ![n] = @ + 1]
      BY <1>2, <1>3, <2>1
    <3>2. QED
      BY <1>1, <1>3, <2>1, <3>1
  <2>2. CASE p # q
    <3>1. times'[p] = times[p]
      BY <1>2, <1>3, <2>2
    <3>2. QED
      BY <1>1, <2>2, <3>1
  <2>3. QED
    BY <2>1, <2>2
<1>7. QED
  BY <1>5, <1>6

LEMMA TypeStep ==
  ASSUME TypeOK, [Next]_vars
  PROVE  TypeOK'
<1> USE DEF TypeOK
<1>0. Handled /\ InHand => times' \in [Partitions -> [Offsets -> Nat]]
  BY HandledOnce
<1>1. CASE Boot
  <2>1. Zero \in [Partitions -> Nat]
    BY DEF Zero
  <2>2. thread' = "loop" /\ main' = "waiting" /\ msg' = NoMessage /\ runs' \in Nat
    BY <1>1 DEF Boot
  <2>3. QED
    BY <1>1, <2>1, <2>2 DEF Boot
<1>2. CASE BootThrows
  BY <1>2 DEF BootThrows
<1>3. CASE MainStop
  BY <1>3 DEF MainStop
<1>4. CASE MainJoin
  BY <1>4 DEF MainJoin
<1>5. CASE MainClose
  <2>1. /\ UNCHANGED <<log, client, thread, msg, g_shutdown_requested, counters,
                       times, begin, runs, crashes>>
        /\ main' = "exited" /\ stop_requested_' = TRUE
    BY <1>5 DEF MainClose
  <2>2. committed' \in [Partitions -> Nat] /\ uncommitted' \in Nat
    <3>1. CASE committed' = stored /\ UNCHANGED uncommitted
      BY <3>1
    <3>2. CASE uncommitted' = uncommitted + 1 /\ UNCHANGED committed
      BY <3>2
    <3>3. QED
      BY <1>5, <3>1, <3>2 DEF MainClose
  <2>3. QED
    BY <2>1, <2>2
<1>6. CASE Loop
  BY <1>6 DEF Loop
<1>7. CASE PollNothing
  BY <1>7 DEF PollNothing
<1>8. ASSUME NEW p \in Partitions, PollMessage(p) PROVE TypeOK'
  <2>1. msg' = <<p, position[p]>> /\ log' = log /\ position[p] < Len(log[p])
    BY <1>8 DEF PollMessage
  <2>2. msg' # NoMessage /\ msg'[1] = p /\ msg'[2] = position[p]
    BY <2>1 DEF NoMessage
  <2>3. QED
    BY <1>8, <2>1, <2>2 DEF PollMessage
<1>9. CASE ParseMalformed
  BY <1>0, <1>9 DEF ParseMalformed, InHand
<1>10. CASE ParseThrows
  BY <1>10 DEF ParseThrows
<1>11. CASE ParseEvent
  BY <1>11 DEF ParseEvent
<1>12. CASE Count
  <2>1. per_partition_counts' \in [Partitions -> Nat]
    BY <1>12 DEF Count
  <2>2. QED
    BY <1>0, <1>12, <2>1 DEF Count, InHand
<1>13. ASSUME NEW p \in Partitions, NEW k \in Kinds, Produce(p, k) PROVE TypeOK'
  <2>1. /\ log' \in [Partitions -> Seq(Kinds)]
        /\ \A q \in Partitions : Len(log[q]) <= Len(log'[q])
    BY <1>13 DEF Produce
  <2>2. ASSUME thread' \in {"parse", "count"}
        PROVE  msg' # NoMessage /\ msg'[2] < Len(log'[msg'[1]])
    <3>1. msg' = msg /\ thread' = thread
      BY <1>13 DEF Produce
    <3>2. msg # NoMessage /\ msg[2] < Len(log[msg[1]]) /\ msg \in Partitions \X Nat
      BY <2>2, <3>1
    <3>3. msg[1] \in Partitions /\ msg[2] \in Nat
      BY <3>2
    <3>4. Len(log[msg[1]]) \in Nat /\ Len(log'[msg[1]]) \in Nat
      <4>1. log[msg[1]] \in Seq(Kinds) /\ log'[msg[1]] \in Seq(Kinds)
        BY <2>1, <3>3
      <4>2. QED
        BY ONLY <4>1
    <3>5. QED
      BY <2>1, <3>1, <3>2, <3>3, <3>4
  <2>3. UNCHANGED <<committed, client, main, thread, msg, flags, counters, times, history>>
    BY <1>13 DEF Produce
  <2> HIDE DEF TypeOK
  <2>4. QED
    BY <2>1, <2>2, <2>3, SMTT(30) DEF TypeOK
<1>14. CASE AutoCommit
  BY <1>14 DEF AutoCommit
<1>15. CASE Signal
  BY <1>15 DEF Signal
<1>16. CASE Crash
  BY <1>16 DEF Crash
<1>17. CASE UNCHANGED vars
  BY <1>17 DEF vars
<1>18. QED
  BY <1>1, <1>2, <1>3, <1>4, <1>5, <1>6, <1>7, <1>8, <1>9, <1>10, <1>11, <1>12,
     <1>13, <1>14, <1>15, <1>16, <1>17
     DEF Next, MainStep, ThreadStep, Environment

(* Offsets grow in their order: begin, committed, position, the log. *)
LEMMA OffsetStep ==
  ASSUME TypeOK, OffsetInv, [Next]_vars
  PROVE  OffsetInv'
<1> USE DEF OffsetInv, InHand
<1>0. \A p \in Partitions : /\ begin[p] \in Nat /\ committed[p] \in Nat
                            /\ position[p] \in Nat /\ Len(log[p]) \in Nat
  BY DEF TypeOK
<1>1. CASE Boot
  BY <1>0, <1>1 DEF Boot
<1>2. CASE BootThrows
  BY <1>2 DEF BootThrows
<1>3. CASE MainStop
  BY <1>3 DEF MainStop
<1>4. CASE MainJoin
  BY <1>4 DEF MainJoin
<1>5. CASE MainClose
  BY <1>0, <1>5 DEF MainClose
<1>6. CASE Loop
  BY <1>6 DEF Loop
<1>7. CASE PollNothing
  BY <1>7 DEF PollNothing
<1>8. ASSUME NEW p \in Partitions, PollMessage(p) PROVE OffsetInv'
  <2>1. /\ msg' = <<p, position[p]>> /\ position[p] < Len(log[p]) /\ main' = main
        /\ position' = [position EXCEPT ![p] = @ + 1] /\ thread = "polling"
        /\ stored' = [stored EXCEPT ![p] = position[p] + 1]
        /\ UNCHANGED <<begin, committed, log>>
    BY <1>8 DEF PollMessage
  <2>2. msg' # NoMessage /\ msg'[1] = p /\ msg'[2] = position[p]
    BY <2>1 DEF NoMessage
  <2>3. /\ position'[p] = position[p] + 1
        /\ \A q \in Partitions : q # p => position'[q] = position[q]
    BY <2>1 DEF TypeOK
  <2>4. stored' = position'
    BY <2>1 DEF TypeOK
  <2>5. ASSUME NEW q \in Partitions
        PROVE  /\ begin'[q] <= committed'[q] /\ committed'[q] <= position'[q]
               /\ position'[q] <= Len(log'[q])
    BY <1>0, <2>1, <2>3
  <2>6. QED
    BY <2>1, <2>2, <2>3, <2>4, <2>5
<1>9. CASE ParseMalformed
  BY <1>9 DEF ParseMalformed
<1>10. CASE ParseThrows
  BY <1>10 DEF ParseThrows
<1>11. CASE ParseEvent
  BY <1>11 DEF ParseEvent
<1>12. CASE Count
  BY <1>12 DEF Count
<1>13. ASSUME NEW p \in Partitions, NEW k \in Kinds, Produce(p, k) PROVE OffsetInv'
  <2>1. \A q \in Partitions : Len(log[q]) <= Len(log'[q]) /\ Len(log'[q]) \in Nat
    BY <1>13 DEF Produce, TypeOK
  <2>2. ASSUME NEW q \in Partitions PROVE position[q] <= Len(log'[q])
    BY <1>0, <2>1
  <2>3. QED
    BY <1>13, <2>2 DEF Produce
<1>14. CASE AutoCommit
  BY <1>0, <1>14 DEF AutoCommit
<1>15. CASE Signal
  BY <1>15 DEF Signal
<1>16. CASE Crash
  BY <1>16 DEF Crash
<1>17. CASE UNCHANGED vars
  BY <1>17 DEF vars
<1>18. QED
  BY <1>1, <1>2, <1>3, <1>4, <1>5, <1>6, <1>7, <1>8, <1>9, <1>10, <1>11, <1>12,
     <1>13, <1>14, <1>15, <1>16, <1>17
     DEF Next, MainStep, ThreadStep, Environment

(* A message is handled again only by a run after a crash or a failed      *)
(* commit.                                                                 *)
LEMMA TimesStep ==
  ASSUME TypeOK, OffsetInv, TimesInv, [Next]_vars
  PROVE  TimesInv'
<1> USE DEF TimesInv, Failures
<1>0. /\ crashes \in Nat /\ uncommitted \in Nat
      /\ \A p \in Partitions : position[p] \in Nat /\ committed[p] \in Nat
      /\ \A p \in Partitions, o \in Offsets : times[p][o] \in Nat /\ o \in Int
  BY ConsumerAssumption DEF TypeOK, Offsets
<1>a. ASSUME times' = times, crashes' = crashes + 1, uncommitted' = uncommitted
      PROVE  TimesInv'
  BY <1>0, <1>a
<1>b. ASSUME Handled, InHand, Alive, ~InHand', Alive',
             UNCHANGED <<position, crashes, uncommitted>>
      PROVE  TimesInv'
  <2>1. \A p \in Partitions, o \in Offsets :
          times'[p][o] = IF msg = <<p, o>> THEN times[p][o] + 1 ELSE times[p][o]
    BY <1>b, HandledOnce
  <2>2. ASSUME NEW p \in Partitions, NEW o \in Offsets
        PROVE  times'[p][o] <= 1 + Failures /\ (position[p] <= o => times'[p][o] <= Failures)
    <3>1. CASE msg = <<p, o>>
      <4>1. position[p] = o + 1
        BY <1>b, <3>1 DEF OffsetInv
      <4>2. times[p][o] <= Failures
        BY <1>b, <3>1
      <4>3. QED
        BY <1>0, <2>1, <3>1, <4>1, <4>2
    <3>2. CASE msg # <<p, o>>
      BY <1>0, <2>1, <3>2
    <3>3. QED
      BY <3>1, <3>2
  <2>3. QED
    BY <1>b, <2>2
<1>1. CASE Boot
  BY <1>0, <1>1 DEF Boot, OffsetInv, InHand
<1>2. CASE BootThrows
  BY <1>2 DEF BootThrows, Alive
<1>3. CASE MainStop
  BY <1>3 DEF MainStop, Alive, InHand
<1>4. CASE MainJoin
  BY <1>4 DEF MainJoin, Alive, InHand
<1>5. CASE MainClose
  <2>1. UNCHANGED <<times, position, crashes, thread>> /\ ~Alive' /\ stored = position
    BY <1>5 DEF MainClose, Alive, OffsetInv
  <2>2. CASE committed' = stored /\ UNCHANGED uncommitted
    BY <2>1, <2>2
  <2>3. CASE uncommitted' = uncommitted + 1
    BY <1>0, <2>1, <2>3
  <2>4. QED
    BY <1>5, <2>2, <2>3 DEF MainClose
<1>6. CASE Loop
  BY <1>6 DEF Loop, Alive, InHand
<1>7. CASE PollNothing
  BY <1>7 DEF PollNothing, Alive, InHand
<1>8. ASSUME NEW p \in Partitions, PollMessage(p) PROVE TimesInv'
  <2>1. /\ UNCHANGED <<times, crashes, uncommitted, committed>> /\ Alive'
        /\ msg' = <<p, position[p]>>
        /\ position'[p] = position[p] + 1
        /\ \A q \in Partitions : q # p => position'[q] = position[q]
    BY <1>8 DEF PollMessage, Alive, TypeOK
  <2>2. ASSUME NEW q \in Partitions, NEW o \in Offsets, position'[q] <= o
        PROVE  times[q][o] <= Failures
    <3>1. position[q] <= o
      BY <1>0, <2>1, <2>2
    <3>2. QED
      BY <3>1
  <2>3. ASSUME NEW q \in Partitions, NEW o \in Offsets, msg' = <<q, o>>
        PROVE  times[q][o] <= Failures
    <3>1. q = p /\ o = position[p]
      BY <2>1, <2>3
    <3>2. QED
      BY <1>0, <3>1
  <2>4. QED
    BY <2>1, <2>2, <2>3
<1>9. CASE ParseMalformed
  BY <1>9, <1>b DEF ParseMalformed, Alive, InHand
<1>10. CASE ParseThrows
  BY <1>10, <1>a DEF ParseThrows
<1>11. CASE ParseEvent
  BY <1>11 DEF ParseEvent, Alive, InHand
<1>12. CASE Count
  BY <1>12, <1>b DEF Count, Alive, InHand
<1>13. ASSUME NEW p \in Partitions, NEW k \in Kinds, Produce(p, k) PROVE TimesInv'
  BY <1>13 DEF Produce, Alive, InHand
<1>14. CASE AutoCommit
  BY <1>14 DEF AutoCommit, Alive, InHand
<1>15. CASE Signal
  BY <1>15 DEF Signal, Alive, InHand
<1>16. CASE Crash
  BY <1>16, <1>a DEF Crash
<1>17. CASE UNCHANGED vars
  BY <1>17 DEF vars, Alive, InHand
<1>18. QED
  BY <1>1, <1>2, <1>3, <1>4, <1>5, <1>6, <1>7, <1>8, <1>9, <1>10, <1>11, <1>12,
     <1>13, <1>14, <1>15, <1>16, <1>17
     DEF Next, MainStep, ThreadStep, Environment

LEMMA SkippedFinite == IsFiniteSet(Skipped)
<1>1. IsFiniteSet(Offsets)
  BY ConsumerAssumption, FS_Interval DEF Offsets
<1>2. IsFiniteSet(Partitions \X Offsets)
  BY <1>1, ConsumerAssumption, FS_Product
<1>3. QED
  BY <1>2, FS_Subset DEF Skipped

(* A message is skipped for good only by a run that dies with it in hand. *)
LEMMA SkipStep ==
  ASSUME TypeOK, OffsetInv, SkipInv, [Next]_vars
  PROVE  SkipInv'
<1>0. /\ crashes \in Nat /\ IsFiniteSet(Skipped) /\ IsFiniteSet(Skipped \ Hand)
      /\ Cardinality(Skipped \ Hand) \in Nat
      /\ \A p \in Partitions : position[p] \in Nat /\ committed[p] \in Nat
      /\ \A o \in Offsets : o \in Int
  <2>1. IsFiniteSet(Skipped \ Hand)
    BY SkippedFinite, FS_Subset
  <2>2. QED
    BY <2>1, SkippedFinite, FS_CardinalityType, ConsumerAssumption DEF TypeOK, Offsets
<1>a. ASSUME Skipped' \ Hand' \subseteq Skipped \ Hand, crashes' = crashes
      PROVE  SkipInv'
  <2>1. /\ IsFiniteSet(Skipped' \ Hand')
        /\ Cardinality(Skipped' \ Hand') <= Cardinality(Skipped \ Hand)
    BY <1>0, <1>a, FS_Subset
  <2>2. Cardinality(Skipped' \ Hand') \in Nat
    BY <2>1, FS_CardinalityType
  <2>3. QED
    BY <1>0, <1>a, <2>1, <2>2 DEF SkipInv
<1>b. ASSUME UNCHANGED <<position, times, crashes>>, Hand' = Hand
      PROVE  SkipInv'
  BY <1>a, <1>b DEF Skipped
<1>c. ASSUME UNCHANGED <<position, times>>, ~Alive', crashes' = crashes + 1
      PROVE  SkipInv'
  <2>1. Hand' = {} /\ Skipped' = Skipped
    BY <1>c DEF Hand, Skipped
  <2>2. Skipped \subseteq (Skipped \ Hand) \cup {msg}
    BY DEF Hand
  <2>3. /\ IsFiniteSet((Skipped \ Hand) \cup {msg})
        /\ Cardinality((Skipped \ Hand) \cup {msg}) <= Cardinality(Skipped \ Hand) + 1
    <3> DEFINE T == Skipped \ Hand
    <3>1. IsFiniteSet(T) /\ Cardinality(T) \in Nat
      BY <1>0
    <3> HIDE DEF T
    <3>2. /\ IsFiniteSet(T \cup {msg})
          /\ \/ Cardinality(T \cup {msg}) = Cardinality(T)
             \/ Cardinality(T \cup {msg}) = Cardinality(T) + 1
      BY <3>1, FS_AddElement
    <3>3. Cardinality(T \cup {msg}) <= Cardinality(T) + 1
      BY <3>1, <3>2
    <3>4. QED
      BY <3>2, <3>3 DEF T
  <2>4. /\ Cardinality(Skipped) <= Cardinality((Skipped \ Hand) \cup {msg})
        /\ Cardinality(Skipped) \in Nat
        /\ Cardinality((Skipped \ Hand) \cup {msg}) \in Nat
    BY <1>0, <2>2, <2>3, FS_Subset, FS_CardinalityType
  <2>5. Skipped' \ Hand' = Skipped
    BY <2>1
  <2>6. QED
    BY <1>0, <1>c, <2>3, <2>4, <2>5 DEF SkipInv
<1>d. ASSUME Handled, InHand, Alive, ~InHand', UNCHANGED <<position, crashes>>
      PROVE  SkipInv'
  <2>1. Hand = {msg} /\ Hand' = {}
    BY <1>d DEF Hand
  <2>2. ASSUME NEW m \in Skipped' PROVE m \in Skipped \ {msg}
    <3>1. /\ m \in Partitions \X Offsets /\ m[1] \in Partitions /\ m[2] \in Offsets
          /\ m = <<m[1], m[2]>>
          /\ m[2] < position[m[1]] /\ times'[m[1]][m[2]] = 0
      BY <1>d, <2>2 DEF Skipped
    <3>2. times'[m[1]][m[2]] = IF msg = m THEN times[m[1]][m[2]] + 1 ELSE times[m[1]][m[2]]
      BY <1>d, <3>1, HandledOnce
    <3>3. times[m[1]][m[2]] \in Nat
      BY <3>1 DEF TypeOK
    <3>4. QED
      BY <3>1, <3>2, <3>3 DEF Skipped
  <2>3. QED
    BY <1>a, <1>d, <2>1, <2>2
<1>1. CASE Boot
  <2>1. /\ ~Alive /\ ~InHand' /\ position' = committed /\ UNCHANGED <<times, crashes>>
    BY <1>1 DEF Boot, InHand
  <2>2. ASSUME NEW m \in Skipped' PROVE m \in Skipped
    <3>1. m \in Partitions \X Offsets /\ m[1] \in Partitions /\ m[2] \in Offsets
      BY <2>2 DEF Skipped
    <3>2. m[2] < position[m[1]]
      BY <1>0, <2>1, <2>2, <3>1 DEF Skipped, OffsetInv
    <3>3. QED
      BY <2>1, <2>2, <3>1, <3>2 DEF Skipped
  <2>3. QED
    BY <1>a, <2>1, <2>2 DEF Hand
<1>2. CASE BootThrows
  BY <1>2, <1>b DEF BootThrows, Hand, Alive
<1>3. CASE MainStop
  BY <1>3, <1>b DEF MainStop, Hand, Alive, InHand
<1>4. CASE MainJoin
  BY <1>4, <1>b DEF MainJoin, Hand, Alive, InHand
<1>5. CASE MainClose
  BY <1>5, <1>b DEF MainClose, Hand, Alive, InHand, OffsetInv
<1>6. CASE Loop
  BY <1>6, <1>b DEF Loop, Hand, Alive, InHand
<1>7. CASE PollNothing
  BY <1>7, <1>b DEF PollNothing, Hand, Alive, InHand
<1>8. ASSUME NEW p \in Partitions, PollMessage(p) PROVE SkipInv'
  <2>1. /\ UNCHANGED <<times, crashes>> /\ msg' = <<p, position[p]>>
        /\ position'[p] = position[p] + 1
        /\ \A q \in Partitions : q # p => position'[q] = position[q]
        /\ Hand = {} /\ Hand' = {msg'}
    BY <1>8 DEF PollMessage, Alive, InHand, Hand, TypeOK
  <2>2. ASSUME NEW m \in Skipped', m # msg' PROVE m \in Skipped
    <3>1. /\ m \in Partitions \X Offsets /\ m[1] \in Partitions /\ m[2] \in Offsets
          /\ m = <<m[1], m[2]>> /\ m[2] < position'[m[1]] /\ times[m[1]][m[2]] = 0
      BY <2>1, <2>2 DEF Skipped
    <3>2. m[2] < position[m[1]]
      <4>1. CASE m[1] = p
        <5>1. m[2] # position[p]
          BY <2>1, <2>2, <3>1, <4>1
        <5>2. QED
          BY <1>0, <2>1, <3>1, <4>1, <5>1
      <4>2. CASE m[1] # p
        BY <2>1, <3>1, <4>2
      <4>3. QED
        BY <4>1, <4>2
    <3>3. QED
      BY <3>1, <3>2 DEF Skipped
  <2>3. QED
    BY <1>a, <2>1, <2>2
<1>9. CASE ParseMalformed
  BY <1>9, <1>d DEF ParseMalformed, InHand
<1>10. CASE ParseThrows
  BY <1>10, <1>c DEF ParseThrows, Alive
<1>11. CASE ParseEvent
  BY <1>11, <1>b DEF ParseEvent, Hand, Alive, InHand
<1>12. CASE Count
  BY <1>12, <1>d DEF Count, InHand
<1>13. ASSUME NEW p \in Partitions, NEW k \in Kinds, Produce(p, k) PROVE SkipInv'
  BY <1>13, <1>b DEF Produce, Hand, Alive, InHand
<1>14. CASE AutoCommit
  BY <1>14, <1>b DEF AutoCommit, Hand, Alive, InHand
<1>15. CASE Signal
  BY <1>15, <1>b DEF Signal, Hand, Alive, InHand
<1>16. CASE Crash
  BY <1>16, <1>c DEF Crash, Alive
<1>17. CASE UNCHANGED vars
  BY <1>17, <1>b DEF vars, Hand, Alive, InHand
<1>18. QED
  BY <1>1, <1>2, <1>3, <1>4, <1>5, <1>6, <1>7, <1>8, <1>9, <1>10, <1>11, <1>12,
     <1>13, <1>14, <1>15, <1>16, <1>17
     DEF Next, MainStep, ThreadStep, Environment

-----------------------------------------------------------------------------
(* The sums are of finite sets, and no partition is longer than the bound. *)
LEMMA FiniteStep ==
  ASSUME TypeOK, FiniteInv, [Next]_vars
  PROVE  FiniteInv'
<1>0. Lengths \in [Partitions -> Nat] /\ per_partition_counts \in [Partitions -> Nat]
  BY DEF TypeOK, Lengths
<1>a. ASSUME log' = log, per_partition_counts' \in {per_partition_counts, Zero}
      PROVE  FiniteInv'
  <2>1. Lengths' = Lengths
    BY <1>a DEF Lengths
  <2>2. Units(Lengths)' = Units(Lengths) /\ Sum(Lengths)' = Sum(Lengths)
    BY <2>1 DEF Sum, Units
  <2>3. IsFiniteSet(Units(per_partition_counts'))
    BY <1>a, SumZero DEF FiniteInv
  <2>4. IsFiniteSet(Units(per_partition_counts))'
    BY <2>3 DEF Units
  <2>5. QED
    BY <2>2, <2>4 DEF FiniteInv
<1>1. CASE Count
  <2> DEFINE p == msg[1]
  <2>1. p \in Partitions
    BY <1>1 DEF Count, TypeOK
  <2>2. per_partition_counts' \in [Partitions -> Nat]
    BY <1>1 DEF Count, TypeOK
  <2>3. /\ per_partition_counts'[p] = per_partition_counts[p] + 1
        /\ \A q \in Partitions : q # p => per_partition_counts'[q] = per_partition_counts[q]
    BY <1>0, <1>1, <2>1 DEF Count
  <2>4. IsFiniteSet(Units(per_partition_counts'))
    BY <1>0, <2>1, <2>2, <2>3, SumIncrement DEF FiniteInv
  <2>5. Lengths' = Lengths
    BY <1>1 DEF Count, Lengths
  <2>6. QED
    BY <2>4, <2>5 DEF FiniteInv, Sum, Units
<1>2. ASSUME NEW p \in Partitions, NEW k \in Kinds, Produce(p, k) PROVE FiniteInv'
  <2>1. Lengths' \in [Partitions -> Nat]
    BY <1>2 DEF Produce, TypeOK, Lengths
  <2>2. /\ Lengths'[p] = Lengths[p] + 1
        /\ \A q \in Partitions : q # p => Lengths'[q] = Lengths[q]
    BY <1>2 DEF Produce, TypeOK, Lengths
  <2>3. IsFiniteSet(Units(Lengths')) /\ Sum(Lengths') = Sum(Lengths) + 1 /\ Sum(Lengths) \in Nat
    BY <1>0, <2>1, <2>2, SumIncrement DEF FiniteInv
  <2>4. Sum(Lengths') <= MaxMessages
    BY <1>2, <2>3, ConsumerAssumption DEF Produce
  <2>5. per_partition_counts' = per_partition_counts
    BY <1>2 DEF Produce
  <2>6. QED
    BY <2>3, <2>4, <2>5 DEF FiniteInv, Sum, Units
<1>3. QED
  BY <1>1, <1>2, <1>a
     DEF Next, MainStep, ThreadStep, Environment, vars, Boot, BootThrows, MainStop,
         MainJoin, MainClose, Loop, PollNothing, PollMessage, ParseMalformed,
         ParseThrows, ParseEvent, AutoCommit, Signal, Crash

(* Every step that takes, counts or forgets a message keeps the counters   *)
(* in step with the positions.                                             *)
LEMMA CountStep ==
  ASSUME TypeOK, OffsetInv, FiniteInv, CountsAgree, [Next]_vars
  PROVE  CountsAgree'
<1>0. /\ Lengths \in [Partitions -> Nat] /\ position \in [Partitions -> Nat]
      /\ begin \in [Partitions -> Nat] /\ committed \in [Partitions -> Nat]
      /\ per_partition_counts \in [Partitions -> Nat]
      /\ messages_consumed_ \in Nat /\ messages_malformed_ \in Nat /\ total \in Nat
  BY DEF TypeOK, Lengths
<1>a. IsFiniteSet(Units(position)) /\ Sum(position) \in Nat
  BY <1>0, SumSmaller DEF OffsetInv, FiniteInv, Lengths
<1>b. IsFiniteSet(Units(begin)) /\ Sum(begin) \in Nat
  <2>1. \A p \in Partitions : begin[p] <= position[p]
    BY <1>0 DEF OffsetInv
  <2>2. QED
    BY <1>0, <1>a, <2>1, SumSmaller
<1>c. IsFiniteSet(Units(committed)) /\ Sum(committed) \in Nat
  BY <1>0, <1>a, SumSmaller DEF OffsetInv
<1>d. /\ Sum(position)' = Sum(position') /\ Sum(begin)' = Sum(begin')
      /\ Sum(per_partition_counts)' = Sum(per_partition_counts')
  BY DEF Sum, Units
<1>e. ASSUME UNCHANGED <<position, begin, counters, thread>>
      PROVE  CountsAgree'
  BY <1>e, <1>d DEF CountsAgree
<1>f. ASSUME UNCHANGED <<position, begin, counters>>, ~InHand, ~InHand'
      PROVE  CountsAgree'
  BY <1>f, <1>d DEF CountsAgree, InHand
<1>1. CASE Boot
  <2>1. /\ total' = 0 /\ messages_consumed_' = 0 /\ messages_malformed_' = 0
        /\ position' = committed /\ begin' = committed /\ thread' = "loop"
        /\ per_partition_counts' = Zero
    BY <1>1 DEF Boot
  <2>2. QED
    BY <1>c, <1>d, <2>1, SumZero DEF CountsAgree
<1>2. CASE BootThrows
  BY <1>2, <1>e DEF BootThrows
<1>3. CASE MainStop
  BY <1>3, <1>e DEF MainStop
<1>4. CASE MainJoin
  BY <1>4, <1>e DEF MainJoin
<1>5. CASE MainClose
  BY <1>5, <1>e DEF MainClose
<1>6. CASE Loop
  BY <1>6, <1>f DEF Loop, InHand
<1>7. CASE PollNothing
  BY <1>7, <1>f DEF PollNothing, InHand
<1>8. ASSUME NEW p \in Partitions, PollMessage(p) PROVE CountsAgree'
  <2>1. /\ position' \in [Partitions -> Nat] /\ position'[p] = position[p] + 1
        /\ \A q \in Partitions : q # p => position'[q] = position[q]
    BY <1>0, <1>8 DEF PollMessage
  <2>2. Sum(position') = Sum(position) + 1
    BY <1>0, <1>a, <2>1, SumIncrement
  <2>3. UNCHANGED <<begin, counters>> /\ thread = "polling" /\ thread' = "parse"
    BY <1>8 DEF PollMessage
  <2>4. QED
    BY <1>0, <1>a, <1>b, <1>d, <2>2, <2>3 DEF CountsAgree
<1>9. CASE ParseMalformed
  <2>1. /\ UNCHANGED <<position, begin, messages_consumed_, total, per_partition_counts>>
        /\ messages_malformed_' = messages_malformed_ + 1
        /\ thread = "parse" /\ thread' = "loop"
    BY <1>9 DEF ParseMalformed
  <2>2. QED
    BY <1>0, <1>a, <1>b, <1>d, <2>1 DEF CountsAgree
<1>10. CASE ParseThrows
  BY <1>10, <1>e DEF ParseThrows
<1>11. CASE ParseEvent
  <2>1. /\ UNCHANGED <<position, begin, messages_malformed_, total, per_partition_counts>>
        /\ messages_consumed_' = messages_consumed_ + 1
        /\ thread = "parse" /\ thread' = "count"
    BY <1>11 DEF ParseEvent
  <2>2. QED
    BY <1>0, <1>a, <1>b, <1>d, <2>1 DEF CountsAgree
<1>12. CASE Count
  <2> DEFINE p == msg[1]
  <2>1. p \in Partitions
    BY <1>12 DEF Count, TypeOK
  <2>2. /\ per_partition_counts' \in [Partitions -> Nat]
        /\ per_partition_counts'[p] = per_partition_counts[p] + 1
        /\ \A q \in Partitions : q # p => per_partition_counts'[q] = per_partition_counts[q]
    BY <1>0, <1>12, <2>1 DEF Count
  <2>3. Sum(per_partition_counts') = Sum(per_partition_counts) + 1
    BY <1>0, <2>1, <2>2, SumIncrement DEF FiniteInv
  <2>4. /\ UNCHANGED <<position, begin, messages_malformed_, messages_consumed_>>
        /\ total' = total + 1 /\ thread = "count" /\ thread' = "loop"
    BY <1>12 DEF Count
  <2>5. QED
    BY <1>0, <1>a, <1>b, <1>d, <2>3, <2>4 DEF CountsAgree
<1>13. ASSUME NEW p \in Partitions, NEW k \in Kinds, Produce(p, k) PROVE CountsAgree'
  BY <1>13, <1>e DEF Produce
<1>14. CASE AutoCommit
  BY <1>14, <1>e DEF AutoCommit
<1>15. CASE Signal
  BY <1>15, <1>e DEF Signal
<1>16. CASE Crash
  BY <1>16, <1>e DEF Crash
<1>17. CASE UNCHANGED vars
  BY <1>17, <1>e DEF vars
<1>18. QED
  BY <1>1, <1>2, <1>3, <1>4, <1>5, <1>6, <1>7, <1>8, <1>9, <1>10, <1>11, <1>12,
     <1>13, <1>14, <1>15, <1>16, <1>17
     DEF Next, MainStep, ThreadStep, Environment

-----------------------------------------------------------------------------
LEMMA Initially ==
  ASSUME Init
  PROVE  IInv
<1>1. TypeOK
  <2>1. Zero \in [Partitions -> Nat]
    BY DEF Zero
  <2>2. times \in [Partitions -> [Offsets -> Nat]]
    BY DEF Init
  <2>3. log \in [Partitions -> Seq(Kinds)]
    BY DEF Init
  <2>4. /\ committed \in [Partitions -> Nat] /\ position \in [Partitions -> Nat]
        /\ stored \in [Partitions -> Nat] /\ begin \in [Partitions -> Nat]
        /\ per_partition_counts \in [Partitions -> Nat]
    BY <2>1 DEF Init
  <2>5. thread = "none" /\ main = "off" /\ msg = NoMessage
    BY DEF Init
  <2>6. QED
    BY <2>2, <2>3, <2>4, <2>5 DEF Init, TypeOK
<1>2. OffsetInv
  BY DEF Init, OffsetInv, InHand, Zero
<1>3. SkipInv
  <2>1. ASSUME NEW m \in Skipped PROVE FALSE
    <3>1. m[1] \in Partitions /\ m[2] \in Offsets /\ m[2] < 0
      BY DEF Init, Skipped, Zero
    <3>2. QED
      BY <3>1, ConsumerAssumption DEF Offsets
  <2>2. Skipped \ Hand = {}
    BY <2>1
  <2>3. Cardinality({}) = 0 /\ crashes = 0
    BY FS_EmptySet DEF Init
  <2>4. QED
    BY <2>2, <2>3 DEF SkipInv
<1>4. TimesInv
  BY DEF Init, TimesInv, Failures, InHand, Zero
<1>5. FiniteInv
  <2>1. Lengths = Zero
    BY DEF Init, Lengths, Zero
  <2>2. QED
    BY <2>1, SumZero, ConsumerAssumption DEF Init, FiniteInv
<1>6. CountsAgree
  BY SumZero DEF Init, CountsAgree
<1>7. QED
  BY <1>1, <1>2, <1>3, <1>4, <1>5, <1>6 DEF IInv

(* The inductive invariant of the consumer's process and the broker.       *)
THEOREM Invariant == Spec => []IInv
<1>1. Init => IInv
  BY Initially
<1>2. IInv /\ [Next]_vars => IInv'
  BY TypeStep, OffsetStep, TimesStep, SkipStep, FiniteStep, CountStep DEF IInv
<1>3. QED
  BY <1>1, <1>2, PTL DEF Spec

(* Every variable has its type, and next() and the loop that counts have a *)
(* message of the topic in hand.                                           *)
THEOREM TypeCorrect == Spec => []TypeOK
<1>1. IInv => TypeOK
  BY DEF IInv
<1>2. QED
  BY <1>1, Invariant, PTL

(* The totals that services/consumer prints agree with what librdkafka     *)
(* handed out: whatever the signals, crashes and restarts, the             *)
(* per-partition counts add up to the total, the total is what next()      *)
(* returned, and with the malformed messages it is what the run has taken. *)
THEOREM CountersAgree == Spec => []CountsAgree
<1>1. IInv => CountsAgree
  BY DEF IInv
<1>2. QED
  BY <1>1, Invariant, PTL

(* Auto commit stores an offset before its message is handled, so a run    *)
(* that dies can skip the message it has in hand; it is the only one, and  *)
(* a run that ends by stop() and close skips none.                         *)
THEOREM LossBounded == Spec => []LossBound
<1>1. IInv => LossBound
  <2> SUFFICES ASSUME IInv PROVE LossBound
    OBVIOUS
  <2>1. Unhandled \subseteq Skipped
    <3>1. ASSUME NEW m \in Unhandled PROVE m \in Skipped
      <4>1. /\ m \in Partitions \X Offsets /\ m[1] \in Partitions /\ m[2] \in Offsets
            /\ m[2] < committed[m[1]] /\ times[m[1]][m[2]] = 0
        BY DEF Unhandled
      <4>2. m[2] \in Int /\ committed[m[1]] \in Nat /\ position[m[1]] \in Nat
        BY <4>1, ConsumerAssumption DEF IInv, TypeOK, Offsets
      <4>3. m[2] < position[m[1]]
        BY <4>1, <4>2 DEF IInv, OffsetInv
      <4>4. QED
        BY <4>1, <4>3 DEF Skipped
    <3>2. QED
      BY <3>1
  <2> DEFINE T == Skipped \ Hand
  <2>2. /\ IsFiniteSet(T) /\ Cardinality(T) \in Nat
        /\ Cardinality(T) <= crashes /\ crashes \in Nat
    BY SkippedFinite, FS_Subset, FS_CardinalityType DEF IInv, SkipInv, TypeOK
  <2>3. CASE Alive /\ thread \in {"parse", "count"}
    <3>1. Unhandled \subseteq T \cup {msg}
      BY <2>1, <2>3 DEF Hand
    <3> HIDE DEF T
    <3>2. /\ IsFiniteSet(T \cup {msg}) /\ Cardinality(T \cup {msg}) \in Nat
          /\ \/ Cardinality(T \cup {msg}) = Cardinality(T)
             \/ Cardinality(T \cup {msg}) = Cardinality(T) + 1
      BY <2>2, FS_AddElement, FS_CardinalityType
    <3>3. /\ Cardinality(Unhandled) <= Cardinality(T \cup {msg})
          /\ Cardinality(Unhandled) \in Nat
      BY <3>1, <3>2, FS_Subset, FS_CardinalityType
    <3>4. QED
      BY <2>2, <2>3, <3>2, <3>3 DEF LossBound
  <2>4. CASE ~(Alive /\ thread \in {"parse", "count"})
    <3>1. Unhandled \subseteq T
      BY <2>1, <2>4 DEF Hand, InHand
    <3> HIDE DEF T
    <3>2. Cardinality(Unhandled) <= Cardinality(T) /\ Cardinality(Unhandled) \in Nat
      BY <2>2, <3>1, FS_Subset, FS_CardinalityType
    <3>3. QED
      BY <2>2, <2>4, <3>2 DEF LossBound
  <2>5. QED
    BY <2>3, <2>4
<1>2. QED
  BY <1>1, Invariant, PTL

(* A message is handled again only by a run that follows a crash or a      *)
(* close whose commit failed: restarts after a clean stop() repeat none.   *)
THEOREM RedeliveryBounded == Spec => []RedeliveryBound
<1>1. IInv => RedeliveryBound
  <2> SUFFICES ASSUME IInv, NEW p \in Partitions, NEW o \in Offsets
               PROVE  times[p][o] <= 1 + crashes + uncommitted
    BY DEF RedeliveryBound
  <2>1. times[p][o] <= 1 + (crashes + uncommitted)
    BY DEF IInv, TimesInv, Failures
  <2>2. crashes \in Nat /\ uncommitted \in Nat /\ times[p][o] \in Nat
    BY DEF IInv, TypeOK
  <2>3. QED
    BY <2>1, <2>2
<1>2. QED
  BY <1>1, Invariant, PTL

(* No offset of the topic is left out of the two bounds above: Offsets     *)
(* covers every message that any partition holds.                          *)
THEOREM OffsetsCoverLog ==
  Spec => [](\A p \in Partitions : \A i \in DOMAIN log[p] : i - 1 \in Offsets)
<1>1. IInv => \A p \in Partitions : \A i \in DOMAIN log[p] : i - 1 \in Offsets
  <2> SUFFICES ASSUME IInv, NEW p \in Partitions, NEW i \in DOMAIN log[p]
               PROVE  i - 1 \in Offsets
    OBVIOUS
  <2>1. Lengths \in [Partitions -> Nat] /\ Lengths[p] = Len(log[p])
    BY DEF IInv, TypeOK, Lengths
  <2>2. i \in 1..Lengths[p]
    BY <2>1 DEF IInv, TypeOK
  <2>3. Lengths[p] <= Sum(Lengths) /\ Sum(Lengths) <= MaxMessages
    BY <2>1, SumBounds DEF IInv, FiniteInv
  <2>4. Sum(Lengths) \in Nat /\ Lengths[p] \in Nat
    BY <2>1, SumSmaller DEF IInv, FiniteInv
  <2>5. QED
    BY <2>2, <2>3, <2>4, ConsumerAssumption DEF Offsets
<1>2. QED
  BY <1>1, Invariant, PTL
=============================================================================
