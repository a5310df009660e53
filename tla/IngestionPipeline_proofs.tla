---------------------- MODULE IngestionPipeline_proofs ----------------------
(***************************************************************************)
(* Proofs about IngestionPipeline for any events, any capacity (0          *)
(* included), either kind of source, with or without thread-creation       *)
(* failures, and any order of the owner's calls.                           *)
(*                                                                         *)
(* The argument: the queue is closed only after the ingest thread has      *)
(* ended (PhaseInv), so no push is refused and what the source returned is *)
(* what the queue accepted plus the event in the ingest thread's hands     *)
(* (FlowInv); the publish thread leaves its loop only when the closed      *)
(* queue is drained, so when stop() has joined both threads everything has *)
(* been handled.                                                           *)
(***************************************************************************)
EXTENDS IngestionPipeline, TLAPS, SequenceTheorems

USE DEF config, ownerVars, ingestVars, publishVars, queueVars,
        IngestEnded, PublishEnded, EndOfSource, Recording, Record, AfterFailure,
        queue_!Pending

(* How far the owner has got, and what the threads can be doing then. *)
PhaseInv ==
  /\ ~started_ => /\ owner \in {"ready", "destroyed"}
                  /\ ingest = "none" /\ publish = "none"
  /\ owner = "start_ingest" => ingest = "none"
  /\ owner \in {"start_ingest", "start_publish"} => publish = "none" /\ ~stopped_
  /\ closed => owner = "join_publish" \/ stopped_
  /\ stopped_ => closed /\ owner \in {"ready", "destroyed"}
  /\ owner \in {"shutdown_queue", "join_publish"} \/ stopped_
       => ingest \in {"none", "joined"}
  /\ stopped_ => started_
  /\ owner = "join_publish" => closed
  /\ stopped_ => publish \in {"none", "joined"}
  /\ owner = "destroyed" => stopped_ \/ ~started_
  /\ ingest = "joined" => closed \/ owner = "shutdown_queue"
  /\ publish \in {"flush", "done", "joined"} =>
       closed /\ Len(delivered) = Len(accepted)
  /\ flushed <=> publish \in {"done", "joined"}
  /\ ingest_finished_ <=> ingest \in {"done", "joined"}

(* Which thread has an event in hand, and the open call of each thread. *)
HandInv ==
  /\ ingestEvent # NoEvent <=> ingest \in {"count", "record", "push"}
  /\ publishEvent # NoEvent <=> publish = "publish"
  /\ ingest = "push" => result["ingest"] = "none"
  /\ publish = "pop" => result["publish"] = "none"
  /\ result["ingest"] # "false"

(* Where the events are. *)
FlowInv ==
  /\ emitted = accepted \o InHand(ingestEvent)
  /\ delivered = handled \o InHand(publishEvent)
  /\ Len(delivered) <= Len(accepted)
  /\ \A i \in 1..Len(delivered) : delivered[i] = accepted[i]

(* What the counters have counted. *)
CountInv ==
  /\ Len(emitted) = IF ingest = "count" THEN events_received_ + 1 ELSE events_received_
  /\ Len(handled) = IF publish \in {"published", "failed"}
                    THEN events_published_ + publish_failures_ + 1
                    ELSE events_published_ + publish_failures_

IInv == TypeOK /\ PhaseInv /\ HandInv /\ FlowInv /\ CountInv /\ RecorderFaithful

-----------------------------------------------------------------------------
LEMMA TypeStep ==
  ASSUME TypeOK, HandInv, [Next]_vars
  PROVE TypeOK'
<1> USE PipelineAssumption DEF TypeOK, OwnerPc, IngestPc, PublishPc
<1>1. CASE StartSource
  <2>1. stop_requested' \in BOOLEAN /\ started_' \in BOOLEAN
    BY <1>1 DEF StartSource
  <2>2. QED
    BY <1>1, <2>1 DEF StartSource
<1>2. CASE StartIngestThread
  BY <1>2 DEF StartIngestThread
<1>3. CASE StartPublishThread
  BY <1>3 DEF StartPublishThread, queue_!Call
<1>4. CASE StartThreadThrows
  BY <1>4 DEF StartThreadThrows
<1>5. CASE RequestStop
  BY <1>5 DEF RequestStop
<1>6. CASE Stop
  BY <1>6 DEF Stop
<1>7. CASE Destroy
  BY <1>7 DEF Destroy
<1>8. CASE JoinIngest
  BY <1>8 DEF JoinIngest
<1>9. CASE ShutdownQueue
  BY <1>9 DEF ShutdownQueue, queue_!Close
<1>10. CASE JoinPublish
  BY <1>10 DEF JoinPublish
<1>11. CASE IngestNext
  BY <1>11 DEF IngestNext
<1>12. ASSUME NEW e \in Event, IngestEvent(e) PROVE TypeOK'
  BY <1>12 DEF IngestEvent
<1>13. CASE IngestEnd
  BY <1>13 DEF IngestEnd
<1>14. CASE IngestCount
  BY <1>14 DEF IngestCount
<1>15. CASE IngestRecord
  <2>1. ingestEvent \in Event
    BY <1>15 DEF IngestRecord, HandInv
  <2>2. QED
    BY <1>15, <2>1 DEF IngestRecord, queue_!Call
<1>16. CASE IngestPush
  <2>1. ingestEvent \in Event
    BY <1>16 DEF IngestPush, HandInv
  <2>2. CASE closed
    BY <1>16, <2>2 DEF IngestPush, queue_!Refuse
  <2>3. CASE ~closed
    <3>1. highWater' \in Nat
      BY <1>16, <2>3 DEF IngestPush, queue_!Accept
    <3>2. accepted' \in Seq(Event)
      <4>1. accepted' = Append(accepted, ingestEvent)
        BY <1>16, <2>3 DEF IngestPush, queue_!Accept
      <4>2. QED
        BY <2>1, <4>1
    <3>3. result' \in [{"ingest", "publish"} -> {"none", "true", "false"}]
      BY <1>16, <2>3 DEF IngestPush, queue_!Accept
    <3>4. QED
      BY <1>16, <2>3, <3>1, <3>2, <3>3 DEF IngestPush, queue_!Accept
  <2>4. QED
    BY <2>2, <2>3
<1>17. CASE IngestFinish
  BY <1>17 DEF IngestFinish
<1>18. CASE PublishPop
  BY <1>18 DEF PublishPop, queue_!Deliver
<1>19. CASE PublishEnd
  BY <1>19 DEF PublishEnd, queue_!EndOfStream
<1>20. ASSUME NEW ok \in BOOLEAN, PublishCall(ok) PROVE TypeOK'
  <2>1. publishEvent \in Event
    BY <1>20 DEF PublishCall, HandInv
  <2>2. QED
    BY <1>20, <2>1 DEF PublishCall
<1>21. CASE PublishCount
  BY <1>21 DEF PublishCount, queue_!Call
<1>22. CASE PublishFlush
  BY <1>22 DEF PublishFlush
<1>23. CASE UNCHANGED vars
  BY <1>23 DEF vars
<1>24. QED
  BY <1>1, <1>2, <1>3, <1>4, <1>5, <1>6, <1>7, <1>8, <1>9, <1>10, <1>11,
     <1>12, <1>13, <1>14, <1>15, <1>16, <1>17, <1>18, <1>19, <1>20, <1>21,
     <1>22, <1>23
  DEF Next, OwnerCall, OwnerStep, IngestStep, PublishStep

LEMMA PhaseStep ==
  ASSUME TypeOK, PhaseInv, [Next]_vars
  PROVE PhaseInv'
<1> USE PipelineAssumption DEF TypeOK, PhaseInv, OwnerPc, IngestPc, PublishPc
<1>1. CASE StartSource
  BY <1>1 DEF StartSource
<1>2. CASE StartIngestThread
  BY <1>2 DEF StartIngestThread
<1>3. CASE StartPublishThread
  BY <1>3 DEF StartPublishThread, queue_!Call
<1>4. CASE StartThreadThrows
  BY <1>4 DEF StartThreadThrows
<1>5. CASE RequestStop
  BY <1>5 DEF RequestStop
<1>6. CASE Stop
  BY <1>6 DEF Stop
<1>7. CASE Destroy
  BY <1>7 DEF Destroy
<1>8. CASE JoinIngest
  BY <1>8 DEF JoinIngest
<1>9. CASE ShutdownQueue
  BY <1>9 DEF ShutdownQueue, queue_!Close
<1>10. CASE JoinPublish
  BY <1>10 DEF JoinPublish
<1>11. CASE IngestNext
  BY <1>11 DEF IngestNext
<1>12. ASSUME NEW e \in Event, IngestEvent(e) PROVE PhaseInv'
  BY <1>12 DEF IngestEvent
<1>13. CASE IngestEnd
  BY <1>13 DEF IngestEnd
<1>14. CASE IngestCount
  BY <1>14 DEF IngestCount
<1>15. CASE IngestRecord
  BY <1>15 DEF IngestRecord, queue_!Call
<1>16. CASE IngestPush
  BY <1>16 DEF IngestPush, queue_!Accept, queue_!Refuse
<1>17. CASE IngestFinish
  BY <1>17 DEF IngestFinish
<1>18. CASE PublishPop
  BY <1>18 DEF PublishPop, queue_!Deliver
<1>19. CASE PublishEnd
  BY <1>19 DEF PublishEnd, queue_!EndOfStream
<1>20. ASSUME NEW ok \in BOOLEAN, PublishCall(ok) PROVE PhaseInv'
  BY <1>20 DEF PublishCall
<1>21. CASE PublishCount
  BY <1>21 DEF PublishCount, queue_!Call
<1>22. CASE PublishFlush
  BY <1>22 DEF PublishFlush
<1>23. CASE UNCHANGED vars
  BY <1>23 DEF vars
<1>24. QED
  BY <1>1, <1>2, <1>3, <1>4, <1>5, <1>6, <1>7, <1>8, <1>9, <1>10, <1>11,
     <1>12, <1>13, <1>14, <1>15, <1>16, <1>17, <1>18, <1>19, <1>20, <1>21,
     <1>22, <1>23
  DEF Next, OwnerCall, OwnerStep, IngestStep, PublishStep

LEMMA HandStep ==
  ASSUME TypeOK, PhaseInv, HandInv, [Next]_vars
  PROVE HandInv'
<1> USE PipelineAssumption DEF TypeOK, HandInv, IngestPc, PublishPc
<1>1. CASE StartSource
  BY <1>1 DEF StartSource
<1>2. CASE StartIngestThread
  BY <1>2 DEF StartIngestThread, PhaseInv
<1>3. CASE StartPublishThread
  BY <1>3 DEF StartPublishThread, PhaseInv, queue_!Call
<1>4. CASE StartThreadThrows
  BY <1>4 DEF StartThreadThrows
<1>5. CASE RequestStop
  BY <1>5 DEF RequestStop
<1>6. CASE Stop
  BY <1>6 DEF Stop
<1>7. CASE Destroy
  BY <1>7 DEF Destroy
<1>8. CASE JoinIngest
  BY <1>8 DEF JoinIngest
<1>9. CASE ShutdownQueue
  BY <1>9 DEF ShutdownQueue, queue_!Close
<1>10. CASE JoinPublish
  BY <1>10 DEF JoinPublish
<1>11. CASE IngestNext
  BY <1>11 DEF IngestNext
<1>12. ASSUME NEW e \in Event, IngestEvent(e) PROVE HandInv'
  BY <1>12 DEF IngestEvent
<1>13. CASE IngestEnd
  BY <1>13 DEF IngestEnd
<1>14. CASE IngestCount
  BY <1>14 DEF IngestCount
<1>15. CASE IngestRecord
  BY <1>15 DEF IngestRecord, queue_!Call
<1>16. CASE IngestPush
  BY <1>16 DEF IngestPush, queue_!Accept, queue_!Refuse, PhaseInv
<1>17. CASE IngestFinish
  BY <1>17 DEF IngestFinish
<1>18. CASE PublishPop
  BY <1>18 DEF PublishPop, queue_!Deliver
<1>19. CASE PublishEnd
  BY <1>19 DEF PublishEnd, queue_!EndOfStream
<1>20. ASSUME NEW ok \in BOOLEAN, PublishCall(ok) PROVE HandInv'
  BY <1>20 DEF PublishCall
<1>21. CASE PublishCount
  BY <1>21 DEF PublishCount, queue_!Call
<1>22. CASE PublishFlush
  BY <1>22 DEF PublishFlush
<1>23. CASE UNCHANGED vars
  BY <1>23 DEF vars
<1>24. QED
  BY <1>1, <1>2, <1>3, <1>4, <1>5, <1>6, <1>7, <1>8, <1>9, <1>10, <1>11,
     <1>12, <1>13, <1>14, <1>15, <1>16, <1>17, <1>18, <1>19, <1>20, <1>21,
     <1>22, <1>23
  DEF Next, OwnerCall, OwnerStep, IngestStep, PublishStep

LEMMA CountStep ==
  ASSUME TypeOK, PhaseInv, CountInv, [Next]_vars
  PROVE CountInv'
<1> USE PipelineAssumption DEF TypeOK, CountInv, IngestPc, PublishPc
<1>1. CASE StartSource
  BY <1>1 DEF StartSource
<1>2. CASE StartIngestThread
  BY <1>2 DEF StartIngestThread, PhaseInv
<1>3. CASE StartPublishThread
  BY <1>3 DEF StartPublishThread, PhaseInv, queue_!Call
<1>4. CASE StartThreadThrows
  BY <1>4 DEF StartThreadThrows
<1>5. CASE RequestStop
  BY <1>5 DEF RequestStop
<1>6. CASE Stop
  BY <1>6 DEF Stop
<1>7. CASE Destroy
  BY <1>7 DEF Destroy
<1>8. CASE JoinIngest
  BY <1>8 DEF JoinIngest
<1>9. CASE ShutdownQueue
  BY <1>9 DEF ShutdownQueue, queue_!Close
<1>10. CASE JoinPublish
  BY <1>10 DEF JoinPublish
<1>11. CASE IngestNext
  BY <1>11 DEF IngestNext
<1>12. ASSUME NEW e \in Event, IngestEvent(e) PROVE CountInv'
  BY <1>12 DEF IngestEvent
<1>13. CASE IngestEnd
  BY <1>13 DEF IngestEnd
<1>14. CASE IngestCount
  BY <1>14 DEF IngestCount
<1>15. CASE IngestRecord
  BY <1>15 DEF IngestRecord, queue_!Call
<1>16. CASE IngestPush
  BY <1>16 DEF IngestPush, queue_!Accept, queue_!Refuse
<1>17. CASE IngestFinish
  BY <1>17 DEF IngestFinish
<1>18. CASE PublishPop
  BY <1>18 DEF PublishPop, queue_!Deliver
<1>19. CASE PublishEnd
  BY <1>19 DEF PublishEnd, queue_!EndOfStream
<1>20. ASSUME NEW ok \in BOOLEAN, PublishCall(ok) PROVE CountInv'
  BY <1>20 DEF PublishCall
<1>21. CASE PublishCount
  BY <1>21 DEF PublishCount, queue_!Call
<1>22. CASE PublishFlush
  BY <1>22 DEF PublishFlush
<1>23. CASE UNCHANGED vars
  BY <1>23 DEF vars
<1>24. QED
  BY <1>1, <1>2, <1>3, <1>4, <1>5, <1>6, <1>7, <1>8, <1>9, <1>10, <1>11,
     <1>12, <1>13, <1>14, <1>15, <1>16, <1>17, <1>18, <1>19, <1>20, <1>21,
     <1>22, <1>23
  DEF Next, OwnerCall, OwnerStep, IngestStep, PublishStep

(* The flow of events through the two threads and the queue. *)
LEMMA AppendInHand ==
  ASSUME NEW s \in Seq(Event), NEW e \in Event
  PROVE /\ s \o InHand(e) = Append(s, e)
        /\ s \o InHand(NoEvent) = s
  BY PipelineAssumption DEF InHand

LEMMA FlowStep ==
  ASSUME TypeOK, PhaseInv, HandInv, FlowInv, [Next]_vars
  PROVE FlowInv'
<1> USE PipelineAssumption DEF TypeOK
<1>1. ASSUME NEW e \in Event, IngestEvent(e) PROVE FlowInv'
  <2>1. ingestEvent = NoEvent
    BY <1>1 DEF IngestEvent, HandInv
  <2>2. emitted = accepted
    BY <2>1, AppendInHand DEF FlowInv, InHand
  <2>3. emitted' = accepted' \o InHand(ingestEvent')
    BY <1>1, <2>2, AppendInHand DEF IngestEvent
  <2>4. QED
    BY <1>1, <2>3 DEF IngestEvent, FlowInv
<1>2. CASE IngestPush
  <2>1. ~closed
    BY <1>2 DEF IngestPush, PhaseInv
  <2>2. ingestEvent \in Event
    BY <1>2 DEF IngestPush, HandInv
  <2>3. accepted' = Append(accepted, ingestEvent) /\ ingestEvent' = NoEvent
    BY <1>2, <2>1 DEF IngestPush, queue_!Accept
  <2>4. UNCHANGED <<emitted, handled, publishEvent, delivered>>
    BY <1>2, <2>1 DEF IngestPush, queue_!Accept
  <2>5. accepted' \in Seq(Event)
    BY <2>2, <2>3
  <2>6. emitted' = accepted' \o InHand(ingestEvent')
    BY <2>2, <2>3, <2>4, <2>5, AppendInHand DEF FlowInv
  <2>7. /\ Len(accepted') = Len(accepted) + 1
        /\ \A i \in 1..Len(accepted) : accepted'[i] = accepted[i]
    BY <2>2, <2>3
  <2>8. /\ Len(delivered') <= Len(accepted')
        /\ \A i \in 1..Len(delivered') : delivered'[i] = accepted'[i]
    BY <2>4, <2>7 DEF FlowInv
  <2>9. QED
    BY <2>4, <2>6, <2>8 DEF FlowInv
<1>3. CASE PublishPop
  <2>1. publishEvent = NoEvent
    BY <1>3 DEF PublishPop, HandInv
  <2>2. delivered = handled
    BY <2>1, AppendInHand DEF FlowInv, InHand
  <2>3. Len(delivered) < Len(accepted) /\ accepted[Len(delivered) + 1] \in Event
    BY <1>3 DEF PublishPop, queue_!Deliver
  <2>4. /\ publishEvent' = accepted[Len(delivered) + 1]
        /\ delivered' = Append(delivered, accepted[Len(delivered) + 1])
        /\ UNCHANGED <<emitted, accepted, ingestEvent, handled>>
    BY <1>3 DEF PublishPop, queue_!Deliver
  <2>5. delivered' = handled' \o InHand(publishEvent')
    BY <2>2, <2>3, <2>4, AppendInHand
  <2>6. /\ Len(delivered') <= Len(accepted')
        /\ \A i \in 1..Len(delivered') : delivered'[i] = accepted'[i]
    <3>1. /\ Len(delivered') = Len(delivered) + 1
          /\ \A i \in 1..Len(delivered) : delivered'[i] = delivered[i]
          /\ delivered'[Len(delivered) + 1] = accepted[Len(delivered) + 1]
      BY <2>3, <2>4, AppendProperties
    <3>2. accepted' = accepted
      BY <2>4
    <3>3. \A i \in 1..Len(delivered) : delivered[i] = accepted[i]
      BY DEF FlowInv
    <3>4. ASSUME NEW i \in 1..Len(delivered') PROVE delivered'[i] = accepted'[i]
      <4>1. i \in 1..Len(delivered) \/ i = Len(delivered) + 1
        BY <3>1
      <4>2. CASE i \in 1..Len(delivered)
        BY <3>1, <3>2, <3>3, <4>2
      <4>3. CASE i = Len(delivered) + 1
        BY <3>1, <3>2, <4>3
      <4>4. QED
        BY <4>1, <4>2, <4>3
    <3>5. Len(delivered') <= Len(accepted')
      BY <2>3, <3>1, <3>2
    <3>6. QED
      BY <3>4, <3>5
  <2>7. QED
    BY <2>4, <2>5, <2>6 DEF FlowInv
<1>4. ASSUME NEW ok \in BOOLEAN, PublishCall(ok) PROVE FlowInv'
  <2>1. publishEvent \in Event
    BY <1>4 DEF PublishCall, HandInv
  <2>2. handled' = Append(handled, publishEvent) /\ publishEvent' = NoEvent
    BY <1>4 DEF PublishCall
  <2>3. handled' \in Seq(Event)
    BY <2>1, <2>2
  <2>4. delivered = Append(handled, publishEvent)
    BY <2>1, AppendInHand DEF FlowInv
  <2>5. delivered' = handled' \o InHand(publishEvent')
    BY <1>4, <2>2, <2>3, <2>4, AppendInHand DEF PublishCall
  <2>6. QED
    BY <1>4, <2>5 DEF PublishCall, FlowInv
<1>5. CASE UNCHANGED <<emitted, accepted, ingestEvent, delivered, handled, publishEvent>>
  BY <1>5 DEF FlowInv
<1>6. CASE OwnerCall \/ OwnerStep
  BY <1>5, <1>6 DEF OwnerCall, OwnerStep, StartSource, RequestStop, Stop, Destroy,
     StartIngestThread, StartPublishThread, StartThreadThrows, JoinIngest,
     ShutdownQueue, JoinPublish, queue_!Call, queue_!Close
<1>7. CASE IngestNext \/ IngestEnd \/ IngestCount \/ IngestRecord \/ IngestFinish
  BY <1>5, <1>7 DEF IngestNext, IngestEnd, IngestCount, IngestRecord, IngestFinish,
     queue_!Call
<1>8. CASE PublishEnd \/ PublishCount \/ PublishFlush
  BY <1>5, <1>8 DEF PublishEnd, PublishCount, PublishFlush, queue_!EndOfStream,
     queue_!Call
<1>9. CASE UNCHANGED vars
  BY <1>5, <1>9 DEF vars
<1>10. QED
  BY <1>1, <1>2, <1>3, <1>4, <1>6, <1>7, <1>8, <1>9
  DEF Next, IngestStep, PublishStep

LEMMA RecorderStep ==
  ASSUME TypeOK, PhaseInv, HandInv, RecorderFaithful, [Next]_vars
  PROVE RecorderFaithful'
<1> USE PipelineAssumption DEF TypeOK, RecorderFaithful
<1>1. ASSUME NEW e \in Event, IngestEvent(e) PROVE RecorderFaithful'
  BY <1>1, AppendIsConcat, ConcatEmptySeq, SMTT(40) DEF IngestEvent
<1>2. CASE IngestRecord
  <2>1. ingestEvent \in Event
    BY <1>2 DEF IngestRecord, HandInv
  <2>2. QED
    BY <1>2, <2>1, AppendIsConcat, ConcatEmptySeq DEF IngestRecord
<1>3. CASE StartIngestThread
  BY <1>3 DEF StartIngestThread, PhaseInv
<1>4. CASE UNCHANGED <<optional_recorder_, emitted, recorded, ingestEvent>>
           /\ (ingest' \in {"count", "record"} <=> ingest \in {"count", "record"})
  BY <1>4
<1>5. CASE OwnerCall \/ StartPublishThread \/ StartThreadThrows \/ JoinIngest
           \/ ShutdownQueue \/ JoinPublish
  BY <1>4, <1>5 DEF OwnerCall, StartSource, RequestStop, Stop, Destroy,
     StartPublishThread, StartThreadThrows, JoinIngest, ShutdownQueue, JoinPublish
<1>6. CASE IngestNext \/ IngestEnd \/ IngestCount \/ IngestFinish
  BY <1>4, <1>6 DEF IngestNext, IngestEnd, IngestCount, IngestFinish
<1>7. CASE IngestPush
  BY <1>7 DEF IngestPush
<1>8. CASE PublishStep
  BY <1>4, <1>8 DEF PublishStep, PublishPop, PublishEnd, PublishCall, PublishCount, PublishFlush
<1>9. CASE UNCHANGED vars
  BY <1>4, <1>9 DEF vars
<1>10. QED
  BY <1>1, <1>2, <1>3, <1>5, <1>6, <1>7, <1>8, <1>9 DEF Next, OwnerStep, IngestStep

-----------------------------------------------------------------------------
LEMMA InitIInv == Init => IInv
<1> SUFFICES ASSUME Init PROVE IInv
  OBVIOUS
<1> USE PipelineAssumption DEF Init, queue_!Init, queue_!Callers
<1>1. TypeOK
  <2>1. /\ accepted \in Seq(Event) /\ delivered \in Seq(Event) /\ emitted \in Seq(Event)
        /\ recorded \in Seq(Event) /\ handled \in Seq(Event)
        /\ events_received_ \in Nat /\ events_published_ \in Nat
        /\ publish_failures_ \in Nat /\ highWater \in Nat
    OBVIOUS
  <2>2. result \in [{"ingest", "publish"} -> {"none", "true", "false"}]
    OBVIOUS
  <2>3. /\ destroying \in BOOLEAN /\ started_ \in BOOLEAN /\ stopped_ \in BOOLEAN
        /\ stop_requested \in BOOLEAN /\ ingest_finished_ \in BOOLEAN
        /\ closed \in BOOLEAN /\ flushed \in BOOLEAN
        /\ optional_recorder_ \in BOOLEAN /\ source_ \in SourceKinds
    OBVIOUS
  <2>4. owner \in OwnerPc /\ ingest \in IngestPc /\ publish \in PublishPc
    BY DEF OwnerPc, IngestPc, PublishPc
  <2>5. QED
    BY <2>1, <2>2, <2>3, <2>4 DEF TypeOK
<1>2. PhaseInv
  BY DEF PhaseInv
<1>3. HandInv
  BY DEF HandInv
<1>4. FlowInv
  BY DEF FlowInv, InHand
<1>5. CountInv /\ RecorderFaithful
  BY DEF CountInv, RecorderFaithful
<1>6. QED
  BY <1>1, <1>2, <1>3, <1>4, <1>5 DEF IInv

LEMMA IInvStep == IInv /\ [Next]_vars => IInv'
  BY TypeStep, PhaseStep, HandStep, FlowStep, CountStep, RecorderStep DEF IInv

(* The inductive invariant holds in every reachable state. *)
THEOREM Invariance == Spec => []IInv
  BY InitIInv, IInvStep, PTL DEF Spec

(* Every variable keeps its type. *)
THEOREM TypeCorrectness == Spec => []TypeOK
<1>1. IInv => TypeOK
  BY DEF IInv
<1>2. QED
  BY <1>1, Invariance, PTL

(* A sequence is its delivered prefix and the rest. *)
LEMMA PrefixAndRest ==
  ASSUME NEW a \in Seq(Event), NEW d \in Seq(Event), Len(d) <= Len(a),
         \A i \in 1..Len(d) : d[i] = a[i]
  PROVE a = d \o SubSeq(a, Len(d) + 1, Len(a))
<1> DEFINE r == SubSeq(a, Len(d) + 1, Len(a))
<1>1. /\ r \in Seq(Event)
      /\ Len(r) = Len(a) - Len(d)
      /\ \A i \in 1..Len(r) : r[i] = a[Len(d) + i]
  OBVIOUS
<1>2. /\ d \o r \in Seq(Event)
      /\ Len(d \o r) = Len(a)
      /\ \A i \in 1..Len(a) : (d \o r)[i] = a[i]
  BY <1>1
<1>3. QED
  BY <1>2, SeqEqual

(* No interleaving of the owner's calls with the two threads drops,        *)
(* duplicates or reorders an event.                                        *)
THEOREM EventsConserved == Spec => []Conservation
<1>1. IInv => Conservation
  <2> SUFFICES ASSUME IInv PROVE Conservation
    OBVIOUS
  <2> DEFINE q == SubSeq(accepted, Len(delivered) + 1, Len(accepted))
             h == InHand(publishEvent)
             g == InHand(ingestEvent)
  <2>1. TypeOK /\ FlowInv
    BY DEF IInv
  <2>2. accepted = delivered \o q
    BY <2>1, PrefixAndRest DEF TypeOK, FlowInv
  <2>3. q \in Seq(Event) /\ h \in Seq(Event) /\ g \in Seq(Event)
    BY <2>1 DEF TypeOK, FlowInv, InHand
  <2>4. emitted = ((handled \o h) \o q) \o g
    BY <2>1, <2>2 DEF FlowInv
  <2>5. QED
    BY <2>4 DEF Conservation
<1>2. QED
  BY <1>1, Invariance, PTL

(* The queue is never shut down while the ingest thread can still push. *)
THEOREM PushNeverRefused == Spec => []NeverRefused
<1>1. IInv => NeverRefused
  BY DEF IInv, HandInv, NeverRefused
<1>2. QED
  BY <1>1, Invariance, PTL

(* Joined threads have nothing in hand, and the publish thread ended only
   when the queue was empty. *)
LEMMA StoppedCleanly ==
  ASSUME IInv
  PROVE  StoppedClean
<1> SUFFICES ASSUME stopped_, publish # "none" PROVE StoppedClean
  BY DEF StoppedClean
<1> USE PipelineAssumption
<1>1. TypeOK /\ PhaseInv /\ HandInv /\ FlowInv /\ CountInv
  BY DEF IInv
<1>2. publish = "joined" /\ ingest \in {"none", "joined"}
  BY <1>1 DEF PhaseInv
<1>3. ingestEvent = NoEvent /\ publishEvent = NoEvent
  BY <1>1, <1>2 DEF HandInv
<1>4. emitted = accepted /\ delivered = handled
  BY <1>1, <1>3 DEF FlowInv, InHand, TypeOK
<1>5. delivered = accepted
  <2>1. Len(delivered) = Len(accepted)
    BY <1>1, <1>2 DEF PhaseInv
  <2>2. QED
    BY <1>1, <2>1, SeqEqual DEF FlowInv, TypeOK
<1>6. flushed
  BY <1>1, <1>2 DEF PhaseInv
<1>7. /\ events_received_ = Len(emitted)
      /\ events_published_ + publish_failures_ = Len(handled)
  BY <1>1, <1>2 DEF CountInv
<1>8. QED
  BY <1>4, <1>5, <1>6, <1>7 DEF StoppedClean

(* After stop(), everything received has been handled and counted. *)
THEOREM CleanStop == Spec => []StoppedClean
<1>1. IInv => StoppedClean
  BY StoppedCleanly
<1>2. QED
  BY <1>1, Invariance, PTL

(* The capture file holds what the source returned. *)
THEOREM RecorderCorrect == Spec => []RecorderFaithful
<1>1. IInv => RecorderFaithful
  BY DEF IInv
<1>2. QED
  BY <1>1, Invariance, PTL

(* The destructor never destroys a joinable thread. *)
THEOREM DestructionSafe == Spec => []DestroyedQuiet
<1>1. IInv => DestroyedQuiet
  BY DEF IInv, PhaseInv, DestroyedQuiet
<1>2. QED
  BY <1>1, Invariance, PTL

(* After ingestFinished() nothing is received any more. *)
THEOREM FinishedFinal == Spec => FinishedIsFinal
<1>1. IInv /\ [Next]_vars =>
        [ingest_finished_ => ingest_finished_' /\ UNCHANGED <<emitted, accepted,
                                                recorded, events_received_>>]_vars
  <2> SUFFICES ASSUME IInv, [Next]_vars, ingest_finished_
               PROVE ingest_finished_' /\ UNCHANGED <<emitted, accepted, recorded,
                                                      events_received_>>
    OBVIOUS
  <2>1. ingest \in {"done", "joined"} /\ PhaseInv
    BY DEF IInv, PhaseInv
  <2>2. CASE OwnerCall \/ OwnerStep
    BY <2>1, <2>2 DEF PhaseInv, OwnerCall, OwnerStep, StartSource, RequestStop, Stop, Destroy,
       StartIngestThread, StartPublishThread, StartThreadThrows, JoinIngest,
       ShutdownQueue, JoinPublish, queue_!Call, queue_!Close
  <2>3. CASE IngestStep \/ \E e \in Event : IngestEvent(e)
    BY <2>1, <2>3 DEF IngestStep, IngestEvent, IngestNext, IngestEnd, IngestCount,
       IngestRecord, IngestPush, IngestFinish
  <2>4. CASE PublishStep
    BY <2>4 DEF PublishStep, PublishPop, PublishEnd, PublishCall, PublishCount,
       PublishFlush, queue_!Deliver, queue_!EndOfStream, queue_!Call
  <2>5. CASE UNCHANGED vars
    BY <2>5 DEF vars
  <2>6. QED
    BY <2>2, <2>3, <2>4, <2>5 DEF Next
<1>2. QED
  BY <1>1, Invariance, PTL DEF Spec, FinishedIsFinal

(* The queue holds at most Capacity events. *)
BoundInv == Len(accepted) - Len(delivered) <= Capacity

LEMMA BoundStep ==
  ASSUME IInv, BoundInv, [Next]_vars
  PROVE BoundInv'
<1> USE PipelineAssumption DEF BoundInv
<1>1. TypeOK
  BY DEF IInv
<1>2. CASE IngestPush
  <2>1. CASE closed
    BY <1>2, <2>1 DEF IngestPush, queue_!Refuse
  <2>2. CASE ~closed
    <3>1. Len(accepted') = Len(accepted) + 1 /\ delivered' = delivered
          /\ Len(accepted) - Len(delivered) < Capacity
      BY <1>1, <1>2, <2>2 DEF IngestPush, queue_!Accept, TypeOK
    <3>2. Len(accepted) \in Nat /\ Len(delivered) \in Nat
      BY <1>1 DEF TypeOK
    <3>3. QED
      BY <3>1, <3>2
  <2>3. QED
    BY <2>1, <2>2
<1>3. CASE PublishPop
  <2>1. Len(delivered') = Len(delivered) + 1 /\ accepted' = accepted
    BY <1>1, <1>3 DEF PublishPop, queue_!Deliver, TypeOK
  <2>2. Len(accepted) \in Nat /\ Len(delivered) \in Nat
    BY <1>1 DEF TypeOK
  <2>3. QED
    BY <2>1, <2>2
<1>4. CASE UNCHANGED <<accepted, delivered>>
  BY <1>4
<1>5. CASE OwnerCall \/ OwnerStep
  BY <1>4, <1>5 DEF OwnerCall, OwnerStep, StartSource, RequestStop, Stop, Destroy,
     StartIngestThread, StartPublishThread, StartThreadThrows, JoinIngest,
     ShutdownQueue, JoinPublish, queue_!Call, queue_!Close
<1>6. CASE (\E e \in Event : IngestEvent(e)) \/ IngestNext \/ IngestEnd \/ IngestCount
           \/ IngestRecord \/ IngestFinish
  BY <1>4, <1>6 DEF IngestEvent, IngestNext, IngestEnd, IngestCount, IngestRecord,
     IngestFinish, queue_!Call
<1>7. CASE PublishEnd \/ (\E ok \in BOOLEAN : PublishCall(ok)) \/ PublishCount
           \/ PublishFlush
  BY <1>4, <1>7 DEF PublishEnd, PublishCall, PublishCount, PublishFlush,
     queue_!EndOfStream, queue_!Call
<1>8. CASE UNCHANGED vars
  BY <1>4, <1>8 DEF vars
<1>9. QED
  BY <1>2, <1>3, <1>5, <1>6, <1>7, <1>8 DEF Next, IngestStep, PublishStep

(* What lies between the source and publish() is in the queue or in a      *)
(* thread's hands.                                                         *)
LEMMA InFlight ==
  ASSUME IInv
  PROVE  /\ Len(handled) <= Len(emitted)
         /\ Len(InHand(ingestEvent)) \in 0..1
         /\ Len(emitted) = Len(handled) + (IF publish = "publish" THEN 1 ELSE 0)
                           + (Len(accepted) - Len(delivered)) + Len(InHand(ingestEvent))
<1> DEFINE g == InHand(ingestEvent)
           h == InHand(publishEvent)
<1>1. TypeOK /\ FlowInv /\ HandInv
  BY DEF IInv
<1>2. /\ g \in Seq(Event) /\ Len(g) <= 1
      /\ h \in Seq(Event) /\ Len(h) <= 1
  BY <1>1 DEF TypeOK, InHand
<1>3. /\ Len(emitted) = Len(accepted) + Len(g)
      /\ Len(delivered) = Len(handled) + Len(h)
      /\ Len(delivered) <= Len(accepted)
  BY <1>1, <1>2 DEF FlowInv, TypeOK
<1>4. /\ Len(accepted) \in Nat /\ Len(delivered) \in Nat /\ Len(handled) \in Nat
      /\ Len(g) \in Nat /\ Len(h) \in Nat
  BY <1>1, <1>2 DEF TypeOK
<1>5. Len(h) = IF publish = "publish" THEN 1 ELSE 0
  BY <1>1 DEF HandInv, InHand
<1> HIDE DEF h
<1>6. /\ Len(emitted) = Len(handled) + Len(h) + (Len(accepted) - Len(delivered)) + Len(g)
      /\ Len(handled) <= Len(emitted) /\ Len(g) \in 0..1
  <2> DEFINE n == Len(g)
             m == Len(h)
  <2>1. n \in Nat /\ m \in Nat /\ n <= 1
    BY <1>2, <1>4
  <2>2. Len(emitted) = Len(accepted) + n /\ Len(delivered) = Len(handled) + m
    BY <1>3
  <2> HIDE DEF n, m
  <2>3. /\ Len(emitted) = Len(handled) + m + (Len(accepted) - Len(delivered)) + n
        /\ Len(handled) <= Len(emitted) /\ n \in 0..1
    BY <1>3, <1>4, <2>1, <2>2
  <2>4. QED
    BY <2>3 DEF n, m
<1>7. QED
  BY <1>5, <1>6
=============================================================================
