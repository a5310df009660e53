---------------------- MODULE IngestionService_proofs ----------------------
(***************************************************************************)
(* Proofs about IngestionService: main(), the pipeline and the producer    *)
(* together, for any events, capacity, source and number of reports.       *)
(*                                                                         *)
(* The argument: main() is one of the owners that IngestionPipeline allows *)
(* and the producer does what EventPublisher says, so the service          *)
(* implements both specifications and inherits what is proved of the       *)
(* pipeline.  MainInv says how far main() and the pipeline have got        *)
(* together.  DeliveryInv ties the producer's counts to the pipeline's:    *)
(* every event counted as published is pending, reported or dropped.  The  *)
(* figures only grow, so what was read earlier is still true (ReportInv),  *)
(* and those read after stop() are final (FinalInv).                       *)
(***************************************************************************)
EXTENDS IngestionService, IngestionPipeline_proofs, FiniteSetTheorems

USE DEF mainVars, producerVars, config, ownerVars, ingestVars, publishVars, queueVars

MainPc == {"boot", "starting", "poll", "report", "stop", "stopping", "final",
           "return", "destroying", "exited", "dead"}

ServiceTypeOK ==
  /\ main \in MainPc
  /\ report \in Seq(Nat)
  /\ dropped \in Nat /\ successes \in Nat /\ failures \in Nat

(* Where main() is, and where it has brought the pipeline. *)
MainInv ==
  /\ main = "boot" => owner = "ready" /\ ~started_
  /\ main = "starting" => owner \in {"start_ingest", "start_publish"}
  /\ main \in {"poll", "report", "stop"} => owner = "ready" /\ ~stopped_
  /\ main = "stopping" => owner \in {"join_ingest", "shutdown_queue", "join_publish"}
  /\ main \in {"final", "return"} => owner = "ready" /\ stopped_
  /\ main \in {"destroying", "exited"} => owner = "destroyed" /\ stopped_
  /\ main \in MainPc \ {"boot", "starting", "dead"} => publish # "none"
  /\ main \in {"boot", "starting", "poll", "report", "stop", "stopping"} => ~destroying

(* What the producer has done with the events that publish() accepted. *)
DeliveryInv ==
  /\ IsFiniteSet(pending) /\ IsFiniteSet(onBroker)
  /\ pending \cup onBroker \subseteq 1..Len(handled)
  /\ flushResult = "done" => pending = {} /\ dropped = 0
  /\ open => dropped = 0
  /\ successes + failures + Cardinality(pending) + dropped =
       events_published_ + (IF publish = "published" THEN 1 ELSE 0)
  /\ successes <= Cardinality(onBroker \ pending)

(* The figures read so far have not been overtaken downwards. *)
ReportInv ==
  /\ Len(report) <= 5
  /\ main \in {"report", "final"} => Len(report) < 5
  /\ main \in {"return", "destroying", "exited"} => Len(report) = 5
  /\ \A i \in 1..Len(report) : report[i] <= Figures[i]

(* After stop() nothing changes the figures any more; the delivery counts  *)
(* too are final if flush() did not time out.                              *)
FinalInv ==
  main \in {"final", "return", "destroying", "exited"} =>
    \A i \in 1..Len(report) : i <= 3 \/ flushResult = "done" => report[i] = Figures[i]

ServiceInv == ServiceTypeOK /\ MainInv /\ DeliveryInv /\ ReportInv /\ FinalInv

-----------------------------------------------------------------------------
(* The service is made of its parts *)

LEMMA PipelineStep ==
  ASSUME [ServiceNext]_serviceVars
  PROVE  [Next]_vars
<1>1. CASE UNCHANGED serviceVars
  BY <1>1 DEF serviceVars
<1>2. CASE MainStep
  BY <1>2 DEF MainStep, MainStart, MainStarting, ReadFigure, MainRequestStop, MainStop,
              MainStopping, MainReturn, MainExit, Next, OwnerCall, OwnerStep
<1>3. CASE MainReport \/ handleSignal \/ Die \/ Store \/ Settle
  BY <1>3 DEF MainReport, handleSignal, Die, Store, Settle
<1>4. CASE ServiceIngest
  BY <1>4 DEF ServiceIngest, Next
<1>5. CASE ServicePublish
  BY <1>5 DEF ServicePublish, Next, PublishStep
<1>6. QED
  BY <1>1, <1>2, <1>3, <1>4, <1>5 DEF ServiceNext

(* A step of the service is a step of the producer's, or leaves it alone.  *)
LEMMA ProducerStep ==
  ASSUME [ServiceNext]_serviceVars
  PROVE  \/ \E ok \in BOOLEAN : PublishCall(ok) /\ publisher_!Publish(ok) /\ UNCHANGED mainVars
         \/ \E ok \in BOOLEAN : PublishFlush /\ publisher_!Flush(ok) /\ UNCHANGED mainVars
         \/ UNCHANGED <<vars, mainVars>> /\ \E e \in pending : publisher_!Store(e)
         \/ UNCHANGED <<vars, mainVars>> /\ \E S, F \in SUBSET pending : publisher_!Settle(S, F)
         \/ MainExit
         \/ UNCHANGED producerVars /\ handled' = handled
<1>1. CASE UNCHANGED serviceVars
  BY <1>1 DEF serviceVars, vars
<1>2. CASE MainStep /\ ~MainExit
  <2>1. UNCHANGED producerVars
    BY <1>2 DEF MainStep, MainStart, MainStarting, ReadFigure, MainRequestStop, MainStop,
                MainStopping, MainReturn
  <2>2. handled' = handled
    BY <1>2 DEF MainStep, MainStart, MainStarting, ReadFigure, MainRequestStop, MainStop,
                MainStopping, MainReturn, vars, StartSource, StartIngestThread,
                StartPublishThread, RequestStop, Stop, JoinIngest, ShutdownQueue,
                JoinPublish, Destroy
  <2>3. QED
    BY <2>1, <2>2
<1>3. CASE MainReport \/ handleSignal \/ Die
  BY <1>3 DEF MainReport, handleSignal, Die, vars
<1>4. CASE ServiceIngest
  BY <1>4 DEF ServiceIngest, IngestStep, IngestNext, IngestEnd, IngestCount,
              IngestRecord, IngestPush, IngestFinish, IngestEvent
<1>5. CASE ServicePublish
  BY <1>5 DEF ServicePublish, PublishPop, PublishEnd, PublishCount
<1>6. CASE Store \/ Settle
  BY <1>6 DEF Store, Settle
<1>7. QED
  BY <1>1, <1>2, <1>3, <1>4, <1>5, <1>6 DEF ServiceNext

(* main() uses the pipeline as IngestionPipeline lets an owner use it, so  *)
(* everything proved of the pipeline holds within the service: no event is *)
(* dropped or reordered, stop() returns clean, the destructor finds no     *)
(* running thread.                                                         *)
THEOREM ServiceImplementsPipeline == ServiceSpec => Spec
<1>1. ServiceInit => Init
  BY DEF ServiceInit
<1>2. [ServiceNext]_serviceVars => [Next]_vars
  BY PipelineStep
<1>3. QED
  BY <1>1, <1>2, PTL DEF ServiceSpec, Spec

(* The service uses its producer as EventPublisher describes it: publish() *)
(* and flush() come from the publish thread, reports only between them and *)
(* in the destructor, and the destructor runs last.                        *)
THEOREM ServiceImplementsPublisher == ServiceSpec => publisher_!Spec
<1>1. ServiceInit => publisher_!Init
  BY DEF ServiceInit
<1>2. [ServiceNext]_serviceVars => [publisher_!Next]_(publisher_!vars)
  <2> SUFFICES ASSUME [ServiceNext]_serviceVars
               PROVE  [publisher_!Next]_(publisher_!vars)
    OBVIOUS
  <2>1. CASE MainExit
    BY <2>1 DEF MainExit, publisher_!Next
  <2>2. CASE UNCHANGED producerVars /\ handled' = handled
    BY <2>2 DEF publisher_!vars
  <2>3. QED
    BY <2>1, <2>2, ProducerStep DEF publisher_!Next
<1>3. QED
  BY <1>1, <1>2, PTL DEF ServiceSpec, publisher_!Spec

-----------------------------------------------------------------------------
(* main() and the pipeline *)

LEMMA MainInvStep ==
  ASSUME IInv, ServiceTypeOK, MainInv, [ServiceNext]_serviceVars
  PROVE  MainInv'
<1> USE DEF MainInv, MainPc
<1>0. main \in MainPc /\ PhaseInv
  BY DEF ServiceTypeOK, IInv
<1>1. CASE UNCHANGED serviceVars
  BY <1>1 DEF serviceVars, vars
<1>2. CASE MainStart
  BY <1>2 DEF MainStart, StartSource
<1>3. CASE MainStarting
  <2>1. CASE StartIngestThread
    BY <1>3, <2>1 DEF MainStarting, StartIngestThread
  <2>2. CASE StartPublishThread
    BY <1>0, <1>3, <2>2 DEF MainStarting, StartPublishThread, PhaseInv
  <2>3. QED
    BY <1>3, <2>1, <2>2 DEF MainStarting
<1>4. CASE ReadFigure
  BY <1>4 DEF ReadFigure, vars
<1>5. CASE MainRequestStop
  BY <1>5 DEF MainRequestStop, RequestStop
<1>6. CASE MainStop
  BY <1>6 DEF MainStop, Stop
<1>7. CASE MainStopping
  <2>1. CASE JoinIngest
    BY <1>7, <2>1 DEF MainStopping, JoinIngest
  <2>2. CASE ShutdownQueue
    BY <1>7, <2>2 DEF MainStopping, ShutdownQueue
  <2>3. CASE JoinPublish
    BY <1>7, <2>3 DEF MainStopping, JoinPublish
  <2>4. QED
    BY <1>7, <2>1, <2>2, <2>3 DEF MainStopping
<1>8. CASE MainReturn
  BY <1>0, <1>8 DEF MainReturn, Destroy, PhaseInv
<1>9. CASE MainExit
  BY <1>9 DEF MainExit, vars
<1>10. CASE MainReport \/ handleSignal \/ Die \/ Store \/ Settle
  BY <1>10 DEF MainReport, handleSignal, Die, Store, Settle, vars
<1>11. CASE ServiceIngest
  <2>1. UNCHANGED <<main, owner, started_, stopped_, publish, destroying>>
    BY <1>11 DEF ServiceIngest, IngestStep, IngestNext, IngestEnd, IngestCount,
                 IngestRecord, IngestPush, IngestFinish, IngestEvent
  <2>2. QED
    BY <2>1
<1>12. CASE ServicePublish
  <2>1. UNCHANGED <<main, owner, started_, stopped_, destroying>> /\ publish' # "none"
    BY <1>12 DEF ServicePublish, PublishPop, PublishEnd, PublishCount, PublishCall,
                 PublishFlush, AfterFailure
  <2>2. QED
    BY <2>1
<1>13. QED
  BY <1>1, <1>2, <1>3, <1>4, <1>5, <1>6, <1>7, <1>8, <1>9, <1>10, <1>11, <1>12
     DEF ServiceNext, MainStep

-----------------------------------------------------------------------------
(* The producer *)

(* EventPublisher counts with the same operator. *)
LEMMA PublisherCardinality ==
  ASSUME NEW S
  PROVE  publisher_!Cardinality(S) = Cardinality(S)
BY DEF Cardinality, publisher_!Cardinality

(* The events the pipeline knows to be accepted by publish(). *)
Published == events_published_ + (IF publish = "published" THEN 1 ELSE 0)

(* Counting an event changes no sum: it was known before. *)
LEMMA PublishedStep ==
  ASSUME IInv, [Next]_vars, handled' = handled
  PROVE  Published' = Published
<1>0. events_published_ \in Nat /\ handled \in Seq(Event)
  BY DEF IInv, TypeOK
<1>1. CASE UNCHANGED <<events_published_, publish>>
  BY <1>1 DEF Published
<1>2. CASE PublishCount
  BY <1>0, <1>2 DEF PublishCount, Published, AfterFailure
<1>3. CASE \E ok \in BOOLEAN : PublishCall(ok)
  <2>1. Len(handled') = Len(handled) + 1 /\ Len(handled) \in Nat
    BY <1>0, <1>3 DEF PublishCall
  <2>2. QED
    BY <2>1
<1>4. CASE PublishPop \/ PublishEnd \/ PublishFlush \/ StartPublishThread \/ JoinPublish
  <2>1. events_published_' = events_published_ /\ (publish = "published" <=> publish' = "published")
    BY <1>4 DEF PublishPop, PublishEnd, PublishFlush, StartPublishThread, JoinPublish,
                PublishEnded, IInv, PhaseInv
  <2>2. QED
    BY <2>1 DEF Published
<1>5. CASE StartSource \/ RequestStop \/ Stop \/ Destroy \/ StartIngestThread
           \/ StartThreadThrows \/ JoinIngest \/ ShutdownQueue
  BY <1>1, <1>5 DEF StartSource, RequestStop, Stop, Destroy, StartIngestThread,
                    StartThreadThrows, JoinIngest, ShutdownQueue
<1>6. CASE IngestStep \/ \E e \in Event : IngestEvent(e)
  BY <1>1, <1>6 DEF IngestStep, IngestNext, IngestEnd, IngestCount, IngestRecord,
                    IngestPush, IngestFinish, IngestEvent
<1>7. QED
  BY <1>1, <1>2, <1>3, <1>4, <1>5, <1>6
     DEF Next, vars, OwnerCall, OwnerStep, PublishStep

(* publish(), callbacks, flush() and the destructor move events between    *)
(* the places that DeliveryInv counts.                                     *)
LEMMA DeliveryStep ==
  ASSUME IInv, ServiceTypeOK, DeliveryInv, [ServiceNext]_serviceVars
  PROVE  DeliveryInv'
<1> DEFINE P == Cardinality(pending)
           B == onBroker \ pending
<1>0. /\ P \in Nat /\ IsFiniteSet(pending) /\ IsFiniteSet(onBroker) /\ IsFiniteSet(B)
      /\ Cardinality(B) \in Nat /\ Len(handled) \in Nat
      /\ successes \in Nat /\ failures \in Nat /\ dropped \in Nat
      /\ Published \in Nat
  <2>1. IsFiniteSet(pending) /\ IsFiniteSet(onBroker) /\ IsFiniteSet(B)
    BY FS_Subset DEF DeliveryInv
  <2>2. P \in Nat /\ Cardinality(B) \in Nat
    BY <2>1, FS_CardinalityType
  <2>3. Len(handled) \in Nat /\ events_published_ \in Nat
    BY DEF IInv, TypeOK
  <2>4. QED
    BY <2>1, <2>2, <2>3 DEF ServiceTypeOK, Published
<1>a. /\ pending \cup onBroker \subseteq 1..Len(handled)
      /\ flushResult = "done" => pending = {} /\ dropped = 0
      /\ open => dropped = 0
      /\ successes + failures + P + dropped = Published
      /\ successes <= Cardinality(B)
  BY DEF DeliveryInv, Published
<1>b. [Next]_vars
  BY PipelineStep
<1> HIDE DEF P, B
<1>1. ASSUME NEW ok \in BOOLEAN, PublishCall(ok), publisher_!Publish(ok)
      PROVE  DeliveryInv'
  <2> DEFINE n == Len(handled) + 1
  <2>1. /\ Len(handled') = n /\ UNCHANGED <<onBroker, dropped, successes, failures, open>>
        /\ pending' = IF ok THEN pending \cup {n} ELSE pending
        /\ flushResult' = "no"
    BY <1>1 DEF publisher_!Publish
  <2>2. n \notin pending /\ n \notin onBroker /\ n \in 1..Len(handled')
    BY <1>0, <1>a, <2>1
  <2>3. pending' \cup onBroker' \subseteq 1..Len(handled')
    BY <1>0, <1>a, <2>1, <2>2
  <2>4. onBroker' \ pending' = B
    BY <2>1, <2>2 DEF B
  <2>5. publish = "publish" /\ events_published_' = events_published_
    BY <1>1 DEF PublishCall
  <2>6. CASE ok
    <3>1. IsFiniteSet(pending') /\ Cardinality(pending') = P + 1
      BY <1>0, <2>1, <2>2, <2>6, FS_AddElement DEF P
    <3>2. Published' = Published + 1
      BY <1>1, <1>0, <2>5, <2>6 DEF PublishCall, Published, IInv, TypeOK
    <3>3. successes' + failures' + Cardinality(pending') + dropped' = Published'
      <4>1. successes' = successes /\ failures' = failures /\ dropped' = dropped
        BY <2>1
      <4>2. successes + failures + (P + 1) + dropped = (successes + failures + P + dropped) + 1
        BY <1>0
      <4>3. QED
        BY <1>a, <3>1, <3>2, <4>1, <4>2
    <3>4. QED
      BY <1>0, <1>a, <2>1, <2>3, <2>4, <3>1, <3>3 DEF DeliveryInv, Published
  <2>7. CASE ~ok
    <3>1. Published' = Published
      BY <1>1, <2>5, <2>7 DEF PublishCall, Published
    <3>2. QED
      BY <1>0, <1>a, <2>1, <2>3, <2>4, <2>7, <3>1 DEF DeliveryInv, Published, P
  <2>8. QED
    BY <2>6, <2>7
<1>2. ASSUME NEW ok \in BOOLEAN, PublishFlush, publisher_!Flush(ok)
      PROVE  DeliveryInv'
  <2>1. /\ UNCHANGED <<pending, onBroker, dropped, successes, failures, open, handled>>
        /\ flushResult' = "done" => pending = {} /\ dropped = 0
    BY <1>2, <1>a DEF publisher_!Flush, PublishFlush
  <2>2. Published' = Published
    BY <1>b, <2>1, PublishedStep
  <2>3. QED
    BY <1>0, <1>a, <2>1, <2>2 DEF DeliveryInv, Published, P, B
<1>3. ASSUME UNCHANGED vars, NEW e \in pending, publisher_!Store(e)
      PROVE  DeliveryInv'
  <2>1. /\ UNCHANGED <<pending, dropped, successes, failures, flushResult, open, handled>>
        /\ onBroker' = onBroker \cup {e}
    BY <1>3 DEF publisher_!Store, vars
  <2>2. onBroker' \ pending' = B /\ pending' \cup onBroker' = pending \cup onBroker
    BY <2>1 DEF B
  <2>3. IsFiniteSet(onBroker')
    BY <1>0, <2>1, FS_AddElement
  <2>4. Published' = Published
    BY <1>3 DEF vars, Published
  <2>5. QED
    BY <1>0, <1>a, <2>1, <2>2, <2>3, <2>4 DEF DeliveryInv, Published, P
<1>4. ASSUME UNCHANGED vars, NEW S \in SUBSET pending, NEW F \in SUBSET pending,
             publisher_!Settle(S, F)
      PROVE  DeliveryInv'
  <2>1. /\ UNCHANGED <<onBroker, dropped, flushResult, open, handled>>
        /\ S \cap F = {} /\ S \subseteq onBroker
        /\ pending' = pending \ (S \cup F)
        /\ successes' = successes + Cardinality(S)
        /\ failures' = failures + Cardinality(F)
    BY <1>4, PublisherCardinality DEF publisher_!Settle, vars
  <2>2. /\ IsFiniteSet(S) /\ IsFiniteSet(F) /\ IsFiniteSet(S \cup F)
        /\ Cardinality(S) \in Nat /\ Cardinality(F) \in Nat
    BY <1>0, FS_Subset, FS_CardinalityType
  <2>3. Cardinality({}) = 0
    BY FS_EmptySet
  <2>4. Cardinality(S \cup F) = Cardinality(S) + Cardinality(F)
    <3>1. Cardinality(S \cup F) = Cardinality(S) + Cardinality(F) - Cardinality({})
      BY <2>1, <2>2, FS_Union
    <3>2. QED
      BY <2>2, <2>3, <3>1
  <2>5. IsFiniteSet(pending') /\ Cardinality(pending') = P - (Cardinality(S) + Cardinality(F))
    <3>1. pending \cap (S \cup F) = S \cup F
      OBVIOUS
    <3>2. /\ IsFiniteSet(pending')
          /\ Cardinality(pending') = Cardinality(pending) - Cardinality(pending \cap (S \cup F))
      BY <1>0, <2>1, FS_Difference
    <3>3. QED
      BY <2>4, <3>1, <3>2 DEF P
  <2>6. Cardinality(B) + Cardinality(S) <= Cardinality(onBroker' \ pending')
    <3>1. B \cap S = {} /\ B \cup S \subseteq onBroker' \ pending'
      BY <2>1 DEF B
    <3>2. Cardinality(B \cup S) = Cardinality(B) + Cardinality(S) - Cardinality({})
      BY <1>0, <2>2, <3>1, FS_Union
    <3>3. IsFiniteSet(onBroker' \ pending')
      BY <1>0, <2>1, FS_Subset
    <3>4. Cardinality(B \cup S) <= Cardinality(onBroker' \ pending')
      BY <3>1, <3>3, FS_Subset
    <3>5. QED
      BY <1>0, <2>2, <2>3, <3>2, <3>4
  <2>7. Cardinality(onBroker' \ pending') \in Nat
    BY <1>0, <2>1, FS_Subset, FS_CardinalityType
  <2>8. Published' = Published
    BY <1>4 DEF vars, Published
  <2>9. successes' <= Cardinality(onBroker' \ pending')
    BY <1>0, <1>a, <2>1, <2>2, <2>6, <2>7
  <2>10. successes' + failures' + Cardinality(pending') + dropped' = Published'
    <3>1. /\ successes' + failures' + Cardinality(pending') + dropped' =
               (successes + Cardinality(S)) + (failures + Cardinality(F))
                 + (P - (Cardinality(S) + Cardinality(F))) + dropped
      BY <2>1, <2>5
    <3>2. \A c, f \in Nat :
            (successes + c) + (failures + f) + (P - (c + f)) + dropped =
              successes + failures + P + dropped
      BY <1>0
    <3>3. QED
      BY <1>a, <2>2, <2>8, <3>1, <3>2
  <2>11. pending' \cup onBroker' \subseteq 1..Len(handled')
    BY <1>a, <2>1
  <2>12. QED
    BY <1>0, <1>a, <2>1, <2>5, <2>9, <2>10, <2>11 DEF DeliveryInv, Published
<1>5. CASE MainExit
  <2>1. /\ UNCHANGED <<onBroker, successes, failures, flushResult, handled>>
        /\ open /\ open' = FALSE /\ pending' = {} /\ dropped' = P
    BY <1>5, PublisherCardinality DEF MainExit, publisher_!Destroy, vars, P
  <2>2. IsFiniteSet({}) /\ Cardinality({}) = 0
    BY FS_EmptySet
  <2>3. Cardinality(B) <= Cardinality(onBroker' \ pending')
    <3>1. B \subseteq onBroker /\ onBroker' \ pending' = onBroker
      BY <2>1 DEF B
    <3>2. QED
      BY <1>0, <3>1, FS_Subset
  <2>4. Cardinality(onBroker' \ pending') \in Nat
    BY <1>0, <2>1, FS_Subset, FS_CardinalityType
  <2>5. Published' = Published
    BY <1>5 DEF MainExit, vars, Published
  <2>6. successes' <= Cardinality(onBroker' \ pending')
    BY <1>0, <1>a, <2>1, <2>3, <2>4
  <2>7. successes' + failures' + Cardinality(pending') + dropped' = Published'
    BY <1>0, <1>a, <2>1, <2>2, <2>5
  <2>8. flushResult' = "done" => dropped' = 0
    BY <1>a, <2>1, <2>2 DEF P
  <2>9. QED
    BY <1>0, <1>a, <2>1, <2>2, <2>6, <2>7, <2>8 DEF DeliveryInv, Published
<1>6. CASE UNCHANGED producerVars /\ handled' = handled
  <2>1. Published' = Published
    BY <1>6, <1>b, PublishedStep
  <2>2. QED
    BY <1>0, <1>a, <1>6, <2>1 DEF DeliveryInv, Published, P, B
<1>7. QED
  BY <1>1, <1>2, <1>3, <1>4, <1>5, <1>6, ProducerStep

-----------------------------------------------------------------------------
(* The figures *)

LEMMA FiguresAre ==
  /\ Len(Figures) = 5
  /\ Figures[1] = events_received_ /\ Figures[2] = events_published_
  /\ Figures[3] = publish_failures_ /\ Figures[4] = successes /\ Figures[5] = failures
BY DEF Figures

LEMMA FiguresNat ==
  ASSUME TypeOK, ServiceTypeOK
  PROVE  \A i \in 1..5 : Figures[i] \in Nat
<1>1. \A i \in 1..5 : i = 1 \/ i = 2 \/ i = 3 \/ i = 4 \/ i = 5
  OBVIOUS
<1>2. QED
  BY <1>1, FiguresAre DEF TypeOK, ServiceTypeOK

(* The counters of the pipeline only grow, and not at all once both        *)
(* threads are joined.                                                     *)
LEMMA CountersStep ==
  ASSUME IInv, [Next]_vars
  PROVE  /\ events_received_' \in {events_received_, events_received_ + 1}
         /\ events_published_' \in {events_published_, events_published_ + 1}
         /\ publish_failures_' \in {publish_failures_, publish_failures_ + 1}
         /\ stopped_ /\ publish # "none" =>
              UNCHANGED <<events_received_, events_published_, publish_failures_>>
<1>0. /\ stopped_ => ingest \in {"none", "joined"}
      /\ stopped_ => publish \in {"none", "joined"}
  BY DEF IInv, PhaseInv
<1>1. CASE UNCHANGED <<events_received_, events_published_, publish_failures_>>
  BY <1>1
<1>2. CASE IngestCount
  BY <1>0, <1>2 DEF IngestCount
<1>3. CASE PublishCount
  BY <1>0, <1>3 DEF PublishCount
<1>4. QED
  BY <1>1, <1>2, <1>3
     DEF Next, vars, OwnerCall, OwnerStep, IngestStep, PublishStep, StartSource,
         RequestStop, Stop, Destroy, StartIngestThread, StartPublishThread,
         StartThreadThrows, JoinIngest, ShutdownQueue, JoinPublish, IngestNext,
         IngestEnd, IngestRecord, IngestPush, IngestFinish, IngestEvent,
         PublishPop, PublishEnd, PublishCall, PublishFlush

(* The delivery counts only grow, and not at all when nothing is pending.  *)
LEMMA DeliveryCountsStep ==
  ASSUME ServiceTypeOK, DeliveryInv, [ServiceNext]_serviceVars
  PROVE  /\ successes' \in Nat /\ successes <= successes'
         /\ failures' \in Nat /\ failures <= failures'
         /\ dropped' \in Nat
         /\ pending = {} => UNCHANGED <<successes, failures>>
<1>0. successes \in Nat /\ failures \in Nat /\ dropped \in Nat /\ IsFiniteSet(pending)
  BY DEF ServiceTypeOK, DeliveryInv
<1>1. CASE UNCHANGED <<successes, failures, dropped>>
  BY <1>0, <1>1
<1>2. ASSUME NEW S \in SUBSET pending, NEW F \in SUBSET pending, publisher_!Settle(S, F)
      PROVE  /\ successes' \in Nat /\ successes <= successes'
             /\ failures' \in Nat /\ failures <= failures'
             /\ dropped' \in Nat
             /\ pending = {} => UNCHANGED <<successes, failures>>
  <2>1. /\ successes' = successes + Cardinality(S) /\ failures' = failures + Cardinality(F)
        /\ dropped' = dropped
    BY <1>2, PublisherCardinality DEF publisher_!Settle
  <2>2. Cardinality(S) \in Nat /\ Cardinality(F) \in Nat
    BY <1>0, FS_Subset, FS_CardinalityType
  <2>3. pending = {} => Cardinality(S) = 0 /\ Cardinality(F) = 0
    BY FS_EmptySet
  <2>4. QED
    BY <1>0, <2>1, <2>2, <2>3
<1>3. CASE MainExit
  <2>1. UNCHANGED <<successes, failures>> /\ dropped' = Cardinality(pending)
    BY <1>3, PublisherCardinality DEF MainExit, publisher_!Destroy
  <2>2. QED
    BY <1>0, <2>1, FS_CardinalityType
<1>4. QED
  BY <1>1, <1>2, <1>3, ProducerStep
     DEF publisher_!Publish, publisher_!Flush, publisher_!Store

LEMMA FiguresGrow ==
  ASSUME IInv, ServiceTypeOK, DeliveryInv, [ServiceNext]_serviceVars
  PROVE  /\ \A i \in 1..5 : Figures[i] <= Figures'[i] /\ Figures'[i] \in Nat
         /\ stopped_ /\ publish # "none" => \A i \in 1..3 : Figures'[i] = Figures[i]
         /\ pending = {} => Figures'[4] = Figures[4] /\ Figures'[5] = Figures[5]
<1>0. /\ events_received_ \in Nat /\ events_published_ \in Nat /\ publish_failures_ \in Nat
      /\ successes \in Nat /\ failures \in Nat
  BY DEF IInv, TypeOK, ServiceTypeOK
<1>1. /\ events_received_' \in {events_received_, events_received_ + 1}
      /\ events_published_' \in {events_published_, events_published_ + 1}
      /\ publish_failures_' \in {publish_failures_, publish_failures_ + 1}
      /\ stopped_ /\ publish # "none" =>
           UNCHANGED <<events_received_, events_published_, publish_failures_>>
  BY CountersStep, PipelineStep
<1>2. /\ successes' \in Nat /\ successes <= successes'
      /\ failures' \in Nat /\ failures <= failures'
      /\ pending = {} => UNCHANGED <<successes, failures>>
  BY DeliveryCountsStep
<1>3. /\ Figures'[1] = events_received_' /\ Figures'[2] = events_published_'
      /\ Figures'[3] = publish_failures_' /\ Figures'[4] = successes' /\ Figures'[5] = failures'
  BY DEF Figures
<1>4. \A i \in 1..5 : i = 1 \/ i = 2 \/ i = 3 \/ i = 4 \/ i = 5
  OBVIOUS
<1>5. \A i \in 1..5 : Figures[i] <= Figures'[i] /\ Figures'[i] \in Nat
  BY <1>0, <1>1, <1>2, <1>3, <1>4, FiguresAre
<1>6. \A i \in 1..3 : i = 1 \/ i = 2 \/ i = 3
  OBVIOUS
<1>7. QED
  BY <1>1, <1>2, <1>3, <1>5, <1>6, FiguresAre

FinalPc == {"final", "return", "destroying", "exited"}

(* What a step of main() does with the report. *)
LEMMA ReportMoves ==
  ASSUME main \in MainPc, [ServiceNext]_serviceVars
  PROVE  /\ main' \in MainPc
         /\ \/ /\ report' = report
               /\ main' \in {"report", "final"} => main' = main
               /\ main' \in {"return", "destroying", "exited"} =>
                    main \in {"return", "destroying", "exited"}
            \/ report' = <<>> /\ main' \in {"report", "final"}
            \/ ReadFigure
<1> USE DEF MainPc
<1>1. CASE UNCHANGED mainVars
  BY <1>1
<1>2. CASE MainStart \/ MainStarting \/ MainRequestStop \/ MainStop \/ MainReturn \/ MainExit
  BY <1>2 DEF MainStart, MainStarting, MainRequestStop, MainStop, MainReturn, MainExit
<1>3. CASE MainStopping
  BY <1>3 DEF MainStopping
<1>4. CASE ReadFigure
  BY <1>4 DEF ReadFigure
<1>5. CASE MainReport \/ handleSignal \/ Die
  BY <1>5 DEF MainReport, handleSignal, Die
<1>6. QED
  BY <1>1, <1>2, <1>3, <1>4, <1>5
     DEF ServiceNext, serviceVars, MainStep, ServiceIngest, ServicePublish, Store, Settle

(* Once the final figures are being read, the figures stand still, and so  *)
(* does the outcome of flush().                                            *)
LEMMA Settled ==
  ASSUME IInv, ServiceTypeOK, MainInv, DeliveryInv, main \in FinalPc,
         [ServiceNext]_serviceVars
  PROVE  /\ flushResult' = flushResult
         /\ \A i \in 1..5 : i <= 3 \/ flushResult = "done" => Figures'[i] = Figures[i]
<1>1. stopped_ /\ publish # "none" /\ publish \in {"none", "joined"}
  BY DEF MainInv, MainPc, FinalPc, IInv, PhaseInv
<1>2. flushResult' = flushResult
  BY <1>1, ProducerStep
     DEF PublishCall, PublishFlush, publisher_!Store, publisher_!Settle, MainExit,
         publisher_!Destroy
<1>3. \A i \in 1..3 : Figures'[i] = Figures[i]
  BY <1>1, FiguresGrow
<1>4. flushResult = "done" => Figures'[4] = Figures[4] /\ Figures'[5] = Figures[5]
  BY FiguresGrow DEF DeliveryInv
<1>5. \A i \in 1..5 : i \in 1..3 \/ ((i = 4 \/ i = 5) /\ ~(i <= 3))
  OBVIOUS
<1>6. QED
  BY <1>2, <1>3, <1>4, <1>5

LEMMA ReportStep ==
  ASSUME IInv, ServiceTypeOK, MainInv, DeliveryInv, ReportInv, FinalInv,
         [ServiceNext]_serviceVars
  PROVE  ServiceTypeOK' /\ ReportInv' /\ FinalInv'
<1>0. main \in MainPc /\ report \in Seq(Nat) /\ Len(report) \in Nat
  BY DEF ServiceTypeOK
<1>a. /\ \A i \in 1..5 : Figures[i] \in Nat
      /\ \A i \in 1..5 : Figures[i] <= Figures'[i] /\ Figures'[i] \in Nat
  BY FiguresNat, FiguresGrow DEF IInv
<1>b. main' \in MainPc
  BY <1>0, ReportMoves
<1>c. successes' \in Nat /\ failures' \in Nat /\ dropped' \in Nat
  BY DeliveryCountsStep
<1>d. ASSUME NEW i \in 1..5, NEW x \in Nat, x <= Figures[i] PROVE x <= Figures'[i]
  BY <1>a, <1>d
<1>1. CASE /\ report' = report
           /\ main' \in {"report", "final"} => main' = main
           /\ main' \in {"return", "destroying", "exited"} =>
                main \in {"return", "destroying", "exited"}
  <2>1. \A i \in 1..Len(report) : i \in 1..5 /\ report[i] \in Nat
    BY <1>0 DEF ReportInv
  <2>2. \A i \in 1..Len(report) : report[i] <= Figures'[i]
    BY <1>d, <2>1 DEF ReportInv
  <2>3. ReportInv'
    BY <1>1, <2>2 DEF ReportInv
  <2>4. ASSUME main' \in FinalPc
        PROVE  \A i \in 1..Len(report) :
                 i <= 3 \/ flushResult' = "done" => report[i] = Figures'[i]
    <3>1. main \in FinalPc
      BY <1>1, <2>4 DEF FinalPc
    <3>2. /\ flushResult' = flushResult
          /\ \A i \in 1..5 : i <= 3 \/ flushResult = "done" => Figures'[i] = Figures[i]
      BY <3>1, Settled
    <3>3. \A i \in 1..Len(report) : i <= 3 \/ flushResult = "done" => report[i] = Figures[i]
      BY <3>1 DEF FinalInv, FinalPc
    <3>4. QED
      BY <2>1, <3>2, <3>3
  <2>5. FinalInv'
    BY <1>1, <2>4 DEF FinalInv, FinalPc
  <2>6. QED
    BY <1>0, <1>1, <1>b, <1>c, <2>3, <2>5 DEF ServiceTypeOK
<1>2. CASE report' = <<>> /\ main' \in {"report", "final"}
  <2>1. Len(report') = 0 /\ report' \in Seq(Nat) /\ 1..0 = {}
    BY <1>2
  <2>2. QED
    BY <1>2, <1>b, <1>c, <2>1 DEF ServiceTypeOK, ReportInv, FinalInv
<1>3. CASE ReadFigure
  <2> DEFINE n == Len(report)
  <2>1. /\ main \in {"report", "final"} /\ n < 5
        /\ report' = Append(report, Figures[n + 1])
        /\ UNCHANGED <<vars, producerVars>>
    BY <1>3 DEF ReadFigure, ReportInv
  <2>2. n + 1 \in 1..5
    BY <1>0, <2>1
  <2>3. /\ report' \in Seq(Nat) /\ Len(report') = n + 1
        /\ report'[n + 1] = Figures[n + 1]
        /\ \A i \in 1..n : report'[i] = report[i]
    <3>1. Figures[n + 1] \in Nat
      BY <1>a, <2>2
    <3>2. \A x \in Nat : /\ Append(report, x) \in Seq(Nat) /\ Len(Append(report, x)) = n + 1
                        /\ Append(report, x)[n + 1] = x
                        /\ \A i \in 1..n : Append(report, x)[i] = report[i]
      BY ONLY <1>0
    <3>3. QED
      BY <2>1, <3>1, <3>2
  <2>4. Figures' = Figures
    BY <2>1 DEF Figures, vars
  <2>5. \A i \in 1..(n + 1) : i \in 1..n \/ i = n + 1
    BY <1>0
  <2>6. main' = IF n + 1 < 5 THEN main ELSE IF main = "report" THEN "poll" ELSE "return"
    BY <1>3, <2>3, FiguresAre DEF ReadFigure
  <2> HIDE DEF n
  <2>7. \A i \in 1..(n + 1) : report'[i] <= Figures[i]
    <3>1. Figures[n + 1] <= Figures[n + 1]
      BY <1>a, <2>2
    <3>2. QED
      BY <2>3, <2>5, <3>1 DEF ReportInv, n
  <2>8. n \in Nat /\ (n + 1 < 5 \/ n + 1 = 5)
    BY <1>0, <2>1 DEF n
  <2>9. ReportInv'
    BY <2>1, <2>3, <2>4, <2>6, <2>7, <2>8 DEF ReportInv
  <2>10. ASSUME main' \in FinalPc
         PROVE  \A i \in 1..(n + 1) :
                  i <= 3 \/ flushResult' = "done" => report'[i] = Figures'[i]
    <3>1. main = "final"
      BY <2>1, <2>6, <2>10 DEF FinalPc
    <3>2. \A i \in 1..n : i <= 3 \/ flushResult = "done" => report[i] = Figures[i]
      BY <3>1 DEF FinalInv, n
    <3>3. QED
      BY <2>1, <2>3, <2>4, <2>5, <3>2
  <2>11. FinalInv'
    BY <2>3, <2>10 DEF FinalInv, FinalPc
  <2>12. QED
    BY <1>b, <1>c, <2>3, <2>9, <2>11 DEF ServiceTypeOK
<1>4. QED
  BY <1>0, <1>1, <1>2, <1>3, ReportMoves

-----------------------------------------------------------------------------
LEMMA ServiceInitially ==
  ASSUME ServiceInit
  PROVE  IInv /\ ServiceInv
<1>1. Init /\ IInv
  BY InitIInv DEF ServiceInit
<1>2. /\ Len(handled) = 0 /\ events_published_ = 0 /\ publish = "none"
      /\ owner = "ready" /\ ~started_ /\ ~destroying
  BY <1>1 DEF Init
<1>3. /\ pending = {} /\ onBroker = {} /\ dropped = 0 /\ successes = 0 /\ failures = 0
      /\ flushResult = "no" /\ main = "boot" /\ report = <<>>
  BY DEF ServiceInit, publisher_!Init
<1>4. ServiceTypeOK
  BY <1>3 DEF ServiceTypeOK, MainPc
<1>5. MainInv
  BY <1>2, <1>3 DEF MainInv
<1>6. DeliveryInv
  <2>1. IsFiniteSet({}) /\ Cardinality({}) = 0 /\ onBroker \ pending = {}
    BY <1>3, FS_EmptySet
  <2>2. QED
    BY <1>2, <1>3, <2>1 DEF DeliveryInv
<1>7. ReportInv /\ FinalInv
  <2>1. Len(report) = 0 /\ 1..0 = {}
    BY <1>3
  <2>2. QED
    BY <1>3, <2>1 DEF ReportInv, FinalInv
<1>8. QED
  BY <1>1, <1>4, <1>5, <1>6, <1>7 DEF ServiceInv

(* The inductive invariant of the service, on top of the pipeline's.       *)
THEOREM ServiceInvariant == ServiceSpec => [](IInv /\ ServiceInv)
<1>1. ServiceInit => IInv /\ ServiceInv
  BY ServiceInitially
<1>2. IInv /\ ServiceInv /\ [ServiceNext]_serviceVars => (IInv /\ ServiceInv)'
  <2> SUFFICES ASSUME IInv, ServiceInv, [ServiceNext]_serviceVars
               PROVE  IInv' /\ ServiceInv'
    OBVIOUS
  <2>1. IInv'
    BY PipelineStep, IInvStep
  <2>2. QED
    BY <2>1, MainInvStep, DeliveryStep, ReportStep DEF ServiceInv
<1>3. QED
  BY <1>1, <1>2, PTL DEF ServiceSpec

(* The figures that the ingestion service prints last are complete: all    *)
(* events received are in them as published or failed, and if flush() did  *)
(* not time out every published one is in them as delivered or failed.     *)
THEOREM FinalStatsCorrect == ServiceSpec => []FinalStatsAddUp
<1>1. IInv /\ ServiceInv => FinalStatsAddUp
  <2> SUFFICES ASSUME IInv, ServiceInv, main \in {"return", "destroying", "exited"}
               PROVE  /\ report[1] = Len(emitted)
                      /\ report[2] + report[3] = report[1]
                      /\ flushResult = "done" => report[4] + report[5] = report[2]
    BY DEF FinalStatsAddUp
  <2>1. stopped_ /\ publish # "none" /\ publish = "joined" /\ ingest \in {"none", "joined"}
    BY DEF ServiceInv, MainInv, MainPc, IInv, PhaseInv
  <2>2. Len(report) = 5
    BY DEF ServiceInv, ReportInv
  <2>3. \A i \in 1..5 : i <= 3 \/ flushResult = "done" => report[i] = Figures[i]
    BY <2>2 DEF ServiceInv, FinalInv
  <2>4. /\ report[1] = events_received_ /\ report[2] = events_published_
        /\ report[3] = publish_failures_
    BY <2>3, FiguresAre
  <2>5. StoppedClean
    BY StoppedCleanly
  <2>6. ASSUME flushResult = "done" PROVE report[4] + report[5] = report[2]
    <3>1. report[4] = successes /\ report[5] = failures
      BY <2>3, <2>6, FiguresAre
    <3>2. Cardinality(pending) = 0 /\ dropped = 0
      BY <2>6, FS_EmptySet DEF ServiceInv, DeliveryInv
    <3>3. successes + failures + Cardinality(pending) + dropped = events_published_ + 0
      BY <2>1 DEF ServiceInv, DeliveryInv
    <3>4. successes \in Nat /\ failures \in Nat /\ events_published_ \in Nat
      BY DEF ServiceInv, ServiceTypeOK, IInv, TypeOK
    <3>5. successes + failures = events_published_
      BY <3>2, <3>3, <3>4
    <3>6. QED
      BY <2>4, <3>1, <3>5
  <2>7. QED
    BY <2>1, <2>4, <2>5, <2>6 DEF StoppedClean
<1>2. QED
  BY <1>1, ServiceInvariant, PTL


(* The publish thread has counted no event that was not received: it came  *)
(* out of the queue, and an event is counted before it is pushed.          *)
LEMMA CountedWereReceived ==
  ASSUME IInv
  PROVE  /\ events_published_ + publish_failures_ <= Len(handled)
         /\ Len(handled) <= events_received_
<1>0. TypeOK /\ HandInv /\ FlowInv /\ CountInv
  BY DEF IInv
<1> DEFINE g == InHand(ingestEvent)
           h == InHand(publishEvent)
<1>1. /\ g \in Seq(Event) /\ h \in Seq(Event)
      /\ accepted \in Seq(Event) /\ handled \in Seq(Event) /\ delivered \in Seq(Event)
  BY <1>0 DEF TypeOK, InHand
<1>2. Len(g) \in Nat /\ Len(h) \in Nat /\ (ingest = "count" => Len(g) = 1)
  BY <1>0, <1>1 DEF InHand, HandInv
<1>3. /\ events_received_ \in Nat /\ events_published_ \in Nat /\ publish_failures_ \in Nat
      /\ Len(accepted) \in Nat /\ Len(handled) \in Nat /\ Len(delivered) \in Nat
  BY <1>0, <1>1 DEF TypeOK
<1>4. /\ Len(emitted) = Len(accepted) + Len(g) /\ Len(delivered) = Len(handled) + Len(h)
      /\ Len(delivered) <= Len(accepted)
  BY <1>0, <1>1 DEF FlowInv
<1> HIDE DEF g, h
<1>5. Len(accepted) <= events_received_
  <2>1. CASE ingest = "count"
    BY <1>0, <1>2, <1>3, <1>4, <2>1 DEF CountInv
  <2>2. CASE ingest # "count"
    <3>1. Len(emitted) = events_received_
      BY <1>0, <2>2 DEF CountInv
    <3>2. QED
      BY <1>2, <1>3, <1>4, <3>1
  <2>3. QED
    BY <2>1, <2>2
<1>6. events_published_ + publish_failures_ <= Len(handled)
  BY <1>0, <1>3 DEF CountInv
<1>7. QED
  BY <1>2, <1>3, <1>4, <1>5, <1>6

(* A report made while the threads go on is no snapshot, but no figure in  *)
(* it runs ahead of the truth.                                             *)
THEOREM ReportsTruthful == ServiceSpec => []ReportTruthful
<1>1. IInv /\ ServiceInv => ReportTruthful
  <2> SUFFICES ASSUME IInv, ServiceInv, Len(report) = 5
               PROVE  /\ report[2] + report[3] <= events_received_
                      /\ report[4] <= Cardinality(onBroker)
                      /\ report[4] + report[5] <= Len(handled)
    BY FiguresAre DEF ReportTruthful
  <2>0. TypeOK /\ ServiceTypeOK /\ DeliveryInv /\ ReportInv
    BY DEF IInv, ServiceInv
  <2>1. \A i \in 1..5 : report[i] \in Nat /\ report[i] <= Figures[i]
    <3>1. \A i \in 1..Len(report) : report[i] \in Nat
      <4>1. report \in Seq(Nat)
        BY <2>0 DEF ServiceTypeOK
      <4>2. QED
        BY ONLY <4>1
    <3>2. 1..Len(report) = 1..5
      OBVIOUS
    <3>3. QED
      BY <2>0, <3>1, <3>2 DEF ReportInv
  <2>2. /\ report[2] \in Nat /\ report[3] \in Nat /\ report[4] \in Nat /\ report[5] \in Nat
        /\ report[2] <= events_published_ /\ report[3] <= publish_failures_
        /\ report[4] <= successes /\ report[5] <= failures
    BY <2>1, FiguresAre
  <2>3. /\ events_received_ \in Nat /\ events_published_ \in Nat /\ publish_failures_ \in Nat
        /\ successes \in Nat /\ failures \in Nat /\ dropped \in Nat /\ Len(handled) \in Nat
    BY <2>0 DEF TypeOK, ServiceTypeOK
  <2>4. /\ Cardinality(pending) \in Nat /\ Cardinality(onBroker) \in Nat
        /\ Cardinality(onBroker \ pending) \in Nat
        /\ Cardinality(onBroker \ pending) <= Cardinality(onBroker)
    BY <2>0, FS_Subset, FS_CardinalityType DEF DeliveryInv
  <2>5. /\ events_published_ + publish_failures_ <= Len(handled)
        /\ Len(handled) <= events_received_
    BY CountedWereReceived
  <2>6. successes <= Cardinality(onBroker)
    BY <2>0, <2>3, <2>4 DEF DeliveryInv
  <2>7. successes + failures <= Len(handled)
    <3>1. events_published_ + (IF publish = "published" THEN 1 ELSE 0) <= Len(handled)
      BY <2>0, <2>3 DEF IInv, CountInv
    <3>2. successes + failures + Cardinality(pending) + dropped <= Len(handled)
      BY <2>0, <3>1 DEF DeliveryInv
    <3>3. QED
      BY <2>3, <2>4, <3>2
  <2>8. report[2] + report[3] <= events_received_
    BY <2>2, <2>3, <2>5
  <2>9. report[4] <= Cardinality(onBroker)
    BY <2>2, <2>3, <2>4, <2>6
  <2>10. report[4] + report[5] <= Len(handled)
    BY <2>2, <2>3, <2>7
  <2>11. QED
    BY <2>8, <2>9, <2>10
<1>2. QED
  BY <1>1, ServiceInvariant, PTL

-----------------------------------------------------------------------------
(* What a death costs *)

(* The producer is closed by the return of main() and by nothing else.     *)
OpenInv == main # "exited" => open

LEMMA OpenStep ==
  ASSUME OpenInv, [ServiceNext]_serviceVars
  PROVE  OpenInv'
<1>1. CASE MainExit
  BY <1>1 DEF MainExit, OpenInv
<1>2. CASE ~MainExit
  <2>1. open' = open
    BY <1>2, ProducerStep
       DEF publisher_!Publish, publisher_!Flush, publisher_!Store, publisher_!Settle
  <2>2. main = "exited" => main' = "exited"
    BY DEF ServiceNext, Ended, serviceVars
  <2>3. QED
    BY <2>1, <2>2 DEF OpenInv
<1>3. QED
  BY <1>1, <1>2

(* What the broker has: all that was reported delivered, and what is both  *)
(* stored and pending.                                                     *)
LEMMA BrokerHas ==
  ASSUME IInv, ServiceTypeOK, DeliveryInv, open
  PROVE  /\ Cardinality(onBroker) \in Nat
         /\ Cardinality(pending \ onBroker) \in Nat
         /\ Published <= Cardinality(onBroker) + Cardinality(pending \ onBroker) + failures
<1> DEFINE B == onBroker \ pending
           C == onBroker \cap pending
           D == pending \ onBroker
<1>0. Cardinality({}) = 0
  BY FS_EmptySet
<1>1. IsFiniteSet(B) /\ IsFiniteSet(C) /\ IsFiniteSet(D)
  BY FS_Subset DEF DeliveryInv
<1>2. /\ Cardinality(B) \in Nat /\ Cardinality(C) \in Nat /\ Cardinality(D) \in Nat
  BY <1>1, FS_CardinalityType
<1>3. Cardinality(onBroker) = Cardinality(B) + Cardinality(C)
  <2>1. B \cup C = onBroker /\ B \cap C = {}
    OBVIOUS
  <2>2. Cardinality(B \cup C) = Cardinality(B) + Cardinality(C) - Cardinality({})
    BY <1>1, <2>1, FS_Union
  <2>3. Cardinality(onBroker) = Cardinality(B) + Cardinality(C) - 0
    BY <1>0, <2>1, <2>2
  <2> HIDE DEF B, C, D
  <2>4. QED
    BY <1>2, <2>3
<1>4. Cardinality(pending) = Cardinality(D) + Cardinality(C)
  <2>1. D \cup C = pending /\ D \cap C = {}
    OBVIOUS
  <2>2. Cardinality(D \cup C) = Cardinality(D) + Cardinality(C) - Cardinality({})
    BY <1>1, <2>1, FS_Union
  <2>3. Cardinality(pending) = Cardinality(D) + Cardinality(C) - 0
    BY <1>0, <2>1, <2>2
  <2> HIDE DEF B, C, D
  <2>4. QED
    BY <1>2, <2>3
<1>5. /\ successes \in Nat /\ failures \in Nat /\ dropped = 0
      /\ successes + failures + Cardinality(pending) + dropped = Published
      /\ successes <= Cardinality(B)
  BY DEF ServiceTypeOK, DeliveryInv, Published
<1> HIDE DEF B, C
<1>6. QED
  BY <1>2, <1>3, <1>4, <1>5

(* A death, whenever it comes, costs no more than what is queued, within   *)
(* the capacity, in the threads' hands, not yet delivered by librdkafka,   *)
(* or counted as failed: all else the source returned is on the broker.    *)
THEOREM DeathLossBounded == ServiceSpec => []DeathLoss
<1>1. ServiceInit => BoundInv /\ OpenInv
  BY PipelineAssumption
     DEF ServiceInit, Init, queue_!Init, publisher_!Init, BoundInv, OpenInv
<1>2. IInv /\ BoundInv /\ OpenInv /\ [ServiceNext]_serviceVars => BoundInv' /\ OpenInv'
  BY PipelineStep, BoundStep, OpenStep
<1>3. IInv /\ ServiceInv /\ BoundInv /\ OpenInv => DeathLoss
  <2> SUFFICES ASSUME IInv, ServiceInv, BoundInv, OpenInv, main = "dead"
               PROVE  Cardinality((1..Len(emitted)) \ onBroker)
                        <= Queued + InThreads + Cardinality(pending \ onBroker)
                           + failures + publish_failures_
    BY DEF DeathLoss, BoundInv, Queued
  <2> DEFINE E == Len(emitted)
             K == Cardinality(onBroker)
             D == Cardinality(pending \ onBroker)
             H == Len(InHand(ingestEvent))
  <2>1. /\ Len(handled) <= E
        /\ H \in 0..1
        /\ E = Len(handled) + (IF publish = "publish" THEN 1 ELSE 0) + Queued + H
    BY InFlight DEF Queued
  <2>2. K \in Nat /\ D \in Nat /\ Published <= K + D + failures
    BY BrokerHas DEF ServiceInv, OpenInv
  <2>3. Cardinality((1..E) \ onBroker) = E - K
    <3>1. E \in Nat /\ Len(handled) \in Nat
      BY DEF IInv, TypeOK
    <3>2. IsFiniteSet(1..E) /\ Cardinality(1..E) = E
      <4>1. ASSUME NEW n \in Nat PROVE IsFiniteSet(1..n) /\ Cardinality(1..n) = n
        BY ONLY n \in Nat, FS_Interval
      <4>2. QED
        BY <3>1, <4>1
    <3>3. (1..E) \cap onBroker = onBroker
      BY <2>1, <3>1 DEF ServiceInv, DeliveryInv
    <3>4. Cardinality((1..E) \ onBroker) = Cardinality(1..E) - Cardinality((1..E) \cap onBroker)
      BY <3>2, FS_Difference
    <3>5. QED
      BY <3>2, <3>3, <3>4
  <2>4. Len(handled) <= Published + publish_failures_ + (IF publish = "failed" THEN 1 ELSE 0)
    BY DEF IInv, TypeOK, CountInv, Published
  <2>5. /\ E \in Nat /\ Len(handled) \in Nat /\ Published \in Nat
        /\ failures \in Nat /\ publish_failures_ \in Nat /\ Queued \in Int
    BY DEF IInv, TypeOK, ServiceInv, ServiceTypeOK, Published, Queued
  <2>6. InThreads = H + (IF publish \in {"publish", "failed"} THEN 1 ELSE 0)
    BY DEF InThreads
  <2> HIDE DEF E, K, D, H
  <2>7. QED
    BY <2>1, <2>2, <2>3, <2>4, <2>5, <2>6 DEF E, D
<1>4. QED
  BY <1>1, <1>2, <1>3, ServiceInvariant, PTL DEF ServiceSpec
=============================================================================
