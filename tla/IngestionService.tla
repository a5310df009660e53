-------------------------- MODULE IngestionService --------------------------
(***************************************************************************)
(* The ingestion service (services/ingestion/main.cpp): main() around an   *)
(* IngestionPipeline whose publisher is a KafkaEventProducer, here by the  *)
(* promise of EventPublisher that KafkaProducer is shown to keep.  main()  *)
(* polls the signal's flag and ingestFinished(), reports figures it reads  *)
(* one after the other, stops the pipeline, prints the final figures and   *)
(* returns.  Before start() has returned, an exception (a bad number, an   *)
(* unreachable file, a thread that cannot be created) ends the process;    *)
(* later so do a kill and an exception out of next(): all of them are Die. *)
(***************************************************************************)
EXTENDS IngestionPipeline, FiniteSets

CONSTANT MaxReports  \* bound: periodic reports

VARIABLES
  main,                  \* where main() is
  g_shutdown_requested,
  report,                \* the figures read for the last report, so far
  reports,               \* history: periodic reports begun
  pending, onBroker, dropped, successes, failures, flushResult, open
                         \* the producer, see EventPublisher

producerVars == <<pending, onBroker, dropped, successes, failures, flushResult, open>>
mainVars == <<main, g_shutdown_requested, report, reports>>
serviceVars == <<vars, mainVars, producerVars>>

publisher_ == INSTANCE EventPublisher
                WITH published <- Len(handled), flushed <- flushResult

ServiceInit ==
  /\ Init
  /\ publisher_!Init
  /\ main = "boot"
  /\ g_shutdown_requested = FALSE
  /\ report = <<>>
  /\ reports = 0

-----------------------------------------------------------------------------
(* main() *)

(* Arguments, source, producer, recorder, signal handlers, the pipeline,   *)
(* and pipeline.start() ...                                                *)
MainStart ==
  /\ main = "boot"
  /\ StartSource
  /\ main' = "starting"
  /\ UNCHANGED <<g_shutdown_requested, report, reports, producerVars>>

(* ... which creates the threads. *)
MainStarting ==
  /\ main = "starting"
  /\ StartIngestThread \/ StartPublishThread
  /\ main' = IF owner' = "ready" THEN "poll" ELSE "starting"
  /\ UNCHANGED <<g_shutdown_requested, report, reports, producerVars>>

handleSignal ==
  /\ main \notin {"boot", "exited", "dead"}
  /\ g_shutdown_requested' = TRUE
  /\ UNCHANGED <<vars, main, report, reports, producerVars>>

(* Mutant: only a signal ends the loop. *)
LoopEndsOnSignal == g_shutdown_requested

LoopEnds == g_shutdown_requested \/ ingest_finished_

(* Two seconds are over: stats() and the producer's counts. *)
MainReport ==
  /\ main = "poll"
  /\ ~LoopEnds
  /\ reports < MaxReports
  /\ reports' = reports + 1
  /\ report' = <<>>
  /\ main' = "report"
  /\ UNCHANGED <<vars, g_shutdown_requested, producerVars>>

Figures == <<events_received_, events_published_, publish_failures_, successes, failures>>

(* The five atomics are read one by one while the threads go on. *)
ReadFigure ==
  /\ main \in {"report", "final"}
  /\ report' = Append(report, Figures[Len(report) + 1])
  /\ main' = IF Len(report') < Len(Figures) THEN main
             ELSE IF main = "report" THEN "poll" ELSE "return"
  /\ UNCHANGED <<vars, g_shutdown_requested, reports, producerVars>>

MainRequestStop ==
  /\ main = "poll"
  /\ LoopEnds
  /\ RequestStop
  /\ main' = "stop"
  /\ UNCHANGED <<g_shutdown_requested, report, reports, producerVars>>

(* Mutant: requestStop() is taken to be enough before the final figures. *)
MainStopSkipped ==
  /\ main = "stop"
  /\ main' = "final"
  /\ report' = <<>>
  /\ UNCHANGED <<vars, g_shutdown_requested, reports, producerVars>>

MainStop ==
  /\ main = "stop"
  /\ Stop
  /\ main' = "stopping"
  /\ UNCHANGED <<g_shutdown_requested, report, reports, producerVars>>

(* pipeline.stop() returns when both threads are joined; then the final    *)
(* figures are read.                                                       *)
MainStopping ==
  /\ main = "stopping"
  /\ JoinIngest \/ ShutdownQueue \/ JoinPublish
  /\ main' = IF owner' = "ready" THEN "final" ELSE "stopping"
  /\ report' = IF owner' = "ready" THEN <<>> ELSE report
  /\ UNCHANGED <<g_shutdown_requested, reports, producerVars>>

(* The pipeline's destructor, then that of the producer it owns. *)
MainReturn ==
  /\ main = "return"
  /\ Destroy
  /\ main' = "destroying"
  /\ UNCHANGED <<g_shutdown_requested, report, reports, producerVars>>

MainExit ==
  /\ main = "destroying"
  /\ UNCHANGED <<vars, g_shutdown_requested, report, reports>>
  /\ publisher_!Destroy
  /\ main' = "exited"

-----------------------------------------------------------------------------
(* The pipeline's threads, the producer, and death *)

ServiceIngest == (IngestStep \/ \E e \in Event : IngestEvent(e))
                 /\ UNCHANGED <<mainVars, producerVars>>

ServicePublish ==
  \/ (PublishPop \/ PublishEnd \/ PublishCount) /\ UNCHANGED <<mainVars, producerVars>>
  \/ \E ok \in BOOLEAN :
       /\ \/ PublishCall(ok) /\ publisher_!Publish(ok)
          \/ PublishFlush /\ publisher_!Flush(ok)
       /\ UNCHANGED mainVars

Store == UNCHANGED <<vars, mainVars>> /\ \E e \in pending : publisher_!Store(e)

(* librdkafka calls back in the poll with which publish() ends, whether    *)
(* the event was accepted or not, in flush() and in the destructor.        *)
Settle ==
  /\ publish \in {"published", "failed", "flush"} \/ main = "destroying"
  /\ UNCHANGED <<vars, mainVars>>
  /\ \E S, F \in SUBSET pending : publisher_!Settle(S, F)

Die ==
  /\ main' = "dead"
  /\ UNCHANGED <<vars, g_shutdown_requested, report, reports, producerVars>>

-----------------------------------------------------------------------------
Ended == main \in {"exited", "dead"}

MainStep ==
  \/ MainStart \/ MainStarting \/ ReadFigure \/ MainRequestStop \/ MainStop
  \/ MainStopping \/ MainReturn \/ MainExit

ServiceNext ==
  /\ ~Ended
  /\ \/ MainStep \/ MainReport \/ handleSignal \/ Die
     \/ ServiceIngest \/ ServicePublish \/ Store \/ Settle

ServiceSpec == ServiceInit /\ [][ServiceNext]_serviceVars

(* The three threads run, and next() returns after stop() or at the end of *)
(* the file; flush() returns, at the latest after its timeout.             *)
ServiceFairness ==
  /\ WF_serviceVars(~Ended /\ MainStep)
  /\ WF_serviceVars(~Ended /\ IngestStep /\ UNCHANGED <<mainVars, producerVars>>)
  /\ WF_serviceVars(~Ended /\ ServicePublish)

ServiceFairSpec == ServiceSpec /\ ServiceFairness

-----------------------------------------------------------------------------
(* The final figures are complete: all events received are in them, as     *)
(* published or failed, and unless flush() timed out every published one   *)
(* is in them as delivered or not delivered.                               *)
FinalStatsAddUp ==
  main \in {"return", "destroying", "exited"} =>
    /\ report[1] = Len(emitted)
    /\ report[2] + report[3] = report[1]
    /\ flushResult = "done" => report[4] + report[5] = report[2]

(* A report is no snapshot, and published may exceed received in it; but   *)
(* no figure runs ahead of the truth: what it calls published or failed    *)
(* has been received, and what it calls delivered is on the broker.        *)
ReportTruthful ==
  Len(report) = Len(Figures) =>
    /\ report[2] + report[3] <= events_received_
    /\ report[4] <= Cardinality(onBroker)
    /\ report[4] + report[5] <= Len(handled)

(* Where events can be before publish() has accepted them or counted them  *)
(* as refused: in queue_, and one in the hands of each thread.             *)
Queued == Len(accepted) - Len(delivered)
InThreads == Len(InHand(ingestEvent))
             + (IF publish \in {"publish", "failed"} THEN 1 ELSE 0)

(* What the death of the process costs, at whatever moment it comes: of    *)
(* the events received the broker lacks no more than those queued, which   *)
(* are at most queue_capacity, those in the two threads' hands, those that *)
(* librdkafka still had to deliver, which the capacity does not bound, and *)
(* those already counted as failed.                                        *)
DeathLoss ==
  main = "dead" =>
    /\ Cardinality((1..Len(emitted)) \ onBroker)
         <= Queued + InThreads + Cardinality(pending \ onBroker)
            + failures + publish_failures_
    /\ Queued <= Capacity

(* A signal or the end of a replay ends the service, provided that next()  *)
(* returns after stop(), as MarketDataSource promises.                     *)
ServiceEnds == main = "poll" /\ (g_shutdown_requested \/ source_ = "replay") ~> Ended
=============================================================================
