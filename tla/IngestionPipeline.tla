------------------------- MODULE IngestionPipeline -------------------------
(***************************************************************************)
(* IngestionPipeline (include/tickforge/ingestion_pipeline.hpp and         *)
(* src/ingestion_pipeline.cpp): an ingest thread moves events from a       *)
(* MarketDataSource into a BoundedQueue, a publish thread moves them from  *)
(* there to an EventPublisher, and the owner thread calls start(),         *)
(* requestStop(), stop() and the destructor in any order it likes.         *)
(*                                                                         *)
(* queue_ is the channel BoundedChannel, which BoundedQueue is proved to   *)
(* implement.  The source is what MarketDataSource promises: next()        *)
(* returns an event, or false after stop() or (replay only) at the end of  *)
(* the file.  The publisher accepts or rejects each event as it likes.     *)
(***************************************************************************)
EXTENDS Naturals, Sequences

CONSTANTS
  Event,          \* market events
  NoEvent,        \* a thread has no event in hand
  Capacity,       \* queue_capacity, the constructor's argument
  SourceKinds,    \* the sources to consider, of "live" and "replay"
  ThreadsMayFail, \* whether creating a std::thread may throw
  MaxEvents       \* bound: events the source ever returns

ASSUME PipelineAssumption ==
  /\ NoEvent \notin Event
  /\ Capacity \in Nat
  /\ SourceKinds \subseteq {"live", "replay"}
  /\ ThreadsMayFail \in BOOLEAN
  /\ MaxEvents \in Nat

VARIABLES
  source_,            \* kind of source given to the constructor
  optional_recorder_, \* whether a recorder was given
  owner,              \* where the owner thread is
  destroying,         \* the destructor has been entered
  started_,
  stopped_,
  ingest,             \* where the ingest thread is
  publish,            \* where the publish thread is
  ingestEvent,        \* `event` of runIngest
  publishEvent,       \* `event` of runPublish
  stop_requested,     \* the source's stop() was called
  ingest_finished_,
  events_received_,
  events_published_,
  publish_failures_,
  accepted, delivered, closed, highWater, result, \* queue_, see BoundedChannel
  emitted,            \* history: events next() returned
  recorded,           \* events given to the recorder
  handled,            \* history: events given to publisher_->publish()
  flushed             \* publisher_->flush() has returned

config == <<source_, optional_recorder_>>
ownerVars == <<owner, destroying, started_, stopped_, stop_requested>>
ingestVars == <<ingest, ingestEvent, emitted, recorded, events_received_,
                ingest_finished_>>
publishVars == <<publish, publishEvent, handled, flushed, events_published_,
                 publish_failures_>>
queueVars == <<accepted, delivered, closed, highWater, result>>
vars == <<config, ownerVars, ingestVars, publishVars, queueVars>>

queue_ == INSTANCE BoundedChannel
            WITH Senders <- {"ingest"}, Receivers <- {"publish"}, Item <- Event

Init ==
  /\ source_ \in SourceKinds
  /\ optional_recorder_ \in BOOLEAN
  /\ owner = "ready"
  /\ destroying = FALSE
  /\ started_ = FALSE
  /\ stopped_ = FALSE
  /\ ingest = "none"
  /\ publish = "none"
  /\ ingestEvent = NoEvent
  /\ publishEvent = NoEvent
  /\ stop_requested = FALSE
  /\ ingest_finished_ = FALSE
  /\ events_received_ = 0
  /\ events_published_ = 0
  /\ publish_failures_ = 0
  /\ queue_!Init
  /\ emitted = <<>>
  /\ recorded = <<>>
  /\ handled = <<>>
  /\ flushed = FALSE

-----------------------------------------------------------------------------
(* The owner thread: start() *)

(* source_->start() has returned; if it throws, start() changes nothing.   *)
StartSource ==
  /\ owner = "ready"
  /\ ~started_
  /\ stop_requested' = FALSE
  /\ started_' = TRUE
  /\ owner' = "start_ingest"
  /\ UNCHANGED <<config, destroying, stopped_, ingestVars, publishVars, queueVars>>

StartIngestThread ==
  /\ owner = "start_ingest"
  /\ ingest' = "next"
  /\ owner' = "start_publish"
  /\ UNCHANGED <<config, destroying, started_, stopped_, stop_requested,
                 ingestEvent, emitted, recorded, events_received_,
                 ingest_finished_, publishVars, queueVars>>

(* The new thread begins by calling queue_.pop(). *)
StartPublishThread ==
  /\ owner = "start_publish"
  /\ publish' = "pop"
  /\ owner' = "ready"
  /\ queue_!Call("publish")
  /\ UNCHANGED <<config, destroying, started_, stopped_, stop_requested,
                 ingestVars, publishEvent, handled, flushed, events_published_,
                 publish_failures_>>

(* std::thread's constructor throws system_error; start() lets it escape.  *)
StartThreadThrows ==
  /\ ThreadsMayFail
  /\ owner \in {"start_ingest", "start_publish"}
  /\ owner' = "ready"
  /\ UNCHANGED <<config, destroying, started_, stopped_, stop_requested,
                 ingestVars, publishVars, queueVars>>

-----------------------------------------------------------------------------
(* The owner thread: requestStop(), stop(), the destructor *)

(* Mutant: a stop request is reported as the end of ingestion. *)
RequestStopFinishes ==
  /\ owner = "ready"
  /\ started_
  /\ stop_requested' = TRUE
  /\ ingest_finished_' = TRUE
  /\ UNCHANGED <<config, owner, destroying, started_, stopped_, ingest,
                 ingestEvent, emitted, recorded, events_received_,
                 publishVars, queueVars>>

(* Before start() both calls do nothing, and so does stop() after stop().  *)
RequestStop ==
  /\ owner = "ready"
  /\ started_
  /\ stop_requested' = TRUE
  /\ UNCHANGED <<config, owner, destroying, started_, stopped_, ingestVars,
                 publishVars, queueVars>>

Stop ==
  /\ owner = "ready"
  /\ started_ /\ ~stopped_
  /\ owner' = "join_ingest"
  /\ UNCHANGED <<config, destroying, started_, stopped_, stop_requested,
                 ingestVars, publishVars, queueVars>>

(* requestStop(), then into stop() or past it. *)
Destroy ==
  /\ owner = "ready"
  /\ destroying' = TRUE
  /\ stop_requested' = (started_ \/ stop_requested)
  /\ owner' = IF started_ /\ ~stopped_ THEN "join_ingest" ELSE "destroyed"
  /\ UNCHANGED <<config, started_, stopped_, ingestVars, publishVars, queueVars>>

(* Mutant: stop() does not wait for the ingest thread. *)
IngestDetached == TRUE

(* join() returns when the thread has ended; a thread that was never       *)
(* created is not joinable and is not waited for.                          *)
IngestEnded == ingest \in {"none", "done"}

JoinIngest ==
  /\ owner = "join_ingest"
  /\ IngestEnded
  /\ ingest' = IF ingest = "done" THEN "joined" ELSE ingest
  /\ owner' = "shutdown_queue"
  /\ UNCHANGED <<config, destroying, started_, stopped_, stop_requested,
                 ingestEvent, emitted, recorded, events_received_,
                 ingest_finished_, publishVars, queueVars>>

(* Mutant: stop() forgets to shut the queue down. *)
NoShutdownQueue ==
  /\ owner = "shutdown_queue"
  /\ owner' = "join_publish"
  /\ UNCHANGED <<config, destroying, started_, stopped_, stop_requested,
                 ingestVars, publishVars, queueVars>>

ShutdownQueue ==
  /\ owner = "shutdown_queue"
  /\ queue_!Close
  /\ owner' = "join_publish"
  /\ UNCHANGED <<config, destroying, started_, stopped_, stop_requested,
                 ingestVars, publishVars>>

(* Mutant: stop() does not wait for the publish thread. *)
PublishDetached == TRUE

PublishEnded == publish \in {"none", "done"}

JoinPublish ==
  /\ owner = "join_publish"
  /\ PublishEnded
  /\ publish' = IF publish = "done" THEN "joined" ELSE publish
  /\ stopped_' = TRUE
  /\ owner' = IF destroying THEN "destroyed" ELSE "ready"
  /\ UNCHANGED <<config, destroying, started_, stop_requested, ingestVars,
                 publishEvent, handled, flushed, events_published_,
                 publish_failures_, queueVars>>

-----------------------------------------------------------------------------
(* The ingest thread: runIngest() *)

(* source_->next() is called: it looks at its stop flag first. *)
IngestNext ==
  /\ ingest = "next"
  /\ ingest' = IF stop_requested THEN "finish" ELSE "wait"
  /\ UNCHANGED <<config, ownerVars, ingestEvent, emitted, recorded,
                 events_received_, ingest_finished_, publishVars, queueVars>>

(* next() returns true; a stop() that came after it looked is too late.    *)
IngestEvent(e) ==
  /\ ingest = "wait"
  /\ Len(emitted) < MaxEvents
  /\ emitted' = Append(emitted, e)
  /\ ingestEvent' = e
  /\ ingest' = "count"
  /\ UNCHANGED <<config, ownerVars, recorded, events_received_,
                 ingest_finished_, publishVars, queueVars>>

(* next() may return false: stop() interrupts it, a file ends. *)
EndOfSource == stop_requested \/ source_ = "replay"

IngestEnd ==
  /\ ingest = "wait"
  /\ EndOfSource
  /\ ingest' = "finish"
  /\ UNCHANGED <<config, ownerVars, ingestEvent, emitted, recorded,
                 events_received_, ingest_finished_, publishVars, queueVars>>

IngestCount ==
  /\ ingest = "count"
  /\ events_received_' = events_received_ + 1
  /\ ingest' = "record"
  /\ UNCHANGED <<config, ownerVars, ingestEvent, emitted, recorded,
                 ingest_finished_, publishVars, queueVars>>

(* Mutant: no recording once a stop is requested. *)
RecordingUntilStop == optional_recorder_ /\ ~stop_requested

Recording == optional_recorder_

(* EventRecorder::record(); IngestionDemo has what becomes of the file. *)
Record(e) == Append(recorded, e)

(* The recorder if there is one, then the call of queue_.push(). *)
IngestRecord ==
  /\ ingest = "record"
  /\ recorded' = IF Recording THEN Record(ingestEvent) ELSE recorded
  /\ queue_!Call("ingest")
  /\ ingest' = "push"
  /\ UNCHANGED <<config, ownerVars, ingestEvent, emitted, events_received_,
                 ingest_finished_, publishVars>>

(* queue_.push() returns: the event was accepted, or the queue was shut    *)
(* down and the event is gone.                                             *)
IngestPush ==
  /\ ingest = "push"
  /\ IF closed
     THEN queue_!Refuse("ingest") /\ ingest' = "finish"
     ELSE queue_!Accept("ingest", ingestEvent) /\ ingest' = "next"
  /\ ingestEvent' = NoEvent
  /\ UNCHANGED <<config, ownerVars, emitted, recorded, events_received_,
                 ingest_finished_, publishVars>>

IngestFinish ==
  /\ ingest = "finish"
  /\ ingest_finished_' = TRUE
  /\ ingest' = "done"
  /\ UNCHANGED <<config, ownerVars, ingestEvent, emitted, recorded,
                 events_received_, publishVars, queueVars>>

-----------------------------------------------------------------------------
(* The publish thread: runPublish() *)

PublishPop ==
  /\ publish = "pop"
  /\ queue_!Deliver("publish")
  /\ publishEvent' = accepted[Len(delivered) + 1]
  /\ publish' = "publish"
  /\ UNCHANGED <<config, ownerVars, ingestVars, handled, flushed,
                 events_published_, publish_failures_>>

PublishEnd ==
  /\ publish = "pop"
  /\ queue_!EndOfStream("publish")
  /\ publish' = "flush"
  /\ UNCHANGED <<config, ownerVars, ingestVars, publishEvent, handled, flushed,
                 events_published_, publish_failures_>>

(* publisher_->publish() returns ok. *)
PublishCall(ok) ==
  /\ publish = "publish"
  /\ handled' = Append(handled, publishEvent)
  /\ publishEvent' = NoEvent
  /\ publish' = IF ok THEN "published" ELSE "failed"
  /\ UNCHANGED <<config, ownerVars, ingestVars, flushed, events_published_,
                 publish_failures_, queueVars>>

(* Mutant: the first failed publish() ends the loop. *)
QuitAfterFailure == "flush"

(* A failed publish() is counted and the loop goes on. *)
AfterFailure == "pop"

PublishCount ==
  /\ \/ /\ publish = "published"
        /\ events_published_' = events_published_ + 1
        /\ publish' = "pop"
        /\ UNCHANGED publish_failures_
     \/ /\ publish = "failed"
        /\ publish_failures_' = publish_failures_ + 1
        /\ publish' = AfterFailure
        /\ UNCHANGED events_published_
  /\ queue_!Call("publish")
  /\ UNCHANGED <<config, ownerVars, ingestVars, publishEvent, handled, flushed>>

(* publisher_->flush() returns, done or timed out. *)
PublishFlush ==
  /\ publish = "flush"
  /\ flushed' = TRUE
  /\ publish' = "done"
  /\ UNCHANGED <<config, ownerVars, ingestVars, publishEvent, handled,
                 events_published_, publish_failures_, queueVars>>

-----------------------------------------------------------------------------
(* main() of services/ingestion calls start(), waits for a signal or for   *)
(* ingestFinished(), and calls requestStop(), stop() and the destructor;   *)
(* here the calls after start() come in any order and at any time.         *)
OwnerCall == StartSource \/ RequestStop \/ Stop \/ Destroy

OwnerStep ==
  \/ StartIngestThread \/ StartPublishThread \/ StartThreadThrows
  \/ JoinIngest \/ ShutdownQueue \/ JoinPublish

IngestStep ==
  \/ IngestNext \/ IngestEnd \/ IngestCount \/ IngestRecord \/ IngestPush
  \/ IngestFinish

PublishStep ==
  \/ PublishPop \/ PublishEnd
  \/ \E ok \in BOOLEAN : PublishCall(ok)
  \/ PublishCount \/ PublishFlush

Next ==
  \/ OwnerCall \/ OwnerStep
  \/ IngestStep \/ (\E e \in Event : IngestEvent(e))
  \/ PublishStep

Spec == Init /\ [][Next]_vars

(* Each thread keeps running, and next() returns false after stop() or at  *)
(* the end of the file.  Nothing makes an event arrive or the owner call.  *)
Fairness == WF_vars(OwnerStep) /\ WF_vars(IngestStep) /\ WF_vars(PublishStep)

FairSpec == Spec /\ Fairness

-----------------------------------------------------------------------------
(* Safety *)

IngestPc == {"none", "next", "wait", "count", "record", "push", "finish",
             "done", "joined"}
PublishPc == {"none", "pop", "publish", "published", "failed", "flush",
              "done", "joined"}
OwnerPc == {"ready", "start_ingest", "start_publish", "join_ingest",
            "shutdown_queue", "join_publish", "destroyed"}

(* Every variable has the values its declaration allows. *)
TypeOK ==
  /\ source_ \in SourceKinds
  /\ optional_recorder_ \in BOOLEAN
  /\ owner \in OwnerPc
  /\ destroying \in BOOLEAN
  /\ started_ \in BOOLEAN
  /\ stopped_ \in BOOLEAN
  /\ ingest \in IngestPc
  /\ publish \in PublishPc
  /\ ingestEvent \in Event \cup {NoEvent}
  /\ publishEvent \in Event \cup {NoEvent}
  /\ stop_requested \in BOOLEAN
  /\ ingest_finished_ \in BOOLEAN
  /\ events_received_ \in Nat
  /\ events_published_ \in Nat
  /\ publish_failures_ \in Nat
  /\ accepted \in Seq(Event)
  /\ delivered \in Seq(Event)
  /\ closed \in BOOLEAN
  /\ highWater \in Nat
  /\ result \in [{"ingest", "publish"} -> {"none", "true", "false"}]
  /\ emitted \in Seq(Event)
  /\ recorded \in Seq(Event)
  /\ handled \in Seq(Event)
  /\ flushed \in BOOLEAN

InHand(e) == IF e = NoEvent THEN <<>> ELSE <<e>>

(* At any moment every event the source returned is, in order, either with *)
(* the publisher, in the publish thread's hands, queued, or in the ingest  *)
(* thread's hands; no interleaving of the calls drops or reorders one.     *)
Conservation ==
  emitted = handled \o InHand(publishEvent)
            \o SubSeq(accepted, Len(delivered) + 1, Len(accepted))
            \o InHand(ingestEvent)

(* push() never finds the queue shut down: stop() joins the ingest thread  *)
(* first.  The `break` in runIngest, which would drop an event, is dead.   *)
NeverRefused == result["ingest"] # "false"

(* When stop() has returned, and both threads had been created, every      *)
(* event received has been handed to the publisher, the publisher has been *)
(* flushed after the last one, and the counters add up.                    *)
StoppedClean ==
  stopped_ /\ publish # "none" =>
    /\ handled = emitted
    /\ flushed
    /\ events_received_ = Len(emitted)
    /\ events_published_ + publish_failures_ = Len(emitted)

(* What the recorder wrote is what the source returned, up to the one      *)
(* event that is between next() and record().                              *)
RecorderFaithful ==
  optional_recorder_ =>
    emitted = recorded \o (IF ingest \in {"count", "record"} THEN <<ingestEvent>> ELSE <<>>)

(* The destructor leaves no thread behind: whatever was called before it,  *)
(* and whatever start() failed at, neither std::thread is joinable when it *)
(* is destroyed (which would call std::terminate) and none is running.     *)
DestroyedQuiet ==
  owner = "destroyed" =>
    ingest \in {"none", "joined"} /\ publish \in {"none", "joined"}

(* ingestFinished() is final: once it returned true nothing more is        *)
(* received, queued or recorded.                                           *)
FinishedIsFinal ==
  [][ingest_finished_ => ingest_finished_' /\ UNCHANGED <<emitted, accepted,
                                               recorded, events_received_>>]_vars

-----------------------------------------------------------------------------
(* Liveness, under FairSpec *)

(* start() failed between the two threads: nobody will drain the queue.    *)
Undrained == ingest # "none" /\ publish = "none" /\ owner # "start_publish"

(* The destructor ends, after a start() that failed halfway too, with one  *)
(* exception: the publish thread could not be created, and the ingest      *)
(* thread waits in push() on the full queue, which nobody will drain or    *)
(* shut down.                                                              *)
DestructionTerminates ==
  destroying ~>
    \/ owner = "destroyed"
    \/ Undrained /\ ingest = "push" /\ Len(accepted) - Len(delivered) >= Capacity

(* Every event received reaches the publisher, whatever the owner does or  *)
(* does not do, unless the publish thread could not be created.            *)
EveryEventHandled ==
  \A n \in 1..MaxEvents : Len(emitted) >= n ~> Len(handled) >= n \/ Undrained
=============================================================================
