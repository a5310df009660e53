--------------------------- MODULE IngestionDemo ---------------------------
(***************************************************************************)
(* The capture tool (src/ingestion_demo_main.cpp) over several runs of the *)
(* process: a run captures live messages, or replays the capture and may   *)
(* copy it; a signal, a kill, a full disk or an exception can come at any  *)
(* time, and the files are what the next run finds.                        *)
(*                                                                         *)
(* The ingestion thread loops over next() and record(); the main thread    *)
(* polls g_shutdown_requested, calls stop() and joins.  In replay mode     *)
(* next() is ReplaySource's, whose file is the capture.  In live mode it   *)
(* is LiveSource's, reduced to its loop over the stop request, the arrival *)
(* of a message and the parser (LiveSource has the connection); in_ is     *)
(* then good as long as the process runs.                                  *)
(***************************************************************************)
EXTENDS BinanceTradeParser, EventRecorder, ReplaySource

CONSTANTS
  Messages,      \* texts that arrive from the provider
  LiveStops,     \* LiveSource::next() returns after stop(), see LiveSource
  MaxMessages,   \* bound: messages that arrive in all runs
  MaxRuns        \* bound: runs of the process

(* The capture may exist before the first run (Files), without an event of *)
(* ours.  A message has JSON's integers, and a price that FromChars knows. *)
ASSUME DemoAssumption ==
  /\ LiveStops \in BOOLEAN
  /\ \A f \in Files : \A i \in DOMAIN f : marketEventFromJson(f[i]) = <<>>
  /\ \A text \in Messages :
       text.is = "object" /\ Has(text.fields, "data", {"object"}) =>
         LET data == text.fields["data"][2] IN
         /\ \A k \in DOMAIN data : data[k][1] = "integer" => data[k][2] \in JsonInteger
         /\ Has(data, "p", {"string"}) => data["p"][2] \in DOMAIN FromChars

Path == {"capture", "copy"}

VARIABLES
  torn,                 \* the last line of the capture lacks its newline
  copy,                 \* the other file
  main,                 \* where the main thread is; "off": no process
  worker,               \* the ingestion thread: none, call, next or done
  mode,                 \* the source: live or replay
  record_path,          \* none, capture or copy
  out_,                 \* the recorder's stream: good or bad
  g_shutdown_requested,
  arrived,              \* history: messages that arrived
  runs,                 \* history: runs of the process
  kept,                 \* history: per file, events recorded without error
  tears                 \* history: per file, writes that were cut short

args == <<mode, record_path>>
source == <<stream, stop_requested_, lines_malformed_, call>>
disk == <<file, torn, copy, kept, tears>>
demoVars == <<disk, main, worker, args, out_, g_shutdown_requested, source, arrived, runs>>

(* The two files, and f in the place of one of them. *)
files == [capture |-> [lines |-> file, torn |-> torn], copy |-> copy]

Replace(p, f) ==
  IF p = "capture" THEN file' = f.lines /\ torn' = f.torn /\ UNCHANGED copy
  ELSE copy' = f /\ UNCHANGED <<file, torn>>

DemoInit ==
  /\ Init
  /\ torn = FALSE /\ copy = NoFile
  /\ main = "off" /\ worker = "none"
  /\ mode = "live" /\ record_path = "none" /\ out_ = "good"
  /\ g_shutdown_requested = FALSE
  /\ arrived = 0
  /\ runs = 0
  /\ kept = [p \in Path |-> <<>>]
  /\ tears = [p \in Path |-> 0]

(* The process ends, and its memory with it. *)
Gone ==
  /\ main' = "off" /\ worker' = "none"
  /\ mode' = "live" /\ record_path' = "none" /\ out_' = "good"
  /\ g_shutdown_requested' = FALSE
  /\ in_' = "closed" /\ pos' = 0 /\ stop_requested_' = FALSE
  /\ lines_malformed_' = 0
  /\ reader' = "idle" /\ outcome' = "none" /\ returned' = <<>>

-----------------------------------------------------------------------------
(* The main thread *)

(* Arguments, recorder, source->start() and the thread.  A recorder or a   *)
(* replay file that cannot be opened ends the process before it did        *)
(* anything.  The file being replayed is not recorded to as well.          *)
Run(m, r) ==
  /\ main = "off"
  /\ runs < MaxRuns
  /\ ~(m = "replay" /\ r = "capture")
  /\ runs' = runs + 1
  /\ mode' = m /\ record_path' = r
  /\ IF r = "none" THEN UNCHANGED <<file, torn, copy>> ELSE Replace(r, Open(files[r]))
  /\ in_' = "good"
  /\ main' = "poll"
  /\ worker' = "call"
  /\ UNCHANGED <<kept, tears, out_, g_shutdown_requested, pos, stop_requested_,
                 lines_malformed_, reader, outcome, returned, arrived>>

handleSignal ==
  /\ main # "off"
  /\ g_shutdown_requested' = TRUE
  /\ UNCHANGED <<disk, main, worker, args, out_, source, arrived, runs>>

(* The loop has seen the flag: source->stop(). *)
MainStop ==
  /\ main = "poll"
  /\ g_shutdown_requested
  /\ Stop
  /\ main' = "join"
  /\ UNCHANGED <<disk, worker, args, out_, g_shutdown_requested, arrived, runs>>

MainExit ==
  /\ main = "join"
  /\ worker = "done"
  /\ Gone
  /\ UNCHANGED <<disk, arrived, runs>>

-----------------------------------------------------------------------------
(* The ingestion thread *)

WorkerCall ==
  /\ worker = "call"
  /\ NextCall
  /\ worker' = "next"
  /\ UNCHANGED <<disk, main, args, out_, g_shutdown_requested, arrived, runs>>

(* The steps of next() that need nothing from the network. *)
WorkerNext ==
  /\ worker = "next"
  /\ \/ LoopStop \/ LoopGo
     \/ /\ mode = "replay"
        /\ ReadEnd \/ ReadSkipped \/ ReadThrows \/ ReadEvent
  /\ UNCHANGED <<disk, main, worker, args, out_, g_shutdown_requested, arrived, runs>>

(* A read or a connection attempt of LiveSource ends, and next() finds     *)
(* that stop() was called.                                                 *)
LiveInterrupted ==
  /\ worker = "next" /\ mode = "live" /\ reader = "getline"
  /\ stop_requested_
  /\ Return("false")
  /\ UNCHANGED <<in_, pos, stop_requested_, lines_malformed_, returned>>
  /\ UNCHANGED <<disk, main, worker, args, out_, g_shutdown_requested, arrived, runs>>

(* A message arrives and is an event, malformed, or the end of the process. *)
LiveMessage(text) ==
  /\ worker = "next" /\ mode = "live" /\ reader = "getline"
  /\ arrived < MaxMessages
  /\ arrived' = arrived + 1
  /\ \/ /\ text.is = "overflow"
        /\ reader' = "aborted"
        /\ UNCHANGED <<outcome, returned>>
     \/ /\ text.is # "overflow" /\ parseBinanceTradeMessage(text) = <<>>
        /\ reader' = "loop"
        /\ UNCHANGED <<outcome, returned>>
     \/ /\ text.is # "overflow" /\ parseBinanceTradeMessage(text) # <<>>
        /\ returned' = returned \o parseBinanceTradeMessage(text)
        /\ Return("true")
  /\ UNCHANGED <<disk, main, worker, args, out_, g_shutdown_requested, in_, pos,
                 stop_requested_, lines_malformed_, runs>>

(* next() has returned an event, which record() is to get. *)
InHand == worker = "next" /\ reader = "idle" /\ outcome = "true"
event == returned[Len(returned)]
Recording == record_path # "none" /\ out_ = "good"

WorkerRecord ==
  /\ InHand
  /\ IF Recording
     THEN /\ Replace(record_path, Record(files[record_path], event))
          /\ kept' = [kept EXCEPT ![record_path] = Append(@, event)]
     ELSE UNCHANGED <<file, torn, copy, kept>>
  /\ worker' = "call"
  /\ UNCHANGED <<tears, main, args, out_, g_shutdown_requested, source, arrived, runs>>

(* A write that is cut short leaves f behind. *)
Tear(f) ==
  /\ Replace(record_path, f)
  /\ tears' = [tears EXCEPT ![record_path] = @ + 1]
  /\ UNCHANGED kept

RecordFails ==
  /\ InHand /\ Recording
  /\ \E f \in RecordTorn(files[record_path], event) : Tear(f)
  /\ out_' = "bad"
  /\ worker' = "call"
  /\ UNCHANGED <<main, args, g_shutdown_requested, source, arrived, runs>>

(* Mutant: the end of the source is not reported to the main thread. *)
WorkerFinishSilent ==
  /\ worker = "next" /\ reader = "idle" /\ outcome = "false"
  /\ worker' = "done"
  /\ UNCHANGED <<disk, main, args, out_, g_shutdown_requested, source, arrived, runs>>

WorkerFinish ==
  /\ worker = "next" /\ reader = "idle" /\ outcome = "false"
  /\ g_shutdown_requested' = TRUE
  /\ worker' = "done"
  /\ UNCHANGED <<disk, main, args, out_, source, arrived, runs>>

-----------------------------------------------------------------------------
(* The process dies: killed, perhaps within record() ... *)
Kill ==
  /\ main # "off"
  /\ IF InHand /\ Recording
     THEN \E f \in RecordTorn(files[record_path], event) : Tear(f)
     ELSE UNCHANGED disk
  /\ Gone
  /\ UNCHANGED <<arrived, runs>>

(* ... or because of an exception that nothing catches. *)
Terminate ==
  /\ reader = "aborted"
  /\ Gone
  /\ UNCHANGED <<disk, arrived, runs>>

-----------------------------------------------------------------------------
MainStep == MainStop \/ MainExit
WorkerStep == WorkerCall \/ WorkerNext \/ WorkerRecord \/ RecordFails \/ WorkerFinish

DemoNext ==
  \/ \E m \in {"live", "replay"}, r \in Path \cup {"none"} : Run(m, r)
  \/ handleSignal \/ Kill
  \/ MainStep \/ WorkerStep \/ Terminate
  \/ LiveInterrupted \/ \E text \in Messages : LiveMessage(text)

DemoSpec == DemoInit /\ [][DemoNext]_demoVars

(* The two threads run, and an exception that escapes ends the process.    *)
(* That stop() ends a wait for the network is not taken for granted: where *)
(* LiveSource runs on a system whose close() wakes a recv(), and its       *)
(* handshakes end, it does.                                                *)
DemoFairness ==
  /\ WF_demoVars(MainStep) /\ WF_demoVars(WorkerStep) /\ WF_demoVars(Terminate)
  /\ LiveStops => WF_demoVars(LiveInterrupted)

DemoFairSpec == DemoSpec /\ DemoFairness

-----------------------------------------------------------------------------
(* The lines that a reader of the file takes for events, and the events    *)
(* recorded without error whose price JSON can hold.                       *)
Readable(p) ==
  {i \in DOMAIN files[p].lines : marketEventFromJson(files[p].lines[i]) # <<>>}

Recorded(p) == {k \in DOMAIN kept[p] : kept[p][k].price[1] = "finite"}

(* What should become of a recorded event: its time in milliseconds.       *)
WholeMs(t) == IF t >= 0 THEN t - (t % Scale) ELSE t + ((-t) % Scale)

AsRead(e) == [e EXCEPT !.event_time = WholeMs(@)]

(* An event that was recorded without error stays in the file, whatever    *)
(* runs, kills and failed writes come later, except that each write that   *)
(* was cut short can take one event with it: the first of the next run,    *)
(* which is appended to the torn line.  Without one the file is exact.     *)
CaptureComplete ==
  \A p \in Path :
    /\ Cardinality(Recorded(p)) <= Cardinality(Readable(p)) + tears[p]
    /\ tears[p] = 0 =>
         /\ Cardinality(Readable(p)) = Cardinality(Recorded(p))
         /\ \A i \in Readable(p), k \in Recorded(p) :
              Rank(Readable(p), i) = Rank(Recorded(p), k) =>
                marketEventFromJson(files[p].lines[i]) = << AsRead(kept[p][k]) >>

(* From the provider's message through parser, recorder and file to        *)
(* another process: a replay returns the captured events in order, all of  *)
(* them if it was not stopped, and counts as malformed only the lines of   *)
(* events whose price was not finite, beside those that were malformed     *)
(* before the first run.                                                   *)
ReplayMatchesCapture ==
  mode = "replay" /\ tears["capture"] = 0 =>
    LET ours == Recorded("capture")
        before == 1..(Len(file) - Len(kept["capture"]))
    IN  /\ Len(returned) <= Cardinality(ours)
        /\ \A k \in ours : Rank(ours, k) <= Len(returned) =>
             returned[Rank(ours, k)] = AsRead(kept["capture"][k])
        /\ outcome = "false" /\ ~stop_requested_ => Len(returned) = Cardinality(ours)
        /\ lines_malformed_ <= Cardinality({i \in before : Malformed(file[i])})
                               + Len(kept["capture"]) - Cardinality(ours)

(* The end of the replayed file ends the process, and so does a signal     *)
(* while it captures, provided that LiveSource::next() returns after       *)
(* stop().                                                                 *)
DemoEnds ==
  main = "poll" /\ (mode = "replay" \/ (g_shutdown_requested /\ LiveStops)) ~> main = "off"
=============================================================================
