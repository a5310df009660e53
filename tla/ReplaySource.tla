---------------------------- MODULE ReplaySource ----------------------------
(***************************************************************************)
(* ReplaySource (include/tickforge/replay_source.hpp,                      *)
(* src/replay_source.cpp): next() reads a capture file line by line and    *)
(* skips what is not an event; another thread may call stop().  start() is *)
(* called before next(), and possibly again: the stream is then already    *)
(* open, so open() fails, start() throws, and the stream is left failed.   *)
(* Neither the stop request nor the end of the file is ever withdrawn.     *)
(***************************************************************************)
EXTENDS MarketEventJson, FiniteSets

CONSTANT Files  \* the capture files to consider: sequences of lines

(* What JSON keeps as an integer is one of its integers. *)
ASSUME FilesAssumption ==
  \A f \in Files :
    /\ f \in Seq({f[i] : i \in DOMAIN f})
    /\ \A i \in DOMAIN f : f[i].is = "object" =>
         \A k \in DOMAIN f[i].fields :
           f[i].fields[k][1] = "integer" => f[i].fields[k][2] \in JsonInteger

VARIABLES
  file,             \* lines of the file at path_
  in_,              \* the stream: closed, good or failed
  pos,              \* lines read from it
  stop_requested_,
  lines_malformed_,
  reader,           \* where the thread in next() is
  outcome,          \* what next() returned last
  returned          \* history: events returned

stream == <<in_, pos>>
call == <<reader, outcome, returned>>
vars == <<file, stream, stop_requested_, lines_malformed_, call>>

Init ==
  /\ file \in Files
  /\ in_ = "closed"
  /\ pos = 0
  /\ stop_requested_ = FALSE
  /\ lines_malformed_ = 0
  /\ reader = "idle"
  /\ outcome = "none"
  /\ returned = <<>>

-----------------------------------------------------------------------------
(* Mutant: start() withdraws an earlier stop(), as LiveSource's does. *)
StartAfresh ==
  /\ reader = "idle"
  /\ stop_requested_' = FALSE
  /\ in_' = "good"
  /\ UNCHANGED <<pos, lines_malformed_, call>>

(* A file that cannot be opened leaves everything as it was. *)
Start ==
  /\ reader = "idle"
  /\ in_' = IF in_ = "closed" THEN "good" ELSE "failed"
  /\ UNCHANGED <<pos, stop_requested_, lines_malformed_, call>>

Stop ==
  /\ stop_requested_' = TRUE
  /\ UNCHANGED <<stream, lines_malformed_, call>>

NextCall ==
  /\ reader = "idle"
  /\ in_ # "closed"
  /\ reader' = "enter"
  /\ outcome' = "none"
  /\ UNCHANGED <<stream, stop_requested_, lines_malformed_, returned>>

Return(r) == reader' = "idle" /\ outcome' = r

(* The loop condition: first the stop request ... *)
LoopStop ==
  /\ reader \in {"enter", "loop"}
  /\ stop_requested_
  /\ Return("false")
  /\ UNCHANGED <<stream, stop_requested_, lines_malformed_, returned>>

(* Mutant: the stop request is not looked at before reading. *)
LoopGoUnasked ==
  /\ reader \in {"enter", "loop"}
  /\ reader' = "getline"
  /\ UNCHANGED <<stream, stop_requested_, lines_malformed_, outcome, returned>>

LoopGo ==
  /\ reader \in {"enter", "loop"}
  /\ ~stop_requested_
  /\ reader' = "getline"
  /\ UNCHANGED <<stream, stop_requested_, lines_malformed_, outcome, returned>>

(* ... then std::getline(). *)
AtEnd == in_ = "failed" \/ pos = Len(file)

ReadEnd ==
  /\ reader = "getline"
  /\ AtEnd
  /\ in_' = "failed"
  /\ Return("false")
  /\ UNCHANGED <<pos, stop_requested_, lines_malformed_, returned>>

(* Mutant: an empty line is malformed like any other. *)
SkippedNever(line) == FALSE

Skipped(line) == line.is = "empty"

(* parse() fails, or the JSON is not an event. *)
Malformed(line) ==
  line.is # "overflow" /\ ~Skipped(line) /\ marketEventFromJson(line) = <<>>

ReadSkipped ==
  /\ reader = "getline"
  /\ ~AtEnd
  /\ \/ Skipped(file[pos + 1]) /\ UNCHANGED lines_malformed_
     \/ Malformed(file[pos + 1]) /\ lines_malformed_' = lines_malformed_ + 1
  /\ pos' = pos + 1
  /\ reader' = "loop"
  /\ UNCHANGED <<in_, stop_requested_, outcome, returned>>

(* json::out_of_range leaves next() and the thread: the process ends. *)
ReadThrows ==
  /\ reader = "getline"
  /\ ~AtEnd
  /\ file[pos + 1].is = "overflow"
  /\ pos' = pos + 1
  /\ reader' = "aborted"
  /\ UNCHANGED <<in_, stop_requested_, lines_malformed_, outcome, returned>>

ReadEvent ==
  /\ reader = "getline"
  /\ ~AtEnd
  /\ marketEventFromJson(file[pos + 1]) # <<>>
  /\ pos' = pos + 1
  /\ returned' = returned \o marketEventFromJson(file[pos + 1])
  /\ Return("true")
  /\ UNCHANGED <<in_, stop_requested_, lines_malformed_>>

-----------------------------------------------------------------------------
ReaderStep ==
  LoopStop \/ LoopGo \/ ReadEnd \/ ReadSkipped \/ ReadThrows \/ ReadEvent

Next ==
  /\ reader # "aborted"
  /\ Start \/ Stop \/ NextCall \/ ReaderStep
  /\ UNCHANGED file

Spec == Init /\ [][Next]_vars

-----------------------------------------------------------------------------
(* Which one of the numbers in S i is. *)
Rank(S, i) == Cardinality({j \in S : j <= i})

(* Each line read was returned as an event, counted as malformed, skipped  *)
(* because it was empty, or ended the process because its number made      *)
(* parse() throw what next() does not catch.  The events came in file      *)
(* order, none twice, one malformed line cost one line, and nothing was    *)
(* read after a line that threw, wherever stop() and start() came.         *)
ReplayFaithful ==
  LET good == {i \in 1..pos : marketEventFromJson(file[i]) # <<>>}
      bad == {i \in 1..pos \ good : file[i].is \notin {"empty", "overflow"}}
  IN  /\ Len(returned) = Cardinality(good)
      /\ \A i \in good : marketEventFromJson(file[i]) = << returned[Rank(good, i)] >>
      /\ lines_malformed_ = Cardinality(bad)
      /\ \A i \in 1..pos : file[i].is = "overflow" => i = pos /\ reader = "aborted"

(* False is final, "no more events will ever come": after next() returned  *)
(* false, or stop() was called, no later call returns an event, not even   *)
(* after another start().                                                  *)
Over == (reader # "getline" /\ stop_requested_) \/ in_ = "failed"
FalseIsFinal ==
  [][(Over => Over' /\ returned' = returned) /\ (outcome' = "false" => Over')]_vars

(* ReplaySource keeps the promise of MarketDataSource. *)
Source ==
  INSTANCE MarketDataSource
    WITH Ends <- TRUE,
         caller <- CASE reader = "idle" -> "idle"
                     [] reader = "enter" -> "called"
                     [] OTHER -> "open",
         stop_requested <- stop_requested_

SourceSpec == Source!Spec

(* An event that was replayed survives being recorded and replayed again,  *)
(* however odd the line it came from: nothing changes but its time, which  *)
(* loses what is below a millisecond, and that only if the time in the     *)
(* file overflowed.  (Recorded once more it no longer changes at all.)     *)
RecaptureStable ==
  \A i \in DOMAIN returned :
    LET e == returned[i]
        again == marketEventFromJson(marketEventToJson(e))
    IN  /\ again = << [e EXCEPT !.event_time = MsFromTime(e.event_time) * Scale] >>
        /\ \/ again = <<e>>
           \/ \E k \in 1..pos :
                LET ms == Signed(file[k].fields["event_time_ms"][2])
                IN  /\ marketEventFromJson(file[k]) = <<e>>
                    /\ ms * Scale \notin -(2^(W - 1)) .. (2^(W - 1) - 1)
=============================================================================
