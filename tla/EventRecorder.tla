--------------------------- MODULE EventRecorder ---------------------------
(***************************************************************************)
(* EventRecorder (include/tickforge/event_recorder.hpp,                    *)
(* src/event_recorder.cpp): what its calls do to the capture file.  A file *)
(* has lines, and `torn` says that its last line lacks the newline; what   *)
(* is appended then ends up in that line and spoils it.                    *)
(***************************************************************************)
EXTENDS MarketEventJson

NoFile == [lines |-> <<>>, torn |-> FALSE]

Garbage == [is |-> "garbage"]

(* Mutant: the file is opened for writing instead of appending. *)
OpenTruncates(f) == NoFile

(* The constructor: std::ios::app keeps what is there. *)
Open(f) == f

AppendText(f, text, torn) ==
  [lines |-> IF f.torn THEN [f.lines EXCEPT ![Len(f.lines)] = Garbage]
             ELSE Append(f.lines, text),
   torn |-> torn]

(* Mutant: the newline separates lines instead of ending them. *)
RecordUnended(f, event) == AppendText(f, marketEventToJson(event), TRUE)

(* record(): the line and its newline, flushed. *)
Record(f, event) == AppendText(f, marketEventToJson(event), FALSE)

(* The write fails or is cut short: nothing, a part of the line, or all of *)
(* it but the newline is in the file.  The stream is bad from then on, and *)
(* record() does nothing without saying so.                                *)
RecordTorn(f, event) ==
  {f, AppendText(f, Garbage, TRUE), AppendText(f, marketEventToJson(event), TRUE)}
=============================================================================
