----------------------------- MODULE LiveSource -----------------------------
(***************************************************************************)
(* LiveSource (include/tickforge/live_source.hpp, src/live_source.cpp):    *)
(* the thread that calls next() connects, reads, and reconnects with       *)
(* backoff; another thread calls stop(), which sets a flag and force-      *)
(* closes the socket.  ws_mutex_ guards the replacement of the connection, *)
(* never the blocking calls.                                               *)
(*                                                                         *)
(* The network is the environment: connecting succeeds or fails, a         *)
(* connection breaks at any time, messages arrive or do not.  Two facts    *)
(* about it are parameters.  CloseWakesRecv: whether closing a socket ends *)
(* a recv() that another thread is blocked in (on Linux, where the project *)
(* is built, close() does not, and only data, an error or shutdown(2)      *)
(* would).  HandshakeEnds: whether resolve, connect and the two handshakes *)
(* always return (they are called without a timeout).                      *)
(***************************************************************************)
EXTENDS Naturals

CONSTANTS
  InitialBackoff,  \* config_.initial_backoff
  MaxBackoff,      \* config_.max_backoff
  CloseWakesRecv,
  HandshakeEnds,
  MaxMessages,     \* bound: messages received
  MaxConnects,     \* bound: successful connects
  MaxFailures      \* bound: failures counted by the history variable

ASSUME LiveAssumption ==
  /\ InitialBackoff \in Nat /\ MaxBackoff \in Nat
  /\ CloseWakesRecv \in BOOLEAN /\ HandshakeEnds \in BOOLEAN
  /\ MaxMessages \in Nat /\ MaxConnects \in Nat /\ MaxFailures \in Nat

VARIABLES
  reader,              \* where the thread in next() is
  stopper,             \* where the thread in stop() is
  outcome,             \* what next() returned last
  stop_requested_,
  connected_,
  ws_,                 \* the connection: none, open, broken or closed
  ws_mutex_,           \* owner, or "free"
  backoff,             \* local of ensureConnected()
  had_connected_once_,
  messages_received_,
  messages_malformed_,
  reconnects_,
  connects,            \* history: successful connects
  failures,            \* history: failed attempts of this ensureConnected()
  returned,            \* history: events returned
  stopDone             \* history: stop() has returned since the last start()

counts == <<messages_received_, messages_malformed_, returned>>
connection == <<connected_, ws_, had_connected_once_, reconnects_, connects>>
retry == <<backoff, failures>>
stopping == <<stopper, stop_requested_, stopDone>>
vars == <<reader, outcome, ws_mutex_, counts, connection, retry, stopping>>

Min(a, b) == IF a < b THEN a ELSE b

Init ==
  /\ reader = "idle"
  /\ stopper = "idle"
  /\ outcome = "none"
  /\ stop_requested_ = FALSE
  /\ connected_ = FALSE
  /\ ws_ = "none"
  /\ ws_mutex_ = "free"
  /\ backoff = InitialBackoff
  /\ had_connected_once_ = FALSE
  /\ messages_received_ = 0
  /\ messages_malformed_ = 0
  /\ reconnects_ = 0
  /\ connects = 0
  /\ failures = 0
  /\ returned = 0
  /\ stopDone = FALSE

Return(r) == reader' = "idle" /\ outcome' = r

-----------------------------------------------------------------------------
(* start(), before the next call of next() *)
Start ==
  /\ reader = "idle"
  /\ stopper = "idle"
  /\ stop_requested_' = FALSE
  /\ stopDone' = FALSE
  /\ UNCHANGED <<reader, outcome, ws_mutex_, counts, connection, retry, stopper>>

(* stop(): the flag, without the mutex ... *)
StopFlag ==
  /\ stopper = "idle"
  /\ reader # "aborted"
  /\ stop_requested_' = TRUE
  /\ stopper' = "close"
  /\ UNCHANGED <<reader, outcome, ws_mutex_, counts, connection, retry, stopDone>>

(* Mutant: the flag alone is taken to be enough. *)
StopNoClose ==
  /\ stopper = "close"
  /\ stopper' = "idle"
  /\ stopDone' = TRUE
  /\ UNCHANGED <<reader, outcome, ws_mutex_, counts, retry, stop_requested_,
                 connection>>

(* Mutant: stop() destroys the connection instead of closing it. *)
StopCloseReset ==
  /\ stopper = "close"
  /\ ws_mutex_ = "free"
  /\ ws_' = "none"
  /\ stopper' = "idle"
  /\ stopDone' = TRUE
  /\ UNCHANGED <<reader, outcome, ws_mutex_, counts, retry, stop_requested_,
                 connected_, had_connected_once_, reconnects_, connects>>

(* ... then, with it, the close of the connection if there is one. *)
StopClose ==
  /\ stopper = "close"
  /\ reader # "aborted"
  /\ ws_mutex_ = "free"
  /\ ws_' = IF ws_ = "none" THEN ws_ ELSE "closed"
  /\ stopper' = "idle"
  /\ stopDone' = TRUE
  /\ UNCHANGED <<reader, outcome, ws_mutex_, counts, retry, stop_requested_,
                 connected_, had_connected_once_, reconnects_, connects>>

-----------------------------------------------------------------------------
(* next(): the loop and ensureConnected() *)

NextCall ==
  /\ reader = "idle"
  /\ reader' = "enter"
  /\ outcome' = "none"
  /\ UNCHANGED <<ws_mutex_, counts, connection, retry, stopping>>

(* The loop condition, then connected_ is tested. *)
LoopStop ==
  /\ reader \in {"enter", "loop"}
  /\ stop_requested_
  /\ Return("false")
  /\ UNCHANGED <<ws_mutex_, counts, connection, retry, stopping>>

LoopGo ==
  /\ reader \in {"enter", "loop"}
  /\ ~stop_requested_
  /\ reader' = IF connected_ THEN "take" ELSE "connect_loop"
  /\ backoff' = InitialBackoff
  /\ failures' = 0
  /\ UNCHANGED <<outcome, ws_mutex_, counts, connection, stopping>>

(* The loop of ensureConnected(), and what next() makes of its false.      *)
ConnectLoop ==
  /\ reader = "connect_loop"
  /\ IF stop_requested_ THEN Return("false")
     ELSE reader' = "connecting" /\ UNCHANGED outcome
  /\ UNCHANGED <<ws_mutex_, counts, connection, retry, stopping>>

(* connectOnce(): resolve, connect or a handshake throws. *)
ConnectThrows ==
  /\ reader = "connecting"
  /\ connected_' = FALSE
  /\ failures' = Min(failures + 1, MaxFailures)
  /\ reader' = "connect_failed"
  /\ UNCHANGED <<outcome, ws_mutex_, counts, ws_, had_connected_once_,
                 reconnects_, connects, backoff, stopping>>

(* Mutant: stop_requested_ is not tested before the connection is published. *)
DiscardNever == FALSE

(* "stop() ran while we were mid-handshake; discard this connection" *)
Discard == stop_requested_

(* Everything connected: take the mutex and look for a stop(). *)
ConnectDone ==
  /\ reader = "connecting"
  /\ connects < MaxConnects
  /\ ws_mutex_ = "free"
  /\ IF Discard
     THEN reader' = "connect_failed" /\ UNCHANGED ws_mutex_
     ELSE reader' = "emplace" /\ ws_mutex_' = "reader"
  /\ UNCHANGED <<outcome, counts, connection, retry, stopping>>

(* Publish the connection, release the mutex, count a reconnect. *)
ConnectEmplace ==
  /\ reader = "emplace"
  /\ ws_' = "open"
  /\ connected_' = TRUE
  /\ ws_mutex_' = "free"
  /\ connects' = connects + 1
  /\ reconnects_' = IF had_connected_once_ THEN reconnects_ + 1 ELSE reconnects_
  /\ had_connected_once_' = TRUE
  /\ reader' = "take"
  /\ UNCHANGED <<outcome, counts, retry, stopping>>

ConnectFailed ==
  /\ reader = "connect_failed"
  /\ IF stop_requested_ THEN Return("false")
     ELSE reader' = "backoff" /\ UNCHANGED outcome
  /\ UNCHANGED <<ws_mutex_, counts, connection, retry, stopping>>

(* Mutant: the cap is forgotten. *)
DoubleUncapped(b) == b * 2

Double(b) == Min(b * 2, MaxBackoff)

(* Mutant: the last backoff ends the retries. *)
BackoffGivesUp ==
  /\ reader = "backoff"
  /\ backoff' = Double(backoff)
  /\ IF failures = MaxFailures THEN Return("false")
     ELSE reader' = "connect_loop" /\ UNCHANGED outcome
  /\ UNCHANGED <<ws_mutex_, counts, connection, failures, stopping>>

(* sleep_for(backoff) is over. *)
BackoffSleep ==
  /\ reader = "backoff"
  /\ backoff' = Double(backoff)
  /\ reader' = "connect_loop"
  /\ UNCHANGED <<outcome, ws_mutex_, counts, connection, failures, stopping>>

-----------------------------------------------------------------------------
(* next(): reading *)

(* Under the mutex, take the address of the connection. *)
TakeStream ==
  /\ reader = "take"
  /\ ws_mutex_ = "free"
  /\ IF ws_ = "none" THEN reader' = "loop" /\ connected_' = FALSE
     ELSE reader' = "read" /\ UNCHANGED connected_
  /\ UNCHANGED <<outcome, ws_mutex_, counts, ws_, had_connected_once_,
                 reconnects_, connects, retry, stopping>>

(* stream->read() on a closed or broken socket fails at once; on an open   *)
(* one it blocks in recv().                                                *)
ReadBegin ==
  /\ reader = "read"
  /\ reader' = IF ws_ = "open" THEN "recv" ELSE "read_failed"
  /\ UNCHANGED <<outcome, ws_mutex_, counts, connection, retry, stopping>>

(* The other side or the network ends the connection. *)
RecvError ==
  /\ reader = "recv"
  /\ ws_' = IF ws_ = "open" THEN "broken" ELSE ws_
  /\ reader' = "read_failed"
  /\ UNCHANGED <<outcome, ws_mutex_, counts, connected_, had_connected_once_,
                 reconnects_, connects, retry, stopping>>

(* The close in stop() ends the blocked recv(), where the system does that. *)
RecvInterrupted ==
  /\ reader = "recv"
  /\ ws_ = "closed"
  /\ CloseWakesRecv
  /\ reader' = "read_failed"
  /\ UNCHANGED <<outcome, ws_mutex_, counts, connection, retry, stopping>>

(* Mutant: a read error ends next(), whoever caused it. *)
GiveUp == TRUE

(* After a failed read: only a stop() ends next(). *)
StopSeen == stop_requested_

ReadFailed ==
  /\ reader = "read_failed"
  /\ connected_' = FALSE
  /\ IF StopSeen THEN Return("false")
     ELSE reader' = "loop" /\ UNCHANGED outcome
  /\ UNCHANGED <<ws_mutex_, counts, ws_, had_connected_once_, reconnects_,
                 connects, retry, stopping>>

(* A message arrives and is counted; parsing follows. *)
RecvMessage ==
  /\ reader = "recv"
  /\ messages_received_ < MaxMessages
  /\ messages_received_' = messages_received_ + 1
  /\ reader' = "parse"
  /\ UNCHANGED <<outcome, ws_mutex_, messages_malformed_, returned, connection,
                 retry, stopping>>

(* Mutant: a malformed message is handed out. *)
ParseMalformedReturns ==
  /\ reader = "parse"
  /\ messages_malformed_' = messages_malformed_ + 1
  /\ returned' = returned + 1
  /\ Return("true")
  /\ UNCHANGED <<ws_mutex_, messages_received_, connection, retry, stopping>>

(* One bad message costs one message, not the connection. *)
ParseMalformed ==
  /\ reader = "parse"
  /\ messages_malformed_' = messages_malformed_ + 1
  /\ reader' = "loop"
  /\ UNCHANGED <<outcome, ws_mutex_, messages_received_, returned, connection,
                 retry, stopping>>

(* A number beyond double's range: json::out_of_range leaves the parser,   *)
(* next() and the thread, and the process ends.                            *)
ParseThrows ==
  /\ reader = "parse"
  /\ reader' = "aborted"
  /\ UNCHANGED <<outcome, ws_mutex_, counts, connection, retry, stopping>>

ParseEvent ==
  /\ reader = "parse"
  /\ returned' = returned + 1
  /\ Return("true")
  /\ UNCHANGED <<ws_mutex_, messages_received_, messages_malformed_, connection,
                 retry, stopping>>

-----------------------------------------------------------------------------
(* The steps of next() that need nothing from the network. *)
ReaderStep ==
  \/ LoopStop \/ LoopGo \/ ConnectLoop \/ ConnectEmplace \/ ConnectFailed
  \/ BackoffSleep \/ TakeStream \/ ReadBegin \/ RecvInterrupted \/ ReadFailed
  \/ ParseMalformed \/ ParseThrows \/ ParseEvent

Connecting == ConnectThrows \/ ConnectDone

Next ==
  \/ Start \/ StopFlag \/ StopClose \/ NextCall
  \/ ReaderStep \/ Connecting \/ RecvError \/ RecvMessage

Spec == Init /\ [][Next]_vars

(* Both threads keep running; a connection attempt ends where the network  *)
(* lets it.  No message has to arrive and no connection has to break.      *)
Fairness ==
  /\ WF_vars(StopClose)
  /\ WF_vars(ReaderStep)
  /\ HandshakeEnds => WF_vars(Connecting)

FairSpec == Spec /\ Fairness

-----------------------------------------------------------------------------
ReaderPc == {"idle", "enter", "loop", "connect_loop", "connecting", "emplace",
             "connect_failed", "backoff", "take", "read", "recv",
             "read_failed", "parse", "aborted"}

(* Every variable has the values its declaration allows, and the backoff   *)
(* never exceeds both of its limits.                                       *)
TypeOK ==
  /\ reader \in ReaderPc
  /\ stopper \in {"idle", "close"}
  /\ outcome \in {"none", "true", "false"}
  /\ stop_requested_ \in BOOLEAN
  /\ connected_ \in BOOLEAN
  /\ ws_ \in {"none", "open", "broken", "closed"}
  /\ ws_mutex_ \in {"free", "reader"}
  /\ backoff \in Nat /\ (backoff <= InitialBackoff \/ backoff <= MaxBackoff)
  /\ had_connected_once_ \in BOOLEAN
  /\ messages_received_ \in Nat
  /\ messages_malformed_ \in Nat
  /\ reconnects_ \in Nat
  /\ connects \in Nat
  /\ failures \in Nat
  /\ returned \in Nat
  /\ stopDone \in BOOLEAN

(* stop() and a connection attempt may cross in any order: once stop() has *)
(* returned, no connection is open and none will be until start().         *)
StoppedStaysClosed == stopDone => ws_ # "open"

(* The pointer next() reads through is to an existing connection, so the   *)
(* branch that finds ws_ empty is never taken.                             *)
StreamValid ==
  /\ connected_ => ws_ # "none"
  /\ reader \in {"take", "read", "recv", "parse"} => ws_ # "none"

(* Every message received was returned, or counted as malformed, or is     *)
(* being parsed (or ended the process), and every connect after the first  *)
(* is a counted reconnect.                                                 *)
Accounted ==
  /\ messages_received_ = returned + messages_malformed_
                          + (IF reader \in {"parse", "aborted"} THEN 1 ELSE 0)
  /\ connects = reconnects_ + (IF had_connected_once_ THEN 1 ELSE 0)

(* Before the n-th retry in a row the thread sleeps initial_backoff        *)
(* doubled n - 1 times and capped, starting over with every new outage     *)
(* (n up to MaxFailures, where the history variable stops counting).  The  *)
(* first sleep is not capped: a configured initial_backoff above           *)
(* max_backoff is slept in full once.                                      *)
SleepBefore(n) ==
  IF n = 1 THEN InitialBackoff ELSE Min(InitialBackoff * 2^(n - 1), MaxBackoff)

BackoffSchedule ==
  reader = "backoff" /\ failures \in 1..(MaxFailures - 1) =>
    backoff = SleepBefore(failures)

(* LiveSource keeps the promise of MarketDataSource: in particular next()  *)
(* returns false only because of stop(), never because of a disconnect,    *)
(* and a call that begins after stop() returns no event.                   *)
Source ==
  INSTANCE MarketDataSource
    WITH Ends <- FALSE,
         caller <- CASE reader = "idle" -> "idle"
                     [] reader = "enter" -> "called"
                     [] OTHER -> "open",
         stop_requested <- stop_requested_

SourceSpec == Source!Spec

(* stop() unblocks next(): a call that is under way returns (or ends the   *)
(* process).                                                               *)
StopUnblocks ==
  stop_requested_ /\ reader # "idle"
    ~> reader \in {"idle", "aborted"} \/ ~stop_requested_

(* An outage is never given up: after each failed attempt there is another *)
(* one, unless stop() is called.                                           *)
RetriesForever == reader = "backoff" ~> reader = "connecting" \/ stop_requested_
=============================================================================
