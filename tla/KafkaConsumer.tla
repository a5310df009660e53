--------------------------- MODULE KafkaConsumer ---------------------------
(***************************************************************************)
(* KafkaEventConsumer (include/tickforge/kafka_event_consumer.hpp,         *)
(* src/kafka_event_consumer.cpp) in its process, services/consumer/        *)
(* main.cpp: a thread loops over next(), the main thread waits for a       *)
(* signal, stops the consumer, joins the thread and destroys the consumer. *)
(*                                                                         *)
(* Kafka and librdkafka are external and modelled from how this code       *)
(* configures and calls them: a log per partition, the committed offset of *)
(* the group, and in the client a position and a stored offset per         *)
(* partition.  The configuration sets neither enable.auto.commit nor       *)
(* enable.auto.offset.store, so both are on: rd_kafka_consumer_poll()      *)
(* stores the offset after the message it hands out, and a timer of the    *)
(* library commits what is stored.  auto.offset.reset is earliest: a group *)
(* without a commit starts at offset 0.  The group has one member, and the *)
(* broker keeps what it has stored.                                        *)
(*                                                                         *)
(* The process may be killed at any step and started again.                *)
(***************************************************************************)
EXTENDS Naturals, Sequences, FiniteSets

CONSTANTS
  Partitions,
  Kinds,        \* the kinds of message that other processes put in the topic
  MaxMessages,  \* bound: messages in the topic
  MaxRuns       \* bound: starts of the process

(* "event": JSON text of a market event.                                   *)
(* "malformed": not JSON, or JSON that marketEventFromJson() refuses.      *)
(* "overflow": JSON with a number beyond double's range, which             *)
(* json::parse() reports with out_of_range, not with parse_error.          *)
ASSUME ConsumerAssumption ==
  /\ IsFiniteSet(Partitions)
  /\ Kinds \subseteq {"event", "malformed", "overflow"}
  /\ MaxMessages \in Nat /\ MaxRuns \in Nat

VARIABLES
  log,        \* broker: the messages of each partition, offset 0 first
  committed,  \* broker: the group's committed offset
  position,   \* librdkafka: the offset to hand out next
  stored,     \* librdkafka: the offset the timer commits
  main,       \* where the main thread is, or how the process ended
  thread,     \* where consume_thread is
  msg,        \* the message being handled, <<partition, offset>>
  g_shutdown_requested,
  stop_requested_,
  messages_consumed_,
  messages_malformed_,
  total,
  per_partition_counts,
  begin,      \* history: the position at which this run started
  times,      \* history: how often each message was handled, over all runs
  runs,       \* history: starts of the process
  crashes,    \* history: runs that ended without close
  uncommitted \* history: closes whose commit failed

broker == <<log, committed>>
client == <<position, stored>>
counters == <<messages_consumed_, messages_malformed_, total, per_partition_counts>>
flags == <<g_shutdown_requested, stop_requested_>>
history == <<begin, runs, crashes, uncommitted>>
vars == <<broker, client, main, thread, msg, flags, counters, times, history>>

NoMessage == <<>>
Offsets == 0..(MaxMessages - 1)
Zero == [p \in Partitions |-> 0]
Lengths == [p \in Partitions |-> Len(log[p])]

(* The sum of a function over the partitions is the size of this set. *)
Units(f) == UNION {{p} \X (1..f[p]) : p \in Partitions}
Sum(f) == Cardinality(Units(f))

Alive == main \in {"waiting", "joining", "closing"}

Init ==
  /\ log = [p \in Partitions |-> <<>>]
  /\ committed = Zero /\ position = Zero /\ stored = Zero
  /\ main = "off" /\ thread = "none" /\ msg = NoMessage
  /\ g_shutdown_requested = FALSE /\ stop_requested_ = FALSE
  /\ messages_consumed_ = 0 /\ messages_malformed_ = 0
  /\ total = 0 /\ per_partition_counts = Zero
  /\ begin = Zero
  /\ times = [p \in Partitions |-> [o \in Offsets |-> 0]]
  /\ runs = 0 /\ crashes = 0 /\ uncommitted = 0

-----------------------------------------------------------------------------
(* The environment *)

(* Another process adds a message to the topic. *)
Produce(p, k) ==
  /\ Sum(Lengths) < MaxMessages
  /\ log' = [log EXCEPT ![p] = Append(@, k)]
  /\ UNCHANGED <<committed, client, main, thread, msg, flags, counters, times,
                 history>>

(* The library's timer commits what is stored. *)
AutoCommit ==
  /\ Alive
  /\ committed # stored
  /\ committed' = stored
  /\ UNCHANGED <<log, client, main, thread, msg, flags, counters, times, history>>

(* SIGINT or SIGTERM: handleSignal() sets the flag. *)
Signal ==
  /\ Alive
  /\ ~g_shutdown_requested
  /\ g_shutdown_requested' = TRUE
  /\ UNCHANGED <<broker, client, main, thread, msg, stop_requested_, counters,
                 times, history>>

(* The process is killed: its state is gone, the broker's stays.           *)
Crash ==
  /\ Alive
  /\ main' = "killed"
  /\ crashes' = crashes + 1
  /\ UNCHANGED <<broker, client, thread, msg, flags, counters, times, begin,
                 runs, uncommitted>>

-----------------------------------------------------------------------------
(* The main thread *)

(* Construct and start() the consumer, then consume_thread.  The group     *)
(* resumes at its committed offsets.                                       *)
Boot ==
  /\ ~Alive
  /\ runs < MaxRuns
  /\ runs' = runs + 1
  /\ main' = "waiting"
  /\ thread' = "loop"
  /\ msg' = NoMessage
  /\ position' = committed /\ stored' = committed /\ begin' = committed
  /\ g_shutdown_requested' = FALSE /\ stop_requested_' = FALSE
  /\ messages_consumed_' = 0 /\ messages_malformed_' = 0
  /\ total' = 0 /\ per_partition_counts' = Zero
  /\ UNCHANGED <<broker, times, crashes, uncommitted>>

(* rd_kafka_conf_set(), rd_kafka_new() or rd_kafka_subscribe() fails and   *)
(* the exception leaves main().                                            *)
BootThrows ==
  /\ ~Alive
  /\ runs < MaxRuns
  /\ runs' = runs + 1
  /\ main' = "failed"
  /\ UNCHANGED <<broker, client, thread, msg, flags, counters, times, begin,
                 crashes, uncommitted>>

(* The polling loop of main() has seen the flag: stop(). *)
MainStop ==
  /\ main = "waiting"
  /\ g_shutdown_requested
  /\ stop_requested_' = TRUE
  /\ main' = "joining"
  /\ UNCHANGED <<broker, client, thread, msg, g_shutdown_requested, counters,
                 times, history>>

(* join(); then the totals are printed. *)
MainJoin ==
  /\ main = "joining"
  /\ thread = "done"
  /\ main' = "closing"
  /\ UNCHANGED <<broker, client, thread, msg, flags, counters, times, history>>

(* Mutant: rd_kafka_destroy() without rd_kafka_consumer_close(). *)
MainDestroyOnly ==
  /\ main = "closing"
  /\ main' = "exited"
  /\ UNCHANGED <<broker, client, thread, msg, flags, counters, times, history>>

(* ~KafkaEventConsumer(): stop() again, and the close commits what is      *)
(* stored, unless the broker cannot be reached.                            *)
MainClose ==
  /\ main = "closing"
  /\ main' = "exited"
  /\ stop_requested_' = TRUE
  /\ \/ committed' = stored /\ UNCHANGED uncommitted
     \/ uncommitted' = uncommitted + 1 /\ UNCHANGED committed
  /\ UNCHANGED <<log, client, thread, msg, g_shutdown_requested, counters,
                 times, begin, runs, crashes>>

-----------------------------------------------------------------------------
(* consume_thread: next() and the loop around it *)

(* Mutant: the loop of next() does not look at the flag. *)
LoopForever ==
  /\ Alive /\ thread = "loop"
  /\ thread' = "polling"
  /\ UNCHANGED <<broker, client, main, msg, flags, counters, times, history>>

(* The loop condition of next(); its false ends the thread. *)
Loop ==
  /\ Alive /\ thread = "loop"
  /\ thread' = IF stop_requested_ THEN "done" ELSE "polling"
  /\ UNCHANGED <<broker, client, main, msg, flags, counters, times, history>>

(* rd_kafka_consumer_poll() times out, or returns an error or the end of a *)
(* partition.                                                              *)
PollNothing ==
  /\ Alive /\ thread = "polling"
  /\ thread' = "loop"
  /\ UNCHANGED <<broker, client, main, msg, flags, counters, times, history>>

(* It returns the next message of a partition, and has stored its offset.  *)
PollMessage(p) ==
  /\ Alive /\ thread = "polling"
  /\ position[p] < Len(log[p])
  /\ msg' = <<p, position[p]>>
  /\ position' = [position EXCEPT ![p] = @ + 1]
  /\ stored' = [stored EXCEPT ![p] = position[p] + 1]
  /\ thread' = "parse"
  /\ UNCHANGED <<broker, main, flags, counters, times, history>>

Kind == log[msg[1]][msg[2] + 1]

Handled == times' = [times EXCEPT ![msg[1]][msg[2]] = @ + 1]

(* Mutant: a malformed message is tried again. *)
ParseMalformedRetries ==
  /\ Alive /\ thread = "parse" /\ Kind = "malformed"
  /\ messages_malformed_' = 1
  /\ UNCHANGED <<broker, client, main, thread, msg, flags, messages_consumed_,
                 total, per_partition_counts, times, history>>

(* parse_error, or marketEventFromJson() has no value: count and go on.    *)
ParseMalformed ==
  /\ Alive /\ thread = "parse" /\ Kind = "malformed"
  /\ messages_malformed_' = messages_malformed_ + 1
  /\ Handled
  /\ thread' = "loop"
  /\ UNCHANGED <<broker, client, main, msg, flags, messages_consumed_, total,
                 per_partition_counts, history>>

(* Any other exception of json::parse() leaves next() and the thread's     *)
(* function: std::terminate().                                             *)
ParseThrows ==
  /\ Alive /\ thread = "parse" /\ Kind = "overflow"
  /\ main' = "aborted"
  /\ crashes' = crashes + 1
  /\ UNCHANGED <<broker, client, thread, msg, flags, counters, times, begin,
                 runs, uncommitted>>

(* Mutant: an event that arrives during stop() is dropped. *)
ParseEventDropped ==
  /\ Alive /\ thread = "parse" /\ Kind = "event"
  /\ messages_consumed_' = messages_consumed_ + 1
  /\ thread' = IF stop_requested_ THEN "done" ELSE "count"
  /\ UNCHANGED <<broker, client, main, msg, flags, messages_malformed_, total,
                 per_partition_counts, times, history>>

(* A market event: next() counts it and returns true, even if stop() has   *)
(* been called meanwhile.                                                  *)
ParseEvent ==
  /\ Alive /\ thread = "parse" /\ Kind = "event"
  /\ messages_consumed_' = messages_consumed_ + 1
  /\ thread' = "count"
  /\ UNCHANGED <<broker, client, main, msg, flags, messages_malformed_, total,
                 per_partition_counts, times, history>>

(* Mutant: only the sampled events are counted per partition. *)
CountSampled ==
  /\ Alive /\ thread = "count"
  /\ total' = total + 1
  /\ per_partition_counts' =
       [per_partition_counts EXCEPT ![msg[1]] = IF total' = 1 THEN @ + 1 ELSE @]
  /\ Handled
  /\ thread' = "loop"
  /\ UNCHANGED <<broker, client, main, msg, flags, messages_consumed_,
                 messages_malformed_, history>>

(* The body of the thread's loop. *)
Count ==
  /\ Alive /\ thread = "count"
  /\ total' = total + 1
  /\ per_partition_counts' = [per_partition_counts EXCEPT ![msg[1]] = @ + 1]
  /\ Handled
  /\ thread' = "loop"
  /\ UNCHANGED <<broker, client, main, msg, flags, messages_consumed_,
                 messages_malformed_, history>>

-----------------------------------------------------------------------------
MainStep == MainStop \/ MainJoin \/ MainClose

ThreadStep ==
  \/ Loop \/ PollNothing \/ (\E p \in Partitions : PollMessage(p))
  \/ ParseMalformed \/ ParseThrows \/ ParseEvent \/ Count

Environment ==
  \/ \E p \in Partitions, k \in Kinds : Produce(p, k)
  \/ AutoCommit \/ Signal \/ Crash

Next == Boot \/ BootThrows \/ MainStep \/ ThreadStep \/ Environment

Spec == Init /\ [][Next]_vars

(* Both threads run, a poll ends after its timeout, and the library hands  *)
(* out what a partition holds.  Nothing makes a message arrive, the timer  *)
(* fire, a signal come or the process start again.                         *)
Fairness ==
  /\ WF_vars(MainStep)
  /\ WF_vars(ThreadStep)
  /\ \A p \in Partitions : SF_vars(PollMessage(p))

FairSpec == Spec /\ Fairness

-----------------------------------------------------------------------------
(* Every variable has the values its declaration allows, and the code that *)
(* handles a message has one.                                              *)
TypeOK ==
  /\ log \in [Partitions -> Seq(Kinds)]
  /\ committed \in [Partitions -> Nat]
  /\ position \in [Partitions -> Nat]
  /\ stored \in [Partitions -> Nat]
  /\ main \in {"off", "failed", "waiting", "joining", "closing", "exited",
               "killed", "aborted"}
  /\ thread \in {"none", "loop", "polling", "parse", "count", "done"}
  /\ msg = NoMessage \/ msg \in Partitions \X Nat
  /\ thread \in {"parse", "count"} =>
       msg # NoMessage /\ msg[2] < Len(log[msg[1]])
  /\ g_shutdown_requested \in BOOLEAN /\ stop_requested_ \in BOOLEAN
  /\ messages_consumed_ \in Nat /\ messages_malformed_ \in Nat
  /\ total \in Nat /\ per_partition_counts \in [Partitions -> Nat]
  /\ begin \in [Partitions -> Nat]
  /\ times \in [Partitions -> [Offsets -> Nat]]
  /\ runs \in Nat /\ crashes \in Nat /\ uncommitted \in Nat

(* The four counters agree: the partitions add up to the total, the total  *)
(* is what next() returned, and with the malformed messages it is what the *)
(* run has taken from the topic, the message in hand excepted.             *)
CountsAgree ==
  /\ total = Sum(per_partition_counts)
  /\ messages_consumed_ = total + (IF thread = "count" THEN 1 ELSE 0)
  /\ Sum(position) =
       Sum(begin) + messages_consumed_ + messages_malformed_
         + (IF thread = "parse" THEN 1 ELSE 0)

(* Messages that the group will not see again, and that no run has handled *)
Unhandled == {m \in Partitions \X Offsets :
                m[2] < committed[m[1]] /\ times[m[1]][m[2]] = 0}

(* A run that dies can skip the one message it had in hand, because the    *)
(* timer may have committed it; nothing else is ever skipped, and a run    *)
(* that ends after stop() skips nothing.                                   *)
LossBound ==
  Cardinality(Unhandled) <=
    crashes + (IF Alive /\ thread \in {"parse", "count"} THEN 1 ELSE 0)

(* A message is handled again only by a run that follows a crash or a      *)
(* failed commit.                                                          *)
RedeliveryBound ==
  \A p \in Partitions, o \in Offsets : times[p][o] <= 1 + crashes + uncommitted

(* The comment of the class: this consumer is at-least-once.  A message    *)
(* that is committed when the process has ended has been processed.        *)
AtLeastOnce == ~Alive => Unhandled = {}

(* The comment in next(): a corrupt or foreign message is skipped and does *)
(* not crash the consumer.                                                 *)
SkipDontCrash == main # "aborted"

(* A message of the topic is handled, whatever the ones before it are like *)
(* and whatever the other partitions hold, unless the run ends.            *)
EveryMessageHandled ==
  \A p \in Partitions, o \in Offsets :
    Alive /\ begin[p] <= o /\ o < Len(log[p])
      ~> times[p][o] > 0 \/ ~Alive \/ stop_requested_

(* After a signal the process ends. *)
ShutdownTerminates == Alive /\ g_shutdown_requested ~> ~Alive
=============================================================================
