--------------------------- MODULE KafkaProducer ---------------------------
(***************************************************************************)
(* KafkaEventProducer (include/tickforge/kafka_event_producer.hpp,         *)
(* src/kafka_event_producer.cpp) as services/ingestion/main.cpp uses it:   *)
(* the publish thread calls publish() for one event after the other and    *)
(* then flush(); main() joins it, and the pipeline's destructor destroys   *)
(* the producer.  These calls never overlap, so `caller` is one thread.    *)
(*                                                                         *)
(* librdkafka and the broker are external and modelled from how the code   *)
(* configures and calls them.  Nothing but bootstrap.servers is set, so    *)
(* messages are retried, several requests are in flight at once, and the   *)
(* broker does not recognise a resent message (enable.idempotence is off). *)
(* A message is unsent, sent or stored until its delivery report exists;   *)
(* reports wait until rd_kafka_poll() or rd_kafka_flush() calls back.      *)
(* All events with one key go to one partition: log[s] is the part of that *)
(* partition whose key is s.                                               *)
(***************************************************************************)
EXTENDS Naturals, Sequences, FiniteSets

CONSTANTS
  Symbols,     \* keys: MarketEvent::symbol
  QueueLimit,  \* messages librdkafka holds before it refuses more
  MaxEvents,   \* bound: calls of publish()
  MaxLosses    \* bound: requests or acknowledgements lost

ASSUME ProducerAssumption ==
  /\ IsFiniteSet(Symbols)
  /\ QueueLimit \in Nat /\ MaxEvents \in Nat /\ MaxLosses \in Nat

Event == 1..MaxEvents  \* the n-th call of publish()

VARIABLES
  caller,     \* where the calling code is
  symbol,     \* the key of each event published so far
  unsent,     \* messages waiting to be sent, or to be sent again
  sent,       \* requests on their way to the broker, in the order sent
  stored,     \* stored by the broker, acknowledgement on its way
  reports,    \* delivery reports not yet called back, <<event, delivered>>
  log,        \* broker: events of each key, in the order of the partition
  delivery_successes_,
  delivery_failures_,
  accepted,   \* events for which rd_kafka_producev() succeeded
  purged,     \* history: messages destroyed with the producer
  timedOut,   \* history: the flush() after the last event timed out
  losses,     \* history: requests or acknowledgements lost
  resent      \* history: the messages these were about

library == <<unsent, sent, stored, reports>>
counts == <<delivery_successes_, delivery_failures_>>
history == <<accepted, purged, timedOut, losses, resent>>
vars == <<caller, symbol, library, log, counts, history>>

Init ==
  /\ caller = "open"
  /\ symbol = <<>>
  /\ unsent = {} /\ sent = <<>> /\ stored = {} /\ reports = {}
  /\ log = [s \in Symbols |-> <<>>]
  /\ delivery_successes_ = 0 /\ delivery_failures_ = 0
  /\ accepted = {} /\ purged = {}
  /\ timedOut = FALSE /\ losses = 0 /\ resent = {}

InFlight == {sent[i] : i \in DOMAIN sent} \cup stored

(* The requests without that for e; there is at most one. *)
Unsend(e) ==
  IF \E i \in DOMAIN sent : sent[i] = e
  THEN LET i == CHOOSE i \in DOMAIN sent : sent[i] = e
       IN  SubSeq(sent, 1, i - 1) \o SubSeq(sent, i + 1, Len(sent))
  ELSE sent

(* Messages whose report has not been called back. *)
Outstanding == Cardinality(unsent \cup InFlight) + Cardinality(reports)

-----------------------------------------------------------------------------
(* The producer and its callers *)

(* Mutant: failures are not counted. *)
DeliveryReportSuccess ==
  /\ delivery_successes_' =
       delivery_successes_ + Cardinality({r \in reports : r[2]})
  /\ UNCHANGED delivery_failures_
  /\ reports' = {}

(* deliveryReportTrampoline() for every report that waits.                 *)
DeliveryReports ==
  /\ delivery_successes_' =
       delivery_successes_ + Cardinality({r \in reports : r[2]})
  /\ delivery_failures_' =
       delivery_failures_ + Cardinality({r \in reports : ~r[2]})
  /\ reports' = {}

(* publish(): rd_kafka_producev() copies the message, or fails because the *)
(* queue is full; publish() then returns false and the event is gone.      *)
PublishProduce(s) ==
  /\ caller = "open"
  /\ Len(symbol) < MaxEvents
  /\ symbol' = Append(symbol, s)
  /\ IF Outstanding < QueueLimit
     THEN /\ unsent' = unsent \cup {Len(symbol')}
          /\ accepted' = accepted \cup {Len(symbol')}
     ELSE UNCHANGED <<unsent, accepted>>
  /\ caller' = "poll"
  /\ UNCHANGED <<sent, stored, reports, log, counts, purged, timedOut,
                 losses, resent>>

(* rd_kafka_poll(producer_, 0), and publish() returns. *)
PublishPoll ==
  /\ caller = "poll"
  /\ DeliveryReports
  /\ caller' = "open"
  /\ UNCHANGED <<symbol, unsent, sent, stored, log, history>>

(* runPublish() has drained the queue and calls flush(). *)
Flush ==
  /\ caller = "open"
  /\ caller' = "flush"
  /\ UNCHANGED <<symbol, library, log, counts, history>>

(* rd_kafka_flush() calls back while it waits ... *)
FlushServe ==
  /\ caller \in {"flush", "destroy"}
  /\ reports # {}
  /\ DeliveryReports
  /\ UNCHANGED <<caller, symbol, unsent, sent, stored, log, history>>

(* Mutant: flush() returns once nothing waits to be sent. *)
FlushedUnsent == unsent = {}

(* ... until nothing is outstanding ... *)
Flushed == Outstanding = 0

FlushDone ==
  /\ caller = "flush"
  /\ Flushed
  /\ caller' = "flushed"
  /\ UNCHANGED <<symbol, library, log, counts, history>>

(* ... or ten seconds have passed. *)
FlushTimeout ==
  /\ caller = "flush"
  /\ Outstanding > 0
  /\ timedOut' = TRUE
  /\ caller' = "flushed"
  /\ UNCHANGED <<symbol, library, log, counts, accepted, purged, losses, resent>>

(* ~KafkaEventProducer() begins with another flush() ... *)
DestroyFlush ==
  /\ caller = "flushed"
  /\ caller' = "destroy"
  /\ UNCHANGED <<symbol, library, log, counts, history>>

(* ... and, done or timed out, rd_kafka_destroy() drops what is left       *)
(* without calling back.                                                   *)
Destroy ==
  /\ caller = "destroy"
  /\ purged' = unsent \cup InFlight \cup {r[1] : r \in reports}
  /\ unsent' = {} /\ sent' = <<>> /\ stored' = {} /\ reports' = {}
  /\ caller' = "destroyed"
  /\ UNCHANGED <<symbol, log, counts, accepted, timedOut, losses, resent>>

-----------------------------------------------------------------------------
(* librdkafka's thread and the broker *)

(* Mutant: messages with one key leave in any order (the event has no key  *)
(* and goes to any partition).                                             *)
NextToSendAny(e) == TRUE

(* The messages of one key are sent oldest first. *)
NextToSend(e) == \A d \in unsent : symbol[d] = symbol[e] => e <= d

Send(e) ==
  /\ e \in unsent
  /\ NextToSend(e)
  /\ unsent' = unsent \ {e}
  /\ sent' = Append(sent, e)
  /\ UNCHANGED <<caller, symbol, stored, reports, log, counts, history>>

(* Requests for one partition travel on one connection and are stored in   *)
(* the order sent.                                                         *)
Store(i) ==
  /\ \A k \in 1..(i - 1) : symbol[sent[k]] # symbol[sent[i]]
  /\ log' = [log EXCEPT ![symbol[sent[i]]] = Append(@, sent[i])]
  /\ stored' = stored \cup {sent[i]}
  /\ sent' = Unsend(sent[i])
  /\ UNCHANGED <<caller, symbol, unsent, reports, counts, history>>

Acknowledge(e) ==
  /\ e \in stored
  /\ stored' = stored \ {e}
  /\ reports' = reports \cup {<<e, TRUE>>}
  /\ UNCHANGED <<caller, symbol, unsent, sent, log, counts, history>>

(* A request or its acknowledgement is lost: the message is sent again.    *)
Lose(e) ==
  /\ e \in InFlight
  /\ losses < MaxLosses
  /\ losses' = losses + 1
  /\ resent' = resent \cup {e}
  /\ sent' = Unsend(e) /\ stored' = stored \ {e}
  /\ unsent' = unsent \cup {e}
  /\ UNCHANGED <<caller, symbol, reports, log, counts, accepted, purged,
                 timedOut>>

(* message.timeout.ms is over, whether the broker has the message or not.  *)
Expire(e) ==
  /\ e \in unsent \cup InFlight
  /\ unsent' = unsent \ {e} /\ sent' = Unsend(e) /\ stored' = stored \ {e}
  /\ reports' = reports \cup {<<e, FALSE>>}
  /\ UNCHANGED <<caller, symbol, log, counts, history>>

-----------------------------------------------------------------------------
Calls ==
  \/ \E s \in Symbols : PublishProduce(s)
  \/ PublishPoll \/ Flush \/ FlushServe \/ FlushDone \/ FlushTimeout
  \/ DestroyFlush \/ Destroy

Library ==
  \/ \E e \in Event : Send(e) \/ Acknowledge(e) \/ Lose(e) \/ Expire(e)
  \/ \E i \in DOMAIN sent : Store(i)

Next == Calls \/ Library

Spec == Init /\ [][Next]_vars

-----------------------------------------------------------------------------
(* Every variable has the values its declaration allows; every message     *)
(* that the library holds was accepted by rd_kafka_producev(), and it      *)
(* holds none, and can call nobody back, once the producer is gone.        *)
TypeOK ==
  /\ caller \in {"open", "poll", "flush", "flushed", "destroy", "destroyed"}
  /\ symbol \in Seq(Symbols)
  /\ accepted \subseteq 1..Len(symbol)
  /\ sent \in Seq(Event)
  /\ (unsent \cup InFlight \cup purged) \subseteq accepted
  /\ reports \subseteq accepted \X BOOLEAN
  /\ caller = "destroyed" => Outstanding = 0
  /\ log \in [Symbols -> Seq(Event)]
  /\ delivery_successes_ \in Nat /\ delivery_failures_ \in Nat
  /\ timedOut \in BOOLEAN
  /\ losses \in Nat
  /\ resent \subseteq Event

(* Every event that publish() reported as accepted is counted as delivered *)
(* or failed exactly once, or is still with the library, or was dropped    *)
(* with it.                                                                *)
DeliveryAccounting ==
  Cardinality(accepted) =
    delivery_successes_ + delivery_failures_ + Outstanding + Cardinality(purged)

OnBroker == UNION {{log[s][i] : i \in DOMAIN log[s]} : s \in Symbols}

(* What is left of "production order" per symbol when messages are sent    *)
(* again: an event is in its partition behind a later one, or a second     *)
(* time, only if it was itself sent again.  A lost request does not        *)
(* disturb the order of the other events, sent before, after or meanwhile. *)
OrderUnlessResent ==
  \A s \in Symbols : \A i, j \in DOMAIN log[s] :
    i < j /\ log[s][j] \notin resent => log[s][i] < log[s][j]

(* The producer keeps the promise of EventPublisher: an event is stored,   *)
(* counted as delivered (only if stored), counted as failed or dropped     *)
(* only while it is pending, each at most once; and a flush() that did not *)
(* time out leaves nothing pending.                                        *)
Publisher ==
  INSTANCE EventPublisher
    WITH published <- Len(symbol),
         pending <- unsent \cup InFlight \cup {r[1] : r \in reports},
         onBroker <- OnBroker,
         dropped <- Cardinality(purged),
         successes <- delivery_successes_,
         failures <- delivery_failures_,
         flushed <- IF caller \in {"flushed", "destroy", "destroyed"}
                    THEN IF timedOut THEN "timeout" ELSE "done"
                    ELSE "no",
         open <- caller # "destroyed"

PublisherSpec == Publisher!Spec
=============================================================================
