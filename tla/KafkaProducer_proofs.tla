------------------------ MODULE KafkaProducer_proofs ------------------------
(***************************************************************************)
(* Proofs about KafkaProducer for any keys, any queue limit and any number *)
(* of events and losses.                                                   *)
(*                                                                         *)
(* The argument: an accepted message is in one place at a time, unsent,    *)
(* sent, stored or reported (PlaceInv), so that every step of the library  *)
(* moves one message and every call of the delivery report callback counts *)
(* one; a report of success exists only for a message that the broker has  *)
(* (BrokerInv); and an event that was not sent again passes from one place *)
(* to the next behind all earlier events of its key (OrderInv).            *)
(***************************************************************************)
EXTENDS KafkaProducer, TLAPS, FiniteSetTheorems, FunctionTheorems, SequenceTheorems

USE DEF library, counts, history

Requests == {sent[i] : i \in DOMAIN sent}
Held == unsent \cup InFlight
Reported == {r[1] : r \in reports}

(* A message is in one place, and in none once the producer is destroyed.  *)
PlaceInv ==
  /\ Len(symbol) <= MaxEvents
  /\ \A i, j \in DOMAIN sent : sent[i] = sent[j] => i = j
  /\ unsent \cap Requests = {} /\ unsent \cap stored = {} /\ Requests \cap stored = {}
  /\ Held \cap Reported = {}
  /\ \A q, r \in reports : q[1] = r[1] => q = r
  /\ caller # "destroyed" => purged = {}
  /\ caller = "destroyed" => Held = {} /\ reports = {}
  /\ caller \in {"open", "poll", "flush"} => ~timedOut

(* What the library believes stored is on the broker. *)
BrokerInv ==
  /\ OnBroker \subseteq accepted
  /\ stored \subseteq OnBroker
  /\ \A r \in reports : r[2] => r[1] \in OnBroker

(* A key's events are on the broker, then sent, then unsent: one that was  *)
(* not sent again has only earlier events of its key before it, in its own *)
(* place and in those before it.                                           *)
OrderInv ==
  /\ \A s \in Symbols : \A i, j \in DOMAIN log[s] :
       i < j /\ log[s][j] \notin resent => log[s][i] < log[s][j]
  /\ \A s \in Symbols : \A i \in DOMAIN log[s] : \A e \in (unsent \cup Requests) \ resent :
       symbol[e] = s => log[s][i] < e
  /\ \A i, j \in DOMAIN sent :
       i < j /\ symbol[sent[i]] = symbol[sent[j]] /\ sent[j] \notin resent
         => sent[i] < sent[j]
  /\ \A i \in DOMAIN sent : \A e \in unsent \ resent :
       symbol[sent[i]] = symbol[e] => sent[i] < e

IInv == TypeOK /\ PlaceInv /\ BrokerInv /\ OrderInv /\ DeliveryAccounting
-----------------------------------------------------------------------------
(* Taking a request away leaves the others, in their order. *)
LEMMA UnsendStep ==
  ASSUME sent \in Seq(Event),
         \A i, j \in DOMAIN sent : sent[i] = sent[j] => i = j,
         NEW e, sent' = Unsend(e)
  PROVE  /\ sent' \in Seq(Event)
         /\ Requests' = Requests \ {e}
         /\ \A k, l \in DOMAIN sent' : sent'[k] = sent'[l] => k = l
         /\ \A k, l \in DOMAIN sent' : k < l =>
              \E i, j \in DOMAIN sent : i < j /\ sent'[k] = sent[i] /\ sent'[l] = sent[j]
<1>1. CASE \A i \in DOMAIN sent : sent[i] # e
  <2>1. sent' = sent
    BY <1>1 DEF Unsend
  <2>2. QED
    BY <1>1, <2>1 DEF Requests
<1>2. CASE \E i \in DOMAIN sent : sent[i] = e
  <2> DEFINE n == CHOOSE i \in DOMAIN sent : sent[i] = e
             a == SubSeq(sent, 1, n - 1)
             b == SubSeq(sent, n + 1, Len(sent))
             old(k) == IF k < n THEN k ELSE k + 1
  <2>1. n \in DOMAIN sent /\ sent[n] = e
    BY <1>2
  <2>2. sent' = a \o b
    BY <1>2 DEF Unsend
  <2> HIDE DEF n
  <2>3. n \in 1..Len(sent) /\ Len(sent) \in Nat
    BY <2>1
  <2>4. /\ a \in Seq(Event) /\ Len(a) = n - 1
        /\ \A k \in 1..(n - 1) : a[k] = sent[k]
    BY <2>3
  <2>5. /\ b \in Seq(Event) /\ Len(b) = Len(sent) - n
        /\ \A k \in 1..(Len(sent) - n) : b[k] = sent[k + n]
    <3>1. CASE n = Len(sent)
      <4>1. b = <<>>
        BY <3>1, <2>3
      <4>2. QED
        BY <3>1, <4>1, <2>3
    <3>2. CASE n < Len(sent)
      BY <3>2, <2>3
    <3>3. QED
      BY <3>1, <3>2, <2>3
  <2> HIDE DEF a, b
  <2>6. /\ sent' \in Seq(Event)
        /\ Len(sent') = Len(sent) - 1
        /\ DOMAIN sent' = 1..(Len(sent) - 1)
    <3>1. sent' \in Seq(Event) /\ Len(sent') = Len(a) + Len(b)
      <4>1. a \in Seq(Event) /\ b \in Seq(Event)
        BY <2>4, <2>5
      <4>2. a \o b \in Seq(Event) /\ Len(a \o b) = Len(a) + Len(b)
        BY ONLY <4>1
      <4>3. QED
        BY <2>2, <4>2
    <3>2. Len(sent') = Len(sent) - 1
      BY <2>3, <2>4, <2>5, <3>1
    <3>3. QED
      BY <3>1, <3>2
  <2>7. ASSUME NEW k \in DOMAIN sent'
        PROVE  old(k) \in DOMAIN sent /\ old(k) # n /\ sent'[k] = sent[old(k)]
    <3>1. k \in 1..(Len(sent) - 1)
      BY <2>6
    <3>2. CASE k < n
      BY <3>1, <3>2, <2>2, <2>3, <2>4, <2>5
    <3>3. CASE k >= n
      <4>1. sent'[k] = b[k - (n - 1)]
        BY <3>1, <3>3, <2>2, <2>3, <2>4, <2>5
      <4>2. k - (n - 1) \in 1..(Len(sent) - n)
        BY <3>1, <3>3, <2>3
      <4>3. b[k - (n - 1)] = sent[(k - (n - 1)) + n]
        BY <4>2, <2>5
      <4>4. (k - (n - 1)) + n = k + 1
        BY <3>1, <2>3
      <4>5. QED
        BY <3>1, <3>3, <4>1, <4>3, <4>4, <2>3
    <3>4. QED
      BY <3>1, <3>2, <3>3, <2>3
  <2>8. ASSUME NEW i \in DOMAIN sent, i # n
        PROVE  \E k \in DOMAIN sent' : sent'[k] = sent[i]
    <3> DEFINE k == IF i < n THEN i ELSE i - 1
    <3>1. k \in DOMAIN sent' /\ old(k) = i
      BY <2>3, <2>6, <2>8
    <3>2. QED
      BY <3>1, <2>7
  <2>9. Requests' = Requests \ {e}
    <3>1. ASSUME NEW d \in Requests' PROVE d \in Requests \ {e}
      <4>1. PICK k \in DOMAIN sent' : d = sent'[k]
        BY <3>1 DEF Requests
      <4>2. QED
        BY <4>1, <2>1, <2>7 DEF Requests
    <3>2. ASSUME NEW d \in Requests \ {e} PROVE d \in Requests'
      <4>1. PICK i \in DOMAIN sent : d = sent[i]
        BY <3>2 DEF Requests
      <4>2. i # n
        BY <4>1, <3>2, <2>1
      <4>3. QED
        BY <4>1, <4>2, <2>8 DEF Requests
    <3>3. QED
      BY <3>1, <3>2
  <2>10. ASSUME NEW k \in DOMAIN sent', NEW l \in DOMAIN sent', k < l
         PROVE  old(k) < old(l)
    BY <2>3, <2>6, <2>10
  <2>11. ASSUME NEW k \in DOMAIN sent', NEW l \in DOMAIN sent', k < l
         PROVE  /\ \E i, j \in DOMAIN sent :
                     i < j /\ sent'[k] = sent[i] /\ sent'[l] = sent[j]
                /\ sent'[k] # sent'[l]
    <3>1. old(k) < old(l)
      BY <2>10, <2>11
    <3>2. old(k) # old(l)
      BY <3>1, <2>3, <2>6
    <3>3. QED
      BY <3>1, <3>2, <2>7
  <2>12. ASSUME NEW k \in DOMAIN sent', NEW l \in DOMAIN sent', sent'[k] = sent'[l]
         PROVE  k = l
    <3>1. k \in Int /\ l \in Int
      BY <2>6
    <3>2. ~(k < l) /\ ~(l < k)
      BY <2>11, <2>12
    <3>3. QED
      BY <3>1, <3>2
  <2>13. QED
    BY <2>6, <2>9, <2>11, <2>12
<1>3. QED
  BY <1>1, <1>2

(* A message that is sent joins the requests. *)
LEMMA SendAdds ==
  ASSUME sent \in Seq(Event), NEW e \in Event, Send(e)
  PROVE  Requests' = Requests \cup {e}
<1>1. /\ sent' = Append(sent, e) /\ DOMAIN sent = 1..Len(sent)
      /\ DOMAIN sent' = 1..(Len(sent) + 1) /\ Len(sent) \in Nat
  BY DEF Send
<1>2. \A i \in 1..(Len(sent) + 1) :
        sent'[i] = IF i <= Len(sent) THEN sent[i] ELSE e
  BY <1>1
<1>3. QED
  BY <1>1, <1>2 DEF Requests

-----------------------------------------------------------------------------
(* A new report is one more message reported, and once. *)
LEMMA AddReport ==
  ASSUME NEW e, NEW b, e \notin Reported, reports' = reports \cup {<<e, b>>},
         \A q, r \in reports : q[1] = r[1] => q = r
  PROVE  /\ Reported' = Reported \cup {e}
         /\ \A q, r \in reports' : q[1] = r[1] => q = r
<1>1. <<e, b>>[1] = e
  OBVIOUS
<1>2. ASSUME NEW d \in Reported' PROVE d \in Reported \cup {e}
  <2>1. PICK r \in reports' : d = r[1]
    BY <1>2 DEF Reported
  <2>2. QED
    BY <2>1, <1>1 DEF Reported
<1>3. ASSUME NEW d \in Reported \cup {e} PROVE d \in Reported'
  <2>1. PICK r \in reports \cup {<<e, b>>} : d = r[1]
    BY <1>1, <1>3 DEF Reported
  <2>2. QED
    BY <2>1 DEF Reported
<1>4. \A r \in reports : r[1] # e
  BY DEF Reported
<1>5. \A q, r \in reports' : q[1] = r[1] => q = r
  BY <1>1, <1>4
<1>6. QED
  BY <1>2, <1>3, <1>5

(* A step leaves every message in one place: the callbacks take away all   *)
(* reports, and the library moves one message.                             *)
LEMMA PlaceStep ==
  ASSUME TypeOK, PlaceInv, [Next]_vars
  PROVE  PlaceInv'
<1> Held = unsent \cup Requests \cup stored
  BY DEF Held, InFlight, Requests
<1> Held' = unsent' \cup Requests' \cup stored'
  BY DEF Held, InFlight, Requests
<1>0. ASSUME NEW e, sent' = Unsend(e)
      PROVE  /\ Requests' = Requests \ {e}
             /\ \A k, l \in DOMAIN sent' : sent'[k] = sent'[l] => k = l
  BY <1>0, UnsendStep DEF TypeOK, PlaceInv
<1>1. ASSUME NEW s \in Symbols, PublishProduce(s) PROVE PlaceInv'
  <2>1. /\ Requests' = Requests /\ Reported' = Reported
        /\ Len(symbol') = Len(symbol) + 1 /\ Len(symbol') <= MaxEvents
    BY <1>1, ProducerAssumption DEF PublishProduce, TypeOK, Requests, Reported
  <2>2. Len(symbol') \notin accepted
    BY <2>1 DEF TypeOK
  <2>3. /\ unsent' \subseteq unsent \cup {Len(symbol')}
        /\ Len(symbol') \notin Held
    BY <1>1, <2>2 DEF PublishProduce, TypeOK, Held
  <2>4. Len(symbol') \notin Reported
    BY <2>2 DEF TypeOK, Reported
  <2>5. QED
    BY <1>1, <2>1, <2>3, <2>4 DEF PublishProduce, PlaceInv
<1>2. CASE PublishPoll
  <2>1. Requests' = Requests /\ Reported' = {}
    BY <1>2 DEF PublishPoll, DeliveryReports, Reported, Requests
  <2>2. QED
    BY <1>2, <2>1 DEF PublishPoll, DeliveryReports, PlaceInv
<1>3. CASE Flush
  <2>1. Requests' = Requests /\ Reported' = Reported
    BY <1>3 DEF Flush, Reported, Requests
  <2>2. QED
    BY <1>3, <2>1 DEF Flush, PlaceInv
<1>4. CASE FlushServe
  <2>1. Requests' = Requests /\ Reported' = {}
    BY <1>4 DEF FlushServe, DeliveryReports, Reported, Requests
  <2>2. QED
    BY <1>4, <2>1 DEF FlushServe, DeliveryReports, PlaceInv
<1>5. CASE FlushDone
  <2>1. Requests' = Requests /\ Reported' = Reported
    BY <1>5 DEF FlushDone, Reported, Requests
  <2>2. QED
    BY <1>5, <2>1 DEF FlushDone, PlaceInv
<1>6. CASE FlushTimeout
  <2>1. Requests' = Requests /\ Reported' = Reported
    BY <1>6 DEF FlushTimeout, Reported, Requests
  <2>2. QED
    BY <1>6, <2>1 DEF FlushTimeout, PlaceInv
<1>7. CASE DestroyFlush
  <2>1. Requests' = Requests /\ Reported' = Reported
    BY <1>7 DEF DestroyFlush, Reported, Requests
  <2>2. QED
    BY <1>7, <2>1 DEF DestroyFlush, PlaceInv
<1>8. CASE Destroy
  <2>1. Requests' = {} /\ Reported' = {}
    BY <1>8 DEF Destroy, Reported, Requests
  <2>2. QED
    BY <1>8, <2>1 DEF Destroy, PlaceInv
<1>9. ASSUME NEW e \in Event, Send(e) PROVE PlaceInv'
  <2>1. Requests' = Requests \cup {e}
    BY <1>9, SendAdds DEF TypeOK
  <2>2. \A k, l \in DOMAIN sent' : sent'[k] = sent'[l] => k = l
    BY <1>9 DEF Send, TypeOK, PlaceInv, Requests
  <2>3. Reported' = Reported
    BY <1>9 DEF Send, Reported
  <2>4. QED
    BY <1>9, <2>1, <2>2, <2>3 DEF Send, PlaceInv
<1>10. ASSUME NEW i \in DOMAIN sent, Store(i) PROVE PlaceInv'
  <2>1. Reported' = Reported /\ sent[i] \in Requests
    BY <1>10 DEF Store, Reported, Requests
  <2>2. /\ Requests' = Requests \ {sent[i]}
        /\ \A k, l \in DOMAIN sent' : sent'[k] = sent'[l] => k = l
    BY <1>0, <1>10 DEF Store
  <2>3. QED
    BY <1>10, <2>1, <2>2 DEF Store, PlaceInv
<1>11. ASSUME NEW e \in Event, Acknowledge(e) PROVE PlaceInv'
  <2>1. Requests' = Requests /\ e \notin Reported
    BY <1>11 DEF Acknowledge, Requests, PlaceInv
  <2>2. /\ Reported' = Reported \cup {e}
        /\ \A q, r \in reports' : q[1] = r[1] => q = r
    BY <1>11, <2>1, AddReport DEF Acknowledge, PlaceInv
  <2>3. caller # "destroyed" /\ Held' = Held \ {e}
    BY <1>11, <2>1 DEF Acknowledge, PlaceInv
  <2>4. Held' \cap Reported' = {}
    BY <2>2, <2>3 DEF PlaceInv
  <2>5. QED
    BY <1>11, <2>1, <2>2, <2>3, <2>4 DEF Acknowledge, PlaceInv
<1>12. ASSUME NEW e \in Event, Lose(e) PROVE PlaceInv'
  <2>1. Reported' = Reported /\ e \in Requests \cup stored
    BY <1>12 DEF Lose, Reported, InFlight, Requests
  <2>2. /\ Requests' = Requests \ {e}
        /\ \A k, l \in DOMAIN sent' : sent'[k] = sent'[l] => k = l
    BY <1>0, <1>12 DEF Lose
  <2>3. QED
    BY <1>12, <2>1, <2>2 DEF Lose, PlaceInv
<1>13. ASSUME NEW e \in Event, Expire(e) PROVE PlaceInv'
  <2>1. e \notin Reported
    BY <1>13 DEF Expire, PlaceInv, Held
  <2>2. /\ Requests' = Requests \ {e}
        /\ \A k, l \in DOMAIN sent' : sent'[k] = sent'[l] => k = l
    BY <1>0, <1>13 DEF Expire
  <2>3. /\ Reported' = Reported \cup {e}
        /\ \A q, r \in reports' : q[1] = r[1] => q = r
    BY <1>13, <2>1, AddReport DEF Expire, PlaceInv
  <2>4. caller # "destroyed" /\ Held' = Held \ {e}
    BY <1>13, <2>2 DEF Expire, PlaceInv, Held
  <2>5. Held' \cap Reported' = {}
    BY <2>3, <2>4 DEF PlaceInv
  <2>6. QED
    BY <1>13, <2>2, <2>3, <2>4, <2>5 DEF Expire, PlaceInv
<1>14. CASE UNCHANGED vars
  <2>1. Requests' = Requests /\ Reported' = Reported
    BY <1>14 DEF vars, Reported, Requests
  <2>2. QED
    BY <1>14, <2>1 DEF vars, PlaceInv
<1>15. QED
  BY <1>1, <1>2, <1>3, <1>4, <1>5, <1>6, <1>7, <1>8, <1>9, <1>10, <1>11, <1>12,
     <1>13, <1>14 DEF Next, Calls, Library

(* The library holds finitely many messages. *)
LEMMA AllFinite ==
  ASSUME TypeOK
  PROVE  /\ IsFiniteSet(accepted) /\ IsFiniteSet(Held) /\ IsFiniteSet(purged)
         /\ IsFiniteSet(reports) /\ Reported \subseteq accepted
<1>1. IsFiniteSet(accepted)
  <2>1. Len(symbol) \in Nat
    BY DEF TypeOK
  <2>2. IsFiniteSet(1..Len(symbol))
    BY <2>1, FS_Interval
  <2>3. QED
    BY <2>2, FS_Subset DEF TypeOK
<1>2. IsFiniteSet(BOOLEAN)
  <2>1. IsFiniteSet({TRUE} \cup {FALSE})
    BY FS_Singleton, FS_Union
  <2>2. BOOLEAN = {TRUE} \cup {FALSE}
    OBVIOUS
  <2>3. QED
    BY <2>1, <2>2
<1>3. IsFiniteSet(accepted \X BOOLEAN)
  BY <1>1, <1>2, FS_Product
<1>4. IsFiniteSet(reports)
  BY <1>3, FS_Subset DEF TypeOK
<1>5. IsFiniteSet(Held) /\ IsFiniteSet(purged)
  BY <1>1, FS_Subset DEF TypeOK, Held
<1>6. QED
  BY <1>1, <1>4, <1>5 DEF TypeOK, Reported

(* A step keeps every variable within its type. *)
LEMMA TypeStep ==
  ASSUME TypeOK, PlaceInv, [Next]_vars
  PROVE  TypeOK'
<1>0. PlaceInv'
  BY PlaceStep
<1>a. caller' = "destroyed" => Outstanding' = 0
  <2>1. caller' = "destroyed" => Held' = {} /\ reports' = {}
    BY <1>0 DEF PlaceInv
  <2>2. Cardinality({}) = 0
    BY FS_EmptySet
  <2>3. Outstanding' = Cardinality(Held') + Cardinality(reports')
    BY DEF Outstanding, Held
  <2>4. QED
    BY <2>1, <2>2, <2>3
<1>b. accepted \subseteq Event /\ \A e \in accepted : symbol[e] \in Symbols
  <2>1. Len(symbol) \in Nat /\ \A e \in 1..Len(symbol) : symbol[e] \in Symbols
    BY DEF TypeOK
  <2>2. QED
    BY <2>1, ProducerAssumption DEF TypeOK, PlaceInv, Event
<1> InFlight = Requests \cup stored /\ InFlight' = Requests' \cup stored'
  BY DEF InFlight, Requests
<1>c. ASSUME NEW e, sent' = Unsend(e)
      PROVE  sent' \in Seq(Event) /\ Requests' = Requests \ {e}
  BY <1>c, UnsendStep DEF TypeOK, PlaceInv
<1>1. ASSUME NEW s \in Symbols, PublishProduce(s) PROVE TypeOK'
  <2>1. /\ symbol' \in Seq(Symbols) /\ Len(symbol') = Len(symbol) + 1
        /\ Requests' = Requests
    <3>1. symbol' = Append(symbol, s) /\ sent' = sent /\ symbol \in Seq(Symbols)
      BY <1>1 DEF PublishProduce, TypeOK
    <3>2. QED
      BY <3>1 DEF Requests
  <2>2. /\ accepted' \subseteq accepted \cup {Len(symbol')} /\ accepted \subseteq accepted'
        /\ unsent' \subseteq accepted'
    BY <1>1 DEF PublishProduce, TypeOK
  <2>3. accepted' \subseteq 1..Len(symbol')
    <3>1. Len(symbol) \in Nat /\ accepted \subseteq 1..Len(symbol)
      BY DEF TypeOK
    <3>2. 1..Len(symbol) \subseteq 1..Len(symbol') /\ Len(symbol') \in 1..Len(symbol')
      BY <2>1, <3>1
    <3>3. QED
      BY <2>2, <3>1, <3>2
  <2>4. reports' \subseteq accepted' \X BOOLEAN
    BY <1>1, <2>2 DEF PublishProduce, TypeOK
  <2>5. QED
    BY <1>1, <1>a, <2>1, <2>2, <2>3, <2>4 DEF PublishProduce, TypeOK
<1>2. ASSUME DeliveryReports
      PROVE  /\ delivery_successes_' \in Nat /\ delivery_failures_' \in Nat
             /\ reports' = {}
  <2>2. IsFiniteSet({r \in reports : r[2]}) /\ IsFiniteSet({r \in reports : ~r[2]})
    BY AllFinite, FS_Subset
  <2>3. QED
    BY <1>2, <2>2, FS_CardinalityType DEF DeliveryReports, TypeOK
<1>3. CASE PublishPoll
  BY <1>2, <1>3, <1>a DEF PublishPoll, TypeOK, InFlight
<1>4. CASE Flush
  BY <1>4, <1>a DEF Flush, TypeOK, InFlight
<1>5. CASE FlushServe
  BY <1>2, <1>5, <1>a DEF FlushServe, TypeOK, InFlight
<1>6. CASE FlushDone
  BY <1>6, <1>a DEF FlushDone, TypeOK, InFlight
<1>7. CASE FlushTimeout
  BY <1>7, <1>a DEF FlushTimeout, TypeOK, InFlight
<1>8. CASE DestroyFlush
  BY <1>8, <1>a DEF DestroyFlush, TypeOK, InFlight
<1>9. CASE Destroy
  <2>1. Reported \subseteq accepted
    BY DEF TypeOK, Reported
  <2>2. purged' \subseteq accepted /\ Requests' = {} /\ sent' \in Seq(Event)
    BY <1>9, <2>1 DEF Destroy, TypeOK, Reported, Requests
  <2>3. QED
    BY <1>9, <1>a, <2>2 DEF Destroy, TypeOK
<1>10. ASSUME NEW e \in Event, Send(e) PROVE TypeOK'
  <2>1. sent' \in Seq(Event) /\ DOMAIN sent' = 1..(Len(sent) + 1)
    BY <1>10 DEF Send, TypeOK
  <2>2. \A i \in DOMAIN sent' : sent'[i] \in accepted
    BY <1>10, <2>1 DEF Send, TypeOK, Requests
  <2>3. Requests' \subseteq accepted
    BY <2>2 DEF Requests
  <2>4. QED
    BY <1>10, <1>a, <2>1, <2>3 DEF Send, TypeOK
<1>11. ASSUME NEW i \in DOMAIN sent, Store(i) PROVE TypeOK'
  <2>1. sent' \in Seq(Event) /\ Requests' \subseteq Requests
    BY <1>11, <1>c DEF Store
  <2>2. sent[i] \in accepted
    BY <1>11 DEF Requests, TypeOK
  <2>3. log' \in [Symbols -> Seq(Event)]
    <3>1. symbol[sent[i]] \in Symbols /\ sent[i] \in Event
      BY <1>b, <2>2
    <3>2. Append(log[symbol[sent[i]]], sent[i]) \in Seq(Event)
      BY <3>1 DEF TypeOK
    <3>3. QED
      BY <1>11, <3>1, <3>2 DEF Store, TypeOK
  <2>4. QED
    BY <1>11, <1>a, <2>1, <2>2, <2>3 DEF Store, TypeOK
<1>12. ASSUME NEW e \in Event, Acknowledge(e) PROVE TypeOK'
  <2>1. Requests' = Requests /\ stored' \subseteq stored /\ e \in accepted
    BY <1>12 DEF Acknowledge, TypeOK, Requests
  <2>2. reports' \subseteq accepted \X BOOLEAN
    <3>1. <<e, TRUE>> \in accepted \X BOOLEAN
      BY <2>1
    <3>2. QED
      BY <1>12, <3>1, Zenon DEF Acknowledge, TypeOK
  <2>3. QED
    BY <1>12, <1>a, <2>1, <2>2 DEF Acknowledge, TypeOK
<1>13. ASSUME NEW e \in Event, Lose(e) PROVE TypeOK'
  BY <1>13, <1>a, <1>c DEF Lose, TypeOK
<1>14. ASSUME NEW e \in Event, Expire(e) PROVE TypeOK'
  <2>1. /\ sent' \in Seq(Event) /\ Requests' \subseteq Requests
        /\ stored' \subseteq stored /\ unsent' \subseteq unsent /\ e \in accepted
    BY <1>14, <1>c DEF Expire, TypeOK
  <2>2. reports' \subseteq accepted \X BOOLEAN
    <3>1. <<e, FALSE>> \in accepted \X BOOLEAN
      BY <2>1
    <3>2. QED
      BY <1>14, <3>1, Zenon DEF Expire, TypeOK
  <2>3. QED
    BY <1>14, <1>a, <2>1, <2>2 DEF Expire, TypeOK
<1>15. CASE UNCHANGED vars
  BY <1>15, <1>a DEF vars, TypeOK, InFlight
<1>16. QED
  BY <1>1, <1>3, <1>4, <1>5, <1>6, <1>7, <1>8, <1>9, <1>10, <1>11, <1>12, <1>13,
     <1>14, <1>15 DEF Next, Calls, Library, TypeOK

-----------------------------------------------------------------------------
(* A request that is stored adds its event to the broker's, and no other   *)
(* step changes them.                                                      *)
LEMMA StoreAdds ==
  ASSUME TypeOK, PlaceInv, NEW n \in DOMAIN sent, Store(n)
  PROVE  /\ sent[n] \in accepted /\ symbol[sent[n]] \in Symbols
         /\ DOMAIN log' = Symbols /\ DOMAIN log = Symbols
         /\ log'[symbol[sent[n]]] = Append(log[symbol[sent[n]]], sent[n])
         /\ \A s \in Symbols : s # symbol[sent[n]] => log'[s] = log[s]
         /\ OnBroker' = OnBroker \cup {sent[n]}
<1> DEFINE k == symbol[sent[n]]
<1>1. sent[n] \in accepted
  BY DEF TypeOK, InFlight
<1>2. k \in Symbols
  <2>1. sent[n] \in 1..Len(symbol) /\ symbol \in Seq(Symbols)
    BY <1>1 DEF TypeOK
  <2>2. QED
    BY <2>1
<1>3. /\ DOMAIN log' = Symbols /\ DOMAIN log = Symbols
      /\ log'[k] = Append(log[k], sent[n])
      /\ \A s \in Symbols : s # k => log'[s] = log[s]
  BY <1>2 DEF Store, TypeOK
<1>4. /\ log[k] \in Seq(Event) /\ sent[n] \in Event
  BY <1>2 DEF TypeOK
<1>5. /\ DOMAIN log'[k] = 1..(Len(log[k]) + 1) /\ DOMAIN log[k] = 1..Len(log[k])
      /\ log'[k][Len(log[k]) + 1] = sent[n]
      /\ \A i \in DOMAIN log[k] : log'[k][i] = log[k][i]
      /\ Len(log[k]) \in Nat
  BY <1>3, <1>4
<1> HIDE DEF k
<1>6. ASSUME NEW e \in OnBroker' PROVE e \in OnBroker \cup {sent[n]}
  <2>1. PICK s \in Symbols : \E i \in DOMAIN log'[s] : e = log'[s][i]
    BY <1>6 DEF OnBroker
  <2>2. PICK i \in DOMAIN log'[s] : e = log'[s][i]
    BY <2>1
  <2>3. CASE s # k
    BY <1>3, <2>2, <2>3 DEF OnBroker
  <2>4. CASE s = k /\ i # Len(log[k]) + 1
    <3>1. i \in DOMAIN log[s] /\ e = log[s][i]
      BY <1>5, <2>2, <2>4
    <3>2. QED
      BY <3>1 DEF OnBroker
  <2>5. CASE s = k /\ i = Len(log[k]) + 1
    BY <1>5, <2>2, <2>5
  <2>6. QED
    BY <2>3, <2>4, <2>5
<1>7. ASSUME NEW e \in OnBroker PROVE e \in OnBroker'
  <2>1. PICK s \in Symbols : \E i \in DOMAIN log[s] : e = log[s][i]
    BY <1>7 DEF OnBroker
  <2>2. PICK i \in DOMAIN log[s] : e = log[s][i]
    BY <2>1
  <2>3. i \in DOMAIN log'[s] /\ e = log'[s][i]
    BY <1>3, <1>5, <2>2
  <2>4. QED
    BY <2>3 DEF OnBroker
<1>8. sent[n] \in OnBroker'
  <2>1. Len(log[k]) + 1 \in DOMAIN log'[k]
    BY <1>5
  <2>2. QED
    BY <1>2, <1>5, <2>1 DEF OnBroker
<1>9. QED
  BY <1>1, <1>2, <1>3, <1>6, <1>7, <1>8 DEF k

LEMMA BrokerUnchanged ==
  ASSUME [Next]_vars, ~\E n \in DOMAIN sent : Store(n)
  PROVE  log' = log /\ OnBroker' = OnBroker
<1>1. log' = log
  BY DEF Next, Calls, Library, vars, PublishProduce, PublishPoll, Flush, FlushServe,
         FlushDone, FlushTimeout, DestroyFlush, Destroy, Send, Acknowledge, Lose,
         Expire
<1>2. QED
  BY <1>1 DEF OnBroker

LEMMA BrokerStep ==
  ASSUME TypeOK, PlaceInv, BrokerInv, [Next]_vars
  PROVE  BrokerInv'
<1>1. CASE \E n \in DOMAIN sent : Store(n)
  <2>1. PICK n \in DOMAIN sent : Store(n)
    BY <1>1
  <2>2. OnBroker' = OnBroker \cup {sent[n]} /\ sent[n] \in accepted
    BY <2>1, StoreAdds
  <2>3. QED
    BY <2>1, <2>2 DEF BrokerInv, Store
<1>2. CASE ~\E n \in DOMAIN sent : Store(n)
  <2> OnBroker' = OnBroker
    BY <1>2, BrokerUnchanged
  <2>1. ASSUME NEW s \in Symbols, PublishProduce(s) PROVE BrokerInv'
    BY <2>1 DEF PublishProduce, BrokerInv
  <2>2. CASE PublishPoll
    BY <2>2 DEF PublishPoll, DeliveryReports, BrokerInv
  <2>3. CASE Flush \/ FlushDone \/ FlushTimeout \/ DestroyFlush
    BY <2>3 DEF Flush, FlushDone, FlushTimeout, DestroyFlush, BrokerInv
  <2>4. CASE FlushServe
    BY <2>4 DEF FlushServe, DeliveryReports, BrokerInv
  <2>5. CASE Destroy
    BY <2>5 DEF Destroy, BrokerInv
  <2>6. ASSUME NEW e \in Event, Send(e) PROVE BrokerInv'
    BY <2>6 DEF Send, BrokerInv
  <2>7. ASSUME NEW e \in Event, Acknowledge(e) PROVE BrokerInv'
    <3>1. ASSUME NEW r \in reports', r[2] PROVE r[1] \in OnBroker
      <4>1. CASE r \in reports
        BY <3>1, <4>1 DEF BrokerInv
      <4>2. CASE r = <<e, TRUE>>
        BY <2>7, <4>2 DEF BrokerInv, Acknowledge
      <4>3. QED
        BY <2>7, <4>1, <4>2 DEF Acknowledge
    <3>2. QED
      BY <2>7, <3>1 DEF Acknowledge, BrokerInv
  <2>8. ASSUME NEW e \in Event, Lose(e) PROVE BrokerInv'
    BY <2>8 DEF Lose, BrokerInv
  <2>9. ASSUME NEW e \in Event, Expire(e) PROVE BrokerInv'
    <3>1. ASSUME NEW r \in reports', r[2] PROVE r[1] \in OnBroker
      <4>1. CASE r \in reports
        BY <3>1, <4>1 DEF BrokerInv
      <4>2. CASE r = <<e, FALSE>>
        BY <3>1, <4>2
      <4>3. QED
        BY <2>9, <4>1, <4>2 DEF Expire
    <3>2. QED
      BY <2>9, <3>1 DEF Expire, BrokerInv
  <2>10. CASE UNCHANGED vars
    BY <2>10 DEF vars, BrokerInv
  <2>11. QED
    BY <1>2, <2>1, <2>2, <2>3, <2>4, <2>5, <2>6, <2>7, <2>8, <2>9, <2>10
       DEF Next, Calls, Library
<1>3. QED
  BY <1>1, <1>2

-----------------------------------------------------------------------------
(* A step keeps the events that were not sent again in order.              *)
LEMMA OrderStep ==
  ASSUME TypeOK, PlaceInv, BrokerInv, OrderInv, [Next]_vars
  PROVE  OrderInv'
<1>a. /\ unsent \cup Requests \subseteq accepted
      /\ accepted \subseteq 1..Len(symbol) /\ Len(symbol) \in Nat
      /\ sent \in Seq(Event) /\ \A s \in Symbols : log[s] \in Seq(Event)
      /\ \A s \in Symbols : \A i \in DOMAIN log[s] : log[s][i] \in accepted
  <2>1. \A s \in Symbols : \A i \in DOMAIN log[s] : log[s][i] \in OnBroker
    BY DEF OnBroker
  <2>2. QED
    <3>1. unsent \cup Requests \subseteq accepted
      BY DEF TypeOK, InFlight, Requests
    <3>2. Len(symbol) \in Nat /\ \A s \in Symbols : log[s] \in Seq(Event)
      BY DEF TypeOK
    <3>3. \A s \in Symbols : \A i \in DOMAIN log[s] : log[s][i] \in accepted
      BY <2>1 DEF BrokerInv
    <3>4. QED
      BY <3>1, <3>2, <3>3 DEF TypeOK
<1>b. /\ \A s \in Symbols : \A i, j \in DOMAIN log[s] :
           i < j /\ log[s][j] \notin resent => log[s][i] < log[s][j]
      /\ \A s \in Symbols : \A i \in DOMAIN log[s] :
           \A e \in (unsent \cup Requests) \ resent : symbol[e] = s => log[s][i] < e
      /\ \A i, j \in DOMAIN sent :
           i < j /\ symbol[sent[i]] = symbol[sent[j]] /\ sent[j] \notin resent
             => sent[i] < sent[j]
      /\ \A i \in DOMAIN sent : \A e \in unsent \ resent :
           symbol[sent[i]] = symbol[e] => sent[i] < e
  BY DEF OrderInv
<1>c. ASSUME NEW e, sent' = Unsend(e), symbol' = symbol
      PROVE  /\ Requests' = Requests \ {e}
             /\ \A k, l \in DOMAIN sent' :
                  k < l /\ symbol'[sent'[k]] = symbol'[sent'[l]] /\ sent'[l] \notin resent
                    => sent'[k] < sent'[l]
             /\ \A k \in DOMAIN sent' : \A d \in unsent \ resent :
                  symbol'[sent'[k]] = symbol'[d] => sent'[k] < d
  <2>1. /\ Requests' = Requests \ {e}
        /\ \A k, l \in DOMAIN sent' : k < l =>
             \E i, j \in DOMAIN sent : i < j /\ sent'[k] = sent[i] /\ sent'[l] = sent[j]
    BY <1>c, UnsendStep DEF TypeOK, PlaceInv
  <2>2. ASSUME NEW k \in DOMAIN sent', NEW l \in DOMAIN sent', k < l,
               symbol'[sent'[k]] = symbol'[sent'[l]], sent'[l] \notin resent
        PROVE  sent'[k] < sent'[l]
    BY <1>b, <1>c, <2>1, <2>2
  <2>3. ASSUME NEW k \in DOMAIN sent', NEW d \in unsent \ resent, symbol'[sent'[k]] = symbol'[d]
        PROVE  sent'[k] < d
    <3>1. sent'[k] \in Requests
      BY <2>1 DEF Requests
    <3>2. PICK i \in DOMAIN sent : sent'[k] = sent[i]
      BY <3>1 DEF Requests
    <3>3. QED
      BY <1>b, <1>c, <2>3, <3>2
  <2>4. QED
    BY <2>1, <2>2, <2>3
<1>1. ASSUME NEW s \in Symbols, PublishProduce(s) PROVE OrderInv'
  <2>1. /\ sent' = sent /\ log' = log /\ Requests' = Requests
        /\ Len(symbol') = Len(symbol) + 1
        /\ \A e \in 1..Len(symbol) : symbol'[e] = symbol[e]
        /\ unsent' \subseteq unsent \cup {Len(symbol) + 1} /\ resent' = resent
    BY <1>1 DEF PublishProduce, Requests, TypeOK
  <2>2. ASSUME NEW t \in Symbols, NEW i \in DOMAIN log'[t],
               NEW e \in (unsent' \cup Requests') \ resent, symbol'[e] = t
        PROVE  log'[t][i] < e
    <3>1. log[t][i] \in 1..Len(symbol)
      BY <1>a, <2>1
    <3>2. CASE e \in unsent \cup Requests
      BY <1>a, <1>b, <2>1, <2>2, <3>2
    <3>3. CASE e = Len(symbol) + 1
      BY <1>a, <2>1, <3>1, <3>3
    <3>4. QED
      BY <2>1, <3>2, <3>3
  <2>3. \A i \in DOMAIN sent : sent[i] \in 1..Len(symbol)
    BY <1>a DEF Requests
  <2>4. ASSUME NEW i \in DOMAIN sent', NEW j \in DOMAIN sent', i < j,
               symbol'[sent'[i]] = symbol'[sent'[j]], sent'[j] \notin resent
        PROVE  sent'[i] < sent'[j]
    BY <1>b, <2>1, <2>3, <2>4
  <2>5. ASSUME NEW i \in DOMAIN sent', NEW e \in unsent' \ resent, symbol'[sent'[i]] = symbol'[e]
        PROVE  sent'[i] < e
    <3>1. CASE e \in unsent
      BY <1>a, <1>b, <2>1, <2>3, <2>5, <3>1
    <3>2. CASE e = Len(symbol) + 1
      BY <1>a, <2>1, <2>3, <3>2
    <3>3. QED
      BY <2>1, <3>1, <3>2
  <2>6. QED
    BY <1>b, <2>1, <2>2, <2>4, <2>5 DEF OrderInv
<1>2. CASE UNCHANGED <<symbol, unsent, sent, log, resent>>
  BY <1>2, <1>b DEF OrderInv, Requests
<1>3. CASE Destroy
  <2>1. unsent' = {} /\ sent' = <<>> /\ log' = log /\ Requests' = {} /\ resent' = resent
    BY <1>3 DEF Destroy, Requests
  <2>2. QED
    BY <1>b, <2>1 DEF OrderInv
<1>4. ASSUME NEW e \in Event, Send(e) PROVE OrderInv'
  <2>1. /\ symbol' = symbol /\ log' = log /\ unsent' = unsent \ {e} /\ e \in unsent
        /\ DOMAIN sent' = 1..(Len(sent) + 1) /\ DOMAIN sent = 1..Len(sent)
        /\ \A i \in DOMAIN sent : sent'[i] = sent[i]
        /\ sent'[Len(sent) + 1] = e /\ Len(sent) \in Nat /\ resent' = resent
    BY <1>4 DEF Send, TypeOK
  <2>2. unsent' \cup Requests' \subseteq unsent \cup Requests
    BY <2>1 DEF Requests
  <2>3. ASSUME NEW i \in DOMAIN sent', NEW j \in DOMAIN sent', i < j,
               symbol'[sent'[i]] = symbol'[sent'[j]], sent'[j] \notin resent
        PROVE  sent'[i] < sent'[j]
    <3>1. i \in DOMAIN sent
      BY <2>1, <2>3
    <3>2. CASE j \in DOMAIN sent
      BY <1>b, <2>1, <2>3, <3>1, <3>2
    <3>3. CASE j = Len(sent) + 1
      BY <1>b, <2>1, <2>3, <3>1, <3>3
    <3>4. QED
      BY <2>1, <3>2, <3>3
  <2>4. ASSUME NEW i \in DOMAIN sent', NEW d \in unsent' \ resent, symbol'[sent'[i]] = symbol'[d]
        PROVE  sent'[i] < d
    <3>1. CASE i \in DOMAIN sent
      BY <1>b, <2>1, <2>4, <3>1
    <3>2. CASE i = Len(sent) + 1
      <4>1. symbol[d] = symbol[e] /\ d # e /\ d \in unsent
        BY <2>1, <2>4, <3>2
      <4>2. e <= d
        BY <1>4, <4>1 DEF Send, NextToSend
      <4>3. e \in 1..Len(symbol) /\ d \in 1..Len(symbol)
        BY <1>a, <2>1, <4>1
      <4>4. QED
        BY <1>a, <2>1, <3>2, <4>1, <4>2, <4>3
    <3>3. QED
      BY <2>1, <3>1, <3>2
  <2>5. QED
    BY <1>b, <2>1, <2>2, <2>3, <2>4 DEF OrderInv
<1>5. ASSUME NEW n \in DOMAIN sent, Store(n) PROVE OrderInv'
  <2> DEFINE k == symbol[sent[n]]
  <2>1. /\ symbol' = symbol /\ unsent' = unsent /\ sent' = Unsend(sent[n])
        /\ \A m \in 1..(n - 1) : symbol[sent[m]] # symbol[sent[n]]
        /\ resent' = resent
    BY <1>5 DEF Store
  <2>2. /\ k \in Symbols
        /\ log'[k] = Append(log[k], sent[n])
        /\ \A s \in Symbols : s # k => log'[s] = log[s]
        /\ sent[n] \in accepted
    BY <1>5, StoreAdds
  <2>3. /\ DOMAIN log'[k] = 1..(Len(log[k]) + 1) /\ DOMAIN log[k] = 1..Len(log[k])
        /\ log'[k][Len(log[k]) + 1] = sent[n]
        /\ \A i \in DOMAIN log[k] : log'[k][i] = log[k][i]
        /\ Len(log[k]) \in Nat
    BY <1>a, <2>2 DEF TypeOK
  <2>4. Requests' = Requests \ {sent[n]} /\ sent[n] \in Requests
    BY <1>c, <2>1 DEF Requests
  <2>5. ASSUME NEW e \in Requests' \ resent, symbol[e] = k PROVE sent[n] < e
    <3>1. PICK m \in DOMAIN sent : sent[m] = e
      BY <2>4 DEF Requests
    <3>2. m # n /\ m \notin 1..(n - 1)
      BY <2>1, <2>4, <2>5, <3>1
    <3>3. m \in Nat /\ n \in Nat /\ m > 0 /\ n > 0
      BY <1>a
    <3>4. n < m
      BY <3>2, <3>3
    <3>5. QED
      BY <1>b, <2>5, <3>1, <3>4
  <2>6. ASSUME NEW e \in unsent \ resent, symbol[e] = k PROVE sent[n] < e
    BY <1>b, <2>6
  <2> HIDE DEF k
  <2>7. ASSUME NEW s \in Symbols, NEW i \in DOMAIN log'[s], NEW j \in DOMAIN log'[s], i < j,
               log'[s][j] \notin resent
        PROVE  log'[s][i] < log'[s][j]
    <3>1. CASE s # k
      BY <1>b, <2>2, <2>7, <3>1
    <3>2. CASE s = k
      <4>1. i \in DOMAIN log[k] /\ log'[k][i] = log[k][i]
        BY <2>3, <2>7, <3>2
      <4>2. CASE j \in DOMAIN log[k]
        BY <1>b, <2>2, <2>3, <2>7, <3>2, <4>1, <4>2
      <4>3. CASE j = Len(log[k]) + 1
        BY <1>b, <2>2, <2>3, <2>4, <2>7, <3>2, <4>1, <4>3 DEF k
      <4>4. QED
        BY <2>3, <3>2, <4>2, <4>3
    <3>3. QED
      BY <3>1, <3>2
  <2>8. ASSUME NEW s \in Symbols, NEW i \in DOMAIN log'[s],
               NEW e \in (unsent' \cup Requests') \ resent, symbol'[e] = s
        PROVE  log'[s][i] < e
    <3>1. e \in (unsent \cup Requests) \ resent /\ symbol[e] = s
      BY <2>1, <2>4, <2>8
    <3>2. CASE s # k
      BY <1>b, <2>2, <3>1, <3>2
    <3>3. CASE s = k /\ i \in DOMAIN log[k]
      BY <1>b, <2>2, <2>3, <3>1, <3>3
    <3>4. CASE s = k /\ i = Len(log[k]) + 1
      BY <2>1, <2>3, <2>5, <2>6, <2>8, <3>1, <3>4
    <3>5. QED
      BY <2>3, <3>2, <3>3, <3>4
  <2>9. QED
    BY <1>c, <2>1, <2>7, <2>8 DEF OrderInv
<1>6. ASSUME NEW e \in Event, Acknowledge(e) PROVE OrderInv'
  BY <1>2, <1>6 DEF Acknowledge
<1>7. ASSUME NEW e \in Event, Lose(e) PROVE OrderInv'
  <2>1. /\ symbol' = symbol /\ log' = log /\ unsent' = unsent \cup {e}
        /\ sent' = Unsend(e) /\ resent' = resent \cup {e}
    BY <1>7 DEF Lose
  <2>2. Requests' \subseteq Requests
    BY <1>c, <2>1
  <2>3. QED
    BY <1>b, <1>c, <2>1, <2>2 DEF OrderInv
<1>8. ASSUME NEW e \in Event, Expire(e) PROVE OrderInv'
  <2>1. /\ symbol' = symbol /\ log' = log /\ unsent' \subseteq unsent
        /\ sent' = Unsend(e) /\ resent' = resent
    BY <1>8 DEF Expire
  <2>2. Requests' \subseteq Requests
    BY <1>c, <2>1
  <2>3. QED
    BY <1>b, <1>c, <2>1, <2>2 DEF OrderInv
<1>9. QED
  BY <1>1, <1>2, <1>3, <1>4, <1>5, <1>6, <1>7, <1>8
     DEF Next, Calls, Library, vars, PublishPoll, Flush, FlushServe, FlushDone,
         FlushTimeout, DestroyFlush

-----------------------------------------------------------------------------
(* Reports of success and of failure are the reports, and there are as     *)
(* many of each as messages they are for.                                  *)
Succeeded == {r \in reports : r[2]}
Failed == {r \in reports : ~r[2]}

LEMMA ReportsSplit ==
  ASSUME TypeOK, PlaceInv
  PROVE  /\ IsFiniteSet(Succeeded) /\ IsFiniteSet(Failed)
         /\ Cardinality(Succeeded) \in Nat /\ Cardinality(Failed) \in Nat
         /\ Cardinality(reports) = Cardinality(Succeeded) + Cardinality(Failed)
<1>1. IsFiniteSet(Succeeded) /\ IsFiniteSet(Failed)
  BY AllFinite, FS_Subset DEF Succeeded, Failed
<1>2. Succeeded \cap Failed = {} /\ Succeeded \cup Failed = reports
  BY DEF Succeeded, Failed
<1>3. Cardinality(Succeeded) \in Nat /\ Cardinality(Failed) \in Nat
  BY <1>1, FS_CardinalityType
<1>4. Cardinality(reports) =
        Cardinality(Succeeded) + Cardinality(Failed) - Cardinality({})
  BY <1>1, <1>2, FS_Union
<1>5. QED
  BY <1>1, <1>3, <1>4, FS_EmptySet

(* A set of reports, one for each message, has as many members as there    *)
(* are messages in it.                                                     *)
LEMMA ReportsOfEvents ==
  ASSUME PlaceInv, NEW R \in SUBSET reports, IsFiniteSet(R)
  PROVE  /\ IsFiniteSet({r[1] : r \in R})
         /\ Cardinality({r[1] : r \in R}) = Cardinality(R)
<1> DEFINE E == {r[1] : r \in R}
           f == [r \in R |-> r[1]]
<1>1. f \in Bijection(R, E)
  <2>1. f \in [R -> E]
    OBVIOUS
  <2>2. \A q, r \in R : f[q] = f[r] => q = r
    BY DEF PlaceInv
  <2>3. \A e \in E : \E r \in R : f[r] = e
    OBVIOUS
  <2>4. QED
    BY <2>1, <2>2, <2>3, Fun_IsBij
<1>2. ExistsBijection(R, E)
  BY <1>1 DEF ExistsBijection
<1>3. QED
  BY <1>2, FS_Bijection

(* A step counts what it takes from the library, and nothing else. *)
LEMMA CountStep ==
  ASSUME TypeOK, PlaceInv, DeliveryAccounting, [Next]_vars
  PROVE  DeliveryAccounting'
<1> DEFINE L == Cardinality(Held)  R == Cardinality(reports)
           A == Cardinality(accepted)
<1>a. /\ A \in Nat /\ L \in Nat /\ R \in Nat /\ Cardinality(purged) \in Nat
      /\ delivery_successes_ \in Nat /\ delivery_failures_ \in Nat
      /\ IsFiniteSet(Held) /\ IsFiniteSet(accepted) /\ IsFiniteSet(reports)
  BY AllFinite, FS_CardinalityType DEF TypeOK
<1>b. A = delivery_successes_ + delivery_failures_ + (L + R) + Cardinality(purged)
  BY DEF DeliveryAccounting, Outstanding, Held
<1>c. Outstanding' = Cardinality(Held') + Cardinality(reports')
  BY DEF Outstanding, Held
<1>d. Held = unsent \cup Requests \cup stored /\ Held' = unsent' \cup Requests' \cup stored'
  BY DEF Held, InFlight, Requests
<1>e. ASSUME NEW e, sent' = Unsend(e) PROVE Requests' = Requests \ {e}
  BY <1>e, UnsendStep DEF TypeOK, PlaceInv
<1>f. ASSUME NEW e, NEW b, e \in Held, Held' = Held \ {e},
             reports' = reports \cup {<<e, b>>},
             UNCHANGED <<accepted, counts, purged>>
      PROVE  DeliveryAccounting'
  <2>1. Cardinality(Held') = L - 1
    BY <1>a, <1>f, FS_RemoveElement
  <2>2. <<e, b>> \notin reports
    <3>1. <<e, b>>[1] = e
      OBVIOUS
    <3>2. QED
      BY <1>f, <3>1 DEF PlaceInv, Reported
  <2>3. Cardinality(reports') = R + 1
    BY <1>a, <1>f, <2>2, FS_AddElement
  <2>4. QED
    BY <1>a, <1>b, <1>c, <1>f, <2>1, <2>3 DEF DeliveryAccounting
<1>g. ASSUME DeliveryReports, UNCHANGED <<unsent, sent, stored, accepted, purged>>
      PROVE  DeliveryAccounting'
  <2>1. Held' = Held
    BY <1>d, <1>g DEF Requests
  <2>2. Cardinality(reports') = 0
    BY <1>g, FS_EmptySet DEF DeliveryReports
  <2>3. /\ delivery_successes_' = delivery_successes_ + Cardinality(Succeeded)
        /\ delivery_failures_' = delivery_failures_ + Cardinality(Failed)
    BY <1>g DEF DeliveryReports, Succeeded, Failed
  <2>4. QED
    BY <1>a, <1>b, <1>c, <1>g, <2>1, <2>2, <2>3, ReportsSplit DEF DeliveryAccounting
<1>1. ASSUME NEW s \in Symbols, PublishProduce(s) PROVE DeliveryAccounting'
  <2>1. /\ Requests' = Requests /\ Len(symbol') = Len(symbol) + 1 /\ Len(symbol) \in Nat
        /\ UNCHANGED <<stored, reports, counts, purged>>
    <3>1. /\ symbol' = Append(symbol, s) /\ sent' = sent /\ symbol \in Seq(Symbols)
          /\ UNCHANGED <<stored, reports, counts, purged>>
      BY <1>1 DEF PublishProduce, TypeOK
    <3>2. QED
      BY <3>1 DEF Requests
  <2>2. Len(symbol') \notin accepted
    BY <2>1 DEF TypeOK
  <2>3. CASE UNCHANGED <<unsent, accepted>>
    BY <1>a, <1>b, <1>c, <1>d, <2>1, <2>3 DEF DeliveryAccounting
  <2>4. CASE /\ unsent' = unsent \cup {Len(symbol')}
             /\ accepted' = accepted \cup {Len(symbol')}
    <3>1. Held' = Held \cup {Len(symbol')} /\ Len(symbol') \notin Held
      BY <1>d, <2>1, <2>2, <2>4 DEF TypeOK, Held
    <3>2. Cardinality(Held') = L + 1 /\ Cardinality(accepted') = A + 1
      BY <1>a, <2>2, <2>4, <3>1, FS_AddElement
    <3>3. /\ Outstanding' = (L + 1) + R /\ purged' = purged
          /\ delivery_successes_' = delivery_successes_
          /\ delivery_failures_' = delivery_failures_
      BY <1>c, <2>1, <3>2
    <3> HIDE DEF L, R, A
    <3>4. A + 1 = delivery_successes_ + delivery_failures_ + ((L + 1) + R)
                    + Cardinality(purged)
      BY <1>a, <1>b
    <3>5. QED
      BY <3>2, <3>3, <3>4 DEF DeliveryAccounting
  <2>5. QED
    BY <1>1, <2>3, <2>4 DEF PublishProduce
<1>2. CASE PublishPoll
  BY <1>2, <1>g DEF PublishPoll
<1>3. CASE FlushServe
  BY <1>3, <1>g DEF FlushServe
<1>4. ASSUME Held' = Held, UNCHANGED <<reports, accepted, counts, purged>>
      PROVE  DeliveryAccounting'
  BY <1>4, <1>a, <1>b, <1>c DEF DeliveryAccounting
<1>5. CASE Flush \/ FlushDone \/ FlushTimeout \/ DestroyFlush \/ UNCHANGED vars
  BY <1>4, <1>5, <1>d DEF Flush, FlushDone, FlushTimeout, DestroyFlush, vars, Requests
<1>6. CASE Destroy
  <2>1. /\ Held' = {} /\ reports' = {} /\ purged' = Held \cup Reported /\ purged = {}
        /\ UNCHANGED <<accepted, counts>>
    BY <1>6, <1>d DEF Destroy, Held, Reported, Requests, PlaceInv
  <2>2. IsFiniteSet(Reported) /\ Cardinality(Reported) = R
    BY <1>a, ReportsOfEvents DEF Reported
  <2>3. Cardinality(purged') = L + R - Cardinality({})
    BY <1>a, <2>1, <2>2, FS_Union DEF PlaceInv
  <2>4. Cardinality({}) = 0
    BY FS_EmptySet
  <2>5. QED
    BY <1>a, <1>b, <1>c, <2>1, <2>3, <2>4 DEF DeliveryAccounting
<1>7. ASSUME NEW e \in Event, Send(e) PROVE DeliveryAccounting'
  <2>1. Requests' = Requests \cup {e}
    BY <1>7, SendAdds DEF TypeOK
  <2>2. Held' = Held
    BY <1>7, <1>d, <2>1 DEF Send
  <2>3. QED
    BY <1>4, <1>7, <2>2 DEF Send
<1>8. ASSUME NEW n \in DOMAIN sent, Store(n) PROVE DeliveryAccounting'
  <2>1. Requests' = Requests \ {sent[n]} /\ sent[n] \in Requests
    BY <1>8, <1>e DEF Store, Requests
  <2>2. Held' = Held
    BY <1>8, <1>d, <2>1 DEF Store
  <2>3. QED
    BY <1>4, <1>8, <2>2 DEF Store
<1>9. ASSUME NEW e \in Event, Acknowledge(e) PROVE DeliveryAccounting'
  <2>1. Requests' = Requests
    BY <1>9 DEF Acknowledge, Requests
  <2>2. e \in Held /\ Held' = Held \ {e}
    BY <1>9, <1>d, <2>1 DEF Acknowledge, PlaceInv
  <2>3. QED
    BY <1>9, <1>f, <2>2 DEF Acknowledge
<1>10. ASSUME NEW e \in Event, Lose(e) PROVE DeliveryAccounting'
  <2>1. Requests' = Requests \ {e} /\ e \in Requests \cup stored
    BY <1>10, <1>e DEF Lose, InFlight, Requests
  <2>2. Held' = Held
    BY <1>10, <1>d, <2>1 DEF Lose
  <2>3. QED
    BY <1>4, <1>10, <2>2 DEF Lose
<1>11. ASSUME NEW e \in Event, Expire(e) PROVE DeliveryAccounting'
  <2>1. Requests' = Requests \ {e}
    BY <1>11, <1>e DEF Expire
  <2>2. e \in Held /\ Held' = Held \ {e}
    BY <1>11, <1>d, <2>1 DEF Expire, Held
  <2>3. QED
    BY <1>11, <1>f, <2>2 DEF Expire
<1>12. QED
  BY <1>1, <1>2, <1>3, <1>5, <1>6, <1>7, <1>8, <1>9, <1>10, <1>11
     DEF Next, Calls, Library

-----------------------------------------------------------------------------
LEMMA Initially ==
  ASSUME Init
  PROVE  IInv
<1>1. /\ Requests = {} /\ Reported = {} /\ InFlight = {} /\ Held = {}
  BY DEF Init, Requests, Reported, InFlight, Held
<1>2. /\ symbol \in Seq(Symbols) /\ Len(symbol) = 0 /\ sent \in Seq(Event)
      /\ DOMAIN sent = {}
  BY DEF Init
<1>3. /\ log \in [Symbols -> Seq(Event)] /\ \A s \in Symbols : DOMAIN log[s] = {}
  BY DEF Init
<1>4. OnBroker = {}
  BY <1>3 DEF OnBroker
<1>5. Cardinality({}) = 0
  BY FS_EmptySet
<1>6. TypeOK
  BY <1>1, <1>2, <1>3 DEF Init, TypeOK
<1>7. PlaceInv
  BY <1>1, <1>2, ProducerAssumption DEF Init, PlaceInv
<1>8. BrokerInv
  BY <1>4 DEF Init, BrokerInv
<1>9. OrderInv
  BY <1>1, <1>2, <1>3 DEF Init, OrderInv
<1>10. DeliveryAccounting
  <2>1. Outstanding = Cardinality({}) + Cardinality({})
    BY <1>1 DEF Init, Outstanding
  <2>2. QED
    BY <1>5, <2>1 DEF Init, DeliveryAccounting
<1>11. QED
  BY <1>6, <1>7, <1>8, <1>9, <1>10 DEF IInv

LEMMA Preserved ==
  ASSUME IInv, [Next]_vars
  PROVE  IInv'
BY PlaceStep, TypeStep, BrokerStep, OrderStep, CountStep DEF IInv

(* The inductive invariant: every accepted message is in one place, what   *)
(* is reported as delivered is on the broker, an event that was not sent   *)
(* again has only earlier ones of its key before it, and the counts add up.*)
THEOREM Invariant == Spec => []IInv
<1>1. Init => IInv
  BY Initially
<1>2. IInv /\ [Next]_vars => IInv'
  BY Preserved
<1>3. QED
  BY <1>1, <1>2, PTL DEF Spec

(* Every variable has its type, and once ~KafkaEventProducer() has         *)
(* returned the library holds nothing and can call nobody back.            *)
THEOREM TypeCorrect == Spec => []TypeOK
<1>1. IInv => TypeOK
  BY DEF IInv
<1>2. QED
  BY <1>1, Invariant, PTL

(* Every event that rd_kafka_producev() accepted is counted by the         *)
(* delivery report callback exactly once, or is still with librdkafka, or  *)
(* was dropped by rd_kafka_destroy(), whatever was lost, sent again or     *)
(* timed out.                                                              *)
THEOREM Accounting == Spec => []DeliveryAccounting
<1>1. IInv => DeliveryAccounting
  BY DEF IInv
<1>2. QED
  BY <1>1, Invariant, PTL

(* A partition holds the events of a symbol in the order publish() was     *)
(* called for them, and none twice, except the ones that were sent again   *)
(* themselves, although several requests are in flight at once and any of  *)
(* them may be lost.                                                       *)
THEOREM Ordered == Spec => []OrderUnlessResent
<1>1. IInv => OrderUnlessResent
  BY DEF IInv, OrderInv, OrderUnlessResent
<1>2. QED
  BY <1>1, Invariant, PTL

-----------------------------------------------------------------------------
(* The producer implements EventPublisher *)

Pending == unsent \cup InFlight \cup {r[1] : r \in reports}
FlushState == IF caller \in {"flushed", "destroy", "destroyed"}
              THEN IF timedOut THEN "timeout" ELSE "done"
              ELSE "no"

(* EventPublisher counts with the same operator. *)
LEMMA PublisherCardinality ==
  ASSUME NEW S
  PROVE  Publisher!Cardinality(S) = Cardinality(S)
BY DEF Cardinality, Publisher!Cardinality

LEMMA PublisherInit ==
  ASSUME Init
  PROVE  Publisher!Init
<1>1. Pending = {} /\ OnBroker = {} /\ Cardinality(purged) = 0
  <2>1. \A s \in Symbols : DOMAIN log[s] = {}
    BY DEF Init
  <2>2. OnBroker = {}
    BY <2>1 DEF OnBroker
  <2>3. QED
    BY <2>2, FS_EmptySet DEF Init, Pending, InFlight
<1>2. QED
  BY <1>1 DEF Init, Publisher!Init, Pending

(* Callbacks settle the messages whose reports they take away. *)
LEMMA ReportsSettle ==
  ASSUME IInv, DeliveryReports, UNCHANGED <<unsent, sent, stored>>
  PROVE  \E S, F \in SUBSET Pending :
           /\ S \cap F = {} /\ S \subseteq OnBroker
           /\ Pending' = Pending \ (S \cup F)
           /\ delivery_successes_' = delivery_successes_ + Cardinality(S)
           /\ delivery_failures_' = delivery_failures_ + Cardinality(F)
<1> DEFINE S == {r[1] : r \in Succeeded}
           F == {r[1] : r \in Failed}
<1> TypeOK /\ PlaceInv /\ BrokerInv
  BY DEF IInv
<1>1. S \cup F = Reported
  BY DEF Reported, Succeeded, Failed
<1>2. S \cap F = {}
  BY DEF PlaceInv, Succeeded, Failed
<1>3. S \subseteq OnBroker
  BY DEF BrokerInv, Succeeded
<1>4. Pending = Held \cup Reported /\ Pending' = Held
  BY DEF Pending, Held, InFlight, Reported, DeliveryReports
<1>5. Cardinality(S) = Cardinality(Succeeded) /\ Cardinality(F) = Cardinality(Failed)
  <2>1. Succeeded \in SUBSET reports /\ Failed \in SUBSET reports
    BY DEF Succeeded, Failed
  <2>2. QED
    BY <2>1, ReportsOfEvents, ReportsSplit
<1>6. /\ delivery_successes_' = delivery_successes_ + Cardinality(S)
      /\ delivery_failures_' = delivery_failures_ + Cardinality(F)
  BY <1>5 DEF DeliveryReports, Succeeded, Failed
<1>7. Pending' = Pending \ (S \cup F) /\ S \cup F \subseteq Pending
  BY <1>1, <1>4 DEF PlaceInv
<1> HIDE DEF S, F
<1>8. QED
  BY <1>2, <1>3, <1>6, <1>7

LEMMA PublisherStep ==
  ASSUME IInv, [Next]_vars
  PROVE  [Publisher!Next]_(Publisher!vars)
<1> TypeOK /\ PlaceInv /\ BrokerInv
  BY DEF IInv
<1>a. InFlight = Requests \cup stored /\ InFlight' = Requests' \cup stored'
  BY DEF InFlight, Requests
<1>b. Pending = Held \cup Reported /\ Pending' = Held' \cup Reported'
  BY DEF Pending, Held, Reported
<1>c. ASSUME UNCHANGED <<symbol, log, counts, purged>>, Pending' = Pending,
             FlushState' = FlushState, caller # "destroyed", caller' # "destroyed"
      PROVE  UNCHANGED Publisher!vars
  <2>1. OnBroker' = OnBroker
    BY <1>c DEF OnBroker
  <2>2. QED
    BY <1>c, <2>1 DEF Publisher!vars, Pending, FlushState
<1>d. ASSUME NEW e, sent' = Unsend(e) PROVE Requests' = Requests \ {e}
  BY <1>d, UnsendStep DEF TypeOK, PlaceInv
<1>e. Held # {} => caller # "destroyed"
  BY DEF PlaceInv
<1>1. ASSUME NEW s \in Symbols, PublishProduce(s) PROVE Publisher!Next
  <2> DEFINE ok == Outstanding < QueueLimit
  <2>1. /\ Len(symbol') = Len(symbol) + 1
        /\ UNCHANGED <<sent, stored, reports, log, counts, purged>>
        /\ caller = "open" /\ caller' = "poll"
    BY <1>1 DEF PublishProduce, TypeOK
  <2>2. OnBroker' = OnBroker
    BY <2>1 DEF OnBroker
  <2>3. Pending' = IF ok THEN Pending \cup {Len(symbol) + 1} ELSE Pending
    BY <1>1, <2>1 DEF PublishProduce, Pending, InFlight
  <2>4. CASE ok
    <3>1. Publisher!Publish(TRUE)
      BY <2>1, <2>2, <2>3, <2>4 DEF Publisher!Publish, Pending
    <3>2. QED
      BY <3>1 DEF Publisher!Next
  <2>5. CASE ~ok
    <3>1. Publisher!Publish(FALSE)
      BY <2>1, <2>2, <2>3, <2>5 DEF Publisher!Publish, Pending
    <3>2. QED
      BY <3>1 DEF Publisher!Next
  <2>6. QED
    BY <2>4, <2>5
<1>2. ASSUME DeliveryReports, UNCHANGED <<unsent, sent, stored, symbol, log, history>>,
             FlushState' = FlushState, caller # "destroyed", caller' # "destroyed"
      PROVE  Publisher!Next
  <2>1. PICK S \in SUBSET Pending, F \in SUBSET Pending :
           /\ S \cap F = {} /\ S \subseteq OnBroker
           /\ Pending' = Pending \ (S \cup F)
           /\ delivery_successes_' = delivery_successes_ + Cardinality(S)
           /\ delivery_failures_' = delivery_failures_ + Cardinality(F)
    BY <1>2, ReportsSettle
  <2>2. OnBroker' = OnBroker
    BY <1>2 DEF OnBroker
  <2>3. Publisher!Settle(S, F)
    <3>1. S \cup F \subseteq Pending
      BY <2>1
    <3>2. Len(symbol') = Len(symbol) /\ Cardinality(purged') = Cardinality(purged)
      BY <1>2
    <3>3. (caller' # "destroyed") = (caller # "destroyed")
      BY <1>2
    <3>4. QED
      BY <1>2, <2>1, <2>2, <3>1, <3>2, <3>3,
         PublisherCardinality DEF Publisher!Settle, Pending, FlushState
  <2>4. QED
    BY <2>1, <2>3 DEF Publisher!Next, Pending
<1>3. CASE PublishPoll
  BY <1>2, <1>3 DEF PublishPoll, FlushState
<1>4. CASE Flush
  BY <1>4, <1>c DEF Flush, Pending, InFlight, FlushState
<1>5. CASE FlushServe
  BY <1>2, <1>5 DEF FlushServe, FlushState
<1>6. CASE FlushDone
  <2>1. Held = {} /\ reports = {}
    <3>1. Cardinality(Held) + Cardinality(reports) = 0
      BY <1>6 DEF FlushDone, Flushed, Outstanding, Held
    <3>2. /\ IsFiniteSet(Held) /\ IsFiniteSet(reports)
          /\ Cardinality(Held) \in Nat /\ Cardinality(reports) \in Nat
      BY AllFinite, FS_CardinalityType
    <3>3. Cardinality(Held) = 0 /\ Cardinality(reports) = 0
      BY <3>1, <3>2
    <3>4. QED
      BY <3>2, <3>3, FS_EmptySet
  <2>2. Pending = {} /\ Pending' = Pending
    BY <1>6, <1>b, <2>1 DEF FlushDone, Pending, InFlight, Reported
  <2>3. OnBroker' = OnBroker
    BY <1>6 DEF FlushDone, OnBroker
  <2>4. ~timedOut
    BY <1>6 DEF FlushDone, PlaceInv
  <2>5. Publisher!Flush(TRUE)
    BY <1>6, <2>2, <2>3, <2>4 DEF FlushDone, Publisher!Flush, Pending
  <2>6. QED
    BY <2>5 DEF Publisher!Next
<1>7. CASE FlushTimeout
  <2>1. Pending' = Pending /\ OnBroker' = OnBroker
    BY <1>7 DEF FlushTimeout, OnBroker, Pending, InFlight
  <2>2. Publisher!Flush(FALSE)
    BY <1>7, <2>1 DEF FlushTimeout, Publisher!Flush, Pending
  <2>3. QED
    BY <2>2 DEF Publisher!Next
<1>8. CASE DestroyFlush
  BY <1>8, <1>c DEF DestroyFlush, Pending, InFlight, FlushState
<1>9. CASE Destroy
  <2>1. purged' = Pending /\ Pending' = {} /\ OnBroker' = OnBroker
    BY <1>9 DEF Destroy, Pending, InFlight, OnBroker
  <2>2. FlushState' = FlushState
    BY <1>9 DEF Destroy, FlushState
  <2>3. Publisher!Destroy
    <3>1. /\ caller # "destroyed" /\ (caller' # "destroyed") = FALSE
          /\ UNCHANGED <<symbol, counts>>
      BY <1>9 DEF Destroy
    <3>2. Cardinality(purged') = Cardinality(Pending) /\ Len(symbol') = Len(symbol)
      BY <2>1, <3>1
    <3>3. QED
      BY <2>1, <2>2, <3>1, <3>2, PublisherCardinality
         DEF Publisher!Destroy, Pending, FlushState
  <2>4. QED
    BY <2>3 DEF Publisher!Next
<1>10. ASSUME NEW e \in Event, Send(e) PROVE UNCHANGED Publisher!vars
  <2>1. Held' = Held /\ Reported' = Reported /\ e \in Held
    BY <1>10, <1>a, SendAdds DEF Send, TypeOK, Held, Reported
  <2>2. QED
    BY <1>10, <1>b, <1>c, <1>e, <2>1 DEF Send, FlushState
<1>11. ASSUME NEW n \in DOMAIN sent, Store(n) PROVE Publisher!Next
  <2>1. /\ OnBroker' = OnBroker \cup {sent[n]} /\ sent[n] \in Requests
        /\ Requests' = Requests \ {sent[n]}
    BY <1>11, <1>d, StoreAdds DEF Requests, Store
  <2>2. Held' = Held /\ Reported' = Reported /\ sent[n] \in Held
    BY <1>11, <1>a, <2>1 DEF Store, Held, Reported
  <2>3. Pending' = Pending /\ sent[n] \in Pending
    BY <1>b, <2>2
  <2>4. Publisher!Store(sent[n])
    BY <1>11, <2>1, <2>3 DEF Store, Publisher!Store, Pending
  <2>5. QED
    BY <2>3, <2>4 DEF Publisher!Next, Pending
<1>12. ASSUME NEW e \in Event, Acknowledge(e) PROVE UNCHANGED Publisher!vars
  <2>1. Requests' = Requests /\ e \in stored /\ stored' = stored \ {e} /\ unsent' = unsent
    BY <1>12 DEF Acknowledge, Requests
  <2>2. e \in Held /\ e \notin Reported
    BY <1>a, <2>1 DEF Held, PlaceInv
  <2>3. Reported' = Reported \cup {e}
    BY <1>12, <2>2, AddReport DEF Acknowledge, PlaceInv
  <2>4. Held' \cup {e} = Held
    BY <1>a, <2>1 DEF Held
  <2>5. QED
    BY <1>12, <1>b, <1>c, <1>e, <2>2, <2>3, <2>4 DEF Acknowledge, FlushState
<1>13. ASSUME NEW e \in Event, Lose(e) PROVE UNCHANGED Publisher!vars
  <2>1. Requests' = Requests \ {e} /\ e \in Held
    BY <1>13, <1>d DEF Lose, Held
  <2>2. Held' = Held /\ Reported' = Reported
    BY <1>13, <1>a, <2>1 DEF Lose, Held, Reported
  <2>3. QED
    BY <1>13, <1>b, <1>c, <1>e, <2>1, <2>2 DEF Lose, FlushState
<1>14. ASSUME NEW e \in Event, Expire(e) PROVE UNCHANGED Publisher!vars
  <2>1. Requests' = Requests \ {e} /\ e \in Held /\ e \notin Reported
    BY <1>14, <1>d DEF Expire, Held, PlaceInv
  <2>2. Reported' = Reported \cup {e}
    BY <1>14, <2>1, AddReport DEF Expire, PlaceInv
  <2>3. Held' \cup {e} = Held
    BY <1>14, <1>a, <2>1 DEF Expire, Held
  <2>4. QED
    BY <1>14, <1>b, <1>c, <1>e, <2>1, <2>2, <2>3 DEF Expire, FlushState
<1>15. CASE UNCHANGED vars
  <2>1. Pending' = Pending /\ OnBroker' = OnBroker
    BY <1>15 DEF vars, Pending, InFlight, OnBroker
  <2>2. QED
    BY <1>15, <2>1 DEF vars, Publisher!vars, Pending
<1>16. QED
  BY <1>1, <1>3, <1>4, <1>5, <1>6, <1>7, <1>8, <1>9, <1>10, <1>11, <1>12, <1>13,
     <1>14, <1>15 DEF Next, Calls, Library

(* KafkaEventProducer keeps the promise of EventPublisher on which the     *)
(* ingestion service relies: a publish() adds at most its own event, only  *)
(* a stored event is counted as delivered, each event is counted once, a   *)
(* flush() that did not time out leaves nothing pending, and the           *)
(* destructor drops exactly what is pending.                               *)
THEOREM ImplementsPublisher == Spec => PublisherSpec
<1>1. IInv /\ [Next]_vars => [Publisher!Next]_(Publisher!vars)
  BY PublisherStep
<1>2. Init => Publisher!Init
  BY PublisherInit
<1>3. QED
  BY <1>1, <1>2, Invariant, PTL DEF Spec, PublisherSpec, Publisher!Spec
=============================================================================
