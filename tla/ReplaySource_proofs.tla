------------------------ MODULE ReplaySource_proofs ------------------------
(***************************************************************************)
(* Proofs about ReplaySource for any files, word width and clock: what     *)
(* next() may return does not depend on what the lines hold.               *)
(***************************************************************************)
EXTENDS ReplaySource, FiniteSetTheorems, FunctionTheorems, TLAPS

USE DEF stream, call, Return

(* Once next() has returned false, the stream has failed or the stop flag  *)
(* is set; the stream is open whenever next() has been called.             *)
OverInv ==
  /\ stop_requested_ \in BOOLEAN
  /\ outcome = "false" => Over
  /\ reader # "idle" => in_ # "closed"
  /\ outcome # "none" => in_ # "closed"
  /\ outcome = "false" => reader = "idle"

LEMMA InitOver == Init => OverInv
  BY DEF Init, OverInv

LEMMA OverStep ==
  ASSUME OverInv, [Next]_vars
  PROVE /\ OverInv'
        /\ Over => Over' /\ returned' = returned
        /\ outcome' = "false" => Over'
<1> USE DEF OverInv, Over
<1>1. CASE Start
  BY <1>1 DEF Start
<1>2. CASE Stop
  BY <1>2 DEF Stop
<1>3. CASE NextCall
  BY <1>3 DEF NextCall
<1>4. CASE LoopStop
  BY <1>4 DEF LoopStop
<1>5. CASE LoopGo
  BY <1>5 DEF LoopGo
<1>6. CASE ReadEnd
  BY <1>6 DEF ReadEnd
<1>7. CASE ReadSkipped
  BY <1>7 DEF ReadSkipped, AtEnd
<1>8. CASE ReadThrows
  BY <1>8 DEF ReadThrows, AtEnd
<1>9. CASE ReadEvent
  BY <1>9 DEF ReadEvent, AtEnd
<1>10. CASE UNCHANGED vars
  BY <1>10 DEF vars
<1>11. QED
  BY <1>1, <1>2, <1>3, <1>4, <1>5, <1>6, <1>7, <1>8, <1>9, <1>10
  DEF Next, ReaderStep

(* No event follows a stop() or a false, not even after another start(). *)
THEOREM FalseFinal == Spec => FalseIsFinal
<1>1. OverInv /\ [Next]_vars => OverInv'
  BY OverStep
<1>2. OverInv /\ [Next]_vars
        => [(Over => Over' /\ returned' = returned) /\ (outcome' = "false" => Over')]_vars
  BY OverStep
<1>3. QED
  BY InitOver, <1>1, <1>2, PTL DEF Spec, FalseIsFinal

(* The replay source is a MarketDataSource that may end by itself. *)
THEOREM ImplementsSource == Spec => SourceSpec
<1>1. Init => Source!Init
  BY DEF Init, Source!Init
<1>2. [Next]_vars => [Source!Next]_Source!vars
  <2> SUFFICES ASSUME [Next]_vars PROVE [Source!Next]_Source!vars
    OBVIOUS
  <2> USE DEF Source!vars
  <2>1. CASE Start
    BY <2>1 DEF Start
  <2>2. CASE Stop
    BY <2>2 DEF Stop, Source!Next, Source!Stop
  <2>3. CASE NextCall
    BY <2>3 DEF NextCall, Source!Next, Source!Call
  <2>4. CASE LoopStop
    BY <2>4 DEF LoopStop, Source!Next, Source!ReturnFalse
  <2>5. CASE LoopGo
    BY <2>5 DEF LoopGo, Source!Next, Source!Enter
  <2>6. CASE ReadEnd
    BY <2>6 DEF ReadEnd, Source!Next, Source!ReturnFalse
  <2>7. CASE ReadSkipped
    BY <2>7 DEF ReadSkipped
  <2>8. CASE ReadThrows
    BY <2>8 DEF ReadThrows
  <2>9. CASE ReadEvent
    BY <2>9 DEF ReadEvent, Source!Next, Source!ReturnTrue
  <2>10. CASE UNCHANGED vars
    BY <2>10 DEF vars
  <2>11. QED
    BY <2>1, <2>2, <2>3, <2>4, <2>5, <2>6, <2>7, <2>8, <2>9, <2>10
    DEF Next, ReaderStep
<1>3. QED
  BY <1>1, <1>2, PTL DEF Spec, SourceSpec, Source!Spec

-----------------------------------------------------------------------------
(* The arithmetic of the codec: W-bit integers and the system clock *)

(* The subsets of 1..n+1 are those of 1..n, each without and with n + 1. *)
LEMMA DoubledPower ==
  ASSUME NEW n \in Nat
  PROVE  2^n \in Nat \ {0} /\ 2^(n + 1) = 2 * 2^n
<1> DEFINE S == 1..n
           T == S \cup {n + 1}
           With == {A \cup {n + 1} : A \in SUBSET S}
           add == [A \in SUBSET S |-> A \cup {n + 1}]
<1>1. IsFiniteSet(S) /\ Cardinality(S) = n /\ n + 1 \notin S
  BY FS_Interval
<1>2. IsFiniteSet(T) /\ Cardinality(T) = n + 1
  BY <1>1, FS_AddElement
<1>3. /\ IsFiniteSet(SUBSET S) /\ Cardinality(SUBSET S) = 2^n
      /\ Cardinality(SUBSET T) = 2^(n + 1)
  BY <1>1, <1>2, FS_SUBSET
<1>4. add \in Bijection(SUBSET S, With)
  <2>1. add \in [SUBSET S -> With]
    OBVIOUS
  <2>2. ASSUME NEW A \in SUBSET S, NEW B \in SUBSET S, add[A] = add[B]
        PROVE  A = B
    <3>1. A \cup {n + 1} = B \cup {n + 1}
      BY <2>2
    <3>2. n + 1 \notin A /\ n + 1 \notin B
      BY <1>1
    <3>3. QED
      BY <3>1, <3>2
  <2>3. \A D \in With : \E A \in SUBSET S : add[A] = D
    OBVIOUS
  <2>4. QED
    BY <2>1, <2>2, <2>3 DEF Bijection, Injection, Surjection, IsInjective
<1>5. IsFiniteSet(With) /\ Cardinality(With) = Cardinality(SUBSET S)
  BY <1>3, <1>4, FS_Bijection DEF ExistsBijection
<1>6. SUBSET T = (SUBSET S) \cup With /\ (SUBSET S) \cap With = {}
  <2>1. ASSUME NEW A \in SUBSET T PROVE A \in (SUBSET S) \cup With
    <3>1. CASE n + 1 \in A
      <4>1. A \ {n + 1} \in SUBSET S /\ A = (A \ {n + 1}) \cup {n + 1}
        BY <3>1
      <4>2. QED
        BY <4>1
    <3>2. CASE n + 1 \notin A
      BY <3>2
    <3>3. QED
      BY <3>1, <3>2
  <2>2. ASSUME NEW A \in (SUBSET S) \cup With PROVE A \in SUBSET T
    OBVIOUS
  <2>3. ASSUME NEW A \in With PROVE A \notin SUBSET S
    <3>1. n + 1 \in A
      BY <2>3
    <3>2. QED
      BY <1>1, <3>1
  <2>4. QED
    BY <2>1, <2>2, <2>3
<1> HIDE DEF S, T, With, add
<1>7. Cardinality((SUBSET S) \cup With) =
        Cardinality(SUBSET S) + Cardinality(With) - Cardinality((SUBSET S) \cap With)
  BY <1>3, <1>5, FS_Union
<1>8. Cardinality({}) = 0 /\ Cardinality(SUBSET S) \in Nat \ {0}
  <2>1. SUBSET S # {}
    OBVIOUS
  <2>2. QED
    BY <1>3, <2>1, FS_EmptySet, FS_CardinalityType
<1>9. Cardinality(SUBSET T) = Cardinality(SUBSET S) + Cardinality(SUBSET S) - 0
  BY <1>5, <1>6, <1>7, <1>8
<1>10. QED
  BY <1>3, <1>8, <1>9

Half == 2^(W - 1)
Int64 == -Half .. (Half - 1)

LEMMA Width == Half \in Nat \ {0} /\ 2^W = 2 * Half
<1>1. W - 1 \in Nat /\ (W - 1) + 1 = W
  BY CodecAssumption
<1>2. QED
  BY <1>1, DoubledPower DEF Half

LEMMA SignedInRange ==
  ASSUME NEW n \in Int
  PROVE  Signed(n) \in Int64
<1>1. Unsigned(n) \in 0..(2 * Half - 1)
  BY Width DEF Unsigned
<1>2. QED
  BY <1>1, Width DEF Signed, Int64, Half

LEMMA SignedKeeps ==
  ASSUME NEW n \in Int64
  PROVE  Signed(n) = n
<1>1. n \in Int /\ -Half <= n /\ n < Half /\ Half \in Nat \ {0}
  BY Width DEF Int64
<1>2. CASE n >= 0
  <2>1. Unsigned(n) = n
    BY <1>1, <1>2, Width DEF Unsigned
  <2>2. QED
    BY <1>1, <2>1 DEF Signed, Half
<1>3. CASE n < 0
  <2>1. Unsigned(n) = n + 2 * Half
    BY <1>1, <1>3, Width DEF Unsigned
  <2>2. QED
    BY <1>1, <1>3, <2>1, Width DEF Signed, Half
<1>4. QED
  BY <1>1, <1>2, <1>3

LEMMA UnsignedKeeps ==
  ASSUME NEW n \in Int
  PROVE  Unsigned(n) \in Int /\ Unsigned(Unsigned(n)) = Unsigned(n)
BY Width DEF Unsigned

(* Rounding towards zero stays in range, and so does the way back. *)
LEMMA MsInRange ==
  ASSUME NEW t \in Int64
  PROVE  MsFromTime(t) \in Int64 /\ MsFromTime(t) * Scale \in Int64
<1>0. /\ t \in Int /\ -Half <= t /\ t < Half /\ Half \in Nat \ {0}
      /\ Scale \in Nat \ {0}
  BY Width, CodecAssumption DEF Int64
<1>1. CASE t >= 0
  <2> DEFINE q == t \div Scale
  <2>1. q \in Nat /\ q <= t /\ q * Scale <= t
    BY <1>0, <1>1
  <2>2. q * Scale \in Nat
    BY <1>0, <2>1
  <2>3. MsFromTime(t) = q
    BY <1>0, <1>1 DEF MsFromTime
  <2> HIDE DEF q
  <2>4. QED
    BY <1>0, <2>1, <2>2, <2>3 DEF Int64
<1>2. CASE t < 0
  <2> DEFINE q == (-t) \div Scale
  <2>1. q \in Nat /\ q <= -t /\ q * Scale <= -t
    BY <1>0, <1>2
  <2>2. q * Scale \in Nat /\ (-q) * Scale = -(q * Scale)
    BY <1>0, <2>1
  <2>3. MsFromTime(t) = -q
    BY <1>0, <1>2 DEF MsFromTime
  <2> HIDE DEF q
  <2>4. QED
    BY <1>0, <2>1, <2>2, <2>3 DEF Int64
<1>3. QED
  BY <1>0, <1>1, <1>2

(* A whole number of milliseconds is found again. *)
LEMMA MsExact ==
  ASSUME NEW k \in Int
  PROVE  MsFromTime(k * Scale) = k
<1>0. Scale \in Nat \ {0} /\ k * Scale \in Int
  BY CodecAssumption
<1>1. CASE k >= 0
  <2>1. k * Scale >= 0 /\ (k * Scale) \div Scale = k
    BY <1>0, <1>1
  <2>2. QED
    BY <2>1 DEF MsFromTime
<1>2. CASE k < 0
  <2> DEFINE m == -k
  <2>1. m \in Nat \ {0} /\ k = -m
    BY <1>2
  <2>2. m * Scale \in Nat \ {0} /\ -(k * Scale) = m * Scale
    BY <1>0, <2>1
  <2>3. (m * Scale) \div Scale = m
    BY <1>0, <2>1
  <2>4. ~(k * Scale >= 0)
    BY <1>0, <2>2
  <2>5. QED
    BY <1>0, <2>1, <2>2, <2>3, <2>4 DEF MsFromTime
<1>3. QED
  BY <1>1, <1>2

(* The time that is written and read again: what is below a millisecond is *)
(* lost, and nothing if the time came from a product without overflow.     *)
LEMMA TimeAgain ==
  ASSUME NEW m \in Int
  PROVE  /\ TimeFromMs(MsFromTime(TimeFromMs(m))) = MsFromTime(TimeFromMs(m)) * Scale
         /\ Signed(m) * Scale \in Int64 => MsFromTime(TimeFromMs(m)) * Scale = TimeFromMs(m)
<1>0. Scale \in Nat \ {0} /\ Signed(m) \in Int64 /\ Signed(m) \in Int
  BY CodecAssumption, SignedInRange, Width DEF Int64
<1>1. TimeFromMs(m) \in Int64
  BY <1>0, SignedInRange DEF TimeFromMs
<1>2. MsFromTime(TimeFromMs(m)) \in Int64 /\ MsFromTime(TimeFromMs(m)) * Scale \in Int64
  BY <1>1, MsInRange
<1>3. TimeFromMs(MsFromTime(TimeFromMs(m))) = MsFromTime(TimeFromMs(m)) * Scale
  <2>1. \A x \in Int64 : x * Scale \in Int64 => TimeFromMs(x) = x * Scale
    BY SignedKeeps DEF TimeFromMs
  <2>2. QED
    BY <1>2, <2>1
<1>4. ASSUME Signed(m) * Scale \in Int64
      PROVE  MsFromTime(TimeFromMs(m)) * Scale = TimeFromMs(m)
  <2>1. TimeFromMs(m) = Signed(m) * Scale
    BY <1>4, SignedKeeps DEF TimeFromMs
  <2>2. QED
    BY <1>0, <2>1, MsExact
<1>5. QED
  BY <1>3, <1>4


-----------------------------------------------------------------------------
(* The codec: what was read, written and read again *)

(* The event that an object with the members an event needs stands for. *)
EventOf(fs) ==
  [symbol |-> fs["symbol"][2],
   price |-> <<"finite", fs["price"][2]>>,
   event_time |-> TimeFromMs(fs["event_time_ms"][2]),
   provider_sequence |-> IF Has(fs, "provider_sequence", {"integer"})
                         THEN <<Unsigned(fs["provider_sequence"][2])>> ELSE <<>>,
   source |-> IF Has(fs, "source", {"string"}) THEN fs["source"][2] ELSE ""]

IsEvent(text) ==
  /\ text.is = "object"
  /\ NonEmptyString(text.fields, "symbol")
  /\ Has(text.fields, "price", {"integer", "float"})
  /\ Has(text.fields, "event_time_ms", {"integer"})

LEMMA FromJson ==
  ASSUME NEW text
  PROVE  /\ IsEvent(text) => marketEventFromJson(text) = << EventOf(text.fields) >>
         /\ ~IsEvent(text) => marketEventFromJson(text) = <<>>
BY DEF marketEventFromJson, IsEvent, EventOf

(* What is written for an event with a finite price is an event's text. *)
LEMMA ToJson ==
  ASSUME NEW s, NEW x, NEW t, NEW p, NEW src, s # ""
  PROVE  LET e == [symbol |-> s, price |-> <<"finite", x>>, event_time |-> t,
                   provider_sequence |-> p, source |-> src]
             text == marketEventToJson(e)
         IN  /\ IsEvent(text)
             /\ EventOf(text.fields) =
                  [symbol |-> s, price |-> <<"finite", x>>,
                   event_time |-> TimeFromMs(MsFromTime(t)),
                   provider_sequence |-> IF p = <<>> THEN <<>> ELSE <<Unsigned(p[1])>>,
                   source |-> src]
<1> DEFINE e == [symbol |-> s, price |-> <<"finite", x>>, event_time |-> t,
                 provider_sequence |-> p, source |-> src]
           text == marketEventToJson(e)
           D == {"symbol", "price", "event_time_ms", "source"}
                  \cup (IF p = <<>> THEN {} ELSE {"provider_sequence"})
<1>1. text.is = "object" /\ DOMAIN text.fields = D
  BY DEF marketEventToJson
<1>2. /\ text.fields["symbol"] = <<"string", s>>
      /\ text.fields["price"] = <<"float", x>>
      /\ text.fields["event_time_ms"] = <<"integer", MsFromTime(t)>>
      /\ text.fields["source"] = <<"string", src>>
      /\ p # <<>> => text.fields["provider_sequence"] = <<"integer", p[1]>>
  BY DEF marketEventToJson, DoubleToJson
<1> DEFINE fs == text.fields
<1>3. /\ "symbol" \in DOMAIN fs /\ "price" \in DOMAIN fs
      /\ "event_time_ms" \in DOMAIN fs /\ "source" \in DOMAIN fs
      /\ "provider_sequence" \in DOMAIN fs <=> p # <<>>
  BY <1>1
<1>4. /\ fs["symbol"][1] = "string" /\ fs["symbol"][2] = s
      /\ fs["source"][1] = "string" /\ fs["source"][2] = src
  <2>1. fs["symbol"] = <<"string", s>> /\ fs["source"] = <<"string", src>>
    BY <1>2
  <2>2. QED
    BY ONLY <2>1
<1>5. fs["price"][1] = "float" /\ fs["price"][2] = x
  <2>1. fs["price"] = <<"float", x>>
    BY <1>2
  <2>2. QED
    BY ONLY <2>1
<1>6. fs["event_time_ms"][1] = "integer" /\ fs["event_time_ms"][2] = MsFromTime(t)
  <2>1. fs["event_time_ms"] = <<"integer", MsFromTime(t)>>
    BY <1>2
  <2>2. QED
    BY ONLY <2>1
<1>7. p # <<>> => /\ fs["provider_sequence"][1] = "integer"
                  /\ fs["provider_sequence"][2] = p[1]
  <2> SUFFICES ASSUME p # <<>>
               PROVE  /\ fs["provider_sequence"][1] = "integer"
                      /\ fs["provider_sequence"][2] = p[1]
    OBVIOUS
  <2>1. fs["provider_sequence"] = <<"integer", p[1]>>
    BY <1>2
  <2>2. QED
    BY ONLY <2>1
<1> HIDE DEF fs, text, D
<1>8. /\ NonEmptyString(fs, "symbol") /\ Has(fs, "price", {"integer", "float"})
      /\ Has(fs, "event_time_ms", {"integer"})
      /\ Has(fs, "source", {"string"})
      /\ Has(fs, "provider_sequence", {"integer"}) <=> p # <<>>
  BY <1>3, <1>4, <1>5, <1>6, <1>7 DEF NonEmptyString, Has
<1>9. IsEvent(text)
  BY <1>1, <1>8 DEF IsEvent, fs
<1>10. EventOf(fs) =
         [symbol |-> s, price |-> <<"finite", x>>,
          event_time |-> TimeFromMs(MsFromTime(t)),
          provider_sequence |-> IF p = <<>> THEN <<>> ELSE <<Unsigned(p[1])>>,
          source |-> src]
  <2>1. (IF Has(fs, "provider_sequence", {"integer"})
         THEN <<Unsigned(fs["provider_sequence"][2])>> ELSE <<>>) =
        (IF p = <<>> THEN <<>> ELSE <<Unsigned(p[1])>>)
    BY <1>7, <1>8
  <2>2. (IF Has(fs, "source", {"string"}) THEN fs["source"][2] ELSE "") = src
    BY <1>4, <1>8
  <2>3. QED
    BY <1>4, <1>5, <1>6, <2>1, <2>2 DEF EventOf
<1>11. QED
  BY <1>9, <1>10 DEF text, fs


(* An event that was read from a text, written and read again is the same  *)
(* event, but for the part of its time that is below a millisecond.        *)
LEMMA Recaptured ==
  ASSUME NEW text, IsEvent(text),
         \A k \in DOMAIN text.fields :
           text.fields[k][1] = "integer" => text.fields[k][2] \in Int
  PROVE  LET e == EventOf(text.fields)
             again == marketEventFromJson(marketEventToJson(e))
         IN  /\ again = << [e EXCEPT !.event_time = MsFromTime(e.event_time) * Scale] >>
             /\ Signed(text.fields["event_time_ms"][2]) * Scale \in Int64 => again = <<e>>
<1> DEFINE fs == text.fields
           s == fs["symbol"][2]
           x == fs["price"][2]
           m == fs["event_time_ms"][2]
           n == fs["provider_sequence"][2]
           t == TimeFromMs(m)
           p == IF Has(fs, "provider_sequence", {"integer"}) THEN <<Unsigned(n)>> ELSE <<>>
           src == IF Has(fs, "source", {"string"}) THEN fs["source"][2] ELSE ""
           e == [symbol |-> s, price |-> <<"finite", x>>, event_time |-> t,
                 provider_sequence |-> p, source |-> src]
           again == marketEventFromJson(marketEventToJson(e))
<1>1. EventOf(text.fields) = e
  BY DEF EventOf
<1>2. s # "" /\ m \in Int
  BY DEF IsEvent, NonEmptyString, Has
<1>3. p = <<>> \/ (p = <<Unsigned(n)>> /\ n \in Int)
  BY DEF Has
<1>4. (IF p = <<>> THEN <<>> ELSE <<Unsigned(p[1])>>) = p
  <2>1. CASE p = <<>>
    BY <2>1
  <2>2. CASE p = <<Unsigned(n)>> /\ n \in Int
    <3>1. Unsigned(p[1]) = Unsigned(n) /\ p # <<>>
      BY <2>2, UnsignedKeeps
    <3>2. QED
      BY <2>2, <3>1
  <2>3. QED
    BY <1>3, <2>1, <2>2
<1>5. /\ TimeFromMs(MsFromTime(t)) = MsFromTime(t) * Scale
      /\ Signed(m) * Scale \in Int64 => MsFromTime(t) * Scale = t
  BY <1>2, TimeAgain
<1> HIDE DEF s, x, m, n, t, p, src
<1>6. again = << [symbol |-> s, price |-> <<"finite", x>>,
                  event_time |-> TimeFromMs(MsFromTime(t)),
                  provider_sequence |-> IF p = <<>> THEN <<>> ELSE <<Unsigned(p[1])>>,
                  source |-> src] >>
  <2>1. /\ IsEvent(marketEventToJson(e))
        /\ EventOf(marketEventToJson(e).fields) =
             [symbol |-> s, price |-> <<"finite", x>>,
              event_time |-> TimeFromMs(MsFromTime(t)),
              provider_sequence |-> IF p = <<>> THEN <<>> ELSE <<Unsigned(p[1])>>,
              source |-> src]
    BY <1>2, ToJson, Zenon
  <2> DEFINE written == marketEventToJson(e)
  <2> HIDE DEF written
  <2>2. marketEventFromJson(written) = << EventOf(written.fields) >>
    BY <2>1, FromJson DEF written
  <2>3. QED
    BY <2>1, <2>2 DEF written
<1>7. again = << [symbol |-> s, price |-> <<"finite", x>>,
                  event_time |-> MsFromTime(t) * Scale,
                  provider_sequence |-> p, source |-> src] >>
  BY <1>4, <1>5, <1>6
<1>8. again = << [e EXCEPT !.event_time = MsFromTime(e.event_time) * Scale] >>
  <2>1. e.event_time = t
    OBVIOUS
  <2>2. [e EXCEPT !.event_time = MsFromTime(t) * Scale] =
          [symbol |-> s, price |-> <<"finite", x>>, event_time |-> MsFromTime(t) * Scale,
           provider_sequence |-> p, source |-> src]
    OBVIOUS
  <2>3. QED
    BY <1>7, <2>1, <2>2
<1>9. Signed(m) * Scale \in Int64 => again = <<e>>
  BY <1>5, <1>7
<1>10. QED
  BY <1>1, <1>8, <1>9 DEF m


-----------------------------------------------------------------------------
(* The lines read *)

GoodLine(i) == marketEventFromJson(file[i]) # <<>>
BadLine(i) == ~GoodLine(i) /\ file[i].is \notin {"empty", "overflow"}
GoodLines == {i \in 1..pos : GoodLine(i)}
BadLines == {i \in 1..pos \ GoodLines : file[i].is \notin {"empty", "overflow"}}
FileEvents == {EventOf(file[i].fields) : i \in {j \in DOMAIN file : IsEvent(file[j])}}

(* The position is in the file, and each event returned is one that was    *)
(* read.                                                                   *)
LineInv ==
  /\ file \in Seq({file[i] : i \in DOMAIN file})
  /\ pos \in 0..Len(file)
  /\ lines_malformed_ \in Nat
  /\ returned \in Seq(FileEvents)
  /\ \A i \in 1..Len(returned) :
       \E k \in 1..pos : marketEventFromJson(file[k]) = << returned[i] >>

(* What a step does to the lines: one is read, or none. *)
LineRead ==
  \/ UNCHANGED <<file, pos, returned, lines_malformed_>>
  \/ /\ file' = file /\ pos' = pos + 1 /\ pos < Len(file)
     /\ \/ /\ ~GoodLine(pos + 1) /\ ~BadLine(pos + 1)
           /\ UNCHANGED <<returned, lines_malformed_>>
        \/ /\ BadLine(pos + 1) /\ lines_malformed_' = lines_malformed_ + 1
           /\ UNCHANGED returned
        \/ /\ GoodLine(pos + 1)
           /\ returned' = returned \o marketEventFromJson(file[pos + 1])
           /\ UNCHANGED lines_malformed_

LEMMA LineStep ==
  ASSUME LineInv, [Next]_vars
  PROVE  LineRead
<1> USE DEF LineRead
<1>0. file \in Seq({file[i] : i \in DOMAIN file}) /\ Len(file) \in Nat /\ pos \in 0..Len(file)
  BY DEF LineInv
<1>1. ~AtEnd => pos < Len(file)
  BY <1>0 DEF AtEnd
<1>2. GoodLine(pos + 1) <=> IsEvent(file[pos + 1])
  BY FromJson DEF GoodLine
<1>a. file' = file
  BY DEF Next, vars
<1>3. CASE ReadSkipped
  <2>1. CASE Skipped(file[pos + 1])
    <3>1. ~IsEvent(file[pos + 1])
      BY <2>1 DEF Skipped, IsEvent
    <3>2. QED
      BY <1>a, <1>1, <1>2, <1>3, <2>1, <3>1 DEF ReadSkipped, Skipped, Malformed, BadLine
  <2>2. CASE Malformed(file[pos + 1])
    BY <1>a, <1>1, <1>3, <2>2 DEF ReadSkipped, Malformed, Skipped, BadLine, GoodLine
  <2>3. QED
    BY <1>3, <2>1, <2>2 DEF ReadSkipped
<1>4. CASE ReadThrows
  <2>1. ~IsEvent(file[pos + 1])
    BY <1>4 DEF ReadThrows, IsEvent
  <2>2. QED
    BY <1>a, <1>1, <1>2, <1>4, <2>1 DEF ReadThrows, BadLine
<1>5. CASE ReadEvent
  BY <1>a, <1>1, <1>5 DEF ReadEvent, GoodLine
<1>6. QED
  BY <1>3, <1>4, <1>5
  DEF Next, ReaderStep, Start, Stop, NextCall, LoopStop, LoopGo, ReadEnd, vars


LEMMA LineInvStep ==
  ASSUME LineInv, LineRead
  PROVE  LineInv'
<1>0. /\ file \in Seq({file[i] : i \in DOMAIN file}) /\ Len(file) \in Nat /\ pos \in 0..Len(file)
      /\ returned \in Seq(FileEvents) /\ Len(returned) \in Nat /\ DOMAIN file = 1..Len(file)
  BY DEF LineInv
<1>1. CASE UNCHANGED <<file, pos, returned, lines_malformed_>>
  BY <1>1 DEF LineInv, FileEvents
<1>2. CASE /\ file' = file /\ pos' = pos + 1 /\ pos < Len(file)
           /\ lines_malformed_' \in Nat /\ UNCHANGED returned
  <2>1. 1..pos \subseteq 1..pos' /\ pos' \in 0..Len(file')
    BY <1>0, <1>2
  <2>2. QED
    BY <1>2, <2>1 DEF LineInv, FileEvents
<1>3. CASE /\ file' = file /\ pos' = pos + 1 /\ pos < Len(file)
           /\ GoodLine(pos + 1)
           /\ returned' = returned \o marketEventFromJson(file[pos + 1])
           /\ UNCHANGED lines_malformed_
  <2> DEFINE e == EventOf(file[pos + 1].fields)
             n == Len(returned)
  <2>1. marketEventFromJson(file[pos + 1]) = <<e>> /\ IsEvent(file[pos + 1])
    BY <1>3, FromJson DEF GoodLine
  <2>2. pos + 1 \in DOMAIN file /\ 1..pos \subseteq 1..pos' /\ pos + 1 \in 1..pos'
        /\ pos' \in 0..Len(file')
    BY <1>0, <1>3
  <2>3. e \in FileEvents
    BY <2>1, <2>2 DEF FileEvents
  <2> HIDE DEF e
  <2>4. /\ returned' \in Seq(FileEvents) /\ Len(returned') = n + 1 /\ returned'[n + 1] = e
        /\ \A i \in 1..n : returned'[i] = returned[i]
    BY <1>0, <1>3, <2>1, <2>3
  <2>5. ASSUME NEW i \in 1..Len(returned')
        PROVE  \E k \in 1..pos' : marketEventFromJson(file'[k]) = << returned'[i] >>
    <3>1. CASE i = n + 1
      BY <1>3, <2>1, <2>2, <2>4, <3>1
    <3>2. CASE i \in 1..n
      <4>1. PICK k \in 1..pos : marketEventFromJson(file[k]) = << returned[i] >>
        BY <3>2 DEF LineInv
      <4>2. QED
        BY <1>3, <2>2, <2>4, <3>2, <4>1
    <3>3. QED
      BY <1>0, <2>4, <3>1, <3>2
  <2>6. FileEvents' = FileEvents
    BY <1>3 DEF FileEvents
  <2>7. QED
    BY <1>3, <2>2, <2>4, <2>5, <2>6 DEF LineInv
<1>4. QED
  BY <1>1, <1>2, <1>3 DEF LineInv, LineRead


(* The lines that were returned and counted, and the line that threw. *)
Faithful ==
  /\ Len(returned) = Cardinality(GoodLines)
  /\ \A i \in GoodLines : marketEventFromJson(file[i]) = << returned[Rank(GoodLines, i)] >>
  /\ lines_malformed_ = Cardinality(BadLines)

ThrowInv == \A i \in 1..pos : file[i].is = "overflow" => i = pos /\ reader = "aborted"

(* ReplayFaithful in the terms of this module. *)
LEMMA FaithfulIs == ReplayFaithful <=> Faithful /\ ThrowInv
BY DEF ReplayFaithful, Faithful, ThrowInv, GoodLines, BadLines, GoodLine

(* Every other step that reads a line has seen that it does not throw, and *)
(* after the one that does there is no step.                               *)
LEMMA ThrowStep ==
  ASSUME pos \in Nat, ThrowInv, [Next]_vars
  PROVE  ThrowInv'
<1> USE DEF ThrowInv
<1>1. CASE UNCHANGED <<file, pos, reader>>
  BY <1>1
<1>2. ASSUME file' = file, pos' = pos, reader # "aborted" PROVE ThrowInv'
  BY <1>2
<1>3. ASSUME file' = file, pos' = pos + 1, reader # "aborted",
             file[pos + 1].is = "overflow" => reader' = "aborted"
      PROVE  ThrowInv'
  <2>1. \A i \in 1..pos' : i \in 1..pos \/ i = pos'
    BY <1>3
  <2>2. QED
    BY <1>3, <2>1
<1>4. CASE Next
  <2>1. file' = file /\ reader # "aborted"
    BY <1>4 DEF Next
  <2>2. CASE Start \/ Stop \/ NextCall \/ LoopStop \/ LoopGo \/ ReadEnd
    BY <1>2, <2>1, <2>2 DEF Start, Stop, NextCall, LoopStop, LoopGo, ReadEnd, stream, call
  <2>3. CASE ReadThrows
    BY <1>3, <2>1, <2>3 DEF ReadThrows
  <2>4. CASE ReadSkipped
    BY <1>3, <2>1, <2>4 DEF ReadSkipped, Skipped, Malformed
  <2>5. CASE ReadEvent
    <3>1. file[pos + 1].is = "object"
      BY <2>5, FromJson DEF ReadEvent, IsEvent
    <3>2. QED
      BY <1>3, <2>1, <2>5, <3>1 DEF ReadEvent
  <2>6. QED
    BY <1>4, <2>2, <2>3, <2>4, <2>5 DEF Next, ReaderStep
<1>5. QED
  BY <1>1, <1>4 DEF vars, stream, call

LEMMA LinesFinite ==
  ASSUME LineInv
  PROVE  /\ pos \in Nat /\ GoodLines \subseteq 1..pos /\ BadLines \subseteq 1..pos
         /\ IsFiniteSet(GoodLines) /\ IsFiniteSet(BadLines)
         /\ Cardinality(GoodLines) \in Nat /\ Cardinality(BadLines) \in Nat
<1>1. file \in Seq({file[i] : i \in DOMAIN file}) /\ Len(file) \in Nat /\ pos \in 0..Len(file)
  BY DEF LineInv
<1>2. pos \in Nat
  BY <1>1
<1>3. IsFiniteSet(1..pos)
  BY <1>2, FS_Interval
<1>4. GoodLines \subseteq 1..pos /\ BadLines \subseteq 1..pos
  BY DEF GoodLines, BadLines
<1>5. QED
  BY <1>2, <1>3, <1>4, FS_Subset, FS_CardinalityType

(* One more line read is one more good line, one more bad line or neither. *)
LEMMA LinesGrow ==
  ASSUME LineInv, file' = file, pos' = pos + 1
  PROVE  /\ GoodLines' = IF GoodLine(pos + 1) THEN GoodLines \cup {pos + 1} ELSE GoodLines
         /\ BadLines' = IF BadLine(pos + 1) THEN BadLines \cup {pos + 1} ELSE BadLines
         /\ pos + 1 \notin GoodLines /\ pos + 1 \notin BadLines
<1>1. pos \in Nat
  BY LinesFinite
<1>2. 1..pos' = (1..pos) \cup {pos + 1} /\ pos + 1 \notin 1..pos
  BY <1>1
<1>3. \A i : GoodLine(i)' <=> GoodLine(i)
  BY DEF GoodLine
<1>4. GoodLines' = IF GoodLine(pos + 1) THEN GoodLines \cup {pos + 1} ELSE GoodLines
  BY <1>2, <1>3 DEF GoodLines
<1>5. BadLines = {i \in 1..pos : BadLine(i)} /\ BadLines' = {i \in 1..pos' : BadLine(i)}
  BY <1>3 DEF BadLines, BadLine, GoodLines
<1>6. QED
  BY <1>2, <1>4, <1>5 DEF GoodLines

LEMMA FaithfulStep ==
  ASSUME LineInv, Faithful, LineRead
  PROVE  Faithful'
<1> DEFINE G == GoodLines
           n == Len(returned)
<1>0. /\ IsFiniteSet(G) /\ IsFiniteSet(BadLines) /\ G \subseteq 1..pos /\ pos \in Nat
      /\ returned \in Seq(FileEvents) /\ n \in Nat /\ n = Cardinality(G)
      /\ lines_malformed_ = Cardinality(BadLines)
      /\ \A i \in G : marketEventFromJson(file[i]) = << returned[Rank(GoodLines, i)] >>
  BY LinesFinite DEF LineInv, Faithful
<1>1. CASE UNCHANGED <<file, pos, returned, lines_malformed_>>
  BY <1>1 DEF Faithful, Rank, GoodLines, BadLines, GoodLine
<1>2. CASE /\ file' = file /\ pos' = pos + 1 /\ ~GoodLine(pos + 1) /\ UNCHANGED returned
           /\ \/ ~BadLine(pos + 1) /\ UNCHANGED lines_malformed_
              \/ BadLine(pos + 1) /\ lines_malformed_' = lines_malformed_ + 1
  <2>1. GoodLines' = G
    BY <1>2, LinesGrow
  <2>2. \A i : Rank(GoodLines', i) = Rank(GoodLines, i)
    BY <2>1 DEF Rank
  <2>3. lines_malformed_' = Cardinality(BadLines')
    BY <1>0, <1>2, LinesGrow, FS_AddElement
  <2>4. QED
    BY <1>0, <1>2, <2>1, <2>2, <2>3 DEF Faithful
<1>3. CASE /\ file' = file /\ pos' = pos + 1 /\ GoodLine(pos + 1)
           /\ returned' = returned \o marketEventFromJson(file[pos + 1])
           /\ UNCHANGED lines_malformed_
  <2> DEFINE e == EventOf(file[pos + 1].fields)
  <2>1. /\ marketEventFromJson(file[pos + 1]) = <<e>>
        /\ returned' \in Seq(FileEvents')
    BY <1>3, FromJson, LineInvStep DEF GoodLine, LineInv
  <2>2. /\ Len(returned') = n + 1 /\ returned'[n + 1] = e
        /\ \A i \in 1..n : returned'[i] = returned[i]
    BY <1>0, <1>3, <2>1
  <2>3. GoodLines' = G \cup {pos + 1} /\ pos + 1 \notin G /\ BadLines' = BadLines
    BY <1>3, LinesGrow DEF BadLine
  <2>4. Cardinality(GoodLines') = n + 1
    BY <1>0, <2>3, FS_AddElement
  <2>5. ASSUME NEW i \in G
        PROVE  marketEventFromJson(file[i]) = << returned'[Rank(GoodLines', i)] >>
    <3> DEFINE U == {j \in G : j <= i}
    <3>1. i \in 1..pos /\ \A j \in G : j \in 1..pos
      BY <1>0
    <3>2. {j \in GoodLines' : j <= i} = U
      BY <1>0, <2>3, <3>1
    <3>3. Rank(GoodLines', i) = Rank(GoodLines, i) /\ Rank(GoodLines, i) = Cardinality(U)
      BY <3>2 DEF Rank
    <3>4. U \subseteq G /\ i \in U
      BY <3>1
    <3>5. IsFiniteSet(U) /\ Cardinality(U) <= n /\ Cardinality(U) \in Nat
      BY <1>0, <3>4, FS_Subset, FS_CardinalityType
    <3>6. Cardinality(U) # 0
      BY <3>4, <3>5, FS_EmptySet
    <3>7. Rank(GoodLines, i) \in 1..n
      BY <1>0, <3>3, <3>5, <3>6
    <3>8. QED
      BY <1>0, <2>2, <3>3, <3>7
  <2>6. ASSUME NEW i, i = pos + 1 PROVE Rank(GoodLines', i) = n + 1
    <3>1. \A j \in GoodLines' : j <= i
      BY <1>0, <2>3, <2>6
    <3>2. {j \in GoodLines' : j <= i} = GoodLines'
      BY <3>1
    <3>3. QED
      BY <2>4, <3>2 DEF Rank
  <2>7. \A i \in GoodLines' : marketEventFromJson(file'[i]) = << returned'[Rank(GoodLines', i)] >>
    BY <1>3, <2>1, <2>2, <2>3, <2>5, <2>6
  <2>8. QED
    BY <1>0, <1>3, <2>2, <2>3, <2>4, <2>7 DEF Faithful
<1>4. QED
  BY <1>1, <1>2, <1>3 DEF BadLine, LineRead


LEMMA NothingRead ==
  ASSUME file \in Seq({file[i] : i \in DOMAIN file}),
         pos = 0, returned = <<>>, lines_malformed_ = 0
  PROVE  LineInv /\ Faithful
<1>1. LineInv
  BY DEF LineInv
<1>2. GoodLines = {} /\ BadLines = {} /\ Cardinality({}) = 0
  BY FS_EmptySet DEF GoodLines, BadLines
<1>3. QED
  BY <1>1, <1>2 DEF Faithful

LEMMA InitLines == Init => LineInv /\ Faithful
BY FilesAssumption, NothingRead DEF Init

THEOREM LinesInvariant == Spec => [](LineInv /\ Faithful /\ file \in Files)
<1>1. LineInv /\ Faithful /\ file \in Files /\ [Next]_vars
        => (LineInv /\ Faithful /\ file \in Files)'
  <2>1. [Next]_vars => file' = file
    BY DEF Next, vars
  <2>2. QED
    BY <2>1, LineStep, LineInvStep, FaithfulStep
<1>2. Init => file \in Files
  BY DEF Init
<1>3. QED
  BY <1>1, <1>2, InitLines, PTL DEF Spec

(* Whatever the file holds and wherever stop() and start() come: the       *)
(* events returned are those of the lines read, in file order and none     *)
(* twice, each malformed line was counted once, and nothing was read after *)
(* a line that threw.                                                      *)
THEOREM ReplayIsFaithful == Spec => []ReplayFaithful
<1>1. Init => ThrowInv
  BY DEF Init, ThrowInv
<1>2. LineInv /\ ThrowInv /\ [Next]_vars => ThrowInv'
  BY ThrowStep, LinesFinite
<1>3. LineInv /\ Faithful /\ ThrowInv => ReplayFaithful
  BY FaithfulIs
<1>4. QED
  BY <1>1, <1>2, <1>3, LinesInvariant, PTL DEF Spec

(* For every width and clock: an event that was replayed survives being    *)
(* recorded and replayed again, but for what an overflow put below the     *)
(* millisecond.                                                            *)
THEOREM RecaptureIsStable == Spec => []RecaptureStable
<1>1. LineInv /\ file \in Files => RecaptureStable
  <2> SUFFICES ASSUME LineInv, file \in Files, NEW i \in DOMAIN returned
        PROVE LET e == returned[i]
                  again == marketEventFromJson(marketEventToJson(e))
              IN  /\ again = << [e EXCEPT !.event_time = MsFromTime(e.event_time) * Scale] >>
                  /\ \/ again = <<e>>
                     \/ \E k \in 1..pos :
                          LET ms == Signed(file[k].fields["event_time_ms"][2])
                          IN  /\ marketEventFromJson(file[k]) = <<e>>
                              /\ ms * Scale \notin -(2^(W - 1)) .. (2^(W - 1) - 1)
    BY DEF RecaptureStable
  <2> DEFINE e == returned[i]
             again == marketEventFromJson(marketEventToJson(e))
  <2>1. i \in 1..Len(returned)
    BY DEF LineInv
  <2>2. PICK k \in 1..pos : marketEventFromJson(file[k]) = <<e>>
    BY <2>1 DEF LineInv
  <2>3. IsEvent(file[k]) /\ e = EventOf(file[k].fields)
    BY <2>2, FromJson
  <2>4. k \in DOMAIN file
    <3>1. file \in Seq({file[j] : j \in DOMAIN file}) /\ pos \in 0..Len(file)
      BY FilesAssumption DEF LineInv
    <3>2. QED
      BY <3>1
  <2>5. \A f \in DOMAIN file[k].fields :
          file[k].fields[f][1] = "integer" => file[k].fields[f][2] \in JsonInteger
    BY <2>3, <2>4, FilesAssumption DEF LineInv, IsEvent
  <2>6. JsonInteger \subseteq Int
    BY Width DEF JsonInteger, Half
  <2>7. /\ again = << [e EXCEPT !.event_time = MsFromTime(e.event_time) * Scale] >>
        /\ Signed(file[k].fields["event_time_ms"][2]) * Scale \in Int64 => again = <<e>>
    BY <2>3, <2>5, <2>6, Recaptured
  <2>8. QED
    BY <2>2, <2>7 DEF Int64, Half
<1>2. QED
  BY <1>1, LinesInvariant, PTL
=============================================================================
