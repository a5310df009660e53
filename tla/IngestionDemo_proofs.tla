------------------------ MODULE IngestionDemo_proofs ------------------------
(***************************************************************************)
(* Proofs about IngestionDemo: the capture over any number of runs of the  *)
(* process, for any messages, first capture, word width and clock.         *)
(*                                                                         *)
(* The argument: what the parser or a replay gives to record() comes back  *)
(* from the file as AsRead says (RoundTrip).  FileInv is about one file,   *)
(* what was recorded to it and how often a write was cut short: until that *)
(* happens the file is what it was before, followed by the lines of the    *)
(* events recorded; after that, a file whose last line is torn has a cut   *)
(* write to its account that has cost nothing yet, and two if the torn     *)
(* line can still be read (Debt).  Within a run that replays, the capture  *)
(* does not change, so the argument of ReplaySource_proofs applies.        *)
(***************************************************************************)
EXTENDS IngestionDemo, ReplaySource_proofs, SequenceTheorems

USE DEF args, source, disk, stream, call, Return

(* The events that the parser can make, and those read back from a file.   *)
Traded == {parseBinanceTradeMessage(m)[1] :
             m \in {text \in Messages : parseBinanceTradeMessage(text) # <<>>}}
Event == Traded \cup {AsRead(e) : e \in Traded}

(* The lines that a file can have. *)
Line == {marketEventToJson(e) : e \in Event} \cup {Garbage}
        \cup UNION {{f[i] : i \in DOMAIN f} : f \in Files}

IsGood(text) == marketEventFromJson(text) # <<>>
GoodIn(s) == {i \in 1..Len(s) : IsGood(s[i])}
FiniteIn(k) == {i \in 1..Len(k) : k[i].price[1] = "finite"}

(* No write was cut short: the lines of the events in k end the file. *)
Exact(f, k) ==
  /\ f.torn = FALSE
  /\ Len(k) <= Len(f.lines)
  /\ \A i \in 1..(Len(f.lines) - Len(k)) : ~IsGood(f.lines[i])
  /\ \A i \in 1..Len(k) : f.lines[(Len(f.lines) - Len(k)) + i] = marketEventToJson(k[i])

(* The cut writes that have cost nothing yet. *)
Debt(f) == IF ~f.torn THEN 0 ELSE IF IsGood(f.lines[Len(f.lines)]) THEN 2 ELSE 1

FileInv(f, k, t) ==
  /\ f \in [lines : Seq(Line), torn : BOOLEAN]
  /\ k \in Seq(Event)
  /\ t \in Nat
  /\ f.torn => Len(f.lines) # 0
  /\ t = 0 => Exact(f, k)
  /\ Cardinality(FiniteIn(k)) + Debt(f) <= Cardinality(GoodIn(f.lines)) + t

DiskInv ==
  /\ kept \in [Path -> Seq(Event)]
  /\ tears \in [Path -> Nat]
  /\ \A p \in Path : FileInv(files[p], kept[p], tears[p])

(* An event in hand is one of ours; a new process starts afresh. *)
ProcessInv ==
  /\ mode \in {"live", "replay"}
  /\ record_path \in Path \cup {"none"}
  /\ returned \in Seq(Event)
  /\ outcome = "true" => Len(returned) # 0
  /\ main = "off" =>
       /\ worker = "none" /\ mode = "live" /\ in_ = "closed" /\ pos = 0
       /\ lines_malformed_ = 0 /\ outcome = "none" /\ returned = <<>>

(* Nobody writes to the capture that is replayed, and false means that it  *)
(* was stopped or that it is read to its end.                              *)
ReplayInv ==
  mode = "replay" =>
    /\ record_path # "capture"
    /\ LineInv /\ Faithful
    /\ in_ = "failed" => pos = Len(file)
    /\ outcome = "false" => stop_requested_ \/ in_ = "failed"

DemoInv == DiskInv /\ ProcessInv /\ ReplayInv

-----------------------------------------------------------------------------
(* The codec: what is recorded is read back *)

LEMMA WholeMsIs ==
  ASSUME NEW t \in Int
  PROVE  WholeMs(t) = MsFromTime(t) * Scale
<1>0. Scale \in Nat \ {0}
  BY CodecAssumption
<1>1. \A n \in Nat : n - (n % Scale) = (n \div Scale) * Scale /\ n \div Scale \in Nat
  BY <1>0
<1>2. CASE t >= 0
  BY <1>0, <1>1, <1>2 DEF WholeMs, MsFromTime
<1>3. CASE t < 0
  <2> DEFINE n == -t
             q == n \div Scale
  <2>1. n \in Nat /\ t = -n /\ ~(t >= 0) /\ n % Scale \in Int
    BY <1>0, <1>3
  <2>2. n - (n % Scale) = q * Scale /\ q \in Nat
    BY <1>1, <2>1
  <2>3. WholeMs(t) = t + (n % Scale) /\ MsFromTime(t) = -q
    BY <2>1 DEF WholeMs, MsFromTime
  <2> HIDE DEF n, q
  <2>4. (-q) * Scale = -(q * Scale) /\ q * Scale \in Int
    BY <1>0, <2>2
  <2>5. QED
    BY <2>1, <2>2, <2>3, <2>4
<1>4. QED
  BY <1>2, <1>3

(* A time within range is written and read again as whole milliseconds,    *)
(* which are within range and no longer change.                            *)
LEMMA TimeKept ==
  ASSUME NEW t \in Int64
  PROVE  /\ TimeFromMs(MsFromTime(t)) = WholeMs(t)
         /\ WholeMs(t) \in Int64
         /\ WholeMs(WholeMs(t)) = WholeMs(t)
<1>1. t \in Int /\ MsFromTime(t) \in Int64 /\ MsFromTime(t) \in Int
      /\ MsFromTime(t) * Scale \in Int64 /\ MsFromTime(t) * Scale \in Int
  BY MsInRange, Width DEF Int64
<1>2. WholeMs(t) = MsFromTime(t) * Scale
  BY <1>1, WholeMsIs
<1>3. TimeFromMs(MsFromTime(t)) = MsFromTime(t) * Scale
  BY <1>1, SignedKeeps DEF TimeFromMs
<1>4. WholeMs(WholeMs(t)) = MsFromTime(MsFromTime(t) * Scale) * Scale
  BY <1>1, <1>2, WholeMsIs
<1>5. QED
  BY <1>1, <1>2, <1>3, <1>4, MsExact

Shape(s, c, x, t, p, src) ==
  [symbol |-> s, price |-> <<c, x>>, event_time |-> t, provider_sequence |-> p,
   source |-> src]

(* An optional sequence number that std::uint64_t can hold. *)
IsSequence(p) == p = <<>> \/ \E n \in Int : p = <<Unsigned(n)>>

WellFormed(e) ==
  \E s, c, x, t, p, src :
    /\ e = Shape(s, c, x, t, p, src)
    /\ s # "" /\ t \in Int64 /\ IsSequence(p)

LEMMA SequenceKept ==
  ASSUME NEW p, IsSequence(p)
  PROVE  (IF p = <<>> THEN <<>> ELSE <<Unsigned(p[1])>>) = p
<1>1. CASE p = <<>>
  BY <1>1
<1>2. CASE \E n \in Int : p = <<Unsigned(n)>>
  <2>1. PICK n \in Int : p = <<Unsigned(n)>>
    BY <1>2
  <2>2. Unsigned(p[1]) = Unsigned(n) /\ p # <<>>
    BY <2>1, UnsignedKeeps
  <2>3. QED
    BY <2>1, <2>2
<1>3. QED
  BY <1>1, <1>2 DEF IsSequence

LEMMA AsReadShape ==
  ASSUME NEW s, NEW c, NEW x, NEW t, NEW p, NEW src,
         NEW e, e = Shape(s, c, x, t, p, src)
  PROVE  AsRead(e) = Shape(s, c, x, WholeMs(t), p, src)
<1>1. AsRead(Shape(s, c, x, t, p, src)) = Shape(s, c, x, WholeMs(t), p, src)
  BY DEF AsRead, Shape
<1>2. QED
  BY <1>1

(* A price that is not finite makes a line that is no event. *)
LEMMA NotFinite ==
  ASSUME NEW s, NEW c, NEW x, NEW t, NEW p, NEW src, c # "finite"
  PROVE  marketEventFromJson(marketEventToJson(Shape(s, c, x, t, p, src))) = <<>>
<1> DEFINE text == marketEventToJson(Shape(s, c, x, t, p, src))
<1>1. text.fields["price"] = <<"null", 0>>
  BY DEF marketEventToJson, DoubleToJson, Shape
<1>2. text.fields["price"][1] = "null"
  BY <1>1
<1> HIDE DEF text
<1>3. ~IsEvent(text)
  BY <1>2 DEF IsEvent, Has
<1>4. QED
  BY <1>3, FromJson DEF text

(* What record() writes, next() reads: the same event with its time in     *)
(* milliseconds, or none if its price was not finite.                      *)
LEMMA RoundTrip ==
  ASSUME NEW e, WellFormed(e)
  PROVE  /\ e.price[1] = "finite"
              => marketEventFromJson(marketEventToJson(e)) = << AsRead(e) >>
         /\ e.price[1] # "finite" => marketEventFromJson(marketEventToJson(e)) = <<>>
<1>1. PICK s, c, x, t, p, src : /\ e = Shape(s, c, x, t, p, src)
                                /\ s # "" /\ t \in Int64 /\ IsSequence(p)
  BY DEF WellFormed
<1>2. e.price[1] = c
  <2>1. e.price = <<c, x>>
    BY <1>1 DEF Shape
  <2>2. QED
    BY ONLY <2>1
<1>3. CASE c = "finite"
  <2> DEFINE text == marketEventToJson(e)
  <2>1. IsEvent(text) /\ EventOf(text.fields) =
          [symbol |-> s, price |-> <<"finite", x>>,
           event_time |-> TimeFromMs(MsFromTime(t)),
           provider_sequence |-> IF p = <<>> THEN <<>> ELSE <<Unsigned(p[1])>>,
           source |-> src]
    BY <1>1, <1>3, ToJson, Zenon DEF Shape
  <2> HIDE DEF text
  <2>2. EventOf(text.fields) = Shape(s, "finite", x, WholeMs(t), p, src)
    BY <1>1, <2>1, TimeKept, SequenceKept DEF Shape
  <2>3. EventOf(text.fields) = AsRead(e)
    <3>1. e = Shape(s, c, x, t, p, src)
      BY <1>1
    <3>2. AsRead(e) = Shape(s, c, x, WholeMs(t), p, src)
      BY ONLY <3>1, AsReadShape
    <3>3. QED
      BY <1>3, <2>2, <3>2
  <2>4. marketEventFromJson(text) = << AsRead(e) >>
    BY <2>1, <2>3, FromJson
  <2>5. QED
    BY <1>2, <1>3, <2>4 DEF text
<1>4. CASE c # "finite"
  BY <1>1, <1>2, <1>4, NotFinite
<1>5. QED
  BY <1>3, <1>4

(* Doubles are pairs. *)
LEMMA PricesArePairs ==
  ASSUME NEW s \in DOMAIN FromChars, FromChars[s] # <<>>
  PROVE  \E c, x : FromChars[s][1] = <<c, x>>
<1>1. \/ FromChars[s] = << <<"finite", 2>> >> \/ FromChars[s] = << <<"finite", 0>> >>
      \/ FromChars[s] = << <<"finite", -1>> >> \/ FromChars[s] = << <<"finite", 3>> >>
      \/ FromChars[s] = << <<s, 0>> >>
  BY DEF FromChars
<1>2. QED
  BY <1>1

LEMMA TradedWellFormed ==
  ASSUME NEW text \in Messages, parseBinanceTradeMessage(text) # <<>>
  PROVE  /\ WellFormed(parseBinanceTradeMessage(text)[1])
         /\ parseBinanceTradeMessage(text) = << parseBinanceTradeMessage(text)[1] >>
<1> DEFINE data == text.fields["data"][2]
           s == data["s"][2]
           price == FromChars[data["p"][2]][1]
           m == data["T"][2]
           n == data["t"][2]
           t == TimeFromMs(m)
           q == IF Has(data, "t", {"integer"}) THEN <<Unsigned(n)>> ELSE <<>>
           e == [symbol |-> s, price |-> price, event_time |-> t,
                 provider_sequence |-> q, source |-> "live:binance"]
<1>1. /\ text.is = "object" /\ Has(text.fields, "data", {"object"})
      /\ NonEmptyString(data, "s") /\ Has(data, "p", {"string"}) /\ Has(data, "T", {"integer"})
      /\ FromChars[data["p"][2]] # <<>>
      /\ parseBinanceTradeMessage(text) = << e >>
  BY DEF parseBinanceTradeMessage
<1>2. /\ \A k \in DOMAIN data : data[k][1] = "integer" => data[k][2] \in JsonInteger
      /\ data["p"][2] \in DOMAIN FromChars
  BY <1>1, DemoAssumption
<1> HIDE DEF data
<1>3. JsonInteger \subseteq Int
  BY Width DEF JsonInteger, Half
<1>4. m \in Int /\ (Has(data, "t", {"integer"}) => n \in Int) /\ s # ""
  BY <1>1, <1>2, <1>3 DEF Has, NonEmptyString
<1> HIDE DEF m
<1>5. t \in Int64
  <2>1. m \in Int
    BY <1>4, Zenon
  <2>2. Signed(m) \in Int64
    BY ONLY <2>1, SignedInRange
  <2>3. Scale \in Int
    BY CodecAssumption
  <2>4. Signed(m) * Scale \in Int
    BY ONLY <2>2, <2>3, Width DEF Int64
  <2>5. QED
    BY <2>4, SignedInRange DEF TimeFromMs
<1>6. IsSequence(q)
  BY <1>4 DEF IsSequence
<1>7. PICK c, x : price = <<c, x>>
  BY <1>1, <1>2, PricesArePairs
<1> HIDE DEF s, price, t, q
<1>8. e = Shape(s, c, x, t, q, "live:binance")
  BY <1>7 DEF Shape
<1>9. WellFormed(e)
  BY <1>4, <1>5, <1>6, <1>8 DEF WellFormed
<1>10. QED
  BY <1>1, <1>9

(* The events that the tool handles are well formed, whether they come     *)
(* from a message or from a file.                                          *)
LEMMA EventsWellFormed ==
  ASSUME NEW e \in Event
  PROVE  WellFormed(e) /\ AsRead(e) \in Event
<1>1. ASSUME NEW d, WellFormed(d)
      PROVE  WellFormed(AsRead(d)) /\ AsRead(AsRead(d)) = AsRead(d)
  <2>1. PICK s, c, x, t, p, src : /\ d = Shape(s, c, x, t, p, src)
                                  /\ s # "" /\ t \in Int64 /\ IsSequence(p)
    BY <1>1 DEF WellFormed
  <2>2. AsRead(d) = Shape(s, c, x, WholeMs(t), p, src)
    <3>1. d = Shape(s, c, x, t, p, src)
      BY <2>1
    <3>2. QED
      BY ONLY <3>1, AsReadShape
  <2>3. AsRead(AsRead(d)) = Shape(s, c, x, WholeMs(WholeMs(t)), p, src)
    BY <2>2, AsReadShape
  <2>4. WholeMs(t) \in Int64 /\ WholeMs(WholeMs(t)) = WholeMs(t)
    BY <2>1, TimeKept
  <2>5. WellFormed(AsRead(d))
    BY <2>1, <2>2, <2>4, Zenon DEF WellFormed
  <2>6. QED
    BY <2>2, <2>3, <2>4, <2>5, Zenon
<1>2. \A d \in Traded : WellFormed(d)
  BY TradedWellFormed DEF Traded
<1>3. QED
  BY <1>1, <1>2, Zenon DEF Event

LEMMA GarbageIsBad == Garbage \in Line /\ ~IsGood(Garbage)
<1>1. ~IsEvent(Garbage)
  BY DEF IsEvent, Garbage
<1>2. marketEventFromJson(Garbage) = <<>>
  BY <1>1, FromJson
<1>3. QED
  BY <1>2 DEF IsGood, Line

(* A line that a reader takes for an event is one that record() wrote. *)
LEMMA GoodLineIs ==
  ASSUME NEW line \in Line, IsGood(line)
  PROVE  \E e \in Event : /\ line = marketEventToJson(e) /\ e.price[1] = "finite"
                          /\ marketEventFromJson(line) = << AsRead(e) >>
<1>1. line # Garbage
  BY GarbageIsBad
<1>2. \A f \in Files : \A i \in DOMAIN f : line # f[i]
  BY DemoAssumption DEF IsGood
<1>3. PICK e \in Event : line = marketEventToJson(e)
  BY <1>1, <1>2, Zenon DEF Line
<1>4. e.price[1] = "finite" /\ marketEventFromJson(line) = << AsRead(e) >>
  BY <1>3, EventsWellFormed, RoundTrip, Zenon DEF IsGood
<1>5. QED
  BY <1>3, <1>4

-----------------------------------------------------------------------------
(* One file *)

One(b) == IF b THEN 1 ELSE 0

LEMMA GoodFinite ==
  ASSUME NEW s \in Seq(Line)
  PROVE  IsFiniteSet(GoodIn(s)) /\ Cardinality(GoodIn(s)) \in Nat
<1>1. IsFiniteSet(1..Len(s)) /\ GoodIn(s) \subseteq 1..Len(s)
  BY FS_Interval DEF GoodIn
<1>2. QED
  BY <1>1, FS_Subset, FS_CardinalityType

LEMMA RecordedFinite ==
  ASSUME NEW k \in Seq(Event)
  PROVE  IsFiniteSet(FiniteIn(k)) /\ Cardinality(FiniteIn(k)) \in Nat
<1>1. IsFiniteSet(1..Len(k)) /\ FiniteIn(k) \subseteq 1..Len(k)
  BY FS_Interval DEF FiniteIn
<1>2. QED
  BY <1>1, FS_Subset, FS_CardinalityType

LEMMA GoodAppend ==
  ASSUME NEW s \in Seq(Line), NEW x \in Line
  PROVE  Cardinality(GoodIn(Append(s, x))) = Cardinality(GoodIn(s)) + One(IsGood(x))
<1> DEFINE n == Len(s) + 1
<1>1. /\ Len(s) \in Nat /\ Len(Append(s, x)) = n /\ Append(s, x)[n] = x
      /\ \A i \in 1..Len(s) : Append(s, x)[i] = s[i]
  OBVIOUS
<1>2. 1..n = (1..Len(s)) \cup {n} /\ n \notin 1..Len(s)
  BY <1>1
<1>3. GoodIn(Append(s, x)) = IF IsGood(x) THEN GoodIn(s) \cup {n} ELSE GoodIn(s)
  BY <1>1, <1>2 DEF GoodIn
<1>4. n \notin GoodIn(s)
  BY <1>2 DEF GoodIn
<1>5. Cardinality(GoodIn(s) \cup {n}) = Cardinality(GoodIn(s)) + 1 /\ Cardinality(GoodIn(s)) \in Nat
  BY <1>4, GoodFinite, FS_AddElement
<1>6. CASE IsGood(x)
  BY <1>3, <1>5, <1>6 DEF One
<1>7. CASE ~(IsGood(x))
  BY <1>3, <1>5, <1>7 DEF One
<1>8. QED
  BY <1>6, <1>7

LEMMA RecordedAppend ==
  ASSUME NEW k \in Seq(Event), NEW e \in Event
  PROVE  Cardinality(FiniteIn(Append(k, e))) =
           Cardinality(FiniteIn(k)) + One(e.price[1] = "finite")
<1> DEFINE n == Len(k) + 1
<1>1. /\ Len(k) \in Nat /\ Len(Append(k, e)) = n /\ Append(k, e)[n] = e
      /\ \A i \in 1..Len(k) : Append(k, e)[i] = k[i]
  OBVIOUS
<1>2. 1..n = (1..Len(k)) \cup {n} /\ n \notin 1..Len(k)
  BY <1>1
<1>3. FiniteIn(Append(k, e)) =
        IF e.price[1] = "finite" THEN FiniteIn(k) \cup {n} ELSE FiniteIn(k)
  BY <1>1, <1>2 DEF FiniteIn
<1>4. n \notin FiniteIn(k)
  BY <1>2 DEF FiniteIn
<1>5. Cardinality(FiniteIn(k) \cup {n}) = Cardinality(FiniteIn(k)) + 1 /\ Cardinality(FiniteIn(k)) \in Nat
  BY <1>4, RecordedFinite, FS_AddElement
<1>6. CASE e.price[1] = "finite"
  BY <1>3, <1>5, <1>6 DEF One
<1>7. CASE ~(e.price[1] = "finite")
  BY <1>3, <1>5, <1>7 DEF One
<1>8. QED
  BY <1>6, <1>7

(* The last line is spoiled by what is appended to it. *)
LEMMA GoodSpoilt ==
  ASSUME NEW s \in Seq(Line), Len(s) # 0
  PROVE  LET z == [s EXCEPT ![Len(s)] = Garbage]
         IN  /\ z \in Seq(Line) /\ Len(z) = Len(s) /\ z[Len(z)] = Garbage
             /\ Cardinality(GoodIn(z)) =
                  Cardinality(GoodIn(s)) - One(IsGood(s[Len(s)]))
<1> DEFINE n == Len(s)
           z == [s EXCEPT ![n] = Garbage]
<1>1. n \in Nat /\ n \in 1..n /\ Garbage \in Line
  BY GarbageIsBad
<1>2. z \in Seq(Line) /\ Len(z) = n /\ z[n] = Garbage
      /\ \A i \in 1..n : i # n => z[i] = s[i]
  BY <1>1
<1>3. GoodIn(z) = GoodIn(s) \ {n} /\ (n \in GoodIn(s) <=> IsGood(s[n]))
  <2> HIDE DEF z
  <2>1. QED
    BY <1>1, <1>2, GarbageIsBad DEF GoodIn
<1>4. Cardinality(GoodIn(z)) = Cardinality(GoodIn(s)) - One(IsGood(s[n]))
  <2>1. CASE IsGood(s[n])
    BY <1>3, <2>1, GoodFinite, FS_RemoveElement DEF One
  <2>2. CASE ~IsGood(s[n])
    <3>1. GoodIn(z) = GoodIn(s)
      BY <1>3, <2>2
    <3>2. QED
      BY <2>2, <3>1, GoodFinite DEF One
  <2>3. QED
    BY <2>1, <2>2
<1>5. QED
  BY <1>2, <1>4

(* What record() writes can be read back exactly if the price was finite.  *)
LEMMA WrittenIsGood ==
  ASSUME NEW e \in Event
  PROVE  marketEventToJson(e) \in Line /\ (IsGood(marketEventToJson(e)) <=> e.price[1] = "finite")
<1>1. marketEventToJson(e) \in Line
  BY DEF Line
<1>2. IsGood(marketEventToJson(e)) <=> e.price[1] = "finite"
  <2>1. \A r : << r >> # << >>
    OBVIOUS
  <2>2. QED
    BY <2>1, EventsWellFormed, RoundTrip, Zenon DEF IsGood
<1>3. QED
  BY <1>1, <1>2

(* A line that is appended to a file, ended or not. *)
LEMMA Appended ==
  ASSUME NEW f \in [lines : Seq(Line), torn : BOOLEAN], NEW text \in Line,
         NEW b \in BOOLEAN, f.torn => Len(f.lines) # 0
  PROVE  LET g == AppendText(f, text, b)
         IN  /\ g \in [lines : Seq(Line), torn : BOOLEAN]
             /\ g.torn = b
             /\ Len(g.lines) # 0
             /\ Cardinality(GoodIn(g.lines)) =
                  IF f.torn THEN Cardinality(GoodIn(f.lines)) - One(IsGood(f.lines[Len(f.lines)]))
                  ELSE Cardinality(GoodIn(f.lines)) + One(IsGood(text))
             /\ Debt(g) = IF ~b THEN 0 ELSE IF f.torn THEN 1 ELSE 1 + One(IsGood(text))
<1> DEFINE g == AppendText(f, text, b)
           s == f.lines
           n == Len(s)
<1>1. s \in Seq(Line) /\ n \in Nat /\ f.torn \in BOOLEAN
  OBVIOUS
<1>2. g.torn = b
  BY DEF AppendText
<1>3. CASE f.torn
  <2>1. g.lines = [s EXCEPT ![n] = Garbage]
    BY <1>3 DEF AppendText
  <2>2. /\ g.lines \in Seq(Line) /\ Len(g.lines) = n /\ g.lines[Len(g.lines)] = Garbage
        /\ Cardinality(GoodIn(g.lines)) = Cardinality(GoodIn(s)) - One(IsGood(s[n]))
    BY <1>1, <1>3, <2>1, GoodSpoilt
  <2>3. QED
    BY <1>2, <1>3, <2>2, GarbageIsBad DEF Debt, One, AppendText
<1>4. CASE ~f.torn
  <2>1. g.lines = Append(s, text)
    BY <1>4 DEF AppendText
  <2>2. /\ g.lines \in Seq(Line) /\ Len(g.lines) = n + 1 /\ g.lines[Len(g.lines)] = text
    BY <1>1, <2>1
  <2>3. Cardinality(GoodIn(g.lines)) = Cardinality(GoodIn(s)) + One(IsGood(text))
    BY <1>1, <2>1, GoodAppend
  <2>4. QED
    BY <1>1, <1>2, <1>4, <2>2, <2>3 DEF Debt, One, AppendText
<1>5. QED
  BY <1>1, <1>3, <1>4

(* record() keeps the promise about its file ... *)
LEMMA RecordKeeps ==
  ASSUME NEW f, NEW k, NEW t, FileInv(f, k, t), NEW e \in Event
  PROVE  FileInv(Record(f, e), Append(k, e), t)
<1> DEFINE text == marketEventToJson(e)
           g == Record(f, e)
           s == f.lines
           z == g.lines
           m == Append(k, e)
<1>0. /\ f \in [lines : Seq(Line), torn : BOOLEAN] /\ k \in Seq(Event) /\ t \in Nat
      /\ f.torn => Len(s) # 0
      /\ s \in Seq(Line) /\ Len(s) \in Nat /\ Len(k) \in Nat /\ f.torn \in BOOLEAN
      /\ text \in Line /\ (IsGood(text) <=> e.price[1] = "finite")
  BY WrittenIsGood DEF FileInv
<1>1. /\ g \in [lines : Seq(Line), torn : BOOLEAN] /\ g.torn = FALSE /\ Debt(g) = 0
      /\ Cardinality(GoodIn(z)) =
           IF f.torn THEN Cardinality(GoodIn(s)) - One(IsGood(s[Len(s)]))
           ELSE Cardinality(GoodIn(s)) + One(IsGood(text))
  BY <1>0, Appended DEF Record
<1>2. /\ m \in Seq(Event) /\ Len(m) = Len(k) + 1 /\ m[Len(k) + 1] = e
      /\ \A i \in 1..Len(k) : m[i] = k[i]
  BY <1>0
<1>3. Cardinality(FiniteIn(m)) = Cardinality(FiniteIn(k)) + One(e.price[1] = "finite")
  BY <1>0, RecordedAppend
<1>4. /\ Cardinality(FiniteIn(k)) + Debt(f) <= Cardinality(GoodIn(s)) + t
      /\ Cardinality(FiniteIn(k)) \in Nat /\ Cardinality(GoodIn(s)) \in Nat
  BY <1>0, GoodFinite, RecordedFinite DEF FileInv
<1>5. Cardinality(FiniteIn(m)) + Debt(g) <= Cardinality(GoodIn(z)) + t
  <2>1. CASE f.torn
    <3>1. Debt(f) = 1 + One(IsGood(s[Len(s)]))
      BY <2>1 DEF Debt, One
    <3>2. One(e.price[1] = "finite") \in 0..1 /\ One(IsGood(s[Len(s)])) \in 0..1
      BY DEF One
    <3>3. QED
      BY <1>0, <1>1, <1>3, <1>4, <2>1, <3>1, <3>2
  <2>2. CASE ~f.torn
    <3>1. Debt(f) = 0 /\ One(e.price[1] = "finite") = One(IsGood(text))
      BY <1>0, <2>2 DEF Debt, One
    <3>2. One(IsGood(text)) \in 0..1
      BY DEF One
    <3>3. QED
      BY <1>0, <1>1, <1>3, <1>4, <2>2, <3>1, <3>2
  <2>3. QED
    BY <2>1, <2>2
<1>6. ASSUME t = 0 PROVE Exact(g, m)
  <2>1. Exact(f, k) /\ ~f.torn
    BY <1>6 DEF FileInv, Exact
  <2>2. z = Append(s, text)
    BY <2>1 DEF Record, AppendText
  <2>3. Len(z) = Len(s) + 1 /\ z[Len(s) + 1] = text /\ \A i \in 1..Len(s) : z[i] = s[i]
    BY <1>0, <2>2
  <2> DEFINE b == Len(s) - Len(k)
  <2>4. b \in Nat /\ Len(z) - Len(m) = b /\ b + (Len(k) + 1) = Len(s) + 1 /\ Len(m) <= Len(z)
    BY <1>0, <1>2, <2>1, <2>3 DEF Exact
  <2>5. ASSUME NEW i \in 1..b PROVE ~IsGood(z[i])
    <3>1. i \in 1..Len(s)
      BY <1>0, <2>4
    <3>2. QED
      BY <2>1, <2>3, <3>1 DEF Exact
  <2>6. ASSUME NEW i \in 1..Len(m) PROVE z[b + i] = marketEventToJson(m[i])
    <3>1. CASE i = Len(k) + 1
      BY <1>2, <2>3, <2>4, <3>1
    <3>2. CASE i \in 1..Len(k)
      <4>1. b + i \in 1..Len(s)
        BY <1>0, <2>4, <3>2
      <4>2. s[b + i] = marketEventToJson(k[i])
        BY <2>1, <3>2 DEF Exact
      <4>3. QED
        BY <1>2, <2>3, <3>2, <4>1, <4>2
    <3>3. QED
      BY <1>0, <1>2, <3>1, <3>2
  <2> HIDE DEF b, z, m, g
  <2>7. QED
    BY <1>1, <2>4, <2>5, <2>6 DEF Exact, z
<1>7. QED
  BY <1>0, <1>1, <1>2, <1>5, <1>6 DEF FileInv

(* ... and a write that is cut short costs what tears counts. *)
LEMMA TornKeeps ==
  ASSUME NEW f, NEW k, NEW t, FileInv(f, k, t), NEW e \in Event,
         NEW g \in RecordTorn(f, e)
  PROVE  FileInv(g, k, t + 1)
<1> DEFINE s == f.lines
<1>0. /\ f \in [lines : Seq(Line), torn : BOOLEAN] /\ k \in Seq(Event) /\ t \in Nat
      /\ f.torn => Len(s) # 0
      /\ s \in Seq(Line) /\ Len(s) \in Nat /\ f.torn \in BOOLEAN
      /\ marketEventToJson(e) \in Line
      /\ t + 1 \in Nat /\ t + 1 # 0
  BY WrittenIsGood DEF FileInv
<1>1. /\ Cardinality(FiniteIn(k)) + Debt(f) <= Cardinality(GoodIn(s)) + t
      /\ Cardinality(FiniteIn(k)) \in Nat /\ Cardinality(GoodIn(s)) \in Nat
      /\ Debt(f) \in Nat
  BY <1>0, GoodFinite, RecordedFinite DEF FileInv, Debt
<1>2. CASE g = f
  BY <1>0, <1>1, <1>2 DEF FileInv
<1>3. ASSUME NEW text \in Line, g = AppendText(f, text, TRUE)
      PROVE  FileInv(g, k, t + 1)
  <2>1. /\ g \in [lines : Seq(Line), torn : BOOLEAN] /\ Len(g.lines) # 0
        /\ Cardinality(GoodIn(g.lines)) =
             IF f.torn THEN Cardinality(GoodIn(s)) - One(IsGood(s[Len(s)]))
             ELSE Cardinality(GoodIn(s)) + One(IsGood(text))
        /\ Debt(g) = IF f.torn THEN 1 ELSE 1 + One(IsGood(text))
    <3>1. f \in [lines : Seq(Line), torn : BOOLEAN] /\ (f.torn => Len(f.lines) # 0)
          /\ text \in Line /\ TRUE \in BOOLEAN
      BY <1>0
    <3>2. QED
      BY ONLY <1>3, <3>1, Appended
  <2>2. Cardinality(FiniteIn(k)) + Debt(g) <= Cardinality(GoodIn(g.lines)) + (t + 1)
    <3>1. CASE f.torn
      <4>1. Debt(f) = 1 + One(IsGood(s[Len(s)])) /\ Debt(g) = 1
        BY <2>1, <3>1, GarbageIsBad DEF Debt, One
      <4>2. One(IsGood(s[Len(s)])) \in 0..1
        BY DEF One
      <4>3. QED
        BY <1>0, <1>1, <2>1, <3>1, <4>1, <4>2
    <3>2. CASE ~f.torn
      <4>1. Debt(g) = 1 + One(IsGood(text)) /\ One(IsGood(text)) \in 0..1
        BY <2>1, <3>2 DEF One
      <4>2. QED
        BY <1>0, <1>1, <2>1, <3>2, <4>1
    <3>3. QED
      BY <3>1, <3>2
  <2>3. QED
    BY <1>0, <2>1, <2>2 DEF FileInv
<1>4. QED
  BY <1>0, <1>2, <1>3, GarbageIsBad DEF RecordTorn

-----------------------------------------------------------------------------
(* The disk *)

LEMMA Replaced ==
  ASSUME NEW p \in Path, NEW f \in [lines : Seq(Line), torn : BOOLEAN], Replace(p, f)
  PROVE  files'[p] = f /\ \A q \in Path : q # p => files'[q] = files[q]
<1>1. f = [lines |-> f.lines, torn |-> f.torn]
  OBVIOUS
<1>2. CASE p = "capture"
  BY <1>1, <1>2 DEF Replace, files, Path
<1>3. CASE p = "copy"
  BY <1>3 DEF Replace, files, Path
<1>4. QED
  BY <1>2, <1>3 DEF Path

LEMMA EventInHand ==
  ASSUME ProcessInv, InHand
  PROVE  event \in Event
<1>1. returned \in Seq(Event) /\ Len(returned) # 0
  BY DEF ProcessInv, InHand
<1>2. Len(returned) \in 1..Len(returned)
  BY <1>1
<1>3. QED
  BY <1>1, <1>2 DEF event

(* What a step does to the disk: nothing, an event recorded, or a write    *)
(* that is cut short.                                                      *)
LEMMA DiskStep ==
  ASSUME DiskInv, ProcessInv, [DemoNext]_demoVars
  PROVE  \/ UNCHANGED disk
         \/ /\ record_path \in Path
            /\ \E e \in Event :
                 /\ Replace(record_path, Record(files[record_path], e))
                 /\ kept' = [kept EXCEPT ![record_path] = Append(@, e)]
                 /\ UNCHANGED tears
         \/ /\ record_path \in Path
            /\ \E e \in Event : \E f \in RecordTorn(files[record_path], e) : Tear(f)
<1>1. ASSUME NEW m \in {"live", "replay"}, NEW r \in Path \cup {"none"}, Run(m, r)
      PROVE  UNCHANGED disk
  <2>1. CASE r = "none"
    BY <1>1, <2>1 DEF Run
  <2>2. CASE r # "none"
    BY <1>1, <2>2 DEF Run, Replace, Open, files, Path
  <2>3. QED
    BY <2>1, <2>2
<1>2. CASE handleSignal \/ MainStop \/ MainExit \/ WorkerCall \/ WorkerNext
           \/ WorkerFinish \/ LiveInterrupted \/ Terminate
  BY <1>2 DEF handleSignal, MainStop, MainExit, WorkerCall, WorkerNext, WorkerFinish,
              LiveInterrupted, Terminate
<1>3. ASSUME NEW text \in Messages, LiveMessage(text) PROVE UNCHANGED disk
  BY <1>3 DEF LiveMessage
<1>4. CASE WorkerRecord
  <2>1. CASE Recording
    <3>1. record_path \in Path
      BY <2>1 DEF ProcessInv, Recording
    <3>2. event \in Event
      BY <1>4, EventInHand DEF WorkerRecord
    <3>3. QED
      BY <1>4, <2>1, <3>1, <3>2 DEF WorkerRecord
  <2>2. CASE ~Recording
    BY <1>4, <2>2 DEF WorkerRecord
  <2>3. QED
    BY <2>1, <2>2
<1>5. CASE RecordFails \/ (Kill /\ InHand /\ Recording)
  <2>1. record_path \in Path
    BY <1>5 DEF ProcessInv, RecordFails, Recording
  <2>2. event \in Event
    BY <1>5, EventInHand DEF RecordFails
  <2>3. \E f \in RecordTorn(files[record_path], event) : Tear(f)
    BY <1>5 DEF RecordFails, Kill
  <2>4. QED
    BY <2>1, <2>2, <2>3
<1>6. CASE Kill /\ ~(InHand /\ Recording)
  BY <1>6 DEF Kill
<1>7. CASE UNCHANGED demoVars
  BY <1>7 DEF demoVars
<1>8. QED
  BY <1>1, <1>2, <1>3, <1>4, <1>5, <1>6, <1>7 DEF DemoNext, MainStep, WorkerStep

LEMMA DiskInvStep ==
  ASSUME DiskInv, ProcessInv, [DemoNext]_demoVars
  PROVE  DiskInv'
<1>0. /\ kept \in [Path -> Seq(Event)] /\ tears \in [Path -> Nat]
      /\ \A p \in Path : FileInv(files[p], kept[p], tears[p])
  BY DEF DiskInv
<1>1. CASE UNCHANGED disk
  BY <1>0, <1>1 DEF DiskInv, files
<1>2. ASSUME record_path \in Path, NEW e \in Event,
             Replace(record_path, Record(files[record_path], e)),
             kept' = [kept EXCEPT ![record_path] = Append(@, e)], UNCHANGED tears
      PROVE  DiskInv'
  <2> DEFINE f == Record(files[record_path], e)
  <2>1. FileInv(f, Append(kept[record_path], e), tears[record_path])
    BY <1>0, <1>2, RecordKeeps
  <2>2. f \in [lines : Seq(Line), torn : BOOLEAN] /\ Append(kept[record_path], e) \in Seq(Event)
    BY <2>1 DEF FileInv
  <2> HIDE DEF f
  <2>3. files'[record_path] = f /\ \A q \in Path : q # record_path => files'[q] = files[q]
    BY <1>2, <2>2, Replaced DEF f
  <2>4. /\ kept' \in [Path -> Seq(Event)] /\ kept'[record_path] = Append(kept[record_path], e)
        /\ \A q \in Path : q # record_path => kept'[q] = kept[q]
    BY <1>0, <1>2, <2>2
  <2>5. \A q \in Path : FileInv(files'[q], kept'[q], tears'[q])
    BY <1>0, <1>2, <2>1, <2>3, <2>4
  <2>6. QED
    BY <1>0, <1>2, <2>4, <2>5 DEF DiskInv
<1>3. ASSUME record_path \in Path, NEW e \in Event,
             NEW f \in RecordTorn(files[record_path], e), Tear(f)
      PROVE  DiskInv'
  <2>1. FileInv(f, kept[record_path], tears[record_path] + 1)
    BY <1>0, <1>3, TornKeeps
  <2>2. f \in [lines : Seq(Line), torn : BOOLEAN] /\ tears[record_path] + 1 \in Nat
    BY <2>1 DEF FileInv
  <2>3. files'[record_path] = f /\ \A q \in Path : q # record_path => files'[q] = files[q]
    BY <1>3, <2>2, Replaced DEF Tear
  <2>4. /\ tears' \in [Path -> Nat] /\ tears'[record_path] = tears[record_path] + 1
        /\ \A q \in Path : q # record_path => tears'[q] = tears[q]
        /\ kept' = kept
    BY <1>0, <1>3, <2>2 DEF Tear
  <2>5. \A q \in Path : FileInv(files'[q], kept'[q], tears'[q])
    BY <1>0, <1>3, <2>1, <2>3, <2>4
  <2>6. QED
    BY <1>0, <2>4, <2>5 DEF DiskInv
<1>4. QED
  BY <1>1, <1>2, <1>3, DiskStep

-----------------------------------------------------------------------------
(* The process *)

(* Reading back a line of the capture gives an event of ours, if any. *)
LEMMA ReadGivesEvent ==
  ASSUME NEW line \in Line, marketEventFromJson(line) # <<>>
  PROVE  \E e \in Event : marketEventFromJson(line) = <<e>>
BY GoodLineIs, EventsWellFormed DEF IsGood

LEMMA ReturnsEvent ==
  ASSUME returned \in Seq(Event), NEW r, \E e \in Event : r = <<e>>
  PROVE  returned \o r \in Seq(Event) /\ Len(returned \o r) # 0
<1>1. PICK e \in Event : r = <<e>>
  OBVIOUS
<1>2. QED
  BY <1>1

LEMMA ProcessStep ==
  ASSUME DiskInv, ProcessInv, ReplayInv, [DemoNext]_demoVars
  PROVE  ProcessInv'
<1> USE DEF ProcessInv
<1>1. ASSUME NEW m \in {"live", "replay"}, NEW r \in Path \cup {"none"}, Run(m, r)
      PROVE  ProcessInv'
  BY <1>1 DEF Run
<1>2. CASE handleSignal \/ WorkerFinish \/ WorkerRecord \/ RecordFails
  BY <1>2 DEF handleSignal, WorkerFinish, WorkerRecord, RecordFails, InHand
<1>3. CASE MainStop
  BY <1>3 DEF MainStop, Stop
<1>4. CASE MainExit \/ Terminate \/ Kill
  <2>1. Gone
    BY <1>4 DEF MainExit, Terminate, Kill
  <2>2. <<>> \in Seq(Event)
    OBVIOUS
  <2>3. QED
    BY <2>1, <2>2 DEF Gone
<1>5. CASE WorkerCall
  BY <1>5 DEF WorkerCall, NextCall
<1>6. CASE WorkerNext
  <2>0. worker = "next" /\ UNCHANGED <<disk, main, worker, args>> /\ main # "off"
    BY <1>6 DEF WorkerNext
  <2>1. CASE LoopStop
    BY <2>0, <2>1 DEF LoopStop
  <2>2. CASE LoopGo
    BY <2>0, <2>2 DEF LoopGo
  <2>3. CASE ReadEnd
    BY <2>0, <2>3 DEF ReadEnd
  <2>4. CASE ReadSkipped
    BY <2>0, <2>4 DEF ReadSkipped
  <2>5. CASE ReadThrows
    BY <2>0, <2>5 DEF ReadThrows
  <2>6. CASE mode = "replay" /\ ReadEvent
    <3>1. file \in Seq(Line)
      BY DEF DiskInv, FileInv, files, Path
    <3>2. pos + 1 \in 1..Len(file)
      BY <2>6, <3>1 DEF ReadEvent, ReplayInv, LineInv, AtEnd
    <3>3. QED
      BY <2>0, <2>6, <3>1, <3>2, ReadGivesEvent, ReturnsEvent DEF ReadEvent
  <2>7. QED
    BY <1>6, <2>1, <2>2, <2>3, <2>4, <2>5, <2>6 DEF WorkerNext
<1>7. ASSUME NEW text \in Messages, LiveMessage(text) PROVE ProcessInv'
  <2>1. parseBinanceTradeMessage(text) # <<>> =>
          \E e \in Event : parseBinanceTradeMessage(text) = <<e>>
    BY TradedWellFormed DEF Event, Traded
  <2>2. QED
    BY <1>7, <2>1, ReturnsEvent DEF LiveMessage
<1>8. CASE LiveInterrupted
  BY <1>8 DEF LiveInterrupted
<1>9. CASE UNCHANGED demoVars
  BY <1>9 DEF demoVars
<1>10. QED
  BY <1>1, <1>2, <1>3, <1>4, <1>5, <1>6, <1>7, <1>8, <1>9 DEF DemoNext, MainStep, WorkerStep

(* While the capture is replayed nothing is written to it. *)
LEMMA CaptureUntouched ==
  ASSUME DiskInv, ProcessInv, [DemoNext]_demoVars, record_path # "capture"
  PROVE  file' = file
<1>1. ASSUME NEW f, record_path \in Path, Replace(record_path, f) PROVE file' = file
  BY <1>1 DEF Replace
<1>2. QED
  BY <1>1, DiskStep DEF Tear

LEMMA LinesAreLines ==
  ASSUME DiskInv
  PROVE  file \in Seq(Line) /\ file \in Seq({file[i] : i \in DOMAIN file})
<1>1. file \in Seq(Line)
  BY DEF DiskInv, FileInv, files, Path
<1>2. file \in [1..Len(file) -> {file[i] : i \in DOMAIN file}] /\ Len(file) \in Nat
  BY <1>1
<1>3. file \in Seq({file[i] : i \in DOMAIN file})
  BY <1>2, SeqDef
<1>4. QED
  BY <1>1, <1>3

LEMMA ReplayStep ==
  ASSUME DiskInv, ProcessInv, ReplayInv, [DemoNext]_demoVars
  PROVE  ReplayInv'
<1> SUFFICES ASSUME mode' = "replay" PROVE ReplayInv'
  BY DEF ReplayInv
<1>1. ASSUME NEW m \in {"live", "replay"}, NEW r \in Path \cup {"none"}, Run(m, r)
      PROVE  ReplayInv'
  <2>1. /\ pos = 0 /\ returned = <<>> /\ lines_malformed_ = 0 /\ outcome = "none"
    BY <1>1 DEF Run, ProcessInv
  <2>2. LineInv /\ Faithful
    BY <2>1, LinesAreLines, NothingRead
  <2>3. UNCHANGED <<file, pos, returned, lines_malformed_>>
    <3>1. CASE r = "none"
      BY <1>1, <3>1 DEF Run
    <3>2. CASE r # "none"
      BY <1>1, <3>2 DEF Run, Replace, Open, files, Path
    <3>3. QED
      BY <1>1, <3>1, <3>2 DEF Run
  <2>4. LineRead
    BY <2>3 DEF LineRead
  <2>5. LineInv' /\ Faithful'
    BY <2>2, <2>4, LineInvStep, FaithfulStep
  <2>6. QED
    BY <1>1, <2>1, <2>5 DEF Run, ReplayInv
<1>2. CASE MainExit \/ Terminate \/ Kill
  BY <1>2 DEF MainExit, Terminate, Kill, Gone
<1>3. ASSUME mode = "replay", record_path' = record_path, LineRead,
             in_' = "failed" => (in_ = "failed" /\ pos' = pos) \/ pos' = Len(file'),
             outcome' = "false" => stop_requested_' \/ in_' = "failed"
      PROVE  ReplayInv'
  <2>1. LineInv' /\ Faithful'
    BY <1>3, LineInvStep, FaithfulStep DEF ReplayInv
  <2>2. file' = file
    BY <1>3 DEF LineRead
  <2>3. QED
    BY <1>3, <2>1, <2>2 DEF ReplayInv
<1>4. ASSUME mode = "replay", UNCHANGED <<args, stream, lines_malformed_, returned>>,
             outcome' = "false" => stop_requested_' \/ in_' = "failed"
      PROVE  ReplayInv'
  <2>1. file' = file
    BY <1>4, CaptureUntouched DEF ReplayInv
  <2>2. LineRead
    BY <1>4, <2>1 DEF LineRead
  <2>3. QED
    BY <1>3, <1>4, <2>2
<1>5. CASE handleSignal \/ WorkerFinish \/ WorkerRecord \/ RecordFails \/ UNCHANGED demoVars
  <2>1. UNCHANGED <<args, source>>
    BY <1>5 DEF handleSignal, WorkerFinish, WorkerRecord, RecordFails, demoVars
  <2>2. QED
    BY <1>4, <2>1 DEF ReplayInv
<1>6. CASE MainStop \/ WorkerCall
  BY <1>4, <1>6 DEF MainStop, WorkerCall, Stop, NextCall
<1>7. CASE WorkerNext
  <2>1. mode = "replay" /\ UNCHANGED <<disk, args>> /\ reader # "aborted" /\ ReaderStep
    BY <1>7 DEF WorkerNext, ReaderStep, LoopStop, LoopGo, ReadEnd, ReadSkipped, ReadThrows,
                ReadEvent
  <2>2. Next
    BY <2>1 DEF Next
  <2>3. LineRead
    BY <2>1, <2>2, LineStep DEF ReplayInv
  <2>4. in_' = "failed" => (in_ = "failed" /\ pos' = pos) \/ pos' = Len(file')
    BY <2>1 DEF ReaderStep, LoopStop, LoopGo, ReadEnd, ReadSkipped, ReadThrows, ReadEvent,
                AtEnd, ReplayInv
  <2>5. outcome' = "false" => stop_requested_' \/ in_' = "failed"
    BY <2>1 DEF ReaderStep, LoopStop, LoopGo, ReadEnd, ReadSkipped, ReadThrows, ReadEvent,
                ReplayInv
  <2>6. QED
    BY <1>3, <2>1, <2>3, <2>4, <2>5
<1>8. ASSUME NEW text \in Messages, LiveMessage(text) PROVE FALSE
  BY <1>8 DEF LiveMessage
<1>9. CASE LiveInterrupted
  BY <1>9 DEF LiveInterrupted
<1>10. QED
  BY <1>1, <1>2, <1>5, <1>6, <1>7, <1>8, <1>9 DEF DemoNext, MainStep, WorkerStep

-----------------------------------------------------------------------------
(* The invariant *)

LEMMA FirstFile ==
  ASSUME NEW s \in Seq(Line), \A i \in 1..Len(s) : ~IsGood(s[i])
  PROVE  FileInv([lines |-> s, torn |-> FALSE], <<>>, 0)
<1> DEFINE f == [lines |-> s, torn |-> FALSE]
<1>1. f.lines = s /\ f.torn = FALSE /\ f \in [lines : Seq(Line), torn : BOOLEAN]
  OBVIOUS
<1>2. <<>> \in Seq(Event) /\ Len(s) \in Nat /\ Len(<<>>) = 0
  OBVIOUS
<1> HIDE DEF f
<1>3. Exact(f, <<>>)
  BY <1>1, <1>2 DEF Exact
<1>4. FiniteIn(<<>>) = {}
  BY DEF FiniteIn
<1>5. Cardinality(FiniteIn(<<>>)) = 0 /\ Debt(f) = 0
  BY <1>1, <1>4, FS_EmptySet DEF Debt
<1>6. FileInv(f, <<>>, 0)
  BY <1>1, <1>2, <1>3, <1>5, GoodFinite DEF FileInv
<1>7. QED
  BY <1>6 DEF f

LEMMA InitDemo == DemoInit => DemoInv
<1> SUFFICES ASSUME DemoInit PROVE DemoInv
  OBVIOUS
<1>1. file \in Files /\ mode = "live" /\ record_path = "none" /\ returned = <<>>
      /\ outcome = "none" /\ worker = "none" /\ in_ = "closed" /\ pos = 0
      /\ lines_malformed_ = 0 /\ torn = FALSE /\ copy = NoFile
      /\ kept = [p \in Path |-> <<>>] /\ tears = [p \in Path |-> 0]
  BY DEF DemoInit, Init
<1>2. file \in Seq({file[i] : i \in DOMAIN file}) /\ \A i \in DOMAIN file : file[i] \in Line
  BY <1>1, FilesAssumption DEF Line
<1>3. file \in Seq(Line) /\ \A i \in 1..Len(file) : ~IsGood(file[i])
  <2>1. \A i \in DOMAIN file : ~IsGood(file[i])
    BY <1>1, DemoAssumption DEF IsGood
  <2>2. DOMAIN file = 1..Len(file) /\ Len(file) \in Nat
    BY <1>2
  <2>3. file \in [1..Len(file) -> Line]
    BY <1>2, <2>2
  <2>4. file \in Seq(Line)
    BY <2>2, <2>3, SeqDef
  <2>5. QED
    BY <2>1, <2>2, <2>4
<1>4. FileInv(files["capture"], <<>>, 0)
  BY <1>1, <1>3, FirstFile DEF files
<1>5. FileInv(files["copy"], <<>>, 0)
  <2>1. <<>> \in Seq(Line) /\ \A i \in 1..Len(<<>>) : ~IsGood(<<>>[i])
    OBVIOUS
  <2>2. FileInv([lines |-> <<>>, torn |-> FALSE], <<>>, 0)
    BY <2>1, FirstFile
  <2>3. QED
    BY <1>1, <2>2 DEF files, NoFile
<1>6. DiskInv
  <2>1. \A p \in Path : kept[p] = <<>> /\ tears[p] = 0 /\ FileInv(files[p], <<>>, 0)
    BY <1>1, <1>4, <1>5 DEF Path
  <2>2. kept \in [Path -> Seq(Event)] /\ tears \in [Path -> Nat]
    BY <1>1
  <2>3. QED
    BY <2>1, <2>2 DEF DiskInv
<1>7. ProcessInv
  BY <1>1 DEF ProcessInv
<1>8. QED
  BY <1>1, <1>6, <1>7 DEF DemoInv, ReplayInv

(* Over any number of runs, kills and failed writes: the disk holds what   *)
(* FileInv says, and a replay has returned the events of the lines read.   *)
THEOREM DemoInvariant == DemoSpec => []DemoInv
<1>1. DemoInv /\ [DemoNext]_demoVars => DemoInv'
  BY DiskInvStep, ProcessStep, ReplayStep DEF DemoInv
<1>2. QED
  BY <1>1, InitDemo, PTL DEF DemoSpec

-----------------------------------------------------------------------------
(* Sets of numbers, and the ranks in them *)

Shift(b, S) == {b + j : j \in S}

LEMMA ShiftCardinality ==
  ASSUME NEW b \in Nat, NEW S \in SUBSET Nat, IsFiniteSet(S)
  PROVE  IsFiniteSet(Shift(b, S)) /\ Cardinality(Shift(b, S)) = Cardinality(S)
<1> DEFINE F == [j \in S |-> b + j]
<1>1. F \in [S -> Shift(b, S)]
  BY DEF Shift
<1>2. \A i, j \in S : F[i] = F[j] => i = j
  OBVIOUS
<1>3. \A x \in Shift(b, S) : \E j \in S : F[j] = x
  BY DEF Shift
<1> HIDE DEF F
<1>4. F \in Bijection(S, Shift(b, S))
  BY <1>1, <1>2, <1>3, Fun_IsBij
<1>5. ExistsBijection(S, Shift(b, S))
  BY <1>4 DEF ExistsBijection
<1>6. QED
  BY <1>5, FS_Bijection

LEMMA ShiftRank ==
  ASSUME NEW b \in Nat, NEW S \in SUBSET Nat, IsFiniteSet(S), NEW j \in S
  PROVE  Rank(Shift(b, S), b + j) = Rank(S, j)
<1> DEFINE U == {i \in S : i <= j}
<1>1. {x \in Shift(b, S) : x <= b + j} = Shift(b, U)
  BY DEF Shift
<1>2. U \in SUBSET S /\ U \in SUBSET Nat
  OBVIOUS
<1>3. IsFiniteSet(U)
  BY <1>2, FS_Subset
<1>4. Cardinality(Shift(b, U)) = Cardinality(U)
  BY <1>2, <1>3, ShiftCardinality
<1>5. QED
  BY <1>1, <1>4 DEF Rank

(* Different members of a set have different ranks. *)
LEMMA RankOrder ==
  ASSUME NEW S \in SUBSET Nat, IsFiniteSet(S), NEW i \in S, NEW j \in S, i < j
  PROVE  Rank(S, i) < Rank(S, j)
<1> DEFINE U == {x \in S : x <= i}
           V == {x \in S : x <= j}
<1>1. i \in Nat /\ j \in Nat /\ \A x \in S : x \in Nat
  OBVIOUS
<1>2. V \in SUBSET S /\ U \in SUBSET V /\ j \in V /\ j \notin U
  <2>1. \A x \in S : x <= i => x <= j
    BY <1>1
  <2>2. j <= j /\ ~(j <= i)
    BY <1>1
  <2>3. QED
    BY ONLY <2>1, <2>2, j \in S
<1> HIDE DEF U, V
<1>3. IsFiniteSet(V) /\ IsFiniteSet(U)
  BY <1>2, FS_Subset
<1>4. Cardinality(U) <= Cardinality(V) /\ Cardinality(U) # Cardinality(V)
  BY <1>2, <1>3, FS_Subset
<1>5. Cardinality(U) \in Nat /\ Cardinality(V) \in Nat
  BY <1>3, FS_CardinalityType
<1>6. QED
  BY <1>4, <1>5 DEF Rank, U, V

LEMMA RankInjective ==
  ASSUME NEW S \in SUBSET Nat, IsFiniteSet(S)
  PROVE  \A i, j \in S : Rank(S, i) = Rank(S, j) => i = j
<1> SUFFICES ASSUME NEW i \in S, NEW j \in S, Rank(S, i) = Rank(S, j)
             PROVE  i = j
  OBVIOUS
<1>1. \A x \in S : Rank(S, x) \in Nat
  <2> SUFFICES ASSUME NEW x \in S PROVE Rank(S, x) \in Nat
    OBVIOUS
  <2>1. {y \in S : y <= x} \in SUBSET S
    OBVIOUS
  <2>2. QED
    BY <2>1, FS_Subset, FS_CardinalityType DEF Rank
<1>2. i \in Nat /\ j \in Nat
  OBVIOUS
<1>3. CASE i < j
  BY <1>1, <1>3, RankOrder
<1>4. CASE j < i
  BY <1>1, <1>4, RankOrder
<1>5. QED
  BY <1>2, <1>3, <1>4

-----------------------------------------------------------------------------
(* The capture *)

(* Where no write was cut short, the lines that can be read are those of   *)
(* the events with a finite price, and in their order.                     *)
LEMMA ExactGood ==
  ASSUME NEW f \in [lines : Seq(Line), torn : BOOLEAN], NEW k \in Seq(Event), Exact(f, k)
  PROVE  LET b == Len(f.lines) - Len(k)
         IN  /\ b \in Nat
             /\ GoodIn(f.lines) = Shift(b, FiniteIn(k))
             /\ \A j \in FiniteIn(k) :
                  marketEventFromJson(f.lines[b + j]) = << AsRead(k[j]) >>
<1> DEFINE s == f.lines
           b == Len(s) - Len(k)
<1>1. Len(s) \in Nat /\ Len(k) \in Nat /\ b \in Nat
  BY DEF Exact
<1>2. ASSUME NEW j \in 1..Len(k)
      PROVE  /\ b + j \in 1..Len(s)
             /\ s[b + j] = marketEventToJson(k[j])
             /\ k[j] \in Event
             /\ IsGood(s[b + j]) <=> k[j].price[1] = "finite"
  <2>1. b + j \in 1..Len(s)
    BY <1>1
  <2>2. s[b + j] = marketEventToJson(k[j])
    BY DEF Exact
  <2>3. k[j] \in Event
    OBVIOUS
  <2>4. QED
    BY <2>1, <2>2, <2>3, WrittenIsGood
<1>3. \A i \in 1..Len(s) : IsGood(s[i]) => i - b \in 1..Len(k) /\ i = b + (i - b)
  <2> SUFFICES ASSUME NEW i \in 1..Len(s), IsGood(s[i])
               PROVE  i - b \in 1..Len(k) /\ i = b + (i - b)
    OBVIOUS
  <2>1. i \notin 1..b
    BY DEF Exact
  <2>2. QED
    BY <1>1, <2>1
<1> HIDE DEF b, s
<1>4. ASSUME NEW i \in GoodIn(s) PROVE i \in Shift(b, FiniteIn(k))
  <2>1. i \in 1..Len(s) /\ IsGood(s[i])
    BY <1>4 DEF GoodIn
  <2>2. PICK j \in 1..Len(k) : i = b + j
    BY <1>3, <2>1
  <2>3. j \in FiniteIn(k)
    BY <1>2, <2>1, <2>2 DEF FiniteIn
  <2>4. QED
    BY <2>2, <2>3 DEF Shift
<1>5. ASSUME NEW j \in FiniteIn(k) PROVE b + j \in GoodIn(s)
  BY <1>2 DEF GoodIn, FiniteIn
<1>6. GoodIn(s) = Shift(b, FiniteIn(k))
  BY <1>4, <1>5 DEF Shift
<1>7. ASSUME NEW j \in FiniteIn(k)
      PROVE  marketEventFromJson(s[b + j]) = << AsRead(k[j]) >>
  <2>1. j \in 1..Len(k) /\ k[j].price[1] = "finite"
    BY DEF FiniteIn
  <2>2. s[b + j] = marketEventToJson(k[j]) /\ WellFormed(k[j])
    BY <1>2, <2>1, EventsWellFormed
  <2>3. QED
    BY <2>1, <2>2, RoundTrip
<1>8. QED
  BY <1>1, <1>6, <1>7 DEF b, s

LEMMA FileComplete ==
  ASSUME NEW f, NEW k, NEW t, FileInv(f, k, t)
  PROVE  /\ Cardinality(FiniteIn(k)) <= Cardinality(GoodIn(f.lines)) + t
         /\ t = 0 =>
              /\ Cardinality(GoodIn(f.lines)) = Cardinality(FiniteIn(k))
              /\ \A i \in GoodIn(f.lines), j \in FiniteIn(k) :
                   Rank(GoodIn(f.lines), i) = Rank(FiniteIn(k), j) =>
                     marketEventFromJson(f.lines[i]) = << AsRead(k[j]) >>
<1> DEFINE G == GoodIn(f.lines)
           R == FiniteIn(k)
           b == Len(f.lines) - Len(k)
<1>1. /\ f \in [lines : Seq(Line), torn : BOOLEAN] /\ k \in Seq(Event) /\ t \in Nat
      /\ Cardinality(R) + Debt(f) <= Cardinality(G) + t /\ f.lines \in Seq(Line)
      /\ Debt(f) \in 0..2
  BY DEF FileInv, Debt
<1>2. IsFiniteSet(G) /\ Cardinality(G) \in Nat /\ IsFiniteSet(R) /\ Cardinality(R) \in Nat
      /\ G \in SUBSET Nat /\ R \in SUBSET Nat
  BY <1>1, GoodFinite, RecordedFinite DEF GoodIn, FiniteIn
<1>3. Cardinality(R) <= Cardinality(G) + t
  BY <1>1, <1>2
<1>4. ASSUME t = 0
      PROVE  /\ Cardinality(G) = Cardinality(R)
             /\ \A i \in G, j \in R : Rank(G, i) = Rank(R, j) =>
                  marketEventFromJson(f.lines[i]) = << AsRead(k[j]) >>
  <2>1. Exact(f, k)
    BY <1>4 DEF FileInv
  <2>2. /\ b \in Nat /\ G = Shift(b, R)
        /\ \A j \in R : marketEventFromJson(f.lines[b + j]) = << AsRead(k[j]) >>
    BY <1>1, <2>1, ExactGood
  <2> HIDE DEF G, R, b
  <2>3. Cardinality(G) = Cardinality(R)
    BY <1>2, <2>2, ShiftCardinality
  <2>4. ASSUME NEW i \in G, NEW j \in R, Rank(G, i) = Rank(R, j)
        PROVE  marketEventFromJson(f.lines[i]) = << AsRead(k[j]) >>
    <3>1. b + j \in G
      BY <2>2 DEF Shift
    <3>2. Rank(Shift(b, R), b + j) = Rank(R, j)
      BY <1>2, <2>2, ShiftRank
    <3>3. Rank(G, i) = Rank(G, b + j)
      BY ONLY <2>2, <2>4, <3>2
    <3>4. i = b + j
      <4>1. IsFiniteSet(G) /\ G \in SUBSET Nat
        BY <1>2
      <4>2. \A x, y \in G : Rank(G, x) = Rank(G, y) => x = y
        BY ONLY <4>1, RankInjective
      <4>3. QED
        BY <3>1, <3>3, <4>2, Zenon
    <3>5. QED
      BY <2>2, <3>4
  <2>5. QED
    BY <2>3, <2>4
<1>5. QED
  BY <1>3, <1>4

(* For every first capture, every message and any number of runs, signals, *)
(* kills and failed writes: no write loses an event recorded before,       *)
(* but for the one that each cut write can cost; and a file to which every *)
(* write was complete has exactly the events recorded, as AsRead says.     *)
THEOREM CaptureIsComplete == DemoSpec => []CaptureComplete
<1>1. DemoInv => CaptureComplete
  <2> SUFFICES ASSUME DemoInv, NEW p \in Path
        PROVE  /\ Cardinality(Recorded(p)) <= Cardinality(Readable(p)) + tears[p]
               /\ tears[p] = 0 =>
                    /\ Cardinality(Readable(p)) = Cardinality(Recorded(p))
                    /\ \A i \in Readable(p), k \in Recorded(p) :
                         Rank(Readable(p), i) = Rank(Recorded(p), k) =>
                           marketEventFromJson(files[p].lines[i]) = << AsRead(kept[p][k]) >>
    BY DEF CaptureComplete
  <2>1. FileInv(files[p], kept[p], tears[p])
    BY DEF DemoInv, DiskInv
  <2>2. files[p].lines \in Seq(Line) /\ kept[p] \in Seq(Event)
    BY <2>1 DEF FileInv
  <2>3. Readable(p) = GoodIn(files[p].lines)
    BY <2>2 DEF Readable, GoodIn, IsGood
  <2>4. Recorded(p) = FiniteIn(kept[p])
    BY <2>2 DEF Recorded, FiniteIn
  <2> DEFINE G == GoodIn(files[p].lines)
             R == FiniteIn(kept[p])
  <2>5. /\ Cardinality(R) <= Cardinality(G) + tears[p]
        /\ tears[p] = 0 =>
             /\ Cardinality(G) = Cardinality(R)
             /\ \A i \in G, k \in R : Rank(G, i) = Rank(R, k) =>
                  marketEventFromJson(files[p].lines[i]) = << AsRead(kept[p][k]) >>
    BY ONLY <2>1, FileComplete
  <2> HIDE DEF G, R
  <2>6. Readable(p) = G /\ Recorded(p) = R
    BY <2>3, <2>4 DEF G, R
  <2>7. QED
    BY ONLY <2>5, <2>6
<1>2. QED
  BY <1>1, DemoInvariant, PTL

-----------------------------------------------------------------------------
(* The replay of a capture *)

(* The good lines read so far come first among those of the file, so their *)
(* ranks are the same; the ones still to come have higher ranks.           *)
LEMMA ReadPrefix ==
  ASSUME DiskInv, LineInv
  PROVE  LET G == GoodIn(file) IN
         /\ GoodLines = {i \in G : i <= pos}
         /\ Cardinality(GoodLines) <= Cardinality(G)
         /\ pos = Len(file) => GoodLines = G
         /\ \A i \in G : /\ i <= pos => Rank(GoodLines, i) = Rank(G, i)
                         /\ i > pos => Rank(G, i) > Cardinality(GoodLines)
<1> DEFINE G == GoodIn(file)
<1>1. /\ file \in Seq(Line) /\ Len(file) \in Nat /\ pos \in 0..Len(file) /\ pos \in Nat
      /\ IsFiniteSet(G) /\ Cardinality(G) \in Nat
      /\ \A i \in G : i \in Nat /\ i <= Len(file)
  BY LinesAreLines, GoodFinite DEF LineInv, GoodIn
<1>2. GoodLines = {i \in G : i <= pos}
  BY <1>1 DEF GoodLines, GoodLine, GoodIn, IsGood
<1> HIDE DEF G
<1>3. IsFiniteSet(GoodLines) /\ Cardinality(GoodLines) <= Cardinality(G)
      /\ Cardinality(GoodLines) \in Nat
  <2>1. GoodLines \in SUBSET G
    BY <1>2
  <2>2. QED
    BY <1>1, <2>1, FS_Subset, FS_CardinalityType
<1>4. pos = Len(file) => GoodLines = G
  BY <1>1, <1>2
<1>5. ASSUME NEW i \in G, i <= pos PROVE Rank(GoodLines, i) = Rank(G, i)
  <2>1. \A j \in G : j <= i => j <= pos
    BY <1>1, <1>5
  <2>2. {j \in GoodLines : j <= i} = {j \in G : j <= i}
    BY <1>2, <2>1
  <2>3. QED
    BY <2>2 DEF Rank
<1>6. ASSUME NEW i \in G, i > pos PROVE Rank(G, i) > Cardinality(GoodLines)
  <2> DEFINE U == {j \in G : j <= i}
  <2>1. \A j \in G : j <= pos => j <= i
    BY <1>1, <1>6
  <2>2. i <= i /\ ~(i <= pos)
    BY <1>1, <1>6
  <2>3. GoodLines \cup {i} \in SUBSET U /\ i \notin GoodLines /\ U \in SUBSET G
    BY <1>2, <2>1, <2>2
  <2> HIDE DEF U
  <2>4. IsFiniteSet(U) /\ Cardinality(U) \in Nat
    BY <1>1, <2>3, FS_Subset, FS_CardinalityType
  <2>5. Cardinality(GoodLines \cup {i}) = Cardinality(GoodLines) + 1
    BY <1>3, <2>3, FS_AddElement
  <2>6. Cardinality(GoodLines \cup {i}) <= Cardinality(U)
    BY <2>3, <2>4, FS_Subset
  <2>7. Cardinality(U) > Cardinality(GoodLines)
    BY <1>3, <2>4, <2>5, <2>6
  <2>8. QED
    BY <2>7 DEF Rank, U
<1>7. QED
  BY <1>2, <1>3, <1>4, <1>5, <1>6 DEF G

(* The malformed lines read are among those that were there before and the *)
(* lines of the events whose price was not finite.                         *)
LEMMA MalformedBound ==
  ASSUME DiskInv, LineInv, Exact(files["capture"], kept["capture"])
  PROVE  LET k == kept["capture"]
             before == 1..(Len(file) - Len(k))
         IN  Cardinality(BadLines) <=
               Cardinality({i \in before : Malformed(file[i])})
               + Len(k) - Cardinality(FiniteIn(k))
<1> DEFINE k == kept["capture"]
           R == FiniteIn(k)
           b == Len(file) - Len(k)
           A == {i \in 1..b : Malformed(file[i])}
           N == (1..Len(k)) \ R
           B == Shift(b, N)
<1>1. /\ files["capture"].lines = file
      /\ file \in Seq(Line) /\ Len(file) \in Nat /\ pos \in 0..Len(file)
      /\ k \in Seq(Event) /\ Len(k) \in Nat
  BY LinesAreLines DEF files, DiskInv, Path, LineInv
<1>2. /\ b \in Nat
      /\ \A j \in 1..Len(k) : file[b + j] = marketEventToJson(k[j])
  <2>1. Exact(files["capture"], k)
    OBVIOUS
  <2> HIDE DEF k
  <2>2. /\ Len(k) <= Len(file)
        /\ \A j \in 1..Len(k) : file[(Len(file) - Len(k)) + j] = marketEventToJson(k[j])
    BY <1>1, <2>1 DEF Exact
  <2>3. QED
    BY <1>1, <2>2
<1>3. IsFiniteSet(A) /\ Cardinality(A) \in Nat
  <2>1. IsFiniteSet(1..b) /\ A \in SUBSET (1..b)
    BY <1>2, FS_Interval
  <2>2. QED
    BY <2>1, FS_Subset, FS_CardinalityType
<1>4. IsFiniteSet(N) /\ Cardinality(N) = Len(k) - Cardinality(R) /\ Cardinality(R) \in Nat
  <2>1. (1..Len(k)) \cap R = R
    BY DEF FiniteIn
  <2> HIDE DEF k, R
  <2>2. IsFiniteSet(1..Len(k)) /\ Cardinality(1..Len(k)) = Len(k)
    <3>1. ASSUME NEW n \in Nat PROVE IsFiniteSet(1..n) /\ Cardinality(1..n) = n
      BY ONLY n \in Nat, FS_Interval
    <3>2. QED
      BY <1>1, <3>1
  <2>3. Cardinality(R) \in Nat
    BY <1>1, RecordedFinite DEF R
  <2>4. IsFiniteSet(N) /\ Cardinality(N) = Len(k) - Cardinality((1..Len(k)) \cap R)
    BY ONLY <2>2, FS_Difference
  <2>5. QED
    BY <2>1, <2>3, <2>4
<1>5. IsFiniteSet(B) /\ Cardinality(B) = Cardinality(N)
  <2>1. N \in SUBSET Nat
    BY <1>1
  <2>2. QED
    BY <1>2, <1>4, <2>1, ShiftCardinality
<1>6. ASSUME NEW i \in BadLines PROVE i \in A \cup B
  <2>1. /\ i \in 1..Len(file) /\ marketEventFromJson(file[i]) = <<>>
        /\ file[i].is # "empty" /\ file[i].is # "overflow"
    BY <1>1 DEF BadLines, GoodLines, GoodLine
  <2>2. CASE i \in 1..b
    BY <2>1, <2>2 DEF Malformed, Skipped
  <2>3. CASE i \notin 1..b
    <3>1. i - b \in 1..Len(k) /\ i = b + (i - b)
      <4> HIDE DEF k
      <4>1. QED
        BY <1>1, <1>2, <2>1, <2>3
    <3>2. PICK j \in 1..Len(k) : i = b + j
      BY <3>1
    <3>3. k[j] \in Event /\ file[i] = marketEventToJson(k[j])
      BY <1>1, <1>2, <3>2
    <3>4. ~IsGood(marketEventToJson(k[j]))
      BY <2>1, <3>3 DEF IsGood
    <3>5. k[j].price[1] # "finite"
      BY <3>3, <3>4, WrittenIsGood
    <3>6. j \in N
      BY <3>5 DEF FiniteIn
    <3>7. QED
      BY <3>2, <3>6 DEF Shift
  <2>4. QED
    BY <2>2, <2>3
<1> HIDE DEF A, B, N, R, b
<1>7. /\ IsFiniteSet(A \cup B)
      /\ Cardinality(A \cup B) = Cardinality(A) + Cardinality(B) - Cardinality(A \cap B)
      /\ Cardinality(A \cap B) \in Nat
  <2>1. IsFiniteSet(A \cap B)
    BY <1>3, FS_Intersection
  <2>2. QED
    BY <1>3, <1>5, <2>1, FS_Union, FS_CardinalityType
<1>8. Cardinality(BadLines) <= Cardinality(A \cup B) /\ Cardinality(BadLines) \in Nat
  <2>1. BadLines \in SUBSET (A \cup B)
    BY <1>6
  <2>2. QED
    BY <1>7, <2>1, FS_Subset, LinesFinite
<1>9. Cardinality(BadLines) <= Cardinality(A) + Len(k) - Cardinality(R)
  BY <1>1, <1>3, <1>4, <1>5, <1>7, <1>8
<1>10. QED
  BY <1>9 DEF A, R, b

(* For every first capture and every message, and whatever came before: a  *)
(* replay of a capture without a cut write returns the events recorded, in *)
(* order and as AsRead says, all of them if it ended by itself, and counts *)
(* as malformed at most the lines of events whose price was not finite and *)
(* those that were malformed before the first run.                         *)
THEOREM ReplayIsTheCapture == DemoSpec => []ReplayMatchesCapture
<1>1. ASSUME DemoInv, mode = "replay", tears["capture"] = 0
      PROVE  LET k == kept["capture"]
                 R == FiniteIn(k)
             IN  /\ Len(returned) <= Cardinality(R)
                 /\ \A j \in R : Rank(R, j) <= Len(returned) =>
                      returned[Rank(R, j)] = AsRead(k[j])
                 /\ outcome = "false" /\ ~stop_requested_ => Len(returned) = Cardinality(R)
                 /\ lines_malformed_ <=
                      Cardinality({i \in 1..(Len(file) - Len(k)) : Malformed(file[i])})
                      + Len(k) - Cardinality(R)
  <2> DEFINE k == kept["capture"]
             R == FiniteIn(k)
             G == GoodIn(file)
             b == Len(file) - Len(k)
  <2>1. /\ DiskInv /\ LineInv /\ Faithful
        /\ in_ = "failed" => pos = Len(file)
        /\ outcome = "false" => stop_requested_ \/ in_ = "failed"
    BY <1>1 DEF DemoInv, ReplayInv
  <2>2. FileInv(files["capture"], k, 0)
    BY <1>1, <2>1 DEF DiskInv, Path
  <2>3. /\ files["capture"].lines = file /\ Exact(files["capture"], k)
        /\ files["capture"] \in [lines : Seq(Line), torn : BOOLEAN] /\ k \in Seq(Event)
    BY <2>2 DEF FileInv, files
  <2>4. /\ b \in Nat /\ G = Shift(b, R)
        /\ \A j \in R : marketEventFromJson(file[b + j]) = << AsRead(k[j]) >>
    <3> HIDE DEF k
    <3>1. QED
      BY <2>3, ExactGood
  <2>5. lines_malformed_ <= Cardinality({i \in 1..b : Malformed(file[i])})
                            + Len(k) - Cardinality(R)
    BY <2>1, <2>3, MalformedBound DEF Faithful
  <2> HIDE DEF R, G, k, b
  <2>6. /\ R \in SUBSET Nat /\ IsFiniteSet(R) /\ Cardinality(G) = Cardinality(R)
        /\ Cardinality(R) \in Nat
    BY <2>3, <2>4, RecordedFinite, ShiftCardinality DEF R, FiniteIn
  <2>7. /\ GoodLines = {i \in G : i <= pos}
        /\ Cardinality(GoodLines) <= Cardinality(G)
        /\ pos = Len(file) => GoodLines = G
        /\ \A i \in G : /\ i <= pos => Rank(GoodLines, i) = Rank(G, i)
                        /\ i > pos => Rank(G, i) > Cardinality(GoodLines)
    BY <2>1, ReadPrefix DEF G
  <2>8. /\ Len(returned) = Cardinality(GoodLines) /\ Cardinality(GoodLines) \in Nat
        /\ pos \in Nat
        /\ \A i \in GoodLines : marketEventFromJson(file[i]) = << returned[Rank(GoodLines, i)] >>
    BY <2>1, LinesFinite DEF Faithful
  <2>9. ASSUME NEW j \in R, Rank(R, j) <= Len(returned)
        PROVE  returned[Rank(R, j)] = AsRead(k[j])
    <3> DEFINE i == b + j
    <3>1. i \in G /\ i \in Nat
      BY <2>4, <2>6 DEF Shift
    <3>2. Rank(G, i) = Rank(R, j)
      <4>1. Rank(Shift(b, R), b + j) = Rank(R, j)
        BY <2>4, <2>6, ShiftRank
      <4>2. QED
        BY ONLY <2>4, <4>1
    <3> HIDE DEF i
    <3>3. {x \in R : x <= j} \in SUBSET R
      OBVIOUS
    <3>4. Rank(R, j) \in Nat
      BY <2>6, <3>3, FS_Subset, FS_CardinalityType DEF Rank
    <3>5. ~(i > pos)
      <4>1. i > pos => Rank(G, i) > Cardinality(GoodLines)
        BY <2>7, <3>1
      <4>2. ~(Rank(G, i) > Cardinality(GoodLines))
        BY ONLY <2>8, <2>9, <3>2, <3>4
      <4>3. QED
        BY <4>1, <4>2
    <3>6. i <= pos
      BY <2>8, <3>1, <3>5
    <3>7. i \in GoodLines /\ Rank(GoodLines, i) = Rank(R, j)
      <4>1. Rank(GoodLines, i) = Rank(G, i)
        BY <2>7, <3>1, <3>6
      <4>2. QED
        BY ONLY <2>7, <3>1, <3>2, <3>6, <4>1
    <3>8. marketEventFromJson(file[i]) = << returned[Rank(R, j)] >>
      BY <2>8, <3>7
    <3>9. << returned[Rank(R, j)] >> = << AsRead(k[j]) >>
      BY <2>4, <3>8 DEF i
    <3>10. QED
      BY ONLY <3>9
  <2>10. Len(returned) <= Cardinality(R)
    BY <2>6, <2>7, <2>8
  <2>11. outcome = "false" /\ ~stop_requested_ => Len(returned) = Cardinality(R)
    BY <2>1, <2>6, <2>7, <2>8
  <2>12. QED
    BY <2>5, <2>9, <2>10, <2>11 DEF R, k, b
<1>2. DemoInv => ReplayMatchesCapture
  <2> SUFFICES ASSUME DemoInv, mode = "replay", tears["capture"] = 0
        PROVE  LET ours == Recorded("capture")
                   before == 1..(Len(file) - Len(kept["capture"]))
               IN  /\ Len(returned) <= Cardinality(ours)
                   /\ \A k \in ours : Rank(ours, k) <= Len(returned) =>
                        returned[Rank(ours, k)] = AsRead(kept["capture"][k])
                   /\ outcome = "false" /\ ~stop_requested_
                        => Len(returned) = Cardinality(ours)
                   /\ lines_malformed_ <= Cardinality({i \in before : Malformed(file[i])})
                                          + Len(kept["capture"]) - Cardinality(ours)
    BY DEF ReplayMatchesCapture
  <2>1. kept["capture"] \in Seq(Event)
    BY DEF DemoInv, DiskInv, Path
  <2>2. Recorded("capture") = FiniteIn(kept["capture"])
    BY <2>1 DEF Recorded, FiniteIn
  <2>3. QED
    BY <1>1, <2>2
<1>3. QED
  BY <1>2, DemoInvariant, PTL
=============================================================================
