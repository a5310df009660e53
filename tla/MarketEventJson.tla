-------------------------- MODULE MarketEventJson --------------------------
(***************************************************************************)
(* The capture format (include/tickforge/market_event.hpp,                 *)
(* market_event_json.hpp and src/market_event_json.cpp): what the two      *)
(* conversions between a MarketEvent and JSON accept, change and lose.     *)
(*                                                                         *)
(* A piece of text is a record.  text.is says what nlohmann::json makes of *)
(* it: "empty" and "garbage" are no JSON, "overflow" is JSON with a number *)
(* beyond double's range (parse() throws out_of_range, which is not a      *)
(* parse_error), "value" is JSON but no object, and "object" has fields,   *)
(* each a pair <<type, contents>>.                                         *)
(*                                                                         *)
(* Integers have their width: W bits stand for the 64 of the code, and     *)
(* Scale ticks of the system clock for the million in a millisecond.       *)
(* ingest_time is not part of the format; whoever reads an event stamps it.*)
(***************************************************************************)
EXTENDS Integers, Sequences

CONSTANTS W, Scale

ASSUME CodecAssumption == W \in Nat \ {0} /\ Scale \in Nat \ {0}

(* Casts to std::uint64_t and std::int64_t. *)
Unsigned(n) == n % 2^W
Signed(n) == IF Unsigned(n) < 2^(W - 1) THEN Unsigned(n) ELSE Unsigned(n) - 2^W

(* The numbers JSON keeps as integers; a longer one becomes a float. *)
JsonInteger == -(2^(W - 1)) .. (2^W - 1)

(* A time_point from get<int64_t>() milliseconds: the product overflows,   *)
(* and the build, which has no trapping arithmetic, wraps.                 *)
TimeFromMs(ms) == Signed(Signed(ms) * Scale)

(* Mutant: the count of clock ticks is written. *)
TicksFromTime(t) == t

(* duration_cast<milliseconds> rounds towards zero. *)
MsFromTime(t) == IF t >= 0 THEN t \div Scale ELSE -((-t) \div Scale)

(* A double is <<"finite", n>>, <<"inf", 0>> or <<"nan", 0>>; dump() writes *)
(* what is not finite as null.                                             *)
DoubleToJson(x) == IF x[1] = "finite" THEN <<"float", x[2]>> ELSE <<"null", 0>>

marketEventToJson(event) ==
  [is |-> "object",
   fields |->
     [f \in {"symbol", "price", "event_time_ms", "source"}
            \cup (IF event.provider_sequence = <<>> THEN {} ELSE {"provider_sequence"}) |->
        CASE f = "symbol" -> <<"string", event.symbol>>
          [] f = "price" -> DoubleToJson(event.price)
          [] f = "event_time_ms" -> <<"integer", MsFromTime(event.event_time)>>
          [] f = "provider_sequence" -> <<"integer", event.provider_sequence[1]>>
          [] f = "source" -> <<"string", event.source>>]]

(* contains(f) and is_string(), is_number() or is_number_integer(). *)
Has(fields, f, types) == f \in DOMAIN fields /\ fields[f][1] \in types

NonEmptyString(fields, f) == Has(fields, f, {"string"}) /\ fields[f][2] # ""

(* An optional is <<>> or <<value>>. *)
marketEventFromJson(text) ==
  IF /\ text.is = "object"
     /\ NonEmptyString(text.fields, "symbol")
     /\ Has(text.fields, "price", {"integer", "float"})
     /\ Has(text.fields, "event_time_ms", {"integer"})
  THEN LET fs == text.fields IN
       << [symbol |-> fs["symbol"][2],
           price |-> <<"finite", fs["price"][2]>>,
           event_time |-> TimeFromMs(fs["event_time_ms"][2]),
           provider_sequence |-> IF Has(fs, "provider_sequence", {"integer"})
                                 THEN <<Unsigned(fs["provider_sequence"][2])>> ELSE <<>>,
           source |-> IF Has(fs, "source", {"string"}) THEN fs["source"][2] ELSE ""] >>
  ELSE <<>>
=============================================================================
