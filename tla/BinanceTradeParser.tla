------------------------- MODULE BinanceTradeParser -------------------------
(***************************************************************************)
(* parseBinanceTradeMessage() (include/tickforge/binance_trade_parser.hpp, *)
(* src/binance_trade_parser.cpp): a message of the combined stream becomes *)
(* an event or is rejected.  Texts, fields, doubles and optionals are those *)
(* of MarketEventJson; a text that is "overflow" makes json::parse() throw *)
(* what only the callers' thread can handle, and none does.                *)
(***************************************************************************)
EXTENDS MarketEventJson

(* std::from_chars on the price, which Binance sends as a string: it takes *)
(* the longest prefix that is a number and knows "inf" and "nan"; the code *)
(* looks at the error code and not at where the number ended.  One text    *)
(* for each case.                                                          *)
FromChars ==
  [s \in {"2", "0", "-1", "3x", "inf", "nan", "abc", "1e999", ""} |->
     CASE s = "2" -> << <<"finite", 2>> >>
       [] s = "0" -> << <<"finite", 0>> >>
       [] s = "-1" -> << <<"finite", -1>> >>
       [] s = "3x" -> << <<"finite", 3>> >>
       [] s \in {"inf", "nan"} -> << <<s, 0>> >>
       [] OTHER -> <<>>]

(* ~(price <= 0.0), which is true of a NaN. *)
Positive(price) == price[1] = "finite" => price[2] > 0

(* The source is what LiveSource::next() adds to the event. *)
parseBinanceTradeMessage(text) ==
  IF /\ text.is = "object"
     /\ Has(text.fields, "data", {"object"})
  THEN LET data == text.fields["data"][2] IN
       IF /\ "e" \in DOMAIN data /\ data["e"] = <<"string", "trade">>
          /\ NonEmptyString(data, "s")
          /\ Has(data, "p", {"string"})
          /\ Has(data, "T", {"integer"})
          /\ FromChars[data["p"][2]] # <<>>
          /\ Positive(FromChars[data["p"][2]][1])
       THEN << [symbol |-> data["s"][2],
                price |-> FromChars[data["p"][2]][1],
                event_time |-> TimeFromMs(data["T"][2]),
                provider_sequence |-> IF Has(data, "t", {"integer"})
                                      THEN <<Unsigned(data["t"][2])>> ELSE <<>>,
                source |-> "live:binance"] >>
       ELSE <<>>
  ELSE <<>>
=============================================================================
