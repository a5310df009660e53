--------------------------- MODULE MCReplaySource ---------------------------
(***************************************************************************)
(* ReplaySource for TLC: files of three lines of every kind, and files of  *)
(* one line whose event has every time and sequence number the width       *)
(* allows, or one field that is missing, empty or of another type.         *)
(***************************************************************************)
EXTENDS ReplaySource

Line(time, seq) ==
  [is |-> "object",
   fields |-> [f \in {"symbol", "price", "event_time_ms", "provider_sequence", "source"} |->
                 CASE f = "symbol" -> <<"string", "A">>
                   [] f = "price" -> <<"float", 1>>
                   [] f = "event_time_ms" -> <<"integer", time>>
                   [] f = "provider_sequence" -> <<"integer", seq>>
                   [] f = "source" -> <<"string", "live:binance">>]]

Good == Line(1, 1)

Without(f) ==
  [Good EXCEPT !.fields = [g \in DOMAIN Good.fields \ {f} |-> Good.fields[g]]]

With(f, v) == [Good EXCEPT !.fields[f] = v]

Odd == {Without(f) : f \in DOMAIN Good.fields}
       \cup {With(f, v) : f \in DOMAIN Good.fields,
                          v \in {<<"string", "">>, <<"null", 0>>, <<"float", 2>>, <<"integer", 2>>}}

Kinds == {Good, Line(-2, 7), Without("price")}
         \cup {[is |-> k] : k \in {"empty", "garbage", "overflow", "value"}}

MCFiles == {<<a, b, c>> : a, b, c \in Kinds}
           \cup {<<Line(t, s)>> : t, s \in JsonInteger} \cup {<<d>> : d \in Odd}
=============================================================================
