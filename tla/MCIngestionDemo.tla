-------------------------- MODULE MCIngestionDemo --------------------------
(***************************************************************************)
(* IngestionDemo for TLC: two trades that differ in every field, one whose *)
(* time overflows, one whose price is no number JSON can hold, a message   *)
(* that is no trade and one that makes the parser throw.                   *)
(***************************************************************************)
EXTENDS IngestionDemo

Trade(s, p, time, id) ==
  [is |-> "object",
   fields |-> [f \in {"data"} |-> <<"object",
     [e |-> <<"string", "trade">>, s |-> <<"string", s>>, p |-> <<"string", p>>,
      T |-> <<"integer", time>>, t |-> id]>>]]

MCMessages ==
  {Trade("A", "2", -2, <<"integer", 15>>), Trade("B", "3x", 9, <<"null", 0>>),
   Trade("A", "nan", 1, <<"integer", 1>>), Trade("A", "0", 1, <<"integer", 1>>),
   [is |-> "overflow"]}

MCFiles == {<<[is |-> "garbage"], [is |-> "empty"]>>, <<[is |-> "overflow"]>>}
=============================================================================
