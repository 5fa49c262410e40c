-------------------------- MODULE MCVerticalSlice --------------------------
(***************************************************************************)
(* A small instance of VerticalSlice for TLC: two checkouts and a span of  *)
(* one trace, with counters about to reach two digits.                     *)
(***************************************************************************)
EXTENDS VerticalSlice, TLC

MCCheckouts == {"c1", "c2"}
MCSpans == {"s1"}
OneTrace == [x \in MCCheckouts \union MCSpans |-> "t"]
MCClients == {"q1", "q2"}

=============================================================================
