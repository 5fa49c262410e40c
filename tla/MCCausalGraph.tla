--------------------------- MODULE MCCausalGraph ---------------------------
(***************************************************************************)
(* Small lists of events for TLC: NoParent is 0, ids are positive numbers. *)
(***************************************************************************)
EXTENDS CausalGraph

Event(I, P, T) == [id : I, parent : P, ts : T]

\* Two or three events with repeated ids, missing parents and any times.
ShortLists == UNION {[1..n -> Event(1..3, 0..3, 1..2)] : n \in 2..3}

\* Four events of one time: a loop of up to four, or a smaller one with
\* events below it, or two loops; 5 is a parent that is missing.
LongLists == {[i \in 1..4 |-> [id |-> i, parent |-> f[i], ts |-> 1]] :
                f \in [1..4 -> {0, 1, 2, 3, 4, 5}]}

MCTraces == ShortLists \union LongLists

=============================================================================
