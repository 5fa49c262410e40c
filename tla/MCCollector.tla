---------------------------- MODULE MCCollector ----------------------------
(***************************************************************************)
(* Small instances of Collector for TLC.                                   *)
(***************************************************************************)
EXTENDS Collector, TLC

\* e1 and f1 are two events under one key, k1.
MCEvents == {"e1", "f1", "e2"}
MCKeys == {"k1", "k2"}
MCKeyOf == "e1" :> "k1" @@ "f1" :> "k1" @@ "e2" :> "k2"

\* Batches of one, one and two events that repeat a key: with a capacity of 2
\* the two small ones are admitted together, the larger one only alone, and
\* the writer may flush one or two of them at once.
FewRequests == {"one", "two", "pair"}
FewBatches == "one" :> <<"e1">> @@ "two" :> <<"f1">> @@ "pair" :> <<"f1", "e2">>

None == {}

=============================================================================
