------------------------- MODULE MCCollectorMetrics -------------------------
(***************************************************************************)
(* A small instance of CollectorMetrics for TLC: bodies that do not decode *)
(* or are empty, a batch of three events that is refused as invalid, and   *)
(* one of one event that is handed to the writer, left, refused by Close   *)
(* or failed by the database.                                              *)
(***************************************************************************)
EXTENDS CollectorMetrics, TLC

MCEvents == {"e1", "e2", "e3"}
MCKeys == {"k1", "k2", "k3"}
MCKeyOf == "e1" :> "k1" @@ "e2" :> "k2" @@ "e3" :> "k3"

MixedRequests == {"garbled", "empty", "bad", "fine"}
MixedBatches == "garbled" :> <<>> @@ "empty" :> <<>>
                @@ "bad" :> <<"e1", "e2", "e3">> @@ "fine" :> <<"e1">>
MixedMalformed == {"garbled"}
MixedInvalid == {"bad"}

=============================================================================
