--------------------------- MODULE MetricsProofs ---------------------------
(***************************************************************************)
(* Proofs about the counters of Collector and the scrape that shows them.  *)
(*                                                                         *)
(* Every batch is in the account of the counters once: received it is      *)
(* under way until one step counts it as persisted or rejected.  Surplus   *)
(* is what is left of the account; the only step that adds to it is that   *)
(* of a client who leaves before the send.                                 *)
(***************************************************************************)
EXTENDS CollectorMetrics, CollectorProofs, FunctionTheorems

\* The account of batches, counters only.
Account(m) == m["received"] - m["persisted"] - m["validation"] - m["overload"]
                - m["storage"]
Ends == {"persisted", "validation", "overload", "storage"}
Others == Counters \ (Ends \union {"received"})

Surplus == Account(metrics) + Cardinality(Empty) - Cardinality(Undecided)

\* The histogram, in batches and in the fewest events they have.
Histogram(m) == m["1"] + m["2_10"] + m["11_50"] + m["51_100"] + m["101_250"]
                  + m["251_500"] + m["gt_500"]
Least(m) == m["1"] + 2 * m["2_10"] + 11 * m["11_50"] + 51 * m["51_100"]
              + 101 * m["101_250"] + 251 * m["251_500"] + 501 * m["gt_500"]
\* Batches received and not yet in the histogram, and those of them whose
\* events are in already.
Counting == {r \in Requests : pc[r] \in {"counting", "bucketing"}}
Bucketing == {r \in Requests : pc[r] = "bucketing"}

BatchesCounted == Surplus >= 0 /\ (crashes = 0 => Surplus = Cardinality(Uncounted))
HistogramCounted == /\ Histogram(metrics) + Cardinality(Counting) = metrics["received"]
                    /\ Least(metrics) + EventsOf(Bucketing) <= metrics["eventsReceived"]

----------------------------------------------------------------------------
(* Operators.                                                              *)

\* Sets of requests are finite.
LEMMA Counts ==
    ASSUME NEW R \in SUBSET Requests
    PROVE  /\ IsFiniteSet(R) /\ Cardinality(R) \in Nat
           /\ \A r \in Requests \ R : Cardinality(R \union {r}) = Cardinality(R) + 1
<1>1. IsFiniteSet(R)
  BY BatchAssumption, FS_Subset
<1>2. Cardinality(R) \in Nat
  BY <1>1, FS_CardinalityType
<1>3. ASSUME NEW r \in Requests \ R PROVE Cardinality(R \union {r}) = Cardinality(R) + 1
  BY <1>1, FS_AddElement
<1> QED BY <1>1, <1>2, <1>3

\* A list without duplicates is as long as its set is large.
LEMMA DistinctCount ==
    ASSUME NEW s \in Seq(Requests), Distinct(s)
    PROVE  Cardinality(InSeq(s)) = Len(s)
<1>1. Len(s) \in Nat /\ \A i \in 1..Len(s) : s[i] \in Requests
  OBVIOUS
<1>2. IsFiniteSet(1..Len(s)) /\ Cardinality(1..Len(s)) = Len(s)
  <2> DEFINE n == Len(s)
  <2>1. n \in Nat
    OBVIOUS
  <2> HIDE DEF n
  <2>2. IsFiniteSet(1..n) /\ Cardinality(1..n) = n
    BY <2>1, FS_Interval
  <2> QED BY <2>2 DEF n
<1> DEFINE f == [i \in 1..Len(s) |-> s[i]]
<1>3. f \in Bijection(1..Len(s), InSeq(s))
  <2>1. f \in [1..Len(s) -> InSeq(s)] /\ \A i \in 1..Len(s) : f[i] = s[i]
    BY DEF InSeq
  <2>2. \A i, j \in 1..Len(s) : f[i] = f[j] => i = j
    BY <2>1 DEF Distinct
  <2>3. \A x \in InSeq(s) : \E i \in 1..Len(s) : f[i] = x
    BY <2>1 DEF InSeq
  <2> HIDE DEF f
  <2> QED BY <2>1, <2>2, <2>3, Fun_IsBij
<1> HIDE DEF f
<1>4. ExistsBijection(1..Len(s), InSeq(s))
  BY <1>3 DEF ExistsBijection
<1> QED BY <1>2, <1>4, FS_Bijection

\* Taking a set of requests away from one that holds them.
LEMMA CountsApart ==
    ASSUME NEW R \in SUBSET Requests, NEW S \in SUBSET Requests, R \intersect S = {}
    PROVE  Cardinality(R \union S) = Cardinality(R) + Cardinality(S)
<1>1. IsFiniteSet(R) /\ IsFiniteSet(S) /\ Cardinality(R) \in Nat /\ Cardinality(S) \in Nat
  BY Counts
<1>2. Cardinality(R \intersect S) = 0
  BY FS_EmptySet
<1>3. Cardinality(R \union S)
        = Cardinality(R) + Cardinality(S) - Cardinality(R \intersect S)
  BY <1>1, FS_Union
<1> QED BY <1>1, <1>2, <1>3

\* What an addition to a counter does to the account.
LEMMA AccountAdd ==
    ASSUME NEW m \in [Counters -> Nat], NEW n \in Nat
    PROVE  /\ Account(m) \in Int
           /\ Account(Add(m, "received", n)) = Account(m) + n
           /\ \A c \in Ends : Account(Add(m, c, n)) = Account(m) - n
           /\ \A c \in Others : Account(Add(m, c, n)) = Account(m)
<1>0. /\ "received" \in Counters /\ "persisted" \in Counters /\ "validation" \in Counters
      /\ "overload" \in Counters /\ "storage" \in Counters
  BY DEF Counters
<1>1. Account(m) \in Int
  BY <1>0 DEF Account
<1>2. Account(Add(m, "received", n)) = Account(m) + n
  BY <1>0 DEF Account, Add
<1>3. ASSUME NEW c \in Ends PROVE Account(Add(m, c, n)) = Account(m) - n
  BY <1>0, <1>3 DEF Account, Add, Ends
<1>4. ASSUME NEW c \in Others PROVE Account(Add(m, c, n)) = Account(m)
  BY <1>0, <1>4 DEF Account, Add, Others, Ends
<1> QED BY <1>1, <1>2, <1>3, <1>4

\* The least events of one batch more.
LEMMA OneMore ==
    \A x \in Nat : /\ 2 * (x + 1) = 2 * x + 2 /\ 2 * x \in Nat
                   /\ 11 * (x + 1) = 11 * x + 11 /\ 11 * x \in Nat
                   /\ 51 * (x + 1) = 51 * x + 51 /\ 51 * x \in Nat
                   /\ 101 * (x + 1) = 101 * x + 101 /\ 101 * x \in Nat
                   /\ 251 * (x + 1) = 251 * x + 251 /\ 251 * x \in Nat
                   /\ 501 * (x + 1) = 501 * x + 501 /\ 501 * x \in Nat
OBVIOUS

\* The bucket of a batch holds it, and no batch that is smaller than its least.
LEMMA BucketAdd ==
    ASSUME NEW m \in [Counters -> Nat], NEW n \in Nat, n >= 1
    PROVE  /\ Bucket(n) \in Buckets
           /\ Histogram(Add(m, Bucket(n), 1)) = Histogram(m) + 1
           /\ Least(Add(m, Bucket(n), 1)) <= Least(m) + n
<1>0. Buckets \subseteq Counters /\ \A b \in Buckets : m[b] \in Nat
  BY DEF Counters
<1>1. ASSUME NEW b \in Buckets
      PROVE  /\ Histogram(Add(m, b, 1)) = Histogram(m) + 1
             /\ Least(m) \in Int
             /\ b = "1" => Least(Add(m, b, 1)) = Least(m) + 1
             /\ b = "2_10" => Least(Add(m, b, 1)) = Least(m) + 2
             /\ b = "11_50" => Least(Add(m, b, 1)) = Least(m) + 11
             /\ b = "51_100" => Least(Add(m, b, 1)) = Least(m) + 51
             /\ b = "101_250" => Least(Add(m, b, 1)) = Least(m) + 101
             /\ b = "251_500" => Least(Add(m, b, 1)) = Least(m) + 251
             /\ b = "gt_500" => Least(Add(m, b, 1)) = Least(m) + 501
  <2> DEFINE e == Add(m, b, 1)
  <2>1. e[b] = m[b] + 1 /\ \A d \in Buckets \ {b} : e[d] = m[d]
    BY <1>0 DEF Add
  <2> HIDE DEF e
  <2>2. /\ m["1"] \in Nat /\ m["2_10"] \in Nat /\ m["11_50"] \in Nat
        /\ m["51_100"] \in Nat /\ m["101_250"] \in Nat /\ m["251_500"] \in Nat
        /\ m["gt_500"] \in Nat
    BY <1>0 DEF Buckets
  <2>3. CASE b = "1"
    <3>1. /\ e["1"] = m["1"] + 1 /\ e["2_10"] = m["2_10"] /\ e["11_50"] = m["11_50"]
          /\ e["51_100"] = m["51_100"] /\ e["101_250"] = m["101_250"]
          /\ e["251_500"] = m["251_500"] /\ e["gt_500"] = m["gt_500"]
      BY <2>1, <2>3 DEF Buckets
    <3>2. Histogram(e) = Histogram(m) + 1
      BY <2>2, <2>3, <3>1 DEF Histogram
    <3>3. Least(e) = Least(m) + 1 /\ Least(m) \in Int
      BY <2>2, <2>3, <3>1, OneMore DEF Least
    <3> QED BY <2>2, <2>3, <3>1, <3>2, <3>3 DEF e
  <2>4. CASE b = "2_10"
    <3>1. /\ e["1"] = m["1"] /\ e["2_10"] = m["2_10"] + 1 /\ e["11_50"] = m["11_50"]
          /\ e["51_100"] = m["51_100"] /\ e["101_250"] = m["101_250"]
          /\ e["251_500"] = m["251_500"] /\ e["gt_500"] = m["gt_500"]
      BY <2>1, <2>4 DEF Buckets
    <3>2. Histogram(e) = Histogram(m) + 1
      BY <2>2, <2>4, <3>1 DEF Histogram
    <3>3. Least(e) = Least(m) + 2 /\ Least(m) \in Int
      BY <2>2, <2>4, <3>1, OneMore DEF Least
    <3> QED BY <2>2, <2>4, <3>1, <3>2, <3>3 DEF e
  <2>5. CASE b = "11_50"
    <3>1. /\ e["1"] = m["1"] /\ e["2_10"] = m["2_10"] /\ e["11_50"] = m["11_50"] + 1
          /\ e["51_100"] = m["51_100"] /\ e["101_250"] = m["101_250"]
          /\ e["251_500"] = m["251_500"] /\ e["gt_500"] = m["gt_500"]
      BY <2>1, <2>5 DEF Buckets
    <3>2. Histogram(e) = Histogram(m) + 1
      BY <2>2, <2>5, <3>1 DEF Histogram
    <3>3. Least(e) = Least(m) + 11 /\ Least(m) \in Int
      BY <2>2, <2>5, <3>1, OneMore DEF Least
    <3> QED BY <2>2, <2>5, <3>1, <3>2, <3>3 DEF e
  <2>6. CASE b = "51_100"
    <3>1. /\ e["1"] = m["1"] /\ e["2_10"] = m["2_10"] /\ e["11_50"] = m["11_50"]
          /\ e["51_100"] = m["51_100"] + 1 /\ e["101_250"] = m["101_250"]
          /\ e["251_500"] = m["251_500"] /\ e["gt_500"] = m["gt_500"]
      BY <2>1, <2>6 DEF Buckets
    <3>2. Histogram(e) = Histogram(m) + 1
      BY <2>2, <2>6, <3>1 DEF Histogram
    <3>3. Least(e) = Least(m) + 51 /\ Least(m) \in Int
      BY <2>2, <2>6, <3>1, OneMore DEF Least
    <3> QED BY <2>2, <2>6, <3>1, <3>2, <3>3 DEF e
  <2>7. CASE b = "101_250"
    <3>1. /\ e["1"] = m["1"] /\ e["2_10"] = m["2_10"] /\ e["11_50"] = m["11_50"]
          /\ e["51_100"] = m["51_100"] /\ e["101_250"] = m["101_250"] + 1
          /\ e["251_500"] = m["251_500"] /\ e["gt_500"] = m["gt_500"]
      BY <2>1, <2>7 DEF Buckets
    <3>2. Histogram(e) = Histogram(m) + 1
      BY <2>2, <2>7, <3>1 DEF Histogram
    <3>3. Least(e) = Least(m) + 101 /\ Least(m) \in Int
      BY <2>2, <2>7, <3>1, OneMore DEF Least
    <3> QED BY <2>2, <2>7, <3>1, <3>2, <3>3 DEF e
  <2>8. CASE b = "251_500"
    <3>1. /\ e["1"] = m["1"] /\ e["2_10"] = m["2_10"] /\ e["11_50"] = m["11_50"]
          /\ e["51_100"] = m["51_100"] /\ e["101_250"] = m["101_250"]
          /\ e["251_500"] = m["251_500"] + 1 /\ e["gt_500"] = m["gt_500"]
      BY <2>1, <2>8 DEF Buckets
    <3>2. Histogram(e) = Histogram(m) + 1
      BY <2>2, <2>8, <3>1 DEF Histogram
    <3>3. Least(e) = Least(m) + 251 /\ Least(m) \in Int
      BY <2>2, <2>8, <3>1, OneMore DEF Least
    <3> QED BY <2>2, <2>8, <3>1, <3>2, <3>3 DEF e
  <2>9. CASE b = "gt_500"
    <3>1. /\ e["1"] = m["1"] /\ e["2_10"] = m["2_10"] /\ e["11_50"] = m["11_50"]
          /\ e["51_100"] = m["51_100"] /\ e["101_250"] = m["101_250"]
          /\ e["251_500"] = m["251_500"] /\ e["gt_500"] = m["gt_500"] + 1
      BY <2>1, <2>9 DEF Buckets
    <3>2. Histogram(e) = Histogram(m) + 1
      BY <2>2, <2>9, <3>1 DEF Histogram
    <3>3. Least(e) = Least(m) + 501 /\ Least(m) \in Int
      BY <2>2, <2>9, <3>1, OneMore DEF Least
    <3> QED BY <2>2, <2>9, <3>1, <3>2, <3>3 DEF e
  <2> QED BY <1>1, <2>3, <2>4, <2>5, <2>6, <2>7, <2>8, <2>9 DEF Buckets
<1>2. /\ Bucket(n) \in Buckets
      /\ Bucket(n) = "2_10" => n >= 2
      /\ Bucket(n) = "11_50" => n >= 11
      /\ Bucket(n) = "51_100" => n >= 51
      /\ Bucket(n) = "101_250" => n >= 101
      /\ Bucket(n) = "251_500" => n >= 251
      /\ Bucket(n) = "gt_500" => n >= 501
  BY DEF Bucket, Buckets
<1> QED BY <1>1, <1>2 DEF Buckets

\* Other counters leave the histogram alone.
LEMMA BucketKeep ==
    ASSUME NEW m \in [Counters -> Nat], NEW n \in Nat, NEW c \in Counters \ Buckets
    PROVE  Histogram(Add(m, c, n)) = Histogram(m) /\ Least(Add(m, c, n)) = Least(m)
BY DEF Histogram, Least, Add, Buckets, Counters

\* Counters only grow.
LEMMA AddGrows ==
    ASSUME NEW m \in [Counters -> Nat], NEW c \in Counters, NEW n \in Nat
    PROVE  /\ Add(m, c, n) \in [Counters -> Nat] /\ Add(m, c, n)[c] = m[c] + n
           /\ \A d \in Counters \ {c} : Add(m, c, n)[d] = m[d]
           /\ \A d \in Counters : m[d] <= Add(m, c, n)[d]
BY DEF Add

----------------------------------------------------------------------------
(* The account of batches, step by step.                                   *)

UnderWay == {"counting", "bucketing", "validating", "reserve", "rlock", "locked",
             "refused", "abandoned"}

\* What a step does to the account: it stays, but for a client that leaves.
Balanced ==
    /\ Surplus' = Surplus + (Cardinality(Uncounted') - Cardinality(Uncounted))
    /\ Cardinality(Uncounted) <= Cardinality(Uncounted')

\* The sets of batches that are counted.
LEMMA BatchSets ==
    ASSUME Types
    PROVE  /\ Undecided \in SUBSET Requests /\ Empty \in SUBSET Requests
           /\ Uncounted \in SUBSET Requests /\ Counting \in SUBSET Requests
           /\ Bucketing \in SUBSET Requests
           /\ InSeq(queue) \in SUBSET Requests /\ InSeq(batches) \in SUBSET Requests
<1>1. InSeq(queue) \in SUBSET Requests /\ InSeq(batches) \in SUBSET Requests
  BY InSeqType DEF Types
<1> QED BY <1>1 DEF Undecided, Empty, Uncounted, Counting, Bucketing

\* Nothing is decided, and nothing is counted that matters.
LEMMA BalancedSame ==
    ASSUME Types, Undecided' = Undecided, Empty' = Empty, Uncounted' = Uncounted,
           Account(metrics') = Account(metrics)
    PROVE  Balanced
<1>1. /\ Cardinality(Undecided) \in Nat /\ Cardinality(Empty) \in Nat
      /\ Cardinality(Uncounted) \in Nat
  BY BatchSets, Counts
<1>2. Account(metrics) \in Int
  BY AccountAdd DEF Types
<1>3. Surplus' = Surplus /\ Surplus \in Int
  BY <1>1, <1>2 DEF Surplus
<1> QED BY <1>1, <1>3 DEF Balanced

\* A handler moves on: where its batch is counted then.
LEMMA Moved ==
    ASSUME Types, Placed, NEW r \in Requests, pc[r] # "done",
           \A q \in Requests \ {r} : pc'[q] = pc[q] /\ answer'[q] = answer[q],
           queue' = queue, batches' = batches, run' = run
    PROVE  /\ answer[r] = "none" /\ r \notin Uncounted
           /\ pc[r] \in UnderWay => r \in Undecided /\ r \notin InSeq(queue)
           /\ pc[r] = "idle" => r \notin Undecided /\ r \notin Empty
           /\ (pc[r] \in UnderWay <=> pc'[r] \in UnderWay) => Undecided' = Undecided
           /\ pc[r] \in UnderWay /\ pc'[r] \notin UnderWay =>
                 r \notin Undecided' /\ Undecided = Undecided' \union {r}
           /\ pc[r] \notin UnderWay /\ pc'[r] \in UnderWay =>
                 Undecided' = Undecided \union {r}
           /\ pc[r] # "idle" /\ pc'[r] # "idle" => Empty' = Empty
           /\ r \in Malformed \/ BatchOf[r] # <<>> => Empty' = Empty
           /\ answer'[r] # "dropped" => Uncounted' = Uncounted
           /\ answer'[r] = "dropped" => Uncounted' = Uncounted \union {r}
<1>1. answer[r] = "none" /\ r \notin Uncounted
  BY DEF Types, Placed, Uncounted
<1>2. pc[r] \in UnderWay \union {"idle"} => r \notin InSeq(queue) \union InSeq(batches)
  BY DEF Placed, UnderWay
<1> DEFINE W == InSeq(queue) \union (IF run \in {"select", "save"} THEN InSeq(batches) ELSE {})
<1>3. /\ Undecided = {q \in Requests : pc[q] \in UnderWay} \union W
      /\ Undecided' = {q \in Requests : pc'[q] \in UnderWay} \union W
      /\ pc[r] \in UnderWay \union {"idle"} => r \notin W
  BY <1>2 DEF Undecided, UnderWay
<1> HIDE DEF W
<1>4. /\ pc[r] \in UnderWay => r \in Undecided /\ r \notin InSeq(queue)
      /\ pc[r] = "idle" => r \notin Undecided /\ r \notin Empty
  BY <1>2, <1>3 DEF UnderWay, Empty
<1>5. /\ (pc[r] \in UnderWay <=> pc'[r] \in UnderWay) => Undecided' = Undecided
      /\ pc[r] \in UnderWay /\ pc'[r] \notin UnderWay =>
            r \notin Undecided' /\ Undecided = Undecided' \union {r}
      /\ pc[r] \notin UnderWay /\ pc'[r] \in UnderWay => Undecided' = Undecided \union {r}
  BY <1>3
<1>6. /\ pc[r] # "idle" /\ pc'[r] # "idle" => Empty' = Empty
      /\ r \in Malformed \/ BatchOf[r] # <<>> => Empty' = Empty
  BY DEF Empty
<1>7. /\ answer'[r] # "dropped" => Uncounted' = Uncounted
      /\ answer'[r] = "dropped" => Uncounted' = Uncounted \union {r}
  BY <1>1 DEF Uncounted
<1> QED BY <1>1, <1>4, <1>5, <1>6, <1>7

\* A handler ends or goes on.
LEMMA FinishMoves ==
    ASSUME Types, NEW r \in Requests, NEW a, Finish(r, a)
    PROVE  /\ pc'[r] = "done" /\ answer'[r] = a
           /\ \A q \in Requests \ {r} : pc'[q] = pc[q] /\ answer'[q] = answer[q]
BY DEF Types, Finish

LEMMA GotoMoves ==
    ASSUME Types, NEW r \in Requests, NEW l, Goto(r, l)
    PROVE  /\ pc'[r] = l /\ answer'[r] = answer[r]
           /\ \A q \in Requests \ {r} : pc'[q] = pc[q] /\ answer'[q] = answer[q]
BY DEF Types, Goto

\* The body is decoded: an empty batch is rejected without being received.
LEMMA ReceiveBalanced ==
    ASSUME Types, Placed, NEW r \in Requests, Receive(r)
    PROVE  Balanced
<1>0. /\ pc[r] = "idle" /\ queue' = queue /\ batches' = batches /\ run' = run
      /\ metrics \in [Counters -> Nat] /\ pc[r] \notin UnderWay
      /\ "received" \in Counters /\ "validation" \in Ends /\ "decode" \in Others
  BY DEF Receive, AfterAdd, writer, Types, UnderWay, Counters, Ends, Others
<1>1. CASE r \in Malformed /\ metrics' = Add(metrics, "decode", 1) /\ Finish(r, "400")
  <2>1. Undecided' = Undecided /\ Empty' = Empty /\ Uncounted' = Uncounted
    BY <1>0, <1>1, FinishMoves, Moved DEF UnderWay
  <2>2. Account(metrics') = Account(metrics)
    BY <1>0, <1>1, AccountAdd
  <2> QED BY <2>1, <2>2, BalancedSame
<1>2. CASE /\ r \notin Malformed /\ BatchOf[r] = <<>>
           /\ metrics' = Add(metrics, "validation", 1) /\ Finish(r, "400")
  <2>1. Undecided' = Undecided /\ Uncounted' = Uncounted /\ r \notin Empty
    BY <1>0, <1>2, FinishMoves, Moved DEF UnderWay
  <2>2. Empty' = Empty \union {r}
    BY <1>0, <1>2, FinishMoves DEF Empty
  <2>3. Account(metrics') = Account(metrics) - 1 /\ Account(metrics) \in Int
    BY <1>0, <1>2, AccountAdd
  <2>4. /\ Cardinality(Empty') = Cardinality(Empty) + 1
        /\ Cardinality(Empty) \in Nat /\ Cardinality(Undecided) \in Nat
        /\ Cardinality(Uncounted) \in Nat
    BY <2>1, <2>2, BatchSets, Counts
  <2> QED BY <2>1, <2>3, <2>4 DEF Balanced, Surplus
<1>3. CASE /\ r \notin Malformed /\ BatchOf[r] # <<>>
           /\ metrics' = Add(metrics, "received", 1) /\ Goto(r, "counting")
  <2>1. answer[r] = "none"
    BY <1>0 DEF Placed
  <2>2. /\ Undecided' = Undecided \union {r} /\ r \notin Undecided
        /\ Empty' = Empty /\ Uncounted' = Uncounted
    BY <1>0, <1>3, <2>1, GotoMoves, Moved DEF UnderWay
  <2>3. Account(metrics') = Account(metrics) + 1 /\ Account(metrics) \in Int
    BY <1>0, <1>3, AccountAdd
  <2>4. /\ Cardinality(Undecided') = Cardinality(Undecided) + 1
        /\ Cardinality(Empty) \in Nat /\ Cardinality(Undecided) \in Nat
        /\ Cardinality(Uncounted) \in Nat
    BY <2>2, BatchSets, Counts
  <2> QED BY <2>2, <2>3, <2>4 DEF Balanced, Surplus
<1> QED BY <1>1, <1>2, <1>3 DEF Receive, AfterAdd

\* A batch under way is rejected, and one counter says so.
LEMMA RejectBalanced ==
    ASSUME Types, Placed, NEW r \in Requests, pc[r] \in UnderWay,
           NEW a, a # "dropped", Finish(r, a),
           queue' = queue, batches' = batches, run' = run,
           Account(metrics') = Account(metrics) - 1
    PROVE  Balanced
<1>1. pc[r] # "done" /\ pc[r] # "idle" /\ pc'[r] \notin UnderWay /\ pc'[r] # "idle"
      /\ answer'[r] # "dropped"
  BY FinishMoves DEF UnderWay
<1>2. /\ r \notin Undecided' /\ Undecided = Undecided' \union {r}
      /\ Empty' = Empty /\ Uncounted' = Uncounted
  BY <1>1, FinishMoves, Moved
<1>3. Account(metrics) \in Int
  BY AccountAdd DEF Types
<1>4. Undecided' \in SUBSET Requests
  BY <1>2, BatchSets
<1>5. /\ Cardinality(Undecided) = Cardinality(Undecided') + 1
      /\ Cardinality(Empty) \in Nat /\ Cardinality(Undecided') \in Nat
      /\ Cardinality(Uncounted) \in Nat
  BY <1>2, <1>4, BatchSets, Counts
<1> QED BY <1>2, <1>3, <1>5 DEF Balanced, Surplus

\* eventsReceived, and the buckets of the histogram, end no batch.
LEMMA CountsEndNothing ==
    ASSUME Types, NEW n \in Nat
    PROVE  /\ Account(Add(metrics, "eventsReceived", n)) = Account(metrics)
           /\ Account(Add(metrics, Bucket(n), 1)) = Account(metrics)
<1>1. metrics \in [Counters -> Nat] /\ "eventsReceived" \in Others /\ 1 \in Nat
  BY DEF Types, Others, Ends, Counters
<1>2. Bucket(n) \in Others
  BY DEF Bucket, Others, Ends, Counters, Buckets
<1> QED BY <1>1, <1>2, AccountAdd

\* A handler that rejects its batch counts it; one that abandons it does not,
\* and Uncounted gains it instead.
LEMMA HandlerBalanced ==
    ASSUME Types, Placed, NEW r \in Requests, Handler(r)
    PROVE  Balanced
<1>0. /\ metrics \in [Counters -> Nat] /\ "overload" \in Ends /\ "validation" \in Ends
      /\ run' = run /\ batches' = batches
      /\ pc[r] \in UnderWay \union {"waiting"} => answer[r] = "none"
  BY DEF Types, Placed, Ends, UnderWay, Handler, Receive, Count, AfterAdd, CountEvents,
         CountBucket, Validate, Reserve, RLock, Refuse,
         Send, CancelSend, Abandon, Await, Leave, writer
<1>1. CASE Receive(r)
  BY <1>1, ReceiveBalanced
<1>2. CASE Count(r)
  <2>1. /\ pc[r] \in {"counting", "bucketing", "validating"} /\ queue' = queue
        /\ \/ metrics' = Add(metrics, "validation", 1) /\ Finish(r, "422")
           \/ /\ \/ metrics' = metrics
                 \/ metrics' = Add(metrics, "eventsReceived", Size(r))
                 \/ metrics' = Add(metrics, Bucket(Size(r)), 1)
              /\ \E l \in {"bucketing", "validating", "reserve"} : Goto(r, l)
    BY <1>2 DEF Count, AfterAdd, CountEvents, CountBucket, Validate
  <2>2. CASE metrics' = Add(metrics, "validation", 1) /\ Finish(r, "422")
    <3>1. Account(metrics') = Account(metrics) - 1
      BY <1>0, <2>2, AccountAdd
    <3> QED BY <1>0, <2>1, <2>2, <3>1, RejectBalanced DEF UnderWay
  <2>3. ASSUME NEW l \in {"bucketing", "validating", "reserve"}, Goto(r, l),
               \/ metrics' = metrics
               \/ metrics' = Add(metrics, "eventsReceived", Size(r))
               \/ metrics' = Add(metrics, Bucket(Size(r)), 1)
        PROVE  Balanced
    <3>1. Undecided' = Undecided /\ Empty' = Empty /\ Uncounted' = Uncounted
      BY <1>0, <2>1, <2>3, GotoMoves, Moved DEF UnderWay
    <3>2. Account(metrics') = Account(metrics)
      BY <2>3, SizeIsNat, CountsEndNothing
    <3> QED BY <3>1, <3>2, BalancedSame
  <2> QED BY <2>1, <2>2, <2>3
<1>3. CASE Reserve(r)
  <2>1. /\ pc[r] = "reserve" /\ queue' = queue
        /\ \/ metrics' = Add(metrics, "overload", 1) /\ Finish(r, "overload")
           \/ metrics' = metrics /\ Goto(r, "rlock")
    BY <1>3 DEF Reserve
  <2>2. CASE metrics' = Add(metrics, "overload", 1) /\ Finish(r, "overload")
    <3>1. Account(metrics') = Account(metrics) - 1
      BY <1>0, <2>2, AccountAdd
    <3> QED BY <1>0, <2>1, <2>2, <3>1, RejectBalanced DEF UnderWay
  <2>3. CASE metrics' = metrics /\ Goto(r, "rlock")
    <3>1. Undecided' = Undecided /\ Empty' = Empty /\ Uncounted' = Uncounted
      BY <1>0, <2>1, <2>3, GotoMoves, Moved DEF UnderWay
    <3> QED BY <2>3, <3>1, BalancedSame
  <2> QED BY <2>1, <2>2, <2>3
<1>4. CASE RLock(r)
  <2>1. /\ pc[r] = "rlock" /\ queue' = queue /\ metrics' = metrics
        /\ Goto(r, "locked") \/ Goto(r, "refused")
    BY <1>4 DEF RLock
  <2>2. Undecided' = Undecided /\ Empty' = Empty /\ Uncounted' = Uncounted
    BY <1>0, <2>1, GotoMoves, Moved DEF UnderWay
  <2> QED BY <2>1, <2>2, BalancedSame
<1>5. CASE Refuse(r)
  <2>1. /\ pc[r] = "refused" /\ queue' = queue
        /\ metrics' = Add(metrics, "overload", 1) /\ Finish(r, "closing")
    BY <1>5 DEF Refuse
  <2>2. Account(metrics') = Account(metrics) - 1
    BY <1>0, <2>1, AccountAdd
  <2> QED BY <1>0, <2>1, <2>2, RejectBalanced DEF UnderWay
<1>6. CASE Send(r)
  <2>1. /\ pc[r] = "locked" /\ queue' = Append(queue, r) /\ metrics' = metrics
        /\ Goto(r, "waiting")
    BY <1>6 DEF Send
  <2>2. InSeq(queue') = InSeq(queue) \union {r}
    BY <2>1, InSeqAppend DEF Types
  <2>3. pc'[r] = "waiting" /\ answer' = answer
        /\ \A q \in Requests \ {r} : pc'[q] = pc[q]
    BY <2>1, GotoMoves DEF Goto
  <2>4. Undecided' = Undecided
    BY <1>0, <2>1, <2>2, <2>3 DEF Undecided
  <2>5. Empty' = Empty /\ Uncounted' = Uncounted
    BY <2>1, <2>3 DEF Empty, Uncounted
  <2> QED BY <2>1, <2>4, <2>5, BalancedSame
<1>7. CASE CancelSend(r)
  <2>1. pc[r] = "locked" /\ queue' = queue /\ metrics' = metrics /\ Goto(r, "abandoned")
    BY <1>7 DEF CancelSend
  <2>2. Undecided' = Undecided /\ Empty' = Empty /\ Uncounted' = Uncounted
    BY <1>0, <2>1, GotoMoves, Moved DEF UnderWay
  <2> QED BY <2>1, <2>2, BalancedSame
<1>8. CASE Abandon(r)
  <2>1. pc[r] = "abandoned" /\ queue' = queue /\ metrics' = metrics /\ Finish(r, "dropped")
    BY <1>8 DEF Abandon
  <2>2. /\ r \notin Undecided' /\ Undecided = Undecided' \union {r}
        /\ Empty' = Empty /\ Uncounted' = Uncounted \union {r} /\ r \notin Uncounted
    BY <1>0, <2>1, FinishMoves, Moved DEF UnderWay
  <2>3. Account(metrics) \in Int /\ Undecided' \in SUBSET Requests
    BY <1>0, <2>2, AccountAdd, BatchSets
  <2>4. /\ Cardinality(Undecided) = Cardinality(Undecided') + 1
        /\ Cardinality(Uncounted') = Cardinality(Uncounted) + 1
        /\ Cardinality(Empty) \in Nat /\ Cardinality(Undecided') \in Nat
        /\ Cardinality(Uncounted) \in Nat
    BY <2>2, <2>3, BatchSets, Counts
  <2> QED BY <2>1, <2>2, <2>3, <2>4 DEF Balanced, Surplus
<1>9. CASE Await(r) \/ Leave(r)
  <2>1. /\ pc[r] = "waiting" /\ queue' = queue /\ metrics' = metrics
        /\ \E a \in {"202", "storage", "gone"} : Finish(r, a)
    BY <1>9 DEF Await, Leave, Verdict
  <2>2. Undecided' = Undecided /\ Empty' = Empty /\ Uncounted' = Uncounted
    BY <1>0, <2>1, FinishMoves, Moved DEF UnderWay
  <2> QED BY <2>1, <2>2, BalancedSame
<1> QED BY <1>1, <1>2, <1>3, <1>4, <1>5, <1>6, <1>7, <1>8, <1>9 DEF Handler, Count

\* A transaction decides all batches of its flush, and counts each of them.
LEMMA WriterBalanced ==
    ASSUME Types, Placed, Ordered, Writer
    PROVE  Balanced
<1>0. /\ metrics \in [Counters -> Nat] /\ pc' = pc /\ answer' = answer
      /\ Empty' = Empty /\ Uncounted' = Uncounted
      /\ "persisted" \in Ends /\ "storage" \in Ends /\ "eventsPersisted" \in Others
  BY DEF Types, Writer, Dequeue, Tick, Drain, SaveOk, CountSaved, SaveFail, Reply, Release,
         handlers, Empty, Uncounted, Ends, Others, Counters
<1>1. CASE Dequeue
  <2>1. /\ run = "select" /\ run' \in {"save", "select"} /\ queue # <<>>
        /\ queue' = Tail(queue) /\ batches' = Append(batches, Head(queue))
        /\ metrics' = metrics
    BY <1>1 DEF Dequeue
  <2>2. /\ InSeq(queue) = {Head(queue)} \union InSeq(queue')
        /\ InSeq(batches') = InSeq(batches) \union {Head(queue)}
    BY <2>1, InSeqHeadTail, InSeqAppend DEF Types
  <2>3. Undecided' = Undecided
    BY <1>0, <2>1, <2>2 DEF Undecided
  <2> QED BY <1>0, <2>1, <2>3, BalancedSame
<1>2. CASE Tick
  <2>1. Undecided' = Undecided /\ metrics' = metrics
    BY <1>0, <1>2 DEF Tick, Undecided
  <2> QED BY <1>0, <2>1, BalancedSame
<1>3. CASE Drain
  <2>1. /\ run = "select" /\ queue' = queue /\ batches' = batches /\ metrics' = metrics
        /\ run' = "save" \/ (run' = "exited" /\ batches = <<>>)
    BY <1>3 DEF Drain, AfterDrain
  <2>2. Undecided' = Undecided
    BY <1>0, <2>1, InSeqEmpty DEF Undecided
  <2> QED BY <1>0, <2>1, <2>2, BalancedSame
<1>4. CASE SaveOk \/ SaveFail
  <2>1. /\ run = "save" /\ run' \in {"count", "reply"} /\ queue' = queue
        /\ batches' = batches
        /\ \E c \in {"persisted", "storage"} : metrics' = Add(metrics, c, Len(batches))
    BY <1>4 DEF SaveOk, SaveFail, Failed
  <2>2. Len(batches) \in Nat /\ Cardinality(InSeq(batches)) = Len(batches)
    BY DistinctCount DEF Types, Placed
  <2>3. Undecided = Undecided' \union InSeq(batches) /\ Undecided' \intersect InSeq(batches) = {}
    BY <1>0, <2>1 DEF Undecided, Placed
  <2>4. Account(metrics') = Account(metrics) - Len(batches) /\ Account(metrics) \in Int
    BY <1>0, <2>1, <2>2, AccountAdd
  <2>5. Undecided' \in SUBSET Requests /\ InSeq(batches) \in SUBSET Requests
    BY <2>3, BatchSets
  <2>6. /\ Cardinality(Undecided) = Cardinality(Undecided') + Len(batches)
        /\ Cardinality(Empty) \in Nat /\ Cardinality(Undecided') \in Nat
        /\ Cardinality(Uncounted) \in Nat
    BY <2>2, <2>3, <2>5, BatchSets, Counts, CountsApart
  <2> QED BY <1>0, <2>2, <2>4, <2>6 DEF Balanced, Surplus
<1>5. CASE CountSaved
  <2>1. /\ run = "count" /\ run' = "reply" /\ queue' = queue
        /\ metrics' = Add(metrics, "eventsPersisted", EventsOf(InSeq(batches)))
    BY <1>5 DEF CountSaved
  <2>2. EventsOf(InSeq(batches)) \in Nat
    BY BatchSets, ItemsFinite
  <2>3. Account(metrics') = Account(metrics)
    BY <1>0, <2>1, <2>2, AccountAdd
  <2>4. Undecided' = Undecided
    BY <1>0, <2>1 DEF Undecided
  <2> QED BY <1>0, <2>3, <2>4, BalancedSame
<1>6. CASE Reply
  <2>1. Undecided' = Undecided /\ metrics' = metrics
    BY <1>0, <1>6 DEF Reply, Undecided
  <2> QED BY <1>0, <2>1, BalancedSame
<1>7. CASE Release
  <2>1. /\ run = "release" /\ queue' = queue /\ batches' = Tail(batches)
        /\ metrics' = metrics
        /\ run' = "reply" \/ run' = "exited" \/ (run' = "select" /\ batches' = <<>>)
    BY <1>7 DEF Release
  <2>2. Undecided' = Undecided
    BY <1>0, <2>1, InSeqEmpty DEF Undecided
  <2> QED BY <1>0, <2>1, <2>2, BalancedSame
<1> QED BY <1>1, <1>2, <1>3, <1>4, <1>5, <1>6, <1>7 DEF Writer


\* Every step but a kill is balanced.
LEMMA StepBalanced ==
    ASSUME Types, Placed, Ordered, [Next]_vars, ~ Crash
    PROVE  Balanced /\ crashes' = crashes
<1>1. ASSUME NEW r \in Requests, Handler(r) PROVE Balanced /\ crashes' = crashes
  <2>1. crashes' = crashes
    BY <1>1 DEF Handler, Receive, Count, AfterAdd, CountEvents, CountBucket, Validate,
                Reserve, RLock, Refuse, Send, CancelSend, Abandon,
                Await, Leave
  <2> QED BY <1>1, <2>1, HandlerBalanced
<1>2. CASE Writer
  <2>1. crashes' = crashes
    BY <1>2 DEF Writer, Dequeue, Tick, Drain, SaveOk, CountSaved, SaveFail, Reply, Release
  <2> QED BY <1>2, <2>1, WriterBalanced
<1>3. CASE Close \/ Terminated \/ UNCHANGED vars
  <2>1. /\ pc' = pc /\ answer' = answer /\ queue' = queue /\ batches' = batches
        /\ run' = run /\ metrics' = metrics /\ crashes' = crashes
    BY <1>3 DEF Close, CloseLock, CloseQueue, CloseDone, Terminated, vars, handlers, writer
  <2>2. Undecided' = Undecided /\ Empty' = Empty /\ Uncounted' = Uncounted
    BY <2>1 DEF Undecided, Empty, Uncounted
  <2> QED BY <2>1, <2>2, BalancedSame
<1> QED BY <1>1, <1>2, <1>3 DEF Next

\* A kill resets the counters, and nothing is under way.
LEMMA CrashResets ==
    ASSUME Types, Crash
    PROVE  /\ Undecided' = {} /\ Counting' = {} /\ Bucketing' = {}
           /\ crashes' = crashes + 1
           /\ metrics' = [c \in Counters |-> 0]
<1>1. /\ queue' = <<>> /\ batches' = <<>> /\ crashes' = crashes + 1
      /\ metrics' = [c \in Counters |-> 0]
      /\ \A r \in Requests : pc'[r] \in {"idle", "done"}
  BY DEF Crash, Types
<1> QED BY <1>1, InSeqEmpty DEF Undecided, Counting, Bucketing

\* The account holds at the start, and every step keeps it.
LEMMA InitBatchesCounted == Init => BatchesCounted
<1> SUFFICES ASSUME Init PROVE BatchesCounted
  OBVIOUS
<1>1. Undecided = {} /\ Empty = {} /\ Uncounted = {}
  BY InSeqEmpty DEF Init, Undecided, Empty, Uncounted
<1>2. Account(metrics) = 0
  BY DEF Init, Account, Counters
<1> QED BY <1>1, <1>2, FS_EmptySet DEF BatchesCounted, Surplus

LEMMA NextBatchesCounted ==
    Types /\ Placed /\ Ordered /\ BatchesCounted /\ [Next]_vars => BatchesCounted'
<1> SUFFICES ASSUME Types, Placed, Ordered, BatchesCounted, [Next]_vars
             PROVE  BatchesCounted'
  OBVIOUS
<1>1. Types'
  BY NextTypes
<1>2. /\ Account(metrics) \in Int /\ Account(metrics)' \in Int
      /\ Cardinality(Undecided) \in Nat /\ Cardinality(Undecided') \in Nat
      /\ Cardinality(Empty) \in Nat /\ Cardinality(Empty') \in Nat
      /\ Cardinality(Uncounted) \in Nat /\ Cardinality(Uncounted') \in Nat
  <2>1. /\ Undecided \in SUBSET Requests /\ Empty \in SUBSET Requests
        /\ Uncounted \in SUBSET Requests
    BY BatchSets
  <2>2. /\ Undecided' \in SUBSET Requests /\ Empty' \in SUBSET Requests
        /\ Uncounted' \in SUBSET Requests
    BY <1>1, InSeqType DEF Types, Undecided, Empty, Uncounted
  <2>3. metrics \in [Counters -> Nat] /\ metrics' \in [Counters -> Nat]
    BY <1>1 DEF Types
  <2>4. Account(metrics) \in Int /\ Account(metrics)' \in Int
    BY <2>3, AccountAdd
  <2> QED BY <2>1, <2>2, <2>4, Counts
<1>3. CASE Crash
  <2>1. /\ Undecided' = {} /\ crashes' = crashes + 1 /\ crashes \in Nat
        /\ metrics' = [c \in Counters |-> 0]
    BY <1>3, CrashResets, CrashAssumption DEF Types
  <2>2. Account(metrics)' = 0
    BY <2>1 DEF Account, Counters
  <2>3. Surplus' = Cardinality(Empty')
    BY <1>2, <2>1, <2>2, FS_EmptySet DEF Surplus
  <2> QED BY <1>2, <2>1, <2>3 DEF BatchesCounted
<1>4. CASE ~ Crash
  <2>1. Balanced /\ crashes' = crashes
    BY <1>4, StepBalanced
  <2>2. Surplus \in Int
    BY <1>2 DEF Surplus
  <2> QED BY <1>2, <2>1, <2>2 DEF Balanced, BatchesCounted
<1> QED BY <1>3, <1>4

\* Without kills each batch that ingest receives is counted once as persisted
\* or rejected, but for those under way and those whose client left first.
THEOREM BatchesAreCounted == Spec => []EveryBatchIsCounted
<1>1. IInv => Types /\ Placed /\ Ordered
  BY DEF IInv
<1>2. Types /\ BatchesCounted => EveryBatchIsCounted
  <2> SUFFICES ASSUME Types, BatchesCounted, crashes = 0
               PROVE  metrics["received"] + Cardinality(Empty)
                        = metrics["persisted"] + metrics["validation"]
                          + metrics["overload"] + metrics["storage"]
                          + Cardinality(Undecided) + Cardinality(Uncounted)
    BY DEF EveryBatchIsCounted
  <2>1. /\ metrics["received"] \in Nat /\ metrics["persisted"] \in Nat
        /\ metrics["validation"] \in Nat /\ metrics["overload"] \in Nat
        /\ metrics["storage"] \in Nat
    BY DEF Types, Counters
  <2>2. /\ Cardinality(Undecided) \in Nat /\ Cardinality(Empty) \in Nat
        /\ Cardinality(Uncounted) \in Nat
    BY BatchSets, Counts
  <2>3. Surplus = Cardinality(Uncounted)
    BY DEF BatchesCounted
  <2> QED BY <2>1, <2>2, <2>3 DEF Surplus, Account
<1> QED BY <1>1, <1>2, InitBatchesCounted, NextBatchesCounted, CollectorInvariant, PTL DEF Spec

----------------------------------------------------------------------------
(* The histogram, step by step.                                            *)

Ordinary == Counters \ (Buckets \union {"received", "eventsReceived"})

Grows == \A c \in Counters : metrics[c] <= metrics'[c]

\* A step that counts nothing as received.
LEMMA QuietStep ==
    ASSUME Types, HistogramCounted, Counting' = Counting, Bucketing' = Bucketing,
           \/ metrics' = metrics
           \/ \E c \in Ordinary : \E n \in Nat : metrics' = Add(metrics, c, n)
    PROVE  HistogramCounted' /\ Grows
<1>0. metrics \in [Counters -> Nat] /\ "received" \in Counters /\ "eventsReceived" \in Counters
  BY DEF Types, Counters
<1>1. CASE metrics' = metrics
  BY <1>0, <1>1 DEF HistogramCounted, Grows
<1>2. CASE \E c \in Ordinary : \E n \in Nat : metrics' = Add(metrics, c, n)
  <2>1. PICK c \in Ordinary, n \in Nat : metrics' = Add(metrics, c, n)
    BY <1>2
  <2>2. c \in Counters \ Buckets /\ c \in Counters /\ c # "received" /\ c # "eventsReceived"
        /\ n \in Nat
    BY DEF Ordinary
  <2>3. Histogram(metrics') = Histogram(metrics) /\ Least(metrics') = Least(metrics)
    BY <1>0, <2>1, <2>2, BucketKeep
  <2>4. \A d \in Counters \ {c} : Add(metrics, c, n)[d] = metrics[d]
    BY <1>0, <2>2, AddGrows
  <2>6. \A d \in Counters : metrics[d] <= Add(metrics, c, n)[d]
    BY <1>0, <2>2, AddGrows
  <2>5. metrics'["received"] = metrics["received"]
        /\ metrics'["eventsReceived"] = metrics["eventsReceived"]
    BY <1>0, <2>1, <2>2, <2>4
  <2> QED BY <2>1, <2>3, <2>4, <2>5, <2>6 DEF HistogramCounted, Grows
<1> QED BY <1>1, <1>2

\* What a handler that moves on does to the batches being counted.
LEMMA CountingMoved ==
    ASSUME Types, NEW r \in Requests, \A q \in Requests \ {r} : pc'[q] = pc[q]
    PROVE  /\ (r \in Counting <=> pc'[r] \in {"counting", "bucketing"}) =>
                 Counting' = Counting
           /\ r \notin Counting /\ pc'[r] = "counting" =>
                 Counting' = Counting \union {r}
           /\ r \in Counting /\ pc'[r] = "validating" =>
                 r \notin Counting' /\ Counting = Counting' \union {r}
           /\ (r \in Bucketing <=> pc'[r] = "bucketing") => Bucketing' = Bucketing
           /\ r \notin Bucketing /\ pc'[r] = "bucketing" =>
                 Bucketing' = Bucketing \union {r}
           /\ r \in Bucketing /\ pc'[r] = "validating" =>
                 r \notin Bucketing' /\ Bucketing = Bucketing' \union {r}
           /\ r \in Counting <=> pc[r] \in {"counting", "bucketing"}
           /\ r \in Bucketing <=> pc[r] = "bucketing"
BY DEF Counting, Bucketing

\* A batch that is received is counting, and not yet in the histogram.
LEMMA ReceiveHistogram ==
    ASSUME Types, HistogramCounted, NEW r \in Requests, Receive(r)
    PROVE  HistogramCounted' /\ Grows
<1>0. /\ pc[r] = "idle" /\ metrics \in [Counters -> Nat] /\ 1 \in Nat
      /\ "decode" \in Ordinary /\ "validation" \in Ordinary
      /\ "received" \in Counters \ Buckets /\ "received" \in Counters
      /\ "eventsReceived" \in Counters \ {"received"}
  BY DEF Receive, AfterAdd, Types, Ordinary, Counters, Buckets
<1>1. CASE /\ metrics' = Add(metrics, "decode", 1) \/ metrics' = Add(metrics, "validation", 1)
           /\ Finish(r, "400")
  <2>1. Counting' = Counting /\ Bucketing' = Bucketing
    BY <1>0, <1>1, FinishMoves, CountingMoved
  <2> QED BY <1>0, <1>1, <2>1, QuietStep
<1>2. CASE metrics' = Add(metrics, "received", 1) /\ Goto(r, "counting")
  <2>1. /\ r \notin Counting /\ Counting' = Counting \union {r}
        /\ Bucketing' = Bucketing
    BY <1>0, <1>2, GotoMoves, CountingMoved
  <2>2. Cardinality(Counting') = Cardinality(Counting) + 1 /\ Cardinality(Counting) \in Nat
    BY <2>1, BatchSets, Counts
  <2>3. Histogram(metrics') = Histogram(metrics) /\ Least(metrics') = Least(metrics)
    BY <1>0, <1>2, BucketKeep
  <2>4. /\ metrics'["received"] = metrics["received"] + 1
        /\ \A d \in Counters \ {"received"} : metrics'[d] = metrics[d]
        /\ Grows
    BY <1>0, <1>2, AddGrows DEF Grows
  <2>5. Histogram(metrics) \in Int
    BY <1>0 DEF Histogram, Counters, Buckets
  <2> QED BY <1>0, <2>1, <2>2, <2>3, <2>4, <2>5 DEF HistogramCounted
<1> QED BY <1>1, <1>2 DEF Receive, AfterAdd

\* The events are in before the bucket is ...
LEMMA EventsHistogram ==
    ASSUME Types, HistogramCounted, NEW r \in Requests, CountEvents(r)
    PROVE  HistogramCounted' /\ Grows
<1>0. /\ pc[r] = "counting" /\ metrics \in [Counters -> Nat] /\ Size(r) \in Nat
      /\ "eventsReceived" \in Counters /\ "eventsReceived" \in Counters \ Buckets
      /\ "received" \in Counters \ {"eventsReceived"}
      /\ metrics' = Add(metrics, "eventsReceived", Size(r)) /\ Goto(r, "bucketing")
  BY SizeIsNat DEF CountEvents, AfterAdd, Types, Counters, Buckets
<1>1. /\ Counting' = Counting
      /\ r \notin Bucketing /\ Bucketing' = Bucketing \union {r}
  BY <1>0, GotoMoves, CountingMoved
<1>2. EventsOf(Bucketing') = EventsOf(Bucketing) + Size(r) /\ EventsOf(Bucketing) \in Nat
  BY <1>1, BatchSets, EventsOfMore, ItemsFinite
<1>3. Histogram(metrics') = Histogram(metrics) /\ Least(metrics') = Least(metrics)
  BY <1>0, BucketKeep
<1>4. /\ metrics'["eventsReceived"] = metrics["eventsReceived"] + Size(r)
      /\ metrics'["received"] = metrics["received"] /\ Grows
  <2> DEFINE n == Size(r)
  <2>1. n \in Nat /\ metrics' = Add(metrics, "eventsReceived", n)
    BY <1>0
  <2> HIDE DEF n
  <2>2. /\ metrics'["eventsReceived"] = metrics["eventsReceived"] + n
        /\ metrics'["received"] = metrics["received"] /\ Grows
    BY <1>0, <2>1, AddGrows DEF Grows
  <2> QED BY <2>2 DEF n
<1>5. Least(metrics) \in Int /\ metrics["eventsReceived"] \in Nat
  BY <1>0 DEF Least, Counters, Buckets
<1> QED BY <1>0, <1>1, <1>2, <1>3, <1>4, <1>5 DEF HistogramCounted

\* ... and the bucket of a batch never holds more events than are in.
LEMMA BucketHistogram ==
    ASSUME Types, Placed, HistogramCounted, NEW r \in Requests, CountBucket(r)
    PROVE  HistogramCounted' /\ Grows
<1> DEFINE b == Bucket(Size(r))
<1>0. /\ pc[r] = "bucketing" /\ metrics \in [Counters -> Nat]
      /\ Size(r) \in Nat /\ Size(r) >= 1 /\ 1 \in Nat
      /\ metrics' = Add(metrics, b, 1) /\ Goto(r, "validating")
  BY SizeIsNat DEF CountBucket, AfterAdd, Types, Placed, InProgress
<1>1. /\ b \in Buckets /\ Histogram(metrics') = Histogram(metrics) + 1
      /\ Least(metrics') <= Least(metrics) + Size(r)
  BY <1>0, BucketAdd
<1>2. /\ b \in Counters
      /\ "received" \in Counters \ {b} /\ "eventsReceived" \in Counters \ {b}
  BY <1>1 DEF Buckets, Counters
<1> HIDE DEF b
<1>3. /\ metrics'["eventsReceived"] = metrics["eventsReceived"]
      /\ metrics'["received"] = metrics["received"] /\ Grows
      /\ metrics' \in [Counters -> Nat]
  <2>1. /\ Add(metrics, b, 1) \in [Counters -> Nat]
        /\ \A d \in Counters \ {b} : Add(metrics, b, 1)[d] = metrics[d]
        /\ \A d \in Counters : metrics[d] <= Add(metrics, b, 1)[d]
    BY <1>0, <1>2, AddGrows
  <2>2. metrics' = Add(metrics, b, 1)
    BY <1>0
  <2>3. /\ metrics' \in [Counters -> Nat]
        /\ \A d \in Counters \ {b} : metrics'[d] = metrics[d]
        /\ \A d \in Counters : metrics[d] <= metrics'[d]
    BY <2>1, <2>2
  <2> QED BY <1>2, <2>3 DEF Grows
<1>4. /\ r \notin Counting' /\ Counting = Counting' \union {r}
      /\ r \notin Bucketing' /\ Bucketing = Bucketing' \union {r}
  BY <1>0, GotoMoves, CountingMoved
<1>5. Counting' \in SUBSET Requests /\ Bucketing' \in SUBSET Requests
  BY <1>4, BatchSets
<1>6. Cardinality(Counting) = Cardinality(Counting') + 1 /\ Cardinality(Counting') \in Nat
  BY <1>4, <1>5, Counts
<1>7. EventsOf(Bucketing) = EventsOf(Bucketing') + Size(r) /\ EventsOf(Bucketing') \in Nat
  BY <1>4, <1>5, EventsOfMore, ItemsFinite
<1>8. /\ Histogram(metrics) \in Int /\ Least(metrics) \in Int /\ Least(metrics') \in Int
      /\ metrics["eventsReceived"] \in Nat /\ metrics["received"] \in Nat
  BY <1>0, <1>3 DEF Histogram, Least, Counters, Buckets
<1> QED BY <1>0, <1>1, <1>3, <1>6, <1>7, <1>8 DEF HistogramCounted

\* Validation is after both.
LEMMA ValidateHistogram ==
    ASSUME Types, HistogramCounted, NEW r \in Requests, Validate(r)
    PROVE  HistogramCounted' /\ Grows
<1>1. /\ pc[r] = "validating" /\ "validation" \in Ordinary /\ 1 \in Nat
      /\ metrics' = metrics \/ metrics' = Add(metrics, "validation", 1)
      /\ Finish(r, "422") \/ Goto(r, "reserve")
  BY DEF Validate, Ordinary, Counters, Buckets
<1>2. Counting' = Counting /\ Bucketing' = Bucketing
  BY <1>1, FinishMoves, GotoMoves, CountingMoved
<1> QED BY <1>1, <1>2, QuietStep

LEMMA CountHistogram ==
    ASSUME Types, Placed, HistogramCounted, NEW r \in Requests, Count(r)
    PROVE  HistogramCounted' /\ Grows
BY EventsHistogram, BucketHistogram, ValidateHistogram DEF Count

\* No step but a kill takes the histogram from its totals, or a counter back.
LEMMA StepHistogram ==
    ASSUME Types, Placed, HistogramCounted, [Next]_vars, ~ Crash
    PROVE  HistogramCounted' /\ Grows
<1>0. /\ "overload" \in Ordinary /\ "persisted" \in Ordinary
      /\ "eventsPersisted" \in Ordinary /\ "storage" \in Ordinary /\ 1 \in Nat
  BY DEF Ordinary, Counters, Buckets
<1>1. ASSUME NEW r \in Requests, Handler(r), ~ Receive(r), ~ Count(r)
      PROVE  HistogramCounted' /\ Grows
  <2>1. /\ pc[r] \notin {"counting", "bucketing"}
        /\ metrics' = metrics \/ metrics' = Add(metrics, "overload", 1)
        /\ \/ \E a : Finish(r, a)
           \/ \E l \in {"rlock", "locked", "refused", "waiting", "abandoned"} : Goto(r, l)
    BY <1>1 DEF Handler, Count, Reserve, RLock, Refuse, Send, CancelSend, Abandon, Await, Leave
  <2>2. Counting' = Counting /\ Bucketing' = Bucketing
    BY <2>1, FinishMoves, GotoMoves, CountingMoved
  <2> QED BY <1>0, <2>1, <2>2, QuietStep
<1>2. CASE Writer
  <2>1. Counting' = Counting /\ Bucketing' = Bucketing
    BY <1>2 DEF Writer, Dequeue, Tick, Drain, SaveOk, CountSaved, SaveFail, Reply, Release,
                handlers, Counting, Bucketing
  <2>2. Len(batches) \in Nat /\ EventsOf(InSeq(batches)) \in Nat
    BY BatchSets, ItemsFinite DEF Types
  <2>3. \/ metrics' = metrics
        \/ metrics' = Add(metrics, "persisted", Len(batches))
        \/ metrics' = Add(metrics, "storage", Len(batches))
        \/ metrics' = Add(metrics, "eventsPersisted", EventsOf(InSeq(batches)))
    BY <1>2 DEF Writer, Dequeue, Tick, Drain, SaveOk, CountSaved, SaveFail, Reply, Release,
                Failed
  <2>4. \/ metrics' = metrics
        \/ \E c \in Ordinary : \E n \in Nat : metrics' = Add(metrics, c, n)
    BY <1>0, <2>2, <2>3
  <2> QED BY <2>1, <2>4, QuietStep
<1>3. CASE Close \/ Terminated \/ UNCHANGED vars
  <2>1. Counting' = Counting /\ Bucketing' = Bucketing /\ metrics' = metrics
    BY <1>3 DEF Close, CloseLock, CloseQueue, CloseDone, Terminated, vars, handlers,
                Counting, Bucketing
  <2> QED BY <2>1, QuietStep
<1> QED BY <1>1, <1>2, <1>3, ReceiveHistogram, CountHistogram DEF Next

\* The histogram holds at the start, and every step keeps it.
LEMMA InitHistogramCounted == Init => HistogramCounted
<1> SUFFICES ASSUME Init PROVE HistogramCounted
  OBVIOUS
<1>1. Counting = {} /\ Bucketing = {}
  BY DEF Init, Counting, Bucketing
<1>2. Histogram(metrics) = 0 /\ Least(metrics) = 0
  BY DEF Init, Histogram, Least, Counters, Buckets
<1>3. metrics["received"] = 0 /\ metrics["eventsReceived"] = 0
  BY DEF Init, Counters
<1>4. EventsOf({}) = 0
  BY EventsOfNone
<1> QED BY <1>1, <1>2, <1>3, <1>4, FS_EmptySet DEF HistogramCounted

LEMMA NextHistogramCounted ==
    Types /\ Placed /\ HistogramCounted /\ [Next]_vars => HistogramCounted'
<1> SUFFICES ASSUME Types, Placed, HistogramCounted, [Next]_vars PROVE HistogramCounted'
  OBVIOUS
<1>1. CASE Crash
  <2>1. Counting' = {} /\ Bucketing' = {} /\ metrics' = [c \in Counters |-> 0]
    BY <1>1, CrashResets
  <2>2. Histogram(metrics)' = 0 /\ Least(metrics)' = 0
    BY <2>1 DEF Histogram, Least, Counters, Buckets
  <2>3. metrics'["received"] = 0 /\ metrics'["eventsReceived"] = 0
    BY <2>1 DEF Counters
  <2>4. EventsOf({}) = 0
    BY EventsOfNone
  <2> QED BY <2>1, <2>2, <2>3, <2>4, FS_EmptySet DEF HistogramCounted
<1> QED BY <1>1, StepHistogram

----------------------------------------------------------------------------
(* The scrape.                                                             *)

\* The counters in the order of their loads.
LEMMA Loads ==
    /\ Len(LoadOrder) = 16 /\ DOMAIN LoadOrder = 1..16
    /\ LoadOrder[1] = "gauge" /\ LoadOrder[2] = "decode" /\ LoadOrder[3] = "validation"
    /\ LoadOrder[4] = "overload" /\ LoadOrder[5] = "storage" /\ LoadOrder[6] = "1"
    /\ LoadOrder[7] = "2_10" /\ LoadOrder[8] = "11_50" /\ LoadOrder[9] = "51_100"
    /\ LoadOrder[10] = "101_250" /\ LoadOrder[11] = "251_500" /\ LoadOrder[12] = "gt_500"
    /\ LoadOrder[13] = "received" /\ LoadOrder[14] = "eventsReceived"
    /\ LoadOrder[15] = "persisted" /\ LoadOrder[16] = "eventsPersisted"
BY DEF LoadOrder

\* All loads but the first are of counters, and no counter is loaded twice.
LEMMA LoadsCounters ==
    /\ \A i \in 2..16 : LoadOrder[i] \in Counters /\ LoadOrder[i] # "gauge"
    /\ \A i, j \in 1..16 : LoadOrder[i] = LoadOrder[j] => i = j
<1>1. \A i \in 1..16 : \/ i = 1 \/ i = 2 \/ i = 3 \/ i = 4 \/ i = 5 \/ i = 6 \/ i = 7
                       \/ i = 8 \/ i = 9 \/ i = 10 \/ i = 11 \/ i = 12 \/ i = 13
                       \/ i = 14 \/ i = 15 \/ i = 16
  OBVIOUS
<1>2. \A i \in 2..16 : LoadOrder[i] \in Counters /\ LoadOrder[i] # "gauge"
  BY <1>1, Loads DEF Counters, Buckets
<1>3. \A i, j \in 1..16 : LoadOrder[i] = LoadOrder[j] => i = j
  <2> SUFFICES ASSUME NEW i \in 1..16, NEW j \in 1..16, LoadOrder[i] = LoadOrder[j]
               PROVE  i = j
    OBVIOUS
  <2>1. CASE i \in {1, 2, 3, 4}
    BY <1>1, <2>1, Loads
  <2>2. CASE i \in {5, 6, 7, 8}
    BY <1>1, <2>2, Loads
  <2>3. CASE i \in {9, 10, 11, 12}
    BY <1>1, <2>3, Loads
  <2>4. CASE i \in {13, 14, 15, 16}
    BY <1>1, <2>4, Loads
  <2> QED BY <1>1, <2>1, <2>2, <2>3, <2>4
<1> QED BY <1>2, <1>3

\* What a complete scrape shows for a counter is what its load read.
LEMMA ShownIsLoaded == \A i \in 1..16 : Shown(LoadOrder[i]) = scrape[i]
<1> SUFFICES ASSUME NEW i \in 1..16 PROVE Shown(LoadOrder[i]) = scrape[i]
  OBVIOUS
<1> DEFINE c == LoadOrder[i]
<1>1. DOMAIN LoadOrder = 1..16 /\ \A j \in 1..16 : LoadOrder[j] = c => j = i
  BY Loads, LoadsCounters
<1>2. (CHOOSE j \in DOMAIN LoadOrder : LoadOrder[j] = c) = i
  BY <1>1
<1> QED BY <1>2 DEF Shown

\* What the first loads show, of a scrape that has come that far.
Rejected(s) == s[3] + s[4] + s[5]
BatchesOf(s) == s[6] + s[7] + s[8] + s[9] + s[10] + s[11] + s[12]
FewestOf(s) == s[6] + 2 * s[7] + 11 * s[8] + 51 * s[9] + 101 * s[10] + 251 * s[11]
                 + 501 * s[12]

\* No load exceeds what its counter is now, and the loads that ScrapeAddsUp
\* compares are in order as soon as both sides have been read.
Scraped ==
    /\ scrape \in Seq(Nat) /\ Len(scrape) <= 16
    /\ \A i \in 2..Len(scrape) : scrape[i] <= metrics[LoadOrder[i]]
    /\ Len(scrape) >= 13 => /\ Rejected(scrape) <= scrape[13] + Cardinality(Empty)
                            /\ BatchesOf(scrape) <= scrape[13]
    /\ Len(scrape) >= 14 => FewestOf(scrape) <= scrape[14]

\* Fewer rejections of each kind.
LEMMA FewerRejections ==
    ASSUME NEW s, NEW v \in Nat, NEW o \in Nat, NEW f \in Nat,
           s[3] \in Nat /\ s[4] \in Nat /\ s[5] \in Nat,
           s[3] <= v /\ s[4] <= o /\ s[5] <= f
    PROVE  Rejected(s) \in Nat /\ Rejected(s) <= v + o + f
BY DEF Rejected

\* Fewer batches in each bucket, and so fewer in all and of fewer events.
LEMMA FewerBatches ==
    ASSUME NEW s, NEW m,
           /\ s[6] \in Nat /\ s[7] \in Nat /\ s[8] \in Nat /\ s[9] \in Nat
           /\ s[10] \in Nat /\ s[11] \in Nat /\ s[12] \in Nat,
           /\ m["1"] \in Nat /\ m["2_10"] \in Nat /\ m["11_50"] \in Nat
           /\ m["51_100"] \in Nat /\ m["101_250"] \in Nat /\ m["251_500"] \in Nat
           /\ m["gt_500"] \in Nat,
           /\ s[6] <= m["1"] /\ s[7] <= m["2_10"] /\ s[8] <= m["11_50"]
           /\ s[9] <= m["51_100"] /\ s[10] <= m["101_250"] /\ s[11] <= m["251_500"]
           /\ s[12] <= m["gt_500"]
    PROVE  /\ BatchesOf(s) \in Nat /\ Histogram(m) \in Nat /\ BatchesOf(s) <= Histogram(m)
           /\ FewestOf(s) \in Nat /\ Least(m) \in Nat /\ FewestOf(s) <= Least(m)
<1>1. BatchesOf(s) \in Nat /\ Histogram(m) \in Nat /\ BatchesOf(s) <= Histogram(m)
  BY DEF BatchesOf, Histogram
<1>2. FewestOf(s) \in Nat /\ Least(m) \in Nat /\ FewestOf(s) <= Least(m)
  BY DEF FewestOf, Least
<1> QED BY <1>1, <1>2

\* A scrape that shows at most what there is shows sums of at most what there
\* is.
LEMMA ScrapeBelow ==
    ASSUME NEW s \in Seq(Nat), NEW m \in [Counters -> Nat],
           \A i \in 2..Len(s) : s[i] <= m[LoadOrder[i]]
    PROVE  /\ Len(s) >= 5 =>
                 /\ Rejected(s) \in Nat
                 /\ Rejected(s) <= m["validation"] + m["overload"] + m["storage"]
           /\ Len(s) >= 12 =>
                 /\ BatchesOf(s) \in Nat /\ Histogram(m) \in Nat
                 /\ BatchesOf(s) <= Histogram(m)
                 /\ FewestOf(s) \in Nat /\ Least(m) \in Nat /\ FewestOf(s) <= Least(m)
<1>1. /\ m["validation"] \in Nat /\ m["overload"] \in Nat /\ m["storage"] \in Nat
      /\ m["1"] \in Nat /\ m["2_10"] \in Nat /\ m["11_50"] \in Nat
      /\ m["51_100"] \in Nat /\ m["101_250"] \in Nat /\ m["251_500"] \in Nat
      /\ m["gt_500"] \in Nat
  BY DEF Counters, Buckets
<1>2. ASSUME Len(s) >= 5
      PROVE  /\ Rejected(s) \in Nat
             /\ Rejected(s) <= m["validation"] + m["overload"] + m["storage"]
  <2>1. \A i \in {3, 4, 5} : i \in 1..Len(s) /\ i \in 2..Len(s)
    BY <1>2
  <2>2. s[3] \in Nat /\ s[4] \in Nat /\ s[5] \in Nat
    BY <2>1
  <2>3. s[3] <= m[LoadOrder[3]] /\ s[4] <= m[LoadOrder[4]] /\ s[5] <= m[LoadOrder[5]]
    BY <2>1
  <2>4. s[3] <= m["validation"] /\ s[4] <= m["overload"] /\ s[5] <= m["storage"]
    BY <2>3, Loads
  <2> QED BY <1>1, <2>2, <2>4, FewerRejections
<1>3. ASSUME Len(s) >= 12
      PROVE  /\ BatchesOf(s) \in Nat /\ Histogram(m) \in Nat
             /\ BatchesOf(s) <= Histogram(m)
             /\ FewestOf(s) \in Nat /\ Least(m) \in Nat /\ FewestOf(s) <= Least(m)
  <2>1. \A i \in {6, 7, 8, 9, 10, 11, 12} : i \in 1..Len(s) /\ i \in 2..Len(s)
    BY <1>3
  <2>2. /\ s[6] \in Nat /\ s[7] \in Nat /\ s[8] \in Nat /\ s[9] \in Nat
        /\ s[10] \in Nat /\ s[11] \in Nat /\ s[12] \in Nat
    <3>1. /\ 6 \in 1..Len(s) /\ 7 \in 1..Len(s) /\ 8 \in 1..Len(s) /\ 9 \in 1..Len(s)
          /\ 10 \in 1..Len(s) /\ 11 \in 1..Len(s) /\ 12 \in 1..Len(s)
      BY <2>1
    <3>2. \A i \in 1..Len(s) : s[i] \in Nat
      OBVIOUS
    <3> QED BY <3>1, <3>2, Zenon
  <2>3. /\ s[6] <= m[LoadOrder[6]] /\ s[7] <= m[LoadOrder[7]]
        /\ s[8] <= m[LoadOrder[8]] /\ s[9] <= m[LoadOrder[9]]
        /\ s[10] <= m[LoadOrder[10]] /\ s[11] <= m[LoadOrder[11]]
        /\ s[12] <= m[LoadOrder[12]]
    BY <2>1
  <2>4. /\ s[6] <= m["1"] /\ s[7] <= m["2_10"] /\ s[8] <= m["11_50"]
        /\ s[9] <= m["51_100"] /\ s[10] <= m["101_250"] /\ s[11] <= m["251_500"]
        /\ s[12] <= m["gt_500"]
    BY <2>3, Loads
  <2> QED BY <1>1, <2>2, <2>4, FewerBatches
<1> QED BY <1>2, <1>3

\* What the surplus says of the rejections.
LEMMA RejectionsBounded ==
    ASSUME NEW m, NEW e \in Nat, NEW u \in Nat, Account(m) + e - u >= 0,
           /\ m["received"] \in Nat /\ m["persisted"] \in Nat
           /\ m["validation"] \in Nat /\ m["overload"] \in Nat /\ m["storage"] \in Nat
    PROVE  m["validation"] + m["overload"] + m["storage"] <= m["received"] + e
BY DEF Account

\* The next load: received comes after the rejections and the histogram, which
\* had no more to show when received was less.
LEMMA LoadScraped ==
    ASSUME IInv, BatchesCounted, HistogramCounted, Scraped, Load
    PROVE  Scraped'
<1>0. PICK n \in Nat : n = Len(scrape) /\ n < 16
  <2>1. Len(scrape) \in Nat
    BY DEF Scraped
  <2>2. Len(scrape) < 16
    BY Loads DEF Load
  <2> QED BY <2>1, <2>2
<1>1. /\ scrape \in Seq(Nat) /\ metrics \in [Counters -> Nat]
      /\ metrics' = metrics /\ Empty' = Empty /\ queuedEvents \in Nat
      /\ Cardinality(Empty) \in Nat
  <2>1. Types /\ Counted
    BY DEF IInv
  <2>2. metrics' = metrics /\ Empty' = Empty
    BY DEF Load, vars, Empty
  <2>3. queuedEvents \in Nat
    BY <2>1, HoldersType, ItemsFinite DEF Counted
  <2>4. Cardinality(Empty) \in Nat
    BY <2>1, BatchSets, Counts
  <2>5. scrape \in Seq(Nat) /\ metrics \in [Counters -> Nat]
    BY <2>1 DEF Types, Scraped
  <2> QED BY <2>2, <2>3, <2>4, <2>5
<1>2. PICK v : /\ scrape' = Append(scrape, v)
               /\ v = IF LoadOrder[n + 1] = "gauge" THEN queuedEvents
                      ELSE metrics[LoadOrder[n + 1]]
  BY <1>0 DEF Load
<1>3. v \in Nat /\ (n >= 1 => v = metrics[LoadOrder[n + 1]])
  <2>1. CASE n = 0
    BY <1>0, <1>1, <1>2, <2>1, Loads
  <2>2. CASE n >= 1
    <3>1. n + 1 \in 2..16
      BY <1>0, <2>2
    <3>2. LoadOrder[n + 1] \in Counters /\ LoadOrder[n + 1] # "gauge"
      BY <3>1, LoadsCounters
    <3> QED BY <1>0, <1>1, <1>2, <3>2
  <2> QED BY <1>0, <1>1, <2>1, <2>2
<1>4. /\ scrape' \in Seq(Nat) /\ Len(scrape') = n + 1 /\ scrape'[n + 1] = v
      /\ \A i \in 1..n : scrape'[i] = scrape[i]
  BY <1>0, <1>1, <1>2, <1>3
<1>5. \A i \in 2..Len(scrape') : scrape'[i] <= metrics'[LoadOrder[i]]
  <2> SUFFICES ASSUME NEW i \in 2..Len(scrape') PROVE scrape'[i] <= metrics'[LoadOrder[i]]
    OBVIOUS
  <2>1. CASE i = n + 1
    BY <1>0, <1>1, <1>3, <1>4, <2>1
  <2>2. CASE i \in 2..n
    BY <1>0, <1>1, <1>4, <2>2 DEF Scraped
  <2> QED BY <1>0, <1>1, <1>4, <2>1, <2>2
<1>6. /\ n >= 5 => Rejected(scrape') = Rejected(scrape)
      /\ n >= 12 => BatchesOf(scrape') = BatchesOf(scrape)
                    /\ FewestOf(scrape') = FewestOf(scrape)
      /\ n >= 13 => scrape'[13] = scrape[13]
      /\ n >= 14 => scrape'[14] = scrape[14]
  <2>1. \A i \in 1..14 : i <= n => scrape'[i] = scrape[i]
    BY <1>0, <1>1, <1>4
  <2>2. n >= 5 => Rejected(scrape') = Rejected(scrape)
    <3>1. n >= 5 => scrape'[3] = scrape[3] /\ scrape'[4] = scrape[4] /\ scrape'[5] = scrape[5]
      BY <2>1
    <3> QED BY <3>1 DEF Rejected
  <2>3. n >= 12 => BatchesOf(scrape') = BatchesOf(scrape)
                   /\ FewestOf(scrape') = FewestOf(scrape)
    <3>1. n >= 12 => /\ scrape'[6] = scrape[6] /\ scrape'[7] = scrape[7]
                     /\ scrape'[8] = scrape[8] /\ scrape'[9] = scrape[9]
                     /\ scrape'[10] = scrape[10] /\ scrape'[11] = scrape[11]
                     /\ scrape'[12] = scrape[12]
      BY <2>1
    <3> QED BY <3>1 DEF BatchesOf, FewestOf
  <2> QED BY <1>0, <1>1, <2>1, <2>2, <2>3
<1>7. /\ n >= 5 => Rejected(scrape) <= metrics["received"] + Cardinality(Empty)
      /\ n >= 12 => BatchesOf(scrape) <= metrics["received"]
      /\ n >= 12 => FewestOf(scrape) <= metrics["eventsReceived"]
  <2>1. /\ n >= 5 =>
              /\ Rejected(scrape) \in Nat
              /\ Rejected(scrape)
                   <= metrics["validation"] + metrics["overload"] + metrics["storage"]
        /\ n >= 12 =>
              /\ BatchesOf(scrape) \in Nat /\ Histogram(metrics) \in Nat
              /\ BatchesOf(scrape) <= Histogram(metrics)
              /\ FewestOf(scrape) \in Nat /\ Least(metrics) \in Nat
              /\ FewestOf(scrape) <= Least(metrics)
    <3>1. \A i \in 2..Len(scrape) : scrape[i] <= metrics[LoadOrder[i]]
      BY DEF Scraped
    <3> QED BY <1>0, <1>1, <3>1, ScrapeBelow
  <2>2. /\ metrics["received"] \in Nat /\ metrics["persisted"] \in Nat
        /\ metrics["validation"] \in Nat /\ metrics["overload"] \in Nat
        /\ metrics["storage"] \in Nat /\ metrics["eventsReceived"] \in Nat
    BY <1>0, <1>1 DEF Counters
  <2>3. Cardinality(Undecided) \in Nat /\ Cardinality(Counting) \in Nat
    BY BatchSets, Counts DEF IInv
  <2>4. metrics["validation"] + metrics["overload"] + metrics["storage"]
          <= metrics["received"] + Cardinality(Empty)
    <3>1. Account(metrics) + Cardinality(Empty) - Cardinality(Undecided) >= 0
      BY DEF BatchesCounted, Surplus
    <3>2. Cardinality(Empty) \in Nat
      BY <1>1
    <3> QED BY <2>2, <2>3, <3>1, <3>2, RejectionsBounded
  <2>5. n >= 12 => Histogram(metrics) <= metrics["received"]
    BY <2>1, <2>2, <2>3 DEF HistogramCounted
  <2>6. n >= 12 => Least(metrics) <= metrics["eventsReceived"]
    <3>1. EventsOf(Bucketing) \in Nat
      BY BatchSets, ItemsFinite DEF IInv
    <3> QED BY <2>1, <2>2, <3>1 DEF HistogramCounted
  <2>7. n >= 5 => Rejected(scrape) <= metrics["received"] + Cardinality(Empty)
    <3> DEFINE R == Rejected(scrape)
               S == metrics["validation"] + metrics["overload"] + metrics["storage"]
               T == metrics["received"] + Cardinality(Empty)
    <3>1. S \in Nat /\ T \in Nat
      <4>1. S \in Nat
        BY <2>2
      <4>2. Cardinality(Empty) \in Nat /\ metrics["received"] \in Nat
        BY <1>1, <2>2
      <4>3. T \in Nat
        BY <4>2
      <4> QED BY <4>1, <4>3
    <3>2. (n >= 5 => R \in Nat /\ R <= S) /\ S <= T
      BY <1>0, <2>1, <2>4
    <3> HIDE DEF R, S, T
    <3>3. n >= 5 => R <= T
      BY <3>1, <3>2
    <3> QED BY <3>3 DEF R, T
  <2>8. n >= 12 => BatchesOf(scrape) <= metrics["received"]
    BY <1>0, <1>1, <2>1, <2>2, <2>5
  <2>9. n >= 12 => FewestOf(scrape) <= metrics["eventsReceived"]
    BY <1>0, <1>1, <2>1, <2>2, <2>6
  <2> QED BY <2>7, <2>8, <2>9
<1>8. n + 1 >= 13 => /\ Rejected(scrape') <= scrape'[13] + Cardinality(Empty')
                     /\ BatchesOf(scrape') <= scrape'[13]
  <2>1. CASE n = 12
    BY <1>0, <1>1, <1>3, <1>4, <1>6, <1>7, <2>1, Loads
  <2>2. CASE n >= 13
    BY <1>0, <1>1, <1>6, <2>2 DEF Scraped
  <2>3. n + 1 >= 13 => n = 12 \/ n >= 13
    BY <1>0
  <2> QED BY <2>1, <2>2, <2>3
<1>9. n + 1 >= 14 => FewestOf(scrape') <= scrape'[14]
  <2>1. CASE n = 13
    BY <1>0, <1>1, <1>3, <1>4, <1>6, <1>7, <2>1, Loads
  <2>2. CASE n >= 14
    BY <1>0, <1>1, <1>6, <2>2 DEF Scraped
  <2>3. n + 1 >= 14 => n = 13 \/ n >= 14
    BY <1>0
  <2> QED BY <2>1, <2>2, <2>3
<1> QED BY <1>0, <1>1, <1>4, <1>5, <1>8, <1>9 DEF Scraped

\* A body that was empty stays so.
LEMMA EmptyStays ==
    ASSUME Types, [Next]_vars, ~ Crash
    PROVE  Empty \subseteq Empty'
<1>1. ASSUME NEW r \in Requests, Handler(r) PROVE Empty \subseteq Empty'
  <2>1. \/ \E a : Finish(r, a)
        \/ \E l \in {"counting", "bucketing", "validating", "reserve", "rlock",
                     "locked", "refused", "waiting",
                     "abandoned"} : Goto(r, l)
    BY <1>1 DEF Handler, Receive, Count, AfterAdd, CountEvents, CountBucket, Validate,
                Reserve, RLock, Refuse, Send, CancelSend, Abandon,
                Await, Leave
  <2>2. pc'[r] # "idle" /\ \A q \in Requests \ {r} : pc'[q] = pc[q]
    BY <2>1, FinishMoves, GotoMoves
  <2> QED BY <2>2 DEF Empty
<1>2. CASE Writer \/ Close \/ Terminated \/ UNCHANGED vars
  <2>1. pc' = pc
    BY <1>2 DEF Writer, Dequeue, Tick, Drain, SaveOk, CountSaved, SaveFail, Reply, Release,
                Close, CloseLock, CloseQueue, CloseDone, Terminated, vars, handlers
  <2> QED BY <2>1 DEF Empty
<1> QED BY <1>1, <1>2 DEF Next

\* Beside a step of the collector: the counters only grow, and a kill ends the
\* scrape.
LEMMA NextScraped ==
    ASSUME Types, Placed, HistogramCounted, Scraped, [Next]_vars,
           scrape' = IF crashes' = crashes THEN scrape ELSE <<>>
    PROVE  Scraped'
<1>1. Types'
  BY NextTypes
<1>2. CASE Crash
  <2>1. crashes' = crashes + 1 /\ crashes \in Nat
    BY <1>2, CrashResets, CrashAssumption DEF Types
  <2>2. scrape' = <<>>
    BY <2>1
  <2> QED BY <2>2 DEF Scraped
<1>3. CASE ~ Crash
  <2>1. Grows /\ Empty \subseteq Empty'
    BY <1>3, StepHistogram, EmptyStays
  <2>2. /\ Empty \in SUBSET Requests /\ Empty' \in SUBSET Requests
    BY DEF Empty
  <2>3. /\ Cardinality(Empty) \in Nat /\ Cardinality(Empty') \in Nat
        /\ Cardinality(Empty) <= Cardinality(Empty')
    BY <2>1, <2>2, Counts, FS_Subset
  <2>4. scrape' = scrape \/ scrape' = <<>>
    OBVIOUS
  <2>5. CASE scrape' = <<>>
    BY <2>5 DEF Scraped
  <2>6. CASE scrape' = scrape
    <3>1. \A i \in 2..Len(scrape') : scrape'[i] <= metrics'[LoadOrder[i]]
      <4> SUFFICES ASSUME NEW i \in 2..Len(scrape)
                   PROVE  scrape[i] <= metrics'[LoadOrder[i]]
        BY <2>6
      <4>1. i \in 2..16 /\ i \in 1..Len(scrape)
        BY DEF Scraped
      <4> DEFINE c == LoadOrder[i]
                 v == scrape[i]
      <4>2. c \in Counters
        BY <4>1, LoadsCounters
      <4>3. v <= metrics[c] /\ v \in Nat
        BY <4>1 DEF Scraped
      <4> HIDE DEF c, v
      <4>4. metrics[c] <= metrics'[c] /\ metrics[c] \in Nat /\ metrics'[c] \in Nat
        BY <1>1, <2>1, <4>2 DEF Grows, Types
      <4>5. v <= metrics'[c]
        BY <4>3, <4>4
      <4> QED BY <4>5 DEF c, v
    <3>2. Len(scrape) >= 13 => Rejected(scrape) \in Nat /\ scrape[13] \in Nat
      <4> SUFFICES ASSUME Len(scrape) >= 13
                   PROVE  Rejected(scrape) \in Nat /\ scrape[13] \in Nat
        OBVIOUS
      <4>1. Len(scrape) \in Nat /\ \A i \in 1..Len(scrape) : scrape[i] \in Nat
        BY DEF Scraped
      <4>2. \A i \in {3, 4, 5, 13} : i \in 1..Len(scrape)
        BY <4>1
      <4>3. scrape[3] \in Nat /\ scrape[4] \in Nat /\ scrape[5] \in Nat /\ scrape[13] \in Nat
        BY <4>1, <4>2
      <4> QED BY <4>3 DEF Rejected
    <3>3. Len(scrape') >= 13 => /\ Rejected(scrape') <= scrape'[13] + Cardinality(Empty')
                                /\ BatchesOf(scrape') <= scrape'[13]
      BY <2>3, <2>6, <3>2 DEF Scraped
    <3>4. /\ scrape' \in Seq(Nat) /\ Len(scrape') <= 16
          /\ Len(scrape') >= 14 => FewestOf(scrape') <= scrape'[14]
      BY <2>6 DEF Scraped
    <3> QED BY <3>1, <3>3, <3>4 DEF Scraped
  <2> QED BY <2>4, <2>5, <2>6
<1> QED BY <1>2, <1>3

\* The invariant of the collector with a scrape beside it.
MInv == IInv /\ BatchesCounted /\ HistogramCounted /\ Scraped

\* The invariant holds at the start, and steps and loads keep it.
LEMMA InitMInv == MInit => MInv
<1> SUFFICES ASSUME MInit PROVE MInv
  OBVIOUS
<1>1. Init /\ scrape = <<>>
  BY DEF MInit
<1>2. IInv
  BY <1>1, InitTypes, InitPlaced, InitDecided, InitCounted DEF IInv
<1>3. Scraped
  BY <1>1 DEF Scraped
<1> QED BY <1>1, <1>2, <1>3, InitBatchesCounted, InitHistogramCounted DEF MInv

LEMMA NextMInv == MInv /\ [MNext]_mvars => MInv'
<1> SUFFICES ASSUME MInv, [MNext]_mvars PROVE MInv'
  OBVIOUS
<1>0. IInv /\ BatchesCounted /\ HistogramCounted /\ Scraped /\ Types /\ Placed /\ Ordered
  BY DEF MInv, IInv
<1>1. [Next]_vars
  BY DEF MNext, Load, mvars
<1>2. IInv'
  BY <1>0, <1>1, NextTypes, NextPlaced, NextOrdered, NextDecided, NextStored, NextCounted
     DEF IInv
<1>3. BatchesCounted' /\ HistogramCounted'
  BY <1>0, <1>1, NextBatchesCounted, NextHistogramCounted
<1>4. Scraped'
  <2>1. CASE Load
    BY <1>0, <2>1, LoadScraped
  <2>2. CASE Next /\ scrape' = IF crashes' = crashes THEN scrape ELSE <<>>
    BY <1>0, <1>1, <2>2, NextScraped
  <2>3. CASE UNCHANGED mvars
    BY <1>0, <1>1, <2>3, NextScraped DEF mvars, vars
  <2> QED BY <2>1, <2>2, <2>3 DEF MNext
<1> QED BY <1>2, <1>3, <1>4 DEF MInv

\* However a scrape and the steps of handlers and writer interleave, and
\* whatever kills there are, a complete scrape adds up.
THEOREM ScrapesAddUp == MSpec => []ScrapeAddsUp
<1>1. MInv => ScrapeAddsUp
  <2> SUFFICES ASSUME Scraped, Complete
               PROVE  /\ Rejections <= Shown("received") + Cardinality(Empty)
                      /\ ShownBatches <= Shown("received")
                      /\ FewestEvents <= Shown("eventsReceived")
    BY DEF MInv, ScrapeAddsUp
  <2>1. Len(scrape) = 16
    BY Loads DEF Complete
  <2>2. /\ Shown("validation") = scrape[3] /\ Shown("overload") = scrape[4]
        /\ Shown("storage") = scrape[5] /\ Shown("received") = scrape[13]
        /\ Shown("eventsReceived") = scrape[14]
    BY Loads, ShownIsLoaded
  <2>3. /\ Shown("1") = scrape[6] /\ Shown("2_10") = scrape[7] /\ Shown("11_50") = scrape[8]
        /\ Shown("51_100") = scrape[9] /\ Shown("101_250") = scrape[10]
        /\ Shown("251_500") = scrape[11] /\ Shown("gt_500") = scrape[12]
    BY Loads, ShownIsLoaded
  <2>4. /\ Rejections = Rejected(scrape) /\ ShownBatches = BatchesOf(scrape)
        /\ FewestEvents = FewestOf(scrape)
    BY <2>2, <2>3 DEF Rejections, Rejected, ShownBatches, BatchesOf, FewestEvents, FewestOf
  <2> QED BY <2>1, <2>2, <2>4 DEF Scraped
<1> QED BY <1>1, InitMInv, NextMInv, PTL DEF MSpec
=============================================================================
