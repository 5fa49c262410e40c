-------------------------- MODULE CollectorProofs --------------------------
(***************************************************************************)
(* Proofs about Collector, for any set of requests, any batches, any       *)
(* capacity and any number of kills.                                       *)
(*                                                                         *)
(* The inductive invariant has six parts:                                  *)
(*   Types      what each variable ranges over;                            *)
(*   Placed     where a batch can be, and that it is in one place only;    *)
(*   Ordered    how Close excludes senders and lets the writer return;     *)
(*   Decided    what the transaction of a batch has to do with its verdict *)
(*              and its answer;                                            *)
(*   AllStored  that committed batches have their rows;                    *)
(*   Counted    that queuedEvents and eventCount are the events of the     *)
(*              batches that hold a reservation, or wait with the writer.  *)
(***************************************************************************)
EXTENDS Collector, FiniteSetTheorems, WellFoundedInduction, TLAPS

\* TypeOK without the bounds that only Counted gives.
Types ==
    /\ pc \in [Requests -> InProgress \union {"idle", "done"}]
    /\ answer \in [Requests -> Answers]
    /\ result \in [Requests -> {"none", "ok", "err"}]
    /\ queuedEvents \in Int
    /\ closer \in {"open", "locking", "draining", "closed"}
    /\ queue \in Seq(Requests)
    /\ run \in {"select", "save", "count", "reply", "release", "exited"}
    /\ batches \in Seq(Requests)
    /\ run \in {"save", "count", "reply", "release"} => batches # <<>>
    /\ eventCount \in Nat
    /\ returning \in BOOLEAN
    /\ saved \in {"none", "ok", "err"}
    /\ store \in [Keys -> Events \union {NoEvent}]
    /\ committed \subseteq Requests
    /\ metrics \in [Counters -> Nat]
    /\ crashes \in 0..MaxCrashes

Distinct(s) == \A i, j \in 1..Len(s) : s[i] = s[j] => i = j

\* A batch is queued or pending once, on behalf of a handler that sent it.
Placed ==
    /\ Distinct(queue) /\ Distinct(batches)
    /\ InSeq(queue) \intersect InSeq(batches) = {}
    /\ \A r \in InSeq(queue) \union InSeq(batches) :
          pc[r] \in {"waiting", "done"} /\ Size(r) >= 1
    /\ \A r \in Requests : pc[r] \in InProgress => Size(r) >= 1
    /\ \A r \in Requests : answer[r] # "none" <=> pc[r] = "done"

\* Batches whose transaction is still to come.
Pending == InSeq(queue) \union (IF run \in {"select", "save"} THEN InSeq(batches) ELSE {})

\* A batch that waits for its transaction is not committed and has no
\* verdict; verdicts and answers agree with what the transaction did.
Decided ==
    /\ saved = "none" <=> run \in {"select", "save", "exited"}
    /\ \A r \in Requests : r \in Pending => r \notin committed /\ result[r] = "none"
    /\ \A r \in Requests : pc[r] \notin {"waiting", "done"} =>
          r \notin committed /\ result[r] = "none"
    /\ run \in {"count", "reply", "release"} =>
          \A r \in InSeq(batches) : saved = "ok" <=> r \in committed
    /\ run = "release" => result[Head(batches)] # "none"
    /\ \A r \in Requests : result[r] = "ok" => r \in committed
    /\ \A r \in Requests : result[r] = "err" => r \notin committed
    /\ \A r \in Requests : answer[r] = "202" => r \in committed
    /\ \A r \in Requests : answer[r] \in Refusals => r \notin committed \union Pending
    /\ \A r \in Requests : pc[r] = "waiting" =>
          result[r] # "none" \/ r \in InSeq(queue) \union InSeq(batches)

\* Committed batches have their rows.
AllStored == \A r \in committed : Stored(r)

\* Reservations and the writer's count are sums over batches.
Counted ==
    /\ queuedEvents = EventsOf(Holders)
    /\ queuedEvents <= Capacity
    /\ eventCount <= Capacity
    /\ run \in {"select", "save"} => eventCount = EventsOf(InSeq(batches))
    /\ run = "select" => eventCount < Capacity

\* How Close excludes senders and lets the writer return.
Ordered ==
    /\ \A r \in Requests : pc[r] = "locked" => closer \in {"open", "locking"}
    /\ returning => queue = <<>> /\ closer \in {"draining", "closed"}
    /\ run = "exited" => returning /\ batches = <<>>

----------------------------------------------------------------------------
(* Operators.                                                              *)

LEMMA SizeIsNat == \A r \in Requests : Size(r) \in Nat
BY BatchAssumption DEF Size

\* A step that counts a batch or validates it.
Count(r) == CountEvents(r) \/ CountBucket(r) \/ Validate(r)

\* Counting keeps the counters natural numbers.
LEMMA AddType ==
    ASSUME NEW m \in [Counters -> Nat], NEW c \in Counters, NEW n \in Nat
    PROVE  Add(m, c, n) \in [Counters -> Nat]
BY DEF Add

LEMMA BucketIsCounter == \A n \in Nat : Bucket(n) \in Counters
BY DEF Bucket, Counters, Buckets

LEMMA LeastNatural ==
    ASSUME NEW S \in SUBSET Nat, S # {}
    PROVE  \E m \in S : \A n \in S : m <= n
<1> DEFINE L == {p \in Nat \X Nat : p[1] < p[2]}
<1>1. IsWellFoundedOn(L, Nat)
  <2>1. OpToRel(<, Nat) = L
    BY Zenon DEF OpToRel
  <2> QED BY <2>1, NatLessThanWellFounded
<1>2. PICK m \in S : \A n \in S : ~ (<<n, m>> \in L)
  <2> HIDE DEF L
  <2> QED BY <1>1, WFMin
<1>3. ASSUME NEW n \in S PROVE m <= n
  <2>1. m \in Nat /\ n \in Nat
    OBVIOUS
  <2>2. ~ (<<n, m>> \in L)
    BY <1>2
  <2>3. <<n, m>> \in Nat \X Nat /\ <<n, m>>[1] = n /\ <<n, m>>[2] = m
    BY <2>1
  <2>4. ~ (n < m)
    BY <2>2, <2>3
  <2> QED BY <2>1, <2>4
<1> QED BY <1>3

\* A set of places has a first one.
LEMMA FirstPlace ==
    ASSUME NEW P \in SUBSET (Nat \X Nat), P # {}
    PROVE  \E p \in P : \A q \in P : Before(p, q)
<1> DEFINE I == {p[1] : p \in P}
<1>1. PICK i \in I : \A j \in I : i <= j
  <2>1. I \in SUBSET Nat /\ I # {}
    OBVIOUS
  <2> HIDE DEF I
  <2> QED BY <2>1, LeastNatural
<1> DEFINE J == {p[2] : p \in {q \in P : q[1] = i}}
<1>2. PICK j \in J : \A k \in J : j <= k
  <2>1. J \in SUBSET Nat /\ J # {}
    BY <1>1
  <2> HIDE DEF J
  <2> QED BY <2>1, LeastNatural
<1>3. PICK p \in P : p[1] = i /\ p[2] = j
  BY <1>2
<1>4. ASSUME NEW q \in P PROVE Before(p, q)
  <2>1. q[1] \in I /\ q[1] \in Nat /\ q[2] \in Nat /\ i \in Nat /\ j \in Nat
    BY <1>3
  <2>2. i <= q[1]
    BY <1>1, <2>1
  <2>3. q[1] = i => j <= q[2]
    BY <1>2
  <2> QED BY <1>3, <2>1, <2>2, <2>3 DEF Before
<1> QED BY <1>3, <1>4

\* A save keeps every row and gives every key of its batches one.
LEMMA InsertedRows ==
    ASSUME NEW s \in [Keys -> Events \union {NoEvent}], NEW bs \in Seq(Requests)
    PROVE  /\ Inserted(s, bs) \in [Keys -> Events \union {NoEvent}]
           /\ \A k \in Keys : s[k] # NoEvent => Inserted(s, bs)[k] = s[k]
           /\ \A k \in Keys : Places(bs, k) # {} => Inserted(s, bs)[k] # NoEvent
           /\ \A k \in Keys : s[k] # NoEvent => Inserted(s, bs)[k] # NoEvent
<1>1. ASSUME NEW k \in Keys, Places(bs, k) # {}
      PROVE  LET p == CHOOSE p \in Places(bs, k) :
                        \A q \in Places(bs, k) : Before(p, q)
             IN  BatchOf[bs[p[1]]][p[2]] \in Events
  <2>1. Places(bs, k) \in SUBSET (Nat \X Nat)
    BY DEF Places
  <2>2. \E first \in Places(bs, k) : \A q \in Places(bs, k) : Before(first, q)
    BY <1>1, <2>1, FirstPlace
  <2>3. \A place \in Places(bs, k) : BatchOf[bs[place[1]]][place[2]] \in Events
    <3>1. SUFFICES ASSUME NEW place \in Places(bs, k)
                   PROVE  BatchOf[bs[place[1]]][place[2]] \in Events
      OBVIOUS
    <3>2. PICK i \in 1..Len(bs) : place \in {i} \X (1..Size(bs[i]))
      BY DEF Places
    <3>3. bs[i] \in Requests /\ place[1] = i /\ place[2] \in 1..Len(BatchOf[bs[i]])
      BY <3>2 DEF Size
    <3>4. BatchOf[bs[i]] \in Seq(Events)
      BY <3>3, BatchAssumption
    <3> QED BY <3>3, <3>4
  <2> QED BY <2>2, <2>3
<1>2. \A k \in Keys : Inserted(s, bs)[k] =
                        IF s[k] # NoEvent \/ Places(bs, k) = {} THEN s[k]
                        ELSE LET p == CHOOSE p \in Places(bs, k) :
                                        \A q \in Places(bs, k) : Before(p, q)
                             IN  BatchOf[bs[p[1]]][p[2]]
  BY DEF Inserted
<1>3. \A k \in Keys : Inserted(s, bs)[k] \in Events \union {NoEvent}
  BY <1>1, <1>2
<1>4. Inserted(s, bs) \in [Keys -> Events \union {NoEvent}]
  BY <1>3 DEF Inserted
<1>5. \A k \in Keys : s[k] # NoEvent => Inserted(s, bs)[k] = s[k]
  BY <1>2
<1>6. \A k \in Keys : Places(bs, k) # {} => Inserted(s, bs)[k] # NoEvent
  BY <1>1, <1>2, EventAssumption
<1> QED BY <1>4, <1>5, <1>6

\* What Head, Tail and Append do to the set of elements.
LEMMA InSeqAppend ==
    ASSUME NEW s \in Seq(Requests), NEW e \in Requests
    PROVE  /\ Append(s, e) \in Seq(Requests)
           /\ InSeq(Append(s, e)) = InSeq(s) \union {e}
           /\ Append(s, e) # <<>>
<1>1. /\ Append(s, e) \in Seq(Requests)
      /\ Len(Append(s, e)) = Len(s) + 1 /\ Len(s) \in Nat
      /\ Append(s, e)[Len(s) + 1] = e
      /\ \A i \in 1..Len(s) : Append(s, e)[i] = s[i]
  OBVIOUS
<1>2. InSeq(Append(s, e)) \subseteq InSeq(s) \union {e}
  BY <1>1 DEF InSeq
<1>3. InSeq(s) \union {e} \subseteq InSeq(Append(s, e))
  <2>1. Len(s) + 1 \in 1..Len(Append(s, e)) /\ 1..Len(s) \subseteq 1..Len(Append(s, e))
    BY <1>1
  <2> QED BY <1>1, <2>1 DEF InSeq
<1>4. Append(s, e) # <<>>
  BY <1>1
<1> QED BY <1>1, <1>2, <1>3, <1>4

LEMMA InSeqHeadTail ==
    ASSUME NEW s \in Seq(Requests), s # <<>>
    PROVE  /\ Tail(s) \in Seq(Requests)
           /\ Head(s) \in Requests
           /\ InSeq(s) = {Head(s)} \union InSeq(Tail(s))
<1>1. Len(s) \in Nat \ {0} /\ Head(s) = s[1] /\ Len(Tail(s)) = Len(s) - 1
  OBVIOUS
<1>2. \A i \in 1..Len(Tail(s)) : Tail(s)[i] = s[i + 1]
  OBVIOUS
<1>3. InSeq(s) \subseteq {Head(s)} \union InSeq(Tail(s))
  <2>1. SUFFICES ASSUME NEW i \in 1..Len(s), i # 1
                 PROVE  s[i] \in InSeq(Tail(s))
    BY <1>1 DEF InSeq
  <2>2. i - 1 \in 1..Len(Tail(s)) /\ Tail(s)[i - 1] = s[i]
    BY <1>1, <1>2, <2>1
  <2> QED BY <2>2 DEF InSeq
<1>4. {Head(s)} \union InSeq(Tail(s)) \subseteq InSeq(s)
  BY <1>1, <1>2 DEF InSeq
<1> QED BY <1>1, <1>3, <1>4

LEMMA InSeqEmpty == InSeq(<<>>) = {}
BY DEF InSeq

\* A request has as many items as events, and items can be counted.
LEMMA ItemsCount ==
    ASSUME NEW r \in Requests
    PROVE  IsFiniteSet(Items(r)) /\ Cardinality(Items(r)) = Size(r)
<1>1. IsFiniteSet(1..Size(r)) /\ Cardinality(1..Size(r)) = Size(r)
  BY SizeIsNat, FS_Interval
<1>2. IsFiniteSet({r}) /\ Cardinality({r}) = 1
  BY FS_Singleton
<1> QED BY <1>1, <1>2, SizeIsNat, FS_Product DEF Items

LEMMA ItemsFinite ==
    ASSUME NEW R \in SUBSET Requests
    PROVE  IsFiniteSet(ItemsOf(R)) /\ EventsOf(R) \in Nat
<1> DEFINE I == {Items(r) : r \in R}
           f == [r \in R |-> Items(r)]
<1>1. IsFiniteSet(R)
  BY FS_Subset, BatchAssumption
<1>2. f \in Surjection(R, I)
  BY DEF Surjection
<1>3. IsFiniteSet(I)
  <2> HIDE DEF f, I
  <2> QED BY <1>1, <1>2, FS_Surjection
<1>4. \A T \in I : IsFiniteSet(T)
  BY ItemsCount
<1>5. IsFiniteSet(UNION I)
  <2> HIDE DEF I
  <2> QED BY <1>3, <1>4, FS_UNION
<1> QED BY <1>5, FS_CardinalityType DEF ItemsOf, EventsOf

LEMMA InSeqType == \A s \in Seq(Requests) : InSeq(s) \subseteq Requests
BY DEF InSeq

----------------------------------------------------------------------------
(* Types.                                                                  *)

LEMMA InitTypes == Init => Types
<1> SUFFICES ASSUME Init PROVE Types
  OBVIOUS
<1>1. /\ store \in [Keys -> Events \union {NoEvent}]
      /\ metrics \in [Counters -> Nat]
      /\ crashes \in 0..MaxCrashes
  BY CrashAssumption DEF Init
<1>2. /\ pc \in [Requests -> InProgress \union {"idle", "done"}]
      /\ answer \in [Requests -> Answers]
      /\ result \in [Requests -> {"none", "ok", "err"}]
  BY DEF Init, Answers
<1>3. /\ queue \in Seq(Requests) /\ batches \in Seq(Requests)
      /\ committed \subseteq Requests
  BY DEF Init
<1>4. /\ queuedEvents \in Int /\ eventCount \in Nat
      /\ closer \in {"open", "locking", "draining", "closed"}
      /\ run \in {"select", "save", "count", "reply", "release", "exited"}
      /\ run \in {"save", "count", "reply", "release"} => batches # <<>>
      /\ saved \in {"none", "ok", "err"}
  BY DEF Init
<1>5. returning \in BOOLEAN
  BY DEF Init
<1> QED BY <1>1, <1>2, <1>3, <1>4, <1>5 DEF Types

LEMMA FinishTypes ==
    ASSUME Types, NEW r \in Requests, NEW a \in Answers, Finish(r, a)
    PROVE  /\ pc' \in [Requests -> InProgress \union {"idle", "done"}]
           /\ answer' \in [Requests -> Answers]
BY DEF Types, Finish

LEMMA GotoTypes ==
    ASSUME Types, NEW r \in Requests, NEW l \in InProgress, Goto(r, l)
    PROVE  /\ pc' \in [Requests -> InProgress \union {"idle", "done"}]
           /\ answer' \in [Requests -> Answers]
BY DEF Types, Goto

LEMMA NextTypes == Types /\ [Next]_vars => Types'
<1> SUFFICES ASSUME Types, [Next]_vars PROVE Types'
  OBVIOUS
<1> USE DEF Types, handlers, writer, disk
<1>1. ASSUME NEW r \in Requests, Receive(r) PROVE Types'
  <2>1. metrics' \in [Counters -> Nat]
    <3>1. \A c \in {"decode", "validation", "received"} : Add(metrics, c, 1) \in [Counters -> Nat]
      BY AddType DEF Counters
    <3> QED BY <1>1, <3>1 DEF Receive, AfterAdd
  <2>2. CASE Finish(r, "400")
    BY <1>1, <2>1, <2>2, FinishTypes DEF Receive, AfterAdd, Answers
  <2>3. CASE Goto(r, "counting")
    BY <1>1, <2>1, <2>3, GotoTypes DEF Receive, AfterAdd, InProgress
  <2> QED BY <1>1, <2>2, <2>3 DEF Receive, AfterAdd
<1>2. ASSUME NEW r \in Requests, Count(r) PROVE Types'
  <2>1. /\ Add(metrics, "eventsReceived", Size(r)) \in [Counters -> Nat]
        /\ Add(metrics, Bucket(Size(r)), 1) \in [Counters -> Nat]
        /\ Add(metrics, "validation", 1) \in [Counters -> Nat]
    BY AddType, SizeIsNat, BucketIsCounter DEF Counters
  <2>2. metrics' \in [Counters -> Nat]
    BY <1>2, <2>1 DEF Count, CountEvents, CountBucket, Validate
  <2>3. CASE Finish(r, "422")
    BY <1>2, <2>2, <2>3, FinishTypes
       DEF Count, CountEvents, CountBucket, Validate, Answers
  <2>4. CASE \E l \in {"bucketing", "validating", "reserve"} : Goto(r, l)
    BY <1>2, <2>2, <2>4, GotoTypes
       DEF Count, CountEvents, CountBucket, Validate, InProgress
  <2> QED BY <1>2, <2>3, <2>4 DEF Count, CountEvents, CountBucket, Validate, AfterAdd
<1>3. ASSUME NEW r \in Requests, Reserve(r) PROVE Types'
  <2>1. CASE /\ metrics' = Add(metrics, "overload", 1)
             /\ Finish(r, "overload")
             /\ UNCHANGED queuedEvents
    <3>1. metrics' \in [Counters -> Nat]
      BY <2>1, AddType DEF Counters
    <3> QED BY <1>3, <2>1, <3>1, FinishTypes DEF Reserve, Answers
  <2>2. CASE /\ queuedEvents' = queuedEvents + Size(r)
             /\ Goto(r, "rlock")
             /\ UNCHANGED metrics
    BY <1>3, <2>2, GotoTypes, SizeIsNat DEF Reserve, InProgress
  <2> QED BY <1>3, <2>1, <2>2 DEF Reserve
<1>4. ASSUME NEW r \in Requests, RLock(r) PROVE Types'
  BY <1>4, GotoTypes DEF RLock, InProgress
<1>5. ASSUME NEW r \in Requests, Refuse(r) PROVE Types'
  <2>1. metrics' \in [Counters -> Nat]
    BY <1>5, AddType DEF Refuse, Counters
  <2> QED BY <1>5, <2>1, FinishTypes, SizeIsNat DEF Refuse, Free, Answers
<1>6. ASSUME NEW r \in Requests, Send(r) PROVE Types'
  BY <1>6, GotoTypes, InSeqAppend DEF Send, InProgress
<1>7. ASSUME NEW r \in Requests, CancelSend(r) PROVE Types'
  BY <1>7, GotoTypes DEF CancelSend, InProgress
<1>8. ASSUME NEW r \in Requests, Abandon(r) PROVE Types'
  BY <1>8, FinishTypes, SizeIsNat DEF Abandon, Free, Answers
<1>9. ASSUME NEW r \in Requests, Await(r) PROVE Types'
  BY <1>9, FinishTypes DEF Await, Verdict, Answers
<1>10. ASSUME NEW r \in Requests, Leave(r) PROVE Types'
  BY <1>10, FinishTypes DEF Leave, Answers
<1>11. CASE Dequeue
  <2>1. queue' \in Seq(Requests) /\ batches' \in Seq(Requests) /\ batches' # <<>>
    BY <1>11, InSeqHeadTail, InSeqAppend DEF Dequeue
  <2>2. eventCount' \in Nat
    BY <1>11, InSeqHeadTail, SizeIsNat DEF Dequeue
  <2>3. run' \in {"select", "save"}
    BY <1>11 DEF Dequeue
  <2> QED BY <1>11, <2>1, <2>2, <2>3 DEF Dequeue
<1>12. CASE Tick
  BY <1>12 DEF Tick
<1>13. CASE Drain
  BY <1>13 DEF Drain, AfterDrain
<1>14. CASE SaveOk
  <2>1. store' \in [Keys -> Events \union {NoEvent}]
    BY <1>14, InsertedRows DEF SaveOk
  <2>2. committed' \subseteq Requests
    BY <1>14, InSeqType DEF SaveOk
  <2>3. metrics' \in [Counters -> Nat]
    <3>1. Len(batches) \in Nat /\ "persisted" \in Counters
      BY DEF Counters
    <3> QED BY <1>14, <3>1, AddType DEF SaveOk
  <2> QED BY <1>14, <2>1, <2>2, <2>3 DEF SaveOk
<1>23. CASE CountSaved
  <2>1. metrics' \in [Counters -> Nat]
    <3>1. EventsOf(InSeq(batches)) \in Nat /\ "eventsPersisted" \in Counters
      BY ItemsFinite, InSeqType DEF Counters
    <3> QED BY <1>23, <3>1, AddType DEF CountSaved
  <2> QED BY <1>23, <2>1 DEF CountSaved
<1>15. CASE SaveFail
  <2>1. metrics' \in [Counters -> Nat]
    <3>1. Len(batches) \in Nat /\ "storage" \in Counters
      BY DEF Counters
    <3> QED BY <1>15, <3>1, AddType DEF SaveFail, Failed
  <2> QED BY <1>15, <2>1 DEF SaveFail, Rollback
<1>16. CASE Reply
  BY <1>16, InSeqHeadTail DEF Reply
<1>17. CASE Release
  <2>1. /\ queuedEvents' \in Int /\ batches' \in Seq(Requests)
        /\ UNCHANGED <<pc, answer, result, closer, queue, returning, store, committed,
                       metrics, crashes>>
    BY <1>17, InSeqHeadTail, SizeIsNat DEF Release, Free
  <2>2. /\ eventCount' \in Nat /\ saved' \in {"none", "ok", "err"}
        /\ run' \in {"select", "reply", "exited"}
        /\ run' = "reply" => batches' # <<>>
    BY <1>17 DEF Release
  <2> QED BY <2>1, <2>2
<1>18. CASE CloseLock
  BY <1>18 DEF CloseLock
<1>19. CASE CloseQueue
  BY <1>19 DEF CloseQueue
<1>20. CASE CloseDone
  BY <1>20 DEF CloseDone
<1>21. CASE Crash
  <2>1. /\ pc' \in [Requests -> InProgress \union {"idle", "done"}]
        /\ answer' \in [Requests -> Answers]
        /\ result' \in [Requests -> {"none", "ok", "err"}]
    BY <1>21 DEF Crash, Answers
  <2>2. metrics' \in [Counters -> Nat] /\ crashes' \in 0..MaxCrashes
    BY <1>21, CrashAssumption DEF Crash
  <2>3. /\ queue' \in Seq(Requests) /\ batches' \in Seq(Requests)
        /\ queuedEvents' \in Int /\ eventCount' \in Nat
        /\ closer' = "open" /\ run' = "select" /\ saved' = "none"
    BY <1>21 DEF Crash
  <2>4. returning' \in BOOLEAN
    BY <1>21 DEF Crash
  <2>5. UNCHANGED disk
    BY <1>21 DEF Crash
  <2> QED BY <2>1, <2>2, <2>3, <2>4, <2>5
<1>22. CASE UNCHANGED vars
  BY <1>22 DEF vars
<1> QED
  BY <1>1, <1>2, <1>3, <1>4, <1>5, <1>6, <1>7, <1>8, <1>9, <1>10, <1>11, <1>12,
     <1>13, <1>14, <1>15, <1>16, <1>17, <1>18, <1>19, <1>20, <1>21, <1>22, <1>23
     DEF Next, Handler, Count, Writer, Close, Terminated

----------------------------------------------------------------------------
(* Places.                                                                 *)

LEMMA DistinctAppend ==
    ASSUME NEW s \in Seq(Requests), NEW e \in Requests, Distinct(s), e \notin InSeq(s)
    PROVE  Distinct(Append(s, e))
<1>1. /\ Len(Append(s, e)) = Len(s) + 1 /\ Len(s) \in Nat
      /\ Append(s, e)[Len(s) + 1] = e
      /\ \A i \in 1..Len(s) : Append(s, e)[i] = s[i] /\ s[i] # e
  BY DEF InSeq
<1> QED BY <1>1 DEF Distinct

LEMMA DistinctTail ==
    ASSUME NEW s \in Seq(Requests), s # <<>>, Distinct(s)
    PROVE  Distinct(Tail(s)) /\ Head(s) \notin InSeq(Tail(s))
<1>1. /\ Len(s) \in Nat \ {0} /\ Head(s) = s[1] /\ Len(Tail(s)) = Len(s) - 1
      /\ \A i \in 1..Len(Tail(s)) : Tail(s)[i] = s[i + 1]
  OBVIOUS
<1>2. ASSUME NEW i \in 1..Len(Tail(s)), NEW j \in 1..Len(Tail(s)), Tail(s)[i] = Tail(s)[j]
      PROVE  i = j
  <2>1. i + 1 \in 1..Len(s) /\ j + 1 \in 1..Len(s) /\ s[i + 1] = s[j + 1]
    BY <1>1, <1>2
  <2>2. i + 1 = j + 1
    BY <2>1 DEF Distinct
  <2> QED BY <2>2
<1>3. ASSUME NEW i \in 1..Len(Tail(s)) PROVE Tail(s)[i] # Head(s)
  <2>1. i + 1 \in 1..Len(s) /\ 1 \in 1..Len(s) /\ i + 1 # 1 /\ Tail(s)[i] = s[i + 1]
    BY <1>1
  <2> QED BY <1>1, <2>1 DEF Distinct
<1> QED BY <1>2, <1>3 DEF Distinct, InSeq

\* A step of one handler that leaves queue and batches alone: what it must
\* not do is move a handler whose batch is with the writer.
LEMMA MovePlaced ==
    ASSUME Types, Placed, NEW r \in Requests, NEW l,
           \/ pc[r] # "waiting" /\ pc[r] # "done"
           \/ l = "done",
           l \in InProgress => Size(r) >= 1,
           pc' = [pc EXCEPT ![r] = l],
           \/ l = "done" /\ \E a : a # "none" /\ answer' = [answer EXCEPT ![r] = a]
           \/ l # "done" /\ pc[r] # "done" /\ UNCHANGED answer,
           UNCHANGED <<queue, batches>>
    PROVE  Placed'
BY InSeqType DEF Types, Placed

LEMMA InitPlaced == Init => Placed /\ Ordered
<1> SUFFICES ASSUME Init PROVE Placed /\ Ordered
  OBVIOUS
<1>1. InSeq(queue) = {} /\ InSeq(batches) = {} /\ Distinct(queue) /\ Distinct(batches)
  BY InSeqEmpty DEF Init, Distinct
<1> QED BY <1>1 DEF Init, Placed, Ordered, InProgress

LEMMA NextPlaced == Types /\ Placed /\ Ordered /\ [Next]_vars => Placed'
<1> SUFFICES ASSUME Types, Placed, Ordered, [Next]_vars PROVE Placed'
  OBVIOUS
<1> USE DEF handlers, writer
<1>1. ASSUME NEW r \in Requests, Receive(r) PROVE Placed'
  <2>1. CASE Finish(r, "400")
    BY <1>1, <2>1, MovePlaced DEF Receive, AfterAdd, Finish, InProgress
  <2>2. CASE Goto(r, "counting") /\ BatchOf[r] # <<>>
    <3>1. Size(r) >= 1
      BY <2>2, BatchAssumption DEF Size
    <3> QED BY <1>1, <2>2, <3>1, MovePlaced DEF Receive, AfterAdd, Goto
  <2> QED BY <1>1, <2>1, <2>2 DEF Receive, AfterAdd
<1>2. ASSUME NEW r \in Requests, Count(r) PROVE Placed'
  <2>1. Size(r) >= 1
    BY <1>2 DEF Count, AfterAdd, CountEvents, CountBucket, Validate, Placed, InProgress
  <2> QED BY <1>2, <2>1, MovePlaced
     DEF Count, AfterAdd, CountEvents, CountBucket, Validate, Finish, Goto
<1>3. ASSUME NEW r \in Requests, Reserve(r) PROVE Placed'
  <2>1. Size(r) >= 1
    BY <1>3 DEF Reserve, Placed, InProgress
  <2> QED BY <1>3, <2>1, MovePlaced DEF Reserve, Finish, Goto
<1>4. ASSUME NEW r \in Requests, RLock(r) PROVE Placed'
  <2>1. Size(r) >= 1
    BY <1>4 DEF RLock, Placed, InProgress
  <2> QED BY <1>4, <2>1, MovePlaced DEF RLock, Goto
<1>5. ASSUME NEW r \in Requests, Refuse(r) PROVE Placed'
  BY <1>5, MovePlaced DEF Refuse, Finish, InProgress
<1>6. ASSUME NEW r \in Requests, Send(r) PROVE Placed'
  <2>1. /\ InSeq(queue') = InSeq(queue) \union {r}
        /\ batches' = batches /\ answer' = answer
        /\ pc' = [pc EXCEPT ![r] = "waiting"] /\ pc[r] = "locked"
    BY <1>6, InSeqAppend DEF Send, Goto, Types
  <2>2. r \notin InSeq(queue) /\ r \notin InSeq(batches) /\ Size(r) >= 1
    BY <2>1 DEF Placed, InProgress
  <2>3. Distinct(queue')
    BY <1>6, <2>2, DistinctAppend DEF Send, Types, Placed
  <2> QED BY <2>1, <2>2, <2>3, InSeqType DEF Types, Placed
<1>7. ASSUME NEW r \in Requests, CancelSend(r) PROVE Placed'
  <2>1. Size(r) >= 1
    BY <1>7 DEF CancelSend, Placed, InProgress
  <2> QED BY <1>7, <2>1, MovePlaced DEF CancelSend, Goto
<1>8. ASSUME NEW r \in Requests, Abandon(r) PROVE Placed'
  BY <1>8, MovePlaced DEF Abandon, Finish, InProgress
<1>9. ASSUME NEW r \in Requests, Await(r) PROVE Placed'
  <2>1. Verdict(r) # "none"
    BY DEF Verdict
  <2> QED BY <1>9, <2>1, MovePlaced DEF Await, Finish, InProgress
<1>10. ASSUME NEW r \in Requests, Leave(r) PROVE Placed'
  BY <1>10, MovePlaced DEF Leave, Finish, InProgress
<1>11. CASE Dequeue
  <2>1. /\ InSeq(queue) = {Head(queue)} \union InSeq(queue')
        /\ InSeq(batches') = InSeq(batches) \union {Head(queue)}
        /\ UNCHANGED <<pc, answer>>
    BY <1>11, InSeqHeadTail, InSeqAppend DEF Dequeue, Types
  <2>2. Distinct(queue') /\ Head(queue) \notin InSeq(queue')
    BY <1>11, DistinctTail DEF Dequeue, Types, Placed
  <2>3. Head(queue) \notin InSeq(batches) /\ Head(queue) \in Requests
    BY <1>11, <2>1, InSeqHeadTail DEF Dequeue, Types, Placed
  <2>4. Distinct(batches')
    BY <1>11, <2>3, DistinctAppend DEF Dequeue, Types, Placed
  <2> QED BY <2>1, <2>2, <2>3, <2>4 DEF Placed
<1>12. CASE Tick
  BY <1>12 DEF Tick, Placed
<1>13. CASE Drain
  BY <1>13 DEF Drain, Placed
<1>14. CASE SaveOk
  BY <1>14 DEF SaveOk, Placed
<1>21. CASE CountSaved
  BY <1>21 DEF CountSaved, Placed
<1>15. CASE SaveFail
  BY <1>15 DEF SaveFail, Placed
<1>16. CASE Reply
  BY <1>16 DEF Reply, Placed
<1>17. CASE Release
  <2>1. /\ InSeq(batches) = {Head(batches)} \union InSeq(batches')
        /\ UNCHANGED <<pc, answer, queue>>
    BY <1>17, InSeqHeadTail DEF Release, Types
  <2>2. Distinct(batches')
    BY <1>17, DistinctTail DEF Release, Types, Placed
  <2> QED BY <2>1, <2>2 DEF Placed
<1>18. CASE Close
  BY <1>18 DEF Close, CloseLock, CloseQueue, CloseDone, Placed
<1>19. CASE Crash
  <2>1. InSeq(queue') = {} /\ InSeq(batches') = {} /\ Distinct(queue') /\ Distinct(batches')
    BY <1>19, InSeqEmpty DEF Crash, Distinct
  <2>2. \A r \in Requests : pc'[r] \notin InProgress
    BY <1>19 DEF Crash, InProgress
  <2>3. \A r \in Requests : answer'[r] # "none" <=> pc'[r] = "done"
    BY <1>19 DEF Crash, Placed, InProgress
  <2> QED BY <2>1, <2>2, <2>3 DEF Placed
<1>20. CASE UNCHANGED vars
  BY <1>20 DEF vars, Placed
<1> QED
  BY <1>1, <1>2, <1>3, <1>4, <1>5, <1>6, <1>7, <1>8, <1>9, <1>10, <1>11, <1>12,
     <1>13, <1>14, <1>15, <1>16, <1>17, <1>18, <1>19, <1>20, <1>21
     DEF Next, Handler, Count, Writer, Terminated

LEMMA NextOrdered == Types /\ Placed /\ Ordered /\ [Next]_vars => Ordered'
<1> SUFFICES ASSUME Types, Placed, Ordered, [Next]_vars PROVE Ordered'
  OBVIOUS
<1> USE DEF Types, Ordered, handlers, writer
<1>1. ASSUME NEW r \in Requests, Handler(r), ~ RLock(r), ~ Send(r) PROVE Ordered'
  BY <1>1 DEF Handler, Receive, Count, AfterAdd, CountEvents, CountBucket, Validate,
              Reserve, Refuse, CancelSend, Abandon, Await,
              Leave, Finish, Goto
<1>2. ASSUME NEW r \in Requests, RLock(r) PROVE Ordered'
  BY <1>2 DEF RLock, Goto
<1>3. ASSUME NEW r \in Requests, Send(r) PROVE Ordered'
  BY <1>3 DEF Send, Goto
<1>4. CASE Dequeue
  BY <1>4 DEF Dequeue
<1>5. CASE Tick
  BY <1>5 DEF Tick
<1>6. CASE Drain
  BY <1>6 DEF Drain, AfterDrain
<1>7. CASE SaveOk \/ CountSaved \/ SaveFail \/ Reply
  BY <1>7 DEF SaveOk, CountSaved, SaveFail, Reply
<1>8. CASE Release
  BY <1>8 DEF Release
<1>9. CASE Close
  BY <1>9 DEF Close, CloseLock, CloseQueue, CloseDone, NoReaders
<1>10. CASE Crash
  BY <1>10 DEF Crash, InProgress
<1>11. CASE UNCHANGED vars
  BY <1>11 DEF vars
<1> QED
  BY <1>1, <1>2, <1>3, <1>4, <1>5, <1>6, <1>7, <1>8, <1>9, <1>10, <1>11
     DEF Next, Writer, Terminated

----------------------------------------------------------------------------
(* Verdicts.                                                               *)

LEMMA InitDecided == Init => Decided /\ AllStored
<1> SUFFICES ASSUME Init PROVE Decided /\ AllStored
  OBVIOUS
<1>1. InSeq(queue) = {} /\ InSeq(batches) = {}
  BY InSeqEmpty DEF Init
<1> QED BY <1>1 DEF Init, Decided, AllStored, Pending, Refusals

\* A step of one handler that changes only where it is and what it answers.
LEMMA MoveDecided ==
    ASSUME Types, Placed, Decided, NEW r \in Requests, NEW l, NEW a,
           pc' = [pc EXCEPT ![r] = l],
           answer' = [answer EXCEPT ![r] = a],
           l = "waiting" => result[r] # "none" \/ r \in InSeq(queue) \union InSeq(batches),
           l \notin {"waiting", "done"} => pc[r] \notin {"waiting", "done"},
           a = "202" => r \in committed,
           a \in Refusals => r \notin committed \union Pending,
           UNCHANGED <<result, queue, batches, run, saved, committed>>
    PROVE  Decided'
BY DEF Types, Decided, Pending

LEMMA NextDecided == Types /\ Placed /\ Ordered /\ Decided /\ [Next]_vars => Decided'
<1> SUFFICES ASSUME Types, Placed, Ordered, Decided, [Next]_vars PROVE Decided'
  OBVIOUS
<1> USE DEF handlers, writer, disk
<1>0. ASSUME NEW r \in Requests, pc[r] \notin {"waiting", "done"}
      PROVE  /\ r \notin committed \union Pending
             /\ answer = [answer EXCEPT ![r] = "none"]
  <2>1. answer[r] = "none"
    BY <1>0 DEF Types, Placed
  <2> QED BY <1>0, <2>1 DEF Types, Placed, Decided, Pending
<1>1. ASSUME NEW r \in Requests, Receive(r) PROVE Decided'
  <2>1. CASE Finish(r, "400")
    BY <1>0, <1>1, <2>1, MoveDecided DEF Receive, Finish, Refusals
  <2>2. CASE Goto(r, "counting")
    BY <1>0, <1>1, <2>2, MoveDecided DEF Receive, Goto, Refusals
  <2> QED BY <1>1, <2>1, <2>2 DEF Receive, AfterAdd
<1>2. ASSUME NEW r \in Requests, Count(r) PROVE Decided'
  <2>1. CASE Finish(r, "422")
    BY <1>0, <1>2, <2>1, MoveDecided
       DEF Count, CountEvents, CountBucket, Validate, Finish, Refusals
  <2>2. ASSUME NEW l \in {"bucketing", "validating", "reserve"}, Goto(r, l)
        PROVE  Decided'
    <3>1. /\ pc[r] \notin {"waiting", "done"}
          /\ UNCHANGED <<result, queue, batches, run, saved, committed>>
      BY <1>2 DEF Count, CountEvents, CountBucket, Validate
    <3>2. /\ pc' = [pc EXCEPT ![r] = l]
          /\ answer' = [answer EXCEPT ![r] = "none"]
      BY <1>0, <2>2, <3>1 DEF Goto
    <3>3. l \notin {"waiting", "done"}
      OBVIOUS
    <3> QED BY <3>1, <3>2, <3>3, MoveDecided DEF Refusals
  <2> QED BY <1>2, <2>1, <2>2 DEF Count, CountEvents, CountBucket, Validate, AfterAdd
<1>3. ASSUME NEW r \in Requests, Reserve(r) PROVE Decided'
  BY <1>0, <1>3, MoveDecided DEF Reserve, Finish, Goto, Refusals
<1>4. ASSUME NEW r \in Requests, RLock(r) PROVE Decided'
  BY <1>0, <1>4, MoveDecided DEF RLock, Goto, Refusals
<1>5. ASSUME NEW r \in Requests, Refuse(r) PROVE Decided'
  BY <1>0, <1>5, MoveDecided DEF Refuse, Finish, Refusals
<1>6. ASSUME NEW r \in Requests, Send(r) PROVE Decided'
  <2>1. /\ InSeq(queue') = InSeq(queue) \union {r}
        /\ UNCHANGED <<answer, batches, run, saved, committed, result>>
        /\ pc' = [pc EXCEPT ![r] = "waiting"] /\ pc[r] = "locked"
    BY <1>6, InSeqAppend DEF Send, Goto, Types
  <2>2. Pending' = Pending \union {r}
    BY <2>1 DEF Pending
  <2>3. answer[r] = "none" /\ result[r] = "none" /\ r \notin committed
    BY <2>1 DEF Types, Placed, Decided
  <2> QED BY <2>1, <2>2, <2>3 DEF Decided, Types, Refusals
<1>7. ASSUME NEW r \in Requests, CancelSend(r) PROVE Decided'
  BY <1>0, <1>7, MoveDecided DEF CancelSend, Goto, Refusals
<1>8. ASSUME NEW r \in Requests, Abandon(r) PROVE Decided'
  BY <1>0, <1>8, MoveDecided DEF Abandon, Finish, Refusals
<1>9. ASSUME NEW r \in Requests, Await(r) PROVE Decided'
  <2>1. Verdict(r) = "202" => r \in committed
    BY <1>9 DEF Verdict, Decided
  <2>2. Verdict(r) \in Refusals => r \notin committed \union Pending
    BY <1>9 DEF Await, Verdict, Decided, Types, Refusals
  <2> QED BY <1>9, <2>1, <2>2, MoveDecided DEF Await, Finish
<1>10. ASSUME NEW r \in Requests, Leave(r) PROVE Decided'
  BY <1>10, MoveDecided DEF Leave, Finish, Refusals
<1>11. CASE Dequeue
  <2>1. /\ InSeq(queue) = {Head(queue)} \union InSeq(queue')
        /\ InSeq(batches') = InSeq(batches) \union {Head(queue)}
        /\ run = "select" /\ run' \in {"select", "save"}
        /\ UNCHANGED <<pc, answer, result, saved, committed>>
    BY <1>11, InSeqHeadTail, InSeqAppend DEF Dequeue, Types
  <2>2. Pending' = Pending
    BY <2>1 DEF Pending
  <2> QED BY <2>1, <2>2 DEF Decided
<1>12. CASE Tick
  BY <1>12 DEF Tick, Decided, Pending
<1>13. CASE Drain
  <2>1. Pending' = Pending
    BY <1>13, InSeqEmpty DEF Drain, AfterDrain, Pending
  <2> QED BY <1>13, <2>1 DEF Drain, AfterDrain, Decided
<1>14. CASE SaveOk
  <2>1. /\ committed' = committed \union InSeq(batches) /\ saved' = "ok"
        /\ run = "save" /\ run' = "count"
        /\ UNCHANGED <<pc, answer, result, queue, batches>>
    BY <1>14 DEF SaveOk
  <2>2. Pending = InSeq(queue) \union InSeq(batches) /\ Pending' = InSeq(queue)
    BY <2>1 DEF Pending
  <2>3. InSeq(queue) \intersect InSeq(batches) = {}
        /\ \A r \in InSeq(batches) : r \in Requests /\ pc[r] \in {"waiting", "done"}
    BY InSeqType DEF Placed, Types
  <2> QED BY <2>1, <2>2, <2>3 DEF Decided
<1>21. CASE CountSaved
  <2>1. Pending' = Pending
    BY <1>21 DEF CountSaved, Pending
  <2> QED BY <1>21, <2>1 DEF CountSaved, Decided
<1>15. CASE SaveFail
  <2>1. /\ committed' = committed /\ saved' = "err"
        /\ run = "save" /\ run' = "reply"
        /\ UNCHANGED <<pc, answer, result, queue, batches>>
    BY <1>15 DEF SaveFail, Rollback
  <2>2. Pending = InSeq(queue) \union InSeq(batches) /\ Pending' = InSeq(queue)
    BY <2>1 DEF Pending
  <2>3. InSeq(batches) \subseteq Requests
    BY InSeqType DEF Types
  <2> QED BY <2>1, <2>2, <2>3 DEF Decided
<1>16. CASE Reply
  <2>1. /\ Head(batches) \in Requests /\ Head(batches) \in InSeq(batches)
        /\ result' = [result EXCEPT ![Head(batches)] = saved]
        /\ run = "reply" /\ run' = "release"
        /\ UNCHANGED <<pc, answer, queue, batches, saved, committed>>
    BY <1>16, InSeqHeadTail DEF Reply, Types
  <2>2. Pending = InSeq(queue) /\ Pending' = InSeq(queue) /\ Head(batches) \notin InSeq(queue)
    BY <2>1 DEF Pending, Placed
  <2>3. pc[Head(batches)] \in {"waiting", "done"}
    BY <2>1 DEF Placed
  <2>4. saved \in {"ok", "err"} /\ (saved = "ok" <=> Head(batches) \in committed)
    BY <2>1 DEF Decided, Types
  <2> QED BY <2>1, <2>2, <2>3, <2>4 DEF Decided, Types
<1>17. CASE Release
  <2>1. /\ Head(batches) \in Requests
        /\ InSeq(batches) = {Head(batches)} \union InSeq(batches')
        /\ run = "release"
        /\ UNCHANGED <<pc, answer, queue, result, committed>>
    BY <1>17, InSeqHeadTail DEF Release, Types
  <2>2. /\ saved' = "none" <=> run' \in {"select", "save", "exited"}
        /\ saved' # "none" => saved' = saved
        /\ run' \in {"select", "exited"} => InSeq(batches') = {}
        /\ run' \in {"select", "exited", "reply"}
    BY <1>17, InSeqEmpty DEF Release, Decided
  <2>3. Pending' = InSeq(queue) /\ Pending = InSeq(queue)
    BY <2>1, <2>2 DEF Pending
  <2>4. result[Head(batches)] # "none"
    BY <2>1 DEF Decided
  <2>5. \A r \in InSeq(batches') : r \in InSeq(batches)
    BY <2>1
  <2>6. run' \in {"count", "reply", "release"} =>
          \A r \in InSeq(batches') : saved' = "ok" <=> r \in committed'
    BY <2>1, <2>2, <2>5 DEF Decided
  <2> QED BY <2>1, <2>2, <2>3, <2>4, <2>6 DEF Decided
<1>18. CASE Close
  BY <1>18 DEF Close, CloseLock, CloseQueue, CloseDone, Decided, Pending
<1>19. CASE Crash
  <2>1. InSeq(queue') = {} /\ InSeq(batches') = {} /\ Pending' = {}
    BY <1>19, InSeqEmpty DEF Crash, Pending
  <2> QED BY <1>19, <2>1 DEF Crash, Decided, InProgress, Refusals, Types
<1>20. CASE UNCHANGED vars
  BY <1>20 DEF vars, Decided, Pending
<1> QED
  BY <1>1, <1>2, <1>3, <1>4, <1>5, <1>6, <1>7, <1>8, <1>9, <1>10, <1>11, <1>12,
     <1>13, <1>14, <1>15, <1>16, <1>17, <1>18, <1>19, <1>20, <1>21
     DEF Next, Handler, Count, Writer, Terminated

LEMMA NextStored == Types /\ AllStored /\ [Next]_vars => AllStored'
<1> SUFFICES ASSUME Types, AllStored, [Next]_vars PROVE AllStored'
  OBVIOUS
<1>1. CASE SaveOk
  <2>1. store' = Inserted(store, batches) /\ committed' = committed \union InSeq(batches)
    BY <1>1 DEF SaveOk
  <2>2. ASSUME NEW r \in committed, NEW i \in 1..Size(r)
        PROVE  store'[KeyOf[BatchOf[r][i]]] # NoEvent
    <3>1. store[KeyOf[BatchOf[r][i]]] # NoEvent
      BY DEF AllStored, Stored
    <3>2. KeyOf[BatchOf[r][i]] \in Keys
      BY BatchAssumption, EventAssumption DEF Types, Size
    <3> QED BY <2>1, <3>1, <3>2, InsertedRows DEF Types
  <2>3. ASSUME NEW n \in 1..Len(batches), NEW i \in 1..Size(batches[n])
        PROVE  store'[KeyOf[BatchOf[batches[n]][i]]] # NoEvent
    <3> DEFINE k == KeyOf[BatchOf[batches[n]][i]]
    <3>1. batches[n] \in Requests
      BY DEF Types
    <3>2. k \in Keys
      BY <3>1, BatchAssumption, EventAssumption DEF Size
    <3>3. <<n, i>> \in Places(batches, k)
      <4>1. <<n, i>> \in {n} \X (1..Size(batches[n]))
        OBVIOUS
      <4>2. <<n, i>> \in UNION {{m} \X (1..Size(batches[m])) : m \in 1..Len(batches)}
        BY <4>1
      <4> QED BY <4>2 DEF Places
    <3> QED BY <2>1, <3>2, <3>3, InsertedRows DEF Types
  <2> QED BY <2>1, <2>2, <2>3 DEF AllStored, Stored, InSeq
<1>2. CASE ~ SaveOk
  <2>1. UNCHANGED disk
    BY <1>2 DEF Next, vars, disk, Handler, Receive, Count, AfterAdd, CountEvents,
                CountBucket, Validate, Reserve, RLock, Refuse, Send,
                CancelSend, Abandon, Await, Leave, Writer, Dequeue, Tick, Drain, CountSaved,
                SaveFail, Rollback, Reply, Release, Close, CloseLock, CloseQueue, CloseDone, Crash,
                Terminated
  <2> QED BY <2>1 DEF AllStored, Stored, disk
<1> QED BY <1>1, <1>2

----------------------------------------------------------------------------
(* Sums.                                                                   *)

LEMMA EventsOfNone == EventsOf({}) = 0
BY FS_EmptySet DEF EventsOf, ItemsOf

LEMMA EventsOfMore ==
    ASSUME NEW R \in SUBSET Requests, NEW r \in Requests, r \notin R
    PROVE  EventsOf(R \union {r}) = EventsOf(R) + Size(r)
<1>1. ItemsOf(R \union {r}) = ItemsOf(R) \union Items(r)
  BY DEF ItemsOf
<1>2. ItemsOf(R) \intersect Items(r) = {}
  BY DEF ItemsOf, Items
<1>3. IsFiniteSet(ItemsOf(R)) /\ Cardinality(ItemsOf(R)) \in Nat
  BY ItemsFinite DEF EventsOf
<1>4. IsFiniteSet(Items(r)) /\ Cardinality(Items(r)) = Size(r)
  BY ItemsCount
<1>5. Cardinality(ItemsOf(R) \union Items(r))
        = Cardinality(ItemsOf(R)) + Cardinality(Items(r)) - Cardinality({})
  BY <1>2, <1>3, <1>4, FS_Union
<1>6. Cardinality({}) = 0 /\ Size(r) \in Nat
  BY FS_EmptySet, SizeIsNat
<1>7. Cardinality(ItemsOf(R) \union Items(r)) = Cardinality(ItemsOf(R)) + Size(r)
  BY <1>3, <1>4, <1>5, <1>6
<1>8. Cardinality(ItemsOf(R \union {r})) = Cardinality(ItemsOf(R)) + Size(r)
  BY <1>1, <1>7
<1> QED BY <1>8 DEF EventsOf

LEMMA EventsOfFewer ==
    ASSUME NEW R \in SUBSET Requests, NEW Q \in SUBSET R
    PROVE  EventsOf(Q) <= EventsOf(R)
<1>1. ItemsOf(Q) \subseteq ItemsOf(R)
  BY DEF ItemsOf
<1> QED BY <1>1, ItemsFinite, FS_Subset DEF EventsOf

LEMMA HoldersType == Types => Holders \subseteq Requests
BY InSeqType DEF Types, Holders

LEMMA InitCounted == Init => Counted
<1> SUFFICES ASSUME Init PROVE Counted
  OBVIOUS
<1>1. InSeq(queue) = {} /\ InSeq(batches) = {}
  BY InSeqEmpty DEF Init
<1>2. Holders = {}
  BY <1>1 DEF Init, Holders
<1>3. queuedEvents = 0 /\ eventCount = 0 /\ 0 < Capacity
  BY CapacityAssumption DEF Init
<1> QED BY <1>1, <1>2, <1>3, EventsOfNone, CapacityAssumption DEF Counted

LEMMA NextCounted == Types /\ Placed /\ Counted /\ [Next]_vars => Counted'
<1> SUFFICES ASSUME Types, Placed, Counted, [Next]_vars PROVE Counted'
  OBVIOUS
<1> USE CapacityAssumption DEF handlers, writer, disk
<1>0. /\ Holders \subseteq Requests /\ Holders' \subseteq Requests
      /\ InSeq(queue) \subseteq Requests /\ InSeq(batches) \subseteq Requests
      /\ Types'
  <2>1. Types'
    BY NextTypes
  <2>2. InSeq(queue') \subseteq Requests /\ InSeq(batches') \subseteq Requests
    BY <2>1, InSeqType DEF Types
  <2> QED BY <2>1, <2>2, HoldersType, InSeqType DEF Types, Holders
<1>1. ASSUME NEW r \in Requests, Receive(r) \/ Count(r) \/ RLock(r) \/ CancelSend(r)
                                 \/ Await(r) \/ Leave(r)
      PROVE  Counted'
  <2>1. /\ UNCHANGED <<queuedEvents, queue, run, batches, eventCount>>
        /\ \E l : /\ pc' = [pc EXCEPT ![r] = l]
                  /\ l \in {"rlock", "locked", "refused", "abandoned"}
                       <=> pc[r] \in {"rlock", "locked", "refused", "abandoned"}
    BY <1>1 DEF Receive, Count, AfterAdd, CountEvents, CountBucket, Validate, RLock,
                CancelSend, Await, Leave, Finish, Goto
  <2>2. Holders' = Holders
    BY <2>1 DEF Holders, Types
  <2> QED BY <2>1, <2>2 DEF Counted
<1>2. ASSUME NEW r \in Requests, Reserve(r) PROVE Counted'
  <2>1. CASE ~ Fits(r)
    <3>1. Holders' = Holders
      BY <1>2, <2>1 DEF Reserve, Finish, Holders, Types
    <3> QED BY <1>2, <2>1, <3>1 DEF Reserve, Counted
  <2>2. CASE Fits(r)
    <3>1. Holders' = Holders \union {r} /\ r \notin Holders
      BY <1>2, <2>2 DEF Reserve, Goto, Holders, Types, Placed
    <3>2. queuedEvents' = queuedEvents + Size(r) /\ queuedEvents' <= Capacity
      BY <1>2, <2>2, SizeIsNat DEF Reserve, Fits, Types
    <3> QED BY <1>0, <1>2, <3>1, <3>2, EventsOfMore DEF Reserve, Counted
  <2> QED BY <2>1, <2>2
<1>3. ASSUME NEW r \in Requests, Refuse(r) \/ Abandon(r) PROVE Counted'
  <2>1. /\ queuedEvents' = queuedEvents - Size(r)
        /\ UNCHANGED <<queue, run, batches, eventCount>>
        /\ pc[r] \in {"refused", "abandoned"} /\ pc' = [pc EXCEPT ![r] = "done"]
    BY <1>3 DEF Refuse, Abandon, Free, Finish
  <2>2. Holders = Holders' \union {r} /\ r \notin Holders'
    BY <2>1 DEF Holders, Types, Placed
  <2>3. EventsOf(Holders) = EventsOf(Holders') + Size(r)
    BY <1>0, <2>2, EventsOfMore
  <2> QED BY <1>0, <2>1, <2>3, SizeIsNat, ItemsFinite DEF Counted
<1>4. ASSUME NEW r \in Requests, Send(r) PROVE Counted'
  <2>1. /\ InSeq(queue') = InSeq(queue) \union {r}
        /\ UNCHANGED <<queuedEvents, run, batches, eventCount>>
        /\ pc' = [pc EXCEPT ![r] = "waiting"] /\ pc[r] = "locked"
    BY <1>4, InSeqAppend DEF Send, Goto, Types
  <2>2. Holders' = Holders
    BY <2>1 DEF Holders, Types
  <2> QED BY <2>1, <2>2 DEF Counted
<1>5. CASE Dequeue
  <2>1. /\ InSeq(queue) = {Head(queue)} \union InSeq(queue') /\ Head(queue) \in Requests
        /\ InSeq(batches') = InSeq(batches) \union {Head(queue)}
        /\ run = "select" /\ UNCHANGED <<pc, queuedEvents>>
        /\ eventCount' = eventCount + Size(Head(queue))
        /\ run' = IF eventCount' >= Capacity THEN "save" ELSE "select"
    BY <1>5, InSeqHeadTail, InSeqAppend DEF Dequeue, Types, Full
  <2>2. Holders' = Holders
    BY <2>1 DEF Holders
  <2>3. eventCount' = EventsOf(InSeq(batches'))
    BY <1>0, <2>1, EventsOfMore DEF Counted, Placed
  <2>4. InSeq(batches') \subseteq Holders'
    BY DEF Holders
  <2>5. eventCount' <= queuedEvents'
    BY <1>0, <2>1, <2>2, <2>3, <2>4, EventsOfFewer DEF Counted
  <2>6. eventCount' \in Nat /\ queuedEvents' \in Int /\ queuedEvents' <= Capacity
    BY <1>0, <2>1 DEF Types, Counted
  <2>7. eventCount' <= Capacity /\ (run' = "select" => eventCount' < Capacity)
    BY <2>1, <2>5, <2>6
  <2> QED BY <2>1, <2>2, <2>3, <2>6, <2>7 DEF Counted
<1>6. CASE Tick \/ Drain \/ SaveOk \/ CountSaved \/ SaveFail \/ Reply
  <2>1. /\ UNCHANGED <<pc, queuedEvents, queue, batches, eventCount>>
        /\ run' \in {"save", "exited", "count", "reply", "release"}
        /\ run' = "save" => run = "select"
    BY <1>6 DEF Tick, Drain, AfterDrain, SaveOk, CountSaved, SaveFail, Reply
  <2>2. Holders' = Holders
    BY <2>1 DEF Holders
  <2> QED BY <2>1, <2>2 DEF Counted
<1>7. CASE Release
  <2>1. /\ Head(batches) \in Requests
        /\ InSeq(batches) = {Head(batches)} \union InSeq(batches')
        /\ Head(batches) \notin InSeq(batches')
        /\ queuedEvents' = queuedEvents - Size(Head(batches))
        /\ UNCHANGED <<pc, queue>>
    BY <1>7, InSeqHeadTail, DistinctTail DEF Release, Free, Types, Placed
  <2>2. Holders = Holders' \union {Head(batches)} /\ Head(batches) \notin Holders'
    BY <2>1 DEF Holders, Placed
  <2>3. queuedEvents' = EventsOf(Holders') /\ queuedEvents' <= Capacity
    BY <1>0, <2>1, <2>2, EventsOfMore, SizeIsNat, ItemsFinite DEF Counted
  <2>4. CASE Tail(batches) # <<>>
    BY <1>7, <2>3, <2>4 DEF Release, Counted
  <2>5. CASE Tail(batches) = <<>>
    <3>1. batches' = <<>> /\ eventCount' = 0
      BY <1>7, <2>5 DEF Release
    <3>2. EventsOf(InSeq(batches')) = 0
      BY <3>1, InSeqEmpty, EventsOfNone
    <3> QED BY <2>3, <3>1, <3>2 DEF Counted
  <2> QED BY <2>4, <2>5
<1>8. CASE Close
  <2>1. UNCHANGED <<pc, queuedEvents, queue, run, batches, eventCount>>
    BY <1>8 DEF Close, CloseLock, CloseQueue, CloseDone
  <2> QED BY <2>1 DEF Counted, Holders
<1>9. CASE Crash
  <2>1. InSeq(queue') = {} /\ InSeq(batches') = {}
    BY <1>9, InSeqEmpty DEF Crash
  <2>2. Holders' = {}
    BY <1>9, <2>1 DEF Crash, Holders, InProgress
  <2>3. queuedEvents' = 0 /\ eventCount' = 0 /\ 0 < Capacity
    BY <1>9 DEF Crash
  <2> QED BY <2>1, <2>2, <2>3, EventsOfNone DEF Counted
<1>10. CASE UNCHANGED vars
  BY <1>10 DEF vars, Counted, Holders
<1> QED
  BY <1>1, <1>2, <1>3, <1>4, <1>5, <1>6, <1>7, <1>8, <1>9, <1>10
     DEF Next, Handler, Count, Writer, Terminated

----------------------------------------------------------------------------
(* Theorems.                                                               *)

\* The inductive invariant.
IInv == Types /\ Placed /\ Ordered /\ Decided /\ AllStored /\ Counted

\* Every reachable state satisfies the inductive invariant: the ingest
\* handlers, the writer, Close and kills preserve all its layers.
THEOREM CollectorInvariant == Spec => []IInv
<1>1. Init => IInv
  BY InitTypes, InitPlaced, InitDecided, InitCounted DEF IInv
<1>2. IInv /\ [Next]_vars => IInv'
  BY NextTypes, NextPlaced, NextOrdered, NextDecided, NextStored, NextCounted DEF IInv
<1> QED BY <1>1, <1>2, PTL DEF Spec

\* Each variable of the Collector keeps its type, and reserve never admits
\* more than Capacity events, however handlers, writer and kills interleave.
THEOREM CollectorTypes == Spec => []TypeOK
<1>1. IInv => TypeOK
  <2>1. SUFFICES ASSUME IInv PROVE TypeOK
    OBVIOUS
  <2>2. queuedEvents \in 0..Capacity
    BY <2>1, ItemsFinite, HoldersType, CapacityAssumption DEF IInv, Types, Counted
  <2>3. eventCount \in 0..Capacity
    BY <2>1, CapacityAssumption DEF IInv, Types, Counted
  <2> QED BY <2>1, <2>2, <2>3 DEF IInv, Types, TypeOK
<1> QED BY <1>1, CollectorInvariant, PTL

\* A 202 of ingest always stands for a committed transaction and a row under
\* the key of each event of the batch.
THEOREM CollectorDurability == Spec => []AcceptedIsDurable
<1>1. IInv => AcceptedIsDurable
  BY DEF IInv, Decided, AllStored, AcceptedIsDurable
<1> QED BY <1>1, CollectorInvariant, PTL

\* An error answer of ingest always stands for a batch no transaction
\* commits.
THEOREM CollectorRefusal == Spec => []RefusedIsNotPersisted
<1>1. IInv => RefusedIsNotPersisted
  BY DEF IInv, Decided, RefusedIsNotPersisted
<1> QED BY <1>1, CollectorInvariant, PTL

\* reserve and release balance: queuedEvents is always the number of events
\* of the batches that hold a reservation.
THEOREM CollectorReservation == Spec => []ReservationConserved
<1>1. IInv => ReservationConserved
  BY DEF IInv, Counted, ReservationConserved
<1> QED BY <1>1, CollectorInvariant, PTL

\* A channel of Capacity places has room for every batch reserve admits: the
\* queued batches and the sender's own have an item each.
LEMMA RoomForSender ==
    ASSUME IInv, NEW r \in Requests, pc[r] = "locked"
    PROVE  Len(queue) < Capacity
<1> DEFINE n == Len(queue)
           f == [i \in 1..(n + 1) |-> IF i <= n THEN <<queue[i], 1>> ELSE <<r, 1>>]
<1>1. n \in Nat /\ Holders \subseteq Requests
  BY HoldersType DEF IInv, Types
<1>2. r \notin InSeq(queue) /\ r \in Holders /\ Size(r) >= 1
  BY DEF IInv, Placed, Holders, InProgress
<1>3. \A i \in 1..n : queue[i] \in Holders /\ queue[i] # r /\ Size(queue[i]) >= 1
  BY <1>2 DEF IInv, Placed, Holders, InSeq
<1>4. \A h \in Holders : Size(h) >= 1 => <<h, 1>> \in ItemsOf(Holders)
  <2>1. SUFFICES ASSUME NEW h \in Holders, Size(h) >= 1
                 PROVE  <<h, 1>> \in ItemsOf(Holders)
    OBVIOUS
  <2>2. 1 \in 1..Size(h)
    BY <1>1, <2>1, SizeIsNat
  <2>3. <<h, 1>> \in Items(h)
    BY <2>2 DEF Items
  <2> QED BY <2>3 DEF ItemsOf
<1>5. f \in [1..(n + 1) -> ItemsOf(Holders)]
  <2>1. ASSUME NEW i \in 1..(n + 1)
        PROVE  (IF i <= n THEN <<queue[i], 1>> ELSE <<r, 1>>) \in ItemsOf(Holders)
    <3>1. CASE i <= n
      <4>1. i \in 1..n
        BY <1>1, <3>1
      <4> QED BY <1>3, <1>4, <3>1, <4>1
    <3>2. CASE ~ (i <= n)
      BY <1>2, <1>4, <3>2
    <3> QED BY <3>1, <3>2
  <2> QED BY <2>1
<1>6. \A i, j \in 1..(n + 1) : f[i] = f[j] => i = j
  <2>1. SUFFICES ASSUME NEW i \in 1..(n + 1), NEW j \in 1..(n + 1), f[i] = f[j]
                 PROVE  i = j
    OBVIOUS
  <2>2. f[i] = (IF i <= n THEN <<queue[i], 1>> ELSE <<r, 1>>)
        /\ f[j] = (IF j <= n THEN <<queue[j], 1>> ELSE <<r, 1>>)
    OBVIOUS
  <2>3. CASE i \in 1..n /\ j \in 1..n
    <3>1. queue[i] = queue[j]
      BY <1>1, <2>1, <2>2, <2>3
    <3> QED BY <2>3, <3>1 DEF IInv, Placed, Distinct
  <2>4. CASE i = n + 1 /\ j = n + 1
    BY <2>4
  <2>5. CASE i \in 1..n /\ j = n + 1
    BY <1>1, <1>3, <2>1, <2>2, <2>5
  <2>6. CASE i = n + 1 /\ j \in 1..n
    BY <1>1, <1>3, <2>1, <2>2, <2>6
  <2> QED BY <1>1, <2>3, <2>4, <2>5, <2>6
<1>7. f \in Injection(1..(n + 1), ItemsOf(Holders))
  <2> HIDE DEF f
  <2> QED BY <1>5, <1>6 DEF Injection, IsInjective
<1>8. Cardinality(1..(n + 1)) <= EventsOf(Holders)
  <2> HIDE DEF f
  <2> QED BY <1>1, <1>7, ItemsFinite, FS_Injection DEF EventsOf
<1>9. Cardinality(1..(n + 1)) = n + 1
  BY <1>1, FS_Interval
<1> QED BY <1>1, <1>8, <1>9, ItemsFinite, CapacityAssumption DEF IInv, Counted

\* The send of ingest finds the channel open, its reader alive and a place
\* free whenever a handler holds the read lock.
THEOREM CollectorSend == Spec => []SendIsReady
<1>1. IInv => SendIsReady
  BY RoomForSender DEF IInv, Ordered, SendIsReady
<1> QED BY <1>1, CollectorInvariant, PTL

\* The writer returns only after the queue and its pending batches are empty
\* and every handler that waits has a verdict.
THEOREM CollectorDrain == Spec => []DrainedAtExit
<1>1. IInv => DrainedAtExit
  BY InSeqEmpty DEF IInv, Ordered, Decided, DrainedAtExit
<1> QED BY <1>1, CollectorInvariant, PTL

\* The writer waits for more only below its flush size, and knows it.
THEOREM CollectorFlush == Spec => []FlushIsPrompt
<1>1. IInv => FlushIsPrompt
  BY DEF IInv, Counted, FlushIsPrompt
<1> QED BY <1>1, CollectorInvariant, PTL

\* No step of the Collector replaces a row (INSERT OR IGNORE).
THEOREM CollectorKeepsFirst == Spec => FirstEventIsKept
<1>1. Types /\ [Next]_vars => [\A k \in Keys : store[k] # NoEvent => store'[k] = store[k]]_vars
  <2>1. SUFFICES ASSUME Types, Next
                 PROVE  \A k \in Keys : store[k] # NoEvent => store'[k] = store[k]
    OBVIOUS
  <2>2. CASE SaveOk
    BY <2>1, <2>2, InsertedRows DEF SaveOk, Types
  <2>3. CASE ~ SaveOk
    BY <2>1, <2>3 DEF Next, vars, disk, Handler, Receive, Count, AfterAdd, CountEvents,
                      CountBucket, Validate, Reserve, RLock, Refuse, Send,
                CancelSend, Abandon, Await, Leave, Writer, Dequeue, Tick, Drain, CountSaved,
                SaveFail, Rollback, Reply, Release, Close, CloseLock, CloseQueue, CloseDone, Crash,
                Terminated
  <2> QED BY <2>2, <2>3
<1>2. IInv => Types
  BY DEF IInv
<1> QED BY <1>1, <1>2, CollectorInvariant, PTL DEF Spec, FirstEventIsKept

----------------------------------------------------------------------------
(* The contract.                                                           *)

\* The save of a flush is one commit of all its batches.
LEMMA SaveCommits ==
    ASSUME IInv, SaveOk
    PROVE  Contract!Commit(InSeq(batches))
<1>1. /\ store' = Inserted(store, batches)
      /\ committed' = committed \union InSeq(batches)
      /\ answer' = answer /\ run = "save"
  BY DEF SaveOk, handlers
<1>2. \A r \in InSeq(batches) : r \notin committed /\ answer[r] \in {"none", "gone"}
  <2>1. InSeq(batches) \subseteq Requests
    BY InSeqType DEF IInv, Types
  <2>2. ASSUME NEW r \in InSeq(batches)
        PROVE  r \notin committed /\ answer[r] \in {"none", "gone"}
    <3>1. r \in Requests /\ r \in Pending /\ answer[r] \in Answers
      BY <1>1, <2>1 DEF Pending, IInv, Types
    <3> QED BY <3>1 DEF IInv, Decided, Answers, Refusals
  <2> QED BY <2>2
<1>3. store' \in [Keys -> Events \union {NoEvent}]
  BY <1>1, InsertedRows DEF IInv, Types
<1>4. ASSUME NEW k \in Keys
      PROVE  LET new == {e \in Contract!Carried(InSeq(batches)) : KeyOf[e] = k}
             IN  store'[k] \in IF store[k] # NoEvent \/ new = {} THEN {store[k]} ELSE new
  <2> DEFINE new == {e \in Contract!Carried(InSeq(batches)) : KeyOf[e] = k}
  <2>1. \A p \in Places(batches, k) : BatchOf[batches[p[1]]][p[2]] \in new
    <3>1. SUFFICES ASSUME NEW p \in Places(batches, k)
                   PROVE  BatchOf[batches[p[1]]][p[2]] \in new
      OBVIOUS
    <3>2. PICK i \in 1..Len(batches) : p \in {i} \X (1..Size(batches[i]))
      BY DEF Places
    <3>3. p[1] = i /\ p[2] \in 1..Len(BatchOf[batches[i]]) /\ batches[i] \in InSeq(batches)
      BY <3>2 DEF Size, InSeq
    <3>4. BatchOf[batches[p[1]]][p[2]] \in Contract!Carried(InSeq(batches))
      BY <3>3 DEF Contract!Carried
    <3>5. KeyOf[BatchOf[batches[p[1]]][p[2]]] = k
      BY DEF Places
    <3> QED BY <3>4, <3>5
  <2>2. new # {} => Places(batches, k) # {}
    <3>1. SUFFICES ASSUME NEW e \in new PROVE Places(batches, k) # {}
      OBVIOUS
    <3>2. PICK r \in InSeq(batches) : e \in {BatchOf[r][i] : i \in 1..Len(BatchOf[r])}
      BY <3>1 DEF Contract!Carried
    <3>3. PICK j \in 1..Len(BatchOf[r]) : e = BatchOf[r][j]
      BY <3>2
    <3>4. PICK i \in 1..Len(batches) : r = batches[i]
      BY DEF InSeq
    <3>5. <<i, j>> \in {i} \X (1..Size(batches[i]))
      BY <3>3, <3>4 DEF Size
    <3>6. <<i, j>> \in UNION {{m} \X (1..Size(batches[m])) : m \in 1..Len(batches)}
      BY <3>5
    <3> QED BY <3>1, <3>3, <3>4, <3>6 DEF Places
  <2>3. CASE store[k] # NoEvent
    BY <1>1, <2>3, InsertedRows DEF IInv, Types
  <2>4. CASE store[k] = NoEvent /\ Places(batches, k) = {}
    <3>1. new = {}
      <4> HIDE DEF new
      <4> QED BY <2>2, <2>4
    <3>2. store'[k] = store[k]
      BY <1>1, <2>4 DEF Inserted
    <3> QED BY <3>1, <3>2
  <2>5. CASE store[k] = NoEvent /\ Places(batches, k) # {}
    <3>1. Places(batches, k) \in SUBSET (Nat \X Nat)
      BY DEF Places
    <3>2. PICK p \in Places(batches, k) : \A q \in Places(batches, k) : Before(p, q)
      BY <2>5, <3>1, FirstPlace
    <3> DEFINE first == CHOOSE q \in Places(batches, k) :
                          \A x \in Places(batches, k) : Before(q, x)
    <3>3. first \in Places(batches, k)
      BY <3>2
    <3>4. store'[k] = BatchOf[batches[first[1]]][first[2]]
      BY <1>1, <2>5 DEF Inserted
    <3>5. store'[k] \in new
      <4> HIDE DEF new, first
      <4> QED BY <2>1, <3>3, <3>4
    <3> QED BY <2>5, <3>5
  <2> QED BY <2>3, <2>4, <2>5
<1> QED BY <1>1, <1>2, <1>3, <1>4 DEF Contract!Commit

\* What a handler tells its client is an answer of the contract.
LEMMA FinishRefuses ==
    ASSUME IInv, NEW r \in Requests, pc[r] \notin {"waiting", "done"},
           NEW a \in {"400", "422", "overload", "closing", "dropped"},
           Finish(r, a), UNCHANGED disk
    PROVE  Contract!Refuse(r)
<1>1. answer[r] = "none" /\ r \notin committed
  BY DEF IInv, Placed, Decided, Types
<1> QED BY <1>1 DEF Finish, Contract!Refuse, Contract!Tell, disk

LEMMA AwaitTells ==
    ASSUME IInv, NEW r \in Requests, Await(r)
    PROVE  Contract!Accept(r) \/ Contract!Refuse(r)
<1>1. /\ answer' = [answer EXCEPT ![r] = Verdict(r)] /\ result[r] # "none"
      /\ pc[r] = "waiting" /\ UNCHANGED disk
  BY DEF Await, Finish
<1>2. answer[r] = "none"
  BY <1>1 DEF IInv, Placed
<1>3. CASE result[r] = "ok"
  BY <1>1, <1>2, <1>3 DEF IInv, Decided, Verdict, Contract!Accept, Contract!Tell, disk
<1>4. CASE result[r] = "err"
  BY <1>1, <1>2, <1>4 DEF IInv, Decided, Verdict, Contract!Refuse, Contract!Tell, disk
<1> QED BY <1>1, <1>3, <1>4 DEF IInv, Types

\* A client that leaves, and all those a kill leaves without an answer.
LEMMA LeaveCutsOff ==
    ASSUME IInv, NEW r \in Requests, Leave(r)
    PROVE  Contract!CutOff({r})
<1>1. answer' = [answer EXCEPT ![r] = "gone"] /\ pc[r] = "waiting" /\ UNCHANGED disk
  BY DEF Leave, Finish
<1>2. answer[r] = "none"
  BY <1>1 DEF IInv, Placed
<1> QED BY <1>1, <1>2 DEF IInv, Types, Contract!CutOff, disk

LEMMA CrashCutsOff ==
    ASSUME IInv, Crash
    PROVE  Contract!CutOff({r \in Requests : pc[r] \in InProgress})
<1>1. \A r \in Requests : pc[r] \in InProgress => answer[r] = "none"
  BY DEF IInv, Placed, InProgress
<1> QED BY <1>1 DEF Crash, Contract!CutOff, disk

\* The Collector implements the contract of its clients: every step of
\* handlers, writer, Close and kills is a step of IngestContract or none.
THEOREM CollectorContract == Spec => ImplementsContract
<1>1. Init => Contract!Init
  BY DEF Init, Contract!Init
<1>2. IInv /\ [Next]_vars => [Contract!Next]_(Contract!cvars)
  <2> SUFFICES ASSUME IInv, [Next]_vars PROVE [Contract!Next]_(Contract!cvars)
    OBVIOUS
  <2> USE DEF Contract!cvars, handlers, disk
  <2>1. ASSUME NEW r \in Requests, Contract!Refuse(r) \/ Contract!Accept(r)
        PROVE  Contract!Next
    BY <2>1 DEF Contract!Next
  <2>2. ASSUME NEW R \in SUBSET Requests, Contract!Commit(R) \/ Contract!CutOff(R)
        PROVE  Contract!Next
    BY <2>2 DEF Contract!Next
  <2>3. ASSUME NEW r \in Requests, Receive(r) PROVE [Contract!Next]_(Contract!cvars)
    <3>1. CASE Finish(r, "400")
      BY <2>1, <2>3, <3>1, FinishRefuses DEF Receive, AfterAdd
    <3>2. CASE Goto(r, "counting")
      BY <2>3, <3>2 DEF Receive, AfterAdd, Goto
    <3> QED BY <2>3, <3>1, <3>2 DEF Receive, AfterAdd
  <2>4. ASSUME NEW r \in Requests, Count(r) PROVE [Contract!Next]_(Contract!cvars)
    <3>1. CASE Finish(r, "422")
      BY <2>1, <2>4, <3>1, FinishRefuses DEF Count, CountEvents, CountBucket, Validate
    <3>2. CASE UNCHANGED answer
      BY <2>4, <3>2 DEF Count, CountEvents, CountBucket, Validate
    <3> QED BY <2>4, <3>1, <3>2 DEF Count, CountEvents, CountBucket, Validate, Goto
  <2>5. ASSUME NEW r \in Requests, Reserve(r) PROVE [Contract!Next]_(Contract!cvars)
    <3>1. CASE Finish(r, "overload")
      BY <2>1, <2>5, <3>1, FinishRefuses DEF Reserve
    <3>2. CASE Goto(r, "rlock")
      BY <2>5, <3>2 DEF Reserve, Goto
    <3> QED BY <2>5, <3>1, <3>2 DEF Reserve
  <2>6. ASSUME NEW r \in Requests, RLock(r) \/ Send(r) \/ CancelSend(r)
        PROVE  [Contract!Next]_(Contract!cvars)
    BY <2>6 DEF RLock, Send, CancelSend, Goto
  <2>7. ASSUME NEW r \in Requests, Refuse(r) PROVE [Contract!Next]_(Contract!cvars)
    BY <2>1, <2>7, FinishRefuses DEF Refuse
  <2>8. ASSUME NEW r \in Requests, Abandon(r) PROVE [Contract!Next]_(Contract!cvars)
    BY <2>1, <2>8, FinishRefuses DEF Abandon
  <2>9. ASSUME NEW r \in Requests, Await(r) PROVE [Contract!Next]_(Contract!cvars)
    BY <2>1, <2>9, AwaitTells
  <2>10. ASSUME NEW r \in Requests, Leave(r) PROVE [Contract!Next]_(Contract!cvars)
    <3>1. {r} \in SUBSET Requests /\ Contract!CutOff({r})
      BY <2>10, LeaveCutsOff
    <3> QED BY <2>2, <3>1
  <2>11. CASE SaveOk
    <3>1. InSeq(batches) \in SUBSET Requests
      BY InSeqType DEF IInv, Types
    <3> QED BY <2>2, <2>11, <3>1, SaveCommits
  <2>12. CASE Dequeue \/ Tick \/ Drain \/ CountSaved \/ SaveFail \/ Reply \/ Release
    BY <2>12 DEF Dequeue, Tick, Drain, CountSaved, SaveFail, Rollback, Reply, Release
  <2>13. CASE Close
    BY <2>13 DEF Close, CloseLock, CloseQueue, CloseDone
  <2>14. CASE Crash
    BY <2>2, <2>14, CrashCutsOff
  <2>15. CASE UNCHANGED vars
    BY <2>15 DEF vars
  <2> QED
    BY <2>3, <2>4, <2>5, <2>6, <2>7, <2>8, <2>9, <2>10, <2>11, <2>12, <2>13, <2>14, <2>15
       DEF Next, Handler, Count, Writer, Terminated
<1> QED BY <1>1, <1>2, CollectorInvariant, PTL DEF Spec, ImplementsContract, Contract!Spec

=============================================================================
