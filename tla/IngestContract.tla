--------------------------- MODULE IngestContract ---------------------------
(***************************************************************************)
(* What POST /v1/events promises: batches become durable all together or   *)
(* not at all, a client that reads 202 is told of a durable batch, and one *)
(* that reads an error of a batch that never will be.  A client that goes  *)
(* away, or that a kill cuts off, knows nothing.                           *)
(***************************************************************************)
EXTENDS Naturals, Sequences

CONSTANTS Requests, Events, Keys, NoEvent, KeyOf, BatchOf

VARIABLES answer, store, committed

cvars == <<answer, store, committed>>

Carried(R) == UNION {{BatchOf[r][i] : i \in 1..Len(BatchOf[r])} : r \in R}

Init == /\ answer = [r \in Requests |-> "none"]
        /\ store = [k \in Keys |-> NoEvent]
        /\ committed = {}

\* One transaction makes some batches durable: every key they carry gets a
\* row, one of their events where there was none, and no row changes.
Commit(R) ==
    /\ \A r \in R : r \notin committed /\ answer[r] \in {"none", "gone"}
    /\ committed' = committed \union R
    /\ store' \in [Keys -> Events \union {NoEvent}]
    /\ \A k \in Keys :
         LET new == {e \in Carried(R) : KeyOf[e] = k}
         IN  store'[k] \in IF store[k] # NoEvent \/ new = {} THEN {store[k]} ELSE new
    /\ UNCHANGED answer

Tell(r, a) == /\ answer[r] = "none"
              /\ answer' = [answer EXCEPT ![r] = a]
              /\ UNCHANGED <<store, committed>>

Accept(r) == r \in committed /\ Tell(r, "202")

Refuse(r) == /\ r \notin committed
             /\ \E a \in {"400", "422", "overload", "closing", "storage", "dropped"} :
                  Tell(r, a)

\* Any number of clients are cut off at once.
CutOff(R) == /\ \A r \in R : answer[r] = "none"
             /\ answer' = [r \in Requests |-> IF r \in R THEN "gone" ELSE answer[r]]
             /\ UNCHANGED <<store, committed>>

Next == \/ \E R \in SUBSET Requests : Commit(R) \/ CutOff(R)
        \/ \E r \in Requests : Accept(r) \/ Refuse(r)

Spec == Init /\ [][Next]_cvars

=============================================================================
