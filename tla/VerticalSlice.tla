--------------------------- MODULE VerticalSlice ---------------------------
(***************************************************************************)
(* Record, reconstruct, replay: the traces that Recording leaves in the    *)
(* store are read back by GetTrace and served by the mock server of        *)
(* ReplayServer.  Bound: a replay starts when the recording's time is over *)
(* and every Record has returned without an error; a failed one only takes *)
(* a row away, as a payment that fails does here.                          *)
(***************************************************************************)
EXTENDS Recording, ReplayServer

svars == <<vars, rvars>>

\* Bound: the counter in the ids of a program that records stays below a million.
ASSUME CountersAssumption == FirstSeq + 2 * Cardinality(Checkouts) < 1000000

\* SQLite compares event ids as text, digit by digit from the left: as the
\* numbers filled up with zeros to six digits, and 1 before 10, its beginning.
Filled(n) == IF n < 10 THEN 100000 * n
             ELSE IF n < 100 THEN 10000 * n
             ELSE IF n < 1000 THEN 1000 * n
             ELSE IF n < 10000 THEN 100 * n
             ELSE IF n < 100000 THEN 10 * n ELSE n

TextLess(m, n) == \/ Filled(m) < Filled(n)
                  \/ Filled(m) = Filled(n) /\ m < n

SameLength(m, n) ==
    \A w \in {10, 100, 1000, 10000, 100000} : (m < w) = (n < w)

\* ORDER BY timestamp, event_id; ids of one timestamp have the same
\* millisecond, as every program here makes them.
RowBeforeUnordered(y, z) == ev[y].id[2] > ev[z].id[2]     \* mutant of RowBefore
RowBefore(y, z) ==
    \/ ev[y].ts < ev[z].ts
    \/ ev[y].ts = ev[z].ts /\ TextLess(ev[y].id[2], ev[z].id[2])

InRowOrder(S) ==
    CHOOSE list \in [1..Cardinality(S) -> S] :
        \A i, j \in 1..Cardinality(S) : i < j => RowBefore(list[i], list[j])

\* GetTrace, then the filter of NewMockServer: HTTP_CLIENT events only.
Responses(t) == InRowOrder({s \in stored : /\ TraceOf[s[1]] = t
                                          /\ s[2] = "client"
                                          /\ payment[s[1]] = "answered"})

SInit == Init /\ RInit

Replay(t) ==
    /\ \A c \in Checkouts : Returned(c)
    /\ now = MaxNow
    /\ \A s \in Slots : told[s] # "error"
    /\ Serve(Responses(t))
    /\ UNCHANGED vars

SNext == \/ Next /\ recorded = <<>> /\ UNCHANGED rvars
         \/ \E t \in {TraceOf[c] : c \in Checkouts} : Replay(t)
         \/ \E q \in Clients : Request(q) /\ UNCHANGED vars

SSpec == SInit /\ [][SNext]_svars

SFairSpec == SSpec /\ Fairness

----------------------------------------------------------------------------
(* Properties.                                                             *)

\* Replayed one after the other, the recorded responses come in the order in
\* which the calls were made, a millisecond exact; those of one millisecond
\* come in the order in which the calls ended, but for ids whose counters
\* differ in their number of digits.
ReplayKeepsCallOrder ==
    ~overlap =>
        \A i, j \in {k \in DOMAIN log : log[k] > 0} :
            i < j =>
                LET y == recorded[log[i]]
                    z == recorded[log[j]]
                IN  \/ called[y[1]] < called[z[1]]
                    \/ /\ called[y[1]] = called[z[1]]
                       /\ ev[y].id[2] < ev[z].id[2]
                            \/ ~SameLength(ev[y].id[2], ev[z].id[2])

=============================================================================
