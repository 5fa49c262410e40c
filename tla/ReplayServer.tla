---------------------------- MODULE ReplayServer ----------------------------
(***************************************************************************)
(* The mock server of internal/replay.  Its map holds, for one method and  *)
(* URL, the recorded responses still to serve; every request takes the     *)
(* first and writes the rest back, and net/http runs requests concurrently *)
(* without a lock.  A slice of the map is where it starts in the recording *)
(* and its length.                                                         *)
(*                                                                         *)
(* The write of a map entry is not atomic: an access meanwhile is a data   *)
(* race, in which the Go runtime may stop the process or the reader may    *)
(* see the old or the new start with the old or the new length.            *)
(***************************************************************************)
EXTENDS Integers, Sequences, FiniteSets

CONSTANT Clients  \* requests to the mock server for that method and URL

VARIABLES
    recorded, \* the responses NewMockServer was given, in order; none before
    rest,     \* the entry of the map: [from, len]
    at,       \* where each request is
    items,    \* what each request read from the map
    log,      \* history: what was answered, in order; 0 for 404
    taken,    \* history: the responses some request took
    overlap,  \* history: two requests were under way at once
    raced,    \* history: the map was accessed during a write
    up        \* the process runs

rvars == <<recorded, rest, at, items, log, taken, overlap, raced, up>>

Busy == {q \in Clients : at[q] \in {"read", "writing", "written"}}
Writing == {q \in Clients : at[q] = "writing"}

RestOf(r) == [from |-> r.from + 1, len |-> r.len - 1]     \* items[1:]

RInit == /\ recorded = <<>>
         /\ rest = [from |-> 1, len |-> 0]
         /\ at = [q \in Clients |-> "idle"]
         /\ items = [q \in Clients |-> [from |-> 1, len |-> 0]]
         /\ log = <<>>
         /\ taken = {}
         /\ overlap = FALSE
         /\ raced = FALSE
         /\ up = FALSE

\* `timewarp replay` starts on what it read from the store.
Serve(list) ==
    /\ recorded = <<>> /\ list # <<>>
    /\ up' = TRUE
    /\ recorded' = list
    /\ rest' = [from |-> 1, len |-> Len(list)]
    /\ UNCHANGED <<at, items, log, taken, overlap, raced>>

\* What an access of the map may see.
Values == {[from |-> a.from, len |-> b.len] :
             a, b \in {rest} \union {RestOf(items[q]) : q \in Writing}}

\* The runtime notices the race and stops the process.
Fatal(q) ==
    /\ up /\ at[q] \in {"idle", "read"} /\ Writing # {}
    /\ up' = FALSE
    /\ raced' = TRUE
    /\ UNCHANGED <<recorded, rest, at, items, log, taken, overlap>>

\* items := m.responses[key]
Read(q) ==
    /\ up /\ at[q] = "idle"
    /\ overlap' = (overlap \/ Busy # {})
    /\ raced' = (raced \/ Writing # {})
    /\ \E v \in Values :
         /\ items' = [items EXCEPT ![q] = v]
         /\ \/ /\ v.len <= 0
               /\ at' = [at EXCEPT ![q] = "done"]
               /\ log' = Append(log, 0)
            \/ /\ v.len > 0
               /\ at' = [at EXCEPT ![q] = "read"]
               /\ log' = log
    /\ UNCHANGED <<recorded, rest, taken, up>>

\* m.responses[key] = items[1:] begins ...
Write(q) ==
    /\ up /\ at[q] = "read"
    /\ raced' = (raced \/ Writing # {})
    /\ at' = [at EXCEPT ![q] = "writing"]
    /\ taken' = taken \union {items[q].from}
    /\ UNCHANGED <<recorded, rest, items, log, overlap, up>>

WrittenFresh(q) ==                                        \* mutant of Written
    /\ up /\ at[q] = "writing"
    /\ rest' = RestOf(rest)
    /\ at' = [at EXCEPT ![q] = "written"]
    /\ UNCHANGED <<recorded, items, log, taken, overlap, raced, up>>
WrittenNot(q) ==                                          \* mutant of Written
    /\ up /\ at[q] = "writing"
    /\ at' = [at EXCEPT ![q] = "written"]
    /\ UNCHANGED <<recorded, rest, items, log, taken, overlap, raced, up>>
\* ... and ends; two at once may leave a mix.
Written(q) ==
    /\ up /\ at[q] = "writing"
    /\ rest' \in IF Cardinality(Writing) = 1 THEN {RestOf(items[q])}
                 ELSE {v \in Values : v.from = RestOf(items[q]).from
                                       \/ v.len = RestOf(items[q]).len}
    /\ at' = [at EXCEPT ![q] = "written"]
    /\ UNCHANGED <<recorded, items, log, taken, overlap, raced, up>>

\* The recorded latency has passed: the response of items[0].  One past the
\* end of the recording is garbage, written here as -1.
Reply(q) ==
    /\ up /\ at[q] = "written"
    /\ at' = [at EXCEPT ![q] = "done"]
    /\ log' = Append(log, IF items[q].from \in DOMAIN recorded THEN items[q].from ELSE -1)
    /\ UNCHANGED <<recorded, rest, items, taken, overlap, raced, up>>

Request(q) == Read(q) \/ Write(q) \/ Written(q) \/ Reply(q) \/ Fatal(q)

----------------------------------------------------------------------------
(* Properties.                                                             *)

\* Requests one after the other get the recorded responses in order, each
\* once, and 404 only when all have been served.
SerialReplayIsExact ==
    ~overlap => \A i \in DOMAIN log : log[i] = IF i <= Len(recorded) THEN i ELSE 0

\* Requests that overlap may get the same response, but as long as none met
\* another's write no response is passed over: those before the rest that is
\* left have all been taken.
NoneIsSkipped ==
    ~raced /\ up => 1..(rest.from - 1) \subseteq taken

=============================================================================
