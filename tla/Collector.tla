----------------------------- MODULE Collector -----------------------------
(***************************************************************************)
(* The Collector of internal/collector: HTTP handlers admit batches of     *)
(* events against one global budget of events, hand them over a buffered   *)
(* channel to a single writer goroutine, and wait for the writer's         *)
(* verdict; the writer saves many batches in one SQLite transaction.       *)
(*                                                                         *)
(* One handler is one element of Requests.  A handler's r.Context().Done() *)
(* is only looked at in its two selects, so a client that goes away is the *)
(* choice of that branch there.  The process may be killed at any step     *)
(* (main.go's serve never reaches its deferred Close) and restarts on the  *)
(* same database file; Close is what the tests and embedders call.         *)
(***************************************************************************)
EXTENDS Integers, Sequences, FiniteSets

CONSTANTS
    Requests,    \* POST /v1/events calls
    Events,      \* event values
    Keys,        \* primary keys <<trace_id, event_id>> of the events table
    NoEvent,     \* a key without a row
    KeyOf,       \* the key of each event
    BatchOf,     \* the events each request carries, in order
    Malformed,   \* requests whose body does not decode
    Invalid,     \* requests with an event that Event.Validate refuses
    Capacity,    \* the -buffer flag: budget of events, channel size, flush size
    MaxCrashes   \* bound: how often the process may be killed

ASSUME CapacityAssumption == Capacity \in Nat \ {0}
ASSUME BatchAssumption == /\ IsFiniteSet(Requests)
                          /\ BatchOf \in [Requests -> Seq(Events)]
ASSUME EventAssumption == /\ KeyOf \in [Events -> Keys]
                          /\ NoEvent \notin Events
ASSUME KindAssumption == Malformed \subseteq Requests /\ Invalid \subseteq Requests
ASSUME CrashAssumption == MaxCrashes \in Nat

VARIABLES
    pc,            \* where each handler is
    answer,        \* what each handler told its client
    result,        \* each batch's one-place result channel
    queuedEvents,  \* events admitted and not yet released
    closer,        \* Close: "open", "locking", "draining", "closed"
    queue,         \* the channel: requests whose batch waits in it
    run,           \* where the writer goroutine is
    batches,       \* the writer's pending batches, oldest first
    eventCount,    \* the writer's count of the events in them
    returning,     \* the writer flushes for the last time
    saved,         \* what SaveBatch returned to the current flush
    store,         \* the events table: the row under each key
    committed,     \* history: requests whose batch a transaction committed
    metrics,       \* the collector's counters
    crashes        \* how often the process was killed

handlers == <<pc, answer>>
writer == <<run, batches, eventCount, returning, saved>>
disk == <<store, committed>>
vars == <<pc, answer, result, queuedEvents, closer, queue, run, batches,
          eventCount, returning, saved, store, committed, metrics, crashes>>

Size(r) == Len(BatchOf[r])

\* One item per event a request carries; sets of items count events.
Items(r) == {r} \X (1..Size(r))
ItemsOf(R) == UNION {Items(r) : r \in R}
EventsOf(R) == Cardinality(ItemsOf(R))
InSeq(s) == {s[i] : i \in 1..Len(s)}

Buckets == {"1", "2_10", "11_50", "51_100", "101_250", "251_500", "gt_500"}
Counters == {"received", "eventsReceived", "persisted", "eventsPersisted",
             "decode", "validation", "overload", "storage"} \union Buckets

Bucket(n) == CASE n <= 1 -> "1"
               [] n \in 2..10 -> "2_10"
               [] n \in 11..50 -> "11_50"
               [] n \in 51..100 -> "51_100"
               [] n \in 101..250 -> "101_250"
               [] n \in 251..500 -> "251_500"
               [] OTHER -> "gt_500"

Add(m, c, n) == [m EXCEPT ![c] = @ + n]

InProgress == {"counting", "bucketing", "validating", "reserve", "rlock",
               "locked", "refused", "abandoned", "waiting"}

Init == /\ pc = [r \in Requests |-> "idle"]
        /\ answer = [r \in Requests |-> "none"]
        /\ result = [r \in Requests |-> "none"]
        /\ queuedEvents = 0
        /\ closer = "open"
        /\ queue = <<>>
        /\ run = "select"
        /\ batches = <<>>
        /\ eventCount = 0
        /\ returning = FALSE
        /\ saved = "none"
        /\ store = [k \in Keys |-> NoEvent]
        /\ committed = {}
        /\ metrics = [c \in Counters |-> 0]
        /\ crashes = 0

----------------------------------------------------------------------------
(* The handler: ingest, reserve, release.                                  *)

Finish(r, a) == /\ pc' = [pc EXCEPT ![r] = "done"]
                /\ answer' = [answer EXCEPT ![r] = a]

Goto(r, l) == pc' = [pc EXCEPT ![r] = l] /\ UNCHANGED answer

FitsIgnoringOthers(r) == Size(r) <= Capacity              \* mutant of Fits
Fits(r) == Size(r) <= Capacity - queuedEvents

Free(r) == queuedEvents' = queuedEvents - Size(r)

VerdictUnread(r) == "202"                                 \* mutant of Verdict
Verdict(r) == IF result[r] = "ok" THEN "202" ELSE "storage"

\* Where the three adds of ingest to the counters of a batch lead: batches,
\* events, then the histogram.
BucketFirst == [received |-> "bucketing", bucketing |-> "counting",
                counting |-> "validating"]                \* mutant of AfterAdd
AfterAdd == [received |-> "counting", counting |-> "bucketing",
             bucketing |-> "validating"]

\* Decoding, and the first counter of a batch that decodes to some event.
Receive(r) ==
    /\ pc[r] = "idle"
    /\ \/ /\ r \in Malformed
          /\ metrics' = Add(metrics, "decode", 1)
          /\ Finish(r, "400")
       \/ /\ r \notin Malformed /\ BatchOf[r] = <<>>
          /\ metrics' = Add(metrics, "validation", 1)
          /\ Finish(r, "400")
       \/ /\ r \notin Malformed /\ BatchOf[r] # <<>>
          /\ metrics' = Add(metrics, "received", 1)
          /\ Goto(r, AfterAdd.received)
    /\ UNCHANGED <<result, queuedEvents, closer, queue, writer, disk, crashes>>

\* eventsReceived, a counter of its own ...
CountEvents(r) ==
    /\ pc[r] = "counting"
    /\ metrics' = Add(metrics, "eventsReceived", Size(r))
    /\ Goto(r, AfterAdd.counting)
    /\ UNCHANGED <<result, queuedEvents, closer, queue, writer, disk, crashes>>

\* ... recordBatchSize ...
CountBucket(r) ==
    /\ pc[r] = "bucketing"
    /\ metrics' = Add(metrics, Bucket(Size(r)), 1)
    /\ Goto(r, AfterAdd.bucketing)
    /\ UNCHANGED <<result, queuedEvents, closer, queue, writer, disk, crashes>>

\* ... and the loop over Event.Validate.
Validate(r) ==
    /\ pc[r] = "validating"
    /\ \/ /\ r \in Invalid
          /\ metrics' = Add(metrics, "validation", 1)
          /\ Finish(r, "422")
       \/ /\ r \notin Invalid
          /\ Goto(r, "reserve")
          /\ UNCHANGED metrics
    /\ UNCHANGED <<result, queuedEvents, closer, queue, writer, disk, crashes>>

Reserve(r) ==
    /\ pc[r] = "reserve"
    /\ \/ /\ ~Fits(r)
          /\ metrics' = Add(metrics, "overload", 1)
          /\ Finish(r, "overload")
          /\ UNCHANGED queuedEvents
       \/ /\ Fits(r)
          /\ queuedEvents' = queuedEvents + Size(r)
          /\ Goto(r, "rlock")
          /\ UNCHANGED metrics
    /\ UNCHANGED <<result, closer, queue, writer, disk, crashes>>

\* queueMu.RLock waits while Close holds or awaits the write lock; a handler
\* that finds closing set unlocks again at once.
RLock(r) ==
    /\ pc[r] = "rlock"
    /\ closer # "locking"
    /\ Goto(r, IF closer = "open" THEN "locked" ELSE "refused")
    /\ UNCHANGED <<result, queuedEvents, closer, queue, writer, disk, metrics, crashes>>

Refuse(r) ==
    /\ pc[r] = "refused"
    /\ Free(r)
    /\ metrics' = Add(metrics, "overload", 1)
    /\ Finish(r, "closing")
    /\ UNCHANGED <<result, closer, queue, writer, disk, crashes>>

\* First select, first case: the send, then RUnlock.
Send(r) ==
    /\ pc[r] = "locked"
    /\ Len(queue) < Capacity
    /\ queue' = Append(queue, r)
    /\ Goto(r, "waiting")
    /\ UNCHANGED <<result, queuedEvents, closer, writer, disk, metrics, crashes>>

\* First select, second case: the client is gone, RUnlock ...
CancelSend(r) ==
    /\ pc[r] = "locked"
    /\ Goto(r, "abandoned")
    /\ UNCHANGED <<result, queuedEvents, closer, queue, writer, disk, metrics, crashes>>

AbandonLeaking(r) ==                                      \* mutant of Abandon
    /\ pc[r] = "abandoned"
    /\ Finish(r, "dropped")
    /\ UNCHANGED <<result, queuedEvents, closer, queue, writer, disk, metrics, crashes>>

\* ... and the reservation is returned.  No counter records this end.
Abandon(r) ==
    /\ pc[r] = "abandoned"
    /\ Free(r)
    /\ Finish(r, "dropped")
    /\ UNCHANGED <<result, closer, queue, writer, disk, metrics, crashes>>

\* Second select: the writer's verdict ...
Await(r) ==
    /\ pc[r] = "waiting"
    /\ result[r] # "none"
    /\ Finish(r, Verdict(r))
    /\ UNCHANGED <<result, queuedEvents, closer, queue, writer, disk, metrics, crashes>>

\* ... or the client's departure, which leaves the batch with the writer.
Leave(r) ==
    /\ pc[r] = "waiting"
    /\ Finish(r, "gone")
    /\ UNCHANGED <<result, queuedEvents, closer, queue, writer, disk, metrics, crashes>>

Handler(r) == \/ Receive(r) \/ CountEvents(r) \/ CountBucket(r) \/ Validate(r)
              \/ Reserve(r) \/ RLock(r) \/ Refuse(r) \/ Send(r) \/ CancelSend(r)
              \/ Abandon(r) \/ Await(r) \/ Leave(r)

----------------------------------------------------------------------------
(* The writer: run and its flush closure.                                  *)

FullLate(n) == n > Capacity                               \* mutant of Full
Full(n) == n >= Capacity

Dequeue ==
    /\ run = "select"
    /\ queue # <<>>
    /\ queue' = Tail(queue)
    /\ batches' = Append(batches, Head(queue))
    /\ eventCount' = eventCount + Size(Head(queue))
    /\ run' = IF Full(eventCount') THEN "save" ELSE "select"
    /\ UNCHANGED <<handlers, result, queuedEvents, closer, returning, saved,
                   disk, metrics, crashes>>

TickLost == FALSE                                         \* mutant of Tick

\* A tick with nothing pending flushes nothing and is left out.
Tick ==
    /\ run = "select"
    /\ batches # <<>>
    /\ run' = "save"
    /\ UNCHANGED <<handlers, result, queuedEvents, closer, queue, batches,
                   eventCount, returning, saved, disk, metrics, crashes>>

DrainUnflushed == "exited"                                \* mutant of AfterDrain
DrainReselects == "select"                                \* mutant of AfterDrain
AfterDrain == IF batches = <<>> THEN "exited" ELSE "save"

\* The channel is closed and empty: the last flush, then return.
Drain ==
    /\ run = "select"
    /\ closer \in {"draining", "closed"}
    /\ queue = <<>>
    /\ returning' = TRUE
    /\ run' = AfterDrain
    /\ UNCHANGED <<handlers, result, queuedEvents, closer, queue, batches,
                   eventCount, saved, disk, metrics, crashes>>

\* SaveBatch inserts in order and INSERT OR IGNORE keeps the row a key has:
\* a free key takes the first event of the flush that carries it.
Places(bs, k) == {p \in UNION {{i} \X (1..Size(bs[i])) : i \in 1..Len(bs)} :
                    KeyOf[BatchOf[bs[p[1]]][p[2]]] = k}
Before(p, q) == p[1] < q[1] \/ (p[1] = q[1] /\ p[2] <= q[2])
InsertedReplacing(s, bs) ==                               \* mutant of Inserted
    [k \in Keys |->
        IF Places(bs, k) = {} THEN s[k]
        ELSE LET p == CHOOSE p \in Places(bs, k) :
                        \A q \in Places(bs, k) : Before(q, p)
             IN  BatchOf[bs[p[1]]][p[2]]]
Inserted(s, bs) ==
    [k \in Keys |->
        IF s[k] # NoEvent \/ Places(bs, k) = {} THEN s[k]
        ELSE LET p == CHOOSE p \in Places(bs, k) :
                        \A q \in Places(bs, k) : Before(p, q)
             IN  BatchOf[bs[p[1]]][p[2]]]

RollbackPartial ==                                        \* mutant of Rollback
    /\ store' = Inserted(store, <<Head(batches)>>)
    /\ committed' = committed \union {Head(batches)}
Rollback == UNCHANGED disk

FailedOnce == Add(metrics, "storage", 1)                  \* mutant of Failed
Failed == Add(metrics, "storage", Len(batches))

SaveOk ==
    /\ run = "save"
    /\ run' = "count"
    /\ saved' = "ok"
    /\ store' = Inserted(store, batches)
    /\ committed' = committed \union InSeq(batches)
    /\ metrics' = Add(metrics, "persisted", Len(batches))
    /\ UNCHANGED <<handlers, result, queuedEvents, closer, queue, batches,
                   eventCount, returning, crashes>>

\* The second of the two counters of a flush.
CountSaved ==
    /\ run = "count"
    /\ run' = "reply"
    /\ metrics' = Add(metrics, "eventsPersisted", EventsOf(InSeq(batches)))
    /\ UNCHANGED <<handlers, result, queuedEvents, closer, queue, batches,
                   eventCount, returning, saved, disk, crashes>>

\* The transaction failed somewhere and was rolled back.
SaveFail ==
    /\ run = "save"
    /\ run' = "reply"
    /\ saved' = "err"
    /\ Rollback
    /\ metrics' = Failed
    /\ UNCHANGED <<handlers, result, queuedEvents, closer, queue, batches,
                   eventCount, returning, crashes>>

\* The loop over the flushed batches; batches holds those still to serve.
Reply ==
    /\ run = "reply"
    /\ result' = [result EXCEPT ![Head(batches)] = saved]
    /\ run' = "release"
    /\ UNCHANGED <<handlers, queuedEvents, closer, queue, batches, eventCount,
                   returning, saved, disk, metrics, crashes>>

Release ==
    /\ run = "release"
    /\ Free(Head(batches))
    /\ batches' = Tail(batches)
    /\ \/ /\ Tail(batches) # <<>>
          /\ run' = "reply"
          /\ UNCHANGED <<eventCount, saved>>
       \/ /\ Tail(batches) = <<>>
          /\ run' = IF returning THEN "exited" ELSE "select"
          /\ eventCount' = 0
          /\ saved' = "none"
    /\ UNCHANGED <<handlers, result, closer, queue, returning, disk, metrics, crashes>>

Writer == Dequeue \/ Tick \/ Drain \/ SaveOk \/ CountSaved \/ SaveFail \/ Reply
            \/ Release

----------------------------------------------------------------------------
(* Close, and the process itself.                                          *)

CloseLock ==
    /\ closer = "open"
    /\ closer' = "locking"
    /\ UNCHANGED <<handlers, result, queuedEvents, queue, writer, disk, metrics, crashes>>

NoReadersUnchecked == TRUE                                \* mutant of NoReaders
NoReaders == \A r \in Requests : pc[r] # "locked"

\* The write lock is free of readers: closing is set, the channel closed.
CloseQueue ==
    /\ closer = "locking"
    /\ NoReaders
    /\ closer' = "draining"
    /\ UNCHANGED <<handlers, result, queuedEvents, queue, writer, disk, metrics, crashes>>

\* <-c.done
CloseDone ==
    /\ closer = "draining"
    /\ run = "exited"
    /\ closer' = "closed"
    /\ UNCHANGED <<handlers, result, queuedEvents, queue, writer, disk, metrics, crashes>>

Close == CloseLock \/ CloseQueue \/ CloseDone

\* The process dies and is started again: New on the same database.
Crash ==
    /\ crashes < MaxCrashes
    /\ crashes' = crashes + 1
    /\ pc' = [r \in Requests |-> IF pc[r] \in InProgress THEN "done" ELSE pc[r]]
    /\ answer' = [r \in Requests |->
                    IF pc[r] \in InProgress THEN "gone" ELSE answer[r]]
    /\ result' = [r \in Requests |-> "none"]
    /\ queuedEvents' = 0
    /\ closer' = "open"
    /\ queue' = <<>>
    /\ run' = "select"
    /\ batches' = <<>>
    /\ eventCount' = 0
    /\ returning' = FALSE
    /\ saved' = "none"
    /\ metrics' = [c \in Counters |-> 0]
    /\ UNCHANGED disk

Terminated ==
    /\ closer = "closed"
    /\ \A r \in Requests : pc[r] = "done"
    /\ UNCHANGED vars

Next == \/ \E r \in Requests : Handler(r)
        \/ Writer
        \/ Close
        \/ Crash
        \/ Terminated

Spec == Init /\ [][Next]_vars

\* Goroutines that can run do run, the ticker ticks, and SaveBatch returns
\* (busy_timeout bounds its wait).  Requests, departures, Close and kills
\* are the environment's choice.
Fairness ==
    /\ \A r \in Requests :
         /\ WF_vars(CountEvents(r))
         /\ WF_vars(CountBucket(r))
         /\ WF_vars(Validate(r))
         /\ WF_vars(Reserve(r))
         /\ WF_vars(RLock(r))
         /\ WF_vars(Refuse(r))
         /\ WF_vars(Send(r))
         /\ WF_vars(Abandon(r))
         /\ WF_vars(Await(r))
    /\ WF_vars(Writer)
    /\ WF_vars(CloseQueue)
    /\ WF_vars(CloseDone)

FairSpec == Spec /\ Fairness

----------------------------------------------------------------------------
(* Properties.                                                             *)

Answers == {"none", "202", "400", "422", "overload", "closing", "storage",
            "dropped", "gone"}
Refusals == {"400", "422", "overload", "closing", "storage", "dropped"}

\* Types and ranges; the admitted events never exceed the budget of reserve.
TypeOK ==
    /\ pc \in [Requests -> InProgress \union {"idle", "done"}]
    /\ answer \in [Requests -> Answers]
    /\ result \in [Requests -> {"none", "ok", "err"}]
    /\ queuedEvents \in 0..Capacity
    /\ closer \in {"open", "locking", "draining", "closed"}
    /\ queue \in Seq(Requests)
    /\ run \in {"select", "save", "count", "reply", "release", "exited"}
    /\ batches \in Seq(Requests)
    /\ eventCount \in 0..Capacity
    /\ returning \in BOOLEAN
    /\ saved \in {"none", "ok", "err"}
    /\ store \in [Keys -> Events \union {NoEvent}]
    /\ committed \subseteq Requests
    /\ metrics \in [Counters -> Nat]
    /\ crashes \in 0..MaxCrashes

Stored(r) == \A i \in 1..Size(r) : store[KeyOf[BatchOf[r][i]]] # NoEvent

\* A 202 is only ever sent for a batch whose transaction committed, and a
\* row exists under the key of each of its events, also after a kill.
AcceptedIsDurable ==
    \A r \in Requests : answer[r] = "202" => r \in committed /\ Stored(r)

\* README.md: a batch that is answered with an error persists no event, and
\* never will: no transaction commits it, before or after the answer.
RefusedIsNotPersisted ==
    \A r \in Requests : answer[r] \in Refusals => r \notin committed

\* Who holds a reservation: handlers between reserve and the send or the
\* release, batches in the channel, batches the writer has not released.
Holders == {r \in Requests : pc[r] \in {"rlock", "locked", "refused", "abandoned"}}
             \union InSeq(queue) \union InSeq(batches)

\* queuedEvents is what the holders carry: nothing leaks and nothing is
\* released twice, whichever way a handler or a client leaves.
ReservationConserved == queuedEvents = EventsOf(Holders)

\* The send of ingest never waits and never panics: while a handler holds
\* the read lock the channel is open, the writer still reads it, and it has
\* room, because every queued batch reserved at least one event.
SendIsReady ==
    (\E r \in Requests : pc[r] = "locked") =>
        closer \in {"open", "locking"} /\ run # "exited" /\ Len(queue) < Capacity

\* When the writer returns nothing is left behind: no batch is queued or
\* pending, and every handler that waits has its verdict in its channel.
DrainedAtExit ==
    run = "exited" => /\ queue = <<>> /\ batches = <<>>
                      /\ \A r \in Requests : pc[r] = "waiting" => result[r] # "none"

\* While the writer waits its count is that of its pending batches and is
\* below the flush size: a full flush is never put off to the next tick.
FlushIsPrompt ==
    run = "select" => /\ eventCount = EventsOf(InSeq(batches))
                      /\ eventCount < Capacity

\* Without kills every batch counted as received is counted exactly once as
\* persisted or rejected, but for those still under way and those whose
\* client left before the send, which no counter shows.
Undecided == {r \in Requests : pc[r] \in {"counting", "bucketing", "validating",
                                          "reserve", "rlock", "locked", "refused",
                                          "abandoned"}}
               \union InSeq(queue)
               \union (IF run \in {"select", "save"} THEN InSeq(batches) ELSE {})
Uncounted == {r \in Requests : answer[r] = "dropped"}
Empty == {r \in Requests : pc[r] # "idle" /\ r \notin Malformed /\ BatchOf[r] = <<>>}
EveryBatchIsCounted ==
    crashes = 0 =>
        metrics["received"] + Cardinality(Empty)
            = metrics["persisted"] + metrics["validation"] + metrics["overload"]
              + metrics["storage"] + Cardinality(Undecided) + Cardinality(Uncounted)

\* A row is never replaced: a batch that repeats a key, alone or in the same
\* flush, leaves the first event in place (INSERT OR IGNORE).
FirstEventIsKept ==
    [][\A k \in Keys : store[k] # NoEvent => store'[k] = store[k]]_vars

\* Every request the server has begun to handle gets an answer or is known
\* to be abandoned, also when the writer is closed or killed meanwhile.
EveryRequestEnds == \A r \in Requests : pc[r] # "idle" ~> pc[r] = "done"

\* Close returns, unless the process dies first.
CloseReturns == closer = "locking" ~> closer \in {"closed", "open"}

\* What ingest promises its clients, the queue and the writer hidden.
Contract == INSTANCE IngestContract
              WITH answer <- answer, store <- store, committed <- committed
ImplementsContract == Contract!Spec

=============================================================================
