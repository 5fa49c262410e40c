----------------------------- MODULE Recording -----------------------------
(***************************************************************************)
(* How a trace is recorded: the checkout handlers of internal/demo, the Go *)
(* SDK's Record they call, and another program that records into the same  *)
(* traces with an SDK client of its own.  Each Record call is a slot; the  *)
(* collector is what IngestContract promises of it: an event it has been   *)
(* sent is saved at some time or never, and 202 means that it was.         *)
(*                                                                         *)
(* An event id is a millisecond and a counter.  The checkout numbers its   *)
(* events with a counter of the handler's process, the SDK those without   *)
(* an id with a counter of the client; both write "evt_<ms>_<n>".          *)
(***************************************************************************)
EXTENDS Integers, FiniteSets

CONSTANTS
    Checkouts,  \* POST /checkout calls
    Spans,      \* calls of Record by another SDK client, one at a time each
    TraceOf,    \* the trace each of them belongs to
    FirstSeq,   \* how far both counters are when the recording starts
    MaxNow      \* bound: the last millisecond of the recording

ASSUME CallsAssumption == IsFiniteSet(Checkouts) /\ IsFiniteSet(Spans)
ASSUME ClocksAssumption == FirstSeq \in Nat /\ MaxNow \in Nat \ {0}

NoId == <<0, 0>>
Slots == (Checkouts \X {"client", "server"}) \union (Spans \X {"span"})

VARIABLES
    now,       \* the clock, in milliseconds
    seq,       \* Checkout.seq
    clientSeq, \* Client.seq of the other program
    pc,        \* where each checkout is
    started,   \* its server event: the id, and the timestamp `started`
    called,    \* dependencyStarted
    payment,   \* what became of its call to the payment service
    hungUp,    \* checkouts whose client is gone: their context is cancelled
    ev,        \* the event of each slot
    fate,      \* "none", "sent", "saved": where it is
    told,      \* what Record returned: "none" as yet, "ok", "error"
    stored     \* the slots whose event is a row of the events table

vars == <<now, seq, clientSeq, pc, started, called, payment, hungUp, ev, fate,
          told, stored>>
clocks == <<now, seq, clientSeq>>
calls == <<pc, started, called, payment, hungUp>>
records == <<ev, fate, told, stored>>

NoEvent == [id |-> NoId, ts |-> 0, parent |-> NoId]

Init == /\ now = 1
        /\ seq = FirstSeq
        /\ clientSeq = FirstSeq
        /\ pc = [c \in Checkouts |-> "idle"]
        /\ started = [c \in Checkouts |-> NoId]
        /\ called = [c \in Checkouts |-> 0]
        /\ payment = [c \in Checkouts |-> "none"]
        /\ hungUp = {}
        /\ ev = [s \in Slots |-> NoEvent]
        /\ fate = [s \in Slots |-> "none"]
        /\ told = [s \in Slots |-> "none"]
        /\ stored = {}

Goto(c, l) == pc' = [pc EXCEPT ![c] = l]

Tick == /\ now < MaxNow
        /\ now' = now + 1
        /\ UNCHANGED <<seq, clientSeq, calls, records>>

----------------------------------------------------------------------------
(* The SDK and the collector.                                              *)

\* Record posts the event, unless its context is cancelled already.
Post(s, e, cancelled) ==
    /\ ev' = [ev EXCEPT ![s] = e]
    /\ \/ cancelled /\ fate' = fate /\ told' = [told EXCEPT ![s] = "error"]
       \/ ~cancelled /\ fate' = [fate EXCEPT ![s] = "sent"] /\ told' = told
    /\ UNCHANGED stored

Key(s) == <<TraceOf[s[1]], ev[s].id>>

\* The 202 of a saved event makes Record return nil, unless it gave up before.
Answer(s) == told' = [told EXCEPT ![s] = IF @ = "none" THEN "ok" ELSE @]

SaveUnmarked(s) ==                                        \* mutant of Save
    /\ fate[s] = "sent"
    /\ stored' = stored \union {s}
    /\ UNCHANGED <<clocks, calls, ev, fate, told>>
\* INSERT OR IGNORE: the row that has the key stays.
Save(s) ==
    /\ fate[s] = "sent"
    /\ fate' = [fate EXCEPT ![s] = "saved"]
    /\ stored' = IF \E z \in stored : Key(z) = Key(s) THEN stored ELSE stored \union {s}
    /\ Answer(s)
    /\ UNCHANGED <<clocks, calls, ev>>

WaitOn(s) ==                                              \* mutant of GiveUp
    /\ told[s] = "none" /\ fate[s] = "saved"
    /\ told' = [told EXCEPT ![s] = "error"]
    /\ UNCHANGED <<clocks, calls, ev, fate, stored>>
\* Record returns an error on any other answer, at the end of the client's two
\* seconds, when its context is cancelled, or when the connection breaks; the
\* event may be saved all the same.
GiveUp(s) ==
    /\ told[s] = "none" /\ fate[s] = "sent"
    /\ told' = [told EXCEPT ![s] = "error"]
    /\ UNCHANGED <<clocks, calls, ev, fate, stored>>

----------------------------------------------------------------------------
(* The checkout handler.                                                   *)

BeginUnnumbered(c) ==                                     \* mutant of Begin
    /\ pc[c] = "idle"
    /\ started' = [started EXCEPT ![c] = <<now, seq>>]
    /\ Goto(c, "body")
    /\ UNCHANGED <<clocks, called, payment, hungUp, records>>
Begin(c) ==
    /\ pc[c] = "idle"
    /\ seq' = seq + 1
    /\ started' = [started EXCEPT ![c] = <<now, seq'>>]
    /\ Goto(c, "body")
    /\ UNCHANGED <<now, clientSeq, called, payment, hungUp, records>>

\* The request's body cannot be read: 400, and no event.
BodyFails(c) ==
    /\ pc[c] = "body"
    /\ Goto(c, "done")
    /\ UNCHANGED <<clocks, started, called, payment, hungUp, records>>

Call(c) ==
    /\ pc[c] = "body"
    /\ called' = [called EXCEPT ![c] = now]
    /\ Goto(c, "pay")
    /\ UNCHANGED <<clocks, started, payment, hungUp, records>>

\* The payment service breaks off in its answer's body: the checkout ends
\* without an event.
PayBroken(c) ==
    /\ pc[c] = "pay"
    /\ payment' = [payment EXCEPT ![c] = "broken"]
    /\ Goto(c, "done")
    /\ UNCHANGED <<clocks, started, called, hungUp, records>>

\* The client may have gone since the handler last looked; it never returns.
HangUp(c) == hungUp' \in {hungUp, hungUp \union {c}}

\* The payment service answers, with success or a failure, or it cannot be
\* reached within the timeout or before the client hangs up.  The event of the
\* call, HTTP_CLIENT or ERROR, is below the server event.
Pay(c) ==
    /\ pc[c] = "pay"
    /\ \E p \in {"answered", "error"} : payment' = [payment EXCEPT ![c] = p]
    /\ HangUp(c)
    /\ seq' = seq + 1
    /\ Post(<<c, "client">>,
            [id |-> <<called[c], seq'>>, ts |-> called[c], parent |-> started[c]],
            c \in hungUp')
    /\ Goto(c, "recording")
    /\ UNCHANGED <<now, clientSeq, started, called>>

ServerEventNow(c) ==                                      \* mutant of ServerEvent
    [id |-> started[c], ts |-> now, parent |-> NoId]
ServerEvent(c) == [id |-> started[c], ts |-> started[c][1], parent |-> NoId]

\* The server event, once Record of the first has returned, whatever it
\* returned.
RecordServer(c) ==
    /\ pc[c] = "recording"
    /\ told[<<c, "client">>] # "none"
    /\ HangUp(c)
    /\ Post(<<c, "server">>, ServerEvent(c), c \in hungUp')
    /\ Goto(c, "finishing")
    /\ UNCHANGED <<clocks, started, called, payment>>

\* The handler has answered its client.
Returned(c) == \/ pc[c] = "done"
               \/ pc[c] = "finishing" /\ told[<<c, "server">>] # "none"

Checkout(c) == \/ Begin(c) \/ BodyFails(c) \/ Call(c) \/ PayBroken(c) \/ Pay(c)
               \/ RecordServer(c)

\* The other program ends a span: Record fills in the time and the id.  Its
\* event is saved in the same step; one that is not changes nothing here.
SpanEnd(p) ==
    LET s == <<p, "span">>
        e == [id |-> <<now, clientSeq + 1>>, ts |-> now, parent |-> NoId]
    IN  /\ fate[s] = "none"
        /\ clientSeq' = clientSeq + 1
        /\ ev' = [ev EXCEPT ![s] = e]
        /\ fate' = [fate EXCEPT ![s] = "saved"]
        /\ told' = [told EXCEPT ![s] = "ok"]
        /\ stored' = IF \E z \in stored : Key(z) = <<TraceOf[p], e.id>> THEN stored
                     ELSE stored \union {s}
        /\ UNCHANGED <<now, seq, calls>>

Next == \/ Tick
        \/ \E c \in Checkouts : Checkout(c)
        \/ \E p \in Spans : SpanEnd(p)
        \/ \E s \in Slots : Save(s) \/ GiveUp(s)

Spec == Init /\ [][Next]_vars

\* A handler's goroutine runs on, and both HTTP clients have a timeout of two
\* seconds.  The collector, the payment service and the client of the
\* checkout, whose body is awaited without a limit, owe nothing.
Run(c) == \/ PayBroken(c) \/ Pay(c) \/ RecordServer(c)
          \/ GiveUp(<<c, "client">>) \/ GiveUp(<<c, "server">>)
Fairness == \A c \in Checkouts : WF_vars(Run(c))

FairSpec == Spec /\ Fairness

----------------------------------------------------------------------------
(* Properties.                                                             *)

TypeOK ==
    /\ now \in 1..MaxNow
    /\ seq \in FirstSeq..(FirstSeq + 2 * Cardinality(Checkouts))
    /\ clientSeq \in FirstSeq..(FirstSeq + Cardinality(Spans))
    /\ pc \in [Checkouts -> {"idle", "body", "pay", "recording", "finishing",
                             "done"}]
    /\ payment \in [Checkouts -> {"none", "answered", "error", "broken"}]
    /\ hungUp \subseteq Checkouts
    /\ \A s \in Slots : ev[s].ts <= now
    /\ fate \in [Slots -> {"none", "sent", "saved"}]
    /\ told \in [Slots -> {"none", "ok", "error"}]
    /\ stored \subseteq {s \in Slots : fate[s] = "saved"}

\* An event Record returned without an error is in the store, unless its id
\* was taken by an event that another counter numbered.
Counter(s) == IF s[2] = "span" THEN "client" ELSE "checkout"
AcceptedUnlessIdTaken ==
    \A s \in Slots : told[s] = "ok" /\ s \notin stored =>
        \E z \in stored : Key(z) = Key(s) /\ Counter(z) # Counter(s)

\* The causal graph of what is stored, at any time: the only events with a
\* missing parent are those of calls whose server event was not accepted,
\* and no event comes before its parent.
Parents(s) == {z \in stored : Key(z) = <<TraceOf[s[1]], ev[s].parent>>}
OrphansAreUnfinished ==
    \A s \in {z \in stored : ev[z].parent # NoId} :
        IF Parents(s) = {} THEN told[<<s[1], "server">>] # "ok"
        ELSE \A z \in Parents(s) : ev[z].ts <= ev[s].ts

\* A checkout that called the payment service returns, whatever becomes of
\* the service, the collector and the client.
CheckoutReturns == \A c \in Checkouts : pc[c] = "pay" ~> Returned(c)

=============================================================================
