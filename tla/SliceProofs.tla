----------------------------- MODULE SliceProofs -----------------------------
(***************************************************************************)
(* Proofs about VerticalSlice, for any checkouts, spans and requests: the  *)
(* types of Recording, what the store holds of what was recorded, and what *)
(* the mock server of ReplayServer answers.                                *)
(*                                                                         *)
(* Everything about the store rests on the numbers in the event ids: one   *)
(* counter never gives a number twice, and a slot keeps its event from the *)
(* first Post on.                                                          *)
(***************************************************************************)
EXTENDS VerticalSlice, FiniteSetTheorems, TLAPS

ClientOf(c) == <<c, "client">>
ServerOf(c) == <<c, "server">>
SpanOf(p) == <<p, "span">>

Pair == Nat \X Nat
EventSet == [id : Pair, ts : Nat, parent : Pair]

ClockTypes == /\ now \in 1..MaxNow /\ seq \in Nat /\ clientSeq \in Nat
              /\ seq >= FirstSeq /\ clientSeq >= FirstSeq
CallTypes ==
    /\ pc \in [Checkouts -> {"idle", "body", "pay", "recording", "finishing", "done"}]
    /\ started \in [Checkouts -> Pair]
    /\ called \in [Checkouts -> Nat]
    /\ payment \in [Checkouts -> {"none", "answered", "error", "broken"}]
    /\ hungUp \in SUBSET Checkouts
RecordTypes ==
    /\ ev \in [Slots -> EventSet]
    /\ fate \in [Slots -> {"none", "sent", "saved"}]
    /\ told \in [Slots -> {"none", "ok", "error"}]
    /\ stored \in SUBSET Slots
RecTypes == ClockTypes /\ CallTypes /\ RecordTypes

Begun(c) == pc[c] # "idle"
Posted(c) == pc[c] \in {"recording", "finishing"}
Ended(p) == fate[SpanOf(p)] = "saved"
Numbers == (FirstSeq + 1)..seq
ClientNumbers == (FirstSeq + 1)..clientSeq

\* Nothing was recorded into this slot yet.
Blank(s) == ev[s] = NoEvent /\ fate[s] = "none" /\ told[s] = "none"

\* What a checkout has recorded, by where it is.
CheckoutOK(c) ==
    /\ Begun(c) => started[c][1] \in 1..now /\ started[c][2] \in Numbers
    /\ pc[c] = "pay" \/ Posted(c) => called[c] \in started[c][1]..now
    /\ ~Posted(c) => Blank(ClientOf(c)) /\ payment[c] \notin {"answered", "error"}
    /\ pc[c] # "finishing" => Blank(ServerOf(c))
    /\ Posted(c) => /\ payment[c] \in {"answered", "error"}
                    /\ ev[ClientOf(c)].ts = called[c]
                    /\ ev[ClientOf(c)].parent = started[c]
                    /\ ev[ClientOf(c)].id[1] = called[c]
                    /\ ev[ClientOf(c)].id[2] \in Numbers
    /\ pc[c] = "finishing" =>
          ev[ServerOf(c)] = [id |-> started[c], ts |-> started[c][1], parent |-> NoId]

SpanOK(p) ==
    /\ ~Ended(p) => Blank(SpanOf(p))
    /\ Ended(p) => /\ ev[SpanOf(p)].ts \in 1..now
                   /\ ev[SpanOf(p)].id[1] = ev[SpanOf(p)].ts
                   /\ ev[SpanOf(p)].id[2] \in ClientNumbers
                   /\ ev[SpanOf(p)].parent = NoId

\* What is stored was saved, and what was accepted is stored or its key taken.
KeyTaken(s) == \E z \in stored : Key(z) = Key(s)
StoreOK(s) ==
    /\ s \in stored => fate[s] = "saved"
    /\ told[s] = "ok" => fate[s] = "saved" /\ (s \in stored \/ KeyTaken(s))

\* No number was given twice by one counter.
StartsDiffer == \A c, d \in Checkouts :
    c # d /\ Begun(c) /\ Begun(d) => started[c][2] # started[d][2]
CallsDiffer == \A c, d \in Checkouts :
    c # d /\ Posted(c) /\ Posted(d) => ev[ClientOf(c)].id[2] # ev[ClientOf(d)].id[2]
StartsAreNoCalls == \A c, d \in Checkouts :
    Begun(c) /\ Posted(d) => started[c][2] # ev[ClientOf(d)].id[2]
SpansDiffer == \A p, q \in Spans :
    p # q /\ Ended(p) /\ Ended(q) => ev[SpanOf(p)].id[2] # ev[SpanOf(q)].id[2]

RecInv == /\ RecTypes
          /\ \A c \in Checkouts : CheckoutOK(c)
          /\ \A p \in Spans : SpanOK(p)
          /\ \A s \in Slots : StoreOK(s)
          /\ StartsDiffer /\ CallsDiffer /\ StartsAreNoCalls /\ SpansDiffer

----------------------------------------------------------------------------
(* Slots.                                                                  *)

\* Every call and every span has slots of its own.
LEMMA SlotsOfCheckout ==
    ASSUME NEW c \in Checkouts
    PROVE  /\ ClientOf(c) \in Slots /\ ServerOf(c) \in Slots
           /\ ClientOf(c)[1] = c /\ ServerOf(c)[1] = c
           /\ ClientOf(c)[2] = "client" /\ ServerOf(c)[2] = "server"
           /\ ClientOf(c) # ServerOf(c)
BY DEF ClientOf, ServerOf, Slots

\* The slot of a span.
LEMMA SlotOfSpan ==
    ASSUME NEW p \in Spans
    PROVE  SpanOf(p) \in Slots /\ SpanOf(p)[1] = p /\ SpanOf(p)[2] = "span"
BY DEF SpanOf, Slots

\* There are no others.
LEMMA SlotCases ==
    ASSUME NEW s \in Slots
    PROVE  \/ \E c \in Checkouts : s = ClientOf(c) \/ s = ServerOf(c)
           \/ \E p \in Spans : s = SpanOf(p)
BY DEF ClientOf, ServerOf, SpanOf, Slots

\* Slots of different calls differ.
LEMMA SlotsDiffer ==
    ASSUME NEW c, NEW d, c # d
    PROVE  /\ ClientOf(c) # ClientOf(d) /\ ServerOf(c) # ServerOf(d)
           /\ SpanOf(c) # SpanOf(d)
BY DEF ClientOf, ServerOf, SpanOf
\* The three kinds of slots are apart.
LEMMA KindsDiffer ==
    ASSUME NEW c, NEW d
    PROVE  /\ ClientOf(c) # ServerOf(d) /\ ClientOf(c) # SpanOf(d)
           /\ ServerOf(c) # SpanOf(d)
BY DEF ClientOf, ServerOf, SpanOf

\* Nothing is recorded at first.
LEMMA RecInit == Init => RecInv
<1> SUFFICES ASSUME Init PROVE RecInv
  OBVIOUS
<1>1. NoEvent \in EventSet /\ NoId \in Pair
  BY DEF NoEvent, EventSet, NoId, Pair
<1>2. ClockTypes
  BY ClocksAssumption DEF Init, ClockTypes
<1>3. CallTypes
  BY <1>1 DEF Init, CallTypes
<1>4. RecordTypes
  BY <1>1 DEF Init, RecordTypes
<1>5. \A s \in Slots : Blank(s) /\ StoreOK(s)
  BY DEF Init, Blank, StoreOK
<1>6. ASSUME NEW c \in Checkouts PROVE CheckoutOK(c) /\ ~Begun(c) /\ ~Posted(c)
  <2>1. pc[c] = "idle" /\ payment[c] = "none"
    BY DEF Init
  <2>2. Blank(ClientOf(c)) /\ Blank(ServerOf(c))
    BY <1>5, SlotsOfCheckout
  <2> QED BY <2>1, <2>2 DEF CheckoutOK, Begun, Posted
<1>7. ASSUME NEW p \in Spans PROVE SpanOK(p) /\ ~Ended(p)
  BY <1>5, SlotOfSpan DEF SpanOK, Ended, Blank
<1>8. StartsDiffer /\ CallsDiffer /\ StartsAreNoCalls /\ SpansDiffer
  BY <1>6, <1>7 DEF StartsDiffer, CallsDiffer, StartsAreNoCalls, SpansDiffer
<1> QED BY <1>2, <1>3, <1>4, <1>5, <1>6, <1>7, <1>8 DEF RecInv, RecTypes

----------------------------------------------------------------------------
(* What a step leaves alone.                                               *)

Later == now' \in Nat /\ now' >= now /\ seq' \in Nat /\ seq' >= seq
         /\ clientSeq' \in Nat /\ clientSeq' >= clientSeq

\* The event of a slot stays, and a blank slot stays blank.
SlotStays(s) == ev'[s] = ev[s] /\ (Blank(s) => Blank(s)')

CheckoutStays(c) ==
    /\ pc'[c] = pc[c] /\ started'[c] = started[c] /\ called'[c] = called[c]
    /\ payment'[c] = payment[c]
    /\ SlotStays(ClientOf(c)) /\ SlotStays(ServerOf(c))

\* What is true of a checkout or a span stays true while others record.
LEMMA CheckoutStaysOK ==
    ASSUME RecTypes, Later, NEW c \in Checkouts, CheckoutOK(c), CheckoutStays(c)
    PROVE  CheckoutOK(c)'
<1>1. Begun(c)' = Begun(c) /\ Posted(c)' = Posted(c)
  BY DEF CheckoutStays, Begun, Posted
<1>2. \A n : n \in Numbers => n \in Numbers'
  BY ClocksAssumption DEF Numbers, Later, RecTypes, ClockTypes
<1>3. \A n, m \in Nat : n \in m..now => n \in m..now'
  BY DEF Later, RecTypes, ClockTypes
<1>4. started[c] \in Pair /\ called[c] \in Nat
  BY DEF RecTypes, CallTypes
<1>5. started[c][1] \in Nat
  BY <1>4 DEF Pair
<1>6. Begun(c)' => started'[c][1] \in 1..now' /\ started'[c][2] \in Numbers'
  BY <1>1, <1>2, <1>3, <1>5 DEF CheckoutOK, CheckoutStays
<1>7. pc'[c] = "pay" \/ Posted(c)' => called'[c] \in started'[c][1]..now'
  BY <1>1, <1>3, <1>4, <1>5 DEF CheckoutOK, CheckoutStays
<1>8. /\ ~Posted(c)' => Blank(ClientOf(c))' /\ payment'[c] \notin {"answered", "error"}
      /\ pc'[c] # "finishing" => Blank(ServerOf(c))'
  BY <1>1 DEF CheckoutOK, CheckoutStays, SlotStays
<1>9. Posted(c)' => /\ payment'[c] \in {"answered", "error"}
                    /\ ev'[ClientOf(c)].ts = called'[c]
                    /\ ev'[ClientOf(c)].parent = started'[c]
                    /\ ev'[ClientOf(c)].id[1] = called'[c]
                    /\ ev'[ClientOf(c)].id[2] \in Numbers'
  BY <1>1, <1>2 DEF CheckoutOK, CheckoutStays, SlotStays
<1>10. pc'[c] = "finishing" =>
          ev'[ServerOf(c)] = [id |-> started'[c], ts |-> started'[c][1], parent |-> NoId]
  BY DEF CheckoutOK, CheckoutStays, SlotStays
<1> QED BY <1>6, <1>7, <1>8, <1>9, <1>10 DEF CheckoutOK, ClientOf, ServerOf

LEMMA SpanStaysOK ==
    ASSUME RecTypes, Later, NEW p \in Spans, SpanOK(p), SlotStays(SpanOf(p)),
           Ended(p)' = Ended(p)
    PROVE  SpanOK(p)'
<1>1. \A n : n \in ClientNumbers => n \in ClientNumbers'
  BY ClocksAssumption DEF ClientNumbers, Later, RecTypes, ClockTypes
<1>2. \A n : n \in 1..now => n \in 1..now'
  BY DEF Later, RecTypes, ClockTypes
<1>3. ev'[SpanOf(p)] = ev[SpanOf(p)]
  BY DEF SlotStays
<1>4. ~Ended(p)' => Blank(SpanOf(p))'
  BY DEF SpanOK, SlotStays
<1>5. Ended(p)' => /\ ev'[SpanOf(p)].ts \in 1..now'
                   /\ ev'[SpanOf(p)].id[1] = ev'[SpanOf(p)].ts
                   /\ ev'[SpanOf(p)].id[2] \in ClientNumbers'
                   /\ ev'[SpanOf(p)].parent = NoId
  BY <1>1, <1>2, <1>3 DEF SpanOK
<1> QED BY <1>4, <1>5 DEF SpanOK, SpanOf

\* A slot that is stored or accepted stays so while its event does.
LEMMA StoreStaysOK ==
    ASSUME NEW s \in Slots, StoreOK(s), stored \subseteq stored',
           \A z \in stored : ev'[z] = ev[z],
           s \in stored' => s \in stored,
           fate[s] = "saved" => fate'[s] = "saved",
           told'[s] = "ok" => told[s] = "ok" /\ ev'[s] = ev[s]
    PROVE  StoreOK(s)'
<1>1. \A z \in stored : Key(z)' = Key(z)
  BY DEF Key
<1>2. s \in stored' => fate'[s] = "saved"
  BY DEF StoreOK
<1>3. ASSUME told'[s] = "ok" PROVE fate'[s] = "saved" /\ (s \in stored' \/ KeyTaken(s)')
  <2>1. Key(s)' = Key(s)
    BY <1>3 DEF Key
  <2>2. KeyTaken(s) => KeyTaken(s)'
    BY <1>1, <2>1 DEF KeyTaken
  <2> QED BY <1>3, <2>2 DEF StoreOK
<1> QED BY <1>2, <1>3 DEF StoreOK

\* A step that gives no number and begins nothing.
LEMMA DifferStay ==
    ASSUME StartsDiffer, CallsDiffer, StartsAreNoCalls,
           \A c \in Checkouts : /\ Begun(c)' => Begun(c) /\ started'[c] = started[c]
                                /\ Posted(c)' => Posted(c) /\ ev'[ClientOf(c)] = ev[ClientOf(c)]
    PROVE  StartsDiffer' /\ CallsDiffer' /\ StartsAreNoCalls'
<1>1. StartsDiffer'
  BY DEF StartsDiffer
<1>2. CallsDiffer'
  BY DEF CallsDiffer, ClientOf
<1>3. ASSUME NEW c \in Checkouts, NEW d \in Checkouts, Begun(c)', Posted(d)'
      PROVE  started'[c][2] # ev'[ClientOf(d)].id[2]
  BY <1>3 DEF StartsAreNoCalls
<1>4. StartsAreNoCalls'
  BY <1>3 DEF StartsAreNoCalls, ClientOf
<1> QED BY <1>1, <1>2, <1>4

\* Ended spans keep their numbers apart.
LEMMA SpansDifferStay ==
    ASSUME SpansDiffer,
           \A p \in Spans : Ended(p)' => Ended(p) /\ ev'[SpanOf(p)] = ev[SpanOf(p)]
    PROVE  SpansDiffer'
BY DEF SpansDiffer, SpanOf

\* A step that records nothing.
LEMMA RecordsStayOK ==
    ASSUME RecInv, Later, UNCHANGED records
    PROVE  /\ RecordTypes' /\ SpansDiffer'
           /\ \A s \in Slots : SlotStays(s) /\ StoreOK(s)'
           /\ \A p \in Spans : SpanOK(p)'
<1>1. /\ ev' = ev /\ fate' = fate /\ told' = told /\ stored' = stored
  BY DEF records
<1>2. \A s \in Slots : SlotStays(s)
  BY <1>1 DEF SlotStays, Blank
<1>3. \A s \in Slots : StoreOK(s)'
  BY <1>1, StoreStaysOK DEF RecInv
<1>4. \A p \in Spans : Ended(p)' = Ended(p)
  BY <1>1 DEF Ended, SpanOf
<1>5. \A p \in Spans : SpanOK(p)'
  BY <1>2, <1>4, SpanStaysOK, SlotOfSpan DEF RecInv
<1>6. SpansDiffer'
  BY <1>1, <1>4, SpansDifferStay DEF RecInv
<1>7. RecordTypes'
  BY <1>1 DEF RecInv, RecTypes, RecordTypes
<1> QED BY <1>2, <1>3, <1>5, <1>6, <1>7

\* The other checkouts in a step of one that records nothing.
LEMMA OthersStayOK ==
    ASSUME RecInv, Later, UNCHANGED records, NEW d \in Checkouts,
           pc'[d] = pc[d], started'[d] = started[d], called'[d] = called[d],
           payment'[d] = payment[d]
    PROVE  CheckoutOK(d)'
<1>1. CheckoutStays(d)
  BY RecordsStayOK, SlotsOfCheckout DEF CheckoutStays
<1> QED BY <1>1, CheckoutStaysOK DEF RecInv

\* The clock goes on, and every time that was read is in the past.
LEMMA TickKeeps == ASSUME RecInv, Tick PROVE RecInv'
<1>1. /\ now' = now + 1 /\ now < MaxNow /\ UNCHANGED <<seq, clientSeq, calls, records>>
  BY DEF Tick
<1>2. Later /\ ClockTypes'
  BY <1>1, ClocksAssumption DEF RecInv, RecTypes, ClockTypes, Later
<1>3. CallTypes'
  BY <1>1 DEF calls, RecInv, RecTypes, CallTypes
<1>4. \A d \in Checkouts : CheckoutOK(d)'
  BY <1>1, <1>2, OthersStayOK DEF calls
<1>5. StartsDiffer' /\ CallsDiffer' /\ StartsAreNoCalls'
  BY <1>1, DifferStay DEF RecInv, calls, records, Begun, Posted
<1> QED BY <1>1, <1>2, <1>3, <1>4, <1>5, RecordsStayOK DEF RecInv, RecTypes

\* Begin takes a number for the server event.
LEMMA BeginKeeps == ASSUME RecInv, NEW c \in Checkouts, Begin(c) PROVE RecInv'
<1>0. ClockTypes /\ CallTypes /\ RecordTypes
  BY DEF RecInv, RecTypes
<1>1. /\ pc[c] = "idle" /\ seq' = seq + 1 /\ UNCHANGED <<now, clientSeq, called, payment, hungUp>>
      /\ UNCHANGED records
      /\ started' = [started EXCEPT ![c] = <<now, seq'>>]
      /\ pc' = [pc EXCEPT ![c] = "body"]
  BY DEF Begin, Goto
<1>2. Later /\ ClockTypes'
  BY <1>0, <1>1, ClocksAssumption DEF ClockTypes, Later
<1>3. /\ started'[c] = <<now, seq'>> /\ pc'[c] = "body"
      /\ \A d \in Checkouts \ {c} : started'[d] = started[d] /\ pc'[d] = pc[d]
  BY <1>0, <1>1 DEF CallTypes
<1>4. CallTypes'
  <2>1. <<now, seq'>> \in Pair
    BY <1>0, <1>1 DEF ClockTypes, Pair
  <2> QED BY <1>0, <1>1, <2>1 DEF CallTypes
<1>5. ASSUME NEW d \in Checkouts PROVE CheckoutOK(d)'
  <2>1. CASE d # c
    BY <1>1, <1>2, <1>3, <2>1, OthersStayOK
  <2>2. CASE d = c
    <3>1. Blank(ClientOf(c)) /\ Blank(ServerOf(c)) /\ payment[c] \notin {"answered", "error"}
      BY <1>1 DEF RecInv, CheckoutOK, Posted
    <3>2. Blank(ClientOf(c))' /\ Blank(ServerOf(c))'
      BY <1>1, <1>2, <3>1, RecordsStayOK, SlotsOfCheckout DEF SlotStays
    <3>3. started'[c][1] \in 1..now' /\ started'[c][2] \in Numbers'
      BY <1>0, <1>1, <1>3, ClocksAssumption DEF ClockTypes, Numbers
    <3> QED BY <1>1, <1>3, <2>2, <3>1, <3>2, <3>3 DEF CheckoutOK, Posted
  <2> QED BY <2>1, <2>2
<1>6. ASSUME NEW d \in Checkouts PROVE /\ d # c /\ Begun(d) => started[d][2] # seq'
                                       /\ Posted(d) => ev[ClientOf(d)].id[2] # seq'
  <2>1. \A n \in Numbers : n # seq'
    BY <1>0, <1>1 DEF Numbers, ClockTypes
  <2> QED BY <2>1 DEF RecInv, CheckoutOK
<1>7. /\ \A d \in Checkouts : Posted(d)' => Posted(d) /\ d # c
      /\ \A d \in Checkouts \ {c} : Begun(d)' => Begun(d)
      /\ ev' = ev /\ started'[c][2] = seq'
  BY <1>1, <1>3 DEF Posted, Begun, records
<1>8. StartsDiffer'
  BY <1>3, <1>6, <1>7 DEF StartsDiffer, RecInv
<1>9. CallsDiffer'
  BY <1>7 DEF CallsDiffer, RecInv, ClientOf
<1>10. StartsAreNoCalls'
  BY <1>3, <1>6, <1>7 DEF StartsAreNoCalls, RecInv, ClientOf
<1> QED BY <1>1, <1>2, <1>4, <1>5, <1>8, <1>9, <1>10, RecordsStayOK DEF RecInv, RecTypes

\* A checkout reads on, calls the payment service or ends, and records nothing.
LEMMA QuietKeeps ==
    ASSUME RecInv, NEW c \in Checkouts, BodyFails(c) \/ Call(c) \/ PayBroken(c) PROVE RecInv'
<1>0. ClockTypes /\ CallTypes /\ RecordTypes
  BY DEF RecInv, RecTypes
<1>1. /\ pc[c] \in {"body", "pay"} /\ pc'[c] \in {"pay", "done"}
      /\ UNCHANGED <<clocks, started, records>>
      /\ called'[c] = called[c] \/ called'[c] = now
      /\ pc'[c] = "pay" => called'[c] = now
      /\ payment'[c] \notin {"answered", "error"}
      /\ \A d \in Checkouts \ {c} : /\ pc'[d] = pc[d] /\ called'[d] = called[d]
                                    /\ payment'[d] = payment[d]
  <2>1. payment[c] \notin {"answered", "error"} \/ Posted(c)
    BY DEF RecInv, CheckoutOK
  <2> QED BY <1>0, <2>1 DEF BodyFails, Call, PayBroken, Goto, CallTypes, Posted
<1>2. now' = now /\ seq' = seq /\ clientSeq' = clientSeq /\ Later /\ ClockTypes'
  BY <1>0, <1>1 DEF clocks, ClockTypes, Later
<1>3. CallTypes'
  BY <1>0 DEF BodyFails, Call, PayBroken, Goto, CallTypes, ClockTypes
<1>4. ASSUME NEW d \in Checkouts PROVE CheckoutOK(d)'
  <2>1. CASE d # c
    BY <1>1, <1>2, <2>1, OthersStayOK
  <2>2. CASE d = c
    <3>1. /\ Blank(ClientOf(c)) /\ Blank(ServerOf(c))
          /\ started[c][1] \in 1..now /\ started[c][2] \in Numbers
      BY <1>1 DEF RecInv, CheckoutOK, Posted, Begun
    <3>2. Blank(ClientOf(c))' /\ Blank(ServerOf(c))'
      BY <1>1, <1>2, <3>1, RecordsStayOK, SlotsOfCheckout DEF SlotStays
    <3>3. started'[c][1] \in 1..now' /\ started'[c][2] \in Numbers'
      BY <1>1, <1>2, <3>1 DEF Numbers
    <3>4. pc'[c] = "pay" => called'[c] \in started'[c][1]..now'
      BY <1>0, <1>1, <1>2, <3>1 DEF ClockTypes
    <3> QED BY <1>1, <2>2, <3>2, <3>3, <3>4 DEF CheckoutOK, Posted
  <2> QED BY <2>1, <2>2
<1>5. StartsDiffer' /\ CallsDiffer' /\ StartsAreNoCalls'
  BY <1>1, DifferStay DEF RecInv, records, Begun, Posted
<1> QED BY <1>1, <1>2, <1>3, <1>4, <1>5, RecordsStayOK DEF RecInv, RecTypes

\* What a Post does, cancelled or not.
Posts(s, e) ==
    /\ ev' = [ev EXCEPT ![s] = e] /\ stored' = stored
    /\ fate' = fate \/ fate' = [fate EXCEPT ![s] = "sent"]
    /\ told' = told \/ told' = [told EXCEPT ![s] = "error"]

\* A Post into a blank slot of a checkout disturbs nothing else.
LEMMA PostKeeps ==
    ASSUME RecInv, Later, NEW c \in Checkouts, NEW s, s = ClientOf(c) \/ s = ServerOf(c),
           Blank(s), NEW e \in EventSet, Posts(s, e)
    PROVE  /\ RecordTypes' /\ ev'[s] = e
           /\ \A z \in Slots \ {s} : SlotStays(z)
           /\ \A z \in Slots : StoreOK(z)'
           /\ \A p \in Spans : SpanOK(p)'
           /\ SpansDiffer'
<1>0. RecordTypes /\ s \in Slots
  BY SlotsOfCheckout DEF RecInv, RecTypes
<1>1. /\ ev' \in [Slots -> EventSet] /\ ev'[s] = e /\ stored' = stored
      /\ \A z \in Slots \ {s} : ev'[z] = ev[z]
  BY <1>0 DEF Posts, RecordTypes
<1>2. /\ fate' \in [Slots -> {"none", "sent", "saved"}]
      /\ told' \in [Slots -> {"none", "ok", "error"}]
      /\ fate'[s] # "saved" /\ told'[s] # "ok"
      /\ \A z \in Slots \ {s} : fate'[z] = fate[z] /\ told'[z] = told[z]
  BY <1>0 DEF Posts, RecordTypes, Blank
<1>3. s \notin stored
  BY <1>0 DEF RecInv, StoreOK, Blank
<1>4. RecordTypes'
  BY <1>0, <1>1, <1>2 DEF RecordTypes
<1>5. \A z \in Slots \ {s} : SlotStays(z)
  BY <1>1, <1>2 DEF SlotStays, Blank
<1>6. ASSUME NEW z \in Slots PROVE StoreOK(z)'
  <2>1. \A y \in stored : ev'[y] = ev[y]
    BY <1>0, <1>1, <1>3 DEF RecordTypes
  <2>2. fate[z] = "saved" => fate'[z] = "saved"
    BY <1>2 DEF Blank
  <2>3. told'[z] = "ok" => told[z] = "ok" /\ ev'[z] = ev[z]
    BY <1>1, <1>2
  <2> QED BY <1>1, <2>1, <2>2, <2>3, StoreStaysOK DEF RecInv
<1>7. ASSUME NEW p \in Spans PROVE SlotStays(SpanOf(p)) /\ Ended(p)' = Ended(p)
  <2>1. SpanOf(p) \in Slots \ {s}
    BY SlotOfSpan, KindsDiffer
  <2> QED BY <1>2, <1>5, <2>1 DEF Ended, SpanOf
<1>8. \A p \in Spans : SpanOK(p)'
  BY <1>7, SpanStaysOK DEF RecInv
<1>9. SpansDiffer'
  BY <1>7, SpansDifferStay DEF RecInv, SlotStays
<1> QED BY <1>1, <1>4, <1>5, <1>6, <1>8, <1>9

\* Pay takes a number for the event of the call.
LEMMA PayKeeps == ASSUME RecInv, NEW c \in Checkouts, Pay(c) PROVE RecInv'
<1>0. ClockTypes /\ CallTypes /\ RecordTypes /\ CheckoutOK(c)
  BY DEF RecInv, RecTypes
<1> DEFINE e == [id |-> <<called[c], seq'>>, ts |-> called[c], parent |-> started[c]]
<1>1. /\ pc[c] = "pay" /\ seq' = seq + 1 /\ UNCHANGED <<now, clientSeq, started, called>>
      /\ pc' = [pc EXCEPT ![c] = "recording"]
      /\ \E p \in {"answered", "error"} : payment' = [payment EXCEPT ![c] = p]
      /\ hungUp' \in SUBSET Checkouts
  BY <1>0 DEF Pay, Goto, HangUp, CallTypes
<1>2. Later /\ ClockTypes'
  BY <1>0, <1>1, ClocksAssumption DEF ClockTypes, Later
<1>3. /\ pc'[c] = "recording" /\ payment'[c] \in {"answered", "error"}
      /\ \A d \in Checkouts \ {c} : pc'[d] = pc[d] /\ payment'[d] = payment[d]
  BY <1>0, <1>1 DEF CallTypes
<1>4. CallTypes'
  BY <1>0, <1>1 DEF CallTypes
<1>5. Blank(ClientOf(c)) /\ Blank(ServerOf(c)) /\ ClientOf(c) \in Slots
  BY <1>0, <1>1, SlotsOfCheckout DEF CheckoutOK, Posted
<1>6. e \in EventSet
  BY <1>0, <1>1 DEF EventSet, Pair, ClockTypes, CallTypes
<1>7. Posts(ClientOf(c), e)
  BY DEF Pay, ClientOf, Post, Posts
<1> HIDE DEF e
<1>8. /\ RecordTypes' /\ ev'[ClientOf(c)] = e
      /\ \A z \in Slots \ {ClientOf(c)} : SlotStays(z)
      /\ \A z \in Slots : StoreOK(z)'
      /\ \A p \in Spans : SpanOK(p)'
      /\ SpansDiffer'
  BY <1>2, <1>5, <1>6, <1>7, PostKeeps
<1>9. ASSUME NEW d \in Checkouts, d # c PROVE CheckoutStays(d)
  <2>1. ClientOf(d) \in Slots \ {ClientOf(c)} /\ ServerOf(d) \in Slots \ {ClientOf(c)}
    BY <1>9, SlotsOfCheckout, SlotsDiffer, KindsDiffer
  <2> QED BY <1>1, <1>3, <1>8, <1>9, <2>1 DEF CheckoutStays
<1>10. ASSUME NEW d \in Checkouts PROVE CheckoutOK(d)'
  <2>1. CASE d # c
    BY <1>2, <1>9, <2>1, CheckoutStaysOK DEF RecInv
  <2>2. CASE d = c
    <3>1. /\ started[c][1] \in 1..now /\ started[c][2] \in Numbers
          /\ called[c] \in started[c][1]..now
      BY <1>0, <1>1 DEF CheckoutOK, Begun
    <3>2. Blank(ServerOf(c))'
      <4>1. ServerOf(c) \in Slots \ {ClientOf(c)}
        BY SlotsOfCheckout
      <4> QED BY <1>5, <1>8, <4>1 DEF SlotStays
    <3>3. /\ started'[c][1] \in 1..now' /\ started'[c][2] \in Numbers' /\ seq' \in Numbers'
          /\ called'[c] \in started'[c][1]..now'
      BY <1>0, <1>1, <3>1, ClocksAssumption DEF Numbers, ClockTypes
    <3>4. /\ ev'[ClientOf(c)].ts = called'[c] /\ ev'[ClientOf(c)].parent = started'[c]
          /\ ev'[ClientOf(c)].id[1] = called'[c] /\ ev'[ClientOf(c)].id[2] = seq'
      BY <1>1, <1>8 DEF e
    <3> QED BY <1>1, <1>3, <2>2, <3>2, <3>3, <3>4 DEF CheckoutOK, Posted, ClientOf, ServerOf
  <2> QED BY <2>1, <2>2
<1>11. ASSUME NEW d \in Checkouts PROVE /\ Begun(d) => started[d][2] # seq'
                                        /\ Posted(d) => ev[ClientOf(d)].id[2] # seq'
  <2>1. \A n \in Numbers : n # seq'
    BY <1>0, <1>1 DEF Numbers, ClockTypes
  <2> QED BY <2>1 DEF RecInv, CheckoutOK
<1>12. ev'[ClientOf(c)].id[2] = seq' /\ ~Posted(c)
  BY <1>1, <1>8 DEF e, Posted
<1>13. ASSUME NEW d \in Checkouts
       PROVE  /\ Begun(d)' => Begun(d) /\ started'[d] = started[d]
              /\ d # c /\ Posted(d)' => Posted(d) /\ ev'[ClientOf(d)] = ev[ClientOf(d)]
  BY <1>1, <1>3, <1>9 DEF Begun, Posted, CheckoutStays, SlotStays
<1>14. StartsDiffer'
  BY <1>13 DEF StartsDiffer, RecInv
<1>15. CallsDiffer'
  <2>1. ASSUME NEW a \in Checkouts, NEW b \in Checkouts, a # b, Posted(a)', Posted(b)'
        PROVE  ev'[ClientOf(a)].id[2] # ev'[ClientOf(b)].id[2]
    BY <1>11, <1>12, <1>13, <2>1 DEF RecInv, CallsDiffer
  <2> QED BY <2>1 DEF CallsDiffer, ClientOf
<1>16. StartsAreNoCalls'
  <2>1. ASSUME NEW a \in Checkouts, NEW b \in Checkouts, Begun(a)', Posted(b)'
        PROVE  started'[a][2] # ev'[ClientOf(b)].id[2]
    BY <1>11, <1>12, <1>13, <2>1 DEF RecInv, StartsAreNoCalls
  <2> QED BY <2>1 DEF StartsAreNoCalls, ClientOf
<1> QED BY <1>2, <1>4, <1>8, <1>10, <1>14, <1>15, <1>16 DEF RecInv, RecTypes

\* The server event bears the number that Begin took.
LEMMA RecordServerKeeps == ASSUME RecInv, NEW c \in Checkouts, RecordServer(c) PROVE RecInv'
<1>0. ClockTypes /\ CallTypes /\ RecordTypes /\ CheckoutOK(c)
  BY DEF RecInv, RecTypes
<1> DEFINE e == [id |-> started[c], ts |-> started[c][1], parent |-> NoId]
<1>1. /\ pc[c] = "recording" /\ UNCHANGED <<now, seq, clientSeq, started, called, payment>>
      /\ pc' = [pc EXCEPT ![c] = "finishing"]
      /\ hungUp' \in SUBSET Checkouts
  BY <1>0 DEF RecordServer, Goto, HangUp, CallTypes, clocks
<1>2. Later /\ ClockTypes'
  BY <1>0, <1>1, ClocksAssumption DEF ClockTypes, Later
<1>3. /\ pc'[c] = "finishing" /\ \A d \in Checkouts \ {c} : pc'[d] = pc[d]
  BY <1>0, <1>1 DEF CallTypes
<1>4. CallTypes'
  BY <1>0, <1>1 DEF CallTypes
<1>5. Blank(ServerOf(c)) /\ ServerOf(c) \in Slots
  BY <1>0, <1>1, SlotsOfCheckout DEF CheckoutOK
<1>6. e \in EventSet
  <2>1. started[c] \in Pair /\ NoId \in Pair
    BY <1>0 DEF CallTypes, Pair, NoId
  <2>2. started[c][1] \in Nat
    BY <2>1 DEF Pair
  <2> QED BY <2>1, <2>2 DEF EventSet
<1>7. Posts(ServerOf(c), e)
  BY DEF RecordServer, ServerOf, ServerEvent, Post, Posts
<1> HIDE DEF e
<1>8. /\ RecordTypes' /\ ev'[ServerOf(c)] = e
      /\ \A z \in Slots \ {ServerOf(c)} : SlotStays(z)
      /\ \A z \in Slots : StoreOK(z)'
      /\ \A p \in Spans : SpanOK(p)'
      /\ SpansDiffer'
  BY <1>2, <1>5, <1>6, <1>7, PostKeeps
<1>9. ASSUME NEW d \in Checkouts PROVE SlotStays(ClientOf(d)) /\ (d # c => SlotStays(ServerOf(d)))
  BY <1>8, SlotsOfCheckout, SlotsDiffer, KindsDiffer
<1>10. ASSUME NEW d \in Checkouts PROVE CheckoutOK(d)'
  <2>1. CASE d # c
    <3>1. CheckoutStays(d)
      BY <1>1, <1>3, <1>9, <2>1 DEF CheckoutStays
    <3> QED BY <1>2, <3>1, CheckoutStaysOK DEF RecInv
  <2>2. CASE d = c
    <3>1. /\ started[c][1] \in 1..now /\ started[c][2] \in Numbers
          /\ called[c] \in started[c][1]..now
          /\ payment[c] \in {"answered", "error"}
          /\ ev[ClientOf(c)].ts = called[c] /\ ev[ClientOf(c)].parent = started[c]
          /\ ev[ClientOf(c)].id[1] = called[c] /\ ev[ClientOf(c)].id[2] \in Numbers
      BY <1>0, <1>1 DEF CheckoutOK, Begun, Posted
    <3>2. ev'[ClientOf(c)] = ev[ClientOf(c)]
      BY <1>9 DEF SlotStays
    <3>3. Numbers' = Numbers
      BY <1>1 DEF Numbers
    <3>4. ev'[ServerOf(c)] = [id |-> started'[c], ts |-> started'[c][1], parent |-> NoId]
      BY <1>1, <1>8 DEF e
    <3> QED BY <1>1, <1>3, <2>2, <3>1, <3>2, <3>3, <3>4 DEF CheckoutOK, Posted, ClientOf, ServerOf
  <2> QED BY <2>1, <2>2
<1>11. StartsDiffer' /\ CallsDiffer' /\ StartsAreNoCalls'
  <2>1. ASSUME NEW d \in Checkouts
        PROVE  /\ Begun(d)' => Begun(d) /\ started'[d] = started[d]
               /\ Posted(d)' => Posted(d) /\ ev'[ClientOf(d)] = ev[ClientOf(d)]
    BY <1>1, <1>3, <1>9 DEF Begun, Posted, SlotStays
  <2> QED BY <2>1, DifferStay DEF RecInv
<1> QED BY <1>2, <1>4, <1>8, <1>10, <1>11 DEF RecInv, RecTypes

\* A slot that was sent is of a checkout; when it settles, no event changes.
LEMMA SettleKeeps ==
    ASSUME RecInv, NEW s \in Slots, fate[s] = "sent", UNCHANGED <<clocks, calls, ev>>,
           fate'[s] \in {"sent", "saved"}, RecordTypes', \A z \in Slots : StoreOK(z)',
           \A z \in Slots \ {s} : fate'[z] = fate[z] /\ told'[z] = told[z]
    PROVE  RecInv'
<1>0. ClockTypes /\ CallTypes /\ RecordTypes
  BY DEF RecInv, RecTypes
<1>1. /\ now' = now /\ seq' = seq /\ clientSeq' = clientSeq /\ Later /\ ClockTypes'
      /\ pc' = pc /\ started' = started /\ called' = called /\ payment' = payment
      /\ CallTypes' /\ ev' = ev
  BY <1>0 DEF clocks, calls, ClockTypes, CallTypes, Later
<1>2. \A z \in Slots : SlotStays(z)
  BY <1>1 DEF SlotStays, Blank
<1>3. \A d \in Checkouts : CheckoutOK(d)'
  <2>1. \A d \in Checkouts : CheckoutStays(d)
    BY <1>1, <1>2, SlotsOfCheckout DEF CheckoutStays
  <2> QED BY <1>1, <2>1, CheckoutStaysOK DEF RecInv
<1>4. ASSUME NEW p \in Spans PROVE SpanOf(p) \in Slots \ {s} /\ Ended(p)' = Ended(p)
  <2>1. SpanOf(p) # s
    BY DEF RecInv, SpanOK, Ended, Blank
  <2> QED BY <2>1, SlotOfSpan DEF Ended, SpanOf
<1>5. \A p \in Spans : SpanOK(p)'
  BY <1>1, <1>2, <1>4, SpanStaysOK DEF RecInv
<1>6. StartsDiffer' /\ CallsDiffer' /\ StartsAreNoCalls'
  BY <1>1, DifferStay DEF RecInv, Begun, Posted
<1>7. SpansDiffer'
  BY <1>1, <1>4, SpansDifferStay DEF RecInv
<1> QED BY <1>1, <1>3, <1>5, <1>6, <1>7 DEF RecInv, RecTypes

\* A saved event is stored, or another has its key.
LEMMA SaveKeeps == ASSUME RecInv, NEW s \in Slots, Save(s) PROVE RecInv'
<1>0. RecordTypes /\ StoreOK(s)
  BY DEF RecInv, RecTypes
<1>1. /\ fate[s] = "sent" /\ fate'[s] = "saved" /\ ev' = ev
      /\ UNCHANGED <<clocks, calls, ev>>
      /\ \A z \in Slots \ {s} : fate'[z] = fate[z] /\ told'[z] = told[z]
      /\ stored \subseteq stored' /\ stored' \subseteq stored \union {s}
      /\ s \in stored' \/ KeyTaken(s)
  BY <1>0 DEF Save, Answer, RecordTypes, KeyTaken
<1>2. RecordTypes'
  BY <1>0, <1>1 DEF Save, Answer, RecordTypes
<1>3. KeyTaken(s) => KeyTaken(s)'
  BY <1>1 DEF KeyTaken, Key
<1>4. ASSUME NEW z \in Slots PROVE StoreOK(z)'
  <2>1. CASE z = s
    BY <1>1, <1>3, <2>1 DEF StoreOK
  <2>2. CASE z # s
    <3>1. /\ z \in stored' => z \in stored
          /\ fate[z] = "saved" => fate'[z] = "saved"
          /\ told'[z] = "ok" => told[z] = "ok" /\ ev'[z] = ev[z]
          /\ \A y \in stored : ev'[y] = ev[y]
      BY <1>1, <2>2
    <3> QED BY <1>1, <3>1, StoreStaysOK DEF RecInv
  <2> QED BY <2>1, <2>2
<1> QED BY <1>1, <1>2, <1>4, SettleKeeps

\* A Record that gives up is not accepted.
LEMMA GiveUpKeeps == ASSUME RecInv, NEW s \in Slots, GiveUp(s) PROVE RecInv'
<1>0. RecordTypes /\ StoreOK(s)
  BY DEF RecInv, RecTypes
<1>1. /\ fate[s] = "sent" /\ fate' = fate /\ ev' = ev /\ stored' = stored
      /\ UNCHANGED <<clocks, calls, ev>>
      /\ told'[s] = "error" /\ \A z \in Slots \ {s} : told'[z] = told[z]
  BY <1>0 DEF GiveUp, RecordTypes
<1>2. RecordTypes'
  BY <1>0 DEF GiveUp, RecordTypes
<1>3. ASSUME NEW z \in Slots PROVE StoreOK(z)'
  <2>1. told'[z] = "ok" => told[z] = "ok"
    BY <1>1
  <2> QED BY <1>1, <2>1, StoreStaysOK DEF RecInv
<1> QED BY <1>1, <1>2, <1>3, SettleKeeps

\* A span takes a number of the client's counter.
LEMMA SpanEndKeeps == ASSUME RecInv, NEW p \in Spans, SpanEnd(p) PROVE RecInv'
<1>0. ClockTypes /\ CallTypes /\ RecordTypes
  BY DEF RecInv, RecTypes
<1> DEFINE s == SpanOf(p)
           e == [id |-> <<now, clientSeq + 1>>, ts |-> now, parent |-> NoId]
<1>1. /\ fate[s] = "none" /\ UNCHANGED <<now, seq, calls>>
      /\ clientSeq' = clientSeq + 1
      /\ ev' = [ev EXCEPT ![s] = e]
      /\ fate' = [fate EXCEPT ![s] = "saved"]
      /\ told' = [told EXCEPT ![s] = "ok"]
      /\ stored' = IF \E z \in stored : Key(z) = <<TraceOf[p], e.id>> THEN stored
                   ELSE stored \union {s}
  BY DEF SpanEnd, SpanOf
<1>2. s \in Slots /\ s[1] = p /\ e \in EventSet
  <2>1. e \in EventSet
    BY <1>0 DEF EventSet, Pair, NoId, ClockTypes
  <2> QED BY <2>1, SlotOfSpan
<1>3. e.id = <<now, clientSeq'>> /\ e.ts = now /\ e.parent = NoId
  BY <1>1
<1> HIDE DEF s, e
<1>4. /\ ev'[s] = e /\ fate'[s] = "saved" /\ told'[s] = "ok"
      /\ \A z \in Slots \ {s} : ev'[z] = ev[z] /\ fate'[z] = fate[z] /\ told'[z] = told[z]
      /\ stored \subseteq stored' /\ stored' \subseteq stored \union {s}
  BY <1>0, <1>1, <1>2 DEF RecordTypes
<1>5. /\ pc' = pc /\ started' = started /\ called' = called /\ payment' = payment
      /\ CallTypes' /\ Later /\ ClockTypes'
  BY <1>0, <1>1, ClocksAssumption DEF calls, CallTypes, ClockTypes, Later
<1>6. RecordTypes'
  BY <1>0, <1>1, <1>2 DEF RecordTypes
<1>7. \A z \in Slots \ {s} : SlotStays(z)
  BY <1>4 DEF SlotStays, Blank
<1>8. \A d \in Checkouts : ClientOf(d) \in Slots \ {s} /\ ServerOf(d) \in Slots \ {s}
  BY SlotsOfCheckout, KindsDiffer DEF s
<1>9. \A d \in Checkouts : CheckoutOK(d)'
  <2>1. \A d \in Checkouts : CheckoutStays(d)
    BY <1>5, <1>7, <1>8 DEF CheckoutStays
  <2> QED BY <1>5, <2>1, CheckoutStaysOK DEF RecInv
<1>10. StartsDiffer' /\ CallsDiffer' /\ StartsAreNoCalls'
  <2>1. ASSUME NEW d \in Checkouts
        PROVE  /\ Begun(d)' => Begun(d) /\ started'[d] = started[d]
               /\ Posted(d)' => Posted(d) /\ ev'[ClientOf(d)] = ev[ClientOf(d)]
    BY <1>4, <1>5, <1>8 DEF Begun, Posted
  <2> QED BY <2>1, DifferStay DEF RecInv
<1>11. s \notin stored
  BY <1>1, <1>2 DEF RecInv, StoreOK
<1>12. ASSUME NEW z \in Slots PROVE StoreOK(z)'
  <2>0. \A y \in stored : ev'[y] = ev[y]
    BY <1>0, <1>4, <1>11 DEF RecordTypes
  <2>1. CASE z = s
    <3>1. Key(s)' = <<TraceOf[p], e.id>>
      BY <1>2, <1>4 DEF Key, s
    <3>2. \A y \in stored : Key(y)' = Key(y)
      BY <2>0 DEF Key
    <3>3. s \notin stored' => \E y \in stored : Key(y) = <<TraceOf[p], e.id>>
      BY <1>1
    <3>4. s \notin stored' => KeyTaken(s)'
      BY <1>4, <3>1, <3>2, <3>3 DEF KeyTaken
    <3> QED BY <1>4, <2>1, <3>4 DEF StoreOK
  <2>2. CASE z # s
    <3>1. /\ z \in stored' => z \in stored
          /\ fate[z] = "saved" => fate'[z] = "saved"
          /\ told'[z] = "ok" => told[z] = "ok" /\ ev'[z] = ev[z]
      BY <1>4, <2>2
    <3> QED BY <1>4, <2>0, <3>1, StoreStaysOK DEF RecInv
  <2> QED BY <2>1, <2>2
<1>13. ASSUME NEW q \in Spans, q # p
       PROVE  SlotStays(SpanOf(q)) /\ Ended(q)' = Ended(q) /\ ev'[SpanOf(q)] = ev[SpanOf(q)]
  <2>1. SpanOf(q) \in Slots \ {s}
    BY <1>13, SlotOfSpan, SlotsDiffer DEF s
  <2> QED BY <1>4, <1>7, <2>1 DEF Ended, SpanOf
<1>14. ASSUME NEW q \in Spans PROVE SpanOK(q)'
  <2>1. CASE q # p
    BY <1>5, <1>13, <2>1, SpanStaysOK DEF RecInv
  <2>2. CASE q = p
    <3>1. now' \in 1..now' /\ clientSeq' \in ClientNumbers'
      BY <1>0, <1>1, ClocksAssumption DEF ClockTypes, ClientNumbers
    <3>2. /\ ev'[s].ts = now' /\ ev'[s].id[1] = now' /\ ev'[s].id[2] = clientSeq'
          /\ ev'[s].parent = NoId
      BY <1>1, <1>3, <1>4
    <3> QED BY <1>4, <2>2, <3>1, <3>2 DEF SpanOK, Ended, SpanOf, s
  <2> QED BY <2>1, <2>2
<1>15. ASSUME NEW q \in Spans, q # p, Ended(q) PROVE ev[SpanOf(q)].id[2] # clientSeq'
  BY <1>0, <1>1, <1>15 DEF RecInv, SpanOK, ClientNumbers, ClockTypes
<1>16. ev'[s].id[2] = clientSeq'
  BY <1>3, <1>4
<1>17. SpansDiffer'
  <2>1. ASSUME NEW a \in Spans, NEW b \in Spans, a # b, Ended(a)', Ended(b)'
        PROVE  ev'[SpanOf(a)].id[2] # ev'[SpanOf(b)].id[2]
    <3>1. CASE a = p
      BY <1>13, <1>15, <1>16, <2>1, <3>1 DEF s
    <3>2. CASE b = p
      BY <1>13, <1>15, <1>16, <2>1, <3>2 DEF s
    <3>3. CASE a # p /\ b # p
      BY <1>13, <2>1, <3>3 DEF RecInv, SpansDiffer
    <3> QED BY <3>1, <3>2, <3>3
  <2> QED BY <2>1 DEF SpansDiffer, SpanOf
<1> QED BY <1>5, <1>6, <1>9, <1>10, <1>12, <1>14, <1>17 DEF RecInv, RecTypes

\* Every step of Recording keeps the invariant.
LEMMA RecNext == RecInv /\ [Next]_vars => RecInv'
<1> SUFFICES ASSUME RecInv, [Next]_vars PROVE RecInv'
  OBVIOUS
<1>1. CASE Tick
  BY <1>1, TickKeeps
<1>2. CASE \E c \in Checkouts : Checkout(c)
  BY <1>2, BeginKeeps, QuietKeeps, PayKeeps, RecordServerKeeps DEF Checkout
<1>3. CASE \E p \in Spans : SpanEnd(p)
  BY <1>3, SpanEndKeeps
<1>4. CASE \E s \in Slots : Save(s) \/ GiveUp(s)
  BY <1>4, SaveKeeps, GiveUpKeeps
<1>5. CASE UNCHANGED vars
  <2>1. UNCHANGED <<now, seq, clientSeq, pc, started, called, payment, hungUp>>
    BY <1>5 DEF vars
  <2>2. Later /\ ClockTypes' /\ CallTypes' /\ UNCHANGED records
    BY <1>5 DEF vars, records, RecInv, RecTypes, ClockTypes, CallTypes, Later
  <2>3. \A d \in Checkouts : CheckoutOK(d)'
    BY <2>1, <2>2, OthersStayOK
  <2>4. StartsDiffer' /\ CallsDiffer' /\ StartsAreNoCalls'
    BY <2>1, <2>2, DifferStay DEF RecInv, records, Begun, Posted
  <2> QED BY <2>2, <2>3, <2>4, RecordsStayOK DEF RecInv, RecTypes
<1> QED BY <1>1, <1>2, <1>3, <1>4, <1>5 DEF Next

----------------------------------------------------------------------------
(* What the store says of what was recorded.                               *)

\* Every step of the slice is one of Recording or leaves it alone.
LEMMA SliceSteps == ASSUME [SNext]_svars PROVE [Next]_vars
BY DEF SNext, Replay, svars

\* Listing and replaying leave the recording alone.
LEMMA SliceRecInv == SSpec => []RecInv
<1>1. SInit => RecInv
  BY RecInit DEF SInit
<1>2. RecInv /\ [SNext]_svars => RecInv'
  BY RecNext, SliceSteps
<1> QED BY <1>1, <1>2, PTL DEF SSpec

\* Where the event of a slot that is not blank comes from.
LEMMA Recorded ==
    ASSUME RecInv, NEW s \in Slots, ~Blank(s)
    PROVE  \/ \E c \in Checkouts : s = ClientOf(c) /\ Posted(c)
           \/ \E c \in Checkouts : s = ServerOf(c) /\ pc[c] = "finishing"
           \/ \E p \in Spans : s = SpanOf(p) /\ Ended(p)
BY SlotCases DEF RecInv, CheckoutOK, SpanOK

\* A server event is the one Begin numbered.
LEMMA ServerEventOf ==
    ASSUME RecInv, NEW c \in Checkouts, pc[c] = "finishing"
    PROVE  /\ ev[ServerOf(c)].id = started[c] /\ ev[ServerOf(c)].ts = started[c][1]
           /\ ev[ServerOf(c)].parent = NoId /\ Begun(c)
<1>1. ev[ServerOf(c)] = [id |-> started[c], ts |-> started[c][1], parent |-> NoId]
  BY DEF RecInv, CheckoutOK
<1> QED BY <1>1 DEF Begun

\* Its id begins with its timestamp.
LEMMA IdOfTime ==
    ASSUME RecInv, NEW s \in Slots, ~Blank(s)
    PROVE  ev[s].id[1] = ev[s].ts
<1>1. CASE \E c \in Checkouts : s = ClientOf(c) /\ Posted(c)
  BY <1>1 DEF RecInv, CheckoutOK
<1>2. CASE \E c \in Checkouts : s = ServerOf(c) /\ pc[c] = "finishing"
  BY <1>2, ServerEventOf
<1>3. CASE \E p \in Spans : s = SpanOf(p) /\ Ended(p)
  BY <1>3 DEF RecInv, SpanOK
<1> QED BY <1>1, <1>2, <1>3, Recorded

\* One counter numbers no two events alike.
LEMMA OneCounter ==
    ASSUME RecInv, NEW s \in Slots, NEW z \in Slots, s # z, ~Blank(s), ~Blank(z),
           Counter(s) = Counter(z)
    PROVE  ev[s].id[2] # ev[z].id[2]
<1>1. ASSUME NEW c \in Checkouts, s = ClientOf(c), Posted(c)
      PROVE  ev[s].id[2] # ev[z].id[2]
  <2>1. ASSUME NEW d \in Checkouts, z = ClientOf(d), Posted(d) PROVE ev[s].id[2] # ev[z].id[2]
    BY <1>1, <2>1 DEF RecInv, CallsDiffer
  <2>2. ASSUME NEW d \in Checkouts, z = ServerOf(d), pc[d] = "finishing"
        PROVE  ev[s].id[2] # ev[z].id[2]
    BY <1>1, <2>2, ServerEventOf DEF RecInv, StartsAreNoCalls
  <2>3. ASSUME NEW p \in Spans, z = SpanOf(p) PROVE FALSE
    BY <1>1, <2>3, SlotsOfCheckout, SlotOfSpan DEF Counter
  <2> QED BY <2>1, <2>2, <2>3, Recorded
<1>2. ASSUME NEW c \in Checkouts, s = ServerOf(c), pc[c] = "finishing"
      PROVE  ev[s].id[2] # ev[z].id[2]
  <2>1. ASSUME NEW d \in Checkouts, z = ClientOf(d), Posted(d) PROVE ev[s].id[2] # ev[z].id[2]
    BY <1>2, <2>1, ServerEventOf DEF RecInv, StartsAreNoCalls
  <2>2. ASSUME NEW d \in Checkouts, z = ServerOf(d), pc[d] = "finishing"
        PROVE  ev[s].id[2] # ev[z].id[2]
    BY <1>2, <2>2, ServerEventOf DEF RecInv, StartsDiffer
  <2>3. ASSUME NEW p \in Spans, z = SpanOf(p) PROVE FALSE
    BY <1>2, <2>3, SlotsOfCheckout, SlotOfSpan DEF Counter
  <2> QED BY <2>1, <2>2, <2>3, Recorded
<1>3. ASSUME NEW p \in Spans, s = SpanOf(p), Ended(p) PROVE ev[s].id[2] # ev[z].id[2]
  <2>1. ASSUME NEW d \in Checkouts, z = ClientOf(d) \/ z = ServerOf(d) PROVE FALSE
    BY <1>3, <2>1, SlotsOfCheckout, SlotOfSpan DEF Counter
  <2>2. ASSUME NEW q \in Spans, z = SpanOf(q), Ended(q) PROVE ev[s].id[2] # ev[z].id[2]
    BY <1>3, <2>2 DEF RecInv, SpansDiffer
  <2> QED BY <2>1, <2>2, Recorded
<1> QED BY <1>1, <1>2, <1>3, Recorded

\* An event Record returned nil for is in the store, unless another counter's
\* event has its id: no checkout or SDK client displaces an event of its own
\* by INSERT OR IGNORE.
THEOREM AcceptedEventsAreStored == SSpec => []AcceptedUnlessIdTaken
<1>1. RecInv => AcceptedUnlessIdTaken
  <2> SUFFICES ASSUME RecInv, NEW s \in Slots, told[s] = "ok", s \notin stored
               PROVE  \E z \in stored : Key(z) = Key(s) /\ Counter(z) # Counter(s)
    BY DEF AcceptedUnlessIdTaken
  <2>1. fate[s] = "saved" /\ KeyTaken(s)
    BY DEF RecInv, StoreOK
  <2>2. PICK z \in stored : Key(z) = Key(s)
    BY <2>1 DEF KeyTaken
  <2>3. z \in Slots /\ fate[z] = "saved" /\ z # s
    BY <2>2 DEF RecInv, RecTypes, RecordTypes, StoreOK
  <2>4. ev[z].id[2] = ev[s].id[2]
    BY <2>2 DEF Key
  <2>5. ~Blank(s) /\ ~Blank(z)
    BY <2>1, <2>3 DEF Blank
  <2>6. Counter(z) # Counter(s)
    BY <2>3, <2>4, <2>5, OneCounter
  <2> QED BY <2>2, <2>6
<1> QED BY <1>1, SliceRecInv, PTL

\* In the causal graph of the store the only orphans are the calls of
\* checkouts whose server event was not accepted, and no event is before its
\* parent: the server event keeps the time at which the checkout began.
THEOREM OrphansHaveAReason == SSpec => []OrphansAreUnfinished
<1>1. RecInv => OrphansAreUnfinished
  <2> SUFFICES ASSUME RecInv, NEW s \in stored, ev[s].parent # NoId
               PROVE  IF Parents(s) = {} THEN told[<<s[1], "server">>] # "ok"
                      ELSE \A z \in Parents(s) : ev[z].ts <= ev[s].ts
    BY DEF OrphansAreUnfinished
  <2>0. /\ CallTypes /\ \A z \in stored : z \in Slots /\ fate[z] = "saved" /\ ~Blank(z)
    BY DEF RecInv, RecTypes, RecordTypes, StoreOK, Blank
  <2>1. PICK c \in Checkouts : s = ClientOf(c) /\ Posted(c)
    <3>1. ~\E d \in Checkouts : s = ServerOf(d) /\ pc[d] = "finishing"
      BY ServerEventOf
    <3>2. ~\E p \in Spans : s = SpanOf(p) /\ Ended(p)
      BY DEF RecInv, SpanOK
    <3> QED BY <2>0, <3>1, <3>2, Recorded
  <2>2. /\ ev[s].parent = started[c] /\ ev[s].ts = called[c]
        /\ called[c] \in started[c][1]..now
    BY <2>1 DEF RecInv, CheckoutOK
  <2>3. ClientOf(c)[1] = c /\ <<c, "server">> = ServerOf(c) /\ ServerOf(c) \in Slots
        /\ ServerOf(c)[1] = c
    BY SlotsOfCheckout DEF ServerOf
  <2>4. ASSUME told[ServerOf(c)] = "ok" PROVE Parents(s) # {}
    <3>1. pc[c] = "finishing" /\ (ServerOf(c) \in stored \/ KeyTaken(ServerOf(c)))
      <4>1. ~Blank(ServerOf(c))
        BY <2>4 DEF Blank
      <4> QED BY <2>3, <2>4, <4>1 DEF RecInv, CheckoutOK, StoreOK
    <3>2. Key(ServerOf(c)) = <<TraceOf[s[1]], ev[s].parent>>
      <4>1. ev[ServerOf(c)].id = started[c]
        BY <3>1, ServerEventOf
      <4> QED BY <2>1, <2>2, <2>3, <4>1 DEF Key
    <3> QED BY <3>1, <3>2 DEF Parents, KeyTaken
  <2>5. ASSUME NEW z \in Parents(s) PROVE ev[z].ts <= ev[s].ts
    <3>1. z \in stored /\ ev[z].id = started[c]
      BY <2>2 DEF Parents, Key
    <3>2. ev[z].ts = started[c][1]
      BY <2>0, <3>1, IdOfTime
    <3>3. started[c][1] \in Int /\ now \in Int
      BY <2>0, <2>1 DEF CallTypes, Pair, RecInv, RecTypes, ClockTypes
    <3> QED BY <2>2, <3>2, <3>3
  <2> QED BY <2>1, <2>3, <2>4, <2>5
<1> QED BY <1>1, SliceRecInv, PTL

----------------------------------------------------------------------------
(* How far the counters are.                                               *)

BegunCalls == {c \in Checkouts : Begun(c)}
PostedCalls == {c \in Checkouts : Posted(c)}
EndedSpans == {p \in Spans : Ended(p)}
Counted == /\ seq = FirstSeq + Cardinality(BegunCalls) + Cardinality(PostedCalls)
           /\ clientSeq = FirstSeq + Cardinality(EndedSpans)

\* The sets that are counted.
LEMMA CountedSets ==
    /\ IsFiniteSet(BegunCalls) /\ Cardinality(BegunCalls) \in Nat
    /\ Cardinality(BegunCalls) <= Cardinality(Checkouts)
    /\ IsFiniteSet(PostedCalls) /\ Cardinality(PostedCalls) \in Nat
    /\ Cardinality(PostedCalls) <= Cardinality(Checkouts)
    /\ IsFiniteSet(EndedSpans) /\ Cardinality(EndedSpans) \in Nat
    /\ Cardinality(EndedSpans) <= Cardinality(Spans)
    /\ Cardinality(Checkouts) \in Nat /\ Cardinality(Spans) \in Nat
<1>1. BegunCalls \in SUBSET Checkouts /\ PostedCalls \in SUBSET Checkouts
      /\ EndedSpans \in SUBSET Spans
  BY DEF BegunCalls, PostedCalls, EndedSpans
<1>2. IsFiniteSet(Checkouts) /\ IsFiniteSet(Spans)
  BY CallsAssumption
<1>3. IsFiniteSet(BegunCalls) /\ Cardinality(BegunCalls) <= Cardinality(Checkouts)
  BY <1>1, <1>2, FS_Subset
<1>4. IsFiniteSet(PostedCalls) /\ Cardinality(PostedCalls) <= Cardinality(Checkouts)
  BY <1>1, <1>2, FS_Subset
<1>5. IsFiniteSet(EndedSpans) /\ Cardinality(EndedSpans) <= Cardinality(Spans)
  BY <1>1, <1>2, FS_Subset
<1> QED BY <1>2, <1>3, <1>4, <1>5, FS_CardinalityType

\* A step that begins, posts and ends nothing.
LEMMA CountedStays ==
    ASSUME Counted, seq' = seq, clientSeq' = clientSeq,
           \A c \in Checkouts : Begun(c)' = Begun(c) /\ Posted(c)' = Posted(c),
           \A p \in Spans : Ended(p)' = Ended(p)
    PROVE  Counted'
<1>1. BegunCalls' = BegunCalls /\ PostedCalls' = PostedCalls /\ EndedSpans' = EndedSpans
  BY DEF BegunCalls, PostedCalls, EndedSpans
<1> QED BY <1>1 DEF Counted

\* A number that is taken is one more event.
LEMMA CountedNext == RecInv /\ Counted /\ [Next]_vars => Counted'
<1> SUFFICES ASSUME RecInv, Counted, [Next]_vars PROVE Counted'
  OBVIOUS
<1>0. ClockTypes /\ CallTypes /\ RecordTypes
  BY DEF RecInv, RecTypes
<1>1. CASE UNCHANGED vars \/ Tick
  <2>1. seq' = seq /\ clientSeq' = clientSeq /\ pc' = pc /\ fate' = fate
    BY <1>1 DEF vars, Tick, calls, records
  <2> QED BY <2>1, CountedStays DEF Begun, Posted, Ended, SpanOf
<1>2. ASSUME NEW c \in Checkouts, Begin(c) PROVE Counted'
  <2>1. /\ pc[c] = "idle" /\ pc' = [pc EXCEPT ![c] = "body"]
        /\ seq' = seq + 1 /\ clientSeq' = clientSeq /\ fate' = fate
    BY <1>2 DEF Begin, Goto, records
  <2>2. BegunCalls' = BegunCalls \cup {c} /\ c \notin BegunCalls
    BY <1>0, <2>1 DEF BegunCalls, Begun, CallTypes
  <2>3. PostedCalls' = PostedCalls
    BY <1>0, <2>1 DEF PostedCalls, Posted, CallTypes
  <2>4. EndedSpans' = EndedSpans
    BY <2>1 DEF EndedSpans, Ended, SpanOf
  <2>5. Cardinality(BegunCalls') = Cardinality(BegunCalls) + 1
    BY <2>2, CountedSets, FS_AddElement
  <2> QED BY <1>0, <2>1, <2>3, <2>4, <2>5, CountedSets, ClocksAssumption DEF Counted
<1>3. ASSUME NEW c \in Checkouts, Pay(c) PROVE Counted'
  <2>1. /\ pc[c] = "pay" /\ pc' = [pc EXCEPT ![c] = "recording"]
        /\ seq' = seq + 1 /\ clientSeq' = clientSeq
        /\ fate' = fate \/ fate' = [fate EXCEPT ![ClientOf(c)] = "sent"]
    BY <1>3 DEF Pay, Goto, Post, ClientOf
  <2>2. PostedCalls' = PostedCalls \cup {c} /\ c \notin PostedCalls
    BY <1>0, <2>1 DEF PostedCalls, Posted, CallTypes
  <2>3. BegunCalls' = BegunCalls
    BY <1>0, <2>1 DEF BegunCalls, Begun, CallTypes
  <2>4. \A p \in Spans : Ended(p)' = Ended(p)
    <3>1. ASSUME NEW p \in Spans PROVE fate'[SpanOf(p)] = fate[SpanOf(p)]
      <4>1. SpanOf(p) \in Slots /\ ClientOf(c) # SpanOf(p)
        BY SlotOfSpan, KindsDiffer
      <4>2. fate \in [Slots -> {"none", "sent", "saved"}]
        BY <1>0 DEF RecordTypes
      <4> QED BY <2>1, <4>1, <4>2
    <3> QED BY <3>1 DEF Ended, SpanOf
  <2>5. EndedSpans' = EndedSpans
    BY <2>4 DEF EndedSpans
  <2>6. Cardinality(PostedCalls') = Cardinality(PostedCalls) + 1
    BY <2>2, CountedSets, FS_AddElement
  <2> QED BY <1>0, <2>1, <2>3, <2>5, <2>6, CountedSets, ClocksAssumption DEF Counted
<1>4. ASSUME NEW c \in Checkouts, BodyFails(c) \/ Call(c) \/ PayBroken(c) PROVE Counted'
  <2>1. /\ pc[c] \in {"body", "pay"}
        /\ \E l \in {"pay", "done"} : pc' = [pc EXCEPT ![c] = l]
        /\ seq' = seq /\ clientSeq' = clientSeq /\ fate' = fate
    BY <1>4 DEF BodyFails, Call, PayBroken, Goto, clocks, records
  <2>2. \A d \in Checkouts : Begun(d)' = Begun(d) /\ Posted(d)' = Posted(d)
    BY <1>0, <2>1 DEF Begun, Posted, CallTypes
  <2> QED BY <2>1, <2>2, CountedStays DEF Ended, SpanOf
<1>5. ASSUME NEW c \in Checkouts, RecordServer(c) PROVE Counted'
  <2>1. /\ pc[c] = "recording" /\ pc' = [pc EXCEPT ![c] = "finishing"]
        /\ seq' = seq /\ clientSeq' = clientSeq
        /\ fate' = fate \/ fate' = [fate EXCEPT ![ServerOf(c)] = "sent"]
    BY <1>5 DEF RecordServer, Goto, Post, ServerOf, clocks
  <2>2. \A d \in Checkouts : Begun(d)' = Begun(d) /\ Posted(d)' = Posted(d)
    BY <1>0, <2>1 DEF Begun, Posted, CallTypes
  <2>3. \A p \in Spans : Ended(p)' = Ended(p)
    <3>1. ASSUME NEW p \in Spans PROVE fate'[SpanOf(p)] = fate[SpanOf(p)]
      <4>1. SpanOf(p) \in Slots /\ ServerOf(c) # SpanOf(p)
        BY SlotOfSpan, KindsDiffer
      <4>2. fate \in [Slots -> {"none", "sent", "saved"}]
        BY <1>0 DEF RecordTypes
      <4> QED BY <2>1, <4>1, <4>2
    <3> QED BY <3>1 DEF Ended, SpanOf
  <2> QED BY <2>1, <2>2, <2>3, CountedStays
<1>6. ASSUME NEW p \in Spans, SpanEnd(p) PROVE Counted'
  <2>1. /\ fate[SpanOf(p)] = "none" /\ fate' = [fate EXCEPT ![SpanOf(p)] = "saved"]
        /\ clientSeq' = clientSeq + 1 /\ seq' = seq /\ pc' = pc
    BY <1>6 DEF SpanEnd, SpanOf, calls
  <2>2. \A q \in Spans : Ended(q)' <=> Ended(q) \/ q = p
    BY <1>0, <2>1, SlotOfSpan, SlotsDiffer DEF Ended, SpanOf, RecordTypes
  <2>3. EndedSpans' = EndedSpans \cup {p} /\ p \notin EndedSpans
    BY <2>1, <2>2 DEF EndedSpans, Ended
  <2>4. BegunCalls' = BegunCalls /\ PostedCalls' = PostedCalls
    BY <2>1 DEF BegunCalls, PostedCalls, Begun, Posted
  <2>5. Cardinality(EndedSpans') = Cardinality(EndedSpans) + 1
    BY <2>3, CountedSets, FS_AddElement
  <2> QED BY <1>0, <2>1, <2>4, <2>5, CountedSets, ClocksAssumption DEF Counted
<1>7. ASSUME NEW s \in Slots, Save(s) \/ GiveUp(s) PROVE Counted'
  <2>1. /\ seq' = seq /\ clientSeq' = clientSeq /\ pc' = pc /\ fate[s] = "sent"
        /\ fate' = fate \/ fate' = [fate EXCEPT ![s] = "saved"]
    BY <1>7 DEF Save, GiveUp, clocks, calls
  <2>2. \A p \in Spans : SpanOf(p) # s
    BY <2>1 DEF RecInv, SpanOK, Ended, Blank
  <2>3. \A p \in Spans : Ended(p)' = Ended(p)
    BY <1>0, <2>1, <2>2, SlotOfSpan DEF Ended, SpanOf, RecordTypes
  <2> QED BY <2>1, <2>3, CountedStays DEF Begun, Posted
<1> QED BY <1>1, <1>2, <1>3, <1>4, <1>5, <1>6, <1>7 DEF Next, Checkout

\* Nothing is counted at first.
LEMMA CountedInit == Init => Counted
<1> SUFFICES ASSUME Init PROVE Counted
  OBVIOUS
<1>1. BegunCalls = {} /\ PostedCalls = {}
  BY DEF Init, BegunCalls, PostedCalls, Begun, Posted
<1>2. EndedSpans = {}
  BY SlotOfSpan DEF Init, EndedSpans, Ended
<1> QED BY <1>1, <1>2, FS_EmptySet, ClocksAssumption DEF Init, Counted

\* Types: a checkout takes two numbers of its handler's counter at most, a
\* span one of its client's, and no event is from the future.
THEOREM RecordingTypes == SSpec => []TypeOK
<1>1. SInit => Counted
  BY CountedInit DEF SInit
<1>2. RecInv /\ Counted /\ [SNext]_svars => Counted'
  BY CountedNext, SliceSteps
<1>3. RecInv /\ Counted => TypeOK
  <2> SUFFICES ASSUME RecInv, Counted PROVE TypeOK
    OBVIOUS
  <2>0. ClockTypes /\ CallTypes /\ RecordTypes
    BY DEF RecInv, RecTypes
  <2>1. seq \in FirstSeq..(FirstSeq + 2 * Cardinality(Checkouts))
    BY <2>0, CountedSets, ClocksAssumption DEF Counted, ClockTypes
  <2>2. clientSeq \in FirstSeq..(FirstSeq + Cardinality(Spans))
    BY <2>0, CountedSets, ClocksAssumption DEF Counted, ClockTypes
  <2>3. ASSUME NEW s \in Slots PROVE ev[s].ts <= now
    <3>0. now \in Nat /\ ClocksAssumption
      BY <2>0, ClocksAssumption DEF ClockTypes
    <3>1. CASE Blank(s)
      BY <3>0, <3>1 DEF Blank, NoEvent
    <3>2. ASSUME NEW c \in Checkouts, s = ClientOf(c), Posted(c) PROVE ev[s].ts <= now
      <4>1. ev[s].ts = called[c] /\ called[c] \in started[c][1]..now /\ started[c][1] \in Nat
        BY <2>0, <3>2 DEF RecInv, CheckoutOK, CallTypes, Pair
      <4> QED BY <3>0, <4>1
    <3>3. ASSUME NEW c \in Checkouts, s = ServerOf(c), pc[c] = "finishing" PROVE ev[s].ts <= now
      <4>1. ev[s].ts = started[c][1] /\ started[c][1] \in 1..now
        BY <3>3, ServerEventOf DEF RecInv, CheckoutOK
      <4> QED BY <3>0, <4>1
    <3>4. ASSUME NEW p \in Spans, s = SpanOf(p), Ended(p) PROVE ev[s].ts <= now
      BY <3>0, <3>4 DEF RecInv, SpanOK
    <3> QED BY <3>1, <3>2, <3>3, <3>4, Recorded
  <2>4. stored \subseteq {s \in Slots : fate[s] = "saved"}
    BY <2>0 DEF RecInv, StoreOK, RecordTypes
  <2> QED BY <2>0, <2>1, <2>2, <2>3, <2>4 DEF TypeOK, ClockTypes, CallTypes, RecordTypes
<1> QED BY <1>1, <1>2, <1>3, SliceRecInv, PTL DEF SSpec

----------------------------------------------------------------------------
(* The order of the rows.                                                  *)

\* Two different numbers have an order as texts, as they have as numbers.
LEMMA TextOrder ==
    ASSUME NEW a \in Nat, NEW b \in Nat, NEW c \in Nat
    PROVE  /\ ~TextLess(a, a)
           /\ a # b => TextLess(a, b) \/ TextLess(b, a)
           /\ TextLess(a, b) /\ TextLess(b, c) => TextLess(a, c)
<1>1. Filled(a) \in Nat /\ Filled(b) \in Nat /\ Filled(c) \in Nat
  BY DEF Filled
<1> QED BY <1>1 DEF TextLess

\* Among numbers of one length it is the order of the numbers.
LEMMA TextOrderOfOneLength ==
    ASSUME NEW m \in Nat, NEW n \in Nat, SameLength(m, n), TextLess(m, n)
    PROVE  m < n
BY DEF SameLength, TextLess, Filled

\* What the rows of a list have to be for ORDER BY to have one result.
Ordered(S) ==
    /\ \A x \in S : ~RowBefore(x, x)
    /\ \A x, y \in S : x # y => RowBefore(x, y) \/ RowBefore(y, x)
    /\ \A x, y, z \in S : RowBefore(x, y) /\ RowBefore(y, z) => RowBefore(x, z)
Sorted(list, n) == \A i, j \in 1..n : i < j => RowBefore(list[i], list[j])

\* A finite set of rows that are ordered is the range of one list: each row
\* stands after as many as are before it.
LEMMA SortedListExists ==
    ASSUME NEW S, IsFiniteSet(S), Ordered(S)
    PROVE  \E list \in [1..Cardinality(S) -> S] : Sorted(list, Cardinality(S))
<1> DEFINE n == Cardinality(S)
           Below(x) == {y \in S : RowBefore(y, x)}
           rank == [x \in S |-> Cardinality(Below(x)) + 1]
<1>0. n \in Nat /\ IsFiniteSet(1..n) /\ Cardinality(1..n) = n
  BY FS_CardinalityType, FS_Interval
<1>1. \A x \in S : IsFiniteSet(Below(x)) /\ Cardinality(Below(x)) \in Nat
  <2> TAKE x \in S
  <2>1. Below(x) \in SUBSET S
    OBVIOUS
  <2>2. IsFiniteSet(Below(x))
    BY <2>1, FS_Subset
  <2> QED BY <2>2, FS_CardinalityType
<1>2. ASSUME NEW x \in S, NEW T \in SUBSET S, Below(x) \subseteq T, x \in T
      PROVE  rank[x] <= Cardinality(T)
  <2>1. IsFiniteSet(T)
    BY FS_Subset
  <2>2. x \notin Below(x)
    BY DEF Ordered
  <2>3. /\ IsFiniteSet(Below(x) \cup {x})
        /\ Cardinality(Below(x) \cup {x}) = Cardinality(Below(x)) + 1
    BY <1>1, <2>2, FS_AddElement
  <2>4. Below(x) \cup {x} \in SUBSET T
    BY <1>2
  <2>5. Cardinality(Below(x) \cup {x}) <= Cardinality(T)
    BY <2>1, <2>4, FS_Subset
  <2> QED BY <2>3, <2>5
<1>3. \A x \in S : rank[x] \in 1..n
  <2> TAKE x \in S
  <2>1. rank[x] <= n
    BY <1>2
  <2>2. rank[x] = Cardinality(Below(x)) + 1
    OBVIOUS
  <2> QED BY <1>0, <1>1, <2>1, <2>2
<1>4. ASSUME NEW x \in S, NEW y \in S, RowBefore(x, y) PROVE rank[x] < rank[y]
  <2>1. Below(x) \subseteq Below(y) /\ x \in Below(y) /\ Below(y) \in SUBSET S
    BY <1>4 DEF Ordered
  <2>2. rank[x] <= Cardinality(Below(y))
    BY <1>2, <2>1
  <2>3. rank[y] = Cardinality(Below(y)) + 1 /\ rank[x] \in Int
    BY <1>3
  <2> QED BY <1>1, <2>2, <2>3
<1>5. rank \in [S -> 1..n]
  BY <1>3
<1> HIDE DEF rank
<1>6. ASSUME NEW x \in S, NEW y \in S, rank[x] = rank[y] PROVE x = y
  <2>1. rank[x] \in Int
    BY <1>3
  <2> QED BY <1>4, <1>6, <2>1 DEF Ordered
<1>7. rank \in Injection(S, 1..n)
  BY <1>5, <1>6 DEF Injection, IsInjective
<1>8. rank \in Surjection(S, 1..n)
  BY <1>0, <1>7, FS_Injection
<1>9. \A i \in 1..n : \E x \in S : rank[x] = i
  BY <1>8 DEF Surjection
<1> DEFINE list == [i \in 1..n |-> CHOOSE x \in S : rank[x] = i]
<1>10. \A i \in 1..n : list[i] \in S /\ rank[list[i]] = i
  BY <1>9
<1>11. list \in [1..n -> S]
  BY <1>10
<1> HIDE DEF list
<1>12. Sorted(list, n)
  <2> SUFFICES ASSUME NEW i \in 1..n, NEW j \in 1..n, i < j
               PROVE  RowBefore(list[i], list[j])
    BY DEF Sorted
  <2>1. list[i] \in S /\ list[j] \in S /\ rank[list[i]] = i /\ rank[list[j]] = j
    BY <1>10
  <2>2. list[i] # list[j]
    BY <2>1
  <2>3. ~RowBefore(list[j], list[i])
    <3>1. ~(j < i)
      OBVIOUS
    <3> QED BY <1>4, <2>1, <3>1
  <2> QED BY <2>1, <2>2, <2>3 DEF Ordered
<1> QED BY <1>11, <1>12

\* GetTrace returns it.
LEMMA RowOrderOfList ==
    ASSUME NEW S, IsFiniteSet(S), Ordered(S)
    PROVE  /\ Cardinality(S) \in Nat
           /\ InRowOrder(S) \in [1..Cardinality(S) -> S]
           /\ Sorted(InRowOrder(S), Cardinality(S))
<1>1. Cardinality(S) \in Nat
  BY FS_CardinalityType
<1>2. InRowOrder(S) \in [1..Cardinality(S) -> S] /\ Sorted(InRowOrder(S), Cardinality(S))
  BY SortedListExists DEF InRowOrder, Sorted
<1> QED BY <1>1, <1>2

\* The rows NewMockServer keeps are of calls, and ordered.
CallRows == {ClientOf(c) : c \in {d \in Checkouts : Posted(d)}}
RowsOf(t) == {s \in stored : /\ TraceOf[s[1]] = t
                             /\ s[2] = "client"
                             /\ payment[s[1]] = "answered"}

\* The rows of calls have ids that can be ordered: no two are the same.
LEMMA CallRowsOrdered ==
    ASSUME RecInv
    PROVE  IsFiniteSet(CallRows) /\ Ordered(CallRows)
<1>1. \A s \in CallRows : s[1] \in Checkouts /\ s = ClientOf(s[1]) /\ Posted(s[1])
  BY SlotsOfCheckout DEF CallRows
<1>2. IsFiniteSet(CallRows)
  <2> DEFINE f == [s \in CallRows |-> s[1]]
  <2>1. f \in [CallRows -> Checkouts] /\ \A x, y \in CallRows : f[x] = f[y] => x = y
    BY <1>1
  <2>2. f \in Injection(CallRows, Checkouts)
    BY <2>1 DEF Injection, IsInjective
  <2> QED BY <2>2, CallsAssumption, FS_Injection
<1>3. ASSUME NEW s \in CallRows PROVE ev[s].ts \in Nat /\ ev[s].id[2] \in Nat
  <2>1. s \in Slots
    BY <1>1, SlotsOfCheckout
  <2>2. ev[s] \in EventSet
    BY <2>1 DEF RecInv, RecTypes, RecordTypes
  <2> QED BY <2>2 DEF EventSet, Pair
<1>4. ASSUME NEW x \in CallRows, NEW y \in CallRows, x # y PROVE ev[x].id[2] # ev[y].id[2]
  <2>1. x[1] # y[1]
    BY <1>1, <1>4
  <2> QED BY <1>1, <2>1 DEF RecInv, CallsDiffer
<1>5. ASSUME NEW x \in CallRows PROVE ~RowBefore(x, x)
  BY <1>3, TextOrder DEF RowBefore
<1>6. ASSUME NEW x \in CallRows, NEW y \in CallRows, x # y
      PROVE  RowBefore(x, y) \/ RowBefore(y, x)
  <2>1. TextLess(ev[x].id[2], ev[y].id[2]) \/ TextLess(ev[y].id[2], ev[x].id[2])
    BY <1>3, <1>4, <1>6, TextOrder
  <2> QED BY <1>3, <2>1 DEF RowBefore
<1>7. ASSUME NEW x \in CallRows, NEW y \in CallRows, NEW z \in CallRows,
             RowBefore(x, y), RowBefore(y, z)
      PROVE  RowBefore(x, z)
  <2>1. TextLess(ev[x].id[2], ev[y].id[2]) /\ TextLess(ev[y].id[2], ev[z].id[2])
        => TextLess(ev[x].id[2], ev[z].id[2])
    BY <1>3, TextOrder
  <2>2. ev[x].ts \in Nat /\ ev[y].ts \in Nat /\ ev[z].ts \in Nat
    BY <1>3
  <2> QED BY <1>7, <2>1, <2>2 DEF RowBefore
<1> QED BY <1>2, <1>5, <1>6, <1>7 DEF Ordered

\* So what a replay is given is a list of calls in the order of their rows.
LEMMA ResponsesSorted ==
    ASSUME RecInv, NEW t
    PROVE  \E n \in Nat : Responses(t) \in [1..n -> CallRows] /\ Sorted(Responses(t), n)
<1> DEFINE S == RowsOf(t)
<1>1. Responses(t) = InRowOrder(S)
  BY DEF Responses, RowsOf
<1>2. ASSUME NEW s \in S PROVE s \in CallRows
  <2>1. s \in Slots /\ ~Blank(s) /\ s[2] = "client"
    BY DEF RowsOf, RecInv, RecTypes, RecordTypes, StoreOK, Blank
  <2>2. PICK c \in Checkouts : s = ClientOf(c) /\ Posted(c)
    BY <2>1, Recorded, SlotsOfCheckout, SlotOfSpan
  <2> QED BY <2>2 DEF CallRows
<1> HIDE DEF S
<1>3. S \in SUBSET CallRows
  BY <1>2
<1>4. IsFiniteSet(S)
  BY <1>3, CallRowsOrdered, FS_Subset
<1>5. Ordered(S)
  BY <1>3, CallRowsOrdered DEF Ordered
<1>6. /\ Cardinality(S) \in Nat
      /\ InRowOrder(S) \in [1..Cardinality(S) -> S]
      /\ Sorted(InRowOrder(S), Cardinality(S))
  BY <1>4, <1>5, RowOrderOfList
<1>7. InRowOrder(S) \in [1..Cardinality(S) -> CallRows]
  BY <1>3, <1>6
<1> QED BY <1>1, <1>6, <1>7

----------------------------------------------------------------------------
(* The mock server.                                                        *)

Rest == [from : Int, len : Int]
ReplayTypes ==
    /\ recorded \in Seq(Slots)
    /\ rest \in Rest
    /\ at \in [Clients -> {"idle", "read", "writing", "written", "done"}]
    /\ items \in [Clients -> Rest]
    /\ log \in Seq(Int)
    /\ recorded = <<>> => ~up

\* A list is given in the order of the rows.
RowsSorted == /\ \A i \in 1..Len(recorded) : recorded[i] \in CallRows
              /\ Sorted(recorded, Len(recorded))

\* Without two requests at once, the rest is what has not been answered, and
\* the one request that is under way has read it.
Left == IF Len(log) <= Len(recorded)
        THEN [from |-> Len(log) + 1, len |-> Len(recorded) - Len(log)]
        ELSE [from |-> Len(recorded) + 1, len |-> 0]
Serial ==
    /\ recorded = <<>> => log = <<>>
    /\ \A i \in 1..Len(log) : log[i] = IF i <= Len(recorded) THEN i ELSE 0
    /\ \A p, q \in Busy : p = q
    /\ \A q \in Busy : Len(log) < Len(recorded) /\ items[q] = Left
    /\ (\A q \in Busy : at[q] # "written") => rest = Left
    /\ \A q \in Busy : at[q] = "written" => rest = RestOf(Left)

\* As long as nothing met a write, one request writes at a time, and what is
\* before the rest, or before what a request has read of it, was taken.
Taken(r) == 1..(r.from - 1) \subseteq taken
Quiet ==
    /\ \A p, q \in Writing : p = q
    /\ Taken(rest)
    /\ \A q \in Clients : at[q] \in {"read", "writing"} => Taken(items[q])
    /\ \A q \in Writing : items[q].from \in taken

ReplayInv == /\ ReplayTypes /\ RowsSorted
             /\ ~overlap => Serial
             /\ ~raced => Quiet

\* What an access of the map may see is two numbers, and with no write under
\* way it is the entry.
LEMMA ValuesTyped == ReplayTypes => Values \subseteq Rest
<1> SUFFICES ASSUME ReplayTypes, NEW v \in Values PROVE v \in Rest
  OBVIOUS
<1> DEFINE R == {rest} \union {RestOf(items[q]) : q \in Writing}
<1>1. ASSUME NEW q \in Writing PROVE RestOf(items[q]) \in Rest
  <2>1. items[q].from \in Int /\ items[q].len \in Int
    BY DEF Writing, ReplayTypes, Rest
  <2> QED BY <2>1 DEF RestOf, Rest
<1>2. \A r \in R : r \in Rest
  BY <1>1 DEF ReplayTypes
<1>3. PICK a \in R, b \in R : v = [from |-> a.from, len |-> b.len]
  BY DEF Values
<1>4. a.from \in Int /\ b.len \in Int
  BY <1>2 DEF Rest
<1> QED BY <1>3, <1>4 DEF Rest

\* Where nobody writes, a read sees the slice that is there.
LEMMA ValueAlone ==
    ASSUME ReplayTypes, Writing = {}, NEW v \in Values
    PROVE  v = rest
<1>1. v = [from |-> rest.from, len |-> rest.len]
  BY DEF Values
<1> QED BY <1>1 DEF ReplayTypes, Rest

\* A request keeps the types, and logs nothing while nothing is recorded.
LEMMA RequestTypes ==
    ASSUME ReplayTypes, NEW q \in Clients, Request(q)
    PROVE  ReplayTypes' /\ recorded' = recorded /\ (recorded = <<>> => log' = log)
<1>1. CASE Read(q)
  <2>1. PICK v \in Values : /\ items' = [items EXCEPT ![q] = v]
                            /\ \/ at' = [at EXCEPT ![q] = "done"] /\ log' = Append(log, 0)
                               \/ at' = [at EXCEPT ![q] = "read"] /\ log' = log
    BY <1>1 DEF Read
  <2>2. v \in Rest
    BY ValuesTyped
  <2>3. items' \in [Clients -> Rest]
    BY <2>1, <2>2 DEF ReplayTypes
  <2>4. at' \in [Clients -> {"idle", "read", "writing", "written", "done"}]
    BY <2>1 DEF ReplayTypes
  <2>5. log' \in Seq(Int)
    <3>1. 0 \in Int /\ log \in Seq(Int)
      BY DEF ReplayTypes
    <3>2. Append(log, 0) \in Seq(Int)
      BY <3>1
    <3> QED BY <2>1, <3>1, <3>2
  <2> QED BY <1>1, <2>3, <2>4, <2>5 DEF Read, ReplayTypes
<1>2. CASE Write(q)
  BY <1>2 DEF Write, ReplayTypes
<1>3. CASE Written(q)
  <2>1. items[q] \in Rest
    BY DEF ReplayTypes
  <2>2. RestOf(items[q]) \in Rest
    BY <2>1 DEF Rest, RestOf
  <2>3. rest' \in Rest
    BY <1>3, <2>2, ValuesTyped DEF Written
  <2> QED BY <1>3, <2>3 DEF Written, ReplayTypes
<1>4. CASE Reply(q)
  <2>1. (IF items[q].from \in DOMAIN recorded THEN items[q].from ELSE -1) \in Int
    BY DEF ReplayTypes, Rest
  <2>2. log' \in Seq(Int)
    BY <1>4, <2>1 DEF Reply, ReplayTypes
  <2> QED BY <1>4, <2>2 DEF Reply, ReplayTypes
<1>5. CASE Fatal(q)
  BY <1>5 DEF Fatal, ReplayTypes
<1> QED BY <1>1, <1>2, <1>3, <1>4, <1>5 DEF Request

\* A request that is alone takes the first response that is left.
LEMMA RequestSerial ==
    ASSUME ReplayTypes, ~overlap => Serial, NEW q \in Clients, Request(q), ~overlap'
    PROVE  Serial'
<1> DEFINE L == Len(log)
           N == Len(recorded)
<1>0. L \in Nat /\ N \in Nat /\ recorded' = recorded /\ DOMAIN recorded = 1..N
  BY RequestTypes DEF ReplayTypes
<1>1. CASE Read(q)
  <2>1. Busy = {} /\ ~overlap /\ Writing = {} /\ up /\ rest' = rest
    BY <1>1 DEF Read, Busy, Writing
  <2>2. Serial /\ rest = Left /\ recorded # <<>>
    BY <2>1 DEF Serial, ReplayTypes
  <2>3. rest.len = IF L < N THEN N - L ELSE 0
    BY <1>0, <2>2 DEF Left
  <2>4. CASE /\ rest.len <= 0 /\ at' = [at EXCEPT ![q] = "done"] /\ log' = Append(log, 0)
    <3>1. Busy' = {}
      BY <2>1, <2>4 DEF Busy, ReplayTypes
    <3>2. /\ Len(log') = L + 1 /\ log'[L + 1] = 0 /\ \A i \in 1..L : log'[i] = log[i]
      BY <2>4 DEF ReplayTypes
    <3>3. L >= N
      BY <1>0, <2>3, <2>4
    <3>4. Left = [from |-> N + 1, len |-> 0]
      BY <1>0, <3>3 DEF Left
    <3>6. Left' = [from |-> N + 1, len |-> 0]
      <4>1. ~(Len(log') <= N) /\ Len(recorded') = N
        BY <1>0, <3>2, <3>3
      <4> QED BY <4>1 DEF Left
    <3>5. \A i \in 1..Len(log') : log'[i] = IF i <= N THEN i ELSE 0
      BY <1>0, <2>2, <3>2, <3>3 DEF Serial
    <3> QED BY <1>0, <2>1, <2>2, <3>1, <3>4, <3>5, <3>6 DEF Serial
  <2>5. CASE /\ rest.len > 0 /\ at' = [at EXCEPT ![q] = "read"] /\ log' = log
             /\ items' = [items EXCEPT ![q] = rest]
    <3>1. Busy' = {q} /\ at'[q] = "read" /\ items'[q] = rest
      BY <2>1, <2>5 DEF Busy, ReplayTypes
    <3>2. L < N
      BY <1>0, <2>3, <2>5
    <3>3. Left' = Left
      BY <1>0, <2>5 DEF Left
    <3> QED BY <1>0, <2>1, <2>2, <2>5, <3>1, <3>2, <3>3 DEF Serial
  <2> QED BY <1>1, <2>1, <2>4, <2>5, ValueAlone DEF Read
<1>2. CASE Write(q)
  <2>1. /\ at[q] = "read" /\ at' = [at EXCEPT ![q] = "writing"] /\ items' = items
        /\ log' = log /\ rest' = rest /\ Serial
    BY <1>2 DEF Write
  <2>2. Busy' = Busy /\ q \in Busy /\ \A p \in Busy : at'[p] = "written" <=> at[p] = "written"
    BY <2>1 DEF Busy, ReplayTypes
  <2>3. Left' = Left
    BY <1>0, <2>1 DEF Left
  <2> QED BY <1>0, <2>1, <2>2, <2>3 DEF Serial
<1>3. CASE Written(q)
  <2>1. /\ at[q] = "writing" /\ at' = [at EXCEPT ![q] = "written"] /\ items' = items
        /\ log' = log /\ Serial
    BY <1>3 DEF Written
  <2>2. Busy' = Busy /\ Busy = {q} /\ at'[q] = "written"
    BY <2>1 DEF Busy, ReplayTypes, Serial
  <2>3. Writing = {q}
    BY <2>1, <2>2 DEF Busy, Writing
  <2>4. Cardinality(Writing) = 1
    BY <2>3, FS_Singleton
  <2>5. rest' = RestOf(Left)
    BY <1>3, <2>1, <2>2, <2>4 DEF Written, Serial
  <2>6. Left' = Left
    BY <1>0, <2>1 DEF Left
  <2> QED BY <1>0, <2>1, <2>2, <2>5, <2>6 DEF Serial, RestOf
<1>4. CASE Reply(q)
  <2>1. /\ at[q] = "written" /\ at' = [at EXCEPT ![q] = "done"] /\ items' = items
        /\ rest' = rest /\ Serial /\ q \in Busy
    BY <1>4 DEF Reply, Busy
  <2>2. /\ Busy' = {} /\ L < N /\ items[q] = Left /\ rest = RestOf(Left)
    BY <2>1 DEF Busy, ReplayTypes, Serial
  <2>3. Left.from = L + 1 /\ Left.len = N - L
    BY <1>0, <2>2 DEF Left
  <2>4. log' = Append(log, L + 1)
    BY <1>0, <1>4, <2>2, <2>3 DEF Reply
  <2>5. /\ Len(log') = L + 1 /\ log'[L + 1] = L + 1 /\ \A i \in 1..L : log'[i] = log[i]
    BY <1>0, <2>4 DEF ReplayTypes
  <2>6. \A i \in 1..Len(log') : log'[i] = IF i <= N THEN i ELSE 0
    BY <1>0, <2>1, <2>2, <2>5 DEF Serial
  <2>7. Left' = [from |-> L + 2, len |-> N - L - 1]
    <3>1. Len(log') = L + 1 /\ Len(recorded') = N /\ L + 1 <= N
      BY <1>0, <2>2, <2>5
    <3>2. L + 1 + 1 = L + 2 /\ N - (L + 1) = N - L - 1
      BY <1>0
    <3> QED BY <3>1, <3>2 DEF Left
  <2>8. rest' = Left'
    BY <1>0, <2>1, <2>2, <2>3, <2>7 DEF RestOf
  <2>9. recorded # <<>>
    BY <1>0, <2>2
  <2> QED BY <1>0, <2>2, <2>6, <2>8, <2>9 DEF Serial
<1>5. CASE Fatal(q)
  BY <1>5 DEF Fatal, Serial, Busy, Left, RestOf
<1> QED BY <1>1, <1>2, <1>3, <1>4, <1>5 DEF Request

\* A request that meets no write passes nothing over.
LEMMA RequestQuiet ==
    ASSUME ReplayTypes, ~raced => Quiet, NEW q \in Clients, Request(q), ~raced'
    PROVE  Quiet'
<1>0. items[q].from \in Int /\ items[q].len \in Int
  BY DEF ReplayTypes, Rest
<1>1. CASE Read(q)
  <2>1. Writing = {} /\ ~raced /\ rest' = rest /\ taken' = taken /\ Quiet
    BY <1>1 DEF Read
  <2>2. PICK v \in Values : /\ items' = [items EXCEPT ![q] = v]
                            /\ \/ at' = [at EXCEPT ![q] = "done"]
                               \/ at' = [at EXCEPT ![q] = "read"]
    BY <1>1 DEF Read
  <2>3. v = rest
    BY <2>1, ValueAlone
  <2>4. Writing' = {}
    BY <2>1, <2>2 DEF Writing, ReplayTypes
  <2>5. /\ items'[q] = rest /\ \A p \in Clients \ {q} : items'[p] = items[p] /\ at'[p] = at[p]
    BY <2>2, <2>3 DEF ReplayTypes
  <2> QED BY <2>1, <2>4, <2>5 DEF Quiet, Taken
<1>2. CASE Write(q)
  <2>1. /\ Writing = {} /\ ~raced /\ rest' = rest /\ items' = items /\ Quiet
        /\ taken' = taken \union {items[q].from} /\ at[q] = "read"
        /\ at' = [at EXCEPT ![q] = "writing"]
    BY <1>2 DEF Write
  <2>2. Writing' = {q}
    BY <2>1 DEF Writing, ReplayTypes
  <2>3. /\ \A p \in Clients : at'[p] \in {"read", "writing"} => at[p] \in {"read", "writing"}
    BY <2>1 DEF ReplayTypes
  <2> QED BY <2>1, <2>2, <2>3 DEF Quiet, Taken
<1>3. CASE Written(q)
  <2>1. /\ ~raced /\ items' = items /\ Quiet /\ taken' = taken /\ at[q] = "writing"
        /\ at' = [at EXCEPT ![q] = "written"]
    BY <1>3 DEF Written
  <2>2. Writing = {q}
    BY <2>1 DEF Writing, Quiet
  <2>3. Cardinality(Writing) = 1
    BY <2>2, FS_Singleton
  <2>4. rest' = RestOf(items[q])
    BY <1>3, <2>3 DEF Written
  <2>5. Writing' = {}
    BY <2>1, <2>2 DEF Writing, ReplayTypes
  <2>6. /\ \A p \in Clients : at'[p] \in {"read", "writing"} => at[p] \in {"read", "writing"}
    BY <2>1 DEF ReplayTypes
  <2>7. Taken(rest)'
    <3>1. rest'.from = items[q].from + 1
      BY <2>4 DEF RestOf
    <3>2. 1..(items[q].from - 1) \subseteq taken /\ items[q].from \in taken
      BY <2>1, <2>2 DEF Quiet, Taken
    <3>3. \A i \in 1..(rest'.from - 1) : i \in 1..(items[q].from - 1) \/ i = items[q].from
      BY <1>0, <3>1
    <3> QED BY <2>1, <3>2, <3>3 DEF Taken
  <2> QED BY <2>1, <2>5, <2>6, <2>7 DEF Quiet, Taken
<1>4. CASE Reply(q)
  <2>1. /\ ~raced /\ items' = items /\ rest' = rest /\ Quiet /\ taken' = taken
        /\ at[q] = "written" /\ at' = [at EXCEPT ![q] = "done"]
    BY <1>4 DEF Reply
  <2>2. Writing' = Writing
    BY <2>1 DEF Writing, ReplayTypes
  <2>3. /\ \A p \in Clients : at'[p] \in {"read", "writing"} => at[p] \in {"read", "writing"}
    BY <2>1 DEF ReplayTypes
  <2> QED BY <2>1, <2>2, <2>3 DEF Quiet, Taken
<1>5. CASE Fatal(q)
  BY <1>5 DEF Fatal
<1> QED BY <1>1, <1>2, <1>3, <1>4, <1>5 DEF Request

\* While no checkout moves, the order of the rows stays.
LEMMA RowsStaySorted ==
    ASSUME RowsSorted, UNCHANGED vars, recorded' = recorded
    PROVE  RowsSorted'
<1>1. ev' = ev /\ pc' = pc
  BY DEF vars
<1>2. CallRows' = CallRows
  BY <1>1 DEF CallRows, Posted, ClientOf
<1>3. \A x, y : RowBefore(x, y)' = RowBefore(x, y)
  BY <1>1 DEF RowBefore
<1>4. Sorted(recorded, Len(recorded))'
  BY <1>3 DEF RowsSorted, Sorted, RowBefore
<1> QED BY <1>2, <1>4 DEF RowsSorted

\* Nothing is replayed at first, and requests keep the invariant.
LEMMA ReplayInit == SInit => ReplayInv
<1> SUFFICES ASSUME SInit PROVE ReplayInv
  OBVIOUS
<1>1. /\ recorded = <<>> /\ rest = [from |-> 1, len |-> 0]
      /\ at = [q \in Clients |-> "idle"]
      /\ items = [q \in Clients |-> [from |-> 1, len |-> 0]]
      /\ log = <<>> /\ taken = {} /\ ~up
  BY DEF SInit, RInit
<1>2. Busy = {} /\ Writing = {} /\ Len(recorded) = 0 /\ Len(log) = 0
  BY <1>1 DEF Busy, Writing
<1>3. ReplayTypes
  BY <1>1 DEF ReplayTypes, Rest
<1>4. RowsSorted
  BY <1>2 DEF RowsSorted, Sorted
<1>5. Serial
  BY <1>1, <1>2 DEF Serial, Left
<1>6. Quiet
  BY <1>1, <1>2 DEF Quiet, Taken
<1> QED BY <1>3, <1>4, <1>5, <1>6 DEF ReplayInv

\* A replay starts on the list that was read, and all of it is left.
LEMMA ServeKeeps == ASSUME RecInv, ReplayInv, NEW t, Replay(t) PROVE ReplayInv'
<1>1. /\ recorded = <<>> /\ Responses(t) # <<>> /\ UNCHANGED vars
      /\ up' = TRUE /\ recorded' = Responses(t)
      /\ rest' = [from |-> 1, len |-> Len(Responses(t))]
      /\ at' = at /\ items' = items /\ log' = log /\ taken' = taken
      /\ overlap' = overlap /\ raced' = raced
  BY DEF Replay, Serve
<1>2. PICK n \in Nat : Responses(t) \in [1..n -> CallRows] /\ Sorted(Responses(t), n)
  BY ResponsesSorted
<1>3. Responses(t) \in Seq(CallRows) /\ Len(Responses(t)) = n
  BY <1>2
<1>4. CallRows \subseteq Slots
  BY SlotsOfCheckout DEF CallRows
<1>5. Responses(t) \in Seq(Slots)
  BY <1>2, <1>4
<1>6. ReplayTypes'
  BY <1>1, <1>2, <1>3, <1>5 DEF ReplayInv, ReplayTypes, Rest
<1>7. ev' = ev /\ pc' = pc
  BY <1>1 DEF vars
<1>8. RowsSorted'
  <2>1. CallRows' = CallRows
    BY <1>7 DEF CallRows, Posted, ClientOf
  <2>2. \A i, j \in 1..n : i < j => RowBefore(recorded'[i], recorded'[j])
    BY <1>1, <1>2 DEF Sorted
  <2>3. Len(recorded') = n /\ recorded' \in [1..n -> CallRows]
    BY <1>1, <1>2, <1>3
  <2>4. Sorted(recorded, Len(recorded))'
    BY <1>7, <2>2, <2>3 DEF Sorted, RowBefore
  <2> QED BY <2>1, <2>3, <2>4 DEF RowsSorted
<1>9. ASSUME ~overlap' PROVE Serial'
  <2>1. Serial
    BY <1>1, <1>9 DEF ReplayInv
  <2>2. Len(recorded) = 0 /\ log = <<>> /\ Len(log) = 0
    BY <1>1, <2>1 DEF Serial
  <2>3. Busy' = {}
    <3>1. Busy = {}
      BY <2>1, <2>2 DEF Serial
    <3> QED BY <1>1, <3>1 DEF Busy
  <2>4. Left' = [from |-> 1, len |-> n]
    <3>1. Len(log') = 0 /\ Len(recorded') = n
      BY <1>1, <1>3, <2>2
    <3> QED BY <3>1 DEF Left
  <2>5. rest' = Left'
    BY <1>1, <1>3, <2>4
  <2> QED BY <1>1, <2>2, <2>3, <2>5 DEF Serial
<1>10. ASSUME ~raced' PROVE Quiet'
  <2>1. Quiet
    BY <1>1, <1>10 DEF ReplayInv
  <2>2. rest'.from = 1
    BY <1>1
  <2> QED BY <1>1, <2>1, <2>2 DEF Quiet, Taken, Writing
<1> QED BY <1>6, <1>8, <1>9, <1>10 DEF ReplayInv

LEMMA ReplayNext == RecInv /\ ReplayInv /\ [SNext]_svars => ReplayInv'
<1> SUFFICES ASSUME RecInv, ReplayInv, [SNext]_svars PROVE ReplayInv'
  OBVIOUS
<1>1. CASE (recorded = <<>> /\ UNCHANGED rvars) \/ UNCHANGED svars
  <2>1. /\ recorded' = recorded /\ rest' = rest /\ at' = at /\ items' = items /\ log' = log
        /\ taken' = taken /\ overlap' = overlap /\ raced' = raced /\ up' = up
    BY <1>1 DEF rvars, svars
  <2>2. ReplayTypes'
    BY <2>1 DEF ReplayInv, ReplayTypes
  <2>3. RowsSorted'
    <3>1. CASE recorded = <<>>
      <4>1. Len(recorded') = 0
        BY <2>1, <3>1
      <4> QED BY <4>1 DEF RowsSorted, Sorted
    <3>2. CASE UNCHANGED svars
      BY <2>1, <3>2, RowsStaySorted DEF ReplayInv, svars
    <3> QED BY <1>1, <3>1, <3>2
  <2>4. ~overlap => Serial'
    BY <2>1 DEF ReplayInv, Serial, Busy, Left, RestOf
  <2>5. ~raced => Quiet'
    BY <2>1 DEF ReplayInv, Quiet, Taken, Writing
  <2> QED BY <2>1, <2>2, <2>3, <2>4, <2>5 DEF ReplayInv
<1>2. CASE \E t \in {TraceOf[c] : c \in Checkouts} : Replay(t)
  BY <1>2, ServeKeeps
<1>3. ASSUME NEW q \in Clients, Request(q), UNCHANGED vars PROVE ReplayInv'
  <2>1. ReplayTypes' /\ recorded' = recorded
    BY <1>3, RequestTypes DEF ReplayInv
  <2>2. RowsSorted'
    BY <1>3, <2>1, RowsStaySorted DEF ReplayInv
  <2>3. ~overlap' => Serial'
    BY <1>3, RequestSerial DEF ReplayInv
  <2>4. ~raced' => Quiet'
    BY <1>3, RequestQuiet DEF ReplayInv
  <2> QED BY <2>1, <2>2, <2>3, <2>4 DEF ReplayInv
<1> QED BY <1>1, <1>2, <1>3 DEF SNext

LEMMA SliceReplayInv == SSpec => []ReplayInv
<1> QED BY ReplayInit, ReplayNext, SliceRecInv, PTL DEF SSpec

\* Requests to the mock server one after the other get the recorded responses
\* in order, each once, and 404 only when all have been served.
THEOREM SerialReplays == SSpec => []SerialReplayIsExact
<1>1. ReplayInv => SerialReplayIsExact
  <2> SUFFICES ASSUME ReplayInv, ~overlap, NEW i \in DOMAIN log
               PROVE  log[i] = IF i <= Len(recorded) THEN i ELSE 0
    BY DEF SerialReplayIsExact
  <2>1. i \in 1..Len(log) /\ Serial
    BY DEF ReplayInv, ReplayTypes
  <2> QED BY <2>1 DEF Serial
<1> QED BY <1>1, SliceReplayInv, PTL

\* Requests that overlap share responses but pass none over, as long as none
\* met the write of another: items[1:] of what was read drops one response,
\* and that one was taken.
THEOREM NoResponseIsSkipped == SSpec => []NoneIsSkipped
<1>1. ReplayInv => NoneIsSkipped
  BY DEF ReplayInv, Quiet, Taken, NoneIsSkipped
<1> QED BY <1>1, SliceReplayInv, PTL

\* Replayed one after the other, the responses come in the order in which the
\* calls were made, as far as a millisecond and the text of the ids tell.
THEOREM ReplaysAreInOrder == SSpec => []ReplayKeepsCallOrder
<1>1. RecInv /\ ReplayInv => ReplayKeepsCallOrder
  <2> SUFFICES ASSUME RecInv, ReplayInv, ~overlap,
                      NEW i \in {k \in DOMAIN log : log[k] > 0},
                      NEW j \in {k \in DOMAIN log : log[k] > 0}, i < j
               PROVE  LET y == recorded[log[i]]
                          z == recorded[log[j]]
                      IN  \/ called[y[1]] < called[z[1]]
                          \/ /\ called[y[1]] = called[z[1]]
                             /\ ev[y].id[2] < ev[z].id[2]
                                  \/ ~SameLength(ev[y].id[2], ev[z].id[2])
    BY DEF ReplayKeepsCallOrder
  <2> DEFINE y == recorded[log[i]]
             z == recorded[log[j]]
  <2>1. /\ i \in 1..Len(log) /\ j \in 1..Len(log) /\ log[i] > 0 /\ log[j] > 0
        /\ Len(recorded) \in Nat /\ Serial
    BY DEF ReplayInv, ReplayTypes
  <2>2. /\ log[i] = i /\ log[j] = j /\ i \in 1..Len(recorded) /\ j \in 1..Len(recorded)
    BY <2>1 DEF Serial
  <2>3. y \in CallRows /\ z \in CallRows /\ RowBefore(y, z)
    BY <2>2 DEF ReplayInv, RowsSorted, Sorted
  <2> HIDE DEF y, z
  <2>4. ASSUME NEW s \in CallRows
        PROVE  ev[s].ts = called[s[1]] /\ called[s[1]] \in Nat /\ ev[s].id[2] \in Nat
    <3>1. PICK c \in Checkouts : s = ClientOf(c) /\ Posted(c)
      BY DEF CallRows
    <3>2. s[1] = c /\ ev[s].ts = called[c]
      BY <3>1, SlotsOfCheckout DEF RecInv, CheckoutOK
    <3>3. called[c] \in Nat
      BY DEF RecInv, RecTypes, CallTypes
    <3>4. ev[s] \in EventSet
      BY <3>1, SlotsOfCheckout DEF RecInv, RecTypes, RecordTypes
    <3>5. ev[s].id[2] \in Nat
      BY <3>4 DEF EventSet, Pair
    <3> QED BY <3>2, <3>3, <3>5
  <2>5. \/ called[y[1]] < called[z[1]]
        \/ called[y[1]] = called[z[1]] /\ TextLess(ev[y].id[2], ev[z].id[2])
    BY <2>3, <2>4 DEF RowBefore
  <2>6. ASSUME NEW m \in Nat, NEW n \in Nat, TextLess(m, n)
        PROVE  m < n \/ ~SameLength(m, n)
    BY <2>6, TextOrderOfOneLength
  <2> QED BY <2>3, <2>4, <2>5, <2>6 DEF y, z
<1> QED BY <1>1, SliceRecInv, SliceReplayInv, PTL

=============================================================================
