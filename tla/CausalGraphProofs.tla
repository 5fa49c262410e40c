------------------------- MODULE CausalGraphProofs -------------------------
(***************************************************************************)
(* Proofs about CausalGraph, for every list of events and every order of   *)
(* the map: each causal loop is reported once, ASCII shows the other       *)
(* events once each, and the rest of the graph is that of the list.        *)
(*                                                                         *)
(* A node has one parent, so the frames of a search are a chain of parents *)
(* and the only open node it can come back to is the one it began with:    *)
(* what is reported lies on a loop.  A loop has no ancestors but itself,   *)
(* so a search that comes to it has begun on it, and has been around it by *)
(* the time it ends.                                                       *)
(***************************************************************************)
EXTENDS CausalGraph, FiniteSetTheorems, SequenceTheorems, TLAPS

LoopNames == {"duplicates", "link", "visit", "sort", "print", "done"}
Codes == {"DUPLICATE", "ORPHAN", "CYCLE", "INCONSISTENT_ORDER"}
Frames == [node : Ids \union {NoParent}, rest : Seq(Ids)]

Types == /\ events \in Traces
         /\ loop \in LoopNames
         /\ todo \in SUBSET Ids
         /\ stack \in Seq(Frames)
         /\ roots \in Seq(Ids)
         /\ children \in [Ids -> Seq(Ids)]
         /\ diagnostics \in Seq(Codes \X Ids)
         /\ state \in [Ids -> 0..2]
         /\ lines \in Seq(Ids)

Distinct(s) == \A i, j \in DOMAIN s : s[i] = s[j] => i = j
InTime(s) == \A i, j \in DOMAIN s : i < j => Earlier(s[i], s[j])

Linked(n) == loop # "duplicates" /\ (loop = "link" => n \notin todo)
Rooted(n) == Linked(n) /\ Parent(n) \notin Ids
Below(p, n) == Linked(n) /\ Parent(n) = p

\* Roots and children are the nodes that were linked, in order when sorted.
Shape ==
    /\ Range(roots) = {n \in Ids : Rooted(n)} /\ Distinct(roots)
    /\ \A p \in Ids : Range(children[p]) = {n \in Ids : Below(p, n)} /\ Distinct(children[p])
    /\ loop \in {"sort", "print", "done"} => InTime(roots)
    /\ \A p \in Ids : \/ loop = "sort" /\ p \notin todo
                      \/ loop \in {"print", "done"}
                      => InTime(children[p])

\* A node has one frame at most, and it waits for children of the node; the
\* roots wait in a frame of no node.
Key(n) == IF Parent(n) \in Ids THEN Parent(n) ELSE NoParent
FramesOK(fs) ==
    /\ \A i \in DOMAIN fs : /\ Distinct(fs[i].rest)
                            /\ \A n \in Range(fs[i].rest) : Key(n) = fs[i].node
    /\ \A i, j \in DOMAIN fs : fs[i].node = fs[j].node => i = j

Calls ==
    /\ loop \in {"duplicates", "link", "done"} => stack = <<>>
    /\ loop \in {"print", "done"} => todo = {}
    /\ loop # "print" => \A i \in DOMAIN stack : stack[i].node \in Ids
    /\ FramesOK(stack)

WaitsIn(fs, n) == \E i \in DOMAIN fs : n \in Range(fs[i].rest)
Waiting(n) == WaitsIn(stack, n)

\* What has been reported of the list itself.
Compared(n) == \/ loop \in {"print", "done"}
               \/ loop = "sort" /\ Parent(n) \notin todo /\ ~Waiting(n)
EarlyChild(n) == Parent(n) \in Ids /\ nodes[n].ts < nodes[Parent(n)].ts

Duplicated(n) == n \in Repeated(events) /\ (loop = "duplicates" => n \notin todo)
Orphaned(n) == Linked(n) /\ Parent(n) \notin Ids \union {NoParent}
Noted(n) == /\ OnceIff("DUPLICATE", n, Duplicated(n))
            /\ OnceIff("ORPHAN", n, Orphaned(n))
            /\ OnceIff("INCONSISTENT_ORDER", n, EarlyChild(n) /\ Compared(n))

Diagnosed ==
    /\ \A n \in Ids : Noted(n)
    /\ loop = "duplicates" => todo \subseteq Repeated(events)
    /\ loop = "sort" => \A i \in DOMAIN stack : stack[i].node \notin todo

\* The search: open nodes are those in the frames, a chain of parents below
\* the first; a child its parent's loop has passed was visited.
Start == stack[1].node
Past(n) == Parent(n) \in Ids /\ state[Parent(n)] # 0 /\ ~Waiting(n)

Marks ==
    /\ loop \in {"duplicates", "link"} => \A n \in Ids : state[n] = 0
    /\ loop \in {"sort", "print", "done"} => \A n \in Ids : state[n] = 2
    /\ loop = "visit" =>
         /\ \A n \in Ids : state[n] = 1 <=> \E i \in DOMAIN stack : stack[i].node = n
         /\ \A n \in Ids \ todo : state[n] # 0
         /\ \A n \in Ids : Past(n) => state[n] # 0
         /\ \A i \in DOMAIN stack : i > 1 =>
              /\ Parent(stack[i].node) = stack[i - 1].node
              /\ Start \in Ancestors(stack[i].node)

\* A loop is untouched, or closed and reported, unless the search under way
\* began on it: then it is reported when its parent's loop passes the start.
Searching(L) == stack # <<>> /\ Start \in L
Untouched(L) == Reported("CYCLE", L) = {} /\ \A n \in L : state[n] = 0
Closed(L) == Once("CYCLE", L) /\ \A n \in L : state[n] = 2

Found(L) == IF ~Searching(L) THEN Untouched(L) \/ Closed(L)
            ELSE IF Past(Start) THEN Once("CYCLE", L) ELSE Reported("CYCLE", L) = {}

LoopsInv ==
    /\ Reported("CYCLE", Ids \ UNION Loops) = {}
    /\ loop \in {"duplicates", "link"} => Reported("CYCLE", Ids) = {}
    /\ loop = "visit" => \A L \in Loops : Found(L)
    /\ loop \in {"sort", "print", "done"} => \A L \in Loops : Once("CYCLE", L)

\* The walk has printed what it does not wait for below what it has printed.
Printing == loop \in {"print", "done"}
Walked ==
    /\ ~Printing => lines = <<>>
    /\ Printing => \A n \in Ids :
         n \in Range(lines) <=> /\ Parent(n) \in Ids => Parent(n) \in Range(lines)
                                /\ ~Waiting(n)
    /\ loop = "print" => \A i \in DOMAIN stack : stack[i].node \in Range(lines) \union {NoParent}
    /\ Distinct(lines)
    /\ \A i \in DOMAIN lines : Parent(lines[i]) \in Ids =>
          \E j \in 1..(i - 1) : lines[j] = Parent(lines[i])
    /\ \A n \in Range(lines) : ~Looped(n)

Before == Types /\ Shape /\ Calls
After == Types' /\ Shape' /\ Calls'

Inv == Before /\ Diagnosed /\ Marks /\ LoopsInv /\ Walked

----------------------------------------------------------------------------
(* The nodes of a list.                                                    *)

\* Among the places where an id stands there is a first one.
LEMMA FirstPlace ==
    ASSUME NEW list \in Seq(EventSet), NEW id, NEW k \in DOMAIN list, list[k].id = id
    PROVE  \E i \in DOMAIN list :
              list[i].id = id /\ \A j \in DOMAIN list : list[j].id = id => i <= j
<1> DEFINE P == {i \in DOMAIN list : list[i].id = id}
<1>1. P \in SUBSET Nat /\ P # {}
  BY LenProperties
<1>2. PICK i \in P : \A j \in P : <<j, i>> \notin OpToRel(<, Nat)
  BY <1>1, NatLessThanWellFounded, WFMin
<1>3. ASSUME NEW j \in P PROVE i <= j
  <2>1. j \in Nat /\ i \in Nat
    BY <1>1
  <2>2. ~(j < i)
    BY <1>2, <2>1 DEF OpToRel
  <2> QED BY <2>1, <2>2
<1> QED BY <1>3

\* Each id of the list has the first event of that id, which First says too.
LEMMA NodesAreFirst ==
    ASSUME events \in Seq(EventSet), NEW n \in Ids
    PROVE  /\ nodes[n] \in EventSet /\ nodes[n].id = n
           /\ First(n) = nodes[n]
<1> DEFINE IsFirst(i) == /\ events[i].id = n
                         /\ \A j \in DOMAIN events : events[j].id = n => i <= j
           k == CHOOSE i \in DOMAIN events : IsFirst(i)
           m == CHOOSE i \in DOMAIN events :
                   events[i].id = n /\ \A j \in 1..(i - 1) : events[j].id # n
<1>1. PICK l \in DOMAIN events : events[l].id = n
  BY DEF Ids, nodes, NodesOf
<1>2. k \in DOMAIN events /\ IsFirst(k)
  BY <1>1, FirstPlace
<1>3. nodes[n] = events[k]
  BY DEF nodes, NodesOf, Ids
<1>4. DOMAIN events = 1..Len(events) /\ Len(events) \in Nat
  BY LenProperties
<1>5. \A i \in DOMAIN events :
         (events[i].id = n /\ \A j \in 1..(i - 1) : events[j].id # n) <=> i = k
  <2> TAKE i \in DOMAIN events
  <2>1. ASSUME events[i].id = n, \A j \in 1..(i - 1) : events[j].id # n PROVE i = k
    <3>1. k <= i
      BY <1>2, <2>1
    <3>2. k \notin 1..(i - 1)
      BY <1>2, <2>1
    <3> QED BY <1>2, <1>4, <3>1, <3>2
  <2>2. ASSUME i = k, NEW j \in 1..(i - 1) PROVE events[j].id # n
    <3>1. j \in DOMAIN events /\ ~(k <= j)
      BY <1>2, <1>4, <2>2
    <3> QED BY <1>2, <3>1
  <2> HIDE DEF k
  <2> QED BY <1>2, <2>1, <2>2
<1>6. m = k
  <2> HIDE DEF k
  <2>1. m \in DOMAIN events /\ events[m].id = n /\ \A j \in 1..(m - 1) : events[j].id # n
    BY <1>2, <1>5
  <2> QED BY <1>5, <2>1
<1>7. events[k] \in EventSet
  BY <1>2, <1>4, ElementOfSeq
<1>8. First(n) = events[m]
  BY DEF First
<1> QED BY <1>2, <1>3, <1>6, <1>7, <1>8

\* There are finitely many of them, none with the empty id.
LEMMA IdsAreFinite ==
    ASSUME events \in Seq(EventSet)
    PROVE  IsFiniteSet(Ids) /\ Ids \subseteq Int /\ NoParent \notin Ids
<1>1. ASSUME NEW n \in Ids PROVE n \in Int /\ n # NoParent
  BY NodesAreFirst DEF EventSet
<1>2. Len(events) \in Nat /\ DOMAIN events = 1..Len(events)
  BY LenProperties
<1> DEFINE f == [i \in DOMAIN events |-> events[i].id]
<1>3. f \in Surjection(DOMAIN events, Ids)
  BY DEF Surjection, Ids, nodes, NodesOf
<1>4. IsFiniteSet(DOMAIN events)
  BY <1>2, FS_Interval
<1>5. IsFiniteSet(Ids)
  BY <1>3, <1>4, FS_Surjection
<1> QED BY <1>1, <1>5

\* What the list says stays as it is.
LEMMA ListStays ==
    ASSUME events' = events
    PROVE  /\ nodes' = nodes /\ Ids' = Ids /\ Repeated(events)' = Repeated(events)
           /\ Loops' = Loops /\ (UNION Loops)' = UNION Loops /\ Frames' = Frames
           /\ \A n : /\ Parent(n)' = Parent(n) /\ Ancestors(n)' = Ancestors(n)
                     /\ OnLoop(n)' = OnLoop(n) /\ Looped(n)' = Looped(n)
                     /\ EarlyChild(n)' = EarlyChild(n)
<1>1. nodes' = nodes /\ Ids' = Ids
  BY DEF nodes, Ids
<1>2. \A n : Parent(n)' = Parent(n)
  BY <1>1 DEF Parent
<1>3. \A n : Ancestors(n)' = Ancestors(n)
  BY <1>1, <1>2 DEF Ancestors, UpClosed
<1>4. \A n : OnLoop(n)' = OnLoop(n)
  BY <1>3 DEF OnLoop
<1>5. \A n : Looped(n)' = Looped(n)
  BY <1>3, <1>4 DEF Looped
<1>6. Loops' = Loops
  BY <1>1, <1>3, <1>4 DEF Loops
<1>7. \A n : EarlyChild(n)' = EarlyChild(n)
  BY <1>1, <1>2 DEF EarlyChild
<1>8. Repeated(events)' = Repeated(events)
  OBVIOUS
<1> QED BY <1>1, <1>2, <1>3, <1>4, <1>5, <1>6, <1>7, <1>8 DEF Frames

----------------------------------------------------------------------------
(* Ancestors.                                                              *)

\* The ancestors of an event are its parent and the ancestors of that.
LEMMA AncestorsOfChild ==
    ASSUME NEW n, Parent(n) \in Ids
    PROVE  Ancestors(n) = {Parent(n)} \union Ancestors(Parent(n))
<1> DEFINE p == Parent(n)
           A == {p} \union Ancestors(p)
<1>1. p \in Ancestors(n)
  BY DEF Ancestors
<1>2. ASSUME NEW a \in Ancestors(p) PROVE a \in Ancestors(n)
  <2>1. ASSUME NEW S \in SUBSET Ids, UpClosed(S), p \in S PROVE a \in S
    <3>1. p \in Ids /\ (Parent(p) \in Ids => Parent(p) \in S)
      BY <2>1 DEF UpClosed
    <3> QED BY <1>2, <2>1, <3>1 DEF Ancestors
  <2>2. a \in Ids
    BY DEF Ancestors
  <2> QED BY <2>1, <2>2 DEF Ancestors
<1>3. UpClosed(A)
  <2> SUFFICES ASSUME NEW m \in A, Parent(m) \in Ids PROVE Parent(m) \in A
    BY DEF UpClosed
  <2>1. CASE m = p
    BY <2>1 DEF Ancestors
  <2>2. CASE m \in Ancestors(p)
    <3>1. ASSUME NEW S \in SUBSET Ids, UpClosed(S), Parent(p) \in Ids => Parent(p) \in S
          PROVE  Parent(m) \in S
      <4>1. m \in S
        BY <2>2, <3>1 DEF Ancestors
      <4> QED BY <3>1, <4>1 DEF UpClosed
    <3> QED BY <3>1 DEF Ancestors
  <2> QED BY <2>1, <2>2
<1>4. A \in SUBSET Ids
  BY DEF Ancestors
<1>5. Ancestors(n) \subseteq A
  BY <1>3, <1>4 DEF Ancestors
<1> QED BY <1>1, <1>2, <1>5

\* A root or an orphan has none.
LEMMA AncestorsOfRoot ==
    ASSUME NEW n, Parent(n) \notin Ids
    PROVE  Ancestors(n) = {}
<1>1. UpClosed({}) /\ {} \in SUBSET Ids
  BY DEF UpClosed
<1> QED BY <1>1 DEF Ancestors

\* A set that holds the parent of an event and of each of its own holds the
\* ancestors of the event.
LEMMA AncestorsWithin ==
    ASSUME NEW n, NEW S \in SUBSET Ids, UpClosed(S), Parent(n) \in Ids => Parent(n) \in S
    PROVE  Ancestors(n) \subseteq S
  BY DEF Ancestors

\* The ancestors of an ancestor are ancestors.
LEMMA AncestorsAreAbove ==
    ASSUME NEW n, NEW a \in Ancestors(n)
    PROVE  a \in Ids /\ Ancestors(a) \subseteq Ancestors(n)
<1>1. Ancestors(n) \in SUBSET Ids
  BY DEF Ancestors
<1>2. ASSUME NEW m \in Ancestors(n), Parent(m) \in Ids PROVE Parent(m) \in Ancestors(n)
  <2>1. ASSUME NEW S \in SUBSET Ids, UpClosed(S), Parent(n) \in Ids => Parent(n) \in S
        PROVE  Parent(m) \in S
    <3>1. m \in S
      BY <2>1 DEF Ancestors
    <3> QED BY <1>2, <2>1, <3>1 DEF UpClosed
  <2> QED BY <1>2, <2>1 DEF Ancestors
<1>3. UpClosed(Ancestors(n))
  BY <1>2 DEF UpClosed
<1> QED BY <1>1, <1>2, <1>3, AncestorsWithin

\* Whatever is above an event on a loop is on it: a loop is the ancestors of
\* each of its events.
LEMMA LoopIsClosed ==
    ASSUME NEW n, OnLoop(n), NEW a \in Ancestors(n)
    PROVE  Ancestors(a) = Ancestors(n) /\ OnLoop(a) /\ Parent(a) \in Ancestors(n)
<1>1. n \in Ancestors(n) /\ n \in Ids
  BY AncestorsAreAbove DEF OnLoop
<1> DEFINE S == {b \in Ids : n \in Ancestors(b)}
<1>2. ASSUME NEW b \in S, Parent(b) \in Ids PROVE Parent(b) \in S
  <2>1. n = Parent(b) \/ n \in Ancestors(Parent(b))
    BY <1>2, AncestorsOfChild
  <2> QED BY <1>1, <1>2, <2>1
<1>3. Ancestors(n) \subseteq S
  <2>1. UpClosed(S)
    BY <1>2 DEF UpClosed
  <2>2. Parent(n) \in Ids => Parent(n) \in S
    BY <1>1, <1>2
  <2> QED BY <2>1, <2>2, AncestorsWithin
<1>4. n \in Ancestors(a)
  BY <1>3
<1>5. Ancestors(a) = Ancestors(n)
  BY <1>4, AncestorsAreAbove
<1>6. Parent(a) \in Ancestors(a)
  BY <1>4, AncestorsOfChild, AncestorsOfRoot
<1> QED BY <1>5, <1>6 DEF OnLoop

\* Two loops with a common event are one.
LEMMA LoopOf ==
    ASSUME NEW L \in Loops
    PROVE  /\ L \subseteq Ids /\ L # {}
           /\ \A n \in L : L = Ancestors(n) /\ OnLoop(n) /\ Parent(n) \in L
<1>1. PICK n \in Ids : OnLoop(n) /\ L = Ancestors(n)
  BY DEF Loops
<1>2. L \subseteq Ids /\ n \in L
  BY <1>1, AncestorsAreAbove DEF OnLoop
<1> QED BY <1>1, <1>2, LoopIsClosed

\* Where every event has a parent there is a loop above each.
LEMMA NoRootNoEnd ==
    ASSUME events \in Seq(EventSet), NEW S \in SUBSET Ids,
           \A n \in S : Parent(n) \in S
    PROVE  \A n \in S : Looped(n)
<1> SUFFICES ASSUME NEW n \in S PROVE Looped(n)
  OBVIOUS
<1> DEFINE A == Ancestors(n)
           N == {Cardinality(Ancestors(a)) : a \in A}
<1>1. \A a \in S : /\ Ancestors(a) \subseteq S /\ Parent(a) \in Ancestors(a)
                   /\ IsFiniteSet(Ancestors(a)) /\ Cardinality(Ancestors(a)) \in Nat
  <2> TAKE a \in S
  <2>1. Parent(a) \in Ancestors(a)
    BY AncestorsOfChild
  <2>2. UpClosed(S)
    BY DEF UpClosed
  <2>3. Ancestors(a) \subseteq S
    BY <2>2, AncestorsWithin
  <2>4. IsFiniteSet(Ancestors(a))
    BY <2>3, IdsAreFinite, FS_Subset
  <2> QED BY <2>1, <2>3, <2>4, FS_CardinalityType
<1>2. N \in SUBSET Nat /\ N # {}
  BY <1>1
<1>3. PICK k \in N : \A j \in N : <<j, k>> \notin OpToRel(<, Nat)
  BY <1>2, NatLessThanWellFounded, WFMin
<1>4. PICK a \in A : k = Cardinality(Ancestors(a))
  BY <1>3
<1> DEFINE p == Parent(a)
<1>5. a \in S /\ p \in S /\ p \in A /\ Ancestors(p) \subseteq Ancestors(a)
  <2>1. a \in S /\ p \in Ancestors(a)
    BY <1>1
  <2> QED BY <2>1, AncestorsAreAbove
<1>6. ~(Cardinality(Ancestors(p)) < k)
  BY <1>1, <1>2, <1>3, <1>5 DEF OpToRel
<1>7. Ancestors(p) = Ancestors(a)
  <2>1. Cardinality(Ancestors(p)) <= Cardinality(Ancestors(a))
    BY <1>1, <1>5, FS_Subset
  <2>2. Cardinality(Ancestors(p)) = Cardinality(Ancestors(a))
    BY <1>1, <1>4, <1>5, <1>6, <2>1
  <2> QED BY <1>1, <1>5, <2>2, FS_Subset
<1>8. OnLoop(p)
  BY <1>1, <1>5, <1>7 DEF OnLoop
<1> QED BY <1>5, <1>8 DEF Looped

----------------------------------------------------------------------------
(* Lists of nodes.                                                         *)

\* A node is added at the end of a list.
LEMMA RangeOfAppend ==
    ASSUME NEW S, NEW s \in Seq(S), NEW e \in S
    PROVE  /\ Append(s, e) \in Seq(S) /\ Range(Append(s, e)) = Range(s) \union {e}
           /\ Distinct(s) /\ e \notin Range(s) => Distinct(Append(s, e))
<1>1. /\ Append(s, e) \in Seq(S) /\ Len(Append(s, e)) = Len(s) + 1
      /\ \A i \in 1..Len(s) : Append(s, e)[i] = s[i]
      /\ Append(s, e)[Len(s) + 1] = e
  BY AppendProperties
<1>2. /\ DOMAIN s = 1..Len(s) /\ Len(s) \in Nat
      /\ DOMAIN Append(s, e) = 1..(Len(s) + 1)
  BY <1>1, LenProperties
<1>3. Range(Append(s, e)) = Range(s) \union {e}
  BY <1>1, <1>2 DEF Range
<1>4. ASSUME Distinct(s), e \notin Range(s) PROVE Distinct(Append(s, e))
  BY <1>1, <1>2, <1>4 DEF Distinct, Range
<1> QED BY <1>1, <1>3, <1>4

\* The first node is taken from a list.
LEMMA RangeOfTail ==
    ASSUME NEW S, NEW s \in Seq(S), s # <<>>, Distinct(s)
    PROVE  /\ Tail(s) \in Seq(S) /\ Distinct(Tail(s))
           /\ Head(s) \in Range(s) /\ Head(s) \in S
           /\ Range(Tail(s)) = Range(s) \ {Head(s)}
<1>1. /\ Tail(s) \in Seq(S) /\ Len(Tail(s)) = Len(s) - 1
      /\ \A i \in 1..Len(Tail(s)) : Tail(s)[i] = s[i + 1]
  BY HeadTailProperties
<1>2. /\ DOMAIN s = 1..Len(s) /\ Len(s) \in Nat \ {0} /\ Head(s) = s[1]
      /\ DOMAIN Tail(s) = 1..(Len(s) - 1)
  BY <1>1, LenProperties, EmptySeq
<1>3. Distinct(Tail(s))
  BY <1>1, <1>2 DEF Distinct
<1>4. Range(Tail(s)) = Range(s) \ {Head(s)}
  <2>1. ASSUME NEW x \in Range(Tail(s)) PROVE x \in Range(s) \ {Head(s)}
    <3>1. PICK i \in 1..(Len(s) - 1) : x = s[i + 1]
      BY <1>1, <1>2 DEF Range
    <3>2. i + 1 \in DOMAIN s /\ 1 \in DOMAIN s /\ i + 1 # 1
      BY <1>2
    <3> QED BY <1>2, <3>1, <3>2 DEF Range, Distinct
  <2>2. ASSUME NEW x \in Range(s), x # Head(s) PROVE x \in Range(Tail(s))
    <3>1. PICK i \in 1..Len(s) : x = s[i]
      BY <1>2 DEF Range
    <3>2. i - 1 \in 1..(Len(s) - 1) /\ (i - 1) + 1 = i
      BY <1>2, <2>2, <3>1
    <3>3. Tail(s)[i - 1] = x
      BY <1>1, <3>1, <3>2
    <3> QED BY <1>2, <3>2, <3>3 DEF Range
  <2> QED BY <2>1, <2>2
<1>5. Head(s) \in Range(s) /\ Head(s) \in S
  BY <1>2, HeadTailProperties DEF Range
<1> QED BY <1>1, <1>3, <1>4, <1>5

\* sortNodes' order is a strict and total one.
LEMMA EarlierIsTotal ==
    ASSUME events \in Seq(EventSet), NEW a \in Ids, NEW b \in Ids
    PROVE  /\ ~(Earlier(a, b) /\ Earlier(b, a))
           /\ a # b => Earlier(a, b) \/ Earlier(b, a)
           /\ \A c \in Ids : Earlier(a, b) /\ Earlier(b, c) => Earlier(a, c)
<1>1. \A n \in Ids : n \in Int /\ nodes[n].ts \in Int
  BY NodesAreFirst, IdsAreFinite DEF EventSet
<1> QED BY <1>1 DEF Earlier

\* A list that repeats no node has an order: each node stands after as many
\* as are earlier.
LEMMA OrderExists ==
    ASSUME events \in Seq(EventSet), NEW s \in Seq(Ids), Distinct(s)
    PROVE  \E t \in [DOMAIN s -> Range(s)] :
              Range(t) = Range(s) /\ \A i, j \in DOMAIN s : i < j => ~Earlier(t[j], t[i])
<1> DEFINE S == Range(s)
           n == Len(s)
           Above(x) == {y \in S : Earlier(y, x)}
           rank == [x \in S |-> Cardinality(Above(x)) + 1]
<1>1. n \in Nat /\ DOMAIN s = 1..n /\ S \subseteq Ids
  BY LenProperties, RangeOfSeq
<1>2. IsFiniteSet(S) /\ Cardinality(S) = n
  <2>1. s \in Surjection(1..n, S) /\ s \in Injection(1..n, S)
    BY <1>1, LenProperties DEF Surjection, Injection, IsInjective, Range, Distinct
  <2>2. IsFiniteSet(1..n) /\ Cardinality(1..n) = n
    <3>1. n \in Nat /\ 1 \in Int /\ n \in Int
      BY <1>1
    <3> HIDE DEF n
    <3>2. IsFiniteSet(1..n) /\ Cardinality(1..n) = IF 1 > n THEN 0 ELSE n - 1 + 1
      BY <3>1, FS_Interval
    <3> QED BY <3>1, <3>2
  <2> QED BY <2>1, <2>2, FS_Surjection
<1>3. \A x \in S : IsFiniteSet(Above(x)) /\ Cardinality(Above(x)) \in Nat
  BY <1>2, FS_Subset, FS_CardinalityType
<1>4. ASSUME NEW x \in S, NEW T \in SUBSET S, Above(x) \subseteq T, x \in T
      PROVE  rank[x] <= Cardinality(T)
  <2>1. IsFiniteSet(T)
    BY <1>2, FS_Subset
  <2>2. x \notin Above(x)
    BY <1>1, EarlierIsTotal
  <2>3. Cardinality(Above(x) \union {x}) = Cardinality(Above(x)) + 1
    BY <1>3, <2>2, FS_AddElement
  <2>4. Above(x) \union {x} \in SUBSET T
    BY <1>4
  <2>5. Cardinality(Above(x) \union {x}) <= Cardinality(T)
    BY <2>1, <2>4, FS_Subset
  <2> QED BY <2>3, <2>5
<1>5. rank \in [S -> 1..n]
  <2> SUFFICES ASSUME NEW x \in S PROVE Cardinality(Above(x)) + 1 \in 1..n
    OBVIOUS
  <2>1. rank[x] <= n
    BY <1>2, <1>4
  <2>2. rank[x] = Cardinality(Above(x)) + 1
    OBVIOUS
  <2> HIDE DEF rank, Above
  <2> QED BY <1>1, <1>3, <2>1, <2>2
<1>6. ASSUME NEW x \in S, NEW y \in S, Earlier(x, y) PROVE rank[x] < rank[y]
  <2>1. Above(x) \subseteq Above(y) /\ x \in Above(y) /\ Above(y) \in SUBSET S
    BY <1>1, <1>6, EarlierIsTotal
  <2>2. rank[x] <= Cardinality(Above(y))
    BY <1>4, <2>1
  <2>3. rank[y] = Cardinality(Above(y)) + 1
    OBVIOUS
  <2>4. rank[x] \in Int
    BY <1>5
  <2> HIDE DEF rank, Above
  <2> QED BY <1>3, <2>2, <2>3, <2>4
<1> HIDE DEF rank
<1>7. \A x, y \in S : rank[x] = rank[y] => x = y
  <2> SUFFICES ASSUME NEW x \in S, NEW y \in S, rank[x] = rank[y], x # y PROVE FALSE
    OBVIOUS
  <2>1. rank[x] < rank[y] \/ rank[y] < rank[x]
    BY <1>1, <1>6, EarlierIsTotal
  <2> QED BY <1>1, <1>5, <2>1
<1>8. rank \in Surjection(S, 1..n)
  <2>1. rank \in Injection(S, 1..n)
    BY <1>5, <1>7 DEF Injection, IsInjective
  <2> QED BY <1>1, <1>2, <2>1, FS_Injection, FS_Interval
<1> DEFINE t == [i \in 1..n |-> CHOOSE x \in S : rank[x] = i]
<1>9. \A i \in 1..n : t[i] \in S /\ rank[t[i]] = i
  BY <1>8 DEF Surjection
<1>10. t \in [1..n -> S]
  BY <1>9
<1> HIDE DEF t
<1>11. \A x \in S : t[rank[x]] = x
  BY <1>5, <1>7, <1>9
<1>12. Range(t) = S
  <2>1. \A x \in S : rank[x] \in 1..n /\ t[rank[x]] = x
    BY <1>5, <1>11
  <2>2. DOMAIN t = 1..n
    BY <1>10
  <2>3. Range(t) = {t[i] : i \in 1..n}
    BY <2>2 DEF Range
  <2> HIDE DEF S
  <2> QED BY <1>9, <2>1, <2>3
<1>13. ASSUME NEW i \in 1..n, NEW j \in 1..n, i < j, Earlier(t[j], t[i]) PROVE FALSE
  BY <1>6, <1>9, <1>13
<1> QED BY <1>1, <1>10, <1>12, <1>13

\* Sorting keeps the nodes and puts them in order.
LEMMA InOrderSorts ==
    ASSUME events \in Seq(EventSet), NEW s \in Seq(Ids), Distinct(s)
    PROVE  /\ InOrder(s) \in Seq(Ids) /\ Range(InOrder(s)) = Range(s)
           /\ Distinct(InOrder(s)) /\ InTime(InOrder(s))
<1> DEFINE t == InOrder(s)
           n == Len(s)
<1>1. /\ t \in [DOMAIN s -> Range(s)] /\ Range(t) = Range(s)
      /\ \A i, j \in DOMAIN s : i < j => ~Earlier(t[j], t[i])
  BY OrderExists DEF InOrder
<1> HIDE DEF t
<1>2. n \in Nat /\ DOMAIN s = 1..n /\ Range(s) \subseteq Ids
  BY LenProperties, RangeOfSeq
<1>3. t \in Seq(Ids)
  BY <1>1, <1>2, SeqDef
<1>4. IsFiniteSet(1..n)
  BY <1>2, FS_Interval
<1>5. Cardinality(Range(s)) = Cardinality(1..n)
  <2>1. s \in Surjection(1..n, Range(s)) /\ s \in Injection(1..n, Range(s))
    BY <1>2, LenProperties DEF Surjection, Injection, IsInjective, Range, Distinct
  <2> QED BY <1>4, <2>1, FS_Surjection
<1>6. Distinct(t)
  <2>1. t \in Surjection(1..n, Range(s))
    BY <1>1, <1>2 DEF Surjection, Range
  <2>2. t \in Injection(1..n, Range(s))
    BY <1>4, <1>5, <2>1, FS_Surjection
  <2> QED BY <1>1, <1>2, <2>2 DEF Injection, IsInjective, Distinct
<1>7. InTime(t)
  <2> SUFFICES ASSUME NEW i \in DOMAIN t, NEW j \in DOMAIN t, i < j
               PROVE  Earlier(t[i], t[j])
    BY DEF InTime
  <2>1. i \in 1..n /\ j \in 1..n /\ t[i] \in Ids /\ t[j] \in Ids /\ i # j
    BY <1>1, <1>2
  <2>2. t[i] # t[j] /\ ~Earlier(t[j], t[i])
    BY <1>1, <1>2, <1>6, <2>1 DEF Distinct
  <2> QED BY <2>1, <2>2, EarlierIsTotal
<1> QED BY <1>1, <1>3, <1>6, <1>7 DEF t

----------------------------------------------------------------------------
(* Diagnostics.                                                            *)

\* A diagnostic is a code and an event id.
LEMMA DiagnosisType ==
    ASSUME diagnostics \in Seq(Codes \X Ids), NEW c \in Codes, NEW d \in Ids,
           Diagnose(c, d)
    PROVE  diagnostics' \in Seq(Codes \X Ids)
<1>1. <<c, d>> \in Codes \X Ids
  OBVIOUS
<1> QED BY <1>1, AppendProperties DEF Diagnose

\* A diagnostic is added to those of its code, and to no others.
LEMMA DiagnoseReports ==
    ASSUME diagnostics \in Seq(Codes \X Ids), NEW c \in Codes, NEW d \in Ids,
           Diagnose(c, d), NEW k, NEW S
    PROVE  /\ ~(k = c /\ d \in S) => Reported(k, S)' = Reported(k, S)
           /\ k = c /\ d \in S /\ Reported(k, S) = {} =>
                 \E i \in DOMAIN diagnostics' : Reported(k, S)' = {i}
<1> DEFINE l == Len(diagnostics)
<1>1. /\ Len(diagnostics') = l + 1
      /\ \A i \in 1..l : diagnostics'[i] = diagnostics[i]
      /\ diagnostics'[l + 1] = <<c, d>>
      /\ diagnostics' \in Seq(Codes \X Ids)
  <2>1. <<c, d>> \in Codes \X Ids
    OBVIOUS
  <2> QED BY <2>1, AppendProperties DEF Diagnose
<1>2. l \in Nat /\ DOMAIN diagnostics = 1..l /\ DOMAIN diagnostics' = 1..(l + 1)
  BY <1>1, LenProperties
<1>3. Reported(k, S)' = Reported(k, S) \union (IF k = c /\ d \in S THEN {l + 1} ELSE {})
  BY <1>1, <1>2 DEF Reported
<1>4. k = c /\ d \in S /\ Reported(k, S) = {} => Reported(k, S)' = {l + 1}
  BY <1>3
<1>5. l + 1 \in DOMAIN diagnostics'
  BY <1>2
<1> HIDE DEF l
<1> QED BY <1>3, <1>4, <1>5

----------------------------------------------------------------------------
(* Frames.                                                                 *)

\* The top frame.
LEMMA TopFrame ==
    ASSUME Types, stack # <<>>
    PROVE  /\ Len(stack) \in DOMAIN stack /\ Len(stack) \in Nat \ {0}
           /\ DOMAIN stack = 1..Len(stack)
           /\ Top \in Frames /\ Top.rest \in Seq(Ids) /\ Top.node \in Ids \union {NoParent}
<1>1. Len(stack) \in Nat \ {0} /\ DOMAIN stack = 1..Len(stack)
  BY EmptySeq, LenProperties DEF Types
<1>2. Top \in Frames
  BY <1>1, ElementOfSeq DEF Types, Top
<1> QED BY <1>1, <1>2 DEF Frames

\* Going on to the next child takes it, and only it, from those that wait.
LEMMA AdvancedFrames ==
    ASSUME Types, FramesOK(stack), stack # <<>>, Top.rest # <<>>,
           NEW c, c = Head(Top.rest)
    PROVE  /\ Advanced \in Seq(Frames) /\ FramesOK(Advanced)
           /\ Len(Advanced) = Len(stack) /\ DOMAIN Advanced = DOMAIN stack
           /\ \A i \in DOMAIN stack : Advanced[i].node = stack[i].node
           /\ c \in Ids /\ Waiting(c) /\ Key(c) = Top.node
           /\ \A n : WaitsIn(Advanced, n) <=> Waiting(n) /\ n # c
<1> DEFINE k == Len(stack)
           top == [node |-> Top.node, rest |-> Tail(Top.rest)]
<1>1. /\ k \in DOMAIN stack /\ DOMAIN stack = 1..k /\ k \in Nat
      /\ stack \in Seq(Frames) /\ Top \in Frames /\ Top.rest \in Seq(Ids)
      /\ Top.node \in Ids \union {NoParent} /\ Top = stack[k]
  BY TopFrame DEF Types, Top
<1>2. /\ Distinct(Top.rest) /\ \A n \in Range(Top.rest) : Key(n) = Top.node
  BY <1>1 DEF FramesOK
<1>3. /\ Tail(Top.rest) \in Seq(Ids) /\ Distinct(Tail(Top.rest))
      /\ c \in Range(Top.rest) /\ c \in Ids
      /\ Range(Tail(Top.rest)) = Range(Top.rest) \ {c}
  BY <1>1, <1>2, RangeOfTail
<1>4. Advanced = [stack EXCEPT ![k] = top]
  <2>1. ASSUME NEW A, NEW B, NEW f \in [node : A, rest : B], NEW x
        PROVE  [f EXCEPT !.rest = x] = [node |-> f.node, rest |-> x]
    OBVIOUS
  <2>2. stack[k] \in [node : Ids \union {NoParent}, rest : Seq(Ids)]
    BY <1>1 DEF Frames
  <2>3. [stack[k] EXCEPT !.rest = Tail(stack[k].rest)]
          = [node |-> stack[k].node, rest |-> Tail(stack[k].rest)]
    BY <2>1, <2>2
  <2> QED BY <1>1, <2>3 DEF Advanced
<1>5. top \in Frames /\ top.node = Top.node /\ top.rest = Tail(Top.rest)
  BY <1>1, <1>3 DEF Frames
<1> HIDE DEF top
<1>6. /\ Advanced \in Seq(Frames) /\ Len(Advanced) = k
      /\ \A i \in 1..k : Advanced[i] = IF i = k THEN top ELSE stack[i]
  BY <1>1, <1>4, <1>5, ExceptSeq
<1>7. DOMAIN Advanced = 1..k
  BY <1>6, LenProperties
<1> HIDE DEF k
<1>8. \A i \in 1..k : Advanced[i].node = stack[i].node
  BY <1>1, <1>5, <1>6
<1>9. FramesOK(Advanced)
  <2>1. ASSUME NEW i \in 1..k
        PROVE  /\ Distinct(Advanced[i].rest)
               /\ \A n \in Range(Advanced[i].rest) : Key(n) = Advanced[i].node
    BY <1>1, <1>2, <1>3, <1>5, <1>6 DEF FramesOK
  <2>2. \A i, j \in 1..k : Advanced[i].node = Advanced[j].node => i = j
    BY <1>1, <1>8 DEF FramesOK
  <2> QED BY <1>7, <2>1, <2>2 DEF FramesOK
<1>10. ASSUME NEW i \in 1..k, c \in Range(stack[i].rest) PROVE i = k
  BY <1>1, <1>2, <1>3, <1>10 DEF FramesOK
<1>11. ASSUME NEW n PROVE WaitsIn(Advanced, n) <=> Waiting(n) /\ n # c
  <2>1. \A i \in 1..k : n \in Range(Advanced[i].rest) <=> n \in Range(stack[i].rest) /\ n # c
    BY <1>1, <1>3, <1>5, <1>6, <1>10
  <2> QED BY <1>1, <1>7, <2>1 DEF WaitsIn, Waiting
<1>12. Waiting(c)
  BY <1>1, <1>3 DEF WaitsIn, Waiting
<1> QED BY <1>1, <1>2, <1>3, <1>6, <1>7, <1>8, <1>9, <1>11, <1>12 DEF k

\* A call adds the children of its node.
LEMMA PushedFrames ==
    ASSUME NEW fs \in Seq(Frames), FramesOK(fs),
           NEW n \in Ids \union {NoParent}, \A i \in DOMAIN fs : fs[i].node # n,
           NEW ns \in Seq(Ids), Distinct(ns), \A m \in Range(ns) : Key(m) = n
    PROVE  /\ Append(fs, Frame(n, ns)) \in Seq(Frames) /\ FramesOK(Append(fs, Frame(n, ns)))
           /\ Len(Append(fs, Frame(n, ns))) = Len(fs) + 1
           /\ DOMAIN Append(fs, Frame(n, ns)) = DOMAIN fs \union {Len(fs) + 1}
           /\ \A i \in DOMAIN fs : Append(fs, Frame(n, ns))[i].node = fs[i].node
           /\ Append(fs, Frame(n, ns))[Len(fs) + 1].node = n
           /\ \A m : WaitsIn(Append(fs, Frame(n, ns)), m) <=> WaitsIn(fs, m) \/ m \in Range(ns)
<1> DEFINE f == Frame(n, ns)
           k == Len(fs)
           gs == Append(fs, f)
<1>1. f \in Frames /\ f.node = n /\ f.rest = ns
  BY DEF Frame, Frames
<1>2. k \in Nat /\ DOMAIN fs = 1..k
  BY LenProperties
<1> HIDE DEF f
<1>3. /\ gs \in Seq(Frames) /\ Len(gs) = k + 1
      /\ \A i \in 1..k : gs[i] = fs[i]
      /\ gs[k + 1] = f
  BY <1>1, AppendProperties
<1>4. DOMAIN gs = 1..(k + 1)
  BY <1>3, LenProperties
<1> HIDE DEF k, gs
<1>5. DOMAIN gs = DOMAIN fs \union {k + 1} /\ k + 1 \notin DOMAIN fs
  BY <1>2, <1>4
<1>6. FramesOK(gs)
  <2>1. ASSUME NEW i \in DOMAIN gs
        PROVE  /\ Distinct(gs[i].rest)
               /\ \A m \in Range(gs[i].rest) : Key(m) = gs[i].node
    BY <1>1, <1>2, <1>3, <1>5 DEF FramesOK
  <2>2. ASSUME NEW i \in DOMAIN gs, NEW j \in DOMAIN gs, gs[i].node = gs[j].node
        PROVE  i = j
    BY <1>1, <1>2, <1>3, <1>5, <2>2 DEF FramesOK
  <2> QED BY <2>1, <2>2 DEF FramesOK
<1>7. ASSUME NEW m PROVE WaitsIn(gs, m) <=> WaitsIn(fs, m) \/ m \in Range(ns)
  BY <1>1, <1>2, <1>3, <1>5 DEF WaitsIn
<1> QED BY <1>1, <1>2, <1>3, <1>5, <1>6, <1>7 DEF f, k, gs

\* The stack of one frame.
LEMMA OneFrame ==
    ASSUME NEW n \in Ids \union {NoParent}, NEW ns \in Seq(Ids), Distinct(ns),
           \A m \in Range(ns) : Key(m) = n, NEW fs, fs = <<Frame(n, ns)>>
    PROVE  /\ fs \in Seq(Frames) /\ FramesOK(fs) /\ DOMAIN fs = {1} /\ fs[1].node = n
           /\ \A m : WaitsIn(fs, m) <=> m \in Range(ns)
<1>1. PICK es \in Seq(Frames) : es = <<>>
  BY EmptySeq
<1>2. FramesOK(es) /\ Len(es) = 0 /\ DOMAIN es = {} /\ \A m : ~WaitsIn(es, m)
  BY <1>1 DEF FramesOK, WaitsIn
<1> DEFINE gs == Append(es, Frame(n, ns))
<1>3. /\ gs \in Seq(Frames) /\ FramesOK(gs)
      /\ DOMAIN gs = DOMAIN es \union {Len(es) + 1} /\ gs[Len(es) + 1].node = n
      /\ \A m : WaitsIn(gs, m) <=> WaitsIn(es, m) \/ m \in Range(ns)
  BY <1>2, PushedFrames
<1>4. fs = gs
  BY <1>1
<1> HIDE DEF gs
<1>5. Len(es) + 1 = 1 /\ DOMAIN gs = {1} /\ gs[1].node = n
  BY <1>2, <1>3
<1>6. \A m : WaitsIn(gs, m) <=> m \in Range(ns)
  BY <1>2, <1>3
<1> QED BY <1>3, <1>4, <1>5, <1>6

\* A frame nothing waits in any more goes.
LEMMA PoppedFrames ==
    ASSUME Types, FramesOK(stack), stack # <<>>, Top.rest = <<>>,
           NEW fs, fs = SubSeq(stack, 1, Len(stack) - 1)
    PROVE  /\ fs \in Seq(Frames) /\ FramesOK(fs) /\ Len(fs) = Len(stack) - 1
           /\ DOMAIN fs = DOMAIN stack \ {Len(stack)}
           /\ \A i \in DOMAIN fs : fs[i] = stack[i]
           /\ \A m : WaitsIn(fs, m) <=> Waiting(m)
<1> DEFINE k == Len(stack)
<1>1. k \in Nat \ {0} /\ DOMAIN stack = 1..k /\ Top = stack[k] /\ stack \in Seq(Frames)
  BY TopFrame DEF Types, Top
<1>2. \A i \in 1..(k - 1) : stack[i] \in Frames
  BY <1>1, ElementOfSeq
<1>3. /\ fs \in Seq(Frames) /\ Len(fs) = k - 1
      /\ \A i \in 1..(k - 1) : fs[i] = stack[i]
  <2>1. 1 \in Int /\ k - 1 \in Int
    BY <1>1
  <2>2. /\ fs \in Seq(Frames)
        /\ Len(fs) = IF 1 <= k - 1 THEN (k - 1) - 1 + 1 ELSE 0
        /\ \A i \in 1..((k - 1) - 1 + 1) : fs[i] = stack[1 + i - 1]
    BY <1>2, <2>1, SubSeqProperties
  <2> HIDE DEF k
  <2> QED BY <1>1, <2>2
<1>4. DOMAIN fs = 1..(k - 1)
  BY <1>3, LenProperties
<1> HIDE DEF k
<1>5. DOMAIN fs = DOMAIN stack \ {k}
  BY <1>1, <1>4
<1>6. FramesOK(fs)
  BY <1>3, <1>4, <1>5 DEF FramesOK
<1>7. Range(stack[k].rest) = {}
  BY <1>1 DEF Range
<1>8. ASSUME NEW m PROVE WaitsIn(fs, m) <=> Waiting(m)
  BY <1>3, <1>4, <1>5, <1>7 DEF WaitsIn, Waiting
<1> QED BY <1>3, <1>4, <1>5, <1>6, <1>8 DEF k

----------------------------------------------------------------------------
(* Types and shape.                                                        *)

\* Facts about the list, and that it stays.
LEMMA TheList ==
    ASSUME Types
    PROVE  /\ events \in Seq(EventSet) /\ NoParent \notin Ids
           /\ \A n \in Ids : n \in Int /\ nodes[n].ts \in Int
<1>1. events \in Seq(EventSet)
  BY TracesAssumption DEF Types
<1>2. \A n \in Ids : nodes[n] \in EventSet
  BY <1>1, NodesAreFirst
<1> QED BY <1>1, <1>2, IdsAreFinite DEF EventSet

\* Build begins with no links and no frames.
LEMMA GraphInit == Init => Before
<1> SUFFICES ASSUME Init PROVE Before
  OBVIOUS
<1>1. Types
  <2>1. Repeated(events) \subseteq Ids
    BY DEF Repeated, Ids, nodes, NodesOf
  <2>2. /\ stack \in Seq(Frames) /\ roots \in Seq(Ids) /\ lines \in Seq(Ids)
        /\ diagnostics \in Seq(Codes \X Ids)
    BY EmptySeq DEF Init
  <2>3. children \in [Ids -> Seq(Ids)] /\ state \in [Ids -> 0..2]
    BY EmptySeq DEF Init
  <2> QED BY <2>1, <2>2, <2>3 DEF Init, Types, LoopNames
<1>2. Range(<<>>) = {} /\ Distinct(<<>>) /\ DOMAIN <<>> = {}
  BY DEF Range, Distinct
<1>3. Shape
  <2>1. ~\E n \in Ids : Rooted(n) \/ \E p \in Ids : Below(p, n)
    BY DEF Init, Rooted, Below, Linked
  <2> QED BY <1>2, <2>1 DEF Init, Shape
<1>4. Calls
  BY <1>2 DEF Init, Calls, FramesOK
<1> QED BY <1>1, <1>3, <1>4 DEF Before

\* The loop that reports repeated ids.
LEMMA DuplicateKeeps ==
    ASSUME Before, NEW n \in todo, Duplicate(n)
    PROVE  After
<1>1. Types /\ Shape /\ Calls
  BY DEF Before
<1> USE DEF Duplicate, Take
<1>2. n \in Ids
  BY <1>1 DEF Types
<1>3. Types'
  <2>1. "DUPLICATE" \in Codes
    BY DEF Codes
  <2>2. diagnostics' \in Seq(Codes \X Ids)
    BY <1>1, <1>2, <2>1, DiagnosisType DEF Types
  <2> QED BY <1>1, <2>2, ListStays DEF Types
<1>4. Shape'
  <2>1. loop = "duplicates" /\ loop' = loop
    OBVIOUS
  <2>2. \A m : Rooted(m)' = Rooted(m) /\ \A p : Below(p, m)' = Below(p, m)
    BY <2>1 DEF Rooted, Below, Linked
  <2> QED BY <1>1, <2>1, <2>2, ListStays DEF Shape
<1>5. Calls'
  BY <1>1, ListStays DEF Calls, FramesOK, Key
<1> QED BY <1>3, <1>4, <1>5 DEF After

\* The loop that links the nodes.
LEMMA LinkKeeps ==
    ASSUME Before, NEW n \in todo, Link(n)
    PROVE  After
<1>1. Types /\ Shape /\ Calls
  BY DEF Before
<1> DEFINE p == Parent(n)
<1>2. /\ n \in Ids /\ loop = "link" /\ loop' = loop /\ stack = <<>> /\ stack' = stack
      /\ todo' = todo \ {n} /\ state' = state /\ lines' = lines /\ events' = events
  BY <1>1 DEF Types, Link, Take
<1>3. Ids' = Ids /\ NoParent \notin Ids /\ (\A m : Parent(m)' = Parent(m))
  BY <1>1, <1>2, ListStays, TheList
<1>4. /\ ~Linked(n) /\ Linked(n)'
      /\ \A m : m # n => Linked(m)' = Linked(m)
  BY <1>2 DEF Linked
<1>5. /\ p \notin Ids => roots' = Append(roots, n) /\ children' = children
      /\ p \in Ids => roots' = roots /\ children' = [children EXCEPT ![p] = Append(@, n)]
  BY <1>3 DEF Link, Parent
<1>6. diagnostics' = diagnostics \/ Diagnose("ORPHAN", n)
  BY DEF Link
<1>7. roots \in Seq(Ids) /\ children \in [Ids -> Seq(Ids)]
  BY <1>1 DEF Types
<1>8. /\ roots' \in Seq(Ids) /\ Distinct(roots')
      /\ Range(roots') = {m \in Ids : Rooted(m)'}
  <2>1. n \notin Range(roots) /\ Distinct(roots) /\ Range(roots) = {m \in Ids : Rooted(m)}
    BY <1>1, <1>4 DEF Shape, Rooted
  <2>2. CASE p \notin Ids
    <3>1. \A m \in Ids : Rooted(m)' <=> Rooted(m) \/ m = n
      BY <1>3, <1>4, <2>2 DEF Rooted
    <3>2. /\ Append(roots, n) \in Seq(Ids) /\ Distinct(Append(roots, n))
          /\ Range(Append(roots, n)) = Range(roots) \union {n}
      BY <1>2, <1>7, <2>1, RangeOfAppend
    <3>3. roots' = Append(roots, n)
      BY <1>5, <2>2
    <3> HIDE DEF p
    <3> QED BY <1>2, <2>1, <3>1, <3>2, <3>3
  <2>3. CASE p \in Ids
    <3>1. \A m \in Ids : Rooted(m)' <=> Rooted(m)
      BY <1>3, <1>4, <2>3 DEF Rooted
    <3> QED BY <1>5, <1>7, <2>1, <2>3, <3>1
  <2> QED BY <2>2, <2>3
<1>9. /\ children' \in [Ids -> Seq(Ids)]
      /\ \A q \in Ids : /\ Range(children'[q]) = {m \in Ids : Below(q, m)'}
                        /\ Distinct(children'[q])
  <2>1. \A q \in Ids : /\ children[q] \in Seq(Ids) /\ Distinct(children[q])
                       /\ Range(children[q]) = {m \in Ids : Below(q, m)}
                       /\ n \notin Range(children[q])
    BY <1>1, <1>4, <1>7 DEF Shape, Below
  <2>2. ASSUME NEW q \in Ids, q # p \/ p \notin Ids
        PROVE  /\ children'[q] = children[q]
               /\ \A m \in Ids : Below(q, m)' <=> Below(q, m)
    <3>1. children'[q] = children[q]
      BY <1>5, <1>7, <2>2
    <3> QED BY <1>3, <1>4, <2>2, <3>1 DEF Below
  <2>3. ASSUME NEW q \in Ids, q = p
        PROVE  /\ children'[q] = Append(children[q], n)
               /\ \A m \in Ids : Below(q, m)' <=> Below(q, m) \/ m = n
               /\ children' = [children EXCEPT ![q] = Append(children[q], n)]
               /\ Append(children[q], n) \in Seq(Ids)
    <3>1. Append(children[q], n) \in Seq(Ids)
      BY <1>2, <2>1, <2>3, RangeOfAppend
    <3> QED BY <1>3, <1>4, <1>5, <1>7, <2>3, <3>1 DEF Below
  <2>4. children' \in [Ids -> Seq(Ids)]
    BY <1>5, <1>7, <2>3
  <2>5. ASSUME NEW q \in Ids
        PROVE  /\ Range(children'[q]) = {m \in Ids : Below(q, m)'}
               /\ Distinct(children'[q])
    <3>1. CASE q = p
      <4>1. /\ Range(Append(children[q], n)) = Range(children[q]) \union {n}
            /\ Distinct(Append(children[q], n))
        BY <1>2, <2>1, RangeOfAppend
      <4>2. children'[q] = Append(children[q], n)
        BY <2>3, <3>1
      <4>3. \A m \in Ids : Below(q, m)' <=> Below(q, m) \/ m = n
        BY <2>3, <3>1
      <4> QED BY <1>2, <2>1, <4>1, <4>2, <4>3
    <3>2. CASE q # p
      BY <2>1, <2>2, <3>2
    <3> QED BY <3>1, <3>2
  <2> QED BY <2>4, <2>5
<1>10. diagnostics' \in Seq(Codes \X Ids)
  <2>1. "ORPHAN" \in Codes
    BY DEF Codes
  <2>2. diagnostics \in Seq(Codes \X Ids)
    BY <1>1 DEF Types
  <2> QED BY <1>2, <1>6, <2>1, <2>2, DiagnosisType
<1>11. Types'
  BY <1>1, <1>2, <1>8, <1>9, <1>10, ListStays DEF Types
<1>12. Shape'
  BY <1>2, <1>3, <1>8, <1>9 DEF Shape
<1>13. Calls'
  BY <1>1, <1>2, ListStays DEF Calls, FramesOK, Key
<1> QED BY <1>11, <1>12, <1>13 DEF After

\* What is known of some frames, or of a list in order, is known of the stack
\* that becomes them, of the roots or children that become it.
LEMMA FramesStay ==
    ASSUME events' = events, NEW fs, stack' = fs
    PROVE  /\ FramesOK(fs) => FramesOK(stack)'
           /\ \A m : Waiting(m)' <=> WaitsIn(fs, m)
<1>1. \A m : Key(m)' = Key(m)
  BY ListStays DEF Key
<1> QED BY <1>1 DEF FramesOK, Waiting, WaitsIn

\* The same for what is in order of time.
LEMMA OrderStays ==
    ASSUME events' = events, NEW s, InTime(s)
    PROVE  /\ roots' = s => InTime(roots)'
           /\ \A p : children'[p] = s => InTime(children[p])'
<1>1. nodes' = nodes
  BY ListStays
<1> QED BY <1>1 DEF InTime, Earlier

\* Steps that leave the graph as it is.
LEMMA ShapeStays ==
    ASSUME Shape, UNCHANGED <<events, loop, roots, children>>,
           loop \in {"link", "sort"} => todo' = todo
    PROVE  Shape'
<1>1. /\ Ids' = Ids /\ \A n : Linked(n)' = Linked(n)
      /\ \A n : Rooted(n)' = Rooted(n) /\ \A p : Below(p, n)' = Below(p, n)
  BY ListStays DEF Linked, Rooted, Below
<1>2. /\ Range(roots') = {n \in Ids' : Rooted(n)'} /\ Distinct(roots)'
      /\ loop' \in {"sort", "print", "done"} => InTime(roots)'
  BY <1>1, OrderStays DEF Shape
<1>3. ASSUME NEW p \in Ids'
      PROVE  /\ Range(children'[p]) = {n \in Ids' : Below(p, n)'}
             /\ Distinct(children[p])'
             /\ \/ loop' = "sort" /\ p \notin todo'
                \/ loop' \in {"print", "done"}
                => InTime(children[p])'
  <2>1. /\ Range(children[p]) = {n \in Ids : Below(p, n)}
        /\ Distinct(children[p])
        /\ \/ loop' = "sort" /\ p \notin todo'
           \/ loop' \in {"print", "done"}
           => InTime(children[p])
    BY <1>1 DEF Shape
  <2>2. children'[p] = children[p]
    OBVIOUS
  <2> QED BY <1>1, <2>1, <2>2, OrderStays
<1> QED BY <1>2, <1>3 DEF Shape

\* What a child's place in the list of its parent says.
LEMMA ChildrenAreBelow ==
    ASSUME Types, Shape, NEW p \in Ids, loop \notin {"duplicates", "link"}
    PROVE  /\ children[p] \in Seq(Ids) /\ Distinct(children[p])
           /\ \A m \in Range(children[p]) : Key(m) = p /\ Parent(m) = p /\ m \in Ids
           /\ \A m \in Ids : Parent(m) = p => m \in Range(children[p])
  BY DEF Types, Shape, Below, Linked, Key

\* A call of visit, from within frames of open nodes.
LEMMA SearchShape ==
    ASSUME Before, NEW n \in Ids, NEW fs \in Seq(Frames), FramesOK(fs),
           \A i \in DOMAIN fs : fs[i].node \in Ids /\ state[fs[i].node] = 1,
           loop = "visit", Search(n, fs), todo' \in SUBSET Ids,
           UNCHANGED <<events, loop, roots, children, lines>>
    PROVE  After
<1>1. Types /\ Shape /\ Calls
  BY DEF Before
<1> DEFINE gs == Append(fs, Frame(n, children[n]))
<1>2. ASSUME state[n] = 0
      PROVE  /\ gs \in Seq(Frames) /\ FramesOK(gs)
             /\ \A i \in DOMAIN gs : gs[i].node \in Ids
  <2>1. \A i \in DOMAIN fs : fs[i].node # n
    BY <1>2
  <2>2. /\ children[n] \in Seq(Ids) /\ Distinct(children[n])
        /\ \A m \in Range(children[n]) : Key(m) = n
    BY <1>1, ChildrenAreBelow
  <2> QED BY <2>1, <2>2, PushedFrames
<1>3. stack' \in {fs, gs} /\ (stack' = gs => state[n] = 0 \/ gs = fs)
  BY DEF Search
<1>4. stack' \in Seq(Frames) /\ FramesOK(stack') /\ \A i \in DOMAIN stack' : stack'[i].node \in Ids
  BY <1>2, <1>3
<1>5. Calls'
  BY <1>4, ListStays, FramesStay DEF Calls
<1>6. diagnostics' \in Seq(Codes \X Ids)
  <2>1. "CYCLE" \in Codes
    BY DEF Codes
  <2>2. diagnostics \in Seq(Codes \X Ids)
    BY <1>1 DEF Types
  <2> QED BY <2>1, <2>2, DiagnosisType DEF Search
<1>7. state' \in [Ids -> 0..2]
  BY <1>1 DEF Search, Types
<1>8. Types'
  BY <1>1, <1>4, <1>6, <1>7, ListStays DEF Types
<1> QED BY <1>1, <1>5, <1>8, ShapeStays DEF After

\* A search begins at a node of the map.
LEMMA VisitKeeps ==
    ASSUME Before, NEW n \in todo, Visit(n)
    PROVE  After
<1>1. n \in Ids /\ todo' \in SUBSET Ids /\ <<>> \in Seq(Frames) /\ DOMAIN <<>> = {}
  BY EmptySeq DEF Before, Types, Visit, Take
<1>2. FramesOK(<<>>)
  BY <1>1 DEF FramesOK
<1> QED BY <1>1, <1>2, SearchShape DEF Visit, Take

\* The next child of the node in the top frame.
LEMMA NextChild ==
    ASSUME Before, NEW l, NEW c, Child(l, c)
    PROVE  /\ Advanced \in Seq(Frames) /\ FramesOK(Advanced)
           /\ Len(Advanced) = Len(stack) /\ DOMAIN Advanced = DOMAIN stack
           /\ \A i \in DOMAIN stack : Advanced[i].node = stack[i].node
           /\ c \in Ids /\ Waiting(c) /\ Key(c) = Top.node
           /\ \A n : WaitsIn(Advanced, n) <=> Waiting(n) /\ n # c
           /\ loop # "print" => Top.node \in Ids /\ Parent(c) = Top.node
           /\ Len(stack) \in DOMAIN stack /\ Len(stack) \in Nat \ {0}
           /\ DOMAIN stack = 1..Len(stack)
<1>1. /\ Types /\ FramesOK(stack) /\ stack # <<>> /\ Top.rest # <<>> /\ c = Head(Top.rest)
  BY DEF Before, Calls, Child
<1>2. /\ Advanced \in Seq(Frames) /\ FramesOK(Advanced)
      /\ Len(Advanced) = Len(stack) /\ DOMAIN Advanced = DOMAIN stack
      /\ \A i \in DOMAIN stack : Advanced[i].node = stack[i].node
      /\ c \in Ids /\ Waiting(c) /\ Key(c) = Top.node
      /\ \A n : WaitsIn(Advanced, n) <=> Waiting(n) /\ n # c
  BY <1>1, AdvancedFrames
<1>3. /\ Len(stack) \in DOMAIN stack /\ Len(stack) \in Nat \ {0}
      /\ DOMAIN stack = 1..Len(stack)
  BY <1>1, TopFrame
<1>4. loop # "print" => Top.node \in Ids /\ Parent(c) = Top.node
  BY <1>1, <1>2, <1>3, TheList DEF Before, Calls, Top, Key
<1> QED BY <1>2, <1>3, <1>4

\* The search goes on to a child, whose frame is new as it has no mark.
LEMMA VisitChildKeeps ==
    ASSUME Before, Marks, NEW c \in Ids, VisitChild(c)
    PROVE  After
<1>1. loop = "visit" /\ Child("visit", c) /\ Search(c, Advanced)
  BY DEF VisitChild, Child
<1>2. \A i \in DOMAIN stack : stack[i].node \in Ids /\ state[stack[i].node] = 1
  BY <1>1 DEF Marks, Before, Calls
<1>3. /\ Advanced \in Seq(Frames) /\ FramesOK(Advanced) /\ DOMAIN Advanced = DOMAIN stack
      /\ \A i \in DOMAIN stack : Advanced[i].node = stack[i].node
  BY <1>1, NextChild
<1>4. todo' \in SUBSET Ids /\ UNCHANGED <<events, loop, roots, children, lines>>
  BY DEF VisitChild, Child, Before, Types
<1> HIDE DEF VisitChild
<1> QED BY <1>1, <1>2, <1>3, <1>4, SearchShape

\* A node's children are put in order.
LEMMA SortKeeps ==
    ASSUME Before, NEW n \in todo, Sort(n)
    PROVE  After
<1>1. Types /\ Shape /\ Calls
  BY DEF Before
<1> DEFINE t == InOrder(children[n])
<1>2. /\ n \in Ids /\ loop = "sort" /\ todo' = todo \ {n} /\ stack = <<>>
      /\ children' = [children EXCEPT ![n] = t] /\ stack' = <<Frame(n, children'[n])>>
      /\ UNCHANGED <<events, loop, roots, diagnostics, state, lines>>
  BY <1>1 DEF Sort, Take, Types
<1>3. /\ children \in [Ids -> Seq(Ids)] /\ events \in Seq(EventSet)
      /\ children[n] \in Seq(Ids) /\ Distinct(children[n])
  BY <1>1, <1>2, TheList, ChildrenAreBelow DEF Types
<1>4. t \in Seq(Ids) /\ Range(t) = Range(children[n]) /\ Distinct(t) /\ InTime(t)
  BY <1>3, InOrderSorts
<1> HIDE DEF t
<1>5. /\ children' \in [Ids -> Seq(Ids)] /\ children'[n] = t
      /\ \A p \in Ids \ {n} : children'[p] = children[p]
  BY <1>2, <1>3, <1>4
<1>6. stack' \in Seq(Frames) /\ FramesOK(stack') /\ \A i \in DOMAIN stack' : stack'[i].node \in Ids
  <2>1. \A m \in Range(t) : Key(m) = n
    BY <1>1, <1>2, <1>4, ChildrenAreBelow
  <2> QED BY <1>2, <1>4, <1>5, <2>1, OneFrame
<1>7. Calls'
  BY <1>2, <1>6, ListStays, FramesStay DEF Calls
<1>8. Types'
  BY <1>1, <1>2, <1>5, <1>6, ListStays DEF Types
<1>9. Shape'
  <2>1. /\ Ids' = Ids /\ \A m : Linked(m)' = Linked(m)
        /\ \A m : Rooted(m)' = Rooted(m) /\ \A p : Below(p, m)' = Below(p, m)
    BY <1>2, ListStays DEF Linked, Rooted, Below
  <2>2. Range(roots') = {m \in Ids' : Rooted(m)'} /\ Distinct(roots)' /\ InTime(roots)'
    BY <1>1, <1>2, <2>1, OrderStays DEF Shape
  <2>3. ASSUME NEW p \in Ids
        PROVE  /\ Range(children'[p]) = {m \in Ids : Below(p, m)'}
               /\ Distinct(children'[p])
               /\ p \notin todo' => InTime(children[p])'
    <3>1. CASE p = n
      <4>1. Range(t) = {m \in Ids : Below(p, m)}
        BY <1>1, <1>4, <3>1 DEF Shape
      <4> QED BY <1>2, <1>4, <1>5, <2>1, <3>1, <4>1, OrderStays
    <3>2. CASE p # n
      <4>1. /\ Range(children[p]) = {m \in Ids : Below(p, m)} /\ Distinct(children[p])
            /\ p \notin todo => InTime(children[p])
        BY <1>1, <1>2 DEF Shape
      <4> QED BY <1>2, <1>5, <2>1, <3>2, <4>1, OrderStays
    <3> QED BY <3>1, <3>2
  <2> QED BY <1>2, <2>1, <2>2, <2>3 DEF Shape
<1> QED BY <1>7, <1>8, <1>9 DEF After

\* A child is compared with its parent.
LEMMA CompareKeeps ==
    ASSUME Before, NEW c \in Ids, Compare(c)
    PROVE  After
<1>1. Types /\ Shape /\ Calls /\ Child("sort", c)
  BY DEF Before, Compare
<1>2. /\ Advanced \in Seq(Frames) /\ FramesOK(Advanced) /\ DOMAIN Advanced = DOMAIN stack
      /\ \A i \in DOMAIN stack : Advanced[i].node = stack[i].node
  BY <1>1, NextChild
<1>3. /\ loop = "sort" /\ stack' = Advanced
      /\ UNCHANGED <<events, loop, todo, roots, children, state, lines>>
  BY DEF Compare, Child
<1>4. Calls'
  <2>1. \A i \in DOMAIN stack' : stack'[i].node \in Ids'
    BY <1>1, <1>2, <1>3, ListStays DEF Calls
  <2> QED BY <1>2, <1>3, <2>1, FramesStay DEF Calls
<1>5. diagnostics' \in Seq(Codes \X Ids)
  <2>1. "INCONSISTENT_ORDER" \in Codes
    BY DEF Codes
  <2>2. diagnostics \in Seq(Codes \X Ids)
    BY <1>1 DEF Types
  <2> QED BY <2>1, <2>2, DiagnosisType DEF Compare
<1>6. Types'
  BY <1>1, <1>2, <1>3, <1>5, ListStays DEF Types
<1> QED BY <1>1, <1>3, <1>4, <1>6, ShapeStays DEF After

\* A line is printed for a node that has none, so its frame is new.
LEMMA ShowKeeps ==
    ASSUME Before, Walked, NEW c \in Ids, Show(c)
    PROVE  After
<1>1. Types /\ Shape /\ Calls /\ Child("print", c)
  BY DEF Before, Show
<1>2. /\ Advanced \in Seq(Frames) /\ FramesOK(Advanced) /\ DOMAIN Advanced = DOMAIN stack
      /\ \A i \in DOMAIN stack : Advanced[i].node = stack[i].node
      /\ Waiting(c)
  BY <1>1, NextChild
<1>3. /\ loop = "print" /\ stack' = Append(Advanced, Frame(c, children[c]))
      /\ UNCHANGED <<events, loop, todo, roots, children, diagnostics, state>>
      /\ lines' = Append(lines, c)
  BY DEF Show, Child
<1>4. \A i \in DOMAIN Advanced : Advanced[i].node # c
  <2>1. c \notin Range(lines)
    BY <1>2, <1>3 DEF Walked, Printing
  <2> QED BY <1>1, <1>2, <1>3, <2>1, TheList DEF Walked
<1>5. /\ children[c] \in Seq(Ids) /\ Distinct(children[c])
      /\ \A m \in Range(children[c]) : Key(m) = c
  BY <1>1, <1>3, ChildrenAreBelow
<1>6. stack' \in Seq(Frames) /\ FramesOK(stack')
  BY <1>2, <1>3, <1>4, <1>5, PushedFrames
<1>7. Calls'
  BY <1>1, <1>3, <1>6, FramesStay DEF Calls
<1>8. lines' \in Seq(Ids)
  BY <1>1, <1>3, AppendProperties DEF Types
<1>9. Types'
  BY <1>1, <1>3, <1>6, <1>8, ListStays DEF Types
<1> QED BY <1>1, <1>3, <1>7, <1>9, ShapeStays DEF After

\* A loop over children ends.
LEMMA ReturnKeeps ==
    ASSUME Before, Return
    PROVE  After
<1>1. Types /\ Shape /\ Calls /\ FramesOK(stack) /\ stack # <<>> /\ Top.rest = <<>>
  BY DEF Before, Return, Calls
<1>2. stack' = SubSeq(stack, 1, Len(stack) - 1)
  BY DEF Return
<1>3. UNCHANGED <<events, loop, todo, roots, children, diagnostics, lines>>
  BY DEF Return
<1>4. /\ stack' \in Seq(Frames) /\ FramesOK(stack') /\ DOMAIN stack' \subseteq DOMAIN stack
      /\ \A i \in DOMAIN stack' : stack'[i] = stack[i]
  BY <1>1, <1>2, PoppedFrames
<1>5. Calls'
  <2>1. loop' # "print" => \A i \in DOMAIN stack' : stack'[i].node \in Ids'
    BY <1>1, <1>3, <1>4, ListStays DEF Calls
  <2>2. loop \notin {"duplicates", "link", "done"}
    BY <1>1 DEF Calls
  <2> QED BY <1>1, <1>3, <1>4, <2>1, <2>2, FramesStay DEF Calls
<1>6. state' \in [Ids -> 0..2]
  <2>1. state \in [Ids -> 0..2]
    BY <1>1 DEF Types
  <2>2. loop = "visit" => Top.node \in Ids
    BY <1>1, TopFrame DEF Calls, Top
  <2> QED BY <2>1, <2>2 DEF Return
<1>7. Types'
  BY <1>1, <1>3, <1>4, <1>6, ListStays DEF Types
<1> QED BY <1>1, <1>3, <1>5, <1>7, ShapeStays DEF After

\* The end of a loop, by which loop it is.
LEMMA LeaveIsOf ==
    ASSUME Types, Leave
    PROVE  /\ todo = {} /\ stack = <<>>
           /\ UNCHANGED <<events, children, diagnostics, state, lines>>
           /\ \/ loop = "duplicates" /\ loop' = "link"
              \/ loop = "link" /\ loop' = "visit"
              \/ loop = "visit" /\ loop' = "sort"
              \/ loop = "sort" /\ loop' = "print"
              \/ loop = "print" /\ loop' = "done"
           /\ loop' \in {"link", "visit", "sort"} => todo' = Ids
           /\ loop' \in {"print", "done"} => todo' = {}
           /\ loop' = "sort" => roots' = InOrder(roots)
           /\ loop' # "sort" => roots' = roots
           /\ loop' = "print" => stack' = <<Frame(NoParent, roots)>>
           /\ loop' # "print" => stack' = <<>>
<1>1. loop \in LoopNames /\ loop # "done" /\ loop' = NextLoop[loop]
  BY DEF Types, Leave
<1>2. \/ loop = "duplicates" /\ loop' = "link"
      \/ loop = "link" /\ loop' = "visit"
      \/ loop = "visit" /\ loop' = "sort"
      \/ loop = "sort" /\ loop' = "print"
      \/ loop = "print" /\ loop' = "done"
  BY <1>1 DEF LoopNames, NextLoop
<1>3. /\ todo = {} /\ stack = <<>>
      /\ UNCHANGED <<events, children, diagnostics, state, lines>>
  BY DEF Leave
<1>4. todo' = IF loop' \in {"link", "visit", "sort"} THEN Ids ELSE {}
  BY DEF Leave
<1>5. roots' = IF loop' = "sort" THEN InOrder(roots) ELSE roots
  BY DEF Leave
<1>6. stack' = IF loop' = "print" THEN <<Frame(NoParent, roots)>> ELSE <<>>
  BY DEF Leave
<1> QED BY <1>2, <1>3, <1>4, <1>5, <1>6

\* The frame ASCII begins with.
LEMMA FirstFrame ==
    ASSUME Types, Shape, loop = "sort", NEW fs, fs = <<Frame(NoParent, roots)>>
    PROVE  /\ fs \in Seq(Frames) /\ FramesOK(fs) /\ DOMAIN fs = {1} /\ fs[1].node = NoParent
           /\ \A n : WaitsIn(fs, n) <=> n \in Ids /\ Parent(n) \notin Ids
<1>1. /\ roots \in Seq(Ids) /\ Distinct(roots)
      /\ \A n \in Range(roots) : Key(n) = NoParent
      /\ Range(roots) = {n \in Ids : Parent(n) \notin Ids}
  BY DEF Types, Shape, Rooted, Linked, Key
<1> QED BY <1>1, OneFrame

\* A loop of Build ends: the next has all nodes before it.
LEMMA LeaveKeeps ==
    ASSUME Before, Leave
    PROVE  After
<1>1. Types /\ Shape /\ Calls
  BY DEF Before
<1>2. /\ todo = {} /\ stack = <<>>
      /\ UNCHANGED <<events, children, diagnostics, state, lines>>
      /\ \/ loop = "duplicates" /\ loop' = "link"
         \/ loop = "link" /\ loop' = "visit"
         \/ loop = "visit" /\ loop' = "sort"
         \/ loop = "sort" /\ loop' = "print"
         \/ loop = "print" /\ loop' = "done"
      /\ loop' \in {"link", "visit", "sort"} => todo' = Ids
      /\ loop' \in {"print", "done"} => todo' = {}
      /\ loop' = "sort" => roots' = InOrder(roots)
      /\ loop' # "sort" => roots' = roots
      /\ loop' = "print" => stack' = <<Frame(NoParent, roots)>>
      /\ loop' # "print" => stack' = <<>>
  BY <1>1, LeaveIsOf
<1>3. roots \in Seq(Ids) /\ Distinct(roots) /\ events \in Seq(EventSet)
  BY <1>1, TheList DEF Types, Shape
<1>4. /\ roots' \in Seq(Ids) /\ Range(roots') = Range(roots) /\ Distinct(roots')
      /\ loop' = "sort" => InTime(roots')
  BY <1>2, <1>3, InOrderSorts
<1>5. stack' \in Seq(Frames) /\ FramesOK(stack')
  <2>1. CASE loop' = "print"
    BY <1>1, <1>2, <2>1, FirstFrame
  <2>2. CASE loop' # "print"
    <3>1. stack' = <<>>
      BY <1>2, <2>2
    <3>2. <<>> \in Seq(Frames) /\ FramesOK(<<>>)
      BY EmptySeq DEF FramesOK
    <3> QED BY <3>1, <3>2
  <2> QED BY <2>1, <2>2
<1>6. Calls'
  <2>1. FramesOK(stack)'
    BY <1>2, <1>5, FramesStay
  <2>2. loop' # "print" => DOMAIN stack' = {}
    BY <1>2
  <2> QED BY <1>2, <2>1, <2>2 DEF Calls
<1>7. Types'
  <2>1. loop' \in LoopNames
    BY <1>2 DEF LoopNames
  <2> QED BY <1>1, <1>2, <1>4, <1>5, <2>1, ListStays DEF Types
<1>8. Shape'
  <2>1. /\ Ids' = Ids /\ \A n : Parent(n)' = Parent(n)
        /\ \A n \in Ids : Linked(n)' <=> Linked(n)
    BY <1>2, ListStays DEF Linked
  <2>2. \A n \in Ids : (Rooted(n)' <=> Rooted(n)) /\ \A p : Below(p, n)' <=> Below(p, n)
    BY <2>1 DEF Rooted, Below
  <2>3. /\ Range(roots') = {n \in Ids : Rooted(n)'}
        /\ \A p \in Ids : Range(children'[p]) = {n \in Ids : Below(p, n)'}
    BY <1>1, <1>2, <1>4, <2>2 DEF Shape
  <2>4. loop' \in {"sort", "print", "done"} => InTime(roots)'
    BY <1>1, <1>2, <1>4, OrderStays DEF Shape
  <2>5. ASSUME NEW p \in Ids,
               (loop' = "sort" /\ p \notin todo') \/ loop' \in {"print", "done"}
        PROVE  InTime(children[p])'
    BY <1>1, <1>2, <2>5, OrderStays DEF Shape
  <2> QED BY <1>1, <1>2, <1>4, <2>1, <2>3, <2>4, <2>5 DEF Shape
<1> QED BY <1>6, <1>7, <1>8 DEF After

----------------------------------------------------------------------------
(* Diagnostics of the list.                                                *)

\* What has been reported stays reported, once.
LEMMA OnceStays ==
    ASSUME NEW k, NEW S, Reported(k, S)' = Reported(k, S)
    PROVE  Once(k, S)' <=> Once(k, S)
<1>1. Reported(k, S) \subseteq DOMAIN diagnostics /\ Reported(k, S)' \subseteq DOMAIN diagnostics'
  BY DEF Reported
<1> QED BY <1>1 DEF Once

\* What is not reported yet is reported once.
LEMMA OnceNow ==
    ASSUME diagnostics \in Seq(Codes \X Ids), NEW k \in Codes, NEW d \in Ids,
           Diagnose(k, d), NEW S, d \in S, Reported(k, S) = {}
    PROVE  Once(k, S)'
  BY DiagnoseReports DEF Once

\* Steps that report nothing, or no more than a loop, and change nothing the
\* notes on a node depend on.
LEMMA NotedStays ==
    ASSUME Types, events' = events, NEW n \in Ids, Noted(n),
           \A k \in Codes \ {"CYCLE"} : Reported(k, {n})' = Reported(k, {n}),
           Duplicated(n)' <=> Duplicated(n), Orphaned(n)' <=> Orphaned(n),
           EarlyChild(n) => (Compared(n)' <=> Compared(n))
    PROVE  Noted(n)'
<1>1. \A k \in {"DUPLICATE", "ORPHAN", "INCONSISTENT_ORDER"} :
         /\ Reported(k, {n})' = Reported(k, {n})
         /\ Once(k, {n})' <=> Once(k, {n})
  BY OnceStays DEF Codes
<1>2. EarlyChild(n)' <=> EarlyChild(n)
  BY ListStays
<1> QED BY <1>1, <1>2 DEF Noted, OnceIff

\* What a loop's report, or none, leaves as it was.
LEMMA OtherReports ==
    ASSUME Types, NEW k, NEW S,
           \/ UNCHANGED diagnostics
           \/ \E c \in Codes, d \in Ids : Diagnose(c, d) /\ ~(k = c /\ d \in S)
    PROVE  Reported(k, S)' = Reported(k, S)
<1>1. CASE UNCHANGED diagnostics
  BY <1>1 DEF Reported
<1>2. ASSUME NEW c \in Codes, NEW d \in Ids, Diagnose(c, d), ~(k = c /\ d \in S)
      PROVE  Reported(k, S)' = Reported(k, S)
  BY <1>2, DiagnoseReports DEF Types
<1> QED BY <1>1, <1>2

\* Nothing is reported at first.
LEMMA DiagnosedInit == Init => Diagnosed
<1> SUFFICES ASSUME Init PROVE Diagnosed
  OBVIOUS
<1>1. loop = "duplicates" /\ todo = Repeated(events) /\ \A k, S : Reported(k, S) = {}
  BY DEF Init, Reported
<1>2. ASSUME NEW n \in Ids PROVE Noted(n)
  BY <1>1 DEF Noted, OnceIff, Duplicated, Orphaned, Linked, Compared
<1> QED BY <1>1, <1>2 DEF Diagnosed

\* A repeated id is reported when its turn comes.
LEMMA DuplicateDiagnoses ==
    ASSUME Before, Diagnosed, NEW n \in todo, Duplicate(n)
    PROVE  Diagnosed'
<1>1. /\ Types /\ n \in Ids /\ loop = "duplicates" /\ n \in Repeated(events)
      /\ UNCHANGED <<events, loop, stack>> /\ todo' = todo \ {n} /\ Diagnose("DUPLICATE", n)
  BY DEF Before, Types, Diagnosed, Duplicate, Take
<1>2. Ids' = Ids /\ Repeated(events)' = Repeated(events)
  BY <1>1, ListStays
<1>3. "DUPLICATE" \in Codes
  BY DEF Codes
<1>4. ASSUME NEW m \in Ids PROVE Noted(m)'
  <2>1. Orphaned(m)' <=> Orphaned(m)
    BY <1>1 DEF Orphaned, Linked
  <2>2. Compared(m)' <=> Compared(m)
    BY <1>1 DEF Compared
  <2>3. CASE m # n
    <3>1. Duplicated(m)' <=> Duplicated(m)
      BY <1>1, <1>2, <2>3 DEF Duplicated
    <3>2. \A k \in Codes : Reported(k, {m})' = Reported(k, {m})
      BY <1>1, <1>3, <2>3, OtherReports
    <3> QED BY <1>1, <2>1, <2>2, <3>1, <3>2, NotedStays DEF Diagnosed
  <2>4. CASE m = n
    <3>1. Reported("DUPLICATE", {n}) = {}
      BY <1>1 DEF Diagnosed, Noted, OnceIff, Duplicated
    <3>2. Duplicated(n)' /\ Once("DUPLICATE", {n})'
      BY <1>1, <1>2, <1>3, <3>1, OnceNow DEF Duplicated, Types
    <3>3. /\ ~Orphaned(n) /\ ~Compared(n) /\ ~Orphaned(n)' /\ ~Compared(n)'
      BY <1>1 DEF Orphaned, Linked, Compared
    <3>4. \A k \in {"ORPHAN", "INCONSISTENT_ORDER"} : Reported(k, {n})' = Reported(k, {n})
      BY <1>1, <1>3, OtherReports
    <3> QED BY <1>1, <2>4, <3>2, <3>3, <3>4 DEF Diagnosed, Noted, OnceIff
  <2> QED BY <2>3, <2>4
<1> QED BY <1>1, <1>2, <1>4 DEF Diagnosed

\* An orphan is reported when it is linked.
LEMMA LinkDiagnoses ==
    ASSUME Before, Diagnosed, NEW n \in todo, Link(n)
    PROVE  Diagnosed'
<1>1. /\ Types /\ n \in Ids /\ loop = "link"
      /\ UNCHANGED <<events, loop, stack>> /\ todo' = todo \ {n}
      /\ IF Parent(n) \notin Ids \union {NoParent} THEN Diagnose("ORPHAN", n)
         ELSE UNCHANGED diagnostics
  BY DEF Before, Types, Link, Take, Parent
<1>2. Ids' = Ids /\ \A m : Parent(m)' = Parent(m)
  BY <1>1, ListStays
<1>3. "ORPHAN" \in Codes
  BY DEF Codes
<1>4. ASSUME NEW m \in Ids PROVE Noted(m)'
  <2>1. (Duplicated(m)' <=> Duplicated(m)) /\ (Compared(m)' <=> Compared(m))
    BY <1>1 DEF Duplicated, Compared
  <2>2. CASE m # n \/ Parent(m) \in Ids \union {NoParent}
    <3>1. Orphaned(m)' <=> Orphaned(m)
      BY <1>1, <1>2, <2>2 DEF Orphaned, Linked
    <3>2. \A k \in Codes : Reported(k, {m})' = Reported(k, {m})
      BY <1>1, <1>3, <2>2, OtherReports
    <3> QED BY <1>1, <2>1, <3>1, <3>2, NotedStays DEF Diagnosed
  <2>3. CASE m = n /\ Parent(n) \notin Ids \union {NoParent}
    <3>1. ~Orphaned(n) /\ Orphaned(n)' /\ ~Compared(n) /\ ~Compared(n)'
      BY <1>1, <1>2, <2>3 DEF Orphaned, Linked, Compared
    <3>2. Reported("ORPHAN", {n}) = {}
      BY <1>1, <3>1 DEF Diagnosed, Noted, OnceIff
    <3>3. Once("ORPHAN", {n})'
      BY <1>1, <1>3, <2>3, <3>2, OnceNow DEF Types
    <3>4. \A k \in {"DUPLICATE", "INCONSISTENT_ORDER"} :
             Reported(k, {n})' = Reported(k, {n}) /\ (Once(k, {n})' <=> Once(k, {n}))
      BY <1>1, <1>3, <2>3, OtherReports, OnceStays
    <3> QED BY <1>1, <2>1, <2>3, <3>1, <3>3, <3>4 DEF Diagnosed, Noted, OnceIff
  <2> QED BY <2>2, <2>3
<1> QED BY <1>1, <1>2, <1>4 DEF Diagnosed

\* A step of the search or of the walk, or a call that returns.
LEMMA OthersDiagnose ==
    ASSUME Before, Diagnosed, UNCHANGED <<events, loop>>,
           loop \in {"visit", "print", "done"} \/ UNCHANGED todo,
           \/ UNCHANGED diagnostics
           \/ \E d \in Ids : Diagnose("CYCLE", d),
           loop = "sort" => /\ DOMAIN stack' \subseteq DOMAIN stack
                            /\ \A i \in DOMAIN stack' : stack'[i] = stack[i]
                            /\ \A n : Waiting(n)' <=> Waiting(n),
           loop # "duplicates"
    PROVE  Diagnosed'
<1>1. "CYCLE" \in Codes
  BY DEF Codes
<1>2. \A n \in Ids, k \in Codes \ {"CYCLE"} : Reported(k, {n})' = Reported(k, {n})
  BY <1>1, OtherReports DEF Before
<1>3. Ids' = Ids /\ \A m : Parent(m)' = Parent(m)
  BY ListStays
<1>4. ASSUME NEW n \in Ids PROVE Noted(n)'
  <2>1. Duplicated(n)' <=> Duplicated(n)
    BY DEF Duplicated
  <2>2. Linked(n)' <=> Linked(n)
    BY DEF Linked
  <2>3. Orphaned(n)' <=> Orphaned(n)
    BY <1>3, <2>2 DEF Orphaned
  <2>4. Compared(n)' <=> Compared(n)
    BY <1>3 DEF Compared
  <2> QED BY <1>2, <2>1, <2>3, <2>4, NotedStays DEF Before, Diagnosed
<1> QED BY <1>3, <1>4 DEF Diagnosed

\* The children of a node wait to be compared when they are sorted.
LEMMA SortDiagnoses ==
    ASSUME Before, Diagnosed, NEW n \in todo, Sort(n)
    PROVE  Diagnosed'
<1>1. /\ Types /\ Shape /\ n \in Ids /\ loop = "sort" /\ stack = <<>>
      /\ UNCHANGED <<events, loop, diagnostics>> /\ todo' = todo \ {n}
      /\ stack' = <<Frame(n, InOrder(children[n]))>>
  BY DEF Before, Types, Sort, Take
<1>2. Ids' = Ids /\ \A m : Parent(m)' = Parent(m)
  BY <1>1, ListStays
<1>3. /\ children[n] \in Seq(Ids) /\ Distinct(children[n])
      /\ Range(children[n]) = {m \in Ids : Parent(m) = n}
      /\ \A m \in Range(children[n]) : Key(m) = n
  BY <1>1, ChildrenAreBelow, RangeOfSeq
<1>4. /\ DOMAIN stack' = {1} /\ stack'[1].node = n
      /\ \A m \in Ids : WaitsIn(stack', m) <=> Parent(m) = n
  <2> DEFINE t == InOrder(children[n])
  <2>1. t \in Seq(Ids) /\ Range(t) = Range(children[n]) /\ Distinct(t)
    BY <1>1, <1>3, TheList, InOrderSorts
  <2>2. stack' = <<Frame(n, t)>>
    BY <1>1
  <2> HIDE DEF t
  <2> QED BY <1>1, <1>3, <2>1, <2>2, OneFrame
<1>5. ASSUME NEW m \in Ids PROVE Noted(m)'
  <2>1. (Duplicated(m)' <=> Duplicated(m)) /\ (Orphaned(m)' <=> Orphaned(m))
    BY <1>1, <1>2 DEF Duplicated, Orphaned, Linked
  <2>2. \A k : Reported(k, {m})' = Reported(k, {m})
    BY <1>1, OtherReports
  <2>3. ~Waiting(m) /\ (Waiting(m)' <=> Parent(m) = n)
    BY <1>1, <1>4, FramesStay DEF Waiting, WaitsIn
  <2>4. Compared(m)' <=> Compared(m)
    BY <1>1, <1>2, <2>3 DEF Compared
  <2> QED BY <1>1, <2>1, <2>2, <2>4, NotedStays DEF Diagnosed
<1> QED BY <1>1, <1>2, <1>4, <1>5 DEF Diagnosed

\* A child before its parent is reported when it is compared.
LEMMA CompareDiagnoses ==
    ASSUME Before, Diagnosed, NEW c \in Ids, Compare(c)
    PROVE  Diagnosed'
<1>1. /\ Types /\ loop = "sort" /\ stack' = Advanced /\ Child("sort", c)
      /\ UNCHANGED <<events, loop, todo>>
      /\ IF nodes[c].ts < nodes[Top.node].ts THEN Diagnose("INCONSISTENT_ORDER", c)
         ELSE UNCHANGED diagnostics
  BY DEF Before, Compare, Child
<1>2. /\ DOMAIN Advanced = DOMAIN stack /\ \A i \in DOMAIN stack : Advanced[i].node = stack[i].node
      /\ Waiting(c) /\ Parent(c) = Top.node /\ Parent(c) \in Ids
      /\ \A n : WaitsIn(Advanced, n) <=> Waiting(n) /\ n # c
      /\ Len(stack) \in DOMAIN stack
  BY <1>1, NextChild
<1>3. Ids' = Ids /\ \A m : Parent(m)' = Parent(m)
  BY <1>1, ListStays
<1>4. "INCONSISTENT_ORDER" \in Codes
  BY DEF Codes
<1>5. \A n : Waiting(n)' <=> Waiting(n) /\ n # c
  BY <1>1, <1>2, FramesStay
<1>6. Parent(c) \notin todo
  BY <1>1, <1>2 DEF Diagnosed, Top
<1>7. ASSUME NEW m \in Ids PROVE Noted(m)'
  <2>1. (Duplicated(m)' <=> Duplicated(m)) /\ (Orphaned(m)' <=> Orphaned(m))
    BY <1>1, <1>3 DEF Duplicated, Orphaned, Linked
  <2>2. CASE m # c \/ ~EarlyChild(m)
    <3>1. \A k \in Codes : Reported(k, {m})' = Reported(k, {m})
      BY <1>1, <1>2, <1>4, <2>2, OtherReports DEF EarlyChild
    <3>2. EarlyChild(m) => (Compared(m)' <=> Compared(m))
      BY <1>1, <1>3, <1>5, <2>2 DEF Compared
    <3> QED BY <1>1, <2>1, <3>1, <3>2, NotedStays DEF Diagnosed
  <2>3. CASE m = c /\ EarlyChild(c)
    <3>1. Diagnose("INCONSISTENT_ORDER", c)
      BY <1>1, <1>2, <2>3 DEF EarlyChild
    <3>2. ~Compared(c) /\ Compared(c)' /\ EarlyChild(c)'
      BY <1>1, <1>2, <1>3, <1>5, <1>6, <2>3, ListStays DEF Compared
    <3>3. Reported("INCONSISTENT_ORDER", {c}) = {}
      BY <3>2 DEF Diagnosed, Noted, OnceIff
    <3>4. Once("INCONSISTENT_ORDER", {c})'
      BY <1>1, <1>4, <3>1, <3>3, OnceNow DEF Types
    <3>5. \A k \in {"DUPLICATE", "ORPHAN"} :
             Reported(k, {c})' = Reported(k, {c}) /\ (Once(k, {c})' <=> Once(k, {c}))
      BY <1>1, <1>4, <3>1, OtherReports, OnceStays
    <3> QED BY <2>1, <2>3, <3>2, <3>4, <3>5 DEF Diagnosed, Noted, OnceIff
  <2> QED BY <2>2, <2>3
<1>8. loop' = "sort" => \A i \in DOMAIN stack' : stack'[i].node \notin todo'
  BY <1>1, <1>2 DEF Diagnosed
<1> QED BY <1>1, <1>3, <1>7, <1>8 DEF Diagnosed

\* A loop ends with all that it had to report reported.
LEMMA LeaveDiagnoses ==
    ASSUME Before, Diagnosed, Leave
    PROVE  Diagnosed'
<1>1. /\ Types /\ todo = {} /\ stack = <<>> /\ UNCHANGED <<events, diagnostics>>
      /\ \/ loop = "duplicates" /\ loop' = "link" /\ todo' = Ids
         \/ loop = "link" /\ loop' = "visit"
         \/ loop = "visit" /\ loop' = "sort" /\ stack' = <<>>
         \/ loop = "sort" /\ loop' = "print"
         \/ loop = "print" /\ loop' = "done"
  BY LeaveIsOf DEF Before
<1>2. Ids' = Ids /\ (\A m : Parent(m)' = Parent(m)) /\ Repeated(events)' = Repeated(events)
  BY <1>1, ListStays
<1>3. \A n : ~Waiting(n)
  BY <1>1 DEF Waiting, WaitsIn
<1>4. ASSUME NEW n \in Ids PROVE Noted(n)'
  <2>1. (Duplicated(n)' <=> Duplicated(n)) /\ (Orphaned(n)' <=> Orphaned(n))
    BY <1>1, <1>2 DEF Duplicated, Orphaned, Linked
  <2>2. EarlyChild(n) => (Compared(n)' <=> Compared(n))
    <3> SUFFICES ASSUME Parent(n) \in Ids PROVE Compared(n)' <=> Compared(n)
      BY DEF EarlyChild
    <3>1. CASE loop = "visit"
      <4>1. todo' = Ids
        BY <3>1, LeaveIsOf DEF Before
      <4> QED BY <1>1, <1>2, <3>1, <4>1 DEF Compared
    <3>2. CASE loop # "visit"
      BY <1>1, <1>2, <1>3, <3>2 DEF Compared
    <3> QED BY <3>1, <3>2
  <2>3. \A k : Reported(k, {n})' = Reported(k, {n})
    BY <1>1, OtherReports
  <2> QED BY <1>1, <2>1, <2>2, <2>3, NotedStays DEF Diagnosed
<1> QED BY <1>1, <1>2, <1>4 DEF Diagnosed

----------------------------------------------------------------------------
(* The marks of the search.                                                *)

\* No node has a mark at first.
LEMMA MarksInit == Init => Marks
  BY DEF Init, Marks

\* Steps of the other loops.
LEMMA MarksStay ==
    ASSUME Marks, UNCHANGED <<events, loop, state>>, loop # "visit"
    PROVE  Marks'
  BY ListStays DEF Marks

\* A call of visit on a node that has no mark opens it.
LEMMA Opened ==
    ASSUME Before, NEW n \in Ids, NEW fs \in Seq(Frames), FramesOK(fs), loop = "visit",
           \A i \in DOMAIN fs : fs[i].node # n, Search(n, fs), state[n] = 0, events' = events
    PROVE  /\ DOMAIN stack' = DOMAIN fs \union {Len(fs) + 1} /\ Len(stack') = Len(fs) + 1
           /\ \A i \in DOMAIN fs : stack'[i].node = fs[i].node
           /\ stack'[Len(fs) + 1].node = n
           /\ \A m \in Ids : Waiting(m)' <=> WaitsIn(fs, m) \/ Parent(m) = n
           /\ state' = [state EXCEPT ![n] = 1] /\ UNCHANGED diagnostics
<1>1. stack' = Append(fs, Frame(n, children[n]))
  BY DEF Search
<1>2. /\ children[n] \in Seq(Ids) /\ Distinct(children[n])
      /\ \A m \in Range(children[n]) : Key(m) = n
      /\ \A m \in Ids : Parent(m) = n <=> m \in Range(children[n])
  BY ChildrenAreBelow DEF Before
<1>3. /\ DOMAIN stack' = DOMAIN fs \union {Len(fs) + 1} /\ Len(stack') = Len(fs) + 1
      /\ \A i \in DOMAIN fs : stack'[i].node = fs[i].node
      /\ stack'[Len(fs) + 1].node = n
      /\ \A m : WaitsIn(stack', m) <=> WaitsIn(fs, m) \/ m \in Range(children[n])
  BY <1>1, <1>2, PushedFrames
<1>4. \A m \in Ids : Waiting(m)' <=> WaitsIn(fs, m) \/ Parent(m) = n
  BY <1>2, <1>3, FramesStay
<1> QED BY <1>3, <1>4 DEF Search

\* A call of visit from within frames that continue the chain of parents.
LEMMA SearchMarks ==
    ASSUME Before, NEW n \in Ids, NEW fs \in Seq(Frames), FramesOK(fs), loop = "visit",
           Search(n, fs), UNCHANGED <<events, loop>>,
           \A m \in Ids : state[m] = 1 <=> \E i \in DOMAIN fs : fs[i].node = m,
           \A m \in Ids \ todo' : m # n => state[m] # 0,
           \A m \in Ids : Parent(m) \in Ids /\ state[Parent(m)] # 0 /\ ~WaitsIn(fs, m) /\ m # n
                             => state[m] # 0,
           \A i \in DOMAIN fs : i > 1 => /\ Parent(fs[i].node) = fs[i - 1].node
                                         /\ fs[1].node \in Ancestors(fs[i].node),
           fs = <<>> \/ /\ Parent(n) = fs[Len(fs)].node
                        /\ fs[1].node \in Ancestors(n)
    PROVE  Marks'
<1> USE DEF Before
<1>1. Ids' = Ids /\ \A m : Parent(m)' = Parent(m) /\ Ancestors(m)' = Ancestors(m)
  BY ListStays
<1>2. Len(fs) \in Nat /\ DOMAIN fs = 1..Len(fs) /\ (fs # <<>> => Len(fs) # 0)
  BY LenProperties, EmptySeq
<1>3. state \in [Ids -> 0..2]
  BY DEF Types
<1>4. CASE state[n] # 0
  <2>1. stack' = fs /\ state' = state
    BY <1>4 DEF Search
  <2>2. \A m : Waiting(m)' <=> WaitsIn(fs, m)
    BY <2>1, FramesStay
  <2>3. \A m \in Ids' : Past(m)' => state'[m] # 0
    BY <1>1, <1>4, <2>1, <2>2 DEF Past
  <2> QED BY <1>1, <1>4, <2>1, <2>3 DEF Marks, Start
<1>5. CASE state[n] = 0
  <2>1. \A i \in DOMAIN fs : fs[i].node # n
    BY <1>5
  <2>2. /\ DOMAIN stack' = DOMAIN fs \union {Len(fs) + 1} /\ Len(stack') = Len(fs) + 1
        /\ \A i \in DOMAIN fs : stack'[i].node = fs[i].node
        /\ stack'[Len(fs) + 1].node = n
        /\ \A m \in Ids : Waiting(m)' <=> WaitsIn(fs, m) \/ Parent(m) = n
        /\ state' = [state EXCEPT ![n] = 1]
    BY <1>5, <2>1, Opened
  <2>3. state'[n] = 1 /\ \A m \in Ids \ {n} : state'[m] = state[m]
    BY <1>3, <2>2
  <2>4. ASSUME NEW m \in Ids PROVE state'[m] = 1 <=> \E i \in DOMAIN stack' : stack'[i].node = m
    BY <2>2, <2>3
  <2>5. ASSUME NEW m \in Ids, Past(m)' PROVE state'[m] # 0
    <3>1. Parent(m) \in Ids /\ state'[Parent(m)] # 0 /\ ~WaitsIn(fs, m) /\ Parent(m) # n
      BY <1>1, <2>2, <2>5 DEF Past
    <3> QED BY <2>3, <3>1
  <2>6. ASSUME NEW i \in DOMAIN stack', i > 1
        PROVE  /\ Parent(stack'[i].node) = stack'[i - 1].node
               /\ stack'[1].node \in Ancestors(stack'[i].node)
    <3>1. i - 1 \in DOMAIN fs /\ 1 \in DOMAIN fs
      BY <1>2, <2>2, <2>6
    <3>2. CASE i \in DOMAIN fs
      BY <2>2, <2>6, <3>1, <3>2
    <3>3. CASE i = Len(fs) + 1
      <4>1. i - 1 = Len(fs) /\ fs # <<>>
        BY <1>2, <3>1, <3>3
      <4> QED BY <2>2, <3>1, <3>3, <4>1
    <3> QED BY <2>2, <3>2, <3>3
  <2> QED BY <1>1, <2>3, <2>4, <2>5, <2>6 DEF Marks, Start
<1> QED BY <1>4, <1>5

\* A search begins with the only frame there is.
LEMMA VisitMarks ==
    ASSUME Before, Marks, NEW n \in todo, Visit(n)
    PROVE  Marks'
<1>1. /\ loop = "visit" /\ stack = <<>> /\ n \in Ids /\ todo' = todo \ {n}
      /\ UNCHANGED <<events, loop>> /\ Search(n, <<>>)
  BY DEF Before, Types, Visit, Take
<1>2. PICK fs \in Seq(Frames) : fs = <<>>
  BY EmptySeq
<1>3. Search(n, fs) /\ DOMAIN fs = {} /\ stack = fs /\ FramesOK(fs)
  BY <1>1, <1>2 DEF FramesOK
<1>4. \A m : WaitsIn(fs, m) <=> Waiting(m)
  BY <1>3 DEF Waiting
<1>5. \A m \in Ids : Parent(m) \in Ids /\ state[Parent(m)] # 0 /\ ~WaitsIn(fs, m) => state[m] # 0
  BY <1>1, <1>4 DEF Marks, Past
<1>6. \A m \in Ids : state[m] = 1 <=> \E i \in DOMAIN fs : fs[i].node = m
  BY <1>1, <1>3 DEF Marks
<1>7. \A m \in Ids \ todo' : m # n => state[m] # 0
  BY <1>1 DEF Marks
<1> QED BY <1>1, <1>2, <1>3, <1>5, <1>6, <1>7, SearchMarks

\* The first node of the search is above those it comes to.
LEMMA StartIsAbove ==
    ASSUME Before, Marks, NEW c, Child("visit", c)
    PROVE  /\ Parent(c) = Top.node /\ Start \in Ancestors(c) /\ Start \in Ids
<1>1. /\ Parent(c) = Top.node /\ Top.node \in Ids /\ Top = stack[Len(stack)]
      /\ DOMAIN stack = 1..Len(stack) /\ Len(stack) \in Nat \ {0} /\ loop = "visit"
  BY NextChild DEF Child, Top
<1>2. Start \in Ids
  BY <1>1 DEF Start, Before, Calls
<1>3. Ancestors(c) = {Top.node} \union Ancestors(Top.node)
  BY <1>1, AncestorsOfChild
<1>4. CASE Len(stack) = 1
  BY <1>1, <1>2, <1>3, <1>4 DEF Start
<1>5. CASE Len(stack) > 1
  BY <1>1, <1>2, <1>3, <1>5 DEF Marks
<1> QED BY <1>1, <1>2, <1>4, <1>5

\* A search goes on from the node on top.
LEMMA VisitChildMarks ==
    ASSUME Before, Marks, NEW c \in Ids, VisitChild(c)
    PROVE  Marks'
<1>1. /\ loop = "visit" /\ Child("visit", c) /\ UNCHANGED <<events, loop, todo>>
      /\ Search(c, Advanced)
  BY DEF VisitChild, Child
<1> DEFINE fs == Advanced
<1>2. /\ fs \in Seq(Frames) /\ FramesOK(fs)
      /\ Len(fs) = Len(stack) /\ DOMAIN fs = DOMAIN stack
      /\ \A i \in DOMAIN stack : fs[i].node = stack[i].node
      /\ \A m : WaitsIn(fs, m) <=> Waiting(m) /\ m # c
      /\ DOMAIN stack = 1..Len(stack) /\ Len(stack) \in Nat \ {0}
  BY <1>1, NextChild
<1>3. Parent(c) = Top.node /\ Start \in Ancestors(c)
  BY <1>1, StartIsAbove
<1>4. /\ Parent(c) = fs[Len(fs)].node /\ fs[1].node = Start
  BY <1>2, <1>3 DEF Start, Top
<1> HIDE DEF fs
<1>5. \A m \in Ids : state[m] = 1 <=> \E i \in DOMAIN fs : fs[i].node = m
  BY <1>1, <1>2 DEF Marks
<1>6. \A m \in Ids : Parent(m) \in Ids /\ state[Parent(m)] # 0 /\ ~WaitsIn(fs, m) /\ m # c
                        => state[m] # 0
  BY <1>1, <1>2 DEF Marks, Past
<1>7. \A i \in DOMAIN fs : i > 1 => /\ Parent(fs[i].node) = fs[i - 1].node
                                    /\ fs[1].node \in Ancestors(fs[i].node)
  BY <1>1, <1>2, <1>4 DEF Marks
<1>8. \A m \in Ids \ todo' : state[m] # 0
  BY <1>1 DEF Marks
<1>9. Search(c, fs)
  BY <1>1 DEF fs
<1> QED BY <1>1, <1>2, <1>3, <1>4, <1>5, <1>6, <1>7, <1>8, <1>9, SearchMarks

\* The end of a call of visit.
LEMMA Returned ==
    ASSUME Before, Marks, Return
    PROVE  /\ DOMAIN stack' = DOMAIN stack \ {Len(stack)} /\ Len(stack') = Len(stack) - 1
           /\ \A i \in DOMAIN stack' : stack'[i] = stack[i]
           /\ \A n : Waiting(n)' <=> Waiting(n)
           /\ DOMAIN stack = 1..Len(stack) /\ Len(stack) \in Nat \ {0}
           /\ UNCHANGED <<events, loop, todo, diagnostics>>
           /\ loop # "visit" => state' = state
           /\ loop = "visit" =>
                 /\ Top.node \in Ids /\ Top = stack[Len(stack)]
                 /\ state'[Top.node] = 2 /\ \A n \in Ids \ {Top.node} : state'[n] = state[n]
<1>1. Types /\ FramesOK(stack) /\ stack # <<>> /\ Top.rest = <<>>
  BY DEF Before, Calls, Return
<1>2. /\ DOMAIN stack = 1..Len(stack) /\ Len(stack) \in Nat \ {0}
      /\ Len(stack) \in DOMAIN stack /\ Top = stack[Len(stack)]
  BY <1>1, TopFrame DEF Top
<1>3. stack' = SubSeq(stack, 1, Len(stack) - 1) /\ UNCHANGED <<events, loop, todo, diagnostics>>
  BY DEF Return
<1>4. /\ DOMAIN stack' = DOMAIN stack \ {Len(stack)} /\ Len(stack') = Len(stack) - 1
      /\ \A i \in DOMAIN stack' : stack'[i] = stack[i]
      /\ \A n : Waiting(n)' <=> Waiting(n)
  BY <1>1, <1>3, PoppedFrames, FramesStay
<1>5. loop = "visit" => Top.node \in Ids
  BY <1>2 DEF Before, Calls
<1>6. state \in [Ids -> 0..2]
  BY <1>1 DEF Types
<1>7. loop = "visit" =>
         state'[Top.node] = 2 /\ \A n \in Ids \ {Top.node} : state'[n] = state[n]
  BY <1>5, <1>6 DEF Return
<1> QED BY <1>2, <1>3, <1>4, <1>5, <1>7 DEF Return

\* The node on top is closed and its children were all visited.
LEMMA ReturnMarks ==
    ASSUME Before, Marks, Return
    PROVE  Marks'
<1>1. /\ DOMAIN stack' = DOMAIN stack \ {Len(stack)} /\ Len(stack') = Len(stack) - 1
      /\ \A i \in DOMAIN stack' : stack'[i] = stack[i]
      /\ \A n : Waiting(n)' <=> Waiting(n)
      /\ DOMAIN stack = 1..Len(stack) /\ Len(stack) \in Nat \ {0}
      /\ UNCHANGED <<events, loop, todo>>
  BY Returned
<1>2. CASE loop # "visit"
  BY <1>1, <1>2, Returned, MarksStay
<1>3. CASE loop = "visit"
  <2>1. /\ Top.node \in Ids /\ Top = stack[Len(stack)]
        /\ state'[Top.node] = 2 /\ \A n \in Ids \ {Top.node} : state'[n] = state[n]
    BY <1>3, Returned
  <2>2. Ids' = Ids /\ \A n : Parent(n)' = Parent(n) /\ Ancestors(n)' = Ancestors(n)
    BY <1>1, ListStays
  <2>3. ASSUME NEW n \in Ids PROVE state'[n] = 1 <=> \E i \in DOMAIN stack' : stack'[i].node = n
    <3>1. state[n] = 1 <=> \E i \in DOMAIN stack : stack[i].node = n
      BY <1>3 DEF Marks
    <3>2. \A i \in DOMAIN stack : stack[i].node = Top.node => i = Len(stack)
      BY <1>1, <2>1 DEF Before, Calls, FramesOK
    <3> QED BY <1>1, <2>1, <3>1, <3>2
  <2>4. \A n \in Ids : Past(n)' => Past(n) \/ (Parent(n) = Top.node /\ ~Waiting(n))
    BY <1>1, <2>1, <2>2 DEF Past
  <2>5. state[Top.node] = 1
    BY <1>1, <1>3, <2>1 DEF Marks
  <2>6. \A n \in Ids : Past(n)' => state'[n] # 0
    BY <1>3, <2>1, <2>4, <2>5 DEF Marks, Past
  <2>7. \A n \in Ids \ todo' : state'[n] # 0
    BY <1>1, <1>3, <2>1 DEF Marks
  <2>8. ASSUME NEW i \in DOMAIN stack', i > 1
        PROVE  /\ Parent(stack'[i].node) = stack'[i - 1].node
               /\ stack'[1].node \in Ancestors(stack'[i].node)
    <3>1. i \in DOMAIN stack /\ i - 1 \in DOMAIN stack' /\ 1 \in DOMAIN stack'
      BY <1>1, <2>8
    <3> QED BY <1>1, <1>3, <2>8, <3>1 DEF Marks, Start
  <2> QED BY <1>1, <1>3, <2>2, <2>3, <2>6, <2>7, <2>8 DEF Marks, Start
<1> QED BY <1>2, <1>3

\* The search ends with every node closed, as none is open without a frame.
LEMMA LeaveMarks ==
    ASSUME Before, Marks, Leave
    PROVE  Marks'
<1>1. /\ todo = {} /\ stack = <<>> /\ UNCHANGED <<events, state>>
      /\ \/ loop = "duplicates" /\ loop' = "link"
         \/ loop = "link" /\ loop' = "visit" /\ todo' = Ids /\ stack' = <<>>
         \/ loop = "visit" /\ loop' = "sort"
         \/ loop = "sort" /\ loop' = "print"
         \/ loop = "print" /\ loop' = "done"
  BY LeaveIsOf DEF Before
<1>2. Ids' = Ids
  BY <1>1, ListStays
<1>3. CASE loop = "link"
  BY <1>1, <1>2, <1>3, ListStays DEF Marks, Past
<1>4. CASE loop = "visit"
  <2>1. ASSUME NEW n \in Ids PROVE state[n] = 2
    <3>1. state[n] \in 0..2 /\ state[n] # 0 /\ state[n] # 1
      BY <1>1, <1>4 DEF Marks, Before, Types
    <3> QED BY <3>1
  <2> QED BY <1>1, <1>2, <1>4, <2>1 DEF Marks
<1>5. CASE loop \notin {"link", "visit"}
  BY <1>1, <1>2, <1>5 DEF Marks
<1> QED BY <1>3, <1>4, <1>5

----------------------------------------------------------------------------
(* The loops that are found.                                               *)

\* No loop is reported at first.
LEMMA LoopsInit == Init => LoopsInv
<1> SUFFICES ASSUME Init PROVE LoopsInv
  OBVIOUS
<1>1. loop = "duplicates" /\ \A S : Reported("CYCLE", S) = {}
  BY DEF Init, Reported
<1> QED BY <1>1 DEF LoopsInv

\* Steps that report no loop, outside the search.
LEMMA LoopsStay ==
    ASSUME Types, LoopsInv, UNCHANGED <<events, loop>>, loop # "visit",
           \/ UNCHANGED diagnostics
           \/ \E c \in Codes \ {"CYCLE"}, d \in Ids : Diagnose(c, d)
    PROVE  LoopsInv'
<1>1. \A S : Reported("CYCLE", S)' = Reported("CYCLE", S)
  BY OtherReports
<1>2. Ids' = Ids /\ Loops' = Loops /\ (UNION Loops)' = UNION Loops
  BY ListStays
<1>3. \A L : Once("CYCLE", L)' <=> Once("CYCLE", L)
  BY <1>1, OnceStays
<1> QED BY <1>1, <1>2, <1>3 DEF LoopsInv

\* A step of the search that does not touch a loop.
LEMMA FoundStays ==
    ASSUME NEW L, Found(L), Reported("CYCLE", L)' = Reported("CYCLE", L),
           Searching(L)' <=> Searching(L),
           Searching(L) => (Past(Start)' <=> Past(Start)),
           ~Searching(L) => \A n \in L : state'[n] = state[n]
    PROVE  Found(L)'
<1>1. Once("CYCLE", L)' <=> Once("CYCLE", L)
  BY OnceStays
<1> QED BY <1>1 DEF Found, Untouched, Closed

\* A search begins: on a loop nobody has touched, or outside all others.
LEMMA VisitFinds ==
    ASSUME Before, Marks, LoopsInv, NEW n \in todo, Visit(n)
    PROVE  LoopsInv'
<1>1. /\ Types /\ loop = "visit" /\ stack = <<>> /\ n \in Ids
      /\ UNCHANGED <<events, loop>> /\ Search(n, <<>>) /\ state[n] # 1
  BY DEF Before, Types, Visit, Take, Marks
<1>2. UNCHANGED diagnostics
  BY <1>1 DEF Search
<1>3. /\ Ids' = Ids /\ Loops' = Loops /\ (UNION Loops)' = UNION Loops
      /\ \A m : Parent(m)' = Parent(m)
  BY <1>1, ListStays
<1>4. \A S : Reported("CYCLE", S)' = Reported("CYCLE", S)
  BY <1>1, <1>2, OtherReports
<1>5. ASSUME NEW L \in Loops PROVE Found(L)'
  <2>1. Found(L) /\ ~Searching(L)
    BY <1>1 DEF LoopsInv, Searching
  <2>2. CASE state[n] # 0
    <3>1. stack' = <<>> /\ state' = state
      BY <1>1, <2>2 DEF Search
    <3> QED BY <1>1, <1>4, <2>1, <3>1, FoundStays DEF Searching
  <2>3. CASE state[n] = 0
    <3>1. PICK fs \in Seq(Frames) : fs = <<>>
      BY EmptySeq
    <3>2. Search(n, fs) /\ DOMAIN fs = {} /\ FramesOK(fs) /\ \A m : ~WaitsIn(fs, m)
      BY <1>1, <3>1 DEF FramesOK, WaitsIn
    <3> DEFINE k == Len(fs) + 1
    <3>3. k = 1
      BY <3>1
    <3>4. /\ DOMAIN stack' = DOMAIN fs \union {k} /\ stack'[k].node = n
          /\ state' = [state EXCEPT ![n] = 1]
          /\ \A m \in Ids : Waiting(m)' <=> WaitsIn(fs, m) \/ Parent(m) = n
      BY <1>1, <2>3, <3>2, Opened
    <3> HIDE DEF k
    <3>5. /\ DOMAIN stack' = {1} /\ stack'[1].node = n /\ state' = [state EXCEPT ![n] = 1]
          /\ \A m \in Ids : Waiting(m)' <=> Parent(m) = n
      BY <3>2, <3>3, <3>4
    <3>6. stack' # <<>> /\ Start' = n
      <4>1. DOMAIN <<>> = {} /\ DOMAIN stack' # {}
        BY <3>5
      <4>2. Start' = n
        BY <3>5 DEF Start
      <4> QED BY <4>1, <4>2
    <3>7. CASE n \notin L
      <4>1. \A m \in L : state'[m] = state[m]
        BY <1>1, <3>5, <3>7 DEF Types
      <4> QED BY <1>4, <2>1, <3>6, <3>7, <4>1, FoundStays DEF Searching
    <3>8. CASE n \in L
      <4>1. Parent(n) \in L /\ L \subseteq Ids
        BY <3>8, LoopOf
      <4>2. Reported("CYCLE", L) = {} /\ state[Parent(n)] = 0
        BY <2>1, <2>3, <3>8, <4>1 DEF Found, Untouched, Closed
      <4>3. ~Past(n)'
        <5>1. CASE Parent(n) = n
          BY <1>1, <3>5, <5>1 DEF Past
        <5>2. CASE Parent(n) # n
          <6>1. state'[Parent(n)] = 0
            BY <1>1, <3>5, <4>1, <4>2, <5>2 DEF Types
          <6> QED BY <1>3, <6>1 DEF Past
        <5> QED BY <5>1, <5>2
      <4>4. Past(Start)' <=> Past(n)'
        BY <3>6 DEF Past, Waiting, WaitsIn, Parent
      <4> QED BY <1>4, <3>6, <3>8, <4>2, <4>3, <4>4 DEF Found, Searching
    <3> QED BY <3>7, <3>8
  <2> QED BY <2>2, <2>3
<1> QED BY <1>1, <1>3, <1>4, <1>5 DEF LoopsInv

\* When the search ends every loop is closed, as all nodes are.
LEMMA LeaveFinds ==
    ASSUME Before, Marks, LoopsInv, Leave
    PROVE  LoopsInv'
<1>1. /\ Types /\ todo = {} /\ stack = <<>> /\ UNCHANGED <<events, diagnostics, state>>
      /\ \/ loop = "duplicates" /\ loop' = "link"
         \/ loop = "link" /\ loop' = "visit" /\ stack' = <<>>
         \/ loop = "visit" /\ loop' = "sort"
         \/ loop = "sort" /\ loop' = "print"
         \/ loop = "print" /\ loop' = "done"
  BY LeaveIsOf DEF Before
<1>2. Ids' = Ids /\ Loops' = Loops /\ (UNION Loops)' = UNION Loops
  BY <1>1, ListStays
<1>3. \A S : /\ Reported("CYCLE", S)' = Reported("CYCLE", S)
             /\ Once("CYCLE", S)' <=> Once("CYCLE", S)
  BY <1>1, OtherReports, OnceStays
<1>4. CASE loop = "link"
  <2>1. ASSUME NEW L \in Loops PROVE Found(L)'
    <3>1. L \subseteq Ids
      BY LoopOf
    <3>2. Reported("CYCLE", L) = {} /\ \A n \in L : state[n] = 0
      BY <1>4, <3>1 DEF LoopsInv, Marks, Reported
    <3> QED BY <1>1, <1>3, <1>4, <3>2 DEF Found, Searching, Untouched
  <2> QED BY <1>1, <1>2, <1>3, <1>4, <2>1 DEF LoopsInv
<1>5. CASE loop = "visit"
  <2>1. ASSUME NEW L \in Loops PROVE Once("CYCLE", L)
    <3>1. PICK n \in L : n \in Ids
      BY LoopOf
    <3>2. state[n] # 0
      BY <1>1, <1>5, <3>1 DEF Marks
    <3> QED BY <1>1, <1>5, <3>1, <3>2 DEF LoopsInv, Found, Searching, Untouched, Closed
  <2> QED BY <1>1, <1>2, <1>3, <1>5, <2>1 DEF LoopsInv
<1>6. CASE loop \notin {"link", "visit"}
  BY <1>1, <1>2, <1>3, <1>6 DEF LoopsInv
<1> QED BY <1>4, <1>5, <1>6

\* The one open node the search can come to is the one it began with.
LEMMA OpenIsStart ==
    ASSUME Before, Marks, NEW c \in Ids, Child("visit", c), state[c] = 1
    PROVE  c = Start
<1>1. /\ loop = "visit" /\ Parent(c) = Top.node /\ Top = stack[Len(stack)]
      /\ DOMAIN stack = 1..Len(stack) /\ Len(stack) \in Nat \ {0}
  BY NextChild DEF Child, Top
<1>2. PICK i \in DOMAIN stack : stack[i].node = c
  BY <1>1 DEF Marks
<1>3. ASSUME i > 1 PROVE FALSE
  <2>1. Parent(c) = stack[i - 1].node
    BY <1>1, <1>2, <1>3 DEF Marks
  <2>2. i - 1 \in DOMAIN stack /\ Len(stack) \in DOMAIN stack /\ i - 1 # Len(stack)
    BY <1>1, <1>3
  <2>3. \A k, l \in DOMAIN stack : stack[k].node = stack[l].node => k = l
    BY DEF Before, Calls, FramesOK
  <2> QED BY <1>1, <2>1, <2>2, <2>3
<1>4. i = 1
  BY <1>1, <1>3
<1> QED BY <1>2, <1>4 DEF Start

\* A search comes to its first node again, which is then on a loop and
\* reported, or stays where it began: it comes to no other loop from outside.
LEMMA VisitChildFinds ==
    ASSUME Before, Marks, LoopsInv, NEW c \in Ids, VisitChild(c)
    PROVE  LoopsInv'
<1>1. /\ Types /\ loop = "visit" /\ Child("visit", c) /\ stack # <<>>
      /\ UNCHANGED <<events, loop>> /\ Search(c, Advanced)
  BY DEF Before, VisitChild, Child
<1> DEFINE fs == Advanced
<1>2. /\ fs \in Seq(Frames) /\ FramesOK(fs)
      /\ Len(fs) = Len(stack) /\ DOMAIN fs = DOMAIN stack
      /\ \A i \in DOMAIN stack : fs[i].node = stack[i].node
      /\ \A m : WaitsIn(fs, m) <=> Waiting(m) /\ m # c
      /\ DOMAIN stack = 1..Len(stack) /\ Len(stack) \in Nat \ {0} /\ Waiting(c)
  BY <1>1, NextChild
<1>3. Parent(c) = Top.node /\ Start \in Ancestors(c) /\ Start \in Ids
  BY <1>1, StartIsAbove
<1>4. Search(c, fs)
  BY <1>1
<1> HIDE DEF fs
<1>5. /\ 1 \in DOMAIN stack /\ state[Start] = 1 /\ Top.node \in Ids /\ state[Top.node] = 1
  BY <1>1, <1>2, <1>3 DEF Marks, Start, Top, Before, Calls
<1>6. /\ Ids' = Ids /\ Loops' = Loops /\ (UNION Loops)' = UNION Loops
      /\ \A m : Parent(m)' = Parent(m)
  BY <1>1, ListStays
<1>7. \A L \in Loops : c \in L => Start \in L /\ L = Ancestors(c)
  BY <1>3, LoopOf
<1>8. ASSUME NEW q, Start' = q PROVE Past(Start)' <=> Past(q)'
  BY <1>8 DEF Past, Waiting, WaitsIn, Parent
<1>9. CASE state[c] = 1
  <2>1. /\ c = Start /\ Diagnose("CYCLE", c) /\ stack' = fs /\ state' = state
    BY <1>1, <1>4, <1>9, OpenIsStart DEF Search
  <2>2. Start' = Start /\ stack' # <<>> /\ \A m : Waiting(m)' <=> Waiting(m) /\ m # c
    BY <1>1, <1>2, <1>5, <2>1, FramesStay DEF Start
  <2>3. "CYCLE" \in Codes
    BY DEF Codes
  <2>4. ASSUME NEW L \in Loops PROVE Found(L)'
    <3>1. Found(L)
      BY <1>1 DEF LoopsInv
    <3>2. CASE c \notin L
      <4>1. Reported("CYCLE", L)' = Reported("CYCLE", L)
        BY <1>1, <2>1, <2>3, <3>2, OtherReports
      <4>2. ~Searching(L) /\ ~Searching(L)'
        BY <2>1, <2>2, <3>2 DEF Searching
      <4> QED BY <2>1, <3>1, <4>1, <4>2, FoundStays
    <3>3. CASE c \in L
      <4>1. Reported("CYCLE", L) = {}
        BY <1>1, <1>2, <2>1, <3>1, <3>3 DEF Found, Searching, Past
      <4>2. Once("CYCLE", L)'
        BY <1>1, <2>1, <2>3, <3>3, <4>1, OnceNow DEF Types
      <4>3. Past(c)'
        BY <1>3, <1>5, <1>6, <2>1, <2>2 DEF Past
      <4>4. Past(Start)'
        BY <1>8, <2>1, <2>2, <4>3
      <4> QED BY <2>1, <2>2, <3>3, <4>2, <4>4 DEF Found, Searching
    <3> QED BY <3>2, <3>3
  <2>5. c \in UNION Loops
    BY <1>3, <2>1 DEF Loops, OnLoop
  <2>6. Reported("CYCLE", Ids \ UNION Loops)' = Reported("CYCLE", Ids \ UNION Loops)
    <3>1. PICK T : T = Ids \ UNION Loops
      OBVIOUS
    <3>2. Reported("CYCLE", T)' = Reported("CYCLE", T)
      BY <1>1, <2>1, <2>3, <2>5, <3>1, OtherReports
    <3>3. Reported("CYCLE", Ids \ UNION Loops)' = Reported("CYCLE", T)'
      BY <1>6, <3>1 DEF Reported
    <3> QED BY <3>1, <3>2, <3>3
  <2> QED BY <1>1, <1>6, <2>4, <2>6 DEF LoopsInv
<1>10. CASE state[c] # 1
  <2>1. UNCHANGED diagnostics /\ c # Start
    BY <1>4, <1>5, <1>10 DEF Search
  <2>2. \A S : Reported("CYCLE", S)' = Reported("CYCLE", S)
    BY <1>1, <2>1, OtherReports
  <2>3. /\ Start' = Start /\ stack' # <<>>
        /\ \A m \in Ids \ {c} : state'[m] = state[m]
        /\ Past(Start)' <=> Past(Start)
    <3>1. CASE state[c] # 0
      <4>1. stack' = fs /\ state' = state
        BY <1>4, <1>10, <3>1 DEF Search
      <4>2. Start' = Start /\ stack' # <<>> /\ \A m : Waiting(m)' <=> Waiting(m) /\ m # c
        BY <1>1, <1>2, <1>5, <4>1, FramesStay DEF Start
      <4>3. \A q : q = Start => (Past(q)' <=> Past(q))
        BY <1>6, <2>1, <4>1, <4>2 DEF Past
      <4> QED BY <1>8, <4>1, <4>2, <4>3 DEF Past
    <3>2. CASE state[c] = 0
      <4>1. \A i \in DOMAIN fs : fs[i].node # c
        BY <1>1, <1>2, <3>2 DEF Marks
      <4> DEFINE k == Len(fs) + 1
      <4>2. /\ DOMAIN stack' = DOMAIN fs \union {k}
            /\ \A i \in DOMAIN fs : stack'[i].node = fs[i].node
            /\ \A m \in Ids : Waiting(m)' <=> WaitsIn(fs, m) \/ Parent(m) = c
            /\ state' = [state EXCEPT ![c] = 1]
        BY <1>1, <1>2, <1>4, <3>2, <4>1, Opened
      <4> HIDE DEF k
      <4>3. Start' = Start
        BY <1>2, <1>5, <4>2 DEF Start
      <4>4. DOMAIN <<>> = {} /\ DOMAIN stack' # {}
        BY <4>2
      <4>5. stack' # <<>>
        BY <4>4
      <4>6. \A m \in Ids \ {c} : state'[m] = state[m]
        BY <1>1, <4>2 DEF Types
      <4>7. \A q \in Ids : q = Start => (Past(q)' <=> Past(q))
        <5> SUFFICES ASSUME NEW q \in Ids, q = Start PROVE Past(q)' <=> Past(q)
          OBVIOUS
        <5>1. Waiting(q)' <=> Waiting(q) \/ Parent(q) = c
          BY <1>2, <2>1, <4>2
        <5>2. CASE Parent(q) = c
          BY <1>6, <3>2, <5>1, <5>2 DEF Past
        <5>3. CASE Parent(q) # c
          BY <1>6, <4>6, <5>1, <5>3 DEF Past
        <5> QED BY <5>2, <5>3
      <4> QED BY <1>3, <1>8, <3>2, <4>3, <4>5, <4>6, <4>7
    <3> QED BY <3>1, <3>2
  <2>4. ASSUME NEW L \in Loops PROVE Found(L)'
    <3>1. Found(L) /\ L \subseteq Ids
      BY <1>1, LoopOf DEF LoopsInv
    <3>2. Searching(L)' <=> Searching(L)
      BY <1>1, <2>3 DEF Searching
    <3>3. ~Searching(L) => \A m \in L : state'[m] = state[m]
      BY <1>1, <1>7, <2>3, <3>1 DEF Searching
    <3> QED BY <2>2, <2>3, <3>1, <3>2, <3>3, FoundStays
  <2> QED BY <1>1, <1>6, <2>2, <2>4 DEF LoopsInv
<1> QED BY <1>9, <1>10

\* The first node of a search is closed: had it not been come to again, some
\* event of its loop would be unvisited, its parent too, and so on to itself.
LEMMA ReturnFinds ==
    ASSUME Before, Marks, LoopsInv, Return
    PROVE  LoopsInv'
<1>1. /\ DOMAIN stack' = DOMAIN stack \ {Len(stack)} /\ Len(stack') = Len(stack) - 1
      /\ \A i \in DOMAIN stack' : stack'[i] = stack[i]
      /\ \A n : Waiting(n)' <=> Waiting(n)
      /\ DOMAIN stack = 1..Len(stack) /\ Len(stack) \in Nat \ {0}
      /\ UNCHANGED <<events, loop, todo, diagnostics>>
  BY Returned
<1>2. CASE loop # "visit"
  BY <1>1, <1>2, LoopsStay DEF Before
<1>3. CASE loop = "visit"
  <2> DEFINE t == Top.node
  <2>1. /\ t \in Ids /\ t = stack[Len(stack)].node /\ Top.rest = <<>> /\ stack # <<>>
        /\ state'[t] = 2 /\ \A n \in Ids \ {t} : state'[n] = state[n]
    BY <1>3, Returned DEF Return
  <2>2. /\ Ids' = Ids /\ Loops' = Loops /\ (UNION Loops)' = UNION Loops
        /\ \A m : Parent(m)' = Parent(m)
    BY <1>1, ListStays
  <2>3. \A S : Reported("CYCLE", S)' = Reported("CYCLE", S)
    BY <1>1, OtherReports DEF Before
  <2> HIDE DEF t
  <2>4. state[t] = 1
    BY <1>1, <1>3, <2>1 DEF Marks
  <2>5. ASSUME NEW L \in Loops PROVE Found(L)'
    <3>1. Found(L) /\ L \subseteq Ids
      BY <1>3, LoopOf DEF LoopsInv
    <3>2. CASE Len(stack) = 1
      <4>1. stack' = <<>> /\ ~Searching(L)'
        <5>1. stack' = <<>>
          BY <2>1, <3>2 DEF Return
        <5> QED BY <5>1 DEF Searching
      <4>2. t = Start
        BY <2>1, <3>2 DEF Start
      <4>3. CASE t \notin L
        <5>1. ~Searching(L) /\ \A n \in L : state'[n] = state[n]
          BY <2>1, <3>1, <4>2, <4>3 DEF Searching
        <5> QED BY <2>3, <3>1, <4>1, <5>1, FoundStays
      <4>4. CASE t \in L
        <5>1. \A n : ~Waiting(n)
          <6>1. Range(stack[1].rest) = {}
            BY <2>1, <3>2 DEF Top, Range
          <6> QED BY <1>1, <3>2, <6>1 DEF Waiting, WaitsIn
        <5> DEFINE T == {y \in L : state[y] = 0}
        <5>2. ASSUME NEW y \in T PROVE Parent(y) \in T
          <6>1. Parent(y) \in L /\ y \in Ids /\ state[y] = 0
            BY <3>1, LoopOf
          <6> QED BY <1>3, <3>1, <5>1, <6>1 DEF Marks, Past
        <5>3. T = {}
          <6> SUFFICES ASSUME NEW y \in T PROVE FALSE
            OBVIOUS
          <6>1. T \in SUBSET Ids /\ UpClosed(T) /\ Parent(y) \in T
            BY <3>1, <5>2 DEF UpClosed
          <6>2. Ancestors(y) \subseteq T
            BY <6>1, AncestorsWithin
          <6>3. t \in Ancestors(y)
            BY <4>4, LoopOf
          <6> QED BY <2>4, <6>2, <6>3
        <5>4. ASSUME NEW n \in L PROVE state'[n] = 2
          <6>1. CASE n = t
            BY <2>1, <6>1
          <6>2. CASE n # t
            <7>1. n \in Ids /\ state[n] # 0
              BY <3>1, <5>3
            <7>2. state[n] # 1
              BY <1>1, <1>3, <2>1, <3>2, <6>2, <7>1 DEF Marks
            <7>3. state[n] \in 0..2
              BY <7>1 DEF Before, Types
            <7> QED BY <2>1, <6>2, <7>1, <7>2, <7>3
          <6> QED BY <6>1, <6>2
        <5>5. Past(Start)
          <6>1. Parent(t) \in L
            BY <4>4, LoopOf
          <6> QED BY <3>1, <4>2, <5>1, <5>3, <6>1 DEF Past
        <5>6. Once("CYCLE", L)
          BY <2>1, <3>1, <4>2, <4>4, <5>5 DEF Found, Searching
        <5> QED BY <2>3, <4>1, <5>4, <5>6, OnceStays DEF Found, Closed
      <4> QED BY <4>3, <4>4
    <3>3. CASE Len(stack) # 1
      <4>1. 1 \in DOMAIN stack' /\ Len(stack) > 1 /\ Len(stack) \in DOMAIN stack
        BY <1>1, <3>3
      <4>2. Start' = Start
        BY <1>1, <4>1 DEF Start
      <4>3. DOMAIN <<>> = {} /\ DOMAIN stack' # {}
        BY <4>1
      <4>4. stack' # <<>>
        BY <4>3
      <4>5. Start \in Ancestors(t)
        BY <1>3, <2>1, <4>1 DEF Marks
      <4>6. Start \notin L => t \notin L
        BY <4>5, LoopOf
      <4>7. ~Searching(L) => \A n \in L : state'[n] = state[n]
        BY <2>1, <3>1, <4>6 DEF Searching
      <4>8. \A q : q = Start => (Past(Start)' <=> Past(q)')
        BY <4>2 DEF Past, Waiting, WaitsIn, Parent
      <4>9. \A n \in Ids : state'[n] # 0 <=> state[n] # 0
        BY <2>1, <2>4
      <4>10. \A q : Past(q)' <=> Past(q)
        BY <1>1, <2>2, <4>9 DEF Past
      <4>11. Past(Start)' <=> Past(Start)
        BY <4>8, <4>10
      <4>12. Searching(L)' <=> Searching(L)
        BY <2>1, <4>2, <4>4 DEF Searching
      <4> QED BY <2>3, <3>1, <4>7, <4>11, <4>12, FoundStays
    <3> QED BY <3>2, <3>3
  <2> QED BY <1>1, <1>3, <2>2, <2>3, <2>5 DEF LoopsInv
<1> QED BY <1>2, <1>3

----------------------------------------------------------------------------
(* The walk.                                                               *)

\* Nothing is printed at first.
LEMMA WalkedInit == Init => Walked
<1> SUFFICES ASSUME Init PROVE Walked
  OBVIOUS
<1>1. lines = <<>> /\ DOMAIN lines = {} /\ Range(lines) = {} /\ loop = "duplicates"
  BY DEF Init, Range
<1> QED BY <1>1 DEF Walked, Printing, Distinct

\* Steps of Build, which print nothing, and calls of the walk that return.
LEMMA WalkedStays ==
    ASSUME Walked, UNCHANGED <<events, loop, lines>>,
           loop \in {"print", "done"} =>
              /\ DOMAIN stack' \subseteq DOMAIN stack
              /\ \A i \in DOMAIN stack' : stack'[i] = stack[i]
              /\ \A n : Waiting(n)' <=> Waiting(n)
    PROVE  Walked'
<1>1. /\ Ids' = Ids
      /\ \A n : Parent(n)' = Parent(n) /\ (Looped(n)' <=> Looped(n))
  BY ListStays
<1>2. Printing' <=> Printing
  BY DEF Printing
<1>3. Printing' => \A n \in Ids' :
         n \in Range(lines') <=> /\ Parent(n)' \in Ids' => Parent(n)' \in Range(lines')
                                 /\ ~Waiting(n)'
  BY <1>1, <1>2 DEF Walked, Printing
<1>4. loop' = "print" => \A i \in DOMAIN stack' : stack'[i].node \in Range(lines') \union {NoParent}
  BY DEF Walked
<1>5. \A i \in DOMAIN lines' : Parent(lines[i])' \in Ids' =>
          \E j \in 1..(i - 1) : lines'[j] = Parent(lines[i])'
  <2>1. \A i \in DOMAIN lines : Parent(lines[i])' = Parent(lines[i])
    BY <1>1 DEF Parent
  <2> QED BY <1>1, <2>1 DEF Walked
<1> QED BY <1>1, <1>2, <1>3, <1>4, <1>5 DEF Walked, Distinct

\* A line for an event whose parent, when it has one, has a line.
LEMMA ShowWalks ==
    ASSUME Before, Walked, NEW c \in Ids, Show(c)
    PROVE  Walked'
<1>1. /\ Types /\ Shape /\ loop = "print" /\ Child("print", c)
      /\ stack' = Append(Advanced, Frame(c, children[c])) /\ lines' = Append(lines, c)
      /\ UNCHANGED <<events, loop>> /\ lines \in Seq(Ids) /\ NoParent \notin Ids
  BY TheList DEF Before, Types, Show, Child
<1> DEFINE fs == Advanced
           p == Parent(c)
<1>2. /\ fs \in Seq(Frames) /\ FramesOK(fs) /\ DOMAIN fs = DOMAIN stack
      /\ \A i \in DOMAIN stack : fs[i].node = stack[i].node
      /\ Waiting(c) /\ Key(c) = Top.node /\ Len(stack) \in DOMAIN stack
      /\ \A n : WaitsIn(fs, n) <=> Waiting(n) /\ n # c
  BY <1>1, NextChild
<1>3. c \notin Range(lines) /\ (p \in Ids => p \in Range(lines))
  <2>1. Top.node \in Range(lines) \union {NoParent}
    BY <1>1, <1>2 DEF Walked, Top
  <2> QED BY <1>1, <1>2, <2>1 DEF Walked, Printing, Key
<1>4. /\ children[c] \in Seq(Ids) /\ Distinct(children[c])
      /\ \A m \in Range(children[c]) : Key(m) = c
      /\ \A m \in Ids : m \in Range(children[c]) <=> Parent(m) = c
  BY <1>1, ChildrenAreBelow
<1>5. \A i \in DOMAIN fs : fs[i].node # c
  BY <1>1, <1>2, <1>3 DEF Walked
<1> DEFINE k == Len(fs) + 1
<1>6. /\ DOMAIN stack' = DOMAIN fs \union {k} /\ stack'[k].node = c
      /\ \A i \in DOMAIN fs : stack'[i].node = fs[i].node
      /\ \A m : WaitsIn(stack', m) <=> WaitsIn(fs, m) \/ m \in Range(children[c])
  BY <1>1, <1>2, <1>4, <1>5, PushedFrames
<1> HIDE DEF k, fs
<1>7. \A m \in Ids : Waiting(m)' <=> (Waiting(m) /\ m # c) \/ Parent(m) = c
  BY <1>1, <1>2, <1>4, <1>6, FramesStay
<1>8. /\ Ids' = Ids
      /\ \A n : Parent(n)' = Parent(n) /\ (Looped(n)' <=> Looped(n))
  BY <1>1, ListStays
<1>9. /\ Range(lines') = Range(lines) \union {c} /\ Distinct(lines') /\ lines' \in Seq(Ids)
  BY <1>1, <1>3, RangeOfAppend DEF Walked
<1>10. ASSUME NEW n \in Ids
       PROVE  n \in Range(lines') <=> /\ Parent(n) \in Ids => Parent(n) \in Range(lines')
                                      /\ ~Waiting(n)'
  <2>1. n \in Range(lines) <=> /\ Parent(n) \in Ids => Parent(n) \in Range(lines)
                               /\ ~Waiting(n)
    BY <1>1 DEF Walked, Printing
  <2>2. CASE n = c
    BY <1>3, <1>7, <1>9, <2>2
  <2>3. CASE n # c /\ Parent(n) = c
    BY <1>3, <1>7, <1>9, <2>1, <2>3
  <2>4. CASE n # c /\ Parent(n) # c
    BY <1>7, <1>9, <2>1, <2>4
  <2> QED BY <2>2, <2>3, <2>4
<1>11. \A i \in DOMAIN stack' : stack'[i].node \in Range(lines') \union {NoParent}
  BY <1>1, <1>2, <1>6, <1>9 DEF Walked
<1>12. ASSUME NEW i \in DOMAIN lines', Parent(lines'[i]) \in Ids
       PROVE  \E j \in 1..(i - 1) : lines'[j] = Parent(lines'[i])
  <2>1. /\ Len(lines) \in Nat /\ DOMAIN lines = 1..Len(lines)
        /\ DOMAIN lines' = 1..(Len(lines) + 1) /\ lines'[Len(lines) + 1] = c
        /\ \A j \in 1..Len(lines) : lines'[j] = lines[j]
    BY <1>1, AppendProperties, LenProperties
  <2>2. CASE i \in DOMAIN lines
    <3>1. PICK j \in 1..(i - 1) : lines[j] = Parent(lines[i])
      BY <1>12, <2>1, <2>2 DEF Walked
    <3>2. j \in 1..Len(lines)
      BY <2>1, <2>2
    <3> QED BY <2>1, <2>2, <3>1, <3>2
  <2>3. CASE i = Len(lines) + 1
    <3>1. p \in Range(lines) /\ lines'[i] = c
      BY <1>3, <1>12, <2>1, <2>3
    <3>2. PICK j \in DOMAIN lines : lines[j] = p
      BY <3>1 DEF Range
    <3>3. j \in 1..(i - 1) /\ lines'[j] = p
      BY <2>1, <2>3, <3>2
    <3> QED BY <3>1, <3>3
  <2> QED BY <2>1, <2>2, <2>3
<1>13. ~Looped(c)
  <2>1. CASE p \in Ids
    <3>1. ~Looped(p)
      BY <1>3, <2>1 DEF Walked
    <3>2. Ancestors(c) = {p} \union Ancestors(p)
      BY <2>1, AncestorsOfChild
    <3> QED BY <3>1, <3>2 DEF Looped, OnLoop
  <2>2. CASE p \notin Ids
    BY <2>2, AncestorsOfRoot DEF Looped
  <2> QED BY <2>1, <2>2
<1>14. \A n \in Range(lines') : ~Looped(n)
  BY <1>9, <1>13 DEF Walked
<1>15. \A i \in DOMAIN lines' : Parent(lines[i])' = Parent(lines'[i])
  BY <1>8 DEF Parent
<1>16. Printing' => \A n \in Ids' :
         n \in Range(lines') <=> /\ Parent(n)' \in Ids' => Parent(n)' \in Range(lines')
                                 /\ ~Waiting(n)'
  BY <1>8, <1>10
<1>17. Printing'
  BY <1>1 DEF Printing
<1>18. Distinct(lines)'
  BY <1>9 DEF Distinct
<1> QED BY <1>8, <1>11, <1>12, <1>14, <1>15, <1>16, <1>17, <1>18 DEF Walked

\* The walk begins with the roots, and ends with no frames.
LEMMA LeaveWalks ==
    ASSUME Before, Walked, Leave
    PROVE  Walked'
<1>1. /\ Types /\ Shape /\ todo = {} /\ stack = <<>> /\ UNCHANGED <<events, lines>>
      /\ \/ loop \in {"duplicates", "link", "visit"} /\ loop' \in {"link", "visit", "sort"}
         \/ loop = "sort" /\ loop' = "print" /\ stack' = <<Frame(NoParent, roots)>>
         \/ loop = "print" /\ loop' = "done" /\ stack' = <<>>
  BY LeaveIsOf DEF Before
<1>2. /\ Ids' = Ids
      /\ \A n : Parent(n)' = Parent(n) /\ (Looped(n)' <=> Looped(n))
  BY <1>1, ListStays
<1>3. CASE loop # "print"
  <2>1. lines = <<>> /\ DOMAIN lines = {} /\ Range(lines) = {}
    BY <1>1, <1>3 DEF Walked, Printing, Range
  <2>2. lines' = <<>> /\ DOMAIN lines' = {} /\ Range(lines') = {}
    BY <1>1, <2>1
  <2>3. CASE loop # "sort"
    BY <1>1, <1>3, <2>2, <2>3 DEF Walked, Printing, Distinct
  <2>4. CASE loop = "sort"
    <3>1. /\ DOMAIN stack' = {1} /\ stack'[1].node = NoParent
          /\ \A n : WaitsIn(stack', n) <=> n \in Ids /\ Parent(n) \notin Ids
      BY <1>1, <2>4, FirstFrame
    <3>2. \A n : Waiting(n)' <=> n \in Ids /\ Parent(n) \notin Ids
      BY <1>1, <3>1, FramesStay
    <3> QED BY <1>1, <1>2, <2>2, <2>4, <3>1, <3>2 DEF Walked, Printing, Distinct
  <2> QED BY <2>3, <2>4
<1>4. CASE loop = "print"
  <2>1. \A n : Waiting(n)' <=> Waiting(n)
    BY <1>1, <1>4 DEF Waiting, WaitsIn
  <2>2. Printing /\ Printing' /\ loop' = "done"
    BY <1>1, <1>4 DEF Printing
  <2>3. \A i \in DOMAIN lines' : Parent(lines[i])' = Parent(lines[i])
    BY <1>1, <1>2 DEF Parent
  <2>4. \A n \in Ids' : n \in Range(lines') <=>
          /\ Parent(n)' \in Ids' => Parent(n)' \in Range(lines')
          /\ ~Waiting(n)'
    BY <1>1, <1>2, <2>1, <2>2 DEF Walked
  <2>5. \A i \in DOMAIN lines' : Parent(lines[i])' \in Ids' =>
          \E j \in 1..(i - 1) : lines'[j] = Parent(lines[i])'
    BY <1>1, <1>2, <2>3 DEF Walked
  <2> QED BY <1>1, <1>2, <2>2, <2>4, <2>5 DEF Walked, Distinct
<1> QED BY <1>3, <1>4

----------------------------------------------------------------------------
(* Every step.                                                             *)

\* All of it holds before the first step.
LEMMA InitHolds == Init => Inv
  BY GraphInit, DiagnosedInit, MarksInit, LoopsInit, WalkedInit DEF Inv

\* The steps over the nodes of the map.
LEMMA NodeStep ==
    ASSUME Inv, NEW n \in todo, Duplicate(n) \/ Link(n) \/ Visit(n) \/ Sort(n)
    PROVE  Inv'
<1>1. Before /\ Diagnosed /\ Marks /\ LoopsInv /\ Walked /\ n \in Ids
  BY DEF Inv, Before, Types
<1>2. {"DUPLICATE", "ORPHAN"} \subseteq Codes \ {"CYCLE"}
  BY DEF Codes
<1>3. CASE Duplicate(n)
  <2>1. /\ UNCHANGED <<events, loop, state, stack, lines>> /\ loop = "duplicates"
        /\ Diagnose("DUPLICATE", n)
    BY <1>3 DEF Duplicate, Take
  <2>2. After
    BY <1>1, <1>3, DuplicateKeeps
  <2>3. Diagnosed'
    BY <1>1, <1>3, DuplicateDiagnoses
  <2>4. Marks' /\ Walked'
    BY <1>1, <2>1, MarksStay, WalkedStays
  <2>5. LoopsInv'
    BY <1>1, <1>2, <2>1, LoopsStay DEF Before
  <2> QED BY <2>2, <2>3, <2>4, <2>5 DEF Inv, Before, After
<1>4. CASE Link(n)
  <2>1. /\ UNCHANGED <<events, loop, state, stack, lines>> /\ loop = "link"
        /\ Diagnose("ORPHAN", n) \/ UNCHANGED diagnostics
    BY <1>4 DEF Link, Take
  <2>2. After
    BY <1>1, <1>4, LinkKeeps
  <2>3. Diagnosed'
    BY <1>1, <1>4, LinkDiagnoses
  <2>4. Marks' /\ Walked'
    BY <1>1, <2>1, MarksStay, WalkedStays
  <2>5. LoopsInv'
    BY <1>1, <1>2, <2>1, LoopsStay DEF Before
  <2> QED BY <2>2, <2>3, <2>4, <2>5 DEF Inv, Before, After
<1>5. CASE Visit(n)
  <2>1. /\ UNCHANGED <<events, loop, lines>> /\ loop = "visit" /\ stack = <<>>
        /\ Search(n, <<>>)
    BY <1>5 DEF Visit, Take
  <2>2. After /\ Marks' /\ LoopsInv'
    BY <1>1, <1>5, VisitKeeps, VisitMarks, VisitFinds
  <2>3. Walked'
    BY <1>1, <2>1, WalkedStays
  <2>4. UNCHANGED diagnostics \/ \E d \in Ids : Diagnose("CYCLE", d)
    BY <1>1, <2>1 DEF Search
  <2>5. Diagnosed'
    BY <1>1, <2>1, <2>4, OthersDiagnose
  <2> QED BY <2>2, <2>3, <2>5 DEF Inv, Before, After
<1>6. CASE Sort(n)
  <2>1. UNCHANGED <<events, loop, state, diagnostics, lines>> /\ loop = "sort"
    BY <1>6 DEF Sort, Take
  <2>2. After /\ Diagnosed'
    BY <1>1, <1>6, SortKeeps, SortDiagnoses
  <2>3. Marks' /\ Walked'
    BY <1>1, <2>1, MarksStay, WalkedStays
  <2>4. LoopsInv'
    BY <1>1, <2>1, LoopsStay DEF Before
  <2> QED BY <2>2, <2>3, <2>4 DEF Inv, Before, After
<1> QED BY <1>3, <1>4, <1>5, <1>6

\* The steps over the children of a node.
LEMMA ChildStep ==
    ASSUME Inv, NEW c \in Ids, VisitChild(c) \/ Compare(c) \/ Show(c)
    PROVE  Inv'
<1>1. Before /\ Diagnosed /\ Marks /\ LoopsInv /\ Walked
  BY DEF Inv
<1>2. CASE VisitChild(c)
  <2>1. UNCHANGED <<events, loop, lines>> /\ loop = "visit" /\ Search(c, Advanced)
    BY <1>2 DEF VisitChild, Child
  <2>2. After /\ Marks' /\ LoopsInv'
    BY <1>1, <1>2, VisitChildKeeps, VisitChildMarks, VisitChildFinds
  <2>3. Walked'
    BY <1>1, <2>1, WalkedStays
  <2>4. UNCHANGED diagnostics \/ \E d \in Ids : Diagnose("CYCLE", d)
    BY <2>1 DEF Search
  <2>5. Diagnosed'
    BY <1>1, <2>1, <2>4, OthersDiagnose
  <2> QED BY <2>2, <2>3, <2>5 DEF Inv, Before, After
<1>3. CASE Compare(c)
  <2>1. /\ UNCHANGED <<events, loop, state, lines>> /\ loop = "sort"
        /\ Diagnose("INCONSISTENT_ORDER", c) \/ UNCHANGED diagnostics
    BY <1>3 DEF Compare, Child
  <2>2. After /\ Diagnosed'
    BY <1>1, <1>3, CompareKeeps, CompareDiagnoses
  <2>3. Marks' /\ Walked'
    BY <1>1, <2>1, MarksStay, WalkedStays
  <2>4. "INCONSISTENT_ORDER" \in Codes \ {"CYCLE"}
    BY DEF Codes
  <2>5. LoopsInv'
    BY <1>1, <2>1, <2>4, LoopsStay DEF Before
  <2> QED BY <2>2, <2>3, <2>5 DEF Inv, Before, After
<1>4. CASE Show(c)
  <2>1. UNCHANGED <<events, loop, state, diagnostics>> /\ loop = "print"
    BY <1>4 DEF Show, Child
  <2>2. After /\ Walked'
    BY <1>1, <1>4, ShowKeeps, ShowWalks
  <2>3. Marks'
    BY <1>1, <2>1, MarksStay
  <2>4. LoopsInv'
    BY <1>1, <2>1, LoopsStay DEF Before
  <2>5. Diagnosed'
    BY <1>1, <2>1, OthersDiagnose
  <2> QED BY <2>2, <2>3, <2>4, <2>5 DEF Inv, Before, After
<1> QED BY <1>2, <1>3, <1>4

\* The end of a loop over children, and of one over the map.
LEMMA EndStep ==
    ASSUME Inv, Return \/ Leave
    PROVE  Inv'
<1>1. Before /\ Diagnosed /\ Marks /\ LoopsInv /\ Walked
  BY DEF Inv
<1>2. CASE Return
  <2>1. /\ DOMAIN stack' \subseteq DOMAIN stack /\ \A i \in DOMAIN stack' : stack'[i] = stack[i]
        /\ \A n : Waiting(n)' <=> Waiting(n)
        /\ UNCHANGED <<events, loop, todo, diagnostics, lines>>
    BY <1>1, <1>2, Returned DEF Return
  <2>2. After /\ Marks' /\ LoopsInv'
    BY <1>1, <1>2, ReturnKeeps, ReturnMarks, ReturnFinds
  <2>3. Walked'
    BY <1>1, <2>1, WalkedStays
  <2>4. loop # "duplicates"
    BY <1>1, <1>2 DEF Before, Calls, Return
  <2>5. Diagnosed'
    BY <1>1, <2>1, <2>4, OthersDiagnose
  <2> QED BY <2>2, <2>3, <2>5 DEF Inv, Before, After
<1>3. CASE Leave
  <2>1. After /\ Diagnosed' /\ Marks' /\ LoopsInv' /\ Walked'
    BY <1>1, <1>3, LeaveKeeps, LeaveDiagnoses, LeaveMarks, LeaveFinds, LeaveWalks
  <2> QED BY <2>1 DEF Inv, Before, After
<1> QED BY <1>2, <1>3

\* A step that changes nothing keeps it all.
LEMMA StutterStep ==
    ASSUME Inv, UNCHANGED vars
    PROVE  Inv'
<1> USE DEF vars
<1>1. Before /\ Diagnosed /\ Marks /\ LoopsInv /\ Walked
  BY DEF Inv
<1>2. /\ Ids' = Ids /\ Loops' = Loops /\ (UNION Loops)' = UNION Loops
      /\ \A n : Parent(n)' = Parent(n) /\ Ancestors(n)' = Ancestors(n)
  BY ListStays
<1>3. \A n : Waiting(n)' <=> Waiting(n)
  BY DEF Waiting, WaitsIn
<1>4. Before'
  <2>1. Types'
    BY <1>1, ListStays DEF Before, Types
  <2>2. Shape'
    BY <1>1, ShapeStays DEF Before
  <2>3. FramesOK(stack)'
    BY <1>1, FramesStay DEF Before, Calls
  <2>4. Calls'
    BY <1>1, <1>2, <2>3 DEF Before, Calls
  <2> QED BY <2>1, <2>2, <2>4 DEF Before
<1>5. \A S : Reported("CYCLE", S)' = Reported("CYCLE", S)
  BY <1>1, OtherReports DEF Before
<1>6. \A n : (Past(n)' <=> Past(n)) /\ (Searching(n)' <=> Searching(n))
  BY <1>2, <1>3 DEF Past, Searching, Start
<1>7. Past(Start)' <=> Past(Start)
  <2>1. \A q : q = Start => (Past(Start)' <=> Past(q)')
    BY DEF Past, Waiting, WaitsIn, Parent, Start
  <2> QED BY <1>6, <2>1
<1>8. Marks'
  BY <1>1, <1>2, <1>6 DEF Marks, Start
<1>9. LoopsInv'
  <2>1. \A L \in Loops : Found(L) => Found(L)'
    BY <1>5, <1>6, <1>7, FoundStays
  <2>2. \A L : Once("CYCLE", L)' <=> Once("CYCLE", L)
    BY <1>5, OnceStays
  <2> QED BY <1>1, <1>2, <1>5, <2>1, <2>2 DEF LoopsInv
<1>10. Diagnosed'
  <2>1. ASSUME NEW n \in Ids PROVE Noted(n)'
    <3>1. \A k : Reported(k, {n})' = Reported(k, {n})
      BY <1>1, OtherReports DEF Before
    <3>2. (Duplicated(n)' <=> Duplicated(n)) /\ (Orphaned(n)' <=> Orphaned(n))
      BY <1>2 DEF Duplicated, Orphaned, Linked
    <3>3. Compared(n)' <=> Compared(n)
      BY <1>2, <1>3 DEF Compared
    <3> QED BY <1>1, <3>1, <3>2, <3>3, NotedStays DEF Before, Diagnosed
  <2> QED BY <1>1, <1>2, <2>1 DEF Diagnosed
<1>11. Walked'
  BY <1>1, <1>3, WalkedStays
<1> QED BY <1>4, <1>8, <1>9, <1>10, <1>11 DEF Inv

\* The graph as far as it is built, the search's marks and reports and the
\* walk's lines keep their invariants, whatever the order of the map.
THEOREM InvHolds == Spec => []Inv
<1>1. ASSUME Inv, [Next]_vars PROVE Inv'
  <2>1. CASE UNCHANGED vars
    BY <1>1, <2>1, StutterStep
  <2>2. CASE \E n \in todo : Duplicate(n) \/ Link(n) \/ Visit(n) \/ Sort(n)
    BY <1>1, <2>2, NodeStep
  <2>3. CASE \E c \in Ids : VisitChild(c) \/ Compare(c) \/ Show(c)
    BY <1>1, <2>3, ChildStep
  <2>4. CASE Return \/ Leave
    BY <1>1, <2>4, EndStep
  <2>5. CASE Done
    BY <2>1, <2>5 DEF Done
  <2> QED BY <1>1, <2>1, <2>2, <2>3, <2>4, <2>5 DEF Next
<1> QED BY <1>1, InitHolds, PTL DEF Spec

----------------------------------------------------------------------------
(* What they say of the graph that is returned and of its picture.         *)

\* Build reports each causal loop of the list exactly once, with an event on
\* it, and reports nothing else as one.
THEOREM EachLoopIsReportedOnce == Spec => []LoopsAreReportedOnce
<1>1. Inv => LoopsAreReportedOnce
  BY DEF Inv, LoopsInv, LoopsAreReportedOnce
<1> QED BY <1>1, InvHolds, PTL

\* ASCII prints no event twice and none before its parent, and at the end it
\* has printed those that are neither on a loop nor below one.
THEOREM TheTreeIsShown == Spec => []ShownUnlessLooped
<1>1. ASSUME Inv PROVE ShownUnlessLooped
  <2>1. /\ \A i, j \in DOMAIN lines : lines[i] = lines[j] => i = j
        /\ \A i \in DOMAIN lines : Parent(lines[i]) \in Ids =>
              \E j \in 1..(i - 1) : lines[j] = Parent(lines[i])
    BY <1>1 DEF Inv, Walked, Distinct
  <2>2. ASSUME loop = "done" PROVE Range(lines) = {n \in Ids : ~Looped(n)}
    <3>1. Range(lines) \subseteq Ids /\ events \in Seq(EventSet)
      BY <1>1, RangeOfSeq, TheList DEF Inv, Before, Types
    <3>2. \A n : ~Waiting(n)
      BY <1>1, <2>2 DEF Inv, Before, Calls, Waiting, WaitsIn
    <3> DEFINE S == Ids \ Range(lines)
    <3>3. ASSUME NEW n \in S PROVE Parent(n) \in S
      BY <1>1, <2>2, <3>2 DEF Inv, Walked, Printing
    <3>4. S \in SUBSET Ids
      OBVIOUS
    <3> HIDE DEF S
    <3>5. \A n \in S : Looped(n)
      BY <3>1, <3>3, <3>4, NoRootNoEnd
    <3>6. \A n \in Range(lines) : ~Looped(n)
      BY <1>1 DEF Inv, Walked
    <3> QED BY <3>1, <3>5, <3>6 DEF S
  <2> QED BY <2>1, <2>2 DEF ShownUnlessLooped
<1> QED BY <1>1, InvHolds, PTL

\* Roots, children and the other diagnostics are those of the list, each once
\* and in the order of time, whatever the order of the map.
THEOREM TheGraphIsOfTheList == Spec => []GraphIsOfTheList
<1>1. ASSUME Inv, loop = "done"
      PROVE  /\ Ordered(roots, {n \in Ids : First(n).parent \notin Ids})
             /\ \A p \in Ids : Ordered(children[p], {n \in Ids : First(n).parent = p})
             /\ \A n \in Ids :
                  /\ OnceIff("DUPLICATE", n, \E i, j \in DOMAIN events :
                               i < j /\ events[i].id = n /\ events[j].id = n)
                  /\ OnceIff("ORPHAN", n, First(n).parent \notin Ids \union {NoParent})
                  /\ OnceIff("INCONSISTENT_ORDER", n,
                             First(n).parent \in Ids /\ First(n).ts < First(First(n).parent).ts)
  <2>1. Before /\ Diagnosed
    BY <1>1 DEF Inv
  <2>2. events \in Seq(EventSet)
    BY <2>1, TheList DEF Before
  <2>3. \A n \in Ids : First(n) = nodes[n]
    BY <2>2, NodesAreFirst
  <2>4. \A n \in Ids : Linked(n)
    BY <1>1 DEF Linked
  <2>5. Ordered(roots, {n \in Ids : First(n).parent \notin Ids})
    <3>1. Range(roots) = {n \in Ids : Rooted(n)} /\ InTime(roots)
      BY <1>1, <2>1 DEF Before, Shape
    <3>2. \A n \in Ids : Rooted(n) <=> First(n).parent \notin Ids
      BY <2>3, <2>4 DEF Rooted, Parent
    <3> QED BY <3>1, <3>2 DEF Ordered, InTime, Earlier
  <2>6. ASSUME NEW p \in Ids PROVE Ordered(children[p], {n \in Ids : First(n).parent = p})
    <3>1. Range(children[p]) = {n \in Ids : Below(p, n)} /\ InTime(children[p])
      BY <1>1, <2>1 DEF Before, Shape
    <3>2. \A n \in Ids : Below(p, n) <=> First(n).parent = p
      BY <2>3, <2>4 DEF Below, Parent
    <3> QED BY <3>1, <3>2 DEF Ordered, InTime, Earlier
  <2>7. ASSUME NEW n \in Ids
        PROVE  /\ OnceIff("DUPLICATE", n, \E i, j \in DOMAIN events :
                               i < j /\ events[i].id = n /\ events[j].id = n)
               /\ OnceIff("ORPHAN", n, First(n).parent \notin Ids \union {NoParent})
               /\ OnceIff("INCONSISTENT_ORDER", n,
                          First(n).parent \in Ids /\ First(n).ts < First(First(n).parent).ts)
    <3>1. Noted(n)
      BY <2>1 DEF Diagnosed
    <3>2. Duplicated(n) <=> \E i, j \in DOMAIN events :
                               i < j /\ events[i].id = n /\ events[j].id = n
      <4>1. DOMAIN events = 1..Len(events) /\ Len(events) \in Nat
        BY <2>2, LenProperties
      <4>2. Duplicated(n) <=> \E k \in DOMAIN events :
               events[k].id = n /\ \E j \in 1..(k - 1) : events[j].id = events[k].id
        BY <1>1 DEF Duplicated, Repeated
      <4> QED BY <4>1, <4>2
    <3>3. Orphaned(n) <=> First(n).parent \notin Ids \union {NoParent}
      BY <2>3, <2>4 DEF Orphaned, Parent
    <3>4. EarlyChild(n) /\ Compared(n)
            <=> First(n).parent \in Ids /\ First(n).ts < First(First(n).parent).ts
      BY <1>1, <2>3 DEF EarlyChild, Compared, Parent
    <3> QED BY <3>1, <3>2, <3>3, <3>4 DEF Noted, OnceIff
  <2> QED BY <2>5, <2>6, <2>7
<1>2. Inv => GraphIsOfTheList
  BY <1>1 DEF GraphIsOfTheList
<1> QED BY <1>2, InvHolds, PTL

\* A list in order of time has each node behind the earlier ones.
LEMMA PlaceInOrder ==
    ASSUME events \in Seq(EventSet), NEW S \in SUBSET Ids, NEW s \in Seq(Ids), Ordered(s, S)
    PROVE  /\ IsFiniteSet(S) /\ Len(s) = Cardinality(S)
           /\ \A i \in 1..Len(s) : /\ s[i] \in S
                                   /\ Cardinality({y \in S : Earlier(y, s[i])}) = i - 1
<1> DEFINE n == Len(s)
<1>1. n \in Nat /\ DOMAIN s = 1..n /\ IsFiniteSet(S)
  BY LenProperties, IdsAreFinite, FS_Subset
<1>2. (\A i \in 1..n : s[i] \in S) /\ \A x \in S : \E i \in 1..n : s[i] = x
  BY <1>1 DEF Ordered, Range
<1>3. \A i, j \in 1..n : i < j => Earlier(s[i], s[j])
  BY <1>1 DEF Ordered, Earlier
<1> HIDE DEF n
<1>4. \A i, j \in 1..n : /\ Earlier(s[i], s[j]) <=> i < j
                         /\ s[i] = s[j] => i = j
  <2> TAKE i, j \in 1..n
  <2>1. i \in Int /\ j \in Int /\ s[i] \in Ids /\ s[j] \in Ids
    BY <1>1, <1>2
  <2>2. ~(Earlier(s[i], s[j]) /\ Earlier(s[j], s[i]))
    BY <2>1, EarlierIsTotal
  <2>3. CASE i < j
    BY <1>3, <2>1, <2>2, <2>3
  <2>4. CASE j < i
    BY <1>3, <2>1, <2>2, <2>4
  <2>5. CASE i = j
    BY <2>1, <2>2, <2>5
  <2> QED BY <2>1, <2>3, <2>4, <2>5
<1>5. ASSUME NEW i \in 1..n PROVE Cardinality({y \in S : Earlier(y, s[i])}) = i - 1
  <2> DEFINE T == {y \in S : Earlier(y, s[i])}
             f == [j \in 1..(i - 1) |-> s[j]]
  <2>1. i - 1 \in Nat /\ \A j \in 1..(i - 1) : j \in 1..n /\ j < i
    BY <1>1
  <2>2. ASSUME NEW x \in T PROVE \E j \in 1..(i - 1) : s[j] = x
    <3>1. PICK j \in 1..n : s[j] = x
      BY <1>2
    <3>2. j < i
      BY <1>4, <3>1
    <3> QED BY <1>1, <3>1, <3>2
  <2>3. f \in Surjection(1..(i - 1), T)
    <3>1. \A j \in 1..(i - 1) : s[j] \in T
      BY <1>2, <1>4, <2>1
    <3> QED BY <2>2, <3>1 DEF Surjection
  <2>4. f \in Injection(1..(i - 1), T)
    BY <1>4, <2>1, <2>3 DEF Surjection, Injection, IsInjective
  <2> HIDE DEF T, f
  <2> DEFINE k == i - 1
  <2>5. k \in Nat /\ 1 \in Int
    BY <2>1
  <2> HIDE DEF k
  <2>6. IsFiniteSet(1..k) /\ Cardinality(1..k) = IF 1 > k THEN 0 ELSE k - 1 + 1
    BY <2>5, FS_Interval
  <2>7. Cardinality(1..k) = k
    BY <2>5, <2>6
  <2>8. Cardinality(T) = Cardinality(1..k)
    BY <2>3, <2>4, <2>6, FS_Surjection DEF k
  <2> QED BY <2>7, <2>8 DEF T, k
<1>6. n = Cardinality(S)
  <2>1. s \in Surjection(1..n, S) /\ s \in Injection(1..n, S)
    BY <1>1, <1>2, <1>4, LenProperties DEF Surjection, Injection, IsInjective
  <2>2. IsFiniteSet(1..n) /\ Cardinality(1..n) = IF 1 > n THEN 0 ELSE n - 1 + 1
    BY <1>1, FS_Interval
  <2>3. Cardinality(1..n) = n
    BY <1>1, <2>2
  <2> QED BY <2>1, <2>2, <2>3, FS_Surjection
<1> QED BY <1>1, <1>2, <1>5, <1>6 DEF n

\* The events of a set have one order of time.
LEMMA OrderIsUnique ==
    ASSUME events \in Seq(EventSet), NEW S \in SUBSET Ids,
           NEW s \in Seq(Ids), Ordered(s, S), NEW t \in Seq(Ids), Ordered(t, S)
    PROVE  s = t
<1> DEFINE Above(x) == {y \in S : Earlier(y, x)}
<1>1. /\ IsFiniteSet(S) /\ Len(s) = Len(t) /\ Len(s) \in Nat
      /\ \A i \in 1..Len(s) : /\ s[i] \in S /\ Cardinality(Above(s[i])) = i - 1
                              /\ t[i] \in S /\ Cardinality(Above(t[i])) = i - 1
  <2>1. /\ IsFiniteSet(S) /\ Len(s) = Cardinality(S)
        /\ \A i \in 1..Len(s) : s[i] \in S /\ Cardinality(Above(s[i])) = i - 1
    BY PlaceInOrder
  <2>2. /\ Len(t) = Cardinality(S)
        /\ \A i \in 1..Len(t) : t[i] \in S /\ Cardinality(Above(t[i])) = i - 1
    BY PlaceInOrder
  <2>3. Len(s) \in Nat
    BY LenProperties
  <2> HIDE DEF Above
  <2> QED BY <2>1, <2>2, <2>3
<1>2. ASSUME NEW x \in S, NEW y \in S, Earlier(x, y)
      PROVE  Cardinality(Above(x)) < Cardinality(Above(y))
  <2>1. /\ Above(x) \subseteq Above(y) /\ x \in Above(y) /\ x \notin Above(x)
        /\ IsFiniteSet(Above(y))
    BY <1>1, <1>2, EarlierIsTotal, FS_Subset
  <2>2. Above(x) # Above(y)
    BY <2>1
  <2> QED BY <2>1, <2>2, FS_Subset, FS_CardinalityType
<1> HIDE DEF Above
<1>3. ASSUME NEW i \in 1..Len(s) PROVE s[i] = t[i]
  <2> DEFINE x == s[i]
             y == t[i]
  <2>1. /\ x \in S /\ y \in S /\ i - 1 \in Int
        /\ Cardinality(Above(x)) = i - 1 /\ Cardinality(Above(y)) = i - 1
    BY <1>1
  <2> HIDE DEF x, y
  <2>2. ~Earlier(x, y) /\ ~Earlier(y, x)
    <3> DEFINE k == i - 1
    <3>1. k \in Int /\ Cardinality(Above(x)) = k /\ Cardinality(Above(y)) = k
      BY <2>1
    <3> HIDE DEF k
    <3>2. ~(k < k)
      BY <3>1
    <3> QED BY <1>2, <2>1, <3>1, <3>2
  <2>3. x = y
    BY <2>1, <2>2, EarlierIsTotal
  <2> QED BY <2>3 DEF x, y
<1> QED BY <1>1, <1>3, SeqEqual

\* When Build is done its roots and the children of each node are what every
\* other run over the list comes to, whatever the order of the map was.
OneGraph ==
    loop = "done" =>
        /\ \A s \in Seq(Ids) :
             Ordered(s, {n \in Ids : First(n).parent \notin Ids}) => s = roots
        /\ \A p \in Ids, s \in Seq(Ids) :
             Ordered(s, {n \in Ids : First(n).parent = p}) => s = children[p]

THEOREM GraphIsUnique == Spec => []OneGraph
<1>1. ASSUME Inv, GraphIsOfTheList, loop = "done"
      PROVE  /\ \A s \in Seq(Ids) :
                  Ordered(s, {n \in Ids : First(n).parent \notin Ids}) => s = roots
             /\ \A p \in Ids, s \in Seq(Ids) :
                  Ordered(s, {n \in Ids : First(n).parent = p}) => s = children[p]
  <2>1. events \in Seq(EventSet)
    BY <1>1, TheList DEF Inv, Before
  <2>2. roots \in Seq(Ids) /\ \A p \in Ids : children[p] \in Seq(Ids)
    BY <1>1 DEF Inv, Before, Types
  <2>3. /\ Ordered(roots, {n \in Ids : First(n).parent \notin Ids})
        /\ \A p \in Ids : Ordered(children[p], {n \in Ids : First(n).parent = p})
    BY <1>1 DEF GraphIsOfTheList
  <2> QED BY <2>1, <2>2, <2>3, OrderIsUnique
<1>2. Inv /\ GraphIsOfTheList => OneGraph
  BY <1>1 DEF OneGraph
<1> QED BY <1>2, InvHolds, TheGraphIsOfTheList, PTL

=============================================================================
