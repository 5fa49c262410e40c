---------------------------- MODULE CausalGraph ----------------------------
(***************************************************************************)
(* Build and ASCII of internal/graph.  Build keeps its nodes in a Go map,  *)
(* and every `range` over a map visits it in an order of its own, so each  *)
(* loop below takes the nodes in any order, one per step.  What is called  *)
(* recursively, or loops over the children of a node, has a stack of       *)
(* frames: a node and the children it has not come to yet.  Events are     *)
(* records of an id, the id of a parent and a timestamp; a list may repeat *)
(* ids and name parents that are not in it.                                *)
(***************************************************************************)
EXTENDS Integers, Sequences, FiniteSets, Functions

CONSTANTS
    Traces,   \* the lists of events Build may be given
    NoParent  \* the parent id "" of a root

\* Event.Validate turns away an empty id.  Numbers stand for the texts.
EventSet == [id : Int \ {NoParent}, parent : Int \union {NoParent}, ts : Int]

ASSUME TracesAssumption == \A list \in Traces : list \in Seq(EventSet)

VARIABLES
    events,      \* the list given
    loop,        \* which loop of Build runs, or "print" for ASCII
    todo,        \* the nodes that loop has not visited yet
    stack,       \* the frames it is in
    roots,       \* CausalGraph.Roots
    children,    \* Node.Children of each node
    diagnostics, \* CausalGraph.Diagnostics, as <<code, event id>>
    state,       \* the depth-first search's marks: 0, 1 (open), 2 (closed)
    lines        \* the nodes ASCII has printed

vars == <<events, loop, todo, stack, roots, children, diagnostics, state, lines>>

\* The first loop: a node for the first event of each id.
LastOf(list) ==                                           \* mutant of NodesOf
    [id \in {list[i].id : i \in DOMAIN list} |->
        list[CHOOSE i \in DOMAIN list :
                list[i].id = id /\ \A j \in DOMAIN list : list[j].id = id => j <= i]]
NodesOf(list) ==
    [id \in {list[i].id : i \in DOMAIN list} |->
        list[CHOOSE i \in DOMAIN list :
                list[i].id = id /\ \A j \in DOMAIN list : list[j].id = id => i <= j]]
Repeated(list) ==
    {list[i].id : i \in {k \in DOMAIN list : \E j \in 1..(k - 1) : list[j].id = list[k].id}}

nodes == NodesOf(events)
Ids == DOMAIN nodes

Diagnose(code, id) == diagnostics' = Append(diagnostics, <<code, id>>)

Init == /\ events \in Traces
        /\ loop = "duplicates"
        /\ todo = Repeated(events)
        /\ stack = <<>>
        /\ roots = <<>>
        /\ children = [id \in Ids |-> <<>>]
        /\ diagnostics = <<>>
        /\ state = [id \in Ids |-> 0]
        /\ lines = <<>>

\* sortNodes: by timestamp, then by id.
Earlier(a, b) == \/ nodes[a].ts < nodes[b].ts
                 \/ nodes[a].ts = nodes[b].ts /\ a < b
InOrder(s) == CHOOSE t \in [DOMAIN s -> Range(s)] :
                 /\ Range(t) = Range(s)
                 /\ \A i, j \in DOMAIN s : i < j => ~Earlier(t[j], t[i])

\* A call or a loop for n that has ns to go through; the child that is next.
Frame(n, ns) == [node |-> n, rest |-> ns]
Top == stack[Len(stack)]
Advanced == [stack EXCEPT ![Len(stack)].rest = Tail(@)]

\* The loops after the first, in their order; the roots are sorted before
\* the last of Build, and ASCII begins with them.
NextLoop == [duplicates |-> "link", link |-> "visit", visit |-> "sort",
             sort |-> "print", print |-> "done"]

Leave ==
    /\ todo = {} /\ stack = <<>> /\ loop # "done"
    /\ loop' = NextLoop[loop]
    /\ todo' = IF loop' \in {"link", "visit", "sort"} THEN Ids ELSE {}
    /\ roots' = IF loop' = "sort" THEN InOrder(roots) ELSE roots
    /\ stack' = IF loop' = "print" THEN <<Frame(NoParent, roots)>> ELSE <<>>
    /\ UNCHANGED <<events, children, diagnostics, state, lines>>

\* The next node of a loop over the map, the next child of the loop over the
\* children in the top frame.
Take(l, n) == /\ loop = l /\ stack = <<>> /\ n \in todo
              /\ todo' = todo \ {n}
              /\ UNCHANGED <<events, loop, lines>>
Child(l, c) == /\ loop = l /\ stack # <<>>
               /\ Top.rest # <<>> /\ c = Head(Top.rest)
               /\ UNCHANGED <<events, loop, todo, roots, children>>

Duplicate(n) ==
    /\ Take("duplicates", n)
    /\ Diagnose("DUPLICATE", n)
    /\ UNCHANGED <<stack, roots, children, state>>

LinkRootsOnly(n) ==                                       \* mutant of Link
    /\ Take("link", n)
    /\ LET p == nodes[n].parent
       IN  /\ roots' = IF p = NoParent THEN Append(roots, n) ELSE roots
           /\ children' = IF p \in Ids THEN [children EXCEPT ![p] = Append(@, n)]
                          ELSE children
           /\ IF p \in Ids \union {NoParent} THEN UNCHANGED diagnostics
              ELSE Diagnose("ORPHAN", n)
    /\ UNCHANGED <<stack, state>>
Link(n) ==
    /\ Take("link", n)
    /\ LET p == nodes[n].parent
       IN  \/ /\ p = NoParent
              /\ roots' = Append(roots, n)
              /\ UNCHANGED <<children, diagnostics>>
           \/ /\ p \notin Ids \union {NoParent}
              /\ roots' = Append(roots, n)
              /\ Diagnose("ORPHAN", n)
              /\ UNCHANGED children
           \/ /\ p \in Ids
              /\ children' = [children EXCEPT ![p] = Append(@, n)]
              /\ UNCHANGED <<roots, diagnostics>>
    /\ UNCHANGED <<stack, state>>

\* The closure visit, called on n from within the given frames.
Search(n, frames) ==
    \/ /\ state[n] = 1
       /\ Diagnose("CYCLE", n)
       /\ stack' = frames
       /\ UNCHANGED state
    \/ /\ state[n] = 2
       /\ stack' = frames
       /\ UNCHANGED <<diagnostics, state>>
    \/ /\ state[n] = 0
       /\ state' = [state EXCEPT ![n] = 1]
       /\ stack' = Append(frames, Frame(n, children[n]))
       /\ UNCHANGED diagnostics

Visit(n) == Take("visit", n) /\ Search(n, <<>>) /\ UNCHANGED <<roots, children>>
VisitChild(c) == Child("visit", c) /\ Search(c, Advanced) /\ UNCHANGED lines

\* Each node's children are sorted, and those before their parent reported.
Sort(n) ==
    /\ Take("sort", n)
    /\ children' = [children EXCEPT ![n] = InOrder(@)]
    /\ stack' = <<Frame(n, children'[n])>>
    /\ UNCHANGED <<roots, diagnostics, state>>
Compare(c) ==
    /\ Child("sort", c)
    /\ stack' = Advanced
    /\ IF nodes[c].ts < nodes[Top.node].ts THEN Diagnose("INCONSISTENT_ORDER", c)
       ELSE UNCHANGED diagnostics
    /\ UNCHANGED <<state, lines>>

\* ASCII's closure walk: a line for the node, then its children.
Show(c) ==
    /\ Child("print", c)
    /\ lines' = Append(lines, c)
    /\ stack' = Append(Advanced, Frame(c, children[c]))
    /\ UNCHANGED <<diagnostics, state>>

\* The end of a loop over children; visit closes its node.
ReturnOpen ==                                             \* mutant of Return
    /\ stack # <<>> /\ Top.rest = <<>>
    /\ stack' = SubSeq(stack, 1, Len(stack) - 1)
    /\ UNCHANGED <<events, loop, todo, roots, children, diagnostics, state, lines>>
Return ==
    /\ stack # <<>> /\ Top.rest = <<>>
    /\ stack' = SubSeq(stack, 1, Len(stack) - 1)
    /\ state' = IF loop = "visit" THEN [state EXCEPT ![Top.node] = 2] ELSE state
    /\ UNCHANGED <<events, loop, todo, roots, children, diagnostics, lines>>

Done == loop = "done" /\ UNCHANGED vars

Next == \/ \E n \in todo : Duplicate(n) \/ Link(n) \/ Visit(n) \/ Sort(n)
        \/ \E c \in Ids : VisitChild(c) \/ Compare(c) \/ Show(c)
        \/ Return
        \/ Leave
        \/ Done

Spec == Init /\ [][Next]_vars

----------------------------------------------------------------------------
(* Properties.                                                             *)

Parent(n) == nodes[n].parent

\* The ids met when following parents from n, n among them on a loop only:
\* what is in every set that holds the parent of n and of each of its own.
UpClosed(S) == \A m \in S : Parent(m) \in Ids => Parent(m) \in S
Ancestors(n) ==
    {a \in Ids : \A S \in SUBSET Ids :
        UpClosed(S) /\ (Parent(n) \in Ids => Parent(n) \in S) => a \in S}
OnLoop(n) == n \in Ancestors(n)
Loops == {Ancestors(n) : n \in {m \in Ids : OnLoop(m)}}
Looped(n) == \E a \in Ancestors(n) : OnLoop(a)

Reported(code, S) == {i \in DOMAIN diagnostics :
                        diagnostics[i][1] = code /\ diagnostics[i][2] \in S}
Once(code, S) == \E i \in DOMAIN diagnostics : Reported(code, S) = {i}
OnceIff(code, n, holds) == IF holds THEN Once(code, {n}) ELSE Reported(code, {n}) = {}

\* Whatever the order of the map, each causal loop is reported exactly once,
\* with an event that lies on it, and nothing else is reported as a loop.
LoopsAreReportedOnce ==
    loop = "done" =>
        /\ \A L \in Loops : Once("CYCLE", L)
        /\ Reported("CYCLE", Ids \ UNION Loops) = {}

\* The walk, which keeps no marks, never prints an event twice nor one before
\* its parent, so it ends; the tree it prints has every event but those that
\* lie on or below a loop, which it does not show at all.
ShownUnlessLooped ==
    /\ \A i, j \in DOMAIN lines : lines[i] = lines[j] => i = j
    /\ \A i \in DOMAIN lines : Parent(lines[i]) \in Ids =>
          \E j \in 1..(i - 1) : lines[j] = Parent(lines[i])
    /\ loop = "done" => Range(lines) = {n \in Ids : ~Looped(n)}

\* Roots, children and the other diagnostics depend on the list only: roots
\* and children are in order of time, and each duplicated id, orphan and
\* early child is reported once.
Ordered(s, S) == /\ Range(s) = S
                 /\ \A i, j \in DOMAIN s : i < j =>
                       \/ nodes[s[i]].ts < nodes[s[j]].ts
                       \/ nodes[s[i]].ts = nodes[s[j]].ts /\ s[i] < s[j]
First(id) == events[CHOOSE i \in DOMAIN events :
                      events[i].id = id /\ \A j \in 1..(i - 1) : events[j].id # id]
GraphIsOfTheList ==
    loop = "done" =>
        /\ Ordered(roots, {n \in Ids : First(n).parent \notin Ids})
        /\ \A p \in Ids : Ordered(children[p], {n \in Ids : First(n).parent = p})
        /\ \A n \in Ids :
             /\ OnceIff("DUPLICATE", n, \E i, j \in DOMAIN events :
                          i < j /\ events[i].id = n /\ events[j].id = n)
             /\ OnceIff("ORPHAN", n, First(n).parent \notin Ids \union {NoParent})
             /\ OnceIff("INCONSISTENT_ORDER", n,
                        First(n).parent \in Ids /\ First(n).ts < First(First(n).parent).ts)

=============================================================================
