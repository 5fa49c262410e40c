---------------------------- MODULE EditorProofs ----------------------------
(***************************************************************************)
(* Proofs about EditorExtension, for any number of collectors and reloads: *)
(* the Stop command reaches the collector that runs.                       *)
(*                                                                         *)
(* The exit callback clears the handle without looking at whose exit it    *)
(* is.  What makes that right is that no other exit can be unreported      *)
(* while the handle holds a child, unless a start was hurried.             *)
(***************************************************************************)
EXTENDS EditorExtension, TLAPS

States == {"none", "started", "serving", "dead", "failed"}

Types == /\ collector \in Children \union {NoChild}
         /\ killed \in SUBSET Children
         /\ proc \in [Children -> States]
         /\ watched \in SUBSET Children
         /\ hurried \in BOOLEAN
         /\ uncalled \in SUBSET Children
         /\ reloads \in 0..MaxReloads

\* A child that is held, stopped or watched was started; a stopped one is
\* not held.
Known == /\ \A c \in killed \union watched : proc[c] # "none"
         /\ collector # NoChild => proc[collector] # "none"
         /\ collector \notin killed

\* Nobody else's exit can clear a handle that holds a child.
OwnExit == ~hurried /\ collector # NoChild => watched \subseteq {collector}

EInv == Types /\ Known /\ OwnExit /\ RunningIsReachable

\* Nothing runs at first.
LEMMA EInvInit == Init => EInv
<1> SUFFICES ASSUME Init PROVE EInv
  OBVIOUS
<1>1. Types
  <2>1. reloads \in 0..MaxReloads
    BY ReloadAssumption DEF Init
  <2>2. proc \in [Children -> States]
    BY DEF Init, States
  <2> QED BY <2>1, <2>2 DEF Init, Types
<1>2. Known /\ OwnExit
  BY DEF Init, Known, OwnExit
<1>3. RunningIsReachable
  BY DEF Init, RunningIsReachable, Alive
<1> QED BY <1>1, <1>2, <1>3 DEF EInv

\* StartCollector: the handle was empty, and so, unless the start is hurried,
\* is the list of exits to come.
LEMMA StartKeeps == ASSUME EInv, StartCollector PROVE EInv'
<1>1. Types /\ Known /\ OwnExit /\ RunningIsReachable
  BY DEF EInv
<1>2. PICK c \in Children, how \in {"started", "failed"} : proc[c] = "none" /\ Spawn(c, how)
  BY DEF StartCollector, Fresh
<1>3. collector = NoChild
  BY <1>1 DEF StartCollector, Refused, Known
<1>4. /\ collector' = c /\ c # NoChild /\ killed' = killed /\ uncalled' = uncalled
      /\ reloads' = reloads
      /\ proc' \in [Children -> States] /\ proc'[c] = how
      /\ \A d \in Children \ {c} : proc'[d] = proc[d]
  BY <1>1, <1>2, ChildrenAssumption DEF Spawn, Types, States
<1>5. /\ watched' \subseteq watched \union {c}
      /\ hurried' \in BOOLEAN /\ (~hurried' => ~hurried /\ watched \subseteq {NoChild})
  BY <1>1, <1>2, <1>3 DEF Spawn, Types
<1>6. Types'
  BY <1>1, <1>4, <1>5 DEF Types
<1>7. Known'
  BY <1>1, <1>2, <1>4, <1>5 DEF Known, Types
<1>8. OwnExit'
  BY <1>1, <1>4, <1>5, ChildrenAssumption DEF OwnExit, Types
<1>9. RunningIsReachable'
  BY <1>1, <1>3, <1>4, <1>5, ChildrenAssumption DEF RunningIsReachable, Alive
<1> QED BY <1>6, <1>7, <1>8, <1>9 DEF EInv

\* Stop empties the handle, and a child that was told to stop needs none.
LEMMA StopKeeps == ASSUME EInv, StopCollector PROVE EInv'
BY ChildrenAssumption
   DEF EInv, Types, Known, OwnExit, RunningIsReachable, StopCollector, Alive, NoChild

\* The exit of the child that the handle holds, or of one when it is empty.
LEMMA ExitKeeps == ASSUME EInv, NEW c \in Children, OnExit(c) PROVE EInv'
BY ChildrenAssumption
   DEF EInv, Types, Known, OwnExit, RunningIsReachable, OnExit, AfterExit, Alive, NoChild

\* A reload empties the handle, and is the end of the promise.
LEMMA ReloadKeeps == ASSUME EInv, Reload PROVE EInv'
<1>1. Types'
  BY ReloadAssumption DEF EInv, Types, Reload
<1>2. Known' /\ OwnExit' /\ RunningIsReachable'
  BY ChildrenAssumption
     DEF EInv, Types, Known, OwnExit, RunningIsReachable, Reload, Alive, NoChild
<1> QED BY <1>1, <1>2 DEF EInv

\* What happens to a process starts none.
LEMMA ProcessKeeps ==
    ASSUME EInv, NEW c \in Children, Bind(c) \/ Die(c) \/ Crash(c) PROVE EInv'
<1>1. Types /\ Known /\ OwnExit /\ RunningIsReachable
  BY DEF EInv
<1>2. /\ UNCHANGED <<collector, killed, watched, reloads, hurried, uncalled>>
      /\ Alive(c)
      /\ \E how \in {"serving", "dead"} : proc' = [proc EXCEPT ![c] = how]
  BY DEF Bind, Die, Crash, Alive
<1>3. Types'
  BY <1>1, <1>2 DEF Types, States
<1>4. Known' /\ OwnExit'
  BY <1>1, <1>2 DEF Types, Known, OwnExit
<1>5. \A d \in Children : Alive(d)' => Alive(d)
  BY <1>1, <1>2 DEF Types, Alive
<1>6. RunningIsReachable'
  BY <1>1, <1>2, <1>5 DEF RunningIsReachable
<1> QED BY <1>3, <1>4, <1>6 DEF EInv

\* The Stop command will reach the collector that runs and was not told to
\* stop: the exit of an earlier child cannot have cleared its handle, unless
\* the start overtook it, and a reload is the only other way to lose it.
THEOREM StopReachesTheRunning == Spec => []RunningIsReachable
<1>1. EInv /\ [Next]_vars => EInv'
  <2> SUFFICES ASSUME EInv, [Next]_vars PROVE EInv'
    OBVIOUS
  <2>1. CASE Next
    BY <2>1, StartKeeps, StopKeeps, ReloadKeeps, ExitKeeps, ProcessKeeps DEF Next
  <2>2. CASE UNCHANGED vars
    BY <2>2 DEF vars, EInv, Types, Known, OwnExit, RunningIsReachable, Alive
  <2> QED BY <2>1, <2>2
<1>2. EInv => RunningIsReachable
  BY DEF EInv
<1> QED BY <1>1, <1>2, EInvInit, PTL DEF Spec

=============================================================================
