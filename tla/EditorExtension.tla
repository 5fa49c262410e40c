-------------------------- MODULE EditorExtension --------------------------
(***************************************************************************)
(* The collector process of the VS Code extension.  TimeWarpClient keeps   *)
(* one handle, `collector`.  Its callbacks run to completion one at a time *)
(* on the event loop, in the order of the user's commands and of the exits *)
(* of child processes, which are reported some time after the fact: the    *)
(* exit callback clears the handle, whichever child it holds by then.      *)
(*                                                                         *)
(* Outside src/extensions: the operating system, which gives the address   *)
(* to one process at a time and ends a process that was sent a signal some *)
(* time later, and Node, which reports each exit once.                     *)
(***************************************************************************)
EXTENDS Naturals

CONSTANTS
    Children,   \* bound: 1..n, the collectors that are started, in order
    MaxReloads  \* bound: reloads of the window

NoChild == 0

ASSUME ChildrenAssumption == Children \subseteq Nat \ {NoChild}
ASSUME ReloadAssumption == MaxReloads \in Nat

VARIABLES
    collector, \* this.collector
    killed,    \* children sent a signal
    proc,      \* "none", "started", "serving", "dead", "failed": each process
    watched,   \* children whose exit callback is still to run
    reloads,
    hurried,   \* history: a start while the exit of a stopped child was unreported
    uncalled   \* history: children whose handle went with a window

vars == <<collector, killed, proc, watched, reloads, hurried, uncalled>>

Init == /\ collector = NoChild
        /\ killed = {}
        /\ proc = [c \in Children |-> "none"]
        /\ watched = {}
        /\ reloads = 0
        /\ hurried = FALSE
        /\ uncalled = {}

Alive(c) == proc[c] \in {"started", "serving"}
Fresh == {c \in Children : proc[c] = "none"}
Serving == {c \in Children : proc[c] = "serving"}

----------------------------------------------------------------------------
(* The extension.                                                          *)

RefusedNever == FALSE                                     \* mutant of Refused
\* if (this.collector && !this.collector.killed) return
Refused == collector # NoChild /\ collector \notin killed

Spawn(c, how) ==
    /\ collector' = c
    /\ proc' = [proc EXCEPT ![c] = how]
    /\ watched' = IF how = "started" THEN watched \union {c} ELSE watched
    /\ hurried' = (hurried \/ watched \ {collector} # {})
    /\ UNCHANGED <<killed, reloads, uncalled>>

\* A binary that cannot be run is reported as "error", for which there is no
\* callback, and never as "exit".
StartCollector ==
    /\ ~Refused
    /\ \E c \in Fresh : /\ \A d \in Fresh : c <= d
                        /\ Spawn(c, "started") \/ Spawn(c, "failed")

\* kill sends a signal, and the handle is cleared at once.
StopCollector ==
    /\ collector # NoChild
    /\ killed' = IF Alive(collector) THEN killed \union {collector} ELSE killed
    /\ collector' = NoChild
    /\ UNCHANGED <<proc, watched, reloads, hurried, uncalled>>

ExitKept(c) == collector                                  \* mutant of AfterExit
AfterExit(c) == NoChild

\* once("exit"): the callback does not look at whose exit it is.
OnExit(c) ==
    /\ c \in watched /\ proc[c] = "dead"
    /\ collector' = AfterExit(c)
    /\ watched' = watched \ {c}
    /\ UNCHANGED <<killed, proc, reloads, hurried, uncalled>>

\* The window is closed or reloaded.  deactivate does nothing: the process
\* lives on, and the next window's client does not know it.
Reload ==
    /\ reloads < MaxReloads
    /\ reloads' = reloads + 1
    /\ collector' = NoChild
    /\ watched' = {}
    /\ uncalled' = uncalled \union {c \in Children : Alive(c)}
    /\ UNCHANGED <<killed, proc, hurried>>

----------------------------------------------------------------------------
(* The processes: `timewarp serve`.                                        *)

\* ListenAndServe, or log.Fatal because the address is in use.
Bind(c) ==
    /\ proc[c] = "started"
    /\ proc' = [proc EXCEPT ![c] = IF Serving = {} THEN "serving" ELSE "dead"]
    /\ UNCHANGED <<collector, killed, watched, reloads, hurried, uncalled>>

\* The signal ends it.
Die(c) ==
    /\ Alive(c) /\ c \in killed
    /\ proc' = [proc EXCEPT ![c] = "dead"]
    /\ UNCHANGED <<collector, killed, watched, reloads, hurried, uncalled>>

\* It ends by itself: an error at its start, or a kill from elsewhere.
Crash(c) ==
    /\ Alive(c)
    /\ proc' = [proc EXCEPT ![c] = "dead"]
    /\ UNCHANGED <<collector, killed, watched, reloads, hurried, uncalled>>

Next == \/ StartCollector \/ StopCollector \/ Reload
        \/ \E c \in Children : OnExit(c) \/ Bind(c) \/ Die(c) \/ Crash(c)

Spec == Init /\ [][Next]_vars

\* The event loop and the operating system make progress; the user and
\* crashes need not.
Fairness == \A c \in Children : WF_vars(OnExit(c)) /\ WF_vars(Bind(c)) /\ WF_vars(Die(c))

FairSpec == Spec /\ Fairness

----------------------------------------------------------------------------
(* Properties.                                                             *)

\* A collector that runs and was not told to stop is the one the Stop command
\* will reach, unless a start overtook the exit of an earlier one, or its
\* window was reloaded.
RunningIsReachable ==
    ~hurried => \A c \in Children :
        Alive(c) /\ c \notin killed => collector = c \/ c \in uncalled

\* However starts, stops and exits overlap, the handle does not outlive its
\* process, which would make Start do nothing: only that of a binary that
\* could not be run stays until Stop.
HandleIsCleared ==
    \A c \in Children :
        collector = c /\ proc[c] = "dead" ~> collector # c

=============================================================================
