-------------------------- MODULE CheckpointRevert --------------------------
(***************************************************************************)
(* Checkpoints of explicitly named files and their reversal                *)
(* (internal/checkpointfs and the checkpoint command of cmd/timewarp).     *)
(* Every CLI invocation is a process of its own; they share the workspace, *)
(* which an agent edits at the same time, and the SQLite file.             *)
(*                                                                         *)
(* A step is one system call that a reader of the workspace can notice or  *)
(* one statement on the database.  captureOne compares an Lstat before and *)
(* after its read, so that it reads one version of the file or fails.      *)
(***************************************************************************)
EXTENDS Naturals, FiniteSets

CONSTANTS
    Commands,     \* CLI invocations; each creates at most one checkpoint,
                  \* which bears its name (ids are random and never equal)
    NoCommand,
    Paths,        \* files of the workspace, in the order of their names
    Versions,     \* contents and modes of a regular file
    Absent,       \* a path without a file
    MayFail,      \* whether system calls and statements may fail
    MayDie,       \* whether a command may be killed
    EditsAnyTime, \* whether the agent also edits while a reversal is at work
    MaxEdits      \* bound on the agent's edits

ASSUME PathAssumption == Paths \subseteq Nat /\ Absent \notin Versions
ASSUME CommandAssumption == NoCommand \notin Commands /\ "agent" \notin Commands
ASSUME SwitchAssumption ==
    MayFail \in BOOLEAN /\ MayDie \in BOOLEAN /\ EditsAnyTime \in BOOLEAN
ASSUME EditAssumption == MaxEdits \in Nat

VARIABLES
    ws,       \* the workspace: what is at each path
    status,   \* checkpoints: "NONE" (no row), "ACTIVE", "REVERTED"
    safety,   \* checkpoints: the checkpoint taken before its reversal
    content,  \* checkpoint_files: what each checkpoint holds
    at,       \* where each command is
    target,   \* the checkpoint it reverts, NoCommand when it creates one
    todo,     \* the files it has not come to yet
    read,     \* what it has captured so far
    plan,     \* the plan it printed
    backup,   \* what it has renamed aside
    told,     \* what it told the operator
    touched,  \* history: who else wrote to the files of its reversal
    edits     \* edits of the agent

store == <<status, safety, content>>
vars == <<ws, store, at, target, todo, read, plan, backup, told, touched, edits>>

File == Versions \union {Absent}
Empty == [p \in {} |-> Absent]
With(f, p, x) == [q \in DOMAIN f \union {p} |-> IF q = p THEN x ELSE f[q]]
First(S) == CHOOSE p \in S : \A q \in S : p <= q

Init == /\ ws \in [Paths -> File]
        /\ status = [i \in Commands |-> "NONE"]
        /\ safety = [i \in Commands |-> NoCommand]
        /\ content = [i \in Commands |-> Empty]
        /\ at = [o \in Commands |-> "idle"]
        /\ target = [o \in Commands |-> NoCommand]
        /\ todo = [o \in Commands |-> {}]
        /\ read = [o \in Commands |-> Empty]
        /\ plan = [o \in Commands |-> Empty]
        /\ backup = [o \in Commands |-> Absent]
        /\ told = [o \in Commands |-> "nothing"]
        /\ touched = [o \in Commands |-> {}]
        /\ edits = 0

Goto(o, l) == at' = [at EXCEPT ![o] = l]
Say(o, t) == Goto(o, "done") /\ told' = [told EXCEPT ![o] = t]
Todo(o, S) == todo' = [todo EXCEPT ![o] = S]

Files(o) == IF target[o] = NoCommand THEN {} ELSE DOMAIN content[target[o]]

\* A write to path p by w: what is there now, and who has been disturbed.
Write(p, x, w) ==
    /\ ws' = [ws EXCEPT ![p] = x]
    /\ touched' = [o \in Commands |->
                     IF o # w /\ p \in Files(o) THEN touched[o] \union {w} ELSE touched[o]]

----------------------------------------------------------------------------
(* checkpoint create, and the plan of checkpoint revert.                   *)

StartCreate(o) ==
    /\ at[o] = "idle"
    /\ \E S \in (SUBSET Paths) \ {{}} : Todo(o, S)
    /\ Goto(o, "capture")
    /\ UNCHANGED <<ws, store, target, read, plan, backup, told, touched, edits>>

StartRevert(o) ==
    /\ at[o] = "idle"
    /\ \E i \in Commands :
         /\ status[i] # "NONE"
         /\ target' = [target EXCEPT ![o] = i]
         /\ Todo(o, DOMAIN content[i])
    /\ Goto(o, "plan")
    /\ UNCHANGED <<ws, store, read, plan, backup, told, touched, edits>>

StepToSaved(saved, current) ==                            \* mutant of Step
    IF saved = Absent THEN "delete" ELSE "restore"
Step(saved, current) ==
    CASE saved # Absent /\ current # saved -> "restore"
      [] saved = Absent /\ current # Absent -> "delete"
      [] OTHER -> "unchanged"

Plan(o) ==
    LET p == First(todo[o])
    IN  /\ at[o] = "plan"
        /\ \/ /\ plan' = [plan EXCEPT ![o] = With(@, p, Step(content[target[o]][p], ws[p]))]
              /\ Todo(o, todo[o] \ {p})
              /\ Goto(o, IF todo[o] = {p} THEN "prompt" ELSE "plan")
              /\ UNCHANGED told
           \/ /\ MayFail
              /\ Say(o, "failed")
              /\ UNCHANGED <<plan, todo>>
        /\ UNCHANGED <<ws, store, target, read, backup, touched, edits>>

\* The operator types the id or not; Revert reads the checkpoint again.
MayRevert(i) == status[i] = "ACTIVE"
Confirm(o) ==
    /\ at[o] = "prompt"
    /\ \/ /\ MayRevert(target[o])
          /\ Todo(o, Files(o))
          /\ Goto(o, "capture")
          /\ UNCHANGED told
       \/ /\ ~MayRevert(target[o]) \/ MayFail
          /\ Say(o, "failed")
          /\ UNCHANGED todo
       \/ /\ Say(o, "cancelled")
          /\ UNCHANGED todo
    /\ UNCHANGED <<ws, store, target, read, plan, backup, touched, edits>>

----------------------------------------------------------------------------
(* Capture: of the files the operator named in any order, or, before a     *)
(* reversal, of the checkpoint's files.                                    *)

CaptureOne(o) ==
    /\ at[o] = "capture"
    /\ \/ \E p \in todo[o] :
            /\ target[o] # NoCommand => p = First(todo[o])
            /\ read' = [read EXCEPT ![o] = With(@, p, ws[p])]
            /\ Todo(o, todo[o] \ {p})
            /\ Goto(o, IF todo[o] = {p} THEN "insert" ELSE "capture")
            /\ UNCHANGED told
       \/ /\ MayFail
          /\ Say(o, "failed")
          /\ UNCHANGED <<read, todo>>
    /\ UNCHANGED <<ws, store, target, plan, backup, touched, edits>>

InsertTorn(o) ==                                          \* mutant of InsertFailed
    /\ content' = [content EXCEPT ![o] = read[o]]
    /\ Say(o, "failed")
    /\ UNCHANGED <<status, read, todo>>
InsertForgotten(o) ==                                     \* mutant of InsertFailed
    /\ Goto(o, IF target[o] = NoCommand THEN "audit" ELSE "apply")
    /\ Todo(o, Files(o))
    /\ content' = [content EXCEPT ![o] = [p \in DOMAIN read[o] |-> Absent]]
    /\ UNCHANGED <<status, read, told>>
InsertFailed(o) ==
    /\ Say(o, "failed")
    /\ UNCHANGED <<status, content, read, todo>>

\* CreateCheckpoint, one transaction; a reversal goes on to applyFiles.
Insert(o) ==
    /\ at[o] = "insert"
    /\ \/ /\ status' = [status EXCEPT ![o] = "ACTIVE"]
          /\ content' = [content EXCEPT ![o] = read[o]]
          /\ read' = [read EXCEPT ![o] = Empty]
          /\ Todo(o, Files(o))
          /\ Goto(o, IF target[o] = NoCommand THEN "audit" ELSE "apply")
          /\ UNCHANGED told
       \/ MayFail /\ InsertFailed(o)
    /\ UNCHANGED <<ws, safety, target, plan, backup, touched, edits>>

----------------------------------------------------------------------------
(* applyFiles: forward from the checkpoint ("apply", "swap"), or back from *)
(* the safety checkpoint ("undo", "unswap").                               *)

Forward(o) == at[o] \in {"apply", "swap"}
Source(o) == IF Forward(o) THEN content[target[o]] ELSE content[o]
Loop(o) == IF Forward(o) THEN "apply" ELSE "undo"

\* An error of applyFiles starts the rollback, over all files, or ends it.
RestFrom(o) == todo[o]                                    \* mutant of FromStart
FromStart(o) == Files(o)
FailSkipping(o) ==                                        \* mutant of Fail
    /\ Goto(o, Loop(o))
    /\ Todo(o, todo[o] \ {First(todo[o])})
    /\ UNCHANGED told
Fail(o) == \/ /\ Forward(o)
              /\ Goto(o, "undo")
              /\ Todo(o, FromStart(o))
              /\ UNCHANGED told
           \/ /\ ~Forward(o)
              /\ Say(o, "rollback_failed")
              /\ UNCHANGED todo

\* Nothing at this path, nor should there be; a file that must go.
Delete(o) ==
    LET p == First(todo[o])
    IN  /\ at[o] \in {"apply", "undo"} /\ todo[o] # {}
        /\ Source(o)[p] = Absent
        /\ \/ /\ ws[p] # Absent
              /\ Write(p, Absent, o)
              /\ Todo(o, todo[o] \ {p})
              /\ UNCHANGED <<at, told>>
           \/ /\ ws[p] = Absent
              /\ Todo(o, todo[o] \ {p})
              /\ UNCHANGED <<ws, at, told, touched>>
           \/ /\ MayFail
              /\ Fail(o)
              /\ UNCHANGED <<ws, touched>>
        /\ UNCHANGED <<store, target, read, plan, backup, edits>>

\* replaceRegularFile: the new content is in a temporary file, and what is
\* at the path is renamed to a backup ...
SetAside(o) ==
    LET p == First(todo[o])
    IN  /\ at[o] \in {"apply", "undo"} /\ todo[o] # {}
        /\ Source(o)[p] # Absent
        /\ \/ /\ ws[p] # Absent
              /\ Write(p, Absent, o)
              /\ backup' = [backup EXCEPT ![o] = ws[p]]
              /\ Goto(o, IF Forward(o) THEN "swap" ELSE "unswap")
              /\ UNCHANGED <<todo, told>>
           \/ /\ ws[p] = Absent
              /\ Goto(o, IF Forward(o) THEN "swap" ELSE "unswap")
              /\ UNCHANGED <<ws, backup, todo, told, touched>>
           \/ /\ MayFail
              /\ Fail(o)
              /\ UNCHANGED <<ws, backup, touched>>
        /\ UNCHANGED <<store, target, read, plan, edits>>

\* ... and the temporary file to the path, or, when that fails, the backup
\* back again; a backup that cannot be renamed back stays under its name.
PutInPlace(o) ==
    LET p == First(todo[o])
    IN  /\ at[o] \in {"swap", "unswap"}
        /\ backup' = [backup EXCEPT ![o] = Absent]
        /\ \/ /\ Write(p, Source(o)[p], o)
              /\ Todo(o, todo[o] \ {p})
              /\ Goto(o, Loop(o))
              /\ UNCHANGED told
           \/ /\ MayFail
              /\ Fail(o)
              /\ \/ backup[o] # Absent /\ Write(p, backup[o], o)
                 \/ UNCHANGED <<ws, touched>>
        /\ UNCHANGED <<store, target, read, plan, edits>>

Applied(o) ==
    /\ at[o] \in {"apply", "undo"} /\ todo[o] = {}
    /\ \/ Forward(o) /\ Goto(o, "mark") /\ UNCHANGED told
       \/ ~Forward(o) /\ Say(o, "rolled_back")
    /\ UNCHANGED <<ws, store, target, todo, read, plan, backup, touched, edits>>

MayMarkAgain(i) == TRUE                                   \* mutant of MayMark
MayMark(i) == status[i] = "ACTIVE"

\* MarkCheckpointReverted: an error rolls the workspace back as well.
Mark(o) ==
    LET i == target[o]
    IN  /\ at[o] = "mark"
        /\ \/ /\ MayMark(i)
              /\ status' = [status EXCEPT ![i] = "REVERTED"]
              /\ safety' = [safety EXCEPT ![i] = o]
              /\ Goto(o, "audit")
              /\ UNCHANGED todo
           \/ /\ ~MayMark(i) \/ MayFail
              /\ Goto(o, "undo")
              /\ Todo(o, FromStart(o))
              /\ UNCHANGED <<status, safety>>
        /\ UNCHANGED <<ws, content, target, read, plan, backup, told, touched, edits>>

\* recordCheckpointAudit: its failure is reported but changes nothing.
Audit(o) ==
    /\ at[o] = "audit"
    /\ \/ Say(o, IF target[o] = NoCommand THEN "created" ELSE "reverted")
       \/ MayFail /\ Say(o, "unaudited")
    /\ UNCHANGED <<ws, store, target, todo, read, plan, backup, touched, edits>>

Command(o) == \/ StartCreate(o) \/ StartRevert(o) \/ Plan(o) \/ Confirm(o)
              \/ CaptureOne(o) \/ Insert(o)
              \/ Delete(o) \/ SetAside(o) \/ PutInPlace(o) \/ Applied(o)
              \/ Mark(o) \/ Audit(o)

----------------------------------------------------------------------------
(* The surroundings.                                                       *)

\* A killed command leaves what it renamed aside under its temporary name.
Kill(o) ==
    /\ MayDie
    /\ at[o] \notin {"idle", "done"}
    /\ Say(o, "killed")
    /\ backup' = [backup EXCEPT ![o] = Absent]
    /\ read' = [read EXCEPT ![o] = Empty]
    /\ UNCHANGED <<ws, store, target, todo, plan, touched, edits>>

AtWork(o) == at[o] \in {"insert", "apply", "swap", "undo", "unswap", "mark"}
             \/ (at[o] = "capture" /\ target[o] # NoCommand)

Edit == /\ edits < MaxEdits
        /\ EditsAnyTime \/ \A o \in Commands : ~AtWork(o)
        /\ edits' = edits + 1
        /\ \E p \in Paths : \E x \in File \ {ws[p]} : Write(p, x, "agent")
        /\ UNCHANGED <<store, at, target, todo, read, plan, backup, told>>

Next == (\E o \in Commands : Command(o) \/ Kill(o)) \/ Edit

Spec == Init /\ [][Next]_vars

----------------------------------------------------------------------------
(* Properties.                                                             *)

Labels == {"idle", "plan", "prompt", "capture", "insert", "apply", "swap", "undo",
           "unswap", "mark", "audit", "done"}

\* Types and ranges; rows of checkpoint_files exist for rows of checkpoints.
TypeOK ==
    /\ ws \in [Paths -> File]
    /\ status \in [Commands -> {"NONE", "ACTIVE", "REVERTED"}]
    /\ safety \in [Commands -> Commands \union {NoCommand}]
    /\ \A i \in Commands : /\ content[i] \in [DOMAIN content[i] -> File]
                           /\ DOMAIN content[i] \subseteq Paths
                           /\ status[i] = "NONE" <=> DOMAIN content[i] = {}
    /\ at \in [Commands -> Labels]
    /\ target \in [Commands -> Commands \union {NoCommand}]
    /\ todo \in [Commands -> SUBSET Paths]
    /\ backup \in [Commands -> File]
    /\ edits \in 0..MaxEdits

Holds(i) == \A p \in DOMAIN content[i] : ws[p] = content[i][p]

\* A reversal that gets as far as its mark has restored every file, unless
\* somebody else wrote to one of them since it started.
RevertRestores ==
    \A o \in Commands :
        /\ target[o] # NoCommand /\ touched[o] = {}
        /\ at[o] \in {"mark", "audit"} \/ told[o] \in {"reverted", "unaudited"}
        => Holds(target[o])

\* docs/agent-interface.md: a partially failed reversal is compensated.  One
\* that failed after its first write and reports no rollback error has left
\* every file as it found it, unless somebody else wrote to one of them.
FailureIsCompensated ==
    \A o \in Commands : told[o] = "rolled_back" /\ touched[o] = {} => Holds(o)

\* cmd/timewarp: "safety checkpoint ... preserves the pre-revert state".  What
\* a reversal, its rollback or a kill in the middle of either takes away from
\* a path is held for that path by a checkpoint in the database.
OverwritesAreKept ==
    [][Edit \/ \A p \in Paths :
                  ws[p] # Absent /\ ws'[p] # ws[p] =>
                      \E i \in Commands : p \in DOMAIN content[i] /\ content[i][p] = ws[p]]_vars

\* A reversal can be undone: of all commands that revert a checkpoint one at
\* most reports success, and the checkpoint it took of the same files before
\* is the one the reverted checkpoint names.
RevertedIsUndoable ==
    /\ \A i \in Commands : status[i] = "REVERTED" =>
          LET s == safety[i]
          IN  /\ s \in Commands \ {i} /\ target[s] = i
              /\ status[s] # "NONE" /\ DOMAIN content[s] = DOMAIN content[i]
    /\ \A o \in Commands : told[o] \in {"reverted", "unaudited"} /\ target[o] # NoCommand =>
          safety[target[o]] = o

\* cmd/timewarp: "reverted ...".  The files of a reversal reported as done
\* stay as it left them for as long as the agent does not edit them and no
\* other reversal is reported as done; a refused one changes nothing.
RevertHolds ==
    \A o \in Commands :
        /\ told[o] = "reverted"
        /\ \A w \in touched[o] : w \in Commands /\ told[w] \in {"failed", "rolled_back"}
        => Holds(target[o])

\* docs/agent-interface.md: the exact plan is printed before the reversal.  It
\* says what will happen to the files the reversal finds when it captures them
\* later, unless somebody else wrote to one of them since it started.
PlanIsFollowed ==
    \A o \in Commands : DOMAIN content[o] # {} /\ touched[o] = {} =>
        \A p \in Files(o) :
            LET saved == content[target[o]][p]
                found == content[o][p]
            IN  plan[o][p] = IF found = saved THEN "unchanged"
                             ELSE IF saved = Absent THEN "delete" ELSE "restore"

=============================================================================
