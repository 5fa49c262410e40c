--------------------------- MODULE SkillInstaller ---------------------------
(***************************************************************************)
(* `timewarp skill install`: the skill is a directory that is copied, file *)
(* by file, to the directory of every target agent, one target after the   *)
(* other; with --force what is there is removed first.  Any system call    *)
(* can fail, the command can be killed at any point, and commands, editors *)
(* and git pulls can overlap.                                              *)
(*                                                                         *)
(* A file is where it comes from and its version.  findRepoRoot takes the  *)
(* first directory above the binary, or the working directory, that holds  *)
(* skills/debug-with-timewarp: that can be an agent's directory, and the   *)
(* source is then itself one of the targets.                               *)
(***************************************************************************)
EXTENDS Naturals, Sequences, FiniteSets, Functions

CONSTANTS
    Commands,    \* runs of `timewarp skill install`
    Targets,     \* GetAllTargets, in its order
    Repo,        \* the repository
    EditedFiles, \* bound: the files other programs write
    MaxEdits     \* bound: what else changes a skill directory

ASSUME TargetsAssumption ==
    /\ Targets \in Seq(Range(Targets)) /\ Targets # <<>>
    /\ \A i, j \in DOMAIN Targets : Targets[i] = Targets[j] => i = j

AllTargets == Range(Targets)
Places == AllTargets \union {Repo}

Names == {"SKILL.bak", "SKILL.md", "agents/openai.yaml"}
Skill == {"SKILL.md", "agents/openai.yaml"}
ASSUME EditedAssumption == EditedFiles \subseteq Skill

NoFile == <<"none", 0>>
Part == <<"truncated", 0>>

Absent == [dir |-> FALSE, files |-> [f \in Names |-> NoFile]]
Older == [dir |-> TRUE, files |-> [f \in Names |-> <<f, 0>>]]
Canonical == [dir |-> TRUE,
              files |-> [f \in Names |-> IF f \in Skill THEN <<f, 1>> ELSE NoFile]]

VARIABLES
    src,    \* where findRepoRoot found the skill
    disk,   \* the skill's directory at each place
    edited, \* history: the places that were changed by other programs
    edits,  \* how often they were
    cmd     \* the commands

vars == <<src, disk, edited, edits, cmd>>

Idle == [at |-> "idle", force |-> FALSE, work |-> <<>>, list |-> <<>>,
         data |-> NoFile, targets |-> {},
         skill |-> Absent, \* history: the skill as it was at its start
         found |-> {},    \* history: the targets that existed at its start
         changed |-> {},  \* history: the places it has changed
         touched |-> {}]  \* history: those changed by others since

Init == /\ src \in Places
        /\ \E old \in SUBSET (AllTargets \ {src}) :
             disk = [x \in Places |-> IF x = src THEN Canonical
                                     ELSE IF x \in old THEN Older ELSE Absent]
        /\ edited = {}
        /\ edits = 0
        /\ cmd = [p \in Commands |-> Idle]

Has(x, f) == disk[x].files[f] # NoFile
One(x, f) == IF Has(x, f) THEN <<f>> ELSE <<>>
\* In the order of a walk.
Present(x) == One(x, "SKILL.bak") \o One(x, "SKILL.md") \o One(x, "agents/openai.yaml")
\* ReadDir at x, and at x/agents when the list comes to it: agents/ may be there,
\* or come, without its file.
Listings(x) ==
    {Present(x)} \union
    {Append(Present(x), f) : f \in {g \in {"agents/openai.yaml"} : ~Has(x, g)}}
Dest(p) == Head(cmd[p].work)
Active(p) == cmd[p].at \notin {"idle", "ok", "error"}

\* p goes on as r, and nothing changes on the disk.
Goes(p, r) == /\ cmd' = [cmd EXCEPT ![p] = r]
              /\ UNCHANGED <<src, disk, edited, edits>>

Ends(p, how) == Goes(p, [cmd[p] EXCEPT !.at = how, !.work = <<>>, !.list = <<>>,
                                       !.data = NoFile])

Touched(r, x) == IF r.at = "idle" THEN r ELSE [r EXCEPT !.touched = @ \union {x}]

\* p goes on as r, and its destination is d.
Changes(p, r, d) ==
    /\ disk' = [disk EXCEPT ![Dest(p)] = d]
    /\ cmd' = [q \in Commands |->
                 IF q = p THEN [r EXCEPT !.changed = @ \union {Dest(p)}]
                 ELSE Touched(cmd[q], Dest(p))]
    /\ UNCHANGED <<src, edited, edits>>

With(d, f, c) == [dir |-> d.dir, files |-> [d.files EXCEPT ![f] = c]]
Created(d, f, c) == [dir |-> TRUE, files |-> [d.files EXCEPT ![f] = c]]

----------------------------------------------------------------------------
(* Install.                                                                *)

\* --target: one target, or all in their order.
TargetLists == {<<t>> : t \in AllTargets} \union {Targets}

\* validateCanonicalSkill: an error before anything is touched.
Begin(p) ==
    /\ cmd[p].at = "idle"
    /\ \E l \in TargetLists, force \in BOOLEAN :
         Goes(p, [Idle EXCEPT
                    !.at = IF disk[src].dir /\ Has(src, "SKILL.md") THEN "stat"
                           ELSE "error",
                    !.force = force, !.work = l, !.targets = Range(l),
                    !.found = {t \in Range(l) : disk[t].dir},
                    !.skill = disk[src]])

RefusedNever(p) == FALSE                                  \* mutant of Refused
Refused(p) == disk[Dest(p)].dir /\ ~cmd[p].force
Stat(p) ==
    /\ cmd[p].at = "stat"
    /\ IF Refused(p) THEN Ends(p, "error")
       ELSE Goes(p, [cmd[p] EXCEPT !.at = IF disk[Dest(p)].dir THEN "remove" ELSE "make"])

\* os.RemoveAll: the files, and the directory when it is empty.
RemoveAll(p) ==
    /\ cmd[p].at = "remove"
    /\ \/ \E f \in Range(Present(Dest(p))) :
            Changes(p, cmd[p], With(disk[Dest(p)], f, NoFile))
       \/ /\ Present(Dest(p)) = <<>>
          /\ Changes(p, [cmd[p] EXCEPT !.at = "make"], Absent)

\* copyDir: the destination is made, then the source is listed.
MakeDir(p) ==
    /\ cmd[p].at = "make"
    /\ src = Dest(p) \/ disk[src].dir
    /\ \E l \in Listings(src) :
         Changes(p, [cmd[p] EXCEPT !.at = "copy", !.list = l],
                    [dir |-> TRUE, files |-> disk[Dest(p)].files])

\* copyFile: the source is opened, the destination created or truncated ...
Open(p) ==
    LET f == Head(cmd[p].list)
    IN  /\ cmd[p].at = "copy" /\ cmd[p].list # <<>>
        /\ Has(src, f)
        /\ disk[Dest(p)].dir \/ f = "agents/openai.yaml"  \* copyDir makes agents/
        /\ Changes(p, [cmd[p] EXCEPT !.at = "fill",
                         !.data = IF src = Dest(p) THEN Part ELSE disk[src].files[f]],
                   Created(disk[Dest(p)], f, Part))

\* ... and only then the source is read: what it has now, or, when the file that
\* was opened is no longer there, what that one had, or a part of it.
Reads(p) ==
    LET f == Head(cmd[p].list)
    IN  {cmd[p].data, IF Has(src, f) THEN disk[src].files[f] ELSE Part}

\* It is written; a file removed meanwhile stays removed.
Fill(p) ==
    LET f == Head(cmd[p].list)
        r == [cmd[p] EXCEPT !.at = "copy", !.list = Tail(@), !.data = NoFile]
    IN  /\ cmd[p].at = "fill"
        /\ IF Has(Dest(p), f)
           THEN \E c \in Reads(p) : Changes(p, r, With(disk[Dest(p)], f, c))
           ELSE Goes(p, r)

\* The source's agents/ has no file: the destination's is made all the same.
CopyEmpty(p) ==
    LET f == Head(cmd[p].list)
    IN  /\ cmd[p].at = "copy" /\ cmd[p].list # <<>>
        /\ f = "agents/openai.yaml" /\ ~Has(src, f)
        /\ Changes(p, [cmd[p] EXCEPT !.list = Tail(@)],
                   [dir |-> TRUE, files |-> disk[Dest(p)].files])

\* The readback, then the next target.
Readback(p) ==
    /\ cmd[p].at = "copy" /\ cmd[p].list = <<>>
    /\ IF ~Has(Dest(p), "SKILL.md") THEN Ends(p, "error")
       ELSE IF Len(cmd[p].work) = 1 THEN Ends(p, "ok")
       ELSE Goes(p, [cmd[p] EXCEPT !.at = "stat", !.work = Tail(@)])

FailsOver(p) ==                                           \* mutant of Fails
    /\ Active(p)
    /\ IF cmd[p].at \in {"copy", "fill"}
       THEN Goes(p, [cmd[p] EXCEPT !.at = "copy", !.list = <<>>, !.data = NoFile])
       ELSE Ends(p, "error")
FailsOn(p) ==                                             \* mutant of Fails
    /\ Active(p)
    /\ IF Len(cmd[p].work) > 1
       THEN Goes(p, [cmd[p] EXCEPT !.at = "stat", !.work = Tail(@), !.list = <<>>,
                                   !.data = NoFile])
       ELSE Ends(p, "error")
\* A system call fails, or the command is killed: nothing is undone.
Fails(p) ==
    /\ Active(p)
    /\ Ends(p, "error")

Install(p) == \/ Begin(p) \/ Stat(p) \/ RemoveAll(p) \/ MakeDir(p) \/ Open(p)
              \/ Fill(p) \/ CopyEmpty(p) \/ Readback(p) \/ Fails(p)

----------------------------------------------------------------------------
(* Other programs: an editor, a git pull, another installer.               *)

Writes(x, d) ==
    /\ edits < MaxEdits
    /\ edits' = edits + 1
    /\ edited' = edited \union {x}
    /\ disk' = [disk EXCEPT ![x] = d]
    /\ cmd' = [q \in Commands |-> Touched(cmd[q], x)]
    /\ UNCHANGED src

Edit(x, f) == Writes(x, Created(disk[x], f, <<f, 2>>))

Rename(x) ==
    /\ Has(x, "SKILL.md") /\ ~Has(x, "SKILL.bak")
    /\ Writes(x, With(With(disk[x], "SKILL.bak", disk[x].files["SKILL.md"]),
                      "SKILL.md", NoFile))

Next == \/ \E p \in Commands : Install(p)
        \/ \E x \in Places : Rename(x) \/ \E f \in EditedFiles : Edit(x, f)

Spec == Init /\ [][Next]_vars

----------------------------------------------------------------------------
(* Properties.                                                             *)

\* A place that was the command's own affair since it began.
Own(p, t) == {t, src} \intersect cmd[p].touched = {}

\* A command that reports success has left at every target, not only at the
\* last, the whole skill and nothing else, although the readback looks for
\* SKILL.md alone, the first file that is copied.
SuccessIsComplete ==
    \A p \in Commands :
        cmd[p].at = "ok" => \A t \in cmd[p].targets : Own(p, t) => disk[t] = disk[src]

\* However a command ends, at most one target is neither as it was nor the
\* skill it was to get.
OneTargetAtRisk ==
    \A p \in Commands :
        Cardinality({t \in cmd[p].changed : Own(p, t) /\ disk[t] # cmd[p].skill}) <= 1

\* Without --force a command leaves alone the source and every target that
\* existed when it began, unless another program changed it meanwhile.  With
\* --force a source that is itself a target is lost, and the command fails.
NothingIsLostUnforced ==
    \A p \in Commands :
        LET lost == (cmd[p].changed \intersect (cmd[p].found \union {src})) \ cmd[p].touched
        IN  /\ ~cmd[p].force => lost = {}
            /\ src \in lost => src \in cmd[p].targets /\ cmd[p].at # "ok"

=============================================================================
