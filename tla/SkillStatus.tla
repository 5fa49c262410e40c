---------------------------- MODULE SkillStatus ----------------------------
(***************************************************************************)
(* `timewarp skill status` beside the commands of SkillInstaller: it       *)
(* hashes the source, then looks for the skill at every target and hashes  *)
(* that, file by file, and prints "no" under DIVERGENT when the hashes are *)
(* equal.  It takes no lock, and a directory it cannot read has the hash   *)
(* "": a target without a hash is not called divergent either, and the     *)
(* same "no" is printed for it.                                            *)
(***************************************************************************)
EXTENDS SkillInstaller

CONSTANTS
    MaxOthers,  \* bound: changes by other programs and runs of status
    MaxBeside   \* bound: commands that have not ended when status begins

VARIABLE st

NoHash == <<NoFile>>

Waiting == [at |-> "idle", target |-> Targets[1], list |-> <<>>, read |-> <<>>,
            canon |-> NoHash,   \* CanonicalHash
            hashed |-> FALSE,   \* whether InstalledHash is not ""
            shown |-> "none",
            touched |-> {}]     \* history: what changed since status looked there

StatusInit == Init /\ st = Waiting

\* The place being hashed.
Root == IF st.at = "canon" THEN src ELSE st.target

\* What is printed for the target.
Prints(how, hashed) ==
    st' = [st EXCEPT !.at = "done", !.list = <<>>, !.read = <<>>, !.canon = NoHash,
                     !.hashed = hashed, !.shown = how]

\* A walk has ended with this hash.
Hashed(hash) ==
    IF st.at = "canon"
    THEN st' = [st EXCEPT !.at = "stat", !.list = <<>>, !.read = <<>>, !.canon = hash]
    ELSE Prints(IF hash \in {NoHash, st.canon} THEN "no" ELSE "YES", hash # NoHash)

\* Bound: which commands status meets.  Those that have ended may have overlapped.
FewBeside ==
    /\ Cardinality({p \in Commands : cmd[p].at \notin {"ok", "error"}}) <= MaxBeside
    /\ \A p \in Commands : Active(p) => cmd[p].touched = {}

\* The source is hashed first.
StatusBegin ==
    /\ st.at = "idle"
    /\ FewBeside
    /\ IF disk[src].dir
       THEN \E l \in Listings(src) : st' = [st EXCEPT !.at = "canon", !.list = l]
       ELSE st' = [st EXCEPT !.at = "stat"]

\* Then target after target is looked at; as this only reads, the model follows
\* status to one of them.  os.Stat, where any error is "absent", and the walk begins.
StatusStat ==
    /\ st.at = "stat"
    /\ \/ Prints("absent", FALSE)
       \/ \E t \in AllTargets : \E l \in Listings(t) :
            /\ disk[t].dir
            /\ st' = [st EXCEPT !.at = "walk", !.target = t, !.list = l]

Walking == st.at \in {"canon", "walk"}

ReadTop ==                                                \* mutant of Read
    /\ Walking /\ st.list # <<>>
    /\ Has(Root, Head(st.list))
    /\ st' = [st EXCEPT !.list = Tail(@),
                        !.read = IF Head(st.list) = "agents/openai.yaml" THEN @
                                 ELSE Append(@, disk[Root].files[Head(st.list)])]
\* computeFileHash of the next file.
Read ==
    /\ Walking /\ st.list # <<>>
    /\ Has(Root, Head(st.list))
    /\ st' = [st EXCEPT !.list = Tail(@),
                        !.read = Append(@, disk[Root].files[Head(st.list)])]

\* agents/ is there without its file.
WalkEmpty ==
    /\ Walking /\ st.list # <<>>
    /\ Head(st.list) = "agents/openai.yaml" /\ ~Has(Root, Head(st.list))
    /\ st' = [st EXCEPT !.list = Tail(@)]

WalkEnds == Walking /\ st.list = <<>> /\ Hashed(st.read)

\* A file or a directory is gone, or cannot be read.
WalkFails == Walking /\ Hashed(NoHash)

Status == StatusBegin \/ StatusStat \/ Read \/ WalkEmpty \/ WalkEnds \/ WalkFails

\* The places whose changes status could miss.
Watched == {src} \union (IF st.at = "walk" THEN {st.target} ELSE {})

\* Meanwhile a command or another program goes on.
Meanwhile ==
    /\ st.at # "done"
    /\ Next
    /\ st' = IF st.at = "idle" THEN st
             ELSE [st EXCEPT !.touched =
                     @ \union {x \in Watched : disk'[x] # disk[x]}]

StatusNext == /\ Meanwhile \/ (Status /\ UNCHANGED vars)
              /\ edits' + (IF st'.at = "idle" THEN 0 ELSE 1) <= MaxOthers

StatusSpec == StatusInit /\ [][StatusNext]_<<vars, st>>

----------------------------------------------------------------------------

\* Whatever commands have left at a target, interrupted or overlapping, a "no"
\* that rests on a hash says that the source's files are all there and no
\* others, unless the source changed since its hash was begun or the target
\* since its own was.  A "no" for a target that could not be hashed, because a
\* file cannot be read or another command is removing it, says nothing; nor does
\* status notice a file renamed by somebody else.
CurrentIsComplete ==
    /\ st.shown = "no" /\ st.hashed
    /\ {src, st.target} \intersect (st.touched \union edited) = {}
    => disk[st.target] = disk[src]

=============================================================================
