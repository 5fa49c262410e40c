---------------------------- MODULE SkillProofs ----------------------------
(***************************************************************************)
(* Proofs about SkillInstaller, for any number of commands, of targets and *)
(* of changes by other programs.                                           *)
(*                                                                         *)
(* What a command knows of a place holds until somebody else changes it,   *)
(* and every such change is noted in `touched`: so the invariant says of   *)
(* each command, by where it is, what is at the places nobody touched, and *)
(* a step of anyone else only takes places out of what it says.            *)
(***************************************************************************)
EXTENDS SkillStatus, FiniteSetTheorems, TLAPS

Contents == {NoFile, Part} \union (Names \X Nat)
Dir == [dir : BOOLEAN, files : [Names -> Contents]]
Stages == {"idle", "stat", "remove", "make", "copy", "fill", "ok", "error"}
Command == [at : Stages, force : BOOLEAN, work : Seq(AllTargets), list : Seq(Names),
            data : Contents, targets : SUBSET AllTargets, skill : Dir,
            found : SUBSET AllTargets, changed : SUBSET AllTargets,
            touched : SUBSET Places]

SkillTypes == /\ src \in Places
              /\ disk \in [Places -> Dir]
              /\ edited \in SUBSET Places
              /\ cmd \in [Commands -> Command]

\* A directory that is not there has no files.
DiskOK == \A x \in Places : ~disk[x].dir => disk[x] = Absent

Distinct(w) == \A i, j \in DOMAIN w : w[i] = w[j] => i = j
Copying(p) == cmd[p].at \in {"copy", "fill"}

\* The targets a command has still to come to.
Todo(p) == IF cmd[p].at = "stat" THEN Range(cmd[p].work) ELSE Range(Tail(cmd[p].work))

\* How far it is.
WorkOK(p) ==
    /\ Active(p) => /\ cmd[p].work # <<>> /\ Distinct(cmd[p].work)
                    /\ Range(cmd[p].work) \subseteq cmd[p].targets
                    /\ cmd[p].changed \intersect Todo(p) = {}
                    /\ cmd[p].targets \subseteq cmd[p].changed \union Range(cmd[p].work)
    /\ cmd[p].changed \subseteq cmd[p].targets
    /\ Copying(p) => Dest(p) \in cmd[p].changed
    /\ cmd[p].at = "fill" => cmd[p].list # <<>>
    /\ cmd[p].at = "ok" => cmd[p].targets \subseteq cmd[p].changed

\* What it found, as long as nobody touched it.
FoundOK(p) ==
    /\ \A t \in cmd[p].found \ (cmd[p].changed \union cmd[p].touched) : disk[t].dir
    /\ cmd[p].at # "idle" /\ src \notin cmd[p].changed \union cmd[p].touched =>
          disk[src] = cmd[p].skill
    /\ Active(p) \/ cmd[p].at = "ok" \/ cmd[p].changed # {} =>
          /\ cmd[p].skill.dir /\ cmd[p].skill.files["SKILL.md"] # NoFile
          /\ src \in cmd[p].targets => src \in cmd[p].found

\* Only with --force does it change what it found.
ForceOK(p) ==
    /\ cmd[p].at = "remove" => cmd[p].force
    /\ ~cmd[p].force /\ cmd[p].at \in {"make", "copy", "fill"} /\ Dest(p) \in cmd[p].found =>
          Dest(p) \in cmd[p].touched
    /\ ~cmd[p].force =>
          cmd[p].changed \intersect (cmd[p].found \union {src}) \subseteq cmd[p].touched

\* When it has changed the source, it gets no further than the readback.
SourceOK(p) ==
    src \in cmd[p].changed \ cmd[p].touched =>
        /\ cmd[p].at # "ok"
        /\ Active(p) => /\ Dest(p) = src /\ cmd[p].at \in {"remove", "make", "copy"}
                        /\ cmd[p].at = "copy" =>
                              \A f \in Names : disk[src].files[f] = NoFile

\* What is at its destination: a file it has still to copy is the skill's, or
\* neither has it.
Expects(p, c, f) ==
    IF f \in Range(cmd[p].list) THEN cmd[p].skill.files[f] # NoFile \/ c = NoFile
    ELSE c = cmd[p].skill.files[f]
DestOK(p) ==
    /\ cmd[p].at = "make" /\ Dest(p) \notin cmd[p].touched => disk[Dest(p)] = Absent
    /\ Copying(p) /\ Own(p, Dest(p)) /\ Dest(p) # src =>
          /\ disk[Dest(p)].dir
          /\ \A f \in Names : Expects(p, disk[Dest(p)].files[f], f)
          /\ cmd[p].at = "fill" => /\ cmd[p].data = cmd[p].skill.files[Head(cmd[p].list)]
                                   /\ cmd[p].data # NoFile
                                   /\ Has(Dest(p), Head(cmd[p].list))

\* What is at the targets it has been to.
Done(p, S) == \A t \in S : Own(p, t) => disk[t] = cmd[p].skill
DoneOK(p) ==
    /\ Active(p) => Done(p, cmd[p].changed \ {Dest(p)})
    /\ cmd[p].at = "ok" => Done(p, cmd[p].changed)
    /\ \E x \in AllTargets : Done(p, cmd[p].changed \ {x})

CmdOK(p) == /\ cmd[p].at = "idle" => cmd[p] = Idle
            /\ WorkOK(p) /\ FoundOK(p) /\ ForceOK(p) /\ SourceOK(p) /\ DestOK(p) /\ DoneOK(p)

SkillInv == SkillTypes /\ DiskOK /\ \A p \in Commands : CmdOK(p)

\* What is in the files nobody edited, as long as the source was not.
Unedited == \A x \in Places \ edited, f \in Names :
                disk[x].files[f] \in {NoFile, Part, <<f, 0>>, <<f, 1>>}
SourceUnedited == \A f \in Names : disk[src].files[f] \in {NoFile, <<f, 1>>}
CopyUnedited(p) ==
    /\ cmd[p].at = "make" /\ Dest(p) = src => \A f \in Names : ~Has(src, f)
    /\ Copying(p) /\ Dest(p) = src => \A f \in Range(cmd[p].list) : ~Has(src, f)
    /\ cmd[p].at = "fill" => Dest(p) # src /\ cmd[p].data = <<Head(cmd[p].list), 1>>
EditInv == src \notin edited =>
               Unedited /\ SourceUnedited /\ \A p \in Commands : CopyUnedited(p)

----------------------------------------------------------------------------
(* Lists of targets, and commands.                                         *)

\* The first of a list, and the others.
LEMMA WorkList ==
    ASSUME NEW S, NEW w \in Seq(S), w # <<>>
    PROVE  /\ Head(w) \in S /\ Tail(w) \in Seq(S)
           /\ Range(w) = {Head(w)} \union Range(Tail(w))
           /\ Distinct(w) => Head(w) \notin Range(Tail(w)) /\ Distinct(Tail(w))
           /\ Len(w) = 1 => Range(Tail(w)) = {}
           /\ Len(w) # 1 => Tail(w) # <<>>
<1>1. /\ Len(w) \in Nat /\ Len(w) >= 1 /\ DOMAIN w = 1..Len(w) /\ Head(w) = w[1]
      /\ \A i \in 1..Len(w) : w[i] \in S
  OBVIOUS
<1>2. /\ Tail(w) \in Seq(S) /\ Len(Tail(w)) = Len(w) - 1
      /\ DOMAIN Tail(w) = 1..(Len(w) - 1)
      /\ \A i \in 1..(Len(w) - 1) : Tail(w)[i] = w[i + 1]
  BY <1>1
<1>3. \A i \in 1..Len(w) : i = 1 \/ (i - 1 \in 1..(Len(w) - 1) /\ i = (i - 1) + 1)
  BY <1>1
<1>4. \A i \in 1..(Len(w) - 1) : i + 1 \in 1..Len(w) /\ i + 1 # 1
  BY <1>1
<1>5. Range(w) = {Head(w)} \union Range(Tail(w))
  <2>1. ASSUME NEW x \in Range(w) PROVE x \in {Head(w)} \union Range(Tail(w))
    <3>1. PICK i \in 1..Len(w) : x = w[i]
      BY <1>1 DEF Range
    <3>2. CASE i = 1
      BY <1>1, <3>1, <3>2
    <3>3. CASE i # 1
      <4>1. Tail(w)[i - 1] = x /\ i - 1 \in DOMAIN Tail(w)
        BY <1>2, <1>3, <3>1, <3>3
      <4> QED BY <4>1 DEF Range
    <3> QED BY <3>2, <3>3
  <2>2. ASSUME NEW x \in {Head(w)} \union Range(Tail(w)) PROVE x \in Range(w)
    BY <1>1, <1>2, <1>4 DEF Range
  <2> QED BY <2>1, <2>2
<1>6. ASSUME Distinct(w) PROVE Head(w) \notin Range(Tail(w)) /\ Distinct(Tail(w))
  <2>1. \A i, j \in 1..Len(w) : w[i] = w[j] => i = j
    BY <1>1, <1>6 DEF Distinct
  <2>2. ASSUME NEW i \in 1..(Len(w) - 1) PROVE Tail(w)[i] # Head(w)
    BY <1>1, <1>2, <1>4, <2>1
  <2>3. ASSUME NEW i \in 1..(Len(w) - 1), NEW j \in 1..(Len(w) - 1), Tail(w)[i] = Tail(w)[j]
        PROVE  i = j
    <3>1. w[i + 1] = w[j + 1]
      BY <1>2, <2>3
    <3>2. i + 1 = j + 1
      BY <1>4, <2>1, <3>1
    <3> QED BY <3>2
  <2> QED BY <1>2, <2>2, <2>3 DEF Range, Distinct
<1>7. Len(w) = 1 => Range(Tail(w)) = {}
  BY <1>1, <1>2 DEF Range
<1>8. Len(w) # 1 => Tail(w) # <<>>
  <2>1. ASSUME Len(w) # 1 PROVE Len(Tail(w)) # 0
    BY <1>1, <1>2, <2>1
  <2> QED BY <2>1
<1> QED BY <1>1, <1>2, <1>5, <1>6, <1>7, <1>8

\* The targets: at least one, each once.
LEMMA TargetsListed ==
    /\ Targets \in Seq(AllTargets) /\ Targets # <<>> /\ Distinct(Targets)
    /\ Range(Targets) = AllTargets /\ AllTargets # {}
<1>1. Targets \in Seq(AllTargets) /\ Targets # <<>> /\ Distinct(Targets)
  BY TargetsAssumption DEF AllTargets, Distinct
<1>2. Head(Targets) \in AllTargets
  BY <1>1
<1> QED BY <1>1, <1>2 DEF AllTargets

\* Directories without files.
LEMMA Directories == Absent \in Dir /\ NoFile \in Contents /\ Part \in Contents /\ ~Absent.dir
BY DEF Absent, Dir, Contents

\* A file changes: the directory stays one.
LEMMA WithTypes ==
    ASSUME NEW d \in Dir, NEW f \in Names, NEW c \in Contents
    PROVE  /\ With(d, f, c) \in Dir /\ With(d, f, c).dir = d.dir
           /\ With(d, f, c).files[f] = c
           /\ \A g \in Names \ {f} : With(d, f, c).files[g] = d.files[g]
           /\ Created(d, f, c) \in Dir /\ Created(d, f, c).dir
           /\ Created(d, f, c).files = With(d, f, c).files
<1> DEFINE e == [d.files EXCEPT ![f] = c]
<1>1. d.dir \in BOOLEAN /\ d.files \in [Names -> Contents]
  BY DEF Dir
<1>2. /\ e \in [Names -> Contents] /\ e[f] = c /\ \A g \in Names \ {f} : e[g] = d.files[g]
  BY <1>1
<1>3. With(d, f, c) = [dir |-> d.dir, files |-> e]
  BY DEF With
<1>4. Created(d, f, c) = [dir |-> TRUE, files |-> e]
  BY DEF Created
<1> HIDE DEF e
<1>5. [dir |-> d.dir, files |-> e] \in Dir /\ [dir |-> TRUE, files |-> e] \in Dir
  BY <1>1, <1>2 DEF Dir
<1> QED BY <1>2, <1>3, <1>4, <1>5

\* One file in the walk, if it is there.
LEMMA OneFile ==
    ASSUME NEW x, NEW f \in Names
    PROVE  One(x, f) \in Seq(Names) /\ Range(One(x, f)) = IF Has(x, f) THEN {f} ELSE {}
<1>1. CASE Has(x, f)
  <2>1. One(x, f) = <<f>>
    BY <1>1 DEF One
  <2>2. <<f>> \in Seq(Names) /\ Range(<<f>>) = {f}
    BY DEF Range
  <2> QED BY <1>1, <2>1, <2>2
<1>2. CASE ~Has(x, f)
  <2>1. One(x, f) = <<>>
    BY <1>2 DEF One
  <2>2. <<>> \in Seq(Names) /\ Range(<<>>) = {}
    BY DEF Range
  <2> QED BY <1>2, <2>1, <2>2
<1> QED BY <1>1, <1>2

\* Two lists of files, one after the other.
LEMMA Concatenated ==
    ASSUME NEW s \in Seq(Names), NEW u \in Seq(Names)
    PROVE  s \o u \in Seq(Names) /\ Range(s \o u) = Range(s) \union Range(u)
<1>1. s \o u \in Seq(Names) /\ Len(s \o u) = Len(s) + Len(u)
      /\ Len(s) \in Nat /\ Len(u) \in Nat
      /\ DOMAIN s = 1..Len(s) /\ DOMAIN u = 1..Len(u)
      /\ DOMAIN (s \o u) = 1..(Len(s) + Len(u))
      /\ \A i \in 1..(Len(s) + Len(u)) :
            (s \o u)[i] = IF i <= Len(s) THEN s[i] ELSE u[i - Len(s)]
  OBVIOUS
<1>2. ASSUME NEW y \in Range(s \o u) PROVE y \in Range(s) \union Range(u)
  <2>1. PICK i \in 1..(Len(s) + Len(u)) : y = (s \o u)[i]
    BY <1>1, <1>2 DEF Range
  <2>2. CASE i <= Len(s)
    BY <1>1, <2>1, <2>2 DEF Range
  <2>3. CASE ~(i <= Len(s))
    <3>1. i - Len(s) \in 1..Len(u) /\ y = u[i - Len(s)]
      BY <1>1, <2>1, <2>3
    <3> QED BY <1>1, <3>1 DEF Range
  <2> QED BY <2>2, <2>3
<1>3. ASSUME NEW y \in Range(s) PROVE y \in Range(s \o u)
  <2>1. PICK i \in 1..Len(s) : y = s[i]
    BY <1>1, <1>3 DEF Range
  <2>2. i \in 1..(Len(s) + Len(u)) /\ (s \o u)[i] = y
    BY <1>1, <2>1
  <2> QED BY <1>1, <2>2 DEF Range
<1>4. ASSUME NEW y \in Range(u) PROVE y \in Range(s \o u)
  <2>1. PICK i \in 1..Len(u) : y = u[i]
    BY <1>1, <1>4 DEF Range
  <2>2. i + Len(s) \in 1..(Len(s) + Len(u)) /\ (s \o u)[i + Len(s)] = u[(i + Len(s)) - Len(s)]
    BY <1>1, <2>1
  <2>3. (i + Len(s)) - Len(s) = i
    BY <1>1, <2>1
  <2> QED BY <1>1, <2>1, <2>2, <2>3 DEF Range
<1> QED BY <1>1, <1>2, <1>3, <1>4

\* The list of a directory: the files it has.
LEMMA PresentFiles ==
    ASSUME SkillTypes, NEW x \in Places
    PROVE  Present(x) \in Seq(Names) /\ Range(Present(x)) = {f \in Names : Has(x, f)}
<1> DEFINE a == One(x, "SKILL.bak")
           b == One(x, "SKILL.md")
           c == One(x, "agents/openai.yaml")
<1>1. /\ a \in Seq(Names) /\ b \in Seq(Names) /\ c \in Seq(Names)
      /\ Range(a) = IF Has(x, "SKILL.bak") THEN {"SKILL.bak"} ELSE {}
      /\ Range(b) = IF Has(x, "SKILL.md") THEN {"SKILL.md"} ELSE {}
      /\ Range(c) = IF Has(x, "agents/openai.yaml") THEN {"agents/openai.yaml"} ELSE {}
  <2>1. "SKILL.bak" \in Names /\ "SKILL.md" \in Names /\ "agents/openai.yaml" \in Names
    BY DEF Names
  <2> QED BY <2>1, OneFile
<1> HIDE DEF a, b, c
<1>4. Present(x) = (a \o b) \o c
  BY DEF Present, a, b, c
<1>5. a \o b \in Seq(Names) /\ Range(a \o b) = Range(a) \union Range(b)
  BY <1>1, Concatenated
<1>6. Present(x) \in Seq(Names) /\ Range(Present(x)) = Range(a \o b) \union Range(c)
  BY <1>1, <1>4, <1>5, Concatenated
<1> QED BY <1>1, <1>5, <1>6 DEF Names

\* A walk lists the files there are, and at most agents/ besides.
LEMMA Listed ==
    ASSUME SkillTypes, NEW x \in Places, NEW l \in Listings(x)
    PROVE  l \in Seq(Names) /\ \A f \in Names : Has(x, f) => f \in Range(l)
<1>1. Present(x) \in Seq(Names) /\ Range(Present(x)) = {f \in Names : Has(x, f)}
  BY PresentFiles
<1>2. CASE l = Present(x)
  BY <1>1, <1>2
<1>3. CASE l # Present(x)
  <2>1. PICK f \in {"agents/openai.yaml"} : l = Append(Present(x), f)
    BY <1>3 DEF Listings
  <2>2. f \in Names
    BY DEF Names
  <2>3. <<f>> \in Seq(Names) /\ l = Present(x) \o <<f>>
    BY <1>1, <2>1, <2>2
  <2>4. l \in Seq(Names) /\ Range(l) = Range(Present(x)) \union Range(<<f>>)
    BY <1>1, <2>3, Concatenated
  <2> QED BY <1>1, <2>4
<1> QED BY <1>2, <1>3

----------------------------------------------------------------------------
(* What a step leaves alone.                                               *)

\* A command goes on where it was, and knows of the places others changed.
Stays(q) ==
    /\ cmd'[q].at = cmd[q].at /\ cmd'[q].force = cmd[q].force
    /\ cmd'[q].work = cmd[q].work /\ cmd'[q].list = cmd[q].list
    /\ cmd'[q].data = cmd[q].data /\ cmd'[q].targets = cmd[q].targets
    /\ cmd'[q].skill = cmd[q].skill /\ cmd'[q].found = cmd[q].found
    /\ cmd'[q].changed = cmd[q].changed
    /\ cmd[q].touched \subseteq cmd'[q].touched
    /\ \A x \in Places \ cmd'[q].touched : disk'[x] = disk[x]

\* What a command knows stays true while others take places out of it.
LEMMA StaysOK ==
    ASSUME SkillTypes, NEW q \in Commands, CmdOK(q), cmd[q].at # "idle", src' = src, Stays(q)
    PROVE  CmdOK(q)'
<1>0. cmd[q] \in Command /\ src \in Places /\ AllTargets \subseteq Places
  BY DEF SkillTypes, Places
<1>1. /\ cmd[q].work \in Seq(AllTargets) /\ cmd[q].changed \subseteq AllTargets
      /\ cmd[q].found \subseteq AllTargets
  BY <1>0 DEF Command
<1>2. /\ Active(q)' = Active(q) /\ Copying(q)' = Copying(q) /\ Dest(q)' = Dest(q)
      /\ Todo(q)' = Todo(q)
  BY DEF Stays, Active, Copying, Dest, Todo
<1>3. \A t \in Places : Own(q, t)' => Own(q, t) /\ disk'[t] = disk[t] /\ disk'[src] = disk[src]
  BY <1>0 DEF Own, Stays
<1>4. WorkOK(q)'
  BY <1>2 DEF CmdOK, WorkOK, Stays
<1>5. FoundOK(q)'
  <2>1. ASSUME NEW t \in cmd'[q].found \ (cmd'[q].changed \union cmd'[q].touched)
        PROVE  disk'[t].dir
    <3>1. t \in Places /\ t \in cmd[q].found \ (cmd[q].changed \union cmd[q].touched)
      BY <1>0, <1>1, <2>1 DEF Stays
    <3>2. disk'[t] = disk[t]
      BY <2>1, <3>1 DEF Stays
    <3> QED BY <3>1, <3>2 DEF CmdOK, FoundOK
  <2>2. src' \notin cmd'[q].changed \union cmd'[q].touched => disk'[src'] = cmd'[q].skill
    BY <1>0 DEF CmdOK, FoundOK, Stays
  <2>3. Active(q)' \/ cmd'[q].at = "ok" \/ cmd'[q].changed # {} =>
          /\ cmd'[q].skill.dir /\ cmd'[q].skill.files["SKILL.md"] # NoFile
          /\ src' \in cmd'[q].targets => src' \in cmd'[q].found
    BY <1>2 DEF CmdOK, FoundOK, Stays
  <2> QED BY <2>1, <2>2, <2>3 DEF FoundOK
<1>6. ForceOK(q)'
  BY <1>2 DEF CmdOK, ForceOK, Stays
<1>7. SourceOK(q)'
  BY <1>0, <1>2 DEF CmdOK, SourceOK, Stays
<1>8. DestOK(q)'
  <2>1. cmd[q].work # <<>> /\ Active(q) => Dest(q) \in Places
    BY <1>0, <1>1 DEF Dest
  <2>2. Active(q) => Dest(q) \in Places
    BY <2>1 DEF CmdOK, WorkOK
  <2>3. cmd'[q].at = "make" /\ Dest(q)' \notin cmd'[q].touched => disk'[Dest(q)'] = Absent
    <3>1. cmd[q].at = "make" => Active(q)
      BY DEF Active
    <3> QED BY <1>2, <2>2, <3>1 DEF CmdOK, DestOK, Stays
  <2>4. ASSUME Copying(q)', Own(q, Dest(q))', Dest(q)' # src'
        PROVE  /\ disk'[Dest(q)'].dir
               /\ \A f \in Names : Expects(q, disk[Dest(q)].files[f], f)'
               /\ cmd'[q].at = "fill" =>
                     /\ cmd'[q].data = cmd'[q].skill.files[Head(cmd'[q].list)]
                     /\ cmd'[q].data # NoFile
                     /\ disk'[Dest(q)'].files[Head(cmd'[q].list)] # NoFile
    <3>1. Copying(q) /\ Active(q) /\ Dest(q) # src
      BY <1>2, <2>4 DEF Copying, Active
    <3>2. Own(q, Dest(q)) /\ disk'[Dest(q)] = disk[Dest(q)]
      BY <1>0, <1>2, <2>2, <2>4, <3>1 DEF Own, Stays
    <3> QED BY <1>2, <3>1, <3>2 DEF CmdOK, DestOK, Expects, Stays, Has
  <2> QED BY <2>3, <2>4 DEF DestOK, Has
<1>9. DoneOK(q)'
  <2>1. ASSUME NEW S \in SUBSET AllTargets, Done(q, S)
        PROVE  \A t \in S : Own(q, t)' => disk'[t] = cmd'[q].skill
    BY <1>0, <1>3, <2>1 DEF Done, Stays
  <2>2. Active(q) => \A t \in cmd[q].changed \ {Dest(q)} : Own(q, t)' => disk'[t] = cmd'[q].skill
    BY <1>1, <2>1 DEF CmdOK, DoneOK
  <2>3. cmd[q].at = "ok" => \A t \in cmd[q].changed : Own(q, t)' => disk'[t] = cmd'[q].skill
    BY <1>1, <2>1 DEF CmdOK, DoneOK
  <2>4. PICK x \in AllTargets : Done(q, cmd[q].changed \ {x})
    BY DEF CmdOK, DoneOK
  <2>5. \A t \in cmd[q].changed \ {x} : Own(q, t)' => disk'[t] = cmd'[q].skill
    BY <1>1, <2>1, <2>4
  <2> QED BY <1>2, <2>2, <2>3, <2>5 DEF DoneOK, Done, Stays
<1> QED BY <1>4, <1>5, <1>6, <1>7, <1>8, <1>9 DEF CmdOK, Stays

\* A command that has not begun knows nothing.
LEMMA IdleOK ==
    ASSUME NEW q \in Commands, cmd[q] = Idle
    PROVE  CmdOK(q)
<1>1. /\ cmd[q].at = "idle" /\ cmd[q].changed = {} /\ cmd[q].found = {} /\ cmd[q].targets = {}
      /\ ~cmd[q].force
  BY DEF Idle
<1>2. ~Active(q) /\ ~Copying(q)
  BY <1>1 DEF Active, Copying
<1>3. \E x \in AllTargets : Done(q, cmd[q].changed \ {x})
  BY <1>1, TargetsListed DEF Done
<1>4. WorkOK(q) /\ FoundOK(q)
  BY <1>1, <1>2 DEF WorkOK, FoundOK
<1>5. ForceOK(q) /\ SourceOK(q) /\ DestOK(q) /\ DoneOK(q)
  BY <1>1, <1>2, <1>3 DEF ForceOK, SourceOK, DestOK, DoneOK
<1> QED BY <1>4, <1>5 DEF CmdOK
\* A command that has not begun claims nothing.
LEMMA IdleStaysOK ==
    ASSUME NEW q \in Commands, cmd'[q] = Idle
    PROVE  CmdOK(q)'
<1>1. /\ cmd'[q].at = "idle" /\ cmd'[q].changed = {} /\ cmd'[q].found = {}
      /\ cmd'[q].targets = {} /\ ~cmd'[q].force
  BY DEF Idle
<1>2. ~Active(q)' /\ ~Copying(q)'
  BY <1>1 DEF Active, Copying
<1>3. (\E x \in AllTargets : Done(q, cmd[q].changed \ {x}))'
  BY <1>1, TargetsListed DEF Done
<1>4. WorkOK(q)' /\ FoundOK(q)'
  BY <1>1, <1>2 DEF WorkOK, FoundOK
<1>5. ForceOK(q)' /\ SourceOK(q)' /\ DestOK(q)' /\ DoneOK(q)'
  BY <1>1, <1>2, <1>3 DEF ForceOK, SourceOK, DestOK, DoneOK
<1> QED BY <1>4, <1>5 DEF CmdOK

\* Somebody changes a place.
LEMMA TouchedOK ==
    ASSUME SkillTypes, NEW q \in Commands, CmdOK(q), NEW x \in Places, src' = src,
           cmd'[q] = Touched(cmd[q], x), \A y \in Places \ {x} : disk'[y] = disk[y]
    PROVE  cmd'[q] \in Command /\ CmdOK(q)'
<1>0. cmd[q] \in Command
  BY DEF SkillTypes
<1>1. CASE cmd[q].at = "idle"
  <2>1. cmd'[q] = Idle /\ cmd'[q] = cmd[q]
    BY <1>1 DEF Touched, CmdOK
  <2> QED BY <1>0, <2>1, IdleStaysOK
<1>2. CASE cmd[q].at # "idle"
  <2>1. cmd'[q] = [cmd[q] EXCEPT !.touched = cmd[q].touched \union {x}]
    BY <1>2 DEF Touched
  <2>2. cmd[q].touched \union {x} \in SUBSET Places
    BY <1>0 DEF Command
  <2>3. cmd'[q] \in Command /\ cmd'[q].touched = cmd[q].touched \union {x}
    BY <1>0, <2>1, <2>2 DEF Command
  <2>4. Stays(q)
    BY <1>0, <2>1, <2>3 DEF Command, Stays
  <2> QED BY <1>2, <2>3, <2>4, StaysOK
<1> QED BY <1>1, <1>2

\* p goes on, and nothing changes on the disk.
LEMMA GoesKeeps ==
    ASSUME SkillInv, NEW p \in Commands, NEW r \in Command, Goes(p, r), CmdOK(p)'
    PROVE  SkillInv'
<1>1. /\ cmd' = [cmd EXCEPT ![p] = r] /\ src' = src /\ disk' = disk /\ edited' = edited
  BY DEF Goes
<1>2. SkillTypes'
  BY <1>1 DEF SkillInv, SkillTypes
<1>3. DiskOK'
  BY <1>1 DEF SkillInv, DiskOK
<1>4. ASSUME NEW q \in Commands, q # p PROVE CmdOK(q)'
  <2>1. cmd'[q] = cmd[q]
    BY <1>1, <1>4 DEF SkillInv, SkillTypes
  <2>2. CASE cmd[q].at = "idle"
    BY <2>1, <2>2, IdleStaysOK DEF SkillInv, CmdOK
  <2>3. CASE cmd[q].at # "idle"
    BY <1>1, <2>1, <2>3, StaysOK DEF SkillInv, Stays
  <2> QED BY <2>2, <2>3
<1> QED BY <1>2, <1>3, <1>4 DEF SkillInv

\* p goes on, and its destination changes.
LEMMA ChangesKeeps ==
    ASSUME SkillInv, NEW p \in Commands, Dest(p) \in AllTargets, NEW r \in Command,
           NEW d \in Dir, d.dir \/ d = Absent, Changes(p, r, d), CmdOK(p)'
    PROVE  SkillInv'
<1>0. Dest(p) \in Places /\ SkillTypes
  BY DEF Places, SkillInv
<1>1. /\ disk' = [disk EXCEPT ![Dest(p)] = d] /\ src' = src /\ edited' = edited
      /\ cmd' = [q \in Commands |->
                    IF q = p THEN [r EXCEPT !.changed = r.changed \union {Dest(p)}]
                    ELSE Touched(cmd[q], Dest(p))]
  BY DEF Changes
<1>2. disk' \in [Places -> Dir] /\ disk'[Dest(p)] = d
      /\ \A x \in Places \ {Dest(p)} : disk'[x] = disk[x]
  BY <1>0, <1>1 DEF SkillTypes
<1>3. ASSUME NEW q \in Commands, q # p PROVE cmd'[q] \in Command /\ CmdOK(q)'
  <2>1. cmd'[q] = Touched(cmd[q], Dest(p))
    BY <1>1, <1>3
  <2> QED BY <1>0, <1>1, <1>2, <2>1, TouchedOK DEF SkillInv
<1>4. cmd'[p] \in Command
  <2>1. cmd'[p] = [r EXCEPT !.changed = r.changed \union {Dest(p)}]
    BY <1>1
  <2>2. r.changed \union {Dest(p)} \in SUBSET AllTargets
    BY DEF Command
  <2> QED BY <2>1, <2>2 DEF Command
<1>5. cmd' \in [Commands -> Command]
  BY <1>1, <1>3, <1>4
<1>6. SkillTypes'
  BY <1>0, <1>1, <1>2, <1>5 DEF SkillTypes
<1>7. DiskOK'
  BY <1>2 DEF SkillInv, DiskOK
<1> QED BY <1>3, <1>6, <1>7 DEF SkillInv

\* Other programs.
LEMMA WritesKeeps ==
    ASSUME SkillInv, NEW x \in Places, NEW d \in Dir, d.dir, Writes(x, d)
    PROVE  SkillInv'
<1>1. /\ disk' = [disk EXCEPT ![x] = d] /\ src' = src /\ edited' = edited \union {x}
      /\ cmd' = [q \in Commands |-> Touched(cmd[q], x)] /\ SkillTypes
  BY DEF Writes, SkillInv
<1>2. disk' \in [Places -> Dir] /\ disk'[x] = d
      /\ \A y \in Places \ {x} : disk'[y] = disk[y]
  BY <1>1 DEF SkillTypes
<1>3. ASSUME NEW q \in Commands PROVE cmd'[q] \in Command /\ CmdOK(q)'
  <2>1. cmd'[q] = Touched(cmd[q], x)
    BY <1>1
  <2> QED BY <1>1, <1>2, <2>1, TouchedOK DEF SkillInv
<1>4. cmd' \in [Commands -> Command]
  BY <1>1, <1>3
<1>5. SkillTypes'
  BY <1>1, <1>2, <1>4 DEF SkillTypes
<1>6. DiskOK'
  BY <1>2 DEF SkillInv, DiskOK
<1> QED BY <1>3, <1>5, <1>6 DEF SkillInv

----------------------------------------------------------------------------
(* What each step of a command keeps.                                      *)

\* A command at work has a destination.
LEMMA AtWork ==
    ASSUME SkillInv, NEW p \in Commands, Active(p)
    PROVE  /\ SkillTypes /\ cmd[p] \in Command /\ CmdOK(p)
           /\ cmd[p].work \in Seq(AllTargets) /\ cmd[p].work # <<>>
           /\ Dest(p) \in AllTargets /\ Dest(p) \in Places /\ src \in Places
           /\ Dest(p) \in Range(cmd[p].work) /\ Dest(p) \notin Range(Tail(cmd[p].work))
           /\ disk[Dest(p)] \in Dir /\ disk[src] \in Dir
           /\ cmd[p].changed \in SUBSET AllTargets /\ cmd[p].touched \in SUBSET Places
           /\ cmd[p].list \in Seq(Names)
<1>1. SkillTypes /\ cmd[p] \in Command /\ CmdOK(p) /\ src \in Places
  BY DEF SkillInv, SkillTypes
<1>2. cmd[p].work \in Seq(AllTargets) /\ cmd[p].work # <<>> /\ Distinct(cmd[p].work)
  BY <1>1 DEF CmdOK, WorkOK, Command
<1>3. Dest(p) \in AllTargets /\ Dest(p) \in Places /\ Dest(p) \in Range(cmd[p].work)
      /\ Dest(p) \notin Range(Tail(cmd[p].work))
  BY <1>2, WorkList DEF Dest, Places
<1>4. /\ cmd[p].changed \in SUBSET AllTargets /\ cmd[p].touched \in SUBSET Places
      /\ cmd[p].list \in Seq(Names)
  BY <1>1 DEF Command
<1>5. disk[Dest(p)] \in Dir /\ disk[src] \in Dir
  BY <1>1, <1>3 DEF SkillTypes
<1> QED BY <1>1, <1>2, <1>3, <1>4, <1>5

\* A command that ends without success.
LEMMA EndsKeeps ==
    ASSUME SkillInv, NEW p \in Commands, Active(p), Ends(p, "error")
    PROVE  SkillInv'
<1> DEFINE r == [cmd[p] EXCEPT !.at = "error", !.work = <<>>, !.list = <<>>, !.data = NoFile]
<1>0. cmd[p] \in Command /\ cmd \in [Commands -> Command] /\ CmdOK(p)
  BY AtWork DEF SkillTypes
<1>1. r \in Command /\ Goes(p, r)
  <2>1. Goes(p, r)
    BY DEF Ends
  <2>2. "error" \in Stages /\ <<>> \in Seq(AllTargets) /\ <<>> \in Seq(Names)
    BY DEF Stages
  <2>3. r \in Command
    BY <1>0, <2>2, Directories DEF Command
  <2> QED BY <2>1, <2>3
<1>2. /\ cmd'[p].at = "error" /\ cmd'[p].force = cmd[p].force
      /\ cmd'[p].targets = cmd[p].targets /\ cmd'[p].skill = cmd[p].skill
      /\ cmd'[p].found = cmd[p].found /\ cmd'[p].changed = cmd[p].changed
      /\ cmd'[p].touched = cmd[p].touched /\ disk' = disk /\ src' = src
  BY <1>0 DEF Ends, Goes, Command
<1>3. ~Active(p)' /\ ~Copying(p)'
  BY <1>2 DEF Active, Copying
<1>4. WorkOK(p)' /\ FoundOK(p)'
  <2>1. WorkOK(p)'
    BY <1>0, <1>2, <1>3 DEF CmdOK, WorkOK
  <2>2. cmd[p].at # "idle"
    BY DEF Active
  <2>3. FoundOK(p)'
    BY <1>0, <1>2, <1>3, <2>2 DEF CmdOK, FoundOK
  <2> QED BY <2>1, <2>3
<1>5. ForceOK(p)' /\ SourceOK(p)' /\ DestOK(p)'
  BY <1>0, <1>2, <1>3 DEF CmdOK, ForceOK, SourceOK, DestOK
<1>6. DoneOK(p)'
  BY <1>0, <1>2, <1>3 DEF CmdOK, DoneOK, Done, Own
<1>7. CmdOK(p)'
  BY <1>2, <1>4, <1>5, <1>6 DEF CmdOK
<1> HIDE DEF r
<1> QED BY <1>1, <1>7, GoesKeeps

\* A command begins with a skill that is one, or fails.
LEMMA BeginKeeps ==
    ASSUME SkillInv, NEW p \in Commands, Begin(p)
    PROVE  SkillInv'
<1>0. /\ SkillTypes /\ cmd[p] = Idle /\ src \in Places /\ disk[src] \in Dir
      /\ cmd \in [Commands -> Command] /\ \A t \in AllTargets : disk[t] \in Dir
  BY DEF Begin, SkillInv, CmdOK, SkillTypes, Places
<1> DEFINE a == IF disk[src].dir /\ Has(src, "SKILL.md") THEN "stat" ELSE "error"
<1>1. PICK l \in TargetLists, force \in BOOLEAN :
         Goes(p, [Idle EXCEPT !.at = a, !.force = force, !.work = l, !.targets = Range(l),
                              !.found = {t \in Range(l) : disk[t].dir}, !.skill = disk[src]])
  BY DEF Begin
<1>2. l \in Seq(AllTargets) /\ l # <<>> /\ Distinct(l) /\ Range(l) \in SUBSET AllTargets
  <2>1. ASSUME NEW t \in AllTargets PROVE /\ <<t>> \in Seq(AllTargets) /\ <<t>> # <<>>
                                          /\ Distinct(<<t>>) /\ Range(<<t>>) \in SUBSET AllTargets
    BY DEF Distinct, Range
  <2> QED BY <2>1, TargetsListed DEF TargetLists
<1> DEFINE F == {t \in Range(l) : disk[t].dir}
           r == [Idle EXCEPT !.at = a, !.force = force, !.work = l, !.targets = Range(l),
                             !.found = F, !.skill = disk[src]]
<1>3. Goes(p, r)
  BY <1>1
<1>4. r \in Command
  <2>1. a \in Stages /\ F \in SUBSET AllTargets
    BY <1>2 DEF Stages
  <2>2. Idle \in Command
    BY Directories DEF Idle, Command, Stages
  <2> HIDE DEF a, F
  <2> QED BY <1>0, <1>2, <2>1, <2>2 DEF Command
<1>5. cmd'[p] = r /\ disk' = disk /\ src' = src
  BY <1>0, <1>3 DEF Goes
<1>6. /\ cmd'[p].at = a /\ cmd'[p].force = force /\ cmd'[p].work = l /\ cmd'[p].list = <<>>
      /\ cmd'[p].targets = Range(l) /\ cmd'[p].skill = disk[src]
      /\ cmd'[p].found = F /\ cmd'[p].changed = {} /\ cmd'[p].touched = {}
  <2> HIDE DEF a, F
  <2> QED BY <1>5 DEF Idle
<1> HIDE DEF r
<1>7. a \in {"stat", "error"} /\ (a = "stat" => disk[src].dir /\ Has(src, "SKILL.md"))
  OBVIOUS
<1> HIDE DEF a
<1>8. ~Copying(p)' /\ Active(p)' = (a = "stat") /\ cmd'[p].at # "ok" /\ cmd'[p].at # "idle"
  BY <1>6, <1>7 DEF Active, Copying
<1>9. WorkOK(p)'
  <2>1. Active(p)' => (Todo(p) = Range(l))'
    BY <1>6, <1>8 DEF Todo
  <2> QED BY <1>2, <1>6, <1>7, <1>8, <2>1 DEF WorkOK
<1>10. FoundOK(p)'
  BY <1>5, <1>6, <1>7, <1>8 DEF FoundOK, Has
<1>11. ForceOK(p)' /\ SourceOK(p)' /\ DestOK(p)'
  BY <1>6, <1>7, <1>8 DEF ForceOK, SourceOK, DestOK
<1>12. DoneOK(p)'
  BY <1>6, <1>8, TargetsListed DEF DoneOK, Done
<1>13. CmdOK(p)'
  BY <1>8, <1>9, <1>10, <1>11, <1>12 DEF CmdOK
<1> QED BY <1>3, <1>4, <1>13, GoesKeeps

\* Without --force a target that is there ends the command.
LEMMA StatKeeps ==
    ASSUME SkillInv, NEW p \in Commands, Stat(p)
    PROVE  SkillInv'
<1>0. cmd[p].at = "stat" /\ Active(p)
  BY DEF Stat, Active
<1>1. CASE Refused(p)
  BY <1>0, <1>1, EndsKeeps DEF Stat
<1>2. CASE ~Refused(p)
  <2> DEFINE a == IF disk[Dest(p)].dir THEN "remove" ELSE "make"
             r == [cmd[p] EXCEPT !.at = a]
  <2>1. Goes(p, r)
    BY <1>0, <1>2 DEF Stat
  <2>2. /\ cmd[p] \in Command /\ cmd \in [Commands -> Command] /\ CmdOK(p)
        /\ a \in {"remove", "make"}
        /\ a = "remove" => cmd[p].force
        /\ a = "make" => ~disk[Dest(p)].dir
    BY <1>0, <1>2, AtWork DEF SkillTypes, Refused
  <2> HIDE DEF a
  <2>3. r \in Command
    BY <2>2 DEF Command, Stages
  <2>4. /\ cmd'[p].at = a /\ cmd'[p].force = cmd[p].force /\ cmd'[p].work = cmd[p].work
        /\ cmd'[p].list = cmd[p].list
        /\ cmd'[p].targets = cmd[p].targets /\ cmd'[p].skill = cmd[p].skill
        /\ cmd'[p].found = cmd[p].found /\ cmd'[p].changed = cmd[p].changed
        /\ cmd'[p].touched = cmd[p].touched /\ disk' = disk /\ src' = src
    BY <2>1, <2>2 DEF Goes, Command
  <2> HIDE DEF r
  <2>5. Active(p)' /\ ~Copying(p)' /\ Dest(p)' = Dest(p)
    BY <2>2, <2>4 DEF Active, Copying, Dest
  <2>6. /\ Dest(p) \notin cmd[p].changed /\ Dest(p) \in cmd[p].targets
        /\ cmd[p].changed \intersect Range(Tail(cmd[p].work)) = {}
    <3>1. cmd[p].changed \intersect Range(cmd[p].work) = {}
      BY <1>0, <2>2 DEF CmdOK, WorkOK, Todo
    <3>2. Range(Tail(cmd[p].work)) \subseteq Range(cmd[p].work)
      BY <1>0, AtWork, WorkList
    <3>3. Dest(p) \in Range(cmd[p].work) /\ Range(cmd[p].work) \subseteq cmd[p].targets
      BY <1>0, <2>2, AtWork DEF CmdOK, WorkOK
    <3> QED BY <3>1, <3>2, <3>3
  <2>7. WorkOK(p)'
    <3>1. (Todo(p) = Range(Tail(cmd[p].work)))'
      BY <2>2, <2>4 DEF Todo
    <3> QED BY <1>0, <2>2, <2>4, <2>5, <2>6, <3>1 DEF CmdOK, WorkOK
  <2>8. FoundOK(p)'
    BY <1>0, <2>2, <2>4, <2>5 DEF CmdOK, FoundOK
  <2>9. ForceOK(p)'
    <3>1. a = "make" /\ Dest(p) \in cmd[p].found => Dest(p) \in cmd[p].touched
      BY <2>2, <2>6 DEF CmdOK, FoundOK
    <3> QED BY <2>2, <2>4, <2>5, <3>1 DEF CmdOK, ForceOK
  <2>10. SourceOK(p)'
    <3>1. ~(src \in cmd[p].changed \ cmd[p].touched)
      BY <1>0, <2>2 DEF CmdOK, SourceOK
    <3> QED BY <2>4, <3>1 DEF SourceOK
  <2>11. DestOK(p)'
    <3>1. a = "make" => disk[Dest(p)] = Absent
      BY <1>0, <2>2, AtWork DEF SkillInv, DiskOK
    <3> QED BY <2>4, <2>5, <3>1 DEF DestOK
  <2>12. DoneOK(p)'
    <3>1. ~(cmd'[p].at = "ok")
      BY <2>2, <2>4
    <3> QED BY <1>0, <2>2, <2>4, <2>5, <3>1 DEF CmdOK, DoneOK, Done, Own
  <2>13. CmdOK(p)'
    BY <2>5, <2>7, <2>8, <2>9, <2>10, <2>11, <2>12 DEF CmdOK, Active
  <2> QED BY <2>1, <2>3, <2>13, GoesKeeps
<1> QED BY <1>1, <1>2

\* A step at the destination that goes on.
Moves(p) ==
    /\ cmd'[p].force = cmd[p].force /\ cmd'[p].work = cmd[p].work
    /\ cmd'[p].targets = cmd[p].targets /\ cmd'[p].skill = cmd[p].skill
    /\ cmd'[p].found = cmd[p].found /\ cmd'[p].touched = cmd[p].touched
    /\ cmd'[p].changed = cmd[p].changed \union {Dest(p)}
    /\ src' = src /\ \A x \in Places \ {Dest(p)} : disk'[x] = disk[x]

LEMMA MovesOK ==
    ASSUME SkillInv, NEW p \in Commands, Active(p), cmd[p].at # "stat", Moves(p),
           cmd'[p].at \in {"remove", "make", "copy", "fill"},
           cmd'[p].at = "remove" => cmd[p].force,
           cmd'[p].at = "fill" => cmd'[p].list # <<>>
    PROVE  /\ Dest(p)' = Dest(p) /\ Active(p)' /\ cmd'[p].at # "idle"
           /\ WorkOK(p)' /\ FoundOK(p)' /\ ForceOK(p)' /\ DoneOK(p)'
<1>0. /\ CmdOK(p) /\ Dest(p) \in AllTargets /\ src \in Places /\ AllTargets \subseteq Places
      /\ cmd[p].at \in {"remove", "make", "copy", "fill"} /\ cmd[p].changed \in SUBSET AllTargets
      /\ Dest(p) \in Range(cmd[p].work) /\ Dest(p) \notin Range(Tail(cmd[p].work))
      /\ cmd[p].found \in SUBSET AllTargets
  BY AtWork DEF Places, Active, Command, Stages
<1>1. /\ Dest(p)' = Dest(p) /\ Active(p)' /\ cmd'[p].at # "idle" /\ cmd'[p].at # "ok"
      /\ (Todo(p) = Range(Tail(cmd[p].work)))' /\ Todo(p) = Range(Tail(cmd[p].work))
  BY <1>0 DEF Moves, Dest, Active, Todo
<1>2. Dest(p) \in cmd[p].targets
  BY <1>0 DEF CmdOK, WorkOK
<1>3. WorkOK(p)'
  BY <1>0, <1>1, <1>2 DEF CmdOK, WorkOK, Moves
<1>4. FoundOK(p)'
  <2>1. ASSUME NEW t \in cmd'[p].found \ (cmd'[p].changed \union cmd'[p].touched)
        PROVE  disk'[t].dir
    <3>1. /\ t \in cmd[p].found \ (cmd[p].changed \union cmd[p].touched)
          /\ t \in Places \ {Dest(p)}
      BY <1>0, <2>1 DEF Moves
    <3> QED BY <1>0, <3>1 DEF CmdOK, FoundOK, Moves
  <2>2. src' \notin cmd'[p].changed \union cmd'[p].touched => disk'[src'] = cmd'[p].skill
    BY <1>0 DEF CmdOK, FoundOK, Moves
  <2>3. /\ cmd'[p].skill.dir /\ cmd'[p].skill.files["SKILL.md"] # NoFile
        /\ src' \in cmd'[p].targets => src' \in cmd'[p].found
    BY <1>0 DEF CmdOK, FoundOK, Moves
  <2> QED BY <2>1, <2>2, <2>3 DEF FoundOK
<1>5. ForceOK(p)'
  <2>1. ~cmd[p].force /\ Dest(p) \in cmd[p].found => Dest(p) \in cmd[p].touched
    BY <1>0 DEF CmdOK, ForceOK
  <2>2. Dest(p) = src => Dest(p) \in cmd[p].found
    BY <1>0, <1>2 DEF CmdOK, FoundOK
  <2>3. ~cmd[p].force =>
          (cmd[p].changed \union {Dest(p)}) \intersect (cmd[p].found \union {src})
             \subseteq cmd[p].touched
    BY <1>0, <2>1, <2>2 DEF CmdOK, ForceOK
  <2>4. cmd'[p].at = "remove" => cmd'[p].force
    BY DEF Moves
  <2>5. ~cmd'[p].force /\ Dest(p)' \in cmd'[p].found => Dest(p)' \in cmd'[p].touched
    BY <1>1, <2>1 DEF Moves
  <2>6. ~cmd'[p].force =>
          cmd'[p].changed \intersect (cmd'[p].found \union {src'}) \subseteq cmd'[p].touched
    BY <2>3 DEF Moves
  <2> QED BY <2>4, <2>5, <2>6 DEF ForceOK
<1>6. DoneOK(p)'
  <2>1. Done(p, cmd[p].changed \ {Dest(p)})
    BY DEF CmdOK, DoneOK, SkillInv
  <2>2. \A t \in cmd[p].changed \ {Dest(p)} : Own(p, t)' => disk'[t] = cmd'[p].skill
    BY <1>0, <2>1 DEF Done, Own, Moves
  <2>3. cmd'[p].changed \ {Dest(p)} = cmd[p].changed \ {Dest(p)}
    BY DEF Moves
  <2>4. Done(p, cmd[p].changed \ {Dest(p)})'
    BY <1>1, <2>2, <2>3 DEF Done
  <2>5. Dest(p)' \in AllTargets
    BY <1>0, <1>1
  <2> QED BY <1>1, <2>4, <2>5 DEF DoneOK
<1> QED BY <1>1, <1>3, <1>4, <1>5, <1>6

\* While its destination is not the source, a command has not changed it.
LEMMA SourceKept ==
    ASSUME SkillInv, NEW p \in Commands, Active(p), src \notin cmd[p].touched, Dest(p) # src
    PROVE  src \notin cmd[p].changed /\ disk[src] = cmd[p].skill
BY DEF SkillInv, CmdOK, SourceOK, FoundOK, Active

\* A step that changes its destination is one.
LEMMA ChangesMoves ==
    ASSUME SkillInv, NEW p \in Commands, Active(p), NEW r \in Command,
           r.force = cmd[p].force, r.work = cmd[p].work, r.targets = cmd[p].targets,
           r.skill = cmd[p].skill, r.found = cmd[p].found, r.touched = cmd[p].touched,
           r.changed = cmd[p].changed, NEW d, Changes(p, r, d)
    PROVE  /\ Moves(p) /\ disk'[Dest(p)] = d /\ cmd'[p].at = r.at
           /\ cmd'[p].list = r.list /\ cmd'[p].data = r.data
<1>0. Dest(p) \in Places /\ SkillTypes
  BY AtWork
<1>1. /\ disk' = [disk EXCEPT ![Dest(p)] = d] /\ src' = src
      /\ cmd'[p] = [r EXCEPT !.changed = r.changed \union {Dest(p)}]
  BY DEF Changes
<1>2. disk'[Dest(p)] = d /\ \A x \in Places \ {Dest(p)} : disk'[x] = disk[x]
  BY <1>0, <1>1 DEF SkillTypes
<1>3. /\ cmd'[p].force = r.force /\ cmd'[p].work = r.work /\ cmd'[p].targets = r.targets
      /\ cmd'[p].skill = r.skill /\ cmd'[p].found = r.found /\ cmd'[p].touched = r.touched
      /\ cmd'[p].at = r.at /\ cmd'[p].list = r.list /\ cmd'[p].data = r.data
      /\ cmd'[p].changed = r.changed \union {Dest(p)}
  BY <1>1 DEF Command
<1>4. Moves(p)
  BY <1>1, <1>2, <1>3 DEF Moves
<1> QED BY <1>2, <1>3, <1>4

\* What is there is removed: when the last is gone, nothing is there.
LEMMA RemoveKeeps ==
    ASSUME SkillInv, NEW p \in Commands, RemoveAll(p)
    PROVE  SkillInv'
<1>0. cmd[p].at = "remove" /\ Active(p)
  BY DEF RemoveAll, Active
<1>1. /\ cmd[p] \in Command /\ CmdOK(p) /\ SkillTypes
      /\ Dest(p) \in AllTargets /\ Dest(p) \in Places /\ disk[Dest(p)] \in Dir
      /\ cmd[p].force /\ Dest(p) = Dest(p)
  BY <1>0, AtWork DEF CmdOK, ForceOK
<1>2. ASSUME NEW r \in Command, NEW d \in Dir, d.dir \/ d = Absent, Changes(p, r, d),
             r.force = cmd[p].force, r.work = cmd[p].work, r.targets = cmd[p].targets,
             r.skill = cmd[p].skill, r.found = cmd[p].found, r.touched = cmd[p].touched,
             r.changed = cmd[p].changed, r.at \in {"remove", "make"},
             r.at = "make" => d = Absent
      PROVE  SkillInv'
  <2>1. /\ Moves(p) /\ disk'[Dest(p)] = d /\ cmd'[p].at = r.at
        /\ cmd'[p].list = r.list /\ cmd'[p].data = r.data
    BY <1>0, <1>2, ChangesMoves
  <2>2. /\ cmd'[p].at \in {"remove", "make"} /\ cmd'[p].at # "ok"
        /\ cmd'[p].at = "make" => disk'[Dest(p)] = Absent
    BY <1>2, <2>1
  <2>3. /\ Dest(p)' = Dest(p) /\ Active(p)' /\ cmd'[p].at # "idle"
        /\ WorkOK(p)' /\ FoundOK(p)' /\ ForceOK(p)' /\ DoneOK(p)'
    BY <1>0, <1>1, <2>1, <2>2, MovesOK
  <2>4. src \in cmd[p].changed \ cmd[p].touched => Dest(p) = src
    BY <1>0, <1>1 DEF CmdOK, SourceOK
  <2>5. SourceOK(p)'
    BY <2>1, <2>2, <2>3, <2>4 DEF SourceOK, Moves
  <2>6. ~Copying(p)'
    BY <2>2 DEF Copying
  <2>7. DestOK(p)'
    BY <2>2, <2>3, <2>6 DEF DestOK
  <2>8. CmdOK(p)'
    BY <2>3, <2>5, <2>7 DEF CmdOK
  <2> QED BY <1>1, <1>2, <2>8, ChangesKeeps
<1>3. ASSUME NEW f \in Range(Present(Dest(p))),
             Changes(p, cmd[p], With(disk[Dest(p)], f, NoFile))
      PROVE  SkillInv'
  <2>1. f \in Names /\ Has(Dest(p), f)
    BY <1>1, PresentFiles
  <2>2. disk[Dest(p)].dir
    <3>1. ~disk[Dest(p)].dir => disk[Dest(p)].files[f] = NoFile
      BY <1>1, <2>1 DEF SkillInv, DiskOK, Absent
    <3> QED BY <2>1, <3>1 DEF Has
  <2>3. /\ With(disk[Dest(p)], f, NoFile) \in Dir
        /\ With(disk[Dest(p)], f, NoFile).dir = disk[Dest(p)].dir
    BY <1>1, <2>1, WithTypes, Directories
  <2>4. cmd[p].at \in {"remove", "make"} /\ cmd[p].at # "make"
    BY <1>0
  <2> QED BY <1>1, <1>2, <1>3, <2>2, <2>3, <2>4
<1>4. ASSUME Changes(p, [cmd[p] EXCEPT !.at = "make"], Absent)
      PROVE  SkillInv'
  <2> DEFINE r == [cmd[p] EXCEPT !.at = "make"]
  <2>1. "make" \in Stages
    BY DEF Stages
  <2>2. /\ r \in Command /\ r.at = "make"
        /\ r.force = cmd[p].force /\ r.work = cmd[p].work /\ r.targets = cmd[p].targets
        /\ r.skill = cmd[p].skill /\ r.found = cmd[p].found /\ r.touched = cmd[p].touched
        /\ r.changed = cmd[p].changed
    BY <1>1, <2>1 DEF Command
  <2>3. Changes(p, r, Absent)
    BY <1>4
  <2> HIDE DEF r
  <2> QED BY <1>2, <2>2, <2>3, Directories
<1> QED BY <1>3, <1>4 DEF RemoveAll

\* The destination is made where nothing is, and the source is listed.
LEMMA MakeKeeps ==
    ASSUME SkillInv, NEW p \in Commands, MakeDir(p)
    PROVE  SkillInv'
<1>0. cmd[p].at = "make" /\ Active(p)
  BY DEF MakeDir, Active
<1>1. /\ cmd[p] \in Command /\ CmdOK(p) /\ SkillTypes /\ src \in Places
      /\ Dest(p) \in AllTargets /\ Dest(p) \in Places /\ disk[Dest(p)] \in Dir
  BY <1>0, AtWork
<1>2. PICK s \in Listings(src) :
         Changes(p, [cmd[p] EXCEPT !.at = "copy", !.list = s],
                    [dir |-> TRUE, files |-> disk[Dest(p)].files])
  BY DEF MakeDir
<1>13. s \in Seq(Names) /\ \A f \in Names : Has(src, f) => f \in Range(s)
  BY <1>1, Listed
<1> DEFINE r == [cmd[p] EXCEPT !.at = "copy", !.list = s]
           d == [dir |-> TRUE, files |-> disk[Dest(p)].files]
<1>3. Changes(p, r, d)
  BY <1>2
<1>4. d \in Dir /\ d.dir /\ d.files = disk[Dest(p)].files
  <2>1. disk[Dest(p)].files \in [Names -> Contents]
    BY <1>1 DEF Dir
  <2> QED BY <2>1 DEF Dir
<1> HIDE DEF d
<1>5. "copy" \in Stages
  BY DEF Stages
<1>6. /\ r \in Command /\ r.at = "copy" /\ r.list = s
      /\ r.force = cmd[p].force /\ r.work = cmd[p].work /\ r.targets = cmd[p].targets
      /\ r.skill = cmd[p].skill /\ r.found = cmd[p].found /\ r.touched = cmd[p].touched
      /\ r.changed = cmd[p].changed
  BY <1>1, <1>13, <1>5 DEF Command
<1> HIDE DEF r
<1>7. /\ Moves(p) /\ disk'[Dest(p)] = d /\ cmd'[p].at = "copy" /\ cmd'[p].list = s
  BY <1>0, <1>3, <1>4, <1>6, ChangesMoves
<1>8. /\ Dest(p)' = Dest(p) /\ Active(p)' /\ cmd'[p].at # "idle"
      /\ WorkOK(p)' /\ FoundOK(p)' /\ ForceOK(p)' /\ DoneOK(p)'
  BY <1>0, <1>1, <1>7, MovesOK
<1>9. Dest(p) \notin cmd[p].touched => disk[Dest(p)] = Absent
  BY <1>0, <1>1 DEF CmdOK, DestOK
<1>10. SourceOK(p)'
  <2>1. ASSUME src \in cmd'[p].changed \ cmd'[p].touched
        PROVE  Dest(p) = src /\ \A f \in Names : disk'[src].files[f] = NoFile
    <3>1. Dest(p) = src
      BY <1>0, <1>1, <1>7, <2>1 DEF CmdOK, SourceOK, Moves
    <3>2. disk[src] = Absent
      BY <1>7, <1>9, <2>1, <3>1 DEF Moves
    <3>3. \A f \in Names : disk[src].files[f] = NoFile
      BY <3>2 DEF Absent
    <3> QED BY <1>4, <1>7, <3>1, <3>3
  <2>2. src' = src
    BY <1>7 DEF Moves
  <2>3. cmd'[p].at # "ok" /\ cmd'[p].at \in {"remove", "make", "copy"}
    BY <1>7
  <2> QED BY <1>7, <1>8, <2>1, <2>2, <2>3 DEF SourceOK
<1>11. DestOK(p)'
  <2>1. ASSUME Own(p, Dest(p))', Dest(p) # src
        PROVE  /\ disk'[Dest(p)].dir
               /\ \A f \in Names : Expects(p, disk[Dest(p)].files[f], f)'
    <3>1. Dest(p) \notin cmd[p].touched /\ src \notin cmd[p].touched
      BY <1>7, <1>8, <2>1 DEF Own, Moves
    <3>2. disk[src] = cmd[p].skill /\ disk[Dest(p)] = Absent
      BY <1>0, <1>9, <2>1, <3>1, SourceKept
    <3>3. \A f \in Names : disk'[Dest(p)].files[f] = NoFile
      BY <1>4, <1>7, <3>2 DEF Absent
    <3>4. cmd'[p].skill = disk[src]
      BY <1>7, <3>2 DEF Moves
    <3>5. \A f \in Names : disk[src].files[f] # NoFile => f \in Range(s)
      BY <1>13 DEF Has
    <3> QED BY <1>4, <1>7, <1>8, <3>3, <3>4, <3>5 DEF Expects
  <2>2. src' = src /\ cmd'[p].at # "make" /\ cmd'[p].at # "fill"
    BY <1>7 DEF Moves
  <2> QED BY <1>7, <1>8, <2>1, <2>2 DEF DestOK
<1>12. CmdOK(p)'
  BY <1>8, <1>10, <1>11 DEF CmdOK
<1> QED BY <1>1, <1>3, <1>4, <1>6, <1>12, ChangesKeeps

\* A file is opened: what it held is in the source, and its copy is cut off.
LEMMA OpenKeeps ==
    ASSUME SkillInv, NEW p \in Commands, Open(p)
    PROVE  SkillInv'
<1>0. cmd[p].at = "copy" /\ Active(p) /\ cmd[p].list # <<>>
  BY DEF Open, Active
<1>1. /\ cmd[p] \in Command /\ CmdOK(p) /\ SkillTypes /\ src \in Places
      /\ Dest(p) \in AllTargets /\ Dest(p) \in Places /\ disk[Dest(p)] \in Dir
      /\ disk[src] \in Dir /\ cmd[p].list \in Seq(Names)
  BY <1>0, AtWork
<1> DEFINE f == Head(cmd[p].list)
           c == IF src = Dest(p) THEN Part ELSE disk[src].files[f]
           r == [cmd[p] EXCEPT !.at = "fill", !.data = c]
           d == Created(disk[Dest(p)], f, Part)
<1>2. f \in Names /\ f \in Range(cmd[p].list) /\ c \in Contents /\ Has(src, f)
  <2>1. f \in Names /\ f \in Range(cmd[p].list)
    BY <1>0, <1>1, WorkList
  <2>2. disk[src].files \in [Names -> Contents]
    BY <1>1 DEF Dir
  <2> QED BY <2>1, <2>2, Directories DEF Open
<1>3. Changes(p, r, d)
  BY DEF Open
<1>4. /\ d \in Dir /\ d.dir /\ d.files[f] = Part
      /\ \A g \in Names \ {f} : d.files[g] = disk[Dest(p)].files[g]
  <2>1. f \in Names
    BY <1>2
  <2> HIDE DEF f
  <2> DEFINE e == disk[Dest(p)]
  <2>2. e \in Dir /\ Part \in Contents
    BY <1>1, Directories
  <2> HIDE DEF e
  <2>3. /\ Created(e, f, Part) \in Dir /\ Created(e, f, Part).dir
        /\ Created(e, f, Part).files = With(e, f, Part).files
        /\ With(e, f, Part).files[f] = Part
        /\ \A g \in Names \ {f} : With(e, f, Part).files[g] = e.files[g]
    BY <2>1, <2>2, WithTypes
  <2> QED BY <2>3 DEF e
<1>5. "fill" \in Stages
  BY DEF Stages
<1> HIDE DEF f, c, d
<1>6. /\ r \in Command /\ r.at = "fill" /\ r.list = cmd[p].list /\ r.data = c
      /\ r.force = cmd[p].force /\ r.work = cmd[p].work /\ r.targets = cmd[p].targets
      /\ r.skill = cmd[p].skill /\ r.found = cmd[p].found /\ r.touched = cmd[p].touched
      /\ r.changed = cmd[p].changed
  BY <1>1, <1>2, <1>5 DEF Command
<1> HIDE DEF r
<1>7. /\ Moves(p) /\ disk'[Dest(p)] = d /\ cmd'[p].at = "fill" /\ cmd'[p].list = cmd[p].list
      /\ cmd'[p].data = c
  BY <1>0, <1>3, <1>4, <1>6, ChangesMoves
<1>8. /\ Dest(p)' = Dest(p) /\ Active(p)' /\ cmd'[p].at # "idle"
      /\ WorkOK(p)' /\ FoundOK(p)' /\ ForceOK(p)' /\ DoneOK(p)'
  BY <1>0, <1>1, <1>7, MovesOK
<1>9. Copying(p) /\ Dest(p) \in cmd[p].changed
  BY <1>0, <1>1 DEF Copying, CmdOK, WorkOK
<1>10. SourceOK(p)'
  <2>1. ~(src \in cmd[p].changed \ cmd[p].touched)
    BY <1>0, <1>1, <1>2 DEF CmdOK, SourceOK, Has
  <2> QED BY <1>7, <1>9, <2>1 DEF SourceOK, Moves
<1>11. DestOK(p)'
  <2>1. ASSUME Own(p, Dest(p))', Dest(p) # src
        PROVE  /\ disk'[Dest(p)].dir
               /\ \A g \in Names : Expects(p, disk[Dest(p)].files[g], g)'
               /\ c = cmd'[p].skill.files[f] /\ c # NoFile
               /\ disk'[Dest(p)].files[f] # NoFile
    <3>1. src \notin cmd[p].touched /\ Own(p, Dest(p))
      BY <1>7, <1>8, <2>1 DEF Own, Moves
    <3>2. disk[src] = cmd[p].skill
      BY <1>0, <2>1, <3>1, SourceKept
    <3>3. \A g \in Names : Expects(p, disk[Dest(p)].files[g], g)
      BY <1>1, <1>9, <2>1, <3>1 DEF CmdOK, DestOK
    <3>4. cmd'[p].skill = cmd[p].skill
      BY <1>7 DEF Moves
    <3>5. Part # NoFile
      BY DEF Part, NoFile
    <3>6. c = cmd[p].skill.files[f] /\ cmd[p].skill.files[f] # NoFile
      BY <1>2, <2>1, <3>2 DEF c, Has
    <3>7. ASSUME NEW g \in Names PROVE Expects(p, disk[Dest(p)].files[g], g)'
      <4>1. CASE g = f
        BY <1>2, <1>7, <3>4, <3>6, <4>1 DEF Expects
      <4>2. CASE g # f
        BY <1>4, <1>7, <1>8, <3>3, <3>4, <4>2 DEF Expects
      <4> QED BY <4>1, <4>2
    <3> QED BY <1>2, <1>4, <1>7, <3>4, <3>5, <3>6, <3>7
  <2>2. src' = src /\ cmd'[p].at # "make"
    BY <1>7 DEF Moves
  <2> QED BY <1>7, <1>8, <2>1, <2>2 DEF DestOK, Has, f
<1>12. CmdOK(p)'
  BY <1>8, <1>10, <1>11 DEF CmdOK
<1> QED BY <1>1, <1>3, <1>4, <1>6, <1>12, ChangesKeeps

\* The file is written, unless somebody has removed it: what is copied is
\* the skill's.
LEMMA FillKeeps ==
    ASSUME SkillInv, NEW p \in Commands, Fill(p)
    PROVE  SkillInv'
<1>0. cmd[p].at = "fill" /\ Active(p)
  BY DEF Fill, Active
<1>1. /\ cmd[p] \in Command /\ CmdOK(p) /\ SkillTypes /\ src \in Places
      /\ Dest(p) \in AllTargets /\ Dest(p) \in Places /\ disk[Dest(p)] \in Dir
      /\ cmd[p].list \in Seq(Names) /\ cmd[p].list # <<>> /\ cmd[p].data \in Contents
      /\ Copying(p) /\ Dest(p) \in cmd[p].changed
  BY <1>0, AtWork DEF CmdOK, WorkOK, Copying, Command
<1> DEFINE f == Head(cmd[p].list)
           s == Tail(cmd[p].list)
           d == disk[Dest(p)]
           r == [cmd[p] EXCEPT !.at = "copy", !.list = s, !.data = NoFile]
<1>2. f \in Names /\ s \in Seq(Names) /\ Range(cmd[p].list) = {f} \union Range(s)
  BY <1>1, WorkList
<1>3. PICK c \in Reads(p) :
         IF Has(Dest(p), f) THEN Changes(p, r, With(d, f, c)) ELSE Goes(p, r)
  BY DEF Fill, Reads
<1>4. d \in Dir
  BY <1>1
<1>11. c \in Contents
  <2>1. disk[src].files \in [Names -> Contents]
    BY <1>1 DEF SkillTypes, Dir
  <2> QED BY <1>1, <1>2, <2>1, Directories DEF Reads
<1>5. "copy" \in Stages
  BY DEF Stages
<1> HIDE DEF f, s, d
<1>6. /\ r \in Command /\ r.at = "copy" /\ r.list = s
      /\ r.force = cmd[p].force /\ r.work = cmd[p].work /\ r.targets = cmd[p].targets
      /\ r.skill = cmd[p].skill /\ r.found = cmd[p].found /\ r.touched = cmd[p].touched
      /\ r.changed = cmd[p].changed
  BY <1>1, <1>2, <1>5, Directories DEF Command
<1> HIDE DEF r
<1>7. /\ With(d, f, c) \in Dir /\ With(d, f, c).dir = d.dir
      /\ With(d, f, c).files[f] = c
      /\ \A g \in Names \ {f} : With(d, f, c).files[g] = d.files[g]
  BY <1>2, <1>4, <1>11, WithTypes
<1>8. ASSUME Moves(p), cmd'[p].at = "copy", cmd'[p].list = s,
             Has(Dest(p), f) => disk'[Dest(p)] = With(d, f, c)
      PROVE  CmdOK(p)'
  <2>1. /\ Dest(p)' = Dest(p) /\ Active(p)' /\ cmd'[p].at # "idle"
        /\ WorkOK(p)' /\ FoundOK(p)' /\ ForceOK(p)' /\ DoneOK(p)'
    BY <1>0, <1>1, <1>8, MovesOK
  <2>2. ~(src \in cmd[p].changed \ cmd[p].touched)
    BY <1>0, <1>1 DEF CmdOK, SourceOK
  <2>3. SourceOK(p)'
    BY <1>1, <1>8, <2>2 DEF SourceOK, Moves
  <2>4. ASSUME Own(p, Dest(p))', Dest(p) # src
        PROVE  /\ disk'[Dest(p)].dir
               /\ \A g \in Names : Expects(p, disk[Dest(p)].files[g], g)'
    <3>1. Own(p, Dest(p))
      BY <1>8, <2>1, <2>4 DEF Own, Moves
    <3>2. /\ d.dir /\ Has(Dest(p), f) /\ cmd[p].data = cmd[p].skill.files[f]
          /\ \A g \in Names : Expects(p, d.files[g], g)
      BY <1>0, <1>1, <2>4, <3>1 DEF CmdOK, DestOK, f, d
    <3>3. disk'[Dest(p)] = With(d, f, c) /\ cmd'[p].skill = cmd[p].skill
      BY <1>8, <3>2 DEF Moves
    <3>4. disk'[Dest(p)].dir
      BY <1>7, <3>2, <3>3
    <3>5. c = cmd[p].skill.files[f] /\ c # NoFile
      <4>1. disk[src] = cmd[p].skill
        BY <1>0, <2>4, <3>1, SourceKept DEF Own
      <4>2. Head(cmd[p].list) = f /\ cmd[p].skill.files[f] # NoFile
        BY <1>0, <1>1, <2>4, <3>1 DEF CmdOK, DestOK, f
      <4> QED BY <3>2, <4>1, <4>2 DEF Reads, Has
    <3>6. ASSUME NEW g \in Names PROVE Expects(p, disk[Dest(p)].files[g], g)'
      <4>1. CASE g = f
        BY <1>7, <1>8, <2>1, <3>3, <3>5, <4>1 DEF Expects
      <4>2. CASE g # f
        BY <1>2, <1>7, <1>8, <2>1, <3>2, <3>3, <4>2 DEF Expects
      <4> QED BY <4>1, <4>2
    <3> QED BY <3>4, <3>6
  <2>5. src' = src /\ cmd'[p].at # "make" /\ cmd'[p].at # "fill"
    BY <1>8 DEF Moves
  <2>6. DestOK(p)'
    BY <1>8, <2>1, <2>4, <2>5 DEF DestOK
  <2> QED BY <2>1, <2>3, <2>6 DEF CmdOK
<1>9. CASE Has(Dest(p), f)
  <2>1. Changes(p, r, With(d, f, c))
    BY <1>3, <1>9
  <2>2. /\ Moves(p) /\ disk'[Dest(p)] = With(d, f, c) /\ cmd'[p].at = "copy"
        /\ cmd'[p].list = s
    BY <1>0, <1>6, <2>1, ChangesMoves
  <2>3. d.dir
    <3>1. ~d.dir => d.files[f] = NoFile
      BY <1>1, <1>2 DEF SkillInv, DiskOK, Absent, d
    <3>2. d.files[f] # NoFile
      BY <1>9 DEF Has, d
    <3> QED BY <3>1, <3>2
  <2>4. With(d, f, c).dir
    BY <1>7, <2>3
  <2>5. CmdOK(p)'
    BY <1>8, <2>2
  <2> QED BY <1>1, <1>6, <1>7, <2>1, <2>4, <2>5, ChangesKeeps
<1>10. CASE ~Has(Dest(p), f)
  <2>1. Goes(p, r)
    BY <1>3, <1>10
  <2>2. cmd'[p] = r /\ disk' = disk /\ src' = src
    BY <1>1, <2>1 DEF Goes, SkillTypes
  <2>3. cmd[p].changed = cmd[p].changed \union {Dest(p)}
    BY <1>1
  <2>4. Moves(p) /\ cmd'[p].at = "copy" /\ cmd'[p].list = s
    BY <1>6, <2>2, <2>3 DEF Moves
  <2>5. CmdOK(p)'
    BY <1>8, <1>10, <2>4
  <2> QED BY <1>6, <2>1, <2>5, GoesKeeps
<1> QED BY <1>9, <1>10

\* agents/ has no file: then the skill has none, and the target gets none.
LEMMA CopyEmptyKeeps ==
    ASSUME SkillInv, NEW p \in Commands, CopyEmpty(p)
    PROVE  SkillInv'
<1>0. cmd[p].at = "copy" /\ Active(p) /\ cmd[p].list # <<>>
  BY DEF CopyEmpty, Active
<1>1. /\ cmd[p] \in Command /\ CmdOK(p) /\ SkillTypes /\ src \in Places
      /\ Dest(p) \in AllTargets /\ Dest(p) \in Places /\ disk[Dest(p)] \in Dir
      /\ cmd[p].list \in Seq(Names) /\ Copying(p) /\ Dest(p) \in cmd[p].changed
  BY <1>0, AtWork DEF CmdOK, WorkOK, Copying
<1> DEFINE f == Head(cmd[p].list)
           s == Tail(cmd[p].list)
           r == [cmd[p] EXCEPT !.list = s]
           d == [dir |-> TRUE, files |-> disk[Dest(p)].files]
<1>2. /\ f \in Names /\ s \in Seq(Names) /\ Range(cmd[p].list) = {f} \union Range(s)
      /\ ~Has(src, f)
  BY <1>0, <1>1, WorkList DEF CopyEmpty
<1>3. Changes(p, r, d)
  BY DEF CopyEmpty
<1>4. d \in Dir /\ d.dir /\ d.files = disk[Dest(p)].files
  <2>1. disk[Dest(p)].files \in [Names -> Contents]
    BY <1>1 DEF Dir
  <2> QED BY <2>1 DEF Dir
<1> HIDE DEF f, s, d
<1>5. /\ r \in Command /\ r.at = "copy" /\ r.list = s
      /\ r.force = cmd[p].force /\ r.work = cmd[p].work /\ r.targets = cmd[p].targets
      /\ r.skill = cmd[p].skill /\ r.found = cmd[p].found /\ r.touched = cmd[p].touched
      /\ r.changed = cmd[p].changed
  BY <1>0, <1>1, <1>2 DEF Command
<1> HIDE DEF r
<1>6. /\ Moves(p) /\ disk'[Dest(p)] = d /\ cmd'[p].at = "copy" /\ cmd'[p].list = s
  BY <1>0, <1>3, <1>4, <1>5, ChangesMoves
<1>7. /\ Dest(p)' = Dest(p) /\ Active(p)' /\ cmd'[p].at # "idle"
      /\ WorkOK(p)' /\ FoundOK(p)' /\ ForceOK(p)' /\ DoneOK(p)'
  BY <1>0, <1>1, <1>6, MovesOK
<1>8. SourceOK(p)'
  <2>1. ASSUME src \in cmd[p].changed \ cmd[p].touched
        PROVE  Dest(p) = src /\ \A g \in Names : disk'[src].files[g] = NoFile
    <3>1. Dest(p) = src /\ \A g \in Names : disk[src].files[g] = NoFile
      BY <1>0, <1>1, <2>1 DEF CmdOK, SourceOK
    <3> QED BY <1>4, <1>6, <3>1
  <2>2. cmd'[p].changed = cmd[p].changed
    BY <1>1, <1>6 DEF Moves
  <2> QED BY <1>6, <1>7, <2>1, <2>2 DEF SourceOK, Moves
<1>9. DestOK(p)'
  <2>1. ASSUME Own(p, Dest(p))', Dest(p) # src
        PROVE  /\ disk'[Dest(p)].dir
               /\ \A g \in Names : Expects(p, disk[Dest(p)].files[g], g)'
    <3>1. src \notin cmd[p].touched /\ Own(p, Dest(p))
      BY <1>6, <1>7, <2>1 DEF Own, Moves
    <3>2. disk[src] = cmd[p].skill
      BY <1>0, <2>1, <3>1, SourceKept
    <3>3. \A g \in Names : Expects(p, disk[Dest(p)].files[g], g)
      BY <1>1, <2>1, <3>1 DEF CmdOK, DestOK
    <3>4. cmd'[p].skill = cmd[p].skill /\ cmd[p].skill.files[f] = NoFile
      BY <1>2, <1>6, <3>2 DEF Moves, Has
    <3> QED BY <1>2, <1>4, <1>6, <1>7, <3>3, <3>4 DEF Expects
  <2>2. src' = src /\ cmd'[p].at # "make" /\ cmd'[p].at # "fill"
    BY <1>6 DEF Moves
  <2> QED BY <1>6, <1>7, <2>1, <2>2 DEF DestOK
<1>10. CmdOK(p)'
  BY <1>7, <1>8, <1>9 DEF CmdOK
<1> QED BY <1>1, <1>3, <1>4, <1>5, <1>10, ChangesKeeps

\* Two directories with the same files are one.
LEMMA SameDirectory ==
    ASSUME NEW d \in Dir, NEW e \in Dir, d.dir, e.dir,
           \A f \in Names : d.files[f] = e.files[f]
    PROVE  d = e
<1>1. d = [dir |-> d.dir, files |-> d.files] /\ e = [dir |-> e.dir, files |-> e.files]
      /\ d.dir \in BOOLEAN /\ e.dir \in BOOLEAN
      /\ d.files \in [Names -> Contents] /\ e.files \in [Names -> Contents]
  BY DEF Dir
<1>2. d.files = e.files
  BY <1>1
<1>3. d.dir = e.dir
  BY <1>1
<1> QED BY <1>1, <1>2, <1>3

\* SKILL.md is copied first, and read back when the rest has been copied: the
\* target holds the skill, and the source is what it was.
LEMMA CopyDone ==
    ASSUME SkillInv, NEW p \in Commands, cmd[p].at = "copy", cmd[p].list = <<>>,
           Has(Dest(p), "SKILL.md")
    PROVE  /\ Active(p) /\ Dest(p) \in cmd[p].changed
           /\ ~(src \in cmd[p].changed \ cmd[p].touched)
           /\ Done(p, cmd[p].changed)
<1>0. Active(p) /\ Copying(p)
  BY DEF Active, Copying
<1>1. /\ cmd[p] \in Command /\ CmdOK(p) /\ disk[Dest(p)] \in Dir /\ cmd[p].skill \in Dir
      /\ Dest(p) \in cmd[p].changed
  BY <1>0, AtWork DEF CmdOK, WorkOK, Command
<1>2. ~(src \in cmd[p].changed \ cmd[p].touched)
  <2>1. "SKILL.md" \in Names
    BY DEF Names
  <2> QED BY <1>0, <1>1, <2>1 DEF CmdOK, SourceOK, Has
<1>3. ASSUME NEW t \in cmd[p].changed, Own(p, t) PROVE disk[t] = cmd[p].skill
  <2>1. CASE t # Dest(p)
    BY <1>0, <1>1, <1>3, <2>1 DEF CmdOK, DoneOK, Done
  <2>2. CASE t = Dest(p)
    <3>1. Own(p, Dest(p)) /\ Dest(p) # src
      BY <1>1, <1>2, <1>3, <2>2 DEF Own
    <3>2. \A f \in Names : f \notin Range(cmd[p].list)
      BY DEF Range
    <3>3. /\ disk[Dest(p)].dir
          /\ \A f \in Names : disk[Dest(p)].files[f] = cmd[p].skill.files[f]
      BY <1>0, <1>1, <3>1, <3>2 DEF CmdOK, DestOK, Expects
    <3>4. cmd[p].skill.dir
      BY <1>0, <1>1 DEF CmdOK, FoundOK
    <3> QED BY <1>1, <2>2, <3>3, <3>4, SameDirectory
  <2> QED BY <2>1, <2>2
<1> QED BY <1>0, <1>1, <1>2, <1>3 DEF Done

\* The readback: an error, success, or the next target.
LEMMA ReadbackKeeps ==
    ASSUME SkillInv, NEW p \in Commands, Readback(p)
    PROVE  SkillInv'
<1>0. cmd[p].at = "copy" /\ cmd[p].list = <<>> /\ Active(p)
  BY DEF Readback, Active
<1>1. CASE ~Has(Dest(p), "SKILL.md")
  BY <1>0, <1>1, EndsKeeps DEF Readback
<1>2. CASE Has(Dest(p), "SKILL.md")
  <2>1. /\ cmd[p] \in Command /\ cmd \in [Commands -> Command] /\ CmdOK(p) /\ SkillTypes
        /\ Dest(p) \in AllTargets
        /\ cmd[p].work \in Seq(AllTargets) /\ cmd[p].work # <<>> /\ Distinct(cmd[p].work)
        /\ Dest(p) \in cmd[p].changed /\ ~(src \in cmd[p].changed \ cmd[p].touched)
        /\ Done(p, cmd[p].changed)
    BY <1>0, <1>2, AtWork, CopyDone DEF CmdOK, WorkOK, SkillTypes
  <2> DEFINE w == Tail(cmd[p].work)
  <2>2. /\ w \in Seq(AllTargets) /\ Range(cmd[p].work) = {Dest(p)} \union Range(w)
        /\ Distinct(w)
        /\ Len(cmd[p].work) = 1 => Range(w) = {}
        /\ Len(cmd[p].work) # 1 => w # <<>>
    BY <2>1, WorkList DEF Dest
  <2>3. /\ cmd[p].changed \intersect Range(w) = {} /\ Range(w) \subseteq cmd[p].targets
        /\ cmd[p].targets \subseteq cmd[p].changed \union Range(w)
    BY <1>0, <2>1, <2>2 DEF CmdOK, WorkOK, Todo
  <2> HIDE DEF w
  <2>4. ASSUME NEW r \in Command, Goes(p, r), r.at \in {"ok", "stat"},
               r.force = cmd[p].force, r.targets = cmd[p].targets, r.skill = cmd[p].skill,
               r.found = cmd[p].found, r.touched = cmd[p].touched,
               r.changed = cmd[p].changed,
               r.at = "ok" => Range(w) = {}, r.at = "stat" => r.work = w /\ w # <<>>
        PROVE  SkillInv'
    <3>1. cmd'[p] = r /\ disk' = disk /\ src' = src
      BY <2>1, <2>4 DEF Goes
    <3>2. /\ cmd'[p].at \in {"ok", "stat"} /\ ~Copying(p)' /\ cmd'[p].at # "idle"
          /\ Active(p)' => cmd'[p].at = "stat"
      BY <2>4, <3>1 DEF Copying, Active
    <3>3. WorkOK(p)'
      <4>1. cmd[p].changed \subseteq cmd[p].targets
        BY <2>1 DEF CmdOK, WorkOK
      <4>2. CASE cmd'[p].at = "stat"
        <5>1. cmd'[p].work = w /\ w # <<>>
          BY <2>4, <3>1, <4>2
        <5>2. Todo(p)' = Range(w)
          BY <4>2, <5>1 DEF Todo
        <5> QED BY <2>2, <2>3, <2>4, <3>1, <3>2, <4>1, <4>2, <5>1, <5>2 DEF WorkOK
      <4>3. CASE cmd'[p].at = "ok"
        <5>1. ~Active(p)' /\ Range(w) = {}
          BY <2>4, <3>1, <4>3 DEF Active
        <5> QED BY <2>3, <2>4, <3>1, <3>2, <4>1, <4>3, <5>1 DEF WorkOK
      <4> QED BY <3>2, <4>2, <4>3
    <3>4. FoundOK(p)'
      BY <1>0, <2>1, <2>4, <3>1, <3>2 DEF CmdOK, FoundOK
    <3>5. ForceOK(p)'
      BY <2>1, <2>4, <3>1, <3>2 DEF CmdOK, ForceOK
    <3>6. SourceOK(p)' /\ DestOK(p)'
      BY <2>1, <2>4, <3>1, <3>2 DEF SourceOK, DestOK
    <3>7. DoneOK(p)'
      <4>1. \A t \in cmd'[p].changed : Own(p, t)' => disk'[t] = cmd'[p].skill
        BY <2>1, <2>4, <3>1 DEF Done, Own
      <4> QED BY <2>1, <4>1 DEF DoneOK, Done
    <3>8. CmdOK(p)'
      BY <3>2, <3>3, <3>4, <3>5, <3>6, <3>7 DEF CmdOK
    <3> QED BY <2>4, <3>8, GoesKeeps
  <2>5. CASE Len(cmd[p].work) = 1
    <3> DEFINE r == [cmd[p] EXCEPT !.at = "ok", !.work = <<>>, !.list = <<>>,
                                   !.data = NoFile]
    <3>1. Goes(p, r)
      BY <1>2, <2>5 DEF Readback, Ends
    <3>2. "ok" \in Stages /\ <<>> \in Seq(AllTargets) /\ <<>> \in Seq(Names)
      BY DEF Stages
    <3>3. /\ r \in Command /\ r.at = "ok" /\ r.force = cmd[p].force
          /\ r.targets = cmd[p].targets /\ r.skill = cmd[p].skill /\ r.found = cmd[p].found
          /\ r.touched = cmd[p].touched /\ r.changed = cmd[p].changed
      BY <2>1, <3>2, Directories DEF Command
    <3> HIDE DEF r
    <3> QED BY <2>2, <2>4, <2>5, <3>1, <3>3
  <2>6. CASE Len(cmd[p].work) # 1
    <3> DEFINE r == [cmd[p] EXCEPT !.at = "stat", !.work = w]
    <3>1. Goes(p, r)
      BY <1>2, <2>6 DEF Readback, w
    <3>2. "stat" \in Stages
      BY DEF Stages
    <3>3. /\ r \in Command /\ r.at = "stat" /\ r.work = w /\ r.force = cmd[p].force
          /\ r.targets = cmd[p].targets /\ r.skill = cmd[p].skill /\ r.found = cmd[p].found
          /\ r.touched = cmd[p].touched /\ r.changed = cmd[p].changed
      BY <2>1, <2>2, <3>2 DEF Command
    <3> HIDE DEF r
    <3> QED BY <2>2, <2>4, <2>6, <3>1, <3>3
  <2> QED BY <2>5, <2>6
<1> QED BY <1>1, <1>2

----------------------------------------------------------------------------
(* The invariant.                                                          *)

\* At first the source has the skill, and no command has begun.
LEMMA SkillInit == Init => SkillInv
<1> SUFFICES ASSUME Init PROVE SkillInv
  OBVIOUS
<1>1. PICK old \in SUBSET (AllTargets \ {src}) :
         disk = [x \in Places |-> IF x = src THEN Canonical
                                  ELSE IF x \in old THEN Older ELSE Absent]
  BY DEF Init
<1>2. Older \in Dir /\ Older.dir
  <2>1. \A f \in Names : <<f, 0>> \in Contents
    BY DEF Contents
  <2>2. [f \in Names |-> <<f, 0>>] \in [Names -> Contents]
    BY <2>1
  <2> QED BY <2>2 DEF Older, Dir
<1>3. Canonical \in Dir /\ Canonical.dir
  <2>1. \A f \in Names : (IF f \in Skill THEN <<f, 1>> ELSE NoFile) \in Contents
    BY DEF Contents
  <2>2. [f \in Names |-> IF f \in Skill THEN <<f, 1>> ELSE NoFile] \in [Names -> Contents]
    BY <2>1
  <2> QED BY <2>2 DEF Canonical, Dir
<1>4. disk \in [Places -> Dir] /\ DiskOK
  BY <1>1, <1>2, <1>3, Directories DEF DiskOK
<1>5. Idle \in Command
  BY Directories DEF Idle, Command, Stages
<1>6. SkillTypes
  BY <1>4, <1>5 DEF SkillTypes, Init
<1>7. \A p \in Commands : CmdOK(p)
  BY IdleOK DEF Init
<1> QED BY <1>4, <1>6, <1>7 DEF SkillInv

\* Another program changes a directory that it leaves a directory.
LEMMA OthersKeep ==
    ASSUME SkillInv, NEW x \in Places
    PROVE  /\ Rename(x) => SkillInv'
           /\ \A f \in Skill : Edit(x, f) => SkillInv'
<1>0. disk[x] \in Dir
  BY DEF SkillInv, SkillTypes
<1>1. ASSUME Rename(x) PROVE SkillInv'
  <2> DEFINE c == disk[x].files["SKILL.md"]
             d == With(disk[x], "SKILL.bak", c)
             e == With(d, "SKILL.md", NoFile)
  <2>1. Writes(x, e) /\ c # NoFile /\ "SKILL.md" \in Names /\ "SKILL.bak" \in Names
    BY <1>1 DEF Rename, Has, Names
  <2>2. c \in Contents
    BY <1>0, <2>1 DEF Dir
  <2>3. disk[x].dir
    <3>1. ~disk[x].dir => c = NoFile
      BY <2>1 DEF SkillInv, DiskOK, Absent
    <3> QED BY <2>1, <3>1
  <2> HIDE DEF c
  <2>4. d \in Dir /\ d.dir = disk[x].dir
    BY <1>0, <2>1, <2>2, WithTypes
  <2> HIDE DEF d
  <2>5. e \in Dir /\ e.dir = d.dir
    BY <2>1, <2>4, WithTypes, Directories
  <2> HIDE DEF e
  <2>6. e.dir
    BY <2>3, <2>4, <2>5
  <2> QED BY <2>1, <2>5, <2>6, WritesKeeps
<1>2. ASSUME NEW f \in Skill, Edit(x, f) PROVE SkillInv'
  <2> DEFINE c == <<f, 2>>
             d == Created(disk[x], f, c)
  <2>1. f \in Names
    BY DEF Skill, Names
  <2>2. c \in Contents
    BY <2>1 DEF Contents
  <2>3. Writes(x, d)
    BY <1>2 DEF Edit
  <2> HIDE DEF c
  <2>4. d \in Dir /\ d.dir
    BY <1>0, <2>1, <2>2, WithTypes
  <2> HIDE DEF d
  <2> QED BY <2>3, <2>4, WritesKeeps
<1> QED BY <1>1, <1>2

\* Every step keeps the invariant.
LEMMA SkillNext == SkillInv /\ [Next]_vars => SkillInv'
<1> SUFFICES ASSUME SkillInv, [Next]_vars PROVE SkillInv'
  OBVIOUS
<1>1. ASSUME NEW p \in Commands, Install(p) PROVE SkillInv'
  <2>1. CASE Begin(p)
    BY <2>1, BeginKeeps
  <2>2. CASE Stat(p)
    BY <2>2, StatKeeps
  <2>3. CASE RemoveAll(p)
    BY <2>3, RemoveKeeps
  <2>4. CASE MakeDir(p)
    BY <2>4, MakeKeeps
  <2>5. CASE Open(p)
    BY <2>5, OpenKeeps
  <2>6. CASE Fill(p)
    BY <2>6, FillKeeps
  <2>7. CASE Readback(p)
    BY <2>7, ReadbackKeeps
  <2>8. CASE Fails(p)
    BY <2>8, EndsKeeps DEF Fails
  <2>9. CASE CopyEmpty(p)
    BY <2>9, CopyEmptyKeeps
  <2> QED BY <1>1, <2>1, <2>2, <2>3, <2>4, <2>5, <2>6, <2>7, <2>8, <2>9 DEF Install
<1>2. ASSUME NEW x \in Places, Rename(x) \/ \E f \in EditedFiles : Edit(x, f)
      PROVE  SkillInv'
  BY <1>2, OthersKeep, EditedAssumption
<1>3. CASE UNCHANGED vars
  <2>1. src' = src /\ disk' = disk /\ edited' = edited /\ cmd' = cmd
    BY <1>3 DEF vars
  <2>2. SkillTypes' /\ DiskOK'
    BY <2>1 DEF SkillInv, SkillTypes, DiskOK
  <2>3. ASSUME NEW q \in Commands PROVE CmdOK(q)'
    <3>1. CASE cmd[q].at = "idle"
      BY <2>1, <3>1, IdleStaysOK DEF SkillInv, CmdOK
    <3>2. CASE cmd[q].at # "idle"
      BY <2>1, <3>2, StaysOK DEF SkillInv, Stays
    <3> QED BY <3>1, <3>2
  <2> QED BY <2>2, <2>3 DEF SkillInv
<1> QED BY <1>1, <1>2, <1>3 DEF Next

\* What every command knows of what it has found, changed and copied, whoever
\* runs beside it and wherever it fails or is killed.
THEOREM InstallInvariant == Spec => []SkillInv
<1>1. Init => SkillInv
  BY SkillInit
<1>2. SkillInv /\ [Next]_vars => SkillInv'
  BY SkillNext
<1> QED BY <1>1, <1>2, PTL DEF Spec

----------------------------------------------------------------------------
(* What follows of it.                                                     *)

\* A command that reports success has left the whole skill at every target,
\* although it reads back SKILL.md alone (copyDir, installSkill).
THEOREM SuccessIsSuccess == Spec => []SuccessIsComplete
<1>1. ASSUME SkillInv, NEW p \in Commands, cmd[p].at = "ok", NEW t \in cmd[p].targets,
             Own(p, t)
      PROVE  disk[t] = disk[src]
  <2>1. CmdOK(p)
    BY <1>1 DEF SkillInv
  <2>2. t \in cmd[p].changed
    BY <1>1, <2>1 DEF CmdOK, WorkOK
  <2>3. disk[t] = cmd[p].skill
    BY <1>1, <2>1, <2>2 DEF CmdOK, DoneOK, Done
  <2>4. src \notin cmd[p].changed \union cmd[p].touched
    BY <1>1, <2>1 DEF CmdOK, SourceOK, Own
  <2>5. disk[src] = cmd[p].skill
    BY <1>1, <2>1, <2>4 DEF CmdOK, FoundOK
  <2> QED BY <2>3, <2>5
<1>2. SkillInv => SuccessIsComplete
  BY <1>1 DEF SuccessIsComplete
<1> QED BY <1>2, InstallInvariant, PTL

\* However a command ends, at most one target is neither as it was nor the
\* skill (installSkill, one target after the other).
THEOREM OneIsAtRisk == Spec => []OneTargetAtRisk
<1>1. ASSUME SkillInv, NEW p \in Commands
      PROVE  Cardinality({t \in cmd[p].changed : Own(p, t) /\ disk[t] # cmd[p].skill}) <= 1
  <2> DEFINE S == {t \in cmd[p].changed : Own(p, t) /\ disk[t] # cmd[p].skill}
  <2>1. PICK x \in AllTargets : Done(p, cmd[p].changed \ {x})
    BY <1>1 DEF SkillInv, CmdOK, DoneOK
  <2>2. S \subseteq {x}
    BY <2>1 DEF Done
  <2>3. IsFiniteSet({x}) /\ Cardinality({x}) = 1
    BY FS_Singleton
  <2> HIDE DEF S
  <2>4. Cardinality(S) <= 1
    BY <2>2, <2>3, FS_Subset
  <2> QED BY <2>4 DEF S
<1>2. SkillInv => OneTargetAtRisk
  BY <1>1 DEF OneTargetAtRisk
<1> QED BY <1>2, InstallInvariant, PTL

\* Without --force nothing that was there is touched; with it the source is
\* lost only when it is a target, and the command fails (installSkill).
THEOREM NothingIsLost == Spec => []NothingIsLostUnforced
<1>1. ASSUME SkillInv PROVE NothingIsLostUnforced
  <2> SUFFICES ASSUME NEW p \in Commands
               PROVE  LET lost == (cmd[p].changed \intersect (cmd[p].found \union {src}))
                                     \ cmd[p].touched
                      IN  /\ ~cmd[p].force => lost = {}
                          /\ src \in lost => src \in cmd[p].targets /\ cmd[p].at # "ok"
    BY DEF NothingIsLostUnforced
  <2>1. WorkOK(p) /\ ForceOK(p) /\ SourceOK(p)
    BY <1>1 DEF SkillInv, CmdOK
  <2> QED BY <2>1 DEF WorkOK, ForceOK, SourceOK
<1> QED BY <1>1, InstallInvariant, PTL

----------------------------------------------------------------------------
(* What is in the files.                                                   *)

Kept(f) == {NoFile, Part, <<f, 0>>, <<f, 1>>}

\* The command has not changed a file, and knows what it copies.
LEMMA EditGoes ==
    ASSUME SkillInv, EditInv, NEW p \in Commands, NEW r, Goes(p, r),
           src \notin edited => CopyUnedited(p)'
    PROVE  EditInv'
<1>1. /\ src' = src /\ disk' = disk /\ edited' = edited
      /\ \A q \in Commands \ {p} : cmd'[q] = cmd[q]
  BY DEF Goes, SkillInv, SkillTypes
<1> SUFFICES ASSUME src \notin edited
             PROVE  Unedited' /\ SourceUnedited' /\ \A q \in Commands : CopyUnedited(q)'
  BY <1>1 DEF EditInv
<1>2. Unedited' /\ SourceUnedited'
  BY <1>1 DEF EditInv, Unedited, SourceUnedited
<1>3. ASSUME NEW q \in Commands \ {p} PROVE CopyUnedited(q)'
  BY <1>1 DEF EditInv, CopyUnedited, Copying, Dest, Has
<1> QED BY <1>2, <1>3

\* The command changes its destination: what is there comes from a source,
\* and nothing is added at the source itself.
LEMMA EditChanges ==
    ASSUME SkillInv, EditInv, NEW p \in Commands, Dest(p) \in Places, NEW r, NEW d,
           Changes(p, r, d),
           src \notin edited => CopyUnedited(p)',
           src \notin edited /\ Dest(p) \notin edited =>
              \A f \in Names : d.files[f] \in Kept(f),
           Dest(p) = src => \A f \in Names : d.files[f] \in {NoFile, disk[src].files[f]}
    PROVE  EditInv'
<1>1. /\ src' = src /\ edited' = edited /\ src \in Places
      /\ disk'[Dest(p)] = d /\ \A x \in Places \ {Dest(p)} : disk'[x] = disk[x]
      /\ \A q \in Commands \ {p} : cmd'[q] = Touched(cmd[q], Dest(p))
  BY DEF Changes, SkillInv, SkillTypes
<1> SUFFICES ASSUME src \notin edited
             PROVE  Unedited' /\ SourceUnedited' /\ \A q \in Commands : CopyUnedited(q)'
  BY <1>1 DEF EditInv
<1>2. /\ \A x \in Places \ edited, f \in Names : disk[x].files[f] \in Kept(f)
      /\ \A f \in Names : disk[src].files[f] \in {NoFile, <<f, 1>>}
      /\ \A q \in Commands : CopyUnedited(q)
  BY DEF EditInv, Unedited, SourceUnedited, Kept
<1>3. Unedited'
  <2>1. ASSUME NEW x \in Places \ edited, NEW f \in Names
        PROVE  disk'[x].files[f] \in Kept(f)
    <3>1. CASE x = Dest(p)
      BY <1>1, <3>1
    <3>2. CASE x # Dest(p)
      BY <1>1, <1>2, <3>2
    <3> QED BY <3>1, <3>2
  <2> QED BY <1>1, <2>1 DEF Unedited, Kept
<1>4. \A f \in Names : disk'[src].files[f] \in {NoFile, disk[src].files[f]}
  BY <1>1
<1>5. SourceUnedited'
  <2>1. \A f \in Names : disk'[src].files[f] \in {NoFile, <<f, 1>>}
    BY <1>2, <1>4
  <2> QED BY <1>1, <2>1 DEF SourceUnedited
<1>6. ASSUME NEW q \in Commands \ {p} PROVE CopyUnedited(q)'
  <2>1. /\ cmd'[q].at = cmd[q].at /\ cmd'[q].work = cmd[q].work
        /\ cmd'[q].list = cmd[q].list /\ cmd'[q].data = cmd[q].data
    <3>1. cmd[q] \in Command
      BY DEF SkillInv, SkillTypes
    <3> QED BY <1>1, <3>1 DEF Touched, Command
  <2>2. \A f \in Names : disk[src].files[f] = NoFile => disk'[src].files[f] = NoFile
    BY <1>4
  <2>3. Range(cmd[q].list) \subseteq Names
    BY DEF SkillInv, SkillTypes, Command, Range
  <2>4. CopyUnedited(q)
    BY <1>2
  <2> QED BY <1>1, <2>1, <2>2, <2>3, <2>4 DEF CopyUnedited, Copying, Dest, Has
<1> QED BY <1>3, <1>5, <1>6

\* Another program changes a place, and is noted.
LEMMA EditWrites ==
    ASSUME SkillInv, EditInv, NEW x \in Places, NEW d, Writes(x, d)
    PROVE  EditInv'
<1>1. /\ src' = src /\ edited' = edited \union {x} /\ src \in Places
      /\ \A y \in Places \ {x} : disk'[y] = disk[y]
      /\ \A q \in Commands : cmd'[q] = Touched(cmd[q], x)
  BY DEF Writes, SkillInv, SkillTypes
<1> SUFFICES ASSUME src \notin edited, src # x
             PROVE  Unedited' /\ SourceUnedited' /\ \A q \in Commands : CopyUnedited(q)'
  BY <1>1 DEF EditInv
<1>2. Unedited'
  BY <1>1 DEF EditInv, Unedited
<1>3. disk'[src] = disk[src]
  BY <1>1
<1>4. SourceUnedited'
  BY <1>1, <1>3 DEF EditInv, SourceUnedited
<1>5. ASSUME NEW q \in Commands PROVE CopyUnedited(q)'
  <2>1. /\ cmd'[q].at = cmd[q].at /\ cmd'[q].work = cmd[q].work
        /\ cmd'[q].list = cmd[q].list /\ cmd'[q].data = cmd[q].data
    <3>1. cmd[q] \in Command
      BY DEF SkillInv, SkillTypes
    <3> QED BY <1>1, <3>1 DEF Touched, Command
  <2> QED BY <1>1, <1>3, <2>1 DEF EditInv, CopyUnedited, Copying, Dest, Has
<1> QED BY <1>2, <1>4, <1>5

\* At first every file is the source's or an older one.
LEMMA EditInit == Init => EditInv
<1> SUFFICES ASSUME Init PROVE Unedited /\ SourceUnedited /\ \A p \in Commands : CopyUnedited(p)
  BY DEF EditInv
<1>1. PICK old \in SUBSET (AllTargets \ {src}) :
         disk = [x \in Places |-> IF x = src THEN Canonical
                                  ELSE IF x \in old THEN Older ELSE Absent]
  BY DEF Init
<1>2. ASSUME NEW f \in Names
      PROVE  /\ Absent.files[f] = NoFile /\ Older.files[f] = <<f, 0>>
             /\ Canonical.files[f] \in {NoFile, <<f, 1>>}
  BY DEF Absent, Older, Canonical
<1>3. Unedited /\ SourceUnedited
  <2>1. src \in Places
    BY DEF Init
  <2>2. \A x \in Places : disk[x] \in {Canonical, Older, Absent}
    BY <1>1
  <2>3. disk[src] = Canonical
    BY <1>1, <2>1
  <2> QED BY <1>2, <2>2, <2>3 DEF Unedited, SourceUnedited
<1>4. \A p \in Commands : CopyUnedited(p)
  <2>1. \A p \in Commands : cmd[p].at = "idle"
    BY DEF Init, Idle
  <2> QED BY <2>1 DEF CopyUnedited, Copying
<1> QED BY <1>3, <1>4

\* A command that is not copying knows nothing of the files.
LEMMA EditElsewhere ==
    ASSUME NEW p \in Commands, cmd'[p].at \notin {"make", "copy", "fill"}
    PROVE  CopyUnedited(p)'
<1>1. cmd'[p].at # "make" /\ cmd'[p].at # "fill" /\ ~Copying(p)'
  BY DEF Copying
<1> QED BY <1>1 DEF CopyUnedited

\* A command that ends has no copy under way.
LEMMA EditEnds ==
    ASSUME SkillInv, EditInv, NEW p \in Commands, NEW how \in {"ok", "error"}, Ends(p, how)
    PROVE  EditInv'
<1> DEFINE r == [cmd[p] EXCEPT !.at = how, !.work = <<>>, !.list = <<>>, !.data = NoFile]
<1>1. Goes(p, r)
  BY DEF Ends
<1>2. cmd \in [Commands -> Command] /\ cmd[p] \in Command
  BY DEF SkillInv, SkillTypes
<1>3. cmd'[p].at = how
  BY <1>1, <1>2 DEF Goes, Command
<1>4. CopyUnedited(p)'
  BY <1>3, EditElsewhere
<1> HIDE DEF r
<1> QED BY <1>1, <1>4, EditGoes

\* The steps before a file is copied.
LEMMA EditBefore ==
    ASSUME SkillInv, EditInv, NEW p \in Commands, Begin(p) \/ Stat(p)
    PROVE  EditInv'
<1>0. cmd \in [Commands -> Command] /\ cmd[p] \in Command
  BY DEF SkillInv, SkillTypes
<1>1. CASE Begin(p)
  <2> DEFINE a == IF disk[src].dir /\ Has(src, "SKILL.md") THEN "stat" ELSE "error"
  <2>1. PICK l \in TargetLists, force \in BOOLEAN :
           Goes(p, [Idle EXCEPT !.at = a, !.force = force, !.work = l, !.targets = Range(l),
                                !.found = {t \in Range(l) : disk[t].dir}, !.skill = disk[src]])
    BY <1>1 DEF Begin
  <2> DEFINE F == {t \in Range(l) : disk[t].dir}
             r == [Idle EXCEPT !.at = a, !.force = force, !.work = l, !.targets = Range(l),
                               !.found = F, !.skill = disk[src]]
  <2>2. Goes(p, r) /\ a \in {"stat", "error"}
    BY <2>1
  <2> HIDE DEF a, F
  <2>3. cmd'[p].at = a
    BY <1>0, <2>2 DEF Goes, Idle
  <2>4. CopyUnedited(p)'
    BY <2>2, <2>3, EditElsewhere
  <2> HIDE DEF r
  <2> QED BY <2>2, <2>4, EditGoes
<1>2. CASE Stat(p) /\ Refused(p)
  BY <1>2, EditEnds DEF Stat
<1>3. CASE Stat(p) /\ ~Refused(p)
  <2> DEFINE a == IF disk[Dest(p)].dir THEN "remove" ELSE "make"
             r == [cmd[p] EXCEPT !.at = a]
  <2>1. Goes(p, r) /\ Active(p) /\ a \in {"remove", "make"}
    BY <1>3 DEF Stat, Active
  <2>2. a = "make" => disk[Dest(p)] = Absent
    BY <2>1, AtWork DEF SkillInv, DiskOK
  <2> HIDE DEF a
  <2>3. cmd'[p].at = a /\ cmd'[p].work = cmd[p].work /\ disk' = disk /\ src' = src
    BY <1>0, <2>1 DEF Goes, Command
  <2>4. CopyUnedited(p)'
    <3>1. CASE a = "remove"
      BY <2>3, <3>1, EditElsewhere
    <3>2. CASE a = "make"
      <4>1. \A f \in Names : disk[Dest(p)].files[f] = NoFile
        BY <2>2, <3>2 DEF Absent
      <4>2. cmd'[p].at # "fill" /\ ~Copying(p)' /\ Dest(p)' = Dest(p)
        BY <2>3, <3>2 DEF Copying, Dest
      <4> QED BY <2>3, <4>1, <4>2 DEF CopyUnedited, Has
    <3> QED BY <2>1, <3>1, <3>2
  <2> HIDE DEF r
  <2> QED BY <2>1, <2>4, EditGoes
<1> QED BY <1>1, <1>2, <1>3

\* A removal adds nothing.
LEMMA EditRemove ==
    ASSUME SkillInv, EditInv, NEW p \in Commands, RemoveAll(p)
    PROVE  EditInv'
<1>0. cmd[p].at = "remove" /\ Active(p)
  BY DEF RemoveAll, Active
<1>1. /\ cmd[p] \in Command /\ SkillTypes /\ Dest(p) \in Places /\ disk[Dest(p)] \in Dir
      /\ src \in Places
  BY <1>0, AtWork
<1>2. src \notin edited /\ Dest(p) \notin edited =>
         \A f \in Names : disk[Dest(p)].files[f] \in Kept(f)
  BY <1>1 DEF EditInv, Unedited, Kept
<1>3. ASSUME NEW f \in Range(Present(Dest(p))),
             Changes(p, cmd[p], With(disk[Dest(p)], f, NoFile))
      PROVE  EditInv'
  <2> DEFINE d == With(disk[Dest(p)], f, NoFile)
  <2>1. f \in Names
    BY <1>1, <1>3, PresentFiles
  <2>2. d.files[f] = NoFile /\ \A g \in Names \ {f} : d.files[g] = disk[Dest(p)].files[g]
    <3> DEFINE e == disk[Dest(p)]
    <3>1. e \in Dir /\ NoFile \in Contents
      BY <1>1, Directories
    <3> HIDE DEF e
    <3>2. /\ With(e, f, NoFile).files[f] = NoFile
          /\ \A g \in Names \ {f} : With(e, f, NoFile).files[g] = e.files[g]
      BY <2>1, <3>1, WithTypes
    <3> QED BY <3>2 DEF e
  <2>3. Changes(p, cmd[p], d)
    BY <1>3
  <2> HIDE DEF d
  <2>4. cmd'[p].at = "remove"
    BY <1>0, <1>1, <2>3 DEF Changes, Command
  <2>5. CopyUnedited(p)'
    BY <2>4, EditElsewhere
  <2>6. src \notin edited /\ Dest(p) \notin edited => \A g \in Names : d.files[g] \in Kept(g)
    BY <1>2, <2>2 DEF Kept
  <2>7. Dest(p) = src => \A g \in Names : d.files[g] \in {NoFile, disk[src].files[g]}
    BY <2>2
  <2> QED BY <1>1, <2>3, <2>5, <2>6, <2>7, EditChanges
<1>4. ASSUME Changes(p, [cmd[p] EXCEPT !.at = "make"], Absent)
      PROVE  EditInv'
  <2> DEFINE r == [cmd[p] EXCEPT !.at = "make"]
  <2>1. Changes(p, r, Absent) /\ \A f \in Names : Absent.files[f] = NoFile
    BY <1>4 DEF Absent
  <2>2. cmd'[p].at = "make" /\ cmd'[p].work = cmd[p].work /\ src' = src
        /\ disk'[Dest(p)] = Absent
    BY <1>1, <2>1 DEF Changes, Command, SkillTypes
  <2>3. CopyUnedited(p)'
    <3>1. cmd'[p].at # "fill" /\ ~Copying(p)' /\ Dest(p)' = Dest(p)
      BY <2>2 DEF Copying, Dest
    <3> QED BY <2>1, <2>2, <3>1 DEF CopyUnedited, Has
  <2> HIDE DEF r
  <2> QED BY <1>1, <2>1, <2>3, EditChanges DEF Kept
<1> QED BY <1>3, <1>4 DEF RemoveAll

\* What is copied comes from the source, and never goes to it.
LEMMA EditCopies ==
    ASSUME SkillInv, EditInv, NEW p \in Commands,
           MakeDir(p) \/ Open(p) \/ Fill(p) \/ CopyEmpty(p)
    PROVE  EditInv'
<1>0. /\ Active(p) /\ SkillTypes /\ cmd[p] \in Command /\ cmd \in [Commands -> Command]
      /\ CmdOK(p) /\ Dest(p) \in Places /\ disk[Dest(p)] \in Dir /\ src \in Places
      /\ cmd[p].list \in Seq(Names)
  <2>1. Active(p)
    BY DEF MakeDir, Open, Fill, CopyEmpty, Active
  <2> QED BY <2>1, AtWork DEF SkillTypes
<1>1. src \notin edited /\ Dest(p) \notin edited =>
         \A f \in Names : disk[Dest(p)].files[f] \in Kept(f)
  BY <1>0 DEF EditInv, Unedited, Kept
<1>2. src \notin edited => CopyUnedited(p) /\ SourceUnedited
  BY DEF EditInv
<1>3. CASE MakeDir(p)
  <2>1. PICK s \in Listings(src) :
           Changes(p, [cmd[p] EXCEPT !.at = "copy", !.list = s],
                      [dir |-> TRUE, files |-> disk[Dest(p)].files])
    BY <1>3 DEF MakeDir
  <2> DEFINE r == [cmd[p] EXCEPT !.at = "copy", !.list = s]
             d == [dir |-> TRUE, files |-> disk[Dest(p)].files]
  <2>2. s \in Seq(Names) /\ Range(s) \subseteq Names
    BY <1>0, Listed DEF Range
  <2>3. Changes(p, r, d) /\ d.files = disk[Dest(p)].files /\ cmd[p].at = "make"
    BY <1>3, <2>1 DEF MakeDir
  <2> HIDE DEF d
  <2>4. /\ cmd'[p].at = "copy" /\ cmd'[p].list = s /\ cmd'[p].work = cmd[p].work
        /\ src' = src /\ disk'[Dest(p)] = d
    BY <1>0, <2>3 DEF Changes, Command, SkillTypes
  <2>5. src \notin edited => CopyUnedited(p)'
    <3>1. cmd'[p].at # "make" /\ cmd'[p].at # "fill" /\ Dest(p)' = Dest(p)
      BY <2>4 DEF Dest
    <3>2. ASSUME src \notin edited, Dest(p) = src
          PROVE  \A f \in Names : disk'[src].files[f] = NoFile
      BY <1>2, <2>3, <2>4, <3>2 DEF CopyUnedited, Has
    <3> QED BY <2>2, <2>4, <3>1, <3>2 DEF CopyUnedited, Has
  <2> HIDE DEF r
  <2> QED BY <1>0, <1>1, <2>3, <2>5, EditChanges
<1>4. CASE Open(p)
  <2> DEFINE f == Head(cmd[p].list)
             c == IF src = Dest(p) THEN Part ELSE disk[src].files[f]
             r == [cmd[p] EXCEPT !.at = "fill", !.data = c]
             e == disk[Dest(p)]
             d == Created(e, f, Part)
  <2>1. /\ Changes(p, r, d) /\ cmd[p].at = "copy" /\ cmd[p].list # <<>>
        /\ Has(src, f) /\ e \in Dir /\ Part \in Contents
    BY <1>0, <1>4, Directories DEF Open
  <2>2. f \in Names /\ f \in Range(cmd[p].list)
    BY <1>0, <2>1, WorkList
  <2> HIDE DEF f, c, e
  <2>3. d.files[f] = Part /\ \A g \in Names \ {f} : d.files[g] = e.files[g]
    <3>1. d.files = With(e, f, Part).files /\ With(e, f, Part).files[f] = Part
          /\ \A g \in Names \ {f} : With(e, f, Part).files[g] = e.files[g]
      BY <2>1, <2>2, WithTypes
    <3> QED BY <3>1
  <2> HIDE DEF d
  <2>4. /\ cmd'[p].at = "fill" /\ cmd'[p].list = cmd[p].list /\ cmd'[p].data = c
        /\ cmd'[p].work = cmd[p].work /\ src' = src
    BY <1>0, <2>1 DEF Changes, Command
  <2>5. src \notin edited => Dest(p) # src /\ c = <<f, 1>>
    <3>1. src \notin edited => Dest(p) # src
      BY <1>2, <2>1, <2>2 DEF CopyUnedited, Copying
    <3>2. src \notin edited => disk[src].files[f] \in {NoFile, <<f, 1>>}
      BY <1>2, <2>2 DEF SourceUnedited
    <3> QED BY <2>1, <3>1, <3>2 DEF c, Has
  <2>6. src \notin edited => CopyUnedited(p)'
    <3>1. cmd'[p].at # "make" /\ Dest(p)' = Dest(p) /\ Head(cmd[p].list) = f
      BY <2>4 DEF Dest, f
    <3> QED BY <2>4, <2>5, <3>1 DEF CopyUnedited
  <2>7. src \notin edited /\ Dest(p) \notin edited => \A g \in Names : d.files[g] \in Kept(g)
    BY <1>1, <2>3 DEF Kept, e
  <2>8. CASE src \notin edited
    <3>1. Dest(p) # src
      BY <2>5, <2>8
    <3> HIDE DEF r
    <3> QED BY <1>0, <2>1, <2>6, <2>7, <3>1, EditChanges
  <2>9. CASE src \in edited
    <3>1. edited' = edited /\ src' = src
      BY <2>1 DEF Changes
    <3> QED BY <2>9, <3>1 DEF EditInv
  <2> QED BY <2>8, <2>9
<1>5. CASE Fill(p)
  <2> DEFINE f == Head(cmd[p].list)
             s == Tail(cmd[p].list)
             e == disk[Dest(p)]
             r == [cmd[p] EXCEPT !.at = "copy", !.list = s, !.data = NoFile]
  <2>7. PICK c \in Reads(p) :
           IF Has(Dest(p), f) THEN Changes(p, r, With(e, f, c)) ELSE Goes(p, r)
    BY <1>5 DEF Fill, Reads
  <2> DEFINE d == With(e, f, c)
  <2>1. /\ IF Has(Dest(p), f) THEN Changes(p, r, d) ELSE Goes(p, r)
        /\ cmd[p].at = "fill" /\ cmd[p].list # <<>> /\ c \in Contents /\ e \in Dir
    <3>1. cmd[p].at = "fill"
      BY <1>5 DEF Fill
    <3>2. cmd[p].list # <<>> /\ cmd[p].data \in Contents
      BY <1>0, <3>1 DEF CmdOK, WorkOK, Command
    <3>3. f \in Names
      BY <1>0, <3>2, WorkList
    <3>4. disk[src].files \in [Names -> Contents]
      BY <1>0 DEF SkillTypes, Dir
    <3> QED BY <1>0, <2>7, <3>1, <3>2, <3>3, <3>4, Directories DEF Reads
  <2>2. f \in Names
    BY <1>0, <2>1, WorkList
  <2> HIDE DEF f, s, e
  <2>3. d.files[f] = c /\ \A g \in Names \ {f} : d.files[g] = e.files[g]
    BY <2>1, <2>2, WithTypes
  <2> HIDE DEF d
  <2>4. cmd'[p].at = "copy" /\ cmd'[p].work = cmd[p].work /\ src' = src /\ edited' = edited
    <3>1. CASE Has(Dest(p), f)
      BY <1>0, <2>1, <3>1 DEF Changes, Command
    <3>2. CASE ~Has(Dest(p), f)
      BY <1>0, <2>1, <3>2 DEF Goes, Command
    <3> QED BY <3>1, <3>2
  <2>5. CASE src \in edited
    BY <2>4, <2>5 DEF EditInv
  <2>6. CASE src \notin edited
    <3>1. Dest(p) # src /\ c \in {<<f, 1>>, Part}
      <4>1. Dest(p) # src /\ cmd[p].data = <<f, 1>>
        BY <1>2, <2>1, <2>6 DEF CopyUnedited, f
      <4>2. disk[src].files[f] \in {NoFile, <<f, 1>>}
        BY <1>2, <2>2, <2>6 DEF SourceUnedited
      <4> QED BY <4>1, <4>2 DEF Reads, Has, f
    <3>2. CopyUnedited(p)'
      <4>1. cmd'[p].at # "make" /\ cmd'[p].at # "fill" /\ Dest(p)' # src'
        BY <2>4, <3>1 DEF Dest
      <4> QED BY <4>1 DEF CopyUnedited
    <3>3. Dest(p) \notin edited => \A g \in Names : d.files[g] \in Kept(g)
      BY <1>1, <2>3, <2>6, <3>1 DEF Kept, e
    <3> HIDE DEF r
    <3>4. CASE Has(Dest(p), f)
      <4>1. Changes(p, r, d)
        BY <2>1, <3>4
      <4> QED BY <1>0, <3>1, <3>2, <3>3, <4>1, EditChanges
    <3>5. CASE ~Has(Dest(p), f)
      <4>1. Goes(p, r)
        BY <2>1, <3>5
      <4> QED BY <3>2, <4>1, EditGoes
    <3> QED BY <3>4, <3>5
  <2> QED BY <2>5, <2>6
<1>6. CASE CopyEmpty(p)
  <2> DEFINE s == Tail(cmd[p].list)
             r == [cmd[p] EXCEPT !.list = s]
             d == [dir |-> TRUE, files |-> disk[Dest(p)].files]
  <2>1. /\ Changes(p, r, d) /\ d.files = disk[Dest(p)].files
        /\ cmd[p].at = "copy" /\ cmd[p].list # <<>>
    BY <1>6 DEF CopyEmpty
  <2>2. Range(s) \subseteq Range(cmd[p].list)
    BY <1>0, <2>1, WorkList
  <2> HIDE DEF s, d
  <2>3. /\ cmd'[p].at = "copy" /\ cmd'[p].list = s /\ cmd'[p].work = cmd[p].work
        /\ src' = src /\ disk'[Dest(p)] = d
    BY <1>0, <2>1 DEF Changes, Command, SkillTypes
  <2>4. src \notin edited => CopyUnedited(p)'
    <3>1. cmd'[p].at # "make" /\ cmd'[p].at # "fill" /\ Dest(p)' = Dest(p)
      BY <2>3 DEF Dest
    <3>2. ASSUME src \notin edited, Dest(p) = src
          PROVE  \A f \in Range(s) : disk'[src].files[f] = NoFile
      BY <1>2, <2>1, <2>2, <2>3, <3>2 DEF CopyUnedited, Copying, Has
    <3> QED BY <2>3, <3>1, <3>2 DEF CopyUnedited, Has
  <2> HIDE DEF r
  <2> QED BY <1>0, <1>1, <2>1, <2>4, EditChanges
<1> QED BY <1>3, <1>4, <1>5, <1>6

\* The next target is looked at.
LEMMA EditReadback ==
    ASSUME SkillInv, EditInv, NEW p \in Commands, Readback(p)
    PROVE  EditInv'
<1>1. CASE ~Has(Dest(p), "SKILL.md") \/ Len(cmd[p].work) = 1
  BY <1>1, EditEnds DEF Readback
<1>2. CASE ~(~Has(Dest(p), "SKILL.md") \/ Len(cmd[p].work) = 1)
  <2> DEFINE w == Tail(cmd[p].work)
             r == [cmd[p] EXCEPT !.at = "stat", !.work = w]
  <2>1. Goes(p, r)
    BY <1>2 DEF Readback
  <2>2. cmd'[p].at = "stat"
    BY <2>1 DEF Goes, SkillInv, SkillTypes, Command
  <2>3. CopyUnedited(p)'
    BY <2>2, EditElsewhere
  <2> HIDE DEF r
  <2> QED BY <2>1, <2>3, EditGoes
<1> QED BY <1>1, <1>2

\* Every step keeps it.
LEMMA EditNext == SkillInv /\ EditInv /\ [Next]_vars => EditInv'
<1> SUFFICES ASSUME SkillInv, EditInv, [Next]_vars PROVE EditInv'
  OBVIOUS
<1>1. ASSUME NEW p \in Commands, Install(p) PROVE EditInv'
  <2>1. CASE Begin(p) \/ Stat(p)
    BY <2>1, EditBefore
  <2>2. CASE RemoveAll(p)
    BY <2>2, EditRemove
  <2>3. CASE MakeDir(p) \/ Open(p) \/ Fill(p) \/ CopyEmpty(p)
    BY <2>3, EditCopies
  <2>4. CASE Readback(p)
    BY <2>4, EditReadback
  <2>5. CASE Fails(p)
    BY <2>5, EditEnds DEF Fails
  <2> QED BY <1>1, <2>1, <2>2, <2>3, <2>4, <2>5 DEF Install
<1>2. ASSUME NEW x \in Places, Rename(x) \/ \E f \in EditedFiles : Edit(x, f)
      PROVE  EditInv'
  BY <1>2, EditWrites DEF Rename, Edit
<1>3. CASE UNCHANGED vars
  <2>1. src' = src /\ disk' = disk /\ edited' = edited /\ cmd' = cmd
    BY <1>3 DEF vars
  <2> QED BY <2>1 DEF EditInv, Unedited, SourceUnedited, CopyUnedited, Copying, Dest, Has
<1> QED BY <1>1, <1>2, <1>3 DEF Next

----------------------------------------------------------------------------
(* What status knows.                                                      *)

\* The contents of the files that are there.
Held(x) == {disk[x].files[f] : f \in {g \in Names : Has(x, g)}}

\* A hash of what is at a place now.
HashOf(hash, x) == NoFile \notin hash /\ disk[x].dir /\ hash = Held(x)

Looking == [at : {"idle", "canon", "stat", "walk", "done"}, target : AllTargets,
            list : Seq(Names), read : Seq(Contents), canon : Seq(Contents),
            hashed : BOOLEAN, shown : {"none", "absent", "no", "YES"},
            touched : SUBSET Places]

\* What has been read, and what is still to be read, of the place it walks.
WalkOK ==
    Walking => /\ NoFile \notin Range(st.read)
               /\ Root \notin st.touched =>
                     /\ disk[Root].dir /\ Range(st.read) \subseteq Held(Root)
                     /\ \A f \in Names : Has(Root, f) =>
                           f \in Range(st.list) \/ disk[Root].files[f] \in Range(st.read)

CanonOK ==
    st.at \in {"stat", "walk"} /\ src \notin st.touched /\ st.canon # NoHash =>
        HashOf(Range(st.canon), src)

ShownOK ==
    /\ st.shown = "no" => st.at = "done"
    /\ st.shown = "no" /\ st.hashed /\ {src, st.target} \intersect st.touched = {} =>
          disk[src].dir /\ disk[st.target].dir /\ Held(st.target) = Held(src)

StatusInv ==
    /\ st \in Looking /\ (st.at = "idle" => st = Waiting)
    /\ st.at = "stat" => st.read = <<>>
    /\ WalkOK /\ CanonOK /\ ShownOK

\* Status only looks: what is proved of the commands holds beside it.
LEMMA StatusOnlyLooks == StatusSpec => Spec
<1>1. StatusInit => Init
  BY DEF StatusInit
<1>2. [StatusNext]_<<vars, st>> => [Next]_vars
  BY DEF StatusNext, Meanwhile
<1> QED BY <1>1, <1>2, PTL DEF StatusSpec, Spec

\* Before status has begun.
LEMMA StatusStart == StatusInit => StatusInv
<1> SUFFICES ASSUME StatusInit PROVE StatusInv
  OBVIOUS
<1>1. Targets[1] \in AllTargets /\ NoHash \in Seq(Contents)
      /\ <<>> \in Seq(Names) /\ <<>> \in Seq(Contents)
  <2>1. Targets[1] \in AllTargets
    BY TargetsListed, WorkList
  <2>2. NoFile \in Contents
    BY Directories
  <2> QED BY <2>1, <2>2 DEF NoHash
<1>2. st = Waiting /\ st.at = "idle" /\ st.shown = "none" /\ st \in Looking
  BY <1>1 DEF StatusInit, Waiting, Looking
<1> QED BY <1>2 DEF StatusInv, WalkOK, CanonOK, ShownOK, Walking

\* Nothing but status looks: the directories are what they were.
Still == src' = src /\ disk' = disk

\* A target is settled.
LEMMA PrintsKeeps ==
    ASSUME SkillInv, StatusInv, Still, NEW how \in {"absent", "no", "YES"},
           NEW hashed \in BOOLEAN, Prints(how, hashed),
           how = "no" /\ hashed /\ {src, st.target} \intersect st.touched = {} =>
              disk[src].dir /\ disk[st.target].dir /\ Held(st.target) = Held(src)
    PROVE  StatusInv'
<1>1. st \in Looking /\ <<>> \in Seq(Names) /\ <<>> \in Seq(Contents)
      /\ NoHash \in Seq(Contents)
  BY Directories DEF StatusInv, NoHash
<1>2. /\ st'.at = "done" /\ st'.shown = how /\ st'.hashed = hashed
      /\ st'.target = st.target /\ st'.touched = st.touched /\ st' \in Looking
  BY <1>1 DEF Prints, Looking
<1>3. ShownOK'
  <2>1. ASSUME st'.shown = "no", st'.hashed, {src', st'.target} \intersect st'.touched = {}
        PROVE  disk'[src'].dir /\ disk'[st'.target].dir /\ Held(st.target)' = Held(src)'
    <3>1. how = "no" /\ hashed /\ {src, st.target} \intersect st.touched = {}
      BY <1>2, <2>1 DEF Still
    <3>2. disk[src].dir /\ disk[st.target].dir /\ Held(st.target) = Held(src)
      BY <3>1
    <3>3. Held(src)' = Held(src) /\ Held(st.target)' = Held(st.target)
      BY <1>2 DEF Still, Held, Has
    <3> QED BY <1>2, <3>2, <3>3 DEF Still
  <2> QED BY <1>2, <2>1 DEF ShownOK
<1>4. WalkOK' /\ CanonOK'
  BY <1>2 DEF WalkOK, CanonOK, Walking
<1> QED BY <1>2, <1>3, <1>4 DEF StatusInv

\* A walk begins.
LEMMA WalkBegins ==
    ASSUME SkillInv, StatusInv, Still, NEW at \in {"canon", "walk"}, NEW t \in AllTargets,
           NEW x \in Places, x = (IF at = "canon" THEN src ELSE t),
           NEW l \in Listings(x), disk[x].dir, st.read = <<>>, st.shown # "no",
           st' = [st EXCEPT !.at = at, !.target = t, !.list = l],
           at = "walk" => st.at = "stat"
    PROVE  StatusInv'
<1>1. st \in Looking /\ SkillTypes
  BY DEF StatusInv, SkillInv
<1>2. l \in Seq(Names) /\ \A f \in Names : Has(x, f) => f \in Range(l)
  BY <1>1, Listed
<1>3. /\ st'.at = at /\ st'.target = t /\ st'.list = l /\ st'.read = <<>>
      /\ st'.canon = st.canon /\ st'.shown = st.shown /\ st'.touched = st.touched
      /\ st' \in Looking
  BY <1>1, <1>2 DEF Looking
<1>4. Root' = x
  BY <1>3 DEF Root, Still
<1>5. WalkOK'
  <2>1. Range(st'.read) = {}
    BY <1>3 DEF Range
  <2> QED BY <1>2, <1>3, <1>4, <2>1 DEF WalkOK, Still, Has
<1>6. CanonOK'
  BY <1>3 DEF StatusInv, CanonOK, HashOf, Still, Held, Has
<1>7. ShownOK'
  BY <1>3 DEF ShownOK
<1> QED BY <1>3, <1>5, <1>6, <1>7 DEF StatusInv

\* A file is read, or turns out not to be there.
LEMMA ReadKeeps ==
    ASSUME SkillInv, StatusInv, Still, Read \/ WalkEmpty
    PROVE  StatusInv'
<1> DEFINE f == Head(st.list)
           l == Tail(st.list)
<1>1. /\ st \in Looking /\ SkillTypes /\ Walking /\ st.list \in Seq(Names) /\ st.list # <<>>
      /\ st.read \in Seq(Contents) /\ st.shown # "no"
  BY DEF StatusInv, SkillInv, Read, WalkEmpty, Walking, Looking, ShownOK
<1>2. f \in Names /\ l \in Seq(Names) /\ Range(st.list) = {f} \union Range(l)
  BY <1>1, WorkList
<1>3. Root \in Places
  BY <1>1 DEF Root, Looking, SkillTypes, Places
<1> DEFINE c == disk[Root].files[f]
<1>4. c \in Contents
  BY <1>1, <1>2, <1>3 DEF SkillTypes, Dir
<1>5. ASSUME NEW r \in Seq(Contents), st' = [st EXCEPT !.list = l, !.read = r],
             NoFile \notin Range(r), Range(st.read) \subseteq Range(r),
             Range(r) \subseteq Range(st.read) \union {c}, Has(Root, f) => c \in Range(r),
             Has(Root, f) \/ Range(r) = Range(st.read)
      PROVE  StatusInv'
  <2> HIDE DEF f, l, c
  <2>1. /\ st'.at = st.at /\ st'.target = st.target /\ st'.list = l /\ st'.read = r
        /\ st'.canon = st.canon /\ st'.shown = st.shown /\ st'.touched = st.touched
        /\ st' \in Looking
    BY <1>1, <1>2, <1>5 DEF Looking
  <2>2. Root' = Root
    BY <2>1 DEF Root, Still
  <2>3. ASSUME Root \notin st.touched
        PROVE  /\ disk[Root].dir /\ Range(r) \subseteq Held(Root)
               /\ \A g \in Names : Has(Root, g) =>
                     g \in Range(l) \/ disk[Root].files[g] \in Range(r)
    <3>1. /\ disk[Root].dir /\ Range(st.read) \subseteq Held(Root)
          /\ \A g \in Names : Has(Root, g) =>
                g \in Range(st.list) \/ disk[Root].files[g] \in Range(st.read)
      BY <1>1, <2>3 DEF StatusInv, WalkOK
    <3>2. Has(Root, f) => c \in Held(Root)
      BY <1>2 DEF Held, c
    <3>3. Range(r) \subseteq Held(Root)
      BY <1>5, <3>1, <3>2
    <3>4. ASSUME NEW g \in Names, Has(Root, g)
          PROVE  g \in Range(l) \/ disk[Root].files[g] \in Range(r)
      <4>1. CASE g = f
        BY <1>5, <3>4, <4>1 DEF c
      <4>2. CASE g # f
        BY <1>2, <1>5, <3>1, <3>4, <4>2
      <4> QED BY <4>1, <4>2
    <3> QED BY <3>1, <3>3, <3>4
  <2>4. WalkOK'
    BY <1>5, <2>1, <2>2, <2>3 DEF WalkOK, Still, Held, Has
  <2>5. CanonOK'
    BY <2>1 DEF StatusInv, CanonOK, HashOf, Still, Held, Has
  <2>6. ShownOK'
    BY <1>1, <2>1 DEF ShownOK
  <2>7. st'.at # "idle" /\ st'.at # "stat"
    BY <1>1, <2>1 DEF Walking
  <2> QED BY <2>1, <2>4, <2>5, <2>6, <2>7 DEF StatusInv
<1>6. CASE Read
  <2> DEFINE r == Append(st.read, c)
  <2>1. st' = [st EXCEPT !.list = l, !.read = r] /\ Has(Root, f)
    BY <1>6 DEF Read
  <2>2. NoFile \notin Range(st.read) /\ c # NoFile
    BY <1>1, <2>1 DEF StatusInv, WalkOK, Has
  <2> HIDE DEF c
  <2>3. r \in Seq(Contents) /\ Range(r) = Range(st.read) \union {c}
    <3>1. /\ r \in Seq(Contents) /\ Len(r) = Len(st.read) + 1 /\ Len(st.read) \in Nat
          /\ DOMAIN r = 1..(Len(st.read) + 1) /\ DOMAIN st.read = 1..Len(st.read)
          /\ r[Len(st.read) + 1] = c /\ \A i \in 1..Len(st.read) : r[i] = st.read[i]
      BY <1>1, <1>4
    <3> HIDE DEF r
    <3>2. \A i \in 1..(Len(st.read) + 1) : i \in 1..Len(st.read) \/ i = Len(st.read) + 1
      BY <3>1
    <3>3. \A i \in 1..Len(st.read) : i \in 1..(Len(st.read) + 1)
      BY <3>1
    <3>4. Len(st.read) + 1 \in 1..(Len(st.read) + 1)
      BY <3>1
    <3> QED BY <3>1, <3>2, <3>3, <3>4 DEF Range
  <2> HIDE DEF r, f, l
  <2> QED BY <1>5, <2>1, <2>2, <2>3
<1>7. CASE WalkEmpty
  <2>1. st' = [st EXCEPT !.list = l] /\ ~Has(Root, f)
    BY <1>7 DEF WalkEmpty
  <2>2. st' = [st EXCEPT !.list = l, !.read = st.read]
    BY <1>1, <2>1 DEF Looking
  <2>3. NoFile \notin Range(st.read)
    BY <1>1 DEF StatusInv, WalkOK
  <2> HIDE DEF f, l, c
  <2> QED BY <1>1, <1>5, <2>1, <2>2, <2>3
<1> QED BY <1>6, <1>7

\* A walk ends with the hash of all it has found, or with none.
LEMMA HashedKeeps ==
    ASSUME SkillInv, StatusInv, Still, Walking, NEW hash \in Seq(Contents), Hashed(hash),
           hash # NoHash => /\ NoFile \notin Range(hash)
                            /\ Root \notin st.touched => HashOf(Range(hash), Root)
    PROVE  StatusInv'
<1>1. st \in Looking /\ st.at \in {"canon", "walk"} /\ st.shown # "no"
  BY DEF StatusInv, Walking, ShownOK
<1>2. CASE st.at = "canon"
  <2>1. st' = [st EXCEPT !.at = "stat", !.list = <<>>, !.read = <<>>, !.canon = hash]
    BY <1>2 DEF Hashed
  <2>5. <<>> \in Seq(Names) /\ <<>> \in Seq(Contents)
    OBVIOUS
  <2>2. /\ st'.at = "stat" /\ st'.canon = hash /\ st'.shown = st.shown /\ st'.read = <<>>
        /\ st'.touched = st.touched /\ st' \in Looking
    BY <1>1, <2>1, <2>5 DEF Looking
  <2>3. Root = src
    BY <1>2 DEF Root
  <2>4. CanonOK'
    BY <2>2, <2>3 DEF CanonOK, HashOf, Still, Held, Has
  <2>6. WalkOK' /\ ShownOK'
    BY <1>1, <2>2 DEF WalkOK, ShownOK, Walking
  <2> QED BY <2>2, <2>4, <2>6 DEF StatusInv
<1>3. CASE st.at = "walk"
  <2> DEFINE how == IF hash \in {NoHash, st.canon} THEN "no" ELSE "YES"
  <2>1. Prints(how, hash # NoHash) /\ Root = st.target
    BY <1>1, <1>3 DEF Hashed, Root
  <2>2. ASSUME how = "no", hash # NoHash, {src, st.target} \intersect st.touched = {}
        PROVE  disk[src].dir /\ disk[st.target].dir /\ Held(st.target) = Held(src)
    <3>1. hash = st.canon
      BY <2>2
    <3>2. HashOf(Range(hash), st.target)
      BY <2>1, <2>2
    <3>3. HashOf(Range(st.canon), src)
      BY <1>3, <2>2, <3>1 DEF StatusInv, CanonOK
    <3> QED BY <3>1, <3>2, <3>3 DEF HashOf
  <2>3. how \in {"absent", "no", "YES"}
    OBVIOUS
  <2> HIDE DEF how
  <2> DEFINE hashed == hash # NoHash
  <2>4. hashed \in BOOLEAN /\ Prints(how, hashed)
    BY <2>1
  <2>5. how = "no" /\ hashed /\ {src, st.target} \intersect st.touched = {} =>
           disk[src].dir /\ disk[st.target].dir /\ Held(st.target) = Held(src)
    BY <2>2
  <2> HIDE DEF hashed
  <2> QED BY <2>3, <2>4, <2>5, PrintsKeeps
<1> QED BY <1>1, <1>2, <1>3

\* Every step of status.
LEMMA StatusKeeps ==
    ASSUME SkillInv, StatusInv, Status, UNCHANGED vars
    PROVE  StatusInv'
<1>0. Still /\ st \in Looking /\ src \in Places /\ AllTargets \subseteq Places
  BY DEF Still, vars, StatusInv, SkillInv, SkillTypes, Places
<1>1. CASE StatusBegin
  <2>4. st = Waiting
    BY <1>1 DEF StatusBegin, StatusInv
  <2>1. st.read = <<>> /\ st.shown = "none" /\ st.target \in AllTargets /\ st.canon = NoHash
    <3>1. st.target \in AllTargets
      BY <1>0 DEF Looking
    <3> QED BY <2>4, <3>1 DEF Waiting
  <2>2. CASE disk[src].dir
    <3>1. PICK l \in Listings(src) : st' = [st EXCEPT !.at = "canon", !.list = l]
      BY <1>1, <2>2 DEF StatusBegin
    <3>2. st' = [st EXCEPT !.at = "canon", !.target = st.target, !.list = l]
      BY <1>0, <3>1 DEF Looking
    <3> QED BY <1>0, <2>1, <2>2, <3>2, WalkBegins
  <2>3. CASE ~disk[src].dir
    <3>1. st' = [st EXCEPT !.at = "stat"]
      BY <1>1, <2>3 DEF StatusBegin
    <3>2. /\ st'.at = "stat" /\ st'.canon = NoHash /\ st'.shown = "none" /\ st'.read = <<>>
          /\ st' \in Looking
      BY <1>0, <2>1, <3>1 DEF Looking
    <3> QED BY <3>2 DEF StatusInv, WalkOK, CanonOK, ShownOK, Walking
  <2> QED BY <2>2, <2>3
<1>2. CASE StatusStat
  <2>1. CASE Prints("absent", FALSE)
    BY <1>0, <2>1, PrintsKeeps
  <2>2. CASE \E t \in AllTargets : \E l \in Listings(t) :
               disk[t].dir /\ st' = [st EXCEPT !.at = "walk", !.target = t, !.list = l]
    <3>0. PICK t \in AllTargets : \E l \in Listings(t) :
             disk[t].dir /\ st' = [st EXCEPT !.at = "walk", !.target = t, !.list = l]
      BY <2>2
    <3>1. PICK l \in Listings(t) :
             disk[t].dir /\ st' = [st EXCEPT !.at = "walk", !.target = t, !.list = l]
      BY <3>0
    <3>2. st.at = "stat" /\ st.read = <<>> /\ st.shown # "no"
      BY <1>2 DEF StatusStat, StatusInv, ShownOK
    <3> QED BY <1>0, <3>1, <3>2, WalkBegins
  <2> QED BY <1>2, <2>1, <2>2 DEF StatusStat
<1>3. CASE Read \/ WalkEmpty
  BY <1>0, <1>3, ReadKeeps
<1>4. CASE WalkEnds
  <2>1. Walking /\ st.list = <<>> /\ Hashed(st.read) /\ st.read \in Seq(Contents)
    BY <1>0, <1>4 DEF WalkEnds, Looking
  <2>2. NoFile \notin Range(st.read)
    BY <2>1 DEF StatusInv, WalkOK
  <2>3. ASSUME Root \notin st.touched PROVE HashOf(Range(st.read), Root)
    <3>1. Range(st.list) = {}
      BY <2>1 DEF Range
    <3>2. /\ disk[Root].dir /\ Range(st.read) \subseteq Held(Root)
          /\ \A f \in Names : Has(Root, f) => disk[Root].files[f] \in Range(st.read)
      BY <2>1, <2>3, <3>1 DEF StatusInv, WalkOK
    <3> QED BY <2>2, <3>2 DEF HashOf, Held
  <2> QED BY <1>0, <2>1, <2>2, <2>3, HashedKeeps
<1>5. CASE WalkFails
  <2>1. NoHash \in Seq(Contents)
    BY Directories DEF NoHash
  <2> QED BY <1>0, <1>5, <2>1, HashedKeeps DEF WalkFails
<1> QED BY <1>1, <1>2, <1>3, <1>4, <1>5 DEF Status

\* A command or another program goes on, and what it changes is noted.
LEMMA MeanwhileKeeps ==
    ASSUME SkillInv, StatusInv, Meanwhile
    PROVE  StatusInv'
<1>1. st \in Looking /\ src' = src /\ st.at # "done"
  <2>1. src' = src
    BY DEF Meanwhile, Next, Install, Begin, Stat, RemoveAll, MakeDir, Open, Fill, CopyEmpty,
           Readback, Fails, Ends, Goes, Changes, Rename, Edit, Writes
  <2> QED BY <2>1 DEF Meanwhile, StatusInv
<1>2. CASE st.at = "idle"
  <2>1. st' = st /\ st = Waiting
    BY <1>2 DEF Meanwhile, StatusInv
  <2>2. st'.at = "idle" /\ st'.shown = "none"
    BY <2>1 DEF Waiting
  <2> QED BY <1>1, <2>1, <2>2 DEF StatusInv, WalkOK, CanonOK, ShownOK, Walking
<1>3. CASE st.at # "idle"
  <2> DEFINE T == st.touched \union {x \in Watched : disk'[x] # disk[x]}
  <2>1. st' = [st EXCEPT !.touched = T]
    BY <1>3 DEF Meanwhile
  <2>2. T \in SUBSET Places
    BY <1>1 DEF Watched, Looking, SkillInv, SkillTypes, Places
  <2>3. \A x \in Watched : x \notin T => x \notin st.touched /\ disk'[x] = disk[x]
    OBVIOUS
  <2> HIDE DEF T
  <2>4. /\ st'.at = st.at /\ st'.target = st.target /\ st'.list = st.list
        /\ st'.read = st.read /\ st'.canon = st.canon /\ st'.shown = st.shown
        /\ st'.touched = T /\ st' \in Looking
    BY <1>1, <2>1, <2>2 DEF Looking
  <2>5. Root' = Root /\ Walking' = Walking
    BY <1>1, <2>4 DEF Root, Walking
  <2>6. WalkOK'
    <3>1. Walking => Root \in Watched
      BY DEF Walking, Root, Watched
    <3>2. ASSUME Walking, Root \notin T PROVE disk'[Root] = disk[Root] /\ Root \notin st.touched
      BY <2>3, <3>1, <3>2
    <3>3. Walking /\ Root \notin T => Held(Root)' = Held(Root)
      BY <2>5, <3>2 DEF Held, Has
    <3> QED BY <2>4, <2>5, <3>2, <3>3 DEF StatusInv, WalkOK, Has
  <2>7. CanonOK'
    <3>1. src \notin T => disk'[src] = disk[src] /\ src \notin st.touched
      BY <2>3 DEF Watched
    <3>2. src \notin T => Held(src)' = Held(src)
      BY <1>1, <3>1 DEF Held, Has
    <3> QED BY <1>1, <2>4, <3>1, <3>2 DEF StatusInv, CanonOK, HashOf
  <2>8. ShownOK'
    BY <1>1, <2>4 DEF StatusInv, ShownOK
  <2> QED BY <1>3, <2>4, <2>6, <2>7, <2>8 DEF StatusInv
<1> QED BY <1>2, <1>3

\* What a "no" that rests on a hash says, whatever interrupted or overlapping
\* commands have left and whoever is at work while status looks (Status,
\* computeDirHash): the contents are the same, and as nobody has edited them, the
\* files are, although the hash leaves out their names.
THEOREM CurrentIsCurrent == StatusSpec => []CurrentIsComplete
<1>1. ASSUME SkillInv, EditInv, StatusInv PROVE CurrentIsComplete
  <2> DEFINE t == st.target
  <2> SUFFICES ASSUME st.shown = "no", st.hashed,
                      {src, t} \intersect (st.touched \union edited) = {}
               PROVE  disk[t] = disk[src]
    BY DEF CurrentIsComplete
  <2>1. /\ disk[t].dir /\ disk[src].dir /\ Held(t) = Held(src)
        /\ disk[t] \in Dir /\ disk[src] \in Dir
        /\ t \in Places \ edited /\ src \in Places \ edited
    BY <1>1 DEF StatusInv, ShownOK, Looking, SkillInv, SkillTypes, Places
  <2> HIDE DEF t
  <2>2. ASSUME NEW f \in Names
        PROVE  /\ disk[t].files[f] \in {NoFile, Part, <<f, 0>>, <<f, 1>>}
               /\ disk[src].files[f] \in {NoFile, <<f, 1>>}
    BY <1>1, <2>1 DEF EditInv, Unedited, SourceUnedited
  <2>3. ASSUME NEW f \in Names PROVE disk[t].files[f] = disk[src].files[f]
    <3>1. CASE Has(src, f)
      <4>1. disk[src].files[f] = <<f, 1>>
        BY <2>2, <3>1 DEF Has
      <4>2. PICK g \in Names : disk[t].files[g] = <<f, 1>>
        BY <2>1, <3>1, <4>1 DEF Held
      <4>3. f = g
        BY <2>2, <4>2 DEF NoFile, Part
      <4> QED BY <4>1, <4>2, <4>3
    <3>2. CASE Has(t, f)
      <4>1. PICK g \in Names : disk[src].files[g] = disk[t].files[f] /\ Has(src, g)
        BY <2>1, <3>2 DEF Held
      <4>2. disk[t].files[f] = <<g, 1>>
        BY <2>2, <4>1 DEF Has
      <4>3. f = g
        BY <2>2, <4>2 DEF NoFile, Part
      <4> QED BY <4>1, <4>3
    <3> QED BY <3>1, <3>2 DEF Has
  <2> QED BY <2>1, <2>3, SameDirectory
<1>2. StatusInit => SkillInv /\ EditInv /\ StatusInv
  BY SkillInit, EditInit, StatusStart DEF StatusInit
<1>3. SkillInv /\ EditInv /\ StatusInv /\ [StatusNext]_<<vars, st>> =>
         SkillInv' /\ EditInv' /\ StatusInv'
  <2> SUFFICES ASSUME SkillInv, EditInv, StatusInv, [StatusNext]_<<vars, st>>
               PROVE  SkillInv' /\ EditInv' /\ StatusInv'
    OBVIOUS
  <2>1. CASE Meanwhile
    <3>1. [Next]_vars
      BY <2>1 DEF Meanwhile
    <3> QED BY <2>1, <3>1, SkillNext, EditNext, MeanwhileKeeps
  <2>2. CASE Status /\ UNCHANGED vars
    <3>1. SkillInv' /\ EditInv'
      BY <2>2, SkillNext, EditNext
    <3> QED BY <2>2, <3>1, StatusKeeps
  <2>3. CASE UNCHANGED <<vars, st>>
    <3>1. UNCHANGED vars /\ st' = st
      BY <2>3
    <3>2. src' = src /\ disk' = disk
      BY <3>1 DEF vars
    <3>4. WalkOK' /\ CanonOK'
      BY <3>1, <3>2 DEF StatusInv, WalkOK, CanonOK, Walking, Root, HashOf, Held, Has
    <3>5. ShownOK'
      <4>1. Held(src)' = Held(src) /\ Held(st.target)' = Held(st.target)
        BY <3>1, <3>2 DEF Held, Has
      <4> QED BY <3>1, <3>2, <4>1 DEF StatusInv, ShownOK
    <3>3. StatusInv'
      BY <3>1, <3>4, <3>5 DEF StatusInv
    <3> QED BY <3>1, <3>3, SkillNext, EditNext
  <2> QED BY <2>1, <2>2, <2>3 DEF StatusNext
<1> QED BY <1>1, <1>2, <1>3, PTL DEF StatusSpec

=============================================================================
