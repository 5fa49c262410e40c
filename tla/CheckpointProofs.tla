-------------------------- MODULE CheckpointProofs --------------------------
(***************************************************************************)
(* Proofs about CheckpointRevert, for any commands, files and versions,    *)
(* with any failures and kills: its types, that a reversal can be undone,  *)
(* that it restores what it says, follows the plan it printed and is       *)
(* compensated when it fails, and that no content is lost.                 *)
(*                                                                         *)
(* The invariant has three parts.  StageOK says what a command has to show *)
(* for where it is, and holds whatever the others do: a checkpoint, once   *)
(* in the database, keeps its files.  DataOK relates it to the workspace,  *)
(* for as long as nobody else wrote to its files.  KeptOK says that what a *)
(* command may take away is held by a checkpoint, whoever put it there.    *)
(***************************************************************************)
EXTENDS CheckpointRevert, WellFoundedInduction, TLAPS

\* Partial functions on the paths.
Partial(S) == UNION {[D -> S] : D \in SUBSET Paths}

Tellings == {"nothing", "created", "reverted", "unaudited", "failed", "cancelled",
             "rolled_back", "rollback_failed", "killed"}

Types ==
    /\ ws \in [Paths -> File]
    /\ status \in [Commands -> {"NONE", "ACTIVE", "REVERTED"}]
    /\ safety \in [Commands -> Commands \union {NoCommand}]
    /\ content \in [Commands -> Partial(File)]
    /\ \A i \in Commands : status[i] = "NONE" <=> DOMAIN content[i] = {}
    /\ at \in [Commands -> Labels]
    /\ target \in [Commands -> Commands \union {NoCommand}]
    /\ todo \in [Commands -> SUBSET Paths]
    /\ read \in [Commands -> Partial(File)]
    /\ plan \in [Commands -> Partial({"restore", "delete", "unchanged"})]
    /\ backup \in [Commands -> File]
    /\ told \in [Commands -> Tellings]
    /\ touched \in [Commands -> SUBSET (Commands \union {"agent"})]
    /\ edits \in 0..MaxEdits

Reverting(o) == target[o] # NoCommand
Applying(o) == at[o] \in {"apply", "swap", "undo", "unswap", "mark"}
Done(o) == at[o] = "audit" \/ told[o] \in {"reverted", "unaudited"}

\* What a command has read, planned and left to do, by where it is.
StageOK(o) ==
    /\ at[o] \in {"idle", "plan", "prompt", "capture", "insert"} => status[o] = "NONE"
    /\ at[o] \in {"idle", "plan", "prompt"} => read[o] = Empty
    /\ at[o] = "idle" => target[o] = NoCommand /\ plan[o] = Empty
    /\ Reverting(o) => target[o] \in Commands \ {o} /\ status[target[o]] # "NONE"
    /\ at[o] \in {"plan", "prompt"} \/ Applying(o) => Reverting(o)
    /\ at[o] \in {"plan", "capture", "swap", "unswap"} => todo[o] # {}
    /\ at[o] = "plan" => DOMAIN plan[o] \union todo[o] = Files(o)
    /\ at[o] \in {"prompt", "capture", "insert"} /\ Reverting(o) => DOMAIN plan[o] = Files(o)
    /\ at[o] = "capture" /\ Reverting(o) => DOMAIN read[o] \union todo[o] = Files(o)
    /\ at[o] = "insert" => DOMAIN read[o] # {}
    /\ at[o] = "insert" /\ Reverting(o) => DOMAIN read[o] = Files(o)
    /\ Applying(o) => status[o] # "NONE" /\ todo[o] \subseteq Files(o)
    /\ at[o] = "mark" => todo[o] = {}
    /\ Reverting(o) /\ status[o] # "NONE" => DOMAIN content[o] = Files(o)
    /\ told[o] # "nothing" => at[o] = "done"
    /\ told[o] = "rolled_back" => Reverting(o) /\ status[o] # "NONE"
    /\ Reverting(o) /\ Done(o) => status[target[o]] = "REVERTED" /\ safety[target[o]] = o

\* A checkpoint that was reverted names the one taken before.
SafetyOK(i) ==
    status[i] = "REVERTED" =>
        LET s == safety[i]
        IN  /\ s \in Commands \ {i} /\ target[s] = i
            /\ status[s] # "NONE" /\ DOMAIN content[s] = DOMAIN content[i]

\* The workspace as a reversal has planned, captured and changed it.
Planned(o, p) == plan[o][p] = Step(content[target[o]][p], ws[p])
Restored(o, p) == ws[p] = content[target[o]][p]
PutBack(o, p) == ws[p] = content[o][p]
DataOK(o) ==
    Reverting(o) /\ touched[o] = {} =>
        /\ at[o] = "plan" => \A p \in DOMAIN plan[o] : Planned(o, p)
        /\ at[o] \in {"prompt", "capture", "insert"} => \A p \in Files(o) : Planned(o, p)
        /\ at[o] \in {"capture", "insert"} => \A p \in DOMAIN read[o] : read[o][p] = ws[p]
        /\ status[o] # "NONE" =>
              \A p \in Files(o) : plan[o][p] = Step(content[target[o]][p], content[o][p])
        /\ at[o] \in {"apply", "swap"} => \A p \in Files(o) \ todo[o] : Restored(o, p)
        /\ at[o] = "mark" \/ Done(o) => \A p \in Files(o) : Restored(o, p)
        /\ at[o] \in {"undo", "unswap"} => \A p \in Files(o) \ todo[o] : PutBack(o, p)
        /\ told[o] = "rolled_back" => \A p \in Files(o) : PutBack(o, p)

\* Some checkpoint in the database holds this content for this path.
Held(p, x) == \E i \in Commands : p \in DOMAIN content[i] /\ content[i][p] = x
Kept(p) == ws[p] = Absent \/ Held(p, ws[p])

\* What a reversal may take away from a path is held, and so is what it has
\* renamed aside; before its own checkpoint is written, up to what it read.
KeptOK(o) ==
    /\ at[o] \in {"capture", "insert"} /\ Reverting(o) =>
          \A p \in DOMAIN read[o] : Kept(p) \/ ws[p] = read[o][p]
    /\ Applying(o) => \A p \in Files(o) : Kept(p)
    /\ at[o] \in {"swap", "unswap"} =>
          backup[o] = Absent \/ Held(First(todo[o]), backup[o])
    /\ at[o] \notin {"swap", "unswap"} => backup[o] = Absent

RInv == /\ Types
        /\ \A o \in Commands : StageOK(o) /\ DataOK(o)
        /\ \A i \in Commands : SafetyOK(i)

KInv == \A o \in Commands : KeptOK(o)

----------------------------------------------------------------------------
(* The operators of the model.                                             *)

\* Every nonempty set of naturals has a least element.
LEMMA LeastOfNat == ASSUME NEW S \in SUBSET Nat, S # {} PROVE \E p \in S : \A q \in S : p <= q
<1>1. \A x, y \in Nat : x < y => <<x, y>> \in OpToRel(<, Nat)
  BY DEF OpToRel
<1>2. PICK p \in S : \A q \in S : ~(<<q, p>> \in OpToRel(<, Nat))
  BY NatLessThanWellFounded, WFMin, Zenon
<1>3. \A q \in S : ~(q < p)
  BY <1>1, <1>2, Zenon
<1> QED BY <1>3

\* The first file of a list that is not empty is on it.
LEMMA FirstIsIn == ASSUME NEW S \in SUBSET Paths, S # {} PROVE First(S) \in S
<1>1. \E p \in S : \A q \in S : p <= q
  BY LeastOfNat, PathAssumption
<1> QED BY <1>1 DEF First

\* With adds a path, or changes the value at one.
LEMMA WithSets ==
    ASSUME NEW T, NEW f \in Partial(T), NEW p \in Paths, NEW x \in T
    PROVE  With(f, p, x) \in Partial(T)
<1>1. PICK D \in SUBSET Paths : f \in [D -> T]
  BY DEF Partial
<1>2. D \union {p} \in SUBSET Paths
  BY <1>1
<1>3. With(f, p, x) \in [D \union {p} -> T]
  BY <1>1 DEF With
<1> QED BY <1>2, <1>3 DEF Partial

\* Nothing is read or planned at first.
LEMMA EmptyIsPartial == ASSUME NEW T PROVE Empty \in Partial(T) /\ DOMAIN Empty = {}
<1>1. Empty \in [{} -> T] /\ {} \in SUBSET Paths
  BY DEF Empty
<1> QED BY <1>1 DEF Partial

\* A partial function is on paths.
LEMMA PartialIsOnPaths ==
    ASSUME NEW T, NEW f \in Partial(T)
    PROVE  DOMAIN f \in SUBSET Paths /\ f \in [DOMAIN f -> T] /\ \A p \in DOMAIN f : f[p] \in T
BY DEF Partial

\* Step as the docs put it.
LEMMA StepSays ==
    ASSUME NEW saved, NEW found
    PROVE  Step(saved, found) = IF found = saved THEN "unchanged"
                                ELSE IF saved = Absent THEN "delete" ELSE "restore"
BY DEF Step

----------------------------------------------------------------------------
(* Types.                                                                  *)

\* Where a command goes on its own way, and writes no file and no row.
OwnTypes ==
    /\ at \in [Commands -> Labels]
    /\ target \in [Commands -> Commands \union {NoCommand}]
    /\ todo \in [Commands -> SUBSET Paths]
    /\ read \in [Commands -> Partial(File)]
    /\ plan \in [Commands -> Partial({"restore", "delete", "unchanged"})]
    /\ backup \in [Commands -> File]
    /\ told \in [Commands -> Tellings]
StoreTypes ==
    /\ status \in [Commands -> {"NONE", "ACTIVE", "REVERTED"}]
    /\ safety \in [Commands -> Commands \union {NoCommand}]
    /\ content \in [Commands -> Partial(File)]
    /\ \A i \in Commands : status[i] = "NONE" <=> DOMAIN content[i] = {}
FileTypes ==
    /\ ws \in [Paths -> File]
    /\ touched \in [Commands -> SUBSET (Commands \union {"agent"})]

\* The types in parts, since each action writes to few of them.
LEMMA TypesParts == Types <=> OwnTypes /\ StoreTypes /\ FileTypes /\ edits \in 0..MaxEdits
BY DEF Types, OwnTypes, StoreTypes, FileTypes

LEMMA TypesNext == OwnTypes' /\ StoreTypes' /\ FileTypes' /\ edits' \in 0..MaxEdits => Types'
BY DEF Types, OwnTypes, StoreTypes, FileTypes

\* The types at the start; the lemmas below take them through each action.
LEMMA InitTypes == Init => Types
<1> SUFFICES ASSUME Init PROVE Types
  OBVIOUS
<1>1. Empty \in Partial(File) /\ Empty \in Partial({"restore", "delete", "unchanged"})
      /\ DOMAIN Empty = {}
  BY EmptyIsPartial
<1>2. Absent \in File /\ 0 \in 0..MaxEdits
  BY EditAssumption DEF File
<1>3. OwnTypes
  <2>1. at \in [Commands -> Labels] /\ target \in [Commands -> Commands \union {NoCommand}]
    BY DEF Init, Labels
  <2>2. todo \in [Commands -> SUBSET Paths] /\ told \in [Commands -> Tellings]
    BY DEF Init, Tellings
  <2>3. /\ read \in [Commands -> Partial(File)] /\ backup \in [Commands -> File]
        /\ plan \in [Commands -> Partial({"restore", "delete", "unchanged"})]
    BY <1>1, <1>2 DEF Init
  <2> QED BY <2>1, <2>2, <2>3 DEF OwnTypes
<1>4. StoreTypes
  BY <1>1 DEF Init, StoreTypes
<1>5. FileTypes /\ edits \in 0..MaxEdits
  BY <1>2 DEF Init, FileTypes
<1> QED BY <1>3, <1>4, <1>5, TypesParts

\* The files of a reversal are paths.
LEMMA FilesArePaths == ASSUME Types, NEW o \in Commands PROVE Files(o) \in SUBSET Paths
BY PartialIsOnPaths DEF Types, Files

\* A write keeps the types of files.
LEMMA WriteTypes ==
    ASSUME FileTypes, NEW p \in Paths, NEW x \in File, NEW w \in Commands \union {"agent"},
           Write(p, x, w)
    PROVE  FileTypes'
BY DEF FileTypes, Write

\* What replaceRegularFile and applyFiles write is a content.
LEMMA SourceIsFile ==
    ASSUME Types, NEW o \in Commands, NEW p \in Files(o), StageOK(o), Applying(o)
    PROVE  /\ Source(o)[p] \in File /\ p \in DOMAIN Source(o) /\ p \in Paths
           /\ Source(o) = content[IF Forward(o) THEN target[o] ELSE o]
           /\ (IF Forward(o) THEN target[o] ELSE o) \in Commands
<1>1. /\ target[o] \in Commands /\ DOMAIN content[o] = Files(o)
      /\ DOMAIN content[target[o]] = Files(o)
  BY DEF StageOK, Files, Reverting
<1>2. content[o] \in Partial(File) /\ content[target[o]] \in Partial(File)
  BY <1>1 DEF Types
<1> QED BY <1>1, <1>2, PartialIsOnPaths DEF Source, Types, Files

\* The next file of a command.
LEMMA NextFile ==
    ASSUME Types, NEW o \in Commands, StageOK(o), todo[o] # {}
    PROVE  First(todo[o]) \in todo[o] /\ First(todo[o]) \in Paths
BY FirstIsIn DEF Types

\* A command that ends.
LEMMA SayTypes ==
    ASSUME OwnTypes, NEW o \in Commands, NEW t \in Tellings, Say(o, t)
    PROVE  at' \in [Commands -> Labels] /\ told' \in [Commands -> Tellings]
BY DEF OwnTypes, Say, Goto, Labels

LEMMA StartTypes ==
    ASSUME Types, NEW o \in Commands, StartCreate(o) \/ StartRevert(o) PROVE Types'
<1>1. OwnTypes /\ StoreTypes /\ FileTypes /\ edits \in 0..MaxEdits
  BY TypesParts
<1>2. StoreTypes' /\ FileTypes' /\ edits' \in 0..MaxEdits
  BY <1>1 DEF StartCreate, StartRevert, store, StoreTypes, FileTypes
<1>3. todo' \in [Commands -> SUBSET Paths]
  <2>1. CASE StartCreate(o)
    BY <1>1, <2>1 DEF StartCreate, Todo, OwnTypes
  <2>2. CASE StartRevert(o)
    <3>1. \A i \in Commands : DOMAIN content[i] \in SUBSET Paths
      BY <1>1, PartialIsOnPaths DEF StoreTypes
    <3> QED BY <1>1, <2>2, <3>1 DEF StartRevert, Todo, OwnTypes
  <2> QED BY <2>1, <2>2
<1>4. at' \in [Commands -> Labels] /\ target' \in [Commands -> Commands \union {NoCommand}]
  BY <1>1 DEF StartCreate, StartRevert, Goto, OwnTypes, Labels
<1>5. OwnTypes'
  BY <1>1, <1>3, <1>4 DEF StartCreate, StartRevert, OwnTypes
<1> QED BY <1>2, <1>5, TypesNext

LEMMA PlanTypes == ASSUME Types, NEW o \in Commands, StageOK(o), Plan(o) PROVE Types'
<1>1. OwnTypes /\ StoreTypes /\ FileTypes /\ edits \in 0..MaxEdits
  BY TypesParts
<1>2. StoreTypes' /\ FileTypes' /\ edits' \in 0..MaxEdits
  BY <1>1 DEF Plan, store, StoreTypes, FileTypes
<1>3. todo[o] # {} /\ todo[o] \in SUBSET Paths
  BY <1>1 DEF Plan, StageOK, OwnTypes
<1>4. plan' \in [Commands -> Partial({"restore", "delete", "unchanged"})]
  <2> DEFINE p == First(todo[o])
             x == Step(content[target[o]][p], ws[p])
  <2>1. p \in Paths
    BY <1>3, NextFile
  <2>2. x \in {"restore", "delete", "unchanged"}
    BY StepSays
  <2>3. plan[o] \in Partial({"restore", "delete", "unchanged"})
    BY <1>1 DEF OwnTypes
  <2> HIDE DEF p, x
  <2>4. With(plan[o], p, x) \in Partial({"restore", "delete", "unchanged"})
    BY <2>1, <2>2, <2>3, WithSets
  <2>5. UNCHANGED plan \/ plan' = [plan EXCEPT ![o] = With(plan[o], p, x)]
    BY DEF Plan, p, x
  <2> QED BY <1>1, <2>4, <2>5 DEF OwnTypes
<1>5. todo' \in [Commands -> SUBSET Paths]
  BY <1>1, <1>3 DEF Plan, Todo, OwnTypes
<1>6. at' \in [Commands -> Labels] /\ told' \in [Commands -> Tellings]
  BY <1>1, SayTypes DEF Plan, Goto, OwnTypes, Labels, Tellings
<1>7. OwnTypes'
  BY <1>1, <1>4, <1>5, <1>6 DEF Plan, OwnTypes
<1> QED BY <1>2, <1>7, TypesNext

LEMMA ConfirmTypes == ASSUME Types, NEW o \in Commands, Confirm(o) PROVE Types'
<1>1. OwnTypes /\ StoreTypes /\ FileTypes /\ edits \in 0..MaxEdits /\ Files(o) \in SUBSET Paths
  BY TypesParts, FilesArePaths
<1>2. StoreTypes' /\ FileTypes' /\ edits' \in 0..MaxEdits
  BY <1>1 DEF Confirm, store, StoreTypes, FileTypes
<1>3. todo' \in [Commands -> SUBSET Paths]
  BY <1>1 DEF Confirm, Todo, OwnTypes
<1>4. at' \in [Commands -> Labels] /\ told' \in [Commands -> Tellings]
  BY <1>1, SayTypes DEF Confirm, Goto, OwnTypes, Labels, Tellings
<1>5. OwnTypes'
  BY <1>1, <1>3, <1>4 DEF Confirm, OwnTypes
<1> QED BY <1>2, <1>5, TypesNext

LEMMA CaptureTypes == ASSUME Types, NEW o \in Commands, CaptureOne(o) PROVE Types'
<1>1. OwnTypes /\ StoreTypes /\ FileTypes /\ edits \in 0..MaxEdits
  BY TypesParts
<1>2. StoreTypes' /\ FileTypes' /\ edits' \in 0..MaxEdits
  BY <1>1 DEF CaptureOne, store, StoreTypes, FileTypes
<1>3. read' \in [Commands -> Partial(File)]
  <2>1. read[o] \in Partial(File) /\ todo[o] \in SUBSET Paths /\ \A p \in Paths : ws[p] \in File
    BY <1>1 DEF OwnTypes, FileTypes
  <2>2. \A p \in todo[o] : With(read[o], p, ws[p]) \in Partial(File)
    BY <2>1, WithSets
  <2>3. UNCHANGED read \/ \E p \in todo[o] : read' = [read EXCEPT ![o] = With(read[o], p, ws[p])]
    BY DEF CaptureOne
  <2> QED BY <1>1, <2>2, <2>3 DEF OwnTypes
<1>4. todo' \in [Commands -> SUBSET Paths]
  BY <1>1 DEF CaptureOne, Todo, OwnTypes
<1>5. at' \in [Commands -> Labels] /\ told' \in [Commands -> Tellings]
  BY <1>1, SayTypes DEF CaptureOne, Goto, OwnTypes, Labels, Tellings
<1>6. OwnTypes'
  BY <1>1, <1>3, <1>4, <1>5 DEF CaptureOne, OwnTypes
<1> QED BY <1>2, <1>6, TypesNext

LEMMA InsertTypes == ASSUME Types, NEW o \in Commands, StageOK(o), Insert(o) PROVE Types'
<1>1. /\ OwnTypes /\ StoreTypes /\ FileTypes /\ edits \in 0..MaxEdits /\ Files(o) \in SUBSET Paths
      /\ DOMAIN read[o] # {}
  BY TypesParts, FilesArePaths DEF Insert, StageOK
<1>2. FileTypes' /\ edits' \in 0..MaxEdits
  BY <1>1 DEF Insert, FileTypes
<1>3. CASE InsertFailed(o)
  <2>1. StoreTypes'
    BY <1>1, <1>3 DEF Insert, InsertFailed, StoreTypes
  <2>2. at' \in [Commands -> Labels] /\ told' \in [Commands -> Tellings]
    BY <1>1, <1>3, SayTypes DEF InsertFailed, Tellings
  <2>3. OwnTypes'
    BY <1>1, <1>3, <2>2 DEF Insert, InsertFailed, OwnTypes
  <2> QED BY <1>2, <2>1, <2>3, TypesNext
<1>4. CASE /\ status' = [status EXCEPT ![o] = "ACTIVE"]
           /\ content' = [content EXCEPT ![o] = read[o]]
           /\ read' = [read EXCEPT ![o] = Empty]
           /\ Todo(o, Files(o))
           /\ Goto(o, IF target[o] = NoCommand THEN "audit" ELSE "apply")
           /\ UNCHANGED told
  <2>1. read[o] \in Partial(File) /\ Empty \in Partial(File)
    BY <1>1, EmptyIsPartial DEF OwnTypes
  <2>2. StoreTypes'
    BY <1>1, <1>4, <2>1 DEF Insert, StoreTypes
  <2>3. /\ read' \in [Commands -> Partial(File)] /\ todo' \in [Commands -> SUBSET Paths]
        /\ at' \in [Commands -> Labels]
    BY <1>1, <1>4, <2>1 DEF OwnTypes, Todo, Goto, Labels
  <2>4. OwnTypes'
    BY <1>1, <1>4, <2>3 DEF Insert, OwnTypes
  <2> QED BY <1>2, <2>2, <2>4, TypesNext
<1> QED BY <1>3, <1>4 DEF Insert

\* An error of applyFiles.
LEMMA FailTypes ==
    ASSUME Types, NEW o \in Commands, Fail(o)
    PROVE  /\ at' \in [Commands -> Labels] /\ told' \in [Commands -> Tellings]
           /\ todo' \in [Commands -> SUBSET Paths]
<1>1. OwnTypes /\ Files(o) \in SUBSET Paths
  BY TypesParts, FilesArePaths
<1>2. CASE Say(o, "rollback_failed") /\ UNCHANGED todo
  BY <1>1, <1>2, SayTypes DEF OwnTypes, Tellings
<1>3. CASE Goto(o, "undo") /\ Todo(o, FromStart(o)) /\ UNCHANGED told
  BY <1>1, <1>3 DEF OwnTypes, Goto, Todo, FromStart, Labels
<1> QED BY <1>2, <1>3 DEF Fail

LEMMA DeleteTypes == ASSUME Types, NEW o \in Commands, StageOK(o), Delete(o) PROVE Types'
<1>1. /\ OwnTypes /\ StoreTypes /\ FileTypes /\ edits \in 0..MaxEdits
      /\ First(todo[o]) \in Paths /\ Absent \in File
  BY TypesParts, NextFile DEF Delete, File
<1>2. StoreTypes' /\ edits' \in 0..MaxEdits
  BY <1>1 DEF Delete, store, StoreTypes
<1>3. FileTypes'
  <2>1. CASE UNCHANGED <<ws, touched>>
    BY <1>1, <2>1 DEF FileTypes
  <2>2. CASE Write(First(todo[o]), Absent, o)
    BY <1>1, <2>2, WriteTypes
  <2> QED BY <2>1, <2>2 DEF Delete
<1>4. /\ at' \in [Commands -> Labels] /\ told' \in [Commands -> Tellings]
      /\ todo' \in [Commands -> SUBSET Paths]
  BY <1>1, FailTypes DEF Delete, Todo, OwnTypes
<1>5. OwnTypes'
  BY <1>1, <1>4 DEF Delete, OwnTypes
<1> QED BY <1>2, <1>3, <1>5, TypesNext

LEMMA SetAsideTypes == ASSUME Types, NEW o \in Commands, StageOK(o), SetAside(o) PROVE Types'
<1>1. /\ OwnTypes /\ StoreTypes /\ FileTypes /\ edits \in 0..MaxEdits
      /\ First(todo[o]) \in Paths /\ Absent \in File
  BY TypesParts, NextFile DEF SetAside, File
<1>2. StoreTypes' /\ edits' \in 0..MaxEdits
  BY <1>1 DEF SetAside, store, StoreTypes
<1>3. FileTypes'
  <2>1. CASE UNCHANGED <<ws, touched>>
    BY <1>1, <2>1 DEF FileTypes
  <2>2. CASE Write(First(todo[o]), Absent, o)
    BY <1>1, <2>2, WriteTypes
  <2> QED BY <2>1, <2>2 DEF SetAside
<1>4. /\ at' \in [Commands -> Labels] /\ told' \in [Commands -> Tellings]
      /\ todo' \in [Commands -> SUBSET Paths]
  BY <1>1, FailTypes DEF SetAside, Goto, OwnTypes, Labels
<1>5. backup' \in [Commands -> File]
  <2>1. ws[First(todo[o])] \in File
    BY <1>1 DEF FileTypes
  <2> QED BY <1>1, <2>1 DEF SetAside, OwnTypes
<1>6. OwnTypes'
  BY <1>1, <1>4, <1>5 DEF SetAside, OwnTypes
<1> QED BY <1>2, <1>3, <1>6, TypesNext

LEMMA PutInPlaceTypes == ASSUME Types, NEW o \in Commands, StageOK(o), PutInPlace(o) PROVE Types'
<1>1. /\ OwnTypes /\ StoreTypes /\ FileTypes /\ edits \in 0..MaxEdits
      /\ First(todo[o]) \in Paths /\ First(todo[o]) \in Files(o)
      /\ Applying(o) /\ Absent \in File
  BY TypesParts, NextFile DEF PutInPlace, File, StageOK, Applying
<1>2. StoreTypes' /\ edits' \in 0..MaxEdits
  BY <1>1 DEF PutInPlace, store, StoreTypes
<1>3. FileTypes'
  <2>1. CASE UNCHANGED <<ws, touched>>
    BY <1>1, <2>1 DEF FileTypes
  <2>2. ASSUME NEW x \in File, Write(First(todo[o]), x, o) PROVE FileTypes'
    BY <1>1, <2>2, WriteTypes
  <2>3. Source(o)[First(todo[o])] \in File /\ backup[o] \in File
    BY <1>1, SourceIsFile DEF OwnTypes
  <2> QED BY <2>1, <2>2, <2>3 DEF PutInPlace
<1>4. /\ at' \in [Commands -> Labels] /\ told' \in [Commands -> Tellings]
      /\ todo' \in [Commands -> SUBSET Paths]
  BY <1>1, FailTypes DEF PutInPlace, Todo, Goto, Loop, OwnTypes, Labels
<1>5. backup' \in [Commands -> File]
  BY <1>1 DEF PutInPlace, OwnTypes
<1>6. OwnTypes'
  BY <1>1, <1>4, <1>5 DEF PutInPlace, OwnTypes
<1> QED BY <1>2, <1>3, <1>6, TypesNext

LEMMA EndTypes ==
    ASSUME Types, NEW o \in Commands, Applied(o) \/ Mark(o) \/ Audit(o) \/ Kill(o) PROVE Types'
<1>1. /\ OwnTypes /\ StoreTypes /\ FileTypes /\ edits \in 0..MaxEdits
      /\ Files(o) \in SUBSET Paths /\ Absent \in File /\ Empty \in Partial(File)
  BY TypesParts, FilesArePaths, EmptyIsPartial DEF File
<1>2. FileTypes' /\ edits' \in 0..MaxEdits
  BY <1>1 DEF Applied, Mark, Audit, Kill, FileTypes
<1>3. StoreTypes'
  BY <1>1 DEF Applied, Mark, MayMark, Audit, Kill, store, StoreTypes
<1>4. todo' \in [Commands -> SUBSET Paths]
  BY <1>1 DEF Applied, Mark, Audit, Kill, Todo, FromStart, OwnTypes
<1>5. at' \in [Commands -> Labels] /\ told' \in [Commands -> Tellings]
  BY <1>1, SayTypes DEF Applied, Mark, Audit, Kill, Goto, OwnTypes, Labels, Tellings
<1>6. read' \in [Commands -> Partial(File)] /\ backup' \in [Commands -> File]
  BY <1>1 DEF Applied, Mark, Audit, Kill, OwnTypes
<1>7. OwnTypes'
  BY <1>1, <1>4, <1>5, <1>6 DEF Applied, Mark, Audit, Kill, OwnTypes
<1> QED BY <1>2, <1>3, <1>7, TypesNext

LEMMA EditTypes == ASSUME Types, Edit PROVE Types'
<1>1. OwnTypes /\ StoreTypes /\ FileTypes /\ edits \in 0..MaxEdits
  BY TypesParts
<1>2. OwnTypes' /\ StoreTypes'
  BY <1>1 DEF Edit, store, OwnTypes, StoreTypes
<1>3. FileTypes'
  BY <1>1, WriteTypes DEF Edit
<1>4. edits' \in 0..MaxEdits
  BY <1>1, EditAssumption DEF Edit
<1> QED BY <1>2, <1>3, <1>4, TypesNext

\* Every step keeps the types.
LEMMA StepTypes == ASSUME Types, \A o \in Commands : StageOK(o), [Next]_vars PROVE Types'
<1>1. ASSUME NEW o \in Commands, Command(o) \/ Kill(o) PROVE Types'
  BY <1>1, StartTypes, PlanTypes, ConfirmTypes, CaptureTypes, InsertTypes, DeleteTypes,
     SetAsideTypes, PutInPlaceTypes, EndTypes DEF Command
<1>2. CASE UNCHANGED vars
  BY <1>2 DEF vars, store, Types
<1> QED BY <1>1, <1>2, EditTypes DEF Next

----------------------------------------------------------------------------
(* What a step leaves alone.                                               *)

\* A command keeps what is its own.
Stays(o) == /\ at'[o] = at[o] /\ target'[o] = target[o] /\ todo'[o] = todo[o]
            /\ read'[o] = read[o] /\ plan'[o] = plan[o] /\ backup'[o] = backup[o]
            /\ told'[o] = told[o]

\* A checkpoint once written keeps its files and its reversal.
RowsStay ==
    \A i \in Commands :
        /\ status[i] # "NONE" => status'[i] # "NONE" /\ content'[i] = content[i]
        /\ status[i] = "REVERTED" => status'[i] = "REVERTED" /\ safety'[i] = safety[i]

\* Only the command itself writes the checkpoint that bears its name.
RowOfOther(o) == status[o] = "NONE" => status'[o] = "NONE"

\* What is written to a file of o is noticed; notices are not forgotten.
Notices(o) == /\ touched[o] \subseteq touched'[o]
              /\ \A p \in Files(o) : ws'[p] = ws[p] \/ touched'[o] # {}

\* A command leaves the others' own alone, and so does an edit.
LEMMA CommandStays ==
    ASSUME Types, NEW w \in Commands, Command(w) \/ Kill(w), NEW o \in Commands \ {w}
    PROVE  Stays(o)
<1>1. OwnTypes
  BY TypesParts
<1>2. CASE StartCreate(w) \/ StartRevert(w) \/ Plan(w) \/ Confirm(w) \/ CaptureOne(w)
  BY <1>1, <1>2 DEF StartCreate, StartRevert, Plan, Confirm, CaptureOne, Goto, Say, Todo,
                    OwnTypes, Stays
<1>3. CASE Insert(w)
  BY <1>1, <1>3 DEF Insert, InsertFailed, Goto, Say, Todo, OwnTypes, Stays
<1>4. CASE Delete(w) \/ SetAside(w) \/ PutInPlace(w)
  BY <1>1, <1>4 DEF Delete, SetAside, PutInPlace, Fail, FromStart, Goto, Say, Todo, OwnTypes,
                    Stays
<1>5. CASE Applied(w) \/ Mark(w) \/ Audit(w) \/ Kill(w)
  BY <1>1, <1>5 DEF Applied, Mark, Audit, Kill, FromStart, Goto, Say, Todo, OwnTypes, Stays
<1> QED BY <1>2, <1>3, <1>4, <1>5 DEF Command

\* An edit leaves every command where it is.
LEMMA EditStays == ASSUME Edit, NEW o \in Commands PROVE Stays(o)
BY DEF Edit, Stays

\* No step takes a row out of the tables or changes what it holds.
LEMMA StepRowsStay ==
    ASSUME Types, \A o \in Commands : StageOK(o), [Next]_vars PROVE RowsStay
<1>0. StoreTypes
  BY TypesParts
<1>1. ASSUME NEW w \in Commands, Insert(w) PROVE RowsStay
  <2>1. status[w] = "NONE"
    BY <1>1 DEF StageOK, Insert
  <2>2. UNCHANGED safety
    BY <1>1 DEF Insert
  <2>3. \A i \in Commands \ {w} : status'[i] = status[i] /\ content'[i] = content[i]
    BY <1>0, <1>1 DEF Insert, InsertFailed, StoreTypes
  <2> QED BY <2>1, <2>2, <2>3 DEF RowsStay
<1>2. ASSUME NEW w \in Commands, Mark(w) PROVE RowsStay
  BY <1>0, <1>2 DEF Mark, MayMark, StoreTypes, RowsStay
<1>3. UNCHANGED store => RowsStay
  BY DEF store, RowsStay
<1>4. ASSUME NEW w \in Commands, Command(w) \/ Kill(w), ~Insert(w), ~Mark(w) PROVE UNCHANGED store
  BY <1>4 DEF Command, Kill, StartCreate, StartRevert, Plan, Confirm, CaptureOne, Delete,
              SetAside, PutInPlace, Applied, Audit
<1> QED BY <1>1, <1>2, <1>3, <1>4 DEF Next, Edit, vars

LEMMA CommandRowOfOther ==
    ASSUME Types, NEW w \in Commands, Command(w) \/ Kill(w), NEW o \in Commands \ {w}
    PROVE  RowOfOther(o)
<1>0. StoreTypes
  BY TypesParts
<1>1. CASE Insert(w)
  BY <1>0, <1>1 DEF Insert, InsertFailed, StoreTypes, RowOfOther
<1>2. CASE Mark(w)
  BY <1>0, <1>2 DEF Mark, MayMark, StoreTypes, RowOfOther
<1>3. CASE ~Insert(w) /\ ~Mark(w)
  BY <1>3 DEF Command, Kill, StartCreate, StartRevert, Plan, Confirm, CaptureOne, Delete,
              SetAside, PutInPlace, Applied, Audit, store, RowOfOther
<1> QED BY <1>1, <1>2, <1>3

\* The files of a reversal stay the same.
LEMMA FilesStay ==
    ASSUME Types, RowsStay, NEW o \in Commands, StageOK(o), target'[o] = target[o]
    PROVE  /\ Files(o)' = Files(o)
           /\ Reverting(o) => content'[target[o]] = content[target[o]]
           /\ Reverting(o) => target[o] \in Commands /\ Files(o) = DOMAIN content[target[o]]
<1>1. CASE ~Reverting(o)
  BY <1>1 DEF Reverting, Files
<1>2. CASE Reverting(o)
  BY <1>2 DEF Reverting, Files, StageOK, RowsStay
<1> QED BY <1>1, <1>2

\* What others do does not change what a command has to show ...
LEMMA StageStays ==
    ASSUME Types, Types', RowsStay, NEW o \in Commands, StageOK(o), Stays(o), RowOfOther(o)
    PROVE  StageOK(o)'
<1>1. Files(o)' = Files(o) /\ Reverting(o)' = Reverting(o) /\ Applying(o)' = Applying(o)
      /\ Done(o)' = Done(o)
  BY FilesStay DEF Stays, Reverting, Applying, Done
<1>2. Reverting(o) => target[o] \in Commands
  BY DEF StageOK
<1>3. status[o] = "NONE" => status'[o] = "NONE"
  BY DEF RowOfOther
<1>4. status[o] # "NONE" => status'[o] # "NONE" /\ content'[o] = content[o]
  BY DEF RowsStay
<1> QED BY <1>1, <1>2, <1>3, <1>4 DEF StageOK, Stays, RowsStay

\* ... nor, unless it is noticed, how that relates to the workspace.
LEMMA DataStays ==
    ASSUME Types, Types', RowsStay, NEW o \in Commands, StageOK(o), DataOK(o), Stays(o),
           RowOfOther(o), Notices(o)
    PROVE  DataOK(o)'
<1> SUFFICES ASSUME Reverting(o)', touched'[o] = {} PROVE DataOK(o)'
  BY DEF DataOK
<1>1. /\ Reverting(o) /\ touched[o] = {} /\ Files(o)' = Files(o) /\ Done(o)' = Done(o)
      /\ target[o] \in Commands /\ content'[target[o]] = content[target[o]]
  BY FilesStay DEF Stays, Reverting, Done, Notices
<1>2. \A p \in Files(o) : ws'[p] = ws[p]
  BY DEF Notices
<1>3. status'[o] # "NONE" => status[o] # "NONE" /\ content'[o] = content[o]
  BY DEF RowsStay, RowOfOther
<1>4. ASSUME at[o] = "plan" PROVE \A p \in DOMAIN plan'[o] : Planned(o, p)'
  <2>1. plan'[o] = plan[o] /\ DOMAIN plan[o] \subseteq Files(o)
    BY <1>4 DEF StageOK, Stays
  <2>2. \A p \in DOMAIN plan[o] : Planned(o, p)
    BY <1>1, <1>4 DEF DataOK
  <2> QED BY <1>1, <1>2, <2>1, <2>2 DEF Stays, Planned
<1>5. ASSUME at[o] \in {"prompt", "capture", "insert"} PROVE \A p \in Files(o) : Planned(o, p)'
  BY <1>1, <1>2, <1>5 DEF DataOK, Stays, Planned
<1>6. ASSUME at[o] \in {"capture", "insert"} PROVE \A p \in DOMAIN read'[o] : read'[o][p] = ws'[p]
  <2>1. DOMAIN read[o] \subseteq Files(o)
    BY <1>1, <1>6 DEF StageOK
  <2> QED BY <1>1, <1>2, <1>6, <2>1 DEF DataOK, Stays
<1>7. ASSUME status'[o] # "NONE"
      PROVE  \A p \in Files(o) : plan'[o][p] = Step(content'[target'[o]][p], content'[o][p])
  BY <1>1, <1>3, <1>7 DEF DataOK, Stays
<1>8. /\ at[o] \in {"apply", "swap"} => \A p \in Files(o) \ todo[o] : Restored(o, p)'
      /\ at[o] = "mark" \/ Done(o) => \A p \in Files(o) : Restored(o, p)'
  BY <1>1, <1>2 DEF DataOK, Stays, Restored
<1>9. content'[o] = content[o] \/ ~(at[o] \in {"undo", "unswap"} \/ told[o] = "rolled_back")
  BY <1>3 DEF StageOK, Applying, RowsStay
<1>10. /\ at[o] \in {"undo", "unswap"} => \A p \in Files(o) \ todo[o] : PutBack(o, p)'
       /\ told[o] = "rolled_back" => \A p \in Files(o) : PutBack(o, p)'
  BY <1>1, <1>2, <1>9 DEF DataOK, Stays, PutBack
<1> QED BY <1>1, <1>4, <1>5, <1>6, <1>7, <1>8, <1>10 DEF DataOK, Stays

\* Nobody writes to files unnoticed.
LEMMA WriteNotices ==
    ASSUME FileTypes, NEW p, NEW x, NEW w, Write(p, x, w), NEW o \in Commands, o # w
    PROVE  Notices(o)
BY DEF FileTypes, Write, Notices

LEMMA CommandNotices ==
    ASSUME Types, NEW w \in Commands, Command(w) \/ Kill(w), NEW o \in Commands \ {w}
    PROVE  Notices(o)
<1>1. FileTypes
  BY TypesParts
<1>2. UNCHANGED <<ws, touched>> => Notices(o)
  BY DEF Notices
<1>3. CASE Delete(w) \/ SetAside(w) \/ PutInPlace(w)
  BY <1>1, <1>2, <1>3, WriteNotices DEF Delete, SetAside, PutInPlace
<1>4. CASE ~(Delete(w) \/ SetAside(w) \/ PutInPlace(w))
  BY <1>2, <1>4 DEF Command, Kill, StartCreate, StartRevert, Plan, Confirm, CaptureOne, Insert,
     Applied, Mark, Audit
<1> QED BY <1>3, <1>4

\* An edit takes nobody out of `touched`.
LEMMA EditNotices == ASSUME Types, Edit, NEW o \in Commands PROVE touched[o] \subseteq touched'[o]
BY TypesParts DEF FileTypes, Edit, Write

\* A command's own writes are not noticed by itself.
LEMMA OwnTouched ==
    ASSUME Types, NEW o \in Commands, Command(o) \/ Kill(o) PROVE touched'[o] = touched[o]
<1>1. FileTypes
  BY TypesParts
<1>2. ASSUME NEW p, NEW x, Write(p, x, o) PROVE touched'[o] = touched[o]
  BY <1>1, <1>2 DEF Write, FileTypes
<1> QED BY <1>2 DEF Command, Kill, StartCreate, StartRevert, Plan, Confirm, CaptureOne, Insert,
           Delete, SetAside, PutInPlace, Applied, Mark, Audit

----------------------------------------------------------------------------
(* A command's own steps.                                                  *)

Before(o) == Types /\ Types' /\ RowsStay /\ StageOK(o) /\ DataOK(o)

\* What every step may use of where the command was.
LEMMA Facts ==
    ASSUME NEW o \in Commands, Before(o)
    PROVE  /\ OwnTypes /\ StoreTypes /\ FileTypes /\ OwnTypes' /\ StoreTypes' /\ FileTypes'
           /\ at[o] # "done" => told[o] = "nothing"
           /\ Reverting(o) => /\ target[o] \in Commands /\ target[o] # o
                              /\ Files(o) = DOMAIN content[target[o]]
                              /\ status[target[o]] # "NONE"
<1>1. OwnTypes' /\ StoreTypes' /\ FileTypes'
  BY DEF Before, Types, OwnTypes, StoreTypes, FileTypes
<1> QED BY <1>1, TypesParts DEF Before, StageOK, Files, Reverting

\* A command that ends without a report of success.
LEMMA EndOK ==
    ASSUME NEW o \in Commands, Before(o), at'[o] = "done", target'[o] = target[o],
           plan'[o] = plan[o], status'[o] = status[o], touched'[o] = touched[o],
           told'[o] \in {"created", "cancelled", "failed", "rollback_failed", "killed"}
    PROVE  StageOK(o)' /\ DataOK(o)'
<1>1. /\ Files(o)' = Files(o) /\ Reverting(o)' = Reverting(o) /\ ~Applying(o)' /\ ~Done(o)'
      /\ Reverting(o) => content'[target[o]] = content[target[o]]
  BY FilesStay DEF Before, Reverting, Applying, Done
<1>2. Reverting(o) => target[o] \in Commands \ {o} /\ status'[target[o]] # "NONE"
  BY DEF Before, StageOK, RowsStay
<1>3. status[o] # "NONE" => content'[o] = content[o]
  BY DEF Before, RowsStay
<1>4. StageOK(o)'
  <2>1. Reverting(o)' => target'[o] \in Commands \ {o} /\ status'[target'[o]] # "NONE"
    BY <1>1, <1>2
  <2>2. Reverting(o) /\ status[o] # "NONE" => DOMAIN content[o] = Files(o)
    BY DEF Before, StageOK
  <2>3. Reverting(o)' /\ status'[o] # "NONE" => DOMAIN content'[o] = Files(o)'
    BY <1>1, <1>3, <2>2
  <2>4. told'[o] # "rolled_back"
    OBVIOUS
  <2> QED BY <1>1, <2>1, <2>3, <2>4 DEF StageOK
<1>5. DataOK(o)'
  <2>1. Reverting(o) /\ touched[o] = {} /\ status[o] # "NONE" =>
          \A p \in Files(o) : plan[o][p] = Step(content[target[o]][p], content[o][p])
    BY DEF Before, DataOK
  <2>2. Reverting(o)' /\ touched'[o] = {} /\ status'[o] # "NONE" =>
          \A p \in Files(o)' : plan'[o][p] = Step(content'[target'[o]][p], content'[o][p])
    BY <1>1, <1>3, <2>1
  <2>3. told'[o] # "rolled_back"
    OBVIOUS
  <2> QED BY <1>1, <2>2, <2>3 DEF DataOK
<1> QED BY <1>4, <1>5

\* What a command has to show after each step of its own.
LEMMA StartCreateOK ==
    ASSUME NEW o \in Commands, Before(o), StartCreate(o) PROVE StageOK(o)' /\ DataOK(o)'
<1>0. /\ at[o] = "idle" /\ status[o] = "NONE" /\ target[o] = NoCommand
      /\ told[o] = "nothing" /\ read[o] = Empty
  BY Facts DEF StartCreate, Before, StageOK
<1>1. /\ at'[o] = "capture" /\ todo'[o] # {} /\ status'[o] = "NONE"
      /\ target'[o] = NoCommand /\ told'[o] = "nothing" /\ read'[o] = Empty
  BY <1>0, Facts DEF StartCreate, OwnTypes, Goto, Todo, store
<1> QED BY <1>1 DEF StageOK, DataOK, Reverting, Applying, Done

LEMMA StartRevertOK ==
    ASSUME NEW o \in Commands, Before(o), StartRevert(o) PROVE StageOK(o)' /\ DataOK(o)'
<1>1. PICK i \in Commands : /\ status[i] # "NONE"
                            /\ target' = [target EXCEPT ![o] = i]
                            /\ Todo(o, DOMAIN content[i])
  BY DEF StartRevert
<1>2. /\ at'[o] = "plan" /\ status[o] = "NONE" /\ status' = status /\ content' = content
      /\ target'[o] = i /\ told'[o] = "nothing" /\ read'[o] = Empty /\ plan'[o] = Empty
      /\ todo'[o] = DOMAIN content[i] /\ DOMAIN content[i] # {}
  BY <1>1, Facts DEF StartRevert, Before, StageOK, OwnTypes, StoreTypes, Goto, Todo, store
<1>3. i # NoCommand /\ i # o /\ DOMAIN Empty = {} /\ Files(o)' = DOMAIN content[i]
  BY <1>1, <1>2, CommandAssumption, EmptyIsPartial DEF Files
<1>4. StageOK(o)'
  BY <1>1, <1>2, <1>3 DEF StageOK, Reverting, Applying, Done
<1>5. DataOK(o)'
  BY <1>2, <1>3 DEF DataOK, Done
<1> QED BY <1>4, <1>5

LEMMA PlanOK == ASSUME NEW o \in Commands, Before(o), Plan(o) PROVE StageOK(o)' /\ DataOK(o)'
<1> DEFINE p == First(todo[o])
           x == Step(content[target[o]][p], ws[p])
<1>0. /\ at[o] = "plan" /\ todo[o] # {} /\ UNCHANGED <<ws, store, target, read, touched>>
      /\ Reverting(o) /\ DOMAIN plan[o] \union todo[o] = Files(o) /\ status[o] = "NONE"
      /\ read[o] = Empty /\ told[o] = "nothing"
  BY Facts DEF Plan, Before, StageOK
<1>1. CASE Say(o, "failed") /\ UNCHANGED plan
  <2>1. at'[o] = "done" /\ told'[o] = "failed"
    BY <1>1, Facts DEF Say, Goto, OwnTypes
  <2> QED BY <1>0, <1>1, <2>1, EndOK DEF store
<1>2. CASE /\ plan' = [plan EXCEPT ![o] = With(@, p, x)]
           /\ Todo(o, todo[o] \ {p})
           /\ Goto(o, IF todo[o] = {p} THEN "prompt" ELSE "plan")
           /\ UNCHANGED told
  <2>1. p \in todo[o] /\ p \in Paths
    BY <1>0, NextFile DEF Before
  <2>2. x \in {"restore", "delete", "unchanged"}
    BY StepSays
  <2> HIDE DEF p
  <2>3. /\ at'[o] = (IF todo[o] = {p} THEN "prompt" ELSE "plan") /\ told'[o] = "nothing"
        /\ todo'[o] = todo[o] \ {p} /\ plan'[o] = With(plan[o], p, x)
    BY <1>0, <1>2, Facts DEF Goto, Todo, OwnTypes
  <2>4. plan[o] \in Partial({"restore", "delete", "unchanged"})
    BY Facts DEF OwnTypes
  <2> HIDE DEF x
  <2>5. /\ DOMAIN plan'[o] = DOMAIN plan[o] \union {p}
        /\ plan'[o][p] = x /\ \A q \in DOMAIN plan[o] : q # p => plan'[o][q] = plan[o][q]
    BY <2>3 DEF With
  <2>6. Files(o)' = Files(o) /\ Reverting(o)' /\ ~Applying(o)' /\ ~Done(o)'
        /\ target[o] \in Commands \ {o} /\ status[target[o]] # "NONE"
    BY <1>0, <2>3, FilesStay DEF Before, Reverting, Applying, Done, StageOK
  <2>7. DOMAIN plan'[o] \union todo'[o] = Files(o) /\ (todo[o] = {p} => todo'[o] = {})
    BY <1>0, <2>1, <2>3, <2>5
  <2>8. StageOK(o)'
    BY <1>0, <2>1, <2>3, <2>6, <2>7 DEF StageOK, store
  <2>9. touched[o] = {} => \A q \in DOMAIN plan'[o] : Planned(o, q)'
    BY <1>0, <2>5 DEF Before, DataOK, Planned, store, x
  <2>10. at'[o] = "prompt" => DOMAIN plan'[o] = Files(o)
    BY <2>3, <2>7
  <2>11. DataOK(o)'
    BY <1>0, <2>3, <2>6, <2>9, <2>10 DEF DataOK, store
  <2> QED BY <2>8, <2>11
<1> QED BY <1>1, <1>2 DEF Plan

LEMMA ConfirmOK == ASSUME NEW o \in Commands, Before(o), Confirm(o) PROVE StageOK(o)' /\ DataOK(o)'
<1>0. /\ at[o] = "prompt" /\ UNCHANGED <<ws, store, target, read, plan, touched>>
      /\ Reverting(o) /\ DOMAIN plan[o] = Files(o) /\ status[o] = "NONE" /\ read[o] = Empty
      /\ told[o] = "nothing"
  BY Facts DEF Confirm, Before, StageOK
<1>1. CASE Say(o, "failed") \/ Say(o, "cancelled")
  <2>1. at'[o] = "done" /\ told'[o] \in {"failed", "cancelled"}
    BY <1>1, Facts DEF Say, Goto, OwnTypes
  <2> QED BY <1>0, <2>1, EndOK DEF store
<1>2. CASE MayRevert(target[o]) /\ Todo(o, Files(o)) /\ Goto(o, "capture") /\ UNCHANGED told
  <2>1. at'[o] = "capture" /\ told'[o] = "nothing" /\ todo'[o] = Files(o)
    BY <1>0, <1>2, Facts DEF Goto, Todo, OwnTypes
  <2>2. Files(o) # {} /\ DOMAIN Empty = {}
    BY <1>0, Facts, EmptyIsPartial DEF StoreTypes
  <2>3. Files(o)' = Files(o) /\ Reverting(o)' /\ ~Applying(o)' /\ ~Done(o)'
        /\ target[o] \in Commands \ {o} /\ status[target[o]] # "NONE"
    BY <1>0, <2>1, FilesStay DEF Before, Reverting, Applying, Done, StageOK
  <2>4. StageOK(o)'
    BY <1>0, <2>1, <2>2, <2>3 DEF StageOK, store
  <2>5. touched[o] = {} => \A p \in Files(o) : Planned(o, p)'
    BY <1>0 DEF Before, DataOK, Planned, store
  <2>6. DataOK(o)'
    BY <1>0, <2>1, <2>2, <2>3, <2>5 DEF DataOK, store
  <2> QED BY <2>4, <2>6
<1> QED BY <1>1, <1>2 DEF Confirm

LEMMA CaptureOK ==
    ASSUME NEW o \in Commands, Before(o), CaptureOne(o) PROVE StageOK(o)' /\ DataOK(o)'
<1>0. /\ at[o] = "capture" /\ UNCHANGED <<ws, store, target, plan, touched>>
      /\ status[o] = "NONE" /\ told[o] = "nothing" /\ todo[o] \in SUBSET Paths
      /\ Reverting(o) => DOMAIN plan[o] = Files(o) /\ DOMAIN read[o] \union todo[o] = Files(o)
  BY Facts DEF CaptureOne, Before, StageOK, OwnTypes
<1>1. CASE Say(o, "failed")
  <2>1. at'[o] = "done" /\ told'[o] = "failed"
    BY <1>1, Facts DEF Say, Goto, OwnTypes
  <2> QED BY <1>0, <2>1, EndOK DEF store
<1>2. ASSUME NEW p \in todo[o], read' = [read EXCEPT ![o] = With(@, p, ws[p])],
             Todo(o, todo[o] \ {p}), Goto(o, IF todo[o] = {p} THEN "insert" ELSE "capture"),
             UNCHANGED told
      PROVE  StageOK(o)' /\ DataOK(o)'
  <2>1. /\ at'[o] = (IF todo[o] = {p} THEN "insert" ELSE "capture") /\ told'[o] = "nothing"
        /\ todo'[o] = todo[o] \ {p} /\ read'[o] = With(read[o], p, ws[p])
    BY <1>0, <1>2, Facts DEF Goto, Todo, OwnTypes
  <2>2. read[o] \in Partial(File) /\ p \in Paths /\ ws[p] \in File
    BY <1>0, <1>2, Facts DEF OwnTypes, FileTypes
  <2>3. /\ DOMAIN read'[o] = DOMAIN read[o] \union {p}
        /\ read'[o][p] = ws[p] /\ \A q \in DOMAIN read[o] : q # p => read'[o][q] = read[o][q]
    BY <2>1 DEF With
  <2>4. /\ Files(o)' = Files(o) /\ Reverting(o)' = Reverting(o) /\ ~Applying(o)' /\ ~Done(o)'
        /\ Reverting(o) => target[o] \in Commands \ {o} /\ status[target[o]] # "NONE"
    BY <1>0, <2>1, FilesStay DEF Before, Reverting, Applying, Done, StageOK
  <2>5. /\ Reverting(o) => DOMAIN read'[o] \union todo'[o] = Files(o)
        /\ todo[o] = {p} => todo'[o] = {}
        /\ todo[o] # {p} => todo'[o] # {}
        /\ DOMAIN read'[o] # {}
    BY <1>0, <1>2, <2>1, <2>3
  <2>6. StageOK(o)'
    BY <1>0, <2>1, <2>4, <2>5 DEF StageOK, store
  <2>7. Reverting(o) /\ touched[o] = {} => /\ \A q \in Files(o) : Planned(o, q)'
                                           /\ \A q \in DOMAIN read'[o] : read'[o][q] = ws'[q]
    BY <1>0, <2>3 DEF Before, DataOK, Planned, store
  <2>8. DataOK(o)'
    BY <1>0, <2>1, <2>4, <2>7 DEF DataOK, store
  <2> QED BY <2>6, <2>8
<1> QED BY <1>1, <1>2 DEF CaptureOne

LEMMA InsertOK == ASSUME NEW o \in Commands, Before(o), Insert(o) PROVE StageOK(o)' /\ DataOK(o)'
<1>0. /\ at[o] = "insert" /\ UNCHANGED <<ws, safety, target, plan, touched>>
      /\ status[o] = "NONE" /\ told[o] = "nothing" /\ DOMAIN read[o] # {}
      /\ Reverting(o) => DOMAIN plan[o] = Files(o) /\ DOMAIN read[o] = Files(o)
  BY Facts DEF Insert, Before, StageOK
<1>1. CASE InsertFailed(o)
  <2>1. at'[o] = "done" /\ told'[o] = "failed" /\ status' = status
    BY <1>1, Facts DEF InsertFailed, Say, Goto, OwnTypes
  <2> QED BY <1>0, <2>1, EndOK
<1>2. CASE /\ status' = [status EXCEPT ![o] = "ACTIVE"]
           /\ content' = [content EXCEPT ![o] = read[o]]
           /\ Todo(o, Files(o))
           /\ Goto(o, IF target[o] = NoCommand THEN "audit" ELSE "apply")
           /\ UNCHANGED told
  <2>1. /\ at'[o] = (IF Reverting(o) THEN "apply" ELSE "audit") /\ told'[o] = "nothing"
        /\ todo'[o] = Files(o) /\ status'[o] = "ACTIVE" /\ content'[o] = read[o]
    BY <1>0, <1>2, Facts DEF Goto, Todo, OwnTypes, StoreTypes, Reverting
  <2>2. /\ Files(o)' = Files(o) /\ Reverting(o)' = Reverting(o)
        /\ Reverting(o) => content'[target[o]] = content[target[o]]
    BY <1>0, FilesStay DEF Before, Reverting
  <2>3. /\ Reverting(o) => target[o] \in Commands \ {o} /\ status'[target[o]] # "NONE"
        /\ Applying(o)' => Reverting(o)
        /\ Done(o)' => ~Reverting(o)
    BY <2>1, Facts DEF Before, RowsStay, Applying, Done
  <2>4. StageOK(o)'
    BY <1>0, <2>1, <2>2, <2>3 DEF StageOK
  <2>5. Reverting(o) /\ touched[o] = {} =>
          \A p \in Files(o) : plan'[o][p] = Step(content'[target'[o]][p], content'[o][p])
    <3> SUFFICES ASSUME Reverting(o), touched[o] = {}, NEW p \in Files(o)
                 PROVE  plan'[o][p] = Step(content'[target'[o]][p], content'[o][p])
      OBVIOUS
    <3>1. Planned(o, p) /\ read[o][p] = ws[p]
      BY <1>0 DEF Before, DataOK
    <3> QED BY <1>0, <2>1, <2>2, <3>1 DEF Planned
  <2>6. DataOK(o)'
    BY <1>0, <2>1, <2>2, <2>3, <2>5 DEF DataOK
  <2> QED BY <2>4, <2>6
<1> QED BY <1>1, <1>2 DEF Insert

\* What is the same while the files are replaced and put back.
Same(o) == /\ target'[o] = target[o] /\ plan'[o] = plan[o] /\ status'[o] = status[o]
           /\ told'[o] = told[o] /\ touched'[o] = touched[o]

\* The facts about a command that replaces files or puts them back.
LEMMA WorkFacts ==
    ASSUME NEW o \in Commands, Before(o), Applying(o), Same(o)
    PROVE  /\ Reverting(o) /\ Reverting(o)' /\ Files(o)' = Files(o) /\ todo[o] \subseteq Files(o)
           /\ status[o] # "NONE" /\ status'[o] # "NONE"
           /\ target[o] \in Commands \ {o} /\ status'[target[o]] # "NONE"
           /\ content'[target'[o]] = content[target[o]] /\ content'[o] = content[o]
           /\ DOMAIN content[o] = Files(o) /\ DOMAIN content[target[o]] = Files(o)
           /\ told[o] = "nothing" /\ told'[o] = "nothing"
           /\ touched[o] = {} =>
                 \A p \in Files(o) : plan'[o][p] = Step(content'[target'[o]][p], content'[o][p])
<1>1. /\ Reverting(o) /\ todo[o] \subseteq Files(o) /\ status[o] # "NONE"
      /\ DOMAIN content[o] = Files(o) /\ target[o] \in Commands \ {o}
      /\ status[target[o]] # "NONE"
  BY DEF Before, StageOK
<1>2. at[o] # "done"
  BY DEF Applying
<1>3. told[o] = "nothing" /\ told'[o] = "nothing" /\ DOMAIN content[target[o]] = Files(o)
  BY <1>1, <1>2, Facts DEF Same
<1>4. /\ Files(o)' = Files(o) /\ Reverting(o)' /\ content'[target'[o]] = content[target[o]]
      /\ status'[o] # "NONE" /\ status'[target[o]] # "NONE" /\ content'[o] = content[o]
  BY <1>1, FilesStay DEF Before, Same, Reverting, RowsStay
<1>5. touched[o] = {} =>
        \A p \in Files(o) : plan[o][p] = Step(content[target[o]][p], content[o][p])
  BY <1>1 DEF Before, DataOK
<1>6. touched[o] = {} =>
        \A p \in Files(o) : plan'[o][p] = Step(content'[target'[o]][p], content'[o][p])
  BY <1>4, <1>5 DEF Same
<1> QED BY <1>1, <1>3, <1>4, <1>6

\* A command that is at work afterwards, by what it has to show of the files.
LEMMA WorkOK ==
    ASSUME NEW o \in Commands, Before(o), Applying(o), Same(o),
           at'[o] \in {"apply", "swap", "undo", "unswap", "mark"},
           todo'[o] \subseteq Files(o),
           at'[o] \in {"swap", "unswap"} => todo'[o] # {},
           at'[o] = "mark" => todo'[o] = {},
           touched[o] = {} =>
             /\ at'[o] \in {"apply", "swap", "mark"} =>
                   \A p \in Files(o) \ todo'[o] : ws'[p] = content[target[o]][p]
             /\ at'[o] \in {"undo", "unswap"} =>
                   \A p \in Files(o) \ todo'[o] : ws'[p] = content[o][p]
    PROVE  StageOK(o)' /\ DataOK(o)'
<1>1. Applying(o)' /\ ~Done(o)' /\ target'[o] = target[o] /\ touched'[o] = touched[o]
  BY WorkFacts DEF Applying, Done, Same
<1>2. StageOK(o)'
  BY <1>1, WorkFacts DEF StageOK
<1>3. touched[o] = {} /\ at'[o] \in {"apply", "swap", "mark"} =>
        \A p \in Files(o)' \ todo'[o] : Restored(o, p)'
  BY WorkFacts DEF Restored
<1>4. touched[o] = {} /\ at'[o] \in {"undo", "unswap"} =>
        \A p \in Files(o)' \ todo'[o] : PutBack(o, p)'
  BY WorkFacts DEF PutBack
<1>5. touched[o] = {} => \A p \in Files(o)' :
                             plan'[o][p] = Step(content'[target'[o]][p], content'[o][p])
  BY WorkFacts
<1>6. told'[o] = "nothing"
  BY WorkFacts
<1>7. DataOK(o)'
  <2>1. at'[o] = "mark" => Files(o)' \ todo'[o] = Files(o)'
    OBVIOUS
  <2> QED BY <1>1, <1>3, <1>4, <1>5, <1>6, <2>1 DEF DataOK
<1> QED BY <1>2, <1>7

\* What a command has to show of the files while it is at work.
LEMMA WorkShows ==
    ASSUME NEW o \in Commands, Before(o), Applying(o), touched[o] = {}
    PROVE  /\ at[o] \in {"apply", "swap", "mark"} =>
                 \A p \in Files(o) \ todo[o] : ws[p] = content[target[o]][p]
           /\ at[o] \in {"undo", "unswap"} =>
                 \A p \in Files(o) \ todo[o] : ws[p] = content[o][p]
BY DEF Before, DataOK, StageOK, Restored, PutBack

\* An error while files are replaced starts the rollback, or ends it.
LEMMA FailOK ==
    ASSUME NEW o \in Commands, Before(o), at[o] \in {"apply", "swap", "undo", "unswap"},
           Fail(o), UNCHANGED <<store, target, plan>>, touched'[o] = touched[o]
    PROVE  StageOK(o)' /\ DataOK(o)'
<1>1. Applying(o)
  BY DEF Applying
<1>2. CASE Forward(o) /\ Goto(o, "undo") /\ Todo(o, FromStart(o)) /\ UNCHANGED told
  <2>1. at'[o] = "undo" /\ todo'[o] = Files(o)
    BY <1>2, Facts DEF Goto, Todo, FromStart, OwnTypes
  <2>2. Same(o)
    BY <1>2 DEF Same, store
  <2> QED BY <1>1, <2>1, <2>2, WorkOK
<1>3. CASE ~Forward(o) /\ Say(o, "rollback_failed")
  <2>1. at'[o] = "done" /\ told'[o] = "rollback_failed"
    BY <1>3, Facts DEF Say, Goto, OwnTypes
  <2> QED BY <2>1, EndOK DEF store
<1> QED BY <1>2, <1>3 DEF Fail

\* A file has come to what it is to be, and the next one is on.
LEMMA NextOK ==
    ASSUME NEW o \in Commands, Before(o), at[o] \in {"apply", "swap", "undo", "unswap"},
           Same(o), NEW p \in todo[o], todo'[o] = todo[o] \ {p}, at'[o] = Loop(o),
           ws'[p] = Source(o)[p], \A q \in Paths \ {p} : ws'[q] = ws[q]
    PROVE  StageOK(o)' /\ DataOK(o)'
<1>1. Applying(o) /\ Files(o) \in SUBSET Paths
  BY FilesArePaths DEF Applying, Before
<1>2. todo'[o] \subseteq Files(o) /\ todo[o] \subseteq Files(o)
  BY <1>1, WorkFacts
<1>3. at'[o] \in {"apply", "undo"} /\ (at'[o] = "apply" <=> at[o] \in {"apply", "swap"})
  BY DEF Loop, Forward
<1>4. ASSUME touched[o] = {}, at'[o] = "apply", NEW q \in Files(o) \ todo'[o]
      PROVE  ws'[q] = content[target[o]][q]
  BY <1>1, <1>2, <1>3, <1>4, WorkShows DEF Source, Forward
<1>5. ASSUME touched[o] = {}, at'[o] = "undo", NEW q \in Files(o) \ todo'[o]
      PROVE  ws'[q] = content[o][q]
  BY <1>1, <1>2, <1>3, <1>5, WorkShows DEF Source, Forward
<1> QED BY <1>1, <1>2, <1>3, <1>4, <1>5, WorkOK

\* The file to be replaced is out of the way.
LEMMA AsideOK ==
    ASSUME NEW o \in Commands, Before(o), at[o] \in {"apply", "undo"}, todo[o] # {},
           Same(o), NEW p \in todo[o], todo'[o] = todo[o],
           at'[o] = IF Forward(o) THEN "swap" ELSE "unswap",
           \A q \in Paths \ {p} : ws'[q] = ws[q]
    PROVE  StageOK(o)' /\ DataOK(o)'
<1>1. Applying(o) /\ Files(o) \in SUBSET Paths
  BY FilesArePaths DEF Applying, Before
<1>2. todo[o] \subseteq Files(o)
  BY <1>1, WorkFacts
<1>3. at'[o] \in {"swap", "unswap"} /\ (at'[o] = "swap" <=> at[o] = "apply")
  BY DEF Forward
<1>4. ASSUME touched[o] = {}, at'[o] = "swap", NEW q \in Files(o) \ todo'[o]
      PROVE  ws'[q] = content[target[o]][q]
  BY <1>1, <1>3, <1>4, WorkShows
<1>5. ASSUME touched[o] = {}, at'[o] = "unswap", NEW q \in Files(o) \ todo'[o]
      PROVE  ws'[q] = content[o][q]
  BY <1>1, <1>3, <1>5, WorkShows
<1> QED BY <1>1, <1>2, <1>3, <1>4, <1>5, WorkOK

LEMMA DeleteOK == ASSUME NEW o \in Commands, Before(o), Delete(o) PROVE StageOK(o)' /\ DataOK(o)'
<1> DEFINE p == First(todo[o])
<1>1. /\ at[o] \in {"apply", "undo"} /\ Source(o)[p] = Absent /\ p \in todo[o] /\ p \in Paths
      /\ UNCHANGED <<store, target, plan>> /\ touched'[o] = touched[o]
  BY NextFile, OwnTouched DEF Delete, Before, Command
<1> HIDE DEF p
<1>2. CASE Fail(o)
  BY <1>1, <1>2, FailOK
<1>3. CASE ~Fail(o)
  <2>1. /\ todo'[o] = todo[o] \ {p} /\ at' = at /\ told' = told
        /\ ws' = [ws EXCEPT ![p] = Absent] \/ (ws' = ws /\ ws[p] = Absent)
    BY <1>3, Facts DEF Delete, Write, Todo, OwnTypes, p
  <2>2. ws'[p] = Source(o)[p] /\ \A q \in Paths \ {p} : ws'[q] = ws[q]
    BY <1>1, <2>1, Facts DEF FileTypes
  <2>3. Same(o) /\ at'[o] = Loop(o)
    BY <1>1, <2>1 DEF Same, store, Loop, Forward
  <2> QED BY <1>1, <2>1, <2>2, <2>3, NextOK
<1> QED BY <1>2, <1>3

LEMMA SetAsideOK ==
    ASSUME NEW o \in Commands, Before(o), SetAside(o) PROVE StageOK(o)' /\ DataOK(o)'
<1> DEFINE p == First(todo[o])
<1>1. /\ at[o] \in {"apply", "undo"} /\ todo[o] # {} /\ p \in todo[o] /\ p \in Paths
      /\ UNCHANGED <<store, target, plan>> /\ touched'[o] = touched[o]
  BY NextFile, OwnTouched DEF SetAside, Before, Command
<1> HIDE DEF p
<1>2. CASE Fail(o)
  BY <1>1, <1>2, FailOK
<1>3. CASE ~Fail(o)
  <2>1. /\ todo' = todo /\ at'[o] = (IF Forward(o) THEN "swap" ELSE "unswap") /\ told' = told
        /\ ws' = [ws EXCEPT ![p] = Absent] \/ ws' = ws
    BY <1>3, Facts DEF SetAside, Write, Goto, OwnTypes, p
  <2>2. \A q \in Paths \ {p} : ws'[q] = ws[q]
    BY <2>1, Facts DEF FileTypes
  <2>3. Same(o)
    BY <1>1, <2>1 DEF Same, store
  <2> QED BY <1>1, <2>1, <2>2, <2>3, AsideOK
<1> QED BY <1>2, <1>3

LEMMA PutInPlaceOK ==
    ASSUME NEW o \in Commands, Before(o), PutInPlace(o) PROVE StageOK(o)' /\ DataOK(o)'
<1> DEFINE p == First(todo[o])
<1>1. /\ at[o] \in {"swap", "unswap"} /\ todo[o] # {} /\ p \in todo[o] /\ p \in Paths
      /\ UNCHANGED <<store, target, plan>> /\ touched'[o] = touched[o]
  <2>1. at[o] \in {"swap", "unswap"} /\ todo[o] # {} /\ UNCHANGED <<store, target, plan>>
    BY DEF PutInPlace, Before, StageOK
  <2> QED BY <2>1, NextFile, OwnTouched DEF Before, Command
<1> HIDE DEF p
<1>2. CASE Fail(o)
  BY <1>1, <1>2, FailOK
<1>3. CASE ~Fail(o)
  <2>1. /\ todo'[o] = todo[o] \ {p} /\ at'[o] = Loop(o) /\ told' = told
        /\ ws' = [ws EXCEPT ![p] = Source(o)[p]]
    BY <1>3, Facts DEF PutInPlace, Write, Goto, Todo, OwnTypes, p
  <2>2. ws'[p] = Source(o)[p] /\ \A q \in Paths \ {p} : ws'[q] = ws[q]
    BY <1>1, <2>1, Facts DEF FileTypes
  <2>3. Same(o)
    BY <1>1, <2>1 DEF Same, store
  <2> QED BY <1>1, <2>1, <2>2, <2>3, NextOK
<1> QED BY <1>2, <1>3

LEMMA AppliedOK ==
    ASSUME NEW o \in Commands, Before(o), Applied(o) PROVE StageOK(o)' /\ DataOK(o)'
<1>1. /\ at[o] \in {"apply", "undo"} /\ todo[o] = {} /\ todo' = todo
      /\ UNCHANGED <<ws, store, target, plan, touched>>
  BY DEF Applied
<1>2. Applying(o)
  BY <1>1 DEF Applying
<1>3. CASE Forward(o) /\ Goto(o, "mark") /\ UNCHANGED told
  <2>1. at'[o] = "mark" /\ at[o] = "apply"
    BY <1>1, <1>3, Facts DEF Goto, OwnTypes, Forward
  <2>2. Same(o)
    BY <1>1, <1>3 DEF Same, store
  <2> QED BY <1>1, <1>2, <2>1, <2>2, WorkOK, WorkShows
<1>4. CASE ~Forward(o) /\ Say(o, "rolled_back")
  <2>1. at'[o] = "done" /\ told'[o] = "rolled_back" /\ at[o] = "undo"
    BY <1>1, <1>4, Facts DEF Say, Goto, OwnTypes, Forward
  <2>2. /\ Reverting(o) /\ status[o] # "NONE" /\ target[o] \in Commands \ {o}
        /\ status[target[o]] # "NONE" /\ DOMAIN content[o] = Files(o)
    BY <1>2 DEF Before, StageOK
  <2>3. Files(o)' = Files(o) /\ Reverting(o)' /\ ~Applying(o)' /\ ~Done(o)'
    BY <1>1, <2>1, <2>2 DEF store, Files, Reverting, Applying, Done
  <2>4. StageOK(o)'
    BY <1>1, <2>1, <2>2, <2>3 DEF StageOK, store
  <2>5. touched[o] = {} => \A p \in Files(o) : PutBack(o, p)'
    BY <1>1, <1>2, <2>1, WorkShows DEF PutBack, store
  <2>6. touched[o] = {} =>
          \A p \in Files(o) : plan'[o][p] = Step(content'[target'[o]][p], content'[o][p])
    BY <1>1, <2>2 DEF Before, DataOK, store
  <2>7. DataOK(o)'
    BY <1>1, <2>1, <2>3, <2>5, <2>6 DEF DataOK
  <2> QED BY <2>4, <2>7
<1> QED BY <1>3, <1>4 DEF Applied

\* A reversal that was reported, or is about to be.
LEMMA ReportOK ==
    ASSUME NEW o \in Commands, Before(o), Reverting(o), status[o] # "NONE",
           at'[o] \in {"audit", "done"}, told'[o] \in {"nothing", "reverted", "unaudited"},
           at'[o] = "audit" => told'[o] = "nothing", at'[o] = "done" => told'[o] # "nothing",
           target'[o] = target[o], plan'[o] = plan[o], ws' = ws, touched'[o] = touched[o],
           status'[target[o]] = "REVERTED", safety'[target[o]] = o,
           touched[o] = {} => \A p \in Files(o) : Restored(o, p)
    PROVE  StageOK(o)' /\ DataOK(o)'
<1>1. /\ target[o] \in Commands \ {o} /\ DOMAIN content[o] = Files(o)
  BY DEF Before, StageOK
<1>2. /\ Files(o)' = Files(o) /\ Reverting(o)' /\ content'[target'[o]] = content[target[o]]
      /\ status'[o] # "NONE" /\ content'[o] = content[o]
  BY <1>1, FilesStay DEF Before, Reverting, RowsStay
<1>3. ~Applying(o)'
  BY DEF Applying
<1>4. StageOK(o)'
  BY <1>1, <1>2, <1>3 DEF StageOK
<1>5. touched[o] = {} =>
        \A p \in Files(o) : plan'[o][p] = Step(content'[target'[o]][p], content'[o][p])
  BY <1>2 DEF Before, DataOK
<1>6. touched[o] = {} => \A p \in Files(o) : Restored(o, p)'
  BY <1>2 DEF Restored
<1>7. DataOK(o)'
  BY <1>2, <1>5, <1>6 DEF DataOK
<1> QED BY <1>4, <1>7

LEMMA MarkOK == ASSUME NEW o \in Commands, Before(o), Mark(o) PROVE StageOK(o)' /\ DataOK(o)'
<1>1. /\ at[o] = "mark" /\ UNCHANGED <<ws, content, target, plan, told, touched>>
      /\ todo[o] = {}
  BY DEF Mark, Before, StageOK
<1>2. Applying(o)
  BY <1>1 DEF Applying
<1>3. /\ Reverting(o) /\ status[o] # "NONE" /\ target[o] \in Commands \ {o}
  BY <1>2 DEF Before, StageOK
<1>4. told[o] = "nothing"
  BY <1>1, Facts
<1>5. CASE /\ status' = [status EXCEPT ![target[o]] = "REVERTED"]
           /\ safety' = [safety EXCEPT ![target[o]] = o]
           /\ Goto(o, "audit")
  <2>1. /\ status'[target[o]] = "REVERTED" /\ safety'[target[o]] = o /\ at'[o] = "audit"
    BY <1>3, <1>5, Facts DEF Goto, StoreTypes, OwnTypes
  <2>2. touched[o] = {} => \A p \in Files(o) : Restored(o, p)
    BY <1>1, <1>2, WorkShows DEF Restored
  <2> QED BY <1>1, <1>3, <1>4, <2>1, <2>2, ReportOK
<1>6. CASE Goto(o, "undo") /\ Todo(o, FromStart(o)) /\ UNCHANGED <<status, safety>>
  <2>1. at'[o] = "undo" /\ todo'[o] = Files(o)
    BY <1>6, Facts DEF Goto, Todo, FromStart, OwnTypes
  <2>2. Same(o)
    BY <1>1, <1>6 DEF Same
  <2> QED BY <1>2, <2>1, <2>2, WorkOK
<1> QED BY <1>5, <1>6 DEF Mark

LEMMA AuditOK == ASSUME NEW o \in Commands, Before(o), Audit(o) PROVE StageOK(o)' /\ DataOK(o)'
<1>1. /\ at[o] = "audit" /\ UNCHANGED <<ws, store, target, plan, touched>>
  BY DEF Audit
<1>2. /\ at'[o] = "done" /\ told'[o] \in {"created", "reverted", "unaudited"}
      /\ Reverting(o) => told'[o] # "created"
      /\ ~Reverting(o) => told'[o] # "reverted"
  BY Facts DEF Audit, Say, Goto, OwnTypes, Reverting
<1>3. CASE Reverting(o)
  <2>1. /\ status[target[o]] = "REVERTED" /\ safety[target[o]] = o /\ Done(o)
    BY <1>1, <1>3 DEF Before, StageOK, Done
  <2>2. touched[o] = {} => \A p \in Files(o) : Restored(o, p)
    BY <1>1, <1>3, <2>1 DEF Before, DataOK
  <2>3. CASE status[o] # "NONE"
    BY <1>1, <1>2, <1>3, <2>1, <2>2, <2>3, ReportOK DEF store
  <2>4. CASE status[o] = "NONE"
    <3>1. Files(o)' = Files(o) /\ Reverting(o)' /\ ~Applying(o)'
      BY <1>1, <1>2, <1>3 DEF store, Files, Reverting, Applying
    <3>2. target[o] \in Commands \ {o}
      BY <1>3 DEF Before, StageOK
    <3>3. StageOK(o)'
      BY <1>1, <1>2, <2>1, <2>4, <3>1, <3>2 DEF StageOK, store
    <3>4. touched[o] = {} => \A p \in Files(o) : Restored(o, p)'
      BY <1>1, <2>2 DEF Restored, store
    <3>5. DataOK(o)'
      BY <1>1, <1>2, <2>4, <3>1, <3>4 DEF DataOK, store
    <3> QED BY <3>3, <3>5
  <2> QED BY <2>3, <2>4
<1>4. CASE ~Reverting(o)
  <2>1. ~Reverting(o)' /\ ~Applying(o)' /\ told'[o] # "rolled_back"
    BY <1>1, <1>2, <1>4 DEF Reverting, Applying
  <2> QED BY <1>2, <2>1 DEF StageOK, DataOK
<1> QED BY <1>3, <1>4

LEMMA KillOK == ASSUME NEW o \in Commands, Before(o), Kill(o) PROVE StageOK(o)' /\ DataOK(o)'
<1>1. at'[o] = "done" /\ told'[o] = "killed" /\ UNCHANGED <<ws, store, target, plan, touched>>
  BY Facts DEF Kill, Say, Goto, OwnTypes
<1> QED BY <1>1, EndOK DEF store

\* The same for all of its steps.
LEMMA OwnOK ==
    ASSUME NEW o \in Commands, Before(o), Command(o) \/ Kill(o)
    PROVE  StageOK(o)' /\ DataOK(o)'
BY StartCreateOK, StartRevertOK, PlanOK, ConfirmOK, CaptureOK, InsertOK, DeleteOK, SetAsideOK,
   PutInPlaceOK, AppliedOK, MarkOK, AuditOK, KillOK DEF Command

----------------------------------------------------------------------------
(* The invariant.                                                          *)

\* An edit of the agent, by what a command has to show of its files.
LEMMA EditOK ==
    ASSUME Types, Types', RowsStay, Edit, NEW o \in Commands, StageOK(o), DataOK(o)
    PROVE  StageOK(o)' /\ DataOK(o)'
<1>1. Stays(o) /\ RowOfOther(o)
  BY EditStays DEF Edit, store, RowOfOther
<1>2. Notices(o)
  <2>1. o # "agent" /\ FileTypes
    BY CommandAssumption, TypesParts
  <2> QED BY <2>1, WriteNotices DEF Edit
<1> QED BY <1>1, <1>2, StageStays, DataStays

\* The checkpoint a reverted checkpoint names.
LEMMA SafetyNext ==
    ASSUME RInv, [Next]_vars, Types', RowsStay, NEW i \in Commands
    PROVE  SafetyOK(i)'
<1> SUFFICES ASSUME status'[i] = "REVERTED" PROVE SafetyOK(i)'
  BY DEF SafetyOK
<1>0. StoreTypes /\ OwnTypes
  BY TypesParts DEF RInv
<1>1. CASE status[i] = "REVERTED"
  <2>1. PICK s : s = safety[i]
    OBVIOUS
  <2>2. /\ s \in Commands \ {i} /\ target[s] = i /\ status[s] # "NONE"
        /\ DOMAIN content[s] = DOMAIN content[i]
    BY <1>1, <2>1 DEF RInv, SafetyOK
  <2>3. /\ safety'[i] = s /\ status'[s] # "NONE" /\ content'[s] = content[s]
        /\ content'[i] = content[i]
    BY <1>1, <2>1, <2>2 DEF RowsStay
  <2>4. target'[s] = target[s]
    <3>1. ASSUME NEW w \in Commands, StartRevert(w) PROVE target'[s] = target[s]
      <4>1. w # s
        BY <2>2, <3>1 DEF RInv, StageOK, StartRevert
      <4> QED BY <1>0, <3>1, <4>1 DEF StartRevert, OwnTypes
    <3>2. ASSUME NEW w \in Commands, Command(w) \/ Kill(w), ~StartRevert(w) PROVE UNCHANGED target
      BY <3>2 DEF Command, Kill, StartCreate, Plan, Confirm, CaptureOne, Insert, Delete, SetAside,
                  PutInPlace, Applied, Mark, Audit
    <3> QED BY <3>1, <3>2 DEF Next, Edit, vars
  <2> QED BY <2>2, <2>3, <2>4 DEF SafetyOK
<1>2. CASE status[i] # "REVERTED"
  <2>1. PICK w \in Commands : Mark(w) /\ target[w] = i
    <3>1. ASSUME NEW w \in Commands, Command(w) \/ Kill(w), ~Mark(w) PROVE status'[i] # "REVERTED"
      <4>1. UNCHANGED status \/ status' = [status EXCEPT ![w] = "ACTIVE"]
        BY <3>1 DEF Command, Kill, StartCreate, StartRevert, Plan, Confirm, CaptureOne, Insert,
           InsertFailed, Delete, SetAside, PutInPlace, Applied, Audit, store
      <4> QED BY <1>0, <1>2, <4>1 DEF StoreTypes
    <3>2. PICK w \in Commands : Mark(w)
      BY <1>2, <3>1 DEF Next, Edit, vars, store, Command
    <3>3. UNCHANGED status \/ status' = [status EXCEPT ![target[w]] = "REVERTED"]
      BY <3>2 DEF Mark
    <3> QED BY <1>0, <1>2, <3>2, <3>3 DEF StoreTypes
  <2>2. /\ status' = [status EXCEPT ![i] = "REVERTED"] /\ safety' = [safety EXCEPT ![i] = w]
        /\ content' = content /\ target' = target /\ at[w] = "mark"
    BY <1>2, <2>1 DEF Mark
  <2>3. Applying(w) /\ StageOK(w)
    BY <2>2 DEF Applying, RInv
  <2>4. /\ w \in Commands \ {i} /\ status[w] # "NONE" /\ DOMAIN content[w] = DOMAIN content[i]
    BY <2>1, <2>3 DEF StageOK, Files, Reverting
  <2>5. safety'[i] = w /\ status'[w] # "NONE"
    BY <1>0, <2>2, <2>4 DEF StoreTypes
  <2> QED BY <2>1, <2>2, <2>4, <2>5 DEF SafetyOK
<1> QED BY <1>1, <1>2

\* The invariant holds at first ...
LEMMA RInvInit == Init => RInv
<1> SUFFICES ASSUME Init PROVE RInv
  OBVIOUS
<1>1. Types
  BY InitTypes
<1>2. ASSUME NEW o \in Commands PROVE StageOK(o) /\ DataOK(o) /\ SafetyOK(o)
  <2>1. /\ at[o] = "idle" /\ status[o] = "NONE" /\ target[o] = NoCommand /\ told[o] = "nothing"
        /\ read[o] = Empty /\ plan[o] = Empty
    BY DEF Init
  <2> QED BY <2>1 DEF StageOK, DataOK, SafetyOK, Reverting, Applying, Done
<1> QED BY <1>1, <1>2 DEF RInv

\* ... and every step keeps it.
LEMMA RInvNext == RInv /\ [Next]_vars => RInv'
<1> SUFFICES ASSUME RInv, [Next]_vars PROVE RInv'
  OBVIOUS
<1>1. Types /\ Types' /\ RowsStay
  BY StepTypes, StepRowsStay DEF RInv
<1>2. ASSUME NEW o \in Commands PROVE StageOK(o)' /\ DataOK(o)'
  <2>1. StageOK(o) /\ DataOK(o)
    BY DEF RInv
  <2>2. CASE Command(o) \/ Kill(o)
    BY <1>1, <2>1, <2>2, OwnOK DEF Before
  <2>3. ASSUME NEW w \in Commands \ {o}, Command(w) \/ Kill(w) PROVE StageOK(o)' /\ DataOK(o)'
    <3>1. w \in Commands /\ o \in Commands \ {w}
      OBVIOUS
    <3>2. Stays(o)
      BY <1>1, <2>3, <3>1, CommandStays
    <3>3. RowOfOther(o)
      BY <1>1, <2>3, <3>1, CommandRowOfOther
    <3>4. Notices(o)
      BY <1>1, <2>3, <3>1, CommandNotices
    <3> QED BY <1>1, <2>1, <3>2, <3>3, <3>4, StageStays, DataStays
  <2>4. CASE Edit
    BY <1>1, <2>1, <2>4, EditOK
  <2>5. CASE UNCHANGED vars
    <3>1. Stays(o) /\ RowOfOther(o) /\ Notices(o)
      BY <2>5 DEF vars, store, Stays, RowOfOther, Notices
    <3> QED BY <1>1, <2>1, <3>1, StageStays, DataStays
  <2> QED BY <2>2, <2>3, <2>4, <2>5 DEF Next
<1>3. \A i \in Commands : SafetyOK(i)'
  BY <1>1, SafetyNext
<1> QED BY <1>1, <1>2, <1>3 DEF RInv

\* What a command has to show, how that relates to the workspace, and which
\* checkpoint a reverted one names: true in every state, whatever fails, is
\* killed or edited in between.
THEOREM CheckpointInvariant == Spec => []RInv
BY RInvInit, RInvNext, PTL DEF Spec

----------------------------------------------------------------------------
(* The properties.                                                         *)

\* Types and ranges; rows of checkpoint_files exist for rows of checkpoints.
THEOREM CheckpointTypes == Spec => []TypeOK
<1>1. RInv => TypeOK
  <2> SUFFICES ASSUME Types PROVE TypeOK
    BY DEF RInv
  <2>1. \A i \in Commands : content[i] \in [DOMAIN content[i] -> File]
                            /\ DOMAIN content[i] \subseteq Paths
    BY PartialIsOnPaths DEF Types
  <2> QED BY <2>1 DEF Types, TypeOK
<1> QED BY <1>1, CheckpointInvariant, PTL

\* MarkCheckpointReverted lets one reversal of a checkpoint succeed, and its
\* row then names the checkpoint that reversal took of the same files before.
THEOREM ReversalsCanBeUndone == Spec => []RevertedIsUndoable
<1>1. RInv => RevertedIsUndoable
  <2> SUFFICES ASSUME RInv PROVE RevertedIsUndoable
    OBVIOUS
  <2>1. \A i \in Commands : SafetyOK(i)
    BY DEF RInv
  <2>2. ASSUME NEW o \in Commands, told[o] \in {"reverted", "unaudited"}, target[o] # NoCommand
        PROVE  safety[target[o]] = o
    BY <2>2 DEF RInv, StageOK, Reverting, Done
  <2> QED BY <2>1, <2>2 DEF RevertedIsUndoable, SafetyOK
<1> QED BY <1>1, CheckpointInvariant, PTL

\* applyFiles restores every file of a reversal that gets as far as its mark
\* or reports success, as long as nobody else wrote to them.
THEOREM ReversalsRestore == Spec => []RevertRestores
<1>1. RInv => RevertRestores
  <2> SUFFICES ASSUME RInv, NEW o \in Commands, target[o] # NoCommand, touched[o] = {},
                      at[o] \in {"mark", "audit"} \/ told[o] \in {"reverted", "unaudited"}
               PROVE  Holds(target[o])
    BY DEF RevertRestores
  <2>1. Reverting(o) /\ (at[o] = "mark" \/ Done(o))
    BY DEF Reverting, Done
  <2>2. \A p \in Files(o) : Restored(o, p)
    BY <2>1 DEF RInv, DataOK
  <2> QED BY <2>1, <2>2 DEF Holds, Restored, Files, Reverting
<1> QED BY <1>1, CheckpointInvariant, PTL

\* The plan printed before a reversal is what happens to the files it finds,
\* as long as nobody else wrote to them.
THEOREM PlansAreFollowed == Spec => []PlanIsFollowed
<1>1. RInv => PlanIsFollowed
  <2> SUFFICES ASSUME RInv, NEW o \in Commands, DOMAIN content[o] # {}, touched[o] = {},
                      NEW p \in Files(o)
               PROVE  plan[o][p] = Step(content[target[o]][p], content[o][p])
    BY StepSays DEF PlanIsFollowed
  <2>1. Reverting(o)
    BY DEF Reverting, Files
  <2>2. status[o] # "NONE"
    BY DEF RInv, Types
  <2> QED BY <2>1, <2>2 DEF RInv, DataOK
<1> QED BY <1>1, CheckpointInvariant, PTL

\* A reversal that fails and reports that it was rolled back has left every
\* file as its own checkpoint, taken before its first write, found it.
THEOREM FailuresAreCompensated == Spec => []FailureIsCompensated
<1>1. RInv => FailureIsCompensated
  <2> SUFFICES ASSUME RInv, NEW o \in Commands, told[o] = "rolled_back", touched[o] = {}
               PROVE  Holds(o)
    BY DEF FailureIsCompensated
  <2>1. Reverting(o) /\ DOMAIN content[o] = Files(o)
    BY DEF RInv, StageOK
  <2>2. \A p \in Files(o) : PutBack(o, p)
    BY <2>1 DEF RInv, DataOK
  <2> QED BY <2>1, <2>2 DEF Holds, PutBack
<1> QED BY <1>1, CheckpointInvariant, PTL

----------------------------------------------------------------------------
(* What a reversal takes away is kept.                                     *)

\* What a checkpoint in the database holds it holds for good.
LEMMA HeldStays ==
    ASSUME Types, RowsStay, NEW p, NEW x, Held(p, x) PROVE Held(p, x)'
<1>1. PICK i \in Commands : p \in DOMAIN content[i] /\ content[i][p] = x
  BY DEF Held
<1>2. status[i] # "NONE"
  BY <1>1 DEF Types
<1>3. content'[i] = content[i]
  BY <1>2 DEF RowsStay
<1> QED BY <1>1, <1>3 DEF Held

\* A content of a file that stays as it is stays kept.
LEMMA KeptStays ==
    ASSUME Types, RowsStay, NEW p, Kept(p), ws'[p] = ws[p] PROVE Kept(p)'
<1>1. PICK x : x = ws[p]
  OBVIOUS
<1>2. Held(p, x) => Held(p, x)'
  BY HeldStays
<1>3. Held(p, x) <=> Held(p, ws[p])
  BY <1>1
<1>4. Held(p, x)' => Held(p, ws[p])'
  BY <1>1 DEF Held
<1> QED BY <1>1, <1>2, <1>3, <1>4 DEF Kept

\* Only a command that replaces files writes, to the file it has come to, and
\* what it puts there is nothing, the content of a checkpoint or the backup.
LEMMA OwnWrites ==
    ASSUME Types, NEW w \in Commands, StageOK(w), Command(w) \/ Kill(w), NEW p \in Paths,
           ws'[p] # ws[p]
    PROVE  /\ Applying(w) /\ p = First(todo[w]) /\ p \in Files(w)
           /\ \/ ws'[p] = Absent
              \/ ws'[p] = Source(w)[p]
              \/ at[w] \in {"swap", "unswap"} /\ ws'[p] = backup[w]
<1>0. ws \in [Paths -> File]
  BY DEF Types
<1>1. Delete(w) \/ SetAside(w) \/ PutInPlace(w)
  BY DEF Command, Kill, StartCreate, StartRevert, Plan, Confirm, CaptureOne, Insert, Applied,
         Mark, Audit
<1>2. at[w] \in {"apply", "undo", "swap", "unswap"} /\ todo[w] # {}
  BY <1>1 DEF Delete, SetAside, PutInPlace, StageOK
<1>3. Applying(w)
  BY <1>2 DEF Applying
<1>4. First(todo[w]) \in todo[w] /\ todo[w] \subseteq Files(w)
  BY <1>2, <1>3, NextFile DEF StageOK
<1>5. \/ ws' = [ws EXCEPT ![First(todo[w])] = Absent]
      \/ ws' = [ws EXCEPT ![First(todo[w])] = Source(w)[First(todo[w])]]
      \/ at[w] \in {"swap", "unswap"} /\ ws' = [ws EXCEPT ![First(todo[w])] = backup[w]]
  BY <1>1 DEF Delete, SetAside, PutInPlace, Write
<1>6. p = First(todo[w])
  BY <1>0, <1>5
<1> QED BY <1>0, <1>3, <1>4, <1>5, <1>6

\* So whatever a command writes is kept.
LEMMA WrittenIsKept ==
    ASSUME Types, RowsStay, NEW w \in Commands, StageOK(w), KeptOK(w), Command(w) \/ Kill(w),
           NEW p \in Paths, ws'[p] # ws[p]
    PROVE  Kept(p)'
<1>1. Applying(w) /\ p = First(todo[w]) /\ p \in Files(w)
  BY OwnWrites
<1>2. CASE ws'[p] = Absent
  BY <1>2 DEF Kept
<1>3. CASE ws'[p] = Source(w)[p]
  <2>1. PICK x : x = Source(w)[p]
    OBVIOUS
  <2>2. Held(p, x)
    BY <1>1, <2>1, SourceIsFile DEF Held
  <2>3. Held(p, x)'
    BY <2>2, HeldStays
  <2> QED BY <1>3, <2>1, <2>3 DEF Kept, Held
<1>4. CASE at[w] \in {"swap", "unswap"} /\ ws'[p] = backup[w]
  <2>1. PICK x : x = backup[w]
    OBVIOUS
  <2>2. x = Absent \/ Held(p, x)
    BY <1>1, <1>4, <2>1 DEF KeptOK
  <2>3. x = Absent \/ Held(p, x)'
    BY <2>2, HeldStays
  <2> QED BY <1>4, <2>1, <2>3 DEF Kept, Held
<1> QED BY <1>2, <1>3, <1>4, OwnWrites

\* What others do leaves what a command may take away kept.
LEMMA KeptOfOther ==
    ASSUME Types, RowsStay, NEW o \in Commands, StageOK(o), KeptOK(o), Stays(o),
           \A p \in Paths : ws'[p] = ws[p] \/ Kept(p)'
    PROVE  KeptOK(o)'
<1>1. Files(o)' = Files(o) /\ Reverting(o)' = Reverting(o) /\ Applying(o)' = Applying(o)
  BY FilesStay DEF Stays, Reverting, Applying
<1>2. Files(o) \in SUBSET Paths /\ DOMAIN read[o] \in SUBSET Paths
  BY FilesArePaths, PartialIsOnPaths DEF Types
<1>3. \A p \in Paths : Kept(p) => Kept(p)'
  BY KeptStays
<1>4. ASSUME at[o] \in {"capture", "insert"}, Reverting(o), NEW p \in DOMAIN read[o]
      PROVE  Kept(p)' \/ ws'[p] = read[o][p]
  <2>1. Kept(p) \/ ws[p] = read[o][p]
    BY <1>4 DEF KeptOK
  <2> QED BY <1>2, <1>3, <2>1
<1>5. ASSUME Applying(o), NEW p \in Files(o) PROVE Kept(p)'
  BY <1>2, <1>3, <1>5 DEF KeptOK
<1>6. ASSUME at[o] \in {"swap", "unswap"}
      PROVE  backup[o] = Absent \/ Held(First(todo[o]), backup[o])'
  <2>1. PICK p, x : p = First(todo[o]) /\ x = backup[o]
    OBVIOUS
  <2>2. x = Absent \/ Held(p, x)'
    BY <1>6, <2>1, HeldStays DEF KeptOK
  <2>3. todo'[o] = todo[o] /\ backup'[o] = backup[o]
    BY DEF Stays
  <2>4. p = First(todo'[o]) /\ x = backup'[o]
    BY <2>1, <2>3
  <2> QED BY <2>1, <2>2, <2>4 DEF Held
<1>7. at[o] \notin {"swap", "unswap"} => backup[o] = Absent
  BY DEF KeptOK
<1> QED BY <1>1, <1>4, <1>5, <1>6, <1>7 DEF KeptOK, Stays

\* A command that replaces no files before or after its step.
LEMMA KeptIdle ==
    ASSUME NEW o \in Commands, ~Applying(o)', backup'[o] = Absent,
           at'[o] \in {"capture", "insert"} /\ Reverting(o)' =>
              \A p \in DOMAIN read'[o] : Kept(p)' \/ ws'[p] = read'[o][p]
    PROVE  KeptOK(o)'
BY DEF KeptOK, Applying

\* A command reads its files into its checkpoint ...
LEMMA KeptCapture ==
    ASSUME NEW o \in Commands, Before(o), KeptOK(o), CaptureOne(o) PROVE KeptOK(o)'
<1>1. /\ at[o] = "capture" /\ UNCHANGED <<ws, store, target, backup>> /\ backup[o] = Absent
  BY DEF CaptureOne, KeptOK
<1>2. \A p : Kept(p) => Kept(p)'
  BY <1>1 DEF Kept, Held, store
<1>3. CASE Say(o, "failed")
  <2>1. at'[o] = "done"
    BY <1>3, Facts DEF Say, Goto, OwnTypes
  <2> QED BY <1>1, <2>1, KeptIdle DEF Applying
<1>4. ASSUME NEW p \in todo[o], read' = [read EXCEPT ![o] = With(@, p, ws[p])],
             Goto(o, IF todo[o] = {p} THEN "insert" ELSE "capture")
      PROVE  KeptOK(o)'
  <2>1. at'[o] \in {"insert", "capture"} /\ read'[o] = With(read[o], p, ws[p])
    BY <1>4, Facts DEF Goto, OwnTypes
  <2>2. ASSUME Reverting(o), NEW q \in DOMAIN read'[o] PROVE Kept(q)' \/ ws'[q] = read'[o][q]
    <3>1. q = p => read'[o][q] = ws[q]
      BY <2>1, <2>2 DEF With
    <3>2. q # p => q \in DOMAIN read[o] /\ read'[o][q] = read[o][q]
      BY <2>1, <2>2 DEF With
    <3>3. q # p => Kept(q) \/ ws[q] = read[o][q]
      BY <1>1, <2>2, <3>2 DEF KeptOK
    <3> QED BY <1>1, <1>2, <3>1, <3>2, <3>3
  <2> QED BY <1>1, <2>1, <2>2, KeptIdle DEF Applying, Reverting
<1> QED BY <1>3, <1>4 DEF CaptureOne

\* ... which from then on holds what is there.
LEMMA KeptInsert ==
    ASSUME NEW o \in Commands, Before(o), KeptOK(o), Insert(o) PROVE KeptOK(o)'
<1>1. /\ at[o] = "insert" /\ UNCHANGED <<ws, target, backup>> /\ backup[o] = Absent
      /\ Reverting(o) => DOMAIN read[o] = Files(o)
  BY DEF Insert, KeptOK, Before, StageOK
<1>2. CASE InsertFailed(o)
  <2>1. at'[o] = "done"
    BY <1>2, Facts DEF InsertFailed, Say, Goto, OwnTypes
  <2> QED BY <1>1, <2>1, KeptIdle DEF Applying
<1>3. CASE /\ content' = [content EXCEPT ![o] = read[o]]
           /\ Goto(o, IF target[o] = NoCommand THEN "audit" ELSE "apply")
  <2>1. content'[o] = read[o] /\ at'[o] = (IF Reverting(o) THEN "apply" ELSE "audit")
    BY <1>3, Facts DEF Goto, OwnTypes, StoreTypes, Reverting
  <2>2. CASE ~Reverting(o)
    BY <1>1, <2>1, <2>2, KeptIdle DEF Applying
  <2>3. CASE Reverting(o)
    <3>1. Files(o)' = Files(o)
      BY <1>1, FilesStay DEF Before
    <3>2. ASSUME NEW p \in Files(o) PROVE Kept(p)'
      <4>1. Kept(p) \/ ws[p] = read[o][p]
        BY <1>1, <2>3 DEF KeptOK
      <4>2. ws[p] = read[o][p] => Held(p, ws[p])'
        BY <1>1, <2>1, <2>3 DEF Held
      <4>3. Kept(p) => Kept(p)'
        BY <1>1, KeptStays DEF Before
      <4> QED BY <1>1, <4>1, <4>2, <4>3 DEF Kept
    <3> QED BY <1>1, <2>1, <2>3, <3>1, <3>2 DEF KeptOK
  <2> QED BY <2>2, <2>3
<1> QED BY <1>2, <1>3 DEF Insert

\* A command at work keeps what it takes away, renamed aside or not.
LEMMA KeptWork ==
    ASSUME NEW o \in Commands, Before(o), KeptOK(o), Applying(o),
           Delete(o) \/ SetAside(o) \/ PutInPlace(o) \/ Applied(o) \/ Mark(o)
    PROVE  KeptOK(o)'
<1>0. Types /\ RowsStay /\ StageOK(o) /\ Command(o) /\ UNCHANGED target
  BY DEF Before, Command, Delete, SetAside, PutInPlace, Applied, Mark
<1>1. /\ Reverting(o) /\ Files(o)' = Files(o) /\ todo[o] \subseteq Files(o)
      /\ Files(o) \in SUBSET Paths
  BY <1>0, FilesStay, FilesArePaths DEF StageOK
<1>2. ASSUME NEW p \in Files(o) PROVE Kept(p)'
  <2>1. p \in Paths /\ Kept(p)
    BY <1>1 DEF KeptOK
  <2>2. ws'[p] = ws[p] => Kept(p)'
    BY <1>0, <2>1, KeptStays
  <2>3. ws'[p] # ws[p] => Kept(p)'
    BY <1>0, <2>1, WrittenIsKept
  <2> QED BY <2>2, <2>3
<1>3. CASE SetAside(o) /\ ~Fail(o)
  <2>0. PICK p, x : p = First(todo[o]) /\ x = ws[p]
    OBVIOUS
  <2>1. /\ at[o] \in {"apply", "undo"} /\ todo[o] # {} /\ todo' = todo /\ backup[o] = Absent
    BY <1>3 DEF SetAside, KeptOK
  <2>2. p \in Files(o)
    BY <1>0, <1>1, <2>0, <2>1, NextFile
  <2>3. x = Absent \/ Held(p, x)
    BY <2>0, <2>2 DEF KeptOK, Kept
  <2>4. /\ at'[o] \in {"swap", "unswap"}
        /\ backup'[o] = x \/ backup'[o] = Absent
    BY <1>3, <2>0, <2>1, Facts DEF SetAside, Goto, OwnTypes
  <2>5. x = Absent \/ Held(p, x)'
    BY <1>0, <2>3, HeldStays
  <2>6. backup'[o] = Absent \/ Held(First(todo[o]), backup[o])'
    <3>1. p = First(todo'[o])
      BY <2>0, <2>1
    <3> QED BY <2>4, <2>5, <3>1 DEF Held
  <2> QED BY <1>1, <1>2, <2>4, <2>6 DEF KeptOK
<1>4. CASE ~(SetAside(o) /\ ~Fail(o))
  <2>1. at'[o] \notin {"swap", "unswap", "capture", "insert"} /\ backup'[o] = Absent
    <3>1. Fail(o) => at'[o] \notin {"swap", "unswap", "capture", "insert"}
      BY Facts DEF Fail, Say, Goto, OwnTypes
    <3>2. CASE Delete(o) \/ SetAside(o)
      <4>1. at[o] \in {"apply", "undo"} /\ backup[o] = Absent
        BY <3>2 DEF Delete, SetAside, KeptOK
      <4>2. Fail(o) \/ at' = at
        <5>1. SetAside(o) => Fail(o)
          BY <1>4
        <5>2. Delete(o) => Fail(o) \/ at' = at
          BY DEF Delete
        <5> QED BY <3>2, <5>1, <5>2
      <4>3. backup' = backup
        <5>1. SetAside(o) => backup' = backup \/ Goto(o, IF Forward(o) THEN "swap" ELSE "unswap")
          BY DEF SetAside
        <5>2. Goto(o, IF Forward(o) THEN "swap" ELSE "unswap") => at'[o] \in {"swap", "unswap"}
          BY Facts DEF Goto, OwnTypes
        <5>3. SetAside(o) => backup' = backup
          BY <1>4, <3>1, <5>1, <5>2
        <5>4. Delete(o) => backup' = backup
          BY DEF Delete
        <5> QED BY <3>2, <5>3, <5>4
      <4> QED BY <3>1, <4>1, <4>2, <4>3
    <3>3. CASE PutInPlace(o)
      <4>1. backup'[o] = Absent
        BY <3>3, Facts DEF PutInPlace, OwnTypes
      <4>2. Fail(o) \/ Goto(o, Loop(o))
        BY <3>3 DEF PutInPlace
      <4> QED BY <3>1, <4>1, <4>2, Facts DEF Goto, Loop, OwnTypes
    <3>4. CASE Applied(o) \/ Mark(o)
      <4>1. at[o] \in {"apply", "undo", "mark"} /\ backup' = backup /\ backup[o] = Absent
        BY <3>4 DEF Applied, Mark, KeptOK
      <4>2. at'[o] \in {"mark", "done", "audit", "undo"}
        BY <3>4, Facts DEF Applied, Mark, Say, Goto, OwnTypes
      <4> QED BY <4>1, <4>2
    <3> QED BY <3>2, <3>3, <3>4
  <2> QED BY <1>1, <1>2, <2>1 DEF KeptOK
<1> QED BY <1>3, <1>4

\* A command's own steps.
LEMMA KeptOwn ==
    ASSUME NEW o \in Commands, Before(o), KeptOK(o), Command(o) \/ Kill(o) PROVE KeptOK(o)'
<1>1. CASE CaptureOne(o) \/ Insert(o)
  BY <1>1, KeptCapture, KeptInsert
<1>2. CASE Delete(o) \/ SetAside(o) \/ PutInPlace(o) \/ Applied(o) \/ Mark(o)
  <2>1. Applying(o)
    BY <1>2 DEF Delete, SetAside, PutInPlace, Applied, Mark, Applying
  <2> QED BY <1>2, <2>1, KeptWork
<1>3. CASE StartCreate(o) \/ StartRevert(o) \/ Plan(o) \/ Confirm(o) \/ Audit(o)
  <2>1. at[o] \notin {"swap", "unswap"} /\ backup' = backup /\ read' = read
    BY <1>3 DEF StartCreate, StartRevert, Plan, Confirm, Audit
  <2>2. at'[o] \in {"capture", "plan", "prompt", "done"}
    BY <1>3, Facts DEF StartCreate, StartRevert, Plan, Confirm, Audit, Say, Goto, OwnTypes
  <2>3. at'[o] = "capture" => DOMAIN read'[o] = {}
    <3>1. at'[o] = "capture" => at[o] \in {"idle", "prompt"}
      BY <1>3, Facts DEF StartCreate, StartRevert, Plan, Confirm, Audit, Say, Goto, OwnTypes
    <3> QED BY <2>1, <3>1, EmptyIsPartial DEF Before, StageOK
  <2> QED BY <2>1, <2>2, <2>3, KeptIdle DEF KeptOK, Applying
<1>4. CASE Kill(o)
  <2>1. at'[o] = "done" /\ backup'[o] = Absent
    BY <1>4, Facts DEF Kill, Say, Goto, OwnTypes
  <2> QED BY <2>1, KeptIdle DEF Applying
<1> QED BY <1>1, <1>2, <1>3, <1>4 DEF Command

\* What is kept stays kept, when the agent leaves a reversal at work alone.
LEMMA KInvNext == ASSUME ~EditsAnyTime, RInv, KInv, [Next]_vars PROVE KInv'
<1> SUFFICES ASSUME NEW o \in Commands PROVE KeptOK(o)'
  BY DEF KInv
<1>1. Types /\ Types' /\ RowsStay /\ StageOK(o) /\ DataOK(o) /\ KeptOK(o)
  BY StepTypes, StepRowsStay DEF RInv, KInv
<1>2. CASE Command(o) \/ Kill(o)
  BY <1>1, <1>2, KeptOwn DEF Before
<1>3. ASSUME NEW w \in Commands \ {o}, Command(w) \/ Kill(w) PROVE KeptOK(o)'
  <2>1. w \in Commands /\ o \in Commands \ {w} /\ StageOK(w) /\ KeptOK(w)
    BY DEF RInv, KInv
  <2>2. Stays(o)
    BY <1>1, <1>3, <2>1, CommandStays
  <2>3. \A p \in Paths : ws'[p] = ws[p] \/ Kept(p)'
    BY <1>1, <1>3, <2>1, WrittenIsKept
  <2> QED BY <1>1, <2>2, <2>3, KeptOfOther
<1>4. CASE Edit
  <2>1. ~AtWork(o) /\ Stays(o)
    BY <1>4, EditStays DEF Edit
  <2>2. ~Applying(o)' /\ ~(at'[o] \in {"capture", "insert"} /\ Reverting(o)')
    BY <2>1 DEF AtWork, Applying, Reverting, Stays
  <2>3. at[o] \notin {"swap", "unswap"} /\ backup'[o] = Absent
    BY <1>1, <2>1 DEF AtWork, KeptOK, Stays
  <2> QED BY <2>2, <2>3, KeptIdle
<1>5. CASE UNCHANGED vars
  <2>1. Stays(o) /\ \A p \in Paths : ws'[p] = ws[p]
    BY <1>5 DEF vars, Stays
  <2> QED BY <1>1, <2>1, KeptOfOther
<1> QED BY <1>2, <1>3, <1>4, <1>5 DEF Next

\* Nothing is at work at first.
LEMMA KInvInit == Init => KInv
<1> SUFFICES ASSUME Init, NEW o \in Commands PROVE KeptOK(o)
  BY DEF KInv
<1>1. at[o] = "idle" /\ backup[o] = Absent
  BY DEF Init
<1> QED BY <1>1 DEF KeptOK, Applying

\* The safety checkpoint preserves the state before a reversal: whatever a
\* reversal, its rollback or a kill in the middle takes away from a path is
\* held for it by a checkpoint, when no edit comes while a reversal is at work
\* (one that does is what replaceRegularFile cannot tell from the checkpoint).
THEOREM OverwritesAreHeld == ASSUME ~EditsAnyTime PROVE Spec => OverwritesAreKept
<1>1. RInv /\ KInv /\ [Next]_vars => KInv'
  BY KInvNext
<1>2. RInv /\ KInv /\ [Next]_vars =>
        [Edit \/ \A p \in Paths :
                    ws[p] # Absent /\ ws'[p] # ws[p] =>
                        \E i \in Commands : p \in DOMAIN content[i] /\ content[i][p] = ws[p]]_vars
  <2> SUFFICES ASSUME RInv, KInv, Next, ~Edit, NEW p \in Paths, ws[p] # Absent, ws'[p] # ws[p]
               PROVE  Held(p, ws[p])
    BY DEF Held
  <2>1. PICK w \in Commands : Command(w) \/ Kill(w)
    BY DEF Next
  <2>2. Types /\ StageOK(w) /\ KeptOK(w)
    BY DEF RInv, KInv
  <2>3. Applying(w) /\ p \in Files(w)
    BY <2>1, <2>2, OwnWrites
  <2> QED BY <2>2, <2>3 DEF KeptOK, Kept
<1> QED BY <1>1, <1>2, KInvInit, CheckpointInvariant, PTL DEF Spec, OverwritesAreKept

=============================================================================
