---------------------------- MODULE ConsentProofs ----------------------------
(***************************************************************************)
(* Proofs about ConsentGateway, for any processes, calls, commands, grants *)
(* and scopes, whatever races, fails or is killed: every grant goes        *)
(* through its life as GrantLifecycle says, data is served only under live *)
(* grants, the audit trail shows by what authority, and the operator is    *)
(* told the truth.                                                         *)
(*                                                                         *)
(* GrantLifecycle!Request needs the grant to be absent, which Create does  *)
(* not look at: the id is drawn at random, so it belongs to no other call, *)
(* and a call that is idle has not created its own.  Revoke needs it to be *)
(* there, which the UPDATE does not look at either: the command has found  *)
(* the row before.  Approve counts the lifetime from a time that has       *)
(* passed, the one at which the operator confirmed.  GInv says all three.  *)
(*                                                                         *)
(* CInv has a part for each call, a part for each command and a part for   *)
(* each row of the trail.  A step of one of them leaves what the others    *)
(* hold alone, so what is left to show of the others is that the grants    *)
(* they rest on only move forward (GrantsMove), as GrantLifecycle has it.  *)
(***************************************************************************)
EXTENDS ConsentGateway, SequenceTheorems, TLAPS

Stages == {"idle", "clock", "resolve", "load", "audit", "save", "done"}

CommandStages == {"idle", "prompt", "approve", "approved", "compensate", "undo", "revoke",
                  "update", "revoked", "done"}
Invocations == [at : CommandStages, grant : Grants \union {NoGrant}, stamp : Nat]

GTypes ==
    /\ now \in Nat \ {0}
    /\ status \in [Grants -> {"ABSENT", "PENDING", "ACTIVE", "REVOKED"}]
    /\ pc \in [Calls -> Stages]
    /\ cmd \in [Commands -> Invocations]

IdleHasNotAsked ==
    \A c \in Calls : pc[c] = "idle" /\ Asks[c] # NoGrant => status[Asks[c]] = "ABSENT"

CommandHasFound ==
    \A o \in Commands :
        cmd[o].at # "idle" => cmd[o].grant \in Grants /\ status[cmd[o].grant] # "ABSENT"

StampHasPassed ==
    \A o \in Commands :
        /\ cmd[o].stamp <= now
        /\ cmd[o].at = "approve" => cmd[o].stamp # 0

GInv == GTypes /\ IdleHasNotAsked /\ CommandHasFound /\ StampHasPassed

grantVars == <<now, status, expiresAt>>

----------------------------------------------------------------------------

\* The invariant holds at the start.
LEMMA GInit == Init => GInv
BY CallAssumption DEF Init, GInv, GTypes, IdleHasNotAsked, CommandHasFound, StampHasPassed, Idle,
                      Stages, CommandStages, Invocations

\* A call that leaves the grants alone keeps the invariant, as long as it does
\* not become idle again.
LEMMA CallStep ==
    ASSUME GInv, NEW c \in Calls, NEW l \in Stages \ {"idle"},
           pc' = [pc EXCEPT ![c] = l], UNCHANGED <<now, status, cmd>>
    PROVE  GInv'
BY DEF GInv, GTypes, IdleHasNotAsked, CommandHasFound, StampHasPassed, Stages

\* A command that goes on, and forgets the time it was confirmed.
MovesTo(o, l) == cmd' = [cmd EXCEPT ![o].at = l, ![o].stamp = 0]

\* A command that goes on with its grant and leaves the grants alone.
LEMMA CommandStep ==
    ASSUME GInv, NEW o \in Commands, NEW l \in CommandStages \ {"approve"},
           cmd[o].at # "idle", MovesTo(o, l), UNCHANGED <<now, status, pc>>
    PROVE  GInv'
<1>1. cmd[o] \in Invocations
  BY DEF GInv, GTypes
<1>2. /\ cmd' = [cmd EXCEPT ![o] = [cmd[o] EXCEPT !.at = l, !.stamp = 0]]
      /\ [cmd[o] EXCEPT !.at = l, !.stamp = 0] \in Invocations
  BY <1>1 DEF MovesTo, Invocations, GInv, GTypes
<1>3. GTypes' /\ IdleHasNotAsked'
  BY <1>2 DEF GInv, GTypes, IdleHasNotAsked
<1>4. CommandHasFound'
  BY <1>1, <1>2 DEF GInv, GTypes, CommandHasFound, Invocations
<1>5. StampHasPassed'
  BY <1>1, <1>2 DEF GInv, GTypes, StampHasPassed, Invocations
<1> QED BY <1>3, <1>4, <1>5 DEF GInv

\* A command that begins with a grant that is there.
LEMMA CommandStart ==
    ASSUME GInv, NEW o \in Commands, NEW l \in CommandStages \ {"approve"}, NEW g \in Grants,
           status[g] # "ABSENT",
           cmd' = [cmd EXCEPT ![o] = [at |-> l, grant |-> g, stamp |-> 0]],
           UNCHANGED <<now, status, pc>>
    PROVE  GInv'
BY DEF GInv, GTypes, IdleHasNotAsked, CommandHasFound, StampHasPassed, Invocations

\* A command that changes its grant, which stays there.
LEMMA CommandChange ==
    ASSUME GInv, NEW o \in Commands, NEW l \in CommandStages \ {"approve"},
           cmd[o].at # "idle", NEW st \in {"ACTIVE", "REVOKED"},
           status' = [status EXCEPT ![cmd[o].grant] = st],
           MovesTo(o, l), UNCHANGED <<now, pc>>
    PROVE  GInv'
<1>1. cmd[o].grant \in Grants /\ status[cmd[o].grant] # "ABSENT"
  BY DEF GInv, CommandHasFound
<1>2. GTypes'
  BY <1>1 DEF GInv, GTypes, Invocations, MovesTo
<1>3. \A g \in Grants : status'[g] = IF g = cmd[o].grant THEN st ELSE status[g]
  BY <1>1 DEF GInv, GTypes
<1>4. IdleHasNotAsked'
  BY <1>1, <1>3, CallAssumption DEF GInv, IdleHasNotAsked
<1>5. CommandHasFound'
  <2> SUFFICES ASSUME NEW p \in Commands, cmd'[p].at # "idle"
               PROVE  cmd'[p].grant \in Grants /\ status'[cmd'[p].grant] # "ABSENT"
    BY DEF CommandHasFound
  <2>1. cmd'[p].grant = cmd[p].grant /\ (p = o \/ cmd[p].at = cmd'[p].at)
    BY DEF GInv, GTypes, Invocations, MovesTo
  <2>2. cmd[p].grant \in Grants /\ status[cmd[p].grant] # "ABSENT"
    BY <2>1 DEF GInv, CommandHasFound
  <2> QED BY <2>1, <2>2, <1>3
<1>6. StampHasPassed'
  BY DEF GInv, GTypes, StampHasPassed, Invocations, MovesTo
<1> QED BY <1>2, <1>4, <1>5, <1>6 DEF GInv

----------------------------------------------------------------------------

\* What is shown of every step: it keeps the invariant, and it is a step of
\* GrantLifecycle or none.
Good == GInv' /\ [Lifecycle!Next]_(Lifecycle!gvars)

\* A call that leaves the grants and the clock alone.
LEMMA QuietCall ==
    ASSUME GInv, NEW c \in Calls, NEW l \in Stages \ {"idle"},
           pc' = [pc EXCEPT ![c] = l], UNCHANGED <<now, status, expiresAt, cmd>>
    PROVE  Good
BY CallStep DEF Good, Lifecycle!gvars

\* A command that leaves them alone.
LEMMA QuietCommand ==
    ASSUME GInv, NEW o \in Commands, NEW l \in CommandStages \ {"approve"},
           cmd[o].at # "idle", MovesTo(o, l), UNCHANGED <<grantVars, pc>>
    PROVE  Good
BY CommandStep DEF Good, Lifecycle!gvars, grantVars

LEMMA CreateIsGood == ASSUME GInv, NEW c \in Calls, Create(c) PROVE Good
<1>1. CASE pc' = [pc EXCEPT ![c] = "done"] /\ UNCHANGED status
  BY <1>1, QuietCall DEF Create, FromCall, Stages
<1>2. CASE /\ status' = [status EXCEPT ![Asks[c]] = "PENDING"]
           /\ pc' = [pc EXCEPT ![c] = "audit"]
  <2>1. /\ pc[c] = "idle" /\ Asks[c] # NoGrant
        /\ UNCHANGED <<now, expiresAt, cmd>>
    BY DEF Create, FromCall
  <2>2. Asks[c] \in Grants /\ status[Asks[c]] = "ABSENT"
    BY <2>1, CallAssumption DEF GInv, IdleHasNotAsked
  <2>3. Lifecycle!Request(Asks[c])
    BY <1>2, <2>1, <2>2 DEF Lifecycle!Request
  <2>4. GTypes'
    BY <1>2, <2>1, <2>2 DEF GInv, GTypes, Stages
  <2>5. \A g \in Grants : status'[g] = IF g = Asks[c] THEN "PENDING" ELSE status[g]
    BY <1>2, <2>2 DEF GInv, GTypes
  <2>6. IdleHasNotAsked'
    <3> SUFFICES ASSUME NEW d \in Calls, pc'[d] = "idle", Asks[d] # NoGrant
                 PROVE  status'[Asks[d]] = "ABSENT"
      BY DEF IdleHasNotAsked
    <3>1. d # c /\ pc[d] = "idle"
      BY <1>2 DEF GInv, GTypes
    <3>2. Asks[d] # Asks[c] /\ Asks[d] \in Grants
      BY <2>1, <3>1, CallAssumption
    <3> QED BY <2>5, <3>1, <3>2 DEF GInv, IdleHasNotAsked
  <2>7. CommandHasFound' /\ StampHasPassed'
    BY <2>1, <2>5 DEF GInv, CommandHasFound, StampHasPassed
  <2> QED BY <2>2, <2>3, <2>4, <2>6, <2>7 DEF Good, GInv, Lifecycle!Next
<1> QED BY <1>1, <1>2 DEF Create, Decide, Goto, Return

LEMMA CallIsGood == ASSUME GInv, NEW c \in Calls, Call(c) PROVE Good
<1>1. CASE Create(c)
  BY <1>1, CreateIsGood
<1>2. CASE ~Create(c)
  <2>1. UNCHANGED <<now, status, expiresAt, cmd>>
    BY <1>2 DEF Call, ReadClock, Resolve, Load, Audit, SaveAudit, FromCall
  <2>2. \E l \in Stages \ {"idle"} : pc' = [pc EXCEPT ![c] = l]
    BY <1>2 DEF Call, ReadClock, Resolve, Load, Audit, SaveAudit, Goto, Decide, Return,
                Stages
  <2> QED BY <2>1, <2>2, QuietCall
<1> QED BY <1>1, <1>2

\* consent approve and consent revoke find the grant that they begin with.
LEMMA StartIsGood ==
    ASSUME GInv, NEW o \in Commands, StartApprove(o) \/ StartRevoke(o) PROVE Good
<1>1. PICK g \in Grants, l \in {"prompt", "revoke"} :
        /\ status[g] # "ABSENT"
        /\ cmd' = [cmd EXCEPT ![o] = [at |-> l, grant |-> g, stamp |-> 0]]
  BY DEF StartApprove, StartRevoke
<1>3. l \in CommandStages \ {"approve"}
  BY DEF CommandStages
<1>2. UNCHANGED <<now, status, expiresAt, pc>>
  BY DEF StartApprove, StartRevoke, FromCLI, callVars
<1> QED BY <1>1, <1>2, <1>3, CommandStart DEF Good, Lifecycle!gvars

\* The operator confirms: the time is now.
LEMMA ConfirmIsGood == ASSUME GInv, NEW o \in Commands, Confirm(o) PROVE Good
<1>1. /\ cmd[o].at = "prompt" /\ UNCHANGED <<now, status, expiresAt, pc>>
      /\ cmd' = [cmd EXCEPT ![o].at = "approve", ![o].stamp = now]
  BY DEF Confirm, FromCLI, callVars
<1>2. GInv'
  <2>1. cmd[o] \in Invocations /\ now \in Nat \ {0} /\ "approve" \in CommandStages
    BY DEF GInv, GTypes, CommandStages
  <2>2. /\ cmd' = [cmd EXCEPT ![o] = [cmd[o] EXCEPT !.at = "approve", !.stamp = now]]
        /\ [cmd[o] EXCEPT !.at = "approve", !.stamp = now] \in Invocations
    BY <1>1, <2>1 DEF Invocations, GInv, GTypes
  <2>3. GTypes' /\ IdleHasNotAsked'
    BY <1>1, <2>2 DEF GInv, GTypes, IdleHasNotAsked
  <2>4. CommandHasFound'
    BY <1>1, <2>1, <2>2 DEF GInv, GTypes, CommandHasFound, Invocations
  <2>5. StampHasPassed'
    BY <1>1, <2>1, <2>2 DEF GInv, GTypes, StampHasPassed, Invocations
  <2> QED BY <2>3, <2>4, <2>5 DEF GInv
<1> QED BY <1>1, <1>2 DEF Good, Lifecycle!gvars

LEMMA ApproveIsGood == ASSUME GInv, NEW o \in Commands, Approve(o) PROVE Good
<1> DEFINE g == cmd[o].grant
           t == cmd[o].stamp
<1>1. cmd[o].at = "approve" /\ UNCHANGED <<now, pc>>
  BY DEF Approve, FromCLI, callVars
<1>2. g \in Grants /\ t \in 1..now
  BY <1>1 DEF GInv, GTypes, CommandHasFound, StampHasPassed, Invocations
<1>3. CASE /\ status[g] = "PENDING"
           /\ status' = [status EXCEPT ![g] = "ACTIVE"]
           /\ expiresAt' = [expiresAt EXCEPT ![g] = t + TTL]
           /\ MovesTo(o, "approved")
  <2>1. Lifecycle!Approve(g)
    BY <1>1, <1>2, <1>3 DEF Lifecycle!Approve
  <2>2. GInv'
    BY <1>1, <1>3, CommandChange DEF CommandStages
  <2> QED BY <1>2, <2>1, <2>2 DEF Good, Lifecycle!Next
<1>4. CASE MovesTo(o, "done") /\ UNCHANGED <<status, expiresAt>>
  BY <1>1, <1>4, QuietCommand DEF CommandStages, grantVars
<1> QED BY <1>3, <1>4 DEF Approve, MayApprove, At, Report, MovesTo

\* The UPDATE of RevokeGrant, in a command or in the compensation of one.
LEMMA UpdateIsGood ==
    ASSUME GInv, NEW o \in Commands, Undo(o) \/ UpdateRevoked(o) PROVE Good
<1> DEFINE g == cmd[o].grant
<1>1. cmd[o].at # "idle" /\ UNCHANGED <<now, expiresAt, pc>>
  BY DEF Undo, UpdateRevoked, FromCLI, callVars
<1>2. g \in Grants /\ status[g] \in {"PENDING", "ACTIVE", "REVOKED"}
  BY <1>1 DEF GInv, GTypes, CommandHasFound
<1>3. ASSUME NEW l \in CommandStages \ {"approve"}, status[g] # "REVOKED",
             status' = [status EXCEPT ![g] = "REVOKED"], MovesTo(o, l)
      PROVE  Good
  <2>1. Lifecycle!Revoke(g)
    BY <1>1, <1>2, <1>3 DEF Lifecycle!Revoke
  <2>2. GInv'
    BY <1>1, <1>3, CommandChange
  <2> QED BY <1>2, <2>1, <2>2 DEF Good, Lifecycle!Next
<1>4. CASE MovesTo(o, "done") /\ UNCHANGED status
  BY <1>1, <1>4, QuietCommand DEF CommandStages, grantVars
<1> QED BY <1>3, <1>4 DEF Undo, UpdateRevoked, Update, At, Report, CommandStages, MovesTo

LEMMA CommandIsGood ==
    ASSUME GInv, NEW o \in Commands, Command(o) \/ KillCommand(o) PROVE Good
<1>1. CASE StartApprove(o) \/ StartRevoke(o)
  BY <1>1, StartIsGood
<1>2. CASE Approve(o) \/ Confirm(o)
  BY <1>2, ApproveIsGood, ConfirmIsGood
<1>3. CASE Undo(o) \/ UpdateRevoked(o)
  BY <1>3, UpdateIsGood
<1>4. CASE \/ Cancel(o) \/ AuditApproval(o) \/ Compensate(o) \/ Revoke(o)
           \/ AuditRevocation(o) \/ KillCommand(o)
  <2>1. cmd[o].at # "idle" /\ UNCHANGED <<grantVars, pc>>
    BY <1>4 DEF Cancel, AuditApproval, Compensate, Revoke, AuditRevocation, KillCommand,
                FromCLI, callVars, grantVars
  <2>2. \E l \in CommandStages \ {"approve"} : MovesTo(o, l)
    BY <1>4 DEF Cancel, AuditApproval, Compensate, Revoke, AuditRevocation, KillCommand,
                CheckRevoke, At, Report, CommandStages, MovesTo
  <2> QED BY <2>1, <2>2, QuietCommand
<1> QED BY <1>1, <1>2, <1>3, <1>4 DEF Command

\* The clock passes, and has passed what it had passed.
LEMMA StampsKeepPassing ==
    ASSUME GInv, Lifecycle!Pass, UNCHANGED cmd
    PROVE  now' \in Nat \ {0} /\ StampHasPassed'
<1>1. now \in Nat \ {0} /\ now' = now + 1
  BY DEF GInv, GTypes, Lifecycle!Pass
<1>2. \A o \in Commands : cmd[o].stamp \in Nat
  BY DEF GInv, GTypes, Invocations
<1> QED BY <1>1, <1>2 DEF GInv, StampHasPassed

LEMMA RestartIsGood == ASSUME GInv, NEW s \in Servers, RestartServer(s) PROVE Good
<1>1. Lifecycle!Pass /\ UNCHANGED cmd
  BY DEF RestartServer, Lifecycle!Pass
<1>2. \A c \in Calls : pc'[c] \in {"done", pc[c]}
  BY DEF RestartServer
<1>3. pc' \in [Calls -> Stages]
  BY DEF RestartServer, GInv, GTypes, Stages
<1>4. GInv'
  BY <1>1, <1>2, <1>3, StampsKeepPassing
     DEF GInv, GTypes, IdleHasNotAsked, CommandHasFound, Lifecycle!Pass
<1> QED BY <1>1, <1>4 DEF Good, Lifecycle!Next

LEMMA TickIsGood == ASSUME GInv, Tick PROVE Good
<1>1. Lifecycle!Pass /\ UNCHANGED <<pc, cmd>>
  BY DEF Tick, callVars, Lifecycle!Pass
<1> QED
  BY <1>1, StampsKeepPassing
     DEF Good, GInv, GTypes, IdleHasNotAsked, CommandHasFound, Lifecycle!Pass, Lifecycle!Next

LEMMA StutterIsGood == ASSUME GInv, UNCHANGED vars PROVE Good
BY DEF vars, callVars, Good, GInv, GTypes, IdleHasNotAsked, CommandHasFound, StampHasPassed,
       Lifecycle!gvars

LEMMA StepIsGood == GInv /\ [Next]_vars => Good
BY CallIsGood, CommandIsGood, RestartIsGood, TickIsGood, StutterIsGood DEF Next

----------------------------------------------------------------------------

\* Idle calls have not created their grant, and every command works on a
\* grant that is there.
THEOREM ConsentInvariant == Spec => []GInv
<1>1. GInv /\ [Next]_vars => GInv'
  BY StepIsGood DEF Good
<1> QED BY <1>1, GInit, PTL DEF Spec

\* Every behaviour of the gateway, the CLI and the store, with any failures
\* and kills, is one of GrantLifecycle: the life of a grant.
THEOREM ConsentLifecycle == Spec => ImplementsLifecycle
<1>1. Init => Lifecycle!Init
  BY DEF Init, Lifecycle!Init
<1>2. GInv /\ [Next]_vars => [Lifecycle!Next]_(Lifecycle!gvars)
  BY StepIsGood DEF Good
<1> QED BY <1>1, <1>2, ConsentInvariant, PTL DEF Spec, ImplementsLifecycle, Lifecycle!Spec

----------------------------------------------------------------------------
(* What is served, audited and reported.                                   *)

Verdicts == {"allowed", "denied", "requested"}
Sessions == {SessionOf[c] : c \in Calls}
AllScopes == Bootstrap \union UNION {ScopesOf[g] : g \in Grants}

Locals == [phase : Nat, seen : Nat, verdict : {"none"} \union Verdicts,
           id : {<<>>} \union (Sessions \X Nat \X Nat), scopes : SUBSET AllScopes]

Types == TypeOK /\ local \in [Calls -> Locals]

\* A grant that gave the scope to the call, and was not over when it began.
Authority(c, s) == \E g \in Grants \ useless[c] :
                      /\ s \in ScopesOf[g] /\ GrantSession[g] = SessionOf[c]
                      /\ status[g] \in {"ACTIVE", "REVOKED"} /\ expiresAt[g] > 0

\* What a scope that is missing from an event is excused by.
Ended(c, s) == \E g \in Grants \ useless[c] :
                  s \in ScopesOf[g] /\ GrantSession[g] = SessionOf[c] /\ Over(g)

\* What a call holds, by where it is.
HoldsItsStage(c) ==
    /\ pc[c] = "idle" => local[c] = Fresh
    /\ pc[c] # "done" => reply[c] = "none"
    /\ pc[c] \in {"audit", "save"} => local[c].verdict \in Verdicts
    /\ pc[c] = "save" => \E t, n \in Nat : local[c].id = <<SessionOf[c], t, n>>

\* The grants that were over when a call began stay over, also for the clock
\* the call has read since.
UselessStayOver(c) ==
    \A g \in useless[c] :
        \/ status[g] = "REVOKED"
        \/ /\ status[g] = "ACTIVE" /\ expiresAt[g] <= now
           /\ pc[c] = "resolve" => expiresAt[g] <= local[c].seen

\* Every scope an authorize call has let pass had its authority; after the
\* last of them that is every scope of the call.
Passed(c) == pc[c] = "load" \/ local[c].verdict = "allowed" \/ reply[c] = "served"
WasAuthorized(c) ==
    /\ \A i \in 1..(local[c].phase - 1) : \A s \in Needs[c][i] \ Bootstrap : Authority(c, s)
    /\ Passed(c) => \A s \in Scopes(c) \ Bootstrap : Authority(c, s)

\* What an event that is about to be written may lack.
EventIsExcused(c) ==
    pc[c] = "save" /\ local[c].verdict = "allowed" =>
        \A s \in Scopes(c) \ local[c].scopes : Ended(c, s)

CallOK(c) == /\ HoldsItsStage(c) /\ UselessStayOver(c)
             /\ WasAuthorized(c) /\ EventIsExcused(c)

\* Rows of calls and of commands, by their ids.
CallRow(x) == /\ x.what \in Verdicts /\ x.who \in Calls /\ pc[x.who] # "idle"
              /\ \E t, n \in Nat : x.id = <<SessionOf[x.who], t, n>>
GrantRow(x) == /\ x.who \in Grants
               /\ \/ x.what = "approved" /\ x.id = <<"grant_approved", x.who>>
                  \/ x.what = "revoked" /\ x.id = <<"grant_revoked", x.who>>
RowOK(x) == /\ CallRow(x) \/ GrantRow(x)
            /\ x.what = "allowed" => \A s \in Scopes(x.who) \ x.scopes : Ended(x.who, s)
            /\ x.what = "approved" => status[x.who] \in {"ACTIVE", "REVOKED"}

\* What a command has done to its grant, by where it is and what it said.
CommandOK(o) ==
    LET g == cmd[o].grant
    IN  /\ cmd[o].at \in {"approved", "compensate", "undo"} => status[g] \in {"ACTIVE", "REVOKED"}
        /\ cmd[o].at = "revoked" => status[g] = "REVOKED"
        /\ told[o] # "none" => cmd[o].at = "done"
        /\ told[o] = "approved" => HasRow(g, "approved") /\ status[g] \in {"ACTIVE", "REVOKED"}
        /\ told[o] = "revoked" => HasRow(g, "revoked") /\ status[g] = "REVOKED"
        /\ told[o] = "undone" => status[g] = "REVOKED"

\* A command whose approval has no row, and the grant it approved: no other
\* command has approved it too, or will write that row.
Unaudited(o) == cmd[o].at \in {"approved", "compensate", "undo"} \/ told[o] \in TakenBack
ApprovalOK(o) ==
    LET g == cmd[o].grant
    IN  Unaudited(o) =>
          /\ g \in Grants /\ status[g] \in {"ACTIVE", "REVOKED"}
          /\ ~HasRow(g, "approved")
          /\ \A p \in Commands \ {o} : cmd[p].at = "approved" => cmd[p].grant # g

CInv == /\ Types /\ GInv
        /\ \A c \in Calls : CallOK(c)
        /\ \A x \in trail : RowOK(x)
        /\ \A o \in Commands : CommandOK(o) /\ ApprovalOK(o)

----------------------------------------------------------------------------
(* The grants move forward.                                                *)

GrantsMove ==
    /\ now <= now'
    /\ \A g \in Grants :
         /\ status[g] = "REVOKED" => status'[g] = "REVOKED"
         /\ status[g] \in {"ACTIVE", "REVOKED"} =>
               status'[g] \in {"ACTIVE", "REVOKED"} /\ expiresAt'[g] = expiresAt[g]

\* Every step moves the grants forward: a revocation is final, and what was
\* approved keeps its expiry.
LEMMA StepMovesGrants == ASSUME Types, GInv, [Next]_vars PROVE GrantsMove
<1>1. [Lifecycle!Next]_(Lifecycle!gvars)
  BY StepIsGood DEF Good
<1>2. /\ now \in Nat /\ expiresAt \in [Grants -> Nat]
      /\ status \in [Grants -> {"ABSENT", "PENDING", "ACTIVE", "REVOKED"}]
  BY DEF Types, TypeOK
<1>3. CASE UNCHANGED Lifecycle!gvars
  BY <1>2, <1>3 DEF Lifecycle!gvars, GrantsMove
<1>4. CASE Lifecycle!Pass
  BY <1>2, <1>4 DEF Lifecycle!Pass, GrantsMove
<1>5. ASSUME NEW g \in Grants, Lifecycle!Request(g) PROVE GrantsMove
  BY <1>2, <1>5 DEF Lifecycle!Request, GrantsMove
<1>6. ASSUME NEW g \in Grants, Lifecycle!Approve(g) PROVE GrantsMove
  BY <1>2, <1>6 DEF Lifecycle!Approve, GrantsMove
<1>7. ASSUME NEW g \in Grants, Lifecycle!Revoke(g) PROVE GrantsMove
  BY <1>2, <1>7 DEF Lifecycle!Revoke, GrantsMove
<1> QED BY <1>1, <1>3, <1>4, <1>5, <1>6, <1>7 DEF Lifecycle!Next

\* A grant that is over stays over.
LEMMA OverStays == ASSUME Types, Types', GrantsMove, NEW g \in Grants, Over(g) PROVE Over(g)'
BY DEF Types, TypeOK, GrantsMove, Over

\* What a call was given, and what excuses its event, is not taken back.
LEMMA AuthorityStays ==
    ASSUME Types, Types', GrantsMove, NEW c \in Calls, useless'[c] = useless[c], NEW s
    PROVE  /\ Authority(c, s) => Authority(c, s)'
           /\ Ended(c, s) => Ended(c, s)'
<1>1. Authority(c, s) => Authority(c, s)'
  BY DEF Types, TypeOK, GrantsMove, Authority
<1>2. Ended(c, s) => Ended(c, s)'
  BY OverStays DEF Ended
<1> QED BY <1>1, <1>2

\* The part of a call that a step leaves alone.
CallStays(c) == /\ pc'[c] = pc[c] /\ local'[c] = local[c]
                /\ reply'[c] = reply[c] /\ useless'[c] = useless[c]

\* What a call holds stays true when it is left alone and grants move forward.
LEMMA CallOKStays ==
    ASSUME Types, Types', GrantsMove, NEW c \in Calls, CallOK(c), CallStays(c)
    PROVE  CallOK(c)'
<1>1. HoldsItsStage(c)'
  BY DEF CallOK, CallStays, HoldsItsStage
<1>2. UselessStayOver(c)'
  <2>1. useless[c] \subseteq Grants
    BY DEF Types, TypeOK
  <2> QED BY <2>1 DEF Types, TypeOK, GrantsMove, CallOK, CallStays, UselessStayOver
<1>3. WasAuthorized(c)'
  BY AuthorityStays DEF CallOK, CallStays, WasAuthorized, Passed
<1>4. EventIsExcused(c)'
  BY AuthorityStays DEF CallOK, CallStays, EventIsExcused
<1> QED BY <1>1, <1>2, <1>3, <1>4 DEF CallOK

----------------------------------------------------------------------------
(* Types.                                                                  *)

\* Fresh is what a call holds.
LEMMA FreshIsLocal == Fresh \in Locals /\ Fresh.phase = 1 /\ Fresh.seen = 0
BY DEF Fresh, Locals

\* The scope sets of a call are a sequence, as NeedsAssumption has it.
LEMMA NeedsLen == ASSUME NEW c \in Calls PROVE Len(Needs[c]) \in Nat
BY NeedsAssumption, LenProperties

\* The types and the stages at the start.
LEMMA InitTypes == Init => Types
<1> SUFFICES ASSUME Init PROVE Types
  OBVIOUS
<1>1. local \in [Calls -> Locals]
  BY FreshIsLocal DEF Init
<1>2. TypeOK
  BY TimeAssumption DEF Init, TypeOK, Fresh, Idle
<1> QED BY <1>1, <1>2 DEF Types

\* What TypeOK says of the call's own variables.
CallTypes ==
    /\ pc \in [Calls -> {"idle", "clock", "resolve", "load", "audit", "save", "done"}]
    /\ local \in [Calls -> Locals]
    /\ \A c \in Calls : /\ local[c].phase \in {1} \union 1..Len(Needs[c])
                        /\ local[c].seen \in 0..MaxTime
    /\ reply \in [Calls -> {"none", "served", "denied", "requested", "failed", "lost"}]
    /\ useless \in [Calls -> SUBSET Grants]

\* The part of it that no stage restricts.
ReplyTypes ==
    /\ reply \in [Calls -> {"none", "served", "denied", "requested", "failed", "lost"}]
    /\ useless \in [Calls -> SUBSET Grants]

\* What it says of the rest.
OtherTypes ==
    /\ now \in 1..MaxTime
    /\ status \in [Grants -> {"ABSENT", "PENDING", "ACTIVE", "REVOKED"}]
    /\ expiresAt \in [Grants -> Nat]
    /\ \A x \in trail : x.who \in Calls \union Grants
    /\ seq \in [Servers -> Nat]
    /\ told \in [Commands -> {"none", "cancelled", "approved", "undone", "undone_with_error",
                             "revoked", "failed"}]

\* The types in two parts, since few actions write to both.
LEMMA TypesParts == GInv => (Types <=> CallTypes /\ OtherTypes)
<1> SUFFICES ASSUME GInv PROVE Types <=> CallTypes /\ OtherTypes
  OBVIOUS
<1>1. \A o \in Commands : cmd[o].at \in CommandStages
  BY DEF GInv, GTypes, Invocations
<1>2. Types => CallTypes /\ OtherTypes
  BY DEF Types, TypeOK, CallTypes, OtherTypes
<1>3. CallTypes /\ OtherTypes => TypeOK
  <2> SUFFICES ASSUME CallTypes, OtherTypes PROVE TypeOK
    OBVIOUS
  <2>1. \A c \in Calls : local[c].verdict \in {"none"} \union Verdicts
    BY DEF CallTypes, Locals
  <2>2. \A o \in Commands : cmd[o].stamp \in 0..now
    BY DEF GInv, GTypes, StampHasPassed, Invocations
  <2> QED BY <1>1, <2>1, <2>2 DEF TypeOK, CallTypes, OtherTypes, Verdicts, CommandStages
<1> QED BY <1>2, <1>3 DEF Types, CallTypes

\* A call that goes to l holding h.
LEMMA CallTypesStep ==
    ASSUME CallTypes, NEW c \in Calls, NEW l \in Stages, NEW h \in Locals,
           h.phase \in {1} \union 1..Len(Needs[c]), h.seen \in 0..MaxTime,
           pc' = [pc EXCEPT ![c] = l], local' = [local EXCEPT ![c] = h],
           ReplyTypes'
    PROVE  CallTypes'
BY DEF CallTypes, ReplyTypes, Stages

\* The outcomes of a tool are replies.
LEMMA ReturnTypes ==
    ASSUME CallTypes, NEW c \in Calls, UNCHANGED useless,
           NEW r \in {"served", "denied", "requested", "failed"}, Return(c, r)
    PROVE  CallTypes'
<1>1. /\ pc' = [pc EXCEPT ![c] = "done"] /\ local' = [local EXCEPT ![c] = Fresh]
  BY DEF Return
<1>2. ReplyTypes'
  BY DEF ReplyTypes, CallTypes, Return
<1>3. Fresh.phase \in {1} \union 1..Len(Needs[c]) /\ Fresh.seen \in 0..MaxTime
  BY FreshIsLocal, TimeAssumption
<1>4. "done" \in Stages
  BY DEF Stages
<1> QED BY <1>1, <1>2, <1>3, <1>4, FreshIsLocal, CallTypesStep

LEMMA DecideTypes ==
    ASSUME CallTypes, NEW c \in Calls, UNCHANGED useless, NEW v \in Verdicts, Decide(c, v)
    PROVE  CallTypes'
<1> DEFINE h == [local[c] EXCEPT !.verdict = v, !.seen = 0]
<1>1. local \in [Calls -> Locals] /\ local[c].phase \in {1} \union 1..Len(Needs[c])
  BY DEF CallTypes
<1>2. h \in Locals /\ h.phase = local[c].phase /\ h.seen = 0
  <2>1. local[c] \in Locals
    BY <1>1
  <2> QED BY <2>1 DEF Locals
<1>3. local' = [local EXCEPT ![c] = h] /\ pc' = [pc EXCEPT ![c] = "audit"]
  BY <1>1 DEF Decide, Goto
<1>4. ReplyTypes'
  BY DEF ReplyTypes, CallTypes, Decide, Goto
<1> HIDE DEF h
<1>5. h.phase \in {1} \union 1..Len(Needs[c]) /\ h.seen \in 0..MaxTime
  BY <1>1, <1>2, TimeAssumption
<1>6. "audit" \in Stages
  BY DEF Stages
<1> QED BY <1>2, <1>3, <1>4, <1>5, <1>6, CallTypesStep

\* What a tool returns after its audit.
LEMMA AfterAuditTypes ==
    ASSUME NEW c \in Calls, local[c].verdict \in Verdicts, NEW w \in BOOLEAN
    PROVE  AfterAudit(c, w) \in {"served", "denied", "requested", "failed"}
BY DEF AfterAudit, Verdicts

LEMMA ReadClockTypes == ASSUME CallTypes, OtherTypes, NEW c \in Calls, ReadClock(c) PROVE CallTypes'
<1> DEFINE h == [local[c] EXCEPT !.seen = now]
<1>1. /\ local[c] \in Locals /\ now \in 1..MaxTime /\ MaxTime \in Nat
      /\ local[c].phase \in {1} \union 1..Len(Needs[c])
  BY TimeAssumption DEF CallTypes, OtherTypes
<1>2. h \in Locals /\ h.phase \in {1} \union 1..Len(Needs[c]) /\ h.seen \in 0..MaxTime
  BY <1>1 DEF Locals
<1>3. /\ local' = [local EXCEPT ![c] = h] /\ pc' = [pc EXCEPT ![c] = "resolve"]
  BY <1>1 DEF ReadClock, Goto, Locals
<1>4. ReplyTypes'
  BY DEF ReplyTypes, CallTypes, ReadClock, Goto
<1>5. "resolve" \in Stages
  BY DEF Stages
<1> HIDE DEF h
<1> QED BY <1>2, <1>3, <1>4, <1>5, CallTypesStep

LEMMA ResolveTypes == ASSUME CallTypes, NEW c \in Calls, Resolve(c) PROVE CallTypes'
<1>1. UNCHANGED useless
  BY DEF Resolve
<1>2. local \in [Calls -> Locals] /\ local[c].phase \in {1} \union 1..Len(Needs[c])
  BY DEF CallTypes
<1>3. local[c] \in Locals
  BY <1>2
<1>4. CASE Decide(c, "denied")
  BY <1>1, <1>4, DecideTypes DEF Verdicts
<1>5. CASE Return(c, "failed")
  BY <1>1, <1>5, ReturnTypes
<1>6. ASSUME More(c), local' = [local EXCEPT ![c].phase = @ + 1, ![c].seen = 0],
             Goto(c, "clock")
      PROVE  CallTypes'
  <2> DEFINE h == [local[c] EXCEPT !.phase = @ + 1, !.seen = 0]
  <2>1. h \in Locals /\ h.phase = local[c].phase + 1 /\ h.seen = 0
    <3>1. local[c].phase + 1 \in Nat
      BY <1>3 DEF Locals
    <3> QED BY <1>3, <3>1 DEF Locals
  <2>2. local' = [local EXCEPT ![c] = h] /\ pc' = [pc EXCEPT ![c] = "clock"]
    BY <1>2, <1>6 DEF Goto
  <2>3. ReplyTypes'
    BY <1>1, <1>6 DEF ReplyTypes, CallTypes, Goto
  <2>4. "clock" \in Stages
    BY DEF Stages
  <2> HIDE DEF h
  <2>5. h.phase \in {1} \union 1..Len(Needs[c]) /\ h.seen \in 0..MaxTime
    BY <1>2, <1>6, <2>1, NeedsLen, TimeAssumption DEF More
  <2> QED BY <2>1, <2>2, <2>3, <2>4, <2>5, CallTypesStep
<1>7. ASSUME local' = [local EXCEPT ![c].seen = 0], Goto(c, "load") PROVE CallTypes'
  <2> DEFINE h == [local[c] EXCEPT !.seen = 0]
  <2>1. h \in Locals /\ h.phase = local[c].phase /\ h.seen = 0
    BY <1>3 DEF Locals
  <2>2. local' = [local EXCEPT ![c] = h] /\ pc' = [pc EXCEPT ![c] = "load"]
    BY <1>2, <1>7 DEF Goto
  <2>3. ReplyTypes'
    BY <1>1, <1>7 DEF ReplyTypes, CallTypes, Goto
  <2>4. "load" \in Stages
    BY DEF Stages
  <2> HIDE DEF h
  <2>5. h.phase \in {1} \union 1..Len(Needs[c]) /\ h.seen \in 0..MaxTime
    BY <1>2, <2>1, TimeAssumption
  <2> QED BY <2>1, <2>2, <2>3, <2>4, <2>5, CallTypesStep
<1> QED BY <1>4, <1>5, <1>6, <1>7 DEF Resolve

\* Scopes that a session has are scopes there are.
LEMMA EffectiveScopes == ASSUME NEW session, NEW t PROVE Effective(session, t) \subseteq AllScopes
BY DEF Effective, ActiveGrants, AllScopes

LEMMA AuditTypes ==
    ASSUME CallTypes, OtherTypes, CallAssumption, NEW c \in Calls, HoldsItsStage(c), Audit(c)
    PROVE  CallTypes' /\ seq' \in [Servers -> Nat]
<1> DEFINE n == seq[ServerOf[c]] + 1
           h == [local[c] EXCEPT !.id = <<SessionOf[c], now, n>>, !.scopes = Shown(c)]
<1>1. /\ local[c] \in Locals /\ n \in Nat /\ now \in Nat /\ local[c].verdict \in Verdicts
      /\ UNCHANGED useless /\ seq \in [Servers -> Nat]
  BY DEF CallTypes, OtherTypes, Audit, HoldsItsStage
<1>2. CASE Return(c, AfterAudit(c, FALSE)) /\ UNCHANGED seq
  BY <1>1, <1>2, AfterAuditTypes, ReturnTypes
<1>3. ASSUME local' = [local EXCEPT ![c].id = <<SessionOf[c], now, n>>, ![c].scopes = Shown(c)],
             seq' = [seq EXCEPT ![ServerOf[c]] = n], Goto(c, "save")
      PROVE  CallTypes' /\ seq' \in [Servers -> Nat]
  <2> HIDE DEF n
  <2>1. Shown(c) \subseteq AllScopes
    BY EffectiveScopes DEF Shown
  <2>2. <<SessionOf[c], now, n>> \in Sessions \X Nat \X Nat
    BY <1>1 DEF Sessions
  <2>3. h \in Locals /\ h.phase = local[c].phase /\ h.seen = local[c].seen
    BY <1>1, <2>1, <2>2 DEF Locals
  <2>4. local' = [local EXCEPT ![c] = h] /\ pc' = [pc EXCEPT ![c] = "save"]
    BY <1>1, <1>3 DEF Goto, Locals
  <2>5. seq' \in [Servers -> Nat]
    BY <1>1, <1>3
  <2>6. ReplyTypes'
    BY <1>1, <1>3 DEF ReplyTypes, CallTypes, Goto
  <2>7. h.phase \in {1} \union 1..Len(Needs[c]) /\ h.seen \in 0..MaxTime
    BY <2>3 DEF CallTypes
  <2>8. "save" \in Stages
    BY DEF Stages
  <2> HIDE DEF h
  <2> QED BY <2>3, <2>4, <2>5, <2>6, <2>7, <2>8, CallTypesStep
<1> QED BY <1>2, <1>3 DEF Audit

\* The calls of a step that lost is lost are Fresh again, the others as they were.
LEMMA RestartTypes == ASSUME CallTypes, NEW s \in Servers, RestartServer(s) PROVE CallTypes'
<1> DEFINE lost == {c \in Calls : ServerOf[c] = s /\ pc[c] \notin {"idle", "done"}}
<1>1. /\ pc' = [c \in Calls |-> IF c \in lost THEN "done" ELSE pc[c]]
      /\ reply' = [c \in Calls |-> IF c \in lost THEN "lost" ELSE reply[c]]
      /\ local' = [c \in Calls |-> IF c \in lost THEN Fresh ELSE local[c]]
      /\ UNCHANGED useless
  BY DEF RestartServer
<1>2. 0 \in 0..MaxTime
  BY TimeAssumption
<1> HIDE DEF lost
<1>3. local' \in [Calls -> Locals]
  BY <1>1, FreshIsLocal DEF CallTypes
<1>4. \A c \in Calls : /\ local'[c].phase \in {1} \union 1..Len(Needs[c])
                       /\ local'[c].seen \in 0..MaxTime
  <2> SUFFICES ASSUME NEW c \in Calls
               PROVE  /\ local'[c].phase \in {1} \union 1..Len(Needs[c])
                      /\ local'[c].seen \in 0..MaxTime
    OBVIOUS
  <2>1. local'[c] = Fresh \/ local'[c] = local[c]
    BY <1>1
  <2> QED BY <1>2, <2>1, FreshIsLocal DEF CallTypes
<1> QED BY <1>1, <1>3, <1>4 DEF CallTypes

\* The steps of a call keep its types.
LEMMA CallKeepsCallTypes ==
    ASSUME CallTypes, OtherTypes, NEW c \in Calls, HoldsItsStage(c), Call(c)
    PROVE  CallTypes'
<1>1. CASE ReadClock(c)
  BY <1>1, ReadClockTypes
<1>2. CASE Resolve(c)
  BY <1>2, ResolveTypes
<1>3. CASE Load(c)
  BY <1>3, ReturnTypes, DecideTypes DEF Load, Verdicts
<1>4. CASE Create(c)
  BY <1>4, ReturnTypes, DecideTypes DEF Create, Verdicts
<1>5. CASE Audit(c)
  BY <1>5, AuditTypes, CallAssumption
<1>6. CASE SaveAudit(c)
  BY <1>6, ReturnTypes, AfterAuditTypes DEF SaveAudit, HoldsItsStage
<1> QED BY <1>1, <1>2, <1>3, <1>4, <1>5, <1>6 DEF Call

\* A row more, of a call or of a grant.
LEMMA InsertTypes ==
    ASSUME OtherTypes, NEW row, row.who \in Calls \union Grants, trail' = Insert(row)
    PROVE  \A x \in trail' : x.who \in Calls \union Grants
BY DEF OtherTypes, Insert

\* They keep the types of the rest.
LEMMA CallKeepsOtherTypes ==
    ASSUME CallTypes, OtherTypes, GInv', NEW c \in Calls, HoldsItsStage(c), Call(c)
    PROVE  OtherTypes'
<1>1. UNCHANGED <<now, expiresAt, told>>
  BY DEF Call, ReadClock, Resolve, Load, Create, Audit, SaveAudit, FromCall
<1>2. status' \in [Grants -> {"ABSENT", "PENDING", "ACTIVE", "REVOKED"}]
  BY DEF GInv, GTypes
<1>3. seq' \in [Servers -> Nat]
  <2>1. CASE Audit(c)
    BY <2>1, AuditTypes, CallAssumption
  <2>2. CASE UNCHANGED seq
    BY <2>2 DEF OtherTypes
  <2> QED BY <2>1, <2>2 DEF Call, ReadClock, Resolve, Load, Create, SaveAudit
<1>4. \A x \in trail' : x.who \in Calls \union Grants
  <2>1. CASE UNCHANGED trail
    BY <2>1 DEF OtherTypes
  <2>2. CASE trail' = Insert(Row(local[c].id, c, local[c].verdict, local[c].scopes))
    BY <2>2, InsertTypes DEF Row
  <2> QED BY <2>1, <2>2 DEF Call, ReadClock, Resolve, Load, Create, Audit, SaveAudit
<1> QED BY <1>1, <1>2, <1>3, <1>4 DEF OtherTypes

\* The steps of a command keep the types.
LEMMA CommandKeepsTypes ==
    ASSUME CallTypes, OtherTypes, GInv, GInv', NEW o \in Commands, Command(o) \/ KillCommand(o)
    PROVE  CallTypes' /\ OtherTypes'
<1>1. UNCHANGED <<now, seq, pc, local, reply, useless>>
  BY DEF Command, KillCommand, StartApprove, Cancel, Confirm, Approve, AuditApproval, Compensate, Undo,
         StartRevoke, Revoke, UpdateRevoked, AuditRevocation, FromCLI, callVars
<1>2. CallTypes'
  BY <1>1 DEF CallTypes
<1>3. status' \in [Grants -> {"ABSENT", "PENDING", "ACTIVE", "REVOKED"}]
  BY DEF GInv, GTypes
<1>4. expiresAt' \in [Grants -> Nat]
  <2>1. CASE UNCHANGED expiresAt
    BY <2>1 DEF OtherTypes
  <2>2. CASE Approve(o)
    <3>1. cmd[o].stamp + TTL \in Nat
      BY TimeAssumption DEF GInv, GTypes, Invocations
    <3> QED BY <2>2, <3>1 DEF OtherTypes, Approve
  <2> QED BY <2>1, <2>2 DEF Command, KillCommand, StartApprove, Cancel, Confirm, AuditApproval,
             Compensate, Undo, StartRevoke, Revoke, UpdateRevoked, AuditRevocation
<1>5. \A x \in trail' : x.who \in Calls \union Grants
  <2>1. CASE UNCHANGED trail
    BY <2>1 DEF OtherTypes
  <2>2. ASSUME NEW row, row.who = cmd[o].grant, trail' = Insert(row), cmd[o].at # "idle"
        PROVE  \A x \in trail' : x.who \in Calls \union Grants
    BY <2>2, InsertTypes DEF GInv, CommandHasFound
  <2>3. CASE AuditApproval(o)
    BY <2>1, <2>2, <2>3 DEF AuditApproval, Row
  <2>4. CASE AuditRevocation(o)
    BY <2>1, <2>2, <2>4 DEF AuditRevocation, Row
  <2> QED BY <2>1, <2>3, <2>4 DEF Command, KillCommand, StartApprove, Cancel, Confirm, Approve,
             Compensate, Undo, StartRevoke, Revoke, UpdateRevoked
<1>6. told' \in [Commands ->
                   {"none", "cancelled", "approved", "undone", "undone_with_error",
                             "revoked", "failed"}]
  BY DEF OtherTypes, Command, KillCommand, StartApprove, Cancel, Confirm, Approve, AuditApproval,
         Compensate, Undo, StartRevoke, Revoke, UpdateRevoked, AuditRevocation, CheckRevoke,
         Update, Report
<1> QED BY <1>1, <1>2, <1>3, <1>4, <1>5, <1>6 DEF OtherTypes

\* Every step keeps the types.
LEMMA StepTypes ==
    ASSUME Types, GInv, \A c \in Calls : HoldsItsStage(c), [Next]_vars
    PROVE  Types'
<1>1. CallTypes /\ OtherTypes /\ GInv'
  BY TypesParts, StepIsGood DEF Good
<1>2. ASSUME NEW c \in Calls, Call(c) PROVE CallTypes' /\ OtherTypes'
  BY <1>1, <1>2, CallKeepsCallTypes, CallKeepsOtherTypes
<1>3. ASSUME NEW o \in Commands, Command(o) \/ KillCommand(o) PROVE CallTypes' /\ OtherTypes'
  BY <1>1, <1>3, CommandKeepsTypes
<1>4. now < MaxTime => now + 1 \in 1..MaxTime
  BY <1>1, TimeAssumption DEF OtherTypes
<1>5. ASSUME NEW s \in Servers, RestartServer(s) PROVE CallTypes' /\ OtherTypes'
  <2>1. /\ now < MaxTime /\ now' = now + 1 /\ seq' = [seq EXCEPT ![s] = 0]
        /\ UNCHANGED <<status, expiresAt, trail, told>>
    BY <1>5 DEF RestartServer
  <2>2. seq' \in [Servers -> Nat]
    BY <1>1, <2>1 DEF OtherTypes
  <2>3. OtherTypes'
    BY <1>1, <1>4, <2>1, <2>2 DEF OtherTypes
  <2> QED BY <1>1, <1>5, <2>3, RestartTypes
<1>6. ASSUME Tick PROVE CallTypes' /\ OtherTypes'
  <2>1. /\ now < MaxTime /\ now' = now + 1
        /\ UNCHANGED <<status, expiresAt, trail, seq, told, pc, local, reply, useless>>
    BY <1>6 DEF Tick, callVars
  <2>2. OtherTypes'
    BY <1>1, <1>4, <2>1 DEF OtherTypes
  <2> QED BY <1>1, <2>1, <2>2 DEF CallTypes
<1>7. ASSUME UNCHANGED vars PROVE CallTypes' /\ OtherTypes'
  <2>1. UNCHANGED <<now, status, expiresAt, trail, seq, told, pc, local, reply, useless>>
    BY <1>7 DEF vars, callVars
  <2> QED BY <1>1, <2>1 DEF CallTypes, OtherTypes
<1>8. CallTypes' /\ OtherTypes'
  BY <1>2, <1>3, <1>5, <1>6, <1>7 DEF Next
<1>9. GInv' => (Types' <=> CallTypes' /\ OtherTypes')
  BY TypesParts, PTL
<1> QED BY <1>1, <1>8, <1>9

----------------------------------------------------------------------------
(* What a call holds, through its own steps.                               *)

\* What the steps below rest on.
Before(c) == Types /\ Types' /\ GInv /\ GrantsMove /\ CallOK(c)

\* Useless grants stay over when the call does not read the clock.
LEMMA UselessStay ==
    ASSUME NEW c \in Calls, Before(c), useless'[c] = useless[c], pc'[c] # "resolve"
    PROVE  UselessStayOver(c)'
<1>1. useless[c] \subseteq Grants /\ now \in Nat /\ now' \in Nat /\ now <= now'
  BY DEF Before, Types, TypeOK, GrantsMove
<1> QED BY <1>1 DEF Before, Types, TypeOK, GrantsMove, CallOK, UselessStayOver

\* A call that ends.
LEMMA ReturnOK ==
    ASSUME NEW c \in Calls, Before(c), useless'[c] = useless[c], NEW r, Return(c, r),
           r = "served" => local[c].verdict = "allowed"
    PROVE  CallOK(c)'
<1>1. pc'[c] = "done" /\ reply'[c] = r /\ local'[c] = Fresh
  BY DEF Return, Before, Types, TypeOK
<1>2. HoldsItsStage(c)'
  BY <1>1 DEF HoldsItsStage
<1>3. UselessStayOver(c)'
  BY <1>1, UselessStay
<1>4. WasAuthorized(c)'
  BY <1>1, AuthorityStays DEF Before, CallOK, WasAuthorized, Passed, Fresh
<1>5. EventIsExcused(c)'
  BY <1>1 DEF EventIsExcused
<1> QED BY <1>2, <1>3, <1>4, <1>5 DEF CallOK

\* A call that has decided, and goes to the audit.
LEMMA DecideOK ==
    ASSUME NEW c \in Calls, Before(c), useless'[c] = useless[c], NEW v \in Verdicts,
           Decide(c, v), pc[c] # "done", v = "allowed" => pc[c] = "load"
    PROVE  CallOK(c)'
<1>0. local[c] \in Locals /\ reply[c] = "none"
  BY DEF Before, Types, CallOK, HoldsItsStage
<1>1. /\ pc'[c] = "audit" /\ reply'[c] = "none"
      /\ local'[c].verdict = v /\ local'[c].phase = local[c].phase
  BY <1>0 DEF Decide, Goto, Before, Types, TypeOK, Locals
<1>2. HoldsItsStage(c)'
  BY <1>1 DEF HoldsItsStage
<1>3. UselessStayOver(c)'
  BY <1>1, UselessStay
<1>4. WasAuthorized(c)'
  BY <1>1, AuthorityStays DEF Before, CallOK, WasAuthorized, Passed
<1>5. EventIsExcused(c)'
  BY <1>1 DEF EventIsExcused
<1> QED BY <1>2, <1>3, <1>4, <1>5 DEF CallOK

\* What a call holds after each step of its own.
LEMMA ReadClockOK == ASSUME NEW c \in Calls, Before(c), ReadClock(c) PROVE CallOK(c)'
<1>0. /\ local[c] \in Locals /\ now \in Nat /\ HoldsItsStage(c)
      /\ UNCHANGED <<now, status, expiresAt, reply>>
  BY DEF Before, Types, TypeOK, CallOK, ReadClock, FromCall, Goto
<1>1. /\ pc'[c] = "resolve" /\ reply'[c] = "none" /\ local'[c].seen = now
      /\ local'[c].phase = local[c].phase /\ local'[c].verdict = local[c].verdict
  BY <1>0 DEF ReadClock, Goto, Before, Types, TypeOK, Locals, HoldsItsStage
<1>2. HoldsItsStage(c)'
  BY <1>1 DEF HoldsItsStage
<1>3. UselessStayOver(c)'
  <2>1. CASE pc[c] = "idle"
    <3>1. useless'[c] = {g \in Grants : Over(g)}
      BY <2>1 DEF ReadClock, Before, Types, TypeOK
    <3> QED BY <1>0, <1>1, <3>1 DEF UselessStayOver, Over
  <2>2. CASE pc[c] = "clock"
    <3>1. useless'[c] = useless[c]
      BY <2>2 DEF ReadClock
    <3> QED BY <1>0, <1>1, <3>1 DEF Before, CallOK, UselessStayOver
  <2> QED BY <2>1, <2>2 DEF ReadClock
<1>4. WasAuthorized(c)'
  <2>1. CASE pc[c] = "idle"
    <3>1. local[c] = Fresh
      BY <1>0, <2>1 DEF HoldsItsStage
    <3>2. local'[c].phase = 1 /\ local'[c].verdict = "none"
      BY <1>1, <3>1 DEF Fresh
    <3> QED BY <1>1, <3>2 DEF WasAuthorized, Passed
  <2>2. CASE pc[c] = "clock"
    <3>1. useless'[c] = useless[c]
      BY <2>2 DEF ReadClock
    <3> QED BY <1>1, <3>1, AuthorityStays DEF Before, CallOK, WasAuthorized, Passed
  <2> QED BY <2>1, <2>2 DEF ReadClock
<1>5. EventIsExcused(c)'
  BY <1>1 DEF EventIsExcused
<1> QED BY <1>2, <1>3, <1>4, <1>5 DEF CallOK

\* The scopes that the grants gave have an authority: a grant that was over
\* when the call began was so at the time the call looks from.
LEMMA GrantedAuthority ==
    ASSUME NEW c \in Calls, Before(c), pc[c] = "resolve", Granted(c),
           NEW s \in Needs[c][local[c].phase] \ Bootstrap
    PROVE  Authority(c, s)
<1>1. PICK g \in ActiveGrants(SessionOf[c], local[c].seen) : s \in ScopesOf[g]
  BY DEF Granted, Effective
<1>2. /\ g \in Grants /\ status[g] = "ACTIVE" /\ expiresAt[g] > local[c].seen
      /\ GrantSession[g] = SessionOf[c]
  BY <1>1 DEF ActiveGrants
<1>3. expiresAt[g] \in Nat /\ local[c].seen \in Nat
  BY <1>2 DEF Before, Types, TypeOK, Locals
<1>4. g \notin useless[c]
  BY <1>2, <1>3 DEF Before, CallOK, UselessStayOver
<1>5. expiresAt[g] > 0
  BY <1>2, <1>3
<1> QED BY <1>1, <1>2, <1>4, <1>5 DEF Authority

LEMMA ResolveOK == ASSUME NEW c \in Calls, Before(c), Resolve(c) PROVE CallOK(c)'
<1>0. /\ pc[c] = "resolve" /\ UNCHANGED <<now, status, expiresAt, useless>>
      /\ local[c] \in Locals /\ Len(Needs[c]) \in Nat
      /\ local[c].phase \in {1} \union 1..Len(Needs[c])
      /\ reply[c] = "none"
  BY NeedsLen DEF Before, Types, TypeOK, CallOK, HoldsItsStage, Resolve, FromCall
<1>1. CASE Decide(c, "denied")
  BY <1>0, <1>1, DecideOK DEF Verdicts
<1>2. CASE Return(c, "failed")
  BY <1>0, <1>2, ReturnOK
<1>3. ASSUME Granted(c), NEW s \in Needs[c][local[c].phase] \ Bootstrap PROVE Authority(c, s)'
  <2>1. Authority(c, s)
    BY <1>0, <1>3, GrantedAuthority
  <2> QED BY <1>0, <2>1, AuthorityStays DEF Before
<1>4. ASSUME Granted(c), More(c), local' = [local EXCEPT ![c].phase = @ + 1, ![c].seen = 0],
             Goto(c, "clock")
      PROVE  CallOK(c)'
  <2>1. /\ pc'[c] = "clock" /\ reply'[c] = "none"
        /\ local'[c].verdict = local[c].verdict /\ local'[c].phase = local[c].phase + 1
    BY <1>0, <1>4 DEF Goto, Before, Types, TypeOK, Locals
  <2>2. HoldsItsStage(c)'
    BY <2>1 DEF HoldsItsStage
  <2>3. UselessStayOver(c)'
    BY <1>0, <2>1, UselessStay
  <2>4. WasAuthorized(c)'
    <3>1. ASSUME NEW i \in 1..(local'[c].phase - 1), NEW s \in Needs[c][i] \ Bootstrap
          PROVE  Authority(c, s)'
      <4>1. i = local[c].phase \/ i \in 1..(local[c].phase - 1)
        BY <1>0, <2>1 DEF Locals
      <4> QED BY <1>0, <1>3, <1>4, <3>1, <4>1, AuthorityStays
              DEF Before, CallOK, WasAuthorized
    <3>2. Passed(c)' => \A s \in Scopes(c) \ Bootstrap : Authority(c, s)'
      BY <1>0, <2>1, AuthorityStays DEF Before, CallOK, WasAuthorized, Passed
    <3> QED BY <3>1, <3>2 DEF WasAuthorized, Scopes
  <2>5. EventIsExcused(c)'
    BY <2>1 DEF EventIsExcused
  <2> QED BY <2>2, <2>3, <2>4, <2>5 DEF CallOK
<1>5. ASSUME Granted(c), ~More(c), local' = [local EXCEPT ![c].seen = 0], Goto(c, "load")
      PROVE  CallOK(c)'
  <2>1. /\ pc'[c] = "load" /\ reply'[c] = "none"
        /\ local'[c].verdict = local[c].verdict /\ local'[c].phase = local[c].phase
    BY <1>0, <1>5 DEF Goto, Before, Types, TypeOK, Locals
  <2>2. HoldsItsStage(c)'
    BY <2>1 DEF HoldsItsStage
  <2>3. UselessStayOver(c)'
    BY <1>0, <2>1, UselessStay
  <2>4. ASSUME NEW s \in Scopes(c) \ Bootstrap PROVE Authority(c, s)'
    <3>1. PICK i \in 1..Len(Needs[c]) : s \in Needs[c][i]
      BY <2>4 DEF Scopes
    <3>2. i = local[c].phase \/ i \in 1..(local[c].phase - 1)
      BY <1>0, <1>5, <3>1 DEF More, Locals
    <3>3. CASE i = local[c].phase
      BY <1>3, <1>5, <2>4, <3>1, <3>3
    <3>4. CASE i \in 1..(local[c].phase - 1)
      BY <1>0, <2>4, <3>1, <3>4, AuthorityStays DEF Before, CallOK, WasAuthorized
    <3> QED BY <3>2, <3>3, <3>4
  <2>5. WasAuthorized(c)'
    <3>1. \A i \in 1..(local[c].phase - 1) : \A s \in Needs[c][i] \ Bootstrap : Authority(c, s)'
      BY <1>0, AuthorityStays DEF Before, CallOK, WasAuthorized
    <3> QED BY <2>1, <2>4, <3>1 DEF WasAuthorized, Scopes
  <2>6. EventIsExcused(c)'
    BY <2>1 DEF EventIsExcused
  <2> QED BY <2>2, <2>3, <2>5, <2>6 DEF CallOK
<1> QED BY <1>1, <1>2, <1>4, <1>5 DEF Resolve

LEMMA LoadOK == ASSUME NEW c \in Calls, Before(c), Load(c) PROVE CallOK(c)'
<1>1. pc[c] = "load" /\ useless'[c] = useless[c]
  BY DEF Load
<1> QED BY <1>1, ReturnOK, DecideOK DEF Load, Verdicts

LEMMA CreateOK == ASSUME NEW c \in Calls, Before(c), Create(c) PROVE CallOK(c)'
<1>1. pc[c] = "idle" /\ useless'[c] = useless[c]
  BY DEF Create
<1> QED BY <1>1, ReturnOK, DecideOK DEF Create, Verdicts

\* What the audit does not show has come to its end since the call began.
LEMMA ShownUnlessEnded ==
    ASSUME NEW c \in Calls, Before(c), NEW s \in Scopes(c) \ Shown(c),
           \A x \in Scopes(c) \ Bootstrap : Authority(c, x)
    PROVE  Ended(c, s)
<1>1. s \notin Bootstrap
  BY DEF Shown, Effective
<1>2. PICK g \in Grants \ useless[c] :
        /\ s \in ScopesOf[g] /\ GrantSession[g] = SessionOf[c]
        /\ status[g] \in {"ACTIVE", "REVOKED"} /\ expiresAt[g] > 0
  BY <1>1 DEF Authority
<1>3. g \notin ActiveGrants(SessionOf[c], now)
  BY <1>2 DEF Shown, Effective
<1>4. expiresAt[g] \in Nat /\ now \in Nat
  BY DEF Before, Types, TypeOK
<1>5. Over(g)
  BY <1>2, <1>3, <1>4 DEF ActiveGrants, Over
<1> QED BY <1>2, <1>5 DEF Ended

LEMMA AuditOK == ASSUME NEW c \in Calls, Before(c), Audit(c) PROVE CallOK(c)'
<1> DEFINE n == seq[ServerOf[c]] + 1
<1>0. /\ pc[c] = "audit" /\ UNCHANGED <<now, status, expiresAt, useless>>
      /\ local[c] \in Locals /\ reply[c] = "none" /\ local[c].verdict \in Verdicts
      /\ now \in Nat /\ n \in Nat
  BY CallAssumption DEF Before, Types, TypeOK, CallOK, HoldsItsStage, Audit, FromCall
<1> HIDE DEF n
<1>1. CASE Return(c, AfterAudit(c, FALSE))
  <2>1. AfterAudit(c, FALSE) # "served"
    BY <1>0 DEF AfterAudit, Verdicts
  <2> QED BY <1>0, <1>1, <2>1, ReturnOK
<1>2. ASSUME local' = [local EXCEPT ![c].id = <<SessionOf[c], now, n>>, ![c].scopes = Shown(c)],
             Goto(c, "save")
      PROVE  CallOK(c)'
  <2>1. /\ pc'[c] = "save" /\ reply'[c] = "none"
        /\ local'[c].verdict = local[c].verdict /\ local'[c].phase = local[c].phase
        /\ local'[c].id = <<SessionOf[c], now, n>> /\ local'[c].scopes = Shown(c)
    BY <1>0, <1>2 DEF Goto, Before, Types, TypeOK, Locals
  <2>2. HoldsItsStage(c)'
    BY <1>0, <2>1 DEF HoldsItsStage
  <2>3. UselessStayOver(c)'
    BY <1>0, <2>1, UselessStay
  <2>4. WasAuthorized(c)'
    BY <1>0, <2>1, AuthorityStays DEF Before, CallOK, WasAuthorized, Passed
  <2>5. EventIsExcused(c)'
    <3> SUFFICES ASSUME local[c].verdict = "allowed", NEW s \in Scopes(c) \ Shown(c)
                 PROVE  Ended(c, s)'
      BY <2>1 DEF EventIsExcused, Scopes
    <3>1. Ended(c, s)
      BY ShownUnlessEnded DEF Before, CallOK, WasAuthorized, Passed
    <3> QED BY <1>0, <3>1, AuthorityStays DEF Before
  <2> QED BY <2>2, <2>3, <2>4, <2>5 DEF CallOK
<1> QED BY <1>1, <1>2 DEF Audit, n

LEMMA SaveAuditOK == ASSUME NEW c \in Calls, Before(c), SaveAudit(c) PROVE CallOK(c)'
<1>1. /\ pc[c] = "save" /\ useless'[c] = useless[c] /\ local[c].verdict \in Verdicts
  BY DEF SaveAudit, Before, CallOK, HoldsItsStage
<1>2. \A w \in BOOLEAN : AfterAudit(c, w) = "served" => local[c].verdict = "allowed"
  BY <1>1 DEF AfterAudit, Verdicts
<1> QED BY <1>1, <1>2, ReturnOK DEF SaveAudit

\* The same for all of its steps.
LEMMA OwnStepOK == ASSUME NEW c \in Calls, Before(c), Call(c) PROVE CallOK(c)'
BY ReadClockOK, ResolveOK, LoadOK, CreateOK, AuditOK, SaveAuditOK DEF Call

----------------------------------------------------------------------------
(* The calls, the rows and the commands, through every step.               *)

\* A call's step leaves the other calls and the commands alone.
LEMMA OthersStay ==
    ASSUME Types, NEW c \in Calls, Call(c)
    PROVE  UNCHANGED <<cmd, told>> /\ \A d \in Calls \ {c} : CallStays(d)
<1>1. pc \in [Calls -> Stages] /\ local \in [Calls -> Locals]
      /\ DOMAIN reply = Calls /\ DOMAIN useless = Calls
  BY DEF Types, TypeOK, Stages
<1>2. UNCHANGED <<cmd, told>>
  BY DEF Call, ReadClock, Resolve, Load, Create, Audit, SaveAudit, FromCall
<1>3. \A d \in Calls \ {c} : CallStays(d)
  BY <1>1 DEF Call, ReadClock, Resolve, Load, Create, Audit, SaveAudit, Decide, Goto, Return,
              CallStays
<1> QED BY <1>2, <1>3

\* A call that is lost.
LEMMA LostOK ==
    ASSUME NEW c \in Calls, Before(c), pc'[c] = "done", reply'[c] = "lost",
           local'[c] = Fresh, useless'[c] = useless[c]
    PROVE  CallOK(c)'
<1>1. HoldsItsStage(c)'
  BY DEF HoldsItsStage
<1>2. UselessStayOver(c)'
  BY UselessStay
<1>3. WasAuthorized(c)'
  BY DEF WasAuthorized, Passed, Fresh
<1>4. EventIsExcused(c)'
  BY DEF EventIsExcused
<1> QED BY <1>1, <1>2, <1>3, <1>4 DEF CallOK

\* What a call holds stays true, whoever takes a step.
LEMMA CallsStayOK ==
    ASSUME CInv, Types', GrantsMove, [Next]_vars, NEW c \in Calls
    PROVE  CallOK(c)'
<1>1. Before(c)
  BY DEF CInv, Before
<1>2. CASE CallStays(c)
  BY <1>1, <1>2, CallOKStays DEF Before
<1>3. ASSUME NEW d \in Calls, Call(d) PROVE CallOK(c)'
  BY <1>1, <1>2, <1>3, OwnStepOK, OthersStay DEF CInv
<1>4. ASSUME NEW s \in Servers, RestartServer(s) PROVE CallOK(c)'
  <2>1. CallStays(c) \/ /\ pc'[c] = "done" /\ reply'[c] = "lost" /\ local'[c] = Fresh
                        /\ useless'[c] = useless[c]
    BY <1>4 DEF RestartServer, CallStays
  <2> QED BY <1>1, <1>2, <2>1, LostOK
<1>5. CASE UNCHANGED callVars
  BY <1>2, <1>5 DEF callVars, CallStays
<1>6. CASE UNCHANGED vars
  BY <1>5, <1>6 DEF vars
<1>7. ASSUME NEW o \in Commands, Command(o) \/ KillCommand(o) PROVE UNCHANGED callVars
  BY <1>7 DEF Command, KillCommand, StartApprove, Cancel, Confirm, Approve, AuditApproval, Compensate,
              Undo, StartRevoke, Revoke, UpdateRevoked, AuditRevocation, FromCLI
<1>8. Tick => UNCHANGED callVars
  BY DEF Tick
<1> QED BY <1>3, <1>4, <1>5, <1>6, <1>7, <1>8 DEF Next

\* A call that has begun does not begin again, nor forget which grants were over.
BegunStay == \A d \in Calls : pc[d] # "idle" => pc'[d] # "idle" /\ useless'[d] = useless[d]

LEMMA CallBegunStay == ASSUME Types, NEW c \in Calls, Call(c) PROVE BegunStay
<1>1. \A d \in Calls \ {c} : CallStays(d)
  BY OthersStay
<1>2. pc[c] # "idle" => pc'[c] # "idle" /\ useless'[c] = useless[c]
  BY DEF Types, TypeOK, Call, ReadClock, Resolve, Load, Create, Audit, SaveAudit, Decide, Goto,
         Return
<1> QED BY <1>1, <1>2 DEF BegunStay, CallStays

\* A row of the trail stays true when grants move forward.
LEMMA RowStaysOK ==
    ASSUME Types, Types', GrantsMove, BegunStay, NEW x \in trail, RowOK(x)
    PROVE  RowOK(x)'
<1>1. CASE GrantRow(x)
  <2>1. x.what # "allowed" /\ x.who \in Grants
    BY <1>1 DEF GrantRow
  <2> QED BY <1>1, <2>1 DEF RowOK, GrantRow, GrantsMove
<1>2. CASE CallRow(x)
  <2>1. x.who \in Calls /\ pc'[x.who] # "idle" /\ useless'[x.who] = useless[x.who]
    BY <1>2 DEF CallRow, BegunStay
  <2>2. CallRow(x)'
    BY <1>2, <2>1 DEF CallRow
  <2>3. x.what = "allowed" => \A s \in Scopes(x.who) \ x.scopes : Ended(x.who, s)'
    BY <2>1, AuthorityStays DEF RowOK
  <2>4. x.what # "approved"
    BY <1>2 DEF CallRow, Verdicts
  <2> QED BY <2>2, <2>3, <2>4 DEF RowOK, Scopes
<1> QED BY <1>1, <1>2 DEF RowOK

\* A row more that is in order keeps them all so.
LEMMA InsertOK ==
    ASSUME Types, Types', GrantsMove, BegunStay, \A x \in trail : RowOK(x),
           NEW row, RowOK(row)', trail' = Insert(row)
    PROVE  \A x \in trail' : RowOK(x)'
<1>1. \A x \in trail : RowOK(x)'
  BY RowStaysOK
<1>2. trail' \subseteq trail \union {row}
  BY DEF Insert
<1> QED BY <1>1, <1>2

\* The row that a call writes.
LEMMA SavedRowOK ==
    ASSUME NEW c \in Calls, Before(c), SaveAudit(c),
           NEW row, row = Row(local[c].id, c, local[c].verdict, local[c].scopes)
    PROVE  RowOK(row)'
<1>1. /\ pc[c] = "save" /\ pc'[c] # "idle" /\ useless'[c] = useless[c]
      /\ local[c].verdict \in Verdicts
      /\ \E t, n \in Nat : local[c].id = <<SessionOf[c], t, n>>
  BY DEF SaveAudit, Return, Before, Types, TypeOK, CallOK, HoldsItsStage
<1>2. /\ row.id = local[c].id /\ row.who = c /\ row.what = local[c].verdict
      /\ row.scopes = local[c].scopes
  BY DEF Row
<1>3. CallRow(row)'
  BY <1>1, <1>2 DEF CallRow
<1>4. ASSUME local[c].verdict = "allowed", NEW s \in Scopes(c) \ local[c].scopes
      PROVE  Ended(c, s)'
  BY <1>1, <1>4, AuthorityStays DEF Before, CallOK, EventIsExcused
<1>5. row.what # "approved"
  BY <1>1, <1>2 DEF Verdicts
<1> QED BY <1>2, <1>3, <1>4, <1>5 DEF RowOK, Scopes

LEMMA RowsStayOK ==
    ASSUME CInv, Types', GrantsMove, [Next]_vars
    PROVE  \A x \in trail' : RowOK(x)'
<1>0. Types /\ \A x \in trail : RowOK(x)
  BY DEF CInv
<1>1. ASSUME BegunStay, UNCHANGED trail PROVE \A x \in trail' : RowOK(x)'
  BY <1>0, <1>1, RowStaysOK
<1>2. UNCHANGED callVars => BegunStay
  BY DEF callVars, BegunStay
<1>3. ASSUME NEW c \in Calls, Call(c) PROVE \A x \in trail' : RowOK(x)'
  <2>1. BegunStay
    BY <1>0, <1>3, CallBegunStay
  <2>2. CASE UNCHANGED trail
    BY <1>1, <2>1, <2>2
  <2>3. CASE /\ SaveAudit(c)
             /\ trail' = Insert(Row(local[c].id, c, local[c].verdict, local[c].scopes))
    <3>1. Before(c)
      BY DEF CInv, Before
    <3>2. PICK row : row = Row(local[c].id, c, local[c].verdict, local[c].scopes)
      OBVIOUS
    <3>3. RowOK(row)'
      BY <2>3, <3>1, <3>2, SavedRowOK
    <3> QED BY <1>0, <2>1, <2>3, <3>2, <3>3, InsertOK
  <2> QED BY <1>3, <2>2, <2>3 DEF Call, ReadClock, Resolve, Load, Create, Audit, SaveAudit
<1>4. ASSUME NEW o \in Commands, Command(o) \/ KillCommand(o)
      PROVE  \A x \in trail' : RowOK(x)'
  <2>1. BegunStay
    BY <1>2, <1>4 DEF Command, KillCommand, StartApprove, Cancel, Confirm, Approve, AuditApproval,
          Compensate, Undo, StartRevoke, Revoke, UpdateRevoked, AuditRevocation, FromCLI
  <2>2. CASE UNCHANGED trail
    BY <1>1, <2>1, <2>2
  <2>3. cmd[o].at # "idle" => cmd[o].grant \in Grants
    BY DEF CInv, GInv, CommandHasFound
  <2>4. CASE AuditApproval(o)
    <3>1. PICK g \in Grants : g = cmd[o].grant
      BY <2>3, <2>4 DEF AuditApproval
    <3>2. PICK row : row = Row(<<"grant_approved", g>>, g, "approved", ScopesOf[g])
      OBVIOUS
    <3>3. RowOK(row)'
      <4>1. status'[g] \in {"ACTIVE", "REVOKED"}
        BY <2>4, <3>1 DEF CInv, CommandOK, AuditApproval
      <4> QED BY <3>2, <4>1 DEF RowOK, GrantRow, Row
    <3>4. UNCHANGED trail \/ trail' = Insert(row)
      BY <2>4, <3>1, <3>2 DEF AuditApproval
    <3> QED BY <1>0, <2>1, <2>2, <3>3, <3>4, InsertOK
  <2>5. CASE AuditRevocation(o)
    <3>1. PICK g \in Grants : g = cmd[o].grant
      BY <2>3, <2>5 DEF AuditRevocation
    <3>2. PICK row : row = Row(<<"grant_revoked", g>>, g, "revoked", ScopesOf[g])
      OBVIOUS
    <3>3. RowOK(row)'
      BY <3>2 DEF RowOK, GrantRow, Row
    <3>4. UNCHANGED trail \/ trail' = Insert(row)
      BY <2>5, <3>1, <3>2 DEF AuditRevocation
    <3> QED BY <1>0, <2>1, <2>2, <3>3, <3>4, InsertOK
  <2> QED BY <1>4, <2>2, <2>4, <2>5 DEF Command, KillCommand, StartApprove, Cancel, Confirm, Approve,
             Compensate, Undo, StartRevoke, Revoke, UpdateRevoked
<1>5. ASSUME NEW s \in Servers, RestartServer(s) PROVE \A x \in trail' : RowOK(x)'
  <2>1. BegunStay /\ UNCHANGED trail
    BY <1>5 DEF RestartServer, BegunStay
  <2> QED BY <1>1, <2>1
<1>6. ASSUME Tick \/ UNCHANGED vars PROVE \A x \in trail' : RowOK(x)'
  BY <1>1, <1>2, <1>6 DEF Tick, vars
<1> QED BY <1>3, <1>4, <1>5, <1>6 DEF Next

\* A command stands by what it has done, as the grants move on and rows are added.
LEMMA CommandStaysOK ==
    ASSUME GInv, GrantsMove, trail \subseteq trail', NEW o \in Commands, CommandOK(o),
           cmd'[o] = cmd[o], told'[o] = told[o]
    PROVE  CommandOK(o)'
<1>1. cmd[o].at # "idle" => cmd[o].grant \in Grants
  BY DEF GInv, CommandHasFound
<1>2. ASSUME NEW g, NEW what, HasRow(g, what) PROVE HasRow(g, what)'
  BY <1>2 DEF HasRow
<1>3. CASE cmd[o].at = "idle"
  BY <1>3 DEF CommandOK
<1>4. CASE cmd[o].at # "idle"
  BY <1>1, <1>2, <1>4 DEF CommandOK, GrantsMove, HasRow
<1> QED BY <1>3, <1>4

\* Rows are never removed.
LEMMA TrailGrows == [Next]_vars => trail \subseteq trail'
<1>1. \A row : trail' = Insert(row) => trail \subseteq trail'
  BY DEF Insert
<1>2. ASSUME NEW c \in Calls, Call(c) PROVE trail \subseteq trail'
  BY <1>1, <1>2 DEF Call, ReadClock, Resolve, Load, Create, Audit, SaveAudit
<1>3. ASSUME NEW o \in Commands, Command(o) \/ KillCommand(o) PROVE trail \subseteq trail'
  BY <1>1, <1>3 DEF Command, KillCommand, StartApprove, Cancel, Confirm, Approve, AuditApproval,
     Compensate, Undo, StartRevoke, Revoke, UpdateRevoked, AuditRevocation
<1>4. ASSUME NEW s \in Servers, RestartServer(s) PROVE trail \subseteq trail'
  BY <1>4 DEF RestartServer
<1> QED BY <1>2, <1>3, <1>4 DEF Next, Tick, vars

\* The row of an approval or a revocation is there after its INSERT, even if
\* the key was taken: no other row has it.
LEMMA GrantRowIsThere ==
    ASSUME \A x \in trail : RowOK(x), NEW g \in Grants,
           NEW what \in {"approved", "revoked"}, NEW row,
           row = Row(<<IF what = "approved" THEN "grant_approved" ELSE "grant_revoked", g>>,
                     g, what, ScopesOf[g]),
           trail' = Insert(row)
    PROVE  \E x \in trail' : x.who = g /\ x.what = what
<1>1. row.who = g /\ row.what = what
  BY DEF Row
<1>2. CASE \E x \in trail : x.id = row.id
  <2>1. PICK x \in trail : x.id = row.id
    BY <1>2
  <2>2. ~CallRow(x)
    <3> SUFFICES ASSUME NEW c, NEW t, NEW n, x.id = <<c, t, n>> PROVE FALSE
      BY DEF CallRow
    <3>1. Len(x.id) = 3
      OBVIOUS
    <3>2. Len(row.id) = 2
      BY DEF Row
    <3> QED BY <2>1, <3>1, <3>2
  <2>3. GrantRow(x)
    BY <2>2 DEF RowOK
  <2>4. x.who = g /\ x.what = what
    BY <2>1, <2>3 DEF GrantRow, Row
  <2> QED BY <1>2, <2>4 DEF Insert
<1>3. CASE ~\E x \in trail : x.id = row.id
  BY <1>1, <1>3 DEF Insert
<1> QED BY <1>2, <1>3

\* What a command does to its own part.
LEMMA OwnCommandOK ==
    ASSUME CInv, GInv', Types', GrantsMove, trail \subseteq trail', NEW o \in Commands,
           Command(o) \/ KillCommand(o)
    PROVE  CommandOK(o)'
<1>0. /\ GInv /\ CommandOK(o) /\ told \in [Commands -> {"none", "cancelled", "approved", "undone",
                                             "undone_with_error", "revoked", "failed"}]
      /\ cmd \in [Commands -> Invocations]
      /\ status \in [Grants -> {"ABSENT", "PENDING", "ACTIVE", "REVOKED"}]
      /\ \A x \in trail : RowOK(x)
  BY DEF CInv, Types, TypeOK, GInv, GTypes
<1> DEFINE g == cmd[o].grant
<1>1. cmd[o].at # "idle" => g \in Grants
  BY <1>0 DEF GInv, CommandHasFound
<1>2. cmd[o].at # "done" => told[o] = "none"
  BY <1>0 DEF CommandOK
<1>3. ASSUME NEW l, Report(o, l), l \in {"cancelled", "failed", "undone_with_error"} PROVE CommandOK(o)'
  <2>1. cmd'[o].at = "done" /\ told'[o] = l
    BY <1>0, <1>3 DEF Report, At
  <2> QED BY <1>3, <2>1 DEF CommandOK
<1>4. ASSUME NEW l, At(o, l), cmd[o].at # "done", UNCHANGED told,
             l \notin {"approved", "compensate", "undo", "revoked"}
      PROVE  CommandOK(o)'
  <2>1. cmd'[o].at = l /\ told'[o] = "none"
    BY <1>0, <1>2, <1>4 DEF At
  <2> QED BY <1>4, <2>1 DEF CommandOK
<1>5. CASE StartApprove(o) \/ StartRevoke(o)
  <2>1. cmd'[o].at \in {"prompt", "revoke"} /\ told'[o] = "none"
    BY <1>0, <1>2, <1>5 DEF StartApprove, StartRevoke, Idle
  <2> QED BY <2>1 DEF CommandOK
<1>15. CASE Confirm(o)
  <2>1. cmd'[o].at = "approve" /\ told'[o] = "none"
    BY <1>0, <1>2, <1>15 DEF Confirm, Invocations
  <2> QED BY <2>1 DEF CommandOK
<1>6. CASE Cancel(o)
  BY <1>3, <1>6 DEF Cancel
<1>7. CASE Approve(o)
  <2>1. CASE Report(o, "failed")
    BY <1>3, <2>1
  <2>2. ASSUME status' = [status EXCEPT ![g] = "ACTIVE"], At(o, "approved"), UNCHANGED told
        PROVE  CommandOK(o)'
    <3>1. cmd'[o].at = "approved" /\ cmd'[o].grant = g /\ told'[o] = "none"
      BY <1>0, <1>2, <1>7, <2>2 DEF At, Approve
    <3>2. status'[g] = "ACTIVE"
      BY <1>0, <1>1, <1>7, <2>2 DEF Approve
    <3> QED BY <3>1, <3>2 DEF CommandOK
  <2> QED BY <1>7, <2>1, <2>2 DEF Approve
<1>8. CASE AuditApproval(o)
  <2>0. cmd[o].at = "approved" /\ g \in Grants /\ UNCHANGED status
        /\ status[g] \in {"ACTIVE", "REVOKED"}
    BY <1>0, <1>1, <1>8 DEF AuditApproval, CommandOK
  <2>1. ASSUME Report(o, "approved"),
               trail' = Insert(Row(<<"grant_approved", g>>, g, "approved", ScopesOf[g]))
        PROVE  CommandOK(o)'
    <3>1. cmd'[o].at = "done" /\ cmd'[o].grant = g /\ told'[o] = "approved"
      BY <1>0, <2>1 DEF Report, At
    <3>2. \E x \in trail' : x.who = g /\ x.what = "approved"
      BY <1>0, <2>0, <2>1, GrantRowIsThere
    <3> QED BY <2>0, <3>1, <3>2 DEF CommandOK, HasRow
  <2>2. ASSUME At(o, "compensate"), UNCHANGED told PROVE CommandOK(o)'
    <3>1. cmd'[o].at = "compensate" /\ cmd'[o].grant = g /\ told'[o] = "none"
      BY <1>0, <1>2, <2>0, <2>2 DEF At
    <3> QED BY <2>0, <3>1 DEF CommandOK
  <2> QED BY <1>8, <2>1, <2>2 DEF AuditApproval
<1>9. CASE Compensate(o)
  <2>0. cmd[o].at = "compensate" /\ UNCHANGED status /\ status[g] \in {"ACTIVE", "REVOKED"}
    BY <1>0, <1>9 DEF Compensate, CommandOK
  <2>1. ASSUME At(o, "undo"), UNCHANGED told PROVE CommandOK(o)'
    <3>1. cmd'[o].at = "undo" /\ cmd'[o].grant = g /\ told'[o] = "none"
      BY <1>0, <1>2, <2>0, <2>1 DEF At
    <3> QED BY <2>0, <3>1 DEF CommandOK
  <2> QED BY <1>3, <1>9, <2>1 DEF Compensate, CheckRevoke
<1>10. CASE Undo(o)
  <2>1. ASSUME status' = [status EXCEPT ![g] = "REVOKED"], Report(o, "undone")
        PROVE  CommandOK(o)'
    <3>1. cmd'[o].at = "done" /\ cmd'[o].grant = g /\ told'[o] = "undone"
      BY <1>0, <2>1 DEF Report, At
    <3>2. status'[g] = "REVOKED"
      BY <1>0, <1>1, <1>10, <2>1 DEF Undo
    <3> QED BY <3>1, <3>2 DEF CommandOK
  <2> QED BY <1>3, <1>10, <2>1 DEF Undo, Update
<1>11. CASE Revoke(o)
  <2>1. At(o, "update") /\ UNCHANGED told => CommandOK(o)'
    BY <1>4, <1>11 DEF Revoke
  <2> QED BY <1>3, <1>11, <2>1 DEF Revoke, CheckRevoke
<1>12. CASE UpdateRevoked(o)
  <2>1. ASSUME status' = [status EXCEPT ![g] = "REVOKED"], At(o, "revoked"), UNCHANGED told
        PROVE  CommandOK(o)'
    <3>1. cmd'[o].at = "revoked" /\ cmd'[o].grant = g /\ told'[o] = "none"
      BY <1>0, <1>2, <1>12, <2>1 DEF At, UpdateRevoked
    <3>2. status'[g] = "REVOKED"
      BY <1>0, <1>1, <1>12, <2>1 DEF UpdateRevoked
    <3> QED BY <3>1, <3>2 DEF CommandOK
  <2> QED BY <1>3, <1>12, <2>1 DEF UpdateRevoked, Update
<1>13. CASE AuditRevocation(o)
  <2>0. cmd[o].at = "revoked" /\ g \in Grants /\ UNCHANGED status /\ status[g] = "REVOKED"
    BY <1>0, <1>1, <1>13 DEF AuditRevocation, CommandOK
  <2>1. ASSUME Report(o, "revoked"),
               trail' = Insert(Row(<<"grant_revoked", g>>, g, "revoked", ScopesOf[g]))
        PROVE  CommandOK(o)'
    <3>1. cmd'[o].at = "done" /\ cmd'[o].grant = g /\ told'[o] = "revoked"
      BY <1>0, <2>1 DEF Report, At
    <3>2. \E x \in trail' : x.who = g /\ x.what = "revoked"
      BY <1>0, <2>0, <2>1, GrantRowIsThere
    <3> QED BY <2>0, <3>1, <3>2 DEF CommandOK, HasRow
  <2> QED BY <1>3, <1>13, <2>1 DEF AuditRevocation
<1>14. CASE KillCommand(o)
  BY <1>4, <1>14 DEF KillCommand
<1> QED BY <1>5, <1>6, <1>7, <1>8, <1>9, <1>10, <1>11, <1>12, <1>13, <1>14, <1>15 DEF Command

\* A command's step leaves the other commands alone.
LEMMA OtherCommandsStay ==
    ASSUME Types, GInv, NEW p \in Commands, Command(p) \/ KillCommand(p),
           NEW o \in Commands \ {p}
    PROVE  cmd'[o] = cmd[o] /\ told'[o] = told[o]
BY DEF Types, TypeOK, GInv, GTypes, Command, KillCommand, StartApprove, Cancel, Confirm, Approve,
   AuditApproval, Compensate, Undo, StartRevoke, Revoke, UpdateRevoked, AuditRevocation,
   CheckRevoke, Update, Report, At

\* What a command holds stays true, whoever takes a step.
LEMMA CommandsStayOK ==
    ASSUME CInv, GInv', Types', GrantsMove, [Next]_vars, NEW o \in Commands
    PROVE  CommandOK(o)'
<1>1. GInv /\ Types /\ CommandOK(o) /\ trail \subseteq trail'
  BY TrailGrows DEF CInv
<1>2. ASSUME cmd'[o] = cmd[o], told'[o] = told[o] PROVE CommandOK(o)'
  BY <1>1, <1>2, CommandStaysOK
<1>3. ASSUME NEW c \in Calls, Call(c) PROVE CommandOK(o)'
  BY <1>1, <1>2, <1>3, OthersStay
<1>4. ASSUME NEW p \in Commands, Command(p) \/ KillCommand(p) PROVE CommandOK(o)'
  <2>1. CASE p = o
    BY <1>1, <1>4, <2>1, OwnCommandOK
  <2>2. CASE p # o
    <3>1. cmd'[o] = cmd[o] /\ told'[o] = told[o]
      BY <1>1, <1>4, <2>2, OtherCommandsStay
    <3> QED BY <1>2, <3>1
  <2> QED BY <2>1, <2>2
<1>5. ASSUME NEW s \in Servers, RestartServer(s) PROVE CommandOK(o)'
  BY <1>2, <1>5 DEF RestartServer
<1>6. ASSUME Tick \/ UNCHANGED vars PROVE CommandOK(o)'
  BY <1>2, <1>6 DEF Tick, vars
<1> QED BY <1>3, <1>4, <1>5, <1>6 DEF Next

----------------------------------------------------------------------------
(* Approvals without a row.                                                *)

\* A step that approves no grant and writes no row of an approval keeps it so.
LEMMA ApprovalStays ==
    ASSUME GInv, GrantsMove, NEW o \in Commands, ApprovalOK(o), Unaudited(o)' => Unaudited(o),
           cmd[o].at # "idle" => cmd'[o].grant = cmd[o].grant,
           told[o] # "none" => cmd[o].at # "idle",
           \A p \in Commands :
               cmd'[p].at = "approved" => cmd[p].at = "approved" /\ cmd'[p].grant = cmd[p].grant,
           \A x \in trail' \ trail : x.what = "approved" /\ Unaudited(o) => x.who # cmd[o].grant
    PROVE  ApprovalOK(o)'
<1> SUFFICES ASSUME Unaudited(o)' PROVE ApprovalOK(o)'
  BY DEF ApprovalOK
<1>1. Unaudited(o) /\ cmd[o].at # "idle"
  BY DEF Unaudited, TakenBack
<1>2. cmd'[o].grant = cmd[o].grant
  BY <1>1
<1> DEFINE g == cmd[o].grant
<1>3. /\ g \in Grants /\ status[g] \in {"ACTIVE", "REVOKED"} /\ ~HasRow(g, "approved")
      /\ \A p \in Commands \ {o} : cmd[p].at = "approved" => cmd[p].grant # g
  BY <1>1 DEF ApprovalOK
<1>4. status'[g] \in {"ACTIVE", "REVOKED"}
  BY <1>3 DEF GrantsMove
<1>5. \A x \in trail' : ~(x.who = g /\ x.what = "approved")
  BY <1>3 DEF HasRow
<1> QED BY <1>2, <1>3, <1>4, <1>5 DEF ApprovalOK, HasRow

\* The steps of a command that approve nothing and write no such row.
LEMMA QuietApprovals ==
    ASSUME CInv, NEW p \in Commands,
           \/ StartApprove(p) \/ Cancel(p) \/ Confirm(p) \/ (Approve(p) /\ Report(p, "failed"))
           \/ Compensate(p) \/ Undo(p) \/ StartRevoke(p) \/ Revoke(p) \/ UpdateRevoked(p)
           \/ AuditRevocation(p) \/ KillCommand(p)
    PROVE  /\ cmd'[p].at # "approved"
           /\ Unaudited(p)' => Unaudited(p)
           /\ cmd[p].at # "idle" => cmd'[p].grant = cmd[p].grant
           /\ \A x \in trail' \ trail : x.what # "approved"
<1>0. /\ told \in [Commands -> {"none", "cancelled", "approved", "undone", "undone_with_error",
                                "revoked", "failed"}]
      /\ cmd \in [Commands -> Invocations] /\ cmd[p] \in Invocations
      /\ cmd[p].at # "done" => told[p] = "none"
  BY DEF CInv, Types, TypeOK, GInv, GTypes, CommandOK
<1>1. ASSUME NEW l, At(p, l) PROVE cmd'[p].at = l /\ cmd'[p].grant = cmd[p].grant
  BY <1>0, <1>1 DEF At, Invocations
<1>2. ASSUME NEW l, Report(p, l)
      PROVE  cmd'[p].at = "done" /\ cmd'[p].grant = cmd[p].grant /\ told'[p] = l
  BY <1>0, <1>1, <1>2 DEF Report
<1>3. CASE StartApprove(p) \/ StartRevoke(p)
  <2>1. cmd[p].at = "idle" /\ cmd'[p].at \in {"prompt", "revoke"} /\ UNCHANGED <<trail, told>>
    BY <1>0, <1>3 DEF StartApprove, StartRevoke, Idle
  <2> QED BY <1>0, <2>1 DEF Unaudited, TakenBack
<1>4. CASE Confirm(p)
  <2>1. /\ cmd[p].at = "prompt" /\ cmd'[p].at = "approve" /\ cmd'[p].grant = cmd[p].grant
        /\ UNCHANGED <<trail, told>>
    BY <1>0, <1>4 DEF Confirm, Invocations
  <2> QED BY <1>0, <2>1 DEF Unaudited, TakenBack
<1>5. CASE Cancel(p) \/ (Approve(p) /\ Report(p, "failed"))
  <2>1. UNCHANGED trail /\ (Report(p, "cancelled") \/ Report(p, "failed"))
    BY <1>5 DEF Cancel, Approve
  <2> QED BY <1>2, <2>1 DEF Unaudited, TakenBack
<1>6. CASE Compensate(p) \/ Undo(p)
  <2>1. UNCHANGED trail /\ Unaudited(p)
    BY <1>6 DEF Compensate, Undo, Unaudited
  <2>2. cmd'[p].at # "approved" /\ cmd'[p].grant = cmd[p].grant
    BY <1>1, <1>2, <1>6 DEF Compensate, Undo, CheckRevoke, Update
  <2> QED BY <2>1, <2>2
<1>7. CASE Revoke(p)
  <2>1. /\ cmd[p].at = "revoke" /\ UNCHANGED trail
        /\ (At(p, "update") /\ UNCHANGED told) \/ Report(p, "failed")
    BY <1>7 DEF Revoke, CheckRevoke
  <2> QED BY <1>0, <1>1, <1>2, <2>1 DEF Unaudited, TakenBack
<1>8. CASE UpdateRevoked(p)
  <2>1. /\ cmd[p].at = "update" /\ UNCHANGED trail
        /\ (At(p, "revoked") /\ UNCHANGED told) \/ Report(p, "failed")
    BY <1>8 DEF UpdateRevoked, Update
  <2> QED BY <1>0, <1>1, <1>2, <2>1 DEF Unaudited, TakenBack
<1>9. CASE AuditRevocation(p)
  <2>1. Report(p, "revoked") \/ Report(p, "failed")
    BY <1>9 DEF AuditRevocation
  <2>2. \A x \in trail' \ trail : x.what = "revoked"
    BY <1>9 DEF AuditRevocation, Insert, Row
  <2> QED BY <1>2, <2>1, <2>2 DEF Unaudited, TakenBack
<1>10. CASE KillCommand(p)
  <2>1. cmd[p].at # "done" /\ At(p, "done") /\ UNCHANGED <<trail, told>>
    BY <1>10 DEF KillCommand
  <2> QED BY <1>0, <1>1, <2>1 DEF Unaudited, TakenBack
<1> QED BY <1>3, <1>4, <1>5, <1>6, <1>7, <1>8, <1>9, <1>10

\* The approval of a grant: it was pending, so there is no row of it, and no
\* command has approved it before.
LEMMA ApprovalBegins ==
    ASSUME CInv, GrantsMove, NEW p \in Commands, Approve(p), ~Report(p, "failed"),
           NEW o \in Commands
    PROVE  ApprovalOK(o)'
<1> DEFINE g == cmd[p].grant
<1>0. /\ cmd \in [Commands -> Invocations] /\ cmd[p] \in Invocations
      /\ status \in [Grants -> {"ABSENT", "PENDING", "ACTIVE", "REVOKED"}]
      /\ Types /\ GInv /\ ApprovalOK(o)
  BY DEF CInv, Types, TypeOK, GInv, GTypes
<1>1. /\ cmd[p].at = "approve" /\ status[g] = "PENDING" /\ At(p, "approved")
      /\ status' = [status EXCEPT ![g] = "ACTIVE"] /\ UNCHANGED <<trail, told>>
  BY DEF Approve, MayApprove
<1>2. g \in Grants
  BY <1>0, <1>1 DEF GInv, CommandHasFound
<1>3. cmd'[p].at = "approved" /\ cmd'[p].grant = g
  BY <1>0, <1>1 DEF At, Invocations
<1>4. \A q \in Commands \ {p} : cmd'[q] = cmd[q]
  BY <1>0, OtherCommandsStay DEF Command
<1>5. CASE o = p
  <2>1. status'[g] = "ACTIVE"
    BY <1>0, <1>1, <1>2
  <2>2. ~HasRow(g, "approved")
    BY <1>1 DEF CInv, RowOK, HasRow
  <2>3. \A q \in Commands : cmd[q].at = "approved" => cmd[q].grant # g
    BY <1>1 DEF CInv, CommandOK
  <2> QED BY <1>1, <1>2, <1>3, <1>4, <1>5, <2>1, <2>2, <2>3 DEF ApprovalOK, HasRow
<1>6. CASE o # p
  <2> SUFFICES ASSUME Unaudited(o)' PROVE ApprovalOK(o)'
    BY DEF ApprovalOK
  <2>1. cmd'[o] = cmd[o] /\ Unaudited(o)
    BY <1>1, <1>4, <1>6 DEF Unaudited
  <2>2. /\ cmd[o].grant \in Grants /\ status[cmd[o].grant] \in {"ACTIVE", "REVOKED"}
        /\ ~HasRow(cmd[o].grant, "approved")
        /\ \A q \in Commands \ {o} : cmd[q].at = "approved" => cmd[q].grant # cmd[o].grant
    BY <1>0, <2>1 DEF ApprovalOK
  <2>3. cmd[o].grant # g
    BY <1>1, <2>2
  <2>4. status'[cmd[o].grant] \in {"ACTIVE", "REVOKED"}
    BY <2>2 DEF GrantsMove
  <2>5. \A q \in Commands \ {o} : cmd'[q].at = "approved" => cmd'[q].grant # cmd[o].grant
    BY <1>3, <1>4, <2>2, <2>3
  <2> QED BY <1>1, <2>1, <2>2, <2>4, <2>5 DEF ApprovalOK, HasRow
<1> QED BY <1>5, <1>6

\* The row of an approval, or the loss of it.
LEMMA ApprovalEnds ==
    ASSUME CInv, GrantsMove, NEW p \in Commands, AuditApproval(p), NEW o \in Commands
    PROVE  ApprovalOK(o)'
<1>0. /\ cmd \in [Commands -> Invocations] /\ cmd[p] \in Invocations
      /\ told \in [Commands -> {"none", "cancelled", "approved", "undone", "undone_with_error",
                                "revoked", "failed"}]
      /\ Types /\ GInv /\ ApprovalOK(o) /\ CommandOK(o)
  BY DEF CInv, Types, TypeOK, GInv, GTypes
<1>1. /\ cmd[p].at = "approved"
      /\ Report(p, "approved") \/ (At(p, "compensate") /\ UNCHANGED <<trail, told>>)
  BY DEF AuditApproval
<1>2. \A x \in trail' \ trail : x.who = cmd[p].grant
  BY DEF AuditApproval, Insert, Row
<1>3. \A q \in Commands \ {p} : cmd'[q] = cmd[q] /\ told'[q] = told[q]
  BY <1>0, OtherCommandsStay DEF Command
<1>4. /\ cmd'[p].at \in {"done", "compensate"} /\ cmd'[p].grant = cmd[p].grant
      /\ cmd'[p].at = "done" => told'[p] = "approved"
      /\ cmd'[p].at = "compensate" => UNCHANGED trail
  BY <1>0, <1>1 DEF Report, At, Invocations
<1>5. \A q \in Commands :
         cmd'[q].at = "approved" => cmd[q].at = "approved" /\ cmd'[q].grant = cmd[q].grant
  BY <1>3, <1>4
<1>6. cmd'[o].grant = cmd[o].grant /\ (told[o] # "none" => cmd[o].at # "idle")
  BY <1>0, <1>3, <1>4 DEF CommandOK
<1>7. Unaudited(o)' => Unaudited(o)
  BY <1>1, <1>3 DEF Unaudited
<1>8. CASE o # p
  <2>1. Unaudited(o) => cmd[p].grant # cmd[o].grant
    BY <1>0, <1>1, <1>8 DEF ApprovalOK
  <2> QED BY <1>0, <1>2, <1>5, <1>6, <1>7, <2>1, ApprovalStays
<1>9. CASE o = p
  <2>1. CASE cmd'[p].at = "done"
    BY <1>4, <1>9, <2>1 DEF ApprovalOK, Unaudited, TakenBack
  <2>2. CASE cmd'[p].at = "compensate"
    BY <1>0, <1>4, <1>5, <1>6, <1>7, <1>9, <2>2, ApprovalStays
  <2> QED BY <1>4, <2>1, <2>2
<1> QED BY <1>8, <1>9

\* An approval without a row stays one, whoever takes a step.
LEMMA ApprovalsStayOK ==
    ASSUME CInv, GrantsMove, [Next]_vars, NEW o \in Commands
    PROVE  ApprovalOK(o)'
<1>0. /\ Types /\ GInv /\ ApprovalOK(o) /\ (told[o] # "none" => cmd[o].at # "idle")
  BY DEF CInv, CommandOK
<1>1. ASSUME UNCHANGED <<cmd, told>>, \A x \in trail' \ trail : x.what # "approved"
      PROVE  ApprovalOK(o)'
  BY <1>0, <1>1, ApprovalStays DEF Unaudited
<1>2. ASSUME NEW c \in Calls, Call(c) PROVE ApprovalOK(o)'
  <2>1. UNCHANGED <<cmd, told>>
    BY <1>0, <1>2, OthersStay
  <2>2. \A x \in trail' \ trail : x.what # "approved"
    <3>1. CASE UNCHANGED trail
      BY <3>1
    <3>2. CASE /\ SaveAudit(c)
               /\ trail' = Insert(Row(local[c].id, c, local[c].verdict, local[c].scopes))
      <4>1. local[c].verdict \in Verdicts
        BY <3>2 DEF CInv, CallOK, HoldsItsStage, SaveAudit
      <4> QED BY <3>2, <4>1 DEF Insert, Row, Verdicts
    <3> QED BY <1>2, <3>1, <3>2 DEF Call, ReadClock, Resolve, Load, Create, Audit, SaveAudit
  <2> QED BY <1>1, <2>1, <2>2
<1>3. ASSUME NEW p \in Commands, Command(p) \/ KillCommand(p) PROVE ApprovalOK(o)'
  <2>1. CASE Approve(p) /\ ~Report(p, "failed")
    BY <2>1, ApprovalBegins
  <2>2. CASE AuditApproval(p)
    BY <2>2, ApprovalEnds
  <2>3. CASE ~(Approve(p) /\ ~Report(p, "failed")) /\ ~AuditApproval(p)
    <3>1. /\ cmd'[p].at # "approved"
          /\ Unaudited(p)' => Unaudited(p)
          /\ cmd[p].at # "idle" => cmd'[p].grant = cmd[p].grant
          /\ \A x \in trail' \ trail : x.what # "approved"
      BY <1>3, <2>3, QuietApprovals DEF Command
    <3>2. \A q \in Commands \ {p} : cmd'[q] = cmd[q] /\ told'[q] = told[q]
      BY <1>0, <1>3, OtherCommandsStay
    <3>3. Unaudited(o)' => Unaudited(o)
      BY <3>1, <3>2 DEF Unaudited
    <3> QED BY <1>0, <3>1, <3>2, <3>3, ApprovalStays
  <2> QED BY <2>1, <2>2, <2>3
<1>4. ASSUME NEW s \in Servers, RestartServer(s) PROVE ApprovalOK(o)'
  BY <1>1, <1>4 DEF RestartServer
<1>5. ASSUME Tick \/ UNCHANGED vars PROVE ApprovalOK(o)'
  BY <1>1, <1>5 DEF Tick, vars
<1> QED BY <1>2, <1>3, <1>4, <1>5 DEF Next

----------------------------------------------------------------------------
(* The theorems.                                                           *)

\* The invariant holds at the start ...
LEMMA CInit == Init => CInv
<1> SUFFICES ASSUME Init PROVE CInv
  OBVIOUS
<1>1. Types /\ GInv
  BY InitTypes, GInit
<1>2. ASSUME NEW c \in Calls PROVE CallOK(c)
  BY DEF Init, CallOK, HoldsItsStage, UselessStayOver, WasAuthorized, EventIsExcused, Passed, Fresh
<1>3. \A x \in trail : RowOK(x)
  BY DEF Init
<1>4. \A o \in Commands : CommandOK(o) /\ ApprovalOK(o)
  BY DEF Init, CommandOK, ApprovalOK, Unaudited, TakenBack, Idle
<1> QED BY <1>1, <1>2, <1>3, <1>4 DEF CInv

\* ... and through every step.
LEMMA CNext == CInv /\ [Next]_vars => CInv'
<1> SUFFICES ASSUME CInv, [Next]_vars PROVE CInv'
  OBVIOUS
<1>1. Types /\ GInv /\ \A c \in Calls : HoldsItsStage(c)
  BY DEF CInv, CallOK
<1>2. Types' /\ GInv' /\ GrantsMove
  BY <1>1, StepTypes, StepIsGood, StepMovesGrants DEF Good
<1>3. \A c \in Calls : CallOK(c)'
  BY <1>2, CallsStayOK
<1>4. \A x \in trail' : RowOK(x)'
  BY <1>2, RowsStayOK
<1>5. \A o \in Commands : CommandOK(o)' /\ ApprovalOK(o)'
  BY <1>2, CommandsStayOK, ApprovalsStayOK
<1> QED BY <1>2, <1>3, <1>4, <1>5 DEF CInv

\* What a call, a row of the trail and a command hold, in every state.
THEOREM ConsentSafetyInvariant == Spec => []CInv
BY CInit, CNext, PTL DEF Spec

\* The types: no call goes on to an authorize call its tool does not have.
THEOREM ConsentTypes == Spec => []TypeOK
<1>1. CInv => TypeOK
  BY DEF CInv, Types
<1> QED BY <1>1, ConsentSafetyInvariant, PTL

\* Data is only served for scopes of the bootstrap set or of grants that the
\* operator approved for the session and that were live when the call began.
THEOREM ServedOnlyUnderLiveGrants == Spec => []ServedUnderLiveGrants
<1>1. CInv => ServedUnderLiveGrants
  BY DEF CInv, CallOK, WasAuthorized, Passed, Authority, ServedUnderLiveGrants
<1> QED BY <1>1, ConsentSafetyInvariant, PTL

\* An event of an allowed call lacks a scope only when a grant that gave it
\* has ended since the call began.
THEOREM TrailShowsAuthority == Spec => []AuditShowsAuthority
<1>1. CInv => AuditShowsAuthority
  BY DEF CInv, RowOK, Ended, AuditShowsAuthority
<1> QED BY <1>1, ConsentSafetyInvariant, PTL

\* What the operator is told has happened, whatever fails: an approval and a
\* revocation are in the trail, an approval said to have lost its audit is not
\* in it, and it is revoked unless the message carries a revoke error.
THEOREM OperatorIsToldTheTruth == Spec => []ReportsAreTrue
<1>1. CInv => ReportsAreTrue
  BY DEF CInv, CommandOK, ApprovalOK, Unaudited, ReportsAreTrue
<1> QED BY <1>1, ConsentSafetyInvariant, PTL

----------------------------------------------------------------------------
(* Served calls have their event, when one process serves a session.  The  *)
(* run consent_two_servers shows that the condition is needed: two draw    *)
(* the same id in the same millisecond, and INSERT OR IGNORE drops one of  *)
(* the events without an error.                                            *)

OneServerPerSession ==
    \A c, d \in Calls : SessionOf[c] = SessionOf[d] => ServerOf[c] = ServerOf[d]

\* An id that the process of the call has drawn: its numbers rise as long as
\* the clock stands, and a restart, which sets them back, moves the clock.
Drawn(id, c) == \E t, n \in Nat : /\ id = <<SessionOf[c], t, n>>
                                  /\ t < now \/ (t = now /\ n <= seq[ServerOf[c]])

\* An event about to be written has an id that no row and no other event has.
IdIsFree(c) == /\ Drawn(local[c].id, c)
               /\ \A x \in trail : x.id # local[c].id
               /\ \A d \in Calls \ {c} : pc[d] = "save" => local[d].id # local[c].id

AInv == /\ \A x \in trail : x.what \in Verdicts => Drawn(x.id, x.who)
        /\ \A c \in Calls : pc[c] = "save" => IdIsFree(c)
        /\ ServedIsAudited

\* The clock goes on, or the numbers do.
NumbersMove == \/ now < now'
               \/ now' = now /\ \A s \in Servers : seq[s] <= seq'[s]

\* Clock and numbers only go forward.
LEMMA StepMovesNumbers == ASSUME Types, [Next]_vars PROVE NumbersMove
<1>0. now \in Nat /\ seq \in [Servers -> Nat]
  BY DEF Types, TypeOK
<1>1. ASSUME UNCHANGED <<now, seq>> PROVE NumbersMove
  BY <1>0, <1>1 DEF NumbersMove
<1>2. ASSUME NEW c \in Calls, Audit(c) PROVE NumbersMove
  <2>1. CASE UNCHANGED seq
    BY <1>1, <1>2, <2>1 DEF Audit, FromCall
  <2>2. CASE seq' = [seq EXCEPT ![ServerOf[c]] = seq[ServerOf[c]] + 1]
    BY <1>0, <1>2, <2>2, CallAssumption DEF Audit, FromCall, NumbersMove
  <2> QED BY <1>2, <2>1, <2>2 DEF Audit
<1>3. ASSUME NEW c \in Calls, Call(c), ~Audit(c) PROVE NumbersMove
  BY <1>1, <1>3 DEF Call, ReadClock, Resolve, Load, Create, SaveAudit, FromCall
<1>4. ASSUME NEW o \in Commands, Command(o) \/ KillCommand(o) PROVE NumbersMove
  BY <1>1, <1>4 DEF Command, KillCommand, StartApprove, Cancel, Confirm, Approve, AuditApproval,
     Compensate, Undo, StartRevoke, Revoke, UpdateRevoked, AuditRevocation, FromCLI
<1>5. ASSUME NEW s \in Servers, RestartServer(s) PROVE NumbersMove
  BY <1>0, <1>5 DEF RestartServer, NumbersMove
<1>6. Tick => NumbersMove
  BY <1>0 DEF Tick, NumbersMove
<1> QED BY <1>1, <1>2, <1>3, <1>4, <1>5, <1>6 DEF Next, vars

\* An id that was drawn stays behind the clock and the numbers of its server.
LEMMA DrawnStays ==
    ASSUME Types, Types', NumbersMove, NEW c \in Calls, NEW id, Drawn(id, c)
    PROVE  Drawn(id, c)'
<1>1. PICK t, n \in Nat : /\ id = <<SessionOf[c], t, n>>
                          /\ t < now \/ (t = now /\ n <= seq[ServerOf[c]])
  BY DEF Drawn
<1>2. /\ now \in Nat /\ now' \in Nat /\ ServerOf[c] \in Servers
      /\ seq[ServerOf[c]] \in Nat /\ seq'[ServerOf[c]] \in Nat
  BY CallAssumption DEF Types, TypeOK
<1>3. t < now' \/ (t = now' /\ n <= seq'[ServerOf[c]])
  BY <1>1, <1>2 DEF NumbersMove
<1> QED BY <1>1, <1>3 DEF Drawn

\* The next number of a process is on no id that it, the only process of the
\* session, has drawn.
LEMMA NextIdIsNew ==
    ASSUME OneServerPerSession, Types, NEW c \in Calls, NEW d \in Calls, NEW id, Drawn(id, d)
    PROVE  id # <<SessionOf[c], now, seq[ServerOf[c]] + 1>>
<1> SUFFICES ASSUME id = <<SessionOf[c], now, seq[ServerOf[c]] + 1>> PROVE FALSE
  OBVIOUS
<1>1. PICK t, n \in Nat : /\ id = <<SessionOf[d], t, n>>
                          /\ t < now \/ (t = now /\ n <= seq[ServerOf[d]])
  BY DEF Drawn
<1>2. SessionOf[d] = SessionOf[c] /\ t = now /\ n = seq[ServerOf[c]] + 1
  BY <1>1
<1>3. ServerOf[d] = ServerOf[c] /\ seq[ServerOf[c]] \in Nat /\ now \in Nat
  BY <1>2, CallAssumption DEF OneServerPerSession, Types, TypeOK
<1> QED BY <1>1, <1>2, <1>3

\* Rows of grants have other ids than events of calls.
LEMMA GrantRowId == ASSUME NEW x, GrantRow(x), NEW s, NEW t, NEW n PROVE x.id # <<s, t, n>>
<1> SUFFICES ASSUME x.id = <<s, t, n>> PROVE FALSE
  OBVIOUS
<1>1. Len(x.id) = 3
  OBVIOUS
<1>2. Len(x.id) = 2
  BY DEF GrantRow
<1> QED BY <1>1, <1>2

\* Where no event of a call is drawn or written, the ids stay free.
LEMMA QuietIds ==
    ASSUME Types, Types', NumbersMove, AInv, \A x \in trail : RowOK(x), trail \subseteq trail',
           \A x \in trail' \ trail : GrantRow(x),
           \A c \in Calls : pc'[c] = "save" => pc[c] = "save" /\ local'[c] = local[c],
           \A c \in Calls : reply'[c] \in {"served", "requested"} => reply'[c] = reply[c]
    PROVE  AInv'
<1>1. ASSUME NEW x \in trail', x.what \in Verdicts PROVE Drawn(x.id, x.who)'
  <2>1. x \in trail
    BY <1>1 DEF GrantRow, Verdicts
  <2>2. x.who \in Calls
    BY <1>1, <2>1 DEF RowOK, CallRow, GrantRow, Verdicts
  <2> QED BY <1>1, <2>1, <2>2, DrawnStays DEF AInv
<1>2. ASSUME NEW c \in Calls, pc'[c] = "save" PROVE IdIsFree(c)'
  <2>1. IdIsFree(c) /\ local'[c] = local[c]
    BY <1>2 DEF AInv
  <2>2. PICK id : id = local[c].id
    OBVIOUS
  <2>3. Drawn(id, c) /\ Drawn(id, c)'
    BY <2>1, <2>2, DrawnStays DEF IdIsFree
  <2>4. Drawn(local[c].id, c)'
    BY <2>1, <2>2, <2>3
  <2>5. \A x \in trail' : x.id # id
    <3>1. PICK t, n \in Nat : id = <<SessionOf[c], t, n>>
      BY <2>3 DEF Drawn
    <3>2. \A x \in trail' \ trail : x.id # id
      BY <3>1, GrantRowId
    <3> QED BY <2>1, <2>2, <3>2 DEF IdIsFree
  <2> QED BY <2>1, <2>2, <2>4, <2>5 DEF IdIsFree
<1>3. ServedIsAudited'
  BY DEF AInv, ServedIsAudited, HasRow
<1> QED BY <1>1, <1>2, <1>3 DEF AInv

\* The audit of a call draws an id that is free.
LEMMA AuditIds ==
    ASSUME OneServerPerSession, Types, Types', NumbersMove, AInv,
           \A x \in trail : RowOK(x), NEW c \in Calls, Audit(c), Goto(c, "save"),
           local'[c].id = <<SessionOf[c], now, seq[ServerOf[c]] + 1>>,
           seq'[ServerOf[c]] = seq[ServerOf[c]] + 1
    PROVE  AInv'
<1>0. UNCHANGED <<now, trail, reply>> /\ \A d \in Calls \ {c} : CallStays(d)
  BY OthersStay DEF Audit, FromCall, Goto, Call
<1>1. ASSUME NEW x \in trail, x.what \in Verdicts PROVE Drawn(x.id, x.who) /\ Drawn(x.id, x.who)'
  <2>1. x.who \in Calls
    BY <1>1 DEF RowOK, CallRow, GrantRow, Verdicts
  <2> QED BY <1>1, <2>1, DrawnStays DEF AInv
<1>2. PICK id : id = <<SessionOf[c], now, seq[ServerOf[c]] + 1>>
  OBVIOUS
<1>3. Drawn(id, c)'
  <2>1. now \in Nat /\ seq[ServerOf[c]] + 1 \in Nat
    BY CallAssumption DEF Types, TypeOK
  <2> QED BY <1>0, <1>2, <2>1 DEF Drawn
<1>4. \A x \in trail : x.id # id
  <2> SUFFICES ASSUME NEW x \in trail PROVE x.id # id
    OBVIOUS
  <2>1. CASE GrantRow(x)
    BY <1>2, <2>1, GrantRowId
  <2>2. CASE CallRow(x)
    <3>1. x.who \in Calls /\ Drawn(x.id, x.who)
      BY <1>1, <2>2 DEF CallRow
    <3> QED BY <1>2, <3>1, NextIdIsNew
  <2> QED BY <2>1, <2>2 DEF RowOK
<1>5. ASSUME NEW d \in Calls \ {c}, pc[d] = "save"
      PROVE  /\ IdIsFree(d) /\ local[d].id # id /\ Drawn(local[d].id, d)'
  <2>1. IdIsFree(d) /\ local'[d] = local[d]
    BY <1>0, <1>5 DEF AInv, CallStays
  <2>2. PICK e : e = local[d].id
    OBVIOUS
  <2>3. Drawn(e, d) /\ Drawn(e, d)'
    BY <2>1, <2>2, DrawnStays DEF IdIsFree
  <2>4. local[d].id # id
    BY <1>2, <2>2, <2>3, NextIdIsNew
  <2> QED BY <2>1, <2>2, <2>3, <2>4
<1>6. IdIsFree(c)'
  <2>1. local'[c].id = id
    BY <1>2
  <2>2. Drawn(local[c].id, c)'
    BY <1>3, <2>1
  <2>3. \A d \in Calls \ {c} : pc'[d] = "save" => local'[d].id # id
    BY <1>0, <1>5 DEF CallStays
  <2> QED BY <1>0, <1>4, <2>1, <2>2, <2>3 DEF IdIsFree
<1>7. ASSUME NEW d \in Calls \ {c}, pc'[d] = "save" PROVE IdIsFree(d)'
  <2>1. pc[d] = "save" /\ local'[d] = local[d]
    BY <1>0, <1>7 DEF CallStays
  <2>2. \A e \in Calls \ {d} : pc'[e] = "save" => local'[e].id # local[d].id
    BY <1>0, <1>2, <1>5, <2>1 DEF CallStays, IdIsFree
  <2> QED BY <1>0, <1>5, <2>1, <2>2 DEF IdIsFree
<1>8. ServedIsAudited'
  BY <1>0 DEF AInv, ServedIsAudited, HasRow
<1> QED BY <1>0, <1>1, <1>6, <1>7, <1>8 DEF AInv

\* Writing it adds a row.
LEMMA SaveIds ==
    ASSUME Types, Types', NumbersMove, AInv, \A x \in trail : RowOK(x),
           NEW c \in Calls, SaveAudit(c), NEW row,
           row = Row(local[c].id, c, local[c].verdict, local[c].scopes),
           trail' = Insert(row), HoldsItsStage(c), Return(c, AfterAudit(c, TRUE))
    PROVE  AInv'
<1>0. /\ pc[c] = "save" /\ pc'[c] = "done" /\ reply'[c] = AfterAudit(c, TRUE)
      /\ local[c].verdict \in Verdicts /\ IdIsFree(c)
      /\ \A d \in Calls \ {c} : CallStays(d)
      /\ row.id = local[c].id /\ row.who = c /\ row.what = local[c].verdict
  <2>1. pc[c] = "save" /\ Call(c)
    BY DEF SaveAudit, Call
  <2>2. pc'[c] = "done" /\ reply'[c] = AfterAudit(c, TRUE)
    BY DEF Return, Types, TypeOK
  <2>3. local[c].verdict \in Verdicts /\ IdIsFree(c) /\ \A d \in Calls \ {c} : CallStays(d)
    BY <2>1, OthersStay DEF HoldsItsStage, AInv
  <2> QED BY <2>1, <2>2, <2>3 DEF Row
<1>1. trail' = trail \union {row}
  BY <1>0 DEF IdIsFree, Insert
<1>2. PICK id : id = local[c].id
  OBVIOUS
<1>3. Drawn(row.id, row.who)'
  <2>1. Drawn(id, c)'
    BY <1>0, <1>2, DrawnStays DEF IdIsFree
  <2> QED BY <1>0, <1>2, <2>1
<1>4. ASSUME NEW x \in trail, x.what \in Verdicts PROVE Drawn(x.id, x.who)'
  <2>1. x.who \in Calls
    BY <1>4 DEF RowOK, CallRow, GrantRow, Verdicts
  <2> QED BY <1>4, <2>1, DrawnStays DEF AInv
<1>5. ASSUME NEW d \in Calls, pc'[d] = "save" PROVE IdIsFree(d)'
  <2>1. d # c /\ pc[d] = "save" /\ local'[d] = local[d] /\ IdIsFree(d)
    BY <1>0, <1>5 DEF CallStays, AInv
  <2>2. PICK e : e = local[d].id
    OBVIOUS
  <2>3. Drawn(e, d)'
    BY <2>1, <2>2, DrawnStays DEF IdIsFree
  <2>4. Drawn(local[d].id, d)'
    BY <2>1, <2>2, <2>3
  <2>5. \A x \in trail' : x.id # local[d].id
    BY <1>0, <1>1, <2>1 DEF IdIsFree
  <2>6. \A f \in Calls \ {d} : pc'[f] = "save" => local'[f].id # local[d].id
    BY <1>0, <2>1 DEF CallStays, IdIsFree
  <2> QED BY <2>1, <2>4, <2>5, <2>6 DEF IdIsFree
<1>6. ServedIsAudited'
  <2>1. \A d \in Calls \ {c} : reply'[d] = reply[d]
    BY <1>0 DEF CallStays
  <2>2. /\ reply'[c] = "served" => row.what = "allowed"
        /\ reply'[c] = "requested" => row.what = "requested"
    BY <1>0 DEF AfterAudit, Verdicts
  <2>3. ASSUME NEW d \in Calls, NEW what \in {"allowed", "requested"},
               reply'[d] = (IF what = "allowed" THEN "served" ELSE "requested")
        PROVE  \E x \in trail' : x.who = d /\ x.what = what
    <3>1. CASE d = c
      BY <1>0, <1>1, <2>2, <2>3, <3>1
    <3>2. CASE d # c
      BY <1>1, <2>1, <2>3, <3>2 DEF AInv, ServedIsAudited, HasRow
    <3> QED BY <3>1, <3>2
  <2> QED BY <2>3 DEF ServedIsAudited, HasRow
<1> QED BY <1>1, <1>3, <1>4, <1>5, <1>6 DEF AInv

\* With one server for each session what was handed out keeps its event.
LEMMA ANext == OneServerPerSession => (CInv /\ AInv /\ [Next]_vars => AInv')
<1> SUFFICES ASSUME OneServerPerSession, CInv, AInv, [Next]_vars PROVE AInv'
  OBVIOUS
<1>0. /\ Types /\ GInv /\ \A c \in Calls : HoldsItsStage(c)
      /\ \A x \in trail : RowOK(x)
  BY DEF CInv, CallOK
<1>1. Types' /\ NumbersMove
  BY <1>0, StepTypes, StepMovesNumbers
<1>2. ASSUME trail \subseteq trail', \A x \in trail' \ trail : GrantRow(x),
             \A c \in Calls : pc'[c] = "save" => pc[c] = "save" /\ local'[c] = local[c],
             \A c \in Calls : reply'[c] \in {"served", "requested"} => reply'[c] = reply[c]
      PROVE  AInv'
  BY <1>0, <1>1, <1>2, QuietIds
<1>3. ASSUME NEW c \in Calls, Call(c) PROVE AInv'
  <2>0. /\ \A d \in Calls \ {c} : CallStays(d)
        /\ pc \in [Calls -> {"idle", "clock", "resolve", "load", "audit", "save", "done"}]
        /\ reply \in [Calls -> {"none", "served", "denied", "requested", "failed", "lost"}]
    BY <1>0, <1>3, OthersStay DEF Types, TypeOK
  <2>1. ASSUME pc'[c] # "save", reply'[c] \in {reply[c], "denied", "failed"}, UNCHANGED trail
        PROVE  AInv'
    BY <1>2, <2>0, <2>1 DEF CallStays
  <2>2. AfterAudit(c, FALSE) \in {"denied", "failed"} \/ local[c].verdict \notin Verdicts
    BY DEF AfterAudit, Verdicts
  <2>3. CASE ReadClock(c) \/ Resolve(c) \/ Load(c) \/ Create(c)
    BY <2>0, <2>1, <2>3 DEF ReadClock, Resolve, Load, Create, Goto, Decide, Return
  <2>4. CASE Audit(c)
    <3>1. local[c].verdict \in Verdicts
      BY <1>0, <2>4 DEF Audit, HoldsItsStage
    <3>2. CASE Return(c, AfterAudit(c, FALSE))
      BY <2>0, <2>1, <2>2, <2>4, <3>1, <3>2 DEF Audit, Return
    <3>3. CASE /\ local' = [local EXCEPT ![c].id = <<SessionOf[c], now, seq[ServerOf[c]] + 1>>,
                                         ![c].scopes = Shown(c)]
               /\ seq' = [seq EXCEPT ![ServerOf[c]] = seq[ServerOf[c]] + 1]
               /\ Goto(c, "save")
      <4>1. local[c] \in Locals /\ local \in [Calls -> Locals] /\ seq \in [Servers -> Nat]
            /\ ServerOf[c] \in Servers
        BY <1>0, CallAssumption DEF Types, TypeOK
      <4>2. local'[c].id = <<SessionOf[c], now, seq[ServerOf[c]] + 1>>
        BY <3>3, <4>1 DEF Locals
      <4>3. seq'[ServerOf[c]] = seq[ServerOf[c]] + 1
        BY <3>3, <4>1
      <4> QED BY <1>0, <1>1, <2>4, <3>3, <4>2, <4>3, AuditIds
    <3> QED BY <2>4, <3>2, <3>3 DEF Audit
  <2>5. CASE SaveAudit(c)
    <3>1. local[c].verdict \in Verdicts
      BY <1>0, <2>5 DEF SaveAudit, HoldsItsStage
    <3>2. CASE Return(c, AfterAudit(c, FALSE)) /\ UNCHANGED trail
      BY <2>0, <2>1, <2>2, <3>1, <3>2 DEF Return
    <3>3. CASE /\ trail' = Insert(Row(local[c].id, c, local[c].verdict, local[c].scopes))
               /\ Return(c, AfterAudit(c, TRUE))
      <4>1. PICK row : row = Row(local[c].id, c, local[c].verdict, local[c].scopes)
        OBVIOUS
      <4> QED BY <1>0, <1>1, <2>5, <3>3, <4>1, SaveIds
    <3> QED BY <2>5, <3>2, <3>3 DEF SaveAudit
  <2> QED BY <1>3, <2>3, <2>4, <2>5 DEF Call
<1>4. ASSUME NEW o \in Commands, Command(o) \/ KillCommand(o) PROVE AInv'
  <2>1. UNCHANGED callVars
    BY <1>4 DEF Command, KillCommand, StartApprove, Cancel, Confirm, Approve, AuditApproval,
       Compensate, Undo, StartRevoke, Revoke, UpdateRevoked, AuditRevocation, FromCLI
  <2>2. UNCHANGED trail \/ \E row : GrantRow(row) /\ trail' = Insert(row)
    <3>1. cmd[o].at # "idle" => cmd[o].grant \in Grants
      BY <1>0 DEF GInv, CommandHasFound
    <3>2. ASSUME NEW g \in Grants,
                 NEW row \in {Row(<<"grant_approved", g>>, g, "approved", ScopesOf[g]),
                              Row(<<"grant_revoked", g>>, g, "revoked", ScopesOf[g])}
          PROVE  GrantRow(row)
      BY <3>2 DEF GrantRow, Row
    <3>3. CASE AuditApproval(o) \/ AuditRevocation(o)
      BY <3>1, <3>2, <3>3 DEF AuditApproval, AuditRevocation
    <3>4. CASE ~(AuditApproval(o) \/ AuditRevocation(o))
      BY <1>4, <3>4 DEF Command, KillCommand, StartApprove, Cancel, Confirm, Approve, Compensate, Undo,
         StartRevoke, Revoke, UpdateRevoked
    <3> QED BY <3>3, <3>4
  <2>3. trail \subseteq trail' /\ \A x \in trail' \ trail : GrantRow(x)
    BY <2>2 DEF Insert
  <2> QED BY <1>2, <2>1, <2>3 DEF callVars
<1>5. ASSUME NEW s \in Servers, RestartServer(s) PROVE AInv'
  <2>1. UNCHANGED trail
        /\ \A c \in Calls : /\ pc'[c] = "save" => pc[c] = "save" /\ local'[c] = local[c]
                            /\ reply'[c] \in {reply[c], "lost"}
    BY <1>5 DEF RestartServer
  <2> QED BY <1>2, <2>1
<1>6. ASSUME Tick \/ UNCHANGED vars PROVE AInv'
  BY <1>2, <1>6 DEF Tick, vars, callVars
<1> QED BY <1>3, <1>4, <1>5, <1>6 DEF Next

\* When a session is served by one process, an agent that is given data or a
\* grant id has its own event in the trail, also across restarts.
THEOREM ServedCallsAreAudited ==
    ASSUME OneServerPerSession PROVE Spec => []ServedIsAudited
<1>1. Init => AInv
  BY DEF Init, AInv, ServedIsAudited
<1>2. CInv /\ AInv /\ [Next]_vars => AInv'
  BY ANext
<1>3. AInv => ServedIsAudited
  BY DEF AInv
<1> QED BY <1>1, <1>2, <1>3, ConsentSafetyInvariant, PTL DEF Spec

=============================================================================
