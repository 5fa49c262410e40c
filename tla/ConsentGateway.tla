--------------------------- MODULE ConsentGateway ---------------------------
(***************************************************************************)
(* Temporary grants and the protected tools of the MCP gateway: agents ask *)
(* for a grant and call tools through MCP processes (internal/agentmcp),   *)
(* an operator approves and revokes grants with the CLI (cmd/timewarp),    *)
(* and all of them meet only in the SQLite file (internal/storage), where  *)
(* the audit trail is kept as events under one trace per session.          *)
(*                                                                         *)
(* A step is one statement on the database, with the local work around it. *)
(* effectiveAuthorization reads the clock in a step of its own, because an *)
(* authorization may rest on a clock value that is old when it queries;    *)
(* in an audit, where the query only fills the event, the two are one      *)
(* step.  Time is counted in milliseconds.                                 *)
(***************************************************************************)
EXTENDS Naturals, Sequences, FiniteSets

CONSTANTS
    Servers,      \* timewarp-mcp processes on one database
    Calls,        \* tool calls
    ServerOf,     \* the process that serves each call
    SessionOf,    \* the session_id each call names
    Needs,        \* per call, the scope sets of its successive authorize calls
    Loads,        \* per call, the outcomes its read may have
    Asks,         \* the grant a request_consent call creates, or NoGrant
    Grants,       \* grant ids (drawn at random, so never equal)
    NoGrant,
    ScopesOf,     \* the scopes of each grant, fixed by its request
    GrantSession, \* the session of each grant, fixed by its request
    Bootstrap,    \* scopes of TIMEWARP_MCP_SCOPES
    Commands,     \* CLI invocations of consent approve and consent revoke
    TTL,          \* lifetime of an approved grant
    StoreMayFail, \* whether statements may fail (a busy or full database)
    MayDie,       \* whether processes may be killed
    MaxTime       \* bound on the clock

ASSUME TimeAssumption == TTL \in Nat \ {0} /\ MaxTime \in Nat \ {0}
ASSUME SwitchAssumption == StoreMayFail \in BOOLEAN /\ MayDie \in BOOLEAN
ASSUME CallAssumption ==
    /\ ServerOf \in [Calls -> Servers]
    /\ Asks \in [Calls -> Grants \union {NoGrant}] /\ NoGrant \notin Grants
    /\ \A c, d \in Calls : Asks[c] = Asks[d] /\ Asks[c] # NoGrant => c = d
    /\ \A c \in Calls : Asks[c] # NoGrant => GrantSession[Asks[c]] = SessionOf[c]
ASSUME NeedsAssumption == \A c \in Calls : Needs[c] \in Seq({Needs[c][i] : i \in DOMAIN Needs[c]})

VARIABLES
    now,         \* the clock
    status,      \* capability_grants: "ABSENT", "PENDING", "ACTIVE", "REVOKED"
    expiresAt,   \* capability_grants
    trail,       \* audit events, at most one row per id
    seq,         \* each process's counter of audit events
    pc,          \* where each call is
    local,       \* what it holds while it runs: see Fresh
    reply,       \* what the agent was told
    useless,     \* history: grants that were over when the call began
    cmd,         \* each CLI invocation: where it is, its grant, its time
    told         \* what the operator was told

callVars == <<pc, local, reply, useless>>
vars == <<now, status, expiresAt, trail, seq, callVars, cmd, told>>

Row(id, who, what, scopes) == [id |-> id, who |-> who, what |-> what, scopes |-> scopes]

\* INSERT OR IGNORE on the primary key <<trace_id, event_id>>.
Insert(row) == IF \E x \in trail : x.id = row.id THEN trail ELSE trail \union {row}

\* The authorize call it is in, the clock as effectiveAuthorization read it,
\* and of its audit event the outcome, the id and the effective scopes.
Fresh == [phase |-> 1, seen |-> 0, verdict |-> "none", id |-> <<>>, scopes |-> {}]

Idle == [at |-> "idle", grant |-> NoGrant, stamp |-> 0]

Init == /\ now = 1
        /\ status = [g \in Grants |-> "ABSENT"]
        /\ expiresAt = [g \in Grants |-> 0]
        /\ trail = {}
        /\ seq = [s \in Servers |-> 0]
        /\ pc = [c \in Calls |-> "idle"]
        /\ local = [c \in Calls |-> Fresh]
        /\ reply = [c \in Calls |-> "none"]
        /\ useless = [c \in Calls |-> {}]
        /\ cmd = [o \in Commands |-> Idle]
        /\ told = [o \in Commands |-> "none"]

----------------------------------------------------------------------------
(* The gateway.                                                            *)

\* ActiveGrants: approved, not revoked, not expired, of the session.
ActiveAnyTime(session, t) == {g \in Grants : /\ status[g] = "ACTIVE"     \* mutant of ActiveGrants
                                             /\ GrantSession[g] = session}
ActiveGrants(session, t) == {g \in Grants : /\ status[g] = "ACTIVE"
                                            /\ expiresAt[g] > t
                                            /\ GrantSession[g] = session}

Effective(session, t) == Bootstrap \union UNION {ScopesOf[g] : g \in ActiveGrants(session, t)}

Over(g) == status[g] = "REVOKED" \/ (status[g] = "ACTIVE" /\ expiresAt[g] <= now)

Goto(c, l) == pc' = [pc EXCEPT ![c] = l] /\ UNCHANGED reply

Return(c, r) == /\ pc' = [pc EXCEPT ![c] = "done"]
                /\ reply' = [reply EXCEPT ![c] = r]
                /\ local' = [local EXCEPT ![c] = Fresh]

Decide(c, v) == /\ local' = [local EXCEPT ![c].verdict = v, ![c].seen = 0]
                /\ Goto(c, "audit")

FromCall == UNCHANGED <<now, expiresAt, cmd, told>>

\* authorize: effectiveAuthorization reads the clock, the first time when the
\* call arrives ...
ReadClock(c) ==
    /\ \/ /\ pc[c] = "idle" /\ Asks[c] = NoGrant
          /\ useless' = [useless EXCEPT ![c] = {g \in Grants : Over(g)}]
       \/ /\ pc[c] = "clock"
          /\ UNCHANGED useless
    /\ local' = [local EXCEPT ![c].seen = now]
    /\ Goto(c, "resolve")
    /\ UNCHANGED <<status, trail, seq>> /\ FromCall

\* ... queries the grants, perhaps much later, and authorize compares: a
\* missing scope goes to the audit of a denial, a failing query nowhere.
Granted(c) == Needs[c][local[c].phase] \subseteq Effective(SessionOf[c], local[c].seen)
MoreInclusive(c) == local[c].phase <= Len(Needs[c])       \* mutant of More
More(c) == local[c].phase < Len(Needs[c])
Resolve(c) ==
    /\ pc[c] = "resolve"
    /\ \/ /\ Granted(c)
          /\ More(c)
          /\ local' = [local EXCEPT ![c].phase = @ + 1, ![c].seen = 0]
          /\ Goto(c, "clock")
       \/ /\ Granted(c)
          /\ ~More(c)
          /\ local' = [local EXCEPT ![c].seen = 0]
          /\ Goto(c, "load")
       \/ /\ ~Granted(c)
          /\ Decide(c, "denied")
       \/ /\ StoreMayFail
          /\ Return(c, "failed")
    /\ UNCHANGED <<status, trail, seq, useless>> /\ FromCall

\* The read of the tool: found, not found or failed (no audit), or, for
\* get_checkpoint, an item of another session (a denial).
Load(c) ==
    /\ pc[c] = "load"
    /\ \/ "found" \in Loads[c] /\ Decide(c, "allowed")
       \/ "foreign" \in Loads[c] /\ Decide(c, "denied")
       \/ "error" \in Loads[c] /\ Return(c, "failed")
    /\ UNCHANGED <<status, trail, seq, useless>> /\ FromCall

\* request_consent: the PENDING row.
Create(c) ==
    /\ pc[c] = "idle" /\ Asks[c] # NoGrant
    /\ \/ /\ status' = [status EXCEPT ![Asks[c]] = "PENDING"]
          /\ Decide(c, "requested")
       \/ /\ StoreMayFail
          /\ Return(c, "failed")
          /\ UNCHANGED status
    /\ UNCHANGED <<trail, seq, useless>> /\ FromCall

\* What a tool returns once its audit event is written, or is not: the error
\* of a denial's audit is ignored, any other fails the call.
AfterAuditUnchecked(c, written) ==                        \* mutant of AfterAudit
    CASE local[c].verdict = "allowed"   -> "served"
      [] local[c].verdict = "denied"    -> "denied"
      [] local[c].verdict = "requested" -> "requested"
AfterAudit(c, written) ==
    CASE local[c].verdict = "allowed"   -> IF written THEN "served" ELSE "failed"
      [] local[c].verdict = "denied"    -> "denied"
      [] local[c].verdict = "requested" -> IF written THEN "requested" ELSE "failed"

\* audit: the clock, the grants as they are by now, and the next number.
ShownLast(c) ==                                           \* mutant of Shown
    UNION {Needs[c][i] : i \in {local[c].phase} \intersect DOMAIN Needs[c]}
Shown(c) == Effective(SessionOf[c], now)
Audit(c) ==
    LET n == seq[ServerOf[c]] + 1
    IN  /\ pc[c] = "audit"
        /\ \/ /\ local' = [local EXCEPT ![c].id = <<SessionOf[c], now, n>>,
                                        ![c].scopes = Shown(c)]
              /\ seq' = [seq EXCEPT ![ServerOf[c]] = n]
              /\ Goto(c, "save")
           \/ /\ StoreMayFail
              /\ Return(c, AfterAudit(c, FALSE))
              /\ UNCHANGED seq
        /\ UNCHANGED <<status, trail, useless>> /\ FromCall

SaveAudit(c) ==
    /\ pc[c] = "save"
    /\ \/ /\ trail' = Insert(Row(local[c].id, c, local[c].verdict, local[c].scopes))
          /\ Return(c, AfterAudit(c, TRUE))
       \/ /\ StoreMayFail
          /\ UNCHANGED trail
          /\ Return(c, AfterAudit(c, FALSE))
    /\ UNCHANGED <<status, seq, useless>> /\ FromCall

Call(c) == \/ ReadClock(c) \/ Resolve(c) \/ Load(c) \/ Create(c)
           \/ Audit(c) \/ SaveAudit(c)

----------------------------------------------------------------------------
(* The operator's CLI.                                                     *)

At(o, l) == cmd' = [cmd EXCEPT ![o].at = l, ![o].stamp = 0]
Report(o, t) == At(o, "done") /\ told' = [told EXCEPT ![o] = t]
FromCLI == UNCHANGED <<now, seq, callVars>>

\* consent approve: GetGrant, which must be PENDING, then the prompt.
StartApprove(o) ==
    /\ cmd[o].at = "idle"
    /\ \E g \in Grants : /\ status[g] = "PENDING"
                         /\ cmd' = [cmd EXCEPT ![o] = [at |-> "prompt", grant |-> g, stamp |-> 0]]
    /\ UNCHANGED <<status, expiresAt, trail, told>> /\ FromCLI

Cancel(o) ==
    /\ cmd[o].at = "prompt"
    /\ Report(o, "cancelled")
    /\ UNCHANGED <<status, expiresAt, trail>> /\ FromCLI

\* The id is typed in; the time of the approval is that of this moment, not
\* of the transaction, which may have to wait for the database.
Confirm(o) ==
    /\ cmd[o].at = "prompt"
    /\ cmd' = [cmd EXCEPT ![o].at = "approve", ![o].stamp = now]
    /\ UNCHANGED <<status, expiresAt, trail, told>> /\ FromCLI

\* The transaction of ApproveGrant looks at the status again.
MayApproveUnchecked(g) == TRUE                            \* mutant of MayApprove
MayApprove(g) == status[g] = "PENDING"
Approve(o) ==
    LET g == cmd[o].grant
    IN  /\ cmd[o].at = "approve"
        /\ \/ /\ MayApprove(g)
              /\ status' = [status EXCEPT ![g] = "ACTIVE"]
              /\ expiresAt' = [expiresAt EXCEPT ![g] = cmd[o].stamp + TTL]
              /\ At(o, "approved")
              /\ UNCHANGED told
           \/ /\ ~MayApprove(g) \/ StoreMayFail
              /\ Report(o, "failed")
              /\ UNCHANGED <<status, expiresAt>>
        /\ UNCHANGED trail /\ FromCLI

AuditApprovalIgnored(o) ==                                \* mutant of AuditApproval
    LET g == cmd[o].grant
    IN  /\ cmd[o].at = "approved"
        /\ \/ trail' = Insert(Row(<<"grant_approved", g>>, g, "approved", ScopesOf[g]))
           \/ StoreMayFail /\ UNCHANGED trail
        /\ Report(o, "approved")
        /\ UNCHANGED <<status, expiresAt>> /\ FromCLI

\* recordConsentAudit, whose event id also holds the time of the change.
AuditApproval(o) ==
    LET g == cmd[o].grant
    IN  /\ cmd[o].at = "approved"
        /\ \/ /\ trail' = Insert(Row(<<"grant_approved", g>>, g, "approved", ScopesOf[g]))
              /\ Report(o, "approved")
           \/ /\ StoreMayFail
              /\ At(o, "compensate")
              /\ UNCHANGED <<trail, told>>
        /\ UNCHANGED <<status, expiresAt>> /\ FromCLI

\* RevokeGrant reads the row first; a missing or revoked one is an error.
CheckRevoke(o, next, error) ==
    \/ /\ status[cmd[o].grant] \in {"PENDING", "ACTIVE"}
       /\ At(o, next)
       /\ UNCHANGED told
    \/ /\ status[cmd[o].grant] \notin {"PENDING", "ACTIVE"} \/ StoreMayFail
       /\ Report(o, error)

\* UPDATE ... WHERE status <> REVOKED; no row changed is an error.
Update(o, next, error) ==
    LET g == cmd[o].grant
    IN  \/ /\ status[g] # "REVOKED"
           /\ status' = [status EXCEPT ![g] = "REVOKED"]
           /\ next
        \/ /\ status[g] = "REVOKED" \/ StoreMayFail
           /\ Report(o, error)
           /\ UNCHANGED status

\* The approval is taken back, and one message is printed of it, whether
\* RevokeGrant succeeded or not: "audit approval failed; grant revoked
\* (revoke error=...)".
Compensate(o) ==
    /\ cmd[o].at = "compensate"
    /\ CheckRevoke(o, "undo", "undone_with_error")
    /\ UNCHANGED <<status, expiresAt, trail>> /\ FromCLI

Undo(o) ==
    /\ cmd[o].at = "undo"
    /\ Update(o, Report(o, "undone"), "undone_with_error")
    /\ UNCHANGED <<expiresAt, trail>> /\ FromCLI

\* consent revoke.
StartRevoke(o) ==
    /\ cmd[o].at = "idle"
    /\ \E g \in Grants : /\ status[g] # "ABSENT"
                         /\ cmd' = [cmd EXCEPT ![o] = [at |-> "revoke", grant |-> g, stamp |-> 0]]
    /\ UNCHANGED <<status, expiresAt, trail, told>> /\ FromCLI

Revoke(o) ==
    /\ cmd[o].at = "revoke"
    /\ CheckRevoke(o, "update", "failed")
    /\ UNCHANGED <<status, expiresAt, trail>> /\ FromCLI

UpdateRevoked(o) ==
    /\ cmd[o].at = "update"
    /\ Update(o, At(o, "revoked") /\ UNCHANGED told, "failed")
    /\ UNCHANGED <<expiresAt, trail>> /\ FromCLI

AuditRevocation(o) ==
    LET g == cmd[o].grant
    IN  /\ cmd[o].at = "revoked"
        /\ \/ /\ trail' = Insert(Row(<<"grant_revoked", g>>, g, "revoked", ScopesOf[g]))
              /\ Report(o, "revoked")
           \/ /\ StoreMayFail
              /\ UNCHANGED trail
              /\ Report(o, "failed")
        /\ UNCHANGED <<status, expiresAt>> /\ FromCLI

Command(o) == \/ StartApprove(o) \/ Cancel(o) \/ Confirm(o) \/ Approve(o)
              \/ AuditApproval(o) \/ Compensate(o) \/ Undo(o)
              \/ StartRevoke(o) \/ Revoke(o) \/ UpdateRevoked(o) \/ AuditRevocation(o)

----------------------------------------------------------------------------
(* The surroundings.                                                       *)

Tick == /\ now < MaxTime
        /\ now' = now + 1
        /\ UNCHANGED <<status, expiresAt, trail, seq, callVars, cmd, told>>

\* A host restarts its MCP process, which takes longer than a millisecond:
\* open calls are lost and the counter starts again.
RestartServer(s) ==
    LET lost == {c \in Calls : ServerOf[c] = s /\ pc[c] \notin {"idle", "done"}}
    IN  /\ MayDie
        /\ now < MaxTime
        /\ now' = now + 1
        /\ seq' = [seq EXCEPT ![s] = 0]
        /\ pc' = [c \in Calls |-> IF c \in lost THEN "done" ELSE pc[c]]
        /\ reply' = [c \in Calls |-> IF c \in lost THEN "lost" ELSE reply[c]]
        /\ local' = [c \in Calls |-> IF c \in lost THEN Fresh ELSE local[c]]
        /\ UNCHANGED <<status, expiresAt, trail, useless, cmd, told>>

\* The operator interrupts a command.
KillCommand(o) ==
    /\ MayDie
    /\ cmd[o].at \notin {"idle", "done"}
    /\ At(o, "done")
    /\ UNCHANGED <<status, expiresAt, trail, told>> /\ FromCLI

Next == \/ \E c \in Calls : Call(c)
        \/ \E o \in Commands : Command(o) \/ KillCommand(o)
        \/ \E s \in Servers : RestartServer(s)
        \/ Tick

Spec == Init /\ [][Next]_vars

----------------------------------------------------------------------------
(* Properties.                                                             *)

\* Types and ranges: a call asks for no more scope sets than its tool does.
TypeOK ==
    /\ now \in 1..MaxTime
    /\ status \in [Grants -> {"ABSENT", "PENDING", "ACTIVE", "REVOKED"}]
    /\ expiresAt \in [Grants -> Nat]
    /\ \A x \in trail : x.who \in Calls \union Grants
    /\ seq \in [Servers -> Nat]
    /\ pc \in [Calls -> {"idle", "clock", "resolve", "load", "audit", "save", "done"}]
    /\ \A c \in Calls :
         /\ local[c].phase \in {1} \union 1..Len(Needs[c]) /\ local[c].seen \in 0..MaxTime
         /\ local[c].verdict \in {"none", "allowed", "denied", "requested"}
    /\ reply \in [Calls -> {"none", "served", "denied", "requested", "failed", "lost"}]
    /\ useless \in [Calls -> SUBSET Grants]
    /\ \A o \in Commands :
         /\ cmd[o].at \in {"idle", "prompt", "approve", "approved", "compensate", "undo",
                           "revoke", "update", "revoked", "done"}
         /\ cmd[o].stamp \in 0..now
    /\ told \in [Commands -> {"none", "cancelled", "approved", "undone", "undone_with_error",
                             "revoked", "failed"}]

Scopes(c) == UNION {Needs[c][i] : i \in 1..Len(Needs[c])}

\* docs/agent-interface.md: expiration and revocation block new calls.  Data
\* is only served for scopes of the bootstrap set or of grants of the call's
\* own session that the operator approved and that were neither revoked nor
\* expired when the call began, whatever happens while it runs.
ServedUnderLiveGrants ==
    \A c \in Calls : reply[c] = "served" =>
        \A s \in Scopes(c) \ Bootstrap :
            \E g \in Grants \ useless[c] :
                /\ s \in ScopesOf[g] /\ GrantSession[g] = SessionOf[c]
                /\ status[g] \in {"ACTIVE", "REVOKED"} /\ expiresAt[g] > 0

\* The grants live as GrantLifecycle says, whatever commands race for them:
\* a revocation that wins against a waiting approval, or loses against it,
\* is final, and no approval is repeated to prolong a grant.
Lifecycle == INSTANCE GrantLifecycle
               WITH Grants <- Grants, TTL <- TTL,
                    now <- now, status <- status, expiresAt <- expiresAt
ImplementsLifecycle == Lifecycle!Spec

HasRow(who, what) == \E x \in trail : x.who = who /\ x.what = what

\* docs/agent-interface.md: a read that cannot be audited fails.  An agent
\* that is given data, or the id of a requested grant, has its own event in
\* the trail.
ServedIsAudited ==
    \A c \in Calls : /\ reply[c] = "served" => HasRow(c, "allowed")
                     /\ reply[c] = "requested" => HasRow(c, "requested")

\* The two forms of the message that an approval was taken back.
TakenBack == {"undone", "undone_with_error"}

\* What the CLI reports has happened, but for what an error it prints with it
\* takes back: an approval and a revocation are in the trail; an approval
\* whose audit is said to have failed is not, and never will be, and it is
\* revoked if no revoke error is printed.  With a revoke error the same
\* message still says "grant revoked": see TakenBackIsRevoked.
ReportsAreTrue ==
    \A o \in Commands :
        LET g == cmd[o].grant
        IN  /\ told[o] = "approved" => HasRow(g, "approved") /\ status[g] # "PENDING"
            /\ told[o] = "revoked" => HasRow(g, "revoked") /\ status[g] = "REVOKED"
            /\ told[o] \in TakenBack => ~HasRow(g, "approved")
            /\ told[o] = "undone" => status[g] = "REVOKED"

\* The message of main.go:252 taken at its word: a grant whose approval
\* could not be audited is revoked when the operator reads "grant revoked".
TakenBackIsRevoked ==
    \A o \in Commands : told[o] \in TakenBack => status[cmd[o].grant] = "REVOKED"

\* docs/agent-interface.md: the audit metadata of a call contains the
\* effective scopes.  The event is filled at a later time than the decision it
\* records; still, a scope that allowed the call can only be missing from it
\* when a grant that gave the scope has come to its end since the call began.
AuditShowsAuthority ==
    \A x \in trail : x.what = "allowed" =>
        \A s \in Scopes(x.who) \ x.scopes :
            \E g \in Grants \ useless[x.who] :
                s \in ScopesOf[g] /\ GrantSession[g] = SessionOf[x.who] /\ Over(g)

=============================================================================
