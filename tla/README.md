# Timewarp in TLA+

Timewarp records what services do as events, keeps them in one SQLite file, and
lets an operator and an agent look at them afterwards: the agent through an MCP
server, under grants the operator gives and takes back, with checkpoints of the
files it is about to edit. This directory models the parts of it that run
concurrently or can be interrupted, checks them with TLC and proves theorems
about them with TLAPS. Paths below are relative to the repository.

## The system

| Component | State | Operations | What is hard |
|---|---|---|---|
| Collector (`internal/collector`) | budget `queuedEvents`, channel `queue`, `closing`, the writer's pending batches, counters | `POST /v1/events`, the writer `run`, `Close`, `GET /metrics` | many handlers, one writer, clients that leave, shutdown, kills |
| Event store (`internal/storage`) | table `events` | `Save`, `SaveBatch`, `GetTrace`, `Search` | one transaction for many clients, `INSERT OR IGNORE` |
| Grant store (`internal/storage`, `pkg/consent`) | table `capability_grants` | create, get, list, approve, revoke, active | several processes on one file, expiry |
| MCP gateway (`internal/agentmcp`) | bootstrap scopes, audit counter `seq` | `request_consent`, protected tools, `get_capabilities` | time passes between decision, read and audit; any statement may fail |
| Operator CLI (`cmd/timewarp`) | none | `consent`, `checkpoint`, trace commands | several statements per command, interrupted at will |
| Checkpoints (`internal/checkpointfs`) | tables `checkpoints`, `checkpoint_files`, and the workspace | capture, plan, revert | files and database cannot change together; the agent edits meanwhile |
| Causal graph (`internal/graph`) | none | `Build`, `ASCII` | result depends on map order |
| Replay (`internal/replay`) | map of recorded responses | manifest, mock server | handlers share the map without a lock |
| SDK and demo (`pkg/sdk`, `internal/demo`) | event counter | `Record`, spans | identity of events, timeout with unknown outcome |
| Skill installer (`cmd/timewarp/skill`) | directories of three tools | install, status | interrupted half way |
| VS Code extension (`extensions/vscode`) | handle of a child process | start, stop | exit callback of an earlier child |

They meet in three places. Services and the collector meet over HTTP: a client
is answered only after the writer saved its batch. Collector, MCP servers and
CLI meet only in the SQLite file; there is no message between them, and audit
events go to the `events` table beside everything else. Agent and CLI meet in
the workspace.

What makes each part correct, in a sentence: the collector loses no accepted
batch, keeps no refused one, leaks no budget and always shuts down; a grant
opens data only while it is in force, and whatever is opened or changed is in
the audit trail; a reversal restores the files or puts them back, and loses no
version of any of them but an edit that comes while it is at work; the graph and
the replay show what was recorded, as it was recorded; an install that reports
success is complete and one that fails spoils one target at most; the editor can
stop the collector it started.

## Modules

| Module | Models |
|---|---|
| `IngestContract` | abstract: what `POST /v1/events` promises its clients |
| `Collector` | handlers, writer, `Close` and kills; `Contract == INSTANCE IngestContract` |
| `CollectorMetrics` | `GET /metrics` beside `Collector`: one load after the other |
| `GrantLifecycle` | abstract: what can become of a grant, and in which order |
| `ConsentGateway` | MCP calls, consent commands, the clock, restarts; `Lifecycle == INSTANCE GrantLifecycle` |
| `CheckpointRevert` | checkpoint commands, the workspace, an editing agent |
| `CausalGraph` | `Build` under every order of its map, and `ASCII` |
| `Recording` | the SDK, the demo checkout and the store they record into |
| `ReplayServer` | concurrent requests on the mock server's map |
| `VerticalSlice` | `Recording`, `GetTrace` and `ReplayServer` together |
| `SkillInstaller` | `skill install` over several targets |
| `SkillStatus` | `skill status`, file by file, beside `SkillInstaller` |
| `EditorExtension` | the VS Code extension and the collectors it starts |
| `CollectorProofs`, `MetricsProofs`, `ConsentProofs`, `CheckpointProofs`, `CausalGraphProofs`, `SliceProofs`, `SkillProofs`, `EditorProofs` | inductive invariants and theorems |
| `MC...` | small instances of each for TLC |

A definition whose comment ends in `mutant of X` is not part of the model: it
is a plausible mistake in `X`, placed before it, and each property is known to
fail when `X` is replaced by one of them.

### Collector

One element of `Requests` is one call of `ingest` (collector.go:139-224), and
`pc` is where it stands between two points at which others can notice: the
counters before and after validation, one addition a step (`Receive`,
`CountEvents`, `CountBucket`, `Validate`), `reserve` (`Reserve`),
`queueMu.RLock` (`RLock`, `Refuse`), the select around the send (`Send`,
`CancelSend`, `Abandon`) and the select around the verdict (`Await`, `Leave`). A
`select` with several ready cases takes any, so both branches are always open
and a departing client is simply the choice of the second. Go's `RWMutex` holds
back readers while a writer waits, hence `RLock` is disabled while `closer =
"locking"`.

The writer (collector.go:84-129) is `Dequeue`, `Tick`, `Drain` for its
select, and `SaveOk` or `SaveFail`, then `Reply` and `Release` per batch for
`flush`. `Close` is three steps: asking for the lock, setting `closing` and
closing the channel under it, and waiting for `done`. `Crash` kills the process
at any step and starts it again on the same file; `serve` ends in `log.Fatal`
(main.go:295), so its deferred `Close` never runs and a kill is how the program
stops. Events are values with a key, and `Inserted` is `INSERT OR IGNORE` over
a whole flush.

`CollectorMetrics` adds one scrape. The counters are atomic one by one and
`snapshot` (collector.go:262-289) loads them one by one, so the numbers are of
no one moment; two orders make them add up, that of the loads, rejections and
histogram before the totals, which is `LoadOrder`, and that of the additions,
the events before their bucket (collector.go:175-176).

Left out: payloads, the HTTP status text, `/health`, the 2 MiB body limit (a way
to be in `Malformed`).

### ConsentGateway

A call goes `ReadClock`, `Resolve` (once or, for `get_trace` with payloads,
twice), `Load`, `Audit`, `SaveAudit`; `request_consent` goes `Create`, `Audit`,
`SaveAudit`. The clock and the query of `effectiveAuthorization` are separate
steps, since a decision can rest on an old clock. `local` holds what the handler
keeps in variables and is reset when it returns. The commands are
`StartApprove`, `Cancel`, `Confirm`, `Approve`, `AuditApproval`, `Compensate`,
`Undo` and `StartRevoke`, `Revoke`, `UpdateRevoked`, `AuditRevocation`;
`RevokeGrant` is two steps because it reads the row outside its `UPDATE`, and
the compensation of an approval goes through the same two. `Confirm` is where
the clock is read, so that a grant can be approved late and expire early
(`stamp`). `told` is the message printed: an approval that is taken back reports
`undone`, or `undone_with_error` when the revocation failed. `trail` is the part
of `events` that is the audit trail, with the primary key that `Insert`
respects. `useless` is a history variable: the grants that were over when a call
began. Grant ids are random and taken never to collide.

`GrantLifecycle` sees the clock, the status and the expiry of each grant: it is
requested, approved and revoked at most once each, one atomic step at a time.
That the gateway and the CLI implement it is not plain from the code: `Create`
does not look whether the id is taken, `RevokeGrant` reads the status before its
`UPDATE`, and the compensation of an approval runs after another transaction.

Left out: `get_capabilities`, `list`, validation of input, redaction, and what
the tools read (an outcome per call: found, not found or failed, or another
session's checkpoint).

### CheckpointRevert

Each CLI invocation is an element of `Commands`, which also names the
checkpoint it creates. `Plan`, `Confirm`, `CaptureOne`, `Insert` are the way to
`applyFiles`, which is `Delete`, or `SetAside` and `PutInPlace` for the two
renames of `replaceRegularFile`, per file in the order of paths; the labels
`apply` and `swap` go forward from the checkpoint, `undo` and `unswap` back from
the safety checkpoint. `Fail` is any error of it; `Mark` is
`MarkCheckpointReverted`. A file is a version (content and mode) or `Absent`.
`captureOne` is one step because of the two `Lstat` around its read. `touched`
is a history variable: who else wrote to the files of a reversal since it
started.

Left out: path checks and size limits, which are ways to fail, and the
temporary files that stay behind after a kill.

### CausalGraph

`Build` ranges over a Go map in each of its loops, and each `range` has an order
of its own. `loop` is the loop that runs, `todo` the nodes it has not visited,
and every step takes any of them: `Duplicate`, `Link`, `Visit` and `Sort`. What
runs within such a step over the children of a node, or calls itself, has
frames on `stack`, each a node and the children it has still to go through:
`VisitChild` for the closure `visit` (graph.go:53-67), whose marks are `state`,
`Compare` for the loop that looks for children before their parent, and `Show`
for the closure `walk` of `ASCII`; `Return` ends any of them. `Leave` goes to the
next loop. The properties define loops, roots, children and orphans from the
list alone and compare; `Ancestors` is what is in every set closed under
`Parent`, and not a recursion, so that it can be reasoned about. Ids and times
are numbers, which are compared as the code compares texts and times: any two,
one way. Left out: the text of a line.

### Recording, ReplayServer, VerticalSlice

A slot is one call of `Record`: `<<c, "client">>` and `<<c, "server">>` for a
checkout, `<<p, "span">>` for another program with an SDK client of its own.
`Begin`, `Call`, `Pay`, `RecordServer` and the two early returns `BodyFails` and
`PayBroken` are the handler (demo.go:52-123); the server event is recorded after
its child, although its id is drawn first. `Post`, `Save` and `GiveUp` are
`Record` and, of the collector, what `IngestContract` promises: an event that
was sent is saved at some time or never. `Save` stands for the commit and the
202 in one step; what lies between them `Collector` shows. A span of the other
program is recorded in one step. Event ids are pairs of a millisecond and a
counter; what matters is that the handler and the SDK count separately and both
write `evt_<ms>_<n>`.

`ReplayServer` holds, for one method and URL, where the rest of the recording
starts and how long it is. The write of the map entry is not atomic: while it
lasts, an access may stop the process (`Fatal`) or see any mix of the old and
the new slice. `VerticalSlice` puts the two together with `GetTrace`, whose
`ORDER BY timestamp, event_id` compares the counters as text (`TextLess`).

### SkillInstaller

The skill is two files, `SKILL.md` and `agents/openai.yaml`, and a name somebody
else may leave, `SKILL.bak`; each file has a version or is truncated. A command
goes through its targets with `Stat`, `RemoveAll` file by file, `MakeDir`,
`Open` and `Fill` per file and `Readback`; `agents/` is listed only when the copy
gets there, so `MakeDir` takes either list, and `CopyEmpty` is an `agents/` that
is found empty. `Open` truncates before anything is read, so a file copied onto
itself is lost. `Fails` is an error of any system
call or a kill, after which nothing is undone. `findRepoRoot` (main.go:354-386)
takes the first directory that holds the skill, also an agent's own, so `src`
may be one of the targets. `edited`, `found`, `changed` and `touched` are
history: what existed when a command began, who changed what since.

`SkillStatus` runs `Status` beside all this: the source is hashed, then a target,
file by file (`Read`), with a directory or file that is gone as `WalkFails`,
whose hash is the empty one. As it only reads, the model follows it to one
target. `st.touched` is a history variable: which of the two places changed since
status looked at it.

### EditorExtension

`collector` is the handle, `killed` Node's flag of a child that was sent a
signal, `proc` the processes, `watched` the exit callbacks that have not run.
Callbacks of the extension run to completion, so `StartCollector`,
`StopCollector` and `OnExit` are one step each; `Bind`, `Die` and `Crash` are
the processes. `deactivate` is empty, hence `Reload` leaves the process alone.
Left out: the list of traces and its panels, which only read and display.

## Runs

| Run | Bounds | Shows |
|---|---|---|
| `collector` | 3 requests of 1, 1 and 2 events, capacity 2, 1 kill, `FairSpec` | `TypeOK`, `AcceptedIsDurable`, `RefusedIsNotPersisted`, `ReservationConserved`, `SendIsReady`, `DrainedAtExit`, `FlushIsPrompt`, `EveryBatchIsCounted`, `ImplementsContract`, `EveryRequestEnds`, `CloseReturns` |
| `collector_metrics` | 4 requests: undecodable, empty, three events of which one is invalid, ordinary; one scrape | `ScrapeAddsUp` |
| `consent_gateway` | 3 calls of 2 sessions, 1 grant, 2 commands, 2 ms, TTL 1 ms, failures and kills | `TypeOK`, `ServedIsAudited`, `ReportsAreTrue`, `ServedUnderLiveGrants`, `AuditShowsAuthority`, `ImplementsLifecycle` |
| `checkpoint_isolated` | 2 commands, 2 files, 2 versions, 2 edits at any time, failures | `RevertRestores`, `PlanIsFollowed`, `FailureIsCompensated` |
| `checkpoint_concurrent` | 3 commands, 1 file, 2 versions, 2 edits between reversals, failures and kills | `TypeOK`, `RevertedIsUndoable`, `OverwritesAreKept` |
| `causal_graph` | every list of 2 or 3 events with 3 ids, 4 parents and 2 times, every parent relation of 4 events | `LoopsAreReportedOnce`, `ShownUnlessLooped`, `GraphIsOfTheList` |
| `vertical_slice` | 2 checkouts and a span of one trace, counters from 7, 2 ms, 2 replayed requests, `SFairSpec` | `TypeOK`, `AcceptedUnlessIdTaken`, `OrphansAreUnfinished`, `SerialReplayIsExact`, `NoneIsSkipped`, `ReplayKeepsCallOrder`, `CheckoutReturns` |
| `skill_installer` | 2 commands, 2 targets, and beside them 1 change by another program or 1 run of `status`, failures and kills; `SPECIFICATION StatusSpec` | `SuccessIsComplete`, `OneTargetAtRisk`, `NothingIsLostUnforced`, `CurrentIsComplete` |
| `editor_extension` | 4 collectors, 1 reload, `FairSpec` | `RunningIsReachable`, `HandleIsCleared` |

The bounds are the smallest at which what the properties are about happens. A
capacity of 2 against batches of 1, 1 and 2 lets the small ones in together,
fills the budget exactly, turns one away, and flushes one or two batches at
once; requests share the key `k1` with two different events, so that rows are
contested within a flush and between flushes. In `consent_gateway` the clock
goes from 1 to 2 with a TTL of one: a grant confirmed at 1 expires while a call
reads under it in two `authorize` calls, and one confirmed at 2 does not; two
commands are two approvals of one grant, two revocations, or one of each, and
the compensation of an approval races like a revocation. Longer clocks and more
commands are left to the proofs, which bound neither. Two files are
needed for a reversal that fails between them, three commands for two reversals
of one checkpoint or the reversal of a reversal. Three events with free ids
have every kind of duplicate and orphan, four have a loop with events below it
and two loops at once. The counters of `vertical_slice` start at 7 because two
checkouts draw four numbers and 9 and 10 compare the other way round as text;
two milliseconds let calls share one and differ. Its replays are bounded
further: they start when the recording's time is over and every `Record` has
returned without an error, since one that failed only takes its row away, which
a payment that cannot be reached does as well. Two targets are one done and one
not; of the commands, one may run while the other does. Other programs write to
`SKILL.md` only (`EditedFiles`), or rename a file, once; `status` takes the place
of that change (`MaxOthers`), begins when one command at most has not ended
(`MaxBeside`) and no change of others is under the one at work: what it meets is
the result of any two commands, overlapping or interrupted, and then one of them
going on. No proof uses these bounds. Four collectors allow a
start after a start that overtook an exit.

`CHECK_DEADLOCK FALSE` is set where calls, commands and edits are finitely many
and the system rightly stops; the Collector has `Terminated` and the graph
`Done` for that, and both are checked for deadlock.

Three runs refute what a document or message of the repository says; each is a
finding in `PROJECT.json` with the line it is about:

| Run | Refutes |
|---|---|
| `consent_taken_back` | the message "audit approval failed; grant revoked" (main.go:252): it is also printed when the revocation failed, and the grant is then in force, without an event |
| `consent_two_servers` | a read that cannot be audited fails: two processes that serve one session make the same event id and one event is dropped |
| `checkpoint_two_reverts` | a reversal reported as done stays done: one that is refused late rolls back over it |

The passing properties draw a line around more such cases instead of refuting
them:

- An event of an allowed call lacks a scope when the grant ended between
  decision and audit (`AuditShowsAuthority` allows just that).
- The audit of a denied call may fail and its error is dropped (server.go:355),
  though docs/agent-interface.md:81 counts on every call being audited:
  `ServedIsAudited` is about what was handed out.
- A plan is exact only while nobody writes to its files (`PlanIsFollowed`), and
  an edit between the safety capture and the replacement (service.go:148-155)
  is in neither checkpoint: `checkpoint_concurrent`, which checks
  `OverwritesAreKept`, has no edit while a reversal is at work.
- A kill between the commit of an approval and its event leaves a grant in
  force without one: `ReportsAreTrue` is about what the operator was told, and a
  killed command has told nothing. Of an approval taken back with a revoke error
  it says only that no event of the approval is in the trail.
- Which event of a loop is reported, and in which order diagnostics stand,
  depends on the map, though docs/architecture.md:13 calls the reconstruction
  deterministic: `LoopsAreReportedOnce` allows any event of the loop.
- An accepted event is not stored when the id is taken by another counter's
  event of the same trace and millisecond (`AcceptedUnlessIdTaken`).
- A checkout whose server event was not accepted leaves its child an orphan
  (`OrphansAreUnfinished`).
- Requests to the mock server that overlap may get one response twice, and the
  process may be stopped by the runtime (`SerialReplayIsExact`, `NoneIsSkipped`).
- With `--force` a source that is itself a target is removed before it is read
  (`NothingIsLostUnforced` says that the command then fails), and what another
  install puts at a target after the `Stat` is overwritten without it
  (`NothingIsLostUnforced` leaves out targets others touched).
- `status` prints "no" under DIVERGENT also for a target it cannot hash, because
  another command is removing it or a file cannot be read (installer.go:304-309):
  `CurrentIsComplete` is about a "no" that rests on a hash. Nor does `status`
  notice a file that was renamed without changing the order of the files:
  `CurrentIsComplete` excludes other programs' changes.
- A start that overtakes the exit of a stopped collector makes the new one
  unreachable for Stop (`RunningIsReachable` excludes `hurried` starts).

### Fairness

`collector`: `FairSpec` gives weak fairness to each handler step that is not the
client's choice, to the writer, and to the second and third step of `Close`.
Go's scheduler runs goroutines that can run; the ticker ticks forever and is
only stopped when the writer returns; `SaveBatch` returns because `busy_timeout`
is 5 s. Weak fairness is enough: `RLock` is disabled only while `Close` waits
for readers that all leave by themselves, and it stays enabled afterwards.
Arrivals, departures, the call of `Close` and kills are not fair.

`vertical_slice`: a checkout's goroutine runs on, and both HTTP clients have a
timeout of two seconds (demo.go:31, client.go:27), so a call to the payment
service ends and `Record` returns. The collector and the payment service need
never answer, and the body of a request may never come: `CheckoutReturns` begins
at the call.

`editor_extension`: the event loop runs the callbacks that are due, and the
operating system lets a started process run and delivers a signal. The user and
crashes are not fair.

## Proofs

Each proof module extends the module it is about, and no theorem bounds what the
runs bound: there are any sets of requests, calls, commands, files, targets and
processes, any lists of events under any order of the map, and any number of
kills, failures, edits and clock ticks.

| Module | Proves | Invariant |
|---|---|---|
| `CollectorProofs` | `TypeOK`, `AcceptedIsDurable`, `RefusedIsNotPersisted`, `ReservationConserved`, `SendIsReady`, `DrainedAtExit`, `FlushIsPrompt`, `ImplementsContract` | `IInv` |
| `MetricsProofs` | `EveryBatchIsCounted`, `ScrapeAddsUp` | `MInv` |
| `ConsentProofs` | `ImplementsLifecycle`, `TypeOK`, `ServedUnderLiveGrants`, `AuditShowsAuthority`, `ReportsAreTrue`, `ServedIsAudited` | `GInv`, `CInv`, `AInv` |
| `CheckpointProofs` | `TypeOK`, `RevertedIsUndoable`, `RevertRestores`, `PlanIsFollowed`, `FailureIsCompensated`, `OverwritesAreKept` | `RInv`, `KInv` |
| `CausalGraphProofs` | `LoopsAreReportedOnce`, `ShownUnlessLooped`, `GraphIsOfTheList`, and `GraphIsUnique` | `Inv` |
| `SliceProofs` | `TypeOK`, `AcceptedUnlessIdTaken`, `OrphansAreUnfinished`, `SerialReplayIsExact`, `NoneIsSkipped`, `ReplayKeepsCallOrder` | `RecInv`, `Counted`, `ReplayInv` |
| `SkillProofs` | `SuccessIsComplete`, `OneTargetAtRisk`, `NothingIsLostUnforced`, `CurrentIsComplete` | `SkillInv`, `EditInv`, `StatusInv` |
| `EditorProofs` | `RunningIsReachable` | `EInv` |

Two theorems have a hypothesis. `ServedCallsAreAudited` assumes
`OneServerPerSession`, which nothing in the code enforces; the run
`consent_two_servers` shows that the property fails without it.
`OverwritesAreHeld` assumes `~EditsAnyTime`, no edit while a reversal is at
work, as its run `checkpoint_concurrent` does; an edit in that window is in no
checkpoint (see above). All others need only the assumptions on constants that
the modules name, which TLC evaluates in every run: positive capacity and time
to live, finite sets where the code counts or iterates, ids that are distinct
(grant ids are random), counters below a million, lists that are lists, `NoX`
values that are none of their kind.

### The Collector

None of the properties is inductive. That no batch is refused and persisted
rests on where a batch can be: a handler in `waiting` has put it in the channel
or in the hands of the writer, it is in one of these once, and a batch that
waits there is not committed. That the budget is conserved rests on the same,
and on batches having at least one event; that a send finds room rests on the
budget, since each queued batch and the one about to be sent hold at least one
event of it. `IInv` therefore is the conjunction of

- `Types`: ranges, without the bounds that need counting;
- `Placed`: queue and pending batches have no duplicates and are disjoint, and
  their handlers wait or have gone;
- `Ordered`: a handler with the read lock keeps `Close` from closing, a writer
  that returns has an empty, closed channel;
- `Decided`: what is pending is neither committed nor answered, the verdict of a
  flush is that of its transaction, answers follow verdicts;
- `AllStored`: the keys of committed batches have rows;
- `Counted`: `queuedEvents` and `eventCount` are cardinalities of the sets of
  events of the batches that hold a reservation, or are pending.

Counting is done with sets of items `<<request, position>>`, so that a step that
moves a batch changes the set by the items of one request, and the library's
facts on finite sets give the sums. Each part has its lemma with one step per
action; `CollectorInvariant` puts them together, and each property follows from
`IInv`, the refinement step by step. `CollectorKeepsFirst`, that no step replaces
a row of the events table, has no run of its own: `ImplementsContract` covers it.

`MetricsProofs` keeps an account of batches. `Surplus` is what the counters have
received less what they have decided, plus the empty batches, less the batches
under way. Every step of handlers and writer leaves it alone but `Abandon`,
which adds one batch to `Uncounted` and to it: that is `EveryBatchIsCounted`. A
kill resets the counters and makes the surplus the number of empty batches, so
it is never negative, and that is what a scrape needs: there are never more
rejections than batches received. `HistogramCounted` does the same for the
buckets, where `Counting` are the batches received but in no bucket and
`Bucketing` those of them whose events are counted: the least number of events
the buckets stand for, and the events of `Bucketing`, are at most
`eventsReceived`. With the bucket counted first (`BucketFirst`) that is false,
and so is `ScrapeAddsUp`. `Scraped` then compares what has been loaded with what
the counters are now: counters only grow, so a load never exceeds its counter,
and when `received` is loaded after the rejections and the histogram it is at
least what they showed. With another `LoadOrder` that step fails, as the mutant
does. The sums of `ScrapeAddsUp` are written out, since a sum over a set is a
recursion about which nothing can be proved here.

### The MCP gateway and the consent commands

`ConsentProofs`: the steps of `GrantLifecycle` need what the code does not look
at, and `GInv` supplies it. A call that has not begun has not created its grant
(the id is its own, which `CallAssumption` states of the random ids), and a
command past its first step works on a grant that is there. One lemma per action
shows that it is one step of `GrantLifecycle`, or none, and keeps `GInv`.

The safety properties use that grants only move forward, which the refinement
gives for every step (`GrantsMove`). `CInv` has a part per call, per command and
per row of the trail, each about its own variables and about what can no longer
change: that a decision was taken under grants live at a time between the
clock's reading and now, that a row names scopes the call then had, that a
command past its transaction has made the grant what it says, that an approval
whose audit failed has no event, and that the time an approval confirmed at has
passed (`StampHasPassed`). A step of one
process leaves the parts of the others to `GrantsMove`. `AInv` is about event
ids: what a process has drawn lies behind its clock and its numbers (`Drawn`),
also after a restart, so the id of the next event is free.

### Checkpoints

`RInv` says of each command what it has to show at its label: `StageOK` which
checkpoint rows exist and what it has captured or planned, whoever else is at
work; `DataOK` how that relates to the workspace for as long as `touched` names
nobody else, among it that files already dealt with hold the target's content,
or on the way back the safety checkpoint's; `SafetyOK` which checkpoint a reverted
one names. A write by anyone shows in `touched`, so of the others' steps only
those that leave a reversal's files alone matter to `DataOK`. `KInv` has what
`OverwritesAreKept` needs across reversals of the same files: while a reversal
is at work, what is at each of its files and what it has renamed aside is held
by some checkpoint, not always its own, since another reversal may have put it
there.

### The causal graph

A node has one parent, so the frames of `visit` are a chain of parents, and the
one open node the search can come to is the one it began with (`OpenIsStart`):
what is reported lies on a loop. That no loop is missed, or reported again, is
less plain, as loops are found from wherever the map's order begins. `Inv` is

- `Types` and `Shape`: roots and children are the nodes linked so far, each
  once, and in order once sorted;
- `Calls`: frames have different nodes, and what waits in them are children of
  their node, so each node waits once at most;
- `Diagnosed`: duplicates, orphans and early children are reported once when
  their turn was, and not before;
- `Marks`: the open nodes are those with a frame, and a child its parent's loop
  has passed (`Past`) was visited;
- `LoopsInv`: each loop is untouched, or closed and reported, unless the search
  under way began on it; then it is reported as soon as the first node is `Past`;
- `Walked`: a node has a line exactly when its parent has, or it is a root, and
  it no longer waits; lines are never of a loop.

A search that comes to a loop has begun on it, since whatever is above a loop's
event is on the loop (`LoopIsClosed`). When that search returns from its first
node, some event of the loop would otherwise be unvisited, and so would its
parent, which its loop has not passed, and on to the first node itself: so the
first node is `Past`, and the loop is reported (`ReturnFinds`). When the walk
ends nothing waits, so every event that was not printed has a parent that was
not, and in a finite set such a chain comes round: `NoRootNoEnd`, by an event
with the fewest ancestors. That `sortNodes` has an order to bring about is
`OrderExists`, and `OrderIsUnique` that it has one only: hence `GraphIsUnique`,
that Build ends with the roots and children that every other run over the list
ends with. Only which event of a loop is reported, and where the reports stand,
is the map's choice.

### Recording and replay

`RecInv` is about numbers: each counter gives a number once, a slot keeps its
event from its first `Post`, and a checkout's server event has the time the
checkout began with, which is before any of its calls. `Counted` bounds the
counters by the slots that have drawn. `ReplayInv` is about the slice: without an
overlap the rest of the recording is what has not been served (`Serial`), and
with overlaps that raced with no write everything before the slice was taken
(`Quiet`). That the rows of a trace have an order by time and text, in one way
only, is `SortedListExists`, by which the `CHOOSE` of `GetTrace` is a list; that
the order of texts is one, and among numbers of one length that of the numbers,
are `TextOrder` and `TextOrderOfOneLength`. `TextLess` compares up to six digits,
hence `CountersAssumption`: counters stay below a million.

### Skill installer and editor

`SkillInv` says of each command what is at the places it has dealt with and
nobody else touched. Who changes a place takes it out of everyone else's
invariant by `touched`. `EditInv` is about directories no other program edited:
interrupted and overlapping copies leave each file whole in one of the versions
there are of it, truncated, or missing, and of these only the source's own files
give its hash. `StatusInv` adds the run of `status`: what it has read is what is
there, as long as nobody changed the place (`WalkOK`), so that equal hashes are
equal contents when it prints (`ShownOK`). `OneTargetAtRisk` compares with the
skill as it was when the command began (`cmd[p].skill`).

`EInv`: while the handle holds a child, no other exit is unreported, unless a
start was hurried; so the callback that clears the handle clears its own.

### Only model-checked

`RevertHolds` and `TakenBackIsRevoked` are refuted by their runs, so there is
nothing to prove.
`EveryRequestEnds`, `CloseReturns`, `CheckoutReturns` and `HandleIsCleared` are
liveness, out of the prover's reach. Everything else the runs check is a theorem.

## Not modelled, and the plan

Not modelled, because nothing in it changes state or races: `/health`,
`get_capabilities`, `ListGrants`, `ListCheckpoints` and `Search` (a property of
their filters and limits would restate the SQL), `BuildManifest`, the listing,
inspection and export commands, argument parsing, redaction and HTML, and the
display of the VS Code extension. `ghostwire` is a document without code.

Abstracted: a collector binary that cannot be run leaves a handle
until Stop, and the wall clock never goes back.

To come, shorter proofs: `NextTypes`, `NextDecided` and `NextCounted` of
`CollectorProofs`, `FillKeeps` and `EditCopies` of `SkillProofs` and
`LoadScraped` of `MetricsProofs` hold arguments that lemmas could state once.
