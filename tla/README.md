# TLA+ model of the Nexus task runner and its server

This directory is a verification project for `src/knowledge-service`, the server
and the island runner of the repository. It models the part whose failures are
silent and whose tests cannot order events: the **runner that hands mailbox
tasks to agent terminals** (`src/knowledge-service/src/runner`), the **server's
register of claims, queue and receipts** it works against, the **watch that
retries and escalates tasks** that nobody finishes, and the **review of DONE
messages** by other agents.
Paths below are relative to `src/knowledge-service/src` unless they say otherwise.

Contents: [inventory](#1-inventory), [plan](#2-plan), [modules](#3-modules-and-how-they-correspond-to-the-code),
[runs](#4-runs), [bounds](#5-bounds), [fairness](#6-fairness),
[proofs](#7-proofs), [findings](#8-findings), [not modelled](#9-what-is-left-out-and-why).

## 1. Inventory

| component | state it keeps | operations | talks to |
|---|---|---|---|
| **Attached session manager** `runner/attachedSession*.ts`, `attachedDispatch.ts`, `attachedRestartPolicy.ts`, `attachedStartupTimeout.ts`, `attachedDeadlines.ts`, `attachedStableIdle.ts`, `attachedCompletionReceipt.ts` | per terminal a `RuntimeSession`: state, tracked PTY, generation, task, receipt, completion gate, readiness promise, startup/restart/stability timers, restart budget, cleanup ledger; one `shuttingDown` flag | `ensureReady`, `dispatch`, `acknowledgeCompletion`, `reconcileMarker`, `acknowledgeStableIdle`, `auditDeadlines`, `cancel`, `shutdown`; PTY output and exit; three timers; continuations of `spawn()` and `kill()` | PTY host (promises, callbacks), marker store (synchronous), called by poll loop, pump, `main`, coordinator |
| **Marker store** `runner/attachedTaskMarkerStore.ts` | one marker file per terminal, a sticky set of indeterminate terminals | `load`, `save` (three phases), `clear` | the disk, called by the manager |
| **Completion pump, cursor store** `runner/attachedCompletionPump.ts`, `completionCursorStore.ts` | the round in flight; the durable cursor per stream | `pumpOnce` = pages, idle proof, deadline audit; `advance` | server (awaited fetches), manager |
| **PTY host** `runner/ptyHost.ts`, `pty*.ts`, `earlyPtyEventHandoff.ts` | native processes, pending unwinds of late spawns, their failures | `spawn` with a hard deadline, `kill` (memoised), `drainPendingSpawnUnwinds` | operating system |
| **Poll loop** `runner/pollLoop.ts`, `processedStore.ts`, `dispatchGate.ts`, `backlogQuarantine.ts` | launch records (durable), the tick in flight, the gate's grants and lock directory | fetch unread, claim, launch, release, record, quarantine, consume | server, sink, disk |
| **Start and shutdown** `runner/main.ts`, `runnerLifecycle.ts`, `sinkFactory.ts`, `terminalSinkRouter.ts` | coordinator phase, grace deadline, failures, exit code | assemble, `begin`, stop ingress, shut sinks down, exit | all of the runner |
| **Headless launcher** `runner/sessionLauncher.ts`, adapters | active child per terminal, active marker file, session timeout | launch, output, exit, timeout, cancel, cancelAll | operating system |
| **Server claims, queue and receipts** `pipeline/terminalContextStore.ts`, `pipeline/epicRouter.ts`, `pipeline/completionReceiptStore.ts`, `interfaces/http/routes/mailbox.routes.ts`, `epic-router.routes.ts` | one context row per terminal (task, island, epic, status), the task queue, inbox status lines, receipts with increasing sequence | claim (compare-and-set), release, complete + receipt (one transaction), acknowledge, queue, route, dispatch, file DONE, direct assignment | SQLite, inbox files, runner over HTTP, agents over MCP, session starter and project dispatcher in the same process |
| **Subscriptions and escalation** `pipeline/subscriptionManager.ts`, `subscriptionTools.ts`, `taskEscalation.ts`, `nightwatch.ts`, `interfaces/http/routes/escalationRoutes.ts` | in memory: subscriptions with expiry, escalation records by subscription id | subscribe, unsubscribe, cleanup timer, escalation watch (retry, renew, tell root), resolve | message registry, inbox files, tmux, timers |
| **Review of DONE messages** `pipeline/watchers/watchDone.ts`, `pipeline/terminalReviewer.ts`, `pipeline.ts`, `common.ts` (the state file), `nightwatch.ts` | marks in the state file all watchers share; one tmux session per reviewer, by a fixed name | nightwatch cycle, light, standard and strict review, reject notice, archive | message registry, inbox files, tmux, agents |
| **Task message box** `task-message-box/` | message status, history | create, read, complete, transition | SQLite, files |
| **Dispatch control** `dispatch-control/` | budgets, windows, proposals | check, consume, propose, approve | SQLite |
| **Locks and retries** `pipeline/processLock.ts`, `pendingRetries.ts` | lock files, retry queue file | acquire, release, clean up; add, next, success, failure | disk, several processes |
| other pipeline, workflow, mailbox, conductor, knowledge graph, Telegram, code generation, HTTP/MCP, auth | see `PROJECT.json`, "components" | | |

**Interactions.** The poll loop fetches unread tasks, claims one at the server and
calls the sink's `dispatch`, which for an attached terminal writes a durable
marker, types a *nudge* (the message id, never the task text) into a live PTY and
marks the marker `written`. The agent works, and calls the server's completion
endpoint, which commits a receipt. The pump fetches receipts past its cursor and
offers each to the manager, which completes the marker and moves the terminal to
`draining`; a stable-idle proof clears the marker and makes the terminal `ready`.
Exits, crashes, failed writes and failed kills cut through all of this; the
marker and the receipts are what a later boot has to go by.

**What is hard.** JavaScript runs one handler at a time, but every `await`
(spawn, kill, fetch, readiness, stops of a shutdown) lets timers, PTY callbacks,
the pump, the poll loop, an operator's cancel and a shutdown in. The process can
die between any two file operations. Failure of a file write leaves one of
several contents. `kill()` is memoised and several continuations wait on it in
registration order. Spawns can answer after their deadline. `PROJECT.json`,
"hazards", lists each such place with the line where it bites.

**What makes each component correct.**

* manager: a task is typed at most once until it is completed, and never forgotten; a
  terminal is freed only by a receipt of its task; a cancelled or shut down terminal stays down; no
  process tree and no kill failure drops out of the books; no state that waits for
  something waits for ever.
* marker store: a failed write never reads as "free".
* pump: the cursor never passes a receipt the terminal still needs; a late page
  does nothing the manager would not do by itself.
* claims: only the owner ends a claim; the claim route and the queue's router agree
  on which terminal is free; a completion is recorded once, with a number of its own.
* poll loop: a session works under a claim of its island, a claim won too late is
  given back, a launch is not repeated beyond its attempts, a grant serves one launch.
* shutdown: it ends by itself, and leaves no claim nobody works on.
* escalation: root hears of a stuck task after its retries and once; a task that is
  done is no longer watched.
* review: the verdict a DONE gets was given for it; a notice of a rejection is not lost.

## 2. Plan

Order of importance; 1 to 8 are done.

1. `TaskSlot` (abstract: what a terminal promises to tasks), `AttachedSession`
   (manager, marker store, PTY host, crash and boot), run `session_safety`.
2. `AttachedRunner` composes it with the pump and the cursor, runs `runner_progress`,
   `parked_for_ever`; `AttachedCursor` relates cursor and marker, run `runner_safety`.
3. `AttachedSessionTypes`, `AttachedSessionProofs`: type correctness, the marker's
   inductive invariant, refinement of `TaskSlot`.
4. `TaskClaims`: the server's claim register, queue, completion transaction and
   routes, with any clients; `TaskClaimsProofs`.
5. `RunnerDispatch` composes the poll loop, the launch store, the dispatch gate,
   headless sessions and the shutdown coordinator with `TaskClaims`.
6. `TaskEscalation`: subscriptions, retries and escalation; `TaskEscalationProofs`.
7. `DoneReview`: overlapping review cycles, their shared state file and sessions;
   `DoneReviewProofs`.
8. `AttachedControlProofs`, `RunnerDispatchProofs`, `AttachedRunnerProofs`: the invariant
   over timers, spawn, kill and marker, the poll loop against the register, and the pump
   with its refinements. With them every safety property of a passing run is proved.
9. `TaskMessages` (message status life cycle against its transition table, with the
   operations that bypass it) and `TokenBudget` (check, dispatch, charge).
10. DAG validation (`pipeline/dagValidator.ts`, used by the worker tools) as an
    operator against a reference definition over all small graphs.

## 3. Modules and how they correspond to the code

### `TaskSlot`

The abstract specification. A slot is free, taken by one task, or sealed (it is
lost whose it is). Tasks are delivered into the slot taken for them, at most once until
they have finished; the slot is freed when its task is finished; a sealed slot stays
sealed. A finished task may take the slot again, which adds nothing to `delivered`.

### `AttachedSession`

One terminal of `AttachedSessionManager`. Terminals of a manager share only
`shuttingDown`; a preflight that fails, on this terminal or on another, and rolls all of
them back appears as `PreflightRollback` and `RouterRollback`.

| variable | code |
|---|---|
| `rt` | the `RuntimeSession` record (`attachedSessionTypes.ts:103-149`), the readiness promise, the timers and `shuttingDown` |
| `spawn`, `kill` | the pending `runSpawnAttempt`, the memoised `kill()` with the handler that waits on it |
| `pty` | process trees that run, those of them whose spawn was rejected (`disowned`), late spawns being unwound, whether the host holds an unwind failure |
| `shutdown` | the calls of `shutdown()`, each with its result: the manager's own rollback, the sink router's around it, the coordinator's |
| `marker`, `indeterminate` | the marker file, the store's sticky flag |
| `process` | runner up or down, number of boots |
| `receipt` | the server's receipts, by task |
| `writes`, `cancelled` | history: inputs of a task that reached a PTY before its completion; a cancel nobody has superseded |

An action is one synchronous run of the code, from an event to the next `await`.
Sessions are named by the generation that spawned them. `Reconciled`,
`Acknowledged`, `ScheduleRestart`, `AfterExit`, `FinishStop` and similar are
operators on the record, one for each function that mutates `current`.
`SaveOutcomes`, `ClearOutcomes` and `PersistOutcomes` give what a marker
operation returns together with what it left on disk. `DispatchMoments` lists the
moments of a dispatch at which the process may die (`CrashDuringDispatch`); a
crash at any other time is `Crash`.

`Dispatchable` is what `dispatchAttachedTask` tests: a ready PTY. Nothing on the way looks
at receipts. A task that was completed and not acknowledged is therefore dispatched
again, any number of times; its marker then says `written` although its one receipt was
written long ago. The poll loop and the pump exist only after `main` has
passed the preflight, the action `PreflightPasses`.

A spawn has four ends. It yields a session; it passes its deadline and goes on in the
background (`unwinding`); it is rejected without a process; or it is rejected with its
process alive, because the identity could not be captured or the rollback's own `kill()`
failed (`ptyHost.ts:645-651`, `:688-740`: "cleanup ownership indeterminate; runner
control-group termination required"). `SpawnFails` has the last two, for spawns in time and
for late ones; the tree of the last is `disowned`: nobody holds a session to kill.

`shutdown()` may be called three times in one process: by the rollback inside
`ensureReady`, by the router's rollback around it, and by the coordinator, on a signal or
after the startup failure. Each is a call of its own (`StopAll`, `ShutdownSettles`) with its
own result. The first to end sweeps the ledger and takes the unwind failures, and
`recordKillFailure` fires once for a session, so a later call may well return clean over
the same live process.

`SpawnResolves` and `OutputWhileStarting` choose freely what the screen
classifier makes of an output chunk (ready sample or not, idle sample or not,
exception); PTY events that the early handoff buffered are replayed in the same
handler, which is the same as their arriving right after it.

### `AttachedRunner`

Extends `AttachedSession` with the pump and the cursor file. A round is
`StartRound`, then `ServerAnswers`/`FetchFails` for every page,
`DeliverHistory`/`DeliverCurrent` (the whole synchronous loop over a page with
the cursor save), `OfferIdleProof`, `EndRound`. Everything of `AttachedSession`
interleaves at each `await`. `StopPump` is the ingress stopper of
`main.ts:105-113`: it comes after the poll loop has drained, or never, so rounds
may start after a shutdown has begun. A page holds the receipts the server had
when it answered.

### `AttachedCursor`

`AttachedRunner` with one history variable: `redone` is TRUE while the marker on disk is that
of a task which already had its receipt when the marker was taken. The server writes no
second receipt (`completionReceiptStore.ts:81-85`, `ON CONFLICT ... DO NOTHING`), so for
such a task there is nothing left that the cursor could run ahead of.

### `TaskClaims`

The server's register, with any clients. A database transaction is one step, since
SQLite is called synchronously; the two handlers that await file reads before they
write are two steps.

| variable | code |
|---|---|
| `ctx` | the rows of `terminal_context`; status `none` stands for a terminal `initializeTerminals` does not list |
| `inbox` | the status line of a message's inbox file |
| `queue` | the row of a message in `task_queue`; `message_id` is `UNIQUE`, so a message is queued at most once, and `past` is dispatched or completed |
| `receipt`, `lastSeq` | `runner_completion_receipts` and its `AUTOINCREMENT` |
| `wire`, `reply` | HTTP requests and MCP calls not yet answered, and answers a modelled client waits for |

`ClaimReadsInbox` and `ClaimCommits` are the two halves of the claim route, `AckChecksRow`
and `AckMarksRead` those of `ack_task`. `ClaimResult` is the decision of
`TerminalContextStore.claim`, `ClaimedRow` its two updates. `NextTasks` and `Routed` are
`getNextTaskForTerminal`, which is a question that writes: choosing a task of another
epic moves the row to that epic, also on `GET /routing/:terminal` and at the end of every
completion (`Completed`). Priority and age choose among waiting tasks; the model takes any.
`UnscopedCall` holds the writers without an island: queue dispatch, file DONE,
and `setTerminalContext` as the session starter and the project dispatcher call it
(`sessionStarter.ts:912`, `:958`, `:1069`, `projectDispatcher.ts:267`).

### `RunnerDispatch`

One headless runner process over `TaskClaims`, as the client `Runner` of island `Home`.

| variable | code |
|---|---|
| `proc` | the process and the coordinator: baseline, running, draining (ingress), counting (active sessions), ended |
| `tick` | the local state of `pollOnce`: where it awaits, terminals and messages still to do, current message, `stateDirty` |
| `mem`, `disk`, `file` | `ProcessedStore.entries`, the state file, whether it is there and parses |
| `gate`, `gateStuck` | grants in `dispatch-gates.json`, a lock directory left behind |
| `children` | session processes: in the launcher's table, told to end, or in no living table |
| `failed`, `faults`, `starts` | a recorded failure (decides the exit code), bounds |
| `launches`, `losses`, `unsure`, `unspent` | history for the properties |

A step of the tick runs from one `await` to the next: `Scan` is the loop over the
messages up to the next claim, with every filter of `pollLoop.ts:85-113`; messages come
in any order, and `passed` holds those a filter skipped on the way. `Launched`,
`LaunchRefused` and `Released` are what follows a claim. `LaunchRefused` has the
sink's answers: refused, refused for good (the attached sink's answer,
`attachedDispatch.ts:29`), an exception, or a process that came up and whose marker could
not be written. `CallBreaks` loses a call before or after the server handled it. `Dies` and
`DiesLaunching` are kills at an await and inside the launch; entries age while the process
is down (`Later`). `CliWrites` is the operator's `grant` and `pause`; a grant is only
modelled for messages outside the allowlist, where it has an effect.

### `TaskEscalation`

| variable | code |
|---|---|
| `subs`, `target` | `SubscriptionManager.subscriptions` |
| `record` | the map `escalations`, keyed by subscription id |
| `registered` | tasks the message registry has as DONE or COMPLETED |
| `cycle` | for each nightwatch cycle under way, where `watchTaskEscalations` awaits |
| `attempts`, `told`, `reopened` | history |

`Walk` is the loop up to its next await, with the part of `handleTimeout` before it;
`Attempt`, `Extend`, `TellRoot`, `TellFails`, `Leave` are what comes after. An id stands
for a random UUID: an id that no subscription, list or cycle refers to any more is
taken for a fresh one, and its record and history start anew (`Keep`).

### `DoneReview`

Nightwatch cycles, each at the job `watchDone`, over the DONE messages of one terminal.

| variable | code |
|---|---|
| `boots`, `up` | the server process |
| `outbox` | the file of a DONE: its status and the review level of its front matter |
| `registry` | the DONEs that are UNREAD in the message registry; they come into play when they are registered |
| `marked` | the keys `done_reviewed_*` in the state file |
| `cycle` | of each cycle: where it awaits, its list of DONEs, the one in hand, the state file as it read it, the number of its notice |
| `review` | of each cycle and reviewer: where `runTerminalReview` awaits, and the verdict |
| `session` | the tmux session of a reviewer: whether it is there, the first DONE it was asked about, the first verdict said in it |
| `notices` | the files of rejections in the terminal's inbox |

`Look` is `getState`, `ReadState` and `WriteState` are the halves of `setState`: the whole
file is read, changed and written, so the last writer takes away what others have
written meanwhile. `Follow` stands for the watchers that come after `watchDone` in a cycle
and save keys of their own in the same file. `Open` to `Archive` are the review of
one DONE. A cycle awaits at every `pc`; `Cycles` start in order, and a crash ends all of them
and leaves the sessions, which belong to tmux. `kill-session` is assumed to work when
there is a session.

### Wrong forms

A definition whose comment begins with `Mistake:` is the form a slip in the code
would give the definition that follows it (a dropped guard, an off-by-one test, a
swapped order). No action uses it. `PROJECT.json`, "mutants", pairs each with a
property: with the wrong form in place, TLC finds that property violated.

### `MCAttachedSession`, `MCAttachedRunner`, `MCAttachedCursor`, `MCTaskClaims`, `MCRunnerDispatch`, `MCTaskEscalation`, `MCDoneReview`

The modules TLC is started on. Constants come from the `.cfg` files; messages are
model values. Symmetry is used over the islands of `MCTaskClaims` and the messages of
`runner_dispatch`, `session_safety` and `runner_safety`: no definition names one of them, and
a receipt's number is part of the state that is permuted. It is not used in a liveness run.

### `AttachedSessionTypes` and the modules named `...Proofs`

See [proofs](#7-proofs).

## 4. Runs

| run | configuration | shows |
|---|---|---|
| `session_safety` | `MCAttachedSession.cfg` | all safety properties of the terminal and the refinement of `TaskSlot`; 1,158,158 states |
| `runner_safety` | `MCAttachedCursor.cfg` | the cursor never runs ahead of the marker; every step with the pump is a step of the terminal; 1,011,264 states |
| `runner_progress` | `MCAttachedRunnerLive.cfg` | every transient state, preflight and `shutdown()` of the terminal ends, whatever the pump does, and a parked terminal whose receipt lies ahead of the cursor is restarted; 225,406 states |
| `parked_for_ever` | `MCAttachedRunnerParked.cfg` | expected violation, finding 1 |
| `task_claims` | `MCTaskClaims.cfg` | the register under two islands and any two requests in flight, with every unscoped writer; 1,345,388 states |
| `runner_dispatch` | `MCRunnerDispatch.cfg` | claims, launches, refusals and releases of two tasks, a broken call, a stop at any await; 1,305,762 states |
| `runner_restart` | `MCRunnerRestart.cfg` | two starts of the process with crashes, failed saves, the gate and its lock; shutdowns end; 546,716 states |
| `backlog` | `MCRunnerBacklog.cfg` | expected violation, finding 2 |
| `task_escalation` | `MCTaskEscalation.cfg` | two overlapping cycles over three subscriptions; 242,410 states |
| `escalation_ends` | `MCTaskEscalationEnds.cfg` | expected violation, finding 3 |
| `done_review` | `MCDoneReview.cfg` | two overlapping cycles over two DONEs, with a crash of the server; 1,278,185 states |
| `review_verdicts` | `MCDoneReviewOwn.cfg` | expected violation, finding 4 |

The properties, by what they protect:

* **tasks**: `UnfinishedIsWrittenOnce`, `UnfinishedIsOnRecord`, `CompletedIsReceipted`,
  `ReleaseNeedsReceipt`, `ImplementsTaskSlot`;
* **memory against disk**: `ReadyIsFree`, `LiveTaskIsDurable`,
  `RestartsOnlyWhenFinished`, `CursorCoversMarker`;
* **attempts**: `AttemptsAreBounded` (a scheduled restart waits alone, and a start under
  way has a timer that ends it), `ReadinessIsBacked`, and the restart budget in `TypeOK`;
* **processes**: `NoSilentLeak`, `KillFailureIsReported`;
* **stopping**: `CancelHonoured`, `ShutdownIsFinal`, `SettledMeansQuiet`,
  `CleanShutdownLeaksNothing`;
* **progress**: `TerminalSettles`, `UndeliveredParkEnds`;
* **composition**: `ImplementsSession`;
* **claims**: `OnlyTheOwnerEndsAClaim`, `GatesAgree`, `ReceiptsAreEarned`,
  `ReceiptsAreNumbered`;
* **dispatch**: `SessionHoldsClaim`, `DrainedClaimsAreBacked`, `RetriesAreBounded`,
  `GrantIsSingleUse`, `DrainEnds`;
* **escalation**: `EscalationIsEarned`, `RootIsToldOnce`, `DoneEndsTheWatch`;
* **review**: `VerdictIsCurrent`, `NoticesSurvive`.

Deadlock is checked in `task_claims`: a server can always take a request. Every other
configuration says `CHECK_DEADLOCK FALSE` because the system may stop: a terminal may
stay parked or failed for an operator, an unreadable marker stops every boot, after the
last start nothing starts again, without subscriptions the watch has nothing to do, and
review cycles come to an end.

Some exceptions are part of the properties because the code has them.
`UnfinishedIsWrittenOnce` and `ImplementsTaskSlot` speak of a task up to its completion: a
completed one may be typed again. `CursorCoversMarker` excepts a task that had been completed
before it was taken (`redone`). `NoSilentLeak` and `CleanShutdownLeaksNothing` except the
trees of rejected spawns, for which the host says itself that only the control group ends
them, and they and `KillFailureIsReported` read "some `shutdown()` call has failed", not
"each": one call reports for all.
`TerminalSettles` and `ReadinessIsBacked` except a PTY whose cleanup is
indeterminate: when `cancel` meets a failing kill during startup, or an exited PTY
cannot be disposed of (`attachedSessionManager.ts:233`, `:712-716`), the readiness
promise is not rejected. `CancelHonoured` ends when a receipt asks for a restart,
which is the code's design: a durable receipt restarts a terminal whatever made
it park. `SessionHoldsClaim` and `DrainedClaimsAreBacked` except tasks with a call of unknown
outcome: a release that the server handled and the runner saw fail. `RetriesAreBounded`
counts `max_attempts` anew for every loss of the record, which the code accepts
("a failed persist only risks a bounded re-launch", `processedStore.ts:46-49`).
`RootIsToldOnce` excepts a record that was resolved while its subscription was still in
a cycle's list: a resolved record with no retries left is escalated again.

## 5. Bounds

| bound | where | why it is enough |
|---|---|---|
| `Messages` | 2 in the safety runs, 1 for liveness | two tasks give a receipt of another task, history before and after the current receipt, and a second dispatch after a release |
| `MaxAttempts` | 2, 1 with the pump | the code's own budget; 2 has a first restart, a last one and exhaustion |
| `ReadyConfirmSamples`, `IdleConfirmSamples` | 2, 1 with the pump | 2 has an interrupted confirmation |
| `MaxGeneration`, in the guards of cancels (`GenerationToSpare`) and of the stability timer | 4, 3, 2 | bounds the generations one process uses; both guards leave room for the pending restart chain, so no chain within its budget is cut short. With 4 a forgiven budget is spent again |
| `MaxBoots` | 3, 2 | a crash, and a crash of the boot that followed it |
| `IdleConfirmSamples` also caps `idleConfirmationCount` | `AttachedSession` | the code only compares the count with the threshold |
| `PageLimit`, `MaxPages` | 1, and 2 pages | pages that split a stream, a limit that ends a round; the code has 100 and 5 |
| `MaxWire` | 2 requests in flight (`task_claims`) | two handlers between their two steps at the same row; the steps of a third could only interleave with them in the same way |
| terminals, islands, epics | 1, 2, 1 in `task_claims`; 1, 1, 0 in the runner | rows of different terminals share nothing but `lastSeq`; two islands contend; one message with an epic and one without decide every branch of the router. Acknowledgements carry no island. Epics do not matter to the runner |
| `MaxAttempts`, `MaxLaunches`, `MaxStarts`, `MaxFaults` | 1, 1, 1, 1 and 2, 2, 2, 1 | a retry after a crash, a lost record, one fault of any kind; the safety properties are proved for any number of faults of any kinds (section 7) |
| `Ids`, `Cycles`, `MaxRetries`, `MaxAsked` | 3, 2, 1, 1 (2 retries in `escalation_ends`) | a subscription, its renewal and the renewal by the other cycle. `CycleStarts` asks for an id that no list holds, or the model would run out of them where the program has a new UUID |
| `MaxCycles`, `MaxBoots`, `Dones` | 2, 2, 2 in `done_review`; 2, 1, 2 in `review_verdicts` | two cycles contend for a session, for the state file and for a number; a crash between any two steps |
| `LevelsOf` | light for one DONE, light or none for the other in `done_review`; standard and strict in `review_verdicts` | the two reviewers of a review share no state, so a second one only multiplies the states; `Decide` is exercised with both in `review_verdicts` |
| `Cap` | 0 or 3 | where the history of attempts stops counting |

A receipt is committed at most once per message, so sequences are bounded by the
number of messages. A completed task may be dispatched any number of times without a
bound, since `writes` counts only the inputs before its completion.

## 6. Fairness

`TerminalFairness` (module `AttachedRunner`) assumes of the terminal, and only this: `main` calls
`ensureReady` and goes on when it returns; an armed timer fires; a settled promise runs its continuations; the
PTY host answers a spawn or a kill, which its hard deadlines guarantee
(`ptyHost.ts:450-513`, `:580-621`); the pump audits deadlines round after round
(strong fairness on the rounds that do, since a round may also end early).
Nothing is assumed about agents, output, exits, receipts, operators or shutdown.
`RunnerFairness` adds that the pump's interval keeps starting rounds and a round under way
runs on (weak fairness on the steps of the pump), and that fetches and disk writes do not
fail for ever (strong fairness on an answer, on a delivery and on a page of history whose
cursor save succeeds); these are the retries of the code, which are unbounded. That `main`
goes on when this terminal is ready includes that the preflight of the other terminals ends
some day, in success or in a rollback; each of theirs is bounded like this one's.

In `RunnerDispatch`, calls are answered (by the server or by a failure), a tick that is
under way runs on, and a session that was told to end does (`terminateProcessTree`).
Nothing is assumed of the shutdown deadline, so `DrainEnds` holds without it; nor of
agents, operators, or of a session nobody told to end. In `TaskEscalation`, time passes,
the cleanup timer fires and what a cycle awaits is answered. Nothing is assumed of when
cycles start: an earlier job of the same cycle may fail. `DoneReview` has no liveness
property and assumes no fairness.

## 7. Proofs

**The attached terminal.** TLAPS proves, for every finite set of messages and every
value of the other constants (assumption `ConstantsAssumption`):

| theorem | statement |
|---|---|
| `TypeCorrect` | `Spec => []TypeOK` |
| `UnfinishedOnce` | `Spec => []UnfinishedIsWrittenOnce` |
| `NothingForgotten` | `Spec => []UnfinishedIsOnRecord` |
| `CompletedIsTrue` | `Spec => []CompletedIsReceipted` |
| `ReleaseIsEarned` | `Spec => ReleaseNeedsReceipt` |
| `RefinesTaskSlot` | `Spec => ImplementsTaskSlot` |

`AttachedSessionTypes` has one typing lemma for each operator on the runtime
record and each action; `TypeOK` is inductive by itself. It carries one bound that
is not mere typing: `restartAttempts` never exceeds `MaxAttempts`.

`AttachedSessionProofs` argues in two layers. Whatever an action does to PTYs and
timers, it does one of a few things to the marker, the receipts and the writes:
take the marker for a task, persist a phase of it, release it, commit a receipt,
or leave all three alone. A lemma for each action says which; a lemma for each
kind says that it preserves the inductive invariant

    MarkerInv == TypeOK /\ MarkerHasOwner /\ UnfinishedIsWrittenOnce
                        /\ UnfinishedIsOnRecord /\ CompletedIsReceipted

The three properties need each other: a task is written only when the marker is
free or its own, which means it is unwritten or finished only because unfinished tasks are
on record, and a marker is removed only in phase `completed`, which means its task is
finished only because completed markers tell the truth. `MarkerHasOwner` (a marker
names a task exactly when it is neither absent nor corrupt) is what ties the
marker's phase to the slot of `TaskSlot`. The step lemmas are reused for the
refinement: each kind of marker change is a step of `TaskSlot` or a stutter.

`AttachedControlProofs` proves everything else the safety run checks of the terminal:

| theorem | statement |
|---|---|
| `ReadyTakesOneTask` | `Spec => []ReadyIsFree` |
| `WorkIsDurable` | `Spec => []LiveTaskIsDurable` |
| `RestartIsEarned` | `Spec => []RestartsOnlyWhenFinished` |
| `AttemptsEnd` | `Spec => []AttemptsAreBounded` |
| `PromisesAreBacked` | `Spec => []ReadinessIsBacked` |
| `LeaksAreOnTheBooks` | `Spec => []NoSilentLeak` |
| `KillFailuresAreReported` | `Spec => []KillFailureIsReported` |
| `CleanExitIsClean` | `Spec => []CleanShutdownLeaksNothing` |
| `SettledIsQuiet` | `Spec => []SettledMeansQuiet` |
| `CancelIsFinal` | `Spec => CancelHonoured` |
| `ShutdownEndsWork` | `Spec => ShutdownIsFinal` |

None of these is inductive. A continuation of `spawn()` or `kill()` acts on what it finds
when it runs, and the manager keeps no table of what is pending: what it can find is a fact
about all other handlers. `ControlInv`, inductive given `MarkerInv`, has three parts.
`SessionInv` says who owns a PTY: a pending native spawn has no session and no kill beside it
(`SpawnsAreAlone`); a pending kill belongs to the generation and the state `stopping` it was
called in, and each of its waiters to certain states (`KillsAreOwned`). `EndingInv` says what
a crash resets, which timers and promises a shutdown has silenced and what its calls still
wait for (`ShutdownSeesAll`), and that after a cancel nothing is left that could start the
terminal (`CancelIsKept`). `WorkInv` ties memory to disk: whatever may still lead to a start
(a timer, a spawn, a waiter of a kill) finds no unfinished task (`StartsAreClean`), which is
why a restart never risks work, although `attachedRestartPolicy.ts` never reads the marker.

**Terminal and pump** (`AttachedRunnerProofs`; with `PumpAssumption`: any page limit, any
number of pages in a round):

| theorem | statement |
|---|---|
| `RunnerIsTerminal` | `RunnerSpec => ImplementsSession` |
| `RunnerRefinesTaskSlot` | `RunnerSpec => ImplementsTaskSlot` |
| `CursorTypeCorrect` | `CursorSpec => []CursorTypeOK` |
| `CursorStaysBehind` | `CursorSpec => []CursorCoversMarker` |

The delivery of a page may offer one receipt to the manager twice (`acknowledgeCompletion`,
then `reconcileMarker`). That this is one step of `AttachedSession` needs `ControlInv` and
`TaskInv`: a terminal at work has no attention reason left from before, so the second offer
meets what the first has left and nothing else. Since every step of the two is a step of the
terminal or none, the properties of the terminal hold of the two together.

The cursor needs more, and what it needs is split in two. `RunnerInv`, of `RunnerSpec`, has
`RoundInv`: a page has no gaps between the cursor and its last receipt, so setting the cursor
to the last one applied leaves nothing behind. `CursorInv`, of `CursorSpec`, adds
`TaskIsRemembered`: while the marker names a task that was not completed when it was taken,
and that was written or receipted since, the runtime names it too, so a receipt the pump
takes for history is never that marker's. Without `redone` it would be false: a dispatch
whose `accepted` marker reaches the disk while its save fails leaves a marker the runtime
does not know, and a completed task's receipt may then pass as history.

**The claim register** (`TaskClaimsProofs`, from `ClaimConstants` only: any sets of
terminals, messages, islands and epics, any number of requests in flight):

| theorem | statement |
|---|---|
| `ClaimInvariant` | `ClaimSpec => []ClaimInv` |
| `ClaimTypeCorrect` | `ClaimSpec => []ClaimTypeOK` |
| `GatesAlwaysAgree` | `ClaimSpec => []GatesAgree` |
| `ClaimsEndByOwner` | `ClaimSpec => OnlyTheOwnerEndsAClaim` |
| `ReceiptsAreAlwaysEarned` | `ClaimSpec => ReceiptsAreEarned` |
| `ReceiptsStayNumbered` | `ClaimSpec => []ReceiptsAreNumbered` |

`ClaimInv` is the types together with `RowOK` of every row: working exactly when it has a
task, and an island only with a task. It is needed because the operations test different
columns. Routing tests the status only; that it never touches a scoped row follows from
`RowOK`, and so does `OnlyTheOwnerEndsAClaim` (`RoutingIsQuiet`: routing replaces rows
without a task by rows without a task).

**The poll loop against the register** (`RunnerDispatchProofs`, from `ClaimConstants` and
`RunnerConstants`: any terminals, messages and allowlist, any `max_attempts`, any number of
faults and starts):

| theorem | statement |
|---|---|
| `DispatchTypeCorrect` | `Spec => []DispatchTypeOK` |
| `RetriesStayBounded` | `Spec => []RetriesAreBounded` |
| `SessionsHoldTheirClaims` | `Spec => []SessionHoldsClaim` |
| `DrainLeavesNoClaim` | `Spec => []DrainedClaimsAreBacked` |
| `GrantsAreUsedOnce` | `Spec => GrantIsSingleUse` |
| `RunnerKeepsTheRegister` | `Spec => []GatesAgree /\ OnlyTheOwnerEndsAClaim /\ ReceiptsAreEarned` |

`DispatchInv` ties the two ends of a call together. The runner's requests on the wire are
those of the call its tick waits in, and every other request of the island is about a
message whose claim is known to be in doubt (`WireInv`); the terminal of the message in hand
has no session (`TickInv`). So a release on the wire never takes a claim from under a
session (`HoldInv`), and a claim without a launch is always the one the tick is about to
use or to give back (`BackedInv`), which leaves none when it has come to rest.
`RetriesAreBounded` needs a finer account than it states, `LaunchInv`: the launches of a
message are at most `MaxAttempts` for each loss and what the store (in memory, or in the
file once the process is gone) still remembers. `GrantInv` follows a grant from the gate file into the
tick that will use it. `RunnerKeepsTheRegister` carries the promises of the register over from
the clients of `TaskClaims` to this runner, whose calls are abandoned, repeated and
survive its process: each of its steps leaves the register alone or is a step of `ClaimNext`.

**The escalation** (`TaskEscalationProofs`, from `EscalationConstants`: any number of
overlapping cycles, subscriptions and retries):

| theorem | statement |
|---|---|
| `EscalationInvariant` | `Spec => []EscalationInv` |
| `EscalationTypeCorrect` | `Spec => []EscalationTypeOK` |
| `EscalationsAreEarned` | `Spec => []EscalationIsEarned` |
| `RootIsAlwaysToldOnce` | `Spec => []RootIsToldOnce` |

`EscalationInv` follows a subscription through the lists of several cycles: a cycle that is
telling root holds a record whose retries are used up (`Earned`); and as long as nobody
resolves the record, one cycle at most is telling root and nobody has before (`Once`),
because the record is marked escalated in the step that decides to tell.

**The review** (`DoneReviewProofs`, from `ReviewConstants`: any number of DONEs of any
level, of cycles and of restarts):

| theorem | statement |
|---|---|
| `ReviewTypeCorrect` | `Spec => []ReviewTypeOK` |
| `VerdictsAreCurrent` | `Spec => VerdictIsCurrent` |
| `NoticesAlwaysSurvive` | `Spec => NoticesSurvive` |

`CurrentInv` says that a session in which something was asked has a cycle that holds the
DONE and waits for, or has just taken, a verdict of that reviewer. A crash breaks it, and leaves
sessions with an old question; then all reviews are at rest, and a review begins by
killing the session, so nobody takes a verdict before it holds again. That is the second
half of the invariant. `NamedInv` is that the name of a notice tells which DONE it is
about, whatever number it was given.

TLC checked each inductive invariant before it was proved, as an invariant of the runs
with the same constants (`ControlInv`: 1,158,158 states, `CursorInv`, which contains `RunnerInv`: 1,011,264, `DispatchInv`:
the constants of `runner_dispatch` without symmetry, `runner_restart` and `backlog`); the
runs themselves keep to the properties a reader would ask for.

Model-checked only: the liveness properties (`UndeliveredParkEnds`, `TerminalSettles`,
`DrainEnds`, `DoneEndsTheWatch`), because fairness and ENABLED are out of the prover's reach.
Every other property of a passing run is proved. What the four runs of section 8 refute is
false, and stays a counterexample.

## 8. Findings

1. **Parked for ever** (`parked_for_ever`). A crash while a terminal drains leaves
   a completed marker and a cursor past its receipt. The next boot parks the
   terminal; the pump never fetches that receipt again, so `reconcileMarker` is
   never called, although comments and `runner/README.md:66-68` promise that the
   pump reconciles and restarts it. The boot could promote a `completed` marker by
   itself.
2. **The backlog of the first start** (`backlog`). A stop or an unreadable inbox during
   the first-start baseline ends in the coordinator, which saves an empty launch store;
   the file it writes makes the next start skip the baseline (`backlogQuarantine.ts:23`)
   and launch the old work, which the barrier exists to prevent. The coordinator could
   save only after the baseline, or the baseline could leave a mark of its own.
3. **Retries without an end** (`escalation_ends`). The record that counts the retries
   belongs to a subscription id, each retry makes a new one (`taskEscalation.ts:230`), and
   the old one is cleaned up: the described "escalation after the second retry" comes only
   if the watch meets the expired subscription again before the cleanup timer does.
4. **Another DONE's verdict** (`review_verdicts`). `terminalReviewer.ts:190-197` says that
   review sessions are separate, against conflicts, and fresh for each review. Their names are fixed, and cycles overlap:
   a second cycle that opens its session between the first one's creation and prompt, or
   sends its prompt there, leaves the first with a verdict about a DONE it does not review,
   which archives or rejects the wrong one. `VerdictIsCurrent` is what remains true. A
   session name with the id of the DONE, or a cycle that does not start while another
   runs, would restore it.

Observed while modelling, without a property of their own:

* a replacement PTY in `marker_cleanup_failed` counts as reconcilable, yet its
  receipt is rejected for the generation, so the stream's cursor blocks until an
  operator acts;
* a dispatch whose first save fails is refused, but may leave a marker: the
  terminal is busy from then on (fail closed);
* `cancel` on a killed-and-failed session after shutdown leaves state `stopping`;
* a task completed without `ack_task` stays UNREAD in its inbox file; neither the claim route
  (`mailbox.routes.ts:193-207`), nor the launch store, nor the sink looks at receipts, so the
  poll loop claims and launches it again until its attempts are used up
  (`processedStore.ts:82-85` bounds it). A headless session runs it again, and
  `CompleteAgain` answers with the first receipt;
* an attached terminal that gets such a task again is in a corner: the marker says `written`,
  the one receipt of the task is behind the cursor, and none will follow. The terminal stays
  busy, then parked once its PTY exits, until the cursor file is lost. If the cursor is set
  back, or a page fetched earlier still holds the receipt, that old receipt completes the
  new run whether the agent has finished it or not;
* a comment says "A rejected spawn already unwound itself on its own failure path"
  (`ptyHost.ts:615`), but the failure paths at 645-651 and 707-740 reject with the process
  possibly alive, and for a late spawn the rejection, with its message about the control group,
  is dropped there. `activeCount()` and `shutdown()` know nothing of that process;
* after a rollback that failed, the coordinator's own `shutdown()` finds the ledger swept and
  returns clean. What keeps the exit code from being 0 is then the failure of the startup
  (`runnerLifecycle.ts:143`) or `activeCount()`, which counts the tracked session of a
  failed kill but no failed unwind;
* `POST /queue` refuses a message that was ever queued, also one that was completed;
* a subscription of type `terminal` that expires is retried like a stuck task
  (`taskEscalation.ts:407-440` does not look at the type);
* resolving an active record changes its status and nothing else: retries go on;
* `main.ts:107-110` relies on every manager entry point rejecting after `shutdown()`, and
  `reconcileMarker` does not test the flag: a late receipt still completes a marker.
  `ShutdownIsFinal` shows that no PTY and no task follows from it;
* the review prompt itself contains "VERDICT: APPROVE vagy REJECT"
  (`terminalReviewer.ts:303`, `:337`): on a screen without a spinner it reads as an approval
  before the reviewer has answered, which is why `Answer` may say anything at any time;
* the cleanup after an approval looks for old rejections in `docs/mailbox`
  (`pipeline.ts:52`), while reviews write them under `terminals/`
  (`terminalReviewer.ts:655`), so they stay;
* an exception in a review is caught inside it, so the branch that would take the mark back
  for another try (`watchers/watchDone.ts:193`) is not reached in terminal mode: the DONE stays
  marked and unread, and is not reviewed again unless its mark is lost;
* the branch of `cleanupFailedStart` for failing subscriptions is dead: its
  callers dispose of them first.

## 9. What is left out, and why

* Process-tree discovery and signalling per platform, screen parsing, prompts,
  command lines, configuration parsing: text and operating-system detail; their
  outcomes are free choices in the model.
* Wall-clock time: a timer may fire at any moment after it is armed.
* Several attached terminals in one model: they share one flag (see above).
* `AttachedSession` and `RunnerDispatch` are not composed. In the first the poll loop appears as
  `Dispatch`, which may come whenever the terminal accepts one, for any task, completed or
  not; in the second the sink is the headless launcher. The exit code of a runner with
  attached terminals is in neither.
* Of one headless session: its timeout, output limit and logs. Either may end it at any time.
* In `RunnerDispatch`, `ack_task` is the single step `ReadMessage`; its two steps are in
  `TaskClaims`. A gate file that does not parse and unsafe message ids are left out.
* The projects, epics and dependencies tables of the router and its counters: they decide
  nothing about who holds a terminal. `markWorking`, `markIdle`, `markBlocked` and
  `cancelQueuedTask` have no callers.
* The review by the API instead of terminals (`pipeline/reviewer.ts`), other watchers over
  DONEs (`immediatePipeline`, frontend and UI reviews), the injection of feedback into
  sessions, agents that mark a DONE READ themselves. Marking by hand could only shorten the
  lists of cycles.
* `POST /api/escalation/config` can change the number of retries while the server runs
  (`escalationRoutes.ts:36-45`); `MaxRetries` is a constant of the model.
* Delivery of events to subscribers; the other jobs of a nightwatch cycle.
* `pipeline/processLock.ts` and `pendingRetries.ts`: re-exported library code without a
  caller in `src/`.
* Message box, dispatch control, DAG validation: planned, see section 2.
* Everything marked `not_modelled` in `PROJECT.json` with its reason there.
