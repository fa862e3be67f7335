-------------------------- MODULE AttachedSession --------------------------
(***************************************************************************)
(* The lifecycle of one attached terminal of the runner: the state machine *)
(* of AttachedSessionManager (src/knowledge-service/src/runner), the       *)
(* durable task marker it keeps on disk, the PTY sessions it spawns and    *)
(* kills, and crashes and reboots of the runner process.                   *)
(*                                                                         *)
(* Terminals of one manager share only the flag shuttingDown, so one       *)
(* terminal is modelled; what the other terminals can do to it is to fail  *)
(* the preflight, whose rollback shuts every terminal down.                *)
(*                                                                         *)
(* JavaScript runs one handler at a time.  An action is one synchronous    *)
(* run: from an event (timer, PTY callback, settled promise, call of the   *)
(* public interface) to the next await.                                    *)
(*                                                                         *)
(* PTY sessions are named by the generation that spawned them: every       *)
(* spawn attempt takes a fresh generation.  0 stands for undefined.        *)
(***************************************************************************)
EXTENDS Naturals, FiniteSets

CONSTANTS
  Messages,             \* the mailbox tasks of this terminal
  NoMessage,            \* messageId === undefined
  MaxAttempts,          \* AttachedRestartPolicy.maxAttempts
  ReadyConfirmSamples,  \* policy.readyConfirmSamples
  IdleConfirmSamples,   \* policy.idleConfirmSamples
  MaxGeneration,        \* bound: spawns and cancels per run of the process
  MaxBoots              \* bound: how often the runner is started

ASSUME ConstantsAssumption ==
  /\ IsFiniteSet(Messages)
  /\ NoMessage \notin Messages
  /\ MaxAttempts \in Nat
  /\ ReadyConfirmSamples \in Nat \ {0}
  /\ IdleConfirmSamples \in Nat \ {0}
  /\ MaxGeneration \in Nat
  /\ MaxBoots \in Nat

VARIABLES
  rt,        \* the RuntimeSession record, with the manager's shuttingDown
  spawn,     \* the pending runSpawnAttempt (spawnPromise)
  kill,      \* the memoised kill() of the tracked session and its waiter
  pty,       \* the PTY host: process trees it started
  shutdown,  \* the calls of shutdown() and their results
  marker,    \* attached-active.json on disk
  indeterminate, \* the store's sticky indeterminateTerminals entry
  process,   \* whether the runner is up, and how often it was booted
  receipt,   \* the server: sequence of the completion receipt per message
  writes,    \* history: inputs of the task that reached a PTY before it was
             \* completed
  cancelled  \* history: cancel() answered true, nothing asked for a restart since

hostVars  == <<spawn, kill, pty>>
storeVars == <<marker, indeterminate>>
worldVars == <<receipt, writes>>
vars == <<rt, spawn, kill, pty, shutdown, marker, indeterminate, process,
          receipt, writes, cancelled>>

-----------------------------------------------------------------------------
(* Types. *)

States == {"stopped", "starting", "ready", "busy", "draining",
           "attention_required", "failed", "stopping"}

\* AttachedAttentionReason; "output_failed" stands for the two reasons an
\* exception in the output handler can give (idle_classifier_failed,
\* terminal_query_responder_failed): the code never tells them apart.
Reasons == {"none", "input_outcome_unknown", "marker_persist_failed",
            "completion_persist_failed", "marker_cleanup_failed",
            "cleanup_indeterminate", "output_failed", "task_crash",
            "stale_marker", "completion_idle_timeout"}

ReconcilableReasons == {"input_outcome_unknown", "marker_persist_failed",
                        "completion_persist_failed", "marker_cleanup_failed"}

MessageId == Messages \cup {NoMessage}

\* Where ensureReady is, for this terminal: not called, waiting for its PTY,
\* refused by assertAttachedPreflightState, rejected or ready; "done" once
\* main() is past it, with every sink ready.
Preflights == {"idle", "waiting", "refused", "rejected", "ready", "done"}

Runtime == [
  state : States,
  session : Nat,               \* current.session, 0 when undefined
  generation : Nat,
  messageId : MessageId,
  markerGeneration : Nat,
  receiptSequence : Nat,
  completedBeforeExit : BOOLEAN,
  gateGeneration : Nat,        \* completionIdleGate.sessionGeneration
  gateSequence : Nat,          \* completionIdleGate.receiptSequence
  controllerInputPending : BOOLEAN,
  sessionUsable : BOOLEAN,
  cleanupIndeterminate : BOOLEAN,
  attentionReason : Reasons,
  readySamples : Nat,
  idleConfirmationCount : Nat,
  automaticAttempt : BOOLEAN,
  readiness : BOOLEAN,         \* an unsettled readiness promise exists
  preflight : Preflights,
  startupTimer : Nat,          \* the generation it was armed for
  restartTimer : BOOLEAN,
  stabilityTimer : BOOLEAN,
  restartAttempts : 0 .. MaxAttempts,
  restartBudgetExhausted : BOOLEAN,
  cleanupLedger : BOOLEAN,     \* the ledger holds an error
  shuttingDown : BOOLEAN ]

Phases == {"none", "corrupt", "accepted", "written", "completed"}

Markers == [phase : Phases, messageId : MessageId, generation : Nat,
            receiptSequence : Nat]

NoMarker == [phase |-> "none", messageId |-> NoMessage, generation |-> 0,
             receiptSequence |-> 0]

\* A file that was created and never written: decodeMarker throws on it.
CorruptMarker == [NoMarker EXCEPT !.phase = "corrupt"]

Spawns == [phase : {"none", "native", "lateKill"}, generation : Nat,
           automatic : BOOLEAN]

NoSpawn == [phase |-> "none", generation |-> 0, automatic |-> FALSE]

\* waiter is the handler that called kill() first; the one of a shutdown is
\* recorded by shutdown.awaitsKill.  disposeFailed: handleExit could not
\* dispose of the subscriptions.
Kills == [phase : {"none", "pending", "failed"},
          waiter : {"none", "stop", "exit", "failedStart", "lateSpawn"},
          generation : Nat, previous : States, automatic : BOOLEAN,
          disposeFailed : BOOLEAN]

NoKill == [phase |-> "none", waiter |-> "none", generation |-> 0,
           previous |-> "stopped", automatic |-> FALSE, disposeFailed |-> FALSE]

\* alive: the trees that run.  disowned: those of them whose spawn was
\* rejected, so that nobody holds a session to kill.  unwinding: spawns that
\* lost to their deadline and are still out.  unwindFailed: the host holds a
\* lateSpawnUnwindFailure.
Hosts == [alive : SUBSET Nat, disowned : SUBSET Nat, unwinding : SUBSET Nat,
          unwindFailed : BOOLEAN]

NoPty == [alive |-> {}, disowned |-> {}, unwinding |-> {},
          unwindFailed |-> FALSE]

\* Who calls shutdown(), each at most once per process: the manager's own
\* preflight, the sink router's preflight around it, and the coordinator.
ShutdownCallers == {"manager", "router", "coordinator"}

\* awaitsKill: some call waits for the kill(); the continuations of one
\* promise run in one burst, so the calls need no flag each.
Shutdowns == [call : [ShutdownCallers -> {"none", "pending", "clean", "failed"}],
              awaitsKill : BOOLEAN]

NoShutdown == [call |-> [c \in ShutdownCallers |-> "none"], awaitsKill |-> FALSE]

TypeOK ==
  /\ rt \in Runtime
  /\ spawn \in Spawns
  /\ kill \in Kills
  /\ pty \in Hosts
  /\ shutdown \in Shutdowns
  /\ marker \in Markers
  /\ indeterminate \in BOOLEAN
  /\ process \in [up : BOOLEAN, boots : Nat]
  /\ receipt \in [Messages -> Nat]
  /\ writes \in [Messages -> Nat]
  /\ cancelled \in BOOLEAN

-----------------------------------------------------------------------------
(* Helpers on the runtime record.  Each is one function of the source that *)
(* mutates `current`.                                                      *)
(*                                                                         *)
(* A definition whose comment begins with `Mistake:` is a wrong form of    *)
(* the one that follows it: what a slip in that code would make of it.  No *)
(* action uses it; it is there to show that a property notices.            *)

HasTask(r) == r.messageId # NoMessage

\* A task of which nothing proves that it finished.
UnresolvedWork(r) == HasTask(r) /\ ~r.completedBeforeExit

\* Settle the readiness promise; ensureReady awaits it while "waiting".
SettleReadiness(r, result) ==
  IF r.readiness
  THEN [r EXCEPT !.readiness = FALSE,
                 !.preflight = IF @ = "waiting" THEN result ELSE @]
  ELSE r

RejectReadiness(r)  == SettleReadiness(r, "rejected")
ResolveReadiness(r) == SettleReadiness(r, "ready")

ClearAttachedTask(r) ==
  [r EXCEPT !.messageId = NoMessage, !.markerGeneration = 0,
            !.receiptSequence = 0, !.completedBeforeExit = FALSE,
            !.gateGeneration = 0, !.gateSequence = 0,
            !.controllerInputPending = FALSE, !.attentionReason = "none",
            !.idleConfirmationCount = 0]

MarkCleanupIndeterminate(r) ==
  [r EXCEPT !.state = "attention_required", !.cleanupIndeterminate = TRUE,
            !.attentionReason = "cleanup_indeterminate"]

\* Mistake: the session is not forgotten.
DisposeKeepsSession(r) ==
  [r EXCEPT !.sessionUsable = FALSE, !.cleanupIndeterminate = FALSE]

DisposeSession(r) ==
  [r EXCEPT !.session = 0, !.sessionUsable = FALSE,
            !.cleanupIndeterminate = FALSE]

\* The state of a terminal that has stopped: unresolved work keeps it parked.
StoppedState(r) == IF HasTask(r) THEN "attention_required" ELSE "stopped"

Attention(r, reason) ==
  [r EXCEPT !.state = "attention_required", !.attentionReason = reason]

ArmCompletionGate(r, sequence) ==
  IF r.gateSequence = sequence /\ r.gateGeneration = r.generation
  THEN r
  ELSE [r EXCEPT !.gateGeneration = r.generation, !.gateSequence = sequence,
                 !.idleConfirmationCount = 0]

\* The stability timer runs only when there is a restart to forgive.
BecomeReady(r) ==
  [r EXCEPT !.state = "ready",
            !.stabilityTimer = r.session # 0 /\ r.restartAttempts > 0]

\* Mistake: one attempt too many.
BudgetOverspent(r) == r.restartAttempts > MaxAttempts

BudgetSpent(r) == r.restartAttempts >= MaxAttempts

NextAttempt(r) == r.restartAttempts + 1

ScheduleRestart(r) ==
  LET cleared == [r EXCEPT !.startupTimer = 0, !.stabilityTimer = FALSE]
      refused == RejectReadiness(cleared)
  IN CASE r.shuttingDown ->
            [refused EXCEPT !.state = StoppedState(r)]
       [] ~r.shuttingDown /\ UnresolvedWork(r) ->
            [refused EXCEPT !.state = "attention_required"]
       [] ~r.shuttingDown /\ ~UnresolvedWork(r) /\ BudgetSpent(r) ->
            [refused EXCEPT !.state = "failed",
                            !.restartBudgetExhausted = TRUE]
       [] OTHER ->
            [cleared EXCEPT !.state = "failed", !.restartTimer = TRUE,
                            !.readiness = TRUE,
                            !.restartAttempts = NextAttempt(r)]

\* finishStop: the PTY of a cancelled or shut down terminal is gone.
FinishStop(r, disposeFails) ==
  LET gone == DisposeSession(RejectReadiness(
                [r EXCEPT !.startupTimer = 0, !.stabilityTimer = FALSE]))
  IN IF disposeFails
     THEN [MarkCleanupIndeterminate(gone) EXCEPT !.cleanupLedger = TRUE]
     ELSE [gone EXCEPT !.state = StoppedState(r)]

\* Mistake: a PTY that exits is taken to have finished its task.
FinishedByExit(previous) == previous \in {"busy", "draining"}

FinishedBeforeExit(previous) == previous = "draining"

\* transitionAfterAttachedExit: previous is the state the exit arrived in.
AfterExit(r, previous) ==
  CASE FinishedBeforeExit(previous) ->
         ScheduleRestart([r EXCEPT !.completedBeforeExit = TRUE])
    [] previous = "starting" -> ScheduleRestart(r)
    [] previous = "busy" -> Attention(r, "task_crash")
    [] previous = "stopping" ->
         [RejectReadiness(r) EXCEPT !.state = StoppedState(r)]
    [] previous = "ready" /\ ~HasTask(r) -> ScheduleRestart(r)
    [] OTHER ->
         [r EXCEPT !.state = IF HasTask(r) THEN "attention_required"
                                           ELSE "failed"]

\* createRuntimeSession: the runtime a new process builds from the marker.
CreateRuntime(m) ==
  [ state |-> IF m.phase = "none" THEN "stopped" ELSE "attention_required",
    session |-> 0, generation |-> 0,
    messageId |-> m.messageId, markerGeneration |-> m.generation,
    receiptSequence |-> m.receiptSequence,
    completedBeforeExit |-> m.phase = "completed",
    gateGeneration |-> 0, gateSequence |-> 0,
    controllerInputPending |-> FALSE, sessionUsable |-> FALSE,
    cleanupIndeterminate |-> FALSE,
    attentionReason |-> IF m.phase = "none" THEN "none" ELSE "stale_marker",
    readySamples |-> 0, idleConfirmationCount |-> 0,
    automaticAttempt |-> FALSE, readiness |-> FALSE, preflight |-> "idle",
    startupTimer |-> 0, restartTimer |-> FALSE, stabilityTimer |-> FALSE,
    restartAttempts |-> 0, restartBudgetExhausted |-> FALSE,
    cleanupLedger |-> FALSE, shuttingDown |-> FALSE ]

-----------------------------------------------------------------------------
(* The marker store.  save() and clear() return or throw; what is on disk  *)
(* when they throw depends on the step that failed, so each is the set of  *)
(* its possible outcomes.                                                  *)

TaskMarker(m, generation, phase, sequence) ==
  [phase |-> phase, messageId |-> m, generation |-> generation,
   receiptSequence |-> sequence]

Outcome(ok, disk, stuck) == [ok |-> ok, marker |-> disk, stuck |-> stuck]

\* load() throws on an indeterminate terminal and on an undecodable file.
Loadable(disk, stuck) == ~stuck /\ disk.phase # "corrupt"

PhaseOrder == [p \in Phases |-> CASE p = "written" -> 1
                                  [] p = "completed" -> 2
                                  [] OTHER -> 0]

\* save() refuses another owner, a phase regression and a receipt mutation.
\* pid and startedAt make every dispatch an owner of its own: the accepted
\* marker of a new dispatch never replaces an existing one.
MaySave(disk, new) ==
  disk.phase # "none" =>
    /\ disk.messageId = new.messageId /\ disk.generation = new.generation
    /\ new.phase # "accepted"
    /\ PhaseOrder[new.phase] >= PhaseOrder[disk.phase]
    /\ disk.phase = "completed" => new.receiptSequence = disk.receiptSequence

SaveOutcomes(disk, stuck, new) ==
  IF ~Loadable(disk, stuck) \/ ~MaySave(disk, new)
  THEN {Outcome(FALSE, disk, stuck)}
  ELSE {Outcome(TRUE, new, FALSE)}
       \cup {Outcome(FALSE, d, FALSE) : d \in {disk, new, CorruptMarker}}
       \cup (IF disk.phase = "none"     \* the directory flush of a creation
             THEN {Outcome(FALSE, d, TRUE) : d \in {disk, new}} ELSE {})

\* Mistake: clear() returns although the directory could not be flushed.
ClearOutcomesUnflushed(disk, stuck, matches) ==
  IF ~Loadable(disk, stuck) \/ ~matches
  THEN {Outcome(FALSE, disk, stuck)}
  ELSE {Outcome(TRUE, NoMarker, FALSE), Outcome(TRUE, NoMarker, TRUE)}

\* clear() under the caller's check `matches` of the loaded marker.
ClearOutcomes(disk, stuck, matches) ==
  IF ~Loadable(disk, stuck) \/ ~matches
  THEN {Outcome(FALSE, disk, stuck)}
  ELSE {Outcome(TRUE, NoMarker, FALSE), Outcome(FALSE, disk, FALSE)}
       \cup {Outcome(FALSE, d, TRUE) : d \in {disk, NoMarker}}

\* The marker both release paths ask for: completed, of this task and receipt.
CompletedMarkerMatches(r) ==
  /\ marker.phase = "completed"
  /\ marker.messageId = r.messageId
  /\ marker.generation = r.markerGeneration
  /\ marker.receiptSequence = r.receiptSequence

\* persistCompletionReceipt
PersistOutcomes(disk, stuck, r, sequence) ==
  IF \/ ~Loadable(disk, stuck)
     \/ disk.phase = "none"
     \/ disk.messageId # r.messageId
     \/ disk.generation # r.markerGeneration
  THEN {Outcome(FALSE, disk, stuck)}
  ELSE IF disk.phase = "completed"
  THEN {Outcome(disk.receiptSequence = sequence, disk, stuck)}
  ELSE SaveOutcomes(disk, stuck,
         TaskMarker(disk.messageId, disk.generation, "completed", sequence))

StoreBecomes(o) == marker' = o.marker /\ indeterminate' = o.stuck

-----------------------------------------------------------------------------
(* Actions: one per handler.  Every one but the server's and the boot needs *)
(* the runner process.                                                      *)

Up == process.up

\* A bound of the model, not of the code: a cancel or a forgiven restart
\* budget may only use up generations that no pending restart will need.
GenerationToSpare == rt.generation + MaxAttempts < MaxGeneration + rt.restartAttempts

Init ==
  /\ rt = CreateRuntime(NoMarker)
  /\ spawn = NoSpawn
  /\ kill = NoKill
  /\ pty = NoPty
  /\ shutdown = NoShutdown
  /\ marker = NoMarker
  /\ indeterminate = FALSE
  /\ process = [up |-> TRUE, boots |-> 1]
  /\ receipt = [m \in Messages |-> 0]
  /\ writes = [m \in Messages |-> 0]
  /\ cancelled = FALSE

\* Mistake: a startup without a deadline.
StartupUntimed(r) == r

\* armAttachedStartupTimeout: the timer belongs to this generation.
ArmStartupTimeout(r) == [r EXCEPT !.startupTimer = r.generation]

\* runSpawnAttempt up to its await of ptyHost.spawn.
SpawnAttempt(r, automatic) ==
  IF r.session # 0
  THEN /\ rt' = RejectReadiness(MarkCleanupIndeterminate(
                  [r EXCEPT !.sessionUsable = FALSE]))
       /\ spawn' = NoSpawn
  ELSE /\ rt' = ArmStartupTimeout(
                  [r EXCEPT !.stabilityTimer = FALSE, !.cleanupLedger = FALSE,
                            !.state = "starting", !.readySamples = 0,
                            !.automaticAttempt = automatic,
                            !.generation = @ + 1])
       /\ spawn' = [phase |-> "native", generation |-> r.generation + 1,
                    automatic |-> automatic]

\* assertAttachedPreflightState
PreflightAdmits(r) ==
  /\ r.session # 0 => r.state \in {"starting", "ready", "busy", "draining"}
  /\ r.state = "attention_required" =>
       r.attentionReason = "stale_marker" /\ r.session = 0
  /\ r.state = "failed" => ~UnresolvedWork(r)
  /\ ~r.restartBudgetExhausted

\* ensureReady, which main() calls once, before the poll loop and the pump.
EnsureReady ==
  /\ Up /\ rt.preflight = "idle" /\ ~rt.shuttingDown
  /\ IF ~PreflightAdmits(rt)
     THEN rt' = [rt EXCEPT !.preflight = "refused"] /\ UNCHANGED spawn
     ELSE IF rt.state = "attention_required"
     THEN rt' = [rt EXCEPT !.preflight = "ready"] /\ UNCHANGED spawn
     ELSE SpawnAttempt([rt EXCEPT !.readiness = TRUE,
                                  !.preflight = "waiting"], FALSE)
  /\ UNCHANGED <<kill, pty, shutdown, storeVars, process, worldVars, cancelled>>

\* main() is past sink.ensureReady(), every other terminal and sink included:
\* it starts the poll loop and the pump.
PreflightPasses ==
  /\ Up /\ rt.preflight = "ready" /\ ~rt.shuttingDown
  /\ rt' = [rt EXCEPT !.preflight = "done"]
  /\ UNCHANGED <<hostVars, shutdown, storeVars, process, worldVars, cancelled>>

\* A handler starts session.kill() and leaves; `who` continues after it.
StartKill(who, r, disposeFailed) ==
  kill' = [phase |-> IF kill.phase = "none" THEN "pending" ELSE kill.phase,
           waiter |-> who, generation |-> r.generation,
           previous |-> r.state, automatic |-> r.automaticAttempt,
           disposeFailed |-> disposeFailed]

Stopping(r) == [r EXCEPT !.state = "stopping", !.sessionUsable = FALSE]

\* cleanupFailedStart; its callers dispose the subscriptions first, and a
\* failure to do so goes to the ledger.
CleanupFailedStart(r) ==
  /\ \E disposeFails \in BOOLEAN :
       rt' = [Stopping(r) EXCEPT !.cleanupLedger = @ \/ disposeFails]
  /\ StartKill("failedStart", r, FALSE)

\* armAttachedStartupTimeout's timer.
StartupTimerFires ==
  /\ Up /\ rt.startupTimer # 0
  /\ LET r == [rt EXCEPT !.startupTimer = 0]
     IN IF rt.generation # rt.startupTimer \/ rt.state # "starting"
        THEN rt' = r /\ UNCHANGED kill
        ELSE IF rt.session = 0
        THEN rt' = RejectReadiness(Stopping(r)) /\ UNCHANGED kill
        ELSE CleanupFailedStart(r)
  /\ UNCHANGED <<spawn, pty, shutdown, storeVars, process, worldVars, cancelled>>

\* The attempt that owned the spawn is no longer wanted.
SpawnIsStale(r) == r.generation # spawn.generation \/ r.state # "starting"

\* A spawn fails: it left no process, or one whose identity could not be
\* captured or whose rollback kill failed.  Nobody can kill that one; it is
\* left to the termination of the runner's control group.
SpawnFails(g) ==
  \/ pty' = [pty EXCEPT !.unwinding = @ \ {g}]
  \/ pty' = [pty EXCEPT !.unwinding = @ \ {g}, !.alive = @ \cup {g},
                        !.disowned = @ \cup {g}]

\* ptyHost.spawn throws: the native spawn has failed, or it ran into its
\* deadline and goes on in the background, to be unwound by the PTY host.
SpawnRejects ==
  /\ Up /\ spawn.phase = "native"
  /\ LET r == [rt EXCEPT !.startupTimer = 0]
         failed == [r EXCEPT !.state = "failed"]
     IN rt' = IF SpawnIsStale(r) THEN [r EXCEPT !.state = StoppedState(r)]
              ELSE IF spawn.automatic THEN ScheduleRestart(failed)
              ELSE RejectReadiness(failed)
  /\ \/ SpawnFails(spawn.generation)
     \/ pty' = [pty EXCEPT !.unwinding = @ \cup {spawn.generation}]
  /\ spawn' = NoSpawn
  /\ UNCHANGED <<kill, shutdown, storeVars, process, worldVars, cancelled>>

\* Mistake: the flag is not looked at again when the spawn resolves.
SpawnUnwantedButForShutdown == SpawnIsStale(rt)

SpawnUnwanted == rt.shuttingDown \/ SpawnIsStale(rt)

Tracked(r) == [r EXCEPT !.session = spawn.generation]

\* ptyHost.spawn yields a session after a shutdown, a cancel or the startup
\* timeout: the continuation owns it and kills it.
SpawnResolvesLate ==
  /\ Up /\ spawn.phase = "native"
  /\ SpawnUnwanted
  /\ rt' = Stopping(Tracked(rt))
  /\ pty' = [pty EXCEPT !.alive = @ \cup {spawn.generation}]
  /\ StartKill("lateSpawn", rt, FALSE)
  /\ spawn' = [spawn EXCEPT !.phase = "lateKill"]
  /\ UNCHANGED <<shutdown, storeVars, process, worldVars, cancelled>>

\* ptyHost.spawn yields a session that is wanted.  Events the session
\* buffered while the callbacks were registered are replayed in the same
\* step; they are the output and exit actions below, taken at once.
SpawnResolves ==
  /\ Up /\ spawn.phase = "native"
  /\ ~SpawnUnwanted
  /\ LET r == [Tracked(rt) EXCEPT !.sessionUsable = TRUE,
                                  !.cleanupIndeterminate = FALSE,
                                  !.attentionReason = "none"]
     IN \/ rt' = r /\ UNCHANGED kill
        \/ CleanupFailedStart(r)          \* a callback cannot be registered
  /\ pty' = [pty EXCEPT !.alive = @ \cup {spawn.generation}]
  /\ spawn' = NoSpawn
  /\ UNCHANGED <<shutdown, storeVars, process, worldVars, cancelled>>

\* promoteReady: a completed task whose PTY is gone is released only now,
\* when its replacement has proved ready.
PromoteReady(r) ==
  LET ready == ResolveReadiness(
                 BecomeReady([(IF r.completedBeforeExit THEN ClearAttachedTask(r)
                                                        ELSE r)
                              EXCEPT !.startupTimer = 0]))
      parked == RejectReadiness(
                  [Attention(r, "marker_cleanup_failed") EXCEPT !.startupTimer = 0])
  IN IF r.completedBeforeExit /\ HasTask(r)
     THEN \E o \in ClearOutcomes(marker, indeterminate, CompletedMarkerMatches(r)) :
            /\ StoreBecomes(o)
            /\ rt' = IF o.ok THEN ready ELSE parked
     ELSE rt' = ready /\ UNCHANGED storeVars

\* The session delivers events until the first kill() disposes of it.
Delivers == Up /\ rt.session # 0 /\ kill.phase = "none"

\* handleData in state starting: the readiness classifier's samples.
OutputWhileStarting ==
  /\ Delivers /\ rt.state = "starting"
  /\ \E readySample \in BOOLEAN :
       LET r == [rt EXCEPT !.idleConfirmationCount = 0,
                           !.readySamples = IF readySample
                                            THEN rt.readySamples + 1 ELSE 0]
       IN IF r.readySamples < ReadyConfirmSamples
          THEN rt' = r /\ UNCHANGED storeVars
          ELSE PromoteReady(r)
  /\ UNCHANGED <<hostVars, shutdown, process, worldVars, cancelled>>

\* handleData in state draining: the idle classifier's samples.
OutputWhileDraining ==
  /\ Delivers /\ rt.state = "draining"
  /\ \E idleSample \in BOOLEAN :
       rt' = [rt EXCEPT !.idleConfirmationCount =
                IF ~idleSample THEN 0
                ELSE IF @ < IdleConfirmSamples THEN @ + 1 ELSE @]
  /\ UNCHANGED <<hostVars, shutdown, storeVars, process, worldVars, cancelled>>

\* handleData in any other state.
OutputElsewhere ==
  /\ Delivers /\ rt.state \notin {"starting", "draining"}
  /\ rt' = [rt EXCEPT !.idleConfirmationCount = 0]
  /\ UNCHANGED <<hostVars, shutdown, storeVars, process, worldVars, cancelled>>

\* handleData: the query responder, the screen observer or a classifier
\* throws.
OutputHandlerFails ==
  /\ Delivers
  /\ IF rt.state = "starting"
     THEN CleanupFailedStart([rt EXCEPT !.startupTimer = 0])
     ELSE rt' = Attention(rt, "output_failed") /\ UNCHANGED kill
  /\ UNCHANGED <<spawn, pty, shutdown, storeVars, process, worldVars, cancelled>>

\* handleExit up to session.kill().
PtyExits ==
  /\ Delivers
  /\ \E disposeFails \in BOOLEAN :
       /\ rt' = [Stopping(rt) EXCEPT !.startupTimer = 0, !.stabilityTimer = FALSE,
                                    !.cleanupLedger = rt.cleanupLedger \/ disposeFails]
       /\ StartKill("exit", rt, disposeFails)
  /\ UNCHANGED <<spawn, pty, shutdown, storeVars, process, worldVars, cancelled>>

\* isCurrentSession, for the session and generation the waiter captured.
KillIsCurrent == rt.session # 0 /\ rt.generation = kill.generation

\* The continuation of handleExit.
ExitFinished ==
  IF ~KillIsCurrent THEN rt
  ELSE IF kill.disposeFailed THEN MarkCleanupIndeterminate(DisposeSession(rt))
  ELSE AfterExit(DisposeSession(rt), kill.previous)

\* Mistake: the promise of a start that failed is forgotten.
FailedStartForgotten ==
  LET failed == [DisposeSession(rt) EXCEPT !.state = "failed"]
  IN IF KillIsCurrent /\ kill.automatic THEN ScheduleRestart(failed) ELSE failed

\* The continuation of cleanupFailedStart: the subscriptions are gone already.
FailedStartFinished ==
  LET failed == [DisposeSession(rt) EXCEPT !.state = "failed"]
  IN IF ~KillIsCurrent THEN rt
     ELSE IF kill.automatic THEN ScheduleRestart(failed)
     ELSE RejectReadiness(failed)

\* Mistake: a cancelled start is restarted like one that timed out.
LateSpawnUncancelled ==
  LET gone == DisposeSession(rt)
  IN IF ~rt.shuttingDown /\ spawn.automatic
     THEN ScheduleRestart(gone)
     ELSE RejectReadiness([gone EXCEPT !.state = StoppedState(gone)])

\* The end of runSpawnAttempt for a late session.  Only the startup timeout
\* leaves generation and flag alone: it alone continues the restart chain.
LateSpawnFinished ==
  LET gone == DisposeSession(rt)
  IN IF ~rt.shuttingDown /\ rt.generation = spawn.generation /\ spawn.automatic
     THEN ScheduleRestart(gone)
     ELSE RejectReadiness([gone EXCEPT !.state = StoppedState(gone)])

\* finishStop of a shutdown runs before the continuations of handleExit and
\* cleanupFailedStart: those wait on a promise that adopted kill()'s.
ShutdownGoesFirst == shutdown.awaitsKill /\ KillIsCurrent

\* The process tree is gone.  Whoever continues first disposes of the session,
\* and the others then find that it is not current any more.
KillFulfilled ==
  /\ Up /\ kill.phase = "pending"
  /\ CASE kill.waiter \in {"exit", "failedStart"} /\ ShutdownGoesFirst ->
            rt' = FinishStop(rt, FALSE)
       [] kill.waiter = "exit" /\ ~ShutdownGoesFirst -> rt' = ExitFinished
       [] kill.waiter = "failedStart" /\ ~ShutdownGoesFirst -> rt' = FailedStartFinished
       [] kill.waiter = "lateSpawn" -> rt' = LateSpawnFinished
       [] OTHER -> \E disposeFails \in BOOLEAN :
                     rt' = IF KillIsCurrent THEN FinishStop(rt, disposeFails) ELSE rt
  /\ pty' = [pty EXCEPT !.alive = @ \ {rt.session}]
  /\ spawn' = IF spawn.phase = "lateKill" THEN NoSpawn ELSE spawn
  /\ kill' = NoKill
  /\ shutdown' = [shutdown EXCEPT !.awaitsKill = FALSE]
  /\ UNCHANGED <<storeVars, process, worldVars, cancelled>>

\* Mistake: the failure is only logged.
KillFailureDropped(r) == r

\* recordKillFailure: once per session, whoever sees the failure first.
RecordKillFailure(r) == [r EXCEPT !.cleanupLedger = @ \/ kill.phase = "pending"]

\* kill() rejects: the session stays tracked, so that activeCount() and the
\* ledger both see it.  A later kill() of that session rejects again.
KillRejected ==
  /\ Up
  /\ \/ kill.phase = "pending"
     \/ kill.phase = "failed" /\ (kill.waiter # "none" \/ shutdown.awaitsKill)
  /\ LET recorded == RecordKillFailure(rt)
         parked == IF KillIsCurrent \/ kill.waiter = "lateSpawn"
                   THEN MarkCleanupIndeterminate(recorded) ELSE recorded
     IN rt' = IF kill.waiter \in {"exit", "failedStart", "lateSpawn"}
              THEN RejectReadiness(parked) ELSE parked
  /\ spawn' = IF spawn.phase = "lateKill" THEN NoSpawn ELSE spawn
  /\ kill' = [NoKill EXCEPT !.phase = "failed"]
  /\ shutdown' = [shutdown EXCEPT !.awaitsKill = FALSE]
  /\ UNCHANGED <<pty, storeVars, process, worldVars, cancelled>>

\* The timer of scheduleRestart.
RestartTimerFires ==
  /\ Up /\ rt.restartTimer
  /\ LET r == [rt EXCEPT !.restartTimer = FALSE]
     IN IF rt.shuttingDown THEN rt' = RejectReadiness(r) /\ UNCHANGED spawn
                           ELSE SpawnAttempt(r, TRUE)
  /\ UNCHANGED <<kill, pty, shutdown, storeVars, process, worldVars, cancelled>>

\* The timer of scheduleStabilityReset; disposal and dispatch clear it.
StabilityTimerFires ==
  /\ Up /\ rt.stabilityTimer /\ rt.generation + MaxAttempts <= MaxGeneration
  /\ rt' = IF rt.session = 0 \/ rt.state # "ready"
           THEN [rt EXCEPT !.stabilityTimer = FALSE]
           ELSE [rt EXCEPT !.stabilityTimer = FALSE, !.restartAttempts = 0,
                           !.restartBudgetExhausted = FALSE]
  /\ UNCHANGED <<hostVars, shutdown, storeVars, process, worldVars, cancelled>>

\* cancel() answers true.  It answers false, and changes nothing the model
\* keeps but the stability timer, in every other case.
CancelPendingKillless ==       \* stopping, no session, the spawn still out
  /\ rt.state = "stopping" /\ rt.session = 0 /\ spawn.phase # "none"
  /\ GenerationToSpare
  /\ rt' = [rt EXCEPT !.generation = @ + 1]
  /\ UNCHANGED kill

CancelStarting ==              \* no session yet: invalidate the late spawn
  /\ rt.state # "stopping" /\ rt.session = 0
  /\ spawn.phase # "none" \/ rt.state = "starting"
  /\ GenerationToSpare
  /\ rt' = RejectReadiness(Stopping(
             [rt EXCEPT !.stabilityTimer = FALSE, !.restartTimer = FALSE,
                        !.generation = @ + 1]))
  /\ UNCHANGED kill

CancelRestart ==               \* only the backoff timer is pending
  /\ rt.state \notin {"stopping", "starting"} /\ rt.session = 0
  /\ spawn.phase = "none" /\ rt.restartTimer
  /\ rt' = [RejectReadiness([rt EXCEPT !.stabilityTimer = FALSE,
                                       !.restartTimer = FALSE])
            EXCEPT !.state = StoppedState(rt)]
  /\ UNCHANGED kill

CancelSession ==
  /\ rt.state # "stopping" /\ rt.session # 0
  /\ rt' = Stopping([rt EXCEPT !.stabilityTimer = FALSE, !.restartTimer = FALSE])
  /\ StartKill("stop", rt, FALSE)

Cancel ==
  /\ Up
  /\ CancelPendingKillless \/ CancelStarting \/ CancelRestart \/ CancelSession
  /\ cancelled' = TRUE
  /\ UNCHANGED <<spawn, pty, shutdown, storeVars, process, worldVars>>

\* dispatchAttachedTask, the write of the task input included.  The write
\* may throw before or after the input reached the PTY.
DispatchedRuntime(m) ==
  [rt EXCEPT !.stabilityTimer = FALSE, !.messageId = m,
             !.markerGeneration = rt.generation, !.receiptSequence = 0,
             !.completedBeforeExit = FALSE, !.controllerInputPending = TRUE,
             !.state = "busy", !.attentionReason = "none"]

CountInputs(m, n) ==
  writes' = IF receipt[m] = 0 THEN [writes EXCEPT ![m] = @ + n] ELSE writes

InputReached(m) == CountInputs(m, 1)

WriteThrows(m) ==
  /\ rt' = Attention(DispatchedRuntime(m), "input_outcome_unknown")
  /\ InputReached(m) \/ UNCHANGED writes

WriteSucceeds(m, accepted) ==
  LET sent == [DispatchedRuntime(m) EXCEPT !.controllerInputPending = FALSE]
  IN /\ InputReached(m)
     /\ \E o \in SaveOutcomes(accepted.marker, accepted.stuck,
                              TaskMarker(m, rt.generation, "written", 0)) :
          /\ StoreBecomes(o)
          /\ rt' = IF o.ok THEN sent ELSE Attention(sent, "marker_persist_failed")

\* dispatchAttachedTask asks for a ready PTY and no more.  A completed task
\* may come again: its inbox line stays UNREAD until the agent acknowledges
\* it, and the launch store allows a task several launches.
Dispatchable ==
  /\ Up /\ rt.preflight = "done"
  /\ rt.state = "ready" /\ rt.session # 0

\* Mistake: the dispatch goes on when its marker could not be saved.
AcceptOutcomesUnchecked(m) ==
  {[o EXCEPT !.ok = TRUE] : o \in
     SaveOutcomes(marker, indeterminate, TaskMarker(m, rt.generation, "accepted", 0))}

AcceptOutcomes(m) ==
  SaveOutcomes(marker, indeterminate, TaskMarker(m, rt.generation, "accepted", 0))

Dispatch(m) ==
  /\ Dispatchable
  /\ \E accepted \in AcceptOutcomes(m) :
       \/ /\ ~accepted.ok
          /\ StoreBecomes(accepted)
          /\ rt' = Attention(rt, "marker_persist_failed")
          /\ UNCHANGED writes
       \/ /\ accepted.ok
          /\ StoreBecomes(accepted)
          /\ WriteThrows(m)
       \/ accepted.ok /\ WriteSucceeds(m, accepted)
  /\ UNCHANGED <<hostVars, shutdown, process, receipt, cancelled>>

ReceiptApplied(r, sequence) ==
  [r EXCEPT !.completedBeforeExit = TRUE, !.receiptSequence = sequence,
            !.controllerInputPending = FALSE]

\* Mistake: the receipt is not checked to be of the current task.
IsAnyReceipt(r, m) == receipt[m] # 0 /\ HasTask(r)

IsCurrentReceipt(r, m) == receipt[m] # 0 /\ r.messageId = m

\* acknowledgeLiveCompletion of the receipt of m, once the marker is saved
\* or could not be: o is the outcome.
CanAcknowledge(r, m) ==
  IsCurrentReceipt(r, m) /\ r.state \in {"busy", "draining"}

Acknowledged(r, sequence, o) ==
  IF ~o.ok THEN Attention(r, "completion_persist_failed")
  ELSE [ArmCompletionGate(ReceiptApplied(r, sequence), sequence)
        EXCEPT !.state = "draining"]

AcknowledgeCompletion(m) ==
  /\ Up /\ rt.preflight = "done" /\ CanAcknowledge(rt, m)
  /\ \E o \in PersistOutcomes(marker, indeterminate, rt, receipt[m]) :
       StoreBecomes(o) /\ rt' = Acknowledged(rt, receipt[m], o)
  /\ UNCHANGED <<hostVars, shutdown, process, worldVars, cancelled>>

\* reconcileMarker of the receipt of m.  A parked terminal without a PTY is
\* restarted; a live one goes on draining if its PTY is the marker's.
CanReconcile(r, m) ==
  /\ IsCurrentReceipt(r, m)
  /\ r.state = "attention_required"
  /\ r.session # 0 => /\ r.sessionUsable /\ ~r.cleanupIndeterminate
                      /\ r.attentionReason \in ReconcilableReasons

\* Mistake: any live PTY will do.
RunsOnAnyPty(r) == TRUE

\* The live PTY is the one that was given the marker's task.
RunsOnMarkersPty(r) == r.generation = r.markerGeneration

Reconciled(r, sequence, o) ==
  LET applied == ReceiptApplied(r, sequence)
  IN IF ~o.ok THEN [r EXCEPT !.attentionReason = "completion_persist_failed"]
     ELSE IF r.session = 0 THEN ScheduleRestart(applied)
     ELSE IF ~RunsOnMarkersPty(r) THEN applied
     ELSE [ArmCompletionGate(applied, sequence)
           EXCEPT !.state = "draining", !.attentionReason = "none"]

\* reconcileMarker answers true.
ReconcileAccepts(r, o) ==
  o.ok /\ (r.session = 0 \/ RunsOnMarkersPty(r))

ReconcileMarker(m) ==
  /\ Up /\ rt.preflight = "done" /\ CanReconcile(rt, m)
  /\ \E o \in PersistOutcomes(marker, indeterminate, rt, receipt[m]) :
       /\ StoreBecomes(o)
       /\ rt' = Reconciled(rt, receipt[m], o)
       /\ cancelled' = (cancelled /\ ~ReconcileAccepts(rt, o))
  /\ UNCHANGED <<hostVars, shutdown, process, worldVars>>

\* acknowledgeStableIdle of a proof the pump takes from the snapshot in the
\* same step; whether the settle time has passed is left open.
IdleProofHolds ==
  /\ rt.state = "draining" /\ rt.session # 0
  /\ rt.gateSequence # 0
  /\ rt.gateGeneration = rt.generation /\ rt.gateSequence = rt.receiptSequence
  /\ ~rt.controllerInputPending /\ rt.sessionUsable /\ ~rt.cleanupIndeterminate
  /\ rt.idleConfirmationCount >= IdleConfirmSamples

AcknowledgeStableIdle ==
  /\ Up /\ IdleProofHolds
  /\ \E o \in ClearOutcomes(marker, indeterminate, CompletedMarkerMatches(rt)) :
       /\ StoreBecomes(o)
       /\ rt' = IF o.ok THEN BecomeReady(ClearAttachedTask(rt))
                ELSE Attention(rt, "marker_cleanup_failed")
  /\ UNCHANGED <<hostVars, shutdown, process, worldVars, cancelled>>

\* auditAttachedDeadlines, its stall warning left out: it changes no state.
AuditDeadlines ==
  /\ Up /\ rt.state = "draining" /\ HasTask(rt)
  /\ rt.gateSequence # 0
  /\ rt' = Attention(rt, "completion_idle_timeout")
  /\ UNCHANGED <<hostVars, shutdown, storeVars, process, worldVars, cancelled>>

\* shutdown() up to its await.  A rollback leaves a terminal that has neither
\* PTY nor task in the state it failed in.
StopAll(c) ==
  LET quiet == RejectReadiness(
                 [rt EXCEPT !.restartTimer = FALSE, !.startupTimer = 0,
                            !.stabilityTimer = FALSE, !.shuttingDown = TRUE])
  IN /\ rt' = IF quiet.session # 0 THEN Stopping(quiet)
              ELSE IF HasTask(quiet)
              THEN [quiet EXCEPT !.state = "attention_required"]
              ELSE IF c # "coordinator" THEN quiet
              ELSE [quiet EXCEPT !.state = "stopped"]
     /\ IF rt.session = 0 THEN UNCHANGED kill
        ELSE kill' = IF kill.waiter # "none" THEN kill
                     ELSE [kill EXCEPT !.phase = IF @ = "none" THEN "pending" ELSE @,
                                       !.generation = rt.generation]
     /\ shutdown' = [call |-> [shutdown.call EXCEPT ![c] = "pending"],
                     awaitsKill |-> shutdown.awaitsKill \/ rt.session # 0]
  /\ UNCHANGED <<spawn, pty, storeVars, process, worldVars, cancelled>>

NotCalled(c) == shutdown.call[c] = "none"

\* A signal, or main() after a startup that failed.
BeginShutdown == Up /\ NotCalled("coordinator") /\ StopAll("coordinator")

\* ensureReady's catch, for this terminal's failure or for another's.  It
\* does not wait for its own call while a native spawn is out.
PreflightRollback ==
  /\ Up /\ rt.preflight \in {"waiting", "ready", "rejected"}
  /\ NotCalled("manager")
  /\ StopAll("manager")

\* TerminalSinkRouter.ensureReady's catch: the manager has thrown, be it
\* after its own rollback, or because a terminal was refused or a shutdown
\* had begun before it started any; or a later sink has failed.
RouterRollback ==
  /\ Up /\ NotCalled("router")
  /\ ~NotCalled("manager") \/ rt.preflight \in {"idle", "refused", "ready"}
  /\ StopAll("router")

\* Mistakes: shutdown() does not wait for the orphans of the PTY host, not
\* for a spawn that is still out, or also for what can no longer end.
StopsWithoutOrphans == ~shutdown.awaitsKill /\ spawn.phase = "none"
StopsWithoutSpawn   == ~shutdown.awaitsKill /\ pty.unwinding = {}
StopsUntilInactive  == rt.session = 0 /\ spawn.phase = "none" /\ pty.unwinding = {}

\* Every kill, the spawn, and every orphan of the PTY host has settled.
StopsSettled ==
  ~shutdown.awaitsKill /\ spawn.phase = "none" /\ pty.unwinding = {}

\* The call of c sweeps the ledger and takes the host's unwind failures, and
\* returns or throws.  What one call has taken no later call sees.
ShutdownSettles(c) ==
  /\ Up /\ shutdown.call[c] = "pending" /\ StopsSettled
  /\ shutdown' = [shutdown EXCEPT !.call[c] =
                    IF rt.cleanupLedger \/ pty.unwindFailed THEN "failed" ELSE "clean"]
  /\ rt' = [rt EXCEPT !.cleanupLedger = FALSE]
  /\ pty' = [pty EXCEPT !.unwindFailed = FALSE]
  /\ UNCHANGED <<spawn, kill, storeVars, process, worldVars, cancelled>>

UnwindFails(g) ==
  pty' = [pty EXCEPT !.unwinding = @ \ {g}, !.unwindFailed = TRUE,
                     !.alive = @ \cup {g}]

\* Mistake: an orphan that could not be killed is not reported.
OrphanSettlesSilently(g) ==
  /\ Up /\ g \in pty.unwinding
  /\ \/ SpawnFails(g)
     \/ pty' = [pty EXCEPT !.unwinding = @ \ {g}, !.alive = @ \cup {g}]
  /\ UNCHANGED <<rt, spawn, kill, shutdown, storeVars, process, worldVars, cancelled>>

\* trackLateSpawnUnwind: the native spawn that lost to its deadline fails in
\* one of its ways, which nobody hears of, or it yields a session whose tree
\* is killed, or that kill fails.
OrphanSettles(g) ==
  /\ Up /\ g \in pty.unwinding
  /\ SpawnFails(g) \/ UnwindFails(g)
  /\ UNCHANGED <<rt, spawn, kill, shutdown, storeVars, process, worldVars, cancelled>>

\* The server commits the completion of a task its agent has received.
NextSequence == Cardinality({m \in Messages : receipt[m] # 0}) + 1

Complete(m) ==
  /\ writes[m] > 0 /\ receipt[m] = 0
  /\ receipt' = [receipt EXCEPT ![m] = NextSequence]
  /\ UNCHANGED <<rt, hostVars, shutdown, storeVars, process, writes, cancelled>>

\* The process dies, and its PTYs with it.
Dies ==
  /\ process' = [process EXCEPT !.up = FALSE]
  /\ rt' = CreateRuntime(NoMarker)
  /\ spawn' = NoSpawn /\ kill' = NoKill /\ pty' = NoPty /\ shutdown' = NoShutdown
  /\ indeterminate' = FALSE /\ cancelled' = FALSE

Crash == Up /\ Dies /\ UNCHANGED <<marker, worldVars>>

Moment(disk, reached) == [marker |-> disk, reached |-> reached]

\* Mistake: the input is written before the marker is saved.
DispatchMomentsWriteFirst(m) ==
  {Moment(NoMarker, 1), Moment(CorruptMarker, 1),
   Moment(TaskMarker(m, rt.generation, "accepted", 0), 1),
   Moment(TaskMarker(m, rt.generation, "written", 0), 1)}

\* What a process that dies inside a dispatch leaves behind: it dies in the
\* first save, before or after the write, or after the second save.
DispatchMoments(m) ==
  {Moment(CorruptMarker, 0),
   Moment(TaskMarker(m, rt.generation, "accepted", 0), 0),
   Moment(TaskMarker(m, rt.generation, "accepted", 0), 1),
   Moment(TaskMarker(m, rt.generation, "written", 0), 1)}

CrashDuringDispatch(m) ==
  /\ Dispatchable /\ marker.phase = "none" /\ ~indeterminate
  /\ \E moment \in DispatchMoments(m) :
       /\ marker' = moment.marker
       /\ CountInputs(m, moment.reached)
  /\ Dies
  /\ UNCHANGED receipt

\* A boot loads the marker, and fails on one it cannot decode.
Boot ==
  /\ ~process.up /\ process.boots < MaxBoots /\ marker.phase # "corrupt"
  /\ process' = [up |-> TRUE, boots |-> process.boots + 1]
  /\ rt' = CreateRuntime(marker)
  /\ UNCHANGED <<hostVars, shutdown, storeVars, worldVars, cancelled>>

\* Everything but the calls of the completion pump.
HostNext ==
  \/ EnsureReady \/ PreflightPasses
  \/ StartupTimerFires \/ SpawnRejects \/ SpawnResolvesLate
  \/ SpawnResolves \/ OutputWhileStarting \/ OutputWhileDraining
  \/ OutputElsewhere \/ OutputHandlerFails \/ PtyExits \/ KillFulfilled
  \/ KillRejected \/ RestartTimerFires \/ StabilityTimerFires \/ Cancel
  \/ BeginShutdown \/ PreflightRollback \/ RouterRollback
  \/ \E c \in ShutdownCallers : ShutdownSettles(c)
  \/ \E g \in pty.unwinding : OrphanSettles(g)
  \/ \E m \in Messages : Dispatch(m) \/ Complete(m) \/ CrashDuringDispatch(m)
  \/ Crash \/ Boot

PumpNext ==
  \/ \E m \in Messages : AcknowledgeCompletion(m) \/ ReconcileMarker(m)
  \/ AcknowledgeStableIdle \/ AuditDeadlines

Next == HostNext \/ PumpNext

Spec == Init /\ [][Next]_vars

-----------------------------------------------------------------------------
(* Safety. *)

ActiveCount0 == rt.session = 0 /\ spawn.phase = "none"

\* No message is typed into a PTY a second time before its completion is
\* committed, whatever fails and however often the runner is restarted: the
\* marker is written before the input and outlives the process.
UnfinishedIsWrittenOnce == \A m \in Messages : writes[m] <= 1

\* A task that reached a PTY and has no receipt is on record: its marker is
\* on disk, or a file that no process can load and that stops every boot.
UnfinishedIsOnRecord ==
  \A m \in Messages : writes[m] > 0 /\ receipt[m] = 0 =>
    marker.phase = "corrupt" \/ marker.messageId = m

\* A completed marker tells the truth: it carries the sequence under which
\* the server committed the completion of its task.
CompletedIsReceipted ==
  marker.phase = "completed" =>
    /\ marker.messageId \in Messages
    /\ marker.receiptSequence # 0
    /\ receipt[marker.messageId] = marker.receiptSequence

\* A terminal that takes work has a usable PTY and nothing left over from an
\* earlier task, in memory or on disk.
ReadyIsFree ==
  rt.state = "ready" =>
    /\ rt.session # 0 /\ rt.sessionUsable /\ kill.phase = "none"
    /\ ~HasTask(rt) /\ ~rt.completedBeforeExit /\ rt.gateSequence = 0
    /\ marker = NoMarker /\ ~indeterminate

\* A terminal at work has the marker of its task on disk, in the phase its
\* state stands for and of the PTY that runs the task.
LiveTaskIsDurable ==
  rt.state \in {"busy", "draining"} =>
    /\ rt.session # 0 /\ rt.sessionUsable /\ kill.phase = "none"
    /\ marker.messageId = rt.messageId /\ HasTask(rt)
    /\ marker.generation = rt.markerGeneration
    /\ rt.markerGeneration = rt.generation
    /\ marker.phase = IF rt.state = "busy" THEN "written" ELSE "completed"
    /\ rt.state = "draining" => /\ marker.receiptSequence = rt.receiptSequence
                                /\ rt.gateSequence = rt.receiptSequence

\* Only a terminal whose task is durably completed is started again: a task
\* whose outcome is unknown keeps it parked.
RestartsOnlyWhenFinished ==
  (rt.restartTimer \/ rt.state = "starting") /\ HasTask(rt) =>
    /\ rt.completedBeforeExit
    /\ marker.phase = "completed"
    /\ marker.messageId = rt.messageId

\* An attempt always has something pending that ends it, and only one thing.
\* While a terminal waits for its next attempt the restart timer is alone: no
\* PTY, no spawn, no kill, and a promise the attempt will settle.  While it
\* starts, its current spawn is out or its PTY is tracked, and the startup
\* timer is that of this very attempt.
RestartWaitsAlone ==
  rt.restartTimer =>
    /\ rt.state = "failed" /\ rt.readiness /\ ~rt.shuttingDown
    /\ rt.session = 0 /\ spawn.phase = "none" /\ kill.phase = "none"

StartingIsBounded ==
  rt.state = "starting" =>
    /\ rt.session # 0 \/ spawn.phase = "native"
    /\ rt.session # 0 => rt.session = rt.generation /\ kill.phase = "none"
    /\ ~rt.shuttingDown => rt.startupTimer = rt.generation

AttemptsAreBounded == RestartWaitsAlone /\ StartingIsBounded

ShutdownEnded(result) == \E c \in ShutdownCallers : shutdown.call[c] = result

\* Every process tree that runs and that anybody held a session of is the
\* tracked session's, or its escape is on the books for shutdown(), or a call
\* of shutdown() has already failed for it.
NoSilentLeak ==
  Up => \/ pty.alive \ pty.disowned \subseteq {rt.session}
        \/ pty.unwindFailed
        \/ ShutdownEnded("failed")

\* No order of the continuations of one kill() loses its failure: the
\* session stays tracked, and the error is in the ledger or was reported.
KillFailureIsReported ==
  kill.phase = "failed" =>
    /\ rt.session # 0
    /\ rt.cleanupLedger \/ ShutdownEnded("failed")

\* When shutdown() returns without an error, and no other call of it has
\* failed, nothing is tracked, nothing is still unwinding, and no tree runs
\* but those of spawns that were rejected.
CleanShutdownLeaksNothing ==
  ShutdownEnded("clean") /\ ~ShutdownEnded("failed") =>
    pty.alive \subseteq pty.disowned /\ pty.unwinding = {} /\ ActiveCount0

\* When shutdown() returns, nothing of the terminal can move any more.
SettledMeansQuiet ==
  ShutdownEnded("clean") \/ ShutdownEnded("failed") =>
    /\ spawn.phase = "none" /\ kill.phase # "pending"
    /\ ~rt.restartTimer /\ ~rt.stabilityTimer /\ ~rt.readiness
    /\ rt.state \notin {"starting", "ready", "busy", "draining"}

\* Until the first shutdown, a promise of readiness is settled by something
\* that is pending, or it belongs to a PTY whose cleanup has failed.
ReadinessIsBacked ==
  rt.readiness =>
    \/ rt.state = "starting" \/ rt.restartTimer
    \/ kill.phase = "pending" \/ spawn.phase # "none"
    \/ rt.cleanupIndeterminate

-----------------------------------------------------------------------------
(* What a step may never do. *)

\* A task is released, and its marker removed, only when the marker was
\* completed by a receipt of that task and the PTY it leaves is idle: the
\* one that ran it, or a replacement that has just proved ready.
ReleaseNeedsReceipt ==
  [][marker.phase # "none" /\ marker'.phase = "none" =>
       /\ marker.phase = "completed"
       /\ receipt[marker.messageId] = marker.receiptSequence
       /\ rt'.state \in {"ready", "attention_required"}]_vars

SpawnStarts == spawn.phase = "none" /\ spawn'.phase = "native"

\* Once cancel() has answered true, no PTY is spawned for the terminal until
\* a receipt asks for its restart.
CancelHonoured == [][~(cancelled /\ SpawnStarts)]_vars

\* After shutdown() has been called no PTY is spawned and no task is taken.
ShutdownIsFinal ==
  [][rt.shuttingDown =>
       /\ ~SpawnStarts
       /\ rt'.state = "ready" => rt.state = "ready"
       /\ marker.phase = "none" => marker'.phase = "none"]_vars

-----------------------------------------------------------------------------
(* Progress.  What it takes is in AttachedRunner, whose pump runs the       *)
(* deadline audits.                                                        *)

\* A terminal does not start, stop or drain for ever, nor in turns: some moment
\* it is in a state the operator, the poll loop or the restart policy acts on,
\* with main() no longer waiting for it (unless a PTY that could not be killed
\* holds it) and no shutdown() that has not returned.
Transient == rt.state \in {"starting", "stopping", "draining"}
PreflightOpen == rt.preflight = "waiting" /\ ~rt.cleanupIndeterminate
ShutdownOpen == \E c \in ShutdownCallers : shutdown.call[c] = "pending"

Unsettled == Transient \/ PreflightOpen \/ ShutdownOpen

TerminalSettles == Unsettled ~> ~Unsettled

-----------------------------------------------------------------------------
(* What the terminal promises to the tasks, whatever happens to its PTY and *)
(* to the runner: TaskSlot.  The marker file alone stands for the slot.     *)

Slot == INSTANCE TaskSlot WITH
          Free <- NoMessage,
          Sealed <- CorruptMarker,
          slot <- IF marker.phase = "corrupt" THEN CorruptMarker
                                              ELSE marker.messageId,
          delivered <- writes,
          finished <- {m \in Messages : receipt[m] # 0}

\* Every behaviour of the terminal is one of a slot that is taken before its
\* task is delivered, delivers no task again before it has finished, and is
\* given back when it has.
ImplementsTaskSlot == Slot!Spec

=============================================================================
