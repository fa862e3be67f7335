------------------------ MODULE AttachedControlProofs ------------------------
(***************************************************************************)
(* What the handlers of one attached terminal guarantee together, for any  *)
(* finite set of messages, any policy and any number of spawns, cancels,   *)
(* crashes and reboots: who owns a PTY, what a pending kill() or spawn()   *)
(* still has to settle, which work a restart may put at risk, and what a   *)
(* cancel and a shutdown leave behind.                                     *)
(*                                                                         *)
(* None of these is inductive by itself: the manager keeps no table of     *)
(* what is pending, so that what a continuation finds when it runs follows *)
(* from the state of everything else.  ControlInv says what: the pending   *)
(* spawn and the pending kill exclude each other but for the late kill,    *)
(* each waits in certain states of the terminal, and the task in memory is *)
(* what the marker on disk says wherever a restart could come.             *)
(***************************************************************************)
EXTENDS AttachedSessionProofs

-----------------------------------------------------------------------------
(* The inductive invariant.                                                 *)

\* Nothing is left on disk.
StoreIsClean == marker = NoMarker /\ ~indeterminate

\* The task in memory is the one on disk, and a receipt has completed it.
TaskIsFinished ==
  /\ rt.completedBeforeExit
  /\ marker.phase = "completed" /\ marker.messageId = rt.messageId

\* A restart from here puts no work at risk.
NothingOpen == IF HasTask(rt) THEN TaskIsFinished ELSE StoreIsClean

\* A process that is down has neither memory nor handles.
DownIsReset ==
  ~Up => /\ rt = CreateRuntime(NoMarker)
         /\ spawn = NoSpawn /\ kill = NoKill /\ pty = NoPty
         /\ shutdown = NoShutdown /\ ~indeterminate /\ ~cancelled

\* There is one way not to have a marker, and no gate without a task.
BlankIsBlank ==
  /\ marker.phase = "none" => marker = NoMarker
  /\ ~HasTask(rt) => rt.gateSequence = 0

\* main() calls ensureReady before anything could have moved the terminal.
PreflightIsFirst ==
  rt.preflight = "idle" =>
    /\ rt.session = 0 /\ spawn.phase = "none" /\ ~cancelled
    /\ ~rt.restartTimer /\ ~rt.readiness /\ rt.startupTimer = 0
    /\ rt.state \in {"stopped", "attention_required"}
    /\ Up /\ rt.state = "stopped" /\ ~rt.shuttingDown => ~HasTask(rt) /\ StoreIsClean

\* A pending native spawn is the only one that owns the terminal: no session,
\* no kill, and the state says whether it is still wanted.
SpawnsAreAlone ==
  /\ spawn.phase # "none" => spawn.generation \in 1 .. rt.generation
  /\ spawn.phase = "native" =>
       /\ rt.session = 0 /\ kill.phase = "none"
       /\ rt.state \in {"starting", "stopping"} \/ rt.shuttingDown
       /\ rt.state = "starting" => rt.generation = spawn.generation
       /\ rt.readiness => rt.state = "starting"

\* A pending kill stops the session it was called for, and nothing happens to
\* that session before its waiter continues.
KillsAreOwned ==
  /\ kill.phase = "none" => kill.waiter = "none" /\ ~shutdown.awaitsKill
  /\ kill.phase # "none" => rt.session # 0 /\ ~rt.sessionUsable
  /\ kill.phase = "pending" => rt.state = "stopping" /\ rt.generation = kill.generation
  /\ kill.phase = "failed" =>
       /\ kill.waiter \in {"none", "stop"} /\ rt.cleanupIndeterminate
       /\ rt.state \in {"attention_required", "stopping"}
       /\ kill.waiter # "none" \/ shutdown.awaitsKill => rt.generation = kill.generation
  /\ kill.waiter = "lateSpawn" <=> spawn.phase = "lateKill"
  /\ kill.waiter = "exit" /\ rt.readiness => kill.previous = "starting"

\* A live session that nobody kills is not in doubt, nor in a shutdown.
LiveIsWanted ==
  rt.session # 0 /\ kill.phase = "none" => ~rt.cleanupIndeterminate /\ ~rt.shuttingDown

\* Somebody has called shutdown().
Called == \E c \in ShutdownCallers : ~NotCalled(c)

\* shutdown() has silenced the timers, and waits for every pending kill.
ShutdownSeesAll ==
  /\ rt.shuttingDown <=> Called
  /\ rt.shuttingDown => ~rt.restartTimer /\ ~rt.stabilityTimer /\ ~rt.readiness
  /\ rt.shuttingDown /\ kill.phase = "pending" =>
       shutdown.awaitsKill \/ spawn.phase = "lateKill"
  /\ ShutdownEnded("clean") \/ ShutdownEnded("failed") =>
       rt.shuttingDown /\ spawn.phase = "none" /\ kill.phase # "pending"

\* No process tree goes by the name of no session.
PtysAreNamed == 0 \notin pty.alive /\ 0 \notin pty.unwinding

\* After a cancel, nothing is left that could start the terminal again.
CancelIsKept ==
  cancelled =>
    /\ ~rt.restartTimer /\ rt.state \notin {"starting", "ready", "busy", "draining"}
    /\ kill.waiter \notin {"exit", "failedStart"}
    /\ spawn.phase # "none" => rt.generation # spawn.generation
    /\ rt.session # 0 => kill.phase # "none"

\* Whatever may still lead to a start (a timer, a spawn, the continuation of a
\* kill) finds no unfinished task.
StartsAreClean ==
  /\ \/ rt.state = "starting" \/ rt.restartTimer \/ spawn.phase # "none"
     \/ kill.waiter = "failedStart"
     \/ kill.waiter = "exit" /\ kill.previous = "starting"
     => NothingOpen
  /\ kill.waiter = "exit" /\ kill.previous = "ready" => ~HasTask(rt) /\ StoreIsClean
  /\ kill.waiter = "exit" /\ kill.previous = "draining" =>
       HasTask(rt) /\ marker.phase = "completed" /\ marker.messageId = rt.messageId
  /\ rt.state = "starting" /\ rt.session # 0 => rt.sessionUsable

\* PTYs, spawns, kills and attempts.
SessionInv ==
  /\ SpawnsAreAlone /\ KillsAreOwned /\ LiveIsWanted /\ PtysAreNamed
  /\ AttemptsAreBounded /\ ReadinessIsBacked

\* Cancels, shutdowns and crashes.
EndingInv ==
  /\ DownIsReset /\ ShutdownSeesAll /\ CancelIsKept
  /\ NoSilentLeak /\ KillFailureIsReported /\ CleanShutdownLeaksNothing

\* The task and its marker.
WorkInv ==
  /\ BlankIsBlank /\ PreflightIsFirst /\ StartsAreClean
  /\ ReadyIsFree /\ LiveTaskIsDurable

ControlInv == SessionInv /\ EndingInv /\ WorkInv

-----------------------------------------------------------------------------
(* What the helpers on the runtime record leave alone. *)

SameTask(r, s) ==
  /\ s.messageId = r.messageId /\ s.markerGeneration = r.markerGeneration
  /\ s.receiptSequence = r.receiptSequence /\ s.gateSequence = r.gateSequence
  /\ s.completedBeforeExit = r.completedBeforeExit

SamePty(r, s) ==
  /\ s.session = r.session /\ s.sessionUsable = r.sessionUsable
  /\ s.cleanupIndeterminate = r.cleanupIndeterminate

SamePromise(r, s) == s.readiness = r.readiness /\ s.preflight = r.preflight

SameTimers(r, s) ==
  /\ s.startupTimer = r.startupTimer /\ s.restartTimer = r.restartTimer
  /\ s.stabilityTimer = r.stabilityTimer

SameFlags(r, s) ==
  /\ s.generation = r.generation /\ s.shuttingDown = r.shuttingDown
  /\ s.cleanupLedger = r.cleanupLedger

USE DEF SameTask, SamePty, SamePromise, SameTimers, SameFlags

\* s is r with its promise of readiness settled.
Settled(r, result, s) ==
  /\ SameTask(r, s) /\ SamePty(r, s) /\ SameTimers(r, s) /\ SameFlags(r, s)
  /\ s.state = r.state /\ ~s.readiness
  /\ s.preflight = IF r.readiness /\ r.preflight = "waiting"
                   THEN result ELSE r.preflight

USE DEF Settled

\* settleReadiness.
LEMMA SettleDoes ==
  ASSUME NEW r \in Runtime, NEW result, NEW s, s = SettleReadiness(r, result)
  PROVE  Settled(r, result, s)
BY DEF SettleReadiness, Runtime

\* An assignment to current.state.
LEMMA StateDoes ==
  ASSUME NEW r \in Runtime, NEW x, NEW s, s = [r EXCEPT !.state = x]
  PROVE  /\ SameTask(r, s) /\ SamePty(r, s) /\ SameTimers(r, s) /\ SameFlags(r, s)
         /\ SamePromise(r, s) /\ s.state = x
BY DEF Runtime

\* The terminal begins to stop.
LEMMA StoppingDoes ==
  ASSUME NEW r \in Runtime, NEW s, s = Stopping(r)
  PROVE  /\ SameTask(r, s) /\ SamePromise(r, s) /\ SameTimers(r, s) /\ SameFlags(r, s)
         /\ s.session = r.session /\ s.cleanupIndeterminate = r.cleanupIndeterminate
         /\ s.state = "stopping" /\ ~s.sessionUsable
BY DEF Stopping, Runtime

\* The startup timer is armed or cleared.
LEMMA UntimedDoes ==
  ASSUME NEW r \in Runtime, NEW n, NEW s, s = [r EXCEPT !.startupTimer = n]
  PROVE  /\ SameTask(r, s) /\ SamePty(r, s) /\ SamePromise(r, s) /\ SameFlags(r, s)
         /\ s.restartTimer = r.restartTimer /\ s.stabilityTimer = r.stabilityTimer
         /\ s.state = r.state /\ s.startupTimer = n
BY DEF Runtime

\* The timers of a start and of its stability are cleared.
LEMMA CalmedDoes ==
  ASSUME NEW r \in Runtime, NEW s,
         s = [r EXCEPT !.startupTimer = 0, !.stabilityTimer = FALSE]
  PROVE  /\ SameTask(r, s) /\ SamePty(r, s) /\ SamePromise(r, s) /\ SameFlags(r, s)
         /\ s.restartTimer = r.restartTimer /\ ~s.stabilityTimer
         /\ s.state = r.state /\ s.startupTimer = 0
BY DEF Runtime

\* disposeSession.
LEMMA DisposeDoes ==
  ASSUME NEW r \in Runtime, NEW s, s = DisposeSession(r)
  PROVE  /\ SameTask(r, s) /\ SamePromise(r, s) /\ SameTimers(r, s) /\ SameFlags(r, s)
         /\ s.state = r.state /\ s.session = 0
         /\ ~s.sessionUsable /\ ~s.cleanupIndeterminate
BY DEF DisposeSession, Runtime

\* markCleanupIndeterminate.
LEMMA IndeterminateDoes ==
  ASSUME NEW r \in Runtime, NEW s, s = MarkCleanupIndeterminate(r)
  PROVE  /\ SameTask(r, s) /\ SamePromise(r, s) /\ SameTimers(r, s) /\ SameFlags(r, s)
         /\ s.session = r.session /\ s.sessionUsable = r.sessionUsable
         /\ s.state = "attention_required" /\ s.cleanupIndeterminate
BY DEF MarkCleanupIndeterminate, Runtime

\* The terminal is parked.
LEMMA AttentionDoes ==
  ASSUME NEW r \in Runtime, NEW reason, NEW s, s = Attention(r, reason)
  PROVE  /\ SameTask(r, s) /\ SamePty(r, s) /\ SamePromise(r, s)
         /\ SameTimers(r, s) /\ SameFlags(r, s) /\ s.state = "attention_required"
BY DEF Attention, Runtime

\* The cleanup ledger is written.
LEMMA LedgerDoes ==
  ASSUME NEW r \in Runtime, NEW b, NEW s, s = [r EXCEPT !.cleanupLedger = b]
  PROVE  /\ SameTask(r, s) /\ SamePty(r, s) /\ SamePromise(r, s) /\ SameTimers(r, s)
         /\ s.generation = r.generation /\ s.shuttingDown = r.shuttingDown
         /\ s.state = r.state /\ s.cleanupLedger = b
BY DEF Runtime

\* A task that is let go leaves nothing behind in memory.
LEMMA ClearDoes ==
  ASSUME NEW r \in Runtime, NEW s, s = ClearAttachedTask(r)
  PROVE  /\ SamePty(r, s) /\ SamePromise(r, s) /\ SameTimers(r, s) /\ SameFlags(r, s)
         /\ s.state = r.state /\ s.messageId = NoMessage /\ s.markerGeneration = 0
         /\ s.receiptSequence = 0 /\ s.gateSequence = 0 /\ ~s.completedBeforeExit
BY DEF ClearAttachedTask, Runtime

\* armCompletionGate.
LEMMA ArmGateDoes ==
  ASSUME NEW r \in Runtime, NEW n, NEW s, s = ArmCompletionGate(r, n)
  PROVE  /\ SamePty(r, s) /\ SamePromise(r, s) /\ SameTimers(r, s) /\ SameFlags(r, s)
         /\ s.state = r.state /\ s.messageId = r.messageId
         /\ s.markerGeneration = r.markerGeneration
         /\ s.receiptSequence = r.receiptSequence
         /\ s.completedBeforeExit = r.completedBeforeExit /\ s.gateSequence = n
BY DEF ArmCompletionGate, Runtime

\* A receipt is taken over into memory.
LEMMA AppliedDoes ==
  ASSUME NEW r \in Runtime, NEW n, NEW s, s = ReceiptApplied(r, n)
  PROVE  /\ SamePty(r, s) /\ SamePromise(r, s) /\ SameTimers(r, s) /\ SameFlags(r, s)
         /\ s.state = r.state /\ s.messageId = r.messageId
         /\ s.markerGeneration = r.markerGeneration /\ s.gateSequence = r.gateSequence
         /\ s.receiptSequence = n /\ s.completedBeforeExit
BY DEF ReceiptApplied, Runtime

\* becomeReady.
LEMMA BecomeReadyDoes ==
  ASSUME NEW r \in Runtime, NEW s, s = BecomeReady(r)
  PROVE  /\ SameTask(r, s) /\ SamePty(r, s) /\ SamePromise(r, s) /\ SameFlags(r, s)
         /\ s.startupTimer = r.startupTimer /\ s.restartTimer = r.restartTimer
         /\ s.state = "ready"
BY DEF BecomeReady, Runtime

\* A restart is scheduled only outside a shutdown and for a terminal whose task,
\* if it has one, is finished; otherwise the promise of readiness is rejected.
MayRestart(r, s) ==
  /\ SameTask(r, s) /\ SamePty(r, s) /\ SameFlags(r, s)
  /\ s.startupTimer = 0 /\ ~s.stabilityTimer
  /\ s.preflight = "idle" <=> r.preflight = "idle"
  /\ \/ /\ ~r.shuttingDown /\ ~UnresolvedWork(r)
        /\ s.state = "failed" /\ s.restartTimer /\ s.readiness
     \/ /\ s.state \in {StoppedState(r), "attention_required", "failed"}
        /\ s.restartTimer = r.restartTimer /\ ~s.readiness

USE DEF MayRestart

\* scheduleRestart.
LEMMA ScheduleRestartDoes ==
  ASSUME NEW r \in Runtime, NEW s, s = ScheduleRestart(r)
  PROVE  MayRestart(r, s)
BY DEF ScheduleRestart, RejectReadiness, SettleReadiness, Runtime

\* s is r after finishStop.
Stopped(r, s) ==
  /\ SameTask(r, s)
  /\ s.generation = r.generation /\ s.shuttingDown = r.shuttingDown
  /\ r.cleanupLedger => s.cleanupLedger
  /\ s.session = 0 /\ ~s.sessionUsable
  /\ s.state \in {StoppedState(r), "attention_required"}
  /\ s.startupTimer = 0 /\ ~s.stabilityTimer /\ s.restartTimer = r.restartTimer
  /\ s.preflight = "idle" <=> r.preflight = "idle"
  /\ ~s.readiness

USE DEF Stopped

\* finishStop.
LEMMA FinishStopDoes ==
  ASSUME NEW r \in Runtime, NEW disposeFails, NEW s, s = FinishStop(r, disposeFails)
  PROVE  Stopped(r, s)
<1> DEFINE calmed == [r EXCEPT !.startupTimer = 0, !.stabilityTimer = FALSE]
           rejected == RejectReadiness(calmed)
           gone == DisposeSession(rejected)
           marked == MarkCleanupIndeterminate(gone)
<1>1. calmed \in Runtime
  BY TimersType
<1>2. rejected \in Runtime
  BY <1>1, RejectType
<1>3. gone \in Runtime
  BY <1>2, DisposeType
<1>4. marked \in Runtime
  BY <1>3, IndeterminateType
<1>5. s = IF disposeFails THEN [marked EXCEPT !.cleanupLedger = TRUE]
          ELSE [gone EXCEPT !.state = StoppedState(r)]
  BY Zenon DEF FinishStop
<1>6. /\ SameTask(r, calmed) /\ SamePromise(r, calmed) /\ SameFlags(r, calmed)
      /\ calmed.restartTimer = r.restartTimer /\ ~calmed.stabilityTimer
      /\ calmed.startupTimer = 0
  BY CalmedDoes
<1> HIDE DEF calmed
<1>7. /\ SameTask(calmed, rejected) /\ SameTimers(calmed, rejected)
      /\ SameFlags(calmed, rejected) /\ ~rejected.readiness
      /\ rejected.preflight = "idle" <=> calmed.preflight = "idle"
  BY <1>1, SettleDoes DEF RejectReadiness
<1>8. /\ SameTask(rejected, gone) /\ SamePromise(rejected, gone)
      /\ SameTimers(rejected, gone) /\ SameFlags(rejected, gone)
      /\ gone.session = 0 /\ ~gone.sessionUsable
  BY <1>2, DisposeDoes
<1> HIDE DEF rejected
<1>9. /\ SameTask(gone, marked) /\ SamePromise(gone, marked)
      /\ SameTimers(gone, marked) /\ SameFlags(gone, marked)
      /\ marked.session = 0 /\ ~marked.sessionUsable
      /\ marked.state = "attention_required"
  BY <1>3, <1>8, IndeterminateDoes
<1> HIDE DEF gone
<1>10. CASE disposeFails
  <2>1. /\ SameTask(marked, s) /\ SamePty(marked, s) /\ SamePromise(marked, s)
        /\ SameTimers(marked, s) /\ s.generation = marked.generation
        /\ s.shuttingDown = marked.shuttingDown
        /\ s.state = marked.state /\ s.cleanupLedger
    BY <1>4, <1>5, <1>10, LedgerDoes
  <2> QED BY <1>6, <1>7, <1>8, <1>9, <2>1
<1>11. CASE ~disposeFails
  <2>1. /\ SameTask(gone, s) /\ SamePty(gone, s) /\ SameTimers(gone, s)
        /\ SameFlags(gone, s) /\ SamePromise(gone, s) /\ s.state = StoppedState(r)
    BY <1>3, <1>5, <1>11, StateDoes
  <2> QED BY <1>6, <1>7, <1>8, <2>1
<1> QED BY <1>10, <1>11

\* s is r after transitionAfterAttachedExit.
Exited(r, previous, s) ==
  /\ SamePty(r, s) /\ SameFlags(r, s)
  /\ s.messageId = r.messageId /\ s.markerGeneration = r.markerGeneration
  /\ s.receiptSequence = r.receiptSequence /\ s.gateSequence = r.gateSequence
  /\ s.startupTimer \in {0, r.startupTimer}
  /\ s.stabilityTimer => r.stabilityTimer
  /\ s.preflight = "idle" <=> r.preflight = "idle"
  /\ (s.completedBeforeExit <=> r.completedBeforeExit \/ previous = "draining")
  /\ \/ /\ ~r.shuttingDown /\ s.state = "failed" /\ s.restartTimer /\ s.readiness
        /\ previous = "draining" \/ previous = "starting" \/ previous = "ready"
        /\ HasTask(r) => s.completedBeforeExit
     \/ /\ s.state \in {"stopped", "attention_required", "failed"}
        /\ s.restartTimer = r.restartTimer
        /\ s.readiness => r.readiness /\ previous \notin {"draining", "starting", "stopping"}

USE DEF Exited

\* transitionAfterAttachedExit.
LEMMA AfterExitDoes ==
  ASSUME NEW r \in Runtime, NEW previous \in States, NEW s, s = AfterExit(r, previous)
  PROVE  Exited(r, previous, s)
<1> DEFINE finished == [r EXCEPT !.completedBeforeExit = TRUE]
           rejected == RejectReadiness(r)
<1>1. finished \in Runtime
  BY Zenon DEF Runtime
<1>2. /\ SamePty(r, finished) /\ SamePromise(r, finished) /\ SameTimers(r, finished)
      /\ SameFlags(r, finished) /\ finished.messageId = r.messageId
      /\ finished.markerGeneration = r.markerGeneration
      /\ finished.receiptSequence = r.receiptSequence
      /\ finished.gateSequence = r.gateSequence /\ finished.completedBeforeExit
  BY DEF Runtime
<1>3. rejected \in Runtime
  BY RejectType
<1>4. /\ SameTask(r, rejected) /\ SamePty(r, rejected) /\ SameTimers(r, rejected)
      /\ SameFlags(r, rejected) /\ rejected.state = r.state /\ ~rejected.readiness
      /\ rejected.preflight = "idle" <=> r.preflight = "idle"
  BY SettleDoes DEF RejectReadiness
<1> HIDE DEF finished, rejected
<1>5. CASE previous = "draining"
  <2>1. s = ScheduleRestart(finished)
    BY <1>5, Zenon DEF AfterExit, FinishedBeforeExit, finished
  <2> QED BY <1>1, <1>2, <1>5, <2>1, ScheduleRestartDoes DEF StoppedState, HasTask
<1>6. CASE previous = "starting" \/ (previous = "ready" /\ ~HasTask(r))
  <2>1. s = ScheduleRestart(r)
    <3>1. CASE previous = "starting"
      BY <3>1 DEF AfterExit, FinishedBeforeExit
    <3>2. CASE previous = "ready" /\ ~HasTask(r)
      BY <3>2 DEF AfterExit, FinishedBeforeExit
    <3> QED BY <1>6, <3>1, <3>2
  <2> QED BY <1>6, <2>1, ScheduleRestartDoes
             DEF StoppedState, HasTask, UnresolvedWork, Runtime
<1>7. CASE previous = "busy"
  <2>1. s = Attention(r, "task_crash")
    BY <1>7 DEF AfterExit, FinishedBeforeExit
  <2> QED BY <1>7, <2>1, AttentionDoes DEF Runtime
<1>8. CASE previous = "stopping"
  <2>1. s = [rejected EXCEPT !.state = StoppedState(r)]
    BY <1>8 DEF AfterExit, FinishedBeforeExit, rejected
  <2> QED BY <1>3, <1>4, <1>8, <2>1, StateDoes DEF StoppedState, Runtime
<1>9. CASE /\ previous \notin {"draining", "starting", "busy", "stopping"}
           /\ ~(previous = "ready" /\ ~HasTask(r))
  <2>1. s = [r EXCEPT !.state = IF HasTask(r) THEN "attention_required" ELSE "failed"]
    BY <1>9 DEF AfterExit, FinishedBeforeExit
  <2> QED BY <1>9, <2>1, StateDoes DEF Runtime
<1> QED BY <1>5, <1>6, <1>7, <1>8, <1>9
-----------------------------------------------------------------------------
(* Each handler keeps the invariant.  The proof of a handler first says     *)
(* what the step makes of the fields of the runtime record; the invariant   *)
(* then follows from these facts by propositional reasoning.  The parts of  *)
(* ControlInv are open from here on: a leaf that cites DEF ControlInv uses  *)
(* them all.                                                                *)

\* What the types say of the fields the invariant speaks of.
Flat ==
  /\ rt.state \in States /\ rt.session \in Nat /\ rt.generation \in Nat
  /\ rt.startupTimer \in Nat
  /\ rt.completedBeforeExit \in BOOLEAN /\ rt.sessionUsable \in BOOLEAN
  /\ rt.cleanupIndeterminate \in BOOLEAN /\ rt.readiness \in BOOLEAN
  /\ rt.restartTimer \in BOOLEAN /\ rt.stabilityTimer \in BOOLEAN
  /\ rt.cleanupLedger \in BOOLEAN /\ rt.shuttingDown \in BOOLEAN
  /\ spawn.phase \in {"none", "native", "lateKill"} /\ spawn.generation \in Nat
  /\ kill.phase \in {"none", "pending", "failed"} /\ kill.generation \in Nat
  /\ kill.waiter \in {"none", "stop", "exit", "failedStart", "lateSpawn"}
  /\ kill.previous \in States
  /\ shutdown.awaitsKill \in BOOLEAN
  /\ pty.alive \subseteq Nat /\ pty.unwinding \subseteq Nat
  /\ indeterminate \in BOOLEAN /\ cancelled \in BOOLEAN

\* No call of shutdown() has begun or ended in a step.
SameCalls ==
  /\ Called' <=> Called
  /\ ShutdownEnded("clean")' <=> ShutdownEnded("clean")
  /\ ShutdownEnded("failed")' <=> ShutdownEnded("failed")

\* The fields have their types, before and after a step, and a step that leaves
\* the calls of shutdown() alone begins and ends none.
LEMMA TypesAreFlat ==
  /\ TypeOK => Flat
  /\ TypeOK' => Flat'
  /\ shutdown'.call = shutdown.call => SameCalls
<1>1. TypeOK => Flat
  BY DEF TypeOK, Flat, Runtime, Spawns, Kills, Hosts, Shutdowns
<1>2. TypeOK' => Flat'
  BY DEF TypeOK, Flat, Runtime, Spawns, Kills, Hosts, Shutdowns
<1>3. shutdown'.call = shutdown.call => SameCalls
  BY Zenon DEF SameCalls, Called, NotCalled, ShutdownEnded
<1> QED BY <1>1, <1>2, <1>3

USE DEF SessionInv, EndingInv, WorkInv, DownIsReset, BlankIsBlank, PreflightIsFirst,
        SpawnsAreAlone, KillsAreOwned, LiveIsWanted, ShutdownSeesAll, PtysAreNamed, CancelIsKept,
        StartsAreClean, ReadyIsFree, LiveTaskIsDurable, AttemptsAreBounded,
        RestartWaitsAlone, StartingIsBounded, ReadinessIsBacked, NoSilentLeak,
        KillFailureIsReported, CleanShutdownLeaksNothing, ActiveCount0,
        NothingOpen, TaskIsFinished, StoreIsClean, HasTask, StoppedState, Up, SameCalls

\* cleanupFailedStart stops the session of r and waits for its kill().
StartAbandoned(r) ==
  /\ SameTask(r, rt') /\ SamePromise(r, rt') /\ SameTimers(r, rt')
  /\ rt'.generation = r.generation /\ rt'.shuttingDown = r.shuttingDown
  /\ r.cleanupLedger => rt'.cleanupLedger
  /\ rt'.session = r.session /\ rt'.cleanupIndeterminate = r.cleanupIndeterminate
  /\ rt'.state = "stopping" /\ ~rt'.sessionUsable
  /\ kill'.phase = IF kill.phase = "none" THEN "pending" ELSE kill.phase
  /\ kill'.waiter = "failedStart" /\ kill'.generation = r.generation
  /\ kill'.previous = r.state

\* cleanupFailedStart.
LEMMA FailedStartDoes ==
  ASSUME NEW r \in Runtime, CleanupFailedStart(r)
  PROVE  StartAbandoned(r)
BY DEF StartAbandoned, CleanupFailedStart, Stopping, StartKill, Runtime

USE DEF StartAbandoned

\* The startup timer fires: too late, before a session, or with one.
LEMMA StartupTimerControl ==
  ASSUME TypeOK, TypeOK', ControlInv, StartupTimerFires
  PROVE  ControlInv'
<1> DEFINE r == [rt EXCEPT !.startupTimer = 0]
           stopping == Stopping(r)
<1>1. /\ Up /\ UNCHANGED <<spawn, pty, shutdown, marker, indeterminate, process, cancelled>>
      /\ IF rt.generation # rt.startupTimer \/ rt.state # "starting"
         THEN rt' = r /\ UNCHANGED kill
         ELSE IF rt.session = 0 THEN rt' = RejectReadiness(stopping) /\ UNCHANGED kill
         ELSE CleanupFailedStart(r)
  BY Zenon DEF StartupTimerFires, storeVars
<1>2. r \in Runtime /\ stopping \in Runtime
  BY TimersType, StoppingType DEF TypeOK
<1>3. /\ SameTask(rt, r) /\ SamePty(rt, r) /\ SamePromise(rt, r) /\ SameFlags(rt, r)
      /\ r.restartTimer = rt.restartTimer /\ r.stabilityTimer = rt.stabilityTimer
      /\ r.state = rt.state /\ r.startupTimer = 0
  BY UntimedDoes DEF TypeOK
<1> HIDE DEF r
<1>4. /\ SameTask(r, stopping) /\ SamePromise(r, stopping) /\ SameTimers(r, stopping)
      /\ SameFlags(r, stopping)
      /\ stopping.session = r.session
      /\ stopping.cleanupIndeterminate = r.cleanupIndeterminate
      /\ stopping.state = "stopping" /\ ~stopping.sessionUsable
  BY <1>2, StoppingDoes
<1> HIDE DEF stopping
<1>5. CASE rt.generation # rt.startupTimer \/ rt.state # "starting"
  <2>1. SessionInv'
    BY <1>1, <1>3, <1>5, TypesAreFlat DEF Flat, ControlInv
  <2>2. EndingInv'
    BY <1>1, <1>3, <1>5, TypesAreFlat DEF Flat, ControlInv
  <2>3. WorkInv'
    BY <1>1, <1>3, <1>5, TypesAreFlat DEF Flat, ControlInv
  <2> QED BY <2>1, <2>2, <2>3, Zenon DEF ControlInv
<1>6. CASE rt.generation = rt.startupTimer /\ rt.state = "starting" /\ rt.session = 0
  <2>1. Settled(stopping, "rejected", rt')
    BY <1>1, <1>2, <1>4, <1>6, SettleDoes DEF RejectReadiness
  <2>2. SessionInv'
    BY <1>1, <1>3, <1>4, <1>6, <2>1, TypesAreFlat DEF Flat, ControlInv
  <2>3. EndingInv'
    BY <1>1, <1>3, <1>4, <1>6, <2>1, TypesAreFlat DEF Flat, ControlInv
  <2>4. WorkInv'
    BY <1>1, <1>3, <1>4, <1>6, <2>1, TypesAreFlat DEF Flat, ControlInv
  <2> QED BY <2>2, <2>3, <2>4, Zenon DEF ControlInv
<1>7. CASE rt.generation = rt.startupTimer /\ rt.state = "starting" /\ rt.session # 0
  <2>1. StartAbandoned(r)
    BY <1>1, <1>2, <1>7, FailedStartDoes
  <2>2. SessionInv'
    BY <1>1, <1>3, <1>7, <2>1, TypesAreFlat DEF Flat, ControlInv
  <2>3. EndingInv'
    BY <1>1, <1>3, <1>7, <2>1, TypesAreFlat DEF Flat, ControlInv
  <2>4. WorkInv'
    BY <1>1, <1>3, <1>7, <2>1, TypesAreFlat DEF Flat, ControlInv
  <2> QED BY <2>2, <2>3, <2>4, Zenon DEF ControlInv
<1> QED BY <1>5, <1>6, <1>7

\* The tree of spawn g, should it run, has no owner; nothing else is new.
HostForgets(g) ==
  /\ pty'.alive \subseteq pty.alive \cup {g}
  /\ pty'.alive \ pty'.disowned \subseteq pty.alive \ pty.disowned
  /\ pty'.unwindFailed = pty.unwindFailed

USE DEF HostForgets

\* A spawn that fails leaves no tree that the host could report.
LEMMA SpawnFailsDoes ==
  ASSUME TypeOK, NEW g \in Nat, SpawnFails(g)
  PROVE  HostForgets(g) /\ pty'.unwinding \subseteq pty.unwinding
<1>1. CASE pty' = [pty EXCEPT !.unwinding = @ \ {g}]
  BY <1>1 DEF TypeOK, Hosts
<1>2. CASE pty' = [pty EXCEPT !.unwinding = @ \ {g}, !.alive = @ \cup {g},
                              !.disowned = @ \cup {g}]
  BY <1>2 DEF TypeOK, Hosts
<1> QED BY <1>1, <1>2, Zenon DEF SpawnFails

\* ptyHost.spawn throws.
LEMMA SpawnRejectsControl ==
  ASSUME TypeOK, TypeOK', ControlInv, SpawnRejects
  PROVE  ControlInv'
<1> DEFINE r == [rt EXCEPT !.startupTimer = 0]
           failed == [r EXCEPT !.state = "failed"]
<1>1. /\ Up /\ UNCHANGED <<kill, shutdown, marker, indeterminate, process, cancelled>>
      /\ spawn.phase = "native" /\ spawn' = NoSpawn
      /\ rt' = IF SpawnIsStale(r) THEN [r EXCEPT !.state = StoppedState(r)]
               ELSE IF spawn.automatic THEN ScheduleRestart(failed)
               ELSE RejectReadiness(failed)
  BY Zenon DEF SpawnRejects, storeVars
<1>2. /\ HostForgets(spawn.generation)
      /\ pty'.unwinding \subseteq pty.unwinding \cup {spawn.generation}
  <2>1. \/ SpawnFails(spawn.generation)
        \/ pty' = [pty EXCEPT !.unwinding = @ \cup {spawn.generation}]
    BY Zenon DEF SpawnRejects
  <2>2. CASE SpawnFails(spawn.generation)
    <3>1. spawn.generation \in Nat
      BY DEF TypeOK, Spawns
    <3> QED BY <2>2, <3>1, SpawnFailsDoes
  <2>3. CASE pty' = [pty EXCEPT !.unwinding = @ \cup {spawn.generation}]
    BY <2>3 DEF TypeOK, Hosts
  <2> QED BY <2>1, <2>2, <2>3
<1>3. spawn'.phase = "none"
  BY <1>1 DEF NoSpawn
<1>4. r \in Runtime /\ failed \in Runtime
  BY TimersType, StateType DEF TypeOK, States
<1>5. /\ SameTask(rt, r) /\ SamePty(rt, r) /\ SamePromise(rt, r) /\ SameFlags(rt, r)
      /\ r.restartTimer = rt.restartTimer /\ r.stabilityTimer = rt.stabilityTimer
      /\ r.state = rt.state /\ r.startupTimer = 0
  BY UntimedDoes DEF TypeOK
<1> HIDE DEF r
<1>6. /\ SameTask(r, failed) /\ SamePty(r, failed) /\ SamePromise(r, failed)
      /\ SameFlags(r, failed) /\ SameTimers(r, failed) /\ failed.state = "failed"
  BY <1>4, StateDoes
<1> HIDE DEF failed
<1>7. CASE SpawnIsStale(r)
  <2>1. /\ SameTask(r, rt') /\ SamePty(r, rt') /\ SamePromise(r, rt')
        /\ SameFlags(r, rt') /\ SameTimers(r, rt') /\ rt'.state = StoppedState(r)
    BY <1>1, <1>4, <1>7, StateDoes
  <2>2. rt.generation # spawn.generation \/ rt.state # "starting"
    BY <1>5, <1>7 DEF SpawnIsStale
  <2> QED BY <1>1, <1>2, <1>3, <1>5, <2>1, <2>2, TypesAreFlat DEF Flat, ControlInv
<1>8. CASE ~SpawnIsStale(r) /\ spawn.automatic
  <2>1. rt' = ScheduleRestart(failed)
    BY <1>1, <1>8
  <2>2. rt.generation = spawn.generation /\ rt.state = "starting"
    BY <1>5, <1>8 DEF SpawnIsStale
  <2>3. MayRestart(failed, rt')
    BY <1>4, <2>1, ScheduleRestartDoes
  <2>4. SessionInv'
    BY <1>1, <1>2, <1>3, <1>5, <1>6, <2>2, <2>3, TypesAreFlat
       DEF Flat, ControlInv
  <2>5. EndingInv'
    BY <1>1, <1>2, <1>3, <1>5, <1>6, <2>2, <2>3, TypesAreFlat
       DEF Flat, ControlInv
  <2>6. WorkInv'
    BY <1>1, <1>2, <1>3, <1>5, <1>6, <2>2, <2>3, TypesAreFlat
       DEF Flat, ControlInv
  <2> QED BY <2>4, <2>5, <2>6, Zenon DEF ControlInv
<1>9. CASE ~SpawnIsStale(r) /\ ~spawn.automatic
  <2>1. rt' = RejectReadiness(failed)
    BY <1>1, <1>9
  <2>2. rt.generation = spawn.generation /\ rt.state = "starting"
    BY <1>5, <1>9 DEF SpawnIsStale
  <2>3. Settled(failed, "rejected", rt')
    BY <1>4, <2>1, SettleDoes DEF RejectReadiness
  <2>4. SessionInv'
    BY <1>1, <1>2, <1>3, <1>5, <1>6, <2>2, <2>3, TypesAreFlat
       DEF Flat, ControlInv
  <2>5. EndingInv'
    BY <1>1, <1>2, <1>3, <1>5, <1>6, <2>2, <2>3, TypesAreFlat
       DEF Flat, ControlInv
  <2>6. WorkInv'
    BY <1>1, <1>2, <1>3, <1>5, <1>6, <2>2, <2>3, TypesAreFlat
       DEF Flat, ControlInv
  <2> QED BY <2>4, <2>5, <2>6, Zenon DEF ControlInv
<1> QED BY <1>7, <1>8, <1>9

\* A session is tracked.
LEMMA TrackedDoes ==
  ASSUME NEW r \in Runtime, NEW s, s = Tracked(r)
  PROVE  /\ SameTask(r, s) /\ SamePromise(r, s) /\ SameTimers(r, s) /\ SameFlags(r, s)
         /\ s.session = spawn.generation /\ s.sessionUsable = r.sessionUsable
         /\ s.cleanupIndeterminate = r.cleanupIndeterminate /\ s.state = r.state
BY DEF Tracked, Runtime

\* ptyHost.spawn yields a session nobody wants any more.
LEMMA SpawnResolvesLateControl ==
  ASSUME TypeOK, TypeOK', ControlInv, SpawnResolvesLate
  PROVE  ControlInv'
<1> DEFINE tracked == Tracked(rt)
<1>1. /\ Up /\ UNCHANGED <<shutdown, marker, indeterminate, process, cancelled>>
      /\ spawn.phase = "native" /\ SpawnUnwanted /\ rt' = Stopping(tracked)
      /\ StartKill("lateSpawn", rt, FALSE)
  BY Zenon DEF SpawnResolvesLate, storeVars
<1>2. /\ pty'.alive = pty.alive \cup {spawn.generation}
      /\ pty'.unwinding = pty.unwinding /\ pty'.unwindFailed = pty.unwindFailed
      /\ pty'.disowned = pty.disowned
      /\ spawn'.phase = "lateKill" /\ spawn'.generation = spawn.generation
  BY DEF SpawnResolvesLate, TypeOK, Spawns, Hosts
<1>3. /\ kill'.phase = IF kill.phase = "none" THEN "pending" ELSE kill.phase
      /\ kill'.waiter = "lateSpawn" /\ kill'.generation = rt.generation
  BY <1>1 DEF StartKill
<1>4. rt \in Runtime /\ tracked \in Runtime
  BY DEF TypeOK, Tracked, Runtime, Spawns
<1>5. /\ SameTask(rt, tracked) /\ SamePromise(rt, tracked) /\ SameTimers(rt, tracked)
      /\ SameFlags(rt, tracked) /\ tracked.session = spawn.generation
  BY <1>4, TrackedDoes
<1> HIDE DEF tracked
<1>6. /\ SameTask(tracked, rt') /\ SamePromise(tracked, rt') /\ SameTimers(tracked, rt')
      /\ SameFlags(tracked, rt') /\ rt'.session = tracked.session
      /\ rt'.state = "stopping" /\ ~rt'.sessionUsable
  BY <1>1, <1>4, StoppingDoes
<1>7. SessionInv'
  BY <1>1, <1>2, <1>3, <1>5, <1>6, TypesAreFlat
     DEF Flat, ControlInv, SpawnUnwanted, SpawnIsStale
<1>8. EndingInv'
  BY <1>1, <1>2, <1>3, <1>5, <1>6, TypesAreFlat
     DEF Flat, ControlInv, SpawnUnwanted, SpawnIsStale
<1>9. WorkInv'
  BY <1>1, <1>2, <1>3, <1>5, <1>6, TypesAreFlat
     DEF Flat, ControlInv, SpawnUnwanted, SpawnIsStale
<1> QED BY <1>7, <1>8, <1>9, Zenon DEF ControlInv

\* ptyHost.spawn yields the session of the current attempt.
LEMMA SpawnResolvesControl ==
  ASSUME TypeOK, TypeOK', ControlInv, SpawnResolves
  PROVE  ControlInv'
<1> DEFINE tracked == Tracked(rt)
           r == [tracked EXCEPT !.sessionUsable = TRUE,
                                !.cleanupIndeterminate = FALSE,
                                !.attentionReason = "none"]
<1>1. /\ Up /\ UNCHANGED <<shutdown, marker, indeterminate, process, cancelled>>
      /\ spawn.phase = "native" /\ ~SpawnUnwanted /\ spawn' = NoSpawn
      /\ (rt' = r /\ UNCHANGED kill) \/ CleanupFailedStart(r)
  BY Zenon DEF SpawnResolves, storeVars
<1>2. /\ pty'.alive = pty.alive \cup {spawn.generation}
      /\ pty'.unwinding = pty.unwinding /\ pty'.unwindFailed = pty.unwindFailed
      /\ pty'.disowned = pty.disowned
      /\ spawn'.phase = "none"
  BY DEF SpawnResolves, TypeOK, NoSpawn, Hosts
<1>3. rt \in Runtime /\ tracked \in Runtime
  BY DEF TypeOK, Tracked, Runtime, Spawns
<1>4. /\ SameTask(rt, tracked) /\ SamePromise(rt, tracked) /\ SameTimers(rt, tracked)
      /\ SameFlags(rt, tracked) /\ tracked.session = spawn.generation
      /\ tracked.state = rt.state
  BY <1>3, TrackedDoes
<1> HIDE DEF tracked
<1>5. /\ r \in Runtime
      /\ SameTask(tracked, r) /\ SamePromise(tracked, r) /\ SameTimers(tracked, r)
      /\ SameFlags(tracked, r) /\ r.session = tracked.session
      /\ r.sessionUsable /\ ~r.cleanupIndeterminate /\ r.state = tracked.state
  <2>1. r \in Runtime
    BY <1>3, ZenonT(60) DEF Runtime, Reasons
  <2>2. /\ SameTask(tracked, r) /\ SamePromise(tracked, r) /\ SameTimers(tracked, r)
        /\ SameFlags(tracked, r) /\ r.session = tracked.session
        /\ r.sessionUsable /\ ~r.cleanupIndeterminate /\ r.state = tracked.state
    BY <1>3, SMTT(30) DEF Runtime
  <2> QED BY <2>1, <2>2
<1> HIDE DEF r
<1>6. CASE rt' = r /\ UNCHANGED kill
  <2>1. SessionInv'
    BY <1>1, <1>2, <1>4, <1>5, <1>6, TypesAreFlat
       DEF Flat, ControlInv, SpawnUnwanted, SpawnIsStale
  <2>2. EndingInv'
    BY <1>1, <1>2, <1>4, <1>5, <1>6, TypesAreFlat
       DEF Flat, ControlInv, SpawnUnwanted, SpawnIsStale
  <2>3. WorkInv'
    BY <1>1, <1>2, <1>4, <1>5, <1>6, TypesAreFlat
       DEF Flat, ControlInv, SpawnUnwanted, SpawnIsStale
  <2> QED BY <2>1, <2>2, <2>3, Zenon DEF ControlInv
<1>7. CASE CleanupFailedStart(r)
  <2>1. StartAbandoned(r)
    BY <1>5, <1>7, FailedStartDoes
  <2>2. SessionInv'
    BY <1>1, <1>2, <1>4, <1>5, <2>1, TypesAreFlat
       DEF Flat, ControlInv, SpawnUnwanted, SpawnIsStale
  <2>3. EndingInv'
    BY <1>1, <1>2, <1>4, <1>5, <2>1, TypesAreFlat
       DEF Flat, ControlInv, SpawnUnwanted, SpawnIsStale
  <2>4. WorkInv'
    BY <1>1, <1>2, <1>4, <1>5, <2>1, TypesAreFlat
       DEF Flat, ControlInv, SpawnUnwanted, SpawnIsStale
  <2> QED BY <2>2, <2>3, <2>4, Zenon DEF ControlInv
<1> QED BY <1>1, <1>6, <1>7

\* A spawn attempt begins: a new generation, its startup timer, its spawn.
SpawnBegun(r) ==
  /\ SameTask(r, rt') /\ SamePty(r, rt') /\ SamePromise(r, rt')
  /\ rt'.shuttingDown = r.shuttingDown /\ rt'.restartTimer = r.restartTimer
  /\ rt'.state = "starting" /\ rt'.generation = r.generation + 1
  /\ rt'.startupTimer = r.generation + 1 /\ ~rt'.stabilityTimer
  /\ spawn'.phase = "native" /\ spawn'.generation = r.generation + 1

\* runSpawnAttempt up to its await.
LEMMA SpawnAttemptDoes ==
  ASSUME NEW r \in Runtime, NEW automatic \in BOOLEAN, r.session = 0,
         SpawnAttempt(r, automatic)
  PROVE  SpawnBegun(r)
<1> DEFINE s == [r EXCEPT !.stabilityTimer = FALSE, !.cleanupLedger = FALSE,
                          !.state = "starting", !.readySamples = 0,
                          !.automaticAttempt = automatic,
                          !.generation = @ + 1]
<1>1. /\ rt' = [s EXCEPT !.startupTimer = s.generation]
      /\ spawn' = [phase |-> "native", generation |-> r.generation + 1,
                   automatic |-> automatic]
  BY Zenon DEF SpawnAttempt, ArmStartupTimeout
<1>2. s \in Runtime
  <2>1. r.generation + 1 \in Nat /\ 0 \in Nat
    BY DEF Runtime
  <2>2. ASSUME NEW g \in Nat, NEW z \in Nat
        PROVE  [r EXCEPT !.stabilityTimer = FALSE, !.cleanupLedger = FALSE,
                         !.state = "starting", !.readySamples = z,
                         !.automaticAttempt = automatic, !.generation = g] \in Runtime
    BY ZenonT(60) DEF Runtime, States
  <2> QED BY <2>1, <2>2
<1>3. /\ SameTask(r, s) /\ SamePty(r, s) /\ SamePromise(r, s)
      /\ s.shuttingDown = r.shuttingDown /\ s.restartTimer = r.restartTimer
      /\ s.state = "starting" /\ s.generation = r.generation + 1 /\ ~s.stabilityTimer
  BY DEF Runtime
<1> HIDE DEF s
<1>4. /\ SameTask(s, rt') /\ SamePty(s, rt') /\ SamePromise(s, rt') /\ SameFlags(s, rt')
      /\ rt'.restartTimer = s.restartTimer /\ rt'.stabilityTimer = s.stabilityTimer
      /\ rt'.state = s.state /\ rt'.startupTimer = s.generation
  BY <1>1, <1>2, UntimedDoes
<1> QED BY <1>1, <1>3, <1>4 DEF SpawnBegun

USE DEF SpawnBegun

\* The preflight goes on, and nothing else moves.
LEMMA PreflightMovesControl ==
  ASSUME TypeOK, TypeOK', ControlInv, Up,
         UNCHANGED <<spawn, kill, pty, shutdown, marker, indeterminate, process, cancelled>>,
         NEW p \in {"refused", "ready", "done"}, rt' = [rt EXCEPT !.preflight = p]
  PROVE  ControlInv'
<1>1. /\ SameTask(rt, rt') /\ SamePty(rt, rt') /\ SameTimers(rt, rt')
      /\ SameFlags(rt, rt') /\ rt'.state = rt.state /\ rt'.readiness = rt.readiness
      /\ rt'.preflight = p
  BY DEF TypeOK, Runtime
<1>2. SessionInv'
  BY <1>1, TypesAreFlat DEF Flat, ControlInv
<1>3. EndingInv'
  BY <1>1, TypesAreFlat DEF Flat, ControlInv
<1>4. WorkInv'
  BY <1>1, TypesAreFlat DEF Flat, ControlInv
<1> QED BY <1>2, <1>3, <1>4, Zenon DEF ControlInv

\* main() goes on.
LEMMA PreflightPassesControl ==
  ASSUME TypeOK, TypeOK', ControlInv, PreflightPasses
  PROVE  ControlInv'
<1>1. /\ Up /\ rt' = [rt EXCEPT !.preflight = "done"]
      /\ UNCHANGED <<spawn, kill, pty, shutdown, marker, indeterminate, process, cancelled>>
  BY Zenon DEF PreflightPasses, hostVars, storeVars
<1> QED BY <1>1, PreflightMovesControl

\* main() asks for the terminal.
LEMMA EnsureReadyControl ==
  ASSUME TypeOK, TypeOK', ControlInv, EnsureReady
  PROVE  ControlInv'
<1> DEFINE r == [rt EXCEPT !.readiness = TRUE, !.preflight = "waiting"]
<1>1. /\ Up /\ UNCHANGED <<kill, pty, shutdown, marker, indeterminate, process, cancelled>>
      /\ rt.preflight = "idle" /\ ~rt.shuttingDown
      /\ \/ /\ rt' = [rt EXCEPT !.preflight = "refused"] /\ UNCHANGED spawn
         \/ /\ rt' = [rt EXCEPT !.preflight = "ready"] /\ UNCHANGED spawn
         \/ /\ rt.state # "attention_required" /\ SpawnAttempt(r, FALSE)
  BY Zenon DEF EnsureReady, storeVars
<1>2. ASSUME NEW p \in {"refused", "ready"}, rt' = [rt EXCEPT !.preflight = p],
             UNCHANGED spawn
      PROVE  ControlInv'
  BY <1>1, <1>2, PreflightMovesControl
<1>3. CASE rt.state # "attention_required" /\ SpawnAttempt(r, FALSE)
  <2>1. /\ r \in Runtime
        /\ SameTask(rt, r) /\ SamePty(rt, r) /\ SameTimers(rt, r) /\ SameFlags(rt, r)
        /\ r.state = rt.state /\ r.readiness /\ r.preflight = "waiting"
    BY DEF TypeOK, Runtime, Preflights
  <2> HIDE DEF r
  <2>2. rt.session = 0
    BY <1>1 DEF ControlInv
  <2>3. SpawnBegun(r)
    BY <1>3, <2>1, <2>2, SpawnAttemptDoes
  <2>4. SessionInv'
    BY <1>1, <1>3, <2>1, <2>3, TypesAreFlat DEF Flat, ControlInv
  <2>5. EndingInv'
    BY <1>1, <1>3, <2>1, <2>3, TypesAreFlat DEF Flat, ControlInv
  <2>6. WorkInv'
    BY <1>1, <1>3, <2>1, <2>3, TypesAreFlat DEF Flat, ControlInv
  <2> QED BY <2>4, <2>5, <2>6, Zenon DEF ControlInv
<1> QED BY <1>1, <1>2, <1>3

\* The backoff timer fires.
LEMMA RestartTimerControl ==
  ASSUME TypeOK, TypeOK', ControlInv, RestartTimerFires
  PROVE  ControlInv'
<1> DEFINE r == [rt EXCEPT !.restartTimer = FALSE]
<1>1. /\ Up /\ UNCHANGED <<kill, pty, shutdown, marker, indeterminate, process, cancelled>>
      /\ rt.restartTimer
      /\ rt.shuttingDown \/ SpawnAttempt(r, TRUE)
  BY Zenon DEF RestartTimerFires, storeVars
<1>2. /\ r \in Runtime
      /\ SameTask(rt, r) /\ SamePty(rt, r) /\ SamePromise(rt, r) /\ SameFlags(rt, r)
      /\ ~r.restartTimer
  BY DEF TypeOK, Runtime
<1> HIDE DEF r
<1>3. ~rt.shuttingDown /\ rt.session = 0
  BY <1>1 DEF ControlInv
<1>4. SpawnBegun(r)
  BY <1>1, <1>2, <1>3, SpawnAttemptDoes
<1>5. SessionInv'
  BY <1>1, <1>2, <1>3, <1>4, TypesAreFlat DEF Flat, ControlInv
<1>6. EndingInv'
  BY <1>1, <1>2, <1>3, <1>4, TypesAreFlat DEF Flat, ControlInv
<1>7. WorkInv'
  BY <1>1, <1>2, <1>3, <1>4, TypesAreFlat DEF Flat, ControlInv
<1> QED BY <1>5, <1>6, <1>7, Zenon DEF ControlInv

\* The session is stopped by its own exit.
LEMMA PtyExitsControl ==
  ASSUME TypeOK, TypeOK', ControlInv, PtyExits
  PROVE  ControlInv'
<1> DEFINE stopping == Stopping(rt)
<1>1. /\ Up /\ UNCHANGED <<spawn, pty, shutdown, marker, indeterminate, process, cancelled>>
      /\ rt.session # 0 /\ kill.phase = "none"
  BY Zenon DEF PtyExits, Delivers, storeVars
<1>2. PICK disposeFails \in BOOLEAN :
        /\ rt' = [stopping EXCEPT !.startupTimer = 0, !.stabilityTimer = FALSE,
                                  !.cleanupLedger = rt.cleanupLedger \/ disposeFails]
        /\ StartKill("exit", rt, disposeFails)
  BY Zenon DEF PtyExits
<1>3. /\ stopping \in Runtime
      /\ SameTask(rt, stopping) /\ SamePromise(rt, stopping) /\ SameTimers(rt, stopping)
      /\ SameFlags(rt, stopping) /\ stopping.session = rt.session
      /\ stopping.cleanupIndeterminate = rt.cleanupIndeterminate
      /\ stopping.state = "stopping" /\ ~stopping.sessionUsable
  BY StoppingType, StoppingDoes DEF TypeOK
<1> HIDE DEF stopping
<1>4. /\ SameTask(stopping, rt') /\ SamePromise(stopping, rt') /\ SamePty(stopping, rt')
      /\ rt'.generation = stopping.generation /\ rt'.shuttingDown = stopping.shuttingDown
      /\ rt'.restartTimer = stopping.restartTimer /\ ~rt'.stabilityTimer
      /\ rt'.startupTimer = 0 /\ rt'.state = stopping.state
  BY <1>2, <1>3 DEF Runtime
<1>5. /\ kill'.phase = "pending" /\ kill'.waiter = "exit"
      /\ kill'.generation = rt.generation /\ kill'.previous = rt.state
  BY <1>1, <1>2 DEF StartKill
<1>6. SessionInv'
  BY <1>1, <1>3, <1>4, <1>5, TypesAreFlat DEF Flat, ControlInv
<1>7. EndingInv'
  BY <1>1, <1>3, <1>4, <1>5, TypesAreFlat DEF Flat, ControlInv
<1>8. WorkInv'
  BY <1>1, <1>3, <1>4, <1>5, TypesAreFlat DEF Flat, ControlInv
<1> QED BY <1>6, <1>7, <1>8, Zenon DEF ControlInv

\* The output handler throws.
LEMMA OutputHandlerFailsControl ==
  ASSUME TypeOK, TypeOK', ControlInv, OutputHandlerFails
  PROVE  ControlInv'
<1> DEFINE r == [rt EXCEPT !.startupTimer = 0]
<1>1. /\ Up /\ UNCHANGED <<spawn, pty, shutdown, marker, indeterminate, process, cancelled>>
      /\ rt.session # 0 /\ kill.phase = "none"
      /\ \/ rt.state = "starting" /\ CleanupFailedStart(r)
         \/ rt.state # "starting" /\ rt' = Attention(rt, "output_failed") /\ UNCHANGED kill
  BY Zenon DEF OutputHandlerFails, Delivers, storeVars
<1>2. r \in Runtime
  BY TimersType DEF TypeOK
<1>3. /\ SameTask(rt, r) /\ SamePty(rt, r) /\ SamePromise(rt, r) /\ SameFlags(rt, r)
      /\ r.restartTimer = rt.restartTimer /\ r.stabilityTimer = rt.stabilityTimer
      /\ r.state = rt.state /\ r.startupTimer = 0
  BY UntimedDoes DEF TypeOK
<1> HIDE DEF r
<1>4. CASE rt.state = "starting" /\ CleanupFailedStart(r)
  <2>1. StartAbandoned(r)
    BY <1>2, <1>4, FailedStartDoes
  <2>2. SessionInv'
    BY <1>1, <1>3, <1>4, <2>1, TypesAreFlat DEF Flat, ControlInv
  <2>3. EndingInv'
    BY <1>1, <1>3, <1>4, <2>1, TypesAreFlat DEF Flat, ControlInv
  <2>4. WorkInv'
    BY <1>1, <1>3, <1>4, <2>1, TypesAreFlat DEF Flat, ControlInv
  <2> QED BY <2>2, <2>3, <2>4, Zenon DEF ControlInv
<1>5. CASE rt.state # "starting" /\ rt' = Attention(rt, "output_failed") /\ UNCHANGED kill
  <2>1. /\ SameTask(rt, rt') /\ SamePty(rt, rt') /\ SamePromise(rt, rt')
        /\ SameTimers(rt, rt') /\ SameFlags(rt, rt') /\ rt'.state = "attention_required"
    BY <1>5, AttentionDoes DEF TypeOK
  <2>2. SessionInv'
    BY <1>1, <1>5, <2>1, TypesAreFlat DEF Flat, ControlInv
  <2>3. EndingInv'
    BY <1>1, <1>5, <2>1, TypesAreFlat DEF Flat, ControlInv
  <2>4. WorkInv'
    BY <1>1, <1>5, <2>1, TypesAreFlat DEF Flat, ControlInv
  <2> QED BY <2>2, <2>3, <2>4, Zenon DEF ControlInv
<1> QED BY <1>1, <1>4, <1>5

\* clear() leaves the marker, or none; without an error, nothing at all.
LEMMA ClearLeaves ==
  ASSUME NEW r,
         NEW o \in ClearOutcomes(marker, indeterminate, CompletedMarkerMatches(r))
  PROVE  /\ o.marker \in {marker, NoMarker}
         /\ o.ok => o.marker = NoMarker /\ ~o.stuck
BY DEF ClearOutcomes, Outcome

\* A terminal that has proved ready lets go of its completed task, or is parked
\* with it.
Promoted(r) ==
  /\ SamePty(r, rt') /\ SameFlags(r, rt') /\ rt'.restartTimer = r.restartTimer
  /\ ~rt'.readiness /\ rt'.startupTimer = 0
  /\ rt'.preflight = "idle" <=> r.preflight = "idle"
  /\ marker' \in {marker, NoMarker}
  /\ \/ /\ rt'.state = "ready"
        /\ IF r.completedBeforeExit
           THEN /\ rt'.messageId = NoMessage /\ ~rt'.completedBeforeExit
                /\ rt'.gateSequence = 0
           ELSE SameTask(r, rt')
        /\ IF r.completedBeforeExit /\ HasTask(r)
           THEN marker' = NoMarker /\ ~indeterminate'
           ELSE UNCHANGED <<marker, indeterminate>>
     \/ /\ rt'.state = "attention_required" /\ SameTask(r, rt')
        /\ rt'.stabilityTimer = r.stabilityTimer

\* promoteReady: a finished task is let go, or the terminal is parked.
LEMMA PromoteReadyDoes ==
  ASSUME NEW r \in Runtime, PromoteReady(r)
  PROVE  Promoted(r)
<1> DEFINE base == IF r.completedBeforeExit THEN ClearAttachedTask(r) ELSE r
           untimed == [base EXCEPT !.startupTimer = 0]
           proved == BecomeReady(untimed)
           ready == ResolveReadiness(proved)
           warned == Attention(r, "marker_cleanup_failed")
           calm == [warned EXCEPT !.startupTimer = 0]
           parked == RejectReadiness(calm)
<1>1. base \in Runtime /\ warned \in Runtime
  BY ClearType, AttentionType DEF Reasons
<1>2. /\ SamePty(r, base) /\ SamePromise(r, base) /\ SameTimers(r, base)
      /\ SameFlags(r, base)
      /\ IF r.completedBeforeExit
         THEN base.messageId = NoMessage /\ ~base.completedBeforeExit /\ base.gateSequence = 0
         ELSE SameTask(r, base)
  BY ClearDoes
<1>3. /\ SameTask(r, warned) /\ SamePty(r, warned) /\ SamePromise(r, warned)
      /\ SameTimers(r, warned) /\ SameFlags(r, warned)
      /\ warned.state = "attention_required"
  BY AttentionDoes
<1>4. IF r.completedBeforeExit /\ HasTask(r)
      THEN \E o \in ClearOutcomes(marker, indeterminate, CompletedMarkerMatches(r)) :
             StoreBecomes(o) /\ rt' = IF o.ok THEN ready ELSE parked
      ELSE rt' = ready /\ UNCHANGED storeVars
  BY Zenon DEF PromoteReady
<1> HIDE DEF base, warned
<1>5. untimed \in Runtime /\ calm \in Runtime
  BY <1>1, TimersType
<1>6. /\ SameTask(base, untimed) /\ SamePty(base, untimed) /\ SamePromise(base, untimed)
      /\ SameFlags(base, untimed) /\ untimed.restartTimer = base.restartTimer
      /\ untimed.startupTimer = 0
  BY <1>1, UntimedDoes
<1>7. /\ SameTask(warned, calm) /\ SamePty(warned, calm) /\ SamePromise(warned, calm)
      /\ SameFlags(warned, calm) /\ calm.restartTimer = warned.restartTimer
      /\ calm.stabilityTimer = warned.stabilityTimer
      /\ calm.startupTimer = 0 /\ calm.state = warned.state
  BY <1>1, UntimedDoes
<1> HIDE DEF untimed, calm
<1>8. proved \in Runtime
  BY <1>5, BecomeReadyType
<1>9. /\ SameTask(untimed, proved) /\ SamePty(untimed, proved)
      /\ SamePromise(untimed, proved) /\ SameFlags(untimed, proved)
      /\ proved.startupTimer = untimed.startupTimer
      /\ proved.restartTimer = untimed.restartTimer /\ proved.state = "ready"
  BY <1>5, BecomeReadyDoes
<1> HIDE DEF proved
<1>10. Settled(proved, "ready", ready) /\ Settled(calm, "rejected", parked)
  BY <1>5, <1>8, SettleDoes DEF ResolveReadiness, RejectReadiness
<1> HIDE DEF ready, parked
<1>11. /\ SamePty(r, ready) /\ SameFlags(r, ready) /\ ready.restartTimer = r.restartTimer
       /\ ~ready.readiness /\ ready.startupTimer = 0 /\ ready.state = "ready"
       /\ ready.preflight = "idle" <=> r.preflight = "idle"
  BY <1>2, <1>6, <1>9, <1>10
<1>12. /\ r.completedBeforeExit => /\ ready.messageId = NoMessage
                                  /\ ~ready.completedBeforeExit
                                  /\ ready.gateSequence = 0
       /\ ~r.completedBeforeExit => SameTask(r, ready)
  BY <1>2, <1>6, <1>9, <1>10
<1>13. /\ SamePty(r, parked) /\ SameFlags(r, parked) /\ SameTask(r, parked)
       /\ parked.restartTimer = r.restartTimer /\ parked.stabilityTimer = r.stabilityTimer
       /\ ~parked.readiness /\ parked.startupTimer = 0
       /\ parked.state = "attention_required"
       /\ parked.preflight = "idle" <=> r.preflight = "idle"
  BY <1>3, <1>7, <1>10
<1>14. CASE ~(r.completedBeforeExit /\ HasTask(r))
  <2>1. rt' = ready /\ UNCHANGED <<marker, indeterminate>>
    BY <1>4, <1>14 DEF storeVars
  <2> QED BY <1>11, <1>12, <1>14, <2>1 DEF Promoted
<1>15. CASE r.completedBeforeExit /\ HasTask(r)
  <2>1. \/ rt' = ready /\ marker' = NoMarker /\ ~indeterminate'
        \/ rt' = parked /\ marker' \in {marker, NoMarker}
    BY <1>4, <1>15, ClearLeaves DEF StoreBecomes
  <2>2. CASE rt' = ready /\ marker' = NoMarker /\ ~indeterminate'
    BY <1>11, <1>12, <1>15, <2>2 DEF Promoted
  <2>3. CASE rt' = parked /\ marker' \in {marker, NoMarker}
    BY <1>13, <1>15, <2>3 DEF Promoted
  <2> QED BY <2>1, <2>2, <2>3
<1> QED BY <1>14, <1>15

USE DEF Promoted

\* The classifier samples a terminal that starts.
LEMMA OutputWhileStartingControl ==
  ASSUME TypeOK, TypeOK', ControlInv, OutputWhileStarting
  PROVE  ControlInv'
<1> DEFINE k(readySample) == IF readySample THEN rt.readySamples + 1 ELSE 0
           r(readySample) == [rt EXCEPT !.idleConfirmationCount = 0,
                                        !.readySamples = k(readySample)]
<1>1. /\ Up /\ UNCHANGED <<spawn, kill, pty, shutdown, process, cancelled>>
      /\ rt.session # 0 /\ kill.phase = "none" /\ rt.state = "starting"
  BY Zenon DEF OutputWhileStarting, Delivers, hostVars
<1>2. PICK readySample \in BOOLEAN :
        (rt' = r(readySample) /\ UNCHANGED storeVars) \/ PromoteReady(r(readySample))
  BY Zenon DEF OutputWhileStarting
<1>3. k(readySample) \in Nat
  BY DEF TypeOK, Runtime
<1> HIDE DEF k
<1> DEFINE s == r(readySample)
<1>4. s \in Runtime
  BY <1>3, SamplesType DEF TypeOK
<1>5. /\ SameTask(rt, s) /\ SamePty(rt, s) /\ SamePromise(rt, s) /\ SameTimers(rt, s)
      /\ SameFlags(rt, s) /\ s.state = rt.state
  BY DEF TypeOK, Runtime
<1>6. (rt' = s /\ UNCHANGED storeVars) \/ PromoteReady(s)
  BY <1>2
<1> HIDE DEF s
<1>7. CASE rt' = s /\ UNCHANGED storeVars
  <2>1. marker' = marker /\ indeterminate' = indeterminate
    BY <1>7 DEF storeVars
  <2>2. SessionInv'
    BY <1>1, <1>5, <1>7, <2>1, TypesAreFlat DEF Flat, ControlInv
  <2>3. EndingInv'
    BY <1>1, <1>5, <1>7, <2>1, TypesAreFlat DEF Flat, ControlInv
  <2>4. WorkInv'
    BY <1>1, <1>5, <1>7, <2>1, TypesAreFlat DEF Flat, ControlInv
  <2> QED BY <2>2, <2>3, <2>4, Zenon DEF ControlInv
<1>8. CASE PromoteReady(s)
  <2>1. Promoted(s)
    BY <1>4, <1>8, PromoteReadyDoes
  <2>2. SessionInv'
    BY <1>1, <1>5, <2>1, TypesAreFlat DEF Flat, ControlInv, NoMarker
  <2>3. EndingInv'
    BY <1>1, <1>5, <2>1, TypesAreFlat DEF Flat, ControlInv, NoMarker
  <2>4. WorkInv'
    BY <1>1, <1>5, <2>1, TypesAreFlat DEF Flat, ControlInv, NoMarker
  <2> QED BY <2>2, <2>3, <2>4, Zenon DEF ControlInv
<1> QED BY <1>6, <1>7, <1>8

\* Output of a terminal that drains, or that nobody classifies, counts samples.
LEMMA CountingControl ==
  ASSUME TypeOK, TypeOK', ControlInv,
         Up, UNCHANGED <<hostVars, shutdown, storeVars, process, cancelled>>,
         NEW n, rt' = [rt EXCEPT !.idleConfirmationCount = n]
  PROVE  ControlInv'
<1>1. /\ SameTask(rt, rt') /\ SamePty(rt, rt') /\ SamePromise(rt, rt')
      /\ SameTimers(rt, rt') /\ SameFlags(rt, rt') /\ rt'.state = rt.state
  BY DEF TypeOK, Runtime
<1>2. SessionInv'
  BY <1>1, TypesAreFlat DEF Flat, ControlInv, hostVars, storeVars
<1>3. EndingInv'
  BY <1>1, TypesAreFlat DEF Flat, ControlInv, hostVars, storeVars
<1>4. WorkInv'
  BY <1>1, TypesAreFlat DEF Flat, ControlInv, hostVars, storeVars
<1> QED BY <1>2, <1>3, <1>4, Zenon DEF ControlInv

\* The idle classifier samples a terminal that drains.
LEMMA OutputWhileDrainingControl ==
  ASSUME TypeOK, TypeOK', ControlInv, OutputWhileDraining
  PROVE  ControlInv'
<1>1. \E n : rt' = [rt EXCEPT !.idleConfirmationCount = n]
  BY Zenon DEF OutputWhileDraining
<1>2. Up /\ UNCHANGED <<hostVars, shutdown, storeVars, process, cancelled>>
  BY Zenon DEF OutputWhileDraining, Delivers
<1> QED BY <1>1, <1>2, CountingControl

\* Output in any other state.
LEMMA OutputElsewhereControl ==
  ASSUME TypeOK, TypeOK', ControlInv, OutputElsewhere
  PROVE  ControlInv'
BY Zenon, CountingControl DEF OutputElsewhere, Delivers

\* The restart budget is forgiven.
LEMMA StabilityTimerControl ==
  ASSUME TypeOK, TypeOK', ControlInv, StabilityTimerFires
  PROVE  ControlInv'
<1>1. /\ Up /\ UNCHANGED <<hostVars, shutdown, storeVars, process, cancelled>>
      /\ rt' \in {[rt EXCEPT !.stabilityTimer = FALSE],
                  [rt EXCEPT !.stabilityTimer = FALSE, !.restartAttempts = 0,
                             !.restartBudgetExhausted = FALSE]}
  BY DEF StabilityTimerFires
<1>2. /\ SameTask(rt, rt') /\ SamePty(rt, rt') /\ SamePromise(rt, rt')
      /\ SameFlags(rt, rt') /\ rt'.state = rt.state
      /\ rt'.startupTimer = rt.startupTimer /\ rt'.restartTimer = rt.restartTimer
      /\ ~rt'.stabilityTimer
  <2>1. CASE rt' = [rt EXCEPT !.stabilityTimer = FALSE]
    BY <2>1 DEF TypeOK, Runtime
  <2>2. CASE rt' = [rt EXCEPT !.stabilityTimer = FALSE, !.restartAttempts = 0,
                              !.restartBudgetExhausted = FALSE]
    BY <2>2 DEF TypeOK, Runtime
  <2> QED BY <1>1, <2>1, <2>2
<1>3. SessionInv'
  BY <1>1, <1>2, TypesAreFlat DEF Flat, ControlInv, hostVars, storeVars
<1>4. EndingInv'
  BY <1>1, <1>2, TypesAreFlat DEF Flat, ControlInv, hostVars, storeVars
<1>5. WorkInv'
  BY <1>1, <1>2, TypesAreFlat DEF Flat, ControlInv, hostVars, storeVars
<1> QED BY <1>3, <1>4, <1>5, Zenon DEF ControlInv

\* The drain took too long.
LEMMA AuditDeadlinesControl ==
  ASSUME TypeOK, TypeOK', ControlInv, AuditDeadlines
  PROVE  ControlInv'
<1>1. /\ Up /\ UNCHANGED <<hostVars, shutdown, storeVars, process, cancelled>>
      /\ rt.state = "draining" /\ rt' = Attention(rt, "completion_idle_timeout")
  BY Zenon DEF AuditDeadlines
<1>2. /\ SameTask(rt, rt') /\ SamePty(rt, rt') /\ SamePromise(rt, rt')
      /\ SameTimers(rt, rt') /\ SameFlags(rt, rt') /\ rt'.state = "attention_required"
  BY <1>1, AttentionDoes DEF TypeOK
<1>3. SessionInv'
  BY <1>1, <1>2, TypesAreFlat DEF Flat, ControlInv, hostVars, storeVars
<1>4. EndingInv'
  BY <1>1, <1>2, TypesAreFlat DEF Flat, ControlInv, hostVars, storeVars
<1>5. WorkInv'
  BY <1>1, <1>2, TypesAreFlat DEF Flat, ControlInv, hostVars, storeVars
<1> QED BY <1>3, <1>4, <1>5, Zenon DEF ControlInv

\* No way to cancel leaves anything that would spawn.
LEMMA CancelPendingKilllessControl ==
  ASSUME TypeOK, TypeOK', ControlInv, Cancel, CancelPendingKillless
  PROVE  ControlInv'
<1>1. /\ Up /\ UNCHANGED <<spawn, kill, pty, shutdown, marker, indeterminate, process>>
      /\ cancelled' /\ rt.state = "stopping" /\ rt.session = 0 /\ spawn.phase # "none"
      /\ rt' = [rt EXCEPT !.generation = @ + 1]
  BY DEF Cancel, CancelPendingKillless, storeVars
<1>2. /\ SameTask(rt, rt') /\ SamePty(rt, rt') /\ SamePromise(rt, rt')
      /\ SameTimers(rt, rt') /\ rt'.state = rt.state
      /\ rt'.shuttingDown = rt.shuttingDown /\ rt'.cleanupLedger = rt.cleanupLedger
      /\ rt'.generation = rt.generation + 1
  BY <1>1 DEF TypeOK, Runtime
<1>3. SessionInv'
  BY <1>1, <1>2, TypesAreFlat DEF Flat, ControlInv
<1>4. EndingInv'
  BY <1>1, <1>2, TypesAreFlat DEF Flat, ControlInv
<1>5. WorkInv'
  BY <1>1, <1>2, TypesAreFlat DEF Flat, ControlInv
<1> QED BY <1>3, <1>4, <1>5, Zenon DEF ControlInv

\* cancel() silences the timers of a restart and of its stability.
LEMMA SilencedDoes ==
  ASSUME NEW r \in Runtime, NEW s,
         s = [r EXCEPT !.stabilityTimer = FALSE, !.restartTimer = FALSE]
  PROVE  /\ s \in Runtime
         /\ SameTask(r, s) /\ SamePty(r, s) /\ SamePromise(r, s) /\ SameFlags(r, s)
         /\ s.startupTimer = r.startupTimer /\ ~s.restartTimer /\ ~s.stabilityTimer
         /\ s.state = r.state
<1>1. s \in Runtime
  BY ZenonT(60) DEF Runtime
<1>2. /\ SameTask(r, s) /\ SamePty(r, s) /\ SamePromise(r, s) /\ SameFlags(r, s)
      /\ s.startupTimer = r.startupTimer /\ ~s.restartTimer /\ ~s.stabilityTimer
      /\ s.state = r.state
  BY SMTT(30) DEF Runtime
<1> QED BY <1>1, <1>2

\* cancel() before there is a session.
LEMMA CancelStartingControl ==
  ASSUME TypeOK, TypeOK', ControlInv, Cancel, CancelStarting
  PROVE  ControlInv'
<1> DEFINE r == [rt EXCEPT !.stabilityTimer = FALSE, !.restartTimer = FALSE,
                           !.generation = @ + 1]
           stopping == Stopping(r)
<1>1. /\ Up /\ UNCHANGED <<spawn, kill, pty, shutdown, marker, indeterminate, process>>
      /\ cancelled' /\ rt.state # "stopping" /\ rt.session = 0
      /\ spawn.phase # "none" \/ rt.state = "starting"
      /\ rt' = RejectReadiness(stopping)
  BY Zenon DEF Cancel, CancelStarting, storeVars
<1>2. r \in Runtime
  <2>1. rt.generation + 1 \in Nat
    BY DEF TypeOK, Runtime
  <2>2. ASSUME NEW g \in Nat
        PROVE  [rt EXCEPT !.stabilityTimer = FALSE, !.restartTimer = FALSE,
                          !.generation = g] \in Runtime
    BY ZenonT(60) DEF TypeOK, Runtime
  <2> QED BY <2>1, <2>2
<1>3. /\ SameTask(rt, r) /\ SamePty(rt, r) /\ SamePromise(rt, r)
      /\ r.shuttingDown = rt.shuttingDown /\ r.cleanupLedger = rt.cleanupLedger
      /\ r.startupTimer = rt.startupTimer /\ ~r.restartTimer /\ ~r.stabilityTimer
      /\ r.generation = rt.generation + 1
  BY DEF TypeOK, Runtime
<1> HIDE DEF r
<1>4. /\ stopping \in Runtime
      /\ SameTask(r, stopping) /\ SamePromise(r, stopping) /\ SameTimers(r, stopping)
      /\ SameFlags(r, stopping) /\ stopping.session = r.session
      /\ stopping.cleanupIndeterminate = r.cleanupIndeterminate
      /\ stopping.state = "stopping" /\ ~stopping.sessionUsable
  BY <1>2, StoppingType, StoppingDoes
<1> HIDE DEF stopping
<1>5. Settled(stopping, "rejected", rt')
  BY <1>1, <1>4, SettleDoes DEF RejectReadiness
<1>6. SessionInv'
  BY <1>1, <1>3, <1>4, <1>5, TypesAreFlat DEF Flat, ControlInv
<1>7. EndingInv'
  BY <1>1, <1>3, <1>4, <1>5, TypesAreFlat DEF Flat, ControlInv
<1>8. WorkInv'
  BY <1>1, <1>3, <1>4, <1>5, TypesAreFlat DEF Flat, ControlInv
<1> QED BY <1>6, <1>7, <1>8, Zenon DEF ControlInv

\* cancel() of a backoff timer.
LEMMA CancelRestartControl ==
  ASSUME TypeOK, TypeOK', ControlInv, Cancel, CancelRestart
  PROVE  ControlInv'
<1> DEFINE r == [rt EXCEPT !.stabilityTimer = FALSE, !.restartTimer = FALSE]
           rejected == RejectReadiness(r)
<1>1. /\ Up /\ UNCHANGED <<spawn, kill, pty, shutdown, marker, indeterminate, process>>
      /\ cancelled' /\ rt.restartTimer
      /\ rt' = [rejected EXCEPT !.state = StoppedState(rt)]
  BY Zenon DEF Cancel, CancelRestart, storeVars
<1>2. /\ r \in Runtime
      /\ SameTask(rt, r) /\ SamePty(rt, r) /\ SamePromise(rt, r) /\ SameFlags(rt, r)
      /\ r.startupTimer = rt.startupTimer /\ ~r.restartTimer /\ ~r.stabilityTimer
  BY SilencedDoes DEF TypeOK
<1> HIDE DEF r
<1>3. rejected \in Runtime /\ Settled(r, "rejected", rejected)
  BY <1>2, RejectType, SettleDoes DEF RejectReadiness
<1> HIDE DEF rejected
<1>4. /\ SameTask(rejected, rt') /\ SamePty(rejected, rt') /\ SameTimers(rejected, rt')
      /\ SameFlags(rejected, rt') /\ SamePromise(rejected, rt')
      /\ rt'.state = StoppedState(rt)
  BY <1>1, <1>3, StateDoes
<1>5. SessionInv'
  BY <1>1, <1>2, <1>3, <1>4, TypesAreFlat DEF Flat, ControlInv
<1>6. EndingInv'
  BY <1>1, <1>2, <1>3, <1>4, TypesAreFlat DEF Flat, ControlInv
<1>7. WorkInv'
  BY <1>1, <1>2, <1>3, <1>4, TypesAreFlat DEF Flat, ControlInv
<1> QED BY <1>5, <1>6, <1>7, Zenon DEF ControlInv

\* cancel() of a live session.
LEMMA CancelSessionControl ==
  ASSUME TypeOK, TypeOK', ControlInv, Cancel, CancelSession
  PROVE  ControlInv'
<1> DEFINE r == [rt EXCEPT !.stabilityTimer = FALSE, !.restartTimer = FALSE]
<1>1. /\ Up /\ UNCHANGED <<spawn, pty, shutdown, marker, indeterminate, process>>
      /\ cancelled' /\ rt.state # "stopping" /\ rt.session # 0
      /\ rt' = Stopping(r) /\ StartKill("stop", rt, FALSE)
  BY Zenon DEF Cancel, CancelSession, storeVars
<1>2. /\ r \in Runtime
      /\ SameTask(rt, r) /\ SamePty(rt, r) /\ SamePromise(rt, r) /\ SameFlags(rt, r)
      /\ r.startupTimer = rt.startupTimer /\ ~r.restartTimer /\ ~r.stabilityTimer
  BY SilencedDoes DEF TypeOK
<1> HIDE DEF r
<1>3. /\ SameTask(r, rt') /\ SamePromise(r, rt') /\ SameTimers(r, rt')
      /\ SameFlags(r, rt') /\ rt'.session = r.session
      /\ rt'.cleanupIndeterminate = r.cleanupIndeterminate
      /\ rt'.state = "stopping" /\ ~rt'.sessionUsable
  BY <1>1, <1>2, StoppingDoes
<1>4. /\ kill'.phase = IF kill.phase = "none" THEN "pending" ELSE kill.phase
      /\ kill'.waiter = "stop" /\ kill'.generation = rt.generation
  BY <1>1 DEF StartKill
<1>5. SessionInv'
  BY <1>1, <1>2, <1>3, <1>4, TypesAreFlat DEF Flat, ControlInv
<1>6. EndingInv'
  BY <1>1, <1>2, <1>3, <1>4, TypesAreFlat DEF Flat, ControlInv
<1>7. WorkInv'
  BY <1>1, <1>2, <1>3, <1>4, TypesAreFlat DEF Flat, ControlInv
<1> QED BY <1>5, <1>6, <1>7, Zenon DEF ControlInv

\* cancel() answers true.
LEMMA CancelControl ==
  ASSUME TypeOK, TypeOK', ControlInv, Cancel
  PROVE  ControlInv'
BY CancelPendingKilllessControl, CancelStartingControl, CancelRestartControl,
   CancelSessionControl, Zenon DEF Cancel

\* shutdown() silences the timers and the promise, and stops a tracked session.
LEMMA StopAllControl ==
  ASSUME TypeOK, TypeOK', ControlInv, Up,
         NEW c \in ShutdownCallers, NotCalled(c), StopAll(c)
  PROVE  ControlInv'
<1> DEFINE flagged == [rt EXCEPT !.restartTimer = FALSE, !.startupTimer = 0,
                                 !.stabilityTimer = FALSE, !.shuttingDown = TRUE]
           quiet == RejectReadiness(flagged)
<1>1. UNCHANGED <<spawn, pty, marker, indeterminate, process, cancelled>>
  BY DEF StopAll, storeVars
<1>2. rt' = IF quiet.session # 0 THEN Stopping(quiet)
            ELSE IF HasTask(quiet)
            THEN [quiet EXCEPT !.state = "attention_required"]
            ELSE IF c # "coordinator" THEN quiet
            ELSE [quiet EXCEPT !.state = "stopped"]
  BY Zenon DEF StopAll
<1>3. /\ Called'
      /\ ShutdownEnded("clean")' <=> ShutdownEnded("clean")
      /\ ShutdownEnded("failed")' <=> ShutdownEnded("failed")
      /\ shutdown'.awaitsKill <=> shutdown.awaitsKill \/ rt.session # 0
  <2>1. /\ shutdown' = [call |-> [shutdown.call EXCEPT ![c] = "pending"],
                        awaitsKill |-> shutdown.awaitsKill \/ rt.session # 0]
        /\ shutdown.call[c] = "none"
        /\ shutdown.call \in [ShutdownCallers -> {"none", "pending", "clean", "failed"}]
    BY DEF StopAll, NotCalled, TypeOK, Shutdowns
  <2>2. /\ shutdown'.call[c] = "pending"
        /\ \A d \in ShutdownCallers : d # c => shutdown'.call[d] = shutdown.call[d]
    BY <2>1
  <2>3. shutdown'.awaitsKill <=> shutdown.awaitsKill \/ rt.session # 0
    BY <2>1
  <2> QED BY <2>1, <2>2, <2>3, SMT DEF Called, NotCalled, ShutdownEnded
<1>4. flagged \in Runtime
  BY ZenonT(60) DEF TypeOK, Runtime
<1>5. /\ SameTask(rt, flagged) /\ SamePty(rt, flagged) /\ SamePromise(rt, flagged)
      /\ flagged.generation = rt.generation /\ flagged.cleanupLedger = rt.cleanupLedger
      /\ ~flagged.restartTimer /\ ~flagged.stabilityTimer /\ flagged.shuttingDown
      /\ flagged.startupTimer = 0 /\ flagged.state = rt.state
  BY DEF TypeOK, Runtime
<1> HIDE DEF flagged
<1>6. quiet \in Runtime /\ Settled(flagged, "rejected", quiet)
  BY <1>4, RejectType, SettleDoes DEF RejectReadiness
<1> HIDE DEF quiet
<1>7. CASE rt.session # 0
  <2>1. rt' = Stopping(quiet)
    BY <1>2, <1>5, <1>6, <1>7
  <2>2. /\ SameTask(quiet, rt') /\ SamePromise(quiet, rt') /\ SameTimers(quiet, rt')
        /\ SameFlags(quiet, rt') /\ rt'.session = quiet.session
        /\ rt'.cleanupIndeterminate = quiet.cleanupIndeterminate
        /\ rt'.state = "stopping" /\ ~rt'.sessionUsable
    BY <1>6, <2>1, StoppingDoes
  <2>3. kill' = IF kill.waiter # "none" THEN kill
                ELSE [kill EXCEPT !.phase = IF @ = "none" THEN "pending" ELSE @,
                                  !.generation = rt.generation]
    BY <1>7, Zenon DEF StopAll
  <2>4. /\ kill'.waiter = kill.waiter /\ kill'.previous = kill.previous
        /\ kill.waiter # "none" => /\ kill'.phase = kill.phase
                                   /\ kill'.generation = kill.generation
        /\ kill.waiter = "none" =>
             /\ kill'.phase = IF kill.phase = "none" THEN "pending" ELSE kill.phase
             /\ kill'.generation = rt.generation
    BY <2>3 DEF TypeOK, Kills
  <2>5. SessionInv'
    BY <1>1, <1>3, <1>5, <1>6, <1>7, <2>2, <2>4, TypesAreFlat
       DEF Flat, ControlInv
  <2>6. EndingInv'
    BY <1>1, <1>3, <1>5, <1>6, <1>7, <2>2, <2>4, TypesAreFlat
       DEF Flat, ControlInv
  <2>7. WorkInv'
    BY <1>1, <1>3, <1>5, <1>6, <1>7, <2>2, <2>4, TypesAreFlat
       DEF Flat, ControlInv
  <2> QED BY <2>5, <2>6, <2>7, Zenon DEF ControlInv
<1>8. CASE rt.session = 0
  <2>1. rt' = [quiet EXCEPT !.state = IF HasTask(quiet) THEN "attention_required"
                                      ELSE IF c # "coordinator" THEN quiet.state ELSE "stopped"]
    BY <1>2, <1>5, <1>6, <1>8 DEF Runtime
  <2>2. /\ SameTask(quiet, rt') /\ SamePty(quiet, rt') /\ SamePromise(quiet, rt')
        /\ SameTimers(quiet, rt') /\ SameFlags(quiet, rt')
        /\ rt'.state = IF HasTask(quiet) THEN "attention_required"
                       ELSE IF c # "coordinator" THEN quiet.state ELSE "stopped"
    BY <1>6, <2>1, StateDoes
  <2>3. UNCHANGED kill
    BY <1>8, Zenon DEF StopAll
  <2>4. SessionInv'
    BY <1>1, <1>3, <1>5, <1>6, <1>8, <2>2, <2>3, TypesAreFlat
       DEF Flat, ControlInv
  <2>5. EndingInv'
    BY <1>1, <1>3, <1>5, <1>6, <1>8, <2>2, <2>3, TypesAreFlat
       DEF Flat, ControlInv
  <2>6. WorkInv'
    BY <1>1, <1>3, <1>5, <1>6, <1>8, <2>2, <2>3, TypesAreFlat
       DEF Flat, ControlInv
  <2> QED BY <2>4, <2>5, <2>6, Zenon DEF ControlInv
<1> QED BY <1>7, <1>8

\* The shutdown coordinator calls shutdown().
LEMMA BeginShutdownControl ==
  ASSUME TypeOK, TypeOK', ControlInv, BeginShutdown
  PROVE  ControlInv'
BY StopAllControl DEF BeginShutdown, ShutdownCallers

\* A failed preflight of the manager calls it,
LEMMA PreflightRollbackControl ==
  ASSUME TypeOK, TypeOK', ControlInv, PreflightRollback
  PROVE  ControlInv'
BY StopAllControl DEF PreflightRollback, ShutdownCallers

\* and one of the sink router.
LEMMA RouterRollbackControl ==
  ASSUME TypeOK, TypeOK', ControlInv, RouterRollback
  PROVE  ControlInv'
BY StopAllControl DEF RouterRollback, ShutdownCallers

\* A call of shutdown() ends: what it waited for has settled, and what this call
\* or an earlier one reports is all that can still run.
LEMMA ShutdownSettlesControl ==
  ASSUME TypeOK, TypeOK', ControlInv, NEW c \in ShutdownCallers, ShutdownSettles(c)
  PROVE  ControlInv'
<1>1. /\ Up /\ UNCHANGED <<spawn, kill, marker, indeterminate, process, cancelled>>
      /\ shutdown.call[c] = "pending" /\ ~shutdown.awaitsKill /\ spawn.phase = "none"
      /\ pty.unwinding = {}
      /\ rt' = [rt EXCEPT !.cleanupLedger = FALSE]
  BY DEF ShutdownSettles, StopsSettled, storeVars
<1>2. /\ pty'.alive = pty.alive /\ pty'.disowned = pty.disowned
      /\ pty'.unwinding = pty.unwinding /\ ~pty'.unwindFailed
  BY DEF ShutdownSettles, TypeOK, Hosts
<1>3. /\ SameTask(rt, rt') /\ SamePty(rt, rt') /\ SamePromise(rt, rt')
      /\ SameTimers(rt, rt') /\ rt'.state = rt.state
      /\ rt'.generation = rt.generation /\ rt'.shuttingDown = rt.shuttingDown
  BY <1>1, LedgerDoes DEF TypeOK
<1>4. /\ ~shutdown'.awaitsKill /\ Called /\ Called'
      /\ ShutdownEnded("failed")' <=>
           ShutdownEnded("failed") \/ rt.cleanupLedger \/ pty.unwindFailed
  <2> DEFINE result == IF rt.cleanupLedger \/ pty.unwindFailed THEN "failed" ELSE "clean"
  <2>1. /\ shutdown \in Shutdowns
        /\ shutdown' = [shutdown EXCEPT !.call[c] = result]
    BY Zenon DEF ShutdownSettles, TypeOK
  <2>2. result = "failed" <=> rt.cleanupLedger \/ pty.unwindFailed
    OBVIOUS
  <2>3. result # "none"
    OBVIOUS
  <2> HIDE DEF result
  <2>4. /\ shutdown'.call[c] = result
        /\ \A d \in ShutdownCallers : d # c => shutdown'.call[d] = shutdown.call[d]
        /\ shutdown'.awaitsKill = shutdown.awaitsKill
    BY <2>1 DEF Shutdowns
  <2> QED BY <1>1, <2>2, <2>3, <2>4, SMT DEF Called, NotCalled, ShutdownEnded
<1>5. SessionInv'
  BY <1>1, <1>2, <1>3, <1>4, TypesAreFlat DEF Flat, ControlInv
<1>6. EndingInv'
  BY <1>1, <1>2, <1>3, <1>4, TypesAreFlat DEF Flat, ControlInv
<1>7. WorkInv'
  BY <1>1, <1>2, <1>3, <1>4, TypesAreFlat DEF Flat, ControlInv
<1> QED BY <1>5, <1>6, <1>7, Zenon DEF ControlInv

\* The PTY host unwinds an orphan, or fails to.
LEMMA OrphanSettlesControl ==
  ASSUME TypeOK, TypeOK', ControlInv, NEW g \in pty.unwinding, OrphanSettles(g)
  PROVE  ControlInv'
<1>1. Up /\ UNCHANGED <<rt, spawn, kill, shutdown, marker, indeterminate, process, cancelled>>
  BY DEF OrphanSettles, storeVars
<1>2. /\ pty'.unwinding \subseteq pty.unwinding
      /\ \/ HostForgets(g)
         \/ pty'.alive = pty.alive \cup {g} /\ pty'.unwindFailed
  <2>1. g \in Nat /\ (SpawnFails(g) \/ UnwindFails(g))
    BY Zenon DEF OrphanSettles, TypeOK, Hosts
  <2>2. CASE SpawnFails(g)
    BY <2>1, <2>2, SpawnFailsDoes
  <2>3. CASE UnwindFails(g)
    BY <2>3 DEF UnwindFails, TypeOK, Hosts
  <2> QED BY <2>1, <2>2, <2>3
<1>3. ShutdownEnded("clean") => ShutdownEnded("failed")
  BY DEF ControlInv
<1>4. SessionInv'
  BY <1>1, <1>2, <1>3, TypesAreFlat DEF Flat, ControlInv
<1>5. EndingInv'
  BY <1>1, <1>2, <1>3, TypesAreFlat DEF Flat, ControlInv
<1>6. WorkInv'
  BY <1>1, <1>2, <1>3, TypesAreFlat DEF Flat, ControlInv
<1> QED BY <1>4, <1>5, <1>6, Zenon DEF ControlInv

-----------------------------------------------------------------------------
(* Crashes and boots. *)

\* The record a process starts from.
LEMMA BlankRuntime ==
  ASSUME NEW r, r = CreateRuntime(NoMarker)
  PROVE  /\ r.state = "stopped" /\ r.session = 0 /\ r.generation = 0
         /\ r.messageId = NoMessage /\ r.gateSequence = 0
         /\ r.preflight = "idle" /\ r.startupTimer = 0
         /\ ~r.restartTimer /\ ~r.readiness /\ ~r.shuttingDown
BY DEF CreateRuntime, NoMarker

\* Whatever the file holds, a process that is down satisfies the invariant.
LEMMA DiesControl ==
  ASSUME TypeOK, TypeOK', ControlInv, Dies, marker'.phase = "none" => marker' = NoMarker
  PROVE  ControlInv'
<1>1. /\ rt' = CreateRuntime(NoMarker)
      /\ spawn' = NoSpawn /\ kill' = NoKill /\ pty' = NoPty /\ shutdown' = NoShutdown
      /\ ~indeterminate' /\ ~cancelled' /\ ~process'.up
  BY DEF Dies, TypeOK
<1>2. /\ spawn'.phase = "none" /\ kill'.phase = "none" /\ kill'.waiter = "none"
      /\ pty'.alive = {} /\ pty'.unwinding = {}
      /\ ~shutdown'.awaitsKill
  BY <1>1 DEF NoSpawn, NoKill, NoPty, NoShutdown
<1>3. ~Called' /\ ~ShutdownEnded("clean")' /\ ~ShutdownEnded("failed")'
  BY <1>1 DEF NoShutdown, Called, NotCalled, ShutdownEnded
<1>4. /\ rt'.state = "stopped" /\ rt'.session = 0 /\ rt'.generation = 0
      /\ rt'.messageId = NoMessage /\ rt'.gateSequence = 0
      /\ rt'.preflight = "idle" /\ rt'.startupTimer = 0
      /\ ~rt'.restartTimer /\ ~rt'.readiness /\ ~rt'.shuttingDown
  BY <1>1, BlankRuntime
<1>5. SessionInv'
  BY <1>1, <1>2, <1>3, <1>4 DEF ControlInv
<1>6. EndingInv'
  BY <1>1, <1>2, <1>3, <1>4 DEF ControlInv
<1>7. WorkInv'
  BY <1>1, <1>2, <1>3, <1>4 DEF ControlInv
<1> QED BY <1>5, <1>6, <1>7, Zenon DEF ControlInv

\* The process dies between two handlers.
LEMMA CrashControl ==
  ASSUME TypeOK, TypeOK', ControlInv, Crash
  PROVE  ControlInv'
BY DiesControl DEF Crash, ControlInv

\* The process dies inside a dispatch.
LEMMA CrashDuringDispatchControl ==
  ASSUME TypeOK, TypeOK', ControlInv, NEW m \in Messages, CrashDuringDispatch(m)
  PROVE  ControlInv'
<1>1. marker'.phase # "none"
  BY DEF CrashDuringDispatch, DispatchMoments, Moment, TaskMarker, CorruptMarker, NoMarker
<1> QED BY <1>1, DiesControl DEF CrashDuringDispatch

\* The process is started on the marker the last one left.  This is the one
\* step that needs the marker to have an owner: the new record takes over
\* whatever message the file names.
LEMMA BootControl ==
  ASSUME TypeOK, TypeOK', ControlInv, MarkerHasOwner, Boot
  PROVE  ControlInv'
<1>1. /\ ~Up /\ Up' /\ rt' = CreateRuntime(marker) /\ marker.phase # "corrupt"
      /\ UNCHANGED <<spawn, kill, pty, shutdown, marker, indeterminate, cancelled>>
  BY DEF Boot, hostVars, storeVars
<1>2. /\ spawn = NoSpawn /\ kill = NoKill /\ pty = NoPty /\ shutdown = NoShutdown
      /\ ~indeterminate /\ ~cancelled
  BY <1>1 DEF ControlInv
<1>3. /\ spawn.phase = "none" /\ kill.phase = "none" /\ kill.waiter = "none"
      /\ pty.alive = {} /\ pty.unwinding = {}
      /\ ~shutdown.awaitsKill
  BY <1>2 DEF NoSpawn, NoKill, NoPty, NoShutdown
<1>4. ~Called /\ ~ShutdownEnded("clean") /\ ~ShutdownEnded("failed")
  BY <1>2 DEF NoShutdown, Called, NotCalled, ShutdownEnded
<1>5. /\ rt'.state = IF marker.phase = "none" THEN "stopped" ELSE "attention_required"
      /\ rt'.session = 0 /\ rt'.generation = 0
      /\ rt'.messageId = marker.messageId /\ rt'.gateSequence = 0
      /\ rt'.preflight = "idle" /\ rt'.startupTimer = 0
      /\ ~rt'.restartTimer /\ ~rt'.readiness /\ ~rt'.shuttingDown
  BY <1>1 DEF CreateRuntime
<1>6. SessionInv'
  BY <1>1, <1>2, <1>3, <1>4, <1>5, TypesAreFlat DEF ControlInv, MarkerHasOwner
<1>7. EndingInv'
  BY <1>1, <1>2, <1>3, <1>4, <1>5, TypesAreFlat DEF ControlInv, MarkerHasOwner
<1>8. WorkInv'
  BY <1>1, <1>2, <1>3, <1>4, <1>5, TypesAreFlat DEF ControlInv, MarkerHasOwner
<1> QED BY <1>6, <1>7, <1>8, Zenon DEF ControlInv

-----------------------------------------------------------------------------
(* The end of a kill(). *)

\* Every kill() that is pending is of the tracked session, and no spawn is out
\* beside it.
LEMMA PendingKill ==
  ASSUME TypeOK, ControlInv, kill.phase = "pending"
  PROVE  /\ KillIsCurrent
         /\ rt.state = "stopping" /\ ~rt.restartTimer
         /\ kill.waiter = "lateSpawn" \/ spawn.phase = "none"
BY TypesAreFlat DEF Flat, ControlInv, KillIsCurrent

\* What KillFulfilled does beside the runtime record.
KillEnds ==
  /\ Up /\ UNCHANGED <<marker, indeterminate, process, cancelled>>
  /\ kill.phase = "pending" /\ kill'.phase = "none" /\ kill'.waiter = "none"
  /\ pty'.alive = pty.alive \ {rt.session} /\ pty'.unwinding = pty.unwinding
  /\ pty'.unwindFailed = pty.unwindFailed /\ pty'.disowned = pty.disowned
  /\ spawn'.phase = "none"
  /\ shutdown'.call = shutdown.call /\ ~shutdown'.awaitsKill

\* Whoever continues after kill(), the kill and a late spawn are over.
LEMMA KillFulfilledEnds ==
  ASSUME TypeOK, ControlInv, KillFulfilled
  PROVE  KillEnds
<1>1. /\ Up /\ UNCHANGED <<marker, indeterminate, process, cancelled>>
      /\ kill.phase = "pending" /\ kill' = NoKill
      /\ spawn' = IF spawn.phase = "lateKill" THEN NoSpawn ELSE spawn
  BY DEF KillFulfilled, storeVars
<1>2. /\ pty'.alive = pty.alive \ {rt.session} /\ pty'.unwinding = pty.unwinding
      /\ pty'.unwindFailed = pty.unwindFailed /\ pty'.disowned = pty.disowned
      /\ shutdown'.call = shutdown.call /\ ~shutdown'.awaitsKill
  BY DEF KillFulfilled, TypeOK, Hosts, Shutdowns
<1>3. spawn.phase \in {"none", "lateKill"}
  BY <1>1, PendingKill, TypesAreFlat DEF Flat, ControlInv
<1> QED BY <1>1, <1>2, <1>3 DEF KillEnds, NoKill, NoSpawn

USE DEF KillEnds

\* A cancel or a shutdown continues.
LEMMA FinishStopControl ==
  ASSUME TypeOK, TypeOK', ControlInv, KillEnds, kill.waiter # "lateSpawn",
         NEW disposeFails \in BOOLEAN, rt' = FinishStop(rt, disposeFails)
  PROVE  ControlInv'
<1>1. Stopped(rt, rt')
  BY FinishStopDoes DEF TypeOK
<1>2. rt.state = "stopping" /\ ~rt.restartTimer
  BY PendingKill
<1>3. SessionInv'
  BY <1>1, <1>2, TypesAreFlat DEF Flat, ControlInv
<1>4. EndingInv'
  BY <1>1, <1>2, TypesAreFlat DEF Flat, ControlInv
<1>5. WorkInv'
  BY <1>1, <1>2, TypesAreFlat DEF Flat, ControlInv
<1> QED BY <1>3, <1>4, <1>5, Zenon DEF ControlInv

\* The session is disposed of.
LEMMA DisposedDoes ==
  ASSUME TypeOK, NEW gone, gone = DisposeSession(rt)
  PROVE  /\ gone \in Runtime
         /\ SameTask(rt, gone) /\ SamePromise(rt, gone) /\ SameTimers(rt, gone)
         /\ SameFlags(rt, gone) /\ gone.state = rt.state /\ gone.session = 0
         /\ ~gone.sessionUsable /\ ~gone.cleanupIndeterminate
BY DisposeType, DisposeDoes DEF TypeOK

\* handleExit continues.
LEMMA ExitFinishedControl ==
  ASSUME TypeOK, TypeOK', ControlInv, KillEnds, kill.waiter = "exit", rt' = ExitFinished
  PROVE  ControlInv'
<1> DEFINE gone == DisposeSession(rt)
<1>1. rt.state = "stopping" /\ ~rt.restartTimer
  BY PendingKill
<1>2. rt' = IF kill.disposeFailed THEN MarkCleanupIndeterminate(gone)
            ELSE AfterExit(gone, kill.previous)
  BY PendingKill, Zenon DEF ExitFinished
<1>3. /\ gone \in Runtime
      /\ SameTask(rt, gone) /\ SamePromise(rt, gone) /\ SameTimers(rt, gone)
      /\ SameFlags(rt, gone) /\ gone.state = rt.state /\ gone.session = 0
      /\ ~gone.sessionUsable /\ ~gone.cleanupIndeterminate
  BY DisposedDoes
<1> HIDE DEF gone
<1>4. CASE kill.disposeFailed
  <2>1. rt' = MarkCleanupIndeterminate(gone)
    BY <1>2, <1>4
  <2>2. /\ SameTask(gone, rt') /\ SamePromise(gone, rt') /\ SameTimers(gone, rt')
        /\ SameFlags(gone, rt') /\ rt'.session = gone.session
        /\ rt'.sessionUsable = gone.sessionUsable
        /\ rt'.state = "attention_required" /\ rt'.cleanupIndeterminate
    BY <1>3, <2>1, IndeterminateDoes
  <2>3. SessionInv'
    BY <1>1, <1>3, <2>2, TypesAreFlat DEF Flat, ControlInv
  <2>4. EndingInv'
    BY <1>1, <1>3, <2>2, TypesAreFlat DEF Flat, ControlInv
  <2>5. WorkInv'
    BY <1>1, <1>3, <2>2, TypesAreFlat DEF Flat, ControlInv
  <2> QED BY <2>3, <2>4, <2>5, Zenon DEF ControlInv
<1>5. CASE ~kill.disposeFailed
  <2>1. rt' = AfterExit(gone, kill.previous)
    BY <1>2, <1>5
  <2>2. kill.previous \in States
    BY DEF TypeOK, Kills
  <2>3. Exited(gone, kill.previous, rt')
    BY <1>3, <2>1, <2>2, AfterExitDoes
  <2>4. SessionInv'
    BY <1>1, <1>3, <2>3, TypesAreFlat DEF Flat, ControlInv
  <2>5. EndingInv'
    BY <1>1, <1>3, <2>3, TypesAreFlat DEF Flat, ControlInv
  <2>6. WorkInv'
    BY <1>1, <1>3, <2>3, TypesAreFlat DEF Flat, ControlInv
  <2> QED BY <2>4, <2>5, <2>6, Zenon DEF ControlInv
<1> QED BY <1>4, <1>5

\* cleanupFailedStart continues.
LEMMA FailedStartFinishedControl ==
  ASSUME TypeOK, TypeOK', ControlInv, KillEnds, kill.waiter = "failedStart",
         rt' = FailedStartFinished
  PROVE  ControlInv'
<1> DEFINE gone == DisposeSession(rt)
           failed == [gone EXCEPT !.state = "failed"]
<1>1. rt.state = "stopping" /\ ~rt.restartTimer
  BY PendingKill
<1>2. rt' = IF kill.automatic THEN ScheduleRestart(failed) ELSE RejectReadiness(failed)
  BY PendingKill, Zenon DEF FailedStartFinished
<1>3. /\ gone \in Runtime
      /\ SameTask(rt, gone) /\ SamePromise(rt, gone) /\ SameTimers(rt, gone)
      /\ SameFlags(rt, gone) /\ gone.state = rt.state /\ gone.session = 0
      /\ ~gone.sessionUsable /\ ~gone.cleanupIndeterminate
  BY DisposedDoes
<1> HIDE DEF gone
<1>4. failed \in Runtime
  BY <1>3, StateType DEF States
<1>5. /\ SameTask(gone, failed) /\ SamePty(gone, failed) /\ SamePromise(gone, failed)
      /\ SameTimers(gone, failed) /\ SameFlags(gone, failed) /\ failed.state = "failed"
  BY <1>3, StateDoes
<1> HIDE DEF failed
<1>6. CASE kill.automatic
  <2>1. MayRestart(failed, rt')
    BY <1>2, <1>4, <1>6, ScheduleRestartDoes
  <2>2. SessionInv'
    BY <1>1, <1>3, <1>5, <2>1, TypesAreFlat DEF Flat, ControlInv
  <2>3. EndingInv'
    BY <1>1, <1>3, <1>5, <2>1, TypesAreFlat DEF Flat, ControlInv
  <2>4. WorkInv'
    BY <1>1, <1>3, <1>5, <2>1, TypesAreFlat DEF Flat, ControlInv
  <2> QED BY <2>2, <2>3, <2>4, Zenon DEF ControlInv
<1>7. CASE ~kill.automatic
  <2>1. Settled(failed, "rejected", rt')
    BY <1>2, <1>4, <1>7, SettleDoes DEF RejectReadiness
  <2>2. SessionInv'
    BY <1>1, <1>3, <1>5, <2>1, TypesAreFlat DEF Flat, ControlInv
  <2>3. EndingInv'
    BY <1>1, <1>3, <1>5, <2>1, TypesAreFlat DEF Flat, ControlInv
  <2>4. WorkInv'
    BY <1>1, <1>3, <1>5, <2>1, TypesAreFlat DEF Flat, ControlInv
  <2> QED BY <2>2, <2>3, <2>4, Zenon DEF ControlInv
<1> QED BY <1>6, <1>7

\* runSpawnAttempt continues after a late session.
LEMMA LateSpawnFinishedControl ==
  ASSUME TypeOK, TypeOK', ControlInv, KillEnds, kill.waiter = "lateSpawn",
         rt' = LateSpawnFinished
  PROVE  ControlInv'
<1> DEFINE gone == DisposeSession(rt)
           settled == [gone EXCEPT !.state = StoppedState(gone)]
<1>1. rt.state = "stopping" /\ ~rt.restartTimer /\ spawn.phase = "lateKill"
  BY PendingKill DEF ControlInv
<1>2. rt' = IF ~rt.shuttingDown /\ rt.generation = spawn.generation /\ spawn.automatic
            THEN ScheduleRestart(gone) ELSE RejectReadiness(settled)
  BY Zenon DEF LateSpawnFinished
<1>3. /\ gone \in Runtime
      /\ SameTask(rt, gone) /\ SamePromise(rt, gone) /\ SameTimers(rt, gone)
      /\ SameFlags(rt, gone) /\ gone.state = rt.state /\ gone.session = 0
      /\ ~gone.sessionUsable /\ ~gone.cleanupIndeterminate
  BY DisposedDoes
<1> HIDE DEF gone
<1>4. settled \in Runtime
  BY <1>3, StateType DEF States
<1>5. /\ SameTask(gone, settled) /\ SamePty(gone, settled) /\ SamePromise(gone, settled)
      /\ SameTimers(gone, settled) /\ SameFlags(gone, settled)
      /\ settled.state = StoppedState(gone)
  BY <1>3, StateDoes
<1> HIDE DEF settled
<1>6. CASE ~rt.shuttingDown /\ rt.generation = spawn.generation /\ spawn.automatic
  <2>1. MayRestart(gone, rt')
    BY <1>2, <1>3, <1>6, ScheduleRestartDoes
  <2>2. SessionInv'
    BY <1>1, <1>3, <1>6, <2>1, TypesAreFlat DEF Flat, ControlInv
  <2>3. EndingInv'
    BY <1>1, <1>3, <1>6, <2>1, TypesAreFlat DEF Flat, ControlInv
  <2>4. WorkInv'
    BY <1>1, <1>3, <1>6, <2>1, TypesAreFlat DEF Flat, ControlInv
  <2> QED BY <2>2, <2>3, <2>4, Zenon DEF ControlInv
<1>7. CASE ~(~rt.shuttingDown /\ rt.generation = spawn.generation /\ spawn.automatic)
  <2>1. Settled(settled, "rejected", rt')
    BY <1>2, <1>4, <1>7, SettleDoes DEF RejectReadiness
  <2>2. SessionInv'
    BY <1>1, <1>3, <1>5, <2>1, TypesAreFlat DEF Flat, ControlInv
  <2>3. EndingInv'
    BY <1>1, <1>3, <1>5, <2>1, TypesAreFlat DEF Flat, ControlInv
  <2>4. WorkInv'
    BY <1>1, <1>3, <1>5, <2>1, TypesAreFlat DEF Flat, ControlInv
  <2> QED BY <2>2, <2>3, <2>4, Zenon DEF ControlInv
<1> QED BY <1>6, <1>7

\* kill() fulfils.
LEMMA KillFulfilledControl ==
  ASSUME TypeOK, TypeOK', ControlInv, KillFulfilled
  PROVE  ControlInv'
<1>1. KillEnds /\ KillIsCurrent
  BY KillFulfilledEnds, PendingKill
<1>2. \/ kill.waiter = "exit" /\ rt' = ExitFinished
      \/ kill.waiter = "failedStart" /\ rt' = FailedStartFinished
      \/ kill.waiter = "lateSpawn" /\ rt' = LateSpawnFinished
      \/ /\ kill.waiter # "lateSpawn"
         /\ \E disposeFails \in BOOLEAN : rt' = FinishStop(rt, disposeFails)
  <2>1. CASE kill.waiter \in {"exit", "failedStart"} /\ ShutdownGoesFirst
    BY <2>1 DEF KillFulfilled
  <2>2. CASE kill.waiter = "exit" /\ ~ShutdownGoesFirst
    BY <2>2 DEF KillFulfilled
  <2>3. CASE kill.waiter = "failedStart" /\ ~ShutdownGoesFirst
    BY <2>3 DEF KillFulfilled
  <2>4. CASE kill.waiter = "lateSpawn"
    BY <2>4 DEF KillFulfilled
  <2>5. CASE kill.waiter \notin {"exit", "failedStart", "lateSpawn"}
    BY <1>1, <2>5 DEF KillFulfilled
  <2> QED BY <2>1, <2>2, <2>3, <2>4, <2>5
<1> QED BY <1>1, <1>2, ExitFinishedControl, FailedStartFinishedControl,
           LateSpawnFinishedControl, FinishStopControl

\* A kill() that failed is booked before anybody else can look.
LEMMA KillRejectedControl ==
  ASSUME TypeOK, TypeOK', ControlInv, KillRejected
  PROVE  ControlInv'
<1> DEFINE recorded == RecordKillFailure(rt)
           parked == MarkCleanupIndeterminate(recorded)
<1>1. /\ Up /\ UNCHANGED <<pty, marker, indeterminate, process, cancelled>>
      /\ \/ kill.phase = "pending"
         \/ kill.phase = "failed" /\ (kill.waiter # "none" \/ shutdown.awaitsKill)
  BY DEF KillRejected, storeVars
<1>2. KillIsCurrent
  BY <1>1 DEF ControlInv, KillIsCurrent
<1>3. rt' = IF kill.waiter \in {"exit", "failedStart", "lateSpawn"}
            THEN RejectReadiness(parked) ELSE parked
  BY <1>2, Zenon DEF KillRejected
<1>4. /\ kill'.phase = "failed" /\ kill'.waiter = "none"
      /\ shutdown'.call = shutdown.call /\ ~shutdown'.awaitsKill
  BY DEF KillRejected, NoKill, TypeOK, Shutdowns
<1>5. spawn'.phase = "none"
  BY <1>1, TypesAreFlat DEF KillRejected, NoSpawn, Flat, ControlInv
<1>6. /\ recorded \in Runtime
      /\ SameTask(rt, recorded) /\ SamePty(rt, recorded) /\ SamePromise(rt, recorded)
      /\ SameTimers(rt, recorded) /\ recorded.state = rt.state
      /\ recorded.generation = rt.generation /\ recorded.shuttingDown = rt.shuttingDown
      /\ recorded.cleanupLedger <=> rt.cleanupLedger \/ kill.phase = "pending"
  <2>1. rt \in Runtime
    BY Zenon DEF TypeOK
  <2>2. recorded = [rt EXCEPT !.cleanupLedger = @ \/ kill.phase = "pending"]
    BY Zenon DEF RecordKillFailure
  <2>3. recorded \in Runtime
    BY <2>1, <2>2, ZenonT(60) DEF Runtime
  <2>4. /\ SameTask(rt, recorded) /\ SamePty(rt, recorded) /\ SamePromise(rt, recorded)
        /\ SameTimers(rt, recorded) /\ recorded.state = rt.state
        /\ recorded.generation = rt.generation
        /\ recorded.shuttingDown = rt.shuttingDown
    BY <2>1, <2>2 DEF Runtime
  <2>5. recorded.cleanupLedger <=> rt.cleanupLedger \/ kill.phase = "pending"
    BY <2>1, <2>2, ZenonT(60) DEF Runtime
  <2> QED BY <2>3, <2>4, <2>5
<1> HIDE DEF recorded
<1>7. /\ parked \in Runtime
      /\ SameTask(recorded, parked) /\ SamePromise(recorded, parked)
      /\ SameTimers(recorded, parked) /\ SameFlags(recorded, parked)
      /\ parked.session = recorded.session
      /\ parked.sessionUsable = recorded.sessionUsable
      /\ parked.state = "attention_required" /\ parked.cleanupIndeterminate
  BY <1>6, IndeterminateType, IndeterminateDoes
<1> HIDE DEF parked
<1>8. CASE kill.waiter \in {"exit", "failedStart", "lateSpawn"}
  <2>1. rt' = RejectReadiness(parked)
    BY <1>3, <1>8
  <2>2. parked \in Runtime /\ rt' = SettleReadiness(parked, "rejected")
    BY <1>7, <2>1 DEF RejectReadiness
  <2>3. Settled(parked, "rejected", rt')
    BY <2>2, SettleDoes
  <2>4. SessionInv'
    BY <1>1, <1>4, <1>5, <1>6, <1>7, <2>3, TypesAreFlat DEF Flat, ControlInv
  <2>5. EndingInv'
    BY <1>1, <1>4, <1>5, <1>6, <1>7, <2>3, TypesAreFlat DEF Flat, ControlInv
  <2>6. WorkInv'
    BY <1>1, <1>4, <1>5, <1>6, <1>7, <2>3, TypesAreFlat DEF Flat, ControlInv
  <2> QED BY <2>4, <2>5, <2>6, Zenon DEF ControlInv
<1>9. CASE kill.waiter \notin {"exit", "failedStart", "lateSpawn"}
  <2>1. rt' = parked
    BY <1>3, <1>9
  <2>2. SessionInv'
    BY <1>1, <1>4, <1>5, <1>6, <1>7, <2>1, TypesAreFlat DEF Flat, ControlInv
  <2>3. EndingInv'
    BY <1>1, <1>4, <1>5, <1>6, <1>7, <2>1, TypesAreFlat DEF Flat, ControlInv
  <2>4. WorkInv'
    BY <1>1, <1>4, <1>5, <1>6, <1>7, <2>1, TypesAreFlat DEF Flat, ControlInv
  <2> QED BY <2>2, <2>3, <2>4, Zenon DEF ControlInv
<1> QED BY <1>8, <1>9

-----------------------------------------------------------------------------
(* The task: dispatch, completion, release. *)

\* What save() can leave on disk.
LEMMA SaveLeaves ==
  ASSUME NEW disk, NEW stuck, NEW new, NEW o \in SaveOutcomes(disk, stuck, new)
  PROVE  /\ o.marker \in {disk, new, CorruptMarker}
         /\ o.ok => o.marker = new
BY DEF SaveOutcomes, Outcome

\* persistCompletionReceipt neither creates nor empties the file; if it returns it
\* has put the receipt into the marker of this very task.
LEMMA PersistLeaves ==
  ASSUME NEW n, NEW o \in PersistOutcomes(marker, indeterminate, rt, n)
  PROVE  /\ o.marker.phase = "none" \/ marker.phase \in {"none", "completed"} =>
              o.marker = marker
         /\ o.ok => /\ o.marker.phase = "completed"
                    /\ o.marker.messageId = rt.messageId
                    /\ o.marker.generation = rt.markerGeneration
                    /\ o.marker.receiptSequence = n
<1> DEFINE new == TaskMarker(marker.messageId, marker.generation, "completed", n)
<1>1. /\ new.phase = "completed" /\ new.messageId = marker.messageId
      /\ new.generation = marker.generation /\ new.receiptSequence = n
      /\ CorruptMarker.phase = "corrupt"
  BY DEF TaskMarker, CorruptMarker, NoMarker
<1> HIDE DEF new
<1>2. \/ o = Outcome(FALSE, marker, indeterminate)
      \/ /\ marker.messageId = rt.messageId /\ marker.generation = rt.markerGeneration
         /\ marker.phase = "completed"
         /\ o = Outcome(marker.receiptSequence = n, marker, indeterminate)
      \/ /\ marker.messageId = rt.messageId /\ marker.generation = rt.markerGeneration
         /\ marker.phase \notin {"none", "completed"}
         /\ o \in SaveOutcomes(marker, indeterminate, new)
  BY DEF PersistOutcomes, new
<1>3. CASE o = Outcome(FALSE, marker, indeterminate)
  BY <1>3 DEF Outcome
<1>4. CASE /\ marker.messageId = rt.messageId /\ marker.generation = rt.markerGeneration
           /\ marker.phase = "completed"
           /\ o = Outcome(marker.receiptSequence = n, marker, indeterminate)
  BY <1>4 DEF Outcome
<1>5. CASE /\ marker.messageId = rt.messageId /\ marker.generation = rt.markerGeneration
           /\ marker.phase \notin {"none", "completed"}
           /\ o \in SaveOutcomes(marker, indeterminate, new)
  BY <1>1, <1>5, SaveLeaves
<1> QED BY <1>2, <1>3, <1>4, <1>5

\* What a dispatch of m leaves: a terminal at work with its written marker on
\* disk, or one that is parked.
Dispatched(m) ==
  /\ SamePty(rt, rt') /\ SamePromise(rt, rt') /\ SameFlags(rt, rt')
  /\ rt'.startupTimer = rt.startupTimer /\ rt'.restartTimer = rt.restartTimer
  /\ rt'.messageId # NoMessage \/ rt'.gateSequence = rt.gateSequence
  /\ marker'.phase = "none" => marker' = marker
  /\ \/ rt'.state = "attention_required"
     \/ /\ rt'.state = "busy" /\ rt'.messageId = m
        /\ rt'.markerGeneration = rt.generation
        /\ marker'.phase = "written" /\ marker'.messageId = m
        /\ marker'.generation = rt.generation

\* A dispatch runs the task, with its marker written, or parks the terminal, with
\* whatever the store was left with.
LEMMA DispatchDoes ==
  ASSUME TypeOK, NEW m \in Messages, Dispatch(m)
  PROVE  Dispatched(m)
<1> DEFINE given == DispatchedRuntime(m)
           sent == [given EXCEPT !.controllerInputPending = FALSE]
           written == TaskMarker(m, rt.generation, "written", 0)
<1>1. m # NoMessage /\ m \in MessageId
  BY ConstantsAssumption DEF MessageId
<1>2. given \in Runtime
  <2>1. rt.generation \in Nat /\ 0 \in Nat
    BY DEF TypeOK, Runtime
  <2> QED BY <1>1, <2>1, ZenonT(60) DEF TypeOK, DispatchedRuntime, Runtime, States, Reasons
<1>3. /\ SamePty(rt, given) /\ SamePromise(rt, given) /\ SameFlags(rt, given)
      /\ given.startupTimer = rt.startupTimer /\ given.restartTimer = rt.restartTimer
      /\ given.messageId = m /\ given.markerGeneration = rt.generation
      /\ given.gateSequence = rt.gateSequence /\ given.state = "busy"
  BY DEF TypeOK, DispatchedRuntime, Runtime
<1> HIDE DEF given
<1>4. /\ sent \in Runtime
      /\ SameTask(given, sent) /\ SamePty(given, sent) /\ SamePromise(given, sent)
      /\ SameTimers(given, sent) /\ SameFlags(given, sent) /\ sent.state = given.state
  BY <1>2 DEF Runtime
<1> HIDE DEF sent
<1>5. PICK accepted \in AcceptOutcomes(m) :
        \/ /\ StoreBecomes(accepted)
           /\ rt' = Attention(rt, "marker_persist_failed")
        \/ /\ accepted.ok /\ StoreBecomes(accepted)
           /\ rt' = Attention(given, "input_outcome_unknown")
        \/ /\ accepted.ok
           /\ \E o \in SaveOutcomes(accepted.marker, accepted.stuck, written) :
                /\ StoreBecomes(o)
                /\ rt' = IF o.ok THEN sent ELSE Attention(sent, "marker_persist_failed")
  BY Zenon DEF Dispatch, WriteThrows, WriteSucceeds, sent, given
<1>6. /\ accepted.marker.phase = "none" => accepted.marker = marker
      /\ accepted.ok => accepted.marker.phase = "accepted"
  BY AcceptKinds
<1>7. CASE /\ StoreBecomes(accepted)
           /\ rt' = Attention(rt, "marker_persist_failed")
  <2>1. /\ SameTask(rt, rt') /\ SamePty(rt, rt') /\ SamePromise(rt, rt')
        /\ SameTimers(rt, rt') /\ SameFlags(rt, rt') /\ rt'.state = "attention_required"
    BY <1>7, AttentionDoes DEF TypeOK
  <2> QED BY <1>6, <1>7, <2>1 DEF Dispatched, StoreBecomes
<1>8. CASE /\ accepted.ok /\ StoreBecomes(accepted)
           /\ rt' = Attention(given, "input_outcome_unknown")
  <2>1. /\ SameTask(given, rt') /\ SamePty(given, rt') /\ SamePromise(given, rt')
        /\ SameTimers(given, rt') /\ SameFlags(given, rt')
        /\ rt'.state = "attention_required"
    BY <1>2, <1>8, AttentionDoes
  <2> QED BY <1>1, <1>3, <1>6, <1>8, <2>1 DEF Dispatched, StoreBecomes
<1>9. CASE /\ accepted.ok
           /\ \E o \in SaveOutcomes(accepted.marker, accepted.stuck, written) :
                /\ StoreBecomes(o)
                /\ rt' = IF o.ok THEN sent ELSE Attention(sent, "marker_persist_failed")
  <2>1. /\ written.phase = "written" /\ written.messageId = m
        /\ written.generation = rt.generation /\ CorruptMarker.phase = "corrupt"
    BY DEF TaskMarker, CorruptMarker, NoMarker
  <2> HIDE DEF written
  <2>2. PICK o \in SaveOutcomes(accepted.marker, accepted.stuck, written) :
          /\ marker' = o.marker
          /\ rt' = IF o.ok THEN sent ELSE Attention(sent, "marker_persist_failed")
    BY <1>9 DEF StoreBecomes
  <2>3. /\ marker' \in {accepted.marker, written, CorruptMarker}
        /\ o.ok => marker' = written
    BY <2>2, SaveLeaves
  <2>4. marker'.phase # "none"
    BY <1>6, <1>9, <2>1, <2>3
  <2>5. CASE o.ok
    <3>1. rt' = sent /\ marker' = written
      BY <2>2, <2>3, <2>5
    <3> QED BY <1>3, <1>4, <2>1, <2>4, <3>1 DEF Dispatched
  <2>6. CASE ~o.ok
    <3>1. rt' = Attention(sent, "marker_persist_failed")
      BY <2>2, <2>6
    <3>2. /\ SameTask(sent, rt') /\ SamePty(sent, rt') /\ SamePromise(sent, rt')
          /\ SameTimers(sent, rt') /\ SameFlags(sent, rt')
          /\ rt'.state = "attention_required"
      BY <1>4, <3>1, AttentionDoes
    <3> QED BY <1>1, <1>3, <1>4, <2>4, <3>2 DEF Dispatched
  <2> QED BY <2>5, <2>6
<1> QED BY <1>5, <1>7, <1>8, <1>9

USE DEF Dispatched

\* A task is dispatched.
LEMMA DispatchControl ==
  ASSUME TypeOK, TypeOK', ControlInv, NEW m \in Messages, Dispatch(m)
  PROVE  ControlInv'
<1>1. /\ Up /\ UNCHANGED <<spawn, kill, pty, shutdown, process, cancelled>>
      /\ rt.state = "ready"
  BY Zenon DEF Dispatch, Dispatchable, hostVars
<1>2. Dispatched(m)
  BY DispatchDoes
<1>3. m # NoMessage
  BY ConstantsAssumption
<1>4. SessionInv'
  BY <1>1, <1>2, <1>3, TypesAreFlat DEF Flat, ControlInv
<1>5. EndingInv'
  BY <1>1, <1>2, <1>3, TypesAreFlat DEF Flat, ControlInv
<1>6. WorkInv'
  BY <1>1, <1>2, <1>3, TypesAreFlat DEF Flat, ControlInv
<1> QED BY <1>4, <1>5, <1>6, Zenon DEF ControlInv

\* A terminal that drains after the receipt of sequence n of its task.
Draining(r, n) ==
  /\ SamePty(r, rt') /\ SamePromise(r, rt') /\ SameTimers(r, rt') /\ SameFlags(r, rt')
  /\ rt'.state = "draining" /\ rt'.messageId = r.messageId
  /\ rt'.markerGeneration = r.markerGeneration
  /\ rt'.receiptSequence = n /\ rt'.gateSequence = n

\* A receipt is applied and the gate armed for it.
LEMMA ArmedDoes ==
  ASSUME TypeOK, NEW n \in Nat, NEW s, s = ArmCompletionGate(ReceiptApplied(rt, n), n)
  PROVE  /\ s \in Runtime
         /\ SamePty(rt, s) /\ SamePromise(rt, s) /\ SameTimers(rt, s) /\ SameFlags(rt, s)
         /\ s.messageId = rt.messageId /\ s.markerGeneration = rt.markerGeneration
         /\ s.receiptSequence = n /\ s.gateSequence = n
<1> DEFINE applied == ReceiptApplied(rt, n)
<1>1. applied \in Runtime
  BY ReceiptAppliedType DEF TypeOK
<1>2. /\ SamePty(rt, applied) /\ SamePromise(rt, applied) /\ SameTimers(rt, applied)
      /\ SameFlags(rt, applied) /\ applied.messageId = rt.messageId
      /\ applied.markerGeneration = rt.markerGeneration /\ applied.receiptSequence = n
  BY AppliedDoes DEF TypeOK
<1> HIDE DEF applied
<1>3. s = ArmCompletionGate(applied, n)
  BY DEF applied
<1>4. /\ SamePty(applied, s) /\ SamePromise(applied, s)
      /\ SameTimers(applied, s) /\ SameFlags(applied, s)
      /\ s.messageId = applied.messageId
      /\ s.markerGeneration = applied.markerGeneration
      /\ s.receiptSequence = applied.receiptSequence /\ s.gateSequence = n
  BY <1>1, <1>3, ArmGateDoes
<1> QED BY <1>1, <1>2, <1>3, <1>4, ArmGateType

USE DEF Draining

\* The receipt of the task at work arrives.
LEMMA AcknowledgeCompletionControl ==
  ASSUME TypeOK, TypeOK', ControlInv, NEW m \in Messages, AcknowledgeCompletion(m)
  PROVE  ControlInv'
<1>1. /\ Up /\ UNCHANGED <<spawn, kill, pty, shutdown, process, cancelled>>
      /\ rt.messageId = m /\ rt.state \in {"busy", "draining"}
  BY Zenon DEF AcknowledgeCompletion, CanAcknowledge, IsCurrentReceipt, hostVars
<1>2. PICK o \in PersistOutcomes(marker, indeterminate, rt, receipt[m]) :
        marker' = o.marker /\ rt' = Acknowledged(rt, receipt[m], o)
  BY DEF AcknowledgeCompletion, StoreBecomes
<1>3. receipt[m] \in Nat
  BY DEF TypeOK
<1>4. /\ marker'.phase = "none" \/ marker.phase = "completed" => marker' = marker
      /\ o.ok => /\ marker'.phase = "completed"
                 /\ marker'.messageId = rt.messageId
                 /\ marker'.generation = rt.markerGeneration
                 /\ marker'.receiptSequence = receipt[m]
  BY <1>2, PersistLeaves
<1>5. CASE o.ok
  <2> DEFINE armed == ArmCompletionGate(ReceiptApplied(rt, receipt[m]), receipt[m])
  <2>1. rt' = [armed EXCEPT !.state = "draining"]
    BY <1>2, <1>5 DEF Acknowledged
  <2>2. /\ armed \in Runtime
        /\ SamePty(rt, armed) /\ SamePromise(rt, armed) /\ SameTimers(rt, armed)
        /\ SameFlags(rt, armed) /\ armed.messageId = rt.messageId
        /\ armed.markerGeneration = rt.markerGeneration
        /\ armed.receiptSequence = receipt[m] /\ armed.gateSequence = receipt[m]
    BY <1>3, ArmedDoes
  <2> HIDE DEF armed
  <2>3. Draining(rt, receipt[m])
    BY <2>1, <2>2, StateDoes
  <2>4. SessionInv'
    BY <1>1, <1>4, <1>5, <2>3, TypesAreFlat DEF Flat, ControlInv
  <2>5. EndingInv'
    BY <1>1, <1>4, <1>5, <2>3, TypesAreFlat DEF Flat, ControlInv
  <2>6. WorkInv'
    BY <1>1, <1>4, <1>5, <2>3, TypesAreFlat DEF Flat, ControlInv
  <2> QED BY <2>4, <2>5, <2>6, Zenon DEF ControlInv
<1>6. CASE ~o.ok
  <2>1. /\ SameTask(rt, rt') /\ SamePty(rt, rt') /\ SamePromise(rt, rt')
        /\ SameTimers(rt, rt') /\ SameFlags(rt, rt') /\ rt'.state = "attention_required"
    BY <1>2, <1>6, AttentionDoes DEF Acknowledged, TypeOK
  <2>2. SessionInv'
    BY <1>1, <1>4, <2>1, TypesAreFlat DEF Flat, ControlInv
  <2>3. EndingInv'
    BY <1>1, <1>4, <2>1, TypesAreFlat DEF Flat, ControlInv
  <2>4. WorkInv'
    BY <1>1, <1>4, <2>1, TypesAreFlat DEF Flat, ControlInv
  <2> QED BY <2>2, <2>3, <2>4, Zenon DEF ControlInv
<1> QED BY <1>5, <1>6

\* A receipt restarts a parked terminal that has no PTY, and lets one whose PTY
\* is the marker's drain.
LEMMA ReconcileMarkerControl ==
  ASSUME TypeOK, TypeOK', ControlInv, NEW m \in Messages, ReconcileMarker(m)
  PROVE  ControlInv'
<1> DEFINE applied == ReceiptApplied(rt, receipt[m])
<1>1. /\ Up /\ UNCHANGED <<spawn, kill, pty, shutdown, process>>
      /\ rt.messageId = m /\ rt.state = "attention_required" /\ rt.preflight = "done"
      /\ rt.session # 0 => rt.sessionUsable /\ ~rt.cleanupIndeterminate
  BY Zenon DEF ReconcileMarker, CanReconcile, IsCurrentReceipt, hostVars
<1>2. PICK o \in PersistOutcomes(marker, indeterminate, rt, receipt[m]) :
        /\ marker' = o.marker /\ rt' = Reconciled(rt, receipt[m], o)
        /\ cancelled' = (cancelled /\ ~ReconcileAccepts(rt, o))
  BY DEF ReconcileMarker, StoreBecomes
<1>3. receipt[m] \in Nat /\ m # NoMessage
  BY ConstantsAssumption DEF TypeOK
<1>4. /\ marker'.phase = "none" \/ marker.phase = "completed" => marker' = marker
      /\ o.ok => /\ marker'.phase = "completed"
                 /\ marker'.messageId = rt.messageId
                 /\ marker'.generation = rt.markerGeneration
                 /\ marker'.receiptSequence = receipt[m]
  BY <1>2, PersistLeaves
<1>5. cancelled' => cancelled /\ ~ReconcileAccepts(rt, o)
  BY <1>2
<1>6. applied \in Runtime
  BY <1>3, ReceiptAppliedType DEF TypeOK
<1>7. /\ SamePty(rt, applied) /\ SamePromise(rt, applied) /\ SameTimers(rt, applied)
       /\ SameFlags(rt, applied) /\ applied.state = rt.state
       /\ applied.messageId = rt.messageId /\ applied.gateSequence = rt.gateSequence
       /\ applied.markerGeneration = rt.markerGeneration /\ applied.completedBeforeExit
  BY AppliedDoes DEF TypeOK
<1>8. CASE ~o.ok
  <2>1. /\ SameTask(rt, rt') /\ SamePty(rt, rt') /\ SamePromise(rt, rt')
        /\ SameTimers(rt, rt') /\ SameFlags(rt, rt') /\ rt'.state = rt.state
    BY <1>2, <1>8 DEF Reconciled, TypeOK, Runtime
  <2>2. SessionInv'
    BY <1>1, <1>3, <1>4, <1>5, <2>1, TypesAreFlat DEF Flat, ControlInv
  <2>3. EndingInv'
    BY <1>1, <1>3, <1>4, <1>5, <2>1, TypesAreFlat DEF Flat, ControlInv
  <2>4. WorkInv'
    BY <1>1, <1>3, <1>4, <1>5, <2>1, TypesAreFlat DEF Flat, ControlInv
  <2> QED BY <2>2, <2>3, <2>4, Zenon DEF ControlInv
<1>9. CASE o.ok /\ rt.session = 0
  <2>1. rt' = ScheduleRestart(applied)
    BY <1>2, <1>9 DEF Reconciled
  <2> HIDE DEF applied
  <2>2. MayRestart(applied, rt')
    BY <1>6, <2>1, ScheduleRestartDoes
  <2>3. ~cancelled'
    BY <1>5, <1>9 DEF ReconcileAccepts
  <2>4. SessionInv'
    BY <1>1, <1>3, <1>4, <1>7, <1>9, <2>2, <2>3, TypesAreFlat
       DEF Flat, ControlInv
  <2>5. EndingInv'
    BY <1>1, <1>3, <1>4, <1>7, <1>9, <2>2, <2>3, TypesAreFlat
       DEF Flat, ControlInv
  <2>6. WorkInv'
    BY <1>1, <1>3, <1>4, <1>7, <1>9, <2>2, <2>3, TypesAreFlat
       DEF Flat, ControlInv
  <2> QED BY <2>4, <2>5, <2>6, Zenon DEF ControlInv
<1>10. CASE o.ok /\ rt.session # 0 /\ ~RunsOnMarkersPty(rt)
  <2>1. rt' = applied
    BY <1>2, <1>10 DEF Reconciled
  <2> HIDE DEF applied
  <2>2. SessionInv'
    BY <1>1, <1>3, <1>4, <1>5, <1>7, <1>10, <2>1, TypesAreFlat
       DEF Flat, ControlInv
  <2>3. EndingInv'
    BY <1>1, <1>3, <1>4, <1>5, <1>7, <1>10, <2>1, TypesAreFlat
       DEF Flat, ControlInv
  <2>4. WorkInv'
    BY <1>1, <1>3, <1>4, <1>5, <1>7, <1>10, <2>1, TypesAreFlat
       DEF Flat, ControlInv
  <2> QED BY <2>2, <2>3, <2>4, Zenon DEF ControlInv
<1>11. CASE o.ok /\ rt.session # 0 /\ RunsOnMarkersPty(rt)
  <2> DEFINE armed == ArmCompletionGate(ReceiptApplied(rt, receipt[m]), receipt[m])
  <2>1. rt' = [armed EXCEPT !.state = "draining", !.attentionReason = "none"]
    BY <1>2, <1>11 DEF Reconciled
  <2>2. /\ armed \in Runtime
        /\ SamePty(rt, armed) /\ SamePromise(rt, armed) /\ SameTimers(rt, armed)
        /\ SameFlags(rt, armed) /\ armed.messageId = rt.messageId
        /\ armed.markerGeneration = rt.markerGeneration
        /\ armed.receiptSequence = receipt[m] /\ armed.gateSequence = receipt[m]
    BY <1>3, ArmedDoes
  <2> HIDE DEF armed, applied
  <2>3. Draining(rt, receipt[m])
    BY <2>1, <2>2 DEF Runtime
  <2>4. rt.generation = rt.markerGeneration
    BY <1>11 DEF RunsOnMarkersPty
  <2>5. ~cancelled'
    BY <1>5, <1>11 DEF ReconcileAccepts
  <2>6. SessionInv'
    BY <1>1, <1>3, <1>4, <1>11, <2>3, <2>4, <2>5, TypesAreFlat
       DEF Flat, ControlInv
  <2>7. EndingInv'
    BY <1>1, <1>3, <1>4, <1>11, <2>3, <2>4, <2>5, TypesAreFlat
       DEF Flat, ControlInv
  <2>8. WorkInv'
    BY <1>1, <1>3, <1>4, <1>11, <2>3, <2>4, <2>5, TypesAreFlat
       DEF Flat, ControlInv
  <2> QED BY <2>6, <2>7, <2>8, Zenon DEF ControlInv
<1> QED BY <1>8, <1>9, <1>10, <1>11

\* The drained terminal lets its task go.
LEMMA AcknowledgeStableIdleControl ==
  ASSUME TypeOK, TypeOK', ControlInv, AcknowledgeStableIdle
  PROVE  ControlInv'
<1> DEFINE cleared == ClearAttachedTask(rt)
<1>1. /\ Up /\ UNCHANGED <<spawn, kill, pty, shutdown, process, cancelled>>
      /\ rt.state = "draining"
  BY Zenon DEF AcknowledgeStableIdle, IdleProofHolds, hostVars
<1>2. PICK o \in ClearOutcomes(marker, indeterminate, CompletedMarkerMatches(rt)) :
        /\ marker' = o.marker /\ indeterminate' = o.stuck
        /\ rt' = IF o.ok THEN BecomeReady(cleared)
                 ELSE Attention(rt, "marker_cleanup_failed")
  BY DEF AcknowledgeStableIdle, StoreBecomes
<1>3. /\ marker' \in {marker, NoMarker}
      /\ o.ok => marker' = NoMarker /\ ~indeterminate'
  BY <1>2, ClearLeaves
<1>4. /\ cleared \in Runtime
      /\ SamePty(rt, cleared) /\ SamePromise(rt, cleared) /\ SameTimers(rt, cleared)
      /\ SameFlags(rt, cleared) /\ cleared.messageId = NoMessage
      /\ cleared.gateSequence = 0 /\ ~cleared.completedBeforeExit
  BY ClearType, ClearDoes DEF TypeOK
<1> HIDE DEF cleared
<1>5. CASE o.ok
  <2>1. /\ SameTask(cleared, rt') /\ SamePty(cleared, rt') /\ SamePromise(cleared, rt')
        /\ SameFlags(cleared, rt') /\ rt'.startupTimer = cleared.startupTimer
        /\ rt'.restartTimer = cleared.restartTimer /\ rt'.state = "ready"
    BY <1>2, <1>4, <1>5, BecomeReadyDoes
  <2>2. SessionInv'
    BY <1>1, <1>3, <1>4, <1>5, <2>1, TypesAreFlat DEF Flat, ControlInv
  <2>3. EndingInv'
    BY <1>1, <1>3, <1>4, <1>5, <2>1, TypesAreFlat DEF Flat, ControlInv
  <2>4. WorkInv'
    BY <1>1, <1>3, <1>4, <1>5, <2>1, TypesAreFlat DEF Flat, ControlInv
  <2> QED BY <2>2, <2>3, <2>4, Zenon DEF ControlInv
<1>6. CASE ~o.ok
  <2>1. /\ SameTask(rt, rt') /\ SamePty(rt, rt') /\ SamePromise(rt, rt')
        /\ SameTimers(rt, rt') /\ SameFlags(rt, rt') /\ rt'.state = "attention_required"
    BY <1>2, <1>6, AttentionDoes DEF TypeOK
  <2>2. SessionInv'
    BY <1>1, <1>3, <2>1, TypesAreFlat DEF Flat, ControlInv
  <2>3. EndingInv'
    BY <1>1, <1>3, <2>1, TypesAreFlat DEF Flat, ControlInv
  <2>4. WorkInv'
    BY <1>1, <1>3, <2>1, TypesAreFlat DEF Flat, ControlInv
  <2> QED BY <2>2, <2>3, <2>4, Zenon DEF ControlInv
<1> QED BY <1>5, <1>6

\* The server's commit and a stuttering step leave the runner alone.
LEMMA OthersControl ==
  ASSUME ControlInv,
         UNCHANGED <<rt, hostVars, shutdown, storeVars, process, cancelled>>
  PROVE  ControlInv'
<1>1. UNCHANGED <<spawn, kill, pty>> /\ UNCHANGED <<marker, indeterminate>>
  BY DEF hostVars, storeVars
<1>2. SameCalls
  BY TypesAreFlat
<1> QED BY <1>1, <1>2 DEF ControlInv

-----------------------------------------------------------------------------
(* The invariant holds in every reachable state.                            *)

\* The first boot finds an empty store.
LEMMA ControlInvInit == Init => ControlInv
<1> SUFFICES ASSUME Init PROVE ControlInv
  OBVIOUS
<1>1. /\ rt.state = "stopped" /\ rt.session = 0 /\ ~HasTask(rt)
      /\ rt.gateSequence = 0 /\ ~rt.readiness /\ ~rt.restartTimer
      /\ ~rt.stabilityTimer /\ ~rt.shuttingDown /\ rt.startupTimer = 0
  BY DEF Init, CreateRuntime, NoMarker
<1>2. /\ Up /\ spawn.phase = "none" /\ ~shutdown.awaitsKill
      /\ kill.phase = "none" /\ kill.waiter = "none" /\ marker = NoMarker
      /\ ~indeterminate /\ ~cancelled /\ pty.alive = {} /\ pty.unwinding = {}
  BY DEF Init, NoSpawn, NoKill, NoPty, NoShutdown
<1>3. ~Called /\ ~ShutdownEnded("clean") /\ ~ShutdownEnded("failed")
  BY DEF Init, NoShutdown, Called, NotCalled, ShutdownEnded
<1>4. SessionInv
  BY <1>1, <1>2
<1>5. EndingInv
  BY <1>1, <1>2, <1>3
<1>6. WorkInv
  BY <1>1, <1>2
<1> QED BY <1>4, <1>5, <1>6, Zenon DEF ControlInv

\* Every step but those of the completion pump.
LEMMA HostControl ==
  ASSUME TypeOK', MarkerInv, ControlInv, HostNext
  PROVE  ControlInv'
<1>1. TypeOK /\ MarkerHasOwner
  BY Zenon DEF MarkerInv
<1>2. CASE \E g \in pty.unwinding : OrphanSettles(g)
  BY <1>1, <1>2, OrphanSettlesControl
<1>3. CASE \E m \in Messages : Dispatch(m) \/ Complete(m) \/ CrashDuringDispatch(m)
  <2>1. PICK m \in Messages : Dispatch(m) \/ Complete(m) \/ CrashDuringDispatch(m)
    BY <1>3
  <2>2. CASE Dispatch(m)
    BY <1>1, <2>2, DispatchControl
  <2>3. CASE Complete(m)
    BY <2>3, OthersControl, Zenon DEF Complete
  <2>4. CASE CrashDuringDispatch(m)
    BY <1>1, <2>4, CrashDuringDispatchControl
  <2> QED BY <2>1, <2>2, <2>3, <2>4
<1>4. CASE Boot
  BY <1>1, <1>4, BootControl
<1> QED
  BY <1>1, <1>2, <1>3, <1>4, Zenon, EnsureReadyControl, PreflightPassesControl,
     StartupTimerControl, SpawnRejectsControl,
     SpawnResolvesLateControl, SpawnResolvesControl, OutputWhileStartingControl,
     OutputWhileDrainingControl, OutputElsewhereControl, OutputHandlerFailsControl,
     PtyExitsControl, KillFulfilledControl, KillRejectedControl,
     RestartTimerControl, StabilityTimerControl, CancelControl,
     BeginShutdownControl, PreflightRollbackControl, RouterRollbackControl,
     ShutdownSettlesControl, CrashControl
     DEF HostNext

\* Every step of the completion pump.
LEMMA PumpControl ==
  ASSUME TypeOK, TypeOK', ControlInv, PumpNext
  PROVE  ControlInv'
BY AcknowledgeCompletionControl, ReconcileMarkerControl,
   AcknowledgeStableIdleControl, AuditDeadlinesControl, Zenon DEF PumpNext

\* The invariant is inductive, given what the marker guarantees by itself.
LEMMA ControlInvNext ==
  MarkerInv /\ ControlInv /\ [Next]_vars => ControlInv'
<1> SUFFICES ASSUME MarkerInv, ControlInv, [Next]_vars PROVE ControlInv'
  OBVIOUS
<1>1. TypeOK /\ TypeOK'
  BY NextType DEF MarkerInv
<1>2. CASE HostNext
  BY <1>1, <1>2, HostControl
<1>3. CASE PumpNext
  BY <1>1, <1>3, PumpControl
<1>4. CASE UNCHANGED vars
  BY <1>4, OthersControl, Zenon DEF vars, hostVars, storeVars
<1> QED BY <1>2, <1>3, <1>4 DEF Next

\* ControlInv holds in every reachable state.
LEMMA ControlInvAlways == Spec => []ControlInv
<1>1. Init => ControlInv
  BY ControlInvInit
<1>2. MarkerInv /\ ControlInv /\ [Next]_vars => ControlInv'
  BY ControlInvNext
<1> QED BY <1>1, <1>2, MarkerInvAlways, PTL DEF Spec

-----------------------------------------------------------------------------
(* What the invariant says.                                                 *)

\* A terminal that accepts work has a usable PTY that nobody kills, and nothing
\* left of an earlier task, in memory or on disk.
THEOREM ReadyTakesOneTask == Spec => []ReadyIsFree
<1>1. ControlInv => ReadyIsFree
  BY Zenon DEF ControlInv
<1> QED BY <1>1, ControlInvAlways, PTL

\* A terminal at work has the marker of that very task and PTY on disk, in the
\* phase its state stands for, whatever saves and kills failed before.
THEOREM WorkIsDurable == Spec => []LiveTaskIsDurable
<1>1. ControlInv => LiveTaskIsDurable
  BY Zenon DEF ControlInv
<1> QED BY <1>1, ControlInvAlways, PTL

\* No order of exits, kills, cancels and receipts restarts a terminal over a
\* task whose outcome is unknown.
THEOREM RestartIsEarned == Spec => []RestartsOnlyWhenFinished
<1>1. ControlInv => RestartsOnlyWhenFinished
  BY Zenon DEF ControlInv, RestartsOnlyWhenFinished
<1> QED BY <1>1, ControlInvAlways, PTL

\* A start always has exactly one thing pending that ends it: its backoff timer,
\* its own spawn or its own PTY, under the startup timer of this very attempt.
THEOREM AttemptsEnd == Spec => []AttemptsAreBounded
<1>1. ControlInv => AttemptsAreBounded
  BY Zenon DEF ControlInv
<1> QED BY <1>1, ControlInvAlways, PTL

\* The promise of readiness main() waits for is never orphaned: something pending
\* settles it, or its PTY could not be killed.
THEOREM PromisesAreBacked == Spec => []ReadinessIsBacked
<1>1. ControlInv => ReadinessIsBacked
  BY Zenon DEF ControlInv
<1> QED BY <1>1, ControlInvAlways, PTL

\* A process tree that runs, other than one whose spawn was rejected, is the
\* tracked session's, or it is on the books that make shutdown() fail, or a call
\* of shutdown() has failed for it.
THEOREM LeaksAreOnTheBooks == Spec => []NoSilentLeak
<1>1. ControlInv => NoSilentLeak
  BY Zenon DEF ControlInv
<1> QED BY <1>1, ControlInvAlways, PTL

\* A kill() that failed keeps its session tracked, and its error is in the ledger
\* or was reported by shutdown(), whoever waited for it.
THEOREM KillFailuresAreReported == Spec => []KillFailureIsReported
<1>1. ControlInv => KillFailureIsReported
  BY Zenon DEF ControlInv
<1> QED BY <1>1, ControlInvAlways, PTL

\* When a call of shutdown() returns without an error, and none has failed, no
\* spawn of the terminal is left and no tree but those of rejected spawns.
THEOREM CleanExitIsClean == Spec => []CleanShutdownLeaksNothing
<1>1. ControlInv => CleanShutdownLeaksNothing
  BY Zenon DEF ControlInv
<1> QED BY <1>1, ControlInvAlways, PTL

\* When shutdown() has returned, with or without an error, no timer, spawn, kill
\* or promise is left that could move the terminal.
THEOREM SettledIsQuiet == Spec => []SettledMeansQuiet
<1>1. TypeOK /\ ControlInv => SettledMeansQuiet
  BY TypesAreFlat DEF Flat, ControlInv, SettledMeansQuiet
<1> QED BY <1>1, TypeCorrect, ControlInvAlways, PTL

\* Nothing but the first start and the backoff timer spawns.
LEMMA OnlyAttemptsSpawn ==
  ASSUME [Next]_vars, SpawnStarts
  PROVE  EnsureReady \/ RestartTimerFires
<1>1. spawn' # NoSpawn /\ spawn' # spawn
  BY DEF SpawnStarts, NoSpawn
<1>2. ~SpawnResolvesLate
  BY DEF SpawnResolvesLate, SpawnStarts
<1>3. ASSUME Cancel PROVE FALSE
  BY <1>1, <1>3 DEF Cancel
<1>4. ASSUME BeginShutdown \/ PreflightRollback \/ RouterRollback PROVE FALSE
  BY <1>1, <1>4 DEF BeginShutdown, PreflightRollback, RouterRollback, StopAll
<1>5. ASSUME HostNext PROVE EnsureReady \/ RestartTimerFires
  BY <1>1, <1>2, <1>3, <1>4, <1>5, Zenon
     DEF HostNext, PreflightPasses, StartupTimerFires, SpawnRejects, SpawnResolves,
         OutputWhileStarting,
         OutputWhileDraining, OutputElsewhere, OutputHandlerFails, PtyExits,
         KillFulfilled, KillRejected, StabilityTimerFires, ShutdownSettles,
         OrphanSettles, Dispatch, Complete, CrashDuringDispatch, Crash, Dies, Boot,
         hostVars
<1>6. ASSUME PumpNext PROVE FALSE
  BY <1>1, <1>6, Zenon
     DEF PumpNext, AcknowledgeCompletion, ReconcileMarker, AcknowledgeStableIdle,
         AuditDeadlines, hostVars
<1>7. ASSUME UNCHANGED vars PROVE FALSE
  BY <1>1, <1>7, Zenon DEF vars
<1> QED BY <1>5, <1>6, <1>7 DEF Next

\* After a cancel that answered true no PTY is spawned until a receipt asks for
\* the restart: neither the timer, nor a late continuation, nor the preflight.
THEOREM CancelIsFinal == Spec => CancelHonoured
<1>1. ControlInv /\ [Next]_vars => ~(cancelled /\ SpawnStarts)
  <2> SUFFICES ASSUME ControlInv, [Next]_vars, cancelled, SpawnStarts PROVE FALSE
    OBVIOUS
  <2>1. rt.preflight = "idle" \/ rt.restartTimer
    BY OnlyAttemptsSpawn DEF EnsureReady, RestartTimerFires
  <2> QED BY <2>1 DEF ControlInv
<1> QED BY <1>1, ControlInvAlways, PTL DEF Spec, CancelHonoured

\* What a shutdown has ended already by itself.
LEMMA ShutDownIsNotLive ==
  ASSUME TypeOK, ControlInv, rt.shuttingDown
  PROVE  /\ ~Delivers
         /\ rt.state \notin {"ready", "busy", "draining"}
         /\ rt.preflight = "idle" \/ ~EnsureReady
         /\ ~rt.restartTimer /\ ~rt.stabilityTimer
         /\ Up
         /\ spawn.phase = "native" => SpawnUnwanted
BY TypesAreFlat
   DEF Flat, ControlInv, Delivers, EnsureReady, SpawnUnwanted, CreateRuntime

\* The states the helpers leave a record in.
LEMMA HelperStates ==
  ASSUME NEW r \in Runtime
  PROVE  /\ SettleReadiness(r, "rejected").state = r.state
         /\ Stopping(r).state = "stopping"
         /\ MarkCleanupIndeterminate(r).state = "attention_required"
BY DEF SettleReadiness, Stopping, MarkCleanupIndeterminate, Runtime

\* finishStop leaves no terminal ready.
LEMMA FinishStopUnready ==
  ASSUME TypeOK, NEW disposeFails \in BOOLEAN, rt' = FinishStop(rt, disposeFails)
  PROVE  rt'.state # "ready"
<1>1. Stopped(rt, rt')
  BY FinishStopDoes DEF TypeOK
<1> QED BY <1>1

\* The handlers that may still run during a shutdown leave no terminal ready:
\* the continuations of a kill(),
LEMMA KillFulfilledUnready ==
  ASSUME TypeOK, ControlInv, rt.shuttingDown, KillFulfilled
  PROVE  rt'.state # "ready"
<1> DEFINE gone == DisposeSession(rt)
           failed == [gone EXCEPT !.state = "failed"]
           stopped == [gone EXCEPT !.state = StoppedState(gone)]
<1>1. rt.state # "ready"
  BY ShutDownIsNotLive
<1>2. gone \in Runtime /\ gone.state = rt.state
  BY DisposedDoes
<1> HIDE DEF gone
<1>3. /\ failed \in Runtime /\ failed.state = "failed"
      /\ stopped \in Runtime /\ stopped.state # "ready"
  <2>1. StoppedState(gone) \in States /\ StoppedState(gone) # "ready"
    BY DEF States
  <2>2. failed \in Runtime /\ stopped \in Runtime
    BY <1>2, <2>1, StateType DEF States
  <2>3. failed.state = "failed" /\ stopped.state = StoppedState(gone)
    BY <1>2, StateDoes
  <2> QED BY <2>1, <2>2, <2>3
<1> HIDE DEF failed, stopped
<1>4. \/ \E disposeFails \in BOOLEAN : rt' = FinishStop(rt, disposeFails)
      \/ rt' = ExitFinished \/ rt' = FailedStartFinished
      \/ rt' = LateSpawnFinished \/ rt' = rt
  BY Zenon DEF KillFulfilled
<1>5. CASE \E disposeFails \in BOOLEAN : rt' = FinishStop(rt, disposeFails)
  <2>1. PICK disposeFails \in BOOLEAN : rt' = FinishStop(rt, disposeFails)
    BY <1>5
  <2> QED BY <2>1, FinishStopUnready
<1>6. CASE rt' = ExitFinished
  <2>1. \/ rt' = rt \/ rt' = MarkCleanupIndeterminate(gone)
        \/ rt' = AfterExit(gone, kill.previous)
    BY <1>6, Zenon DEF ExitFinished, gone
  <2>2. CASE rt' = AfterExit(gone, kill.previous)
    <3>1. Exited(gone, kill.previous, rt')
      BY <1>2, <2>2, AfterExitDoes, TypesAreFlat DEF Flat
    <3> QED BY <3>1
  <2> QED BY <1>1, <1>2, <2>1, <2>2, HelperStates
<1>7. CASE rt' = FailedStartFinished
  <2>1. \/ rt' = rt \/ rt' = ScheduleRestart(failed) \/ rt' = RejectReadiness(failed)
    BY <1>7, Zenon DEF FailedStartFinished, failed, gone
  <2>2. CASE rt' = ScheduleRestart(failed)
    <3>1. MayRestart(failed, rt')
      BY <1>3, <2>2, ScheduleRestartDoes
    <3> QED BY <3>1
  <2> QED BY <1>1, <1>3, <2>1, <2>2, HelperStates DEF RejectReadiness
<1>8. CASE rt' = LateSpawnFinished
  <2>1. rt' = RejectReadiness(stopped)
    BY <1>8, Zenon DEF LateSpawnFinished, stopped, gone
  <2> QED BY <1>3, <2>1, HelperStates DEF RejectReadiness
<1> QED BY <1>1, <1>4, <1>5, <1>6, <1>7, <1>8

\* its failure,
LEMMA KillRejectedUnready ==
  ASSUME TypeOK, ControlInv, rt.shuttingDown, KillRejected
  PROVE  rt'.state # "ready"
<1> DEFINE recorded == RecordKillFailure(rt)
           parked == MarkCleanupIndeterminate(recorded)
<1>1. rt.state # "ready"
  BY ShutDownIsNotLive
<1>2. recorded \in Runtime /\ recorded.state = rt.state
  BY DEF RecordKillFailure, TypeOK, Runtime
<1>3. \/ rt' = RejectReadiness(parked) \/ rt' = RejectReadiness(recorded)
      \/ rt' = parked \/ rt' = recorded
  BY Zenon DEF KillRejected
<1> HIDE DEF recorded
<1>4. parked \in Runtime /\ parked.state = "attention_required"
  BY <1>2, IndeterminateType, HelperStates
<1> HIDE DEF parked
<1> QED BY <1>1, <1>2, <1>3, <1>4, HelperStates DEF RejectReadiness

\* the end of a spawn and its deadline,
LEMMA SpawnEndsUnready ==
  ASSUME TypeOK, ControlInv, rt.shuttingDown,
         StartupTimerFires \/ SpawnRejects \/ SpawnResolvesLate \/ SpawnResolves
  PROVE  rt'.state # "ready"
<1> DEFINE r == [rt EXCEPT !.startupTimer = 0]
           failed == [r EXCEPT !.state = "failed"]
<1>1. rt.state # "ready" /\ ~SpawnResolves
  BY ShutDownIsNotLive DEF SpawnResolves
<1>2. r \in Runtime /\ r.state = rt.state
  <2>1. r \in Runtime
    BY TimersType DEF TypeOK
  <2>2. r.state = rt.state
    BY UntimedDoes DEF TypeOK
  <2> QED BY <2>1, <2>2
<1>3. CASE StartupTimerFires
  <2>1. \/ rt' = r \/ rt' = RejectReadiness(Stopping(r))
        \/ CleanupFailedStart(r)
    BY <1>3, Zenon DEF StartupTimerFires
  <2> HIDE DEF r
  <2>2. Stopping(r) \in Runtime /\ Stopping(r).state = "stopping"
    BY <1>2, StoppingType, HelperStates
  <2>3. CASE rt' = RejectReadiness(Stopping(r))
    BY <2>2, <2>3, HelperStates DEF RejectReadiness
  <2>4. CASE CleanupFailedStart(r)
    <3>1. StartAbandoned(r)
      BY <1>2, <2>4, FailedStartDoes
    <3> QED BY <3>1
  <2> QED BY <1>1, <1>2, <2>1, <2>3, <2>4
<1>4. CASE SpawnRejects
  <2>1. \/ rt' = [r EXCEPT !.state = StoppedState(r)]
        \/ rt' = ScheduleRestart(failed) \/ rt' = RejectReadiness(failed)
    BY <1>4, Zenon DEF SpawnRejects
  <2> HIDE DEF r
  <2>2. failed \in Runtime /\ failed.state = "failed"
    BY <1>2, StateType DEF States, Runtime
  <2> HIDE DEF failed
  <2>3. CASE rt' = [r EXCEPT !.state = StoppedState(r)]
    BY <1>2, <2>3 DEF Runtime
  <2>4. CASE rt' = ScheduleRestart(failed)
    <3>1. MayRestart(failed, rt')
      BY <2>2, <2>4, ScheduleRestartDoes
    <3> QED BY <3>1
  <2> QED BY <2>1, <2>2, <2>3, <2>4, HelperStates DEF RejectReadiness
<1>5. CASE SpawnResolvesLate
  <2>1. rt' = Stopping(Tracked(rt)) /\ Tracked(rt) \in Runtime
    BY <1>5, TrackedType DEF SpawnResolvesLate, TypeOK
  <2> QED BY <2>1, HelperStates
<1> QED BY <1>1, <1>3, <1>4, <1>5

\* a cancel,
LEMMA CancelUnready ==
  ASSUME TypeOK, ControlInv, rt.shuttingDown, Cancel
  PROVE  rt'.state # "ready"
<1> DEFINE next == [rt EXCEPT !.generation = @ + 1]
           started == [rt EXCEPT !.stabilityTimer = FALSE, !.restartTimer = FALSE,
                                 !.generation = @ + 1]
           live == [rt EXCEPT !.stabilityTimer = FALSE, !.restartTimer = FALSE]
<1>1. rt.state # "ready" /\ ~rt.restartTimer
  BY ShutDownIsNotLive
<1>2. \/ rt' = next \/ rt' = RejectReadiness(Stopping(started)) \/ rt' = Stopping(live)
  BY <1>1, Zenon DEF Cancel, CancelPendingKillless, CancelStarting, CancelRestart,
                     CancelSession
<1>3. next.state = rt.state /\ started \in Runtime /\ live \in Runtime
  <2>1. rt.generation + 1 \in Nat /\ next.state = rt.state
    BY DEF TypeOK, Runtime
  <2>2. ASSUME NEW g \in Nat
        PROVE  [rt EXCEPT !.stabilityTimer = FALSE, !.restartTimer = FALSE,
                          !.generation = g] \in Runtime
    BY Zenon DEF TypeOK, Runtime
  <2>3. started \in Runtime
    BY <2>1, <2>2
  <2>4. live \in Runtime
    BY DEF TypeOK, Runtime
  <2> QED BY <2>1, <2>3, <2>4
<1> HIDE DEF started, live, next
<1>4. /\ Stopping(started) \in Runtime /\ Stopping(started).state = "stopping"
      /\ Stopping(live).state = "stopping"
  BY <1>3, StoppingType, HelperStates
<1> QED BY <1>1, <1>2, <1>3, <1>4, HelperStates DEF RejectReadiness

\* and a receipt that comes late.
LEMMA ReconcileUnready ==
  ASSUME TypeOK, ControlInv, rt.shuttingDown, NEW m \in Messages, ReconcileMarker(m)
  PROVE  rt'.state # "ready"
<1> DEFINE applied == ReceiptApplied(rt, receipt[m])
<1>1. receipt[m] \in Nat /\ rt.state # "ready"
  BY ShutDownIsNotLive DEF TypeOK
<1>2. PICK o \in PersistOutcomes(marker, indeterminate, rt, receipt[m]) :
        rt' = Reconciled(rt, receipt[m], o)
  BY Zenon DEF ReconcileMarker
<1>3. \/ rt' = [rt EXCEPT !.attentionReason = "completion_persist_failed"]
      \/ rt' = ScheduleRestart(applied) \/ rt' = applied
      \/ rt' = [ArmCompletionGate(applied, receipt[m])
                EXCEPT !.state = "draining", !.attentionReason = "none"]
  BY <1>2, Zenon DEF Reconciled
<1>4. applied \in Runtime /\ applied.state = rt.state
  <2>1. rt \in Runtime
    BY DEF TypeOK
  <2>2. applied \in Runtime
    BY <1>1, <2>1, ReceiptAppliedType
  <2>3. applied.state = rt.state
    BY <2>1, AppliedDoes
  <2> QED BY <2>2, <2>3
<1> HIDE DEF applied
<1>5. CASE rt' = [rt EXCEPT !.attentionReason = "completion_persist_failed"]
  BY <1>1, <1>5 DEF TypeOK, Runtime
<1>6. CASE rt' = ScheduleRestart(applied)
  <2>1. MayRestart(applied, rt')
    BY <1>4, <1>6, ScheduleRestartDoes
  <2> QED BY <1>1, <1>4, <2>1
<1>7. CASE rt' = [ArmCompletionGate(applied, receipt[m])
                  EXCEPT !.state = "draining", !.attentionReason = "none"]
  <2>1. ArmCompletionGate(applied, receipt[m]) \in Runtime
    BY <1>1, <1>4, ArmGateType
  <2> HIDE DEF ArmCompletionGate
  <2> QED BY <1>7, <2>1 DEF Runtime
<1> QED BY <1>1, <1>3, <1>4, <1>5, <1>6, <1>7

\* Another call of shutdown() leaves no terminal ready either.
LEMMA StopAllUnready ==
  ASSUME TypeOK, rt.state # "ready", NEW c \in ShutdownCallers, StopAll(c)
  PROVE  rt'.state # "ready"
<1> DEFINE flagged == [rt EXCEPT !.restartTimer = FALSE, !.startupTimer = 0,
                                 !.stabilityTimer = FALSE, !.shuttingDown = TRUE]
           quiet == RejectReadiness(flagged)
<1>1. \/ rt' = Stopping(quiet) \/ rt' = quiet
      \/ rt' = [quiet EXCEPT !.state = "attention_required"]
      \/ rt' = [quiet EXCEPT !.state = "stopped"]
  BY Zenon DEF StopAll
<1>2. flagged \in Runtime
  BY ZenonT(60) DEF TypeOK, Runtime
<1>3. flagged.state = rt.state
  BY DEF TypeOK, Runtime
<1> HIDE DEF flagged
<1>4. quiet \in Runtime /\ quiet.state = rt.state
  BY <1>2, <1>3, RejectType, HelperStates DEF RejectReadiness
<1> HIDE DEF quiet
<1>5. /\ [quiet EXCEPT !.state = "attention_required"].state = "attention_required"
      /\ [quiet EXCEPT !.state = "stopped"].state = "stopped"
  BY <1>4 DEF Runtime
<1> QED BY <1>1, <1>4, <1>5, HelperStates

\* No step of a shutdown makes a terminal ready or creates a marker.
LEMMA ShutdownTakesNothing ==
  ASSUME TypeOK, ControlInv, rt.shuttingDown, [Next]_vars
  PROVE  rt'.state # "ready" /\ (marker.phase = "none" => marker'.phase = "none")
<1>1. /\ ~Delivers /\ rt.state \notin {"ready", "busy", "draining"}
      /\ ~rt.restartTimer /\ ~rt.stabilityTimer /\ Up
  BY ShutDownIsNotLive
<1>2. /\ ~EnsureReady /\ ~PreflightPasses
      /\ ~OutputWhileStarting /\ ~OutputWhileDraining
      /\ ~OutputElsewhere /\ ~OutputHandlerFails /\ ~PtyExits
      /\ ~RestartTimerFires /\ ~StabilityTimerFires
      /\ ~Boot /\ ~AcknowledgeStableIdle /\ ~AuditDeadlines
  BY <1>1, Zenon
     DEF EnsureReady, PreflightPasses, OutputWhileStarting, OutputWhileDraining,
         OutputElsewhere, OutputHandlerFails, PtyExits, RestartTimerFires,
         StabilityTimerFires, Boot, AcknowledgeStableIdle, IdleProofHolds, AuditDeadlines
<1>3. \A m \in Messages :
        ~Dispatch(m) /\ ~CrashDuringDispatch(m) /\ ~AcknowledgeCompletion(m)
  BY <1>1 DEF Dispatch, CrashDuringDispatch, Dispatchable, AcknowledgeCompletion,
              CanAcknowledge
<1>4. CASE StartupTimerFires \/ SpawnRejects \/ SpawnResolvesLate \/ SpawnResolves
  BY <1>4, SpawnEndsUnready, Zenon
     DEF StartupTimerFires, SpawnRejects, SpawnResolvesLate, SpawnResolves, storeVars
<1>5. CASE KillFulfilled \/ KillRejected \/ Cancel
  BY <1>5, KillFulfilledUnready, KillRejectedUnready, CancelUnready, Zenon
     DEF KillFulfilled, KillRejected, Cancel, storeVars
<1>6. CASE BeginShutdown \/ PreflightRollback \/ RouterRollback
  <2>1. PICK c \in ShutdownCallers : StopAll(c)
    BY <1>6 DEF BeginShutdown, PreflightRollback, RouterRollback, ShutdownCallers
  <2>2. marker' = marker
    BY <2>1 DEF StopAll, storeVars
  <2> QED BY <1>1, <2>1, <2>2, StopAllUnready
<1>7. CASE \E c \in ShutdownCallers : ShutdownSettles(c)
  <2>1. rt' = [rt EXCEPT !.cleanupLedger = FALSE] /\ marker' = marker
    BY <1>7 DEF ShutdownSettles, storeVars
  <2> QED BY <1>1, <2>1, LedgerDoes DEF TypeOK
<1>8. CASE Crash
  <2>1. rt' = CreateRuntime(NoMarker) /\ marker' = marker
    BY <1>8 DEF Crash, Dies
  <2> QED BY <2>1 DEF CreateRuntime, NoMarker
<1>9. CASE \E m \in Messages : ReconcileMarker(m)
  <2>1. PICK m \in Messages : ReconcileMarker(m)
    BY <1>9
  <2>2. PICK o \in PersistOutcomes(marker, indeterminate, rt, receipt[m]) :
          marker' = o.marker
    BY <2>1 DEF ReconcileMarker, StoreBecomes
  <2>3. marker.phase = "none" => o.marker = marker
    BY <2>2, PersistLeaves
  <2> QED BY <2>1, <2>2, <2>3, ReconcileUnready
<1>10. CASE \/ \E m \in Messages : Complete(m)
            \/ \E g \in pty.unwinding : OrphanSettles(g)
            \/ UNCHANGED vars
  <2>1. rt' = rt /\ marker' = marker
    BY <1>10, Zenon DEF Complete, OrphanSettles, vars, storeVars
  <2> QED BY <1>1, <2>1
<1> QED BY <1>2, <1>3, <1>4, <1>5, <1>6, <1>7, <1>8, <1>9, <1>10, Zenon
        DEF Next, HostNext, PumpNext

\* Once shutdown() was called, by the coordinator or by a failed preflight, no
\* PTY is spawned, no terminal becomes ready and no task is taken.
THEOREM ShutdownEndsWork == Spec => ShutdownIsFinal
<1>1. TypeOK /\ ControlInv /\ [Next]_vars =>
        (rt.shuttingDown =>
           /\ ~SpawnStarts
           /\ rt'.state = "ready" => rt.state = "ready"
           /\ marker.phase = "none" => marker'.phase = "none")
  <2> SUFFICES ASSUME TypeOK, ControlInv, [Next]_vars, rt.shuttingDown
               PROVE  /\ ~SpawnStarts
                      /\ rt'.state # "ready"
                      /\ marker.phase = "none" => marker'.phase = "none"
    OBVIOUS
  <2>1. rt'.state # "ready" /\ (marker.phase = "none" => marker'.phase = "none")
    BY ShutdownTakesNothing
  <2>2. ~SpawnStarts
    BY OnlyAttemptsSpawn, ShutDownIsNotLive DEF EnsureReady, RestartTimerFires
  <2> QED BY <2>1, <2>2
<1> QED BY <1>1, TypeCorrect, ControlInvAlways, PTL DEF Spec, ShutdownIsFinal

=============================================================================
