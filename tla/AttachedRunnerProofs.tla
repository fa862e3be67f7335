------------------------ MODULE AttachedRunnerProofs ------------------------
(***************************************************************************)
(* What the attached terminal and its completion pump guarantee together,  *)
(* for any finite set of messages, any page limit and any number of        *)
(* rounds, crashes and reboots: every step of the two is a step of the     *)
(* terminal, and the cursor of the pump never passes a receipt that the    *)
(* marker of the terminal's task still waits for.                          *)
(*                                                                         *)
(* The terminal is judged by its own invariants (MarkerInv, ControlInv).   *)
(* To these RunnerInv adds the round: a page has no gaps (RoundInv), so    *)
(* that the cursor, set to the last receipt that was applied, leaves       *)
(* nothing behind.  CursorInv adds what ties the task on disk to the one   *)
(* in memory: while the marker names a task that was written or receipted  *)
(* after the marker was taken, the runtime names it too, so that the       *)
(* receipt which the pump takes for history is never the marker's.         *)
(***************************************************************************)
EXTENDS AttachedCursor, AttachedControlProofs, WellFoundedInduction

-----------------------------------------------------------------------------
(* What the handlers of the terminal leave alone: the task in memory, a     *)
(* preflight that is done, and the reason of a terminal at work.            *)

AtWork == {"busy", "draining"}

\* What no handler but a dispatch and a release does to the runtime.
Keeps(r, s) ==
  /\ s.messageId = r.messageId
  /\ r.preflight = "done" => s.preflight = "done"
  /\ s.state \in AtWork => r.state \in AtWork /\ s.attentionReason = r.attentionReason

USE DEF Keeps, AtWork

\* The helpers on the runtime record.
LEMMA SettleKeeps ==
  ASSUME NEW r \in Runtime, NEW result
  PROVE  Keeps(r, SettleReadiness(r, result))
BY DEF SettleReadiness, Runtime

LEMMA HelpersKeep ==
  ASSUME NEW r \in Runtime, NEW x
  PROVE  /\ x \notin AtWork => Keeps(r, [r EXCEPT !.state = x])
         /\ Keeps(r, Attention(r, x))
         /\ Keeps(r, Stopping(r)) /\ Keeps(r, DisposeSession(r))
         /\ Keeps(r, MarkCleanupIndeterminate(r))
         /\ Keeps(r, [r EXCEPT !.completedBeforeExit = x])
<1>1. /\ x \notin AtWork => Keeps(r, [r EXCEPT !.state = x])
      /\ Keeps(r, [r EXCEPT !.completedBeforeExit = x])
  BY DEF Runtime
<1>2. Keeps(r, Attention(r, x)) /\ Keeps(r, Stopping(r))
  BY DEF Attention, Stopping, Runtime
<1>3. Keeps(r, DisposeSession(r)) /\ Keeps(r, MarkCleanupIndeterminate(r))
  BY DEF DisposeSession, MarkCleanupIndeterminate, Runtime
<1> QED BY <1>1, <1>2, <1>3

\* scheduleRestart
LEMMA ScheduleRestartKeeps ==
  ASSUME NEW r \in Runtime
  PROVE  Keeps(r, ScheduleRestart(r))
<1> DEFINE cleared == [r EXCEPT !.startupTimer = 0, !.stabilityTimer = FALSE]
           refused == RejectReadiness(cleared)
           s == ScheduleRestart(r)
<1>1. cleared \in Runtime
  BY TimersType
<1>2. Keeps(r, cleared)
  BY DEF Runtime
<1>3. \/ s = [refused EXCEPT !.state = StoppedState(r)]
      \/ s = [refused EXCEPT !.state = "attention_required"]
      \/ s = [refused EXCEPT !.state = "failed", !.restartBudgetExhausted = TRUE]
      \/ s = [cleared EXCEPT !.state = "failed", !.restartTimer = TRUE,
                             !.readiness = TRUE, !.restartAttempts = NextAttempt(r)]
  BY Zenon DEF ScheduleRestart
<1> HIDE DEF cleared
<1>4. refused \in Runtime /\ Keeps(cleared, refused)
  BY <1>1, RejectType, SettleKeeps DEF RejectReadiness
<1>5. StoppedState(r) \notin AtWork
  BY DEF StoppedState
<1> HIDE DEF refused, s
<1>6. /\ Keeps(refused, [refused EXCEPT !.state = StoppedState(r)])
      /\ Keeps(refused, [refused EXCEPT !.state = "attention_required"])
  BY <1>4, <1>5, HelpersKeep
<1>7. Keeps(refused, [refused EXCEPT !.state = "failed", !.restartBudgetExhausted = TRUE])
  BY <1>4 DEF Runtime
<1>8. Keeps(cleared, [cleared EXCEPT !.state = "failed", !.restartTimer = TRUE,
                                     !.readiness = TRUE,
                                     !.restartAttempts = NextAttempt(r)])
  BY <1>1 DEF Runtime
<1>9. ASSUME NEW x \in {StoppedState(r), "attention_required"},
             s = [refused EXCEPT !.state = x]
      PROVE  Keeps(r, s)
  <2>1. Keeps(refused, [refused EXCEPT !.state = x])
    BY <1>6
  <2> QED BY <1>2, <1>4, <1>9, <2>1
<1>10. ASSUME s = [refused EXCEPT !.state = "failed", !.restartBudgetExhausted = TRUE]
       PROVE  Keeps(r, s)
  BY <1>2, <1>4, <1>7, <1>10
<1>11. ASSUME s = [cleared EXCEPT !.state = "failed", !.restartTimer = TRUE,
                                  !.readiness = TRUE, !.restartAttempts = NextAttempt(r)]
       PROVE  Keeps(r, s)
  BY <1>2, <1>8, <1>11
<1>12. Keeps(r, s)
  BY <1>3, <1>9, <1>10, <1>11
<1> QED BY <1>12 DEF s

\* transitionAfterAttachedExit
LEMMA AfterExitKeeps ==
  ASSUME NEW r \in Runtime, NEW previous
  PROVE  Keeps(r, AfterExit(r, previous))
<1> DEFINE finished == [r EXCEPT !.completedBeforeExit = TRUE]
           rejected == RejectReadiness(r)
           parked == IF HasTask(r) THEN "attention_required" ELSE "failed"
<1>1. finished \in Runtime
  BY Zenon DEF Runtime
<1>2. Keeps(r, finished)
  BY HelpersKeep
<1>3. rejected \in Runtime /\ Keeps(r, rejected)
  BY RejectType, SettleKeeps DEF RejectReadiness
<1>4. AfterExit(r, previous) \in
        {ScheduleRestart(finished), ScheduleRestart(r), Attention(r, "task_crash"),
         [rejected EXCEPT !.state = StoppedState(r)],
         [r EXCEPT !.state = parked]}
  <2>1. CASE previous \in {"draining", "starting", "busy", "stopping"}
    BY <2>1 DEF AfterExit, FinishedBeforeExit
  <2>2. CASE previous \notin {"draining", "starting", "busy", "stopping"}
    BY <2>2 DEF AfterExit, FinishedBeforeExit
  <2> QED BY <2>1, <2>2
<1>7. StoppedState(r) \notin AtWork /\ parked \notin AtWork
  BY DEF StoppedState
<1> HIDE DEF finished, rejected, parked
<1>5. /\ Keeps(finished, ScheduleRestart(finished))
      /\ Keeps(r, ScheduleRestart(r))
  BY <1>1, ScheduleRestartKeeps
<1>6. /\ Keeps(rejected, [rejected EXCEPT !.state = StoppedState(r)])
      /\ Keeps(r, Attention(r, "task_crash")) /\ Keeps(r, [r EXCEPT !.state = parked])
  BY <1>3, <1>7, HelpersKeep
<1>8. /\ Keeps(r, ScheduleRestart(finished))
      /\ Keeps(r, [rejected EXCEPT !.state = StoppedState(r)])
  BY <1>2, <1>3, <1>5, <1>6
<1> QED BY <1>4, <1>5, <1>6, <1>8, Zenon

\* finishStop
LEMMA FinishStopKeeps ==
  ASSUME NEW r \in Runtime, NEW b
  PROVE  Keeps(r, FinishStop(r, b))
<1> DEFINE calmed == [r EXCEPT !.startupTimer = 0, !.stabilityTimer = FALSE]
           rejected == RejectReadiness(calmed)
           gone == DisposeSession(rejected)
           marked == MarkCleanupIndeterminate(gone)
           s == FinishStop(r, b)
<1>1. calmed \in Runtime
  BY TimersType
<1>2. Keeps(r, calmed)
  BY DEF Runtime
<1>3. s = IF b THEN [marked EXCEPT !.cleanupLedger = TRUE]
          ELSE [gone EXCEPT !.state = StoppedState(r)]
  BY Zenon DEF FinishStop
<1> HIDE DEF calmed
<1>4. rejected \in Runtime /\ Keeps(calmed, rejected)
  BY <1>1, RejectType, SettleKeeps DEF RejectReadiness
<1> HIDE DEF rejected
<1>5. gone \in Runtime /\ Keeps(rejected, gone)
  BY <1>4, DisposeType, HelpersKeep
<1> HIDE DEF gone
<1>6. marked \in Runtime /\ Keeps(gone, marked)
  BY <1>5, IndeterminateType, HelpersKeep
<1>7. StoppedState(r) \notin AtWork
  BY DEF StoppedState
<1> HIDE DEF marked, s
<1>8. Keeps(gone, [gone EXCEPT !.state = StoppedState(r)])
  BY <1>5, <1>7, HelpersKeep
<1>9. Keeps(marked, [marked EXCEPT !.cleanupLedger = TRUE])
  BY <1>6 DEF Runtime
<1>10. Keeps(r, s)
  BY <1>2, <1>3, <1>4, <1>5, <1>6, <1>8, <1>9
<1> QED BY <1>10 DEF s

\* cleanupFailedStart and runSpawnAttempt, up to their awaits.
LEMMA CleanupFailedStartKeeps ==
  ASSUME NEW r \in Runtime, CleanupFailedStart(r)
  PROVE  Keeps(r, rt')
BY DEF CleanupFailedStart, Stopping, Runtime

LEMMA SpawnAttemptKeeps ==
  ASSUME NEW r \in Runtime, NEW automatic \in BOOLEAN, SpawnAttempt(r, automatic)
  PROVE  Keeps(r, rt')
<1>1. CASE r.session = 0
  BY <1>1, SpawnAttemptDoes DEF SpawnBegun, SameTask, SamePromise
<1>2. CASE r.session # 0
  <2> DEFINE unusable == [r EXCEPT !.sessionUsable = FALSE]
             marked == MarkCleanupIndeterminate(unusable)
  <2>1. rt' = RejectReadiness(marked)
    BY <1>2 DEF SpawnAttempt
  <2>2. unusable \in Runtime
    BY Zenon DEF Runtime
  <2>3. Keeps(r, unusable)
    BY DEF Runtime
  <2> HIDE DEF unusable
  <2>4. marked \in Runtime /\ Keeps(unusable, marked)
    BY <2>2, IndeterminateType, HelpersKeep
  <2> HIDE DEF marked
  <2>5. Keeps(marked, RejectReadiness(marked))
    BY <2>4, SettleKeeps DEF RejectReadiness
  <2> QED BY <2>1, <2>3, <2>4, <2>5
<1> QED BY <1>1, <1>2

\* The handlers, one by one.
LEMMA EnsureReadyKeeps ==
  ASSUME TypeOK, EnsureReady
  PROVE  Keeps(rt, rt')
<1> DEFINE r == [rt EXCEPT !.readiness = TRUE, !.preflight = "waiting"]
<1>1. /\ rt.preflight = "idle"
      /\ \/ rt' = [rt EXCEPT !.preflight = "refused"]
         \/ rt' = [rt EXCEPT !.preflight = "ready"]
         \/ SpawnAttempt(r, FALSE)
  BY Zenon DEF EnsureReady
<1>2. r \in Runtime
  BY Zenon DEF TypeOK, Runtime, Preflights
<1>3. /\ r.messageId = rt.messageId /\ r.state = rt.state
      /\ r.attentionReason = rt.attentionReason
  BY DEF TypeOK, Runtime
<1> HIDE DEF r
<1>4. CASE SpawnAttempt(r, FALSE)
  BY <1>1, <1>2, <1>3, <1>4, SpawnAttemptKeeps
<1> QED BY <1>1, <1>4 DEF TypeOK, Runtime

LEMMA PreflightPassesKeeps ==
  ASSUME TypeOK, PreflightPasses PROVE Keeps(rt, rt')
BY DEF TypeOK, PreflightPasses, Runtime

LEMMA StartupTimerKeeps ==
  ASSUME TypeOK, StartupTimerFires
  PROVE  Keeps(rt, rt')
<1> DEFINE r == [rt EXCEPT !.startupTimer = 0]
<1>1. r \in Runtime /\ Keeps(rt, r)
  BY TimersType, UntimedDoes DEF TypeOK, Runtime
<1>2. rt' = r \/ rt' = RejectReadiness(Stopping(r)) \/ CleanupFailedStart(r)
  BY Zenon DEF StartupTimerFires
<1> HIDE DEF r
<1>3. Stopping(r) \in Runtime /\ Keeps(r, Stopping(r))
  BY <1>1, StoppingType, HelpersKeep
<1>4. CASE rt' = r
  BY <1>1, <1>4
<1>5. CASE rt' = RejectReadiness(Stopping(r))
  BY <1>1, <1>3, <1>5, SettleKeeps DEF RejectReadiness
<1>6. CASE CleanupFailedStart(r)
  BY <1>1, <1>6, CleanupFailedStartKeeps
<1> QED BY <1>2, <1>4, <1>5, <1>6

LEMMA SpawnRejectsKeeps ==
  ASSUME TypeOK, SpawnRejects
  PROVE  Keeps(rt, rt')
<1> DEFINE r == [rt EXCEPT !.startupTimer = 0]
           failed == [r EXCEPT !.state = "failed"]
<1>1. rt' \in {[r EXCEPT !.state = StoppedState(r)], ScheduleRestart(failed),
              RejectReadiness(failed)}
  BY Zenon DEF SpawnRejects
<1>2. r \in Runtime
  BY TimersType DEF TypeOK
<1>3. Keeps(rt, r)
  BY DEF TypeOK, Runtime
<1>4. failed \in Runtime
  BY <1>2, StateType DEF States
<1> HIDE DEF r
<1>5. Keeps(r, failed) /\ Keeps(r, [r EXCEPT !.state = StoppedState(r)])
  <2>1. StoppedState(r) \notin AtWork
    BY DEF StoppedState
  <2> QED BY <1>2, <2>1, HelpersKeep
<1> HIDE DEF failed
<1>6. Keeps(failed, ScheduleRestart(failed)) /\ Keeps(failed, RejectReadiness(failed))
  BY <1>4, ScheduleRestartKeeps, SettleKeeps DEF RejectReadiness
<1> QED BY <1>1, <1>3, <1>5, <1>6

LEMMA SpawnResolvesLateKeeps ==
  ASSUME TypeOK, SpawnResolvesLate PROVE Keeps(rt, rt')
BY DEF TypeOK, SpawnResolvesLate, Stopping, Tracked, Runtime

LEMMA SpawnResolvesKeeps ==
  ASSUME TypeOK, SpawnResolves
  PROVE  Keeps(rt, rt')
<1> DEFINE tracked == Tracked(rt)
           r == [tracked EXCEPT !.sessionUsable = TRUE,
                                !.cleanupIndeterminate = FALSE,
                                !.attentionReason = "none"]
<1>1. rt.state = "starting" /\ (rt' = r \/ CleanupFailedStart(r))
  BY Zenon DEF SpawnResolves, SpawnUnwanted, SpawnIsStale
<1>2. tracked \in Runtime
  BY DEF TypeOK, Tracked, Runtime, Spawns
<1>3. r \in Runtime
  <2> HIDE DEF tracked
  <2> QED BY <1>2, ZenonT(60) DEF Runtime, Reasons
<1>4. /\ r.messageId = rt.messageId /\ r.preflight = rt.preflight
      /\ r.state = rt.state
  BY DEF TypeOK, Tracked, Runtime
<1> HIDE DEF r
<1>5. CASE CleanupFailedStart(r)
  BY <1>1, <1>3, <1>4, <1>5, CleanupFailedStartKeeps
<1> QED BY <1>1, <1>4, <1>5

LEMMA OutputKeeps ==
  ASSUME TypeOK,
         \/ OutputWhileDraining \/ OutputElsewhere \/ OutputHandlerFails
         \/ PtyExits \/ StabilityTimerFires
  PROVE  Keeps(rt, rt')
<1>1. CASE OutputWhileDraining \/ OutputElsewhere
  BY <1>1 DEF TypeOK, OutputWhileDraining, OutputElsewhere, Runtime
<1>2. CASE OutputHandlerFails
  <2> DEFINE r == [rt EXCEPT !.startupTimer = 0]
  <2>1. CleanupFailedStart(r) \/ rt' = Attention(rt, "output_failed")
    BY <1>2, Zenon DEF OutputHandlerFails
  <2>2. r \in Runtime
    BY TimersType DEF TypeOK
  <2>3. Keeps(rt, r)
    BY DEF TypeOK, Runtime
  <2> HIDE DEF r
  <2> QED BY <2>1, <2>2, <2>3, CleanupFailedStartKeeps, HelpersKeep DEF TypeOK
<1>3. CASE PtyExits
  <2> DEFINE stopping == Stopping(rt)
  <2>1. PICK ledger \in BOOLEAN :
          rt' = [stopping EXCEPT !.startupTimer = 0, !.stabilityTimer = FALSE,
                                 !.cleanupLedger = ledger]
    <3>1. PICK disposeFails \in BOOLEAN :
            rt' = [stopping EXCEPT !.startupTimer = 0, !.stabilityTimer = FALSE,
                                   !.cleanupLedger = rt.cleanupLedger \/ disposeFails]
      BY <1>3 DEF PtyExits
    <3> QED BY <3>1
  <2>2. stopping \in Runtime /\ Keeps(rt, stopping)
    BY StoppingType, HelpersKeep DEF TypeOK
  <2> HIDE DEF stopping
  <2>3. Keeps(stopping, rt')
    BY <2>1, <2>2 DEF Runtime
  <2> QED BY <2>2, <2>3
<1>4. CASE StabilityTimerFires
  BY <1>4 DEF TypeOK, StabilityTimerFires, Runtime
<1> QED BY <1>1, <1>2, <1>3, <1>4

LEMMA RestartTimerKeeps ==
  ASSUME TypeOK, RestartTimerFires
  PROVE  Keeps(rt, rt')
<1> DEFINE r == [rt EXCEPT !.restartTimer = FALSE]
<1>1. r \in Runtime
  BY Zenon DEF TypeOK, Runtime
<1>2. Keeps(rt, r)
  BY DEF TypeOK, Runtime
<1>3. rt' = RejectReadiness(r) \/ SpawnAttempt(r, TRUE)
  BY Zenon DEF RestartTimerFires
<1> HIDE DEF r
<1>4. CASE rt' = RejectReadiness(r)
  BY <1>1, <1>2, <1>4, SettleKeeps DEF RejectReadiness
<1>5. CASE SpawnAttempt(r, TRUE)
  BY <1>1, <1>2, <1>5, SpawnAttemptKeeps
<1> QED BY <1>3, <1>4, <1>5

LEMMA CancelKeeps ==
  ASSUME TypeOK, Cancel
  PROVE  Keeps(rt, rt')
<1>1. CASE CancelPendingKillless
  BY <1>1 DEF TypeOK, CancelPendingKillless, Runtime
<1>2. CASE CancelStarting
  BY <1>2 DEF TypeOK, CancelStarting, Stopping, RejectReadiness, SettleReadiness, Runtime
<1>3. CASE CancelRestart
  <2> DEFINE r == [rt EXCEPT !.stabilityTimer = FALSE, !.restartTimer = FALSE]
             rejected == RejectReadiness(r)
  <2>1. rt' = [rejected EXCEPT !.state = StoppedState(rt)]
    BY <1>3, Zenon DEF CancelRestart
  <2>2. r \in Runtime
    BY Zenon DEF TypeOK, Runtime
  <2>3. Keeps(rt, r)
    BY DEF TypeOK, Runtime
  <2> HIDE DEF r
  <2>4. rejected \in Runtime /\ Keeps(r, rejected)
    BY <2>2, RejectType, SettleKeeps DEF RejectReadiness
  <2>5. StoppedState(rt) \notin AtWork
    BY DEF StoppedState
  <2> HIDE DEF rejected
  <2> QED BY <2>1, <2>3, <2>4, <2>5, HelpersKeep
<1>4. CASE CancelSession
  BY <1>4 DEF TypeOK, CancelSession, Stopping, Runtime
<1> QED BY <1>1, <1>2, <1>3, <1>4 DEF Cancel

LEMMA KillRejectedKeeps ==
  ASSUME TypeOK, KillRejected PROVE Keeps(rt, rt')
BY DEF TypeOK, KillRejected, RecordKillFailure, RejectReadiness, SettleReadiness,
       MarkCleanupIndeterminate, Runtime

LEMMA ShutdownKeeps ==
  ASSUME TypeOK,
         \/ BeginShutdown \/ PreflightRollback \/ RouterRollback
         \/ \E c \in ShutdownCallers : ShutdownSettles(c)
         \/ \E g \in pty.unwinding : OrphanSettles(g)
  PROVE  Keeps(rt, rt')
<1>1. CASE BeginShutdown \/ PreflightRollback \/ RouterRollback
  <2>1. PICK c \in ShutdownCallers : StopAll(c)
    BY <1>1 DEF BeginShutdown, PreflightRollback, RouterRollback, ShutdownCallers
  <2> QED BY <2>1 DEF TypeOK, StopAll, Stopping, RejectReadiness, SettleReadiness, Runtime
<1>2. CASE \E c \in ShutdownCallers : ShutdownSettles(c)
  BY <1>2 DEF TypeOK, ShutdownSettles, Runtime
<1>3. CASE \E g \in pty.unwinding : OrphanSettles(g)
  BY <1>3 DEF OrphanSettles
<1> QED BY <1>1, <1>2, <1>3

LEMMA KillFulfilledKeeps ==
  ASSUME TypeOK, KillFulfilled
  PROVE  Keeps(rt, rt')
<1> DEFINE gone == DisposeSession(rt)
           failed == [gone EXCEPT !.state = "failed"]
           stopped == [gone EXCEPT !.state = StoppedState(gone)]
<1>1. rt \in Runtime /\ gone \in Runtime /\ Keeps(rt, gone)
  BY DisposeType, HelpersKeep DEF TypeOK
<1>2. \/ rt' = rt \/ \E b \in BOOLEAN : rt' = FinishStop(rt, b)
      \/ rt' = MarkCleanupIndeterminate(gone)
      \/ rt' = AfterExit(gone, kill.previous)
      \/ rt' = ScheduleRestart(failed) \/ rt' = RejectReadiness(failed)
      \/ rt' = ScheduleRestart(gone) \/ rt' = RejectReadiness(stopped)
  BY Zenon DEF KillFulfilled, ExitFinished, FailedStartFinished, LateSpawnFinished
<1> HIDE DEF gone
<1>3. failed \in Runtime /\ stopped \in Runtime
  BY <1>1, StateType DEF StoppedState, States
<1>4. Keeps(gone, failed) /\ Keeps(gone, stopped)
  <2>1. StoppedState(gone) \notin AtWork
    BY DEF StoppedState
  <2> QED BY <1>1, <2>1, HelpersKeep
<1> HIDE DEF failed, stopped
<1>5. Keeps(gone, MarkCleanupIndeterminate(gone))
  BY <1>1, HelpersKeep
<1>6. Keeps(gone, AfterExit(gone, kill.previous))
  BY <1>1, AfterExitKeeps
<1> QED BY <1>1, <1>2, <1>3, <1>4, <1>5, <1>6, FinishStopKeeps, ScheduleRestartKeeps,
           SettleKeeps DEF RejectReadiness

\* promoteReady
LEMMA PromoteReadyKeeps ==
  ASSUME NEW r \in Runtime, PromoteReady(r)
  PROVE  /\ r.preflight = "done" => rt'.preflight = "done"
         /\ rt'.state \notin AtWork
         /\ rt'.messageId = r.messageId \/ marker' = NoMarker
<1> DEFINE base == IF r.completedBeforeExit THEN ClearAttachedTask(r) ELSE r
           untimed == [base EXCEPT !.startupTimer = 0]
           proved == BecomeReady(untimed)
           warned == Attention(r, "marker_cleanup_failed")
           calm == [warned EXCEPT !.startupTimer = 0]
<1>1. rt' = ResolveReadiness(proved) \/ rt' = RejectReadiness(calm)
  BY Zenon DEF PromoteReady
<1>2. base \in Runtime /\ warned \in Runtime
  BY ClearType, AttentionType DEF Reasons
<1>3. base.preflight = r.preflight /\ warned.preflight = r.preflight
  BY DEF ClearAttachedTask, Attention, Runtime
<1> HIDE DEF base, warned
<1>4. untimed \in Runtime /\ calm \in Runtime
  BY <1>2, TimersType
<1>5. untimed.preflight = r.preflight /\ calm.preflight = r.preflight
  BY <1>2, <1>3 DEF Runtime
<1> HIDE DEF untimed, calm
<1>6. proved \in Runtime /\ proved.preflight = r.preflight
  <2>1. proved.preflight = untimed.preflight
    BY <1>4 DEF BecomeReady, Runtime
  <2> QED BY <1>4, <1>5, <2>1, BecomeReadyType
<1> HIDE DEF proved
<1>7. r.preflight = "done" => rt'.preflight = "done"
  BY <1>1, <1>4, <1>5, <1>6, SettleKeeps DEF ResolveReadiness, RejectReadiness
<1>8. Promoted(r)
  BY PromoteReadyDoes
<1>9. rt'.state \notin AtWork
  BY <1>8 DEF Promoted
<1>10. rt'.messageId = r.messageId \/ marker' = NoMarker
  BY <1>8 DEF Promoted, SameTask, HasTask
<1> QED BY <1>7, <1>9, <1>10

\* The same of a step: a release, which leaves no marker, may forget the task.
\* A terminal goes to work with no reason for attention, and keeps none.
StepKeeps ==
  /\ rt.preflight = "done" => rt'.preflight = "done"
  /\ rt'.state \in AtWork =>
       \/ rt.state \in AtWork /\ rt'.attentionReason = rt.attentionReason
       \/ rt'.attentionReason = "none"
  /\ (rt'.messageId = rt.messageId /\ UNCHANGED writes) \/ marker' = NoMarker

USE DEF StepKeeps

\* Output of a starting PTY, which may promote the terminal to ready.
LEMMA OutputWhileStartingKeeps ==
  ASSUME TypeOK, OutputWhileStarting
  PROVE  StepKeeps
<1> DEFINE k(readySample) == IF readySample THEN rt.readySamples + 1 ELSE 0
           r(readySample) == [rt EXCEPT !.idleConfirmationCount = 0,
                                        !.readySamples = k(readySample)]
<1>1. PICK readySample \in BOOLEAN : rt' = r(readySample) \/ PromoteReady(r(readySample))
  BY Zenon DEF OutputWhileStarting
<1>2. k(readySample) \in Nat /\ UNCHANGED writes
  BY DEF TypeOK, Runtime, OutputWhileStarting, worldVars
<1> HIDE DEF k
<1> DEFINE s == r(readySample)
<1>3. s \in Runtime
  BY <1>2, SamplesType DEF TypeOK
<1>4. Keeps(rt, s)
  BY DEF TypeOK, Runtime
<1>5. rt' = s \/ PromoteReady(s)
  BY <1>1
<1> HIDE DEF s
<1> QED BY <1>2, <1>3, <1>4, <1>5, PromoteReadyKeeps

\* The calls of the pump.
LEMMA PumpKeeps ==
  ASSUME TypeOK, PumpNext
  PROVE  StepKeeps
<1>1. UNCHANGED writes
  BY DEF PumpNext, AcknowledgeCompletion, ReconcileMarker, AcknowledgeStableIdle,
         AuditDeadlines, worldVars
<1>2. ASSUME NEW m \in Messages, AcknowledgeCompletion(m)
      PROVE  Keeps(rt, rt')
  <2>1. PICK o : rt.state \in AtWork /\ rt' = Acknowledged(rt, receipt[m], o)
    BY <1>2 DEF AcknowledgeCompletion, CanAcknowledge
  <2> DEFINE applied == ReceiptApplied(rt, receipt[m])
             armed == ArmCompletionGate(applied, receipt[m])
  <2>2. applied \in Runtime /\ armed \in Runtime
    BY ReceiptAppliedType, ArmGateType DEF TypeOK
  <2>3. /\ applied.messageId = rt.messageId /\ applied.preflight = rt.preflight
        /\ applied.attentionReason = rt.attentionReason
    BY DEF ReceiptApplied, TypeOK, Runtime
  <2>4. \/ rt' = Attention(rt, "completion_persist_failed")
        \/ rt' = [armed EXCEPT !.state = "draining"]
    BY <2>1 DEF Acknowledged
  <2> HIDE DEF applied
  <2>5. /\ armed.messageId = rt.messageId /\ armed.preflight = rt.preflight
        /\ armed.attentionReason = rt.attentionReason
    BY <2>2, <2>3 DEF ArmCompletionGate, Runtime
  <2> HIDE DEF armed
  <2> QED BY <2>1, <2>2, <2>4, <2>5, HelpersKeep DEF TypeOK, Runtime
<1>3. ASSUME NEW m \in Messages, ReconcileMarker(m)
      PROVE  StepKeeps
  <2>1. PICK o : rt.state = "attention_required" /\ rt' = Reconciled(rt, receipt[m], o)
    BY <1>3 DEF ReconcileMarker, CanReconcile
  <2> DEFINE applied == ReceiptApplied(rt, receipt[m])
             armed == ArmCompletionGate(applied, receipt[m])
  <2>2. applied \in Runtime /\ armed \in Runtime
    BY ReceiptAppliedType, ArmGateType DEF TypeOK
  <2>3. Keeps(rt, applied) /\ applied.state = rt.state
    BY DEF ReceiptApplied, TypeOK, Runtime
  <2>4. \/ rt' = [rt EXCEPT !.attentionReason = "completion_persist_failed"]
        \/ rt' = ScheduleRestart(applied) \/ rt' = applied
        \/ rt' = [armed EXCEPT !.state = "draining", !.attentionReason = "none"]
    BY <2>1, Zenon DEF Reconciled
  <2> HIDE DEF applied
  <2>5. Keeps(applied, armed)
    BY <2>2 DEF ArmCompletionGate, Runtime
  <2> HIDE DEF armed
  <2>6. Keeps(applied, ScheduleRestart(applied))
    BY <2>2, ScheduleRestartKeeps
  <2>7. CASE rt' = [rt EXCEPT !.attentionReason = "completion_persist_failed"]
    BY <1>1, <2>1, <2>7 DEF TypeOK, Runtime
  <2>8. CASE rt' = ScheduleRestart(applied) \/ rt' = applied
    BY <1>1, <2>1, <2>3, <2>6, <2>8
  <2>9. CASE rt' = [armed EXCEPT !.state = "draining", !.attentionReason = "none"]
    BY <1>1, <2>2, <2>3, <2>5, <2>9 DEF Runtime
  <2> QED BY <2>4, <2>7, <2>8, <2>9
<1>4. CASE AcknowledgeStableIdle
  <2>1. PICK o \in ClearOutcomes(marker, indeterminate, CompletedMarkerMatches(rt)) :
          /\ marker' = o.marker
          /\ rt' = IF o.ok THEN BecomeReady(ClearAttachedTask(rt))
                   ELSE Attention(rt, "marker_cleanup_failed")
    BY <1>4 DEF AcknowledgeStableIdle, StoreBecomes
  <2>2. o.ok => marker' = NoMarker
    BY <2>1, ClearLeaves
  <2>3. /\ BecomeReady(ClearAttachedTask(rt)).state = "ready"
        /\ BecomeReady(ClearAttachedTask(rt)).preflight = rt.preflight
    BY DEF BecomeReady, ClearAttachedTask, TypeOK, Runtime
  <2> QED BY <1>1, <2>1, <2>2, <2>3, HelpersKeep DEF TypeOK
<1>5. CASE AuditDeadlines
  BY <1>1, <1>5, HelpersKeep DEF AuditDeadlines, TypeOK
<1> QED BY <1>1, <1>2, <1>3, <1>4, <1>5 DEF PumpNext

\* The steps of the host: all but a boot, a death and a dispatch.
LEMMA HostKeeps ==
  ASSUME TypeOK, HostNext
  PROVE  \/ StepKeeps \/ Boot \/ Dies
         \/ \E m \in Messages : Dispatch(m)
<1>1. CASE \/ EnsureReady \/ PreflightPasses \/ StartupTimerFires \/ SpawnRejects
           \/ SpawnResolvesLate \/ SpawnResolves \/ OutputWhileDraining \/ OutputElsewhere
           \/ OutputHandlerFails \/ PtyExits \/ KillFulfilled \/ KillRejected
           \/ RestartTimerFires \/ StabilityTimerFires \/ Cancel \/ BeginShutdown
           \/ PreflightRollback \/ RouterRollback
           \/ \E c \in ShutdownCallers : ShutdownSettles(c)
           \/ \E g \in pty.unwinding : OrphanSettles(g)
  <2>1. Nothing
    BY <1>1, QuietSteps
  <2>2. Keeps(rt, rt')
    BY <1>1, EnsureReadyKeeps, PreflightPassesKeeps, StartupTimerKeeps, SpawnRejectsKeeps,
       SpawnResolvesLateKeeps, SpawnResolvesKeeps, OutputKeeps, RestartTimerKeeps,
       CancelKeeps, KillRejectedKeeps, KillFulfilledKeeps, ShutdownKeeps, Zenon
  <2> QED BY <2>1, <2>2 DEF Nothing
<1>2. CASE OutputWhileStarting
  BY <1>2, OutputWhileStartingKeeps
<1>3. CASE \E m \in Messages : Dispatch(m) \/ Complete(m) \/ CrashDuringDispatch(m)
  BY <1>3 DEF Complete, CrashDuringDispatch
<1>4. CASE Crash \/ Boot
  BY <1>4 DEF Crash
<1> QED BY <1>1, <1>2, <1>3, <1>4, Zenon DEF HostNext

\* A dispatch names its task in memory before the input can reach the PTY.
LEMMA DispatchKeeps ==
  ASSUME TypeOK, NEW m \in Messages, Dispatch(m)
  PROVE  /\ rt'.preflight = rt.preflight
         /\ rt'.state \in AtWork => rt'.attentionReason = "none"
         /\ rt'.messageId = m \/ UNCHANGED writes
<1> DEFINE given == DispatchedRuntime(m)
           sent == [given EXCEPT !.controllerInputPending = FALSE]
<1>1. \/ rt' = Attention(rt, "marker_persist_failed") /\ UNCHANGED writes
      \/ rt' = Attention(given, "input_outcome_unknown")
      \/ rt' = sent \/ rt' = Attention(sent, "marker_persist_failed")
  BY Zenon DEF Dispatch, WriteThrows, WriteSucceeds
<1>2. /\ given.messageId = m /\ given.preflight = rt.preflight
      /\ given.attentionReason = "none"
  BY DEF TypeOK, DispatchedRuntime, Runtime
<1>3. given \in Runtime
  <2>1. rt.generation \in Nat /\ 0 \in Nat /\ m \in MessageId
    BY DEF TypeOK, Runtime, MessageId
  <2> QED BY <2>1, ZenonT(60) DEF TypeOK, DispatchedRuntime, Runtime, States, Reasons
<1> HIDE DEF given
<1>4. /\ sent \in Runtime
      /\ sent.messageId = m /\ sent.preflight = rt.preflight
      /\ sent.attentionReason = "none"
  BY <1>2, <1>3 DEF Runtime
<1> HIDE DEF sent
<1>5. CASE rt' = Attention(rt, "marker_persist_failed") /\ UNCHANGED writes
  BY <1>5 DEF Attention, TypeOK, Runtime
<1>6. CASE rt' = Attention(given, "input_outcome_unknown")
  BY <1>2, <1>3, <1>6 DEF Attention, Runtime
<1>7. CASE rt' = sent
  BY <1>4, <1>7
<1>8. CASE rt' = Attention(sent, "marker_persist_failed")
  BY <1>4, <1>8 DEF Attention, Runtime
<1> QED BY <1>1, <1>5, <1>6, <1>7, <1>8

-----------------------------------------------------------------------------
(* The inductive invariant.                                                 *)

\* A task that the marker names, and that was written or receipted since the
\* marker was taken, is the one in memory.
TaskIsRemembered ==
  Up /\ marker.messageId \in Messages /\ ~redone =>
    \/ rt.messageId = marker.messageId
    \/ writes[marker.messageId] = 0 /\ receipt[marker.messageId] = 0

\* A spoilt file names nobody.
CorruptNamesNobody == marker.phase = "corrupt" => marker.messageId = NoMessage

\* Work goes on only while there is nothing to attend to.
CalmAtWork == rt.state \in AtWork => rt.attentionReason = "none"

\* A round runs in a live process, after its preflight.
RoundIsUp == pump.phase # "idle" => Up /\ rt.preflight = "done"

\* How many completions the server has committed.
Committed == Cardinality({m \in Messages : receipt[m] # 0})

\* The next sequence is beyond every receipt and beyond the cursor.
SequencesAreSpent ==
  /\ \A m \in Messages : receipt[m] <= Committed
  /\ cursor <= Committed

\* While a page is out, the round's copy of the cursor is the cursor.
RoundIsAtCursor == pump.phase \in {"fetching", "arrived"} => pump.after = cursor

\* A page holds receipts after the cursor, and all that come before one of
\* its own.
PageIsGapless ==
  pump.phase = "arrived" =>
    /\ \A m \in pump.page : receipt[m] > cursor
    /\ \A k \in Messages, m \in pump.page :
         cursor < receipt[k] /\ receipt[k] <= receipt[m] => k \in pump.page

TaskInv == CorruptNamesNobody /\ CalmAtWork

RoundInv == RoundIsUp /\ SequencesAreSpent /\ RoundIsAtCursor /\ PageIsGapless

\* What holds of terminal and pump.
RunnerInv == MarkerInv /\ ControlInv /\ RunnerTypeOK /\ TaskInv /\ RoundInv

\* What holds of them with their history.
CursorInv == RunnerInv /\ CursorTypeOK /\ TaskIsRemembered /\ CursorCoversMarker

-----------------------------------------------------------------------------
(* Every step of terminal and pump is a step of the terminal.               *)

\* persistCompletionReceipt after it has just failed: whatever the first call
\* left on disk, the second ends as the first might have.
LEMMA PersistTwice ==
  ASSUME NEW disk, NEW stuck \in BOOLEAN, NEW r, NEW s, NEW n,
         s.messageId = r.messageId, s.markerGeneration = r.markerGeneration,
         NEW o \in PersistOutcomes(disk, stuck, r, n), ~o.ok,
         NEW p \in PersistOutcomes(o.marker, o.stuck, s, n)
  PROVE  p \in PersistOutcomes(disk, stuck, r, n)
<1> DEFINE new == TaskMarker(disk.messageId, disk.generation, "completed", n)
<1>1. /\ new.phase = "completed" /\ new.messageId = disk.messageId
      /\ new.generation = disk.generation /\ new.receiptSequence = n
      /\ CorruptMarker.phase = "corrupt"
  BY DEF TaskMarker, CorruptMarker, NoMarker
<1> HIDE DEF new
<1>2. CASE o.marker = disk /\ o.stuck = stuck
  <2>1. PersistOutcomes(disk, stuck, s, n) = PersistOutcomes(disk, stuck, r, n)
    BY DEF PersistOutcomes
  <2> QED BY <1>2, <2>1
<1>3. CASE /\ Loadable(disk, stuck) /\ disk.phase \notin {"none", "completed"}
           /\ disk.messageId = r.messageId /\ disk.generation = r.markerGeneration
           /\ ~(o.marker = disk /\ o.stuck = stuck)
  <2>1. PersistOutcomes(disk, stuck, r, n) = SaveOutcomes(disk, stuck, new)
    BY <1>3 DEF PersistOutcomes, new
  <2>2. ~stuck
    BY <1>3 DEF Loadable
  <2>3. /\ MaySave(disk, new)
        /\ o = Outcome(FALSE, new, FALSE) \/ o = Outcome(FALSE, CorruptMarker, FALSE)
    <3>1. o \in SaveOutcomes(disk, stuck, new)
      BY <2>1
    <3>2. \/ o = Outcome(FALSE, disk, stuck)
          \/ MaySave(disk, new) /\ o = Outcome(TRUE, new, FALSE)
          \/ MaySave(disk, new) /\ \E d \in {disk, new, CorruptMarker} :
                                    o = Outcome(FALSE, d, FALSE)
      BY <1>3, <3>1 DEF SaveOutcomes
    <3>3. o # Outcome(FALSE, disk, FALSE) /\ o # Outcome(FALSE, disk, stuck)
      <4>1. stuck = FALSE
        BY <2>2
      <4>2. \A b : /\ Outcome(FALSE, disk, b).marker = disk
                    /\ Outcome(FALSE, disk, b).stuck = b
        BY DEF Outcome
      <4> QED BY <1>3, <4>1, <4>2
    <3>4. o # Outcome(TRUE, new, FALSE)
      BY DEF Outcome
    <3> QED BY <3>2, <3>3, <3>4
  <2>4. /\ Outcome(TRUE, new, FALSE) \in SaveOutcomes(disk, stuck, new)
        /\ Outcome(FALSE, CorruptMarker, FALSE) \in SaveOutcomes(disk, stuck, new)
    BY <1>3, <2>3 DEF SaveOutcomes
  <2>5. CASE o = Outcome(FALSE, new, FALSE)
    <3>1. o.marker = new /\ o.stuck = FALSE
      BY <2>5 DEF Outcome
    <3>2. PersistOutcomes(new, FALSE, s, n)
            = {Outcome(new.receiptSequence = n, new, FALSE)}
      BY <1>1, <1>3 DEF PersistOutcomes, Loadable
    <3>3. p = Outcome(TRUE, new, FALSE)
      BY <1>1, <3>1, <3>2
    <3> QED BY <2>1, <2>4, <3>3
  <2>6. CASE o = Outcome(FALSE, CorruptMarker, FALSE)
    <3>1. o.marker = CorruptMarker /\ o.stuck = FALSE
      BY <2>6 DEF Outcome
    <3>2. PersistOutcomes(CorruptMarker, FALSE, s, n)
            = {Outcome(FALSE, CorruptMarker, FALSE)}
      BY <1>1 DEF PersistOutcomes, Loadable
    <3> QED BY <2>1, <2>4, <3>1, <3>2
  <2> QED BY <2>3, <2>5, <2>6
<1>4. \/ o.marker = disk /\ o.stuck = stuck
      \/ /\ Loadable(disk, stuck) /\ disk.phase \notin {"none", "completed"}
         /\ disk.messageId = r.messageId /\ disk.generation = r.markerGeneration
  BY DEF PersistOutcomes, Outcome
<1> QED BY <1>2, <1>3, <1>4

\* Parking a terminal, and applying a receipt to it, in either order.
LEMMA AttentionCommutes ==
  ASSUME NEW r \in Runtime, NEW n \in Nat, NEW reason
  PROVE  /\ ReceiptApplied(Attention(r, reason), n)
              = Attention(ReceiptApplied(r, n), reason)
         /\ ArmCompletionGate(Attention(r, reason), n)
              = Attention(ArmCompletionGate(r, n), reason)
         /\ r.attentionReason = "none" =>
              [Attention(r, reason) EXCEPT !.state = "draining", !.attentionReason = "none"]
                = [r EXCEPT !.state = "draining"]
<1>1. ReceiptApplied(Attention(r, reason), n) = Attention(ReceiptApplied(r, n), reason)
  BY DEF ReceiptApplied, Attention, Runtime
<1>2. ArmCompletionGate(Attention(r, reason), n)
        = Attention(ArmCompletionGate(r, n), reason)
  <2>1. /\ Attention(r, reason).gateSequence = r.gateSequence
        /\ Attention(r, reason).gateGeneration = r.gateGeneration
        /\ Attention(r, reason).generation = r.generation
    BY DEF Attention, Runtime
  <2> DEFINE g(x) == [x EXCEPT !.gateGeneration = r.generation, !.gateSequence = n,
                               !.idleConfirmationCount = 0]
  <2>2. g(Attention(r, reason)) = Attention(g(r), reason)
    BY DEF Attention, Runtime
  <2> QED BY <2>1, <2>2 DEF ArmCompletionGate
<1>3. ASSUME r.attentionReason = "none"
      PROVE  [Attention(r, reason) EXCEPT !.state = "draining", !.attentionReason = "none"]
               = [r EXCEPT !.state = "draining"]
  BY <1>3 DEF Attention, Runtime
<1> QED BY <1>1, <1>2, <1>3

\* A receipt that acknowledgeCompletion could not persist and reconcileMarker
\* then could: the same outcome as when the first attempt had ended that way.
LEMMA AcknowledgeTwice ==
  ASSUME TypeOK, ControlInv, CalmAtWork, NEW m \in Messages, CanAcknowledge(rt, m),
         NEW o \in PersistOutcomes(marker, indeterminate, rt, receipt[m]), ~o.ok,
         NEW r, r = Acknowledged(rt, receipt[m], o), CanReconcile(r, m),
         NEW p \in PersistOutcomes(o.marker, o.stuck, r, receipt[m])
  PROVE  /\ p \in PersistOutcomes(marker, indeterminate, rt, receipt[m])
         /\ Reconciled(r, receipt[m], p) = Acknowledged(rt, receipt[m], p)
         /\ ReconcileAccepts(r, p) = p.ok
<1> DEFINE n == receipt[m]
           applied == ReceiptApplied(rt, n)
           again == ReceiptApplied(r, n)
<1>1. r = Attention(rt, "completion_persist_failed")
  BY DEF Acknowledged
<1>2. /\ r \in Runtime /\ rt \in Runtime
      /\ r.messageId = rt.messageId /\ r.markerGeneration = rt.markerGeneration
      /\ r.session = rt.session /\ r.generation = rt.generation
  <2>1. rt \in Runtime /\ r \in Runtime
    BY <1>1, AttentionType DEF TypeOK, Reasons
  <2> QED BY <1>1, <2>1 DEF Attention, Runtime
<1>3. /\ rt.state \in AtWork /\ rt.attentionReason = "none"
      /\ rt.session # 0 /\ rt.markerGeneration = rt.generation
  BY DEF CanAcknowledge, CalmAtWork, ControlInv, WorkInv, LiveTaskIsDurable
<1>4. p \in PersistOutcomes(marker, indeterminate, rt, n)
  BY <1>2, PersistTwice DEF TypeOK
<1>5. RunsOnMarkersPty(r) /\ r.session # 0
  BY <1>2, <1>3 DEF RunsOnMarkersPty
<1>6. ReconcileAccepts(r, p) = p.ok
  <2>1. p.ok \in BOOLEAN
    BY <1>4, PersistType DEF TypeOK, Outcomes
  <2> QED BY <1>5, <2>1 DEF ReconcileAccepts
<1>7. CASE ~p.ok
  <2>1. Reconciled(r, n, p) = [r EXCEPT !.attentionReason = "completion_persist_failed"]
    BY <1>7 DEF Reconciled
  <2>2. Acknowledged(rt, n, p) = r
    BY <1>1, <1>7 DEF Acknowledged
  <2>3. r.attentionReason = "completion_persist_failed"
    BY <1>1, <1>2 DEF Attention, Runtime
  <2>4. [r EXCEPT !.attentionReason = "completion_persist_failed"] = r
    BY <1>2, <2>3 DEF Runtime
  <2> QED BY <1>4, <1>6, <2>1, <2>2, <2>4
<1>8. CASE p.ok
  <2> DEFINE armed == ArmCompletionGate(applied, n)
             rearmed == ArmCompletionGate(again, n)
  <2>1. Reconciled(r, n, p)
          = [rearmed EXCEPT !.state = "draining", !.attentionReason = "none"]
    BY <1>5, <1>8 DEF Reconciled
  <2>2. Acknowledged(rt, n, p) = [armed EXCEPT !.state = "draining"]
    BY <1>8 DEF Acknowledged
  <2>3. /\ applied \in Runtime /\ n \in Nat
        /\ applied.attentionReason = "none"
        /\ again = Attention(applied, "completion_persist_failed")
    <3>1. n \in Nat
      BY DEF TypeOK
    <3>2. again = Attention(applied, "completion_persist_failed")
      <4>1. ReceiptApplied(Attention(rt, "completion_persist_failed"), n)
              = Attention(ReceiptApplied(rt, n), "completion_persist_failed")
        BY <1>2, <3>1, AttentionCommutes
      <4> QED BY <1>1, <4>1
    <3>3. applied.attentionReason = "none"
      BY <1>2, <1>3 DEF ReceiptApplied, Runtime
    <3> QED BY <1>2, <3>1, <3>2, <3>3, ReceiptAppliedType
  <2> HIDE DEF applied, again
  <2>4. /\ armed \in Runtime /\ armed.attentionReason = "none"
        /\ rearmed = Attention(armed, "completion_persist_failed")
    <3>1. armed.attentionReason = "none"
      BY <2>3 DEF ArmCompletionGate, Runtime
    <3> QED BY <2>3, <3>1, ArmGateType, AttentionCommutes
  <2> HIDE DEF armed, rearmed
  <2>5. [rearmed EXCEPT !.state = "draining", !.attentionReason = "none"]
          = [armed EXCEPT !.state = "draining"]
    BY <2>4, AttentionCommutes
  <2> QED BY <1>4, <1>6, <2>1, <2>2, <2>5
<1> QED BY <1>7, <1>8

\* Every delivery is one call of the manager, or none.
LEMMA DeliverIsStep ==
  ASSUME TypeOK, ControlInv, CalmAtWork, RoundIsUp, NEW m \in Messages, DeliverCurrent(m)
  PROVE  AcknowledgeCompletion(m) \/ ReconcileMarker(m) \/ UNCHANGED vars
<1>1. /\ Up /\ rt.preflight = "done" /\ cancelled \in BOOLEAN
      /\ UNCHANGED <<hostVars, shutdown, process, worldVars>>
  BY DEF DeliverCurrent, PumpRuns, RoundIsUp, TypeOK
<1>2. PICK d \in Deliveries(m) :
        rt' = d.rt /\ StoreBecomes(d.o) /\ cancelled' = (cancelled /\ ~d.ok)
  BY DEF DeliverCurrent
<1>3. CASE ~CanAcknowledge(rt, m) /\ ~CanReconcile(rt, m)
  <2>1. d = Delivery(rt, Outcome(FALSE, marker, indeterminate), FALSE)
    BY <1>2, <1>3 DEF Deliveries, ReconcileDelivery
  <2>2. /\ rt' = rt /\ marker' = marker
        /\ indeterminate' = indeterminate /\ cancelled' = cancelled
    BY <1>1, <1>2, <2>1 DEF Delivery, Outcome, StoreBecomes
  <2> QED BY <1>1, <2>2 DEF vars, hostVars, worldVars
<1>4. CASE ~CanAcknowledge(rt, m) /\ CanReconcile(rt, m)
  <2>1. PICK o \in PersistOutcomes(marker, indeterminate, rt, receipt[m]) :
          d = Delivery(Reconciled(rt, receipt[m], o), o, ReconcileAccepts(rt, o))
    BY <1>2, <1>4 DEF Deliveries, ReconcileDelivery
  <2>2. /\ rt' = Reconciled(rt, receipt[m], o) /\ StoreBecomes(o)
        /\ cancelled' = (cancelled /\ ~ReconcileAccepts(rt, o))
    BY <1>2, <2>1 DEF Delivery
  <2> QED BY <1>1, <1>4, <2>2, Zenon DEF ReconcileMarker
<1>5. CASE CanAcknowledge(rt, m)
  <2>1. PICK o \in PersistOutcomes(marker, indeterminate, rt, receipt[m]) :
          d \in IF o.ok THEN {Delivery(Acknowledged(rt, receipt[m], o), o, TRUE)}
                ELSE ReconcileDelivery(Acknowledged(rt, receipt[m], o),
                                       o.marker, o.stuck, m)
    BY <1>2, <1>5 DEF Deliveries
  <2>2. ~cancelled
    BY <1>5 DEF CanAcknowledge, ControlInv, EndingInv, CancelIsKept
  <2>3. ASSUME NEW p \in PersistOutcomes(marker, indeterminate, rt, receipt[m]),
               rt' = Acknowledged(rt, receipt[m], p), StoreBecomes(p)
        PROVE  AcknowledgeCompletion(m)
    <3>1. UNCHANGED cancelled
      BY <1>1, <1>2, <2>2
    <3> QED BY <1>1, <1>5, <2>3, <3>1, Zenon DEF AcknowledgeCompletion
  <2> DEFINE r == Acknowledged(rt, receipt[m], o)
  <2>4. CASE o.ok
    <3>1. rt' = r /\ StoreBecomes(o)
      BY <1>2, <2>1, <2>4 DEF Delivery
    <3> QED BY <2>3, <3>1
  <2>5. CASE ~o.ok /\ ~CanReconcile(r, m)
    <3>1. d = Delivery(r, Outcome(FALSE, o.marker, o.stuck), FALSE)
      BY <2>1, <2>5 DEF ReconcileDelivery
    <3>2. rt' = r /\ StoreBecomes(o)
      BY <1>2, <3>1 DEF Delivery, Outcome, StoreBecomes
    <3> QED BY <2>3, <3>2
  <2>6. CASE ~o.ok /\ CanReconcile(r, m)
    <3>1. PICK p \in PersistOutcomes(o.marker, o.stuck, r, receipt[m]) :
            d = Delivery(Reconciled(r, receipt[m], p), p, ReconcileAccepts(r, p))
      BY <2>1, <2>6 DEF ReconcileDelivery
    <3>2. /\ p \in PersistOutcomes(marker, indeterminate, rt, receipt[m])
          /\ Reconciled(r, receipt[m], p) = Acknowledged(rt, receipt[m], p)
      BY <1>5, <2>6, AcknowledgeTwice
    <3>3. rt' = Acknowledged(rt, receipt[m], p) /\ StoreBecomes(p)
      BY <1>2, <3>1, <3>2 DEF Delivery
    <3> QED BY <2>3, <3>2, <3>3
  <2> QED BY <2>4, <2>5, <2>6
<1> QED BY <1>3, <1>4, <1>5

\* Every step of the pump is one call of the manager, or none.
LEMMA PumpStepIsCall ==
  ASSUME TypeOK, ControlInv, CalmAtWork, RoundIsUp, PumpStep \/ StopPump
  PROVE  [PumpNext]_vars
<1>1. CASE \E m \in Messages : DeliverCurrent(m)
  BY <1>1, DeliverIsStep DEF PumpNext
<1>2. CASE StartRound \/ ServerAnswers \/ FetchFails \/ DeliverHistory \/ StopPump
  BY <1>2 DEF StartRound, ServerAnswers, FetchFails, DeliverHistory, StopPump, sessionVars
<1>3. CASE OfferIdleProof \/ EndRound
  BY <1>3 DEF OfferIdleProof, EndRound, PumpNext, sessionVars
<1> QED BY <1>1, <1>2, <1>3, Zenon DEF PumpStep

\* Every step of terminal and pump is a step of the terminal, or none of it.
LEMMA RunnerStepIsStep ==
  ASSUME TypeOK, ControlInv, CalmAtWork, RoundIsUp, [RunnerNext]_runnerVars
  PROVE  [Next]_sessionVars
<1>1. CASE SessionStep
  BY <1>1 DEF SessionStep, Next
<1>2. CASE PumpStep \/ StopPump
  BY <1>2, PumpStepIsCall DEF Next, sessionVars
<1>3. CASE UNCHANGED runnerVars
  BY <1>3 DEF runnerVars, sessionVars
<1> QED BY <1>1, <1>2, <1>3 DEF RunnerNext

-----------------------------------------------------------------------------
(* The numbers of the receipts.                                            *)

\* A non-empty set of naturals has a least member.
LEMMA LeastBound ==
  ASSUME NEW T \in SUBSET Nat, T # {}
  PROVE  \E x \in T : \A y \in T : x <= y
<1> DEFINE R == OpToRel(<, Nat)
<1>1. IsWellFoundedOn(R, Nat)
  BY NatLessThanWellFounded
<1>2. \A y, x \in Nat : y < x => <<y, x>> \in R
  BY DEF OpToRel
<1> HIDE DEF R
<1>3. PICK x \in T : \A y \in T : ~(<<y, x>> \in R)
  BY <1>1, WFMin
<1>4. \A y \in T : ~(y < x)
  BY <1>2, <1>3
<1> QED BY <1>4

\* UpTo, the cursor after a page of which the receipts of S were applied: the
\* largest of these sequences, or the cursor before the page.  (b is any bound
\* on them: without one there might be no largest.)
LEMMA UpToDoes ==
  ASSUME receipt \in [Messages -> Nat], pump.after \in Nat, NEW b \in Nat,
         NEW S \in SUBSET Messages, pump.after <= b,
         \A m \in S : pump.after < receipt[m] /\ receipt[m] <= b
  PROVE  /\ UpTo(S) \in Nat /\ pump.after <= UpTo(S) /\ UpTo(S) <= b
         /\ \A m \in S : receipt[m] <= UpTo(S)
         /\ UpTo(S) = pump.after \/ \E m \in S : UpTo(S) = receipt[m]
<1> DEFINE C == {pump.after} \cup {receipt[m] : m \in S}
           T == {n \in Nat : \A c \in C : c <= n}
<1>1. C \subseteq Nat /\ b \in T
  OBVIOUS
<1>2. PICK n \in T : \A k \in T : n <= k
  BY <1>1, LeastBound
<1>3. n \in C
  <2> SUFFICES ASSUME n \notin C PROVE FALSE
    OBVIOUS
  <2>1. ASSUME NEW c \in C PROVE c <= n - 1
    <3>1. c \in Nat /\ c <= n /\ c # n
      BY <1>1, <1>2
    <3> QED BY <3>1, <1>2
  <2>2. pump.after \in C
    OBVIOUS
  <2>3. n - 1 \in Nat
    BY <1>1, <2>1, <2>2
  <2>4. n - 1 \in T
    BY <2>1, <2>3
  <2> QED BY <1>2, <2>3, <2>4
<1>4. \A m \in S : receipt[m] <= n
  OBVIOUS
<1>5. /\ UpTo(S) \in C /\ \A m \in S : receipt[m] <= UpTo(S)
  BY <1>3, <1>4 DEF UpTo
<1>6. CASE UpTo(S) = pump.after
  BY <1>5, <1>6
<1>7. CASE \E m \in S : UpTo(S) = receipt[m]
  BY <1>5, <1>7
<1> QED BY <1>5, <1>6, <1>7

\* The server numbers the completions it commits one after the other.
LEMMA CommittedIsFinite == Committed \in Nat /\ NextSequence = Committed + 1
<1>1. Committed \in Nat
  <2>1. IsFiniteSet({m \in Messages : receipt[m] # 0})
    BY ConstantsAssumption, FS_Subset
  <2> QED BY <2>1, FS_CardinalityType DEF Committed
<1> QED BY <1>1 DEF NextSequence, Committed

\* A completion takes the next sequence.
LEMMA CompleteCommits ==
  ASSUME TypeOK, NEW m \in Messages, Complete(m)
  PROVE  /\ Committed' = Committed + 1
         /\ receipt' = [receipt EXCEPT ![m] = Committed + 1]
<1> DEFINE committed == {k \in Messages : receipt[k] # 0}
<1>1. receipt[m] = 0 /\ receipt' = [receipt EXCEPT ![m] = Committed + 1]
  BY CommittedIsFinite DEF Complete
<1>2. committed' = committed \cup {m} /\ m \notin committed
  BY <1>1, CommittedIsFinite DEF TypeOK
<1>3. IsFiniteSet(committed)
  BY ConstantsAssumption, FS_Subset
<1>4. Cardinality(committed \cup {m}) = Cardinality(committed) + 1
  BY <1>2, <1>3, FS_AddElement
<1> QED BY <1>1, <1>2, <1>4 DEF Committed

\* Nothing else commits a completion.
LEMMA OnlyCompleteCommits ==
  ASSUME TypeOK, [Next]_vars
  PROVE  UNCHANGED receipt \/ \E m \in Messages : Complete(m)
<1>1. CASE OutputWhileStarting \/ AcknowledgeStableIdle
  BY <1>1 DEF OutputWhileStarting, AcknowledgeStableIdle, worldVars
<1>2. CASE \E m \in Messages : Dispatch(m) \/ CrashDuringDispatch(m)
  BY <1>2 DEF Dispatch, CrashDuringDispatch
<1>3. CASE \E m \in Messages : AcknowledgeCompletion(m) \/ ReconcileMarker(m)
  BY <1>3 DEF AcknowledgeCompletion, ReconcileMarker, worldVars
<1>4. CASE UNCHANGED vars
  BY <1>4 DEF vars
<1>5. Nothing => UNCHANGED receipt
  BY DEF Nothing
<1> QED BY <1>1, <1>2, <1>3, <1>4, <1>5, QuietSteps, Zenon DEF Next, HostNext, PumpNext

-----------------------------------------------------------------------------
(* The task in memory and the task on disk.                                 *)

\* A file that was spoilt names no task.
LEMMA CorruptIsBlank ==
  ASSUME TypeOK, [Next]_vars
  PROVE  marker' \in {marker, CorruptMarker} \/ marker'.phase # "corrupt"
<1>1. CASE OutputWhileStarting \/ AcknowledgeStableIdle
  BY <1>1, OutputWhileStartingKind, AcknowledgeStableIdleKind
     DEF Nothing, Releases, NoMarker
<1>2. CASE \E m \in Messages : Dispatch(m)
  <2>0. PICK m \in Messages : Dispatch(m)
    BY <1>2
  <2>1. PICK accepted \in AcceptOutcomes(m) :
          \/ marker' = accepted.marker
          \/ \E o \in SaveOutcomes(accepted.marker, accepted.stuck,
                                   TaskMarker(m, rt.generation, "written", 0)) :
               marker' = o.marker
    BY <2>0, Zenon DEF Dispatch, StoreBecomes, WriteSucceeds
  <2>2. /\ TaskMarker(m, rt.generation, "written", 0).phase = "written"
        /\ TaskMarker(m, rt.generation, "accepted", 0).phase = "accepted"
    BY DEF TaskMarker
  <2>3. accepted.marker \in
          {marker, TaskMarker(m, rt.generation, "accepted", 0), CorruptMarker}
    BY SaveLeaves DEF AcceptOutcomes
  <2> QED BY <2>1, <2>2, <2>3, SaveLeaves
<1>3. CASE \E m \in Messages : CrashDuringDispatch(m)
  <2>0. PICK m \in Messages : CrashDuringDispatch(m)
    BY <1>3
  <2>1. PICK moment \in DispatchMoments(m) : marker' = moment.marker
    BY <2>0 DEF CrashDuringDispatch
  <2> QED BY <2>1 DEF DispatchMoments, Moment, TaskMarker
<1>4. CASE \E m \in Messages : AcknowledgeCompletion(m) \/ ReconcileMarker(m)
  <2>0. PICK m \in Messages : AcknowledgeCompletion(m) \/ ReconcileMarker(m)
    BY <1>4
  <2>1. PICK o \in PersistOutcomes(marker, indeterminate, rt, receipt[m]) :
          marker' = o.marker
    BY <2>0 DEF AcknowledgeCompletion, ReconcileMarker, StoreBecomes
  <2>2. o.marker \in {marker, CorruptMarker,
                      TaskMarker(marker.messageId, marker.generation, "completed",
                                 receipt[m])}
    BY SaveLeaves DEF PersistOutcomes, Outcome
  <2> QED BY <2>1, <2>2 DEF TaskMarker
<1>5. CASE \E m \in Messages : Complete(m)
  BY <1>5 DEF Complete, storeVars
<1>6. CASE UNCHANGED vars
  BY <1>6 DEF vars
<1>7. Nothing => marker' = marker
  BY DEF Nothing
<1> QED BY <1>1, <1>2, <1>3, <1>4, <1>5, <1>6, <1>7, QuietSteps, Zenon
        DEF Next, HostNext, PumpNext

\* Every step of the terminal, sorted by what it may do to the task in memory.
LEMMA NextKeeps ==
  ASSUME TypeOK, [Next]_vars
  PROVE  \/ StepKeeps \/ Boot \/ Dies
         \/ \E m \in Messages : Dispatch(m)
<1>1. UNCHANGED vars => StepKeeps
  BY DEF vars
<1> QED BY <1>1, HostKeeps, PumpKeeps, Zenon DEF Next

\* A process that is down does nothing but boot.
LEMMA OnlyBootStarts ==
  ASSUME [Next]_vars, ~Up, Up'
  PROVE  Boot
<1>1. CASE \/ EnsureReady \/ PreflightPasses \/ StartupTimerFires \/ SpawnRejects
           \/ SpawnResolvesLate \/ SpawnResolves \/ OutputWhileStarting
           \/ OutputWhileDraining \/ OutputElsewhere \/ OutputHandlerFails \/ PtyExits
  BY <1>1 DEF EnsureReady, PreflightPasses, StartupTimerFires, SpawnRejects,
              SpawnResolvesLate, SpawnResolves, OutputWhileStarting, OutputWhileDraining,
              OutputElsewhere, OutputHandlerFails, PtyExits, Up
<1>2. CASE \/ KillFulfilled \/ KillRejected \/ RestartTimerFires \/ StabilityTimerFires
           \/ Cancel \/ BeginShutdown \/ PreflightRollback \/ RouterRollback
           \/ \E c \in ShutdownCallers : ShutdownSettles(c)
           \/ \E g \in pty.unwinding : OrphanSettles(g)
  BY <1>2 DEF KillFulfilled, KillRejected, RestartTimerFires, StabilityTimerFires,
              Cancel, BeginShutdown, PreflightRollback, RouterRollback,
              ShutdownSettles, OrphanSettles
<1>3. CASE \E m \in Messages : Dispatch(m) \/ Complete(m) \/ CrashDuringDispatch(m)
  <2>1. Up \/ UNCHANGED process
    BY <1>3 DEF Dispatch, Dispatchable, Complete, CrashDuringDispatch
  <2> QED BY <2>1 DEF Up
<1>4. CASE Crash \/ Boot
  BY <1>4 DEF Crash
<1>5. CASE PumpNext
  BY <1>5 DEF PumpNext, AcknowledgeCompletion, ReconcileMarker, AcknowledgeStableIdle,
              AuditDeadlines
<1>6. CASE UNCHANGED vars
  BY <1>6 DEF vars, Up
<1> QED BY <1>1, <1>2, <1>3, <1>4, <1>5, <1>6, Zenon DEF Next, HostNext

\* What a spoilt file names, and the calm of a terminal at work, are inductive.
LEMMA TaskInvNext ==
  ASSUME TypeOK, TaskInv, [Next]_vars
  PROVE  TaskInv'
<1>1. CorruptNamesNobody'
  <2>1. CorruptMarker.messageId = NoMessage
    BY DEF CorruptMarker, NoMarker
  <2> QED BY <2>1, CorruptIsBlank DEF TaskInv, CorruptNamesNobody
<1>2. CalmAtWork'
  <2>1. CASE StepKeeps
    BY <2>1 DEF TaskInv, CalmAtWork
  <2>2. CASE \E m \in Messages : Dispatch(m)
    BY <2>2, DispatchKeeps DEF CalmAtWork
  <2>3. CASE Boot \/ Dies
    BY <2>3 DEF Boot, Dies, CreateRuntime, NoMarker, CalmAtWork
  <2> QED BY <2>1, <2>2, <2>3, NextKeeps
<1> QED BY <1>1, <1>2 DEF TaskInv

\* What the history says of a step after which the marker's task is not one
\* that was taken again: it had no receipt when it was taken.
TakenFresh ==
  marker'.messageId \in Messages /\ ~redone' =>
    IF marker.phase = "none" THEN receipt[marker'.messageId] = 0 ELSE ~redone

LEMMA CursorStepTakesFresh ==
  ASSUME RunnerInv, [CursorNext]_cursorVars
  PROVE  TakenFresh
<1>1. TypeOK /\ (marker.phase = "none" => marker.messageId = NoMessage)
  BY DEF RunnerInv, MarkerInv, MarkerHasOwner
<1>2. CASE SessionStep /\ RecordTaking
  BY <1>2 DEF RecordTaking, TakenFresh
<1>3. ASSUME UNCHANGED redone, marker.phase = "none" => UNCHANGED marker
      PROVE  TakenFresh
  BY <1>1, <1>3, ConstantsAssumption DEF TakenFresh
<1>4. ASSUME [PumpNext]_vars
      PROVE  marker.phase = "none" => UNCHANGED marker
  <2>1. CASE \E m \in Messages : AcknowledgeCompletion(m) \/ ReconcileMarker(m)
    BY <1>1, <2>1, AcknowledgeCompletionKind, ReconcileMarkerKind DEF Nothing, Persists
  <2>2. CASE AcknowledgeStableIdle
    BY <1>1, <2>2, AcknowledgeStableIdleKind DEF Nothing, Releases
  <2>3. CASE AuditDeadlines \/ UNCHANGED vars
    BY <2>3 DEF AuditDeadlines, storeVars, vars
  <2> QED BY <1>4, <2>1, <2>2, <2>3 DEF PumpNext
<1>5. CASE (PumpStep \/ StopPump) /\ UNCHANGED redone
  <2>1. [PumpNext]_vars
    BY <1>5, PumpStepIsCall DEF RunnerInv, MarkerInv, TaskInv, RoundInv
  <2> QED BY <1>3, <1>4, <1>5, <2>1
<1>6. CASE UNCHANGED cursorVars
  BY <1>3, <1>6 DEF cursorVars, runnerVars, vars
<1> QED BY <1>2, <1>5, <1>6 DEF CursorNext

\* The task in memory is inductive: the kinds of step that touch the marker
\* (MarkerStep) against the kinds that touch the runtime (StepKeeps).
LEMMA TaskIsRememberedNext ==
  ASSUME MarkerInv, ControlInv, TaskInv', TaskIsRemembered, TakenFresh, [Next]_vars
  PROVE  TaskIsRemembered'
<1>1. TypeOK /\ MarkerHasOwner /\ MarkerStep
  BY NextIsMarkerStep DEF MarkerInv
<1>2. CorruptNamesNobody'
  BY DEF TaskInv
<1> DEFINE Remembers(r, m) == r.messageId = m \/ (writes'[m] = 0 /\ receipt'[m] = 0)
<1> SUFFICES ASSUME Up', marker'.messageId \in Messages, ~redone'
             PROVE  Remembers(rt', marker'.messageId)
  BY DEF TaskIsRemembered
<1>3. /\ marker.phase = "none" => receipt[marker'.messageId] = 0
      /\ marker.phase # "none" => ~redone
  BY DEF TakenFresh
<1>4. marker.messageId \in Messages => marker.phase # "none"
  BY <1>1, ConstantsAssumption DEF MarkerHasOwner
<1>5. CASE StepKeeps /\ ~Boot
  <2>1. rt'.messageId = rt.messageId /\ UNCHANGED writes /\ Up
    BY <1>5, OnlyBootStarts, ConstantsAssumption DEF NoMarker
  <2>2. ASSUME UNCHANGED receipt, marker'.messageId = marker.messageId
        PROVE  Remembers(rt', marker'.messageId)
    BY <1>3, <1>4, <2>1, <2>2 DEF TaskIsRemembered
  <2>3. CASE Nothing
    BY <2>2, <2>3 DEF Nothing
  <2>4. ASSUME NEW m \in Messages, TakesFor(m)
        PROVE  Remembers(rt', marker'.messageId)
    <3>1. marker'.messageId = m
      BY <1>2, <2>4, ConstantsAssumption DEF TakesFor, CorruptNamesNobody
    <3>2. writes[m] = 0 /\ receipt'[m] = 0
      BY <1>3, <2>4, <3>1, TakenIsUnwritten DEF TakesFor
    <3> QED BY <2>1, <3>1, <3>2
  <2>5. ASSUME NEW m \in Messages, Persists(m)
        PROVE  Remembers(rt', marker'.messageId)
    <3>1. marker'.messageId = m
      BY <1>2, <2>5, ConstantsAssumption DEF Persists, CorruptNamesNobody
    <3> QED BY <2>2, <2>5, <3>1 DEF Persists
  <2>6. ASSUME NEW m \in Messages, Commits(m)
        PROVE  Remembers(rt', marker'.messageId)
    <3>1. /\ marker' = marker /\ writes[m] > 0
          /\ \A k \in Messages : k # m => receipt'[k] = receipt[k]
      BY <1>1, <2>6 DEF Commits, TypeOK
    <3>2. CASE marker.messageId = m
      <4>1. writes[m] # 0
        BY <1>1, <3>1 DEF TypeOK
      <4> QED BY <1>3, <1>4, <2>1, <3>1, <3>2, <4>1 DEF TaskIsRemembered
    <3>3. CASE marker.messageId # m
      BY <1>3, <1>4, <2>1, <3>1, <3>3 DEF TaskIsRemembered
    <3> QED BY <3>2, <3>3
  <2>7. CASE Releases
    BY <2>7, ConstantsAssumption DEF Releases, NoMarker
  <2> QED BY <1>1, <2>3, <2>4, <2>5, <2>6, <2>7, Zenon DEF MarkerStep
<1>6. ASSUME NEW m \in Messages, Dispatch(m)
      PROVE  Remembers(rt', marker'.messageId)
  <2>1. rt'.messageId = m \/ UNCHANGED writes
    BY <1>1, <1>6, DispatchKeeps
  <2>2. marker = NoMarker
    BY <1>6 DEF Dispatch, Dispatchable, ControlInv, WorkInv, ReadyIsFree
  <2>3. ~Nothing
    BY <2>2, ConstantsAssumption DEF Nothing, NoMarker
  <2>4. TakesFor(m)
    BY <1>1, <1>6, <2>3, DispatchKind
  <2>5. marker'.messageId = m
    BY <1>2, <2>4, ConstantsAssumption DEF TakesFor, CorruptNamesNobody
  <2>6. writes[m] = 0 /\ receipt'[m] = 0
    BY <1>3, <2>4, <2>5, TakenIsUnwritten DEF TakesFor
  <2> QED BY <2>1, <2>5, <2>6
<1>7. CASE Dies
  <2>1. ~Up'
    BY <1>1, <1>7 DEF Dies, Up, TypeOK
  <2> QED BY <2>1
<1>8. CASE Boot
  BY <1>8 DEF Boot, CreateRuntime, storeVars
<1> QED BY <1>1, <1>5, <1>6, <1>7, <1>8, NextKeeps

-----------------------------------------------------------------------------
(* The cursor and the round.                                                *)

\* As long as the cursor does not move ahead, no step of the terminal uncovers
\* a receipt: a marker is written before its task can be receipted, and the
\* sequence of a new receipt is beyond the cursor.
LEMMA CoveredStays ==
  ASSUME MarkerInv, SequencesAreSpent, CursorCoversMarker, CorruptNamesNobody',
         TakenFresh, [Next]_vars, cursor \in Nat,
         marker'.messageId \in Messages, ~redone',
         receipt'[marker'.messageId] \in 1 .. cursor
  PROVE  marker'.phase = "completed"
<1>1. TypeOK /\ MarkerHasOwner /\ MarkerStep
  BY NextIsMarkerStep DEF MarkerInv
<1> DEFINE fresh == /\ marker.phase = "none" => receipt[marker'.messageId] = 0
                    /\ marker.messageId \in Messages => ~redone
<1>0. fresh
  <2>1. marker.messageId \in Messages => marker.phase # "none"
    BY <1>1, ConstantsAssumption DEF MarkerHasOwner
  <2> QED BY <2>1 DEF TakenFresh
<1>2. ASSUME UNCHANGED <<marker, receipt>>
      PROVE  marker'.phase = "completed"
  BY <1>0, <1>2 DEF CursorCoversMarker
<1>3. CASE Nothing
  BY <1>2, <1>3 DEF Nothing
<1>4. ASSUME NEW m \in Messages, TakesFor(m)
      PROVE  marker'.phase = "completed"
  <2>1. receipt'[marker'.messageId] = 0
    BY <1>0, <1>4 DEF TakesFor
  <2> QED BY <2>1
<1>5. ASSUME NEW m \in Messages, Persists(m)
      PROVE  marker'.phase = "completed"
  BY <1>5, ConstantsAssumption DEF Persists, CorruptNamesNobody
<1>6. ASSUME NEW m \in Messages, Commits(m)
      PROVE  marker'.phase = "completed"
  <2>1. marker' = marker
    BY <1>6 DEF Commits
  <2>2. UNCHANGED receipt \/ \E k \in Messages : Complete(k)
    BY <1>1, OnlyCompleteCommits
  <2>3. CASE UNCHANGED receipt
    BY <1>2, <2>1, <2>3
  <2>4. ASSUME NEW k \in Messages, Complete(k)
        PROVE  marker'.phase = "completed"
    <3>1. receipt' = [receipt EXCEPT ![k] = Committed + 1]
      BY <1>1, <2>4, CompleteCommits
    <3>2. /\ receipt'[k] = Committed + 1
          /\ \A j \in Messages : j # k => receipt'[j] = receipt[j]
      BY <1>1, <3>1 DEF TypeOK
    <3>3. marker.messageId # k
      BY <2>1, <3>2, CommittedIsFinite DEF SequencesAreSpent
    <3> QED BY <1>0, <2>1, <3>2, <3>3 DEF CursorCoversMarker
  <2> QED BY <2>2, <2>3, <2>4
<1>7. CASE Releases
  BY <1>7, ConstantsAssumption DEF Releases, NoMarker
<1> QED BY <1>1, <1>3, <1>4, <1>5, <1>6, <1>7, Zenon DEF MarkerStep

\* The sequences given out stay the largest there are.
LEMMA SpentStays ==
  ASSUME TypeOK, SequencesAreSpent, [Next]_vars, cursor \in Nat,
         cursor' \in Nat, cursor' <= Committed
  PROVE  SequencesAreSpent'
<1>1. CASE UNCHANGED receipt
  <2>1. Committed' = Committed
    BY <1>1 DEF Committed
  <2> QED BY <1>1, <2>1 DEF SequencesAreSpent
<1>2. ASSUME NEW m \in Messages, Complete(m)
      PROVE  SequencesAreSpent'
  <2>1. /\ Committed' = Committed + 1 /\ Committed \in Nat
        /\ receipt' = [receipt EXCEPT ![m] = Committed + 1]
    BY <1>2, CompleteCommits, CommittedIsFinite
  <2>2. \A k \in Messages : receipt'[k] = IF k = m THEN Committed + 1 ELSE receipt[k]
    BY <2>1 DEF TypeOK
  <2>3. \A k \in Messages : receipt[k] \in Nat /\ receipt[k] <= Committed
    BY DEF TypeOK, SequencesAreSpent
  <2> QED BY <2>1, <2>2, <2>3 DEF SequencesAreSpent
<1> QED BY <1>1, <1>2, OnlyCompleteCommits

\* A receipt committed while a page is on its way comes after all of the page.
LEMMA GaplessStays ==
  ASSUME TypeOK, SequencesAreSpent, PageIsGapless, [Next]_vars, cursor \in Nat,
         pump \in Pumps, UNCHANGED cursor,
         pump'.phase = pump.phase, pump'.page = pump.page
  PROVE  PageIsGapless'
<1>1. CASE UNCHANGED receipt
  BY <1>1 DEF PageIsGapless
<1>2. ASSUME NEW m \in Messages, Complete(m)
      PROVE  PageIsGapless'
  <2>1. Committed \in Nat /\ receipt' = [receipt EXCEPT ![m] = Committed + 1]
    BY <1>2, CompleteCommits, CommittedIsFinite
  <2>2. \A k \in Messages : receipt'[k] = IF k = m THEN Committed + 1 ELSE receipt[k]
    BY <2>1 DEF TypeOK
  <2>3. \A k \in Messages : receipt[k] \in Nat /\ receipt[k] <= Committed
    BY DEF TypeOK, SequencesAreSpent
  <2>4. receipt[m] = 0 /\ pump.page \subseteq Messages
    BY <1>2 DEF Complete, Pumps
  <2>5. ASSUME pump.phase = "arrived", NEW j \in pump.page
        PROVE  /\ receipt'[j] = receipt[j] /\ receipt'[j] > cursor
               /\ \A k \in Messages :
                    cursor < receipt'[k] /\ receipt'[k] <= receipt'[j] => k \in pump.page
    <3>1. receipt[j] > cursor /\ j \in Messages
      BY <2>4, <2>5 DEF PageIsGapless
    <3>2. receipt'[j] = receipt[j]
      BY <2>2, <2>4, <3>1
    <3>3. ASSUME NEW k \in Messages, cursor < receipt'[k], receipt'[k] <= receipt'[j]
          PROVE  k \in pump.page
      <4>1. receipt'[k] = receipt[k]
        BY <2>1, <2>2, <2>3, <3>1, <3>2, <3>3
      <4> QED BY <2>5, <3>2, <3>3, <4>1 DEF PageIsGapless
    <3> QED BY <3>1, <3>2, <3>3
  <2> QED BY <2>5 DEF PageIsGapless
<1> QED BY <1>1, <1>2, OnlyCompleteCommits

\* The page the server answers with has no gaps.
LEMMA ServerAnswersGapless ==
  ASSUME TypeOK, cursor \in Nat, pump \in Pumps, RoundIsAtCursor, ServerAnswers
  PROVE  PageIsGapless' /\ pump' \in Pumps
<1>1. /\ pump.after = cursor /\ UNCHANGED <<cursor, receipt>>
      /\ pump'.page = OldestReceipts(cursor)
      /\ pump' \in Pumps
  <2>1. pump.after = cursor /\ UNCHANGED <<cursor, receipt>>
    BY DEF ServerAnswers, PumpRuns, RoundIsAtCursor, sessionVars, vars
  <2> DEFINE page == OldestReceipts(pump.after)
             more == OldestReceipts(pump.after) # ReceiptsAfter(pump.after)
  <2>2. page \subseteq Messages /\ more \in BOOLEAN
    BY DEF OldestReceipts, ReceiptsAfter
  <2>3. pump' = [pump EXCEPT !.phase = "arrived", !.page = page, !.more = more]
    BY DEF ServerAnswers
  <2> HIDE DEF page, more
  <2>4. pump' \in Pumps /\ pump'.page = page
    BY <2>2, <2>3 DEF Pumps
  <2> QED BY <2>1, <2>4 DEF page
<1>2. \A m \in OldestReceipts(cursor) : m \in Messages /\ receipt[m] > cursor
  BY DEF OldestReceipts, ReceiptsAfter
<1>3. ASSUME NEW k \in Messages, NEW m \in OldestReceipts(cursor),
             cursor < receipt[k], receipt[k] <= receipt[m]
      PROVE  k \in OldestReceipts(cursor)
  <2> DEFINE before(j) == {i \in ReceiptsAfter(cursor) : receipt[i] < receipt[j]}
  <2>1. receipt \in [Messages -> Nat] /\ m \in Messages
    BY <1>2 DEF TypeOK
  <2>2. before(k) \subseteq before(m)
    BY <1>3, <2>1 DEF ReceiptsAfter
  <2>3. IsFiniteSet(before(m))
    <3>1. before(m) \subseteq Messages
      BY DEF ReceiptsAfter
    <3> QED BY <3>1, ConstantsAssumption, FS_Subset
  <2>4. IsFiniteSet(before(k)) /\ Cardinality(before(k)) <= Cardinality(before(m))
    BY <2>2, <2>3, FS_Subset
  <2>5. Cardinality(before(m)) < PageLimit /\ PageLimit \in Nat
    BY PumpAssumption DEF OldestReceipts
  <2>6. Cardinality(before(m)) \in Nat /\ Cardinality(before(k)) \in Nat
    BY <2>3, <2>4, FS_CardinalityType
  <2>7. Cardinality(before(k)) < PageLimit /\ k \in ReceiptsAfter(cursor)
    BY <1>3, <2>1, <2>4, <2>5, <2>6 DEF ReceiptsAfter
  <2> HIDE DEF before
  <2> QED BY <2>7 DEF OldestReceipts, before
<1> HIDE DEF OldestReceipts
<1> QED BY <1>1, <1>2, <1>3 DEF PageIsGapless

\* persistCompletionReceipt returns only over a completed marker.
LEMMA PersistCompletes ==
  ASSUME NEW disk, NEW stuck, NEW r, NEW n,
         NEW o \in PersistOutcomes(disk, stuck, r, n), o.ok
  PROVE  o.marker.phase = "completed"
<1> DEFINE new == TaskMarker(disk.messageId, disk.generation, "completed", n)
<1>1. new.phase = "completed"
  BY DEF TaskMarker
<1> HIDE DEF new
<1>2. \/ o = Outcome(FALSE, disk, stuck)
      \/ disk.phase = "completed" /\ o = Outcome(disk.receiptSequence = n, disk, stuck)
      \/ o \in SaveOutcomes(disk, stuck, new)
  BY DEF PersistOutcomes, new
<1>3. o.ok # FALSE
  OBVIOUS
<1> QED BY <1>1, <1>2, <1>3, SaveLeaves DEF Outcome

\* A receipt that counts as delivered is in the marker.
LEMMA DeliveredCompletes ==
  ASSUME NEW m \in Messages, NEW d \in Deliveries(m), d.ok
  PROVE  d.o.marker.phase = "completed"
<1>1. ASSUME NEW r, NEW disk, NEW stuck, d \in ReconcileDelivery(r, disk, stuck, m)
      PROVE  d.o.marker.phase = "completed"
  <2>1. PICK o \in PersistOutcomes(disk, stuck, r, receipt[m]) :
          d = Delivery(Reconciled(r, receipt[m], o), o, ReconcileAccepts(r, o))
    <3>1. CASE ~CanReconcile(r, m)
      <4>1. d = Delivery(r, Outcome(FALSE, disk, stuck), FALSE)
        BY <1>1, <3>1 DEF ReconcileDelivery
      <4>2. d.ok = FALSE
        BY <4>1 DEF Delivery
      <4> QED BY <4>2
    <3>2. CASE CanReconcile(r, m)
      BY <1>1, <3>2 DEF ReconcileDelivery
    <3> QED BY <3>1, <3>2
  <2>2. o.ok /\ d.o = o
    BY <2>1 DEF Delivery, ReconcileAccepts
  <2> QED BY <2>2, PersistCompletes
<1>2. CASE ~CanAcknowledge(rt, m)
  BY <1>1, <1>2 DEF Deliveries
<1>3. CASE CanAcknowledge(rt, m)
  <2>1. PICK o \in PersistOutcomes(marker, indeterminate, rt, receipt[m]) :
          d \in IF o.ok THEN {Delivery(Acknowledged(rt, receipt[m], o), o, TRUE)}
                ELSE ReconcileDelivery(Acknowledged(rt, receipt[m], o),
                                       o.marker, o.stuck, m)
    BY <1>3 DEF Deliveries
  <2>2. CASE o.ok
    <3>1. d.o = o
      BY <2>1, <2>2 DEF Delivery
    <3> QED BY <2>2, <3>1, PersistCompletes
  <2>3. CASE ~o.ok
    BY <1>1, <2>1, <2>3
  <2> QED BY <2>2, <2>3
<1> QED BY <1>2, <1>3

\* The end of a page: what becomes of cursor and round.
LEMMA ClosePageDoes ==
  ASSUME RunnerTypeOK, NEW n \in Nat, NEW blocked, ClosePage(n, blocked)
  PROVE  /\ cursor' \in {n, cursor} /\ pump' \in Pumps
         /\ pump'.phase \in {"idleProof", "fetching"}
         /\ pump'.phase = "fetching" => pump'.after = cursor'
<1> DEFINE next == [pump EXCEPT !.phase = "fetching", !.after = n,
                                !.pages = @ + 1, !.page = {}, !.more = FALSE]
<1>1. /\ EndPages \in Pumps /\ EndPages.phase = "idleProof"
      /\ next \in Pumps /\ next.phase = "fetching" /\ next.after = n
  <2>1. pump \in Pumps /\ pump.pages \in Nat /\ {} \in SUBSET Messages
    BY DEF RunnerTypeOK, Pumps
  <2> DEFINE pages == pump.pages + 1
  <2>2. pages \in Nat
    BY <2>1
  <2>3. next = [pump EXCEPT !.phase = "fetching", !.after = n,
                            !.pages = pages, !.page = {}, !.more = FALSE]
    BY <2>1 DEF Pumps
  <2> HIDE DEF next, pages
  <2>4. next \in Pumps
    BY <2>1, <2>2, <2>3, Zenon DEF Pumps
  <2>5. next.phase = "fetching" /\ next.after = n
    BY <2>1, <2>3 DEF Pumps
  <2>6. EndPages \in Pumps
    BY <2>1, Zenon DEF EndPages, Pumps
  <2>7. EndPages.phase = "idleProof"
    BY <2>1 DEF EndPages, Pumps
  <2> QED BY <2>4, <2>5, <2>6, <2>7
<1>2. \/ cursor' = n /\ pump' \in {EndPages, next}
      \/ UNCHANGED cursor /\ pump' = EndPages
  BY Zenon DEF ClosePage, CloseLastPage
<1> HIDE DEF next
<1> QED BY <1>1, <1>2

\* A page of which the receipts of S were applied.  A receipt that the cursor
\* passes here for the first time is in the page, for the page has no gaps; and
\* the cursor stops short of a receipt when S is what comes before it.
LEMMA DeliverRound ==
  ASSUME RunnerInv, NEW S \in SUBSET pump.page, NEW blocked, PumpRuns("arrived"),
         ClosePage(UpTo(S), blocked), [PumpNext]_vars, UNCHANGED <<process, receipt>>
  PROVE  /\ RoundInv' /\ cursor' \in Nat /\ pump' \in Pumps
         /\ \A k \in Messages :
              receipt[k] \in 1 .. cursor' /\ ~(receipt[k] <= cursor) =>
                k \in pump.page /\ S # Earlier(k)
<1>1. /\ TypeOK /\ cursor \in Nat /\ pump \in Pumps /\ pump.phase = "arrived" /\ Up
      /\ pump.after = cursor /\ Committed \in Nat /\ pump.page \subseteq Messages
  BY CommittedIsFinite
     DEF RunnerInv, RunnerTypeOK, PumpRuns, RoundInv, RoundIsAtCursor, Pumps
<1>2. /\ \A m \in pump.page : cursor < receipt[m] /\ receipt[m] <= Committed
      /\ cursor <= Committed /\ receipt \in [Messages -> Nat]
  BY <1>1 DEF RunnerInv, RoundInv, SequencesAreSpent, PageIsGapless, TypeOK
<1>3. /\ UpTo(S) \in Nat /\ cursor <= UpTo(S) /\ UpTo(S) <= Committed
      /\ UpTo(S) = cursor \/ \E m \in S : UpTo(S) = receipt[m]
  <2> HIDE DEF Committed
  <2> QED BY <1>1, <1>2, UpToDoes
<1>4. /\ cursor' \in {UpTo(S), cursor} /\ pump' \in Pumps
      /\ pump'.phase \in {"idleProof", "fetching"}
      /\ pump'.phase = "fetching" => pump'.after = cursor'
  BY <1>3, ClosePageDoes DEF RunnerInv
<1>5. cursor' \in Nat /\ cursor' <= Committed
  BY <1>1, <1>2, <1>3, <1>4
<1>6. [Next]_vars
  BY DEF Next
<1>7. StepKeeps
  BY <1>1, PumpKeeps DEF vars
<1>8. RoundInv'
  <2>1. SequencesAreSpent'
    BY <1>1, <1>5, <1>6, SpentStays DEF RunnerInv, RoundInv
  <2>2. RoundIsUp'
    BY <1>1, <1>7 DEF RunnerInv, RoundInv, RoundIsUp, Up
  <2> QED BY <1>4, <2>1, <2>2 DEF RoundInv, RoundIsAtCursor, PageIsGapless
<1>9. ASSUME NEW k \in Messages, receipt[k] \in 1 .. cursor', ~(receipt[k] <= cursor)
      PROVE  k \in pump.page /\ S # Earlier(k)
  <2>1. receipt[k] > cursor /\ receipt[k] <= UpTo(S)
    BY <1>1, <1>2, <1>3, <1>4, <1>9
  <2>2. PICK j \in S : UpTo(S) = receipt[j]
    BY <1>1, <1>2, <1>3, <2>1
  <2>3. k \in pump.page
    BY <1>1, <2>1, <2>2 DEF RunnerInv, RoundInv, PageIsGapless
  <2>4. S # Earlier(k)
    BY <1>1, <1>2, <2>1, <2>2 DEF Earlier
  <2> QED BY <2>3, <2>4
<1> QED BY <1>4, <1>5, <1>8, <1>9

\* The receipt of the marker's task that the cursor passes is of the runtime's
\* task as well, so that it was applied, or the cursor stopped short of it.
LEMMA DeliverCovers ==
  ASSUME CursorInv, NEW S \in SUBSET pump.page, NEW blocked, PumpRuns("arrived"),
         ClosePage(UpTo(S), blocked), [PumpNext]_vars, UNCHANGED <<process, receipt>>,
         TaskInv', TaskIsRemembered', TakenFresh,
         rt.messageId \in pump.page =>
           \/ marker'.phase = "completed"
           \/ S = Earlier(rt.messageId)
  PROVE  CursorCoversMarker'
<1>1. /\ RunnerInv /\ MarkerInv /\ TypeOK /\ cursor \in Nat /\ Up
      /\ receipt \in [Messages -> Nat]
  BY DEF CursorInv, RunnerInv, RunnerTypeOK, PumpRuns, TypeOK
<1>2. [Next]_vars
  BY DEF Next
<1>3. StepKeeps
  BY <1>1, PumpKeeps DEF vars
<1> SUFFICES ASSUME marker'.messageId \in Messages, ~redone',
                    receipt'[marker'.messageId] \in 1 .. cursor'
             PROVE  marker'.phase = "completed"
  BY DEF CursorCoversMarker
<1> DEFINE k == marker'.messageId
<1>4. CASE receipt[k] <= cursor
  <2>1. receipt'[marker'.messageId] \in 1 .. cursor
    BY <1>1, <1>4
  <2> QED BY <1>1, <1>2, <2>1, CoveredStays DEF CursorInv, RunnerInv, RoundInv, TaskInv
<1>5. CASE ~(receipt[k] <= cursor)
  <2>1. k \in pump.page /\ S # Earlier(k)
    BY <1>1, <1>5, DeliverRound
  <2>2. rt'.messageId = k
    BY <1>1, <1>5 DEF TaskIsRemembered, Up
  <2>3. rt.messageId = k
    BY <1>3, <2>2, ConstantsAssumption DEF NoMarker
  <2> QED BY <2>1, <2>3
<1> QED BY <1>4, <1>5

-----------------------------------------------------------------------------
(* The theorems.                                                            *)

\* The invariant holds at the start, is kept by every step, and so holds always.
LEMMA RunnerInvInit == RunnerInit => RunnerInv
<1> SUFFICES ASSUME RunnerInit PROVE RunnerInv
  OBVIOUS
<1>1. MarkerInv /\ ControlInv /\ TypeOK
  BY MarkerInvInit, ControlInvInit, InitType DEF RunnerInit
<1>2. NoPump \in Pumps /\ pump.phase = "idle" /\ cursor = 0 /\ cursor \in Nat
  BY DEF RunnerInit, NoPump, Pumps
<1>3. /\ marker = NoMarker /\ rt = CreateRuntime(NoMarker)
      /\ receipt = [m \in Messages |-> 0]
  BY DEF RunnerInit, Init
<1>4. TaskInv
  BY <1>3 DEF TaskInv, CorruptNamesNobody, CalmAtWork, CreateRuntime, NoMarker
<1>5. RoundInv
  BY <1>2, <1>3, CommittedIsFinite
     DEF RoundInv, RoundIsUp, SequencesAreSpent, RoundIsAtCursor, PageIsGapless
<1> QED BY <1>1, <1>2, <1>4, <1>5 DEF RunnerInv, RunnerTypeOK, RunnerInit

\* A page with no receipt of the current task.
LEMMA DeliverHistoryRound ==
  ASSUME RunnerInv, DeliverHistory
  PROVE  RoundInv' /\ cursor' \in Nat /\ pump' \in Pumps
<1>1. /\ PumpRuns("arrived") /\ ClosePage(UpTo(pump.page), FALSE) /\ UNCHANGED vars
  BY DEF DeliverHistory, sessionVars
<1>2. pump.page \in SUBSET pump.page /\ UNCHANGED <<process, receipt>>
  BY <1>1 DEF vars
<1> QED BY <1>1, <1>2, DeliverRound

\* What a page with the receipt of the current task comes to: all of it was
\* applied, and the marker is completed, or what comes before that receipt.
LEMMA DeliverCurrentDoes ==
  ASSUME NEW m \in Messages, DeliverCurrent(m)
  PROVE  \E S \in SUBSET pump.page, blocked \in BOOLEAN :
           /\ ClosePage(UpTo(S), blocked)
           /\ marker'.phase = "completed" \/ S = Earlier(rt.messageId)
<1>1. PICK d \in Deliveries(m) :
        StoreBecomes(d.o) /\ ClosePage(Accepted(m, d.ok), ~d.ok)
  BY DEF DeliverCurrent
<1> DEFINE S == IF d.ok THEN pump.page ELSE Earlier(m)
<1>2. S \in SUBSET pump.page /\ ClosePage(UpTo(S), ~d.ok)
  BY <1>1 DEF Accepted, Earlier
<1>3. marker'.phase = "completed" \/ S = Earlier(rt.messageId)
  <2>1. CASE d.ok
    BY <1>1, <2>1, DeliveredCompletes DEF StoreBecomes
  <2>2. CASE ~d.ok
    BY <2>2 DEF DeliverCurrent
  <2> QED BY <2>1, <2>2
<1> HIDE DEF S
<1> QED BY <1>2, <1>3

LEMMA DeliverCurrentRound ==
  ASSUME RunnerInv, NEW m \in Messages, DeliverCurrent(m)
  PROVE  RoundInv' /\ cursor' \in Nat /\ pump' \in Pumps
<1>1. PumpRuns("arrived") /\ UNCHANGED <<process, receipt>>
  BY DEF DeliverCurrent, worldVars
<1>2. [PumpNext]_vars
  BY DeliverIsStep DEF PumpNext, RunnerInv, MarkerInv, TaskInv, RoundInv
<1>3. PICK S \in SUBSET pump.page, blocked \in BOOLEAN : ClosePage(UpTo(S), blocked)
  BY DeliverCurrentDoes
<1> QED BY <1>1, <1>2, <1>3, DeliverRound

\* A step of the terminal leaves the round alone, or ends it with the process.
LEMMA SessionStepRound ==
  ASSUME RunnerInv, SessionStep
  PROVE  RoundIsUp' /\ RoundIsAtCursor' /\ PageIsGapless' /\ cursor' \in {cursor, 0}
         /\ pump' \in Pumps
<1>1. /\ TypeOK /\ pump \in Pumps /\ cursor \in Nat /\ [Next]_vars
      /\ cursor' \in {cursor, 0}
      /\ cursor' = cursor \/ ~Up
  BY DEF RunnerInv, RunnerTypeOK, SessionStep, Next, Up
<1>2. CASE ~process'.up
  <2>1. pump' = NoPump
    BY <1>2 DEF SessionStep
  <2> QED BY <1>1, <2>1 DEF NoPump, Pumps, RoundIsUp, RoundIsAtCursor, PageIsGapless
<1>3. CASE process'.up /\ pump.phase = "idle"
  <2>1. pump' = pump
    BY <1>3 DEF SessionStep
  <2> QED BY <1>1, <1>3, <2>1 DEF RoundIsUp, RoundIsAtCursor, PageIsGapless
<1>4. CASE process'.up /\ pump.phase # "idle"
  <2>1. pump' = pump /\ Up /\ rt.preflight = "done" /\ cursor' = cursor
    BY <1>1, <1>4 DEF SessionStep, RunnerInv, RoundInv, RoundIsUp
  <2>2. rt'.preflight = "done"
    <3>1. ~Boot
      BY <2>1 DEF Boot, Up
    <3>2. ~Dies
      BY <1>1, <1>4 DEF Dies, TypeOK
    <3>3. StepKeeps \/ \E m \in Messages : Dispatch(m)
      BY <1>1, <3>1, <3>2, HostKeeps DEF SessionStep
    <3> QED BY <1>1, <2>1, <3>3, DispatchKeeps
  <2>3. RoundIsUp' /\ RoundIsAtCursor'
    BY <1>4, <2>1, <2>2 DEF RoundIsUp, RoundIsAtCursor, RunnerInv, RoundInv, Up
  <2>4. PageIsGapless'
    BY <1>1, <2>1, GaplessStays DEF RunnerInv, RoundInv
  <2> QED BY <1>1, <2>1, <2>3, <2>4
<1> QED BY <1>2, <1>3, <1>4

\* The steps of the round that move no cursor.
LEMMA PumpStepRound ==
  ASSUME RunnerInv, [Next]_vars,
         \/ StartRound \/ StopPump \/ ServerAnswers \/ FetchFails
         \/ OfferIdleProof \/ EndRound \/ UNCHANGED runnerVars
  PROVE  RoundIsUp' /\ RoundIsAtCursor' /\ PageIsGapless' /\ cursor' \in {cursor, 0}
         /\ pump' \in Pumps
<1>1. TypeOK /\ pump \in Pumps /\ cursor \in Nat /\ cursor' = cursor
  BY DEF RunnerInv, RunnerTypeOK, StartRound, StopPump, ServerAnswers, FetchFails,
         OfferIdleProof, EndRound, runnerVars
<1>2. CASE UNCHANGED runnerVars
  BY <1>1, <1>2 DEF RunnerInv, RoundInv, RoundIsUp, RoundIsAtCursor, PageIsGapless,
                    runnerVars, vars, Up
<1>3. ASSUME Up, rt.preflight = "done",
             [PumpNext]_vars /\ UNCHANGED process
      PROVE  RoundIsUp'
  <2>1. StepKeeps
    BY <1>1, <1>3, PumpKeeps DEF vars
  <2> QED BY <1>3, <2>1 DEF RoundIsUp, Up
<1>4. CASE StartRound
  <2> DEFINE started == [NoPump EXCEPT !.phase = "fetching", !.after = cursor]
  <2>1. started \in Pumps /\ started.phase = "fetching" /\ started.after = cursor
    BY <1>1 DEF NoPump, Pumps
  <2>2. pump' = started /\ RoundIsUp'
    BY <1>3, <1>4 DEF StartRound, PumpRuns, sessionVars, vars
  <2> HIDE DEF started
  <2> QED BY <1>1, <2>1, <2>2 DEF RoundIsAtCursor, PageIsGapless
<1>5. CASE StopPump
  <2> DEFINE stopped == [pump EXCEPT !.stopped = TRUE]
  <2>1. /\ stopped \in Pumps /\ stopped.phase = pump.phase
        /\ stopped.after = pump.after /\ stopped.page = pump.page
    BY <1>1 DEF Pumps
  <2>2. pump' = stopped /\ RoundIsUp'
    BY <1>3, <1>5 DEF StopPump, sessionVars, vars
  <2> HIDE DEF stopped
  <2>3. PageIsGapless'
    BY <1>1, <2>1, <2>2, GaplessStays DEF RunnerInv, RoundInv
  <2> QED BY <1>1, <2>1, <2>2, <2>3 DEF RunnerInv, RoundInv, RoundIsAtCursor
<1>6. ASSUME PumpRuns("fetching") \/ PumpRuns("idleProof") \/ PumpRuns("audit")
      PROVE  Up /\ rt.preflight = "done" /\ pump.phase # "idle"
  BY <1>6 DEF PumpRuns, RunnerInv, RoundInv, RoundIsUp
<1>7. CASE ServerAnswers
  <2>1. PageIsGapless' /\ pump' \in Pumps
    BY <1>1, <1>7, ServerAnswersGapless DEF RunnerInv, RoundInv
  <2>2. RoundIsUp'
    BY <1>3, <1>6, <1>7 DEF ServerAnswers, sessionVars, vars
  <2>3. pump'.after = pump.after /\ pump.after = cursor
    BY <1>1, <1>7 DEF ServerAnswers, PumpRuns, Pumps, RunnerInv, RoundInv, RoundIsAtCursor
  <2> QED BY <1>1, <2>1, <2>2, <2>3 DEF RoundIsAtCursor
<1>8. CASE FetchFails
  <2>1. pump' = EndPages /\ RoundIsUp'
    BY <1>3, <1>6, <1>8 DEF FetchFails, sessionVars, vars
  <2>2. EndPages \in Pumps /\ EndPages.phase = "idleProof"
    BY <1>1 DEF EndPages, Pumps
  <2> QED BY <1>1, <2>1, <2>2 DEF RoundIsAtCursor, PageIsGapless
<1>9. CASE OfferIdleProof
  <2> DEFINE audited == [pump EXCEPT !.phase = "audit"]
  <2>1. audited \in Pumps /\ audited.phase = "audit"
    BY <1>1 DEF Pumps
  <2>2. [PumpNext]_vars /\ UNCHANGED process
    BY <1>9 DEF OfferIdleProof, AcknowledgeStableIdle, PumpNext, sessionVars, vars
  <2>3. pump' = audited /\ RoundIsUp'
    BY <1>3, <1>6, <1>9, <2>2 DEF OfferIdleProof
  <2> HIDE DEF audited
  <2> QED BY <1>1, <2>1, <2>3 DEF RoundIsAtCursor, PageIsGapless
<1>10. CASE EndRound
  <2> DEFINE ended == [NoPump EXCEPT !.stopped = pump.stopped]
  <2>1. ended \in Pumps /\ ended.phase = "idle"
    BY <1>1 DEF NoPump, Pumps
  <2>2. pump' = ended
    BY <1>10 DEF EndRound
  <2> HIDE DEF ended
  <2> QED BY <1>1, <2>1, <2>2 DEF RoundIsUp, RoundIsAtCursor, PageIsGapless
<1> QED BY <1>2, <1>4, <1>5, <1>7, <1>8, <1>9, <1>10

LEMMA RunnerInvNext ==
  ASSUME RunnerInv, [RunnerNext]_runnerVars
  PROVE  RunnerInv'
<1>1. [Next]_vars
  BY RunnerStepIsStep DEF RunnerInv, MarkerInv, TaskInv, RoundInv, sessionVars
<1>2. MarkerInv' /\ ControlInv' /\ TaskInv' /\ TypeOK'
  <2>1. MarkerInv'
    BY <1>1, MarkerInvNext DEF RunnerInv
  <2> QED BY <1>1, <2>1, ControlInvNext, TaskInvNext DEF RunnerInv, MarkerInv
<1>3. CASE DeliverHistory
  BY <1>2, <1>3, DeliverHistoryRound DEF RunnerInv, RunnerTypeOK
<1>4. CASE \E m \in Messages : DeliverCurrent(m)
  BY <1>2, <1>4, DeliverCurrentRound DEF RunnerInv, RunnerTypeOK
<1>5. ASSUME RoundIsUp', RoundIsAtCursor', PageIsGapless', cursor' \in {cursor, 0},
             pump' \in Pumps
      PROVE  RunnerInv'
  <2>1. TypeOK /\ cursor \in Nat /\ cursor' \in Nat /\ cursor' <= cursor
    BY <1>5 DEF RunnerInv, RunnerTypeOK
  <2>2. SequencesAreSpent'
    <3>1. cursor' <= Committed
      BY <2>1, CommittedIsFinite DEF RunnerInv, RoundInv, SequencesAreSpent
    <3> QED BY <1>1, <2>1, <3>1, SpentStays DEF RunnerInv, RoundInv
  <2> QED BY <1>2, <1>5, <2>1, <2>2 DEF RunnerInv, RoundInv, RunnerTypeOK
<1>6. CASE SessionStep
  BY <1>5, <1>6, SessionStepRound
<1>7. CASE \/ StartRound \/ StopPump \/ ServerAnswers \/ FetchFails
           \/ OfferIdleProof \/ EndRound \/ UNCHANGED runnerVars
  BY <1>1, <1>5, <1>7, PumpStepRound
<1> QED BY <1>3, <1>4, <1>6, <1>7, Zenon DEF RunnerNext, PumpStep

LEMMA RunnerInvAlways == RunnerSpec => []RunnerInv
BY RunnerInvInit, RunnerInvNext, PTL DEF RunnerSpec

\* Terminal and pump together implement the terminal: every round, page and
\* delivery is a step of AttachedSession or none at all, the receipt that is
\* tried twice in one delivery (acknowledgeCompletion, then reconcileMarker)
\* included.  What is proved of the terminal alone holds of the two together.
THEOREM RunnerIsTerminal == RunnerSpec => ImplementsSession
<1>1. RunnerInit => Init
  BY DEF RunnerInit
<1>2. RunnerInv /\ [RunnerNext]_runnerVars => [Next]_sessionVars
  BY RunnerStepIsStep DEF RunnerInv, MarkerInv, TaskInv, RoundInv
<1> QED BY <1>1, <1>2, RunnerInvAlways, PTL DEF RunnerSpec, ImplementsSession

\* So the two together implement TaskSlot as well: whatever pump and terminal do
\* to each other, a task takes the slot before it is delivered, is delivered
\* once until it has finished, and leaves the slot only then.
THEOREM RunnerRefinesTaskSlot == RunnerSpec => ImplementsTaskSlot
<1>1. RunnerSpec => Spec
  BY RunnerIsTerminal DEF ImplementsSession, Spec, sessionVars
<1> QED BY <1>1, RefinesTaskSlot

-----------------------------------------------------------------------------
(* The history, and what it is for.                                         *)

\* The history watches: it keeps no step from happening.
LEMMA CursorStepIsStep ==
  ASSUME [CursorNext]_cursorVars
  PROVE  [RunnerNext]_runnerVars
BY DEF CursorNext, RunnerNext, cursorVars

LEMMA CursorInvInit == CursorInit => CursorInv
<1> SUFFICES ASSUME CursorInit PROVE CursorInv
  OBVIOUS
<1>1. RunnerInv /\ redone = FALSE
  BY RunnerInvInit DEF CursorInit
<1>2. marker.messageId \notin Messages
  BY ConstantsAssumption DEF CursorInit, RunnerInit, Init, NoMarker
<1> QED BY <1>1, <1>2
        DEF CursorInv, CursorTypeOK, RunnerInv, TaskIsRemembered, CursorCoversMarker

LEMMA CursorInvNext ==
  ASSUME CursorInv, [CursorNext]_cursorVars
  PROVE  CursorInv'
<1>1. RunnerInv /\ RunnerInv' /\ [RunnerNext]_runnerVars
  BY CursorStepIsStep, RunnerInvNext DEF CursorInv
<1>2. [Next]_vars
  BY <1>1, RunnerStepIsStep DEF RunnerInv, MarkerInv, TaskInv, RoundInv, sessionVars
<1>3. CursorTypeOK'
  <2>1. redone' \in BOOLEAN
    BY DEF CursorInv, CursorTypeOK, CursorNext, RecordTaking, cursorVars
  <2> QED BY <1>1, <2>1 DEF CursorTypeOK, RunnerInv
<1>4. TakenFresh /\ TaskIsRemembered'
  <2>1. TakenFresh
    BY <1>1, CursorStepTakesFresh
  <2> QED BY <1>1, <1>2, <2>1, TaskIsRememberedNext DEF CursorInv, RunnerInv
<1>5. CASE DeliverHistory
  <2>1. /\ PumpRuns("arrived") /\ ClosePage(UpTo(pump.page), FALSE)
        /\ UNCHANGED vars /\ rt.messageId \notin pump.page
    BY <1>5 DEF DeliverHistory, sessionVars
  <2>2. pump.page \in SUBSET pump.page /\ UNCHANGED <<process, receipt>>
    BY <2>1 DEF vars
  <2>3. CursorCoversMarker'
    BY <1>1, <1>4, <2>1, <2>2, DeliverCovers DEF RunnerInv
  <2> QED BY <1>1, <1>3, <1>4, <2>3 DEF CursorInv
<1>6. ASSUME NEW m \in Messages, DeliverCurrent(m)
      PROVE  CursorInv'
  <2>1. PumpRuns("arrived") /\ UNCHANGED <<process, receipt>>
    BY <1>6 DEF DeliverCurrent, worldVars
  <2>2. [PumpNext]_vars
    BY <1>1, <1>6, DeliverIsStep DEF PumpNext, RunnerInv, MarkerInv, TaskInv, RoundInv
  <2>3. PICK S \in SUBSET pump.page, blocked \in BOOLEAN :
          /\ ClosePage(UpTo(S), blocked)
          /\ marker'.phase = "completed" \/ S = Earlier(rt.messageId)
    BY <1>6, DeliverCurrentDoes
  <2>4. CursorCoversMarker'
    BY <1>1, <1>4, <2>1, <2>2, <2>3, DeliverCovers DEF RunnerInv
  <2> QED BY <1>1, <1>3, <1>4, <2>4 DEF CursorInv
<1>7. ASSUME cursor' \in {cursor, 0}
      PROVE  CursorInv'
  <2>1. CursorCoversMarker'
    <3> SUFFICES ASSUME marker'.messageId \in Messages, ~redone',
                        receipt'[marker'.messageId] \in 1 .. cursor'
                 PROVE  marker'.phase = "completed"
      BY DEF CursorCoversMarker
    <3>1. cursor \in Nat
      BY <1>1 DEF RunnerInv, RunnerTypeOK
    <3>2. receipt'[marker'.messageId] \in 1 .. cursor
      BY <1>7, <3>1
    <3> QED BY <1>1, <1>2, <1>4, <3>1, <3>2, CoveredStays
            DEF CursorInv, RunnerInv, RoundInv, TaskInv
  <2> QED BY <1>1, <1>3, <1>4, <2>1 DEF CursorInv
<1>8. CASE SessionStep
  BY <1>1, <1>7, <1>8, SessionStepRound
<1>9. CASE \/ StartRound \/ StopPump \/ ServerAnswers \/ FetchFails
           \/ OfferIdleProof \/ EndRound \/ UNCHANGED runnerVars
  BY <1>1, <1>2, <1>7, <1>9, PumpStepRound
<1> QED BY <1>1, <1>5, <1>6, <1>8, <1>9, Zenon DEF RunnerNext, PumpStep

LEMMA CursorInvAlways == CursorSpec => []CursorInv
BY CursorInvInit, CursorInvNext, PTL DEF CursorSpec

\* Every variable of terminal and pump has its type in every reachable state:
\* the cursor is a sequence, the page in flight a set of this terminal's tasks
\* (attachedCompletionPump.ts, completionCursorStore.ts).
THEOREM CursorTypeCorrect == CursorSpec => []CursorTypeOK
<1>1. CursorInv => CursorTypeOK
  BY DEF CursorInv
<1> QED BY <1>1, CursorInvAlways, PTL

\* The durable cursor never runs ahead of the marker: when it has passed the
\* receipt of the task that the marker names, the marker is completed, unless
\* the task was handed out again after its completion.  So no order of pages,
\* receipts that arrive while one is awaited, failed saves of marker or cursor,
\* crashes and boots makes the pump skip a receipt that is still to come when a
\* terminal takes a task (pumpReceipts saves the cursor after the page, and
\* stops it before the receipt that could not be applied).
THEOREM CursorStaysBehind == CursorSpec => []CursorCoversMarker
<1>1. CursorInv => CursorCoversMarker
  BY DEF CursorInv
<1> QED BY <1>1, CursorInvAlways, PTL

=============================================================================
