------------------------ MODULE AttachedSessionTypes ------------------------
(***************************************************************************)
(* Type correctness of AttachedSession: each helper that mutates `current` *)
(* maps runtime records to runtime records, each handler keeps the types   *)
(* of all variables.                                                       *)
(***************************************************************************)
EXTENDS AttachedSession, TLAPS, FiniteSetTheorems

-----------------------------------------------------------------------------
(* The helpers on the runtime record. *)

\* Settling the readiness promise touches the promise and the preflight only.
LEMMA SettleType ==
  ASSUME NEW r \in Runtime, NEW result \in {"rejected", "ready"}
  PROVE  SettleReadiness(r, result) \in Runtime
<1>1. r.preflight \in Preflights
  BY DEF Runtime
<1>2. ASSUME NEW p \in Preflights
      PROVE  [r EXCEPT !.readiness = FALSE, !.preflight = p] \in Runtime
  BY Zenon DEF Runtime
<1>3. CASE r.readiness
  <2>1. (IF r.preflight = "waiting" THEN result ELSE r.preflight) \in Preflights
    BY <1>1 DEF Preflights
  <2> QED BY <1>2, <1>3, <2>1 DEF SettleReadiness
<1>4. CASE ~r.readiness
  BY <1>4 DEF SettleReadiness
<1> QED BY <1>3, <1>4

LEMMA RejectType ==
  ASSUME NEW r \in Runtime
  PROVE  RejectReadiness(r) \in Runtime /\ ResolveReadiness(r) \in Runtime
BY SettleType DEF RejectReadiness, ResolveReadiness

LEMMA StateType ==
  ASSUME NEW r \in Runtime, NEW s \in States
  PROVE  [r EXCEPT !.state = s] \in Runtime
BY Zenon DEF Runtime

LEMMA ClearType ==
  ASSUME NEW r \in Runtime
  PROVE  ClearAttachedTask(r) \in Runtime
<1>1. /\ NoMessage \in MessageId
      /\ 0 \in Nat
      /\ "none" \in Reasons
  BY DEF MessageId, Reasons
<1> QED BY <1>1, Zenon DEF ClearAttachedTask, Runtime

LEMMA IndeterminateType ==
  ASSUME NEW r \in Runtime
  PROVE  MarkCleanupIndeterminate(r) \in Runtime
BY Zenon DEF MarkCleanupIndeterminate, Runtime, States, Reasons

LEMMA DisposeType ==
  ASSUME NEW r \in Runtime
  PROVE  DisposeSession(r) \in Runtime
<1>1. 0 \in Nat
  OBVIOUS
<1> QED BY <1>1, Zenon DEF DisposeSession, Runtime

LEMMA StoppedStateType ==
  ASSUME NEW r
  PROVE  StoppedState(r) \in States
BY DEF StoppedState, States

LEMMA AttentionType ==
  ASSUME NEW r \in Runtime, NEW reason \in Reasons
  PROVE  Attention(r, reason) \in Runtime
BY Zenon DEF Attention, Runtime, States

LEMMA ArmGateType ==
  ASSUME NEW r \in Runtime, NEW n \in Nat
  PROVE  ArmCompletionGate(r, n) \in Runtime
<1>1. 0 \in Nat /\ r.generation \in Nat
  BY DEF Runtime
<1>2. ASSUME NEW g \in Nat, NEW z \in Nat
      PROVE  [r EXCEPT !.gateGeneration = g, !.gateSequence = n,
                       !.idleConfirmationCount = z] \in Runtime
  BY Zenon DEF Runtime
<1> QED BY <1>1, <1>2 DEF ArmCompletionGate

LEMMA BecomeReadyType ==
  ASSUME NEW r \in Runtime
  PROVE  BecomeReady(r) \in Runtime
<1>1. ASSUME NEW b \in BOOLEAN
      PROVE  [r EXCEPT !.state = "ready", !.stabilityTimer = b] \in Runtime
  BY Zenon DEF Runtime, States
<1>2. (r.session # 0 /\ r.restartAttempts > 0) \in BOOLEAN
  OBVIOUS
<1> QED BY <1>1, <1>2 DEF BecomeReady

\* The timers that every way out of a session clears.
LEMMA TimersType ==
  ASSUME NEW r \in Runtime, NEW n \in Nat
  PROVE  /\ [r EXCEPT !.startupTimer = n] \in Runtime
         /\ [r EXCEPT !.startupTimer = n, !.stabilityTimer = FALSE] \in Runtime
BY Zenon DEF Runtime

LEMMA ScheduleRestartType ==
  ASSUME NEW r \in Runtime
  PROVE  ScheduleRestart(r) \in Runtime
<1> DEFINE cleared == [r EXCEPT !.startupTimer = 0, !.stabilityTimer = FALSE]
           refused == RejectReadiness(cleared)
<1>1. cleared \in Runtime
  BY TimersType
<1>2. refused \in Runtime
  BY <1>1, RejectType
<1>3. ~BudgetSpent(r) => NextAttempt(r) \in 0 .. MaxAttempts
  <2>1. r.restartAttempts \in 0 .. MaxAttempts
    BY Zenon DEF Runtime
  <2> QED BY <2>1, ConstantsAssumption DEF NextAttempt, BudgetSpent
<1>4. StoppedState(r) \in States /\ "attention_required" \in States
  BY StoppedStateType DEF States
<1> HIDE DEF refused
<1>5. /\ [refused EXCEPT !.state = StoppedState(r)] \in Runtime
      /\ [refused EXCEPT !.state = "attention_required"] \in Runtime
  BY <1>2, <1>4, StateType
<1>6. [refused EXCEPT !.state = "failed", !.restartBudgetExhausted = TRUE]
        \in Runtime
  BY <1>2, Zenon DEF Runtime, States
<1> HIDE DEF cleared
<1>7. ASSUME NEW n \in 0 .. MaxAttempts
      PROVE  [cleared EXCEPT !.state = "failed", !.restartTimer = TRUE,
                             !.readiness = TRUE, !.restartAttempts = n] \in Runtime
  BY <1>1, Zenon DEF Runtime, States
<1> QED BY <1>3, <1>5, <1>6, <1>7 DEF ScheduleRestart, cleared, refused

LEMMA LedgerType ==
  ASSUME NEW r \in Runtime, NEW b \in BOOLEAN
  PROVE  [r EXCEPT !.cleanupLedger = b] \in Runtime
BY Zenon DEF Runtime

LEMMA FinishStopType ==
  ASSUME NEW r \in Runtime, NEW disposeFails
  PROVE  FinishStop(r, disposeFails) \in Runtime
<1> DEFINE gone == DisposeSession(RejectReadiness(
                     [r EXCEPT !.startupTimer = 0, !.stabilityTimer = FALSE]))
<1>1. gone \in Runtime
  BY TimersType, RejectType, DisposeType
<1> HIDE DEF gone
<1>2. [MarkCleanupIndeterminate(gone) EXCEPT !.cleanupLedger = TRUE] \in Runtime
  BY <1>1, IndeterminateType, LedgerType
<1>3. [gone EXCEPT !.state = StoppedState(r)] \in Runtime
  BY <1>1, StateType, StoppedStateType
<1> QED BY <1>2, <1>3 DEF FinishStop, gone

LEMMA AfterExitType ==
  ASSUME NEW r \in Runtime, NEW previous \in States
  PROVE  AfterExit(r, previous) \in Runtime
<1>1. [r EXCEPT !.completedBeforeExit = TRUE] \in Runtime
  BY Zenon DEF Runtime
<1>2. ScheduleRestart([r EXCEPT !.completedBeforeExit = TRUE]) \in Runtime
  BY <1>1, ScheduleRestartType
<1>3. ScheduleRestart(r) \in Runtime
  BY ScheduleRestartType
<1>4. Attention(r, "task_crash") \in Runtime
  BY AttentionType DEF Reasons
<1>5. [RejectReadiness(r) EXCEPT !.state = StoppedState(r)] \in Runtime
  BY RejectType, StateType, StoppedStateType
<1>6. [r EXCEPT !.state = IF HasTask(r) THEN "attention_required" ELSE "failed"]
        \in Runtime
  BY StateType DEF States
<1> QED BY <1>2, <1>3, <1>4, <1>5, <1>6 DEF AfterExit

LEMMA CreateRuntimeType ==
  ASSUME NEW m \in Markers
  PROVE  CreateRuntime(m) \in Runtime
<1>1. /\ m.messageId \in MessageId
      /\ m.generation \in Nat
      /\ m.receiptSequence \in Nat
      /\ 0 \in Nat /\ 0 \in 0 .. MaxAttempts
      /\ (m.phase = "completed") \in BOOLEAN
  BY ConstantsAssumption DEF Markers
<1>2. /\ (IF m.phase = "none" THEN "stopped" ELSE "attention_required") \in States
      /\ (IF m.phase = "none" THEN "none" ELSE "stale_marker") \in Reasons
      /\ "idle" \in Preflights
  BY DEF States, Reasons, Preflights
<1> QED BY <1>1, <1>2, Zenon DEF CreateRuntime, Runtime

LEMMA NoMarkerType == NoMarker \in Markers /\ CorruptMarker \in Markers
BY DEF NoMarker, CorruptMarker, Markers, Phases, MessageId

LEMMA StoppingType ==
  ASSUME NEW r \in Runtime
  PROVE  Stopping(r) \in Runtime
BY Zenon DEF Stopping, Runtime, States

LEMMA ReceiptAppliedType ==
  ASSUME NEW r \in Runtime, NEW n \in Nat
  PROVE  ReceiptApplied(r, n) \in Runtime
BY Zenon DEF ReceiptApplied, Runtime

-----------------------------------------------------------------------------
(* The marker store. *)

Outcomes == [ok : BOOLEAN, marker : Markers, stuck : BOOLEAN]

LEMMA OutcomeType ==
  ASSUME NEW ok \in BOOLEAN, NEW disk \in Markers, NEW stuck \in BOOLEAN
  PROVE  Outcome(ok, disk, stuck) \in Outcomes
BY DEF Outcome, Outcomes

LEMMA SaveType ==
  ASSUME NEW disk \in Markers, NEW stuck \in BOOLEAN, NEW new \in Markers
  PROVE  SaveOutcomes(disk, stuck, new) \subseteq Outcomes
<1>1. ASSUME NEW d \in {disk, new, CorruptMarker}, NEW ok \in BOOLEAN, NEW b \in BOOLEAN
      PROVE  Outcome(ok, d, b) \in Outcomes
  BY OutcomeType, NoMarkerType
<1>2. ASSUME NEW o \in SaveOutcomes(disk, stuck, new)
      PROVE  \E d \in {disk, new, CorruptMarker}, ok \in BOOLEAN, b \in BOOLEAN :
               o = Outcome(ok, d, b)
  BY <1>2 DEF SaveOutcomes
<1> QED BY <1>1, <1>2

LEMMA ClearOutcomesType ==
  ASSUME NEW disk \in Markers, NEW stuck \in BOOLEAN, NEW matches
  PROVE  ClearOutcomes(disk, stuck, matches) \subseteq Outcomes
<1>1. ASSUME NEW d \in {disk, NoMarker}, NEW ok \in BOOLEAN, NEW b \in BOOLEAN
      PROVE  Outcome(ok, d, b) \in Outcomes
  BY OutcomeType, NoMarkerType
<1>2. ASSUME NEW o \in ClearOutcomes(disk, stuck, matches)
      PROVE  \E d \in {disk, NoMarker}, ok \in BOOLEAN, b \in BOOLEAN :
               o = Outcome(ok, d, b)
  BY <1>2 DEF ClearOutcomes
<1> QED BY <1>1, <1>2

LEMMA TaskMarkerType ==
  ASSUME NEW m \in MessageId, NEW g \in Nat, NEW p \in Phases, NEW n \in Nat
  PROVE  TaskMarker(m, g, p, n) \in Markers
BY DEF TaskMarker, Markers

LEMMA PersistType ==
  ASSUME NEW disk \in Markers, NEW stuck \in BOOLEAN, NEW r, NEW n \in Nat
  PROVE  PersistOutcomes(disk, stuck, r, n) \subseteq Outcomes
<1> DEFINE new == TaskMarker(disk.messageId, disk.generation, "completed", n)
<1>1. new \in Markers
  BY TaskMarkerType DEF Markers, Phases
<1>2. SaveOutcomes(disk, stuck, new) \subseteq Outcomes
  BY <1>1, SaveType
<1>3. ASSUME NEW b \in BOOLEAN PROVE Outcome(b, disk, stuck) \in Outcomes
  BY DEF Outcome, Outcomes
<1>4. (disk.receiptSequence = n) \in BOOLEAN
  OBVIOUS
<1> QED BY <1>2, <1>3, <1>4 DEF PersistOutcomes

\* What the store leaves on disk, whatever the call was, is a marker.
LEMMA StoreType ==
  ASSUME NEW o \in Outcomes, StoreBecomes(o)
  PROVE  marker' \in Markers /\ indeterminate' \in BOOLEAN
BY DEF StoreBecomes, Outcomes

-----------------------------------------------------------------------------
(* The handlers. *)

LEMMA StartKillType ==
  ASSUME TypeOK, NEW r \in Runtime,
         NEW who \in {"none", "stop", "exit", "failedStart", "lateSpawn"},
         NEW disposeFailed \in BOOLEAN, StartKill(who, r, disposeFailed)
  PROVE  kill' \in Kills
<1>1. /\ r.generation \in Nat
      /\ r.state \in States
      /\ r.automaticAttempt \in BOOLEAN
  BY DEF Runtime
<1>2. kill.phase \in {"none", "pending", "failed"}
  BY DEF TypeOK, Kills
<1> QED BY <1>1, <1>2 DEF StartKill, Kills

LEMMA SpawnAttemptType ==
  ASSUME NEW r \in Runtime, NEW automatic \in BOOLEAN,
         SpawnAttempt(r, automatic)
  PROVE  rt' \in Runtime /\ spawn' \in Spawns
<1>1. CASE r.session # 0
  <2> DEFINE unusable == [r EXCEPT !.sessionUsable = FALSE]
  <2>1. unusable \in Runtime
    BY Zenon DEF Runtime
  <2>2. rt' = RejectReadiness(MarkCleanupIndeterminate(unusable))
    BY <1>1 DEF SpawnAttempt
  <2> HIDE DEF unusable
  <2>3. rt' \in Runtime
    BY <2>1, <2>2, IndeterminateType, RejectType
  <2>4. spawn' = NoSpawn
    BY <1>1 DEF SpawnAttempt
  <2>5. spawn' \in Spawns
    BY <2>4 DEF NoSpawn, Spawns
  <2> QED BY <2>3, <2>5
<1>2. CASE r.session = 0
  <2>1. r.generation + 1 \in Nat
    BY DEF Runtime
  <2>2. 0 \in Nat
    OBVIOUS
  <2> DEFINE fresh == [r EXCEPT !.stabilityTimer = FALSE, !.cleanupLedger = FALSE,
                                !.state = "starting", !.readySamples = 0,
                                !.automaticAttempt = automatic,
                                !.generation = @ + 1]
  <2>3. fresh \in Runtime
    <3>1. ASSUME NEW g \in Nat
          PROVE  [r EXCEPT !.stabilityTimer = FALSE, !.cleanupLedger = FALSE,
                           !.state = "starting", !.readySamples = 0,
                           !.automaticAttempt = automatic,
                           !.generation = g] \in Runtime
      BY <2>2, Zenon DEF Runtime, States
    <3> QED BY <2>1, <3>1
  <2> HIDE DEF fresh
  <2>4. ArmStartupTimeout(fresh) \in Runtime
    <3>1. fresh.generation \in Nat
      BY <2>3 DEF Runtime
    <3> QED BY <2>3, <3>1, TimersType DEF ArmStartupTimeout
  <2>5. rt' \in Runtime
    BY <1>2, <2>4 DEF SpawnAttempt, fresh
  <2>6. spawn' \in Spawns
    BY <1>2, <2>1 DEF SpawnAttempt, Spawns
  <2> QED BY <2>5, <2>6
<1> QED BY <1>1, <1>2

LEMMA CleanupFailedStartType ==
  ASSUME TypeOK, NEW r \in Runtime, CleanupFailedStart(r)
  PROVE  rt' \in Runtime /\ kill' \in Kills
<1>1. Stopping(r) \in Runtime
  BY StoppingType
<1>2. kill' \in Kills
  BY StartKillType DEF CleanupFailedStart
<1>3. ASSUME NEW b \in BOOLEAN
      PROVE  (Stopping(r).cleanupLedger \/ b) \in BOOLEAN
  OBVIOUS
<1>4. rt' \in Runtime
  BY <1>1, <1>3, LedgerType DEF CleanupFailedStart
<1> QED BY <1>2, <1>4

LEMMA EnsureReadyType ==
  ASSUME TypeOK, EnsureReady
  PROVE  TypeOK'
<1>1. rt \in Runtime /\ spawn \in Spawns
  BY DEF TypeOK
<1>2. ASSUME NEW p \in Preflights
      PROVE  /\ [rt EXCEPT !.preflight = p] \in Runtime
             /\ [rt EXCEPT !.readiness = TRUE, !.preflight = p] \in Runtime
  BY <1>1, Zenon DEF Runtime
<1>3. rt' \in Runtime /\ spawn' \in Spawns
  BY <1>1, <1>2, SpawnAttemptType DEF EnsureReady, Preflights
<1> QED BY <1>3 DEF EnsureReady, TypeOK, storeVars, worldVars

LEMMA PreflightPassesType ==
  ASSUME TypeOK, PreflightPasses
  PROVE  TypeOK'
<1>1. rt' \in Runtime
  <2>1. rt \in Runtime /\ "done" \in Preflights
    BY DEF TypeOK, Preflights
  <2>2. rt' = [rt EXCEPT !.preflight = "done"]
    BY DEF PreflightPasses
  <2> QED BY <2>1, <2>2, Zenon DEF Runtime
<1> QED BY <1>1 DEF PreflightPasses, TypeOK, hostVars, storeVars, worldVars

LEMMA StartupTimerFiresType ==
  ASSUME TypeOK, StartupTimerFires
  PROVE  TypeOK'
<1> DEFINE r == [rt EXCEPT !.startupTimer = 0]
<1>1. r \in Runtime /\ kill \in Kills
  BY TimersType DEF TypeOK
<1> HIDE DEF r
<1>2. RejectReadiness(Stopping(r)) \in Runtime
  BY <1>1, StoppingType, RejectType
<1>3. rt' \in Runtime /\ kill' \in Kills
  BY <1>1, <1>2, CleanupFailedStartType DEF StartupTimerFires, r
<1> QED BY <1>3 DEF StartupTimerFires, TypeOK, storeVars, worldVars

LEMMA SpawnFailsType ==
  ASSUME TypeOK, NEW g \in Nat, SpawnFails(g)
  PROVE  pty' \in Hosts
<1>1. pty \in Hosts
  BY DEF TypeOK
<1>2. CASE pty' = [pty EXCEPT !.unwinding = @ \ {g}]
  BY <1>1, <1>2 DEF Hosts
<1>3. CASE pty' = [pty EXCEPT !.unwinding = @ \ {g}, !.alive = @ \cup {g},
                              !.disowned = @ \cup {g}]
  BY <1>1, <1>3 DEF Hosts
<1> QED BY <1>2, <1>3 DEF SpawnFails

LEMMA SpawnRejectsType ==
  ASSUME TypeOK, SpawnRejects
  PROVE  TypeOK'
<1> DEFINE r == [rt EXCEPT !.startupTimer = 0]
           failed == [r EXCEPT !.state = "failed"]
<1>1. r \in Runtime /\ spawn \in Spawns
  BY TimersType DEF TypeOK
<1> HIDE DEF r
<1>2. failed \in Runtime
  BY <1>1, StateType DEF States
<1>3. [r EXCEPT !.state = StoppedState(r)] \in Runtime
  BY <1>1, StateType, StoppedStateType
<1> HIDE DEF failed
<1>4. rt' \in Runtime
  BY <1>2, <1>3, ScheduleRestartType, RejectType DEF SpawnRejects, failed, r
<1>5. pty' \in Hosts
  <2>1. spawn.generation \in Nat /\ pty \in Hosts
    BY DEF TypeOK, Spawns
  <2>2. CASE SpawnFails(spawn.generation)
    BY <2>1, <2>2, SpawnFailsType
  <2>3. CASE pty' = [pty EXCEPT !.unwinding = @ \cup {spawn.generation}]
    BY <2>1, <2>3 DEF Hosts
  <2> QED BY <2>2, <2>3 DEF SpawnRejects
<1>6. spawn' \in Spawns
  BY DEF SpawnRejects, NoSpawn, Spawns
<1> QED BY <1>4, <1>5, <1>6 DEF SpawnRejects, TypeOK, storeVars, worldVars, Hosts

LEMMA TrackedType ==
  ASSUME TypeOK, NEW r \in Runtime
  PROVE  Tracked(r) \in Runtime
<1>1. spawn.generation \in Nat
  BY DEF TypeOK, Spawns
<1> QED BY <1>1, Zenon DEF Tracked, Runtime

LEMMA AliveType ==
  ASSUME TypeOK, NEW g \in Nat
  PROVE  [pty EXCEPT !.alive = @ \cup {g}] \in Hosts
BY DEF TypeOK, Hosts

LEMMA SpawnResolvesLateType ==
  ASSUME TypeOK, SpawnResolvesLate
  PROVE  TypeOK'
<1>1. rt \in Runtime /\ spawn \in Spawns /\ spawn.generation \in Nat
  BY DEF TypeOK, Spawns
<1>2. rt' \in Runtime
  BY <1>1, TrackedType, StoppingType DEF SpawnResolvesLate
<1>3. pty' \in Hosts
  BY <1>1, AliveType DEF SpawnResolvesLate
<1>4. kill' \in Kills
  BY <1>1, StartKillType DEF SpawnResolvesLate
<1>5. spawn' \in Spawns
  BY <1>1 DEF SpawnResolvesLate, Spawns
<1> QED BY <1>2, <1>3, <1>4, <1>5
        DEF SpawnResolvesLate, TypeOK, storeVars, worldVars, Hosts

LEMMA SpawnResolvesType ==
  ASSUME TypeOK, SpawnResolves
  PROVE  TypeOK'
<1> DEFINE t == Tracked(rt)
           r == [t EXCEPT !.sessionUsable = TRUE,
                          !.cleanupIndeterminate = FALSE,
                          !.attentionReason = "none"]
<1>1. t \in Runtime /\ spawn.generation \in Nat /\ kill \in Kills
  BY TrackedType DEF TypeOK, Spawns
<1> HIDE DEF t
<1>2. r \in Runtime
  BY <1>1, Zenon DEF Runtime, Reasons
<1> HIDE DEF r
<1>3. rt' \in Runtime /\ kill' \in Kills
  BY <1>1, <1>2, CleanupFailedStartType DEF SpawnResolves, r, t
<1>4. pty' \in Hosts
  BY <1>1, AliveType DEF SpawnResolves
<1>5. spawn' \in Spawns
  BY DEF SpawnResolves, NoSpawn, Spawns
<1> QED BY <1>3, <1>4, <1>5
        DEF SpawnResolves, TypeOK, storeVars, worldVars, Hosts

LEMMA PromoteReadyType ==
  ASSUME TypeOK, NEW r \in Runtime, PromoteReady(r)
  PROVE  rt' \in Runtime /\ marker' \in Markers /\ indeterminate' \in BOOLEAN
<1> DEFINE freed == IF r.completedBeforeExit THEN ClearAttachedTask(r) ELSE r
           untimed == [freed EXCEPT !.startupTimer = 0]
           warned == Attention(r, "marker_cleanup_failed")
           parked == [warned EXCEPT !.startupTimer = 0]
<1>1. freed \in Runtime /\ warned \in Runtime
  BY ClearType, AttentionType DEF Reasons
<1> HIDE DEF freed, warned
<1>2. untimed \in Runtime /\ parked \in Runtime
  BY <1>1, TimersType
<1> HIDE DEF untimed, parked
<1>3. /\ ResolveReadiness(BecomeReady(untimed)) \in Runtime
      /\ RejectReadiness(parked) \in Runtime
  BY <1>2, BecomeReadyType, RejectType
<1>4. CASE r.completedBeforeExit /\ HasTask(r)
  <2>1. PICK o \in ClearOutcomes(marker, indeterminate, CompletedMarkerMatches(r)) :
          /\ StoreBecomes(o)
          /\ rt' = IF o.ok THEN ResolveReadiness(BecomeReady(untimed))
                           ELSE RejectReadiness(parked)
    BY <1>4, Zenon DEF PromoteReady, freed, untimed, warned, parked
  <2>2. o \in Outcomes
    BY ClearOutcomesType DEF TypeOK
  <2> QED BY <1>3, <2>1, <2>2, StoreType
<1>5. CASE ~(r.completedBeforeExit /\ HasTask(r))
  <2>1. /\ rt' = ResolveReadiness(BecomeReady(untimed))
        /\ UNCHANGED storeVars
    BY <1>5, Zenon DEF PromoteReady, freed, untimed
  <2> QED BY <1>3, <2>1 DEF TypeOK, storeVars
<1> QED BY <1>4, <1>5

LEMMA SamplesType ==
  ASSUME NEW r \in Runtime, NEW n \in Nat, NEW k \in Nat
  PROVE  /\ [r EXCEPT !.idleConfirmationCount = n] \in Runtime
         /\ [r EXCEPT !.idleConfirmationCount = n, !.readySamples = k] \in Runtime
BY Zenon DEF Runtime

LEMMA OutputWhileStartingType ==
  ASSUME TypeOK, OutputWhileStarting
  PROVE  TypeOK'
<1>1. rt \in Runtime /\ rt.readySamples \in Nat
  BY DEF TypeOK, Runtime
<1>2. PICK readySample \in BOOLEAN :
        \E r : /\ r = [rt EXCEPT !.idleConfirmationCount = 0,
                                 !.readySamples = IF readySample THEN rt.readySamples + 1 ELSE 0]
               /\ (rt' = r /\ UNCHANGED storeVars) \/ PromoteReady(r)
  BY Zenon DEF OutputWhileStarting
<1>3. PICK r : /\ r = [rt EXCEPT !.idleConfirmationCount = 0,
                                 !.readySamples = IF readySample THEN rt.readySamples + 1 ELSE 0]
               /\ (rt' = r /\ UNCHANGED storeVars) \/ PromoteReady(r)
  BY <1>2
<1>4. r \in Runtime
  <2> DEFINE k == IF readySample THEN rt.readySamples + 1 ELSE 0
  <2>1. k \in Nat
    BY <1>1
  <2>2. r = [rt EXCEPT !.idleConfirmationCount = 0, !.readySamples = k]
    BY <1>3
  <2> HIDE DEF k
  <2> QED BY <1>1, <2>1, <2>2, SamplesType
<1>5. rt' \in Runtime /\ marker' \in Markers /\ indeterminate' \in BOOLEAN
  BY <1>3, <1>4, PromoteReadyType DEF TypeOK, storeVars
<1> QED BY <1>5 DEF OutputWhileStarting, TypeOK, hostVars, worldVars

LEMMA OutputWhileDrainingType ==
  ASSUME TypeOK, OutputWhileDraining
  PROVE  TypeOK'
<1>1. rt \in Runtime /\ rt.idleConfirmationCount \in Nat
  BY DEF TypeOK, Runtime
<1> DEFINE count == rt.idleConfirmationCount
           n(idleSample) == IF ~idleSample THEN 0
                            ELSE IF count < IdleConfirmSamples THEN count + 1
                            ELSE count
<1>2. PICK idleSample \in BOOLEAN :
        rt' = [rt EXCEPT !.idleConfirmationCount = n(idleSample)]
  BY Zenon DEF OutputWhileDraining
<1>3. n(idleSample) \in Nat
  BY <1>1
<1> HIDE DEF n
<1>4. rt' \in Runtime
  BY <1>1, <1>2, <1>3, SamplesType
<1> QED BY <1>4 DEF OutputWhileDraining, TypeOK, hostVars, storeVars, worldVars

LEMMA OutputElsewhereType ==
  ASSUME TypeOK, OutputElsewhere
  PROVE  TypeOK'
<1>1. rt' \in Runtime
  BY SamplesType DEF TypeOK, OutputElsewhere
<1> QED BY <1>1 DEF OutputElsewhere, TypeOK, hostVars, storeVars, worldVars

LEMMA OutputHandlerFailsType ==
  ASSUME TypeOK, OutputHandlerFails
  PROVE  TypeOK'
<1> DEFINE r == [rt EXCEPT !.startupTimer = 0]
<1>1. r \in Runtime /\ Attention(rt, "output_failed") \in Runtime
  BY TimersType, AttentionType DEF TypeOK, Reasons
<1>2. \/ CleanupFailedStart(r)
      \/ rt' = Attention(rt, "output_failed") /\ UNCHANGED kill
  BY DEF OutputHandlerFails
<1> HIDE DEF r
<1>3. rt' \in Runtime /\ kill' \in Kills
  BY <1>1, <1>2, CleanupFailedStartType DEF TypeOK
<1> QED BY <1>3 DEF OutputHandlerFails, TypeOK, storeVars, worldVars

LEMMA PtyExitsType ==
  ASSUME TypeOK, PtyExits
  PROVE  TypeOK'
<1> DEFINE stopping == Stopping(rt)
<1>1. stopping \in Runtime /\ rt \in Runtime
  BY StoppingType DEF TypeOK
<1>2. PICK disposeFails \in BOOLEAN :
        /\ rt' = [stopping EXCEPT !.startupTimer = 0, !.stabilityTimer = FALSE,
                                  !.cleanupLedger = rt.cleanupLedger \/ disposeFails]
        /\ StartKill("exit", rt, disposeFails)
  BY Zenon DEF PtyExits
<1> HIDE DEF stopping
<1>3. rt' \in Runtime
  <2>1. (rt.cleanupLedger \/ disposeFails) \in BOOLEAN
    OBVIOUS
  <2>2. 0 \in Nat
    OBVIOUS
  <2>3. ASSUME NEW b \in BOOLEAN
        PROVE  [stopping EXCEPT !.startupTimer = 0, !.stabilityTimer = FALSE,
                                !.cleanupLedger = b] \in Runtime
    BY <1>1, <2>2, Zenon DEF Runtime
  <2> QED BY <1>2, <2>1, <2>3
<1>4. kill' \in Kills
  BY <1>1, <1>2, StartKillType
<1> QED BY <1>3, <1>4 DEF PtyExits, TypeOK, storeVars, worldVars

LEMMA ExitFinishedType ==
  ASSUME TypeOK
  PROVE  ExitFinished \in Runtime
<1> DEFINE disposed == DisposeSession(rt)
<1>1. rt \in Runtime /\ disposed \in Runtime /\ kill.previous \in States
  BY DisposeType DEF TypeOK, Kills
<1> HIDE DEF disposed
<1>2. /\ MarkCleanupIndeterminate(disposed) \in Runtime
      /\ AfterExit(disposed, kill.previous) \in Runtime
  BY <1>1, IndeterminateType, AfterExitType
<1> QED BY <1>1, <1>2, Zenon DEF ExitFinished, disposed

LEMMA FailedStartFinishedType ==
  ASSUME TypeOK
  PROVE  FailedStartFinished \in Runtime
<1> DEFINE failed == [DisposeSession(rt) EXCEPT !.state = "failed"]
<1>1. rt \in Runtime /\ failed \in Runtime
  BY DisposeType, StateType DEF TypeOK, States
<1> HIDE DEF failed
<1>2. ScheduleRestart(failed) \in Runtime /\ RejectReadiness(failed) \in Runtime
  BY <1>1, ScheduleRestartType, RejectType
<1> QED BY <1>1, <1>2, Zenon DEF FailedStartFinished, failed

LEMMA LateSpawnFinishedType ==
  ASSUME TypeOK
  PROVE  LateSpawnFinished \in Runtime
<1> DEFINE gone == DisposeSession(rt)
           stopped == [gone EXCEPT !.state = StoppedState(gone)]
<1>1. gone \in Runtime
  BY DisposeType DEF TypeOK
<1> HIDE DEF gone
<1>2. stopped \in Runtime
  BY <1>1, StateType, StoppedStateType
<1> HIDE DEF stopped
<1>3. ScheduleRestart(gone) \in Runtime /\ RejectReadiness(stopped) \in Runtime
  BY <1>1, <1>2, ScheduleRestartType, RejectType
<1> QED BY <1>3, Zenon DEF LateSpawnFinished, gone, stopped

\* The continuations of a kill leave no kill behind.
LEMMA SettledKillType ==
  ASSUME TypeOK
  PROVE  /\ NoKill \in Kills
         /\ [NoKill EXCEPT !.phase = "failed"] \in Kills
         /\ (IF spawn.phase = "lateKill" THEN NoSpawn ELSE spawn) \in Spawns
         /\ [shutdown EXCEPT !.awaitsKill = FALSE] \in Shutdowns
<1>1. NoKill \in Kills /\ [NoKill EXCEPT !.phase = "failed"] \in Kills
  BY DEF NoKill, Kills, States
<1>2. (IF spawn.phase = "lateKill" THEN NoSpawn ELSE spawn) \in Spawns
  BY DEF TypeOK, NoSpawn, Spawns
<1>3. [shutdown EXCEPT !.awaitsKill = FALSE] \in Shutdowns
  BY DEF TypeOK, Shutdowns
<1> QED BY <1>1, <1>2, <1>3

LEMMA KillFulfilledType ==
  ASSUME TypeOK, KillFulfilled
  PROVE  TypeOK'
<1>1. rt' \in Runtime
  <2>1. rt \in Runtime
    BY DEF TypeOK
  <2>2. \/ rt' = ExitFinished
        \/ rt' = FailedStartFinished
        \/ rt' = LateSpawnFinished
        \/ \E disposeFails \in BOOLEAN : rt' = FinishStop(rt, disposeFails)
        \/ rt' = rt
    <3>1. FALSE \in BOOLEAN
      OBVIOUS
    <3> QED BY <3>1, Zenon DEF KillFulfilled
  <2> QED BY <2>1, <2>2, ExitFinishedType, FailedStartFinishedType,
             LateSpawnFinishedType, FinishStopType
<1>2. pty' \in Hosts
  BY DEF TypeOK, Hosts, KillFulfilled
<1>3. spawn' \in Spawns /\ kill' \in Kills /\ shutdown' \in Shutdowns
  BY SettledKillType DEF KillFulfilled
<1> QED BY <1>1, <1>2, <1>3
        DEF KillFulfilled, TypeOK, storeVars, worldVars, Hosts, Shutdowns

LEMMA KillRejectedType ==
  ASSUME TypeOK, KillRejected
  PROVE  TypeOK'
<1> DEFINE recorded == RecordKillFailure(rt)
           parked == IF KillIsCurrent \/ kill.waiter = "lateSpawn"
                     THEN MarkCleanupIndeterminate(recorded) ELSE recorded
<1>1. recorded \in Runtime
  <2>1. rt \in Runtime /\ (rt.cleanupLedger \/ kill.phase = "pending") \in BOOLEAN
    BY DEF TypeOK
  <2> QED BY <2>1, LedgerType DEF RecordKillFailure
<1>2. parked \in Runtime
  BY <1>1, IndeterminateType
<1>3. rt' = IF kill.waiter \in {"exit", "failedStart", "lateSpawn"}
            THEN RejectReadiness(parked) ELSE parked
  BY Zenon DEF KillRejected
<1> HIDE DEF parked
<1>4. rt' \in Runtime
  BY <1>2, <1>3, RejectType
<1>5. spawn' \in Spawns /\ kill' \in Kills /\ shutdown' \in Shutdowns
  BY SettledKillType DEF KillRejected
<1> QED BY <1>4, <1>5 DEF KillRejected, TypeOK, storeVars, worldVars, Shutdowns

LEMMA RestartTimerFiresType ==
  ASSUME TypeOK, RestartTimerFires
  PROVE  TypeOK'
<1> DEFINE r == [rt EXCEPT !.restartTimer = FALSE]
<1>1. r \in Runtime
  BY Zenon DEF TypeOK, Runtime
<1>2. \/ rt' = RejectReadiness(r) /\ UNCHANGED spawn
      \/ SpawnAttempt(r, TRUE)
  BY DEF RestartTimerFires
<1> HIDE DEF r
<1>3. rt' \in Runtime /\ spawn' \in Spawns
  BY <1>1, <1>2, RejectType, SpawnAttemptType DEF TypeOK
<1> QED BY <1>3 DEF RestartTimerFires, TypeOK, storeVars, worldVars

LEMMA StabilityTimerFiresType ==
  ASSUME TypeOK, StabilityTimerFires
  PROVE  TypeOK'
<1>1. 0 \in 0 .. MaxAttempts /\ rt \in Runtime
  BY ConstantsAssumption DEF TypeOK
<1>2. /\ [rt EXCEPT !.stabilityTimer = FALSE] \in Runtime
      /\ [rt EXCEPT !.stabilityTimer = FALSE, !.restartAttempts = 0,
                    !.restartBudgetExhausted = FALSE] \in Runtime
  BY <1>1, Zenon DEF Runtime
<1>3. rt' \in Runtime
  BY <1>2, Zenon DEF StabilityTimerFires
<1> QED BY <1>3 DEF StabilityTimerFires, TypeOK, hostVars, storeVars, worldVars

LEMMA CancelType ==
  ASSUME TypeOK, Cancel
  PROVE  TypeOK'
<1>1. rt \in Runtime /\ rt.generation + 1 \in Nat /\ kill \in Kills
  BY DEF TypeOK, Runtime
<1>2. ASSUME CancelPendingKillless
      PROVE  rt' \in Runtime /\ kill' \in Kills
  <2>1. ASSUME NEW g \in Nat PROVE [rt EXCEPT !.generation = g] \in Runtime
    BY <1>1, Zenon DEF Runtime
  <2> QED BY <1>1, <1>2, <2>1 DEF CancelPendingKillless
<1>3. ASSUME CancelStarting
      PROVE  rt' \in Runtime /\ kill' \in Kills
  <2> DEFINE g == rt.generation + 1
             r == [rt EXCEPT !.stabilityTimer = FALSE, !.restartTimer = FALSE,
                             !.generation = g]
  <2>1. rt' = RejectReadiness(Stopping(r)) /\ UNCHANGED kill
    BY <1>3 DEF CancelStarting
  <2>2. g \in Nat
    BY <1>1
  <2> HIDE DEF g
  <2>3. r \in Runtime
    BY <1>1, <2>2, Zenon DEF Runtime
  <2> HIDE DEF r
  <2> QED BY <1>1, <2>1, <2>3, StoppingType, RejectType
<1> DEFINE idle == [rt EXCEPT !.stabilityTimer = FALSE, !.restartTimer = FALSE]
<1>4. idle \in Runtime
  BY <1>1, Zenon DEF Runtime
<1>5. ASSUME CancelRestart
      PROVE  rt' \in Runtime /\ kill' \in Kills
  <2>1. rt' = [RejectReadiness(idle) EXCEPT !.state = StoppedState(rt)]
        /\ UNCHANGED kill
    BY <1>5 DEF CancelRestart
  <2> HIDE DEF idle
  <2> QED BY <1>1, <1>4, <2>1, RejectType, StateType, StoppedStateType
<1>6. ASSUME CancelSession
      PROVE  rt' \in Runtime /\ kill' \in Kills
  <2>1. rt' = Stopping(idle) /\ StartKill("stop", rt, FALSE)
    BY <1>6 DEF CancelSession
  <2> HIDE DEF idle
  <2> QED BY <1>1, <1>4, <2>1, StoppingType, StartKillType
<1>7. rt' \in Runtime /\ kill' \in Kills
  BY <1>2, <1>3, <1>5, <1>6 DEF Cancel
<1> QED BY <1>7 DEF Cancel, TypeOK, storeVars, worldVars

LEMMA DispatchedType ==
  ASSUME TypeOK, NEW m \in Messages
  PROVE  DispatchedRuntime(m) \in Runtime
<1>1. /\ rt \in Runtime /\ rt.generation \in Nat /\ 0 \in Nat
      /\ m \in MessageId
  BY DEF TypeOK, Runtime, MessageId
<1> QED BY <1>1, Zenon DEF DispatchedRuntime, Runtime, States, Reasons

LEMMA InputReachedType ==
  ASSUME TypeOK, NEW m \in Messages, InputReached(m) \/ UNCHANGED writes
  PROVE  writes' \in [Messages -> Nat]
BY DEF TypeOK, InputReached, CountInputs

LEMMA AcceptedType ==
  ASSUME TypeOK, NEW m \in Messages
  PROVE  AcceptOutcomes(m) \subseteq Outcomes
<1>1. /\ rt.generation \in Nat /\ marker \in Markers /\ indeterminate \in BOOLEAN
      /\ m \in MessageId /\ "accepted" \in Phases /\ 0 \in Nat
  BY DEF TypeOK, Runtime, MessageId, Phases
<1>2. TaskMarker(m, rt.generation, "accepted", 0) \in Markers
  BY <1>1, TaskMarkerType
<1> QED BY <1>1, <1>2, SaveType DEF AcceptOutcomes

LEMMA WriteSucceedsType ==
  ASSUME TypeOK, NEW m \in Messages, NEW accepted \in Outcomes,
         WriteSucceeds(m, accepted)
  PROVE  /\ rt' \in Runtime
         /\ marker' \in Markers /\ indeterminate' \in BOOLEAN
<1> DEFINE dispatched == DispatchedRuntime(m)
           sent == [dispatched EXCEPT !.controllerInputPending = FALSE]
           written == TaskMarker(m, rt.generation, "written", 0)
<1>1. dispatched \in Runtime
  BY DispatchedType
<1>2. PICK o \in SaveOutcomes(accepted.marker, accepted.stuck, written) :
        /\ StoreBecomes(o)
        /\ rt' = IF o.ok THEN sent ELSE Attention(sent, "marker_persist_failed")
  BY DEF WriteSucceeds
<1> HIDE DEF dispatched
<1>3. sent \in Runtime
  BY <1>1, Zenon DEF Runtime
<1> HIDE DEF sent
<1>4. o \in Outcomes
  <2>1. written \in Markers
    BY TaskMarkerType DEF TypeOK, Runtime, MessageId, Phases
  <2> HIDE DEF written
  <2>2. accepted.marker \in Markers /\ accepted.stuck \in BOOLEAN
    BY DEF Outcomes
  <2> QED BY <1>2, <2>1, <2>2, SaveType
<1>5. Attention(sent, "marker_persist_failed") \in Runtime
  BY <1>3, AttentionType DEF Reasons
<1> QED BY <1>2, <1>3, <1>4, <1>5, StoreType

LEMMA DispatchType ==
  ASSUME TypeOK, NEW m \in Messages, Dispatch(m)
  PROVE  TypeOK'
<1>1. rt \in Runtime
  BY DEF TypeOK
<1>2. PICK accepted \in AcceptOutcomes(m) :
       \/ /\ StoreBecomes(accepted)
          /\ rt' = Attention(rt, "marker_persist_failed")
          /\ UNCHANGED writes
       \/ StoreBecomes(accepted) /\ WriteThrows(m)
       \/ WriteSucceeds(m, accepted)
  BY Zenon DEF Dispatch
<1>3. accepted \in Outcomes
  BY AcceptedType
<1>4. writes' \in [Messages -> Nat]
  <2>1. InputReached(m) \/ UNCHANGED writes
    BY <1>2, Zenon DEF WriteThrows, WriteSucceeds
  <2> QED BY <2>1, InputReachedType
<1>5. rt' \in Runtime /\ marker' \in Markers /\ indeterminate' \in BOOLEAN
  <2>1. CASE StoreBecomes(accepted) /\ rt' = Attention(rt, "marker_persist_failed")
    BY <1>1, <1>3, <2>1, AttentionType, StoreType DEF Reasons
  <2>2. CASE StoreBecomes(accepted) /\ WriteThrows(m)
    BY <1>3, <2>2, DispatchedType, AttentionType, StoreType DEF WriteThrows, Reasons
  <2>3. CASE WriteSucceeds(m, accepted)
    BY <1>3, <2>3, WriteSucceedsType
  <2> QED BY <1>2, <2>1, <2>2, <2>3
<1> QED BY <1>4, <1>5 DEF Dispatch, TypeOK, hostVars

LEMMA AcknowledgedType ==
  ASSUME NEW r \in Runtime, NEW n \in Nat, NEW o
  PROVE  Acknowledged(r, n, o) \in Runtime
<1> DEFINE armed == ArmCompletionGate(ReceiptApplied(r, n), n)
<1>1. armed \in Runtime
  BY ReceiptAppliedType, ArmGateType
<1> HIDE DEF armed
<1>2. [armed EXCEPT !.state = "draining"] \in Runtime
  BY <1>1, StateType DEF States
<1>3. Attention(r, "completion_persist_failed") \in Runtime
  BY AttentionType DEF Reasons
<1> QED BY <1>2, <1>3 DEF Acknowledged, armed

LEMMA AcknowledgeCompletionType ==
  ASSUME TypeOK, NEW m \in Messages, AcknowledgeCompletion(m)
  PROVE  TypeOK'
<1>1. /\ rt \in Runtime /\ receipt[m] \in Nat
      /\ marker \in Markers /\ indeterminate \in BOOLEAN
  BY DEF TypeOK
<1>2. PICK o \in PersistOutcomes(marker, indeterminate, rt, receipt[m]) :
        StoreBecomes(o) /\ rt' = Acknowledged(rt, receipt[m], o)
  BY DEF AcknowledgeCompletion
<1>3. o \in Outcomes
  BY <1>1, <1>2, PersistType
<1>4. rt' \in Runtime /\ marker' \in Markers /\ indeterminate' \in BOOLEAN
  BY <1>1, <1>2, <1>3, AcknowledgedType, StoreType
<1> QED BY <1>4 DEF AcknowledgeCompletion, TypeOK, hostVars, worldVars

LEMMA ReconciledType ==
  ASSUME NEW r \in Runtime, NEW n \in Nat, NEW o
  PROVE  Reconciled(r, n, o) \in Runtime
<1> DEFINE applied == ReceiptApplied(r, n)
           armed == ArmCompletionGate(applied, n)
<1>1. applied \in Runtime /\ armed \in Runtime
  BY ReceiptAppliedType, ArmGateType
<1>2. ScheduleRestart(applied) \in Runtime
  BY <1>1, ScheduleRestartType
<1> HIDE DEF applied, armed
<1>3. [r EXCEPT !.attentionReason = "completion_persist_failed"] \in Runtime
  BY Zenon DEF Runtime, Reasons
<1>4. [armed EXCEPT !.state = "draining", !.attentionReason = "none"] \in Runtime
  BY <1>1, Zenon DEF Runtime, States, Reasons
<1> QED BY <1>1, <1>2, <1>3, <1>4, Zenon DEF Reconciled, applied, armed

LEMMA ReconcileMarkerType ==
  ASSUME TypeOK, NEW m \in Messages, ReconcileMarker(m)
  PROVE  TypeOK'
<1>1. /\ rt \in Runtime /\ receipt[m] \in Nat
      /\ marker \in Markers /\ indeterminate \in BOOLEAN
  BY DEF TypeOK
<1>2. PICK o \in PersistOutcomes(marker, indeterminate, rt, receipt[m]) :
        /\ StoreBecomes(o)
        /\ rt' = Reconciled(rt, receipt[m], o)
        /\ cancelled' = (cancelled /\ ~ReconcileAccepts(rt, o))
  BY DEF ReconcileMarker
<1>3. o \in Outcomes
  BY <1>1, <1>2, PersistType
<1>4. rt' \in Runtime /\ marker' \in Markers /\ indeterminate' \in BOOLEAN
  BY <1>1, <1>2, <1>3, ReconciledType, StoreType
<1>5. cancelled' \in BOOLEAN
  BY <1>2
<1> QED BY <1>4, <1>5 DEF ReconcileMarker, TypeOK, hostVars, worldVars

LEMMA AcknowledgeStableIdleType ==
  ASSUME TypeOK, AcknowledgeStableIdle
  PROVE  TypeOK'
<1>1. rt \in Runtime /\ marker \in Markers /\ indeterminate \in BOOLEAN
  BY DEF TypeOK
<1>2. PICK o \in ClearOutcomes(marker, indeterminate, CompletedMarkerMatches(rt)) :
        /\ StoreBecomes(o)
        /\ rt' = IF o.ok THEN BecomeReady(ClearAttachedTask(rt))
                 ELSE Attention(rt, "marker_cleanup_failed")
  BY DEF AcknowledgeStableIdle
<1>3. o \in Outcomes
  BY <1>1, <1>2, ClearOutcomesType
<1>4. rt' \in Runtime
  BY <1>1, <1>2, ClearType, BecomeReadyType, AttentionType DEF Reasons
<1> QED BY <1>2, <1>3, <1>4, StoreType
        DEF AcknowledgeStableIdle, TypeOK, hostVars, worldVars

LEMMA AuditDeadlinesType ==
  ASSUME TypeOK, AuditDeadlines
  PROVE  TypeOK'
<1>1. rt' \in Runtime
  BY AttentionType DEF TypeOK, AuditDeadlines, Reasons
<1> QED BY <1>1 DEF AuditDeadlines, TypeOK, hostVars, storeVars, worldVars

LEMMA StopAllType ==
  ASSUME TypeOK, NEW c \in ShutdownCallers, StopAll(c)
  PROVE  TypeOK'
<1> DEFINE halted == [rt EXCEPT !.restartTimer = FALSE, !.startupTimer = 0,
                                !.stabilityTimer = FALSE, !.shuttingDown = TRUE]
           quiet == RejectReadiness(halted)
<1>1. halted \in Runtime
  <2>1. rt \in Runtime /\ 0 \in Nat
    BY DEF TypeOK
  <2> QED BY <2>1, Zenon DEF Runtime
<1>2. rt' \in { Stopping(quiet), [quiet EXCEPT !.state = "attention_required"],
                quiet, [quiet EXCEPT !.state = "stopped"] }
  BY Zenon DEF StopAll
<1> HIDE DEF halted
<1>3. quiet \in Runtime
  BY <1>1, RejectType
<1> HIDE DEF quiet
<1>4. rt' \in Runtime
  BY <1>2, <1>3, StoppingType, StateType DEF States
<1>5. kill' \in Kills
  <2>1. kill \in Kills /\ rt.generation \in Nat
    BY DEF TypeOK, Runtime
  <2>2. ASSUME NEW p \in {"none", "pending", "failed"}, NEW g \in Nat
        PROVE  [kill EXCEPT !.phase = p, !.generation = g] \in Kills
    BY <2>1 DEF Kills
  <2>3. kill.phase \in {"none", "pending", "failed"}
    BY <2>1 DEF Kills
  <2> DEFINE p == IF kill.phase = "none" THEN "pending" ELSE kill.phase
  <2>4. \/ kill' = kill
        \/ kill' = [kill EXCEPT !.phase = p, !.generation = rt.generation]
    BY Zenon DEF StopAll
  <2>5. p \in {"none", "pending", "failed"}
    BY <2>3
  <2> HIDE DEF p
  <2> QED BY <2>1, <2>2, <2>4, <2>5
<1>6. shutdown' \in Shutdowns
  <2>1. (shutdown.awaitsKill \/ rt.session # 0) \in BOOLEAN
    OBVIOUS
  <2>2. shutdown.call \in [ShutdownCallers -> {"none", "pending", "clean", "failed"}]
    BY DEF TypeOK, Shutdowns
  <2>3. [shutdown.call EXCEPT ![c] = "pending"]
          \in [ShutdownCallers -> {"none", "pending", "clean", "failed"}]
    BY <2>2
  <2> QED BY <2>1, <2>3 DEF StopAll, Shutdowns
<1> QED BY <1>4, <1>5, <1>6 DEF StopAll, TypeOK, storeVars, worldVars, Shutdowns

LEMMA ShutdownSettlesType ==
  ASSUME TypeOK, NEW c \in ShutdownCallers, ShutdownSettles(c)
  PROVE  TypeOK'
<1>1. rt' \in Runtime
  BY LedgerType DEF TypeOK, ShutdownSettles
<1>2. shutdown' \in Shutdowns
  <2>1. ASSUME NEW result \in {"failed", "clean"}
        PROVE  [shutdown EXCEPT !.call[c] = result] \in Shutdowns
    BY DEF TypeOK, Shutdowns
  <2> QED BY <2>1 DEF ShutdownSettles
<1>3. pty' \in Hosts
  BY DEF TypeOK, ShutdownSettles, Hosts
<1> QED BY <1>1, <1>2, <1>3
        DEF ShutdownSettles, TypeOK, storeVars, worldVars, Hosts, Shutdowns

LEMMA OrphanSettlesType ==
  ASSUME TypeOK, NEW g \in pty.unwinding, OrphanSettles(g)
  PROVE  TypeOK'
<1>1. pty \in Hosts /\ g \in Nat
  BY DEF TypeOK, Hosts
<1>2. pty' \in Hosts
  <2>1. CASE SpawnFails(g)
    BY <1>1, <2>1, SpawnFailsType
  <2>2. CASE UnwindFails(g)
    BY <1>1, <2>2 DEF UnwindFails, Hosts
  <2> QED BY <2>1, <2>2 DEF OrphanSettles
<1> QED BY <1>2 DEF OrphanSettles, TypeOK, storeVars, worldVars, Hosts

\* The sequence of the next receipt is positive.
LEMMA NextSequenceType == NextSequence \in Nat \ {0}
<1> DEFINE committed == {m \in Messages : receipt[m] # 0}
<1>1. IsFiniteSet(committed)
  BY ConstantsAssumption, FS_Subset
<1>2. Cardinality(committed) \in Nat
  BY <1>1, FS_CardinalityType
<1> QED BY <1>2 DEF NextSequence

LEMMA CompleteType ==
  ASSUME TypeOK, NEW m \in Messages, Complete(m)
  PROVE  TypeOK'
<1>1. receipt' \in [Messages -> Nat]
  BY NextSequenceType DEF TypeOK, Complete
<1> QED BY <1>1 DEF Complete, TypeOK, hostVars, storeVars

LEMMA DiesType ==
  ASSUME TypeOK, Dies
  PROVE  /\ rt' \in Runtime /\ spawn' \in Spawns /\ kill' \in Kills
         /\ pty' \in Hosts /\ shutdown' \in Shutdowns
         /\ indeterminate' \in BOOLEAN /\ cancelled' \in BOOLEAN
         /\ process' \in [up : BOOLEAN, boots : Nat]
<1>1. rt' \in Runtime
  BY CreateRuntimeType, NoMarkerType DEF Dies
<1>2. kill' \in Kills
  BY SettledKillType DEF Dies
<1>3. spawn' \in Spawns
  BY DEF Dies, NoSpawn, Spawns
<1>4. pty' \in Hosts /\ shutdown' \in Shutdowns
  BY DEF Dies, NoPty, Hosts, NoShutdown, Shutdowns
<1>5. process' \in [up : BOOLEAN, boots : Nat]
  BY DEF TypeOK, Dies
<1> QED BY <1>1, <1>2, <1>3, <1>4, <1>5 DEF Dies

LEMMA CrashType ==
  ASSUME TypeOK, Crash
  PROVE  TypeOK'
<1>1. Dies /\ UNCHANGED <<marker, worldVars>>
  BY DEF Crash
<1> QED BY <1>1, DiesType DEF TypeOK, worldVars, Hosts, Shutdowns

LEMMA CrashDuringDispatchType ==
  ASSUME TypeOK, NEW m \in Messages, CrashDuringDispatch(m)
  PROVE  TypeOK'
<1>1. PICK moment \in DispatchMoments(m) :
        /\ marker' = moment.marker
        /\ CountInputs(m, moment.reached)
  BY DEF CrashDuringDispatch
<1>2. moment.marker \in Markers /\ moment.reached \in Nat
  <2>1. /\ TaskMarker(m, rt.generation, "accepted", 0) \in Markers
        /\ TaskMarker(m, rt.generation, "written", 0) \in Markers
    BY TaskMarkerType DEF TypeOK, Runtime, MessageId, Phases
  <2> QED BY <2>1, NoMarkerType DEF DispatchMoments, Moment
<1>3. marker' \in Markers /\ writes' \in [Messages -> Nat]
  BY <1>1, <1>2 DEF TypeOK, CountInputs
<1>4. Dies /\ UNCHANGED receipt
  BY DEF CrashDuringDispatch
<1> QED BY <1>3, <1>4, DiesType DEF TypeOK, Hosts, Shutdowns

LEMMA BootType ==
  ASSUME TypeOK, Boot
  PROVE  TypeOK'
<1>1. rt' \in Runtime
  BY CreateRuntimeType DEF TypeOK, Boot
<1>2. process' \in [up : BOOLEAN, boots : Nat]
  BY DEF TypeOK, Boot
<1> QED BY <1>1, <1>2 DEF Boot, TypeOK, hostVars, storeVars, worldVars

-----------------------------------------------------------------------------
(* The theorem. *)

LEMMA InitType == Init => TypeOK
<1> SUFFICES ASSUME Init PROVE TypeOK
  OBVIOUS
<1>1. rt \in Runtime /\ marker \in Markers
  BY CreateRuntimeType, NoMarkerType DEF Init
<1>2. spawn \in Spawns
  BY DEF Init, NoSpawn, Spawns
<1>3. kill \in Kills
  BY DEF Init, NoKill, Kills, States
<1> QED BY <1>1, <1>2, <1>3 DEF Init, TypeOK, NoPty, Hosts, NoShutdown, Shutdowns

LEMMA NextType == TypeOK /\ [Next]_vars => TypeOK'
<1> SUFFICES ASSUME TypeOK, [Next]_vars PROVE TypeOK'
  OBVIOUS
<1>1. ASSUME HostNext PROVE TypeOK'
  <2>1. BeginShutdown \/ PreflightRollback \/ RouterRollback =>
          \E c \in ShutdownCallers : StopAll(c)
    BY DEF BeginShutdown, PreflightRollback, RouterRollback, ShutdownCallers
  <2>2. CASE \E g \in pty.unwinding : OrphanSettles(g)
    BY <2>2, OrphanSettlesType
  <2>3. CASE \E m \in Messages : Dispatch(m) \/ Complete(m) \/ CrashDuringDispatch(m)
    BY <2>3, DispatchType, CompleteType, CrashDuringDispatchType
  <2>4. CASE \E c \in ShutdownCallers : StopAll(c)
    BY <2>4, StopAllType
  <2>5. CASE \E c \in ShutdownCallers : ShutdownSettles(c)
    BY <2>5, ShutdownSettlesType
  <2> QED
    BY <1>1, <2>1, <2>2, <2>3, <2>4, <2>5, Zenon, EnsureReadyType,
       PreflightPassesType, StartupTimerFiresType, SpawnRejectsType,
       SpawnResolvesLateType, SpawnResolvesType, OutputWhileStartingType,
       OutputWhileDrainingType, OutputElsewhereType, OutputHandlerFailsType,
       PtyExitsType, KillFulfilledType, KillRejectedType,
       RestartTimerFiresType, StabilityTimerFiresType, CancelType,
       CrashType, BootType
       DEF HostNext
<1>2. ASSUME PumpNext PROVE TypeOK'
  BY <1>2, AcknowledgeCompletionType, ReconcileMarkerType,
     AcknowledgeStableIdleType, AuditDeadlinesType DEF PumpNext
<1>3. ASSUME UNCHANGED vars PROVE TypeOK'
  BY <1>3 DEF vars, TypeOK
<1> QED BY <1>1, <1>2, <1>3 DEF Next

\* Every reachable state is well typed, for any finite set of messages and
\* any policy: no handler of the manager writes a value of the wrong kind,
\* and the restart counter never leaves the naturals.
THEOREM TypeCorrect == Spec => []TypeOK
<1>1. Init => TypeOK
  BY InitType
<1>2. TypeOK /\ [Next]_vars => TypeOK'
  BY NextType
<1> QED BY <1>1, <1>2, PTL DEF Spec

=============================================================================
