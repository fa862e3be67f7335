----------------------- MODULE AttachedSessionProofs -----------------------
(***************************************************************************)
(* What the durable marker guarantees, for any finite set of messages, any *)
(* policy and any number of crashes and reboots: no task is typed again    *)
(* before it is completed, unfinished work stays on record, a completed    *)
(* marker tells the truth, and the terminal implements TaskSlot.           *)
(*                                                                         *)
(* The argument needs the marker, the receipts and the writes only.  Every *)
(* step of the terminal is one of five kinds as far as these are concerned *)
(* (MarkerStep); what the handlers do to the runtime record in the         *)
(* meantime does not matter, because no handler trusts it where the marker *)
(* on disk can be asked.                                                   *)
(***************************************************************************)
EXTENDS AttachedSessionTypes

-----------------------------------------------------------------------------
(* The kinds of steps. *)

Nothing == UNCHANGED <<marker, receipt, writes>>

Counted(m) == receipt[m] = 0 /\ writes' = [writes EXCEPT ![m] = @ + 1]

\* A dispatch of m, or a crash inside it, found no marker and left one.  The
\* input counts only while m has no receipt.
TakesFor(m) ==
  /\ marker.phase = "none"
  /\ \/ marker'.phase = "corrupt"
     \/ marker'.phase \in {"accepted", "written"} /\ marker'.messageId = m
  /\ UNCHANGED writes \/ Counted(m)
  /\ UNCHANGED receipt

\* The receipt of m was persisted, or the attempt spoilt the file.
Persists(m) ==
  /\ receipt[m] # 0 /\ marker.messageId = m
  /\ marker.phase \notin {"none", "corrupt"}
  /\ \/ marker'.phase = "corrupt"
     \/ /\ marker'.phase = "completed" /\ marker'.messageId = m
        /\ marker'.receiptSequence = receipt[m]
  /\ UNCHANGED <<receipt, writes>>

\* A completed marker was removed.
Releases ==
  /\ marker.phase = "completed" /\ marker' = NoMarker
  /\ rt'.state \in {"ready", "attention_required"}
  /\ UNCHANGED <<receipt, writes>>

\* The server committed the completion of m.
Commits(m) ==
  /\ writes[m] > 0 /\ receipt[m] = 0
  /\ \E n \in Nat \ {0} : receipt' = [receipt EXCEPT ![m] = n]
  /\ UNCHANGED <<marker, writes>>

MarkerStep ==
  \/ Nothing
  \/ \E m \in Messages : TakesFor(m) \/ Persists(m) \/ Commits(m)
  \/ Releases

-----------------------------------------------------------------------------
(* Every step of the terminal is of one of these kinds. *)

\* save() of an accepted marker succeeds on an empty slot only, and changes
\* nothing on one that is taken.
LEMMA AcceptKinds ==
  ASSUME TypeOK, NEW m \in Messages, NEW o \in AcceptOutcomes(m)
  PROVE  /\ o.marker = marker \/ marker.phase = "none"
         /\ \/ o.marker = marker
            \/ o.marker.phase = "corrupt"
            \/ o.marker.phase = "accepted" /\ o.marker.messageId = m
         /\ o.ok => /\ marker.phase = "none"
                    /\ o.marker.phase = "accepted" /\ o.marker.messageId = m
<1> DEFINE new == TaskMarker(m, rt.generation, "accepted", 0)
<1>1. new.phase = "accepted" /\ new.messageId = m
  BY DEF TaskMarker
<1>2. CorruptMarker.phase = "corrupt"
  BY DEF CorruptMarker, NoMarker
<1> HIDE DEF new
<1>3. \/ o = Outcome(FALSE, marker, indeterminate)
      \/ /\ MaySave(marker, new)
         /\ \/ o = Outcome(TRUE, new, FALSE)
            \/ \E d \in {marker, new, CorruptMarker}, b \in BOOLEAN :
                 o = Outcome(FALSE, d, b)
  BY DEF AcceptOutcomes, SaveOutcomes, new
<1>4. MaySave(marker, new) => marker.phase = "none"
  BY <1>1 DEF MaySave
<1> QED BY <1>1, <1>2, <1>3, <1>4 DEF Outcome

LEMMA DispatchKind ==
  ASSUME TypeOK, NEW m \in Messages, Dispatch(m)
  PROVE  Nothing \/ TakesFor(m)
<1>1. UNCHANGED receipt
  BY DEF Dispatch
<1>2. PICK accepted \in AcceptOutcomes(m) :
       \/ StoreBecomes(accepted) /\ UNCHANGED writes
       \/ accepted.ok /\ StoreBecomes(accepted) /\ WriteThrows(m)
       \/ accepted.ok /\ WriteSucceeds(m, accepted)
  BY Zenon DEF Dispatch
<1>3. CASE StoreBecomes(accepted) /\ UNCHANGED writes
  BY <1>1, <1>3, AcceptKinds DEF StoreBecomes, Nothing, TakesFor
<1>4. CASE accepted.ok /\ StoreBecomes(accepted) /\ WriteThrows(m)
  <2>1. UNCHANGED writes \/ Counted(m)
    BY <1>4, Zenon DEF WriteThrows, InputReached, CountInputs, Counted
  <2>2. marker'.phase = "accepted" /\ marker'.messageId = m /\ marker.phase = "none"
    BY <1>4, AcceptKinds DEF StoreBecomes
  <2> QED BY <1>1, <2>1, <2>2 DEF TakesFor
<1>5. CASE accepted.ok /\ WriteSucceeds(m, accepted)
  <2> DEFINE written == TaskMarker(m, rt.generation, "written", 0)
  <2>1. UNCHANGED writes \/ Counted(m)
    BY <1>5, Zenon DEF WriteSucceeds, InputReached, CountInputs, Counted
  <2>2. PICK o \in SaveOutcomes(accepted.marker, accepted.stuck, written) :
          marker' = o.marker
    BY <1>5, Zenon DEF WriteSucceeds, StoreBecomes
  <2>3. /\ accepted.marker.phase = "accepted" /\ accepted.marker.messageId = m
        /\ marker.phase = "none"
    BY <1>5, AcceptKinds
  <2>4. written.phase = "written" /\ written.messageId = m
    BY DEF TaskMarker
  <2>5. CorruptMarker.phase = "corrupt"
    BY DEF CorruptMarker, NoMarker
  <2> HIDE DEF written
  <2>6. o.marker \in {accepted.marker, written, CorruptMarker}
    BY DEF SaveOutcomes, Outcome
  <2> QED BY <1>1, <2>1, <2>2, <2>3, <2>4, <2>5, <2>6 DEF TakesFor
<1> QED BY <1>2, <1>3, <1>4, <1>5

LEMMA CrashDuringDispatchKind ==
  ASSUME TypeOK, NEW m \in Messages, CrashDuringDispatch(m)
  PROVE  TakesFor(m)
<1>1. PICK moment \in DispatchMoments(m) :
        /\ marker' = moment.marker
        /\ CountInputs(m, moment.reached)
  BY DEF CrashDuringDispatch
<1>2. moment.reached \in {0, 1}
  BY DEF DispatchMoments, Moment
<1>3. \/ marker'.phase = "corrupt"
      \/ marker'.phase \in {"accepted", "written"} /\ marker'.messageId = m
  BY <1>1 DEF DispatchMoments, Moment, TaskMarker, CorruptMarker, NoMarker
<1>4. UNCHANGED writes \/ Counted(m)
  <2>1. writes \in [Messages -> Nat] /\ writes[m] \in Nat
    BY DEF TypeOK
  <2>2. CASE moment.reached = 0
    <3>1. writes[m] + moment.reached = writes[m]
      BY <2>1, <2>2
    <3>2. writes' = writes \/ writes' = [writes EXCEPT ![m] = writes[m]]
      BY <1>1, <3>1, Zenon DEF CountInputs
    <3> QED BY <2>1, <3>2
  <2>3. CASE moment.reached = 1
    BY <1>1, <2>3 DEF CountInputs, Counted
  <2> QED BY <1>2, <2>2, <2>3
<1>5. marker.phase = "none" /\ UNCHANGED receipt
  BY DEF CrashDuringDispatch
<1> QED BY <1>3, <1>4, <1>5 DEF TakesFor

\* persistCompletionReceipt for the receipt of m by the terminal that holds m.
LEMMA PersistKinds ==
  ASSUME TypeOK, NEW m \in Messages, rt.messageId = m, receipt[m] # 0,
         NEW o \in PersistOutcomes(marker, indeterminate, rt, receipt[m]),
         StoreBecomes(o), UNCHANGED <<receipt, writes>>
  PROVE  Nothing \/ Persists(m)
<1> DEFINE new == TaskMarker(marker.messageId, marker.generation, "completed",
                             receipt[m])
<1>1. /\ new.phase = "completed" /\ new.messageId = marker.messageId
      /\ new.receiptSequence = receipt[m]
  BY DEF TaskMarker
<1>2. CorruptMarker.phase = "corrupt"
  BY DEF CorruptMarker, NoMarker
<1> HIDE DEF new
<1>3. \/ o.marker = marker
      \/ /\ Loadable(marker, indeterminate) /\ marker.phase # "none"
         /\ marker.messageId = m
         /\ o.marker \in {new, CorruptMarker}
  BY DEF PersistOutcomes, SaveOutcomes, Outcome, new
<1> QED BY <1>1, <1>2, <1>3 DEF StoreBecomes, Nothing, Persists, Loadable

LEMMA AcknowledgeCompletionKind ==
  ASSUME TypeOK, NEW m \in Messages, AcknowledgeCompletion(m)
  PROVE  Nothing \/ Persists(m)
BY PersistKinds
   DEF AcknowledgeCompletion, CanAcknowledge, IsCurrentReceipt, worldVars

LEMMA ReconcileMarkerKind ==
  ASSUME TypeOK, NEW m \in Messages, ReconcileMarker(m)
  PROVE  Nothing \/ Persists(m)
BY PersistKinds DEF ReconcileMarker, CanReconcile, IsCurrentReceipt, worldVars

\* clear() under the check of both release paths.
LEMMA ClearKinds ==
  ASSUME NEW r, NEW o \in ClearOutcomes(marker, indeterminate,
                                        CompletedMarkerMatches(r))
  PROVE  o.marker = marker \/ (marker.phase = "completed" /\ o.marker = NoMarker)
BY DEF ClearOutcomes, Outcome, CompletedMarkerMatches

\* The state of a terminal that was just promoted, settled or parked.
LEMMA StateIs ==
  ASSUME NEW r \in Runtime
  PROVE  /\ BecomeReady(r).state = "ready"
         /\ \A reason : Attention(r, reason).state = "attention_required"
         /\ RejectReadiness(r).state = r.state
         /\ ResolveReadiness(r).state = r.state
         /\ [r EXCEPT !.startupTimer = 0].state = r.state
BY DEF BecomeReady, Attention, RejectReadiness, ResolveReadiness,
       SettleReadiness, Runtime

LEMMA PromoteReadyKind ==
  ASSUME TypeOK, NEW r \in Runtime, PromoteReady(r), UNCHANGED <<receipt, writes>>
  PROVE  Nothing \/ Releases
<1> DEFINE cleared == ClearAttachedTask(r)
           untimed == [cleared EXCEPT !.startupTimer = 0]
           ready == BecomeReady(untimed)
           warned == Attention(r, "marker_cleanup_failed")
           parked == [warned EXCEPT !.startupTimer = 0]
<1>1. CASE r.completedBeforeExit /\ HasTask(r)
  <2>1. PICK o \in ClearOutcomes(marker, indeterminate, CompletedMarkerMatches(r)) :
          /\ marker' = o.marker
          /\ rt' = IF o.ok THEN ResolveReadiness(ready) ELSE RejectReadiness(parked)
    BY <1>1, Zenon DEF PromoteReady, StoreBecomes
  <2>2. cleared \in Runtime /\ warned \in Runtime
        /\ warned.state = "attention_required"
    BY ClearType, AttentionType, StateIs DEF Reasons
  <2> HIDE DEF cleared, warned
  <2>3. untimed \in Runtime /\ parked \in Runtime
        /\ parked.state = "attention_required"
    BY <2>2, TimersType, StateIs
  <2> HIDE DEF untimed, parked
  <2>4. ready \in Runtime /\ ready.state = "ready"
    BY <2>3, BecomeReadyType, StateIs
  <2> HIDE DEF ready
  <2>5. rt'.state \in {"ready", "attention_required"}
    BY <2>1, <2>3, <2>4, StateIs
  <2> QED BY <2>1, <2>5, ClearKinds DEF Nothing, Releases
<1>2. CASE ~(r.completedBeforeExit /\ HasTask(r))
  <2>1. UNCHANGED marker
    BY <1>2, Zenon DEF PromoteReady, storeVars
  <2> QED BY <2>1 DEF Nothing
<1> QED BY <1>1, <1>2

LEMMA OutputWhileStartingKind ==
  ASSUME TypeOK, OutputWhileStarting
  PROVE  Nothing \/ Releases
<1>1. rt \in Runtime /\ rt.readySamples \in Nat
  BY DEF TypeOK, Runtime
<1>2. UNCHANGED <<receipt, writes>>
  BY DEF OutputWhileStarting, worldVars
<1> DEFINE k(readySample) == IF readySample THEN rt.readySamples + 1 ELSE 0
           r(readySample) == [rt EXCEPT !.idleConfirmationCount = 0,
                                        !.readySamples = k(readySample)]
<1>3. PICK readySample \in BOOLEAN : UNCHANGED storeVars \/ PromoteReady(r(readySample))
  BY Zenon DEF OutputWhileStarting
<1>4. k(readySample) \in Nat
  BY <1>1
<1> HIDE DEF k
<1>5. r(readySample) \in Runtime
  BY <1>1, <1>4, SamplesType
<1> HIDE DEF r
<1> QED BY <1>2, <1>3, <1>5, PromoteReadyKind DEF storeVars, Nothing

LEMMA AcknowledgeStableIdleKind ==
  ASSUME TypeOK, AcknowledgeStableIdle
  PROVE  Nothing \/ Releases
<1>1. PICK o \in ClearOutcomes(marker, indeterminate, CompletedMarkerMatches(rt)) :
        /\ marker' = o.marker
        /\ rt' = IF o.ok THEN BecomeReady(ClearAttachedTask(rt))
                 ELSE Attention(rt, "marker_cleanup_failed")
  BY DEF AcknowledgeStableIdle, StoreBecomes
<1>2. rt \in Runtime /\ ClearAttachedTask(rt) \in Runtime
  BY ClearType DEF TypeOK
<1>3. rt'.state \in {"ready", "attention_required"}
  BY <1>1, <1>2, StateIs
<1>4. UNCHANGED <<receipt, writes>>
  BY DEF AcknowledgeStableIdle, worldVars
<1> QED BY <1>1, <1>3, <1>4, ClearKinds DEF Nothing, Releases

LEMMA CompleteKind ==
  ASSUME NEW m \in Messages, Complete(m)
  PROVE  Commits(m)
BY NextSequenceType DEF Complete, Commits, storeVars

\* The handlers that leave the marker alone.
LEMMA QuietSteps ==
  EnsureReady \/ PreflightPasses \/ StartupTimerFires
    \/ SpawnRejects \/ SpawnResolvesLate
    \/ SpawnResolves \/ OutputWhileDraining \/ OutputElsewhere
    \/ OutputHandlerFails \/ PtyExits \/ KillFulfilled \/ KillRejected
    \/ RestartTimerFires \/ StabilityTimerFires \/ Cancel \/ BeginShutdown
    \/ PreflightRollback \/ RouterRollback
    \/ (\E c \in ShutdownCallers : ShutdownSettles(c))
    \/ (\E g \in pty.unwinding : OrphanSettles(g))
    \/ Crash \/ Boot \/ AuditDeadlines
  => Nothing
BY Zenon DEF EnsureReady, PreflightPasses, StartupTimerFires, SpawnRejects, SpawnResolvesLate,
       SpawnResolves, OutputWhileDraining, OutputElsewhere,
       OutputHandlerFails, PtyExits, KillFulfilled, KillRejected,
       RestartTimerFires, StabilityTimerFires, Cancel, BeginShutdown,
       PreflightRollback, RouterRollback, StopAll, ShutdownSettles, OrphanSettles, Crash, Boot,
       AuditDeadlines, Nothing, storeVars, worldVars

LEMMA NextIsMarkerStep ==
  ASSUME TypeOK, [Next]_vars
  PROVE  MarkerStep
<1>1. CASE OutputWhileStarting \/ AcknowledgeStableIdle
  BY <1>1, OutputWhileStartingKind, AcknowledgeStableIdleKind DEF MarkerStep
<1>2. CASE \E m \in Messages : Dispatch(m) \/ CrashDuringDispatch(m)
  BY <1>2, DispatchKind, CrashDuringDispatchKind DEF MarkerStep
<1>3. CASE \E m \in Messages : AcknowledgeCompletion(m) \/ ReconcileMarker(m)
  BY <1>3, AcknowledgeCompletionKind, ReconcileMarkerKind DEF MarkerStep
<1>4. CASE \E m \in Messages : Complete(m)
  BY <1>4, CompleteKind DEF MarkerStep
<1>5. CASE Nothing
  BY <1>5 DEF MarkerStep
<1>6. UNCHANGED vars => Nothing
  BY DEF vars, Nothing
<1> QED BY <1>1, <1>2, <1>3, <1>4, <1>5, <1>6, QuietSteps, Zenon
        DEF Next, HostNext, PumpNext

-----------------------------------------------------------------------------
(* The inductive invariant.  UnfinishedIsOnRecord is what makes            *)
(* UnfinishedIsWrittenOnce inductive: a task that was written and has no   *)
(* receipt is on record, where it blocks the accepted marker of a second   *)
(* dispatch.  CompletedIsReceipted is what makes UnfinishedIsOnRecord      *)
(* inductive: only completed markers are removed.                          *)

\* A readable marker names a task, and no marker names none.
MarkerHasOwner ==
  /\ marker.phase = "none" => marker.messageId = NoMessage
  /\ marker.phase \notin {"none", "corrupt"} => marker.messageId \in Messages

MarkerInv ==
  /\ TypeOK
  /\ MarkerHasOwner
  /\ UnfinishedIsWrittenOnce
  /\ UnfinishedIsOnRecord
  /\ CompletedIsReceipted

LEMMA MarkerInvInit == Init => MarkerInv
<1> SUFFICES ASSUME Init PROVE MarkerInv
  OBVIOUS
<1>1. TypeOK
  BY InitType
<1>2. marker = NoMarker /\ writes = [m \in Messages |-> 0]
  BY DEF Init
<1>3. marker.phase = "none" /\ marker.messageId = NoMessage
  BY <1>2 DEF NoMarker
<1>4. \A m \in Messages : writes[m] = 0
  BY <1>2
<1> QED BY <1>1, <1>3, <1>4
        DEF MarkerInv, MarkerHasOwner, UnfinishedIsWrittenOnce, UnfinishedIsOnRecord,
            CompletedIsReceipted

\* An unfinished task that a dispatch takes the slot for was never written.
LEMMA TakenIsUnwritten ==
  ASSUME MarkerInv, NEW m \in Messages, TakesFor(m), receipt[m] = 0
  PROVE  writes[m] = 0
<1>1. marker.messageId # m /\ marker.phase # "corrupt"
  BY ConstantsAssumption DEF MarkerInv, MarkerHasOwner, TakesFor
<1>2. ~(writes[m] > 0)
  BY <1>1 DEF MarkerInv, UnfinishedIsOnRecord, TakesFor
<1> QED BY <1>2 DEF MarkerInv, TypeOK

LEMMA TakesKeepsInv ==
  ASSUME MarkerInv, TypeOK', NEW m \in Messages, TakesFor(m)
  PROVE  MarkerInv'
<1>1. /\ receipt[m] = 0 => writes[m] = 0
      /\ writes \in [Messages -> Nat]
  BY TakenIsUnwritten DEF MarkerInv, TypeOK
<1>2. \A k \in Messages : writes'[k] = IF k = m THEN writes'[m] ELSE writes[k]
  BY <1>1 DEF TakesFor, Counted
<1>3. writes'[m] = writes[m] \/ writes'[m] = 1
  BY <1>1 DEF TakesFor, Counted
<1>4. MarkerHasOwner'
  BY DEF TakesFor, MarkerHasOwner
<1>5. UnfinishedIsWrittenOnce'
  BY <1>2, <1>3 DEF MarkerInv, UnfinishedIsWrittenOnce
<1>6. UnfinishedIsOnRecord'
  <2> SUFFICES ASSUME NEW k \in Messages, writes'[k] > 0, receipt'[k] = 0
               PROVE  marker'.phase = "corrupt" \/ marker'.messageId = k
    BY DEF UnfinishedIsOnRecord
  <2>1. CASE k = m
    BY <2>1 DEF TakesFor
  <2>2. CASE k # m
    <3>1. marker.phase = "corrupt" \/ marker.messageId = k
      BY <1>2, <2>2 DEF MarkerInv, UnfinishedIsOnRecord, TakesFor
    <3> QED BY <3>1, ConstantsAssumption DEF MarkerInv, MarkerHasOwner, TakesFor
  <2> QED BY <2>1, <2>2
<1>7. CompletedIsReceipted'
  BY DEF TakesFor, CompletedIsReceipted
<1> QED BY <1>4, <1>5, <1>6, <1>7 DEF MarkerInv

LEMMA PersistsKeepsInv ==
  ASSUME MarkerInv, TypeOK', NEW m \in Messages, Persists(m)
  PROVE  MarkerInv'
<1>1. MarkerHasOwner'
  BY DEF Persists, MarkerHasOwner
<1>2. UnfinishedIsWrittenOnce'
  BY DEF Persists, MarkerInv, UnfinishedIsWrittenOnce
<1>3. UnfinishedIsOnRecord'
  BY DEF Persists, MarkerInv, UnfinishedIsOnRecord
<1>4. CompletedIsReceipted'
  BY DEF Persists, CompletedIsReceipted
<1> QED BY <1>1, <1>2, <1>3, <1>4 DEF MarkerInv

LEMMA ReleasesKeepsInv ==
  ASSUME MarkerInv, TypeOK', Releases
  PROVE  MarkerInv'
<1>1. marker'.phase = "none" /\ marker'.messageId = NoMessage
  BY DEF Releases, NoMarker
<1>2. receipt[marker.messageId] # 0
  BY DEF MarkerInv, CompletedIsReceipted, Releases
<1>3. UnfinishedIsOnRecord'
  BY <1>2 DEF Releases, MarkerInv, UnfinishedIsOnRecord
<1>4. UnfinishedIsWrittenOnce'
  BY DEF Releases, MarkerInv, UnfinishedIsWrittenOnce
<1> QED BY <1>1, <1>3, <1>4 DEF MarkerInv, MarkerHasOwner, CompletedIsReceipted

LEMMA CommitsKeepsInv ==
  ASSUME MarkerInv, TypeOK', NEW m \in Messages, Commits(m)
  PROVE  MarkerInv'
<1>1. PICK n \in Nat \ {0} : receipt' = [receipt EXCEPT ![m] = n]
  BY DEF Commits
<1>2. \A k \in Messages : receipt'[k] = IF k = m THEN n ELSE receipt[k]
  BY <1>1 DEF MarkerInv, TypeOK
<1>3. UNCHANGED <<marker, writes>> /\ receipt[m] = 0
  BY DEF Commits
<1>4. MarkerHasOwner' /\ UnfinishedIsWrittenOnce'
  BY <1>3 DEF MarkerInv, MarkerHasOwner, UnfinishedIsWrittenOnce
<1>5. UnfinishedIsOnRecord'
  BY <1>2, <1>3 DEF MarkerInv, UnfinishedIsOnRecord
<1>6. CompletedIsReceipted'
  BY <1>2, <1>3 DEF MarkerInv, CompletedIsReceipted
<1> QED BY <1>4, <1>5, <1>6 DEF MarkerInv

LEMMA MarkerInvNext == MarkerInv /\ [Next]_vars => MarkerInv'
<1> SUFFICES ASSUME MarkerInv, [Next]_vars PROVE MarkerInv'
  OBVIOUS
<1>1. TypeOK' /\ MarkerStep
  BY NextType, NextIsMarkerStep DEF MarkerInv
<1>2. CASE Nothing
  BY <1>1, <1>2 DEF Nothing, MarkerInv, MarkerHasOwner, UnfinishedIsWrittenOnce,
                    UnfinishedIsOnRecord, CompletedIsReceipted
<1>3. CASE \E m \in Messages : TakesFor(m) \/ Persists(m) \/ Commits(m)
  BY <1>1, <1>3, TakesKeepsInv, PersistsKeepsInv, CommitsKeepsInv
<1>4. CASE Releases
  BY <1>1, <1>4, ReleasesKeepsInv
<1> QED BY <1>1, <1>2, <1>3, <1>4 DEF MarkerStep

LEMMA MarkerInvAlways == Spec => []MarkerInv
<1>1. Init => MarkerInv
  BY MarkerInvInit
<1>2. MarkerInv /\ [Next]_vars => MarkerInv'
  BY MarkerInvNext
<1> QED BY <1>1, <1>2, PTL DEF Spec

\* No task is typed into a PTY a second time before its completion is
\* committed, whatever fails (marker saves, PTY writes, kills, the process
\* itself) and however often it is rebooted.  Nothing is said of a completed
\* task: that one may be typed again.
THEOREM UnfinishedOnce == Spec => []UnfinishedIsWrittenOnce
<1>1. MarkerInv => UnfinishedIsWrittenOnce
  BY DEF MarkerInv
<1> QED BY <1>1, MarkerInvAlways, PTL

\* Work that reached a PTY and has no receipt never disappears from disk.
THEOREM NothingForgotten == Spec => []UnfinishedIsOnRecord
<1>1. MarkerInv => UnfinishedIsOnRecord
  BY DEF MarkerInv
<1> QED BY <1>1, MarkerInvAlways, PTL

\* A marker says completed only with the sequence the server committed.
THEOREM CompletedIsTrue == Spec => []CompletedIsReceipted
<1>1. MarkerInv => CompletedIsReceipted
  BY DEF MarkerInv
<1> QED BY <1>1, MarkerInvAlways, PTL

-----------------------------------------------------------------------------
(* Steps. *)

\* A marker is removed only when the server's receipt of its task is in it,
\* and by a terminal that becomes ready or is parked.
THEOREM ReleaseIsEarned == Spec => ReleaseNeedsReceipt
<1> DEFINE A == marker.phase # "none" /\ marker'.phase = "none" =>
                  /\ marker.phase = "completed"
                  /\ receipt[marker.messageId] = marker.receiptSequence
                  /\ rt'.state \in {"ready", "attention_required"}
<1>1. ASSUME MarkerInv, [Next]_vars PROVE [A]_vars
  <2>1. SUFFICES ASSUME marker.phase # "none", marker'.phase = "none" PROVE A
    OBVIOUS
  <2>2. MarkerStep
    BY <1>1, NextIsMarkerStep DEF MarkerInv
  <2>3. Releases
    BY <2>1, <2>2 DEF MarkerStep, Nothing, TakesFor, Persists, Commits
  <2>4. receipt[marker.messageId] = marker.receiptSequence
    BY <1>1, <2>3 DEF MarkerInv, CompletedIsReceipted, Releases
  <2> QED BY <2>3, <2>4 DEF Releases
<1> QED BY <1>1, MarkerInvAlways, PTL DEF Spec, ReleaseNeedsReceipt

-----------------------------------------------------------------------------
(* The terminal implements the slot: Take, Release, Finish and Seal are    *)
(* the marker steps under the refinement mapping of Slot.                  *)

TheSlot == IF marker.phase = "corrupt" THEN CorruptMarker ELSE marker.messageId
Finished == {m \in Messages : receipt[m] # 0}

LEMMA TakesRefines ==
  ASSUME MarkerInv, NEW m \in Messages, TakesFor(m)
  PROVE  Slot!Take(m)
<1>1. writes[m] = 0 \/ m \in Finished
  BY TakenIsUnwritten DEF Finished
<1>2. TheSlot = NoMessage
  BY DEF MarkerInv, MarkerHasOwner, TakesFor, TheSlot
<1>3. TheSlot' \in {m, CorruptMarker}
  BY DEF TakesFor, TheSlot, CorruptMarker, NoMarker
<1>4. \/ writes' = writes
      \/ m \notin Finished /\ writes' = [writes EXCEPT ![m] = 1]
  BY <1>1 DEF TakesFor, Counted, Finished
<1>5. Finished' = Finished
  BY DEF TakesFor, Finished
<1> QED BY <1>1, <1>2, <1>3, <1>4, <1>5 DEF Slot!Take, TheSlot, Finished

LEMMA PersistsRefines ==
  ASSUME MarkerInv, NEW m \in Messages, Persists(m)
  PROVE  Slot!Seal \/ UNCHANGED Slot!slotVars
<1>1. TheSlot = m
  BY DEF Persists, TheSlot
<1>2. TheSlot' \in {m, CorruptMarker}
  BY DEF Persists, TheSlot, CorruptMarker, NoMarker
<1>3. writes' = writes /\ Finished' = Finished
  BY DEF Persists, Finished
<1> QED BY <1>1, <1>2, <1>3 DEF Slot!Seal, Slot!slotVars, TheSlot, Finished

LEMMA ReleasesRefines ==
  ASSUME MarkerInv, Releases
  PROVE  \E m \in Messages : Slot!Release(m)
<1>1. marker.messageId \in Finished
  BY DEF MarkerInv, CompletedIsReceipted, Releases, Finished
<1>2. TheSlot = marker.messageId
  BY DEF Releases, TheSlot
<1>3. TheSlot' = NoMessage
  BY DEF Releases, TheSlot, NoMarker
<1>4. writes' = writes /\ Finished' = Finished
  BY DEF Releases, Finished
<1>5. Slot!Release(marker.messageId)
  BY <1>1, <1>2, <1>3, <1>4 DEF Slot!Release, TheSlot, Finished
<1> QED BY <1>1, <1>5 DEF Finished

LEMMA CommitsRefines ==
  ASSUME MarkerInv, NEW m \in Messages, Commits(m)
  PROVE  Slot!Finish(m)
<1>1. PICK n \in Nat \ {0} : receipt' = [receipt EXCEPT ![m] = n]
  BY DEF Commits
<1>2. writes[m] = 1
  BY DEF MarkerInv, TypeOK, UnfinishedIsWrittenOnce, Commits
<1>3. Finished' = Finished \cup {m} /\ m \notin Finished
  BY <1>1 DEF Commits, MarkerInv, TypeOK, Finished
<1>4. TheSlot' = TheSlot /\ writes' = writes
  BY DEF Commits, TheSlot
<1> QED BY <1>2, <1>3, <1>4 DEF Slot!Finish, TheSlot, Finished

\* Whatever its PTYs and its process do, the terminal behaves towards the
\* tasks as a slot: taken before delivery, no delivery repeated before the
\* task is finished, free again only when it is.
THEOREM RefinesTaskSlot == Spec => ImplementsTaskSlot
<1>1. Init => Slot!SlotInit
  <2> SUFFICES ASSUME Init PROVE Slot!SlotInit
    OBVIOUS
  <2>1. TheSlot = NoMessage
    BY DEF Init, NoMarker, TheSlot
  <2>2. Finished = {} /\ writes = [m \in Messages |-> 0]
    BY DEF Init, Finished
  <2> QED BY <2>1, <2>2 DEF Slot!SlotInit, TheSlot, Finished
<1>2. ASSUME MarkerInv, [Next]_vars PROVE [Slot!SlotNext]_(Slot!slotVars)
  <2>1. MarkerStep
    BY <1>2, NextIsMarkerStep DEF MarkerInv
  <2>2. CASE Nothing
    BY <2>2 DEF Nothing, Slot!slotVars
  <2>3. CASE \E m \in Messages : TakesFor(m) \/ Persists(m) \/ Commits(m)
    BY <1>2, <2>3, TakesRefines, PersistsRefines, CommitsRefines DEF Slot!SlotNext
  <2>4. CASE Releases
    BY <1>2, <2>4, ReleasesRefines DEF Slot!SlotNext
  <2> QED BY <2>1, <2>2, <2>3, <2>4 DEF MarkerStep
<1> QED BY <1>1, <1>2, MarkerInvAlways, PTL DEF Spec, ImplementsTaskSlot, Slot!Spec

=============================================================================
