--------------------------- MODULE AttachedRunner ---------------------------
(***************************************************************************)
(* The attached terminal together with the completion pump that feeds it   *)
(* the server's receipts (attachedCompletionPump.ts) and the durable       *)
(* cursor up to which they were delivered (completionCursorStore.ts).      *)
(*                                                                         *)
(* The pump awaits every page, and everything else goes on while it waits: *)
(* a page is what the server held when it answered, and the runtime it is  *)
(* delivered to is that of the moment it arrives.  The receipts of a page, *)
(* the cursor and the blocked test are one synchronous run.                *)
(***************************************************************************)
EXTENDS AttachedSession

CONSTANTS
  PageLimit,   \* the limit of fetchCompletionReceipts
  MaxPages     \* MAX_PAGES_PER_PUMP

ASSUME PumpAssumption == PageLimit \in Nat \ {0} /\ MaxPages \in Nat \ {0}

VARIABLES
  cursor,      \* completion-cursors.json: the last sequence delivered
  pump         \* the round in flight

sessionVars == vars
runnerVars == <<vars, cursor, pump>>

\* after is the pump's local copy of the cursor; page holds the messages
\* whose receipts the server answered with; more is its hasMore; stopped is
\* set by the handle's stop().
Pumps == [phase : {"idle", "fetching", "arrived", "idleProof", "audit"},
          after : Nat, pages : Nat, page : SUBSET Messages, more : BOOLEAN,
          stopped : BOOLEAN]

NoPump == [phase |-> "idle", after |-> 0, pages |-> 0, page |-> {},
           more |-> FALSE, stopped |-> FALSE]

RunnerTypeOK == TypeOK /\ cursor \in Nat /\ pump \in Pumps

RunnerInit == Init /\ cursor = 0 /\ pump = NoPump

-----------------------------------------------------------------------------
(* One round: the pages, then the idle proof, then the deadlines.          *)

PumpRuns(phase) == Up /\ pump.phase = phase

\* pumpReceipts up to its first request.
StartRound ==
  /\ PumpRuns("idle") /\ rt.preflight = "done" /\ ~pump.stopped
  /\ pump' = [NoPump EXCEPT !.phase = "fetching", !.after = cursor]
  /\ UNCHANGED <<sessionVars, cursor>>

\* The ingress stopper of main() stops the pump only when the poll loop has
\* drained, and not at all when that fails: rounds go on after a shutdown has
\* begun.  The round in flight is not interrupted either.
StopPump ==
  /\ Up /\ rt.shuttingDown /\ rt.preflight = "done" /\ ~pump.stopped
  /\ pump' = [pump EXCEPT !.stopped = TRUE]
  /\ UNCHANGED <<sessionVars, cursor>>

ReceiptsAfter(n) == {m \in Messages : receipt[m] > n}

\* The server reads one page: the oldest receipts after the cursor.
OldestReceipts(n) ==
  {m \in ReceiptsAfter(n) :
     Cardinality({k \in ReceiptsAfter(n) : receipt[k] < receipt[m]}) < PageLimit}

ServerAnswers ==
  /\ PumpRuns("fetching")
  /\ pump' = [pump EXCEPT !.phase = "arrived",
                          !.page = OldestReceipts(pump.after),
                          !.more = OldestReceipts(pump.after) # ReceiptsAfter(pump.after)]
  /\ UNCHANGED <<sessionVars, cursor>>

EndPages == [pump EXCEPT !.phase = "idleProof", !.page = {}, !.more = FALSE]

FetchFails ==
  /\ PumpRuns("fetching")
  /\ pump' = EndPages
  /\ UNCHANGED <<sessionVars, cursor>>

\* Mistake: the cursor is the sequence before the last delivered one.
UpToExclusive(S) ==
  (CHOOSE n \in {pump.after} \cup {receipt[m] : m \in S} :
     \A m \in S : receipt[m] <= n) - 1

\* The largest sequence among the receipts of S, and the cursor itself when
\* there is none.
UpTo(S) ==
  CHOOSE n \in {pump.after} \cup {receipt[m] : m \in S} :
    \A m \in S : receipt[m] <= n

Earlier(m) == {k \in pump.page : receipt[k] < receipt[m]}

\* Mistake: the cursor passes the receipt that could not be applied.
AcceptedRegardless(m, delivered) == UpTo(pump.page)

\* A receipt of the current task that is not applied blocks the cursor.
Accepted(m, delivered) == UpTo(IF delivered THEN pump.page ELSE Earlier(m))

\* What the manager makes of the one receipt of the page it may care about:
\* acknowledgeCompletion, and reconcileMarker when that answers false.
Delivery(r, o, ok) == [rt |-> r, o |-> o, ok |-> ok]

\* Mistakes: the pump does not try reconcileMarker at all, or
\* reconcileMarker does not look at the state of the terminal.
ReconcileNever(r, disk, stuck, m) == {Delivery(r, Outcome(FALSE, disk, stuck), FALSE)}

ReconcileAlways(r, disk, stuck, m) ==
  {Delivery(Reconciled(r, receipt[m], o), o, ReconcileAccepts(r, o)) :
     o \in PersistOutcomes(disk, stuck, r, receipt[m])}

ReconcileDelivery(r, disk, stuck, m) ==
  IF ~CanReconcile(r, m)
  THEN {Delivery(r, Outcome(FALSE, disk, stuck), FALSE)}
  ELSE {Delivery(Reconciled(r, receipt[m], o), o, ReconcileAccepts(r, o)) :
          o \in PersistOutcomes(disk, stuck, r, receipt[m])}

Deliveries(m) ==
  IF ~CanAcknowledge(rt, m)
  THEN ReconcileDelivery(rt, marker, indeterminate, m)
  ELSE UNION {LET r == Acknowledged(rt, receipt[m], o)
              IN IF o.ok THEN {Delivery(r, o, TRUE)}
                 ELSE ReconcileDelivery(r, o.marker, o.stuck, m) :
              o \in PersistOutcomes(marker, indeterminate, rt, receipt[m])}

\* The page is done: the cursor is saved once, and the pump goes on to the
\* next page unless it is blocked, at its limit, or the save fails.
CloseLastPage == pump' = EndPages

ClosePage(accepted, blocked) ==
  \/ /\ cursor' = accepted
     /\ pump' = IF blocked \/ ~pump.more \/ pump.pages + 1 = MaxPages
                THEN EndPages
                ELSE [pump EXCEPT !.phase = "fetching", !.after = accepted,
                                  !.pages = @ + 1, !.page = {}, !.more = FALSE]
  \/ accepted > pump.after /\ UNCHANGED cursor /\ CloseLastPage

\* Nothing in the page is the current task's: history, nobody owns it.
DeliverHistory ==
  /\ PumpRuns("arrived") /\ rt.messageId \notin pump.page
  /\ ClosePage(UpTo(pump.page), FALSE)
  /\ UNCHANGED sessionVars

\* The receipt of the current task is applied, or blocks the cursor.
DeliverCurrent(m) ==
  /\ PumpRuns("arrived") /\ m \in pump.page /\ rt.messageId = m
  /\ \E d \in Deliveries(m) :
       /\ rt' = d.rt
       /\ StoreBecomes(d.o)
       /\ cancelled' = (cancelled /\ ~d.ok)
       /\ ClosePage(Accepted(m, d.ok), ~d.ok)
  /\ UNCHANGED <<hostVars, shutdown, process, worldVars>>

\* acknowledgeIdle: a proof for a draining terminal, taken from a snapshot
\* of the same instant.  Whether it has settled long enough is left open.
OfferIdleProof ==
  /\ PumpRuns("idleProof")
  /\ pump' = [pump EXCEPT !.phase = "audit"]
  /\ AcknowledgeStableIdle \/ UNCHANGED sessionVars
  /\ UNCHANGED cursor

\* auditDeadlines, which ends the round.
EndRound ==
  /\ PumpRuns("audit")
  /\ pump' = [NoPump EXCEPT !.stopped = pump.stopped]
  /\ AuditDeadlines \/ UNCHANGED sessionVars
  /\ UNCHANGED cursor

PumpStep ==
  \/ StartRound \/ ServerAnswers \/ FetchFails \/ DeliverHistory
  \/ \E m \in Messages : DeliverCurrent(m)
  \/ OfferIdleProof \/ EndRound

\* The process takes the round with it.  A boot reads the cursor file, and
\* starts from 0 when it is missing or corrupt.
SessionStep ==
  /\ HostNext
  /\ pump' = IF process'.up THEN pump ELSE NoPump
  /\ cursor' = cursor \/ (~process.up /\ process'.up /\ cursor' = 0)

RunnerNext == SessionStep \/ PumpStep \/ StopPump

RunnerSpec == RunnerInit /\ [][RunnerNext]_runnerVars

-----------------------------------------------------------------------------
(* Safety. *)

\* Every step of terminal and pump together is a step of the terminal.
ImplementsSession == Init /\ [][Next]_sessionVars

-----------------------------------------------------------------------------
(* Fairness.  Of the runner: the handle starts round after round, the       *)
(* server answers, and neither the network nor the disk fails for ever.  Of *)
(* the terminal: timers fire, the PTY host answers within its hard          *)
(* deadlines, a settled promise runs its continuations, and a deadline that *)
(* every round audits passes some day.  Nothing is assumed of the agents,   *)
(* of the operator, or of the output and exit of a PTY.                     *)

DeliverySucceeds == \E m \in Messages : DeliverCurrent(m) /\ cursor' > cursor
HistorySucceeds == DeliverHistory /\ pump.page # {} /\ cursor' > cursor

OfTerminal(A) == A /\ UNCHANGED <<cursor, pump>>

RunnerFairness ==
  /\ WF_runnerVars(OfTerminal(EnsureReady \/ PreflightPasses))
  /\ WF_runnerVars(PumpStep) /\ SF_runnerVars(ServerAnswers)
  /\ SF_runnerVars(DeliverySucceeds) /\ SF_runnerVars(HistorySucceeds)

SpawnSettles == SpawnRejects \/ SpawnResolvesLate \/ SpawnResolves
KillSettles  == KillFulfilled \/ KillRejected

TerminalFairness ==
  /\ WF_runnerVars(OfTerminal(StartupTimerFires))
  /\ WF_runnerVars(OfTerminal(RestartTimerFires))
  /\ WF_runnerVars(OfTerminal(SpawnSettles))
  /\ WF_runnerVars(OfTerminal(KillSettles))
  /\ WF_runnerVars(OfTerminal(\E c \in ShutdownCallers : ShutdownSettles(c)))
  /\ WF_runnerVars(OfTerminal(\E g \in pty.unwinding : OrphanSettles(g)))
  /\ SF_runnerVars(EndRound /\ AuditDeadlines)

RunnerFairSpec == RunnerSpec /\ RunnerFairness /\ TerminalFairness

\* The park a boot leaves a terminal in, and that nobody has cancelled.
Parked(m) ==
  /\ Up /\ rt.state = "attention_required" /\ rt.attentionReason = "stale_marker"
  /\ rt.session = 0 /\ rt.messageId = m /\ ~cancelled

\* A terminal parked over a task from an earlier run is restarted once the
\* server has its receipt and the pump still has that receipt before it.
UndeliveredParkEnds ==
  \A m \in Messages :
    (Parked(m) /\ receipt[m] > cursor) ~>
      (~Up \/ rt.state # "attention_required" \/ rt.shuttingDown
           \/ marker.phase = "corrupt")

\* The README's promise without that condition: a terminal that boots parked
\* over an earlier task's marker, and has not tried to start since, is
\* reconciled from the server's receipt.
ParkedIsReconciled ==
  \A m \in Messages :
    (Parked(m) /\ rt.generation = 0 /\ receipt[m] # 0) ~>
      (~Up \/ rt.state # "attention_required" \/ rt.shuttingDown
           \/ marker.phase = "corrupt")

=============================================================================
