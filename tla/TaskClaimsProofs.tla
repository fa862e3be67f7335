---- MODULE TaskClaimsProofs ----
(* Theorems about the claim register, for any terminals, messages, islands and epics and
   any number of clients. *)
EXTENDS TaskClaims, TLAPS

(* --- rows ------------------------------------------------------------------------------ *)

(* What the two gates must agree on, for one row. *)
RowOK(row) ==
    /\ row.status = "working" <=> row.task # NoTask
    /\ row.island # NoIsland => row.task # NoTask

LEMMA FreshIsContext ==
    ASSUME NEW s \in {"none", "idle"}
    PROVE  /\ FreshContext(s) \in Contexts
           /\ FreshContext(s).task = NoTask
           /\ RowOK(FreshContext(s))
  BY DEF FreshContext, Contexts, Tasks, RowOK

(* An idle row of some epic, as a completion leaves it and as routing makes it. *)
LEMMA IdleRow ==
    ASSUME NEW e \in Epics \union {NoEpic}
    PROVE  /\ [FreshContext("idle") EXCEPT !.epic = e] \in Contexts
           /\ [FreshContext("idle") EXCEPT !.epic = e].task = NoTask
           /\ [FreshContext("idle") EXCEPT !.epic = e].island = NoIsland
           /\ [FreshContext("idle") EXCEPT !.epic = e].status = "idle"
           /\ RowOK([FreshContext("idle") EXCEPT !.epic = e])
  BY DEF FreshContext, Contexts, Tasks, RowOK

LEMMA ClaimedRowType ==
    ASSUME NEW row \in Contexts, NEW m \in Messages, NEW i \in Islands
    PROVE  ClaimedRow(row, m, i) \in Contexts /\ RowOK(ClaimedRow(row, m, i))
  <1>1. EpicOf[m] \in Epics \union {NoEpic}
    BY ClaimConstants
  <1>2. row.epic \in Epics \union {NoEpic}
    BY DEF Contexts
  <1> QED
    BY <1>1, <1>2, ClaimConstants DEF ClaimedRow, Contexts, Tasks, RowOK

(* The row of an operation that carries no island. *)
LEMMA WorkingRow ==
    ASSUME NEW m \in Messages
    PROVE  LET row == [task |-> m, island |-> NoIsland, epic |-> EpicOf[m],
                       status |-> "working"]
           IN  row \in Contexts /\ RowOK(row)
  <1>1. EpicOf[m] \in Epics \union {NoEpic}
    BY ClaimConstants
  <1> QED
    BY <1>1, ClaimConstants DEF Contexts, Tasks, RowOK

(* Routing only ever replaces a row that has no task by another that has none. *)
LEMMA RoutingIsQuiet ==
    ASSUME NEW row \in Contexts, NEW waiting \in SUBSET Messages,
           NEW new \in RoutedRows(row, waiting), RowOK(row)
    PROVE  /\ new \in Contexts /\ RowOK(new)
           /\ row.task # NoTask => new = row
           /\ row.task = NoTask => new.task = NoTask
  <1>1. CASE NextTasks(row, waiting) = {}
    BY <1>1 DEF RoutedRows
  <1>2. CASE NextTasks(row, waiting) # {}
    <2>1. row.status # "working" /\ row.task = NoTask
      BY <1>2 DEF NextTasks, RowOK
    <2>2. PICK m \in NextTasks(row, waiting) : new = Routed(row, m)
      BY <1>2 DEF RoutedRows
    <2>3. m \in Messages
      BY <2>1 DEF NextTasks
    <2>4. EpicOf[m] \in Epics \union {NoEpic}
      BY <2>3, ClaimConstants
    <2>5. CASE EpicOf[m] \notin {NoEpic, row.epic}
      <3>1. new = [FreshContext("idle") EXCEPT !.epic = EpicOf[m]]
        BY <2>2, <2>5 DEF Routed
      <3> QED
        BY <2>1, <2>4, <3>1, IdleRow
    <2>6. CASE EpicOf[m] \in {NoEpic, row.epic}
      BY <2>1, <2>2, <2>6 DEF Routed
    <2> QED
      BY <2>5, <2>6
  <1> QED
    BY <1>1, <1>2

(* --- requests ---------------------------------------------------------------------------- *)

LEMMA AnswerType ==
    ASSUME ClaimTypeOK, NEW r \in wire, NEW a \in {"ok", "refused"}, Answer(r, a)
    PROVE  /\ wire' \in SUBSET Requests
           /\ reply' \in [Callers -> {"none", "ok", "refused"}]
  BY DEF Answer, ClaimTypeOK

LEMMA SeenType ==
    ASSUME NEW r \in Requests
    PROVE  [r EXCEPT !.seen = TRUE] \in Requests
  BY DEF Requests

LEMMA SendType ==
    ASSUME ClaimTypeOK, NEW op, NEW m \in Messages, NEW i, NEW who \in Callers \union {Stray},
           \/ op \in {"claim", "release"} /\ i \in Islands
           \/ op = "ack" /\ i = NoIsland,
           Send(op, m, i, who)
    PROVE  wire' \in SUBSET Requests
  <1>1. Request(op, m, i, who) \in Requests
    BY DEF Request, Requests
  <1> QED
    BY <1>1 DEF Send, ClaimTypeOK

(* --- the register stays well-formed, and its two gates agree ------------------------------- *)

ClaimInv == ClaimTypeOK /\ \A t \in Terminals : RowOK(ctx[t])

LEMMA GatesAgreeByRow == GatesAgree <=> \A t \in Terminals : RowOK(ctx[t])
  BY DEF GatesAgree, RowOK, Scoped

LEMMA InitKeeps == ClaimInit => ClaimInv
  <1> SUFFICES ASSUME NEW rows \in [Terminals -> {"none", "idle"}],
                      NEW files \in [Messages -> {"absent", "UNREAD"}],
                      ClaimInitWith(rows, files)
               PROVE  ClaimInv
    BY DEF ClaimInit
  <1>1. \A t \in Terminals : FreshContext(rows[t]) \in Contexts /\ RowOK(FreshContext(rows[t]))
    <2> TAKE t \in Terminals
    <2>1. rows[t] \in {"none", "idle", "working"}
      OBVIOUS
    <2> QED
      BY <2>1, FreshIsContext
  <1> QED
    BY <1>1 DEF ClaimInitWith, ClaimInv, ClaimTypeOK

(* A step that leaves the receipts alone and puts a good row at one terminal. *)
LEMMA RowStep ==
    ASSUME ClaimInv, NEW t \in Terminals, NEW row \in Contexts, RowOK(row),
           ctx' = [ctx EXCEPT ![t] = row]
    PROVE  ctx' \in [Terminals -> Contexts] /\ \A u \in Terminals : RowOK(ctx'[u])
  BY DEF ClaimInv, ClaimTypeOK

LEMMA LoseKeeps ==
    ASSUME ClaimInv, NEW r \in wire, LoseRequest(r)
    PROVE  ClaimInv'
  BY AnswerType DEF LoseRequest, ClaimInv, ClaimTypeOK, RowOK, register

LEMMA ClaimReadsKeeps ==
    ASSUME ClaimInv, NEW r \in wire, ClaimReadsInbox(r)
    PROVE  ClaimInv'
  <1>1. r \in Requests
    BY DEF ClaimInv, ClaimTypeOK
  <1>2. [r EXCEPT !.seen = TRUE] \in Requests
    BY <1>1, SeenType
  <1> QED
    BY <1>2, AnswerType DEF ClaimReadsInbox, ClaimInv, ClaimTypeOK, RowOK, register

LEMMA AckChecksKeeps ==
    ASSUME ClaimInv, NEW r \in wire, AckChecksRow(r)
    PROVE  ClaimInv'
  <1>1. r \in Requests
    BY DEF ClaimInv, ClaimTypeOK
  <1>2. [r EXCEPT !.seen = TRUE] \in Requests
    BY <1>1, SeenType
  <1> QED
    BY <1>2, AnswerType DEF AckChecksRow, ClaimInv, ClaimTypeOK, RowOK, register

LEMMA AckMarksKeeps ==
    ASSUME ClaimInv, NEW r \in wire, AckMarksRead(r)
    PROVE  ClaimInv'
  BY AnswerType DEF AckMarksRead, ClaimInv, ClaimTypeOK, RowOK, register

LEMMA ClaimCommitsKeeps ==
    ASSUME ClaimInv, NEW r \in wire, ClaimCommits(r)
    PROVE  ClaimInv'
  <1> DEFINE t == TerminalOf[r.msg]
             result == ClaimResult(ctx[t], r.msg, r.island)
             row == ClaimedRow(ctx[t], r.msg, r.island)
  <1>1. r.msg \in Messages /\ r.island \in Islands
    BY DEF ClaimCommits, ClaimInv, ClaimTypeOK, Requests
  <1>2. t \in Terminals /\ ctx[t] \in Contexts
    BY <1>1, ClaimConstants DEF ClaimInv, ClaimTypeOK
  <1>3. row \in Contexts /\ RowOK(row)
    BY <1>1, <1>2, ClaimedRowType
  <1>4. /\ wire' \in SUBSET Requests
        /\ reply' \in [Callers -> {"none", "ok", "refused"}]
    <2>1. Answer(r, IF result \in {"claimed", "idempotent"} THEN "ok" ELSE "refused")
      BY DEF ClaimCommits
    <2> QED
      BY <2>1, AnswerType DEF ClaimInv
  <1>5. ctx' \in [Terminals -> Contexts] /\ \A u \in Terminals : RowOK(ctx'[u])
    <2>1. CASE result = "claimed"
      <3>1. ctx' = [ctx EXCEPT ![t] = row]
        BY <2>1 DEF ClaimCommits
      <3> QED
        BY <1>2, <1>3, <3>1, RowStep
    <2>2. CASE result # "claimed"
      BY <2>2 DEF ClaimCommits, ClaimInv, ClaimTypeOK
    <2> QED
      BY <2>1, <2>2
  <1> QED
    BY <1>4, <1>5 DEF ClaimCommits, ClaimInv, ClaimTypeOK

LEMMA ReleasedRow ==
    ASSUME NEW row \in Contexts
    PROVE  LET new == [row EXCEPT !.task = NoTask, !.island = NoIsland, !.status = "idle"]
           IN  new \in Contexts /\ RowOK(new) /\ new.task = NoTask
  BY Zenon DEF Contexts, Tasks, RowOK

LEMMA ReleaseKeeps ==
    ASSUME ClaimInv, NEW r \in wire, ReleaseClaim(r)
    PROVE  ClaimInv'
  <1> DEFINE t == TerminalOf[r.msg]
             row == [ctx[t] EXCEPT !.task = NoTask, !.island = NoIsland, !.status = "idle"]
  <1>1. r.msg \in Messages
    BY DEF ClaimInv, ClaimTypeOK, Requests
  <1>2. t \in Terminals /\ ctx[t] \in Contexts
    BY <1>1, ClaimConstants DEF ClaimInv, ClaimTypeOK
  <1>3. row \in Contexts /\ RowOK(row)
    BY <1>2, ReleasedRow
  <1>4. /\ wire' \in SUBSET Requests
        /\ reply' \in [Callers -> {"none", "ok", "refused"}]
    BY AnswerType DEF ReleaseClaim, ClaimInv
  <1>5. ctx' \in [Terminals -> Contexts] /\ \A u \in Terminals : RowOK(ctx'[u])
    <2>1. CASE Holds(r.island, r.msg)
      <3>1. ctx' = [ctx EXCEPT ![t] = row]
        BY <2>1 DEF ReleaseClaim
      <3> QED
        BY <1>2, <1>3, <3>1, RowStep
    <2>2. CASE ~Holds(r.island, r.msg)
      BY <2>2 DEF ReleaseClaim, ClaimInv, ClaimTypeOK
    <2> QED
      BY <2>1, <2>2
  <1> QED
    BY <1>4, <1>5 DEF ReleaseClaim, ClaimInv, ClaimTypeOK

(* --- routing and completion ----------------------------------------------------------------- *)

LEMMA QueuedAreMessages ==
    ASSUME NEW t \in Terminals
    PROVE  QueuedAt(t) \in SUBSET Messages
  BY DEF QueuedAt

LEMMA AskRoutingStep ==
    ASSUME ClaimInv, NEW t \in Terminals, AskRouting(t)
    PROVE  /\ ClaimInv'
           /\ \A u \in Terminals : Scoped(u) => ctx'[u] = ctx[u]
           /\ UNCHANGED receipt
  <1>1. PICK row \in RoutedRows(ctx[t], QueuedAt(t)) : ctx' = [ctx EXCEPT ![t] = row]
    BY DEF AskRouting
  <1>2. ctx[t] \in Contexts /\ RowOK(ctx[t]) /\ QueuedAt(t) \in SUBSET Messages
    BY QueuedAreMessages DEF ClaimInv, ClaimTypeOK
  <1>3. /\ row \in Contexts /\ RowOK(row)
        /\ ctx[t].task # NoTask => row = ctx[t]
    BY <1>1, <1>2, RoutingIsQuiet
  <1>4. ctx' \in [Terminals -> Contexts] /\ \A u \in Terminals : RowOK(ctx'[u])
    BY <1>1, <1>3, RowStep
  <1>5. ASSUME NEW u \in Terminals, Scoped(u)
        PROVE  ctx'[u] = ctx[u]
    <2>1. ctx[u].task # NoTask
      BY <1>5 DEF ClaimInv, RowOK, Scoped
    <2> QED
      BY <1>1, <1>3, <2>1 DEF ClaimInv, ClaimTypeOK
  <1> QED
    BY <1>4, <1>5 DEF AskRouting, ClaimInv, ClaimTypeOK

LEMMA DispatchKeeps ==
    ASSUME ClaimInv, NEW t \in Terminals, DispatchQueued(t)
    PROVE  ClaimInv'
  <1>1. PICK m \in NextTasks(ctx[t], QueuedAt(t)) :
            /\ queue' = [queue EXCEPT ![m] = "past"]
            /\ ctx' = [ctx EXCEPT ![t] = [task |-> m, island |-> NoIsland, epic |-> EpicOf[m],
                                          status |-> "working"]]
    BY DEF DispatchQueued
  <1>2. m \in Messages
    BY <1>1 DEF NextTasks, QueuedAt
  <1>3. queue' \in [Messages -> {"none", "queued", "past"}]
    BY <1>1, <1>2 DEF ClaimInv, ClaimTypeOK
  <1>4. ctx' \in [Terminals -> Contexts] /\ \A u \in Terminals : RowOK(ctx'[u])
    BY <1>1, <1>2, WorkingRow, RowStep
  <1> QED
    BY <1>3, <1>4 DEF DispatchQueued, ClaimInv, ClaimTypeOK

LEMMA AssignKeeps ==
    ASSUME ClaimInv, NEW m \in Messages, AssignUnscoped(m)
    PROVE  ClaimInv'
  <1>1. TerminalOf[m] \in Terminals
    BY ClaimConstants
  <1>2. ctx' \in [Terminals -> Contexts] /\ \A u \in Terminals : RowOK(ctx'[u])
    BY <1>1, WorkingRow, RowStep DEF AssignUnscoped
  <1> QED
    BY <1>2 DEF AssignUnscoped, ClaimInv, ClaimTypeOK

(* A completion leaves the terminal without a task. *)
LEMMA CompletedStep ==
    ASSUME ClaimInv, NEW m \in Messages, NEW e \in Epics \union {NoEpic},
           Completed(TerminalOf[m], m, e)
    PROVE  /\ ctx' \in [Terminals -> Contexts] /\ \A u \in Terminals : RowOK(ctx'[u])
           /\ queue' \in [Messages -> {"none", "queued", "past"}]
           /\ ctx'[TerminalOf[m]].task = NoTask
           /\ \A u \in Terminals \ {TerminalOf[m]} : ctx'[u] = ctx[u]
  <1> DEFINE t == TerminalOf[m]
             idle == [FreshContext("idle") EXCEPT !.epic = e]
  <1>1. t \in Terminals
    BY ClaimConstants
  <1>2. idle \in Contexts /\ RowOK(idle) /\ idle.task = NoTask
    BY IdleRow
  <1>3. PICK row \in RoutedRows(idle, QueuedAt(t) \ {m}) : ctx' = [ctx EXCEPT ![t] = row]
    BY DEF Completed
  <1>4. QueuedAt(t) \ {m} \in SUBSET Messages
    BY <1>1, QueuedAreMessages
  <1> HIDE DEF idle
  <1>5. row \in Contexts /\ RowOK(row) /\ row.task = NoTask
    BY <1>2, <1>3, <1>4, RoutingIsQuiet
  <1>6. ctx' \in [Terminals -> Contexts] /\ \A u \in Terminals : RowOK(ctx'[u])
    BY <1>1, <1>3, <1>5, RowStep
  <1>7. queue' \in [Messages -> {"none", "queued", "past"}]
    BY DEF Completed, ClaimInv, ClaimTypeOK
  <1> QED
    BY <1>1, <1>3, <1>5, <1>6, <1>7 DEF ClaimInv, ClaimTypeOK

LEMMA CompleteTaskKeeps ==
    ASSUME ClaimInv, NEW i \in Islands, NEW m \in Messages, CompleteTask(i, m)
    PROVE  ClaimInv'
  <1>1. TerminalOf[m] \in Terminals
    BY ClaimConstants
  <1>2. ctx[TerminalOf[m]].epic \in Epics \union {NoEpic}
    BY <1>1 DEF ClaimInv, ClaimTypeOK, Contexts
  <1>3. /\ ctx' \in [Terminals -> Contexts] /\ \A u \in Terminals : RowOK(ctx'[u])
        /\ queue' \in [Messages -> {"none", "queued", "past"}]
    BY <1>2, CompletedStep DEF CompleteTask
  <1>4. lastSeq' \in Nat /\ receipt' \in [Islands -> [Messages -> Nat]]
    <2>1. CASE receipt[i][m] = 0
      <3>1. lastSeq + 1 \in Nat /\ receipt[i] \in [Messages -> Nat]
        BY DEF ClaimInv, ClaimTypeOK
      <3>2. [receipt[i] EXCEPT ![m] = lastSeq + 1] \in [Messages -> Nat]
        BY <3>1
      <3>3. /\ lastSeq' = lastSeq + 1
            /\ receipt' = [receipt EXCEPT ![i] = [receipt[i] EXCEPT ![m] = lastSeq + 1]]
        BY <2>1 DEF CompleteTask
      <3> QED
        BY <3>1, <3>2, <3>3 DEF ClaimInv, ClaimTypeOK
    <2>2. CASE receipt[i][m] # 0
      BY <2>2 DEF CompleteTask, ClaimInv, ClaimTypeOK
    <2> QED
      BY <2>1, <2>2 DEF CompleteTask
  <1> QED
    BY <1>3, <1>4 DEF CompleteTask, ClaimInv, ClaimTypeOK

LEMMA LegacyKeeps ==
    ASSUME ClaimInv, NEW m \in Messages, NEW e \in {NoEpic, EpicOf[m]}, LegacyComplete(m, e)
    PROVE  ClaimInv'
  <1>1. e \in Epics \union {NoEpic}
    BY ClaimConstants
  <1>2. /\ ctx' \in [Terminals -> Contexts] /\ \A u \in Terminals : RowOK(ctx'[u])
        /\ queue' \in [Messages -> {"none", "queued", "past"}]
    BY <1>1, CompletedStep DEF LegacyComplete
  <1> QED
    BY <1>2 DEF LegacyComplete, ClaimInv, ClaimTypeOK

(* --- every step -------------------------------------------------------------------------------- *)

LEMMA StepKeeps == ClaimInv /\ [ClaimNext]_claimVars => ClaimInv'
  <1> SUFFICES ASSUME ClaimInv, [ClaimNext]_claimVars
               PROVE  ClaimInv'
    OBVIOUS
  <1>1. ASSUME NEW op, NEW m \in Messages, NEW i, ClientSends(op, m, i),
               \/ op \in {"claim", "release"} /\ i \in Islands
               \/ op = "ack" /\ i = NoIsland
        PROVE  ClaimInv'
    <2>1. wire' \in SUBSET Requests
      BY <1>1, SendType DEF ClientSends, ClaimInv
    <2> QED
      BY <1>1, <2>1 DEF ClientSends, ClaimInv, ClaimTypeOK, RowOK, register
  <1>2. ASSUME NEW r \in wire, ServerHandles(r) \/ LoseRequest(r)
        PROVE  ClaimInv'
    BY <1>2, LoseKeeps, ClaimReadsKeeps, ClaimCommitsKeeps, ReleaseKeeps, AckChecksKeeps,
       AckMarksKeeps DEF ServerHandles
  <1>3. ASSUME NEW i \in Islands, NEW m \in Messages, CompleteTask(i, m) \/ CompleteAgain(i, m)
        PROVE  ClaimInv'
    <2>1. CASE CompleteTask(i, m)
      BY <2>1, CompleteTaskKeeps
    <2>2. CASE CompleteAgain(i, m)
      BY <2>2, AskRoutingStep, ClaimConstants DEF CompleteAgain
    <2> QED
      BY <1>3, <2>1, <2>2
  <1>4. ASSUME NEW t \in Terminals, AskRouting(t) \/ DispatchQueued(t)
        PROVE  ClaimInv'
    BY <1>4, AskRoutingStep, DispatchKeeps
  <1>5. ASSUME NEW m \in Messages,
               AssignUnscoped(m) \/ QueueTask(m) \/ Deliver(m) \/ ReadMessage(m)
        PROVE  ClaimInv'
    <2>1. CASE AssignUnscoped(m)
      BY <2>1, AssignKeeps
    <2>2. CASE QueueTask(m)
      BY <2>2 DEF QueueTask, ClaimInv, ClaimTypeOK, RowOK
    <2>3. CASE Deliver(m)
      BY <2>3 DEF Deliver, ClaimInv, ClaimTypeOK, RowOK, register
    <2>4. CASE ReadMessage(m)
      BY <2>4 DEF ReadMessage, ClaimInv, ClaimTypeOK, RowOK, register
    <2> QED
      BY <1>5, <2>1, <2>2, <2>3, <2>4
  <1>6. ASSUME NEW m \in Messages, NEW e \in {NoEpic, EpicOf[m]}, LegacyComplete(m, e)
        PROVE  ClaimInv'
    BY <1>6, LegacyKeeps
  <1>7. CASE UNCHANGED claimVars
    BY <1>7 DEF claimVars, ClaimInv, ClaimTypeOK, RowOK
  <1> QED
    BY <1>1, <1>2, <1>3, <1>4, <1>5, <1>6, <1>7 DEF ClaimNext, UnscopedCall

THEOREM ClaimInvariant == ClaimSpec => []ClaimInv
  <1>1. ClaimInit => ClaimInv
    BY InitKeeps
  <1>2. ClaimInv /\ [ClaimNext]_claimVars => ClaimInv'
    BY StepKeeps
  <1> QED
    BY <1>1, <1>2, PTL DEF ClaimSpec

(* The register is well-formed in every reachable state, whatever clients ask for: no row,
   queue entry or request refers to what is no task, no receipt carries what is no number. *)
THEOREM ClaimTypeCorrect == ClaimSpec => []ClaimTypeOK
  <1>1. ClaimInv => ClaimTypeOK
    BY DEF ClaimInv
  <1> QED
    BY <1>1, ClaimInvariant, PTL

(* The claim transaction and the queue's router never disagree on whether a terminal is
   free. *)
THEOREM GatesAlwaysAgree == ClaimSpec => []GatesAgree
  <1>1. ClaimInv => GatesAgree
    BY GatesAgreeByRow DEF ClaimInv
  <1> QED
    BY <1>1, ClaimInvariant, PTL

(* --- a claim is ended by its owner alone ---------------------------------------------------------- *)

EndedByOwner(t) ==
    \/ \E m \in Messages : CompleteTask(ctx[t].island, m)
    \/ \E r \in wire : ReleaseClaim(r) /\ r.island = ctx[t].island /\ r.msg = ctx[t].task

(* A claim request leaves a scoped row as it is: it is refused, or the claim is its own. *)
LEMMA ClaimSparesScoped ==
    ASSUME ClaimInv, NEW r \in wire, ClaimCommits(r), NEW t \in Terminals, Scoped(t)
    PROVE  ctx'[t] = ctx[t]
  <1> DEFINE result == ClaimResult(ctx[TerminalOf[r.msg]], r.msg, r.island)
  <1>1. TerminalOf[r.msg] \in Terminals
    BY ClaimConstants DEF ClaimInv, ClaimTypeOK, Requests
  <1>2. CASE t = TerminalOf[r.msg]
    <2>1. result # "claimed"
      BY <1>2 DEF ClaimResult, Scoped
    <2> QED
      BY <2>1 DEF ClaimCommits
  <1>3. CASE t # TerminalOf[r.msg]
    BY <1>1, <1>3 DEF ClaimCommits, ClaimInv, ClaimTypeOK
  <1> QED
    BY <1>2, <1>3

LEMMA ReleaseIsByOwner ==
    ASSUME ClaimInv, NEW r \in wire, ReleaseClaim(r), NEW t \in Terminals, ctx'[t] # ctx[t]
    PROVE  EndedByOwner(t)
  <1>1. r.msg \in Messages /\ TerminalOf[r.msg] \in Terminals
    BY ClaimConstants DEF ClaimInv, ClaimTypeOK, Requests
  <1>2. Holds(r.island, r.msg)
    BY DEF ReleaseClaim
  <1>3. t = TerminalOf[r.msg]
    BY <1>1, <1>2 DEF ReleaseClaim, ClaimInv, ClaimTypeOK
  <1>4. r.island = ctx[t].island /\ r.msg = ctx[t].task
    BY <1>2, <1>3 DEF Holds
  <1> QED
    BY <1>4 DEF EndedByOwner

LEMMA CompletionIsByOwner ==
    ASSUME ClaimInv, NEW i \in Islands, NEW m \in Messages, CompleteTask(i, m),
           NEW t \in Terminals, ctx'[t] # ctx[t]
    PROVE  EndedByOwner(t)
  <1>1. TerminalOf[m] \in Terminals
    BY ClaimConstants
  <1>2. ctx[TerminalOf[m]].epic \in Epics \union {NoEpic}
    BY <1>1 DEF ClaimInv, ClaimTypeOK, Contexts
  <1>3. t = TerminalOf[m]
    BY <1>2, CompletedStep DEF CompleteTask
  <1>4. ctx[t].island = i
    BY <1>3 DEF CompleteTask, Holds
  <1> QED
    BY <1>4 DEF EndedByOwner

LEMMA UnscopedSparesScoped ==
    ASSUME ClaimInv, UnscopedCall, NEW t \in Terminals, Scoped(t)
    PROVE  ctx'[t] = ctx[t]
  <1>1. ASSUME NEW u \in Terminals, AskRouting(u) \/ DispatchQueued(u)
        PROVE  ctx'[t] = ctx[t]
    BY <1>1, AskRoutingStep DEF DispatchQueued, ClaimInv, ClaimTypeOK
  <1>2. ASSUME NEW m \in Messages,
               AssignUnscoped(m) \/ QueueTask(m) \/ Deliver(m) \/ ReadMessage(m)
        PROVE  ctx'[t] = ctx[t]
    <2>1. CASE AssignUnscoped(m)
      BY <2>1, ClaimConstants DEF AssignUnscoped, ClaimInv, ClaimTypeOK
    <2> QED
      BY <1>2, <2>1 DEF QueueTask, Deliver, ReadMessage, register
  <1>3. ASSUME NEW m \in Messages, NEW e \in {NoEpic, EpicOf[m]}, LegacyComplete(m, e)
        PROVE  ctx'[t] = ctx[t]
    <2>1. e \in Epics \union {NoEpic}
      BY ClaimConstants
    <2>2. t # TerminalOf[m]
      BY <1>3 DEF LegacyComplete
    <2> QED
      BY <1>3, <2>1, <2>2, CompletedStep DEF LegacyComplete
  <1> QED
    BY <1>1, <1>2, <1>3 DEF UnscopedCall

LEMMA StepSparesScoped ==
    ASSUME ClaimInv, [ClaimNext]_claimVars, NEW t \in Terminals, Scoped(t), ctx'[t] # ctx[t]
    PROVE  EndedByOwner(t)
  <1>1. ASSUME NEW op, NEW m \in Messages, NEW i, ClientSends(op, m, i)
        PROVE  EndedByOwner(t)
    BY <1>1 DEF ClientSends, register
  <1>2. ASSUME NEW r \in wire, ServerHandles(r) \/ LoseRequest(r)
        PROVE  EndedByOwner(t)
    <2>1. CASE ClaimCommits(r)
      BY <2>1, ClaimSparesScoped
    <2>2. CASE ReleaseClaim(r)
      BY <2>2, ReleaseIsByOwner
    <2> QED
      BY <1>2, <2>1, <2>2
         DEF ServerHandles, LoseRequest, ClaimReadsInbox, AckChecksRow, AckMarksRead, register
  <1>3. ASSUME NEW i \in Islands, NEW m \in Messages, CompleteTask(i, m) \/ CompleteAgain(i, m)
        PROVE  EndedByOwner(t)
    <2>1. CASE CompleteTask(i, m)
      BY <2>1, CompletionIsByOwner
    <2>2. CASE CompleteAgain(i, m)
      BY <2>2, AskRoutingStep, ClaimConstants DEF CompleteAgain
    <2> QED
      BY <1>3, <2>1, <2>2
  <1>4. CASE UnscopedCall
    BY <1>4, UnscopedSparesScoped
  <1>5. CASE UNCHANGED claimVars
    BY <1>5 DEF claimVars
  <1> QED
    BY <1>1, <1>2, <1>3, <1>4, <1>5 DEF ClaimNext

(* For any number of islands and clients: while an island holds a claim, only its release
   or its completion changes the row. *)
THEOREM ClaimsEndByOwner == ClaimSpec => OnlyTheOwnerEndsAClaim
  <1> DEFINE Spared == \A t \in Terminals : Scoped(t) /\ ctx'[t] # ctx[t] =>
                \/ \E m \in Messages : CompleteTask(ctx[t].island, m)
                \/ \E r \in wire : ReleaseClaim(r) /\ r.island = ctx[t].island
                                                 /\ r.msg = ctx[t].task
  <1>1. ClaimInv /\ [ClaimNext]_claimVars => [Spared]_claimVars
    BY StepSparesScoped DEF EndedByOwner
  <1> QED
    BY <1>1, ClaimInvariant, PTL DEF ClaimSpec, OnlyTheOwnerEndsAClaim

(* --- receipts --------------------------------------------------------------------------------------- *)

(* Nothing but complete_task by the claim's island touches the receipts. *)
LEMMA ReceiptFrame ==
    ASSUME ClaimInv, [ClaimNext]_claimVars
    PROVE  \/ UNCHANGED <<receipt, lastSeq>>
           \/ \E i \in Islands, m \in Messages : CompleteTask(i, m)
  <1>1. CASE UNCHANGED claimVars
    BY <1>1 DEF claimVars
  <1>2. CASE UnscopedCall
    BY <1>2 DEF UnscopedCall, AskRouting, DispatchQueued, AssignUnscoped, QueueTask, Deliver,
                ReadMessage, LegacyComplete, register
  <1>3. ASSUME NEW r \in wire, ServerHandles(r) \/ LoseRequest(r)
        PROVE  UNCHANGED <<receipt, lastSeq>>
    BY <1>3 DEF ServerHandles, LoseRequest, ClaimReadsInbox, ClaimCommits, ReleaseClaim,
                AckChecksRow, AckMarksRead, register
  <1>4. ASSUME NEW op, NEW m \in Messages, NEW i, ClientSends(op, m, i)
        PROVE  UNCHANGED <<receipt, lastSeq>>
    BY <1>4 DEF ClientSends, register
  <1>5. ASSUME NEW i \in Islands, NEW m \in Messages, CompleteAgain(i, m)
        PROVE  UNCHANGED <<receipt, lastSeq>>
    BY <1>5 DEF CompleteAgain, AskRouting
  <1> QED
    BY <1>1, <1>2, <1>3, <1>4, <1>5 DEF ClaimNext

(* The receipt complete_task writes, and no other. *)
LEMMA OneReceipt ==
    ASSUME ClaimInv, NEW i \in Islands, NEW m \in Messages, CompleteTask(i, m),
           receipt' # receipt
    PROVE  /\ receipt[i][m] = 0 /\ receipt'[i][m] = lastSeq + 1 /\ lastSeq' = lastSeq + 1
           /\ \A j \in Islands, n \in Messages :
                <<j, n>> # <<i, m>> => receipt'[j][n] = receipt[j][n]
  <1>1. receipt[i][m] = 0
    BY DEF CompleteTask
  <1>2. /\ lastSeq' = lastSeq + 1
        /\ receipt' = [receipt EXCEPT ![i] = [receipt[i] EXCEPT ![m] = lastSeq + 1]]
    BY <1>1 DEF CompleteTask
  <1>3. receipt \in [Islands -> [Messages -> Nat]]
    BY DEF ClaimInv, ClaimTypeOK
  <1>4. receipt[i] \in [Messages -> Nat]
    BY <1>3
  <1> QED
    BY <1>1, <1>2, <1>3, <1>4

LEMMA ReceiptStep ==
    ASSUME ClaimInv, [ClaimNext]_claimVars,
           NEW i \in Islands, NEW m \in Messages, receipt'[i][m] # receipt[i][m]
    PROVE  receipt[i][m] = 0 /\ Holds(i, m) /\ ctx'[TerminalOf[m]].task = NoTask
  <1>1. receipt' # receipt
    OBVIOUS
  <1>2. PICK j \in Islands, n \in Messages : CompleteTask(j, n)
    BY <1>1, ReceiptFrame
  <1>3. j = i /\ n = m
    BY <1>1, <1>2, OneReceipt
  <1>4. CompleteTask(i, m)
    BY <1>2, <1>3
  <1>5. ctx[TerminalOf[m]].epic \in Epics \union {NoEpic}
    BY ClaimConstants DEF ClaimInv, ClaimTypeOK, Contexts
  <1>6. ctx'[TerminalOf[m]].task = NoTask
    BY <1>4, <1>5, CompletedStep DEF CompleteTask
  <1> QED
    BY <1>1, <1>4, <1>6, OneReceipt DEF CompleteTask

(* A receipt appears only as its island ends its own claim by a completion, and keeps its
   number ever after. *)
THEOREM ReceiptsAreAlwaysEarned == ClaimSpec => ReceiptsAreEarned
  <1> DEFINE Earned == \A i \in Islands, m \in Messages : receipt'[i][m] # receipt[i][m] =>
                receipt[i][m] = 0 /\ Holds(i, m) /\ ctx'[TerminalOf[m]].task = NoTask
  <1>1. ClaimInv /\ [ClaimNext]_claimVars => [Earned]_claimVars
    BY ReceiptStep
  <1> QED
    BY <1>1, ClaimInvariant, PTL DEF ClaimSpec, ReceiptsAreEarned

(* No two receipts of any islands share a number, and none is above the counter. *)
THEOREM ReceiptsStayNumbered == ClaimSpec => []ReceiptsAreNumbered
  <1>1. ClaimInit => ReceiptsAreNumbered
    BY DEF ClaimInit, ClaimInitWith, ReceiptsAreNumbered
  <1>2. ClaimInv /\ ReceiptsAreNumbered /\ [ClaimNext]_claimVars => ReceiptsAreNumbered'
    <2> SUFFICES ASSUME ClaimInv, ReceiptsAreNumbered, [ClaimNext]_claimVars
                 PROVE  ReceiptsAreNumbered'
      OBVIOUS
    <2>1. CASE UNCHANGED <<receipt, lastSeq>>
      BY <2>1 DEF ReceiptsAreNumbered
    <2>2. ASSUME NEW i \in Islands, NEW m \in Messages, CompleteTask(i, m)
          PROVE  ReceiptsAreNumbered'
      <3>1. CASE receipt' = receipt
        <4>1. lastSeq' = lastSeq \/ lastSeq' = lastSeq + 1
          BY <2>2 DEF CompleteTask
        <4>2. /\ lastSeq \in Nat
              /\ \A j \in Islands, n \in Messages : receipt[j][n] \in Nat
          BY DEF ClaimInv, ClaimTypeOK
        <4> QED
          BY <3>1, <4>1, <4>2 DEF ReceiptsAreNumbered
      <3>2. CASE receipt' # receipt
        <4>1. /\ receipt'[i][m] = lastSeq + 1 /\ lastSeq' = lastSeq + 1
              /\ \A j \in Islands, n \in Messages :
                    <<j, n>> # <<i, m>> => receipt'[j][n] = receipt[j][n]
          BY <2>2, <3>2, OneReceipt
        <4>2. /\ lastSeq \in Nat
              /\ \A j \in Islands, n \in Messages :
                    receipt[j][n] \in Nat /\ receipt[j][n] <= lastSeq
          BY DEF ClaimInv, ClaimTypeOK, ReceiptsAreNumbered
        <4>3. \A j \in Islands, n \in Messages :
                <<j, n>> # <<i, m>> => receipt'[j][n] # receipt'[i][m]
          BY <4>1, <4>2
        <4>4. \A j \in Islands, n \in Messages : receipt'[j][n] <= lastSeq'
          BY <4>1, <4>2
        <4> QED
          BY <4>1, <4>3, <4>4 DEF ReceiptsAreNumbered
      <3> QED
        BY <3>1, <3>2
    <2> QED
      BY <2>1, <2>2, ReceiptFrame
  <1> QED
    BY <1>1, <1>2, ClaimInvariant, PTL DEF ClaimSpec
====
