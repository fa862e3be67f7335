---- MODULE TaskClaims ----
(* The server's register of who works on what: one terminal_context row per
   terminal, the task queue of the epic router, the inbox files and the
   completion receipts.

   Two families of callers share a row.  The runner's scoped operations (claim,
   release, complete_task) carry the island of an authenticated token; the older
   unscoped ones (queue dispatch, file DONE, the session starter's direct write)
   carry none.  A database transaction is one step.  The claim route and ack_task
   read inbox files first and write after an await, so they are two steps of a
   request that stays in "wire" in between.

   A definition whose comment begins with `Mistake:` is a wrong form of the one that
   follows it; no action uses it. *)
EXTENDS Naturals, FiniteSets

CONSTANTS
    Terminals, Messages, Islands, Epics,
    TerminalOf,     \* the terminal whose inbox holds a message
    EpicOf,         \* the epic in a message's frontmatter, or NoEpic
    Callers,        \* clients that wait for the answer of a request
    Stray,          \* the caller of a request nobody waits for
    NoTask, NoIsland, NoEpic,
    MaxWire         \* bound on the requests in flight, when any client may send

ASSUME ClaimConstants ==
    /\ TerminalOf \in [Messages -> Terminals]
    /\ EpicOf \in [Messages -> Epics \union {NoEpic}]
    /\ NoTask \notin Messages
    /\ NoIsland \notin Islands
    /\ NoEpic \notin Epics
    /\ Stray \notin Callers
    /\ MaxWire \in Nat

VARIABLES
    ctx,        \* terminal_context: the row of each terminal
    inbox,      \* the status line of each message's inbox file
    queue,      \* the row of each message in task_queue: none yet, queued, or past the
                \* queue (dispatched or completed), for good
    receipt,    \* runner_completion_receipts: the sequence of a row, 0 for none
    lastSeq,    \* the AUTOINCREMENT counter of that table
    wire,       \* requests sent and not yet answered
    reply       \* the last answer each caller got

register == <<ctx, queue, receipt, lastSeq>>
claimVars == <<ctx, inbox, queue, receipt, lastSeq, wire, reply>>

Tasks == Messages \union {NoTask}
Contexts == [task : Tasks, island : Islands \union {NoIsland},
             epic : Epics \union {NoEpic}, status : {"none", "idle", "working"}]
(* An ack_task carries no island. *)
Requests ==
    LET Of(ops, islands) == [op : ops, msg : Messages, island : islands,
                             who : Callers \union {Stray}, seen : BOOLEAN]
    IN  Of({"claim", "release"}, Islands) \union Of({"ack"}, {NoIsland})

ClaimTypeOK ==
    /\ ctx \in [Terminals -> Contexts]
    /\ inbox \in [Messages -> {"absent", "UNREAD", "READ"}]
    /\ queue \in [Messages -> {"none", "queued", "past"}]
    /\ receipt \in [Islands -> [Messages -> Nat]]
    /\ lastSeq \in Nat
    /\ wire \in SUBSET Requests
    /\ reply \in [Callers -> {"none", "ok", "refused"}]

(* A row as initializeTerminals writes it; a terminal it does not list has none. *)
FreshContext(status) ==
    [task |-> NoTask, island |-> NoIsland, epic |-> NoEpic, status |-> status]

ClaimInitWith(rows, files) ==
    /\ ctx = [t \in Terminals |-> FreshContext(rows[t])]
    /\ inbox = files
    /\ queue = [m \in Messages |-> "none"]
    /\ receipt = [i \in Islands |-> [m \in Messages |-> 0]]
    /\ lastSeq = 0
    /\ wire = {}
    /\ reply = [c \in Callers |-> "none"]

Scoped(t) == ctx[t].island # NoIsland
Holds(i, m) == LET c == ctx[TerminalOf[m]] IN c.task = m /\ c.island = i

(* --- requests ----------------------------------------------------------------- *)

Request(op, m, i, who) == [op |-> op, msg |-> m, island |-> i, who |-> who, seen |-> FALSE]

Send(op, m, i, who) == wire' = wire \union {Request(op, m, i, who)}

(* Takes a request off the wire and answers it, when its caller still waits. *)
Answer(r, answer) ==
    /\ wire' = wire \ {r}
    /\ reply' = IF r.who \in Callers THEN [reply EXCEPT ![r.who] = answer] ELSE reply

(* The connection breaks on the way in: the server never handles the request. *)
LoseRequest(r) ==
    /\ r \in wire
    /\ Answer(r, "refused")
    /\ UNCHANGED <<register, inbox>>

(* The claim route first lists the unread inbox, and refuses what is not on it. *)
ClaimReadsInbox(r) ==
    /\ r \in wire /\ r.op = "claim" /\ ~r.seen
    /\ \/ /\ inbox[r.msg] = "UNREAD"
          /\ wire' = (wire \ {r}) \union {[r EXCEPT !.seen = TRUE]}
          /\ UNCHANGED reply
       \/ /\ inbox[r.msg] # "UNREAD"
          /\ Answer(r, "refused")
    /\ UNCHANGED <<register, inbox>>

\* Mistake: a task that is claimed already may be claimed by another island.
ClaimResultByTask(row, m, i) ==
    CASE row.status = "none" -> "unknown_terminal"
      [] row.status # "none" /\ row.task = m /\ row.island = i -> "idempotent"
      [] row.status # "none" /\ row.task \notin {NoTask, m} -> "conflict"
      [] OTHER -> "claimed"

(* TerminalContextStore.claim: what the transaction answers, from the row alone. *)
ClaimResult(row, m, i) ==
    CASE row.status = "none" -> "unknown_terminal"
      [] row.status # "none" /\ row.task = m /\ row.island = i -> "idempotent"
      [] row.status # "none" /\ ~(row.task = m /\ row.island = i)
            /\ (row.island # NoIsland \/ row.task \notin {NoTask, m}) -> "conflict"
      [] OTHER -> "claimed"

\* Mistake: the row's status is left as it was.
ClaimedRowKeepsStatus(row, m, i) ==
    [row EXCEPT !.task = m, !.island = i,
                !.epic = IF row.task = m /\ EpicOf[m] = NoEpic THEN @ ELSE EpicOf[m]]

(* scopeExistingContext keeps the epic of the row when the message has none (COALESCE);
   claimUnownedContext replaces it. *)
ClaimedRow(row, m, i) ==
    [task |-> m, island |-> i, status |-> "working",
     epic |-> IF row.task = m /\ EpicOf[m] = NoEpic THEN row.epic ELSE EpicOf[m]]

ClaimCommits(r) ==
    LET t == TerminalOf[r.msg]
        result == ClaimResult(ctx[t], r.msg, r.island)
    IN  /\ r \in wire /\ r.op = "claim" /\ r.seen
        /\ ctx' = IF result = "claimed"
                  THEN [ctx EXCEPT ![t] = ClaimedRow(ctx[t], r.msg, r.island)]
                  ELSE ctx
        /\ Answer(r, IF result \in {"claimed", "idempotent"} THEN "ok" ELSE "refused")
        /\ UNCHANGED <<inbox, queue, receipt, lastSeq>>

(* releaseScopedContext: the exact tuple, or nothing. *)
ReleaseClaim(r) ==
    LET t == TerminalOf[r.msg] IN
    /\ r \in wire /\ r.op = "release"
    /\ \/ /\ Holds(r.island, r.msg)
          /\ ctx' = [ctx EXCEPT ![t] = [@ EXCEPT !.task = NoTask, !.island = NoIsland,
                                                 !.status = "idle"]]
          /\ Answer(r, "ok")
       \/ /\ ~Holds(r.island, r.msg)
          /\ Answer(r, "refused")
          /\ UNCHANGED ctx
    /\ UNCHANGED <<inbox, queue, receipt, lastSeq>>

(* ack_task checks the row, then rewrites the inbox file. *)
AckChecksRow(r) ==
    /\ r \in wire /\ r.op = "ack" /\ ~r.seen
    /\ \/ /\ ctx[TerminalOf[r.msg]].task = r.msg
          /\ wire' = (wire \ {r}) \union {[r EXCEPT !.seen = TRUE]}
          /\ UNCHANGED reply
       \/ /\ ctx[TerminalOf[r.msg]].task # r.msg
          /\ Answer(r, "refused")
    /\ UNCHANGED <<register, inbox>>

AckMarksRead(r) ==
    /\ r \in wire /\ r.op = "ack" /\ r.seen
    /\ inbox' = [inbox EXCEPT ![r.msg] = IF @ = "UNREAD" THEN "READ" ELSE @]
    /\ Answer(r, "ok")
    /\ UNCHANGED register

(* --- routing and completion ----------------------------------------------------- *)

QueuedAt(t) == {m \in Messages : TerminalOf[m] = t /\ queue[m] = "queued"}

(* getNextTaskForTerminal: nothing while the row is working; a waiting task of the row's
   epic before any other.  Which of those it takes is a matter of priority and age. *)
NextTasks(row, waiting) ==
    LET same == {m \in waiting : row.epic # NoEpic /\ EpicOf[m] = row.epic}
    IN  IF row.status = "working" THEN {} ELSE IF same # {} THEN same ELSE waiting

\* Mistake: the task's id is passed where the epic's belongs.
RoutedToItsTask(row, m) ==
    IF EpicOf[m] \notin {NoEpic, row.epic}
    THEN [FreshContext("idle") EXCEPT !.epic = m]
    ELSE row

(* Choosing a task of another epic moves the row to that epic, without a task, before
   anything is dispatched. *)
Routed(row, m) ==
    IF EpicOf[m] \notin {NoEpic, row.epic}
    THEN [FreshContext("idle") EXCEPT !.epic = EpicOf[m]]
    ELSE row

(* The rows a routing decision may leave behind it. *)
RoutedRows(row, waiting) ==
    IF NextTasks(row, waiting) = {} THEN {row}
    ELSE {Routed(row, m) : m \in NextTasks(row, waiting)}

(* GET /routing/:terminal asks for the decision and carries nothing out. *)
AskRouting(t) ==
    /\ \E row \in RoutedRows(ctx[t], QueuedAt(t)) : ctx' = [ctx EXCEPT ![t] = row]
    /\ UNCHANGED <<inbox, queue, receipt, lastSeq, wire, reply>>

(* POST /dispatch/:terminal: the decision and dispatchTask, without an await between. *)
DispatchQueued(t) ==
    /\ \E m \in NextTasks(ctx[t], QueuedAt(t)) :
        /\ ~Scoped(t)
        /\ queue' = [queue EXCEPT ![m] = "past"]
        /\ ctx' = [ctx EXCEPT ![t] = [task |-> m, island |-> NoIsland, epic |-> EpicOf[m],
                                      status |-> "working"]]
    /\ UNCHANGED <<inbox, receipt, lastSeq, wire, reply>>

(* commitTaskCompletion: the idle row, and the routing decision that follows it.
   The message's queue row is completed whatever it was, and need not be there. *)
Completed(t, m, epic) ==
    /\ queue' = [queue EXCEPT ![m] = IF @ = "none" THEN @ ELSE "past"]
    /\ \E row \in RoutedRows([FreshContext("idle") EXCEPT !.epic = epic], QueuedAt(t) \ {m}) :
        ctx' = [ctx EXCEPT ![t] = row]

\* Mistake: the receipt gets the last number again.
CompleteTaskUncounted(i, m) ==
    /\ Holds(i, m)
    /\ Completed(TerminalOf[m], m, ctx[TerminalOf[m]].epic)
    /\ receipt' = [receipt EXCEPT ![i] = [@ EXCEPT ![m] = IF @ = 0 THEN 1 ELSE @]]
    /\ lastSeq' = 1
    /\ UNCHANGED <<inbox, wire, reply>>

\* Mistake: a second completion replaces the first receipt.
CompleteTaskReplacing(i, m) ==
    /\ Holds(i, m)
    /\ Completed(TerminalOf[m], m, ctx[TerminalOf[m]].epic)
    /\ receipt' = [receipt EXCEPT ![i] = [@ EXCEPT ![m] = lastSeq + 1]]
    /\ lastSeq' = lastSeq + 1
    /\ UNCHANGED <<inbox, wire, reply>>

(* complete_task by the island that holds the claim: row and receipt in one
   transaction.  The receipt of an earlier completion of m keeps its sequence. *)
CompleteTask(i, m) ==
    /\ Holds(i, m)
    /\ Completed(TerminalOf[m], m, ctx[TerminalOf[m]].epic)
    /\ \/ /\ receipt[i][m] = 0
          /\ receipt' = [receipt EXCEPT ![i] = [@ EXCEPT ![m] = lastSeq + 1]]
          /\ lastSeq' = lastSeq + 1
       \/ /\ receipt[i][m] # 0
          /\ UNCHANGED <<receipt, lastSeq>>
    /\ UNCHANGED <<inbox, wire, reply>>

(* complete_task once more, after the row moved on: the old receipt is the answer, and
   the routing decision is asked for again. *)
CompleteAgain(i, m) ==
    /\ ctx[TerminalOf[m]].task # m
    /\ receipt[i][m] # 0
    /\ AskRouting(TerminalOf[m])

(* File DONE and POST /task/:terminal/complete: no island, and refused on a scoped row.
   Nothing compares the message with the row's task. *)
LegacyComplete(m, epic) ==
    /\ ~Scoped(TerminalOf[m])
    /\ Completed(TerminalOf[m], m, epic)
    /\ UNCHANGED <<inbox, receipt, lastSeq, wire, reply>>

(* setTerminalContext, as the session starter and the project dispatcher call it after
   they hand a task to a session. *)
AssignUnscoped(m) ==
    LET t == TerminalOf[m] IN
    /\ ~Scoped(t)
    /\ ctx' = [ctx EXCEPT ![t] = [task |-> m, island |-> NoIsland, epic |-> EpicOf[m],
                                  status |-> "working"]]
    /\ UNCHANGED <<inbox, queue, receipt, lastSeq, wire, reply>>

(* POST /queue: message_id is UNIQUE, so a message that was ever queued is refused. *)
QueueTask(m) ==
    /\ queue[m] = "none"
    /\ queue' = [queue EXCEPT ![m] = "queued"]
    /\ UNCHANGED <<ctx, inbox, receipt, lastSeq, wire, reply>>

(* sendMessage writes a new inbox file. *)
Deliver(m) ==
    /\ inbox[m] = "absent"
    /\ inbox' = [inbox EXCEPT ![m] = "UNREAD"]
    /\ UNCHANGED <<register, wire, reply>>

(* read_message marks what it shows as READ, whoever reads it and whatever is claimed. *)
ReadMessage(m) ==
    /\ inbox[m] = "UNREAD"
    /\ inbox' = [inbox EXCEPT ![m] = "READ"]
    /\ UNCHANGED <<register, wire, reply>>

(* --- the server with any clients --------------------------------------------------- *)

(* Any client with a token may ask for anything; the bound is on what is in flight. *)
ClientSends(op, m, i) ==
    /\ Cardinality(wire) < MaxWire
    /\ Send(op, m, i, Stray)
    /\ UNCHANGED <<register, inbox, reply>>

ServerHandles(r) ==
    \/ ClaimReadsInbox(r)
    \/ ClaimCommits(r)
    \/ ReleaseClaim(r)
    \/ AckChecksRow(r)
    \/ AckMarksRead(r)

UnscopedCall ==
    \/ \E t \in Terminals : AskRouting(t) \/ DispatchQueued(t)
    \/ \E m \in Messages : AssignUnscoped(m) \/ QueueTask(m) \/ Deliver(m) \/ ReadMessage(m)
    \/ \E m \in Messages : \E epic \in {NoEpic, EpicOf[m]} : LegacyComplete(m, epic)

ClaimInit ==
    \E rows \in [Terminals -> {"none", "idle"}], files \in [Messages -> {"absent", "UNREAD"}] :
        ClaimInitWith(rows, files)

ClaimNext ==
    \/ \E op \in {"claim", "release"}, m \in Messages, i \in Islands : ClientSends(op, m, i)
    \/ \E m \in Messages : ClientSends("ack", m, NoIsland)
    \/ \E r \in wire : ServerHandles(r) \/ LoseRequest(r)
    \/ \E i \in Islands, m \in Messages : CompleteTask(i, m) \/ CompleteAgain(i, m)
    \/ UnscopedCall

ClaimSpec == ClaimInit /\ [][ClaimNext]_claimVars

(* The claim transaction looks at a row's task and island, the queue's router only at its
   status: they must agree on when a terminal is free, after every mix of scoped and
   unscoped operations, or one of them hands out a terminal the other has given away. *)
GatesAgree ==
    \A t \in Terminals :
        /\ ctx[t].status = "working" <=> ctx[t].task # NoTask
        /\ Scoped(t) => ctx[t].task # NoTask

(* Receipts are numbered in the order they were written and never share a number, so that
   a reader who keeps the last number misses none and sees none twice. *)
ReceiptsAreNumbered ==
    /\ \A i \in Islands, m \in Messages : receipt[i][m] <= lastSeq
    /\ \A i, j \in Islands, m, n \in Messages :
        receipt[i][m] = receipt[j][n] /\ receipt[i][m] # 0 => i = j /\ m = n

(* While an island holds a claim, nothing but that island's release or its completion
   changes the row: no other island's claim, no queue dispatch, routing decision, file DONE
   or session start, in whatever order the requests arrive. *)
OnlyTheOwnerEndsAClaim ==
    [][\A t \in Terminals : Scoped(t) /\ ctx'[t] # ctx[t] =>
          \/ \E m \in Messages : CompleteTask(ctx[t].island, m)
          \/ \E r \in wire : ReleaseClaim(r) /\ r.island = ctx[t].island
                                           /\ r.msg = ctx[t].task]_claimVars

(* A receipt appears only while its own island holds the task, together with the end of
   that claim, and is never renumbered: completing a task a second time, after it was
   claimed again, answers with the first number. *)
ReceiptsAreEarned ==
    [][\A i \in Islands, m \in Messages : receipt'[i][m] # receipt[i][m] =>
          receipt[i][m] = 0 /\ Holds(i, m) /\ ctx'[TerminalOf[m]].task = NoTask]_claimVars
====
