---- MODULE RunnerDispatch ----
(* One runner process for the island Home, against the server's claim register: the
   start with its backlog baseline, the poll tick, the launch-attempt store and its
   file, the dispatch gate, the headless sessions, and the shutdown coordinator.

   A tick is a chain of awaits (fetch, claim, release); what it does between two of
   them is one step, so that session exits and signals fall at the awaits only.  The
   operator's command line, the server, the agents and a kill -9 keep no such order.

   A definition whose comment begins with `Mistake:` is a wrong form of the one that
   follows it; no action uses it. *)
EXTENDS TaskClaims

CONSTANTS
    Home,               \* the island of the runner's token
    Runner,             \* the runner as a caller of the server
    Listed,             \* messages the deployment's allowlist lets through
    InitialUnread,      \* messages in the inboxes before the runner's first start
    Quarantine,         \* quarantine_existing_on_first_start
    MaxAttempts,        \* max_attempts
    Outcomes,           \* what the sink's dispatch answers in this instance
    MaxLaunches,        \* a launch grows fourteen days old only below this many
    MaxFaults,          \* bound on broken calls, failed saves, gate and marker faults
    MaxStarts           \* bound on process starts

ASSUME RunnerConstants ==
    /\ Home \in Islands /\ Runner \in Callers
    /\ Listed \subseteq Messages /\ InitialUnread \subseteq Messages
    /\ Quarantine \in BOOLEAN
    /\ MaxAttempts \in Nat \ {0}
    /\ Outcomes \subseteq {"started", "refused", "permanent", "threw", "marker"}
    /\ MaxLaunches \in Nat /\ MaxFaults \in Nat /\ MaxStarts \in Nat

VARIABLES
    proc,       \* the process: down, baseline, running, draining, counting, or exited with 0
    tick,       \* the poll tick under way; in "baseline", the reading of the inboxes
    mem,        \* ProcessedStore.entries
    disk,       \* the entries in runner-state.json
    file,       \* whether that file is there and parses
    gate,       \* messages granted in dispatch-gates.json
    gateStuck,  \* the gate's lock directory was left behind by a crash
    children,   \* session processes
    failed,     \* a failure the coordinator or the poll loop has recorded
    faults,     \* faults so far
    starts,     \* process starts so far
    launches,   \* history: sessions started for a message
    losses,     \* history: how often the store forgot launches of a message
    unsure,     \* history: messages with a claim or release of unknown outcome
    unspent     \* history: messages granted and not launched since

storeVars == <<mem, disk, file>>
gateVars == <<gate, gateStuck, unspent>>
history == <<launches, losses, unsure>>
runnerVars == <<proc, tick, storeVars, gateVars, children, failed, faults, starts, history>>
vars == <<claimVars, runnerVars>>

Fault == faults < MaxFaults /\ faults' = faults + 1

(* --- the attempt store ---------------------------------------------------------------- *)

(* Launches so far and the age of the last one: within the cooldown, due again, or past
   the fourteen days after which save() drops the entry. *)
Entries == [tries : 0..MaxAttempts, age : {"cooling", "due", "old"}, barred : BOOLEAN]
NoEntry == [tries |-> 0, age |-> "due", barred |-> FALSE]
Empty == [m \in Messages |-> NoEntry]

\* Mistake: one launch too many.
ShouldLaunchAgain(store, m) ==
    ~store[m].barred /\ store[m].tries <= MaxAttempts /\ store[m].age # "cooling"

ShouldLaunch(store, m) ==
    ~store[m].barred /\ store[m].tries < MaxAttempts /\ store[m].age # "cooling"

\* Mistake: every launch is recorded as the first.
RecordLaunchAsFirst(store, m) ==
    [store EXCEPT ![m] = [tries |-> 1, age |-> "cooling", barred |-> FALSE]]

RecordLaunch(store, m) ==
    [store EXCEPT ![m] = [tries |-> @.tries + 1, age |-> "cooling", barred |-> FALSE]]

RecordQuarantine(store, ms) ==
    [m \in Messages |-> IF m \in ms THEN [NoEntry EXCEPT !.barred = TRUE] ELSE store[m]]

(* save() drops what is old, unless it is quarantined. *)
Pruned(store) ==
    [m \in Messages |-> IF store[m].age = "old" /\ ~store[m].barred THEN NoEntry ELSE store[m]]

(* What load() gives: a missing or unreadable file is an empty store. *)
Loaded == IF file THEN disk ELSE Empty

(* A store that forgot a launch, or a quarantine. *)
Forgets(before, after) ==
    LET lost(m) == ~after[m].barred /\ (before[m].barred \/ after[m].tries < before[m].tries)
    IN  losses' = [m \in Messages |-> losses[m] + (IF lost(m) THEN 1 ELSE 0)]

(* save() never throws: a write that fails leaves the file as it was, or cut short. *)
SaveStore ==
    /\ mem' = Pruned(mem)
    /\ Forgets(mem, mem')
    /\ \/ disk' = mem' /\ file' = TRUE /\ UNCHANGED faults
       \/ Fault /\ UNCHANGED disk /\ file' \in {file, FALSE}

(* --- sessions and the tick -------------------------------------------------------------- *)

(* active: in the launcher's table; killed: in it, and told to end by the shutdown; stray:
   in no table of a living runner. *)
Sessions == [msg : Messages, kind : {"active", "killed", "stray"}]
Session(m, kind) == [msg |-> m, kind |-> kind]
Tracked == {s \in children : s.kind # "stray"}
IsBusy(t, sessions) == \E s \in sessions : s.kind # "stray" /\ TerminalOf[s.msg] = t

NoTick == [pc |-> "rest", walk |-> {}, todo |-> {}, cur |-> NoTask, why |-> "none",
           granted |-> FALSE, dirty |-> FALSE]
Ticks == [pc : {"rest", "fetch", "reading", "claiming", "releasing", "ending"},
          walk : SUBSET Terminals, todo : SUBSET Messages, cur : Tasks,
          why : {"none", "stopping", "refused", "permanent", "threw"},
          granted : BOOLEAN, dirty : BOOLEAN]

Stopping == proc \in {"draining", "counting"}
Alive == proc \notin {"down", "exited"}
Unread(t) == {m \in Messages : TerminalOf[m] = t /\ inbox[m] = "UNREAD"}

DispatchTypeOK ==
    /\ ClaimTypeOK
    /\ proc \in {"down", "baseline", "running", "draining", "counting", "exited"}
    /\ tick \in Ticks
    /\ mem \in [Messages -> Entries] /\ disk \in [Messages -> Entries] /\ file \in BOOLEAN
    /\ gate \subseteq Messages /\ gateStuck \in BOOLEAN
    /\ children \subseteq Sessions
    /\ failed \in BOOLEAN /\ faults \in 0..MaxFaults /\ starts \in 0..MaxStarts
    /\ launches \in [Messages -> Nat] /\ losses \in [Messages -> Nat]
    /\ unsure \subseteq Messages /\ unspent \subseteq Messages

Init ==
    /\ ClaimInitWith([t \in Terminals |-> "idle"],
                     [m \in Messages |-> IF m \in InitialUnread THEN "UNREAD" ELSE "absent"])
    /\ proc = "down" /\ tick = NoTick
    /\ mem = Empty /\ disk = Empty /\ file = FALSE
    /\ gate = {} /\ gateStuck = FALSE /\ unspent = {}
    /\ children = {} /\ failed = FALSE
    /\ faults = 0 /\ starts = 0
    /\ launches = [m \in Messages |-> 0]
    /\ losses = [m \in Messages |-> 0]
    /\ unsure = {}

(* --- starting -------------------------------------------------------------------------- *)

(* An entry as it may be found when the process is started again. *)
Later(entry) ==
    LET ages == CASE entry.tries = 0 -> {entry.age}
                  [] entry.tries > 0 /\ entry.age = "cooling" -> {"cooling", "due", "old"}
                  [] OTHER -> {entry.age, "old"}
    IN  {[entry EXCEPT !.age = a] : a \in ages}

(* main(): load the store; only a missing or unreadable file asks for the baseline. *)
Start ==
    /\ ~Alive /\ starts < MaxStarts
    /\ starts' = starts + 1
    /\ mem' \in {store \in [Messages -> Entries] : \A m \in Messages : store[m] \in Later(Loaded[m])}
    /\ failed' = FALSE
    /\ IF Quarantine /\ ~file
       THEN proc' = "baseline" /\ tick' = [NoTick EXCEPT !.walk = Terminals]
       ELSE proc' = "running" /\ tick' = NoTick
    /\ UNCHANGED <<claimVars, disk, file, gateVars, children, faults, history>>

BaselineReads(t) ==
    /\ proc = "baseline" /\ t \in tick.walk
    /\ tick' = [tick EXCEPT !.walk = @ \ {t}, !.todo = @ \union Unread(t)]
    /\ UNCHANGED <<claimVars, proc, storeVars, gateVars, children, failed, faults, starts,
                   history>>

(* Every inbox read: what is unread is barred, and saved before the first poll. *)
BaselineEnds ==
    /\ proc = "baseline" /\ tick.walk = {}
    /\ mem' = RecordQuarantine(mem, tick.todo)
    /\ \/ disk' = mem' /\ file' = TRUE /\ UNCHANGED faults
       \/ Fault /\ UNCHANGED <<disk, file>>
    /\ proc' = "running" /\ tick' = NoTick
    /\ UNCHANGED <<claimVars, gateVars, children, failed, starts, history>>

(* One inbox cannot be read: the startup failure goes to the coordinator. *)
BaselineFails ==
    /\ proc = "baseline" /\ tick.walk # {}
    /\ Fault
    /\ proc' = "draining" /\ failed' = TRUE /\ tick' = NoTick
    /\ UNCHANGED <<claimVars, storeVars, gateVars, children, starts, history>>

(* --- the poll tick ---------------------------------------------------------------------- *)

TickStarts ==
    /\ proc = "running" /\ tick.pc = "rest"
    /\ tick' = [NoTick EXCEPT !.pc = "fetch", !.walk = Terminals]
    /\ UNCHANGED <<claimVars, proc, storeVars, gateVars, children, failed, faults, starts,
                   history>>

(* The server lists the unread inbox now; the answer arrives with FetchDone. *)
FetchUnread(t) ==
    /\ tick.pc = "fetch" /\ t \in tick.walk /\ ~Stopping
    /\ tick' = [tick EXCEPT !.pc = "reading", !.walk = @ \ {t}, !.todo = Unread(t)]
    /\ UNCHANGED <<claimVars, proc, storeVars, gateVars, children, failed, faults, starts,
                   history>>

(* The rest of the list, from here, with the store and the sessions as they are now.  A
   stop ends the tick.  Messages that fail a filter are passed over; the next one that
   passes them all is claimed, and without one the terminal is done. *)
Scan(here, store, sessions) ==
    LET ready == {m \in here.todo : /\ m \in Listed \/ m \in gate
                                    /\ ~IsBusy(TerminalOf[m], sessions)
                                    /\ ShouldLaunch(store, m)}
        next == [here EXCEPT !.cur = NoTask, !.why = "none", !.granted = FALSE, !.todo = {}]
    IN  \/ /\ Stopping
           /\ tick' = [next EXCEPT !.pc = "ending"]
           /\ reply' = [reply EXCEPT ![Runner] = "none"]
           /\ UNCHANGED wire
       \/ /\ ~Stopping /\ ready = {}
          /\ tick' = [next EXCEPT !.pc = "fetch"]
          /\ reply' = [reply EXCEPT ![Runner] = "none"]
          /\ UNCHANGED wire
       \/ /\ ~Stopping
          /\ \E m \in ready, passed \in SUBSET (here.todo \ ready) :
                tick' = [next EXCEPT !.pc = "claiming", !.cur = m, !.granted = m \in gate,
                                     !.todo = here.todo \ ({m} \union passed)]
          /\ Send("claim", tick'.cur, Home, Runner)
          /\ reply' = [reply EXCEPT ![Runner] = "none"]

(* tick.cur is given back, and the tick waits for the answer. *)
GiveBack(why) ==
    /\ tick' = [tick EXCEPT !.pc = "releasing", !.why = why]
    /\ Send("release", tick.cur, Home, Runner)
    /\ reply' = [reply EXCEPT ![Runner] = "none"]

(* pollOnce throws: the loop records the failure and the tick saves nothing. *)
Throws ==
    /\ failed' = TRUE
    /\ tick' = NoTick
    /\ reply' = [reply EXCEPT ![Runner] = "none"]
    /\ UNCHANGED wire

FetchDone ==
    /\ tick.pc = "reading"
    /\ Scan(tick, mem, children)
    /\ UNCHANGED <<register, inbox, proc, storeVars, gateVars, children, failed, faults, starts,
                   history>>

FetchFails ==
    /\ tick.pc = "reading" /\ Fault
    /\ tick' = [tick EXCEPT !.pc = "fetch", !.todo = {}]
    /\ UNCHANGED <<claimVars, proc, storeVars, gateVars, children, failed, starts, history>>

ClaimRefused ==
    /\ tick.pc = "claiming" /\ reply[Runner] = "refused"
    /\ \/ Stopping /\ Throws
       \/ ~Stopping /\ Scan(tick, mem, children) /\ UNCHANGED failed
    /\ UNCHANGED <<register, inbox, proc, storeVars, gateVars, children, faults, starts, history>>

\* Mistake: the tick ends with the claim it won.
ClaimedTooLateKept ==
    /\ tick.pc = "claiming" /\ reply[Runner] = "ok" /\ Stopping
    /\ tick' = [tick EXCEPT !.pc = "ending", !.cur = NoTask, !.granted = FALSE, !.todo = {}]
    /\ reply' = [reply EXCEPT ![Runner] = "none"]
    /\ UNCHANGED <<register, inbox, wire, proc, storeVars, gateVars, children, failed, faults,
                   starts, history>>

(* The claim won while a shutdown began: it must not outlive the tick. *)
ClaimedTooLate ==
    /\ tick.pc = "claiming" /\ reply[Runner] = "ok" /\ Stopping
    /\ GiveBack("stopping")
    /\ UNCHANGED <<register, inbox, proc, storeVars, gateVars, children, failed, faults, starts,
                   history>>

\* Mistake: the launch leaves the grant where it is.
ConsumeGrantNever(m, granted) ==
    /\ unspent' = unspent \ {m}
    /\ UNCHANGED <<gate, faults>>

(* consume() runs after the start.  It throws when the lock directory exists, because a
   crash left it or the command line is writing just then, and the grant stays. *)
ConsumeGrant(m, granted) ==
    \/ /\ ~granted
       /\ unspent' = unspent \ {m}
       /\ UNCHANGED <<gate, faults>>
    \/ /\ granted /\ ~gateStuck
       /\ gate' = gate \ {m} /\ unspent' = unspent \ {m}
       /\ UNCHANGED faults
    \/ /\ granted
       /\ (gateStuck /\ UNCHANGED faults) \/ (~gateStuck /\ Fault)
       /\ UNCHANGED <<gate, unspent>>

Launched ==
    LET m == tick.cur IN
    /\ tick.pc = "claiming" /\ reply[Runner] = "ok" /\ ~Stopping
    /\ "started" \in Outcomes /\ ~IsBusy(TerminalOf[m], children)
    /\ children' = children \union {Session(m, "active")}
    /\ launches' = [launches EXCEPT ![m] = @ + 1]
    /\ mem' = RecordLaunch(mem, m)
    /\ ConsumeGrant(m, tick.granted)
    /\ Scan([tick EXCEPT !.dirty = TRUE], mem', children')
    /\ UNCHANGED <<register, inbox, proc, disk, file, gateStuck, failed, starts, losses, unsure>>

\* Mistake: the process without a marker stays in the launcher's table.
LaunchRefusedButTracked ==
    /\ tick.pc = "claiming" /\ reply[Runner] = "ok" /\ ~Stopping
    /\ \/ \E why \in Outcomes \intersect {"refused", "permanent", "threw"} :
            GiveBack(why) /\ UNCHANGED children
       \/ /\ "marker" \in Outcomes
          /\ children' = children \union {Session(tick.cur, "active")}
          /\ GiveBack("refused")
    /\ UNCHANGED <<register, inbox, proc, storeVars, gateVars, failed, faults, starts, history>>

(* The sink starts nothing: it refuses, for now or for good, or it throws; or the process
   came up and was given up on, because its marker could not be written. *)
LaunchRefused ==
    /\ tick.pc = "claiming" /\ reply[Runner] = "ok" /\ ~Stopping
    /\ \/ \E why \in Outcomes \intersect {"refused", "permanent", "threw"} :
            GiveBack(why) /\ UNCHANGED children
       \/ /\ "marker" \in Outcomes
          /\ children' = children \union {Session(tick.cur, "stray")}
          /\ GiveBack("refused")
    /\ UNCHANGED <<register, inbox, proc, storeVars, gateVars, failed, faults, starts, history>>

Released ==
    /\ tick.pc = "releasing" /\ reply[Runner] = "ok"
    /\ \/ /\ tick.why = "stopping"
          /\ tick' = [tick EXCEPT !.pc = "ending", !.cur = NoTask, !.why = "none",
                                  !.granted = FALSE, !.todo = {}]
          /\ reply' = [reply EXCEPT ![Runner] = "none"]
          /\ UNCHANGED <<wire, mem, failed>>
       \/ /\ tick.why = "refused"
          /\ Scan(tick, mem, children)
          /\ UNCHANGED <<mem, failed>>
       \/ /\ tick.why = "permanent"
          /\ mem' = RecordQuarantine(mem, {tick.cur})
          /\ Scan([tick EXCEPT !.dirty = TRUE], mem', children)
          /\ UNCHANGED failed
       \/ tick.why = "threw" /\ Throws /\ UNCHANGED mem
    /\ UNCHANGED <<register, inbox, proc, disk, file, gateVars, children, faults, starts, history>>

ReleaseRefused ==
    /\ tick.pc = "releasing" /\ reply[Runner] = "refused"
    /\ Throws
    /\ UNCHANGED <<register, inbox, proc, storeVars, gateVars, children, faults, starts, history>>

(* The rest of the inboxes is left alone once a stop is seen. *)
TickEnds ==
    /\ \/ tick.pc = "ending"
       \/ tick.pc = "fetch" /\ (tick.walk = {} \/ Stopping)
    /\ tick' = NoTick
    /\ \/ tick.dirty /\ SaveStore
       \/ ~tick.dirty /\ UNCHANGED <<storeVars, losses, faults>>
    /\ UNCHANGED <<claimVars, proc, gateVars, children, failed, starts, launches, unsure>>

(* The runner's requests, as requests nobody waits for. *)
Abandoned ==
    {[r EXCEPT !.who = IF r.who = Runner THEN Stray ELSE r.who] : r \in wire}

(* The call breaks, before or after the server handled it: the runner sees a failure. *)
CallBreaks ==
    /\ tick.pc \in {"claiming", "releasing"} /\ reply[Runner] # "refused"
    /\ Fault
    /\ wire' = Abandoned
    /\ reply' = [reply EXCEPT ![Runner] = "refused"]
    /\ unsure' = unsure \union {tick.cur}
    /\ UNCHANGED <<register, inbox, proc, tick, storeVars, gateVars, children, failed, starts,
                   launches, losses>>

(* --- shutdown and crash ------------------------------------------------------------------ *)

\* Mistake: the sessions are left to end by themselves.
StopWaits ==
    /\ proc \in {"baseline", "running"}
    /\ proc' = "draining"
    /\ tick' = IF proc = "baseline" THEN NoTick ELSE tick
    /\ UNCHANGED <<claimVars, storeVars, gateVars, children, failed, faults, starts, history>>

(* SIGTERM: the poll gate closes and every tracked session is told to end, at once. *)
Stop ==
    /\ proc \in {"baseline", "running"}
    /\ proc' = "draining"
    /\ tick' = IF proc = "baseline" THEN NoTick ELSE tick
    /\ children' = {IF s.kind = "active" THEN Session(s.msg, "killed") ELSE s : s \in children}
    /\ UNCHANGED <<claimVars, storeVars, gateVars, failed, faults, starts, history>>

(* The tick is over: the store is saved, before sessions are counted. *)
DrainDone ==
    /\ proc = "draining" /\ tick.pc = "rest"
    /\ SaveStore
    /\ proc' = "counting"
    /\ UNCHANGED <<claimVars, tick, gateVars, children, failed, starts, launches, unsure>>

(* What a process takes with it: its memory, its table of sessions, its open calls. *)
Gone(sessions) ==
    /\ tick' = NoTick
    /\ mem' = Empty
    /\ children' = {Session(s.msg, "stray") : s \in sessions}
    /\ wire' = Abandoned
    /\ reply' = [reply EXCEPT ![Runner] = "none"]
    /\ unsure' = IF tick.cur = NoTask THEN unsure ELSE unsure \union {tick.cur}

(* checkActiveCount: exit only when no session is left, with 0 only without a failure. *)
CountActive ==
    /\ proc = "counting" /\ Tracked = {}
    /\ proc' = IF failed THEN "down" ELSE "exited"
    /\ Gone(children)
    /\ Forgets(mem, Loaded)
    /\ UNCHANGED <<register, inbox, disk, file, gateVars, failed, faults, starts, launches>>

(* The shutdown deadline passes, or the process is killed: nothing is saved. *)
Dies ==
    /\ Alive
    /\ proc' = "down"
    /\ Gone(children)
    /\ Forgets(mem, Loaded)
    /\ UNCHANGED <<register, inbox, disk, file, gateVars, failed, faults, starts, launches>>

(* Killed between the start of the session and the record of it: the grant stays, and so
   may the lock directory of a consume() under way. *)
DiesLaunching ==
    LET m == tick.cur IN
    /\ tick.pc = "claiming" /\ reply[Runner] = "ok" /\ ~Stopping
    /\ "started" \in Outcomes /\ ~IsBusy(TerminalOf[m], children)
    /\ proc' = "down"
    /\ Gone(children \union {Session(m, "active")})
    /\ Forgets(RecordLaunch(mem, m), Loaded)
    /\ launches' = [launches EXCEPT ![m] = @ + 1]
    /\ unspent' = IF tick.granted THEN unspent ELSE unspent \ {m}
    /\ gateStuck' \in {gateStuck, gateStuck \/ tick.granted}
    /\ UNCHANGED <<register, inbox, disk, file, gate, failed, faults, starts>>

(* --- the dispatch gate's command line -------------------------------------------------- *)

(* grant or pause: read, change and write under the lock; refused while it exists. *)
CliWrites ==
    /\ ~gateStuck
    /\ \/ \E m \in Messages \ Listed :
            gate' = gate \union {m} /\ unspent' = unspent \union {m}
       \/ \E t \in Terminals :
            gate' = {m \in gate : TerminalOf[m] # t} /\ UNCHANGED unspent
    /\ UNCHANGED <<claimVars, proc, tick, storeVars, gateStuck, children, failed, faults,
                   starts, history>>

(* The command line is killed while it holds the lock. *)
CliDies ==
    /\ ~gateStuck /\ gateStuck' = TRUE /\ Fault
    /\ UNCHANGED <<claimVars, proc, tick, storeVars, gate, unspent, children, failed, starts,
                   history>>

(* --- sessions, agents and time --------------------------------------------------------- *)

(* A session ends: by itself, by its timeout, or because the shutdown ended it. *)
ChildExits(s) ==
    /\ s \in children
    /\ children' = children \ {s}
    /\ UNCHANGED <<claimVars, proc, tick, storeVars, gateVars, failed, faults, starts, history>>

AgentCompletes(s) ==
    /\ s \in children
    /\ CompleteTask(Home, s.msg) \/ CompleteAgain(Home, s.msg)
    /\ UNCHANGED runnerVars

(* Time passes for the last launch of m; what it does to the file's entry shows at the
   next load. *)
CoolDown(m) ==
    /\ mem[m].age = "cooling"
    /\ mem' = [mem EXCEPT ![m] = [@ EXCEPT !.age = "due"]]
    /\ UNCHANGED <<claimVars, proc, tick, disk, file, gateVars, children, failed, faults, starts,
                   history>>

GrowOld(m) ==
    /\ launches[m] < MaxLaunches
    /\ mem[m].age = "due" /\ mem[m].tries > 0
    /\ mem' = [mem EXCEPT ![m] = [@ EXCEPT !.age = "old"]]
    /\ UNCHANGED <<claimVars, proc, tick, disk, file, gateVars, children, failed, faults, starts,
                   history>>

(* The server's handlers. *)
ServerSteps(callers) ==
    /\ \E r \in wire : /\ r.who \in callers
                       /\ ClaimReadsInbox(r) \/ ClaimCommits(r) \/ ReleaseClaim(r)
    /\ UNCHANGED runnerVars

(* Whoever writes to an inbox, and the agents that read or acknowledge a message. *)
InboxSteps ==
    /\ \E m \in Messages : Deliver(m) \/ ReadMessage(m)
    /\ UNCHANGED runnerVars

(* --- the specification ------------------------------------------------------------------ *)

StartSteps == Start \/ (\E t \in Terminals : BaselineReads(t)) \/ BaselineEnds \/ BaselineFails

TickSteps ==
    \/ \E t \in Terminals : FetchUnread(t)
    \/ FetchDone \/ ClaimRefused \/ ClaimedTooLate \/ Launched \/ LaunchRefused
    \/ Released \/ ReleaseRefused \/ TickEnds

DrainSteps == DrainDone \/ CountActive

GateSteps == CliWrites \/ CliDies

AgentSteps == \E s \in children : ChildExits(s) \/ AgentCompletes(s)

TimePasses == \E m \in Messages : CoolDown(m) \/ GrowOld(m)

Next ==
    \/ StartSteps \/ TickStarts \/ TickSteps \/ FetchFails \/ CallBreaks
    \/ Stop \/ DrainSteps \/ Dies \/ DiesLaunching
    \/ GateSteps \/ AgentSteps \/ TimePasses
    \/ ServerSteps(Callers \union {Stray}) \/ InboxSteps

Spec == Init /\ [][Next]_vars

(* Calls are answered, a tick runs on, and a session that was told to end does.  Nothing
   is assumed of the shutdown deadline, of agents or of the operator. *)
Fairness ==
    /\ WF_vars(TickSteps) /\ WF_vars(DrainSteps)
    /\ WF_vars(ServerSteps({Runner}))
    /\ WF_vars(\E s \in children : s.kind = "killed" /\ ChildExits(s))

FairSpec == Spec /\ Fairness

(* --- properties --------------------------------------------------------------------------- *)

(* A session of a living runner works on a task its island holds, unless that task's
   completion is on record or a broken call left its claim in doubt: no path through claim,
   release, refusal, restart and a second launch leaves a session without its claim. *)
SessionHoldsClaim ==
    \A s \in Tracked : Holds(Home, s.msg) \/ receipt[Home][s.msg] # 0 \/ s.msg \in unsure

(* When the poll loop reports itself drained without a failure, no claim is left on a task
   no session was started for: a claim won during the shutdown was given back. *)
DrainedClaimsAreBacked ==
    (proc = "counting" /\ ~failed) =>
        \A m \in Messages : Holds(Home, m) => launches[m] > 0 \/ m \in unsure

(* A task is launched at most max_attempts times for each time the store lost track of it:
   a crash before the save, a failed save, a pruned entry. *)
RetriesAreBounded == \A m \in Messages : launches[m] <= MaxAttempts * (1 + losses[m])

(* A task outside the allowlist is launched only on a grant no launch has used, however
   claims, grants, pauses and ticks interleave; a grant whose consumption the lock or a
   crash prevented counts as unused. *)
GrantIsSingleUse ==
    [][\A m \in Messages \ Listed : launches'[m] > launches[m] => m \in unspent]_vars

(* A shutdown ends without the help of its deadline: whatever call the tick was in, the
   poll loop drains, and no session is left that nobody told to end. *)
DrainEnds == Stopping ~> ~Alive

(* First-start barrier: work that was unread before the runner's first start is never
   launched. *)
BacklogIsNeverLaunched == \A m \in InitialUnread : launches[m] = 0
====
