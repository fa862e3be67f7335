---- MODULE TaskEscalation ----
(* Subscriptions to tasks and what happens when one times out: the subscription
   manager's map with its cleanup timer, the escalation records, and the nightwatch
   cycles that retry a task or tell root about it.

   Everything runs on one event loop.  A cycle gives way at its awaits only, but
   nothing keeps two cycles apart: the timer starts the next one whether or not the
   last one has ended.  All of this is in memory and a restart forgets it.

   A subscription's id is a random UUID.  The model takes one that nothing refers to
   any more for a fresh one.

   A definition whose comment begins with `Mistake:` is a wrong form of the one that
   follows it; no action uses it. *)
EXTENDS Naturals, FiniteSets

CONSTANTS
    Tasks,
    Ids,            \* subscriptions that exist, or are still referred to, at a time
    Cycles,         \* nightwatch cycles that may overlap
    NoId,
    MaxRetries,     \* EscalationConfig.maxRetries
    MaxAsked,       \* bound on the subscriptions made by agents and by the startup
    Cap             \* where the count of attempts stops; 0 where no property asks for it

ASSUME EscalationConstants ==
    /\ Ids \subseteq Nat
    /\ NoId \notin Ids
    /\ MaxRetries \in Nat /\ MaxAsked \in Nat /\ Cap \in Nat

VARIABLES
    subs,       \* the subscription map: which ids it holds, and whether they have expired
    target,     \* the task each of them is for
    record,     \* the escalation record of a subscription
    registered, \* tasks whose status in the message registry is DONE or COMPLETED
    cycle,      \* what each nightwatch cycle is doing in its escalation watch
    asked,      \* subscriptions made so far by others than a retry
    attempts,   \* history: retries of each task
    told,       \* history: notices in root's inbox about a subscription, up to two
    reopened    \* history: subscriptions whose record somebody resolved

history == <<attempts, told, reopened>>
vars == <<subs, target, record, registered, cycle, asked, history>>

NoRecord == [count |-> 0, status |-> "none"]
Rest == [pc |-> "rest", todo |-> {}, cur |-> NoId]

EscalationTypeOK ==
    /\ subs \in [Ids -> {"free", "live", "expired"}]
    /\ target \in [Ids -> Tasks]
    /\ record \in [Ids -> [count : 0..MaxRetries,
                            status : {"none", "active", "escalated", "resolved"}]]
    /\ registered \subseteq Tasks
    /\ cycle \in [Cycles -> [pc : {"rest", "walk", "retry", "extend", "tell", "leave"},
                             todo : SUBSET Ids, cur : Ids \union {NoId}]]
    /\ asked \in 0..MaxAsked
    /\ attempts \in [Tasks -> 0..Cap]
    /\ told \in [Ids -> 0..2]
    /\ reopened \subseteq Ids

Init ==
    /\ subs = [i \in Ids |-> "free"]
    /\ target \in [Ids -> Tasks]
    /\ record = [i \in Ids |-> NoRecord]
    /\ registered = {}
    /\ cycle = [c \in Cycles |-> Rest]
    /\ asked = 0
    /\ attempts = [t \in Tasks |-> 0]
    /\ told = [i \in Ids |-> 0]
    /\ reopened = {}

CountUp(n, cap) == IF n < cap THEN n + 1 ELSE cap

(* --- the subscription manager ------------------------------------------------------- *)

Referred == UNION {cycle[c].todo \union {cycle[c].cur} : c \in Cycles}
Unused == {i \in Ids : subs[i] = "free" /\ i \notin Referred}

(* The records and the history after a step; of an id that nothing refers to any more
   there is none left. *)
Keep(records, notices, again) ==
    /\ record' = [i \in Ids |-> IF i \in Unused' THEN NoRecord ELSE records[i]]
    /\ told' = [i \in Ids |-> IF i \in Unused' THEN 0 ELSE notices[i]]
    /\ reopened' = again \ Unused'

(* subscribe(): a new id, and with it no record. *)
Subscribe(t) ==
    \E i \in Unused :
        /\ \A j \in Unused : i <= j
        /\ subs' = [subs EXCEPT ![i] = "live"]
        /\ target' = [target EXCEPT ![i] = t]

(* subscribe_to_task, and the checkpoints subscribed to at startup. *)
Ask(t) ==
    /\ asked < MaxAsked
    /\ asked' = asked + 1
    /\ Subscribe(t)
    /\ UNCHANGED <<record, registered, cycle, history>>

(* The unsubscribe tool. *)
Unsubscribe(i) ==
    /\ subs[i] # "free"
    /\ subs' = [subs EXCEPT ![i] = "free"]
    /\ UNCHANGED <<target, registered, cycle, asked, attempts>>
    /\ Keep(record, told, reopened)

Expire(i) ==
    /\ subs[i] = "live"
    /\ subs' = [subs EXCEPT ![i] = "expired"]
    /\ UNCHANGED <<target, record, registered, cycle, asked, history>>

(* cleanupExpired, every sixty seconds. *)
Expired == {i \in Ids : subs[i] = "expired"}

Cleanup ==
    /\ Expired # {}
    /\ subs' = [i \in Ids |-> IF i \in Expired THEN "free" ELSE subs[i]]
    /\ UNCHANGED <<target, registered, cycle, asked, attempts>>
    /\ Keep(record, told, reopened)

(* --- the escalation watch of one nightwatch cycle --------------------------------------- *)

(* The watch takes its list of expired subscriptions once, at the start.  An id must be
   left that no list holds, or the model runs out of them for good. *)
CycleStarts(c) ==
    /\ cycle[c].pc = "rest"
    /\ Expired # {} /\ ~(Ids \subseteq Referred \union Expired)
    /\ cycle' = [cycle EXCEPT ![c] = [Rest EXCEPT !.pc = "walk", !.todo = Expired]]
    /\ UNCHANGED <<subs, target, record, registered, asked, history>>

\* Mistake: an escalated subscription comes round again.
NeedsHandlingAgain(i) == target[i] \notin registered

\* Mistake: the registry is not asked.
NeedsHandlingAnyway(i) == record[i].status # "escalated"

(* A subscription the loop does something about: its task is not done, and root has not
   been told. *)
NeedsHandling(i) == target[i] \notin registered /\ record[i].status # "escalated"

(* How far the loop gets before its next await: what it passes, and the subscription it
   comes to, if any.  The list is in no particular order. *)
Strides(todo) ==
    LET idle == {i \in todo : ~NeedsHandling(i)}
    IN  IF idle = todo THEN {[passed |-> todo, next |-> NoId]}
        ELSE [passed : SUBSET idle, next : todo \ idle]

(* What handleTimeout does to a record before its first await. *)
Retried(r) == [count |-> r.count + 1, status |-> IF r.status = "none" THEN "active" ELSE r.status]
Escalated(r) == [r EXCEPT !.status = "escalated"]

\* Mistake: one retry too many.
MayRetryOnceMore(r) == r.count <= MaxRetries

\* Mistake: one retry too few.
MayRetryOneLess(r) == r.count + 1 < MaxRetries

MayRetry(r) == r.count < MaxRetries

(* The loop, up to its next await: subscriptions of tasks that are done are dropped, then
   the first one left is retried or escalated. *)
Walk(c) ==
    /\ cycle[c].pc = "walk"
    /\ UNCHANGED <<target, registered, asked, attempts>>
    /\ \E stride \in Strides(cycle[c].todo) :
        LET i == stride.next
            at(pc) == [pc |-> pc, todo |-> cycle[c].todo \ (stride.passed \union {i}), cur |-> i]
        IN  /\ subs' = [j \in Ids |-> IF j \in stride.passed /\ target[j] \in registered
                                      THEN "free" ELSE subs[j]]
            /\ \/ /\ i = NoId
                  /\ cycle' = [cycle EXCEPT ![c] = Rest]
                  /\ Keep(record, told, reopened)
               \/ /\ i # NoId /\ MayRetry(record[i])
                  /\ cycle' = [cycle EXCEPT ![c] = at("retry")]
                  /\ Keep([record EXCEPT ![i] = Retried(@)], told, reopened)
               \/ /\ i # NoId /\ ~MayRetry(record[i])
                  /\ cycle' = [cycle EXCEPT ![c] = at("tell")]
                  /\ Keep([record EXCEPT ![i] = Escalated(@)], told, reopened)

(* The nudge, or the request for a restart in the terminal's inbox.  Whether it succeeds
   changes nothing else. *)
Attempt(c) ==
    /\ cycle[c].pc = "retry"
    /\ attempts' = [attempts EXCEPT ![target[cycle[c].cur]] = CountUp(@, Cap)]
    /\ cycle' = [cycle EXCEPT ![c].pc = "extend"]
    /\ UNCHANGED <<subs, target, record, registered, asked, told, reopened>>

(* Back in the loop, done with the subscription. *)
Resume(c) == cycle' = [cycle EXCEPT ![c].pc = "walk", ![c].cur = NoId]

(* "Extend subscription timeout": a new subscription, beside the expired one. *)
Extend(c) ==
    /\ cycle[c].pc = "extend"
    /\ Subscribe(target[cycle[c].cur])
    /\ Resume(c)
    /\ UNCHANGED <<registered, asked, attempts>>
    /\ Keep(record, told, reopened)

(* The file in root's inbox. *)
TellRoot(c) ==
    /\ cycle[c].pc = "tell"
    /\ told' = [told EXCEPT ![cycle[c].cur] = CountUp(@, 2)]
    /\ cycle' = [cycle EXCEPT ![c].pc = "leave"]
    /\ UNCHANGED <<subs, target, record, registered, asked, attempts, reopened>>

(* It cannot be written: the exception ends the cycle. *)
TellFails(c) ==
    /\ cycle[c].pc = "tell"
    /\ cycle' = [cycle EXCEPT ![c] = Rest]
    /\ UNCHANGED <<subs, target, registered, asked, attempts>>
    /\ Keep(record, told, reopened)

(* After the notification: the escalated subscription is dropped. *)
Leave(c) ==
    /\ cycle[c].pc = "leave"
    /\ subs' = [subs EXCEPT ![cycle[c].cur] = "free"]
    /\ Resume(c)
    /\ UNCHANGED <<target, registered, asked, attempts>>
    /\ Keep(record, told, reopened)

(* --- around it ---------------------------------------------------------------------------- *)

(* POST /escalation/:id/resolve. *)
Resolve(i) ==
    /\ record[i].status \in {"active", "escalated"}
    /\ record' = [record EXCEPT ![i] = [@ EXCEPT !.status = "resolved"]]
    /\ reopened' = reopened \union {i}
    /\ UNCHANGED <<subs, target, registered, cycle, asked, attempts, told>>

(* The registry learns that a task is done, from the status line of its file. *)
Register(t) ==
    /\ t \notin registered
    /\ registered' = registered \union {t}
    /\ UNCHANGED <<subs, target, record, cycle, asked, history>>

Restart ==
    /\ Unused # Ids
    /\ subs' = [i \in Ids |-> "free"]
    /\ cycle' = [c \in Cycles |-> Rest]
    /\ UNCHANGED <<target, registered, asked, attempts>>
    /\ Keep(record, told, reopened)

CycleSteps(c) == Walk(c) \/ Attempt(c) \/ Extend(c) \/ TellRoot(c) \/ TellFails(c) \/ Leave(c)

Next ==
    \/ \E t \in Tasks : Ask(t) \/ Register(t)
    \/ \E i \in Ids : Unsubscribe(i) \/ Expire(i) \/ Resolve(i)
    \/ Cleanup
    \/ \E c \in Cycles : CycleStarts(c) \/ CycleSteps(c)
    \/ Restart

Spec == Init /\ [][Next]_vars

(* Time passes, the cleanup timer fires, and what a cycle awaits is answered.  Nothing is
   assumed of when cycles start: a cycle may fail before it comes to its escalation watch. *)
Fairness ==
    /\ WF_vars(\E i \in Ids : Expire(i))
    /\ WF_vars(Cleanup)
    /\ \A c \in Cycles : WF_vars(CycleSteps(c))

FairSpec == Spec /\ Fairness

(* --- properties ------------------------------------------------------------------------- *)

(* However many cycles handle the same expired subscription at once, root is told of it
   only after maxRetries retries. *)
EscalationIsEarned ==
    \A i \in Ids :
        record[i].status = "escalated" \/ told[i] > 0 => record[i].count = MaxRetries

(* Root gets one notice about a subscription, unless its record was resolved while the
   subscription was still in some cycle's list. *)
RootIsToldOnce == \A i \in Ids : told[i] > 1 => i \in reopened

(* Once the registry knows that a task is done, the watch over it comes to an end: the
   subscriptions that retries keep making are not renewed for ever. *)
Watched(t) ==
    \/ \E i \in Ids : subs[i] # "free" /\ target[i] = t
    \/ \E c \in Cycles : cycle[c].cur # NoId /\ target[cycle[c].cur] = t

DoneEndsTheWatch == \A t \in Tasks : t \in registered ~> ~Watched(t)

(* The retries of a task end in an escalation: a task somebody subscribed to is retried no
   more than maxRetries times for that subscription. *)
RetriesEndInEscalation == \A t \in Tasks : attempts[t] <= MaxRetries * asked
====
