---- MODULE DoneReview ----
(* The review of DONE messages: nightwatch cycles that look for unread ones, the marks in
   the state file all watchers share, the reviews by the Architect and the Librarian in
   tmux sessions, and what comes of them, a notice in the terminal's inbox or the archive.

   A timer starts a cycle every two minutes (and a route whenever it is called), whether or
   not the last one has ended, and a review may take longer than that.  Cycles that overlap share the state file, which each
   of them reads, changes and writes back, the inbox, and the tmux session of a reviewer,
   whose name is fixed.

   A definition whose comment begins with `Mistake:` is a wrong form of the one that
   follows it; no action uses it. *)
EXTENDS Naturals, FiniteSets

CONSTANTS
    Dones,          \* DONE messages, all of one terminal
    NoDone,
    LevelsOf,       \* the review levels the front matter of a DONE may ask for
    MaxCycles,      \* bound on the nightwatch cycles
    MaxBoots        \* bound on the starts of the server

Levels == {"none", "light", "standard", "strict"}

ASSUME ReviewConstants ==
    /\ NoDone \notin Dones
    /\ LevelsOf \in [Dones -> SUBSET Levels]
    /\ MaxCycles \in Nat /\ MaxBoots \in Nat \ {0}

VARIABLES
    boots,      \* starts of the server so far
    up,         \* whether it runs
    outbox,     \* the file of a DONE: its status and the review level it asks for
    registry,   \* the DONEs that are UNREAD in the message registry
    marked,     \* the DONEs that have a mark in the state file
    cycle,      \* what each nightwatch cycle is doing
    review,     \* what a cycle's review by each reviewer is doing, and its verdict
    session,    \* the tmux session of a reviewer
    notices     \* the reject notices in the inbox: file name -> the DONE it is about

vars == <<boots, up, outbox, registry, marked, cycle, review, session, notices>>

Cycles == 1..MaxCycles
Reviewers == {"architect", "librarian"}
Numbers == 1..MaxCycles * Cardinality(Dones)    \* enough for a notice from every review

(* A session shows the first verdict that was said in it.  It is about the first DONE that
   was asked about. *)
NoSession == [up |-> FALSE, asked |-> NoDone, said |-> "none"]

NoReview == [pc |-> "rest", verdict |-> "none"]
NoReviews == [r \in Reviewers |-> NoReview]
AtRest == [pc |-> "rest", todo |-> {}, done |-> NoDone, content |-> {}, number |-> 0]

Marking == {"read", "write"}
Judging == {"open", "review", "number", "notify", "archive"}
Active == {"watch"} \union Marking \union Judging

CycleState == [pc : {"rest", "over"} \union Active, todo : SUBSET Dones,
               done : Dones \union {NoDone}, content : SUBSET Dones, number : {0} \union Numbers]

ReviewState == [pc : {"rest", "clean", "create", "ask", "wait", "close", "over"},
                verdict : {"none", "APPROVE", "REJECT", "TIMEOUT", "ERROR"}]

SessionState == [up : BOOLEAN, asked : Dones \union {NoDone}, said : {"none", "APPROVE", "REJECT"}]

(* A cycle has a DONE in hand from its mark to its verdict, and reviews only then. *)
Coherent(c) ==
    /\ cycle[c].pc \in Judging => cycle[c].done # NoDone
    /\ cycle[c].pc = "watch" => cycle[c].done = NoDone
    /\ cycle[c].pc # "review" => review[c] = NoReviews
    /\ ~up => cycle[c].pc \in {"rest", "over"}

ReviewTypeOK ==
    /\ boots \in 1..MaxBoots /\ up \in BOOLEAN /\ (~up => boots < MaxBoots)
    /\ outbox \in [Dones -> [status : {"UNREAD", "READ"}, level : Levels]]
    /\ registry \subseteq Dones /\ marked \subseteq Dones
    /\ cycle \in [Cycles -> CycleState]
    /\ review \in [Cycles -> [Reviewers -> ReviewState]]
    /\ session \in [Reviewers -> SessionState]
    /\ \A name \in DOMAIN notices : notices[name] \in Dones
    /\ \A c \in Cycles : Coherent(c)

Init ==
    /\ boots = 1 /\ up = TRUE
    /\ outbox \in {files \in [Dones -> [status : {"UNREAD"}, level : Levels]] :
                    \A d \in Dones : files[d].level \in LevelsOf[d]}
    /\ registry = {} /\ marked = {}
    /\ cycle = [c \in Cycles |-> AtRest]
    /\ review = [c \in Cycles |-> NoReviews]
    /\ session = [r \in Reviewers |-> NoSession]
    /\ notices = <<>>

(* --- around the cycles ---------------------------------------------------------------- *)

(* The registry learns of the file, or of its new status: the inbox watcher saw the change,
   or the server compared all files at its start. *)
Register(d) ==
    /\ up
    /\ registry' = IF outbox[d].status = "UNREAD" THEN registry \union {d} ELSE registry \ {d}
    /\ registry' # registry
    /\ UNCHANGED <<boots, up, outbox, marked, cycle, review, session, notices>>

(* A reviewer answers in its session.  Anything on the screen that looks like a verdict
   counts, the prompt's own example of one included. *)
Answer(r) ==
    /\ session[r].up /\ session[r].asked # NoDone /\ session[r].said = "none"
    /\ \E verdict \in {"APPROVE", "REJECT"} : session' = [session EXCEPT ![r].said = verdict]
    /\ UNCHANGED <<boots, up, outbox, registry, marked, cycle, review, notices>>

(* The cycles under way are gone, and with one that was writing the state file, perhaps the
   marks.  The sessions belong to tmux and stay. *)
Writers == {c \in Cycles : cycle[c].pc = "write"}

Crash ==
    /\ up /\ boots < MaxBoots
    /\ up' = FALSE
    /\ cycle' = [c \in Cycles |-> IF cycle[c].pc \in Active THEN [AtRest EXCEPT !.pc = "over"]
                                                          ELSE cycle[c]]
    /\ review' = [c \in Cycles |-> NoReviews]
    /\ marked' \in {marked} \union {{} : c \in Writers}
    /\ UNCHANGED <<boots, outbox, registry, session, notices>>

Boot ==
    /\ ~up
    /\ up' = TRUE /\ boots' = boots + 1
    /\ UNCHANGED <<outbox, registry, marked, cycle, review, session, notices>>

(* --- a cycle ---------------------------------------------------------------------------- *)

Goes(c, next) == cycle' = [cycle EXCEPT ![c] = next]
Outside == <<boots, up, outbox, registry, session>>

(* The timer fires, and the cycle comes to its watch over DONEs.  The list of unread DONEs
   is taken once. *)
CycleStarts(c) ==
    /\ up /\ cycle[c].pc = "rest"
    /\ \A b \in 1..c - 1 : cycle[b].pc # "rest"
    /\ Goes(c, [AtRest EXCEPT !.pc = "watch", !.todo = registry])
    /\ UNCHANGED <<Outside, marked, review, notices>>

(* What a look at the state file finds: one that fails, or that comes when the file was just
   opened for writing, finds nothing. *)
Content == {marked, {}}

(* getState: a DONE with a mark is passed over.  The list is in no particular order. *)
Look(c) ==
    /\ cycle[c].pc = "watch"
    /\ \E d \in cycle[c].todo, content \in Content :
        LET rest == [cycle[c] EXCEPT !.todo = @ \ {d}]
        IN  Goes(c, IF d \in content THEN rest ELSE [rest EXCEPT !.pc = "read", !.done = d])
    /\ UNCHANGED <<Outside, marked, review, notices>>

(* The list is done.  One of the watchers that follow may have something to save in the
   state file. *)
Follow(c) ==
    /\ cycle[c].pc = "watch" /\ cycle[c].todo = {}
    /\ \E pc \in {"read", "over"} : Goes(c, [cycle[c] EXCEPT !.pc = pc])
    /\ UNCHANGED <<Outside, marked, review, notices>>

(* setState reads the file *)
ReadState(c) ==
    /\ cycle[c].pc = "read"
    /\ \E content \in Content : Goes(c, [cycle[c] EXCEPT !.pc = "write", !.content = content])
    /\ UNCHANGED <<Outside, marked, review, notices>>

(* and writes what it has read, with its own key added: the mark of the DONE, or the key of
   another watcher.  When that fails, nobody is told. *)
WriteState(c) ==
    /\ cycle[c].pc = "write"
    /\ marked' \in Content \union {cycle[c].content \union ({cycle[c].done} \ {NoDone})}
    /\ Goes(c, [cycle[c] EXCEPT !.pc = IF cycle[c].done = NoDone THEN "over" ELSE "open",
                                !.content = {}])
    /\ UNCHANGED <<Outside, review, notices>>

(* handleTerminalReview: no review, the Librarian's, or both at once. *)
ReviewersFor(level) ==
    CASE level = "none" -> {} [] level = "light" -> {"librarian"} [] OTHER -> Reviewers

Level(c) == outbox[cycle[c].done].level

Open(c) ==
    /\ cycle[c].pc = "open"
    /\ IF Level(c) = "none"
       THEN Goes(c, [cycle[c] EXCEPT !.pc = "archive"]) /\ UNCHANGED review
       ELSE /\ Goes(c, [cycle[c] EXCEPT !.pc = "review"])
            /\ review' = [review EXCEPT ![c] = [r \in Reviewers |->
                             IF r \in ReviewersFor(Level(c)) THEN [NoReview EXCEPT !.pc = "clean"]
                                                            ELSE NoReview]]
    /\ UNCHANGED <<Outside, marked, notices>>

(* --- one review ---------------------------------------------------------------------------- *)

Reviews(c, r, pc, verdict) == review' = [review EXCEPT ![c][r] = [pc |-> pc, verdict |-> verdict]]
Elsewhere == <<boots, up, outbox, registry, marked, cycle, notices>>

(* Whatever session has the reviewer's name is killed. *)
Clean(c, r) ==
    /\ review[c][r].pc = "clean"
    /\ Reviews(c, r, "create", "none")
    /\ session' = [session EXCEPT ![r] = NoSession]
    /\ UNCHANGED Elsewhere

(* new-session fails when there is one again. *)
Create(c, r) ==
    /\ review[c][r].pc = "create"
    /\ IF session[r].up
       THEN Reviews(c, r, "close", "ERROR") /\ UNCHANGED session
       ELSE /\ Reviews(c, r, "ask", "none")
            /\ session' = [session EXCEPT ![r].up = TRUE]
    /\ UNCHANGED Elsewhere

(* The prompt goes to the session that has the name now.  Without one the command fails,
   with a message that quotes the prompt and so may speak of a timeout. *)
Ask(c, r) ==
    /\ review[c][r].pc = "ask"
    /\ IF session[r].up
       THEN /\ Reviews(c, r, "wait", "none")
            /\ session' = [session EXCEPT ![r].asked = IF @ = NoDone THEN cycle[c].done ELSE @]
       ELSE /\ \E verdict \in {"ERROR", "TIMEOUT"} :
                  Reviews(c, r, "close", verdict)
            /\ UNCHANGED session
    /\ UNCHANGED Elsewhere

(* waitForReviewResponse: a verdict on the screen, and the reviewer at rest, *)
Heard(c, r) ==
    /\ review[c][r].pc = "wait"
    /\ session[r].said # "none"
    /\ Reviews(c, r, "close", session[r].said)
    /\ UNCHANGED <<Elsewhere, session>>

(* or a screen on which something still turns; the last one is kept, *)
Glimpse(c, r) ==
    /\ review[c][r].pc = "wait"
    /\ session[r].up
    /\ Reviews(c, r, "wait", session[r].said)
    /\ UNCHANGED <<Elsewhere, session>>

(* and looked at when two minutes are over.  That there is no screen any more is no reason
   to stop before. *)
TimeOut(c, r) ==
    /\ review[c][r].pc = "wait"
    /\ Reviews(c, r, "close", IF review[c][r].verdict = "none" THEN "TIMEOUT"
                                                             ELSE review[c][r].verdict)
    /\ UNCHANGED <<Elsewhere, session>>

\* Mistake: a session that timed out is left to its reviewer.
CloseUnlessLate(c, r) ==
    /\ review[c][r].pc = "close"
    /\ Reviews(c, r, "over", review[c][r].verdict)
    /\ session' = IF review[c][r].verdict = "TIMEOUT" THEN session
                  ELSE [session EXCEPT ![r] = NoSession]
    /\ UNCHANGED Elsewhere

(* The session is killed, after an answer, a timeout and an error alike. *)
Close(c, r) ==
    /\ review[c][r].pc = "close"
    /\ Reviews(c, r, "over", review[c][r].verdict)
    /\ session' = [session EXCEPT ![r] = NoSession]
    /\ UNCHANGED Elsewhere

ReviewSteps(c, r) ==
    Clean(c, r) \/ Create(c, r) \/ Ask(c, r) \/ Heard(c, r) \/ Glimpse(c, r)
    \/ TimeOut(c, r) \/ Close(c, r)

(* --- what comes of it ------------------------------------------------------------------------ *)

(* A strict review wants both to approve, with feedback of substance; a standard one takes
   one approval when the other reviewer timed out. *)
Approved(level, verdict, substance) ==
    CASE level = "light" -> verdict["librarian"] = "APPROVE"
      [] level = "standard" -> /\ \E r \in Reviewers : verdict[r] = "APPROVE"
                               /\ \A r \in Reviewers : verdict[r] \in {"APPROVE", "TIMEOUT"}
      [] level = "strict" -> substance /\ \A r \in Reviewers : verdict[r] = "APPROVE"

Decide(c) ==
    /\ cycle[c].pc = "review"
    /\ \A r \in Reviewers : review[c][r].pc \in {"rest", "over"}
    /\ \E substance \in BOOLEAN :
        LET verdict == [r \in Reviewers |-> review[c][r].verdict]
        IN  Goes(c, [cycle[c] EXCEPT !.pc = IF Approved(Level(c), verdict, substance)
                                            THEN "archive" ELSE "number"])
    /\ review' = [review EXCEPT ![c] = NoReviews]
    /\ UNCHANGED <<Outside, marked, notices>>

\* Mistake: the cycle goes on with the DONE in hand.
ResumeWithIt(c) == Goes(c, [cycle[c] EXCEPT !.pc = "watch", !.number = 0])

(* Back in the watch, done with the DONE. *)
Resume(c) == Goes(c, [cycle[c] EXCEPT !.pc = "watch", !.done = NoDone, !.number = 0])

(* createTerminalRejectInbox takes the number after the last one in the inbox, *)
IsNext(n) ==
    /\ \A name \in DOMAIN notices : name[1] < n
    /\ n = 1 \/ \E name \in DOMAIN notices : name[1] = n - 1

Number(c) ==
    /\ cycle[c].pc = "number"
    /\ \E n \in Numbers : IsNext(n) /\ Goes(c, [cycle[c] EXCEPT !.pc = "notify", !.number = n])
    /\ UNCHANGED <<Outside, marked, review, notices>>

\* Mistake: the number is taken to be enough of a name.
NoticeNumber(number, done) == <<number>>

NoticeName(number, done) == <<number, done>>

(* and writes the notice.  A file of the same name is replaced. *)
Notify(c) ==
    /\ cycle[c].pc = "notify"
    /\ LET new == NoticeName(cycle[c].number, cycle[c].done)
       IN  notices' = [name \in DOMAIN notices \union {new} |->
                          IF name = new THEN cycle[c].done ELSE notices[name]]
    /\ Resume(c)
    /\ UNCHANGED <<Outside, marked, review>>

(* A file that cannot be read or written ends the review, and nothing tells of it: the
   error is caught before the watch could take the mark back. *)
Swallow(c) ==
    /\ cycle[c].pc \in {"open", "number", "notify"}
    /\ Resume(c)
    /\ UNCHANGED <<Outside, marked, review, notices>>

(* The pipeline after an approval: the file of the DONE becomes READ, unless that fails,
   which is logged, or the approval could not be recorded, which ends the review before.
   Its cleanup of notices looks in docs/mailbox, and the review writes them elsewhere. *)
Archive(c) ==
    /\ cycle[c].pc = "archive"
    /\ outbox' \in {outbox, [outbox EXCEPT ![cycle[c].done].status = "READ"]}
    /\ Resume(c)
    /\ UNCHANGED <<boots, up, registry, session, marked, review, notices>>

CycleSteps(c) ==
    \/ Look(c) \/ Follow(c) \/ ReadState(c) \/ WriteState(c)
    \/ Open(c) \/ Decide(c) \/ Number(c) \/ Notify(c) \/ Swallow(c) \/ Archive(c)
    \/ \E r \in Reviewers : ReviewSteps(c, r)

Next ==
    \/ \E d \in Dones : Register(d)
    \/ \E r \in Reviewers : Answer(r)
    \/ Crash \/ Boot
    \/ \E c \in Cycles : CycleStarts(c) \/ CycleSteps(c)

Spec == Init /\ [][Next]_vars

(* --- properties ------------------------------------------------------------------------- *)

(* Cycle c comes to a verdict from the screen of reviewer r. *)
Takes(c, r) ==
    /\ review[c][r].verdict = "none"
    /\ review'[c][r].verdict \in {"APPROVE", "REJECT"}

(* A verdict is never left over: however cycles and restarts interleave, the DONE it was
   given for is under review by that reviewer when it is taken. *)
VerdictIsCurrent ==
    [][\A c \in Cycles, r \in Reviewers : Takes(c, r) =>
         \E b \in Cycles : cycle[b].done = session[r].asked /\ review[b][r].pc \in {"wait", "close"}]_vars

(* "Review sessions are ephemeral - created fresh for each review": the verdict a review
   takes is about its own DONE. *)
VerdictIsOwn ==
    [][\A c \in Cycles, r \in Reviewers : Takes(c, r) => session[r].asked = cycle[c].done]_vars

(* No review replaces the notice another one has left about another DONE, though both may
   have taken the same number. *)
NoticesAbout(d, inbox) == \E name \in DOMAIN inbox : inbox[name] = d

NoticesSurvive == [][\A d \in Dones : NoticesAbout(d, notices) => NoticesAbout(d, notices')]_vars

====
