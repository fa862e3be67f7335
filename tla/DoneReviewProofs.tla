---- MODULE DoneReviewProofs ----
(* Proofs about DoneReview. *)
EXTENDS DoneReview, TLAPS

LEMMA TypeInit == Init => ReviewTypeOK
<1> SUFFICES ASSUME Init PROVE ReviewTypeOK
  OBVIOUS
<1> USE ReviewConstants DEF Init
<1>1. AtRest \in CycleState
  BY DEF AtRest, CycleState
<1>2. NoReviews \in [Reviewers -> ReviewState]
  BY DEF NoReviews, NoReview, ReviewState
<1>3. NoSession \in SessionState
  BY DEF NoSession, SessionState
<1>4. \A c \in Cycles : Coherent(c)
  BY DEF Coherent, AtRest, Judging
<1> QED
  BY <1>1, <1>2, <1>3, <1>4 DEF ReviewTypeOK

(* A cycle that moves on without a review under way. *)
LEMMA QuietStep ==
  ASSUME ReviewTypeOK, NEW c \in Cycles, NEW next \in CycleState, Goes(c, next),
         up, UNCHANGED <<boots, up, review, session>>,
         cycle[c].pc # "review", next.pc # "review",
         next.pc \in Judging => next.done # NoDone, next.pc = "watch" => next.done = NoDone,
         outbox' \in [Dones -> [status : {"UNREAD", "READ"}, level : Levels]],
         registry' \subseteq Dones, marked' \subseteq Dones,
         \A name \in DOMAIN notices' : notices'[name] \in Dones
  PROVE  ReviewTypeOK'
<1>1. cycle' \in [Cycles -> CycleState] /\ cycle'[c] = next
  BY DEF Goes, ReviewTypeOK
<1>2. \A b \in Cycles \ {c} : cycle'[b] = cycle[b]
  BY DEF Goes, ReviewTypeOK
<1>3. \A b \in Cycles : Coherent(b)'
  BY <1>1, <1>2 DEF Coherent, ReviewTypeOK
<1> QED
  BY <1>1, <1>3 DEF ReviewTypeOK

LEMMA TypeNext == ReviewTypeOK /\ [Next]_vars => ReviewTypeOK'
<1> SUFFICES ASSUME ReviewTypeOK, [Next]_vars PROVE ReviewTypeOK'
  OBVIOUS
<1> USE ReviewConstants
<1>0. \A c \in Cycles : /\ cycle[c] \in CycleState /\ Coherent(c)
                        /\ cycle[c].pc \in Active => up
  BY DEF ReviewTypeOK, Coherent, Active, Marking, Judging
<1>1. ASSUME NEW d \in Dones, Register(d) PROVE ReviewTypeOK'
  BY <1>1 DEF Register, ReviewTypeOK, Coherent
<1>2. ASSUME NEW r \in Reviewers, Answer(r) PROVE ReviewTypeOK'
  <2>1. session' \in [Reviewers -> SessionState]
    BY <1>2 DEF Answer, ReviewTypeOK, SessionState
  <2> QED
    BY <1>2, <2>1 DEF Answer, ReviewTypeOK, Coherent
<1>3. CASE Crash
  <2>1. [AtRest EXCEPT !.pc = "over"] \in CycleState
    BY DEF AtRest, CycleState
  <2>2. cycle' \in [Cycles -> CycleState]
    BY <1>3, <2>1 DEF Crash, ReviewTypeOK
  <2>3. review' \in [Cycles -> [Reviewers -> ReviewState]]
    BY <1>3 DEF Crash, NoReviews, NoReview, ReviewState
  <2>4. \A c \in Cycles : cycle'[c].pc \in {"rest", "over"}
    BY <1>3, <1>0 DEF Crash, AtRest, CycleState
  <2>5. \A c \in Cycles : Coherent(c)'
    BY <1>3, <2>4 DEF Crash, Coherent, Judging
  <2> QED
    BY <1>3, <2>2, <2>3, <2>5 DEF Crash, ReviewTypeOK
<1>4. CASE Boot
  BY <1>4 DEF Boot, ReviewTypeOK, Coherent
<1>5. ASSUME NEW c \in Cycles, CycleStarts(c) PROVE ReviewTypeOK'
  <2> DEFINE next == [AtRest EXCEPT !.pc = "watch", !.todo = registry]
  <2>1. next \in CycleState /\ next.pc = "watch" /\ next.done = NoDone
    BY DEF AtRest, CycleState, Active, ReviewTypeOK
  <2> QED
    BY <1>5, <2>1, QuietStep DEF CycleStarts, Outside, Judging, ReviewTypeOK
<1>6. ASSUME NEW c \in Cycles, Look(c) PROVE ReviewTypeOK'
  <2> PICK d \in cycle[c].todo, content \in Content :
        LET rest == [cycle[c] EXCEPT !.todo = @ \ {d}]
        IN  Goes(c, IF d \in content THEN rest ELSE [rest EXCEPT !.pc = "read", !.done = d])
    BY <1>6 DEF Look
  <2> DEFINE rest == [cycle[c] EXCEPT !.todo = @ \ {d}]
             next == IF d \in content THEN rest ELSE [rest EXCEPT !.pc = "read", !.done = d]
  <2>1. d \in Dones /\ rest \in CycleState /\ rest.pc = "watch" /\ rest.done = NoDone
    BY <1>6, <1>0 DEF Look, CycleState, Coherent
  <2>2. next \in CycleState /\ (next = rest \/ next.pc = "read")
    BY <2>1 DEF CycleState, Active, Marking
  <2> QED
    BY <1>6, <1>0, <2>1, <2>2, QuietStep DEF Look, Outside, Judging, Active, ReviewTypeOK
<1>7. ASSUME NEW c \in Cycles, Follow(c) PROVE ReviewTypeOK'
  <2> PICK pc \in {"read", "over"} : Goes(c, [cycle[c] EXCEPT !.pc = pc])
    BY <1>7 DEF Follow
  <2> DEFINE next == [cycle[c] EXCEPT !.pc = pc]
  <2>1. next \in CycleState /\ next.pc = pc
    BY <1>0 DEF CycleState, Active, Marking
  <2> QED
    BY <1>7, <1>0, <2>1, QuietStep DEF Follow, Outside, Judging, Active, ReviewTypeOK
<1>8. ASSUME NEW c \in Cycles, ReadState(c) PROVE ReviewTypeOK'
  <2> PICK content \in Content : Goes(c, [cycle[c] EXCEPT !.pc = "write", !.content = content])
    BY <1>8 DEF ReadState
  <2> DEFINE next == [cycle[c] EXCEPT !.pc = "write", !.content = content]
  <2>1. next \in CycleState /\ next.pc = "write"
    BY <1>0 DEF CycleState, Active, Marking, Content, ReviewTypeOK
  <2> QED
    BY <1>8, <1>0, <2>1, QuietStep DEF ReadState, Outside, Judging, Active, Marking, ReviewTypeOK
<1>9. ASSUME NEW c \in Cycles, WriteState(c) PROVE ReviewTypeOK'
  <2> DEFINE next == [cycle[c] EXCEPT !.pc = IF cycle[c].done = NoDone THEN "over" ELSE "open",
                                      !.content = {}]
  <2>1. /\ next \in CycleState /\ next.pc \in {"over", "open"}
        /\ next.pc = "open" => next.done # NoDone
    BY <1>0 DEF CycleState, Active, Judging
  <2>2. marked' \subseteq Dones
    BY <1>9, <1>0 DEF WriteState, Content, CycleState, ReviewTypeOK
  <2> QED
    BY <1>9, <1>0, <2>1, <2>2, QuietStep DEF WriteState, Outside, Judging, Active, Marking,
       ReviewTypeOK
<1>10. ASSUME NEW c \in Cycles, Open(c) PROVE ReviewTypeOK'
  <2> DEFINE next(pc) == [cycle[c] EXCEPT !.pc = pc]
  <2>1. ASSUME NEW pc \in Judging
        PROVE  next(pc) \in CycleState /\ next(pc).pc = pc /\ next(pc).done # NoDone
    BY <1>10, <1>0, <2>1 DEF Open, CycleState, Coherent, Active, Judging
  <2>2. CASE Level(c) = "none"
    BY <1>10, <1>0, <2>1, <2>2, QuietStep DEF Open, Outside, Judging, Active, ReviewTypeOK
  <2>3. CASE Level(c) # "none"
    <3>1. cycle' \in [Cycles -> CycleState] /\ cycle'[c] = next("review")
      BY <1>10, <2>1, <2>3 DEF Open, Goes, Judging, ReviewTypeOK
    <3>2. review' \in [Cycles -> [Reviewers -> ReviewState]]
      <4>1. NoReview \in ReviewState /\ [NoReview EXCEPT !.pc = "clean"] \in ReviewState
        BY DEF NoReview, ReviewState
      <4>2. PICK new \in [Reviewers -> ReviewState] : review' = [review EXCEPT ![c] = new]
        BY <1>10, <2>3, <4>1 DEF Open
      <4> QED
        BY <4>2 DEF ReviewTypeOK
    <3>3. \A b \in Cycles \ {c} : cycle'[b] = cycle[b] /\ review'[b] = review[b]
      BY <1>10, <2>3 DEF Open, Goes, ReviewTypeOK
    <3>4. Coherent(c)'
      BY <1>10, <1>0, <2>1, <3>1 DEF Open, Outside, Coherent, Judging, Active
    <3>5. \A b \in Cycles \ {c} : Coherent(b)'
      BY <1>10, <1>0, <3>3 DEF Open, Outside, Coherent
    <3> QED
      BY <1>10, <3>1, <3>2, <3>4, <3>5 DEF Open, Outside, ReviewTypeOK
  <2> QED
    BY <2>2, <2>3
<1>11. ASSUME NEW c \in Cycles, Decide(c) PROVE ReviewTypeOK'
  <2> PICK pc \in {"archive", "number"} : Goes(c, [cycle[c] EXCEPT !.pc = pc])
    BY <1>11 DEF Decide
  <2> DEFINE next == [cycle[c] EXCEPT !.pc = pc]
  <2>1. next \in CycleState /\ next.pc = pc /\ next.done # NoDone
    BY <1>11, <1>0 DEF Decide, CycleState, Coherent, Active, Judging
  <2>2. cycle' \in [Cycles -> CycleState] /\ cycle'[c] = next
    BY <2>1 DEF Goes, ReviewTypeOK
  <2>3. review' \in [Cycles -> [Reviewers -> ReviewState]] /\ review'[c] = NoReviews
    BY <1>11 DEF Decide, ReviewTypeOK, NoReviews, NoReview, ReviewState
  <2>4. \A b \in Cycles \ {c} : cycle'[b] = cycle[b] /\ review'[b] = review[b]
    BY <1>11 DEF Decide, Goes, ReviewTypeOK
  <2>5. \A b \in Cycles : Coherent(b)'
    BY <1>11, <1>0, <2>1, <2>2, <2>3, <2>4 DEF Decide, Outside, Coherent, Judging, Active
  <2> QED
    BY <1>11, <2>2, <2>3, <2>5 DEF Decide, Outside, ReviewTypeOK
<1>12. ASSUME NEW c \in Cycles, Number(c) PROVE ReviewTypeOK'
  <2> PICK n \in Numbers : Goes(c, [cycle[c] EXCEPT !.pc = "notify", !.number = n])
    BY <1>12 DEF Number
  <2> DEFINE next == [cycle[c] EXCEPT !.pc = "notify", !.number = n]
  <2>1. next \in CycleState /\ next.pc = "notify" /\ next.done # NoDone
    BY <1>12, <1>0 DEF Number, CycleState, Coherent, Active, Judging
  <2> QED
    BY <1>12, <1>0, <2>1, QuietStep DEF Number, Outside, Judging, Active, ReviewTypeOK
<1>13. ASSUME NEW c \in Cycles, Resume(c),
              cycle[c].pc \in {"open", "number", "notify", "archive"},
              UNCHANGED <<boots, up, review, session>>,
              outbox' \in [Dones -> [status : {"UNREAD", "READ"}, level : Levels]],
              registry' \subseteq Dones, marked' \subseteq Dones,
              \A name \in DOMAIN notices' : notices'[name] \in Dones
       PROVE  ReviewTypeOK'
  <2> DEFINE next == [cycle[c] EXCEPT !.pc = "watch", !.done = NoDone, !.number = 0]
  <2>1. next \in CycleState /\ next.pc = "watch" /\ next.done = NoDone
    BY <1>0 DEF CycleState, Active
  <2> QED
    BY <1>13, <1>0, <2>1, QuietStep DEF Resume, Judging, Active
<1>14. ASSUME NEW c \in Cycles, Notify(c) PROVE ReviewTypeOK'
  <2>1. cycle[c].done \in Dones
    BY <1>14, <1>0 DEF Notify, CycleState, Coherent, Judging
  <2>2. \A name \in DOMAIN notices' : notices'[name] \in Dones
    BY <1>14, <2>1 DEF Notify, ReviewTypeOK
  <2> QED
    BY <1>14, <1>13, <2>2 DEF Notify, Outside, ReviewTypeOK
<1>15. ASSUME NEW c \in Cycles, Swallow(c) PROVE ReviewTypeOK'
  BY <1>15, <1>13 DEF Swallow, Outside, ReviewTypeOK
<1>16. ASSUME NEW c \in Cycles, Archive(c) PROVE ReviewTypeOK'
  <2>1. outbox' \in [Dones -> [status : {"UNREAD", "READ"}, level : Levels]]
    BY <1>16 DEF Archive, ReviewTypeOK
  <2> QED
    BY <1>16, <1>13, <2>1 DEF Archive, ReviewTypeOK
<1>17. ASSUME NEW c \in Cycles, NEW r \in Reviewers, ReviewSteps(c, r) PROVE ReviewTypeOK'
  <2>1. PICK pc, verdict : /\ [pc |-> pc, verdict |-> verdict] \in ReviewState
                           /\ Reviews(c, r, pc, verdict)
    <3>1. review[c][r].verdict \in {"none", "APPROVE", "REJECT", "TIMEOUT", "ERROR"}
      BY DEF ReviewTypeOK, ReviewState
    <3>2. session[r].said \in {"none", "APPROVE", "REJECT"}
      BY DEF ReviewTypeOK, SessionState
    <3> QED
      BY <1>17, <3>1, <3>2 DEF ReviewSteps, Clean, Create, Ask, Heard, Glimpse, TimeOut, Close,
         ReviewState
  <2>2. review' \in [Cycles -> [Reviewers -> ReviewState]]
    BY <2>1 DEF Reviews, ReviewTypeOK
  <2>3. cycle[c].pc = "review"
    <3>1. review[c][r].pc # "rest"
      BY <1>17 DEF ReviewSteps, Clean, Create, Ask, Heard, Glimpse, TimeOut, Close
    <3> QED
      BY <1>0, <3>1 DEF Coherent, NoReviews, NoReview
  <2>4. \A b \in Cycles \ {c} : review'[b] = review[b]
    BY <2>1 DEF Reviews, ReviewTypeOK
  <2>5. UNCHANGED Elsewhere
    BY <1>17 DEF ReviewSteps, Clean, Create, Ask, Heard, Glimpse, TimeOut, Close
  <2>6. session' \in [Reviewers -> SessionState]
    <3>1. NoSession \in SessionState
      BY DEF NoSession, SessionState
    <3>2. cycle[c].done \in Dones \union {NoDone}
      BY <1>0 DEF CycleState
    <3>3. \/ UNCHANGED session
          \/ session' = [session EXCEPT ![r] = NoSession]
          \/ session' = [session EXCEPT ![r].up = TRUE]
          \/ session' = [session EXCEPT ![r].asked = IF @ = NoDone THEN cycle[c].done ELSE @]
      BY <1>17 DEF ReviewSteps, Clean, Create, Ask, Heard, Glimpse, TimeOut, Close
    <3>4. session[r] \in SessionState
      BY DEF ReviewTypeOK
    <3>5. PICK new \in SessionState : session' = [session EXCEPT ![r] = new] \/ session' = session
      <4>1. [session[r] EXCEPT !.up = TRUE] \in SessionState
        BY <3>4 DEF SessionState
      <4>2. [session[r] EXCEPT !.asked = IF @ = NoDone THEN cycle[c].done ELSE @] \in SessionState
        BY <3>2, <3>4 DEF SessionState
      <4> QED
        BY <3>1, <3>3, <3>4, <4>1, <4>2
    <3> QED
      BY <3>5 DEF ReviewTypeOK
  <2>7. \A b \in Cycles : Coherent(b)'
    BY <1>0, <2>3, <2>4, <2>5 DEF Coherent, Elsewhere
  <2> QED
    BY <2>2, <2>5, <2>6, <2>7 DEF Elsewhere, ReviewTypeOK
<1>18. CASE UNCHANGED vars
  BY <1>18 DEF vars, ReviewTypeOK, Coherent
<1> QED
  BY <1>1, <1>2, <1>3, <1>4, <1>5, <1>6, <1>7, <1>8, <1>9, <1>10, <1>11, <1>12, <1>14,
     <1>15, <1>16, <1>17, <1>18 DEF Next, CycleSteps

(* A cycle has a DONE in hand from its mark to its verdict and reviews it only then, and a
   cycle of an earlier start does nothing, for any number of DONEs, cycles and starts. *)
THEOREM ReviewTypeCorrect == Spec => []ReviewTypeOK
  BY TypeInit, TypeNext, PTL DEF Spec

(* --- verdicts ----------------------------------------------------------------------------- *)

Waiting(c, r) == review[c][r].pc \in {"wait", "close"}
Before(c, r) == review[c][r].pc \in {"rest", "clean"}

(* What was asked in a session is under review, by a cycle that waits for it; or the cycle
   was lost in a crash, and then every review cleans up before it asks. *)
Current(r) ==
    /\ session[r].said # "none" => session[r].asked # NoDone
    /\ session[r].asked # NoDone =>
        \/ \E b \in Cycles : Waiting(b, r) /\ cycle[b].done = session[r].asked
        \/ \A b \in Cycles : Before(b, r)

CurrentInv == ReviewTypeOK /\ \A r \in Reviewers : Current(r)

LEMMA CurrentInit == Init => CurrentInv
  BY TypeInit DEF Init, CurrentInv, Current, NoSession

(* Who waits goes on waiting for the same DONE, and who has not begun has not begun. *)
LEMMA CurrentStays ==
  ASSUME NEW r \in Reviewers, Current(r),
         session'[r].asked = session[r].asked,
         session'[r].said # "none" => session[r].asked # NoDone,
         \A b \in Cycles : Waiting(b, r) => Waiting(b, r)' /\ cycle'[b].done = cycle[b].done,
         \A b \in Cycles : Before(b, r) => Before(b, r)'
  PROVE  Current(r)'
  BY DEF Current

(* A cycle that moves on without a review under way. *)
LEMMA CurrentQuiet ==
  ASSUME ReviewTypeOK, NEW r \in Reviewers, Current(r), NEW c \in Cycles, NEW next,
         Goes(c, next), cycle[c].pc # "review", UNCHANGED <<review, session>>
  PROVE  Current(r)'
<1>1. \A b \in Cycles : Waiting(b, r) => b # c
  BY DEF ReviewTypeOK, Coherent, NoReviews, NoReview, Waiting
<1>2. \A b \in Cycles : b # c => cycle'[b] = cycle[b]
  BY DEF Goes, ReviewTypeOK
<1> QED
  BY <1>1, <1>2, CurrentStays DEF Waiting, Before, Current

LEMMA CurrentNext == CurrentInv /\ [Next]_vars => CurrentInv'
<1> SUFFICES ASSUME CurrentInv, [Next]_vars, NEW r \in Reviewers PROVE Current(r)'
  BY TypeNext DEF CurrentInv
<1>0. ReviewTypeOK /\ Current(r) /\ \A c \in Cycles : Coherent(c)
  BY DEF CurrentInv, ReviewTypeOK
<1>1. ASSUME NEW d \in Dones, Register(d) PROVE Current(r)'
  BY <1>0, <1>1 DEF Register, Current, Waiting, Before
<1>2. ASSUME NEW q \in Reviewers, Answer(q) PROVE Current(r)'
  <2>1. session'[r].asked = session[r].asked
    BY <1>0, <1>2 DEF Answer, ReviewTypeOK, SessionState
  <2>2. session'[r].said # "none" => session[r].asked # NoDone
    BY <1>0, <1>2 DEF Answer, ReviewTypeOK, SessionState, Current
  <2> QED
    BY <1>0, <1>2, <2>1, <2>2, CurrentStays DEF Answer, Waiting, Before
<1>3. CASE Crash
  <2>1. \A b \in Cycles : review'[b][r].pc = "rest"
    BY <1>3 DEF Crash, NoReviews, NoReview
  <2> QED
    BY <1>0, <1>3, <2>1 DEF Crash, Current, Before
<1>4. CASE Boot
  BY <1>0, <1>4 DEF Boot, Current, Waiting, Before
<1>5. ASSUME NEW c \in Cycles, CycleStarts(c) \/ Look(c) \/ Follow(c) \/ ReadState(c)
                               \/ WriteState(c) \/ Number(c) \/ Notify(c) \/ Swallow(c)
                               \/ Archive(c)
      PROVE  Current(r)'
  <2>1. \E next : Goes(c, next)
    BY <1>5 DEF CycleStarts, Look, Follow, ReadState, WriteState, Number, Notify, Swallow,
       Archive, Resume
  <2>2. cycle[c].pc # "review" /\ UNCHANGED <<review, session>>
    BY <1>5 DEF CycleStarts, Look, Follow, ReadState, WriteState, Number, Notify, Swallow,
       Archive, Outside
  <2> QED
    BY <1>0, <2>1, <2>2, CurrentQuiet
<1>6. ASSUME NEW c \in Cycles, Open(c) PROVE Current(r)'
  <2>1. CASE Level(c) = "none"
    BY <1>0, <1>6, <2>1, CurrentQuiet DEF Open, Outside
  <2>2. CASE Level(c) # "none"
    <3>1. review[c][r].pc = "rest"
      BY <1>0, <1>6 DEF Open, Coherent, NoReviews, NoReview
    <3>2. review'[c][r].pc \in {"rest", "clean"}
      BY <1>0, <1>6, <2>2 DEF Open, NoReview, ReviewTypeOK
    <3>3. \A b \in Cycles \ {c} : cycle'[b] = cycle[b] /\ review'[b] = review[b]
      BY <1>0, <1>6, <2>2 DEF Open, Goes, ReviewTypeOK
    <3> QED
      BY <1>0, <1>6, <3>1, <3>2, <3>3, CurrentStays DEF Open, Outside, Waiting, Before, Current
  <2> QED
    BY <2>1, <2>2
<1>7. ASSUME NEW c \in Cycles, Decide(c) PROVE Current(r)'
  <2>1. ~Waiting(c, r)
    BY <1>7 DEF Decide, Waiting
  <2>2. review'[c][r].pc = "rest"
    BY <1>0, <1>7 DEF Decide, NoReviews, NoReview, ReviewTypeOK
  <2>3. \A b \in Cycles \ {c} : cycle'[b] = cycle[b] /\ review'[b] = review[b]
    BY <1>0, <1>7 DEF Decide, Goes, ReviewTypeOK
  <2> QED
    BY <1>0, <1>7, <2>1, <2>2, <2>3, CurrentStays DEF Decide, Outside, Waiting, Before, Current
<1>8. ASSUME NEW c \in Cycles, NEW q \in Reviewers, ReviewSteps(c, q) PROVE Current(r)'
  <2>1. PICK pc, verdict : Reviews(c, q, pc, verdict)
    BY <1>8 DEF ReviewSteps, Clean, Create, Ask, Heard, Glimpse, TimeOut, Close
  <2>2. review'[c][q].pc = pc /\ UNCHANGED cycle
    BY <1>0, <1>8, <2>1 DEF Reviews, ReviewTypeOK, ReviewSteps, Clean, Create, Ask, Heard,
       Glimpse, TimeOut, Close, Elsewhere
  <2>3. \A b \in Cycles, p \in Reviewers : <<b, p>> # <<c, q>> => review'[b][p] = review[b][p]
    BY <1>0, <2>1 DEF Reviews, ReviewTypeOK
  <2>4. CASE q # r
    <3>1. session'[r] = session[r]
      BY <1>0, <1>8, <2>4 DEF ReviewSteps, Clean, Create, Ask, Heard, Glimpse, TimeOut, Close,
         ReviewTypeOK
    <3> QED
      BY <1>0, <2>2, <2>3, <2>4, <3>1, CurrentStays DEF Waiting, Before, Current
  <2>5. CASE q = r /\ session' = [session EXCEPT ![r] = NoSession]
    BY <1>0, <2>5 DEF ReviewTypeOK, NoSession, Current
  <2>6. CASE q = r /\ (Create(c, r) \/ Ask(c, r) \/ Heard(c, r) \/ Glimpse(c, r) \/ TimeOut(c, r))
    <3>1. ~Before(c, r)
      BY <2>6 DEF Create, Ask, Heard, Glimpse, TimeOut, Before
    <3>2. Waiting(c, r) => Waiting(c, r)'
      BY <2>2, <2>6, <1>0 DEF Create, Ask, Heard, Glimpse, TimeOut, Waiting, Reviews, ReviewTypeOK
    <3>3. session'[r].said = session[r].said
      BY <1>0, <2>6 DEF Create, Ask, Heard, Glimpse, TimeOut, ReviewTypeOK, SessionState
    <3>4. CASE session'[r].asked = session[r].asked
      BY <1>0, <2>2, <2>3, <2>6, <3>1, <3>2, <3>3, <3>4, CurrentStays DEF Waiting, Before, Current
    <3>5. CASE session'[r].asked # session[r].asked
      <4>1. Ask(c, r) /\ session[r].up /\ session[r].asked = NoDone
        BY <1>0, <2>6, <3>5 DEF Create, Ask, Heard, Glimpse, TimeOut, ReviewTypeOK, SessionState
      <4>2. session'[r].asked = cycle[c].done
        BY <1>0, <4>1 DEF Ask, ReviewTypeOK, SessionState
      <4>3. Waiting(c, r)'
        BY <1>0, <4>1 DEF Ask, Reviews, Waiting, ReviewTypeOK
      <4> QED
        BY <1>0, <2>2, <3>3, <4>1, <4>2, <4>3 DEF Current
    <3> QED
      BY <3>4, <3>5
  <2> QED
    BY <1>8, <2>4, <2>5, <2>6 DEF ReviewSteps, Clean, Close
<1>9. CASE UNCHANGED vars
  BY <1>0, <1>9 DEF vars, Current, Waiting, Before
<1> QED
  BY <1>1, <1>2, <1>3, <1>4, <1>5, <1>6, <1>7, <1>8, <1>9 DEF Next, CycleSteps

(* Only a look at the screen yields a verdict of a reviewer. *)
LEMMA VerdictsComeFromSessions ==
  ASSUME ReviewTypeOK, [Next]_vars, NEW c \in Cycles, NEW r \in Reviewers, Takes(c, r)
  PROVE  review[c][r].pc = "wait" /\ session[r].said # "none"
<1>1. ASSUME NEW b \in Cycles, Open(b) PROVE FALSE
  <2>1. review'[c][r] = review[c][r] \/ review'[c][r].verdict = "none"
    BY <1>1 DEF Open, NoReview, ReviewTypeOK
  <2> QED
    BY <2>1 DEF Takes
<1>2. ASSUME NEW b \in Cycles, Decide(b) PROVE FALSE
  <2>1. review'[c][r] = review[c][r] \/ review'[c][r].verdict = "none"
    BY <1>2 DEF Decide, NoReviews, NoReview, ReviewTypeOK
  <2> QED
    BY <2>1 DEF Takes
<1>3. CASE Crash
  BY <1>3 DEF Crash, NoReviews, NoReview, Takes
<1>4. ASSUME NEW b \in Cycles, NEW q \in Reviewers, ReviewSteps(b, q)
      PROVE  review[c][r].pc = "wait" /\ session[r].said # "none"
  <2>1. b = c /\ q = r
    BY <1>4 DEF ReviewSteps, Clean, Create, Ask, Heard, Glimpse, TimeOut, Close, Reviews,
       ReviewTypeOK, Takes
  <2>2. Heard(c, r) \/ Glimpse(c, r)
    BY <1>4, <2>1 DEF ReviewSteps, Clean, Create, Ask, TimeOut, Close, Reviews,
       ReviewTypeOK, ReviewState, Takes
  <2>3. review'[c][r].verdict = session[r].said
    BY <2>2 DEF Heard, Glimpse, Reviews, ReviewTypeOK
  <2> QED
    BY <2>2, <2>3 DEF Heard, Glimpse, Takes
<1>5. CASE UNCHANGED review
  BY <1>5 DEF Takes
<1> QED
  BY <1>1, <1>2, <1>3, <1>4, <1>5 DEF Next, CycleSteps, vars, Register, Answer, Boot,
     CycleStarts, Look, Follow, ReadState, WriteState, Number, Notify, Swallow, Archive

(* A verdict never outlives the review it was given in: when a cycle takes one, the DONE it
   was given for is under review by that reviewer, however many cycles overlap and however
   often the server was started. *)
THEOREM VerdictsAreCurrent == Spec => VerdictIsCurrent
<1>1. CurrentInv /\ [Next]_vars =>
        [\A c \in Cycles, r \in Reviewers : Takes(c, r) =>
           \E b \in Cycles : cycle[b].done = session[r].asked
                             /\ review[b][r].pc \in {"wait", "close"}]_vars
  BY VerdictsComeFromSessions DEF CurrentInv, Current, Waiting, Before
<1>2. Spec => []CurrentInv
  BY CurrentInit, CurrentNext, PTL DEF Spec
<1> QED
  BY <1>1, <1>2, PTL DEF Spec, VerdictIsCurrent

(* --- notices ------------------------------------------------------------------------------- *)

(* A notice has the DONE it is about in its name. *)
Named == \A name \in DOMAIN notices : \E n \in Numbers \union {0} :
            name = NoticeName(n, notices[name])

NamedInv == ReviewTypeOK /\ Named

LEMMA NamedInit == Init => NamedInv
  BY TypeInit DEF Init, NamedInv, Named

(* Only Notify writes a notice. *)
LEMMA NoticesStay ==
  [Next]_vars => UNCHANGED notices \/ \E c \in Cycles : Notify(c)
<1>1. ASSUME NEW c \in Cycles, NEW r \in Reviewers, ReviewSteps(c, r) PROVE UNCHANGED notices
  BY <1>1 DEF ReviewSteps, Clean, Create, Ask, Heard, Glimpse, TimeOut, Close, Elsewhere
<1>2. ASSUME NEW c \in Cycles, CycleSteps(c) PROVE UNCHANGED notices \/ Notify(c)
  BY <1>1, <1>2 DEF CycleSteps, Look, Follow, ReadState, WriteState, Open, Decide, Number,
     Swallow, Archive
<1>3. ASSUME NEW c \in Cycles, CycleStarts(c) PROVE UNCHANGED notices
  BY <1>3 DEF CycleStarts
<1> QED
  BY <1>2, <1>3 DEF Next, vars, Register, Answer, Crash, Boot

LEMMA NamedNext == NamedInv /\ [Next]_vars => NamedInv'
<1> SUFFICES ASSUME NamedInv, [Next]_vars PROVE Named'
  BY TypeNext DEF NamedInv
<1>1. ASSUME NEW c \in Cycles, Notify(c) PROVE Named'
  <2>1. cycle[c].number \in Numbers \union {0}
    BY DEF NamedInv, ReviewTypeOK, CycleState
  <2> QED
    BY <1>1, <2>1 DEF Notify, Named, NamedInv
<1>2. CASE UNCHANGED notices
  BY <1>2 DEF Named, NamedInv
<1> QED
  BY <1>1, <1>2, NoticesStay

(* No review replaces the notice that another has left about another DONE, for any number
   of cycles that number their notices at the same time. *)
THEOREM NoticesAlwaysSurvive == Spec => NoticesSurvive
<1>1. ASSUME NamedInv, [Next]_vars, NEW d \in Dones, NoticesAbout(d, notices)
      PROVE  NoticesAbout(d, notices')
  <2> PICK name \in DOMAIN notices : notices[name] = d
    BY <1>1 DEF NoticesAbout
  <2>1. ASSUME NEW c \in Cycles, Notify(c) PROVE NoticesAbout(d, notices')
    <3> DEFINE new == NoticeName(cycle[c].number, cycle[c].done)
    <3>1. name = new => d = cycle[c].done
      BY <1>1 DEF NamedInv, Named, NoticeName
    <3>2. name \in DOMAIN notices' /\ notices'[name] = d
      BY <2>1, <3>1 DEF Notify
    <3> QED
      BY <3>2 DEF NoticesAbout
  <2>2. CASE UNCHANGED notices
    BY <1>1, <2>2
  <2> QED
    BY <1>1, <2>1, <2>2, NoticesStay
<1>2. NamedInv /\ [Next]_vars =>
        [\A d \in Dones : NoticesAbout(d, notices) => NoticesAbout(d, notices')]_vars
  BY <1>1
<1>3. Spec => []NamedInv
  BY NamedInit, NamedNext, PTL DEF Spec
<1> QED
  BY <1>2, <1>3, PTL DEF Spec, NoticesSurvive
====
