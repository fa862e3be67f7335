---- MODULE TaskEscalationProofs ----
(* What root is told, and when, for any number of tasks, subscriptions and nightwatch
   cycles that overlap in any way.

   The invariant follows a subscription through the lists of several cycles: nobody who
   tells root about it does so before its retries are used up, and, as long as nobody
   resolves its record, one cycle at most is telling root and nobody has done so before. *)
EXTENDS TaskEscalation, TLAPS

Busy == {"retry", "extend", "tell", "leave"}
Telling(cyc, c, i) == cyc[c].pc \in {"tell", "leave"} /\ cyc[c].cur = i

HasCurrent(cyc) == \A c \in Cycles : cyc[c].pc \in Busy => cyc[c].cur \in Ids

Earned(cyc, records, notices) ==
    \A i \in Ids :
        \/ records[i].status = "escalated"
        \/ notices[i] > 0
        \/ \E c \in Cycles : Telling(cyc, c, i)
        => records[i].count = MaxRetries

Once(cyc, records, notices, again) ==
    \A i \in Ids \ again :
        /\ notices[i] <= 1
        /\ notices[i] > 0 \/ (\E c \in Cycles : Telling(cyc, c, i)) =>
                records[i].status = "escalated"
        /\ \A c \in Cycles : cyc[c].pc = "tell" /\ cyc[c].cur = i => notices[i] = 0
        /\ \A c, d \in Cycles : Telling(cyc, c, i) /\ Telling(cyc, d, i) => c = d

Good(cyc, records, notices, again) ==
    HasCurrent(cyc) /\ Earned(cyc, records, notices) /\ Once(cyc, records, notices, again)

EscalationInv == EscalationTypeOK /\ Good(cycle, record, told, reopened)

(* --- types --------------------------------------------------------------------------------- *)

Records == [count : 0..MaxRetries, status : {"none", "active", "escalated", "resolved"}]
Passes == [pc : {"rest", "walk", "retry", "extend", "tell", "leave"},
           todo : SUBSET Ids, cur : Ids \union {NoId}]

LEMMA NoRecordType == NoRecord \in Records
  BY EscalationConstants DEF NoRecord, Records

LEMMA RestType == Rest \in Passes /\ Rest.pc = "rest" /\ Rest.cur = NoId
  BY DEF Rest, Passes

LEMMA RetriedType ==
    ASSUME NEW r \in Records, MayRetry(r)
    PROVE  Retried(r) \in Records
  <1>1. r.count \in 0..MaxRetries /\ r.count < MaxRetries
    BY DEF Records, MayRetry
  <1>2. r.count + 1 \in 0..MaxRetries
    BY <1>1, EscalationConstants
  <1> QED
    BY <1>2 DEF Retried, Records

LEMMA EscalatedType ==
    ASSUME NEW r \in Records, ~MayRetry(r)
    PROVE  /\ Escalated(r) \in Records
           /\ Escalated(r).status = "escalated" /\ Escalated(r).count = MaxRetries
  <1>1. r.count = MaxRetries
    BY EscalationConstants DEF Records, MayRetry
  <1>2. Escalated(r) \in Records /\ Escalated(r).status = "escalated"
        /\ Escalated(r).count = r.count
    BY Zenon DEF Escalated, Records
  <1> QED
    BY <1>1, <1>2

(* What Keep makes of well-formed records; it forgets only what no cycle refers to. *)
LEMMA KeepStep ==
    ASSUME NEW records \in [Ids -> Records], NEW notices \in [Ids -> 0..2],
           NEW again \in SUBSET Ids, Keep(records, notices, again),
           Good(cycle', records, notices, again)
    PROVE  /\ record' \in [Ids -> Records] /\ told' \in [Ids -> 0..2]
           /\ reopened' \in SUBSET Ids
           /\ Good(cycle', record', told', reopened')
  <1>1. /\ record' \in [Ids -> Records] /\ told' \in [Ids -> 0..2]
        /\ reopened' \in SUBSET Ids
    BY NoRecordType DEF Keep
  <1>2. ASSUME NEW i \in Unused'
        PROVE  /\ record'[i] = NoRecord /\ told'[i] = 0
               /\ \A c \in Cycles : cycle'[c].cur # i
    <2>1. i \in Ids /\ i \notin Referred'
      BY DEF Unused
    <2> QED
      BY <1>2, <2>1 DEF Keep, Referred
  <1>3. ASSUME NEW i \in Ids, i \notin Unused'
        PROVE  record'[i] = records[i] /\ told'[i] = notices[i] /\ (i \in reopened' <=> i \in again)
    BY <1>3 DEF Keep
  <1>4. HasCurrent(cycle')
    BY DEF Good
  <1>5. Earned(cycle', record', told')
    BY <1>2, <1>3 DEF Good, Earned, Telling, NoRecord
  <1>6. Once(cycle', record', told', reopened')
    BY <1>2, <1>3 DEF Good, Once, Telling, NoRecord
  <1> QED
    BY <1>1, <1>4, <1>5, <1>6 DEF Good

(* A step of the cycles after which no more of them tell root, and about nothing new. *)
LEMMA FewerTellers ==
    ASSUME NEW records, NEW notices, NEW again, NEW old, NEW new,
           Good(old, records, notices, again), HasCurrent(new),
           \A c \in Cycles, i \in Ids : Telling(new, c, i) =>
                new[c].pc = old[c].pc /\ Telling(old, c, i)
    PROVE  Good(new, records, notices, again)
  <1>1. Earned(new, records, notices)
    BY DEF Good, Earned
  <1>2. Once(new, records, notices, again)
    <2> SUFFICES ASSUME NEW i \in Ids \ again
                 PROVE  /\ notices[i] <= 1
                        /\ notices[i] > 0 \/ (\E c \in Cycles : Telling(new, c, i)) =>
                                records[i].status = "escalated"
                        /\ \A c \in Cycles : new[c].pc = "tell" /\ new[c].cur = i =>
                                notices[i] = 0
                        /\ \A c, d \in Cycles : Telling(new, c, i) /\ Telling(new, d, i) => c = d
      BY DEF Once
    <2>1. \A c \in Cycles : new[c].pc = "tell" /\ new[c].cur = i => notices[i] = 0
      BY DEF Good, Once, Telling
    <2> QED
      BY <2>1 DEF Good, Once
  <1> QED
    BY <1>1, <1>2 DEF Good

(* --- the steps of the subscription manager ---------------------------------------------------- *)

TypedRest == /\ subs' \in [Ids -> {"free", "live", "expired"}]
             /\ target' \in [Ids -> Tasks]
             /\ registered' \subseteq Tasks
             /\ asked' \in 0..MaxAsked
             /\ attempts' \in [Tasks -> 0..Cap]

LEMMA Assemble ==
    ASSUME TypedRest, cycle' \in [Cycles -> Passes],
           record' \in [Ids -> Records], told' \in [Ids -> 0..2], reopened' \in SUBSET Ids,
           Good(cycle', record', told', reopened')
    PROVE  EscalationInv'
  BY DEF EscalationInv, EscalationTypeOK, TypedRest, Records, Passes

LEMMA Typed ==
    ASSUME EscalationInv
    PROVE  /\ cycle \in [Cycles -> Passes] /\ record \in [Ids -> Records]
           /\ told \in [Ids -> 0..2] /\ reopened \in SUBSET Ids
           /\ Good(cycle, record, told, reopened)
  BY DEF EscalationInv, EscalationTypeOK, Records, Passes

(* A step that settles the records and leaves the cycles' tellers alone. *)
LEMMA SettleStep ==
    ASSUME EscalationInv, TypedRest, cycle' \in [Cycles -> Passes], Keep(record, told, reopened),
           Good(cycle', record, told, reopened)
    PROVE  EscalationInv'
  BY Typed, KeepStep, Assemble

LEMMA SubscribeType ==
    ASSUME EscalationInv, NEW t \in Tasks, Subscribe(t)
    PROVE  subs' \in [Ids -> {"free", "live", "expired"}] /\ target' \in [Ids -> Tasks]
  BY DEF Subscribe, Unused, EscalationInv, EscalationTypeOK

LEMMA AskStep ==
    ASSUME EscalationInv, NEW t \in Tasks, Ask(t)
    PROVE  EscalationInv'
  <1>1. asked' \in 0..MaxAsked
    BY EscalationConstants DEF Ask, EscalationInv, EscalationTypeOK
  <1>2. TypedRest
    BY <1>1, SubscribeType DEF Ask, TypedRest, EscalationInv, EscalationTypeOK, history
  <1> QED
    BY <1>2, Typed, Assemble DEF Ask, history

LEMMA UnsubscribeStep ==
    ASSUME EscalationInv, NEW i \in Ids, Unsubscribe(i)
    PROVE  EscalationInv'
  <1>1. TypedRest
    BY DEF Unsubscribe, TypedRest, EscalationInv, EscalationTypeOK
  <1> QED
    BY <1>1, Typed, SettleStep DEF Unsubscribe

LEMMA CleanupStep ==
    ASSUME EscalationInv, Cleanup
    PROVE  EscalationInv'
  <1>1. TypedRest
    BY DEF Cleanup, TypedRest, EscalationInv, EscalationTypeOK
  <1> QED
    BY <1>1, Typed, SettleStep DEF Cleanup

LEMMA ExpireStep ==
    ASSUME EscalationInv, NEW i \in Ids, Expire(i)
    PROVE  EscalationInv'
  <1>1. TypedRest
    BY DEF Expire, TypedRest, EscalationInv, EscalationTypeOK, history
  <1> QED
    BY <1>1, Typed, Assemble DEF Expire, history

LEMMA RegisterStep ==
    ASSUME EscalationInv, NEW t \in Tasks, Register(t)
    PROVE  EscalationInv'
  <1>1. TypedRest
    BY DEF Register, TypedRest, EscalationInv, EscalationTypeOK, history
  <1> QED
    BY <1>1, Typed, Assemble DEF Register, history

LEMMA RestartStep ==
    ASSUME EscalationInv, Restart
    PROVE  EscalationInv'
  <1>1. TypedRest
    BY DEF Restart, TypedRest, EscalationInv, EscalationTypeOK
  <1>2. cycle' \in [Cycles -> Passes] /\ \A c \in Cycles : cycle'[c].pc = "rest"
    BY RestType DEF Restart
  <1>3. Good(cycle', record, told, reopened)
    BY <1>2, Typed, FewerTellers DEF HasCurrent, Busy, Telling
  <1> QED
    BY <1>1, <1>2, <1>3, SettleStep DEF Restart

(* Somebody resolves a record: nothing is promised of it any more but its retries. *)
LEMMA ResolveStep ==
    ASSUME EscalationInv, NEW i \in Ids, Resolve(i)
    PROVE  EscalationInv'
  <1>1. TypedRest
    BY DEF Resolve, TypedRest, EscalationInv, EscalationTypeOK
  <1> DEFINE r == [record[i] EXCEPT !.status = "resolved"]
  <1>2. r \in Records /\ r.count = record[i].count
    BY Typed DEF Records
  <1>3. record' = [record EXCEPT ![i] = r]
    BY DEF Resolve
  <1> HIDE DEF r
  <1>4. /\ record' \in [Ids -> Records] /\ reopened' \in SUBSET Ids
        /\ \A j \in Ids : record'[j].count = record[j].count
        /\ \A j \in Ids \ {i} : record'[j] = record[j]
    BY <1>2, <1>3, Typed DEF Resolve
  <1>5. record[i].status \in {"active", "escalated"}
    BY DEF Resolve
  <1>6. cycle' = cycle /\ told' = told /\ reopened' = reopened \union {i}
    BY DEF Resolve
  <1>7. HasCurrent(cycle')
    BY <1>6, Typed DEF Good
  <1>8. Earned(cycle', record', told')
    <2> SUFFICES ASSUME NEW j \in Ids,
                        \/ record'[j].status = "escalated"
                        \/ told[j] > 0
                        \/ \E c \in Cycles : Telling(cycle, c, j)
                 PROVE  record'[j].count = MaxRetries
      BY <1>6 DEF Earned
    <2>1. r.status = "resolved"
      BY Typed DEF r, Records
    <2>2. record'[i].status = "resolved"
      BY <1>3, <2>1, Typed
    <2>3. \/ record[j].status = "escalated"
          \/ told[j] > 0
          \/ \E c \in Cycles : Telling(cycle, c, j)
      BY <1>4, <2>2
    <2> QED
      BY <1>4, <2>3, Typed DEF Good, Earned
  <1>9. Once(cycle', record', told', reopened')
    BY <1>4, <1>6, Typed DEF Good, Once
  <1> QED
    BY <1>1, <1>4, <1>6, <1>7, <1>8, <1>9, Typed, Assemble DEF Good

(* --- the steps of the cycles ------------------------------------------------------------------- *)

LEMMA Repass ==
    ASSUME EscalationInv, NEW c \in Cycles, NEW p \in Passes, cycle' = [cycle EXCEPT ![c] = p]
    PROVE  /\ cycle' \in [Cycles -> Passes] /\ cycle'[c] = p
           /\ \A d \in Cycles \ {c} : cycle'[d] = cycle[d]
  BY Typed

(* One cycle moves on to something other than telling root. *)
LEMMA QuietStep ==
    ASSUME EscalationInv, NEW c \in Cycles, NEW p \in Passes, cycle' = [cycle EXCEPT ![c] = p],
           p.pc \notin {"tell", "leave"}, p.pc \in Busy => p.cur \in Ids
    PROVE  cycle' \in [Cycles -> Passes] /\ Good(cycle', record, told, reopened)
  <1>1. HasCurrent(cycle')
    BY Repass, Typed DEF Good, HasCurrent
  <1>2. \A d \in Cycles, i \in Ids : Telling(cycle', d, i) =>
            cycle'[d].pc = cycle[d].pc /\ Telling(cycle, d, i)
    BY Repass DEF Telling
  <1> QED
    BY <1>1, <1>2, Repass, Typed, FewerTellers

LEMMA ResumeStep ==
    ASSUME EscalationInv, NEW c \in Cycles, Resume(c)
    PROVE  cycle' \in [Cycles -> Passes] /\ Good(cycle', record, told, reopened)
  <1> DEFINE p == [cycle[c] EXCEPT !.pc = "walk", !.cur = NoId]
  <1>1. cycle[c] \in Passes
    BY Typed
  <1>2. p \in Passes /\ p.pc = "walk"
    BY <1>1 DEF Passes
  <1>3. cycle' = [cycle EXCEPT ![c] = p]
    BY DEF Resume
  <1> HIDE DEF p
  <1> QED
    BY <1>2, <1>3, QuietStep DEF Busy

LEMMA CycleStartsStep ==
    ASSUME EscalationInv, NEW c \in Cycles, CycleStarts(c)
    PROVE  EscalationInv'
  <1> DEFINE p == [Rest EXCEPT !.pc = "walk", !.todo = Expired]
  <1>1. p \in Passes /\ p.pc = "walk"
    BY DEF Rest, Passes, Expired
  <1>2. cycle' = [cycle EXCEPT ![c] = p]
    BY DEF CycleStarts
  <1> HIDE DEF p
  <1>3. cycle' \in [Cycles -> Passes] /\ Good(cycle', record, told, reopened)
    BY <1>1, <1>2, QuietStep DEF Busy
  <1>4. TypedRest
    BY DEF CycleStarts, TypedRest, EscalationInv, EscalationTypeOK, history
  <1> QED
    BY <1>3, <1>4, Typed, Assemble DEF CycleStarts, history

LEMMA AttemptStep ==
    ASSUME EscalationInv, NEW c \in Cycles, Attempt(c)
    PROVE  EscalationInv'
  <1> DEFINE p == [cycle[c] EXCEPT !.pc = "extend"]
  <1>1. cycle[c] \in Passes /\ cycle[c].pc = "retry" /\ cycle[c].cur \in Ids
    BY Typed DEF Attempt, Good, HasCurrent, Busy
  <1>2. p \in Passes /\ p.pc = "extend" /\ p.cur \in Ids
    BY <1>1 DEF Passes
  <1>3. cycle' = [cycle EXCEPT ![c] = p]
    BY DEF Attempt
  <1> HIDE DEF p
  <1>4. cycle' \in [Cycles -> Passes] /\ Good(cycle', record, told, reopened)
    BY <1>2, <1>3, QuietStep
  <1>5. attempts' \in [Tasks -> 0..Cap]
    <2>1. attempts \in [Tasks -> 0..Cap]
      BY DEF EscalationInv, EscalationTypeOK
    <2>2. \A n \in 0..Cap : CountUp(n, Cap) \in 0..Cap
      BY EscalationConstants DEF CountUp
    <2>3. attempts' = [attempts EXCEPT ![target[cycle[c].cur]] = CountUp(@, Cap)]
      BY DEF Attempt
    <2> QED
      BY <2>1, <2>2, <2>3
  <1>6. TypedRest
    BY <1>5 DEF Attempt, TypedRest, EscalationInv, EscalationTypeOK
  <1> QED
    BY <1>4, <1>6, Typed, Assemble DEF Attempt

LEMMA ExtendStep ==
    ASSUME EscalationInv, NEW c \in Cycles, Extend(c)
    PROVE  EscalationInv'
  <1>1. cycle[c].cur \in Ids
    BY Typed DEF Extend, Good, HasCurrent, Busy
  <1>2. target[cycle[c].cur] \in Tasks
    BY <1>1 DEF EscalationInv, EscalationTypeOK
  <1>3. TypedRest
    BY <1>2, SubscribeType DEF Extend, TypedRest, EscalationInv, EscalationTypeOK
  <1> QED
    BY <1>3, ResumeStep, SettleStep DEF Extend

LEMMA LeaveStep ==
    ASSUME EscalationInv, NEW c \in Cycles, Leave(c)
    PROVE  EscalationInv'
  <1>1. TypedRest
    BY DEF Leave, TypedRest, EscalationInv, EscalationTypeOK
  <1> QED
    BY <1>1, ResumeStep, SettleStep DEF Leave

LEMMA TellFailsStep ==
    ASSUME EscalationInv, NEW c \in Cycles, TellFails(c)
    PROVE  EscalationInv'
  <1>1. TypedRest
    BY DEF TellFails, TypedRest, EscalationInv, EscalationTypeOK
  <1> QED
    BY <1>1, RestType, QuietStep, SettleStep DEF TellFails, Busy

(* The notice itself: whoever is about to write it is the only one, and none was written
   before, unless somebody resolved the record. *)
LEMMA TellRootStep ==
    ASSUME EscalationInv, NEW c \in Cycles, TellRoot(c)
    PROVE  EscalationInv'
  <1> DEFINE p == [cycle[c] EXCEPT !.pc = "leave"]
             i == cycle[c].cur
  <1>1. cycle[c] \in Passes /\ cycle[c].pc = "tell" /\ i \in Ids
    BY Typed DEF TellRoot, Good, HasCurrent, Busy
  <1>2. p \in Passes /\ p.pc = "leave" /\ p.cur = i
    BY <1>1 DEF Passes
  <1>3. cycle' = [cycle EXCEPT ![c] = p]
    BY DEF TellRoot
  <1>4. told' = [told EXCEPT ![i] = CountUp(told[i], 2)]
    BY DEF TellRoot
  <1>5. /\ told[i] \in 0..2 /\ CountUp(told[i], 2) \in 0..2
        /\ (told[i] = 0 => CountUp(told[i], 2) = 1)
    BY <1>1, Typed DEF CountUp
  <1> HIDE DEF p
  <1>6. /\ told' \in [Ids -> 0..2]
        /\ told'[i] = CountUp(told[i], 2)
        /\ \A j \in Ids \ {i} : told'[j] = told[j]
    BY <1>1, <1>4, <1>5, Typed
  <1>7. /\ cycle' \in [Cycles -> Passes] /\ cycle'[c] = p
        /\ \A d \in Cycles \ {c} : cycle'[d] = cycle[d]
    BY <1>2, <1>3, Repass
  <1>8. record' = record /\ reopened' = reopened
    BY DEF TellRoot
  <1> HIDE DEF i
  <1>a. Telling(cycle, c, i)
    BY <1>1 DEF Telling, i
  <1>9. \A d \in Cycles, j \in Ids : Telling(cycle', d, j) <=> Telling(cycle, d, j)
    <2> SUFFICES ASSUME NEW d \in Cycles, NEW j \in Ids
                 PROVE  Telling(cycle', d, j) <=> Telling(cycle, d, j)
      OBVIOUS
    <2>1. CASE d = c
      BY <2>1, <1>1, <1>2, <1>7 DEF Telling, i
    <2>2. CASE d # c
      BY <2>2, <1>7 DEF Telling
    <2> QED
      BY <2>1, <2>2
  <1>10. HasCurrent(cycle')
    BY <1>1, <1>2, <1>7, Typed DEF Good, HasCurrent
  <1>11. Earned(cycle', record', told')
    BY <1>1, <1>a, <1>6, <1>8, <1>9, Typed DEF Good, Earned
  <1>12. Once(cycle', record', told', reopened')
    <2> SUFFICES ASSUME NEW j \in Ids \ reopened
                 PROVE  /\ told'[j] <= 1
                        /\ told'[j] > 0 \/ (\E d \in Cycles : Telling(cycle', d, j)) =>
                                record[j].status = "escalated"
                        /\ \A d \in Cycles : cycle'[d].pc = "tell" /\ cycle'[d].cur = j =>
                                told'[j] = 0
                        /\ \A d, e \in Cycles :
                                Telling(cycle', d, j) /\ Telling(cycle', e, j) => d = e
      BY <1>8 DEF Once
    <2>1. CASE j = i
      <3>1. told[i] = 0 /\ told'[i] = 1 /\ record[i].status = "escalated"
        BY <2>1, <1>1, <1>a, <1>5, <1>6, Typed DEF Good, Once, i
      <3>2. \A d \in Cycles : cycle'[d].pc = "tell" /\ cycle'[d].cur = i => FALSE
        BY <2>1, <1>a, <1>2, <1>7, Typed DEF Good, Once, Telling
      <3> QED
        BY <2>1, <3>1, <3>2, <1>9, Typed DEF Good, Once
    <2>2. CASE j # i
      <3>1. \A d \in Cycles : cycle'[d].pc = "tell" /\ cycle'[d].cur = j => told[j] = 0
        BY <2>2, <1>2, <1>7, Typed DEF Good, Once
      <3> QED
        BY <2>2, <3>1, <1>6, <1>9, Typed DEF Good, Once
    <2> QED
      BY <2>1, <2>2
  <1>13. TypedRest
    BY DEF TellRoot, TypedRest, EscalationInv, EscalationTypeOK
  <1> QED
    BY <1>6, <1>7, <1>8, <1>10, <1>11, <1>12, <1>13, Typed, Assemble DEF Good

(* The loop comes to its next await. *)
LEMMA StrideType ==
    ASSUME EscalationInv, NEW c \in Cycles, NEW stride \in Strides(cycle[c].todo),
           stride.next # NoId
    PROVE  stride.next \in Ids /\ NeedsHandling(stride.next)
  <1>1. cycle[c].todo \subseteq Ids
    BY Typed DEF Passes
  <1> DEFINE idle == {i \in cycle[c].todo : ~NeedsHandling(i)}
  <1>2. stride.next \in cycle[c].todo \ idle
    BY DEF Strides
  <1> QED
    BY <1>1, <1>2

LEMMA RetryStep ==
    ASSUME EscalationInv, NEW c \in Cycles, NEW i \in Ids, NEW p \in Passes,
           NeedsHandling(i), MayRetry(record[i]), p.pc = "retry", p.cur = i,
           cycle' = [cycle EXCEPT ![c] = p], TypedRest,
           Keep([record EXCEPT ![i] = Retried(@)], told, reopened)
    PROVE  EscalationInv'
  <1> DEFINE records == [record EXCEPT ![i] = Retried(record[i])]
  <1>1. cycle' \in [Cycles -> Passes] /\ Good(cycle', record, told, reopened)
    BY QuietStep
  <1>2. Retried(record[i]) \in Records
    BY Typed, RetriedType
  <1>3. /\ records \in [Ids -> Records]
        /\ records[i] = Retried(record[i])
        /\ \A j \in Ids \ {i} : records[j] = record[j]
    BY <1>2, Typed
  <1>4. Keep(records, told, reopened)
    OBVIOUS
  <1> HIDE DEF records
  <1>5. record[i].status # "escalated" /\ record[i].count # MaxRetries
    BY Typed, EscalationConstants DEF NeedsHandling, MayRetry, Records
  <1>6. ~(told[i] > 0) /\ \A d \in Cycles : ~Telling(cycle', d, i)
    BY <1>1, <1>5, Zenon DEF Good, Earned
  <1>7. records[i].status # "escalated"
    BY <1>3, <1>5 DEF Retried
  <1>8. Earned(cycle', records, told)
    <2> SUFFICES ASSUME NEW j \in Ids,
                        \/ records[j].status = "escalated"
                        \/ told[j] > 0
                        \/ \E d \in Cycles : Telling(cycle', d, j)
                 PROVE  records[j].count = MaxRetries
      BY DEF Earned
    <2>1. j # i
      BY <1>6, <1>7, Zenon
    <2> QED
      BY <1>1, <1>3, <2>1 DEF Good, Earned
  <1>9. Once(cycle', records, told, reopened)
    <2> SUFFICES ASSUME NEW j \in Ids \ reopened
                 PROVE  told[j] > 0 \/ (\E d \in Cycles : Telling(cycle', d, j)) =>
                            records[j].status = "escalated"
      BY <1>1 DEF Good, Once
    <2>1. CASE j = i
      BY <1>6, <2>1, Zenon
    <2>2. CASE j # i
      BY <1>1, <1>3, <2>2 DEF Good, Once
    <2> QED
      BY <2>1, <2>2
  <1>10. Good(cycle', records, told, reopened)
    BY <1>1, <1>8, <1>9 DEF Good
  <1> QED
    BY <1>1, <1>3, <1>4, <1>10, Typed, KeepStep, Assemble

LEMMA EscalateStep ==
    ASSUME EscalationInv, NEW c \in Cycles, NEW i \in Ids, NEW p \in Passes,
           NeedsHandling(i), ~MayRetry(record[i]), p.pc = "tell", p.cur = i,
           cycle[c].pc = "walk", cycle' = [cycle EXCEPT ![c] = p], TypedRest,
           Keep([record EXCEPT ![i] = Escalated(@)], told, reopened)
    PROVE  EscalationInv'
  <1> DEFINE records == [record EXCEPT ![i] = Escalated(record[i])]
  <1>1. /\ cycle' \in [Cycles -> Passes] /\ cycle'[c] = p
        /\ \A d \in Cycles \ {c} : cycle'[d] = cycle[d]
    BY Repass
  <1>2. /\ Escalated(record[i]) \in Records
        /\ Escalated(record[i]).status = "escalated" /\ Escalated(record[i]).count = MaxRetries
    BY Typed, EscalatedType
  <1>3. /\ records \in [Ids -> Records]
        /\ records[i] = Escalated(record[i])
        /\ \A j \in Ids \ {i} : records[j] = record[j]
    BY <1>2, Typed
  <1>4. Keep(records, told, reopened)
    OBVIOUS
  <1> HIDE DEF records
  <1>5. \A d \in Cycles, j \in Ids : Telling(cycle', d, j) =>
            (d = c /\ j = i) \/ (d # c /\ cycle'[d] = cycle[d] /\ Telling(cycle, d, j))
    BY <1>1 DEF Telling
  <1>6. HasCurrent(cycle')
    BY <1>1, Typed DEF Good, HasCurrent
  <1>7. Earned(cycle', records, told)
    BY <1>2, <1>3, <1>5, Typed DEF Good, Earned
  <1>8. Once(cycle', records, told, reopened)
    <2> SUFFICES ASSUME NEW j \in Ids \ reopened
                 PROVE  /\ told[j] <= 1
                        /\ told[j] > 0 \/ (\E d \in Cycles : Telling(cycle', d, j)) =>
                                records[j].status = "escalated"
                        /\ \A d \in Cycles : cycle'[d].pc = "tell" /\ cycle'[d].cur = j =>
                                told[j] = 0
                        /\ \A d, e \in Cycles :
                                Telling(cycle', d, j) /\ Telling(cycle', e, j) => d = e
      BY DEF Once
    <2>1. CASE j = i
      <3>1. ~(told[i] > 0) /\ \A d \in Cycles : ~Telling(cycle, d, i)
        BY <2>1, Typed, Zenon DEF NeedsHandling, Good, Once
      <3>3. told[i] = 0
        BY <3>1, Typed
      <3>2. \A d \in Cycles : Telling(cycle', d, i) => d = c
        BY <3>1, <1>5, Zenon
      <3>4. told[j] <= 1 /\ records[j].status = "escalated"
        BY <2>1, <3>3, <1>2, <1>3
      <3>5. \A d, e \in Cycles : Telling(cycle', d, j) /\ Telling(cycle', e, j) => d = e
        BY <2>1, <3>2, Zenon
      <3> QED
        BY <2>1, <3>3, <3>4, <3>5, Zenon
    <2>2. CASE j # i
      <3>1. /\ told[j] <= 1
            /\ told[j] > 0 \/ (\E d \in Cycles : Telling(cycle, d, j)) =>
                    record[j].status = "escalated"
            /\ \A d \in Cycles : cycle[d].pc = "tell" /\ cycle[d].cur = j => told[j] = 0
            /\ \A d, e \in Cycles : Telling(cycle, d, j) /\ Telling(cycle, e, j) => d = e
        BY Typed DEF Good, Once
      <3>2. \A d \in Cycles : cycle'[d].pc = "tell" /\ cycle'[d].cur = j => told[j] = 0
        BY <2>2, <3>1, <1>1
      <3> QED
        BY <2>2, <3>1, <3>2, <1>3, <1>5
    <2> QED
      BY <2>1, <2>2
  <1>9. Good(cycle', records, told, reopened)
    BY <1>6, <1>7, <1>8 DEF Good
  <1> QED
    BY <1>1, <1>3, <1>4, <1>9, Typed, KeepStep, Assemble

LEMMA WalkStep ==
    ASSUME EscalationInv, NEW c \in Cycles, Walk(c)
    PROVE  EscalationInv'
  <1> DEFINE at(pc, s) == [pc |-> pc, todo |-> cycle[c].todo \ (s.passed \union {s.next}),
                           cur |-> s.next]
  <1>1. PICK stride \in Strides(cycle[c].todo) :
            /\ subs' = [j \in Ids |-> IF j \in stride.passed /\ target[j] \in registered
                                      THEN "free" ELSE subs[j]]
            /\ \/ /\ stride.next = NoId
                  /\ cycle' = [cycle EXCEPT ![c] = Rest]
                  /\ Keep(record, told, reopened)
               \/ /\ stride.next # NoId /\ MayRetry(record[stride.next])
                  /\ cycle' = [cycle EXCEPT ![c] = at("retry", stride)]
                  /\ Keep([record EXCEPT ![stride.next] = Retried(@)], told, reopened)
               \/ /\ stride.next # NoId /\ ~MayRetry(record[stride.next])
                  /\ cycle' = [cycle EXCEPT ![c] = at("tell", stride)]
                  /\ Keep([record EXCEPT ![stride.next] = Escalated(@)], told, reopened)
    BY DEF Walk
  <1>2. TypedRest
    BY <1>1 DEF Walk, TypedRest, EscalationInv, EscalationTypeOK
  <1>3. ASSUME stride.next # NoId
        PROVE  /\ stride.next \in Ids /\ NeedsHandling(stride.next)
               /\ at("retry", stride) \in Passes /\ at("tell", stride) \in Passes
    <2>1. stride.next \in Ids /\ NeedsHandling(stride.next)
      BY <1>3, StrideType
    <2>2. cycle[c].todo \subseteq Ids
      BY Typed DEF Passes
    <2> QED
      BY <2>1, <2>2 DEF Passes
  <1>4. CASE stride.next = NoId /\ cycle' = [cycle EXCEPT ![c] = Rest]
             /\ Keep(record, told, reopened)
    BY <1>2, <1>4, RestType, QuietStep, SettleStep DEF Busy
  <1>5. CASE /\ stride.next # NoId /\ MayRetry(record[stride.next])
             /\ cycle' = [cycle EXCEPT ![c] = at("retry", stride)]
             /\ Keep([record EXCEPT ![stride.next] = Retried(@)], told, reopened)
    BY <1>2, <1>3, <1>5, RetryStep
  <1>6. CASE /\ stride.next # NoId /\ ~MayRetry(record[stride.next])
             /\ cycle' = [cycle EXCEPT ![c] = at("tell", stride)]
             /\ Keep([record EXCEPT ![stride.next] = Escalated(@)], told, reopened)
    <2>1. cycle[c].pc = "walk"
      BY DEF Walk
    <2> QED
      BY <2>1, <1>2, <1>3, <1>6, EscalateStep
  <1> QED
    BY <1>1, <1>4, <1>5, <1>6

(* --- the theorems --------------------------------------------------------------------------------- *)

LEMMA InitKeeps == Init => EscalationInv
  <1> SUFFICES ASSUME Init PROVE EscalationInv
    OBVIOUS
  <1>1. cycle \in [Cycles -> Passes] /\ \A c \in Cycles : cycle[c].pc = "rest"
    BY RestType DEF Init
  <1>2. record \in [Ids -> Records] /\ \A i \in Ids : record[i].status = "none"
    BY NoRecordType DEF Init, NoRecord
  <1>3. told = [i \in Ids |-> 0] /\ reopened = {}
    BY DEF Init
  <1>4. Good(cycle, record, told, reopened)
    BY <1>1, <1>2, <1>3 DEF Good, HasCurrent, Earned, Once, Telling, Busy
  <1>5. EscalationTypeOK
    BY <1>1, <1>2, EscalationConstants DEF Init, EscalationTypeOK, Records, Passes
  <1> QED
    BY <1>4, <1>5 DEF EscalationInv

LEMMA StepKeeps == EscalationInv /\ [Next]_vars => EscalationInv'
  <1> SUFFICES ASSUME EscalationInv, [Next]_vars PROVE EscalationInv'
    OBVIOUS
  <1>1. ASSUME NEW t \in Tasks, Ask(t) \/ Register(t) PROVE EscalationInv'
    BY <1>1, AskStep, RegisterStep
  <1>2. ASSUME NEW i \in Ids, Unsubscribe(i) \/ Expire(i) \/ Resolve(i) PROVE EscalationInv'
    BY <1>2, UnsubscribeStep, ExpireStep, ResolveStep
  <1>3. ASSUME NEW c \in Cycles, CycleStarts(c) \/ CycleSteps(c) PROVE EscalationInv'
    BY <1>3, CycleStartsStep, WalkStep, AttemptStep, ExtendStep, TellRootStep, TellFailsStep,
       LeaveStep DEF CycleSteps
  <1>4. CASE Cleanup
    BY <1>4, CleanupStep
  <1>5. CASE Restart
    BY <1>5, RestartStep
  <1>6. CASE UNCHANGED vars
    <2>1. TypedRest
      BY <1>6 DEF vars, history, TypedRest, EscalationInv, EscalationTypeOK
    <2> QED
      BY <1>6, <2>1, Typed, Assemble DEF vars, history
  <1> QED
    BY <1>1, <1>2, <1>3, <1>4, <1>5, <1>6 DEF Next

(* Nobody tells root of a subscription before its retries are used up, and, as long as its
   record is not resolved, one cycle at most does so, once: the inductive invariant of
   watchTaskEscalations when its cycles overlap. *)
THEOREM EscalationInvariant == Spec => []EscalationInv
  BY InitKeeps, StepKeeps, PTL DEF Spec

(* The subscription map, the records and the cycles stay well-formed; in particular no
   record ever counts more than maxRetries retries. *)
THEOREM EscalationTypeCorrect == Spec => []EscalationTypeOK
  <1>1. EscalationInv => EscalationTypeOK
    BY DEF EscalationInv
  <1> QED
    BY <1>1, EscalationInvariant, PTL

(* However many nightwatch cycles handle the same expired subscription at once, root is
   told of it only after maxRetries retries. *)
THEOREM EscalationsAreEarned == Spec => []EscalationIsEarned
  <1>1. EscalationInv => EscalationIsEarned
    BY DEF EscalationInv, Good, Earned, EscalationIsEarned
  <1> QED
    BY <1>1, EscalationInvariant, PTL

(* escalateToRoot writes one notice about a subscription, unless the record was resolved
   in between. *)
THEOREM RootIsAlwaysToldOnce == Spec => []RootIsToldOnce
  <1>1. EscalationInv => RootIsToldOnce
    <2> SUFFICES ASSUME EscalationInv, NEW i \in Ids, told[i] > 1, i \notin reopened
                 PROVE  FALSE
      BY DEF RootIsToldOnce
    <2>1. told[i] <= 1 /\ told[i] \in 0..2
      BY Typed DEF Good, Once
    <2> QED
      BY <2>1
  <1> QED
    BY <1>1, EscalationInvariant, PTL
====
