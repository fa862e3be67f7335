---- MODULE RunnerDispatchProofs ----
(* Theorems about a runner and the server's claim register, for any terminals, messages
   and allowlist, any limit on attempts, and any number of faults and process starts.

   The poll tick asks the server for one thing at a time, and what an answer means depends
   on what the tick was doing when it asked.  DispatchInv ties the two ends together: the
   runner's requests on the wire are those of the call under way, all others are about
   messages whose claim is known to be in doubt, and a terminal the tick is about to give
   work to has no session. *)
EXTENDS RunnerDispatch, TaskClaimsProofs

(* --- the invariant ---------------------------------------------------------------------- *)

Calling == tick.pc \in {"claiming", "releasing"}

(* Calls are made by a tick of a living process, for a terminal without a session, and a
   claim for a message with an attempt left. *)
TickInv ==
    /\ tick.pc # "rest" => proc \in {"running", "draining"}
    /\ Calling => tick.cur \in Messages /\ ~IsBusy(TerminalOf[tick.cur], children)
    /\ tick.pc = "claiming" => ~mem[tick.cur].barred /\ mem[tick.cur].tries < MaxAttempts

(* What is remembered of the launches: by the process, or in the file it left. *)
Store == IF Alive THEN mem ELSE Loaded

(* The launches a store answers for: it lets none through for a barred message. *)
Weight(store, m) == IF store[m].barred THEN MaxAttempts ELSE store[m].tries

Counted(m, runs, lost, store) == runs[m] <= MaxAttempts * lost[m] + Weight(store, m)

LaunchInv == \A m \in Messages : Counted(m, launches, losses, Store)

(* A grant in the file is unused, and so is the one the tick has taken for its claim. *)
GrantInv ==
    /\ gate \subseteq unspent /\ gate \intersect Listed = {}
    /\ tick.pc = "claiming" =>
          /\ tick.granted <=> tick.cur \notin Listed
          /\ tick.granted => tick.cur \in unspent

(* The request of the call under way. *)
Asked(r) ==
    /\ Calling /\ reply[Runner] = "none" /\ r.msg = tick.cur
    /\ r.op = IF tick.pc = "claiming" THEN "claim" ELSE "release"

(* There is one at most. *)
WireInv ==
    /\ \A r \in wire : r.island = Home /\ IF r.who = Runner THEN Asked(r) ELSE r.msg \in unsure
    /\ \A q, r \in wire : q.who = Runner /\ r.who = Runner => q = r

Safe(m) == Holds(Home, m) \/ receipt[Home][m] # 0 \/ m \in unsure

(* Sessions, and the claim that was just won, are safe. *)
HoldInv ==
    /\ \A s \in Tracked : Safe(s.msg)
    /\ tick.pc = "claiming" /\ reply[Runner] = "ok" => Safe(tick.cur)

Unbacked(m) == Holds(Home, m) /\ launches[m] = 0 /\ m \notin unsure

(* A claim without a launch is the one the tick is about to use or to give back. *)
BackedInv ==
    \A m \in Messages : Unbacked(m) =>
        /\ tick.cur = m
        /\ \/ tick.pc = "claiming" /\ reply[Runner] = "ok"
           \/ tick.pc = "releasing" /\ reply[Runner] = "none"

(* The runner's part of DispatchTypeOK. *)
RunnerTypes ==
    /\ proc \in {"down", "baseline", "running", "draining", "counting", "exited"}
    /\ tick \in Ticks
    /\ mem \in [Messages -> Entries] /\ disk \in [Messages -> Entries] /\ file \in BOOLEAN
    /\ gate \subseteq Messages /\ gateStuck \in BOOLEAN
    /\ children \subseteq Sessions
    /\ failed \in BOOLEAN /\ faults \in 0..MaxFaults /\ starts \in 0..MaxStarts
    /\ launches \in [Messages -> Nat] /\ losses \in [Messages -> Nat]
    /\ unsure \subseteq Messages /\ unspent \subseteq Messages

TypeInv == ClaimInv /\ RunnerTypes

DispatchInv == TypeInv /\ TickInv /\ LaunchInv /\ GrantInv /\ WireInv /\ HoldInv /\ BackedInv

(* --- what a tick does next --------------------------------------------------------------- *)

(* It makes no call. *)
HangsUp ==
    /\ tick' \in Ticks /\ tick'.pc \in {"rest", "fetch", "ending"}
    /\ wire' = wire /\ reply' = [reply EXCEPT ![Runner] = "none"]

(* It claims the next message, with what the store, the sessions and the gate say now. *)
Claims(store, sessions) ==
    /\ tick' \in Ticks /\ tick'.pc = "claiming"
    /\ tick'.cur \in Messages /\ tick'.cur \in Listed \union gate
    /\ tick'.granted <=> tick'.cur \in gate
    /\ ~IsBusy(TerminalOf[tick'.cur], sessions) /\ ShouldLaunch(store, tick'.cur)
    /\ ~Stopping
    /\ wire' = wire \union {Request("claim", tick'.cur, Home, Runner)}
    /\ reply' = [reply EXCEPT ![Runner] = "none"]

(* It gives the message back that it claimed. *)
GivesBack ==
    /\ tick.pc = "claiming"
    /\ tick' \in Ticks /\ tick'.pc = "releasing" /\ tick'.cur = tick.cur
    /\ wire' = wire \union {Request("release", tick.cur, Home, Runner)}
    /\ reply' = [reply EXCEPT ![Runner] = "none"]

Goes(store, sessions) == HangsUp \/ Claims(store, sessions) \/ GivesBack

(* The answer to the last call is there, if there was a call. *)
NoCall == Calling => reply[Runner] # "none"

LEMMA NoTickType == NoTick \in Ticks /\ NoTick.pc = "rest"
  BY DEF NoTick, Ticks, Tasks

LEMMA ScanDoes ==
    ASSUME NEW here \in Ticks, NEW store, NEW sessions, Scan(here, store, sessions)
    PROVE  HangsUp \/ Claims(store, sessions)
  <1> DEFINE next == [here EXCEPT !.cur = NoTask, !.why = "none", !.granted = FALSE, !.todo = {}]
             ready == {m \in here.todo : /\ m \in Listed \/ m \in gate
                                         /\ ~IsBusy(TerminalOf[m], sessions)
                                         /\ ShouldLaunch(store, m)}
  <1>1. next \in Ticks
    BY DEF Ticks, Tasks
  <1>2. \/ /\ tick' \in {[next EXCEPT !.pc = "ending"], [next EXCEPT !.pc = "fetch"]}
           /\ reply' = [reply EXCEPT ![Runner] = "none"]
           /\ wire' = wire
        \/ /\ ~Stopping
           /\ \E m \in ready, passed \in SUBSET (here.todo \ ready) :
                 tick' = [next EXCEPT !.pc = "claiming", !.cur = m, !.granted = m \in gate,
                                      !.todo = here.todo \ ({m} \union passed)]
           /\ wire' = wire \union {Request("claim", tick'.cur, Home, Runner)}
           /\ reply' = [reply EXCEPT ![Runner] = "none"]
    BY Zenon DEF Scan, Send
  <1>3. CASE /\ tick' \in {[next EXCEPT !.pc = "ending"], [next EXCEPT !.pc = "fetch"]}
             /\ reply' = [reply EXCEPT ![Runner] = "none"]
             /\ wire' = wire
    <2> HIDE DEF next
    <2> QED BY <1>1, <1>3 DEF HangsUp, Ticks
  <1>4. CASE /\ ~Stopping
             /\ \E m \in ready, passed \in SUBSET (here.todo \ ready) :
                   tick' = [next EXCEPT !.pc = "claiming", !.cur = m, !.granted = m \in gate,
                                        !.todo = here.todo \ ({m} \union passed)]
             /\ wire' = wire \union {Request("claim", tick'.cur, Home, Runner)}
             /\ reply' = [reply EXCEPT ![Runner] = "none"]
    <2>1. PICK m \in ready, passed \in SUBSET (here.todo \ ready) :
             tick' = [next EXCEPT !.pc = "claiming", !.cur = m, !.granted = m \in gate,
                                  !.todo = here.todo \ ({m} \union passed)]
      BY <1>4
    <2>2. /\ m \in Messages /\ m \in Listed \union gate
          /\ ~IsBusy(TerminalOf[m], sessions) /\ ShouldLaunch(store, m)
      BY <2>1 DEF Ticks
    <2>3. here.todo \ ({m} \union passed) \in SUBSET Messages
      BY DEF Ticks
    <2> DEFINE g == m \in gate
               rest == here.todo \ ({m} \union passed)
    <2>4. /\ tick' = [next EXCEPT !.pc = "claiming", !.cur = m, !.granted = g, !.todo = rest]
          /\ g \in BOOLEAN /\ rest \in SUBSET Messages /\ m \in Messages
      BY <2>1, <2>2, <2>3
    <2>5. tick' \in Ticks /\ tick'.pc = "claiming" /\ tick'.cur = m /\ tick'.granted = g
      <3> HIDE DEF next, ready, g, rest
      <3>1. tick' \in Ticks
        BY <1>1, <2>4, ZenonT(60) DEF Ticks, Tasks
      <3>2. tick'.pc = "claiming"
        BY <1>1, <2>4 DEF Ticks
      <3>3. tick'.cur = m
        BY <1>1, <2>4 DEF Ticks
      <3>4. tick'.granted = g
        BY <1>1, <2>4 DEF Ticks
      <3> QED BY <3>1, <3>2, <3>3, <3>4
    <2> HIDE DEF next, ready
    <2> QED BY <1>4, <2>2, <2>5 DEF Claims
  <1> QED BY <1>2, <1>3, <1>4

LEMMA GiveBackDoes ==
    ASSUME tick \in Ticks, tick.pc = "claiming",
           NEW why \in {"stopping", "refused", "permanent", "threw"}, GiveBack(why)
    PROVE  GivesBack
  BY DEF GiveBack, GivesBack, Send, Ticks

LEMMA ThrowsHangsUp == Throws => HangsUp
  BY NoTickType DEF Throws, HangsUp

(* --- the launches a store answers for ---------------------------------------------------- *)

LEMMA OneMore == \A a, b \in Nat : a * (b + 1) = a * b + a /\ a * b \in Nat
  OBVIOUS

LEMMA WeightType ==
    ASSUME NEW store \in [Messages -> Entries], NEW m \in Messages
    PROVE  Weight(store, m) \in Nat /\ Weight(store, m) <= MaxAttempts
  BY RunnerConstants DEF Weight, Entries

(* A launch that is forgotten is a loss: the sum of both never shrinks. *)
LEMMA ForgetsDoes ==
    ASSUME NEW before \in [Messages -> Entries], NEW after \in [Messages -> Entries],
           losses \in [Messages -> Nat], Forgets(before, after)
    PROVE  /\ losses' \in [Messages -> Nat]
           /\ \A m \in Messages :
                 MaxAttempts * losses[m] + Weight(before, m)
                   <= MaxAttempts * losses'[m] + Weight(after, m)
  <1> DEFINE lost(m) == ~after[m].barred /\ (before[m].barred \/ after[m].tries < before[m].tries)
  <1>1. losses' = [m \in Messages |-> losses[m] + (IF lost(m) THEN 1 ELSE 0)]
    BY DEF Forgets
  <1>2. ASSUME NEW m \in Messages
        PROVE  /\ losses'[m] \in Nat
               /\ MaxAttempts * losses[m] + Weight(before, m)
                    <= MaxAttempts * losses'[m] + Weight(after, m)
    <2>1. /\ losses[m] \in Nat /\ MaxAttempts \in Nat
          /\ before[m].barred \in BOOLEAN /\ after[m].barred \in BOOLEAN
          /\ before[m].tries \in 0..MaxAttempts /\ after[m].tries \in 0..MaxAttempts
      BY RunnerConstants DEF Entries
    <2>2. /\ MaxAttempts * losses[m] \in Nat
          /\ MaxAttempts * (losses[m] + 1) = MaxAttempts * losses[m] + MaxAttempts
      BY <2>1, OneMore
    <2>3. losses'[m] = IF lost(m) THEN losses[m] + 1 ELSE losses[m]
      BY <1>1, <2>1
    <2> DEFINE product == MaxAttempts * losses[m]
               product1 == MaxAttempts * losses'[m]
    <2>4. /\ product \in Nat
          /\ product1 = IF lost(m) THEN product + MaxAttempts ELSE product
      BY <2>2, <2>3
    <2> HIDE DEF product, product1
    <2>5. product + Weight(before, m) <= product1 + Weight(after, m)
      BY <2>1, <2>4 DEF Weight
    <2> QED BY <2>1, <2>3, <2>5 DEF product, product1
  <1>3. losses' \in [Messages -> Nat]
    BY <1>1, <1>2
  <1> QED BY <1>2, <1>3

LEMMA CountedKeeps ==
    ASSUME NEW before \in [Messages -> Entries], NEW after \in [Messages -> Entries],
           NEW runs \in [Messages -> Nat],
           losses \in [Messages -> Nat], Forgets(before, after),
           \A m \in Messages : Counted(m, runs, losses, before)
    PROVE  losses' \in [Messages -> Nat] /\ \A m \in Messages : Counted(m, runs, losses', after)
  <1>1. losses' \in [Messages -> Nat]
    BY ForgetsDoes
  <1>2. ASSUME NEW m \in Messages
        PROVE  Counted(m, runs, losses', after)
    <2> DEFINE a == MaxAttempts * losses[m] + Weight(before, m)
               b == MaxAttempts * losses'[m] + Weight(after, m)
    <2>1. a \in Nat /\ b \in Nat
      <3>1. /\ losses[m] \in Nat /\ losses'[m] \in Nat /\ MaxAttempts \in Nat
            /\ Weight(before, m) \in Nat /\ Weight(after, m) \in Nat
        BY <1>1, WeightType, RunnerConstants
      <3>2. MaxAttempts * losses[m] \in Nat /\ MaxAttempts * losses'[m] \in Nat
        BY <3>1, OneMore
      <3> QED BY <3>1, <3>2
    <2>2. a <= b
      BY ForgetsDoes
    <2>3. runs[m] \in Nat /\ runs[m] <= a
      BY DEF Counted
    <2>4. runs[m] <= b
      <3> HIDE DEF a, b
      <3> QED BY <2>1, <2>2, <2>3
    <2> QED BY <2>4 DEF Counted
  <1> QED BY <1>1, <1>2

(* --- the store's operations ---------------------------------------------------------------- *)

LEMMA EmptyStore ==
    /\ NoEntry \in Entries /\ Empty \in [Messages -> Entries]
    /\ disk \in [Messages -> Entries] => Loaded \in [Messages -> Entries]
  BY RunnerConstants DEF NoEntry, Entries, Empty, Loaded

LEMMA RecordLaunchDoes ==
    ASSUME NEW store \in [Messages -> Entries], NEW m \in Messages,
           ~store[m].barred, store[m].tries < MaxAttempts
    PROVE  /\ RecordLaunch(store, m) \in [Messages -> Entries]
           /\ Weight(RecordLaunch(store, m), m) = Weight(store, m) + 1
           /\ \A n \in Messages \ {m} : Weight(RecordLaunch(store, m), n) = Weight(store, n)
  <1> DEFINE entry == [tries |-> store[m].tries + 1, age |-> "cooling", barred |-> FALSE]
  <1>1. store[m].tries \in 0..MaxAttempts /\ MaxAttempts \in Nat
    BY RunnerConstants DEF Entries
  <1>2. entry \in Entries
    BY <1>1 DEF Entries
  <1>3. entry.tries = store[m].tries + 1 /\ ~entry.barred
    OBVIOUS
  <1> HIDE DEF entry
  <1>4. RecordLaunch(store, m) = [store EXCEPT ![m] = entry]
    BY DEF RecordLaunch, entry
  <1> QED BY <1>2, <1>3, <1>4 DEF Weight

LEMMA RecordQuarantineDoes ==
    ASSUME NEW store \in [Messages -> Entries], NEW ms \in SUBSET Messages
    PROVE  /\ RecordQuarantine(store, ms) \in [Messages -> Entries]
           /\ \A n \in Messages : Weight(store, n) <= Weight(RecordQuarantine(store, ms), n)
  <1> DEFINE bar == [NoEntry EXCEPT !.barred = TRUE]
  <1>1. bar \in Entries
    BY EmptyStore, ZenonT(60) DEF Entries
  <1>2. bar \in Entries /\ bar.barred
    BY <1>1, EmptyStore DEF Entries
  <1> HIDE DEF bar
  <1>3. RecordQuarantine(store, ms) = [m \in Messages |-> IF m \in ms THEN bar ELSE store[m]]
    BY DEF RecordQuarantine, bar
  <1>4. ASSUME NEW n \in Messages
        PROVE  Weight(store, n) <= Weight(RecordQuarantine(store, ms), n)
    <2>1. Weight(store, n) \in Nat /\ Weight(store, n) <= MaxAttempts
      BY WeightType
    <2>2. CASE n \in ms
      BY <1>2, <1>3, <2>1, <2>2 DEF Weight
    <2>3. CASE n \notin ms
      <3>1. RecordQuarantine(store, ms)[n] = store[n]
        BY <1>3, <2>3
      <3>2. Weight(RecordQuarantine(store, ms), n) = Weight(store, n)
        BY <3>1 DEF Weight
      <3> QED BY <2>1, <3>2
    <2> QED BY <2>2, <2>3
  <1> QED BY <1>2, <1>3, <1>4

LEMMA PrunedType ==
    ASSUME NEW store \in [Messages -> Entries]
    PROVE  Pruned(store) \in [Messages -> Entries]
  BY EmptyStore DEF Pruned

(* Time changes the age of an entry only. *)
LEMMA LaterDoes ==
    ASSUME NEW entry \in Entries, NEW new \in Later(entry)
    PROVE  new \in Entries /\ new.tries = entry.tries /\ new.barred = entry.barred
  <1>1. PICK a \in {"cooling", "due", "old"} : new = [entry EXCEPT !.age = a]
    BY DEF Later, Entries
  <1> QED BY <1>1 DEF Entries

LEMMA FaultType ==
    ASSUME faults \in 0..MaxFaults, Fault
    PROVE  faults' \in 0..MaxFaults
  BY RunnerConstants DEF Fault

LEMMA SaveStoreDoes ==
    ASSUME RunnerTypes, SaveStore
    PROVE  /\ mem' \in [Messages -> Entries] /\ disk' \in [Messages -> Entries]
           /\ file' \in BOOLEAN /\ faults' \in 0..MaxFaults
           /\ Forgets(mem, mem')
  <1>1. mem' \in [Messages -> Entries] /\ disk' \in [Messages -> Entries]
    BY PrunedType DEF SaveStore, RunnerTypes
  <1>2. file' \in BOOLEAN
    BY DEF SaveStore, RunnerTypes
  <1>3. faults' \in 0..MaxFaults
    <2>1. UNCHANGED faults \/ Fault
      BY DEF SaveStore
    <2> QED BY <2>1, FaultType DEF RunnerTypes
  <1> QED BY <1>1, <1>2, <1>3 DEF SaveStore

(* --- the launches stay counted -------------------------------------------------------------- *)

(* A step that makes no launch and forgets none. *)
LEMMA LaunchesKept ==
    ASSUME TypeInv, LaunchInv, UNCHANGED <<launches, losses>>,
           Store' \in [Messages -> Entries],
           \A m \in Messages : Weight(Store, m) <= Weight(Store', m)
    PROVE  LaunchInv'
  <1> SUFFICES ASSUME NEW m \in Messages
               PROVE  Counted(m, launches, losses, Store')
    BY DEF LaunchInv
  <1>1. Store \in [Messages -> Entries]
    BY EmptyStore DEF Store, TypeInv, RunnerTypes
  <1>2. Weight(Store, m) \in Nat /\ Weight(Store', m) \in Nat
    BY <1>1, WeightType
  <1>3. losses[m] \in Nat /\ MaxAttempts \in Nat /\ launches[m] \in Nat
    BY RunnerConstants DEF TypeInv, RunnerTypes
  <1>4. MaxAttempts * losses[m] \in Nat
    BY <1>3, OneMore
  <1>5. launches[m] <= MaxAttempts * losses[m] + Weight(Store, m)
    BY DEF LaunchInv, Counted
  <1> DEFINE product == MaxAttempts * losses[m]
  <1>6. launches[m] <= product + Weight(Store', m)
    <2> HIDE DEF product
    <2>1. product \in Nat /\ launches[m] <= product + Weight(Store, m)
      BY <1>4, <1>5 DEF product
    <2> QED BY <1>2, <1>3, <2>1
  <1> QED BY <1>6 DEF Counted

LEMMA StoreSame ==
    ASSUME TypeInv, LaunchInv, UNCHANGED <<launches, losses, mem, disk, file>>, Alive' <=> Alive
    PROVE  LaunchInv'
  <1>1. Store' = Store
    BY DEF Store, Loaded
  <1> QED BY <1>1 DEF LaunchInv, Counted, Weight

(* --- the calls of a tick -------------------------------------------------------------------- *)

(* A step of the runner leaves the register to the server. *)
LEMMA RegisterKept ==
    ASSUME ClaimInv, UNCHANGED <<register, inbox>>, wire' \in SUBSET Requests,
           reply' \in [Callers -> {"none", "ok", "refused"}]
    PROVE  ClaimInv'
  BY DEF ClaimInv, ClaimTypeOK, RowOK, register

LEMMA HangUpType ==
    ASSUME ClaimInv, NEW a \in {"none", "ok", "refused"}
    PROVE  /\ [reply EXCEPT ![Runner] = a] \in [Callers -> {"none", "ok", "refused"}]
           /\ [reply EXCEPT ![Runner] = a][Runner] = a
  BY RunnerConstants DEF ClaimInv, ClaimTypeOK

LEMMA AskType ==
    ASSUME ClaimInv, NEW op \in {"claim", "release"}, NEW m \in Messages
    PROVE  wire \union {Request(op, m, Home, Runner)} \in SUBSET Requests
  <1>1. Home \in Islands /\ Runner \in Callers \union {Stray}
    BY RunnerConstants
  <1>2. Request(op, m, Home, Runner) \in Requests
    BY <1>1 DEF Request, Requests
  <1> QED BY <1>2 DEF ClaimInv, ClaimTypeOK

LEMMA NobodyAsks ==
    ASSUME WireInv, NoCall
    PROVE  \A r \in wire : r.island = Home /\ r.who # Runner /\ r.msg \in unsure
  BY DEF WireInv, NoCall, Asked

LEMMA GoesKeepsRegister ==
    ASSUME TypeInv, TickInv, NEW store, NEW sessions, Goes(store, sessions),
           UNCHANGED <<register, inbox>>
    PROVE  ClaimInv'
  <1>1. reply' \in [Callers -> {"none", "ok", "refused"}]
    BY HangUpType DEF Goes, HangsUp, Claims, GivesBack, TypeInv
  <1>2. wire' \in SUBSET Requests
    <2>1. CASE HangsUp
      BY <2>1 DEF HangsUp, TypeInv, ClaimInv, ClaimTypeOK
    <2>2. CASE Claims(store, sessions)
      BY <2>2, AskType DEF Claims, TypeInv
    <2>3. CASE GivesBack
      BY <2>3, AskType DEF GivesBack, TypeInv, TickInv, Calling
    <2> QED BY <2>1, <2>2, <2>3 DEF Goes
  <1> QED BY <1>1, <1>2, RegisterKept DEF TypeInv

LEMMA GoesKeepsWire ==
    ASSUME TypeInv, WireInv, NoCall, NEW store, NEW sessions, Goes(store, sessions),
           UNCHANGED unsure
    PROVE  WireInv'
  <1>1. reply'[Runner] = "none"
    BY HangUpType DEF Goes, HangsUp, Claims, GivesBack, TypeInv
  <1>2. \A r \in wire : r.island = Home /\ r.who # Runner /\ r.msg \in unsure
    BY NobodyAsks
  <1>3. CASE HangsUp
    BY <1>2, <1>3 DEF HangsUp, WireInv
  <1>4. CASE Claims(store, sessions)
    <2>0. PICK new : new = Request("claim", tick'.cur, Home, Runner)
      OBVIOUS
    <2>1. new.op = "claim" /\ new.msg = tick'.cur /\ new.island = Home /\ new.who = Runner
      BY <2>0 DEF Request
    <2>2. Asked(new)'
      BY <1>1, <1>4, <2>1 DEF Claims, Asked, Calling
    <2>3. wire' = wire \union {new}
      BY <1>4, <2>0 DEF Claims
    <2> QED BY <1>2, <2>1, <2>2, <2>3 DEF WireInv
  <1>5. CASE GivesBack
    <2>0. PICK new : new = Request("release", tick.cur, Home, Runner)
      OBVIOUS
    <2>1. new.op = "release" /\ new.msg = tick.cur /\ new.island = Home /\ new.who = Runner
      BY <2>0 DEF Request
    <2>2. Asked(new)'
      BY <1>1, <1>5, <2>1 DEF GivesBack, Asked, Calling
    <2>3. wire' = wire \union {new}
      BY <1>5, <2>0 DEF GivesBack
    <2> QED BY <1>2, <2>1, <2>2, <2>3 DEF WireInv
  <1> QED BY <1>3, <1>4, <1>5 DEF Goes

LEMMA GoesKeepsTick ==
    ASSUME TypeInv, TickInv, tick.pc # "rest", Goes(mem', children'), UNCHANGED proc,
           GivesBack => ~IsBusy(TerminalOf[tick.cur], children')
    PROVE  TickInv'
  <1>1. proc' \in {"running", "draining"}
    BY DEF TickInv
  <1>2. CASE HangsUp
    BY <1>1, <1>2 DEF HangsUp, TickInv, Calling
  <1>3. CASE Claims(mem', children')
    BY <1>1, <1>3 DEF Claims, TickInv, Calling, ShouldLaunch
  <1>4. CASE GivesBack
    BY <1>1, <1>4 DEF GivesBack, TickInv, Calling
  <1> QED BY <1>2, <1>3, <1>4 DEF Goes

LEMMA GoesKeepsGrant ==
    ASSUME GrantInv, NEW store, NEW sessions, Goes(store, sessions),
           gate' \subseteq unspent', gate' \intersect Listed = {},
           Claims(store, sessions) /\ tick'.granted => tick'.cur \in unspent'
    PROVE  GrantInv'
  <1>1. CASE HangsUp \/ GivesBack
    BY <1>1 DEF HangsUp, GivesBack, GrantInv
  <1>2. CASE Claims(store, sessions)
    BY <1>2 DEF Claims, GrantInv
  <1> QED BY <1>1, <1>2 DEF Goes

LEMMA GoesKeepsHold ==
    ASSUME TypeInv, NEW store, NEW sessions, Goes(store, sessions),
           UNCHANGED <<register, unsure>>, \A s \in Tracked' : Safe(s.msg)
    PROVE  HoldInv'
  <1>1. reply'[Runner] = "none"
    BY HangUpType DEF Goes, HangsUp, Claims, GivesBack, TypeInv
  <1>2. \A m : Safe(m)' <=> Safe(m)
    BY DEF Safe, Holds, register
  <1> QED BY <1>1, <1>2 DEF HoldInv

LEMMA GoesKeepsBacked ==
    ASSUME TypeInv, NEW store, NEW sessions, Goes(store, sessions),
           \A m \in Messages : Unbacked(m)' => GivesBack /\ tick.cur = m
    PROVE  BackedInv'
  <1> SUFFICES ASSUME NEW m \in Messages, Unbacked(m)'
               PROVE  tick'.cur = m /\ tick'.pc = "releasing" /\ reply'[Runner] = "none"
    BY DEF BackedInv
  <1>1. GivesBack /\ tick.cur = m
    OBVIOUS
  <1>2. reply'[Runner] = "none"
    BY <1>1, HangUpType DEF GivesBack, TypeInv
  <1> QED BY <1>1, <1>2 DEF GivesBack

(* A step of a tick that has its answer, put together from what is left to show of it. *)
LEMMA GoesOn ==
    ASSUME DispatchInv, tick.pc # "rest", NoCall, Goes(mem', children'),
           UNCHANGED <<register, inbox, proc, unsure>>, RunnerTypes', LaunchInv',
           gate' \subseteq unspent', gate' \intersect Listed = {},
           Claims(mem', children') /\ tick'.granted => tick'.cur \in unspent',
           GivesBack => ~IsBusy(TerminalOf[tick.cur], children'),
           \A s \in Tracked' : Safe(s.msg),
           \A m \in Messages : Unbacked(m)' => GivesBack /\ tick.cur = m
    PROVE  DispatchInv'
  <1>1. TypeInv'
    BY GoesKeepsRegister DEF TypeInv, DispatchInv
  <1>2. TickInv'
    BY GoesKeepsTick DEF DispatchInv
  <1>3. GrantInv'
    BY GoesKeepsGrant DEF DispatchInv
  <1>4. WireInv'
    BY GoesKeepsWire DEF DispatchInv
  <1>5. HoldInv'
    BY GoesKeepsHold DEF DispatchInv
  <1>6. BackedInv'
    BY GoesKeepsBacked DEF DispatchInv
  <1> QED BY <1>1, <1>2, <1>3, <1>4, <1>5, <1>6 DEF DispatchInv

(* --- the steps of a tick ---------------------------------------------------------------------- *)

LEMMA NoneUnbacked ==
    ASSUME BackedInv, NoCall, ~(tick.pc = "claiming" /\ reply[Runner] = "ok")
    PROVE  \A m \in Messages : ~Unbacked(m)
  BY DEF BackedInv, NoCall, Calling

LEMMA UnbackedSame ==
    ASSUME UNCHANGED <<register, launches, unsure>>
    PROVE  \A m : Unbacked(m)' <=> Unbacked(m)
  BY DEF Unbacked, Holds, register

(* The tick goes on to the next message, or ends, without having started anything. *)
LEMMA MovesOn ==
    ASSUME DispatchInv, tick.pc # "rest", NoCall,
           ~(tick.pc = "claiming" /\ reply[Runner] = "ok"),
           HangsUp \/ Claims(mem', children),
           UNCHANGED <<register, inbox, proc, unsure, gateVars, children, launches>>,
           RunnerTypes', LaunchInv'
    PROVE  DispatchInv'
  <1>1. Goes(mem', children')
    BY DEF Goes
  <1>2. ~GivesBack
    BY DEF GivesBack, HangsUp, Claims
  <1>3. \A m \in Messages : ~Unbacked(m)'
    BY NoneUnbacked, UnbackedSame DEF DispatchInv
  <1>4. /\ gate' \subseteq unspent' /\ gate' \intersect Listed = {}
        /\ Claims(mem', children') /\ tick'.granted => tick'.cur \in unspent'
    BY DEF gateVars, DispatchInv, GrantInv, Claims
  <1>5. \A s \in Tracked' : Safe(s.msg)
    BY DEF DispatchInv, HoldInv, Tracked
  <1> QED BY <1>1, <1>2, <1>3, <1>4, <1>5, GoesOn

LEMMA FetchDoneKeeps == DispatchInv /\ FetchDone => DispatchInv'
  <1> SUFFICES ASSUME DispatchInv, FetchDone
               PROVE  DispatchInv'
    OBVIOUS
  <1>1. tick \in Ticks /\ tick.pc = "reading" /\ mem' = mem
    BY DEF FetchDone, DispatchInv, TypeInv, RunnerTypes, storeVars
  <1>2. HangsUp \/ Claims(mem', children)
    BY <1>1, ScanDoes DEF FetchDone
  <1>3. RunnerTypes'
    <2>1. tick' \in Ticks
      BY <1>2 DEF HangsUp, Claims
    <2> QED BY <2>1 DEF FetchDone, DispatchInv, TypeInv, RunnerTypes, storeVars, gateVars, history
  <1>4. LaunchInv'
    BY StoreSame DEF FetchDone, DispatchInv, Alive, storeVars, history
  <1> QED BY <1>1, <1>2, <1>3, <1>4, MovesOn DEF FetchDone, NoCall, Calling, gateVars, history

LEMMA ClaimRefusedKeeps == DispatchInv /\ ClaimRefused => DispatchInv'
  <1> SUFFICES ASSUME DispatchInv, ClaimRefused
               PROVE  DispatchInv'
    OBVIOUS
  <1>1. /\ tick \in Ticks /\ tick.pc = "claiming" /\ reply[Runner] = "refused"
        /\ mem' = mem
    BY DEF ClaimRefused, DispatchInv, TypeInv, RunnerTypes, storeVars
  <1>2. /\ HangsUp \/ Claims(mem', children)
        /\ failed' \in BOOLEAN
    <2>1. CASE Stopping /\ Throws
      BY <2>1, ThrowsHangsUp DEF Throws
    <2>2. CASE ~Stopping /\ Scan(tick, mem, children) /\ UNCHANGED failed
      BY <1>1, <2>2, ScanDoes DEF DispatchInv, TypeInv, RunnerTypes
    <2> QED BY <2>1, <2>2 DEF ClaimRefused
  <1>3. RunnerTypes'
    <2>1. tick' \in Ticks
      BY <1>2 DEF HangsUp, Claims
    <2> QED
      BY <1>2, <2>1 DEF ClaimRefused, DispatchInv, TypeInv, RunnerTypes, storeVars, gateVars,
         history
  <1>4. LaunchInv'
    BY StoreSame DEF ClaimRefused, DispatchInv, Alive, storeVars, history
  <1> QED BY <1>1, <1>2, <1>3, <1>4, MovesOn DEF ClaimRefused, NoCall, gateVars, history

LEMMA ReleaseRefusedKeeps == DispatchInv /\ ReleaseRefused => DispatchInv'
  <1> SUFFICES ASSUME DispatchInv, ReleaseRefused
               PROVE  DispatchInv'
    OBVIOUS
  <1>1. tick.pc = "releasing" /\ reply[Runner] = "refused"
    BY DEF ReleaseRefused
  <1>2. HangsUp /\ failed' \in BOOLEAN
    BY ThrowsHangsUp DEF ReleaseRefused, Throws
  <1>3. RunnerTypes'
    <2>1. tick' \in Ticks
      BY <1>2 DEF HangsUp
    <2> QED
      BY <1>2, <2>1 DEF ReleaseRefused, DispatchInv, TypeInv, RunnerTypes, storeVars, gateVars,
         history
  <1>4. LaunchInv'
    BY StoreSame DEF ReleaseRefused, DispatchInv, Alive, storeVars, history
  <1> QED BY <1>1, <1>2, <1>3, <1>4, MovesOn DEF ReleaseRefused, NoCall, gateVars, history

LEMMA ReleasedKeeps == DispatchInv /\ Released => DispatchInv'
  <1> SUFFICES ASSUME DispatchInv, Released
               PROVE  DispatchInv'
    OBVIOUS
  <1>1. /\ tick \in Ticks /\ tick.pc = "releasing" /\ reply[Runner] = "ok"
        /\ tick.cur \in Messages /\ mem \in [Messages -> Entries] /\ proc # "down"
        /\ proc # "exited"
    BY DEF Released, DispatchInv, TypeInv, RunnerTypes, TickInv, Calling
  <1>2. /\ HangsUp \/ Claims(mem', children)
        /\ failed' \in BOOLEAN /\ mem' \in [Messages -> Entries]
        /\ \A m \in Messages : Weight(mem, m) <= Weight(mem', m)
    <2>0. \A m \in Messages : Weight(mem, m) <= Weight(mem, m)
      BY <1>1, WeightType
    <2>1. CASE /\ tick' = [tick EXCEPT !.pc = "ending", !.cur = NoTask, !.why = "none",
                                       !.granted = FALSE, !.todo = {}]
               /\ reply' = [reply EXCEPT ![Runner] = "none"]
               /\ UNCHANGED <<wire, mem, failed>>
      <3>1. tick' \in Ticks
        BY <1>1, <2>1, ZenonT(60) DEF Ticks, Tasks
      <3>2. tick'.pc = "ending"
        BY <1>1, <2>1 DEF Ticks
      <3>3. HangsUp
        BY <2>1, <3>1, <3>2 DEF HangsUp
      <3> QED BY <1>1, <2>0, <2>1, <3>3 DEF DispatchInv, TypeInv, RunnerTypes
    <2>2. CASE Scan(tick, mem, children) /\ UNCHANGED <<mem, failed>>
      BY <1>1, <2>0, <2>2, ScanDoes DEF DispatchInv, TypeInv, RunnerTypes
    <2>3. CASE /\ mem' = RecordQuarantine(mem, {tick.cur})
               /\ Scan([tick EXCEPT !.dirty = TRUE], mem', children)
               /\ UNCHANGED failed
      <3>1. [tick EXCEPT !.dirty = TRUE] \in Ticks
        BY <1>1, ZenonT(60) DEF Ticks
      <3>2. HangsUp \/ Claims(mem', children)
        BY <2>3, <3>1, ScanDoes
      <3> QED
        BY <1>1, <2>3, <3>2, RecordQuarantineDoes DEF DispatchInv, TypeInv, RunnerTypes
    <2>4. CASE Throws /\ UNCHANGED mem
      BY <1>1, <2>0, <2>4, ThrowsHangsUp DEF Throws
    <2> QED BY <2>1, <2>2, <2>3, <2>4 DEF Released
  <1>3. RunnerTypes'
    <2>1. tick' \in Ticks
      BY <1>2 DEF HangsUp, Claims
    <2> QED
      BY <1>2, <2>1 DEF Released, DispatchInv, TypeInv, RunnerTypes, gateVars, history
  <1>4. LaunchInv'
    <2>1. Store = mem /\ Store' = mem'
      BY <1>1 DEF Released, Store, Alive
    <2> QED BY <1>2, <2>1, LaunchesKept DEF Released, DispatchInv, history
  <1> QED BY <1>1, <1>2, <1>3, <1>4, MovesOn DEF Released, NoCall, gateVars, history

(* A claim that is given back: what came up meanwhile is in no table of sessions. *)
LEMMA BackAgain ==
    ASSUME DispatchInv, tick.pc = "claiming", reply[Runner] = "ok", GivesBack,
           UNCHANGED <<register, inbox, proc, storeVars, gateVars, failed, faults, starts, history>>,
           children' \subseteq Sessions, Tracked' = Tracked
    PROVE  DispatchInv'
  <1>1. RunnerTypes'
    BY DEF GivesBack, DispatchInv, TypeInv, RunnerTypes, storeVars, gateVars, history
  <1>2. LaunchInv'
    BY StoreSame DEF DispatchInv, Alive, storeVars, history
  <1>3. ~IsBusy(TerminalOf[tick.cur], children')
    BY DEF DispatchInv, TickInv, Calling, IsBusy, Tracked
  <1>4. Goes(mem', children') /\ ~Claims(mem', children')
    BY DEF Goes, GivesBack, Claims
  <1>5. \A m \in Messages : Unbacked(m)' => tick.cur = m
    BY UnbackedSame DEF DispatchInv, BackedInv, history
  <1>6. gate' \subseteq unspent' /\ gate' \intersect Listed = {}
    BY DEF DispatchInv, GrantInv, gateVars
  <1>7. \A s \in Tracked' : Safe(s.msg)
    BY DEF DispatchInv, HoldInv
  <1> QED
    BY <1>1, <1>2, <1>3, <1>4, <1>5, <1>6, <1>7, GoesOn DEF NoCall, history

LEMMA ClaimedTooLateKeeps == DispatchInv /\ ClaimedTooLate => DispatchInv'
  <1> SUFFICES ASSUME DispatchInv, ClaimedTooLate
               PROVE  DispatchInv'
    OBVIOUS
  <1>1. GivesBack
    BY GiveBackDoes DEF ClaimedTooLate, DispatchInv, TypeInv, RunnerTypes
  <1>2. Tracked' = Tracked /\ children' \subseteq Sessions
    BY DEF ClaimedTooLate, Tracked, DispatchInv, TypeInv, RunnerTypes
  <1> QED BY <1>1, <1>2, BackAgain DEF ClaimedTooLate

LEMMA LaunchRefusedKeeps == DispatchInv /\ LaunchRefused => DispatchInv'
  <1> SUFFICES ASSUME DispatchInv, LaunchRefused
               PROVE  DispatchInv'
    OBVIOUS
  <1>1. tick \in Ticks /\ tick.pc = "claiming" /\ tick.cur \in Messages /\ children \subseteq Sessions
    BY DEF LaunchRefused, DispatchInv, TypeInv, RunnerTypes, TickInv, Calling
  <1>2. CASE \E why \in Outcomes \intersect {"refused", "permanent", "threw"} :
                GiveBack(why) /\ UNCHANGED children
    <2>1. GivesBack
      BY <1>1, <1>2, GiveBackDoes
    <2>2. Tracked' = Tracked /\ children' \subseteq Sessions
      BY <1>1, <1>2 DEF Tracked
    <2> QED BY <1>1, <2>1, <2>2, BackAgain DEF LaunchRefused
  <1>3. CASE children' = children \union {Session(tick.cur, "stray")} /\ GiveBack("refused")
    <2>1. GivesBack
      BY <1>1, <1>3, GiveBackDoes
    <2>2. Session(tick.cur, "stray") \in Sessions /\ Session(tick.cur, "stray").kind = "stray"
      BY <1>1 DEF Session, Sessions
    <2>3. Tracked' = Tracked /\ children' \subseteq Sessions
      BY <1>1, <1>3, <2>2 DEF Tracked
    <2> QED BY <1>1, <2>1, <2>3, BackAgain DEF LaunchRefused
  <1> QED BY <1>2, <1>3 DEF LaunchRefused

LEMMA SessionType ==
    ASSUME NEW m \in Messages, NEW kind \in {"active", "killed", "stray"}
    PROVE  /\ Session(m, kind) \in Sessions
           /\ Session(m, kind).msg = m /\ Session(m, kind).kind = kind
  BY DEF Session, Sessions

(* One launch more, counted by the entry that records it. *)
LEMMA LaunchCounted ==
    ASSUME TypeInv, NEW store \in [Messages -> Entries], NEW m \in Messages,
           \A n \in Messages : Counted(n, launches, losses, store),
           ~store[m].barred, store[m].tries < MaxAttempts,
           launches' = [launches EXCEPT ![m] = @ + 1]
    PROVE  /\ launches' \in [Messages -> Nat]
           /\ \A n \in Messages : Counted(n, launches', losses, RecordLaunch(store, m))
  <1>1. /\ launches' \in [Messages -> Nat] /\ launches'[m] = launches[m] + 1
        /\ \A n \in Messages \ {m} : launches'[n] = launches[n]
    BY DEF TypeInv, RunnerTypes
  <1>2. ASSUME NEW n \in Messages
        PROVE  Counted(n, launches', losses, RecordLaunch(store, m))
    <2> DEFINE product == MaxAttempts * losses[n]
    <2>1. losses[n] \in Nat /\ MaxAttempts \in Nat /\ launches[n] \in Nat
      BY RunnerConstants DEF TypeInv, RunnerTypes
    <2>2. product \in Nat /\ Weight(store, n) \in Nat /\ launches[n] <= product + Weight(store, n)
      BY <2>1, OneMore, WeightType DEF Counted
    <2>3. /\ Weight(RecordLaunch(store, m), m) = Weight(store, m) + 1
          /\ \A k \in Messages \ {m} : Weight(RecordLaunch(store, m), k) = Weight(store, k)
      BY RecordLaunchDoes
    <2>4. launches'[n] <= product + Weight(RecordLaunch(store, m), n)
      <3> HIDE DEF product
      <3> QED BY <1>1, <2>1, <2>2, <2>3
    <2> QED BY <2>4 DEF Counted
  <1> QED BY <1>1, <1>2

LEMMA LaunchedKeeps == DispatchInv /\ Launched => DispatchInv'
  <1> SUFFICES ASSUME DispatchInv, Launched
               PROVE  DispatchInv'
    OBVIOUS
  <1> DEFINE m == tick.cur
  <1>1. /\ tick \in Ticks /\ tick.pc = "claiming" /\ reply[Runner] = "ok" /\ m \in Messages
        /\ mem \in [Messages -> Entries] /\ ~mem[m].barred /\ mem[m].tries < MaxAttempts
        /\ proc # "down" /\ proc # "exited"
    BY DEF Launched, DispatchInv, TypeInv, RunnerTypes, TickInv, Calling
  <1>2. /\ children' = children \union {Session(m, "active")}
        /\ launches' = [launches EXCEPT ![m] = @ + 1]
        /\ mem' = RecordLaunch(mem, m) /\ ConsumeGrant(m, tick.granted)
        /\ UNCHANGED <<register, inbox, proc, disk, file, gateStuck, failed, starts, losses, unsure>>
    BY DEF Launched
  <1>3. HangsUp \/ Claims(mem', children')
    <2>1. [tick EXCEPT !.dirty = TRUE] \in Ticks
      BY <1>1, ZenonT(60) DEF Ticks
    <2> QED BY <2>1, ScanDoes DEF Launched
  <1>4. Session(m, "active") \in Sessions /\ Session(m, "active").msg = m
        /\ Session(m, "active").kind = "active"
    BY <1>1, SessionType
  <1> HIDE DEF m
  <1>5. RunnerTypes'
    <2>1. tick' \in Ticks
      BY <1>3 DEF HangsUp, Claims
    <2>2. mem' \in [Messages -> Entries]
      BY <1>1, <1>2, RecordLaunchDoes
    <2>3. launches' \in [Messages -> Nat]
      BY <1>1, <1>2 DEF DispatchInv, TypeInv, RunnerTypes
    <2>4. faults' \in 0..MaxFaults
      <3>1. UNCHANGED faults \/ Fault
        BY <1>2 DEF ConsumeGrant
      <3> QED BY <3>1, FaultType DEF DispatchInv, TypeInv, RunnerTypes
    <2>5. gate' \subseteq Messages /\ unspent' \subseteq Messages
      BY <1>2 DEF ConsumeGrant, DispatchInv, TypeInv, RunnerTypes
    <2>6. children' \subseteq Sessions
      BY <1>2, <1>4 DEF DispatchInv, TypeInv, RunnerTypes
    <2> QED
      BY <1>2, <2>1, <2>2, <2>3, <2>4, <2>5, <2>6 DEF DispatchInv, TypeInv, RunnerTypes
  <1>6. LaunchInv'
    <2>1. Store = mem /\ Store' = mem'
      BY <1>1, <1>2 DEF Store, Alive
    <2>2. \A n \in Messages : Counted(n, launches', losses, RecordLaunch(mem, m))
      BY <1>1, <1>2, <2>1, LaunchCounted DEF DispatchInv, LaunchInv
    <2> QED BY <1>2, <2>1, <2>2 DEF LaunchInv, Counted
  <1>7. Goes(mem', children') /\ ~GivesBack
    BY <1>3 DEF Goes, GivesBack, HangsUp, Claims
  <1>8. /\ gate' \subseteq unspent' /\ gate' \intersect Listed = {}
        /\ unspent \ {m} \subseteq unspent'
    <2>1. gate \subseteq unspent /\ gate \intersect Listed = {}
      BY DEF DispatchInv, GrantInv
    <2>2. ~tick.granted => m \in Listed
      BY <1>1 DEF DispatchInv, GrantInv, m
    <2> QED BY <1>2, <2>1, <2>2 DEF ConsumeGrant
  <1>9. ASSUME Claims(mem', children'), tick'.granted
        PROVE  tick'.cur \in unspent'
    <2>1. tick'.cur \in gate /\ gate \subseteq unspent
      BY <1>9 DEF Claims, DispatchInv, GrantInv
    <2>2. IsBusy(TerminalOf[m], children')
      BY <1>2, <1>4 DEF IsBusy
    <2>3. tick'.cur # m
      BY <1>9, <2>2 DEF Claims
    <2> QED BY <1>8, <2>1, <2>3
  <1>10. \A s \in Tracked' : Safe(s.msg)
    <2>1. Safe(m)
      BY <1>1 DEF DispatchInv, HoldInv, m
    <2>2. \A s \in Tracked' : s \in Tracked \/ s.msg = m
      BY <1>2, <1>4 DEF Tracked
    <2> QED BY <2>1, <2>2 DEF DispatchInv, HoldInv
  <1>11. ASSUME NEW n \in Messages, Unbacked(n)'
         PROVE  FALSE
    <2>1. Holds(Home, n) /\ n \notin unsure /\ launches'[n] = 0
      BY <1>2, <1>11 DEF Unbacked, Holds, register
    <2>2. launches[n] \in Nat /\ launches'[n] = IF n = m THEN launches[n] + 1 ELSE launches[n]
      BY <1>1, <1>2 DEF DispatchInv, TypeInv, RunnerTypes
    <2>3. launches[n] = 0 /\ n # m
      BY <2>1, <2>2
    <2> QED BY <2>1, <2>3 DEF DispatchInv, BackedInv, Unbacked, m
  <1> QED
    BY <1>1, <1>2, <1>5, <1>6, <1>7, <1>8, <1>9, <1>10, <1>11, GoesOn DEF NoCall

(* --- steps between calls --------------------------------------------------------------------- *)

(* Nothing is asked before the step and nothing after it. *)
LEMMA IdleMove ==
    ASSUME DispatchInv, ~Calling, tick'.pc \notin {"claiming", "releasing"},
           tick'.pc # "rest" => proc' \in {"running", "draining"},
           UNCHANGED <<claimVars, gateVars, children, launches, unsure>>,
           RunnerTypes', LaunchInv'
    PROVE  DispatchInv'
  <1>1. TypeInv'
    BY DEF DispatchInv, TypeInv, ClaimInv, ClaimTypeOK, RowOK, claimVars
  <1>2. TickInv'
    BY DEF TickInv, Calling
  <1>3. GrantInv'
    BY DEF DispatchInv, GrantInv, gateVars
  <1>4. \A r \in wire : r.island = Home /\ r.who # Runner /\ r.msg \in unsure
    BY NobodyAsks DEF DispatchInv, NoCall
  <1>5. WireInv'
    BY <1>4 DEF WireInv, claimVars
  <1>6. HoldInv'
    BY DEF DispatchInv, HoldInv, Tracked, Safe, Holds, claimVars
  <1>7. \A m \in Messages : ~Unbacked(m)
    BY NoneUnbacked DEF DispatchInv, NoCall, Calling
  <1>8. BackedInv'
    BY <1>7 DEF BackedInv, Unbacked, Holds, claimVars
  <1> QED BY <1>1, <1>2, <1>3, <1>5, <1>6, <1>8 DEF DispatchInv

LEMMA UnreadType == \A t : Unread(t) \in SUBSET Messages
  BY DEF Unread

LEMMA TickStartsKeeps == DispatchInv /\ TickStarts => DispatchInv'
  <1> SUFFICES ASSUME DispatchInv, TickStarts
               PROVE  DispatchInv'
    OBVIOUS
  <1>1. tick' \in Ticks /\ tick'.pc = "fetch"
    BY NoTickType, Zenon DEF TickStarts, Ticks
  <1>2. RunnerTypes'
    BY <1>1 DEF TickStarts, DispatchInv, TypeInv, RunnerTypes, storeVars, gateVars, history
  <1>3. LaunchInv'
    BY StoreSame DEF TickStarts, DispatchInv, Alive, storeVars, history
  <1> QED BY <1>1, <1>2, <1>3, IdleMove DEF TickStarts, Calling, history

LEMMA FetchUnreadKeeps == \A t : DispatchInv /\ FetchUnread(t) => DispatchInv'
  <1> SUFFICES ASSUME NEW t, DispatchInv, FetchUnread(t)
               PROVE  DispatchInv'
    OBVIOUS
  <1>1. tick \in Ticks /\ tick.pc = "fetch" /\ proc \in {"running", "draining"}
    BY DEF FetchUnread, DispatchInv, TypeInv, RunnerTypes, TickInv
  <1>2. tick' \in Ticks /\ tick'.pc = "reading"
    <2>1. tick' = [tick EXCEPT !.pc = "reading", !.walk = @ \ {t}, !.todo = Unread(t)]
      BY DEF FetchUnread
    <2>2. tick.walk \ {t} \in SUBSET Terminals /\ Unread(t) \in SUBSET Messages
      BY <1>1, UnreadType DEF Ticks
    <2>3. tick' \in Ticks
      BY <1>1, <2>1, <2>2, ZenonT(60) DEF Ticks
    <2>4. tick'.pc = "reading"
      BY <1>1, <2>1 DEF Ticks
    <2> QED BY <2>3, <2>4
  <1>3. RunnerTypes'
    BY <1>2 DEF FetchUnread, DispatchInv, TypeInv, RunnerTypes, storeVars, gateVars, history
  <1>4. LaunchInv'
    BY StoreSame DEF FetchUnread, DispatchInv, Alive, storeVars, history
  <1> QED BY <1>1, <1>2, <1>3, <1>4, IdleMove DEF FetchUnread, Calling, history

LEMMA FetchFailsKeeps == DispatchInv /\ FetchFails => DispatchInv'
  <1> SUFFICES ASSUME DispatchInv, FetchFails
               PROVE  DispatchInv'
    OBVIOUS
  <1>1. tick \in Ticks /\ tick.pc = "reading" /\ proc \in {"running", "draining"}
    BY DEF FetchFails, DispatchInv, TypeInv, RunnerTypes, TickInv
  <1>2. tick' \in Ticks /\ tick'.pc = "fetch"
    <2>1. tick' = [tick EXCEPT !.pc = "fetch", !.todo = {}]
      BY DEF FetchFails
    <2>2. tick' \in Ticks
      <3>1. {} \in SUBSET Messages
        OBVIOUS
      <3> QED BY <1>1, <2>1, <3>1, ZenonT(60) DEF Ticks
    <2>3. tick'.pc = "fetch"
      BY <1>1, <2>1 DEF Ticks
    <2> QED BY <2>2, <2>3
  <1>3. faults' \in 0..MaxFaults
    BY FaultType DEF FetchFails, DispatchInv, TypeInv, RunnerTypes
  <1>4. RunnerTypes'
    BY <1>2, <1>3 DEF FetchFails, DispatchInv, TypeInv, RunnerTypes, storeVars, gateVars, history
  <1>5. LaunchInv'
    BY StoreSame DEF FetchFails, DispatchInv, Alive, storeVars, history
  <1> QED BY <1>1, <1>2, <1>4, <1>5, IdleMove DEF FetchFails, Calling, history

(* A save counts what it drops. *)
LEMMA SaveCounts ==
    ASSUME DispatchInv, SaveStore, Alive, Alive', UNCHANGED launches
    PROVE  LaunchInv' /\ losses' \in [Messages -> Nat]
  <1>1. Store = mem /\ Store' = mem'
    BY DEF Store
  <1>2. /\ mem \in [Messages -> Entries] /\ losses \in [Messages -> Nat]
        /\ launches \in [Messages -> Nat]
    BY DEF DispatchInv, TypeInv, RunnerTypes
  <1>3. mem' \in [Messages -> Entries] /\ Forgets(mem, mem')
    BY SaveStoreDoes DEF DispatchInv, TypeInv
  <1>4. \A m \in Messages : Counted(m, launches, losses, mem)
    BY <1>1 DEF DispatchInv, LaunchInv
  <1>5. losses' \in [Messages -> Nat] /\ \A m \in Messages : Counted(m, launches, losses', mem')
    BY <1>2, <1>3, <1>4, CountedKeeps
  <1> QED BY <1>1, <1>5 DEF LaunchInv, Counted

LEMMA TickEndsKeeps == DispatchInv /\ TickEnds => DispatchInv'
  <1> SUFFICES ASSUME DispatchInv, TickEnds
               PROVE  DispatchInv'
    OBVIOUS
  <1>1. /\ tick.pc \in {"ending", "fetch"} /\ proc \in {"running", "draining"} /\ proc' = proc
        /\ Alive /\ Alive'
    BY DEF TickEnds, DispatchInv, TypeInv, RunnerTypes, TickInv, Alive
  <1>2. tick' \in Ticks /\ tick'.pc = "rest"
    BY NoTickType DEF TickEnds
  <1>3. /\ mem' \in [Messages -> Entries] /\ disk' \in [Messages -> Entries] /\ file' \in BOOLEAN
        /\ faults' \in 0..MaxFaults /\ losses' \in [Messages -> Nat] /\ LaunchInv'
    <2>1. CASE SaveStore
      BY <1>1, <2>1, SaveStoreDoes, SaveCounts DEF TickEnds, DispatchInv, TypeInv
    <2>2. CASE UNCHANGED <<storeVars, losses, faults>>
      BY <1>1, <2>2, StoreSame DEF TickEnds, DispatchInv, TypeInv, RunnerTypes, storeVars
    <2> QED BY <2>1, <2>2 DEF TickEnds
  <1>4. RunnerTypes'
    BY <1>2, <1>3 DEF TickEnds, DispatchInv, TypeInv, RunnerTypes, gateVars
  <1> QED BY <1>1, <1>2, <1>3, <1>4, IdleMove DEF TickEnds, Calling

LEMMA DrainDoneKeeps == DispatchInv /\ DrainDone => DispatchInv'
  <1> SUFFICES ASSUME DispatchInv, DrainDone
               PROVE  DispatchInv'
    OBVIOUS
  <1>1. tick.pc = "rest" /\ tick' = tick /\ Alive /\ Alive'
    BY DEF DrainDone, Alive
  <1>2. /\ mem' \in [Messages -> Entries] /\ disk' \in [Messages -> Entries] /\ file' \in BOOLEAN
        /\ faults' \in 0..MaxFaults /\ losses' \in [Messages -> Nat] /\ LaunchInv'
    BY <1>1, SaveStoreDoes, SaveCounts DEF DrainDone, DispatchInv, TypeInv
  <1>3. RunnerTypes'
    BY <1>2 DEF DrainDone, DispatchInv, TypeInv, RunnerTypes, gateVars
  <1> QED BY <1>1, <1>2, <1>3, IdleMove DEF DrainDone, Calling

(* --- starting and stopping -------------------------------------------------------------------- *)

LEMMA StartKeeps == DispatchInv /\ Start => DispatchInv'
  <1> SUFFICES ASSUME DispatchInv, Start
               PROVE  DispatchInv'
    OBVIOUS
  <1>1. ~Alive /\ tick.pc = "rest" /\ starts < MaxStarts
    BY DEF Start, Alive, DispatchInv, TickInv
  <1>2. tick' \in Ticks /\ tick'.pc = "rest" /\ proc' \in {"baseline", "running"}
    <2>1. [NoTick EXCEPT !.walk = Terminals] \in Ticks
      BY NoTickType, ZenonT(60) DEF Ticks
    <2>2. [NoTick EXCEPT !.walk = Terminals].pc = "rest"
      BY NoTickType DEF Ticks
    <2> QED BY <2>1, <2>2, NoTickType DEF Start
  <1>3. starts' \in 0..MaxStarts
    BY <1>1, RunnerConstants DEF Start, DispatchInv, TypeInv, RunnerTypes
  <1>4. mem' \in [Messages -> Entries] /\ \A m \in Messages : mem'[m] \in Later(Loaded[m])
    BY DEF Start
  <1>5. RunnerTypes'
    BY <1>2, <1>3, <1>4 DEF Start, DispatchInv, TypeInv, RunnerTypes, gateVars, history
  <1>6. LaunchInv'
    <2>1. Store = Loaded /\ Store' = mem' /\ Loaded \in [Messages -> Entries]
      BY <1>1, <1>2, EmptyStore DEF Store, Alive, DispatchInv, TypeInv, RunnerTypes
    <2>2. ASSUME NEW m \in Messages
          PROVE  Weight(Loaded, m) <= Weight(mem', m)
      <3>1. Loaded[m] \in Entries /\ mem'[m] \in Later(Loaded[m])
        BY <1>4, <2>1
      <3>2. mem'[m].tries = Loaded[m].tries /\ mem'[m].barred = Loaded[m].barred
        BY <3>1, LaterDoes
      <3>3. Weight(Loaded, m) = Weight(mem', m)
        BY <3>2 DEF Weight
      <3>4. Weight(Loaded, m) \in Nat
        BY <2>1, WeightType
      <3> QED BY <3>3, <3>4
    <2> QED BY <1>4, <2>1, <2>2, LaunchesKept DEF Start, DispatchInv, history
  <1> QED BY <1>1, <1>2, <1>5, <1>6, IdleMove DEF Start, Calling, history

LEMMA BaselineReadsKeeps == \A t : DispatchInv /\ BaselineReads(t) => DispatchInv'
  <1> SUFFICES ASSUME NEW t, DispatchInv, BaselineReads(t)
               PROVE  DispatchInv'
    OBVIOUS
  <1>1. tick \in Ticks /\ tick.pc = "rest" /\ proc = "baseline"
    BY DEF BaselineReads, DispatchInv, TypeInv, RunnerTypes, TickInv
  <1>2. tick' \in Ticks /\ tick'.pc = "rest"
    <2>1. tick' = [tick EXCEPT !.walk = @ \ {t}, !.todo = @ \union Unread(t)]
      BY DEF BaselineReads
    <2>2. tick.walk \ {t} \in SUBSET Terminals /\ tick.todo \union Unread(t) \in SUBSET Messages
      BY <1>1, UnreadType DEF Ticks
    <2>3. tick' \in Ticks
      BY <1>1, <2>1, <2>2, ZenonT(60) DEF Ticks
    <2>4. tick'.pc = "rest"
      BY <1>1, <2>1 DEF Ticks
    <2> QED BY <2>3, <2>4
  <1>3. RunnerTypes'
    BY <1>2 DEF BaselineReads, DispatchInv, TypeInv, RunnerTypes, storeVars, gateVars, history
  <1>4. LaunchInv'
    BY StoreSame DEF BaselineReads, DispatchInv, Alive, storeVars, history
  <1> QED BY <1>1, <1>2, <1>3, <1>4, IdleMove DEF BaselineReads, Calling, history

LEMMA BaselineEndsKeeps == DispatchInv /\ BaselineEnds => DispatchInv'
  <1> SUFFICES ASSUME DispatchInv, BaselineEnds
               PROVE  DispatchInv'
    OBVIOUS
  <1>1. /\ tick \in Ticks /\ tick.pc = "rest" /\ proc = "baseline" /\ proc' = "running"
        /\ mem \in [Messages -> Entries]
    BY DEF BaselineEnds, DispatchInv, TypeInv, RunnerTypes, TickInv
  <1>2. tick' \in Ticks /\ tick'.pc = "rest"
    BY NoTickType DEF BaselineEnds
  <1>3. /\ mem' \in [Messages -> Entries]
        /\ \A m \in Messages : Weight(mem, m) <= Weight(mem', m)
    <2>1. tick.todo \in SUBSET Messages
      BY <1>1 DEF Ticks
    <2> QED BY <1>1, <2>1, RecordQuarantineDoes DEF BaselineEnds
  <1>4. disk' \in [Messages -> Entries] /\ file' \in BOOLEAN /\ faults' \in 0..MaxFaults
    <2>1. CASE disk' = mem' /\ file' = TRUE /\ UNCHANGED faults
      BY <1>3, <2>1 DEF DispatchInv, TypeInv, RunnerTypes
    <2>2. CASE Fault /\ UNCHANGED <<disk, file>>
      BY <2>2, FaultType DEF DispatchInv, TypeInv, RunnerTypes
    <2> QED BY <2>1, <2>2 DEF BaselineEnds
  <1>5. RunnerTypes'
    BY <1>2, <1>3, <1>4 DEF BaselineEnds, DispatchInv, TypeInv, RunnerTypes, gateVars, history
  <1>6. LaunchInv'
    <2>1. Store = mem /\ Store' = mem'
      BY <1>1 DEF Store, Alive
    <2> QED BY <1>3, <2>1, LaunchesKept DEF BaselineEnds, DispatchInv, history
  <1> QED BY <1>1, <1>2, <1>5, <1>6, IdleMove DEF BaselineEnds, Calling, history

LEMMA BaselineFailsKeeps == DispatchInv /\ BaselineFails => DispatchInv'
  <1> SUFFICES ASSUME DispatchInv, BaselineFails
               PROVE  DispatchInv'
    OBVIOUS
  <1>1. tick.pc = "rest" /\ proc = "baseline" /\ proc' = "draining"
    BY DEF BaselineFails, DispatchInv, TickInv
  <1>2. tick' \in Ticks /\ tick'.pc = "rest"
    BY NoTickType DEF BaselineFails
  <1>3. faults' \in 0..MaxFaults
    BY FaultType DEF BaselineFails, DispatchInv, TypeInv, RunnerTypes
  <1>4. RunnerTypes'
    BY <1>2, <1>3 DEF BaselineFails, DispatchInv, TypeInv, RunnerTypes, storeVars, gateVars, history
  <1>5. LaunchInv'
    BY <1>1, StoreSame DEF BaselineFails, DispatchInv, Alive, storeVars, history
  <1> QED BY <1>1, <1>2, <1>4, <1>5, IdleMove DEF BaselineFails, Calling, history

(* A signal changes what the sessions were told, and no call under way. *)
LEMMA StopKeeps == DispatchInv /\ Stop => DispatchInv'
  <1> SUFFICES ASSUME DispatchInv, Stop
               PROVE  DispatchInv'
    OBVIOUS
  <1> DEFINE told(s) == IF s.kind = "active" THEN Session(s.msg, "killed") ELSE s
  <1>1. /\ proc \in {"baseline", "running"} /\ proc' = "draining"
        /\ tick' = IF proc = "baseline" THEN NoTick ELSE tick
        /\ children' = {told(s) : s \in children}
        /\ UNCHANGED <<claimVars, storeVars, gateVars, failed, faults, starts, history>>
    BY DEF Stop
  <1>2. \A s \in children : /\ told(s) \in Sessions /\ told(s).msg = s.msg
                            /\ told(s).kind = "stray" <=> s.kind = "stray"
    BY SessionType DEF DispatchInv, TypeInv, RunnerTypes, Sessions
  <1> HIDE DEF told
  <1>3. /\ children' \subseteq Sessions
        /\ \A t : IsBusy(t, children') => IsBusy(t, children)
        /\ \A s \in Tracked' : \E o \in Tracked : o.msg = s.msg
    BY <1>1, <1>2 DEF IsBusy, Tracked
  <1>4. tick' = tick \/ (tick.pc = "rest" /\ tick'.pc = "rest" /\ tick' \in Ticks)
    <2>1. CASE proc = "baseline"
      <3>1. tick.pc = "rest"
        BY <2>1 DEF DispatchInv, TickInv
      <3>2. tick' = NoTick
        BY <1>1, <2>1
      <3> QED BY <3>1, <3>2, NoTickType
    <2>2. CASE proc # "baseline"
      BY <1>1, <2>2
    <2> QED BY <2>1, <2>2
  <1>5. RunnerTypes'
    BY <1>1, <1>3, <1>4 DEF DispatchInv, TypeInv, RunnerTypes, storeVars, gateVars, history
  <1>6. ClaimInv'
    BY <1>1 DEF DispatchInv, TypeInv, ClaimInv, ClaimTypeOK, RowOK, claimVars
  <1>7. LaunchInv'
    BY <1>1, StoreSame DEF DispatchInv, Alive, storeVars, history
  <1>8. TickInv'
    BY <1>1, <1>3, <1>4 DEF DispatchInv, TickInv, Calling, storeVars
  <1>9. GrantInv'
    BY <1>1, <1>4 DEF DispatchInv, GrantInv, gateVars
  <1>10. WireInv'
    BY <1>1, <1>4 DEF DispatchInv, WireInv, Asked, Calling, claimVars, history
  <1>11. \A m : Safe(m)' <=> Safe(m)
    BY <1>1 DEF Safe, Holds, claimVars, history
  <1>12. HoldInv'
    BY <1>1, <1>3, <1>4, <1>11 DEF DispatchInv, HoldInv, claimVars
  <1>13. \A m : Unbacked(m)' <=> Unbacked(m)
    BY <1>1, UnbackedSame DEF register, claimVars, history
  <1>14. BackedInv'
    BY <1>1, <1>4, <1>13 DEF DispatchInv, BackedInv, claimVars
  <1> QED
    BY <1>5, <1>6, <1>7, <1>8, <1>9, <1>10, <1>12, <1>14 DEF DispatchInv, TypeInv

(* --- calls that break, and a process that goes --------------------------------------------------- *)

(* What the runner asked is asked by nobody any more. *)
LEMMA AbandonedDoes ==
    ASSUME TypeInv
    PROVE  /\ Abandoned \in SUBSET Requests
           /\ \A r \in Abandoned : r.who # Runner
           /\ \A r \in Abandoned : \E o \in wire : o.msg = r.msg /\ o.island = r.island
  <1> DEFINE new(r) == [r EXCEPT !.who = IF r.who = Runner THEN Stray ELSE r.who]
  <1>1. Abandoned = {new(r) : r \in wire}
    BY DEF Abandoned
  <1>2. Stray # Runner
    BY RunnerConstants, ClaimConstants
  <1>3. ASSUME NEW r \in wire
        PROVE  /\ new(r) \in Requests /\ new(r).who # Runner
               /\ new(r).msg = r.msg /\ new(r).island = r.island
    <2>1. r \in Requests
      BY DEF TypeInv, ClaimInv, ClaimTypeOK
    <2> QED BY <1>2, <2>1 DEF Requests
  <1> HIDE DEF new
  <1> QED BY <1>1, <1>3

(* The message of the call is in doubt, and so is every request left behind. *)
LEMMA AbandonKeepsWire ==
    ASSUME TypeInv, WireInv, wire' = Abandoned,
           \A m \in unsure : m \in unsure', Calling => tick.cur \in unsure'
    PROVE  WireInv'
  <1>1. \A r \in Abandoned : r.island = Home /\ r.who # Runner /\ r.msg \in unsure'
    <2>1. \A o \in wire : o.island = Home /\ o.msg \in unsure'
      BY DEF WireInv, Asked
    <2> QED BY <2>1, AbandonedDoes
  <1> QED BY <1>1 DEF WireInv

LEMMA CallBreaksKeeps == DispatchInv /\ CallBreaks => DispatchInv'
  <1> SUFFICES ASSUME DispatchInv, CallBreaks
               PROVE  DispatchInv'
    OBVIOUS
  <1>1. /\ Calling /\ tick.cur \in Messages
        /\ wire' = Abandoned /\ reply' = [reply EXCEPT ![Runner] = "refused"]
        /\ unsure' = unsure \union {tick.cur}
        /\ UNCHANGED <<register, inbox, proc, tick, storeVars, gateVars, children, failed, starts,
                       launches, losses>>
    BY DEF CallBreaks, Calling, DispatchInv, TickInv
  <1>2. reply'[Runner] = "refused" /\ reply' \in [Callers -> {"none", "ok", "refused"}]
    BY <1>1, HangUpType DEF DispatchInv, TypeInv
  <1>3. ClaimInv'
    BY <1>1, <1>2, AbandonedDoes, RegisterKept DEF DispatchInv, TypeInv
  <1>4. RunnerTypes'
    <2>1. faults' \in 0..MaxFaults
      BY FaultType DEF CallBreaks, DispatchInv, TypeInv, RunnerTypes
    <2> QED BY <1>1, <2>1 DEF DispatchInv, TypeInv, RunnerTypes, storeVars, gateVars
  <1>5. LaunchInv'
    BY <1>1, StoreSame DEF DispatchInv, Alive, storeVars
  <1>6. TickInv'
    BY <1>1 DEF DispatchInv, TickInv, Calling, storeVars
  <1>7. GrantInv'
    BY <1>1 DEF DispatchInv, GrantInv, gateVars
  <1>8. WireInv'
    BY <1>1, AbandonKeepsWire DEF DispatchInv
  <1>9. \A m : Safe(m) => Safe(m)'
    BY <1>1 DEF Safe, Holds, register
  <1>10. HoldInv'
    BY <1>1, <1>2, <1>9 DEF DispatchInv, HoldInv, Tracked
  <1>11. BackedInv'
    BY <1>1 DEF DispatchInv, BackedInv, Unbacked, Holds, register
  <1> QED
    BY <1>3, <1>4, <1>5, <1>6, <1>7, <1>8, <1>10, <1>11 DEF DispatchInv, TypeInv

(* The process is gone; what it leaves is in the register, the file and the gate. *)
LEMMA GoneKeeps ==
    ASSUME DispatchInv, NEW sessions \in SUBSET Sessions, Gone(sessions),
           proc' \in {"down", "exited"},
           UNCHANGED <<register, inbox, disk, file, gate, failed, faults, starts>>,
           gateStuck' \in BOOLEAN, gate' \subseteq unspent', unspent' \subseteq Messages,
           losses' \in [Messages -> Nat], launches' \in [Messages -> Nat],
           \A m \in Messages : launches'[m] = 0 => launches[m] = 0,
           \A m \in Messages : Counted(m, launches', losses', Loaded)
    PROVE  DispatchInv'
  <1>1. /\ tick' = NoTick /\ mem' = Empty /\ wire' = Abandoned
        /\ children' = {Session(s.msg, "stray") : s \in sessions}
        /\ reply' = [reply EXCEPT ![Runner] = "none"]
        /\ unsure' = IF tick.cur = NoTask THEN unsure ELSE unsure \union {tick.cur}
    BY DEF Gone
  <1>2. tick' \in Ticks /\ tick'.pc = "rest"
    BY <1>1, NoTickType
  <1>3. /\ unsure' \subseteq Messages /\ \A m \in unsure : m \in unsure'
        /\ \A m \in Messages : tick.cur = m => m \in unsure'
    <2>1. tick.cur \in Messages \union {NoTask} /\ unsure \subseteq Messages /\ NoTask \notin Messages
      BY ClaimConstants DEF DispatchInv, TypeInv, RunnerTypes, Ticks, Tasks
    <2> QED BY <1>1, <2>1
  <1>4. children' \subseteq Sessions /\ Tracked' = {}
    BY <1>1, SessionType DEF Tracked, Sessions
  <1>5. reply' \in [Callers -> {"none", "ok", "refused"}]
    BY <1>1, HangUpType DEF DispatchInv, TypeInv
  <1>6. ClaimInv'
    BY <1>1, <1>5, AbandonedDoes, RegisterKept DEF DispatchInv, TypeInv
  <1>7. RunnerTypes'
    BY <1>1, <1>2, <1>3, <1>4, EmptyStore DEF DispatchInv, TypeInv, RunnerTypes
  <1>8. LaunchInv'
    <2>1. Store' = Loaded
      BY DEF Store, Loaded, Alive
    <2> QED BY <2>1 DEF LaunchInv, Counted
  <1>9. TickInv'
    BY <1>2 DEF TickInv, Calling
  <1>10. GrantInv'
    BY <1>2 DEF DispatchInv, GrantInv
  <1>11. WireInv'
    BY <1>1, <1>3, AbandonKeepsWire DEF DispatchInv, TickInv
  <1>12. HoldInv'
    BY <1>2, <1>4 DEF HoldInv
  <1>13. BackedInv'
    <2> SUFFICES ASSUME NEW m \in Messages, Unbacked(m)'
                 PROVE  FALSE
      BY DEF BackedInv
    <2>1. Unbacked(m) /\ m \notin unsure'
      BY <1>3 DEF Unbacked, Holds, register
    <2> QED BY <1>3, <2>1 DEF DispatchInv, BackedInv
  <1> QED
    BY <1>6, <1>7, <1>8, <1>9, <1>10, <1>11, <1>12, <1>13 DEF DispatchInv, TypeInv

LEMMA ForgottenCounted ==
    ASSUME DispatchInv, Alive, Forgets(mem, Loaded)
    PROVE  losses' \in [Messages -> Nat] /\ \A m \in Messages : Counted(m, launches, losses', Loaded)
  <1>1. /\ mem \in [Messages -> Entries] /\ Loaded \in [Messages -> Entries]
        /\ losses \in [Messages -> Nat] /\ launches \in [Messages -> Nat]
    BY EmptyStore DEF DispatchInv, TypeInv, RunnerTypes
  <1>2. \A m \in Messages : Counted(m, launches, losses, mem)
    BY DEF DispatchInv, LaunchInv, Store
  <1> QED BY <1>1, <1>2, CountedKeeps

LEMMA GoesAwayKeeps == DispatchInv /\ (CountActive \/ Dies) => DispatchInv'
  <1> SUFFICES ASSUME DispatchInv, CountActive \/ Dies
               PROVE  DispatchInv'
    OBVIOUS
  <1>1. /\ Alive /\ proc' \in {"down", "exited"} /\ Gone(children) /\ Forgets(mem, Loaded)
        /\ UNCHANGED <<register, inbox, disk, file, gateVars, failed, faults, starts, launches>>
    BY DEF CountActive, Dies, Alive
  <1>2. losses' \in [Messages -> Nat] /\ \A m \in Messages : Counted(m, launches, losses', Loaded)
    BY <1>1, ForgottenCounted
  <1>3. \A m \in Messages : Counted(m, launches', losses', Loaded)
    BY <1>1, <1>2
  <1>4. /\ children \in SUBSET Sessions /\ launches' \in [Messages -> Nat]
        /\ gateStuck' \in BOOLEAN /\ gate' \subseteq unspent' /\ unspent' \subseteq Messages
    BY <1>1 DEF DispatchInv, TypeInv, RunnerTypes, GrantInv, gateVars
  <1> QED BY <1>1, <1>2, <1>3, <1>4, GoneKeeps DEF gateVars

LEMMA DiesLaunchingKeeps == DispatchInv /\ DiesLaunching => DispatchInv'
  <1> SUFFICES ASSUME DispatchInv, DiesLaunching
               PROVE  DispatchInv'
    OBVIOUS
  <1>1. PICK m \in Messages : m = tick.cur
    BY DEF DiesLaunching, DispatchInv, TickInv, Calling
  <1>2. /\ tick.pc = "claiming" /\ proc' = "down"
        /\ Gone(children \union {Session(m, "active")})
        /\ Forgets(RecordLaunch(mem, m), Loaded)
        /\ launches' = [launches EXCEPT ![m] = @ + 1]
        /\ unspent' = IF tick.granted THEN unspent ELSE unspent \ {m}
        /\ gateStuck' \in {gateStuck, gateStuck \/ tick.granted}
        /\ UNCHANGED <<register, inbox, disk, file, gate, failed, faults, starts>>
    BY <1>1 DEF DiesLaunching
  <1>3. /\ mem \in [Messages -> Entries] /\ Loaded \in [Messages -> Entries]
        /\ losses \in [Messages -> Nat] /\ launches \in [Messages -> Nat]
        /\ tick \in Ticks /\ ~mem[m].barred /\ mem[m].tries < MaxAttempts
        /\ proc \in {"running", "draining"}
    BY <1>1, <1>2, EmptyStore DEF DispatchInv, TypeInv, RunnerTypes, TickInv
  <1>4. \A n \in Messages : Counted(n, launches, losses, mem)
    BY <1>3 DEF DispatchInv, LaunchInv, Store, Alive
  <1>5. /\ launches' \in [Messages -> Nat]
        /\ \A n \in Messages : Counted(n, launches', losses, RecordLaunch(mem, m))
    BY <1>2, <1>3, <1>4, LaunchCounted DEF DispatchInv
  <1>6. RecordLaunch(mem, m) \in [Messages -> Entries]
    BY <1>3, RecordLaunchDoes
  <1>7. /\ losses' \in [Messages -> Nat]
        /\ \A n \in Messages : Counted(n, launches', losses', Loaded)
    BY <1>2, <1>3, <1>5, <1>6, CountedKeeps
  <1>8. children \union {Session(m, "active")} \in SUBSET Sessions
    BY SessionType DEF DispatchInv, TypeInv, RunnerTypes
  <1>9. gateStuck' \in BOOLEAN
    BY <1>2, <1>3 DEF DispatchInv, TypeInv, RunnerTypes, Ticks
  <1>10. gate' \subseteq unspent' /\ unspent' \subseteq Messages
    <2>1. ~tick.granted => m \in Listed
      BY <1>1, <1>2 DEF DispatchInv, GrantInv
    <2>2. gate \subseteq unspent /\ gate \intersect Listed = {} /\ unspent \subseteq Messages
      BY DEF DispatchInv, GrantInv, TypeInv, RunnerTypes
    <2> QED BY <1>2, <2>1, <2>2
  <1>11. \A n \in Messages : launches'[n] = 0 => launches[n] = 0
    BY <1>2, <1>3
  <1> QED
    BY <1>2, <1>5, <1>7, <1>8, <1>9, <1>10, <1>11, GoneKeeps

(* --- the operator, sessions and time ---------------------------------------------------------------- *)

(* A step outside the tick's calls: the tick, the wire and what is in doubt stay as they are,
   and whoever held a claim holds it. *)
LEMMA Aside ==
    ASSUME DispatchInv, UNCHANGED <<claimVars, proc, tick, disk, file, history>>,
           RunnerTypes',
           \A m \in Messages : mem'[m].tries = mem[m].tries /\ mem'[m].barred = mem[m].barred,
           \A s \in Tracked' : s \in Tracked,
           gate' \subseteq unspent' /\ gate' \intersect Listed = {},
           \A m \in unspent : m \in unspent'
    PROVE  DispatchInv'
  <1>1. ClaimInv'
    BY DEF DispatchInv, TypeInv, ClaimInv, ClaimTypeOK, RowOK, claimVars
  <1>2. LaunchInv'
    <2>1. /\ Store \in [Messages -> Entries] /\ Store' \in [Messages -> Entries]
          /\ mem \in [Messages -> Entries]
      BY EmptyStore DEF Store, Loaded, Alive, DispatchInv, TypeInv, RunnerTypes
    <2>2. ASSUME NEW m \in Messages
          PROVE  Weight(Store, m) <= Weight(Store', m)
      <3>1. Weight(Store, m) \in Nat
        BY <2>1, WeightType
      <3>2. Weight(Store, m) = Weight(Store', m)
        <4>1. CASE Alive
          BY <4>1 DEF Store, Alive, Weight
        <4>2. CASE ~Alive
          BY <4>2 DEF Store, Loaded, Alive, Weight
        <4> QED BY <4>1, <4>2
      <3> QED BY <3>1, <3>2
    <2> QED BY <2>1, <2>2, LaunchesKept DEF DispatchInv, history
  <1>3. TickInv'
    <2>1. \A t : IsBusy(t, children') => IsBusy(t, children)
      BY DEF IsBusy, Tracked
    <2> QED BY <2>1 DEF DispatchInv, TickInv, Calling
  <1>4. GrantInv'
    BY DEF DispatchInv, GrantInv
  <1>5. WireInv'
    BY DEF DispatchInv, WireInv, Asked, Calling, claimVars, history
  <1>6. HoldInv'
    BY DEF DispatchInv, HoldInv, Safe, Holds, claimVars, history
  <1>7. BackedInv'
    BY DEF DispatchInv, BackedInv, Unbacked, Holds, claimVars, history
  <1> QED BY <1>1, <1>2, <1>3, <1>4, <1>5, <1>6, <1>7 DEF DispatchInv, TypeInv

LEMMA GateStepsKeep == DispatchInv /\ GateSteps => DispatchInv'
  <1> SUFFICES ASSUME DispatchInv, GateSteps
               PROVE  DispatchInv'
    OBVIOUS
  <1>1. /\ UNCHANGED <<claimVars, proc, tick, mem, disk, file, history, children, failed, starts>>
        /\ Tracked' = Tracked
    BY DEF GateSteps, CliWrites, CliDies, Tracked, storeVars
  <1>2. /\ gate' \subseteq unspent' /\ gate' \intersect Listed = {}
        /\ \A m \in unspent : m \in unspent'
        /\ gate' \subseteq Messages /\ unspent' \subseteq Messages
        /\ gateStuck' \in BOOLEAN /\ faults' \in 0..MaxFaults
    <2>1. /\ gate \subseteq unspent /\ gate \intersect Listed = {}
          /\ gate \subseteq Messages /\ unspent \subseteq Messages
          /\ gateStuck \in BOOLEAN /\ faults \in 0..MaxFaults
      BY DEF DispatchInv, GrantInv, TypeInv, RunnerTypes
    <2>2. CASE CliWrites
      <3>1. UNCHANGED <<gateStuck, faults>>
        BY <2>2 DEF CliWrites
      <3>2. CASE \E m \in Messages \ Listed :
                    gate' = gate \union {m} /\ unspent' = unspent \union {m}
        BY <2>1, <3>1, <3>2
      <3>3. CASE \E t \in Terminals :
                    gate' = {m \in gate : TerminalOf[m] # t} /\ UNCHANGED unspent
        BY <2>1, <3>1, <3>3
      <3> QED BY <2>2, <3>2, <3>3 DEF CliWrites
    <2>3. CASE CliDies
      BY <2>1, <2>3, FaultType DEF CliDies
    <2> QED BY <2>2, <2>3 DEF GateSteps
  <1>3. RunnerTypes'
    BY <1>1, <1>2 DEF DispatchInv, TypeInv, RunnerTypes, history
  <1> QED BY <1>1, <1>2, <1>3, Aside

LEMMA ChildExitsKeeps == \A s : DispatchInv /\ ChildExits(s) => DispatchInv'
  <1> SUFFICES ASSUME NEW s, DispatchInv, ChildExits(s)
               PROVE  DispatchInv'
    OBVIOUS
  <1>1. /\ UNCHANGED <<claimVars, proc, tick, mem, disk, file, history, gate, unspent>>
        /\ \A o \in Tracked' : o \in Tracked
    BY DEF ChildExits, Tracked, storeVars, gateVars
  <1>2. gate' \subseteq unspent' /\ gate' \intersect Listed = {}
    BY <1>1 DEF DispatchInv, GrantInv
  <1>3. RunnerTypes'
    BY DEF ChildExits, DispatchInv, TypeInv, RunnerTypes, storeVars, gateVars, history
  <1> QED BY <1>1, <1>2, <1>3, Aside

LEMMA TimePassesKeeps == DispatchInv /\ TimePasses => DispatchInv'
  <1> SUFFICES ASSUME NEW m \in Messages, DispatchInv, CoolDown(m) \/ GrowOld(m)
               PROVE  DispatchInv'
    BY DEF TimePasses
  <1>1. /\ UNCHANGED <<claimVars, proc, tick, disk, file, history, gateVars, children, failed, faults,
                       starts>>
        /\ \E a \in {"due", "old"} : mem' = [mem EXCEPT ![m] = [mem[m] EXCEPT !.age = a]]
    BY DEF CoolDown, GrowOld
  <1>2. /\ mem' \in [Messages -> Entries]
        /\ \A n \in Messages : mem'[n].tries = mem[n].tries /\ mem'[n].barred = mem[n].barred
    <2>1. PICK a \in {"due", "old"} : mem' = [mem EXCEPT ![m] = [mem[m] EXCEPT !.age = a]]
      BY <1>1
    <2>2. mem \in [Messages -> Entries]
      BY DEF DispatchInv, TypeInv, RunnerTypes
    <2>3. PICK entry : entry = [mem[m] EXCEPT !.age = a]
      OBVIOUS
    <2>4. entry \in Entries /\ entry.tries = mem[m].tries /\ entry.barred = mem[m].barred
      BY <2>2, <2>3 DEF Entries
    <2>5. mem' = [mem EXCEPT ![m] = entry]
      BY <2>1, <2>3
    <2> QED BY <2>2, <2>4, <2>5
  <1>3. RunnerTypes'
    BY <1>1, <1>2 DEF DispatchInv, TypeInv, RunnerTypes, gateVars, history
  <1>4. gate' \subseteq unspent' /\ gate' \intersect Listed = {} /\ unspent' = unspent
    BY <1>1 DEF DispatchInv, GrantInv, gateVars
  <1>5. Tracked' = Tracked
    BY <1>1 DEF Tracked
  <1> QED BY <1>1, <1>2, <1>3, <1>4, <1>5, Aside

(* --- what the server's steps do to the claims of the island ----------------------------------------- *)

LEMMA ClaimCommitsDoes ==
    ASSUME ClaimInv, NEW r \in wire, ClaimCommits(r), r.island = Home
    PROVE  /\ \A m \in Messages : Holds(Home, m) => Holds(Home, m)'
           /\ \/ /\ Holds(Home, r.msg)' /\ Answer(r, "ok")
                 /\ \A m \in Messages : Holds(Home, m)' => Holds(Home, m) \/ m = r.msg
              \/ /\ Answer(r, "refused")
                 /\ \A m \in Messages : Holds(Home, m)' => Holds(Home, m)
           /\ UNCHANGED <<inbox, queue, receipt, lastSeq>>
  <1> DEFINE t == TerminalOf[r.msg]
             row == ctx[t]
             result == ClaimResult(row, r.msg, Home)
             new == ClaimedRow(row, r.msg, Home)
  <1>1. /\ r.msg \in Messages /\ t \in Terminals /\ row \in Contexts
        /\ \A m \in Messages : TerminalOf[m] \in Terminals
        /\ Home # NoIsland
    BY ClaimConstants, RunnerConstants DEF ClaimInv, ClaimTypeOK, Requests
  <1>2. /\ ctx' = IF result = "claimed" THEN [ctx EXCEPT ![t] = new] ELSE ctx
        /\ Answer(r, IF result \in {"claimed", "idempotent"} THEN "ok" ELSE "refused")
        /\ UNCHANGED <<inbox, queue, receipt, lastSeq>>
    BY DEF ClaimCommits
  <1>3. new.task = r.msg /\ new.island = Home
    BY DEF ClaimedRow
  <1>4. CASE result = "claimed"
    <2>1. row.island = NoIsland
      BY <1>4 DEF ClaimResult
    <2>2. ctx'[t] = new /\ \A u \in Terminals \ {t} : ctx'[u] = ctx[u]
      BY <1>1, <1>2, <1>4 DEF ClaimInv, ClaimTypeOK
    <2>3. \A m \in Messages : TerminalOf[m] = t => ~Holds(Home, m)
      BY <1>1, <2>1 DEF Holds
    <2>4. \A m \in Messages : TerminalOf[m] # t => (Holds(Home, m)' <=> Holds(Home, m))
      BY <1>1, <2>2 DEF Holds
    <2>5. \A m \in Messages : TerminalOf[m] = t => (Holds(Home, m)' <=> m = r.msg)
      BY <1>3, <2>2 DEF Holds
    <2>6. Answer(r, "ok")
      BY <1>2, <1>4
    <2> HIDE DEF t
    <2>7. Holds(Home, r.msg)'
      BY <1>1, <2>5 DEF t
    <2> QED BY <1>2, <2>3, <2>4, <2>5, <2>6, <2>7
  <1>5. CASE result = "idempotent"
    <2>1. Holds(Home, r.msg)
      BY <1>5 DEF ClaimResult, Holds
    <2>2. ctx' = ctx /\ Answer(r, "ok")
      BY <1>2, <1>5
    <2> QED BY <1>2, <2>1, <2>2 DEF Holds
  <1>6. CASE result \notin {"claimed", "idempotent"}
    <2>1. ctx' = ctx /\ Answer(r, "refused")
      BY <1>2, <1>6
    <2> QED BY <1>2, <2>1 DEF Holds
  <1> QED BY <1>4, <1>5, <1>6

LEMMA ReleaseClaimDoes ==
    ASSUME ClaimInv, NEW r \in wire, ReleaseClaim(r), r.island = Home
    PROVE  /\ \A m \in Messages : Holds(Home, m) /\ m # r.msg => Holds(Home, m)'
           /\ \A m \in Messages : Holds(Home, m)' => Holds(Home, m) /\ m # r.msg
           /\ Answer(r, "ok") \/ Answer(r, "refused")
           /\ UNCHANGED <<inbox, queue, receipt, lastSeq>>
  <1> DEFINE t == TerminalOf[r.msg]
             new == [ctx[t] EXCEPT !.task = NoTask, !.island = NoIsland, !.status = "idle"]
  <1>1. /\ r.msg \in Messages /\ t \in Terminals /\ ctx[t] \in Contexts
        /\ \A m \in Messages : TerminalOf[m] \in Terminals
        /\ NoTask \notin Messages
    BY ClaimConstants DEF ClaimInv, ClaimTypeOK, Requests
  <1>2. new.task = NoTask
    BY <1>1, ReleasedRow
  <1>3. UNCHANGED <<inbox, queue, receipt, lastSeq>>
    BY DEF ReleaseClaim
  <1>4. CASE Holds(Home, r.msg)
    <2>1. ctx' = [ctx EXCEPT ![t] = new] /\ Answer(r, "ok")
      BY <1>4 DEF ReleaseClaim
    <2> HIDE DEF new
    <2>2. ctx'[t] = new /\ \A u \in Terminals \ {t} : ctx'[u] = ctx[u]
      BY <1>1, <2>1 DEF ClaimInv, ClaimTypeOK
    <2>3. \A m \in Messages : TerminalOf[m] = t => (Holds(Home, m) => m = r.msg) /\ ~Holds(Home, m)'
      BY <1>1, <1>2, <1>4, <2>2 DEF Holds
    <2>4. \A m \in Messages : TerminalOf[m] # t => (Holds(Home, m)' <=> Holds(Home, m))
      BY <1>1, <2>2 DEF Holds
    <2> HIDE DEF t
    <2>5. TerminalOf[r.msg] = t
      BY DEF t
    <2> QED BY <1>3, <2>1, <2>3, <2>4, <2>5
  <1>5. CASE ~Holds(Home, r.msg)
    <2>1. ctx' = ctx /\ Answer(r, "refused")
      BY <1>5 DEF ReleaseClaim
    <2> QED BY <1>3, <1>5, <2>1 DEF Holds
  <1> QED BY <1>4, <1>5

(* Routing moves rows without a task only. *)
LEMMA AskRoutingHolds ==
    ASSUME ClaimInv, NEW t \in Terminals, AskRouting(t)
    PROVE  \A m \in Messages : Holds(Home, m)' <=> Holds(Home, m)
  <1>1. PICK row \in RoutedRows(ctx[t], QueuedAt(t)) : ctx' = [ctx EXCEPT ![t] = row]
    BY DEF AskRouting
  <1>2. ctx[t] \in Contexts /\ RowOK(ctx[t]) /\ QueuedAt(t) \in SUBSET Messages
    BY QueuedAreMessages DEF ClaimInv, ClaimTypeOK
  <1>3. /\ ctx[t].task # NoTask => row = ctx[t]
        /\ ctx[t].task = NoTask => row.task = NoTask
    BY <1>1, <1>2, RoutingIsQuiet
  <1>4. ASSUME NEW m \in Messages
        PROVE  Holds(Home, m)' <=> Holds(Home, m)
    <2>1. TerminalOf[m] \in Terminals /\ m # NoTask
      BY ClaimConstants
    <2>2. ctx'[TerminalOf[m]] = IF TerminalOf[m] = t THEN row ELSE ctx[TerminalOf[m]]
      BY <1>1, <2>1 DEF ClaimInv, ClaimTypeOK
    <2> QED BY <1>3, <2>1, <2>2 DEF Holds
  <1> QED BY <1>4

LEMMA CompleteTaskDoes ==
    ASSUME ClaimInv, NEW n \in Messages, CompleteTask(Home, n)
    PROVE  /\ \A m \in Messages : Holds(Home, m) /\ m # n => Holds(Home, m)'
           /\ \A m \in Messages : Holds(Home, m)' => Holds(Home, m)
           /\ receipt'[Home][n] # 0
           /\ \A m \in Messages : receipt[Home][m] # 0 => receipt'[Home][m] # 0
  <1> DEFINE t == TerminalOf[n]
  <1>1. t \in Terminals /\ \A m \in Messages : TerminalOf[m] \in Terminals /\ m # NoTask
    BY ClaimConstants
  <1>2. ctx[t].epic \in Epics \union {NoEpic}
    BY <1>1 DEF ClaimInv, ClaimTypeOK, Contexts
  <1>3. ctx'[t].task = NoTask /\ \A u \in Terminals \ {t} : ctx'[u] = ctx[u]
    BY <1>2, CompletedStep DEF CompleteTask
  <1>4. ctx[t].task = n
    BY DEF CompleteTask, Holds
  <1>5. /\ \A m \in Messages : Holds(Home, m) /\ m # n => Holds(Home, m)'
        /\ \A m \in Messages : Holds(Home, m)' => Holds(Home, m)
    <2>1. \A m \in Messages : TerminalOf[m] = t => (Holds(Home, m) => m = n) /\ ~Holds(Home, m)'
      BY <1>1, <1>3, <1>4 DEF Holds
    <2>2. \A m \in Messages : TerminalOf[m] # t => (Holds(Home, m)' <=> Holds(Home, m))
      BY <1>1, <1>3 DEF Holds
    <2> QED BY <2>1, <2>2
  <1>6. /\ receipt'[Home][n] # 0
        /\ \A m \in Messages : receipt[Home][m] # 0 => receipt'[Home][m] # 0
    <2>1. /\ receipt \in [Islands -> [Messages -> Nat]] /\ lastSeq \in Nat /\ Home \in Islands
          /\ lastSeq + 1 # 0
      BY RunnerConstants DEF ClaimInv, ClaimTypeOK
    <2>2. CASE receipt' = [receipt EXCEPT ![Home] = [@ EXCEPT ![n] = lastSeq + 1]]
      <3>1. receipt'[Home] = [receipt[Home] EXCEPT ![n] = lastSeq + 1]
        BY <2>1, <2>2
      <3>2. receipt[Home] \in [Messages -> Nat]
        BY <2>1
      <3> QED BY <2>1, <3>1, <3>2
    <2>3. CASE receipt[Home][n] # 0 /\ UNCHANGED receipt
      BY <2>3
    <2> QED BY <2>2, <2>3 DEF CompleteTask
  <1> QED BY <1>5, <1>6

(* --- the server's steps and the agents' ------------------------------------------------------------- *)

LEMMA RunnerStill ==
    ASSUME DispatchInv, UNCHANGED runnerVars
    PROVE  RunnerTypes' /\ TickInv' /\ LaunchInv' /\ GrantInv'
  <1> SUFFICES ASSUME UNCHANGED <<proc, tick, storeVars, gateVars, children, failed, faults, starts,
                                  history>>
               PROVE  RunnerTypes' /\ TickInv' /\ LaunchInv' /\ GrantInv'
    BY DEF runnerVars
  <1>1. RunnerTypes'
    BY DEF DispatchInv, TypeInv, RunnerTypes, storeVars, gateVars, history
  <1>2. TickInv'
    BY DEF DispatchInv, TickInv, Calling, storeVars
  <1>3. LaunchInv'
    BY StoreSame DEF DispatchInv, Alive, storeVars, history
  <1>4. GrantInv'
    BY DEF DispatchInv, GrantInv, gateVars
  <1> QED BY <1>1, <1>2, <1>3, <1>4

LEMMA AnswerKeepsWire ==
    ASSUME DispatchInv, NEW r \in wire, NEW a, Answer(r, a), UNCHANGED <<tick, unsure>>
    PROVE  WireInv' /\ reply'[Runner] = IF r.who = Runner THEN a ELSE reply[Runner]
  <1>1. /\ wire' = wire \ {r}
        /\ reply' = IF r.who \in Callers THEN [reply EXCEPT ![r.who] = a] ELSE reply
    BY DEF Answer
  <1>2. reply'[Runner] = IF r.who = Runner THEN a ELSE reply[Runner]
    BY <1>1, RunnerConstants DEF DispatchInv, TypeInv, ClaimInv, ClaimTypeOK
  <1>3. CASE r.who = Runner
    <2>1. \A q \in wire' : q \in wire /\ q.who # Runner
      BY <1>1, <1>3 DEF DispatchInv, WireInv
    <2> QED BY <1>2, <2>1 DEF DispatchInv, WireInv
  <1>4. CASE r.who # Runner
    BY <1>1, <1>2, <1>4 DEF DispatchInv, WireInv, Asked, Calling
  <1> QED BY <1>2, <1>3, <1>4

(* A handler looked at the inbox: the request waits on, as the same request. *)
LEMMA SeenKeepsWire ==
    ASSUME DispatchInv, NEW r \in wire, UNCHANGED <<tick, unsure, reply>>,
           wire' = (wire \ {r}) \union {[r EXCEPT !.seen = TRUE]}
    PROVE  WireInv'
  <1>1. PICK new : new = [r EXCEPT !.seen = TRUE]
    OBVIOUS
  <1>2. new.op = r.op /\ new.msg = r.msg /\ new.island = r.island /\ new.who = r.who
    <2>1. r \in Requests
      BY DEF DispatchInv, TypeInv, ClaimInv, ClaimTypeOK
    <2> QED BY <1>1, <2>1 DEF Requests
  <1>3. wire' = (wire \ {r}) \union {new}
    BY <1>1
  <1>4. \A q \in wire' : q \in wire \ {r} \/ q = new
    BY <1>3
  <1>5. \A q \in wire' : q.island = Home /\ IF q.who = Runner THEN Asked(q)' ELSE q.msg \in unsure'
    BY <1>2, <1>4 DEF DispatchInv, WireInv, Asked, Calling
  <1>6. \A p, q \in wire' : p.who = Runner /\ q.who = Runner => p = q
    BY <1>2, <1>4 DEF DispatchInv, WireInv
  <1> QED BY <1>5, <1>6 DEF WireInv

LEMMA ClaimReadsInboxKeeps == \A r \in wire :
    DispatchInv /\ ClaimReadsInbox(r) /\ UNCHANGED runnerVars => DispatchInv'
  <1> SUFFICES ASSUME NEW r \in wire, DispatchInv, ClaimReadsInbox(r), UNCHANGED runnerVars
               PROVE  DispatchInv'
    OBVIOUS
  <1>1. UNCHANGED <<register, inbox, tick, unsure, launches, children>>
    BY DEF ClaimReadsInbox, runnerVars, history
  <1>2. ClaimInv'
    BY ClaimReadsKeeps DEF DispatchInv, TypeInv
  <1>3. /\ WireInv'
        /\ reply'[Runner] # reply[Runner] => reply'[Runner] = "refused" /\ r.who = Runner
    <2>1. CASE /\ wire' = (wire \ {r}) \union {[r EXCEPT !.seen = TRUE]}
               /\ UNCHANGED reply
      BY <1>1, <2>1, SeenKeepsWire
    <2>2. CASE Answer(r, "refused")
      BY <1>1, <2>2, AnswerKeepsWire
    <2> QED BY <2>1, <2>2 DEF ClaimReadsInbox
  <1>4. r.who = Runner => tick.pc = "claiming" /\ reply[Runner] = "none"
    BY DEF DispatchInv, WireInv, Asked, Calling, ClaimReadsInbox
  <1>5. \A m : Safe(m)' <=> Safe(m)
    BY <1>1 DEF Safe, Holds, register
  <1>6. HoldInv'
    BY <1>1, <1>3, <1>5 DEF DispatchInv, HoldInv, Tracked
  <1>7. \A m : Unbacked(m)' <=> Unbacked(m)
    BY <1>1, UnbackedSame
  <1>8. BackedInv'
    BY <1>1, <1>3, <1>4, <1>7 DEF DispatchInv, BackedInv
  <1> QED BY <1>2, <1>3, <1>6, <1>8, RunnerStill DEF DispatchInv, TypeInv

LEMMA ClaimCommitsStepKeeps == \A r \in wire :
    DispatchInv /\ ClaimCommits(r) /\ UNCHANGED runnerVars => DispatchInv'
  <1> SUFFICES ASSUME NEW r \in wire, DispatchInv, ClaimCommits(r), UNCHANGED runnerVars
               PROVE  DispatchInv'
    OBVIOUS
  <1>1. /\ UNCHANGED <<receipt, tick, unsure, launches, children>>
        /\ r.island = Home /\ r.op = "claim" /\ r.msg \in Messages
    BY DEF ClaimCommits, runnerVars, history, DispatchInv, WireInv, TypeInv, ClaimInv, ClaimTypeOK,
       Requests
  <1>2. ClaimInv'
    BY ClaimCommitsKeeps DEF DispatchInv, TypeInv
  <1>3. /\ \A m \in Messages : Holds(Home, m) => Holds(Home, m)'
        /\ \/ /\ Holds(Home, r.msg)' /\ Answer(r, "ok")
              /\ \A m \in Messages : Holds(Home, m)' => Holds(Home, m) \/ m = r.msg
           \/ /\ Answer(r, "refused")
              /\ \A m \in Messages : Holds(Home, m)' => Holds(Home, m)
    BY <1>1, ClaimCommitsDoes DEF DispatchInv, TypeInv
  <1>4. /\ WireInv'
        /\ r.who # Runner => reply'[Runner] = reply[Runner]
        /\ r.who = Runner => \/ reply'[Runner] = "ok" /\ Holds(Home, r.msg)'
                            \/ reply'[Runner] = "refused"
    BY <1>1, <1>3, AnswerKeepsWire
  <1>5. /\ r.who = Runner => tick.pc = "claiming" /\ reply[Runner] = "none" /\ tick.cur = r.msg
        /\ r.who # Runner => r.msg \in unsure
    BY <1>1 DEF DispatchInv, WireInv, Asked, Calling
  <1>6. \A m \in Messages : Safe(m) => Safe(m)'
    BY <1>1, <1>3 DEF Safe
  <1>7. HoldInv'
    <2>1. \A s \in Tracked : s.msg \in Messages
      BY DEF Tracked, DispatchInv, TypeInv, RunnerTypes, Sessions
    <2>2. tick.pc = "claiming" => tick.cur \in Messages
      BY DEF DispatchInv, TickInv, Calling
    <2>3. \A s \in Tracked' : Safe(s.msg)'
      BY <1>1, <1>6, <2>1 DEF DispatchInv, HoldInv, Tracked
    <2>4. tick'.pc = "claiming" /\ reply'[Runner] = "ok" => Safe(tick.cur)'
      BY <1>1, <1>4, <1>5, <1>6, <2>2 DEF DispatchInv, HoldInv, Safe
    <2> QED BY <1>1, <2>3, <2>4 DEF HoldInv
  <1>8. BackedInv'
    <2> SUFFICES ASSUME NEW m \in Messages, Unbacked(m)'
                 PROVE  /\ tick.cur = m
                        /\ \/ tick.pc = "claiming" /\ reply'[Runner] = "ok"
                           \/ tick.pc = "releasing" /\ reply'[Runner] = "none"
      BY <1>1 DEF BackedInv
    <2>1. Holds(Home, m)' /\ m \notin unsure /\ launches[m] = 0
      BY <1>1 DEF Unbacked
    <2>2. CASE Holds(Home, m)
      <3>1. Unbacked(m)
        BY <2>1, <2>2 DEF Unbacked
      <3> QED BY <1>4, <1>5, <3>1 DEF DispatchInv, BackedInv
    <2>3. CASE ~Holds(Home, m)
      <3>1. m = r.msg /\ Answer(r, "ok")
        BY <1>3, <2>1, <2>3
      <3>2. r.who = Runner
        BY <1>5, <2>1, <3>1
      <3>3. reply'[Runner] = "ok"
        BY <1>1, <3>1, <3>2, AnswerKeepsWire
      <3> QED BY <1>5, <3>1, <3>2, <3>3
    <2> QED BY <2>2, <2>3
  <1> QED BY <1>2, <1>4, <1>7, <1>8, RunnerStill DEF DispatchInv, TypeInv

LEMMA ReleaseClaimStepKeeps == \A r \in wire :
    DispatchInv /\ ReleaseClaim(r) /\ UNCHANGED runnerVars => DispatchInv'
  <1> SUFFICES ASSUME NEW r \in wire, DispatchInv, ReleaseClaim(r), UNCHANGED runnerVars
               PROVE  DispatchInv'
    OBVIOUS
  <1>1. /\ UNCHANGED <<receipt, tick, unsure, launches, children>>
        /\ r.island = Home /\ r.op = "release" /\ r.msg \in Messages
    BY DEF ReleaseClaim, runnerVars, history, DispatchInv, WireInv, TypeInv, ClaimInv, ClaimTypeOK,
       Requests
  <1>2. ClaimInv'
    BY ReleaseKeeps DEF DispatchInv, TypeInv
  <1>3. /\ \A m \in Messages : Holds(Home, m) /\ m # r.msg => Holds(Home, m)'
        /\ \A m \in Messages : Holds(Home, m)' => Holds(Home, m) /\ m # r.msg
        /\ Answer(r, "ok") \/ Answer(r, "refused")
    BY <1>1, ReleaseClaimDoes DEF DispatchInv, TypeInv
  <1>4. WireInv' /\ (r.who # Runner => reply'[Runner] = reply[Runner])
    BY <1>1, <1>3, AnswerKeepsWire
  <1>5. /\ r.who = Runner => tick.pc = "releasing" /\ reply[Runner] = "none" /\ tick.cur = r.msg
        /\ r.who # Runner => r.msg \in unsure
    BY <1>1 DEF DispatchInv, WireInv, Asked, Calling
  <1>6. \A m \in Messages : Safe(m) /\ (m # r.msg \/ m \in unsure) => Safe(m)'
    BY <1>1, <1>3 DEF Safe
  <1>7. HoldInv'
    <2>1. ASSUME NEW s \in Tracked
          PROVE  Safe(s.msg)'
      <3>1. s.msg \in Messages /\ Safe(s.msg)
        BY DEF Tracked, DispatchInv, TypeInv, RunnerTypes, Sessions, HoldInv
      <3>2. CASE r.who = Runner
        <4>1. ~IsBusy(TerminalOf[r.msg], children)
          BY <1>5, <3>2 DEF DispatchInv, TickInv, Calling
        <4>2. s.msg # r.msg
          BY <4>1 DEF IsBusy, Tracked
        <4> QED BY <1>6, <3>1, <4>2
      <3>3. CASE r.who # Runner
        BY <1>5, <1>6, <3>1, <3>3
      <3> QED BY <3>2, <3>3
    <2>2. tick.pc = "claiming" /\ reply'[Runner] = "ok" => Safe(tick.cur)'
      <3>1. tick.pc = "claiming" => tick.cur \in Messages /\ r.who # Runner
        BY <1>5 DEF DispatchInv, TickInv, Calling
      <3> QED BY <1>1, <1>4, <1>5, <1>6, <3>1 DEF DispatchInv, HoldInv
    <2> QED BY <1>1, <2>1, <2>2 DEF HoldInv, Tracked
  <1>8. BackedInv'
    <2> SUFFICES ASSUME NEW m \in Messages, Unbacked(m)'
                 PROVE  /\ tick.cur = m
                        /\ \/ tick.pc = "claiming" /\ reply'[Runner] = "ok"
                           \/ tick.pc = "releasing" /\ reply'[Runner] = "none"
      BY <1>1 DEF BackedInv
    <2>1. Unbacked(m) /\ m # r.msg
      BY <1>1, <1>3 DEF Unbacked
    <2> QED BY <1>4, <1>5, <2>1 DEF DispatchInv, BackedInv
  <1> QED BY <1>2, <1>4, <1>7, <1>8, RunnerStill DEF DispatchInv, TypeInv

LEMMA ServerStepsKeep == \A callers : DispatchInv /\ ServerSteps(callers) => DispatchInv'
  BY ClaimReadsInboxKeeps, ClaimCommitsStepKeeps, ReleaseClaimStepKeeps DEF ServerSteps

(* A step at the server that makes no new claim, and ends none without a receipt. *)
LEMMA RegisterMoves ==
    ASSUME DispatchInv, ClaimInv', UNCHANGED <<wire, reply>>, UNCHANGED runnerVars,
           \A m \in Messages : Safe(m) => Safe(m)',
           \A m \in Messages : Holds(Home, m)' => Holds(Home, m)
    PROVE  DispatchInv'
  <1>1. UNCHANGED <<tick, unsure, launches, children>>
    BY DEF runnerVars, history
  <1>2. WireInv'
    BY <1>1 DEF DispatchInv, WireInv, Asked, Calling
  <1>3. HoldInv'
    <2>1. \A s \in Tracked : s.msg \in Messages
      BY DEF Tracked, DispatchInv, TypeInv, RunnerTypes, Sessions
    <2>2. tick.pc = "claiming" => tick.cur \in Messages
      BY DEF DispatchInv, TickInv, Calling
    <2> QED BY <1>1, <2>1, <2>2 DEF DispatchInv, HoldInv, Tracked
  <1>4. BackedInv'
    BY <1>1 DEF DispatchInv, BackedInv, Unbacked
  <1> QED BY <1>2, <1>3, <1>4, RunnerStill DEF DispatchInv, TypeInv

LEMMA InboxStepsKeep == DispatchInv /\ InboxSteps => DispatchInv'
  <1> SUFFICES ASSUME DispatchInv, NEW m \in Messages, Deliver(m) \/ ReadMessage(m),
                      UNCHANGED runnerVars
               PROVE  DispatchInv'
    BY DEF InboxSteps
  <1>1. ClaimInv'
    BY StepKeeps DEF ClaimNext, UnscopedCall, DispatchInv, TypeInv
  <1>2. UNCHANGED <<register, wire, reply>>
    BY DEF Deliver, ReadMessage
  <1>3. \A n : (Safe(n)' <=> Safe(n)) /\ (Holds(Home, n)' <=> Holds(Home, n))
    <2>1. unsure' = unsure
      BY DEF runnerVars, history
    <2> QED BY <1>2, <2>1 DEF Safe, Holds, register
  <1> QED BY <1>1, <1>2, <1>3, RegisterMoves

LEMMA AgentCompletesKeeps == \A s : DispatchInv /\ AgentCompletes(s) => DispatchInv'
  <1> SUFFICES ASSUME NEW s, DispatchInv, AgentCompletes(s)
               PROVE  DispatchInv'
    OBVIOUS
  <1>1. PICK n \in Messages : n = s.msg
    BY DEF AgentCompletes, DispatchInv, TypeInv, RunnerTypes, Sessions
  <1>2. UNCHANGED runnerVars /\ unsure' = unsure
    BY DEF AgentCompletes, runnerVars, history
  <1>3. CASE CompleteTask(Home, n)
    <2>1. ClaimInv' /\ UNCHANGED <<wire, reply>>
      BY <1>3, CompleteTaskKeeps, RunnerConstants DEF CompleteTask, DispatchInv, TypeInv
    <2>2. /\ \A m \in Messages : Holds(Home, m) /\ m # n => Holds(Home, m)'
          /\ \A m \in Messages : Holds(Home, m)' => Holds(Home, m)
          /\ receipt'[Home][n] # 0
          /\ \A m \in Messages : receipt[Home][m] # 0 => receipt'[Home][m] # 0
      BY <1>3, CompleteTaskDoes DEF DispatchInv, TypeInv
    <2>3. \A m \in Messages : Safe(m) => Safe(m)'
      BY <1>2, <2>2 DEF Safe
    <2> QED BY <1>2, <2>1, <2>2, <2>3, RegisterMoves
  <1>4. CASE CompleteAgain(Home, n)
    <2>1. TerminalOf[n] \in Terminals /\ AskRouting(TerminalOf[n])
      BY <1>4, ClaimConstants DEF CompleteAgain
    <2>2. ClaimInv' /\ UNCHANGED <<receipt, wire, reply>>
      BY <2>1, AskRoutingStep DEF AskRouting, DispatchInv, TypeInv
    <2>3. \A m \in Messages : Holds(Home, m)' <=> Holds(Home, m)
      BY <2>1, AskRoutingHolds DEF DispatchInv, TypeInv
    <2>4. \A m \in Messages : Safe(m) => Safe(m)'
      BY <1>2, <2>2, <2>3 DEF Safe
    <2> QED BY <1>2, <2>2, <2>3, <2>4, RegisterMoves
  <1> QED BY <1>1, <1>3, <1>4 DEF AgentCompletes

(* --- every step -------------------------------------------------------------------------------------- *)

LEMMA DispatchInit == Init => DispatchInv
  <1> SUFFICES ASSUME Init
               PROVE  DispatchInv
    OBVIOUS
  <1>1. ClaimInv
    <2>1. [t \in Terminals |-> "idle"] \in [Terminals -> {"none", "idle"}]
      OBVIOUS
    <2>2. [m \in Messages |-> IF m \in InitialUnread THEN "UNREAD" ELSE "absent"]
             \in [Messages -> {"absent", "UNREAD"}]
      OBVIOUS
    <2> QED BY <2>1, <2>2, InitKeeps DEF Init, ClaimInit
  <1>2. RunnerTypes
    <2>1. faults \in 0..MaxFaults /\ starts \in 0..MaxStarts
      BY RunnerConstants DEF Init
    <2>2. launches \in [Messages -> Nat] /\ losses \in [Messages -> Nat]
      BY DEF Init
    <2> QED BY <2>1, <2>2, NoTickType, EmptyStore DEF Init, RunnerTypes
  <1>3. tick.pc = "rest"
    BY NoTickType DEF Init
  <1>4. LaunchInv
    <2> SUFFICES ASSUME NEW m \in Messages
                 PROVE  Counted(m, launches, losses, Store)
      BY DEF LaunchInv
    <2>1. launches[m] = 0 /\ losses[m] = 0 /\ MaxAttempts \in Nat
      BY RunnerConstants DEF Init
    <2>2. Weight(Store, m) \in Nat
      BY <1>2, EmptyStore, WeightType DEF Store, RunnerTypes
    <2>3. MaxAttempts * losses[m] = 0
      BY <2>1
    <2> QED BY <2>1, <2>2, <2>3 DEF Counted
  <1>5. wire = {} /\ Tracked = {} /\ gate = {}
    BY DEF Init, ClaimInitWith, Tracked
  <1>6. \A m \in Messages : ~Unbacked(m)
    <2>1. \A t \in Terminals : ctx[t].task = NoTask
      BY DEF Init, ClaimInitWith, FreshContext
    <2> QED BY <2>1, ClaimConstants DEF Unbacked, Holds
  <1> QED
    BY <1>1, <1>2, <1>3, <1>4, <1>5, <1>6
    DEF DispatchInv, TypeInv, TickInv, Calling, GrantInv, WireInv, HoldInv, BackedInv

LEMMA DispatchNext == DispatchInv /\ [Next]_vars => DispatchInv'
  <1> SUFFICES ASSUME DispatchInv, [Next]_vars
               PROVE  DispatchInv'
    OBVIOUS
  <1>1. CASE StartSteps
    BY <1>1, StartKeeps, BaselineReadsKeeps, BaselineEndsKeeps, BaselineFailsKeeps DEF StartSteps
  <1>2. CASE TickStarts \/ TickSteps \/ FetchFails \/ CallBreaks
    BY <1>2, TickStartsKeeps, FetchUnreadKeeps, FetchDoneKeeps, FetchFailsKeeps, ClaimRefusedKeeps,
       ClaimedTooLateKeeps, LaunchedKeeps, LaunchRefusedKeeps, ReleasedKeeps, ReleaseRefusedKeeps,
       TickEndsKeeps, CallBreaksKeeps DEF TickSteps
  <1>3. CASE Stop \/ DrainSteps \/ Dies \/ DiesLaunching
    BY <1>3, StopKeeps, DrainDoneKeeps, GoesAwayKeeps, DiesLaunchingKeeps DEF DrainSteps
  <1>4. CASE GateSteps \/ AgentSteps \/ TimePasses
    BY <1>4, GateStepsKeep, ChildExitsKeeps, AgentCompletesKeeps, TimePassesKeeps DEF AgentSteps
  <1>5. CASE ServerSteps(Callers \union {Stray}) \/ InboxSteps
    BY <1>5, ServerStepsKeep, InboxStepsKeep
  <1>6. CASE UNCHANGED vars
    <2>1. UNCHANGED <<claimVars, proc, tick, mem, disk, file, history, gate, gateStuck, unspent,
                      children, failed, faults, starts>>
      BY <1>6 DEF vars, runnerVars, storeVars, gateVars
    <2>2. RunnerTypes' /\ Tracked' = Tracked
      BY <2>1 DEF DispatchInv, TypeInv, RunnerTypes, history, Tracked
    <2>3. gate' \subseteq unspent' /\ gate' \intersect Listed = {}
      BY <2>1 DEF DispatchInv, GrantInv
    <2> QED BY <2>1, <2>2, <2>3, Aside
  <1> QED BY <1>1, <1>2, <1>3, <1>4, <1>5, <1>6 DEF Next

LEMMA DispatchAlways == Spec => []DispatchInv
  BY DispatchInit, DispatchNext, PTL DEF Spec

(* --- the theorems ------------------------------------------------------------------------------------- *)

(* Every variable of the runner and of the register keeps its type; in particular the attempts
   in the store never exceed max_attempts, and the tick never calls about no message. *)
THEOREM DispatchTypeCorrect == Spec => []DispatchTypeOK
  <1>1. DispatchInv => DispatchTypeOK
    BY DEF DispatchInv, TypeInv, ClaimInv, RunnerTypes, DispatchTypeOK
  <1> QED BY <1>1, DispatchAlways, PTL

(* A message is launched at most max_attempts times for each time the store lost track of it,
   through crashes, failed saves, pruned entries and restarts: what the store forgets and what
   it remembers together count every launch. *)
THEOREM RetriesStayBounded == Spec => []RetriesAreBounded
  <1>1. DispatchInv => RetriesAreBounded
    <2> SUFFICES ASSUME DispatchInv, NEW m \in Messages
                 PROVE  launches[m] <= MaxAttempts * (1 + losses[m])
      BY DEF RetriesAreBounded
    <2>1. /\ losses[m] \in Nat /\ launches[m] \in Nat /\ MaxAttempts \in Nat
          /\ Store \in [Messages -> Entries]
      BY RunnerConstants, EmptyStore DEF DispatchInv, TypeInv, RunnerTypes, Store
    <2> DEFINE product == MaxAttempts * losses[m]
    <2>2. product \in Nat /\ MaxAttempts * (losses[m] + 1) = product + MaxAttempts
      BY <2>1, OneMore
    <2>3. Weight(Store, m) \in Nat /\ Weight(Store, m) <= MaxAttempts
      BY <2>1, WeightType
    <2>4. launches[m] <= product + Weight(Store, m)
      BY DEF DispatchInv, LaunchInv, Counted
    <2>5. launches[m] <= product + MaxAttempts
      <3> HIDE DEF product
      <3> QED BY <2>1, <2>2, <2>3, <2>4
    <2>6. 1 + losses[m] = losses[m] + 1
      BY <2>1
    <2> QED BY <2>2, <2>5, <2>6
  <1> QED BY <1>1, DispatchAlways, PTL

(* A session of a living runner works on a task its island holds, unless the completion is on
   record or a broken call left the claim in doubt: the server takes a claim away only for a
   release that the runner asked for, and the runner asks for none while a session has it. *)
THEOREM SessionsHoldTheirClaims == Spec => []SessionHoldsClaim
  <1>1. DispatchInv => SessionHoldsClaim
    BY DEF DispatchInv, HoldInv, Safe, SessionHoldsClaim
  <1> QED BY <1>1, DispatchAlways, PTL

(* When the poll loop reports itself drained, every claim the island holds has had a session,
   or is in doubt after a broken call: the tick gave back what it won too late. *)
THEOREM DrainLeavesNoClaim == Spec => []DrainedClaimsAreBacked
  <1>1. DispatchInv => DrainedClaimsAreBacked
    <2> SUFFICES ASSUME DispatchInv, proc = "counting", NEW m \in Messages, Holds(Home, m)
                 PROVE  launches[m] > 0 \/ m \in unsure
      BY DEF DrainedClaimsAreBacked
    <2>1. tick.pc = "rest"
      BY DEF DispatchInv, TickInv
    <2>2. ~Unbacked(m)
      BY <2>1 DEF DispatchInv, BackedInv
    <2>3. launches[m] \in Nat
      BY DEF DispatchInv, TypeInv, RunnerTypes
    <2> QED BY <2>2, <2>3 DEF Unbacked
  <1> QED BY <1>1, DispatchAlways, PTL

(* Who launches. *)
LEMMA LaunchSteps ==
    ASSUME DispatchInv, [Next]_vars, NEW m \in Messages, launches'[m] > launches[m]
    PROVE  tick.pc = "claiming" /\ tick.cur = m
  <1>1. UNCHANGED launches \/ Launched \/ DiesLaunching
    BY Zenon DEF Next, StartSteps, Start, BaselineReads, BaselineEnds, BaselineFails, TickStarts,
       TickSteps, FetchUnread, FetchDone, ClaimRefused, ClaimedTooLate, LaunchRefused, Released,
       ReleaseRefused, TickEnds, FetchFails, CallBreaks, Stop, DrainSteps, DrainDone, CountActive,
       Dies, GateSteps, CliWrites, CliDies, AgentSteps, ChildExits, AgentCompletes, TimePasses,
       CoolDown, GrowOld, ServerSteps, InboxSteps, vars, runnerVars, history
  <1>2. CASE UNCHANGED launches
    <2>1. launches[m] \in Nat
      BY DEF DispatchInv, TypeInv, RunnerTypes
    <2> QED BY <1>2, <2>1
  <1>3. CASE Launched \/ DiesLaunching
    <2>1. /\ tick.pc = "claiming"
          /\ launches' = [launches EXCEPT ![tick.cur] = @ + 1]
      BY <1>3 DEF Launched, DiesLaunching
    <2>2. launches \in [Messages -> Nat]
      BY DEF DispatchInv, TypeInv, RunnerTypes
    <2> QED BY <2>1, <2>2
  <1> QED BY <1>1, <1>2, <1>3

(* A task outside the allowlist is launched only on a grant no launch has used, however claims,
   grants, pauses, crashes and ticks interleave: the tick reads the gate when it claims, and
   between that and the launch nobody else uses the grant. *)
THEOREM GrantsAreUsedOnce == Spec => GrantIsSingleUse
  <1>1. DispatchInv /\ [Next]_vars =>
           [\A m \in Messages \ Listed : launches'[m] > launches[m] => m \in unspent]_vars
    <2> SUFFICES ASSUME DispatchInv, [Next]_vars, NEW m \in Messages \ Listed,
                        launches'[m] > launches[m]
                 PROVE  m \in unspent
      OBVIOUS
    <2>1. tick.pc = "claiming" /\ tick.cur = m
      BY LaunchSteps
    <2> QED BY <2>1 DEF DispatchInv, GrantInv
  <1> QED BY <1>1, DispatchAlways, PTL DEF Spec, GrantIsSingleUse

(* --- the register under this runner --------------------------------------------------------- *)

(* What the runner itself does leaves rows, queue and receipts alone; everything else is a
   step that any client of the server may cause. *)
LEMMA RunnerStepIsClaimStep ==
    ASSUME DispatchInv, [Next]_vars
    PROVE  UNCHANGED register \/ ClaimNext
  <1>1. CASE StartSteps \/ TickStarts \/ TickSteps \/ FetchFails \/ CallBreaks
    BY <1>1, Zenon DEF StartSteps, Start, BaselineReads, BaselineEnds, BaselineFails, TickStarts,
       TickSteps, FetchUnread, FetchDone, ClaimRefused, ClaimedTooLate, Launched, LaunchRefused,
       Released, ReleaseRefused, TickEnds, FetchFails, CallBreaks, claimVars, register
  <1>2. CASE Stop \/ DrainSteps \/ Dies \/ DiesLaunching \/ GateSteps \/ TimePasses
    BY <1>2, Zenon DEF Stop, DrainSteps, DrainDone, CountActive, Dies, DiesLaunching, GateSteps,
       CliWrites, CliDies, TimePasses, CoolDown, GrowOld, claimVars, register
  <1>3. CASE AgentSteps
    <2> SUFFICES ASSUME NEW s \in children, ChildExits(s) \/ AgentCompletes(s)
                 PROVE  UNCHANGED register \/ ClaimNext
      BY <1>3 DEF AgentSteps
    <2>1. s.msg \in Messages /\ Home \in Islands
      BY RunnerConstants DEF DispatchInv, TypeInv, RunnerTypes, Sessions
    <2> QED BY <2>1, Zenon DEF ChildExits, AgentCompletes, ClaimNext, claimVars, register
  <1>4. CASE ServerSteps(Callers \union {Stray})
    BY <1>4, Zenon DEF ServerSteps, ServerHandles, ClaimNext
  <1>5. CASE InboxSteps
    BY <1>5, Zenon DEF InboxSteps, UnscopedCall, ClaimNext
  <1>6. CASE UNCHANGED vars
    BY <1>6, Zenon DEF vars, claimVars, register
  <1> QED BY <1>1, <1>2, <1>3, <1>4, <1>5, <1>6 DEF Next

(* The register keeps its promises to every island under this runner, with its abandoned
   calls, second launches and restarts, and not only under the clients TaskClaims has: both
   sides agree on who is free, a claim ends by its owner alone, and receipts are earned. *)
THEOREM RunnerKeepsTheRegister ==
    Spec => []GatesAgree /\ OnlyTheOwnerEndsAClaim /\ ReceiptsAreEarned
  <1> DEFINE Spared == \A t \in Terminals : Scoped(t) /\ ctx'[t] # ctx[t] =>
                \/ \E m \in Messages : CompleteTask(ctx[t].island, m)
                \/ \E r \in wire : ReleaseClaim(r) /\ r.island = ctx[t].island
                                                 /\ r.msg = ctx[t].task
             Earned == \A i \in Islands, m \in Messages : receipt'[i][m] # receipt[i][m] =>
                receipt[i][m] = 0 /\ Holds(i, m) /\ ctx'[TerminalOf[m]].task = NoTask
  <1>1. DispatchInv => GatesAgree
    BY GatesAgreeByRow DEF DispatchInv, TypeInv, ClaimInv
  <1>2. DispatchInv /\ [Next]_vars => [Spared]_claimVars
    <2> SUFFICES ASSUME DispatchInv, [Next]_vars
                 PROVE  Spared
      OBVIOUS
    <2>1. CASE UNCHANGED register
      BY <2>1 DEF register
    <2>2. CASE ClaimNext
      BY <2>2, StepSparesScoped DEF EndedByOwner, DispatchInv, TypeInv
    <2> QED BY <2>1, <2>2, RunnerStepIsClaimStep
  <1>3. DispatchInv /\ [Next]_vars => [Earned]_claimVars
    <2> SUFFICES ASSUME DispatchInv, [Next]_vars
                 PROVE  Earned
      OBVIOUS
    <2>1. CASE UNCHANGED register
      BY <2>1 DEF register
    <2>2. CASE ClaimNext
      BY <2>2, ReceiptStep DEF DispatchInv, TypeInv
    <2> QED BY <2>1, <2>2, RunnerStepIsClaimStep
  <1> QED
    BY <1>1, <1>2, <1>3, DispatchAlways, PTL DEF Spec, OnlyTheOwnerEndsAClaim, ReceiptsAreEarned
====
