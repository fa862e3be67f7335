------------------------------ MODULE TaskSlot ------------------------------
(***************************************************************************)
(* What an attached terminal promises about the tasks it is given, with no *)
(* PTY, no process and no restart in sight: a slot that holds one task at  *)
(* a time.                                                                 *)
(*                                                                         *)
(*   - a task is delivered only into a slot taken for it, and once until   *)
(*     it is finished; a finished task may be handed out again;            *)
(*   - the slot is free again only when its task is finished;              *)
(*   - when it is lost whose slot it is, the slot is sealed and stays so:  *)
(*     nothing is delivered until an operator repairs it.                  *)
(***************************************************************************)
EXTENDS Naturals

CONSTANTS Messages, Free, Sealed

VARIABLES
  slot,       \* the task that holds the terminal, Free or Sealed
  delivered,  \* how often each task was delivered before it was finished
  finished    \* the tasks whose completion is committed

slotVars == <<slot, delivered, finished>>

SlotTypeOK ==
  /\ slot \in Messages \cup {Free, Sealed}
  /\ delivered \in [Messages -> Nat]
  /\ finished \subseteq Messages

SlotInit ==
  /\ slot = Free
  /\ delivered = [m \in Messages |-> 0]
  /\ finished = {}

\* The slot is taken for m, whose input may then fail to be delivered.
Take(m) ==
  /\ slot = Free
  /\ delivered[m] = 0 \/ m \in finished
  /\ slot' \in {m, Sealed}
  /\ \/ UNCHANGED delivered
     \/ m \notin finished /\ delivered' = [delivered EXCEPT ![m] = 1]
  /\ UNCHANGED finished

Finish(m) ==
  /\ delivered[m] = 1 /\ m \notin finished
  /\ finished' = finished \cup {m}
  /\ UNCHANGED <<slot, delivered>>

Release(m) ==
  /\ slot = m /\ m \in finished
  /\ slot' = Free
  /\ UNCHANGED <<delivered, finished>>

Seal ==
  /\ slot \in Messages
  /\ slot' = Sealed
  /\ UNCHANGED <<delivered, finished>>

SlotNext == Seal \/ \E m \in Messages : Take(m) \/ Finish(m) \/ Release(m)

Spec == SlotInit /\ [][SlotNext]_slotVars

=============================================================================
