--------------------------- MODULE AttachedCursor ---------------------------
(***************************************************************************)
(* The cursor of the completion pump against the marker of the terminal:   *)
(* AttachedRunner with a history variable.  A task may be handed out again *)
(* after its completion, and no second receipt is ever written for it; the *)
(* history tells such a marker from one whose receipt is still to come.    *)
(***************************************************************************)
EXTENDS AttachedRunner

VARIABLE redone  \* the marker's task was already completed when it was taken

cursorVars == <<runnerVars, redone>>

CursorTypeOK == RunnerTypeOK /\ redone \in BOOLEAN

CursorInit == RunnerInit /\ redone = FALSE

\* The marker is taken, kept, or given up.
RecordTaking ==
  redone' = /\ marker'.messageId \in Messages
            /\ IF marker.phase = "none" THEN receipt[marker'.messageId] # 0
                                        ELSE redone

CursorNext ==
  \/ SessionStep /\ RecordTaking
  \/ PumpStep /\ UNCHANGED redone
  \/ StopPump /\ UNCHANGED redone

CursorSpec == CursorInit /\ [][CursorNext]_cursorVars

-----------------------------------------------------------------------------
\* The cursor never runs ahead of the marker: once it has passed the receipt
\* of a task that still holds the terminal, that receipt is in the marker.  A
\* task handed out again after its completion is excepted: it has no receipt
\* but the one the cursor may have passed long before.
CursorCoversMarker ==
  marker.messageId \in Messages /\ ~redone =>
    (receipt[marker.messageId] \in 1 .. cursor => marker.phase = "completed")

=============================================================================
