-------------------------- MODULE MCAttachedCursor --------------------------
EXTENDS AttachedCursor, TLC

\* No definition names a task, and no liveness is checked of this module.
MessageSymmetry == Permutations(Messages)
=============================================================================
