-------------------------- MODULE MCAttachedRunner --------------------------
EXTENDS AttachedRunner
=============================================================================
