---- MODULE MCRunnerDispatch ----
(* One terminal, one island, and one or two messages in its inbox. *)
EXTENDS RunnerDispatch, TLC

CONSTANTS t1, m1, m2, i1

MCTerminalOf == [m \in Messages |-> t1]
MCEpicOf == [m \in Messages |-> NoEpic]
MCSymmetry == Permutations({m1, m2})
====
