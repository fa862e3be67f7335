---- MODULE MCTaskEscalation ----
(* One task, two nightwatch cycles that may overlap, three subscriptions at a time. *)
EXTENDS TaskEscalation

CONSTANTS k1, c1, c2
====
