---- MODULE MCTaskClaims ----
(* Two messages at one terminal, one of them without an epic, two islands that
   nothing tells apart. *)
EXTENDS TaskClaims, TLC

CONSTANTS t1, m1, m2, e1, i1, i2

MCTerminalOf == [m \in {m1, m2} |-> t1]
MCEpicOf == m1 :> e1 @@ m2 :> NoEpic
MCSymmetry == Permutations({i1, i2})
====
