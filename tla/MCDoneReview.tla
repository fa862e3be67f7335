---- MODULE MCDoneReview ----
EXTENDS DoneReview, TLC
CONSTANTS d1, d2
LightOrNone == d1 :> {"light"} @@ d2 :> {"none", "light"}
Dual == d1 :> {"standard"} @@ d2 :> {"strict"}
====
