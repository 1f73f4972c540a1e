---- MODULE MCBrain ----
EXTENDS Brain, TLC
CONSTANTS n1, r1, r2, f1
MCLength == (n1 :> 5) @@ (r1 :> 12) @@ (r2 :> 12) @@ (f1 :> 30)
====
