------------------------------ MODULE MCNode -------------------------------
EXTENDS Node, TLC

CONSTANTS n1, n2, i1, i2, i3, u1, u2, m1, m2

MCSender == (m1 :> u1) @@ (m2 :> u2)
MCReceiver == (m1 :> u2) @@ (m2 :> u1)


====
