----------------------------- MODULE MCRouter -----------------------------
(* Two nodes, two users, a message from u1 to u2, one connection of u1  *)
(* and two of u2, for the router composed with the session lifecycle.   *)
EXTENDS Router, TLC

CONSTANTS nA, nB, u1, u2, k1, k2, k3, m1

MCNodes == {nA, nB}
MCUsers == {u1, u2}
MCConns == {k1, k2, k3}
MCMsgs == {m1}
MCSender == (m1 :> u1)
MCReceiver == (m1 :> u2)
MCOwner == (k1 :> u1) @@ (k2 :> u2) @@ (k3 :> u2)

ConnSymmetry == Permutations({k2, k3})
=============================================================================
