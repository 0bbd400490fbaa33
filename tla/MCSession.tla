----------------------------- MODULE MCSession -----------------------------
(* Model-checking instance of Session: two nodes, two users, three         *)
(* connections.  Connections are interchangeable, so they form a symmetry  *)
(* set (the runs check only invariants).                                   *)
EXTENDS Session, TLC

CONSTANTS nA, nB, u1, u2, k1, k2, k3

MCNodes == {nA, nB}
MCUsers == {u1, u2}
MCConns == {k1, k2, k3}

ConnSymmetry == Permutations(MCConns)

=============================================================================
