\* Every interleaving of three connections of two users over two nodes:
\* handshakes, duplicate logins, disconnects and node shutdowns.
CONSTANTS
    nA = nA
    nB = nB
    u1 = u1
    u2 = u2
    k1 = k1
    k2 = k2
    k3 = k3
    Nodes <- MCNodes
    Users <- MCUsers
    Conns <- MCConns

SPECIFICATION Spec
SYMMETRY ConnSymmetry
CHECK_DEADLOCK FALSE

INVARIANT LiveUserRoutable
