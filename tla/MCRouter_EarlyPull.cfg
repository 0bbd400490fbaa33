CONSTANTS
    nA = nA
    nB = nB
    u1 = u1
    u2 = u2
    k1 = k1
    k2 = k2
    k3 = k3
    m1 = m1
    Nodes <- MCNodes
    Users <- MCUsers
    Conns <- MCConns
    Msgs <- MCMsgs
    Sender <- MCSender
    Receiver <- MCReceiver
    Owner <- MCOwner
    SingleSession = TRUE
SYMMETRY ConnSymmetry
SPECIFICATION Spec
CHECK_DEADLOCK FALSE
INVARIANT NoStrandedMessage
