\* Two nodes, three possible uuids (one spare for a fresh id), two users
\* sending one frame to each other, up to two failures.  No symmetry:
\* the run checks a liveness property.
CONSTANTS
    n1 = n1  n2 = n2
    i1 = i1  i2 = i2  i3 = i3
    u1 = u1  u2 = u2
    m1 = m1  m2 = m2
    Nodes = {n1, n2}
    Uuids = {i1, i2, i3}
    Users = {u1, u2}
    Msgs = {m1, m2}
    Sender <- MCSender
    Receiver <- MCReceiver
    MaxCrashes = 2
SPECIFICATION FairSpec
INVARIANTS RelayNotLost OrphanFree
PROPERTY RelayHandled
