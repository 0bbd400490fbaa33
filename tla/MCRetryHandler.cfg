\* Safety of the retry scheduler under every interleaving of two Add
\* callers, the scheduler, one worker, acks, (dis)connects and the clock.
CONSTANTS
    u1 = u1
    u2 = u2
    c1 = c1
    c2 = c2
    w1 = w1
    w2 = w2
    Users <- MCUsers
    Callers <- MCCallers
    Workers <- MCOneWorker
    MaxRetry = 3
    ChanCap = 1
    MaxArms = 2

SPECIFICATION Spec

INVARIANT TypeOK
INVARIANT MembershipBacked
