\* Spec 8, idempotent arm: two Add callers, acks, the scheduler, one
\* worker and the clock; at most one live item per armed user.
CONSTANTS
    u1 = u1
    u2 = u2
    c1 = c1
    c2 = c2
    w1 = w1
    w2 = w2
    Users <- MCUsers
    Callers <- MCCallers
    Workers <- MCOneWorker
    MaxRetry = 3
    ChanCap = 1
    MaxArms = 2

SPECIFICATION Spec

INVARIANT ArmIdempotent
