CONSTANTS
    u1 = u1
    u2 = u2
    c1 = c1
    c2 = c2
    c3 = c3
    Users <- MCUsers
    Friends <- MCFriends
    Clients <- MCClients
    Owner <- MCOwner
    \* 30 s and 30 min: the token always expires well before the cache.
    TokenTTL = 1
    CacheTTL = 2
SPECIFICATION Spec
\* Every client process ends (a panic, or the menu waiting on stdin).
CHECK_DEADLOCK FALSE
INVARIANT KickOnlyNonContacts
