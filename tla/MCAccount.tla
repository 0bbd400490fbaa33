----------------------------- MODULE MCAccount -----------------------------
EXTENDS Account

CONSTANTS u1, u2, c1, c2, c3

\* u1 and u2 are friends; c1 and c2 are two logins of u1, c3 one of u2.
MCUsers == {u1, u2}
MCFriends == [u \in MCUsers |-> IF u = u1 THEN {u2} ELSE {u1}]
MCClients == {c1, c2, c3}
MCOwner == [c \in MCClients |-> IF c = c3 THEN u2 ELSE u1]

=============================================================================
