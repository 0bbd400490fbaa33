------------------------------ MODULE Account ------------------------------
(***************************************************************************)
(* The path from a user's login to the first chat frame, across the auth   *)
(* server, Redis, the chat server and the simple client.                   *)
(*                                                                         *)
(* Login (auth server) stores token:id:<id> with a 30 s TTL; the chat      *)
(* server's Auth accepts a websocket only while that key holds the         *)
(* presented token.  The friends endpoint caches the user's contact ids in *)
(* the set friends:id:<id> with a 30 min TTL; ForwardMessage's             *)
(* checkUserParam accepts a frame only if its receiver is in that set and  *)
(* otherwise closes the connection.  The simple client logs in, dials,     *)
(* fetches its friends once, and then sends from its menu; its reader and  *)
(* its ping goroutine panic once the connection is closed.                 *)
(*                                                                         *)
(* Time is a Tick that brings every TTL one unit closer to expiry.         *)
(***************************************************************************)
EXTENDS Naturals

CONSTANTS
    Users,       \* user ids
    Friends,     \* [Users -> SUBSET Users]: the friend rows in MySQL
    Clients,     \* simple-client processes
    Owner,       \* [Clients -> Users]: the account each one logs in as
    TokenTTL,    \* TokenExpireDuration, in ticks
    CacheTTL     \* DefaultCacheDuration, in ticks

None == "none"

VARIABLES
    token,       \* token:id:<u>: the client whose token it holds, or None
    tokenTTL,    \* its remaining TTL
    fcache,      \* friends:id:<u> (the empty set when the key is absent)
    fcacheTTL,   \* its remaining TTL
    pc,          \* the client's place in Login and HandleMessage
    cfriends,    \* the client's c.friends
    conn,        \* the chat server's side of the client's websocket
    kick         \* the receiver of the frame that made checkUserParam close it

vars == <<token, tokenTTL, fcache, fcacheTTL, pc, cfriends, conn, kick>>

Init ==
    /\ token = [u \in Users |-> None] /\ tokenTTL = [u \in Users |-> 0]
    /\ fcache = [u \in Users |-> {}] /\ fcacheTTL = [u \in Users |-> 0]
    /\ pc = [c \in Clients |-> "start"]
    /\ cfriends = [c \in Clients |-> {}]
    /\ conn = [c \in Clients |-> "none"]
    /\ kick = [c \in Clients |-> None]

-----------------------------------------------------------------------------
(* Server-side helpers.                                                    *)

\* CheckUserLogin: the token:id key now holds c's token, for TokenTTL.
IssueToken(c) ==
    /\ token' = [token EXCEPT ![Owner[c]] = c]
    /\ tokenTTL' = [tokenTTL EXCEPT ![Owner[c]] = TokenTTL]

\* UserController.Login: Ok with the token, or Fail (invalid input, wrong
\* password, banned or destroyed account, store error) with none.
LoginOutcome(c) ==
    \/ IssueToken(c) /\ pc' = [pc EXCEPT ![c] = "token"]
    \/ pc' = [pc EXCEPT ![c] = "dead"] /\ UNCHANGED <<token, tokenTTL>>

\* AuthHandler.Auth: the key exists and equals the presented token.
AuthAccepts(c) == token[Owner[c]] = c

\* GetAllFriends: no friend rows, no key; otherwise SAdd the ids and
\* Expire the key, in one pipeline.
CacheFriends(u) ==
    IF Friends[u] = {}
    THEN UNCHANGED <<fcache, fcacheTTL>>
    ELSE /\ fcache' = [fcache EXCEPT ![u] = @ \cup Friends[u]]
         /\ fcacheTTL' = [fcacheTTL EXCEPT ![u] = CacheTTL]

\* FriendController.GetAllFriendsInfo: Ok with the friend rows (after
\* GetAllFriends cached them), or Fail, which the client reads as no list.
FriendsOutcome(c) ==
    \/ CacheFriends(Owner[c])
       /\ cfriends' = [cfriends EXCEPT ![c] = Friends[Owner[c]]]
    \/ UNCHANGED <<fcache, fcacheTTL, cfriends>>

\* checkUserParam's SIsMember on friends:id:<sender>.
IsContact(u, r) == r \in fcache[u]

-----------------------------------------------------------------------------
(* The simple client's Login and menu.                                     *)

\* loginHttp then ParseToken: a failed login answers without a token and
\* Login panics.
LoginHttp(c) ==
    /\ pc[c] = "start"
    /\ LoginOutcome(c)
    /\ UNCHANGED <<fcache, fcacheTTL, cfriends, conn, kick>>

\* loginWebSocket: Dial returns at the upgrade, before Auth runs, so the
\* client goes on whatever Auth decides; a rejected socket is closed.
Dial(c) ==
    /\ pc[c] = "token"
    /\ conn' = [conn EXCEPT ![c] = IF AuthAccepts(c) THEN "open" ELSE "closed"]
    /\ pc' = [pc EXCEPT ![c] = "dialed"]
    /\ UNCHANGED <<token, tokenTTL, fcache, fcacheTTL, cfriends, kick>>

\* getFriends: on any error it returns nil.  (The offline pull that
\* follows is part of the Router module.)
GetFriends(c) ==
    /\ pc[c] = "dialed"
    /\ FriendsOutcome(c)
    /\ pc' = [pc EXCEPT ![c] = "menu"]
    /\ UNCHANGED <<token, tokenTTL, conn, kick>>

\* handleSendMessage: a SingleChat frame to an entry of c.friends.  The
\* chat server's checkUserParam either passes it on to ForwardMessage
\* (the Router module) or calls invalidOperation, which closes the
\* connection.
Send(c, r) ==
    /\ pc[c] = "menu" /\ conn[c] = "open"
    /\ r \in cfriends[c]
    /\ ~IsContact(Owner[c], r)
    /\ conn' = [conn EXCEPT ![c] = "closed"]
    /\ kick' = [kick EXCEPT ![c] = r]
    /\ UNCHANGED <<token, tokenTTL, fcache, fcacheTTL, pc, cfriends>>

\* handleSendMessage indexes c.friends[idx]: with an empty list it panics.
SendNoFriends(c) ==
    /\ pc[c] = "menu" /\ cfriends[c] = {}
    /\ pc' = [pc EXCEPT ![c] = "dead"]
    /\ UNCHANGED <<token, tokenTTL, fcache, fcacheTTL, cfriends, conn, kick>>

\* The ping goroutine (from the dial on) panics when WriteControl fails;
\* the reader (from the menu on) logs the read error and panics on p[:4].
ConnLost(c) ==
    /\ pc[c] \in {"dialed", "menu"} /\ conn[c] = "closed"
    /\ pc' = [pc EXCEPT ![c] = "dead"]
    /\ UNCHANGED <<token, tokenTTL, fcache, fcacheTTL, cfriends, conn, kick>>

-----------------------------------------------------------------------------
(* Redis key expiry.                                                       *)

Dec(n) == IF n > 0 THEN n - 1 ELSE 0

Tick ==
    /\ \E u \in Users : tokenTTL[u] > 0 \/ fcacheTTL[u] > 0
    /\ tokenTTL' = [u \in Users |-> Dec(tokenTTL[u])]
    /\ token' = [u \in Users |-> IF tokenTTL[u] > 1 THEN token[u] ELSE None]
    /\ fcacheTTL' = [u \in Users |-> Dec(fcacheTTL[u])]
    /\ fcache' = [u \in Users |-> IF fcacheTTL[u] > 1 THEN fcache[u] ELSE {}]
    /\ UNCHANGED <<pc, cfriends, conn, kick>>

-----------------------------------------------------------------------------
Next ==
    \/ \E c \in Clients :
          \/ LoginHttp(c) \/ Dial(c) \/ GetFriends(c)
          \/ SendNoFriends(c) \/ ConnLost(c)
          \/ \E r \in Users : Send(c, r)
    \/ Tick

Spec == Init /\ [][Next]_vars

-----------------------------------------------------------------------------
(* Properties.                                                             *)

\* checkUserParam closes a connection only for a frame whose receiver is
\* not a contact of the sender (spec 4.5 and 6: the recipient must be in
\* the sender's contact set, isContact(userId, otherId)); the client sends
\* only to the contacts the friends endpoint gave it.
KickOnlyNonContacts ==
    \A c \in Clients : kick[c] # None => kick[c] \notin Friends[Owner[c]]

=============================================================================
