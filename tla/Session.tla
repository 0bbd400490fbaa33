------------------------------ MODULE Session ------------------------------
(***************************************************************************)
(* Connection lifecycle, authentication, the client registry and the       *)
(* presence directory, across several chat-server nodes.                   *)
(*                                                                         *)
(* ChatServer.websocketHandler (server.go) runs AuthHandler.Auth           *)
(* (authhandler.go) on a new connection: a valid token makes it GetSet the *)
(* Redis key chat:client:<id> to the node id, mark the client authed and   *)
(* Add it to the node's ClientManager (clientmanager.go).  The reader loop *)
(* then runs until a read error; on the way out the deferred               *)
(* ClientCloseHandler deletes the Redis key and the ClientManager entry of *)
(* that user id.  Shutdown runs ClientManager.Clear, which closes every    *)
(* registered connection and empties the map.                              *)
(***************************************************************************)
EXTENDS Naturals, FiniteSets

CONSTANTS
    Nodes,   \* chat-server processes (their persisted node ids)
    Users,   \* user ids that hold valid tokens
    Conns    \* websocket connections; each is accepted at most once

\* The absent Redis key, and the absent map entry.
None == "none"

VARIABLES
    presence,  \* Redis chat:client:<id>: [Users -> Nodes \cup {None}]
    registry,  \* each node's ClientManager: [Nodes -> [Users -> Conns \cup {None}]]
    conn,      \* [Conns -> [pc, u, n]]: where each connection's goroutine is
    up         \* the nodes whose listener still accepts connections

vars == <<presence, registry, conn, up>>

ConnPc == {"idle", "reg", "open", "closing", "delreg", "closed"}

TypeOK ==
    /\ presence \in [Users -> Nodes \cup {None}]
    /\ registry \in [Nodes -> [Users -> Conns \cup {None}]]
    /\ conn \in [Conns -> [pc: ConnPc, u: Users \cup {None}, n: Nodes \cup {None}]]
    /\ up \subseteq Nodes

Init ==
    /\ presence = [u \in Users |-> None]
    /\ registry = [n \in Nodes |-> [u \in Users |-> None]]
    /\ conn = [c \in Conns |-> [pc |-> "idle", u |-> None, n |-> None]]
    /\ up = Nodes

\* A connection that Auth accepted and whose reader loop is running.
Live(c) == conn[c].pc = "open"

-----------------------------------------------------------------------------
(* websocketHandler and Auth.                                              *)

\* The upgrade reaches Auth on node n with u's token.  A missing, invalid
\* or superseded token, or a Redis error on the token lookup, makes Auth
\* write the unauthorized close frame and return false; a Redis error on
\* GetSet returns false too.  Either way the handler returns before the
\* close handler is deferred, so no key is touched.
AuthReject(c, n) ==
    /\ conn[c].pc = "idle"
    /\ n \in up
    /\ conn' = [conn EXCEPT ![c] = [pc |-> "closed", u |-> None, n |-> n]]
    /\ UNCHANGED <<presence, registry, up>>

\* A valid token: GetSet chat:client:<id> to this node.  A previous value
\* means a duplicate login; handleDuplicateLogin is an empty TODO.
AuthGetSet(c, u, n) ==
    /\ conn[c].pc = "idle"
    /\ n \in up
    /\ presence' = [presence EXCEPT ![u] = n]
    /\ conn' = [conn EXCEPT ![c] = [pc |-> "reg", u |-> u, n |-> n]]
    /\ UNCHANGED <<registry, up>>

\* SetAuthed and ClientManagerInstance.Add(id, conn): the map entry of
\* the user is overwritten.
AuthRegister(c) ==
    LET u == conn[c].u
        n == conn[c].n
    IN
    /\ conn[c].pc = "reg"
    /\ registry' = [registry EXCEPT ![n][u] = c]
    /\ conn' = [conn EXCEPT ![c].pc = "open"]
    /\ UNCHANGED <<presence, up>>

\* The reader loop returns: read timeout, close frame, a frame shorter
\* than 4 bytes, a "no handler" error, or the connection closed under it
\* (CheckAuthMiddleware, invalidOperation).
ReadFail(c) ==
    /\ Live(c)
    /\ conn' = [conn EXCEPT ![c].pc = "closing"]
    /\ UNCHANGED <<presence, registry, up>>

\* Bug variant of CloseDelPresence: the key is Set to "" instead of being
\* deleted (Auth's duplicate test, s != "", reads both as absent).
CloseBlankPresence(c) ==
    /\ conn[c].pc = "closing"
    /\ presence' = [presence EXCEPT ![conn[c].u] = ""]
    /\ conn' = [conn EXCEPT ![c].pc = "delreg"]
    /\ UNCHANGED <<registry, up>>

\* The deferred ClientCloseHandler: Del chat:client:<id> ...
CloseDelPresence(c) ==
    /\ conn[c].pc = "closing"
    /\ presence' = [presence EXCEPT ![conn[c].u] = None]
    /\ conn' = [conn EXCEPT ![c].pc = "delreg"]
    /\ UNCHANGED <<registry, up>>

\* ... then ClientManagerInstance.Del(id); conn.Close follows.
CloseDelRegistry(c) ==
    LET u == conn[c].u
        n == conn[c].n
    IN
    /\ conn[c].pc = "delreg"
    /\ registry' = [registry EXCEPT ![n][u] = None]
    /\ conn' = [conn EXCEPT ![c].pc = "closed"]
    /\ UNCHANGED <<presence, up>>

\* Shutdown: the listener stops and the OnShutdown hook runs Clear, which
\* closes every registered connection (its reader loop then fails) and
\* replaces the map by an empty one.
Shutdown(n) ==
    LET closed == {registry[n][u] : u \in Users} \ {None} IN
    /\ n \in up
    /\ up' = up \ {n}
    /\ registry' = [registry EXCEPT ![n] = [u \in Users |-> None]]
    /\ conn' = [c \in Conns |->
                  IF c \in closed /\ Live(c)
                    THEN [conn[c] EXCEPT !.pc = "closing"]
                    ELSE conn[c]]
    /\ UNCHANGED presence

-----------------------------------------------------------------------------
Next ==
    \/ \E c \in Conns, n \in Nodes : AuthReject(c, n)
    \/ \E c \in Conns, u \in Users, n \in Nodes : AuthGetSet(c, u, n)
    \/ \E c \in Conns :
          \/ AuthRegister(c) \/ ReadFail(c)
          \/ CloseDelPresence(c) \/ CloseDelRegistry(c)
    \/ \E n \in Nodes : Shutdown(n)

Spec == Init /\ [][Next]_vars

-----------------------------------------------------------------------------
(* Properties.                                                             *)

\* A user with a running authenticated connection is routable: the
\* presence key names a node whose ClientManager holds one of the user's
\* running connections, or where one is between GetSet and Add (spec 4.5:
\* remote delivery looks the key up and the owning node delivers locally).
Routable(u) ==
    /\ presence[u] \in Nodes
    /\ \/ LET c == registry[presence[u]][u] IN c # None /\ Live(c)
       \/ \E c \in Conns : conn[c].pc = "reg" /\ conn[c].u = u
                          /\ conn[c].n = presence[u]

LiveUserRoutable ==
    \A u \in Users :
        (\E c \in Conns : Live(c) /\ conn[c].u = u) => Routable(u)

=============================================================================
