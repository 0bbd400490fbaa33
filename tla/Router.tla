------------------------------ MODULE Router ------------------------------
(***************************************************************************)
(* The presence-aware router of userchathandler.go, composed with the      *)
(* session lifecycle of Session.tla and driven by the simple client.       *)
(*                                                                         *)
(* ForwardMessage runs on the sender's reader goroutine: it persists an    *)
(* unread Chat Record, writes the frame to the recipient if the local      *)
(* ClientManager holds it (arming a retry), else looks up the recipient's  *)
(* presence key and publishes to that node's durable queue; with no key    *)
(* it returns the ack and leaves the record for the recipient's pull.      *)
(* Eight forwardMessage goroutines per node consume the queue, write to    *)
(* the recipient if it is registered there and ack the delivery either     *)
(* way.  The client pulls its unread records over HTTP after the websocket *)
(* dial, again on every NewMessage nudge, and marks them read; it acks     *)
(* every chat frame, and ConfirmMessage marks that record read and         *)
(* disarms the retry of the acking user.                                   *)
(*                                                                         *)
(* The retry scheduler is abstracted to its membership set per node        *)
(* (armed), a nudge while armed and a give-up; RetryHandler.tla models it  *)
(* in full.                                                                *)
(***************************************************************************)
EXTENDS Naturals, Sequences, SequencesExt, FiniteSets

CONSTANTS
    Nodes, Users, Conns,
    Msgs,           \* chat messages, one per send attempt of a client
    Sender,         \* [Msgs -> Users]
    Receiver,       \* [Msgs -> Users], a contact of the sender
    Owner,          \* [Conns -> Users]: the user whose client dials c
    SingleSession   \* TRUE: a user dials again only after its previous
                    \* connection is fully closed

VARIABLES
    presence, registry, conn, up,   \* Session.tla
    dial,      \* [Conns -> [u, n]]: the client dialled node n as user u
    cpc,       \* [Conns -> ClientPc]: where the client process is
    store,     \* MongoDB singleChat: [Msgs -> {"none", "unread", "read"}]
    fwd,       \* [Msgs -> [pc, c]]: ForwardMessage of m on connection c
    queue,     \* RabbitMQ queue of each node id: [Nodes -> Seq(Msgs)]
    inbox,     \* frames written to each connection, not yet handled by
               \* its client: [Conns -> SUBSET (Msgs \cup {NewMessage})]
    know,      \* [Conns -> SUBSET Msgs]: records the client has seen
    fetched,   \* [Conns -> SUBSET Msgs]: ids of the pull being marked
    acks,      \* [Conns -> SUBSET Msgs]: ChatAck frames the client wrote
    armed,     \* retry membership set of each node: [Nodes -> SUBSET Users]
    lateLogin  \* [Conns -> BOOLEAN]: the login pull ran, and answered, after
               \* Auth's Add

S == INSTANCE Session

sessionVars == <<presence, registry, conn, up>>
routerVars == <<dial, cpc, store, fwd, queue, inbox, know, fetched, acks, armed, lateLogin>>
vars == <<sessionVars, routerVars>>

None == S!None
NewMessage == "newMessage"

ClientPc == {"none", "dialled", "marking", "ready"}
FwdPc == {"idle", "local", "remote", "acked", "failed"}

TypeOK ==
    /\ S!TypeOK
    /\ dial \in [Conns -> [u: Users \cup {None}, n: Nodes \cup {None}]]
    /\ cpc \in [Conns -> ClientPc]
    /\ store \in [Msgs -> {"none", "unread", "read"}]
    /\ fwd \in [Msgs -> [pc: FwdPc, c: Conns \cup {None}]]
    /\ queue \in [Nodes -> Seq(Msgs)]
    /\ inbox \in [Conns -> SUBSET (Msgs \cup {NewMessage})]
    /\ know \in [Conns -> SUBSET Msgs]
    /\ fetched \in [Conns -> SUBSET Msgs]
    /\ acks \in [Conns -> SUBSET Msgs]
    /\ armed \in [Nodes -> SUBSET Users]
    /\ lateLogin \in [Conns -> BOOLEAN]

Init ==
    /\ S!Init
    /\ dial = [c \in Conns |-> [u |-> None, n |-> None]]
    /\ cpc = [c \in Conns |-> "none"]
    /\ store = [m \in Msgs |-> "none"]
    /\ fwd = [m \in Msgs |-> [pc |-> "idle", c |-> None]]
    /\ queue = [n \in Nodes |-> <<>>]
    /\ inbox = [c \in Conns |-> {}]
    /\ know = [c \in Conns |-> {}]
    /\ fetched = [c \in Conns |-> {}]
    /\ acks = [c \in Conns |-> {}]
    /\ armed = [n \in Nodes |-> {}]
    /\ lateLogin = [c \in Conns |-> FALSE]

\* The server side of c has not closed it: the client process still runs.
ClientUp(c) == conn[c].pc \in {"idle", "reg", "open"}

\* The reader goroutine of c is not inside a ForwardMessage.
ReaderIdle(c) == \A m \in Msgs : fwd[m].c = c => fwd[m].pc \notin {"local", "remote"}

\* Client.Write: the frame goes to the outbound channel; the writer
\* goroutine is cancelled when the reader loop exits, so a frame for a
\* connection that is no longer open never reaches its client.
Write(t, f) ==
    inbox' = IF conn[t].pc = "open"
               THEN [inbox EXCEPT ![t] = @ \cup {f}]
               ELSE inbox

\* The unread records of u, as GetOfflineMessage returns them.
UnreadOf(u) == {m \in Msgs : Receiver[m] = u /\ store[m] = "unread"}

-----------------------------------------------------------------------------
(* The client process (simpleclient Login, startReader, handlers).        *)

\* Login: after the HTTP login the client of u dials the websocket.  The
\* dial returns once the server has upgraded the connection, before the
\* server's Auth has run.
Dial(c, n) ==
    LET u == Owner[c] IN
    /\ conn[c].pc = "idle"
    /\ dial[c].u = None
    /\ n \in up
    /\ SingleSession =>
          \A d \in Conns : dial[d].u = u => conn[d].pc = "closed"
    /\ dial' = [dial EXCEPT ![c] = [u |-> u, n |-> n]]
    /\ cpc' = [cpc EXCEPT ![c] = "dialled"]
    /\ UNCHANGED <<sessionVars, store, fwd, queue, inbox, know, fetched, acks, armed, lateLogin>>

\* pullOfflineMessage, first half: GET the unread records of the user.
\* Login runs it right after the dial; the reader runs it for a
\* NewMessage frame.
ClientFetch(c) ==
    LET u == dial[c].u IN
    /\ ClientUp(c)
    /\ \/ /\ cpc[c] = "dialled"
          /\ lateLogin' = [lateLogin EXCEPT ![c] = (conn[c].pc = "open")]
          /\ inbox' = inbox
       \/ /\ cpc[c] = "ready"
          /\ NewMessage \in inbox[c]
          /\ inbox' = [inbox EXCEPT ![c] = @ \ {NewMessage}]
          /\ UNCHANGED lateLogin
    /\ know' = [know EXCEPT ![c] = @ \cup UnreadOf(u)]
    /\ fetched' = [fetched EXCEPT ![c] = UnreadOf(u)]
    /\ cpc' = [cpc EXCEPT ![c] = "marking"]
    /\ UNCHANGED <<sessionVars, dial, store, fwd, queue, acks, armed>>

\* pullOfflineMessage when the GET fails (HTTP error, a non-OK status, a
\* failed query or an unparsable body): it logs and returns, nothing is
\* marked, and the login goes on to the reader.
ClientFetchFail(c) ==
    /\ ClientUp(c)
    /\ \/ cpc[c] = "dialled" /\ inbox' = inbox
       \/ /\ cpc[c] = "ready"
          /\ NewMessage \in inbox[c]
          /\ inbox' = [inbox EXCEPT ![c] = @ \ {NewMessage}]
    /\ cpc' = [cpc EXCEPT ![c] = "ready"]
    /\ UNCHANGED <<sessionVars, dial, store, fwd, queue, know, fetched, acks, armed, lateLogin>>

\* Bug variant of ClientMark: every unread record of the user is marked,
\* not only the ids the pull returned.
ClientMarkAll(c) ==
    /\ cpc[c] = "marking"
    /\ store' = [m \in Msgs |-> IF Receiver[m] = dial[c].u /\ store[m] = "unread"
                                  THEN "read" ELSE store[m]]
    /\ fetched' = [fetched EXCEPT ![c] = {}]
    /\ cpc' = [cpc EXCEPT ![c] = "ready"]
    /\ UNCHANGED <<sessionVars, dial, fwd, queue, inbox, know, acks, armed, lateLogin>>

\* ChatMessageService.UpdateMany / UpdateOne: set status read on each id
\* whose record has the caller as receiver.
MarkRead(u, ids) ==
    [m \in Msgs |-> IF m \in ids /\ Receiver[m] = u THEN "read" ELSE store[m]]

\* ChatMessageController.UpdateStatus: no ids, one id or many; a failed
\* update answers Fail and the client only logs it.
UpdateStatus(u, ids) ==
    \/ ids # {} /\ store' = MarkRead(u, ids)
    \/ UNCHANGED store

\* pullOfflineMessage, second half: updateOfflineMessageStatus PUTs the
\* pulled ids; UpdateStatus marks them read (or fails and logs).  Then
\* the client reads frames.
ClientMark(c) ==
    /\ cpc[c] = "marking"
    /\ UpdateStatus(dial[c].u, fetched[c])
    /\ fetched' = [fetched EXCEPT ![c] = {}]
    /\ cpc' = [cpc EXCEPT ![c] = "ready"]
    /\ UNCHANGED <<sessionVars, dial, fwd, queue, inbox, know, acks, armed, lateLogin>>

\* HandleSingleChatMessage: show the frame and write a ChatAck for it.
\* The ack frame is handled by ConfirmMessage on the server's reader.
ClientRecv(c, m) ==
    /\ ClientUp(c)
    /\ cpc[c] = "ready"
    /\ m \in inbox[c] \cap Msgs
    /\ inbox' = [inbox EXCEPT ![c] = @ \ {m}]
    /\ acks' = [acks EXCEPT ![c] = @ \cup {m}]
    /\ know' = [know EXCEPT ![c] = @ \cup {m}]
    /\ UNCHANGED <<sessionVars, dial, cpc, store, fwd, queue, fetched, armed, lateLogin>>

-----------------------------------------------------------------------------
(* UserChatHandler.ForwardMessage on the sender's reader goroutine.       *)

\* The client sends m on c (handleSendMessage); checkUserParam passes
\* (sender, contact and sequence are valid) and PersistUnreadMessage
\* inserts the unread record.  On an insert error the driver returns a
\* nil result, and res.InsertedID panics: net/http recovers, and the
\* deferred close handlers end the sender's connection.  A write error
\* that comes with a result returns nil with no ack instead.
ForwardStart(m, c) ==
    /\ S!Live(c)
    /\ cpc[c] = "ready"
    /\ conn[c].u = Sender[m]
    /\ fwd[m].pc = "idle"
    /\ ReaderIdle(c)
    /\ \/ /\ store' = [store EXCEPT ![m] = "unread"]
          /\ fwd' = [fwd EXCEPT ![m] = [pc |-> "local", c |-> c]]
          /\ UNCHANGED sessionVars
       \/ /\ fwd' = [fwd EXCEPT ![m] = [pc |-> "failed", c |-> c]]
          /\ \/ UNCHANGED sessionVars
             \/ S!ReadFail(c)
          /\ UNCHANGED store
    /\ UNCHANGED <<dial, cpc, queue, inbox, know, fetched, acks, armed, lateLogin>>

\* sendIfOnSameServer: the recipient is in this node's ClientManager; the
\* frame is written to it, the retry armed and the ack returned.  Else the
\* forward goes on to the presence lookup.
ForwardLocal(m) ==
    LET n == conn[fwd[m].c].n
        t == registry[n][Receiver[m]]
    IN
    /\ fwd[m].pc = "local"
    /\ \/ /\ t # None
          /\ Write(t, m)
          /\ armed' = [armed EXCEPT ![n] = @ \cup {Receiver[m]}]
          /\ fwd' = [fwd EXCEPT ![m].pc = "acked"]
       \/ /\ t = None
          /\ fwd' = [fwd EXCEPT ![m].pc = "remote"]
          /\ UNCHANGED <<inbox, armed>>
    /\ UNCHANGED <<sessionVars, dial, cpc, store, queue, know, fetched, acks, lateLogin>>

\* Bug variant of ForwardRemote: the frame is published to the queue of
\* the sender's own node instead of the node the presence key names.
ForwardRemoteOwnNode(m) ==
    LET p == presence[Receiver[m]] IN
    /\ fwd[m].pc = "remote"
    /\ \/ /\ p = None
          /\ fwd' = [fwd EXCEPT ![m].pc = "acked"]
          /\ UNCHANGED queue
       \/ /\ p \in Nodes
          /\ queue' = [queue EXCEPT ![conn[fwd[m].c].n] = Append(@, m)]
          /\ fwd' = [fwd EXCEPT ![m].pc = "acked"]
    /\ UNCHANGED <<sessionVars, dial, cpc, store, inbox, know, fetched, acks, armed, lateLogin>>

\* sendIfOnAnotherServer: Get chat:client:<receiver>.  No key: the
\* recipient is offline and the ack is returned.  A node id: the frame is
\* published to that node's queue and the ack returned.  A Redis or
\* publish error returns nil: no ack, the record stays.
ForwardRemote(m) ==
    LET p == presence[Receiver[m]] IN
    /\ fwd[m].pc = "remote"
    /\ \/ /\ p = None
          /\ fwd' = [fwd EXCEPT ![m].pc = "acked"]
          /\ UNCHANGED queue
       \/ /\ p \in Nodes
          /\ queue' = [queue EXCEPT ![p] = Append(@, m)]
          /\ fwd' = [fwd EXCEPT ![m].pc = "acked"]
       \/ /\ fwd' = [fwd EXCEPT ![m].pc = "failed"]
          /\ UNCHANGED queue
    /\ UNCHANGED <<sessionVars, dial, cpc, store, inbox, know, fetched, acks, armed, lateLogin>>

-----------------------------------------------------------------------------
(* Background goroutines of a node.                                        *)

\* forwardMessage / sendMessage: one of the eight consumers of node n
\* takes a delivery (they race, so any of the queued frames may be the
\* next one handled), writes it to the recipient if this node's
\* ClientManager holds it and arms the retry, and acks the delivery in
\* every case.  They stop when the server context is cancelled.
ConsumerDeliver(n, i) ==
    LET m == queue[n][i]
        t == registry[n][Receiver[m]]
    IN
    /\ n \in up
    /\ queue' = [queue EXCEPT ![n] = RemoveAt(@, i)]
    /\ \/ /\ t # None
          /\ Write(t, m)
          /\ armed' = [armed EXCEPT ![n] = @ \cup {Receiver[m]}]
       \/ /\ t = None
          /\ UNCHANGED <<inbox, armed>>
    /\ UNCHANGED <<sessionVars, dial, cpc, store, fwd, know, fetched, acks, lateLogin>>

\* ConfirmMessage on c's reader: UpdateMessageRead by the record id (an
\* error returns early), then Remove the acking user's retry.
Confirm(c, m) ==
    LET n == conn[c].n IN
    /\ S!Live(c)
    /\ m \in acks[c]
    /\ ReaderIdle(c)
    /\ acks' = [acks EXCEPT ![c] = @ \ {m}]
    /\ \/ /\ store' = [store EXCEPT ![m] = "read"]
          /\ armed' = [armed EXCEPT ![n] = @ \ {conn[c].u}]
       \/ UNCHANGED <<store, armed>>
    /\ UNCHANGED <<sessionVars, dial, cpc, fwd, queue, inbox, know, fetched, lateLogin>>

\* A retry worker of node n sends NewMessage to the armed user's
\* registered connection (RetryHandler.tla models when and how often).
Nudge(n, u) ==
    LET t == registry[n][u] IN
    /\ u \in armed[n]
    /\ t # None
    /\ Write(t, NewMessage)
    /\ UNCHANGED <<sessionVars, dial, cpc, store, fwd, queue, know, fetched, acks, armed, lateLogin>>

\* The item of u reaches MaxRetry and the membership is dropped.
GiveUp(n, u) ==
    /\ u \in armed[n]
    /\ armed' = [armed EXCEPT ![n] = @ \ {u}]
    /\ UNCHANGED <<sessionVars, dial, cpc, store, fwd, queue, inbox, know, fetched, acks, lateLogin>>

-----------------------------------------------------------------------------
(* The session lifecycle of Session.tla, on dialled connections.           *)

AuthGetSet(c) ==
    /\ dial[c].u # None
    /\ S!AuthGetSet(c, dial[c].u, dial[c].n)
    /\ UNCHANGED routerVars

AuthRegister(c) == S!AuthRegister(c) /\ UNCHANGED routerVars

\* The reader loop exits between frames only.
ReadFail(c) == ReaderIdle(c) /\ S!ReadFail(c) /\ UNCHANGED routerVars

CloseDelPresence(c) == ReaderIdle(c) /\ S!CloseDelPresence(c) /\ UNCHANGED routerVars

CloseDelRegistry(c) == S!CloseDelRegistry(c) /\ UNCHANGED routerVars

Shutdown(n) == S!Shutdown(n) /\ UNCHANGED routerVars

-----------------------------------------------------------------------------
Next ==
    \/ \E c \in Conns, n \in Nodes : Dial(c, n)
    \/ \E c \in Conns :
          \/ ClientFetch(c) \/ ClientFetchFail(c) \/ ClientMark(c)
          \/ AuthGetSet(c) \/ AuthRegister(c) \/ ReadFail(c)
          \/ CloseDelPresence(c) \/ CloseDelRegistry(c)
          \/ \E m \in Msgs : ClientRecv(c, m) \/ ForwardStart(m, c) \/ Confirm(c, m)
    \/ \E m \in Msgs : ForwardLocal(m) \/ ForwardRemote(m)
    \/ \E n \in Nodes :
          \/ Shutdown(n)
          \/ \E i \in 1..Len(queue[n]) : ConsumerDeliver(n, i)
          \/ \E u \in Users : Nudge(n, u) \/ GiveUp(n, u)

Spec == Init /\ [][Next]_vars

-----------------------------------------------------------------------------
(* Properties.                                                             *)

\* m reaches the session c of its recipient by some path still open: the
\* client has seen it, it is in c's outbound channel, it waits in the
\* queue of c's node, its forward is still running, or the forward
\* failed and the sender got no ack (resending is the sender's part).
Covered(m, c) ==
    \/ m \in know[c]
    \/ m \in inbox[c]
    \/ m \in ToSet(queue[conn[c].n])
    \/ fwd[m].pc \in {"local", "remote", "failed"}

\* An unread record of a user with a running, logged-in session.
Pending(m, c) ==
    /\ S!Live(c)
    /\ conn[c].u = Receiver[m]
    /\ cpc[c] \in {"marking", "ready"}
    /\ store[m] = "unread"

\* No acked message is stranded: every unread record of a logged-in
\* recipient is known to its client or still on its way (spec 4.5: the
\* recipient gets it pushed, or by the pull when it reconnects).
NoStrandedMessage == \A m \in Msgs, c \in Conns : Pending(m, c) => Covered(m, c)

\* The same for a session whose login pull answered after Auth
\* registered it: ForwardMessage, the consumers and the close handlers never lose a
\* message for it, whichever node the sender is on.
NoStrandedAfterLateLogin ==
    \A m \in Msgs, c \in Conns : Pending(m, c) /\ lateLogin[c] => Covered(m, c)


\* A record is marked read only after a client of its recipient has seen
\* it (ConfirmMessage on a received frame, or the pull's status update).
ReadImpliesSeen ==
    \A m \in Msgs :
        store[m] = "read" =>
            \E c \in Conns : dial[c].u = Receiver[m] /\ m \in know[c]

=============================================================================
