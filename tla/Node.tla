------------------------------- MODULE Node --------------------------------
(***************************************************************************)
(* Chat server nodes across crashes and restarts: the node identity kept   *)
(* in a local file (generateServerId), the durable per-node relay queue    *)
(* chatserver:<id> in RabbitMQ (InitMQ, Publish), the presence keys        *)
(* chat:client:<uid> that name a user's node, and the consumer loop        *)
(* forwardMessage that takes relayed frames with manual acks.              *)
(*                                                                         *)
(* A crash ends the process at any step: its connections are gone, its     *)
(* presence keys stay in Redis (nothing deletes them), the files stay on   *)
(* disk, and the broker requeues what it had pushed to the dead consumer   *)
(* and was not yet acked.  A restart runs main again.                      *)
(***************************************************************************)
EXTENDS Naturals, FiniteSets

CONSTANTS
    Nodes,       \* chat server processes, one id file each (-id flag)
    Uuids,       \* node ids uuid.New can produce
    Users,       \* user ids
    Msgs,        \* SingleChat frames
    Sender,      \* [Msgs -> Users]
    Receiver,    \* [Msgs -> Users]
    MaxCrashes   \* bound on failures (crashes, failed starts) over a behaviour

None == "none"
Absent == "absent"           \* no id file yet
Ids == Uuids \cup {""}       \* "" is what ReadAll returns for an empty file

VARIABLES
    file,        \* the id file of each node: Absent or its content
    proc,        \* "down", "creating" (file created, uuid not written),
                 \* "booting" (id known, InitMQ next) or "up"
    nid,         \* the running process's nodeId, None when down
    pubOk,       \* ProducerInstance.Channel is usable
    declared,    \* durable queues that exist on the broker (by id)
    queue,       \* ready frames of each queue
    unacked,     \* frames the broker pushed to a node's consumer, not acked
    conn,        \* the node whose ClientManager holds the user, or None
    presence,    \* chat:client:<uid>: a node id, or None
    status,      \* each frame: "new", "queued", "written", "dropped",
                 \* "offline" (ack returned, record left for the pull)
    crashes

procVars == <<file, proc, nid, pubOk>>
mqVars == <<declared, queue, unacked>>
userVars == <<conn, presence>>
vars == <<procVars, mqVars, userVars, status, crashes>>

Init ==
    /\ file = [n \in Nodes |-> Absent]
    /\ proc = [n \in Nodes |-> "down"] /\ nid = [n \in Nodes |-> None]
    /\ pubOk = [n \in Nodes |-> FALSE]
    /\ declared = {} /\ queue = [q \in Ids |-> {}]
    /\ unacked = [n \in Nodes |-> {}]
    /\ conn = [u \in Users |-> None] /\ presence = [u \in Users |-> None]
    /\ status = [m \in Msgs |-> "new"]
    /\ crashes = 0

-----------------------------------------------------------------------------
(* Startup: main, NewServer and generateServerId, InitMQ.                  *)

\* OpenFile(O_RDWR) fails: os.Create makes an empty file.
Create(n) ==
    /\ proc[n] = "down" /\ file[n] = Absent
    /\ file' = [file EXCEPT ![n] = ""]
    /\ proc' = [proc EXCEPT ![n] = "creating"]
    /\ UNCHANGED <<nid, pubOk, mqVars, userVars, status, crashes>>

\* A fresh uuid is written to the file and becomes the nodeId.
WriteId(n) ==
    /\ proc[n] = "creating"
    /\ \E i \in Uuids \ {file[k] : k \in Nodes} :
          /\ file' = [file EXCEPT ![n] = i]
          /\ nid' = [nid EXCEPT ![n] = i]
    /\ proc' = [proc EXCEPT ![n] = "booting"]
    /\ UNCHANGED <<pubOk, mqVars, userVars, status, crashes>>

\* Mutant: the file is always recreated (os.Create truncates it) and a
\* fresh uuid is written, as if OpenFile were never tried.
ReadIdFresh(n) ==
    /\ proc[n] = "down" /\ file[n] # Absent
    /\ \E i \in Uuids \ {file[k] : k \in Nodes} :
          /\ file' = [file EXCEPT ![n] = i]
          /\ nid' = [nid EXCEPT ![n] = i]
    /\ proc' = [proc EXCEPT ![n] = "booting"]
    /\ UNCHANGED <<pubOk, mqVars, userVars, status, crashes>>

\* OpenFile succeeds: the nodeId is whatever ReadAll returns.
ReadId(n) ==
    /\ proc[n] = "down" /\ file[n] # Absent
    /\ nid' = [nid EXCEPT ![n] = file[n]]
    /\ proc' = [proc EXCEPT ![n] = "booting"]
    /\ UNCHANGED <<file, pubOk, mqVars, userVars, status, crashes>>

\* InitMQ(chatserver:<id>): the producer channel's error is ignored, the
\* durable queue is declared and consumed with autoAck false.
InitMQ(n) ==
    /\ proc[n] = "booting"
    /\ declared' = declared \cup {nid[n]}
    /\ \E ok \in BOOLEAN : pubOk' = [pubOk EXCEPT ![n] = ok]
    /\ proc' = [proc EXCEPT ![n] = "up"]
    /\ UNCHANGED <<file, nid, queue, unacked, userVars, status, crashes>>

\* InitMQ returns an error and main panics, or the declare fails, InitMQ
\* returns nil and the forwardMessage goroutines started by route.Register
\* dereference the nil ConsumerInstance: either way the process ends.
InitFail(n) ==
    /\ proc[n] = "booting" /\ crashes < MaxCrashes
    /\ proc' = [proc EXCEPT ![n] = "down"]
    /\ nid' = [nid EXCEPT ![n] = None]
    /\ crashes' = crashes + 1
    /\ UNCHANGED <<file, pubOk, mqVars, userVars, status>>

-----------------------------------------------------------------------------
(* Sessions: AuthHandler.Auth and ClientCloseHandler.                      *)

\* Auth: GetSet chat:client:<uid> to this node's id, then ClientManager.Add.
Login(u, n) ==
    /\ proc[n] = "up" /\ conn[u] = None
    /\ conn' = [conn EXCEPT ![u] = n]
    /\ presence' = [presence EXCEPT ![u] = nid[n]]
    /\ UNCHANGED <<procVars, mqVars, status, crashes>>

\* The connection closes: Del chat:client:<uid>, ClientManager.Del.
Logout(u) ==
    /\ conn[u] # None
    /\ conn' = [conn EXCEPT ![u] = None]
    /\ presence' = [presence EXCEPT ![u] = None]
    /\ UNCHANGED <<procVars, mqVars, status, crashes>>

-----------------------------------------------------------------------------
(* Relay: ForwardMessage, Publish, forwardMessage.                         *)

\* Mutant: the consumer acks on receipt (autoAck true), so the broker
\* forgets what it pushed to a consumer that then dies.
DownAutoAck(n) ==
    /\ proc' = [proc EXCEPT ![n] = "down"]
    /\ nid' = [nid EXCEPT ![n] = None]
    /\ conn' = [u \in Users |-> IF conn[u] = n THEN None ELSE conn[u]]
    /\ UNCHANGED queue
    /\ unacked' = [unacked EXCEPT ![n] = {}]
    /\ crashes' = crashes + 1

\* The process ends: connections and the consumer go with it, presence
\* keys and files stay, the broker requeues the unacked deliveries.
Down(n) ==
    /\ proc' = [proc EXCEPT ![n] = "down"]
    /\ nid' = [nid EXCEPT ![n] = None]
    /\ conn' = [u \in Users |-> IF conn[u] = n THEN None ELSE conn[u]]
    /\ queue' = [q \in Ids |-> IF q = nid[n] THEN queue[q] \cup unacked[n]
                                              ELSE queue[q]]
    /\ unacked' = [unacked EXCEPT ![n] = {}]
    /\ crashes' = crashes + 1

Crash(n) ==
    /\ proc[n] # "down" /\ crashes < MaxCrashes
    /\ Down(n)
    /\ UNCHANGED <<file, pubOk, declared, presence, status>>

\* Publish on the default exchange with routing key chatserver:<id>: the
\* broker routes it to that queue if it exists and otherwise drops it
\* (mandatory is false).
Publish(id, m) ==
    queue' = IF id \in declared THEN [queue EXCEPT ![id] = @ \cup {m}]
                                ELSE queue

\* ForwardMessage on the sender's node after the record is persisted:
\* sendIfOnSameServer, else sendIfOnAnotherServer (Get the presence key
\* and Publish), else offline.  Publish on the nil producer channel left
\* by InitMQ panics; net/http recovers the panic of the connection's
\* handler goroutine, whose deferred close handler deletes the sender's
\* presence key and registry entry: no ack, the record stays unread.
Forward(m, s) ==
    LET r == Receiver[m] IN
    /\ status[m] = "new" /\ proc[s] = "up" /\ conn[Sender[m]] = s
    /\ \/ conn[r] = s
          /\ status' = [status EXCEPT ![m] = "written"]
          /\ UNCHANGED <<procVars, mqVars, userVars, crashes>>
       \/ conn[r] # s /\ presence[r] = None
          /\ status' = [status EXCEPT ![m] = "offline"]
          /\ UNCHANGED <<procVars, mqVars, userVars, crashes>>
       \/ conn[r] # s /\ presence[r] # None /\ pubOk[s]
          /\ Publish(presence[r], m)
          /\ status' = [status EXCEPT ![m] = "queued"]
          /\ UNCHANGED <<procVars, declared, unacked, userVars, crashes>>
       \/ conn[r] # s /\ presence[r] # None /\ ~pubOk[s]
          /\ conn' = [conn EXCEPT ![Sender[m]] = None]
          /\ presence' = [presence EXCEPT ![Sender[m]] = None]
          /\ UNCHANGED <<procVars, mqVars, status, crashes>>

\* The broker pushes a ready frame of chatserver:<nodeId> to the node's
\* consumer (DeliveryChan).
Deliver(n) ==
    /\ proc[n] = "up"
    /\ \E m \in queue[nid[n]] :
          /\ queue' = [queue EXCEPT ![nid[n]] = @ \ {m}]
          /\ unacked' = [unacked EXCEPT ![n] = @ \cup {m}]
    /\ UNCHANGED <<procVars, declared, userVars, status, crashes>>

\* Mutant: the worker acks only a frame it wrote; a frame whose receiver
\* is not on this node is left unacked on the consumer's channel.
HandleAckOnWrite(n) ==
    /\ proc[n] = "up"
    /\ \E m \in unacked[n] :
          /\ conn[Receiver[m]] = n
          /\ status' = [status EXCEPT ![m] = "written"]
          /\ unacked' = [unacked EXCEPT ![n] = @ \ {m}]
    /\ UNCHANGED <<procVars, declared, queue, userVars, crashes>>

\* A forwardMessage worker: sendMessage writes the frame to the receiver's
\* connection on this node, or drops it when the receiver is not here,
\* and then the delivery is acked.
Handle(n) ==
    /\ proc[n] = "up"
    /\ \E m \in unacked[n] :
          /\ status' = [status EXCEPT ![m] =
                          IF conn[Receiver[m]] = n THEN "written" ELSE "dropped"]
          /\ unacked' = [unacked EXCEPT ![n] = @ \ {m}]
    /\ UNCHANGED <<procVars, declared, queue, userVars, crashes>>

-----------------------------------------------------------------------------
Next ==
    \/ \E n \in Nodes :
          \/ Create(n) \/ WriteId(n) \/ ReadId(n) \/ InitMQ(n) \/ InitFail(n)
          \/ Crash(n) \/ Deliver(n) \/ Handle(n)
          \/ \E u \in Users : Login(u, n)
    \/ \E u \in Users : Logout(u)
    \/ \E m \in Msgs, s \in Nodes : Forward(m, s)

Spec == Init /\ [][Next]_vars

\* The broker pushes to a live consumer and the 8 forwardMessage
\* goroutines loop for the process's lifetime; a started process runs
\* main on.  A crashed node is restarted (by whoever runs it: nothing in
\* the code does) and then reads its id file again.  Logins, logouts and
\* forwards are clients' choices and get no fairness.
Fairness ==
    \A n \in Nodes :
        /\ WF_vars(Create(n)) /\ WF_vars(ReadId(n)) /\ WF_vars(WriteId(n))
        /\ WF_vars(InitMQ(n) \/ InitFail(n))
        /\ WF_vars(Deliver(n)) /\ WF_vars(Handle(n))

FairSpec == Spec /\ Fairness

-----------------------------------------------------------------------------
(* Properties.                                                             *)

\* A frame ForwardMessage acked as relayed is never lost by a crash of the
\* consuming node: until a forwardMessage worker has handled and acked it,
\* it is ready in a queue or pushed to a live consumer (Consume with
\* autoAck false, rabbitmq.go:59).
RelayNotLost ==
    \A m \in Msgs : status[m] = "queued" =>
        \/ \E q \in Ids : m \in queue[q]
        \/ \E n \in Nodes : m \in unacked[n] /\ proc[n] = "up"

\* Every frame ForwardMessage published to a queue is eventually taken by
\* a forwardMessage worker and acked (written or dropped), across crashes
\* at any step: the broker requeues unacked deliveries and the restarted
\* node consumes the same queue because generateServerId reuses its file.
RelayHandled ==
    \A m \in Msgs : status[m] = "queued" ~> status[m] \in {"written", "dropped"}

\* Spec 4.6: the node id survives restarts so that presence lookups stay
\* addressable.  Every presence key, including one a crashed node left
\* behind, and every queue holding frames names an existing queue whose
\* id some node's id file still holds, so the node consumes it when it
\* restarts (generateServerId reuses the file, server.go:105).
OrphanFree ==
    /\ \A u \in Users : presence[u] # None =>
          /\ presence[u] \in declared
          /\ \E n \in Nodes : file[n] = presence[u]
    /\ \A q \in Ids : queue[q] # {} => \E n \in Nodes : file[n] = q

====
