---------------------------- MODULE Connection ----------------------------
(***************************************************************************)
(* One accepted connection of a chat-server node, from the end of Auth to  *)
(* the end of the process.                                                 *)
(*                                                                         *)
(* Client.Write (chatserver/client.go) puts a frame on the buffered        *)
(* channel ch, blocking while it is full.  startClientWriter (server.go)   *)
(* is the one goroutine that takes frames off ch and writes them to the    *)
(* websocket; it returns when the connection's context is done, and Go's   *)
(* select picks either case when both are ready.  The reader loop of       *)
(* websocketHandler runs until a read fails and then runs its deferred     *)
(* calls last-in first-out: cancelFunc (the writer's context), the close   *)
(* handler (Del of the presence key and of the ClientManager entry), then  *)
(* conn.Close.                                                             *)
(*                                                                         *)
(* ChatServer.Shutdown cancels the server context (every writer's parent), *)
(* runs http.Server.Shutdown, which starts the OnShutdown hook             *)
(* ClientManager.Clear in its own goroutine, waits for the writer          *)
(* goroutines, and returns; main then returns and the process ends.        *)
(***************************************************************************)
EXTENDS Naturals, Sequences, SequencesExt

CONSTANTS
    Frames,        \* frames handed to Write, each once
    ReaderFrames,  \* those written by the connection's own handlers (acks)
    Cap            \* capacity of ch (1024)

None == "none"

VARIABLES
    ch,          \* Client.ch
    waiting,     \* frames whose Write is blocked on a full ch
    called,      \* frames whose Write has been called (history)
    inflight,    \* the frame the writer took off ch and is writing
    wire,        \* frames the peer received, in order
    sockOpen,    \* the websocket is open (neither side closed it)
    ctxDone,     \* the writer's context is cancelled
    writer,      \* "run" or "exit": the startClientWriter goroutine
    reader,      \* "loop", then the deferred calls: "cancel", "cleanup", "close", "done"
    registered,  \* the ClientManager holds this connection
    presence,    \* the Redis key chat:client:<id> names this node
    shut,        \* "up", "cancelled", "waiting" (in Shutdown), "exited"
    clearing     \* the OnShutdown goroutine: "none", "pending", "done"

queueVars == <<ch, waiting, called, inflight, wire>>
readerVars == <<sockOpen, ctxDone, writer, reader>>
nodeVars == <<registered, presence, shut, clearing>>
vars == <<queueVars, readerVars, nodeVars>>

\* Auth has passed: the key is set, the client is in the ClientManager,
\* and the writer goroutine has been started.
Init ==
    /\ ch = <<>> /\ waiting = {} /\ called = {} /\ inflight = None
    /\ wire = <<>>
    /\ sockOpen = TRUE /\ ctxDone = FALSE
    /\ writer = "run" /\ reader = "loop"
    /\ registered = TRUE /\ presence = TRUE
    /\ shut = "up" /\ clearing = "none"

\* Every goroutine of the process stops when main returns.
Alive == shut # "exited"

\* The connection's handler is blocked in a Write of its own.
ReaderBlocked == waiting \cap ReaderFrames # {}

-----------------------------------------------------------------------------
(* Client.Write / WriteData / WriteProtoMessage / WriteMessage.           *)

\* A handler of this connection (while its reader loop runs a frame) or
\* any other goroutine holding the *Client (a forwarder, a consumer, a
\* retry worker) calls Write.
WriteCall(f) ==
    /\ Alive /\ f \notin called
    /\ f \in ReaderFrames => reader = "loop" /\ ~ReaderBlocked
    /\ called' = called \cup {f}
    /\ waiting' = waiting \cup {f}
    /\ UNCHANGED <<ch, inflight, wire, readerVars, nodeVars>>

\* c.ch <- writeData{...}: the send completes once ch has room.
Enqueue(f) ==
    /\ Alive /\ f \in waiting /\ Len(ch) < Cap
    /\ ch' = Append(ch, f)
    /\ waiting' = waiting \ {f}
    /\ UNCHANGED <<called, inflight, wire, readerVars, nodeVars>>

-----------------------------------------------------------------------------
(* startClientWriter.                                                      *)

\* case res := <-conn.ch
Take ==
    /\ Alive /\ writer = "run" /\ inflight = None /\ ch # <<>>
    /\ inflight' = Head(ch)
    /\ ch' = Tail(ch)
    /\ UNCHANGED <<waiting, called, wire, readerVars, nodeVars>>

\* wsc.WriteMessage: the error of a write to a closed websocket is
\* ignored and the frame is gone.
Send ==
    /\ Alive /\ inflight # None
    /\ wire' = IF sockOpen THEN Append(wire, inflight) ELSE wire
    /\ inflight' = None
    /\ UNCHANGED <<ch, waiting, called, readerVars, nodeVars>>

\* Bug variant of WriterExit: the writer also returns when ch is empty.
WriterIdleExit ==
    /\ Alive /\ writer = "run" /\ inflight = None
    /\ ctxDone \/ ch = <<>>
    /\ writer' = "exit"
    /\ UNCHANGED <<queueVars, sockOpen, ctxDone, reader, nodeVars>>

\* case <-ctx.Done(): return
WriterExit ==
    /\ Alive /\ writer = "run" /\ inflight = None /\ ctxDone
    /\ writer' = "exit"
    /\ UNCHANGED <<queueVars, sockOpen, ctxDone, reader, nodeVars>>

-----------------------------------------------------------------------------
(* websocketHandler's reader loop and its deferred calls.                  *)

\* The peer closes the websocket or goes away, or another goroutine calls
\* Client.Close (invalidOperation of a handler).
PeerClose ==
    /\ Alive /\ sockOpen
    /\ sockOpen' = FALSE
    /\ UNCHANGED <<queueVars, ctxDone, writer, reader, nodeVars>>

\* ReadMessage fails (timeout, close frame, closed socket), or a frame is
\* too short or has no handler: the loop returns.  A handler blocked in
\* Write is not reading.
ReadFail ==
    /\ Alive /\ reader = "loop" /\ ~ReaderBlocked
    /\ reader' = "cancel"
    /\ UNCHANGED <<queueVars, sockOpen, ctxDone, writer, nodeVars>>

\* defer cancelFunc()
DeferCancel ==
    /\ Alive /\ reader = "cancel"
    /\ ctxDone' = TRUE
    /\ reader' = "cleanup"
    /\ UNCHANGED <<queueVars, sockOpen, writer, nodeVars>>

\* defer s.afterClientCloseHandler(cli): ClientCloseHandler deletes the
\* presence key and the ClientManager entry.
DeferCloseHandler ==
    /\ Alive /\ reader = "cleanup"
    /\ presence' = FALSE
    /\ registered' = FALSE
    /\ reader' = "close"
    /\ UNCHANGED <<queueVars, sockOpen, ctxDone, writer, shut, clearing>>

\* defer conn.Close()
DeferClose ==
    /\ Alive /\ reader = "close"
    /\ sockOpen' = FALSE
    /\ reader' = "done"
    /\ UNCHANGED <<queueVars, ctxDone, writer, nodeVars>>

-----------------------------------------------------------------------------
(* ChatServer.Shutdown and the OnShutdown hook.                            *)

\* s.cancel(): the server context, parent of every writer's context.
ServerCancel ==
    /\ shut = "up"
    /\ shut' = "cancelled"
    /\ ctxDone' = TRUE
    /\ UNCHANGED <<queueVars, sockOpen, writer, reader, registered, presence,
                   clearing>>

\* s.ws.Shutdown: close the listener and start ClientManager.Clear in a
\* goroutine; hijacked websockets are not waited for.
HttpShutdown ==
    /\ shut = "cancelled"
    /\ shut' = "waiting"
    /\ clearing' = "pending"
    /\ UNCHANGED <<queueVars, readerVars, registered, presence>>

\* Clear: Close every registered client and start from an empty map.
Clear ==
    /\ Alive /\ clearing = "pending"
    /\ clearing' = "done"
    /\ sockOpen' = (sockOpen /\ ~registered)
    /\ registered' = FALSE
    /\ UNCHANGED <<queueVars, ctxDone, writer, reader, presence, shut>>

\* s.waitgroup.Wait() returns once the writers have exited; Shutdown
\* returns and so does main.
Exit ==
    /\ shut = "waiting" /\ writer = "exit"
    /\ shut' = "exited"
    /\ UNCHANGED <<queueVars, readerVars, registered, presence, clearing>>

-----------------------------------------------------------------------------
Next ==
    \/ \E f \in Frames : WriteCall(f) \/ Enqueue(f)
    \/ Take \/ Send \/ WriterExit
    \/ PeerClose \/ ReadFail \/ DeferCancel \/ DeferCloseHandler \/ DeferClose
    \/ ServerCancel \/ HttpShutdown \/ Clear \/ Exit

Spec == Init /\ [][Next]_vars

\* Goroutines that have started keep running: the writer, a blocked
\* sender once ch has room, the reader's deferred calls, the OnShutdown
\* goroutine and Shutdown itself.  Nothing forces a read to fail, a peer
\* to close, a Write to be called or a shutdown to begin.
FairSpec ==
    /\ Spec
    /\ WF_vars(Take) /\ WF_vars(Send) /\ WF_vars(WriterExit)
    /\ \A f \in Frames : WF_vars(Enqueue(f))
    /\ WF_vars(DeferCancel) /\ WF_vars(DeferCloseHandler) /\ WF_vars(DeferClose)
    /\ WF_vars(HttpShutdown) /\ WF_vars(Clear) /\ WF_vars(Exit)

-----------------------------------------------------------------------------
(* Properties.                                                             *)

\* The write path implements Outbox: the queue is the frame being written
\* followed by ch; the writer is halted once its context is cancelled.
OB == INSTANCE Outbox WITH
        queue <- IF inflight = None THEN ch ELSE <<inflight>> \o ch,
        open <- sockOpen,
        halted <- ctxDone \/ ~Alive

\* Frames of one connection reach the peer once each, in the order their
\* Writes entered ch, none after the websocket closed; and until the
\* writer's context is cancelled every queued frame is written or lost
\* to a closed websocket (spec 2 and 5: single writer, FIFO queue).
WritePathRefinesOutbox == OB!Spec

=============================================================================
