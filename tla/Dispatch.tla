----------------------------- MODULE Dispatch -----------------------------
(***************************************************************************)
(* The handler registry and chain dispatch of handler.go, context.go and   *)
(* handlergroup.go.                                                        *)
(*                                                                         *)
(* At start-up a registration program calls Use, HandlerFunc /             *)
(* HandlerAnyFunc and Group on the root ProtoHandlerGroup.  Each group     *)
(* keeps one chain slice: Use appends middleware to it, HandlerFunc        *)
(* appends the handler to it and stores the result as the chain of the     *)
(* id, and Group starts a new group from a copy of the root chain.  A      *)
(* duplicate id, or a Use or Group that passes abortIndex - 1 handlers,    *)
(* panics.  Then each frame runs messageHandler.handle: the chain is run   *)
(* with a uint8 cursor, Abort sets the cursor to abortIndex + 1, and Next  *)
(* runs the rest of the chain from inside a handler.                       *)
(*                                                                         *)
(* Handlers are abstract: on each frame a handler returns, aborts or calls *)
(* Next, as the frame's behaviour says.  A handler bound by HandlerAnyFunc *)
(* runs inside its reflective wrapper: the payload is decoded first (a     *)
(* malformed frame panics), and a returned message is written tagged with  *)
(* the Context's respId, which must have been set by then (else a panic). *)
(* net/http recovers a panic of the connection's goroutine and the         *)
(* connection closes.                                                      *)
(***************************************************************************)
EXTENDS Naturals, Sequences, SequencesExt, FiniteSets

CONSTANTS
    Handlers,     \* handler functions
    Ids,          \* message type ids a frame may carry
    Programs,     \* registration programs: sequences of Op records
    Behaviours,   \* [Handlers -> {"ret", "abort", "next"}] per frame
    Typed,        \* handlers bound by HandlerAnyFunc
    Returns,      \* the typed ones whose function returns a message
    RespSet,      \* [Handlers -> Nat]: the id a handler passes to SetRespId,
                  \* 0 if it does not call it
    ReplyId       \* [Returns -> Nat]: the type id the client expects on
                  \* that handler's reply

\* const abortIndex uint8 = math.MaxUint8/2 + 1
AbortIndex == 255 \div 2 + 1

\* Go's uint8 conversion and increment.
U8(x) == x % 256

\* Group 0 is the root; the Group call at program step k creates group k.
Groups(prog) == 0..Len(prog)

None == "none"

VARIABLES
    prog,     \* the registration program run at start-up
    pc,       \* the next step of prog
    crashed,  \* a registration panicked: the process exits
    chain,    \* [Groups -> Seq(Handlers)]: each ProtoHandlerGroup.chain
    table,    \* messageHandler.handlers: [Ids -> Seq(Handlers)], <<>> if absent
    last      \* {} or {the last frame dispatched and what handle did with it}

vars == <<prog, pc, crashed, chain, table, last>>

Init ==
    /\ prog \in Programs
    /\ pc = 1
    /\ crashed = FALSE
    /\ chain = [g \in Groups(prog) |-> <<>>]
    /\ table = [i \in Ids |-> <<>>]
    /\ last = {}

Op == prog[pc]
Starting == ~crashed /\ pc <= Len(prog)
Step == pc' = pc + 1

-----------------------------------------------------------------------------
(* Registration.                                                           *)

\* ProtoHandlerGroup.Use: panics when the chain would pass abortIndex - 1.
RegUse ==
    LET g == Op.g IN
    /\ Starting
    /\ Op.op = "use"
    /\ IF Len(chain[g]) + Len(Op.hs) > AbortIndex - 1
         THEN crashed' = TRUE /\ UNCHANGED chain
         ELSE chain' = [chain EXCEPT ![g] = @ \o Op.hs] /\ UNCHANGED crashed
    /\ Step
    /\ UNCHANGED <<prog, table, last>>

\* HandlerAnyFunc's checks of the handler's signature, before it is
\* bound (a panic otherwise): a func with one or two parameters, each a
\* pointer to Context or to a proto.Message, and at most two results; a
\* single result must be a pointer to a proto.Message, two are not checked.
\* A signature is [fn, in, out], in and out sequences of parameter kinds:
\* "ctx", "msg" (pointer to a proto.Message), "ptr" (another pointer) or
\* "val" (not a pointer).
SignatureOk(sig) ==
    /\ sig.fn
    /\ Len(sig.in) \in 1..2
    /\ Len(sig.out) <= 2
    /\ \A k \in 1..Len(sig.in) : sig.in[k] \in {"ctx", "msg"}
    /\ Len(sig.out) = 1 => sig.out[1] = "msg"

\* HandlerFunc and HandlerAnyFunc: h.chain = append(h.chain, handler),
\* then addHandlers(id, h.chain), which panics on a duplicate id.  The
\* group's chain keeps the handler, so later ids inherit it.
RegFunc ==
    LET g == Op.g
        c == Append(chain[g], Op.h)
    IN
    /\ Starting
    /\ Op.op \in {"func", "any"}
    /\ IF Op.op = "any" /\ ~SignatureOk(Op.sig)
         THEN crashed' = TRUE /\ UNCHANGED <<chain, table>>
         ELSE /\ chain' = [chain EXCEPT ![g] = c]
              /\ IF table[Op.id] # <<>>
                   THEN crashed' = TRUE /\ UNCHANGED table
                   ELSE table' = [table EXCEPT ![Op.id] = c] /\ UNCHANGED crashed
    /\ Step
    /\ UNCHANGED <<prog, last>>

\* Group: combineRootGroup copies the parent's chain (panicking past the
\* limit), then Use adds the group's middleware.
RegGroup ==
    LET g == Op.g IN
    /\ Starting
    /\ Op.op = "group"
    /\ IF \/ Len(chain[g]) > AbortIndex - 1
          \/ Len(chain[g]) + Len(Op.hs) > AbortIndex - 1
         THEN crashed' = TRUE /\ UNCHANGED chain
         ELSE chain' = [chain EXCEPT ![pc] = chain[g] \o Op.hs] /\ UNCHANGED crashed
    /\ Step
    /\ UNCHANGED <<prog, table, last>>

-----------------------------------------------------------------------------
(* messageHandler.handle and Context.Abort / Next.                         *)
(* A run is a record: the uint8 cursor, the handlers invoked so far, the   *)
(* Context's respId, the frames written back, whether a panic unwound it,  *)
(* and whether the payload fails to decode.                                *)

RECURSIVE Call(_, _, _), NextLoop(_, _, _), HandleLoop(_, _, _)

\* newContext takes a Context from ctxPool; freeContext cleared its cursor
\* and respId before putting it back.
NewRun(bad) ==
    [idx |-> 0, trace |-> <<>>, resp |-> 0, out |-> <<>>, panic |-> FALSE,
     bad |-> bad]

\* The wrapper's argument binding: proto.Unmarshal of the payload into the
\* request type, panic(err) when it fails.
Decode(h, st) == IF h \in Typed /\ st.bad THEN [st EXCEPT !.panic = TRUE] ELSE st

\* The wrapper after the call: no result, or a nil interface, returns; a
\* result with respId 0 panics; otherwise WriteProtoMessage(respId, result).
\* A nil *pb.ChatAck is a non-nil interface and is written too.
Respond(h, st) ==
    CASE h \notin Returns \/ st.panic -> st
      [] st.resp = 0 -> [st EXCEPT !.panic = TRUE]
      [] OTHER -> [st EXCEPT !.out = Append(@, [h |-> h, id |-> st.resp])]

\* Bug variant of Abort: the sentinel is math.MaxUint8, which the loop's
\* increment wraps to 0.
AbortAtMax(st) == [st EXCEPT !.idx = 255]

\* Context.Abort: chainIndex = abortIndex + 1.
Abort(st) == [st EXCEPT !.idx = AbortIndex + 1]

\* More invocations than the chain has handlers: the cursor wrapped and
\* the chain is running again.  The run is cut there.
Runaway(c, st) == Len(st.trace) > Len(c)

\* Invoke c[idx] (Go index idx) with the frame's behaviour for it; a
\* handler that calls SetRespId does so before it returns or calls Next.
Call(c, b, st) ==
    LET h == c[st.idx + 1]
        s0 == Decode(h, [st EXCEPT !.trace = Append(@, h)])
        s1 == IF RespSet[h] = 0 THEN s0 ELSE [s0 EXCEPT !.resp = RespSet[h]]
    IN IF s0.panic THEN s0
       ELSE Respond(h, CASE b[h] = "ret" -> s1
                         [] b[h] = "abort" -> Abort(s1)
                         [] b[h] = "next" -> NextLoop(c, b, [s1 EXCEPT !.idx = U8(@ + 1)]))

\* Context.Next: chainIndex++, then run the rest of the chain here.
NextLoop(c, b, st) ==
    IF st.idx < U8(Len(c)) /\ ~Runaway(c, st) /\ ~st.panic
      THEN NextLoop(c, b, [Call(c, b, st) EXCEPT !.idx = U8(@ + 1)])
      ELSE st

\* handle's loop: for ; chainIndex < uint8(len(chain)); chainIndex++.
HandleLoop(c, b, st) ==
    IF st.idx < U8(Len(c)) /\ ~Runaway(c, st) /\ ~st.panic
      THEN HandleLoop(c, b, [Call(c, b, st) EXCEPT !.idx = U8(@ + 1)])
      ELSE st

\* A frame with type id i: an absent or empty chain returns
\* NoSuchHandlersError, on which the reader loop returns and the
\* connection closes; otherwise a pooled Context runs the chain, and a
\* panic in it closes the connection.
Handle(i, b, bad) ==
    /\ ~crashed
    /\ pc > Len(prog)
    /\ last' = IF table[i] = <<>>
                 THEN {[id |-> i, beh |-> b, bad |-> bad, trace |-> <<>>,
                        out |-> <<>>, closed |-> TRUE]}
                 ELSE LET run == HandleLoop(table[i], b, NewRun(bad))
                      IN {[id |-> i, beh |-> b, bad |-> bad, trace |-> run.trace,
                           out |-> run.out, closed |-> run.panic]}
    /\ UNCHANGED <<prog, pc, crashed, chain, table>>

-----------------------------------------------------------------------------
Next ==
    \/ RegUse \/ RegFunc \/ RegGroup
    \/ \E i \in Ids, b \in Behaviours, bad \in BOOLEAN : Handle(i, b, bad)

Spec == Init /\ [][Next]_vars

-----------------------------------------------------------------------------
(* Properties.                                                             *)

\* What spec 4.2 / 8 says a run of chain c is: every handler once, in
\* order, up to and including the first that aborts.
RefRun(c, b) ==
    LET stops == {k \in 1..Len(c) : b[c[k]] = "abort"}
        first == CHOOSE k \in stops : \A j \in stops : k <= j
    IN IF stops = {} THEN c ELSE SubSeq(c, 1, first)

\* handle, Abort and Next run a registered chain exactly as RefRun says:
\* no handler twice, none after an Abort, none skipped; a panic (spec 7:
\* a protocol error closes the connection) cuts the run short.
RunIsReference ==
    \A l \in last : table[l.id] # <<>> =>
        IF l.closed THEN IsPrefix(l.trace, RefRun(table[l.id], l.beh))
                    ELSE l.trace = RefRun(table[l.id], l.beh)

\* Every typed handler that returns a message and ran on a well-formed
\* frame has its reply written under the id the client dispatches it by:
\* ForwardMessage's ChatAck as SingleChatAck (spec 4.5: ack returned to
\* the sender; the simple client registers HandleSingleChatAck for it).
ReplyTagged ==
    \A l \in last : ~l.bad =>
        \A h \in Range(l.trace) \cap Returns :
            [h |-> h, id |-> ReplyId[h]] \in Range(l.out)

=============================================================================
