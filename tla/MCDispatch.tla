---------------------------- MODULE MCDispatch ----------------------------
(* Registration programs of route/register.go and variants of it.         *)
EXTENDS Dispatch, TLC

CONSTANTS auth, hello, fwd, confirm, hx, iHello, iChat, iAck, iOther

MCHandlers == {auth, hello, fwd, confirm, hx}
MCIds == {iHello, iChat, iAck, iOther}

UseOp(g, hs) == [op |-> "use", g |-> g, hs |-> hs, id |-> None, h |-> None, sig |-> None]
GroupOp(g, hs) == [op |-> "group", g |-> g, hs |-> hs, id |-> None, h |-> None, sig |-> None]
\* HandlerAnyFunc(id, h), h with signature sig; HandlerFunc has none.
AnyOp(g, i, h, sig) == [op |-> "any", g |-> g, hs |-> <<>>, id |-> i, h |-> h, sig |-> sig]

\* The signatures of register.go's typed handlers: the Hello closure and
\* ForwardMessage take (ctx, message) and return a message pointer;
\* ConfirmMessage returns nothing.
Sig(ins, outs) == [fn |-> TRUE, in |-> ins, out |-> outs]
MCSig == [h \in {hello, fwd, confirm} |->
             IF h = confirm THEN Sig(<<"ctx", "msg">>, <<>>)
                            ELSE Sig(<<"ctx", "msg">>, <<"msg">>)]
FuncOp(g, i, h) == AnyOp(g, i, h, MCSig[h])

\* register.go with mode != "test": Use(CheckAuthMiddleware), then the
\* Hello, SingleChatMessage and SingleChatAck bindings.
ProdProgram ==
    <<UseOp(0, <<auth>>), FuncOp(0, iHello, hello),
      FuncOp(0, iChat, fwd), FuncOp(0, iAck, confirm)>>

\* register.go in test mode: no middleware.
TestProgram ==
    <<FuncOp(0, iHello, hello), FuncOp(0, iChat, fwd), FuncOp(0, iAck, confirm)>>

\* A group with its own middleware, created after a root binding.
GroupProgram ==
    <<UseOp(0, <<auth>>), FuncOp(0, iHello, hello), GroupOp(0, <<hx>>),
      FuncOp(3, iChat, fwd), FuncOp(3, iAck, confirm)>>

\* A duplicate id, Use / Group calls past the 127-handler limit, and
\* typed handlers returning a non-message pointer or taking a value.
TooMany == [k \in 1..AbortIndex |-> hx]
BadPrograms ==
    { <<FuncOp(0, iHello, hello), FuncOp(0, iHello, fwd)>>,
      <<UseOp(0, <<auth>>), AnyOp(0, iHello, hello, Sig(<<"ctx", "msg">>, <<"ptr">>))>>,
      <<AnyOp(0, iChat, fwd, Sig(<<"ctx", "val">>, <<>>))>>,
      <<UseOp(0, <<auth>>), UseOp(0, TooMany)>>,
      <<UseOp(0, <<auth>>), GroupOp(0, TooMany)>> }

MCPrograms == {ProdProgram, TestProgram, GroupProgram} \cup BadPrograms

\* What a handler may do on a frame: CheckAuthMiddleware returns or
\* aborts; a handler may also call Next.
MCBehaviours == [MCHandlers -> {"ret", "abort", "next"}]

\* register.go: Hello, ForwardMessage and ConfirmMessage are bound with
\* HandlerAnyFunc; the first two return a message, and only the Hello
\* binding calls SetRespId (HelloReply = 2).  The client expects
\* HelloReply and SingleChatAck (= 10003) on their replies (reqrespid.go).
MCTyped == {hello, fwd, confirm}
MCReturns == {hello, fwd}
MCRespSet == [h \in MCHandlers |-> IF h = hello THEN 2 ELSE 0]
MCReplyId == (hello :> 2) @@ (fwd :> 10003)

=============================================================================
