CONSTANTS
    auth = auth
    hello = hello
    fwd = fwd
    confirm = confirm
    hx = hx
    iHello = iHello
    iChat = iChat
    iAck = iAck
    iOther = iOther
    Handlers <- MCHandlers
    Ids <- MCIds
    Programs <- MCPrograms
    Behaviours <- MCBehaviours
    Typed <- MCTyped
    Returns <- MCReturns
    RespSet <- MCRespSet
    ReplyId <- MCReplyId
SPECIFICATION Spec
\* A registration panic ends the process: no step follows it.
CHECK_DEADLOCK FALSE
INVARIANT RunIsReference
