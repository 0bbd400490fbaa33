--------------------------- MODULE RetryHandler ---------------------------
(***************************************************************************)
(* The retry scheduler of the chat server                                  *)
(* (src/cmd/chatserver/internal/handlers/retryhandler.go).                 *)
(*                                                                         *)
(* After a chat frame is written to a recipient's connection, the          *)
(* forwarder calls Add(recipient).  Add consults the membership set        *)
(* `items`, and if the recipient is not a member it sets it and pushes a   *)
(* RetryItem on a mutex-guarded min-heap.  One scheduling goroutine        *)
(* (handleRetry) pops items, discards those whose recipient is no longer a *)
(* member, sleeps until an item is due, and then calls retry: it sends the *)
(* recipient id on the channel `ch` and either drops the membership (the   *)
(* last attempt) or re-pushes the item with a later trigger.  A pool of    *)
(* workers (retryWorker) takes ids from `ch` and writes a NewMessage frame *)
(* to the recipient if it is connected to this node.  Remove(recipient)    *)
(* (on a client ack) only deletes the membership: heap entries are removed *)
(* lazily when popped.                                                     *)
(*                                                                         *)
(* Each RetryItem is a pointer in Go; here it is an index into `pool`.     *)
(* Time is kept relative to now: an item's `due` is the number of clock    *)
(* ticks until its trigger, clamped at 0 once the trigger has passed.      *)
(***************************************************************************)
EXTENDS Naturals, Sequences, FiniteSets, Functions

CONSTANTS
    Users,      \* user ids that can receive chat frames on this node
    Callers,    \* goroutines that call Add: reader loops and MQ consumers
    Workers,    \* the retryWorker goroutines
    MaxRetry,   \* RetryHandler.maxRetry (route/register.go passes 5)
    ChanCap,    \* capacity of RetryHandler.ch (1024*1024 in the code)
    MaxArms     \* bound on the number of Add calls in a behaviour

ASSUME
    /\ MaxRetry \in Nat \ {0}
    /\ ChanCap \in Nat \ {0}
    /\ MaxArms \in Nat

\* The nil *RetryItem.
NoItem == 0

\* MinRetryDuration, one second, is one tick.
MinRetryDuration == 1

VARIABLES
    items,     \* the ConcurrentSet of armed user ids
    pool,      \* every RetryItem ever allocated: [id, retried, due]
    heap,      \* the pointers currently stored in MinHeap
    spc,       \* where handleRetry is: "pop", "check", "send", "tail", "sleep"
    cur,       \* the item handleRetry holds after popping it
    nextItem,  \* RetryHandler.nextItem: the item it sleeps for
    wake,      \* ticks left of the time.Sleep(s) in progress
    ch,        \* RetryHandler.ch, a buffered channel of user ids
    caller,    \* [Callers -> [pc, u]]: progress of an Add call
    alive,     \* the set of retryWorker goroutines still running
    online,    \* users ClientManagerInstance.Get resolves on this node
    nudged,    \* users that were written a NewMessage frame
    arms,      \* number of Add calls started
    awaiting   \* history: users whose Add took effect (found the user
               \* armed, or set it) and who were neither notified nor
               \* removed since

schedVars == <<pool, heap, spc, cur, nextItem, wake>>
envVars == <<caller, alive, online, nudged, arms>>
vars == <<items, schedVars, ch, envVars, awaiting>>

RetryItem == [id: Users, retried: 0..MaxRetry, due: 0..MaxRetry]

\* A pointer handleRetry can still act on: in the heap or held by it.
Held == (heap \cup {cur, nextItem}) \ {NoItem}

\* The items that will trigger a retry for user u.
Entries(u) == {p \in Held : pool[p].id = u}

TypeOK ==
    /\ items \subseteq Users
    /\ pool \in Seq(RetryItem)
    /\ \A p \in DOMAIN pool : pool[p].retried < MaxRetry
    /\ heap \subseteq DOMAIN pool
    /\ spc \in {"pop", "check", "send", "tail", "sleep"}
    /\ {cur, nextItem} \subseteq DOMAIN pool \cup {NoItem}
    /\ wake \in 0..MaxRetry
    /\ ch \in Seq(Users) /\ Len(ch) <= ChanCap
    /\ caller \in [Callers -> [pc: {"idle", "set", "push"}, u: Users]]
    /\ alive \subseteq Workers
    /\ online \subseteq Users
    /\ nudged \subseteq Users
    /\ arms \in 0..MaxArms
    /\ awaiting \subseteq Users

Init ==
    /\ items = {}
    /\ pool = <<>>
    /\ heap = {}
    /\ spc = "pop"
    /\ cur = NoItem
    /\ nextItem = NoItem
    /\ wake = 0
    /\ ch = <<>>
    /\ caller \in [Callers -> [pc: {"idle"}, u: Users]]
    /\ alive = Workers
    /\ online \in SUBSET Users
    /\ nudged = {}
    /\ arms = 0
    /\ awaiting = {}

-----------------------------------------------------------------------------
(* Add(userId): IsSet, then Set, then Push under hlock and Signal.  The    *)
(* check and the set are separate calls on the ConcurrentSet.  The caller  *)
(* has just written the frame to the recipient's connection, so the        *)
(* recipient was found in the ClientManager.                               *)

AddIsSet(c, u) ==
    /\ caller[c].pc = "idle"
    /\ arms < MaxArms
    /\ u \in online
    /\ arms' = arms + 1
    /\ IF u \in items
         THEN /\ awaiting' = awaiting \cup {u}
              /\ UNCHANGED caller
         ELSE /\ caller' = [caller EXCEPT ![c] = [pc |-> "set", u |-> u]]
              /\ UNCHANGED awaiting
    /\ UNCHANGED <<items, schedVars, ch, alive, online, nudged>>

AddSet(c) ==
    /\ caller[c].pc = "set"
    /\ items' = items \cup {caller[c].u}
    /\ awaiting' = awaiting \cup {caller[c].u}
    /\ caller' = [caller EXCEPT ![c].pc = "push"]
    /\ UNCHANGED <<schedVars, ch, alive, online, nudged, arms>>

\* heap.Push of a fresh item; the Signal only matters to a scheduler
\* blocked on an empty heap, which SchedPop models by its guard.
AddPush(c) ==
    LET u == caller[c].u IN
    /\ caller[c].pc = "push"
    /\ pool' = Append(pool, [id |-> u, retried |-> 0, due |-> MinRetryDuration])
    /\ heap' = heap \cup {Len(pool) + 1}
    /\ caller' = [caller EXCEPT ![c].pc = "idle"]
    /\ UNCHANGED <<items, spc, cur, nextItem, wake, ch, alive, online, nudged,
                   arms, awaiting>>

\* Remove(userId), called by ConfirmMessage on the recipient's own
\* connection after the record is marked read.
Remove(u) ==
    /\ u \in online
    /\ items' = items \ {u}
    /\ awaiting' = awaiting \ {u}
    /\ UNCHANGED <<schedVars, ch, envVars>>

-----------------------------------------------------------------------------
(* handleRetry and retry.                                                   *)

\* MinHeap orders items by nextTrigger; among equal triggers any may be
\* popped first.
Earliest(p) == \A q \in heap : pool[p].due <= pool[q].due

\* Lock, wait while the heap is empty, heap.Pop the earliest item, unlock.
SchedPop ==
    /\ spc = "pop"
    /\ heap # {}
    /\ \E p \in heap :
          /\ Earliest(p)
          /\ heap' = heap \ {p}
          /\ cur' = p
    /\ spc' = "check"
    /\ UNCHANGED <<items, pool, nextItem, wake, ch, envVars, awaiting>>

\* Bug variant of SchedCheck: an item that is not yet due is dropped (a
\* `continue` in place of saving it as nextItem).
SchedCheckDropEarly ==
    LET it == pool[cur] IN
    /\ spc = "check"
    /\ \/ /\ it.id \notin items \/ it.due > 0
          /\ cur' = NoItem
          /\ spc' = "pop"
       \/ /\ it.id \in items
          /\ it.due = 0
          /\ spc' = "send"
          /\ UNCHANGED cur
    /\ UNCHANGED <<items, pool, heap, nextItem, wake, ch, envVars, awaiting>>

\* Discard a removed item, or sleep until it is due, or retry it now.
SchedCheck ==
    LET it == pool[cur] IN
    /\ spc = "check"
    /\ \/ /\ it.id \notin items
          /\ cur' = NoItem
          /\ spc' = "pop"
          /\ UNCHANGED <<nextItem, wake>>
       \/ /\ it.id \in items
          /\ it.due > 0
          /\ nextItem' = cur
          /\ cur' = NoItem
          /\ wake' = it.due
          /\ spc' = "sleep"
       \/ /\ it.id \in items
          /\ it.due = 0
          /\ spc' = "send"
          /\ UNCHANGED <<cur, nextItem, wake>>
    /\ UNCHANGED <<items, pool, heap, ch, envVars, awaiting>>

\* The end of time.Sleep(s): back at the top of the loop, nextItem is
\* retried if its user is still a member and dropped otherwise.
SchedWake ==
    /\ spc = "sleep"
    /\ wake = 0
    /\ nextItem' = NoItem
    /\ IF pool[nextItem].id \in items
         THEN cur' = nextItem /\ spc' = "send"
         ELSE cur' = NoItem /\ spc' = "pop"
    /\ UNCHANGED <<items, pool, heap, wake, ch, envVars, awaiting>>

\* retry: r.ch <- item.id, blocking while the channel is full.
SchedSend ==
    LET u == pool[cur].id IN
    /\ spc = "send"
    /\ Len(ch) < ChanCap
    /\ ch' = Append(ch, u)
    /\ awaiting' = awaiting \ {u}
    /\ spc' = "tail"
    /\ UNCHANGED <<items, pool, heap, cur, nextItem, wake, envVars>>

\* Bug variant of SchedTail: the give-up test is off by one
\* (retried+1 > maxRetry), so an item is retried once too often.
SchedTailLate ==
    LET it == pool[cur] IN
    /\ spc = "tail"
    /\ IF it.retried + 1 > MaxRetry
         THEN /\ items' = items \ {it.id}
              /\ UNCHANGED <<pool, heap>>
         ELSE /\ pool' = [pool EXCEPT ![cur] = [@ EXCEPT !.retried = @ + 1,
                                                        !.due = it.retried + 1]]
              /\ heap' = heap \cup {cur}
              /\ UNCHANGED items
    /\ cur' = NoItem
    /\ spc' = "pop"
    /\ UNCHANGED <<nextItem, wake, ch, envVars, awaiting>>

\* The rest of retry: give up after the last attempt, else re-push the
\* item with retried+1 and a trigger retried+1 seconds from now.
SchedTail ==
    LET it == pool[cur] IN
    /\ spc = "tail"
    /\ IF it.retried + 1 >= MaxRetry
         THEN /\ items' = items \ {it.id}
              /\ UNCHANGED <<pool, heap>>
         ELSE /\ pool' = [pool EXCEPT ![cur] = [@ EXCEPT !.retried = @ + 1,
                                                        !.due = it.retried + 1]]
              /\ heap' = heap \cup {cur}
              /\ UNCHANGED items
    /\ cur' = NoItem
    /\ spc' = "pop"
    /\ UNCHANGED <<nextItem, wake, ch, envVars, awaiting>>

\* retryWorker: take an id; a user not on this node makes the worker
\* return, otherwise a NewMessage frame is written to its connection.
WorkerTake(w) ==
    LET u == Head(ch) IN
    /\ w \in alive
    /\ ch # <<>>
    /\ ch' = Tail(ch)
    /\ IF u \in online
         THEN nudged' = nudged \cup {u} /\ UNCHANGED alive
         ELSE alive' = alive \ {w} /\ UNCHANGED nudged
    /\ UNCHANGED <<items, schedVars, caller, online, arms, awaiting>>

-----------------------------------------------------------------------------
(* The environment: the clock and the ClientManager.                       *)

Dec(n) == IF n > 0 THEN n - 1 ELSE 0

\* One second passes for every pending trigger and for the sleeper.
Tick ==
    /\ \E p \in Held : pool[p].due > 0
    /\ pool' = [p \in DOMAIN pool |->
                   IF p \in Held THEN [pool[p] EXCEPT !.due = Dec(@)]
                                 ELSE pool[p]]
    /\ wake' = Dec(wake)
    /\ UNCHANGED <<items, heap, spc, cur, nextItem, ch, envVars, awaiting>>

\* A user's connection is registered (Auth) or removed (ClientCloseHandler).
Connect(u) ==
    /\ u \notin online
    /\ online' = online \cup {u}
    /\ UNCHANGED <<items, schedVars, ch, caller, alive, nudged, arms,
                   awaiting>>

Disconnect(u) ==
    /\ u \in online
    /\ online' = online \ {u}
    /\ UNCHANGED <<items, schedVars, ch, caller, alive, nudged, arms,
                   awaiting>>

-----------------------------------------------------------------------------
Scheduler == SchedPop \/ SchedCheck \/ SchedWake \/ SchedSend \/ SchedTail

Next ==
    \/ \E c \in Callers, u \in Users : AddIsSet(c, u)
    \/ \E c \in Callers : AddSet(c) \/ AddPush(c)
    \/ \E u \in Users : Remove(u) \/ Connect(u) \/ Disconnect(u)
    \/ Scheduler
    \/ \E w \in Workers : WorkerTake(w)
    \/ Tick

\* The goroutines of the handler are scheduled fairly and time passes;
\* the clients (connects, acks, new messages) owe nothing.
Fairness ==
    /\ WF_vars(Scheduler)
    /\ \A w \in Workers : WF_vars(WorkerTake(w))
    /\ \A c \in Callers : WF_vars(AddSet(c) \/ AddPush(c))
    /\ WF_vars(Tick)

Spec == Init /\ [][Next]_vars
FairSpec == Spec /\ Fairness

-----------------------------------------------------------------------------
(* Properties.                                                             *)

\* Every armed user has an item that will fire for it, or an Add that is
\* about to push one: otherwise Add(u) stays a no-op forever (it sees the
\* user armed) and u is never nudged again.  A mistake in handleRetry's
\* discard/sleep/re-push paths or in retry's give-up branch breaks it.
MembershipBacked ==
    \A u \in items :
        \/ Entries(u) # {}
        \/ \E c \in Callers : caller[c].pc = "push" /\ caller[c].u = u

\* Spec 8: arm(id) is idempotent, calling it twice before disarm yields
\* exactly one heap entry.  While u is armed at most one item for u is
\* held by the heap or the scheduler; two would both fire, notifying u
\* twice per round and up to twice maxRetry times.  Add tests and sets the
\* membership in two calls, and Remove leaves the popped-later item in
\* the heap for the next Add to find armed again.
ArmIdempotent == \A u \in items : Cardinality(Entries(u)) < 2

\* When Add(u) returns, u stays armed until it is notified or acks: the
\* frame the forwarder has just written is covered by a later nudge.
ArmNotLost == awaiting \subseteq items

\* Every user id handed to the worker pool is eventually taken by a
\* worker (retryWorker is meant to run for the node's lifetime).
NotificationTaken ==
    \A u \in Users : (u \in Range(ch)) ~> (u \notin Range(ch))

=============================================================================
