------------------------------ MODULE Resource ------------------------------
(***************************************************************************)
(* One budget of the runtime: resource.go, with the waiters of waiter.go   *)
(* that queue for it.                                                      *)
(*                                                                         *)
(* Steps.  A critical section of r.mu that only computes is one step,      *)
(* enabled while the lock is free.  One that wakes waiters keeps the lock  *)
(* over several steps, one per waiter woken and one that publishes `full'  *)
(* and unlocks, because a woken caller runs on, without the lock, while    *)
(* the loop that woke it still does.  What callers do without the lock,    *)
(* the load of `full' and the select in park, are steps of their own.      *)
(***************************************************************************)
EXTENDS Integers, SequencesExt

CONSTANTS Callers,      \* the goroutines that claim units
          Size          \* Resource.size

ASSUME SizeAssumption == Size \in Nat \ {0}
ASSUME CallersAssumption == IsFiniteSet(Callers)

VARIABLES
  cur,          \* Resource.cur: units in use
  q,            \* Resource.q: the callers whose waiters are queued, head first
  closed,       \* Resource.closed
  full,         \* Resource.full; isFull is its copy under mu
  lock,         \* Resource.mu: "free", or what its holder is doing
  need,         \* the units each caller's operation claims, fixed by NewOperation
  pc,           \* where each caller is
  state,        \* waiter.state of its waiter, "none" when it has no waiter
  ready,        \* tokens in its waiter's channel, which has room for one
  done          \* whether the context of its call has ended

vars == <<cur, q, closed, full, lock, need, pc, state, ready, done>>
callVars == <<pc, state, ready, done>>

PC == { "idle",         \* not in a call
        "load",         \* tryAcquire, before the load of full
        "try",          \* tryAcquire, before mu
        "acquire",      \* acquire, before mu
        "parked",       \* in park
        "gaveup",       \* left park because done closed: leave(w, false)
        "woken",        \* took the token but does not keep it: leave(w, true)
        "held",         \* the claim is granted and the caller runs
        "granting" }    \* holds mu, in the loop of grant()

WaitState == {"none", "waiting", "granted", "withdrawn"}

Init == /\ cur = 0
        /\ q = <<>>
        /\ closed = FALSE
        /\ full = FALSE
        /\ lock = "free"
        /\ need \in [Callers -> 1..Size]
        /\ pc = [c \in Callers |-> "idle"]
        /\ state = [c \in Callers |-> "none"]
        /\ ready = [c \in Callers |-> 0]
        /\ done = [c \in Callers |-> FALSE]
-----------------------------------------------------------------------------

Fits(n) == Size - cur >= n

(* Seeded fault: the fast path forgets the queue.                          *)
AtOnce_Barges(c) == Fits(need[c])

(* The test on which acquire and tryAcquire take units at once.            *)
AtOnce(c) == q = <<>> /\ Fits(need[c])

(* Seeded fault: full is set and never cleared.                            *)
Sync_Sticky == full' = (full \/ q' /= <<>> \/ closed' \/ cur' >= Size)

(* sync, on the values the section leaves behind.                          *)
Sync == full' = (q' /= <<>> \/ closed' \/ cur' >= Size)

Goto(c, l) == pc' = [pc EXCEPT ![c] = l]

(* The waiter and the context of the call are gone.                        *)
Forget(c) == /\ state' = [state EXCEPT ![c] = "none"]
             /\ ready' = [ready EXCEPT ![c] = 0]
             /\ done' = [done EXCEPT ![c] = FALSE]

Return(c) == Goto(c, "idle") /\ Forget(c)
Keep(c) == Goto(c, "held") /\ Forget(c)

(* The section goes on to the loop of grant(), with mu held.               *)
Regrant(c) == /\ Goto(c, "granting")
              /\ lock' = "granting"
              /\ Forget(c)
              /\ UNCHANGED full

(* Seeded fault: a withdrawal sends no token.                              *)
Wake_NoToken(c, s) ==
  /\ state' = [state EXCEPT ![c] = s]
  /\ ready' = IF s = "granted" THEN [ready EXCEPT ![c] = @ + 1] ELSE ready

(* wake: a second send would block, with mu held; TypeOK says there is none. *)
Wake(c, s) == /\ state' = [state EXCEPT ![c] = s]
              /\ ready' = [ready EXCEPT ![c] = @ + 1]
-----------------------------------------------------------------------------
(* A call reaches this budget in Reject or Wait mode.  Only the second one *)
(* ever looks at the context, which may have ended already.                *)
Begin(c) ==
  /\ pc[c] = "idle"
  /\ \/ Goto(c, "load") /\ UNCHANGED done
     \/ Goto(c, "acquire") /\ \E d \in BOOLEAN : done' = [done EXCEPT ![c] = d]
  /\ UNCHANGED <<cur, q, closed, full, lock, need, state, ready>>

CtxEnds(c) ==
  /\ pc[c] \in {"acquire", "parked"}
  /\ ~done[c]
  /\ done' = [done EXCEPT ![c] = TRUE]
  /\ UNCHANGED <<cur, q, closed, full, lock, need, pc, state, ready>>

TryLoad(c) ==
  /\ pc[c] = "load"
  /\ Goto(c, IF full THEN "idle" ELSE "try")
  /\ UNCHANGED <<cur, q, closed, full, lock, need, state, ready, done>>

TakeUnits(c) ==
  /\ AtOnce(c)
  /\ cur' = cur + need[c]
  /\ Keep(c)
  /\ UNCHANGED <<q, closed, lock, need>>
  /\ Sync

TryLocked(c) ==
  /\ pc[c] = "try"
  /\ lock = "free"
  /\ \/ TakeUnits(c)
     \/ /\ ~AtOnce(c)
        /\ Return(c)
        /\ UNCHANGED <<cur, q, closed, full, lock, need>>

MayQueue(c) == ~closed /\ ~done[c]

(* acquire up to its first unlock: units at once, a refusal, or the queue. *)
AcquireNow(c) ==
  /\ pc[c] = "acquire"
  /\ lock = "free"
  /\ TakeUnits(c)

AcquireRefused(c) ==
  /\ pc[c] = "acquire"
  /\ lock = "free"
  /\ ~AtOnce(c) /\ ~MayQueue(c)
  /\ Return(c)
  /\ UNCHANGED <<cur, q, closed, full, lock, need>>

AcquireQueues(c) ==
  /\ pc[c] = "acquire"
  /\ lock = "free"
  /\ ~AtOnce(c) /\ MayQueue(c)
  /\ q' = Append(q, c)
  /\ state' = [state EXCEPT ![c] = "waiting"]
  /\ Goto(c, "parked")
  /\ UNCHANGED <<cur, closed, lock, need, ready, done>>
  /\ Sync

(* park returns with the token: the verdict stands if it is a grant and    *)
(* the context is still live.                                              *)
TakeToken(c) ==
  /\ pc[c] = "parked"
  /\ ready[c] > 0
  /\ IF state[c] = "granted" /\ ~done[c]
     THEN Keep(c)
     ELSE /\ Goto(c, "woken")
          /\ ready' = [ready EXCEPT ![c] = 0]
          /\ UNCHANGED <<state, done>>
  /\ UNCHANGED <<cur, q, closed, full, lock, need>>

(* park returns because done closed; the token may have been sent as well. *)
GiveUp(c) ==
  /\ pc[c] = "parked"
  /\ done[c]
  /\ Goto(c, "gaveup")
  /\ UNCHANGED <<cur, q, closed, full, lock, need, state, ready, done>>

\* Seeded fault: a head that leaves does not re-examine the queue.
Withdraw_NoRegrant(c, i) ==
  q' = RemoveAt(q, i) /\ Return(c) /\ UNCHANGED lock /\ Sync

Withdraw(c, i) ==
  /\ q' = RemoveAt(q, i)
  /\ IF i = 1 THEN Regrant(c) ELSE Return(c) /\ UNCHANGED lock /\ Sync

(* leave, for a waiter that is still queued: removing the head goes on to  *)
(* grant() under the same lock.                                            *)
LeaveQueue(c) ==
  /\ pc[c] \in {"gaveup", "woken"}
  /\ lock = "free"
  /\ state[c] = "waiting"
  /\ UNCHANGED <<cur, closed, need>>
  /\ \E i \in DOMAIN q : q[i] = c /\ Withdraw(c, i)

(* The owner woke the waiter: the token is drained if park did not take    *)
(* it.  A receive that found no token would block with mu held.            *)
Drained(c) == pc[c] = "woken" \/ (pc[c] = "gaveup" /\ ready[c] > 0)

(* Seeded fault: a grant that raced the withdrawal is not returned.        *)
LeaveGrant_Leaks(c) ==
  /\ lock = "free"
  /\ state[c] = "granted"
  /\ Drained(c)
  /\ Return(c)
  /\ UNCHANGED <<cur, q, closed, full, lock, need>>

(* leave, for a waiter granted as its caller gave up: the units go back.   *)
LeaveGrant(c) ==
  /\ lock = "free"
  /\ state[c] = "granted"
  /\ Drained(c)
  /\ cur' = cur - need[c]
  /\ Regrant(c)
  /\ UNCHANGED <<q, closed, need>>

LeaveWithdrawn(c) ==
  /\ lock = "free"
  /\ state[c] = "withdrawn"
  /\ Drained(c)
  /\ Return(c)
  /\ UNCHANGED <<cur, q, closed, lock, need>>
  /\ Sync

Release(c) ==
  /\ pc[c] = "held"
  /\ lock = "free"
  /\ cur' = cur - need[c]
  /\ Regrant(c)
  /\ UNCHANGED <<q, closed, need>>

(* One turn of the loop of grant(): w is granted, and leaves rest behind.  *)
Serve(w, rest) ==
  /\ Fits(need[w])
  /\ cur' = cur + need[w]
  /\ q' = rest
  /\ Wake(w, "granted")
  /\ UNCHANGED <<closed, full, lock, need, pc, done>>

\* Seeded fault: a head that does not fit is passed over for a lighter waiter.
GrantHead_AnyFit(c) ==
  pc[c] = "granting" /\ \E i \in DOMAIN q : Serve(q[i], RemoveAt(q, i))

GrantHead(c) == pc[c] = "granting" /\ q /= <<>> /\ Serve(Head(q), Tail(q))

(* The loop ends on an empty queue or a head that does not fit; the        *)
(* section publishes full, unlocks and returns.                            *)
GrantEnds(c) ==
  /\ pc[c] = "granting"
  /\ ~(q /= <<>> /\ Fits(need[Head(q)]))
  /\ lock' = "free"
  /\ Goto(c, "idle")
  /\ UNCHANGED <<cur, q, closed, need, state, ready, done>>
  /\ Sync

(* close, called once, by the first Shutdown.                              *)
CloseStarts ==
  /\ ~closed
  /\ lock = "free"
  /\ closed' = TRUE
  /\ lock' = "closing"
  /\ UNCHANGED <<cur, q, full, need, callVars>>

CloseWithdraws ==
  /\ lock = "closing"
  /\ q /= <<>>
  /\ q' = Tail(q)
  /\ Wake(Head(q), "withdrawn")
  /\ UNCHANGED <<cur, closed, full, lock, need, pc, done>>

CloseEnds ==
  /\ lock = "closing"
  /\ q = <<>>
  /\ lock' = "free"
  /\ UNCHANGED <<cur, q, closed, need, callVars>>
  /\ Sync

Acquire(c) == AcquireNow(c) \/ AcquireRefused(c) \/ AcquireQueues(c)
Leave(c) == LeaveQueue(c) \/ LeaveGrant(c) \/ LeaveWithdrawn(c)
Grant(c) == GrantHead(c) \/ GrantEnds(c)

Call(c) == \/ Begin(c) \/ CtxEnds(c)
           \/ TryLoad(c) \/ TryLocked(c)
           \/ Acquire(c)
           \/ TakeToken(c) \/ GiveUp(c)
           \/ Leave(c)
           \/ Release(c) \/ Grant(c)

Close == CloseStarts \/ CloseWithdraws \/ CloseEnds

Next == Close \/ \E c \in Callers : Call(c)

Spec == Init /\ [][Next]_vars

(***************************************************************************)
(* Fairness.  A goroutine that can run does run.  One that needs mu gets   *)
(* it eventually however often it is taken in between: sync.Mutex hands    *)
(* the lock to a waiter that has starved for 1ms, so strong fairness.      *)
(* Begin, CtxEnds and CloseStarts happen or not.                           *)
(***************************************************************************)
RunsAlone(c) == TryLoad(c) \/ TakeToken(c) \/ GiveUp(c) \/ Grant(c)
TakesLock(c) == TryLocked(c) \/ Acquire(c) \/ Leave(c)

Scheduled ==
  /\ WF_vars(CloseWithdraws \/ CloseEnds)
  /\ \A c \in Callers : WF_vars(RunsAlone(c)) /\ SF_vars(TakesLock(c))

FairSpec == Spec /\ Scheduled

(* Handlers return, so every holder reaches its release: not for the code  *)
(* to guarantee, so a hypothesis of the properties that need it.           *)
HandlersReturn == \A c \in Callers : SF_vars(Release(c))
-----------------------------------------------------------------------------
TypeOK == /\ cur \in Int
          /\ q \in Seq(Callers)
          /\ closed \in BOOLEAN
          /\ full \in BOOLEAN
          /\ lock \in {"free", "granting", "closing"}
          /\ need \in [Callers -> 1..Size]
          /\ pc \in [Callers -> PC]
          /\ state \in [Callers -> WaitState]
          /\ ready \in [Callers -> 0..1]
          /\ done \in [Callers -> BOOLEAN]

(* A claim is owned from its grant to its return, also while its caller    *)
(* does not know of the grant, or gave up before it learned of it.         *)
Owns(c) == pc[c] = "held" \/ state[c] = "granted"

Owners == {c \in Callers : Owns(c)}
UnitsOf(O, nd) == {u \in O \X (1..Size) : u[2] <= nd[u[1]]}
OwnedUnits == UnitsOf(Owners, need)

(* Units are conserved: the units in use are those owned, at every step of *)
(* every critical section.  A grant that races its caller's withdrawal is  *)
(* neither leaked nor returned twice.                                      *)
Conservation == cur = Cardinality(OwnedUnits)

(* The budget is never exceeded, although grants are handed to callers     *)
(* that may have given up.                                                 *)
CapacityRespected == cur \in 0..Size

(* The intrusive queue holds each waiting caller once and nobody else: no  *)
(* waiter is dropped, queued twice, or still queued after its verdict.     *)
Waiting == {c \in Callers : state[c] = "waiting"}
QueueExact == IsInjective(q) /\ ToSet(q) = Waiting

(* No lost wake-up: whenever mu is free the head does not fit.             *)
NoLostWakeup == lock = "free" /\ q /= <<>> => ~Fits(need[Head(q)])

(* The flag that Reject callers read without the lock is exact whenever mu *)
(* is free: sync is called by every section that may change it.            *)
FullExact == lock = "free" => (full <=> q /= <<>> \/ closed \/ cur >= Size)

(* The waiter protocol.  A waiter with a verdict has its token until its   *)
(* caller takes it, so the receive in leave, which runs with mu held,      *)
(* never blocks; a caller that took a token finds a verdict.               *)
WaiterProtocol == \A c \in Callers :
  /\ state[c] /= "none" <=> pc[c] \in {"parked", "gaveup", "woken"}
  /\ ready[c] = 1 <=> /\ pc[c] \in {"parked", "gaveup"}
                      /\ state[c] \in {"granted", "withdrawn"}
  /\ pc[c] = "woken" => state[c] /= "waiting"

(* contract.md, Amendment 4: a call that passed the gate before Shutdown   *)
(* still takes units that are free when it reaches them, in either mode.   *)
FreeUnitsAreTaken ==
  [][\A c \in Callers :
       pc[c] \in {"load", "try", "acquire"} /\ pc'[c] = "idle" /\ lock = "free"
         => ~AtOnce(c)]_vars

(* If handlers return, a call that waits is served or returns: a heavy     *)
(* claim is never starved by a stream of light ones.                       *)
NoStarvation ==
  HandlersReturn => \A c \in Callers : pc[c] = "parked" ~> pc[c] \in {"held", "idle"}

(* Even if no handler ever returns, a waiter whose context ends, or whose  *)
(* budget is closed, leaves: with the grant it had, or with nothing.       *)
WaitersLeave ==
  \A c \in Callers :
    pc[c] = "parked" /\ (done[c] \/ closed) ~> pc[c] \in {"held", "idle"}

(* Every waiter proceeds: for either of the two reasons it has to.         *)
WaitersProceed == NoStarvation /\ WaitersLeave
=============================================================================
