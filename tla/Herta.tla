------------------------------- MODULE Herta -------------------------------
(***************************************************************************)
(* A runtime with its operations: Do and admission (operation.go), the     *)
(* admission errors (errors.go) and Shutdown (runtime.go), over the gate,  *)
(* the key space and the budgets.  It composes the components at the grain *)
(* of their specifications: one operation of a budget, of the key space or *)
(* of the gate is one step here, which is what Resource, KeyLocker and     *)
(* Gate are shown to allow by implementing Sem, Keys and Lifecycle; this   *)
(* module is checked against the same three.  The handler is one step from *)
(* its entry to its return; Attempt has the loop around it.                *)
(***************************************************************************)
EXTENDS Integers, SequencesExt, FiniteSetsExt

CONSTANTS Callers,
          Budgets,      \* the resources, as integers in the order of their names
          Size,         \* the capacity of each
          Key,          \* the non-empty keys
          Ops,          \* operations: [listed, mode, keys], listed in the policy's order, keys what
                        \* the policy's Key returns for its calls, None if it is empty
          None          \* no key, nobody, no operation

ASSUME CallersAssumption == IsFiniteSet(Callers) /\ None \notin Callers \cup Key \cup Ops

ASSUME BudgetsAssumption == Budgets \subseteq Int /\ Size \in [Budgets -> Nat \ {0}]

(* What NewOperation accepts: known resources, each once, never more units *)
(* than there are.                                                         *)
ASSUME OpsAssumption == \A o \in Ops :
  /\ o.mode \in {"Wait", "Reject"}
  /\ o.keys \subseteq Key \cup {None}
  /\ o.listed \in Seq([r : Budgets, n : Nat \ {0}])
  /\ \A i, j \in DOMAIN o.listed :
       /\ o.listed[i].n <= Size[o.listed[i].r]
       /\ o.listed[i].r = o.listed[j].r => i = j

VARIABLES
  stopping,     \* the stopping bit of the gate
  drained,      \* the drained bit, and done closed
  sd,           \* where the first Shutdown is
  used,         \* Resource.cur of each budget
  q,            \* Resource.q of each budget: the callers queued
  closed,       \* the budgets that are closed
  holder,       \* who holds each key, None if it has no entry
  kq,           \* the callers queued for each key
  keysClosed,   \* KeyLocker.closed
  pc,           \* where each caller is in Do
  op,           \* the operation it calls
  key,          \* the key of its call, None if it has none
  next,         \* how many claims it has
  state,        \* the state of its waiter
  done,         \* whether its context has ended
  res           \* how its call ends: "ctx", "overloaded", "stopping", or "none" if its
                \* handler ran; "refused" while it gives back, before the error is made

gateVars == <<stopping, drained, sd>>
budgetVars == <<used, q, closed>>
keyVars == <<holder, kq, keysClosed>>
callVars == <<op, key>>
vars == <<gateVars, budgetVars, keyVars, pc, callVars, next, state, done, res>>

(* Where a call is:                                                        *)
(*   idle                                                                  *)
(*   lock        before keys.lock                                          *)
(*   keyWait     queued for the key, or with its verdict                   *)
(*   claim       before the next claim, or the first attempt               *)
(*   claimWait   queued for units, or with the verdict                     *)
(*   handler                                                               *)
(*   release     giving back, after the handler or a refusal               *)
(*   exit                                                                  *)
(*   mark        out of the gate, the last one of a stopping runtime       *)

Init == /\ stopping = FALSE /\ drained = FALSE /\ sd = "idle"
        /\ used = [r \in Budgets |-> 0]
        /\ q = [r \in Budgets |-> <<>>]
        /\ closed = {}
        /\ holder = [k \in Key |-> None]
        /\ kq = [k \in Key |-> <<>>]
        /\ keysClosed = FALSE
        /\ pc = [c \in Callers |-> "idle"]
        /\ op = [c \in Callers |-> None]
        /\ key = [c \in Callers |-> None]
        /\ next = [c \in Callers |-> 0]
        /\ state = [c \in Callers |-> "none"]
        /\ done = [c \in Callers |-> FALSE]
        /\ res = [c \in Callers |-> "none"]
-----------------------------------------------------------------------------
\* Seeded fault: claims stay in the order of the policy.
Claims_AsListed == [o \in Ops |-> o.listed]

(* Operation.claims: sorted by name, one global order.                     *)
Claims == [o \in Ops |->
  CHOOSE s \in [DOMAIN o.listed -> ToSet(o.listed)] :
    \A i, j \in DOMAIN o.listed : i < j => s[i].r < s[j].r]

Claim(c, i) == Claims[op[c]][i]
Goto(c, l) == pc' = [pc EXCEPT ![c] = l]

(* The calls in flight.                                                    *)
Live == {c \in Callers : pc[c] \notin {"idle", "mark"}}

(* The gate lets the call in, and it looks at its context, which may have  *)
(* ended already: only a live caller takes a key or waits for units, while *)
(* a Reject call that takes no key does not look.  Calls that the gate     *)
(* refuses take nothing and are left to Gate.                              *)
Enter(c) ==
  /\ pc[c] = "idle"
  /\ ~stopping
  /\ \E o \in Ops, d \in BOOLEAN : \E k \in o.keys :
       /\ op' = [op EXCEPT ![c] = o]
       /\ key' = [key EXCEPT ![c] = k]
       /\ done' = [done EXCEPT ![c] = d]
       /\ IF d /\ (k /= None \/ o.mode = "Wait")
          THEN Goto(c, "exit") /\ res' = [res EXCEPT ![c] = "ctx"]
          ELSE Goto(c, IF k /= None THEN "lock" ELSE "claim") /\ UNCHANGED res
  /\ UNCHANGED <<gateVars, budgetVars, keyVars, next, state>>

(* Ends at any time; the code looks again while the call is being admitted *)
(* and when it makes the error of a refusal.                               *)
CtxEnds(c) ==
  /\ \/ pc[c] \in {"lock", "keyWait", "claim", "claimWait"}
     \/ pc[c] = "release" /\ res[c] = "refused"
  /\ ~done[c]
  /\ done' = [done EXCEPT ![c] = TRUE]
  /\ UNCHANGED <<gateVars, budgetVars, keyVars, pc, callVars, next, state, res>>

\* Seeded fault: a withdrawn waiter does not report its own context first.
Refused_Blind(c) == IF op[c].mode = "Reject" THEN "overloaded" ELSE "stopping"

(* refused: overload for Reject, the context's error, else the shutdown.   *)
Refused(c) == IF op[c].mode = "Reject" THEN "overloaded"
              ELSE IF done[c] THEN "ctx" ELSE "stopping"

Fail(c) == Goto(c, "exit") /\ res' = [res EXCEPT ![c] = Refused(c)]
-----------------------------------------------------------------------------
LockFree(c) ==
  /\ pc[c] = "lock"
  /\ holder[key[c]] = None
  /\ holder' = [holder EXCEPT ![key[c]] = c]
  /\ Goto(c, "claim")
  /\ UNCHANGED <<gateVars, budgetVars, kq, keysClosed, callVars, next, state, done, res>>

LockHeld(c) ==
  /\ pc[c] = "lock"
  /\ holder[key[c]] /= None
  /\ IF op[c].mode = "Reject" \/ keysClosed \/ done[c]
     THEN Fail(c) /\ UNCHANGED <<kq, state>>
     ELSE /\ kq' = [kq EXCEPT ![key[c]] = Append(@, c)]
          /\ state' = [state EXCEPT ![c] = "waiting"]
          /\ Goto(c, "keyWait") /\ UNCHANGED res
  /\ UNCHANGED <<gateVars, budgetVars, holder, keysClosed, callVars, next, done>>

\* Seeded fault: the key goes to the waiter that came last.
HandOff_Last(k, st) ==
  /\ IF kq[k] = <<>>
     THEN holder' = [holder EXCEPT ![k] = None] /\ state' = st /\ UNCHANGED kq
     ELSE /\ holder' = [holder EXCEPT ![k] = Last(kq[k])]
          /\ state' = [st EXCEPT ![Last(kq[k])] = "granted"]
          /\ kq' = [kq EXCEPT ![k] = Front(@)]
  /\ UNCHANGED keysClosed

(* handOff, with st the states of the waiters so far.                      *)
HandOff(k, st) ==
  /\ IF kq[k] = <<>>
     THEN holder' = [holder EXCEPT ![k] = None] /\ state' = st /\ UNCHANGED kq
     ELSE /\ holder' = [holder EXCEPT ![k] = Head(kq[k])]
          /\ state' = [st EXCEPT ![Head(kq[k])] = "granted"]
          /\ kq' = [kq EXCEPT ![k] = Tail(@)]
  /\ UNCHANGED keysClosed

Forget(c) == [state EXCEPT ![c] = "none"]

KeyGranted(c) ==
  /\ pc[c] = "keyWait"
  /\ state[c] = "granted" /\ ~done[c]
  /\ state' = Forget(c)
  /\ Goto(c, "claim")
  /\ UNCHANGED <<gateVars, budgetVars, keyVars, callVars, next, done, res>>

(* The context ended or the key space closed: the waiter leaves its queue, *)
(* or passes on the key that reached it too late.                          *)
KeyGivenUp(c) ==
  /\ pc[c] = "keyWait"
  /\ done[c] \/ state[c] = "withdrawn"
  /\ Fail(c)
  /\ \/ /\ state[c] = "waiting"
        /\ \E i \in DOMAIN kq[key[c]] :
             kq[key[c]][i] = c /\ kq' = [kq EXCEPT ![key[c]] = RemoveAt(@, i)]
        /\ state' = Forget(c)
        /\ UNCHANGED <<holder, keysClosed>>
     \/ state[c] = "granted" /\ HandOff(key[c], Forget(c))
     \/ state[c] = "withdrawn" /\ state' = Forget(c) /\ UNCHANGED keyVars
  /\ UNCHANGED <<gateVars, budgetVars, callVars, next, done>>
-----------------------------------------------------------------------------
UnitsOf(c, r) == LET i == CHOOSE i \in DOMAIN op[c].listed : op[c].listed[i].r = r
                 IN  op[c].listed[i].n

Demand(s, r) ==
  LET sum[k \in 0..Len(s)] == IF k = 0 THEN 0 ELSE sum[k-1] + UnitsOf(s[k], r) IN sum

\* Seeded fault: a light waiter is served before a heavy head.
Grant_AnyFit(r, u, s, st) ==
  LET fit == {i \in DOMAIN s : u + UnitsOf(s[i], r) <= Size[r]}
  IN  IF fit = {} THEN used' = [used EXCEPT ![r] = u] /\ q' = [q EXCEPT ![r] = s] /\ state' = st
      ELSE LET i == Max(fit)
           IN  /\ used' = [used EXCEPT ![r] = u + UnitsOf(s[i], r)]
               /\ q' = [q EXCEPT ![r] = RemoveAt(s, i)]
               /\ state' = [st EXCEPT ![s[i]] = "granted"]

(* grant: with u units of r in use and s queued for it, the head is served *)
(* for as long as it fits.                                                 *)
Grant(r, u, s, st) ==
  LET k == Max({i \in 0..Len(s) : u + Demand(s, r)[i] <= Size[r]})
      served == ToSet(SubSeq(s, 1, k))
  IN  /\ used' = [used EXCEPT ![r] = u + Demand(s, r)[k]]
      /\ q' = [q EXCEPT ![r] = SubSeq(s, k+1, Len(s))]
      /\ state' = [c \in Callers |-> IF c \in served THEN "granted" ELSE st[c]]

AtOnce(cl) == q[cl.r] = <<>> /\ used[cl.r] + cl.n <= Size[cl.r]

(* Units at once, whether or not the context has ended.                    *)
ClaimTakes(c) ==
  /\ pc[c] = "claim"
  /\ next[c] < Len(Claims[op[c]])
  /\ LET cl == Claim(c, next[c] + 1)
     IN  AtOnce(cl) /\ used' = [used EXCEPT ![cl.r] = @ + cl.n]
  /\ next' = [next EXCEPT ![c] = @ + 1]
  /\ UNCHANGED <<gateVars, q, closed, keyVars, pc, callVars, state, done, res>>

(* A Reject call that finds the budget full: also one that is closed,      *)
(* whatever is free, if the close came before its load of full.            *)
ClaimRefused(c) ==
  /\ pc[c] = "claim"
  /\ next[c] < Len(Claims[op[c]])
  /\ LET cl == Claim(c, next[c] + 1)
     IN  IF op[c].mode = "Reject" THEN ~AtOnce(cl) \/ cl.r \in closed
         ELSE ~AtOnce(cl) /\ (cl.r \in closed \/ done[c])
  /\ Goto(c, "release")
  /\ res' = [res EXCEPT ![c] = "refused"]
  /\ UNCHANGED <<gateVars, budgetVars, keyVars, callVars, next, state, done>>

ClaimQueues(c) ==
  /\ pc[c] = "claim"
  /\ next[c] < Len(Claims[op[c]])
  /\ op[c].mode = "Wait" /\ ~done[c]
  /\ LET cl == Claim(c, next[c] + 1)
     IN  /\ ~AtOnce(cl) /\ cl.r \notin closed
         /\ q' = [q EXCEPT ![cl.r] = Append(@, c)]
  /\ state' = [state EXCEPT ![c] = "waiting"]
  /\ Goto(c, "claimWait")
  /\ UNCHANGED <<gateVars, used, closed, keyVars, callVars, next, done, res>>

UnitsGranted(c) ==
  /\ pc[c] = "claimWait"
  /\ state[c] = "granted" /\ ~done[c]
  /\ state' = Forget(c)
  /\ next' = [next EXCEPT ![c] = @ + 1]
  /\ Goto(c, "claim")
  /\ UNCHANGED <<gateVars, budgetVars, keyVars, callVars, done, res>>

\* Seeded fault: a grant that came too late is dropped with its waiter.
UnitsGivenUp_Leaks(c) ==
  /\ pc[c] = "claimWait"
  /\ done[c] \/ state[c] = "withdrawn"
  /\ LET cl == Claim(c, next[c] + 1)
     IN  q' = [q EXCEPT ![cl.r] = Remove(@, c)]
  /\ state' = Forget(c)
  /\ Goto(c, "release")
  /\ res' = [res EXCEPT ![c] = "refused"]
  /\ UNCHANGED <<gateVars, used, closed, keyVars, callVars, next, done>>

LeaveQueue(c, r) ==
  \E i \in DOMAIN q[r] :
    /\ q[r][i] = c
    /\ IF i = 1 THEN Grant(r, used[r], Tail(q[r]), Forget(c))
       ELSE q' = [q EXCEPT ![r] = RemoveAt(@, i)] /\ state' = Forget(c) /\ UNCHANGED used

(* The waiter leaves the queue of the budget, or returns units that        *)
(* reached it too late; either may serve the waiters behind it.            *)
UnitsGivenUp(c) ==
  /\ pc[c] = "claimWait"
  /\ done[c] \/ state[c] = "withdrawn"
  /\ LET cl == Claim(c, next[c] + 1)
     IN  \/ state[c] = "waiting" /\ LeaveQueue(c, cl.r)
         \/ state[c] = "granted" /\ Grant(cl.r, used[cl.r] - cl.n, q[cl.r], Forget(c))
         \/ state[c] = "withdrawn" /\ state' = Forget(c) /\ UNCHANGED <<used, q>>
  /\ Goto(c, "release")
  /\ res' = [res EXCEPT ![c] = "refused"]
  /\ UNCHANGED <<gateVars, closed, keyVars, callVars, next, done>>
-----------------------------------------------------------------------------
(* Admitted: run looks at the context before the first attempt.            *)
Run(c) ==
  /\ pc[c] = "claim"
  /\ next[c] = Len(Claims[op[c]])
  /\ IF done[c] THEN Goto(c, "release") /\ res' = [res EXCEPT ![c] = "ctx"]
     ELSE Goto(c, "handler") /\ UNCHANGED res
  /\ UNCHANGED <<gateVars, budgetVars, keyVars, callVars, next, state, done>>

\* Seeded fault: a panic skips the release.
HandlerEnds_Leaks(c) ==
  /\ pc[c] = "handler"
  /\ Goto(c, "release") \/ Goto(c, "exit")
  /\ UNCHANGED <<gateVars, budgetVars, keyVars, callVars, next, state, done, res>>

(* The last attempt returns, or panics: the deferred release runs.         *)
HandlerEnds(c) ==
  /\ pc[c] = "handler"
  /\ Goto(c, "release")
  /\ UNCHANGED <<gateVars, budgetVars, keyVars, callVars, next, state, done, res>>

(* release: the claims in reverse order, then the key.                     *)
ReleaseUnits(c) ==
  /\ pc[c] = "release"
  /\ next[c] > 0
  /\ LET cl == Claim(c, next[c])
     IN  Grant(cl.r, used[cl.r] - cl.n, q[cl.r], state)
  /\ next' = [next EXCEPT ![c] = @ - 1]
  /\ UNCHANGED <<gateVars, closed, keyVars, pc, callVars, done, res>>

ReleaseKey(c) ==
  /\ pc[c] = "release"
  /\ next[c] = 0
  /\ IF key[c] = None THEN UNCHANGED <<keyVars, state>> ELSE HandOff(key[c], state)
  /\ IF res[c] = "refused" THEN Fail(c) ELSE Goto(c, "exit") /\ UNCHANGED res
  /\ UNCHANGED <<gateVars, budgetVars, callVars, next, done>>

(* exit: the last call to leave a stopping runtime goes on to mark it.     *)
Exit(c) ==
  /\ pc[c] = "exit"
  /\ Goto(c, IF stopping /\ ~drained /\ Live = {c} THEN "mark" ELSE "idle")
  /\ op' = [op EXCEPT ![c] = None]
  /\ key' = [key EXCEPT ![c] = None]
  /\ done' = [done EXCEPT ![c] = FALSE]
  /\ res' = [res EXCEPT ![c] = "none"]
  /\ UNCHANGED <<gateVars, budgetVars, keyVars, next, state>>

MarkDrained(c) ==
  /\ pc[c] = "mark"
  /\ Goto(c, "idle")
  /\ drained' = (drained \/ Live = {})
  /\ UNCHANGED <<stopping, sd, budgetVars, keyVars, callVars, next, state, done, res>>
-----------------------------------------------------------------------------
Stop ==
  /\ sd = "idle"
  /\ sd' = "closing"
  /\ stopping' = TRUE
  /\ UNCHANGED <<drained, budgetVars, keyVars, pc, callVars, next, state, done, res>>

Withdraw(S) == state' = [c \in Callers |-> IF c \in S THEN "withdrawn" ELSE state[c]]

\* Seeded fault: the loop stops after the first budget.
CloseBudget_One ==
  /\ sd = "closing"
  /\ closed = {}
  /\ \E r \in Budgets \ closed :
       /\ closed' = Budgets
       /\ q' = [q EXCEPT ![r] = <<>>]
       /\ Withdraw(ToSet(q[r]))
  /\ UNCHANGED <<gateVars, used, keyVars, pc, callVars, next, done, res>>

(* The budgets are closed in the order of the map, which is any order.     *)
CloseBudget ==
  /\ sd = "closing"
  /\ \E r \in Budgets \ closed :
       /\ closed' = closed \cup {r}
       /\ q' = [q EXCEPT ![r] = <<>>]
       /\ Withdraw(ToSet(q[r]))
  /\ UNCHANGED <<gateVars, used, keyVars, pc, callVars, next, done, res>>

CloseKeys ==
  /\ sd = "closing"
  /\ closed = Budgets
  /\ sd' = "mark"
  /\ keysClosed' = TRUE
  /\ kq' = [k \in Key |-> <<>>]
  /\ Withdraw(UNION {ToSet(kq[k]) : k \in Key})
  /\ UNCHANGED <<stopping, drained, budgetVars, holder, pc, callVars, next, done, res>>

Mark ==
  /\ sd = "mark"
  /\ sd' = "wait"
  /\ drained' = (drained \/ Live = {})
  /\ UNCHANGED <<stopping, budgetVars, keyVars, pc, callVars, next, state, done, res>>

ReturnNil ==
  /\ sd = "wait"
  /\ drained
  /\ sd' = "nil"
  /\ UNCHANGED <<stopping, drained, budgetVars, keyVars, pc, callVars, next, state, done, res>>

(* From here on the gate refuses every call, which changes nothing.        *)
RefusedFromNowOn ==
  /\ sd = "nil"
  /\ UNCHANGED vars

Admit(c) == \/ LockFree(c) \/ LockHeld(c) \/ KeyGranted(c) \/ KeyGivenUp(c)
            \/ ClaimTakes(c) \/ ClaimRefused(c) \/ ClaimQueues(c)
            \/ UnitsGranted(c) \/ UnitsGivenUp(c)
Proceeds(c) == \/ Admit(c) \/ Run(c)
               \/ ReleaseUnits(c) \/ ReleaseKey(c) \/ Exit(c) \/ MarkDrained(c)
Do(c) == Enter(c) \/ CtxEnds(c) \/ Proceeds(c) \/ HandlerEnds(c)
ShutdownProceeds == CloseBudget \/ CloseKeys \/ Mark \/ ReturnNil
Shutdown == Stop \/ ShutdownProceeds

Next == Shutdown \/ RefusedFromNowOn \/ \E c \in Callers : Do(c)

Spec == Init /\ [][Next]_vars

(***************************************************************************)
(* Fairness: goroutines in Do and in Shutdown keep running, and no lock    *)
(* starves them.  Calls, Shutdown and the end of contexts happen or not.   *)
(***************************************************************************)
FairSpec ==
  Spec /\ WF_vars(ShutdownProceeds) /\ \A c \in Callers : WF_vars(Proceeds(c))

(* Handlers return: a hypothesis of the properties that need it.           *)
HandlersReturn == \A c \in Callers : WF_vars(HandlerEnds(c))
-----------------------------------------------------------------------------
(* What each call has of budget r: its claims, and a grant on its way.     *)
Granted(c) == IF pc[c] = "claimWait" /\ state[c] = "granted" THEN next[c] + 1 ELSE next[c]
Has(c, r) == IF \E i \in 1..Granted(c) : Claim(c, i).r = r THEN UnitsOf(c, r) ELSE 0

(* Every budget counts exactly what the calls in Do have of it: nothing is *)
(* lost or returned twice on any path through several claims.              *)
BudgetsExact ==
  \A r \in Budgets : used[r] <= Size[r]
                     /\ used[r] = SumFunction([c \in Callers |-> Has(c, r)])

(* After a nil Shutdown the runtime is at rest, and remains so: no call in *)
(* flight, no unit in use, no key held, nobody queued.                     *)
NilMeansAtRest ==
  drained \/ sd = "nil" =>
    /\ Live = {}
    /\ \A r \in Budgets : used[r] = 0 /\ q[r] = <<>>
    /\ \A k \in Key : holder[k] = None /\ kq[k] = <<>>

(* ErrRuntimeStopping is reported only of a stopping runtime: whatever else *)
(* ends a wait, the caller hears of its own context (delta 6).             *)
StoppingJustified == \A c \in Callers : res[c] = "stopping" => stopping

(* No deadlock and no starvation: if handlers return, so does every call,  *)
(* although calls hold the units of one budget while they wait for another, *)
(* and a key while they wait for units.                                    *)
EveryCallReturns == HandlersReturn => \A c \in Callers : pc[c] /= "idle" ~> pc[c] = "idle"

(* Even if no handler returns, Shutdown wakes every waiter: a call that    *)
(* waits when the runtime stops goes on, with what it waits for or not.    *)
ShutdownWakesWaiters ==
  \A c \in Callers : stopping /\ pc[c] \in {"keyWait", "claimWait"}
                       ~> pc[c] \notin {"keyWait", "claimWait"}
-----------------------------------------------------------------------------
Gate == INSTANCE Lifecycle WITH
  Shutdowns <- {"first"},
  phase <- IF drained THEN "drained" ELSE IF stopping THEN "stopping" ELSE "open",
  live <- Live,
  ret <- [s \in {"first"} |-> IF sd = "nil" THEN "nil" ELSE "none"]

Locker == INSTANCE Keys WITH Nobody <- None, queue <- kq, closed <- keysClosed

(* The composition keeps the promise of the gate and of the key space:     *)
(* every step of it is a step of their specifications or none, also while  *)
(* a call fails halfway.  HertaSem says the same of the budgets.           *)
KeepsGateAndKeys == Gate!Spec /\ Locker!Spec
=============================================================================
