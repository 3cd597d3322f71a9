--------------------------- MODULE ResourceProofs ---------------------------
(***************************************************************************)
(* Theorems about Resource, for every finite set of callers and every      *)
(* capacity.                                                               *)
(***************************************************************************)
EXTENDS ResourceSem, Lemmas

-----------------------------------------------------------------------------
LEMMA UnitsFinite ==
  ASSUME NEW O \in SUBSET Callers, NEW nd
  PROVE  IsFiniteSet(UnitsOf(O, nd)) /\ Cardinality(UnitsOf(O, nd)) \in Nat
<1>1. IsFiniteSet(1..Size)
  BY FS_Interval, SizeAssumption
<1>2. IsFiniteSet(Callers \X (1..Size))
  BY <1>1, CallersAssumption, FS_Product
<1>3. UnitsOf(O, nd) \subseteq Callers \X (1..Size)
  BY DEF UnitsOf
<1> QED BY <1>2, <1>3, FS_Subset, FS_CardinalityType

(* A new owner adds exactly the units it needs.                            *)
LEMMA AddOwner ==
  ASSUME NEW nd \in [Callers -> 1..Size], NEW O \in SUBSET Callers,
         NEW c \in Callers, c \notin O
  PROVE  Cardinality(UnitsOf(O \cup {c}, nd)) = Cardinality(UnitsOf(O, nd)) + nd[c]
<1> DEFINE T == {c} \X (1..nd[c])
<1>1. nd[c] \in Nat /\ 1 <= nd[c] /\ nd[c] <= Size
  BY SizeAssumption
<1>2. IsFiniteSet(1..nd[c]) /\ Cardinality(1..nd[c]) = nd[c]
  BY <1>1, FS_Interval
<1>3. IsFiniteSet({c}) /\ Cardinality({c}) = 1
  BY FS_Singleton
<1>4. IsFiniteSet(T) /\ Cardinality(T) = nd[c]
  <2>1. IsFiniteSet(T) /\ Cardinality(T) = Cardinality({c}) * Cardinality(1..nd[c])
    BY <1>2, <1>3, FS_Product
  <2> QED BY <1>1, <1>2, <1>3, <2>1
<1>5. UnitsOf(O \cup {c}, nd) = UnitsOf(O, nd) \cup T
  BY <1>1, SizeAssumption DEF UnitsOf
<1>6. UnitsOf(O, nd) \cap T = {}
  BY DEF UnitsOf
<1>7. IsFiniteSet(UnitsOf(O, nd)) /\ Cardinality(UnitsOf(O, nd)) \in Nat
  BY UnitsFinite
<1>8. Cardinality(UnitsOf(O, nd) \cup T)
        = Cardinality(UnitsOf(O, nd)) + Cardinality(T) - Cardinality(UnitsOf(O, nd) \cap T)
  BY <1>4, <1>7, FS_Union
<1>9. Cardinality({}) = 0
  BY FS_EmptySet
<1> HIDE DEF T
<1>10. Cardinality(UnitsOf(O, nd) \cap T) = 0
  BY <1>6, <1>9, Zenon
<1>11. Cardinality(UnitsOf(O \cup {c}, nd)) = Cardinality(UnitsOf(O, nd) \cup T)
  BY <1>5, Zenon
<1> DEFINE x == Cardinality(UnitsOf(O, nd))
           y == Cardinality(UnitsOf(O \cup {c}, nd))
<1>12. y = x + nd[c] - 0
  BY <1>4, <1>8, <1>10, <1>11, Zenon
<1>13. x \in Nat
  BY <1>7
<1> HIDE DEF x, y
<1>14. y = x + nd[c]
  BY <1>1, <1>12, <1>13
<1> QED BY <1>14 DEF x, y
-----------------------------------------------------------------------------
(* The inductive invariant.  Conservation alone is not inductive: a grant  *)
(* keeps the books only if the head of the queue is a caller that owns     *)
(* nothing yet (QueueExact), and a leave or a release only if the caller   *)
(* owns what it returns, which is what WaiterProtocol says of each pc.     *)
Inv == /\ TypeOK
       /\ WaiterProtocol
       /\ QueueExact
       /\ Conservation
       /\ CapacityRespected

LEMMA QueueLists == ASSUME Inv PROVE Lists(Callers, q, Waiting)
BY DEF Inv, TypeOK, QueueExact, Lists

LEMMA QueueKept ==
  ASSUME Inv, UNCHANGED q, Waiting' = Waiting
  PROVE  QueueExact'
BY DEF Inv, QueueExact

(* The three ways in which a step may change the books.                    *)
LEMMA UnitsKept ==
  ASSUME Inv, UNCHANGED <<cur, need>>, Owners' = Owners
  PROVE  Conservation' /\ CapacityRespected'
BY DEF Inv, Conservation, CapacityRespected, OwnedUnits, UnitsOf

LEMMA UnitsGained ==
  ASSUME Inv, NEW c \in Callers, c \notin Owners, Fits(need[c]),
         cur' = cur + need[c], UNCHANGED need, Owners' = Owners \cup {c}
  PROVE  Conservation' /\ CapacityRespected'
<1>1. need \in [Callers -> 1..Size] /\ need[c] \in 1..Size /\ Owners \in SUBSET Callers
  BY DEF Inv, TypeOK, Owners
<1>2. Cardinality(UnitsOf(Owners \cup {c}, need)) = Cardinality(UnitsOf(Owners, need)) + need[c]
  BY <1>1, AddOwner
<1>3. OwnedUnits' = UnitsOf(Owners \cup {c}, need)
  BY DEF OwnedUnits, UnitsOf
<1>4. cur = Cardinality(UnitsOf(Owners, need))
  BY DEF Inv, Conservation, OwnedUnits
<1>5. Conservation'
  BY <1>2, <1>3, <1>4 DEF Conservation
<1>6. CapacityRespected'
  BY <1>1, SizeAssumption DEF Inv, CapacityRespected, Fits
<1> QED BY <1>5, <1>6

LEMMA UnitsReturned ==
  ASSUME Inv, NEW c \in Callers, c \in Owners,
         cur' = cur - need[c], UNCHANGED need, Owners' = Owners \ {c}
  PROVE  Conservation' /\ CapacityRespected'
<1> DEFINE O == Owners \ {c}
<1>1. need \in [Callers -> 1..Size] /\ need[c] \in 1..Size /\ O \in SUBSET Callers /\ c \notin O
  BY DEF Inv, TypeOK, Owners
<1>2. Cardinality(UnitsOf(O \cup {c}, need)) = Cardinality(UnitsOf(O, need)) + need[c]
  BY <1>1, AddOwner
<1>3. O \cup {c} = Owners
  OBVIOUS
<1>4. OwnedUnits' = UnitsOf(O, need)
  BY DEF OwnedUnits, UnitsOf
<1>5. cur = Cardinality(UnitsOf(Owners, need))
  BY DEF Inv, Conservation, OwnedUnits
<1>6. Cardinality(UnitsOf(O, need)) \in Nat
  BY <1>1, UnitsFinite
<1> HIDE DEF O
<1>7. cur' = Cardinality(UnitsOf(O, need))
  <2>1. cur = Cardinality(UnitsOf(O, need)) + need[c]
    BY <1>2, <1>3, <1>5, Zenon
  <2> QED BY <1>1, <1>6, <2>1
<1>8. Conservation'
  BY <1>4, <1>7 DEF Conservation
<1>9. CapacityRespected'
  BY <1>1, <1>6, <1>7, SizeAssumption DEF Inv, CapacityRespected
<1> QED BY <1>8, <1>9
-----------------------------------------------------------------------------
LEMMA InitInv == ASSUME Init PROVE Inv
<1>1. <<>> \in Seq(Callers) /\ DOMAIN <<>> = {}
  BY EmptySeq
<1>2. 0 \in Int /\ 0 \in 0..1 /\ 0 \in 0..Size
  BY SizeAssumption
<1>3. TypeOK
  BY <1>1, <1>2, Zenon DEF Init, TypeOK, PC, WaitState
<1>4. WaiterProtocol
  BY DEF Init, WaiterProtocol
<1>5. QueueExact
  BY <1>1 DEF Init, QueueExact, IsInjective, ToSet, Waiting
<1>6. OwnedUnits = {}
  BY DEF Init, OwnedUnits, UnitsOf, Owners, Owns
<1>7. Conservation
  BY <1>6, FS_EmptySet DEF Init, Conservation
<1>8. CapacityRespected
  BY <1>2 DEF Init, CapacityRespected
<1> QED BY <1>3, <1>4, <1>5, <1>7, <1>8 DEF Inv

(* Steps that leave the budget alone: nobody gains or loses units, and the *)
(* queue stays as it is.                                                   *)
Quiet(c) == \/ Begin(c) \/ CtxEnds(c) \/ TryLoad(c)
            \/ TakeToken(c) \/ GiveUp(c)
            \/ TryLocked(c) /\ ~AtOnce(c)
            \/ AcquireRefused(c)
            \/ LeaveWithdrawn(c)
            \/ GrantEnds(c)

LEMMA QuietSteps == ASSUME Inv, NEW c \in Callers, Quiet(c) PROVE Inv'
<1> USE DEF Goto, Forget, Return, Keep, Quiet, Begin, CtxEnds, TryLoad, TryLocked,
            TakeUnits, AcquireRefused, TakeToken, GiveUp, Drained, LeaveWithdrawn,
            GrantEnds, Sync
<1>1. UNCHANGED <<cur, q, closed, need>>
  OBVIOUS
<1>2. /\ full' \in BOOLEAN
      /\ lock' \in {"free", "granting", "closing"}
      /\ pc' \in [Callers -> PC]
      /\ done' \in [Callers -> BOOLEAN]
  BY DEF Inv, TypeOK, PC
<1>3. state' \in [Callers -> WaitState]
  BY DEF Inv, TypeOK, WaitState
<1>4. ready' \in [Callers -> 0..1]
  BY DEF Inv, TypeOK
<1>5. TypeOK'
  BY <1>1, <1>2, <1>3, <1>4 DEF Inv, TypeOK
<1>6. WaiterProtocol'
  BY DEF Inv, TypeOK, WaiterProtocol, PC, WaitState
<1>7. Waiting' = Waiting
  BY DEF Inv, TypeOK, WaiterProtocol, Waiting, PC, WaitState
<1>8. Owners' = Owners
  BY DEF Inv, TypeOK, WaiterProtocol, Owners, Owns, PC, WaitState
<1> QED BY <1>1, <1>5, <1>6, <1>7, <1>8, QueueKept, UnitsKept DEF Inv

(* Units taken at once, by tryAcquire or acquire.                          *)
Takes(c) == pc[c] \in {"try", "acquire"} /\ TakeUnits(c)

LEMMA TakeSteps == ASSUME Inv, NEW c \in Callers, Takes(c) PROVE Inv'
<1> USE DEF Goto, Forget, Keep, Takes, TakeUnits, AtOnce, Sync
<1>1. UNCHANGED <<q, closed, lock, need>> /\ cur' = cur + need[c] /\ Fits(need[c])
  OBVIOUS
<1>2. /\ cur' \in Int
      /\ full' \in BOOLEAN
      /\ pc' \in [Callers -> PC]
      /\ done' \in [Callers -> BOOLEAN]
  BY SizeAssumption DEF Inv, TypeOK, PC
<1>3. state' \in [Callers -> WaitState]
  BY DEF Inv, TypeOK, WaitState
<1>4. ready' \in [Callers -> 0..1]
  BY DEF Inv, TypeOK
<1>5. TypeOK'
  BY <1>1, <1>2, <1>3, <1>4 DEF Inv, TypeOK
<1>6. WaiterProtocol'
  BY DEF Inv, TypeOK, WaiterProtocol, PC, WaitState
<1>7. Waiting' = Waiting
  BY DEF Inv, TypeOK, WaiterProtocol, Waiting, PC, WaitState
<1>8. c \notin Owners /\ Owners' = Owners \cup {c}
  BY DEF Inv, TypeOK, WaiterProtocol, Owners, Owns, PC, WaitState
<1> HIDE DEF Goto, Forget, Keep, Takes, TakeUnits, AtOnce, Sync
<1> QED BY <1>1, <1>5, <1>6, <1>7, <1>8, QueueKept, UnitsGained DEF Inv

(* A caller joins the queue.                                               *)
LEMMA QueueStep == ASSUME Inv, NEW c \in Callers, AcquireQueues(c) PROVE Inv'
<1> USE DEF Goto, AcquireQueues, Sync
<1>1. UNCHANGED <<cur, closed, lock, need, ready, done>> /\ q' = Append(q, c)
  OBVIOUS
<1>2. full' \in BOOLEAN /\ pc' \in [Callers -> PC]
  BY DEF Inv, TypeOK, PC
<1>3. state' \in [Callers -> WaitState]
  BY DEF Inv, TypeOK, WaitState
<1>4. c \notin Waiting /\ Waiting' = Waiting \cup {c}
  BY DEF Inv, TypeOK, WaiterProtocol, Waiting, PC, WaitState
<1>5. Lists(Callers, q', Waiting')
  BY <1>1, <1>4, QueueLists, ListsAppend
<1>6. QueueExact' /\ q' \in Seq(Callers)
  BY <1>5 DEF QueueExact, Lists
<1>7. TypeOK'
  BY <1>1, <1>2, <1>3, <1>6 DEF Inv, TypeOK
<1>8. WaiterProtocol'
  BY DEF Inv, TypeOK, WaiterProtocol, PC, WaitState
<1>9. Owners' = Owners
  BY DEF Inv, TypeOK, WaiterProtocol, Owners, Owns, PC, WaitState
<1> QED BY <1>1, <1>6, <1>7, <1>8, <1>9, UnitsKept DEF Inv

(* A caller leaves the queue it waits in.                                  *)
LEMMA LeaveQueueStep == ASSUME Inv, NEW c \in Callers, LeaveQueue(c) PROVE Inv'
<1>1. PICK i \in DOMAIN q : q[i] = c /\ Withdraw(c, i)
  BY DEF LeaveQueue
<1> USE DEF Goto, Forget, Return, Regrant, LeaveQueue, Withdraw, Sync
<1>2. UNCHANGED <<cur, closed, need>> /\ q' = RemoveAt(q, i)
  BY <1>1
<1>3. /\ pc' \in [Callers -> PC]
      /\ full' \in BOOLEAN
      /\ lock' \in {"free", "granting", "closing"}
      /\ done' \in [Callers -> BOOLEAN]
  BY <1>1 DEF Inv, TypeOK, PC
<1>4. state' \in [Callers -> WaitState] /\ state' = [state EXCEPT ![c] = "none"]
  BY <1>1 DEF Inv, TypeOK, WaitState
<1>5. ready' \in [Callers -> 0..1]
  BY <1>1, SMTT(30) DEF Inv, TypeOK
<1>6. Waiting' = Waiting \ {c}
  BY <1>4 DEF Inv, TypeOK, Waiting
<1>7. Lists(Callers, q', Waiting')
  BY <1>1, <1>2, <1>6, QueueLists, ListsRemove
<1>8. QueueExact' /\ q' \in Seq(Callers)
  BY <1>7 DEF QueueExact, Lists
<1>9. TypeOK'
  BY <1>2, <1>3, <1>4, <1>5, <1>8 DEF Inv, TypeOK
<1>10. WaiterProtocol'
  <2>1. /\ ready' = [ready EXCEPT ![c] = 0]
        /\ \E l \in {"idle", "granting"} : pc' = [pc EXCEPT ![c] = l]
    BY <1>1
  <2> QED BY <1>4, <2>1 DEF Inv, TypeOK, WaiterProtocol, PC, WaitState
<1>11. Owners' = Owners
  BY <1>1 DEF Inv, TypeOK, WaiterProtocol, Owners, Owns, PC, WaitState
<1> QED BY <1>2, <1>8, <1>9, <1>10, <1>11, UnitsKept DEF Inv

(* Units go back: from a release, or from a grant nobody wants.            *)
LEMMA ReturnSteps ==
  ASSUME Inv, NEW c \in Callers, LeaveGrant(c) \/ Release(c)
  PROVE  Inv'
<1> USE DEF Goto, Forget, Regrant, LeaveGrant, Release, Drained
<1>1. UNCHANGED <<q, closed, need, full>> /\ cur' = cur - need[c] /\ lock' = "granting"
  OBVIOUS
<1>2. cur' \in Int
  BY <1>1, SizeAssumption DEF Inv, TypeOK
<1>3. pc' \in [Callers -> PC] /\ done' \in [Callers -> BOOLEAN]
  BY DEF Inv, TypeOK, PC
<1>4. state' \in [Callers -> WaitState] /\ ready' \in [Callers -> 0..1]
  <2>1. state' \in [Callers -> WaitState]
    BY DEF Inv, TypeOK, WaitState
  <2>2. ready' \in [Callers -> 0..1]
    BY DEF Inv, TypeOK
  <2> QED BY <2>1, <2>2
<1>5. TypeOK'
  BY <1>1, <1>2, <1>3, <1>4 DEF Inv, TypeOK
<1>6. WaiterProtocol'
  BY DEF Inv, TypeOK, WaiterProtocol, PC, WaitState
<1>7. Waiting' = Waiting
  BY DEF Inv, TypeOK, WaiterProtocol, Waiting, PC, WaitState
<1>8. c \in Owners /\ Owners' = Owners \ {c}
  BY DEF Inv, TypeOK, WaiterProtocol, Owners, Owns, PC, WaitState
<1> HIDE DEF Goto, Forget, Regrant, LeaveGrant, Release, Drained
<1> QED BY <1>1, <1>5, <1>6, <1>7, <1>8, QueueKept, UnitsReturned DEF Inv

(* The head of the queue gets its verdict.                                 *)
LEMMA HeadWaits ==
  ASSUME Inv, q /= <<>>
  PROVE  /\ Head(q) \in Callers
         /\ state[Head(q)] = "waiting"
         /\ ready[Head(q)] = 0
         /\ pc[Head(q)] \in {"parked", "gaveup"}
         /\ Lists(Callers, Tail(q), Waiting \ {Head(q)})
<1>1. Head(q) \in Waiting /\ Head(q) \in Callers /\ Lists(Callers, Tail(q), Waiting \ {Head(q)})
  BY QueueLists, ListsTail
<1>2. state[Head(q)] = "waiting"
  BY <1>1 DEF Waiting
<1>3. ready[Head(q)] \in 0..1
  BY <1>1 DEF Inv, TypeOK
<1>4. ready[Head(q)] = 0 /\ pc[Head(q)] \in {"parked", "gaveup"}
  BY <1>1, <1>2, <1>3 DEF Inv, WaiterProtocol
<1> QED BY <1>1, <1>2, <1>4

LEMMA VerdictStep ==
  ASSUME Inv, q /= <<>>, NEW s \in {"granted", "withdrawn"}, Wake(Head(q), s),
         q' = Tail(q), UNCHANGED <<full, lock, need, pc, done, closed>>, cur' \in Int
  PROVE  TypeOK' /\ WaiterProtocol' /\ QueueExact'
<1> DEFINE w == Head(q)
<1>1. /\ w \in Callers /\ state[w] = "waiting" /\ ready[w] = 0 /\ pc[w] \in {"parked", "gaveup"}
      /\ Lists(Callers, Tail(q), Waiting \ {w})
  BY HeadWaits
<1> HIDE DEF w
<1>2. state' = [state EXCEPT ![w] = s] /\ ready' = [ready EXCEPT ![w] = @ + 1]
  BY DEF Wake, w
<1>3. state' \in [Callers -> WaitState] /\ ready' \in [Callers -> 0..1]
  BY <1>1, <1>2 DEF Inv, TypeOK, WaitState
<1>4. Waiting' = Waiting \ {w}
  BY <1>1, <1>2 DEF Inv, TypeOK, Waiting
<1>5. QueueExact' /\ q' \in Seq(Callers)
  BY <1>1, <1>4 DEF QueueExact, Lists
<1>6. TypeOK'
  BY <1>3, <1>5 DEF Inv, TypeOK
<1>7. WaiterProtocol'
  BY <1>1, <1>2 DEF Inv, TypeOK, WaiterProtocol, PC, WaitState
<1> QED BY <1>5, <1>6, <1>7

LEMMA GrantHeadStep == ASSUME Inv, NEW c \in Callers, GrantHead(c) PROVE Inv'
<1> DEFINE w == Head(q)
<1>1. /\ q /= <<>> /\ q' = Tail(q) /\ Wake(w, "granted")
      /\ Fits(need[w]) /\ cur' = cur + need[w]
      /\ UNCHANGED <<closed, full, lock, need, pc, done>>
  BY DEF GrantHead, Serve
<1>2. w \in Callers /\ state[w] = "waiting" /\ pc[w] \in {"parked", "gaveup"}
  BY <1>1, HeadWaits
<1>3. cur' \in Int
  BY <1>1, <1>2, SizeAssumption DEF Inv, TypeOK
<1>4. TypeOK' /\ WaiterProtocol' /\ QueueExact'
  BY <1>1, <1>3, VerdictStep
<1> HIDE DEF w
<1>5. w \notin Owners /\ Owners' = Owners \cup {w}
  BY <1>1, <1>2 DEF Inv, TypeOK, Wake, Owners, Owns
<1> QED BY <1>1, <1>2, <1>4, <1>5, UnitsGained DEF Inv

LEMMA CloseSteps == ASSUME Inv, Close PROVE Inv'
<1>1. CASE CloseStarts
  BY <1>1, QueueKept, UnitsKept
     DEF Inv, TypeOK, CloseStarts, callVars, WaiterProtocol, Waiting, Owners, Owns
<1>2. CASE CloseWithdraws
  <2> DEFINE w == Head(q)
  <2>1. /\ q /= <<>> /\ q' = Tail(q) /\ Wake(w, "withdrawn")
        /\ UNCHANGED <<cur, closed, full, lock, need, pc, done>>
    BY <1>2 DEF CloseWithdraws
  <2>2. w \in Callers /\ state[w] = "waiting"
    BY <2>1, HeadWaits
  <2>3. cur' \in Int
    BY <2>1 DEF Inv, TypeOK
  <2>4. TypeOK' /\ WaiterProtocol' /\ QueueExact'
    BY <2>1, <2>3, VerdictStep
  <2> HIDE DEF w
  <2>5. Owners' = Owners
    BY <2>1, <2>2 DEF Inv, TypeOK, Wake, Owners, Owns
  <2> QED BY <2>1, <2>4, <2>5, UnitsKept DEF Inv
<1>3. CASE CloseEnds
  BY <1>3, QueueKept, UnitsKept
     DEF Inv, TypeOK, CloseEnds, Sync, callVars, WaiterProtocol, Waiting, Owners, Owns
<1> QED BY <1>1, <1>2, <1>3 DEF Close

LEMMA StutterStep == ASSUME Inv, UNCHANGED vars PROVE Inv'
<1> USE DEF vars
<1>1. TypeOK' /\ WaiterProtocol'
  BY DEF Inv, TypeOK, WaiterProtocol
<1>2. Waiting' = Waiting /\ Owners' = Owners
  BY DEF Waiting, Owners, Owns
<1> QED BY <1>1, <1>2, QueueKept, UnitsKept DEF Inv

LEMMA NextInv == ASSUME Inv, [Next]_vars PROVE Inv'
<1>1. ASSUME NEW c \in Callers, Call(c) PROVE Inv'
  <2>1. \/ Quiet(c) \/ Takes(c) \/ AcquireQueues(c) \/ LeaveQueue(c)
        \/ LeaveGrant(c) \/ Release(c) \/ GrantHead(c)
    BY <1>1 DEF Call, Acquire, Leave, Grant, Quiet, Takes, TryLocked, AcquireNow
  <2> QED BY <2>1, QuietSteps, TakeSteps, QueueStep, LeaveQueueStep, ReturnSteps, GrantHeadStep
<1>2. CASE Close
  BY <1>2, CloseSteps
<1>3. CASE UNCHANGED vars
  BY <1>3, StutterStep
<1> QED BY <1>1, <1>2, <1>3 DEF Next
-----------------------------------------------------------------------------
LEMMA InvAlways == Spec => []Inv
<1>1. Init => Inv
  BY InitInv
<1>2. Inv /\ [Next]_vars => Inv'
  BY NextInv
<1> QED BY <1>1, <1>2, PTL DEF Spec

(* What the sections that keep the lock over several steps rely on: the    *)
(* loop of grant() runs in one caller at a time, which holds mu.           *)
GrantsLocked ==
  \A c \in Callers : pc[c] = "granting" =>
    lock = "granting" /\ \A d \in Callers : pc[d] = "granting" => d = c

(* Both promises about the moments when mu is free: they need GrantsLocked *)
(* because the loop breaks them until it ends, and the queue's typing      *)
(* because they look at its head.                                          *)
Settled == GrantsLocked /\ NoLostWakeup /\ FullExact

LEMMA GrantsStayLocked ==
  ASSUME Inv, GrantsLocked, [Next]_vars
  PROVE  GrantsLocked'
<1>1. ASSUME NEW c \in Callers, Call(c) PROVE GrantsLocked'
  <2> USE DEF Goto, Forget, Return, Keep, Regrant
  <2>1. CASE Begin(c) \/ CtxEnds(c) \/ TryLoad(c) \/ TryLocked(c)
    BY <2>1 DEF Inv, TypeOK, GrantsLocked, Begin, CtxEnds, TryLoad, TryLocked, TakeUnits
  <2>2. CASE Acquire(c)
    BY <2>2 DEF Inv, TypeOK, GrantsLocked, Acquire, AcquireNow, TakeUnits, AcquireRefused,
                AcquireQueues
  <2>3. CASE TakeToken(c) \/ GiveUp(c) \/ Release(c)
    BY <2>3 DEF Inv, TypeOK, GrantsLocked, TakeToken, GiveUp, Release
  <2>4. CASE Leave(c)
    BY <2>4 DEF Inv, TypeOK, GrantsLocked, Leave, LeaveQueue, Withdraw, LeaveGrant,
                LeaveWithdrawn
  <2>5. CASE Grant(c)
    BY <2>5 DEF Inv, TypeOK, GrantsLocked, Grant, GrantHead, Serve, GrantEnds
  <2> QED BY <1>1, <2>1, <2>2, <2>3, <2>4, <2>5 DEF Call
<1>2. CASE Close
  BY <1>2 DEF GrantsLocked, Close, CloseStarts, CloseWithdraws, CloseEnds, callVars
<1>3. CASE UNCHANGED vars
  BY <1>3 DEF GrantsLocked, vars
<1> QED BY <1>1, <1>2, <1>3 DEF Next

(* The three ways in which a step leaves mu free: nothing moved, the last  *)
(* action of the section was sync, or the lock is not free at all.         *)
LEMMA FullStaysExact ==
  ASSUME Inv, GrantsLocked, FullExact, [Next]_vars
  PROVE  FullExact'
<1>1. \/ lock' /= "free"
      \/ Sync
      \/ UNCHANGED <<cur, q, closed, full, lock>>
  <2>1. ASSUME NEW c \in Callers, Call(c)
        PROVE  \/ lock' /= "free"
               \/ Sync
               \/ UNCHANGED <<cur, q, closed, full, lock>>
    BY <2>1 DEF GrantsLocked, Call, Begin, CtxEnds, TryLoad, TryLocked, TakeUnits, Acquire,
         AcquireNow, AcquireRefused, AcquireQueues, TakeToken, GiveUp, Leave, LeaveQueue,
         Withdraw, LeaveGrant, LeaveWithdrawn, Release, Regrant, Grant, GrantHead, Serve,
         GrantEnds
  <2> QED BY <2>1 DEF Next, Close, CloseStarts, CloseWithdraws, CloseEnds, callVars, vars
<1> QED BY <1>1 DEF FullExact, Sync

(* The head of the queue after a step that leaves mu free is the head it   *)
(* was, in a budget no emptier; or a caller that did not fit an empty      *)
(* queue; or one at which the loop of grant() gave up.                     *)
LEMMA HeadStaysBlocked ==
  ASSUME Inv, GrantsLocked, NoLostWakeup, [Next]_vars
  PROVE  NoLostWakeup'
<1> USE DEF NoLostWakeup
<1>1. ASSUME NEW c \in Callers, AcquireQueues(c) PROVE NoLostWakeup'
  <2>1. lock = "free" /\ ~AtOnce(c) /\ q' = Append(q, c) /\ UNCHANGED <<cur, need>>
    BY <1>1 DEF AcquireQueues
  <2>2. q \in Seq(Callers)
    BY DEF Inv, TypeOK
  <2>3. CASE q = <<>>
    <3>1. Head(q') = c
      BY <2>1, <2>3
    <3> QED BY <2>1, <2>3, <3>1 DEF AtOnce, Fits
  <2>4. CASE q /= <<>>
    <3>1. Head(q') = Head(q)
      BY <2>1, <2>2, <2>4
    <3> QED BY <2>1, <2>4, <3>1 DEF Fits
  <2> QED BY <2>3, <2>4
<1>2. ASSUME NEW c \in Callers, LeaveQueue(c) PROVE NoLostWakeup'
  <2>1. PICK i \in DOMAIN q : q[i] = c /\ Withdraw(c, i)
    BY <1>2 DEF LeaveQueue
  <2>2. lock = "free" /\ q' = RemoveAt(q, i) /\ UNCHANGED <<cur, need>>
    BY <1>2, <2>1 DEF LeaveQueue, Withdraw
  <2>3. q \in Seq(Callers) /\ i \in 1..Len(q) /\ Len(q) \in Nat
    BY LenProperties DEF Inv, TypeOK
  <2>4. CASE i = 1
    BY <2>1, <2>4 DEF Withdraw, Regrant
  <2>5. CASE i /= 1
    <3>1. /\ RemoveAt(q, i) \in Seq(Callers)
          /\ Len(RemoveAt(q, i)) = Len(q) - 1
          /\ \A j \in 1..(Len(q) - 1) : RemoveAt(q, i)[j] = IF j < i THEN q[j] ELSE q[j+1]
      BY <2>3, RemoveAtProperties
    <3>2. q /= <<>> /\ 1 \in 1..(Len(q) - 1) /\ 1 < i
      BY <2>3, <2>5
    <3>3. RemoveAt(q, i)[1] = q[1]
      BY <3>1, <3>2
    <3>4. Head(q') = Head(q)
      BY <2>2, <2>3, <3>1, <3>2, <3>3
    <3> QED BY <2>2, <3>2, <3>4 DEF Fits
  <2> QED BY <2>4, <2>5
<1>3. ASSUME NEW c \in Callers, GrantEnds(c) PROVE NoLostWakeup'
  BY <1>3 DEF GrantEnds, Fits
<1>4. ASSUME NEW c \in Callers, Call(c),
             ~AcquireQueues(c), ~LeaveQueue(c), ~GrantEnds(c)
      PROVE  lock' /= "free" \/ q' = <<>> \/ UNCHANGED <<cur, q, lock, need>>
  BY <1>4 DEF GrantsLocked, Call, Begin, CtxEnds, TryLoad, TryLocked, TakeUnits, AtOnce,
       Acquire, AcquireNow, AcquireRefused, TakeToken, GiveUp, Leave, LeaveGrant,
       LeaveWithdrawn, Release, Regrant, Grant, GrantHead, Serve
<1>5. CASE Close
  BY <1>5 DEF Close, CloseStarts, CloseWithdraws, CloseEnds
<1>6. CASE UNCHANGED vars
  BY <1>6 DEF vars, Fits
<1> QED BY <1>1, <1>2, <1>3, <1>4, <1>5, <1>6 DEF Next, Fits

LEMMA SettledAlways == Spec => []Settled
<1>1. Init => Settled
  BY SizeAssumption DEF Init, Settled, GrantsLocked, NoLostWakeup, FullExact
<1>2. Inv /\ Settled /\ [Next]_vars => Settled'
  BY GrantsStayLocked, FullStaysExact, HeadStaysBlocked DEF Settled
<1> QED BY <1>1, <1>2, InvAlways, PTL DEF Spec

(* No wake-up is lost: whenever mu is free the head of the queue does not  *)
(* fit, although units come back one section at a time from releases, late *)
(* grants and heads that leave.                                            *)
THEOREM NoWakeupIsLost == Spec => []NoLostWakeup
BY SettledAlways, PTL DEF Settled

(* The flag that a Reject call reads without the lock says exactly what    *)
(* the lock would have told it, whenever nobody holds the lock.            *)
THEOREM FullIsExact == Spec => []FullExact
BY SettledAlways, PTL DEF Settled

(* Every variable keeps its type; in particular no token is ever sent to a *)
(* channel that still holds one, so wake never blocks with mu held.        *)
THEOREM TypeCorrect == Spec => []TypeOK
BY InvAlways, PTL DEF Inv

(* No unit is lost or invented, whatever the order of grants, withdrawals, *)
(* cancellations and the close.                                            *)
THEOREM UnitsConserved == Spec => []Conservation
BY InvAlways, PTL DEF Inv

(* The capacity holds at every step of every critical section.             *)
THEOREM NeverExceeded == Spec => []CapacityRespected
BY InvAlways, PTL DEF Inv

(* The queue is exactly the callers that wait, each once.                  *)
THEOREM QueueIsExact == Spec => []QueueExact
BY InvAlways, PTL DEF Inv

(* A verdict comes with its token, so leave never blocks on an empty       *)
(* channel with mu held, and no wake-up is taken for a caller in the queue.*)
THEOREM WaitersFollowProtocol == Spec => []WaiterProtocol
BY InvAlways, PTL DEF Inv
-----------------------------------------------------------------------------
(* The refinement of Sem.  First its operators on values: what the first   *)
(* k of a list of waiters want, and how many of them can be served.        *)
Waiter == [id : Callers, n : 1..Size]
Weights(a) == [i \in 1..Len(a) |-> a[i].n]

LEMMA DemandIs ==
  ASSUME NEW a \in Seq(Waiter)
  PROVE  /\ PrefixSum(Len(a), Weights(a), Now!Demand(a))
         /\ Now!Demand(a) \in [0..Len(a) -> Nat]
         /\ Now!Demand(a)[0] = 0
         /\ \A k \in 1..Len(a) : Now!Demand(a)[k] = Now!Demand(a)[k-1] + a[k].n
<1> DEFINE n == Len(a)
           w == Weights(a)
           P(f) == f = [k \in 0..n |-> IF k = 0 THEN 0 ELSE f[k-1] + a[k].n]
           D == CHOOSE f : P(f)
<1>1. Now!Demand(a) = D
  BY DEF Now!Demand
<1>2. n \in Nat /\ \A i \in 1..n : w[i] = a[i].n /\ w[i] \in Nat
  <2>1. n \in Nat /\ \A i \in 1..n : a[i] \in Waiter
    BY ElementOfSeq, LenProperties
  <2> QED BY <2>1, SizeAssumption DEF Weights, Waiter
<1> HIDE DEF n, w
<1>3. ASSUME NEW f PROVE PrefixSum(n, w, f) <=> P(f)
  <2>1. \A k \in 0..n : k /= 0 => w[k] = a[k].n
    BY <1>2
  <2> QED BY <2>1 DEF PrefixSum
<1>4. \E f : PrefixSum(n, w, f)
  BY <1>2, PrefixSumExists
<1> HIDE DEF P
<1>5. P(D)
  BY <1>3, <1>4
<1>6. PrefixSum(n, w, D)
  BY <1>3, <1>5
<1> HIDE DEF D
<1>7. /\ D \in [0..n -> Nat] /\ D[0] = 0
      /\ \A k \in 1..n : D[k] = D[k-1] + w[k]
  BY <1>2, <1>6, PrefixSumIs
<1> QED BY <1>1, <1>2, <1>6, <1>7 DEF n, w

LEMMA ServedIs ==
  ASSUME NEW a \in Seq(Waiter), NEW u \in Int, u <= Size
  PROVE  /\ Now!Served(u, a) \in 0..Len(a)
         /\ u + Now!Demand(a)[Now!Served(u, a)] <= Size
         /\ \A j \in 0..Len(a) : u + Now!Demand(a)[j] <= Size => j <= Now!Served(u, a)
<1> DEFINE F == {k \in 0..Len(a) : u + Now!Demand(a)[k] <= Size}
<1>1. Len(a) \in Nat /\ F \in SUBSET (0..Len(a)) /\ 0 \in F
  BY DemandIs, LenProperties
<1>2. Now!Served(u, a) = Max(F)
  BY DEF Now!Served, Now!Max, Max
<1>3. \A x : x \in F <=> x \in 0..Len(a) /\ u + Now!Demand(a)[x] <= Size
  OBVIOUS
<1> HIDE DEF F
<1>4. Max(F) \in F /\ \A x \in F : x <= Max(F)
  BY <1>1, MaxOfBounded
<1> QED BY <1>2, <1>3, <1>4

LEMMA SameOperators ==
  /\ \A a : Abstract!Demand(a) = Now!Demand(a)
  /\ \A u, a : Abstract!Served(u, a) = Now!Served(u, a)
  /\ \A S : Abstract!Max(S) = Max(S)
  /\ \A a : Abstract!ToSet(a) = ToSet(a)
  /\ \A a, i : Abstract!RemoveAt(a, i) = RemoveAt(a, i)
BY DEF Abstract!ToSet, ToSet, Abstract!RemoveAt, RemoveAt,
       Abstract!Demand, Now!Demand, Abstract!Served, Now!Served, Abstract!Max, Now!Max, Max

LEMMA OperatorsRigid ==
  ASSUME NEW u, NEW a
  PROVE  Now!Demand(a)' = Now!Demand(a) /\ Now!Served(u, a)' = Now!Served(u, a)
BY DEF Now!Demand, Now!Served, Now!Max

LEMMA DemandShift ==
  ASSUME NEW a \in Seq(Waiter), a /= <<>>
  PROVE  \A j \in 0..Len(Tail(a)) :
           Now!Demand(Tail(a))[j] = Now!Demand(a)[j+1] - Now!Demand(a)[1]
<1> DEFINE D == Now!Demand(a)
           E == Now!Demand(Tail(a))
           n == Len(a)
           T == {j \in Nat : j <= n-1 => E[j] = D[j+1] - D[1]}
<1>1. n \in Nat /\ n >= 1
  BY EmptySeq
<1>2. Tail(a) \in Seq(Waiter) /\ Len(Tail(a)) = n-1 /\ \A i \in 1..(n-1) : Tail(a)[i] = a[i+1]
  BY HeadTailProperties
<1>3. D \in [0..n -> Nat] /\ \A k \in 1..n : D[k] = D[k-1] + a[k].n
  BY DemandIs
<1>4. /\ E \in [0..(n-1) -> Nat] /\ E[0] = 0
      /\ \A k \in 1..(n-1) : E[k] = E[k-1] + Tail(a)[k].n
  <2>1. /\ E \in [0..Len(Tail(a)) -> Nat] /\ E[0] = 0
        /\ \A k \in 1..Len(Tail(a)) : E[k] = E[k-1] + Tail(a)[k].n
    BY <1>2, DemandIs
  <2> QED BY <1>2, <2>1
<1>5. \A k \in 1..(n-1) : a[k+1].n \in Nat
  <2>1. \A k \in 1..n : a[k] \in Waiter
    BY <1>1, ElementOfSeq
  <2> QED BY <1>1, <2>1, SizeAssumption DEF Waiter
<1> HIDE DEF D, E, n
<1>6. 0 \in T
  BY <1>1, <1>3, <1>4
<1>7. ASSUME NEW m \in Nat, m \in T PROVE m+1 \in T
  <2> SUFFICES ASSUME m+1 <= n-1 PROVE E[m+1] = D[m+1+1] - D[1]
    OBVIOUS
  <2>1. m+1 \in 1..(n-1) /\ m+1+1 \in 1..n /\ m+1-1 = m /\ m+1+1-1 = m+1
    BY <1>1
  <2>2. E[m+1] = E[m] + a[m+1+1].n
    BY <1>2, <1>4, <2>1
  <2>3. D[m+1+1] = D[m+1] + a[m+1+1].n
    BY <1>3, <2>1
  <2>4. E[m] = D[m+1] - D[1]
    BY <1>1, <1>7
  <2>5. D[m+1] \in Nat /\ D[1] \in Nat
    BY <1>1, <1>3, <2>1
  <2>6. a[m+1+1].n \in Nat
    BY <1>5, <2>1
  <2> QED BY <2>2, <2>3, <2>4, <2>5, <2>6
<1>8. Nat \subseteq T
  BY ONLY <1>6, <1>7, NatSetInduction
<1> QED BY <1>1, <1>2, <1>8 DEF D, E

(* Nobody wants less than the head of the queue and those behind it.       *)
LEMMA DemandOfHead ==
  ASSUME NEW a \in Seq(Waiter), a /= <<>>
  PROVE  /\ 1 \in 1..Len(a) /\ a[1].n \in Nat /\ Now!Demand(a)[1] = a[1].n
         /\ \A k \in 1..Len(a) : Now!Demand(a)[k] >= a[1].n
<1>1. Len(a) \in Nat /\ Len(a) >= 1
  BY EmptySeq
<1>2. Tail(a) \in Seq(Waiter) /\ Len(Tail(a)) = Len(a)-1
  BY HeadTailProperties
<1>3. a[1] \in Waiter
  BY <1>1, ElementOfSeq
<1>4. a[1].n \in Nat
  BY <1>3, SizeAssumption DEF Waiter
<1>5. /\ Now!Demand(a) \in [0..Len(a) -> Nat] /\ Now!Demand(a)[0] = 0
      /\ \A k \in 1..Len(a) : Now!Demand(a)[k] = Now!Demand(a)[k-1] + a[k].n
  BY DemandIs
<1>6. Now!Demand(a)[1] = a[1].n
  BY <1>1, <1>4, <1>5
<1>7. Now!Demand(Tail(a)) \in [0..Len(Tail(a)) -> Nat]
  BY <1>2, DemandIs
<1>8. ASSUME NEW k \in 1..Len(a) PROVE Now!Demand(a)[k] >= a[1].n
  <2>1. k-1 \in 0..Len(Tail(a)) /\ k-1+1 = k
    BY <1>1, <1>2
  <2>2. Now!Demand(Tail(a))[k-1] = Now!Demand(a)[k] - Now!Demand(a)[1]
    BY <2>1, DemandShift
  <2>3. Now!Demand(Tail(a))[k-1] \in Nat /\ Now!Demand(a)[k] \in Nat
    <3>1. k \in 0..Len(a)
      BY <1>1
    <3>2. Now!Demand(a)[k] \in Nat
      BY ONLY <1>5, <3>1
    <3> QED BY ONLY <1>7, <2>1, <3>2
  <2>4. PICK x \in Nat : x = Now!Demand(a)[k]
    BY <2>3
  <2>5. PICK y \in Nat : y = Now!Demand(Tail(a))[k-1]
    BY <2>3
  <2>6. y = x - a[1].n
    BY <1>6, <2>2, <2>4, <2>5
  <2>7. x >= a[1].n
    BY ONLY <1>4, <2>6, x \in Nat, y \in Nat
  <2> QED BY <2>4, <2>7
<1> QED BY <1>1, <1>4, <1>6, <1>8

(* A turn of the loop serves the first of those it was going to serve.     *)
LEMMA ServedShift ==
  ASSUME NEW a \in Seq(Waiter), a /= <<>>, NEW u \in Int, u + a[1].n <= Size
  PROVE  /\ Now!Served(u, a) \in 1..Len(a)
         /\ Now!Served(u + a[1].n, Tail(a)) = Now!Served(u, a) - 1
         /\ u + a[1].n + Now!Demand(Tail(a))[Now!Served(u, a) - 1]
              = u + Now!Demand(a)[Now!Served(u, a)]
<1> DEFINE D == Now!Demand(a)
           E == Now!Demand(Tail(a))
           n == Len(a)
           x == a[1].n
           k == Now!Served(u, a)
           l == Now!Served(u + x, Tail(a))
<1>1. 1 \in 1..n /\ x \in Nat /\ D[1] = x
  BY DemandOfHead
<1>2. Tail(a) \in Seq(Waiter) /\ Len(Tail(a)) = n-1 /\ n \in Nat
  BY HeadTailProperties, LenProperties
<1>3. u <= Size /\ u + x \in Int /\ u + x <= Size
  BY <1>1, SizeAssumption
<1>4. k \in 0..n /\ u + D[k] <= Size /\ \A j \in 0..n : u + D[j] <= Size => j <= k
  BY <1>3, ServedIs
<1>5. /\ l \in 0..(n-1) /\ u + x + E[l] <= Size
      /\ \A j \in 0..(n-1) : u + x + E[j] <= Size => j <= l
  <2>1. /\ l \in 0..Len(Tail(a)) /\ u + x + E[l] <= Size
        /\ \A j \in 0..Len(Tail(a)) : u + x + E[j] <= Size => j <= l
    BY ONLY <1>2, <1>3, ServedIs
  <2> QED BY <1>2, <2>1
<1>6. \A j \in 0..(n-1) : E[j] = D[j+1] - x /\ E[j] \in Nat /\ D[j+1] \in Nat
  <2>1. \A j \in 0..(n-1) : E[j] = D[j+1] - D[1]
    BY <1>2, DemandShift
  <2>2. D \in [0..n -> Nat]
    BY DemandIs
  <2>3. E \in [0..(n-1) -> Nat]
    <3>1. E \in [0..Len(Tail(a)) -> Nat]
      BY <1>2, DemandIs
    <3> QED BY <1>2, <3>1
  <2>4. n \in Nat /\ x \in Nat /\ D[1] = x
    BY <1>1, <1>2
  <2> HIDE DEF D, E, n, x
  <2>5. \A j \in 0..(n-1) : j+1 \in 0..n
    BY <2>4
  <2> QED BY <2>1, <2>2, <2>3, <2>4, <2>5
<1> HIDE DEF D, E, n, x, k, l
<1>7. 1 <= k
  BY <1>1, <1>2, <1>3, <1>4
<1>8. k-1 <= l
  <2>1. k-1 \in 0..(n-1) /\ k-1+1 = k
    BY <1>2, <1>4, <1>7
  <2>2. E[k-1] = D[k] - x /\ D[k] \in Nat
    BY <1>6, <2>1
  <2> QED BY <1>1, <1>3, <1>4, <1>5, <2>1, <2>2
<1>9. l+1 <= k
  <2>1. l+1 \in 0..n
    BY <1>2, <1>5
  <2>2. E[l] = D[l+1] - x /\ D[l+1] \in Nat
    BY <1>5, <1>6
  <2> QED BY <1>1, <1>3, <1>4, <1>5, <2>1, <2>2
<1>10. l = k-1
  BY <1>2, <1>4, <1>5, <1>8, <1>9
<1>11. u + x + E[k-1] = u + D[k]
  <2>1. k-1 \in 0..(n-1) /\ k-1+1 = k
    BY <1>2, <1>4, <1>7
  <2>2. E[k-1] = D[k] - x /\ D[k] \in Nat
    BY <1>6, <2>1
  <2> QED BY <1>1, <2>2
<1>12. k \in 1..n
  BY <1>2, <1>4, <1>7
<1> QED BY <1>10, <1>11, <1>12 DEF D, E, n, x, k, l

(* It serves nobody once the head does not fit.                            *)
LEMMA ServedNone ==
  ASSUME NEW a \in Seq(Waiter), NEW u \in Int, u <= Size,
         a /= <<>> => ~(u + a[1].n <= Size)
  PROVE  Now!Served(u, a) = 0
<1> DEFINE k == Now!Served(u, a)
<1>1. k \in 0..Len(a) /\ u + Now!Demand(a)[k] <= Size
  BY ServedIs
<1>2. Len(a) \in Nat /\ (a = <<>> => Len(a) = 0)
  BY LenProperties, EmptySeq
<1>3. Now!Demand(a) \in [0..Len(a) -> Nat]
  BY DemandIs
<1> HIDE DEF k
<1>4. ASSUME k /= 0 PROVE FALSE
  <2>1. a /= <<>> /\ k \in 1..Len(a)
    BY <1>1, <1>2, <1>4
  <2>2. a[1].n \in Nat /\ Now!Demand(a)[k] >= a[1].n
    BY <2>1, DemandOfHead
  <2>3. Now!Demand(a)[k] \in Nat
    BY <1>1, <1>3
  <2> QED BY <1>1, <2>1, <2>2, <2>3, SizeAssumption
<1> QED BY <1>4 DEF k
-----------------------------------------------------------------------------
(* A queue of callers as a queue of Sem, and what the steps do to it.      *)
LEMMA LineIs ==
  ASSUME Inv, NEW s \in Seq(Callers)
  PROVE  /\ Line(s) \in Seq(Waiter)
         /\ Len(Line(s)) = Len(s)
         /\ \A i \in 1..Len(s) : Line(s)[i] = [id |-> s[i], n |-> need[s[i]]]
<1>1. Len(s) \in Nat /\ DOMAIN s = 1..Len(s)
  BY LenProperties
<1>2. \A i \in 1..Len(s) : s[i] \in Callers /\ need[s[i]] \in 1..Size
  BY ElementOfSeq DEF Inv, TypeOK
<1>3. Line(s) = [i \in 1..Len(s) |-> [id |-> s[i], n |-> need[s[i]]]]
  BY <1>1 DEF Line
<1>4. Line(s) \in [1..Len(s) -> Waiter]
  BY <1>2, <1>3 DEF Waiter
<1> QED BY <1>1, <1>3, <1>4

LEMMA LineTail ==
  ASSUME Inv, NEW s \in Seq(Callers), s /= <<>>
  PROVE  Line(s) /= <<>> /\ Line(Tail(s)) = Tail(Line(s))
<1>1. Len(s) \in Nat /\ Len(s) >= 1
  BY EmptySeq
<1>2. /\ Tail(s) \in Seq(Callers) /\ Len(Tail(s)) = Len(s)-1
      /\ \A i \in 1..(Len(s)-1) : Tail(s)[i] = s[i+1]
  BY HeadTailProperties
<1> DEFINE a == Line(s)
           b == Line(Tail(s))
<1>3. /\ a \in Seq(Waiter) /\ Len(a) = Len(s)
      /\ \A i \in 1..Len(s) : a[i] = [id |-> s[i], n |-> need[s[i]]]
  BY LineIs
<1>4. /\ b \in Seq(Waiter) /\ Len(b) = Len(s)-1
      /\ \A i \in 1..(Len(s)-1) : b[i] = [id |-> s[i+1], n |-> need[s[i+1]]]
  <2>1. /\ b \in Seq(Waiter) /\ Len(b) = Len(Tail(s))
        /\ \A i \in 1..Len(Tail(s)) : b[i] = [id |-> Tail(s)[i], n |-> need[Tail(s)[i]]]
    BY <1>2, LineIs
  <2> HIDE DEF b
  <2> QED BY <1>2, <2>1
<1> HIDE DEF a, b
<1>5. a /= <<>>
  BY <1>1, <1>3, EmptySeq
<1>6. /\ Tail(a) \in Seq(Waiter) /\ Len(Tail(a)) = Len(s)-1
      /\ \A i \in 1..(Len(s)-1) : Tail(a)[i] = a[i+1]
  BY <1>3, <1>5, HeadTailProperties
<1>7. \A i \in 1..(Len(s)-1) : b[i] = Tail(a)[i]
  <2>1. \A i \in 1..(Len(s)-1) : i+1 \in 1..Len(s)
    BY <1>1
  <2> QED BY <1>3, <1>4, <1>6, <2>1
<1>8. b = Tail(a)
  BY <1>4, <1>6, <1>7, SeqEqual
<1> QED BY <1>5, <1>8 DEF a, b

LEMMA LineAppend ==
  ASSUME Inv, NEW s \in Seq(Callers), NEW c \in Callers
  PROVE  Line(Append(s, c)) = Append(Line(s), [id |-> c, n |-> need[c]])
<1> DEFINE a == Line(s)
           e == [id |-> c, n |-> need[c]]
           b == Line(Append(s, c))
<1>1. /\ Append(s, c) \in Seq(Callers) /\ Len(Append(s, c)) = Len(s)+1 /\ Len(s) \in Nat
      /\ \A i \in 1..Len(s) : Append(s, c)[i] = s[i]
      /\ Append(s, c)[Len(s)+1] = c
  BY AppendProperties, LenProperties
<1>2. /\ a \in Seq(Waiter) /\ Len(a) = Len(s)
      /\ \A i \in 1..Len(s) : a[i] = [id |-> s[i], n |-> need[s[i]]]
  BY LineIs
<1>3. /\ b \in Seq(Waiter) /\ Len(b) = Len(s)+1
      /\ \A i \in 1..(Len(s)+1) : b[i] = [id |-> Append(s, c)[i], n |-> need[Append(s, c)[i]]]
  BY <1>1, LineIs
<1>4. e \in Waiter
  BY DEF Inv, TypeOK, Waiter
<1>5. /\ \A i \in 1..Len(s) : b[i] = [id |-> s[i], n |-> need[s[i]]]
      /\ b[Len(s)+1] = e
  BY <1>1, <1>3
<1> HIDE DEF a, b, e
<1>6. /\ Append(a, e) \in Seq(Waiter) /\ Len(Append(a, e)) = Len(s)+1
      /\ \A i \in 1..Len(s) : Append(a, e)[i] = a[i]
      /\ Append(a, e)[Len(s)+1] = e
  BY <1>2, <1>4, AppendProperties
<1>7. \A i \in 1..(Len(s)+1) : b[i] = Append(a, e)[i]
  <2>1. \A i \in 1..(Len(s)+1) : i \in 1..Len(s) \/ i = Len(s)+1
    BY <1>1
  <2> QED BY <1>2, <1>5, <1>6, <2>1
<1>8. b = Append(a, e)
  BY <1>3, <1>6, <1>7, SeqEqual
<1> QED BY <1>8 DEF a, b, e

LEMMA LineRemoveAt ==
  ASSUME Inv, NEW s \in Seq(Callers), NEW i \in 1..Len(s)
  PROVE  Line(RemoveAt(s, i)) = RemoveAt(Line(s), i)
<1> DEFINE a == Line(s)
           t == RemoveAt(s, i)
           b == Line(t)
           n == Len(s)
<1>1. t \in Seq(Callers) /\ Len(t) = n-1 /\ n \in Nat
      /\ \A j \in 1..(n-1) : t[j] = IF j < i THEN s[j] ELSE s[j+1]
  BY RemoveAtProperties, LenProperties
<1>2. /\ a \in Seq(Waiter) /\ Len(a) = n
      /\ \A j \in 1..n : a[j] = [id |-> s[j], n |-> need[s[j]]]
  BY LineIs
<1>3. i \in 1..Len(a)
  BY <1>2
<1> HIDE DEF t
<1>4. /\ b \in Seq(Waiter) /\ Len(b) = n-1
      /\ \A j \in 1..(n-1) : b[j] = [id |-> t[j], n |-> need[t[j]]]
  BY <1>1, LineIs
<1> HIDE DEF a, b, n
<1>5. RemoveAt(a, i) \in Seq(Waiter) /\ Len(RemoveAt(a, i)) = n-1
      /\ \A j \in 1..(n-1) : RemoveAt(a, i)[j] = IF j < i THEN a[j] ELSE a[j+1]
  <2>1. RemoveAt(a, i) \in Seq(Waiter) /\ Len(RemoveAt(a, i)) = Len(a)-1
        /\ \A j \in 1..(Len(a)-1) : RemoveAt(a, i)[j] = IF j < i THEN a[j] ELSE a[j+1]
    BY ONLY <1>2, <1>3, RemoveAtProperties
  <2> QED BY <1>2, <2>1
<1>6. ASSUME NEW j \in 1..(n-1) PROVE b[j] = RemoveAt(a, i)[j]
  <2>1. j \in 1..n /\ j+1 \in 1..n
    BY <1>1
  <2>2. CASE j < i
    <3>1. t[j] = s[j] /\ RemoveAt(a, i)[j] = a[j]
      BY <1>1, <1>5, <2>2
    <3> QED BY <1>2, <1>4, <2>1, <3>1
  <2>3. CASE ~(j < i)
    <3>1. t[j] = s[j+1] /\ RemoveAt(a, i)[j] = a[j+1]
      BY <1>1, <1>5, <2>3
    <3> QED BY <1>2, <1>4, <2>1, <3>1
  <2> QED BY <2>2, <2>3
<1>7. b = RemoveAt(a, i)
  BY <1>4, <1>5, <1>6, SeqEqual
<1> QED BY <1>7 DEF a, b, t
-----------------------------------------------------------------------------
(* What Sem sees of a state of the budget.                                 *)
Granted == [c \in Callers |-> IF Owns(c) THEN need[c] ELSE 0]

LEMMA QueueTyped ==
  Inv => /\ q \in Seq(Callers) /\ Line(q) \in Seq(Waiter) /\ Len(Line(q)) = Len(q)
         /\ Len(q) \in Nat /\ DOMAIN q = 1..Len(q)
         /\ \A i \in 1..Len(q) : Line(q)[i].id = q[i] /\ Line(q)[i].n = need[q[i]]
         /\ cur \in Int /\ cur <= Size /\ need \in [Callers -> 1..Size]
<1> SUFFICES ASSUME Inv
    PROVE  /\ q \in Seq(Callers) /\ Line(q) \in Seq(Waiter) /\ Len(Line(q)) = Len(q)
           /\ Len(q) \in Nat /\ DOMAIN q = 1..Len(q)
           /\ \A i \in 1..Len(q) : Line(q)[i].id = q[i] /\ Line(q)[i].n = need[q[i]]
           /\ cur \in Int /\ cur <= Size /\ need \in [Callers -> 1..Size]
  OBVIOUS
<1>1. q \in Seq(Callers)
  BY DEF Inv, TypeOK
<1>2. cur \in Int /\ cur <= Size /\ need \in [Callers -> 1..Size]
  BY SizeAssumption DEF Inv, TypeOK, CapacityRespected
<1>3. \A i \in 1..Len(q) : Line(q)[i].id = q[i] /\ Line(q)[i].n = need[q[i]]
  <2>1. \A i \in 1..Len(q) : Line(q)[i] = [id |-> q[i], n |-> need[q[i]]]
    BY <1>1, LineIs
  <2> SUFFICES ASSUME NEW i \in 1..Len(q)
               PROVE  Line(q)[i].id = q[i] /\ Line(q)[i].n = need[q[i]]
    OBVIOUS
  <2>2. Line(q)[i] = [id |-> q[i], n |-> need[q[i]]]
    BY <2>1
  <2> QED BY <2>2
<1> QED BY <1>1, <1>2, <1>3, LineIs, LenProperties

LEMMA ViewUnlocked ==
  Inv /\ lock /= "granting" =>
    /\ InUse = cur
    /\ Left = IF lock = "closing" THEN <<>> ELSE Line(q)
    /\ Has = Granted
<1> SUFFICES ASSUME Inv, lock /= "granting"
             PROVE  /\ InUse = cur
                    /\ Left = IF lock = "closing" THEN <<>> ELSE Line(q)
                    /\ Has = Granted
  OBVIOUS
<1>1. Pending = 0
  BY DEF Pending
<1>2. InUse = cur
  <2>1. Now!Demand(Line(q))[0] = 0
    BY QueueTyped, DemandIs
  <2> QED BY <1>1, <2>1, QueueTyped DEF InUse
<1>3. Left = IF lock = "closing" THEN <<>> ELSE Line(q)
  <2>1. SubSeq(Line(q), 0 + 1, Len(q)) = Line(q)
    BY QueueTyped, SubSeqFull, 0 + 1 = 1
  <2> QED BY <1>1, <2>1 DEF Left
<1>4. Has = Granted
  BY <1>1 DEF Has, Promised, Granted
<1> QED BY <1>2, <1>3, <1>4

LEMMA ViewGranting ==
  Inv /\ lock = "granting" =>
    \A u, a : cur = u /\ Line(q) = a =>
      /\ InUse = u + Now!Demand(a)[Now!Served(u, a)]
      /\ Left = SubSeq(a, Now!Served(u, a) + 1, Len(a))
      /\ Has = [c \in Callers |->
                  IF Owns(c) \/ \E i \in 1..Now!Served(u, a) : a[i].id = c THEN need[c] ELSE 0]
<1> SUFFICES ASSUME Inv, lock = "granting", NEW u, NEW a, cur = u, Line(q) = a
             PROVE  /\ InUse = u + Now!Demand(a)[Now!Served(u, a)]
                    /\ Left = SubSeq(a, Now!Served(u, a) + 1, Len(a))
                    /\ Has = [c \in Callers |->
                                IF Owns(c) \/ \E i \in 1..Now!Served(u, a) : a[i].id = c
                                THEN need[c] ELSE 0]
  OBVIOUS
<1>1. Pending = Now!Served(u, a)
  BY DEF Pending
<1>2. Now!Served(u, a) \in 0..Len(q) /\ Len(a) = Len(q) /\ Len(q) \in Nat
      /\ \A i \in 1..Len(q) : a[i].id = q[i]
  <2>1. u \in Int /\ u <= Size /\ a \in Seq(Waiter) /\ Len(a) = Len(q) /\ Len(q) \in Nat
    BY QueueTyped
  <2>3. Now!Served(u, a) \in 0..Len(a)
    BY ONLY <2>1, ServedIs
  <2>4. \A i \in 1..Len(q) : a[i].id = q[i]
    BY QueueTyped
  <2>5. Now!Served(u, a) \in 0..Len(q)
    BY <2>1, <2>3
  <2> QED BY <2>1, <2>4, <2>5
<1>3. InUse = u + Now!Demand(a)[Now!Served(u, a)]
  BY <1>1 DEF InUse
<1>4. Left = SubSeq(a, Now!Served(u, a) + 1, Len(a))
  BY <1>1, <1>2 DEF Left
<1>5. \A c : Promised(c) <=> \E i \in 1..Now!Served(u, a) : a[i].id = c
  <2>1. \A i \in 1..Now!Served(u, a) : i \in 1..Len(q)
    BY <1>2
  <2> QED BY <1>1, <1>2, <2>1 DEF Promised
<1> QED BY <1>3, <1>4, <1>5 DEF Has

LEMMA ViewUnlockedThen ==
  (Inv /\ lock /= "granting" =>
    /\ InUse = cur
    /\ Left = IF lock = "closing" THEN <<>> ELSE Line(q)
    /\ Has = Granted)'
BY ViewUnlocked, PTL

LEMMA ViewGrantingThen ==
  (Inv /\ lock = "granting" =>
    \A u, a : cur = u /\ Line(q) = a =>
      /\ InUse = u + Now!Demand(a)[Now!Served(u, a)]
      /\ Left = SubSeq(a, Now!Served(u, a) + 1, Len(a))
      /\ Has = [c \in Callers |->
                  IF Owns(c) \/ \E i \in 1..Now!Served(u, a) : a[i].id = c THEN need[c] ELSE 0])'
BY ViewGranting, PTL

LEMMA QueueTypedThen ==
  (Inv => /\ q \in Seq(Callers) /\ Line(q) \in Seq(Waiter) /\ Len(Line(q)) = Len(q)
          /\ Len(q) \in Nat /\ DOMAIN q = 1..Len(q)
          /\ \A i \in 1..Len(q) : Line(q)[i].id = q[i] /\ Line(q)[i].n = need[q[i]]
          /\ cur \in Int /\ cur <= Size /\ need \in [Callers -> 1..Size])'
BY QueueTyped, PTL

LEMMA LineThen ==
  ASSUME UNCHANGED need, NEW s, q' = s
  PROVE  Line(q)' = Line(s)
BY DEF Line

LEMMA HeadRemoved ==
  ASSUME NEW S, NEW s \in Seq(S), s /= <<>>
  PROVE  1 \in 1..Len(s) /\ RemoveAt(s, 1) = Tail(s)
<1>1. Len(s) \in Nat /\ 1 \in 1..Len(s)
  BY EmptySeq
<1>2. RemoveAt(s, 1) \in Seq(S) /\ Len(RemoveAt(s, 1)) = Len(s)-1
      /\ \A j \in 1..(Len(s)-1) : RemoveAt(s, 1)[j] = s[j+1]
  <2>1. \A j \in 1..(Len(s)-1) : ~(j < 1)
    BY <1>1
  <2> QED BY <1>1, <2>1, RemoveAtProperties
<1>3. Tail(s) \in Seq(S) /\ Len(Tail(s)) = Len(s)-1 /\ \A i \in 1..(Len(s)-1) : Tail(s)[i] = s[i+1]
  BY HeadTailProperties
<1> QED BY <1>1, <1>2, <1>3, SeqEqual

(* Steps of a budget that Sem does not see.                                *)
LEMMA QuietView ==
  ASSUME Inv, Inv', UNCHANGED <<cur, q, closed, lock, need>>,
         \A d \in Callers : Owns(d)' <=> Owns(d)
  PROVE  UNCHANGED Abstract!vars
<1>1. Line(q)' = Line(q)
  BY DEF Line
<1>2. CASE lock /= "granting"
  <2>1. Granted' = Granted
    BY DEF Granted
  <2> QED BY <1>1, <1>2, <2>1, ViewUnlocked, ViewUnlockedThen DEF Abstract!vars
<1>3. CASE lock = "granting"
  <2>1. PICK u, a : u = cur /\ a = Line(q)
    OBVIOUS
  <2> DEFINE k == Now!Served(u, a)
  <2>2. /\ InUse = u + Now!Demand(a)[k] /\ Left = SubSeq(a, k+1, Len(a))
        /\ Has = [c \in Callers |->
                    IF Owns(c) \/ \E i \in 1..k : a[i].id = c THEN need[c] ELSE 0]
    BY <1>3, <2>1, ViewGranting
  <2>3. cur' = u /\ Line(q)' = a /\ lock' = "granting"
    BY <1>1, <1>3, <2>1
  <2>4. /\ InUse' = u + Now!Demand(a)[k] /\ Left' = SubSeq(a, k+1, Len(a))
        /\ Has' = [c \in Callers |->
                    IF Owns(c)' \/ \E i \in 1..k : a[i].id = c THEN need'[c] ELSE 0]
    BY <2>3, ViewGrantingThen, OperatorsRigid
  <2> HIDE DEF k
  <2>5. Has' = Has
    BY <2>2, <2>4
  <2> QED BY <2>2, <2>4, <2>5 DEF Abstract!vars
<1> QED BY <1>2, <1>3

(* A step that opens the loop of grant() is the atomic Grant of Sem.       *)
LEMMA Opens ==
  ASSUME Inv', lock' = "granting", UNCHANGED need,
         NEW u, cur' = u, NEW a, Line(q)' = a,
         NEW h, \A d \in Callers : h[d] = IF Owns(d)' THEN need[d] ELSE 0
  PROVE  Abstract!Grant(u, a, h)
<1> DEFINE k == Now!Served(u, a)
           At(c) == {i \in 1..k : a[i].id = c}
<1>1. /\ InUse' = u + Now!Demand(a)[k] /\ Left' = SubSeq(a, k+1, Len(a))
      /\ Has' = [c \in Callers |->
                   IF Owns(c)' \/ \E i \in 1..k : a[i].id = c THEN need'[c] ELSE 0]
  BY ViewGrantingThen, OperatorsRigid
<1>2. u \in Int /\ u <= Size /\ a \in Seq(Waiter) /\ Len(a) = Len(q') /\ Len(q') \in Nat
  BY QueueTypedThen
<1>3. k \in 0..Len(a)
  BY <1>2, ServedIs
<1>4. \A i \in 1..Len(a) : a[i].n = need[a[i].id]
  <2>1. \A i \in 1..Len(q') : a[i].id = q'[i] /\ a[i].n = need[q'[i]]
    BY QueueTypedThen
  <2> QED BY <1>2, <2>1
<1> HIDE DEF k
<1>5. ASSUME NEW c \in Callers
      PROVE  (IF Owns(c)' \/ \E i \in 1..k : a[i].id = c THEN need'[c] ELSE 0)
               = IF At(c) = {} THEN h[c] ELSE a[Abstract!Max(At(c))].n
  <2>1. CASE At(c) = {}
    BY <2>1
  <2>2. CASE At(c) /= {}
    <3>1. At(c) \in SUBSET (0..k) /\ k \in Nat
      BY <1>2, <1>3
    <3>2. Max(At(c)) \in At(c)
      BY ONLY <2>2, <3>1, MaxOfBounded
    <3>3. PICK m : m = Abstract!Max(At(c)) /\ m \in At(c)
      BY <3>2, SameOperators
    <3>4. m \in 1..k /\ a[m].id = c /\ m \in 1..Len(a)
      BY <1>2, <1>3, <3>3
    <3>5. a[m].n = need[c]
      BY <1>4, <3>4
    <3> QED BY <2>2, <3>3, <3>4, <3>5
  <2> QED BY <2>1, <2>2
<1>6. k = Abstract!Served(u, a) /\ Now!Demand(a) = Abstract!Demand(a)
  BY SameOperators DEF k
<1>7. Has' = [c \in Callers |-> IF At(c) = {} THEN h[c] ELSE a[Abstract!Max(At(c))].n]
  BY <1>1, <1>5
<1> QED BY <1>1, <1>6, <1>7 DEF Abstract!Grant
-----------------------------------------------------------------------------
(* Step by step.  Units taken at once are a TryAcquire.                    *)
LEMMA TakeMaps ==
  ASSUME Inv, Inv', NEW c \in Callers, Takes(c), lock = "free"
  PROVE  Abstract!TryAcquire(c, need[c])
<1>1. /\ q = <<>> /\ Fits(need[c]) /\ cur' = cur + need[c]
      /\ UNCHANGED <<q, closed, lock, need>>
  BY DEF Takes, TakeUnits, AtOnce
<1>2. ~Owns(c) /\ \A d \in Callers : Owns(d)' <=> Owns(d) \/ d = c
  <2>1. pc' = [pc EXCEPT ![c] = "held"] /\ state' = [state EXCEPT ![c] = "none"]
    BY DEF Takes, TakeUnits, Keep, Goto, Forget
  <2>2. DOMAIN pc = Callers /\ DOMAIN state = Callers
    BY DEF Inv, TypeOK
  <2>3. pc[c] /= "held" /\ state[c] = "none"
    BY DEF Inv, WaiterProtocol, Takes
  <2>4. pc'[c] = "held" /\ \A d \in Callers : d /= c => pc'[d] = pc[d] /\ state'[d] = state[d]
    BY ONLY <2>1, <2>2
  <2> QED BY <2>3, <2>4 DEF Owns
<1>3. Line(q) = <<>>
  BY <1>1, QueueTyped, EmptySeq
<1>4. Line(q)' = <<>>
  BY <1>1, <1>3, LineThen
<1>5. InUse = cur /\ Left = <<>> /\ Has = Granted
  BY <1>3, ViewUnlocked
<1>6. InUse' = cur + need[c] /\ Left' = <<>> /\ Has' = Granted'
  BY <1>1, <1>4, ViewUnlockedThen
<1>7. Granted' = [Granted EXCEPT ![c] = need[c]] /\ Granted[c] = 0
  BY <1>1, <1>2 DEF Granted
<1>8. Abstract!Idle(c)
  BY <1>5, <1>7, SameOperators, DOMAIN <<>> = {} DEF Abstract!Idle, Abstract!Queued, ToSet
<1>9. InUse + need[c] <= Size
  BY <1>1, <1>5, QueueTyped, SizeAssumption DEF Fits
<1> QED BY <1>1, <1>5, <1>6, <1>7, <1>8, <1>9 DEF Abstract!TryAcquire

(* A caller that queues is an Acquire.                                     *)
LEMMA AcquireMaps ==
  ASSUME Inv, Inv', NEW c \in Callers, AcquireQueues(c)
  PROVE  Abstract!Acquire(c, need[c])
<1>1. /\ lock = "free" /\ ~AtOnce(c) /\ ~closed /\ q' = Append(q, c)
      /\ UNCHANGED <<cur, closed, lock, need>>
  BY DEF AcquireQueues, MayQueue
<1>2. /\ ~Owns(c) /\ state[c] /= "waiting"
      /\ \A d \in Callers : Owns(d)' <=> Owns(d)
  <2>1. pc' = [pc EXCEPT ![c] = "parked"] /\ state' = [state EXCEPT ![c] = "waiting"]
    BY DEF AcquireQueues, Goto
  <2>2. DOMAIN pc = Callers /\ DOMAIN state = Callers
    BY DEF Inv, TypeOK
  <2>3. pc[c] /= "held" /\ state[c] = "none"
    BY DEF Inv, WaiterProtocol, AcquireQueues
  <2>4. /\ pc'[c] = "parked" /\ state'[c] = "waiting"
        /\ \A d \in Callers : d /= c => pc'[d] = pc[d] /\ state'[d] = state[d]
    BY ONLY <2>1, <2>2
  <2> QED BY <2>3, <2>4 DEF Owns
<1>3. Line(q)' = Append(Line(q), [id |-> c, n |-> need[c]])
  BY <1>1, LineThen, LineAppend, QueueTyped
<1>4. InUse = cur /\ Left = Line(q) /\ Has = Granted
  BY <1>1, ViewUnlocked
<1>5. InUse' = cur /\ Left' = Line(q)' /\ Has' = Granted'
  BY <1>1, ViewUnlockedThen
<1>6. Granted' = Granted /\ Granted[c] = 0
  BY <1>1, <1>2 DEF Granted
<1>7. ~Abstract!Queued(c)
  <2> SUFFICES ASSUME NEW w \in ToSet(Left), w.id = c PROVE FALSE
    BY SameOperators DEF Abstract!Queued
  <2>1. DOMAIN Line(q) = 1..Len(q)
    BY QueueTyped, LenProperties
  <2>2. PICK i \in 1..Len(q) : w = Line(q)[i]
    BY <1>4, <2>1 DEF ToSet
  <2>3. q[i] = c /\ i \in DOMAIN q
    BY <2>2, QueueTyped
  <2>4. c \in Waiting
    BY <2>3 DEF Inv, QueueExact, ToSet
  <2> QED BY <1>2, <2>4 DEF Waiting
<1>8. ~(Left = <<>> /\ InUse + need[c] <= Size)
  <2>1. Line(q) = <<>> => q = <<>>
    BY QueueTyped, EmptySeq
  <2> QED BY <1>1, <1>4, <2>1, QueueTyped, SizeAssumption DEF AtOnce, Fits
<1> QED BY <1>1, <1>3, <1>4, <1>5, <1>6, <1>7, <1>8 DEF Abstract!Acquire, Abstract!Idle

(* Units that go back, from a caller that is done or from a late grant.    *)
LEMMA ReturnMaps ==
  ASSUME Inv, Inv', NEW c \in Callers, LeaveGrant(c) \/ Release(c)
  PROVE  Abstract!Release(c)
<1>1. /\ lock = "free" /\ lock' = "granting" /\ cur' = cur - need[c]
      /\ UNCHANGED <<q, closed, need>>
  BY DEF LeaveGrant, Release, Regrant
<1>2. Owns(c) /\ \A d \in Callers : Owns(d)' <=> Owns(d) /\ d /= c
  BY DEF Goto, Forget, Regrant, LeaveGrant, Release, Drained,
         Inv, TypeOK, WaiterProtocol, Owns, PC, WaitState
<1>3. Line(q)' = Line(q)
  BY <1>1, LineThen
<1>4. InUse = cur /\ Left = Line(q) /\ Has = Granted
  BY <1>1, ViewUnlocked
<1>5. Granted[c] = need[c] /\ need[c] > 0
  BY <1>2, QueueTyped DEF Granted
<1>6. PICK u, a, h : u = cur - need[c] /\ a = Line(q) /\ h = [Granted EXCEPT ![c] = 0]
  OBVIOUS
<1>7. \A d \in Callers : h[d] = IF Owns(d)' THEN need[d] ELSE 0
  BY <1>2, <1>6 DEF Granted
<1>8. Abstract!Grant(u, a, h)
  BY <1>1, <1>3, <1>6, <1>7, Opens
<1> QED BY <1>1, <1>4, <1>5, <1>6, <1>8 DEF Abstract!Release

(* A waiter that leaves the queue, alone or with the grants this allows.   *)
LEMMA LeaveMaps ==
  ASSUME Inv, Inv', NEW c \in Callers, LeaveQueue(c)
  PROVE  Abstract!Cancel(c)
<1>1. PICK i \in DOMAIN q : q[i] = c /\ Withdraw(c, i)
  BY DEF LeaveQueue
<1>2. lock = "free" /\ q' = RemoveAt(q, i) /\ UNCHANGED <<cur, closed, need>>
  BY <1>1 DEF LeaveQueue, Withdraw
<1>3. \A d \in Callers : Owns(d)' <=> Owns(d)
  BY <1>1 DEF Goto, Forget, Return, Regrant, LeaveQueue, Withdraw,
       Inv, TypeOK, WaiterProtocol, Owns, PC, WaitState
<1>4. /\ q \in Seq(Callers) /\ Line(q) \in Seq(Waiter) /\ Len(Line(q)) = Len(q)
      /\ i \in 1..Len(q) /\ Line(q)[i].id = c
  BY <1>1, QueueTyped
<1>5. Line(q)' = RemoveAt(Line(q), i)
  BY <1>2, <1>4, LineThen, LineRemoveAt
<1>6. InUse = cur /\ Left = Line(q) /\ Has = Granted
  BY <1>2, ViewUnlocked
<1>7. DOMAIN Left = 1..Len(q)
  BY <1>4, <1>6, LenProperties
<1>8. CASE i = 1
  <2>1. Line(q) /= <<>>
    BY <1>4, EmptySeq
  <2>2. Line(q)' = Tail(Line(q))
    BY <1>4, <1>5, <1>8, <2>1, HeadRemoved
  <2>3. lock' = "granting"
    BY <1>1, <1>8 DEF Withdraw, Regrant
  <2>4. PICK u, a, h : u = cur /\ a = Tail(Line(q)) /\ h = Granted
    OBVIOUS
  <2>5. \A d \in Callers : h[d] = IF Owns(d)' THEN need[d] ELSE 0
    BY <1>3, <2>4 DEF Granted
  <2>6. Abstract!Grant(u, a, h)
    BY <1>2, <2>2, <2>3, <2>4, <2>5, Opens
  <2> QED BY <1>2, <1>4, <1>6, <1>7, <1>8, <2>4, <2>6 DEF Abstract!Cancel
<1>9. CASE i /= 1
  <2>1. lock' = "free"
    BY <1>1, <1>2, <1>9 DEF Withdraw
  <2>2. InUse' = cur /\ Left' = Line(q)' /\ Has' = Granted'
    BY <1>2, <2>1, ViewUnlockedThen
  <2>3. Granted' = Granted
    BY <1>2, <1>3 DEF Granted
  <2>4. Left' = Abstract!RemoveAt(Left, i)
    BY <1>5, <1>6, <2>2, SameOperators
  <2> QED BY <1>2, <1>4, <1>6, <1>7, <1>9, <2>2, <2>3, <2>4 DEF Abstract!Cancel
<1> QED BY <1>8, <1>9

(* Each turn of the loop has been granted already.                         *)
LEMMA GrantHeadMaps ==
  ASSUME Inv, Inv', lock = "granting", NEW c \in Callers, GrantHead(c)
  PROVE  UNCHANGED Abstract!vars
<1>1. PICK w : w = Head(q)
  OBVIOUS
<1>2. /\ q /= <<>> /\ q' = Tail(q) /\ Fits(need[w]) /\ cur' = cur + need[w]
      /\ state' = [state EXCEPT ![w] = "granted"] /\ UNCHANGED <<closed, lock, need, pc>>
  BY <1>1 DEF GrantHead, Serve, Wake
<1>3. w \in Callers /\ \A d \in Callers : Owns(d)' <=> Owns(d) \/ d = w
  BY <1>1, <1>2, HeadWaits DEF Inv, TypeOK, Owns
<1>4. PICK u, a : u = cur /\ a = Line(q)
  OBVIOUS
<1>5. a \in Seq(Waiter) /\ a /= <<>> /\ Line(q)' = Tail(a)
  BY <1>2, <1>4, QueueTyped, LineThen, LineTail
<1>6. Len(a) \in Nat /\ 1 \in 1..Len(a) /\ a[1].id = w /\ a[1].n = need[w] /\ need[w] \in Nat
  <2>1. 1 \in 1..Len(q)
    BY <1>2, QueueTyped, EmptySeq
  <2>2. q[1] = w
    BY <1>1, <1>2, QueueTyped
  <2>3. a[1].id = q[1] /\ a[1].n = need[q[1]] /\ Len(a) = Len(q) /\ Len(q) \in Nat
    BY <1>4, <2>1, QueueTyped
  <2>4. need[w] \in 1..Size
    BY <1>3, QueueTyped
  <2> QED BY <2>1, <2>2, <2>3, <2>4, SizeAssumption
<1>7. PICK k : k = Now!Served(u, a)
  OBVIOUS
<1>8. /\ u \in Int /\ k \in 1..Len(a)
      /\ Now!Served(u + need[w], Tail(a)) = k-1
      /\ u + need[w] + Now!Demand(Tail(a))[k-1] = u + Now!Demand(a)[k]
  <2>1. u \in Int /\ u + a[1].n <= Size
    BY <1>2, <1>4, <1>6, QueueTyped, SizeAssumption DEF Fits
  <2> QED BY <1>5, <1>6, <1>7, <2>1, ServedShift
<1>9. /\ InUse = u + Now!Demand(a)[k]
      /\ Left = SubSeq(a, k+1, Len(a))
      /\ Has = [d \in Callers |->
                  IF Owns(d) \/ \E i \in 1..k : a[i].id = d THEN need[d] ELSE 0]
  BY <1>4, <1>7, ViewGranting
<1>10. PICK v, b : v = u + need[w] /\ b = Tail(a)
  OBVIOUS
<1>11. cur' = v /\ Line(q)' = b /\ lock' = "granting" /\ Now!Served(v, b) = k-1
  BY <1>2, <1>4, <1>5, <1>8, <1>10
<1>12. /\ InUse' = v + Now!Demand(b)[k-1]
       /\ Left' = SubSeq(b, k-1+1, Len(b))
       /\ Has' = [d \in Callers |->
                    IF Owns(d)' \/ \E i \in 1..(k-1) : b[i].id = d THEN need'[d] ELSE 0]
  <2>1. /\ InUse' = v + Now!Demand(b)[Now!Served(v, b)]
        /\ Left' = SubSeq(b, Now!Served(v, b)+1, Len(b))
        /\ Has' = [d \in Callers |->
                     IF Owns(d)' \/ \E i \in 1..Now!Served(v, b) : b[i].id = d
                     THEN need'[d] ELSE 0]
    BY <1>11, ViewGrantingThen, OperatorsRigid
  <2> QED BY <1>11, <2>1
<1>13. b \in Seq(Waiter) /\ Len(b) = Len(a)-1 /\ \A i \in 1..(Len(a)-1) : b[i] = a[i+1]
  BY <1>5, <1>10, HeadTailProperties
<1>14. InUse' = InUse
  BY <1>8, <1>9, <1>10, <1>12
<1>15. Left' = Left
  <2>1. SubSeq(b, k, Len(b)) = SubSeq(a, k+1, Len(a))
    <3>1. \A i \in k..Len(b) : b[i] \in Waiter
      BY <1>6, <1>8, <1>13, ElementOfSeq
    <3>2. \A i \in (k+1)..Len(a) : a[i] \in Waiter
      BY <1>5, <1>6, <1>8, ElementOfSeq
    <3>3. /\ SubSeq(b, k, Len(b)) \in Seq(Waiter)
          /\ Len(SubSeq(b, k, Len(b))) = IF k <= Len(b) THEN Len(b)-k+1 ELSE 0
          /\ \A i \in 1..(Len(b)-k+1) : SubSeq(b, k, Len(b))[i] = b[k+i-1]
      BY <1>6, <1>8, <1>13, <3>1, SubSeqProperties
    <3>4. /\ SubSeq(a, k+1, Len(a)) \in Seq(Waiter)
          /\ Len(SubSeq(a, k+1, Len(a))) = IF k+1 <= Len(a) THEN Len(a)-(k+1)+1 ELSE 0
          /\ \A i \in 1..(Len(a)-(k+1)+1) : SubSeq(a, k+1, Len(a))[i] = a[k+1+i-1]
      BY <1>6, <1>8, <3>2, SubSeqProperties
    <3>5. PICK s, t : s = SubSeq(b, k, Len(b)) /\ t = SubSeq(a, k+1, Len(a))
      OBVIOUS
    <3>6. s \in Seq(Waiter) /\ t \in Seq(Waiter) /\ Len(s) = Len(a)-k /\ Len(t) = Len(a)-k
      BY <1>6, <1>8, <1>13, <3>3, <3>4, <3>5
    <3>7. \A i \in 1..(Len(a)-k) : s[i] = a[k+i] /\ t[i] = a[k+i]
      <4> SUFFICES ASSUME NEW i \in 1..(Len(a)-k) PROVE s[i] = a[k+i] /\ t[i] = a[k+i]
        OBVIOUS
      <4>1. /\ i \in 1..(Len(b)-k+1) /\ i \in 1..(Len(a)-(k+1)+1)
            /\ k+i-1 \in 1..(Len(a)-1) /\ k+i-1+1 = k+i /\ k+1+i-1 = k+i
        BY <1>6, <1>8, <1>13
      <4> QED BY <1>13, <3>3, <3>4, <3>5, <4>1
    <3>8. s = t
      BY <3>6, <3>7, SeqEqual
    <3> QED BY <3>5, <3>8
  <2>2. k-1+1 = k
    BY <1>8
  <2> QED BY <1>9, <1>12, <2>1, <2>2
<1>16. Has' = Has
  <2>1. ASSUME NEW d \in Callers
        PROVE  (Owns(d)' \/ \E i \in 1..(k-1) : b[i].id = d)
                 <=> (Owns(d) \/ \E i \in 1..k : a[i].id = d)
    <3>1. (\E i \in 1..(k-1) : b[i].id = d) => \E i \in 1..k : a[i].id = d
      <4> SUFFICES ASSUME NEW i \in 1..(k-1), b[i].id = d PROVE \E j \in 1..k : a[j].id = d
        OBVIOUS
      <4>1. i+1 \in 1..k /\ b[i] = a[i+1]
        BY <1>6, <1>8, <1>13
      <4> QED BY <4>1
    <3>2. (\E i \in 1..k : a[i].id = d) => d = w \/ \E i \in 1..(k-1) : b[i].id = d
      <4> SUFFICES ASSUME NEW i \in 1..k, a[i].id = d, d /= w
                   PROVE  \E j \in 1..(k-1) : b[j].id = d
        OBVIOUS
      <4>1. i /= 1
        BY <1>6
      <4>2. i-1 \in 1..(k-1) /\ i-1+1 = i /\ i-1 \in 1..(Len(a)-1)
        BY <1>6, <1>8, <4>1
      <4>3. b[i-1] = a[i]
        BY <1>13, <4>2
      <4> QED BY <4>2, <4>3
    <3>3. a[1].id = w /\ 1 \in 1..k
      BY <1>6, <1>8
    <3> QED BY <1>3, <3>1, <3>2, <3>3
  <2> QED BY <1>2, <1>9, <1>12, <2>1
<1> QED BY <1>2, <1>14, <1>15, <1>16 DEF Abstract!vars

(* When the loop ends nobody is left that it was going to serve.           *)
LEMMA GrantEndsMaps ==
  ASSUME Inv, Inv', lock = "granting", NEW c \in Callers, GrantEnds(c)
  PROVE  UNCHANGED Abstract!vars
<1>1. /\ ~(q /= <<>> /\ Fits(need[Head(q)])) /\ lock' = "free"
      /\ UNCHANGED <<cur, q, closed, need>>
  BY DEF GrantEnds
<1>2. \A d \in Callers : Owns(d)' <=> Owns(d)
  BY DEF Goto, GrantEnds, Inv, TypeOK, Owns, PC
<1>3. PICK u, a : u = cur /\ a = Line(q)
  OBVIOUS
<1>4. u \in Int /\ u <= Size /\ a \in Seq(Waiter) /\ Len(a) = Len(q) /\ Len(a) \in Nat
  BY <1>3, QueueTyped
<1>5. a /= <<>> => ~(u + a[1].n <= Size)
  <2> SUFFICES ASSUME a /= <<>> PROVE ~(u + a[1].n <= Size)
    OBVIOUS
  <2>1. Len(q) >= 1 /\ q /= <<>>
    BY <1>4, EmptySeq, QueueTyped
  <2>2. Head(q) = q[1] /\ 1 \in 1..Len(q)
    BY <1>4, <2>1, QueueTyped
  <2>3. a[1].n = need[Head(q)] /\ Head(q) \in Callers
    BY <1>3, <2>2, QueueTyped, ElementOfSeq
  <2>4. need[Head(q)] \in 1..Size
    BY <2>3, QueueTyped
  <2> QED BY <1>1, <1>3, <1>4, <2>1, <2>3, <2>4, SizeAssumption DEF Fits
<1>6. Now!Served(u, a) = 0
  BY <1>4, <1>5, ServedNone
<1>7. InUse = u + Now!Demand(a)[0] /\ Left = SubSeq(a, 0+1, Len(a))
      /\ Has = [d \in Callers |->
                  IF Owns(d) \/ \E i \in 1..0 : a[i].id = d THEN need[d] ELSE 0]
  <2>1. /\ InUse = u + Now!Demand(a)[Now!Served(u, a)]
        /\ Left = SubSeq(a, Now!Served(u, a)+1, Len(a))
        /\ Has = [d \in Callers |->
                    IF Owns(d) \/ \E i \in 1..Now!Served(u, a) : a[i].id = d
                    THEN need[d] ELSE 0]
    BY <1>3, ViewGranting
  <2> QED BY <1>6, <2>1
<1>8. InUse = u /\ Left = a /\ Has = Granted
  <2>1. Now!Demand(a)[0] = 0
    BY <1>4, DemandIs
  <2>2. SubSeq(a, 0+1, Len(a)) = a
    BY <1>4, SubSeqFull, 0+1 = 1
  <2>3. Has = Granted
    BY <1>7 DEF Granted
  <2> QED BY <1>4, <1>7, <2>1, <2>2, <2>3
<1>9. Line(q)' = a /\ cur' = u
  BY <1>1, <1>3, LineThen
<1>10. InUse' = u /\ Left' = a /\ Has' = Granted'
  BY <1>1, <1>9, ViewUnlockedThen
<1>11. Granted' = Granted
  BY <1>1, <1>2 DEF Granted
<1> QED BY <1>1, <1>8, <1>10, <1>11 DEF Abstract!vars

(* The close takes effect at once: the callers it has yet to wake have     *)
(* left Sem's queue.                                                       *)
LEMMA CloseMaps ==
  ASSUME Inv, Inv', Close
  PROVE  Abstract!Close \/ UNCHANGED Abstract!vars
<1>1. lock /= "granting" /\ lock' /= "granting" /\ UNCHANGED <<cur, need>>
  BY DEF Close, CloseStarts, CloseWithdraws, CloseEnds
<1>2. \A d \in Callers : Owns(d)' <=> Owns(d)
  <2>1. CASE CloseStarts \/ CloseEnds
    BY <2>1 DEF CloseStarts, CloseEnds, callVars, Owns
  <2>2. CASE CloseWithdraws
    BY <2>2, HeadWaits DEF CloseWithdraws, Wake, Owns, Inv, TypeOK
  <2> QED BY <2>1, <2>2 DEF Close
<1>3. InUse = cur /\ Left = (IF lock = "closing" THEN <<>> ELSE Line(q)) /\ Has = Granted
  BY <1>1, ViewUnlocked
<1>4. InUse' = cur' /\ Left' = (IF lock' = "closing" THEN <<>> ELSE Line(q)') /\ Has' = Granted'
  BY <1>1, ViewUnlockedThen
<1>5. Granted' = Granted
  BY <1>1, <1>2 DEF Granted
<1>6. CASE CloseStarts
  BY <1>1, <1>3, <1>4, <1>5, <1>6 DEF CloseStarts, Abstract!Close
<1>7. CASE CloseWithdraws
  BY <1>1, <1>3, <1>4, <1>5, <1>7 DEF CloseWithdraws, Abstract!vars
<1>8. CASE CloseEnds
  <2>1. q = <<>> /\ q' = <<>> /\ lock = "closing" /\ lock' = "free" /\ UNCHANGED closed
    BY <1>8 DEF CloseEnds
  <2>2. Line(q)' = Line(q) /\ Line(q) = <<>>
    BY <1>1, <2>1, LineThen, QueueTyped, EmptySeq
  <2> QED BY <1>1, <1>3, <1>4, <1>5, <2>1, <2>2 DEF Abstract!vars
<1> QED BY <1>6, <1>7, <1>8 DEF Close

LEMMA QuietMaps ==
  ASSUME Inv, Inv', NEW c \in Callers, Quiet(c), ~GrantEnds(c)
  PROVE  UNCHANGED Abstract!vars
<1> USE DEF Goto, Forget, Return, Keep, Quiet, Begin, CtxEnds, TryLoad, TryLocked,
            TakeUnits, AcquireRefused, TakeToken, GiveUp, Drained, LeaveWithdrawn
<1>1. UNCHANGED <<cur, q, closed, lock, need>>
  OBVIOUS
<1>2. \A d \in Callers : Owns(d)' <=> Owns(d)
  BY DEF Inv, TypeOK, WaiterProtocol, Owns, PC, WaitState
<1> QED BY <1>1, <1>2, QuietView

LEMMA InitMaps == ASSUME Init PROVE Abstract!Init
<1>1. Inv
  BY InitInv
<1>2. /\ cur = 0 /\ q = <<>> /\ lock = "free" /\ closed = FALSE
      /\ \A c \in Callers : ~Owns(c)
  BY DEF Init, Owns
<1>3. Line(q) = <<>>
  BY <1>1, <1>2, QueueTyped, EmptySeq
<1>4. InUse = 0 /\ Left = <<>> /\ Has = Granted
  BY <1>1, <1>2, <1>3, ViewUnlocked
<1>5. Granted = [c \in Callers |-> 0]
  BY <1>2 DEF Granted
<1> QED BY <1>2, <1>4, <1>5 DEF Abstract!Init

LEMMA StepMaps ==
  ASSUME Inv, Inv', GrantsLocked, [Next]_vars
  PROVE  [Abstract!Next]_Abstract!vars
<1>1. ASSUME NEW c \in Callers, Call(c)
      PROVE  Abstract!Next \/ UNCHANGED Abstract!vars
  <2>1. need[c] \in 1..Size
    BY QueueTyped
  <2>2. CASE Quiet(c) /\ ~GrantEnds(c)
    BY <2>2, QuietMaps
  <2>3. CASE Takes(c) /\ lock = "free"
    BY <2>1, <2>3, TakeMaps DEF Abstract!Next
  <2>4. CASE AcquireQueues(c)
    BY <2>1, <2>4, AcquireMaps DEF Abstract!Next
  <2>5. CASE LeaveQueue(c)
    BY <2>5, LeaveMaps DEF Abstract!Next
  <2>6. CASE LeaveGrant(c) \/ Release(c)
    BY <2>6, ReturnMaps DEF Abstract!Next
  <2>7. CASE GrantHead(c) \/ GrantEnds(c)
    <3>1. lock = "granting"
      BY <2>7 DEF GrantsLocked, GrantHead, GrantEnds
    <3> QED BY <2>7, <3>1, GrantHeadMaps, GrantEndsMaps
  <2>8. \/ Quiet(c) \/ AcquireQueues(c) \/ LeaveQueue(c)
        \/ LeaveGrant(c) \/ Release(c) \/ GrantHead(c)
        \/ (Takes(c) /\ lock = "free")
    BY <1>1 DEF Call, Acquire, Leave, Grant, Quiet, Takes, TryLocked, AcquireNow
  <2> QED BY <2>2, <2>3, <2>4, <2>5, <2>6, <2>7, <2>8
<1>2. CASE Close
  BY <1>2, CloseMaps DEF Abstract!Next
<1>3. CASE UNCHANGED vars
  <2>1. \A d \in Callers : Owns(d)' <=> Owns(d)
    BY <1>3 DEF vars, Owns
  <2>2. UNCHANGED <<cur, q, closed, lock, need>>
    BY <1>3 DEF vars
  <2> QED BY <2>1, <2>2, QuietView
<1> QED BY <1>1, <1>2, <1>3 DEF Next

(* The budget of resource.go behaves as the atomic semaphore its tests     *)
(* compare it with: taking the lock is the moment an operation takes       *)
(* effect, however many turns the loop of grant() then makes, and whatever *)
(* the callers it has woken do meanwhile.                                  *)
THEOREM ResourceImplementsSem == Spec => ImplementsSem
<1>1. Init => Abstract!Init
  BY InitMaps
<1>2. Inv /\ Inv' /\ Settled /\ [Next]_vars => [Abstract!Next]_Abstract!vars
  BY StepMaps DEF Settled
<1> QED BY <1>1, <1>2, InvAlways, SettledAlways, PTL DEF Spec, ImplementsSem, Abstract!Spec
=============================================================================
