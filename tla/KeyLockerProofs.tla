-------------------------- MODULE KeyLockerProofs --------------------------
(***************************************************************************)
(* Theorems about KeyLocker, for every set of callers, keys and entries.   *)
(***************************************************************************)
EXTENDS KeyLocker, Lemmas

PCs == {"idle", "lock", "parked", "gaveup", "woken", "held"}
States == {"none", "waiting", "granted", "withdrawn"}

TypeOK == /\ m \in [Key -> Entries \cup {None}]
          /\ closed \in BOOLEAN
          /\ key \in [Entries -> Key \cup {None}]
          /\ q \in [Entries -> Seq(Callers)]
          /\ pool \in SUBSET Entries
          /\ want \in [Callers -> Key \cup {None}]
          /\ mode \in [Callers -> {"Wait", "Reject"}]
          /\ ptr \in [Callers -> Entries \cup {None}]
          /\ pc \in [Callers -> PCs]
          /\ state \in [Callers -> States]
          /\ ready \in [Callers -> 0..1]
          /\ done \in [Callers -> BOOLEAN]

(* What a caller's place in the code says of its waiter and its key.       *)
CallerProtocol == \A c \in Callers :
  /\ pc[c] /= "idle" => want[c] \in Key
  /\ state[c] = "waiting" => ptr[c] \in Entries
  /\ state[c] /= "none" <=> pc[c] \in {"parked", "gaveup", "woken"}
  /\ ready[c] = 1 <=> /\ pc[c] \in {"parked", "gaveup"}
                      /\ state[c] \in {"granted", "withdrawn"}
  /\ pc[c] = "woken" => state[c] /= "waiting"

(* The inductive invariant.  No part of it stands alone: a hand-off keeps  *)
(* mutual exclusion because the queue of an entry holds only callers that  *)
(* want its key (QueueExact, PointersLive), a retired entry is clean       *)
(* because its owner was the only one (MutualExclusion), and a caller      *)
(* joins the queue of its own key because a mapped entry has an owner      *)
(* (EntryIffHeld).                                                         *)
Inv == /\ TypeOK
       /\ CallerProtocol
       /\ MutualExclusion
       /\ EntryIffHeld
       /\ PointersLive
       /\ PoolClean
       /\ QueueExact
-----------------------------------------------------------------------------
LEMMA InitInv == ASSUME Init PROVE Inv
<1>1. <<>> \in Seq(Callers) /\ DOMAIN <<>> = {}
  BY EmptySeq
<1>2. TypeOK
  <2>1. 0 \in 0..1
    OBVIOUS
  <2> QED BY <1>1, <2>1, Zenon DEF Init, TypeOK, PCs, States
<1>3. CallerProtocol
  BY DEF Init, CallerProtocol
<1>4. MutualExclusion /\ EntryIffHeld /\ PointersLive /\ PoolClean
  BY NoneAssumption DEF Init, MutualExclusion, EntryIffHeld, PointersLive, PoolClean, Owns
<1>5. QueueExact
  BY <1>1 DEF Init, QueueExact, IsInjective, ToSet
<1> QED BY <1>2, <1>3, <1>4, <1>5 DEF Inv

(* The callers queued at e.                                                *)
At(e) == {c \in Callers : state[c] = "waiting" /\ ptr[c] = e}

LEMMA QueueLists ==
  ASSUME Inv, NEW e \in Entries
  PROVE  Lists(Callers, q[e], At(e))
BY DEF Inv, TypeOK, QueueExact, Lists, At

LEMMA QueueFromLists ==
  ASSUME \A e \in Entries : Lists(Callers, q'[e], At(e)')
  PROVE  QueueExact'
BY DEF QueueExact, Lists, At

(* A mapped entry is the entry of its key, and not in the pool.            *)
LEMMA MappedEntry ==
  ASSUME Inv, NEW k \in Key, m[k] /= None
  PROVE  m[k] \in Entries /\ key[m[k]] = k /\ m[k] \notin pool
<1>1. PICK c \in Callers : Owns(c) /\ want[c] = k
  BY DEF Inv, EntryIffHeld
<1> QED BY <1>1 DEF Inv, TypeOK, PointersLive

(* A caller that owns or waits points to the mapped entry of its key.      *)
LEMMA LivePointer ==
  ASSUME Inv, NEW c \in Callers, Owns(c) \/ state[c] = "waiting"
  PROVE  /\ want[c] \in Key
         /\ ptr[c] \in Entries
         /\ ptr[c] = m[want[c]]
         /\ key[ptr[c]] = want[c]
         /\ ptr[c] \notin pool
<1>1. want[c] \in Key
  BY DEF Inv, TypeOK, CallerProtocol, Owns
<1>2. ptr[c] = m[want[c]] /\ key[ptr[c]] = want[c] /\ ptr[c] \notin pool
  BY DEF Inv, PointersLive
<1>3. CASE Owns(c)
  BY <1>1, <1>2, <1>3, NoneAssumption DEF Inv, EntryIffHeld, TypeOK
<1>4. CASE state[c] = "waiting"
  <2>1. ptr[c] \in Entries \cup {None}
    BY DEF Inv, TypeOK
  <2> QED BY <1>1, <1>2, <1>4, <2>1 DEF Inv, CallerProtocol
<1> QED BY <1>1, <1>2, <1>3, <1>4
-----------------------------------------------------------------------------
(* A step that moves no entry, and neither the ownership nor the wait of   *)
(* any caller, keeps what relates callers to entries.                      *)
LEMMA NothingMoved ==
  ASSUME Inv, UNCHANGED <<m, key, q, pool>>,
         \A d \in Callers : Owns(d)' <=> Owns(d),
         \A d \in Callers : state'[d] = "waiting" <=> state[d] = "waiting",
         \A d \in Callers : Owns(d) \/ state[d] = "waiting" =>
           want'[d] = want[d] /\ ptr'[d] = ptr[d]
  PROVE  MutualExclusion' /\ EntryIffHeld' /\ PointersLive' /\ PoolClean' /\ QueueExact'
<1>1. MutualExclusion' /\ EntryIffHeld' /\ PointersLive'
  BY DEF Inv, MutualExclusion, EntryIffHeld, PointersLive
<1>2. PoolClean'
  BY DEF Inv, PoolClean
<1>3. \A e \in Entries : At(e)' = At(e)
  BY DEF At
<1>4. QueueExact'
  BY <1>3, QueueLists, QueueFromLists
<1> QED BY <1>1, <1>2, <1>4

(* The steps of a call that touch no entry.                                *)
Quiet(c) == \/ Begin(c) \/ CtxEnds(c) \/ LockRefused(c)
            \/ TakeToken(c) \/ GiveUp(c) \/ LeaveWithdrawn(c)

LEMMA QuietEffect ==
  ASSUME Inv, NEW c \in Callers, Quiet(c)
  PROVE  /\ UNCHANGED <<m, key, q, pool, closed>>
         /\ \A d \in Callers : Owns(d)' <=> Owns(d)
         /\ \A d \in Callers : state'[d] = "waiting" <=> state[d] = "waiting"
         /\ \A d \in Callers : Owns(d) \/ state[d] = "waiting" =>
              want'[d] = want[d] /\ ptr'[d] = ptr[d]
<1> USE DEF Quiet, Goto, Forget, Ends, Return, Begin, CtxEnds, LockRefused, TakeToken,
            GiveUp, Drained, LeaveWithdrawn, entryVars, callVars, waitVars
<1>1. UNCHANGED <<m, key, q, pool, closed>>
  OBVIOUS
<1>2. \A d \in Callers : Owns(d)' <=> Owns(d)
  BY DEF Inv, TypeOK, CallerProtocol, PCs, States, Owns
<1>3. \A d \in Callers : state'[d] = "waiting" <=> state[d] = "waiting"
  BY DEF Inv, TypeOK, CallerProtocol, PCs, States
<1>4. \A d \in Callers : Owns(d) \/ state[d] = "waiting" => want'[d] = want[d] /\ ptr'[d] = ptr[d]
  BY DEF Inv, TypeOK, CallerProtocol, PCs, States, Owns
<1> QED BY <1>1, <1>2, <1>3, <1>4

LEMMA QuietSteps == ASSUME Inv, NEW c \in Callers, Quiet(c) PROVE Inv'
<1> USE DEF Quiet, Goto, Forget, Ends, Return, Begin, CtxEnds, LockRefused, TakeToken,
            GiveUp, Drained, LeaveWithdrawn, entryVars, callVars, waitVars
<1>1. pc' \in [Callers -> PCs]
  BY DEF Inv, TypeOK, PCs
<1>2. want' \in [Callers -> Key \cup {None}]
  BY DEF Inv, TypeOK
<1>3. mode' \in [Callers -> {"Wait", "Reject"}]
  BY DEF Inv, TypeOK
<1>4. /\ state' \in [Callers -> States]
      /\ done' \in [Callers -> BOOLEAN]
      /\ ptr' \in [Callers -> Entries \cup {None}]
  BY DEF Inv, TypeOK, States
<1>5. ready' \in [Callers -> 0..1]
  BY DEF Inv, TypeOK
<1>6. UNCHANGED <<m, key, q, pool, closed>>
  BY QuietEffect
<1>7. TypeOK'
  BY <1>1, <1>2, <1>3, <1>4, <1>5, <1>6 DEF Inv, TypeOK
<1>8. CallerProtocol'
  BY DEF Inv, TypeOK, CallerProtocol, PCs, States
<1> QED BY <1>7, <1>8, QuietEffect, NothingMoved DEF Inv

(* A free key is taken with an entry of the pool, new or used before.      *)
LEMMA LockFreeStep == ASSUME Inv, NEW c \in Callers, LockFree(c) PROVE Inv'
<1>1. PICK e \in pool : Claim(c, e)
  BY DEF LockFree
<1> DEFINE k == want[c]
<1>2. /\ k \in Key /\ m[k] = None /\ e \in Entries /\ e /= None
      /\ pc[c] = "lock" /\ state[c] = "none" /\ ready[c] = 0
      /\ key[e] = None /\ q[e] = <<>> /\ \A j \in Key : m[j] /= e
  BY NoneAssumption DEF LockFree, Inv, TypeOK, CallerProtocol, PoolClean, States
<1>3. /\ pool' = pool \ {e} /\ key' = [key EXCEPT ![e] = k]
      /\ m' = [m EXCEPT ![k] = e] /\ ptr' = [ptr EXCEPT ![c] = e]
      /\ pc' = [pc EXCEPT ![c] = "held"] /\ state' = [state EXCEPT ![c] = "none"]
      /\ ready' = [ready EXCEPT ![c] = 0] /\ done' = [done EXCEPT ![c] = FALSE]
      /\ UNCHANGED <<closed, q, want, mode>>
  BY <1>1 DEF LockFree, Claim, Goto, Forget
<1> HIDE DEF k
<1>4. TypeOK'
  <2>1. m' \in [Key -> Entries \cup {None}] /\ key' \in [Entries -> Key \cup {None}]
        /\ pool' \in SUBSET Entries /\ ptr' \in [Callers -> Entries \cup {None}]
    BY <1>2, <1>3 DEF Inv, TypeOK
  <2>2. pc' \in [Callers -> PCs] /\ state' \in [Callers -> States]
        /\ done' \in [Callers -> BOOLEAN]
    BY <1>2, <1>3 DEF Inv, TypeOK, PCs, States
  <2>3. ready' \in [Callers -> 0..1]
    BY <1>2, <1>3 DEF Inv, TypeOK
  <2> QED BY <1>3, <2>1, <2>2, <2>3 DEF Inv, TypeOK
<1>5. CallerProtocol'
  BY <1>2, <1>3 DEF Inv, TypeOK, CallerProtocol, PCs, States
<1>6. /\ \A d \in Callers : Owns(d)' <=> Owns(d) \/ d = c
      /\ \A d \in Callers : state'[d] = "waiting" <=> state[d] = "waiting"
      /\ \A d \in Callers : Owns(d) \/ state[d] = "waiting" => d /= c
  BY <1>2, <1>3 DEF Inv, TypeOK, Owns
<1>7. \A d \in Callers : Owns(d) => want[d] /= k
  BY <1>2 DEF Inv, EntryIffHeld
<1>8. MutualExclusion'
  BY <1>2, <1>3, <1>6, <1>7 DEF Inv, MutualExclusion, k
<1>9. EntryIffHeld'
  BY <1>2, <1>3, <1>6, <1>7 DEF Inv, TypeOK, EntryIffHeld, k
<1>10. PointersLive'
  <2> SUFFICES ASSUME NEW d \in Callers, Owns(d)' \/ state'[d] = "waiting"
               PROVE  ptr'[d] = m'[want'[d]] /\ key'[ptr'[d]] = want'[d] /\ ptr'[d] \notin pool'
    BY DEF PointersLive
  <2>1. CASE d = c
    BY <1>2, <1>3, <2>1 DEF Inv, TypeOK, k
  <2>2. CASE d /= c
    <3>1. Owns(d) \/ state[d] = "waiting"
      BY <1>6, <2>2
    <3>2. /\ want[d] \in Key /\ ptr[d] \in Entries /\ ptr[d] = m[want[d]]
          /\ key[ptr[d]] = want[d] /\ ptr[d] \notin pool
      BY <3>1, LivePointer
    <3>3. want[d] /= k /\ ptr[d] /= e
      BY <1>1, <1>2, <3>2, NoneAssumption
    <3> QED BY <1>2, <1>3, <2>2, <3>2, <3>3 DEF Inv, TypeOK
  <2> QED BY <2>1, <2>2
<1>11. PoolClean'
  BY <1>2, <1>3 DEF Inv, TypeOK, PoolClean
<1>12. QueueExact'
  <2>1. \A f \in Entries : At(f)' = At(f)
    BY <1>3, <1>6 DEF Inv, TypeOK, At
  <2> QED BY <1>3, <2>1, QueueLists, QueueFromLists
<1> QED BY <1>4, <1>5, <1>8, <1>9, <1>10, <1>11, <1>12 DEF Inv

(* A caller joins the queue of the entry that holds its key.               *)
LEMMA LockQueuesStep == ASSUME Inv, NEW c \in Callers, LockQueues(c) PROVE Inv'
<1> DEFINE e == m[want[c]]
<1>1. /\ want[c] \in Key /\ e \in Entries /\ key[e] = want[c] /\ e \notin pool
      /\ pc[c] = "lock" /\ state[c] = "none" /\ ready[c] = 0
  <2>1. pc[c] = "lock" /\ e /= None
    BY DEF LockQueues
  <2>2. ready[c] \in 0..1
    BY DEF Inv, TypeOK
  <2>3. want[c] \in Key /\ state[c] = "none" /\ ready[c] = 0
    BY <2>1, <2>2 DEF Inv, CallerProtocol
  <2> QED BY <2>1, <2>3, MappedEntry
<1>2. /\ q' = [q EXCEPT ![e] = Append(@, c)] /\ ptr' = [ptr EXCEPT ![c] = e]
      /\ state' = [state EXCEPT ![c] = "waiting"] /\ pc' = [pc EXCEPT ![c] = "parked"]
      /\ UNCHANGED <<m, key, pool, closed, want, mode, ready, done>>
  BY DEF LockQueues, Goto
<1> HIDE DEF e
<1>3. /\ \A d \in Callers : Owns(d)' <=> Owns(d)
      /\ \A d \in Callers : state'[d] = "waiting" <=> state[d] = "waiting" \/ d = c
      /\ \A d \in Callers : Owns(d) \/ state[d] = "waiting" => d /= c
  BY <1>1, <1>2 DEF Inv, TypeOK, Owns
<1>4. QueueExact' /\ q' \in [Entries -> Seq(Callers)]
  <2>1. \A f \in Entries : At(f)' = IF f = e THEN At(f) \cup {c} ELSE At(f)
    BY <1>1, <1>2, <1>3 DEF Inv, TypeOK, At
  <2>2. c \notin At(e)
    BY <1>3 DEF At
  <2>3. Lists(Callers, Append(q[e], c), At(e) \cup {c})
    BY <1>1, <2>2, QueueLists, ListsAppend
  <2>4. \A f \in Entries : q'[f] = IF f = e THEN Append(q[e], c) ELSE q[f]
    BY <1>1, <1>2 DEF Inv, TypeOK
  <2>5. ASSUME NEW f \in Entries PROVE Lists(Callers, q'[f], At(f)')
    BY <2>1, <2>3, <2>4, QueueLists
  <2>6. Append(q[e], c) \in Seq(Callers)
    BY <2>3 DEF Lists
  <2> QED BY <1>2, <2>5, <2>6, QueueFromLists DEF Inv, TypeOK
<1>5. TypeOK'
  <2>1. ptr' \in [Callers -> Entries \cup {None}] /\ pc' \in [Callers -> PCs]
    BY <1>1, <1>2 DEF Inv, TypeOK, PCs
  <2>2. state' \in [Callers -> States]
    BY <1>2 DEF Inv, TypeOK, States
  <2> QED BY <1>2, <1>4, <2>1, <2>2 DEF Inv, TypeOK
<1>6. CallerProtocol'
  BY <1>1, <1>2 DEF Inv, TypeOK, CallerProtocol, PCs, States
<1>7. MutualExclusion' /\ EntryIffHeld'
  BY <1>2, <1>3 DEF Inv, MutualExclusion, EntryIffHeld
<1>8. PointersLive'
  BY <1>1, <1>2, <1>3 DEF Inv, TypeOK, PointersLive, e
<1>9. PoolClean'
  BY <1>1, <1>2 DEF Inv, TypeOK, PoolClean
<1> QED BY <1>4, <1>5, <1>6, <1>7, <1>8, <1>9 DEF Inv

(* A caller leaves the queue it waits in.                                  *)
LEMMA LeaveQueueStep == ASSUME Inv, NEW c \in Callers, LeaveQueue(c) PROVE Inv'
<1> DEFINE e == ptr[c]
<1>1. PICK i \in DOMAIN q[e] : q[e][i] = c /\ q' = [q EXCEPT ![e] = RemoveAt(@, i)]
  BY DEF LeaveQueue
<1>2. e \in Entries /\ e \notin pool /\ state[c] = "waiting"
  BY LivePointer DEF LeaveQueue
<1>3. /\ pc' = [pc EXCEPT ![c] = "idle"] /\ want' = [want EXCEPT ![c] = None]
      /\ mode' = [mode EXCEPT ![c] = "Wait"] /\ ptr' = [ptr EXCEPT ![c] = None]
      /\ state' = [state EXCEPT ![c] = "none"] /\ ready' = [ready EXCEPT ![c] = 0]
      /\ done' = [done EXCEPT ![c] = FALSE]
      /\ UNCHANGED <<m, key, pool, closed>>
  BY DEF LeaveQueue, Return, Ends, Forget, Goto
<1> HIDE DEF e
<1>4. /\ \A d \in Callers : Owns(d)' <=> Owns(d)
      /\ \A d \in Callers : state'[d] = "waiting" <=> state[d] = "waiting" /\ d /= c
      /\ ~Owns(c)
  BY <1>2, <1>3 DEF Inv, TypeOK, CallerProtocol, Owns, States, PCs
<1>5. QueueExact' /\ q' \in [Entries -> Seq(Callers)]
  <2>1. \A f \in Entries : At(f)' = IF f = e THEN At(f) \ {c} ELSE At(f)
    BY <1>2, <1>3, <1>4 DEF Inv, TypeOK, At, e
  <2>2. Lists(Callers, RemoveAt(q[e], i), At(e) \ {c})
    BY <1>1, <1>2, QueueLists, ListsRemove
  <2>3. \A f \in Entries : q'[f] = IF f = e THEN RemoveAt(q[e], i) ELSE q[f]
    BY <1>1, <1>2 DEF Inv, TypeOK
  <2>4. ASSUME NEW f \in Entries PROVE Lists(Callers, q'[f], At(f)')
    BY <2>1, <2>2, <2>3, QueueLists
  <2>5. RemoveAt(q[e], i) \in Seq(Callers)
    BY <2>2 DEF Lists
  <2> QED BY <1>1, <2>4, <2>5, QueueFromLists DEF Inv, TypeOK
<1>6. TypeOK'
  <2>1. /\ pc' \in [Callers -> PCs] /\ want' \in [Callers -> Key \cup {None}]
        /\ mode' \in [Callers -> {"Wait", "Reject"}]
        /\ ptr' \in [Callers -> Entries \cup {None}]
    BY <1>3 DEF Inv, TypeOK, PCs
  <2>2. state' \in [Callers -> States] /\ done' \in [Callers -> BOOLEAN]
    BY <1>3 DEF Inv, TypeOK, States
  <2>3. ready' \in [Callers -> 0..1]
    BY <1>3 DEF Inv, TypeOK
  <2> QED BY <1>3, <1>5, <2>1, <2>2, <2>3 DEF Inv, TypeOK
<1>7. CallerProtocol'
  BY <1>3 DEF Inv, TypeOK, CallerProtocol, PCs, States
<1>8. MutualExclusion' /\ EntryIffHeld'
  BY <1>3, <1>4 DEF Inv, TypeOK, MutualExclusion, EntryIffHeld
<1>9. PointersLive'
  BY <1>3, <1>4 DEF Inv, TypeOK, PointersLive
<1>10. PoolClean'
  BY <1>1, <1>2, <1>3 DEF Inv, TypeOK, PoolClean
<1> QED BY <1>5, <1>6, <1>7, <1>8, <1>9, <1>10 DEF Inv
-----------------------------------------------------------------------------
(* What a hand-off finds: its caller owns the entry, and whoever heads the *)
(* queue behind it is another caller, waiting for the same key, in park or *)
(* on its way to leave, without a token.                                   *)
GivesUpKey(c) == Owns(c) /\ HandOff(ptr[c], c) /\ Ends(c) /\ UNCHANGED closed

LEMMA NextInLine ==
  ASSUME Inv, NEW c \in Callers, Owns(c), q[ptr[c]] /= <<>>
  PROVE  LET w == Head(q[ptr[c]]) IN
         /\ w \in Callers /\ w /= c
         /\ state[w] = "waiting" /\ ptr[w] = ptr[c] /\ want[w] = want[c]
         /\ pc[w] \in {"parked", "gaveup"} /\ ready[w] = 0
         /\ Lists(Callers, Tail(q[ptr[c]]), At(ptr[c]) \ {w})
<1> DEFINE e == ptr[c]
           w == Head(q[e])
<1>1. e \in Entries /\ key[e] = want[c]
  BY LivePointer
<1>2. w \in At(e) /\ w \in Callers /\ Lists(Callers, Tail(q[e]), At(e) \ {w})
  BY <1>1, QueueLists, ListsTail
<1> HIDE DEF w
<1>3. state[w] = "waiting" /\ ptr[w] = e
  BY <1>2 DEF At
<1> HIDE DEF e
<1>4. want[w] = key[e]
  BY <1>2, <1>3, LivePointer
<1>5. ready[w] \in 0..1 /\ pc[w] \in PCs
  BY <1>2 DEF Inv, TypeOK
<1>6. pc[w] \in {"parked", "gaveup"} /\ ready[w] = 0
  BY <1>2, <1>3, <1>5 DEF Inv, CallerProtocol, PCs
<1>7. w /= c
  BY <1>3, <1>6 DEF Owns
<1> QED BY <1>1, <1>2, <1>3, <1>4, <1>6, <1>7 DEF w, e

LEMMA HandOffStep == ASSUME Inv, NEW c \in Callers, GivesUpKey(c) PROVE Inv'
<1> DEFINE e == ptr[c]
           k == want[c]
<1>1. k \in Key /\ e \in Entries /\ e = m[k] /\ key[e] = k /\ e \notin pool /\ e /= None
  BY LivePointer, NoneAssumption DEF GivesUpKey
<1>2. /\ pc' = [pc EXCEPT ![c] = "idle"] /\ want' = [want EXCEPT ![c] = None]
      /\ mode' = [mode EXCEPT ![c] = "Wait"] /\ ptr' = [ptr EXCEPT ![c] = None]
      /\ UNCHANGED closed
      /\ HandOff(e, c) /\ Owns(c)
  BY DEF GivesUpKey, Ends, Goto
<1>3. state[c] /= "waiting"
  BY <1>2 DEF Inv, CallerProtocol, Owns
<1>4. \A d \in Callers : d /= c /\ Owns(d) => want[d] /= k
  BY <1>2 DEF Inv, MutualExclusion, k
<1>5. \A d \in Callers : (Owns(d) \/ state[d] = "waiting") /\ want[d] /= k => ptr[d] /= e
  BY <1>1, LivePointer
<1> HIDE DEF e, k
<1>6. /\ pc' \in [Callers -> PCs] /\ want' \in [Callers -> Key \cup {None}]
      /\ mode' \in [Callers -> {"Wait", "Reject"}]
      /\ ptr' \in [Callers -> Entries \cup {None}]
  BY <1>2 DEF Inv, TypeOK, PCs
<1>7. CASE q[e] /= <<>>
  <2> DEFINE w == Head(q[e])
  <2>1. /\ w \in Callers /\ w /= c
        /\ state[w] = "waiting" /\ ptr[w] = e /\ want[w] = k
        /\ pc[w] \in {"parked", "gaveup"} /\ ready[w] = 0
        /\ Lists(Callers, Tail(q[e]), At(e) \ {w})
    BY <1>2, <1>7, NextInLine DEF e, k
  <2>2. /\ q' = [q EXCEPT ![e] = Tail(q[e])]
        /\ state' = [state EXCEPT ![c] = "none", ![w] = "granted"]
        /\ ready' = [ready EXCEPT ![c] = 0, ![w] = @ + 1]
        /\ done' = [done EXCEPT ![c] = FALSE]
        /\ UNCHANGED <<m, key, pool>>
    BY <1>2, <1>7 DEF HandOff, PassOn
  <2> HIDE DEF w
  <2>3. /\ \A d \in Callers : Owns(d)' <=> (Owns(d) /\ d /= c) \/ d = w
        /\ \A d \in Callers : state'[d] = "waiting" <=> state[d] = "waiting" /\ d /= w
    BY <1>2, <1>3, <2>1, <2>2 DEF Inv, TypeOK, CallerProtocol, Owns
  <2>4. QueueExact' /\ q' \in [Entries -> Seq(Callers)]
    <3>1. \A f \in Entries : At(f)' = IF f = e THEN At(f) \ {w} ELSE At(f)
      BY <1>1, <1>2, <1>3, <2>1, <2>3 DEF Inv, TypeOK, At
    <3>2. \A f \in Entries : q'[f] = IF f = e THEN Tail(q[e]) ELSE q[f]
      BY <1>1, <2>2 DEF Inv, TypeOK
    <3>3. ASSUME NEW f \in Entries PROVE Lists(Callers, q'[f], At(f)')
      BY <2>1, <3>1, <3>2, QueueLists
    <3>4. Tail(q[e]) \in Seq(Callers)
      BY <2>1 DEF Lists
    <3> QED BY <2>2, <3>3, <3>4, QueueFromLists DEF Inv, TypeOK
  <2>5. TypeOK'
    <3>1. state' \in [Callers -> States] /\ done' \in [Callers -> BOOLEAN]
      BY <2>1, <2>2 DEF Inv, TypeOK, States
    <3>2. ready' \in [Callers -> 0..1]
      BY <2>1, <2>2 DEF Inv, TypeOK
    <3> QED BY <1>2, <1>6, <2>2, <2>4, <3>1, <3>2 DEF Inv, TypeOK
  <2>6. CallerProtocol'
    BY <1>2, <2>1, <2>2 DEF Inv, TypeOK, CallerProtocol, PCs, States
  <2>7. MutualExclusion'
    BY <1>2, <1>4, <2>1, <2>3 DEF Inv, TypeOK, MutualExclusion
  <2>8. EntryIffHeld'
    <3> SUFFICES ASSUME NEW j \in Key
                 PROVE  m[j] /= None <=> \E d \in Callers : Owns(d)' /\ want'[d] = j
      BY <2>2 DEF EntryIffHeld
    <3>1. CASE j = k
      BY <1>1, <1>2, <2>1, <2>3, <3>1 DEF Inv, TypeOK
    <3>2. CASE j /= k
      BY <1>2, <2>1, <2>3, <3>2, NoneAssumption DEF Inv, TypeOK, EntryIffHeld, k
    <3> QED BY <3>1, <3>2
  <2>9. PointersLive'
    BY <1>1, <1>2, <1>3, <2>1, <2>2, <2>3 DEF Inv, TypeOK, PointersLive
  <2>10. PoolClean'
    BY <1>1, <2>2 DEF Inv, TypeOK, PoolClean
  <2> QED BY <2>4, <2>5, <2>6, <2>7, <2>8, <2>9, <2>10 DEF Inv
<1>8. CASE q[e] = <<>>
  <2>1. /\ m' = [j \in Key |-> IF j = k THEN None ELSE m[j]]
        /\ key' = [key EXCEPT ![e] = None]
        /\ pool' = pool \cup {e}
        /\ state' = [state EXCEPT ![c] = "none"]
        /\ ready' = [ready EXCEPT ![c] = 0]
        /\ done' = [done EXCEPT ![c] = FALSE]
        /\ UNCHANGED q
    BY <1>1, <1>2, <1>8 DEF HandOff, Retire, Forget
  <2>2. At(e) = {}
    <3>1. ToSet(<<>>) = {}
      BY EmptySeq DEF ToSet
    <3> QED BY <1>1, <1>8, <3>1, QueueLists DEF Lists
  <2>3. /\ \A d \in Callers : Owns(d)' <=> Owns(d) /\ d /= c
        /\ \A d \in Callers : state'[d] = "waiting" <=> state[d] = "waiting"
        /\ \A d \in Callers : state[d] = "waiting" => want[d] /= k
    <3>1. \A d \in Callers : state[d] = "waiting" => want[d] /= k
      BY <1>1, <2>2, LivePointer DEF At
    <3> QED BY <1>2, <1>3, <2>1, <3>1 DEF Inv, TypeOK, Owns
  <2>4. QueueExact'
    <3>1. \A f \in Entries : At(f)' = At(f)
      BY <1>2, <1>3, <2>3 DEF Inv, TypeOK, At
    <3> QED BY <2>1, <3>1, QueueLists, QueueFromLists
  <2>5. TypeOK'
    <3>1. state' \in [Callers -> States] /\ done' \in [Callers -> BOOLEAN]
      BY <2>1 DEF Inv, TypeOK, States
    <3>2. ready' \in [Callers -> 0..1]
      BY <2>1 DEF Inv, TypeOK
    <3>3. /\ m' \in [Key -> Entries \cup {None}] /\ key' \in [Entries -> Key \cup {None}]
          /\ pool' \in SUBSET Entries
      BY <1>1, <2>1 DEF Inv, TypeOK
    <3> QED BY <1>2, <1>6, <2>1, <3>1, <3>2, <3>3 DEF Inv, TypeOK
  <2>6. CallerProtocol'
    BY <1>2, <2>1 DEF Inv, TypeOK, CallerProtocol, PCs, States
  <2>7. MutualExclusion'
    BY <1>2, <2>3 DEF Inv, TypeOK, MutualExclusion
  <2>8. EntryIffHeld'
    BY <1>2, <1>4, <2>1, <2>3, NoneAssumption DEF Inv, TypeOK, EntryIffHeld, k
  <2>9. PointersLive'
    <3> SUFFICES ASSUME NEW d \in Callers, Owns(d)' \/ state'[d] = "waiting"
                 PROVE  ptr'[d] = m'[want'[d]] /\ key'[ptr'[d]] = want'[d] /\ ptr'[d] \notin pool'
      BY DEF PointersLive
    <3>1. d /= c /\ (Owns(d) \/ state[d] = "waiting")
      BY <1>3, <2>3
    <3>2. want[d] /= k /\ ptr[d] /= e
      BY <1>4, <1>5, <2>3, <3>1
    <3>3. /\ want[d] \in Key /\ ptr[d] \in Entries /\ ptr[d] = m[want[d]]
          /\ key[ptr[d]] = want[d] /\ ptr[d] \notin pool
      BY <3>1, LivePointer
    <3> QED BY <1>2, <2>1, <3>1, <3>2, <3>3 DEF Inv, TypeOK
  <2>10. PoolClean'
    <3>1. \A f \in pool' : key'[f] = None /\ q'[f] = <<>> /\ \A j \in Key : m'[j] /= f
      <4> SUFFICES ASSUME NEW f \in pool'
                   PROVE  key'[f] = None /\ q'[f] = <<>> /\ \A j \in Key : m'[j] /= f
        OBVIOUS
      <4>1. CASE f = e
        BY <1>1, <1>8, <2>1, <4>1 DEF Inv, TypeOK, PoolClean
      <4>2. CASE f /= e
        BY <1>1, <2>1, <4>2, NoneAssumption DEF Inv, TypeOK, PoolClean
      <4> QED BY <4>1, <4>2
    <3>2. \A i, j \in Key : m'[i] = m'[j] /\ m'[i] /= None => i = j
      BY <2>1 DEF Inv, PoolClean
    <3> QED BY <3>1, <3>2 DEF PoolClean
  <2> QED BY <2>4, <2>5, <2>6, <2>7, <2>8, <2>9, <2>10 DEF Inv
<1> QED BY <1>7, <1>8

(* The close withdraws every caller that waits: each waits at the mapped   *)
(* entry of its key, and the close visits all of those.                    *)
LEMMA AllWithdrawn == ASSUME Inv PROVE Withdrawn = {c \in Callers : state[c] = "waiting"}
<1>1. ASSUME NEW c \in Callers, state[c] = "waiting" PROVE c \in Withdrawn
  <2>1. /\ want[c] \in Key /\ ptr[c] \in Entries /\ ptr[c] = m[want[c]]
    BY <1>1, LivePointer
  <2>2. ptr[c] \in Live
    BY <2>1, NoneAssumption DEF Live
  <2>3. c \in ToSet(q[ptr[c]])
    BY <1>1, <2>1 DEF Inv, QueueExact
  <2> QED BY <2>2, <2>3 DEF Withdrawn
<1>2. ASSUME NEW c \in Withdrawn PROVE c \in Callers /\ state[c] = "waiting"
  <2>1. PICK e \in Live : c \in ToSet(q[e])
    BY DEF Withdrawn
  <2>2. e \in Entries
    BY DEF Inv, TypeOK, Live
  <2> QED BY <2>1, <2>2 DEF Inv, QueueExact
<1> QED BY <1>1, <1>2

LEMMA CloseStep == ASSUME Inv, Close PROVE Inv'
<1>1. /\ UNCHANGED <<m, key, pool, want, mode, ptr, pc, done>>
      /\ closed' = TRUE
      /\ q' = [e \in Entries |-> IF e \in Live THEN <<>> ELSE q[e]]
  BY DEF Close, CloseAll, callVars
<1>2. /\ state' = [c \in Callers |-> IF state[c] = "waiting" THEN "withdrawn" ELSE state[c]]
      /\ ready' = [c \in Callers |-> IF state[c] = "waiting" THEN ready[c] + 1 ELSE ready[c]]
  BY AllWithdrawn DEF Close, CloseAll
<1>3. \A c \in Callers : state[c] = "waiting" => pc[c] \in {"parked", "gaveup"} /\ ready[c] = 0
  <2>1. \A c \in Callers : ready[c] \in 0..1
    BY DEF Inv, TypeOK
  <2> QED BY <2>1 DEF Inv, CallerProtocol
<1>4. /\ \A d \in Callers : Owns(d)' <=> Owns(d)
      /\ \A d \in Callers : state'[d] /= "waiting"
  BY <1>1, <1>2 DEF Inv, TypeOK, Owns
<1>5. TypeOK'
  <2>1. state' \in [Callers -> States]
    BY <1>2 DEF Inv, TypeOK, States
  <2>2. ready' \in [Callers -> 0..1]
    BY <1>2, <1>3 DEF Inv, TypeOK
  <2>3. q' \in [Entries -> Seq(Callers)]
    BY <1>1 DEF Inv, TypeOK
  <2> QED BY <1>1, <2>1, <2>2, <2>3 DEF Inv, TypeOK
<1>6. CallerProtocol'
  BY <1>1, <1>2, <1>3 DEF Inv, TypeOK, CallerProtocol, PCs, States
<1>7. MutualExclusion' /\ EntryIffHeld' /\ PointersLive'
  BY <1>1, <1>4 DEF Inv, MutualExclusion, EntryIffHeld, PointersLive
<1>8. PoolClean'
  BY <1>1 DEF Inv, TypeOK, PoolClean
<1>9. QueueExact'
  <2> SUFFICES ASSUME NEW e \in Entries
               PROVE  Lists(Callers, q'[e], {})
    BY <1>4, QueueFromLists DEF At
  <2>1. CASE e \in Live
    <3>1. <<>> \in Seq(Callers) /\ DOMAIN <<>> = {}
      BY EmptySeq
    <3>2. q'[e] = <<>>
      BY <1>1, <2>1
    <3> QED BY <3>1, <3>2 DEF Lists, IsInjective, ToSet
  <2>2. CASE e \notin Live
    <3>1. At(e) = {}
      <4> SUFFICES ASSUME NEW c \in At(e) PROVE FALSE
        OBVIOUS
      <4>1. c \in Callers /\ state[c] = "waiting" /\ ptr[c] = e
        BY DEF At
      <4> QED BY <2>2, <4>1, LivePointer, NoneAssumption DEF Live
    <3>2. q'[e] = q[e]
      BY <1>1, <2>2
    <3> QED BY <3>1, <3>2, QueueLists
  <2> QED BY <2>1, <2>2
<1> QED BY <1>5, <1>6, <1>7, <1>8, <1>9 DEF Inv

LEMMA StutterStep == ASSUME Inv, UNCHANGED vars PROVE Inv'
<1> USE DEF vars, entryVars, callVars, waitVars
<1>1. TypeOK' /\ CallerProtocol'
  BY DEF Inv, TypeOK, CallerProtocol
<1>2. \A d \in Callers : Owns(d)' <=> Owns(d)
  BY DEF Owns
<1> QED BY <1>1, <1>2, NothingMoved DEF Inv

LEMMA CallSteps ==
  ASSUME NEW c \in Callers, Call(c)
  PROVE  Quiet(c) \/ LockFree(c) \/ LockQueues(c) \/ LeaveQueue(c) \/ GivesUpKey(c)
BY DEF Call, Lock, Leave, Quiet, LeaveGrant, Unlock, GivesUpKey, Owns

LEMMA NextInv == ASSUME Inv, [Next]_vars PROVE Inv'
<1>1. ASSUME NEW c \in Callers, Call(c) PROVE Inv'
  BY <1>1, CallSteps, QuietSteps, LockFreeStep, LockQueuesStep, LeaveQueueStep, HandOffStep
<1> QED BY <1>1, CloseStep, StutterStep DEF Next

LEMMA InvAlways == Spec => []Inv
<1>1. Init => Inv
  BY InitInv
<1>2. Inv /\ [Next]_vars => Inv'
  BY NextInv
<1> QED BY <1>1, <1>2, PTL DEF Spec

(* Two calls that share a key never own it at the same time, also while a  *)
(* caller that gave up still carries a key that arrived too late.          *)
THEOREM KeysExclude == Spec => []MutualExclusion
BY InvAlways, PTL DEF Inv

(* An entry lives exactly while its key is held, every call that may still *)
(* touch an entry points to the live entry of its own key, the pool holds  *)
(* nothing that is in use, and each queue is exactly the callers that wait *)
(* there: whatever order calls leave, take over and reuse entries in.      *)
THEOREM EntriesStaySound == Spec => []EntriesSound
<1>1. Inv => EntriesSound
  BY DEF Inv, EntriesSound
<1> QED BY <1>1, InvAlways, PTL

(* The receive of leave, which runs with mu held, always finds a token.    *)
THEOREM TokenIsReady == Spec => []TokenReady
<1>1. Inv => TokenReady
  BY DEF Inv, CallerProtocol, TokenReady
<1> QED BY <1>1, InvAlways, PTL
-----------------------------------------------------------------------------
(* KeyLocker implements Keys.  The holder of a mapped key is the one call  *)
(* that owns it: Holder is a choice, and Inv says it has no alternative.   *)
HolderFacts == \A k \in Key :
  /\ m[k] = None => Holder[k] = None
  /\ m[k] /= None => Holder[k] \in Callers /\ Owns(Holder[k]) /\ want[Holder[k]] = k
  /\ \A c \in Callers : Owns(c) /\ want[c] = k => m[k] /= None /\ Holder[k] = c

LEMMA HolderOf == Inv => HolderFacts
<1> SUFFICES ASSUME Inv, NEW k \in Key
             PROVE  /\ m[k] = None => Holder[k] = None
                    /\ m[k] /= None =>
                         Holder[k] \in Callers /\ Owns(Holder[k]) /\ want[Holder[k]] = k
                    /\ \A c \in Callers : Owns(c) /\ want[c] = k => m[k] /= None /\ Holder[k] = c
  BY DEF HolderFacts
<1>1. m[k] = None => Holder[k] = None
  BY DEF Holder
<1>2. m[k] /= None => Holder[k] \in Callers /\ Owns(Holder[k]) /\ want[Holder[k]] = k
  <2> SUFFICES ASSUME m[k] /= None
               PROVE  Holder[k] \in Callers /\ Owns(Holder[k]) /\ want[Holder[k]] = k
    OBVIOUS
  <2>1. \E c \in Callers : Owns(c) /\ want[c] = k
    BY DEF Inv, EntryIffHeld
  <2>2. Holder[k] = CHOOSE c \in Callers : Owns(c) /\ want[c] = k
    BY DEF Holder
  <2> QED BY <2>1, <2>2
<1>3. \A c \in Callers : Owns(c) /\ want[c] = k => m[k] /= None /\ Holder[k] = c
  <2> SUFFICES ASSUME NEW c \in Callers, Owns(c), want[c] = k
               PROVE  m[k] /= None /\ Holder[k] = c
    OBVIOUS
  <2>1. m[k] /= None
    BY DEF Inv, EntryIffHeld
  <2> QED BY <1>2, <2>1 DEF Inv, MutualExclusion
<1> QED BY <1>1, <1>2, <1>3

LEMMA Mappings == /\ Holder = [k \in Key |-> Holder[k]]
                  /\ Behind = [k \in Key |-> Behind[k]]
                  /\ \A k \in Key : Behind[k] = IF m[k] = None THEN <<>> ELSE q[m[k]]
BY DEF Holder, Behind

LEMMA MappingsNext == /\ Holder' = [k \in Key |-> Holder'[k]]
                      /\ Behind' = [k \in Key |-> Behind'[k]]
                      /\ \A k \in Key : Behind'[k] = IF m'[k] = None THEN <<>> ELSE q'[m'[k]]
BY DEF Holder, Behind

(* A caller that neither owns nor waits is idle for the reference.         *)
LEMMA IdleForKeys ==
  ASSUME Inv, NEW c \in Callers, ~Owns(c), state[c] /= "waiting"
  PROVE  Abstract!Idle(c)
<1> SUFFICES ASSUME NEW k \in Key
             PROVE  Holder[k] /= c /\ ~Contains(Behind[k], c)
  BY DEF Abstract!Idle, Abstract!Contains, Contains
<1>1. Holder[k] /= c
  BY HolderOf, NoneAssumption DEF HolderFacts
<1>2. ASSUME Contains(Behind[k], c) PROVE FALSE
  <2>1. PICK i \in 1..Len(Behind[k]) : Behind[k][i] = c
    BY <1>2 DEF Contains
  <2>2. CASE m[k] = None
    BY <2>1, <2>2, Mappings
  <2>3. CASE m[k] /= None
    <3>1. m[k] \in Entries /\ Behind[k] = q[m[k]] /\ q[m[k]] \in Seq(Callers)
      BY <2>3, MappedEntry, Mappings DEF Inv, TypeOK
    <3>2. c \in ToSet(q[m[k]])
      BY <2>1, <3>1, LenProperties DEF ToSet
    <3> QED BY <3>1, <3>2 DEF Inv, QueueExact
  <2> QED BY <2>2, <2>3
<1> QED BY <1>1, <1>2

LEMMA KeysInit == ASSUME Init PROVE Abstract!Init
BY DEF Init, Abstract!Init, Holder, Behind

LEMMA QuietRefines ==
  ASSUME Inv, Inv', NEW c \in Callers, Quiet(c)
  PROVE  UNCHANGED Abstract!vars
<1>1. HolderFacts /\ HolderFacts'
  BY HolderOf, PTL
<1>2. /\ UNCHANGED <<m, key, q, pool, closed>>
      /\ \A d \in Callers : Owns(d)' <=> Owns(d)
      /\ \A d \in Callers : Owns(d) \/ state[d] = "waiting" =>
           want'[d] = want[d] /\ ptr'[d] = ptr[d]
  BY QuietEffect
<1>3. \A k \in Key : Holder'[k] = Holder[k]
  BY <1>1, <1>2 DEF HolderFacts
<1>4. \A k \in Key : Behind'[k] = Behind[k]
  BY <1>2, Mappings, MappingsNext
<1> QED BY <1>2, <1>3, <1>4, Mappings, MappingsNext DEF Abstract!vars

LEMMA LockFreeRefines ==
  ASSUME Inv, Inv', NEW c \in Callers, LockFree(c)
  PROVE  Abstract!Acquire(c, want[c])
<1> DEFINE k == want[c]
<1>1. HolderFacts /\ HolderFacts'
  BY HolderOf, PTL
<1>2. PICK e \in pool : Claim(c, e)
  BY DEF LockFree
<1>3. /\ k \in Key /\ m[k] = None /\ e \in Entries /\ e /= None /\ q[e] = <<>>
      /\ pc[c] = "lock" /\ state[c] = "none" /\ ~Owns(c)
  <2>1. pc[c] = "lock" /\ m[k] = None
    BY DEF LockFree
  <2>2. k \in Key /\ state[c] = "none" /\ ~Owns(c)
    BY <2>1 DEF Inv, CallerProtocol, Owns
  <2>3. e \in Entries /\ e /= None /\ q[e] = <<>>
    BY NoneAssumption DEF Inv, TypeOK, PoolClean
  <2> QED BY <2>1, <2>2, <2>3
<1>4. /\ m' = [m EXCEPT ![k] = e] /\ UNCHANGED <<closed, q, want>>
      /\ pc' = [pc EXCEPT ![c] = "held"] /\ state' = [state EXCEPT ![c] = "none"]
  BY <1>2 DEF LockFree, Claim, Goto, Forget
<1>5. Abstract!Idle(c)
  BY <1>3, IdleForKeys
<1> HIDE DEF k
<1>6. \A d \in Callers : Owns(d)' <=> Owns(d) \/ d = c
  BY <1>3, <1>4 DEF Inv, TypeOK, Owns
<1>7. Holder[k] = None
  BY <1>1, <1>3 DEF HolderFacts
<1>8. Holder' = [Holder EXCEPT ![k] = c]
  <2>1. Holder'[k] = c
    BY <1>1, <1>3, <1>4, <1>6 DEF HolderFacts, k
  <2>2. \A j \in Key : j /= k => m'[j] = m[j]
    BY <1>4 DEF Inv, TypeOK
  <2>3. \A j \in Key : j /= k => Holder'[j] = Holder[j]
    BY <1>1, <1>4, <1>6, <2>2 DEF HolderFacts
  <2> QED BY <1>3, <2>1, <2>3, Mappings, MappingsNext
<1>9. Behind' = Behind
  <2>1. \A j \in Key : Behind'[j] = Behind[j]
    BY <1>3, <1>4, Mappings, MappingsNext DEF Inv, TypeOK
  <2> QED BY <2>1, Mappings, MappingsNext
<1> QED BY <1>4, <1>5, <1>7, <1>8, <1>9 DEF Abstract!Acquire, Abstract!Held, k

LEMMA LockQueuesRefines ==
  ASSUME Inv, Inv', NEW c \in Callers, LockQueues(c)
  PROVE  Abstract!Acquire(c, want[c])
<1> DEFINE k == want[c]
           e == m[k]
<1>1. HolderFacts /\ HolderFacts'
  BY HolderOf, PTL
<1>2. pc[c] = "lock" /\ e /= None /\ ~closed
  BY DEF LockQueues, MayQueue
<1>3. k \in Key /\ state[c] = "none" /\ ~Owns(c)
  BY <1>2 DEF Inv, CallerProtocol, Owns
<1>4. /\ q' = [q EXCEPT ![e] = Append(@, c)] /\ state' = [state EXCEPT ![c] = "waiting"]
      /\ pc' = [pc EXCEPT ![c] = "parked"] /\ UNCHANGED <<m, closed, want>>
  BY DEF LockQueues, Goto
<1>5. e \in Entries
  BY <1>2, <1>3, MappedEntry
<1>6. Abstract!Idle(c)
  BY <1>3, IdleForKeys
<1> HIDE DEF k, e
<1>7. \A d \in Callers : Owns(d)' <=> Owns(d)
  BY <1>2, <1>3, <1>4 DEF Inv, TypeOK, Owns
<1>8. Holder[k] /= None
  BY <1>1, <1>2, <1>3, NoneAssumption DEF HolderFacts, e
<1>9. Holder' = Holder
  <2>1. \A j \in Key : Holder'[j] = Holder[j]
    BY <1>1, <1>4, <1>7 DEF HolderFacts
  <2> QED BY <2>1, Mappings, MappingsNext
<1>10. Behind' = [Behind EXCEPT ![k] = Append(@, c)]
  <2>1. Behind'[k] = Append(Behind[k], c)
    BY <1>2, <1>3, <1>4, <1>5, Mappings, MappingsNext DEF Inv, TypeOK, e
  <2>2. \A j \in Key : j /= k => m[j] /= e
    BY <1>2, <1>3 DEF Inv, PoolClean, e
  <2>3. \A j \in Key : j /= k => Behind'[j] = Behind[j]
    <3>1. \A f \in Entries : f /= e => q'[f] = q[f]
      BY <1>4 DEF Inv, TypeOK
    <3>2. \A j \in Key : m[j] \in Entries \cup {None}
      BY DEF Inv, TypeOK
    <3> QED BY <1>4, <2>2, <3>1, <3>2, Mappings, MappingsNext
  <2> QED BY <1>3, <2>1, <2>3, Mappings, MappingsNext
<1> QED BY <1>2, <1>4, <1>6, <1>8, <1>9, <1>10 DEF Abstract!Acquire, Abstract!Held, k

LEMMA LeaveQueueRefines ==
  ASSUME Inv, Inv', NEW c \in Callers, LeaveQueue(c)
  PROVE  \E k \in Key : Abstract!Cancel(c, k)
<1> DEFINE k == want[c]
           e == ptr[c]
<1>1. HolderFacts /\ HolderFacts'
  BY HolderOf, PTL
<1>2. PICK i \in DOMAIN q[e] : q[e][i] = c /\ q' = [q EXCEPT ![e] = RemoveAt(@, i)]
  BY DEF LeaveQueue
<1>3. state[c] = "waiting"
  BY DEF LeaveQueue
<1>4. k \in Key /\ e \in Entries /\ e = m[k] /\ e /= None /\ ~Owns(c)
  BY <1>3, LivePointer, NoneAssumption DEF Inv, CallerProtocol, Owns
<1>5. /\ pc' = [pc EXCEPT ![c] = "idle"] /\ want' = [want EXCEPT ![c] = None]
      /\ state' = [state EXCEPT ![c] = "none"] /\ UNCHANGED <<m, closed>>
  BY DEF LeaveQueue, Return, Ends, Forget, Goto
<1> HIDE DEF k, e
<1>6. \A d \in Callers : Owns(d)' <=> Owns(d)
  BY <1>3, <1>4, <1>5 DEF Inv, TypeOK, Owns
<1>7. Holder' = Holder
  <2>1. \A d \in Callers : Owns(d) => want'[d] = want[d]
    BY <1>4, <1>5 DEF Inv, TypeOK
  <2>2. \A j \in Key : Holder'[j] = Holder[j]
    BY <1>1, <1>5, <1>6, <2>1 DEF HolderFacts
  <2> QED BY <2>2, Mappings, MappingsNext
<1>8. Behind[k] = q[e]
  BY <1>4, Mappings
<1>9. Behind' = [Behind EXCEPT ![k] = RemoveAt(@, i)]
  <2>1. Behind'[k] = RemoveAt(Behind[k], i)
    BY <1>2, <1>4, <1>5, <1>8, Mappings, MappingsNext DEF Inv, TypeOK
  <2>2. \A j \in Key : j /= k => m[j] /= e
    BY <1>4 DEF Inv, PoolClean
  <2>3. \A j \in Key : j /= k => Behind'[j] = Behind[j]
    <3>1. \A f \in Entries : f /= e => q'[f] = q[f]
      BY <1>2 DEF Inv, TypeOK
    <3>2. \A j \in Key : m[j] \in Entries \cup {None}
      BY DEF Inv, TypeOK
    <3> QED BY <1>5, <2>2, <3>1, <3>2, Mappings, MappingsNext
  <2> QED BY <1>4, <2>1, <2>3, Mappings, MappingsNext
<1>10. Abstract!Cancel(c, k)
  <2>1. i \in DOMAIN Behind[k] /\ Behind[k][i] = c
    BY <1>2, <1>8
  <2> QED BY <1>5, <1>7, <1>9, <2>1 DEF Abstract!Cancel, Abstract!RemoveAt, RemoveAt
<1> QED BY <1>4, <1>10

LEMMA HandOffRefines ==
  ASSUME Inv, Inv', NEW c \in Callers, GivesUpKey(c)
  PROVE  \E k \in Key : Abstract!Release(k)
<1> DEFINE k == want[c]
           e == ptr[c]
<1>1. HolderFacts /\ HolderFacts'
  BY HolderOf, PTL
<1>2. /\ Owns(c) /\ HandOff(e, c) /\ UNCHANGED closed
      /\ pc' = [pc EXCEPT ![c] = "idle"] /\ want' = [want EXCEPT ![c] = None]
  BY DEF GivesUpKey, Ends, Goto
<1>3. k \in Key /\ e \in Entries /\ e = m[k] /\ key[e] = k /\ e /= None
  BY <1>2, LivePointer, NoneAssumption
<1>4. Holder[k] = c /\ c /= None /\ Behind[k] = q[e]
  BY <1>1, <1>2, <1>3, Mappings, NoneAssumption DEF HolderFacts
<1>5. \A d \in Callers : d /= c /\ Owns(d) => want[d] /= k
  BY <1>2 DEF Inv, MutualExclusion
<1>6. \A j \in Key : j /= k => m[j] /= e
  BY <1>3 DEF Inv, PoolClean
<1>7. \A j \in Key : m[j] \in Entries \cup {None}
  BY DEF Inv, TypeOK
<1>8. CASE q[e] /= <<>>
  <2> DEFINE w == Head(q[e])
  <2>1. w \in Callers /\ w /= c /\ want[w] = k
    BY <1>2, <1>8, NextInLine
  <2>2. /\ q' = [q EXCEPT ![e] = Tail(q[e])] /\ UNCHANGED m
        /\ state' = [state EXCEPT ![c] = "none", ![w] = "granted"]
    BY <1>2, <1>8 DEF HandOff, PassOn
  <2> HIDE DEF w, k, e
  <2>3. \A d \in Callers : Owns(d)' <=> (Owns(d) /\ d /= c) \/ d = w
    BY <1>2, <2>1, <2>2 DEF Inv, TypeOK, Owns
  <2>4. \A d \in Callers : d /= c => want'[d] = want[d]
    BY <1>2 DEF Inv, TypeOK
  <2>5. Holder' = [Holder EXCEPT ![k] = w]
    <3>1. Holder'[k] = w
      BY <1>1, <1>3, <2>1, <2>3, <2>4 DEF HolderFacts
    <3>2. ASSUME NEW j \in Key, j /= k PROVE Holder'[j] = Holder[j]
      <4>1. CASE m[j] = None
        BY <1>1, <2>2, <4>1 DEF HolderFacts
      <4>2. CASE m[j] /= None
        <5>1. Holder[j] \in Callers /\ Owns(Holder[j]) /\ want[Holder[j]] = j
          BY <1>1, <4>2 DEF HolderFacts
        <5>2. Holder[j] /= c
          BY <3>2, <5>1 DEF k
        <5> QED BY <1>1, <2>3, <2>4, <5>1, <5>2 DEF HolderFacts
      <4> QED BY <4>1, <4>2
    <3> QED BY <1>3, <3>1, <3>2, Mappings, MappingsNext
  <2>6. Behind' = [Behind EXCEPT ![k] = Tail(@)]
    <3>1. Behind'[k] = Tail(Behind[k])
      BY <1>3, <1>4, <2>2, Mappings, MappingsNext DEF Inv, TypeOK
    <3>2. \A f \in Entries : f /= e => q'[f] = q[f]
      BY <2>2 DEF Inv, TypeOK
    <3>3. \A j \in Key : j /= k => Behind'[j] = Behind[j]
      BY <1>6, <1>7, <2>2, <3>2, Mappings, MappingsNext
    <3> QED BY <1>3, <3>1, <3>3, Mappings, MappingsNext
  <2>7. Behind[k] /= <<>> /\ w = Head(Behind[k])
    BY <1>4, <1>8 DEF w
  <2>8. Abstract!Release(k)
    BY <1>2, <1>4, <2>5, <2>6, <2>7 DEF Abstract!Release, Abstract!Held
  <2> QED BY <1>3, <2>8
<1>9. CASE q[e] = <<>>
  <2>1. /\ m' = [j \in Key |-> IF j = k THEN None ELSE m[j]] /\ UNCHANGED q
        /\ state' = [state EXCEPT ![c] = "none"]
    BY <1>2, <1>3, <1>9 DEF HandOff, Retire, Forget
  <2> HIDE DEF k, e
  <2>2. \A d \in Callers : Owns(d)' <=> Owns(d) /\ d /= c
    BY <1>2, <2>1 DEF Inv, TypeOK, Owns
  <2>3. \A d \in Callers : d /= c => want'[d] = want[d]
    BY <1>2 DEF Inv, TypeOK
  <2>4. Holder' = [Holder EXCEPT ![k] = None]
    <3>1. Holder'[k] = None
      BY <1>1, <1>3, <2>1 DEF HolderFacts
    <3>2. ASSUME NEW j \in Key, j /= k PROVE Holder'[j] = Holder[j]
      <4>1. CASE m[j] = None
        BY <1>1, <2>1, <3>2, <4>1 DEF HolderFacts
      <4>2. CASE m[j] /= None
        <5>1. Holder[j] \in Callers /\ Owns(Holder[j]) /\ want[Holder[j]] = j
          BY <1>1, <4>2 DEF HolderFacts
        <5>2. Holder[j] /= c
          BY <3>2, <5>1 DEF k
        <5> QED BY <1>1, <2>2, <2>3, <5>1, <5>2 DEF HolderFacts
      <4> QED BY <4>1, <4>2
    <3> QED BY <1>3, <3>1, <3>2, Mappings, MappingsNext
  <2>5. Behind' = Behind
    <3>1. Behind'[k] = Behind[k]
      BY <1>3, <1>4, <1>9, <2>1, MappingsNext
    <3>2. \A j \in Key : j /= k => Behind'[j] = Behind[j]
      BY <2>1, Mappings, MappingsNext
    <3> QED BY <3>1, <3>2, Mappings, MappingsNext
  <2>6. Abstract!Release(k)
    BY <1>2, <1>4, <1>9, <2>4, <2>5 DEF Abstract!Release, Abstract!Held
  <2> QED BY <1>3, <2>6
<1> QED BY <1>8, <1>9

LEMMA CloseRefines == ASSUME Inv, Inv', Close PROVE Abstract!Close
<1>1. HolderFacts /\ HolderFacts'
  BY HolderOf, PTL
<1>2. /\ ~closed /\ closed' = TRUE /\ UNCHANGED <<m, want, pc>>
      /\ q' = [e \in Entries |-> IF e \in Live THEN <<>> ELSE q[e]]
      /\ state' = [c \in Callers |-> IF c \in Withdrawn THEN "withdrawn" ELSE state[c]]
  BY DEF Close, CloseAll, callVars
<1>3. \A d \in Callers : Owns(d)' <=> Owns(d)
  BY <1>2, AllWithdrawn DEF Owns
<1>4. Holder' = Holder
  <2>1. \A j \in Key : Holder'[j] = Holder[j]
    BY <1>1, <1>2, <1>3 DEF HolderFacts
  <2> QED BY <2>1, Mappings, MappingsNext
<1>5. Behind' = [k \in Key |-> <<>>]
  <2> SUFFICES ASSUME NEW k \in Key PROVE Behind'[k] = <<>>
    BY MappingsNext
  <2>1. CASE m[k] = None
    BY <1>2, <2>1, MappingsNext
  <2>2. CASE m[k] /= None
    <3>1. m[k] \in Entries /\ m[k] \in Live
      BY <2>2, MappedEntry DEF Live
    <3> QED BY <1>2, <2>2, <3>1, MappingsNext
  <2> QED BY <2>1, <2>2
<1> QED BY <1>2, <1>4, <1>5 DEF Abstract!Close

(* Every step of keys.go is one atomic operation of the laboratory's       *)
(* reference locker, or leaves its state alone: the callers, the tokens,   *)
(* the pool and the late grants of the code add no behaviour to per-key    *)
(* mutual exclusion with first-come first-served hand-off.                 *)
THEOREM KeyLockerImplementsKeys == Spec => ImplementsKeys
<1>1. Init => Abstract!Init
  BY KeysInit
<1>2. Inv /\ Inv' /\ [Next]_vars => [Abstract!Next]_(Abstract!vars)
  <2> SUFFICES ASSUME Inv, Inv', [Next]_vars
               PROVE  Abstract!Next \/ UNCHANGED Abstract!vars
    OBVIOUS
  <2>1. ASSUME NEW c \in Callers, Call(c) PROVE Abstract!Next \/ UNCHANGED Abstract!vars
    <3>1. CASE Quiet(c)
      BY <3>1, QuietRefines
    <3>2. CASE LockFree(c) \/ LockQueues(c)
      <4>1. want[c] \in Key
        BY <3>2 DEF LockFree, LockQueues, Inv, CallerProtocol
      <4> QED BY <3>2, <4>1, LockFreeRefines, LockQueuesRefines DEF Abstract!Next
    <3>3. CASE LeaveQueue(c)
      BY <3>3, LeaveQueueRefines DEF Abstract!Next
    <3>4. CASE GivesUpKey(c)
      BY <3>4, HandOffRefines DEF Abstract!Next
    <3> QED BY <2>1, <3>1, <3>2, <3>3, <3>4, CallSteps
  <2>2. CASE Close
    BY <2>2, CloseRefines DEF Abstract!Next
  <2>3. CASE UNCHANGED vars
    BY <2>3 DEF vars, entryVars, callVars, waitVars, Abstract!vars, Holder, Behind, Owns
  <2> QED BY <2>1, <2>2, <2>3 DEF Next
<1> QED BY <1>1, <1>2, InvAlways, PTL DEF Spec, ImplementsKeys, Abstract!Spec
=============================================================================
