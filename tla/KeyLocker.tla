----------------------------- MODULE KeyLocker -----------------------------
(***************************************************************************)
(* The key space of the runtime: keys.go, with the waiters of waiter.go    *)
(* that queue behind a holder and the pool its entries come from.          *)
(*                                                                         *)
(* Steps.  Every critical section of kl.mu is one step.  A section wakes   *)
(* callers before it unlocks, but what a woken caller does without the     *)
(* lock touches nothing the rest of the section reads, so it can as well   *)
(* be ordered after the unlock.  The select in park is a step of its own.  *)
(*                                                                         *)
(* Entries are identities: a caller keeps a pointer to an entry while it   *)
(* waits or holds, and the entry may be retired to the pool and reused for *)
(* another key behind its back.                                            *)
(***************************************************************************)
EXTENDS Integers, SequencesExt

CONSTANTS Callers,      \* the goroutines that lock keys
          Key,          \* the non-empty keys
          Entries,      \* the keyEntry objects that exist
          None          \* nil, and the empty string

ASSUME NoneAssumption == None \notin Callers \cup Key \cup Entries

VARIABLES
  m,            \* KeyLocker.m: the entry of each key, None if it has none
  closed,       \* KeyLocker.closed
  key,          \* keyEntry.key
  q,            \* keyEntry.q: the callers whose waiters are queued, head first
  pool,         \* entries that keyEntries.Get may return: put back, or new
  want,         \* the key a call locks
  mode,         \* the AdmissionMode of the call
  ptr,          \* the entry the call points to, from lock to unlock or leave
  pc,           \* where each caller is
  state,        \* waiter.state of its waiter, "none" when it has no waiter
  ready,        \* tokens in its waiter's channel
  done          \* whether the context of its call has ended

entryVars == <<m, key, q, pool>>
waitVars == <<state, ready, done>>
callVars == <<want, mode, ptr>>
vars == <<entryVars, closed, callVars, pc, waitVars>>

(* pc is idle, lock, parked, gaveup, woken or held; state is none, waiting, *)
(* granted or withdrawn.                                                   *)

Init == /\ m = [k \in Key |-> None]
        /\ closed = FALSE
        /\ key = [e \in Entries |-> None]
        /\ q = [e \in Entries |-> <<>>]
        /\ pool = Entries
        /\ want = [c \in Callers |-> None]
        /\ mode = [c \in Callers |-> "Wait"]
        /\ ptr = [c \in Callers |-> None]
        /\ pc = [c \in Callers |-> "idle"]
        /\ state = [c \in Callers |-> "none"]
        /\ ready = [c \in Callers |-> 0]
        /\ done = [c \in Callers |-> FALSE]
-----------------------------------------------------------------------------
Goto(c, l) == pc' = [pc EXCEPT ![c] = l]

(* The waiter and the context of the call are gone.                        *)
Forget(c) == /\ state' = [state EXCEPT ![c] = "none"]
             /\ ready' = [ready EXCEPT ![c] = 0]
             /\ done' = [done EXCEPT ![c] = FALSE]

(* The call is over, with no key and no pointer left.                      *)
Ends(c) == /\ Goto(c, "idle")
           /\ want' = [want EXCEPT ![c] = None]
           /\ mode' = [mode EXCEPT ![c] = "Wait"]
           /\ ptr' = [ptr EXCEPT ![c] = None]

Return(c) == Ends(c) /\ Forget(c)

(* Seeded fault: the key is deleted from the map before the queue is seen. *)
PassOn_Unmaps(e, c, w, rest) ==
  /\ q' = [q EXCEPT ![e] = rest]
  /\ m' = [k \in Key |-> IF k = key[e] THEN None ELSE m[k]]
  /\ state' = [state EXCEPT ![c] = "none", ![w] = "granted"]
  /\ ready' = [ready EXCEPT ![c] = 0, ![w] = @ + 1]
  /\ done' = [done EXCEPT ![c] = FALSE]
  /\ UNCHANGED <<key, pool>>

(* The key of e goes from c to the waiter w, and rest waits behind it.     *)
PassOn(e, c, w, rest) ==
  /\ q' = [q EXCEPT ![e] = rest]
  /\ state' = [state EXCEPT ![c] = "none", ![w] = "granted"]
  /\ ready' = [ready EXCEPT ![c] = 0, ![w] = @ + 1]
  /\ done' = [done EXCEPT ![c] = FALSE]
  /\ UNCHANGED <<m, key, pool>>

Retire(e, c) ==
  /\ m' = [k \in Key |-> IF k = key[e] THEN None ELSE m[k]]
  /\ key' = [key EXCEPT ![e] = None]
  /\ pool' = pool \cup {e}
  /\ Forget(c)
  /\ UNCHANGED q

\* Seeded fault: the last waiter is served first.
HandOff_Last(e, c) ==
  IF q[e] /= <<>> THEN PassOn(e, c, Last(q[e]), Front(q[e])) ELSE Retire(e, c)

(* handOff(e), in the section in which c gives up its hold: the next       *)
(* waiter is woken with the key, or the entry is retired to the pool.      *)
HandOff(e, c) ==
  IF q[e] /= <<>> THEN PassOn(e, c, Head(q[e]), Tail(q[e])) ELSE Retire(e, c)
-----------------------------------------------------------------------------
(* admit takes no key for a call whose context has ended already.          *)
Begin(c) ==
  /\ pc[c] = "idle"
  /\ Goto(c, "lock")
  /\ \E k \in Key : want' = [want EXCEPT ![c] = k]
  /\ \E a \in {"Wait", "Reject"} : mode' = [mode EXCEPT ![c] = a]
  /\ UNCHANGED <<entryVars, closed, ptr, waitVars>>

CtxEnds(c) ==
  /\ pc[c] \in {"lock", "parked"}
  /\ ~done[c]
  /\ done' = [done EXCEPT ![c] = TRUE]
  /\ UNCHANGED <<entryVars, closed, callVars, pc, state, ready>>

(* Seeded fault: a reused entry does not get its new key.                  *)
Claim_NoKey(c, e) == /\ pool' = pool \ {e}
                     /\ m' = [m EXCEPT ![want[c]] = e]
                     /\ ptr' = [ptr EXCEPT ![c] = e]
                     /\ UNCHANGED key

Claim(c, e) == /\ pool' = pool \ {e}
               /\ key' = [key EXCEPT ![e] = want[c]]
               /\ m' = [m EXCEPT ![want[c]] = e]
               /\ ptr' = [ptr EXCEPT ![c] = e]

(* A key without an entry is free, and is taken even after close.          *)
LockFree(c) ==
  /\ pc[c] = "lock"
  /\ m[want[c]] = None
  /\ \E e \in pool : Claim(c, e)
  /\ Goto(c, "held")
  /\ Forget(c)
  /\ UNCHANGED <<closed, q, want, mode>>

MayQueue(c) == mode[c] = "Wait" /\ ~closed /\ ~done[c]

LockRefused(c) ==
  /\ pc[c] = "lock"
  /\ m[want[c]] /= None
  /\ ~MayQueue(c)
  /\ Return(c)
  /\ UNCHANGED <<entryVars, closed>>

LockQueues(c) ==
  /\ pc[c] = "lock"
  /\ m[want[c]] /= None
  /\ MayQueue(c)
  /\ q' = [q EXCEPT ![m[want[c]]] = Append(@, c)]
  /\ ptr' = [ptr EXCEPT ![c] = m[want[c]]]
  /\ state' = [state EXCEPT ![c] = "waiting"]
  /\ Goto(c, "parked")
  /\ UNCHANGED <<m, key, pool, closed, want, mode, ready, done>>

TakeToken(c) ==
  /\ pc[c] = "parked"
  /\ ready[c] > 0
  /\ IF state[c] = "granted" /\ ~done[c]
     THEN Goto(c, "held") /\ Forget(c)
     ELSE /\ Goto(c, "woken")
          /\ ready' = [ready EXCEPT ![c] = 0]
          /\ UNCHANGED <<state, done>>
  /\ UNCHANGED <<entryVars, closed, callVars>>

GiveUp(c) ==
  /\ pc[c] = "parked"
  /\ done[c]
  /\ Goto(c, "gaveup")
  /\ UNCHANGED <<entryVars, closed, callVars, waitVars>>

(* leave: a waiter still queued is removed.                                *)
LeaveQueue(c) ==
  /\ pc[c] \in {"gaveup", "woken"}
  /\ state[c] = "waiting"
  /\ \E i \in DOMAIN q[ptr[c]] :
       q[ptr[c]][i] = c /\ q' = [q EXCEPT ![ptr[c]] = RemoveAt(@, i)]
  /\ Return(c)
  /\ UNCHANGED <<m, key, pool, closed>>

(* The token is drained if park did not take it; without one the receive   *)
(* would block with mu held.                                               *)
Drained(c) == pc[c] = "woken" \/ (pc[c] = "gaveup" /\ ready[c] > 0)

(* Seeded fault: the key that arrived too late is dropped.                 *)
LeaveGrant_Drops(c) ==
  /\ state[c] = "granted"
  /\ Drained(c)
  /\ Return(c)
  /\ UNCHANGED <<entryVars, closed>>

(* leave: the key arrived as the caller gave up, and is passed on.         *)
LeaveGrant(c) ==
  /\ state[c] = "granted"
  /\ Drained(c)
  /\ HandOff(ptr[c], c)
  /\ Ends(c)
  /\ UNCHANGED closed

LeaveWithdrawn(c) ==
  /\ state[c] = "withdrawn"
  /\ Drained(c)
  /\ Return(c)
  /\ UNCHANGED <<entryVars, closed>>

Unlock(c) ==
  /\ pc[c] = "held"
  /\ HandOff(ptr[c], c)
  /\ Ends(c)
  /\ UNCHANGED closed

Live == {m[k] : k \in Key} \ {None}
Withdrawn == UNION {ToSet(q[e]) : e \in Live}

\* Seeded fault: withdrawn waiters get no token.
CloseAll_NoToken == /\ q' = [e \in Entries |-> IF e \in Live THEN <<>> ELSE q[e]]
                    /\ state' = [c \in Callers |-> IF c \in Withdrawn THEN "withdrawn"
                                                  ELSE state[c]]
                    /\ UNCHANGED ready

CloseAll == /\ q' = [e \in Entries |-> IF e \in Live THEN <<>> ELSE q[e]]
            /\ state' = [c \in Callers |-> IF c \in Withdrawn THEN "withdrawn"
                                          ELSE state[c]]
            /\ ready' = [c \in Callers |-> IF c \in Withdrawn THEN ready[c] + 1
                                          ELSE ready[c]]

(* close: withdraw the waiters of every entry in the map.                  *)
Close == /\ ~closed
         /\ closed' = TRUE
         /\ CloseAll
         /\ UNCHANGED <<m, key, pool, callVars, pc, done>>

Lock(c) == LockFree(c) \/ LockRefused(c) \/ LockQueues(c)
Leave(c) == LeaveQueue(c) \/ LeaveGrant(c) \/ LeaveWithdrawn(c)

Call(c) == \/ Begin(c) \/ CtxEnds(c)
           \/ Lock(c)
           \/ TakeToken(c) \/ GiveUp(c)
           \/ Leave(c)
           \/ Unlock(c)

Next == Close \/ \E c \in Callers : Call(c)

Spec == Init /\ [][Next]_vars

(***************************************************************************)
(* Fairness.  Goroutines that can run do run, and kl.mu, whose sections    *)
(* are single steps here, is handed to each of them in time (sync.Mutex    *)
(* starves nobody).  Begin, CtxEnds and Close happen or not.               *)
(***************************************************************************)
Runs(c) == Lock(c) \/ TakeToken(c) \/ GiveUp(c) \/ Leave(c)

FairSpec == Spec /\ \A c \in Callers : WF_vars(Runs(c))

(* Handlers return, so every holder unlocks: a hypothesis of NoStarvation. *)
HoldersUnlock == \A c \in Callers : WF_vars(Unlock(c))
-----------------------------------------------------------------------------
Owns(c) == pc[c] = "held" \/ state[c] = "granted"

(* Mutual exclusion: calls that share a key own it one at a time, where a  *)
(* key handed to a caller that gives up is owned until it is passed on.    *)
MutualExclusion ==
  \A a, b \in Callers : a /= b /\ Owns(a) /\ Owns(b) => want[a] /= want[b]

(* An entry lives exactly while its key is held: an idle key costs nothing *)
(* and a held one is never forgotten.                                      *)
EntryIffHeld == \A k \in Key : m[k] /= None <=> \E c \in Callers : Owns(c) /\ want[c] = k

(* A call that may still touch the entry it points to (it holds the key,   *)
(* waits for it, or was granted it) points to the live entry of its own    *)
(* key, never to one retired to the pool or reused for another key.        *)
PointersLive ==
  \A c \in Callers : Owns(c) \/ state[c] = "waiting"
    => ptr[c] = m[want[c]] /\ key[ptr[c]] = want[c] /\ ptr[c] \notin pool

(* What the pool holds is clean: no key, no waiter, in nobody's map slot;  *)
(* and no two keys share an entry.                                         *)
PoolClean == /\ \A e \in pool : key[e] = None /\ q[e] = <<>> /\ \A k \in Key : m[k] /= e
             /\ \A j, k \in Key : m[j] = m[k] /\ m[j] /= None => j = k

(* Each queue holds exactly the callers that wait for its entry, once.     *)
QueueExact ==
  \A e \in Entries : /\ IsInjective(q[e])
                     /\ ToSet(q[e]) = {c \in Callers : state[c] = "waiting" /\ ptr[c] = e}

(* Entries are sound: nothing keeps, loses or misuses an entry, whatever   *)
(* order calls leave, are handed the key and take entries from the pool in. *)
EntriesSound == EntryIffHeld /\ PointersLive /\ PoolClean /\ QueueExact

(* A waiter with a verdict has its token until its caller takes it: the    *)
(* receive in leave, which runs with mu held, never blocks.                *)
TokenReady == \A c \in Callers :
  pc[c] \in {"parked", "gaveup"} => (ready[c] = 1 <=> state[c] \in {"granted", "withdrawn"})

(* If holders unlock, a call that waits for its key gets it or returns.    *)
NoStarvation ==
  HoldersUnlock => \A c \in Callers : pc[c] = "parked" ~> pc[c] \in {"held", "idle"}

(* Even if no holder ever unlocks, a waiter whose context ends, or whose   *)
(* runtime shuts down, leaves.                                             *)
WaitersLeave ==
  \A c \in Callers :
    pc[c] = "parked" /\ (done[c] \/ closed) ~> pc[c] \in {"held", "idle"}

(* Every waiter proceeds: for either of the two reasons it has to.         *)
WaitersProceed == NoStarvation /\ WaitersLeave

(* The implementation of the reference locker: the holder of a key is the  *)
(* call that owns it, its queue that of its entry.                         *)
Holder == [k \in Key |-> IF m[k] = None THEN None
                         ELSE CHOOSE c \in Callers : Owns(c) /\ want[c] = k]
Behind == [k \in Key |-> IF m[k] = None THEN <<>> ELSE q[m[k]]]

Abstract == INSTANCE Keys WITH Nobody <- None, holder <- Holder, queue <- Behind

(* Every step of the key locker is a step of the reference or a stutter.   *)
ImplementsKeys == Abstract!Spec
=============================================================================
