-------------------------------- MODULE Keys --------------------------------
(***************************************************************************)
(* The reference key locker of the test laboratory, lab/model/keys.go, as  *)
(* lab/model/system.go drives it: per-key mutual exclusion with FIFO       *)
(* hand-off, one atomic step per operation.  It is the abstract            *)
(* specification of the key space; KeyLocker.tla implements it.            *)
(***************************************************************************)
EXTENDS SequencesExt

CONSTANTS Callers, Key, Nobody

VARIABLES holder,       \* keyEntry.holder, Nobody when the key has no entry
          queue,        \* keyEntry.queue: the calls behind the holder
          closed        \* System.stopping

vars == <<holder, queue, closed>>

Init == /\ holder = [k \in Key |-> Nobody]
        /\ queue = [k \in Key |-> <<>>]
        /\ closed = FALSE

Held(k) == holder[k] /= Nobody

Idle(c) == \A k \in Key : holder[k] /= c /\ ~Contains(queue[k], c)

Acquire(c, k) ==
  /\ Idle(c)
  /\ \/ /\ ~Held(k)
        /\ holder' = [holder EXCEPT ![k] = c]
        /\ UNCHANGED <<queue, closed>>
     \/ /\ Held(k) /\ ~closed
        /\ queue' = [queue EXCEPT ![k] = Append(@, c)]
        /\ UNCHANGED <<holder, closed>>

Release(k) ==
  /\ Held(k)
  /\ IF queue[k] = <<>>
     THEN holder' = [holder EXCEPT ![k] = Nobody] /\ UNCHANGED queue
     ELSE /\ holder' = [holder EXCEPT ![k] = Head(queue[k])]
          /\ queue' = [queue EXCEPT ![k] = Tail(@)]
  /\ UNCHANGED closed

Cancel(c, k) ==
  /\ \E i \in DOMAIN queue[k] :
       queue[k][i] = c /\ queue' = [queue EXCEPT ![k] = RemoveAt(@, i)]
  /\ UNCHANGED <<holder, closed>>

(* System.shutdown withdraws every parked call.                            *)
Close == /\ ~closed
         /\ closed' = TRUE
         /\ queue' = [k \in Key |-> <<>>]
         /\ UNCHANGED holder

Next == \/ Close
        \/ \E k \in Key : \/ Release(k)
                          \/ \E c \in Callers : Acquire(c, k) \/ Cancel(c, k)

Spec == Init /\ [][Next]_vars
=============================================================================
