-------------------------------- MODULE Sem --------------------------------
(***************************************************************************)
(* The reference budget semaphore of the test laboratory,                  *)
(* lab/model/sem.go, as lab/model/system.go drives it: a weighted          *)
(* semaphore with a strict FIFO queue and head-of-line blocking, in which  *)
(* an operation and all the grants it causes are one atomic step.  It is   *)
(* the abstract specification of a budget; Resource.tla implements it.     *)
(***************************************************************************)
EXTENDS Integers, SequencesExt

CONSTANTS Callers,      \* the calls that claim units
          Cap           \* Sem.Cap, the capacity of the budget

VARIABLES used,         \* Sem.Used
          queue,        \* Sem.queue: the waiters, head first
          units,        \* units[c]: what the call was granted and not yet returned
          closed        \* System.stopping: no call queues any more

vars == <<used, queue, units, closed>>

Waiter == [id : Callers, n : 1..Cap]

Init == /\ used = 0
        /\ queue = <<>>
        /\ units = [c \in Callers |-> 0]
        /\ closed = FALSE
-----------------------------------------------------------------------------
Queued(c) == \E w \in ToSet(queue) : w.id = c

Idle(c) == units[c] = 0 /\ ~Queued(c)

(* Demand(q)[k] is what the first k waiters of q want together.            *)
Demand(q) ==
  LET sum[k \in 0..Len(q)] == IF k = 0 THEN 0 ELSE sum[k-1] + q[k].n IN sum

(* How many waiters grant() serves from the head of q with u units in use: *)
(* it stops at the first one that does not fit.                            *)
Served(u, q) == Max({k \in 0..Len(q) : u + Demand(q)[k] <= Cap})

(* grant(): with u units in use, q queued and h held, serve the head for   *)
(* as long as it fits.                                                     *)
Grant(u, q, h) ==
  LET k == Served(u, q)
      NowGranted(c) == {i \in 1..k : q[i].id = c}
  IN  /\ used' = u + Demand(q)[k]
      /\ queue' = SubSeq(q, k+1, Len(q))
      /\ units' = [c \in Callers |->
                     IF NowGranted(c) = {} THEN h[c] ELSE q[Max(NowGranted(c))].n]

TryAcquire(c, n) ==
  /\ Idle(c)
  /\ queue = <<>>
  /\ used + n <= Cap
  /\ used' = used + n
  /\ units' = [units EXCEPT ![c] = n]
  /\ UNCHANGED <<queue, closed>>

(* A claim that is not granted at once queues, unless the system stops.    *)
Acquire(c, n) ==
  /\ Idle(c)
  /\ ~(queue = <<>> /\ used + n <= Cap)
  /\ ~closed
  /\ queue' = Append(queue, [id |-> c, n |-> n])
  /\ UNCHANGED <<used, units, closed>>

Release(c) ==
  /\ units[c] > 0
  /\ Grant(used - units[c], queue, [units EXCEPT ![c] = 0])
  /\ UNCHANGED closed

(* Only removing the head re-examines the queue.                           *)
Cancel(c) ==
  \E i \in DOMAIN queue :
    /\ queue[i].id = c
    /\ IF i = 1 THEN Grant(used, Tail(queue), units)
       ELSE queue' = RemoveAt(queue, i) /\ UNCHANGED <<used, units>>
    /\ UNCHANGED closed

(* System.shutdown withdraws every parked call.                            *)
Close ==
  /\ ~closed
  /\ closed' = TRUE
  /\ queue' = <<>>
  /\ UNCHANGED <<used, units>>

Next == \/ Close
        \/ \E c \in Callers :
             \/ Release(c)
             \/ Cancel(c)
             \/ \E n \in 1..Cap : TryAcquire(c, n) \/ Acquire(c, n)

Spec == Init /\ [][Next]_vars
=============================================================================
