---------------------------- MODULE ResourceSem ----------------------------
(***************************************************************************)
(* Resource implements Sem: the lock-level budget of resource.go behaves   *)
(* as the reference semaphore of lab/model/sem.go, whose operations are    *)
(* atomic.  An operation takes effect when it takes the lock.  While the   *)
(* loop of grant() runs, Sem has already granted every waiter that the     *)
(* loop is still going to serve; while close withdraws, Sem's queue is     *)
(* already empty.                                                          *)
(***************************************************************************)
EXTENDS Resource

Line(s) == [i \in DOMAIN s |-> [id |-> s[i], n |-> need[s[i]]]]

(* Sem on the concrete values: only its operators on values are used.      *)
Now == INSTANCE Sem WITH Cap <- Size, used <- cur, queue <- Line(q),
                         units <- need, closed <- closed

(* How many of those queued the loop under way is still going to serve.    *)
Pending == IF lock = "granting" THEN Now!Served(cur, Line(q)) ELSE 0
Promised(c) == \E i \in 1..Pending : q[i] = c

InUse == cur + Now!Demand(Line(q))[Pending]
Left == IF lock = "closing" THEN <<>> ELSE SubSeq(Line(q), Pending + 1, Len(q))
Has == [c \in Callers |-> IF Owns(c) \/ Promised(c) THEN need[c] ELSE 0]

Abstract == INSTANCE Sem WITH
  Cap <- Size, used <- InUse, queue <- Left, units <- Has, closed <- closed

(* Every step of the budget is a step of the reference semaphore or a      *)
(* stutter of it: grants served one by one amount to one atomic operation. *)
ImplementsSem == Abstract!Spec
=============================================================================
