-------------------------------- MODULE Gate --------------------------------
(***************************************************************************)
(* The admission gate, the drain and the counters of a runtime:            *)
(* runtime.go.  Everything here is lock-free, so every access to the gate  *)
(* word, to a counter or to the done channel is a step of its own.         *)
(*                                                                         *)
(* The gate word is split in its three fields.  It is read and written as  *)
(* a whole: a comparison with `stopping' is on all three of them.          *)
(***************************************************************************)
EXTENDS Integers, FiniteSets

CONSTANTS Callers,      \* goroutines that call Do, again and again
          Shutdowns,    \* goroutines that call Shutdown, each once
          Readers,      \* goroutines that call Stats, again and again
          MaxAdmitted,  \* bound: calls admitted in a behaviour
          Wrap          \* the width of the rejected counter, 2^64 in the code

ASSUME BoundsAssumption == MaxAdmitted \in Nat /\ Wrap \in Nat \ {0}
ASSUME FiniteAssumption == IsFiniteSet(Callers) /\ Callers \cap Shutdowns = {}

VARIABLES
  stopping,     \* the stopping bit of the gate word
  drained,      \* its drained bit
  count,        \* its in-flight count
  done,         \* whether Runtime.done is closed
  admitted, started, finished, rejected,        \* the counters
  pc,           \* where each caller and each Shutdown is
  refused,      \* whether the call of a caller was refused at the gate
  expired,      \* whether the context of a Shutdown has ended
  idleAtStop,   \* history: when a Shutdown set stopping, no admitted call was in flight
                \* and its context had already ended
  at,           \* how far each Stats call has read
  snap          \* the counters it has read

gateVars == <<stopping, drained, count>>
counterVars == <<admitted, started, finished, rejected>>
shutVars == <<expired, idleAtStop>>
readVars == <<at, snap>>
vars == <<gateVars, done, counterVars, pc, refused, shutVars, readVars>>

Procs == Callers \cup Shutdowns

CallerPC == { "idle",
              "entered",        \* passed the gate, not yet counted as admitted
              "admitted",       \* in admission: key, then units
              "started",        \* its handler has been entered
              "finished",       \* counted as finished, still in flight
              "refused",        \* bumped the count of a stopping gate
              "mark",           \* in markDrained, before the CompareAndSwap
              "close",          \* in markDrained, before close(done)
              "reject" }        \* refused and out, not yet counted

ShutdownPC == { "idle",
                "withdraw",     \* first Shutdown: closing budgets and keys
                "mark", "close",
                "check",        \* before isClosed(done)
                "select",       \* waiting for done or its context
                "nil", "expired" }

Init == /\ stopping = FALSE
        /\ drained = FALSE
        /\ count = 0
        /\ done = FALSE
        /\ admitted = 0 /\ started = 0 /\ finished = 0 /\ rejected = 0
        /\ pc = [p \in Procs |-> "idle"]
        /\ refused = [c \in Callers |-> FALSE]
        /\ expired = [s \in Shutdowns |-> FALSE]
        /\ idleAtStop = [s \in Shutdowns |-> FALSE]
        /\ at = [r \in Readers |-> "idle"]
        /\ snap = [r \in Readers |-> [finished |-> 0, started |-> 0, admitted |-> 0]]
-----------------------------------------------------------------------------
Goto(p, l) == pc' = [pc EXCEPT ![p] = l]

(* Admitted calls that have not left Do.                                   *)
Live == {c \in Callers : pc[c] \in {"entered", "admitted", "started", "finished"}}

(* Everybody who has bumped the count and not yet given it back.           *)
InFlight == Live \cup {c \in Callers : pc[c] = "refused"}

\* Seeded faults: a refused call is not counted but leaves; it is counted but
\* does not leave.
Enter_NotCounted(c) ==
  /\ pc[c] = "idle"
  /\ stopping \/ admitted + Cardinality({b \in Callers : pc[b] = "entered"}) < MaxAdmitted
  /\ count' = IF stopping THEN count ELSE count + 1
  /\ Goto(c, IF stopping THEN "refused" ELSE "entered")
  /\ refused' = [refused EXCEPT ![c] = stopping]
  /\ UNCHANGED <<stopping, drained, done, counterVars, shutVars, readVars>>
Enter_NoLeave(c) ==
  /\ pc[c] = "idle"
  /\ stopping \/ admitted + Cardinality({b \in Callers : pc[b] = "entered"}) < MaxAdmitted
  /\ count < 9
  /\ count' = count + 1
  /\ Goto(c, IF stopping THEN "reject" ELSE "entered")
  /\ refused' = [refused EXCEPT ![c] = stopping]
  /\ UNCHANGED <<stopping, drained, done, counterVars, shutVars, readVars>>

(* enter: one Add both counts the call and reads the stopping bit.         *)
Enter(c) ==
  /\ pc[c] = "idle"
  /\ stopping \/ admitted + Cardinality({b \in Callers : pc[b] = "entered"}) < MaxAdmitted
  /\ count' = count + 1
  /\ Goto(c, IF stopping THEN "refused" ELSE "entered")
  /\ refused' = [refused EXCEPT ![c] = stopping]
  /\ UNCHANGED <<stopping, drained, done, counterVars, shutVars, readVars>>

CountAdmitted(c) ==
  /\ pc[c] = "entered"
  /\ admitted' = admitted + 1
  /\ Goto(c, "admitted")
  /\ UNCHANGED <<gateVars, done, started, finished, rejected, refused, shutVars, readVars>>

\* Seeded fault: Started counts attempts.
Start_EveryAttempt(c) ==
  /\ pc[c] \in {"admitted", "started"}
  /\ started <= MaxAdmitted
  /\ started' = started + 1
  /\ Goto(c, "started")
  /\ UNCHANGED <<gateVars, done, admitted, finished, rejected, refused, shutVars, readVars>>

(* run: the handler is entered for the first time.                         *)
Start(c) ==
  /\ pc[c] = "admitted"
  /\ started' = started + 1
  /\ Goto(c, "started")
  /\ UNCHANGED <<gateVars, done, admitted, finished, rejected, refused, shutVars, readVars>>

(* exit, for a call that ran or that failed in admission.                  *)
Finish(c) ==
  /\ pc[c] \in {"admitted", "started"}
  /\ finished' = finished + 1
  /\ Goto(c, "finished")
  /\ UNCHANGED <<gateVars, done, admitted, started, rejected, refused, shutVars, readVars>>

AfterLeave(c) == IF refused[c] THEN "reject" ELSE "idle"

\* Seeded fault: a refused call never retries the mark it may have spoilt.
Leave_RefusedNoMark(c) ==
  /\ pc[c] \in {"finished", "refused"}
  /\ count' = count - 1
  /\ Goto(c, IF stopping /\ ~drained /\ count = 1 /\ ~refused[c] THEN "mark"
             ELSE AfterLeave(c))
  /\ UNCHANGED <<stopping, drained, done, counterVars, refused, shutVars, readVars>>

(* leave: whoever brings the word back to exactly `stopping' goes on to    *)
(* markDrained.                                                            *)
Leave(c) ==
  /\ pc[c] \in {"finished", "refused"}
  /\ count' = count - 1
  /\ Goto(c, IF stopping /\ ~drained /\ count = 1 THEN "mark" ELSE AfterLeave(c))
  /\ UNCHANGED <<stopping, drained, done, counterVars, refused, shutVars, readVars>>

CountRejected(c) ==
  /\ pc[c] = "reject"
  /\ rejected' = (rejected + 1) % Wrap
  /\ Goto(c, "idle")
  /\ UNCHANGED <<gateVars, done, admitted, started, finished, refused, shutVars, readVars>>

AfterMark(p) == IF p \in Shutdowns THEN "check" ELSE AfterLeave(p)

\* Seeded faults: the swap does not compare the drained bit, or the count.
Mark_Twice(p) ==
  /\ pc[p] = "mark"
  /\ IF stopping /\ count = 0
     THEN drained' = TRUE /\ Goto(p, "close")
     ELSE Goto(p, AfterMark(p)) /\ UNCHANGED drained
  /\ UNCHANGED <<stopping, count, done, counterVars, refused, shutVars, readVars>>
Mark_AnyCount(p) ==
  /\ pc[p] = "mark"
  /\ IF stopping /\ ~drained
     THEN drained' = TRUE /\ Goto(p, "close")
     ELSE Goto(p, AfterMark(p)) /\ UNCHANGED drained
  /\ UNCHANGED <<stopping, count, done, counterVars, refused, shutVars, readVars>>

(* markDrained: the CompareAndSwap expects the bare stopping bit.          *)
Mark(p) ==
  /\ pc[p] = "mark"
  /\ IF stopping /\ ~drained /\ count = 0
     THEN drained' = TRUE /\ Goto(p, "close")
     ELSE Goto(p, AfterMark(p)) /\ UNCHANGED drained
  /\ UNCHANGED <<stopping, count, done, counterVars, refused, shutVars, readVars>>

CloseDone(p) ==
  /\ pc[p] = "close"
  /\ done' = TRUE
  /\ Goto(p, AfterMark(p))
  /\ UNCHANGED <<gateVars, counterVars, refused, shutVars, readVars>>
-----------------------------------------------------------------------------
\* Seeded fault: a Shutdown that finds the runtime stopping is done.
Stop_Again(s) ==
  /\ pc[s] = "idle"
  /\ stopping' = TRUE
  /\ Goto(s, IF stopping THEN "nil" ELSE "withdraw")
  /\ UNCHANGED <<drained, count, done, counterVars, refused, shutVars, readVars>>

(* Shutdown sets the bit; the first one goes on to withdraw the waiters.   *)
(* Its context may have ended before the call.                             *)
Stop(s) ==
  /\ pc[s] = "idle"
  /\ stopping' = TRUE
  /\ Goto(s, IF stopping THEN "check" ELSE "withdraw")
  /\ \E x \in BOOLEAN : /\ expired' = [expired EXCEPT ![s] = x]
                        /\ idleAtStop' = [idleAtStop EXCEPT ![s] = x /\ Live = {}]
  /\ UNCHANGED <<drained, count, done, counterVars, refused, readVars>>

(* r.close() for every budget, keys.close(): see Resource and KeyLocker.   *)
Withdraw(s) ==
  /\ pc[s] = "withdraw"
  /\ Goto(s, "mark")
  /\ UNCHANGED <<gateVars, done, counterVars, refused, shutVars, readVars>>

ContextEnds(s) ==
  /\ pc[s] \in ShutdownPC \ {"idle", "nil", "expired"}
  /\ ~expired[s]
  /\ expired' = [expired EXCEPT ![s] = TRUE]
  /\ UNCHANGED <<gateVars, done, counterVars, pc, refused, idleAtStop, readVars>>

Check(s) ==
  /\ pc[s] = "check"
  /\ Goto(s, IF done THEN "nil" ELSE "select")
  /\ UNCHANGED <<gateVars, done, counterVars, refused, shutVars, readVars>>

(* select picks either ready case.                                         *)
Select(s) ==
  /\ pc[s] = "select"
  /\ \/ done /\ Goto(s, "nil")
     \/ expired[s] /\ Goto(s, "expired")
  /\ UNCHANGED <<gateVars, done, counterVars, refused, shutVars, readVars>>
-----------------------------------------------------------------------------
(* Stats reads finished, started and admitted in this order.               *)
ReadFinished(r) ==
  /\ at[r] = "idle"
  /\ at' = [at EXCEPT ![r] = "finished"]
  /\ snap' = [snap EXCEPT ![r] = [finished |-> finished, started |-> 0, admitted |-> 0]]
  /\ UNCHANGED <<gateVars, done, counterVars, pc, refused, shutVars>>

ReadStarted(r) ==
  /\ at[r] = "finished"
  /\ at' = [at EXCEPT ![r] = "started"]
  /\ snap' = [snap EXCEPT ![r].started = started]
  /\ UNCHANGED <<gateVars, done, counterVars, pc, refused, shutVars>>

ReadAdmitted(r) ==
  /\ at[r] = "started"
  /\ at' = [at EXCEPT ![r] = "idle"]
  /\ snap' = [snap EXCEPT ![r].admitted = admitted]
  /\ UNCHANGED <<gateVars, done, counterVars, pc, refused, shutVars>>

Do(c) == \/ Enter(c) \/ CountAdmitted(c) \/ Start(c) \/ Finish(c)
         \/ Leave(c) \/ CountRejected(c)
MarkDrained(p) == Mark(p) \/ CloseDone(p)
Shutdown(s) == Stop(s) \/ Withdraw(s) \/ ContextEnds(s) \/ Check(s) \/ Select(s)
Stats(r) == ReadFinished(r) \/ ReadStarted(r) \/ ReadAdmitted(r)

Next == \/ \E c \in Callers : Do(c)
        \/ \E p \in Procs : MarkDrained(p)
        \/ \E s \in Shutdowns : Shutdown(s)
        \/ \E r \in Readers : Stats(r)

Spec == Init /\ [][Next]_vars

(***************************************************************************)
(* Fairness: a call that is in Do, and a Shutdown, keep running; handlers  *)
(* return.  Enter, Stop, ContextEnds and Stats happen or not.              *)
(***************************************************************************)
Proceeds(c) == CountAdmitted(c) \/ Finish(c) \/ Leave(c) \/ CountRejected(c)

FairSpec ==
  /\ Spec
  /\ \A c \in Callers : WF_vars(Proceeds(c))
  /\ \A p \in Procs : WF_vars(MarkDrained(p))
  /\ \A s \in Shutdowns : WF_vars(Withdraw(s) \/ Check(s) \/ Select(s))
-----------------------------------------------------------------------------
TypeOK == /\ stopping \in BOOLEAN /\ drained \in BOOLEAN /\ done \in BOOLEAN
          /\ count \in Nat
          /\ admitted \in Nat /\ started \in Nat /\ finished \in Nat
          /\ rejected \in 0..(Wrap - 1)
          /\ pc \in [Procs -> CallerPC \cup ShutdownPC]
          /\ \A c \in Callers : pc[c] \in CallerPC
          /\ \A s \in Shutdowns : pc[s] \in ShutdownPC
          /\ refused \in [Callers -> BOOLEAN]
          /\ expired \in [Shutdowns -> BOOLEAN]
          /\ idleAtStop \in [Shutdowns -> BOOLEAN]
          /\ at \in [Readers -> {"idle", "finished", "started"}]
          /\ snap \in [Readers -> [finished : Nat, started : Nat, admitted : Nat]]

(* The count of the gate word is the number of calls between their two     *)
(* Adds, refused ones included: it never goes below zero, into the bits.   *)
CountExact == count = Cardinality(InFlight)

(* done is closed once: while somebody is about to close it, it is open    *)
(* and nobody else is about to (a second close panics).                    *)
ClosedOnce ==
  \A p \in Procs : pc[p] = "close" =>
    ~done /\ \A r \in Procs : pc[r] = "close" => r = p

(* Once the gate is drained no admitted call is in flight, or ever is      *)
(* again, however many refused calls still pass.                           *)
DrainedIsQuiet == drained \/ done => stopping /\ Live = {}

(* A nil Shutdown sees every admitted call finished (contract.md, delta 2), *)
(* and so does everything that happens after it.                           *)
NilSeesAllFinished ==
  \A s \in Shutdowns : pc[s] = "nil" => Live = {} /\ finished = admitted

(* A completed snapshot never shows Started or Finished above Admitted,    *)
(* although it reads the counters one by one while calls go on.            *)
SnapshotOrdered ==
  \A r \in Readers : at[r] = "idle" =>
    snap[r].finished <= snap[r].admitted /\ snap[r].started <= snap[r].admitted

(* If the callers that are refused stop calling, a stopping runtime whose  *)
(* handlers return is drained.                                             *)
RefusalsEnd == <>[](\A c \in Callers : pc[c] /= "refused")
DrainCompletes == RefusalsEnd => (stopping ~> done)

(* contract.md, section 6: if the runtime is idle and the context has      *)
(* already expired, Shutdown returns nil; runtime.go: drained wins.        *)
DrainedBeatsExpired ==
  \A s \in Shutdowns : pc[s] = "expired" => ~idleAtStop[s]

(* contract.md, section 6: Shutdown returns nil once every admitted call   *)
(* has finished, so a stopping runtime with none of them left is drained.  *)
DrainsOnceAllFinished == stopping /\ Live = {} ~> done

Phase == IF done THEN "drained" ELSE IF stopping THEN "stopping" ELSE "open"
Returned == [s \in Shutdowns |-> IF pc[s] \in {"nil", "expired"} THEN pc[s] ELSE "none"]

Abstract == INSTANCE Lifecycle WITH phase <- Phase, live <- Live, ret <- Returned

(* The gate word and the done channel amount to the life cycle.            *)
ImplementsLifecycle == Abstract!Spec
=============================================================================
