-------------------------------- MODULE Rig --------------------------------
(***************************************************************************)
(* The differential rig, lab/workload/rig.go and replay.go: it drives the  *)
(* previous release through a scenario one step at a time, lets every      *)
(* goroutine settle after each, and compares what can be observed with the *)
(* reference model.  Where the model calls a step ambiguous the comparison *)
(* is over, and the rig closes.  Every order of steps is explored, and for *)
(* each every schedule of the goroutines.                                  *)
(***************************************************************************)
EXTENDS V02, TLC

M == INSTANCE System

CONSTANTS MaxShutdowns, MaxSteps    \* bounds

VARIABLES model,        \* the reference, under the rules of v0.2
          steps,        \* how many steps were applied
          closed

rigVars == <<vars, model, steps, closed>>

RigInit == /\ Init
           /\ model = M!New(FALSE, sc)
           /\ steps = 0
           /\ closed = FALSE

(* synctest.Wait: every goroutine is blocked.                              *)
Settled == ~ENABLED Runs

Step(kind, c, expired) ==
  LET st == [kind |-> kind, call |-> c, expired |-> expired]
  IN  /\ ~closed /\ model.err = "nil" /\ steps < MaxSteps
      /\ Settled
      /\ model' = M!Apply(model, st)
      /\ model'.err /= "inapplicable"
      /\ steps' = steps + 1
      /\ UNCHANGED closed

Start(c) == Step("start", c, FALSE) /\ CallStarts(c)
Release(c) == Step("release", c, FALSE) /\ CallReleased(c)
Cancel(c) == Step("cancel", c, FALSE) /\ CallCancelled(c)
ShutdownStep(expired) == Len(down) < MaxShutdowns /\ Step("shutdown", 0, expired) /\ Stops(expired)

(* Close: a last Shutdown, and every holder released.                      *)
Close == ~closed /\ Settled /\ closed' = TRUE /\ Closes /\ UNCHANGED <<model, steps>>

Driver == (\E c \in Calls : Start(c) \/ Release(c) \/ Cancel(c))
          \/ (\E expired \in BOOLEAN : ShutdownStep(expired)) \/ Close

(* The previous release runs; the reference had its answer at once.        *)
System == Runs /\ UNCHANGED <<model, steps, closed>>

Next == Driver \/ System

Spec == RigInit /\ [][Next]_rigVars

-----------------------------------------------------------------------------
(* View: what can be observed.                                             *)
Phase(c) == CASE pc(c) = "idle" -> "idle"
              [] pc(c) = "returned" -> "done"
              [] pc(c) = "handler" /\ Playing(c).block \in {"hold", "holdCtx"} -> "holding"
              [] OTHER -> "parked"

Observed(c) == call[c].res @@ [calls |-> call[c].n]

Differs ==
  M!Differs(model, [c \in Calls |-> Phase(c)], [c \in Calls |-> Observed(c)], stats,
            [i \in DOMAIN down |-> [returned |-> down[i].pc = "returned", class |-> down[i].class,
                                    lag |-> down[i].lag]])

(* Whatever the schedule, once everything is blocked the previous release  *)
(* is where the reference model says, counter by counter: a step it does   *)
(* not call ambiguous has one outcome (replay.go:56-59, scenario.go:46).   *)
SettlesAsPredicted == Settled /\ ~closed /\ model.err = "nil" => ~Differs

(* After Close nothing is left: every call that began has returned, and    *)
(* the ledger balances (rig.go, Close).                                    *)
CloseBalances ==
  Settled /\ closed => /\ \A c \in Calls : pc(c) \in {"idle", "returned"}
                       /\ stats.admitted = stats.finished
                       /\ stats.started <= stats.admitted
                       /\ \A i \in DOMAIN down : down[i].pc = "returned"
=============================================================================
