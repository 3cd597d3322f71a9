-------------------------------- MODULE Exec --------------------------------
(***************************************************************************)
(* The reference retry loop of the test laboratory, lab/model/retry.go,    *)
(* under Rules.Fixed: what contract.md, section 5, promises of one call    *)
(* from the moment it holds its resources.  The end of an attempt and the  *)
(* verdict on it are one step.  Virtual time is reduced to what it decides *)
(* here: whether the caller's context has ended, and whether an attempt    *)
(* was ended by its own timer first.  Attempt.tla implements it.           *)
(***************************************************************************)
EXTENDS Outcomes

CONSTANTS Policies,     \* [effect, on, attempts, timed]: what Op says of retries
          Tags          \* the outcomes that errors are tagged with

VARIABLES policy,       \* Exec.op
          calls,        \* Exec.Calls
          retried,      \* Exec.Retried
          caller,       \* callerErr: "nil", "Canceled" or "Deadline"
          own,          \* attemptErr's second result: ended by its own timer
          phase,        \* "idle", "running" or "done"
          res           \* Exec.Res

vars == <<policy, calls, retried, caller, own, phase, res>>

NoResult == [kind |-> "none"]

Init == /\ policy \in Policies
        /\ calls = 0 /\ retried = 0
        /\ caller \in {"nil", "Canceled", "Deadline"}
        /\ own = FALSE
        /\ phase = "idle"
        /\ res = NoResult

SafeRetry(e, o) == o = Transient \/ (o = Uncertain /\ e /= "NonIdempotent")

Finish(r) == phase' = "done" /\ res' = r

(* The context of the caller ends, for good.                               *)
Cancel == /\ caller = "nil"
          /\ caller' \in {"Canceled", "Deadline"}
          /\ UNCHANGED <<policy, calls, retried, own, phase, res>>

(* The timer of the attempt fires before the caller's context ends.        *)
OwnDeadline == /\ phase = "running" /\ policy.timed
               /\ caller = "nil" /\ ~own
               /\ own' = TRUE
               /\ UNCHANGED <<policy, calls, retried, caller, phase, res>>

CallerEnded == /\ phase = "idle"
               /\ caller /= "nil"
               /\ Finish([kind |-> "error", tag |-> Untagged, is |-> caller])
               /\ UNCHANGED <<policy, calls, retried, caller, own>>

(* Run: the next attempt begins, if the caller is still there.             *)
Run == /\ phase = "idle"
       /\ caller = "nil"
       /\ phase' = "running"
       /\ calls' = calls + 1
       /\ retried' = IF calls > 0 THEN retried + 1 ELSE retried
       /\ own' = FALSE
       /\ UNCHANGED <<policy, caller, res>>

Succeeds == /\ phase = "running"
            /\ Finish([kind |-> "ok"])
            /\ UNCHANGED <<policy, calls, retried, caller, own>>

Panics == /\ phase = "running"
          /\ Finish([kind |-> "panic"])
          /\ UNCHANGED <<policy, calls, retried, caller, own>>

(* decide: only the attempt's own deadline, with the caller still live,    *)
(* promotes, and one verdict drives both the retry and the report.         *)
Decide(err) ==
  LET promote == err.tag = Untagged /\ err.is /= "Canceled" /\ own /\ caller = "nil"
      oc == IF err.tag /= Untagged THEN err.tag
            ELSE IF promote THEN Uncertain ELSE Permanent
  IN  /\ phase = "running"
      /\ IF calls < policy.attempts /\ oc \in policy.on /\ SafeRetry(policy.effect, oc)
         THEN phase' = "idle" /\ UNCHANGED res
         ELSE Finish([kind |-> "error", tag |-> IF promote THEN Uncertain ELSE err.tag,
                      is |-> err.is])
      /\ UNCHANGED <<policy, calls, retried, caller, own>>

Next == \/ Cancel \/ OwnDeadline \/ CallerEnded \/ Run \/ Succeeds \/ Panics
        \/ \E err \in Error(Tags) : Decide(err)

Spec == Init /\ [][Next]_vars
=============================================================================
