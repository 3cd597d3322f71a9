------------------------------ MODULE Attempt ------------------------------
(***************************************************************************)
(* The attempt loop of one call: run and attempt of attempt.go, with the   *)
(* classifier of outcome.go and the error construction of errors.go.       *)
(*                                                                         *)
(* The caller's context and the timer of the attempt's own context end at  *)
(* any moment, on goroutines of their own, so every look at one of them is *)
(* a step.  A context that ends is marked first and tells the contexts     *)
(* derived from it afterwards.                                             *)
(***************************************************************************)
EXTENDS Outcomes, FiniteSets

CONSTANTS Policies,     \* the policies NewOperation accepts, as [effect, on, attempts, timed]
          Tags          \* the outcomes a handler may tag its error with

(* An error that no Failure tags is none of those a handler tags.          *)
ASSUME TagsAssumption == Tags \subseteq Int \ {Untagged}

ASSUME PoliciesAssumption ==
  \A p \in Policies : p.attempts \in Int /\ p.timed \in BOOLEAN

VARIABLES
  policy,       \* the policy of the operation, fixed at construction
  retry,        \* Operation.retry
  pc,           \* where the call is
  n,            \* the attempt number
  started, retried,     \* what this call added to the counters
  caller,       \* ctx.Err(): "nil", "Canceled" or "Deadline"
  actx,         \* actx.Err(), or "none" when there is no attempt context to cancel
  err,          \* the error the handler returned
  expired,      \* the second result of attempt
  own,          \* history: the attempt's timer fired before the caller's context ended
  res           \* what Do returns

vars == <<policy, retry, pc, n, started, retried, caller, actx, err, expired, own, res>>
ctxVars == <<caller, actx, own>>
counters == <<started, retried>>

(* Where the call is:                                                      *)
(*   check       before ctx.Err()                                          *)
(*   count       before the counters                                       *)
(*   enter       before the attempt context is made                        *)
(*   run         in the handler                                            *)
(*   actxErr     attempt, before actx.Err()                                *)
(*   ctxErr      attempt, before ctx.Err()                                 *)
(*   cancel      attempt, before the deferred cancel                       *)
(*   classify    back in run, with err and expired                         *)
(*   panicking   the handler panicked; the deferred cancel is due          *)
(*   returned                                                              *)

NoResult == [kind |-> "none"]
NoError == [tag |-> Untagged, is |-> "Other"]

(* NewOperation's table: what is requested and safe.                       *)
RetryTable(p) == p.on \cap RetrySafe(p.effect)

Init == /\ policy \in Policies
        /\ retry = RetryTable(policy)
        /\ pc = "check"
        /\ n = 1
        /\ started = 0 /\ retried = 0
        /\ caller \in {"nil", "Canceled", "Deadline"}
        /\ actx = "none"
        /\ err = NoError
        /\ expired = FALSE
        /\ own = FALSE
        /\ res = NoResult
-----------------------------------------------------------------------------
Return(r) == pc' = "returned" /\ res' = r
Tagged(e) == [kind |-> "error", tag |-> e.tag, is |-> e.is]

(* The caller's context ends: cancelled, or at its deadline.               *)
CallerEnds ==
  /\ caller = "nil" /\ pc /= "returned"
  /\ caller' \in {"Canceled", "Deadline"}
  /\ UNCHANGED <<policy, retry, pc, n, counters, actx, err, expired, own, res>>

(* The attempt context learns of it, unless it has ended already.          *)
Propagate ==
  /\ caller /= "nil" /\ actx = "nil"
  /\ actx' = caller
  /\ UNCHANGED <<policy, retry, pc, n, counters, caller, err, expired, own, res>>

TimerFires ==
  /\ actx = "nil"
  /\ actx' = "Deadline"
  /\ own' = (caller = "nil" /\ pc /= "cancel")
  /\ UNCHANGED <<policy, retry, pc, n, counters, caller, err, expired, res>>

CheckEnded ==
  /\ pc = "check"
  /\ caller /= "nil"
  /\ Return(Tagged([tag |-> Untagged, is |-> caller]))
  /\ UNCHANGED <<policy, retry, n, counters, ctxVars, err, expired>>

\* Seeded fault: only the first attempt looks at the caller's context.
CheckLive_Once ==
  /\ pc = "check"
  /\ caller = "nil" \/ n > 1
  /\ pc' = "count"
  /\ own' = FALSE
  /\ UNCHANGED <<policy, retry, n, counters, caller, actx, err, expired, res>>

CheckLive ==
  /\ pc = "check"
  /\ caller = "nil"
  /\ pc' = "count"
  /\ own' = FALSE
  /\ UNCHANGED <<policy, retry, n, counters, caller, actx, err, expired, res>>

Count ==
  /\ pc = "count"
  /\ IF n = 1 THEN started' = started + 1 /\ UNCHANGED retried
     ELSE retried' = retried + 1 /\ UNCHANGED started
  /\ pc' = "enter"
  /\ UNCHANGED <<policy, retry, n, ctxVars, err, expired, res>>

(* WithTimeout: a context derived from one that has ended has ended.       *)
Enter ==
  /\ pc = "enter"
  /\ actx' = IF policy.timed THEN caller ELSE "none"
  /\ pc' = "run"
  /\ UNCHANGED <<policy, retry, n, counters, caller, err, expired, own, res>>

(* The handler returns a result, in time or late.                          *)
HandlerSucceeds ==
  /\ pc = "run"
  /\ actx' = "none"
  /\ Return([kind |-> "ok"])
  /\ UNCHANGED <<policy, retry, n, counters, caller, err, expired, own>>

HandlerFails ==
  /\ pc = "run"
  /\ err' \in Error(Tags)
  /\ expired' = FALSE
  /\ pc' = IF policy.timed THEN "actxErr" ELSE "classify"
  /\ UNCHANGED <<policy, retry, n, counters, ctxVars, res>>

HandlerPanics ==
  /\ pc = "run"
  /\ pc' = "panicking"
  /\ UNCHANGED <<policy, retry, n, counters, ctxVars, err, expired, res>>

\* Seeded fault: the caller's context is not looked at.
LookAtCaller_Never ==
  /\ pc = "ctxErr"
  /\ expired' = TRUE
  /\ pc' = "cancel"
  /\ UNCHANGED <<policy, retry, n, counters, ctxVars, err, res>>

(* expired, read in two steps: the attempt context, then the caller's.     *)
LookAtAttempt ==
  /\ pc = "actxErr"
  /\ pc' = IF actx = "Deadline" THEN "ctxErr" ELSE "cancel"
  /\ UNCHANGED <<policy, retry, n, counters, ctxVars, err, expired, res>>

LookAtCaller ==
  /\ pc = "ctxErr"
  /\ expired' = (caller = "nil")
  /\ pc' = "cancel"
  /\ UNCHANGED <<policy, retry, n, counters, ctxVars, err, res>>

Cancel ==
  /\ pc = "cancel"
  /\ actx' = "none"
  /\ pc' = "classify"
  /\ UNCHANGED <<policy, retry, n, counters, caller, err, expired, own, res>>

\* Seeded fault: a panic leaves the attempt context behind.
PanicEnds_Leaks ==
  /\ pc = "panicking"
  /\ Return([kind |-> "panic"])
  /\ UNCHANGED <<policy, retry, n, counters, ctxVars, err, expired>>

PanicEnds ==
  /\ pc = "panicking"
  /\ actx' = "none"
  /\ Return([kind |-> "panic"])
  /\ UNCHANGED <<policy, retry, n, counters, caller, err, expired, own>>

\* Seeded fault: the request is not consulted.
MayRetry_Unasked == n < policy.attempts
                    /\ Verdict(err, expired) \in RetrySafe(policy.effect)

MayRetry == n < policy.attempts /\ Has(retry, Verdict(err, expired))

\* Seeded fault: the error does not carry the verdict.
Report_Raw == Return(Tagged(err))

Report == Return(Tagged(Failed(err, Promoted(err, expired))))

Decide ==
  /\ pc = "classify"
  /\ IF MayRetry THEN n' = n + 1 /\ pc' = "check" /\ UNCHANGED res
     ELSE Report /\ UNCHANGED n
  /\ UNCHANGED <<policy, retry, counters, ctxVars, err, expired>>

Handler == HandlerSucceeds \/ HandlerFails \/ HandlerPanics
Run == \/ CheckEnded \/ CheckLive \/ Count \/ Enter
       \/ LookAtAttempt \/ LookAtCaller \/ Cancel \/ PanicEnds \/ Decide
Contexts == CallerEnds \/ Propagate \/ TimerFires

Next == Run \/ Handler \/ Contexts

Spec == Init /\ [][Next]_vars

-----------------------------------------------------------------------------
(* Why repeating the attempt that just failed cannot duplicate an effect   *)
(* nobody allowed to be duplicated (contract.md, 5 step 5): the adapter    *)
(* vouches that it did not run, or its fate is unknown (tagged so, or cut  *)
(* by its own deadline while the caller was there) and the effect bears    *)
(* repetition; and the policy asked for it.                                *)
SafeToRepeat ==
  \/ err.tag = Transient /\ Transient \in policy.on
  \/ /\ err.tag = Uncertain \/ (err.tag = Untagged /\ err.is /= "Canceled" /\ own)
     /\ Uncertain \in policy.on
     /\ policy.effect /= "NonIdempotent"

OnlySafeRepeats == [][n' > n => n < policy.attempts /\ SafeToRepeat]_vars

(* The caller learns of every attempt of unknown fate, and of no other: the *)
(* error says Uncertain exactly if the last attempt said so or was cut by  *)
(* its own deadline (delta 3), for a caller that is there to the end.      *)
UnknownFateReported ==
  pc = "returned" /\ res.kind = "error" /\ caller = "nil" =>
    (OutcomeOf(res) = Uncertain <=>
       \/ err.tag = Uncertain
       \/ err.tag = Untagged /\ err.is /= "Canceled" /\ own)

(* The end of the caller's context is never taken for an attempt of        *)
(* unknown fate (delta 4), whichever instant it falls in.                  *)
PromotedByOwnTimer ==
  pc = "returned" /\ res.kind = "error" /\ OutcomeOf(res) = Uncertain
    => err.tag = Uncertain \/ own

(* No attempt context outlives its attempt, panics included (delta 7).     *)
ContextsReleased ==
  pc \notin {"run", "actxErr", "ctxErr", "cancel", "panicking"} => actx = "none"

(* The loop has decided what the attempt came to.                          *)
Decided == pc \in {"cancel", "classify"}

CallsBegun == started + retried + (IF pc = "count" THEN 1 ELSE 0)
RetriesBegun == IF pc = "count" /\ n > 1 THEN retried + 1 ELSE retried
Phase == IF pc = "check" \/ (Decided /\ MayRetry) THEN "idle"
         ELSE IF pc = "returned" \/ Decided THEN "done" ELSE "running"
Result == IF Decided /\ ~MayRetry THEN Tagged(Failed(err, Promoted(err, expired))) ELSE res

Abstract == INSTANCE Exec WITH
  calls <- CallsBegun, retried <- RetriesBegun, phase <- Phase, res <- Result

(* The loop, which looks at one context after the other, implements the    *)
(* reference, which looks at both at once.                                 *)
ImplementsExec == Abstract!Spec
=============================================================================
