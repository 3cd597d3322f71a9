--------------------------- MODULE AttemptProofs ---------------------------
(***************************************************************************)
(* Theorems about Attempt, for every set of policies, whatever they        *)
(* request and however many attempts they allow, and for every set of tags *)
(* that handlers may use.                                                  *)
(***************************************************************************)
EXTENDS Attempt, TLAPS

PCs == {"check", "count", "enter", "run", "actxErr", "ctxErr", "cancel", "classify",
        "panicking", "returned"}

TypeOK == /\ policy \in Policies
          /\ retry = RetryTable(policy)
          /\ pc \in PCs
          /\ n \in Nat \ {0}
          /\ started \in Nat /\ retried \in Nat
          /\ caller \in {"nil", "Canceled", "Deadline"}
          /\ actx \in {"none", "nil", "Canceled", "Deadline"}
          /\ err \in Error(Tags)
          /\ expired \in BOOLEAN
          /\ own \in BOOLEAN

(* The counters have counted every attempt but one that is about to begin. *)
Counted == /\ pc \in {"check", "count"} => started + retried = n - 1
           /\ pc \in PCs \ {"check", "count", "returned"} => started + retried = n

(* Attempts whose context is there: from Enter to Cancel or PanicEnds.     *)
Attempting == pc \in {"run", "actxErr", "ctxErr", "cancel", "panicking"}

(* What the attempt's context says of its own timer, and what the second   *)
(* result of attempt says of both, until the call returns.                 *)
TimerSeen ==
  /\ ContextsReleased
  /\ actx /= "none" => policy.timed
  /\ pc \in {"count", "enter"} => ~own
  /\ Attempting /\ own => actx = "Deadline"
  /\ Attempting /\ pc /= "cancel" /\ actx = "Deadline" /\ caller = "nil" => own
  /\ pc = "actxErr" => ~expired
  /\ pc = "ctxErr" => actx = "Deadline"
  /\ pc = "cancel" /\ expired => actx = "Deadline"
  /\ Decided /\ expired => own
  /\ Decided /\ own /\ caller = "nil" => expired

(* A call returns the classified error, or that of its ended context.      *)
Reported ==
  pc = "returned" /\ res.kind = "error" =>
    \/ caller /= "nil" /\ res = Tagged([tag |-> Untagged, is |-> caller])
    \/ /\ res = Tagged(Failed(err, Promoted(err, expired)))
       /\ expired => own
       /\ own /\ caller = "nil" => expired

Inv == TypeOK /\ Counted /\ TimerSeen /\ Reported
-----------------------------------------------------------------------------
LEMMA InitInv == Init => Inv
<1> SUFFICES ASSUME Init PROVE Inv
  OBVIOUS
<1>1. TypeOK
  <2>1. NoError \in Error(Tags)
    BY DEF NoError, Error
  <2>2. n \in Nat \ {0} /\ started \in Nat /\ retried \in Nat
    BY DEF Init
  <2> QED BY <2>1, <2>2, Zenon DEF Init, TypeOK, PCs
<1>2. Counted /\ TimerSeen /\ Reported
  BY DEF Init, Counted, TimerSeen, Reported, ContextsReleased, Attempting, Decided, PCs
<1> QED BY <1>1, <1>2 DEF Inv

LEMMA TypesKept == ASSUME Inv, [Next]_vars PROVE TypeOK'
<1> USE DEF Inv, TypeOK, PCs
<1>1. CASE CallerEnds \/ Propagate \/ HandlerSucceeds \/ HandlerPanics
  BY <1>1 DEF CallerEnds, Propagate, HandlerSucceeds, HandlerPanics, Return, ctxVars, counters
<1>2. CASE TimerFires
  <2>1. own' \in BOOLEAN
    BY <1>2, Zenon DEF TimerFires
  <2> QED BY <1>2, <2>1 DEF TimerFires, counters
<1>3. CASE HandlerFails
  BY <1>3 DEF HandlerFails, ctxVars, counters
<1>4. CASE CheckEnded \/ CheckLive
  BY <1>4 DEF CheckEnded, CheckLive, Return, ctxVars, counters
<1>5. CASE Count \/ Enter
  BY <1>5 DEF Count, Enter, ctxVars, counters
<1>6. CASE LookAtAttempt \/ Cancel \/ PanicEnds
  BY <1>6 DEF LookAtAttempt, Cancel, PanicEnds, Return, ctxVars, counters
<1>7. CASE LookAtCaller
  <2>1. expired' \in BOOLEAN
    BY <1>7, Zenon DEF LookAtCaller
  <2> QED BY <1>7, <2>1 DEF LookAtCaller, ctxVars, counters
<1>8. CASE Decide
  BY <1>8 DEF Decide, Report, Return, ctxVars, counters
<1>9. CASE UNCHANGED vars
  BY <1>9 DEF vars
<1> QED BY <1>1, <1>2, <1>3, <1>4, <1>5, <1>6, <1>7, <1>8, <1>9 DEF Next, Run, Handler, Contexts

LEMMA CountKept == ASSUME Inv, [Next]_vars PROVE Counted'
<1> USE DEF Inv, TypeOK, PCs, Counted
<1>1. CASE Contexts
  BY <1>1 DEF Contexts, CallerEnds, Propagate, TimerFires, counters
<1>2. CASE Handler
  BY <1>2 DEF Handler, HandlerSucceeds, HandlerFails, HandlerPanics, Return, ctxVars, counters
<1>3. CASE CheckEnded \/ CheckLive \/ Count \/ Enter
  BY <1>3 DEF CheckEnded, CheckLive, Count, Enter, Return, ctxVars, counters
<1>4. CASE LookAtAttempt \/ LookAtCaller \/ Cancel \/ PanicEnds
  BY <1>4 DEF LookAtAttempt, LookAtCaller, Cancel, PanicEnds, Return, ctxVars, counters
<1>5. CASE Decide
  BY <1>5 DEF Decide, Report, Return, ctxVars, counters
<1>6. CASE UNCHANGED vars
  BY <1>6 DEF vars
<1> QED BY <1>1, <1>2, <1>3, <1>4, <1>5, <1>6 DEF Next, Run

(* The races between the attempt's timer, the caller's context and the     *)
(* looks that attempt takes at them.                                       *)
LEMMA TimerStaysSeen == ASSUME Inv, [Next]_vars PROVE TimerSeen'
<1> USE DEF Inv, TypeOK, PCs, TimerSeen, ContextsReleased, Attempting, Decided
<1>0. policy.timed \in BOOLEAN
  BY PoliciesAssumption
<1>1. CASE CallerEnds \/ Propagate
  BY <1>1 DEF CallerEnds, Propagate, counters
<1>2. CASE TimerFires
  <2>1. own' <=> caller = "nil" /\ pc /= "cancel"
    BY <1>2, Zenon DEF TimerFires
  <2> QED BY <1>2, <2>1 DEF TimerFires, counters
<1>3. CASE Handler
  BY <1>0, <1>3 DEF Handler, HandlerSucceeds, HandlerFails, HandlerPanics, Return, ctxVars,
                    counters
<1>4. CASE CheckEnded \/ CheckLive \/ Count
  BY <1>4 DEF CheckEnded, CheckLive, Count, Return, ctxVars, counters
<1>5. CASE Enter
  BY <1>0, <1>5 DEF Enter, counters
<1>6. CASE LookAtAttempt \/ Cancel \/ PanicEnds
  BY <1>6 DEF LookAtAttempt, Cancel, PanicEnds, Return, ctxVars, counters
<1>7. CASE LookAtCaller
  <2>1. expired' <=> caller = "nil"
    BY <1>7, Zenon DEF LookAtCaller
  <2> QED BY <1>7, <2>1 DEF LookAtCaller, ctxVars, counters
<1>8. CASE Decide
  BY <1>8 DEF Decide, Report, Return, ctxVars, counters
<1>9. CASE UNCHANGED vars
  BY <1>9 DEF vars
<1> QED BY <1>1, <1>2, <1>3, <1>4, <1>5, <1>6, <1>7, <1>8, <1>9 DEF Next, Run, Contexts

LEMMA ReportKept == ASSUME Inv, [Next]_vars PROVE Reported'
<1> USE DEF Inv, TypeOK, PCs, Reported
<1>1. CASE Contexts
  BY <1>1 DEF Contexts, CallerEnds, Propagate, TimerFires, counters, TimerSeen,
              ContextsReleased
<1>2. CASE Handler
  BY <1>2 DEF Handler, HandlerSucceeds, HandlerFails, HandlerPanics, Return, ctxVars, counters
<1>3. CASE CheckEnded \/ CheckLive \/ Count \/ Enter
  BY <1>3 DEF CheckEnded, CheckLive, Count, Enter, Return, ctxVars, counters
<1>4. CASE LookAtAttempt \/ LookAtCaller \/ Cancel \/ PanicEnds
  BY <1>4 DEF LookAtAttempt, LookAtCaller, Cancel, PanicEnds, Return, ctxVars, counters
<1>5. CASE Decide
  BY <1>5 DEF Decide, Report, Return, ctxVars, counters, TimerSeen, Decided
<1>6. CASE UNCHANGED vars
  BY <1>6 DEF vars
<1> QED BY <1>1, <1>2, <1>3, <1>4, <1>5, <1>6 DEF Next, Run

LEMMA InvAlways == Spec => []Inv
<1>1. Inv /\ [Next]_vars => Inv'
  BY TypesKept, CountKept, TimerStaysSeen, ReportKept DEF Inv
<1> QED BY <1>1, InitInv, PTL DEF Spec

(* The error a call returns says Uncertain exactly if its last attempt has *)
(* an unknown fate: the handler said so, or the attempt's own timer cut it *)
(* while the caller was there.                                             *)
THEOREM UnknownFateIsReported == Spec => []UnknownFateReported
<1>1. Inv => UnknownFateReported
  BY TagsAssumption DEF Inv, TypeOK, Reported, UnknownFateReported, OutcomeOf, Tagged, Failed,
     Promoted, Error, Permanent, Uncertain, Untagged
<1> QED BY <1>1, InvAlways, PTL

(* Whenever the caller's context ends, between any two of the looks that   *)
(* attempt takes, its end is not taken for an attempt of unknown fate.     *)
THEOREM OnlyOwnTimerPromotes == Spec => []PromotedByOwnTimer
<1>1. Inv => PromotedByOwnTimer
  BY TagsAssumption DEF Inv, TypeOK, Reported, PromotedByOwnTimer, OutcomeOf, Tagged, Failed,
     Promoted, Error, Permanent, Uncertain, Untagged
<1> QED BY <1>1, InvAlways, PTL

(* An attempt's context is gone once the attempt is, on every path.        *)
THEOREM ContextsAreReleased == Spec => []ContextsReleased
<1>1. Inv => ContextsReleased
  BY DEF Inv, TimerSeen
<1> QED BY <1>1, InvAlways, PTL

(* Every repeated attempt is within the policy's attempts and safe: its    *)
(* predecessor did not run, or its fate is unknown, the policy asked for   *)
(* the repetition and the effect bears it.                                 *)
THEOREM RepeatsAreSafe == Spec => OnlySafeRepeats
<1>1. Inv /\ [Next]_vars => [n' > n => n < policy.attempts /\ SafeToRepeat]_vars
  <2> SUFFICES ASSUME Inv, Next, n' > n
               PROVE  n < policy.attempts /\ SafeToRepeat
    BY DEF vars
  <2>1. n' /= n
    BY DEF Inv, TypeOK
  <2>2. Decide /\ MayRetry
    BY <2>1 DEF Next, Run, Handler, Contexts, CheckEnded, CheckLive, Count, Enter,
       LookAtAttempt, LookAtCaller, Cancel, PanicEnds, HandlerSucceeds, HandlerFails,
       HandlerPanics, CallerEnds, Propagate, TimerFires, Decide
  <2>3. /\ n < policy.attempts
        /\ Verdict(err, expired) \in policy.on
        /\ Verdict(err, expired) \in RetrySafe(policy.effect)
    BY <2>2 DEF MayRetry, Has, RetryTable, Inv, TypeOK
  <2>4. expired => own
    BY <2>2 DEF Decide, Decided, Inv, TimerSeen
  <2>5. SafeToRepeat
    BY <2>3, <2>4 DEF SafeToRepeat, Verdict, Promoted, RetrySafe, Transient, Uncertain,
       Permanent, Untagged
  <2> QED BY <2>3, <2>5
<1> QED BY <1>1, InvAlways, PTL DEF Spec, OnlySafeRepeats
-----------------------------------------------------------------------------
(* Attempt implements Exec.  What the reference does in its one step       *)
(* `decide' the loop has done when it has looked at both contexts; the     *)
(* steps before and after it are not seen.                                 *)
LEMMA CountIsCalls ==
  ASSUME Inv
  PROVE  pc \in PCs \ {"check", "returned"} => CallsBegun = n
BY DEF Inv, TypeOK, Counted, CallsBegun, PCs

(* The verdict of classify, and the rule for a retry, are the reference's. *)
LEMMA DecidesAlike ==
  ASSUME Inv, NEW x \in BOOLEAN,
         NEW e \in Error(Tags), NEW k, k = n
  PROVE  LET oc == IF e.tag /= Untagged THEN e.tag
                   ELSE IF Promoted(e, x) THEN Uncertain ELSE Permanent
         IN  /\ Verdict(e, x) = oc
             /\ n < policy.attempts /\ Has(retry, oc)
                  <=> k < policy.attempts /\ oc \in policy.on
                      /\ Abstract!SafeRetry(policy.effect, oc)
BY DEF Inv, TypeOK, Verdict, Has, RetryTable, RetrySafe, Abstract!SafeRetry,
       Transient, Uncertain, Abstract!Transient, Abstract!Uncertain

(* From a running attempt the loop gets to a state in which it has decided *)
(* with the error e, and an expiry x that is true exactly if the attempt   *)
(* was ended by its own timer with the caller still there.                 *)
LEMMA DecideRefines ==
  ASSUME Inv, Inv', Phase = "running", pc /= "count", pc' \in {"cancel", "classify"},
         UNCHANGED <<policy, retry, n, started, retried, caller, own, res>>,
         err'.tag = Untagged /\ err'.is /= "Canceled" => (expired' <=> own /\ caller = "nil")
  PROVE  Abstract!Decide(err')
<1>1. pc \in PCs /\ err' \in Error(Tags) /\ expired' \in BOOLEAN /\ own \in BOOLEAN
  BY DEF Inv, TypeOK
<1>2. pc \in {"enter", "run", "actxErr", "ctxErr", "panicking"}
  BY <1>1 DEF Phase, Decided, PCs
<1>3. CallsBegun = n /\ UNCHANGED <<CallsBegun, RetriesBegun>> /\ Result = res
  BY <1>2, CountIsCalls DEF CallsBegun, RetriesBegun, Result, Decided, PCs
<1> DEFINE e == err'
           x == expired'
           promote == e.tag = Untagged /\ e.is /= "Canceled" /\ own /\ caller = "nil"
           oc == IF e.tag /= Untagged THEN e.tag ELSE IF promote THEN Uncertain ELSE Permanent
<1>4. promote <=> Promoted(e, x)
  BY DEF Promoted
<1>5. /\ Verdict(e, x) = oc
      /\ MayRetry' <=> CallsBegun < policy.attempts /\ oc \in policy.on
                       /\ Abstract!SafeRetry(policy.effect, oc)
  <2>1. LET o == IF e.tag /= Untagged THEN e.tag
                 ELSE IF Promoted(e, x) THEN Uncertain ELSE Permanent
        IN  /\ Verdict(e, x) = o
            /\ n < policy.attempts /\ Has(retry, o)
                 <=> CallsBegun < policy.attempts /\ o \in policy.on
                     /\ Abstract!SafeRetry(policy.effect, o)
    BY <1>1, <1>3, DecidesAlike, Zenon
  <2>2. oc = IF e.tag /= Untagged THEN e.tag
             ELSE IF Promoted(e, x) THEN Uncertain ELSE Permanent
    BY <1>4
  <2>3. MayRetry' <=> n < policy.attempts /\ Has(retry, Verdict(e, x))
    BY DEF MayRetry
  <2> HIDE DEF oc, e, x
  <2> QED BY <2>1, <2>2, <2>3
<1>6. Phase' = IF MayRetry' THEN "idle" ELSE "done"
  BY DEF Phase, Decided
<1>7. Result' = IF MayRetry' THEN Result ELSE Tagged(Failed(e, Promoted(e, x)))
  BY <1>3 DEF Result, Decided, Tagged, Failed, Promoted
<1>8. Tagged(Failed(e, Promoted(e, x)))
        = [kind |-> "error", tag |-> IF promote THEN Uncertain ELSE e.tag, is |-> e.is]
  BY <1>1, <1>4 DEF Tagged, Failed, Error
<1> QED BY <1>3, <1>5, <1>6, <1>7, <1>8
        DEF Abstract!Decide, Abstract!Finish, Abstract!Untagged, Abstract!Uncertain,
            Abstract!Permanent, Untagged, Uncertain, Permanent

(* The looks at the contexts, and the steps on the way back to run.        *)
LEMMA LooksRefine ==
  ASSUME Inv, Inv', LookAtAttempt \/ LookAtCaller \/ HandlerFails
  PROVE  Abstract!Decide(err') \/ UNCHANGED Abstract!vars
<1> USE DEF Inv, TypeOK, TimerSeen, Attempting
<1>1. CASE LookAtAttempt
  <2>1. CASE actx = "Deadline"
    BY <1>1, <2>1 DEF LookAtAttempt, ctxVars, counters, Abstract!vars, CallsBegun,
       RetriesBegun, Phase, Result, Decided
  <2>2. CASE actx /= "Deadline"
    <3>1. Phase = "running" /\ pc' = "cancel" /\ ~own /\ ~expired
      BY <1>1, <2>2 DEF LookAtAttempt, Phase, Decided
    <3> QED BY <1>1, <3>1, DecideRefines DEF LookAtAttempt, ctxVars, counters
  <2> QED BY <2>1, <2>2
<1>2. CASE LookAtCaller
  <2>1. Phase = "running" /\ pc' = "cancel" /\ (caller = "nil" => own)
    BY <1>2 DEF LookAtCaller, Phase, Decided
  <2>2. expired' <=> caller = "nil"
    BY <1>2, Zenon DEF LookAtCaller
  <2> QED BY <1>2, <2>1, <2>2, DecideRefines DEF LookAtCaller, ctxVars, counters
<1>3. CASE HandlerFails
  <2>1. Phase = "running" /\ ~expired'
    BY <1>3 DEF HandlerFails, Phase, Decided
  <2>2. CASE policy.timed
    BY <1>3, <2>2 DEF HandlerFails, ctxVars, counters, Abstract!vars, CallsBegun,
       RetriesBegun, Phase, Result, Decided
  <2>3. CASE ~policy.timed
    <3>1. pc' = "classify" /\ ~own
      BY <1>3, <2>3 DEF HandlerFails
    <3> QED BY <1>3, <2>1, <3>1, DecideRefines DEF HandlerFails, ctxVars, counters
  <2> QED BY <2>2, <2>3
<1> QED BY <1>1, <1>2, <1>3

LEMMA ContextsRefine ==
  ASSUME Inv, Inv', Contexts
  PROVE  Abstract!Cancel \/ Abstract!OwnDeadline \/ UNCHANGED Abstract!vars
<1> USE DEF Inv, TypeOK, TimerSeen, Attempting, ContextsReleased
<1>1. CASE CallerEnds
  BY <1>1 DEF CallerEnds, counters, Abstract!Cancel, CallsBegun, RetriesBegun, Phase, Result,
              Decided, MayRetry
<1>2. CASE Propagate
  BY <1>2 DEF Propagate, counters, Abstract!vars, CallsBegun, RetriesBegun, Phase, Result,
              Decided, MayRetry
<1>3. CASE TimerFires
  <2>1. UNCHANGED <<policy, caller, CallsBegun, RetriesBegun, Phase, Result>>
    BY <1>3 DEF TimerFires, counters, CallsBegun, RetriesBegun, Phase, Result, Decided, MayRetry
  <2>2. own' <=> caller = "nil" /\ pc /= "cancel"
    BY <1>3, Zenon DEF TimerFires
  <2>3. actx = "nil" /\ Attempting /\ ~own /\ policy.timed
    BY <1>3 DEF TimerFires
  <2>4. CASE own'
    <3>1. Phase = "running"
      BY <2>2, <2>3, <2>4 DEF Phase, Decided
    <3> QED BY <2>1, <2>2, <2>3, <2>4, <3>1 DEF Abstract!OwnDeadline
  <2>5. CASE ~own'
    BY <2>1, <2>3, <2>5 DEF Abstract!vars
  <2> QED BY <2>4, <2>5
<1> QED BY <1>1, <1>2, <1>3 DEF Contexts

LEMMA LoopRefines ==
  ASSUME Inv, Inv', CheckEnded \/ CheckLive \/ Count \/ Enter \/ Cancel \/ Decide
  PROVE  Abstract!CallerEnded \/ Abstract!Run \/ UNCHANGED Abstract!vars
<1> USE DEF Inv, TypeOK, Counted, PCs
<1>1. CASE CheckEnded
  BY <1>1 DEF CheckEnded, Return, Tagged, ctxVars, counters, Abstract!CallerEnded,
     Abstract!Finish, Abstract!Untagged, Untagged, CallsBegun, RetriesBegun, Phase, Result,
     Decided
<1>2. CASE CheckLive
  BY <1>2 DEF CheckLive, counters, Abstract!Run, CallsBegun, RetriesBegun, Phase, Result,
     Decided
<1>3. CASE Count
  <2>1. /\ pc = "count" /\ pc' = "enter" /\ UNCHANGED <<policy, caller, own, n, res>>
        /\ started' = IF n = 1 THEN started + 1 ELSE started
        /\ retried' = IF n = 1 THEN retried ELSE retried + 1
    BY <1>3 DEF Count, ctxVars
  <2>2. CallsBegun' = CallsBegun
    BY <2>1 DEF CallsBegun
  <2>3. RetriesBegun' = RetriesBegun
    BY <2>1 DEF RetriesBegun
  <2>4. UNCHANGED <<Phase, Result>>
    BY <2>1 DEF Phase, Result, Decided
  <2> QED BY <2>1, <2>2, <2>3, <2>4 DEF Abstract!vars
<1>4. CASE Enter
  BY <1>4 DEF Enter, counters, Abstract!vars, CallsBegun, RetriesBegun, Phase, Result, Decided
<1>5. CASE Cancel
  BY <1>5 DEF Cancel, counters, Abstract!vars, CallsBegun, RetriesBegun, Phase, Result,
     Decided, MayRetry
<1>6. CASE Decide
  <2>1. UNCHANGED <<policy, caller, own, CallsBegun, RetriesBegun>>
    BY <1>6 DEF Decide, Report, Return, ctxVars, counters, CallsBegun, RetriesBegun
  <2>2. UNCHANGED <<Phase, Result>>
    BY <1>6 DEF Decide, Report, Return, Phase, Result, Decided
  <2> QED BY <2>1, <2>2 DEF Abstract!vars
<1> QED BY <1>1, <1>2, <1>3, <1>4, <1>5, <1>6

LEMMA EndsRefine ==
  ASSUME Inv, HandlerSucceeds \/ HandlerPanics \/ PanicEnds
  PROVE  Abstract!Succeeds \/ Abstract!Panics \/ UNCHANGED Abstract!vars
BY DEF HandlerSucceeds, HandlerPanics, PanicEnds, Return, ctxVars, counters,
       Abstract!Succeeds, Abstract!Panics, Abstract!Finish, Abstract!vars,
       CallsBegun, RetriesBegun, Phase, Result, Decided

(* The loop of attempt.go, which looks at the attempt's context and at the *)
(* caller's in separate steps while both may end at any moment, decides as *)
(* the reference retry loop of the laboratory does, which looks at both at *)
(* once: what it calls, repeats and reports is what contract.md, section   *)
(* 5, promises.                                                            *)
THEOREM AttemptImplementsExec == Spec => ImplementsExec
<1>1. Init => Abstract!Init
  BY DEF Init, Abstract!Init, NoResult, Abstract!NoResult, CallsBegun, RetriesBegun, Phase,
         Result, Decided
<1>2. Inv /\ Inv' /\ [Next]_vars => [Abstract!Next]_(Abstract!vars)
  <2> SUFFICES ASSUME Inv, Inv', [Next]_vars
               PROVE  Abstract!Next \/ UNCHANGED Abstract!vars
    OBVIOUS
  <2>1. CASE LookAtAttempt \/ LookAtCaller \/ HandlerFails
    <3>1. err' \in Abstract!Error(Tags)
      BY DEF Inv, TypeOK, Error, Abstract!Error, Untagged, Abstract!Untagged
    <3> QED BY <2>1, <3>1, LooksRefine DEF Abstract!Next
  <2>2. CASE Contexts
    BY <2>2, ContextsRefine DEF Abstract!Next
  <2>3. CASE CheckEnded \/ CheckLive \/ Count \/ Enter \/ Cancel \/ Decide
    BY <2>3, LoopRefines DEF Abstract!Next
  <2>4. CASE HandlerSucceeds \/ HandlerPanics \/ PanicEnds
    BY <2>4, EndsRefine DEF Abstract!Next
  <2>5. CASE UNCHANGED vars
    BY <2>5 DEF vars, Abstract!vars, CallsBegun, RetriesBegun, Phase, Result, Decided,
                MayRetry
  <2> QED BY <2>1, <2>2, <2>3, <2>4, <2>5 DEF Next, Run, Handler
<1> QED BY <1>1, <1>2, InvAlways, PTL DEF Spec, ImplementsExec, Abstract!Spec
=============================================================================
