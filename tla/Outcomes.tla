------------------------------ MODULE Outcomes ------------------------------
(***************************************************************************)
(* The vocabulary of retry: outcomes and effects, and what outcome.go and  *)
(* policy.go say of them.  An Outcome is an int in the code, and any int   *)
(* can reach it: from a hand-built Failure, or as a key of Retry.On.       *)
(***************************************************************************)
EXTENDS Integers

Success == 0
Transient == 1
Permanent == 2
Throttled == 3
Uncertain == 4

Outcome == Success..Uncertain

Effect == {"Pure", "Idempotent", "NonIdempotent"}

(* No outcome: the tag of an error that no Failure tags.                   *)
Untagged == -100

(* An error as the classifier sees it: the Outcome of the first Failure in *)
(* its chain, if there is one and it is not a nil pointer, and what        *)
(* errors.Is finds in the chain.                                           *)
Error(Tags) == [tag : Tags \cup {Untagged}, is : {"Canceled", "Deadline", "Other"}]

RetrySafe(e) == IF e = "NonIdempotent" THEN {Transient} ELSE {Transient, Uncertain}

(* outcomeSet.has: the set is a byte, so nothing out of its range is in it. *)
Has(s, o) == o \in 0..7 /\ o \in s

(* classify, in two parts: the outcome, and whether the error returned     *)
(* must be tagged with it.                                                 *)
Promoted(err, expired) == err.tag = Untagged /\ expired /\ err.is /= "Canceled"

Verdict(err, expired) == IF err.tag /= Untagged THEN err.tag
                         ELSE IF Promoted(err, expired) THEN Uncertain
                         ELSE Permanent

(* failed: the error Do returns.                                           *)
Failed(err, promoted) == IF promoted THEN [err EXCEPT !.tag = Uncertain] ELSE err

(* OutcomeOf, for an error that is not nil.                                *)
OutcomeOf(err) == IF err.tag /= Untagged THEN err.tag ELSE Permanent
=============================================================================
