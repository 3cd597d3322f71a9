------------------------------ MODULE Scripts ------------------------------
(***************************************************************************)
(* What a scenario of the laboratory says of its calls (lab/model/script.go *)
(* and scenario.go).  A budget is a number, in the order of the names; a   *)
(* call is [op, key, precancel, script], its op [effect, mode, listed,     *)
(* keyed, timed, attempts, on], and its script says what each attempt of   *)
(* the handler does.  Values, sleeps and deadlines of the caller are left  *)
(* out: Exec.tla has what they decide.                                     *)
(***************************************************************************)
EXTENDS Outcomes, SequencesExt, FiniteSetsExt

(* What an attempt does; of a script the last one repeats.                 *)
Played == [block : {"none", "hold", "holdCtx", "deadline"}, cancel : BOOLEAN,
           ret : {"ok", "plain", "ctxErr", "tag", "panic"}, tag : Int]
Plain == [block |-> "none", cancel |-> FALSE, ret |-> "ok", tag |-> Success]

At(script, n) == IF script = <<>> THEN Plain ELSE script[IF n < Len(script) THEN n ELSE Len(script)]

(* Claims in the order of the names, which both the model and the release  *)
(* under test sort them into.                                              *)
Insert(s, x) == InsertAt(s, Cardinality({j \in DOMAIN s : s[j].r <= x.r}) + 1, x)
Sorted(listed) == FoldLeft(Insert, <<>>, listed)

(* Fail keeps only a verdict that somebody can vouch for.                  *)
FailTag(o) == IF o \in Outcome \ {Success} THEN o ELSE Permanent

NoStats == [admitted |-> 0, rejected |-> 0, started |-> 0, finished |-> 0, retried |-> 0]
=============================================================================
