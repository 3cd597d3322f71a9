------------------------------- MODULE Shrink -------------------------------
(***************************************************************************)
(* Random scenarios, and the shortest one that still fails (lab/model/     *)
(* gen.go and minimize.go).  Generate appends steps that the reference     *)
(* model accepts under the rules of both releases; of eight draws that are *)
(* refused it gives up.  Minimize drops one step after the other, from the *)
(* last, for as long as what is left replays and fails still says so.      *)
(*                                                                         *)
(* Whatever the generator may draw can be drawn.  What fails is chosen     *)
(* when the scenario is complete: a scenario fails if it has some of its   *)
(* steps, one of which may be needed only because of another step.         *)
(***************************************************************************)
EXTENDS Scripts, TLC

CONSTANTS NoKey,
          GenResources, MaxCap, GenKeys, GenSteps, GenShutdowns,    \* GenConfig
          CallPool          \* some of what genCall may draw; see IsCall

M == INSTANCE System

VARIABLES sc,               \* [size, calls]
          steps,
          shrink            \* [pc, core, because, i, changed]: the minimizer

shrinkVars == <<sc, steps, shrink>>

(* What the generator draws: budgets, operations, attempts and calls.      *)
Sizes == UNION {[1..n -> 1..MaxCap] : n \in 1..GenResources}

IsOp(op, size) ==
  /\ op.effect \in Effect /\ op.mode \in {"Wait", "Reject"} /\ op.attempts \in 0..3
  /\ op.on \subseteq {Transient, Uncertain} /\ (Uncertain \in op.on => op.effect /= "NonIdempotent")
  /\ IsInjective([i \in DOMAIN op.listed |-> op.listed[i].r])
  /\ \A i \in DOMAIN op.listed : /\ op.listed[i].r \in DOMAIN size
                                 /\ op.listed[i].n \in 1..size[op.listed[i].r]

IsAttempt(a) == /\ a.ret \in {"ok", "tag", "plain", "ctxErr", "panic"}
                /\ a.tag \in Outcome \cup {-1}
                /\ a.cancel \in BOOLEAN

IsCall(c, size) ==
  /\ IsOp(c.op, size)
  /\ c.key \in IF c.op.keyed /\ GenKeys /= {} THEN GenKeys ELSE {NoKey}
  /\ Len(c.script) \in 1..3 /\ \A i \in DOMAIN c.script : IsAttempt(c.script[i])
  /\ c.script[1].block \in {"none", "hold", "holdCtx"}
  /\ \A i \in 2..Len(c.script) : c.script[i].block = "none"

Init == /\ \E size \in Sizes : sc = [size |-> size, calls |-> <<>>]
        /\ steps = <<>>
        /\ shrink = [pc |-> "generate", core |-> {}, because |-> {}, i |-> 0, changed |-> TRUE]
-----------------------------------------------------------------------------
Replays(s, st) == \A fixed \in BOOLEAN : M!Check(fixed, s, st) = "nil"

(* mustReplay: where the calls are, by the rules of v0.2.                  *)
Replayed == FoldLeft(M!Apply, M!New(FALSE, sc), steps)

St(kind, c, expired) == [kind |-> kind, call |-> c, expired |-> expired]
Shutdowns == {n \in DOMAIN steps : steps[n].kind = "shutdown"}

(* What step may draw: the call it starts, if any, and the step.           *)
Draws ==
  LET now == Replayed
      In(phases) == {c \in DOMAIN sc.calls : now.call[c].phase \in phases}
  IN     {[calls |-> <<>>, st |-> St("release", c, FALSE)] : c \in In({"holding"})}
    \cup {[calls |-> <<>>, st |-> St("cancel", c, FALSE)] : c \in In({"parked", "holding"})}
    \cup {[calls |-> <<>>, st |-> St("shutdown", 0, e)] : e \in
            IF Cardinality(Shutdowns) < GenShutdowns /\ Len(steps) >= (GenSteps * 2) \div 3
            THEN BOOLEAN ELSE {}}
    \cup {[calls |-> <<c>>, st |-> St("start", Len(sc.calls) + 1, FALSE)] : c \in {c \in CallPool : IsCall(c, sc.size)}}

(* A draw is placed if both releases can replay it; if no draw of eight    *)
(* can be, the scenario is complete.                                       *)
Place == /\ shrink.pc = "generate" /\ Len(steps) < GenSteps
         /\ \E d \in Draws :
              LET s == [sc EXCEPT !.calls = @ \o d.calls]
                  st == Append(steps, d.st)
              IN  IF Replays(s, st)
                  THEN sc' = s /\ steps' = st /\ UNCHANGED shrink
                  ELSE shrink' = [shrink EXCEPT !.pc = "complete"] /\ UNCHANGED <<sc, steps>>

(* The scenario is complete, and fails.                                    *)
Generated ==
  /\ shrink.pc = "complete" \/ (shrink.pc = "generate" /\ Len(steps) = GenSteps)
  /\ LET all == {steps[n] : n \in DOMAIN steps}
     IN  \E core \in SUBSET all, because \in {{}} \cup {{p} : p \in all \X all} :
           shrink' = [shrink EXCEPT !.pc = "pass", !.core = core, !.because = because]
  /\ UNCHANGED <<sc, steps>>
-----------------------------------------------------------------------------
Fails(st) == LET has == {st[n] : n \in DOMAIN st}
             IN  /\ shrink.core \subseteq has
                 /\ \A p \in shrink.because : p[1] \in has => p[2] \in has

(* Without a Start go the later steps of its call.                         *)
WithoutStep(st, n) ==
  LET out == RemoveAt(st, n)
  IN  IF st[n].kind = "start" THEN SelectSeq(out, LAMBDA s : s.kind = "shutdown" \/ s.call /= st[n].call)
      ELSE out

MayDrop(n) == LET cand == WithoutStep(steps, n) IN Replays(sc, cand) /\ Fails(cand)

(* A pass starts at the last step; one that changed nothing was the last.  *)
Pass ==
  /\ shrink.pc = "pass" /\ shrink.i = 0
  /\ shrink' = IF shrink.changed THEN [shrink EXCEPT !.i = Len(steps), !.changed = FALSE]
               ELSE [shrink EXCEPT !.pc = "done"]
  /\ UNCHANGED <<sc, steps>>

\* Seeded fault: a step that was dropped does not call for another pass.
Drop_Once ==
  /\ shrink.pc = "pass" /\ shrink.i > 0
  /\ LET n == shrink.i
     IN  IF MayDrop(n)
         THEN /\ steps' = WithoutStep(steps, n)
              /\ shrink' = [shrink EXCEPT !.i = Min({n - 1, Len(steps')})]
         ELSE /\ shrink' = [shrink EXCEPT !.i = n - 1]
              /\ UNCHANGED steps
  /\ UNCHANGED sc

Drop ==
  /\ shrink.pc = "pass" /\ shrink.i > 0
  /\ LET n == shrink.i
     IN  IF MayDrop(n)
         THEN /\ steps' = WithoutStep(steps, n)
              /\ shrink' = [shrink EXCEPT !.i = Min({n - 1, Len(steps')}), !.changed = TRUE]
         ELSE /\ shrink' = [shrink EXCEPT !.i = n - 1]
              /\ UNCHANGED steps
  /\ UNCHANGED sc

Next == Place \/ Generated \/ Pass \/ Drop
-----------------------------------------------------------------------------
(* Every scenario can be replayed against either release, from the first   *)
(* draw to the last step dropped (gen.go:22, mustReplay), and the result   *)
(* of Minimize is 1-minimal: without any one of its steps, and those that  *)
(* depend on it, the failure is lost (minimize.go:9-12).                   *)
ReproductionMinimal ==
  /\ Replays(sc, steps)
  /\ shrink.pc \notin {"generate", "complete"} => shrink.core \subseteq {steps[n] : n \in DOMAIN steps}
  /\ shrink.pc = "done" => \A n \in DOMAIN steps : ~MayDrop(n)
=============================================================================
