-------------------------------- MODULE MCLab --------------------------------
(***************************************************************************)
(* The parts of the laboratory that run on their own, each on its own      *)
(* instance: the comparison of the constructors, the scenario generator    *)
(* with the minimizer, the enumeration of mutants, the mutation tester,    *)
(* and the experiment engine.                                              *)
(* They share nothing; `part` says which one a behaviour is of, and the    *)
(* variables of the others stay as they begin, or Absent.                  *)
(***************************************************************************)
EXTENDS Mutation, Generate, Construction, Engine, MCArguments, MCFates

CONSTANTS NoKey, GenResources, MaxCap, GenKeys, GenSteps, GenShutdowns, CallPool    \* Shrink

VARIABLES part, sc, steps, shrink

Minimize == INSTANCE Shrink

shrinkVars == <<sc, steps, shrink>>
labVars == <<part, conVars, shrinkVars, file, mutVars, engVars>>
-----------------------------------------------------------------------------
(* What the generator draws from: a call that holds the budget until it is *)
(* released, one that does not wait for it, and one with a key.            *)
Draw(mode, n, key, block) ==
  [op |-> [effect |-> "Pure", mode |-> mode, listed |-> <<[r |-> 1, n |-> n]>>, keyed |-> key /= NoKey,
           timed |-> FALSE, attempts |-> 1, on |-> {}],
   key |-> key, precancel |-> FALSE, script |-> <<[Plain EXCEPT !.block = block]>>]

MCCallPool == {Draw("Wait", 1, NoKey, "hold"), Draw("Reject", 1, NoKey, "none"), Draw("Wait", 2, "k", "holdCtx")}

MCFuncs == <<"f", "g">>

(* Two effects and two defers that can be told apart, and some tokens.     *)
Stmt(kind, text, tok) == [kind |-> kind, text |-> text, tok |-> tok]
MCStatements == {Stmt("effect", "a", ""), Stmt("effect", "x =", "1"), Stmt("defer", "a", ""), Stmt("defer", "b", ""),
                 Stmt("other", "if", "<"), Stmt("other", "if", "&&"), Stmt("other", "x :=", "1"),
                 Stmt("other", "return", "!"), Stmt("other", "return", "err"), Stmt("other", "return", "true")}

(* The library in a closed loop on two budgets, under Reject and under     *)
(* Wait; in an open loop, with a key, timeouts and a second attempt; and   *)
(* the frozen release with keys, which it waits for, and units, which it   *)
(* does not, and with two budgets, failures and a second attempt.          *)
Workload(im, lopen, resources, keys, reject, attempts) ==
  [im |-> im, open |-> lopen, resources |-> resources, capacity |-> 2, heavy |-> 0, keys |-> keys,
   reject |-> reject, attempts |-> attempts, timeout |-> FALSE, busy |-> TRUE, fail |-> FALSE, cancel |-> FALSE]

MCWorkloads ==
  {[Workload("recon", FALSE, 2, 0, TRUE, 1) EXCEPT !.heavy = 2],
   [Workload("recon", FALSE, 2, 0, FALSE, 1) EXCEPT !.capacity = 1, !.cancel = TRUE],
   [Workload("recon", TRUE, 1, 1, FALSE, 2) EXCEPT !.capacity = 1, !.timeout = TRUE],
   [Workload("orig", FALSE, 1, 2, TRUE, 1) EXCEPT !.capacity = 1, !.cancel = TRUE],
   [Workload("orig", FALSE, 2, 0, FALSE, 2) EXCEPT !.heavy = 2, !.fail = TRUE]}
-----------------------------------------------------------------------------
Absent == <<>>

NoConstruct == /\ ConInit
               /\ ~handler /\ ~name
               /\ specs = <<>> /\ policy = CHOOSE p \in PolicyInputs : TRUE
NoEngine == EngInit /\ load = CHOOSE x \in Workloads : TRUE
NoMinimize == sc = Absent /\ steps = Absent /\ shrink = Absent
NoEnumerate == GenInit

LabInit ==
  /\ Init
  /\ \/ part = "construct" /\ ConInit /\ NoMinimize /\ NoEnumerate /\ NoEngine
     \/ part = "minimize" /\ Minimize!Init /\ NoConstruct /\ NoEnumerate /\ NoEngine
     \/ part = "enumerate" /\ GenInit /\ NoConstruct /\ NoMinimize /\ NoEngine
     \/ part = "mutate" /\ NoConstruct /\ NoMinimize /\ NoEnumerate /\ NoEngine
     \/ part = "engine" /\ EngInit /\ NoConstruct /\ NoMinimize /\ NoEnumerate

LabNext ==
  \/ /\ part = "construct" /\ ConNext
     /\ UNCHANGED <<part, shrinkVars, file, mutVars, engVars>>
  \/ /\ part = "minimize" /\ Minimize!Next
     /\ UNCHANGED <<part, conVars, file, mutVars, engVars>>
  \/ /\ part = "enumerate" /\ GenNext
     /\ UNCHANGED <<part, conVars, shrinkVars, mutVars, engVars>>
  \/ /\ part = "mutate" /\ Next
     /\ UNCHANGED <<part, conVars, shrinkVars, file, engVars>>
  \/ /\ part = "engine" /\ EngNext
     /\ UNCHANGED <<part, conVars, shrinkVars, file, mutVars>>

LabSpec == LabInit /\ [][LabNext]_labVars
-----------------------------------------------------------------------------
(* The others are stated in the modules that are extended.                 *)
ReproductionMinimal == part = "minimize" => Minimize!ReproductionMinimal
==============================================================================
