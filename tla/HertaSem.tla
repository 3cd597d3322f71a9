------------------------------ MODULE HertaSem ------------------------------
(***************************************************************************)
(* What the composition owes to a budget: to each of them, every step of   *)
(* the runtime is a step of the reference semaphore of lab/model/sem.go or *)
(* none, whatever the calls that claim it do with the others, the key and  *)
(* the gate.                                                               *)
(***************************************************************************)
EXTENDS Herta

CONSTANT Watched        \* the budget looked at, any of them

ASSUME WatchedAssumption == Watched \in Budgets

(* What waits for the budget, and what has been granted of it.             *)
Line(s) == [i \in DOMAIN s |-> [id |-> s[i], n |-> UnitsOf(s[i], Watched)]]
Held == [c \in Callers |-> Has(c, Watched)]

Abstract == INSTANCE Sem WITH
  Cap <- Size[Watched],
  used <- used[Watched],
  queue <- Line(q[Watched]),
  units <- Held,
  closed <- Watched \in closed

(* Every step is a step of the reference semaphore or a stutter of it,     *)
(* also when a call takes several budgets, or fails halfway and gives back. *)
KeepsBudget == Abstract!Spec
=============================================================================
