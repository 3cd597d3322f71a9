------------------------------ MODULE MCHerta ------------------------------
(* Herta with two budgets and one key: an operation that claims both and    *)
(* lists them against the global order, a keyed one that claims both, and a *)
(* Reject one whose calls have the key or none.                             *)
EXTENDS HertaSem, TLC

MCBudgets == 1..2
MCSize == <<1, 2>>

Units(r, n) == [r |-> r, n |-> n]

CONSTANT k1
MCKey == {k1}

Both == [listed |-> <<Units(2, 2), Units(1, 1)>>, mode |-> "Wait", keys |-> {None}]
KeyedBoth == [listed |-> <<Units(1, 1), Units(2, 1)>>, mode |-> "Wait", keys |-> MCKey]
Reject == [listed |-> <<Units(2, 1)>>, mode |-> "Reject", keys |-> MCKey \cup {None}]

MCOps == {Both, KeyedBoth, Reject}

CallerSymmetry == Permutations(Callers)
=============================================================================
