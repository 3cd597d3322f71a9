----------------------------- MODULE MCArguments -----------------------------
(* Arguments of NewRuntime and NewOperation: each defect, alone and with others. *)
EXTENDS Outcomes

S(n, c) == [name |-> n, cap |-> c]
R(b, n) == [r |-> b, n |-> n]

MCSpecLists == {<<S(2, 1), S(1, 2)>>, <<S(1, 2)>>, <<>>, <<S(1, 1), S(1, 0)>>,
                <<S(2, 1), S(2, 3)>>, <<S(0, 0), S(1, 1)>>}

GoodReqs == <<R(2, 1), R(1, 2)>>
OtherReqs == {<<>>, <<R(1, 1), R(1, 1)>>, <<R(3, 0)>>, <<R(1, 3), R(2, 0)>>, <<R(2, 1), R(1, -1)>>}

P(e, reqs, on, mode, timeout, max) ==
  [effect |-> e, reqs |-> reqs, on |-> on, mode |-> mode, timeout |-> timeout, max |-> max]

(* Maps of outcomes, one of them no outcome at all.                         *)
Maps == UNION {[s -> BOOLEAN] : s \in SUBSET {-1, Transient, Throttled, Uncertain}}
Legal == [o \in {Transient, Uncertain} |-> TRUE]
Illegal == [o \in {Success, Permanent} |-> TRUE]

Effects == Effect \cup {"Unknown", "9"}

MCPolicyInputs ==
       {P(e, GoodReqs, on, "Reject", 1, 2) : e \in Effects, on \in Maps}
  \cup {P(e, reqs, on, "Wait", 0, 1) : e \in Effects, reqs \in OtherReqs, on \in {Legal, Illegal}}
  \cup {P("Pure", <<>>, Legal, m, t, n) : m \in {"Wait", "Reject", "7"}, t \in {-1, 0, 1}, n \in {-1, 0, 3}}
=============================================================================
