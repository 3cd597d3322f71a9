----------------------------- MODULE MCAttempt -----------------------------
(* Attempt for every policy of up to three attempts that NewOperation       *)
(* accepts, and handlers that tag their errors with every kind of outcome,  *)
(* values that are none included (below zero, and within the byte of the    *)
(* retry table).                                                            *)
EXTENDS Attempt

MCTags == {-1, Success, Transient, Permanent, Throttled, Uncertain, 7}

MCPolicies ==
  {p \in [effect : Effect, on : SUBSET {Transient, Uncertain}, attempts : 1..3, timed : BOOLEAN] :
     ~(p.effect = "NonIdempotent" /\ Uncertain \in p.on)}
=============================================================================
