----------------------------- MODULE MCResource -----------------------------
(* A budget on a few calls, for every assignment of weights to them: a     *)
(* call that wants the whole of it among light ones is one of these.       *)
EXTENDS ResourceSem
=============================================================================
