------------------------------- MODULE MCGate -------------------------------
(* The gate with a few callers that call again and again, concurrent       *)
(* Shutdowns and a reader of Stats.                                        *)
EXTENDS Gate
=============================================================================
