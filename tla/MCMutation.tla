----------------------------- MODULE MCMutation -----------------------------
(* The mutation tester with sources that nobody edits while they are       *)
(* copied, on the two mutants of MCFates.                                  *)
EXTENDS Mutation, MCFates
=============================================================================
