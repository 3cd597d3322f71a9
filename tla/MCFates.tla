------------------------------- MODULE MCFates -------------------------------
(* A mutant in each of two files, of two versions.  What its tests come to *)
(* depends on the other file as well.                                      *)
EXTENDS Naturals, Sequences

Trees == [{"a", "b"} -> 1..2]
F(kind, stage) == [kind |-> kind, stage |-> stage]

MCSelections == {{"a", "b"}, {"b"}}
MCFileOf == <<"a", "b">>
MCFate == <<
  [t \in Trees |-> CASE t = [a |-> 1, b |-> 1] -> F("fail", 1)
                     [] t = [a |-> 1, b |-> 2] -> F("compile", 1)
                     [] OTHER -> F("pass", 1)],
  [t \in Trees |-> CASE t = [a |-> 1, b |-> 1] -> F("fail", 2)
                     [] t = [a |-> 2, b |-> 1] -> F("pass", 1)
                     [] OTHER -> F("hang", 1)]>>
=============================================================================
