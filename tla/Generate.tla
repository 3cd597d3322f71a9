------------------------------ MODULE Generate ------------------------------
(***************************************************************************)
(* Which mutants of a file there are, and what they are called             *)
(* (lab/mutate/generate.go).  Every change that the operators make to a    *)
(* statement list, or to a token of a statement, is a candidate; one whose *)
(* tokens are those of the file or of an earlier mutant is dropped; what   *)
(* remains is known by its Key, which verdicts are saved and explained by. *)
(*                                                                         *)
(* A file is its functions, each a list of statements without nesting; a   *)
(* statement is its kind (effect, defer or other), its text, and the token *)
(* in it that can be changed.  "err" stands for the error a function       *)
(* returns, "true" for a literal that is returned or assigned.             *)
(***************************************************************************)
EXTENDS Integers, Sequences, FiniteSets, SequencesExt, TLC

CONSTANTS Funcs,            \* the names of the functions, in the order of the file
          Statements,       \* [kind, text, tok]
          MaxLength         \* bound: of all functions together

(* A name is declared once in a file, but for init and _.                  *)
ASSUME FuncsAssumption == Funcs \in Seq(Range(Funcs)) /\ IsInjective(Funcs)

VARIABLE file

GenInit == file = [fn \in Range(Funcs) |-> <<>>]
-----------------------------------------------------------------------------
Negated == ("==" :> "!=") @@ ("!=" :> "==") @@ ("<" :> ">=") @@ (">=" :> "<") @@ (">" :> "<=") @@ ("<=" :> ">")
Boundary == ("<" :> "<=") @@ ("<=" :> "<") @@ (">" :> ">=") @@ (">=" :> ">")
Logic == ("&&" :> "||") @@ ("||" :> "&&")

Change(op, from, to) == <<[op |-> op, from |-> from, to |-> to]>>
By(op, alt, tok) == IF tok \in DOMAIN alt THEN Change(op, tok, alt[tok]) ELSE <<>>

(* binary, flipBools, errNil, intOff, and the negation of visit.           *)
Binary(tok) == By("cond-negate", Negated, tok) \o By("cond-boundary", Boundary, tok) \o By("cond-logic", Logic, tok)
FlipBools(tok) == By("bool-flip", ("true" :> "false") @@ ("false" :> "true"), tok)
ErrNil(tok) == By("err-nil", "err" :> "nil", tok)
IntOff(tok) == By("int-off", "1" :> "2", tok) \o By("int-off", "1" :> "0", tok)
Visit(tok) == Binary(tok) \o By("cond-not", "!" :> "", tok) \o FlipBools(tok) \o ErrNil(tok) \o IntOff(tok)

HasEffect(s) == s.kind = "effect"
Swappable(a, b) == (a.kind = "defer" /\ b.kind = "defer") \/ (HasEffect(a) /\ HasEffect(b))

Each(changes, list) == [i \in DOMAIN changes |-> [change |-> changes[i], list |-> list]]

(* stmts, at one statement: deletion, removal and inlining of a defer, and *)
(* the swap with the statement before it.                                  *)
StmtAt(list, i) ==
  LET s == list[i]
      Out(op) == Each(Change(op, s, ""), RemoveAt(list, i))
      dropped == CASE s.kind = "defer" -> Out("defer-delete") \o
                        Each(Change("defer-inline", "defer", ""), [list EXCEPT ![i].kind = "effect"])
                   [] HasEffect(s) -> Out("stmt-delete")
                   [] OTHER -> <<>>
      swapped == IF i > 1 /\ Swappable(list[i - 1], s)
                 THEN Each(Change("stmt-swap", "swap", <<list[i - 1], s>>),
                           [list EXCEPT ![i - 1] = s, ![i] = list[i - 1]])
                 ELSE <<>>
  IN  dropped \o swapped

TokenAt(list, i) ==
  LET changes == Visit(list[i].tok)
  IN  [k \in DOMAIN changes |-> [change |-> changes[k], list |-> [list EXCEPT ![i].tok = changes[k].to]]]

(* ast.Inspect: a list is visited before the statements that are in it.    *)
Inspect(list) == FlattenSeq([i \in DOMAIN list |-> StmtAt(list, i)])
                 \o FlattenSeq([i \in DOMAIN list |-> TokenAt(list, i)])

(* One mutant of function fn: its change, and the file that results, which *)
(* is what the fingerprint of its tokens tells apart.                      *)
Mutant(f, fn, c) == [func |-> fn, change |-> c.change, nth |-> 0, result |-> [f EXCEPT ![fn] = c.list]]

InFunc(f, fn) == LET cs == Inspect(f[fn]) IN [k \in DOMAIN cs |-> Mutant(f, fn, cs[k])]

Candidates(f) == FlattenSeq([n \in DOMAIN Funcs |-> InFunc(f, Funcs[n])])

What(m) == <<m.func, m.change>>
Key(m) == <<What(m), m.nth>>

\* Seeded fault: mutants that read the same are not told apart.
Emit_NotCounted(f, out, m) ==
  IF m.result = f \/ \E i \in DOMAIN out : out[i].result = m.result THEN out ELSE Append(out, m)

(* emit: what is new is numbered among those that read the same.           *)
Emit(f, out, m) ==
  IF m.result = f \/ \E i \in DOMAIN out : out[i].result = m.result THEN out
  ELSE Append(out, [m EXCEPT !.nth = Cardinality({i \in DOMAIN out : What(out[i]) = What(m)})])

(* Generate: what is emitted of the first candidates, one more at a time.  *)
Generate(f) ==
  LET cs == Candidates(f)
      out[n \in 0..Len(cs)] == IF n = 0 THEN <<>> ELSE Emit(f, out[n - 1], cs[n])
  IN  out[Len(cs)]

(* The developer adds a statement: a file is whatever is written.          *)
AddStatement == \E fn \in Range(Funcs), s \in Statements :
          /\ SumFunction([g \in Range(Funcs) |-> Len(file[g])]) < MaxLength
          /\ file' = [file EXCEPT ![fn] = Append(@, s)]

GenNext == AddStatement

GenSpec == GenInit /\ [][GenNext]_file
-----------------------------------------------------------------------------
(* A Key is of one mutant (save.go:115 keeps one verdict for each), every  *)
(* program that a candidate makes is judged once and the unchanged program *)
(* never (generate.go:13-17); and the mutants of a function, with their    *)
(* Keys, depend on nothing outside it, so that a verdict that was explained *)
(* survives edits of other functions (mutant.go:61).                       *)
KeysIdentify ==
  LET out == Generate(file)
      Of(fn, ms) == {<<Key(ms[i]), ms[i].result[fn]>> : i \in {i \in DOMAIN ms : ms[i].func = fn}}
      Only(fn) == [g \in Range(Funcs) |-> IF g = fn THEN file[fn] ELSE <<>>]
  IN  /\ \A i, j \in DOMAIN out : i /= j => Key(out[i]) /= Key(out[j]) /\ out[i].result /= out[j].result
      /\ {out[i].result : i \in DOMAIN out} = {c.result : c \in Range(Candidates(file))} \ {file}
      /\ \A fn \in Range(Funcs) : Of(fn, out) = Of(fn, Generate(Only(fn)))
=============================================================================
