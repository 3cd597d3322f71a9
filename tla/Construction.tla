---------------------------- MODULE Construction ----------------------------
(***************************************************************************)
(* NewRuntime and NewOperation: validation, and the snapshot of the policy *)
(* (validate.go, operation.go, runtime.go), of this release ("v1") and of  *)
(* the one before (lab/v02, "v02"), which is given the same input.  A Go   *)
(* map is iterated in any order, one entry a step.  The caller keeps the   *)
(* slice and the map it passed, and may change them afterwards.  Of the    *)
(* text of an error this keeps what it complains of, and about what.       *)
(***************************************************************************)
EXTENDS Scripts

CONSTANTS SpecLists,    \* sequences of [name, cap]; a name is a number, 0 if empty
          PolicyInputs  \* [effect, reqs: sequence of [r, n], mode, timeout, max, on: map of outcomes]

(* What Go's types say of the arguments.                                   *)
ASSUME ArgumentsAssumption ==
  /\ SpecLists \subseteq Seq([name : Nat, cap : Int])
  /\ \A p \in PolicyInputs :
       /\ p.reqs \in Seq([r : Nat, n : Int])
       /\ p.timeout \in Int /\ p.max \in Int
       /\ DOMAIN p.on \subseteq Int /\ IsFiniteSet(DOMAIN p.on)
       /\ p.on \in [DOMAIN p.on -> BOOLEAN]

VARIABLES
  specs, handler, name,     \* the arguments of NewRuntime and NewOperation
  policy,                   \* the policy; reqs and on as they are now
  asked,                    \* the policy as it was passed
  rel                       \* for each release, where it is: see Fresh

conVars == <<specs, handler, name, policy, asked, rel>>

Release == {"v1", "v02"}

NoError == [what |-> "none", about |-> 0]
Fresh == [pc |-> "runtime", todo |-> {}, set |-> {}, bad |-> {}, err |-> NoError, op |-> <<>>]

ConInit ==
  /\ specs \in SpecLists
  /\ handler \in BOOLEAN
  /\ name \in BOOLEAN
  /\ policy \in PolicyInputs
  /\ asked = policy
  /\ rel = [v \in Release |-> Fresh]
-----------------------------------------------------------------------------
(* The first complaint of a list of checks: [fails, what, about].          *)
Check(fails, what, about) == [fails |-> fails, what |-> what, about |-> about]
First(checks) ==
  LET bad == {i \in DOMAIN checks : checks[i].fails}
  IN  IF bad = {} THEN NoError
      ELSE [what |-> checks[Min(bad)].what, about |-> checks[Min(bad)].about]

ValidateSpecs ==
  LET checks(i) == LET s == specs[i]
                   IN  <<Check(s.name = 0, "emptyName", i), Check(s.cap <= 0, "capacity", i),
                         Check(\E j \in 1..(i-1) : specs[j].name = s.name, "duplicate", i)>>
  IN  First(<<Check(specs = <<>>, "noSpecs", 0)>> \o FlattenSeq([i \in DOMAIN specs |-> checks(i)]))

Known == {specs[i].name : i \in DOMAIN specs}
Cap(r) == IF r \in Known THEN (CHOOSE s \in Range(specs) : s.name = r).cap ELSE 0

ValidateEffect ==
  <<Check(policy.effect = "Unknown", "effectRequired", 0),
    Check(policy.effect \notin Effect \cup {"Unknown"}, "invalidEffect", 0)>>

(* resolveClaims, in the caller's order.                                   *)
ResolveClaims ==
  LET reqs == policy.reqs
      checks(i) == LET q == reqs[i]
                   IN  <<Check(\E j \in 1..(i-1) : reqs[j].r = q.r, "twice", i),
                         Check(q.r \notin Known, "unknown", i), Check(q.n <= 0, "units", i),
                         Check(q.n > Cap(q.r), "exceeds", i)>>
  IN  FlattenSeq([i \in DOMAIN reqs |-> checks(i)])

InvalidRetry(o) == [about |-> o,
  what |-> CASE o = Throttled -> "throttled"
             [] o \in {Success, Permanent} -> "neverRetryable"
             [] OTHER -> "invalidOutcome"]

Unsafe(set) == policy.effect = "NonIdempotent" /\ Uncertain \in set

(* The operation.  The previous one keeps the policy, and so the map.      *)
Snapshot(v, set) ==
  [claims |-> Sorted(policy.reqs),
   mode |-> IF policy.mode = "Reject" THEN "Reject" ELSE "Wait",
   timeout |-> Max({policy.timeout, 0}),
   attempts |-> Max({policy.max, 1}),
   retry |-> IF v = "v1" THEN set \cap RetrySafe(policy.effect) ELSE "the map"]
-----------------------------------------------------------------------------
Fail(v, err) == rel' = [rel EXCEPT ![v].pc = "failed", ![v].err = err]
Turn(v, l) == rel[v].pc = l /\ (v = "v02" => rel["v1"].pc \in {"done", "failed"})
Unchanged == UNCHANGED <<specs, handler, name, policy, asked>>

NewRuntime(v) ==
  /\ Turn(v, "runtime")
  /\ IF ValidateSpecs /= NoError THEN Fail(v, ValidateSpecs) ELSE rel' = [rel EXCEPT ![v].pc = "operation"]
  /\ Unchanged

(* NewOperation, up to the retry table.                                    *)
ValidateArguments == First(<<Check(~handler, "handler", 0), Check(~name, "name", 0)>>
                           \o ValidateEffect \o ResolveClaims)

Validate(v) ==
  /\ Turn(v, "operation")
  /\ IF ValidateArguments /= NoError THEN Fail(v, ValidateArguments)
     ELSE rel' = [rel EXCEPT ![v].pc = "retry", ![v].todo = DOMAIN policy.on]
  /\ Unchanged

\* Seeded fault: the bad entry that is met last decides.
RetryEntry_Last(v, o) ==
  LET legal == o \in {Transient, Uncertain}
      rest == rel[v].todo \ {o}
  IN  /\ Turn(v, "retry")
      /\ CASE ~policy.on[o] -> rel' = [rel EXCEPT ![v].todo = rest]
           [] policy.on[o] /\ legal -> rel' = [rel EXCEPT ![v].todo = rest, ![v].set = @ \cup {o}]
           [] policy.on[o] /\ ~legal /\ v = "v1" -> rel' = [rel EXCEPT ![v].todo = rest, ![v].bad = {o}]
           [] policy.on[o] /\ ~legal /\ v = "v02" -> Fail(v, InvalidRetry(o))
      /\ Unchanged

(* One entry of the map: a bad one is remembered if it is the lowest, or,  *)
(* in the previous release, ends the validation.                           *)
RetryEntry(v, o) ==
  LET legal == o \in {Transient, Uncertain}
      rest == rel[v].todo \ {o}
  IN  /\ Turn(v, "retry")
      /\ CASE ~policy.on[o] -> rel' = [rel EXCEPT ![v].todo = rest]
           [] policy.on[o] /\ legal -> rel' = [rel EXCEPT ![v].todo = rest, ![v].set = @ \cup {o}]
           [] policy.on[o] /\ ~legal /\ v = "v1" ->
                rel' = [rel EXCEPT ![v].todo = rest, ![v].bad = {Min(@ \cup {o})}]
           [] policy.on[o] /\ ~legal /\ v = "v02" -> Fail(v, InvalidRetry(o))
      /\ Unchanged

\* Seeded fault: what is unsafe to repeat is dropped before it is refused.
RetryTable_SafeFirst(v) ==
  /\ Turn(v, "retry")
  /\ rel[v].todo = {}
  /\ IF rel[v].bad /= {} THEN Fail(v, InvalidRetry(Min(rel[v].bad)))
     ELSE rel' = [rel EXCEPT ![v].pc = "done", ![v].op = Snapshot(v, rel[v].set)]
  /\ Unchanged

RetryTable(v) ==
  /\ Turn(v, "retry")
  /\ rel[v].todo = {}
  /\ CASE rel[v].bad /= {} -> Fail(v, InvalidRetry(Min(rel[v].bad)))
       [] rel[v].bad = {} /\ Unsafe(rel[v].set) -> Fail(v, [what |-> "unsafe", about |-> 0])
       [] OTHER -> rel' = [rel EXCEPT ![v].pc = "done", ![v].op = Snapshot(v, rel[v].set)]
  /\ Unchanged

(* The caller changes the slice and the map it passed.                     *)
Mutate ==
  /\ \A v \in Release : rel[v].pc = "done"
  /\ policy = asked
  /\ \E p \in PolicyInputs : policy' = [policy EXCEPT !.reqs = p.reqs, !.on = p.on]
  /\ UNCHANGED <<specs, handler, name, asked, rel>>

Step(v) == NewRuntime(v) \/ Validate(v) \/ (\E o \in rel[v].todo : RetryEntry(v, o)) \/ RetryTable(v)

ConNext == (\E v \in Release : Step(v)) \/ Mutate

ConSpec == ConInit /\ [][ConNext]_conVars
-----------------------------------------------------------------------------
Decided(v) == rel[v].pc \in {"done", "failed"}

\* Seeded fault: what a call may repeat is read from the policy when it runs.
Repeats_Alias(v) == {o \in DOMAIN policy.on : policy.on[o]}

(* What the attempt loop of an operation repeats.                          *)
Repeats(v) ==
  IF v = "v1" THEN rel[v].op.retry
  ELSE {o \in DOMAIN policy.on : policy.on[o] /\ o \in RetrySafe(policy.effect)}

(* The class of an error, and the one that lab/model/validate.go predicts. *)
ClassOf(what) == CASE what = "none" -> "nil"
                   [] what = "effectRequired" -> "effect-required"
                   [] what = "invalidEffect" -> "invalid-effect"
                   [] what \in {"throttled", "neverRetryable", "invalidOutcome"} -> "invalid-retry-policy"
                   [] what = "unsafe" -> "unsafe-retry"
                   [] OTHER -> "other"

RuntimeOK == /\ specs /= <<>>
             /\ \A i \in DOMAIN specs : /\ specs[i].name /= 0 /\ specs[i].cap > 0
                                        /\ \A j \in 1..(i-1) : specs[j].name /= specs[i].name

ClaimsOK == \A i \in DOMAIN asked.reqs :
  LET q == asked.reqs[i]
  IN  /\ \A j \in 1..(i-1) : asked.reqs[j].r /= q.r
      /\ \E s \in Range(specs) : s.name = q.r /\ 0 < q.n /\ q.n <= s.cap

BadOutcomes == {o \in DOMAIN asked.on : asked.on[o] /\ o \notin {Transient, Uncertain}}
AsksUncertain == Uncertain \in DOMAIN asked.on /\ asked.on[Uncertain]

Predicted ==
  CASE ~RuntimeOK \/ ~handler \/ ~name -> "other"
    [] RuntimeOK /\ handler /\ name /\ asked.effect = "Unknown" -> "effect-required"
    [] RuntimeOK /\ handler /\ name /\ asked.effect \notin Effect \cup {"Unknown"} -> "invalid-effect"
    [] OTHER -> CASE ~ClaimsOK -> "other"
                  [] ClaimsOK /\ BadOutcomes /= {} -> "invalid-retry-policy"
                  [] ClaimsOK /\ BadOutcomes = {} /\ asked.effect = "NonIdempotent" /\ AsksUncertain -> "unsafe-retry"
                  [] OTHER -> "nil"

(* Both releases fail with the class the reference predicts, in whatever   *)
(* order their map is iterated.                                            *)
AsPredicted == \A v \in Release : Decided(v) => ClassOf(rel[v].err.what) = Predicted

(* The text is that of the previous release; where that depended on the    *)
(* order of the map, the lowest outcome decides (validate.go:8-9).         *)
LowestDecides ==
  Decided("v1") /\ Decided("v02") =>
    \/ rel["v1"].err = rel["v02"].err
    \/ /\ Cardinality(BadOutcomes) > 1
       /\ rel["v02"].err \in {InvalidRetry(o) : o \in BadOutcomes}
       /\ rel["v1"].err = InvalidRetry(Min(BadOutcomes))

(* What the caller does to its slice and its map afterwards changes        *)
(* nothing: the operation claims, waits and repeats as it was asked.  The  *)
(* previous one follows the map, but never to an unsafe repetition.        *)
SnapshotKept ==
  LET want == {o \in {Transient, Uncertain} : o \in DOMAIN asked.on /\ asked.on[o]}
  IN  \A v \in Release : rel[v].pc = "done" =>
        /\ rel[v].op.claims = Sorted(asked.reqs)
        /\ rel[v].op.mode = "Reject" <=> asked.mode = "Reject"
        /\ v = "v1" \/ policy = asked => Repeats(v) = want \cap RetrySafe(asked.effect)
        /\ Repeats(v) \subseteq RetrySafe(asked.effect)
        /\ rel[v].op.attempts >= 1 /\ rel[v].op.timeout >= 0
=============================================================================
