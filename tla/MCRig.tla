------------------------------- MODULE MCRig -------------------------------
(* The scenarios that the rig is checked on, each with every order of its  *)
(* steps.                                                                  *)
EXTENDS Rig

Hold == [Plain EXCEPT !.block = "hold"]
HoldCtx == [Plain EXCEPT !.block = "holdCtx", !.ret = "ctxErr"]
Tag(o) == [Plain EXCEPT !.ret = "tag", !.tag = o]
Gives(ret) == [Plain EXCEPT !.ret = ret]

Op0 == [effect |-> "Pure", mode |-> "Wait", listed |-> <<>>, keyed |-> FALSE, timed |-> FALSE,
        attempts |-> 1, on |-> {}]
Units(r, n) == [r |-> r, n |-> n]
Of(op, script) == [op |-> op, key |-> NoKey, precancel |-> FALSE, script |-> script]
Keyed(op, k, script) == [Of([op EXCEPT !.keyed = TRUE], script) EXCEPT !.key = k]
Uses(r, n) == [Op0 EXCEPT !.listed = <<Units(r, n)>>]
Rejects(op) == [op EXCEPT !.mode = "Reject"]
Retries(op, e, n) == [op EXCEPT !.effect = e, !.attempts = n, !.on = {Transient, Uncertain}]

(* Weights on one budget, with a call that does not wait.                  *)
Weights == [size |-> <<2>>,
            calls |-> <<Of(Uses(1, 2), <<Hold>>), Of(Uses(1, 1), <<Hold>>), Of(Rejects(Uses(1, 1)), <<HoldCtx>>)>>]
(* One key before one budget; a Reject call still waits for the key.       *)
OneKey == [size |-> <<1>>,
           calls |-> <<Keyed(Uses(1, 1), "k", <<Hold>>), Keyed(Rejects(Uses(1, 1)), "k", <<Hold>>),
                       Of(Uses(1, 1), <<Hold>>)>>]
(* Two budgets, listed in either order.                                    *)
Crossed == [size |-> <<1, 1>>,
            calls |-> <<Of([Op0 EXCEPT !.listed = <<Units(2, 1), Units(1, 1)>>], <<HoldCtx>>),
                        Of([Op0 EXCEPT !.listed = <<Units(1, 1), Units(2, 1)>>], <<Hold>>),
                        Of(Uses(2, 1), <<Hold>>)>>]
(* A waiter that is served runs through, and serves the next.              *)
Chain == [size |-> <<1>>,
          calls |-> <<Of(Uses(1, 1), <<Hold>>), Of(Retries(Uses(1, 1), "Pure", 2), <<Tag(Transient)>>),
                      Of(Uses(1, 1), <<HoldCtx>>)>>]
(* Attempts that fail, cancel, panic and try again.                        *)
Failing == [size |-> <<1>>,
            calls |-> <<Of(Retries(Uses(1, 1), "Pure", 3),
                           <<[HoldCtx EXCEPT !.ret = "tag", !.tag = Transient], Tag(Uncertain), Gives("panic")>>),
                        [Of(Retries(Uses(1, 1), "Idempotent", 2), <<Tag(Uncertain)>>) EXCEPT !.precancel = TRUE],
                        Of(Retries(Op0, "Idempotent", 2), <<[Tag(Transient) EXCEPT !.cancel = TRUE]>>)>>]
(* One call whose attempts outlast their timeout.                          *)
Late(ret, e, n) == [size |-> <<1>>,
  calls |-> <<Of([Retries(Uses(1, 1), e, n) EXCEPT !.timed = TRUE],
                 <<[Plain EXCEPT !.block = "deadline", !.ret = ret, !.tag = Throttled]>>)>>]

RigScenarios == {Weights, OneKey, Crossed, Chain, Failing}
                \cup {Late(ret, e, n) : ret \in {"ok", "plain", "ctxErr", "tag"},
                                        e \in {"Idempotent", "NonIdempotent"}, n \in 1..2}
=============================================================================
