------------------------------- MODULE System -------------------------------
(***************************************************************************)
(* The reference model of the laboratory, lab/model/system.go and          *)
(* retry.go, as the pure functions it is made of: a state goes in, with a  *)
(* step, and the state after everything has settled comes out.  It follows *)
(* the contract or, when ~fixed, the previous release; err is "ambiguous"  *)
(* after a step whose outcome is said to depend on scheduling.             *)
(***************************************************************************)
EXTENDS Scripts, TLC

CONSTANT NoKey          \* the empty key

NoResult == [class |-> "none", outcome |-> Success, calls |-> 0]
Result(class, o, n) == [class |-> class, outcome |-> o, calls |-> n]

NewExec(c) == [n |-> 0, retried |-> 0, canceled |-> c.precancel, own |-> FALSE, held |-> FALSE,
               released |-> FALSE, done |-> FALSE, res |-> NoResult]

NewCall(c) == [phase |-> "idle", next |-> 0, hasKey |-> FALSE, exec |-> NewExec(c), res |-> NoResult]

New(fixed, sc) ==
  [fixed |-> fixed, sc |-> sc, err |-> "nil",
   call |-> [i \in DOMAIN sc.calls |-> NewCall(sc.calls[i])],
   sem |-> [b \in DOMAIN sc.size |-> [used |-> 0, q |-> <<>>]],
   keys |-> [k \in {sc.calls[i].key : i \in DOMAIN sc.calls} |-> [holder |-> 0, q |-> <<>>]],
   stopping |-> FALSE, stats |-> NoStats, downs |-> <<>>,
   root |-> 0, active |-> {}, woken |-> 0, todo |-> <<>>]
-----------------------------------------------------------------------------
(* The retry loop.  Of time it keeps whether the caller has cancelled, and *)
(* whether the attempt was first ended by its own timer.                   *)
CallerErr(x) == IF x.canceled THEN "canceled" ELSE "nil"
AttemptErr(x) == IF x.own THEN "deadline" ELSE CallerErr(x)

Ended(x, class, o) == [x EXCEPT !.done = TRUE, !.held = FALSE, !.res = Result(class, o, x.n)]

SafeRetry(e, o) == o = Transient \/ (o = Uncertain /\ e /= "NonIdempotent")

\* Seeded fault: finish promotes by the rule of classify.
Promotes_Alike(fixed, op, x, class) ==
  IF fixed THEN class /= "canceled" /\ x.own /\ ~x.canceled
           ELSE op.timed /\ x.own /\ class = "deadline"

(* Whether an untagged error is reported as Uncertain, by either release.  *)
Promotes(fixed, op, x, class) ==
  IF fixed THEN class /= "canceled" /\ x.own /\ ~x.canceled
           ELSE op.timed /\ x.own

Decide(fixed, op, x, class, tag) ==
  LET promote == tag = Untagged /\ Promotes(fixed, op, x, class)
      oc == CASE tag /= Untagged -> tag
              [] tag = Untagged /\ promote /\ (fixed \/ class = "deadline") -> Uncertain
              [] OTHER -> Permanent
  IN  IF x.n < op.attempts /\ oc \in op.on /\ SafeRetry(op.effect, oc) THEN x
      ELSE Ended(x, class, IF promote THEN Uncertain ELSE IF tag /= Untagged THEN tag ELSE Permanent)

(* An attempt ends; byCtx if the context cut its block short.              *)
End(fixed, c, x0, byCtx) ==
  LET a == At(c.script, x0.n)
      x == [x0 EXCEPT !.canceled = @ \/ a.cancel]
      e == AttemptErr(x)
      decide(class, tag) == Decide(fixed, c.op, x, class, tag)
  IN  CASE byCtx -> decide(e, Untagged)
        [] ~byCtx /\ a.ret = "panic" -> Ended(x, "panic", Success)
        [] ~byCtx /\ a.ret = "plain" -> decide("other", Untagged)
        [] ~byCtx /\ a.ret = "tag" -> decide("other", FailTag(a.tag))
        [] ~byCtx /\ a.ret = "ctxErr" /\ e /= "nil" -> decide(e, Untagged)
        [] OTHER -> Ended(x, "nil", Success)

RECURSIVE Run(_, _, _)
Run(fixed, c, x) ==
  LET a == At(c.script, x.n + 1)
      y == [x EXCEPT !.retried = IF x.n > 0 THEN @ + 1 ELSE @, !.n = @ + 1, !.own = FALSE]
      holds == a.block \in {"hold", "holdCtx"} /\ ~x.released
  IN  CASE x.done \/ x.held -> x
        [] ~(x.done \/ x.held) /\ x.canceled -> Ended(x, "canceled", Permanent)
        [] ~(x.done \/ x.held \/ x.canceled) /\ holds -> [y EXCEPT !.held = TRUE]
        [] OTHER -> Run(fixed, c, End(fixed, c, [y EXCEPT !.own = a.block = "deadline"], FALSE))

ReleaseExec(fixed, c, x) ==
  Run(fixed, c, End(fixed, c, [x EXCEPT !.held = FALSE, !.released = TRUE], FALSE))

CancelExec(fixed, c, x) ==
  LET y == [x EXCEPT !.canceled = TRUE]
  IN  IF x.held /\ At(c.script, x.n).block = "holdCtx"
      THEN Run(fixed, c, End(fixed, c, [y EXCEPT !.held = FALSE], TRUE))
      ELSE y
-----------------------------------------------------------------------------
(* The methods of System call each other without end; here what is left to *)
(* do is a stack, and a turn does what is on top of it.                    *)
Push(s, tasks) == [s EXCEPT !.todo = tasks \o @]
Task(do, id) == [do |-> do, id |-> id]
FinishWith(id, r) == Task("finish", id) @@ [res |-> r]

Spec(s, id) == s.sc.calls[id]
Claims(s, id) == Sorted(Spec(s, id).op.listed)
Park(s, id) == [s EXCEPT !.call[id].phase = "parked"]
Fails(s, id, class, o) == Push(s, <<FinishWith(id, Result(class, o, 0))>>)
Refused(s, id) == Fails([s EXCEPT !.stats.rejected = @ + 1], id, "overloaded", Throttled)
Fits(s, cl) == s.sem[cl.r].q = <<>> /\ s.sem[cl.r].used + cl.n <= s.sc.size[cl.r]
Live(s, id) == ~s.call[id].exec.canceled
Rejects(s, id) == Spec(s, id).op.mode = "Reject"
NeedsKey(s, id) == Spec(s, id).op.keyed /\ Spec(s, id).key /= NoKey /\ ~s.call[id].hasKey

(* settle: a call holds in its handler, or has returned from it.           *)
Settle(s, id, x) ==
  LET t == [s EXCEPT !.call[id].exec = x, !.call[id].phase = "holding"]
  IN  IF x.done THEN Push(t, <<FinishWith(id, x.res)>>) ELSE t

(* The handler: v0.2 counts Started before it, the contract once it ran.   *)
Enter(s, id) ==
  LET x == Run(s.fixed, Spec(s, id), s.call[id].exec)
  IN  Settle([s EXCEPT !.stats.started = IF ~s.fixed \/ x.n > 0 THEN @ + 1 ELSE @], id, x)

Claim(s, id) ==
  LET cl == Claims(s, id)[s.call[id].next + 1]
      may == Rejects(s, id) \/ Live(s, id)
  IN  CASE may /\ Fits(s, cl) -> Push([s EXCEPT !.sem[cl.r].used = @ + cl.n, !.call[id].next = @ + 1],
                                     <<Task("advance", id)>>)
        [] ~may -> Fails(s, id, "canceled", Permanent)
        [] may /\ ~Fits(s, cl) /\ Rejects(s, id) -> Refused(s, id)
        [] OTHER -> Park([s EXCEPT !.sem[cl.r].q = Append(@, [id |-> id, n |-> cl.n])], id)

AcquireKey(s, id) ==
  LET k == Spec(s, id).key
      held == s.keys[k].holder /= 0
      failsFast == s.fixed /\ Rejects(s, id)
  IN  CASE ~Live(s, id) -> Fails(s, id, "canceled", Permanent)
        [] Live(s, id) /\ ~held -> Push([s EXCEPT !.keys[k].holder = id, !.call[id].hasKey = TRUE],
                                       <<Task("advance", id)>>)
        [] Live(s, id) /\ held /\ failsFast -> Refused(s, id)
        [] OTHER -> Park([s EXCEPT !.keys[k].q = Append(@, id)], id)

Advance(s, id) == CASE NeedsKey(s, id) -> AcquireKey(s, id)
                    [] ~NeedsKey(s, id) /\ s.call[id].next < Len(Claims(s, id)) -> Claim(s, id)
                    [] OTHER -> Enter(s, id)

(* A waiter that was granted its key, or its next claim, goes on; it may   *)
(* race with whoever drives the step unless it just enters a held attempt. *)
Wake(s, id, key) ==
  LET next == s.call[id].next + (IF key THEN 0 ELSE 1)
  IN  Push([s EXCEPT !.woken = @ + 1, !.call[id].next = next, !.call[id].hasKey = @ \/ key],
           <<Task("advance", id), Task("woken", id) @@ [more |-> next < Len(Claims(s, id))]>>)

Woken(s, id, more) == IF id /= s.root /\ (more \/ s.call[id].phase /= "holding")
                      THEN [s EXCEPT !.active = @ \cup {id}] ELSE s

(* Sem.grant, with used units and q queued.                                *)
Grant(s, b, used, q) ==
  LET sum[i \in 0..Len(q)] == IF i = 0 THEN used ELSE sum[i - 1] + q[i].n
      k == Max({0} \cup {i \in DOMAIN q : sum[i] <= s.sc.size[b]})
  IN  Push([s EXCEPT !.sem[b] = [used |-> sum[k], q |-> SubSeq(q, k + 1, Len(q))]],
           [i \in 1..k |-> Task("wake", q[i].id) @@ [key |-> FALSE]])

ReleaseKey(s, k) ==
  LET q == s.keys[k].q
  IN  IF q = <<>> THEN [s EXCEPT !.keys[k].holder = 0]
      ELSE Push([s EXCEPT !.keys[k] = [holder |-> Head(q), q |-> Tail(q)]],
                <<Task("wake", Head(q)) @@ [key |-> TRUE]>>)

(* finish: counted first, then released in reverse order.                  *)
Finish(s, id, r) ==
  LET c == s.call[id]
  IN  Push([s EXCEPT !.call[id] = [c EXCEPT !.phase = "done", !.res = r, !.next = 0, !.hasKey = FALSE],
                     !.stats.finished = @ + 1, !.stats.retried = @ + c.exec.retried],
           [i \in 1..c.next |-> Task("release", id) @@ [claim |-> Claims(s, id)[c.next + 1 - i]]]
           \o IF c.hasKey THEN <<Task("releaseKey", id)>> ELSE <<>>)

(* A parked call leaves its queue, which may serve others, and ends.       *)
Withdraw(s, id, class) ==
  LET t == Fails(s, id, class, Permanent)
      b == Claims(s, id)[s.call[id].next + 1].r
  IN  CASE s.call[id].phase /= "parked" -> s
        [] s.call[id].phase = "parked" /\ NeedsKey(s, id) ->
             [t EXCEPT !.keys[Spec(s, id).key].q = SelectSeq(@, LAMBDA w : w /= id)]
        [] OTHER -> Grant(t, b, s.sem[b].used, SelectSeq(s.sem[b].q, LAMBDA w : w.id /= id))

Turn(s0) ==
  LET t == Head(s0.todo)
      s == [s0 EXCEPT !.todo = Tail(@)]
  IN  CASE t.do = "advance" -> Advance(s, t.id)
        [] t.do = "wake" -> Wake(s, t.id, t.key)
        [] t.do = "woken" -> Woken(s, t.id, t.more)
        [] t.do = "finish" -> Finish(s, t.id, t.res)
        [] t.do = "release" -> Grant(s, t.claim.r, s.sem[t.claim.r].used - t.claim.n, s.sem[t.claim.r].q)
        [] t.do = "releaseKey" -> ReleaseKey(s, Spec(s, t.id).key)
        [] t.do = "withdraw" -> Withdraw(s, t.id, t.class)

RECURSIVE Turns(_)
Turns(s) == IF s.todo = <<>> THEN s ELSE Turns(Turn(s))
-----------------------------------------------------------------------------
Inapplicable(s) == [s EXCEPT !.err = "inapplicable"]

Start(s, id) ==
  CASE s.call[id].phase /= "idle" -> Inapplicable(s)
    [] s.call[id].phase = "idle" /\ s.stopping ->
         [s EXCEPT !.stats.rejected = @ + 1,
                   !.call[id].phase = "done", !.call[id].res = Result("stopping", Permanent, 0)]
    [] OTHER -> Push([s EXCEPT !.stats.admitted = @ + 1], <<Task("advance", id)>>)

Cancel(s, id) ==
  LET x == CancelExec(s.fixed, Spec(s, id), s.call[id].exec)
  IN  CASE s.call[id].phase = "parked" ->
             Push([s EXCEPT !.call[id].exec = x], <<Task("withdraw", id) @@ [class |-> "canceled"]>>)
        [] s.call[id].phase = "holding" -> Settle(s, id, x)
        [] OTHER -> Inapplicable(s)

Release(s, id) ==
  IF s.call[id].phase /= "holding" THEN Inapplicable(s)
  ELSE Settle(s, id, ReleaseExec(s.fixed, Spec(s, id), s.call[id].exec))

(* Such a waiter hands its units to a call that races the stop signal.     *)
HoldsWhileParked(s) == \E id \in DOMAIN s.call :
  s.call[id].phase = "parked" /\ (s.call[id].next > 0 \/ s.call[id].hasKey)

(* It withdraws every waiter, and has no say in who goes on if one did.    *)
Shutdown(s, expired) ==
  LET t == [s EXCEPT !.downs = Append(@, [returned |-> FALSE, class |-> "nil", either |-> FALSE,
                                          expired |-> expired])]
  IN  CASE s.stopping -> t
        [] ~s.stopping /\ HoldsWhileParked(s) -> [t EXCEPT !.err = "ambiguous"]
        [] OTHER -> Push([t EXCEPT !.stopping = TRUE],
                         [id \in DOMAIN s.call |-> Task("withdraw", id) @@ [class |-> "stopping"]])

(* Shutdown calls return once nothing admitted is live; v0.2 may answer an *)
(* expired one either way.                                                 *)
DrainShutdowns(s) ==
  LET drained == \A id \in DOMAIN s.call : s.call[id].phase \in {"idle", "done"}
      answer(d) == CASE d.returned \/ (~drained /\ ~d.expired) -> d
                     [] ~d.returned /\ drained ->
                          [d EXCEPT !.returned = TRUE, !.either = d.expired /\ ~s.fixed]
                     [] OTHER -> [d EXCEPT !.returned = TRUE, !.class = "canceled"]
  IN  [s EXCEPT !.downs = [i \in DOMAIN @ |-> answer(@[i])]]

Begin(s, st) == CASE st.kind = "start" -> Start(s, st.call)
                  [] st.kind = "release" -> Release(s, st.call)
                  [] st.kind = "cancel" -> Cancel(s, st.call)
                  [] st.kind = "shutdown" -> Shutdown(s, st.expired)

Apply(s, st) ==
  LET t == Turns(Begin([s EXCEPT !.root = st.call, !.active = {}, !.woken = 0], st))
      races == Cardinality(t.active) > 1 \/ (st.kind = "shutdown" /\ t.woken > 0)
  IN  CASE t.err /= "nil" -> t
        [] t.err = "nil" /\ races -> [t EXCEPT !.err = "ambiguous"]
        [] OTHER -> DrainShutdowns(t)

(* The first error of a sequence of steps, or none.                        *)
Check(fixed, sc, steps) ==
  FoldLeft(LAMBDA s, st : IF s.err = "nil" THEN Apply(s, st) ELSE s, New(fixed, sc), steps).err

(* Where what was seen departs from what the model says.                   *)
Differs(s, phases, results, stats, downs) ==
  \/ \E id \in DOMAIN s.call :
       \/ s.call[id].phase /= phases[id]
       \/ phases[id] = "done" /\ s.call[id].res /= results[id]
  \/ s.stats /= stats
  \/ Len(s.downs) /= Len(downs)
  \/ \E i \in DOMAIN s.downs :
       LET w == s.downs[i]  g == downs[i]
       IN  \/ w.returned /= g.returned
           \/ w.returned /\ w.class /= g.class /\ ~(w.either /\ g.class = "canceled")
           \/ g.lag /\ s.fixed
=============================================================================
