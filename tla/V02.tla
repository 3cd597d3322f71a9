-------------------------------- MODULE V02 --------------------------------
(***************************************************************************)
(* The previous release, kept in lab/v02 as the oracle of the laboratory:  *)
(* Do with its admission context and watcher goroutine, key entries that   *)
(* are reference counted, the attempt loop, the gate behind a lock and a   *)
(* WaitGroup.  It blocks in golang.org/x/sync/semaphore, which is modelled *)
(* from how it is used here.  Each call does Do once, with the script that *)
(* the rig (lab/workload/rig.go) plays as its handler.  What its callers   *)
(* do, and when, is left open in V02Spec; Rig.tla says which of it the rig *)
(* does, and when.                                                         *)
(*                                                                         *)
(* A step is one critical section, one atomic counter, one receive, or one *)
(* attempt.  A context derived from another ends with it.  A timeout that  *)
(* a handler waits for is a step of its own accord: the rig's clock moves  *)
(* when nothing else can.                                                  *)
(***************************************************************************)
EXTENDS Scripts

CONSTANTS Scenarios,    \* [size: capacity of each budget, calls: sequence of [op, key, precancel,
                        \* script]], op [effect, mode, listed, keyed, timed, attempts, on]
          NoKey         \* the empty key

(* What NewRuntime and NewOperation accept: distinct claims, each on a     *)
(* budget there is and of no more than it has.                             *)
IsScenario(s) ==
  /\ s.size \in Seq(Nat \ {0})
  /\ s.calls \in Seq([op : [effect : Effect, mode : {"Wait", "Reject"}, listed : Seq([r : Nat, n : Nat]),
                            keyed : BOOLEAN, timed : BOOLEAN, attempts : Nat, on : SUBSET Outcome],
                      key : STRING, precancel : BOOLEAN, script : Seq(Played)])
  /\ \A c \in DOMAIN s.calls : LET listed == s.calls[c].op.listed
                               IN  /\ \A i \in DOMAIN listed : /\ listed[i].r \in DOMAIN s.size
                                                                /\ listed[i].n \in 1..s.size[listed[i].r]
                                   /\ \A i, j \in DOMAIN listed : listed[i].r = listed[j].r => i = j

ASSUME ScenariosAssumption == \A s \in Scenarios : IsScenario(s)

VARIABLES
  sc,           \* the scenario
  accepting,    \* Runtime.accepting; waitCtx is cancelled where it is cleared
  wg,           \* the WaitGroup
  stats,        \* atomicStats
  sem,          \* [cur, q] of each semaphore: a budget's or a key entry's
  keys,         \* KeyLocker.keys: the entry of each key, 0 if it has none
  refs,         \* keyLock.refs; an entry has the number of the call that made it
  call,         \* what each call has: see Call
  down          \* the Shutdown calls, in order

sharedVars == <<accepting, wg, stats, sem, keys, refs>>
vars == <<sc, sharedVars, call, down>>

Calls == DOMAIN sc.calls
Budgets == DOMAIN sc.size
Sems == ({"budget"} \X Budgets) \cup ({"key"} \X Calls)
Key == {sc.calls[c].key : c \in Calls} \ {NoKey}

Idle == [pc |-> "idle", entry |-> 0, next |-> 0, granted |-> FALSE, watched |-> FALSE,
         done |-> FALSE, released |-> FALSE, n |-> 0, err |-> "nil",
         res |-> [class |-> "none", outcome |-> Success]]

Init == /\ sc \in Scenarios
        /\ accepting = TRUE
        /\ wg = 0
        /\ stats = NoStats
        /\ sem = [s \in Sems |-> [cur |-> 0, q |-> <<>>]]
        /\ keys = [k \in Key |-> 0]
        /\ refs = [c \in Calls |-> 0]
        /\ call = [c \in Calls |-> Idle]
        /\ down = <<>>
-----------------------------------------------------------------------------
Op(c) == sc.calls[c].op
pc(c) == call[c].pc

Claims(c) == Sorted(Op(c).listed)
Claim(c) == Claims(c)[call[c].next + 1]

Goto(c, l) == call' = [call EXCEPT ![c].pc = l]
Count(f) == stats' = [stats EXCEPT ![f] = @ + 1]

(* The admission context: the caller's, or the runtime stopping.           *)
Cancelled(c) == call[c].done \/ call[c].watched

(* semaphore.Weighted.  Acquire fails at once if the context has ended,    *)
(* takes what is free when nobody waits, or queues; whoever gives units    *)
(* back serves the head for as long as it fits; a waiter whose context has *)
(* ended fails, and puts back what it was granted meanwhile.               *)
Capacity(s) == IF s[1] = "key" THEN 1 ELSE sc.size[s[2]]
Free(s, n) == sem[s].q = <<>> /\ sem[s].cur + n <= Capacity(s)
Take(s, n) == sem' = [sem EXCEPT ![s].cur = @ + n]
Queue(s, c, n) == sem' = [sem EXCEPT ![s].q = Append(@, [id |-> c, n |-> n])]

(* notifyWaiters, with cur units in use, q queued and the calls as in f.   *)
Notify(s, cur, q, f) ==
  LET sum[i \in 0..Len(q)] == IF i = 0 THEN 0 ELSE sum[i-1] + q[i].n
      k == Max({i \in 0..Len(q) : i = 0 \/ cur + sum[i] <= Capacity(s)})
      served == {q[i].id : i \in 1..k}
  IN  /\ sem' = [sem EXCEPT ![s] = [cur |-> cur + sum[k], q |-> SubSeq(q, k+1, Len(q))]]
      /\ call' = [c \in Calls |-> IF c \in served THEN [f[c] EXCEPT !.granted = TRUE] ELSE f[c]]

GiveBack(s, n, f) == Notify(s, sem[s].cur - n, sem[s].q, f)

(* Of a queue that loses its head the next ones may fit; of one that loses *)
(* another, the head still does not.                                       *)
Abandon(s, c, n, f) ==
  IF call[c].granted THEN GiveBack(s, n, f)
  ELSE LET i == CHOOSE i \in DOMAIN sem[s].q : sem[s].q[i].id = c
       IN  Notify(s, sem[s].cur, RemoveAt(sem[s].q, i), f)
-----------------------------------------------------------------------------
(* begin, under the read lock.                                             *)
Begin(c) ==
  /\ pc(c) = "begin"
  /\ IF accepting
     THEN /\ wg' = wg + 1
          /\ Count("admitted")
          /\ Goto(c, IF Op(c).keyed /\ sc.calls[c].key /= NoKey THEN "key" ELSE "claims")
     ELSE /\ Count("rejected")
          /\ call' = [call EXCEPT ![c].pc = "returned", ![c].res = [class |-> "stopping", outcome |-> Permanent]]
          /\ UNCHANGED wg
  /\ UNCHANGED <<sc, accepting, sem, keys, refs, down>>

InFlight(c) == pc(c) \notin {"idle", "begin", "returned"}

(* The watcher goroutine of the call.                                      *)
Watch(c) ==
  /\ ~accepting /\ InFlight(c) /\ ~call[c].watched
  /\ call' = [call EXCEPT ![c].watched = TRUE]
  /\ UNCHANGED <<sc, sharedVars, down>>

(* KeyLocker.acquire: the entry, under its lock; then its semaphore.       *)
FindEntry(c) ==
  LET k == sc.calls[c].key
      l == IF keys[k] = 0 THEN c ELSE keys[k]
  IN  /\ pc(c) = "key"
      /\ keys' = [keys EXCEPT ![k] = l]
      /\ refs' = [refs EXCEPT ![l] = @ + 1]
      /\ call' = [call EXCEPT ![c].pc = "keySem", ![c].entry = l]
      /\ UNCHANGED <<sc, accepting, wg, stats, sem, down>>

AcquireKey(c) ==
  LET s == <<"key", call[c].entry>>
  IN  /\ pc(c) = "keySem"
      /\ CASE Cancelled(c) -> call' = [call EXCEPT ![c].pc = "keyGone", ![c].err = "canceled"] /\ UNCHANGED sem
           [] ~Cancelled(c) /\ Free(s, 1) -> Take(s, 1) /\ Goto(c, "claims")
           [] OTHER -> Queue(s, c, 1) /\ Goto(c, "keyWait")
      /\ UNCHANGED <<sc, accepting, wg, stats, keys, refs, down>>

AwaitKey(c) ==
  LET f == [call EXCEPT ![c].pc = "keyGone", ![c].err = "canceled", ![c].granted = FALSE]
  IN  /\ pc(c) = "keyWait"
      /\ IF Cancelled(c) THEN Abandon(<<"key", call[c].entry>>, c, 1, f)
         ELSE call[c].granted /\ call' = [call EXCEPT ![c].pc = "claims", ![c].granted = FALSE] /\ UNCHANGED sem
      /\ UNCHANGED <<sc, accepting, wg, stats, keys, refs, down>>

\* Seeded fault: an entry is deleted although calls still use it.
Unref_Early(c, to) ==
  LET k == sc.calls[c].key
      l == call[c].entry
  IN  /\ refs' = [refs EXCEPT ![l] = @ - 1]
      /\ keys' = [keys EXCEPT ![k] = 0]
      /\ call' = [call EXCEPT ![c].pc = to, ![c].entry = 0]
      /\ UNCHANGED <<sc, accepting, wg, stats, sem, down>>

(* KeyLocker.release: the last user deletes the entry.                     *)
Unref(c, to) ==
  LET k == sc.calls[c].key
      l == call[c].entry
  IN  /\ refs' = [refs EXCEPT ![l] = @ - 1]
      /\ keys' = IF refs[l] = 1 THEN [keys EXCEPT ![k] = 0] ELSE keys
      /\ call' = [call EXCEPT ![c].pc = to, ![c].entry = 0]
      /\ UNCHANGED <<sc, accepting, wg, stats, sem, down>>

KeyFailed(c) == pc(c) = "keyGone" /\ Unref(c, "judge")
Unlocked(c) == pc(c) = "unref" /\ Unref(c, "end")

(* One turn of acquireResources.                                           *)
AcquireClaim(c) ==
  LET s == <<"budget", Claim(c).r>>
      n == Claim(c).n
      reject == Op(c).mode = "Reject"
      fail(e) == call' = [call EXCEPT ![c].pc = "rollback", ![c].err = e] /\ UNCHANGED sem
  IN  /\ pc(c) = "claims"
      /\ call[c].next < Len(Claims(c))
      /\ CASE ~reject /\ Cancelled(c) -> fail("canceled")
           [] (reject \/ ~Cancelled(c)) /\ Free(s, n) ->
                Take(s, n) /\ call' = [call EXCEPT ![c].next = call[c].next + 1]
           [] reject /\ ~Free(s, n) -> fail("overloaded")
           [] ~reject /\ ~Cancelled(c) /\ ~Free(s, n) -> Queue(s, c, n) /\ Goto(c, "claimWait")
      /\ UNCHANGED <<sc, accepting, wg, stats, keys, refs, down>>

AwaitClaim(c) ==
  LET f == [call EXCEPT ![c].pc = "rollback", ![c].err = "canceled", ![c].granted = FALSE]
  IN  /\ pc(c) = "claimWait"
      /\ IF Cancelled(c) THEN Abandon(<<"budget", Claim(c).r>>, c, Claim(c).n, f)
         ELSE /\ call[c].granted
              /\ call' = [call EXCEPT ![c].pc = "claims", ![c].next = call[c].next + 1, ![c].granted = FALSE]
              /\ UNCHANGED sem
      /\ UNCHANGED <<sc, accepting, wg, stats, keys, refs, down>>

(* Executing, whether or not the handler ever runs.                        *)
CountStarted(c) ==
  /\ pc(c) = "claims"
  /\ call[c].next = Len(Claims(c))
  /\ Count("started")
  /\ Goto(c, "attempt")
  /\ UNCHANGED <<sc, accepting, wg, sem, keys, refs, down>>

(* releaseAll: the claims in reverse order, after a failure or the end.    *)
ReleaseClaim(c) ==
  LET cl == Claims(c)[call[c].next]
  IN  /\ pc(c) \in {"rollback", "release"}
      /\ call[c].next > 0
      /\ GiveBack(<<"budget", cl.r>>, cl.n, [call EXCEPT ![c].next = call[c].next - 1])
      /\ UNCHANGED <<sc, accepting, wg, stats, keys, refs, down>>

Released(c) ==
  /\ pc(c) \in {"rollback", "release"}
  /\ call[c].next = 0
  /\ IF call[c].err = "overloaded" THEN Count("rejected") ELSE UNCHANGED stats
  /\ Goto(c, IF pc(c) = "rollback" THEN "judge"
             ELSE IF call[c].entry /= 0 THEN "unlock" ELSE "end")
  /\ UNCHANGED <<sc, accepting, wg, sem, keys, refs, down>>

(* admissionError: a stopping runtime whatever the reason.                 *)
Judge(c) ==
  /\ pc(c) = "judge"
  /\ call' = [call EXCEPT
       ![c].pc = IF call[c].entry /= 0 THEN "unlock" ELSE "end",
       ![c].res = IF ~accepting THEN [class |-> "stopping", outcome |-> Permanent]
                  ELSE [class |-> call[c].err,
                        outcome |-> IF call[c].err = "overloaded" THEN Throttled ELSE Permanent]]
  /\ UNCHANGED <<sc, sharedVars, down>>

Unlock(c) ==
  /\ pc(c) = "unlock"
  /\ GiveBack(<<"key", call[c].entry>>, 1, [call EXCEPT ![c].pc = "unref"])
  /\ UNCHANGED <<sc, accepting, wg, stats, keys, refs, down>>

\* Seeded fault: a call that panics is not taken out of the WaitGroup.
End_SkipsPanic(c) ==
  /\ pc(c) = "end"
  /\ wg' = IF call[c].res.class = "panic" THEN wg ELSE wg - 1
  /\ Goto(c, "ended")
  /\ UNCHANGED <<sc, accepting, stats, sem, keys, refs, down>>

(* end: out of the WaitGroup first, counted as finished afterwards.        *)
End(c) ==
  /\ pc(c) = "end"
  /\ wg' = wg - 1
  /\ Goto(c, "ended")
  /\ UNCHANGED <<sc, accepting, stats, sem, keys, refs, down>>

Return(c) ==
  /\ pc(c) = "ended"
  /\ Count("finished")
  /\ Goto(c, "returned")
  /\ UNCHANGED <<sc, accepting, wg, sem, keys, refs, down>>
-----------------------------------------------------------------------------
Playing(c) == At(sc.calls[c].script, call[c].n)

(* execute, the top of its loop.                                           *)
Attempt(c) ==
  /\ pc(c) = "attempt"
  /\ IF call[c].done
     THEN /\ call' = [call EXCEPT ![c].pc = "release", ![c].res = [class |-> "canceled", outcome |-> Permanent]]
          /\ UNCHANGED stats
     ELSE /\ IF call[c].n > 0 THEN Count("retried") ELSE UNCHANGED stats
          /\ call' = [call EXCEPT ![c].pc = "handler", ![c].n = call[c].n + 1]
  /\ UNCHANGED <<sc, accepting, wg, sem, keys, refs, down>>

(* Whether the handler is still blocked.                                   *)
Blocked(c) == CASE Playing(c).block = "hold" -> ~call[c].released
                [] Playing(c).block = "holdCtx" -> ~call[c].released /\ ~call[c].done
                [] OTHER -> FALSE

(* classify and the retry gate, with expired the attempt's deadline; and   *)
(* finish, which promotes on its own terms.                                *)
Class(err, expired) == IF err.tag /= Untagged THEN err.tag
                       ELSE IF err.class = "deadline" /\ expired THEN Uncertain ELSE Permanent
MayRetry(o) == o \in {Transient, Uncertain}
IsSafeRetry(e, o) == o = Transient \/ (o = Uncertain /\ e /= "NonIdempotent")
FinalError(err, expired) ==
  [class |-> err.class,
   outcome |-> IF expired /\ err.tag = Untagged THEN Uncertain
               ELSE IF err.tag /= Untagged THEN err.tag ELSE Permanent]

(* The handler, from the end of its block, and what execute makes of it:   *)
(* by is what ended the block, if that was its context.                    *)
HandlerReturns(c, byCtx) ==
  LET a == Playing(c)
      expired == Op(c).timed /\ a.block = "deadline"
      done == call[c].done \/ a.cancel
      ctxErr == IF expired THEN "deadline" ELSE IF done THEN "canceled" ELSE "nil"
      err == CASE byCtx -> [class |-> "canceled", tag |-> Untagged]
               [] ~byCtx /\ a.ret = "plain" -> [class |-> "other", tag |-> Untagged]
               [] ~byCtx /\ a.ret = "tag" -> [class |-> "other", tag |-> FailTag(a.tag)]
               [] ~byCtx /\ a.ret = "ctxErr" -> [class |-> ctxErr, tag |-> Untagged]
               [] OTHER -> [class |-> a.ret, tag |-> Untagged]
      out == Class(err, expired)
      ends(r) == call' = [call EXCEPT ![c].pc = "release", ![c].done = done, ![c].res = r]
  IN  CASE err.class \in {"ok", "nil"} -> ends([class |-> "nil", outcome |-> Success])
        [] err.class = "panic" -> ends([class |-> "panic", outcome |-> Success])
        [] OTHER ->
             IF out \in Op(c).on /\ IsSafeRetry(Op(c).effect, out) /\ call[c].n < Op(c).attempts
             THEN call' = [call EXCEPT ![c].pc = "attempt", ![c].done = done]
             ELSE ends(FinalError(err, expired))

Handle(c) ==
  /\ pc(c) = "handler"
  /\ ~Blocked(c)
  /\ \/ (Playing(c).block = "holdCtx" => call[c].released) /\ HandlerReturns(c, FALSE)
     \/ Playing(c).block = "holdCtx" /\ call[c].done /\ HandlerReturns(c, TRUE)
  /\ UNCHANGED <<sc, sharedVars, down>>
-----------------------------------------------------------------------------
(* Shutdown: the lock; the goroutine that waits for the WaitGroup; the     *)
(* select, which takes either case that is ready; what the rig reads then. *)
Lock(i) ==
  /\ down[i].pc = "lock"
  /\ accepting' = FALSE
  /\ down' = [down EXCEPT ![i].pc = "wait"]
  /\ UNCHANGED <<sc, wg, stats, sem, keys, refs, call>>

Drained(i) ==
  /\ down[i].pc = "wait"
  /\ wg = 0
  /\ down' = [down EXCEPT ![i].pc = "drained"]
  /\ UNCHANGED <<sc, sharedVars, call>>

\* Seeded fault: Shutdown does not wait for the WaitGroup.
Select_Blind(i) ==
  /\ down[i].pc \in {"wait", "drained"}
  /\ \E class \in {"nil", "canceled"} :
       /\ class = "canceled" => down[i].expired
       /\ down' = [down EXCEPT ![i].pc = "stats", ![i].class = class]
  /\ UNCHANGED <<sc, sharedVars, call>>

Select(i) ==
  /\ down[i].pc \in {"wait", "drained"}
  /\ \E class \in {"nil", "canceled"} :
       /\ IF class = "nil" THEN down[i].pc = "drained" ELSE down[i].expired
       /\ down' = [down EXCEPT ![i].pc = "stats", ![i].class = class]
  /\ UNCHANGED <<sc, sharedVars, call>>

ReadStats(i) ==
  /\ down[i].pc = "stats"
  /\ down' = [down EXCEPT ![i].pc = "returned",
                          ![i].lag = down[i].class = "nil" /\ stats.finished < stats.admitted]
  /\ UNCHANGED <<sc, sharedVars, call>>

AcquiresKey(c) == FindEntry(c) \/ AcquireKey(c) \/ AwaitKey(c) \/ KeyFailed(c)
AcquiresResources(c) == AcquireClaim(c) \/ AwaitClaim(c) \/ CountStarted(c)
Ends(c) == ReleaseClaim(c) \/ Released(c) \/ Judge(c) \/ Unlock(c) \/ Unlocked(c)
           \/ End(c) \/ Return(c)
Do(c) == \/ Begin(c) \/ Watch(c) \/ AcquiresKey(c) \/ AcquiresResources(c)
         \/ Attempt(c) \/ Handle(c) \/ Ends(c)
Shutdown(i) == Lock(i) \/ Drained(i) \/ Select(i) \/ ReadStats(i)

Runs == (\E c \in Calls : Do(c)) \/ (\E i \in DOMAIN down : Shutdown(i))
-----------------------------------------------------------------------------
(* The callers: what they do to a call, whatever it is at, and to the      *)
(* runtime.  The rig closes by stopping the runtime and releasing everyone.*)
CallStarts(c) == /\ pc(c) = "idle"
                 /\ call' = [call EXCEPT ![c].pc = "begin", ![c].done = sc.calls[c].precancel]
                 /\ UNCHANGED <<sc, sharedVars, down>>

CallReleased(c) == call' = [call EXCEPT ![c].released = TRUE] /\ UNCHANGED <<sc, sharedVars, down>>

CallCancelled(c) == /\ pc(c) /= "idle"
                    /\ call' = [call EXCEPT ![c].done = TRUE]
                    /\ UNCHANGED <<sc, sharedVars, down>>

Down(expired) == Append(down, [pc |-> "lock", expired |-> expired, class |-> "none", lag |-> FALSE])

Stops(expired) == down' = Down(expired) /\ UNCHANGED <<sc, sharedVars, call>>

Closes == /\ down' = Down(FALSE)
          /\ call' = [c \in Calls |-> [call[c] EXCEPT !.released = TRUE]]
          /\ UNCHANGED <<sc, sharedVars>>

Callers == \/ \E c \in Calls : CallStarts(c) \/ CallReleased(c) \/ CallCancelled(c)
           \/ \E expired \in BOOLEAN : Stops(expired)
           \/ Closes

V02Spec == Init /\ [][Runs \/ Callers]_vars
-----------------------------------------------------------------------------
(* Units in use are those of the calls that hold them or were just granted *)
(* them, and never more than there are; a key entry lives exactly as long  *)
(* as some call counts on it, and one call at most is inside.              *)
UsesKey(c) == call[c].entry /= 0
InKey(c) == UsesKey(c) /\ ((call[c].granted /\ pc(c) = "keyWait")
                           \/ pc(c) \in {"claims", "claimWait", "rollback", "judge", "attempt",
                                         "handler", "release", "unlock"})
Held(c) == call[c].next + (IF pc(c) = "claimWait" /\ call[c].granted THEN 1 ELSE 0)
UnitsOf(c, b) == SumFunction([i \in DOMAIN Claims(c) |->
                   IF i <= Held(c) /\ Claims(c)[i].r = b THEN Claims(c)[i].n ELSE 0])
BudgetsAndKeysExact ==
  /\ \A b \in Budgets : LET s == sem[<<"budget", b>>]
                         IN  s.cur = SumFunction([c \in Calls |-> UnitsOf(c, b)]) /\ s.cur <= sc.size[b]
  /\ \A l \in Calls : /\ refs[l] = Cardinality({c \in Calls : call[c].entry = l})
                      /\ sem[<<"key", l>>].cur = Cardinality({c \in Calls : call[c].entry = l /\ InKey(c)})
                      /\ sem[<<"key", l>>].cur <= 1
  /\ \A c \in Calls : UsesKey(c) => keys[sc.calls[c].key] = call[c].entry
  /\ \A k \in Key : keys[k] /= 0 => refs[keys[k]] > 0

(* When Shutdown returns nil no call is left that may still run a handler, *)
(* hold a unit or a key: at most it has yet to be counted as finished.     *)
NilMeansAtRest ==
  \A i \in DOMAIN down : down[i].class = "nil" => \A c \in Calls : pc(c) \in {"idle", "begin", "ended", "returned"}
=============================================================================
