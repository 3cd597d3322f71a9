------------------------------- MODULE Engine -------------------------------
(***************************************************************************)
(* One run of the experiment engine (lab/doe): callers load a runtime, in  *)
(* a closed loop or from a bounded queue of arrivals; a window of the run  *)
(* is measured; then the runtime is shut down under load, the callers are  *)
(* stopped, and what they recorded is read.  The runtime is either release *)
(* that lab/impl adapts, "recon" (the root package) or "orig" (lab/v02):   *)
(* Do is the gate, the key and the budgets one by one, the attempts, and   *)
(* everything given back.  How a budget and a key are kept is the matter   *)
(* of Resource, KeyLocker and V02; here a call that waits may be granted   *)
(* what it waits for as soon as it fits, in any order, and what Shutdown   *)
(* closes one after the other may be found open or closed once it began.   *)
(* Time is a clock that ticks now and then; a rate, a random number or a   *)
(* duration decides only whether something happens, and the histograms are *)
(* left out.                                                               *)
(***************************************************************************)
EXTENDS Integers, Sequences, FiniteSets, FiniteSetsExt, Functions

CONSTANTS Clients,          \* their ids, from 0
          Workloads,        \* see EngineAssumption
          Shards,           \* 2 * GOMAXPROCS
          OpenQueue,        \* openQueue
          MaxClock, MaxCalls        \* bounds: of the clock, of all calls

(* What workload.go's validate asks of them.  busy: Service > 0; timeout:  *)
(* Timeout > 0; fail and cancel: FailRate and CancelRate > 0.              *)
ASSUME EngineAssumption ==
  /\ IsFiniteSet(Clients) /\ Clients /= {} /\ Clients \subseteq Nat
  /\ Shards \in Nat \ {0}
  /\ Workloads \subseteq [im : {"orig", "recon"}, open : BOOLEAN, resources : Nat \ {0}, capacity : Nat \ {0},
                        heavy : Nat, keys : Nat, reject : BOOLEAN, attempts : Nat, timeout : BOOLEAN,
                        busy : BOOLEAN, fail : BOOLEAN, cancel : BOOLEAN]
  /\ \A w \in Workloads : w.heavy <= w.capacity
  /\ MaxClock \in Nat

VARIABLES load,             \* the workload
          clock,
          run,              \* [pc, t, from, to, stop, stopping, drainErr]; to = 0 while open
          caller,           \* its slot and where it is; see Slot
          calls,            \* how many calls have begun
          open,             \* [pc, next, upto, queue, dropped]: the dispatcher
          mon,              \* the monitor: [inUse, holders, viol]
          rec               \* [all, ok, errs] of each shard

engVars == <<load, clock, run, caller, calls, open, mon, rec>>

Never == MaxClock + 1       \* math.MaxInt64
Min2(a, b) == IF a < b THEN a ELSE b
HeavyUnits == IF load.heavy > 0 THEN load.heavy ELSE IF load.capacity >= 2 THEN load.capacity \div 2 ELSE 1
ShardOf(c) == c % Min2(Cardinality(Clients), Shards)

(* A caller with the call it is in.  A call holds its key (0) and the      *)
(* budgets from 1, in the order in which it takes them: `next` is the first*)
(* that it does not hold.  ctx is "none" when it has no end.               *)
Slot == [pc |-> "loop", t0 |-> 0, t1 |-> 0, done |-> 0, units |-> 0, key |-> 0, ctx |-> "none",
         next |-> 1, n |-> 0, at |-> 0, err |-> "nil"]

Launch == [pc |-> IF load.open THEN "poll" ELSE "gone", next |-> 1, upto |-> 0, queue |-> <<>>, dropped |-> 0]

EngInit ==
  /\ load \in Workloads
  /\ clock = 1
  /\ run = [pc |-> "warmup", t |-> 0, from |-> Never, to |-> 0, stop |-> FALSE,
            stopping |-> FALSE, drainErr |-> FALSE]
  /\ caller = [c \in Clients |-> Slot]
  /\ calls = 0
  /\ open = Launch
  /\ mon = [inUse |-> [b \in 1..load.resources |-> 0], holders |-> [k \in 1..load.keys |-> 0], viol |-> 0]
  /\ rec = [s \in {ShardOf(c) : c \in Clients} |-> [all |-> 0, ok |-> 0, errs |-> 0]]

InWindow(t0, t1) == t0 >= run.from /\ (run.to = 0 \/ t1 < run.to)

Tick == /\ clock < MaxClock
        /\ clock' = clock + 1
        /\ UNCHANGED <<load, run, caller, calls, open, mon, rec>>

Is(c, l) == caller[c].pc = l
-----------------------------------------------------------------------------
(* The dispatcher looks at stop, reads the clock, and sends every arrival  *)
(* that is due by then before it looks again.                              *)
Poll == /\ open.pc = "poll"
        /\ open' = [open EXCEPT !.pc = IF run.stop THEN "gone" ELSE "now"]
        /\ UNCHANGED <<load, clock, run, caller, calls, mon, rec>>

ReadClock == /\ open.pc = "now"
             /\ open' = IF open.next <= clock THEN [open EXCEPT !.pc = "send", !.upto = clock]
                        ELSE [open EXCEPT !.pc = "poll"]
             /\ UNCHANGED <<load, clock, run, caller, calls, mon, rec>>

(* It never blocks: a full queue drops the arrival.                        *)
Dispatch ==
  /\ open.pc = "send"
  /\ LET full == Len(open.queue) = OpenQueue
     IN  \E gap \in 1..2 :
           open' = [open EXCEPT !.pc = IF open.next + gap <= open.upto THEN "send" ELSE "poll",
                                !.next = Min2(@ + gap, Never),
                                !.queue = IF full THEN @ ELSE Append(@, open.next),
                                !.dropped = IF full /\ InWindow(open.next, open.next) THEN @ + 1 ELSE @]
  /\ UNCHANGED <<load, clock, run, caller, calls, mon, rec>>

(* A caller leaves when it is stopped, or its queue is closed and empty    *)
(* (or its calls are spent, which is the bound).                           *)
Leave(c) == /\ Is(c, "loop")
            /\ IF load.open THEN open.pc = "gone" /\ (open.queue = <<>> \/ calls = MaxCalls) ELSE run.stop
            /\ caller' = [caller EXCEPT ![c].pc = "gone"]
            /\ UNCHANGED <<load, clock, run, calls, open, mon, rec>>

(* call: the slot is filled and Do begins, perhaps with a context that     *)
(* will end.                                                               *)
Call(c) ==
  /\ Is(c, "loop") /\ calls < MaxCalls
  /\ IF load.open THEN open.queue /= <<>> ELSE ~run.stop
  /\ \E k \in IF load.keys = 0 THEN {0} ELSE 1..load.keys, u \in {1, HeavyUnits},
        x \in {"none"} \cup (IF load.cancel THEN {"live"} ELSE {}) :
       caller' = [caller EXCEPT ![c] = [@ EXCEPT !.pc = "do", !.t0 = IF load.open THEN Head(open.queue) ELSE clock,
                                                 !.key = k, !.units = u, !.ctx = x, !.next = IF k = 0 THEN 1 ELSE 0]]
  /\ calls' = calls + 1
  /\ open' = IF load.open THEN [open EXCEPT !.queue = Tail(@)] ELSE open
  /\ UNCHANGED <<load, clock, run, mon, rec>>

(* The deadline of the caller's context.                                   *)
CtxEnds(c) == /\ caller[c].ctx = "live"
              /\ caller' = [caller EXCEPT ![c].ctx = "done"]
              /\ UNCHANGED <<load, clock, run, calls, open, mon, rec>>

Ctx(c) == caller[c].ctx = "done"
-----------------------------------------------------------------------------
Start(s) == IF s.key = 0 THEN 1 ELSE 0
HasKey(s) == s.key /= 0 /\ s.next > 0
HeldUnits(s, b) == IF b < s.next THEN s.units ELSE 0
Used(b) == SumFunction([c \in Clients |-> HeldUnits(caller[c], b)])

(* What a call would take next is free, and nobody is queued for it.       *)
Fits(c) ==
  LET s == caller[c]
  IN  IF s.next = 0 THEN \A d \in Clients : ~(HasKey(caller[d]) /\ caller[d].key = s.key)
      ELSE Used(s.next) + s.units <= load.capacity

Contended(c) == \E d \in Clients : /\ Is(d, "queued") /\ caller[d].next = caller[c].next
                                   /\ caller[c].next = 0 => caller[d].key = caller[c].key

AtOnce(c) == Fits(c) /\ ~Contended(c)

(* The frozen release waits for the key also under Reject.                 *)
Waits(c) == ~load.reject \/ (load.im = "orig" /\ caller[c].next = 0)

Goes(c, l) == /\ caller' = [caller EXCEPT ![c].pc = l]
              /\ UNCHANGED <<load, clock, run, calls, open, mon, rec>>

(* What was taken is given back, and err is what Do returns; "refused" is  *)
(* for the error that Refusal finds.                                       *)
Denied(c, err) == /\ caller' = [caller EXCEPT ![c].pc = "release", ![c].err = err]
                 /\ UNCHANGED <<load, clock, run, calls, open, mon, rec>>

Onward(next) == IF next > load.resources THEN "attempt" ELSE "admit"
Takes(c, l) == /\ caller' = [caller EXCEPT ![c].pc = l, ![c].next = @ + 1]
               /\ UNCHANGED <<load, clock, run, calls, open, mon, rec>>

(* The gate; the library goes on to look at the context, unless the call   *)
(* would neither queue nor take a key.                                     *)
Gate(c) ==
  /\ Is(c, "do")
  /\ caller' = IF run.stopping THEN [caller EXCEPT ![c].pc = "return", ![c].err = "stopping"]
               ELSE [caller EXCEPT ![c].pc = IF load.im = "recon" /\ (caller[c].key /= 0 \/ ~load.reject)
                                             THEN "check" ELSE "admit"]
  /\ UNCHANGED <<load, clock, run, calls, open, mon, rec>>

Alive(c) == Is(c, "check") /\ IF Ctx(c) THEN Denied(c, "deadline") ELSE Goes(c, "admit")

(* A call that passed the gate takes what is free though the runtime stops *)
(* (contract.md:240), or it is refused, or queued.  What may be refused    *)
(* once the runtime stops: what a wait would be for, anything that the     *)
(* frozen release would wait for, and under Reject any units, by the flag  *)
(* that closing a budget sets.                                             *)
Admit(c) ==
  /\ Is(c, "admit")
  /\ \/ /\ AtOnce(c)
        /\ load.im = "orig" /\ Waits(c) => ~Ctx(c)
        /\ Takes(c, Onward(caller[c].next + 1))
     \/ /\ \/ Waits(c) /\ (Ctx(c) \/ run.stopping) /\ (load.im = "orig" \/ ~AtOnce(c))
           \/ ~Waits(c) /\ ~AtOnce(c)
           \/ ~Waits(c) /\ load.im = "recon" /\ caller[c].next > 0 /\ run.stopping
        /\ Denied(c, "refused")
     \/ ~AtOnce(c) /\ Waits(c) /\ ~Ctx(c) /\ Goes(c, "queued")

(* Somebody else's release hands it over; a context that has ended by the  *)
(* time the caller runs turns it down.                                     *)
Handed(c) == Is(c, "queued") /\ Fits(c) /\ Takes(c, "woken")

Wake(c) == Is(c, "woken") /\ ~Ctx(c) /\ Goes(c, Onward(caller[c].next))

GiveUp(c) == /\ \/ (Is(c, "queued") \/ Is(c, "woken")) /\ Ctx(c)
                \/ run.stopping /\ (Is(c, "queued") \/ (Is(c, "woken") /\ load.im = "orig"))
             /\ Denied(c, "refused")

(* The attempt loop looks at the context before every attempt.             *)
Attempt(c) ==
  /\ Is(c, "attempt")
  /\ \/ Ctx(c) /\ Denied(c, "deadline")
     \/ /\ ~Ctx(c)
        /\ caller' = [caller EXCEPT ![c].pc = "enter", ![c].at = 1, ![c].n = @ + 1]
        /\ UNCHANGED <<load, clock, run, calls, open, mon, rec>>

(* enter and exit: one budget after the other, then the key.               *)
LastCount(c) == load.resources + (IF caller[c].key = 0 THEN 0 ELSE 1)
Count(c, sign) ==
  LET s == caller[c]
  IN  IF s.at > load.resources THEN [mon EXCEPT !.holders[s.key] = @ + sign]
      ELSE [mon EXCEPT !.inUse[s.at] = @ + sign * s.units]

Counts(c, l) == caller' = IF caller[c].at = LastCount(c) THEN [caller EXCEPT ![c].pc = l]
                          ELSE [caller EXCEPT ![c].at = @ + 1]

MonEnter(c) ==
  /\ Is(c, "enter")
  /\ LET m == Count(c, 1)
         over == (\E b \in DOMAIN m.inUse : m.inUse[b] > load.capacity /\ b = caller[c].at)
                 \/ (caller[c].at > load.resources /\ m.holders[caller[c].key] > 1)
     IN  mon' = [m EXCEPT !.viol = IF over THEN @ + 1 ELSE @]
  /\ Counts(c, "serve")
  /\ UNCHANGED <<load, clock, run, calls, open, rec>>

(* serve: its time, or the end of its context, which is that of the        *)
(* attempt's own timeout or the caller's; and perhaps a failure.           *)
Serve(c) ==
  /\ Is(c, "serve")
  /\ \E err \in {"nil"} \cup (IF load.fail THEN {"injected"} ELSE {})
               \cup (IF load.busy /\ (load.timeout \/ Ctx(c)) THEN {"deadline"} ELSE {}) :
       caller' = [caller EXCEPT ![c].pc = "exit", ![c].at = 1, ![c].err = err]
  /\ UNCHANGED <<load, clock, run, calls, open, mon, rec>>

\* Seeded fault: exit is not deferred, and not reached by a failure.
MonExit_NotDeferred(c) ==
  /\ Is(c, "exit")
  /\ mon' = IF caller[c].err = "nil" THEN Count(c, -1) ELSE mon
  /\ Counts(c, "ended")
  /\ UNCHANGED <<load, clock, run, calls, open, rec>>

MonExit(c) ==
  /\ Is(c, "exit")
  /\ mon' = Count(c, -1)
  /\ Counts(c, "ended")
  /\ UNCHANGED <<load, clock, run, calls, open, rec>>

(* Transient and Uncertain are repeated while attempts remain: an injected *)
(* failure, and a deadline of an attempt that had a timeout, by the library*)
(* only while the caller's context lives.                                  *)
Ended(c) ==
  /\ Is(c, "ended")
  /\ LET s == caller[c]
         late == s.err = "deadline" /\ load.timeout /\ (load.im = "orig" \/ ~Ctx(c))
         again == s.n < load.attempts /\ (s.err = "injected" \/ late)
     IN  Goes(c, IF again THEN "attempt" ELSE "release")

(* The claims and then the key are given back one by one; the error of a   *)
(* refusal is found after that, in the frozen release before the key is.   *)
Refusal(c) ==
  CASE load.im = "orig" -> IF run.stopping THEN "stopping" ELSE IF Waits(c) THEN "deadline" ELSE "overloaded"
    [] OTHER -> IF load.reject THEN "overloaded" ELSE IF Ctx(c) THEN "deadline" ELSE "stopping"

Due(c) == caller[c].err = "refused" /\ (caller[c].next = Start(caller[c]) \/ (load.im = "orig" /\ caller[c].next = 1))

Refuse(c) == Is(c, "release") /\ Due(c) /\ Denied(c, Refusal(c))

GiveBack(c) == /\ Is(c, "release") /\ caller[c].next > Start(caller[c]) /\ ~Due(c)
               /\ caller' = [caller EXCEPT ![c].next = @ - 1]
               /\ UNCHANGED <<load, clock, run, calls, open, mon, rec>>

Exit(c) == Is(c, "release") /\ caller[c].next = Start(caller[c]) /\ ~Due(c) /\ Goes(c, "return")

(* Do returned; what is in the window is recorded.                         *)
Returned(c) == /\ Is(c, "return")
               /\ caller' = [caller EXCEPT ![c].pc = "record", ![c].t1 = clock]
               /\ UNCHANGED <<load, clock, run, calls, open, mon, rec>>

(* One more call of a shard.                                               *)
Counted(sh, err) == [all |-> sh.all + 1, ok |-> sh.ok + (IF err = "nil" THEN 1 ELSE 0),
                     errs |-> sh.errs + (IF err = "nil" THEN 0 ELSE 1)]

Record(c) ==
  LET s == caller[c]
      in == InWindow(s.t0, s.t1)
  IN  /\ Is(c, "record")
      /\ caller' = [caller EXCEPT ![c] =
           [Slot EXCEPT !.pc = IF s.err = "stopping" THEN "gone" ELSE "loop",
                         !.done = IF in THEN s.done + 1 ELSE s.done]]
      /\ rec' = IF in THEN [rec EXCEPT ![ShardOf(c)] = Counted(@, s.err)] ELSE rec
      /\ UNCHANGED <<load, clock, run, calls, open, mon>>
-----------------------------------------------------------------------------
Go(r) == /\ run' = r
         /\ UNCHANGED <<load, clock, caller, calls, open, mon, rec>>

(* Run: the window opens after the warmup, and is closed by storing a time *)
(* that was read before.                                                   *)
OpenWindow == run.pc = "warmup" /\ Go([run EXCEPT !.pc = "measure", !.from = clock])
ReadTo == run.pc = "measure" /\ clock > run.from /\ Go([run EXCEPT !.pc = "closing", !.t = clock])
CloseWindow == run.pc = "closing" /\ Go([run EXCEPT !.pc = "shutdown", !.to = run.t])

(* shutdown: the drain, which may take too long, and then the callers.     *)
InFlight == {c \in Clients : caller[c].pc \notin {"loop", "do", "return", "record", "gone"}}

Shutdown == run.pc = "shutdown" /\ Go([run EXCEPT !.pc = "drain", !.stopping = TRUE])

Drained(late, busy) == (late \/ busy = {}) /\ Go([run EXCEPT !.pc = "wait", !.stop = TRUE, !.drainErr = late])

\* Seeded fault: the drain waits only for the calls whose handler runs.
Drain_Running ==
  /\ run.pc = "drain"
  /\ \E late \in BOOLEAN : Drained(late, {c \in Clients : caller[c].pc \in {"enter", "serve", "exit"}})

Drain == run.pc = "drain" /\ \E late \in BOOLEAN : Drained(late, InFlight)

Gone == open.pc = "gone" /\ \A c \in Clients : caller[c].pc = "gone"

\* Seeded fault: the callers are told to stop, and not waited for.
AwaitCallers_Not == run.pc = "wait" /\ \E hung \in BOOLEAN : Go([run EXCEPT !.pc = IF hung THEN "hung" ELSE "collect"])

(* Only what nobody writes any more is read; callers that hang are not.    *)
AwaitCallers == run.pc = "wait" /\ \E hung \in BOOLEAN :
          (hung \/ Gone) /\ Go([run EXCEPT !.pc = IF hung THEN "hung" ELSE "collect"])

EngNext ==
  \/ Tick \/ Poll \/ ReadClock \/ Dispatch
  \/ \E c \in Clients : \/ Leave(c) \/ Call(c) \/ CtxEnds(c) \/ Gate(c) \/ Alive(c) \/ Admit(c)
                         \/ Handed(c) \/ Wake(c) \/ GiveUp(c) \/ Attempt(c) \/ MonEnter(c) \/ Serve(c)
                         \/ MonExit(c) \/ Ended(c) \/ Refuse(c) \/ GiveBack(c) \/ Exit(c)
                         \/ Returned(c) \/ Record(c)
  \/ OpenWindow \/ ReadTo \/ CloseWindow \/ Shutdown \/ Drain \/ AwaitCallers

EngSpec == EngInit /\ [][EngNext]_engVars
-----------------------------------------------------------------------------
Total(f) == SumFunction([s \in DOMAIN rec |-> rec[s][f]])
Done == SumFunction([c \in Clients |-> caller[c].done])

(* The monitor of a sound runtime sees nothing: it counts no more than is  *)
(* granted, whatever the handlers come to (handler.go:28-31).  A drain that*)
(* did not time out left no call behind the gate, nor any of its counts    *)
(* (engine.go:103).  And when the records are read nobody writes them      *)
(* (engine.go:78): every caller is gone, what it held is back, and each    *)
(* call of the window is counted once, by its caller and by its shard, as  *)
(* a success or an error.                                                  *)
Quiet == /\ InFlight = {}
         /\ \A b \in DOMAIN mon.inUse : mon.inUse[b] = 0 /\ Used(b) = 0
         /\ \A k \in DOMAIN mon.holders : mon.holders[k] = 0

MeasurementSound ==
  /\ mon.viol = 0
  /\ \A b \in DOMAIN mon.inUse : 0 <= mon.inUse[b] /\ mon.inUse[b] <= Used(b)
  /\ \A k \in DOMAIN mon.holders :
       mon.holders[k] <= Cardinality({c \in Clients : HasKey(caller[c]) /\ caller[c].key = k})
  /\ run.pc \in {"wait", "hung", "collect"} /\ ~run.drainErr => Quiet
  /\ run.pc = "collect" => /\ Gone /\ Quiet
                           /\ Total("all") = Total("ok") + Total("errs") /\ Total("all") = Done
=============================================================================
