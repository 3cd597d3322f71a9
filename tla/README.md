# HertaSDK in TLA+

HertaSDK is a Go library that decides whether, when and how often a call of an
operation may run: it admits calls against named budgets and keys, runs their
handlers with a retry policy that knows about side effects, and shuts down
without losing a call. Everything it does is small, and nearly all of it is
concurrent: every call of `Do` runs on its caller's goroutine, there is no
scheduler and no background goroutine, and a call is moved on by whoever
releases what it waits for.

This directory models that core, checks it with TLC, proves its safety with
TLAPS for every number of calls, and relates each part of the implementation to the reference model the
repository keeps in `lab/model`. It also models the laboratory in `lab/`: the
previous release, the rig that compares releases with the reference model, the
scenario generator and minimizer, the mutation tester and the experiment engine;
what is safe of the previous release, the constructors, the mutation tester and the
engine is proved as well.

## The system and its parts

A call of `Operation.Do` passes, in this order:

    gate (runtime.go) -> key (keys.go) -> budgets in name order (resource.go)
       -> attempt loop (attempt.go) -> budgets back in reverse, key back -> gate

| part | source | state | operations |
|---|---|---|---|
| budget | `resource.go`, `waiter.go` | `cur`, queue, `closed`, the `full` flag read without the lock; per waiter a state and a one-slot channel | `tryAcquire`, `acquire`, `leave`, `release`, `grant`, `close` |
| key space | `keys.go`, `waiter.go` | map from held keys to entries, a queue per entry, a pool of entries shared by all runtimes | `lock`, `leave`, `unlock`, `handOff`, `close` |
| gate | `runtime.go` | one word: stopping bit, drained bit, count of calls in flight; the `done` channel; five counters | `enter`, `exit`, `leave`, `markDrained`, `Shutdown`, `Stats` |
| attempt loop | `attempt.go`, `outcome.go`, `errors.go` | attempt number, the attempt's own context, the verdict on its error | `run`, `attempt`, `classify`, `failed` |
| admission | `operation.go`, `errors.go` | the claims a call has, its key | `Do`, `admit`, `refused`, `release` |
| construction | `validate.go`, `operation.go`, `policy.go`, the same in `lab/v02`, `lab/model/validate.go`, `lab/impl/recon.go` | a private copy of the policy | `NewRuntime`, `NewOperation`, `Classify` |
| reference model | `lab/model` | the same system with one atomic step per command | `Sem`, `Keys`, `Exec`, `System.Apply`, `Check` |
| previous release | `lab/v02` | the gate behind a lock and a `WaitGroup`, semaphores of `golang.org/x/sync`, key entries with reference counts, a watcher goroutine per waiting call | `Do`, `begin`, `end`, `Shutdown`, `Stats` |
| rig | `lab/workload/rig.go`, `replay.go` | a release and the reference, step by step in lockstep | `Rig`, `Step`, `Close`, `Replay` |
| generator | `lab/model/gen.go`, `minimize.go` | a scenario | `Generate`, `Minimize` |
| mutation tester | `lab/mutate` | a report on disk, workspaces, a pool of workers | enumeration, `Run`, `Resume`, `Triage` |
| experiment engine | `lab/doe/engine.go`, `driver.go`, `handler.go`, ... | callers, a bounded queue of arrivals, a monitor, sharded records, a window | `Run` |

The parts of the library interact through shared memory only: mutexes (one per
budget, one for all keys), one atomic word (the gate), one atomic flag per
budget, and one channel per waiter that carries the single wake-up of it.
Contexts, the caller's and Shutdown's, end at any moment, from outside. The
laboratory drives the library through its public interface; its own parts meet
in files (a saved report) and channels (queues of arrivals, pools of workers).

What is hard here, and what each part must therefore guarantee:

- **Wake-ups racing withdrawals.** A grant, a cancellation and the shutdown may
  meet at one waiter. Units must be conserved, a wake-up must not be lost, the
  receive that `leave` performs *with the lock held* must not block.
- **State cached outside the lock.** `full` must be exact whenever the lock is
  free.
- **Recycled entries.** A key entry that goes back to the pool may come out for
  another key while calls still point to it.
- **A lock-free drain.** A refused call bumps the very count the drain waits
  for; `done` must be closed once, by whoever brings the word back.
- **Two clocks.** An attempt has its own deadline and its caller has another
  context. Taking one for the other repeats what must not be repeated, or hides
  that an attempt has an unknown fate.
- **Order that must not matter.** A Go map has no order, goroutines have no
  schedule: the error a constructor reports, and where a scenario settles, must
  depend on neither.
- **Verdicts that outlive what they were about.** The mutation tester saves,
  resumes, is interrupted, dies, and works in directories that were used before,
  while somebody edits the sources.
- **Measuring a moving thing.** The engine shuts the runtime down while calls are
  waiting, running and being given back, and reads records that callers may still
  write, unless it waits for all of them to go.
- **Holding and waiting.** A call holds a key and earlier budgets while it waits
  for later ones; only the global order of claims prevents deadlock.

`PROJECT.json` lists each of these at the line where it bites, with the
properties that would show it going wrong.

## Modules

| module | models | at which grain |
|---|---|---|
| `Lemmas` | facts about sequences, queues, maxima and sums that several proofs need | |
| `Sem` | the reference semaphore (`lab/model/sem.go`): what a budget promises | one step per operation with all its grants |
| `Resource` | a budget with its waiters | one step per critical section, except that each grant of `grant` and each half of `close` is a step; the load of `full`, the receive of a wake-up and giving up are steps without the lock |
| `ResourceSem` | the refinement mapping from `Resource` to `Sem` | |
| `ResourceProofs` | theorems about `Resource`, among them that it implements `Sem` | |
| `Keys` | the reference locker (`lab/model/keys.go`): what the key space promises | one step per operation |
| `KeyLocker` | the key space with its entries and pool, and the mapping to `Keys` | one step per critical section |
| `KeyLockerProofs` | theorems about `KeyLocker`, among them that it implements `Keys` | |
| `Lifecycle` | what the gate promises (`System.start`, `shutdown`, `drainShutdowns` of `lab/model/system.go`) | open, stopping, drained |
| `Gate` | the gate word, `done`, the counters, several Shutdowns, `Stats`, and the mapping to `Lifecycle` | one step per atomic access |
| `GateProofs` | theorems about `Gate`, among them that it implements `Lifecycle` | |
| `Outcomes` | outcomes, effects, the classifier, the retry set | operators |
| `Exec` | the reference retry loop (`lab/model/retry.go`, `Rules.Fixed`) | one step per attempt |
| `Attempt` | the attempt loop, and the mapping to `Exec` | one step per look at a context |
| `AttemptProofs` | theorems about `Attempt`, among them that it implements `Exec` | |
| `Herta` | `Do`, `admit`, `refused`, `release`, `Shutdown` over all of it | one step per operation of a component |
| `HertaSem` | the mapping from any one budget of `Herta`, `Watched`, to `Sem` | |
| `HertaProofs` | invariants of `Herta` as theorems, and that it keeps what `Lifecycle`, `Keys` and `Sem` promise | |
| `Construction` | both constructors of both releases on the same input, and the reference's prediction; the caller changes its policy afterwards | one step per check, one per entry of a map |
| `Scripts` | what a scenario says of its calls | operators |
| `System` | the reference's `Apply`, under the rules of either release, with the steps it calls ambiguous | operators: a state and a step in, a state out |
| `V02` | the previous release; the semaphore of `golang.org/x/sync` and `sync.WaitGroup` as `lab/v02` uses them (external) | one step per critical section, counter, receive or attempt |
| `V02Proofs` | theorems about `V02`, under callers that do anything at any time (`V02Spec`) | |
| `Rig` | the rig: a step of the scenario once everything is blocked, `V02` and `System` side by side, `Close` | one step per command |
| `Shrink` | `Generate` and `Minimize` | one step per draw, one per step tried |
| `Generate` | the mutants of a file and their keys | operators over a file that grows |
| `Mutation` | a run of the mutation tester, its report, resume, triage, edits and crashes | one step per build, per test stage, per read or write of a file |
| `Engine` | one experiment: closed and open loop, dispatcher, monitor, recorder, window, drain; `Do` of either release, claim by claim | one step per access to what is shared, one per key or budget taken or given back |
| `LabProofs` | theorems about `Mutation`, `Construction`, `Engine` and `Generate` | |
| `MC*` | instances for TLC; `MCArguments` and `MCFates` hold inputs, `MCRig` the scenarios | |

The composition is by refinement. `Resource`, `KeyLocker` and `Gate` are checked,
lock section by lock section, to implement `Sem`, `Keys` and `Lifecycle`. `Herta`
therefore uses each component at the grain of its specification, one step per
operation, which keeps three calls over a key and two budgets within reach. It is
checked against the same three specifications (`KeepsGateAndKeys`, `KeepsBudget`):
what it assumes a component does is what the component was shown to do. Both halves
of this argument are theorems, for the gate, the key space and every budget.

`Rig` composes differently: `V02` runs lock section by lock section, `System`
answers at once, and they are compared whenever nothing of `V02` can move
(`Settled == ~ENABLED Runs`, which is what `synctest.Wait` waits for). So what
the reference predicts is shown for every schedule of the previous release, and
for every order of the scenario's steps. `Shrink` uses `System` to say what
replays, under the rules of both releases, as the code does. The remaining
modules of the laboratory share nothing; `MCLab` puts them side by side, a
variable `part` saying which of them a behaviour is of.

### How state and actions correspond

- *Mutexes.* A critical section that only its own goroutine can observe is one
  step. In `Resource` the loop of `grant` is not: every waiter it wakes may run at
  once, so `lock` says which section is under way, and each grant is a step
  (`GrantHead`) until the section ends (`GrantEnds`). Likewise `close`
  (`CloseStarts`, `CloseWithdraws`, `CloseEnds`): a `Reject` call may load
  `full` in between.
- *A parked waiter.* `state` is the waiter's field, `ready` the content of its
  channel. `park` has two outcomes, `TakeToken` and `GiveUp`; which of them a
  `select` with both cases ready takes is a free choice. A caller that gave up
  then settles in `leave` under the lock: still queued, granted in the meantime,
  or withdrawn in the meantime.
- *Contexts* are one bit per call that ends at any time; in `Attempt`, where it
  matters how they end, a caller's context is live, cancelled or past its
  deadline, and the attempt's context learns of it in a later step.
- *The gate word* is split into its three fields, always accessed together.
  `history` variables (`idleAtStop`, `own`) record what a property compares with
  and are read by no guard.
- *The handler* is a choice: it succeeds, fails with any error, panics, or (where
  fairness matters) never returns.
- *The caller's memory.* `Construction` keeps the policy as it was passed and as
  it is now; the steps of the constructor read the latter, the caller may change
  it as soon as the constructor has returned.
- *A map* is iterated by steps that take any entry not yet seen.
- *The bubble.* In `Rig` a timeout that a handler waits for is a step of its own
  accord; the rig acts only once no goroutine can move, timers included.
- *Tests* of a mutant come to what `Fate` says of it in a tree; what the tester
  knows is only the exit of a command, which an interrupt cuts short, a deadline
  ends, or a flake spoils.
- *A call in `Engine`* passes the gate, looks at its context, takes its key and its
  budgets one after the other, attempts, and gives everything back one after the
  other, in the order of `operation.go` and `attempt.go`, or of `lab/v02/operation.go`
  where that differs: it waits for a key under Reject too, it looks at the context
  before it takes what is free, and it finds the error of a refusal while it still
  holds its key. How a budget or a key is kept is in `Resource`, `KeyLocker` and
  `V02`; in `Engine` the waiters of one budget may be granted in any order, each as
  soon as it fits, and what Shutdown closes one after the other (or the watcher of a
  call notices later) may be found open or closed from the stop on. So a call behind
  the gate still gets what is free, and may queue, be withdrawn or be refused. That
  allows everything the code does and more.
- *Time in `Engine`*: the dispatcher looks at `stop`, then sends every arrival that is
  due before it looks again. Its first arrival is due when the run begins.
- *Random draws, rates and times* are choices.
- *The intrusive list* of `waiter.go` is a sequence; the `container` pointers are
  not modelled yet.
- *Definitions with a suffix* (`Sync_Sticky`, `Leave_RefusedNoMark`, ...) are seeded
  faults: variants of the definition they precede, as a plausible bug would make
  it. No specification uses one; they exist to show that each property can fail
  for a reason in the code. `PROJECT.json` pairs each property with one.

## What is checked

| run | instance | what it shows |
|---|---|---|
| `resource` | 3 calls, 2 units, every assignment of weights | units are conserved, no wake-up is lost, `full` is exact, the token of a waiter is there when it must be; the budget implements `Sem`, so it is FIFO, nobody overtakes a queue and a Reject call is refused only for cause; a call that wants the whole budget is not starved by light ones if handlers return, and cancelled or withdrawn waiters leave even if none does |
| `resource_amendment4` | 2 calls, 1 unit | *violation*, see below |
| `keylocker` | 3 calls, 2 keys, 3 entries | mutual exclusion, an entry lives exactly while its key is held, no pointer to a retired or reused entry, no receive that blocks; implements `Keys`, so the hand-off is FIFO; the same liveness as for budgets |
| `gate` | 2 callers that call repeatedly, 2 Shutdowns, 1 reader, 1 admission | `done` is closed once and only with nothing admitted in flight, nil Shutdowns see every call finished, snapshots are ordered; implements `Lifecycle`; a stopping runtime is drained once refused calls stop coming |
| `gate_idle`, `gate_storm` | as small as shows them | *violations*, see below |
| `attempt` | every accepted policy of up to 3 attempts, 7 tags in and out of range | only what may be repeated is repeated, an attempt of unknown fate is always reported as such and no other is, no context leaks; implements `Exec`, counters included |
| `herta` | 3 calls, 2 budgets of 1 and 2 units, 1 key, 3 operations | budgets count exactly what calls have on every path, a drained runtime is at rest, the shutdown is reported only when there is one; the composition keeps the promises of the gate, the keys and a budget |
| `herta_live` | 2 calls, otherwise the same | every call returns if handlers return; Shutdown wakes every waiter even if none does |
| `replay` | 21 scenarios of up to 3 calls and 2 budgets, every order of up to 5 steps, one Shutdown, and a `Close` from anywhere | the previous release settles where the reference predicts, whatever the schedule, wherever the reference does not call the step ambiguous; its budgets and reference-counted key entries are exact; nil from its Shutdown means at rest; after `Close` nothing is left and the counters balance |
| `lab` | five independent instances, below | what the rest of the laboratory says can be relied on |
| `mutate_resume` | the mutants of `lab`, and nobody edits what is being copied | *violation*, see below |

`lab` asks, of each part that runs alone, the one question it stands or falls by:

- `AsPredicted`, `LowestDecides`, `SnapshotKept`: both releases accept or refuse
  as the reference predicts, in any order of the map; of several bad outcomes
  this release names the lowest; nothing the caller does to its policy later reaches
  the operation.
- `ReproductionMinimal`: every generated scenario replays, a minimized one still
  fails and is 1-minimal, although steps may fail only together.
- `KeysIdentify`: no two mutants of a file have one key, and the mutants of
  a function keep their keys whatever the other functions of the file are.
- `VerdictsEarned`: no verdict is saved that the tests did not give of that
  version of that file.
- `MeasurementSound`: under either release the monitor sees nothing and counts no
  more than is granted; a drain in time leaves no call behind the gate, whatever
  was still granted while it drained; and the records are read when nobody writes
  them, complete.

### Bounds, and why they are enough

The safety properties of `Resource`, `KeyLocker`, `Gate`, `Attempt` and `Herta` and
their refinements, and those of `V02`, `Construction`, `Mutation`, `Generate` and
`Engine`, are theorems without bounds; there the runs show that the interesting cases
happen and that a fault is noticed. For liveness and for the rest of the laboratory
(`Rig`, `System`, `Shrink`) the bounds are all there is.

- Three calls on a budget let one hold and two wait behind it, or one hold, one
  wait and one arrive: the grant loop, the head leaving in front of a lighter
  waiter, and a newcomer against a queue all occur. With two units, weights 1 and
  2 give heavy and light claims; all assignments are initial states.
- Two keys and three entries: an idle key may get back its own entry, the other
  key's, or a fresh one.
- Callers call again and again, so `MaxAdmitted` bounds the calls admitted in a
  behaviour of the gate; calls refused are unbounded. One admitted call, one
  refused and two Shutdowns already race for the drain. `Wrap` is the width of the rejected counter (2^64
  in the code), which nothing compares with anything. The in-flight count is never
  above the number of callers, so it cannot reach the flag bits (`CountExact`).
- Three attempts are a first, a middle and a last one. The tags include one below
  zero, one in the range of the byte that is no outcome, and every outcome.
- In `Herta` two operations list the two budgets in opposite orders, which is the
  least that deadlocks without the sort; a Reject operation has calls with and
  without a key. Calls refused at the gate take nothing and are only in `Gate`;
  one Shutdown, whose context does not end, since several are in `Gate`. `Watched` is the budget that two calls can queue for. Callers
  are symmetric in `herta`; no run with liveness uses symmetry.
- `MCRig`: the scenarios are weights on one budget with a Reject call, one key in
  front of one budget, budgets listed in opposite orders, a served waiter that
  serves the next, attempts that fail, cancel and panic, and attempts that outlast
  their timeout and then return each kind of thing. `MaxSteps` = 5 starts three
  calls and leaves two steps to release, cancel or shut down; `Close` adds the rest.
- `MCArguments`: every subset of four outcomes, one of them out of range, as
  `Retry.On`, with every effect; requirements and capacities with each defect
  alone and two together.
- `Shrink`: 3 steps, 1 budget of up to 2 units, a pool of 3 calls, every set of
  steps as the failure with at most one dependency between steps. Three is the
  least at which a step can be dropped only after a later pass dropped another.
- `Generate`: two functions, up to 3 statements of the kinds the operators act on.
- `Mutation`: two files of two versions, a mutant in each, two workers, two
  stages, a run and its resume. `MaxFlakes` is 1 and the trees' own tests pass, so
  the baseline does not fail for good; a build does not flake.
- `Engine`: two callers that begin two calls in all, under five workloads: the
  library under Reject with two budgets, where one call's part of its claim refuses
  another; under Wait with two full budgets and contexts that end; from the open
  loop (a queue of one) with a key, timeouts and a second attempt; and the frozen
  release with keys, for which it waits, and units, for which it does not, and under
  Wait with failures and a second attempt. Two calls are enough to hold and to wait,
  to be refused, and to be behind the gate on either side of the stop. A clock of two
  values separates before the window from within it, and the window from its end.

### Fairness

A goroutine that can run does run (weak fairness of each call's own steps). In
`Resource`, where a long critical section can be under way whenever a goroutine
looks, taking the lock needs strong fairness: Go's `sync.Mutex` hands the lock to
a waiter that has waited for a millisecond. That handlers return is not the
library's to guarantee, so it is a hypothesis of the properties that need it
(`HandlersReturn`, `HoldersUnlock`), and the properties that must hold without it
(`WaitersLeave`, a part of `WaitersProceed`, and `ShutdownWakesWaiters`) are
checked without it. In `Gate` the end of a handler is the step `Finish`, which
is fair. Nobody has to call, to cancel, or to shut down. `DrainCompletes` assumes
that refused calls stop coming; `gate_storm` shows why it must. The modules of
the laboratory state no fairness and no liveness: a rig that waits for the bubble to
settle, and a command that is given a deadline, leave nothing to a schedule.

Deadlock is checked in the runs of `Resource`, `KeyLocker`, `Gate` and `Herta`. A
drained `Herta` has one step left, the refusal of further calls. It is off in
`attempt`, which follows one call to its end, and in `replay`, `lab` and
`mutate_resume`, which end with the scenario, the reproduction, the last run and
the experiment. A deadlock of the previous release is a violation of `CloseBalances`.

## What is proved

Everything the runs check of safety of the library itself, `Resource`,
`KeyLocker`, `Gate`, `Attempt` and `Herta`: the invariants, the action property and
all refinements, for every value of the constants. `TypeOK` stands in each of these
arguments and is proved rather than checked by a run. Of the laboratory, what is
checked of the previous release by itself, of both constructors, of the mutation
tester and of the experiment engine.

### Budgets: `ResourceProofs`

For every finite set of callers and every positive size (`CallersAssumption`,
`SizeAssumption`).

- `TypeCorrect`, `UnitsConserved`, `NeverExceeded`, `QueueIsExact`,
  `WaitersFollowProtocol`. Their conjunction is the inductive invariant. None is
  inductive alone: conservation counts units as pairs (owner, unit), so a step that
  adds or removes an owner changes the count by its weight, which needs the owner
  not to be one already, which is what the queue (its members wait, each once) and
  the waiter protocol (who waits, who has a verdict) say. Capacity is needed because
  a grant is conditional on it.
- `NoWakeupIsLost`, `FullIsExact`. Both speak of the moments when the lock is free
  and are broken in between, by the loop of `grant`. The strengthening is
  `GrantsLocked`: whoever is in the loop holds the lock, and is alone there. A step
  that leaves the lock free then either changed nothing, or ended with `sync`, or
  left at the head somebody who was blocked already, in a budget no emptier.
- `ResourceImplementsSem`. The mapping takes an operation to happen as it takes the
  lock: while the loop runs, `Sem` has already served the `Pending` waiters that the
  loop is going to serve, and while `close` runs, `Sem`'s queue is already empty. A
  turn of the loop is a stutter because serving the head leaves one waiter fewer to
  serve and the same sum (`ServedShift`); the end of the loop is one because nobody
  is left to serve (`ServedNone`); the steps that open the loop are `Sem`'s `Grant`
  (`Opens`).

### Key space: `KeyLockerProofs`

For all sets of callers, keys and entries, finite or not (`NoneAssumption`: the
absent entry is none of them).

- `KeysExclude`, `EntriesStaySound`, `TokenIsReady`. The inductive invariant is
  `TypeOK`, `CallerProtocol` (what a caller's place in the code says of its waiter),
  mutual exclusion and the four parts of `EntriesSound`. A hand-off keeps mutual
  exclusion because the queue of an entry holds only callers that want its key; a
  retired entry is clean because its owner was the only one; a caller joins the
  queue of its own key because a mapped entry has an owner.
- `KeyLockerImplementsKeys`: step by step, under that invariant.

### Gate: `GateProofs`

For every finite set of callers, every set of Shutdowns and of readers, and every
width of the counter (`FiniteAssumption`, `BoundsAssumption`).

- `TypeCorrect`, `CountIsExact`, `DoneIsClosedOnce`, `DrainedStaysQuiet`,
  `NilSawAllFinished`, `SnapshotsAreOrdered`. The strengthening: `done` and every
  process about to close it imply the drained bit (so the swap, which fails on that
  bit, elects one closer); the admitted calls not yet finished number
  `admitted - finished`, and the started counter plus the calls still in admission
  never exceed `admitted` (so the order of reading is what keeps a snapshot
  sensible); a snapshot under way is bounded by the counters it has still to read. A
  swap succeeds only on count zero, and an exact count of zero means an empty set of
  calls in flight, which is the one place the finiteness of `Callers` matters.
- `GateImplementsLifecycle`: the step that drains is the close of `done`, by whichever
  process won the swap of the drained bit; the swap found nothing admitted in flight
  (`CountIsExact`), and nothing is admitted after it.

### Attempt loop: `AttemptProofs`

For every set of policies, whatever they request and however many attempts they
allow, and every set of integer tags but the one that stands for an untagged error
(`PoliciesAssumption`, `TagsAssumption`).

- `UnknownFateIsReported`, `OnlyOwnTimerPromotes`, `ContextsAreReleased`. The
  invariant (`TimerSeen`, `Reported`) follows the attempt's own timer through the two
  looks that `attempt` takes, at the attempt's context and then at the caller's: each
  step between them says what a timer that fired, or a caller that left, can still
  look like.
- `RepeatsAreSafe`, an action property, from the same invariant.
- `AttemptImplementsExec`: the counters have counted every attempt but the one that
  is about to begin (`Counted`), which is what ties them to those of `Exec`.

### Composition: `HertaProofs`

For every finite set of callers, all sets of keys, budgets and sizes, and every set
of operations that `NewOperation` accepts (`CallersAssumption`,
`BudgetsAssumption`, `OpsAssumption`). Budgets are integers, which stand for names
in their order.

- `TypesHold`, `BudgetsStayExact`, `StoppingIsJustified`, `DrainedIsAtRest`. The
  inductive invariant has seven parts: types; `Calls`, what a call has at each
  place of `Do`; `Stopped`, how far Shutdown is and what only it does; `Excused`,
  that a refusal on its way to its error has a reason; `KeysRight`, that a key is
  with the one call that says it has it, or free with nobody waiting; `QueuesRight`,
  that the calls queued for a budget are those that wait for it, each once; and
  `BudgetsExact`, that the units in use are the sum of what the calls have. The last
  rests on the queues, since a budget that serves a prefix of its queue grows by what
  the callers in it claim, each counted once (`SumOfPrefix`), and on `Calls`,
  since a call that gives back returns exactly the claims it had got to.
  `DrainedIsAtRest` follows: no call is live, so every sum is over zeros.
- `HertaKeepsGateAndKeys`, `HertaKeepsBudgets`: the composition is, for the gate,
  the key space and any one budget (`WatchedAssumption`), what `Lifecycle`, `Keys`
  and `Sem` allow, whatever a call does with the other parts in the same step.

### Mutation tester: `LabProofs`

For every set of mutants and trees, whatever the tests make of a mutant in each tree,
and any number of workers, versions, stages, runs and flaky stages.
`SettingAssumption` states what is given: IDs count from 1, as do the workers and the stages, and whether a
mutant is there at all depends on its own file.

- `VerdictsAreEarned`. The inductive invariant has six parts: types; `Good`, that every
  verdict of the saved report is earned; `Planned`, that a run's mutants exist in the
  sources it loaded and that what it does not judge again stands in the earlier report,
  of the same version of its file; `Clean`, that nothing but the mutant being judged
  is in a workspace that was copied, whatever an earlier run left in it; `Judging`, that
  a mutant at a stage would not have failed an earlier one, unless the run was
  interrupted; `Judgements`, that every mutant to be judged is left, with a worker, or
  has a verdict that is earned, again unless the run was interrupted, in which case
  nothing is saved. A kill that stands does not depend on how many stages there were
  when it was given, so the merged report is earned under the present ones.

### Previous release: `V02Proofs`

For every set of scenarios, of any number of calls, budgets, claims and attempts, that
the constructors accept (`ScenariosAssumption`: the claims of an operation are on
distinct budgets there are, of one unit to all it has). The callers are those of
`V02Spec`, which may start, release and cancel calls and ask for a shutdown whenever they
like, as often as they like; the rig of `Rig` takes the same steps (`CallStarts`,
`CallReleased`, `CallCancelled`, `Stops`, `Closes`), only fewer of them.

- `V02Inductive`. The inductive invariant has four parts: `CallsRight`, what a call has
  at each place of `Do`; `SemsRight`, that what is in use of a semaphore is what the calls
  have of it, is no more than there is, and that its queue lists the calls that wait for
  it, each once and with what it needs; `KeysRight`, that an entry is counted by the
  calls that use it, is that of their key, and stays in the map while one does;
  `DownRight`, that the `WaitGroup` has the calls between `begin` and `end`, and that a
  Shutdown that saw it at zero does so with the runtime closed, so that nobody can enter
  again. They are stated of a scenario and a function of calls rather than of the
  variables, for `Notify` grants to several waiters in one step: each of those changes one
  call and one semaphore (`Grants`), and the sum of what was granted is what `cur` grew by.
- `V02Exact`, `V02NilMeansAtRest`, the properties of the run, for every schedule.
  The first holds on the paths that fail as on those that succeed: a call that gives up
  between its grant and its receive gives back what it was just granted (`GiveBack`), and
  one that fails at a later claim gives back the earlier ones.

### Construction: `LabProofs`

For every set of specs and of policies, and every map of bad entries, of any size
(`ArgumentsAssumption` says what the types of Go say: lists of requirements, integers,
a finite map). The caller's later changes of its policy are steps like the others.

- `PredictedRight`, `LowestRight`, `SnapshotRight`. The inductive invariant, `ConInv`
  (`ConInductive`), fixes at each place of a constructor what is known by then: that the
  runtime was accepted, then the other arguments; in the loop over the retry table, that
  what was kept is what is wanted of the entries met, that this release has the lowest
  of the bad ones met, and that the previous one, which stops at the first, has met none;
  at the end, that an error is a complaint that is true (`Complaint`) and an operation is
  what was asked (`OpRight`). The policy may differ from what was passed only once both
  releases have their operations or their errors. The order of the map is whatever entry
  of the rest a step takes; `LowestMore` is the one step of the minimum. What a list of
  checks says (`First` of a flattened list of lists) is reduced to "some check fails,
  and none before it among the fixed ones" by `FirstJudges`, from which both the class
  predicted and the equality of the texts follow.

### Experiment engine: `LabProofs`

For every finite non-empty set of callers, every number of shards, every set of
workloads that `validate` of `workload.go` accepts, every length of the queue and every
bound (`EngineAssumption`).

- `MeasurementRight`. Its parts are inequalities and say nothing of the step that
  breaks them; the invariant (`EngInv`, `EngInductive`) says what the counters and the
  claims are. What a caller holds follows from how far it is (`next`, `HeldUnits`,
  `HasKey`), and `Placed` says how far it can be at each place: all the way while it
  attempts, and back at the start when it leaves the gate. Taking a budget moves one
  sum, `Used`, by what `Fits` has just compared with the capacity; taking a key needs
  that nobody has it (`Apart`). Each counter of the monitor is the sum, over the
  callers, of what the caller has counted in and not yet out (`Portion`, `Grip`), which
  depends on how far it is in the loop of `enter` or `exit` (`CountedAt`). A step of
  `enter` or `exit` moves one caller and one counter by the same amount
  (`CountMatches`), and what is counted is held (`CountedIsHeld`), so the counter that
  is about to be compared with the capacity is a part of what was granted
  (`WithinHeld`, `OneHolder`, `NothingOver`): no violation is counted, whatever the
  order in which callers reach the counters. That an attempt which fails passes `exit`
  too is what lets the next one begin from zero. `RunRight` carries the drain: once the
  runtime stops, the only step that passes the gate is refused, so when the drain has
  seen nobody behind it nobody comes again (`NobodyFlying`), and every sum is over
  zeros. The shards have counted what the callers have (`Total`, `Done`), by
  `SumUpdate`. The steps that count nothing and move one caller are settled together
  (`GoesHolds`, `DeniedHolds`, `TakesHolds`), the others one by one.

### Enumeration of mutants: `LabProofs`

For every list of functions and every set of statements, of whatever kind and token
(nothing is assumed of them), and files of any length. `FuncsAssumption`: the functions
of a file have different names. In Go only `init`, `_` and their like may be declared
twice; the model has no such file, since to it a file maps names to lists.

- `KeysRight`. The recursion of `Generate` is unfolded one candidate at a time
  (`GenerateIs`). The invariant of that induction, `Emits`, gives what was emitted of the
  first k candidates in closed form: one mutant for each candidate whose program is
  neither the file's nor that of an earlier candidate (`Novel`), numbered by the novel
  candidates before it that read the same (`Namesakes`), although `emit` compares with
  what it emitted and counts there. From it, two mutants with one text have different
  numbers (`EmittedDiffer`) and no program is lost (`EmittedResults`). For the last part,
  the candidates of one function lie together in the concatenation (`CandidatesAre`, by
  `FlattenPlaces`); a change of another function never makes the same program unless that
  is the unchanged file (`SameResult`); so what is novel, and the number of each, can be
  read off that function's statements (`NovelHere`, `NumberHere`, `OwnIsHere`), and is the
  same in a file where the others are empty.

### Lemmas

`Lemmas` has what several of these need: removing from and splitting a sequence
that lists a set; a maximum of a bounded set; prefix sums, which exist, are unique
and are what `Demand` computes; the sum of a function over a finite set
(`SumFunction` of the community modules), which exists, does not depend on the order
of the summands, and changes by the difference when one summand does; that such a sum
grows with its summands, and that one over a part is that of a function that is zero
elsewhere; that a finite set with distinct integer keys can be sorted; the least of a
finite set; and what the concatenation of a list of lists, a fold, contains
(`FlattenSeqIs`) and where (`FlattenPlaces`). Induction is over a set of numbers
(`NatSetInduction`, from the library's well-foundedness of the strict subsets of a
finite set), since the library's induction theorems take an operator as a parameter,
which the provers installed cannot instantiate.

### Only model-checked

- Liveness: `WaitersProceed`, `DrainCompletes`, `EveryCallReturns`,
  `ShutdownWakesWaiters`. TLAPS does not reason about fairness here.
- `SettlesAsPredicted` and `CloseBalances` of `Rig`: they speak of the states in which
  nothing of `V02` is `ENABLED`, and compare them with `System`, whose operators are
  recursive; neither is within the provers' reach. `BudgetsAndKeysExact` and
  `NilMeansAtRest` are checked by the same run, on the scenarios of `MCRig`, and proved
  of `V02` under callers that are freer than the rig (`V02Exact`, `V02NilMeansAtRest`).
- `ReproductionMinimal` of `Shrink`: a scenario is replayed by `System`, by recursion.

## Where code and documents disagree

- `resource_amendment4` (`FreeUnitsAreTaken`). The contract lets a call that
  passed the gate before Shutdown take units that are free. A `Reject` call is
  refused them once the budget is closed, because closing sets `full`.
- `gate_idle` (`DrainedBeatsExpired`). The contract says an idle runtime answers
  `nil` even to an expired context. A second Shutdown can arrive between the first
  one's bit and its mark, find `done` open and return its context's error.
- `gate_storm` (`DrainsOnceAllFinished`). The contract promises `nil` once every
  admitted call has finished. A steady stream of overlapping refused calls holds
  the count above zero for as long as it lasts.
- `mutate_resume` (`StandingVerdictsHold`). `lab/mutate/save.go:85` says the kills
  of an unchanged file stand; the fingerprint compared is that of the mutant's own
  file, so a kill stands although another file of the package was edited and the
  mutant would survive there.

Seen on the way, with no statement of the repository that it contradicts in a
run of its own:

- The end of the window (`lab/doe/engine.go:71-72`) is read before it is stored,
  so a call that finishes in between is still counted; `MeasurementSound` takes
  the window as stored.
- An entry of the triage whose mutant is a compile error by now counts as used
  (`lab/mutate/triage.go:42`) and is not reported stale.
- `Nth`, a part of a mutant's key (`lab/mutate/mutant.go:61`), shifts when the same
  change becomes possible earlier in the same function, so a verdict or an
  explanation may move to its namesake. `KeysIdentify` says where that cannot happen.

## What is not modelled

- *Experiment design and statistics* (`lab/doe`: designs, effects, intervals,
  reports): sequential floating-point computations, for which TLC has no numbers.
- *Of the engine* the sampler and the histograms; of the rig the leak detector and
  the environment report, which read the operating system; of the mutation tester
  the tallies, diffs and tables, which only print; of the adapters the translation of
  types.
- *The command line tools* are flags, files and reports, one after the other.
  The one with state of its own, `mutate`, is in `Mutation`. *Examples* are programs
  that use the library.
- A nil runtime handed to `NewOperation` (`rt == nil`); in `Mutation`, a flake of the
  run that is repeated to confirm a failure, and edits while one workspace is being
  copied, which is one step.
- The counters for rejected overloads and the yield in `refused`; error texts
  (a constructor's error keeps what it complains of, and about what); `String`
  methods; `Fail`, which has no state.
- The pointers of the intrusive list, memory reuse by `sync.Pool` beyond the
  choice of the entry, and cache-line layout.
- In `V02` and `Rig`: several calls of one goroutine, values that handlers return,
  sleeps and the caller's deadline (`Exec` has what they decide).

## Plan

Built, in this order: `Resource` with `Sem`; `KeyLocker` with `Keys`; `Gate` with
`Lifecycle`; `Attempt` with `Exec`; `Herta`; `Construction`; `System`, `V02` and
`Rig`; `Shrink`; `Generate` and `Mutation`; `Engine`. Left, most important first:

1. `WaitQueue`: the list of `waiter.go` with its pointers, implementing the
   sequence that `Resource` and `KeyLocker` use.
2. That `Herta`, driven by the rig to quiescence, is one of `System`'s results
   under the contract's rules, as `Rig` shows of the previous release.
3. The engine's histograms, as integer arithmetic on buckets.
