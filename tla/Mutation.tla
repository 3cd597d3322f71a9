------------------------------ MODULE Mutation ------------------------------
(***************************************************************************)
(* The mutation tester (lab/mutate): it judges every mutant of a package   *)
(* by a cascade of test stages, in workspaces of its own, and saves the    *)
(* verdicts; a later run may resume from what was saved.  The sources are  *)
(* edited between runs and under a run's feet, stages are added, a run is  *)
(* interrupted or dies at any step, and a test fails now and then for no   *)
(* reason.  A mutant is a number, its ID; of a source only its version is  *)
(* kept, which is what its fingerprint tells apart.                        *)
(***************************************************************************)
EXTENDS Naturals, FiniteSets, FiniteSetsExt

CONSTANTS Files, Mutants, FileOf, Workers,  \* Workers are numbers from 1
          Fate,             \* of a mutant in a tree: [kind, stage]; see below
          Selections,       \* sets of files that -files may select
          Underfoot,        \* whether sources may be edited while they are copied
          MaxVersion, MaxStages, MaxRuns, MaxFlakes     \* bounds

VARIABLES disk,             \* [tree, saved, triage]; saved.state is none, torn or whole
          stages,           \* how many stages are given; they are only ever added
          job,              \* the run in progress
          ws,               \* the workspaces: of each file [version, mutant], 0 if none
          worker,
          spent             \* [runs, flakes]

mutVars == <<disk, stages, job, ws, worker, spent>>

Tree == [Files -> 1..MaxVersion]

(* kind: absent (the version has no such mutant), compile, fail or hang at *)
(* a stage, or pass.                                                       *)
Kinds == {"absent", "compile", "fail", "hang", "pass"}

(* What the enumeration gives, and the trees: IDs count from 1, a version  *)
(* of a file decides whether it has a mutant.                              *)
ASSUME SettingAssumption ==
  /\ Mutants \subseteq Nat /\ 0 \notin Mutants
  /\ FileOf \in [Mutants -> Files]
  /\ IsFiniteSet(Workers) /\ Workers = 1..Cardinality(Workers)
  /\ MaxVersion \in Nat /\ MaxVersion > 0
  /\ Fate \in [Mutants -> [Tree -> [kind : Kinds, stage : Nat]]]
  /\ \A m \in Mutants, t \in Tree, u \in Tree :
       /\ Fate[m][t].stage > 0
       /\ t[FileOf[m]] = u[FileOf[m]] /\ Fate[m][t].kind = "absent" => Fate[m][u].kind = "absent"

NoReport == [state |-> "none", stages |-> 0, results |-> <<>>, sources |-> <<>>]
Off == [pc |-> "idle", srcs |-> <<>>, ms |-> {}, prev |-> NoReport, todo |-> {}, left |-> {},
        spaces |-> 0, results |-> <<>>, canceled |-> FALSE]
Idle == [pc |-> "idle", m |-> 0, stage |-> 0]

Init == /\ disk = [tree |-> [f \in Files |-> 1], saved |-> NoReport, triage |-> {}]
        /\ stages = 1
        /\ job = Off
        /\ ws = [w \in Workers |-> [f \in Files |-> [version |-> 1, mutant |-> 0]]]
        /\ worker = [w \in Workers |-> Idle]
        /\ spent = [runs |-> 0, flakes |-> 0]
-----------------------------------------------------------------------------
(* The developer.  A workspace is a copy: an edit matters to a run only    *)
(* until its workspaces are copied (and after the last not at all).        *)
Edit(f) == /\ \/ job.pc = "idle" /\ spent.runs < MaxRuns
              \/ job.pc = "copy" /\ Underfoot
           /\ disk.tree[f] < MaxVersion
           /\ disk' = [disk EXCEPT !.tree[f] = @ + 1]
           /\ UNCHANGED <<stages, job, ws, worker, spent>>

AddStage == /\ job.pc = "idle" /\ stages < MaxStages /\ spent.runs < MaxRuns
            /\ stages' = stages + 1
            /\ UNCHANGED <<disk, job, ws, worker, spent>>

Readable == disk.saved.state = "whole"

(* An entry of the triage file is written for a survivor.                  *)
Explain(m) == /\ job.pc = "idle" /\ Readable
              /\ m \in DOMAIN disk.saved.results \ disk.triage
              /\ disk.saved.results[m].status = "survived"
              /\ disk' = [disk EXCEPT !.triage = @ \cup {m}]
              /\ UNCHANGED <<stages, job, ws, worker, spent>>
-----------------------------------------------------------------------------
Generated(srcs) == {m \in Mutants : \E t \in Tree : /\ t[FileOf[m]] = srcs[FileOf[m]]
                                                    /\ Fate[m][t].kind /= "absent"}
Selected(srcs, files) == {m \in Generated(srcs) : FileOf[m] \in files}

\* Seeded fault: what was settled stays settled, whatever was edited.
Resume_Stale(r, ms, srcs) ==
  {m \in ms : m \notin DOMAIN r.results \/ r.results[m].status \notin {"killed", "compile"}}

(* What an earlier report has not settled.                                 *)
Resume(r, ms, srcs) ==
  {m \in ms : \/ m \notin DOMAIN r.results
              \/ r.sources[FileOf[m]] /= srcs[FileOf[m]]
              \/ r.results[m].status \notin {"killed", "compile"}}

(* mutate run, up to Run: the sources are loaded, some files selected, and *)
(* with -resume the saved report is read, which fails if it is torn.       *)
Load(resume, files) ==
  LET prev == IF resume THEN disk.saved ELSE NoReport
      ms == Selected(disk.tree, files)
      todo == Resume(prev, ms, disk.tree)
  IN  /\ job.pc = "idle" /\ spent.runs < MaxRuns
      /\ ms /= {}
      /\ resume => Readable
      /\ job' = [Off EXCEPT !.pc = IF todo = {} THEN "finish" ELSE "copy", !.srcs = disk.tree,
                            !.ms = ms, !.prev = prev, !.todo = todo, !.left = todo]
      /\ spent' = [spent EXCEPT !.runs = @ + 1]
      /\ UNCHANGED <<disk, stages, ws, worker>>

Source(version) == [version |-> version, mutant |-> 0]
Mutated(version, m) == [version |-> version, mutant |-> m]

(* Run: every workspace is removed and copied from the tree as it is now.  *)
CopyTree == [f \in Files |-> Source(disk.tree[f])]

Copy(w) ==
  /\ job.pc = "copy" /\ w = job.spaces + 1
  /\ ws' = [ws EXCEPT ![w] = CopyTree]
  /\ job' = [job EXCEPT !.spaces = w, !.pc = IF w = Cardinality(Workers) THEN "baseline" ELSE "copy"]
  /\ UNCHANGED <<disk, stages, worker, spent>>

(* What is wrong with the mutants that are in a workspace.                 *)
Faults(space) == {Fate[m][[f \in Files |-> space[f].version]] : m \in {space[f].mutant : f \in Files} \ {0}}

BuildFails(space) == \E fate \in Faults(space) : fate.kind \in {"compile", "absent"}

(* How a stage ends if nothing else fails it: it fails, or hangs.          *)
StageVerdict(space, stage) ==
  {fate.kind : fate \in {fate \in Faults(space) : fate.kind \in {"fail", "hang"} /\ fate.stage = stage}}

Flake == /\ spent.flakes < MaxFlakes
         /\ spent' = [spent EXCEPT !.flakes = @ + 1]
NoFlake == ~job.canceled /\ UNCHANGED spent

(* An interrupted command fails; so does, now and then, any stage.         *)
Baseline ==
  /\ job.pc = "baseline"
  /\ \/ NoFlake /\ job' = [job EXCEPT !.pc = "judge"]
     \/ Flake /\ job' = Off
     \/ job.canceled /\ job' = Off /\ UNCHANGED spent
  /\ UNCHANGED <<disk, stages, ws, worker>>
-----------------------------------------------------------------------------
(* judge: the mutant is written over the source that was loaded ...        *)
Take(w) ==
  LET m == Min(job.left)
  IN  /\ job.pc = "judge" /\ worker[w].pc = "idle" /\ job.left /= {}
      /\ job' = [job EXCEPT !.left = @ \ {m}]
      /\ ws' = [ws EXCEPT ![w][FileOf[m]] = Mutated(job.srcs[FileOf[m]], m)]
      /\ worker' = [worker EXCEPT ![w] = [pc |-> "run", m |-> m, stage |-> 0]]
      /\ UNCHANGED <<disk, stages, spent>>

(* The feeder skips what it cannot hand out after an interrupt.            *)
Skip == /\ job.pc = "judge" /\ job.canceled /\ job.left /= {}
        /\ job' = [job EXCEPT !.left = @ \ {Min(job.left)}]
        /\ UNCHANGED <<disk, stages, ws, worker, spent>>

(* results[i] = r                                                          *)
Enter(m, verdict, results) ==
  [x \in {m} \cup DOMAIN results |-> IF x = m THEN verdict ELSE results[x]]

\* Seeded fault: the mutant stays in the workspace.
Judged_Dirty(w, status, stage) ==
  /\ job' = [job EXCEPT !.results = Enter(worker[w].m, [status |-> status, stage |-> stage], @)]
  /\ worker' = [worker EXCEPT ![w] = Idle]
  /\ UNCHANGED ws

(* ... and the source restored when there is a verdict.                    *)
Judged(w, status, stage) ==
  /\ job' = [job EXCEPT !.results = Enter(worker[w].m, [status |-> status, stage |-> stage], @)]
  /\ worker' = [worker EXCEPT ![w] = Idle]
  /\ ws' = [ws EXCEPT ![w][FileOf[worker[w].m]] = Source(job.srcs[FileOf[worker[w].m]])]

Passed(w) ==
  LET s == worker[w].stage
  IN  IF s = stages THEN Judged(w, "survived", 0)
      ELSE worker' = [worker EXCEPT ![w].pc = "run", ![w].stage = s + 1] /\ UNCHANGED <<job, ws>>

Build(w) == /\ worker[w].pc = "run" /\ worker[w].stage = 0
            /\ \/ NoFlake /\ ~BuildFails(ws[w]) /\ Passed(w)
               \/ (BuildFails(ws[w]) \/ job.canceled) /\ Judged(w, "compile", 0) /\ UNCHANGED spent
            /\ UNCHANGED <<disk, stages>>

(* A hang kills; a plain failure is looked at again.                       *)
Stage(w) ==
  LET kinds == StageVerdict(ws[w], worker[w].stage)
      Again == worker' = [worker EXCEPT ![w].pc = "rerun"] /\ UNCHANGED <<job, ws>>
  IN  /\ worker[w].pc = "run" /\ worker[w].stage > 0
      /\ \/ NoFlake /\ kinds = {} /\ Passed(w)
         \/ NoFlake /\ "hang" \in kinds /\ Judged(w, "killed", worker[w].stage)
         \/ (kinds = {"fail"} \/ job.canceled) /\ Again /\ UNCHANGED spent
         \/ kinds = {} /\ Flake /\ Again
      /\ UNCHANGED <<disk, stages>>

(* fails: the whole stage once more, and only a second failure kills.      *)
Fails(w) ==
  LET kinds == StageVerdict(ws[w], worker[w].stage)
  IN  /\ worker[w].pc = "rerun"
      /\ \/ NoFlake /\ kinds = {} /\ Passed(w)
         \/ (kinds /= {} \/ job.canceled) /\ Judged(w, "killed", worker[w].stage) /\ UNCHANGED spent
      /\ UNCHANGED <<disk, stages>>

Interrupt == /\ job.pc \in {"baseline", "judge"} /\ ~job.canceled
             /\ job' = [job EXCEPT !.canceled = TRUE]
             /\ UNCHANGED <<disk, stages, ws, worker, spent>>

(* wg.Wait: the verdicts of an interrupted run are thrown away.            *)
Wait == /\ job.pc = "judge" /\ job.left = {} /\ \A w \in Workers : worker[w].pc = "idle"
        /\ job' = IF job.canceled THEN Off ELSE [job EXCEPT !.pc = "finish"]
        /\ UNCHANGED <<disk, stages, ws, worker, spent>>
-----------------------------------------------------------------------------
Merge == [m \in job.ms |-> IF m \in DOMAIN job.results THEN job.results[m] ELSE job.prev.results[m]]

(* Retriage: a survivor is equivalent if, and while, the triage says so.   *)
Triage == disk.triage
Apply(results) ==
  [m \in DOMAIN results |-> IF results[m].status = "survived" /\ m \in Triage
                            THEN [results[m] EXCEPT !.status = "equivalent"] ELSE results[m]]
Retriage(results) ==
  Apply([m \in DOMAIN results |-> IF results[m].status = "equivalent"
                                  THEN [results[m] EXCEPT !.status = "survived"] ELSE results[m]])

(* finish, of mutate run and of mutate report: run.json is truncated ...   *)
Finish == /\ job.pc = "finish"
          /\ job' = [job EXCEPT !.pc = "write", !.results = Retriage(Merge)]
          /\ disk' = [disk EXCEPT !.saved = [NoReport EXCEPT !.state = "torn"]]
          /\ UNCHANGED <<stages, ws, worker, spent>>

Report == /\ job.pc = "idle" /\ Readable
          /\ disk.saved.results /= Retriage(disk.saved.results)
          /\ job' = [Off EXCEPT !.pc = "write", !.results = Retriage(disk.saved.results),
                                !.prev = disk.saved, !.srcs = disk.saved.sources]
          /\ disk' = [disk EXCEPT !.saved = [NoReport EXCEPT !.state = "torn"]]
          /\ UNCHANGED <<stages, ws, worker, spent>>

(* ... and written; the table and the summary are made from the same.      *)
Write == /\ job.pc = "write"
         /\ disk' = [disk EXCEPT !.saved =
                       [state |-> "whole", results |-> job.results, sources |-> job.srcs,
                        stages |-> IF job.ms = {} THEN job.prev.stages ELSE stages]]
         /\ job' = Off
         /\ UNCHANGED <<stages, ws, worker, spent>>

(* The process dies; its workspaces stay as they are.                      *)
Crash == /\ job.pc /= "idle"
         /\ job' = Off
         /\ worker' = [w \in Workers |-> Idle]
         /\ UNCHANGED <<disk, stages, ws, spent>>

Next == \/ \E f \in Files : Edit(f)
        \/ AddStage
        \/ \E m \in Mutants : Explain(m)
        \/ \E resume \in BOOLEAN, files \in Selections : Load(resume, files)
        \/ \E w \in Workers : Copy(w) \/ Take(w) \/ Build(w) \/ Stage(w) \/ Fails(w)
        \/ Baseline \/ Skip \/ Interrupt \/ Wait \/ Finish \/ Report \/ Write \/ Crash

Spec == Init /\ [][Next]_mutVars
-----------------------------------------------------------------------------
(* Whether a verdict is what the stages of a report say of a mutant in a tree. *)
Earned(m, verdict, r, t) ==
  LET fate == Fate[m][t]
  IN  CASE verdict.status = "compile" -> fate.kind = "compile"
        [] verdict.status = "killed" -> fate.kind \in {"fail", "hang"} /\ fate.stage = verdict.stage
        [] OTHER -> fate.kind = "pass" \/ (fate.kind \in {"fail", "hang"} /\ fate.stage > r.stages)

(* No verdict is saved that the tests did not give of this version of the  *)
(* mutant's file (runner.go:81, save.go:18): whatever was edited since,    *)
(* whichever verdicts stand from an earlier run, with other mutants judged *)
(* before in the same workspace, with workspaces left dirty by a run that  *)
(* died, with commands cut short by an interrupt, and with a test that     *)
(* fails once for no reason.                                               *)
VerdictsEarned ==
  LET r == disk.saved
  IN  \A m \in DOMAIN r.results :
        \E t \in Tree : t[FileOf[m]] = r.sources[FileOf[m]] /\ Earned(m, r.results[m], r, t)

(* "Kills and compile errors of an unchanged file stand, which holds as    *)
(* long as stages are only ever added" (save.go:85): every saved verdict   *)
(* is that of the sources it was saved with.  It is not: a kill stands     *)
(* although another file of the package was edited, which may let the      *)
(* mutant survive.                                                         *)
StandingVerdictsHold ==
  LET r == disk.saved IN \A m \in DOMAIN r.results : Earned(m, r.results[m], r, r.sources)
=============================================================================
