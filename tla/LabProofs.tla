----------------------------- MODULE LabProofs -----------------------------
(***************************************************************************)
(* Theorems about the laboratory: about Mutation, for every package, every *)
(* fate of its mutants, and any number of workers, versions, stages and    *)
(* runs; about Construction, for every list of arguments; about Engine,    *)
(* for every set of callers, workload and number of shards; and about      *)
(* Generate, for every file.                                               *)
(***************************************************************************)
EXTENDS Mutation, Construction, Engine, Generate, Lemmas
-----------------------------------------------------------------------------
(***************************************************************************)
(* Mutation.                                                               *)
(***************************************************************************)
Statuses == {"compile", "killed", "survived", "equivalent"}
Verdicts == [status : Statuses, stage : Nat]
Version == 1..MaxVersion

(* A table of verdicts on a tree, earned by so many stages.                *)
Table(results, srcs, given) ==
  /\ DOMAIN results \subseteq Mutants
  /\ \A m \in DOMAIN results :
       /\ results[m] \in Verdicts
       /\ \E t \in Tree : /\ t[FileOf[m]] = srcs[FileOf[m]]
                          /\ Earned(m, results[m], [stages |-> given], t)

(* A report that was read, or that will be.                                *)
Good(r) == /\ r.stages \in Nat
           /\ r.state = "whole" => r.sources \in Tree
           /\ Table(r.results, r.sources, r.stages)

Busy(w) == worker[w].pc /= "idle"
Running == job.pc \in {"copy", "baseline", "judge", "finish"}

(* The tree in which a worker runs the tests.                              *)
Space(w) == [f \in Files |-> ws[w][f].version]

TypeOK ==
  /\ disk.tree \in Tree
  /\ DOMAIN disk = {"tree", "saved", "triage"}
  /\ stages \in Nat
  /\ job.pc \in {"idle", "copy", "baseline", "judge", "finish", "write"}
  /\ job.canceled \in BOOLEAN
  /\ DOMAIN job = DOMAIN Off
  /\ ws \in [Workers -> [Files -> [version : Version, mutant : Mutants \cup {0}]]]
  /\ worker \in [Workers -> [pc : {"idle", "run", "rerun"}, m : Mutants \cup {0}, stage : Nat]]

(* What a run has settled already, and what is to be judged.               *)
Planned ==
  Running =>
    /\ job.srcs \in Tree
    /\ job.ms \subseteq Mutants /\ job.ms /= {}
    /\ \A m \in job.ms, t \in Tree :
         t[FileOf[m]] = job.srcs[FileOf[m]] => Fate[m][t].kind /= "absent"
    /\ Good(job.prev)
    /\ job.todo \subseteq job.ms /\ job.left \subseteq job.todo
    /\ \A m \in job.ms \ job.todo :
         /\ m \in DOMAIN job.prev.results
         /\ job.prev.results[m].status \in {"killed", "compile"}
         /\ job.prev.sources[FileOf[m]] = job.srcs[FileOf[m]]

(* The workspaces copied so far hold sources only, but for the mutant that *)
(* a worker is about to judge.                                             *)
Clean ==
  /\ job.pc = "copy" => /\ job.spaces \in 0..Cardinality(Workers)
                        /\ \A w \in Workers, f \in Files : w <= job.spaces => ws[w][f].mutant = 0
  /\ job.pc \in {"baseline", "judge"} =>
       \A w \in Workers, f \in Files :
         ws[w][f].mutant /= 0 => Busy(w) /\ f = FileOf[worker[w].m]

(* A worker is at a stage that its mutant, in this tree, is known to reach *)
(* unless the run is interrupted.                                          *)
Judging == \A w \in Workers : Busy(w) =>
  /\ job.pc = "judge"
  /\ worker[w].m \in job.todo
  /\ ws[w][FileOf[worker[w].m]] =
       Mutated(job.srcs[FileOf[worker[w].m]], worker[w].m)
  /\ worker[w].stage <= stages
  /\ worker[w].pc = "rerun" => worker[w].stage > 0
  /\ ~job.canceled /\ worker[w].stage > 0 =>
       LET fate == Fate[worker[w].m][Space(w)]
       IN  /\ fate.kind \notin {"absent", "compile"}
           /\ fate.kind \in {"fail", "hang"} => fate.stage >= worker[w].stage

(* Every mutant to be judged is left, with a worker, or judged.            *)
Judgements ==
  /\ job.pc \in {"copy", "baseline"} => job.left = job.todo /\ job.results = <<>>
  /\ job.pc \in {"judge", "finish"} /\ ~job.canceled =>
       /\ Table(job.results, job.srcs, stages)
       /\ job.todo \subseteq job.left \cup DOMAIN job.results
                               \cup {worker[w].m : w \in {w \in Workers : Busy(w)}}
  /\ job.pc = "finish" => ~job.canceled /\ job.left = {}
  /\ job.pc = "write" =>
       Good([state |-> "whole", results |-> job.results, sources |-> job.srcs,
             stages |-> IF job.ms = {} THEN job.prev.stages ELSE stages])

Inv == TypeOK /\ Good(disk.saved) /\ Planned /\ Clean /\ Judging /\ Judgements
-----------------------------------------------------------------------------
(* A set of naturals has its minimum.                                      *)
LEMMA MinOfNats ==
  ASSUME NEW S \in SUBSET Nat, S /= {}
  PROVE  Min(S) \in S
<1> DEFINE T == {n \in Nat : S \cap (0..n) /= {} => \E x \in S : \A y \in S : x <= y}
<1>1. 0 \in T
  OBVIOUS
<1>2. ASSUME NEW n \in Nat, n \in T PROVE n+1 \in T
  <2>1. CASE S \cap (0..n) /= {}
    BY <1>2, <2>1
  <2>2. CASE S \cap (0..n) = {}
    <3>1. \A y \in S : n+1 <= y
      BY <2>2
    <3> QED BY <3>1
  <2> QED BY <2>1, <2>2
<1> HIDE DEF T
<1>3. PICK n \in S : TRUE
  OBVIOUS
<1>4. n \in T
  BY <1>1, <1>2, NatSetInduction
<1>5. \E x \in S : \A y \in S : x <= y
  BY <1>4 DEF T
<1> QED BY <1>5 DEF Min

(* A mutant does something in every tree.                                  *)
LEMMA Fates ==
  ASSUME NEW m \in Mutants, NEW t \in Tree
  PROVE  /\ FileOf[m] \in Files
         /\ Fate[m][t].kind \in Kinds
         /\ Fate[m][t].stage \in Nat
         /\ Fate[m][t].stage > 0
BY SettingAssumption

(* The tree a worker runs the tests in is one, and its own mutant is the   *)
(* only one there, in a file as it was loaded.                             *)
LEMMA OneMutant ==
  ASSUME TypeOK, Planned, Clean, Judging, NEW w \in Workers, Busy(w)
  PROVE  /\ worker[w].m \in Mutants
         /\ Space(w) \in Tree
         /\ Space(w)[FileOf[worker[w].m]] = job.srcs[FileOf[worker[w].m]]
         /\ Faults(ws[w]) = {Fate[worker[w].m][Space(w)]}
<1> DEFINE m == worker[w].m
<1>1. job.pc = "judge" /\ m \in job.todo
  BY DEF Judging
<1>2. m \in Mutants /\ m /= 0
  BY <1>1, SettingAssumption DEF Planned, Running
<1>3. FileOf[m] \in Files
  BY <1>2, SettingAssumption
<1>4. ws[w] \in [Files -> [version : Version, mutant : Mutants \cup {0}]]
  BY DEF TypeOK
<1>5. Space(w) \in Tree
  BY <1>4 DEF Space, Tree, Version
<1>6. ws[w][FileOf[m]] = [version |-> job.srcs[FileOf[m]], mutant |-> m]
  BY DEF Judging, Mutated
<1>7. Space(w)[FileOf[m]] = job.srcs[FileOf[m]]
  BY <1>3, <1>6 DEF Space
<1>8. \A f \in Files : f /= FileOf[m] => ws[w][f].mutant = 0
  BY <1>1 DEF Clean
<1>9. {ws[w][f].mutant : f \in Files} \ {0} = {m}
  BY <1>2, <1>3, <1>6, <1>8
<1>10. Faults(ws[w]) = {Fate[x][Space(w)] : x \in {m}}
  BY <1>9 DEF Faults, Space
<1> QED BY <1>2, <1>5, <1>7, <1>10
-----------------------------------------------------------------------------
(* Nothing is known of no verdicts.                                        *)
LEMMA NoVerdicts == ASSUME NEW srcs, NEW given PROVE Table(<<>>, srcs, given)
BY DEF Table

LEMMA NoReportIsGood == Good(NoReport)
BY NoVerdicts DEF Good, NoReport

LEMMA InitHolds == ASSUME Init PROVE Inv
<1>1. TypeOK
  <2>1. disk.tree \in Tree /\ DOMAIN disk = {"tree", "saved", "triage"}
    BY SettingAssumption DEF Init, Tree
  <2>2. ws \in [Workers -> [Files -> [version : Version, mutant : Mutants \cup {0}]]]
    BY SettingAssumption DEF Init, Version
  <2> QED BY <2>1, <2>2 DEF TypeOK, Init, Off, Idle
<1>2. Good(disk.saved)
  BY NoReportIsGood DEF Init
<1>3. job.pc = "idle" /\ \A w \in Workers : ~Busy(w)
  BY DEF Init, Off, Idle, Busy
<1> QED BY <1>1, <1>2, <1>3 DEF Inv, Planned, Running, Clean, Judging, Judgements

(* A step of the developer between two runs.                               *)
LEMMA IdleHolds ==
  ASSUME Inv, job.pc = "idle", UNCHANGED <<job, ws, worker>>,
         TypeOK', Good(disk.saved)'
  PROVE  Inv'
<1>1. \A w \in Workers : ~Busy(w)
  BY DEF Inv, Judging
<1>2. job.pc' = "idle" /\ \A w \in Workers : ~Busy(w)'
  BY <1>1 DEF Busy
<1> QED BY <1>2 DEF Inv, Planned, Running, Clean, Judging, Judgements

LEMMA EditHolds == ASSUME Inv, NEW f \in Files, Edit(f) PROVE Inv'
<1>1. TypeOK /\ Good(disk.saved)
  BY DEF Inv
<1>2. /\ disk'.tree \in Tree /\ disk'.saved = disk.saved
      /\ DOMAIN disk' = {"tree", "saved", "triage"}
  <2>1. disk.tree[f] + 1 \in 1..MaxVersion
    BY <1>1, SettingAssumption DEF Edit, TypeOK, Tree, Inv
  <2> QED BY <1>1, <2>1 DEF Edit, TypeOK, Tree
<1>3. TypeOK'
  BY <1>1, <1>2 DEF TypeOK, Edit
<1>4. Good(disk.saved)'
  BY <1>1, <1>2
<1>5. UNCHANGED <<stages, job, ws, worker>>
  BY DEF Edit
<1>6. \A w \in Workers : Busy(w)' = Busy(w) /\ Space(w)' = Space(w)
  BY <1>5 DEF Busy, Space
<1>7. Planned' /\ Clean' /\ Judging' /\ Judgements'
  BY <1>5, <1>6 DEF Inv, Planned, Running, Clean, Judging, Judgements
<1> QED BY <1>3, <1>4, <1>7 DEF Inv

LEMMA AddStageHolds == ASSUME Inv, AddStage PROVE Inv'
<1>1. TypeOK'
  BY DEF Inv, TypeOK, AddStage
<1>2. Good(disk.saved)'
  BY DEF Inv, AddStage
<1> QED BY <1>1, <1>2, IdleHolds DEF AddStage

LEMMA ExplainHolds == ASSUME Inv, NEW m \in Mutants, Explain(m) PROVE Inv'
<1>1. /\ disk'.tree = disk.tree /\ disk'.saved = disk.saved
      /\ DOMAIN disk' = {"tree", "saved", "triage"}
  BY DEF Inv, TypeOK, Explain
<1>2. TypeOK'
  BY <1>1 DEF Inv, TypeOK, Explain
<1>3. Good(disk.saved)'
  BY <1>1 DEF Inv
<1> QED BY <1>2, <1>3, IdleHolds DEF Explain
-----------------------------------------------------------------------------
LEMMA LoadHolds ==
  ASSUME Inv, NEW resume \in BOOLEAN, NEW files, Load(resume, files)
  PROVE  Inv'
<1> DEFINE srcs == disk.tree
           prev == IF resume THEN disk.saved ELSE NoReport
           ms == Selected(srcs, files)
           todo == Resume(prev, ms, srcs)
<1>1. TypeOK /\ Good(disk.saved) /\ job.pc = "idle"
  BY DEF Inv, Load
<1>2. /\ ms /= {}
      /\ job' = [Off EXCEPT !.pc = IF todo = {} THEN "finish" ELSE "copy", !.srcs = srcs,
                            !.ms = ms, !.prev = prev, !.todo = todo, !.left = todo]
      /\ UNCHANGED <<disk, stages, ws, worker>>
  BY DEF Load
<1>3. srcs \in Tree
  BY <1>1 DEF TypeOK
<1>4. Good(prev)
  BY <1>1, NoReportIsGood
<1>5. ms \subseteq Mutants
  BY DEF Selected, Generated
<1>6. \A m \in ms, t \in Tree : t[FileOf[m]] = srcs[FileOf[m]] => Fate[m][t].kind /= "absent"
  <2> SUFFICES ASSUME NEW m \in ms, NEW t \in Tree, t[FileOf[m]] = srcs[FileOf[m]]
               PROVE  Fate[m][t].kind /= "absent"
    OBVIOUS
  <2>1. PICK u \in Tree : u[FileOf[m]] = srcs[FileOf[m]] /\ Fate[m][u].kind /= "absent"
    BY DEF Selected, Generated
  <2>2. m \in Mutants /\ u[FileOf[m]] = t[FileOf[m]]
    BY <1>5, <2>1
  <2>3. Fate[m][t].kind = "absent" => Fate[m][u].kind = "absent"
    BY <2>2, SettingAssumption, Zenon
  <2> QED BY <2>1, <2>3
<1>7. /\ todo \subseteq ms
      /\ \A m \in ms \ todo : /\ m \in DOMAIN prev.results
                              /\ prev.results[m].status \in {"killed", "compile"}
                              /\ prev.sources[FileOf[m]] = srcs[FileOf[m]]
  BY DEF Resume
<1> HIDE DEF srcs, prev, ms, todo
<1>8. /\ job'.pc = IF todo = {} THEN "finish" ELSE "copy"
      /\ job'.srcs = srcs /\ job'.ms = ms /\ job'.prev = prev
      /\ job'.todo = todo /\ job'.left = todo
      /\ job'.spaces = 0 /\ job'.results = <<>> /\ job'.canceled = FALSE
      /\ DOMAIN job' = DOMAIN Off
  BY <1>2 DEF Off
<1>9. \A w \in Workers : ~Busy(w)'
  BY <1>1, <1>2 DEF Inv, Judging, Busy
<1>10. TypeOK'
  BY <1>1, <1>2, <1>8 DEF TypeOK
<1>11. Planned'
  BY <1>2, <1>3, <1>4, <1>5, <1>6, <1>7, <1>8 DEF Planned
<1>12. Clean'
  <2>1. 0 \in 0..Cardinality(Workers) /\ \A w \in Workers : ~(w <= 0)
    BY <1>1, FS_CardinalityType, SettingAssumption
  <2> QED BY <1>8, <2>1 DEF Clean
<1>13. Judging'
  BY <1>9 DEF Judging
<1>14. Judgements'
  <2>1. Table(job.results, job.srcs, stages)'
    BY <1>8, NoVerdicts
  <2> QED BY <1>8, <2>1 DEF Judgements
<1>15. Good(disk.saved)'
  BY <1>1, <1>2
<1> QED BY <1>10, <1>11, <1>12, <1>13, <1>14, <1>15 DEF Inv

LEMMA CopyHolds == ASSUME Inv, NEW w \in Workers, Copy(w) PROVE Inv'
<1> DEFINE n == Cardinality(Workers)
<1>1. TypeOK /\ Good(disk.saved) /\ Planned /\ Clean /\ Judgements
  BY DEF Inv
<1>2. job.pc = "copy" /\ job.spaces \in 0..n /\ n \in Nat /\ w = job.spaces + 1
  BY <1>1, FS_CardinalityType, SettingAssumption DEF Copy, Clean
<1>3. w \in 1..n /\ Workers = 1..n
  BY <1>1, SettingAssumption
<1>4. /\ job'.pc = (IF w = n THEN "baseline" ELSE "copy") /\ job'.spaces = w
      /\ job'.srcs = job.srcs /\ job'.ms = job.ms /\ job'.prev = job.prev
      /\ job'.todo = job.todo /\ job'.left = job.left
      /\ job'.results = job.results /\ job'.canceled = job.canceled
      /\ DOMAIN job' = DOMAIN Off
  BY <1>1 DEF Copy, TypeOK, Off
<1>5. UNCHANGED <<disk, stages, worker>>
  BY DEF Copy
<1>6. \A v \in Workers : ~Busy(v)'
  BY <1>2, <1>5 DEF Inv, Judging, Busy
<1>7. \A f \in Files : CopyTree[f].mutant = 0
  BY DEF CopyTree, Source
<1>8. CopyTree \in [Files -> [version : Version, mutant : Mutants \cup {0}]]
  BY <1>1 DEF CopyTree, Source, TypeOK, Tree, Version
<1>9. ws' = [ws EXCEPT ![w] = CopyTree]
  BY DEF Copy
<1>10. TypeOK'
  <2>1. ws' \in [Workers -> [Files -> [version : Version, mutant : Mutants \cup {0}]]]
    BY <1>1, <1>8, <1>9 DEF TypeOK
  <2> QED BY <1>1, <1>4, <1>5, <2>1 DEF TypeOK
<1>11. Planned'
  BY <1>1, <1>2, <1>4 DEF Planned, Running
<1>12. \A v \in Workers, f \in Files : v <= w => ws'[v][f].mutant = 0
  <2> SUFFICES ASSUME NEW v \in Workers, NEW f \in Files, v <= w PROVE ws'[v][f].mutant = 0
    OBVIOUS
  <2>1. CASE v = w
    <3>1. ws'[v] = CopyTree
      BY <1>1, <1>9, <2>1 DEF TypeOK
    <3> QED BY <1>7, <3>1
  <2>2. CASE v /= w
    <3>1. v <= job.spaces
      BY <1>2, <1>3, <2>2
    <3> QED BY <1>1, <1>2, <1>9, <2>2, <3>1 DEF Clean, TypeOK
  <2> QED BY <2>1, <2>2
<1>13. Clean'
  <2>1. w = n => \A v \in Workers : v <= w
    BY <1>3
  <2> QED BY <1>2, <1>3, <1>4, <1>12, <2>1 DEF Clean
<1>14. Judging'
  BY <1>6 DEF Judging
<1>15. Judgements'
  BY <1>1, <1>2, <1>4 DEF Judgements
<1>16. Good(disk.saved)'
  BY <1>1, <1>5
<1> QED BY <1>10, <1>11, <1>13, <1>14, <1>15, <1>16 DEF Inv

(* A step that changes the run alone.                                      *)
LEMMA JobHolds ==
  ASSUME Inv, UNCHANGED <<disk, stages, ws, worker>>,
         job.pc' \in {"idle", "copy", "baseline", "judge", "finish", "write"},
         job.canceled' \in BOOLEAN, DOMAIN job' = DOMAIN Off,
         Planned', Clean', Judging', Judgements'
  PROVE  Inv'
<1>1. TypeOK'
  BY DEF Inv, TypeOK
<1>2. Good(disk.saved)'
  BY DEF Inv
<1> QED BY <1>1, <1>2 DEF Inv

(* The run ends without a word.                                            *)
LEMMA OffHolds ==
  ASSUME Inv, UNCHANGED <<disk, stages, ws>>, job' = Off,
         worker' \in [Workers -> [pc : {"idle", "run", "rerun"}, m : Mutants \cup {0},
                                  stage : Nat]],
         \A w \in Workers : ~Busy(w)'
  PROVE  Inv'
<1>1. job'.pc = "idle" /\ job'.canceled = FALSE
  BY DEF Off
<1>2. TypeOK'
  BY <1>1 DEF Inv, TypeOK
<1>3. Good(disk.saved)'
  BY DEF Inv
<1> QED BY <1>1, <1>2, <1>3 DEF Inv, Planned, Running, Clean, Judging, Judgements

LEMMA BaselineHolds == ASSUME Inv, Baseline PROVE Inv'
<1>1. TypeOK /\ Planned /\ Clean /\ Judging /\ Judgements /\ job.pc = "baseline"
  BY DEF Inv, Baseline
<1>2. UNCHANGED <<disk, stages, ws, worker>>
  BY DEF Baseline
<1>3. \A w \in Workers : ~Busy(w) /\ ~Busy(w)'
  BY <1>1, <1>2 DEF Judging, Busy
<1>4. CASE job' = Off
  <2>1. worker' = worker
    BY <1>2
  <2> QED BY <1>1, <1>2, <1>3, <1>4, <2>1, OffHolds DEF TypeOK
<1>5. CASE job' = [job EXCEPT !.pc = "judge"]
  <2>1. /\ job'.pc = "judge" /\ job'.spaces = job.spaces
        /\ job'.srcs = job.srcs /\ job'.ms = job.ms /\ job'.prev = job.prev
        /\ job'.todo = job.todo /\ job'.left = job.left
        /\ job'.results = job.results /\ job'.canceled = job.canceled
        /\ DOMAIN job' = DOMAIN Off
    BY <1>1, <1>5 DEF TypeOK, Off
  <2>2. Planned'
    BY <1>1, <2>1 DEF Planned, Running
  <2>3. Clean' /\ Judging'
    BY <1>1, <1>2, <1>3, <2>1 DEF Clean, Judging
  <2>4. Table(job.results, job.srcs, stages)'
    BY <1>1, <2>1, NoVerdicts DEF Judgements
  <2>5. Judgements'
    BY <1>1, <2>1, <2>4 DEF Judgements
  <2> QED BY <1>1, <1>2, <2>1, <2>2, <2>3, <2>5, JobHolds DEF TypeOK
<1> QED BY <1>4, <1>5 DEF Baseline

LEMMA InterruptHolds == ASSUME Inv, Interrupt PROVE Inv'
<1>1. TypeOK /\ Planned /\ Clean /\ Judging /\ Judgements /\ job.pc \in {"baseline", "judge"}
  BY DEF Inv, Interrupt
<1>2. UNCHANGED <<disk, stages, ws, worker>>
  BY DEF Interrupt
<1>3. /\ job'.pc = job.pc /\ job'.spaces = job.spaces
      /\ job'.srcs = job.srcs /\ job'.ms = job.ms /\ job'.prev = job.prev
      /\ job'.todo = job.todo /\ job'.left = job.left
      /\ job'.results = job.results /\ job'.canceled = TRUE
      /\ DOMAIN job' = DOMAIN Off
  BY <1>1 DEF Interrupt, TypeOK, Off
<1>4. Planned'
  BY <1>1, <1>3 DEF Planned, Running
<1>5. Clean'
  BY <1>1, <1>2, <1>3 DEF Clean, Busy
<1>6. Judging'
  BY <1>1, <1>2, <1>3 DEF Judging, Busy
<1>7. Judgements'
  BY <1>1, <1>3 DEF Judgements
<1> QED BY <1>1, <1>2, <1>3, <1>4, <1>5, <1>6, <1>7, JobHolds

LEMMA SkipHolds == ASSUME Inv, Skip PROVE Inv'
<1>1. TypeOK /\ Planned /\ Clean /\ Judging /\ job.pc = "judge" /\ job.canceled
  BY DEF Inv, Skip
<1>2. UNCHANGED <<disk, stages, ws, worker>>
  BY DEF Skip
<1>3. /\ job'.pc = job.pc /\ job'.spaces = job.spaces
      /\ job'.srcs = job.srcs /\ job'.ms = job.ms /\ job'.prev = job.prev
      /\ job'.todo = job.todo /\ job'.left \subseteq job.left
      /\ job'.results = job.results /\ job'.canceled = job.canceled
      /\ DOMAIN job' = DOMAIN Off
  BY <1>1 DEF Skip, TypeOK, Off
<1>4. Planned'
  BY <1>1, <1>3 DEF Planned, Running
<1>5. Clean'
  BY <1>1, <1>2, <1>3 DEF Clean, Busy
<1>6. Judging'
  BY <1>1, <1>2, <1>3 DEF Judging, Busy
<1>7. Judgements'
  BY <1>1, <1>3 DEF Judgements
<1> QED BY <1>1, <1>2, <1>3, <1>4, <1>5, <1>6, <1>7, JobHolds DEF TypeOK

LEMMA WaitHolds == ASSUME Inv, Wait PROVE Inv'
<1>1. /\ TypeOK /\ Planned /\ Clean /\ Judging /\ Judgements
      /\ job.pc = "judge" /\ job.left = {}
  BY DEF Inv, Wait
<1>2. UNCHANGED <<disk, stages, ws, worker>>
  BY DEF Wait
<1>3. \A w \in Workers : ~Busy(w) /\ ~Busy(w)'
  BY <1>2 DEF Wait, Busy
<1>4. CASE job.canceled
  <2>1. job' = Off /\ worker' = worker
    BY <1>4 DEF Wait
  <2> QED BY <1>1, <1>2, <1>3, <2>1, OffHolds DEF TypeOK
<1>5. CASE ~job.canceled
  <2>1. /\ job'.pc = "finish" /\ job'.spaces = job.spaces
        /\ job'.srcs = job.srcs /\ job'.ms = job.ms /\ job'.prev = job.prev
        /\ job'.todo = job.todo /\ job'.left = job.left
        /\ job'.results = job.results /\ job'.canceled = job.canceled
        /\ DOMAIN job' = DOMAIN Off
    BY <1>1, <1>5 DEF Wait, TypeOK, Off
  <2>2. Planned'
    BY <1>1, <2>1 DEF Planned, Running
  <2>3. Clean' /\ Judging'
    BY <1>3, <2>1 DEF Clean, Judging
  <2>4. Table(job.results, job.srcs, stages)'
    BY <1>1, <1>2, <1>5, <2>1 DEF Judgements
  <2>5. job.todo \subseteq DOMAIN job.results
    BY <1>1, <1>3, <1>5 DEF Judgements
  <2>6. Judgements'
    BY <1>1, <1>5, <2>1, <2>4, <2>5 DEF Judgements
  <2> QED BY <1>1, <1>2, <2>1, <2>2, <2>3, <2>6, JobHolds DEF TypeOK
<1> QED BY <1>4, <1>5

LEMMA CrashHolds == ASSUME Inv, Crash PROVE Inv'
<1>1. job' = Off /\ worker' = [w \in Workers |-> Idle] /\ UNCHANGED <<disk, stages, ws>>
  BY DEF Crash
<1>2. \A w \in Workers : ~Busy(w)'
  BY <1>1 DEF Busy, Idle
<1>3. worker' \in [Workers -> [pc : {"idle", "run", "rerun"}, m : Mutants \cup {0}, stage : Nat]]
  BY <1>1 DEF Idle
<1> QED BY <1>1, <1>2, <1>3, OffHolds
-----------------------------------------------------------------------------
LEMMA TakeHolds == ASSUME Inv, NEW w \in Workers, Take(w) PROVE Inv'
<1> DEFINE m == Min(job.left)
<1>1. /\ TypeOK /\ Planned /\ Clean /\ Judging /\ Judgements
      /\ job.pc = "judge" /\ ~Busy(w) /\ worker[w].pc = "idle"
      /\ UNCHANGED <<disk, stages>>
  BY DEF Inv, Take, Busy
<1>2. m \in job.left
  <2>1. job.left \subseteq Nat /\ job.left /= {}
    BY <1>1, SettingAssumption DEF Take, Planned, Running
  <2> QED BY <2>1, MinOfNats
<1>3. /\ job' = [job EXCEPT !.left = @ \ {m}]
      /\ ws' = [ws EXCEPT ![w][FileOf[m]] = Mutated(job.srcs[FileOf[m]], m)]
      /\ worker' = [worker EXCEPT ![w] = [pc |-> "run", m |-> m, stage |-> 0]]
  BY DEF Take
<1> HIDE DEF m
<1>4. m \in job.todo /\ m \in Mutants /\ m /= 0 /\ FileOf[m] \in Files /\ job.srcs \in Tree
  BY <1>1, <1>2, SettingAssumption DEF Planned, Running
<1>5. /\ job'.pc = job.pc /\ job'.spaces = job.spaces
      /\ job'.srcs = job.srcs /\ job'.ms = job.ms /\ job'.prev = job.prev
      /\ job'.todo = job.todo /\ job'.left = job.left \ {m}
      /\ job'.results = job.results /\ job'.canceled = job.canceled
      /\ DOMAIN job' = DOMAIN Off
  BY <1>1, <1>3 DEF TypeOK, Off
<1>6. /\ worker'[w] = [pc |-> "run", m |-> m, stage |-> 0]
      /\ \A v \in Workers : v /= w => worker'[v] = worker[v] /\ ws'[v] = ws[v]
      /\ ws'[w][FileOf[m]] = Mutated(job.srcs[FileOf[m]], m)
      /\ \A f \in Files : f /= FileOf[m] => ws'[w][f] = ws[w][f]
  BY <1>1, <1>3, <1>4 DEF TypeOK
<1>7. Busy(w)' /\ \A v \in Workers : v /= w => Busy(v)' = Busy(v) /\ Space(v)' = Space(v)
  BY <1>6 DEF Busy, Space
<1>8. TypeOK'
  <2>1. Mutated(job.srcs[FileOf[m]], m) \in [version : Version, mutant : Mutants \cup {0}]
    BY <1>4 DEF Mutated, Tree, Version
  <2>2. ws' \in [Workers -> [Files -> [version : Version, mutant : Mutants \cup {0}]]]
    BY <1>1, <1>3, <1>4, <2>1 DEF TypeOK
  <2>3. worker' \in [Workers -> [pc : {"idle", "run", "rerun"}, m : Mutants \cup {0}, stage : Nat]]
    BY <1>1, <1>3, <1>4 DEF TypeOK
  <2> QED BY <1>1, <1>5, <2>2, <2>3 DEF TypeOK
<1>9. Planned'
  BY <1>1, <1>5 DEF Planned, Running
<1>10. Clean'
  <2> SUFFICES ASSUME NEW v \in Workers, NEW f \in Files, ws'[v][f].mutant /= 0
               PROVE  Busy(v)' /\ f = FileOf[worker'[v].m]
    BY <1>1, <1>5 DEF Clean
  <2>1. CASE v = w
    <3>1. ws[w][f].mutant = 0
      BY <1>1 DEF Clean
    <3> QED BY <1>6, <1>7, <2>1, <3>1
  <2>2. CASE v /= w
    BY <1>1, <1>6, <1>7, <2>2 DEF Clean
  <2> QED BY <2>1, <2>2
<1>11. Judging'
  <2> SUFFICES ASSUME NEW v \in Workers, Busy(v)'
               PROVE  (/\ job.pc = "judge"
                       /\ worker[v].m \in job.todo
                       /\ ws[v][FileOf[worker[v].m]] =
                            Mutated(job.srcs[FileOf[worker[v].m]], worker[v].m)
                       /\ worker[v].stage <= stages
                       /\ worker[v].pc = "rerun" => worker[v].stage > 0
                       /\ ~job.canceled /\ worker[v].stage > 0 =>
                            LET fate == Fate[worker[v].m][Space(v)]
                            IN  /\ fate.kind \notin {"absent", "compile"}
                                /\ fate.kind \in {"fail", "hang"} => fate.stage >= worker[v].stage)'
    BY DEF Judging
  <2>1. CASE v = w
    BY <1>1, <1>4, <1>5, <1>6, <2>1 DEF TypeOK
  <2>2. CASE v /= w
    BY <1>1, <1>5, <1>6, <1>7, <2>2 DEF Judging
  <2> QED BY <2>1, <2>2
<1>12. Judgements'
  <2>1. Table(job.results, job.srcs, stages)' <=> Table(job.results, job.srcs, stages)
    BY <1>1, <1>5
  <2>2. ASSUME ~job.canceled
        PROVE  job'.todo \subseteq job'.left \cup DOMAIN job'.results
                                     \cup {worker'[v].m : v \in {v \in Workers : Busy(v)'}}
    <3> SUFFICES ASSUME NEW x \in job.todo, x \notin job'.left, x \notin DOMAIN job.results
                 PROVE  \E v \in Workers : Busy(v)' /\ x = worker'[v].m
      BY <1>5
    <3>1. CASE x = m
      BY <1>6, <1>7, <3>1
    <3>2. CASE x /= m
      <4>1. PICK v \in Workers : Busy(v) /\ x = worker[v].m
        BY <1>1, <1>5, <2>2, <3>2 DEF Judgements
      <4> QED BY <1>1, <1>6, <1>7, <4>1
    <3> QED BY <3>1, <3>2
  <2> QED BY <1>1, <1>5, <2>1, <2>2 DEF Judgements
<1>13. Good(disk.saved)'
  BY <1>1 DEF Inv
<1> QED BY <1>8, <1>9, <1>10, <1>11, <1>12, <1>13 DEF Inv
-----------------------------------------------------------------------------
(* Whatever was done with the worker, the rest of the run is as it was.    *)
LEMMA WorkHolds ==
  ASSUME Inv, NEW w \in Workers, Busy(w), UNCHANGED <<disk, stages, job, ws>>,
         NEW step \in [pc : {"run", "rerun"}, m : {worker[w].m}, stage : 0..stages],
         worker' = [worker EXCEPT ![w] = step],
         step.pc = "rerun" => step.stage > 0,
         ~job.canceled /\ step.stage > 0 =>
           LET fate == Fate[worker[w].m][Space(w)]
           IN  /\ fate.kind \notin {"absent", "compile"}
               /\ fate.kind \in {"fail", "hang"} => fate.stage >= step.stage
  PROVE  Inv'
<1>1. TypeOK /\ Planned /\ Clean /\ Judging /\ Judgements
  BY DEF Inv
<1>2. worker'[w] = step /\ \A v \in Workers : v /= w => worker'[v] = worker[v]
  BY <1>1 DEF TypeOK
<1>3. \A v \in Workers : Busy(v)' = Busy(v) /\ worker'[v].m = worker[v].m /\ Space(v)' = Space(v)
  BY <1>2 DEF Busy, Space
<1>4. TypeOK'
  <2>1. worker[w].m \in Mutants \cup {0} /\ stages \in Nat
    BY <1>1 DEF TypeOK
  <2>2. worker' \in [Workers -> [pc : {"idle", "run", "rerun"}, m : Mutants \cup {0}, stage : Nat]]
    BY <1>1, <2>1 DEF TypeOK
  <2> QED BY <1>1, <2>2 DEF TypeOK
<1>5. Planned' /\ Good(disk.saved)'
  BY <1>1 DEF Inv, Planned, Running
<1>6. Clean'
  BY <1>1, <1>3 DEF Clean
<1>7. Judging'
  <2> SUFFICES ASSUME NEW v \in Workers, Busy(v)'
               PROVE  (/\ job.pc = "judge"
                       /\ worker[v].m \in job.todo
                       /\ ws[v][FileOf[worker[v].m]] =
                            Mutated(job.srcs[FileOf[worker[v].m]], worker[v].m)
                       /\ worker[v].stage <= stages
                       /\ worker[v].pc = "rerun" => worker[v].stage > 0
                       /\ ~job.canceled /\ worker[v].stage > 0 =>
                            LET fate == Fate[worker[v].m][Space(v)]
                            IN  /\ fate.kind \notin {"absent", "compile"}
                                /\ fate.kind \in {"fail", "hang"} => fate.stage >= worker[v].stage)'
    BY DEF Judging
  <2>1. CASE v = w
    <3>1. step.stage <= stages
      BY <1>1 DEF TypeOK
    <3>2. /\ job.pc = "judge" /\ worker[w].m \in job.todo
          /\ ws[w][FileOf[worker[w].m]] = Mutated(job.srcs[FileOf[worker[w].m]], worker[w].m)
      BY <1>1 DEF Judging
    <3> QED BY <1>2, <1>3, <2>1, <3>1, <3>2
  <2>2. CASE v /= w
    BY <1>1, <1>2, <1>3, <2>2 DEF Judging
  <2> QED BY <2>1, <2>2
<1>8. Judgements'
  <2>1. Table(job.results, job.srcs, stages)' <=> Table(job.results, job.srcs, stages)
    OBVIOUS
  <2>2. {worker'[v].m : v \in {v \in Workers : Busy(v)'}} =
          {worker[v].m : v \in {v \in Workers : Busy(v)}}
    BY <1>3
  <2> QED BY <1>1, <2>1, <2>2 DEF Judgements
<1> QED BY <1>4, <1>5, <1>6, <1>7, <1>8 DEF Inv

(* A verdict that is earned, or of an interrupted run, may be taken down.  *)
LEMMA JudgedHolds ==
  ASSUME Inv, NEW w \in Workers, Busy(w), UNCHANGED <<disk, stages>>,
         NEW status \in Statuses, NEW stage \in Nat, Judged(w, status, stage),
         ~job.canceled => Earned(worker[w].m, [status |-> status, stage |-> stage],
                                 [stages |-> stages], Space(w))
  PROVE  Inv'
<1> DEFINE m == worker[w].m
           verdict == [status |-> status, stage |-> stage]
           f == FileOf[m]
<1>1. /\ TypeOK /\ Planned /\ Clean /\ Judging /\ Judgements /\ job.pc = "judge"
      /\ m \in job.todo
  BY DEF Inv, Judging
<1>2. m \in Mutants /\ Space(w) \in Tree /\ Space(w)[f] = job.srcs[f]
  BY <1>1, OneMutant
<1>3. f \in Files /\ job.srcs \in Tree
  BY <1>1, <1>2, SettingAssumption DEF Planned, Running
<1>4. /\ job' = [job EXCEPT !.results = Enter(m, verdict, @)]
      /\ worker' = [worker EXCEPT ![w] = Idle]
      /\ ws' = [ws EXCEPT ![w][f] = Source(job.srcs[f])]
  BY DEF Judged
<1>5. verdict \in Verdicts
  BY DEF Verdicts
<1>6. ~job.canceled => Earned(m, verdict, [stages |-> stages], Space(w))
  OBVIOUS
<1> HIDE DEF verdict, m, f
<1>7. /\ job'.pc = job.pc /\ job'.spaces = job.spaces
      /\ job'.srcs = job.srcs /\ job'.ms = job.ms /\ job'.prev = job.prev
      /\ job'.todo = job.todo /\ job'.left = job.left
      /\ job'.results = Enter(m, verdict, job.results) /\ job'.canceled = job.canceled
      /\ DOMAIN job' = DOMAIN Off
  BY <1>1, <1>4 DEF TypeOK, Off
<1>8. /\ DOMAIN job'.results = {m} \cup DOMAIN job.results
      /\ job'.results[m] = verdict
      /\ \A x \in DOMAIN job.results : x /= m => job'.results[x] = job.results[x]
  BY <1>7 DEF Enter
<1>9. /\ worker'[w] = Idle
      /\ \A v \in Workers : v /= w => worker'[v] = worker[v] /\ ws'[v] = ws[v]
      /\ ws'[w][f] = Source(job.srcs[f])
      /\ \A g \in Files : g /= f => ws'[w][g] = ws[w][g]
  BY <1>1, <1>3, <1>4 DEF TypeOK
<1>10. ~Busy(w)' /\ \A v \in Workers : v /= w => Busy(v)' = Busy(v) /\ Space(v)' = Space(v)
  BY <1>9 DEF Busy, Space, Idle
<1>11. TypeOK'
  <2>1. Source(job.srcs[f]) \in [version : Version, mutant : Mutants \cup {0}]
    BY <1>3 DEF Source, Tree, Version
  <2>2. ws' \in [Workers -> [Files -> [version : Version, mutant : Mutants \cup {0}]]]
    BY <1>1, <1>3, <1>4, <2>1 DEF TypeOK
  <2>3. worker' \in [Workers -> [pc : {"idle", "run", "rerun"}, m : Mutants \cup {0}, stage : Nat]]
    BY <1>1, <1>4 DEF TypeOK, Idle
  <2> QED BY <1>1, <1>7, <2>2, <2>3 DEF TypeOK
<1>12. Planned' /\ Good(disk.saved)'
  <2>1. Planned'
    BY <1>1, <1>7 DEF Planned, Running
  <2> QED BY <1>1, <2>1 DEF Inv
<1>13. Clean'
  <2> SUFFICES ASSUME NEW v \in Workers, NEW g \in Files, ws'[v][g].mutant /= 0
               PROVE  Busy(v)' /\ g = FileOf[worker'[v].m]
    BY <1>1, <1>7 DEF Clean
  <2>1. CASE v = w
    <3>1. g /= f
      BY <1>9, <2>1 DEF Source
    <3>2. ws[w][g].mutant = 0
      BY <1>1, <3>1 DEF Clean, f, m
    <3> QED BY <1>9, <2>1, <3>1, <3>2
  <2>2. CASE v /= w
    BY <1>1, <1>9, <1>10, <2>2 DEF Clean
  <2> QED BY <2>1, <2>2
<1>14. Judging'
  <2> SUFFICES ASSUME NEW v \in Workers, Busy(v)'
               PROVE  (/\ job.pc = "judge"
                       /\ worker[v].m \in job.todo
                       /\ ws[v][FileOf[worker[v].m]] =
                            Mutated(job.srcs[FileOf[worker[v].m]], worker[v].m)
                       /\ worker[v].stage <= stages
                       /\ worker[v].pc = "rerun" => worker[v].stage > 0
                       /\ ~job.canceled /\ worker[v].stage > 0 =>
                            LET fate == Fate[worker[v].m][Space(v)]
                            IN  /\ fate.kind \notin {"absent", "compile"}
                                /\ fate.kind \in {"fail", "hang"} => fate.stage >= worker[v].stage)'
    BY DEF Judging
  <2> QED BY <1>1, <1>7, <1>9, <1>10 DEF Judging
<1>15. ~job.canceled => Table(job.results, job.srcs, stages)'
  <2> SUFFICES ASSUME ~job.canceled PROVE Table(job'.results, job'.srcs, stages')
    OBVIOUS
  <2>1. Table(job.results, job.srcs, stages)
    BY <1>1 DEF Judgements
  <2>2. DOMAIN job'.results \subseteq Mutants
    BY <1>2, <1>8, <2>1 DEF Table, m
  <2> SUFFICES ASSUME NEW x \in DOMAIN job'.results
               PROVE  /\ job'.results[x] \in Verdicts
                      /\ \E t \in Tree : /\ t[FileOf[x]] = job.srcs[FileOf[x]]
                                         /\ Earned(x, job'.results[x], [stages |-> stages], t)
    BY <1>7, <2>2 DEF Table
  <2>3. CASE x = m
    BY <1>2, <1>5, <1>6, <1>8, <2>3 DEF f, m
  <2>4. CASE x /= m
    <3>1. x \in DOMAIN job.results /\ job'.results[x] = job.results[x]
      BY <1>8, <2>4
    <3> QED BY <2>1, <3>1 DEF Table
  <2> QED BY <2>3, <2>4
<1>16. ASSUME ~job.canceled
       PROVE  job'.todo \subseteq job'.left \cup DOMAIN job'.results
                                    \cup {worker'[v].m : v \in {v \in Workers : Busy(v)'}}
  <2> SUFFICES ASSUME NEW x \in job.todo, x \notin job.left, x \notin DOMAIN job.results, x /= m
               PROVE  \E v \in Workers : Busy(v)' /\ x = worker'[v].m
    BY <1>7, <1>8
  <2>1. PICK v \in Workers : Busy(v) /\ x = worker[v].m
    BY <1>1, <1>16 DEF Judgements
  <2>2. v /= w
    BY <2>1 DEF m
  <2> QED BY <1>9, <1>10, <2>1, <2>2
<1>17. Judgements'
  BY <1>1, <1>7, <1>15, <1>16 DEF Judgements
<1> QED BY <1>11, <1>12, <1>13, <1>14, <1>17 DEF Inv

(* A test that the mutant passes takes it past the stage, to its survival  *)
(* after the last.                                                         *)
LEMMA PassedHolds ==
  ASSUME Inv, NEW w \in Workers, Busy(w), UNCHANGED <<disk, stages>>, Passed(w),
         LET fate == Fate[worker[w].m][Space(w)]
         IN  ~job.canceled => /\ fate.kind \notin {"absent", "compile"}
                              /\ fate.kind \in {"fail", "hang"} => fate.stage > worker[w].stage
  PROVE  Inv'
<1> DEFINE s == worker[w].stage
           fate == Fate[worker[w].m][Space(w)]
<1>1. TypeOK /\ Planned /\ Clean /\ Judging
  BY DEF Inv
<1>2. s \in Nat /\ stages \in Nat /\ s <= stages /\ job.pc = "judge"
  BY <1>1 DEF TypeOK, Judging
<1>3. worker[w].m \in Mutants /\ Space(w) \in Tree
  BY <1>1, OneMutant
<1>4. fate.kind \in Kinds /\ fate.stage \in Nat
  BY <1>1, <1>3, Fates
<1>5. ~job.canceled => /\ fate.kind \notin {"absent", "compile"}
                       /\ fate.kind \in {"fail", "hang"} => fate.stage > s
  OBVIOUS
<1>6. CASE s = stages
  <2>1. ~job.canceled => Earned(worker[w].m, [status |-> "survived", stage |-> 0],
                                [stages |-> stages], Space(w))
    BY <1>4, <1>5, <1>6 DEF Earned, Kinds
  <2>2. Judged(w, "survived", 0)
    BY <1>6 DEF Passed
  <2>3. "survived" \in Statuses /\ 0 \in Nat
    BY DEF Statuses
  <2> HIDE DEF s, fate
  <2> QED BY <2>1, <2>2, <2>3, JudgedHolds
<1>7. CASE s /= stages
  <2> DEFINE step == [pc |-> "run", m |-> worker[w].m, stage |-> s + 1]
  <2>1. s + 1 \in 0..stages
    BY <1>2, <1>7
  <2>2. UNCHANGED <<disk, stages, job, ws>> /\ worker' = [worker EXCEPT ![w] = step]
    <3>1. worker[w] \in [pc : {"idle", "run", "rerun"}, m : Mutants \cup {0}, stage : Nat]
      BY <1>1 DEF TypeOK
    <3>2. worker' = [worker EXCEPT ![w].pc = "run", ![w].stage = s + 1] /\ UNCHANGED <<job, ws>>
      BY <1>7 DEF Passed
    <3>3. worker' = [worker EXCEPT ![w] = [worker[w] EXCEPT !.pc = "run", !.stage = s + 1]]
      BY <1>1, <3>2 DEF TypeOK
    <3>4. [worker[w] EXCEPT !.pc = "run", !.stage = s + 1] = step
      <4> DEFINE r == [worker[w] EXCEPT !.pc = "run"]
      <4>1. r = [pc |-> "run", m |-> worker[w].m, stage |-> s]
        BY <3>1
      <4>2. [worker[w] EXCEPT !.pc = "run", !.stage = s + 1] = [r EXCEPT !.stage = s + 1]
        OBVIOUS
      <4> HIDE DEF r
      <4> QED BY <4>1, <4>2
    <3> QED BY <3>2, <3>3, <3>4
  <2>3. step \in [pc : {"run", "rerun"}, m : {worker[w].m}, stage : 0..stages]
    BY <2>1
  <2>4. ~job.canceled /\ step.stage > 0 =>
          /\ fate.kind \notin {"absent", "compile"}
          /\ fate.kind \in {"fail", "hang"} => fate.stage >= step.stage
    BY <1>2, <1>4, <1>5
  <2>5. step.pc /= "rerun"
    OBVIOUS
  <2> HIDE DEF step
  <2> QED BY <2>2, <2>3, <2>4, <2>5, WorkHolds
<1> QED BY <1>6, <1>7

(* What a worker sees of a stage is what becomes of its mutant there.      *)
LEMMA Seen ==
  ASSUME Inv, NEW w \in Workers, Busy(w), NEW stage
  PROVE  LET fate == Fate[worker[w].m][Space(w)]
         IN  /\ fate.kind \in Kinds \ {"absent"} /\ fate.stage \in Nat /\ fate.stage > 0
             /\ BuildFails(ws[w]) <=> fate.kind = "compile"
             /\ "hang" \in StageVerdict(ws[w], stage) <=> fate.kind = "hang" /\ fate.stage = stage
             /\ StageVerdict(ws[w], stage) = {} <=>
                  ~(fate.kind \in {"fail", "hang"} /\ fate.stage = stage)
<1> DEFINE fate == Fate[worker[w].m][Space(w)]
<1>1. /\ TypeOK /\ Planned /\ Clean /\ Judging /\ job.pc = "judge"
      /\ worker[w].m \in job.todo
  BY DEF Inv, Judging
<1>2. /\ worker[w].m \in Mutants /\ Space(w) \in Tree
      /\ Space(w)[FileOf[worker[w].m]] = job.srcs[FileOf[worker[w].m]]
      /\ Faults(ws[w]) = {fate}
  BY <1>1, OneMutant
<1>3. fate.kind \in Kinds /\ fate.stage \in Nat /\ fate.stage > 0
  BY <1>1, <1>2, Fates
<1>4. fate.kind /= "absent"
  BY <1>1, <1>2 DEF Planned, Running
<1> HIDE DEF fate
<1>5. BuildFails(ws[w]) <=> fate.kind = "compile"
  BY <1>2, <1>4 DEF BuildFails
<1>6. CASE fate.kind \in {"fail", "hang"} /\ fate.stage = stage
  <2>1. StageVerdict(ws[w], stage) = {fate.kind}
    BY <1>2, <1>6 DEF StageVerdict
  <2> QED BY <1>3, <1>4, <1>5, <1>6, <2>1 DEF fate
<1>7. CASE ~(fate.kind \in {"fail", "hang"} /\ fate.stage = stage)
  <2>1. StageVerdict(ws[w], stage) = {}
    BY <1>2, <1>7 DEF StageVerdict
  <2> QED BY <1>3, <1>4, <1>5, <1>7, <2>1 DEF fate
<1> QED BY <1>6, <1>7

LEMMA BuildHolds == ASSUME Inv, NEW w \in Workers, Build(w) PROVE Inv'
<1> DEFINE fate == Fate[worker[w].m][Space(w)]
<1>1. Busy(w) /\ UNCHANGED <<disk, stages>> /\ worker[w].stage = 0
  BY DEF Build, Busy
<1>2. /\ fate.kind \in Kinds \ {"absent"} /\ fate.stage > 0
      /\ BuildFails(ws[w]) <=> fate.kind = "compile"
  BY <1>1, Seen
<1>3. CASE ~BuildFails(ws[w]) /\ Passed(w)
  <2>1. fate.kind \notin {"absent", "compile"} /\ fate.stage > worker[w].stage
    BY <1>1, <1>2, <1>3
  <2> HIDE DEF fate
  <2> QED BY <1>1, <1>3, <2>1, PassedHolds DEF fate
<1>4. CASE (BuildFails(ws[w]) \/ job.canceled) /\ Judged(w, "compile", 0)
  <2>1. ~job.canceled => Earned(worker[w].m, [status |-> "compile", stage |-> 0],
                                [stages |-> stages], Space(w))
    BY <1>2, <1>4 DEF Earned
  <2>2. "compile" \in Statuses /\ 0 \in Nat
    BY DEF Statuses
  <2> HIDE DEF fate
  <2> QED BY <1>1, <1>4, <2>1, <2>2, JudgedHolds
<1> QED BY <1>3, <1>4 DEF Build

(* A kill is earned by a stage that fails, unless the run was interrupted. *)
LEMMA KilledHolds ==
  ASSUME Inv, NEW w \in Workers, Busy(w), UNCHANGED <<disk, stages>>,
         Judged(w, "killed", worker[w].stage),
         StageVerdict(ws[w], worker[w].stage) /= {} \/ job.canceled
  PROVE  Inv'
<1>1. LET fate == Fate[worker[w].m][Space(w)]
      IN  ~job.canceled => fate.kind \in {"fail", "hang"} /\ fate.stage = worker[w].stage
  BY Seen
<1>2. ~job.canceled => Earned(worker[w].m, [status |-> "killed", stage |-> worker[w].stage],
                              [stages |-> stages], Space(w))
  BY <1>1 DEF Earned
<1>3. "killed" \in Statuses /\ worker[w].stage \in Nat
  BY DEF Statuses, Inv, TypeOK
<1> QED BY <1>2, <1>3, JudgedHolds

(* A stage that was seen to pass is passed, at whatever attempt.           *)
LEMMA StagePassed ==
  ASSUME Inv, NEW w \in Workers, Busy(w), UNCHANGED <<disk, stages>>, worker[w].stage > 0,
         StageVerdict(ws[w], worker[w].stage) = {}, Passed(w)
  PROVE  Inv'
<1> DEFINE fate == Fate[worker[w].m][Space(w)]
           s == worker[w].stage
<1>1. fate.stage \in Nat /\ ~(fate.kind \in {"fail", "hang"} /\ fate.stage = s)
  BY Seen
<1>2. ~job.canceled => /\ fate.kind \notin {"absent", "compile"}
                       /\ fate.kind \in {"fail", "hang"} => fate.stage >= s
  BY DEF Inv, Judging
<1>3. s \in Nat
  BY DEF Inv, TypeOK
<1>4. ~job.canceled => /\ fate.kind \notin {"absent", "compile"}
                       /\ fate.kind \in {"fail", "hang"} => fate.stage > s
  BY <1>1, <1>2, <1>3
<1> HIDE DEF fate, s
<1> QED BY <1>4, PassedHolds DEF fate, s

LEMMA StageHolds == ASSUME Inv, NEW w \in Workers, Stage(w) PROVE Inv'
<1> DEFINE kinds == StageVerdict(ws[w], worker[w].stage)
           step == [pc |-> "rerun", m |-> worker[w].m, stage |-> worker[w].stage]
<1>1. Busy(w) /\ UNCHANGED <<disk, stages>> /\ worker[w].pc = "run" /\ worker[w].stage > 0
  BY DEF Stage, Busy
<1>2. CASE kinds = {} /\ Passed(w)
  BY <1>1, <1>2, StagePassed
<1>3. CASE "hang" \in kinds /\ Judged(w, "killed", worker[w].stage)
  <2>1. StageVerdict(ws[w], worker[w].stage) /= {}
    BY <1>3
  <2> QED BY <1>1, <1>3, <2>1, KilledHolds
<1>4. CASE worker' = [worker EXCEPT ![w].pc = "rerun"] /\ UNCHANGED <<job, ws>>
  <2>1. /\ worker \in [Workers -> [pc : {"idle", "run", "rerun"}, m : Mutants \cup {0},
                                   stage : Nat]]
        /\ stages \in Nat
    BY DEF Inv, TypeOK
  <2>2. worker[w] \in [pc : {"idle", "run", "rerun"}, m : Mutants \cup {0}, stage : Nat]
    BY <2>1
  <2>3. worker' = [worker EXCEPT ![w] = step]
    <3>1. [worker[w] EXCEPT !.pc = "rerun"] = step
      BY <2>2
    <3>2. worker' = [worker EXCEPT ![w] = [worker[w] EXCEPT !.pc = "rerun"]]
      BY <1>4, <2>1
    <3> QED BY <3>1, <3>2
  <2>4. worker[w].stage \in 0..stages
    BY <1>1, <2>1, <2>2 DEF Inv, Judging
  <2>5. step \in [pc : {"run", "rerun"}, m : {worker[w].m}, stage : 0..stages]
    BY <2>4
  <2>6. ~job.canceled /\ step.stage > 0 =>
          LET fate == Fate[worker[w].m][Space(w)]
          IN  /\ fate.kind \notin {"absent", "compile"}
              /\ fate.kind \in {"fail", "hang"} => fate.stage >= step.stage
    BY <1>1 DEF Inv, Judging
  <2>7. step.stage > 0
    BY <1>1
  <2> HIDE DEF step
  <2> QED BY <1>1, <1>4, <2>3, <2>5, <2>6, <2>7, WorkHolds
<1> QED BY <1>2, <1>3, <1>4 DEF Stage

LEMMA FailsHolds == ASSUME Inv, NEW w \in Workers, Fails(w) PROVE Inv'
<1> DEFINE kinds == StageVerdict(ws[w], worker[w].stage)
<1>1. Busy(w) /\ UNCHANGED <<disk, stages>> /\ worker[w].pc = "rerun"
  BY DEF Fails, Busy
<1>2. worker[w].stage > 0
  BY <1>1 DEF Inv, Judging
<1>3. CASE kinds = {} /\ Passed(w)
  BY <1>1, <1>2, <1>3, StagePassed
<1>4. CASE (kinds /= {} \/ job.canceled) /\ Judged(w, "killed", worker[w].stage)
  BY <1>1, <1>4, KilledHolds
<1> QED BY <1>3, <1>4 DEF Fails
-----------------------------------------------------------------------------
(* The triage tells survivors from equivalents, which are earned alike.    *)
LEMMA RetriageKeeps ==
  ASSUME NEW results, NEW srcs, NEW given, Table(results, srcs, given)
  PROVE  Table(Retriage(results), srcs, given)
<1> DEFINE last == Retriage(results)
<1>1. DOMAIN last = DOMAIN results /\ DOMAIN results \subseteq Mutants
  BY DEF Retriage, Apply, Table
<1> SUFFICES ASSUME NEW m \in DOMAIN results
             PROVE  /\ last[m] \in Verdicts
                    /\ \E t \in Tree : /\ t[FileOf[m]] = srcs[FileOf[m]]
                                       /\ Earned(m, last[m], [stages |-> given], t)
  BY <1>1 DEF Table
<1> DEFINE v == results[m]
           lasting == \/ last[m] = v
                      \/ /\ v.status \in {"survived", "equivalent"}
                         /\ \/ last[m] = [status |-> "survived", stage |-> v.stage]
                            \/ last[m] = [status |-> "equivalent", stage |-> v.stage]
<1>2. v \in Verdicts
  BY DEF Table
<1>3. PICK t \in Tree : t[FileOf[m]] = srcs[FileOf[m]] /\ Earned(m, v, [stages |-> given], t)
  BY DEF Table
<1>4. lasting
  <2> DEFINE first == [x \in DOMAIN results |->
                         IF results[x].status = "equivalent"
                         THEN [results[x] EXCEPT !.status = "survived"] ELSE results[x]]
  <2>1. \A status : [v EXCEPT !.status = status] = [status |-> status, stage |-> v.stage]
    BY <1>2 DEF Verdicts
  <2>2. first[m] = IF v.status = "equivalent" THEN [status |-> "survived", stage |-> v.stage] ELSE v
    BY <2>1
  <2>3. last = Apply(first)
    BY DEF Retriage
  <2>4. m \in DOMAIN first
    OBVIOUS
  <2> HIDE DEF first
  <2>5. last[m] = IF first[m].status = "survived" /\ m \in Triage
                  THEN [first[m] EXCEPT !.status = "equivalent"] ELSE first[m]
    BY <2>3, <2>4 DEF Apply
  <2>6. first[m] \in Verdicts /\ first[m].stage = v.stage
    BY <1>2, <2>2 DEF Verdicts, Statuses
  <2>7. [first[m] EXCEPT !.status = "equivalent"] = [status |-> "equivalent", stage |-> v.stage]
    BY <2>6 DEF Verdicts
  <2> QED BY <2>2, <2>5, <2>7
<1> HIDE DEF last
<1>5. last[m] \in Verdicts
  BY <1>2, <1>4 DEF Verdicts, Statuses
<1>6. Earned(m, last[m], [stages |-> given], t)
  <2>1. CASE last[m] = v
    BY <1>3, <2>1
  <2>2. CASE last[m] /= v
    <3>1. v.status \in {"survived", "equivalent"} /\ last[m].status \in {"survived", "equivalent"}
      BY <1>4, <2>2
    <3> QED BY <1>3, <3>1 DEF Earned
  <2> QED BY <2>1, <2>2
<1> QED BY <1>3, <1>5, <1>6

(* A verdict of an earlier run that stands does not depend on how many     *)
(* stages there were then.                                                 *)
LEMMA MergeIsEarned ==
  ASSUME Inv, job.pc = "finish"
  PROVE  Table(Merge, job.srcs, stages)
<1>1. /\ Table(job.results, job.srcs, stages)
      /\ job.ms \subseteq Mutants
      /\ Table(job.prev.results, job.prev.sources, job.prev.stages)
  BY DEF Inv, Judgements, Planned, Running, Good
<1>2. job.todo \subseteq DOMAIN job.results
  <2>1. \A w \in Workers : ~Busy(w)
    BY DEF Inv, Judging
  <2> QED BY <2>1 DEF Inv, Judgements
<1> SUFFICES ASSUME NEW m \in job.ms
             PROVE  /\ Merge[m] \in Verdicts
                    /\ \E t \in Tree : /\ t[FileOf[m]] = job.srcs[FileOf[m]]
                                       /\ Earned(m, Merge[m], [stages |-> stages], t)
  BY <1>1 DEF Table, Merge
<1>3. CASE m \in DOMAIN job.results
  <2>1. Merge[m] = job.results[m]
    BY <1>3 DEF Merge
  <2> QED BY <1>1, <1>3, <2>1 DEF Table
<1>4. CASE m \notin DOMAIN job.results
  <2> DEFINE verdict == job.prev.results[m]
  <2>1. Merge[m] = verdict
    BY <1>4 DEF Merge
  <2>2. /\ m \in DOMAIN job.prev.results
        /\ verdict.status \in {"killed", "compile"}
        /\ job.prev.sources[FileOf[m]] = job.srcs[FileOf[m]]
    BY <1>2, <1>4 DEF Inv, Planned, Running
  <2>3. verdict \in Verdicts
    BY <1>1, <2>2 DEF Table
  <2>4. PICK t \in Tree : /\ t[FileOf[m]] = job.srcs[FileOf[m]]
                          /\ Earned(m, verdict, [stages |-> job.prev.stages], t)
    BY <1>1, <2>2 DEF Table
  <2> HIDE DEF verdict
  <2>5. Earned(m, verdict, [stages |-> stages], t)
    BY <2>2, <2>4 DEF Earned
  <2> QED BY <2>1, <2>3, <2>4, <2>5
<1> QED BY <1>3, <1>4

LEMMA FinishHolds == ASSUME Inv, Finish PROVE Inv'
<1>1. /\ TypeOK /\ Planned /\ Judging /\ Judgements /\ job.pc = "finish"
  BY DEF Inv, Finish
<1>2. /\ UNCHANGED <<stages, ws, worker>>
      /\ disk'.tree = disk.tree /\ DOMAIN disk' = {"tree", "saved", "triage"}
      /\ disk'.saved = [NoReport EXCEPT !.state = "torn"]
  BY <1>1 DEF Finish, TypeOK
<1>3. /\ job'.pc = "write" /\ job'.results = Retriage(Merge)
      /\ job'.srcs = job.srcs /\ job'.ms = job.ms /\ job'.prev = job.prev
      /\ job'.canceled = job.canceled /\ DOMAIN job' = DOMAIN Off
  BY <1>1 DEF Finish, TypeOK, Off
<1>4. \A w \in Workers : ~Busy(w)'
  BY <1>1, <1>2 DEF Judging, Busy
<1>5. Good(disk.saved)'
  <2>1. disk'.saved.stages = 0 /\ disk'.saved.state = "torn" /\ disk'.saved.results = <<>>
    BY <1>2 DEF NoReport
  <2> QED BY <2>1, NoVerdicts DEF Good
<1>6. TypeOK'
  BY <1>1, <1>2, <1>3 DEF TypeOK
<1>7. Table(Retriage(Merge), job.srcs, stages)
  BY <1>1, MergeIsEarned, RetriageKeeps
<1>8. job.ms /= {} /\ job.srcs \in Tree /\ stages \in Nat
  BY <1>1 DEF Planned, Running, TypeOK
<1>9. Good([state |-> "whole", results |-> job'.results, sources |-> job'.srcs,
            stages |-> IF job'.ms = {} THEN job'.prev.stages ELSE stages'])
  BY <1>2, <1>3, <1>7, <1>8 DEF Good
<1>10. Planned' /\ Clean' /\ Judging' /\ Judgements'
  BY <1>3, <1>4, <1>9 DEF Planned, Running, Clean, Judging, Judgements
<1> QED BY <1>1, <1>5, <1>6, <1>10 DEF Inv

LEMMA ReportHolds == ASSUME Inv, Report PROVE Inv'
<1>1. /\ TypeOK /\ Judging /\ Good(disk.saved)
      /\ job.pc = "idle" /\ disk.saved.state = "whole"
  BY DEF Inv, Report, Readable
<1>2. /\ UNCHANGED <<stages, ws, worker>>
      /\ disk'.tree = disk.tree /\ DOMAIN disk' = {"tree", "saved", "triage"}
      /\ disk'.saved = [NoReport EXCEPT !.state = "torn"]
  BY <1>1 DEF Report, TypeOK
<1>3. /\ job'.pc = "write" /\ job'.results = Retriage(disk.saved.results)
      /\ job'.srcs = disk.saved.sources /\ job'.ms = {} /\ job'.prev = disk.saved
      /\ job'.canceled = FALSE /\ DOMAIN job' = DOMAIN Off
  BY DEF Report, Off
<1>4. \A w \in Workers : ~Busy(w)'
  BY <1>1, <1>2 DEF Judging, Busy
<1>5. Good(disk.saved)'
  <2>1. disk'.saved.stages = 0 /\ disk'.saved.state = "torn" /\ disk'.saved.results = <<>>
    BY <1>2 DEF NoReport
  <2> QED BY <2>1, NoVerdicts DEF Good
<1>6. TypeOK'
  BY <1>1, <1>2, <1>3 DEF TypeOK
<1>7. /\ Table(Retriage(disk.saved.results), disk.saved.sources, disk.saved.stages)
      /\ disk.saved.sources \in Tree /\ disk.saved.stages \in Nat
  BY <1>1, RetriageKeeps DEF Good
<1>8. Good([state |-> "whole", results |-> job'.results, sources |-> job'.srcs,
            stages |-> IF job'.ms = {} THEN job'.prev.stages ELSE stages'])
  BY <1>3, <1>7 DEF Good
<1>9. Planned' /\ Clean' /\ Judging' /\ Judgements'
  BY <1>3, <1>4, <1>8 DEF Planned, Running, Clean, Judging, Judgements
<1> QED BY <1>1, <1>5, <1>6, <1>9 DEF Inv

LEMMA WriteHolds == ASSUME Inv, Write PROVE Inv'
<1> DEFINE r == [state |-> "whole", results |-> job.results, sources |-> job.srcs,
                 stages |-> IF job.ms = {} THEN job.prev.stages ELSE stages]
<1>1. TypeOK /\ Judging /\ job.pc = "write" /\ Good(r)
  BY DEF Inv, Judgements, Write
<1>2. disk' = [disk EXCEPT !.saved = r] /\ job' = Off /\ UNCHANGED <<stages, ws, worker>>
  BY DEF Write
<1> HIDE DEF r
<1>3. disk'.tree = disk.tree /\ disk'.saved = r /\ DOMAIN disk' = {"tree", "saved", "triage"}
  BY <1>1, <1>2 DEF TypeOK
<1>4. job'.pc = "idle" /\ job'.canceled = FALSE
  BY <1>2 DEF Off
<1>5. \A w \in Workers : ~Busy(w)'
  BY <1>1, <1>2 DEF Judging, Busy
<1>6. TypeOK'
  BY <1>1, <1>2, <1>3, <1>4 DEF TypeOK
<1>7. Planned' /\ Clean' /\ Judging' /\ Judgements'
  BY <1>4, <1>5 DEF Planned, Running, Clean, Judging, Judgements
<1>8. Good(disk.saved)'
  BY <1>1, <1>3
<1> QED BY <1>1, <1>6, <1>7, <1>8 DEF Inv
-----------------------------------------------------------------------------
LEMMA StutterHolds == ASSUME Inv, UNCHANGED mutVars PROVE Inv'
<1>1. \A w \in Workers : Busy(w)' = Busy(w) /\ Space(w)' = Space(w)
  BY DEF mutVars, Busy, Space
<1>2. TypeOK' /\ Good(disk.saved)' /\ Planned'
  BY DEF mutVars, Inv, TypeOK, Planned, Running
<1>3. Clean' /\ Judging' /\ Judgements'
  BY <1>1 DEF mutVars, Inv, Clean, Judging, Judgements
<1> QED BY <1>2, <1>3 DEF Inv

THEOREM InvHolds == Spec => []Inv
<1>1. Init => Inv
  BY InitHolds
<1>2. Inv /\ [Next]_mutVars => Inv'
  BY AddStageHolds, BaselineHolds, BuildHolds, CopyHolds, CrashHolds, EditHolds, ExplainHolds,
     FailsHolds, FinishHolds, InterruptHolds, LoadHolds, ReportHolds, SkipHolds, StageHolds,
     StutterHolds, TakeHolds, WaitHolds, WriteHolds DEF Next
<1> QED BY <1>1, <1>2, PTL DEF Spec

(* Every saved verdict is what the stages say of the mutant in a tree with *)
(* its file as it was saved (runner.go:81, save.go:18), for every package, *)
(* every fate of its mutants, and any number of edits, workers, runs,      *)
(* interrupts, crashes and flaky stages.                                   *)
THEOREM VerdictsAreEarned == Spec => []VerdictsEarned
<1>1. Inv => VerdictsEarned
  <2> SUFFICES ASSUME Inv, NEW m \in DOMAIN disk.saved.results
               PROVE  \E t \in Tree : /\ t[FileOf[m]] = disk.saved.sources[FileOf[m]]
                                      /\ Earned(m, disk.saved.results[m], disk.saved, t)
    BY DEF VerdictsEarned
  <2>1. PICK t \in Tree : /\ t[FileOf[m]] = disk.saved.sources[FileOf[m]]
                          /\ Earned(m, disk.saved.results[m], [stages |-> disk.saved.stages], t)
    BY DEF Inv, Good, Table
  <2>2. Earned(m, disk.saved.results[m], disk.saved, t)
    BY <2>1 DEF Earned
  <2> QED BY <2>1, <2>2
<1> QED BY <1>1, InvHolds, PTL
-----------------------------------------------------------------------------
(***************************************************************************)
(* Construction.                                                           *)
(***************************************************************************)
(* The first check that fails, if one does.                                *)
FirstOf(s, n, r) ==
  \/ (\A i \in 1..n : ~s[i].fails) /\ r = NoError
  \/ \E i \in 1..n : /\ s[i].fails
                     /\ \A j \in 1..(i-1) : ~s[j].fails
                     /\ r = [what |-> s[i].what, about |-> s[i].about]

(* First finds it.                                                         *)
LEMMA FirstIs ==
  ASSUME NEW n \in Nat, NEW s, DOMAIN s = 1..n
  PROVE  FirstOf(s, n, First(s))
<1> DEFINE bad == {i \in 1..n : s[i].fails}
<1>1. CASE bad = {}
  BY <1>1 DEF First, FirstOf
<1>2. CASE bad /= {}
  <2>1. IsFiniteSet(bad) /\ bad \subseteq Int
    BY FS_Interval, FS_Subset
  <2>2. First(s) = [what |-> s[Min(bad)].what, about |-> s[Min(bad)].about]
    BY <1>2 DEF First
  <2> HIDE DEF bad
  <2>3. Min(bad) \in bad /\ \A x \in bad : Min(bad) <= x
    BY <1>2, <2>1, MinIs
  <2>4. ASSUME NEW j \in 1..(Min(bad)-1) PROVE ~s[j].fails
    BY <2>3 DEF bad
  <2> QED BY <2>2, <2>3, <2>4 DEF bad, FirstOf
<1> QED BY <1>1, <1>2
(* What a sequence of checks, some of them one part per entry, comes to:   *)
(* the first that fails, and those of `pre` before those of the parts.     *)
Says(r, c) == c.fails /\ r = [what |-> c.what, about |-> c.about]

Judges(pre, parts, n, w, r) ==
  \/ /\ r = NoError
     /\ \A i \in DOMAIN pre : ~pre[i].fails
     /\ \A i \in 1..n : \A j \in 1..w : ~parts[i][j].fails
  \/ \E i \in DOMAIN pre : Says(r, pre[i]) /\ \A j \in 1..(i-1) : ~pre[j].fails
  \/ /\ \A i \in DOMAIN pre : ~pre[i].fails
     /\ \E i \in 1..n : \E j \in 1..w : Says(r, parts[i][j])

LEMMA FirstJudges ==
  ASSUME NEW X, NEW n \in Nat, NEW w \in Nat, NEW parts \in [1..n -> Seq(X)],
         \A i \in 1..n : Len(parts[i]) = w, NEW pre \in Seq(X)
  PROVE  Judges(pre, parts, n, w, First(pre \o FlattenSeq(parts)))
<1> DEFINE rest == FlattenSeq(parts)
           all == pre \o rest
           l == Len(pre)
           m == Len(rest)
<1>1. Flattens(X, rest, parts, n)
  BY FlattenSeqIs
<1> HIDE DEF rest
<1>2. /\ rest \in Seq(X) /\ m \in Nat /\ l \in Nat /\ DOMAIN pre = 1..l
      /\ \A k \in 1..m : \E i \in 1..n : \E j \in 1..w : rest[k] = parts[i][j]
      /\ \A i \in 1..n : \A j \in 1..w : \E k \in 1..m : rest[k] = parts[i][j]
  <2>1. /\ \A k \in 1..Len(rest) : \E i \in 1..n : \E j \in 1..Len(parts[i]) : rest[k] = parts[i][j]
        /\ \A i \in 1..n : \A j \in 1..Len(parts[i]) : \E k \in 1..Len(rest) : rest[k] = parts[i][j]
        /\ rest \in Seq(X)
    BY <1>1 DEF Flattens
  <2>2. \A i \in 1..n : 1..Len(parts[i]) = 1..w
    OBVIOUS
  <2>3. m \in Nat /\ l \in Nat /\ DOMAIN pre = 1..l
    BY <2>1, LenProperties
  <2> HIDE DEF l
  <2>4. ASSUME NEW k \in 1..m PROVE \E i \in 1..n : \E j \in 1..w : rest[k] = parts[i][j]
    <3>1. PICK i \in 1..n : \E j \in 1..Len(parts[i]) : rest[k] = parts[i][j]
      BY <2>1
    <3> QED BY <2>2, <3>1
  <2>5. ASSUME NEW i \in 1..n, NEW j \in 1..w PROVE \E k \in 1..m : rest[k] = parts[i][j]
    <3>1. j \in 1..Len(parts[i])
      BY <2>2
    <3> QED BY <2>1, <3>1
  <2> QED BY <2>1, <2>3, <2>4, <2>5
<1>3. /\ Len(all) = l + m /\ DOMAIN all = 1..(l+m)
      /\ \A i \in 1..l : all[i] = pre[i]
  BY <1>2, ConcatProperties, LenProperties
<1>4. \A k \in 1..m : l+k \in 1..(l+m) /\ all[l+k] = rest[k]
  <2> SUFFICES ASSUME NEW k \in 1..m PROVE l+k \in 1..(l+m) /\ all[l+k] = rest[k]
    OBVIOUS
  <2>6. l \in Nat /\ m \in Nat /\ k \in 1..m
    BY <1>2
  <2> HIDE DEF l, m, all
  <2>1. l+k \in 1..(l+m) /\ ~(l+k <= l) /\ l+k-l = k
    BY ONLY <2>6
  <2>2. \A i \in 1..(l+m) : all[i] = IF i <= l THEN pre[i] ELSE rest[i-l]
    <3>1. pre \in Seq(X) /\ rest \in Seq(X)
      BY <1>2
    <3> QED BY ONLY <3>1, ConcatProperties DEF l, m, all
  <2>3. PICK x \in 1..(l+m) : x = l+k
    BY <2>1
  <2>4. all[x] = rest[x-l]
    BY <2>1, <2>2, <2>3, Zenon
  <2>5. x-l = k
    BY <1>2, <2>1, <2>3
  <2> QED BY <2>1, <2>3, <2>4, <2>5
<1> HIDE DEF all
<1>5. \A k \in 1..(l+m) : k \in 1..l \/ (k-l \in 1..m /\ all[k] = rest[k-l] /\ 1..l \subseteq 1..(k-1))
  <2> SUFFICES ASSUME NEW k \in 1..(l+m), k \notin 1..l
               PROVE  k-l \in 1..m /\ all[k] = rest[k-l] /\ 1..l \subseteq 1..(k-1)
    OBVIOUS
  <2>4. l \in Nat /\ m \in Nat /\ k \in 1..(l+m) /\ k \notin 1..l
    BY <1>2
  <2> HIDE DEF l, m
  <2>1. k-l \in 1..m /\ l+(k-l) = k /\ 1..l \subseteq 1..(k-1)
    BY ONLY <2>4
  <2>2. PICK y \in 1..m : y = k-l
    BY <2>1
  <2>3. all[l+y] = rest[y]
    BY <1>4
  <2> QED BY <2>1, <2>2, <2>3
<1>6. l+m \in Nat /\ 1..l \subseteq 1..(l+m) /\ \A k \in 1..l : 1..(k-1) \subseteq 1..l
  BY <1>2
<1> HIDE DEF l, m, all
<1>7. ASSUME \A k \in 1..(l+m) : ~all[k].fails, First(all) = NoError
      PROVE  Judges(pre, parts, n, w, First(all))
  <2>1. \A i \in 1..l : ~pre[i].fails
    BY <1>3, <1>6, <1>7
  <2>2. \A i \in 1..n : \A j \in 1..w : ~parts[i][j].fails
    <3> SUFFICES ASSUME NEW i \in 1..n, NEW j \in 1..w PROVE ~parts[i][j].fails
      OBVIOUS
    <3>1. PICK k \in 1..m : rest[k] = parts[i][j]
      BY <1>2
    <3> QED BY <1>4, <1>7, <3>1
  <2> QED BY <1>2, <1>7, <2>1, <2>2 DEF Judges
<1>8. ASSUME NEW k \in 1..(l+m), all[k].fails, \A j \in 1..(k-1) : ~all[j].fails,
             First(all) = [what |-> all[k].what, about |-> all[k].about]
      PROVE  Judges(pre, parts, n, w, First(all))
  <2>1. CASE k \in 1..l
    <3>1. Says(First(all), pre[k])
      BY <1>3, <1>8, <2>1 DEF Says
    <3>2. \A j \in 1..(k-1) : ~pre[j].fails
      BY <1>3, <1>6, <1>8, <2>1
    <3> QED BY <1>2, <2>1, <3>1, <3>2 DEF Judges
  <2>2. CASE k \notin 1..l
    <3>1. PICK i \in 1..n, j \in 1..w : rest[k-l] = parts[i][j]
      BY <1>2, <1>5, <2>2
    <3>2. Says(First(all), parts[i][j])
      BY <1>5, <1>8, <2>2, <3>1 DEF Says
    <3>3. \A h \in 1..l : ~pre[h].fails
      BY <1>3, <1>5, <1>8, <2>2
    <3>4. \E x \in 1..n : \E y \in 1..w : Says(First(all), parts[x][y])
      BY <3>2
    <3> QED BY <1>2, <3>3, <3>4 DEF Judges
  <2> QED BY <2>1, <2>2
<1>9. FirstOf(all, l+m, First(all))
  BY ONLY <1>3, <1>6, FirstIs
<1>10. Judges(pre, parts, n, w, First(all))
  <2>1. CASE (\A k \in 1..(l+m) : ~all[k].fails) /\ First(all) = NoError
    BY ONLY <1>7, <2>1
  <2>2. CASE \E k \in 1..(l+m) :
               /\ all[k].fails
               /\ \A j \in 1..(k-1) : ~all[j].fails
               /\ First(all) = [what |-> all[k].what, about |-> all[k].about]
    BY ONLY <1>8, <2>2
  <2> QED BY ONLY <1>9, <2>1, <2>2 DEF FirstOf
<1> QED BY <1>10 DEF all, rest
-----------------------------------------------------------------------------
(* NewRuntime: the checks of one spec, and what they come to.              *)
SpecChecks(i) ==
  <<Check(specs[i].name = 0, "emptyName", i), Check(specs[i].cap <= 0, "capacity", i),
    Check(\E j \in 1..(i-1) : specs[j].name = specs[i].name, "duplicate", i)>>

LEMMA SpecsAre ==
  ASSUME specs \in SpecLists
  PROVE  /\ specs \in Seq([name : Nat, cap : Int])
         /\ Len(specs) \in Nat /\ DOMAIN specs = 1..Len(specs)
         /\ \A i \in DOMAIN specs : specs[i] \in [name : Nat, cap : Int]
<1>1. specs \in Seq([name : Nat, cap : Int])
  BY ArgumentsAssumption
<1> QED BY <1>1, LenProperties, ElementOfSeq

LEMMA SpecFails ==
  ASSUME NEW i
  PROVE  /\ \A j \in 1..3 : SpecChecks(i)[j].what \in {"emptyName", "capacity", "duplicate"}
         /\ (\E j \in 1..3 : SpecChecks(i)[j].fails) <=>
              \/ specs[i].name = 0 \/ specs[i].cap <= 0
              \/ \E j \in 1..(i-1) : specs[j].name = specs[i].name
<1>1. /\ SpecChecks(i)[1].fails <=> specs[i].name = 0
      /\ SpecChecks(i)[2].fails <=> specs[i].cap <= 0
      /\ SpecChecks(i)[3].fails <=> \E j \in 1..(i-1) : specs[j].name = specs[i].name
  BY DEF SpecChecks, Check
<1>2. /\ SpecChecks(i)[1].what = "emptyName"
      /\ SpecChecks(i)[2].what = "capacity"
      /\ SpecChecks(i)[3].what = "duplicate"
  BY DEF SpecChecks, Check
<1>3. 1..3 = {1, 2, 3}
  OBVIOUS
<1> QED BY <1>1, <1>2, <1>3

LEMMA Three ==
  ASSUME NEW X, NEW a \in X, NEW b \in X, NEW c \in X
  PROVE  <<a, b, c>> \in Seq(X) /\ Len(<<a, b, c>>) = 3
OBVIOUS

LEMMA SpecsJudged ==
  ASSUME specs \in SpecLists
  PROVE  /\ ValidateSpecs = NoError <=> RuntimeOK
         /\ ~RuntimeOK => ClassOf(ValidateSpecs.what) = "other"
<1> DEFINE n == Len(specs)
           parts == [i \in DOMAIN specs |-> SpecChecks(i)]
           X == {SpecChecks(i)[j] : i \in 1..n, j \in 1..3} \cup {Check(specs = <<>>, "noSpecs", 0)}
           pre == <<Check(specs = <<>>, "noSpecs", 0)>>
           r == ValidateSpecs
<1>1. n \in Nat /\ DOMAIN specs = 1..n
  BY SpecsAre
<1>2. r = First(pre \o FlattenSeq(parts))
  BY DEF ValidateSpecs, SpecChecks
<1>3. ASSUME NEW i \in 1..n PROVE SpecChecks(i) \in Seq(X) /\ Len(SpecChecks(i)) = 3
  <2>1. SpecChecks(i)[1] \in X /\ SpecChecks(i)[2] \in X /\ SpecChecks(i)[3] \in X
    <3>1. 1 \in 1..3 /\ 2 \in 1..3 /\ 3 \in 1..3
      OBVIOUS
    <3> QED BY <3>1
  <2> HIDE DEF X
  <2>2. SpecChecks(i) = <<SpecChecks(i)[1], SpecChecks(i)[2], SpecChecks(i)[3]>>
    BY DEF SpecChecks
  <2> QED BY <2>1, <2>2, Three
<1>4. parts \in [1..n -> Seq(X)] /\ \A i \in 1..n : parts[i] = SpecChecks(i) /\ Len(parts[i]) = 3
  <2>1. parts = [i \in 1..n |-> SpecChecks(i)]
    BY <1>1
  <2> HIDE DEF parts, X
  <2> QED BY <1>3, <2>1
<1>5. pre \in Seq(X) /\ DOMAIN pre = {1}
  OBVIOUS
<1>6. pre[1].what = "noSpecs" /\ (pre[1].fails <=> specs = <<>>)
  BY DEF Check
<1> HIDE DEF X, parts, pre, n
<1>7. Judges(pre, parts, n, 3, First(pre \o FlattenSeq(parts)))
  BY <1>1, <1>4, <1>5, FirstJudges
<1> HIDE DEF r
<1>8. Judges(pre, parts, n, 3, r)
  BY <1>2, <1>7
<1>9. RuntimeOK <=> specs /= <<>> /\ \A i \in 1..n : \A j \in 1..3 : ~parts[i][j].fails
  <2>1. \A i \in 1..n : (\A j \in 1..3 : ~parts[i][j].fails) <=>
                        /\ specs[i].name /= 0 /\ specs[i].cap > 0
                        /\ \A j \in 1..(i-1) : specs[j].name /= specs[i].name
    <3> SUFFICES ASSUME NEW i \in 1..n
                 PROVE  (\A j \in 1..3 : ~parts[i][j].fails) <=>
                        /\ specs[i].name /= 0 /\ specs[i].cap > 0
                        /\ \A j \in 1..(i-1) : specs[j].name /= specs[i].name
      OBVIOUS
    <3>1. specs[i].cap \in Int
      BY <1>1, SpecsAre
    <3>2. specs[i].cap > 0 <=> ~(specs[i].cap <= 0)
      BY <3>1
    <3>3. (\A j \in 1..3 : ~parts[i][j].fails) <=> (\A j \in 1..3 : ~SpecChecks(i)[j].fails)
      BY <1>4
    <3> QED BY <3>2, <3>3, SpecFails
  <2> QED BY <1>1, <2>1 DEF RuntimeOK
<1>10. CASE /\ r = NoError
            /\ \A i \in DOMAIN pre : ~pre[i].fails
            /\ \A i \in 1..n : \A j \in 1..3 : ~parts[i][j].fails
  BY <1>5, <1>6, <1>9, <1>10 DEF r
<1>11. ASSUME NEW c, Says(r, c), c.what \in {"noSpecs", "emptyName", "capacity", "duplicate"}
       PROVE  r /= NoError /\ ClassOf(r.what) = "other"
  BY <1>11 DEF Says, NoError, ClassOf
<1>12. CASE \E i \in DOMAIN pre : Says(r, pre[i])
  <2>1. Says(r, pre[1]) /\ pre[1].fails
    BY <1>5, <1>12 DEF Says
  <2> QED BY <1>6, <1>9, <1>11, <2>1 DEF r
<1>13. CASE \E i \in 1..n : \E j \in 1..3 : Says(r, parts[i][j])
  <2>1. PICK i \in 1..n, j \in 1..3 : Says(r, parts[i][j])
    BY <1>13
  <2>2. parts[i][j].fails /\ parts[i][j].what \in {"emptyName", "capacity", "duplicate"}
    BY <1>4, <2>1, SpecFails DEF Says
  <2> QED BY <1>9, <1>11, <2>1, <2>2 DEF r
<1> QED BY <1>8, <1>10, <1>12, <1>13 DEF Judges
-----------------------------------------------------------------------------
(* NewOperation: what it says of a request, and of its other arguments.    *)
LEMMA PolicyIs ==
  ASSUME asked \in PolicyInputs
  PROVE  /\ asked.reqs \in Seq([r : Nat, n : Int]) /\ Len(asked.reqs) \in Nat
         /\ DOMAIN asked.reqs = 1..Len(asked.reqs)
         /\ \A i \in DOMAIN asked.reqs : asked.reqs[i].r \in Nat /\ asked.reqs[i].n \in Int
         /\ asked.timeout \in Int /\ asked.max \in Int
         /\ DOMAIN asked.on \subseteq Int /\ IsFiniteSet(DOMAIN asked.on)
         /\ asked.on \in [DOMAIN asked.on -> BOOLEAN]
<1>1. asked.reqs \in Seq([r : Nat, n : Int])
  BY ArgumentsAssumption
<1>2. \A i \in DOMAIN asked.reqs : asked.reqs[i] \in [r : Nat, n : Int]
  BY <1>1, ElementOfSeq, LenProperties
<1> QED BY <1>1, <1>2, LenProperties, ArgumentsAssumption

LEMMA CapIs ==
  ASSUME specs \in SpecLists, RuntimeOK, NEW s \in Range(specs)
  PROVE  s.name \in Known /\ Cap(s.name) = s.cap /\ s.cap \in Int
<1>1. PICK i \in DOMAIN specs : specs[i] = s
  BY DEF Range
<1>2. s.name \in Known /\ s.cap \in Int
  BY <1>1, SpecsAre DEF Known
<1> DEFINE t == CHOOSE x \in Range(specs) : x.name = s.name
<1>3. t \in Range(specs) /\ t.name = s.name
  OBVIOUS
<1>4. PICK j \in DOMAIN specs : specs[j] = t
  BY <1>3 DEF Range
<1>5. Cap(s.name) = t.cap
  BY <1>2 DEF Cap
<1> HIDE DEF t
<1>6. i = j
  <2>1. i \in Nat /\ j \in Nat /\ i \in 1..Len(specs) /\ j \in 1..Len(specs) /\ Len(specs) \in Nat
    BY SpecsAre
  <2>2. ~(i < j) /\ ~(j < i)
    BY <1>1, <1>3, <1>4, <2>1 DEF RuntimeOK
  <2> QED BY <2>1, <2>2
<1> QED BY <1>1, <1>2, <1>4, <1>5, <1>6

ClaimChecks(i) ==
  <<Check(\E j \in 1..(i-1) : policy.reqs[j].r = policy.reqs[i].r, "twice", i),
    Check(policy.reqs[i].r \notin Known, "unknown", i), Check(policy.reqs[i].n <= 0, "units", i),
    Check(policy.reqs[i].n > Cap(policy.reqs[i].r), "exceeds", i)>>

ClaimOK(i) ==
  /\ \A j \in 1..(i-1) : asked.reqs[j].r /= asked.reqs[i].r
  /\ \E s \in Range(specs) : s.name = asked.reqs[i].r /\ 0 < asked.reqs[i].n /\ asked.reqs[i].n <= s.cap

LEMMA ClaimFails ==
  ASSUME specs \in SpecLists, RuntimeOK, asked \in PolicyInputs, policy = asked, NEW i \in DOMAIN asked.reqs
  PROVE  /\ \A j \in 1..4 : ClaimChecks(i)[j].what \in {"twice", "unknown", "units", "exceeds"}
         /\ (\A j \in 1..4 : ~ClaimChecks(i)[j].fails) <=> ClaimOK(i)
<1> DEFINE q == asked.reqs[i]
<1>1. /\ ClaimChecks(i)[1].fails <=> \E j \in 1..(i-1) : asked.reqs[j].r = q.r
      /\ ClaimChecks(i)[2].fails <=> q.r \notin Known
      /\ ClaimChecks(i)[3].fails <=> q.n <= 0
      /\ ClaimChecks(i)[4].fails <=> q.n > Cap(q.r)
  BY DEF ClaimChecks, Check
<1>2. /\ ClaimChecks(i)[1].what = "twice" /\ ClaimChecks(i)[2].what = "unknown"
      /\ ClaimChecks(i)[3].what = "units" /\ ClaimChecks(i)[4].what = "exceeds"
  BY DEF ClaimChecks, Check
<1>3. 1..4 = {1, 2, 3, 4}
  OBVIOUS
<1>4. (q.r \in Known /\ ~(q.n <= 0) /\ ~(q.n > Cap(q.r)))
      <=> \E s \in Range(specs) : s.name = q.r /\ 0 < q.n /\ q.n <= s.cap
  <2>1. q.n \in Int
    BY PolicyIs
  <2>2. q.r \in Known => \E s \in Range(specs) : s.name = q.r
    BY DEF Known, Range
  <2>3. \A s \in Range(specs) : s.name \in Known /\ Cap(s.name) = s.cap /\ s.cap \in Int
    BY CapIs
  <2> HIDE DEF q
  <2> QED BY <2>1, <2>2, <2>3
<1>5. (\A j \in 1..4 : ~ClaimChecks(i)[j].fails) <=>
        /\ ~ClaimChecks(i)[1].fails /\ ~ClaimChecks(i)[2].fails
        /\ ~ClaimChecks(i)[3].fails /\ ~ClaimChecks(i)[4].fails
  BY <1>3, Zenon
<1> QED BY <1>1, <1>2, <1>3, <1>4, <1>5 DEF ClaimOK

Accepted == handler /\ name /\ asked.effect \in Effect /\ ClaimsOK

LEMMA Four ==
  ASSUME NEW X, NEW a \in X, NEW b \in X, NEW c \in X, NEW d \in X
  PROVE  <<a, b, c, d>> \in Seq(X) /\ Len(<<a, b, c, d>>) = 4 /\ DOMAIN <<a, b, c, d>> = {1, 2, 3, 4}
OBVIOUS

LEMMA ArgumentsJudged ==
  ASSUME specs \in SpecLists, RuntimeOK, asked \in PolicyInputs, policy = asked,
         handler \in BOOLEAN, name \in BOOLEAN
  PROVE  /\ ValidateArguments = NoError <=> Accepted
         /\ ~Accepted => ClassOf(ValidateArguments.what) = Predicted
<1> DEFINE n == Len(asked.reqs)
           parts == [i \in DOMAIN policy.reqs |-> ClaimChecks(i)]
           h == Check(~handler, "handler", 0)
           m == Check(~name, "name", 0)
           e == Check(policy.effect = "Unknown", "effectRequired", 0)
           g == Check(policy.effect \notin Effect \cup {"Unknown"}, "invalidEffect", 0)
           X == {ClaimChecks(i)[j] : i \in 1..n, j \in 1..4} \cup {h, m, e, g}
           pre == <<h, m, e, g>>
           r == ValidateArguments
<1>1. n \in Nat /\ DOMAIN policy.reqs = 1..n
  BY PolicyIs
<1>2. r = First(pre \o FlattenSeq(parts))
  <2>1. pre = <<h, m>> \o ValidateEffect
    BY DEF ValidateEffect
  <2>2. ResolveClaims = FlattenSeq(parts)
    BY DEF ResolveClaims, ClaimChecks
  <2> HIDE DEF pre, parts
  <2> QED BY <2>1, <2>2 DEF ValidateArguments
<1>3. ASSUME NEW i \in 1..n PROVE ClaimChecks(i) \in Seq(X) /\ Len(ClaimChecks(i)) = 4
  <2>1. \A j \in 1..4 : ClaimChecks(i)[j] \in X
    OBVIOUS
  <2> HIDE DEF X
  <2> DEFINE t == ClaimChecks(i)
             u == <<t[1], t[2], t[3], t[4]>>
  <2>2. t = u
    BY DEF ClaimChecks
  <2>3. t[1] \in X /\ t[2] \in X /\ t[3] \in X /\ t[4] \in X
    BY <2>1
  <2> HIDE DEF t
  <2>4. u \in Seq(X) /\ Len(u) = 4
    BY <2>3, Four
  <2> HIDE DEF u
  <2> QED BY <2>2, <2>4 DEF t
<1>4. parts \in [1..n -> Seq(X)] /\ \A i \in 1..n : parts[i] = ClaimChecks(i) /\ Len(parts[i]) = 4
  <2>1. parts = [i \in 1..n |-> ClaimChecks(i)]
    BY <1>1
  <2> HIDE DEF parts, X
  <2> QED BY <1>3, <2>1
<1>5. pre \in Seq(X) /\ DOMAIN pre = {1, 2, 3, 4}
  <2>1. h \in X /\ m \in X /\ e \in X /\ g \in X
    OBVIOUS
  <2> HIDE DEF h, m, e, g, X
  <2> QED BY <2>1, Four
<1>6. /\ pre[1] = h /\ pre[2] = m /\ pre[3] = e /\ pre[4] = g
      /\ h.what = "handler" /\ (h.fails <=> ~handler)
      /\ m.what = "name" /\ (m.fails <=> ~name)
      /\ e.what = "effectRequired" /\ (e.fails <=> asked.effect = "Unknown")
      /\ g.what = "invalidEffect" /\ (g.fails <=> asked.effect \notin Effect \cup {"Unknown"})
  BY DEF Check
<1> HIDE DEF X, parts, pre, n, h, m, e, g
<1>7. Judges(pre, parts, n, 4, First(pre \o FlattenSeq(parts)))
  BY <1>1, <1>4, <1>5, FirstJudges
<1> HIDE DEF r
<1>8. Judges(pre, parts, n, 4, r)
  BY <1>2, <1>7
<1>9. ClaimsOK <=> \A i \in 1..n : \A j \in 1..4 : ~parts[i][j].fails
  <2>1. ClaimsOK <=> \A i \in 1..n : ClaimOK(i)
    BY <1>1, PolicyIs DEF ClaimsOK, ClaimOK
  <2>2. \A i \in 1..n : ClaimOK(i) <=> \A j \in 1..4 : ~parts[i][j].fails
    BY <1>1, <1>4, ClaimFails
  <2> QED BY <2>1, <2>2
<1>10. "Unknown" \notin Effect
  BY DEF Effect
<1>11. CASE /\ r = NoError
            /\ \A i \in DOMAIN pre : ~pre[i].fails
            /\ \A i \in 1..n : \A j \in 1..4 : ~parts[i][j].fails
  <2>1. Accepted
    BY <1>5, <1>6, <1>9, <1>11 DEF Accepted
  <2> QED BY <1>11, <2>1 DEF r
<1>12. ASSUME NEW i \in DOMAIN pre, Says(r, pre[i]), \A j \in 1..(i-1) : ~pre[j].fails
       PROVE  r /= NoError /\ ~Accepted /\ ClassOf(r.what) = Predicted
  <2>1. r.what = pre[i].what /\ pre[i].fails
    BY <1>12 DEF Says
  <2>2. CASE i = 1 \/ i = 2
    <3>1. r.what \in {"handler", "name"} /\ (~handler \/ ~name)
      BY <1>6, <2>1, <2>2
    <3> QED BY <3>1 DEF NoError, Accepted, ClassOf, Predicted
  <2>3. CASE i = 3
    <3>1. ~pre[1].fails /\ ~pre[2].fails
      BY <1>12, <2>3
    <3>2. handler /\ name /\ r.what = "effectRequired" /\ asked.effect = "Unknown"
      BY <1>6, <2>1, <2>3, <3>1
    <3> QED BY <1>10, <3>2 DEF NoError, Accepted, ClassOf, Predicted
  <2>4. CASE i = 4
    <3>1. ~pre[1].fails /\ ~pre[2].fails /\ ~pre[3].fails
      BY <1>12, <2>4
    <3>2. handler /\ name /\ r.what = "invalidEffect" /\ asked.effect \notin Effect \cup {"Unknown"}
      BY <1>6, <2>1, <2>4, <3>1
    <3> QED BY <3>2 DEF NoError, Accepted, ClassOf, Predicted
  <2> QED BY <1>5, <2>2, <2>3, <2>4
<1>13. ASSUME NEW i \in 1..n, NEW j \in 1..4, Says(r, parts[i][j]), \A k \in DOMAIN pre : ~pre[k].fails
       PROVE  r /= NoError /\ ~Accepted /\ ClassOf(r.what) = Predicted
  <2>1. handler /\ name /\ asked.effect /= "Unknown" /\ asked.effect \in Effect
    BY <1>5, <1>6, <1>13
  <2>2. parts[i][j].fails /\ r.what = parts[i][j].what
    BY <1>13 DEF Says
  <2>3. ~ClaimsOK
    BY <1>9, <2>2
  <2>4. r.what \in {"twice", "unknown", "units", "exceeds"}
    BY <1>1, <1>4, <2>2, ClaimFails
  <2> QED BY <2>1, <2>3, <2>4 DEF NoError, Accepted, ClassOf, Predicted
<1> QED
  <2>1. r = ValidateArguments
    BY DEF r
  <2> QED BY <1>8, <1>11, <1>12, <1>13, <2>1 DEF Judges
-----------------------------------------------------------------------------
(* Where a release is, and what is known of the arguments by then.         *)
ConPC == {"runtime", "operation", "retry", "done", "failed"}

Want == {o \in {Transient, Uncertain} : o \in DOMAIN asked.on /\ asked.on[o]}
AskedUnsafe == asked.effect = "NonIdempotent" /\ AsksUncertain

(* The entry that decides, of those that have been met.                    *)
Lowest(b, met) == \/ met = {} /\ b = {}
                  \/ \E o \in met : b = {o} /\ \A x \in met : o <= x

OpRight(v, op) ==
  /\ op.claims = Sorted(asked.reqs)
  /\ op.mode = "Reject" <=> asked.mode = "Reject"
  /\ op.timeout >= 0 /\ op.attempts >= 1
  /\ v = "v1" => op.retry = Want \cap RetrySafe(asked.effect)

Complaint(v, err) ==
  \/ ~RuntimeOK /\ err = ValidateSpecs
  \/ RuntimeOK /\ ~Accepted /\ err = ValidateArguments
  \/ /\ RuntimeOK /\ Accepted
     /\ \E o \in BadOutcomes : err = InvalidRetry(o) /\ (v = "v1" => o = Min(BadOutcomes))
  \/ /\ RuntimeOK /\ Accepted /\ BadOutcomes = {} /\ AskedUnsafe
     /\ err = [what |-> "unsafe", about |-> 0]

PlaceRight(v, r) ==
  /\ r.pc /= "failed" => r.err = NoError
  /\ r.pc \in {"runtime", "operation"} => r.set = {} /\ r.bad = {}
  /\ r.pc \in {"operation", "retry", "done"} => RuntimeOK
  /\ r.pc \in {"retry", "done"} => Accepted
  /\ r.pc = "retry" => /\ r.todo \subseteq DOMAIN asked.on /\ r.set = Want \ r.todo
                       /\ v = "v1" => Lowest(r.bad, BadOutcomes \ r.todo)
                       /\ v = "v02" => r.bad = {} /\ BadOutcomes \subseteq r.todo
  /\ r.pc = "done" => BadOutcomes = {} /\ ~AskedUnsafe /\ OpRight(v, r.op)
  /\ r.pc = "failed" => Complaint(v, r.err)

Places(E, O) == [pc : ConPC, todo : SUBSET Int, set : SUBSET Int, bad : SUBSET Int, err : E, op : O]

ConInv ==
  /\ \E E, O : rel \in [Release -> Places(E, O)]
  /\ specs \in SpecLists /\ asked \in PolicyInputs /\ handler \in BOOLEAN /\ name \in BOOLEAN
  /\ policy.effect = asked.effect /\ DOMAIN policy = DOMAIN asked
  /\ policy = asked \/ \A v \in Release : rel[v].pc = "done"
  /\ \A v \in Release : PlaceRight(v, rel[v])

LEMMA PlaceKept ==
  ASSUME UNCHANGED <<specs, handler, name, asked, policy>>, NEW v, NEW r
  PROVE  PlaceRight(v, r)' <=> PlaceRight(v, r)
<1>1. RuntimeOK' = RuntimeOK /\ ValidateSpecs' = ValidateSpecs
  BY DEF RuntimeOK, ValidateSpecs
<1>2. Accepted' = Accepted
  BY DEF Accepted, ClaimsOK
<1>3. BadOutcomes' = BadOutcomes /\ AskedUnsafe' = AskedUnsafe /\ Want' = Want
  BY DEF BadOutcomes, AskedUnsafe, AsksUncertain, Want
<1>4. ValidateArguments' = ValidateArguments
  BY DEF ValidateArguments, ValidateEffect, ResolveClaims, Known, Cap
<1>5. \A op : OpRight(v, op)' = OpRight(v, op)
  BY <1>3 DEF OpRight
<1>6. \A err : Complaint(v, err)' = Complaint(v, err)
  BY <1>1, <1>2, <1>3, <1>4 DEF Complaint
<1> QED BY <1>1, <1>2, <1>3, <1>5, <1>6 DEF PlaceRight

(* A step moves one release, which has not its operation yet.              *)
LEMMA MoveKeeps ==
  ASSUME ConInv, NEW v \in Release, rel[v].pc /= "done", NEW r, \E E, O : r \in Places(E, O),
         rel' = [rel EXCEPT ![v] = r], Unchanged, PlaceRight(v, r)
  PROVE  ConInv'
<1>1. PICK E, O : rel \in [Release -> Places(E, O)]
  BY DEF ConInv
<1>2. PICK F, P : r \in Places(F, P)
  OBVIOUS
<1>3. rel' \in [Release -> Places(E \cup F, O \cup P)]
  <2>1. Places(E, O) \subseteq Places(E \cup F, O \cup P) /\ Places(F, P) \subseteq Places(E \cup F, O \cup P)
    BY DEF Places
  <2> QED BY <1>1, <1>2, <2>1
<1>4. policy = asked
  BY DEF ConInv
<1>5. \A x \in Release : rel'[x] = IF x = v THEN r ELSE rel[x]
  BY <1>1
<1>6. ASSUME NEW x \in Release PROVE PlaceRight(x, rel[x])'
  <2>1. PlaceRight(x, rel'[x])
    BY <1>5 DEF ConInv
  <2>2. PICK y : y = rel'[x]
    OBVIOUS
  <2>3. PlaceRight(x, y)'
    BY <2>1, <2>2, PlaceKept DEF Unchanged
  <2> QED BY <2>2, <2>3
<1>7. /\ UNCHANGED <<specs, handler, name, policy, asked>>
      /\ specs \in SpecLists /\ asked \in PolicyInputs /\ handler \in BOOLEAN /\ name \in BOOLEAN
      /\ policy.effect = asked.effect /\ DOMAIN policy = DOMAIN asked
  BY DEF ConInv, Unchanged
<1> QED BY <1>3, <1>4, <1>6, <1>7 DEF ConInv

LEMMA FailKeeps ==
  ASSUME ConInv, NEW v \in Release, rel[v].pc \notin {"done", "failed"}, NEW err, Fail(v, err), Unchanged,
         Complaint(v, err)
  PROVE  ConInv'
<1> DEFINE r == [rel[v] EXCEPT !.pc = "failed", !.err = err]
<1>1. PICK E, O : rel \in [Release -> Places(E, O)]
  BY DEF ConInv
<1>2. rel[v] \in Places(E, O)
  BY <1>1
<1>3. r \in Places(E \cup {err}, O) /\ r.pc = "failed" /\ r.err = err
  BY <1>2 DEF Places, ConPC
<1>4. rel' = [rel EXCEPT ![v] = r]
  BY <1>1 DEF Fail
<1> HIDE DEF r
<1>5. PlaceRight(v, r)
  BY <1>3 DEF PlaceRight
<1> QED BY <1>3, <1>4, <1>5, MoveKeeps

LEMMA NewRuntimeKeeps ==
  ASSUME ConInv, NEW v \in Release, NewRuntime(v)
  PROVE  ConInv'
<1>1. PICK E, O : rel \in [Release -> Places(E, O)]
  BY DEF ConInv
<1>2. /\ rel[v] \in Places(E, O) /\ rel[v].pc = "runtime" /\ Unchanged /\ rel[v].err = NoError
      /\ specs \in SpecLists /\ rel[v].set = {} /\ rel[v].bad = {}
  BY <1>1 DEF ConInv, PlaceRight, NewRuntime, Turn
<1>3. /\ ValidateSpecs = NoError <=> RuntimeOK
  BY <1>2, SpecsJudged
<1>4. CASE ValidateSpecs /= NoError
  <2>1. Complaint(v, ValidateSpecs)
    BY <1>3, <1>4 DEF Complaint
  <2>2. Fail(v, ValidateSpecs)
    BY <1>4 DEF NewRuntime
  <2> QED BY <1>2, <2>1, <2>2, FailKeeps
<1>5. CASE ValidateSpecs = NoError
  <2> DEFINE r == [rel[v] EXCEPT !.pc = "operation"]
  <2>1. /\ r \in Places(E, O) /\ r.pc = "operation" /\ r.err = NoError
        /\ r.set = {} /\ r.bad = {}
    BY <1>2 DEF Places, ConPC
  <2>2. rel' = [rel EXCEPT ![v] = r]
    BY <1>1, <1>5 DEF NewRuntime
  <2> HIDE DEF r
  <2>3. PlaceRight(v, r)
    BY <1>3, <1>5, <2>1 DEF PlaceRight
  <2> QED BY <1>2, <2>1, <2>2, <2>3, MoveKeeps
<1> QED BY <1>4, <1>5

LEMMA ValidateKeeps ==
  ASSUME ConInv, NEW v \in Release, Validate(v)
  PROVE  ConInv'
<1>1. PICK E, O : rel \in [Release -> Places(E, O)]
  BY DEF ConInv
<1>2. /\ rel[v] \in Places(E, O) /\ rel[v].pc = "operation" /\ Unchanged /\ rel[v].err = NoError
      /\ RuntimeOK /\ policy = asked
  BY <1>1 DEF ConInv, PlaceRight, Validate, Turn
<1>3. /\ ValidateArguments = NoError <=> Accepted
  BY <1>2, ArgumentsJudged DEF ConInv
<1>4. CASE ValidateArguments /= NoError
  <2>1. Complaint(v, ValidateArguments)
    BY <1>2, <1>3, <1>4 DEF Complaint
  <2>2. Fail(v, ValidateArguments)
    BY <1>4 DEF Validate
  <2> QED BY <1>2, <2>1, <2>2, FailKeeps
<1>5. CASE ValidateArguments = NoError
  <2> DEFINE r == [rel[v] EXCEPT !.pc = "retry", !.todo = DOMAIN policy.on]
  <2>1. DOMAIN asked.on \in SUBSET Int
    BY PolicyIs DEF ConInv
  <2>2. /\ r \in Places(E, O) /\ r.pc = "retry" /\ r.err = NoError
        /\ r.todo = DOMAIN asked.on /\ r.set = rel[v].set /\ r.bad = rel[v].bad
    BY <1>2, <2>1 DEF Places, ConPC
  <2>3. rel' = [rel EXCEPT ![v] = r]
    BY <1>1, <1>5 DEF Validate
  <2> HIDE DEF r
  <2>4. r.set = {} /\ r.bad = {}
    BY <1>2, <2>2 DEF ConInv, PlaceRight
  <2>5. Want \subseteq DOMAIN asked.on /\ BadOutcomes \subseteq DOMAIN asked.on
    BY DEF Want, BadOutcomes
  <2>6. PlaceRight(v, r)
    BY <1>2, <1>3, <1>5, <2>2, <2>4, <2>5 DEF PlaceRight, Lowest
  <2> QED BY <1>2, <2>2, <2>3, <2>6, MoveKeeps
<1> QED BY <1>4, <1>5

(* The lowest of the bad entries met is a bound of those still to come.    *)
LEMMA LowestMore ==
  ASSUME NEW b, NEW met, met \subseteq Int, Lowest(b, met), NEW o \in Int
  PROVE  Lowest({Min(b \cup {o})}, met \cup {o})
<1>1. CASE met = {} /\ b = {}
  <2>1. Min(b \cup {o}) = o
    <3>1. b \cup {o} = {o} /\ IsFiniteSet({o}) /\ {o} \subseteq Int /\ {o} /= {}
      BY <1>1, FS_Singleton
    <3>2. Min({o}) \in {o}
      BY <3>1, MinIs
    <3> QED BY <3>1, <3>2
  <2> QED BY <1>1, <2>1 DEF Lowest
<1>2. CASE \E x \in met : b = {x} /\ \A y \in met : x <= y
  <2>1. PICK x \in met : b = {x} /\ \A y \in met : x <= y
    BY <1>2
  <2>2. x \in Int /\ {x} \cup {o} = {x, o} /\ {x, o} \subseteq Int /\ {x, o} /= {}
    BY <2>1
  <2>3. IsFiniteSet({x, o})
    <3>1. IsFiniteSet({x}) /\ {x} \cup {o} = {x, o}
      BY FS_Singleton
    <3>2. IsFiniteSet({x} \cup {o})
      BY <3>1, FS_AddElement
    <3> QED BY <3>1, <3>2
  <2> DEFINE m == Min({x, o})
  <2>4. m \in {x, o} /\ m <= x /\ m <= o
    BY <2>2, <2>3, MinIs
  <2>5. Min(b \cup {o}) = m
    BY <2>1, <2>2
  <2> HIDE DEF m
  <2>6. m \in Int /\ m \in met \cup {o}
    BY <2>1, <2>2, <2>4
  <2>7. \A y \in met \cup {o} : m <= y
    BY <2>1, <2>2, <2>4, <2>6
  <2> QED BY <2>5, <2>6, <2>7 DEF Lowest
<1> QED BY <1>1, <1>2 DEF Lowest

LEMMA RetryEntryKeeps ==
  ASSUME ConInv, NEW v \in Release, NEW o \in rel[v].todo, RetryEntry(v, o)
  PROVE  ConInv'
<1> DEFINE rest == rel[v].todo \ {o}
           legal == o \in {Transient, Uncertain}
<1>1. PICK E, O : rel \in [Release -> Places(E, O)]
  BY DEF ConInv
<1>2. /\ rel[v] \in Places(E, O) /\ rel[v].pc = "retry" /\ Unchanged /\ rel[v].err = NoError
      /\ RuntimeOK /\ Accepted /\ policy = asked /\ PlaceRight(v, rel[v])
  BY <1>1 DEF ConInv, PlaceRight, RetryEntry, Turn
<1>3. /\ rel[v].todo \subseteq DOMAIN asked.on /\ rel[v].set = Want \ rel[v].todo
      /\ v = "v1" => Lowest(rel[v].bad, BadOutcomes \ rel[v].todo)
      /\ v = "v02" => rel[v].bad = {} /\ BadOutcomes \subseteq rel[v].todo
  BY <1>2 DEF PlaceRight
<1>4. o \in Int /\ rest \in SUBSET Int /\ BadOutcomes \subseteq Int /\ rel[v].set \subseteq Int /\ rel[v].bad \subseteq Int
      /\ o \in DOMAIN asked.on
  <2>1. DOMAIN asked.on \subseteq Int
    BY PolicyIs DEF ConInv
  <2> QED BY <1>2, <1>3, <2>1 DEF BadOutcomes, Places
<1>5. ASSUME NEW s, s \in SUBSET Int, NEW b, b \in SUBSET Int, s = Want \ rest,
             v = "v1" => Lowest(b, BadOutcomes \ rest),
             v = "v02" => b = {} /\ BadOutcomes \subseteq rest,
             rel' = [rel EXCEPT ![v] = [rel[v] EXCEPT !.todo = rest, !.set = s, !.bad = b]]
      PROVE  ConInv'
  <2> DEFINE r == [rel[v] EXCEPT !.todo = rest, !.set = s, !.bad = b]
  <2> HIDE DEF rest
  <2>1. /\ r \in Places(E, O) /\ r.pc = "retry" /\ r.err = NoError
        /\ r.todo = rest /\ r.set = s /\ r.bad = b
    BY <1>2, <1>4, <1>5 DEF Places
  <2>2. rest \subseteq DOMAIN asked.on
    BY <1>3 DEF rest
  <2> HIDE DEF r
  <2>3. PlaceRight(v, r)
    BY <1>2, <1>5, <2>1, <2>2 DEF PlaceRight
  <2> QED BY <1>2, <1>5, <2>1, <2>3, MoveKeeps DEF r
<1>6. CASE ~asked.on[o]
  <2>1. o \notin Want /\ o \notin BadOutcomes
    BY <1>6 DEF Want, BadOutcomes
  <2>2. /\ rel[v].set = Want \ rest /\ BadOutcomes \ rel[v].todo = BadOutcomes \ rest
        /\ BadOutcomes \subseteq rel[v].todo => BadOutcomes \subseteq rest
    BY <1>3, <2>1
  <2>3. rel' = [rel EXCEPT ![v] = [rel[v] EXCEPT !.todo = rest, !.set = rel[v].set, !.bad = rel[v].bad]]
    <3>1. rel' = [rel EXCEPT ![v].todo = rest]
      BY <1>2, <1>6 DEF RetryEntry
    <3>2. [rel[v] EXCEPT !.todo = rest] = [rel[v] EXCEPT !.todo = rest, !.set = rel[v].set, !.bad = rel[v].bad]
      BY <1>2 DEF Places
    <3> HIDE DEF rest
    <3> QED BY <3>1, <3>2
  <2> HIDE DEF rest
  <2> QED BY <1>3, <1>4, <1>5, <2>2, <2>3
<1>7. CASE asked.on[o] /\ legal
  <2>1. o \in Want /\ o \notin BadOutcomes
    BY <1>4, <1>7 DEF Want, BadOutcomes
  <2>2. /\ rel[v].set \cup {o} = Want \ rest /\ BadOutcomes \ rel[v].todo = BadOutcomes \ rest
        /\ BadOutcomes \subseteq rel[v].todo => BadOutcomes \subseteq rest
        /\ rel[v].set \cup {o} \in SUBSET Int
    BY <1>3, <1>4, <2>1
  <2>3. rel' = [rel EXCEPT ![v] = [rel[v] EXCEPT !.todo = rest, !.set = rel[v].set \cup {o}, !.bad = rel[v].bad]]
    <3>1. rel' = [rel EXCEPT ![v].todo = rest, ![v].set = @ \cup {o}]
      BY <1>2, <1>7 DEF RetryEntry
    <3>2. [rel[v] EXCEPT !.todo = rest, !.set = rel[v].set \cup {o}]
          = [rel[v] EXCEPT !.todo = rest, !.set = rel[v].set \cup {o}, !.bad = rel[v].bad]
      BY <1>2 DEF Places
    <3>3. rel' = [rel EXCEPT ![v] = [rel[v] EXCEPT !.todo = rest, !.set = rel[v].set \cup {o}]]
      BY <1>1, <3>1
    <3> HIDE DEF rest
    <3> QED BY <3>2, <3>3
  <2> HIDE DEF rest
  <2> QED BY <1>3, <1>4, <1>5, <2>2, <2>3
<1>8. CASE asked.on[o] /\ ~legal /\ v = "v1"
  <2> DEFINE b == {Min(rel[v].bad \cup {o})}
  <2>1. o \notin Want /\ o \in BadOutcomes
    BY <1>4, <1>8 DEF Want, BadOutcomes
  <2>2. /\ rel[v].set = Want \ rest /\ BadOutcomes \ rest = (BadOutcomes \ rel[v].todo) \cup {o}
    BY <1>3, <2>1
  <2>3. Lowest(b, BadOutcomes \ rest)
    <3> DEFINE met == BadOutcomes \ rel[v].todo
    <3>1. met \subseteq Int /\ Lowest(rel[v].bad, met) /\ BadOutcomes \ rest = met \cup {o}
      BY <1>3, <1>4, <1>8, <2>2
    <3> HIDE DEF met, rest
    <3>2. Lowest({Min(rel[v].bad \cup {o})}, met \cup {o})
      BY <1>4, <3>1, LowestMore
    <3> QED BY <3>1, <3>2
  <2>4. b \in SUBSET Int
    <3> HIDE DEF b, rest
    <3> QED BY <1>4, <2>3 DEF Lowest
  <2>5. rel' = [rel EXCEPT ![v] = [rel[v] EXCEPT !.todo = rest, !.set = rel[v].set, !.bad = b]]
    <3>1. rel' = [rel EXCEPT ![v].todo = rest, ![v].bad = {Min(@ \cup {o})}]
      BY <1>2, <1>8 DEF RetryEntry
    <3>2. [rel[v] EXCEPT !.todo = rest, !.bad = b]
          = [rel[v] EXCEPT !.todo = rest, !.set = rel[v].set, !.bad = b]
      BY <1>2 DEF Places
    <3>3. rel' = [rel EXCEPT ![v] = [rel[v] EXCEPT !.todo = rest, !.bad = b]]
      BY <1>1, <3>1
    <3> HIDE DEF rest, b
    <3> QED BY <3>2, <3>3
  <2> HIDE DEF rest, b
  <2> QED BY <1>4, <1>5, <1>8, <2>2, <2>3, <2>4, <2>5
<1>9. CASE asked.on[o] /\ ~legal /\ v = "v02"
  <2>1. o \in BadOutcomes
    BY <1>4, <1>9 DEF BadOutcomes
  <2>2. Fail(v, InvalidRetry(o))
    BY <1>2, <1>9 DEF RetryEntry
  <2>3. Complaint(v, InvalidRetry(o))
    BY <1>2, <1>9, <2>1 DEF Complaint
  <2> QED BY <1>2, <2>2, <2>3, FailKeeps
<1>10. v \in {"v1", "v02"}
  BY DEF Release
<1> QED BY <1>6, <1>7, <1>8, <1>9, <1>10

LEMMA MaxOfTwo ==
  ASSUME NEW a \in Int, NEW b \in Int
  PROVE  Max({a, b}) \in {a, b} /\ a <= Max({a, b}) /\ b <= Max({a, b})
<1>1. \E x \in {a, b} : \A y \in {a, b} : x >= y
  OBVIOUS
<1>2. Max({a, b}) = CHOOSE x \in {a, b} : \A y \in {a, b} : x >= y
  BY DEF Max
<1>3. Max({a, b}) \in {a, b} /\ \A y \in {a, b} : Max({a, b}) >= y
  BY <1>1, <1>2
<1> QED BY <1>3

LEMMA RetryTableKeeps ==
  ASSUME ConInv, NEW v \in Release, RetryTable(v)
  PROVE  ConInv'
<1>1. PICK E, O : rel \in [Release -> Places(E, O)]
  BY DEF ConInv
<1>2. /\ rel[v] \in Places(E, O) /\ rel[v].pc = "retry" /\ rel[v].todo = {} /\ Unchanged /\ rel[v].err = NoError
      /\ RuntimeOK /\ Accepted /\ policy = asked /\ PlaceRight(v, rel[v])
  BY <1>1 DEF ConInv, PlaceRight, RetryTable, Turn
<1>3. /\ rel[v].set = Want
      /\ v = "v1" => Lowest(rel[v].bad, BadOutcomes)
      /\ v = "v02" => rel[v].bad = {} /\ BadOutcomes = {}
  BY <1>2 DEF PlaceRight
<1>4. v = "v1" \/ v = "v02"
  BY DEF Release
<1>5. Unsafe(rel[v].set) <=> AskedUnsafe
  BY <1>2, <1>3 DEF Unsafe, AskedUnsafe, AsksUncertain, Want
<1>6. CASE rel[v].bad /= {}
  <2>1. v = "v1" /\ Lowest(rel[v].bad, BadOutcomes)
    BY <1>3, <1>4, <1>6
  <2>2. PICK o \in BadOutcomes : rel[v].bad = {o} /\ \A x \in BadOutcomes : o <= x
    BY <1>6, <2>1 DEF Lowest
  <2>3. IsFiniteSet(BadOutcomes) /\ BadOutcomes \subseteq Int /\ BadOutcomes /= {}
    BY <2>2, PolicyIs, FS_Subset DEF ConInv, BadOutcomes
  <2>4. PICK m : m = Min(BadOutcomes)
    OBVIOUS
  <2>5. o = Min(BadOutcomes)
    <3>1. m \in BadOutcomes /\ \A x \in BadOutcomes : m <= x
      BY <2>3, <2>4, MinIs
    <3>2. m \in Int /\ o \in Int /\ m <= o /\ o <= m
      BY <2>2, <2>3, <3>1
    <3> QED BY <2>4, <3>2
  <2>6. Min(rel[v].bad) = o
    <3>1. IsFiniteSet({o}) /\ {o} \subseteq Int /\ {o} /= {}
      BY <2>3, FS_Singleton
    <3>2. Min({o}) \in {o}
      BY <3>1, MinIs
    <3> QED BY <2>2, <3>2
  <2>7. Fail(v, InvalidRetry(o))
    BY <1>6, <2>6 DEF RetryTable
  <2>8. Complaint(v, InvalidRetry(o))
    BY <1>2, <2>5 DEF Complaint
  <2> QED BY <1>2, <2>7, <2>8, FailKeeps
<1>7. CASE rel[v].bad = {}
  <2>1. BadOutcomes = {}
    BY <1>3, <1>4, <1>7 DEF Lowest
  <2>2. CASE Unsafe(rel[v].set)
    <3>1. Fail(v, [what |-> "unsafe", about |-> 0])
      BY <1>7, <2>2 DEF RetryTable
    <3>2. Complaint(v, [what |-> "unsafe", about |-> 0])
      BY <1>2, <1>5, <2>1, <2>2 DEF Complaint
    <3> QED BY <1>2, <3>1, <3>2, FailKeeps
  <2>3. CASE ~Unsafe(rel[v].set)
    <3> DEFINE op == Snapshot(v, rel[v].set)
               r == [rel[v] EXCEPT !.pc = "done", !.op = op]
    <3>1. OpRight(v, op)
      <4>1. op.timeout >= 0 /\ op.attempts >= 1
        <5>1. asked.timeout \in Int /\ asked.max \in Int
          BY PolicyIs DEF ConInv
        <5>2. op.timeout = Max({asked.timeout, 0}) /\ op.attempts = Max({asked.max, 1})
          BY <1>2 DEF Snapshot
        <5> DEFINE t == asked.timeout
                   n == asked.max
        <5> HIDE DEF t, n, op
        <5>3. t \in Int /\ n \in Int
          BY <5>1 DEF t, n
        <5>4. 0 <= Max({t, 0}) /\ Max({t, 0}) \in {t, 0}
          BY <5>3, MaxOfTwo
        <5>5. 1 <= Max({n, 1}) /\ Max({n, 1}) \in {n, 1}
          BY <5>3, MaxOfTwo
        <5> QED BY <5>2, <5>3, <5>4, <5>5 DEF t, n
      <4>2. op.claims = Sorted(asked.reqs) /\ (op.mode = "Reject" <=> asked.mode = "Reject")
        BY <1>2 DEF Snapshot
      <4>3. v = "v1" => op.retry = Want \cap RetrySafe(asked.effect)
        BY <1>2, <1>3 DEF Snapshot
      <4> HIDE DEF op
      <4> QED BY <4>1, <4>2, <4>3 DEF OpRight
    <3> HIDE DEF op
    <3>2. r \in Places(E, O \cup {op}) /\ r.pc = "done" /\ r.op = op /\ r.err = NoError
      BY <1>2 DEF Places, ConPC
    <3>3. rel' = [rel EXCEPT ![v] = r]
      BY <1>1, <1>7, <2>3 DEF RetryTable, op
    <3> HIDE DEF r
    <3>4. PlaceRight(v, r)
      BY <1>2, <1>5, <2>1, <2>3, <3>1, <3>2 DEF PlaceRight
    <3> QED BY <1>2, <3>2, <3>3, <3>4, MoveKeeps
  <2> QED BY <2>2, <2>3
<1> QED BY <1>6, <1>7

LEMMA MutateKeeps ==
  ASSUME ConInv, Mutate
  PROVE  ConInv'
<1>1. UNCHANGED <<specs, handler, name, asked, rel>> /\ \A v \in Release : rel[v].pc = "done"
  BY DEF Mutate
<1>2. policy'.effect = policy.effect /\ DOMAIN policy' = DOMAIN policy
  BY DEF Mutate, ConInv
<1>3. RuntimeOK' = RuntimeOK /\ Accepted' = Accepted /\ BadOutcomes' = BadOutcomes /\ AskedUnsafe' = AskedUnsafe /\ Want' = Want
  BY <1>1 DEF RuntimeOK, Accepted, ClaimsOK, BadOutcomes, AskedUnsafe, AsksUncertain, Want
<1>4. \A v, op : OpRight(v, op)' = OpRight(v, op)
  BY <1>1, <1>3 DEF OpRight
<1>5. ASSUME NEW v \in Release PROVE PlaceRight(v, rel[v])'
  <2>1. PlaceRight(v, rel[v]) /\ rel[v].pc = "done"
    BY <1>1 DEF ConInv
  <2>2. PICK y : y = rel[v]
    OBVIOUS
  <2>3. PlaceRight(v, y)'
    BY <1>3, <1>4, <2>1, <2>2 DEF PlaceRight
  <2> QED BY <1>1, <2>2, <2>3
<1> QED BY <1>1, <1>2, <1>5 DEF ConInv
-----------------------------------------------------------------------------
LEMMA ConInitInv ==
  ASSUME ConInit
  PROVE  ConInv
<1>1. rel \in [Release -> Places({NoError}, {<<>>})]
  BY DEF ConInit, Fresh, Places, ConPC
<1>2. \A v \in Release : PlaceRight(v, rel[v])
  BY DEF ConInit, Fresh, PlaceRight
<1> QED BY <1>1, <1>2 DEF ConInit, ConInv

LEMMA ConNextInv ==
  ASSUME ConInv, [ConNext]_conVars
  PROVE  ConInv'
<1>1. CASE UNCHANGED conVars
  <2>1. UNCHANGED <<specs, handler, name, asked, policy, rel>>
    BY <1>1 DEF conVars
  <2>2. ASSUME NEW v \in Release PROVE PlaceRight(v, rel[v])'
    <3>1. PlaceRight(v, rel[v])
      BY DEF ConInv
    <3>2. PICK y : y = rel[v]
      OBVIOUS
    <3>3. PlaceRight(v, y)'
      BY <2>1, <3>1, <3>2, PlaceKept
    <3> QED BY <2>1, <3>2, <3>3
  <2> QED BY <2>1, <2>2 DEF ConInv
<1>2. ASSUME NEW v \in Release, Step(v) PROVE ConInv'
  BY <1>2, NewRuntimeKeeps, ValidateKeeps, RetryEntryKeeps, RetryTableKeeps DEF Step
<1> QED BY <1>1, <1>2, MutateKeeps DEF ConNext

(* What is known of the arguments, at each place of a constructor.         *)
THEOREM ConInductive == ConSpec => []ConInv
<1>1. ConInit => ConInv
  BY ConInitInv
<1>2. ConInv /\ [ConNext]_conVars => ConInv'
  BY ConNextInv
<1> QED BY <1>1, <1>2, PTL DEF ConSpec
-----------------------------------------------------------------------------
(* Both releases fail with the class that the reference model predicts     *)
(* (validate.go against lab/model/validate.go), whatever the specs, the    *)
(* claims and the map, and in whatever order the map is iterated.          *)
THEOREM PredictedRight == ConSpec => []AsPredicted
<1>1. ASSUME ConInv PROVE AsPredicted
  <2>1. SUFFICES ASSUME NEW v \in Release, Decided(v) PROVE ClassOf(rel[v].err.what) = Predicted
    BY DEF AsPredicted
  <2>2. PlaceRight(v, rel[v]) /\ specs \in SpecLists /\ asked \in PolicyInputs
    BY <1>1 DEF ConInv
  <2>3. CASE rel[v].pc = "done"
    <3>1. RuntimeOK /\ Accepted /\ BadOutcomes = {} /\ ~AskedUnsafe /\ rel[v].err = NoError
      BY <2>2, <2>3 DEF PlaceRight
    <3> QED BY <3>1 DEF Accepted, AskedUnsafe, Predicted, ClassOf, NoError, Effect
  <2>4. CASE rel[v].pc = "failed"
    <3>1. Complaint(v, rel[v].err)
      BY <2>2, <2>4 DEF PlaceRight
    <3>2. CASE ~RuntimeOK /\ rel[v].err = ValidateSpecs
      <4>1. ClassOf(ValidateSpecs.what) = "other"
        BY <2>2, <3>2, SpecsJudged
      <4> QED BY <3>2, <4>1 DEF Predicted
    <3>3. CASE RuntimeOK /\ ~Accepted /\ rel[v].err = ValidateArguments
      <4>1. policy = asked /\ handler \in BOOLEAN /\ name \in BOOLEAN
        BY <1>1, <2>4 DEF ConInv
      <4> QED BY <2>2, <3>3, <4>1, ArgumentsJudged
    <3>4. CASE RuntimeOK /\ Accepted /\ \E o \in BadOutcomes : rel[v].err = InvalidRetry(o)
      <4>1. PICK o \in BadOutcomes : rel[v].err = InvalidRetry(o)
        BY <3>4
      <4>2. InvalidRetry(o).what \in {"throttled", "neverRetryable", "invalidOutcome"}
        <5>1. CASE o = Throttled
          BY <5>1 DEF InvalidRetry
        <5>2. CASE o /= Throttled /\ o \in {Success, Permanent}
          BY <5>2 DEF InvalidRetry
        <5>3. CASE o /= Throttled /\ o \notin {Success, Permanent}
          BY <5>3 DEF InvalidRetry
        <5> QED BY <5>1, <5>2, <5>3
      <4>3. ClassOf(rel[v].err.what) = "invalid-retry-policy"
        BY <4>1, <4>2 DEF ClassOf
      <4> QED BY <3>4, <4>1, <4>3 DEF Accepted, Predicted, Effect
    <3>5. CASE /\ RuntimeOK /\ Accepted /\ BadOutcomes = {} /\ AskedUnsafe
               /\ rel[v].err = [what |-> "unsafe", about |-> 0]
      <4>1. ClassOf(rel[v].err.what) = "unsafe-retry"
        BY <3>5 DEF ClassOf
      <4> QED BY <3>5, <4>1 DEF Accepted, AskedUnsafe, Predicted, Effect
    <3> QED BY <3>1, <3>2, <3>3, <3>4, <3>5 DEF Complaint
  <2> QED BY <2>1, <2>3, <2>4 DEF Decided
<1> QED BY <1>1, ConInductive, PTL

(* Of two bad entries there are at least two.                              *)
LEMMA TwoAreMany ==
  ASSUME NEW S, IsFiniteSet(S), NEW a \in S, NEW b \in S, a /= b
  PROVE  Cardinality(S) > 1
<1>1. IsFiniteSet(S \ {a}) /\ Cardinality(S \ {a}) = Cardinality(S) - 1 /\ Cardinality(S) \in Nat
  BY FS_RemoveElement, FS_CardinalityType
<1>2. Cardinality(S \ {a}) \in Nat /\ Cardinality(S \ {a}) /= 0
  BY <1>1, FS_CardinalityType, FS_EmptySet
<1> QED BY <1>1, <1>2

(* The text of an error is that of the previous release; where that        *)
(* depended on the order of the map, the lowest outcome decides            *)
(* (validate.go:8-9).                                                      *)
THEOREM LowestRight == ConSpec => []LowestDecides
<1>1. ASSUME ConInv PROVE LowestDecides
  <2>1. SUFFICES ASSUME Decided("v1"), Decided("v02")
                 PROVE  \/ rel["v1"].err = rel["v02"].err
                        \/ /\ Cardinality(BadOutcomes) > 1
                           /\ rel["v02"].err \in {InvalidRetry(o) : o \in BadOutcomes}
                           /\ rel["v1"].err = InvalidRetry(Min(BadOutcomes))
    BY DEF LowestDecides
  <2>2. /\ PlaceRight("v1", rel["v1"]) /\ PlaceRight("v02", rel["v02"]) /\ asked \in PolicyInputs
    BY <1>1 DEF ConInv, Release
  <2>3. \A v \in Release : rel[v].pc = "failed" => Complaint(v, rel[v].err)
    BY <1>1 DEF ConInv, PlaceRight
  <2>4. \A v \in Release : rel[v].pc = "done" => /\ rel[v].err = NoError
                                                /\ RuntimeOK /\ Accepted /\ BadOutcomes = {} /\ ~AskedUnsafe
    BY <1>1 DEF ConInv, PlaceRight
  <2>5. CASE RuntimeOK /\ Accepted /\ BadOutcomes /= {}
    <3>1. rel["v1"].pc = "failed" /\ rel["v02"].pc = "failed"
      BY <2>1, <2>4, <2>5 DEF Decided, Release
    <3>2. /\ \E o \in BadOutcomes : rel["v1"].err = InvalidRetry(o) /\ o = Min(BadOutcomes)
          /\ \E o \in BadOutcomes : rel["v02"].err = InvalidRetry(o)
      BY <2>3, <2>5, <3>1 DEF Complaint, Release
    <3>3. PICK o \in BadOutcomes : rel["v02"].err = InvalidRetry(o)
      BY <3>2
    <3>4. rel["v1"].err = InvalidRetry(Min(BadOutcomes)) /\ Min(BadOutcomes) \in BadOutcomes
      BY <3>2
    <3>5. IsFiniteSet(BadOutcomes)
      BY <2>2, PolicyIs, FS_Subset DEF BadOutcomes
    <3>6. CASE o = Min(BadOutcomes)
      BY <3>3, <3>4, <3>6
    <3>7. CASE o /= Min(BadOutcomes)
      <4>1. Cardinality(BadOutcomes) > 1
        BY <3>4, <3>5, <3>7, TwoAreMany
      <4> QED BY <3>3, <3>4, <4>1
    <3> QED BY <3>6, <3>7
  <2>6. CASE ~(RuntimeOK /\ Accepted /\ BadOutcomes /= {})
    <3>1. ASSUME NEW v \in Release, Decided(v)
          PROVE  rel[v].err = IF ~RuntimeOK THEN ValidateSpecs
                              ELSE IF ~Accepted THEN ValidateArguments
                              ELSE IF AskedUnsafe THEN [what |-> "unsafe", about |-> 0]
                              ELSE NoError
      <4>1. rel[v].pc = "done" \/ Complaint(v, rel[v].err)
        BY <2>3, <3>1 DEF Decided
      <4> QED BY <2>4, <2>6, <4>1 DEF Complaint
    <3>2. "v1" \in Release /\ "v02" \in Release
      BY DEF Release
    <3> QED BY <2>1, <3>1, <3>2
  <2> QED BY <2>5, <2>6
<1> QED BY <1>1, ConInductive, PTL

(* What the caller does to its slice and its map afterwards changes        *)
(* nothing in the operation (operation.go, validate.go: the snapshot of    *)
(* the policy); the previous release follows the map, but to nothing       *)
(* unsafe.                                                                 *)
THEOREM SnapshotRight == ConSpec => []SnapshotKept
<1>1. ASSUME ConInv PROVE SnapshotKept
  <2>1. SUFFICES ASSUME NEW v \in Release, rel[v].pc = "done"
                 PROVE  /\ rel[v].op.claims = Sorted(asked.reqs)
                        /\ rel[v].op.mode = "Reject" <=> asked.mode = "Reject"
                        /\ v = "v1" \/ policy = asked => Repeats(v) = Want \cap RetrySafe(asked.effect)
                        /\ Repeats(v) \subseteq RetrySafe(asked.effect)
                        /\ rel[v].op.attempts >= 1 /\ rel[v].op.timeout >= 0
    BY DEF SnapshotKept, Want
  <2>2. OpRight(v, rel[v].op) /\ policy.effect = asked.effect
    BY <1>1, <2>1 DEF ConInv, PlaceRight
  <2>3. RetrySafe(asked.effect) \subseteq {Transient, Uncertain}
    BY DEF RetrySafe
  <2>4. CASE v = "v1"
    <3>1. Repeats(v) = Want \cap RetrySafe(asked.effect)
      BY <2>2, <2>4 DEF Repeats, OpRight
    <3> QED BY <2>2, <3>1 DEF OpRight
  <2>5. CASE v /= "v1"
    <3>1. Repeats(v) = {o \in DOMAIN policy.on : policy.on[o] /\ o \in RetrySafe(asked.effect)}
      BY <2>2, <2>5 DEF Repeats
    <3>2. policy = asked => Repeats(v) = Want \cap RetrySafe(asked.effect)
      BY <2>3, <3>1 DEF Want
    <3> QED BY <2>2, <2>5, <3>1, <3>2 DEF OpRight
  <2> QED BY <2>4, <2>5
<1> QED BY <1>1, ConInductive, PTL
-----------------------------------------------------------------------------
(***************************************************************************)
(* Engine.                                                                 *)
(***************************************************************************)
CallerPC == {"loop", "do", "check", "admit", "queued", "woken", "attempt", "enter", "serve", "exit", "ended",
             "release", "return", "record", "gone"}
Errs == {"nil", "overloaded", "stopping", "deadline", "injected", "refused"}
Slots == [pc : CallerPC, t0 : Int, t1 : Int, done : Nat, units : Nat, key : Nat, ctx : {"none", "live", "done"},
          next : Nat, n : Nat, at : Nat, err : Errs]
Arrivals == [pc : {"poll", "now", "send", "gone"}, next : Int, upto : Int, queue : Seq(Int), dropped : Nat]
Runs == [pc : {"warmup", "measure", "closing", "shutdown", "drain", "wait", "hung", "collect"},
         t : Int, from : Int, to : Int, stop : BOOLEAN, stopping : BOOLEAN, drainErr : BOOLEAN]
Records == [all : Nat, ok : Nat, errs : Nat]
ShardsUsed == {ShardOf(c) : c \in Clients}

EngTypeOK ==
  /\ load \in Workloads
  /\ clock \in Int
  /\ run \in Runs
  /\ caller \in [Clients -> Slots]
  /\ calls \in Nat
  /\ open \in Arrivals
  /\ mon \in [inUse : [1..load.resources -> Int], holders : [1..load.keys -> Int], viol : {0}]
  /\ rec \in [ShardsUsed -> Records]

Flying(s) == s.pc \notin {"loop", "do", "return", "record", "gone"}

(* What a caller holds at each place, and where it is among the counters   *)
(* it enters and leaves: its budgets, and after them its key.              *)
Placed(s) ==
  /\ s.key \in 0..load.keys
  /\ s.next \in Start(s)..(load.resources + 1)
  /\ ~Flying(s) => s.next = Start(s)
  /\ s.pc \in {"check", "admit", "queued"} => s.next <= load.resources
  /\ s.pc \in {"attempt", "enter", "serve", "exit", "ended"} => s.next = load.resources + 1
  /\ s.pc \in {"loop", "gone"} => s.ctx = "none"
  /\ s.pc \in {"enter", "exit"} => s.at \in 1..(load.resources + (IF s.key = 0 THEN 0 ELSE 1))

(* The counters that a caller is counted at.                               *)
CountedAt(s, x) == \/ s.pc = "enter" /\ x < s.at
                   \/ s.pc = "serve"
                   \/ s.pc = "exit" /\ s.at <= x

Portion(s, b) == IF CountedAt(s, b) THEN s.units ELSE 0
Grip(s, k) == IF CountedAt(s, load.resources + 1) /\ s.key = k THEN 1 ELSE 0

InUse(b) == SumFunction([c \in Clients |-> Portion(caller[c], b)])
Holders(k) == SumFunction([c \in Clients |-> Grip(caller[c], k)])

(* Nobody passes the gate once the runtime stops, and a drain that did not *)
(* time out has seen everybody leave who had passed it.                    *)
RunRight ==
  /\ run.pc \in {"drain", "wait", "hung", "collect"} => run.stopping
  /\ run.pc \in {"wait", "hung", "collect"} /\ ~run.drainErr => \A c \in Clients : ~Flying(caller[c])
  /\ run.pc = "collect" => Gone

(* At most one of the callers has a key.                                   *)
Apart(q) == \A c, d \in Clients : c /= d /\ HasKey(q[c]) /\ HasKey(q[d]) => q[c].key /= q[d].key

EngInv ==
  /\ EngTypeOK
  /\ \A c \in Clients : Placed(caller[c])
  /\ \A b \in 1..load.resources : mon.inUse[b] = InUse(b)
  /\ \A k \in 1..load.keys : mon.holders[k] = Holders(k)
  /\ \A b \in 1..load.resources : Used(b) <= load.capacity
  /\ Apart(caller)
  /\ RunRight
  /\ Total("all") = Total("ok") + Total("errs") /\ Total("all") = Done
-----------------------------------------------------------------------------
LEMMA TermsAre ==
  ASSUME NEW s \in Slots
  PROVE  /\ \A b : Portion(s, b) \in Nat /\ HeldUnits(s, b) \in Nat
         /\ \A k : Grip(s, k) \in {0, 1}
<1>1. s.units \in Nat
  BY DEF Slots
<1> QED BY <1>1 DEF Portion, Grip, HeldUnits

(* What is counted of a caller, it holds.                                  *)
LEMMA CountedIsHeld ==
  ASSUME NEW s \in Slots, Placed(s), load.resources \in Nat
  PROVE  /\ \A b \in 1..load.resources : Portion(s, b) <= HeldUnits(s, b)
         /\ \A k : k /= 0 /\ Grip(s, k) = 1 => HasKey(s) /\ s.key = k
<1>1. s.units \in Nat
  BY DEF Slots
<1>2. \A b : CountedAt(s, b) => s.next = load.resources + 1
  BY DEF CountedAt, Placed
<1>3. ASSUME NEW b \in 1..load.resources PROVE Portion(s, b) <= HeldUnits(s, b)
  BY <1>1, <1>2 DEF Portion, HeldUnits
<1>4. ASSUME NEW k, k /= 0, Grip(s, k) = 1 PROVE HasKey(s) /\ s.key = k
  BY <1>2, <1>4 DEF Grip, HasKey
<1> QED BY <1>3, <1>4

(* A step moves one caller, and the sums with it.                          *)
LEMMA SumsMove ==
  ASSUME EngTypeOK, NEW c \in Clients, NEW s \in Slots, caller' = [caller EXCEPT ![c] = s], load' = load
  PROVE  /\ caller' \in [Clients -> Slots] /\ caller'[c] = s
         /\ \A d \in Clients : d /= c => caller'[d] = caller[d]
         /\ \A b : InUse(b) \in Int /\ InUse(b)' = InUse(b) - Portion(caller[c], b) + Portion(s, b)
         /\ \A k : Holders(k) \in Int /\ Holders(k)' = Holders(k) - Grip(caller[c], k) + Grip(s, k)
         /\ \A b : Used(b) \in Int /\ Used(b)' = Used(b) - HeldUnits(caller[c], b) + HeldUnits(s, b)
         /\ Done \in Int /\ Done' = Done - caller[c].done + s.done
<1>1. /\ caller \in [Clients -> Slots] /\ caller' \in [Clients -> Slots] /\ caller'[c] = s
      /\ \A d \in Clients : d /= c => caller'[d] = caller[d]
      /\ \A d \in Clients : caller[d] \in Slots /\ caller'[d] \in Slots
  BY DEF EngTypeOK
<1>2. IsFiniteSet(Clients)
  BY EngineAssumption
<1>3. ASSUME NEW b
      PROVE  InUse(b) \in Int /\ InUse(b)' = InUse(b) - Portion(caller[c], b) + Portion(s, b)
  <2> DEFINE f == [d \in Clients |-> Portion(caller[d], b)]
             g == [d \in Clients |-> Portion(caller'[d], b)]
  <2>1. f \in [Clients -> Int] /\ g \in [Clients -> Int]
    BY <1>1, TermsAre
  <2>2. f[c] = Portion(caller[c], b) /\ g[c] = Portion(s, b) /\ \A x \in Clients : x /= c => g[x] = f[x]
    BY <1>1
  <2>3. InUse(b) = SumFunction(f) /\ InUse(b)' = SumFunction(g)
    BY DEF InUse, Portion, CountedAt
  <2> HIDE DEF f, g
  <2>4. Summands(Clients, f) /\ Summands(Clients, g) /\ DifferAt(Clients, f, g, c)
    BY <1>2, <2>1, <2>2 DEF Summands, DifferAt
  <2>5. SumFunction(f) \in Int /\ SumFunction(g) = SumFunction(f) - f[c] + g[c]
    BY <2>4, SumUpdate
  <2> QED BY <2>2, <2>3, <2>5
<1>4. ASSUME NEW k
      PROVE  Holders(k) \in Int /\ Holders(k)' = Holders(k) - Grip(caller[c], k) + Grip(s, k)
  <2> DEFINE f == [d \in Clients |-> Grip(caller[d], k)]
             g == [d \in Clients |-> Grip(caller'[d], k)]
  <2>1. f \in [Clients -> Int] /\ g \in [Clients -> Int]
    BY <1>1, TermsAre
  <2>2. f[c] = Grip(caller[c], k) /\ g[c] = Grip(s, k) /\ \A x \in Clients : x /= c => g[x] = f[x]
    BY <1>1
  <2>3. Holders(k) = SumFunction(f) /\ Holders(k)' = SumFunction(g)
    BY DEF Holders, Grip, CountedAt
  <2> HIDE DEF f, g
  <2>4. Summands(Clients, f) /\ Summands(Clients, g) /\ DifferAt(Clients, f, g, c)
    BY <1>2, <2>1, <2>2 DEF Summands, DifferAt
  <2>5. SumFunction(f) \in Int /\ SumFunction(g) = SumFunction(f) - f[c] + g[c]
    BY <2>4, SumUpdate
  <2> QED BY <2>2, <2>3, <2>5
<1>5. ASSUME NEW b
      PROVE  Used(b) \in Int /\ Used(b)' = Used(b) - HeldUnits(caller[c], b) + HeldUnits(s, b)
  <2> DEFINE f == [d \in Clients |-> HeldUnits(caller[d], b)]
             g == [d \in Clients |-> HeldUnits(caller'[d], b)]
  <2>1. f \in [Clients -> Int] /\ g \in [Clients -> Int]
    BY <1>1, TermsAre
  <2>2. f[c] = HeldUnits(caller[c], b) /\ g[c] = HeldUnits(s, b) /\ \A x \in Clients : x /= c => g[x] = f[x]
    BY <1>1
  <2>3. Used(b) = SumFunction(f) /\ Used(b)' = SumFunction(g)
    BY DEF Used, HeldUnits
  <2> HIDE DEF f, g
  <2>4. Summands(Clients, f) /\ Summands(Clients, g) /\ DifferAt(Clients, f, g, c)
    BY <1>2, <2>1, <2>2 DEF Summands, DifferAt
  <2>5. SumFunction(f) \in Int /\ SumFunction(g) = SumFunction(f) - f[c] + g[c]
    BY <2>4, SumUpdate
  <2> QED BY <2>2, <2>3, <2>5
<1>6. Done \in Int /\ Done' = Done - caller[c].done + s.done
  <2> DEFINE f == [d \in Clients |-> caller[d].done]
             g == [d \in Clients |-> caller'[d].done]
  <2>1. f \in [Clients -> Int] /\ g \in [Clients -> Int]
    BY <1>1 DEF Slots
  <2>2. f[c] = caller[c].done /\ g[c] = s.done /\ \A x \in Clients : x /= c => g[x] = f[x]
    BY <1>1
  <2>3. Done = SumFunction(f) /\ Done' = SumFunction(g)
    BY DEF Done
  <2> HIDE DEF f, g
  <2>4. Summands(Clients, f) /\ Summands(Clients, g) /\ DifferAt(Clients, f, g, c)
    BY <1>2, <2>1, <2>2 DEF Summands, DifferAt
  <2>5. SumFunction(f) \in Int /\ SumFunction(g) = SumFunction(f) - f[c] + g[c]
    BY <2>4, SumUpdate
  <2> QED BY <2>2, <2>3, <2>5
<1> QED BY <1>1, <1>3, <1>4, <1>5, <1>6

LEMMA LoadIs ==
  ASSUME EngTypeOK
  PROVE  /\ load.resources \in Nat /\ load.resources >= 1 /\ load.capacity \in Nat /\ load.heavy \in Nat
         /\ load.keys \in Nat /\ load.attempts \in Nat /\ load.open \in BOOLEAN /\ HeavyUnits \in Nat
<1>1. /\ load.resources \in Nat \ {0} /\ load.capacity \in Nat \ {0} /\ load.heavy \in Nat
      /\ load.keys \in Nat /\ load.attempts \in Nat /\ load.open \in BOOLEAN
  BY EngineAssumption DEF EngTypeOK
<1>2. load.capacity \div 2 \in Nat
  BY <1>1
<1> QED BY <1>1, <1>2 DEF HeavyUnits

LEMMA SlotIs ==
  ASSUME EngInv, NEW c \in Clients
  PROVE  /\ caller[c] \in Slots /\ Placed(caller[c]) /\ (caller[c].pc /= "gone" => run.pc /= "collect")
         /\ caller \in [Clients -> Slots] /\ EngTypeOK /\ load.resources \in Nat /\ load.resources >= 1
         /\ load.keys \in Nat /\ load.capacity \in Nat
<1>1. EngTypeOK
  BY DEF EngInv
<1> QED BY <1>1, LoadIs DEF EngInv, EngTypeOK, RunRight, Gone

(* What a step of a caller must keep.                                      *)
LEMMA CallerKeeps ==
  ASSUME EngInv, NEW c \in Clients, NEW s \in Slots, caller' = [caller EXCEPT ![c] = s],
         UNCHANGED <<load, run>>, EngTypeOK', caller[c].pc /= "gone", Placed(s),
         Flying(s) => Flying(caller[c]) \/ ~run.stopping,
         \A b \in 1..load.resources : mon'.inUse[b] = mon.inUse[b] - Portion(caller[c], b) + Portion(s, b),
         \A k \in 1..load.keys : mon'.holders[k] = mon.holders[k] - Grip(caller[c], k) + Grip(s, k),
         \A b \in 1..load.resources : Used(b) - HeldUnits(caller[c], b) + HeldUnits(s, b) <= load.capacity,
         HasKey(s) => \A d \in Clients : d /= c /\ HasKey(caller[d]) => caller[d].key /= s.key,
         Total("all")' = Total("ok")' + Total("errs")',
         Total("all")' = Total("all") - caller[c].done + s.done
  PROVE  EngInv'
<1>1. EngTypeOK /\ load' = load /\ run' = run /\ Apart(caller) /\ RunRight
  BY DEF EngInv
<1>2. /\ caller' \in [Clients -> Slots] /\ caller'[c] = s
      /\ \A d \in Clients : d /= c => caller'[d] = caller[d]
      /\ \A b : InUse(b) \in Int /\ InUse(b)' = InUse(b) - Portion(caller[c], b) + Portion(s, b)
      /\ \A k : Holders(k) \in Int /\ Holders(k)' = Holders(k) - Grip(caller[c], k) + Grip(s, k)
      /\ \A b : Used(b) \in Int /\ Used(b)' = Used(b) - HeldUnits(caller[c], b) + HeldUnits(s, b)
      /\ Done \in Int /\ Done' = Done - caller[c].done + s.done
  BY <1>1, SumsMove
<1>3. \A d \in Clients : Placed(caller[d])'
  <2> SUFFICES ASSUME NEW d \in Clients PROVE Placed(caller[d])'
    OBVIOUS
  <2>1. Placed(caller[d])
    BY DEF EngInv
  <2> QED BY <1>1, <1>2, <2>1 DEF Placed, Start, Flying
<1>4. /\ \A b \in 1..load'.resources : mon'.inUse[b] = InUse(b)'
      /\ \A k \in 1..load'.keys : mon'.holders[k] = Holders(k)'
  BY <1>1, <1>2 DEF EngInv
<1>5. \A b \in 1..load'.resources : Used(b)' <= load'.capacity
  BY <1>1, <1>2
<1>6. Apart(caller')
  <2> SUFFICES ASSUME NEW a \in Clients, NEW d \in Clients, a /= d, HasKey(caller'[a]), HasKey(caller'[d])
               PROVE  caller'[a].key /= caller'[d].key
    BY DEF Apart
  <2>1. CASE a = c
    BY <1>2, <2>1
  <2>2. CASE d = c
    BY <1>2, <2>2
  <2>3. CASE a /= c /\ d /= c
    BY <1>1, <1>2, <2>3 DEF Apart
  <2> QED BY <2>1, <2>2, <2>3
<1>7. RunRight'
  <2>1. run'.pc /= "collect"
    BY <1>1, SlotIs
  <2>2. ASSUME run.pc \in {"wait", "hung", "collect"}, ~run.drainErr, NEW d \in Clients
        PROVE  ~Flying(caller'[d])
    <3>1. run.stopping /\ ~Flying(caller[c]) /\ ~Flying(caller[d])
      BY <1>1, <2>2 DEF RunRight
    <3> QED BY <1>2, <3>1
  <2>3. \A d \in Clients : Flying(caller[d])' <=> Flying(caller'[d])
    BY DEF Flying
  <2> QED BY <1>1, <2>1, <2>2, <2>3 DEF RunRight
<1>8. Total("all")' = Done'
  BY <1>2 DEF EngInv
<1>9. Apart(caller)'
  BY <1>6 DEF Apart, HasKey
<1> QED BY <1>3, <1>4, <1>5, <1>7, <1>8, <1>9 DEF EngInv

(* Most steps of a caller leave it counted as it was, and take nothing.    *)
Calm(s, t) ==
  /\ \A x \in 1..(load.resources + 1) : CountedAt(t, x) <=> CountedAt(s, x)
  /\ (t.units = s.units /\ t.key = s.key /\ t.next <= s.next) \/ ~Flying(t)
  /\ Flying(t) => Flying(s) \/ ~run.stopping
  /\ t.done = s.done

LEMMA QuietKeeps ==
  ASSUME EngInv, NEW c \in Clients, NEW s \in Slots, caller' = [caller EXCEPT ![c] = s],
         UNCHANGED <<load, run, mon, rec>>, EngTypeOK', caller[c].pc /= "gone", Placed(s), Calm(caller[c], s)
  PROVE  EngInv'
<1>1. caller[c] \in Slots /\ load.resources \in Nat /\ load.capacity \in Nat /\ EngTypeOK /\ Placed(caller[c])
  BY SlotIs
<1>2. /\ \A b : Portion(caller[c], b) \in Nat /\ Portion(s, b) \in Nat
      /\ \A b : HeldUnits(caller[c], b) \in Nat /\ HeldUnits(s, b) \in Nat
      /\ \A k : Grip(caller[c], k) \in {0, 1} /\ Grip(s, k) \in {0, 1}
  BY <1>1, TermsAre
<1>3. \A x : CountedAt(s, x) => s.units = caller[c].units /\ s.key = caller[c].key
  BY DEF CountedAt, Calm, Flying
<1>4. \A b \in 1..load.resources : Portion(s, b) = Portion(caller[c], b)
  <2> SUFFICES ASSUME NEW b \in 1..load.resources PROVE Portion(s, b) = Portion(caller[c], b)
    OBVIOUS
  <2>1. b \in 1..(load.resources + 1)
    BY <1>1
  <2> QED BY <1>3, <2>1 DEF Calm, Portion
<1>5. \A k : Grip(s, k) = Grip(caller[c], k)
  <2>1. load.resources + 1 \in 1..(load.resources + 1)
    BY <1>1
  <2> QED BY <1>3, <2>1 DEF Calm, Grip
<1>6. caller[c].next \in Nat /\ s.next \in Nat /\ caller[c].units \in Nat
  BY <1>1 DEF Slots
<1>7. \A b \in 1..load.resources : HeldUnits(s, b) <= HeldUnits(caller[c], b)
  <2>1. CASE ~Flying(s)
    <3>1. s.next <= 1
      BY <2>1 DEF Placed, Start
    <3> QED BY <1>2, <1>6, <3>1 DEF HeldUnits
  <2>2. CASE s.units = caller[c].units /\ s.next <= caller[c].next
    BY <1>2, <1>6, <2>2 DEF HeldUnits
  <2> QED BY <2>1, <2>2 DEF Calm
<1>8. HasKey(s) => HasKey(caller[c]) /\ s.key = caller[c].key
  <2>1. CASE ~Flying(s)
    BY <1>6, <2>1 DEF Placed, Start, HasKey
  <2>2. CASE s.key = caller[c].key /\ s.next <= caller[c].next
    BY <1>6, <2>2 DEF HasKey
  <2> QED BY <2>1, <2>2 DEF Calm
<1>9. /\ \A b \in 1..load.resources : mon'.inUse[b] = mon.inUse[b] - Portion(caller[c], b) + Portion(s, b)
      /\ \A k \in 1..load.keys : mon'.holders[k] = mon.holders[k] - Grip(caller[c], k) + Grip(s, k)
  <2>1. /\ \A b \in 1..load.resources : mon.inUse[b] \in Int
        /\ \A k \in 1..load.keys : mon.holders[k] \in Int
    BY <1>1 DEF EngTypeOK
  <2> QED BY <1>2, <1>4, <1>5, <2>1
<1>10. \A b \in 1..load.resources : Used(b) - HeldUnits(caller[c], b) + HeldUnits(s, b) <= load.capacity
  <2> SUFFICES ASSUME NEW b \in 1..load.resources
               PROVE  Used(b) - HeldUnits(caller[c], b) + HeldUnits(s, b) <= load.capacity
    OBVIOUS
  <2>1. Used(b) \in Int /\ Used(b) <= load.capacity
    BY <1>1, SumsMove DEF EngInv
  <2> QED BY <1>1, <1>2, <1>7, <2>1
<1>11. HasKey(s) => \A d \in Clients : d /= c /\ HasKey(caller[d]) => caller[d].key /= s.key
  BY <1>8 DEF EngInv, Apart
<1>12. \A f : Total(f)' = Total(f)
  BY DEF Total
<1>13. Total("all")' = Total("ok")' + Total("errs")' /\ Total("all")' = Total("all") - caller[c].done + s.done
  <2>1. Done \in Int /\ caller[c].done \in Nat /\ s.done = caller[c].done
    BY <1>1, SumsMove DEF Calm, Slots
  <2>2. Total("all") = Total("ok") + Total("errs") /\ Total("all") = Done
    BY DEF EngInv
  <2> QED BY <1>12, <2>1, <2>2
<1>14. Flying(s) => Flying(caller[c]) \/ ~run.stopping
  BY DEF Calm
<1> QED BY <1>9, <1>10, <1>11, <1>13, <1>14, CallerKeeps

(* A step that changes only a caller leaves the rest as it is typed.       *)
LEMMA AloneHolds ==
  ASSUME EngInv, NEW c \in Clients, NEW s \in Slots, caller' = [caller EXCEPT ![c] = s],
         UNCHANGED <<load, clock, run, calls, open, mon, rec>>, caller[c].pc /= "gone", Placed(s), Calm(caller[c], s)
  PROVE  EngInv'
<1>1. EngTypeOK'
  BY SlotIs DEF EngTypeOK
<1> QED BY <1>1, QuietKeeps
-----------------------------------------------------------------------------
(* The steps of a caller that are counted nowhere.                         *)
Uncounted(s) == s.pc \notin {"enter", "serve", "exit"}

LEMMA GoesHolds ==
  ASSUME EngInv, NEW c \in Clients, NEW l \in CallerPC, Goes(c, l), caller[c].pc \notin {"loop", "gone"},
         Uncounted(caller[c]), l \notin {"loop", "enter", "serve", "exit", "gone"},
         l \in {"return", "record"} => caller[c].next = Start(caller[c]),
         l \in {"check", "admit", "queued"} => caller[c].next <= load.resources,
         l \in {"attempt", "ended"} => caller[c].next = load.resources + 1,
         ~Flying(caller[c]) => run.stopping = FALSE, l /= "do"
  PROVE  EngInv'
<1> DEFINE s == [caller[c] EXCEPT !.pc = l]
<1>1. caller[c] \in Slots /\ Placed(caller[c]) /\ caller \in [Clients -> Slots] /\ load.resources \in Nat
  BY SlotIs
<1>2. caller' = [caller EXCEPT ![c] = s] /\ UNCHANGED <<load, clock, run, calls, open, mon, rec>>
  BY <1>1 DEF Goes
<1>3. /\ s \in Slots /\ s.pc = l /\ s.done = caller[c].done /\ s.key = caller[c].key
      /\ s.units = caller[c].units /\ s.next = caller[c].next /\ s.ctx = caller[c].ctx
  BY <1>1 DEF Slots
<1> HIDE DEF s
<1>4. Start(s) = Start(caller[c]) /\ s.next \in Nat
  BY <1>3 DEF Start, Slots
<1>5. Placed(s)
  BY <1>1, <1>3, <1>4 DEF Placed, Flying
<1>6. Calm(caller[c], s)
  BY <1>3, <1>4 DEF Calm, CountedAt, Uncounted, Flying
<1> QED BY <1>2, <1>3, <1>5, <1>6, AloneHolds

LEMMA DeniedHolds ==
  ASSUME EngInv, NEW c \in Clients, NEW err \in Errs, Denied(c, err), Flying(caller[c]), Uncounted(caller[c])
  PROVE  EngInv'
<1> DEFINE s == [caller[c] EXCEPT !.pc = "release", !.err = err]
<1>1. caller[c] \in Slots /\ Placed(caller[c]) /\ caller \in [Clients -> Slots] /\ load.resources \in Nat
  BY SlotIs
<1>2. caller' = [caller EXCEPT ![c] = s] /\ UNCHANGED <<load, clock, run, calls, open, mon, rec>>
  BY <1>1 DEF Denied
<1>3. /\ s \in Slots /\ s.pc = "release" /\ s.done = caller[c].done /\ s.key = caller[c].key
      /\ s.units = caller[c].units /\ s.next = caller[c].next
  BY <1>1 DEF Slots, CallerPC
<1> HIDE DEF s
<1>4. Start(s) = Start(caller[c]) /\ s.next \in Nat
  BY <1>3 DEF Start, Slots
<1>5. Placed(s)
  BY <1>1, <1>3, <1>4 DEF Placed, Flying
<1>6. Calm(caller[c], s)
  BY <1>3, <1>4 DEF Calm, CountedAt, Uncounted, Flying
<1>7. caller[c].pc /= "gone"
  BY DEF Flying
<1> QED BY <1>2, <1>3, <1>5, <1>6, <1>7, AloneHolds

(* A caller takes what fits: the units are there, or nobody has its key.   *)
LEMMA TakesHolds ==
  ASSUME EngInv, NEW c \in Clients, Fits(c), caller[c].pc \in {"admit", "queued"},
         NEW l \in {"woken", Onward(caller[c].next + 1)}, Takes(c, l)
  PROVE  EngInv'
<1> DEFINE m == caller[c].next + 1
           s == [caller[c] EXCEPT !.pc = l, !.next = m]
<1>1. /\ caller[c] \in Slots /\ Placed(caller[c]) /\ caller \in [Clients -> Slots] /\ EngTypeOK
      /\ load.resources \in Nat /\ load.capacity \in Nat
  BY SlotIs
<1>2. caller' = [caller EXCEPT ![c] = s] /\ UNCHANGED <<load, clock, run, calls, open, mon, rec>>
  BY <1>1 DEF Takes
<1>3. m \in Nat /\ caller[c].next \in Nat /\ caller[c].next <= load.resources /\ m = caller[c].next + 1
      /\ caller[c].units \in Nat
  BY <1>1 DEF Slots, Placed
<1>4. /\ l \in {"woken", "attempt", "admit"}
      /\ l = "attempt" => m > load.resources
      /\ l = "admit" => ~(m > load.resources)
  BY DEF Onward
<1> HIDE DEF m
<1>5. /\ s \in Slots /\ s.pc = l /\ s.done = caller[c].done /\ s.key = caller[c].key
      /\ s.units = caller[c].units /\ s.next = m
  <2>1. caller[c] \in Slots /\ m \in Nat /\ l \in CallerPC
    BY <1>1, <1>3, <1>4 DEF CallerPC
  <2> QED BY ONLY <2>1 DEF Slots
<1> HIDE DEF s
<1>6. Placed(s)
  <2>1. Start(s) = Start(caller[c])
    BY <1>5 DEF Start
  <2>2. Start(caller[c]) \in {0, 1} /\ caller[c].next \in Start(caller[c])..(load.resources + 1)
        /\ caller[c].key \in 0..load.keys
    BY <1>1 DEF Placed, Start
  <2> QED BY <1>1, <1>3, <1>4, <1>5, <2>1, <2>2 DEF Placed, Flying
<1>7. EngTypeOK'
  BY <1>1, <1>2, <1>5 DEF EngTypeOK
<1>8. /\ \A b : Portion(s, b) = 0 /\ Portion(caller[c], b) = 0
      /\ \A k : Grip(s, k) = 0 /\ Grip(caller[c], k) = 0
  BY <1>4, <1>5 DEF Portion, Grip, CountedAt
<1>9. /\ \A b \in 1..load.resources : mon'.inUse[b] = mon.inUse[b] - Portion(caller[c], b) + Portion(s, b)
      /\ \A k \in 1..load.keys : mon'.holders[k] = mon.holders[k] - Grip(caller[c], k) + Grip(s, k)
  <2>1. /\ \A b \in 1..load.resources : mon.inUse[b] \in Int
        /\ \A k \in 1..load.keys : mon.holders[k] \in Int
    BY <1>1 DEF EngTypeOK
  <2> QED BY <1>2, <1>8, <2>1
<1>10. ASSUME NEW b \in 1..load.resources
       PROVE  Used(b) - HeldUnits(caller[c], b) + HeldUnits(s, b) <= load.capacity
  <2>1. Used(b) \in Int /\ Used(b) <= load.capacity
    BY <1>1, <1>2, <1>5, SumsMove DEF EngInv
  <2>2. CASE b = caller[c].next
    <3>1. Used(b) + caller[c].units <= load.capacity
      BY <1>1, <2>2 DEF Fits
    <3>2. HeldUnits(caller[c], b) = 0 /\ HeldUnits(s, b) = caller[c].units
      BY <1>3, <1>5, <2>2 DEF HeldUnits
    <3> QED BY <1>3, <2>1, <3>1, <3>2
  <2>3. CASE b /= caller[c].next
    <3>1. HeldUnits(s, b) = HeldUnits(caller[c], b) /\ HeldUnits(s, b) \in Nat
      BY <1>3, <1>5, <2>3 DEF HeldUnits
    <3> QED BY <1>1, <2>1, <3>1
  <2> QED BY <2>2, <2>3
<1>11. HasKey(s) => \A d \in Clients : d /= c /\ HasKey(caller[d]) => caller[d].key /= s.key
  <2>1. CASE caller[c].next = 0
    BY <1>5, <2>1 DEF Fits
  <2>2. CASE caller[c].next /= 0
    <3>1. HasKey(s) => HasKey(caller[c])
      BY <1>3, <1>5, <2>2 DEF HasKey
    <3> QED BY <1>5, <3>1 DEF EngInv, Apart
  <2> QED BY <2>1, <2>2
<1>12. Total("all")' = Total("ok")' + Total("errs")' /\ Total("all")' = Total("all") - caller[c].done + s.done
  <2>1. \A f : Total(f)' = Total(f)
    BY <1>2 DEF Total
  <2>2. Done \in Int /\ caller[c].done \in Nat /\ s.done = caller[c].done
    BY <1>1, <1>2, <1>5, SumsMove DEF Slots
  <2>3. Total("all") = Total("ok") + Total("errs") /\ Total("all") = Done
    BY DEF EngInv
  <2> QED BY <2>1, <2>2, <2>3
<1>13. Flying(caller[c]) /\ caller[c].pc /= "gone"
  BY DEF Flying
<1> QED BY <1>2, <1>5, <1>6, <1>7, <1>9, <1>10, <1>11, <1>12, <1>13, CallerKeeps

(* The steps of a caller.                                                  *)
LEMMA LeaveHolds ==
  ASSUME EngInv, NEW c \in Clients, Leave(c)
  PROVE  EngInv'
<1> DEFINE s == [caller[c] EXCEPT !.pc = "gone"]
<1>1. /\ caller[c] \in Slots /\ Placed(caller[c]) /\ caller[c].pc = "loop" /\ caller \in [Clients -> Slots]
      /\ UNCHANGED <<load, clock, run, calls, open, mon, rec>>
  BY SlotIs DEF Leave, Is
<1>2. caller' = [caller EXCEPT ![c] = s]
  BY <1>1 DEF Leave
<1>3. /\ s \in Slots /\ s.pc = "gone" /\ s.done = caller[c].done /\ s.key = caller[c].key
      /\ s.next = caller[c].next /\ s.ctx = caller[c].ctx
  BY <1>1 DEF Slots, CallerPC
<1> HIDE DEF s
<1>4. Placed(s) /\ Calm(caller[c], s)
  BY <1>1, <1>3 DEF Placed, Calm, CountedAt, Flying, Start
<1> QED BY <1>1, <1>2, <1>3, <1>4, AloneHolds

LEMMA CallHolds ==
  ASSUME EngInv, NEW c \in Clients, Call(c)
  PROVE  EngInv'
<1>1. /\ caller[c] \in Slots /\ Placed(caller[c]) /\ caller[c].pc = "loop" /\ EngTypeOK
      /\ UNCHANGED <<load, clock, run, mon, rec>> /\ calls' = calls + 1
      /\ load.keys \in Nat /\ load.resources \in Nat /\ load.resources >= 1
      /\ HeavyUnits \in Nat /\ load.open \in BOOLEAN
  BY SlotIs, LoadIs DEF Call, Is
<1>2. clock \in Int /\ calls' \in Nat /\ open \in Arrivals
  BY <1>1 DEF EngTypeOK
<1> DEFINE t == IF load.open THEN Head(open.queue) ELSE clock
<1>3. t \in Int /\ open' \in Arrivals
  <2>1. CASE load.open
    <3>1. open.queue \in Seq(Int) /\ open.queue /= <<>>
      BY <1>2, <2>1 DEF Call, Arrivals
    <3>2. Head(open.queue) \in Int /\ Tail(open.queue) \in Seq(Int)
      BY <3>1, HeadTailProperties
    <3>3. open' = [open EXCEPT !.queue = Tail(@)]
      BY <2>1 DEF Call
    <3> QED BY <1>2, <2>1, <3>2, <3>3 DEF Arrivals
  <2>2. CASE ~load.open
    BY <1>2, <2>2 DEF Call
  <2> QED BY <2>1, <2>2
<1> DEFINE K == IF load.keys = 0 THEN {0} ELSE 1..load.keys
           X == {"none"} \cup (IF load.cancel THEN {"live"} ELSE {})
<1>4. PICK k \in K, u \in {1, HeavyUnits}, x \in X :
        caller' = [caller EXCEPT ![c] = [@ EXCEPT !.pc = "do", !.t0 = t, !.key = k, !.units = u, !.ctx = x,
                                                  !.next = IF k = 0 THEN 1 ELSE 0]]
  BY Zenon DEF Call
<1>5. k \in 0..load.keys /\ u \in Nat /\ k \in Nat /\ x \in {"none", "live", "done"}
  BY <1>1, <1>4
<1> HIDE DEF t, K, X
<1> DEFINE f == IF k = 0 THEN 1 ELSE 0
           s == [caller[c] EXCEPT !.pc = "do", !.t0 = t, !.key = k, !.units = u, !.ctx = x, !.next = f]
<1>6. caller' = [caller EXCEPT ![c] = s]
  <2>1. caller \in [Clients -> Slots]
    BY <1>1 DEF EngTypeOK
  <2> QED BY ONLY <1>4, <2>1, c \in Clients DEF Slots
<1>10. f = (IF k = 0 THEN 1 ELSE 0) /\ f \in Nat
  OBVIOUS
<1> HIDE DEF f
<1>7. s \in Slots /\ s.pc = "do" /\ s.done = caller[c].done /\ s.key = k /\ s.next = f
  <2>1. caller[c] \in Slots /\ t \in Int /\ k \in Nat /\ u \in Nat /\ x \in {"none", "live", "done"} /\ f \in Nat
    BY <1>1, <1>3, <1>5, <1>10
  <2> QED BY ONLY <2>1 DEF Slots, CallerPC
<1> HIDE DEF s
<1>8. Placed(s) /\ Calm(caller[c], s)
  BY <1>1, <1>5, <1>7, <1>10 DEF Placed, Calm, CountedAt, Flying, Start
<1>9. EngTypeOK'
  BY <1>1, <1>2, <1>3, <1>6, <1>7 DEF EngTypeOK
<1> QED BY <1>1, <1>6, <1>7, <1>8, <1>9, QuietKeeps

LEMMA CtxEndsHolds ==
  ASSUME EngInv, NEW c \in Clients, CtxEnds(c)
  PROVE  EngInv'
<1> DEFINE s == [caller[c] EXCEPT !.ctx = "done"]
<1>1. /\ caller[c] \in Slots /\ Placed(caller[c]) /\ caller[c].ctx = "live" /\ caller \in [Clients -> Slots]
      /\ UNCHANGED <<load, clock, run, calls, open, mon, rec>>
  BY SlotIs DEF CtxEnds
<1>2. caller' = [caller EXCEPT ![c] = s]
  BY <1>1 DEF CtxEnds
<1>3. /\ s \in Slots /\ s.pc = caller[c].pc /\ s.done = caller[c].done /\ s.key = caller[c].key
      /\ s.units = caller[c].units /\ s.next = caller[c].next /\ s.at = caller[c].at /\ s.next \in Nat
  BY <1>1 DEF Slots
<1> HIDE DEF s
<1>4. caller[c].pc \notin {"loop", "gone"}
  BY <1>1 DEF Placed
<1>5. Placed(s)
  BY <1>1, <1>3, <1>4 DEF Placed, Flying, Start
<1>6. Calm(caller[c], s)
  BY <1>3 DEF Calm, CountedAt, Flying
<1> QED BY <1>1, <1>2, <1>3, <1>4, <1>5, <1>6, AloneHolds

LEMMA GateHolds ==
  ASSUME EngInv, NEW c \in Clients, Gate(c)
  PROVE  EngInv'
<1>1. /\ caller[c] \in Slots /\ Placed(caller[c]) /\ caller[c].pc = "do" /\ caller \in [Clients -> Slots]
      /\ UNCHANGED <<load, clock, run, calls, open, mon, rec>> /\ load.resources \in Nat /\ load.resources >= 1
  BY SlotIs DEF Gate, Is
<1>2. caller[c].next = Start(caller[c]) /\ Start(caller[c]) \in {0, 1}
  BY <1>1 DEF Placed, Flying, Start
<1>3. CASE run.stopping
  <2> DEFINE s == [caller[c] EXCEPT !.pc = "return", !.err = "stopping"]
  <2>1. caller' = [caller EXCEPT ![c] = s]
    BY <1>1, <1>3 DEF Gate
  <2>2. /\ s \in Slots /\ s.pc = "return" /\ s.done = caller[c].done /\ s.key = caller[c].key
        /\ s.next = caller[c].next
    BY <1>1 DEF Slots, CallerPC, Errs
  <2> HIDE DEF s
  <2>3. Placed(s) /\ Calm(caller[c], s)
    BY <1>1, <1>2, <2>2 DEF Placed, Calm, CountedAt, Flying, Start
  <2> QED BY <1>1, <2>1, <2>2, <2>3, AloneHolds
<1>4. CASE ~run.stopping
  <2>1. PICK l \in {"check", "admit"} : caller' = [caller EXCEPT ![c].pc = l]
    BY <1>4 DEF Gate
  <2>2. Goes(c, l) /\ l \in CallerPC
    BY <1>1, <2>1 DEF Goes, CallerPC
  <2>3. run.stopping = FALSE
    BY <1>4, SlotIs DEF EngTypeOK, Runs
  <2>4. caller[c].next <= load.resources /\ Uncounted(caller[c])
    BY <1>1, <1>2 DEF Uncounted
  <2> QED BY <1>1, <2>1, <2>2, <2>3, <2>4, GoesHolds
<1> QED BY <1>3, <1>4

LEMMA AliveHolds ==
  ASSUME EngInv, NEW c \in Clients, Alive(c)
  PROVE  EngInv'
<1>1. caller[c].pc = "check" /\ Flying(caller[c]) /\ Uncounted(caller[c])
  BY DEF Alive, Is, Flying, Uncounted
<1>2. CASE Denied(c, "deadline")
  <2>1. "deadline" \in Errs
    BY DEF Errs
  <2> QED BY <1>1, <1>2, <2>1, DeniedHolds
<1>3. CASE Goes(c, "admit")
  <2>1. "admit" \in CallerPC
    BY DEF CallerPC
  <2>2. caller[c].next <= load.resources
    BY <1>1, SlotIs DEF Placed
  <2> QED BY <1>1, <1>3, <2>1, <2>2, GoesHolds
<1> QED BY <1>2, <1>3 DEF Alive

LEMMA AdmitHolds ==
  ASSUME EngInv, NEW c \in Clients, Admit(c)
  PROVE  EngInv'
<1>1. /\ caller[c].pc = "admit" /\ Flying(caller[c]) /\ Uncounted(caller[c]) /\ Placed(caller[c])
  BY SlotIs DEF Admit, Is, Flying, Uncounted
<1>2. CASE AtOnce(c) /\ Takes(c, Onward(caller[c].next + 1))
  BY <1>1, <1>2, TakesHolds DEF AtOnce
<1>3. CASE Denied(c, "refused")
  <2>1. "refused" \in Errs
    BY DEF Errs
  <2> QED BY <1>1, <1>3, <2>1, DeniedHolds
<1>4. CASE Goes(c, "queued")
  <2>1. caller[c].next <= load.resources
    BY <1>1 DEF Placed
  <2> QED BY <1>1, <1>4, <2>1, GoesHolds DEF CallerPC
<1> QED BY <1>2, <1>3, <1>4 DEF Admit

LEMMA HandedHolds ==
  ASSUME EngInv, NEW c \in Clients, Handed(c)
  PROVE  EngInv'
BY TakesHolds DEF Handed, Is

LEMMA WakeHolds ==
  ASSUME EngInv, NEW c \in Clients, Wake(c)
  PROVE  EngInv'
<1>1. /\ caller[c].pc = "woken" /\ Flying(caller[c]) /\ Uncounted(caller[c]) /\ Placed(caller[c])
      /\ caller[c].next \in Nat /\ load.resources \in Nat
  BY SlotIs DEF Wake, Is, Flying, Uncounted, Slots
<1>2. Start(caller[c]) \in {0, 1} /\ caller[c].next <= load.resources + 1
  BY <1>1 DEF Placed, Start
<1>3. CASE caller[c].next > load.resources
  <2>1. Goes(c, "attempt") /\ caller[c].next = load.resources + 1
    BY <1>1, <1>2, <1>3 DEF Wake, Onward
  <2> QED BY <1>1, <2>1, GoesHolds DEF CallerPC
<1>4. CASE ~(caller[c].next > load.resources)
  <2>1. Goes(c, "admit") /\ caller[c].next <= load.resources
    BY <1>1, <1>4 DEF Wake, Onward
  <2> QED BY <1>1, <2>1, GoesHolds DEF CallerPC
<1> QED BY <1>3, <1>4

LEMMA GiveUpHolds ==
  ASSUME EngInv, NEW c \in Clients, GiveUp(c)
  PROVE  EngInv'
<1>1. Denied(c, "refused") /\ Flying(caller[c]) /\ Uncounted(caller[c])
  BY DEF GiveUp, Is, Flying, Uncounted
<1>2. "refused" \in Errs
  BY DEF Errs
<1> QED BY <1>1, <1>2, DeniedHolds

LEMMA AttemptHolds ==
  ASSUME EngInv, NEW c \in Clients, Attempt(c)
  PROVE  EngInv'
<1>1. /\ caller[c].pc = "attempt" /\ Flying(caller[c]) /\ Uncounted(caller[c]) /\ Placed(caller[c])
      /\ caller[c] \in Slots /\ caller \in [Clients -> Slots] /\ load.resources \in Nat /\ load.resources >= 1
  BY SlotIs DEF Attempt, Is, Flying, Uncounted
<1>2. CASE Denied(c, "deadline")
  <2>1. "deadline" \in Errs
    BY DEF Errs
  <2> QED BY <1>1, <1>2, <2>1, DeniedHolds
<1>3. CASE ~Ctx(c)
  <2> DEFINE n == caller[c].n + 1
             s == [caller[c] EXCEPT !.pc = "enter", !.at = 1, !.n = n]
  <2>1. caller' = [caller EXCEPT ![c] = s] /\ UNCHANGED <<load, clock, run, calls, open, mon, rec>>
    BY <1>1, <1>3 DEF Attempt
  <2>2. n \in Nat
    BY <1>1 DEF Slots
  <2> HIDE DEF n
  <2>3. /\ s \in Slots /\ s.pc = "enter" /\ s.at = 1 /\ s.done = caller[c].done /\ s.key = caller[c].key
        /\ s.units = caller[c].units /\ s.next = caller[c].next
    BY ONLY <1>1, <2>2 DEF Slots, CallerPC
  <2> HIDE DEF s
  <2>4. Placed(s)
    BY <1>1, <2>3 DEF Placed, Flying, Start
  <2>5. s.next <= caller[c].next
    BY <1>1, <2>3 DEF Slots
  <2>6. \A x \in 1..(load.resources + 1) : CountedAt(s, x) <=> CountedAt(caller[c], x)
    BY <1>1, <2>3 DEF CountedAt
  <2>7. Calm(caller[c], s)
    BY <1>1, <2>3, <2>5, <2>6 DEF Calm
  <2> QED BY <1>1, <2>1, <2>3, <2>4, <2>7, AloneHolds
<1> QED BY <1>2, <1>3 DEF Attempt

LEMMA ServeHolds ==
  ASSUME EngInv, NEW c \in Clients, Serve(c)
  PROVE  EngInv'
<1>1. /\ caller[c] \in Slots /\ Placed(caller[c]) /\ caller[c].pc = "serve" /\ caller \in [Clients -> Slots]
      /\ UNCHANGED <<load, clock, run, calls, open, mon, rec>>
      /\ load.resources \in Nat /\ load.resources >= 1
  BY SlotIs DEF Serve, Is
<1>2. PICK err \in Errs : caller' = [caller EXCEPT ![c].pc = "exit", ![c].at = 1, ![c].err = err]
  BY DEF Serve, Errs
<1> DEFINE s == [caller[c] EXCEPT !.pc = "exit", !.at = 1, !.err = err]
<1>3. caller' = [caller EXCEPT ![c] = s]
  BY <1>1, <1>2
<1>4. /\ s \in Slots /\ s.pc = "exit" /\ s.at = 1 /\ s.done = caller[c].done
      /\ s.key = caller[c].key /\ s.units = caller[c].units /\ s.next = caller[c].next
  BY <1>1 DEF Slots, CallerPC
<1> HIDE DEF s
<1>5. Placed(s)
  BY <1>1, <1>4 DEF Placed, Flying, Start
<1>6. s.next <= caller[c].next /\ Flying(s) /\ Flying(caller[c])
  BY <1>1, <1>4 DEF Slots, Flying
<1>7. \A x \in 1..(load.resources + 1) : CountedAt(s, x) <=> CountedAt(caller[c], x)
  BY <1>1, <1>4 DEF CountedAt
<1>8. Calm(caller[c], s)
  BY <1>4, <1>6, <1>7 DEF Calm
<1> QED BY <1>1, <1>3, <1>4, <1>5, <1>8, AloneHolds

LEMMA EndedHolds ==
  ASSUME EngInv, NEW c \in Clients, Ended(c)
  PROVE  EngInv'
<1>1. /\ caller[c].pc = "ended" /\ Flying(caller[c]) /\ Uncounted(caller[c])
      /\ caller[c].next = load.resources + 1
  BY SlotIs DEF Ended, Is, Flying, Uncounted, Placed
<1>2. PICK l \in {"attempt", "release"} : Goes(c, l)
  BY DEF Ended
<1>3. l \in CallerPC
  BY DEF CallerPC
<1> QED BY <1>1, <1>2, <1>3, GoesHolds

LEMMA RefuseHolds ==
  ASSUME EngInv, NEW c \in Clients, Refuse(c)
  PROVE  EngInv'
<1>1. Denied(c, Refusal(c)) /\ Flying(caller[c]) /\ Uncounted(caller[c])
  BY DEF Refuse, Is, Flying, Uncounted
<1>2. Refusal(c) \in Errs
  BY DEF Refusal, Errs
<1> QED BY <1>1, <1>2, DeniedHolds

LEMMA GiveBackHolds ==
  ASSUME EngInv, NEW c \in Clients, GiveBack(c)
  PROVE  EngInv'
<1> DEFINE m == caller[c].next - 1
           s == [caller[c] EXCEPT !.next = m]
<1>1. /\ caller[c] \in Slots /\ Placed(caller[c]) /\ caller[c].pc = "release" /\ caller \in [Clients -> Slots]
      /\ caller[c].next > Start(caller[c]) /\ load.resources \in Nat
      /\ UNCHANGED <<load, clock, run, calls, open, mon, rec>>
  BY SlotIs DEF GiveBack, Is
<1>2. caller' = [caller EXCEPT ![c] = s]
  BY <1>1 DEF GiveBack
<1>3. /\ m \in Nat /\ m >= Start(caller[c]) /\ m <= load.resources /\ m <= caller[c].next
      /\ Start(caller[c]) \in {0, 1}
  BY <1>1 DEF Slots, Placed, Start
<1> HIDE DEF m
<1>4. /\ s \in Slots /\ s.pc = "release" /\ s.done = caller[c].done
      /\ s.key = caller[c].key /\ s.units = caller[c].units /\ s.next = m
  BY ONLY <1>1, <1>3 DEF Slots
<1> HIDE DEF s
<1>5. Start(s) = Start(caller[c]) /\ Flying(s) /\ Flying(caller[c])
  BY <1>1, <1>4 DEF Start, Flying
<1>6. Placed(s)
  BY <1>1, <1>3, <1>4, <1>5 DEF Placed
<1>7. Calm(caller[c], s)
  BY <1>1, <1>3, <1>4, <1>5 DEF Calm, CountedAt
<1> QED BY <1>1, <1>2, <1>4, <1>6, <1>7, AloneHolds

LEMMA ExitHolds ==
  ASSUME EngInv, NEW c \in Clients, Exit(c)
  PROVE  EngInv'
<1>1. /\ caller[c].pc = "release" /\ Flying(caller[c]) /\ Uncounted(caller[c])
      /\ caller[c].next = Start(caller[c]) /\ Goes(c, "return")
  BY DEF Exit, Is, Flying, Uncounted
<1>2. "return" \in CallerPC
  BY DEF CallerPC
<1> QED BY <1>1, <1>2, GoesHolds

LEMMA ReturnedHolds ==
  ASSUME EngInv, NEW c \in Clients, Returned(c)
  PROVE  EngInv'
<1> DEFINE s == [caller[c] EXCEPT !.pc = "record", !.t1 = clock]
<1>1. /\ caller[c] \in Slots /\ Placed(caller[c]) /\ caller[c].pc = "return" /\ caller \in [Clients -> Slots]
      /\ clock \in Int /\ UNCHANGED <<load, clock, run, calls, open, mon, rec>>
  BY SlotIs DEF Returned, Is, EngTypeOK
<1>2. caller' = [caller EXCEPT ![c] = s]
  BY <1>1 DEF Returned
<1>3. /\ s \in Slots /\ s.pc = "record" /\ s.done = caller[c].done /\ s.key = caller[c].key
      /\ s.next = caller[c].next
  BY <1>1 DEF Slots, CallerPC
<1> HIDE DEF s
<1>4. Placed(s) /\ Calm(caller[c], s)
  BY <1>1, <1>3 DEF Placed, Calm, CountedAt, Flying, Start
<1> QED BY <1>1, <1>2, <1>3, <1>4, AloneHolds
-----------------------------------------------------------------------------
(* The monitor's counters.                                                 *)
Monitors == [inUse : [1..load.resources -> Int], holders : [1..load.keys -> Int], viol : {0}]

MonitorOf(A, B) == [inUse : [A -> Int], holders : [B -> Int], viol : {0}]
AddsToBudget(A, B, r, a, v, m) == r \in MonitorOf(A, B) /\ a \in A /\ v \in Int /\ m = [r EXCEPT !.inUse[a] = @ + v]
AddsToKey(A, B, r, a, v, m) == r \in MonitorOf(A, B) /\ a \in B /\ v \in Int /\ m = [r EXCEPT !.holders[a] = @ + v]

LEMMA BudgetCounted ==
  ASSUME NEW A, NEW B, NEW r, NEW a, NEW v, NEW m, AddsToBudget(A, B, r, a, v, m)
  PROVE  /\ m \in MonitorOf(A, B) /\ m.holders = r.holders
         /\ \A b \in A : r.inUse[b] \in Int /\ m.inUse[b] = r.inUse[b] + (IF b = a THEN v ELSE 0)
<1> DEFINE f == r.inUse
           g == [f EXCEPT ![a] = @ + v]
<1>1. f \in [A -> Int] /\ r.holders \in [B -> Int]
  BY DEF MonitorOf, AddsToBudget
<1>2. g \in [A -> Int] /\ \A b \in A : f[b] \in Int /\ g[b] = f[b] + (IF b = a THEN v ELSE 0)
  <2>1. a \in A /\ v \in Int
    BY DEF AddsToBudget
  <2> QED BY ONLY <1>1, <2>1
<1>3. m = [r EXCEPT !.inUse = g] /\ r \in MonitorOf(A, B)
  BY DEF AddsToBudget
<1> HIDE DEF g
<1> QED BY <1>1, <1>2, <1>3 DEF MonitorOf

LEMMA KeyCounted ==
  ASSUME NEW A, NEW B, NEW r, NEW a, NEW v, NEW m, AddsToKey(A, B, r, a, v, m)
  PROVE  /\ m \in MonitorOf(A, B) /\ m.inUse = r.inUse
         /\ \A b \in B : r.holders[b] \in Int /\ m.holders[b] = r.holders[b] + (IF b = a THEN v ELSE 0)
<1> DEFINE f == r.holders
           g == [f EXCEPT ![a] = @ + v]
<1>1. f \in [B -> Int] /\ r.inUse \in [A -> Int]
  BY DEF MonitorOf, AddsToKey
<1>2. g \in [B -> Int] /\ \A b \in B : f[b] \in Int /\ g[b] = f[b] + (IF b = a THEN v ELSE 0)
  <2>1. a \in B /\ v \in Int
    BY DEF AddsToKey
  <2> QED BY ONLY <1>1, <2>1
<1>3. m = [r EXCEPT !.holders = g] /\ r \in MonitorOf(A, B)
  BY DEF AddsToKey
<1> HIDE DEF g
<1> QED BY <1>1, <1>2, <1>3 DEF MonitorOf

LEMMA CountIs ==
  ASSUME EngInv, NEW c \in Clients, caller[c].pc \in {"enter", "exit"}, NEW sign \in {1, -1},
         NEW m, m = Count(c, sign)
  PROVE  /\ m \in Monitors
         /\ \A b \in 1..load.resources : m.inUse[b] = mon.inUse[b] + (IF b = caller[c].at THEN sign * caller[c].units ELSE 0)
         /\ \A k \in 1..load.keys :
              m.holders[k] = mon.holders[k] + (IF caller[c].at = load.resources + 1 /\ k = caller[c].key THEN sign ELSE 0)
<1> DEFINE a == caller[c].at
           u == caller[c].units
           e == caller[c].key
           R == load.resources
           K == load.keys
<1>1. /\ caller[c] \in Slots /\ Placed(caller[c]) /\ EngTypeOK /\ R \in Nat /\ K \in Nat
  BY SlotIs, LoadIs DEF EngInv
<1>2. u \in Nat /\ e \in 0..K /\ a \in 1..(R + (IF e = 0 THEN 0 ELSE 1))
  BY <1>1 DEF Slots, Placed
<1>3. mon \in Monitors
  BY <1>1 DEF EngTypeOK, Monitors
<1>4. m = IF a > R THEN [mon EXCEPT !.holders[e] = @ + sign] ELSE [mon EXCEPT !.inUse[a] = @ + sign * u]
  BY DEF Count
<1>5. sign \in Int /\ sign * u \in Int
  BY <1>2
<1> DEFINE v == sign * u
<1>6. v \in Int /\ m = IF a > R THEN [mon EXCEPT !.holders[e] = @ + sign] ELSE [mon EXCEPT !.inUse[a] = @ + v]
  BY <1>4, <1>5
<1>7. mon \in MonitorOf(1..R, 1..K)
  BY <1>3 DEF Monitors, MonitorOf
<1> SUFFICES /\ m \in MonitorOf(1..R, 1..K)
             /\ \A b \in 1..R : m.inUse[b] = mon.inUse[b] + (IF b = a THEN v ELSE 0)
             /\ \A k \in 1..K : m.holders[k] = mon.holders[k] + (IF a = R + 1 /\ k = e THEN sign ELSE 0)
  BY DEF Monitors, MonitorOf
<1> DEFINE A == 1..R
           B == 1..K
<1>10. mon \in MonitorOf(A, B)
  BY <1>7
<1> HIDE DEF a, u, e, R, K, v
<1>8. CASE a > R
  <2>1. a = R + 1 /\ e \in 1..K /\ a \notin 1..R
    BY <1>1, <1>2, <1>8
  <2>5. e \in B /\ sign \in Int
    BY <1>5, <1>6, <2>1
  <2>2. AddsToKey(A, B, mon, e, sign, m)
    BY <1>6, <1>8, <1>10, <2>5 DEF AddsToKey
  <2> HIDE DEF A, B
  <2>3. /\ m \in MonitorOf(A, B) /\ m.inUse = mon.inUse
        /\ \A b \in B : mon.holders[b] \in Int /\ m.holders[b] = mon.holders[b] + (IF b = e THEN sign ELSE 0)
    BY <2>2, KeyCounted
  <2>4. \A b \in 1..R : mon.inUse[b] \in Int
    BY <1>7 DEF MonitorOf
  <2> QED BY <2>1, <2>3, <2>4 DEF A, B
<1>9. CASE ~(a > R)
  <2>1. a # R + 1 /\ a \in 1..R
    BY <1>1, <1>2, <1>9
  <2>5. a \in A /\ v \in Int
    BY <1>5, <1>6, <2>1
  <2>2. AddsToBudget(A, B, mon, a, v, m)
    BY <1>6, <1>9, <1>10, <2>5 DEF AddsToBudget
  <2> HIDE DEF A, B
  <2>3. /\ m \in MonitorOf(A, B) /\ m.holders = mon.holders
        /\ \A b \in A : mon.inUse[b] \in Int /\ m.inUse[b] = mon.inUse[b] + (IF b = a THEN v ELSE 0)
    BY <2>2, BudgetCounted
  <2>4. \A k \in 1..K : mon.holders[k] \in Int
    BY <1>7 DEF MonitorOf
  <2> QED BY <2>1, <2>3, <2>4 DEF A, B
<1> QED BY <1>8, <1>9

(* Where a caller is counted after it has counted one more.                *)
LEMMA CountsMove ==
  ASSUME EngInv, NEW c \in Clients, NEW l \in {"serve", "ended"}, Counts(c, l),
         caller[c].pc = IF l = "serve" THEN "enter" ELSE "exit"
  PROVE  \E s \in Slots :
           /\ caller' = [caller EXCEPT ![c] = s] /\ Placed(s)
           /\ s.units = caller[c].units /\ s.key = caller[c].key /\ s.next = caller[c].next
           /\ s.done = caller[c].done /\ Flying(s)
           /\ \A x \in 1..LastCount(c) :
                /\ x = caller[c].at => (CountedAt(s, x) <=> l = "serve") /\ (CountedAt(caller[c], x) <=> l = "ended")
                /\ x /= caller[c].at => (CountedAt(s, x) <=> CountedAt(caller[c], x))
<1>1. /\ caller[c] \in Slots /\ Placed(caller[c]) /\ EngTypeOK /\ load.resources \in Nat
  BY SlotIs, LoadIs DEF EngInv
<1>2. /\ caller[c].at \in Nat /\ caller[c].key \in 0..load.keys
      /\ LastCount(c) \in Nat /\ caller[c].at \in 1..LastCount(c)
      /\ LastCount(c) = load.resources + (IF caller[c].key = 0 THEN 0 ELSE 1)
  BY <1>1 DEF Slots, Placed, LastCount
<1> DEFINE n == caller[c].at + 1
           p == [caller[c] EXCEPT !.pc = l]
           q == [caller[c] EXCEPT !.at = n]
<1>3. n \in Nat
  BY <1>2
<1>4. caller' = [caller EXCEPT ![c] = IF caller[c].at = LastCount(c) THEN p ELSE q]
  BY <1>1 DEF Counts, EngTypeOK
<1> HIDE DEF n
<1>5. /\ p \in Slots /\ p.pc = l /\ p.done = caller[c].done /\ p.key = caller[c].key
      /\ p.units = caller[c].units /\ p.at = caller[c].at /\ p.next = caller[c].next
  BY <1>1 DEF Slots, CallerPC
<1>6. /\ q \in Slots /\ q.pc = caller[c].pc /\ q.done = caller[c].done /\ q.key = caller[c].key
      /\ q.units = caller[c].units /\ q.at = n /\ q.next = caller[c].next
  <2>1. caller[c] \in Slots
    BY <1>1
  <2> QED BY ONLY <1>3, <2>1 DEF Slots
<1> HIDE DEF p, q
<1>7. CASE caller[c].at = LastCount(c)
  <2>1. Placed(p) /\ Flying(p)
    BY <1>1, <1>2, <1>5 DEF Placed, Flying, Start
  <2>2. \A x \in 1..LastCount(c) :
          /\ x = caller[c].at => (CountedAt(p, x) <=> l = "serve") /\ (CountedAt(caller[c], x) <=> l = "ended")
          /\ x /= caller[c].at => (CountedAt(p, x) <=> CountedAt(caller[c], x))
    BY <1>2, <1>5, <1>7 DEF CountedAt
  <2> QED BY <1>4, <1>5, <1>7, <2>1, <2>2
<1>8. CASE caller[c].at /= LastCount(c)
  <2>1. Placed(q) /\ Flying(q)
    BY <1>1, <1>2, <1>6, <1>8 DEF Placed, Flying, Start, n
  <2>2. \A x \in 1..LastCount(c) :
          /\ x = caller[c].at => (CountedAt(q, x) <=> l = "serve") /\ (CountedAt(caller[c], x) <=> l = "ended")
          /\ x /= caller[c].at => (CountedAt(q, x) <=> CountedAt(caller[c], x))
    BY <1>2, <1>6, <1>8 DEF CountedAt, n
  <2> QED BY <1>4, <1>6, <1>8, <2>1, <2>2
<1> QED BY <1>7, <1>8

LEMMA CountMatches ==
  ASSUME EngInv, NEW c \in Clients, NEW l \in {"serve", "ended"},
         caller[c].pc = IF l = "serve" THEN "enter" ELSE "exit",
         NEW m, m = Count(c, IF l = "serve" THEN 1 ELSE -1),
         NEW s \in Slots, s.units = caller[c].units, s.key = caller[c].key,
         \A x \in 1..LastCount(c) :
           /\ x = caller[c].at => (CountedAt(s, x) <=> l = "serve") /\ (CountedAt(caller[c], x) <=> l = "ended")
           /\ x /= caller[c].at => (CountedAt(s, x) <=> CountedAt(caller[c], x))
  PROVE  /\ m \in Monitors
         /\ \A b \in 1..load.resources : m.inUse[b] = mon.inUse[b] - Portion(caller[c], b) + Portion(s, b)
         /\ \A k \in 1..load.keys : m.holders[k] = mon.holders[k] - Grip(caller[c], k) + Grip(s, k)
<1> DEFINE sign == IF l = "serve" THEN 1 ELSE -1
<1>1. /\ caller[c] \in Slots /\ Placed(caller[c]) /\ EngTypeOK /\ load.resources \in Nat /\ load.keys \in Nat
  BY SlotIs, LoadIs DEF EngInv
<1>2. /\ caller[c].units \in Nat /\ caller[c].at \in Nat /\ caller[c].key \in 0..load.keys
      /\ LastCount(c) = load.resources + (IF caller[c].key = 0 THEN 0 ELSE 1)
  BY <1>1 DEF Slots, Placed, LastCount
<1>3. sign \in {1, -1} /\ m = Count(c, sign) /\ caller[c].pc \in {"enter", "exit"}
  OBVIOUS
<1>4. l = "serve" => sign = 1
  OBVIOUS
<1>5. l = "ended" => sign = -1
  OBVIOUS
<1>6. \A b \in 1..load.resources : mon.inUse[b] \in Int
  BY <1>1 DEF EngTypeOK
<1>7. \A k \in 1..load.keys : mon.holders[k] \in Int
  BY <1>1 DEF EngTypeOK
<1> HIDE DEF sign
<1>8. m \in Monitors
  BY <1>3, CountIs
<1>9. \A b \in 1..load.resources : m.inUse[b] = mon.inUse[b] + (IF b = caller[c].at THEN sign * caller[c].units ELSE 0)
  BY <1>3, CountIs
<1>10. \A k \in 1..load.keys :
         m.holders[k] = mon.holders[k] + (IF caller[c].at = load.resources + 1 /\ k = caller[c].key THEN sign ELSE 0)
  BY <1>3, CountIs
<1>11. ASSUME NEW b \in 1..load.resources
       PROVE  m.inUse[b] = mon.inUse[b] - Portion(caller[c], b) + Portion(s, b)
  <2>1. b \in 1..LastCount(c)
    BY <1>1, <1>2
  <2>2. CASE b = caller[c].at
    <3>1. CASE l = "serve"
      <4>1. Portion(s, b) = caller[c].units /\ Portion(caller[c], b) = 0
        BY <2>1, <2>2, <3>1 DEF Portion
      <4>2. m.inUse[b] = mon.inUse[b] + 1 * caller[c].units
        BY <1>4, <1>9, <2>2, <3>1
      <4> QED BY <1>2, <1>6, <4>1, <4>2
    <3>2. CASE l = "ended"
      <4>1. Portion(s, b) = 0 /\ Portion(caller[c], b) = caller[c].units
        BY <2>1, <2>2, <3>2 DEF Portion
      <4>2. m.inUse[b] = mon.inUse[b] + (-1) * caller[c].units
        BY <1>5, <1>9, <2>2, <3>2
      <4> QED BY <1>2, <1>6, <4>1, <4>2
    <3> QED BY <3>1, <3>2
  <2>3. CASE b /= caller[c].at
    <3>1. Portion(s, b) = Portion(caller[c], b) /\ Portion(s, b) \in Nat
      BY <2>1, <2>3, <1>1, TermsAre DEF Portion
    <3>2. m.inUse[b] = mon.inUse[b] + 0
      BY <1>9, <2>3
    <3> QED BY <1>6, <3>1, <3>2
  <2> QED BY <2>2, <2>3
<1>12. ASSUME NEW k \in 1..load.keys
       PROVE  m.holders[k] = mon.holders[k] - Grip(caller[c], k) + Grip(s, k)
  <2>1. CASE k = caller[c].key
    <3>1. load.resources + 1 \in 1..LastCount(c)
      BY <1>1, <1>2, <2>1
    <3>2. CASE caller[c].at = load.resources + 1
      <4>1. CASE l = "serve"
        <5>1. Grip(s, k) = 1 /\ Grip(caller[c], k) = 0
          BY <2>1, <3>1, <3>2, <4>1 DEF Grip
        <5>2. m.holders[k] = mon.holders[k] + 1
          BY <1>4, <1>10, <2>1, <3>2, <4>1
        <5> QED BY <1>7, <5>1, <5>2
      <4>2. CASE l = "ended"
        <5>1. Grip(s, k) = 0 /\ Grip(caller[c], k) = 1
          BY <2>1, <3>1, <3>2, <4>2 DEF Grip
        <5>2. m.holders[k] = mon.holders[k] + (-1)
          BY <1>5, <1>10, <2>1, <3>2, <4>2
        <5> QED BY <1>7, <5>1, <5>2
      <4> QED BY <4>1, <4>2
    <3>3. CASE caller[c].at /= load.resources + 1
      <4>1. Grip(s, k) = Grip(caller[c], k) /\ Grip(s, k) \in {0, 1}
        BY <1>1, <3>1, <3>3, TermsAre DEF Grip
      <4>2. m.holders[k] = mon.holders[k] + 0
        BY <1>10, <3>3
      <4> QED BY <1>7, <4>1, <4>2
    <3> QED BY <3>2, <3>3
  <2>2. CASE k /= caller[c].key
    <3>1. Grip(s, k) = 0 /\ Grip(caller[c], k) = 0
      BY <2>2 DEF Grip
    <3>2. m.holders[k] = mon.holders[k] + 0
      BY <1>10, <2>2
    <3> QED BY <1>7, <3>1, <3>2
  <2> QED BY <2>1, <2>2
<1> QED BY <1>8, <1>11, <1>12

(* What is counted at a budget is at most what is held of it.              *)
LEMMA WithinHeld ==
  ASSUME NEW q \in [Clients -> Slots], \A c \in Clients : Placed(q[c]), load.resources \in Nat,
         NEW b \in 1..load.resources
  PROVE  /\ SumFunction([c \in Clients |-> Portion(q[c], b)]) <= SumFunction([c \in Clients |-> HeldUnits(q[c], b)])
         /\ 0 <= SumFunction([c \in Clients |-> Portion(q[c], b)])
         /\ SumFunction([c \in Clients |-> Portion(q[c], b)]) \in Int
         /\ SumFunction([c \in Clients |-> HeldUnits(q[c], b)]) \in Int
<1> DEFINE f == [c \in Clients |-> Portion(q[c], b)]
           g == [c \in Clients |-> HeldUnits(q[c], b)]
           z == [c \in Clients |-> 0]
<1>1. IsFiniteSet(Clients)
  BY EngineAssumption
<1>2. \A c \in Clients : Portion(q[c], b) \in Nat /\ Portion(q[c], b) <= HeldUnits(q[c], b) /\ HeldUnits(q[c], b) \in Nat
  BY TermsAre, CountedIsHeld
<1>3. f \in [Clients -> Int] /\ g \in [Clients -> Int] /\ z \in [Clients -> Int]
  BY <1>2
<1>4. \A c \in Clients : f[c] <= g[c] /\ z[c] <= f[c] /\ z[c] = 0
  BY <1>2
<1> HIDE DEF f, g, z
<1>5. SumFunction(f) <= SumFunction(g)
  BY <1>1, <1>3, <1>4, SumMonotone
<1>6. SumFunction(z) = 0 /\ SumFunction(z) <= SumFunction(f)
  BY <1>1, <1>3, <1>4, SumMonotone, SumOfZeros
<1>7. SumFunction(f) \in Int /\ SumFunction(g) \in Int
  BY <1>1, <1>3, SumType
<1> QED BY <1>5, <1>6, <1>7 DEF f, g

(* A key that at most one caller has is counted for at most one.           *)
LEMMA OneHolder ==
  ASSUME NEW q \in [Clients -> Slots], Apart(q), \A c \in Clients : Placed(q[c]), load.resources \in Nat, NEW k, k /= 0
  PROVE  \/ SumFunction([c \in Clients |-> Grip(q[c], k)]) = 0
         \/ /\ SumFunction([c \in Clients |-> Grip(q[c], k)]) = 1
            /\ \E c \in Clients : HasKey(q[c]) /\ q[c].key = k
<1> DEFINE f == [c \in Clients |-> Grip(q[c], k)]
           z == [c \in Clients |-> 0]
<1>1. IsFiniteSet(Clients)
  BY EngineAssumption
<1>2. \A c \in Clients : Grip(q[c], k) \in {0, 1}
  BY TermsAre
<1>3. f \in [Clients -> Int] /\ z \in [Clients -> Int] /\ \A c \in Clients : z[c] = 0 /\ f[c] = Grip(q[c], k)
  BY <1>2
<1>4. \A c \in Clients : Grip(q[c], k) = 1 => HasKey(q[c]) /\ q[c].key = k
  BY CountedIsHeld
<1> HIDE DEF f, z
<1>5. CASE \A c \in Clients : f[c] = 0
  <2>1. SumFunction(f) = 0
    BY <1>1, <1>3, <1>5, SumOfZeros
  <2> QED BY <2>1 DEF f
<1>6. CASE \E c \in Clients : f[c] /= 0
  <2>1. PICK c \in Clients : f[c] /= 0
    BY <1>6
  <2>2. f[c] = 1 /\ HasKey(q[c]) /\ q[c].key = k
    BY <1>2, <1>3, <1>4, <2>1
  <2>3. \A d \in Clients : d /= c => f[d] = z[d]
    BY <1>2, <1>3, <1>4, <2>2 DEF Apart
  <2>4. Summands(Clients, z) /\ Summands(Clients, f) /\ DifferAt(Clients, z, f, c)
    BY <1>1, <1>3, <2>3 DEF Summands, DifferAt
  <2>5. SumFunction(f) = SumFunction(z) - z[c] + f[c] /\ SumFunction(z) = 0 /\ z[c] = 0
    BY <1>1, <1>3, <2>4, SumUpdate, SumOfZeros
  <2>6. SumFunction(f) = 1
    BY <2>2, <2>5
  <2> QED BY <2>2, <2>6 DEF f
<1> QED BY <1>5, <1>6

(* A caller that counts one more, in or out, of what it was granted.       *)
LEMMA CountingKeeps ==
  ASSUME EngInv, NEW c \in Clients, NEW l \in {"serve", "ended"},
         caller[c].pc = IF l = "serve" THEN "enter" ELSE "exit",
         Counts(c, l), UNCHANGED <<load, clock, run, calls, open, rec>>,
         mon' = Count(c, IF l = "serve" THEN 1 ELSE -1)
  PROVE  EngInv'
<1>1. /\ caller[c] \in Slots /\ Placed(caller[c]) /\ EngTypeOK /\ load.resources \in Nat /\ load.keys \in Nat
  BY SlotIs, LoadIs DEF EngInv
<1>2. PICK s \in Slots :
           /\ caller' = [caller EXCEPT ![c] = s] /\ Placed(s)
           /\ s.units = caller[c].units /\ s.key = caller[c].key /\ s.next = caller[c].next
           /\ s.done = caller[c].done /\ Flying(s)
           /\ \A x \in 1..LastCount(c) :
                /\ x = caller[c].at => (CountedAt(s, x) <=> l = "serve") /\ (CountedAt(caller[c], x) <=> l = "ended")
                /\ x /= caller[c].at => (CountedAt(s, x) <=> CountedAt(caller[c], x))
  BY CountsMove
<1>3. PICK m : m = Count(c, IF l = "serve" THEN 1 ELSE -1) /\ mon' = m
  OBVIOUS
<1>4. /\ m \in Monitors
      /\ \A b \in 1..load.resources : m.inUse[b] = mon.inUse[b] - Portion(caller[c], b) + Portion(s, b)
      /\ \A k \in 1..load.keys : m.holders[k] = mon.holders[k] - Grip(caller[c], k) + Grip(s, k)
  BY <1>2, <1>3, CountMatches
<1>5. EngTypeOK'
  BY <1>1, <1>2, <1>3, <1>4 DEF EngTypeOK, Monitors
<1>6. Flying(caller[c])
  BY DEF Flying
<1>7. ASSUME NEW b \in 1..load.resources
      PROVE  Used(b) - HeldUnits(caller[c], b) + HeldUnits(s, b) <= load.capacity
  <2>1. Used(b) \in Int /\ Used(b) <= load.capacity
    BY <1>1, <1>2, SumsMove DEF EngInv
  <2>2. HeldUnits(s, b) = HeldUnits(caller[c], b) /\ HeldUnits(s, b) \in Nat
    BY <1>2, TermsAre DEF HeldUnits
  <2>3. load.capacity \in Nat
    BY <1>1, LoadIs
  <2> QED BY <2>1, <2>2, <2>3
<1>8. HasKey(s) => \A d \in Clients : d /= c /\ HasKey(caller[d]) => caller[d].key /= s.key
  BY <1>2 DEF EngInv, Apart, HasKey
<1>9. Total("all")' = Total("ok")' + Total("errs")' /\ Total("all")' = Total("all") - caller[c].done + s.done
  <2>1. \A f : Total(f)' = Total(f)
    BY DEF Total
  <2>2. Done \in Int /\ caller[c].done \in Nat /\ s.done = caller[c].done
    BY <1>1, <1>2, SumsMove DEF Slots
  <2>3. Total("all") = Total("ok") + Total("errs") /\ Total("all") = Done
    BY DEF EngInv
  <2> QED BY <2>1, <2>2, <2>3
<1>10. caller[c].pc /= "gone"
  OBVIOUS
<1>11. /\ \A b \in 1..load.resources : mon'.inUse[b] = mon.inUse[b] - Portion(caller[c], b) + Portion(s, b)
       /\ \A k \in 1..load.keys : mon'.holders[k] = mon.holders[k] - Grip(caller[c], k) + Grip(s, k)
  BY <1>3, <1>4
<1> QED BY <1>2, <1>5, <1>6, <1>7, <1>8, <1>9, <1>10, <1>11, CallerKeeps

LEMMA MonExitHolds ==
  ASSUME EngInv, NEW c \in Clients, MonExit(c)
  PROVE  EngInv'
<1>1. /\ caller[c].pc = "exit" /\ Counts(c, "ended") /\ mon' = Count(c, -1)
      /\ UNCHANGED <<load, clock, run, calls, open, rec>>
  BY DEF MonExit, Is
<1>2. PICK l \in {"serve", "ended"} : l = "ended"
  OBVIOUS
<1>3. /\ caller[c].pc = IF l = "serve" THEN "enter" ELSE "exit"
      /\ Counts(c, l) /\ mon' = Count(c, IF l = "serve" THEN 1 ELSE -1)
  BY <1>1, <1>2
<1> QED BY <1>1, <1>3, CountingKeeps

(* The counters never pass what they are bounded by, so that the monitor   *)
(* has no violation to count.                                              *)
LEMMA NothingOver ==
  ASSUME EngInv, NEW c \in Clients, caller[c].pc = "enter", Counts(c, "serve"), load' = load,
         NEW m, m = Count(c, 1)
  PROVE  /\ \A b \in 1..load.resources : m.inUse[b] <= load.capacity
         /\ \A k \in 1..load.keys : m.holders[k] <= 1
<1>1. /\ caller[c] \in Slots /\ EngTypeOK /\ load.resources \in Nat /\ load.keys \in Nat /\ load.capacity \in Nat
  BY SlotIs, LoadIs DEF EngInv
<1>2. PICK l \in {"serve", "ended"} : l = "serve"
  OBVIOUS
<1>3. caller[c].pc = (IF l = "serve" THEN "enter" ELSE "exit") /\ Counts(c, l) /\ m = Count(c, IF l = "serve" THEN 1 ELSE -1)
  BY <1>2
<1>4. PICK s \in Slots :
           /\ caller' = [caller EXCEPT ![c] = s] /\ Placed(s)
           /\ s.units = caller[c].units /\ s.key = caller[c].key /\ s.next = caller[c].next
           /\ s.done = caller[c].done /\ Flying(s)
           /\ \A x \in 1..LastCount(c) :
                /\ x = caller[c].at => (CountedAt(s, x) <=> l = "serve") /\ (CountedAt(caller[c], x) <=> l = "ended")
                /\ x /= caller[c].at => (CountedAt(s, x) <=> CountedAt(caller[c], x))
  BY <1>3, CountsMove
<1>5. /\ \A b \in 1..load.resources : m.inUse[b] = mon.inUse[b] - Portion(caller[c], b) + Portion(s, b)
      /\ \A k \in 1..load.keys : m.holders[k] = mon.holders[k] - Grip(caller[c], k) + Grip(s, k)
  BY <1>3, <1>4, CountMatches
<1>6. PICK q : q = [caller EXCEPT ![c] = s] /\ caller' = q
  BY <1>4
<1>7. q \in [Clients -> Slots] /\ q[c] = s /\ \A d \in Clients : d /= c => q[d] = caller[d]
  BY <1>1, <1>6 DEF EngTypeOK
<1>8. \A d \in Clients : Placed(q[d])
  <2> SUFFICES ASSUME NEW d \in Clients PROVE Placed(q[d])
    OBVIOUS
  <2>1. Placed(caller[d])
    BY DEF EngInv
  <2> QED BY <1>4, <1>7, <2>1
<1>14. caller' = [caller EXCEPT ![c] = s] /\ load' = load
  BY <1>4
<1>15. \A b : InUse(b) \in Int /\ InUse(b)' = InUse(b) - Portion(caller[c], b) + Portion(s, b)
  BY <1>1, <1>14, SumsMove, ZenonT(30)
<1>16. \A k : Holders(k) \in Int /\ Holders(k)' = Holders(k) - Grip(caller[c], k) + Grip(s, k)
  BY <1>1, <1>14, SumsMove
<1>9. \A b : Used(b) \in Int /\ Used(b)' = Used(b) - HeldUnits(caller[c], b) + HeldUnits(s, b)
  BY <1>1, <1>14, SumsMove, ZenonT(30)
<1>10. /\ \A b : InUse(b)' = SumFunction([d \in Clients |-> Portion(q[d], b)])
       /\ \A k : Holders(k)' = SumFunction([d \in Clients |-> Grip(q[d], k)])
       /\ \A b : Used(b)' = SumFunction([d \in Clients |-> HeldUnits(q[d], b)])
  BY <1>6 DEF InUse, Holders, Used, Portion, Grip, HeldUnits, CountedAt
<1>12. ASSUME NEW b \in 1..load.resources PROVE m.inUse[b] <= load.capacity
  <2>1. m.inUse[b] = InUse(b)'
    BY <1>5, <1>15 DEF EngInv
  <2>2. InUse(b)' <= Used(b)' /\ InUse(b)' \in Int /\ Used(b)' \in Int
    BY <1>1, <1>7, <1>8, <1>10, WithinHeld
  <2>3. HeldUnits(s, b) = HeldUnits(caller[c], b) /\ HeldUnits(s, b) \in Nat
    BY <1>4, TermsAre DEF HeldUnits
  <2>4. Used(b)' <= load.capacity
    BY <1>9, <2>3 DEF EngInv
  <2> QED BY <1>1, <2>1, <2>2, <2>4
<1>13. ASSUME NEW k \in 1..load.keys PROVE m.holders[k] <= 1
  <2>1. m.holders[k] = Holders(k)'
    BY <1>5, <1>16 DEF EngInv
  <2>2. Apart(q)
    BY <1>4, <1>7 DEF EngInv, Apart, HasKey
  <2>3. k /= 0
    BY <1>1
  <2>4. Holders(k)' \in {0, 1}
    BY <1>1, <1>7, <1>8, <1>10, <2>2, <2>3, OneHolder
  <2> QED BY <2>1, <2>4
<1> QED BY <1>12, <1>13

LEMMA MonEnterHolds ==
  ASSUME EngInv, NEW c \in Clients, MonEnter(c)
  PROVE  EngInv'
<1>1. /\ caller[c].pc = "enter" /\ Counts(c, "serve") /\ UNCHANGED <<load, clock, run, calls, open, rec>>
  BY DEF MonEnter, Is
<1>2. PICK m : m = Count(c, 1)
  OBVIOUS
<1>3. /\ \A b \in 1..load.resources : m.inUse[b] <= load.capacity
      /\ \A k \in 1..load.keys : m.holders[k] <= 1
  BY <1>1, <1>2, NothingOver
<1>4. /\ caller[c] \in Slots /\ Placed(caller[c]) /\ EngTypeOK /\ load.resources \in Nat
      /\ load.keys \in Nat /\ load.capacity \in Nat
  BY SlotIs, LoadIs DEF EngInv
<1>5. m \in Monitors
  BY <1>1, <1>2, CountIs
<1>6. \A b \in DOMAIN m.inUse : m.inUse[b] \in Int /\ ~(m.inUse[b] > load.capacity)
  <2>1. m.inUse \in [1..load.resources -> Int]
    BY <1>5 DEF Monitors
  <2>2. DOMAIN m.inUse = 1..load.resources
    BY <2>1
  <2> QED BY <1>3, <1>4, <2>1, <2>2
<1>7. caller[c].at > load.resources => ~(m.holders[caller[c].key] > 1)
  <2>1. caller[c].at > load.resources => caller[c].key \in 1..load.keys
    BY <1>1, <1>4 DEF Placed
  <2>3. m.holders \in [1..load.keys -> Int]
    BY <1>5 DEF Monitors
  <2>2. \A k \in 1..load.keys : m.holders[k] \in Int /\ ~(m.holders[k] > 1)
    BY <1>3, <1>4, <2>3
  <2> QED BY <2>1, <2>2
<1>8. mon' = [m EXCEPT !.viol = @]
  BY <1>2, <1>6, <1>7 DEF MonEnter
<1>9. mon' = m
  BY <1>5, <1>8 DEF Monitors
<1>10. PICK l \in {"serve", "ended"} : l = "serve"
  OBVIOUS
<1>11. /\ caller[c].pc = IF l = "serve" THEN "enter" ELSE "exit"
       /\ Counts(c, l) /\ mon' = Count(c, IF l = "serve" THEN 1 ELSE -1)
  BY <1>1, <1>2, <1>9, <1>10
<1> QED BY <1>1, <1>11, CountingKeeps
-----------------------------------------------------------------------------
(* What the shards have counted.                                           *)
LEMMA ShardsAreFinite ==
  IsFiniteSet(ShardsUsed)
<1>1. IsFiniteSet(Clients)
  BY EngineAssumption
<1> DEFINE f == [c \in Clients |-> ShardOf(c)]
<1>2. f \in Surjection(Clients, ShardsUsed)
  BY DEF Surjection, ShardsUsed
<1> QED BY <1>1, <1>2, FS_Surjection

LEMMA TotalMoves ==
  ASSUME rec \in [ShardsUsed -> Records], NEW z \in ShardsUsed, NEW r \in Records,
         rec' = [rec EXCEPT ![z] = r], NEW f \in {"all", "ok", "errs"}
  PROVE  /\ Total(f) \in Int /\ Total(f)' = Total(f) - rec[z][f] + r[f]
         /\ rec[z][f] \in Nat /\ r[f] \in Nat
<1>1. \A x \in Records : x[f] \in Nat
  <2>1. CASE f = "all"
    BY <2>1 DEF Records
  <2>2. CASE f = "ok"
    BY <2>2 DEF Records
  <2>3. CASE f = "errs"
    BY <2>3 DEF Records
  <2> QED BY <2>1, <2>2, <2>3
<1>2. PICK q : q = [rec EXCEPT ![z] = r] /\ rec' = q
  OBVIOUS
<1>3. q \in [ShardsUsed -> Records] /\ q[z] = r /\ \A x \in ShardsUsed : x /= z => q[x] = rec[x]
  BY <1>2
<1> DEFINE g == [x \in ShardsUsed |-> rec[x][f]]
           h == [x \in ShardsUsed |-> q[x][f]]
<1>4. Total(f) = SumFunction(g) /\ Total(f)' = SumFunction(h)
  BY <1>2, <1>3 DEF Total
<1>5. g \in [ShardsUsed -> Int] /\ h \in [ShardsUsed -> Int]
  BY <1>1, <1>3
<1>6. g[z] = rec[z][f] /\ h[z] = r[f] /\ \A x \in ShardsUsed : x /= z => h[x] = g[x]
  BY <1>3
<1>7. rec[z][f] \in Nat /\ r[f] \in Nat
  BY <1>1
<1> HIDE DEF g, h
<1>8. Summands(ShardsUsed, g) /\ Summands(ShardsUsed, h) /\ DifferAt(ShardsUsed, g, h, z)
  BY <1>5, <1>6, ShardsAreFinite DEF Summands, DifferAt
<1>9. SumFunction(g) \in Int /\ SumFunction(h) = SumFunction(g) - g[z] + h[z]
  BY <1>8, SumUpdate
<1> QED BY <1>4, <1>6, <1>7, <1>9

(* One more call is one more success or one more error.                    *)
LEMMA CountedIs ==
  ASSUME NEW r \in Records, NEW err
  PROVE  /\ Counted(r, err) \in Records
         /\ Counted(r, err).all = r.all + 1
         /\ Counted(r, err).ok + Counted(r, err).errs = r.ok + r.errs + 1
BY DEF Counted, Records

LEMMA RecordHolds ==
  ASSUME EngInv, NEW c \in Clients, Record(c)
  PROVE  EngInv'
<1> DEFINE in == InWindow(caller[c].t0, caller[c].t1)
           p == IF caller[c].err = "stopping" THEN "gone" ELSE "loop"
           n == IF in THEN caller[c].done + 1 ELSE caller[c].done
           s == [Slot EXCEPT !.pc = p, !.done = n]
           z == ShardOf(c)
           r == Counted(rec[z], caller[c].err)
<1>1. /\ caller[c] \in Slots /\ Placed(caller[c]) /\ caller[c].pc = "record" /\ EngTypeOK
      /\ UNCHANGED <<load, clock, run, calls, open, mon>>
      /\ load.resources \in Nat /\ load.keys \in Nat /\ load.capacity \in Nat
  BY SlotIs, LoadIs DEF Record, Is, EngInv
<1>2. caller' = [caller EXCEPT ![c] = s]
  BY DEF Record
<1>3. rec' = IF in THEN [rec EXCEPT ![z] = r] ELSE rec
  BY DEF Record
<1>4. n \in Nat /\ p \in {"gone", "loop"} /\ caller[c].done \in Nat
  BY <1>1 DEF Slots
<1>5. n = IF in THEN caller[c].done + 1 ELSE caller[c].done
  OBVIOUS
<1> HIDE DEF n, p
<1>6. /\ s \in Slots /\ s.pc = p /\ s.done = n /\ s.key = 0 /\ s.next = 1 /\ s.ctx = "none"
  <2>1. Slot \in Slots /\ Slot.key = 0 /\ Slot.next = 1 /\ Slot.ctx = "none"
    BY DEF Slot, Slots, CallerPC, Errs
  <2>2. p \in CallerPC
    BY <1>4 DEF CallerPC
  <2> QED BY ONLY <1>4, <2>1, <2>2 DEF Slots
<1> HIDE DEF s, in
<1>7. Placed(s)
  BY <1>1, <1>4, <1>6 DEF Placed, Flying, Start
<1>8. z \in ShardsUsed /\ rec \in [ShardsUsed -> Records] /\ rec[z] \in Records
  BY <1>1 DEF EngTypeOK, ShardsUsed
<1>9. r \in Records /\ r.all = rec[z].all + 1 /\ r.ok + r.errs = rec[z].ok + rec[z].errs + 1
  BY <1>8, CountedIs
<1> HIDE DEF r, z
<1>10. rec' \in [ShardsUsed -> Records]
  BY <1>3, <1>8, <1>9
<1>11. EngTypeOK'
  BY <1>1, <1>2, <1>6, <1>10 DEF EngTypeOK, ShardsUsed, ShardOf
<1>12. /\ \A b : Portion(s, b) = 0 /\ Portion(caller[c], b) = 0
       /\ \A k : Grip(s, k) = 0 /\ Grip(caller[c], k) = 0
  BY <1>1, <1>4, <1>6 DEF Portion, Grip, CountedAt
<1>13. /\ \A b \in 1..load.resources : mon'.inUse[b] = mon.inUse[b] - Portion(caller[c], b) + Portion(s, b)
       /\ \A k \in 1..load.keys : mon'.holders[k] = mon.holders[k] - Grip(caller[c], k) + Grip(s, k)
  <2>1. /\ \A b \in 1..load.resources : mon.inUse[b] \in Int
        /\ \A k \in 1..load.keys : mon.holders[k] \in Int
    BY <1>1 DEF EngTypeOK
  <2> QED BY <1>1, <1>12, <2>1
<1>14. ASSUME NEW b \in 1..load.resources
       PROVE  Used(b) - HeldUnits(caller[c], b) + HeldUnits(s, b) <= load.capacity
  <2>1. Used(b) \in Int /\ Used(b) <= load.capacity
    BY <1>1, <1>2, <1>6, SumsMove DEF EngInv
  <2>2. caller[c].next <= 1 /\ caller[c].next \in Nat
    BY <1>1 DEF Placed, Flying, Start, Slots
  <2>3. HeldUnits(s, b) = 0 /\ HeldUnits(caller[c], b) = 0
    BY <1>6, <2>2 DEF HeldUnits
  <2> QED BY <2>1, <2>3
<1>15. ~HasKey(s) /\ ~Flying(s)
  BY <1>4, <1>6 DEF HasKey, Flying
<1>16. Total("all") = Total("ok") + Total("errs")
  BY DEF EngInv
<1>17. Total("all")' = Total("ok")' + Total("errs")' /\ Total("all")' = Total("all") - caller[c].done + s.done
  <2>1. CASE in
    <3>1. rec' = [rec EXCEPT ![z] = r]
      BY <1>3, <2>1
    <3>2. \A f \in {"all", "ok", "errs"} :
            /\ Total(f) \in Int /\ Total(f)' = Total(f) - rec[z][f] + r[f]
            /\ rec[z][f] \in Nat /\ r[f] \in Nat
      BY <1>8, <1>9, <3>1, TotalMoves
    <3>3. /\ Total("all") \in Int /\ Total("all")' = Total("all") - rec[z].all + r.all
          /\ rec[z].all \in Nat /\ r.all \in Nat
      BY <3>2
    <3>4. /\ Total("ok") \in Int /\ Total("ok")' = Total("ok") - rec[z].ok + r.ok
          /\ rec[z].ok \in Nat /\ r.ok \in Nat
      BY <3>2
    <3>5. /\ Total("errs") \in Int /\ Total("errs")' = Total("errs") - rec[z].errs + r.errs
          /\ rec[z].errs \in Nat /\ r.errs \in Nat
      BY <3>2
    <3>6. s.done = caller[c].done + 1
      BY <1>5, <1>6, <2>1
    <3> QED BY <1>4, <1>9, <1>16, <3>3, <3>4, <3>5, <3>6
  <2>2. CASE ~in
    <3>1. \A f : Total(f)' = Total(f)
      BY <1>3, <2>2 DEF Total
    <3>2. Total("all") \in Int /\ s.done = caller[c].done
      BY <1>1, <1>2, <1>5, <1>6, <2>2, SumsMove DEF EngInv
    <3> QED BY <1>4, <1>16, <3>1, <3>2
  <2> QED BY <2>1, <2>2
<1> QED BY <1>1, <1>2, <1>6, <1>7, <1>11, <1>13, <1>14, <1>15, <1>17, CallerKeeps
-----------------------------------------------------------------------------
(* The clock, the dispatcher and the run itself touch no caller.           *)
LEMMA OthersKeep ==
  ASSUME EngInv, UNCHANGED <<load, caller, mon, rec>>, EngTypeOK', RunRight'
  PROVE  EngInv'
<1>1. /\ \A b \in 1..load.resources : InUse(b)' = InUse(b) /\ Used(b)' = Used(b)
      /\ \A k \in 1..load.keys : Holders(k)' = Holders(k)
      /\ Done' = Done
  BY DEF InUse, Holders, Used, Done, Portion, Grip, HeldUnits, CountedAt
<1>2. \A f : Total(f)' = Total(f)
  BY DEF Total
<1>3. \A c \in Clients : Placed(caller[c])'
  BY DEF EngInv, Placed, Flying, Start
<1>4. /\ \A b \in 1..load'.resources : mon'.inUse[b] = InUse(b)'
      /\ \A k \in 1..load'.keys : mon'.holders[k] = Holders(k)'
      /\ \A b \in 1..load'.resources : Used(b)' <= load'.capacity
  BY <1>1 DEF EngInv
<1>5. Total("all")' = Total("ok")' + Total("errs")' /\ Total("all")' = Done'
  BY <1>1, <1>2 DEF EngInv
<1>6. Apart(caller)'
  BY DEF EngInv, Apart, HasKey
<1> QED BY <1>3, <1>4, <1>5, <1>6 DEF EngInv

LEMMA OthersHold ==
  ASSUME EngInv, Tick \/ Poll \/ ReadClock \/ Dispatch
  PROVE  EngInv'
<1>1. EngTypeOK /\ UNCHANGED <<load, run, caller, mon, rec>>
  BY DEF EngInv, Tick, Poll, ReadClock, Dispatch
<1>2. clock \in Int /\ open \in Arrivals /\ calls \in Nat
  BY <1>1 DEF EngTypeOK
<1>3. clock' \in Int /\ calls' \in Nat
  BY <1>2 DEF Tick, Poll, ReadClock, Dispatch
<1>4. open' \in Arrivals
  <2>1. CASE Tick
    BY <1>2, <2>1 DEF Tick
  <2>2. CASE Poll
    <3>1. PICK l \in {"gone", "now"} : open' = [open EXCEPT !.pc = l]
      BY <2>2 DEF Poll
    <3> QED BY <1>2, <3>1 DEF Arrivals
  <2>3. CASE ReadClock
    BY <1>2, <2>3 DEF ReadClock, Arrivals
  <2>4. CASE Dispatch
    <3> DEFINE full == Len(open.queue) = OpenQueue
               q == IF full THEN open.queue ELSE Append(open.queue, open.next)
               n == IF full /\ InWindow(open.next, open.next) THEN open.dropped + 1 ELSE open.dropped
    <3>1. PICK gap \in 1..2 :
            open' = [open EXCEPT !.pc = IF open.next + gap <= open.upto THEN "send" ELSE "poll",
                                 !.next = Min2(open.next + gap, Never), !.queue = q, !.dropped = n]
      BY <2>4 DEF Dispatch
    <3>2. open.next \in Int /\ open.queue \in Seq(Int) /\ open.dropped \in Nat
      BY <1>2 DEF Arrivals
    <3>3. q \in Seq(Int) /\ n \in Nat
      BY <3>2
    <3> DEFINE m == Min2(open.next + gap, Never)
               l == IF open.next + gap <= open.upto THEN "send" ELSE "poll"
    <3>4. m \in Int /\ l \in {"poll", "send"}
      BY <3>2, EngineAssumption DEF Min2, Never
    <3>5. open' = [open EXCEPT !.pc = l, !.next = m, !.queue = q, !.dropped = n]
      BY <3>1
    <3> HIDE DEF q, n, m, full, l
    <3> QED BY ONLY <1>2, <3>3, <3>4, <3>5 DEF Arrivals
  <2> QED BY <2>1, <2>2, <2>3, <2>4
<1>5. EngTypeOK'
  BY <1>1, <1>3, <1>4 DEF EngTypeOK
<1>6. RunRight'
  <2>1. RunRight
    BY DEF EngInv
  <2>2. open.pc = "gone" => open'.pc = "gone"
    BY DEF Tick, Poll, ReadClock, Dispatch
  <2> QED BY <1>1, <2>1, <2>2 DEF RunRight, Gone, Flying
<1> QED BY <1>1, <1>5, <1>6, OthersKeep

LEMMA GoHolds ==
  ASSUME EngInv, NEW r \in Runs, Go(r), r.pc = "collect" => Gone,
         r.pc \in {"drain", "wait", "hung", "collect"} => r.stopping,
         r.pc \in {"wait", "hung", "collect"} /\ ~r.drainErr => \A c \in Clients : ~Flying(caller[c])
  PROVE  EngInv'
<1>1. EngTypeOK /\ run' = r /\ UNCHANGED <<load, clock, caller, calls, open, mon, rec>>
  BY DEF EngInv, Go
<1>2. EngTypeOK'
  BY <1>1 DEF EngTypeOK
<1>3. RunRight'
  BY <1>1 DEF RunRight, Gone, Flying
<1> QED BY <1>1, <1>2, <1>3, OthersKeep

LEMMA RunHolds ==
  ASSUME EngInv, OpenWindow \/ ReadTo \/ CloseWindow \/ Shutdown \/ Drain \/ AwaitCallers
  PROVE  EngInv'
<1>1. run \in Runs /\ clock \in Int /\ RunRight
  BY DEF EngInv, EngTypeOK
<1>2. CASE OpenWindow
  <2>1. [run EXCEPT !.pc = "measure", !.from = clock] \in Runs
    BY <1>1 DEF Runs
  <2> QED BY <1>1, <1>2, <2>1, GoHolds DEF OpenWindow, Runs
<1>3. CASE ReadTo
  <2>1. [run EXCEPT !.pc = "closing", !.t = clock] \in Runs
    BY <1>1 DEF Runs
  <2> QED BY <1>1, <1>3, <2>1, GoHolds DEF ReadTo, Runs
<1>4. CASE CloseWindow
  <2>1. [run EXCEPT !.pc = "shutdown", !.to = run.t] \in Runs
    BY <1>1 DEF Runs
  <2> QED BY <1>1, <1>4, <2>1, GoHolds DEF CloseWindow, Runs
<1>5. CASE Shutdown
  <2> DEFINE r == [run EXCEPT !.pc = "drain", !.stopping = TRUE]
  <2>1. r \in Runs /\ r.pc = "drain" /\ r.stopping /\ Go(r)
    BY <1>1, <1>5 DEF Runs, Shutdown
  <2> HIDE DEF r
  <2> QED BY <2>1, GoHolds
<1>6. CASE Drain
  <2>1. PICK late \in BOOLEAN : Drained(late, InFlight)
    BY <1>6 DEF Drain
  <2> DEFINE r == [run EXCEPT !.pc = "wait", !.stop = TRUE, !.drainErr = late]
  <2>2. /\ r \in Runs /\ r.pc = "wait" /\ r.stopping = run.stopping /\ r.drainErr = late
        /\ Go(r) /\ (late \/ InFlight = {})
    BY <1>1, <2>1 DEF Runs, Drained
  <2>3. run.stopping
    BY <1>1, <1>6 DEF Drain, RunRight
  <2> HIDE DEF r
  <2>4. ~late => \A c \in Clients : ~Flying(caller[c])
    BY <2>2 DEF InFlight, Flying
  <2> QED BY <2>2, <2>3, <2>4, GoHolds
<1>7. CASE AwaitCallers
  <2>1. PICK hung \in BOOLEAN : (hung \/ Gone) /\ Go([run EXCEPT !.pc = IF hung THEN "hung" ELSE "collect"])
    BY <1>7 DEF AwaitCallers
  <2> DEFINE p == IF hung THEN "hung" ELSE "collect"
             r == [run EXCEPT !.pc = p]
  <2>2. p \in {"hung", "collect"} /\ (p = "collect" => Gone) /\ Go(r)
    BY <2>1
  <2> HIDE DEF p
  <2>3. r \in Runs /\ r.pc = p /\ r.stopping = run.stopping /\ r.drainErr = run.drainErr
    BY <1>1, <2>2 DEF Runs
  <2> HIDE DEF r
  <2>4. run.stopping /\ (~run.drainErr => \A c \in Clients : ~Flying(caller[c]))
    BY <1>1, <1>7 DEF AwaitCallers, RunRight
  <2> QED BY <2>2, <2>3, <2>4, GoHolds
<1> QED BY <1>2, <1>3, <1>4, <1>5, <1>6, <1>7

LEMMA EngInitHolds ==
  ASSUME EngInit
  PROVE  EngInv
<1> DEFINE z == [c \in Clients |-> 0]
           w == [x \in ShardsUsed |-> 0]
<1>1. Slot \in Slots /\ Slot.pc = "loop" /\ Slot.key = 0 /\ Slot.done = 0 /\ Slot.next = 1 /\ Slot.ctx = "none"
  BY DEF Slot, Slots, CallerPC, Errs
<1>2. \A c \in Clients : caller[c] = Slot
  BY DEF EngInit
<1>3. /\ load \in Workloads /\ clock \in Int /\ run \in Runs /\ run.pc = "warmup"
      /\ caller \in [Clients -> Slots] /\ calls \in Nat
  BY <1>1, EngineAssumption DEF EngInit, Runs, Never
<1>4. open \in Arrivals
  BY DEF EngInit, Launch, Arrivals
<1>5. mon \in Monitors
  BY DEF EngInit, Monitors
<1>6. rec = [x \in ShardsUsed |-> [all |-> 0, ok |-> 0, errs |-> 0]]
  BY DEF EngInit, ShardsUsed
<1>7. rec \in [ShardsUsed -> Records]
  BY <1>6 DEF Records
<1>8. EngTypeOK
  BY <1>3, <1>4, <1>5, <1>7 DEF EngTypeOK, Monitors
<1>9. load.resources \in Nat /\ load.keys \in Nat /\ load.capacity \in Nat
  BY <1>8, LoadIs
<1>10. SumFunction(z) = 0 /\ SumFunction(w) = 0
  <2>1. IsFiniteSet(Clients) /\ IsFiniteSet(ShardsUsed)
    BY EngineAssumption, ShardsAreFinite
  <2>2. z \in [Clients -> Int] /\ w \in [ShardsUsed -> Int] /\ (\A c \in Clients : z[c] = 0) /\ \A x \in ShardsUsed : w[x] = 0
    OBVIOUS
  <2> HIDE DEF z, w
  <2> QED BY <2>1, <2>2, SumOfZeros
<1>11. /\ \A b : Portion(Slot, b) = 0
       /\ \A k : Grip(Slot, k) = 0
  BY <1>1 DEF Portion, Grip, CountedAt
<1>12. ASSUME NEW b PROVE InUse(b) = 0
  <2>1. [c \in Clients |-> Portion(caller[c], b)] = z
    BY <1>2, <1>11
  <2> QED BY <1>10, <2>1 DEF InUse
<1>13. ASSUME NEW k PROVE Holders(k) = 0
  <2>1. [c \in Clients |-> Grip(caller[c], k)] = z
    BY <1>2, <1>11
  <2> QED BY <1>10, <2>1 DEF Holders
<1>14. ASSUME NEW b \in 1..load.resources PROVE Used(b) = 0
  <2>1. [c \in Clients |-> HeldUnits(caller[c], b)] = z
    BY <1>1, <1>2 DEF HeldUnits
  <2> QED BY <1>10, <2>1 DEF Used
<1>15. Done = 0
  <2>1. [c \in Clients |-> caller[c].done] = z
    BY <1>1, <1>2
  <2> QED BY <1>10, <2>1 DEF Done
<1>16. Total("all") = 0 /\ Total("ok") = 0 /\ Total("errs") = 0
  <2>1. DOMAIN rec = ShardsUsed
    BY <1>6
  <2>2. \A x \in ShardsUsed : rec[x]["all"] = 0 /\ rec[x]["ok"] = 0 /\ rec[x]["errs"] = 0
    BY <1>6
  <2>3. /\ [x \in DOMAIN rec |-> rec[x]["all"]] = w
        /\ [x \in DOMAIN rec |-> rec[x]["ok"]] = w
        /\ [x \in DOMAIN rec |-> rec[x]["errs"]] = w
    BY <2>1, <2>2
  <2> QED BY <1>10, <2>3 DEF Total
<1>17. /\ \A b \in 1..load.resources : mon.inUse[b] = 0
       /\ \A k \in 1..load.keys : mon.holders[k] = 0
  BY DEF EngInit
<1>18. \A c \in Clients : Placed(caller[c]) /\ ~HasKey(caller[c])
  BY <1>1, <1>2, <1>9 DEF Placed, HasKey, Flying, Start
<1>19. Apart(caller) /\ RunRight
  BY <1>3, <1>18 DEF Apart, RunRight
<1> QED BY <1>8, <1>9, <1>12, <1>13, <1>14, <1>15, <1>16, <1>17, <1>18, <1>19 DEF EngInv

LEMMA EngSteps ==
  ASSUME EngInv, [EngNext]_engVars
  PROVE  EngInv'
<1>1. CASE UNCHANGED engVars
  <2>1. /\ UNCHANGED <<load, clock, run, caller, calls, open, mon, rec>> /\ EngTypeOK /\ RunRight
    BY <1>1 DEF engVars, EngInv
  <2>2. EngTypeOK' /\ RunRight'
    BY <2>1 DEF EngTypeOK, RunRight, Gone, Flying
  <2> QED BY <2>1, <2>2, OthersKeep
<1>2. CASE EngNext
  <2>1. ASSUME NEW c \in Clients,
               \/ Leave(c) \/ Call(c) \/ CtxEnds(c) \/ Gate(c) \/ Alive(c) \/ Admit(c)
               \/ Handed(c) \/ Wake(c) \/ GiveUp(c) \/ Attempt(c) \/ MonEnter(c) \/ Serve(c)
               \/ MonExit(c) \/ Ended(c) \/ Refuse(c) \/ GiveBack(c) \/ Exit(c) \/ Returned(c) \/ Record(c)
        PROVE  EngInv'
    BY <2>1, LeaveHolds, CallHolds, CtxEndsHolds, GateHolds, AliveHolds, AdmitHolds, HandedHolds, WakeHolds,
       GiveUpHolds, AttemptHolds, MonEnterHolds, ServeHolds, MonExitHolds, EndedHolds, RefuseHolds,
       GiveBackHolds, ExitHolds, ReturnedHolds, RecordHolds
  <2> QED BY <1>2, <2>1, OthersHold, RunHolds DEF EngNext
<1> QED BY <1>1, <1>2

(* The invariant the engine's property rests on: every counter of the      *)
(* monitor is the sum over the callers of what each has counted in and not *)
(* out again (handler.go:40-58); of every budget the callers hold no more  *)
(* than its capacity, claim by claim, and no two have one key              *)
(* (operation.go:93-127, lab/v02/operation.go:210-253); once the runtime   *)
(* stops nobody passes the gate, so that a drain that did not time out     *)
(* leaves nobody behind it; and the shards and the callers have counted    *)
(* the same calls (engine.go).                                             *)
THEOREM EngInductive == EngSpec => []EngInv
<1>1. EngInit => EngInv
  BY EngInitHolds
<1>2. EngInv /\ [EngNext]_engVars => EngInv'
  BY EngSteps
<1> QED BY <1>1, <1>2, PTL DEF EngSpec

(* When no call is behind the gate, nothing is held and nothing counted.   *)
LEMMA NobodyFlying ==
  ASSUME EngInv, \A c \in Clients : ~Flying(caller[c])
  PROVE  Quiet
<1>1. /\ caller \in [Clients -> Slots] /\ load.resources \in Nat /\ load.keys \in Nat
      /\ DOMAIN mon.inUse = 1..load.resources /\ DOMAIN mon.holders = 1..load.keys
  BY LoadIs DEF EngInv, EngTypeOK
<1> DEFINE z == [c \in Clients |-> 0]
<1>2. SumFunction(z) = 0
  <2>1. z \in [Clients -> Int] /\ (\A c \in Clients : z[c] = 0) /\ IsFiniteSet(Clients)
    BY EngineAssumption
  <2> HIDE DEF z
  <2> QED BY <2>1, SumOfZeros
<1>3. \A c \in Clients : /\ \A b : Portion(caller[c], b) = 0
                         /\ \A k : Grip(caller[c], k) = 0
  BY DEF Portion, Grip, CountedAt, Flying
<1>4. \A c \in Clients : caller[c].next \in Nat /\ caller[c].next <= 1
  BY <1>1 DEF EngInv, Placed, Start, Slots
<1>5. ASSUME NEW b \in 1..load.resources PROVE mon.inUse[b] = 0 /\ Used(b) = 0
  <2>1. [c \in Clients |-> Portion(caller[c], b)] = z
    BY <1>3
  <2>2. \A c \in Clients : HeldUnits(caller[c], b) = 0
    BY <1>1, <1>4 DEF HeldUnits
  <2>3. [c \in Clients |-> HeldUnits(caller[c], b)] = z
    BY <2>2
  <2> QED BY <1>2, <2>1, <2>3 DEF InUse, Used, EngInv
<1>6. ASSUME NEW k \in 1..load.keys PROVE mon.holders[k] = 0
  <2>1. [c \in Clients |-> Grip(caller[c], k)] = z
    BY <1>3
  <2> QED BY <1>2, <2>1 DEF Holders, EngInv
<1>7. InFlight = {}
  BY DEF InFlight, Flying
<1> QED BY <1>1, <1>5, <1>6, <1>7 DEF Quiet

LEMMA Sound ==
  ASSUME EngInv
  PROVE  MeasurementSound
<1>1. /\ EngTypeOK /\ caller \in [Clients -> Slots] /\ mon.viol = 0
      /\ DOMAIN mon.inUse = 1..load.resources /\ DOMAIN mon.holders = 1..load.keys
      /\ load.resources \in Nat /\ load.keys \in Nat /\ \A c \in Clients : Placed(caller[c])
  BY LoadIs DEF EngInv, EngTypeOK
<1>3. IsFiniteSet(Clients)
  BY EngineAssumption
<1>4. ASSUME NEW b \in 1..load.resources PROVE 0 <= mon.inUse[b] /\ mon.inUse[b] <= Used(b)
  <2>1. 0 <= InUse(b) /\ InUse(b) <= Used(b)
    BY <1>1, WithinHeld DEF InUse, Used
  <2> QED BY <2>1 DEF EngInv
<1>5. ASSUME NEW k \in 1..load.keys
      PROVE  mon.holders[k] <= Cardinality({c \in Clients : HasKey(caller[c]) /\ caller[c].key = k})
  <2> DEFINE D == {c \in Clients : HasKey(caller[c]) /\ caller[c].key = k}
  <2>1. Apart(caller) /\ k /= 0
    BY <1>1 DEF EngInv
  <2>2. \/ Holders(k) = 0
        \/ Holders(k) = 1 /\ \E c \in Clients : HasKey(caller[c]) /\ caller[c].key = k
    BY <1>1, <2>1, OneHolder DEF Holders
  <2>3. IsFiniteSet(D) /\ Cardinality(D) \in Nat
    BY <1>3, FS_Subset, FS_CardinalityType
  <2>4. D /= {} => Cardinality(D) >= 1
    BY <2>3, FS_EmptySet
  <2>5. mon.holders[k] = Holders(k)
    BY DEF EngInv
  <2>6. (\E c \in Clients : HasKey(caller[c]) /\ caller[c].key = k) => D /= {}
    OBVIOUS
  <2> HIDE DEF D
  <2>7. Holders(k) <= Cardinality(D)
    BY <2>2, <2>3, <2>4, <2>6
  <2> QED BY <2>5, <2>7 DEF D
<1>6. run.pc \in {"wait", "hung", "collect"} /\ ~run.drainErr => Quiet
  BY NobodyFlying DEF EngInv, RunRight
<1>7. run.pc = "collect" => Gone /\ Quiet
  <2>1. run.pc = "collect" => Gone
    BY DEF EngInv, RunRight
  <2>2. Gone => \A c \in Clients : ~Flying(caller[c])
    BY DEF Gone, Flying
  <2> QED BY <2>1, <2>2, NobodyFlying
<1>8. Total("all") = Total("ok") + Total("errs") /\ Total("all") = Done
  BY DEF EngInv
<1> QED BY <1>1, <1>4, <1>5, <1>6, <1>7, <1>8 DEF MeasurementSound

(* The monitor of a sound runtime counts no violation and no more than is  *)
(* granted (handler.go:28-31), and when the records are read every caller  *)
(* is gone, what it held is back, and each call of the window is counted   *)
(* once, as a success or an error (engine.go:78): for every set of         *)
(* callers, workload, number of shards and bound.                          *)
THEOREM MeasurementRight == EngSpec => []MeasurementSound
<1>1. EngInv => MeasurementSound
  BY Sound
<1> QED BY <1>1, EngInductive, PTL
-----------------------------------------------------------------------------
(***************************************************************************)
(* Generate.  Statements and changes are of no type: a list of them is     *)
(* known by its shape.                                                     *)
(***************************************************************************)
Listed(s) == \E n \in Nat : s = [i \in 1..n |-> s[i]]
Elements(s) == {s[i] : i \in 1..Len(s)}

LEMMA ListedIs ==
  ASSUME NEW s, Listed(s)
  PROVE  Len(s) \in Nat /\ DOMAIN s = 1..Len(s) /\ s \in Seq(Elements(s))
<1>1. PICK n \in Nat : s = [i \in 1..n |-> s[i]]
  BY DEF Listed
<1> DEFINE S == {s[i] : i \in 1..n}
<1>2. s \in [1..n -> S]
  BY <1>1
<1> HIDE DEF S
<1>3. s \in Seq(S) /\ Len(s) = n
  BY <1>2, LenProperties
<1>4. S = Elements(s)
  BY <1>3 DEF S, Elements
<1> QED BY <1>1, <1>3, <1>4

LEMMA ListedOf == ASSUME NEW X, NEW s \in Seq(X) PROVE Listed(s)
<1>1. Len(s) \in Nat /\ s \in [1..Len(s) -> X]
  BY LenProperties
<1> QED BY <1>1 DEF Listed

LEMMA ListedBy == ASSUME NEW n \in Nat, NEW s, s = [i \in 1..n |-> s[i]] PROVE Listed(s) /\ Len(s) = n
<1>1. Listed(s)
  BY DEF Listed
<1>2. 1..Len(s) = 1..n /\ Len(s) \in Nat
  BY <1>1, ListedIs
<1> QED BY <1>1, <1>2

LEMMA ListedConcat == ASSUME NEW a, NEW b, Listed(a), Listed(b) PROVE Listed(a \o b)
<1> DEFINE X == Elements(a) \cup Elements(b)
<1>1. a \in Seq(X) /\ b \in Seq(X)
  <2>1. a \in [1..Len(a) -> Elements(a)] /\ Len(a) \in Nat
    BY ListedIs, LenProperties
  <2>2. b \in [1..Len(b) -> Elements(b)] /\ Len(b) \in Nat
    BY ListedIs, LenProperties
  <2>3. a \in [1..Len(a) -> X]
    BY <2>1
  <2>4. b \in [1..Len(b) -> X]
    BY <2>2
  <2> HIDE DEF X
  <2> QED BY <2>1, <2>2, <2>3, <2>4
<1> HIDE DEF X
<1>2. a \o b \in Seq(X)
  BY <1>1, ConcatProperties
<1> QED BY <1>2, ListedOf

LEMMA ListedParts ==
  ASSUME NEW n \in Nat, NEW s, s = [i \in 1..n |-> s[i]], \A i \in 1..n : Listed(s[i])
  PROVE  \E X : s \in [1..n -> Seq(X)]
<1> DEFINE X == UNION {Elements(s[i]) : i \in 1..n}
<1>1. ASSUME NEW i \in 1..n PROVE s[i] \in Seq(X)
  <2>1. s[i] \in [1..Len(s[i]) -> Elements(s[i])] /\ Len(s[i]) \in Nat
    BY ListedIs, LenProperties
  <2>2. Elements(s[i]) \subseteq X
    OBVIOUS
  <2> HIDE DEF X
  <2>3. s[i] \in [1..Len(s[i]) -> X]
    BY <2>1, <2>2
  <2> QED BY <2>1, <2>3
<1>2. s \in [1..n -> Seq(X)]
  BY <1>1
<1> QED BY <1>2

LEMMA ListedFlat ==
  ASSUME NEW n \in Nat, NEW s, s = [i \in 1..n |-> s[i]], \A i \in 1..n : Listed(s[i])
  PROVE  Listed(FlattenSeq(s))
<1>1. PICK X : s \in [1..n -> Seq(X)]
  BY ListedParts
<1>2. FlattenSeq(s) \in Seq(X)
  BY <1>1, FlattenSeqIs DEF Flattens
<1> QED BY <1>2, ListedOf

(* The changes of a statement list are a list.                             *)
LEMMA ListedOne == ASSUME NEW x PROVE Listed(<<x>>)
<1>1. <<x>> \in Seq({x})
  OBVIOUS
<1> QED BY <1>1, ListedOf

LEMMA ListedNone == Listed(<<>>)
<1>1. <<>> \in Seq({})
  OBVIOUS
<1> QED BY <1>1, ListedOf

LEMMA ByIsListed == ASSUME NEW op, NEW alt, NEW tok PROVE Listed(By(op, alt, tok))
BY ListedOne, ListedNone DEF By, Change

LEMMA VisitIsListed == ASSUME NEW tok PROVE Listed(Visit(tok))
<1>1. Listed(Binary(tok))
  BY ByIsListed, ListedConcat DEF Binary
<1>2. Listed(FlipBools(tok)) /\ Listed(ErrNil(tok))
  BY ByIsListed DEF FlipBools, ErrNil
<1>3. Listed(IntOff(tok))
  BY ByIsListed, ListedConcat DEF IntOff
<1> QED BY <1>1, <1>2, <1>3, ByIsListed, ListedConcat DEF Visit

LEMMA EachIsListed == ASSUME NEW changes, NEW list, Listed(changes) PROVE Listed(Each(changes, list))
<1>1. Len(changes) \in Nat /\ DOMAIN changes = 1..Len(changes)
  BY ListedIs
<1> QED BY <1>1 DEF Each, Listed

LEMMA StmtAtIsListed == ASSUME NEW list, NEW i PROVE Listed(StmtAt(list, i))
<1>1. \A op, from, to, l : Listed(Each(Change(op, from, to), l))
  BY ListedOne, EachIsListed DEF Change
<1> QED BY <1>1, ListedNone, ListedConcat DEF StmtAt

LEMMA TokenAtIsListed == ASSUME NEW list, NEW i PROVE Listed(TokenAt(list, i))
<1>1. Listed(Visit(list[i].tok))
  BY VisitIsListed
<1>2. Len(Visit(list[i].tok)) \in Nat /\ DOMAIN Visit(list[i].tok) = 1..Len(Visit(list[i].tok))
  BY <1>1, ListedIs
<1> QED BY <1>2 DEF TokenAt, Listed

LEMMA InspectIsListed == ASSUME NEW list, Listed(list) PROVE Listed(Inspect(list))
<1> DEFINE n == Len(list)
           s == [i \in DOMAIN list |-> StmtAt(list, i)]
           t == [i \in DOMAIN list |-> TokenAt(list, i)]
<1>1. n \in Nat /\ DOMAIN list = 1..n
  BY ListedIs
<1>2. s = [i \in 1..n |-> s[i]] /\ t = [i \in 1..n |-> t[i]]
  BY <1>1
<1>3. (\A i \in 1..n : Listed(s[i])) /\ (\A i \in 1..n : Listed(t[i]))
  BY <1>1, StmtAtIsListed, TokenAtIsListed
<1>4. Inspect(list) = FlattenSeq(s) \o FlattenSeq(t)
  BY DEF Inspect
<1> HIDE DEF n, s, t
<1>5. Listed(FlattenSeq(s)) /\ Listed(FlattenSeq(t))
  BY <1>1, <1>2, <1>3, ListedFlat
<1> QED BY <1>4, <1>5, ListedConcat

-----------------------------------------------------------------------------
(* What is emitted of the first k candidates: those that are new, and the  *)
(* number of each.                                                         *)
IsMutant(m) == m = [func |-> m.func, change |-> m.change, nth |-> m.nth, result |-> m.result]
Novel(f, cs, k) == {i \in 1..k : cs[i].result /= f /\ \A j \in 1..(i-1) : cs[j].result /= cs[i].result}
Namesakes(f, cs, i) == {j \in Novel(f, cs, i-1) : What(cs[j]) = What(cs[i])}
Numbered(f, cs, i) == [cs[i] EXCEPT !.nth = Cardinality(Namesakes(f, cs, i))]

Pairs(p, S, T) ==
  /\ p \in [S -> T]
  /\ \A a, b \in S : p[a] = p[b] => a = b
  /\ \A t \in T : \E a \in S : p[a] = t

Emits(f, cs, k, out, p) ==
  /\ Listed(out)
  /\ Pairs(p, 1..Len(out), Novel(f, cs, k))
  /\ \A x \in 1..Len(out) : out[x] = Numbered(f, cs, p[x])
  /\ \A i \in 1..k : cs[i].result = f \/ \E x \in 1..Len(out) : out[x].result = cs[i].result

LEMMA PairsCount ==
  ASSUME NEW S, NEW T, NEW p, IsFiniteSet(S), Pairs(p, S, T)
  PROVE  IsFiniteSet(T) /\ Cardinality(T) = Cardinality(S)
<1>1. p \in Bijection(S, T)
  BY DEF Pairs, Bijection, Injection, Surjection, IsInjective
<1>2. ExistsBijection(S, T)
  BY <1>1 DEF ExistsBijection
<1> QED BY <1>2, FS_Bijection

LEMMA NumberedIs ==
  ASSUME NEW f, NEW cs, NEW i, IsMutant(cs[i])
  PROVE  /\ What(Numbered(f, cs, i)) = What(cs[i])
         /\ Numbered(f, cs, i).result = cs[i].result
         /\ Numbered(f, cs, i).nth = Cardinality(Namesakes(f, cs, i))
         /\ Numbered(f, cs, i).func = cs[i].func
<1> DEFINE c == cs[i]  n == Cardinality(Namesakes(f, cs, i))
<1>1. IsMutant(c) /\ Numbered(f, cs, i) = [c EXCEPT !.nth = n]
  BY DEF Numbered
<1> HIDE DEF c, n
<1>2. [c EXCEPT !.nth = n] = [func |-> c.func, change |-> c.change, nth |-> n, result |-> c.result]
  BY <1>1 DEF IsMutant
<1>3. /\ What([c EXCEPT !.nth = n]) = What(c)
      /\ [c EXCEPT !.nth = n].result = c.result
      /\ [c EXCEPT !.nth = n].nth = n
      /\ [c EXCEPT !.nth = n].func = c.func
  BY <1>2 DEF What
<1> QED BY <1>1, <1>3 DEF c, n

(* A candidate that is emitted already changes nothing.                    *)
LEMMA EmitOld ==
  ASSUME NEW f, NEW cs, NEW k \in Nat, NEW out, NEW p, Emits(f, cs, k, out, p),
         \A i \in 1..(k+1) : IsMutant(cs[i]),
         cs[k+1].result = f \/ \E x \in 1..Len(out) : out[x].result = cs[k+1].result
  PROVE  Emits(f, cs, k+1, out, p)
<1>1. k+1 \notin Novel(f, cs, k+1)
  <2>1. CASE cs[k+1].result = f
    BY <2>1 DEF Novel
  <2>2. CASE cs[k+1].result /= f
    <3>1. PICK x \in 1..Len(out) : out[x].result = cs[k+1].result
      BY <2>2
    <3>2. p[x] \in Novel(f, cs, k) /\ out[x] = Numbered(f, cs, p[x])
      BY DEF Emits, Pairs
    <3>3. p[x] \in 1..k /\ p[x] \in 1..(k+1)
      BY <3>2 DEF Novel
    <3>4. cs[p[x]].result = cs[k+1].result
      BY <3>1, <3>2, <3>3, NumberedIs
    <3>5. k+1-1 = k
      OBVIOUS
    <3> QED BY <3>3, <3>4, <3>5 DEF Novel
  <2> QED BY <2>1, <2>2
<1>2. Novel(f, cs, k+1) = Novel(f, cs, k)
  <2>1. 1..(k+1) = (1..k) \cup {k+1}
    OBVIOUS
  <2> QED BY <1>1, <2>1 DEF Novel
<1>3. \A i \in 1..(k+1) : cs[i].result = f \/ \E x \in 1..Len(out) : out[x].result = cs[i].result
  <2>1. \A i \in 1..(k+1) : i \in 1..k \/ i = k+1
    OBVIOUS
  <2> QED BY <2>1 DEF Emits
<1> QED BY <1>2, <1>3 DEF Emits

(* One that is new is numbered by the namesakes before it.                 *)
LEMMA EmitNew ==
  ASSUME NEW f, NEW cs, NEW k \in Nat, NEW out, NEW p, Emits(f, cs, k, out, p),
         \A i \in 1..(k+1) : IsMutant(cs[i]),
         cs[k+1].result /= f, \A x \in 1..Len(out) : out[x].result /= cs[k+1].result
  PROVE  \E q : Emits(f, cs, k+1, Append(out, Numbered(f, cs, k+1)), q)
<1> DEFINE n == Len(out)
           new == Numbered(f, cs, k+1)
           out2 == Append(out, new)
           q == [x \in 1..(n+1) |-> IF x = n+1 THEN k+1 ELSE p[x]]
<1>1. Listed(out) /\ n \in Nat /\ out \in Seq(Elements(out))
  BY ListedIs DEF Emits
<1>2. Listed(out2) /\ Len(out2) = n+1 /\ (\A x \in 1..n : out2[x] = out[x]) /\ out2[n+1] = new
  <2> DEFINE X == Elements(out) \cup {new}
  <2>1. out \in Seq(X)
    <3>1. out \in [1..n -> Elements(out)]
      BY <1>1, LenProperties
    <3>2. out \in [1..n -> X]
      BY <3>1
    <3> HIDE DEF X
    <3> QED BY <1>1, <3>2
  <2>2. new \in X
    OBVIOUS
  <2> HIDE DEF X, new
  <2>3. out2 \in Seq(X) /\ Len(out2) = n+1 /\ (\A x \in 1..n : out2[x] = out[x]) /\ out2[n+1] = new
    BY <2>1, <2>2, AppendProperties
  <2> HIDE DEF out2, n
  <2> QED BY <2>3, ListedOf
<1>3. \A j \in 1..k : cs[j].result /= cs[k+1].result
  BY DEF Emits
<1>4. Novel(f, cs, k+1) = Novel(f, cs, k) \cup {k+1}
  <2>1. 1..(k+1) = (1..k) \cup {k+1} /\ k+1-1 = k
    OBVIOUS
  <2> QED BY <1>3, <2>1 DEF Novel
<1>5. k+1 \notin Novel(f, cs, k)
  BY DEF Novel
<1>6. Pairs(p, 1..n, Novel(f, cs, k))
  BY DEF Emits
<1> HIDE DEF n
<1>7. Pairs(q, 1..(n+1), Novel(f, cs, k+1))
  <2> DEFINE N == Novel(f, cs, k)
  <2>1. Pairs(p, 1..n, N) /\ k+1 \notin N /\ Novel(f, cs, k+1) = N \cup {k+1}
    BY <1>4, <1>5, <1>6
  <2> HIDE DEF N
  <2>2. /\ q \in [1..(n+1) -> N \cup {k+1}]
        /\ \A x \in 1..n : q[x] = p[x] /\ q[x] \in N
        /\ q[n+1] = k+1
    BY <1>1, <2>1 DEF Pairs
  <2> HIDE DEF q
  <2>3. 1..(n+1) = (1..n) \cup {n+1}
    BY <1>1
  <2>4. \A a, b \in 1..(n+1) : q[a] = q[b] => a = b
    BY <2>1, <2>2, <2>3 DEF Pairs
  <2>5. \A t \in N \cup {k+1} : \E a \in 1..(n+1) : q[a] = t
    BY <2>1, <2>2, <2>3 DEF Pairs
  <2> QED BY <2>1, <2>2, <2>4, <2>5 DEF Pairs
<1>8. \A x \in 1..(n+1) : out2[x] = Numbered(f, cs, q[x])
  <2>1. \A x \in 1..n : out[x] = Numbered(f, cs, p[x])
    BY DEF Emits, n
  <2>2. \A x \in 1..(n+1) : x = n+1 \/ (x \in 1..n /\ x /= n+1)
    BY <1>1
  <2> QED BY <1>1, <1>2, <2>1, <2>2
<1>9. \A i \in 1..(k+1) : cs[i].result = f \/ \E x \in 1..(n+1) : out2[x].result = cs[i].result
  <2>1. ASSUME NEW i \in 1..k PROVE cs[i].result = f \/ \E x \in 1..(n+1) : out2[x].result = cs[i].result
    <3>1. cs[i].result = f \/ \E x \in 1..n : out[x].result = cs[i].result
      BY DEF Emits, n
    <3>2. 1..n \subseteq 1..(n+1)
      BY <1>1
    <3> QED BY <1>2, <3>1, <3>2
  <2>2. new.result = cs[k+1].result
    BY NumberedIs
  <2>3. n+1 \in 1..(n+1) /\ \A i \in 1..(k+1) : i \in 1..k \/ i = k+1
    BY <1>1
  <2> QED BY <1>2, <2>1, <2>2, <2>3
<1> HIDE DEF out2, q
<1>10. Emits(f, cs, k+1, out2, q)
  BY <1>2, <1>7, <1>8, <1>9 DEF Emits
<1> QED BY <1>10 DEF out2

(* emit counts the namesakes among those that it emitted before.           *)
LEMMA EmitCounts ==
  ASSUME NEW f, NEW cs, NEW k \in Nat, NEW out, NEW p, Emits(f, cs, k, out, p),
         \A i \in 1..(k+1) : IsMutant(cs[i])
  PROVE  Cardinality({x \in DOMAIN out : What(out[x]) = What(cs[k+1])}) = Cardinality(Namesakes(f, cs, k+1))
<1> DEFINE n == Len(out)
           S == {x \in 1..n : What(out[x]) = What(cs[k+1])}
           T == Namesakes(f, cs, k+1)
           r == [x \in S |-> p[x]]
<1>1. n \in Nat /\ DOMAIN out = 1..n
  BY ListedIs DEF Emits
<1>2. T = {j \in Novel(f, cs, k) : What(cs[j]) = What(cs[k+1])}
  <2>1. k+1-1 = k
    OBVIOUS
  <2> QED BY <2>1 DEF Namesakes
<1>3. Pairs(p, 1..n, Novel(f, cs, k))
  BY DEF Emits
<1>4. \A x \in 1..n : What(out[x]) = What(cs[p[x]])
  <2> SUFFICES ASSUME NEW x \in 1..n PROVE What(out[x]) = What(cs[p[x]])
    OBVIOUS
  <2>1. p[x] \in 1..(k+1)
    BY <1>3 DEF Pairs, Novel
  <2>2. out[x] = Numbered(f, cs, p[x])
    BY DEF Emits
  <2> QED BY <2>1, <2>2, NumberedIs
<1> HIDE DEF n, T
<1>5. IsFiniteSet(S)
  <2>1. IsFiniteSet(1..n) /\ S \subseteq 1..n
    BY <1>1, FS_Interval
  <2> HIDE DEF S
  <2> QED BY <2>1, FS_Subset
<1>6. Pairs(r, S, T)
  BY <1>2, <1>3, <1>4 DEF Pairs
<1>7. Cardinality(S) = Cardinality(T)
  BY <1>5, <1>6, PairsCount
<1> QED BY <1>1, <1>7 DEF n, T

LEMMA EmitStep ==
  ASSUME NEW f, NEW cs, NEW k \in Nat, NEW out, NEW p, Emits(f, cs, k, out, p),
         \A i \in 1..(k+1) : IsMutant(cs[i])
  PROVE  \E q : Emits(f, cs, k+1, Emit(f, out, cs[k+1]), q)
<1>1. DOMAIN out = 1..Len(out)
  BY ListedIs DEF Emits
<1>2. CASE cs[k+1].result = f \/ \E x \in 1..Len(out) : out[x].result = cs[k+1].result
  <2>1. Emit(f, out, cs[k+1]) = out
    BY <1>1, <1>2 DEF Emit
  <2>2. Emits(f, cs, k+1, out, p)
    BY <1>2, EmitOld
  <2> QED BY <2>1, <2>2
<1>3. CASE ~(cs[k+1].result = f \/ \E x \in 1..Len(out) : out[x].result = cs[k+1].result)
  <2>1. Emit(f, out, cs[k+1]) = Append(out, Numbered(f, cs, k+1))
    BY <1>1, <1>3, EmitCounts DEF Emit, Numbered
  <2>2. \E q : Emits(f, cs, k+1, Append(out, Numbered(f, cs, k+1)), q)
    BY <1>3, EmitNew
  <2> QED BY <2>1, <2>2
<1> QED BY <1>2, <1>3

-----------------------------------------------------------------------------
(* Generate is that of all candidates.                                     *)
Emission(f, cs, n, g) == g = [k \in 0..n |-> IF k = 0 THEN <<>> ELSE Emit(f, g[k - 1], cs[k])]

LEMMA EmissionExists ==
  ASSUME NEW f, NEW cs, NEW n \in Nat
  PROVE  \E g : Emission(f, cs, n, g)
<1> DEFINE T == {m \in Nat : \E g : Emission(f, cs, m, g)}
<1>1. 0 \in T
  <2> DEFINE g == [k \in 0..0 |-> <<>>]
  <2>1. g = [k \in 0..0 |-> IF k = 0 THEN <<>> ELSE Emit(f, g[k - 1], cs[k])]
    OBVIOUS
  <2> QED BY <2>1 DEF Emission
<1>2. ASSUME NEW m \in Nat, m \in T PROVE m+1 \in T
  <2>1. PICK g : Emission(f, cs, m, g)
    BY <1>2
  <2> DEFINE last == Emit(f, g[m], cs[m+1])
             h == [k \in 0..(m+1) |-> IF k = m+1 THEN last ELSE g[k]]
  <2>2. \A k \in 0..m : h[k] = g[k]
    OBVIOUS
  <2>3. h[m+1] = last /\ m+1-1 = m /\ m+1 /= 0
    OBVIOUS
  <2>4. \A k \in 0..m : g[k] = IF k = 0 THEN <<>> ELSE Emit(f, g[k - 1], cs[k])
    BY <2>1 DEF Emission
  <2>5. h = [k \in 0..(m+1) |-> h[k]]
    OBVIOUS
  <2>6. last = Emit(f, g[m], cs[m+1])
    OBVIOUS
  <2> HIDE DEF h, last
  <2>7. ASSUME NEW k \in 0..(m+1) PROVE h[k] = IF k = 0 THEN <<>> ELSE Emit(f, h[k - 1], cs[k])
    <3>1. CASE k \in 0..m
      <4>1. k /= 0 => k-1 \in 0..m
        BY <3>1
      <4>2. k /= 0 => h[k-1] = g[k-1]
        BY <2>2, <4>1
      <4> QED BY <2>2, <2>4, <3>1, <4>2
    <3>2. CASE k = m+1
      <4>1. m \in 0..m
        OBVIOUS
      <4>2. h[m] = g[m]
        BY <2>2, <4>1
      <4> QED BY <2>3, <2>6, <3>2, <4>2
    <3> QED BY <3>1, <3>2
  <2>8. Emission(f, cs, m+1, h)
    BY <2>5, <2>7 DEF Emission
  <2> QED BY <2>8
<1> HIDE DEF T
<1>3. n \in T
  BY <1>1, <1>2, NatSetInduction
<1> QED BY <1>3 DEF T

LEMMA GenerateIs ==
  ASSUME NEW f, Listed(Candidates(f)), \A i \in 1..Len(Candidates(f)) : IsMutant(Candidates(f)[i])
  PROVE  \E p : Emits(f, Candidates(f), Len(Candidates(f)), Generate(f), p)
<1> DEFINE cs == Candidates(f)
           n == Len(cs)
           g == CHOOSE h : Emission(f, cs, n, h)
           T == {m \in Nat : m <= n => \E p : Emits(f, cs, m, g[m], p)}
<1>1. Generate(f) = g[n]
  BY DEF Generate, Emission
<1>2. n \in Nat
  BY ListedIs
<1>3. \A i \in 1..n : IsMutant(cs[i])
  OBVIOUS
<1>4. Emission(f, cs, n, g)
  BY <1>2, EmissionExists
<1> HIDE DEF g, n, cs
<1>5. \A k \in 0..n : g[k] = IF k = 0 THEN <<>> ELSE Emit(f, g[k - 1], cs[k])
  BY <1>4 DEF Emission
<1>6. 0 \in T
  <2>1. g[0] = <<>>
    BY <1>2, <1>5
  <2>2. Emits(f, cs, 0, <<>>, [x \in {} |-> 0])
    <3>1. Listed(<<>>) /\ Len(<<>>) = 0 /\ 1..0 = {}
      BY ListedNone
    <3>2. Novel(f, cs, 0) = {}
      BY <3>1 DEF Novel
    <3> QED BY <3>1, <3>2 DEF Emits, Pairs
  <2> QED BY <2>1, <2>2
<1>7. ASSUME NEW m \in Nat, m \in T PROVE m+1 \in T
  <2> SUFFICES ASSUME m+1 <= n PROVE \E p : Emits(f, cs, m+1, g[m+1], p)
    OBVIOUS
  <2>1. PICK p : Emits(f, cs, m, g[m], p)
    BY <1>2, <1>7
  <2>2. m+1 \in 0..n /\ m+1 /= 0 /\ m+1-1 = m /\ 1..(m+1) \subseteq 1..n
    BY <1>2
  <2>3. g[m+1] = Emit(f, g[m], cs[m+1])
    BY <1>5, <2>2
  <2>4. \A i \in 1..(m+1) : IsMutant(cs[i])
    BY <1>3, <2>2
  <2> HIDE DEF T
  <2> QED BY <2>1, <2>3, <2>4, EmitStep
<1> HIDE DEF T
<1>8. n \in T
  BY <1>2, <1>6, <1>7, NatSetInduction
<1> QED BY <1>1, <1>2, <1>8 DEF T, n, cs

(* No two of what is emitted are alike, and no program is missing.         *)
LEMMA EmittedDiffer ==
  ASSUME NEW f, NEW cs, NEW n \in Nat, NEW out, NEW p, Emits(f, cs, n, out, p),
         \A i \in 1..n : IsMutant(cs[i]),
         NEW x \in 1..Len(out), NEW y \in 1..Len(out), p[x] < p[y]
  PROVE  Key(out[x]) /= Key(out[y]) /\ out[x].result /= out[y].result
<1> DEFINE i == p[x]  j == p[y]
<1>1. i \in Novel(f, cs, n) /\ j \in Novel(f, cs, n)
  BY DEF Emits, Pairs
<1>2. out[x] = Numbered(f, cs, i) /\ out[y] = Numbered(f, cs, j) /\ i < j
  BY DEF Emits
<1> HIDE DEF i, j
<1>3. i \in 1..n /\ j \in 1..n /\ i \in 1..(j-1)
  BY <1>1, <1>2 DEF Novel
<1>4. cs[i].result /= cs[j].result
  BY <1>1, <1>3 DEF Novel
<1>5. out[x].result = cs[i].result /\ out[y].result = cs[j].result
  BY <1>2, <1>3, NumberedIs
<1>6. ASSUME What(cs[i]) = What(cs[j]) PROVE Cardinality(Namesakes(f, cs, i)) < Cardinality(Namesakes(f, cs, j))
  <2> DEFINE A == Namesakes(f, cs, i)
             B == Namesakes(f, cs, j)
  <2>1. i \notin A
    BY <1>3 DEF Namesakes, Novel
  <2>2. i \in B
    BY <1>1, <1>3, <1>6 DEF Namesakes, Novel
  <2>3. A \subseteq B
    <3>1. 1..(i-1) \subseteq 1..(j-1)
      BY <1>2, <1>3
    <3> QED BY <1>6, <3>1 DEF Namesakes, Novel
  <2>4. IsFiniteSet(B)
    <3>1. IsFiniteSet(1..(j-1)) /\ B \subseteq 1..(j-1)
      BY <1>3, FS_Interval DEF Namesakes, Novel
    <3> HIDE DEF B
    <3> QED BY <3>1, FS_Subset
  <2> HIDE DEF A, B
  <2>5. IsFiniteSet(A) /\ Cardinality(A) <= Cardinality(B) /\ (Cardinality(B) = Cardinality(A) => B = A)
    BY <2>3, <2>4, FS_Subset
  <2>6. Cardinality(A) \in Nat /\ Cardinality(B) \in Nat
    BY <2>4, <2>5, FS_CardinalityType
  <2>7. Cardinality(A) < Cardinality(B)
    BY <2>1, <2>2, <2>5, <2>6
  <2> QED BY <2>7 DEF A, B
<1>7. IsFiniteSet(Namesakes(f, cs, i)) /\ IsFiniteSet(Namesakes(f, cs, j))
  <2>1. /\ IsFiniteSet(1..(i-1)) /\ Namesakes(f, cs, i) \subseteq 1..(i-1)
        /\ IsFiniteSet(1..(j-1)) /\ Namesakes(f, cs, j) \subseteq 1..(j-1)
    BY <1>3, FS_Interval DEF Namesakes, Novel
  <2> QED BY <2>1, FS_Subset
<1>8. Cardinality(Namesakes(f, cs, i)) \in Nat /\ Cardinality(Namesakes(f, cs, j)) \in Nat
  BY <1>7, FS_CardinalityType
<1>9. Key(out[x]) /= Key(out[y])
  <2>1. /\ Key(out[x]) = <<What(cs[i]), Cardinality(Namesakes(f, cs, i))>>
        /\ Key(out[y]) = <<What(cs[j]), Cardinality(Namesakes(f, cs, j))>>
    BY <1>2, <1>3, NumberedIs DEF Key
  <2> QED BY <1>6, <1>8, <2>1
<1> QED BY <1>4, <1>5, <1>9

LEMMA EmittedAllDiffer ==
  ASSUME NEW f, NEW cs, NEW n \in Nat, NEW out, NEW p, Emits(f, cs, n, out, p),
         \A i \in 1..n : IsMutant(cs[i])
  PROVE  \A x, y \in 1..Len(out) : x /= y => Key(out[x]) /= Key(out[y]) /\ out[x].result /= out[y].result
<1> SUFFICES ASSUME NEW x \in 1..Len(out), NEW y \in 1..Len(out), x /= y
             PROVE  Key(out[x]) /= Key(out[y]) /\ out[x].result /= out[y].result
  OBVIOUS
<1>1. p[x] /= p[y] /\ p[x] \in 1..n /\ p[y] \in 1..n
  BY DEF Emits, Pairs, Novel
<1>2. p[x] < p[y] \/ p[y] < p[x]
  BY <1>1
<1> QED BY <1>2, EmittedDiffer

Complete(f, cs, n, out) ==
  /\ \A x \in 1..Len(out) : out[x].result /= f /\ \E i \in 1..n : out[x].result = cs[i].result
  /\ \A i \in 1..n : cs[i].result /= f => \E x \in 1..Len(out) : out[x].result = cs[i].result

LEMMA EmittedResults ==
  ASSUME NEW f, NEW cs, NEW n \in Nat, NEW out, NEW p, Emits(f, cs, n, out, p),
         \A i \in 1..n : IsMutant(cs[i])
  PROVE  Complete(f, cs, n, out)
<1>1. ASSUME NEW x \in 1..Len(out) PROVE out[x].result /= f /\ \E i \in 1..n : out[x].result = cs[i].result
  <2>1. out[x] = Numbered(f, cs, p[x]) /\ p[x] \in Novel(f, cs, n)
    BY DEF Emits, Pairs
  <2>2. p[x] \in 1..n /\ cs[p[x]].result /= f
    BY <2>1 DEF Novel
  <2>3. out[x].result = cs[p[x]].result
    BY <2>1, <2>2, NumberedIs
  <2> QED BY <2>2, <2>3
<1>2. ASSUME NEW i \in 1..n, cs[i].result /= f PROVE \E x \in 1..Len(out) : out[x].result = cs[i].result
  BY <1>2 DEF Emits
<1> QED BY <1>1, <1>2 DEF Complete

-----------------------------------------------------------------------------
(* The candidates of one function are together among those of the file,    *)
(* from a on.                                                              *)
AFile(f) == f = [g \in Range(Funcs) |-> f[g]] /\ \A g \in Range(Funcs) : Listed(f[g])
Its(f, fn) == Inspect(f[fn])
Window(f, fn, cs, a) ==
  /\ a + Len(Its(f, fn)) <= Len(cs)
  /\ \A j \in 1..Len(Its(f, fn)) : cs[a+j] = Mutant(f, fn, Its(f, fn)[j])
  /\ \A k \in 1..Len(cs) : \/ k \in (a+1)..(a+Len(Its(f, fn)))
                           \/ \E g \in Range(Funcs) : g /= fn /\ \E c : cs[k] = Mutant(f, g, c)

LEMMA InFuncIs ==
  ASSUME NEW f, NEW fn, Listed(f[fn])
  PROVE  /\ Listed(InFunc(f, fn)) /\ Len(InFunc(f, fn)) = Len(Its(f, fn)) /\ Len(Its(f, fn)) \in Nat
         /\ \A j \in 1..Len(Its(f, fn)) : InFunc(f, fn)[j] = Mutant(f, fn, Its(f, fn)[j])
<1> DEFINE cs == Its(f, fn)
           n == Len(cs)
           s == [k \in 1..n |-> Mutant(f, fn, cs[k])]
<1>1. Listed(cs)
  BY InspectIsListed DEF Its
<1>2. n \in Nat /\ DOMAIN cs = 1..n
  BY <1>1, ListedIs
<1>3. InFunc(f, fn) = s
  BY <1>2 DEF InFunc, Its
<1>4. s = [k \in 1..n |-> s[k]]
  OBVIOUS
<1>5. \A j \in 1..n : s[j] = Mutant(f, fn, cs[j])
  OBVIOUS
<1> HIDE DEF s, n
<1>6. Listed(s) /\ Len(s) = n
  BY <1>2, <1>4, ListedBy
<1> QED BY <1>2, <1>3, <1>5, <1>6 DEF n

LEMMA FuncsAre == Len(Funcs) \in Nat /\ DOMAIN Funcs = 1..Len(Funcs) /\ IsInjective(Funcs)
BY FuncsAssumption, LenProperties

LEMMA CandidatesAre ==
  ASSUME NEW f, AFile(f), NEW fn \in Range(Funcs)
  PROVE  /\ Listed(Candidates(f))
         /\ \E a \in Nat : Window(f, fn, Candidates(f), a)
<1> DEFINE n == Len(Funcs)
           s == [i \in 1..n |-> InFunc(f, Funcs[i])]
           cs == Candidates(f)
<1>1. n \in Nat /\ DOMAIN Funcs = 1..n
  BY FuncsAre
<1>2. cs = FlattenSeq(s)
  BY <1>1 DEF Candidates
<1>3. s = [i \in 1..n |-> s[i]] /\ \A i \in 1..n : s[i] = InFunc(f, Funcs[i])
  OBVIOUS
<1> HIDE DEF n, s, cs
<1>4. \A i \in 1..n : Funcs[i] \in Range(Funcs)
  BY <1>1 DEF Range
<1>5. ASSUME NEW i \in 1..n
      PROVE  /\ Listed(s[i]) /\ Len(s[i]) = Len(Its(f, Funcs[i])) /\ Len(s[i]) \in Nat
             /\ \A j \in 1..Len(s[i]) : s[i][j] = Mutant(f, Funcs[i], Its(f, Funcs[i])[j])
  BY <1>3, <1>4, InFuncIs DEF AFile
<1>6. Listed(cs)
  BY <1>1, <1>2, <1>3, <1>5, ListedFlat
<1>7. PICK q \in 1..n : Funcs[q] = fn
  BY <1>1 DEF Range
<1>8. PICK X : s \in [1..n -> Seq(X)]
  BY <1>1, <1>3, <1>5, ListedParts
<1>9. PICK a \in Nat : Piece(FlattenSeq(s), s, n, q, a)
  BY <1>1, <1>8, FlattenPlaces
<1>10. Piece(cs, s, n, q, a)
  BY <1>2, <1>9
<1>11. Len(s[q]) = Len(Its(f, fn)) /\ \A j \in 1..Len(s[q]) : s[q][j] = Mutant(f, fn, Its(f, fn)[j])
  BY <1>5, <1>7
<1>12. ASSUME NEW k \in 1..Len(cs), k \notin (a+1)..(a+Len(s[q]))
       PROVE  \E g \in Range(Funcs) : g /= fn /\ \E c : cs[k] = Mutant(f, g, c)
  <2>1. PICK i \in 1..n : i /= q /\ \E j \in 1..Len(s[i]) : cs[k] = s[i][j]
    BY <1>10, <1>12 DEF Piece, Around
  <2>2. PICK j \in 1..Len(s[i]) : cs[k] = s[i][j]
    BY <2>1
  <2>3. cs[k] = Mutant(f, Funcs[i], Its(f, Funcs[i])[j])
    BY <1>5, <2>2
  <2>4. Funcs[i] /= fn
    BY <1>1, <1>7, <2>1, FuncsAre DEF IsInjective
  <2> QED BY <1>4, <2>3, <2>4
<1>13. Window(f, fn, cs, a)
  BY <1>10, <1>11, <1>12 DEF Window, Piece
<1> QED BY <1>6, <1>13 DEF cs

LEMMA CandidatesAreMutants ==
  ASSUME NEW f, AFile(f)
  PROVE  /\ Len(Candidates(f)) \in Nat /\ Listed(Candidates(f))
         /\ \A k \in 1..Len(Candidates(f)) : IsMutant(Candidates(f)[k])
<1> DEFINE n == Len(Funcs)
           s == [i \in 1..n |-> InFunc(f, Funcs[i])]
           cs == Candidates(f)
<1>1. n \in Nat /\ DOMAIN Funcs = 1..n
  BY FuncsAre
<1>2. cs = FlattenSeq(s)
  BY <1>1 DEF Candidates
<1>3. s = [i \in 1..n |-> s[i]] /\ \A i \in 1..n : s[i] = InFunc(f, Funcs[i])
  OBVIOUS
<1> HIDE DEF n, s, cs
<1>4. \A i \in 1..n : Funcs[i] \in Range(Funcs)
  BY <1>1 DEF Range
<1>5. ASSUME NEW i \in 1..n
      PROVE  /\ Listed(s[i]) /\ Len(s[i]) = Len(Its(f, Funcs[i]))
             /\ \A j \in 1..Len(s[i]) : s[i][j] = Mutant(f, Funcs[i], Its(f, Funcs[i])[j])
  BY <1>3, <1>4, InFuncIs DEF AFile
<1>6. PICK X : s \in [1..n -> Seq(X)]
  BY <1>1, <1>3, <1>5, ListedParts
<1>7. Flattens(X, cs, s, n)
  BY <1>1, <1>2, <1>6, FlattenSeqIs
<1>8. \A g, c : IsMutant(Mutant(f, g, c))
  BY DEF IsMutant, Mutant
<1>9. ASSUME NEW k \in 1..Len(cs) PROVE IsMutant(cs[k])
  <2>1. PICK i \in 1..n : \E j \in 1..Len(s[i]) : cs[k] = s[i][j]
    BY <1>7 DEF Flattens
  <2> QED BY <1>5, <1>8, <2>1
<1>10. Listed(cs) /\ Len(cs) \in Nat
  BY <1>7, ListedOf, ListedIs DEF Flattens
<1> QED BY <1>9, <1>10 DEF cs

(* Which of them are new, and their numbers, as the function alone has it. *)
NewHere(es, list, j) == es[j].list /= list /\ \A i \in 1..(j-1) : es[i].list /= es[j].list
Before(es, list, j) == {i \in 1..(j-1) : NewHere(es, list, i) /\ es[i].change = es[j].change}
KeyHere(fn, es, list, j) == <<<<fn, es[j].change>>, Cardinality(Before(es, list, j))>>
Here(es, list) == {j \in 1..Len(es) : NewHere(es, list, j)}

LEMMA SameResult ==
  ASSUME NEW f, AFile(f), NEW fn \in Range(Funcs), NEW c
  PROVE  /\ Mutant(f, fn, c).result = f <=> c.list = f[fn]
         /\ \A d : Mutant(f, fn, c).result = Mutant(f, fn, d).result <=> c.list = d.list
         /\ \A g \in Range(Funcs) : \A d :
              g /= fn /\ Mutant(f, g, d).result = Mutant(f, fn, c).result => c.list = f[fn]
         /\ Mutant(f, fn, c).result[fn] = c.list
<1> DEFINE S == Range(Funcs)
           With(g, l) == [f EXCEPT ![g] = l]
<1>1. f = [g \in S |-> f[g]] /\ fn \in S
  BY DEF AFile
<1>2. \A g, d : Mutant(f, g, d).result = With(g, d.list)
  BY DEF Mutant
<1> HIDE DEF S
<1>3. \A l : With(fn, l)[fn] = l
  BY <1>1
<1>4. \A g, l : g /= fn => With(g, l)[fn] = f[fn]
  BY <1>1
<1>5. With(fn, f[fn]) = f
  BY <1>1
<1> HIDE DEF With
<1>6. Mutant(f, fn, c).result = f <=> c.list = f[fn]
  BY <1>2, <1>3, <1>5
<1>7. \A d : Mutant(f, fn, c).result = Mutant(f, fn, d).result <=> c.list = d.list
  BY <1>2, <1>3
<1>8. \A g, d : g /= fn /\ Mutant(f, g, d).result = Mutant(f, fn, c).result => c.list = f[fn]
  BY <1>2, <1>3, <1>4
<1>9. Mutant(f, fn, c).result[fn] = c.list
  BY <1>2, <1>3
<1> QED BY <1>6, <1>7, <1>8, <1>9

LEMMA WindowIs ==
  ASSUME NEW f, AFile(f), NEW fn \in Range(Funcs), NEW cs, NEW a \in Nat, Window(f, fn, cs, a),
         NEW k \in 1..Len(cs), k \in (a+1)..(a+Len(Its(f, fn)))
  PROVE  k-a \in 1..Len(Its(f, fn)) /\ a+(k-a) = k /\ cs[k] = Mutant(f, fn, Its(f, fn)[k-a])
<1>1. Len(Its(f, fn)) \in Nat
  BY InFuncIs DEF AFile
<1>2. k-a \in 1..Len(Its(f, fn)) /\ a+(k-a) = k
  BY <1>1
<1> QED BY <1>2 DEF Window

LEMMA NovelHere ==
  ASSUME NEW f, AFile(f), NEW fn \in Range(Funcs), NEW cs, Len(cs) \in Nat, NEW a \in Nat, Window(f, fn, cs, a),
         NEW j \in 1..Len(Its(f, fn)), NEW k \in Nat, a+j <= k, k <= Len(cs)
  PROVE  a+j \in Novel(f, cs, k) <=> NewHere(Its(f, fn), f[fn], j)
<1> DEFINE es == Its(f, fn)
           L == Len(es)
           c == es[j]
<1>1. L \in Nat /\ j \in 1..L
  BY InFuncIs DEF AFile
<1>2. cs[a+j] = Mutant(f, fn, c)
  BY DEF Window
<1>3. cs[a+j].result = f <=> c.list = f[fn]
  BY <1>2, SameResult
<1>4. ASSUME NEW i \in 1..(a+j-1), c.list /= f[fn], \A y \in 1..(j-1) : es[y].list /= c.list
      PROVE  cs[i].result /= cs[a+j].result
  <2>1. i \in 1..Len(cs)
    BY <1>1
  <2>2. CASE i \in (a+1)..(a+L)
    <3>1. cs[i] = Mutant(f, fn, es[i-a]) /\ i-a \in 1..(j-1)
      BY <1>1, <2>1, <2>2, WindowIs
    <3>2. es[i-a].list /= c.list
      BY <1>4, <3>1
    <3> HIDE DEF c, es
    <3> QED BY <1>2, <3>1, <3>2, SameResult
  <2>3. CASE i \notin (a+1)..(a+L)
    <3>1. PICK g \in Range(Funcs) : g /= fn /\ \E d : cs[i] = Mutant(f, g, d)
      BY <2>1, <2>3 DEF Window
    <3>2. PICK d : cs[i] = Mutant(f, g, d)
      BY <3>1
    <3> HIDE DEF c, es
    <3> QED BY <1>2, <1>4, <3>1, <3>2, SameResult
  <2> QED BY <2>2, <2>3
<1>5. ASSUME NEW y \in 1..(j-1), es[y].list = c.list
      PROVE  cs[a+y].result = cs[a+j].result /\ a+y \in 1..(a+j-1)
  <2>1. y \in 1..L /\ a+y \in 1..(a+j-1)
    BY <1>1
  <2>2. cs[a+y] = Mutant(f, fn, es[y])
    BY <2>1 DEF Window
  <2> HIDE DEF c, es
  <2> QED BY <1>2, <1>5, <2>1, <2>2, SameResult
<1>6. a+j \in 1..k
  BY <1>1
<1>7. NewHere(es, f[fn], j) <=> c.list /= f[fn] /\ \A y \in 1..(j-1) : es[y].list /= c.list
  BY DEF NewHere
<1>8. a+j \in Novel(f, cs, k) <=> cs[a+j].result /= f /\ \A i \in 1..(a+j-1) : cs[i].result /= cs[a+j].result
  BY <1>6 DEF Novel
<1> HIDE DEF es, c, L
<1>9. NewHere(es, f[fn], j) => a+j \in Novel(f, cs, k)
  BY <1>3, <1>4, <1>7, <1>8
<1>10. a+j \in Novel(f, cs, k) => NewHere(es, f[fn], j)
  BY <1>3, <1>5, <1>7, <1>8
<1> QED BY <1>9, <1>10 DEF es

LEMMA WhatHere ==
  ASSUME NEW f, AFile(f), NEW fn \in Range(Funcs), NEW cs, NEW a \in Nat, Window(f, fn, cs, a),
         NEW k \in 1..Len(cs)
  PROVE  /\ cs[k].func = fn <=> k \in (a+1)..(a+Len(Its(f, fn)))
         /\ cs[k].func = fn => /\ k-a \in 1..Len(Its(f, fn)) /\ a+(k-a) = k
                               /\ What(cs[k]) = <<fn, Its(f, fn)[k-a].change>>
                               /\ cs[k].result[fn] = Its(f, fn)[k-a].list
<1>1. \A g, c : Mutant(f, g, c).func = g /\ What(Mutant(f, g, c)) = <<g, c.change>>
  BY DEF Mutant, What
<1>2. CASE k \in (a+1)..(a+Len(Its(f, fn)))
  <2>1. k-a \in 1..Len(Its(f, fn)) /\ a+(k-a) = k /\ cs[k] = Mutant(f, fn, Its(f, fn)[k-a])
    BY <1>2, WindowIs
  <2>2. cs[k].result[fn] = Its(f, fn)[k-a].list
    BY <2>1, SameResult
  <2> QED BY <1>1, <1>2, <2>1, <2>2
<1>3. CASE k \notin (a+1)..(a+Len(Its(f, fn)))
  <2>1. PICK g \in Range(Funcs) : g /= fn /\ \E d : cs[k] = Mutant(f, g, d)
    BY <1>3 DEF Window
  <2> QED BY <1>1, <1>3, <2>1
<1> QED BY <1>2, <1>3

LEMMA NumberHere ==
  ASSUME NEW f, AFile(f), NEW fn \in Range(Funcs), NEW cs, Len(cs) \in Nat, NEW a \in Nat, Window(f, fn, cs, a),
         NEW j \in 1..Len(Its(f, fn))
  PROVE  Cardinality(Namesakes(f, cs, a+j)) = Cardinality(Before(Its(f, fn), f[fn], j))
<1> DEFINE es == Its(f, fn)
           S == Before(es, f[fn], j)
           T == Namesakes(f, cs, a+j)
           p == [i \in S |-> a+i]
<1>1. Len(es) \in Nat /\ j \in 1..Len(es)
  BY InFuncIs DEF AFile
<1>2. a + Len(es) <= Len(cs)
  BY DEF Window
<1>3. a+j \in 1..Len(cs) /\ a+j-1 \in Nat /\ a+j-1 <= Len(cs)
  BY <1>1, <1>2
<1>4. What(cs[a+j]) = <<fn, es[j].change>> /\ cs[a+j].func = fn
  <2>1. a+j \in (a+1)..(a+Len(es)) /\ a+j-a = j
    BY <1>1
  <2> QED BY <1>3, <2>1, WhatHere
<1>5. ASSUME NEW i \in 1..(j-1)
      PROVE  /\ a+i \in Novel(f, cs, a+j-1) <=> NewHere(es, f[fn], i)
             /\ What(cs[a+i]) = <<fn, es[i].change>>
  <2>1. i \in 1..Len(es) /\ a+i \in 1..Len(cs) /\ a+i \in (a+1)..(a+Len(es)) /\ a+i-a = i /\ a+i <= a+j-1
    BY <1>1, <1>2
  <2>2. What(cs[a+i]) = <<fn, es[i].change>>
    BY <2>1, WhatHere
  <2>3. a+i \in Novel(f, cs, a+j-1) <=> NewHere(es, f[fn], i)
    BY <1>3, <2>1, NovelHere
  <2> QED BY <2>2, <2>3
<1> HIDE DEF es
<1>6. ASSUME NEW i \in S PROVE a+i \in T
  <2>1. i \in 1..(j-1) /\ NewHere(es, f[fn], i) /\ es[i].change = es[j].change
    BY DEF Before
  <2> QED BY <1>4, <1>5, <2>1 DEF Namesakes
<1>7. ASSUME NEW k \in T PROVE \E i \in S : a+i = k
  <2>1. k \in Novel(f, cs, a+j-1) /\ What(cs[k]) = What(cs[a+j])
    BY DEF Namesakes
  <2>2. k \in 1..(a+j-1) /\ k \in 1..Len(cs)
    BY <1>1, <1>2, <2>1 DEF Novel
  <2>3. cs[k].func = fn
    BY <1>4, <2>1 DEF What
  <2>4. k-a \in 1..Len(es) /\ a+(k-a) = k /\ What(cs[k]) = <<fn, es[k-a].change>>
    BY <2>2, <2>3, WhatHere DEF es
  <2>5. k-a \in 1..(j-1)
    BY <1>1, <2>2, <2>4
  <2>6. NewHere(es, f[fn], k-a) /\ es[k-a].change = es[j].change
    BY <1>4, <1>5, <2>1, <2>4, <2>5
  <2>7. k-a \in S
    BY <2>5, <2>6 DEF Before
  <2> QED BY <2>4, <2>7
<1>8. IsFiniteSet(S)
  <2>1. IsFiniteSet(1..(j-1))
    <3>1. 1 \in Int /\ j-1 \in Int
      BY <1>1
    <3> QED BY <3>1, FS_Interval
  <2>2. S \subseteq 1..(j-1)
    BY DEF Before
  <2> HIDE DEF S
  <2> QED BY <2>1, <2>2, FS_Subset
<1>9. S \subseteq Int
  BY <1>1 DEF Before
<1> HIDE DEF S, T
<1>10. Pairs(p, S, T)
  BY <1>6, <1>7, <1>9 DEF Pairs
<1>11. Cardinality(T) = Cardinality(S)
  BY <1>8, <1>10, PairsCount
<1> QED BY <1>11 DEF S, T, es

(* The Keys and the programs of a function's mutants are those it has      *)
(* whatever the rest of the file is.                                       *)
Shown(m, fn) == <<Key(m), m.result[fn]>>
Own(fn, ms) == {Shown(ms[i], fn) : i \in {i \in DOMAIN ms : ms[i].func = fn}}
OwnHere(fn, es, list) == {<<KeyHere(fn, es, list, j), es[j].list>> : j \in Here(es, list)}

LEMMA ShownHere ==
  ASSUME NEW f, AFile(f), NEW fn \in Range(Funcs), NEW cs, Len(cs) \in Nat, NEW a \in Nat, Window(f, fn, cs, a),
         NEW k \in 1..Len(cs), cs[k].func = fn, IsMutant(cs[k])
  PROVE  /\ k-a \in 1..Len(Its(f, fn)) /\ a+(k-a) = k
         /\ Shown(Numbered(f, cs, k), fn) = <<KeyHere(fn, Its(f, fn), f[fn], k-a), Its(f, fn)[k-a].list>>
<1> DEFINE es == Its(f, fn)
           j == k-a
<1>1. /\ j \in 1..Len(es) /\ a+j = k /\ What(cs[k]) = <<fn, es[j].change>> /\ cs[k].result[fn] = es[j].list
  BY WhatHere
<1>2. Cardinality(Namesakes(f, cs, a+j)) = Cardinality(Before(es, f[fn], j))
  BY <1>1, NumberHere
<1> HIDE DEF es, j
<1>3. /\ What(Numbered(f, cs, k)) = What(cs[k])
      /\ Numbered(f, cs, k).result = cs[k].result
      /\ Numbered(f, cs, k).nth = Cardinality(Namesakes(f, cs, k))
  BY NumberedIs
<1>4. Shown(Numbered(f, cs, k), fn) = <<KeyHere(fn, es, f[fn], j), es[j].list>>
  BY <1>1, <1>2, <1>3 DEF Shown, Key, KeyHere
<1> QED BY <1>1, <1>4 DEF es, j

LEMMA OwnIsHere ==
  ASSUME NEW f, AFile(f), NEW fn \in Range(Funcs)
  PROVE  Own(fn, Generate(f)) = OwnHere(fn, Inspect(f[fn]), f[fn])
<1> DEFINE cs == Candidates(f)
           n == Len(cs)
           out == Generate(f)
           es == Its(f, fn)
<1>1. n \in Nat /\ Listed(cs) /\ \A k \in 1..n : IsMutant(cs[k])
  BY CandidatesAreMutants
<1>2. PICK a \in Nat : Window(f, fn, cs, a)
  BY CandidatesAre
<1>3. PICK p : Emits(f, cs, n, out, p)
  BY <1>1, GenerateIs
<1>4. Len(cs) = n
  OBVIOUS
<1> HIDE DEF cs, n, out
<1>5. DOMAIN out = 1..Len(out)
  BY <1>3, ListedIs DEF Emits
<1>6. ASSUME NEW x \in 1..Len(out)
      PROVE  /\ p[x] \in 1..n /\ p[x] \in Novel(f, cs, n)
             /\ out[x] = Numbered(f, cs, p[x]) /\ out[x].func = cs[p[x]].func
  <2>1. p[x] \in Novel(f, cs, n) /\ out[x] = Numbered(f, cs, p[x])
    BY <1>3 DEF Emits, Pairs
  <2>2. p[x] \in 1..n
    BY <2>1 DEF Novel
  <2> QED BY <1>1, <2>1, <2>2, NumberedIs
<1>7. Len(es) \in Nat /\ a + Len(es) <= n
  BY <1>2, <1>4, InFuncIs DEF AFile, Window
<1>8. ASSUME NEW x \in 1..Len(out), out[x].func = fn
      PROVE  Shown(out[x], fn) \in OwnHere(fn, es, f[fn])
  <2> DEFINE j == p[x]-a
  <2>1. /\ j \in 1..Len(es) /\ a+j = p[x]
        /\ Shown(out[x], fn) = <<KeyHere(fn, es, f[fn], j), es[j].list>>
    <3>1. PICK k \in 1..n : k = p[x]
      BY <1>6
    <3>2. k \in 1..Len(cs) /\ Len(cs) \in Nat
      BY <1>1, <1>4
    <3>3. IsMutant(cs[k]) /\ cs[k].func = fn /\ out[x] = Numbered(f, cs, k)
      BY <1>1, <1>6, <1>8, <3>1
    <3>4. /\ k-a \in 1..Len(es) /\ a+(k-a) = k
          /\ Shown(Numbered(f, cs, k), fn) = <<KeyHere(fn, es, f[fn], k-a), es[k-a].list>>
      BY <1>2, <3>2, <3>3, ShownHere
    <3> QED BY ONLY <3>1, <3>3, <3>4
  <2>2. a+j <= n /\ n <= Len(cs) /\ n \in Nat /\ Len(cs) \in Nat
    BY <1>1, <1>4, <1>6, <2>1
  <2> HIDE DEF j
  <2>3. a+j \in Novel(f, cs, n)
    BY <1>6, <2>1
  <2>4. NewHere(es, f[fn], j)
    BY <1>2, <2>1, <2>2, <2>3, NovelHere
  <2> QED BY <2>1, <2>4 DEF OwnHere, Here
<1>9. ASSUME NEW j \in Here(es, f[fn])
      PROVE  \E x \in 1..Len(out) : out[x].func = fn /\ Shown(out[x], fn) = <<KeyHere(fn, es, f[fn], j), es[j].list>>
  <2>1. j \in 1..Len(es) /\ NewHere(es, f[fn], j)
    BY DEF Here
  <2>2. a+j \in 1..n /\ a+j \in (a+1)..(a+Len(es)) /\ a+j-a = j /\ a+j <= n /\ n <= Len(cs) /\ Len(cs) \in Nat
    BY <1>1, <1>4, <1>7, <2>1
  <2>3. a+j \in Novel(f, cs, n)
    BY <1>1, <1>2, <2>1, <2>2, NovelHere
  <2>4. PICK x \in 1..Len(out) : p[x] = a+j
    BY <1>3, <2>3 DEF Emits, Pairs
  <2>5. cs[a+j].func = fn
    BY <1>2, <1>4, <2>2, WhatHere
  <2>6. Shown(Numbered(f, cs, a+j), fn) = <<KeyHere(fn, es, f[fn], j), es[j].list>>
    <3>1. PICK k \in 1..n : k = a+j
      BY <2>2
    <3>2. k \in 1..Len(cs) /\ cs[k].func = fn /\ IsMutant(cs[k]) /\ k-a = j
      <4>1. k-a = j
        BY <1>7, <2>1, <3>1
      <4>2. k \in 1..Len(cs)
        BY <1>4, Zenon
      <4>3. IsMutant(cs[k]) /\ cs[k].func = fn
        BY <1>1, <2>5, <3>1, Zenon
      <4> QED BY <4>1, <4>2, <4>3
    <3>3. Shown(Numbered(f, cs, k), fn) = <<KeyHere(fn, Its(f, fn), f[fn], k-a), Its(f, fn)[k-a].list>>
      BY <1>1, <1>2, <1>4, <3>2, ShownHere
    <3> QED BY <3>1, <3>2, <3>3
  <2> QED BY <1>6, <2>4, <2>5, <2>6
<1>10. Own(fn, out) = OwnHere(fn, es, f[fn])
  <2>1. Own(fn, out) \subseteq OwnHere(fn, es, f[fn])
    BY <1>5, <1>8 DEF Own
  <2>2. OwnHere(fn, es, f[fn]) \subseteq Own(fn, out)
    BY <1>5, <1>9 DEF Own, OwnHere
  <2> QED BY <2>1, <2>2
<1> QED BY <1>10 DEF out, Its

-----------------------------------------------------------------------------
(* A file is its functions, and each is a list.                            *)
GenTypeOK == file \in [Range(Funcs) -> Seq(Statements)]

LEMMA FileIs == ASSUME GenTypeOK PROVE AFile(file)
<1>1. file = [g \in Range(Funcs) |-> file[g]]
  BY DEF GenTypeOK
<1>2. \A g \in Range(Funcs) : file[g] \in Seq(Statements)
  BY DEF GenTypeOK
<1>3. \A g \in Range(Funcs) : Listed(file[g])
  BY <1>2, ListedOf
<1> QED BY <1>1, <1>3 DEF AFile

LEMMA GenInitHolds == ASSUME GenInit PROVE GenTypeOK
<1>1. <<>> \in Seq(Statements)
  BY EmptySeq
<1> QED BY <1>1 DEF GenInit, GenTypeOK

LEMMA GenNextHolds == ASSUME GenTypeOK, GenNext \/ UNCHANGED file PROVE GenTypeOK'
<1>1. CASE UNCHANGED file
  BY <1>1 DEF GenTypeOK
<1>2. CASE GenNext
  <2>1. PICK fn \in Range(Funcs), s \in Statements : file' = [file EXCEPT ![fn] = Append(@, s)]
    BY <1>2 DEF GenNext, AddStatement
  <2>2. Append(file[fn], s) \in Seq(Statements)
    BY AppendProperties DEF GenTypeOK
  <2> QED BY <2>1, <2>2 DEF GenTypeOK
<1> QED BY <1>1, <1>2

LEMMA KeysOf == ASSUME GenTypeOK PROVE KeysIdentify
<1> DEFINE out == Generate(file)
           cs == Candidates(file)
           n == Len(cs)
           Only(fn) == [g \in Range(Funcs) |-> IF g = fn THEN file[fn] ELSE <<>>]
<1>1. AFile(file)
  BY FileIs
<1>2. n \in Nat /\ Listed(cs) /\ \A k \in 1..n : IsMutant(cs[k])
  BY <1>1, CandidatesAreMutants
<1>3. PICK p : Emits(file, cs, n, out, p)
  BY <1>2, GenerateIs
<1>4. Range(cs) = {cs[i] : i \in 1..n}
  BY <1>2, ListedIs DEF Range
<1>5. ASSUME NEW fn \in Range(Funcs) PROVE Own(fn, out) = Own(fn, Generate(Only(fn)))
  <2> DEFINE f == Only(fn)
  <2>1. f = [g \in Range(Funcs) |-> f[g]] /\ f[fn] = file[fn]
    OBVIOUS
  <2>2. \A g \in Range(Funcs) : f[g] = file[fn] \/ f[g] = <<>>
    OBVIOUS
  <2>3. Listed(file[fn])
    BY <1>1 DEF AFile
  <2> HIDE DEF f
  <2>4. AFile(f)
    BY <2>1, <2>2, <2>3, ListedNone DEF AFile
  <2>5. Own(fn, Generate(f)) = OwnHere(fn, Inspect(f[fn]), f[fn])
    BY <2>4, OwnIsHere
  <2>6. Own(fn, out) = OwnHere(fn, Inspect(file[fn]), file[fn])
    BY <1>1, OwnIsHere
  <2> QED BY <2>1, <2>5, <2>6 DEF f
<1> HIDE DEF out, cs, n
<1>6. DOMAIN out = 1..Len(out)
  BY <1>3, ListedIs DEF Emits
<1>7. \A i, j \in DOMAIN out : i /= j => Key(out[i]) /= Key(out[j]) /\ out[i].result /= out[j].result
  BY <1>2, <1>3, <1>6, EmittedAllDiffer
<1>8. {out[i].result : i \in DOMAIN out} = {c.result : c \in Range(cs)} \ {file}
  <2>1. {out[i].result : i \in DOMAIN out} = {cs[i].result : i \in 1..n} \ {file}
    <3>1. Complete(file, cs, n, out)
      BY <1>2, <1>3, EmittedResults
    <3> QED BY <1>6, <3>1 DEF Complete
  <2>2. {c.result : c \in Range(cs)} = {cs[i].result : i \in 1..n}
    BY <1>4
  <2> QED BY <2>1, <2>2
<1> QED BY <1>5, <1>7, <1>8 DEF KeysIdentify, Own, Shown, out, cs

(* A Key is of one mutant, every program that a candidate makes is judged  *)
(* once, and the Keys of a function do not depend on the others: for any   *)
(* functions, statements and length of the file.                           *)
THEOREM KeysRight == GenSpec => []KeysIdentify
<1>1. GenInit => GenTypeOK
  BY GenInitHolds
<1>2. GenTypeOK /\ [GenNext]_file => GenTypeOK'
  BY GenNextHolds
<1>3. GenTypeOK => KeysIdentify
  BY KeysOf
<1> QED BY <1>1, <1>2, <1>3, PTL DEF GenSpec
=============================================================================
