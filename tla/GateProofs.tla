----------------------------- MODULE GateProofs -----------------------------
(***************************************************************************)
(* Theorems about Gate, for every finite set of callers, every set of      *)
(* Shutdowns and of readers, and every bound.                              *)
(***************************************************************************)
EXTENDS Gate, TLAPS, FiniteSetTheorems

-----------------------------------------------------------------------------
(* Admitted calls that are not yet counted as finished, and those of them  *)
(* that are not yet counted as started.                                    *)
Unfinished == {c \in Callers : pc[c] \in {"admitted", "started"}}
Unstarted == {c \in Callers : pc[c] = "admitted"}

(* The counters agree with where the calls are.                            *)
Counted == /\ admitted = finished + Cardinality(Unfinished)
           /\ started + Cardinality(Unstarted) <= admitted

(* Who closes done has won the swap, which nobody can win again.           *)
Elected == /\ done => drained
           /\ \A p \in Procs : pc[p] = "close" => drained

NilAfterDone == \A s \in Shutdowns : pc[s] = "nil" => done

(* What a snapshot under way has read is not above what it reads later.    *)
Reading == \A r \in Readers :
  /\ at[r] /= "idle" => snap[r].finished <= finished
  /\ at[r] = "started" => snap[r].started <= started

Inv == /\ TypeOK /\ CountExact /\ ClosedOnce /\ DrainedIsQuiet
       /\ Counted /\ Elected /\ NilAfterDone /\ Reading /\ SnapshotOrdered
-----------------------------------------------------------------------------
LEMMA SubsetsFinite ==
  ASSUME NEW S \in SUBSET Callers
  PROVE  IsFiniteSet(S) /\ Cardinality(S) \in Nat
<1>1. IsFiniteSet(S)
  BY FiniteAssumption, FS_Subset
<1> QED BY <1>1, FS_CardinalityType

LEMMA CardinalityAdd ==
  ASSUME NEW S \in SUBSET Callers, NEW c \in Callers, c \notin S
  PROVE  Cardinality(S \cup {c}) = Cardinality(S) + 1
BY SubsetsFinite, FS_AddElement

LEMMA CardinalityRemove ==
  ASSUME NEW S \in SUBSET Callers, NEW c \in S
  PROVE  Cardinality(S \ {c}) = Cardinality(S) - 1
BY SubsetsFinite, FS_RemoveElement

LEMMA CardinalityEmpty ==
  ASSUME NEW S \in SUBSET Callers
  PROVE  Cardinality(S) = 0 <=> S = {}
BY SubsetsFinite, FS_EmptySet

(* The sets that are counted are sets of callers.                          *)
LEMMA CountedSets ==
  /\ InFlight \in SUBSET Callers /\ Live \in SUBSET Callers
  /\ Unfinished \in SUBSET Live /\ Unstarted \in SUBSET Unfinished
  /\ Live \in SUBSET InFlight
BY DEF InFlight, Live, Unfinished, Unstarted

-----------------------------------------------------------------------------
LEMMA InitInv == Init => Inv
<1> SUFFICES ASSUME Init PROVE Inv
  OBVIOUS
<1>1. TypeOK
  <2>1. "idle" \in CallerPC /\ "idle" \in ShutdownPC
    BY DEF CallerPC, ShutdownPC
  <2>2. /\ pc \in [Procs -> CallerPC \cup ShutdownPC]
        /\ \A c \in Callers : pc[c] \in CallerPC
        /\ \A s \in Shutdowns : pc[s] \in ShutdownPC
    BY <2>1 DEF Init, Procs
  <2>3. snap \in [Readers -> [finished : Nat, started : Nat, admitted : Nat]]
    BY DEF Init
  <2>4. rejected \in 0..(Wrap - 1)
    BY BoundsAssumption DEF Init
  <2> QED BY <2>2, <2>3, <2>4 DEF Init, TypeOK
<1>2. InFlight = {} /\ Live = {} /\ Unfinished = {} /\ Unstarted = {}
  BY DEF Init, InFlight, Live, Unfinished, Unstarted, Procs
<1>3. Cardinality({}) = 0
  BY FS_EmptySet
<1>4. CountExact /\ Counted
  BY <1>2, <1>3 DEF Init, CountExact, Counted
<1>5. ClosedOnce /\ DrainedIsQuiet /\ Elected /\ NilAfterDone
  BY <1>2 DEF Init, ClosedOnce, DrainedIsQuiet, Elected, NilAfterDone, Procs
<1>6. Reading /\ SnapshotOrdered
  BY DEF Init, Reading, SnapshotOrdered
<1> QED BY <1>1, <1>4, <1>5, <1>6 DEF Inv
-----------------------------------------------------------------------------
(* What a step that moves one process does to pc.                          *)
LEMMA GotoMoves ==
  ASSUME TypeOK, NEW p \in Procs, NEW l, Goto(p, l),
         p \in Callers => l \in CallerPC,
         p \in Shutdowns => l \in ShutdownPC
  PROVE  /\ pc' \in [Procs -> CallerPC \cup ShutdownPC]
         /\ \A c \in Callers : pc'[c] \in CallerPC
         /\ \A s \in Shutdowns : pc'[s] \in ShutdownPC
         /\ pc'[p] = l
         /\ \A r \in Procs \ {p} : pc'[r] = pc[r]
<1>1. pc \in [Procs -> CallerPC \cup ShutdownPC]
  BY DEF TypeOK
<1>2. l \in CallerPC \cup ShutdownPC
  BY DEF Procs
<1>3. /\ pc' \in [Procs -> CallerPC \cup ShutdownPC]
      /\ pc'[p] = l
      /\ \A r \in Procs \ {p} : pc'[r] = pc[r]
  BY <1>1, <1>2 DEF Goto
<1>4. ASSUME NEW c \in Callers PROVE pc'[c] \in CallerPC
  BY <1>3 DEF TypeOK, Procs
<1>5. ASSUME NEW s \in Shutdowns PROVE pc'[s] \in ShutdownPC
  BY <1>3 DEF TypeOK, Procs
<1> QED BY <1>3, <1>4, <1>5

(* A step that reads nothing for Stats keeps the snapshots in order, as    *)
(* counters only grow.                                                     *)
LEMMA SnapshotsKept ==
  ASSUME Inv, UNCHANGED readVars,
         finished' \in Nat, finished' >= finished,
         started' \in Nat, started' >= started
  PROVE  Reading' /\ SnapshotOrdered'
<1>1. SnapshotOrdered'
  BY DEF Inv, SnapshotOrdered, readVars
<1>2. ASSUME NEW r \in Readers
      PROVE  /\ at'[r] /= "idle" => snap'[r].finished <= finished'
             /\ at'[r] = "started" => snap'[r].started <= started'
  <2>1. snap[r].finished \in Nat /\ snap[r].started \in Nat
    BY DEF Inv, TypeOK
  <2>2. /\ at[r] /= "idle" => snap[r].finished <= finished
        /\ at[r] = "started" => snap[r].started <= started
    BY DEF Inv, Reading
  <2>3. finished \in Nat /\ started \in Nat /\ UNCHANGED <<at, snap>>
    BY DEF Inv, TypeOK, readVars
  <2> QED BY <2>1, <2>2, <2>3
<1> QED BY <1>1, <1>2 DEF Reading

LEMMA EnterInv ==
  ASSUME Inv, NEW c \in Callers, Enter(c)
  PROVE  Inv'
<1> DEFINE l == IF stopping THEN "refused" ELSE "entered"
<1>1. /\ pc[c] = "idle" /\ Goto(c, l) /\ count' = count + 1
      /\ refused' = [refused EXCEPT ![c] = stopping]
      /\ UNCHANGED <<stopping, drained, done, counterVars, shutVars, readVars>>
  BY DEF Enter
<1>2. /\ c \in Procs /\ l \in CallerPC /\ c \notin Shutdowns
      /\ l \notin {"close", "nil", "admitted", "started"}
  BY FiniteAssumption DEF Procs, CallerPC
<1>3. /\ pc' \in [Procs -> CallerPC \cup ShutdownPC]
      /\ \A b \in Callers : pc'[b] \in CallerPC
      /\ \A s \in Shutdowns : pc'[s] \in ShutdownPC
      /\ pc'[c] = l
      /\ \A r \in Procs \ {c} : pc'[r] = pc[r]
  BY <1>1, <1>2, GotoMoves DEF Inv
<1>4. /\ InFlight' = InFlight \cup {c} /\ c \notin InFlight
      /\ Live' = IF stopping THEN Live ELSE Live \cup {c}
      /\ Unfinished' = Unfinished /\ Unstarted' = Unstarted
  BY <1>1, <1>2, <1>3 DEF InFlight, Live, Unfinished, Unstarted, Procs
<1>5. TypeOK'
  BY <1>1, <1>3 DEF Inv, TypeOK, counterVars, shutVars, readVars
<1>6. CountExact'
  BY <1>1, <1>4, CardinalityAdd, CountedSets DEF Inv, CountExact
<1>7. ClosedOnce' /\ Elected' /\ NilAfterDone'
  BY <1>1, <1>2, <1>3 DEF Inv, ClosedOnce, Elected, NilAfterDone, Procs
<1>8. DrainedIsQuiet'
  BY <1>1, <1>4 DEF Inv, DrainedIsQuiet
<1>9. Counted'
  BY <1>1, <1>4 DEF Inv, Counted, counterVars
<1>10. Reading' /\ SnapshotOrdered'
  BY <1>1, SnapshotsKept DEF Inv, TypeOK, counterVars
<1> QED BY <1>5, <1>6, <1>7, <1>8, <1>9, <1>10 DEF Inv

LEMMA CountAdmittedInv ==
  ASSUME Inv, NEW c \in Callers, CountAdmitted(c)
  PROVE  Inv'
<1> DEFINE l == "admitted"
<1>1. /\ pc[c] = "entered" /\ Goto(c, l) /\ admitted' = admitted + 1
      /\ UNCHANGED <<gateVars, done, started, finished, rejected, refused, shutVars, readVars>>
  BY DEF CountAdmitted
<1>2. c \in Procs /\ l \in CallerPC /\ c \notin Shutdowns
  BY FiniteAssumption DEF Procs, CallerPC
<1>3. /\ pc' \in [Procs -> CallerPC \cup ShutdownPC]
      /\ \A b \in Callers : pc'[b] \in CallerPC
      /\ \A t \in Shutdowns : pc'[t] \in ShutdownPC
      /\ pc'[c] = l
      /\ \A r \in Procs \ {c} : pc'[r] = pc[r]
  BY <1>1, <1>2, GotoMoves DEF Inv
<1>4. /\ InFlight' = InFlight /\ Live' = Live
      /\ Unfinished' = Unfinished \cup {c} /\ c \notin Unfinished
      /\ Unstarted' = Unstarted \cup {c} /\ c \notin Unstarted
  BY <1>1, <1>2, <1>3 DEF InFlight, Live, Unfinished, Unstarted, Procs
<1>5. TypeOK'
  BY <1>1, <1>3 DEF Inv, TypeOK, gateVars, shutVars, readVars
<1>6. CountExact' /\ DrainedIsQuiet'
  BY <1>1, <1>4 DEF Inv, CountExact, DrainedIsQuiet, gateVars
<1>7. ClosedOnce' /\ Elected' /\ NilAfterDone'
  BY <1>1, <1>2, <1>3 DEF Inv, ClosedOnce, Elected, NilAfterDone, Procs, gateVars
<1>8. Counted'
  <2>1. /\ Unfinished \in SUBSET Callers /\ Cardinality(Unfinished) \in Nat
        /\ Unstarted \in SUBSET Callers /\ Cardinality(Unstarted) \in Nat
    BY CountedSets, SubsetsFinite
  <2>2. /\ Cardinality(Unfinished') = Cardinality(Unfinished) + 1
        /\ Cardinality(Unstarted') = Cardinality(Unstarted) + 1
    BY <1>4, <2>1, CardinalityAdd
  <2> QED BY <1>1, <2>1, <2>2 DEF Inv, TypeOK, Counted
<1>9. Reading' /\ SnapshotOrdered'
  BY <1>1, SnapshotsKept DEF Inv, TypeOK
<1> QED BY <1>5, <1>6, <1>7, <1>8, <1>9 DEF Inv

LEMMA StartInv ==
  ASSUME Inv, NEW c \in Callers, Start(c)
  PROVE  Inv'
<1> DEFINE l == "started"
<1>1. /\ pc[c] = "admitted" /\ Goto(c, l) /\ started' = started + 1
      /\ UNCHANGED <<gateVars, done, admitted, finished, rejected, refused, shutVars, readVars>>
  BY DEF Start
<1>2. c \in Procs /\ l \in CallerPC /\ c \notin Shutdowns
  BY FiniteAssumption DEF Procs, CallerPC
<1>3. /\ pc' \in [Procs -> CallerPC \cup ShutdownPC]
      /\ \A b \in Callers : pc'[b] \in CallerPC
      /\ \A t \in Shutdowns : pc'[t] \in ShutdownPC
      /\ pc'[c] = l
      /\ \A r \in Procs \ {c} : pc'[r] = pc[r]
  BY <1>1, <1>2, GotoMoves DEF Inv
<1>4. /\ InFlight' = InFlight /\ Live' = Live /\ Unfinished' = Unfinished
      /\ Unstarted' = Unstarted \ {c} /\ c \in Unstarted
  BY <1>1, <1>2, <1>3 DEF InFlight, Live, Unfinished, Unstarted, Procs
<1>5. TypeOK'
  BY <1>1, <1>3 DEF Inv, TypeOK, gateVars, shutVars, readVars
<1>6. CountExact' /\ DrainedIsQuiet'
  BY <1>1, <1>4 DEF Inv, CountExact, DrainedIsQuiet, gateVars
<1>7. ClosedOnce' /\ Elected' /\ NilAfterDone'
  BY <1>1, <1>2, <1>3 DEF Inv, ClosedOnce, Elected, NilAfterDone, Procs, gateVars
<1>8. Counted'
  <2>1. Unstarted \in SUBSET Callers /\ Cardinality(Unstarted) \in Nat
    BY CountedSets, SubsetsFinite
  <2>2. Cardinality(Unstarted') = Cardinality(Unstarted) - 1
    BY <1>4, <2>1, CardinalityRemove
  <2> QED BY <1>1, <1>4, <2>1, <2>2 DEF Inv, TypeOK, Counted
<1>9. Reading' /\ SnapshotOrdered'
  BY <1>1, SnapshotsKept DEF Inv, TypeOK
<1> QED BY <1>5, <1>6, <1>7, <1>8, <1>9 DEF Inv

LEMMA FinishInv ==
  ASSUME Inv, NEW c \in Callers, Finish(c)
  PROVE  Inv'
<1> DEFINE l == "finished"
<1>1. /\ pc[c] \in {"admitted", "started"} /\ Goto(c, l) /\ finished' = finished + 1
      /\ UNCHANGED <<gateVars, done, admitted, started, rejected, refused, shutVars, readVars>>
  BY DEF Finish
<1>2. c \in Procs /\ l \in CallerPC /\ c \notin Shutdowns
  BY FiniteAssumption DEF Procs, CallerPC
<1>3. /\ pc' \in [Procs -> CallerPC \cup ShutdownPC]
      /\ \A b \in Callers : pc'[b] \in CallerPC
      /\ \A t \in Shutdowns : pc'[t] \in ShutdownPC
      /\ pc'[c] = l
      /\ \A r \in Procs \ {c} : pc'[r] = pc[r]
  BY <1>1, <1>2, GotoMoves DEF Inv
<1>4. /\ InFlight' = InFlight /\ Live' = Live
      /\ Unfinished' = Unfinished \ {c} /\ c \in Unfinished
      /\ Unstarted' = Unstarted \ {c}
  BY <1>1, <1>2, <1>3 DEF InFlight, Live, Unfinished, Unstarted, Procs
<1>5. TypeOK'
  BY <1>1, <1>3 DEF Inv, TypeOK, gateVars, shutVars, readVars
<1>6. CountExact' /\ DrainedIsQuiet'
  BY <1>1, <1>4 DEF Inv, CountExact, DrainedIsQuiet, gateVars
<1>7. ClosedOnce' /\ Elected' /\ NilAfterDone'
  BY <1>1, <1>2, <1>3 DEF Inv, ClosedOnce, Elected, NilAfterDone, Procs, gateVars
<1>8. Counted'
  <2>1. /\ Unfinished \in SUBSET Callers /\ Cardinality(Unfinished) \in Nat
        /\ Unstarted \in SUBSET Callers /\ IsFiniteSet(Unstarted)
        /\ Cardinality(Unstarted) \in Nat /\ Cardinality(Unstarted') \in Nat
    BY <1>4, CountedSets, SubsetsFinite
  <2>2. Cardinality(Unfinished') = Cardinality(Unfinished) - 1
    BY <1>4, <2>1, CardinalityRemove
  <2>3. Cardinality(Unstarted') <= Cardinality(Unstarted)
    BY <1>4, <2>1, FS_Subset
  <2>4. admitted \in Nat /\ finished \in Nat /\ started \in Nat
    BY DEF Inv, TypeOK
  <2>5. admitted' = finished' + Cardinality(Unfinished')
    BY <1>1, <2>1, <2>2, <2>4 DEF Inv, Counted
  <2>6. started' + Cardinality(Unstarted') <= admitted'
    <3>1. started + Cardinality(Unstarted) <= admitted
      BY DEF Inv, Counted
    <3> QED BY <1>1, <2>1, <2>3, <2>4, <3>1
  <2> QED BY <2>5, <2>6 DEF Counted
<1>9. Reading' /\ SnapshotOrdered'
  BY <1>1, SnapshotsKept DEF Inv, TypeOK
<1> QED BY <1>5, <1>6, <1>7, <1>8, <1>9 DEF Inv

LEMMA LeaveInv ==
  ASSUME Inv, NEW c \in Callers, Leave(c)
  PROVE  Inv'
<1> DEFINE l == IF stopping /\ ~drained /\ count = 1 THEN "mark" ELSE AfterLeave(c)
<1>1. /\ pc[c] \in {"finished", "refused"} /\ Goto(c, l) /\ count' = count - 1
      /\ UNCHANGED <<stopping, drained, done, counterVars, refused, shutVars, readVars>>
  BY DEF Leave
<1>2. /\ c \in Procs /\ l \in CallerPC /\ c \notin Shutdowns
      /\ l \in {"mark", "reject", "idle"}
  BY FiniteAssumption DEF Procs, CallerPC, AfterLeave
<1> HIDE DEF l
<1>3. /\ pc' \in [Procs -> CallerPC \cup ShutdownPC]
      /\ \A b \in Callers : pc'[b] \in CallerPC
      /\ \A t \in Shutdowns : pc'[t] \in ShutdownPC
      /\ pc'[c] = l
      /\ \A r \in Procs \ {c} : pc'[r] = pc[r]
  BY <1>1, <1>2, GotoMoves DEF Inv
<1>4. /\ InFlight' = InFlight \ {c} /\ c \in InFlight
      /\ Live' = Live \ {c}
      /\ Unfinished' = Unfinished /\ Unstarted' = Unstarted
  BY <1>1, <1>2, <1>3 DEF InFlight, Live, Unfinished, Unstarted, Procs
<1>5. CountExact' /\ count' \in Nat
  <2>1. InFlight \in SUBSET Callers /\ InFlight' \in SUBSET Callers
    BY <1>4, CountedSets
  <2>2. Cardinality(InFlight') = Cardinality(InFlight) - 1
    BY <1>4, <2>1, CardinalityRemove
  <2>3. Cardinality(InFlight') \in Nat
    BY <2>1, SubsetsFinite
  <2> QED BY <1>1, <2>2, <2>3 DEF Inv, CountExact
<1>6. TypeOK'
  BY <1>1, <1>3, <1>5 DEF Inv, TypeOK, counterVars, shutVars, readVars
<1>7. ClosedOnce' /\ Elected' /\ NilAfterDone'
  BY <1>1, <1>2, <1>3 DEF Inv, ClosedOnce, Elected, NilAfterDone, Procs
<1>8. DrainedIsQuiet' /\ Counted'
  BY <1>1, <1>4 DEF Inv, DrainedIsQuiet, Counted, counterVars
<1>9. Reading' /\ SnapshotOrdered'
  BY <1>1, SnapshotsKept DEF Inv, TypeOK, counterVars
<1> QED BY <1>5, <1>6, <1>7, <1>8, <1>9 DEF Inv

LEMMA CountRejectedInv ==
  ASSUME Inv, NEW c \in Callers, CountRejected(c)
  PROVE  Inv'
<1> DEFINE l == "idle"
<1>1. /\ pc[c] = "reject" /\ Goto(c, l) /\ rejected' = (rejected + 1) % Wrap
      /\ UNCHANGED <<gateVars, done, admitted, started, finished, refused, shutVars, readVars>>
  BY DEF CountRejected
<1>2. c \in Procs /\ l \in CallerPC /\ c \notin Shutdowns
  BY FiniteAssumption DEF Procs, CallerPC
<1>3. /\ pc' \in [Procs -> CallerPC \cup ShutdownPC]
      /\ \A b \in Callers : pc'[b] \in CallerPC
      /\ \A t \in Shutdowns : pc'[t] \in ShutdownPC
      /\ pc'[c] = l
      /\ \A r \in Procs \ {c} : pc'[r] = pc[r]
  BY <1>1, <1>2, GotoMoves DEF Inv
<1>4. /\ InFlight' = InFlight /\ Live' = Live
      /\ Unfinished' = Unfinished /\ Unstarted' = Unstarted
  BY <1>1, <1>2, <1>3 DEF InFlight, Live, Unfinished, Unstarted, Procs
<1>5. rejected' \in 0..(Wrap - 1)
  BY <1>1, BoundsAssumption DEF Inv, TypeOK
<1>6. TypeOK'
  BY <1>1, <1>3, <1>5 DEF Inv, TypeOK, gateVars, shutVars, readVars
<1>7. ClosedOnce' /\ Elected' /\ NilAfterDone'
  BY <1>1, <1>2, <1>3 DEF Inv, ClosedOnce, Elected, NilAfterDone, Procs, gateVars
<1>8. CountExact' /\ DrainedIsQuiet' /\ Counted'
  BY <1>1, <1>4 DEF Inv, CountExact, DrainedIsQuiet, Counted, gateVars
<1>9. Reading' /\ SnapshotOrdered'
  BY <1>1, SnapshotsKept DEF Inv, TypeOK
<1> QED BY <1>6, <1>7, <1>8, <1>9 DEF Inv
-----------------------------------------------------------------------------
LEMMA MarkInv ==
  ASSUME Inv, NEW p \in Procs, Mark(p)
  PROVE  Inv'
<1> DEFINE wins == stopping /\ ~drained /\ count = 0
           l == IF wins THEN "close" ELSE AfterMark(p)
<1>1. /\ pc[p] = "mark" /\ Goto(p, l) /\ drained' = (drained \/ wins)
      /\ UNCHANGED <<stopping, count, done, counterVars, refused, shutVars, readVars>>
  <2>1. drained \in BOOLEAN
    BY DEF Inv, TypeOK
  <2> QED BY <2>1 DEF Mark
<1>2. /\ p \in Callers => l \in CallerPC
      /\ p \in Shutdowns => l \in ShutdownPC
      /\ l \in {"close", "check", "reject", "idle"}
      /\ l = "close" => wins
  BY FiniteAssumption DEF Procs, CallerPC, ShutdownPC, AfterMark, AfterLeave
<1> HIDE DEF l
<1>3. /\ pc' \in [Procs -> CallerPC \cup ShutdownPC]
      /\ \A b \in Callers : pc'[b] \in CallerPC
      /\ \A t \in Shutdowns : pc'[t] \in ShutdownPC
      /\ pc'[p] = l
      /\ \A r \in Procs \ {p} : pc'[r] = pc[r]
  BY <1>1, <1>2, GotoMoves DEF Inv
<1>4. /\ InFlight' = InFlight /\ Live' = Live
      /\ Unfinished' = Unfinished /\ Unstarted' = Unstarted
  BY <1>1, <1>2, <1>3 DEF InFlight, Live, Unfinished, Unstarted, Procs
<1>5. TypeOK'
  BY <1>1, <1>3 DEF Inv, TypeOK, counterVars, shutVars, readVars
<1>6. ASSUME wins PROVE Live = {}
  <2>1. InFlight \in SUBSET Callers /\ Cardinality(InFlight) = 0
    BY <1>6, CountedSets DEF Inv, CountExact
  <2> QED BY <2>1, CardinalityEmpty, CountedSets
<1>7. DrainedIsQuiet'
  BY <1>1, <1>4, <1>6 DEF Inv, DrainedIsQuiet
<1>8. Elected'
  BY <1>1, <1>2, <1>3 DEF Inv, Elected
<1>9. ClosedOnce'
  <2>1. ASSUME wins PROVE ~done /\ \A r \in Procs : pc[r] /= "close"
    BY <2>1 DEF Inv, Elected
  <2> QED BY <1>1, <1>2, <1>3, <2>1 DEF Inv, ClosedOnce
<1>10. NilAfterDone'
  BY <1>1, <1>2, <1>3 DEF Inv, NilAfterDone, Procs
<1>11. CountExact' /\ Counted'
  BY <1>1, <1>4 DEF Inv, CountExact, Counted, counterVars
<1>12. Reading' /\ SnapshotOrdered'
  BY <1>1, SnapshotsKept DEF Inv, TypeOK, counterVars
<1> QED BY <1>5, <1>7, <1>8, <1>9, <1>10, <1>11, <1>12 DEF Inv

LEMMA CloseDoneInv ==
  ASSUME Inv, NEW p \in Procs, CloseDone(p)
  PROVE  Inv'
<1> DEFINE l == AfterMark(p)
<1>1. /\ pc[p] = "close" /\ Goto(p, l) /\ done' = TRUE
      /\ UNCHANGED <<gateVars, counterVars, refused, shutVars, readVars>>
  BY DEF CloseDone
<1>2. /\ p \in Callers => l \in CallerPC
      /\ p \in Shutdowns => l \in ShutdownPC
      /\ l \in {"check", "reject", "idle"}
  BY FiniteAssumption DEF Procs, CallerPC, ShutdownPC, AfterMark, AfterLeave
<1> HIDE DEF l
<1>3. /\ pc' \in [Procs -> CallerPC \cup ShutdownPC]
      /\ \A b \in Callers : pc'[b] \in CallerPC
      /\ \A t \in Shutdowns : pc'[t] \in ShutdownPC
      /\ pc'[p] = l
      /\ \A r \in Procs \ {p} : pc'[r] = pc[r]
  BY <1>1, <1>2, GotoMoves DEF Inv
<1>4. /\ InFlight' = InFlight /\ Live' = Live
      /\ Unfinished' = Unfinished /\ Unstarted' = Unstarted
  BY <1>1, <1>2, <1>3 DEF InFlight, Live, Unfinished, Unstarted, Procs
<1>5. TypeOK'
  BY <1>1, <1>3 DEF Inv, TypeOK, gateVars, counterVars, shutVars, readVars
<1>6. drained
  BY <1>1 DEF Inv, Elected
<1>7. DrainedIsQuiet' /\ Elected'
  BY <1>1, <1>2, <1>3, <1>4, <1>6 DEF Inv, DrainedIsQuiet, Elected, gateVars
<1>8. ClosedOnce'
  BY <1>1, <1>2, <1>3 DEF Inv, ClosedOnce
<1>9. NilAfterDone'
  BY <1>1 DEF NilAfterDone
<1>10. CountExact' /\ Counted'
  BY <1>1, <1>4 DEF Inv, CountExact, Counted, gateVars, counterVars
<1>11. Reading' /\ SnapshotOrdered'
  BY <1>1, SnapshotsKept DEF Inv, TypeOK, counterVars
<1> QED BY <1>5, <1>7, <1>8, <1>9, <1>10, <1>11 DEF Inv

(* A step of Shutdown itself: it may set the stopping bit and its own      *)
(* context, and returns nil only after done.                               *)
LEMMA ShutdownStep ==
  ASSUME Inv, NEW s \in Shutdowns,
         NEW l \in {"withdraw", "mark", "check", "select", "nil", "expired"},
         Goto(s, l), l = "nil" => done,
         stopping' = stopping \/ stopping' = TRUE,
         expired' \in [Shutdowns -> BOOLEAN], idleAtStop' \in [Shutdowns -> BOOLEAN],
         UNCHANGED <<drained, count, done, counterVars, refused, readVars>>
  PROVE  Inv'
<1>1. Goto(s, l) /\ UNCHANGED <<drained, count, done, counterVars, refused, readVars>>
  OBVIOUS
<1>2. s \in Procs /\ s \notin Callers /\ l \in ShutdownPC /\ l /= "close"
  BY FiniteAssumption DEF Procs, ShutdownPC
<1>3. /\ pc' \in [Procs -> CallerPC \cup ShutdownPC]
      /\ \A b \in Callers : pc'[b] \in CallerPC
      /\ \A t \in Shutdowns : pc'[t] \in ShutdownPC
      /\ pc'[s] = l
      /\ \A r \in Procs \ {s} : pc'[r] = pc[r]
  BY <1>1, <1>2, GotoMoves DEF Inv
<1>4. /\ InFlight' = InFlight /\ Live' = Live
      /\ Unfinished' = Unfinished /\ Unstarted' = Unstarted
  BY <1>1, <1>2, <1>3 DEF InFlight, Live, Unfinished, Unstarted, Procs
<1>5. TypeOK'
  BY <1>1, <1>3 DEF Inv, TypeOK, counterVars, readVars
<1>6. DrainedIsQuiet'
  BY <1>1, <1>4 DEF Inv, DrainedIsQuiet
<1>7. Elected' /\ ClosedOnce'
  BY <1>1, <1>2, <1>3 DEF Inv, Elected, ClosedOnce
<1>8. NilAfterDone'
  BY <1>1, <1>3 DEF Inv, NilAfterDone, Procs
<1>9. CountExact' /\ Counted'
  BY <1>1, <1>4 DEF Inv, CountExact, Counted, counterVars
<1>10. Reading' /\ SnapshotOrdered'
  BY <1>1, SnapshotsKept DEF Inv, TypeOK, counterVars
<1> QED BY <1>5, <1>6, <1>7, <1>8, <1>9, <1>10 DEF Inv

LEMMA ShutdownInv ==
  ASSUME Inv, NEW s \in Shutdowns, Shutdown(s)
  PROVE  Inv'
<1>1. expired \in [Shutdowns -> BOOLEAN] /\ idleAtStop \in [Shutdowns -> BOOLEAN]
  BY DEF Inv, TypeOK
<1>2. CASE Stop(s)
  <2>1. /\ expired' \in [Shutdowns -> BOOLEAN] /\ idleAtStop' \in [Shutdowns -> BOOLEAN]
        /\ stopping' = TRUE
        /\ UNCHANGED <<drained, count, done, counterVars, refused, readVars>>
        /\ Goto(s, IF stopping THEN "check" ELSE "withdraw")
    BY <1>1, <1>2 DEF Stop
  <2> QED BY <2>1, ShutdownStep
<1>3. CASE Withdraw(s)
  BY <1>1, <1>3, ShutdownStep DEF Withdraw, gateVars, shutVars
<1>4. CASE ContextEnds(s)
  <2>1. /\ expired' \in [Shutdowns -> BOOLEAN]
        /\ UNCHANGED <<gateVars, done, counterVars, pc, refused, idleAtStop, readVars>>
    BY <1>1, <1>4 DEF ContextEnds
  <2>2. InFlight' = InFlight /\ Live' = Live /\ Unfinished' = Unfinished /\ Unstarted' = Unstarted
    BY <2>1 DEF InFlight, Live, Unfinished, Unstarted
  <2>3. TypeOK'
    BY <2>1 DEF Inv, TypeOK, gateVars, counterVars, readVars
  <2>4. CountExact' /\ Counted' /\ DrainedIsQuiet'
    BY <2>1, <2>2 DEF Inv, CountExact, Counted, DrainedIsQuiet, gateVars, counterVars
  <2>5. ClosedOnce' /\ Elected' /\ NilAfterDone'
    BY <2>1 DEF Inv, ClosedOnce, Elected, NilAfterDone, gateVars
  <2>6. Reading' /\ SnapshotOrdered'
    BY <2>1, SnapshotsKept DEF Inv, TypeOK, counterVars
  <2> QED BY <2>3, <2>4, <2>5, <2>6 DEF Inv
<1>5. CASE Check(s)
  BY <1>1, <1>5, ShutdownStep DEF Check, gateVars, shutVars
<1>6. CASE Select(s)
  <2>1. UNCHANGED <<gateVars, done, counterVars, refused, shutVars, readVars>>
    BY <1>6 DEF Select
  <2>2. CASE done /\ Goto(s, "nil")
    BY <1>1, <2>1, <2>2, ShutdownStep DEF gateVars, shutVars
  <2>3. CASE Goto(s, "expired")
    BY <1>1, <2>1, <2>3, ShutdownStep DEF gateVars, shutVars
  <2> QED BY <1>6, <2>2, <2>3 DEF Select
<1> QED BY <1>2, <1>3, <1>4, <1>5, <1>6 DEF Shutdown
-----------------------------------------------------------------------------
(* Stats changes nothing but what it has read.                             *)
LEMMA StatsFrame ==
  ASSUME Inv, UNCHANGED <<gateVars, done, counterVars, pc, refused, shutVars>>,
         at' \in [Readers -> {"idle", "finished", "started"}],
         snap' \in [Readers -> [finished : Nat, started : Nat, admitted : Nat]],
         Reading', SnapshotOrdered'
  PROVE  Inv'
<1>1. InFlight' = InFlight /\ Live' = Live /\ Unfinished' = Unfinished /\ Unstarted' = Unstarted
  BY DEF InFlight, Live, Unfinished, Unstarted
<1>2. TypeOK'
  BY DEF Inv, TypeOK, gateVars, counterVars, shutVars
<1>3. CountExact' /\ Counted' /\ DrainedIsQuiet'
  BY <1>1 DEF Inv, CountExact, Counted, DrainedIsQuiet, gateVars, counterVars
<1>4. ClosedOnce' /\ Elected' /\ NilAfterDone'
  BY DEF Inv, ClosedOnce, Elected, NilAfterDone, gateVars
<1> QED BY <1>2, <1>3, <1>4 DEF Inv

LEMMA StatsInv ==
  ASSUME Inv, NEW r \in Readers, Stats(r)
  PROVE  Inv'
<1>1. /\ at \in [Readers -> {"idle", "finished", "started"}]
      /\ snap \in [Readers -> [finished : Nat, started : Nat, admitted : Nat]]
      /\ admitted \in Nat /\ started \in Nat /\ finished \in Nat
  BY DEF Inv, TypeOK
<1>2. finished <= admitted /\ started <= admitted
  <2>1. Unfinished \in SUBSET Callers /\ Unstarted \in SUBSET Callers
    BY CountedSets
  <2>2. Cardinality(Unfinished) \in Nat /\ Cardinality(Unstarted) \in Nat
    BY <2>1, SubsetsFinite
  <2> QED BY <1>1, <2>2 DEF Inv, Counted
<1>3. Reading /\ SnapshotOrdered
  BY DEF Inv
<1>4. CASE ReadFinished(r)
  <2>1. /\ at' = [at EXCEPT ![r] = "finished"]
        /\ snap' = [snap EXCEPT ![r] = [finished |-> finished, started |-> 0, admitted |-> 0]]
        /\ UNCHANGED <<gateVars, done, counterVars, pc, refused, shutVars>>
    BY <1>4 DEF ReadFinished
  <2>2. /\ at' \in [Readers -> {"idle", "finished", "started"}]
        /\ snap' \in [Readers -> [finished : Nat, started : Nat, admitted : Nat]]
    BY <1>1, <2>1
  <2>3. Reading' /\ SnapshotOrdered'
    BY <1>1, <1>3, <2>1 DEF Reading, SnapshotOrdered, counterVars
  <2> QED BY <2>1, <2>2, <2>3, StatsFrame
<1>5. CASE ReadStarted(r)
  <2>1. /\ at[r] = "finished"
        /\ at' = [at EXCEPT ![r] = "started"]
        /\ snap' = [snap EXCEPT ![r].started = started]
        /\ UNCHANGED <<gateVars, done, counterVars, pc, refused, shutVars>>
    BY <1>5 DEF ReadStarted
  <2>2. /\ at' \in [Readers -> {"idle", "finished", "started"}]
        /\ snap' \in [Readers -> [finished : Nat, started : Nat, admitted : Nat]]
    BY <1>1, <2>1
  <2>3. Reading' /\ SnapshotOrdered'
    BY <1>1, <1>3, <2>1 DEF Reading, SnapshotOrdered, counterVars
  <2> QED BY <2>1, <2>2, <2>3, StatsFrame
<1>6. CASE ReadAdmitted(r)
  <2>1. /\ at[r] = "started"
        /\ at' = [at EXCEPT ![r] = "idle"]
        /\ snap' = [snap EXCEPT ![r].admitted = admitted]
        /\ UNCHANGED <<gateVars, done, counterVars, pc, refused, shutVars>>
    BY <1>6 DEF ReadAdmitted
  <2>2. /\ at' \in [Readers -> {"idle", "finished", "started"}]
        /\ snap' \in [Readers -> [finished : Nat, started : Nat, admitted : Nat]]
    BY <1>1, <2>1
  <2>3. snap[r].finished <= admitted /\ snap[r].started <= admitted
    BY <1>1, <1>2, <1>3, <2>1 DEF Reading
  <2>4. Reading' /\ SnapshotOrdered'
    BY <1>1, <1>3, <2>1, <2>3 DEF Reading, SnapshotOrdered, counterVars
  <2> QED BY <2>1, <2>2, <2>4, StatsFrame
<1> QED BY <1>4, <1>5, <1>6 DEF Stats

LEMMA NextInv == Inv /\ [Next]_vars => Inv'
<1> SUFFICES ASSUME Inv, [Next]_vars PROVE Inv'
  OBVIOUS
<1>1. ASSUME NEW c \in Callers, Do(c) PROVE Inv'
  BY <1>1, EnterInv, CountAdmittedInv, StartInv, FinishInv, LeaveInv, CountRejectedInv DEF Do
<1>2. ASSUME NEW p \in Procs, MarkDrained(p) PROVE Inv'
  BY <1>2, MarkInv, CloseDoneInv DEF MarkDrained
<1>3. ASSUME NEW s \in Shutdowns, Shutdown(s) PROVE Inv'
  BY <1>3, ShutdownInv
<1>4. ASSUME NEW r \in Readers, Stats(r) PROVE Inv'
  BY <1>4, StatsInv
<1>5. CASE UNCHANGED vars
  <2>1. InFlight' = InFlight /\ Live' = Live /\ Unfinished' = Unfinished /\ Unstarted' = Unstarted
    BY <1>5 DEF vars, InFlight, Live, Unfinished, Unstarted
  <2>2. TypeOK'
    BY <1>5 DEF Inv, TypeOK, vars, gateVars, counterVars, shutVars, readVars
  <2>3. CountExact' /\ Counted' /\ DrainedIsQuiet'
    BY <1>5, <2>1 DEF Inv, CountExact, Counted, DrainedIsQuiet, vars, gateVars, counterVars
  <2>4. ClosedOnce' /\ Elected' /\ NilAfterDone'
    BY <1>5 DEF Inv, ClosedOnce, Elected, NilAfterDone, vars, gateVars
  <2>5. Reading' /\ SnapshotOrdered'
    BY <1>5 DEF Inv, Reading, SnapshotOrdered, vars, counterVars, readVars
  <2> QED BY <2>2, <2>3, <2>4, <2>5 DEF Inv
<1> QED BY <1>1, <1>2, <1>3, <1>4, <1>5 DEF Next

(* A nil Shutdown comes after done, done after the drain, and a drained    *)
(* gate has nobody admitted in flight, so nobody unfinished.               *)
LEMMA InvSeesAllFinished == Inv => NilSeesAllFinished
<1> SUFFICES ASSUME Inv, NEW s \in Shutdowns, pc[s] = "nil"
             PROVE  Live = {} /\ finished = admitted
  BY DEF NilSeesAllFinished
<1>1. Live = {}
  BY DEF Inv, NilAfterDone, DrainedIsQuiet
<1>2. Unfinished = {}
  BY <1>1, CountedSets
<1>3. finished \in Nat /\ Cardinality({}) = 0
  BY FS_EmptySet DEF Inv, TypeOK
<1> QED BY <1>1, <1>2, <1>3 DEF Inv, Counted

LEMMA Invariance == Spec => []Inv
BY InitInv, NextInv, PTL DEF Spec
-----------------------------------------------------------------------------
(* Type correctness of the gate, for every number of callers, Shutdowns    *)
(* and readers.                                                            *)
THEOREM TypeCorrect == Spec => []TypeOK
<1>1. Inv => TypeOK
  BY DEF Inv
<1> QED BY <1>1, Invariance, PTL

(* The count in the gate word is exactly the number of calls in flight,    *)
(* refused ones included, so runtime.go's leave never takes it below zero. *)
THEOREM CountIsExact == Spec => []CountExact
<1>1. Inv => CountExact
  BY DEF Inv
<1> QED BY <1>1, Invariance, PTL

(* markDrained closes done at most once, whoever races for it.             *)
THEOREM DoneIsClosedOnce == Spec => []ClosedOnce
<1>1. Inv => ClosedOnce
  BY DEF Inv
<1> QED BY <1>1, Invariance, PTL

(* A drained runtime is stopping and has no admitted call in flight.       *)
THEOREM DrainedStaysQuiet == Spec => []DrainedIsQuiet
<1>1. Inv => DrainedIsQuiet
  BY DEF Inv
<1> QED BY <1>1, Invariance, PTL

(* Whoever got nil from Shutdown sees every admitted call finished.        *)
THEOREM NilSawAllFinished == Spec => []NilSeesAllFinished
BY InvSeesAllFinished, Invariance, PTL

(* Stats never shows Started or Finished above Admitted.                   *)
THEOREM SnapshotsAreOrdered == Spec => []SnapshotOrdered
<1>1. Inv => SnapshotOrdered
  BY DEF Inv
<1> QED BY <1>1, Invariance, PTL
-----------------------------------------------------------------------------
(* Gate implements Lifecycle.  A Shutdown may return the error of its      *)
(* context only if the runtime is stopping by then, and it is: it set the  *)
(* bit itself, or found it set.                                            *)
StoppedFirst == \A s \in Shutdowns : pc[s] /= "idle" => stopping

LEMMA StoppedFirstAlways == Spec => []StoppedFirst
<1>1. Init => StoppedFirst
  BY DEF Init, StoppedFirst, Procs
<1>2. Inv /\ StoppedFirst /\ [Next]_vars => StoppedFirst'
  <2> SUFFICES ASSUME Inv, StoppedFirst, [Next]_vars, NEW s \in Shutdowns, pc'[s] /= "idle"
               PROVE  stopping'
    BY DEF StoppedFirst
  <2>1. stopping => stopping'
    BY DEF Next, Do, Enter, CountAdmitted, Start, Finish, Leave, CountRejected, MarkDrained,
           Mark, CloseDone, Shutdown, Stop, Withdraw, ContextEnds, Check, Select, Stats,
           ReadFinished, ReadStarted, ReadAdmitted, gateVars, vars
  <2>2. CASE pc[s] /= "idle"
    BY <2>1, <2>2 DEF StoppedFirst
  <2>3. CASE pc[s] = "idle"
    <3>1. pc \in [Procs -> CallerPC \cup ShutdownPC] /\ s \in Procs /\ s \notin Callers
      BY FiniteAssumption DEF Inv, TypeOK, Procs
    <3>2. ASSUME NEW c \in Callers, Do(c) PROVE pc'[s] = pc[s]
      BY <3>1, <3>2 DEF Do, Enter, CountAdmitted, Start, Finish, Leave, CountRejected, Goto
    <3>3. ASSUME NEW p \in Procs, MarkDrained(p) PROVE pc'[s] = pc[s]
      BY <2>3, <3>1, <3>3 DEF MarkDrained, Mark, CloseDone, Goto
    <3>4. ASSUME NEW t \in Shutdowns, Shutdown(t) PROVE stopping' \/ pc'[s] = pc[s]
      BY <2>3, <3>1, <3>4 DEF Shutdown, Stop, Withdraw, ContextEnds, Check, Select, Goto
    <3>5. ASSUME NEW r \in Readers, Stats(r) PROVE pc'[s] = pc[s]
      BY <3>5 DEF Stats, ReadFinished, ReadStarted, ReadAdmitted
    <3> QED BY <2>3, <3>2, <3>3, <3>4, <3>5 DEF Next, vars
  <2> QED BY <2>2, <2>3
<1> QED BY <1>1, <1>2, Invariance, PTL DEF Spec

(* Where the steps of a caller and of a Shutdown can be seen from outside. *)
LEMMA CallerMoves ==
  ASSUME Inv, NEW c \in Callers, NEW l, Goto(c, l)
  PROVE  /\ Returned' = Returned
         /\ Live' = IF l \in {"entered", "admitted", "started", "finished"}
                    THEN Live \cup {c} ELSE Live \ {c}
<1>1. pc \in [Procs -> CallerPC \cup ShutdownPC] /\ Callers \subseteq Procs
      /\ Shutdowns \subseteq Procs /\ c \notin Shutdowns
  BY FiniteAssumption DEF Inv, TypeOK, Procs
<1>2. pc'[c] = l /\ \A r \in Procs \ {c} : pc'[r] = pc[r]
  BY <1>1 DEF Goto
<1>3. Returned' = Returned
  BY <1>1, <1>2 DEF Returned
<1>4. Live' = IF l \in {"entered", "admitted", "started", "finished"}
              THEN Live \cup {c} ELSE Live \ {c}
  BY <1>1, <1>2 DEF Live
<1> QED BY <1>3, <1>4

LEMMA ShutdownMoves ==
  ASSUME Inv, NEW s \in Shutdowns, NEW l, Goto(s, l)
  PROVE  /\ Live' = Live
         /\ Returned' = [Returned EXCEPT ![s] = IF l \in {"nil", "expired"} THEN l ELSE "none"]
<1>1. pc \in [Procs -> CallerPC \cup ShutdownPC] /\ Callers \subseteq Procs
      /\ Shutdowns \subseteq Procs /\ s \notin Callers
  BY FiniteAssumption DEF Inv, TypeOK, Procs
<1>2. pc'[s] = l /\ \A r \in Procs \ {s} : pc'[r] = pc[r]
  BY <1>1 DEF Goto
<1>3. Live' = Live
  BY <1>1, <1>2 DEF Live
<1>4. Returned' = [Returned EXCEPT ![s] = IF l \in {"nil", "expired"} THEN l ELSE "none"]
  BY <1>1, <1>2 DEF Returned
<1> QED BY <1>3, <1>4

(* A Shutdown that has not returned may move on without being seen to.     *)
LEMMA ShutdownMovesUnseen ==
  ASSUME Inv, NEW s \in Shutdowns, NEW l, Goto(s, l),
         pc[s] \notin {"nil", "expired"}, l \notin {"nil", "expired"}
  PROVE  UNCHANGED <<Live, Returned>>
<1>1. Returned[s] = "none" /\ Returned = [t \in Shutdowns |-> Returned[t]]
  BY DEF Returned
<1> QED BY <1>1, ShutdownMoves

LEMMA DoRefines ==
  ASSUME Inv, NEW c \in Callers, Do(c)
  PROVE  Abstract!Admit(c) \/ Abstract!Leave(c) \/ UNCHANGED Abstract!vars
<1> USE DEF Abstract!Admit, Abstract!Leave, Abstract!vars
<1>1. CASE Enter(c)
  <2>1. pc[c] = "idle" /\ UNCHANGED <<stopping, done>>
        /\ Goto(c, IF stopping THEN "refused" ELSE "entered")
    BY <1>1 DEF Enter
  <2>2. c \notin Live /\ Phase' = Phase
    BY <2>1 DEF Live, Phase
  <2>3. CASE stopping
    <3>1. Goto(c, "refused")
      BY <2>1, <2>3
    <3> QED BY <2>2, <3>1, CallerMoves
  <2>4. CASE ~stopping
    <3>1. Goto(c, "entered")
      BY <2>1, <2>4
    <3>2. Phase = "open"
      BY <2>4 DEF Inv, DrainedIsQuiet, Phase
    <3> QED BY <2>2, <3>1, <3>2, CallerMoves
  <2> QED BY <2>3, <2>4
<1>2. CASE CountAdmitted(c) \/ Start(c) \/ Finish(c)
  <2>1. PICK l \in {"admitted", "started", "finished"} : Goto(c, l)
    BY <1>2 DEF CountAdmitted, Start, Finish
  <2>2. c \in Live /\ Phase' = Phase
    BY <1>2 DEF CountAdmitted, Start, Finish, gateVars, Live, Phase
  <2> QED BY <2>1, <2>2, CallerMoves
<1>3. CASE Leave(c)
  <2>1. PICK l \in {"mark", "reject", "idle"} : Goto(c, l)
    BY <1>3 DEF Leave, AfterLeave
  <2>2. Phase' = Phase
    BY <1>3 DEF Leave, Phase
  <2>3. Returned' = Returned /\ Live' = Live \ {c}
    BY <2>1, CallerMoves
  <2> QED BY <2>2, <2>3
<1>4. CASE CountRejected(c)
  <2>1. c \notin Live /\ Goto(c, "idle") /\ Phase' = Phase
    BY <1>4 DEF CountRejected, gateVars, Live, Phase
  <2> QED BY <2>1, CallerMoves
<1> QED BY <1>1, <1>2, <1>3, <1>4 DEF Do

(* The swap is not seen; the close that follows it is the drain.           *)
LEMMA MarkDrainedRefines ==
  ASSUME Inv, NEW p \in Procs, MarkDrained(p)
  PROVE  Abstract!Drain \/ UNCHANGED Abstract!vars
<1>1. pc[p] \in {"mark", "close"}
  BY DEF MarkDrained, Mark, CloseDone
<1>2. PICK l \in {"close", "check", "reject", "idle"} : Goto(p, l)
  BY DEF MarkDrained, Mark, CloseDone, AfterMark, AfterLeave
<1>3. UNCHANGED <<Live, Returned>>
  <2>1. CASE p \in Callers
    BY <1>1, <1>2, <2>1, CallerMoves DEF Live
  <2>2. CASE p \in Shutdowns
    BY <1>1, <1>2, <2>2, ShutdownMovesUnseen
  <2> QED BY <2>1, <2>2 DEF Procs
<1>4. CASE Mark(p)
  BY <1>3, <1>4 DEF Mark, Phase, Abstract!vars
<1>5. CASE CloseDone(p)
  <2>1. ~done /\ drained /\ stopping /\ Live = {}
    BY <1>5 DEF CloseDone, Inv, ClosedOnce, Elected, DrainedIsQuiet
  <2>2. Phase = "stopping" /\ Phase' = "drained"
    BY <1>5, <2>1 DEF CloseDone, Phase
  <2> QED BY <1>3, <2>1, <2>2 DEF Abstract!Drain
<1> QED BY <1>4, <1>5 DEF MarkDrained

LEMMA ShutdownRefines ==
  ASSUME Inv, StoppedFirst, NEW s \in Shutdowns, Shutdown(s)
  PROVE  Abstract!Stop \/ Abstract!Return(s) \/ UNCHANGED Abstract!vars
<1> USE DEF Abstract!Stop, Abstract!Return, Abstract!vars
<1>1. CASE Stop(s)
  <2>1. pc[s] = "idle" /\ stopping' /\ UNCHANGED done
    BY <1>1 DEF Stop
  <2>2. PICK l \in {"check", "withdraw"} : Goto(s, l)
    BY <1>1 DEF Stop
  <2>3. UNCHANGED <<Live, Returned>>
    BY <2>1, <2>2, ShutdownMovesUnseen
  <2>4. Phase' = IF Phase = "open" THEN "stopping" ELSE Phase
    BY <2>1 DEF Phase, Inv, DrainedIsQuiet
  <2> QED BY <2>3, <2>4
<1>2. CASE Withdraw(s)
  <2>1. pc[s] = "withdraw" /\ Goto(s, "mark") /\ Phase' = Phase
    BY <1>2 DEF Withdraw, gateVars, Phase
  <2> QED BY <2>1, ShutdownMovesUnseen
<1>3. CASE ContextEnds(s)
  BY <1>3 DEF ContextEnds, gateVars, Phase, Live, Returned
<1>4. CASE Check(s) \/ Select(s)
  <2>1. pc[s] \in {"check", "select"} /\ UNCHANGED <<stopping, done>>
    BY <1>4 DEF Check, Select, gateVars
  <2>2. PICK l \in {"nil", "select", "expired"} : Goto(s, l) /\ (l = "nil" => done)
    BY <1>4 DEF Check, Select
  <2>3. Phase' = Phase /\ Phase /= "open" /\ (done => Phase = "drained")
    BY <2>1 DEF Phase, StoppedFirst
  <2>4. Returned[s] = "none"
    BY <2>1 DEF Returned
  <2>5. CASE l = "select"
    BY <2>1, <2>2, <2>3, <2>5, ShutdownMovesUnseen
  <2>6. CASE l /= "select"
    <3>1. Live' = Live /\ Returned' = [Returned EXCEPT ![s] = l]
      BY <2>2, <2>6, ShutdownMoves
    <3> QED BY <2>2, <2>3, <2>4, <2>6, <3>1
  <2> QED BY <2>2, <2>5, <2>6
<1> QED BY <1>1, <1>2, <1>3, <1>4 DEF Shutdown

(* What callers of Do and Shutdown can see of the gate word, of the done   *)
(* channel and of the races for them is the life cycle of contract.md,     *)
(* section 6: calls are let in until the runtime stops, it is drained      *)
(* once, with nothing admitted in flight, and nil is returned only then.   *)
THEOREM GateImplementsLifecycle == Spec => ImplementsLifecycle
<1>1. Init => Abstract!Init
  BY DEF Init, Abstract!Init, Phase, Live, Returned, Procs
<1>2. Inv /\ StoppedFirst /\ [Next]_vars => [Abstract!Next]_(Abstract!vars)
  <2> SUFFICES ASSUME Inv, StoppedFirst, [Next]_vars
               PROVE  Abstract!Next \/ UNCHANGED Abstract!vars
    OBVIOUS
  <2>1. ASSUME NEW c \in Callers, Do(c) PROVE Abstract!Next \/ UNCHANGED Abstract!vars
    BY <2>1, DoRefines DEF Abstract!Next
  <2>2. ASSUME NEW p \in Procs, MarkDrained(p)
        PROVE  Abstract!Next \/ UNCHANGED Abstract!vars
    BY <2>2, MarkDrainedRefines DEF Abstract!Next
  <2>3. ASSUME NEW s \in Shutdowns, Shutdown(s)
        PROVE  Abstract!Next \/ UNCHANGED Abstract!vars
    BY <2>3, ShutdownRefines DEF Abstract!Next
  <2>4. ASSUME NEW r \in Readers, Stats(r) PROVE UNCHANGED Abstract!vars
    BY <2>4 DEF Stats, ReadFinished, ReadStarted, ReadAdmitted, gateVars, Abstract!vars,
                Phase, Live, Returned
  <2>5. CASE UNCHANGED vars
    BY <2>5 DEF vars, gateVars, Abstract!vars, Phase, Live, Returned
  <2> QED BY <2>1, <2>2, <2>3, <2>4, <2>5 DEF Next
<1> QED BY <1>1, <1>2, Invariance, StoppedFirstAlways, PTL
        DEF Spec, ImplementsLifecycle, Abstract!Spec
=============================================================================
