----------------------------- MODULE V02Proofs -----------------------------
(***************************************************************************)
(* Theorems about V02, for every set of scenarios that its constructors    *)
(* accept, whatever its callers do and when.                               *)
(***************************************************************************)
EXTENDS V02, Lemmas

PC == {"idle", "begin", "key", "keySem", "keyWait", "keyGone", "claims", "claimWait", "rollback",
       "judge", "attempt", "handler", "release", "unlock", "unref", "end", "ended", "returned"}

Classes == {"none", "nil", "canceled", "overloaded", "stopping", "deadline", "panic", "other"}
Results == [class : Classes, outcome : Int]

(* The state of a call of scenario k.  What follows is stated of a scenario *)
(* and of the calls as in f, for a step passes through states between two. *)
CallsOf(k) == DOMAIN k.calls
ClaimsOf(k, c) == Sorted(k.calls[c].op.listed)
SemsOf(k) == ({"budget"} \X DOMAIN k.size) \cup ({"key"} \X CallsOf(k))
CapacityOf(k, s) == IF s[1] = "key" THEN 1 ELSE k.size[s[2]]
KeysOf(k) == {k.calls[c].key : c \in CallsOf(k)} \ {NoKey}

CallStates(k) ==
  [pc : PC, entry : CallsOf(k) \cup {0}, next : Nat, granted : BOOLEAN, watched : BOOLEAN,
   done : BOOLEAN, released : BOOLEAN, n : Nat, err : Classes, res : Results]
Item(k) == [id : CallsOf(k), n : Nat]

(* What a call has where it is in Do.                                      *)
CallRight(k, r, c) ==
  /\ r \in CallStates(k)
  /\ r.next <= Len(ClaimsOf(k, c))
  /\ r.pc = "claimWait" => r.next < Len(ClaimsOf(k, c))
  /\ r.granted => r.pc \in {"keyWait", "claimWait"}
  /\ r.pc \in {"idle", "begin", "key"} => r.entry = 0
  /\ r.pc \in {"keySem", "keyWait", "keyGone", "unlock", "unref"} => r.entry /= 0
  /\ r.pc = "key" \/ r.entry /= 0 => k.calls[c].key \in KeysOf(k)
  /\ r.pc = "handler" => r.n > 0

CallsRight(k, f) == f \in [CallsOf(k) -> CallStates(k)] /\ \A c \in CallsOf(k) : CallRight(k, f[c], c)

(* What a call has of a semaphore, and what it waits for.                  *)
HeldOf(r) == r.next + (IF r.pc = "claimWait" /\ r.granted THEN 1 ELSE 0)
Inside(r) == r.entry /= 0 /\ ((r.granted /\ r.pc = "keyWait")
                              \/ r.pc \in {"claims", "claimWait", "rollback", "judge", "attempt",
                                           "handler", "release", "unlock"})
Share(k, r, c, s) ==
  IF s[1] = "key" THEN IF r.entry = s[2] /\ Inside(r) THEN 1 ELSE 0
  ELSE SumFunction([i \in DOMAIN ClaimsOf(k, c) |->
         IF i <= HeldOf(r) /\ ClaimsOf(k, c)[i].r = s[2] THEN ClaimsOf(k, c)[i].n ELSE 0])

Waits(r) == r.pc \in {"keyWait", "claimWait"} /\ ~r.granted
Wants(k, r, c) == IF r.pc = "keyWait" THEN <<"key", r.entry>>
                  ELSE <<"budget", ClaimsOf(k, c)[r.next + 1].r>>
Needs(k, r, c) == IF r.pc = "keyWait" THEN 1 ELSE ClaimsOf(k, c)[r.next + 1].n
Waiting(k, f, s) == {[id |-> c, n |-> Needs(k, f[c], c)] :
                       c \in {d \in CallsOf(k) : Waits(f[d]) /\ Wants(k, f[d], d) = s}}

(* A semaphore has in use what its callers have of it, no more than there  *)
(* is, and its queue lists those that wait, each once.                     *)
SemRight(k, f, s, m) ==
  /\ m.cur = SumFunction([c \in CallsOf(k) |-> Share(k, f[c], c, s)])
  /\ m.cur <= CapacityOf(k, s)
  /\ Lists(Item(k), m.q, Waiting(k, f, s))

SemsRight(k, f, m) == /\ m \in [SemsOf(k) -> [cur : Int, q : Seq(Item(k))]]
                      /\ \A s \in SemsOf(k) : SemRight(k, f, s, m[s])

(* The entry of a key is of a call with that key, and whoever counts on an *)
(* entry counts on the one its key has.                                    *)
KeysRight(k, f, e, n) ==
  /\ e \in [KeysOf(k) -> CallsOf(k) \cup {0}]
  /\ n \in [CallsOf(k) -> Nat]
  /\ \A l \in CallsOf(k) : n[l] = Cardinality({c \in CallsOf(k) : f[c].entry = l})
  /\ \A c \in CallsOf(k) : f[c].entry /= 0 => e[k.calls[c].key] = f[c].entry
  /\ \A x \in KeysOf(k) : e[x] /= 0 => n[e[x]] > 0 /\ k.calls[e[x]].key = x

(* Who is in the WaitGroup, and what a Shutdown saw of it.                 *)
Counted(r) == r.pc \notin {"idle", "begin", "ended", "returned"}
Downs == [pc : {"lock", "wait", "drained", "stats", "returned"}, expired : BOOLEAN,
          class : {"none", "nil", "canceled"}, lag : BOOLEAN]
DownRight(k, f, a, g, d) ==
  /\ a \in BOOLEAN
  /\ g = Cardinality({c \in CallsOf(k) : Counted(f[c])})
  /\ d \in Seq(Downs)
  /\ \A i \in DOMAIN d : /\ d[i].pc /= "lock" \/ d[i].class /= "none" => ~a
                         /\ d[i].pc = "drained" \/ d[i].class = "nil" => g = 0

Inv == /\ sc \in Scenarios
       /\ CallsRight(sc, call)
       /\ SemsRight(sc, call, sem)
       /\ KeysRight(sc, call, keys, refs)
       /\ DownRight(sc, call, accepting, wg, down)
-----------------------------------------------------------------------------
(* Sorting claims: inserting one into a list, and so one after the other.  *)
LEMMA InsertType ==
  ASSUME NEW R, NEW s \in Seq(R), NEW x \in R
  PROVE  Insert(s, x) \in Seq(R)
<1> DEFINE J == {j \in DOMAIN s : s[j].r <= x.r}
           i == Cardinality(J) + 1
<1>1. Len(s) \in Nat /\ DOMAIN s = 1..Len(s)
  BY LenProperties
<1>2. i \in 1..(Len(s) + 1)
  <2>1. IsFiniteSet(1..Len(s)) /\ Cardinality(1..Len(s)) = Len(s)
    BY <1>1, FS_Interval
  <2>2. J \subseteq 1..Len(s)
    BY <1>1
  <2> HIDE DEF J
  <2>3. Cardinality(J) \in Nat /\ Cardinality(J) <= Len(s)
    BY <2>1, <2>2, FS_Subset, FS_CardinalityType
  <2> QED BY <1>1, <2>3
<1> HIDE DEF i
<1>3. SubSeq(s, 1, i-1) \in Seq(R) /\ SubSeq(s, i, Len(s)) \in Seq(R) /\ <<x>> \in Seq(R)
  <2>1. SubSeq(s, 1, i-1) \in Seq(R)
    BY <1>1, <1>2, SubSeqProperties
  <2>2. SubSeq(s, i, Len(s)) \in Seq(R)
    BY <1>1, <1>2, SubSeqProperties
  <2> QED BY <2>1, <2>2
<1>4. (SubSeq(s, 1, i-1) \o <<x>>) \o SubSeq(s, i, Len(s)) \in Seq(R)
  <2>1. SubSeq(s, 1, i-1) \o <<x>> \in Seq(R)
    BY <1>3, ConcatProperties
  <2> QED BY <1>3, <2>1, ConcatProperties
<1> QED BY <1>4 DEF Insert, InsertAt, i

(* FoldLeft, here over Insert, is a recursion over sets of indices, from   *)
(* the greatest down.                                                      *)
Folds(s, S, I) ==
  I = [T \in SUBSET S |-> IF T = {} THEN <<>> ELSE Insert(I[T \ {Max(T)}], s[Max(T)])]

LEMMA FoldExists ==
  ASSUME NEW n \in Nat, NEW s
  PROVE  \E I : Folds(s, 1..n, I)
<1> DEFINE S == 1..n
           Step(I, T) == IF T = {} THEN <<>> ELSE Insert(I[T \ {Max(T)}], s[Max(T)])
           UpTo(m, I) == \A T \in SUBSET S : Cardinality(T) <= m => I[T] = Step(I, T)
           N == {m \in Nat : \E I : UpTo(m, I)}
<1>1. \A T \in SUBSET S : IsFiniteSet(T) /\ Cardinality(T) \in Nat /\ Cardinality(T) <= Cardinality(S)
  <2>1. IsFiniteSet(S)
    BY FS_Interval
  <2> HIDE DEF S
  <2> QED BY <2>1, FS_Subset, FS_CardinalityType
<1>2. ASSUME NEW T \in SUBSET S, T /= {}
      PROVE  Max(T) \in T /\ T \ {Max(T)} \in SUBSET S /\ Cardinality(T \ {Max(T)}) = Cardinality(T) - 1
  <2>1. T \in SUBSET (0..n)
    OBVIOUS
  <2>2. Max(T) \in T
    BY <1>2, <2>1, MaxOfBounded
  <2> QED BY <1>1, <2>2, FS_RemoveElement
<1>3. 0 \in N
  <2>1. UpTo(0, [T \in SUBSET S |-> <<>>])
    BY <1>1, FS_EmptySet
  <2> QED BY <2>1
<1>4. ASSUME NEW m \in Nat, m \in N PROVE m+1 \in N
  <2>1. PICK I : UpTo(m, I)
    BY <1>4
  <2> DEFINE J == [T \in SUBSET S |-> IF Cardinality(T) <= m THEN I[T] ELSE Step(I, T)]
  <2>2. ASSUME NEW T \in SUBSET S, Cardinality(T) <= m+1 PROVE J[T] = Step(J, T)
    <3>1. J[T] = Step(I, T)
      BY <2>1
    <3>2. CASE T = {}
      BY <3>1, <3>2
    <3>3. CASE T /= {}
      <4>1. T \ {Max(T)} \in SUBSET S /\ Cardinality(T \ {Max(T)}) <= m
        <5>1. Cardinality(T \ {Max(T)}) = Cardinality(T) - 1 /\ T \ {Max(T)} \in SUBSET S
          BY <1>2, <3>3
        <5>2. Cardinality(T) \in Nat
          BY <1>1
        <5> QED BY <2>2, <5>1, <5>2
      <4>2. J[T \ {Max(T)}] = I[T \ {Max(T)}]
        BY <4>1
      <4> QED BY <3>1, <3>3, <4>2
    <3> QED BY <3>2, <3>3
  <2> HIDE DEF J
  <2>3. UpTo(m+1, J)
    BY <2>2
  <2> HIDE DEF UpTo
  <2> QED BY <2>3
<1> HIDE DEF N, UpTo
<1>5. Cardinality(S) \in N
  <2>1. Nat \subseteq N
    BY <1>3, <1>4, NatSetInduction
  <2> QED BY <1>1, <2>1
<1>6. PICK I : UpTo(Cardinality(S), I)
  BY <1>5 DEF N
<1> DEFINE J == [T \in SUBSET S |-> I[T]]
<1>7. \A T \in SUBSET S : J[T] = Step(J, T)
  <2> SUFFICES ASSUME NEW T \in SUBSET S PROVE J[T] = Step(J, T)
    OBVIOUS
  <2>1. I[T] = Step(I, T)
    BY <1>1, <1>6 DEF UpTo
  <2>2. T \ {Max(T)} \in SUBSET S
    OBVIOUS
  <2> QED BY <2>1, <2>2
<1>8. J = [T \in SUBSET S |-> J[T]]
  OBVIOUS
<1> HIDE DEF J
<1>9. J = [T \in SUBSET S |-> Step(J, T)]
  BY <1>7, <1>8
<1> QED BY <1>9 DEF Folds

LEMMA SortedType ==
  ASSUME NEW R, NEW s \in Seq(R)
  PROVE  Sorted(s) \in Seq(R)
<1> DEFINE S == 1..Len(s)
           J == CHOOSE I : Folds(s, S, I)
           N == {m \in Nat : \A T \in SUBSET S : Cardinality(T) <= m => J[T] \in Seq(R)}
<1>1. Len(s) \in Nat /\ DOMAIN s = S
  BY LenProperties
<1>2. Folds(s, S, J)
  <2>1. \E I : Folds(s, S, I)
    BY <1>1, FoldExists
  <2> QED BY <2>1, Zenon
<1>3. Sorted(s) = J[S]
  BY <1>1, Zenon DEF Sorted, FoldLeft, MapThenFoldSet, Folds
<1> HIDE DEF J
<1>4. \A T \in SUBSET S : IsFiniteSet(T) /\ Cardinality(T) \in Nat
  <2>1. IsFiniteSet(S)
    BY <1>1, FS_Interval
  <2> HIDE DEF S
  <2> QED BY <2>1, FS_Subset, FS_CardinalityType
<1>5. J[{}] \in Seq(R) /\ \A T \in SUBSET S : T /= {} => J[T] = Insert(J[T \ {Max(T)}], s[Max(T)])
  BY <1>2, EmptySeq DEF Folds
<1>6. 0 \in N
  <2>1. \A T \in SUBSET S : Cardinality(T) <= 0 => T = {}
    BY <1>4, FS_EmptySet
  <2> QED BY <1>5, <2>1
<1>7. ASSUME NEW m \in Nat, m \in N PROVE m+1 \in N
  <2> SUFFICES ASSUME NEW T \in SUBSET S, Cardinality(T) <= m+1 PROVE J[T] \in Seq(R)
    OBVIOUS
  <2> HIDE DEF N
  <2>1. CASE T = {}
    BY <1>5, <2>1
  <2>2. CASE T /= {}
    <3>1. T \in SUBSET (0..Len(s))
      BY <1>1
    <3>2. Max(T) \in T
      BY <1>1, <2>2, <3>1, MaxOfBounded
    <3>3. Cardinality(T \ {Max(T)}) = Cardinality(T) - 1
      BY <1>4, <3>2, FS_RemoveElement
    <3>4. J[T \ {Max(T)}] \in Seq(R)
      BY <1>4, <1>7, <3>3 DEF N
    <3>5. s[Max(T)] \in R
      BY <1>1, <3>2, ElementOfSeq
    <3> QED BY <1>5, <2>2, <3>4, <3>5, InsertType
  <2> QED BY <2>1, <2>2
<1> HIDE DEF N
<1>8. Cardinality(S) \in N
  <2>1. Nat \subseteq N
    BY <1>6, <1>7, NatSetInduction
  <2> QED BY <1>4, <2>1
<1> QED BY <1>3, <1>4, <1>8 DEF N
-----------------------------------------------------------------------------
(* A scenario: its calls are numbered from 1, and their claims, sorted, are *)
(* on its budgets.                                                         *)
LEMMA ScenarioIs ==
  ASSUME NEW k \in Scenarios
  PROVE  /\ Len(k.calls) \in Nat /\ CallsOf(k) = 1..Len(k.calls)
         /\ IsFiniteSet(CallsOf(k)) /\ CallsOf(k) \subseteq Nat \ {0}
         /\ Len(k.size) \in Nat /\ DOMAIN k.size = 1..Len(k.size)
         /\ \A b \in DOMAIN k.size : k.size[b] \in Nat \ {0}
<1>1. k.size \in Seq(Nat \ {0}) /\ \E R : k.calls \in Seq(R)
  BY ScenariosAssumption DEF IsScenario
<1>2. Len(k.calls) \in Nat /\ CallsOf(k) = 1..Len(k.calls)
  BY <1>1, LenProperties DEF CallsOf
<1>3. IsFiniteSet(1..Len(k.calls))
  BY <1>2, FS_Interval
<1> QED BY <1>1, <1>2, <1>3, LenProperties, ElementOfSeq

LEMMA ClaimsAre ==
  ASSUME NEW k \in Scenarios, NEW c \in CallsOf(k)
  PROVE  /\ Len(ClaimsOf(k, c)) \in Nat
         /\ DOMAIN ClaimsOf(k, c) = 1..Len(ClaimsOf(k, c))
         /\ IsFiniteSet(DOMAIN ClaimsOf(k, c))
         /\ \A i \in DOMAIN ClaimsOf(k, c) : /\ ClaimsOf(k, c)[i].r \in DOMAIN k.size
                                             /\ ClaimsOf(k, c)[i].n \in Nat
<1> DEFINE listed == k.calls[c].op.listed
           R == [r : DOMAIN k.size, n : Nat]
<1>1. listed \in Seq([r : Nat, n : Nat])
  <2>1. PICK S : k.calls \in Seq([op : [effect : Effect, mode : {"Wait", "Reject"}, listed : Seq([r : Nat, n : Nat]),
                                        keyed : BOOLEAN, timed : BOOLEAN, attempts : Nat, on : SUBSET Outcome],
                                  key : STRING, precancel : BOOLEAN, script : S])
    BY ScenariosAssumption DEF IsScenario
  <2>2. c \in 1..Len(k.calls)
    BY ScenarioIs
  <2>3. k.calls[c] \in [op : [effect : Effect, mode : {"Wait", "Reject"}, listed : Seq([r : Nat, n : Nat]),
                              keyed : BOOLEAN, timed : BOOLEAN, attempts : Nat, on : SUBSET Outcome],
                        key : STRING, precancel : BOOLEAN, script : S]
    BY <2>1, <2>2, ElementOfSeq
  <2> QED BY <2>3
<1>2. \A i \in DOMAIN listed : listed[i].r \in DOMAIN k.size
  BY ScenariosAssumption DEF IsScenario, CallsOf
<1> HIDE DEF listed
<1>3. \A i \in 1..Len(listed) : listed[i] \in R
  <2> SUFFICES ASSUME NEW i \in 1..Len(listed) PROVE listed[i] \in R
    OBVIOUS
  <2>1. listed[i] \in [r : Nat, n : Nat] /\ listed[i].r \in DOMAIN k.size
    BY <1>1, <1>2, LenProperties, ElementOfSeq
  <2>2. listed[i] = [r |-> listed[i].r, n |-> listed[i].n] /\ listed[i].n \in Nat
    BY <2>1
  <2> QED BY <2>1, <2>2
<1>4. listed \in Seq(R)
  BY <1>1, <1>3, SeqOver
<1>5. ClaimsOf(k, c) \in Seq(R)
  BY <1>4, SortedType DEF ClaimsOf, listed
<1>6. /\ Len(ClaimsOf(k, c)) \in Nat /\ DOMAIN ClaimsOf(k, c) = 1..Len(ClaimsOf(k, c))
      /\ \A i \in DOMAIN ClaimsOf(k, c) : ClaimsOf(k, c)[i] \in R
  BY <1>5, LenProperties, ElementOfSeq
<1>7. IsFiniteSet(1..Len(ClaimsOf(k, c)))
  BY <1>6, FS_Interval
<1> QED BY <1>6, <1>7
-----------------------------------------------------------------------------
(* What a call has of each semaphore follows from how far its claims are,  *)
(* from its entry, and from whether it is inside its key.                  *)
Granting(k, c, h, b) ==
  [i \in DOMAIN ClaimsOf(k, c) |->
     IF i <= h /\ ClaimsOf(k, c)[i].r = b THEN ClaimsOf(k, c)[i].n ELSE 0]

LEMMA ShareIs ==
  ASSUME NEW k \in Scenarios, NEW c \in CallsOf(k), NEW r \in CallStates(k), NEW s \in SemsOf(k)
  PROVE  /\ Share(k, r, c, s) \in Int
         /\ s[1] = "key" => Share(k, r, c, s) = IF r.entry = s[2] /\ Inside(r) THEN 1 ELSE 0
         /\ s[1] /= "key" => /\ Share(k, r, c, s) = SumFunction(Granting(k, c, HeldOf(r), s[2]))
                             /\ Summands(DOMAIN ClaimsOf(k, c), Granting(k, c, HeldOf(r), s[2]))
<1>1. Summands(DOMAIN ClaimsOf(k, c), Granting(k, c, HeldOf(r), s[2]))
  BY ClaimsAre DEF Granting, Summands
<1>2. s[1] /= "key" => Share(k, r, c, s) = SumFunction(Granting(k, c, HeldOf(r), s[2]))
  BY DEF Share, Granting
<1>3. SumFunction(Granting(k, c, HeldOf(r), s[2])) \in Int
  BY <1>1, SumType DEF Summands
<1> QED BY <1>1, <1>2, <1>3 DEF Share

(* The same, and n more of one of them.                                    *)
SameShare(k, c, r, t) == \A s \in SemsOf(k) : Share(k, t, c, s) = Share(k, r, c, s)
MoreShare(k, c, r, t, s, n) ==
  \A x \in SemsOf(k) : Share(k, t, c, x) = Share(k, r, c, x) + IF x = s THEN n ELSE 0

LEMMA ShareKept ==
  ASSUME NEW k \in Scenarios, NEW c \in CallsOf(k), NEW r \in CallStates(k), NEW t \in CallStates(k),
         HeldOf(t) = HeldOf(r), Inside(t) <=> Inside(r), Inside(r) => t.entry = r.entry
  PROVE  SameShare(k, c, r, t)
<1> SUFFICES ASSUME NEW s \in SemsOf(k) PROVE Share(k, t, c, s) = Share(k, r, c, s)
  BY DEF SameShare
<1>1. CASE s[1] = "key"
  BY <1>1, ShareIs
<1>2. CASE s[1] /= "key"
  BY <1>2, ShareIs
<1> QED BY <1>1, <1>2

LEMMA ShareOfKey ==
  ASSUME NEW k \in Scenarios, NEW c \in CallsOf(k), NEW r \in CallStates(k), NEW t \in CallStates(k),
         HeldOf(t) = HeldOf(r), ~Inside(r), Inside(t)
  PROVE  MoreShare(k, c, r, t, <<"key", t.entry>>, 1)
<1> SUFFICES ASSUME NEW s \in SemsOf(k)
             PROVE  Share(k, t, c, s) = Share(k, r, c, s) + IF s = <<"key", t.entry>> THEN 1 ELSE 0
  BY DEF MoreShare
<1>1. Share(k, t, c, s) \in Int /\ Share(k, r, c, s) \in Int
  BY ShareIs
<1>2. CASE s[1] = "key"
  <2>1. s = <<"key", s[2]>>
    BY <1>2 DEF SemsOf
  <2>2. Share(k, r, c, s) = 0 /\ Share(k, t, c, s) = IF t.entry = s[2] THEN 1 ELSE 0
    BY <1>2, ShareIs
  <2>3. s = <<"key", t.entry>> <=> t.entry = s[2]
    BY <2>1
  <2> QED BY <2>2, <2>3
<1>3. CASE s[1] /= "key"
  <2>1. s /= <<"key", t.entry>>
    BY <1>3
  <2>2. Share(k, t, c, s) = Share(k, r, c, s)
    BY <1>3, ShareIs
  <2> QED BY <1>1, <2>1, <2>2
<1> QED BY <1>2, <1>3

LEMMA ShareOfClaim ==
  ASSUME NEW k \in Scenarios, NEW c \in CallsOf(k), NEW r \in CallStates(k), NEW t \in CallStates(k),
         HeldOf(t) = HeldOf(r) + 1, HeldOf(r) \in Nat, HeldOf(t) <= Len(ClaimsOf(k, c)),
         Inside(t) <=> Inside(r), Inside(r) => t.entry = r.entry
  PROVE  MoreShare(k, c, r, t, <<"budget", ClaimsOf(k, c)[HeldOf(t)].r>>, ClaimsOf(k, c)[HeldOf(t)].n)
<1> DEFINE i == HeldOf(t)
           D == DOMAIN ClaimsOf(k, c)
           cl == ClaimsOf(k, c)[i]
<1>1. i \in D /\ cl.n \in Nat /\ D = 1..Len(ClaimsOf(k, c)) /\ i \in Nat /\ HeldOf(r) = i - 1
  BY ClaimsAre
<1> SUFFICES ASSUME NEW s \in SemsOf(k)
             PROVE  Share(k, t, c, s) = Share(k, r, c, s) + IF s = <<"budget", cl.r>> THEN cl.n ELSE 0
  BY DEF MoreShare
<1>2. Share(k, t, c, s) \in Int /\ Share(k, r, c, s) \in Int
  BY ShareIs
<1>3. CASE s[1] = "key"
  <2>1. s /= <<"budget", cl.r>>
    BY <1>3
  <2>2. Share(k, t, c, s) = Share(k, r, c, s)
    BY <1>3, ShareIs
  <2> QED BY <1>2, <2>1, <2>2
<1>4. CASE s[1] /= "key"
  <2> DEFINE f == Granting(k, c, HeldOf(r), s[2])
             g == Granting(k, c, i, s[2])
  <2>1. /\ Share(k, r, c, s) = SumFunction(f) /\ Share(k, t, c, s) = SumFunction(g)
        /\ Summands(D, f) /\ Summands(D, g)
    BY <1>4, ShareIs
  <2>2. /\ f[i] = 0
        /\ g[i] = IF cl.r = s[2] THEN cl.n ELSE 0
        /\ \A x \in D : x /= i => g[x] = f[x]
    <3>1. ~(i <= HeldOf(r)) /\ i <= i /\ \A x \in D : x /= i => (x <= i <=> x <= HeldOf(r))
      BY <1>1
    <3> QED BY <1>1, <3>1 DEF Granting
  <2>3. s = <<"budget", s[2]>>
    BY <1>4 DEF SemsOf
  <2>4. cl.r = s[2] <=> s = <<"budget", cl.r>>
    BY <2>3
  <2> HIDE DEF f, g
  <2>5. DifferAt(D, f, g, i)
    BY <1>1, <2>2 DEF DifferAt
  <2>6. SumFunction(g) = SumFunction(f) - f[i] + g[i]
    BY <2>1, <2>5, SumUpdate
  <2> HIDE DEF cl, i
  <2> QED BY <1>1, <1>2, <2>1, <2>2, <2>4, <2>6
<1> QED BY <1>3, <1>4
-----------------------------------------------------------------------------
(* What one call does to the use of the semaphores and to who waits, when  *)
(* the calls go from f to g.                                               *)
Used(k, f, s) == SumFunction([c \in CallsOf(k) |-> Share(k, f[c], c, s)])
Typed(k, f) == f \in [CallsOf(k) -> CallStates(k)]
Apart(k, f, g, c) == /\ c \in CallsOf(k) /\ Typed(k, f) /\ Typed(k, g)
                     /\ \A x \in CallsOf(k) : x /= c => g[x] = f[x]

LEMMA UsedIs ==
  ASSUME NEW k \in Scenarios, NEW f, Typed(k, f), NEW s \in SemsOf(k)
  PROVE  Used(k, f, s) \in Int /\ Summands(CallsOf(k), [c \in CallsOf(k) |-> Share(k, f[c], c, s)])
<1>1. \A c \in CallsOf(k) : Share(k, f[c], c, s) \in Int
  BY ShareIs DEF Typed
<1>2. Summands(CallsOf(k), [c \in CallsOf(k) |-> Share(k, f[c], c, s)])
  BY <1>1, ScenarioIs DEF Summands
<1> QED BY <1>2, SumType DEF Used, Summands

MoreUsed(k, f, g, s, n) ==
  \A x \in SemsOf(k) : Used(k, g, x) = Used(k, f, x) + IF x = s THEN n ELSE 0

LEMMA UsedMore ==
  ASSUME NEW k \in Scenarios, NEW f, NEW g, NEW c, Apart(k, f, g, c), NEW s, NEW n \in Int,
         MoreShare(k, c, f[c], g[c], s, n)
  PROVE  MoreUsed(k, f, g, s, n)
<1> SUFFICES ASSUME NEW x \in SemsOf(k)
             PROVE  Used(k, g, x) = Used(k, f, x) + IF x = s THEN n ELSE 0
  BY DEF MoreUsed
<1> DEFINE F == [d \in CallsOf(k) |-> Share(k, f[d], d, x)]
           G == [d \in CallsOf(k) |-> Share(k, g[d], d, x)]
           d0 == IF x = s THEN n ELSE 0
<1>1. Summands(CallsOf(k), F) /\ Summands(CallsOf(k), G) /\ SumFunction(F) \in Int
  BY UsedIs DEF Apart, Used
<1>2. c \in CallsOf(k) /\ G[c] = F[c] + d0 /\ \A d \in CallsOf(k) : d /= c => G[d] = F[d]
  BY DEF Apart, MoreShare
<1>3. Used(k, f, x) = SumFunction(F) /\ Used(k, g, x) = SumFunction(G)
  BY DEF Used
<1>4. d0 \in Int
  OBVIOUS
<1> HIDE DEF F, G, d0
<1>5. DifferAt(CallsOf(k), F, G, c)
  BY <1>2 DEF DifferAt
<1>6. SumFunction(G) = SumFunction(F) - F[c] + G[c] /\ F[c] \in Int
  BY <1>1, <1>5, SumUpdate
<1>7. SumFunction(G) = SumFunction(F) + d0
  BY <1>1, <1>2, <1>4, <1>6
<1> QED BY <1>3, <1>7 DEF d0

LEMMA UsedKept ==
  ASSUME NEW k \in Scenarios, NEW f, NEW g, NEW c, Apart(k, f, g, c), SameShare(k, c, f[c], g[c])
  PROVE  \A x \in SemsOf(k) : Used(k, g, x) = Used(k, f, x)
<1>1. \A d \in CallsOf(k) : \A x \in SemsOf(k) : Share(k, g[d], d, x) = Share(k, f[d], d, x)
  BY DEF Apart, SameShare
<1> QED BY <1>1 DEF Used

LEMMA WaitingKept ==
  ASSUME NEW k, NEW f, NEW g, NEW c, Apart(k, f, g, c), Waits(g[c]) <=> Waits(f[c]),
         Waits(f[c]) => g[c].pc = f[c].pc /\ g[c].entry = f[c].entry /\ g[c].next = f[c].next
  PROVE  \A s : Waiting(k, g, s) = Waiting(k, f, s)
<1>1. \A d \in CallsOf(k) : Waits(g[d]) <=> Waits(f[d])
  BY DEF Apart
<1>2. \A d \in CallsOf(k) : Waits(f[d]) =>
        Wants(k, g[d], d) = Wants(k, f[d], d) /\ Needs(k, g[d], d) = Needs(k, f[d], d)
  BY DEF Apart, Wants, Needs
<1> QED BY <1>1, <1>2 DEF Waiting

LEMMA WaitingMore ==
  ASSUME NEW k, NEW f, NEW g, NEW c, Apart(k, f, g, c), ~Waits(f[c]), Waits(g[c])
  PROVE  /\ \A s : Waiting(k, g, s) =
               IF s = Wants(k, g[c], c)
               THEN Waiting(k, f, s) \cup {[id |-> c, n |-> Needs(k, g[c], c)]} ELSE Waiting(k, f, s)
         /\ \A s : \A x \in Waiting(k, f, s) : x.id /= c
<1>1. \A d \in CallsOf(k) : d /= c => g[d] = f[d]
  BY DEF Apart
<1>2. \A s : \A x \in Waiting(k, f, s) : x.id /= c
  BY DEF Waiting
<1> SUFFICES ASSUME NEW s
             PROVE  Waiting(k, g, s) = IF s = Wants(k, g[c], c)
                      THEN Waiting(k, f, s) \cup {[id |-> c, n |-> Needs(k, g[c], c)]} ELSE Waiting(k, f, s)
  BY <1>2
<1> DEFINE F == {d \in CallsOf(k) : Waits(f[d]) /\ Wants(k, f[d], d) = s}
           G == {d \in CallsOf(k) : Waits(g[d]) /\ Wants(k, g[d], d) = s}
           it(h, d) == [id |-> d, n |-> Needs(k, h[d], d)]
<1>3. Waiting(k, g, s) = {it(g, d) : d \in G} /\ Waiting(k, f, s) = {it(f, d) : d \in F}
  BY DEF Waiting
<1>4. c \in CallsOf(k) /\ c \notin F /\ (c \in G <=> s = Wants(k, g[c], c))
  BY DEF Apart
<1>5. \A d : d /= c => (d \in G <=> d \in F)
  BY <1>1
<1>6. \A d \in F : it(g, d) = it(f, d)
  BY <1>1, <1>4
<1> HIDE DEF F, G, it
<1>7. {it(g, d) : d \in G} = IF s = Wants(k, g[c], c) THEN {it(f, d) : d \in F} \cup {it(g, c)}
                              ELSE {it(f, d) : d \in F}
  <2>1. CASE s = Wants(k, g[c], c)
    <3>1. G = F \cup {c}
      BY <1>4, <1>5, <2>1
    <3> QED BY <1>6, <2>1, <3>1
  <2>2. CASE s /= Wants(k, g[c], c)
    <3>1. G = F
      BY <1>4, <1>5, <2>2
    <3> QED BY <1>6, <2>2, <3>1
  <2> QED BY <2>1, <2>2
<1> QED BY <1>3, <1>7 DEF it
-----------------------------------------------------------------------------
(* What a step of one call, or of the semaphore, does to the semaphores.   *)
LEMMA SemIs ==
  ASSUME NEW k, NEW f, NEW m, SemsRight(k, f, m), NEW s \in SemsOf(k)
  PROVE  /\ m[s].cur \in Int /\ m[s].q \in Seq(Item(k))
         /\ m[s].cur = Used(k, f, s) /\ m[s].cur <= CapacityOf(k, s)
         /\ Lists(Item(k), m[s].q, Waiting(k, f, s))
<1>1. m[s] \in [cur : Int, q : Seq(Item(k))] /\ SemRight(k, f, s, m[s])
  BY DEF SemsRight
<1> QED BY <1>1 DEF SemRight, Used

LEMMA SemsAre ==
  ASSUME NEW k, NEW f, NEW m \in [SemsOf(k) -> [cur : Int, q : Seq(Item(k))]],
         \A s \in SemsOf(k) : /\ m[s].cur = Used(k, f, s) /\ m[s].cur <= CapacityOf(k, s)
                              /\ Lists(Item(k), m[s].q, Waiting(k, f, s))
  PROVE  SemsRight(k, f, m)
BY DEF SemsRight, SemRight, Used

LEMMA SemsKept ==
  ASSUME NEW k \in Scenarios, NEW f, NEW g, NEW c, Apart(k, f, g, c), NEW m, SemsRight(k, f, m),
         SameShare(k, c, f[c], g[c]), \A s : Waiting(k, g, s) = Waiting(k, f, s)
  PROVE  SemsRight(k, g, m)
<1>1. \A s \in SemsOf(k) : Used(k, g, s) = Used(k, f, s)
  BY UsedKept
<1>2. m \in [SemsOf(k) -> [cur : Int, q : Seq(Item(k))]]
  BY DEF SemsRight
<1> QED BY <1>1, <1>2, SemIs, SemsAre

LEMMA SemsTake ==
  ASSUME NEW k \in Scenarios, NEW f, NEW g, NEW c, Apart(k, f, g, c), NEW m, SemsRight(k, f, m),
         NEW s \in SemsOf(k), NEW n \in Int, MoreShare(k, c, f[c], g[c], s, n),
         \A x : Waiting(k, g, x) = Waiting(k, f, x), m[s].cur + n <= CapacityOf(k, s)
  PROVE  SemsRight(k, g, [m EXCEPT ![s] = [cur |-> m[s].cur + n, q |-> m[s].q]])
<1> DEFINE R == [cur : Int, q : Seq(Item(k))]
           M == [m EXCEPT ![s] = [cur |-> m[s].cur + n, q |-> m[s].q]]
<1>1. m \in [SemsOf(k) -> R] /\ m[s].cur \in Int /\ m[s].q \in Seq(Item(k))
  BY SemIs DEF SemsRight
<1>2. M \in [SemsOf(k) -> R]
  BY <1>1
<1>3. \A x \in SemsOf(k) : /\ M[x].q = m[x].q
                           /\ M[x].cur = IF x = s THEN m[x].cur + n ELSE m[x].cur
  BY <1>1
<1>4. \A x \in SemsOf(k) : Used(k, g, x) = Used(k, f, x) + IF x = s THEN n ELSE 0
  <2>1. MoreUsed(k, f, g, s, n)
    BY UsedMore
  <2> QED BY <2>1 DEF MoreUsed
<1> HIDE DEF M, R
<1>5. ASSUME NEW x \in SemsOf(k)
      PROVE  /\ M[x].cur = Used(k, g, x) /\ M[x].cur <= CapacityOf(k, x)
             /\ Lists(Item(k), M[x].q, Waiting(k, g, x))
  <2>1. /\ m[x].cur \in Int /\ m[x].cur = Used(k, f, x) /\ m[x].cur <= CapacityOf(k, x)
        /\ Lists(Item(k), m[x].q, Waiting(k, f, x))
    BY SemIs
  <2>2. Lists(Item(k), M[x].q, Waiting(k, g, x))
    BY <1>3, <2>1
  <2>3. M[x].cur = Used(k, g, x)
    BY <1>3, <1>4, <2>1
  <2>4. M[x].cur <= CapacityOf(k, x)
    BY <1>3, <2>1
  <2> QED BY <2>2, <2>3, <2>4
<1> QED BY <1>2, <1>5, SemsAre DEF M, R

LEMMA SemsQueue ==
  ASSUME NEW k \in Scenarios, NEW f, NEW g, NEW c, Apart(k, f, g, c), NEW m, SemsRight(k, f, m),
         SameShare(k, c, f[c], g[c]), ~Waits(f[c]), Waits(g[c]),
         NEW s \in SemsOf(k), s = Wants(k, g[c], c), NEW n \in Nat, n = Needs(k, g[c], c)
  PROVE  SemsRight(k, g, [m EXCEPT ![s] = [cur |-> m[s].cur, q |-> Append(m[s].q, [id |-> c, n |-> n])]])
<1> DEFINE R == [cur : Int, q : Seq(Item(k))]
           it == [id |-> c, n |-> n]
           M == [m EXCEPT ![s] = [cur |-> m[s].cur, q |-> Append(m[s].q, it)]]
<1>1. m \in [SemsOf(k) -> R] /\ m[s].cur \in Int /\ m[s].q \in Seq(Item(k))
  BY SemIs DEF SemsRight
<1>2. it \in Item(k)
  BY DEF Item, Apart
<1>3. /\ \A x : Waiting(k, g, x) = IF x = s THEN Waiting(k, f, x) \cup {it} ELSE Waiting(k, f, x)
      /\ it \notin Waiting(k, f, s)
  <2>1. /\ \A x : Waiting(k, g, x) = IF x = s THEN Waiting(k, f, x) \cup {it} ELSE Waiting(k, f, x)
        /\ \A y \in Waiting(k, f, s) : y.id /= c
    BY WaitingMore
  <2> QED BY <2>1
<1>4. \A x \in SemsOf(k) : Used(k, g, x) = Used(k, f, x)
  BY UsedKept
<1> HIDE DEF it
<1>5. Append(m[s].q, it) \in Seq(Item(k))
  BY <1>1, <1>2, AppendProperties
<1>6. M \in [SemsOf(k) -> R]
  BY <1>1, <1>5
<1>7. \A x \in SemsOf(k) : /\ M[x].cur = m[x].cur
                           /\ M[x].q = IF x = s THEN Append(m[s].q, it) ELSE m[x].q
  BY <1>1
<1> HIDE DEF M, R
<1>8. ASSUME NEW x \in SemsOf(k)
      PROVE  /\ M[x].cur = Used(k, g, x) /\ M[x].cur <= CapacityOf(k, x)
             /\ Lists(Item(k), M[x].q, Waiting(k, g, x))
  <2>1. /\ m[x].cur = Used(k, f, x) /\ m[x].cur <= CapacityOf(k, x)
        /\ Lists(Item(k), m[x].q, Waiting(k, f, x))
    BY SemIs
  <2>2. Lists(Item(k), M[x].q, Waiting(k, g, x))
    BY <1>2, <1>3, <1>7, <2>1, ListsAppend
  <2> QED BY <1>4, <1>7, <2>1, <2>2
<1> QED BY <1>6, <1>8, SemsAre DEF M, R, it

(* Where a call waits in a queue (semaphore.go's element of s.waiters).    *)
PlaceOf(q, c) == CHOOSE i \in DOMAIN q : q[i].id = c

LEMMA SemsUnqueue ==
  ASSUME NEW k \in Scenarios, NEW f, NEW g, NEW c, Apart(k, f, g, c), NEW m, SemsRight(k, f, m),
         SameShare(k, c, f[c], g[c]), Waits(f[c]), ~Waits(g[c]),
         NEW s \in SemsOf(k), s = Wants(k, f[c], c)
  PROVE  SemsRight(k, g, [m EXCEPT ![s] = [cur |-> m[s].cur,
                                           q |-> RemoveAt(m[s].q, PlaceOf(m[s].q, c))]])
<1> DEFINE i == PlaceOf(m[s].q, c)
           R == [cur : Int, q : Seq(Item(k))]
           it == [id |-> c, n |-> Needs(k, f[c], c)]
           M == [m EXCEPT ![s] = [cur |-> m[s].cur, q |-> RemoveAt(m[s].q, i)]]
<1>1. m \in [SemsOf(k) -> R] /\ m[s].cur \in Int /\ Lists(Item(k), m[s].q, Waiting(k, f, s))
  BY SemIs DEF SemsRight
<1>2. /\ \A x : Waiting(k, f, x) = IF x = s THEN Waiting(k, g, x) \cup {it} ELSE Waiting(k, g, x)
      /\ \A y \in Waiting(k, g, s) : y.id /= c
      /\ it.id = c
  <2>1. Apart(k, g, f, c)
    BY DEF Apart
  <2>2. \A x : \A y \in Waiting(k, g, x) : y.id /= c
    BY <2>1, WaitingMore
  <2>3. \A x : Waiting(k, f, x) = IF x = s THEN Waiting(k, g, x) \cup {it} ELSE Waiting(k, g, x)
    BY <2>1, WaitingMore
  <2> QED BY <2>2, <2>3
<1>3. \A x \in SemsOf(k) : Used(k, g, x) = Used(k, f, x)
  BY UsedKept
<1> HIDE DEF it
<1>4. i \in DOMAIN m[s].q /\ m[s].q[i] = it
  <2>1. /\ ToSet(m[s].q) = Waiting(k, g, s) \cup {it}
        /\ ToSet(m[s].q) = {m[s].q[j] : j \in DOMAIN m[s].q}
    BY <1>1, <1>2 DEF Lists, ToSet
  <2>2. \E j \in DOMAIN m[s].q : m[s].q[j].id = c
    BY <1>2, <2>1
  <2>3. i \in DOMAIN m[s].q /\ m[s].q[i].id = c
    BY <2>2 DEF PlaceOf
  <2>4. m[s].q[i] \in Waiting(k, g, s) \cup {it}
    BY <2>1, <2>3
  <2> QED BY <1>2, <2>3, <2>4
<1> HIDE DEF i
<1>5. Lists(Item(k), RemoveAt(m[s].q, i), Waiting(k, g, s))
  <2>1. Lists(Item(k), RemoveAt(m[s].q, i), Waiting(k, f, s) \ {it})
    BY <1>1, <1>4, ListsRemove
  <2>2. Waiting(k, f, s) \ {it} = Waiting(k, g, s)
    BY <1>2
  <2> QED BY <2>1, <2>2
<1>6. M \in [SemsOf(k) -> R]
  BY <1>1, <1>5 DEF Lists
<1>7. \A x \in SemsOf(k) : /\ M[x].cur = m[x].cur
                           /\ M[x].q = IF x = s THEN RemoveAt(m[s].q, i) ELSE m[x].q
  BY <1>1
<1> HIDE DEF M, R
<1>8. ASSUME NEW x \in SemsOf(k)
      PROVE  /\ M[x].cur = Used(k, g, x) /\ M[x].cur <= CapacityOf(k, x)
             /\ Lists(Item(k), M[x].q, Waiting(k, g, x))
  <2>1. /\ m[x].cur = Used(k, f, x) /\ m[x].cur <= CapacityOf(k, x)
        /\ Lists(Item(k), m[x].q, Waiting(k, f, x))
    BY SemIs
  <2>2. Lists(Item(k), M[x].q, Waiting(k, g, x))
    BY <1>2, <1>5, <1>7, <2>1
  <2> QED BY <1>3, <1>7, <2>1, <2>2
<1> QED BY <1>6, <1>8, SemsAre DEF M, R, i
-----------------------------------------------------------------------------
(* A waiter that is granted what it waits for has it from then on.         *)
LEMMA WaiterIs ==
  ASSUME NEW k \in Scenarios, NEW c \in CallsOf(k), NEW r, CallRight(k, r, c), Waits(r)
  PROVE  /\ r \in CallStates(k) /\ r.next \in Nat
         /\ Needs(k, r, c) \in Nat /\ Wants(k, r, c) \in SemsOf(k)
         /\ r.pc = "keyWait" => r.entry \in CallsOf(k) /\ r.entry /= 0
         /\ r.pc /= "keyWait" => r.pc = "claimWait" /\ r.next + 1 \in DOMAIN ClaimsOf(k, c)
<1>1. r \in CallStates(k) /\ r.next \in Nat /\ r.entry \in CallsOf(k) \cup {0}
  BY DEF CallRight, CallStates
<1>2. CASE r.pc = "keyWait"
  <2>1. r.entry \in CallsOf(k) /\ r.entry /= 0
    BY <1>1, <1>2 DEF CallRight
  <2>2. Needs(k, r, c) = 1 /\ Wants(k, r, c) = <<"key", r.entry>>
    BY <1>2 DEF Needs, Wants
  <2> QED BY <1>1, <1>2, <2>1, <2>2 DEF SemsOf
<1>3. CASE r.pc /= "keyWait"
  <2>1. r.pc = "claimWait" /\ r.next + 1 \in DOMAIN ClaimsOf(k, c)
    BY <1>1, <1>3, ClaimsAre DEF Waits, CallRight
  <2>2. /\ ClaimsOf(k, c)[r.next + 1].r \in DOMAIN k.size
        /\ ClaimsOf(k, c)[r.next + 1].n \in Nat
    BY <2>1, ClaimsAre
  <2>3. Needs(k, r, c) = ClaimsOf(k, c)[r.next + 1].n /\ Wants(k, r, c) = <<"budget", ClaimsOf(k, c)[r.next + 1].r>>
    BY <1>3 DEF Needs, Wants
  <2> QED BY <1>1, <1>3, <2>1, <2>2, <2>3 DEF SemsOf
<1> QED BY <1>2, <1>3

LEMMA GrantedIs ==
  ASSUME NEW k \in Scenarios, NEW c \in CallsOf(k), NEW r, CallRight(k, r, c), Waits(r)
  PROVE  /\ CallRight(k, [r EXCEPT !.granted = TRUE], c)
         /\ ~Waits([r EXCEPT !.granted = TRUE])
         /\ MoreShare(k, c, r, [r EXCEPT !.granted = TRUE], Wants(k, r, c), Needs(k, r, c))
<1> DEFINE t == [r EXCEPT !.granted = TRUE]
<1>1. r \in CallStates(k) /\ r.next \in Nat /\ ~r.granted
  BY WaiterIs DEF Waits
<1>2. t \in CallStates(k)
  BY <1>1 DEF CallStates
<1>3. t.pc = r.pc /\ t.entry = r.entry /\ t.next = r.next /\ t.n = r.n /\ t.granted
  BY <1>1 DEF CallStates
<1> HIDE DEF t
<1>4. CallRight(k, t, c)
  BY <1>2, <1>3 DEF CallRight, Waits
<1>5. ~Waits(t)
  BY <1>3 DEF Waits
<1>6. CASE r.pc = "keyWait"
  <2>1. r.entry /= 0
    BY <1>6, WaiterIs
  <2>2. HeldOf(t) = HeldOf(r) /\ ~Inside(r) /\ Inside(t)
    BY <1>1, <1>3, <1>6, <2>1 DEF HeldOf, Inside
  <2>3. MoreShare(k, c, r, t, <<"key", t.entry>>, 1)
    BY <1>1, <1>2, <2>2, ShareOfKey
  <2> QED BY <1>3, <1>4, <1>5, <1>6, <2>3 DEF Wants, Needs, t
<1>7. CASE r.pc /= "keyWait"
  <2>1. r.pc = "claimWait" /\ r.next + 1 <= Len(ClaimsOf(k, c))
    BY <1>1, <1>7, WaiterIs, ClaimsAre
  <2>2. HeldOf(t) = r.next + 1 /\ HeldOf(r) = r.next
    BY <1>1, <1>3, <2>1 DEF HeldOf
  <2>3. Inside(t) <=> Inside(r)
    BY <1>3, <2>1 DEF Inside
  <2>4. MoreShare(k, c, r, t, <<"budget", ClaimsOf(k, c)[HeldOf(t)].r>>, ClaimsOf(k, c)[HeldOf(t)].n)
    BY <1>1, <1>2, <1>3, <2>1, <2>2, <2>3, ShareOfClaim
  <2> QED BY <1>4, <1>5, <1>7, <2>2, <2>4 DEF Wants, Needs, t
<1> QED BY <1>6, <1>7

(* notifyWaiters serves the first j of the queue, as many as fit.          *)
ServesFirst(s, cur, q, f, j, D) ==
  /\ j \in 0..Len(q)
  /\ D \in [0..Len(q) -> Nat]
  /\ D[0] = 0 /\ \A i \in 1..Len(q) : D[i] = D[i-1] + q[i].n
  /\ cur + D[j] <= CapacityOf(sc, s)
  /\ sem' = [sem EXCEPT ![s] = [cur |-> cur + D[j], q |-> SubSeq(q, j+1, Len(q))]]
  /\ call' = [c \in CallsOf(sc) |-> IF \E i \in 1..j : q[i].id = c
                                    THEN [f[c] EXCEPT !.granted = TRUE] ELSE f[c]]

LEMMA NotifyServes ==
  ASSUME NEW s, NEW cur \in Int, cur <= CapacityOf(sc, s),
         NEW q \in Seq(Item(sc)), NEW f, Notify(s, cur, q, f)
  PROVE  \E j, D : ServesFirst(s, cur, q, f, j, D)
<1> DEFINE n == Len(q)
           w == [i \in 1..n |-> q[i].n]
           P(g) == g = [i \in 0..n |-> IF i = 0 THEN 0 ELSE g[i-1] + q[i].n]
           D == CHOOSE g : P(g)
           F == {i \in 0..n : i = 0 \/ cur + D[i] <= Capacity(s)}
           j == Max(F)
<1>1. n \in Nat
  BY LenProperties
<1>2. Capacity(s) = CapacityOf(sc, s)
  BY DEF Capacity, CapacityOf
<1>3. /\ sem' = [sem EXCEPT ![s] = [cur |-> cur + D[j], q |-> SubSeq(q, j+1, n)]]
      /\ call' = [c \in CallsOf(sc) |-> IF c \in {q[i].id : i \in 1..j}
                                        THEN [f[c] EXCEPT !.granted = TRUE] ELSE f[c]]
  BY DEF Notify, Calls, CallsOf
<1>4. ASSUME NEW g PROVE PrefixSum(n, w, g) <=> P(g)
  <2>1. \A i \in 0..n : i /= 0 => w[i] = q[i].n
    BY <1>1
  <2> QED BY <2>1 DEF PrefixSum
<1>5. \E g : PrefixSum(n, w, g)
  BY <1>1, PrefixSumExists
<1> HIDE DEF P
<1>6. P(D)
  BY <1>4, <1>5
<1>7. PrefixSum(n, w, D)
  BY <1>4, <1>6
<1>8. \A i \in 1..n : w[i] \in Nat /\ w[i] = q[i].n
  <2>1. \A i \in 1..n : q[i] \in Item(sc)
    BY ElementOfSeq
  <2> QED BY <2>1 DEF Item
<1> HIDE DEF w, D, n
<1>9. D \in [0..n -> Nat] /\ D[0] = 0 /\ \A i \in 1..n : D[i] = D[i-1] + w[i]
  BY <1>1, <1>7, <1>8, PrefixSumIs
<1>10. F \in SUBSET (0..n) /\ F /= {} /\ \A i \in F : cur + D[i] <= CapacityOf(sc, s)
  BY <1>1, <1>2, <1>9
<1> HIDE DEF F
<1>11. j \in F
  BY <1>1, <1>10, MaxOfBounded
<1> HIDE DEF j
<1>12. j \in 0..n /\ cur + D[j] <= CapacityOf(sc, s)
  BY <1>10, <1>11
<1>13. call' = [c \in CallsOf(sc) |-> IF \E i \in 1..j : q[i].id = c
                                      THEN [f[c] EXCEPT !.granted = TRUE] ELSE f[c]]
  <2>1. \A c : c \in {q[i].id : i \in 1..j} <=> \E i \in 1..j : q[i].id = c
    OBVIOUS
  <2> QED BY <1>3, <2>1
<1>14. \A i \in 1..n : D[i] = D[i-1] + q[i].n
  BY <1>8, <1>9
<1>15. ServesFirst(s, cur, q, f, j, D)
  BY <1>3, <1>9, <1>12, <1>13, <1>14 DEF ServesFirst, n
<1> QED BY <1>15

(* What granting a set of waiters of s changes.                            *)
Waiters(k, f, s) == {c \in CallsOf(k) : Waits(f[c]) /\ Wants(k, f[c], c) = s}
Granted(k, f, T) == [c \in CallsOf(k) |-> IF c \in T THEN [f[c] EXCEPT !.granted = TRUE] ELSE f[c]]

Grants(k, f, s, T, g) ==
  /\ CallsRight(k, g)
  /\ \A c \in CallsOf(k) : \A x \in SemsOf(k) :
       Share(k, g[c], c, x) = Share(k, f[c], c, x) + IF c \in T /\ x = s THEN Needs(k, f[c], c) ELSE 0
  /\ \A x : Waiting(k, g, x) =
       IF x = s THEN {[id |-> c, n |-> Needs(k, f[c], c)] : c \in Waiters(k, f, s) \ T} ELSE Waiting(k, f, x)

LEMMA GrantedTo ==
  ASSUME NEW k \in Scenarios, NEW f, CallsRight(k, f), NEW s, NEW T \in SUBSET Waiters(k, f, s)
  PROVE  Grants(k, f, s, T, Granted(k, f, T))
<1> DEFINE g == Granted(k, f, T)
           it(h, c) == [id |-> c, n |-> Needs(k, h[c], c)]
<1>1. \A c \in CallsOf(k) : f[c] \in CallStates(k) /\ CallRight(k, f[c], c)
  BY DEF CallsRight
<1>2. /\ \A c \in T : c \in CallsOf(k) /\ Waits(f[c]) /\ Wants(k, f[c], c) = s
      /\ g = [c \in CallsOf(k) |-> IF c \in T THEN [f[c] EXCEPT !.granted = TRUE] ELSE f[c]]
  BY DEF Waiters, Granted
<1>3. \A c \in CallsOf(k) : g[c] = IF c \in T THEN [f[c] EXCEPT !.granted = TRUE] ELSE f[c]
  BY <1>2
<1>4. \A c \in T : /\ CallRight(k, g[c], c) /\ ~Waits(g[c])
                   /\ MoreShare(k, c, f[c], g[c], s, Needs(k, f[c], c))
  BY <1>1, <1>2, <1>3, GrantedIs
<1>5. \A c \in CallsOf(k) : c \notin T => g[c] = f[c]
  BY <1>3
<1>6. CallsRight(k, g)
  <2>1. \A c \in CallsOf(k) : CallRight(k, g[c], c) /\ g[c] \in CallStates(k)
    BY <1>1, <1>4, <1>5 DEF CallRight
  <2>2. g \in [CallsOf(k) -> CallStates(k)]
    BY <1>2, <2>1
  <2> QED BY <2>1, <2>2 DEF CallsRight
<1> HIDE DEF g
<1>7. ASSUME NEW c \in CallsOf(k), NEW x \in SemsOf(k)
      PROVE  Share(k, g[c], c, x) = Share(k, f[c], c, x) + IF c \in T /\ x = s THEN Needs(k, f[c], c) ELSE 0
  <2>1. CASE c \in T
    BY <1>4, <2>1 DEF MoreShare
  <2>2. CASE c \notin T
    <3>1. Share(k, f[c], c, x) \in Int
      BY <1>1, ShareIs
    <3> QED BY <1>5, <2>2, <3>1
  <2> QED BY <2>1, <2>2
<1>8. ASSUME NEW x
      PROVE  Waiting(k, g, x) = IF x = s THEN {it(f, c) : c \in Waiters(k, f, s) \ T} ELSE Waiting(k, f, x)
  <2>1. Waiting(k, g, x) = {it(g, c) : c \in Waiters(k, g, x)} /\ Waiting(k, f, x) = {it(f, c) : c \in Waiters(k, f, x)}
    BY DEF Waiting, Waiters
  <2>2. Waiters(k, g, x) = IF x = s THEN Waiters(k, f, s) \ T ELSE Waiters(k, f, x)
    <3>1. \A c : c \in Waiters(k, g, x) <=> c \in Waiters(k, f, x) /\ c \notin T
      BY <1>4, <1>5 DEF Waiters
    <3>2. x /= s => \A c \in T : c \notin Waiters(k, f, x)
      BY <1>2 DEF Waiters
    <3> QED BY <3>1, <3>2
  <2>3. \A c \in Waiters(k, g, x) : it(g, c) = it(f, c)
    BY <1>4, <1>5 DEF Waiters
  <2> HIDE DEF it
  <2>4. {it(g, c) : c \in Waiters(k, g, x)} = {it(f, c) : c \in Waiters(k, g, x)}
    BY <2>3
  <2> QED BY <2>1, <2>2, <2>4
<1> QED BY <1>6, <1>7, <1>8 DEF g, Grants

(* So notifyWaiters leaves the semaphores right: s, to whom the others did *)
(* not change, had cur in use and q queued before.                         *)
LEMMA NotifyKeeps ==
  ASSUME sc \in Scenarios, NEW s \in SemsOf(sc), NEW cur, NEW q, NEW f, CallsRight(sc, f),
         sem \in [SemsOf(sc) -> [cur : Int, q : Seq(Item(sc))]],
         SemsRight(sc, f, [sem EXCEPT ![s] = [cur |-> cur, q |-> q]]), Notify(s, cur, q, f)
  PROVE  /\ CallsRight(sc, call') /\ SemsRight(sc, call', sem')
         /\ \E T \in SUBSET Waiters(sc, f, s) : call' = Granted(sc, f, T)
<1> DEFINE k == sc
           R == [cur : Int, q : Seq(Item(sc))]
           M == [sem EXCEPT ![s] = [cur |-> cur, q |-> q]]
           W == Waiting(k, f, s)
           n == Len(q)
<1>1. M[s] = [cur |-> cur, q |-> q] /\ \A x \in SemsOf(k) : x /= s => M[x] = sem[x]
  OBVIOUS
<1> HIDE DEF M
<1>2. /\ cur \in Int /\ cur <= CapacityOf(k, s) /\ cur = Used(k, f, s)
      /\ q \in Seq(Item(k)) /\ Lists(Item(k), q, W)
  <2>1. SemsRight(k, f, M)
    BY DEF M
  <2>2. /\ M[s].cur \in Int /\ M[s].q \in Seq(Item(k))
        /\ M[s].cur = Used(k, f, s) /\ M[s].cur <= CapacityOf(k, s)
        /\ Lists(Item(k), M[s].q, Waiting(k, f, s))
    BY <2>1, SemIs
  <2> QED BY <1>1, <2>2
<1>3. PICK j, D : ServesFirst(s, cur, q, f, j, D)
  BY <1>2, NotifyServes
<1>4. n \in Nat /\ DOMAIN q = 1..n
  BY <1>2, LenProperties
<1> DEFINE T == {c \in CallsOf(k) : \E i \in 1..j : q[i].id = c}
           ids == [i \in 1..n |-> q[i].id]
           w == [c \in CallsOf(k) |-> IF c \in Waiters(k, f, s) THEN Needs(k, f[c], c) ELSE 0]
           it(c) == [id |-> c, n |-> Needs(k, f[c], c)]
<1>5. /\ j \in 0..n /\ D \in [0..n -> Nat] /\ D[0] = 0 /\ \A i \in 1..n : D[i] = D[i-1] + q[i].n
      /\ cur + D[j] <= CapacityOf(k, s)
      /\ sem' = [sem EXCEPT ![s] = [cur |-> cur + D[j], q |-> SubSeq(q, j+1, n)]]
      /\ call' = Granted(k, f, T)
  BY <1>3 DEF ServesFirst, Granted
<1> HIDE DEF n
<1>5a. j \in Nat /\ (\A i \in 1..j : i \in 1..n) /\ D[j] \in Nat /\ \A i \in 0..n : D[i] \in Int
  BY <1>4, <1>5
<1>6. W = {it(c) : c \in Waiters(k, f, s)}
  BY DEF Waiting, Waiters
<1>7. \A i \in 1..n : q[i] = it(q[i].id) /\ q[i].id \in Waiters(k, f, s)
  <2> SUFFICES ASSUME NEW i \in 1..n PROVE q[i] = it(q[i].id) /\ q[i].id \in Waiters(k, f, s)
    OBVIOUS
  <2>1. q[i] \in W
    BY <1>2, <1>4 DEF Lists, ToSet
  <2>2. PICK c \in Waiters(k, f, s) : q[i] = it(c)
    BY <1>6, <2>1
  <2> QED BY <2>2
<1>8. \A i, l \in 1..n : q[i].id = q[l].id => i = l
  <2>1. \A i, l \in 1..n : q[i] = q[l] => i = l
    BY <1>2, <1>4 DEF Lists, IsInjective
  <2> SUFFICES ASSUME NEW i \in 1..n, NEW l \in 1..n, q[i].id = q[l].id PROVE q[i] = q[l]
    BY <2>1
  <2>2. q[i] = it(q[i].id) /\ q[l] = it(q[l].id)
    BY <1>7
  <2> QED BY <2>2
<1>9. T \in SUBSET Waiters(k, f, s) /\ \A c : c \in T <=> \E i \in 1..j : q[i].id = c
  <2>1. \A i \in 1..j : q[i].id \in Waiters(k, f, s)
    BY <1>7, <1>5a
  <2> QED BY <2>1 DEF Waiters
<1> HIDE DEF T
<1>10. /\ CallsRight(k, call')
       /\ \A c \in CallsOf(k) : \A x \in SemsOf(k) :
            Share(k, call'[c], c, x) = Share(k, f[c], c, x) + IF c \in T /\ x = s THEN Needs(k, f[c], c) ELSE 0
       /\ \A x : Waiting(k, call', x) = IF x = s THEN {it(c) : c \in Waiters(k, f, s) \ T} ELSE Waiting(k, f, x)
  <2>1. Grants(k, f, s, T, Granted(k, f, T))
    BY <1>9, GrantedTo
  <2>2. Grants(k, f, s, T, call')
    BY <1>5, <2>1
  <2> QED BY <2>2 DEF Grants
<1>11. Lists(Item(k), SubSeq(q, j+1, n), Waiting(k, call', s))
  <2>1. ASSUME NEW i \in 0..Len(q)
        PROVE  /\ FrontOf(q, i)
               /\ Lists(Item(k), SubSeq(q, i+1, Len(q)), W \ ToSet(SubSeq(q, 1, i)))
    <3>1. Lists(Item(k), q, W)
      BY <1>2
    <3> HIDE DEF W
    <3> QED BY ONLY <3>1, i \in 0..Len(q), ListsSplit
  <2>2. W \ ToSet(SubSeq(q, 1, j)) = {it(c) : c \in Waiters(k, f, s) \ T}
    <3>1. \A x : x \in ToSet(SubSeq(q, 1, j)) <=> \E l \in 1..j : q[l] = x
      <4>1. FrontOf(q, j)
        BY <1>5, <2>1 DEF n
      <4> QED BY <4>1 DEF FrontOf
    <3>2. ASSUME NEW c \in Waiters(k, f, s) PROVE it(c) \in ToSet(SubSeq(q, 1, j)) <=> c \in T
      <4>1. ASSUME it(c) \in ToSet(SubSeq(q, 1, j)) PROVE c \in T
        <5>1. PICK l \in 1..j : q[l] = it(c)
          BY <3>1, <4>1
        <5>2. q[l].id = c
          BY <5>1
        <5> QED BY <1>9, <5>2
      <4>2. ASSUME c \in T PROVE it(c) \in ToSet(SubSeq(q, 1, j))
        <5>1. PICK l \in 1..j : q[l].id = c
          BY <1>9, <4>2
        <5>2. q[l] = it(c)
          BY <1>7, <1>5a, <5>1
        <5> QED BY <3>1, <5>2
      <4> QED BY <4>1, <4>2
    <3> HIDE DEF it, W
    <3> QED BY <1>6, <3>2
  <2> HIDE DEF T, W, it
  <2>3. j \in 0..Len(q) /\ n = Len(q)
    BY <1>5 DEF n
  <2>4. Lists(Item(k), SubSeq(q, j+1, n), W \ ToSet(SubSeq(q, 1, j)))
    BY <2>1, <2>3
  <2>5. Waiting(k, call', s) = {it(c) : c \in Waiters(k, f, s) \ T}
    BY <1>10
  <2> QED BY ONLY <2>2, <2>4, <2>5
<1>12. Used(k, call', s) = cur + D[j]
  <2> DEFINE F == [c \in CallsOf(k) |-> Share(k, f[c], c, s)]
             G == [c \in CallsOf(k) |-> Share(k, call'[c], c, s)]
  <2>1. Used(k, f, s) = SumFunction(F) /\ Used(k, call', s) = SumFunction(G)
    BY DEF Used
  <2>2. Summands(CallsOf(k), F)
    BY UsedIs DEF Typed, CallsRight
  <2>3. w \in [CallsOf(k) -> Nat]
    <3>1. \A c \in CallsOf(k) : c \in Waiters(k, f, s) => Needs(k, f[c], c) \in Nat
      BY WaiterIs DEF Waiters, CallsRight
    <3> QED BY <3>1
  <2>4. \A i \in 1..n : w[ids[i]] = q[i].n /\ ids[i] = q[i].id /\ ids[i] \in CallsOf(k)
    <3> SUFFICES ASSUME NEW i \in 1..n PROVE w[ids[i]] = q[i].n /\ ids[i] = q[i].id /\ ids[i] \in CallsOf(k)
      OBVIOUS
    <3>1. ids[i] = q[i].id /\ q[i].id \in Waiters(k, f, s) /\ q[i] = it(q[i].id)
      BY <1>7
    <3>2. q[i].id \in CallsOf(k)
      BY <3>1 DEF Waiters
    <3>3. w[q[i].id] = Needs(k, f[q[i].id], q[i].id)
      BY <3>1, <3>2
    <3>4. q[i].n = Needs(k, f[q[i].id], q[i].id)
      BY <3>1
    <3> QED BY <3>1, <3>2, <3>3, <3>4
  <2>5. ids \in [1..n -> CallsOf(k)] /\ \A i, l \in 1..n : ids[i] = ids[l] => i = l
    BY <1>8, <2>4
  <2>6. \A c \in CallsOf(k) : G[c] = F[c] + IF \E i \in 1..j : ids[i] = c THEN w[c] ELSE 0
    <3> SUFFICES ASSUME NEW c \in CallsOf(k)
                 PROVE  G[c] = F[c] + IF \E i \in 1..j : ids[i] = c THEN w[c] ELSE 0
      OBVIOUS
    <3>1. (\E i \in 1..j : ids[i] = c) <=> c \in T
      <4>1. \A i \in 1..j : ids[i] = q[i].id
        BY <1>5a, <2>4
      <4> HIDE DEF ids
      <4> QED BY <1>9, <4>1
    <3>2. c \in T => w[c] = Needs(k, f[c], c)
      BY <1>9
    <3>3. G[c] = F[c] + IF c \in T THEN Needs(k, f[c], c) ELSE 0
      BY <1>10
    <3> QED BY <3>1, <3>2, <3>3
  <2>7. G = FirstAdded(CallsOf(k), F, w, ids, j)
    BY <2>6 DEF FirstAdded
  <2> HIDE DEF F, G, w, ids
  <2>8. Weighs(CallsOf(k), w, n, ids, D)
    <3>1. \A i \in 1..n : D[i] = D[i-1] + w[ids[i]]
      BY <1>5, <2>4
    <3> QED BY <1>4, <1>5, <1>5a, <2>3, <2>5, <3>1 DEF Weighs
  <2>9. SumFunction(G) = SumFunction(F) + D[j]
    <3>1. j \in 0..n
      BY <1>5
    <3>2. SumFunction(FirstAdded(CallsOf(k), F, w, ids, j)) = SumFunction(F) + D[j]
      BY ONLY <2>2, <2>8, <3>1, SumOfPrefix
    <3> QED BY <2>7, <3>2
  <2> QED BY <1>2, <2>1, <2>9
<1>13. \A x \in SemsOf(k) : x /= s => Used(k, call', x) = Used(k, f, x)
  <2>1. \A c \in CallsOf(k) : \A x \in SemsOf(k) : Share(k, f[c], c, x) \in Int
    BY ShareIs DEF CallsRight
  <2>2. \A c \in CallsOf(k) : \A x \in SemsOf(k) : x /= s => Share(k, call'[c], c, x) = Share(k, f[c], c, x)
    BY <1>10, <2>1
  <2> QED BY <2>2 DEF Used
<1>14. SubSeq(q, j+1, n) \in Seq(Item(k))
  BY <1>11 DEF Lists
<1>15. cur + D[j] \in Int
  BY <1>2, <1>5a
<1>16. sem' \in [SemsOf(k) -> R]
  BY <1>5, <1>14, <1>15
<1>17. ASSUME NEW x \in SemsOf(k)
       PROVE  /\ sem'[x].cur = Used(k, call', x) /\ sem'[x].cur <= CapacityOf(k, x)
              /\ Lists(Item(k), sem'[x].q, Waiting(k, call', x))
  <2>1. CASE x = s
    <3>1. sem'[x] = [cur |-> cur + D[j], q |-> SubSeq(q, j+1, n)]
      BY <1>5, <2>1
    <3> QED BY <1>5, <1>11, <1>12, <2>1, <3>1
  <2>2. CASE x /= s
    <3>1. sem'[x] = M[x]
      BY <1>1, <1>5, <2>2
    <3>2. M[x].cur = Used(k, f, x) /\ M[x].cur <= CapacityOf(k, x) /\ Lists(Item(k), M[x].q, Waiting(k, f, x))
      BY SemIs DEF M
    <3> QED BY <1>10, <1>13, <2>2, <3>1, <3>2
  <2> QED BY <2>1, <2>2
<1>18. SemsRight(k, call', sem')
  BY <1>16, <1>17, SemsAre
<1> QED BY <1>5, <1>9, <1>10, <1>18
-----------------------------------------------------------------------------
(* Entries and counters that a step leaves alone.                          *)
LEMMA KeysKept ==
  ASSUME NEW k, NEW f, NEW g, NEW e, NEW n, KeysRight(k, f, e, n),
         \A c \in CallsOf(k) : g[c].entry = f[c].entry
  PROVE  KeysRight(k, g, e, n)
<1>1. \A l \in CallsOf(k) : {c \in CallsOf(k) : g[c].entry = l} = {c \in CallsOf(k) : f[c].entry = l}
  OBVIOUS
<1> QED BY <1>1 DEF KeysRight

LEMMA DownKept ==
  ASSUME NEW k, NEW f, NEW g, NEW a, NEW n, NEW d, DownRight(k, f, a, n, d),
         \A c \in CallsOf(k) : Counted(g[c]) <=> Counted(f[c])
  PROVE  DownRight(k, g, a, n, d)
<1>1. {c \in CallsOf(k) : Counted(g[c])} = {c \in CallsOf(k) : Counted(f[c])}
  OBVIOUS
<1> QED BY <1>1 DEF DownRight

(* A step of call c, after which it is r.                                  *)
Becomes(c, r) == [call EXCEPT ![c] = r]

LEMMA BecomesIs ==
  ASSUME Inv, NEW c \in CallsOf(sc), NEW r, CallRight(sc, r, c)
  PROVE  /\ CallsRight(sc, Becomes(c, r)) /\ Apart(sc, call, Becomes(c, r), c)
         /\ Becomes(c, r)[c] = r /\ \A x \in CallsOf(sc) : x /= c => Becomes(c, r)[x] = call[x]
         /\ call[c] \in CallStates(sc) /\ CallRight(sc, call[c], c) /\ r \in CallStates(sc)
<1>1. /\ call \in [CallsOf(sc) -> CallStates(sc)] /\ r \in CallStates(sc)
      /\ \A x \in CallsOf(sc) : CallRight(sc, call[x], x)
  BY DEF Inv, CallsRight, CallRight
<1>2. Becomes(c, r) \in [CallsOf(sc) -> CallStates(sc)]
  BY <1>1 DEF Becomes
<1>3. Becomes(c, r)[c] = r /\ \A x \in CallsOf(sc) : x /= c => Becomes(c, r)[x] = call[x]
  BY <1>1 DEF Becomes
<1>4. \A x \in CallsOf(sc) : CallRight(sc, Becomes(c, r)[x], x)
  BY <1>1, <1>3
<1> QED BY <1>1, <1>2, <1>3, <1>4 DEF CallsRight, Apart, Typed

(* One that neither takes nor gives units or a key nor waits.              *)
Alike(r, t) == /\ t.entry = r.entry /\ HeldOf(t) = HeldOf(r)
               /\ (Inside(t) <=> Inside(r))
               /\ \/ ~Waits(r) /\ ~Waits(t)
                  \/ t.pc = r.pc /\ t.next = r.next /\ t.granted = r.granted

LEMMA LocalStep ==
  ASSUME Inv, NEW c \in CallsOf(sc), NEW r, CallRight(sc, r, c), Alike(call[c], r)
  PROVE  /\ CallsRight(sc, Becomes(c, r))
         /\ SemsRight(sc, Becomes(c, r), sem)
         /\ KeysRight(sc, Becomes(c, r), keys, refs)
<1> DEFINE g == Becomes(c, r)
<1>1. /\ CallsRight(sc, g) /\ Apart(sc, call, g, c) /\ g[c] = r
      /\ \A x \in CallsOf(sc) : x /= c => g[x] = call[x]
      /\ call[c] \in CallStates(sc) /\ r \in CallStates(sc)
  BY BecomesIs
<1>2. sc \in Scenarios /\ SemsRight(sc, call, sem) /\ KeysRight(sc, call, keys, refs)
  BY DEF Inv
<1> HIDE DEF g
<1>3. SameShare(sc, c, call[c], r)
  BY <1>1, <1>2, ShareKept DEF Alike
<1>4. \A s : Waiting(sc, g, s) = Waiting(sc, call, s)
  <2>1. Waits(r) <=> Waits(call[c])
    BY DEF Alike, Waits
  <2>2. Waits(call[c]) => r.pc = call[c].pc /\ r.entry = call[c].entry /\ r.next = call[c].next
    BY DEF Alike
  <2> QED BY <1>1, <2>1, <2>2, WaitingKept
<1>5. SemsRight(sc, g, sem)
  BY <1>1, <1>2, <1>3, <1>4, SemsKept
<1>6. KeysRight(sc, g, keys, refs)
  <2>1. \A x \in CallsOf(sc) : g[x].entry = call[x].entry
    BY <1>1 DEF Alike
  <2> QED BY <1>2, <2>1, KeysKept
<1> QED BY <1>1, <1>5, <1>6 DEF g

(* The WaitGroup, when the step neither begins nor ends the call.          *)
LEMMA LocalDown ==
  ASSUME Inv, NEW c \in CallsOf(sc), NEW r, CallRight(sc, r, c), Counted(r) <=> Counted(call[c])
  PROVE  DownRight(sc, Becomes(c, r), accepting, wg, down)
<1>1. \A x \in CallsOf(sc) : Counted(Becomes(c, r)[x]) <=> Counted(call[x])
  BY BecomesIs
<1> QED BY <1>1, DownKept DEF Inv

LEMMA LocalKeeps ==
  ASSUME Inv, NEW c \in CallsOf(sc), NEW r, CallRight(sc, r, c), Alike(call[c], r),
         Counted(r) <=> Counted(call[c]), call' = Becomes(c, r),
         UNCHANGED <<sc, accepting, wg, sem, keys, refs, down>>
  PROVE  Inv'
<1>1. /\ CallsRight(sc, call') /\ SemsRight(sc, call', sem)
      /\ KeysRight(sc, call', keys, refs) /\ DownRight(sc, call', accepting, wg, down)
  BY LocalStep, LocalDown
<1> QED BY <1>1 DEF Inv
-----------------------------------------------------------------------------
(* The steps that take and give nothing.                                   *)
LEMMA CallIs ==
  ASSUME Inv, NEW c \in CallsOf(sc)
  PROVE  /\ sc \in Scenarios /\ call \in [CallsOf(sc) -> CallStates(sc)]
         /\ call[c] \in CallStates(sc) /\ CallRight(sc, call[c], c)
BY DEF Inv, CallsRight

LEMMA WatchKeeps ==
  ASSUME Inv, NEW c \in CallsOf(sc), Watch(c)
  PROVE  Inv'
<1> DEFINE r == [call[c] EXCEPT !.watched = TRUE]
<1>1. call \in [CallsOf(sc) -> CallStates(sc)] /\ call[c] \in CallStates(sc) /\ CallRight(sc, call[c], c)
  BY CallIs
<1>2. call' = Becomes(c, r) /\ UNCHANGED <<sc, accepting, wg, sem, keys, refs, down>>
  BY <1>1 DEF Watch, Becomes, sharedVars
<1>3. r \in CallStates(sc)
  BY <1>1 DEF CallStates
<1>4. /\ r.pc = call[c].pc /\ r.next = call[c].next /\ r.entry = call[c].entry
      /\ r.granted = call[c].granted /\ r.n = call[c].n
  BY <1>1 DEF CallStates
<1> HIDE DEF r
<1>5. CallRight(sc, r, c) /\ Alike(call[c], r) /\ (Counted(r) <=> Counted(call[c]))
  BY <1>1, <1>3, <1>4 DEF CallRight, Alike, HeldOf, Inside, Waits, Counted
<1> QED BY <1>2, <1>5, LocalKeeps

LEMMA ReleasedKeeps ==
  ASSUME Inv, NEW c \in CallsOf(sc), Released(c)
  PROVE  Inv'
<1> DEFINE to == IF pc(c) = "rollback" THEN "judge" ELSE IF call[c].entry /= 0 THEN "unlock" ELSE "end"
           r == [call[c] EXCEPT !.pc = to]
<1>1. call \in [CallsOf(sc) -> CallStates(sc)] /\ call[c] \in CallStates(sc) /\ CallRight(sc, call[c], c)
  BY CallIs
<1>2. call' = Becomes(c, r) /\ UNCHANGED <<sc, accepting, wg, sem, keys, refs, down>>
  BY <1>1 DEF Released, Becomes, Goto
<1>3. r \in CallStates(sc)
  BY <1>1 DEF CallStates, PC
<1>4. /\ r.pc = to /\ r.next = call[c].next /\ r.entry = call[c].entry
      /\ r.granted = call[c].granted /\ r.n = call[c].n
      /\ call[c].pc \in {"rollback", "release"} /\ pc(c) = call[c].pc
  BY <1>1 DEF CallStates, Released, pc
<1> HIDE DEF r
<1>5. CallRight(sc, r, c) /\ Alike(call[c], r) /\ (Counted(r) <=> Counted(call[c]))
  BY <1>1, <1>3, <1>4 DEF CallRight, Alike, HeldOf, Inside, Waits, Counted
<1> QED BY <1>2, <1>5, LocalKeeps

LEMMA CountStartedKeeps ==
  ASSUME Inv, NEW c \in CallsOf(sc), CountStarted(c)
  PROVE  Inv'
<1> DEFINE r == [call[c] EXCEPT !.pc = "attempt"]
<1>1. call \in [CallsOf(sc) -> CallStates(sc)] /\ call[c] \in CallStates(sc) /\ CallRight(sc, call[c], c)
  BY CallIs
<1>2. call' = Becomes(c, r) /\ UNCHANGED <<sc, accepting, wg, sem, keys, refs, down>>
  BY <1>1 DEF CountStarted, Becomes, Goto
<1>3. r \in CallStates(sc)
  BY <1>1 DEF CallStates, PC
<1>4. /\ r.pc = "attempt" /\ r.next = call[c].next /\ r.entry = call[c].entry
      /\ r.granted = call[c].granted /\ r.n = call[c].n /\ call[c].pc = "claims"
  BY <1>1 DEF CallStates, CountStarted, pc
<1> HIDE DEF r
<1>5. CallRight(sc, r, c) /\ Alike(call[c], r) /\ (Counted(r) <=> Counted(call[c]))
  BY <1>1, <1>3, <1>4 DEF CallRight, Alike, HeldOf, Inside, Waits, Counted
<1> QED BY <1>2, <1>5, LocalKeeps

LEMMA JudgeKeeps ==
  ASSUME Inv, NEW c \in CallsOf(sc), Judge(c)
  PROVE  Inv'
<1> DEFINE to == IF call[c].entry /= 0 THEN "unlock" ELSE "end"
           res == IF ~accepting THEN [class |-> "stopping", outcome |-> Permanent]
                  ELSE [class |-> call[c].err,
                        outcome |-> IF call[c].err = "overloaded" THEN Throttled ELSE Permanent]
           r == [call[c] EXCEPT !.pc = to, !.res = res]
<1>1. call \in [CallsOf(sc) -> CallStates(sc)] /\ call[c] \in CallStates(sc) /\ CallRight(sc, call[c], c)
  BY CallIs
<1>2. call' = Becomes(c, r) /\ UNCHANGED <<sc, accepting, wg, sem, keys, refs, down>>
  BY <1>1 DEF Judge, Becomes, sharedVars
<1>3. r \in CallStates(sc)
  <2>1. call[c].err \in Classes
    BY <1>1 DEF CallStates
  <2>2. res \in Results
    BY <2>1 DEF Results, Classes, Permanent, Throttled
  <2> HIDE DEF res
  <2> QED BY <1>1, <2>2 DEF CallStates, PC
<1> HIDE DEF res
<1>4. /\ r.pc = to /\ r.next = call[c].next /\ r.entry = call[c].entry
      /\ r.granted = call[c].granted /\ r.n = call[c].n /\ call[c].pc = "judge"
  BY <1>1 DEF CallStates, Judge, pc
<1> HIDE DEF r
<1>5. CallRight(sc, r, c) /\ Alike(call[c], r) /\ (Counted(r) <=> Counted(call[c]))
  BY <1>1, <1>3, <1>4 DEF CallRight, Alike, HeldOf, Inside, Waits, Counted
<1> QED BY <1>2, <1>5, LocalKeeps

LEMMA ReturnKeeps ==
  ASSUME Inv, NEW c \in CallsOf(sc), Return(c)
  PROVE  Inv'
<1> DEFINE r == [call[c] EXCEPT !.pc = "returned"]
<1>1. call \in [CallsOf(sc) -> CallStates(sc)] /\ call[c] \in CallStates(sc) /\ CallRight(sc, call[c], c)
  BY CallIs
<1>2. call' = Becomes(c, r) /\ UNCHANGED <<sc, accepting, wg, sem, keys, refs, down>>
  BY <1>1 DEF Return, Becomes, Goto
<1>3. r \in CallStates(sc)
  BY <1>1 DEF CallStates, PC
<1>4. /\ r.pc = "returned" /\ r.next = call[c].next /\ r.entry = call[c].entry
      /\ r.granted = call[c].granted /\ r.n = call[c].n /\ call[c].pc = "ended"
  BY <1>1 DEF CallStates, Return, pc
<1> HIDE DEF r
<1>5. CallRight(sc, r, c) /\ Alike(call[c], r) /\ (Counted(r) <=> Counted(call[c]))
  BY <1>1, <1>3, <1>4 DEF CallRight, Alike, HeldOf, Inside, Waits, Counted
<1> QED BY <1>2, <1>5, LocalKeeps

LEMMA AttemptKeeps ==
  ASSUME Inv, NEW c \in CallsOf(sc), Attempt(c)
  PROVE  Inv'
<1> DEFINE q == [call[c] EXCEPT !.pc = "release", !.res = [class |-> "canceled", outcome |-> Permanent]]
           p == [call[c] EXCEPT !.pc = "handler", !.n = call[c].n + 1]
           r == IF call[c].done THEN q ELSE p
<1>1. call \in [CallsOf(sc) -> CallStates(sc)] /\ call[c] \in CallStates(sc) /\ CallRight(sc, call[c], c)
  BY CallIs
<1>2. call' = Becomes(c, r) /\ UNCHANGED <<sc, accepting, wg, sem, keys, refs, down>>
  BY <1>1 DEF Attempt, Becomes
<1>3. q \in CallStates(sc) /\ p \in CallStates(sc) /\ r \in CallStates(sc)
  <2> DEFINE res == [class |-> "canceled", outcome |-> Permanent]
             n == call[c].n + 1
  <2>1. res \in Results
    BY DEF Results, Classes, Permanent
  <2>2. n \in Nat
    BY <1>1 DEF CallStates
  <2> HIDE DEF res, n
  <2>3. [call[c] EXCEPT !.pc = "release", !.res = res] \in CallStates(sc)
    BY <1>1, <2>1 DEF CallStates, PC
  <2>4. [call[c] EXCEPT !.pc = "handler", !.n = n] \in CallStates(sc)
    BY <1>1, <2>2 DEF CallStates, PC
  <2> QED BY <2>3, <2>4 DEF res, n
<1>4. /\ r.pc = (IF call[c].done THEN "release" ELSE "handler") /\ r.next = call[c].next /\ r.entry = call[c].entry
      /\ r.granted = call[c].granted /\ (r.pc = "handler" => r.n > 0) /\ call[c].pc = "attempt"
  <2>1. call[c].n \in Nat /\ call[c].pc = "attempt"
    BY <1>1 DEF CallStates, Attempt, pc
  <2>2. /\ q.pc = "release" /\ q.next = call[c].next /\ q.entry = call[c].entry /\ q.granted = call[c].granted
        /\ p.pc = "handler" /\ p.next = call[c].next /\ p.entry = call[c].entry /\ p.granted = call[c].granted
        /\ p.n = call[c].n + 1
    BY <1>1 DEF CallStates
  <2> HIDE DEF p, q
  <2> QED BY <2>1, <2>2
<1> HIDE DEF r
<1>5. CallRight(sc, r, c) /\ Alike(call[c], r) /\ (Counted(r) <=> Counted(call[c]))
  BY <1>1, <1>3, <1>4 DEF CallRight, Alike, HeldOf, Inside, Waits, Counted
<1> QED BY <1>2, <1>5, LocalKeeps

(* What the handler returns, and what execute makes of it.                 *)
LEMMA PlayingIs ==
  ASSUME Inv, NEW c \in CallsOf(sc), call[c].pc = "handler"
  PROVE  Playing(c) \in Played
<1> DEFINE script == sc.calls[c].script
           n == call[c].n
<1>1. script \in Seq(Played)
  <2>1. \E S : sc.calls \in Seq([op : S, key : STRING, precancel : BOOLEAN, script : Seq(Played)])
    BY ScenariosAssumption DEF IsScenario, Inv
  <2>2. PICK S : sc.calls \in Seq([op : S, key : STRING, precancel : BOOLEAN, script : Seq(Played)])
    BY <2>1
  <2>3. c \in 1..Len(sc.calls)
    BY ScenarioIs DEF Inv
  <2>4. sc.calls[c] \in [op : S, key : STRING, precancel : BOOLEAN, script : Seq(Played)]
    BY <2>2, <2>3, ElementOfSeq
  <2> QED BY <2>4
<1>2. n \in Nat /\ n > 0
  BY CallIs DEF CallRight, CallStates
<1>3. Playing(c) = IF script = <<>> THEN Plain ELSE script[IF n < Len(script) THEN n ELSE Len(script)]
  BY DEF Playing, At
<1> HIDE DEF script, n
<1>4. CASE script = <<>>
  BY <1>3, <1>4 DEF Plain, Played, Success
<1>5. CASE script /= <<>>
  <2>1. Len(script) \in Nat \ {0}
    BY <1>1, <1>5, EmptySeq, LenProperties
  <2>2. (IF n < Len(script) THEN n ELSE Len(script)) \in 1..Len(script)
    BY <1>2, <2>1
  <2> QED BY <1>1, <1>3, <1>5, <2>2, ElementOfSeq
<1> QED BY <1>4, <1>5

LEMMA HandlerBecomes ==
  ASSUME Inv, NEW c \in CallsOf(sc), call[c].pc = "handler", NEW byCtx \in BOOLEAN, HandlerReturns(c, byCtx)
  PROVE  \E d \in BOOLEAN, res \in Results :
           \/ call' = Becomes(c, [call[c] EXCEPT !.pc = "release", !.done = d, !.res = res])
           \/ call' = Becomes(c, [call[c] EXCEPT !.pc = "attempt", !.done = d])
<1> DEFINE a == Playing(c)
           expired == Op(c).timed /\ a.block = "deadline"
           done == call[c].done \/ a.cancel
           ctxErr == IF expired THEN "deadline" ELSE IF done THEN "canceled" ELSE "nil"
           err == CASE byCtx -> [class |-> "canceled", tag |-> Untagged]
                    [] ~byCtx /\ a.ret = "plain" -> [class |-> "other", tag |-> Untagged]
                    [] ~byCtx /\ a.ret = "tag" -> [class |-> "other", tag |-> FailTag(a.tag)]
                    [] ~byCtx /\ a.ret = "ctxErr" -> [class |-> ctxErr, tag |-> Untagged]
                    [] OTHER -> [class |-> a.ret, tag |-> Untagged]
           out == Class(err, expired)
           ends(r) == call' = [call EXCEPT ![c].pc = "release", ![c].done = done, ![c].res = r]
<1>1. a.ret \in {"ok", "plain", "ctxErr", "tag", "panic"} /\ a.cancel \in BOOLEAN /\ a.tag \in Int
  BY PlayingIs DEF Played
<1>2. done \in BOOLEAN
  BY <1>1, CallIs DEF CallStates
<1>3. \/ err.class \in {"ok", "nil"} /\ ends([class |-> "nil", outcome |-> Success])
      \/ err.class = "panic" /\ ends([class |-> "panic", outcome |-> Success])
      \/ /\ err.class \notin {"ok", "nil", "panic"}
         /\ \/ call' = [call EXCEPT ![c].pc = "attempt", ![c].done = done]
            \/ ends(FinalError(err, expired))
  BY DEF HandlerReturns
<1>4. err.class \in {"ok", "nil", "panic", "canceled", "other", "deadline"} /\ err.tag \in Int
  <2>1. ctxErr \in {"deadline", "canceled", "nil"}
    OBVIOUS
  <2>2. FailTag(a.tag) \in Int /\ Untagged \in Int
    BY <1>1 DEF FailTag, Untagged, Outcome, Success, Uncertain, Permanent
  <2> HIDE DEF ctxErr, a
  <2>3. \/ err = [class |-> "canceled", tag |-> Untagged]
        \/ err = [class |-> "other", tag |-> Untagged]
        \/ err = [class |-> "other", tag |-> FailTag(a.tag)]
        \/ err = [class |-> ctxErr, tag |-> Untagged]
        \/ a.ret \in {"ok", "panic"} /\ err = [class |-> a.ret, tag |-> Untagged]
    BY <1>1
  <2> HIDE DEF err
  <2> QED BY <2>1, <2>2, <2>3
<1> HIDE DEF err, expired, done
<1>5. err.class \notin {"ok", "nil", "panic"} => FinalError(err, expired) \in Results
  BY <1>4 DEF FinalError, Results, Classes, Uncertain, Permanent
<1>6. \A r : ends(r) => call' = Becomes(c, [call[c] EXCEPT !.pc = "release", !.done = done, !.res = r])
  BY CallIs DEF Becomes
<1>7. [class |-> "nil", outcome |-> Success] \in Results /\ [class |-> "panic", outcome |-> Success] \in Results
  BY DEF Results, Classes, Success
<1>8. CASE \E r \in Results : ends(r)
  BY <1>2, <1>6, <1>8
<1>9. CASE call' = [call EXCEPT ![c].pc = "attempt", ![c].done = done]
  <2>1. call' = Becomes(c, [call[c] EXCEPT !.pc = "attempt", !.done = done])
    BY <1>9, CallIs DEF Becomes
  <2> QED BY <1>2, <1>7, <2>1
<1> QED BY <1>3, <1>5, <1>7, <1>8, <1>9

LEMMA HandleKeeps ==
  ASSUME Inv, NEW c \in CallsOf(sc), Handle(c)
  PROVE  Inv'
<1>1. call[c].pc = "handler" /\ UNCHANGED <<sc, accepting, wg, sem, keys, refs, down>>
  BY DEF Handle, pc, sharedVars
<1>2. \E b \in BOOLEAN : HandlerReturns(c, b)
  BY DEF Handle
<1>3. PICK d \in BOOLEAN, res \in Results :
        \/ call' = Becomes(c, [call[c] EXCEPT !.pc = "release", !.done = d, !.res = res])
        \/ call' = Becomes(c, [call[c] EXCEPT !.pc = "attempt", !.done = d])
  BY <1>1, <1>2, HandlerBecomes
<1> DEFINE R == {[call[c] EXCEPT !.pc = "release", !.done = d, !.res = res], [call[c] EXCEPT !.pc = "attempt", !.done = d]}
<1>4. PICK r \in R : call' = Becomes(c, r)
  BY <1>3
<1>5. call[c] \in CallStates(sc) /\ CallRight(sc, call[c], c)
  BY CallIs
<1>6. r \in CallStates(sc)
  BY <1>5, ZenonT(30) DEF CallStates, PC
<1>7. /\ r.pc \in {"release", "attempt"} /\ r.next = call[c].next /\ r.entry = call[c].entry
      /\ r.granted = call[c].granted
  BY <1>5 DEF CallStates
<1>8. CallRight(sc, r, c) /\ Alike(call[c], r) /\ (Counted(r) <=> Counted(call[c]))
  BY <1>1, <1>5, <1>6, <1>7 DEF CallRight, Alike, HeldOf, Inside, Waits, Counted
<1> QED BY <1>1, <1>4, <1>8, LocalKeeps

(* What the callers do to one call.                                        *)
LEMMA CallerKeeps ==
  ASSUME Inv, NEW c \in CallsOf(sc), CallStarts(c) \/ CallReleased(c) \/ CallCancelled(c)
  PROVE  Inv'
<1>1. /\ call \in [CallsOf(sc) -> CallStates(sc)] /\ call[c] \in CallStates(sc) /\ CallRight(sc, call[c], c)
      /\ sc.calls[c].precancel \in BOOLEAN
  <2>1. sc.calls[c].precancel \in BOOLEAN
    <3>1. PICK S, T : sc.calls \in Seq([op : S, key : STRING, precancel : BOOLEAN, script : T])
      BY ScenariosAssumption DEF IsScenario, Inv
    <3>2. c \in 1..Len(sc.calls)
      BY ScenarioIs DEF Inv
    <3>3. sc.calls[c] \in [op : S, key : STRING, precancel : BOOLEAN, script : T]
      BY <3>1, <3>2, ElementOfSeq
    <3> QED BY <3>3
  <2> QED BY <2>1, CallIs
<1> DEFINE R == {[call[c] EXCEPT !.pc = "begin", !.done = sc.calls[c].precancel],
                 [call[c] EXCEPT !.released = TRUE], [call[c] EXCEPT !.done = TRUE]}
<1>2. UNCHANGED <<sc, accepting, wg, sem, keys, refs, down>>
  BY DEF CallStarts, CallReleased, CallCancelled, sharedVars
<1>3. \E r \in R : /\ call' = Becomes(c, r)
                   /\ (r.pc = call[c].pc \/ (r.pc = "begin" /\ call[c].pc = "idle"))
  <2>1. CASE CallStarts(c)
    <3> DEFINE r == [call[c] EXCEPT !.pc = "begin", !.done = sc.calls[c].precancel]
    <3>1. call' = Becomes(c, r) /\ call[c].pc = "idle"
      BY <1>1, <2>1 DEF CallStarts, Becomes, pc
    <3>2. r.pc = "begin"
      BY <1>1 DEF CallStates
    <3> QED BY <3>1, <3>2
  <2>2. CASE CallReleased(c)
    <3> DEFINE r == [call[c] EXCEPT !.released = TRUE]
    <3>1. call' = Becomes(c, r)
      BY <1>1, <2>2 DEF CallReleased, Becomes
    <3>2. r.pc = call[c].pc
      BY <1>1 DEF CallStates
    <3> QED BY <3>1, <3>2
  <2>3. CASE CallCancelled(c)
    <3> DEFINE r == [call[c] EXCEPT !.done = TRUE]
    <3>1. call' = Becomes(c, r)
      BY <1>1, <2>3 DEF CallCancelled, Becomes
    <3>2. r.pc = call[c].pc
      BY <1>1 DEF CallStates
    <3> QED BY <3>1, <3>2
  <2> QED BY <2>1, <2>2, <2>3
<1>4. PICK r \in R : call' = Becomes(c, r) /\ (r.pc = call[c].pc \/ (r.pc = "begin" /\ call[c].pc = "idle"))
  BY <1>3
<1>5. r \in CallStates(sc)
  <2>1. [call[c] EXCEPT !.pc = "begin", !.done = sc.calls[c].precancel] \in CallStates(sc)
    BY <1>1 DEF CallStates, PC
  <2>2. /\ [call[c] EXCEPT !.released = TRUE] \in CallStates(sc)
        /\ [call[c] EXCEPT !.done = TRUE] \in CallStates(sc)
    BY <1>1 DEF CallStates
  <2> QED BY <2>1, <2>2
<1>6. /\ r.next = call[c].next /\ r.entry = call[c].entry
      /\ r.granted = call[c].granted /\ r.n = call[c].n
  BY <1>1 DEF CallStates
<1> HIDE DEF R
<1>7. CallRight(sc, r, c) /\ Alike(call[c], r) /\ (Counted(r) <=> Counted(call[c]))
  <2>1. CallRight(sc, r, c)
    BY <1>1, <1>4, <1>5, <1>6 DEF CallRight
  <2>2. Alike(call[c], r)
    BY <1>1, <1>4, <1>6 DEF CallRight, Alike, HeldOf, Inside, Waits
  <2> QED BY <1>4, <2>1, <2>2 DEF Counted
<1> QED BY <1>2, <1>4, <1>7, LocalKeeps
-----------------------------------------------------------------------------
(* The steps that take units or the key, or queue for them.                *)
LEMMA Steps ==
  ASSUME Inv, NEW c \in CallsOf(sc), NEW r, CallRight(sc, r, c), r.entry = call[c].entry,
         Counted(r) <=> Counted(call[c]), call' = Becomes(c, r), SemsRight(sc, call', sem'),
         UNCHANGED <<sc, accepting, wg, keys, refs, down>>
  PROVE  Inv'
<1>1. CallsRight(sc, call') /\ DownRight(sc, call', accepting, wg, down)
  BY BecomesIs, LocalDown
<1>2. \A x \in CallsOf(sc) : call'[x].entry = call[x].entry
  BY BecomesIs
<1>3. KeysRight(sc, call', keys, refs)
  BY <1>2, KeysKept DEF Inv
<1> QED BY <1>1, <1>3 DEF Inv

LEMMA SemUpdates ==
  ASSUME NEW s \in SemsOf(sc), NEW v, sem \in [SemsOf(sc) -> [cur : Int, q : Seq(Item(sc))]]
  PROVE  /\ sem' = [sem EXCEPT ![s].cur = v] => sem' = [sem EXCEPT ![s] = [cur |-> v, q |-> sem[s].q]]
         /\ sem' = [sem EXCEPT ![s].q = v] => sem' = [sem EXCEPT ![s] = [cur |-> sem[s].cur, q |-> v]]
<1>1. sem[s] \in [cur : Int, q : Seq(Item(sc))]
  OBVIOUS
<1>2. [sem[s] EXCEPT !.cur = v] = [cur |-> v, q |-> sem[s].q]
  BY <1>1
<1>3. [sem[s] EXCEPT !.q = v] = [cur |-> sem[s].cur, q |-> v]
  BY <1>1
<1> QED BY <1>2, <1>3

LEMMA TakeKeeps ==
  ASSUME Inv, NEW c \in CallsOf(sc), NEW r, CallRight(sc, r, c), r.entry = call[c].entry,
         Counted(r) <=> Counted(call[c]), call' = Becomes(c, r), ~Waits(call[c]), ~Waits(r),
         NEW s \in SemsOf(sc), NEW n \in Int, MoreShare(sc, c, call[c], r, s, n),
         Free(s, n), Take(s, n), UNCHANGED <<sc, accepting, wg, keys, refs, down>>
  PROVE  Inv'
<1>1. /\ Apart(sc, call, call', c) /\ call'[c] = r
      /\ sc \in Scenarios /\ SemsRight(sc, call, sem)
  BY BecomesIs DEF Inv
<1>2. \A x : Waiting(sc, call', x) = Waiting(sc, call, x)
  BY <1>1, WaitingKept
<1>3. sem[s].cur + n <= CapacityOf(sc, s)
  BY DEF Free, Capacity, CapacityOf
<1>4. SemsRight(sc, call', [sem EXCEPT ![s] = [cur |-> sem[s].cur + n, q |-> sem[s].q]])
  BY <1>1, <1>2, <1>3, SemsTake
<1>5. sem' = [sem EXCEPT ![s] = [cur |-> sem[s].cur + n, q |-> sem[s].q]]
  <2>1. sem \in [SemsOf(sc) -> [cur : Int, q : Seq(Item(sc))]]
    BY <1>1 DEF SemsRight
  <2> DEFINE v == sem[s].cur + n
  <2>2. sem' = [sem EXCEPT ![s].cur = v]
    BY DEF Take
  <2> HIDE DEF v
  <2>3. sem' = [sem EXCEPT ![s] = [cur |-> v, q |-> sem[s].q]]
    BY <2>1, <2>2, SemUpdates
  <2> QED BY <2>3 DEF v
<1> QED BY <1>4, <1>5, Steps

LEMMA QueueKeeps ==
  ASSUME Inv, NEW c \in CallsOf(sc), NEW r, CallRight(sc, r, c), r.entry = call[c].entry,
         Counted(r) <=> Counted(call[c]), call' = Becomes(c, r), ~Waits(call[c]), Waits(r),
         HeldOf(r) = HeldOf(call[c]), Inside(r) <=> Inside(call[c]),
         NEW s \in SemsOf(sc), s = Wants(sc, r, c), NEW n, n = Needs(sc, r, c),
         Queue(s, c, n), UNCHANGED <<sc, accepting, wg, keys, refs, down>>
  PROVE  Inv'
<1>1. /\ Apart(sc, call, call', c) /\ call'[c] = r
      /\ sc \in Scenarios /\ SemsRight(sc, call, sem)
      /\ call[c] \in CallStates(sc) /\ r \in CallStates(sc)
  BY BecomesIs DEF Inv
<1>2. SameShare(sc, c, call[c], r)
  BY <1>1, ShareKept
<1>3. n \in Nat
  BY <1>1, WaiterIs
<1>4. SemsRight(sc, call', [sem EXCEPT ![s] = [cur |-> sem[s].cur, q |-> Append(sem[s].q, [id |-> c, n |-> n])]])
  BY <1>1, <1>2, <1>3, SemsQueue
<1>5. sem' = [sem EXCEPT ![s] = [cur |-> sem[s].cur, q |-> Append(sem[s].q, [id |-> c, n |-> n])]]
  <2>1. sem \in [SemsOf(sc) -> [cur : Int, q : Seq(Item(sc))]]
    BY <1>1 DEF SemsRight
  <2> DEFINE v == Append(sem[s].q, [id |-> c, n |-> n])
  <2>2. sem' = [sem EXCEPT ![s].q = v]
    BY DEF Queue
  <2> HIDE DEF v
  <2>3. sem' = [sem EXCEPT ![s] = [cur |-> sem[s].cur, q |-> v]]
    BY <2>1, <2>2, SemUpdates
  <2> QED BY <2>3 DEF v
<1> QED BY <1>4, <1>5, Steps

LEMMA AcquireKeyKeeps ==
  ASSUME Inv, NEW c \in CallsOf(sc), AcquireKey(c)
  PROVE  Inv'
<1> DEFINE s == <<"key", call[c].entry>>
           gone == [call[c] EXCEPT !.pc = "keyGone", !.err = "canceled"]
           in == [call[c] EXCEPT !.pc = "claims"]
           wait == [call[c] EXCEPT !.pc = "keyWait"]
<1>1. /\ call \in [CallsOf(sc) -> CallStates(sc)] /\ call[c] \in CallStates(sc) /\ CallRight(sc, call[c], c)
      /\ sc \in Scenarios /\ call[c].pc = "keySem" /\ call[c].entry /= 0 /\ call[c].entry \in CallsOf(sc)
      /\ ~call[c].granted /\ s \in SemsOf(sc)
  BY CallIs DEF AcquireKey, pc, CallRight, CallStates, SemsOf
<1>2. /\ UNCHANGED <<sc, accepting, wg, keys, refs, down>>
      /\ \/ call' = Becomes(c, gone) /\ UNCHANGED sem
         \/ call' = Becomes(c, in) /\ Free(s, 1) /\ Take(s, 1)
         \/ call' = Becomes(c, wait) /\ Queue(s, c, 1)
  BY <1>1 DEF AcquireKey, Becomes, Goto
<1>3. gone \in CallStates(sc) /\ in \in CallStates(sc) /\ wait \in CallStates(sc)
  BY <1>1 DEF CallStates, PC, Classes
<1>4. /\ gone.pc = "keyGone" /\ in.pc = "claims" /\ wait.pc = "keyWait"
      /\ \A r \in {gone, in, wait} : /\ r.next = call[c].next /\ r.entry = call[c].entry
                                     /\ r.granted = call[c].granted
  BY <1>1 DEF CallStates
<1> HIDE DEF gone, in, wait
<1>5. \A r \in {gone, in, wait} :
        /\ CallRight(sc, r, c) /\ (Counted(r) <=> Counted(call[c])) /\ HeldOf(r) = HeldOf(call[c])
  BY <1>1, <1>3, <1>4 DEF CallRight, Counted, HeldOf
<1>6. CASE call' = Becomes(c, gone) /\ UNCHANGED sem
  <2>1. Alike(call[c], gone)
    BY <1>1, <1>4, <1>5 DEF Alike, Inside, Waits
  <2> QED BY <1>2, <1>5, <1>6, <2>1, LocalKeeps
<1>7. CASE call' = Becomes(c, in) /\ Free(s, 1) /\ Take(s, 1)
  <2>1. ~Inside(call[c]) /\ Inside(in) /\ ~Waits(call[c]) /\ ~Waits(in)
    BY <1>1, <1>4 DEF Inside, Waits
  <2>2. MoreShare(sc, c, call[c], in, s, 1)
    <3>1. MoreShare(sc, c, call[c], in, <<"key", in.entry>>, 1)
      BY <1>1, <1>3, <1>5, <2>1, ShareOfKey
    <3> QED BY <1>4, <3>1
  <2>3. in.entry = call[c].entry /\ CallRight(sc, in, c) /\ (Counted(in) <=> Counted(call[c]))
    BY <1>4, <1>5
  <2> HIDE DEF s
  <2> QED BY <1>1, <1>2, <1>7, <2>1, <2>2, <2>3, TakeKeeps
<1>8. CASE call' = Becomes(c, wait) /\ Queue(s, c, 1)
  <2>1. ~Inside(call[c]) /\ ~Inside(wait) /\ ~Waits(call[c]) /\ Waits(wait)
    BY <1>1, <1>4 DEF Inside, Waits
  <2>2. s = Wants(sc, wait, c) /\ 1 = Needs(sc, wait, c)
    BY <1>4 DEF Wants, Needs
  <2>3. wait.entry = call[c].entry /\ CallRight(sc, wait, c) /\ (Counted(wait) <=> Counted(call[c]))
        /\ HeldOf(wait) = HeldOf(call[c])
    BY <1>4, <1>5
  <2> HIDE DEF s
  <2> QED BY <1>1, <1>2, <1>8, <2>1, <2>2, <2>3, QueueKeeps
<1> QED BY <1>2, <1>6, <1>7, <1>8

LEMMA AcquireClaimKeeps ==
  ASSUME Inv, NEW c \in CallsOf(sc), AcquireClaim(c)
  PROVE  Inv'
<1> DEFINE h == call[c].next
           cl == ClaimsOf(sc, c)[h + 1]
           s == <<"budget", cl.r>>
           R == {[call[c] EXCEPT !.pc = "rollback", !.err = e] : e \in {"canceled", "overloaded"}}
           in == [call[c] EXCEPT !.next = h + 1]
           wait == [call[c] EXCEPT !.pc = "claimWait"]
<1>1. /\ call \in [CallsOf(sc) -> CallStates(sc)] /\ call[c] \in CallStates(sc) /\ CallRight(sc, call[c], c)
      /\ sc \in Scenarios /\ call[c].pc = "claims" /\ h < Len(ClaimsOf(sc, c)) /\ h \in Nat
      /\ ~call[c].granted
  BY CallIs DEF AcquireClaim, pc, CallRight, CallStates, Claims, Op, ClaimsOf
<1>2. /\ h + 1 \in DOMAIN ClaimsOf(sc, c) /\ h + 1 <= Len(ClaimsOf(sc, c))
      /\ cl.n \in Nat /\ cl.r \in DOMAIN sc.size /\ s \in SemsOf(sc)
  <2>1. h + 1 \in DOMAIN ClaimsOf(sc, c) /\ h + 1 <= Len(ClaimsOf(sc, c))
    BY <1>1, ClaimsAre
  <2>2. cl.n \in Nat /\ cl.r \in DOMAIN sc.size
    BY <1>1, <2>1, ClaimsAre
  <2> QED BY <2>1, <2>2 DEF SemsOf
<1>3. /\ UNCHANGED <<sc, accepting, wg, keys, refs, down>>
      /\ \/ (\E r \in R : call' = Becomes(c, r)) /\ UNCHANGED sem
         \/ call' = Becomes(c, in) /\ Free(s, cl.n) /\ Take(s, cl.n)
         \/ call' = Becomes(c, wait) /\ Queue(s, c, cl.n)
  <2>1. Claim(c) = cl
    BY DEF Claim, Claims, Op, ClaimsOf
  <2> DEFINE fail(e) == call' = [call EXCEPT ![c].pc = "rollback", ![c].err = e] /\ UNCHANGED sem
  <2>2. /\ UNCHANGED <<sc, accepting, wg, keys, refs, down>>
        /\ \/ fail("canceled")
           \/ fail("overloaded")
           \/ Free(s, cl.n) /\ Take(s, cl.n) /\ call' = [call EXCEPT ![c].next = h + 1]
           \/ Queue(s, c, cl.n) /\ Goto(c, "claimWait")
    BY <2>1 DEF AcquireClaim
  <2>3. \A e \in {"canceled", "overloaded"} : fail(e) => (\E r \in R : call' = Becomes(c, r)) /\ UNCHANGED sem
    BY <1>1 DEF Becomes
  <2>4. call' = [call EXCEPT ![c].next = h + 1] => call' = Becomes(c, in)
    BY <1>1 DEF Becomes
  <2>5. Goto(c, "claimWait") => call' = Becomes(c, wait)
    BY <1>1 DEF Becomes, Goto
  <2> HIDE DEF fail, R, in, wait, s, cl
  <2> QED BY <2>2, <2>3, <2>4, <2>5
<1>4. R \subseteq CallStates(sc) /\ wait \in CallStates(sc) /\ in \in CallStates(sc)
  <2>0. \A e \in {"canceled", "overloaded"} : [call[c] EXCEPT !.pc = "rollback", !.err = e] \in CallStates(sc)
    BY <1>1 DEF CallStates, PC, Classes
  <2>4. R \subseteq CallStates(sc)
    BY <2>0
  <2>5. wait \in CallStates(sc)
    BY <1>1, SMTT(30) DEF CallStates, PC
  <2>1. R \subseteq CallStates(sc) /\ wait \in CallStates(sc)
    BY <2>4, <2>5
  <2> DEFINE n == h + 1
  <2>2. n \in Nat
    BY <1>1
  <2> HIDE DEF n
  <2>3. [call[c] EXCEPT !.next = n] \in CallStates(sc)
    BY <1>1, <2>2 DEF CallStates
  <2> QED BY <2>1, <2>3 DEF n
<1>5. /\ \A r \in R : /\ r.pc = "rollback" /\ r.next = h /\ r.entry = call[c].entry /\ r.granted = call[c].granted
      /\ wait.pc = "claimWait" /\ wait.next = h /\ wait.entry = call[c].entry /\ wait.granted = call[c].granted
      /\ in.pc = "claims" /\ in.next = h + 1 /\ in.entry = call[c].entry /\ in.granted = call[c].granted
  BY <1>1 DEF CallStates
<1> HIDE DEF R, in, wait
<1>6. ASSUME NEW r \in R, call' = Becomes(c, r), UNCHANGED sem PROVE Inv'
  <2>1. CallRight(sc, r, c) /\ (Counted(r) <=> Counted(call[c])) /\ Alike(call[c], r)
    BY <1>1, <1>4, <1>5 DEF CallRight, Counted, HeldOf, Alike, Inside, Waits
  <2> QED BY <1>3, <1>6, <2>1, LocalKeeps
<1>7. CASE call' = Becomes(c, in) /\ Free(s, cl.n) /\ Take(s, cl.n)
  <2>1. CallRight(sc, in, c) /\ (Counted(in) <=> Counted(call[c])) /\ in.entry = call[c].entry
    BY <1>1, <1>2, <1>4, <1>5 DEF CallRight, Counted
  <2>2. /\ Inside(in) <=> Inside(call[c])
        /\ ~Waits(call[c]) /\ ~Waits(in)
        /\ HeldOf(in) = h + 1 /\ HeldOf(call[c]) = h
    BY <1>1, <1>5 DEF Inside, Waits, HeldOf
  <2>3. MoreShare(sc, c, call[c], in, s, cl.n)
    BY <1>1, <1>2, <1>4, <2>1, <2>2, ShareOfClaim
  <2> HIDE DEF s, cl
  <2> QED BY <1>2, <1>3, <1>7, <2>1, <2>2, <2>3, TakeKeeps
<1>8. CASE call' = Becomes(c, wait) /\ Queue(s, c, cl.n)
  <2>1. CallRight(sc, wait, c) /\ (Counted(wait) <=> Counted(call[c])) /\ wait.entry = call[c].entry
    BY <1>1, <1>2, <1>4, <1>5 DEF CallRight, Counted
  <2>2. /\ Inside(wait) <=> Inside(call[c])
        /\ ~Waits(call[c]) /\ Waits(wait)
        /\ HeldOf(wait) = HeldOf(call[c])
    BY <1>1, <1>5 DEF Inside, Waits, HeldOf
  <2>3. s = Wants(sc, wait, c) /\ cl.n = Needs(sc, wait, c)
    BY <1>5 DEF Wants, Needs
  <2> HIDE DEF s, cl
  <2> QED BY <1>2, <1>3, <1>8, <2>1, <2>2, <2>3, QueueKeeps
<1> QED BY <1>3, <1>6, <1>7, <1>8
-----------------------------------------------------------------------------
(* The steps that give back, and wake others; and that of a waiter whose   *)
(* context has ended.                                                      *)
LEMMA NotifyAfter ==
  ASSUME Inv, NEW c \in CallsOf(sc), NEW r, CallRight(sc, r, c), r.entry = call[c].entry,
         Counted(r) <=> Counted(call[c]), NEW s \in SemsOf(sc), NEW cur, NEW q,
         SemsRight(sc, Becomes(c, r), [sem EXCEPT ![s] = [cur |-> cur, q |-> q]]),
         Notify(s, cur, q, Becomes(c, r)), UNCHANGED <<sc, accepting, wg, keys, refs, down>>
  PROVE  Inv'
<1> DEFINE f == Becomes(c, r)
<1>1. /\ CallsRight(sc, f) /\ f[c] = r
      /\ \A x \in CallsOf(sc) : x /= c => f[x] = call[x]
  BY BecomesIs
<1>2. sc \in Scenarios /\ sem \in [SemsOf(sc) -> [cur : Int, q : Seq(Item(sc))]]
  BY DEF Inv, SemsRight
<1> HIDE DEF f
<1>3. /\ CallsRight(sc, call') /\ SemsRight(sc, call', sem')
      /\ \E T \in SUBSET Waiters(sc, f, s) : call' = Granted(sc, f, T)
  BY <1>1, <1>2, NotifyKeeps DEF f
<1>4. PICK T \in SUBSET Waiters(sc, f, s) : call' = Granted(sc, f, T)
  BY <1>3
<1>5. \A x \in CallsOf(sc) : call'[x].entry = f[x].entry /\ call'[x].pc = f[x].pc
  <2> SUFFICES ASSUME NEW x \in CallsOf(sc) PROVE call'[x].entry = f[x].entry /\ call'[x].pc = f[x].pc
    OBVIOUS
  <2>1. call'[x] = f[x] \/ call'[x] = [f[x] EXCEPT !.granted = TRUE]
    BY <1>4 DEF Granted
  <2>2. f[x] \in CallStates(sc)
    BY <1>1 DEF CallsRight
  <2> QED BY <2>1, <2>2 DEF CallStates
<1>6. KeysRight(sc, call', keys, refs)
  <2>1. \A x \in CallsOf(sc) : call'[x].entry = call[x].entry
    BY <1>1, <1>5
  <2> QED BY <2>1, KeysKept DEF Inv
<1>7. DownRight(sc, call', accepting, wg, down)
  <2>1. \A x \in CallsOf(sc) : Counted(call'[x]) <=> Counted(call[x])
    BY <1>1, <1>5 DEF Counted
  <2> QED BY <2>1, DownKept DEF Inv
<1> QED BY <1>3, <1>6, <1>7 DEF Inv

LEMMA GiveKeeps ==
  ASSUME Inv, NEW c \in CallsOf(sc), NEW r, CallRight(sc, r, c), r.entry = call[c].entry,
         Counted(r) <=> Counted(call[c]), ~Waits(call[c]), ~Waits(r),
         NEW s \in SemsOf(sc), NEW n \in Nat, MoreShare(sc, c, r, call[c], s, n),
         GiveBack(s, n, Becomes(c, r)), UNCHANGED <<sc, accepting, wg, keys, refs, down>>
  PROVE  Inv'
<1> DEFINE f == Becomes(c, r)
           m == 0 - n
<1>1. /\ Apart(sc, call, f, c) /\ f[c] = r
      /\ sc \in Scenarios /\ SemsRight(sc, call, sem)
      /\ call[c] \in CallStates(sc) /\ r \in CallStates(sc)
  BY BecomesIs DEF Inv
<1> HIDE DEF f
<1>2. \A x : Waiting(sc, f, x) = Waiting(sc, call, x)
  BY <1>1, WaitingKept
<1>3. sem[s].cur \in Int /\ sem[s].cur <= CapacityOf(sc, s) /\ CapacityOf(sc, s) \in Int
  <2>1. CapacityOf(sc, s) \in Int
    BY <1>1, ScenarioIs DEF CapacityOf, SemsOf
  <2> QED BY <1>1, <2>1, SemIs
<1>4. /\ m \in Int /\ sem[s].cur + m = sem[s].cur - n
      /\ sem[s].cur + m <= CapacityOf(sc, s)
  BY <1>3
<1>5. MoreShare(sc, c, call[c], r, s, m)
  <2>1. \A x \in SemsOf(sc) : Share(sc, r, c, x) \in Int /\ Share(sc, call[c], c, x) \in Int
    BY <1>1, ShareIs
  <2> QED BY <2>1 DEF MoreShare
<1> HIDE DEF m
<1>6. SemsRight(sc, f, [sem EXCEPT ![s] = [cur |-> sem[s].cur + m, q |-> sem[s].q]])
  BY <1>1, <1>2, <1>4, <1>5, SemsTake
<1>7. Notify(s, sem[s].cur + m, sem[s].q, f)
  BY <1>4 DEF GiveBack, f
<1> QED BY <1>6, <1>7, NotifyAfter DEF f

LEMMA LeaveKeeps ==
  ASSUME Inv, NEW c \in CallsOf(sc), NEW r, CallRight(sc, r, c), r.entry = call[c].entry,
         Counted(r) <=> Counted(call[c]), Waits(call[c]), ~Waits(r),
         HeldOf(r) = HeldOf(call[c]), Inside(r) <=> Inside(call[c]),
         NEW s \in SemsOf(sc), s = Wants(sc, call[c], c), NEW n,
         Abandon(s, c, n, Becomes(c, r)), UNCHANGED <<sc, accepting, wg, keys, refs, down>>
  PROVE  Inv'
<1> DEFINE f == Becomes(c, r)
           i == PlaceOf(sem[s].q, c)
<1>1. /\ Apart(sc, call, f, c) /\ f[c] = r
      /\ sc \in Scenarios /\ SemsRight(sc, call, sem)
      /\ call[c] \in CallStates(sc) /\ r \in CallStates(sc)
  BY BecomesIs DEF Inv
<1>2. SameShare(sc, c, call[c], r)
  BY <1>1, ShareKept
<1>3. Notify(s, sem[s].cur, RemoveAt(sem[s].q, i), f)
  BY DEF Abandon, Waits, PlaceOf
<1> HIDE DEF f
<1>4. SemsRight(sc, f, [sem EXCEPT ![s] = [cur |-> sem[s].cur, q |-> RemoveAt(sem[s].q, i)]])
  <2>1. SameShare(sc, c, call[c], f[c]) /\ Waits(f[c]) = FALSE
    BY <1>1, <1>2
  <2> QED BY <1>1, <2>1, SemsUnqueue
<1> HIDE DEF i
<1> QED BY <1>3, <1>4, NotifyAfter DEF f

LEMMA AwaitKeyKeeps ==
  ASSUME Inv, NEW c \in CallsOf(sc), AwaitKey(c)
  PROVE  Inv'
<1> DEFINE s == <<"key", call[c].entry>>
           gone == [call[c] EXCEPT !.pc = "keyGone", !.err = "canceled", !.granted = FALSE]
           in == [call[c] EXCEPT !.pc = "claims", !.granted = FALSE]
<1>1. /\ call \in [CallsOf(sc) -> CallStates(sc)] /\ call[c] \in CallStates(sc) /\ CallRight(sc, call[c], c)
      /\ sc \in Scenarios /\ call[c].pc = "keyWait" /\ call[c].entry /= 0 /\ call[c].entry \in CallsOf(sc)
      /\ s \in SemsOf(sc)
  BY CallIs DEF AwaitKey, pc, CallRight, CallStates, SemsOf
<1>2. /\ UNCHANGED <<sc, accepting, wg, keys, refs, down>>
      /\ \/ Abandon(s, c, 1, Becomes(c, gone))
         \/ call' = Becomes(c, in) /\ UNCHANGED sem /\ call[c].granted
  BY <1>1 DEF AwaitKey, Becomes
<1>3. gone \in CallStates(sc) /\ in \in CallStates(sc)
  BY <1>1 DEF CallStates, PC, Classes
<1>4. /\ gone.pc = "keyGone" /\ in.pc = "claims"
      /\ \A r \in {gone, in} : r.next = call[c].next /\ r.entry = call[c].entry /\ ~r.granted
  BY <1>1 DEF CallStates
<1> HIDE DEF gone, in
<1>5. \A r \in {gone, in} :
        /\ CallRight(sc, r, c) /\ (Counted(r) <=> Counted(call[c])) /\ HeldOf(r) = HeldOf(call[c])
        /\ ~Waits(r)
  BY <1>1, <1>3, <1>4 DEF CallRight, Counted, HeldOf, Waits
<1>6. CASE call' = Becomes(c, in) /\ UNCHANGED sem /\ call[c].granted
  <2>1. Alike(call[c], in)
    BY <1>1, <1>4, <1>5, <1>6 DEF Alike, Inside, Waits
  <2> QED BY <1>2, <1>5, <1>6, <2>1, LocalKeeps
<1>7. CASE Abandon(s, c, 1, Becomes(c, gone)) /\ call[c].granted
  <2>1. Inside(call[c]) /\ ~Inside(gone) /\ ~Waits(call[c])
    BY <1>1, <1>4, <1>7 DEF Inside, Waits
  <2>2. MoreShare(sc, c, gone, call[c], s, 1)
    BY <1>1, <1>3, <1>5, <2>1, ShareOfKey
  <2>3. GiveBack(s, 1, Becomes(c, gone))
    BY <1>7 DEF Abandon
  <2> HIDE DEF s
  <2> QED BY <1>1, <1>2, <1>4, <1>5, <2>1, <2>2, <2>3, GiveKeeps
<1>8. CASE Abandon(s, c, 1, Becomes(c, gone)) /\ ~call[c].granted
  <2>1. ~Inside(call[c]) /\ ~Inside(gone) /\ Waits(call[c])
    BY <1>1, <1>4, <1>8 DEF Inside, Waits
  <2>2. s = Wants(sc, call[c], c)
    BY <1>1 DEF Wants
  <2> HIDE DEF s
  <2> QED BY <1>1, <1>2, <1>4, <1>5, <1>8, <2>1, <2>2, LeaveKeeps
<1> QED BY <1>2, <1>6, <1>7, <1>8

LEMMA AwaitClaimKeeps ==
  ASSUME Inv, NEW c \in CallsOf(sc), AwaitClaim(c)
  PROVE  Inv'
<1> DEFINE h == call[c].next
           cl == ClaimsOf(sc, c)[h + 1]
           s == <<"budget", cl.r>>
           out == [call[c] EXCEPT !.pc = "rollback", !.err = "canceled", !.granted = FALSE]
           in == [call[c] EXCEPT !.pc = "claims", !.next = h + 1, !.granted = FALSE]
<1>1. /\ call \in [CallsOf(sc) -> CallStates(sc)] /\ call[c] \in CallStates(sc) /\ CallRight(sc, call[c], c)
      /\ sc \in Scenarios /\ call[c].pc = "claimWait" /\ h < Len(ClaimsOf(sc, c)) /\ h \in Nat
  BY CallIs DEF AwaitClaim, pc, CallRight, CallStates
<1>2. /\ h + 1 \in DOMAIN ClaimsOf(sc, c) /\ h + 1 <= Len(ClaimsOf(sc, c))
      /\ cl.n \in Nat /\ cl.r \in DOMAIN sc.size /\ s \in SemsOf(sc)
  <2>1. h + 1 \in DOMAIN ClaimsOf(sc, c) /\ h + 1 <= Len(ClaimsOf(sc, c))
    BY <1>1, ClaimsAre
  <2>2. cl.n \in Nat /\ cl.r \in DOMAIN sc.size
    BY <1>1, <2>1, ClaimsAre
  <2> QED BY <2>1, <2>2 DEF SemsOf
<1>3. /\ UNCHANGED <<sc, accepting, wg, keys, refs, down>>
      /\ \/ Abandon(s, c, cl.n, Becomes(c, out))
         \/ call' = Becomes(c, in) /\ UNCHANGED sem /\ call[c].granted
  <2>1. Claim(c) = cl
    BY DEF Claim, Claims, Op, ClaimsOf
  <2>2. /\ [call EXCEPT ![c].pc = "rollback", ![c].err = "canceled", ![c].granted = FALSE] = Becomes(c, out)
        /\ [call EXCEPT ![c].pc = "claims", ![c].next = h + 1, ![c].granted = FALSE] = Becomes(c, in)
    BY <1>1 DEF Becomes
  <2> HIDE DEF in, out, cl
  <2> QED BY <2>1, <2>2 DEF AwaitClaim
<1>4. out \in CallStates(sc) /\ in \in CallStates(sc)
  <2>1. out \in CallStates(sc)
    BY <1>1 DEF CallStates, PC, Classes
  <2> DEFINE n == h + 1
  <2>2. n \in Nat
    BY <1>1
  <2> HIDE DEF n
  <2>3. [call[c] EXCEPT !.pc = "claims", !.next = n, !.granted = FALSE] \in CallStates(sc)
    BY <1>1, <2>2 DEF CallStates, PC
  <2> QED BY <2>1, <2>3 DEF n
<1>5. /\ out.pc = "rollback" /\ out.next = h /\ out.entry = call[c].entry /\ ~out.granted
      /\ in.pc = "claims" /\ in.next = h + 1 /\ in.entry = call[c].entry /\ ~in.granted
  BY <1>1 DEF CallStates
<1> HIDE DEF out, in
<1>6. \A r \in {out, in} :
        /\ CallRight(sc, r, c) /\ (Counted(r) <=> Counted(call[c])) /\ ~Waits(r)
        /\ Inside(r) <=> Inside(call[c])
  BY <1>1, <1>2, <1>4, <1>5 DEF CallRight, Counted, Inside, Waits
<1>7. CASE call' = Becomes(c, in) /\ UNCHANGED sem /\ call[c].granted
  <2>1. HeldOf(in) = HeldOf(call[c]) /\ ~Waits(call[c])
    BY <1>1, <1>5, <1>7 DEF HeldOf, Waits
  <2>2. Alike(call[c], in)
    BY <1>5, <1>6, <2>1 DEF Alike
  <2> QED BY <1>3, <1>6, <1>7, <2>2, LocalKeeps
<1>8. CASE Abandon(s, c, cl.n, Becomes(c, out)) /\ call[c].granted
  <2>1. HeldOf(call[c]) = h + 1 /\ HeldOf(out) = h /\ ~Waits(call[c])
    BY <1>1, <1>5, <1>8 DEF HeldOf, Waits
  <2>2. MoreShare(sc, c, out, call[c], s, cl.n)
    BY <1>1, <1>2, <1>4, <1>5, <1>6, <2>1, ShareOfClaim
  <2>3. GiveBack(s, cl.n, Becomes(c, out))
    BY <1>8 DEF Abandon
  <2> HIDE DEF s, cl
  <2> QED BY <1>2, <1>3, <1>5, <1>6, <2>1, <2>2, <2>3, GiveKeeps
<1>9. CASE Abandon(s, c, cl.n, Becomes(c, out)) /\ ~call[c].granted
  <2>1. HeldOf(call[c]) = HeldOf(out) /\ Waits(call[c])
    BY <1>1, <1>5, <1>9 DEF HeldOf, Waits
  <2>2. s = Wants(sc, call[c], c)
    BY <1>1 DEF Wants
  <2> HIDE DEF s, cl
  <2> QED BY <1>2, <1>3, <1>5, <1>6, <1>9, <2>1, <2>2, LeaveKeeps
<1> QED BY <1>3, <1>7, <1>8, <1>9

LEMMA ReleaseClaimKeeps ==
  ASSUME Inv, NEW c \in CallsOf(sc), ReleaseClaim(c)
  PROVE  Inv'
<1> DEFINE h == call[c].next
           cl == ClaimsOf(sc, c)[h]
           s == <<"budget", cl.r>>
           r == [call[c] EXCEPT !.next = h - 1]
<1>1. /\ call \in [CallsOf(sc) -> CallStates(sc)] /\ call[c] \in CallStates(sc) /\ CallRight(sc, call[c], c)
      /\ sc \in Scenarios /\ call[c].pc \in {"rollback", "release"} /\ h > 0 /\ h \in Nat
      /\ h <= Len(ClaimsOf(sc, c))
  BY CallIs DEF ReleaseClaim, pc, CallRight, CallStates
<1>2. h \in DOMAIN ClaimsOf(sc, c) /\ cl.n \in Nat /\ cl.r \in DOMAIN sc.size /\ s \in SemsOf(sc)
  <2>1. h \in DOMAIN ClaimsOf(sc, c)
    BY <1>1, ClaimsAre
  <2>2. cl.n \in Nat /\ cl.r \in DOMAIN sc.size
    BY <1>1, <2>1, ClaimsAre
  <2> QED BY <2>1, <2>2 DEF SemsOf
<1>3. GiveBack(s, cl.n, Becomes(c, r)) /\ UNCHANGED <<sc, accepting, wg, keys, refs, down>>
  <2>1. Claims(c)[call[c].next] = cl
    BY DEF Claims, Op, ClaimsOf
  <2>2. [call EXCEPT ![c].next = call[c].next - 1] = Becomes(c, r)
    BY <1>1 DEF Becomes
  <2> HIDE DEF r, cl
  <2> QED BY <2>1, <2>2 DEF ReleaseClaim
<1>4. r \in CallStates(sc)
  <2> DEFINE n == h - 1
  <2>1. n \in Nat
    BY <1>1
  <2> HIDE DEF n
  <2>2. [call[c] EXCEPT !.next = n] \in CallStates(sc)
    BY <1>1, <2>1 DEF CallStates
  <2> QED BY <2>2 DEF n
<1>5. r.pc = call[c].pc /\ r.next = h - 1 /\ r.entry = call[c].entry /\ r.granted = call[c].granted
  BY <1>1 DEF CallStates
<1> HIDE DEF r
<1>6. /\ CallRight(sc, r, c) /\ (Counted(r) <=> Counted(call[c]))
      /\ ~Waits(r) /\ ~Waits(call[c]) /\ (Inside(call[c]) <=> Inside(r))
      /\ HeldOf(call[c]) = h /\ HeldOf(r) = h - 1
  <2>1. Len(ClaimsOf(sc, c)) \in Nat
    BY <1>1, ClaimsAre
  <2> QED BY <1>1, <1>4, <1>5, <2>1 DEF CallRight, Counted, Waits, Inside, HeldOf
<1>7. MoreShare(sc, c, r, call[c], s, cl.n)
  <2>1. HeldOf(call[c]) = HeldOf(r) + 1 /\ HeldOf(r) \in Nat
    BY <1>1, <1>6
  <2> QED BY <1>1, <1>4, <1>5, <1>6, <2>1, ShareOfClaim
<1> HIDE DEF s, cl
<1> QED BY <1>2, <1>3, <1>5, <1>6, <1>7, GiveKeeps

LEMMA UnlockKeeps ==
  ASSUME Inv, NEW c \in CallsOf(sc), Unlock(c)
  PROVE  Inv'
<1> DEFINE s == <<"key", call[c].entry>>
           r == [call[c] EXCEPT !.pc = "unref"]
<1>1. /\ call \in [CallsOf(sc) -> CallStates(sc)] /\ call[c] \in CallStates(sc) /\ CallRight(sc, call[c], c)
      /\ sc \in Scenarios /\ call[c].pc = "unlock" /\ call[c].entry /= 0 /\ call[c].entry \in CallsOf(sc)
      /\ s \in SemsOf(sc)
  BY CallIs DEF Unlock, pc, CallRight, CallStates, SemsOf
<1>2. GiveBack(s, 1, Becomes(c, r)) /\ UNCHANGED <<sc, accepting, wg, keys, refs, down>>
  <2>1. [call EXCEPT ![c].pc = "unref"] = Becomes(c, r)
    BY <1>1 DEF Becomes
  <2> HIDE DEF r
  <2> QED BY <2>1 DEF Unlock
<1>3. r \in CallStates(sc)
  BY <1>1 DEF CallStates, PC
<1>4. r.pc = "unref" /\ r.next = call[c].next /\ r.entry = call[c].entry /\ r.granted = call[c].granted
  BY <1>1 DEF CallStates
<1> HIDE DEF r
<1>5. /\ CallRight(sc, r, c) /\ (Counted(r) <=> Counted(call[c]))
      /\ ~Waits(r) /\ ~Waits(call[c]) /\ Inside(call[c]) /\ ~Inside(r)
      /\ HeldOf(call[c]) = HeldOf(r)
  BY <1>1, <1>3, <1>4 DEF CallRight, Counted, Waits, Inside, HeldOf
<1>6. MoreShare(sc, c, r, call[c], s, 1)
  BY <1>1, <1>3, <1>4, <1>5, ShareOfKey
<1> HIDE DEF s
<1> QED BY <1>1, <1>2, <1>4, <1>5, <1>6, GiveKeeps
-----------------------------------------------------------------------------
(* The entries of the keys: a call finds or makes one, a call leaves one.  *)
LEMMA EntrySems ==
  ASSUME Inv, NEW c \in CallsOf(sc), NEW r, CallRight(sc, r, c), HeldOf(r) = HeldOf(call[c]),
         ~Inside(r), ~Inside(call[c]), ~Waits(r), ~Waits(call[c])
  PROVE  SemsRight(sc, Becomes(c, r), sem)
<1> DEFINE g == Becomes(c, r)
<1>1. /\ Apart(sc, call, g, c) /\ g[c] = r /\ call[c] \in CallStates(sc) /\ r \in CallStates(sc)
      /\ sc \in Scenarios /\ SemsRight(sc, call, sem)
  BY BecomesIs DEF Inv
<1> HIDE DEF g
<1>2. SameShare(sc, c, call[c], r)
  BY <1>1, ShareKept
<1>3. \A s : Waiting(sc, g, s) = Waiting(sc, call, s)
  BY <1>1, WaitingKept
<1>4. SemsRight(sc, g, sem)
  BY <1>1, <1>2, <1>3, SemsKept
<1> QED BY <1>4 DEF g

Users(k, f, l) == {c \in CallsOf(k) : f[c].entry = l}

LEMMA FindEntryKeeps ==
  ASSUME Inv, NEW c \in CallsOf(sc), FindEntry(c)
  PROVE  Inv'
<1> DEFINE x == sc.calls[c].key
           l == IF keys[x] = 0 THEN c ELSE keys[x]
           r == [call[c] EXCEPT !.pc = "keySem", !.entry = l]
<1>1. /\ call \in [CallsOf(sc) -> CallStates(sc)] /\ call[c] \in CallStates(sc) /\ CallRight(sc, call[c], c)
      /\ sc \in Scenarios /\ call[c].pc = "key" /\ call[c].entry = 0 /\ ~call[c].granted
      /\ x \in KeysOf(sc)
  BY CallIs DEF FindEntry, pc, CallRight, CallStates
<1>2. /\ IsFiniteSet(CallsOf(sc)) /\ 0 \notin CallsOf(sc)
      /\ KeysRight(sc, call, keys, refs)
  BY <1>1, ScenarioIs DEF Inv
<1>3. /\ keys \in [KeysOf(sc) -> CallsOf(sc) \cup {0}] /\ refs \in [CallsOf(sc) -> Nat]
      /\ \A m \in CallsOf(sc) : refs[m] = Cardinality(Users(sc, call, m))
      /\ \A d \in CallsOf(sc) : call[d].entry /= 0 => /\ sc.calls[d].key \in KeysOf(sc)
                                                      /\ keys[sc.calls[d].key] = call[d].entry
      /\ \A y \in KeysOf(sc) : keys[y] /= 0 => refs[keys[y]] > 0 /\ sc.calls[keys[y]].key = y
  BY <1>2 DEF KeysRight, Users, Inv, CallsRight, CallRight
<1>4. l \in CallsOf(sc) /\ l /= 0
  BY <1>1, <1>2, <1>3
<1>5. /\ keys' = [keys EXCEPT ![x] = l] /\ refs' = [refs EXCEPT ![l] = refs[l] + 1]
      /\ call' = Becomes(c, r) /\ UNCHANGED <<sc, accepting, wg, sem, down>>
  BY <1>1 DEF FindEntry, Becomes
<1>6. r \in CallStates(sc) /\ r.pc = "keySem" /\ r.next = call[c].next /\ r.entry = l /\ ~r.granted
  BY <1>1, <1>4 DEF CallStates, PC
<1> HIDE DEF r
<1>7. /\ CallRight(sc, r, c) /\ (Counted(r) <=> Counted(call[c]))
      /\ ~Waits(r) /\ ~Waits(call[c]) /\ ~Inside(call[c]) /\ ~Inside(r) /\ HeldOf(call[c]) = HeldOf(r)
  BY <1>1, <1>4, <1>6 DEF CallRight, Counted, Waits, Inside, HeldOf
<1>8. /\ CallsRight(sc, call') /\ SemsRight(sc, call', sem) /\ DownRight(sc, call', accepting, wg, down)
      /\ call'[c] = r /\ \A d \in CallsOf(sc) : d /= c => call'[d] = call[d]
  BY <1>5, <1>7, BecomesIs, EntrySems, LocalDown
<1>9. KeysRight(sc, call', keys', refs')
  <2>1. /\ keys' \in [KeysOf(sc) -> CallsOf(sc) \cup {0}] /\ refs' \in [CallsOf(sc) -> Nat]
        /\ \A y \in KeysOf(sc) : keys'[y] = IF y = x THEN l ELSE keys[y]
        /\ \A m \in CallsOf(sc) : refs'[m] = IF m = l THEN refs[m] + 1 ELSE refs[m]
    BY <1>1, <1>3, <1>4, <1>5
  <2> HIDE DEF l
  <2>2. ASSUME NEW m \in CallsOf(sc) PROVE refs'[m] = Cardinality(Users(sc, call', m))
    <3>1. CASE m = l
      <4>1. Users(sc, call', l) = Users(sc, call, l) \cup {c} /\ c \notin Users(sc, call, l)
        BY <1>1, <1>4, <1>6, <1>8 DEF Users
      <4>2. IsFiniteSet(Users(sc, call, l))
        BY <1>2, FS_Subset DEF Users
      <4>3. Cardinality(Users(sc, call', l)) = Cardinality(Users(sc, call, l)) + 1
        BY <4>1, <4>2, FS_AddElement
      <4> QED BY <1>3, <2>1, <3>1, <4>3
    <3>2. CASE m /= l
      <4>1. Users(sc, call', m) = Users(sc, call, m)
        BY <1>1, <1>2, <1>6, <1>8, <3>2 DEF Users
      <4> QED BY <1>3, <2>1, <3>2, <4>1
    <3> QED BY <3>1, <3>2
  <2>3. ASSUME NEW d \in CallsOf(sc), call'[d].entry /= 0
        PROVE  keys'[sc.calls[d].key] = call'[d].entry
    <3>1. CASE d = c
      BY <1>1, <1>6, <1>8, <2>1, <3>1
    <3>2. CASE d /= c
      <4>1. keys[sc.calls[d].key] = call[d].entry /\ sc.calls[d].key \in KeysOf(sc) /\ call[d].entry /= 0
        BY <1>3, <1>8, <2>3, <3>2
      <4>2. sc.calls[d].key = x => l = call[d].entry
        BY <4>1 DEF l
      <4> QED BY <1>8, <2>1, <3>2, <4>1, <4>2
    <3> QED BY <3>1, <3>2
  <2>4. ASSUME NEW y \in KeysOf(sc), keys'[y] /= 0
        PROVE  refs'[keys'[y]] > 0 /\ sc.calls[keys'[y]].key = y
    <3>1. CASE y = x
      <4>1. keys'[y] = l /\ refs'[l] = refs[l] + 1 /\ refs[l] \in Nat
        BY <1>3, <1>4, <2>1, <3>1
      <4>2. sc.calls[l].key = x
        BY <1>1, <1>3 DEF l
      <4> QED BY <3>1, <4>1, <4>2
    <3>2. CASE y /= x
      <4>1. keys'[y] = keys[y] /\ keys[y] /= 0 /\ keys[y] \in CallsOf(sc)
        BY <1>3, <2>1, <2>4, <3>2
      <4>2. refs[keys[y]] > 0 /\ sc.calls[keys[y]].key = y /\ refs[keys[y]] \in Nat
        BY <1>3, <4>1
      <4>3. refs'[keys[y]] > 0
        BY <2>1, <4>1, <4>2
      <4> QED BY <4>1, <4>2, <4>3
    <3> QED BY <3>1, <3>2
  <2> QED BY <2>1, <2>2, <2>3, <2>4 DEF KeysRight, Users
<1> QED BY <1>5, <1>8, <1>9 DEF Inv

LEMMA UnrefKeeps ==
  ASSUME Inv, NEW c \in CallsOf(sc), KeyFailed(c) \/ Unlocked(c)
  PROVE  Inv'
<1> DEFINE x == sc.calls[c].key
           l == call[c].entry
           to == IF pc(c) = "keyGone" THEN "judge" ELSE "end"
           r == [call[c] EXCEPT !.pc = to, !.entry = 0]
<1>1. /\ call \in [CallsOf(sc) -> CallStates(sc)] /\ call[c] \in CallStates(sc) /\ CallRight(sc, call[c], c)
      /\ sc \in Scenarios /\ call[c].pc \in {"keyGone", "unref"} /\ l /= 0 /\ l \in CallsOf(sc)
      /\ ~call[c].granted /\ x \in KeysOf(sc)
  BY CallIs DEF KeyFailed, Unlocked, pc, CallRight, CallStates
<1>2. /\ IsFiniteSet(CallsOf(sc)) /\ 0 \notin CallsOf(sc)
      /\ KeysRight(sc, call, keys, refs)
  BY <1>1, ScenarioIs DEF Inv
<1>3. /\ keys \in [KeysOf(sc) -> CallsOf(sc) \cup {0}] /\ refs \in [CallsOf(sc) -> Nat]
      /\ \A m \in CallsOf(sc) : refs[m] = Cardinality(Users(sc, call, m))
      /\ \A d \in CallsOf(sc) : call[d].entry /= 0 => /\ sc.calls[d].key \in KeysOf(sc)
                                                      /\ keys[sc.calls[d].key] = call[d].entry
      /\ \A y \in KeysOf(sc) : keys[y] /= 0 => refs[keys[y]] > 0 /\ sc.calls[keys[y]].key = y
  BY <1>2 DEF KeysRight, Users, Inv, CallsRight, CallRight
<1>4. keys[x] = l
  BY <1>1, <1>3
<1>5. /\ keys' = IF refs[l] = 1 THEN [keys EXCEPT ![x] = 0] ELSE keys
      /\ refs' = [refs EXCEPT ![l] = refs[l] - 1]
      /\ call' = Becomes(c, r) /\ UNCHANGED <<sc, accepting, wg, sem, down>>
  <2>1. Unref(c, to)
    BY DEF KeyFailed, Unlocked
  <2>2. call' = [call EXCEPT ![c].pc = to, ![c].entry = 0]
    BY <2>1 DEF Unref
  <2>3. call' = Becomes(c, r)
    BY <1>1, <2>2 DEF Becomes
  <2> HIDE DEF r, to
  <2> QED BY <2>1, <2>3 DEF Unref
<1>6. r \in CallStates(sc) /\ r.pc \in {"judge", "end"} /\ r.next = call[c].next /\ r.entry = 0 /\ ~r.granted
  BY <1>1 DEF CallStates, PC
<1> HIDE DEF r
<1>7. /\ CallRight(sc, r, c) /\ (Counted(r) <=> Counted(call[c]))
      /\ ~Waits(r) /\ ~Waits(call[c]) /\ ~Inside(call[c]) /\ ~Inside(r) /\ HeldOf(call[c]) = HeldOf(r)
  BY <1>1, <1>6 DEF CallRight, Counted, Waits, Inside, HeldOf
<1>8. /\ CallsRight(sc, call') /\ SemsRight(sc, call', sem) /\ DownRight(sc, call', accepting, wg, down)
      /\ call'[c] = r /\ \A d \in CallsOf(sc) : d /= c => call'[d] = call[d]
  BY <1>5, <1>7, BecomesIs, EntrySems, LocalDown
<1>9. /\ Users(sc, call', l) = Users(sc, call, l) \ {c} /\ c \in Users(sc, call, l)
      /\ \A m \in CallsOf(sc) : m /= l => Users(sc, call', m) = Users(sc, call, m)
  BY <1>1, <1>2, <1>6, <1>8 DEF Users
<1>10. /\ IsFiniteSet(Users(sc, call, l)) /\ IsFiniteSet(Users(sc, call', l))
       /\ Cardinality(Users(sc, call', l)) = refs[l] - 1 /\ refs[l] - 1 \in Nat
  <2>1. IsFiniteSet(Users(sc, call, l)) /\ IsFiniteSet(Users(sc, call', l))
    BY <1>2, FS_Subset DEF Users
  <2>2. Cardinality(Users(sc, call', l)) = refs[l] - 1
    BY <1>1, <1>3, <1>9, <2>1, FS_RemoveElement
  <2> QED BY <2>1, <2>2, FS_CardinalityType
<1>11. KeysRight(sc, call', keys', refs')
  <2>1. /\ keys' \in [KeysOf(sc) -> CallsOf(sc) \cup {0}] /\ refs' \in [CallsOf(sc) -> Nat]
        /\ \A y \in KeysOf(sc) : keys'[y] = IF y = x /\ refs[l] = 1 THEN 0 ELSE keys[y]
        /\ \A m \in CallsOf(sc) : refs'[m] = IF m = l THEN refs[m] - 1 ELSE refs[m]
    BY <1>1, <1>3, <1>5, <1>10
  <2> HIDE DEF l
  <2>2. \A m \in CallsOf(sc) : refs'[m] = Cardinality(Users(sc, call', m))
    BY <1>3, <1>9, <1>10, <2>1
  <2>3. ASSUME NEW d \in CallsOf(sc), call'[d].entry /= 0
        PROVE  keys'[sc.calls[d].key] = call'[d].entry
    <3>1. d /= c /\ call'[d] = call[d]
      BY <1>6, <1>8, <2>3
    <3>2. keys[sc.calls[d].key] = call[d].entry /\ sc.calls[d].key \in KeysOf(sc)
      BY <1>3, <2>3, <3>1
    <3>3. ASSUME sc.calls[d].key = x, refs[l] = 1 PROVE FALSE
      <4>1. d \in Users(sc, call', l)
        BY <1>4, <3>1, <3>2, <3>3 DEF Users
      <4>2. Users(sc, call', l) = {}
        BY <1>10, <3>3, FS_EmptySet
      <4> QED BY <4>1, <4>2
    <3> QED BY <2>1, <3>1, <3>2, <3>3
  <2>4. ASSUME NEW y \in KeysOf(sc), keys'[y] /= 0
        PROVE  refs'[keys'[y]] > 0 /\ sc.calls[keys'[y]].key = y
    <3>1. keys'[y] = keys[y] /\ keys[y] /= 0 /\ keys[y] \in CallsOf(sc) /\ ~(y = x /\ refs[l] = 1)
      BY <1>3, <2>1, <2>4
    <3>2. refs[keys[y]] > 0 /\ sc.calls[keys[y]].key = y /\ refs[keys[y]] \in Nat
      BY <1>3, <3>1
    <3>3. CASE keys[y] = l
      <4>1. y = x
        BY <1>1, <1>3, <1>4, <3>2, <3>3
      <4>2. refs'[l] = refs[l] - 1 /\ refs[l] /= 1
        BY <1>1, <2>1, <3>1, <4>1 DEF l
      <4> QED BY <3>1, <3>2, <3>3, <4>2
    <3>4. CASE keys[y] /= l
      BY <2>1, <3>1, <3>2, <3>4
    <3> QED BY <3>3, <3>4
  <2> QED BY <2>1, <2>2, <2>3, <2>4 DEF KeysRight, Users
<1> QED BY <1>5, <1>8, <1>11 DEF Inv
-----------------------------------------------------------------------------
(* The gate: who is counted in the WaitGroup.                              *)
LEMMA BeginKeeps ==
  ASSUME Inv, NEW c \in CallsOf(sc), Begin(c)
  PROVE  Inv'
<1> DEFINE keyed == Op(c).keyed /\ sc.calls[c].key /= NoKey
           to == IF keyed THEN "key" ELSE "claims"
           in == [call[c] EXCEPT !.pc = to]
           res == [class |-> "stopping", outcome |-> Permanent]
           out == [call[c] EXCEPT !.pc = "returned", !.res = res]
<1>1. /\ call \in [CallsOf(sc) -> CallStates(sc)] /\ call[c] \in CallStates(sc) /\ CallRight(sc, call[c], c)
      /\ sc \in Scenarios /\ call[c].pc = "begin" /\ call[c].entry = 0 /\ ~call[c].granted
      /\ keyed => sc.calls[c].key \in KeysOf(sc)
  BY CallIs DEF Begin, pc, CallRight, CallStates, KeysOf
<1>2. in \in CallStates(sc) /\ in.pc = to /\ in.next = call[c].next /\ in.entry = 0 /\ ~in.granted
  BY <1>1 DEF CallStates, PC
<1>3. out \in CallStates(sc) /\ out.pc = "returned" /\ out.next = call[c].next /\ out.entry = 0 /\ ~out.granted
  <2>1. res \in Results
    BY DEF Results, Classes, Permanent
  <2> HIDE DEF res
  <2> QED BY <1>1, <2>1 DEF CallStates, PC
<1>4. CASE accepting
  <2>1. wg' = wg + 1 /\ call' = Becomes(c, in) /\ UNCHANGED <<sc, accepting, sem, keys, refs, down>>
    BY <1>1, <1>4 DEF Begin, Becomes, Goto
  <2> HIDE DEF in
  <2>2. CallRight(sc, in, c) /\ Alike(call[c], in) /\ ~Counted(call[c]) /\ Counted(in)
    BY <1>1, <1>2 DEF CallRight, Alike, HeldOf, Inside, Waits, Counted
  <2>3. CallsRight(sc, call') /\ SemsRight(sc, call', sem) /\ KeysRight(sc, call', keys, refs)
    BY <2>1, <2>2, LocalStep
  <2> DEFINE F == {x \in CallsOf(sc) : Counted(call[x])}
             G == {x \in CallsOf(sc) : Counted(call'[x])}
  <2>4. G = F \cup {c} /\ c \notin F
    BY <2>1, <2>2, BecomesIs
  <2>5. IsFiniteSet(F)
    BY <1>1, ScenarioIs, FS_Subset
  <2> HIDE DEF F, G
  <2>6. Cardinality(G) = Cardinality(F) + 1
    BY <2>4, <2>5, FS_AddElement
  <2>7. DownRight(sc, call', accepting, wg', down)
    BY <1>4, <2>1, <2>6 DEF DownRight, Inv, F, G
  <2> QED BY <2>1, <2>3, <2>7 DEF Inv
<1>5. CASE ~accepting
  <2>1. call' = Becomes(c, out) /\ UNCHANGED <<sc, accepting, wg, sem, keys, refs, down>>
    BY <1>1, <1>5 DEF Begin, Becomes
  <2> HIDE DEF out
  <2>2. CallRight(sc, out, c) /\ Alike(call[c], out) /\ (Counted(out) <=> Counted(call[c]))
    BY <1>1, <1>3 DEF CallRight, Alike, HeldOf, Inside, Waits, Counted
  <2> QED BY <2>1, <2>2, LocalKeeps
<1> QED BY <1>4, <1>5

LEMMA EndKeeps ==
  ASSUME Inv, NEW c \in CallsOf(sc), End(c)
  PROVE  Inv'
<1> DEFINE r == [call[c] EXCEPT !.pc = "ended"]
<1>1. /\ call \in [CallsOf(sc) -> CallStates(sc)] /\ call[c] \in CallStates(sc) /\ CallRight(sc, call[c], c)
      /\ sc \in Scenarios /\ call[c].pc = "end"
  BY CallIs DEF End, pc
<1>2. wg' = wg - 1 /\ call' = Becomes(c, r) /\ UNCHANGED <<sc, accepting, sem, keys, refs, down>>
  BY <1>1 DEF End, Becomes, Goto
<1>3. /\ r \in CallStates(sc) /\ r.pc = "ended" /\ r.next = call[c].next /\ r.entry = call[c].entry
      /\ r.granted = call[c].granted
  BY <1>1 DEF CallStates, PC
<1> HIDE DEF r
<1>4. CallRight(sc, r, c) /\ Alike(call[c], r) /\ Counted(call[c]) /\ ~Counted(r)
  BY <1>1, <1>3 DEF CallRight, Alike, HeldOf, Inside, Waits, Counted
<1>5. CallsRight(sc, call') /\ SemsRight(sc, call', sem) /\ KeysRight(sc, call', keys, refs)
  BY <1>2, <1>4, LocalStep
<1> DEFINE F == {x \in CallsOf(sc) : Counted(call[x])}
           G == {x \in CallsOf(sc) : Counted(call'[x])}
<1>6. G = F \ {c} /\ c \in F
  BY <1>2, <1>4, BecomesIs
<1>7. IsFiniteSet(F)
  BY <1>1, ScenarioIs, FS_Subset
<1>8. DownRight(sc, call, accepting, wg, down) /\ wg = Cardinality(F)
  BY DEF Inv, DownRight
<1> HIDE DEF F, G
<1>9. Cardinality(G) = wg - 1 /\ wg /= 0
  BY <1>6, <1>7, <1>8, FS_RemoveElement, FS_EmptySet
<1>10. DownRight(sc, call', accepting, wg', down)
  BY <1>2, <1>8, <1>9 DEF DownRight, G
<1> QED BY <1>2, <1>5, <1>10 DEF Inv

(* Shutdown.                                                               *)
LEMMA ShutdownKeeps ==
  ASSUME Inv, NEW i \in DOMAIN down, Shutdown(i)
  PROVE  Inv'
<1> DEFINE d == down[i]
<1>1. /\ accepting \in BOOLEAN /\ down \in Seq(Downs)
      /\ \A j \in DOMAIN down : /\ down[j].pc /= "lock" \/ down[j].class /= "none" => ~accepting
                                /\ down[j].pc = "drained" \/ down[j].class = "nil" => wg = 0
  BY DEF Inv, DownRight
<1>2. i \in 1..Len(down) /\ d \in Downs /\ DOMAIN down = 1..Len(down) /\ Len(down) \in Nat
  BY <1>1, LenProperties, ElementOfSeq
<1> DEFINE D == {e \in Downs : /\ e.pc /= "lock" \/ e.class /= "none" => ~accepting'
                               /\ e.pc = "drained" \/ e.class = "nil" => wg = 0}
<1>3. /\ \E e \in D : down' = [down EXCEPT ![i] = e]
      /\ UNCHANGED <<sc, wg, sem, keys, refs, call>>
      /\ accepting' \in {accepting, FALSE}
  <2>1. CASE Lock(i)
    <3> DEFINE e == [d EXCEPT !.pc = "wait"]
    <3>1. e \in Downs /\ e.pc = "wait" /\ e.class = d.class
      BY <1>2 DEF Downs
    <3>2. down' = [down EXCEPT ![i] = e] /\ accepting' = FALSE /\ UNCHANGED <<sc, wg, sem, keys, refs, call>>
      BY <1>2, <2>1 DEF Lock
    <3>3. e \in D
      BY <1>1, <1>2, <3>1, <3>2
    <3> QED BY <3>2, <3>3
  <2>2. CASE Drained(i)
    <3> DEFINE e == [d EXCEPT !.pc = "drained"]
    <3>1. e \in Downs /\ e.pc = "drained" /\ e.class = d.class /\ d.pc = "wait"
      BY <1>2, <2>2 DEF Downs, Drained
    <3>2. down' = [down EXCEPT ![i] = e] /\ wg = 0 /\ UNCHANGED <<sc, accepting, wg, sem, keys, refs, call>>
      BY <1>2, <2>2 DEF Drained, sharedVars
    <3>3. e \in D
      BY <1>1, <1>2, <3>1, <3>2
    <3> QED BY <3>2, <3>3
  <2>3. CASE Select(i)
    <3>1. PICK class \in {"nil", "canceled"} :
            /\ class = "nil" => d.pc = "drained"
            /\ down' = [down EXCEPT ![i].pc = "stats", ![i].class = class]
      BY <2>3 DEF Select
    <3>2. d.pc \in {"wait", "drained"} /\ UNCHANGED <<sc, accepting, wg, sem, keys, refs, call>>
      BY <2>3 DEF Select, sharedVars
    <3> DEFINE e == [d EXCEPT !.pc = "stats", !.class = class]
    <3>3. e \in Downs /\ e.pc = "stats" /\ e.class = class
      BY <1>2, <3>1 DEF Downs
    <3>4. down' = [down EXCEPT ![i] = e]
      BY <1>2, <3>1
    <3>5. e \in D
      BY <1>1, <1>2, <3>1, <3>2, <3>3
    <3> QED BY <3>2, <3>4, <3>5
  <2>4. CASE ReadStats(i)
    <3> DEFINE lag == d.class = "nil" /\ stats.finished < stats.admitted
               e == [d EXCEPT !.pc = "returned", !.lag = lag]
    <3>1. down' = [down EXCEPT ![i] = e] /\ d.pc = "stats" /\ UNCHANGED <<sc, accepting, wg, sem, keys, refs, call>>
      BY <1>2, <2>4 DEF ReadStats, sharedVars
    <3>2. lag \in BOOLEAN
      OBVIOUS
    <3> HIDE DEF lag
    <3>3. e \in Downs /\ e.pc = "returned" /\ e.class = d.class
      BY <1>2, <3>2 DEF Downs
    <3>4. e \in D
      BY <1>1, <1>2, <3>1, <3>3
    <3> QED BY <3>1, <3>4
  <2> QED BY <2>1, <2>2, <2>3, <2>4 DEF Shutdown
<1>4. PICK e \in D : down' = [down EXCEPT ![i] = e]
  BY <1>3
<1>5. /\ down' \in Seq(Downs) /\ DOMAIN down' = DOMAIN down
      /\ \A j \in DOMAIN down : down'[j] = IF j = i THEN e ELSE down[j]
  <2>1. [down EXCEPT ![i] = e] \in Seq(Downs)
    BY <1>1, <1>2, ExceptSeq
  <2> QED BY <1>2, <1>4, <2>1
<1>6. DownRight(sc, call, accepting', wg, down')
  <2>1. accepting' \in BOOLEAN /\ (~accepting => ~accepting')
    <3>1. accepting \in BOOLEAN
      BY <1>1
    <3>2. accepting' = accepting \/ accepting' = FALSE
      BY <1>3
    <3>3. CASE accepting' = accepting
      BY <3>1, <3>3
    <3>4. CASE accepting' = FALSE
      BY <3>4
    <3> QED BY <3>2, <3>3, <3>4
  <2>2. ASSUME NEW j \in DOMAIN down'
        PROVE  /\ down'[j].pc /= "lock" \/ down'[j].class /= "none" => ~accepting'
               /\ down'[j].pc = "drained" \/ down'[j].class = "nil" => wg = 0
    <3>1. CASE j = i
      BY <1>4, <1>5, <3>1
    <3>2. CASE j /= i
      BY <1>1, <1>5, <2>1, <3>2
    <3> QED BY <3>1, <3>2
  <2>3. wg = Cardinality({c \in CallsOf(sc) : Counted(call[c])})
    BY DEF Inv, DownRight
  <2> QED BY <1>5, <2>1, <2>2, <2>3 DEF DownRight
<1> QED BY <1>3, <1>6 DEF Inv

LEMMA DownMore ==
  ASSUME NEW k, NEW f, NEW a, NEW n, NEW d, DownRight(k, f, a, n, d), NEW expired \in BOOLEAN
  PROVE  DownRight(k, f, a, n, Append(d, [pc |-> "lock", expired |-> expired, class |-> "none", lag |-> FALSE]))
<1> DEFINE e == [pc |-> "lock", expired |-> expired, class |-> "none", lag |-> FALSE]
<1>1. e \in Downs /\ e.pc = "lock" /\ e.class = "none"
  BY DEF Downs
<1>2. d \in Seq(Downs)
  BY DEF DownRight
<1> HIDE DEF e
<1>3. /\ Append(d, e) \in Seq(Downs) /\ Len(d) \in Nat /\ DOMAIN d = 1..Len(d)
      /\ DOMAIN Append(d, e) = 1..(Len(d) + 1)
      /\ \A i \in 1..Len(d) : Append(d, e)[i] = d[i]
      /\ Append(d, e)[Len(d) + 1] = e
  BY <1>1, <1>2, AppendProperties, LenProperties
<1>4. \A i \in DOMAIN Append(d, e) : \/ i \in DOMAIN d /\ Append(d, e)[i] = d[i]
                                     \/ Append(d, e)[i] = e
  BY <1>3
<1>5. DownRight(k, f, a, n, Append(d, e))
  BY <1>1, <1>3, <1>4 DEF DownRight
<1> QED BY <1>5 DEF e

LEMMA StopsKeeps ==
  ASSUME Inv, NEW expired \in BOOLEAN, Stops(expired)
  PROVE  Inv'
<1>1. DownRight(sc, call, accepting, wg, down')
  BY DownMore DEF Inv, Stops, Down
<1> QED BY <1>1 DEF Inv, Stops, sharedVars

LEMMA ClosesKeeps ==
  ASSUME Inv, Closes
  PROVE  Inv'
<1> DEFINE r(c) == [call[c] EXCEPT !.released = TRUE]
<1>1. /\ sc \in Scenarios /\ call \in [CallsOf(sc) -> CallStates(sc)]
      /\ \A c \in CallsOf(sc) : CallRight(sc, call[c], c)
  BY DEF Inv, CallsRight
<1>2. /\ call' = [c \in CallsOf(sc) |-> r(c)] /\ UNCHANGED <<sc, accepting, wg, sem, keys, refs>>
      /\ down' = Append(down, [pc |-> "lock", expired |-> FALSE, class |-> "none", lag |-> FALSE])
  BY DEF Closes, Calls, CallsOf, sharedVars, Down
<1>3. \A c \in CallsOf(sc) : call'[c] = r(c)
  BY <1>2
<1>4. ASSUME NEW c \in CallsOf(sc)
      PROVE  /\ r(c) \in CallStates(sc) /\ r(c).pc = call[c].pc /\ r(c).next = call[c].next
             /\ r(c).entry = call[c].entry /\ r(c).granted = call[c].granted /\ r(c).n = call[c].n
  BY <1>1 DEF CallStates
<1> HIDE DEF r
<1>5. ASSUME NEW c \in CallsOf(sc)
      PROVE  /\ CallRight(sc, r(c), c) /\ (Waits(r(c)) <=> Waits(call[c]))
             /\ Wants(sc, r(c), c) = Wants(sc, call[c], c) /\ Needs(sc, r(c), c) = Needs(sc, call[c], c)
             /\ Counted(r(c)) <=> Counted(call[c])
             /\ SameShare(sc, c, call[c], r(c))
  <2>1. SameShare(sc, c, call[c], r(c))
    <3>1. HeldOf(r(c)) = HeldOf(call[c]) /\ (Inside(r(c)) <=> Inside(call[c]))
      BY <1>4 DEF HeldOf, Inside
    <3> QED BY <1>1, <1>4, <3>1, ShareKept
  <2>2. CallRight(sc, r(c), c)
    BY <1>1, <1>4 DEF CallRight
  <2> QED BY <1>4, <2>1, <2>2 DEF Waits, Wants, Needs, Counted
<1>6. CallsRight(sc, call')
  BY <1>2, <1>3, <1>4, <1>5 DEF CallsRight
<1>7. SemsRight(sc, call', sem)
  <2>1. \A s \in SemsOf(sc) : Used(sc, call', s) = Used(sc, call, s)
    <3>1. \A c \in CallsOf(sc) : \A s \in SemsOf(sc) : Share(sc, call'[c], c, s) = Share(sc, call[c], c, s)
      BY <1>3, <1>5 DEF SameShare
    <3> QED BY <3>1 DEF Used
  <2>2. \A s : Waiting(sc, call', s) = Waiting(sc, call, s)
    BY <1>3, <1>5 DEF Waiting
  <2>3. SemsRight(sc, call, sem) /\ sem \in [SemsOf(sc) -> [cur : Int, q : Seq(Item(sc))]]
    BY DEF Inv, SemsRight
  <2> QED BY <2>1, <2>2, <2>3, SemIs, SemsAre
<1>8. KeysRight(sc, call', keys, refs)
  <2>1. \A c \in CallsOf(sc) : call'[c].entry = call[c].entry
    BY <1>3, <1>4
  <2> QED BY <2>1, KeysKept DEF Inv
<1>9. DownRight(sc, call', accepting, wg, down')
  <2>1. \A c \in CallsOf(sc) : Counted(call'[c]) <=> Counted(call[c])
    BY <1>3, <1>5
  <2>2. DownRight(sc, call', accepting, wg, down)
    BY <2>1, DownKept DEF Inv
  <2> QED BY <1>2, <2>2, DownMore
<1> QED BY <1>2, <1>6, <1>7, <1>8, <1>9 DEF Inv
-----------------------------------------------------------------------------
LEMMA InitRight == Init => Inv
<1> SUFFICES ASSUME Init PROVE Inv
  OBVIOUS
<1>1. /\ sc \in Scenarios /\ accepting = TRUE /\ wg = 0 /\ down = <<>>
      /\ sem = [s \in SemsOf(sc) |-> [cur |-> 0, q |-> <<>>]]
      /\ keys = [x \in KeysOf(sc) |-> 0]
      /\ refs = [c \in CallsOf(sc) |-> 0]
      /\ call = [c \in CallsOf(sc) |-> Idle]
  BY DEF Init, Sems, SemsOf, Budgets, Calls, CallsOf, Key, KeysOf
<1>2. IsFiniteSet(CallsOf(sc)) /\ 0 \notin CallsOf(sc)
  BY <1>1, ScenarioIs
<1>3. /\ Idle.pc = "idle" /\ Idle.entry = 0 /\ Idle.next = 0 /\ ~Idle.granted /\ Idle \in CallStates(sc)
  <2>1. [class |-> "none", outcome |-> Success] \in Results
    BY DEF Results, Classes, Success
  <2> QED BY <2>1 DEF Idle, CallStates, PC, Classes
<1>4. \A c \in CallsOf(sc) : call[c] = Idle
  BY <1>1
<1>5. CallsRight(sc, call)
  <2>1. \A c \in CallsOf(sc) : CallRight(sc, Idle, c)
    BY <1>1, <1>3, ClaimsAre DEF CallRight
  <2> QED BY <1>1, <1>3, <1>4, <2>1 DEF CallsRight
<1>6. SemsRight(sc, call, sem)
  <2>1. <<>> \in Seq(Item(sc)) /\ DOMAIN (<<>>) = {}
    BY EmptySeq
  <2>2. sem \in [SemsOf(sc) -> [cur : Int, q : Seq(Item(sc))]]
    BY <1>1, <2>1
  <2>3. ASSUME NEW s \in SemsOf(sc)
        PROVE  /\ sem[s].cur = Used(sc, call, s) /\ sem[s].cur <= CapacityOf(sc, s)
               /\ Lists(Item(sc), sem[s].q, Waiting(sc, call, s))
    <3>1. sem[s].cur = 0 /\ sem[s].q = <<>>
      BY <1>1
    <3>2. \A c \in CallsOf(sc) : Share(sc, call[c], c, s) = 0
      <4> SUFFICES ASSUME NEW c \in CallsOf(sc) PROVE Share(sc, Idle, c, s) = 0
        BY <1>4
      <4>1. CASE s[1] = "key"
        BY <1>1, <1>3, <4>1, ShareIs DEF Inside
      <4>2. CASE s[1] /= "key"
        <5> DEFINE D == DOMAIN ClaimsOf(sc, c)
                   f == Granting(sc, c, HeldOf(Idle), s[2])
        <5>1. Share(sc, Idle, c, s) = SumFunction(f) /\ Summands(D, f)
          BY <1>1, <1>3, <4>2, ShareIs
        <5>2. \A i \in D : f[i] = 0
          <6>1. HeldOf(Idle) = 0 /\ \A i \in D : ~(i <= 0)
            BY <1>1, <1>3, ClaimsAre DEF HeldOf
          <6> QED BY <6>1 DEF Granting
        <5> HIDE DEF f, D
        <5> QED BY <5>1, <5>2, SumOfZeros DEF Summands
      <4> QED BY <4>1, <4>2
    <3>3. Used(sc, call, s) = 0
      <4> DEFINE F == [c \in CallsOf(sc) |-> Share(sc, call[c], c, s)]
      <4>1. F \in [CallsOf(sc) -> Int] /\ \A c \in CallsOf(sc) : F[c] = 0
        BY <3>2
      <4>2. Used(sc, call, s) = SumFunction(F)
        BY DEF Used
      <4> HIDE DEF F
      <4> QED BY <1>2, <4>1, <4>2, SumOfZeros
    <3>4. 0 <= CapacityOf(sc, s)
      BY <1>1, ScenarioIs DEF CapacityOf, SemsOf
    <3>5. Waiting(sc, call, s) = {}
      BY <1>3, <1>4 DEF Waiting, Waits
    <3>6. Lists(Item(sc), <<>>, {})
      BY <2>1 DEF Lists, IsInjective, ToSet
    <3> QED BY <3>1, <3>3, <3>4, <3>5, <3>6
  <2> QED BY <2>2, <2>3, SemsAre
<1>7. KeysRight(sc, call, keys, refs)
  <2>1. \A l \in CallsOf(sc) : {c \in CallsOf(sc) : call[c].entry = l} = {}
    BY <1>2, <1>3, <1>4
  <2>2. \A l \in CallsOf(sc) : refs[l] = 0 /\ Cardinality({c \in CallsOf(sc) : call[c].entry = l}) = 0
    BY <1>1, <2>1, FS_EmptySet
  <2> QED BY <1>1, <1>3, <1>4, <2>2 DEF KeysRight
<1>8. DownRight(sc, call, accepting, wg, down)
  <2>1. {c \in CallsOf(sc) : Counted(call[c])} = {}
    BY <1>3, <1>4 DEF Counted
  <2>2. Cardinality({c \in CallsOf(sc) : Counted(call[c])}) = 0
    BY <2>1, FS_EmptySet
  <2>3. down \in Seq(Downs) /\ DOMAIN down = {}
    BY <1>1, EmptySeq
  <2> QED BY <1>1, <2>2, <2>3 DEF DownRight
<1> QED BY <1>1, <1>5, <1>6, <1>7, <1>8 DEF Inv

LEMMA StepRight == Inv /\ [Runs \/ Callers]_vars => Inv'
<1> SUFFICES ASSUME Inv, [Runs \/ Callers]_vars PROVE Inv'
  OBVIOUS
<1>1. Calls = CallsOf(sc)
  BY DEF Calls, CallsOf
<1>2. CASE UNCHANGED vars
  BY <1>2 DEF Inv, vars, sharedVars
<1>3. ASSUME NEW c \in CallsOf(sc), Do(c) PROVE Inv'
  <2>1. CASE AcquiresKey(c)
    BY <2>1, FindEntryKeeps, AcquireKeyKeeps, AwaitKeyKeeps, UnrefKeeps DEF AcquiresKey
  <2>2. CASE AcquiresResources(c)
    BY <2>2, AcquireClaimKeeps, AwaitClaimKeeps, CountStartedKeeps DEF AcquiresResources
  <2>3. CASE Ends(c)
    BY <2>3, ReleaseClaimKeeps, ReleasedKeeps, JudgeKeeps, UnlockKeeps, UnrefKeeps, EndKeeps, ReturnKeeps DEF Ends
  <2>4. CASE Begin(c) \/ Watch(c) \/ Attempt(c) \/ Handle(c)
    BY <2>4, BeginKeeps, WatchKeeps, AttemptKeeps, HandleKeeps
  <2> QED BY <1>3, <2>1, <2>2, <2>3, <2>4 DEF Do
<1>4. CASE Runs
  BY <1>1, <1>3, <1>4, ShutdownKeeps DEF Runs
<1>5. CASE Callers
  BY <1>1, <1>5, CallerKeeps, StopsKeeps, ClosesKeeps DEF Callers
<1> QED BY <1>2, <1>4, <1>5

(* What the semaphores, the key entries and the WaitGroup say is what the  *)
(* calls have, at every step of the previous release, whatever its callers *)
(* do (operation.go, resource.go, keylock.go and runtime.go of lab/v02).   *)
THEOREM V02Inductive == V02Spec => []Inv
<1>1. Inv /\ [Runs \/ Callers]_vars => Inv'
  BY StepRight
<1> QED BY <1>1, InitRight, PTL DEF V02Spec

(* A budget is used for exactly what its calls hold or were just granted,  *)
(* and never beyond its size; a key entry is counted on by exactly the     *)
(* calls that use it, is in the map while one does, and lets one in.       *)
LEMMA InvExact == Inv => BudgetsAndKeysExact
<1> SUFFICES ASSUME Inv PROVE BudgetsAndKeysExact
  OBVIOUS
<1>1. /\ sc \in Scenarios /\ SemsRight(sc, call, sem) /\ KeysRight(sc, call, keys, refs)
      /\ CallsRight(sc, call)
  BY DEF Inv
<1>2. /\ Calls = CallsOf(sc) /\ Budgets = DOMAIN sc.size /\ Key = KeysOf(sc)
      /\ IsFiniteSet(CallsOf(sc)) /\ 0 \notin CallsOf(sc)
      /\ \A c \in CallsOf(sc) : call[c] \in CallStates(sc)
  BY <1>1, ScenarioIs DEF Calls, CallsOf, Budgets, Key, KeysOf, CallsRight
<1>3. ASSUME NEW b \in Budgets
      PROVE  LET s == sem[<<"budget", b>>]
             IN  s.cur = SumFunction([c \in Calls |-> UnitsOf(c, b)]) /\ s.cur <= sc.size[b]
  <2> DEFINE s == <<"budget", b>>
  <2>1. s \in SemsOf(sc) /\ s[1] = "budget" /\ s[2] = b
    BY <1>2 DEF SemsOf
  <2>2. \A c \in CallsOf(sc) : Share(sc, call[c], c, s) = UnitsOf(c, b)
    <3> SUFFICES ASSUME NEW c \in CallsOf(sc) PROVE Share(sc, call[c], c, s) = UnitsOf(c, b)
      OBVIOUS
    <3>1. Claims(c) = ClaimsOf(sc, c) /\ Held(c) = HeldOf(call[c])
      BY DEF Claims, ClaimsOf, Op, Held, HeldOf, pc
    <3> QED BY <2>1, <3>1 DEF Share, UnitsOf
  <2>3. CapacityOf(sc, s) = sc.size[b]
    BY <2>1 DEF CapacityOf
  <2> HIDE DEF s
  <2>4. sem[s].cur = Used(sc, call, s) /\ sem[s].cur <= CapacityOf(sc, s)
    BY <1>1, <2>1, SemIs
  <2>5. Used(sc, call, s) = SumFunction([c \in Calls |-> UnitsOf(c, b)])
    BY <1>2, <2>2 DEF Used
  <2> QED BY <2>3, <2>4, <2>5 DEF s
<1>4. ASSUME NEW l \in Calls
      PROVE  /\ refs[l] = Cardinality({c \in Calls : call[c].entry = l})
             /\ sem[<<"key", l>>].cur = Cardinality({c \in Calls : call[c].entry = l /\ InKey(c)})
             /\ sem[<<"key", l>>].cur <= 1
  <2> DEFINE s == <<"key", l>>
             D == {c \in CallsOf(sc) : call[c].entry = l /\ InKey(c)}
             F == [c \in CallsOf(sc) |-> Share(sc, call[c], c, s)]
  <2>1. s \in SemsOf(sc) /\ s[1] = "key" /\ s[2] = l
    BY <1>2 DEF SemsOf
  <2>2. CapacityOf(sc, s) = 1
    BY <2>1 DEF CapacityOf
  <2>3. \A c \in CallsOf(sc) : F[c] = IF c \in D THEN 1 ELSE 0
    <3> SUFFICES ASSUME NEW c \in CallsOf(sc) PROVE F[c] = IF c \in D THEN 1 ELSE 0
      OBVIOUS
    <3>1. InKey(c) <=> Inside(call[c])
      BY DEF InKey, UsesKey, Inside, pc
    <3>2. Share(sc, call[c], c, s) = IF call[c].entry = l /\ Inside(call[c]) THEN 1 ELSE 0
      BY <1>1, <1>2, <2>1, ShareIs
    <3> QED BY <3>1, <3>2
  <2>4. F \in [CallsOf(sc) -> Int] /\ D \in SUBSET CallsOf(sc)
    <3>1. \A c \in CallsOf(sc) : Share(sc, call[c], c, s) \in Int
      BY <1>1, <1>2, <2>1, ShareIs
    <3> QED BY <3>1
  <2>5. Used(sc, call, s) = SumFunction(F)
    BY DEF Used
  <2> HIDE DEF s, D, F
  <2>6. SumFunction(F) = Cardinality(D)
    BY <1>2, <2>3, <2>4, SumOfOnes
  <2>7. sem[s].cur = Used(sc, call, s) /\ sem[s].cur <= CapacityOf(sc, s)
    BY <1>1, <2>1, SemIs
  <2> QED BY <1>1, <1>2, <2>2, <2>5, <2>6, <2>7 DEF s, D, KeysRight
<1>5. \A c \in Calls : UsesKey(c) => keys[sc.calls[c].key] = call[c].entry
  BY <1>1, <1>2 DEF KeysRight, UsesKey
<1>6. \A k \in Key : keys[k] /= 0 => refs[keys[k]] > 0
  BY <1>1, <1>2 DEF KeysRight
<1> QED BY <1>3, <1>4, <1>5, <1>6 DEF BudgetsAndKeysExact

(* So they are at every step, whatever the callers do (operation.go *)
(* and keylock.go of lab/v02).                                             *)
THEOREM V02Exact == V02Spec => []BudgetsAndKeysExact
BY V02Inductive, InvExact, PTL

(* A Shutdown that returned nil leaves no call that may still run a        *)
(* handler, or holds a unit or a key (runtime.go of lab/v02).              *)
LEMMA InvAtRest == Inv => NilMeansAtRest
<1> SUFFICES ASSUME Inv, NEW i \in DOMAIN down, down[i].class = "nil", NEW c \in Calls
             PROVE  pc(c) \in {"idle", "begin", "ended", "returned"}
  BY DEF NilMeansAtRest
<1> DEFINE F == {x \in CallsOf(sc) : Counted(call[x])}
<1>1. Cardinality(F) = 0
  BY DEF Inv, DownRight
<1>2. IsFiniteSet(F)
  BY ScenarioIs, FS_Subset DEF Inv
<1> HIDE DEF F
<1>3. F = {}
  BY <1>1, <1>2, FS_EmptySet
<1>4. c \in CallsOf(sc) /\ ~Counted(call[c])
  BY <1>3 DEF F, Calls, CallsOf
<1> QED BY <1>4 DEF Counted, pc

(* So it is whenever Shutdown of lab/v02 has returned nil.                  *)
THEOREM V02NilMeansAtRest == V02Spec => []NilMeansAtRest
BY V02Inductive, InvAtRest, PTL
=============================================================================
