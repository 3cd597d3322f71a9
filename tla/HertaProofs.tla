---------------------------- MODULE HertaProofs ----------------------------
(***************************************************************************)
(* Theorems about Herta, for every finite set of callers, every set of     *)
(* budgets and keys, and every set of operations NewOperation accepts: its *)
(* invariants first, then that every step of a runtime is a step, or none, *)
(* of what the gate, the key space and each of the budgets promise.        *)
(* WatchedAssumption is used by the last of them only.                     *)
(***************************************************************************)
EXTENDS HertaSem, Lemmas

PC == {"idle", "lock", "keyWait", "claim", "claimWait", "handler", "release", "exit", "mark"}

TypeOK ==
  /\ stopping \in BOOLEAN
  /\ drained \in BOOLEAN
  /\ sd \in {"idle", "closing", "mark", "wait", "nil"}
  /\ used \in [Budgets -> Int]
  /\ q \in [Budgets -> Seq(Callers)]
  /\ closed \in SUBSET Budgets
  /\ holder \in [Key -> Callers \cup {None}]
  /\ kq \in [Key -> Seq(Callers)]
  /\ keysClosed \in BOOLEAN
  /\ pc \in [Callers -> PC]
  /\ op \in [Callers -> Ops \cup {None}]
  /\ key \in [Callers -> Key \cup {None}]
  /\ next \in [Callers -> Nat]
  /\ state \in [Callers -> {"none", "waiting", "granted", "withdrawn"}]
  /\ done \in [Callers -> BOOLEAN]
  /\ res \in [Callers -> {"none", "ctx", "overloaded", "stopping", "refused"}]

(* What a caller has where it is in Do.                                    *)
Calls == \A c \in Callers :
  /\ op[c] = None <=> pc[c] \in {"idle", "mark"}
  /\ op[c] = None => key[c] = None /\ ~done[c]
  /\ pc[c] \notin {"release", "exit"} => res[c] = "none"
  /\ pc[c] \in {"idle", "mark", "lock", "keyWait", "exit"} => next[c] = 0
  /\ pc[c] \in {"lock", "keyWait"} => key[c] \in Key
  /\ pc[c] \in {"keyWait", "claimWait"} => op[c].mode = "Wait"
  /\ state[c] /= "none" <=> pc[c] \in {"keyWait", "claimWait"}
  /\ op[c] /= None => next[c] <= Len(Claims[op[c]])
  /\ pc[c] = "claimWait" => next[c] < Len(Claims[op[c]])

(* How far Shutdown is, and what only it does.                             *)
Stopped ==
  /\ stopping <=> sd /= "idle"
  /\ drained => stopping /\ Live = {}
  /\ sd = "nil" => drained
  /\ closed /= {} => stopping
  /\ keysClosed <=> sd \in {"mark", "wait", "nil"}
  /\ \A c \in Callers : pc[c] = "mark" \/ state[c] = "withdrawn" => stopping

(* A refusal on its way to its error is of a Reject call, of a context that *)
(* has ended, or of a stopping runtime.                                    *)
Excused ==
  /\ \A c \in Callers : pc[c] = "release" /\ res[c] = "refused" =>
       op[c].mode = "Reject" \/ done[c] \/ stopping
  /\ StoppingJustified

(* Who holds a key and who waits for it.                                   *)
HoldsKey(c) == pc[c] \in {"claim", "claimWait", "handler", "release"}
               \/ (pc[c] = "keyWait" /\ state[c] = "granted")
KeyWaiters(k) ==
  {c \in Callers : pc[c] = "keyWait" /\ state[c] = "waiting" /\ key[c] = k}

KeysRight == \A k \in Key :
  /\ \A c \in Callers : holder[k] = c <=> key[c] = k /\ HoldsKey(c)
  /\ Lists(Callers, kq[k], KeyWaiters(k))
  /\ holder[k] = None => kq[k] = <<>>

(* Who waits for units of a budget.                                        *)
Waiters(r) ==
  {c \in Callers : pc[c] = "claimWait" /\ state[c] = "waiting" /\ Claim(c, next[c] + 1).r = r}

QueuesRight == \A r \in Budgets : Lists(Callers, q[r], Waiters(r))

Inv == TypeOK /\ Calls /\ Stopped /\ Excused /\ KeysRight /\ QueuesRight /\ BudgetsExact
-----------------------------------------------------------------------------
(* The claims of an operation are those listed, one per resource, none     *)
(* larger than the capacity: sorting exists, and loses nothing of that.    *)
LEMMA ClaimsAre ==
  ASSUME NEW o \in Ops
  PROVE  /\ Len(Claims[o]) \in Nat
         /\ \A i \in 1..Len(Claims[o]) :
              /\ Claims[o][i].r \in Budgets
              /\ \E j \in DOMAIN o.listed : o.listed[j] = Claims[o][i]
              /\ \A j \in 1..Len(Claims[o]) : Claims[o][i].r = Claims[o][j].r => i = j
<1> DEFINE n == Len(o.listed)
           S == ToSet(o.listed)
           rank == [cl \in S |-> cl.r]
           InOrder(s) == \A i, j \in DOMAIN o.listed : i < j => s[i].r < s[j].r
<1>1. o.listed \in Seq([r : Budgets, n : Nat \ {0}]) /\ n \in Nat /\ DOMAIN o.listed = 1..n
  BY OpsAssumption, LenProperties
<1>2. \A i \in 1..n : o.listed[i].r \in Budgets /\ o.listed[i].r \in Int
  <2>1. \A i \in 1..n : o.listed[i] \in [r : Budgets, n : Nat \ {0}]
    BY <1>1, ElementOfSeq
  <2> QED BY <2>1, BudgetsAssumption
<1>3. \A i, j \in 1..n : o.listed[i].r = o.listed[j].r => i = j
  BY <1>1, OpsAssumption
<1>4. IsFiniteSet(S) /\ Cardinality(S) = n
  <2>1. IsFiniteSet(1..n) /\ Cardinality(1..n) = n
    BY <1>1, FS_Interval
  <2>2. o.listed \in Bijection(1..n, S)
    <3>1. o.listed \in [1..n -> S] /\ \A cl \in S : \E i \in 1..n : o.listed[i] = cl
      BY <1>1 DEF ToSet
    <3>2. \A i, j \in 1..n : o.listed[i] = o.listed[j] => i = j
      BY <1>3
    <3> QED BY <3>1, <3>2 DEF Bijection, Injection, Surjection, IsInjective
  <2>3. ExistsBijection(1..n, S)
    BY <2>2 DEF ExistsBijection
  <2> QED BY <2>1, <2>3, FS_Bijection
<1>5. /\ rank \in [S -> Int]
      /\ \A x, y \in S : rank[x] = rank[y] => x = y
      /\ \A x \in S : rank[x] = x.r
  BY <1>1, <1>2, <1>3 DEF ToSet
<1> HIDE DEF rank
<1>6. PICK s : SortedBy(S, Cardinality(S), rank, s)
  BY <1>4, <1>5, SortedExists
<1>7. s \in [1..n -> S] /\ InOrder(s)
  BY <1>1, <1>4, <1>5, <1>6 DEF SortedBy
<1>8. Claims[o] = CHOOSE t \in [DOMAIN o.listed -> S] : InOrder(t)
  BY DEF Claims
<1> HIDE DEF InOrder, S
<1>9. Claims[o] \in [DOMAIN o.listed -> S] /\ InOrder(Claims[o])
  BY <1>1, <1>7, <1>8
<1>10. Claims[o] \in [1..n -> S] /\ Len(Claims[o]) = n
  BY <1>1, <1>9
<1>11. \A i \in 1..n : \E j \in DOMAIN o.listed : o.listed[j] = Claims[o][i]
  BY <1>10 DEF S, ToSet
<1>12. \A i, j \in 1..n : Claims[o][i].r = Claims[o][j].r => i = j
  <2>1. \A i, j \in 1..n : i < j => Claims[o][i].r < Claims[o][j].r
    BY <1>1, <1>9 DEF InOrder
  <2>2. \A i \in 1..n : Claims[o][i].r \in Int
    BY <1>1, <1>2, <1>11
  <2> QED BY <2>1, <2>2
<1> QED BY <1>1, <1>2, <1>10, <1>11, <1>12

(* What a call wants of a budget is the claim it has of it.                *)
LEMMA UnitsAre ==
  ASSUME NEW c, op[c] \in Ops, NEW i \in 1..Len(Claims[op[c]])
  PROVE  /\ Claim(c, i).r \in Budgets
         /\ UnitsOf(c, Claim(c, i).r) = Claim(c, i).n
         /\ Claim(c, i).n \in Nat \ {0}
         /\ Claim(c, i).n <= Size[Claim(c, i).r]
         /\ \A j \in 1..Len(Claims[op[c]]) : Claim(c, i).r = Claim(c, j).r => i = j
<1> DEFINE L == op[c].listed
           r == Claim(c, i).r
           m == CHOOSE m \in DOMAIN L : L[m].r = r
<1>1. /\ r \in Budgets
      /\ \A j \in 1..Len(Claims[op[c]]) : Claim(c, i).r = Claim(c, j).r => i = j
      /\ \E j \in DOMAIN L : L[j] = Claim(c, i)
  BY ClaimsAre DEF Claim
<1>2. PICK j \in DOMAIN L : L[j] = Claim(c, i)
  BY <1>1
<1>3. L \in Seq([r : Budgets, n : Nat \ {0}]) /\ DOMAIN L = 1..Len(L)
  BY OpsAssumption, LenProperties
<1>4. L[j] \in [r : Budgets, n : Nat \ {0}]
  BY <1>2, <1>3, ElementOfSeq
<1>5. L[j].n <= Size[L[j].r] /\ \A k \in DOMAIN L : L[j].r = L[k].r => j = k
  BY <1>2, OpsAssumption
<1>6. m = j
  BY <1>2, <1>5
<1>7. UnitsOf(c, r) = L[m].n
  BY DEF UnitsOf
<1> QED BY <1>1, <1>2, <1>4, <1>5, <1>6, <1>7

(* The recursive function of Demand is defined, for any list of callers    *)
(* that want units of the budget.                                          *)
Sums(s, r, D) == /\ D \in [0..Len(s) -> Nat]
                 /\ D[0] = 0
                 /\ \A i \in 1..Len(s) : D[i] = D[i-1] + UnitsOf(s[i], r)

LEMMA DemandSums ==
  ASSUME NEW s, Len(s) \in Nat, NEW r, \A i \in 1..Len(s) : UnitsOf(s[i], r) \in Nat
  PROVE  Sums(s, r, Demand(s, r))
<1> DEFINE n == Len(s)
           w == [i \in 1..n |-> UnitsOf(s[i], r)]
           P(f) == f = [k \in 0..n |-> IF k = 0 THEN 0 ELSE f[k-1] + UnitsOf(s[k], r)]
           D == CHOOSE f : P(f)
<1>1. Demand(s, r) = D
  BY DEF Demand
<1>2. ASSUME NEW f PROVE PrefixSum(n, w, f) <=> P(f)
  <2>1. \A k \in 0..n : k /= 0 => w[k] = UnitsOf(s[k], r)
    OBVIOUS
  <2> QED BY <2>1 DEF PrefixSum
<1>3. \E f : PrefixSum(n, w, f)
  BY PrefixSumExists
<1> HIDE DEF P
<1>4. P(D)
  BY <1>2, <1>3
<1>5. PrefixSum(n, w, D)
  BY <1>2, <1>4
<1>6. \A i \in 1..n : w[i] \in Nat /\ w[i] = UnitsOf(s[i], r)
  OBVIOUS
<1> HIDE DEF D, w, n
<1>7. /\ D \in [0..n -> Nat] /\ D[0] = 0
      /\ \A k \in 1..n : D[k] = D[k-1] + w[k]
  BY <1>5, <1>6, PrefixSumIs DEF n
<1> QED BY <1>1, <1>6, <1>7 DEF Sums, n

LEMMA CallTypes ==
  ASSUME Inv, NEW c \in Callers, op[c] /= None
  PROVE  /\ op[c] \in Ops
         /\ Len(Claims[op[c]]) \in Nat
         /\ next[c] \in 0..Len(Claims[op[c]])
         /\ pc[c] = "claimWait" => next[c] + 1 \in 1..Len(Claims[op[c]])
<1>1. op[c] \in Ops /\ next[c] \in Nat
  BY DEF Inv, TypeOK
<1>2. Len(Claims[op[c]]) \in Nat
  BY <1>1, ClaimsAre
<1> QED BY <1>1, <1>2 DEF Inv, Calls

(* What a call claims next, or waits for.                                  *)
Claiming(c) == \/ pc[c] = "claimWait"
               \/ pc[c] = "claim" /\ next[c] < Len(Claims[op[c]])

LEMMA NextClaim ==
  ASSUME Inv, NEW c \in Callers, Claiming(c)
  PROVE  /\ op[c] \in Ops
         /\ next[c] + 1 \in 1..Len(Claims[op[c]])
         /\ Claim(c, next[c] + 1).r \in Budgets
         /\ UnitsOf(c, Claim(c, next[c] + 1).r) = Claim(c, next[c] + 1).n
         /\ Claim(c, next[c] + 1).n \in Nat \ {0}
<1>1. op[c] /= None
  BY DEF Inv, Calls, Claiming
<1>2. op[c] \in Ops /\ next[c] + 1 \in 1..Len(Claims[op[c]])
  BY <1>1, CallTypes DEF Claiming
<1> QED BY <1>2, UnitsAre

LEMMA WaitersWant ==
  ASSUME Inv, NEW r, NEW c \in Waiters(r)
  PROVE  UnitsOf(c, r) \in Nat \ {0}
<1>1. c \in Callers /\ Claiming(c) /\ Claim(c, next[c] + 1).r = r
  BY DEF Waiters, Claiming
<1>2. /\ UnitsOf(c, Claim(c, next[c] + 1).r) = Claim(c, next[c] + 1).n
      /\ Claim(c, next[c] + 1).n \in Nat \ {0}
  BY <1>1, NextClaim
<1> QED BY <1>1, <1>2

(* Serving the head of a queue for as long as it fits: it leaves the units *)
(* in use below the capacity, and the callers it serves are the first of   *)
(* those queued.                                                           *)
Serves(r, u, s, st, k, D) ==
  /\ k \in 0..Len(s)
  /\ Sums(s, r, D)
  /\ u + D[k] <= Size[r]
  /\ used' = [used EXCEPT ![r] = u + D[k]]
  /\ q' = [q EXCEPT ![r] = SubSeq(s, k+1, Len(s))]
  /\ state' = [c \in Callers |-> IF \E i \in 1..k : s[i] = c THEN "granted" ELSE st[c]]

LEMMA GrantServes ==
  ASSUME Inv, NEW r \in Budgets, NEW u \in Int, u <= Size[r],
         NEW s, NEW W, Lists(Callers, s, W), W \subseteq Waiters(r),
         NEW st, Grant(r, u, s, st)
  PROVE  \E k, D : Serves(r, u, s, st, k, D)
<1> DEFINE D == Demand(s, r)
           F == {i \in 0..Len(s) : u + D[i] <= Size[r]}
           k == Max(F)
<1>1. s \in Seq(Callers) /\ Len(s) \in Nat /\ DOMAIN s = 1..Len(s)
  BY LenProperties DEF Lists
<1>2. \A i \in 1..Len(s) : UnitsOf(s[i], r) \in Nat
  <2>1. \A i \in 1..Len(s) : s[i] \in W
    BY <1>1 DEF Lists, ToSet
  <2> QED BY <2>1, WaitersWant
<1>3. Sums(s, r, D)
  BY <1>1, <1>2, DemandSums
<1>4. 0 \in F
  BY <1>1, <1>3 DEF Sums
<1>5. F \in SUBSET (0..Len(s)) /\ F /= {}
  BY <1>4
<1> HIDE DEF F, D
<1>6. k \in F
  BY <1>1, <1>5, MaxOfBounded
<1> HIDE DEF k
<1>7. k \in 0..Len(s) /\ u + D[k] <= Size[r]
  BY <1>6 DEF F
<1>8. /\ used' = [used EXCEPT ![r] = u + D[k]]
      /\ q' = [q EXCEPT ![r] = SubSeq(s, k+1, Len(s))]
      /\ state' = [c \in Callers |-> IF c \in ToSet(SubSeq(s, 1, k)) THEN "granted" ELSE st[c]]
  BY DEF Grant, k, F, D
<1>9. \A c : c \in ToSet(SubSeq(s, 1, k)) <=> \E i \in 1..k : s[i] = c
  <2>1. ASSUME NEW j \in 0..Len(s)
        PROVE  FrontOf(s, j)
    BY ONLY Lists(Callers, s, W), j \in 0..Len(s), ListsSplit
  <2>2. FrontOf(s, k)
    BY <1>7, <2>1
  <2> QED BY <2>2 DEF FrontOf
<1>10. state' = [c \in Callers |-> IF \E i \in 1..k : s[i] = c THEN "granted" ELSE st[c]]
  BY <1>8, <1>9
<1> QED BY <1>3, <1>7, <1>8, <1>10 DEF Serves

(* The same for the budget as a whole: it wakes a set of those that wait,  *)
(* queues the rest, and adds what it granted to the units in use.          *)
Wakes(r, u, W, st, T) ==
  /\ T \in SUBSET W
  /\ state' = [c \in Callers |-> IF c \in T THEN "granted" ELSE st[c]]
  /\ \A b \in Budgets : b /= r => q'[b] = q[b] /\ used'[b] = used[b]
  /\ q' \in [Budgets -> Seq(Callers)]
  /\ used' \in [Budgets -> Int]
  /\ Lists(Callers, q'[r], W \ T)
  /\ used'[r] <= Size[r]
  /\ \A f \in [Callers -> Int] :
       SumFunction(f) = u =>
         used'[r] = SumFunction([c \in Callers |-> f[c] + IF c \in T THEN UnitsOf(c, r) ELSE 0])

LEMMA GrantWakes ==
  ASSUME Inv, NEW r \in Budgets, NEW u \in Int, u <= Size[r],
         NEW s, NEW W, Lists(Callers, s, W), W \subseteq Waiters(r),
         NEW st, Grant(r, u, s, st)
  PROVE  \E T : Wakes(r, u, W, st, T)
<1>1. PICK k, D : Serves(r, u, s, st, k, D)
  BY GrantServes
<1> DEFINE T == ToSet(SubSeq(s, 1, k))
           R == SubSeq(s, k+1, Len(s))
           w == [c \in Callers |-> IF c \in W THEN UnitsOf(c, r) ELSE 0]
           n == Len(s)
<1>2. /\ s \in [1..n -> Callers] /\ n \in Nat
      /\ \A i, j \in 1..n : s[i] = s[j] => i = j
      /\ \A i \in 1..n : s[i] \in W
  <2>1. s \in Seq(Callers) /\ IsInjective(s) /\ ToSet(s) = W
    BY DEF Lists
  <2>2. n \in Nat /\ DOMAIN s = 1..n /\ s \in [1..n -> Callers]
    BY <2>1, LenProperties
  <2> QED BY <2>1, <2>2 DEF IsInjective, ToSet
<1>3. /\ k \in 0..n
      /\ D \in [0..n -> Nat] /\ D[0] = 0
      /\ \A i \in 1..n : D[i] = D[i-1] + UnitsOf(s[i], r)
      /\ u + D[k] <= Size[r]
      /\ used' = [used EXCEPT ![r] = u + D[k]]
      /\ q' = [q EXCEPT ![r] = R]
      /\ state' = [c \in Callers |-> IF \E i \in 1..k : s[i] = c THEN "granted" ELSE st[c]]
  BY <1>1 DEF Serves, Sums
<1>4. /\ \A c : c \in T <=> \E i \in 1..k : s[i] = c
      /\ T \subseteq W
      /\ Lists(Callers, R, W \ T)
  <2>1. ASSUME NEW j \in 0..Len(s)
        PROVE  /\ FrontOf(s, j)
               /\ ToSet(SubSeq(s, 1, j)) \subseteq W
               /\ Lists(Callers, SubSeq(s, j+1, Len(s)), W \ ToSet(SubSeq(s, 1, j)))
    BY ONLY Lists(Callers, s, W), j \in 0..Len(s), ListsSplit
  <2>2. /\ FrontOf(s, k)
        /\ T \subseteq W
        /\ Lists(Callers, R, W \ T)
    BY <1>3, <2>1
  <2> QED BY <2>2 DEF FrontOf
<1> HIDE DEF T, R, n
<1>5. R \in Seq(Callers)
  BY <1>4 DEF Lists
<1>6. w \in [Callers -> Nat]
  BY WaitersWant
<1>7. \A i \in 1..n : D[i] = D[i-1] + w[s[i]]
  BY <1>2, <1>3
<1> HIDE DEF w
<1>8. ASSUME NEW f \in [Callers -> Int], SumFunction(f) = u
      PROVE  used'[r] = SumFunction([c \in Callers |-> f[c] + IF c \in T THEN UnitsOf(c, r) ELSE 0])
  <2>1. SumFunction(FirstAdded(Callers, f, w, s, k)) = SumFunction(f) + D[k]
    <3>1. Summands(Callers, f)
      BY CallersAssumption DEF Summands
    <3>2. Weighs(Callers, w, n, s, D)
      BY <1>2, <1>3, <1>6, <1>7 DEF Weighs
    <3>3. k \in 0..n
      BY <1>3
    <3> QED BY ONLY <3>1, <3>2, <3>3, SumOfPrefix
  <2>2. FirstAdded(Callers, f, w, s, k)
          = [c \in Callers |-> f[c] + IF c \in T THEN UnitsOf(c, r) ELSE 0]
    BY <1>4 DEF FirstAdded, w
  <2>3. used'[r] = u + D[k]
    BY <1>3 DEF Inv, TypeOK
  <2> QED BY <1>8, <2>1, <2>2, <2>3
<1>9. state' = [c \in Callers |-> IF c \in T THEN "granted" ELSE st[c]]
  BY <1>3, <1>4
<1>10. q' \in [Budgets -> Seq(Callers)] /\ q'[r] = R
  BY <1>3, <1>5 DEF Inv, TypeOK
<1>11. /\ used' \in [Budgets -> Int] /\ used'[r] <= Size[r]
       /\ \A b \in Budgets : b /= r => q'[b] = q[b] /\ used'[b] = used[b]
  <2>1. u + D[k] \in Int
    BY <1>2, <1>3
  <2> QED BY <1>3, <2>1 DEF Inv, TypeOK
<1>12. Wakes(r, u, W, st, T)
  BY <1>4, <1>8, <1>9, <1>10, <1>11 DEF Wakes
<1> QED BY <1>12

(* The key passes to the head of its queue, or is free.                    *)
Passes(k, st, w) ==
  /\ w \in KeyWaiters(k)
  /\ state' = [st EXCEPT ![w] = "granted"]
  /\ holder' = [holder EXCEPT ![k] = w]
  /\ kq' = [kq EXCEPT ![k] = kq'[k]]
  /\ Lists(Callers, kq'[k], KeyWaiters(k) \ {w})

LEMMA HandOffPasses ==
  ASSUME Inv, NEW k \in Key, NEW st, HandOff(k, st)
  PROVE  \/ /\ KeyWaiters(k) = {} /\ kq[k] = <<>>
            /\ holder' = [holder EXCEPT ![k] = None]
            /\ state' = st /\ kq' = kq
         \/ \E w : Passes(k, st, w)
<1>1. Lists(Callers, kq[k], KeyWaiters(k)) /\ kq \in [Key -> Seq(Callers)]
  BY DEF Inv, TypeOK, KeysRight
<1>2. CASE kq[k] = <<>>
  <2>1. KeyWaiters(k) = ToSet(kq[k])
    BY <1>1 DEF Lists
  <2>2. KeyWaiters(k) = {}
    BY <1>2, <2>1 DEF ToSet
  <2> QED BY <1>2, <2>2 DEF HandOff
<1>3. CASE kq[k] /= <<>>
  <2> DEFINE w == Head(kq[k])
  <2>1. w \in KeyWaiters(k) /\ Lists(Callers, Tail(kq[k]), KeyWaiters(k) \ {w})
    BY ONLY <1>1, <1>3, ListsTail
  <2>2. /\ holder' = [holder EXCEPT ![k] = w]
        /\ state' = [st EXCEPT ![w] = "granted"]
        /\ kq' = [kq EXCEPT ![k] = Tail(kq[k])]
    BY <1>3 DEF HandOff
  <2>3. kq'[k] = Tail(kq[k])
    BY <1>1, <2>2
  <2> QED BY <2>1, <2>2, <2>3 DEF Passes
<1> QED BY <1>2, <1>3
-----------------------------------------------------------------------------
(* What the actions that serve a queue do, in these terms.                 *)
LEMMA UnitsInUse ==
  ASSUME Inv, NEW r \in Budgets
  PROVE  used[r] \in Int /\ Size[r] \in Int /\ used[r] <= Size[r]
<1>1. used[r] \in Int
  BY DEF Inv, TypeOK
<1>2. Size[r] \in Int
  BY BudgetsAssumption
<1>3. used[r] <= Size[r]
  BY DEF Inv, BudgetsExact
<1> QED BY <1>1, <1>2, <1>3

LEMMA ReleaseWakes ==
  ASSUME Inv, NEW c \in Callers, ReleaseUnits(c)
  PROVE  /\ op[c] \in Ops /\ next[c] \in 1..Len(Claims[op[c]])
         /\ Claim(c, next[c]).r \in Budgets
         /\ \E T : Wakes(Claim(c, next[c]).r, used[Claim(c, next[c]).r] - Claim(c, next[c]).n,
                         Waiters(Claim(c, next[c]).r), state, T)
<1> DEFINE r == Claim(c, next[c]).r
           n == Claim(c, next[c]).n
<1>1. op[c] /= None /\ next[c] > 0
  BY DEF Inv, Calls, ReleaseUnits
<1>2. op[c] \in Ops /\ next[c] \in 1..Len(Claims[op[c]])
  BY <1>1, CallTypes
<1>3. r \in Budgets /\ n \in Nat
  BY <1>2, UnitsAre
<1>4. Grant(r, used[r] - n, q[r], state)
  BY DEF ReleaseUnits
<1>5. Lists(Callers, q[r], Waiters(r))
  BY <1>3 DEF Inv, QueuesRight
<1>6. used[r] - n \in Int /\ used[r] - n <= Size[r]
  BY <1>3, UnitsInUse
<1> HIDE DEF r, n
<1>7. \E T : Wakes(r, used[r] - n, Waiters(r), state, T)
  BY <1>3, <1>4, <1>5, <1>6, GrantWakes
<1> QED BY <1>2, <1>3, <1>7 DEF r, n

(* A waiter that gives up: it leaves from behind the head, or the waiters  *)
(* behind it are served, with what was on its way back in the budget.      *)
GivesUp(c, r) ==
  \/ /\ state[c] = "waiting"
     /\ state' = Forget(c) /\ used' = used
     /\ q' \in [Budgets -> Seq(Callers)]
     /\ \A b \in Budgets : b /= r => q'[b] = q[b]
     /\ Lists(Callers, q'[r], Waiters(r) \ {c})
  \/ /\ state[c] = "waiting"
     /\ \E T : Wakes(r, used[r], Waiters(r) \ {c}, Forget(c), T)
  \/ /\ state[c] = "granted"
     /\ \E T : Wakes(r, used[r] - Claim(c, next[c] + 1).n, Waiters(r) \ {c}, Forget(c), T)
  \/ /\ state[c] = "withdrawn"
     /\ state' = Forget(c) /\ used' = used /\ q' = q

LEMMA GivingUp ==
  ASSUME Inv, NEW c \in Callers, UnitsGivenUp(c)
  PROVE  /\ op[c] \in Ops /\ next[c] + 1 \in 1..Len(Claims[op[c]])
         /\ Claim(c, next[c] + 1).r \in Budgets
         /\ GivesUp(c, Claim(c, next[c] + 1).r)
<1> DEFINE r == Claim(c, next[c] + 1).r
           n == Claim(c, next[c] + 1).n
<1>1. /\ op[c] \in Ops /\ next[c] + 1 \in 1..Len(Claims[op[c]])
      /\ r \in Budgets /\ n \in Nat
  <2>1. Claiming(c)
    BY DEF UnitsGivenUp, Claiming
  <2> QED BY <2>1, NextClaim
<1>2. Lists(Callers, q[r], Waiters(r)) /\ q \in [Budgets -> Seq(Callers)]
  BY <1>1 DEF Inv, TypeOK, QueuesRight
<1>3. \/ state[c] = "waiting" /\ LeaveQueue(c, r)
      \/ state[c] = "granted" /\ Grant(r, used[r] - n, q[r], Forget(c))
      \/ state[c] = "withdrawn" /\ state' = Forget(c) /\ UNCHANGED <<used, q>>
  BY DEF UnitsGivenUp
<1>4. used[r] \in Int /\ used[r] <= Size[r] /\ used[r] - n \in Int /\ used[r] - n <= Size[r]
  BY <1>1, UnitsInUse
<1> HIDE DEF r
<1> SUFFICES GivesUp(c, r)
  BY <1>1 DEF r
<1> HIDE DEF n
<1>5. CASE state[c] = "waiting" /\ LeaveQueue(c, r)
  <2>1. PICK i \in DOMAIN q[r] :
          /\ q[r][i] = c
          /\ IF i = 1 THEN Grant(r, used[r], Tail(q[r]), Forget(c))
             ELSE q' = [q EXCEPT ![r] = RemoveAt(q[r], i)] /\ state' = Forget(c) /\ UNCHANGED used
    BY <1>5 DEF LeaveQueue
  <2>2. CASE i = 1
    <3>1. q[r] /= <<>> /\ Head(q[r]) = c
      BY <1>2, <2>1, <2>2, EmptySeq DEF Lists
    <3>2. Lists(Callers, Tail(q[r]), Waiters(r) \ {c})
      BY ONLY <1>2, <3>1, ListsTail
    <3>3. Grant(r, used[r], Tail(q[r]), Forget(c))
      BY <2>1, <2>2
    <3>4. \E T : Wakes(r, used[r], Waiters(r) \ {c}, Forget(c), T)
      BY <1>1, <1>4, <3>2, <3>3, GrantWakes
    <3> QED BY <1>5, <3>4 DEF GivesUp
  <2>3. CASE i /= 1
    <3>1. Lists(Callers, RemoveAt(q[r], i), Waiters(r) \ {c})
      BY ONLY <1>2, <2>1, ListsRemove
    <3>2. q' = [q EXCEPT ![r] = RemoveAt(q[r], i)] /\ state' = Forget(c) /\ used' = used
      BY <2>1, <2>3
    <3>3. /\ q' \in [Budgets -> Seq(Callers)]
          /\ \A b \in Budgets : b /= r => q'[b] = q[b]
          /\ q'[r] = RemoveAt(q[r], i)
      BY <1>1, <1>2, <3>1, <3>2 DEF Lists
    <3> QED BY <1>5, <3>1, <3>2, <3>3 DEF GivesUp
  <2> QED BY <2>2, <2>3
<1>6. CASE state[c] = "granted" /\ Grant(r, used[r] - n, q[r], Forget(c))
  <2>1. Waiters(r) \ {c} = Waiters(r)
    BY <1>6 DEF Waiters
  <2>2. \E T : Wakes(r, used[r] - n, Waiters(r) \ {c}, Forget(c), T)
    BY <1>1, <1>2, <1>4, <1>6, <2>1, GrantWakes
  <2> QED BY <1>6, <2>2 DEF GivesUp, n, r
<1>7. CASE state[c] = "withdrawn" /\ state' = Forget(c) /\ UNCHANGED <<used, q>>
  BY <1>7 DEF GivesUp
<1> QED BY <1>3, <1>5, <1>6, <1>7

GivesUpKey(c, k) ==
  \/ /\ state[c] = "waiting"
     /\ state' = Forget(c) /\ holder' = holder
     /\ kq' \in [Key -> Seq(Callers)]
     /\ \A b \in Key : b /= k => kq'[b] = kq[b]
     /\ Lists(Callers, kq'[k], KeyWaiters(k) \ {c})
  \/ /\ state[c] = "granted"
     /\ KeyWaiters(k) = {} /\ kq[k] = <<>>
     /\ holder' = [holder EXCEPT ![k] = None]
     /\ state' = Forget(c) /\ kq' = kq
  \/ /\ state[c] = "granted"
     /\ \E w : Passes(k, Forget(c), w)
  \/ /\ state[c] = "withdrawn"
     /\ state' = Forget(c) /\ holder' = holder /\ kq' = kq

LEMMA GivingUpKey ==
  ASSUME Inv, NEW c \in Callers, KeyGivenUp(c)
  PROVE  key[c] \in Key /\ keysClosed' = keysClosed /\ GivesUpKey(c, key[c])
<1> DEFINE k == key[c]
<1>1. k \in Key
  BY DEF Inv, Calls, KeyGivenUp
<1>2. Lists(Callers, kq[k], KeyWaiters(k)) /\ kq \in [Key -> Seq(Callers)]
  BY <1>1 DEF Inv, TypeOK, KeysRight
<1>3. \/ /\ state[c] = "waiting"
         /\ \E i \in DOMAIN kq[k] : kq[k][i] = c /\ kq' = [kq EXCEPT ![k] = RemoveAt(kq[k], i)]
         /\ state' = Forget(c) /\ holder' = holder
      \/ state[c] = "granted" /\ HandOff(k, Forget(c))
      \/ state[c] = "withdrawn" /\ state' = Forget(c) /\ holder' = holder /\ kq' = kq
  BY DEF KeyGivenUp, keyVars
<1>4. keysClosed' = keysClosed
  BY DEF KeyGivenUp, keyVars, HandOff
<1> HIDE DEF k
<1> SUFFICES GivesUpKey(c, k)
  BY <1>1, <1>4 DEF k
<1>5. CASE /\ state[c] = "waiting"
           /\ \E i \in DOMAIN kq[k] : kq[k][i] = c /\ kq' = [kq EXCEPT ![k] = RemoveAt(kq[k], i)]
           /\ state' = Forget(c) /\ holder' = holder
  <2>1. PICK i \in DOMAIN kq[k] : kq[k][i] = c /\ kq' = [kq EXCEPT ![k] = RemoveAt(kq[k], i)]
    BY <1>5
  <2>2. Lists(Callers, RemoveAt(kq[k], i), KeyWaiters(k) \ {c})
    BY ONLY <1>2, <2>1, ListsRemove
  <2>3. /\ kq' \in [Key -> Seq(Callers)] /\ kq'[k] = RemoveAt(kq[k], i)
        /\ \A b \in Key : b /= k => kq'[b] = kq[b]
    BY <1>1, <1>2, <2>1, <2>2 DEF Lists
  <2> QED BY <1>5, <2>2, <2>3 DEF GivesUpKey
<1>6. CASE state[c] = "granted" /\ HandOff(k, Forget(c))
  BY <1>1, <1>6, HandOffPasses DEF GivesUpKey
<1>7. CASE state[c] = "withdrawn" /\ state' = Forget(c) /\ holder' = holder /\ kq' = kq
  BY <1>7 DEF GivesUpKey
<1> QED BY <1>3, <1>5, <1>6, <1>7
-----------------------------------------------------------------------------
LEMMA WakesTypes ==
  ASSUME NEW r, NEW u, NEW W \in SUBSET Callers, NEW T, NEW st, Wakes(r, u, W, st, T),
         st \in [Callers -> {"none", "waiting", "granted", "withdrawn"}]
  PROVE  /\ state' \in [Callers -> {"none", "waiting", "granted", "withdrawn"}]
         /\ used' \in [Budgets -> Int] /\ q' \in [Budgets -> Seq(Callers)]
BY DEF Wakes

LEMMA PassesTypes ==
  ASSUME TypeOK, NEW k \in Key, NEW st, NEW w, Passes(k, st, w),
         st \in [Callers -> {"none", "waiting", "granted", "withdrawn"}]
  PROVE  /\ state' \in [Callers -> {"none", "waiting", "granted", "withdrawn"}]
         /\ holder' \in [Key -> Callers \cup {None}] /\ kq' \in [Key -> Seq(Callers)]
<1>1. w \in Callers
  BY DEF Passes, KeyWaiters
<1>2. kq'[k] \in Seq(Callers)
  BY DEF Passes, Lists
<1>3. state' = [st EXCEPT ![w] = "granted"] /\ holder' = [holder EXCEPT ![k] = w]
  BY DEF Passes
<1>4. kq' = [kq EXCEPT ![k] = kq'[k]]
  BY DEF Passes
<1>5. kq' \in [Key -> Seq(Callers)]
  BY <1>2, <1>4 DEF TypeOK
<1> QED BY <1>1, <1>3, <1>5 DEF TypeOK

LEMMA DoKeepsTypes ==
  ASSUME Inv, NEW c \in Callers, Do(c)
  PROVE  TypeOK'
<1> DEFINE States == {"none", "waiting", "granted", "withdrawn"}
<1>1. TypeOK
  BY DEF Inv
<1>2. state \in [Callers -> States] /\ Forget(c) \in [Callers -> States]
  BY <1>1 DEF TypeOK, Forget
<1>3. CASE Enter(c)
  <2>1. PICK o \in Ops, d \in BOOLEAN : \E k \in o.keys :
          /\ op' = [op EXCEPT ![c] = o]
          /\ key' = [key EXCEPT ![c] = k]
          /\ done' = [done EXCEPT ![c] = d]
          /\ IF d /\ (k /= None \/ o.mode = "Wait")
             THEN Goto(c, "exit") /\ res' = [res EXCEPT ![c] = "ctx"]
             ELSE Goto(c, IF k /= None THEN "lock" ELSE "claim") /\ UNCHANGED res
    BY <1>3 DEF Enter
  <2>2. o.keys \subseteq Key \cup {None}
    BY OpsAssumption
  <2>3. op' \in [Callers -> Ops \cup {None}] /\ key' \in [Callers -> Key \cup {None}]
    BY <1>1, <2>1, <2>2 DEF TypeOK
  <2>4. done' \in [Callers -> BOOLEAN]
    BY <1>1, <2>1 DEF TypeOK
  <2>5. pc' \in [Callers -> PC]
        /\ res' \in [Callers -> {"none", "ctx", "overloaded", "stopping", "refused"}]
    BY <1>1, <2>1, ZenonT(30) DEF TypeOK, Goto, PC
  <2> QED BY <1>1, <1>3, <2>3, <2>4, <2>5 DEF TypeOK, Enter, gateVars, budgetVars, keyVars
<1>4. CASE CtxEnds(c)
  <2>1. done' \in [Callers -> BOOLEAN]
    BY <1>1, <1>4 DEF TypeOK, CtxEnds
  <2> QED BY <1>1, <1>4, <2>1
          DEF TypeOK, CtxEnds, gateVars, budgetVars, keyVars, callVars
<1>5. CASE LockFree(c)
  <2>1. holder' \in [Key -> Callers \cup {None}]
    BY <1>1, <1>5 DEF TypeOK, LockFree
  <2>2. pc' \in [Callers -> PC]
    BY <1>1, <1>5 DEF TypeOK, LockFree, Goto, PC
  <2> QED BY <1>1, <1>5, <2>1, <2>2 DEF TypeOK, LockFree, gateVars, budgetVars, callVars
<1>6. ASSUME Fail(c)
      PROVE  /\ pc' \in [Callers -> PC]
             /\ res' \in [Callers -> {"none", "ctx", "overloaded", "stopping", "refused"}]
  BY <1>1, <1>6 DEF TypeOK, Fail, Refused, Goto, PC
<1>7. CASE LockHeld(c)
  <2>1. /\ pc' \in [Callers -> PC]
        /\ res' \in [Callers -> {"none", "ctx", "overloaded", "stopping", "refused"}]
        /\ state' \in [Callers -> States]
    BY <1>1, <1>6, <1>7 DEF TypeOK, LockHeld, Goto, PC
  <2>2. kq' \in [Key -> Seq(Callers)]
    <3>1. kq' = kq \/ kq' = [kq EXCEPT ![key[c]] = Append(kq[key[c]], c)]
      BY <1>7 DEF LockHeld
    <3>2. kq[key[c]] \in Seq(Callers)
      BY <1>1, <1>7 DEF TypeOK, LockHeld, Inv, Calls
    <3>3. Append(kq[key[c]], c) \in Seq(Callers)
      BY <3>2, AppendProperties
    <3> QED BY <1>1, <3>1, <3>3 DEF TypeOK
  <2> QED BY <1>1, <1>7, <2>1, <2>2 DEF TypeOK, LockHeld, gateVars, budgetVars, callVars
<1>8. CASE KeyGranted(c)
  <2>1. pc' \in [Callers -> PC] /\ state' \in [Callers -> States]
    BY <1>1, <1>2, <1>8 DEF TypeOK, KeyGranted, Goto, PC
  <2> QED BY <1>1, <1>8, <2>1
          DEF TypeOK, KeyGranted, gateVars, budgetVars, keyVars, callVars
<1>9. CASE KeyGivenUp(c)
  <2>1. key[c] \in Key /\ keysClosed' = keysClosed /\ GivesUpKey(c, key[c])
    BY <1>9, GivingUpKey
  <2>2. /\ state' \in [Callers -> States]
        /\ holder' \in [Key -> Callers \cup {None}] /\ kq' \in [Key -> Seq(Callers)]
    <3>1. CASE \E w : Passes(key[c], Forget(c), w)
      BY <1>1, <1>2, <2>1, <3>1, PassesTypes
    <3>2. CASE ~ \E w : Passes(key[c], Forget(c), w)
      BY <1>1, <1>2, <2>1, <3>2 DEF TypeOK, GivesUpKey
    <3> QED BY <3>1, <3>2
  <2>3. Fail(c)
    BY <1>9 DEF KeyGivenUp
  <2> QED BY <1>1, <1>6, <1>9, <2>1, <2>2, <2>3
          DEF TypeOK, KeyGivenUp, gateVars, budgetVars, callVars
<1>10. CASE ClaimTakes(c)
  <2>1. next' \in [Callers -> Nat]
    BY <1>1, <1>10 DEF TypeOK, ClaimTakes
  <2>3. Claim(c, next[c]+1).n \in Nat /\ Claim(c, next[c]+1).r \in Budgets
    BY <1>10, NextClaim DEF ClaimTakes, Claiming
  <2>4. used' \in [Budgets -> Int]
    <3> DEFINE r == Claim(c, next[c]+1).r
               n == Claim(c, next[c]+1).n
    <3>1. used' = [used EXCEPT ![r] = used[r] + n]
      BY <1>10 DEF ClaimTakes
    <3> HIDE DEF r, n
    <3>2. r \in Budgets /\ n \in Nat
      BY <2>3 DEF r, n
    <3> QED BY <1>1, <3>1, <3>2 DEF TypeOK
  <2> QED BY <1>1, <1>10, <2>1, <2>4 DEF TypeOK, ClaimTakes, gateVars, keyVars, callVars
<1>11. CASE ClaimRefused(c)
  <2>1. pc' \in [Callers -> PC]
        /\ res' \in [Callers -> {"none", "ctx", "overloaded", "stopping", "refused"}]
    BY <1>1, <1>11 DEF TypeOK, ClaimRefused, Goto, PC
  <2> QED BY <1>1, <1>11, <2>1
          DEF TypeOK, ClaimRefused, gateVars, budgetVars, keyVars, callVars
<1>12. CASE ClaimQueues(c)
  <2>1. pc' \in [Callers -> PC] /\ state' \in [Callers -> States]
    BY <1>1, <1>12 DEF TypeOK, ClaimQueues, Goto, PC
  <2>2. q' \in [Budgets -> Seq(Callers)]
    <3> DEFINE r == Claim(c, next[c]+1).r
    <3>1. q' = [q EXCEPT ![r] = Append(q[r], c)]
      BY <1>12 DEF ClaimQueues
    <3>2. r \in Budgets
      BY <1>12, NextClaim DEF ClaimQueues, Claiming
    <3> HIDE DEF r
    <3>3. Append(q[r], c) \in Seq(Callers)
      BY <1>1, <3>2, AppendProperties DEF TypeOK
    <3> QED BY <1>1, <3>1, <3>3 DEF TypeOK
  <2> QED BY <1>1, <1>12, <2>1, <2>2 DEF TypeOK, ClaimQueues, gateVars, keyVars, callVars
<1>13. CASE UnitsGranted(c)
  <2>1. pc' \in [Callers -> PC] /\ state' \in [Callers -> States] /\ next' \in [Callers -> Nat]
    BY <1>1, <1>2, <1>13 DEF TypeOK, UnitsGranted, Goto, PC
  <2> QED BY <1>1, <1>13, <2>1
          DEF TypeOK, UnitsGranted, gateVars, budgetVars, keyVars, callVars
<1>14. CASE UnitsGivenUp(c)
  <2> DEFINE r == Claim(c, next[c]+1).r
  <2>1. GivesUp(c, r)
    BY <1>14, GivingUp
  <2>2. Waiters(r) \subseteq Callers
    BY DEF Waiters
  <2> HIDE DEF r
  <2>3. /\ state' \in [Callers -> States]
        /\ used' \in [Budgets -> Int] /\ q' \in [Budgets -> Seq(Callers)]
    <3>1. CASE \E u, T : Wakes(r, u, Waiters(r) \ {c}, Forget(c), T)
      BY <1>2, <2>2, <3>1, WakesTypes
    <3>2. CASE ~ \E u, T : Wakes(r, u, Waiters(r) \ {c}, Forget(c), T)
      BY <1>1, <1>2, <2>1, <3>2 DEF TypeOK, GivesUp
    <3> QED BY <3>1, <3>2
  <2>4. pc' \in [Callers -> PC]
        /\ res' \in [Callers -> {"none", "ctx", "overloaded", "stopping", "refused"}]
    BY <1>1, <1>14 DEF TypeOK, UnitsGivenUp, Goto, PC
  <2> QED BY <1>1, <1>14, <2>3, <2>4 DEF TypeOK, UnitsGivenUp, gateVars, keyVars, callVars
<1>15. CASE Run(c)
  <2>1. pc' \in [Callers -> PC]
        /\ res' \in [Callers -> {"none", "ctx", "overloaded", "stopping", "refused"}]
    BY <1>1, <1>15 DEF TypeOK, Run, Goto, PC
  <2> QED BY <1>1, <1>15, <2>1 DEF TypeOK, Run, gateVars, budgetVars, keyVars, callVars
<1>16. CASE HandlerEnds(c)
  <2>1. pc' \in [Callers -> PC]
    BY <1>1, <1>16 DEF TypeOK, HandlerEnds, Goto, PC
  <2> QED BY <1>1, <1>16, <2>1 DEF TypeOK, HandlerEnds, gateVars, budgetVars, keyVars, callVars
<1>17. CASE ReleaseUnits(c)
  <2> DEFINE r == Claim(c, next[c]).r
  <2>1. /\ next[c] \in 1..Len(Claims[op[c]])
        /\ \E u, T : Wakes(r, u, Waiters(r), state, T)
    BY <1>17, ReleaseWakes
  <2>2. Waiters(r) \subseteq Callers
    BY DEF Waiters
  <2>3. /\ state' \in [Callers -> States]
        /\ used' \in [Budgets -> Int] /\ q' \in [Budgets -> Seq(Callers)]
    BY <1>2, <2>1, <2>2, WakesTypes
  <2>4. next' \in [Callers -> Nat]
    BY <1>1, <1>17, <2>1 DEF TypeOK, ReleaseUnits
  <2> QED BY <1>1, <1>17, <2>3, <2>4 DEF TypeOK, ReleaseUnits, gateVars, keyVars, callVars
<1>18. CASE ReleaseKey(c)
  <2>1. /\ state' \in [Callers -> States] /\ keysClosed' = keysClosed
        /\ holder' \in [Key -> Callers \cup {None}] /\ kq' \in [Key -> Seq(Callers)]
    <3>1. CASE key[c] = None
      BY <1>1, <1>18, <3>1 DEF TypeOK, ReleaseKey, keyVars
    <3>2. CASE key[c] /= None
      <4>1. key[c] \in Key /\ HandOff(key[c], state)
        BY <1>1, <1>18, <3>2 DEF TypeOK, ReleaseKey
      <4>2. keysClosed' = keysClosed
        BY <4>1 DEF HandOff
      <4>3. CASE \E w : Passes(key[c], state, w)
        BY <1>1, <1>2, <4>1, <4>2, <4>3, PassesTypes
      <4>4. CASE /\ holder' = [holder EXCEPT ![key[c]] = None]
                 /\ state' = state /\ kq' = kq
        BY <1>1, <4>2, <4>4 DEF TypeOK
      <4> QED BY <4>1, <4>3, <4>4, HandOffPasses
    <3> QED BY <3>1, <3>2
  <2>2. /\ pc' \in [Callers -> PC]
        /\ res' \in [Callers -> {"none", "ctx", "overloaded", "stopping", "refused"}]
    <3>1. CASE res[c] = "refused"
      BY <1>6, <1>18, <3>1 DEF ReleaseKey
    <3>2. CASE res[c] /= "refused"
      BY <1>1, <1>18, <3>2 DEF TypeOK, ReleaseKey, Goto, PC
    <3> QED BY <3>1, <3>2
  <2> QED BY <1>1, <1>18, <2>1, <2>2 DEF TypeOK, ReleaseKey, gateVars, budgetVars, callVars
<1>19. CASE Exit(c)
  <2>1. pc' \in [Callers -> PC]
        /\ res' \in [Callers -> {"none", "ctx", "overloaded", "stopping", "refused"}]
    BY <1>1, <1>19 DEF TypeOK, Exit, Goto, PC
  <2>2. op' \in [Callers -> Ops \cup {None}] /\ key' \in [Callers -> Key \cup {None}]
    BY <1>1, <1>19 DEF TypeOK, Exit
  <2>3. done' \in [Callers -> BOOLEAN]
    BY <1>1, <1>19 DEF TypeOK, Exit
  <2> QED BY <1>1, <1>19, <2>1, <2>2, <2>3 DEF TypeOK, Exit, gateVars, budgetVars, keyVars
<1>20. CASE MarkDrained(c)
  <2>1. pc' \in [Callers -> PC]
    BY <1>1, <1>20 DEF TypeOK, MarkDrained, Goto, PC
  <2>2. drained' <=> drained \/ Live = {}
    BY <1>20, Zenon DEF MarkDrained
  <2>3. drained' \in BOOLEAN
    BY <1>20 DEF MarkDrained
  <2> QED BY <1>1, <1>20, <2>1, <2>3 DEF TypeOK, MarkDrained, budgetVars, keyVars, callVars
<1> QED BY <1>3, <1>4, <1>5, <1>7, <1>8, <1>9, <1>10, <1>11, <1>12, <1>13, <1>14, <1>15,
           <1>16, <1>17, <1>18, <1>19, <1>20 DEF Do, Proceeds, Admit

LEMMA ShutdownKeepsTypes ==
  ASSUME Inv, Shutdown
  PROVE  TypeOK'
<1>1. TypeOK
  BY DEF Inv
<1>2. ASSUME NEW S, Withdraw(S)
      PROVE  state' \in [Callers -> {"none", "waiting", "granted", "withdrawn"}]
  BY <1>1, <1>2 DEF TypeOK, Withdraw
<1>3. CASE Stop
  BY <1>1, <1>3 DEF TypeOK, Stop, budgetVars, keyVars, callVars
<1>4. CASE CloseBudget
  <2>1. q' \in [Budgets -> Seq(Callers)] /\ closed' \in SUBSET Budgets
    <3>1. <<>> \in Seq(Callers)
      OBVIOUS
    <3> QED BY <1>1, <1>4, <3>1 DEF TypeOK, CloseBudget
  <2>2. state' \in [Callers -> {"none", "waiting", "granted", "withdrawn"}]
    BY <1>2, <1>4 DEF CloseBudget
  <2> QED BY <1>1, <1>4, <2>1, <2>2 DEF TypeOK, CloseBudget, gateVars, keyVars, callVars
<1>5. CASE CloseKeys
  <2>1. kq' \in [Key -> Seq(Callers)]
    BY <1>5 DEF CloseKeys
  <2>2. state' \in [Callers -> {"none", "waiting", "granted", "withdrawn"}]
    BY <1>2, <1>5 DEF CloseKeys
  <2> QED BY <1>1, <1>5, <2>1, <2>2 DEF TypeOK, CloseKeys, budgetVars, callVars
<1>6. CASE Mark
  <2>1. drained' \in BOOLEAN
    BY <1>6 DEF Mark
  <2> QED BY <1>1, <1>6, <2>1 DEF TypeOK, Mark, budgetVars, keyVars, callVars
<1>7. CASE ReturnNil
  BY <1>1, <1>7 DEF TypeOK, ReturnNil, budgetVars, keyVars, callVars
<1> QED BY <1>3, <1>4, <1>5, <1>6, <1>7 DEF Shutdown, ShutdownProceeds
-----------------------------------------------------------------------------
(* What a step of one caller leaves alone of the others: everything but    *)
(* that it may end their waiting.                                          *)
Others(c) == \A x \in Callers : x /= c =>
  /\ pc'[x] = pc[x] /\ op'[x] = op[x] /\ key'[x] = key[x]
  /\ next'[x] = next[x] /\ res'[x] = res[x]
Woken(x, s) == state[x] = "waiting" /\ state'[x] = s

LEMMA DoFrames ==
  ASSUME Inv, NEW c \in Callers, Do(c)
  PROVE  Others(c) /\ \A x \in Callers : x /= c => (done'[x] <=> done[x])
<1> USE DEF Enter, CtxEnds, LockFree, LockHeld, KeyGranted, KeyGivenUp, ClaimTakes,
            ClaimRefused, ClaimQueues, UnitsGranted, UnitsGivenUp, Run, HandlerEnds,
            ReleaseUnits, ReleaseKey, Exit, MarkDrained, Do, Proceeds, Admit,
            Goto, Fail, callVars
<1>1. /\ pc \in [Callers -> PC] /\ op \in [Callers -> Ops \cup {None}]
      /\ key \in [Callers -> Key \cup {None}] /\ next \in [Callers -> Nat]
      /\ done \in [Callers -> BOOLEAN]
      /\ res \in [Callers -> {"none", "ctx", "overloaded", "stopping", "refused"}]
  BY DEF Inv, TypeOK
<1>2. pc' = pc \/ \E l : pc' = [pc EXCEPT ![c] = l]
  OBVIOUS
<1>3. op' = op \/ \E o : op' = [op EXCEPT ![c] = o]
  OBVIOUS
<1>4. key' = key \/ \E k : key' = [key EXCEPT ![c] = k]
  OBVIOUS
<1>5. next' = next \/ \E n : next' = [next EXCEPT ![c] = n]
  OBVIOUS
<1>6. done' = done \/ \E d : done' = [done EXCEPT ![c] = d]
  OBVIOUS
<1>7. res' = res \/ \E e : res' = [res EXCEPT ![c] = e]
  OBVIOUS
<1>8. Others(c)
  BY <1>1, <1>2, <1>3, <1>4, <1>5, <1>7 DEF Others
<1>9. \A x \in Callers : x /= c => done'[x] = done[x]
  BY <1>1, <1>6
<1> QED BY <1>8, <1>9

LEMMA WakesWake ==
  ASSUME Inv, NEW c \in Callers, NEW r, NEW u, NEW W \in SUBSET Waiters(r), NEW T,
         NEW st, Wakes(r, u, W, st, T), c \notin W, st = state \/ st = Forget(c)
  PROVE  /\ state'[c] = st[c]
         /\ \A x \in Callers : x /= c =>
              state'[x] = state[x] \/ (pc[x] = "claimWait" /\ Woken(x, "granted"))
<1>1. T \subseteq W /\ state' = [x \in Callers |-> IF x \in T THEN "granted" ELSE st[x]]
  BY DEF Wakes
<1>2. \A x \in W : state[x] = "waiting" /\ pc[x] = "claimWait"
  BY DEF Waiters
<1>3. \A x \in Callers : x /= c => st[x] = state[x]
  BY DEF Inv, TypeOK, Forget
<1> QED BY <1>1, <1>2, <1>3 DEF Woken

LEMMA PassesWake ==
  ASSUME Inv, NEW c \in Callers, NEW k, NEW w, NEW st, Passes(k, st, w), 
         c \notin KeyWaiters(k), st = state \/ st = Forget(c)
  PROVE  /\ state'[c] = st[c]
         /\ \A x \in Callers : x /= c => state'[x] = state[x] \/ Woken(x, "granted")
<1>1. w \in Callers /\ state[w] = "waiting" /\ w /= c /\ state' = [st EXCEPT ![w] = "granted"]
  BY DEF Passes, KeyWaiters
<1>2. st \in [Callers -> {"none", "waiting", "granted", "withdrawn"}]
      /\ \A x \in Callers : x /= c => st[x] = state[x]
  BY DEF Inv, TypeOK, Forget
<1> QED BY <1>1, <1>2 DEF Woken

LEMMA DoWakes ==
  ASSUME Inv, NEW c \in Callers, Do(c)
  PROVE  \A x \in Callers : x /= c => state'[x] = state[x] \/ Woken(x, "granted")
<1>1. state \in [Callers -> {"none", "waiting", "granted", "withdrawn"}]
  BY DEF Inv, TypeOK
<1>2. CASE KeyGivenUp(c)
  <2> DEFINE k == key[c]
  <2>1. GivesUpKey(c, k)
    BY <1>2, GivingUpKey
  <2>2. state[c] = "granted" => c \notin KeyWaiters(k)
    BY DEF KeyWaiters
  <2> HIDE DEF k
  <2>3. CASE state[c] = "granted" /\ \E w : Passes(k, Forget(c), w)
    BY <2>2, <2>3, PassesWake
  <2>4. CASE state' = Forget(c)
    BY <1>1, <2>4 DEF Forget
  <2> QED BY <2>1, <2>3, <2>4 DEF GivesUpKey
<1>3. CASE UnitsGivenUp(c)
  <2> DEFINE r == Claim(c, next[c]+1).r
  <2>1. GivesUp(c, r)
    BY <1>3, GivingUp
  <2> HIDE DEF r
  <2>2. CASE \E u, T : Wakes(r, u, Waiters(r) \ {c}, Forget(c), T)
    BY <2>2, WakesWake
  <2>3. CASE state' = Forget(c)
    BY <1>1, <2>3 DEF Forget
  <2> QED BY <2>1, <2>2, <2>3 DEF GivesUp
<1>4. CASE ReleaseUnits(c)
  <2> DEFINE r == Claim(c, next[c]).r
  <2>1. \E u, T : Wakes(r, u, Waiters(r), state, T)
    BY <1>4, ReleaseWakes
  <2>2. c \notin Waiters(r)
    BY <1>4 DEF ReleaseUnits, Waiters
  <2> HIDE DEF r
  <2> QED BY <2>1, <2>2, WakesWake
<1>5. CASE ReleaseKey(c)
  <2>1. CASE key[c] = None
    BY <1>5, <2>1 DEF ReleaseKey
  <2>2. CASE key[c] /= None
    <3>1. key[c] \in Key /\ HandOff(key[c], state)
      BY <1>5, <2>2 DEF ReleaseKey, Inv, TypeOK
    <3>2. c \notin KeyWaiters(key[c])
      BY <1>5 DEF ReleaseKey, KeyWaiters
    <3>3. state' = state \/ \E w : Passes(key[c], state, w)
      BY <3>1, HandOffPasses
    <3> QED BY <3>2, <3>3, PassesWake
  <2> QED BY <2>1, <2>2
<1>6. CASE ~(KeyGivenUp(c) \/ UnitsGivenUp(c) \/ ReleaseUnits(c) \/ ReleaseKey(c))
  <2>1. state' = state \/ \E s : state' = [state EXCEPT ![c] = s]
    BY <1>6 DEF Enter, CtxEnds, LockFree, LockHeld, KeyGranted, ClaimTakes,
                ClaimRefused, ClaimQueues, UnitsGranted, Run, HandlerEnds,
                Exit, MarkDrained, Do, Proceeds, Admit, Forget
  <2> QED BY <1>1, <2>1
<1> QED BY <1>2, <1>3, <1>4, <1>5, <1>6
-----------------------------------------------------------------------------
(* Calls is kept.                                                          *)
CallOf(c) ==
  /\ op[c] = None <=> pc[c] \in {"idle", "mark"}
  /\ op[c] = None => key[c] = None /\ ~done[c]
  /\ pc[c] \notin {"release", "exit"} => res[c] = "none"
  /\ pc[c] \in {"idle", "mark", "lock", "keyWait", "exit"} => next[c] = 0
  /\ pc[c] \in {"lock", "keyWait"} => key[c] \in Key
  /\ pc[c] \in {"keyWait", "claimWait"} => op[c].mode = "Wait"
  /\ state[c] /= "none" <=> pc[c] \in {"keyWait", "claimWait"}
  /\ op[c] /= None => next[c] <= Len(Claims[op[c]])
  /\ pc[c] = "claimWait" => next[c] < Len(Claims[op[c]])

LEMMA CallsAre == Calls <=> \A c \in Callers : CallOf(c)
BY DEF Calls, CallOf

LEMMA OthersKeepCalls ==
  ASSUME Inv, NEW x \in Callers, pc'[x] = pc[x], op'[x] = op[x], key'[x] = key[x],
         next'[x] = next[x], res'[x] = res[x], done'[x] <=> done[x],
         state'[x] = state[x] \/ Woken(x, "granted") \/ Woken(x, "withdrawn")
  PROVE  CallOf(x)'
<1>1. CallOf(x)
  BY CallsAre DEF Inv
<1>2. state'[x] /= "none" <=> state[x] /= "none"
  BY DEF Woken
<1> QED BY <1>1, <1>2 DEF CallOf

(* The state of the waiter of a caller that takes a step.                  *)
LEMMA OwnState ==
  ASSUME Inv, NEW c \in Callers
  PROVE  /\ KeyGivenUp(c) \/ UnitsGivenUp(c) => state'[c] = "none"
         /\ ReleaseUnits(c) \/ ReleaseKey(c) => state'[c] = state[c]
<1>1. state \in [Callers -> {"none", "waiting", "granted", "withdrawn"}]
      /\ Forget(c)[c] = "none"
  BY DEF Inv, TypeOK, Forget
<1>2. ASSUME KeyGivenUp(c) PROVE state'[c] = "none"
  <2> DEFINE k == key[c]
  <2>1. GivesUpKey(c, k)
    BY <1>2, GivingUpKey
  <2>2. state[c] = "granted" => c \notin KeyWaiters(k)
    BY DEF KeyWaiters
  <2> HIDE DEF k
  <2>3. CASE state[c] = "granted" /\ \E w : Passes(k, Forget(c), w)
    BY <1>1, <2>2, <2>3, PassesWake
  <2>4. CASE state' = Forget(c)
    BY <1>1, <2>4
  <2> QED BY <2>1, <2>3, <2>4 DEF GivesUpKey
<1>3. ASSUME UnitsGivenUp(c) PROVE state'[c] = "none"
  <2> DEFINE r == Claim(c, next[c]+1).r
  <2>1. GivesUp(c, r)
    BY <1>3, GivingUp
  <2> HIDE DEF r
  <2>2. CASE \E u, T : Wakes(r, u, Waiters(r) \ {c}, Forget(c), T)
    BY <1>1, <2>2, WakesWake
  <2>3. CASE state' = Forget(c)
    BY <1>1, <2>3
  <2> QED BY <2>1, <2>2, <2>3 DEF GivesUp
<1>4. ASSUME ReleaseUnits(c) PROVE state'[c] = state[c]
  <2> DEFINE r == Claim(c, next[c]).r
  <2>1. \E u, T : Wakes(r, u, Waiters(r), state, T)
    BY <1>4, ReleaseWakes
  <2>2. c \notin Waiters(r)
    BY <1>4 DEF ReleaseUnits, Waiters
  <2> HIDE DEF r
  <2> QED BY <2>1, <2>2, WakesWake
<1>5. ASSUME ReleaseKey(c) PROVE state'[c] = state[c]
  <2>1. CASE key[c] = None
    BY <1>5, <2>1 DEF ReleaseKey
  <2>2. CASE key[c] /= None
    <3>1. key[c] \in Key /\ HandOff(key[c], state)
      BY <1>5, <2>2 DEF ReleaseKey, Inv, TypeOK
    <3>2. c \notin KeyWaiters(key[c])
      BY <1>5 DEF ReleaseKey, KeyWaiters
    <3>3. state' = state \/ \E w : Passes(key[c], state, w)
      BY <3>1, HandOffPasses
    <3> QED BY <3>2, <3>3, PassesWake
  <2> QED BY <2>1, <2>2
<1> QED BY <1>2, <1>3, <1>4, <1>5

LEMMA DoKeepsCalls ==
  ASSUME Inv, NEW c \in Callers, Do(c)
  PROVE  Calls'
<1>1. \A x \in Callers : x /= c => CallOf(x)'
  <2> SUFFICES ASSUME NEW x \in Callers, x /= c PROVE CallOf(x)'
    OBVIOUS
  <2>1. /\ pc'[x] = pc[x] /\ op'[x] = op[x] /\ key'[x] = key[x]
        /\ next'[x] = next[x] /\ res'[x] = res[x]
    BY DoFrames DEF Others
  <2>2. done'[x] <=> done[x]
    BY DoFrames
  <2>3. state'[x] = state[x] \/ Woken(x, "granted")
    BY DoWakes
  <2> QED BY <2>1, <2>2, <2>3, OthersKeepCalls
<1> SUFFICES CallOf(c)'
  BY <1>1 DEF Calls, CallOf
<1>2. CallOf(c)
  BY CallsAre DEF Inv
<1>3. op[c] /= None => op[c] \in Ops /\ Len(Claims[op[c]]) \in Nat /\ next[c] \in Nat
  BY CallTypes
<1>4. /\ pc \in [Callers -> PC] /\ op \in [Callers -> Ops \cup {None}]
      /\ key \in [Callers -> Key \cup {None}] /\ next \in [Callers -> Nat]
      /\ done \in [Callers -> BOOLEAN]
      /\ res \in [Callers -> {"none", "ctx", "overloaded", "stopping", "refused"}]
      /\ state \in [Callers -> {"none", "waiting", "granted", "withdrawn"}]
  BY DEF Inv, TypeOK
<1>5. CASE Enter(c)
  <2>1. PICK o \in Ops, d \in BOOLEAN : \E k \in o.keys :
          /\ op' = [op EXCEPT ![c] = o]
          /\ key' = [key EXCEPT ![c] = k]
          /\ done' = [done EXCEPT ![c] = d]
          /\ IF d /\ (k /= None \/ o.mode = "Wait")
             THEN Goto(c, "exit") /\ res' = [res EXCEPT ![c] = "ctx"]
             ELSE Goto(c, IF k /= None THEN "lock" ELSE "claim") /\ UNCHANGED res
    BY <1>5 DEF Enter
  <2>2. o.keys \subseteq Key \cup {None} /\ o /= None
    BY OpsAssumption, CallersAssumption
  <2>3. Len(Claims[o]) \in Nat
    BY ClaimsAre
  <2>4. pc'[c] \in {"lock", "claim", "exit"} /\ op'[c] = o /\ (pc'[c] = "lock" => key'[c] \in Key)
        /\ (pc'[c] /= "exit" => res'[c] = "none")
    BY <1>2, <1>4, <1>5, <2>1, <2>2 DEF Goto, CallOf, Enter
  <2>5. next'[c] = 0 /\ state'[c] = "none"
    BY <1>2, <1>5 DEF CallOf, Enter
  <2> QED BY <2>2, <2>3, <2>4, <2>5 DEF CallOf
<1>6. CASE CtxEnds(c)
  BY <1>2, <1>4, <1>6 DEF CallOf, CtxEnds, callVars
<1>7. CASE LockFree(c)
  BY <1>2, <1>4, <1>7 DEF CallOf, LockFree, Goto, callVars
<1>8. CASE LockHeld(c)
  <2>1. op[c].mode \in {"Wait", "Reject"}
    BY <1>2, <1>3, <1>8, OpsAssumption DEF CallOf, LockHeld
  <2> QED BY <1>2, <1>4, <1>8, <2>1 DEF CallOf, LockHeld, Goto, Fail, callVars
<1>9. CASE KeyGranted(c)
  BY <1>2, <1>4, <1>9 DEF CallOf, KeyGranted, Goto, Forget, callVars
<1>10. CASE KeyGivenUp(c)
  <2>1. state'[c] = "none"
    BY <1>10, OwnState
  <2> QED BY <1>2, <1>4, <1>10, <2>1 DEF CallOf, KeyGivenUp, Goto, Fail, callVars
<1>11. CASE ClaimTakes(c)
  BY <1>2, <1>3, <1>4, <1>11 DEF CallOf, ClaimTakes, Goto, callVars
<1>12. CASE ClaimRefused(c)
  BY <1>2, <1>4, <1>12 DEF CallOf, ClaimRefused, Goto, callVars
<1>13. CASE ClaimQueues(c)
  BY <1>2, <1>4, <1>13 DEF CallOf, ClaimQueues, Goto, callVars
<1>14. CASE UnitsGranted(c)
  BY <1>2, <1>3, <1>4, <1>14 DEF CallOf, UnitsGranted, Goto, Forget, callVars
<1>15. CASE UnitsGivenUp(c)
  <2>1. state'[c] = "none"
    BY <1>15, OwnState
  <2> QED BY <1>2, <1>4, <1>15, <2>1 DEF CallOf, UnitsGivenUp, Goto, callVars
<1>16. CASE Run(c)
  BY <1>2, <1>4, <1>16 DEF CallOf, Run, Goto, callVars
<1>17. CASE HandlerEnds(c)
  BY <1>2, <1>4, <1>17 DEF CallOf, HandlerEnds, Goto, callVars
<1>18. CASE ReleaseUnits(c)
  <2>1. state'[c] = state[c]
    BY <1>18, OwnState
  <2> QED BY <1>2, <1>3, <1>4, <1>18, <2>1 DEF CallOf, ReleaseUnits, callVars
<1>19. CASE ReleaseKey(c)
  <2>1. state'[c] = state[c]
    BY <1>19, OwnState
  <2> QED BY <1>2, <1>4, <1>19, <2>1 DEF CallOf, ReleaseKey, Goto, Fail, callVars
<1>20. CASE Exit(c)
  <2>1. op'[c] = None /\ key'[c] = None /\ ~done'[c] /\ res'[c] = "none"
    BY <1>4, <1>20 DEF Exit
  <2> QED BY <1>2, <1>4, <1>20, <2>1 DEF CallOf, Exit, Goto
<1>21. CASE MarkDrained(c)
  BY <1>2, <1>4, <1>21 DEF CallOf, MarkDrained, Goto, callVars
<1> QED BY <1>5, <1>6, <1>7, <1>8, <1>9, <1>10, <1>11, <1>12, <1>13, <1>14, <1>15,
           <1>16, <1>17, <1>18, <1>19, <1>20, <1>21 DEF Do, Proceeds, Admit

(* Closing withdraws exactly the callers that wait.                        *)
LEMMA Withdrawn ==
  ASSUME Inv
  PROVE  /\ CloseBudget => \E r \in Budgets \ closed :
              /\ closed' = closed \cup {r}
              /\ q' = [q EXCEPT ![r] = <<>>]
              /\ Withdraw(Waiters(r))
         /\ CloseKeys => Withdraw({x \in Callers : pc[x] = "keyWait" /\ state[x] = "waiting"})
<1>1. ASSUME CloseBudget
      PROVE  \E r \in Budgets \ closed :
              /\ closed' = closed \cup {r}
              /\ q' = [q EXCEPT ![r] = <<>>]
              /\ Withdraw(Waiters(r))
  BY <1>1 DEF CloseBudget, Inv, QueuesRight, Lists
<1>2. ASSUME CloseKeys
      PROVE  Withdraw({x \in Callers : pc[x] = "keyWait" /\ state[x] = "waiting"})
  <2>1. \A k \in Key : ToSet(kq[k]) = KeyWaiters(k)
    BY DEF Inv, KeysRight, Lists
  <2>2. \A x \in Callers : pc[x] = "keyWait" => key[x] \in Key
    BY DEF Inv, Calls
  <2>3. UNION {ToSet(kq[k]) : k \in Key}
          = {x \in Callers : pc[x] = "keyWait" /\ state[x] = "waiting"}
    BY <2>1, <2>2 DEF KeyWaiters
  <2> QED BY <1>2, <2>3 DEF CloseKeys
<1> QED BY <1>1, <1>2

LEMMA ShutdownFrames ==
  ASSUME Inv, Shutdown
  PROVE  /\ pc' = pc /\ op' = op /\ key' = key /\ next' = next /\ done' = done /\ res' = res
         /\ used' = used /\ holder' = holder
         /\ \A x \in Callers : state'[x] = state[x] \/ Woken(x, "withdrawn")
<1>1. /\ pc' = pc /\ op' = op /\ key' = key /\ next' = next /\ done' = done /\ res' = res
      /\ used' = used /\ holder' = holder
  BY DEF Shutdown, ShutdownProceeds, Stop, CloseBudget, CloseKeys, Mark, ReturnNil,
         callVars, budgetVars, keyVars
<1> SUFFICES \A x \in Callers : state'[x] = state[x] \/ Woken(x, "withdrawn")
  BY <1>1
<1>2. CASE CloseBudget
  BY <1>2, Withdrawn DEF Withdraw, Woken, Waiters
<1>3. CASE CloseKeys
  BY <1>3, Withdrawn DEF Withdraw, Woken
<1>4. CASE Stop \/ Mark \/ ReturnNil
  BY <1>4 DEF Stop, Mark, ReturnNil
<1> QED BY <1>2, <1>3, <1>4 DEF Shutdown, ShutdownProceeds

LEMMA ShutdownKeepsCalls ==
  ASSUME Inv, Shutdown
  PROVE  Calls'
<1> SUFFICES ASSUME NEW x \in Callers PROVE CallOf(x)'
  BY DEF Calls, CallOf
<1>1. state'[x] = state[x] \/ Woken(x, "withdrawn")
  BY ShutdownFrames
<1>2. /\ pc'[x] = pc[x] /\ op'[x] = op[x] /\ key'[x] = key[x]
      /\ next'[x] = next[x] /\ res'[x] = res[x] /\ (done'[x] <=> done[x])
  BY ShutdownFrames
<1> QED BY <1>1, <1>2, OthersKeepCalls
-----------------------------------------------------------------------------
(* Stopped is kept: a drained runtime has no call in flight, and the gate  *)
(* lets none in.                                                           *)
LEMMA DoKeepsStopped ==
  ASSUME Inv, NEW c \in Callers, Do(c)
  PROVE  Stopped'
<1>1. stopping' = stopping /\ sd' = sd /\ closed' = closed /\ (keysClosed' <=> keysClosed)
  <2>1. stopping' = stopping /\ sd' = sd /\ closed' = closed
    BY DEF Enter, CtxEnds, LockFree, LockHeld, KeyGranted, KeyGivenUp, ClaimTakes,
           ClaimRefused, ClaimQueues, UnitsGranted, UnitsGivenUp, Run, HandlerEnds,
           ReleaseUnits, ReleaseKey, Exit, MarkDrained, Do, Proceeds, Admit,
           gateVars, budgetVars
  <2>2. keysClosed' = keysClosed
    BY DEF Enter, CtxEnds, LockFree, LockHeld, KeyGranted, KeyGivenUp, ClaimTakes,
           ClaimRefused, ClaimQueues, UnitsGranted, UnitsGivenUp, Run, HandlerEnds,
           ReleaseUnits, ReleaseKey, Exit, MarkDrained, Do, Proceeds, Admit,
           keyVars, HandOff
  <2> QED BY <2>1, <2>2
<1>2. \A x \in Callers : x /= c => pc'[x] = pc[x] /\ (state'[x] = state[x] \/ Woken(x, "granted"))
  BY DoFrames, DoWakes DEF Others
<1>3. /\ pc \in [Callers -> PC]
      /\ state \in [Callers -> {"none", "waiting", "granted", "withdrawn"}]
  BY DEF Inv, TypeOK
<1>4. pc'[c] = "mark" => stopping
  BY <1>3 DEF Enter, CtxEnds, LockFree, LockHeld, KeyGranted, KeyGivenUp, ClaimTakes,
         ClaimRefused, ClaimQueues, UnitsGranted, UnitsGivenUp, Run, HandlerEnds,
         ReleaseUnits, ReleaseKey, Exit, MarkDrained, Do, Proceeds, Admit,
         Goto, Fail, Inv, Stopped
<1>5. \A x \in Callers : state'[x] = "withdrawn" => state[x] = "withdrawn"
  <2>1. state'[c] = "withdrawn" => state[c] = "withdrawn"
    <3>1. CASE KeyGivenUp(c) \/ UnitsGivenUp(c) \/ ReleaseUnits(c) \/ ReleaseKey(c)
      BY <3>1, OwnState
    <3>2. CASE ~(KeyGivenUp(c) \/ UnitsGivenUp(c) \/ ReleaseUnits(c) \/ ReleaseKey(c))
      BY <1>3, <3>2
         DEF Enter, CtxEnds, LockFree, LockHeld, KeyGranted, ClaimTakes,
             ClaimRefused, ClaimQueues, UnitsGranted, Run, HandlerEnds,
             Exit, MarkDrained, Do, Proceeds, Admit, Forget
    <3> QED BY <3>1, <3>2
  <2> QED BY <1>2, <2>1 DEF Woken
<1>6. \A x \in Callers : pc'[x] = "mark" \/ state'[x] = "withdrawn" => stopping
  BY <1>2, <1>4, <1>5 DEF Inv, Stopped
<1>7. drained' => Live' = {}
  <2>1. CASE Enter(c)
    BY <2>1 DEF Enter, Inv, Stopped, gateVars
  <2>2. CASE pc[c] \notin {"idle", "mark"}
    <3>1. c \in Live /\ ~drained
      BY <2>2 DEF Live, Inv, Stopped
    <3>2. drained' = drained
      BY <2>2 DEF Enter, CtxEnds, LockFree, LockHeld, KeyGranted, KeyGivenUp, ClaimTakes,
           ClaimRefused, ClaimQueues, UnitsGranted, UnitsGivenUp, Run, HandlerEnds,
           ReleaseUnits, ReleaseKey, Exit, MarkDrained, Do, Proceeds, Admit, gateVars
    <3> QED BY <3>1, <3>2
  <2>3. CASE MarkDrained(c)
    <3>1. Live' = Live
      BY <1>3, <2>3 DEF MarkDrained, Goto, Live
    <3>2. drained' <=> drained \/ Live = {}
      BY <2>3, Zenon DEF MarkDrained
    <3> QED BY <3>1, <3>2 DEF Inv, Stopped
  <2> QED BY <2>1, <2>2, <2>3
          DEF CtxEnds, LockFree, LockHeld, KeyGranted, KeyGivenUp, ClaimTakes,
              ClaimRefused, ClaimQueues, UnitsGranted, UnitsGivenUp, Run, HandlerEnds,
              ReleaseUnits, ReleaseKey, Exit, Do, Proceeds, Admit
<1>8. drained' => stopping
  <2>1. CASE MarkDrained(c)
    BY <2>1 DEF MarkDrained, Inv, Stopped
  <2>2. CASE ~MarkDrained(c)
    <3>1. drained' = drained
      BY <2>2 DEF Enter, CtxEnds, LockFree, LockHeld, KeyGranted, KeyGivenUp, ClaimTakes,
           ClaimRefused, ClaimQueues, UnitsGranted, UnitsGivenUp, Run, HandlerEnds,
           ReleaseUnits, ReleaseKey, Exit, Do, Proceeds, Admit, gateVars
    <3> QED BY <3>1 DEF Inv, Stopped
  <2> QED BY <2>1, <2>2
<1>9. drained => drained'
  <2>1. CASE MarkDrained(c)
    BY <2>1, Zenon DEF MarkDrained
  <2>2. CASE ~MarkDrained(c)
    <3>1. drained' = drained
      BY <2>2 DEF Enter, CtxEnds, LockFree, LockHeld, KeyGranted, KeyGivenUp, ClaimTakes,
           ClaimRefused, ClaimQueues, UnitsGranted, UnitsGivenUp, Run, HandlerEnds,
           ReleaseUnits, ReleaseKey, Exit, Do, Proceeds, Admit, gateVars
    <3> QED BY <3>1
  <2> QED BY <2>1, <2>2
<1> QED BY <1>1, <1>6, <1>7, <1>8, <1>9 DEF Inv, Stopped

LEMMA ShutdownKeepsStopped ==
  ASSUME Inv, Shutdown
  PROVE  Stopped'
<1>1. pc' = pc /\ Live' = Live
  BY ShutdownFrames DEF Live
<1>2. \A x \in Callers : state'[x] = state[x] \/ state'[x] = "withdrawn"
  BY ShutdownFrames DEF Woken
<1>3. CASE Stop
  BY <1>1, <1>3 DEF Stop, Inv, Stopped, keyVars, budgetVars
<1>4. CASE CloseBudget
  BY <1>1, <1>4 DEF CloseBudget, Inv, Stopped, keyVars, gateVars
<1>5. CASE CloseKeys
  BY <1>1, <1>5 DEF CloseKeys, Inv, Stopped, budgetVars
<1>6. CASE Mark
  <2>1. drained' <=> drained \/ Live = {}
    BY <1>6, Zenon DEF Mark
  <2> QED BY <1>1, <1>6, <2>1 DEF Mark, Inv, Stopped, keyVars, budgetVars
<1>7. CASE ReturnNil
  BY <1>1, <1>7 DEF ReturnNil, Inv, Stopped, keyVars, budgetVars
<1> QED BY <1>3, <1>4, <1>5, <1>6, <1>7 DEF Shutdown, ShutdownProceeds
-----------------------------------------------------------------------------
(* Excused is kept.                                                        *)
ExcusedOf(c) ==
  /\ pc[c] = "release" /\ res[c] = "refused" => op[c].mode = "Reject" \/ done[c] \/ stopping
  /\ res[c] = "stopping" => stopping

LEMMA DoKeepsExcused ==
  ASSUME Inv, NEW c \in Callers, Do(c)
  PROVE  Excused'
<1> SUFFICES \A x \in Callers : ExcusedOf(x)'
  BY DEF Excused, ExcusedOf, StoppingJustified
<1>1. stopping' = stopping
  BY DEF Enter, CtxEnds, LockFree, LockHeld, KeyGranted, KeyGivenUp, ClaimTakes,
         ClaimRefused, ClaimQueues, UnitsGranted, UnitsGivenUp, Run, HandlerEnds,
         ReleaseUnits, ReleaseKey, Exit, MarkDrained, Do, Proceeds, Admit, gateVars
<1>2. \A x \in Callers : ExcusedOf(x)
  BY DEF Inv, Excused, ExcusedOf, StoppingJustified
<1>3. \A x \in Callers : x /= c => ExcusedOf(x)'
  <2> SUFFICES ASSUME NEW x \in Callers, x /= c PROVE ExcusedOf(x)'
    OBVIOUS
  <2>1. pc'[x] = pc[x] /\ op'[x] = op[x] /\ res'[x] = res[x]
    BY DoFrames DEF Others
  <2>2. done'[x] <=> done[x]
    BY DoFrames
  <2> QED BY <1>1, <1>2, <2>1, <2>2 DEF ExcusedOf
<1>4. ExcusedOf(c)'
  <2>1. /\ pc \in [Callers -> PC] /\ op \in [Callers -> Ops \cup {None}]
        /\ done \in [Callers -> BOOLEAN]
        /\ res \in [Callers -> {"none", "ctx", "overloaded", "stopping", "refused"}]
    BY DEF Inv, TypeOK
  <2>2. ExcusedOf(c)
    BY <1>2
  <2>3. /\ closed /= {} => stopping
        /\ keysClosed => stopping
        /\ state[c] = "withdrawn" => stopping
    BY DEF Inv, Stopped
  <2>4. CASE Enter(c) \/ Exit(c)
    <3>1. pc'[c] /= "release" /\ (res'[c] = res[c] \/ res'[c] \in {"ctx", "none"})
      BY <2>1, <2>4 DEF Enter, Exit, Goto
    <3> QED BY <1>1, <2>2, <3>1 DEF ExcusedOf
  <2>5. CASE CtxEnds(c)
    <3>1. done'[c]
      BY <2>1, <2>5 DEF CtxEnds
    <3> QED BY <1>1, <2>2, <2>5, <3>1 DEF ExcusedOf, CtxEnds
  <2>6. CASE LockFree(c) \/ KeyGranted(c) \/ ClaimTakes(c) \/ ClaimQueues(c)
             \/ UnitsGranted(c) \/ MarkDrained(c)
    <3>1. pc'[c] /= "release" /\ res'[c] = res[c]
      BY <2>1, <2>6 DEF LockFree, KeyGranted, ClaimTakes, ClaimQueues, UnitsGranted,
                        MarkDrained, Goto
    <3> QED BY <1>1, <2>2, <3>1 DEF ExcusedOf
  <2>7. CASE LockHeld(c)
    <3>1. pc'[c] /= "release"
      BY <2>1, <2>7 DEF LockHeld, Goto, Fail
    <3>2. res'[c] = "stopping" => stopping
      BY <2>1, <2>2, <2>3, <2>7 DEF LockHeld, Fail, Refused, ExcusedOf
    <3> QED BY <1>1, <3>1, <3>2 DEF ExcusedOf
  <2>8. CASE KeyGivenUp(c)
    <3>1. pc'[c] /= "release"
      BY <2>1, <2>8 DEF KeyGivenUp, Goto, Fail
    <3>2. res'[c] = "stopping" => stopping
      BY <2>1, <2>2, <2>3, <2>8 DEF KeyGivenUp, Fail, Refused, ExcusedOf
    <3> QED BY <1>1, <3>1, <3>2 DEF ExcusedOf
  <2>9. CASE ClaimRefused(c)
    <3>1. op[c].mode = "Reject" \/ done[c] \/ stopping
      BY <2>3, <2>9 DEF ClaimRefused
    <3>2. res'[c] = "refused" /\ op'[c] = op[c] /\ (done'[c] <=> done[c])
      BY <2>1, <2>9 DEF ClaimRefused, callVars
    <3> QED BY <1>1, <3>1, <3>2 DEF ExcusedOf
  <2>10. CASE UnitsGivenUp(c)
    <3>1. done[c] \/ stopping
      BY <2>3, <2>10 DEF UnitsGivenUp
    <3>2. res'[c] = "refused" /\ op'[c] = op[c] /\ (done'[c] <=> done[c])
      BY <2>1, <2>10 DEF UnitsGivenUp, callVars
    <3> QED BY <1>1, <3>1, <3>2 DEF ExcusedOf
  <2>11. CASE Run(c)
    <3>1. \/ res'[c] = "ctx" 
          \/ res'[c] = res[c] /\ pc'[c] = "handler"
      BY <2>1, <2>11 DEF Run, Goto
    <3> QED BY <1>1, <2>2, <3>1 DEF ExcusedOf
  <2>12. CASE HandlerEnds(c)
    <3>1. res[c] /= "refused"
      BY <2>12 DEF HandlerEnds, Inv, Calls
    <3>2. res'[c] = res[c]
      BY <2>12 DEF HandlerEnds
    <3> QED BY <1>1, <2>2, <3>1, <3>2 DEF ExcusedOf
  <2>13. CASE ReleaseUnits(c)
    <3>1. pc' = pc /\ res' = res /\ op' = op /\ done' = done
      BY <2>13 DEF ReleaseUnits, callVars
    <3> QED BY <1>1, <2>2, <3>1 DEF ExcusedOf
  <2>14. CASE ReleaseKey(c)
    <3>1. pc'[c] /= "release"
      BY <2>1, <2>14 DEF ReleaseKey, Goto, Fail
    <3>2. res'[c] = "stopping" => stopping
      BY <2>1, <2>2, <2>14 DEF ReleaseKey, Fail, Refused, ExcusedOf
    <3> QED BY <1>1, <3>1, <3>2 DEF ExcusedOf
  <2> QED BY <2>4, <2>5, <2>6, <2>7, <2>8, <2>9, <2>10, <2>11, <2>12, <2>13, <2>14
          DEF Do, Proceeds, Admit
<1> QED BY <1>3, <1>4

LEMMA ShutdownKeepsExcused ==
  ASSUME Inv, Shutdown
  PROVE  Excused'
<1>1. pc' = pc /\ op' = op /\ done' = done /\ res' = res
  BY ShutdownFrames
<1>2. stopping => stopping'
  BY DEF Shutdown, ShutdownProceeds, Stop, CloseBudget, CloseKeys, Mark, ReturnNil, gateVars
<1> QED BY <1>1, <1>2 DEF Inv, Excused, StoppingJustified
-----------------------------------------------------------------------------
(* KeysRight is kept.                                                      *)
Holding(c, k) == key[c] = k /\ HoldsKey(c)

LEMMA KeyHeldBy ==
  ASSUME Inv, NEW k \in Key
  PROVE  /\ \A x \in Callers : holder[k] = x <=> Holding(x, k)
         /\ Lists(Callers, kq[k], KeyWaiters(k))
         /\ holder[k] = None => kq[k] = <<>>
         /\ holder \in [Key -> Callers \cup {None}] /\ kq \in [Key -> Seq(Callers)]
BY DEF Inv, TypeOK, KeysRight, Holding

KeyKept(k) == \A x \in Callers : /\ Holding(x, k)' <=> Holding(x, k)
                                 /\ (x \in KeyWaiters(k))' <=> x \in KeyWaiters(k)

LEMMA KeyStays ==
  ASSUME Inv, NEW k \in Key, holder'[k] = holder[k], kq'[k] = kq[k], KeyKept(k)
  PROVE  /\ \A x \in Callers : holder'[k] = x <=> (key[x] = k /\ HoldsKey(x))'
         /\ Lists(Callers, kq'[k], KeyWaiters(k)')
         /\ holder'[k] = None => kq'[k] = <<>>
<1>1. KeyWaiters(k)' = KeyWaiters(k)
  BY DEF KeyKept, KeyWaiters
<1>2. \A x \in Callers : (key[x] = k /\ HoldsKey(x))' <=> Holding(x, k)
  BY DEF KeyKept, Holding
<1> QED BY <1>1, <1>2, KeyHeldBy

(* A step of a caller that leaves its key, passing it on.                  *)
LEMMA KeyPassed ==
  ASSUME Inv, NEW c \in Callers, Others(c), pc'[c] = "exit",
         NEW k \in Key, Holding(c, k),
         NEW st, \A x \in Callers : x /= c => st[x] = state[x],
         st \in [Callers -> {"none", "waiting", "granted", "withdrawn"}],
         \/ /\ KeyWaiters(k) = {} /\ kq[k] = <<>>
            /\ holder' = [holder EXCEPT ![k] = None]
            /\ state' = st /\ kq' = kq
         \/ \E w : Passes(k, st, w)
  PROVE  KeysRight'
<1>1. /\ \A x \in Callers : x /= c => pc'[x] = pc[x] /\ key'[x] = key[x]
      /\ ~HoldsKey(c)' /\ \A e \in Key : c \notin KeyWaiters(e)'
  BY DEF Others, HoldsKey, KeyWaiters
<1>2. /\ c \notin KeyWaiters(k) /\ key[c] = k
  BY DEF KeyWaiters, Holding, HoldsKey
<1>3. CASE /\ KeyWaiters(k) = {} /\ kq[k] = <<>>
           /\ holder' = [holder EXCEPT ![k] = None]
           /\ state' = st /\ kq' = kq
  <2>1. \A x \in Callers : x /= c => (HoldsKey(x)' <=> HoldsKey(x)) /\ state'[x] = state[x]
    BY <1>1, <1>3 DEF HoldsKey
  <2>2. \A e \in Key : KeyWaiters(e)' = KeyWaiters(e)
    BY <1>1, <1>2, <1>3, <2>1 DEF KeyWaiters
  <2>3. ASSUME NEW e \in Key
        PROVE  /\ \A x \in Callers : holder'[e] = x <=> (key[x] = e /\ HoldsKey(x))'
               /\ Lists(Callers, kq'[e], KeyWaiters(e)')
               /\ holder'[e] = None => kq'[e] = <<>>
    <3>1. CASE e = k
      <4>1. holder'[k] = None /\ None \notin Callers
        BY <1>3, KeyHeldBy, CallersAssumption
      <4>2. \A x \in Callers : ~(key[x] = k /\ HoldsKey(x))'
        BY <1>1, <2>1, KeyHeldBy DEF Holding
      <4> QED BY <1>3, <2>2, <3>1, <4>1, <4>2, KeyHeldBy
    <3>2. CASE e /= k
      <4>1. holder'[e] = holder[e]
        BY <1>3, <3>2, KeyHeldBy
      <4>2. \A x \in Callers : (key[x] = e /\ HoldsKey(x))' <=> Holding(x, e)
        BY <1>1, <1>2, <2>1, <3>2 DEF Holding
      <4> QED BY <1>3, <2>2, <4>1, <4>2, KeyHeldBy
    <3> QED BY <3>1, <3>2
  <2> QED BY <2>3 DEF KeysRight
<1>4. CASE \E w : Passes(k, st, w)
  <2>1. PICK w : Passes(k, st, w)
    BY <1>4
  <2>2. /\ w \in Callers /\ w /= c /\ pc[w] = "keyWait" /\ state[w] = "waiting" /\ key[w] = k
        /\ state'[w] = "granted" /\ \A x \in Callers : x /= c /\ x /= w => state'[x] = state[x]
        /\ holder' = [holder EXCEPT ![k] = w]
    BY <1>2, <2>1 DEF Passes, KeyWaiters
  <2>3. Lists(Callers, kq'[k], KeyWaiters(k) \ {w}) /\ kq' = [kq EXCEPT ![k] = kq'[k]]
    BY <2>1 DEF Passes
  <2>4. \A x \in Callers : x /= c /\ x /= w => (HoldsKey(x)' <=> HoldsKey(x))
    BY <1>1, <2>2 DEF HoldsKey
  <2>5. HoldsKey(w)' /\ key'[w] = k
    BY <1>1, <2>2 DEF HoldsKey
  <2>6. ASSUME NEW e \in Key
        PROVE  KeyWaiters(e)' = KeyWaiters(e) \ {w}
    <3>1. c \notin KeyWaiters(e)
      BY <1>2 DEF KeyWaiters
    <3> QED BY <1>1, <2>2, <3>1 DEF KeyWaiters
  <2>7. ASSUME NEW e \in Key
        PROVE  /\ \A x \in Callers : holder'[e] = x <=> (key[x] = e /\ HoldsKey(x))'
               /\ Lists(Callers, kq'[e], KeyWaiters(e)')
               /\ holder'[e] = None => kq'[e] = <<>>
    <3>1. CASE e = k
      <4>1. holder'[k] = w /\ w /= None
        BY <2>2, KeyHeldBy, CallersAssumption
      <4>2. \A x \in Callers : x /= w => ~(key[x] = k /\ HoldsKey(x))'
        BY <1>1, <2>4, KeyHeldBy DEF Holding
      <4> QED BY <2>3, <2>5, <2>6, <3>1, <4>1, <4>2
    <3>2. CASE e /= k
      <4>1. holder'[e] = holder[e] /\ kq'[e] = kq[e]
        BY <2>2, <2>3, <3>2, KeyHeldBy
      <4>2. \A x \in Callers : (key[x] = e /\ HoldsKey(x))' <=> Holding(x, e)
        BY <1>1, <1>2, <2>2, <2>4, <2>5, <3>2 DEF Holding
      <4>3. KeyWaiters(e)' = KeyWaiters(e)
        BY <2>2, <2>6, <3>2 DEF KeyWaiters
      <4> QED BY <4>1, <4>2, <4>3, KeyHeldBy
    <3> QED BY <3>1, <3>2
  <2> QED BY <2>7 DEF KeysRight
<1> QED BY <1>3, <1>4

KeyQuiet(c) == \/ Enter(c) \/ CtxEnds(c) \/ KeyGranted(c) \/ ClaimTakes(c) \/ ClaimRefused(c)
               \/ ClaimQueues(c) \/ UnitsGranted(c) \/ UnitsGivenUp(c) \/ Run(c)
               \/ HandlerEnds(c) \/ ReleaseUnits(c) \/ Exit(c) \/ MarkDrained(c)

(* Who else is served by an action that does not touch the keys waits for  *)
(* units.                                                                  *)
LEMMA QuietWakes ==
  ASSUME Inv, NEW c \in Callers, KeyQuiet(c)
  PROVE  /\ holder' = holder /\ kq' = kq
         /\ \A x \in Callers : x /= c => state'[x] = state[x] \/ pc[x] = "claimWait"
<1>1. state \in [Callers -> {"none", "waiting", "granted", "withdrawn"}]
  BY DEF Inv, TypeOK
<1>2. holder' = holder /\ kq' = kq
  BY DEF KeyQuiet, Enter, CtxEnds, KeyGranted, ClaimTakes, ClaimRefused, ClaimQueues,
         UnitsGranted, UnitsGivenUp, Run, HandlerEnds, ReleaseUnits, Exit, MarkDrained, keyVars
<1> SUFFICES \A x \in Callers : x /= c => state'[x] = state[x] \/ pc[x] = "claimWait"
  BY <1>2
<1>3. CASE UnitsGivenUp(c)
  <2> DEFINE r == Claim(c, next[c]+1).r
  <2>1. GivesUp(c, r)
    BY <1>3, GivingUp
  <2> HIDE DEF r
  <2>2. CASE \E u, T : Wakes(r, u, Waiters(r) \ {c}, Forget(c), T)
    BY <2>2, WakesWake
  <2>3. CASE state' = Forget(c)
    BY <1>1, <2>3 DEF Forget
  <2> QED BY <2>1, <2>2, <2>3 DEF GivesUp
<1>4. CASE ReleaseUnits(c)
  <2> DEFINE r == Claim(c, next[c]).r
  <2>1. \E u, T : Wakes(r, u, Waiters(r), state, T)
    BY <1>4, ReleaseWakes
  <2>2. c \notin Waiters(r)
    BY <1>4 DEF ReleaseUnits, Waiters
  <2> HIDE DEF r
  <2> QED BY <2>1, <2>2, WakesWake
<1>5. CASE ~(UnitsGivenUp(c) \/ ReleaseUnits(c))
  <2>1. state' = state \/ \E s : state' = [state EXCEPT ![c] = s]
    BY <1>5 DEF KeyQuiet, Enter, CtxEnds, KeyGranted, ClaimTakes, ClaimRefused, ClaimQueues,
                UnitsGranted, Run, HandlerEnds, Exit, MarkDrained, Forget
  <2> QED BY <1>1, <2>1
<1> QED BY <1>3, <1>4, <1>5

LEMMA QuietKeepsKeys ==
  ASSUME Inv, NEW c \in Callers, KeyQuiet(c)
  PROVE  KeysRight'
<1>1. Do(c)
  BY DEF KeyQuiet, Do, Proceeds, Admit
<1>2. Others(c)
  BY <1>1, DoFrames
<1>3. /\ pc \in [Callers -> PC] /\ key \in [Callers -> Key \cup {None}]
      /\ state \in [Callers -> {"none", "waiting", "granted", "withdrawn"}]
      /\ None \notin Key
  BY CallersAssumption DEF Inv, TypeOK
<1>4. \A x \in Callers : x /= c => \A k \in Key : /\ Holding(x, k)' <=> Holding(x, k)
                                                  /\ (x \in KeyWaiters(k))' <=> x \in KeyWaiters(k)
  BY <1>2, QuietWakes DEF Others, Holding, HoldsKey, KeyWaiters
<1>5. ASSUME NEW k \in Key
      PROVE  /\ Holding(c, k)' <=> Holding(c, k)
             /\ (c \in KeyWaiters(k))' <=> c \in KeyWaiters(k)
  <2>1. CASE Enter(c)
    <3>1. pc'[c] = "claim" => key'[c] = None
      BY <1>3, <2>1 DEF Enter, Goto
    <3>2. pc'[c] \in {"lock", "claim", "exit"} /\ pc[c] = "idle"
      BY <1>3, <2>1 DEF Enter, Goto
    <3> QED BY <1>3, <3>1, <3>2 DEF Holding, HoldsKey, KeyWaiters
  <2>2. CASE CtxEnds(c)
    BY <2>2 DEF CtxEnds, callVars, Holding, HoldsKey, KeyWaiters
  <2>3. CASE KeyGranted(c)
    BY <1>3, <2>3 DEF KeyGranted, Goto, callVars, Holding, HoldsKey, KeyWaiters
  <2>4. CASE Exit(c) \/ MarkDrained(c)
    BY <1>3, <2>4 DEF Exit, MarkDrained, Goto, callVars, Holding, HoldsKey, KeyWaiters
  <2>5. CASE ClaimTakes(c) \/ ClaimRefused(c) \/ ClaimQueues(c) \/ UnitsGranted(c)
             \/ UnitsGivenUp(c) \/ Run(c) \/ HandlerEnds(c) \/ ReleaseUnits(c)
    <3>1. /\ pc[c] \in {"claim", "claimWait", "handler", "release"}
          /\ pc'[c] \in {"claim", "claimWait", "handler", "release"}
          /\ key' = key
      BY <1>3, <2>5 DEF ClaimTakes, ClaimRefused, ClaimQueues, UnitsGranted, UnitsGivenUp,
                        Run, HandlerEnds, ReleaseUnits, Goto, callVars
    <3> QED BY <3>1 DEF Holding, HoldsKey, KeyWaiters
  <2> QED BY <2>1, <2>2, <2>3, <2>4, <2>5 DEF KeyQuiet
<1>6. \A k \in Key : KeyKept(k)
  BY <1>4, <1>5 DEF KeyKept
<1> QED BY <1>6, QuietWakes, KeyStays DEF KeysRight

LEMMA DoKeepsKeys ==
  ASSUME Inv, NEW c \in Callers, Do(c)
  PROVE  KeysRight'
<1>1. Others(c)
  BY DoFrames
<1>2. /\ pc \in [Callers -> PC]
      /\ state \in [Callers -> {"none", "waiting", "granted", "withdrawn"}]
      /\ Forget(c) \in [Callers -> {"none", "waiting", "granted", "withdrawn"}]
      /\ \A x \in Callers : x /= c => Forget(c)[x] = state[x]
  BY DEF Inv, TypeOK, Forget
<1>3. CASE KeyQuiet(c)
  BY <1>3, QuietKeepsKeys
<1>4. CASE LockFree(c)
  <2> DEFINE k == key[c]
  <2>1. k \in Key /\ pc[c] = "lock" /\ holder[k] = None /\ c /= None
    BY <1>4, CallersAssumption DEF LockFree, Inv, Calls
  <2>2. holder' = [holder EXCEPT ![k] = c] /\ kq' = kq /\ state' = state /\ key' = key
        /\ pc'[c] = "claim"
    BY <1>2, <1>4 DEF LockFree, Goto, callVars
  <2>3. \A x \in Callers : x /= c => (HoldsKey(x)' <=> HoldsKey(x))
    BY <1>1, <2>2 DEF Others, HoldsKey
  <2>4. ~HoldsKey(c) /\ HoldsKey(c)'
    BY <2>1, <2>2 DEF HoldsKey
  <2>5. \A e \in Key : KeyWaiters(e)' = KeyWaiters(e)
    BY <1>1, <2>1, <2>2 DEF Others, KeyWaiters
  <2>6. ASSUME NEW e \in Key
        PROVE  /\ \A x \in Callers : holder'[e] = x <=> (key[x] = e /\ HoldsKey(x))'
               /\ Lists(Callers, kq'[e], KeyWaiters(e)')
               /\ holder'[e] = None => kq'[e] = <<>>
    <3>1. \A x \in Callers : x /= c => ((key[x] = e /\ HoldsKey(x))' <=> Holding(x, e))
      BY <2>2, <2>3 DEF Holding
    <3>2. (key[c] = e /\ HoldsKey(c))' <=> e = k
      BY <2>2, <2>4
    <3>3. CASE e = k
      <4>1. \A x \in Callers : ~Holding(x, e)
        BY <2>1, <3>3, KeyHeldBy, CallersAssumption
      <4> QED BY <2>1, <2>2, <2>5, <3>1, <3>2, <3>3, <4>1, KeyHeldBy
    <3>4. CASE e /= k
      <4>1. ~Holding(c, e)
        BY <2>4 DEF Holding
      <4> QED BY <2>2, <2>5, <3>1, <3>2, <3>4, <4>1, KeyHeldBy
    <3> QED BY <3>3, <3>4
  <2> QED BY <2>6 DEF KeysRight
<1>5. CASE LockHeld(c)
  <2> DEFINE k == key[c]
  <2>1. k \in Key /\ pc[c] = "lock" /\ holder[k] /= None
    BY <1>5 DEF LockHeld, Inv, Calls
  <2>2. holder' = holder /\ key' = key
    BY <1>5 DEF LockHeld, callVars
  <2>3. CASE Fail(c) /\ UNCHANGED <<kq, state>>
    <3>1. pc'[c] = "exit"
      BY <1>2, <2>3 DEF Fail, Goto
    <3>2. \A e \in Key : KeyKept(e)
      BY <1>1, <2>1, <2>2, <2>3, <3>1 DEF KeyKept, Others, Holding, HoldsKey, KeyWaiters
    <3> QED BY <2>2, <2>3, <3>2, KeyStays DEF KeysRight
  <2>4. CASE /\ kq' = [kq EXCEPT ![k] = Append(kq[k], c)]
             /\ state' = [state EXCEPT ![c] = "waiting"]
             /\ Goto(c, "keyWait")
    <3>1. pc'[c] = "keyWait" /\ state'[c] = "waiting"
          /\ \A x \in Callers : x /= c => state'[x] = state[x]
      BY <1>2, <2>4 DEF Goto
    <3>2. \A e \in Key : KeyWaiters(e)' = IF e = k THEN KeyWaiters(e) \cup {c} ELSE KeyWaiters(e)
      BY <1>1, <2>1, <2>2, <3>1 DEF Others, KeyWaiters
    <3>3. \A x \in Callers, e \in Key : (key[x] = e /\ HoldsKey(x))' <=> Holding(x, e)
      BY <1>1, <2>1, <2>2, <3>1 DEF Others, Holding, HoldsKey
    <3>4. Lists(Callers, Append(kq[k], c), KeyWaiters(k) \cup {c})
      <4>1. c \notin KeyWaiters(k) /\ Lists(Callers, kq[k], KeyWaiters(k))
        BY <2>1, KeyHeldBy DEF KeyWaiters
      <4> HIDE DEF k
      <4> QED BY ONLY <4>1, c \in Callers, ListsAppend
    <3>5. kq \in [Key -> Seq(Callers)]
      BY DEF Inv, TypeOK
    <3>6. ASSUME NEW e \in Key
          PROVE  /\ \A x \in Callers : holder'[e] = x <=> (key[x] = e /\ HoldsKey(x))'
                 /\ Lists(Callers, kq'[e], KeyWaiters(e)')
                 /\ holder'[e] = None => kq'[e] = <<>>
      <4>1. CASE e = k
        <5>1. kq'[e] = Append(kq[e], c) /\ KeyWaiters(e)' = KeyWaiters(e) \cup {c}
          BY <2>1, <2>4, <3>2, <3>5, <4>1
        <5>2. Lists(Callers, kq'[e], KeyWaiters(e)')
          BY <3>4, <4>1, <5>1
        <5> QED BY <2>1, <2>2, <3>3, <4>1, <5>2, KeyHeldBy
      <4>2. CASE e /= k
        BY <2>1, <2>2, <2>4, <3>2, <3>3, <3>5, <4>2, KeyHeldBy
      <4> QED BY <4>1, <4>2
    <3> QED BY <3>6 DEF KeysRight
  <2> QED BY <1>5, <2>3, <2>4 DEF LockHeld
<1>6. CASE KeyGivenUp(c)
  <2> DEFINE k == key[c]
  <2>1. k \in Key /\ GivesUpKey(c, k)
    BY <1>6, GivingUpKey
  <2>2. pc[c] = "keyWait" /\ pc'[c] = "exit"
    BY <1>2, <1>6 DEF KeyGivenUp, Fail, Goto
  <2>3. key' = key
    BY <1>6 DEF KeyGivenUp, callVars
  <2>4. CASE state[c] = "granted"
    <3>1. Holding(c, k)
      BY <2>2, <2>4 DEF Holding, HoldsKey
    <3>2. \/ /\ KeyWaiters(k) = {} /\ kq[k] = <<>>
             /\ holder' = [holder EXCEPT ![k] = None]
             /\ state' = Forget(c) /\ kq' = kq
          \/ \E w : Passes(k, Forget(c), w)
      BY <2>1, <2>4 DEF GivesUpKey
    <3> HIDE DEF k
    <3> QED BY <1>1, <1>2, <2>1, <2>2, <3>1, <3>2, KeyPassed
  <2>5. CASE state[c] /= "granted"
    <3>1. state' = Forget(c) /\ holder' = holder
      BY <2>1, <2>5 DEF GivesUpKey
    <3>2. \A x \in Callers : x /= c => state'[x] = state[x]
      BY <1>2, <3>1
    <3>3. \A x \in Callers, e \in Key : (key[x] = e /\ HoldsKey(x))' <=> Holding(x, e)
      BY <1>1, <2>2, <2>5, <3>2 DEF Others, Holding, HoldsKey
    <3>4. \A e \in Key : KeyWaiters(e)' = KeyWaiters(e) \ {c}
      BY <1>1, <2>2, <2>3, <3>2 DEF Others, KeyWaiters
    <3>5. ASSUME NEW e \in Key
          PROVE  /\ Lists(Callers, kq'[e], KeyWaiters(e)')
                 /\ holder'[e] = None => kq'[e] = <<>>
      <4>1. CASE state[c] = "waiting" /\ e = k
        <5>1. Lists(Callers, kq'[k], KeyWaiters(k) \ {c})
          BY <2>1, <4>1 DEF GivesUpKey
        <5>2. c \in ToSet(kq[k])
          <6>1. c \in KeyWaiters(k)
            BY <2>2, <4>1 DEF KeyWaiters
          <6> QED BY <2>1, <6>1, KeyHeldBy DEF Lists
        <5>3. kq[k] /= <<>>
          BY <5>2 DEF ToSet
        <5> QED BY <2>1, <3>1, <3>4, <4>1, <5>1, <5>3, KeyHeldBy
      <4>2. CASE ~(state[c] = "waiting" /\ e = k)
        <5>1. c \notin KeyWaiters(e)
          BY <4>2 DEF KeyWaiters
        <5>2. kq'[e] = kq[e]
          BY <2>1, <2>5, <4>2 DEF GivesUpKey
        <5>3. KeyWaiters(e) \ {c} = KeyWaiters(e)
          BY <5>1
        <5> QED BY <3>1, <3>4, <5>2, <5>3, KeyHeldBy
      <4> QED BY <4>1, <4>2
    <3> QED BY <3>1, <3>3, <3>5, KeyHeldBy DEF KeysRight
  <2> QED BY <2>4, <2>5
<1>7. CASE ReleaseKey(c)
  <2>1. pc[c] = "release" /\ pc'[c] = "exit" /\ key' = key
    BY <1>2, <1>7 DEF ReleaseKey, Fail, Goto, callVars
  <2>2. CASE key[c] = None
    <3>1. state' = state /\ holder' = holder /\ kq' = kq
      BY <1>7, <2>2 DEF ReleaseKey, keyVars
    <3>2. \A e \in Key : KeyKept(e)
      BY <1>1, <2>1, <2>2, <3>1, CallersAssumption
         DEF KeyKept, Others, Holding, HoldsKey, KeyWaiters
    <3> QED BY <3>1, <3>2, KeyStays DEF KeysRight
  <2>3. CASE key[c] /= None
    <3> DEFINE k == key[c]
    <3>1. k \in Key /\ HandOff(k, state) /\ Holding(c, k)
      BY <1>7, <2>1, <2>3 DEF ReleaseKey, Inv, TypeOK, Holding, HoldsKey
    <3> HIDE DEF k
    <3>2. \/ /\ KeyWaiters(k) = {} /\ kq[k] = <<>>
             /\ holder' = [holder EXCEPT ![k] = None]
             /\ state' = state /\ kq' = kq
          \/ \E w : Passes(k, state, w)
      BY <3>1, HandOffPasses
    <3> QED BY <1>1, <1>2, <2>1, <3>1, <3>2, KeyPassed
  <2> QED BY <2>2, <2>3
<1> QED BY <1>3, <1>4, <1>5, <1>6, <1>7 DEF KeyQuiet, Do, Proceeds, Admit

LEMMA ShutdownKeepsKeys ==
  ASSUME Inv, Shutdown
  PROVE  KeysRight'
<1>1. /\ pc' = pc /\ key' = key /\ holder' = holder
      /\ \A x \in Callers : state'[x] = state[x] \/ Woken(x, "withdrawn")
  BY ShutdownFrames
<1>2. \A x \in Callers, e \in Key : (key[x] = e /\ HoldsKey(x))' <=> Holding(x, e)
  BY <1>1 DEF HoldsKey, Holding, Woken
<1>3. CASE CloseKeys
  <2>1. \A e \in Key : kq'[e] = <<>>
    BY <1>3 DEF CloseKeys
  <2>2. \A x \in Callers : pc[x] = "keyWait" => state'[x] /= "waiting"
    BY <1>3, Withdrawn DEF Withdraw
  <2>3. \A e \in Key : KeyWaiters(e)' = {}
    BY <1>1, <2>2 DEF KeyWaiters
  <2>4. Lists(Callers, <<>>, {})
    BY DEF Lists, IsInjective, ToSet
  <2> QED BY <1>1, <1>2, <2>1, <2>3, <2>4, KeyHeldBy DEF KeysRight
<1>4. CASE ~CloseKeys
  <2>1. kq' = kq
    BY <1>4 DEF Shutdown, ShutdownProceeds, Stop, CloseBudget, Mark, ReturnNil, keyVars
  <2>2. \A x \in Callers : pc[x] = "keyWait" => state'[x] = state[x]
    <3>1. CASE CloseBudget
      BY <3>1, Withdrawn DEF Withdraw, Waiters
    <3> QED BY <1>4, <3>1 DEF Shutdown, ShutdownProceeds, Stop, Mark, ReturnNil
  <2>3. \A e \in Key : KeyWaiters(e)' = KeyWaiters(e)
    BY <1>1, <2>2 DEF KeyWaiters
  <2> QED BY <1>1, <1>2, <2>1, <2>3, KeyHeldBy DEF KeysRight
<1> QED BY <1>3, <1>4
-----------------------------------------------------------------------------
(* What a call has of a budget, by how many of its claims it has.          *)
HasTo(c, m, r) == IF \E i \in 1..m : Claim(c, i).r = r THEN UnitsOf(c, r) ELSE 0

LEMMA HasNext ==
  ASSUME NEW c, op[c] \in Ops, NEW m \in 1..Len(Claims[op[c]])
  PROVE  /\ HasTo(c, m, Claim(c, m).r) = Claim(c, m).n
         /\ HasTo(c, m-1, Claim(c, m).r) = 0
         /\ \A r : r /= Claim(c, m).r => HasTo(c, m, r) = HasTo(c, m-1, r)
<1>1. Len(Claims[op[c]]) \in Nat /\ m \in Nat
  BY ClaimsAre
<1>2. /\ UnitsOf(c, Claim(c, m).r) = Claim(c, m).n
      /\ \A j \in 1..Len(Claims[op[c]]) : Claim(c, m).r = Claim(c, j).r => m = j
  BY UnitsAre
<1>3. 1..m = (1..(m-1)) \cup {m} /\ m \notin 1..(m-1)
  BY <1>1
<1>4. 1..m \subseteq 1..Len(Claims[op[c]])
  BY <1>1
<1> QED BY <1>2, <1>3, <1>4 DEF HasTo

LEMMA HasToType ==
  ASSUME NEW c, op[c] \in Ops, NEW m \in 0..Len(Claims[op[c]])
  PROVE  \A r : HasTo(c, m, r) \in Nat
<1>1. Len(Claims[op[c]]) \in Nat /\ m \in Nat
  BY ClaimsAre
<1> SUFFICES ASSUME NEW r, NEW i \in 1..m, Claim(c, i).r = r PROVE UnitsOf(c, r) \in Nat
  BY DEF HasTo
<1>2. i \in 1..Len(Claims[op[c]])
  BY <1>1
<1>3. UnitsOf(c, Claim(c, i).r) \in Nat
  BY <1>2, UnitsAre
<1> QED BY <1>3

LEMMA HasThen ==
  ASSUME NEW c, op'[c] = op[c]
  PROVE  \A r : Has(c, r)' = HasTo(c, Granted(c)', r)
BY DEF Has, HasTo, Claim, UnitsOf

LEMMA HasNow ==
  ASSUME NEW c
  PROVE  \A r : Has(c, r) = HasTo(c, Granted(c), r)
BY DEF Has, HasTo

LEMMA HasOfIdle ==
  ASSUME NEW c, next[c] = 0, pc[c] /= "claimWait"
  PROVE  \A r : Has(c, r) = 0
<1>1. 1..0 = {}
  OBVIOUS
<1> QED BY <1>1 DEF Has, Granted

LEMMA HasType ==
  ASSUME Inv, NEW c \in Callers
  PROVE  \A r : Has(c, r) \in Nat
<1>1. CASE op[c] = None
  <2>1. next[c] = 0 /\ pc[c] /= "claimWait"
    BY <1>1 DEF Inv, Calls
  <2> QED BY <2>1, HasOfIdle
<1>2. CASE op[c] /= None
  <2>1. /\ op[c] \in Ops /\ Len(Claims[op[c]]) \in Nat
        /\ next[c] \in 0..Len(Claims[op[c]])
        /\ pc[c] = "claimWait" => next[c] + 1 \in 1..Len(Claims[op[c]])
    BY <1>2, CallTypes
  <2>2. Granted(c) \in 0..Len(Claims[op[c]])
    BY <2>1 DEF Granted
  <2> QED BY <2>1, <2>2, HasToType, HasNow
<1> QED BY <1>1, <1>2

Shares(r) == [c \in Callers |-> Has(c, r)]

LEMMA SharesAre ==
  ASSUME Inv, NEW r \in Budgets
  PROVE  /\ Summands(Callers, Shares(r)) /\ Shares(r) \in [Callers -> Int]
         /\ used[r] = SumFunction(Shares(r)) /\ used[r] \in Int
         /\ \A c \in Callers : Shares(r)[c] = Has(c, r)
<1>1. Shares(r) \in [Callers -> Int]
  BY HasType DEF Shares
<1>2. Summands(Callers, Shares(r))
  BY <1>1, CallersAssumption DEF Summands
<1>3. used[r] = SumFunction(Shares(r))
  BY DEF Inv, BudgetsExact, Shares
<1> QED BY <1>1, <1>2, <1>3, UnitsInUse DEF Shares

(* A budget that nobody takes from or gives to stays exact.                *)
LEMMA BudgetStays ==
  ASSUME Inv, NEW r \in Budgets, used'[r] = used[r], \A x \in Callers : Has(x, r)' = Has(x, r)
  PROVE  used'[r] <= Size[r] /\ used'[r] = SumFunction([x \in Callers |-> Has(x, r)'])
<1>1. [x \in Callers |-> Has(x, r)'] = [x \in Callers |-> Has(x, r)]
  OBVIOUS
<1> QED BY <1>1 DEF Inv, BudgetsExact

LEMMA BudgetsExactThen ==
  ASSUME \A r \in Budgets :
           used'[r] <= Size[r] /\ used'[r] = SumFunction([x \in Callers |-> Has(x, r)'])
  PROVE  BudgetsExact'
BY DEF BudgetsExact

LEMMA OthersHave ==
  ASSUME NEW c, Others(c), NEW x \in Callers, x /= c,
         pc[x] = "claimWait" => state'[x] = state[x]
  PROVE  \A r : Has(x, r)' = Has(x, r)
<1>1. op'[x] = op[x] /\ pc'[x] = pc[x] /\ next'[x] = next[x]
  BY DEF Others
<1>2. Granted(x)' = Granted(x)
  BY <1>1 DEF Granted
<1> QED BY <1>1, <1>2, HasThen, HasNow

LEMMA WokenHave ==
  ASSUME Inv, NEW c, Others(c), NEW x \in Callers, x /= c, NEW r, x \in Waiters(r),
         state'[x] = "granted"
  PROVE  /\ Has(x, r) = 0 /\ Has(x, r)' = UnitsOf(x, r)
         /\ \A b : b /= r => Has(x, b)' = Has(x, b)
<1>1. op'[x] = op[x] /\ pc'[x] = pc[x] /\ next'[x] = next[x]
  BY DEF Others
<1>2. pc[x] = "claimWait" /\ state[x] = "waiting" /\ Claim(x, next[x] + 1).r = r
  BY DEF Waiters
<1>3. Claiming(x)
  BY <1>2 DEF Claiming
<1>4. /\ op[x] \in Ops /\ next[x] + 1 \in 1..Len(Claims[op[x]])
      /\ UnitsOf(x, Claim(x, next[x] + 1).r) = Claim(x, next[x] + 1).n
      /\ next[x] \in Nat
  BY <1>3, NextClaim DEF Inv, TypeOK
<1>5. Granted(x) = next[x] /\ Granted(x)' = next[x] + 1
  BY <1>1, <1>2 DEF Granted
<1> DEFINE m == next[x] + 1
<1>6. /\ HasTo(x, m, Claim(x, m).r) = Claim(x, m).n
      /\ HasTo(x, m-1, Claim(x, m).r) = 0
      /\ \A b : b /= Claim(x, m).r => HasTo(x, m, b) = HasTo(x, m-1, b)
  BY <1>4, HasNext
<1>7. m - 1 = next[x]
  BY <1>4
<1>8. \A b : Has(x, b) = HasTo(x, m-1, b) /\ Has(x, b)' = HasTo(x, m, b)
  <2>1. \A b : Has(x, b) = HasTo(x, Granted(x), b)
    BY HasNow
  <2>2. \A b : Has(x, b)' = HasTo(x, Granted(x)', b)
    BY <1>1, HasThen
  <2> QED BY <1>5, <1>7, <2>1, <2>2
<1> QED BY <1>2, <1>4, <1>6, <1>8

LEMMA WakesBudgets ==
  ASSUME Inv, NEW c \in Callers, Others(c), NEW r \in Budgets, NEW u, NEW st, NEW T,
         Wakes(r, u, Waiters(r) \ {c}, st, T),
         \A x \in Callers : x /= c => st[x] = state[x],
         u = used[r] - Has(c, r), Has(c, r)' = 0,
         \A b \in Budgets : b /= r => Has(c, b)' = Has(c, b)
  PROVE  BudgetsExact'
<1>1. /\ T \subseteq Waiters(r) /\ c \notin T
      /\ \A x \in Callers : x /= c => state'[x] = IF x \in T THEN "granted" ELSE state[x]
  BY DEF Wakes
<1>2. ASSUME NEW x \in Callers, x /= c, x \notin T
      PROVE  \A b : Has(x, b)' = Has(x, b)
  <2>1. state'[x] = state[x]
    BY <1>1, <1>2
  <2> QED BY <1>2, <2>1, OthersHave
<1>3. ASSUME NEW x \in T
      PROVE  /\ Has(x, r) = 0 /\ Has(x, r)' = UnitsOf(x, r)
             /\ \A b : b /= r => Has(x, b)' = Has(x, b)
  <2>1. x \in Callers /\ x /= c /\ x \in Waiters(r) /\ state'[x] = "granted"
    BY <1>1 DEF Waiters
  <2> QED BY <2>1, WokenHave
<1> DEFINE f == [x \in Callers |-> IF x = c THEN 0 ELSE Has(x, r)]
           g == [x \in Callers |-> f[x] + IF x \in T THEN UnitsOf(x, r) ELSE 0]
<1>4. SumFunction(f) = u
  <2>1. f \in [Callers -> Int] /\ f[c] = 0 /\ \A x \in Callers : x /= c => f[x] = Has(x, r)
    BY HasType
  <2> HIDE DEF f
  <2>2. Summands(Callers, Shares(r)) /\ used[r] = SumFunction(Shares(r)) /\ used[r] \in Int
        /\ \A x \in Callers : Shares(r)[x] = Has(x, r)
    BY SharesAre
  <2>3. Summands(Callers, f) /\ DifferAt(Callers, Shares(r), f, c)
    BY <2>1, <2>2, CallersAssumption DEF Summands, DifferAt
  <2>4. SumFunction(f) = SumFunction(Shares(r)) - Shares(r)[c] + f[c]
    BY <2>2, <2>3, SumUpdate
  <2>5. Has(c, r) \in Nat
    BY HasType
  <2> QED BY <2>1, <2>2, <2>4, <2>5
<1>5. f \in [Callers -> Int]
  BY HasType
<1>6. used'[r] = SumFunction(g) /\ used'[r] <= Size[r]
  BY <1>4, <1>5 DEF Wakes
<1>7. g = [x \in Callers |-> Has(x, r)']
  <2> SUFFICES ASSUME NEW x \in Callers PROVE g[x] = Has(x, r)'
    OBVIOUS
  <2>1. Has(x, r) \in Nat
    BY HasType
  <2>2. CASE x = c
    BY <1>1, <2>2
  <2>3. CASE x /= c /\ x \notin T
    BY <1>2, <2>1, <2>3
  <2>4. CASE x \in T
    <3>1. UnitsOf(x, r) \in Nat
      BY <1>1, <2>4, WaitersWant
    <3> QED BY <1>1, <1>3, <2>4, <3>1
  <2> QED BY <2>2, <2>3, <2>4
<1>8. ASSUME NEW b \in Budgets, b /= r
      PROVE  used'[b] <= Size[b] /\ used'[b] = SumFunction([x \in Callers |-> Has(x, b)'])
  <2>1. used'[b] = used[b]
    BY <1>8 DEF Wakes
  <2>2. \A x \in Callers : Has(x, b)' = Has(x, b)
    BY <1>2, <1>3, <1>8
  <2> QED BY <2>1, <2>2, BudgetStays
<1> HIDE DEF g
<1>9. \A b \in Budgets :
         used'[b] <= Size[b] /\ used'[b] = SumFunction([x \in Callers |-> Has(x, b)'])
  BY <1>6, <1>7, <1>8
<1> QED BY <1>9, BudgetsExactThen

LEMMA WakesQueues ==
  ASSUME Inv, NEW c \in Callers, Others(c), NEW r \in Budgets, NEW u, NEW st, NEW T,
         Wakes(r, u, Waiters(r) \ {c}, st, T),
         \A x \in Callers : x /= c => st[x] = state[x],
         pc'[c] /= "claimWait", \A b : b /= r => c \notin Waiters(b)
  PROVE  QueuesRight'
<1>1. /\ T \subseteq Waiters(r) /\ c \notin T
      /\ \A x \in Callers : x /= c => state'[x] = IF x \in T THEN "granted" ELSE state[x]
  BY DEF Wakes
<1>2. \A x \in Callers : x /= c =>
        /\ pc'[x] = pc[x] /\ op'[x] = op[x] /\ next'[x] = next[x]
        /\ Claim(x, next[x] + 1)' = Claim(x, next[x] + 1)
  BY DEF Others, Claim
<1>3. ASSUME NEW b \in Budgets
      PROVE  Waiters(b)' = (Waiters(b) \ {c}) \ T
  BY <1>1, <1>2 DEF Waiters
<1>4. Lists(Callers, q'[r], Waiters(r)')
  BY <1>3 DEF Wakes
<1>5. ASSUME NEW b \in Budgets, b /= r
      PROVE  Lists(Callers, q'[b], Waiters(b)')
  <2>1. q'[b] = q[b]
    BY <1>5 DEF Wakes
  <2>2. (Waiters(b) \ {c}) \ T = Waiters(b)
    BY <1>1, <1>5 DEF Waiters
  <2> QED BY <1>3, <2>1, <2>2 DEF Inv, QueuesRight
<1> QED BY <1>4, <1>5 DEF QueuesRight

(* Who else is served by an action that does not touch the budgets waits   *)
(* for a key.                                                              *)
LEMMA KeyWakes ==
  ASSUME Inv, NEW c \in Callers, Do(c), ~(UnitsGivenUp(c) \/ ReleaseUnits(c))
  PROVE  \A x \in Callers : x /= c => state'[x] = state[x] \/ pc[x] = "keyWait"
<1>1. state \in [Callers -> {"none", "waiting", "granted", "withdrawn"}]
      /\ \A x \in Callers : x /= c => Forget(c)[x] = state[x]
  BY DEF Inv, TypeOK, Forget
<1>2. ASSUME NEW k, NEW st, NEW w, Passes(k, st, w),
             st \in [Callers -> {"none", "waiting", "granted", "withdrawn"}],
             \A x \in Callers : x /= c => st[x] = state[x]
      PROVE  \A x \in Callers : x /= c => state'[x] = state[x] \/ pc[x] = "keyWait"
  BY <1>2 DEF Passes, KeyWaiters
<1>3. Forget(c) \in [Callers -> {"none", "waiting", "granted", "withdrawn"}]
  BY <1>1 DEF Forget
<1>4. CASE KeyGivenUp(c)
  <2> DEFINE k == key[c]
  <2>1. GivesUpKey(c, k)
    BY <1>4, GivingUpKey
  <2> HIDE DEF k
  <2>2. state' = Forget(c) \/ \E w : Passes(k, Forget(c), w)
    BY <2>1 DEF GivesUpKey
  <2> QED BY <1>1, <1>2, <1>3, <2>2
<1>5. CASE ReleaseKey(c)
  <2>1. CASE key[c] = None
    BY <1>5, <2>1 DEF ReleaseKey
  <2>2. CASE key[c] /= None
    <3>1. key[c] \in Key /\ HandOff(key[c], state)
      BY <1>5, <2>2 DEF ReleaseKey, Inv, TypeOK
    <3>2. state' = state \/ \E w : Passes(key[c], state, w)
      BY <3>1, HandOffPasses
    <3> QED BY <1>1, <1>2, <3>2
  <2> QED BY <2>1, <2>2
<1>6. CASE ~(KeyGivenUp(c) \/ ReleaseKey(c))
  <2>1. state' = state \/ \E s : state' = [state EXCEPT ![c] = s]
    BY <1>6 DEF Enter, CtxEnds, LockFree, LockHeld, KeyGranted, ClaimTakes,
                ClaimRefused, ClaimQueues, UnitsGranted, Run, HandlerEnds,
                Exit, MarkDrained, Do, Proceeds, Admit, Forget
  <2> QED BY <1>1, <2>1
<1> QED BY <1>4, <1>5, <1>6

LEMMA DoKeepsQueues ==
  ASSUME Inv, NEW c \in Callers, Do(c)
  PROVE  QueuesRight'
<1>1. Others(c)
  BY DoFrames
<1>2. /\ pc \in [Callers -> PC]
      /\ state \in [Callers -> {"none", "waiting", "granted", "withdrawn"}]
      /\ \A x \in Callers : x /= c => Forget(c)[x] = state[x]
  BY DEF Inv, TypeOK, Forget
<1>3. \A x \in Callers : x /= c =>
        /\ pc'[x] = pc[x] /\ op'[x] = op[x] /\ next'[x] = next[x]
        /\ Claim(x, next[x] + 1)' = Claim(x, next[x] + 1)
  BY <1>1 DEF Others, Claim
<1>4. \A b \in Budgets : Lists(Callers, q[b], Waiters(b))
  BY DEF Inv, QueuesRight
<1>5. CASE ClaimQueues(c)
  <2> DEFINE r == Claim(c, next[c] + 1).r
  <2>1. r \in Budgets
    BY <1>5, NextClaim DEF ClaimQueues, Claiming
  <2>2. q' = [q EXCEPT ![r] = Append(q[r], c)] /\ op' = op /\ next' = next
    BY <1>5 DEF ClaimQueues, callVars
  <2>3. r' = r
    BY <2>2 DEF Claim
  <2>4. pc[c] = "claim" /\ pc'[c] = "claimWait" /\ state'[c] = "waiting"
        /\ \A x \in Callers : x /= c => state'[x] = state[x]
    BY <1>2, <1>5 DEF ClaimQueues, Goto
  <2>5. ASSUME NEW b \in Budgets
        PROVE  Waiters(b)' = IF b = r THEN Waiters(b) \cup {c} ELSE Waiters(b)
    <3>1. c \in Waiters(b)' <=> r = b
      BY <2>3, <2>4 DEF Waiters
    <3>2. \A x \in Callers : x /= c => (x \in Waiters(b)' <=> x \in Waiters(b))
      BY <1>3, <2>4 DEF Waiters
    <3>3. c \notin Waiters(b) /\ Waiters(b) \subseteq Callers /\ Waiters(b)' \subseteq Callers
      BY <2>4 DEF Waiters
    <3> QED BY <3>1, <3>2, <3>3
  <2> HIDE DEF r
  <2>6. ASSUME NEW b \in Budgets
        PROVE  Lists(Callers, q'[b], Waiters(b)')
    <3>1. CASE b = r
      <4>1. c \notin Waiters(b) /\ Lists(Callers, q[b], Waiters(b))
        BY <1>4, <2>4 DEF Waiters
      <4>2. Lists(Callers, Append(q[b], c), Waiters(b) \cup {c})
        BY ONLY <4>1, c \in Callers, ListsAppend
      <4>3. q'[b] = Append(q[b], c)
        BY <2>2, <3>1 DEF Inv, TypeOK
      <4> QED BY <2>5, <3>1, <4>2, <4>3
    <3>2. CASE b /= r
      <4>1. q'[b] = q[b]
        BY <2>2, <3>2 DEF Inv, TypeOK
      <4> QED BY <1>4, <2>5, <3>2, <4>1
    <3> QED BY <3>1, <3>2
  <2> QED BY <2>6 DEF QueuesRight
<1>6. CASE UnitsGivenUp(c)
  <2> DEFINE r == Claim(c, next[c] + 1).r
  <2>1. r \in Budgets /\ GivesUp(c, r)
    BY <1>6, GivingUp
  <2>2. \A b : b /= r => c \notin Waiters(b)
    BY DEF Waiters
  <2>3. state[c] /= "waiting" => \A b : c \notin Waiters(b)
    BY DEF Waiters
  <2> HIDE DEF r
  <2>4. pc'[c] = "release"
    BY <1>2, <1>6 DEF UnitsGivenUp, Goto
  <2>5. CASE \E u, T : Wakes(r, u, Waiters(r) \ {c}, Forget(c), T)
    BY <1>1, <1>2, <2>1, <2>2, <2>4, <2>5, WakesQueues
  <2>6. CASE ~ \E u, T : Wakes(r, u, Waiters(r) \ {c}, Forget(c), T)
    <3>1. state' = Forget(c)
      BY <2>1, <2>6 DEF GivesUp
    <3>2. \A b \in Budgets : Waiters(b)' = Waiters(b) \ {c}
      BY <1>2, <1>3, <2>4, <3>1 DEF Waiters
    <3>3. \A b \in Budgets : Lists(Callers, q'[b], Waiters(b) \ {c})
      <4> SUFFICES ASSUME NEW b \in Budgets PROVE Lists(Callers, q'[b], Waiters(b) \ {c})
        OBVIOUS
      <4>1. CASE state[c] = "waiting" /\ b = r
        BY <2>1, <2>6, <4>1 DEF GivesUp
      <4>2. CASE ~(state[c] = "waiting" /\ b = r)
        <5>1. Waiters(b) \ {c} = Waiters(b)
          BY <2>2, <2>3, <4>2
        <5>2. q'[b] = q[b]
          BY <2>1, <2>6, <4>2 DEF GivesUp
        <5> QED BY <1>4, <5>1, <5>2
      <4> QED BY <4>1, <4>2
    <3> QED BY <3>2, <3>3 DEF QueuesRight
  <2> QED BY <2>5, <2>6
<1>7. CASE ReleaseUnits(c)
  <2> DEFINE r == Claim(c, next[c]).r
  <2>1. r \in Budgets /\ \E u, T : Wakes(r, u, Waiters(r), state, T)
    BY <1>7, ReleaseWakes
  <2>2. pc[c] = "release" /\ pc'[c] = "release"
    BY <1>7 DEF ReleaseUnits
  <2>3. \A b : c \notin Waiters(b)
    BY <2>2 DEF Waiters
  <2> HIDE DEF r
  <2>4. Waiters(r) \ {c} = Waiters(r)
    BY <2>3
  <2>5. \E u, T : Wakes(r, u, Waiters(r) \ {c}, state, T)
    BY <2>1, <2>4
  <2>6. pc'[c] /= "claimWait"
    BY <2>2
  <2> QED BY <1>1, <2>1, <2>3, <2>5, <2>6, WakesQueues
<1>8. CASE ~(ClaimQueues(c) \/ UnitsGivenUp(c) \/ ReleaseUnits(c))
  <2>1. q' = q
    BY <1>8 DEF Enter, CtxEnds, LockFree, LockHeld, KeyGranted, KeyGivenUp, ClaimTakes,
                ClaimRefused, UnitsGranted, Run, HandlerEnds, ReleaseKey, Exit, MarkDrained,
                Do, Proceeds, Admit, budgetVars
  <2>2. \A x \in Callers : x /= c => state'[x] = state[x] \/ pc[x] = "keyWait"
    BY <1>8, KeyWakes
  <2>3. ASSUME NEW b \in Budgets
        PROVE  c \in Waiters(b)' <=> c \in Waiters(b)
    <3>1. CASE CtxEnds(c)
      BY <3>1 DEF CtxEnds, callVars, Waiters, Claim
    <3>2. CASE ~CtxEnds(c)
      <4>1. pc'[c] /= "claimWait" /\ (pc[c] = "claimWait" => state[c] /= "waiting")
        BY <1>2, <1>8, <3>2
           DEF Enter, LockFree, LockHeld, KeyGranted, KeyGivenUp, ClaimTakes,
               ClaimRefused, UnitsGranted, Run, HandlerEnds, ReleaseKey, Exit, MarkDrained,
               Do, Proceeds, Admit, Goto, Fail
      <4> QED BY <4>1 DEF Waiters
    <3> QED BY <3>1, <3>2
  <2>4. \A b \in Budgets : Waiters(b)' = Waiters(b)
    BY <1>3, <2>2, <2>3 DEF Waiters
  <2> QED BY <1>4, <2>1, <2>4 DEF QueuesRight
<1> QED BY <1>5, <1>6, <1>7, <1>8

LEMMA DoKeepsBudgets ==
  ASSUME Inv, NEW c \in Callers, Do(c)
  PROVE  BudgetsExact'
<1>1. Others(c)
  BY DoFrames
<1>2. /\ pc \in [Callers -> PC] /\ next \in [Callers -> Nat] /\ op \in [Callers -> Ops \cup {None}]
      /\ state \in [Callers -> {"none", "waiting", "granted", "withdrawn"}]
      /\ \A x \in Callers : x /= c => Forget(c)[x] = state[x]
  BY DEF Inv, TypeOK, Forget
<1>3. \A b : Has(c, b) = HasTo(c, Granted(c), b)
  BY HasNow
<1>4. op'[c] = op[c] => \A b : Has(c, b)' = HasTo(c, Granted(c)', b)
  BY HasThen
<1>5. CASE ClaimTakes(c)
  <2>0. PICK m, r, n : m = next[c] + 1 /\ r = Claim(c, m).r /\ n = Claim(c, m).n
    OBVIOUS
  <2> DEFINE f == [x \in Callers |-> Has(x, r)']
  <2>1. /\ op[c] \in Ops /\ m \in 1..Len(Claims[op[c]])
        /\ r \in Budgets /\ n \in Nat
    BY <1>5, <2>0, NextClaim DEF ClaimTakes, Claiming
  <2>2. /\ HasTo(c, m, r) = n /\ HasTo(c, m-1, r) = 0
        /\ \A b : b /= r => HasTo(c, m, b) = HasTo(c, m-1, b)
    BY <2>0, <2>1, HasNext
  <2>3. /\ used[r] + n <= Size[r] /\ used' = [used EXCEPT ![r] = used[r] + n]
        /\ state' = state
    BY <1>5, <2>0 DEF ClaimTakes, AtOnce
  <2>4. Granted(c) = m-1 /\ Granted(c)' = m /\ op'[c] = op[c]
    BY <1>2, <1>5, <2>0 DEF ClaimTakes, Granted, callVars
  <2>5. \A x \in Callers : x /= c => \A b : Has(x, b)' = Has(x, b)
    BY <1>1, <2>3, OthersHave
  <2>6. /\ Has(c, r) = 0 /\ Has(c, r)' = n
        /\ \A b : b /= r => Has(c, b)' = Has(c, b)
    BY <1>3, <1>4, <2>2, <2>4
  <2>7. /\ Summands(Callers, Shares(r)) /\ used[r] = SumFunction(Shares(r)) /\ used[r] \in Int
        /\ \A x \in Callers : Shares(r)[x] = Has(x, r)
    BY <2>1, SharesAre
  <2>8. /\ f \in [Callers -> Int] /\ f[c] = n
        /\ \A x \in Callers : x /= c => f[x] = Has(x, r)
    BY <2>1, <2>5, <2>6, HasType
  <2> HIDE DEF f
  <2>9. Summands(Callers, f) /\ DifferAt(Callers, Shares(r), f, c)
    BY <2>7, <2>8, CallersAssumption DEF Summands, DifferAt
  <2>10. SumFunction(f) = SumFunction(Shares(r)) - Shares(r)[c] + f[c]
    BY <2>7, <2>9, SumUpdate
  <2>11. used'[r] = SumFunction(f) /\ used'[r] <= Size[r]
    <3>1. used'[r] = used[r] + n
      BY <2>1, <2>3 DEF Inv, TypeOK
    <3> QED BY <2>1, <2>3, <2>6, <2>7, <2>8, <2>10, <3>1
  <2>12. ASSUME NEW b \in Budgets, b /= r
         PROVE  used'[b] <= Size[b] /\ used'[b] = SumFunction([x \in Callers |-> Has(x, b)'])
    <3>1. used'[b] = used[b]
      BY <2>3, <2>12 DEF Inv, TypeOK
    <3>2. \A x \in Callers : Has(x, b)' = Has(x, b)
      BY <2>5, <2>6, <2>12
    <3> QED BY <3>1, <3>2, BudgetStays
  <2>13. \A b \in Budgets :
           used'[b] <= Size[b] /\ used'[b] = SumFunction([x \in Callers |-> Has(x, b)'])
    BY <2>11, <2>12 DEF f
  <2> QED BY <2>13, BudgetsExactThen
<1>6. CASE UnitsGivenUp(c)
  <2>0. PICK m, r, n : m = next[c] + 1 /\ r = Claim(c, m).r /\ n = Claim(c, m).n
    OBVIOUS
  <2>1. /\ op[c] \in Ops /\ m \in 1..Len(Claims[op[c]])
        /\ r \in Budgets /\ GivesUp(c, r)
    BY <1>6, <2>0, GivingUp
  <2>2. /\ HasTo(c, m, r) = n /\ HasTo(c, m-1, r) = 0
        /\ \A b : b /= r => HasTo(c, m, b) = HasTo(c, m-1, b)
    BY <2>0, <2>1, HasNext
  <2>3. /\ Granted(c) = IF state[c] = "granted" THEN m ELSE m-1
        /\ Granted(c)' = m-1 /\ op'[c] = op[c]
    BY <1>2, <1>6, <2>0 DEF UnitsGivenUp, Granted, Goto, callVars
  <2>4. used[r] \in Int
    BY <2>1, UnitsInUse
  <2>5. \/ state[c] = "waiting" /\ \E T : Wakes(r, used[r], Waiters(r) \ {c}, Forget(c), T)
        \/ state[c] = "granted" /\ \E T : Wakes(r, used[r] - n, Waiters(r) \ {c}, Forget(c), T)
        \/ state[c] /= "granted" /\ state' = Forget(c) /\ used' = used
    BY <2>0, <2>1 DEF GivesUp
  <2>6. /\ Has(c, r) = IF state[c] = "granted" THEN n ELSE 0
        /\ Has(c, r)' = 0
        /\ \A b : b /= r => Has(c, b)' = Has(c, b)
    BY <1>3, <1>4, <2>2, <2>3
  <2>7. CASE state[c] = "waiting" /\ \E T : Wakes(r, used[r], Waiters(r) \ {c}, Forget(c), T)
    <3>1. used[r] = used[r] - Has(c, r)
      BY <2>4, <2>6, <2>7
    <3> QED BY <1>1, <1>2, <2>1, <2>6, <2>7, <3>1, WakesBudgets
  <2>8. CASE state[c] = "granted" /\ \E T : Wakes(r, used[r] - n, Waiters(r) \ {c}, Forget(c), T)
    <3>1. used[r] - n = used[r] - Has(c, r)
      BY <2>6, <2>8
    <3> QED BY <1>1, <1>2, <2>1, <2>6, <2>8, <3>1, WakesBudgets
  <2>9. CASE state[c] /= "granted" /\ state' = Forget(c) /\ used' = used
    <3>1. \A x \in Callers, b \in Budgets : Has(x, b)' = Has(x, b)
      BY <1>1, <1>2, <2>6, <2>9, OthersHave
    <3> QED BY <2>9, <3>1, BudgetStays, BudgetsExactThen
  <2> QED BY <2>5, <2>7, <2>8, <2>9
<1>7. CASE ReleaseUnits(c)
  <2>0. PICK m, r, n : m = next[c] /\ r = Claim(c, m).r /\ n = Claim(c, m).n
    OBVIOUS
  <2>1. /\ op[c] \in Ops /\ m \in 1..Len(Claims[op[c]])
        /\ r \in Budgets /\ \E T : Wakes(r, used[r] - n, Waiters(r), state, T)
    BY <1>7, <2>0, ReleaseWakes
  <2>2. /\ HasTo(c, m, r) = n /\ HasTo(c, m-1, r) = 0
        /\ \A b : b /= r => HasTo(c, m, b) = HasTo(c, m-1, b)
    BY <2>0, <2>1, HasNext
  <2>3. Granted(c) = m /\ Granted(c)' = m-1 /\ op'[c] = op[c]
    BY <1>2, <1>7, <2>0 DEF ReleaseUnits, Granted, callVars
  <2>4. c \notin Waiters(r)
    BY <1>7 DEF ReleaseUnits, Waiters
  <2>5. /\ Has(c, r) = n /\ Has(c, r)' = 0
        /\ \A b : b /= r => Has(c, b)' = Has(c, b)
    BY <1>3, <1>4, <2>2, <2>3
  <2>6. Waiters(r) \ {c} = Waiters(r)
    BY <2>4
  <2>7. \E T : Wakes(r, used[r] - n, Waiters(r) \ {c}, state, T)
    BY <2>1, <2>6
  <2>8. used[r] - n = used[r] - Has(c, r)
    BY <2>5
  <2> QED BY <1>1, <2>1, <2>5, <2>7, <2>8, WakesBudgets
<1>8. CASE ~(ClaimTakes(c) \/ UnitsGivenUp(c) \/ ReleaseUnits(c))
  <2>1. used' = used
    BY <1>8 DEF Enter, CtxEnds, LockFree, LockHeld, KeyGranted, KeyGivenUp, ClaimQueues,
                ClaimRefused, UnitsGranted, Run, HandlerEnds, ReleaseKey, Exit, MarkDrained,
                Do, Proceeds, Admit, budgetVars
  <2>2. \A x \in Callers : x /= c => state'[x] = state[x] \/ pc[x] = "keyWait"
    BY <1>8, KeyWakes
  <2>3. \A x \in Callers : x /= c => \A b : Has(x, b)' = Has(x, b)
    BY <1>1, <2>2, OthersHave
  <2>4. \A b : Has(c, b)' = Has(c, b)
    <3>1. CASE Enter(c) \/ Exit(c)
      <4>1. pc[c] \in {"idle", "exit"} /\ next[c] = 0
        BY <3>1 DEF Enter, Exit, Inv, Calls
      <4>2. pc'[c] /= "claimWait" /\ next'[c] = 0
        BY <1>2, <3>1, <4>1 DEF Enter, Exit, Goto
      <4>3. \A b : Has(c, b) = 0
        BY <4>1, HasOfIdle
      <4>4. Granted(c)' = 0 /\ 1..0 = {}
        BY <4>2 DEF Granted
      <4>5. \A b : Has(c, b)' = 0
        BY <4>4 DEF Has
      <4> QED BY <4>3, <4>5
    <3>2. CASE ~(Enter(c) \/ Exit(c))
      <4>1. op'[c] = op[c]
        BY <1>8, <3>2 DEF CtxEnds, LockFree, LockHeld, KeyGranted, KeyGivenUp, ClaimQueues,
                ClaimRefused, UnitsGranted, Run, HandlerEnds, ReleaseKey, MarkDrained,
                Do, Proceeds, Admit, callVars
      <4>2. Granted(c)' = Granted(c)
        BY <1>2, <1>8, <3>2
           DEF CtxEnds, LockFree, LockHeld, KeyGranted, KeyGivenUp, ClaimQueues,
                ClaimRefused, UnitsGranted, Run, HandlerEnds, ReleaseKey, MarkDrained,
                Do, Proceeds, Admit, Goto, Fail, Granted
      <4> QED BY <1>3, <1>4, <4>1, <4>2
    <3> QED BY <3>1, <3>2
  <2>5. \A x \in Callers, b \in Budgets : Has(x, b)' = Has(x, b)
    BY <2>3, <2>4
  <2> QED BY <2>1, <2>5, BudgetStays, BudgetsExactThen
<1> QED BY <1>5, <1>6, <1>7, <1>8

LEMMA ShutdownKeepsBudgets ==
  ASSUME Inv, Shutdown
  PROVE  QueuesRight' /\ BudgetsExact'
<1>1. /\ pc' = pc /\ op' = op /\ next' = next /\ used' = used
      /\ \A x \in Callers : state'[x] = state[x] \/ Woken(x, "withdrawn")
  BY ShutdownFrames
<1>2. \A b \in Budgets : Lists(Callers, q[b], Waiters(b))
  BY DEF Inv, QueuesRight
<1>3. QueuesRight'
  <2>1. CASE CloseBudget
    <3>1. PICK r \in Budgets \ closed :
              /\ q' = [q EXCEPT ![r] = <<>>]
              /\ Withdraw(Waiters(r))
      BY <2>1, Withdrawn
    <3>2. \A x \in Callers : state'[x] = IF x \in Waiters(r) THEN "withdrawn" ELSE state[x]
      BY <3>1 DEF Withdraw
    <3>3. ASSUME NEW b \in Budgets
          PROVE  Waiters(b)' = IF b = r THEN {} ELSE Waiters(b)
      BY <1>1, <3>2 DEF Waiters, Claim
    <3>4. Lists(Callers, <<>>, {})
      BY DEF Lists, IsInjective, ToSet
    <3>5. ASSUME NEW b \in Budgets
          PROVE  Lists(Callers, q'[b], Waiters(b)')
      BY <1>2, <3>1, <3>3, <3>4 DEF Inv, TypeOK
    <3> QED BY <3>5 DEF QueuesRight
  <2>2. CASE ~CloseBudget
    <3>1. q' = q
      BY <2>2 DEF Shutdown, ShutdownProceeds, Stop, CloseKeys, Mark, ReturnNil, budgetVars
    <3>2. \A x \in Callers : pc[x] = "claimWait" => state'[x] = state[x]
      <4>1. CASE CloseKeys
        BY <4>1, Withdrawn DEF Withdraw
      <4> QED BY <2>2, <4>1 DEF Shutdown, ShutdownProceeds, Stop, Mark, ReturnNil
    <3>3. \A b \in Budgets : Waiters(b)' = Waiters(b)
      BY <1>1, <3>2 DEF Waiters, Claim
    <3> QED BY <1>2, <3>1, <3>3 DEF QueuesRight
  <2> QED BY <2>1, <2>2
<1>4. BudgetsExact'
  <2>1. \A x \in Callers : Granted(x)' = Granted(x)
    BY <1>1 DEF Granted, Woken
  <2>2. \A x \in Callers, b \in Budgets : Has(x, b)' = Has(x, b)
    BY <1>1, <2>1, HasThen, HasNow
  <2> QED BY <1>1, <2>2, BudgetStays, BudgetsExactThen
<1> QED BY <1>3, <1>4
-----------------------------------------------------------------------------
LEMMA InitInv == Init => Inv
<1> SUFFICES ASSUME Init PROVE Inv
  OBVIOUS
<1>1. /\ stopping = FALSE /\ drained = FALSE /\ sd = "idle"
      /\ used = [r \in Budgets |-> 0]
      /\ q = [r \in Budgets |-> <<>>]
      /\ closed = {}
      /\ holder = [k \in Key |-> None]
      /\ kq = [k \in Key |-> <<>>]
      /\ keysClosed = FALSE
      /\ pc = [c \in Callers |-> "idle"]
      /\ op = [c \in Callers |-> None]
      /\ key = [c \in Callers |-> None]
      /\ next = [c \in Callers |-> 0]
      /\ state = [c \in Callers |-> "none"]
      /\ done = [c \in Callers |-> FALSE]
      /\ res = [c \in Callers |-> "none"]
  BY DEF Init
<1>2. TypeOK
  <2>1. /\ stopping \in BOOLEAN /\ drained \in BOOLEAN /\ keysClosed \in BOOLEAN
        /\ sd \in {"idle", "closing", "mark", "wait", "nil"} /\ closed \in SUBSET Budgets
    BY <1>1
  <2>2. used \in [Budgets -> Int] /\ next \in [Callers -> Nat]
    BY <1>1
  <2>3. <<>> \in Seq(Callers)
    OBVIOUS
  <2>4. q \in [Budgets -> Seq(Callers)] /\ kq \in [Key -> Seq(Callers)]
    BY <1>1, <2>3
  <2>5. /\ holder \in [Key -> Callers \cup {None}] /\ op \in [Callers -> Ops \cup {None}]
        /\ key \in [Callers -> Key \cup {None}]
    BY <1>1
  <2>6. /\ pc \in [Callers -> PC]
        /\ state \in [Callers -> {"none", "waiting", "granted", "withdrawn"}]
        /\ res \in [Callers -> {"none", "ctx", "overloaded", "stopping", "refused"}]
    BY <1>1 DEF PC
  <2>7. done \in [Callers -> BOOLEAN]
    BY <1>1
  <2> QED BY <2>1, <2>2, <2>4, <2>5, <2>6, <2>7 DEF TypeOK
<1>3. Calls
  BY <1>1 DEF Calls
<1>4. Stopped
  BY <1>1 DEF Stopped
<1>5. Excused
  BY <1>1 DEF Excused, StoppingJustified
<1>6. Lists(Callers, <<>>, {})
  BY DEF Lists, IsInjective, ToSet
<1>7. KeysRight
  <2>1. \A k \in Key : KeyWaiters(k) = {}
    BY <1>1 DEF KeyWaiters
  <2> QED BY <1>1, <1>6, <2>1, CallersAssumption DEF KeysRight, HoldsKey
<1>8. QueuesRight
  <2>1. \A r \in Budgets : Waiters(r) = {}
    BY <1>1 DEF Waiters
  <2> QED BY <1>1, <1>6, <2>1 DEF QueuesRight
<1>9. BudgetsExact
  <2>1. \A c \in Callers, r \in Budgets : Has(c, r) = 0
    BY <1>1, HasOfIdle
  <2>2. ASSUME NEW r \in Budgets
        PROVE  used[r] <= Size[r] /\ used[r] = SumFunction([c \in Callers |-> Has(c, r)])
    <3> DEFINE f == [c \in Callers |-> Has(c, r)]
    <3>1. f \in [Callers -> Int] /\ \A c \in Callers : f[c] = 0
      BY <2>1
    <3> HIDE DEF f
    <3>2. SumFunction(f) = 0
      BY <3>1, CallersAssumption, SumOfZeros
    <3>3. Size[r] \in Nat
      BY BudgetsAssumption
    <3> QED BY <1>1, <3>2, <3>3 DEF f
  <2> QED BY <2>2 DEF BudgetsExact
<1> QED BY <1>2, <1>3, <1>4, <1>5, <1>7, <1>8, <1>9 DEF Inv

LEMMA StutterKeepsInv == Inv /\ UNCHANGED vars => Inv'
<1> SUFFICES ASSUME Inv, UNCHANGED vars PROVE Inv'
  OBVIOUS
<1> USE DEF vars, gateVars, budgetVars, keyVars, callVars
<1>1. TypeOK'
  BY DEF Inv, TypeOK
<1>2. Calls'
  BY DEF Inv, Calls
<1>3. Stopped'
  BY DEF Inv, Stopped, Live
<1>4. Excused'
  BY DEF Inv, Excused, StoppingJustified
<1>5. KeysRight'
  <2>1. \A k \in Key : KeyKept(k)
    BY DEF KeyKept, Holding, HoldsKey, KeyWaiters
  <2> QED BY <2>1, KeyStays DEF KeysRight
<1>6. QueuesRight'
  BY DEF Inv, QueuesRight, Waiters, Claim
<1>7. BudgetsExact'
  <2>1. \A x \in Callers, r \in Budgets : Has(x, r)' = Has(x, r)
    BY DEF Has, Granted, Claim, UnitsOf
  <2> QED BY <2>1, BudgetStays, BudgetsExactThen
<1> QED BY <1>1, <1>2, <1>3, <1>4, <1>5, <1>6, <1>7 DEF Inv

LEMMA NextKeepsInv == Inv /\ [Next]_vars => Inv'
<1> SUFFICES ASSUME Inv, [Next]_vars PROVE Inv'
  OBVIOUS
<1>1. ASSUME NEW c \in Callers, Do(c) PROVE Inv'
  BY <1>1, DoKeepsTypes, DoKeepsCalls, DoKeepsStopped, DoKeepsExcused, DoKeepsKeys,
     DoKeepsQueues, DoKeepsBudgets DEF Inv
<1>2. CASE Shutdown
  BY <1>2, ShutdownKeepsTypes, ShutdownKeepsCalls, ShutdownKeepsStopped,
     ShutdownKeepsExcused, ShutdownKeepsKeys, ShutdownKeepsBudgets DEF Inv
<1>3. CASE RefusedFromNowOn \/ UNCHANGED vars
  BY <1>3, StutterKeepsInv DEF RefusedFromNowOn
<1> QED BY <1>1, <1>2, <1>3 DEF Next

LEMMA InvAlways == Spec => []Inv
BY InitInv, NextKeepsInv, PTL DEF Spec

(* Types, for any budgets, keys and operations (operation.go, runtime.go). *)
THEOREM TypesHold == Spec => []TypeOK
<1>1. Inv => TypeOK
  BY DEF Inv
<1> QED BY <1>1, InvAlways, PTL

(* Every budget counts exactly what the calls have of it, whatever they    *)
(* claim, in whatever order they come, wait, give up, fail and return      *)
(* (operation.go acquire and release, resource.go).                        *)
THEOREM BudgetsStayExact == Spec => []BudgetsExact
<1>1. Inv => BudgetsExact
  BY DEF Inv
<1> QED BY <1>1, InvAlways, PTL

(* ErrRuntimeStopping is never reported of a runtime that does not stop    *)
(* (operation.go refused, errors.go).                                      *)
THEOREM StoppingIsJustified == Spec => []StoppingJustified
<1>1. Inv => StoppingJustified
  BY DEF Inv, Excused
<1> QED BY <1>1, InvAlways, PTL

LEMMA EmptyLists ==
  ASSUME NEW s, Lists(Callers, s, {})
  PROVE  s = <<>>
<1>1. s \in Seq(Callers) /\ Len(s) \in Nat /\ DOMAIN s = 1..Len(s)
  BY LenProperties DEF Lists
<1>2. Len(s) = 0
  <2>1. \A i \in 1..Len(s) : s[i] \in {}
    BY <1>1 DEF Lists, ToSet
  <2>2. Len(s) > 0 => 1 \in 1..Len(s)
    BY <1>1
  <2> QED BY <1>1, <2>1, <2>2
<1> QED BY <1>1, <1>2, EmptySeq

LEMMA DrainedAtRest == Inv => NilMeansAtRest
<1> SUFFICES ASSUME Inv, drained \/ sd = "nil" PROVE
       /\ Live = {}
       /\ \A r \in Budgets : used[r] = 0 /\ q[r] = <<>>
       /\ \A k \in Key : holder[k] = None /\ kq[k] = <<>>
  BY DEF NilMeansAtRest
<1>1. Live = {}
  BY DEF Inv, Stopped
<1>2. \A c \in Callers : pc[c] \in {"idle", "mark"}
  BY <1>1 DEF Live
<1>3. \A c \in Callers : next[c] = 0
  BY <1>2 DEF Inv, Calls
<1>4. ASSUME NEW r \in Budgets
      PROVE  used[r] = 0 /\ q[r] = <<>>
  <2>1. Waiters(r) = {}
    BY <1>2 DEF Waiters
  <2>2. q[r] = <<>>
    BY <2>1, EmptyLists DEF Inv, QueuesRight
  <2>3. /\ Shares(r) \in [Callers -> Int] /\ used[r] = SumFunction(Shares(r))
        /\ \A c \in Callers : Shares(r)[c] = Has(c, r)
    BY SharesAre
  <2>4. \A c \in Callers : Shares(r)[c] = 0
    BY <1>2, <1>3, <2>3, HasOfIdle
  <2>5. SumFunction(Shares(r)) = 0
    BY <2>3, <2>4, CallersAssumption, SumOfZeros
  <2> QED BY <2>2, <2>3, <2>5
<1>5. ASSUME NEW k \in Key
      PROVE  holder[k] = None /\ kq[k] = <<>>
  <2>1. \A c \in Callers : ~Holding(c, k)
    BY <1>2 DEF Holding, HoldsKey
  <2>2. holder[k] = None
    BY <2>1, KeyHeldBy
  <2> QED BY <2>2, KeyHeldBy
<1> QED BY <1>1, <1>4, <1>5

(* A runtime that has drained, or whose Shutdown returned nil, is at rest: *)
(* nothing of it is held or waited for (runtime.go Shutdown).              *)
THEOREM DrainedIsAtRest == Spec => []NilMeansAtRest
BY InvAlways, DrainedAtRest, PTL

-----------------------------------------------------------------------------
(* The gate.                                                               *)
LEMMA GateInit == Init => Gate!Init
<1> SUFFICES ASSUME Init PROVE Gate!Init
  OBVIOUS
<1>1. drained = FALSE /\ stopping = FALSE /\ sd = "idle" /\ pc = [c \in Callers |-> "idle"]
  BY DEF Init
<1>2. Live = {}
  BY <1>1 DEF Live
<1> QED BY <1>1, <1>2 DEF Gate!Init

LEMMA DoKeepsGate ==
  ASSUME Inv, NEW c \in Callers, Do(c)
  PROVE  Gate!Next \/ UNCHANGED Gate!vars
<1>1. stopping' = stopping /\ sd' = sd /\ pc \in [Callers -> PC]
  BY DEF Enter, CtxEnds, LockFree, LockHeld, KeyGranted, KeyGivenUp, ClaimTakes,
         ClaimRefused, ClaimQueues, UnitsGranted, UnitsGivenUp, Run, HandlerEnds,
         ReleaseUnits, ReleaseKey, Exit, MarkDrained, Do, Proceeds, Admit, gateVars,
         Inv, TypeOK
<1>2. \A x \in Callers : x /= c => pc'[x] = pc[x]
  BY DoFrames DEF Others
<1>3. drained => stopping
  BY DEF Inv, Stopped
<1>4. CASE Enter(c)
  <2>1. drained' = drained /\ ~stopping /\ pc[c] = "idle"
    BY <1>4 DEF Enter, gateVars
  <2>2. pc'[c] \notin {"idle", "mark"}
    BY <1>1, <1>4 DEF Enter, Goto
  <2>3. Live' = Live \cup {c} /\ c \notin Live
    BY <1>2, <2>1, <2>2 DEF Live
  <2>4. Gate!Admit(c)
    BY <1>1, <1>3, <2>1, <2>3 DEF Gate!Admit
  <2> QED BY <2>4 DEF Gate!Next
<1>5. CASE Exit(c)
  <2>1. drained' = drained /\ pc[c] = "exit"
    BY <1>5 DEF Exit, gateVars
  <2>2. pc'[c] \in {"idle", "mark"}
    BY <1>1, <1>5 DEF Exit, Goto
  <2>3. Live' = Live \ {c} /\ c \in Live
    BY <1>2, <2>1, <2>2 DEF Live
  <2>4. Gate!Leave(c)
    BY <1>1, <2>1, <2>3 DEF Gate!Leave
  <2> QED BY <2>4 DEF Gate!Next
<1>6. CASE MarkDrained(c)
  <2>1. pc[c] = "mark" /\ pc'[c] = "idle"
    BY <1>1, <1>6 DEF MarkDrained, Goto
  <2>2. stopping /\ Live' = Live
    BY <1>2, <2>1 DEF Live, Inv, Stopped
  <2>3. drained' <=> drained \/ Live = {}
    BY <1>6, Zenon DEF MarkDrained
  <2>4. CASE drained \/ Live /= {}
    BY <1>1, <2>2, <2>3, <2>4 DEF Gate!vars
  <2>5. CASE ~drained /\ Live = {}
    <3>1. Gate!Drain
      BY <1>1, <2>2, <2>3, <2>5 DEF Gate!Drain
    <3> QED BY <3>1 DEF Gate!Next
  <2> QED BY <2>4, <2>5
<1>7. CASE ~(Enter(c) \/ Exit(c) \/ MarkDrained(c))
  <2>1. drained' = drained
    BY <1>7 DEF CtxEnds, LockFree, LockHeld, KeyGranted, KeyGivenUp, ClaimTakes,
         ClaimRefused, ClaimQueues, UnitsGranted, UnitsGivenUp, Run, HandlerEnds,
         ReleaseUnits, ReleaseKey, Do, Proceeds, Admit, gateVars
  <2>2. pc[c] \notin {"idle", "mark"} /\ pc'[c] \notin {"idle", "mark"}
    BY <1>1, <1>7 DEF CtxEnds, LockFree, LockHeld, KeyGranted, KeyGivenUp, ClaimTakes,
         ClaimRefused, ClaimQueues, UnitsGranted, UnitsGivenUp, Run, HandlerEnds,
         ReleaseUnits, ReleaseKey, Do, Proceeds, Admit, Goto, Fail
  <2>3. Live' = Live
    BY <1>2, <2>2 DEF Live
  <2> QED BY <1>1, <2>1, <2>3 DEF Gate!vars
<1> QED BY <1>4, <1>5, <1>6, <1>7

LEMMA ShutdownKeepsGate ==
  ASSUME Inv, Shutdown
  PROVE  Gate!Next \/ UNCHANGED Gate!vars
<1>1. Live' = Live
  BY ShutdownFrames DEF Live
<1>2. /\ drained => stopping
      /\ stopping <=> sd /= "idle"
  BY DEF Inv, Stopped
<1>3. CASE Stop
  <2>1. Gate!Stop
    BY <1>1, <1>2, <1>3 DEF Stop, Gate!Stop
  <2> QED BY <2>1 DEF Gate!Next
<1>4. CASE CloseBudget \/ CloseKeys
  BY <1>1, <1>4 DEF CloseBudget, CloseKeys, gateVars, Gate!vars
<1>5. CASE Mark
  <2>1. drained' <=> drained \/ Live = {}
    BY <1>5, Zenon DEF Mark
  <2>2. stopping' = stopping /\ sd = "mark" /\ sd' = "wait"
    BY <1>5 DEF Mark
  <2>3. CASE drained \/ Live /= {}
    BY <1>1, <2>1, <2>2, <2>3 DEF Gate!vars
  <2>4. CASE ~drained /\ Live = {}
    <3>1. Gate!Drain
      BY <1>1, <1>2, <2>1, <2>2, <2>4 DEF Gate!Drain
    <3> QED BY <3>1 DEF Gate!Next
  <2> QED BY <2>3, <2>4
<1>6. CASE ReturnNil
  <2>1. Gate!Return("first")
    BY <1>1, <1>6 DEF ReturnNil, Gate!Return
  <2> QED BY <2>1 DEF Gate!Next
<1> QED BY <1>3, <1>4, <1>5, <1>6 DEF Shutdown, ShutdownProceeds
-----------------------------------------------------------------------------
(* The key space.                                                          *)
LEMMA KeysInit == Init => Locker!Init
BY DEF Init, Locker!Init

LEMMA NoKeyIdle ==
  ASSUME Inv, NEW c \in Callers, pc[c] = "lock"
  PROVE  Locker!Idle(c)
<1>1. ASSUME NEW k \in Key
      PROVE  holder[k] /= c /\ ~ \E i \in 1..Len(kq[k]) : kq[k][i] = c
  <2>1. ~Holding(c, k) /\ c \notin KeyWaiters(k)
    BY DEF Holding, HoldsKey, KeyWaiters
  <2>2. c \notin ToSet(kq[k]) /\ kq[k] \in Seq(Callers)
    BY <2>1, KeyHeldBy DEF Lists
  <2>3. DOMAIN kq[k] = 1..Len(kq[k])
    BY <2>2, LenProperties
  <2> QED BY <2>1, <2>2, <2>3, KeyHeldBy DEF ToSet
<1> QED BY <1>1 DEF Locker!Idle, Locker!Contains

LEMMA HandOffReleases ==
  ASSUME NEW k \in Key, NEW st, HandOff(k, st), holder[k] /= None
  PROVE  Locker!Next
<1>1. Locker!Release(k)
  BY DEF HandOff, Locker!Release, Locker!Held
<1> QED BY <1>1 DEF Locker!Next

LEMMA DoKeepsLocker ==
  ASSUME Inv, NEW c \in Callers, Do(c)
  PROVE  Locker!Next \/ UNCHANGED Locker!vars
<1>1. CASE LockFree(c)
  <2>1. key[c] \in Key /\ Locker!Idle(c)
    BY <1>1, NoKeyIdle DEF LockFree, Inv, Calls
  <2>2. Locker!Acquire(c, key[c])
    BY <1>1, <2>1 DEF LockFree, Locker!Acquire, Locker!Held
  <2> QED BY <2>1, <2>2 DEF Locker!Next
<1>2. CASE LockHeld(c)
  <2>1. key[c] \in Key /\ Locker!Idle(c)
    BY <1>2, NoKeyIdle DEF LockHeld, Inv, Calls
  <2>2. CASE UNCHANGED kq
    BY <1>2, <2>2 DEF LockHeld, Locker!vars
  <2>3. CASE ~keysClosed /\ kq' = [kq EXCEPT ![key[c]] = Append(@, c)]
    <3>1. Locker!Acquire(c, key[c])
      BY <1>2, <2>1, <2>3 DEF LockHeld, Locker!Acquire, Locker!Held
    <3> QED BY <2>1, <3>1 DEF Locker!Next
  <2> QED BY <1>2, <2>2, <2>3 DEF LockHeld
<1>3. CASE KeyGivenUp(c)
  <2>1. key[c] \in Key /\ pc[c] = "keyWait"
    BY <1>3 DEF KeyGivenUp, Inv, Calls
  <2>2. CASE /\ \E i \in DOMAIN kq[key[c]] :
                  kq[key[c]][i] = c /\ kq' = [kq EXCEPT ![key[c]] = RemoveAt(@, i)]
             /\ UNCHANGED <<holder, keysClosed>>
    <3>1. Locker!Cancel(c, key[c])
      BY <2>2 DEF Locker!Cancel, Locker!RemoveAt, RemoveAt
    <3> QED BY <2>1, <3>1 DEF Locker!Next
  <2>3. CASE state[c] = "granted" /\ HandOff(key[c], Forget(c))
    <3>1. Holding(c, key[c])
      BY <2>1, <2>3 DEF Holding, HoldsKey
    <3>2. holder[key[c]] /= None
      BY <2>1, <3>1, KeyHeldBy, CallersAssumption
    <3> QED BY <2>1, <2>3, <3>2, HandOffReleases
  <2>4. CASE UNCHANGED keyVars
    BY <2>4 DEF keyVars, Locker!vars
  <2> QED BY <1>3, <2>2, <2>3, <2>4 DEF KeyGivenUp
<1>4. CASE ReleaseKey(c)
  <2>1. CASE key[c] = None
    BY <1>4, <2>1 DEF ReleaseKey, keyVars, Locker!vars
  <2>2. CASE key[c] /= None
    <3>1. key[c] \in Key /\ HandOff(key[c], state) /\ Holding(c, key[c])
      BY <1>4, <2>2 DEF ReleaseKey, Inv, TypeOK, Holding, HoldsKey
    <3>2. holder[key[c]] /= None
      BY <3>1, KeyHeldBy, CallersAssumption
    <3> QED BY <3>1, <3>2, HandOffReleases
  <2> QED BY <2>1, <2>2
<1>5. CASE ~(LockFree(c) \/ LockHeld(c) \/ KeyGivenUp(c) \/ ReleaseKey(c))
  <2>1. UNCHANGED keyVars
    BY <1>5 DEF Enter, CtxEnds, KeyGranted, ClaimTakes, ClaimRefused, ClaimQueues,
                UnitsGranted, UnitsGivenUp, Run, HandlerEnds, ReleaseUnits, Exit,
                MarkDrained, Do, Proceeds, Admit
  <2> QED BY <2>1 DEF keyVars, Locker!vars
<1> QED BY <1>1, <1>2, <1>3, <1>4, <1>5

LEMMA ShutdownKeepsLocker ==
  ASSUME Inv, Shutdown
  PROVE  Locker!Next \/ UNCHANGED Locker!vars
<1>1. CASE CloseKeys
  <2>1. ~keysClosed
    BY <1>1 DEF CloseKeys, Inv, Stopped
  <2>2. Locker!Close
    BY <1>1, <2>1 DEF CloseKeys, Locker!Close
  <2> QED BY <2>2 DEF Locker!Next
<1>2. CASE ~CloseKeys
  BY <1>2 DEF Shutdown, ShutdownProceeds, Stop, CloseBudget, Mark, ReturnNil, keyVars,
              Locker!vars
<1> QED BY <1>1, <1>2

(* The composition keeps the promises of the gate and of the key space: it *)
(* admits, drains and stops as Lifecycle does, and locks, queues, hands    *)
(* off and withdraws as Keys does, also when calls fail halfway            *)
(* (operation.go Do, runtime.go Shutdown).                                 *)
THEOREM HertaKeepsGateAndKeys == Spec => KeepsGateAndKeys
<1>1. Init => Gate!Init /\ Locker!Init
  BY GateInit, KeysInit
<1>2. Inv /\ [Next]_vars => [Gate!Next]_(Gate!vars) /\ [Locker!Next]_(Locker!vars)
  <2> SUFFICES ASSUME Inv, [Next]_vars
               PROVE  /\ Gate!Next \/ UNCHANGED Gate!vars
                      /\ Locker!Next \/ UNCHANGED Locker!vars
    OBVIOUS
  <2>1. ASSUME NEW c \in Callers, Do(c)
        PROVE  /\ Gate!Next \/ UNCHANGED Gate!vars
               /\ Locker!Next \/ UNCHANGED Locker!vars
    BY <2>1, DoKeepsGate, DoKeepsLocker
  <2>2. CASE Shutdown
    BY <2>2, ShutdownKeepsGate, ShutdownKeepsLocker
  <2>3. CASE UNCHANGED vars
    BY <2>3 DEF vars, gateVars, keyVars, Gate!vars, Locker!vars, Live
  <2> QED BY <2>1, <2>2, <2>3 DEF Next, RefusedFromNowOn
<1> QED BY <1>1, <1>2, InvAlways, PTL DEF Spec, KeepsGateAndKeys, Gate!Spec, Locker!Spec
-----------------------------------------------------------------------------
(* A budget.                                                               *)
LEMMA LineIs ==
  ASSUME NEW s \in Seq(Callers), \A i \in 1..Len(s) : UnitsOf(s[i], Watched) \in Nat
  PROVE  /\ Line(s) \in Seq([id : Callers, n : Nat]) /\ Len(Line(s)) = Len(s)
         /\ \A i \in 1..Len(s) :
              Line(s)[i].id = s[i] /\ Line(s)[i].n = UnitsOf(s[i], Watched)
<1>1. Len(s) \in Nat /\ DOMAIN s = 1..Len(s)
  BY LenProperties
<1>2. \A i \in 1..Len(s) : s[i] \in Callers
  BY ElementOfSeq
<1>3. Line(s) = [i \in 1..Len(s) |-> [id |-> s[i], n |-> UnitsOf(s[i], Watched)]]
  BY <1>1 DEF Line
<1>4. Line(s) \in [1..Len(s) -> [id : Callers, n : Nat]]
  BY <1>2, <1>3
<1> QED BY <1>1, <1>3, <1>4

LEMMA DemandMaps ==
  ASSUME NEW s \in Seq(Callers), \A i \in 1..Len(s) : UnitsOf(s[i], Watched) \in Nat
  PROVE  Abstract!Demand(Line(s)) = Demand(s, Watched)
<1> DEFINE n == Len(s)
           a == Line(s)
           w == [i \in 1..n |-> UnitsOf(s[i], Watched)]
           P(f) == f = [k \in 0..n |-> IF k = 0 THEN 0 ELSE f[k-1] + UnitsOf(s[k], Watched)]
           Q(f) == f = [k \in 0..Len(a) |-> IF k = 0 THEN 0 ELSE f[k-1] + a[k].n]
<1>1. n \in Nat /\ Len(a) = n /\ \A i \in 1..n : a[i].n = UnitsOf(s[i], Watched)
  BY LineIs, LenProperties
<1>2. Demand(s, Watched) = (CHOOSE f : P(f)) /\ Abstract!Demand(a) = (CHOOSE f : Q(f))
  BY DEF Demand, Abstract!Demand
<1> HIDE DEF a
<1>3. ASSUME NEW f PROVE (PrefixSum(n, w, f) <=> P(f)) /\ (PrefixSum(n, w, f) <=> Q(f))
  <2>1. \A k \in 0..n : k /= 0 => w[k] = UnitsOf(s[k], Watched) /\ a[k].n = w[k]
    BY <1>1
  <2>2. PrefixSum(n, w, f) <=> P(f)
    BY <2>1 DEF PrefixSum
  <2>3. PrefixSum(n, w, f) <=> Q(f)
    BY <1>1, <2>1 DEF PrefixSum
  <2> QED BY <2>2, <2>3
<1>4. \E f : PrefixSum(n, w, f)
  BY <1>1, PrefixSumExists
<1> HIDE DEF P, Q, w, n
<1>5. P(CHOOSE f : P(f)) /\ Q(CHOOSE f : Q(f))
  BY <1>3, <1>4
<1>6. PrefixSum(n, w, Demand(s, Watched)) /\ PrefixSum(n, w, Abstract!Demand(a))
  BY <1>2, <1>3, <1>5
<1>7. Demand(s, Watched) = Abstract!Demand(a)
  BY <1>1, <1>6, PrefixSumUnique
<1> QED BY <1>7 DEF a

LEMMA RestIs ==
  ASSUME NEW S, NEW t \in Seq(S), NEW j \in 0..Len(t)
  PROVE  SubSeq(t, j+1, Len(t)) = [i \in 1..(Len(t)-j) |-> t[j+i]]
<1>1. Len(t) \in Nat /\ j \in Nat
  BY LenProperties
<1> QED BY <1>1

LEMMA GrantMaps ==
  ASSUME Inv, NEW u \in Int, u <= Size[Watched],
         NEW s, NEW L, Lists(Callers, s, L), L \subseteq Waiters(Watched),
         NEW st, Grant(Watched, u, s, st),
         \A x \in L : st[x] = "waiting" /\ UnitsOf(x, Watched)' = UnitsOf(x, Watched),
         NEW h, \A x \in Callers :
                  Has(x, Watched)' = IF x \in L /\ state'[x] = "granted"
                                     THEN UnitsOf(x, Watched) ELSE h[x]
  PROVE  Abstract!Grant(u, Line(s), h)
<1> DEFINE D == Demand(s, Watched)
           n == Len(s)
           a == Line(s)
           F == {i \in 0..n : u + D[i] <= Size[Watched]}
           k == Max(F)
           Now(c) == {i \in 1..k : a[i].id = c}
<1>1. /\ s \in Seq(Callers) /\ n \in Nat /\ DOMAIN s = 1..n
      /\ \A i, j \in 1..n : s[i] = s[j] => i = j
      /\ \A i \in 1..n : s[i] \in L /\ s[i] \in Callers
  <2>1. s \in Seq(Callers) /\ IsInjective(s) /\ ToSet(s) = L
    BY DEF Lists
  <2>2. n \in Nat /\ DOMAIN s = 1..n
    BY <2>1, LenProperties
  <2>3. \A i \in 1..n : s[i] \in Callers
    BY <2>1, ElementOfSeq
  <2> QED BY <2>1, <2>2, <2>3 DEF IsInjective, ToSet
<1>2. \A i \in 1..n : UnitsOf(s[i], Watched) \in Nat
  BY <1>1, WaitersWant
<1>3. /\ a \in Seq([id : Callers, n : Nat]) /\ Len(a) = n
      /\ \A i \in 1..n : a[i].id = s[i] /\ a[i].n = UnitsOf(s[i], Watched)
  BY <1>1, <1>2, LineIs
<1>4. Abstract!Demand(a) = D
  BY <1>1, <1>2, DemandMaps
<1>5. \A S : Abstract!Max(S) = Max(S)
  BY DEF Max, Abstract!Max
<1>6. Abstract!Served(u, a) = k
  BY <1>3, <1>4, <1>5 DEF Abstract!Served
<1>7. k \in 0..n
  <2>1. 0 \in F
    BY <1>1, <1>2, DemandSums DEF Sums
  <2>2. F \in SUBSET (0..n) /\ F /= {}
    BY <2>1
  <2> HIDE DEF F
  <2> QED BY <1>1, <2>2, MaxOfBounded
<1>8. /\ used' = [used EXCEPT ![Watched] = u + D[k]]
      /\ q' = [q EXCEPT ![Watched] = SubSeq(s, k+1, n)]
      /\ state' = [c \in Callers |-> IF c \in ToSet(SubSeq(s, 1, k)) THEN "granted" ELSE st[c]]
  BY DEF Grant
<1> HIDE DEF k, F
<1>9. \A c : c \in ToSet(SubSeq(s, 1, k)) <=> \E i \in 1..k : s[i] = c
  <2>1. ASSUME NEW j \in 0..Len(s)
        PROVE  FrontOf(s, j)
    BY ONLY Lists(Callers, s, L), j \in 0..Len(s), ListsSplit
  <2>2. FrontOf(s, k)
    BY <1>7, <2>1
  <2> QED BY <2>2 DEF FrontOf
<1>10. used'[Watched] = u + Abstract!Demand(a)[k]
  BY <1>4, <1>8, WatchedAssumption DEF Inv, TypeOK
<1>11. Line(q[Watched])' = SubSeq(a, k+1, Len(a))
  <2>1. k \in 0..Len(s) /\ Len(a) = Len(s) /\ k \in 0..Len(a)
    BY <1>3, <1>7
  <2>2. PICK b : /\ q'[Watched] = b /\ DOMAIN b = 1..(n-k)
                 /\ \A i \in 1..(n-k) : b[i] = s[k+i]
    <3>1. q'[Watched] = SubSeq(s, k+1, Len(s))
      BY <1>8, WatchedAssumption DEF Inv, TypeOK
    <3>2. SubSeq(s, k+1, Len(s)) = [i \in 1..(Len(s)-k) |-> s[k+i]]
      <4>1. s \in Seq(Callers) /\ k \in 0..Len(s)
        BY <1>1, <2>1
      <4> QED BY ONLY <4>1, RestIs
    <3> QED BY <3>1, <3>2
  <2>3. SubSeq(a, k+1, Len(a)) = [i \in 1..(n-k) |-> a[k+i]]
    <3>1. SubSeq(a, k+1, Len(a)) = [i \in 1..(Len(a)-k) |-> a[k+i]]
      BY ONLY <1>3, <2>1, RestIs
    <3> QED BY <2>1, <3>1
  <2>4. Line(q[Watched])' = [i \in DOMAIN b |-> [id |-> b[i], n |-> UnitsOf(b[i], Watched)']]
    BY <2>2 DEF Line
  <2> HIDE DEF n
  <2>5. ASSUME NEW i \in 1..(n-k)
        PROVE  [id |-> b[i], n |-> UnitsOf(b[i], Watched)'] = a[k+i]
    <3>1. k+i \in 1..n
      BY <1>1, <1>7
    <3>2. b[i] = s[k+i] /\ UnitsOf(b[i], Watched)' = UnitsOf(b[i], Watched)
      BY <1>1, <2>2, <3>1
    <3>3. a[k+i] = [id |-> s[k+i], n |-> UnitsOf(s[k+i], Watched)]
      BY <1>1, <3>1 DEF Line
    <3> QED BY <3>2, <3>3
  <2> QED BY <2>2, <2>3, <2>4, <2>5
<1> HIDE DEF a, D, n
<1>12. ASSUME NEW c \in Callers
       PROVE  Has(c, Watched)' = IF Now(c) = {} THEN h[c] ELSE a[Max(Now(c))].n
  <2>1. CASE Now(c) = {}
    <3>1. ~ \E i \in 1..k : s[i] = c
      BY <1>1, <1>3, <1>7, <2>1
    <3>2. state'[c] = st[c]
      BY <1>8, <1>9, <3>1
    <3> QED BY <2>1, <3>2
  <2>2. CASE Now(c) /= {}
    <3>1. PICK i \in 1..k : a[i].id = c
      BY <2>2
    <3>2. i \in 1..n /\ s[i] = c /\ c \in L
      BY <1>1, <1>3, <1>7, <3>1
    <3>3. state'[c] = "granted"
      BY <1>8, <1>9, <3>1, <3>2
    <3>4. Now(c) \in SUBSET (0..n)
      BY <1>1, <1>7
    <3>5. Max(Now(c)) \in Now(c)
      BY <1>1, <2>2, <3>4, MaxOfBounded
    <3>6. a[Max(Now(c))].n = UnitsOf(c, Watched)
      BY <1>1, <1>3, <1>7, <3>5
    <3> QED BY <2>2, <3>2, <3>3, <3>6
  <2> QED BY <2>1, <2>2
<1>13. Held' = [c \in Callers |-> IF Now(c) = {} THEN h[c] ELSE a[Max(Now(c))].n]
  BY <1>12 DEF Held
<1>14. Abstract!Grant(u, a, h)
  BY <1>5, <1>6, <1>10, <1>11, <1>13 DEF Abstract!Grant
<1> QED BY <1>14 DEF a

(* The waiters of a list, without one of them.                             *)
LEMMA TailIs ==
  ASSUME NEW S, NEW t \in Seq(S), t /= <<>>
  PROVE  Tail(t) = [i \in 1..(Len(t)-1) |-> t[i+1]]
<1>1. Tail(t) \in Seq(S) /\ Len(Tail(t)) = Len(t)-1 /\ \A i \in 1..Len(Tail(t)) : Tail(t)[i] = t[i+1]
  BY HeadTailProperties
<1>2. DOMAIN Tail(t) = 1..(Len(t)-1) /\ Tail(t) = [i \in DOMAIN Tail(t) |-> Tail(t)[i]]
  BY <1>1, LenProperties
<1> QED BY <1>1, <1>2

LEMMA LineTail ==
  ASSUME NEW s \in Seq(Callers), s /= <<>>, \A i \in 1..Len(s) : UnitsOf(s[i], Watched) \in Nat
  PROVE  Line(Tail(s)) = Tail(Line(s))
<1> DEFINE n == Len(s)
<1>1. /\ n \in Nat /\ n >= 1 /\ Line(s) \in Seq([id : Callers, n : Nat]) /\ Len(Line(s)) = n
      /\ Line(s) /= <<>>
  <2>1. n \in Nat /\ n >= 1
    BY EmptySeq, LenProperties
  <2>2. Line(s) \in Seq([id : Callers, n : Nat]) /\ Len(Line(s)) = n
    BY LineIs
  <2> QED BY <2>1, <2>2
<1>2. Tail(s) = [i \in 1..(n-1) |-> s[i+1]]
  BY TailIs
<1>3. Tail(Line(s)) = [i \in 1..(n-1) |-> Line(s)[i+1]]
  <2>1. Tail(Line(s)) = [i \in 1..(Len(Line(s))-1) |-> Line(s)[i+1]]
    BY ONLY <1>1, TailIs
  <2> QED BY <1>1, <2>1
<1>4. Line(Tail(s)) = [i \in 1..(n-1) |-> [id |-> s[i+1], n |-> UnitsOf(s[i+1], Watched)]]
  BY <1>2 DEF Line
<1>5. \A i \in 1..(n-1) : Line(s)[i+1] = [id |-> s[i+1], n |-> UnitsOf(s[i+1], Watched)]
  <2>1. DOMAIN s = 1..n
    BY LenProperties
  <2>2. \A i \in 1..(n-1) : i+1 \in DOMAIN s
    BY <1>1, <2>1
  <2> QED BY <2>2 DEF Line
<1> QED BY <1>3, <1>4, <1>5

LEMMA LineRemoveAt ==
  ASSUME NEW s \in Seq(Callers), NEW i \in 1..Len(s),
         \A j \in 1..Len(s) : UnitsOf(s[j], Watched) \in Nat
  PROVE  Line(RemoveAt(s, i)) = RemoveAt(Line(s), i)
<1> DEFINE n == Len(s)
           t == RemoveAt(s, i)
           S == [id : Callers, n : Nat]
<1>1. n \in Nat /\ DOMAIN s = 1..n /\ Line(s) \in Seq(S) /\ Len(Line(s)) = n
  BY LineIs, LenProperties
<1>2. /\ t \in Seq(Callers) /\ Len(t) = n - 1
      /\ \A j \in 1..(n-1) : t[j] = IF j < i THEN s[j] ELSE s[j+1]
  BY <1>1, RemoveAtProperties
<1>3. /\ RemoveAt(Line(s), i) \in Seq(S) /\ Len(RemoveAt(Line(s), i)) = n - 1
      /\ \A j \in 1..(n-1) : RemoveAt(Line(s), i)[j] = IF j < i THEN Line(s)[j] ELSE Line(s)[j+1]
  <2>1. i \in 1..Len(Line(s))
    BY <1>1
  <2>2. /\ RemoveAt(Line(s), i) \in Seq(S)
        /\ Len(RemoveAt(Line(s), i)) = Len(Line(s)) - 1
        /\ \A j \in 1..(Len(Line(s)) - 1) :
             RemoveAt(Line(s), i)[j] = IF j < i THEN Line(s)[j] ELSE Line(s)[j+1]
    BY ONLY <1>1, <2>1, RemoveAtProperties
  <2> QED BY <1>1, <2>2
<1> HIDE DEF t, S
<1>4. DOMAIN t = 1..(n-1) /\ DOMAIN RemoveAt(Line(s), i) = 1..(n-1)
  BY <1>2, <1>3, LenProperties
<1>5. Line(t) = [j \in 1..(n-1) |-> [id |-> t[j], n |-> UnitsOf(t[j], Watched)]]
  BY <1>4 DEF Line
<1>6. \A j \in 1..(n-1) : RemoveAt(Line(s), i)[j] = [id |-> t[j], n |-> UnitsOf(t[j], Watched)]
  <2> SUFFICES ASSUME NEW j \in 1..(n-1)
               PROVE  RemoveAt(Line(s), i)[j] = [id |-> t[j], n |-> UnitsOf(t[j], Watched)]
    OBVIOUS
  <2>1. j \in DOMAIN s /\ j+1 \in DOMAIN s
    BY <1>1
  <2>2. CASE j < i
    BY <1>2, <1>3, <2>1, <2>2 DEF Line
  <2>3. CASE ~(j < i)
    BY <1>2, <1>3, <2>1, <2>3 DEF Line
  <2> QED BY <2>2, <2>3
<1>7. RemoveAt(Line(s), i) = [j \in 1..(n-1) |-> RemoveAt(Line(s), i)[j]]
  BY <1>3, <1>4
<1> QED BY <1>5, <1>6, <1>7 DEF t

(* The callers queued for the budget wait for it, for units.               *)
LEMMA InLine ==
  ASSUME Inv
  PROVE  /\ q[Watched] \in Seq(Callers)
         /\ \A i \in 1..Len(q[Watched]) : q[Watched][i] \in Waiters(Watched)
         /\ \A i \in 1..Len(q[Watched]) : UnitsOf(q[Watched][i], Watched) \in Nat
<1>1. Lists(Callers, q[Watched], Waiters(Watched))
  BY WatchedAssumption DEF Inv, QueuesRight
<1>2. q[Watched] \in Seq(Callers) /\ ToSet(q[Watched]) = Waiters(Watched)
  BY <1>1 DEF Lists
<1>3. \A i \in 1..Len(q[Watched]) : q[Watched][i] \in Waiters(Watched)
  BY <1>2, LenProperties DEF ToSet
<1> QED BY <1>2, <1>3, WaitersWant

LEMMA BudgetRests ==
  ASSUME Inv, q'[Watched] = q[Watched], used'[Watched] = used[Watched],
         Watched \in closed' <=> Watched \in closed,
         \A x \in Callers : Has(x, Watched)' = Has(x, Watched),
         \A x \in Waiters(Watched) : op'[x] = op[x]
  PROVE  UNCHANGED Abstract!vars
<1>1. Held' = Held
  BY DEF Held
<1>2. PICK s : s = q[Watched]
  OBVIOUS
<1>3. s \in Seq(Callers) /\ \A i \in 1..Len(s) : s[i] \in Waiters(Watched)
  BY <1>2, InLine
<1>4. DOMAIN s = 1..Len(s)
  BY <1>3, LenProperties
<1>5. \A i \in DOMAIN s : UnitsOf(s[i], Watched)' = UnitsOf(s[i], Watched)
  BY <1>3, <1>4 DEF UnitsOf
<1>6. Line(s)' = Line(s)
  BY <1>5 DEF Line
<1>7. Line(q[Watched])' = Line(s)' /\ Line(q[Watched]) = Line(s)
  BY <1>2 DEF Line
<1>8. Line(q[Watched])' = Line(q[Watched])
  BY <1>6, <1>7
<1>9. (Watched \in closed') = (Watched \in closed)
  OBVIOUS
<1> QED BY <1>1, <1>8, <1>9 DEF Abstract!vars

(* Serving its queue is what the reference does with the callers queued,   *)
(* whichever of them the step leaves out.                                  *)
LEMMA GrantHolds ==
  ASSUME Inv, NEW c \in Callers, Others(c), NEW u, NEW st, NEW T,
         Wakes(Watched, u, Waiters(Watched) \ {c}, st, T),
         \A x \in Callers : x /= c => st[x] = state[x],
         NEW h, h[c] = Has(c, Watched)', \A x \in Callers : x /= c => h[x] = Has(x, Watched)
  PROVE  /\ \A x \in Waiters(Watched) \ {c} :
              st[x] = "waiting" /\ UnitsOf(x, Watched)' = UnitsOf(x, Watched)
         /\ \A x \in Callers :
              Has(x, Watched)' = IF x \in Waiters(Watched) \ {c} /\ state'[x] = "granted"
                                 THEN UnitsOf(x, Watched) ELSE h[x]
<1> DEFINE L == Waiters(Watched) \ {c}
<1>1. /\ T \subseteq L
      /\ \A x \in Callers : state'[x] = IF x \in T THEN "granted" ELSE st[x]
  BY DEF Wakes
<1>2. \A x \in L : x \in Callers /\ x /= c /\ st[x] = "waiting" /\ op'[x] = op[x]
  BY DEF Waiters, Others
<1>3. \A x \in L : UnitsOf(x, Watched)' = UnitsOf(x, Watched)
  BY <1>2 DEF UnitsOf
<1>4. \A x \in L : state'[x] = "granted" <=> x \in T
  BY <1>1, <1>2
<1>5. ASSUME NEW x \in Callers, x /= c, x \in T
      PROVE  Has(x, Watched)' = UnitsOf(x, Watched)
  BY <1>1, <1>5, WokenHave
<1>6. ASSUME NEW x \in Callers, x /= c, x \notin T
      PROVE  Has(x, Watched)' = h[x]
  <2>1. state'[x] = state[x]
    BY <1>1, <1>6
  <2> QED BY <1>6, <2>1, OthersHave
<1> HIDE DEF L
<1>7. \A x \in Callers :
        Has(x, Watched)' = IF x \in L /\ state'[x] = "granted"
                           THEN UnitsOf(x, Watched) ELSE h[x]
  <2> SUFFICES ASSUME NEW x \in Callers
               PROVE  Has(x, Watched)' = IF x \in L /\ state'[x] = "granted"
                                         THEN UnitsOf(x, Watched) ELSE h[x]
    OBVIOUS
  <2>1. CASE x = c
    BY <2>1 DEF L
  <2>2. CASE x /= c /\ x \in T
    BY <1>1, <1>4, <1>5, <2>2
  <2>3. CASE x /= c /\ x \notin T
    BY <1>4, <1>6, <2>3
  <2> QED BY <2>1, <2>2, <2>3
<1> QED BY <1>2, <1>3, <1>7 DEF L

LEMMA ServingMaps ==
  ASSUME Inv, NEW c \in Callers, Others(c), NEW u \in Int, u <= Size[Watched],
         NEW s, Lists(Callers, s, Waiters(Watched) \ {c}),
         NEW st, \A x \in Callers : x /= c => st[x] = state[x],
         Grant(Watched, u, s, st),
         NEW h, h[c] = Has(c, Watched)', \A x \in Callers : x /= c => h[x] = Has(x, Watched)
  PROVE  Abstract!Grant(u, Line(s), h)
<1> DEFINE L == Waiters(Watched) \ {c}
<1>1. L \subseteq Waiters(Watched) /\ Lists(Callers, s, L)
  OBVIOUS
<1>2. PICK T : Wakes(Watched, u, L, st, T)
  BY <1>1, WatchedAssumption, GrantWakes
<1>3. /\ \A x \in L : st[x] = "waiting" /\ UnitsOf(x, Watched)' = UnitsOf(x, Watched)
      /\ \A x \in Callers :
           Has(x, Watched)' = IF x \in L /\ state'[x] = "granted"
                              THEN UnitsOf(x, Watched) ELSE h[x]
  BY <1>2, GrantHolds
<1> HIDE DEF L
<1> QED BY <1>1, <1>3, GrantMaps

(* Serving another budget leaves this one alone.                           *)
LEMMA ElsewhereRests ==
  ASSUME Inv, NEW c \in Callers, Others(c), NEW r \in Budgets, r /= Watched,
         NEW u, NEW st, NEW T, Wakes(r, u, Waiters(r) \ {c}, st, T),
         \A x \in Callers : x /= c => st[x] = state[x],
         Has(c, Watched)' = Has(c, Watched), op'[c] = op[c], closed' = closed
  PROVE  UNCHANGED Abstract!vars
<1>1. /\ T \subseteq Waiters(r) \ {c}
      /\ \A x \in Callers : state'[x] = IF x \in T THEN "granted" ELSE st[x]
      /\ q'[Watched] = q[Watched] /\ used'[Watched] = used[Watched]
  BY WatchedAssumption DEF Wakes
<1>2. \A x \in Callers : op'[x] = op[x]
  BY DEF Others
<1>3. ASSUME NEW x \in Callers
      PROVE  Has(x, Watched)' = Has(x, Watched)
  <2>1. CASE x = c
    BY <2>1
  <2>2. CASE x /= c /\ x \in T
    BY <1>1, <2>2, WokenHave
  <2>3. CASE x /= c /\ x \notin T
    <3>1. state'[x] = state[x]
      BY <1>1, <2>3
    <3> QED BY <2>3, <3>1, OthersHave
  <2> QED BY <2>1, <2>2, <2>3
<1>4. \A x \in Waiters(Watched) : op'[x] = op[x]
  BY <1>2 DEF Waiters
<1> QED BY <1>1, <1>3, <1>4, BudgetRests

(* A call that is about to claim the budget has nothing of it yet.         *)
LEMMA NothingYet ==
  ASSUME Inv, NEW c \in Callers, pc[c] = "claim", Claiming(c), Claim(c, next[c] + 1).r = Watched
  PROVE  Abstract!Idle(c)
<1>1. /\ op[c] \in Ops /\ next[c] + 1 \in 1..Len(Claims[op[c]]) /\ next[c] \in Nat
  BY NextClaim DEF Inv, TypeOK
<1>2. Granted(c) = next[c]
  BY DEF Granted
<1>3. HasTo(c, (next[c] + 1) - 1, Watched) = 0
  BY <1>1, HasNext
<1>4. (next[c] + 1) - 1 = next[c]
  BY <1>1
<1>5. Has(c, Watched) = 0
  BY <1>2, <1>3, <1>4, HasNow
<1>6. c \notin Waiters(Watched)
  BY DEF Waiters
<1>7. \A i \in 1..Len(q[Watched]) : Line(q[Watched])[i].id = q[Watched][i]
  BY InLine, LineIs
<1>8. DOMAIN Line(q[Watched]) = 1..Len(q[Watched])
  <2>1. DOMAIN q[Watched] = 1..Len(q[Watched])
    BY InLine, LenProperties
  <2> QED BY <2>1 DEF Line
<1>9. ~Abstract!Queued(c)
  <2> SUFFICES ASSUME NEW i \in DOMAIN Line(q[Watched]), Line(q[Watched])[i].id = c
               PROVE  FALSE
    BY DEF Abstract!Queued, Abstract!ToSet
  <2> QED BY <1>6, <1>7, <1>8, InLine
<1>10. Held[c] = 0
  BY <1>5 DEF Held
<1> QED BY <1>9, <1>10 DEF Abstract!Idle

LEMMA TakingMaps ==
  ASSUME Inv, NEW c \in Callers, Do(c), ClaimTakes(c)
  PROVE  Abstract!Next \/ UNCHANGED Abstract!vars
<1>1. Others(c)
  BY DoFrames
<1>2. PICK m, r, n : m = next[c] + 1 /\ r = Claim(c, m).r /\ n = Claim(c, m).n
  OBVIOUS
<1>3. Claiming(c) /\ pc[c] = "claim"
  BY DEF ClaimTakes, Claiming
<1>4. /\ op[c] \in Ops /\ m \in 1..Len(Claims[op[c]])
      /\ r \in Budgets /\ n \in Nat \ {0}
  BY <1>2, <1>3, NextClaim
<1>5. n <= Size[r]
  BY <1>2, <1>4, UnitsAre
<1>6. /\ HasTo(c, m, r) = n /\ HasTo(c, m-1, r) = 0
      /\ \A b : b /= r => HasTo(c, m, b) = HasTo(c, m-1, b)
  BY <1>2, <1>4, HasNext
<1>7. /\ q[r] = <<>> /\ used[r] + n <= Size[r]
      /\ used' = [used EXCEPT ![r] = used[r] + n]
      /\ q' = q /\ closed' = closed /\ state' = state /\ pc' = pc /\ op' = op
      /\ next' = [next EXCEPT ![c] = next[c] + 1]
  BY <1>2 DEF ClaimTakes, AtOnce, callVars
<1>8. Granted(c) = m-1 /\ Granted(c)' = m
  BY <1>2, <1>3, <1>7 DEF Granted, Inv, TypeOK
<1>9. \A b : Has(c, b) = HasTo(c, m-1, b) /\ Has(c, b)' = HasTo(c, m, b)
  <2>1. \A b : Has(c, b) = HasTo(c, Granted(c), b)
    BY HasNow
  <2>2. \A b : Has(c, b)' = HasTo(c, Granted(c)', b)
    BY <1>7, HasThen
  <2> QED BY <1>8, <2>1, <2>2
<1>10. \A x \in Callers : x /= c => Has(x, Watched)' = Has(x, Watched)
  BY <1>1, <1>7, OthersHave
<1>11. CASE r /= Watched
  <2>1. used'[Watched] = used[Watched]
    BY <1>7, <1>11, WatchedAssumption DEF Inv, TypeOK
  <2>2. \A x \in Callers : Has(x, Watched)' = Has(x, Watched)
    BY <1>6, <1>9, <1>10, <1>11
  <2> QED BY <1>7, <2>1, <2>2, BudgetRests
<1>12. CASE r = Watched
  <2>1. Abstract!Idle(c)
    BY <1>2, <1>3, <1>12, NothingYet
  <2>2. Line(q[Watched]) = <<>> /\ Line(q[Watched])' = <<>>
    <3>1. q[Watched] = <<>> /\ q'[Watched] = <<>>
      BY <1>7, <1>12
    <3> QED BY <3>1 DEF Line
  <2>3. used'[Watched] = used[Watched] + n
    BY <1>7, <1>12, WatchedAssumption DEF Inv, TypeOK
  <2>4. Held' = [Held EXCEPT ![c] = n]
    <3>1. \A x \in Callers : Has(x, Watched)' = IF x = c THEN n ELSE Has(x, Watched)
      BY <1>6, <1>9, <1>10, <1>12
    <3> QED BY <3>1 DEF Held
  <2>5. Abstract!TryAcquire(c, n)
    BY <1>7, <1>12, <2>1, <2>2, <2>3, <2>4 DEF Abstract!TryAcquire
  <2>6. n \in 1..Size[Watched]
    BY <1>4, <1>5, <1>12, BudgetsAssumption
  <2> QED BY <2>5, <2>6 DEF Abstract!Next
<1> QED BY <1>11, <1>12

LEMMA AppendIs ==
  ASSUME NEW S, NEW t \in Seq(S), NEW e \in S
  PROVE  Append(t, e) = [i \in 1..(Len(t)+1) |-> IF i = Len(t)+1 THEN e ELSE t[i]]
<1>1. /\ Append(t, e) \in Seq(S) /\ Len(Append(t, e)) = Len(t)+1
      /\ \A i \in 1..Len(t) : Append(t, e)[i] = t[i]
      /\ Append(t, e)[Len(t)+1] = e
  BY AppendProperties
<1>2. Len(t) \in Nat /\ DOMAIN Append(t, e) = 1..(Len(t)+1)
      /\ Append(t, e) = [i \in DOMAIN Append(t, e) |-> Append(t, e)[i]]
  BY <1>1, LenProperties
<1>3. \A i \in 1..(Len(t)+1) : Append(t, e)[i] = IF i = Len(t)+1 THEN e ELSE t[i]
  BY <1>1, <1>2
<1> QED BY <1>2, <1>3

LEMMA QueueingMaps ==
  ASSUME Inv, NEW c \in Callers, Do(c), ClaimQueues(c)
  PROVE  Abstract!Next \/ UNCHANGED Abstract!vars
<1>1. Others(c)
  BY DoFrames
<1>2. PICK m, r, n : m = next[c] + 1 /\ r = Claim(c, m).r /\ n = Claim(c, m).n
  OBVIOUS
<1>3. Claiming(c) /\ pc[c] = "claim"
  BY DEF ClaimQueues, Claiming
<1>4. /\ op[c] \in Ops /\ m \in 1..Len(Claims[op[c]])
      /\ r \in Budgets /\ n \in Nat \ {0}
  BY <1>2, <1>3, NextClaim
<1>5. n <= Size[r] /\ UnitsOf(c, r) = n
  BY <1>2, <1>4, UnitsAre
<1>6. /\ ~(q[r] = <<>> /\ used[r] + n <= Size[r]) /\ r \notin closed
      /\ q' = [q EXCEPT ![r] = Append(q[r], c)]
      /\ used' = used /\ closed' = closed /\ op' = op /\ next' = next
      /\ state' = [state EXCEPT ![c] = "waiting"] /\ pc' = [pc EXCEPT ![c] = "claimWait"]
  BY <1>2 DEF ClaimQueues, AtOnce, callVars, Goto
<1>7. Granted(c)' = Granted(c)
  BY <1>3, <1>6 DEF Granted, Inv, TypeOK
<1>8. \A x \in Callers : x /= c => state'[x] = state[x]
  BY <1>6 DEF Inv, TypeOK
<1>9. \A x \in Callers : Has(x, Watched)' = Has(x, Watched)
  <2>1. Has(c, Watched)' = Has(c, Watched)
    <3>1. Has(c, Watched)' = HasTo(c, Granted(c)', Watched)
      BY <1>6, HasThen
    <3> QED BY <1>7, <3>1, HasNow
  <2> QED BY <1>1, <1>8, <2>1, OthersHave
<1>10. CASE r /= Watched
  <2>1. q'[Watched] = q[Watched]
    BY <1>6, <1>10, WatchedAssumption DEF Inv, TypeOK
  <2> QED BY <1>6, <1>9, <2>1, BudgetRests
<1>11. CASE r = Watched
  <2>1. Abstract!Idle(c)
    BY <1>2, <1>3, <1>11, NothingYet
  <2>2. PICK s : s = q[Watched]
    OBVIOUS
  <2>3. /\ s \in Seq(Callers) /\ Len(s) \in Nat /\ DOMAIN s = 1..Len(s)
        /\ \A i \in 1..Len(s) : UnitsOf(s[i], Watched) \in Nat
    BY <2>2, InLine, LenProperties
  <2>4. /\ Line(s) \in Seq([id : Callers, n : Nat]) /\ Len(Line(s)) = Len(s)
    BY <2>3, LineIs
  <2>5. /\ Append(s, c) = [i \in 1..(Len(s)+1) |-> IF i = Len(s)+1 THEN c ELSE s[i]]
        /\ Append(Line(s), [id |-> c, n |-> n])
             = [i \in 1..(Len(s)+1) |-> IF i = Len(s)+1 THEN [id |-> c, n |-> n] ELSE Line(s)[i]]
    <3>1. [id |-> c, n |-> n] \in [id : Callers, n : Nat]
      BY <1>4
    <3>2. Append(s, c) = [i \in 1..(Len(s)+1) |-> IF i = Len(s)+1 THEN c ELSE s[i]]
      BY <2>3, AppendIs
    <3>3. Append(Line(s), [id |-> c, n |-> n])
            = [i \in 1..(Len(Line(s))+1) |->
                 IF i = Len(Line(s))+1 THEN [id |-> c, n |-> n] ELSE Line(s)[i]]
      BY ONLY <2>4, <3>1, AppendIs
    <3> QED BY <2>4, <3>2, <3>3
  <2>6. \A x : UnitsOf(x, Watched)' = UnitsOf(x, Watched)
    BY <1>6 DEF UnitsOf
  <2>7. q'[Watched] = Append(s, c)
    BY <1>6, <1>11, <2>2, WatchedAssumption DEF Inv, TypeOK
  <2>8. Line(q[Watched])'
          = [i \in 1..(Len(s)+1) |-> [id |-> Append(s, c)[i], n |-> UnitsOf(Append(s, c)[i], Watched)]]
    <3>1. DOMAIN Append(s, c) = 1..(Len(s)+1)
      BY <2>5
    <3> QED BY <2>6, <2>7, <3>1 DEF Line
  <2>9. ASSUME NEW i \in 1..(Len(s)+1)
        PROVE  [id |-> Append(s, c)[i], n |-> UnitsOf(Append(s, c)[i], Watched)]
                 = IF i = Len(s)+1 THEN [id |-> c, n |-> n] ELSE Line(s)[i]
    <3>1. CASE i = Len(s)+1
      BY <1>5, <1>11, <2>5, <3>1
    <3>2. CASE i /= Len(s)+1
      <4>1. i \in DOMAIN s /\ Append(s, c)[i] = s[i]
        BY <2>3, <2>5, <3>2
      <4>2. Line(s)[i] = [id |-> s[i], n |-> UnitsOf(s[i], Watched)]
        BY <4>1 DEF Line
      <4> QED BY <3>2, <4>1, <4>2
    <3> QED BY <3>1, <3>2
  <2>10. Line(q[Watched])' = Append(Line(q[Watched]), [id |-> c, n |-> n])
    BY <2>2, <2>5, <2>8, <2>9
  <2>11. Held' = Held
    BY <1>9 DEF Held
  <2>12. Line(q[Watched]) = <<>> => q[Watched] = <<>>
    <3>1. Line(s) = <<>> => Len(s) = 0
      BY <2>4
    <3> QED BY <2>2, <2>3, <3>1, EmptySeq
  <2>13. Abstract!Acquire(c, n)
    <3>1. (Watched \in closed') = (Watched \in closed)
      BY <1>6
    <3> QED BY <1>6, <1>11, <2>1, <2>10, <2>11, <2>12, <3>1 DEF Abstract!Acquire
  <2>14. n \in 1..Size[Watched]
    BY <1>4, <1>5, <1>11, BudgetsAssumption
  <2> QED BY <2>13, <2>14 DEF Abstract!Next
<1> QED BY <1>10, <1>11

LEMMA GivingUpMaps ==
  ASSUME Inv, NEW c \in Callers, Do(c), UnitsGivenUp(c)
  PROVE  Abstract!Next \/ UNCHANGED Abstract!vars
<1>1. Others(c)
  BY DoFrames
<1>2. PICK m, r, n : m = next[c] + 1 /\ r = Claim(c, m).r /\ n = Claim(c, m).n
  OBVIOUS
<1>3. /\ op[c] \in Ops /\ m \in 1..Len(Claims[op[c]])
      /\ r \in Budgets /\ n \in Nat \ {0} /\ GivesUp(c, r) /\ pc[c] = "claimWait"
  <2>1. op[c] \in Ops /\ m \in 1..Len(Claims[op[c]]) /\ r \in Budgets /\ GivesUp(c, r)
    BY <1>2, GivingUp
  <2> QED BY <1>2, <2>1, UnitsAre DEF UnitsGivenUp
<1>4. /\ HasTo(c, m, r) = n /\ HasTo(c, m-1, r) = 0
      /\ \A b : b /= r => HasTo(c, m, b) = HasTo(c, m-1, b)
  BY <1>2, <1>3, HasNext
<1>5. /\ closed' = closed /\ op' = op
      /\ Granted(c) = IF state[c] = "granted" THEN m ELSE m-1
      /\ Granted(c)' = m-1
  BY <1>2, <1>3 DEF UnitsGivenUp, Granted, Goto, callVars, Inv, TypeOK
<1>6. \A b : Has(c, b) = HasTo(c, Granted(c), b) /\ Has(c, b)' = HasTo(c, m-1, b)
  <2>1. \A b : Has(c, b)' = HasTo(c, Granted(c)', b)
    BY <1>5, HasThen
  <2> QED BY <1>5, <2>1, HasNow
<1>7. /\ Has(c, r) = IF state[c] = "granted" THEN n ELSE 0
      /\ Has(c, r)' = 0
      /\ \A b : b /= r => Has(c, b)' = Has(c, b)
  BY <1>4, <1>5, <1>6
<1>8. \A x \in Callers : x /= c => Forget(c)[x] = state[x]
  BY DEF Inv, TypeOK, Forget
<1>9. ASSUME state' = Forget(c), state[c] /= "granted"
      PROVE  \A x \in Callers : Has(x, Watched)' = Has(x, Watched)
  <2>1. \A x \in Callers : x /= c => Has(x, Watched)' = Has(x, Watched)
    BY <1>1, <1>8, <1>9, OthersHave
  <2> QED BY <1>7, <1>9, <2>1
<1>10. CASE r /= Watched
  <2>1. CASE \E u, T : Wakes(r, u, Waiters(r) \ {c}, Forget(c), T)
    <3>1. PICK u, T : Wakes(r, u, Waiters(r) \ {c}, Forget(c), T)
      BY <2>1
    <3>2. Has(c, Watched)' = Has(c, Watched) /\ op'[c] = op[c]
      BY <1>5, <1>7, <1>10
    <3> QED BY <1>1, <1>3, <1>5, <1>8, <1>10, <3>1, <3>2, ElsewhereRests
  <2>2. CASE ~ \E u, T : Wakes(r, u, Waiters(r) \ {c}, Forget(c), T)
    <3>1. /\ state' = Forget(c) /\ state[c] /= "granted"
          /\ q'[Watched] = q[Watched] /\ used' = used
      BY <1>3, <1>10, <2>2, WatchedAssumption DEF GivesUp
    <3> QED BY <1>5, <1>9, <3>1, BudgetRests
  <2> QED BY <2>1, <2>2
<1>11. CASE r = Watched
  <2> DEFINE s == q[Watched]
  <2>1. \/ state[c] = "waiting" /\ LeaveQueue(c, Watched)
        \/ state[c] = "granted" /\ Grant(Watched, used[Watched] - n, s, Forget(c))
        \/ state[c] = "withdrawn" /\ state' = Forget(c) /\ UNCHANGED <<used, q>>
    BY <1>2, <1>11 DEF UnitsGivenUp
  <2>2. Lists(Callers, s, Waiters(Watched)) /\ q \in [Budgets -> Seq(Callers)]
    BY WatchedAssumption DEF Inv, TypeOK, QueuesRight
  <2>3. /\ used[Watched] \in Int /\ used[Watched] <= Size[Watched]
        /\ used[Watched] - n \in Int /\ used[Watched] - n <= Size[Watched]
    BY <1>3, WatchedAssumption, UnitsInUse
  <2>4. (Watched \in closed') = (Watched \in closed)
    BY <1>5
  <2>5. CASE state[c] = "withdrawn" /\ state' = Forget(c) /\ UNCHANGED <<used, q>>
    BY <1>5, <1>9, <2>5, BudgetRests
  <2>6. CASE state[c] = "granted" /\ Grant(Watched, used[Watched] - n, s, Forget(c))
    <3>1. PICK h : h = [Held EXCEPT ![c] = 0]
      OBVIOUS
    <3>2. Held[c] = n /\ h[c] = Has(c, Watched)' /\ \A x \in Callers : x /= c => h[x] = Has(x, Watched)
      BY <1>7, <1>11, <2>6, <3>1 DEF Held
    <3>3. Waiters(Watched) \ {c} = Waiters(Watched)
      BY <2>6 DEF Waiters
    <3>4. Abstract!Grant(used[Watched] - n, Line(s), h)
      BY <1>1, <1>8, <2>2, <2>3, <2>6, <3>2, <3>3, ServingMaps
    <3>5. Abstract!Release(c)
      BY <1>3, <2>4, <3>1, <3>2, <3>4 DEF Abstract!Release
    <3> QED BY <3>5 DEF Abstract!Next
  <2>7. CASE state[c] = "waiting" /\ LeaveQueue(c, Watched)
    <3>1. PICK i \in DOMAIN s :
            /\ s[i] = c
            /\ IF i = 1 THEN Grant(Watched, used[Watched], Tail(s), Forget(c))
               ELSE q' = [q EXCEPT ![Watched] = RemoveAt(s, i)] /\ state' = Forget(c) /\ UNCHANGED used
      BY <2>7 DEF LeaveQueue
    <3>2. /\ s \in Seq(Callers) /\ Len(s) \in Nat /\ DOMAIN s = 1..Len(s)
          /\ \A j \in 1..Len(s) : UnitsOf(s[j], Watched) \in Nat
      BY InLine, LenProperties
    <3>3. DOMAIN Line(s) = DOMAIN s /\ Line(s)[i].id = c
      BY <3>1 DEF Line
    <3>4. Has(c, Watched) = 0 /\ Has(c, Watched)' = 0
      BY <1>7, <1>11, <2>7
    <3>5. CASE i = 1
      <4>1. s /= <<>> /\ Head(s) = c
        BY <3>1, <3>2, <3>5
      <4>2. Lists(Callers, Tail(s), Waiters(Watched) \ {c})
        BY ONLY <2>2, <4>1, ListsTail
      <4>3. PICK h : h = Held
        OBVIOUS
      <4>4. h[c] = Has(c, Watched)' /\ \A x \in Callers : x /= c => h[x] = Has(x, Watched)
        BY <3>4, <4>3 DEF Held
      <4>5. PICK t : t = Tail(s)
        OBVIOUS
      <4>6. Grant(Watched, used[Watched], t, Forget(c)) /\ Lists(Callers, t, Waiters(Watched) \ {c})
        BY <3>1, <3>5, <4>2, <4>5
      <4>7. Abstract!Grant(used[Watched], Line(t), h)
        BY <1>1, <1>8, <2>3, <4>4, <4>6, ServingMaps
      <4>8. Line(t) = Tail(Line(s))
        BY <3>2, <4>1, <4>5, LineTail
      <4>9. Abstract!Cancel(c)
        BY <2>4, <3>1, <3>3, <3>5, <4>3, <4>7, <4>8 DEF Abstract!Cancel
      <4> QED BY <4>9 DEF Abstract!Next
    <3>6. CASE i /= 1
      <4>1. PICK t : t = RemoveAt(s, i)
        OBVIOUS
      <4>2. q' = [q EXCEPT ![Watched] = t] /\ state' = Forget(c) /\ used' = used
        BY <3>1, <3>6, <4>1
      <4>3. q'[Watched] = t
        BY <2>2, <4>2, WatchedAssumption
      <4>4. Line(t) = RemoveAt(Line(s), i)
        BY <3>1, <3>2, <4>1, LineRemoveAt
      <4>5. Line(q[Watched])' = Line(t)
        BY <1>5, <4>3 DEF Line, UnitsOf
      <4>6. Held' = Held
        BY <1>9, <2>7, <4>2 DEF Held
      <4>7. RemoveAt(Line(s), i) = Abstract!RemoveAt(Line(s), i)
        BY DEF RemoveAt, Abstract!RemoveAt
      <4>8. Abstract!Cancel(c)
        BY <2>4, <3>1, <3>3, <3>6, <4>2, <4>4, <4>5, <4>6, <4>7 DEF Abstract!Cancel
      <4> QED BY <4>8 DEF Abstract!Next
    <3> QED BY <3>5, <3>6
  <2> QED BY <2>1, <2>5, <2>6, <2>7
<1> QED BY <1>10, <1>11

LEMMA ReleasingMaps ==
  ASSUME Inv, NEW c \in Callers, Do(c), ReleaseUnits(c)
  PROVE  Abstract!Next \/ UNCHANGED Abstract!vars
<1>1. Others(c)
  BY DoFrames
<1>2. PICK m, r, n : m = next[c] /\ r = Claim(c, m).r /\ n = Claim(c, m).n
  OBVIOUS
<1>3. /\ op[c] \in Ops /\ m \in 1..Len(Claims[op[c]]) /\ r \in Budgets
      /\ \E T : Wakes(r, used[r] - n, Waiters(r), state, T)
  BY <1>2, ReleaseWakes
<1>4. n \in Nat \ {0} /\ pc[c] = "release"
  BY <1>2, <1>3, UnitsAre DEF ReleaseUnits
<1>5. /\ HasTo(c, m, r) = n /\ HasTo(c, m-1, r) = 0
      /\ \A b : b /= r => HasTo(c, m, b) = HasTo(c, m-1, b)
  BY <1>2, <1>3, HasNext
<1>6. closed' = closed /\ op' = op /\ Granted(c) = m /\ Granted(c)' = m-1
  BY <1>2, <1>4 DEF ReleaseUnits, Granted, callVars, Inv, TypeOK
<1>7. \A b : Has(c, b) = HasTo(c, m, b) /\ Has(c, b)' = HasTo(c, m-1, b)
  <2>1. \A b : Has(c, b)' = HasTo(c, Granted(c)', b)
    BY <1>6, HasThen
  <2>2. \A b : Has(c, b) = HasTo(c, Granted(c), b)
    BY HasNow
  <2> QED BY <1>6, <2>1, <2>2
<1>8. \A b : Waiters(b) \ {c} = Waiters(b)
  BY <1>4 DEF Waiters
<1>9. CASE r /= Watched
  <2>1. PICK T : Wakes(r, used[r] - n, Waiters(r) \ {c}, state, T)
    BY <1>3, <1>8
  <2>2. Has(c, Watched)' = Has(c, Watched) /\ op'[c] = op[c]
    BY <1>5, <1>6, <1>7, <1>9
  <2> QED BY <1>1, <1>3, <1>6, <1>9, <2>1, <2>2, ElsewhereRests
<1>10. CASE r = Watched
  <2>1. Grant(Watched, used[Watched] - n, q[Watched], state)
    BY <1>2, <1>10 DEF ReleaseUnits
  <2>2. Lists(Callers, q[Watched], Waiters(Watched) \ {c})
    BY <1>8, WatchedAssumption DEF Inv, QueuesRight
  <2>3. used[Watched] - n \in Int /\ used[Watched] - n <= Size[Watched]
    BY <1>4, WatchedAssumption, UnitsInUse
  <2>4. PICK h : h = [Held EXCEPT ![c] = 0]
    OBVIOUS
  <2>5. Held[c] = n /\ h[c] = Has(c, Watched)' /\ \A x \in Callers : x /= c => h[x] = Has(x, Watched)
    BY <1>5, <1>7, <1>10, <2>4 DEF Held
  <2>6. Abstract!Grant(used[Watched] - n, Line(q[Watched]), h)
    BY <1>1, <2>1, <2>2, <2>3, <2>5, ServingMaps
  <2>7. (Watched \in closed') = (Watched \in closed)
    BY <1>6
  <2>8. Abstract!Release(c)
    BY <1>4, <2>4, <2>5, <2>6, <2>7 DEF Abstract!Release
  <2> QED BY <2>8 DEF Abstract!Next
<1> QED BY <1>9, <1>10

LEMMA DoKeepsBudget ==
  ASSUME Inv, NEW c \in Callers, Do(c)
  PROVE  Abstract!Next \/ UNCHANGED Abstract!vars
<1>1. Others(c)
  BY DoFrames
<1>2. /\ pc \in [Callers -> PC] /\ next \in [Callers -> Nat] /\ op \in [Callers -> Ops \cup {None}]
      /\ state \in [Callers -> {"none", "waiting", "granted", "withdrawn"}]
  BY DEF Inv, TypeOK
<1>3. CASE ~(ClaimTakes(c) \/ ClaimQueues(c) \/ UnitsGivenUp(c) \/ ReleaseUnits(c))
  <2>1. used' = used /\ q' = q /\ closed' = closed
    BY <1>3 DEF Enter, CtxEnds, LockFree, LockHeld, KeyGranted, KeyGivenUp,
                ClaimRefused, UnitsGranted, Run, HandlerEnds, ReleaseKey, Exit, MarkDrained,
                Do, Proceeds, Admit, budgetVars
  <2>2. \A x \in Callers : x /= c => state'[x] = state[x] \/ pc[x] = "keyWait"
    BY <1>3, KeyWakes
  <2>3. \A x \in Callers : x /= c => Has(x, Watched)' = Has(x, Watched)
    BY <1>1, <2>2, OthersHave
  <2>4. Has(c, Watched)' = Has(c, Watched) /\ (op'[c] = op[c] \/ c \notin Waiters(Watched))
    <3>1. CASE Enter(c) \/ Exit(c)
      <4>1. pc[c] \in {"idle", "exit"} /\ next[c] = 0
        BY <3>1 DEF Enter, Exit, Inv, Calls
      <4>2. pc'[c] /= "claimWait" /\ next'[c] = 0
        BY <1>2, <3>1, <4>1 DEF Enter, Exit, Goto
      <4>3. Has(c, Watched) = 0
        BY <4>1, HasOfIdle
      <4>4. Granted(c)' = 0 /\ 1..0 = {}
        BY <4>2 DEF Granted
      <4>5. Has(c, Watched)' = 0
        BY <4>4 DEF Has
      <4> QED BY <4>1, <4>3, <4>5 DEF Waiters
    <3>2. CASE ~(Enter(c) \/ Exit(c))
      <4>1. op'[c] = op[c]
        BY <1>3, <3>2 DEF CtxEnds, LockFree, LockHeld, KeyGranted, KeyGivenUp, ClaimQueues,
                ClaimRefused, UnitsGranted, Run, HandlerEnds, ReleaseKey, MarkDrained,
                Do, Proceeds, Admit, callVars
      <4>2. Granted(c)' = Granted(c)
        BY <1>2, <1>3, <3>2
           DEF CtxEnds, LockFree, LockHeld, KeyGranted, KeyGivenUp, ClaimQueues,
                ClaimRefused, UnitsGranted, Run, HandlerEnds, ReleaseKey, MarkDrained,
                Do, Proceeds, Admit, Goto, Fail, Granted
      <4>3. Has(c, Watched)' = HasTo(c, Granted(c)', Watched)
        BY <4>1, HasThen
      <4> QED BY <4>1, <4>2, <4>3, HasNow
    <3> QED BY <3>1, <3>2
  <2>5. \A x \in Waiters(Watched) : op'[x] = op[x]
    BY <1>1, <2>4 DEF Others, Waiters
  <2> QED BY <2>1, <2>3, <2>4, <2>5, BudgetRests
<1> QED BY <1>3, TakingMaps, QueueingMaps, GivingUpMaps, ReleasingMaps

LEMMA ShutdownKeepsBudget ==
  ASSUME Inv, Shutdown
  PROVE  Abstract!Next \/ UNCHANGED Abstract!vars
<1>1. /\ pc' = pc /\ op' = op /\ next' = next /\ used' = used
      /\ \A x \in Callers : state'[x] = state[x] \/ Woken(x, "withdrawn")
  BY ShutdownFrames
<1>2. \A x \in Callers : Has(x, Watched)' = Has(x, Watched)
  <2>1. \A x \in Callers : Granted(x)' = Granted(x)
    BY <1>1 DEF Granted, Woken
  <2> QED BY <1>1, <2>1, HasThen, HasNow
<1>3. CASE CloseBudget
  <2>1. PICK r \in Budgets \ closed :
          closed' = closed \cup {r} /\ q' = [q EXCEPT ![r] = <<>>]
    BY <1>3, Withdrawn
  <2>2. CASE r /= Watched
    <3>1. q'[Watched] = q[Watched] /\ (Watched \in closed' <=> Watched \in closed)
      BY <2>1, <2>2, WatchedAssumption DEF Inv, TypeOK
    <3> QED BY <1>1, <1>2, <3>1, BudgetRests
  <2>3. CASE r = Watched
    <3>1. q'[Watched] = <<>>
      BY <2>1, <2>3, WatchedAssumption DEF Inv, TypeOK
    <3>2. Line(q[Watched])' = <<>>
      BY <3>1 DEF Line
    <3>3. Held' = Held
      BY <1>2 DEF Held
    <3>4. (Watched \in closed') = TRUE /\ ~(Watched \in closed)
      BY <2>1, <2>3
    <3>5. Abstract!Close
      BY <1>1, <3>2, <3>3, <3>4 DEF Abstract!Close
    <3> QED BY <3>5 DEF Abstract!Next
  <2> QED BY <2>2, <2>3
<1>4. CASE ~CloseBudget
  <2>1. q' = q /\ closed' = closed
    BY <1>4 DEF Shutdown, ShutdownProceeds, Stop, CloseKeys, Mark, ReturnNil, budgetVars
  <2> QED BY <1>1, <1>2, <2>1, BudgetRests
<1> QED BY <1>3, <1>4

LEMMA BudgetInit == Init => Abstract!Init
<1> SUFFICES ASSUME Init PROVE Abstract!Init
  OBVIOUS
<1>1. /\ used = [r \in Budgets |-> 0] /\ q = [r \in Budgets |-> <<>>] /\ closed = {}
      /\ pc = [c \in Callers |-> "idle"] /\ next = [c \in Callers |-> 0]
  BY DEF Init
<1>2. Held = [c \in Callers |-> 0]
  <2>1. \A c \in Callers : Has(c, Watched) = 0
    BY <1>1, HasOfIdle
  <2> QED BY <2>1 DEF Held
<1>3. Line(q[Watched]) = <<>>
  <2>1. q[Watched] = <<>>
    BY <1>1, WatchedAssumption
  <2> QED BY <2>1 DEF Line
<1>4. (Watched \in closed) = FALSE
  BY <1>1
<1> QED BY <1>1, <1>2, <1>3, <1>4, WatchedAssumption DEF Abstract!Init

(* The composition keeps the promise of each budget: whatever a call does  *)
(* with the other budgets, the key and the gate, with several claims, late *)
(* grants and failures halfway, the budget takes, queues, serves, withdraws *)
(* and closes as the reference semaphore does (operation.go acquire and    *)
(* release, resource.go, runtime.go Shutdown).                             *)
THEOREM HertaKeepsBudgets == Spec => KeepsBudget
<1>1. Init => Abstract!Init
  BY BudgetInit
<1>2. Inv /\ [Next]_vars => [Abstract!Next]_(Abstract!vars)
  <2> SUFFICES ASSUME Inv, [Next]_vars
               PROVE  Abstract!Next \/ UNCHANGED Abstract!vars
    OBVIOUS
  <2>1. ASSUME NEW c \in Callers, Do(c)
        PROVE  Abstract!Next \/ UNCHANGED Abstract!vars
    BY <2>1, DoKeepsBudget
  <2>2. CASE Shutdown
    BY <2>2, ShutdownKeepsBudget
  <2>3. CASE UNCHANGED vars
    <3>1. /\ q' = q /\ used' = used /\ closed' = closed /\ op' = op /\ pc' = pc
          /\ next' = next /\ state' = state
      BY <2>3 DEF vars, budgetVars, callVars
    <3>2. \A x \in Callers : Has(x, Watched)' = Has(x, Watched)
      BY <3>1 DEF Has, Granted, Claim, UnitsOf
    <3> QED BY <3>1, <3>2, BudgetRests
  <2> QED BY <2>1, <2>2, <2>3 DEF Next, RefusedFromNowOn
<1> QED BY <1>1, <1>2, InvAlways, PTL DEF Spec, KeepsBudget, Abstract!Spec
=============================================================================
