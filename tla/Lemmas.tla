------------------------------- MODULE Lemmas -------------------------------
(***************************************************************************)
(* What the proofs need to know of data: that a list without repetition    *)
(* stays one when a caller joins it at the end, leaves it from anywhere or *)
(* is taken from its front; what sums and recursive functions compute; and *)
(* that a finite set can be sorted.  The library's induction theorems take *)
(* an operator; those here take a set, the members of which have the       *)
(* property, so that a prover can use them.                                *)
(***************************************************************************)
EXTENDS Integers, SequencesExt, TLAPS, SequenceTheorems, FiniteSetTheorems,
        WellFoundedInduction

(* Removing one element of a sequence.                                     *)
LEMMA RemoveAtProperties ==
  ASSUME NEW S, NEW s \in Seq(S), NEW i \in 1..Len(s)
  PROVE  /\ RemoveAt(s, i) \in Seq(S)
         /\ Len(RemoveAt(s, i)) = Len(s) - 1
         /\ \A j \in 1..(Len(s) - 1) :
              RemoveAt(s, i)[j] = IF j < i THEN s[j] ELSE s[j+1]
<1> DEFINE l == SubSeq(s, 1, i-1)
           r == SubSeq(s, i+1, Len(s))
<1>1. Len(s) \in Nat /\ i \in Int
  BY LenProperties
<1>2. l \in Seq(S) /\ Len(l) = i-1 /\ \A j \in 1..(i-1) : l[j] = s[j]
  BY <1>1, SubSeqProperties, \A j \in 1..(i-1) : 1+j-1 = j
<1>3. r \in Seq(S) /\ Len(r) = Len(s)-i /\ \A j \in 1..(Len(s)-i) : r[j] = s[i+j]
  <2>1. r \in Seq(S) /\ Len(r) = IF i+1 <= Len(s) THEN Len(s)-(i+1)+1 ELSE 0
    BY <1>1, SubSeqProperties
  <2>2. \A j \in 1..(Len(s)-(i+1)+1) : r[j] = s[(i+1)+j-1]
    BY <1>1, SubSeqProperties
  <2> QED BY <1>1, <2>1, <2>2
<1>4. RemoveAt(s, i) = l \o r
  BY DEF RemoveAt
<1> HIDE DEF l, r
<1>5. /\ l \o r \in Seq(S)
      /\ Len(l \o r) = Len(l) + Len(r)
      /\ \A j \in 1..(Len(l) + Len(r)) :
           (l \o r)[j] = IF j <= Len(l) THEN l[j] ELSE r[j - Len(l)]
  BY <1>2, <1>3, ConcatProperties
<1>6. ASSUME NEW j \in 1..(Len(s) - 1)
      PROVE  RemoveAt(s, i)[j] = IF j < i THEN s[j] ELSE s[j+1]
  <2>1. (l \o r)[j] = IF j <= i-1 THEN l[j] ELSE r[j-(i-1)]
    BY <1>1, <1>2, <1>3, <1>5
  <2>2. CASE j < i
    BY <1>1, <1>2, <1>4, <2>1, <2>2
  <2>3. CASE ~(j < i)
    <3>1. j-(i-1) \in 1..(Len(s)-i) /\ i+(j-(i-1)) = j+1
      BY <1>1, <2>3
    <3> QED BY <1>1, <1>3, <1>4, <2>1, <2>3, <3>1
  <2> QED BY <2>2, <2>3
<1> QED BY <1>1, <1>2, <1>3, <1>4, <1>5, <1>6
(* A sequence over S that lists exactly the elements of W, each once.      *)
Lists(S, s, W) == s \in Seq(S) /\ IsInjective(s) /\ ToSet(s) = W

LEMMA ListsAppend ==
  ASSUME NEW S, NEW W, NEW s, Lists(S, s, W), NEW c \in S, c \notin W
  PROVE  Lists(S, Append(s, c), W \cup {c})
<1>1. s \in Seq(S) /\ Len(s) \in Nat /\ DOMAIN s = 1..Len(s)
  BY LenProperties DEF Lists
<1>2. /\ Append(s, c) \in Seq(S)
      /\ Len(Append(s, c)) = Len(s) + 1
      /\ \A i \in 1..Len(s) : Append(s, c)[i] = s[i]
      /\ Append(s, c)[Len(s) + 1] = c
  BY <1>1, AppendProperties
<1>3. DOMAIN Append(s, c) = 1..(Len(s) + 1)
  BY <1>2, LenProperties
<1>4. \A i \in 1..Len(s) : s[i] \in W
  BY <1>1 DEF Lists, ToSet
<1>5. IsInjective(Append(s, c))
  BY <1>1, <1>2, <1>3, <1>4 DEF IsInjective, Lists
<1>6. ToSet(Append(s, c)) = W \cup {c}
  <2>1. \A x \in W : \E i \in 1..Len(s) : s[i] = x
    BY <1>1 DEF Lists, ToSet
  <2> QED BY <1>1, <1>2, <1>3, <1>4, <2>1 DEF ToSet
<1> QED BY <1>2, <1>5, <1>6 DEF Lists

LEMMA ListsRemove ==
  ASSUME NEW S, NEW W, NEW s, Lists(S, s, W), NEW i \in DOMAIN s
  PROVE  Lists(S, RemoveAt(s, i), W \ {s[i]})
<1> DEFINE t == RemoveAt(s, i)
<1>1. s \in Seq(S) /\ Len(s) \in Nat /\ DOMAIN s = 1..Len(s) /\ i \in 1..Len(s)
  BY LenProperties DEF Lists
<1>2. /\ t \in Seq(S)
      /\ Len(t) = Len(s) - 1
      /\ \A j \in 1..(Len(s) - 1) : t[j] = IF j < i THEN s[j] ELSE s[j+1]
  BY <1>1, RemoveAtProperties
<1>3. DOMAIN t = 1..(Len(s) - 1)
  BY <1>2, LenProperties
<1>4. \A a, b \in 1..Len(s) : s[a] = s[b] => a = b
  BY <1>1 DEF IsInjective, Lists
<1> HIDE DEF t
<1>5. IsInjective(t)
  BY <1>1, <1>2, <1>3, <1>4 DEF IsInjective
<1>6. ToSet(t) = W \ {s[i]}
  <2>1. \A x \in W : \E j \in 1..Len(s) : s[j] = x
    BY <1>1 DEF Lists, ToSet
  <2>2. \A j \in 1..Len(s) : s[j] \in W
    BY <1>1 DEF Lists, ToSet
  <2>3. ASSUME NEW x \in W, x /= s[i] PROVE x \in ToSet(t)
    <3>1. PICK j \in 1..Len(s) : s[j] = x
      BY <2>1
    <3>2. CASE j < i
      <4>1. j \in 1..(Len(s) - 1) /\ t[j] = x
        BY <1>1, <1>2, <3>1, <3>2
      <4> QED BY <1>3, <4>1 DEF ToSet
    <3>3. CASE ~(j < i)
      <4>1. j-1 \in 1..(Len(s) - 1) /\ ~(j-1 < i) /\ (j-1)+1 = j
        BY <1>1, <2>3, <3>1, <3>3
      <4>2. t[j-1] = x
        BY <1>2, <3>1, <4>1
      <4> QED BY <1>3, <4>1, <4>2 DEF ToSet
    <3> QED BY <3>2, <3>3
  <2>4. ASSUME NEW j \in DOMAIN t PROVE t[j] \in W /\ t[j] /= s[i]
    <3>1. j \in 1..(Len(s) - 1)
      BY <1>3
    <3>2. CASE j < i
      <4>1. t[j] = s[j] /\ j \in 1..Len(s) /\ j /= i
        BY <1>1, <1>2, <3>1, <3>2
      <4> QED BY <1>1, <1>4, <2>2, <4>1
    <3>3. CASE ~(j < i)
      <4>1. t[j] = s[j+1] /\ j+1 \in 1..Len(s) /\ j+1 /= i
        BY <1>1, <1>2, <3>1, <3>3
      <4> QED BY <1>1, <1>4, <2>2, <4>1
    <3> QED BY <3>2, <3>3
  <2> QED BY <2>3, <2>4 DEF ToSet
<1> QED BY <1>2, <1>5, <1>6 DEF Lists, t

LEMMA ListsTail ==
  ASSUME NEW S, NEW W, NEW s, Lists(S, s, W), s /= <<>>
  PROVE  Head(s) \in W /\ Head(s) \in S /\ Lists(S, Tail(s), W \ {Head(s)})
<1>1. s \in Seq(S) /\ Len(s) \in Nat /\ DOMAIN s = 1..Len(s) /\ Len(s) > 0
  BY LenProperties, EmptySeq DEF Lists
<1>2. /\ Head(s) \in S
      /\ Tail(s) \in Seq(S)
      /\ Len(Tail(s)) = Len(s) - 1
      /\ \A i \in 1..Len(Tail(s)) : Tail(s)[i] = s[i+1]
      /\ Head(s) = s[1]
  BY <1>1, HeadTailProperties
<1>3. Lists(S, RemoveAt(s, 1), W \ {s[1]})
  BY <1>1, ListsRemove
<1>4. RemoveAt(s, 1) = Tail(s)
  <2>1. /\ RemoveAt(s, 1) \in Seq(S)
        /\ Len(RemoveAt(s, 1)) = Len(s) - 1
        /\ \A j \in 1..(Len(s) - 1) : RemoveAt(s, 1)[j] = IF j < 1 THEN s[j] ELSE s[j+1]
    <3>1. 1 \in 1..Len(s)
      BY <1>1
    <3> QED BY <1>1, <3>1, RemoveAtProperties, Zenon
  <2>2. \A j \in 1..(Len(s) - 1) : RemoveAt(s, 1)[j] = Tail(s)[j]
    BY <1>1, <1>2, <2>1
  <2> QED BY <1>1, <1>2, <2>1, <2>2, SeqEqual
<1>5. s[1] \in W
  BY <1>1 DEF Lists, ToSet
<1> QED BY <1>2, <1>3, <1>4, <1>5

(* What is left of a list when its first elements go.                      *)
FrontOf(s, k) == \A x : x \in ToSet(SubSeq(s, 1, k)) <=> \E i \in 1..k : s[i] = x

LEMMA ListsSplit ==
  ASSUME NEW S, NEW W, NEW s, Lists(S, s, W), NEW k \in 0..Len(s)
  PROVE  /\ FrontOf(s, k)
         /\ ToSet(SubSeq(s, 1, k)) \subseteq W
         /\ Lists(S, SubSeq(s, k+1, Len(s)), W \ ToSet(SubSeq(s, 1, k)))
<1> DEFINE a == SubSeq(s, 1, k)
           b == SubSeq(s, k+1, Len(s))
<1>1. s \in Seq(S) /\ Len(s) \in Nat /\ DOMAIN s = 1..Len(s) /\ k \in Int
  BY LenProperties DEF Lists
<1>2. a \in Seq(S) /\ Len(a) = k /\ DOMAIN a = 1..k /\ \A i \in 1..k : a[i] = s[i]
  <2>1. a \in Seq(S) /\ Len(a) = k /\ \A i \in 1..k : a[i] = s[1+i-1]
    BY <1>1, SubSeqProperties
  <2> QED BY <2>1, LenProperties, \A i \in 1..k : 1+i-1 = i
<1>3. /\ b \in Seq(S) /\ Len(b) = Len(s)-k /\ DOMAIN b = 1..(Len(s)-k)
      /\ \A i \in 1..(Len(s)-k) : b[i] = s[k+i]
  <2>1. b \in Seq(S) /\ Len(b) = IF k+1 <= Len(s) THEN Len(s)-(k+1)+1 ELSE 0
    BY <1>1, SubSeqProperties
  <2>2. \A i \in 1..(Len(s)-(k+1)+1) : b[i] = s[(k+1)+i-1]
    BY <1>1, SubSeqProperties
  <2>3. (Len(s)-(k+1)+1 = Len(s)-k) /\ \A i \in 1..(Len(s)-k) : (k+1)+i-1 = k+i
    BY <1>1
  <2> HIDE DEF b
  <2>4. Len(b) = Len(s)-k
    <3>1. CASE k+1 <= Len(s)
      BY <2>1, <2>3, <3>1
    <3>2. CASE ~(k+1 <= Len(s))
      <4>1. Len(b) = 0
        BY <2>1, <3>2
      <4>2. \A n \in Nat : \A j \in 0..n : ~(j+1 <= n) => n-j = 0
        OBVIOUS
      <4> QED BY <1>1, <3>2, <4>1, <4>2
    <3> QED BY <3>1, <3>2
  <2>5. DOMAIN b = 1..(Len(s)-k)
    BY <2>1, <2>4, LenProperties
  <2>6. \A i \in 1..(Len(s)-k) : b[i] = s[k+i]
    BY <2>2, <2>3
  <2> QED BY <2>1, <2>4, <2>5, <2>6
<1> HIDE DEF a, b
<1>4. \A x : x \in ToSet(a) <=> \E i \in 1..k : s[i] = x
  BY <1>2 DEF ToSet
<1>5. ToSet(a) \subseteq W
  BY <1>1, <1>4 DEF Lists, ToSet
<1>6. IsInjective(b)
  <2>1. \A i, j \in 1..(Len(s)-k) : k+i \in 1..Len(s) /\ (k+i = k+j => i = j)
    BY <1>1
  <2>2. \A x, y \in 1..Len(s) : s[x] = s[y] => x = y
    BY <1>1 DEF Lists, IsInjective
  <2>3. ASSUME NEW i \in 1..(Len(s)-k), NEW j \in 1..(Len(s)-k), b[i] = b[j] PROVE i = j
    <3>1. s[k+i] = s[k+j]
      BY <1>3, <2>3
    <3> QED BY <2>1, <2>2, <3>1
  <2> QED BY <1>3, <2>3 DEF IsInjective
<1>7. \A x : x \in ToSet(b) <=> \E i \in (k+1)..Len(s) : s[i] = x
  <2>1. \A i \in (k+1)..Len(s) : i-k \in 1..(Len(s)-k) /\ k+(i-k) = i
    BY <1>1
  <2>2. \A i \in 1..(Len(s)-k) : k+i \in (k+1)..Len(s)
    BY <1>1
  <2>3. ToSet(b) = {b[i] : i \in 1..(Len(s)-k)}
    BY <1>3 DEF ToSet
  <2>4. ASSUME NEW x, x \in ToSet(b) PROVE \E i \in (k+1)..Len(s) : s[i] = x
    BY <1>3, <2>2, <2>3, <2>4
  <2>5. ASSUME NEW i \in (k+1)..Len(s) PROVE s[i] \in ToSet(b)
    <3>1. b[i-k] = s[i]
      BY <1>3, <2>1
    <3> QED BY <2>1, <2>3, <3>1
  <2> QED BY <2>4, <2>5
<1>8. ToSet(b) = W \ ToSet(a)
  <2>1. \A x : x \in W <=> \E i \in 1..Len(s) : s[i] = x
    BY <1>1 DEF Lists, ToSet
  <2>2. \A i, j \in 1..Len(s) : s[i] = s[j] => i = j
    BY <1>1 DEF Lists, IsInjective
  <2>3. ASSUME NEW x PROVE x \in ToSet(b) <=> x \in W /\ x \notin ToSet(a)
    <3>1. ASSUME NEW i \in 1..k, NEW j \in (k+1)..Len(s), s[i] = s[j] PROVE FALSE
      <4>1. i \in 1..Len(s) /\ j \in 1..Len(s) /\ i /= j
        BY <1>1
      <4> QED BY <2>2, <3>1, <4>1
    <3>2. \A i \in 1..Len(s) : i \in 1..k \/ i \in (k+1)..Len(s)
      BY <1>1
    <3>3. \A i \in (k+1)..Len(s) : i \in 1..Len(s)
      BY <1>1
    <3> QED BY <1>4, <1>7, <2>1, <3>1, <3>2, <3>3
  <2> QED BY <2>3
<1>9. Lists(S, b, W \ ToSet(a))
  BY <1>3, <1>6, <1>8 DEF Lists
<1>10. FrontOf(s, k)
  BY <1>4 DEF FrontOf, a
<1> QED BY <1>5, <1>9, <1>10 DEF a, b
-----------------------------------------------------------------------------
(* Induction over the naturals, for a set of them: by the least one that   *)
(* is not in it.                                                           *)
LEMMA NatSetInduction ==
  ASSUME NEW T, 0 \in T, \A n \in Nat : n \in T => n+1 \in T
  PROVE  Nat \subseteq T
<1> SUFFICES ASSUME NEW m \in Nat, m \notin T PROVE FALSE
  OBVIOUS
<1> DEFINE S == 0..m
           I == {0..n : n \in {x \in 0..m : x \notin T}}
<1>1. IsWellFoundedOn(StrictSubsetOrdering(S), FiniteSubsetsOf(S))
  BY FS_StrictSubsetOrderingWellFounded
<1>2. I \subseteq FiniteSubsetsOf(S)
  <2>1. \A n \in 0..m : IsFiniteSet(0..n)
    BY FS_Interval
  <2> QED BY <2>1 DEF FiniteSubsetsOf
<1>3. 0..m \in I /\ I /= {}
  OBVIOUS
<1> HIDE DEF I
<1>4. PICK J \in I : \A K \in I : <<K, J>> \notin StrictSubsetOrdering(S)
  BY <1>1, <1>2, <1>3, WFMin
<1>5. PICK n \in 0..m : n \notin T /\ J = 0..n
  BY <1>4 DEF I
<1>6. n /= 0 /\ n-1 \in Nat
  BY <1>5
<1>7. n-1 \notin T
  BY <1>5, <1>6, n-1+1 = n
<1>8. (0..(n-1)) \in I
  BY <1>5, <1>6, <1>7 DEF I
<1>9. <<0..(n-1), 0..n>> \in StrictSubsetOrdering(S)
  <2>1. n \in 0..n /\ n \notin 0..(n-1) /\ (0..(n-1)) \subseteq (0..n) /\ (0..n) \subseteq S
    BY <1>5, <1>6
  <2> QED BY <2>1 DEF StrictSubsetOrdering
<1> QED BY <1>4, <1>5, <1>8, <1>9

(* A non-empty set of naturals with a bound has its maximum.               *)
LEMMA MaxOfBounded ==
  ASSUME NEW n \in Nat, NEW S \in SUBSET (0..n), S /= {}
  PROVE  Max(S) \in S /\ \A x \in S : x <= Max(S)
<1> DEFINE T == {m \in Nat : S \cap (0..m) /= {} => \E x \in S : \A y \in S \cap (0..m) : y <= x}
<1>1. 0 \in T
  OBVIOUS
<1>2. ASSUME NEW m \in Nat, m \in T PROVE m+1 \in T
  <2>1. S \cap (0..(m+1)) = (S \cap (0..m)) \cup (S \cap {m+1})
    OBVIOUS
  <2>2. CASE m+1 \in S
    BY <2>1, <2>2
  <2>3. CASE m+1 \notin S
    BY <1>2, <2>1, <2>3
  <2> QED BY <2>2, <2>3
<1> HIDE DEF T
<1>3. n \in T
  BY <1>1, <1>2, NatSetInduction
<1>4. S \cap (0..n) = S
  OBVIOUS
<1>5. \E x \in S : \A y \in S : x >= y
  BY <1>3, <1>4 DEF T
<1> QED BY <1>5 DEF Max
-----------------------------------------------------------------------------
(* A recursive function over a prefix of the naturals, here the sums of    *)
(* the first k weights, is defined and is the one its definition says.     *)
PrefixSum(n, w, f) == f = [k \in 0..n |-> IF k = 0 THEN 0 ELSE f[k-1] + w[k]]

LEMMA PrefixSumExists ==
  ASSUME NEW n \in Nat, NEW w
  PROVE  \E f : PrefixSum(n, w, f)
<1> DEFINE T == {m \in Nat : \E f : PrefixSum(m, w, f)}
<1>1. 0 \in T
  BY PrefixSum(0, w, [k \in 0..0 |-> 0]) DEF PrefixSum
<1>2. ASSUME NEW m \in Nat, m \in T PROVE m+1 \in T
  <2>1. PICK f : PrefixSum(m, w, f)
    BY <1>2
  <2> DEFINE g == [k \in 0..(m+1) |-> IF k = m+1 THEN f[m] + w[m+1] ELSE f[k]]
  <2>2. \A k \in 0..m : g[k] = IF k = 0 THEN 0 ELSE g[k-1] + w[k]
    BY <2>1 DEF PrefixSum
  <2>3. g[m+1] = g[m] + w[m+1] /\ m+1-1 = m /\ m+1 /= 0
    OBVIOUS
  <2>4. PrefixSum(m+1, w, g)
    <3>1. DOMAIN g = 0..(m+1) /\ g = [k \in 0..(m+1) |-> g[k]]
      OBVIOUS
    <3> HIDE DEF g
    <3>2. \A k \in 0..(m+1) : k \in 0..m \/ k = m+1
      OBVIOUS
    <3>3. \A k \in 0..(m+1) : g[k] = IF k = 0 THEN 0 ELSE g[k-1] + w[k]
      BY <2>2, <2>3, <3>2
    <3> QED BY <3>1, <3>3 DEF PrefixSum
  <2> QED BY <2>4
<1> HIDE DEF T
<1>3. n \in T
  BY <1>1, <1>2, NatSetInduction
<1> QED BY <1>3 DEF T

LEMMA PrefixSumIs ==
  ASSUME NEW n \in Nat, NEW w, \A i \in 1..n : w[i] \in Nat, NEW f, PrefixSum(n, w, f)
  PROVE  /\ f \in [0..n -> Nat]
         /\ f[0] = 0
         /\ \A k \in 1..n : f[k] = f[k-1] + w[k]
<1> DEFINE T == {m \in Nat : m <= n => f[m] \in Nat}
<1>1. f[0] = 0 /\ \A k \in 1..n : f[k] = f[k-1] + w[k]
  BY DEF PrefixSum
<1>2. 0 \in T
  BY <1>1
<1>3. ASSUME NEW m \in Nat, m \in T PROVE m+1 \in T
  <2>1. m+1 <= n => f[m+1] = f[m] + w[m+1] /\ w[m+1] \in Nat
    BY <1>1, m+1-1 = m
  <2> QED BY <1>3, <2>1
<1> HIDE DEF T
<1>4. Nat \subseteq T
  BY <1>2, <1>3, NatSetInduction
<1>5. \A k \in 0..n : f[k] \in Nat
  BY <1>4 DEF T
<1> QED BY <1>1, <1>5 DEF PrefixSum

LEMMA PrefixSumUnique ==
  ASSUME NEW n \in Nat, NEW w, NEW f, PrefixSum(n, w, f), NEW g, PrefixSum(n, w, g)
  PROVE  f = g
<1> DEFINE T == {m \in Nat : m <= n => f[m] = g[m]}
<1>1. /\ f[0] = 0 /\ \A k \in 1..n : f[k] = f[k-1] + w[k]
      /\ g[0] = 0 /\ \A k \in 1..n : g[k] = g[k-1] + w[k]
  BY DEF PrefixSum
<1>2. 0 \in T
  BY <1>1
<1>3. ASSUME NEW m \in Nat, m \in T PROVE m+1 \in T
  <2>1. m+1 <= n => f[m+1] = f[m] + w[m+1] /\ g[m+1] = g[m] + w[m+1]
    BY <1>1, m+1-1 = m
  <2> QED BY <1>3, <2>1
<1> HIDE DEF T
<1>4. Nat \subseteq T
  BY <1>2, <1>3, NatSetInduction
<1>5. \A k \in 0..n : f[k] = g[k]
  BY <1>4 DEF T
<1>6. /\ f = [k \in 0..n |-> f[k]]
      /\ g = [k \in 0..n |-> g[k]]
  BY DEF PrefixSum
<1> QED BY <1>5, <1>6
-----------------------------------------------------------------------------
(* What SumFunction(f) is, without its choice of an order: I[T] is the sum *)
(* of f over T.                                                            *)
SumRec(f, S, I) ==
  I = [T \in SUBSET S |-> IF T = {} THEN 0
                          ELSE f[CHOOSE x \in T : TRUE] + I[T \ {CHOOSE x \in T : TRUE}]]

LEMMA SumExists ==
  ASSUME NEW S, IsFiniteSet(S), NEW f
  PROVE  \E I : SumRec(f, S, I)
<1> DEFINE Step(I, T) == IF T = {} THEN 0
                         ELSE f[CHOOSE x \in T : TRUE] + I[T \ {CHOOSE x \in T : TRUE}]
           UpTo(n, I) == \A T \in SUBSET S : Cardinality(T) <= n => I[T] = Step(I, T)
           N == {n \in Nat : \E I : UpTo(n, I)}
<1>1. \A T \in SUBSET S : IsFiniteSet(T) /\ Cardinality(T) \in Nat /\ Cardinality(T) <= Cardinality(S)
  BY FS_Subset, FS_CardinalityType
<1>2. \A T \in SUBSET S : T /= {} =>
        LET y == CHOOSE x \in T : TRUE
        IN  y \in T /\ T \ {y} \in SUBSET S /\ Cardinality(T \ {y}) = Cardinality(T) - 1
  <2> SUFFICES ASSUME NEW T \in SUBSET S, T /= {}
               PROVE  LET y == CHOOSE x \in T : TRUE
                      IN  y \in T /\ T \ {y} \in SUBSET S /\ Cardinality(T \ {y}) = Cardinality(T) - 1
    OBVIOUS
  <2> DEFINE y == CHOOSE x \in T : TRUE
  <2>1. y \in T
    OBVIOUS
  <2> HIDE DEF y
  <2>2. Cardinality(T \ {y}) = Cardinality(T) - 1
    BY <1>1, <2>1, FS_RemoveElement
  <2> QED BY <2>1, <2>2 DEF y
<1>3. 0 \in N
  <2>1. UpTo(0, [T \in SUBSET S |-> 0])
    BY <1>1, FS_EmptySet
  <2> QED BY <2>1
<1>4. ASSUME NEW n \in Nat, n \in N PROVE n+1 \in N
  <2>1. PICK I : UpTo(n, I)
    BY <1>4
  <2> DEFINE J == [T \in SUBSET S |-> IF Cardinality(T) <= n THEN I[T] ELSE Step(I, T)]
  <2>2. ASSUME NEW T \in SUBSET S, Cardinality(T) <= n+1 PROVE J[T] = Step(J, T)
    <3>1. J[T] = Step(I, T)
      BY <2>1
    <3>2. CASE T = {}
      BY <3>1, <3>2
    <3>3. CASE T /= {}
      <4> DEFINE y == CHOOSE x \in T : TRUE
      <4>1. T \ {y} \in SUBSET S /\ Cardinality(T \ {y}) <= n
        BY <1>1, <1>2, <2>2, <3>3
      <4>2. J[T \ {y}] = I[T \ {y}]
        BY <4>1
      <4> QED BY <3>1, <3>3, <4>2
    <3> QED BY <3>2, <3>3
  <2> HIDE DEF J
  <2>3. UpTo(n+1, J)
    BY <2>2
  <2> HIDE DEF UpTo
  <2> QED BY <2>3
<1> HIDE DEF N, UpTo
<1>5. Cardinality(S) \in N
  BY <1>1, <1>3, <1>4, NatSetInduction
<1>6. PICK I : UpTo(Cardinality(S), I)
  BY <1>5 DEF N
<1> DEFINE J == [T \in SUBSET S |-> I[T]]
<1>7. \A T \in SUBSET S : J[T] = Step(J, T)
  <2> SUFFICES ASSUME NEW T \in SUBSET S PROVE J[T] = Step(J, T)
    OBVIOUS
  <2>1. I[T] = Step(I, T)
    BY <1>1, <1>6 DEF UpTo
  <2>2. T \ {CHOOSE x \in T : TRUE} \in SUBSET S
    OBVIOUS
  <2> QED BY <2>1, <2>2
<1>8. J = [T \in SUBSET S |-> J[T]]
  OBVIOUS
<1> HIDE DEF J
<1>9. J = [T \in SUBSET S |-> Step(J, T)]
  BY <1>7, <1>8
<1> QED BY <1>9 DEF SumRec

(* The order does not matter: any element can be counted first.            *)
LEMMA SumAnyOrder ==
  ASSUME NEW S, IsFiniteSet(S), NEW f \in [S -> Int], NEW I, SumRec(f, S, I)
  PROVE  \A T \in SUBSET S : I[T] \in Int /\ \A x \in T : I[T] = f[x] + I[T \ {x}]
<1> DEFINE Good(T) == I[T] \in Int /\ \A x \in T : I[T] = f[x] + I[T \ {x}]
           N == {n \in Nat : \A T \in SUBSET S : Cardinality(T) <= n => Good(T)}
<1>1. \A T \in SUBSET S : IsFiniteSet(T) /\ Cardinality(T) \in Nat
  BY FS_Subset, FS_CardinalityType
<1>2. I[{}] = 0 /\ \A T \in SUBSET S : T /= {} =>
        \E y \in T : I[T] = f[y] + I[T \ {y}]
  BY DEF SumRec
<1>3. 0 \in N
  <2>1. \A T \in SUBSET S : Cardinality(T) <= 0 => T = {}
    BY <1>1, FS_EmptySet
  <2>2. Good({})
    BY <1>2
  <2> HIDE DEF Good
  <2> QED BY <2>1, <2>2
<1>4. ASSUME NEW n \in Nat, n \in N PROVE n+1 \in N
  <2> SUFFICES ASSUME NEW T \in SUBSET S, Cardinality(T) <= n+1 PROVE Good(T)
    OBVIOUS
  <2>1. ASSUME NEW x \in T
        PROVE  T \ {x} \in SUBSET S /\ Cardinality(T \ {x}) <= n /\ f[x] \in Int
    <3>1. Cardinality(T \ {x}) = Cardinality(T) - 1
      BY <1>1, FS_RemoveElement
    <3> QED BY <1>1, <3>1
  <2>2. \A x \in T : Good(T \ {x})
    BY <1>4, <2>1
  <2>3. CASE T = {}
    BY <1>2, <2>3
  <2>4. CASE T /= {}
    <3>1. PICK y \in T : I[T] = f[y] + I[T \ {y}]
      BY <1>2, <2>4
    <3>2. I[T] \in Int
      BY <2>1, <2>2, <3>1
    <3>3. ASSUME NEW x \in T, x /= y PROVE I[T] = f[x] + I[T \ {x}]
      <4> DEFINE a == I[(T \ {x}) \ {y}]
      <4>1. (T \ {y}) \ {x} = (T \ {x}) \ {y}
        OBVIOUS
      <4>2. I[T \ {y}] = f[x] + a /\ I[T \ {x}] = f[y] + a
        BY <2>2, <3>3, <4>1
      <4>3. (T \ {x}) \ {y} \in SUBSET S /\ Cardinality((T \ {x}) \ {y}) <= n
        <5>1. Cardinality((T \ {x}) \ {y}) = Cardinality(T \ {x}) - 1
          BY <1>1, <2>1, <3>3, FS_RemoveElement
        <5> QED BY <1>1, <2>1, <5>1
      <4>4. a \in Int /\ f[x] \in Int /\ f[y] \in Int
        BY <1>4, <2>1, <4>3
      <4> HIDE DEF a
      <4> QED BY <3>1, <4>2, <4>4
    <3> QED BY <3>1, <3>2, <3>3
  <2> QED BY <2>3, <2>4
<1> HIDE DEF N
<1>5. Nat \subseteq N
  BY <1>3, <1>4, NatSetInduction
<1> QED BY <1>1, <1>5 DEF N

(* The sum over a set depends on the values at its elements only.          *)
LEMMA SumsAgree ==
  ASSUME NEW S, IsFiniteSet(S), NEW f \in [S -> Int], NEW g \in [S -> Int],
         NEW I, SumRec(f, S, I), NEW J, SumRec(g, S, J),
         NEW D \in SUBSET S, \A x \in D : f[x] = g[x]
  PROVE  I[D] = J[D]
<1> DEFINE N == {n \in Nat : \A T \in SUBSET D : Cardinality(T) <= n => I[T] = J[T]}
<1>1. \A T \in SUBSET D : IsFiniteSet(T) /\ Cardinality(T) \in Nat
  BY FS_Subset, FS_CardinalityType
<1>2. 0 \in N
  <2>1. \A T \in SUBSET D : Cardinality(T) <= 0 => T = {}
    BY <1>1, FS_EmptySet
  <2>2. I[{}] = 0 /\ J[{}] = 0
    BY DEF SumRec
  <2> QED BY <2>1, <2>2
<1>3. ASSUME NEW n \in Nat, n \in N PROVE n+1 \in N
  <2> SUFFICES ASSUME NEW T \in SUBSET D, Cardinality(T) <= n+1 PROVE I[T] = J[T]
    OBVIOUS
  <2>1. CASE T = {}
    BY <1>2, <1>1, <2>1, FS_EmptySet
  <2>2. CASE T /= {}
    <3>1. PICK x : x \in T
      BY <2>2
    <3>2. Cardinality(T \ {x}) = Cardinality(T) - 1
      BY <1>1, <3>1, FS_RemoveElement
    <3>3. I[T \ {x}] = J[T \ {x}]
      BY <1>1, <1>3, <3>2
    <3>4. I[T] = f[x] + I[T \ {x}] /\ J[T] = g[x] + J[T \ {x}]
      <4>1. T \in SUBSET S
        OBVIOUS
      <4>2. I[T] = f[x] + I[T \ {x}]
        BY <3>1, <4>1, SumAnyOrder
      <4>3. J[T] = g[x] + J[T \ {x}]
        BY <3>1, <4>1, SumAnyOrder
      <4> QED BY <4>2, <4>3
    <3>5. f[x] = g[x]
      BY <3>1
    <3> QED BY <3>3, <3>4, <3>5
  <2> QED BY <2>1, <2>2
<1> HIDE DEF N
<1>4. Nat \subseteq N
  BY <1>2, <1>3, NatSetInduction
<1>5. Cardinality(D) \in N
  BY <1>1, <1>4
<1> QED BY <1>1, <1>5 DEF N

LEMMA SumIs ==
  ASSUME NEW S, IsFiniteSet(S), NEW f \in [S -> Int]
  PROVE  \E I : SumRec(f, S, I) /\ SumFunction(f) = I[S]
<1> DEFINE J == CHOOSE I : SumRec(f, S, I)
<1>1. SumFunction(f) = J[S]
  BY DOMAIN f = S DEF SumFunction, SumFunctionOnSet, FoldFunctionOnSet, MapThenFoldSet, SumRec
<1>2. \E I : SumRec(f, S, I)
  BY SumExists
<1>3. SumRec(f, S, J)
  BY <1>2, Zenon
<1> QED BY <1>1, <1>3

(* Changing one summand changes the sum by as much.                        *)
Summands(S, f) == IsFiniteSet(S) /\ f \in [S -> Int]
DifferAt(S, f, g, c) == c \in S /\ \A x \in S : x /= c => g[x] = f[x]

LEMMA SumUpdate ==
  ASSUME NEW S, NEW f, NEW g, NEW c,
         Summands(S, f), Summands(S, g), DifferAt(S, f, g, c)
  PROVE  /\ SumFunction(f) \in Int /\ f[c] \in Int /\ g[c] \in Int
         /\ SumFunction(g) = SumFunction(f) - f[c] + g[c]
<1> USE DEF Summands, DifferAt
<1>1. PICK I : SumRec(f, S, I) /\ SumFunction(f) = I[S]
  BY SumIs
<1>2. PICK J : SumRec(g, S, J) /\ SumFunction(g) = J[S]
  BY SumIs
<1>3. I[S \ {c}] = J[S \ {c}]
  BY <1>1, <1>2, SumsAgree
<1>4. I[S] = f[c] + I[S \ {c}] /\ I[S] \in Int /\ I[S \ {c}] \in Int
  BY <1>1, SumAnyOrder
<1>5. J[S] = g[c] + J[S \ {c}]
  BY <1>2, SumAnyOrder
<1>6. f[c] \in Int /\ g[c] \in Int
  OBVIOUS
<1> QED BY <1>1, <1>2, <1>3, <1>4, <1>5, <1>6

LEMMA SumType ==
  ASSUME NEW S, IsFiniteSet(S), NEW f \in [S -> Int]
  PROVE  SumFunction(f) \in Int
<1>1. PICK I : SumRec(f, S, I) /\ SumFunction(f) = I[S]
  BY SumIs
<1> QED BY <1>1, SumAnyOrder

LEMMA SumOfZeros ==
  ASSUME NEW S, IsFiniteSet(S), NEW f \in [S -> Int], \A x \in S : f[x] = 0
  PROVE  SumFunction(f) = 0
<1>1. PICK I : SumRec(f, S, I) /\ SumFunction(f) = I[S]
  BY SumIs
<1> DEFINE g == [x \in S |-> 0]
           J == [T \in SUBSET S |-> 0]
<1>2. SumRec(g, S, J)
  BY DEF SumRec
<1>3. g \in [S -> Int] /\ (\A x \in S : f[x] = g[x]) /\ J[S] = 0
  OBVIOUS
<1> HIDE DEF g, J
<1>4. I[S] = J[S]
  BY <1>1, <1>2, <1>3, SumsAgree
<1> QED BY <1>1, <1>3, <1>4

(* Adding its weight to each of the first k elements of a list adds the    *)
(* k-th prefix sum of the weights.                                         *)
FirstAdded(S, f, W, s, k) ==
  [x \in S |-> f[x] + IF \E i \in 1..k : s[i] = x THEN W[x] ELSE 0]

Weighs(S, W, n, s, D) == /\ W \in [S -> Nat]
                         /\ n \in Nat /\ s \in [1..n -> S]
                         /\ \A i, j \in 1..n : s[i] = s[j] => i = j
                         /\ D[0] = 0 /\ \A i \in 1..n : D[i] = D[i-1] + W[s[i]]
                         /\ \A i \in 0..n : D[i] \in Int

LEMMA SumOfPrefix ==
  ASSUME NEW S, NEW f, Summands(S, f), NEW W, NEW n, NEW s, NEW D, Weighs(S, W, n, s, D),
         NEW k \in 0..n
  PROVE  SumFunction(FirstAdded(S, f, W, s, k)) = SumFunction(f) + D[k]
<1> USE DEF Summands, Weighs
<1> DEFINE With(j) == FirstAdded(S, f, W, s, j)
           N == {j \in Nat : j <= n => SumFunction(With(j)) = SumFunction(f) + D[j]}
<1>1. SumFunction(f) \in Int
  BY SumType
<1>2. 0 \in N
  <2>1. With(0) = f
    BY DEF FirstAdded
  <2> HIDE DEF With
  <2> QED BY <1>1, <2>1
<1>3. ASSUME NEW j \in Nat, j \in N PROVE j+1 \in N
  <2> SUFFICES ASSUME j+1 <= n PROVE SumFunction(With(j+1)) = SumFunction(f) + D[j+1]
    OBVIOUS
  <2>1. j+1 \in 1..n /\ j \in 0..n /\ j+1-1 = j /\ \A i \in 1..j : i \in 1..n /\ i /= j+1
    OBVIOUS
  <2> DEFINE last == s[j+1]
  <2>2. last \in S
    BY <2>1
  <2>3. ~ \E i \in 1..j : s[i] = last
    BY <2>1
  <2>4. \A x : (\E i \in 1..(j+1) : s[i] = x) <=> x = last \/ \E i \in 1..j : s[i] = x
    <3>1. 1..(j+1) = (1..j) \cup {j+1}
      OBVIOUS
    <3> QED BY <3>1
  <2>5. D[j+1] = D[j] + W[last] /\ D[j] \in Int /\ f[last] \in Int /\ W[last] \in Int
    BY <2>1, <2>2
  <2>6. SumFunction(With(j)) = SumFunction(f) + D[j]
    BY <1>3, <2>1
  <2> HIDE DEF last
  <2>7. With(j) \in [S -> Int] /\ With(j+1) \in [S -> Int]
    BY DEF FirstAdded
  <2>8. \A x \in S : x /= last => With(j+1)[x] = With(j)[x]
    BY <2>4 DEF FirstAdded
  <2>9. With(j)[last] = f[last] /\ With(j+1)[last] = f[last] + W[last]
    <3>1. With(j)[last] = f[last] + 0
      BY <2>2, <2>3 DEF FirstAdded
    <3>2. With(j+1)[last] = f[last] + W[last]
      BY <2>2, <2>4 DEF FirstAdded
    <3> QED BY <2>5, <3>1, <3>2
  <2> HIDE DEF With, N
  <2>10. Summands(S, With(j)) /\ Summands(S, With(j+1)) /\ DifferAt(S, With(j), With(j+1), last)
    BY <2>2, <2>7, <2>8 DEF DifferAt
  <2> HIDE DEF Summands, Weighs
  <2>11. SumFunction(With(j+1)) = SumFunction(With(j)) - With(j)[last] + With(j+1)[last]
    BY <2>10, SumUpdate
  <2>12. ASSUME NEW p \in Int, NEW d \in Int, NEW v \in Int, NEW w \in Int,
                SumFunction(f) = p, D[j] = d, f[last] = v, W[last] = w
         PROVE  SumFunction(With(j+1)) = SumFunction(f) + D[j+1]
    <3>1. SumFunction(With(j)) = p + d
      BY <2>6, <2>12
    <3>2. With(j)[last] = v /\ With(j+1)[last] = v + w
      BY <2>9, <2>12
    <3>3. SumFunction(With(j+1)) = (p + d) - v + (v + w)
      BY <2>11, <3>1, <3>2
    <3>4. D[j+1] = d + w
      BY <2>5, <2>12
    <3> QED BY <2>12, <3>3, <3>4
  <2> QED BY <1>1, <2>5, <2>12
<1> HIDE DEF N
<1>4. Nat \subseteq N
  BY <1>2, <1>3, NatSetInduction
<1> QED BY <1>4 DEF N
-----------------------------------------------------------------------------
(* Any finite set with distinct keys can be listed in the order of them.   *)
Greatest(T, key, x) == x \in T /\ \A y \in T : key[y] <= key[x]

LEMMA GreatestExists ==
  ASSUME NEW S, IsFiniteSet(S), NEW key \in [S -> Int]
  PROVE  \A T \in SUBSET S : T /= {} => \E x : Greatest(T, key, x)
<1> DEFINE N == {n \in Nat : \A T \in SUBSET S :
                   Cardinality(T) <= n /\ T /= {} => \E x : Greatest(T, key, x)}
<1>1. \A T \in SUBSET S : IsFiniteSet(T) /\ Cardinality(T) \in Nat
  BY FS_Subset, FS_CardinalityType
<1>2. 0 \in N
  BY <1>1, FS_EmptySet
<1>3. ASSUME NEW n \in Nat, n \in N PROVE n+1 \in N
  <2> SUFFICES ASSUME NEW T \in SUBSET S, Cardinality(T) <= n+1, T /= {}
               PROVE  \E x : Greatest(T, key, x)
    OBVIOUS
  <2>1. PICK y : y \in T
    OBVIOUS
  <2>2. \A x \in T : key[x] \in Int
    OBVIOUS
  <2>3. CASE T \ {y} = {}
    BY <2>1, <2>2, <2>3, Greatest(T, key, y) DEF Greatest
  <2>4. CASE T \ {y} /= {}
    <3>1. Cardinality(T \ {y}) = Cardinality(T) - 1
      BY <1>1, <2>1, FS_RemoveElement
    <3>2. PICK x : Greatest(T \ {y}, key, x)
      BY <1>1, <1>3, <2>4, <3>1
    <3>3. CASE key[y] <= key[x]
      BY <2>2, <3>2, <3>3, Greatest(T, key, x) DEF Greatest
    <3>4. CASE key[x] < key[y]
      <4>1. \A z \in T : key[z] <= key[y]
        BY <2>1, <2>2, <3>2, <3>4 DEF Greatest
      <4> QED BY <2>1, <4>1 DEF Greatest
    <3> QED BY <2>1, <2>2, <3>2, <3>3, <3>4 DEF Greatest
  <2> QED BY <2>3, <2>4
<1> HIDE DEF N
<1>4. Nat \subseteq N
  BY <1>2, <1>3, NatSetInduction
<1> QED BY <1>1, <1>4 DEF N

SortedBy(T, n, key, s) ==
  /\ s \in [1..n -> T]
  /\ \A x \in T : \E i \in 1..n : s[i] = x
  /\ \A i, j \in 1..n : i < j => key[s[i]] < key[s[j]]

LEMMA SortedExists ==
  ASSUME NEW S, IsFiniteSet(S), NEW key \in [S -> Int],
         \A x, y \in S : key[x] = key[y] => x = y
  PROVE  \E s : SortedBy(S, Cardinality(S), key, s)
<1> DEFINE N == {n \in Nat : \A T \in SUBSET S :
                   Cardinality(T) = n => \E s : SortedBy(T, n, key, s)}
<1>1. \A T \in SUBSET S : IsFiniteSet(T) /\ Cardinality(T) \in Nat
  BY FS_Subset, FS_CardinalityType
<1>2. 0 \in N
  <2> SUFFICES ASSUME NEW T \in SUBSET S, Cardinality(T) = 0 PROVE \E s : SortedBy(T, 0, key, s)
    OBVIOUS
  <2>1. T = {}
    BY <1>1, FS_EmptySet
  <2>2. SortedBy(T, 0, key, [i \in 1..0 |-> 0])
    BY <2>1 DEF SortedBy
  <2> QED BY <2>2
<1>3. ASSUME NEW n \in Nat, n \in N PROVE n+1 \in N
  <2> SUFFICES ASSUME NEW T \in SUBSET S, Cardinality(T) = n+1
               PROVE  \E s : SortedBy(T, n+1, key, s)
    OBVIOUS
  <2>1. T /= {}
    BY FS_EmptySet
  <2>2. PICK x : Greatest(T, key, x)
    BY <2>1, GreatestExists
  <2>3. x \in T /\ Cardinality(T \ {x}) = n
    <3>1. Cardinality(T \ {x}) = Cardinality(T) - 1
      BY <1>1, <2>2, FS_RemoveElement DEF Greatest
    <3> QED BY <2>2, <3>1 DEF Greatest
  <2>4. PICK s : SortedBy(T \ {x}, n, key, s)
    BY <1>3, <2>3
  <2> DEFINE t == [i \in 1..(n+1) |-> IF i = n+1 THEN x ELSE s[i]]
  <2>5. t[n+1] = x /\ \A i \in 1..n : t[i] = s[i] /\ t[i] \in T \ {x} /\ i /= n+1 /\ i \in 1..(n+1)
    BY <2>4 DEF SortedBy
  <2>6. t \in [1..(n+1) -> T]
    BY <2>3, <2>4 DEF SortedBy
  <2> HIDE DEF t
  <2>7. ASSUME NEW y \in T PROVE \E i \in 1..(n+1) : t[i] = y
    <3>1. CASE y = x
      BY <2>5, <3>1
    <3>2. CASE y /= x
      BY <2>4, <2>5, <3>2 DEF SortedBy
    <3> QED BY <3>1, <3>2
  <2>8. ASSUME NEW i \in 1..(n+1), NEW j \in 1..(n+1), i < j
        PROVE  key[t[i]] < key[t[j]]
    <3>1. i \in 1..n
      BY <2>8
    <3>2. CASE j = n+1
      <4>1. t[i] \in T \ {x} /\ t[j] = x
        BY <2>5, <3>1, <3>2
      <4>2. key[t[i]] <= key[x] /\ key[t[i]] /= key[x] /\ key[t[i]] \in Int /\ key[x] \in Int
        BY <2>2, <2>3, <4>1 DEF Greatest
      <4> QED BY <4>1, <4>2
    <3>3. CASE j /= n+1
      <4>1. j \in 1..n
        BY <3>3
      <4> QED BY <2>4, <2>5, <2>8, <3>1, <4>1 DEF SortedBy
    <3> QED BY <3>2, <3>3
  <2>9. SortedBy(T, n+1, key, t)
    BY <2>6, <2>7, <2>8 DEF SortedBy
  <2> QED BY <2>9
<1> HIDE DEF N
<1>4. Nat \subseteq N
  BY <1>2, <1>3, NatSetInduction
<1>5. Cardinality(S) \in N
  BY <1>1, <1>4
<1> QED BY <1>5 DEF N
-----------------------------------------------------------------------------
(* A sequence is one over any set that has its elements.                   *)
LEMMA SeqOver ==
  ASSUME NEW S, NEW T, NEW s \in Seq(S), \A i \in 1..Len(s) : s[i] \in T
  PROVE  s \in Seq(T)
<1> DEFINE t == SubSeq(s, 1, Len(s))
<1>1. Len(s) \in Nat /\ \A i \in 1..Len(s) : s[i] \in S
  BY LenProperties, ElementOfSeq
<1>2. t \in Seq(T) /\ Len(t) = Len(s) /\ \A i \in 1..Len(s) : t[i] = s[1+i-1]
  BY <1>1, SubSeqProperties
<1>3. t \in Seq(S)
  BY <1>1, SubSeqProperties
<1>4. \A i \in 1..Len(s) : t[i] = s[i]
  BY <1>2, \A i \in 1..Len(s) : 1+i-1 = i
<1> HIDE DEF t
<1>5. t = s
  BY <1>2, <1>3, <1>4, SeqEqual
<1> QED BY <1>2, <1>5

(* A sum of ones is a cardinality.                                         *)
LEMMA SumOfOnes ==
  ASSUME NEW S, IsFiniteSet(S), NEW D \in SUBSET S, NEW f \in [S -> Int],
         \A x \in S : f[x] = IF x \in D THEN 1 ELSE 0
  PROVE  SumFunction(f) = Cardinality(D)
<1>1. PICK I : SumRec(f, S, I) /\ SumFunction(f) = I[S]
  BY SumIs
<1> DEFINE N == {n \in Nat : \A T \in SUBSET S : Cardinality(T) <= n => I[T] = Cardinality(T \cap D)}
<1>2. \A T \in SUBSET S : IsFiniteSet(T) /\ Cardinality(T) \in Nat
  BY FS_Subset, FS_CardinalityType
<1>3. 0 \in N
  <2>1. \A T \in SUBSET S : Cardinality(T) <= 0 => T = {}
    BY <1>2, FS_EmptySet
  <2>2. I[{}] = 0
    BY <1>1 DEF SumRec
  <2> QED BY <2>1, <2>2, FS_EmptySet
<1>4. ASSUME NEW n \in Nat, n \in N PROVE n+1 \in N
  <2> SUFFICES ASSUME NEW T \in SUBSET S, Cardinality(T) <= n+1
               PROVE  I[T] = Cardinality(T \cap D)
    OBVIOUS
  <2> HIDE DEF N
  <2>1. CASE T = {}
    BY <1>2, <1>3, <2>1, FS_EmptySet DEF N
  <2>2. CASE T /= {}
    <3>1. PICK x : x \in T
      BY <2>2
    <3>2. Cardinality(T \ {x}) = Cardinality(T) - 1
      BY <1>2, <3>1, FS_RemoveElement
    <3>3. I[T \ {x}] = Cardinality((T \ {x}) \cap D)
      BY <1>2, <1>4, <3>2 DEF N
    <3>4. T \in SUBSET S
      OBVIOUS
    <3>5. I[T] = f[x] + I[T \ {x}]
      BY <1>1, <3>1, <3>4, SumAnyOrder
    <3>6. IsFiniteSet(T \cap D) /\ Cardinality(T \cap D) \in Nat
      BY <1>2
    <3>7. CASE x \in D
      <4>1. (T \ {x}) \cap D = (T \cap D) \ {x} /\ x \in T \cap D
        BY <3>1, <3>7
      <4>2. Cardinality((T \cap D) \ {x}) = Cardinality(T \cap D) - 1
        BY <3>6, <4>1, FS_RemoveElement
      <4>3. f[x] = 1
        BY <3>1, <3>7
      <4> QED BY <3>3, <3>5, <3>6, <4>1, <4>2, <4>3
    <3>8. CASE x \notin D
      <4>1. (T \ {x}) \cap D = T \cap D
        BY <3>8
      <4>2. f[x] = 0
        BY <3>1, <3>8
      <4> QED BY <3>3, <3>5, <3>6, <4>1, <4>2
    <3> QED BY <3>7, <3>8
  <2> QED BY <2>1, <2>2
<1> HIDE DEF N
<1>5. Cardinality(S) \in N
  <2>1. Nat \subseteq N
    BY <1>3, <1>4, NatSetInduction
  <2> QED BY <1>2, <2>1
<1>6. I[S] = Cardinality(S \cap D)
  BY <1>2, <1>5 DEF N
<1>7. S \cap D = D
  OBVIOUS
<1> QED BY <1>1, <1>6, <1>7

(* A sum of counts is no less than zero, and grows with its terms.         *)
LEMMA SumMonotone ==
  ASSUME NEW S, IsFiniteSet(S), NEW f \in [S -> Int], NEW g \in [S -> Int], \A x \in S : f[x] <= g[x]
  PROVE  SumFunction(f) <= SumFunction(g)
<1>1. PICK I : SumRec(f, S, I) /\ SumFunction(f) = I[S]
  BY SumIs
<1>2. PICK J : SumRec(g, S, J) /\ SumFunction(g) = J[S]
  BY SumIs
<1> DEFINE N == {n \in Nat : \A T \in SUBSET S : Cardinality(T) <= n => I[T] <= J[T]}
<1>3. \A T \in SUBSET S : IsFiniteSet(T) /\ Cardinality(T) \in Nat
  BY FS_Subset, FS_CardinalityType
<1>4. 0 \in N
  <2>1. \A T \in SUBSET S : Cardinality(T) <= 0 => T = {}
    BY <1>3, FS_EmptySet
  <2>2. I[{}] = 0 /\ J[{}] = 0
    BY <1>1, <1>2 DEF SumRec
  <2> QED BY <2>1, <2>2
<1>7. \A T \in SUBSET S : I[T] \in Int /\ \A x \in T : I[T] = f[x] + I[T \ {x}]
  BY <1>1, SumAnyOrder
<1>8. \A T \in SUBSET S : J[T] \in Int /\ \A x \in T : J[T] = g[x] + J[T \ {x}]
  BY <1>2, SumAnyOrder
<1>5. ASSUME NEW n \in Nat, n \in N PROVE n+1 \in N
  <2> SUFFICES ASSUME NEW T \in SUBSET S, Cardinality(T) <= n+1 PROVE I[T] <= J[T]
    OBVIOUS
  <2> HIDE DEF N
  <2>1. CASE T = {}
    BY <1>4, <2>1, FS_EmptySet DEF N
  <2>2. CASE T /= {}
    <3>1. PICK x : x \in T
      BY <2>2
    <3>2. T \ {x} \in SUBSET S /\ Cardinality(T \ {x}) <= n
      BY <1>3, <3>1, FS_RemoveElement
    <3>3. I[T \ {x}] <= J[T \ {x}] /\ I[T \ {x}] \in Int /\ J[T \ {x}] \in Int
      BY <1>5, <1>7, <1>8, <3>2 DEF N
    <3>4. I[T] = f[x] + I[T \ {x}] /\ J[T] = g[x] + J[T \ {x}]
      BY <1>7, <1>8, <3>1
    <3>5. f[x] <= g[x] /\ f[x] \in Int /\ g[x] \in Int
      BY <3>1
    <3> QED BY <3>3, <3>4, <3>5
  <2> QED BY <2>1, <2>2
<1> HIDE DEF N
<1>6. Cardinality(S) \in N
  BY <1>3, <1>4, <1>5, NatSetInduction
<1> QED BY <1>1, <1>2, <1>3, <1>6 DEF N

(* The sum over a part of a set.                                           *)
LEMMA SumOverPart ==
  ASSUME NEW S, IsFiniteSet(S), NEW f \in [S -> Int], NEW D \in SUBSET S,
         NEW g \in [S -> Int], \A x \in S : g[x] = IF x \in D THEN f[x] ELSE 0
  PROVE  SumFunctionOnSet(f, D) = SumFunction(g)
<1> DEFINE h == [x \in D |-> f[x]]
           J == CHOOSE I : SumRec(f, D, I)
<1>1. SumFunctionOnSet(f, D) = J[D]
  BY DEF SumFunctionOnSet, FoldFunctionOnSet, MapThenFoldSet, SumRec
<1>2. IsFiniteSet(D)
  BY FS_Subset
<1>3. SumRec(f, D, J)
  <2>1. \E I : SumRec(f, D, I)
    BY <1>2, SumExists
  <2> QED BY <2>1, Zenon
<1> HIDE DEF J
<1>4. h \in [D -> Int] /\ \A x \in D : h[x] = f[x]
  OBVIOUS
<1> HIDE DEF h
<1>5. SumRec(h, D, J)
  <2>1. ASSUME NEW T \in SUBSET D
        PROVE  J[T] = IF T = {} THEN 0 ELSE h[CHOOSE x \in T : TRUE] + J[T \ {CHOOSE x \in T : TRUE}]
    <3>1. T /= {} => h[CHOOSE x \in T : TRUE] = f[CHOOSE x \in T : TRUE]
      BY <1>4
    <3>2. J[T] = IF T = {} THEN 0 ELSE f[CHOOSE x \in T : TRUE] + J[T \ {CHOOSE x \in T : TRUE}]
      BY <1>3 DEF SumRec
    <3> QED BY <3>1, <3>2
  <2>2. J = [T \in SUBSET D |-> J[T]]
    BY <1>3 DEF SumRec
  <2> QED BY <2>1, <2>2 DEF SumRec
<1>6. \A T \in SUBSET D : J[T] \in Int /\ \A x \in T : J[T] = f[x] + J[T \ {x}]
  <2>1. \A T \in SUBSET D : J[T] \in Int /\ \A x \in T : J[T] = h[x] + J[T \ {x}]
    BY <1>2, <1>4, <1>5, SumAnyOrder
  <2> QED BY <1>4, <2>1
<1>7. PICK K : SumRec(g, S, K) /\ SumFunction(g) = K[S]
  BY SumIs
<1>8. \A T \in SUBSET S : K[T] \in Int /\ \A x \in T : K[T] = g[x] + K[T \ {x}]
  BY <1>7, SumAnyOrder
<1> DEFINE P(T) == K[T] = J[T \cap D]
           N == {n \in Nat : \A T \in SUBSET S : Cardinality(T) <= n => P(T)}
<1>9. \A T \in SUBSET S : IsFiniteSet(T) /\ Cardinality(T) \in Nat
  BY FS_Subset, FS_CardinalityType
<1>10. 0 \in N
  <2>1. \A T \in SUBSET S : Cardinality(T) <= 0 => T = {}
    BY <1>9, FS_EmptySet
  <2>2. K[{}] = 0 /\ J[{}] = 0
    BY <1>3, <1>7 DEF SumRec
  <2>3. {} \cap D = {}
    OBVIOUS
  <2>4. \A T \in SUBSET S : Cardinality(T) <= 0 => K[T] = J[T \cap D]
    <3> SUFFICES ASSUME NEW T \in SUBSET S, Cardinality(T) <= 0 PROVE K[T] = J[T \cap D]
      OBVIOUS
    <3>1. T = {}
      BY <2>1
    <3> QED BY <2>2, <2>3, <3>1
  <2> QED BY <2>4
<1> HIDE DEF P
<1>11. ASSUME NEW n \in Nat, n \in N PROVE n+1 \in N
  <2> SUFFICES ASSUME NEW T \in SUBSET S, Cardinality(T) <= n+1 PROVE P(T)
    OBVIOUS
  <2> HIDE DEF N
  <2>1. CASE T = {}
    BY <1>10, <2>1, FS_EmptySet DEF N
  <2>2. CASE T /= {}
    <3>1. PICK x : x \in T
      BY <2>2
    <3>2. T \ {x} \in SUBSET S /\ Cardinality(T \ {x}) <= n
      BY <1>9, <3>1, FS_RemoveElement
    <3>3. K[T \ {x}] = J[(T \ {x}) \cap D]
      BY <1>11, <3>2 DEF N, P
    <3>4. K[T] = g[x] + K[T \ {x}]
      BY <1>8, <3>1
    <3>5. CASE x \in D
      <4>1. T \cap D \in SUBSET D /\ x \in T \cap D /\ (T \cap D) \ {x} = (T \ {x}) \cap D
        BY <3>1, <3>5
      <4>2. J[T \cap D] = f[x] + J[(T \cap D) \ {x}]
        BY <1>6, <4>1
      <4> QED BY <3>1, <3>3, <3>4, <3>5, <4>1, <4>2 DEF P
    <3>6. CASE x \notin D
      <4>1. (T \ {x}) \cap D = T \cap D /\ T \cap D \in SUBSET D /\ g[x] = 0
        BY <3>1, <3>6
      <4>2. J[T \cap D] \in Int
        BY <1>6, <4>1
      <4> QED BY <3>3, <3>4, <4>1, <4>2 DEF P
    <3> QED BY <3>5, <3>6
  <2> QED BY <2>1, <2>2
<1> HIDE DEF N
<1>12. Cardinality(S) \in N
  BY <1>9, <1>10, <1>11, NatSetInduction
<1>13. S \cap D = D
  OBVIOUS
<1> QED BY <1>1, <1>7, <1>9, <1>12, <1>13 DEF N, P
-----------------------------------------------------------------------------
(* The least of a finite set of numbers.                                   *)
LEMMA MinIs ==
  ASSUME NEW S, IsFiniteSet(S), S \subseteq Int, S /= {}
  PROVE  Min(S) \in S /\ \A x \in S : Min(S) <= x
<1> DEFINE key == [x \in S |-> -x]
<1>1. key \in [S -> Int]
  OBVIOUS
<1> HIDE DEF key
<1>2. PICK x : Greatest(S, key, x)
  BY <1>1, GreatestExists
<1>3. x \in S /\ \A y \in S : x <= y
  <2>1. x \in S /\ \A y \in S : key[y] <= key[x]
    BY <1>2 DEF Greatest
  <2>2. \A y \in S : key[y] = -y
    BY DEF key
  <2>3. \A y \in S : y \in Int
    OBVIOUS
  <2> QED BY <2>1, <2>2, <2>3
<1> QED BY <1>3 DEF Min

(* FlattenSeq is a recursion over a prefix of the naturals.                *)
(* What the fold computes, part after part.                                *)
Flattened(s, n, f) == f = [i \in 1..n |-> IF i = 1 THEN s[i] ELSE f[i-1] \o s[i]]

LEMMA FlattenedExists ==
  ASSUME NEW n \in Nat, NEW s
  PROVE  \E f : Flattened(s, n, f)
<1> DEFINE T == {m \in Nat : \E f : Flattened(s, m, f)}
<1>1. 0 \in T
  BY Flattened(s, 0, [k \in 1..0 |-> 0]) DEF Flattened
<1>2. ASSUME NEW m \in Nat, m \in T PROVE m+1 \in T
  <2>1. PICK f : Flattened(s, m, f)
    BY <1>2
  <2> DEFINE last == IF m+1 = 1 THEN s[m+1] ELSE f[m] \o s[m+1]
             g == [k \in 1..(m+1) |-> IF k = m+1 THEN last ELSE f[k]]
  <2>2. \A k \in 1..m : g[k] = f[k]
    OBVIOUS
  <2>3. g[m+1] = last /\ m+1-1 = m
    OBVIOUS
  <2>4. \A k \in 1..m : f[k] = IF k = 1 THEN s[k] ELSE f[k-1] \o s[k]
    BY <2>1 DEF Flattened
  <2>5. DOMAIN g = 1..(m+1) /\ g = [k \in 1..(m+1) |-> g[k]]
    OBVIOUS
  <2> HIDE DEF g
  <2>6. ASSUME NEW k \in 1..(m+1) PROVE g[k] = IF k = 1 THEN s[k] ELSE g[k-1] \o s[k]
    <3>1. CASE k \in 1..m
      <4>1. k /= 1 => k-1 \in 1..m
        BY <3>1
      <4> QED BY <2>2, <2>4, <3>1, <4>1
    <3>2. CASE k = m+1
      <4>1. k /= 1 => m \in 1..m
        BY <3>2
      <4> QED BY <2>2, <2>3, <3>2, <4>1
    <3> QED BY <3>1, <3>2
  <2>7. Flattened(s, m+1, g)
    BY <2>5, <2>6 DEF Flattened
  <2> QED BY <2>7
<1> HIDE DEF T
<1>3. n \in T
  BY <1>1, <1>2, NatSetInduction
<1> QED BY <1>3 DEF T

(* A flattened sequence has the elements of its parts, and no others.      *)
Flattens(X, t, s, m) ==
  /\ t \in Seq(X)
  /\ \A k \in 1..Len(t) : \E i \in 1..m : \E j \in 1..Len(s[i]) : t[k] = s[i][j]
  /\ \A i \in 1..m : \A j \in 1..Len(s[i]) : \E k \in 1..Len(t) : t[k] = s[i][j]

LEMMA FlattensMore ==
  ASSUME NEW X, NEW m \in Nat, NEW s, NEW a, Flattens(X, a, s, m), s[m+1] \in Seq(X)
  PROVE  Flattens(X, a \o s[m+1], s, m+1)
<1> DEFINE b == s[m+1]
           t == a \o b
<1>1. a \in Seq(X) /\ b \in Seq(X) /\ Len(a) \in Nat /\ Len(b) \in Nat
  BY LenProperties DEF Flattens
<1>2. b = s[m+1]
  OBVIOUS
<1> HIDE DEF b
<1>3. t \in Seq(X) /\ Len(t) = Len(a) + Len(b)
  BY <1>1, ConcatProperties
<1>4. \A k \in 1..Len(a) : t[k] = a[k]
  BY <1>1, ConcatProperties
<1>5. \A k \in 1..Len(b) : t[Len(a) + k] = b[k]
  <2> SUFFICES ASSUME NEW k \in 1..Len(b) PROVE t[Len(a) + k] = b[k]
    OBVIOUS
  <2>1. Len(a) + k \in 1..(Len(a) + Len(b)) /\ ~(Len(a) + k <= Len(a)) /\ Len(a) + k - Len(a) = k
    BY <1>1
  <2> QED BY <1>1, <2>1, ConcatProperties
<1> HIDE DEF t
<1>6. ASSUME NEW k \in 1..Len(t) PROVE \E i \in 1..(m+1) : \E j \in 1..Len(s[i]) : t[k] = s[i][j]
  <2>1. CASE k \in 1..Len(a)
    <3>1. PICK i \in 1..m : \E j \in 1..Len(s[i]) : a[k] = s[i][j]
      BY <2>1 DEF Flattens
    <3>2. i \in 1..(m+1) /\ t[k] = a[k]
      BY <1>4, <2>1
    <3> QED BY <3>1, <3>2
  <2>2. CASE k \notin 1..Len(a)
    <3>1. k - Len(a) \in 1..Len(b) /\ Len(a) + (k - Len(a)) = k
      BY <1>1, <1>3, <2>2
    <3>2. t[k] = b[k - Len(a)]
      BY <1>5, <3>1
    <3>3. m+1 \in 1..(m+1)
      OBVIOUS
    <3> QED BY <1>2, <3>1, <3>2, <3>3
  <2> QED BY <2>1, <2>2
<1>7. ASSUME NEW i \in 1..(m+1), NEW j \in 1..Len(s[i]) PROVE \E k \in 1..Len(t) : t[k] = s[i][j]
  <2>1. CASE i \in 1..m
    <3>1. PICK k \in 1..Len(a) : a[k] = s[i][j]
      BY <2>1 DEF Flattens
    <3>2. k \in 1..Len(t) /\ t[k] = a[k]
      BY <1>1, <1>3, <1>4
    <3> QED BY <3>1, <3>2
  <2>2. CASE i = m+1
    <3>1. j \in 1..Len(b) /\ b[j] = s[i][j]
      BY <1>2, <2>2
    <3>2. Len(a) + j \in 1..Len(t)
      BY <1>1, <1>3, <3>1
    <3>3. t[Len(a) + j] = b[j]
      BY <1>5, <3>1
    <3> QED BY <3>1, <3>2, <3>3
  <2> QED BY <2>1, <2>2
<1>8. Flattens(X, t, s, m+1)
  BY <1>3, <1>6, <1>7 DEF Flattens
<1> QED BY <1>8 DEF t, b

LEMMA FlattensPrefix ==
  ASSUME NEW X, NEW n \in Nat, NEW s \in [1..n -> Seq(X)], NEW f, Flattened(s, n, f), NEW q \in 1..n
  PROVE  Flattens(X, f[q], s, q)
<1> DEFINE T == {m \in Nat : m+1 <= n => Flattens(X, f[m+1], s, m+1)}
<1>1. \A m \in 1..n : f[m] = IF m = 1 THEN s[m] ELSE f[m-1] \o s[m]
  BY DEF Flattened
<1>2. \A m \in 1..n : m /= 1 => f[m] = f[m-1] \o s[m]
  BY <1>1, Zenon
<1>3. Flattens(X, f[1], s, 1)
  <2>1. f[1] = s[1] /\ 1 \in 1..n /\ s[1] \in Seq(X)
    BY <1>1
  <2> QED BY <2>1 DEF Flattens
<1>4. ASSUME NEW m \in Nat, m \in T PROVE m+1 \in T
  <2> SUFFICES ASSUME m+1+1 <= n PROVE Flattens(X, f[m+1+1], s, m+1+1)
    OBVIOUS
  <2>1. PICK x \in 1..n : x = m+1+1
    OBVIOUS
  <2>2. x /= 1 /\ x-1 = m+1 /\ m+1 \in Nat /\ m+1 <= n
    BY <2>1
  <2>3. f[x] = f[x-1] \o s[x] /\ s[x] \in Seq(X)
    BY <1>2, <2>2
  <2>4. Flattens(X, f[m+1], s, m+1)
    BY <1>4, <2>2
  <2> HIDE DEF T
  <2>5. Flattens(X, f[m+1] \o s[m+1+1], s, m+1+1)
    BY <2>1, <2>2, <2>3, <2>4, FlattensMore
  <2> QED BY <2>1, <2>2, <2>3, <2>5
<1>5. 0 \in T
  BY <1>3
<1> HIDE DEF T
<1>6. Nat \subseteq T
  BY <1>4, <1>5, NatSetInduction
<1>7. q-1 \in Nat /\ q-1+1 = q
  OBVIOUS
<1>8. q-1+1 <= n => Flattens(X, f[q-1+1], s, q-1+1)
  BY <1>6, <1>7 DEF T
<1> QED BY ONLY <1>7, <1>8, n \in Nat, q \in 1..n

LEMMA FlattenSeqIs ==
  ASSUME NEW X, NEW n \in Nat, NEW s \in [1..n -> Seq(X)]
  PROVE  Flattens(X, FlattenSeq(s), s, n)
<1>1. Len(s) = n /\ s \in Seq(Seq(X))
  BY LenProperties
<1>2. CASE n = 0
  <2>1. FlattenSeq(s) = s /\ s = << >>
    BY <1>1, <1>2 DEF FlattenSeq
  <2>2. Len(<< >>) = 0 /\ << >> \in Seq(X)
    BY EmptySeq
  <2> QED BY <1>2, <2>1, <2>2 DEF Flattens
<1>3. CASE n > 0
  <2> DEFINE f == CHOOSE g : Flattened(s, n, g)
  <2>1. FlattenSeq(s) = f[n]
    BY <1>1, <1>3 DEF FlattenSeq, Flattened
  <2>2. Flattened(s, n, f)
    BY FlattenedExists
  <2> HIDE DEF f
  <2>3. n \in 1..n
    BY <1>3
  <2>4. Flattens(X, f[n], s, n)
    BY <2>2, <2>3, FlattensPrefix
  <2> QED BY <2>1, <2>4
<1> QED BY <1>2, <1>3

(* One part is found in one piece, and the others around it.               *)
Around(t, s, m, q, a, k) ==
  k \in (a+1)..(a+Len(s[q])) \/ \E i \in 1..m : i /= q /\ \E j \in 1..Len(s[i]) : t[k] = s[i][j]
Piece(t, s, m, q, a) ==
  /\ a + Len(s[q]) <= Len(t)
  /\ \A j \in 1..Len(s[q]) : t[a+j] = s[q][j]
  /\ \A k \in 1..Len(t) : Around(t, s, m, q, a, k)

(* At the end of what was flattened before.                                *)
LEMMA PieceLast ==
  ASSUME NEW X, NEW m \in Nat, NEW s, NEW t, Flattens(X, t, s, m), s[m+1] \in Seq(X)
  PROVE  Piece(t \o s[m+1], s, m+1, m+1, Len(t))
<1> DEFINE b == s[m+1]
           u == t \o b
<1>1. t \in Seq(X) /\ b \in Seq(X) /\ Len(t) \in Nat /\ Len(b) \in Nat
  BY LenProperties DEF Flattens
<1>2. b = s[m+1]
  OBVIOUS
<1> HIDE DEF b
<1>3. Len(u) = Len(t) + Len(b)
  BY <1>1, ConcatProperties
<1>4. \A k \in 1..Len(t) : u[k] = t[k]
  BY <1>1, ConcatProperties
<1>5. \A k \in 1..Len(b) : u[Len(t) + k] = b[k]
  <2> SUFFICES ASSUME NEW k \in 1..Len(b) PROVE u[Len(t) + k] = b[k]
    OBVIOUS
  <2>1. Len(t) + k \in 1..(Len(t) + Len(b)) /\ ~(Len(t) + k <= Len(t)) /\ Len(t) + k - Len(t) = k
    BY <1>1
  <2> QED BY <1>1, <2>1, ConcatProperties
<1> HIDE DEF u
<1>6. ASSUME NEW k \in 1..Len(u) PROVE Around(u, s, m+1, m+1, Len(t), k)
  <2>1. CASE k \in 1..Len(t)
    <3>1. PICK i \in 1..m : \E j \in 1..Len(s[i]) : t[k] = s[i][j]
      BY <2>1 DEF Flattens
    <3>2. i \in 1..(m+1) /\ i /= m+1 /\ u[k] = t[k]
      BY <1>4, <2>1
    <3> QED BY <3>1, <3>2 DEF Around
  <2>2. CASE k \notin 1..Len(t)
    <3>1. k \in (Len(t)+1)..(Len(t)+Len(b))
      BY <1>1, <1>3, <2>2
    <3> QED BY <1>2, <3>1 DEF Around
  <2> QED BY <2>1, <2>2
<1>7. Piece(u, s, m+1, m+1, Len(t))
  <2>1. Len(t) + Len(s[m+1]) <= Len(u)
    BY <1>1, <1>2, <1>3
  <2>2. \A j \in 1..Len(s[m+1]) : u[Len(t)+j] = s[m+1][j]
    BY <1>2, <1>5
  <2> QED BY <1>6, <2>1, <2>2 DEF Piece
<1> QED BY <1>7 DEF u, b

(* And further parts behind it.                                            *)
LEMMA PieceMore ==
  ASSUME NEW X, NEW m \in Nat, NEW q \in 1..m, NEW s, NEW t, NEW a \in Nat, t \in Seq(X),
         s[q] \in Seq(X), s[m+1] \in Seq(X), Piece(t, s, m, q, a)
  PROVE  Piece(t \o s[m+1], s, m+1, q, a)
<1> DEFINE b == s[m+1]
           u == t \o b
<1>1. Len(t) \in Nat /\ b \in Seq(X) /\ Len(b) \in Nat /\ Len(s[q]) \in Nat
  BY LenProperties
<1>2. b = s[m+1]
  OBVIOUS
<1> HIDE DEF b
<1>3. Len(u) = Len(t) + Len(b)
  BY <1>1, ConcatProperties
<1>4. \A k \in 1..Len(t) : u[k] = t[k]
  BY <1>1, ConcatProperties
<1>5. \A k \in 1..Len(b) : u[Len(t) + k] = b[k]
  <2> SUFFICES ASSUME NEW k \in 1..Len(b) PROVE u[Len(t) + k] = b[k]
    OBVIOUS
  <2>1. Len(t) + k \in 1..(Len(t) + Len(b)) /\ ~(Len(t) + k <= Len(t)) /\ Len(t) + k - Len(t) = k
    BY <1>1
  <2> QED BY <1>1, <2>1, ConcatProperties
<1> HIDE DEF u
<1>6. ASSUME NEW k \in 1..Len(u) PROVE Around(u, s, m+1, q, a, k)
  <2>1. CASE k \in 1..Len(t)
    <3>1. Around(t, s, m, q, a, k) /\ u[k] = t[k]
      BY <1>4, <2>1 DEF Piece
    <3>2. 1..m \subseteq 1..(m+1)
      OBVIOUS
    <3> QED BY <3>1, <3>2 DEF Around
  <2>2. CASE k \notin 1..Len(t)
    <3>1. k - Len(t) \in 1..Len(b) /\ Len(t) + (k - Len(t)) = k
      BY <1>1, <1>3, <2>2
    <3>2. u[k] = b[k - Len(t)]
      BY <1>5, <3>1
    <3>3. m+1 \in 1..(m+1) /\ m+1 /= q
      OBVIOUS
    <3> QED BY <1>2, <3>1, <3>2, <3>3 DEF Around
  <2> QED BY <2>1, <2>2
<1>7. Piece(u, s, m+1, q, a)
  <2>1. a + Len(s[q]) <= Len(t)
    BY DEF Piece
  <2>2. a + Len(s[q]) <= Len(u)
    BY <1>1, <1>3, <2>1
  <2>3. ASSUME NEW j \in 1..Len(s[q]) PROVE u[a+j] = s[q][j]
    <3>1. a+j \in 1..Len(t)
      BY <1>1, <2>1
    <3>2. t[a+j] = s[q][j]
      BY DEF Piece
    <3> QED BY <1>4, <3>1, <3>2
  <2> QED BY <1>6, <2>2, <2>3 DEF Piece
<1> QED BY <1>7 DEF u, b

LEMMA FlattenPlaces ==
  ASSUME NEW X, NEW n \in Nat, NEW s \in [1..n -> Seq(X)], NEW q \in 1..n
  PROVE  \E a \in Nat : Piece(FlattenSeq(s), s, n, q, a)
<1> DEFINE f == CHOOSE g : Flattened(s, n, g)
           T == {m \in Nat : q+m <= n => \E a \in Nat : Piece(f[q+m], s, q+m, q, a)}
<1>1. FlattenSeq(s) = f[n]
  <2>1. Len(s) = n /\ s \in Seq(Seq(X))
    BY LenProperties
  <2> QED BY <2>1 DEF FlattenSeq, Flattened
<1>2. Flattened(s, n, f)
  BY FlattenedExists
<1> HIDE DEF f
<1>3. \A m \in 1..n : f[m] = IF m = 1 THEN s[m] ELSE f[m-1] \o s[m]
  BY <1>2 DEF Flattened
<1>4. \A m \in 1..n : m /= 1 => f[m] = f[m-1] \o s[m]
  BY <1>3, Zenon
<1>5. 0 \in T
  <2>1. CASE q = 1
    <3>1. f[1] = s[1] /\ s[1] \in Seq(X) /\ Len(s[1]) \in Nat
      BY <1>3, <2>1, LenProperties
    <3>2. Piece(f[1], s, 1, 1, 0)
      <4>1. \A k \in 1..Len(f[1]) : k \in (0+1)..(0+Len(s[1]))
        BY <3>1
      <4> QED BY <3>1, <4>1 DEF Piece, Around
    <3>3. q+0 = 1 /\ 0 \in Nat
      BY <2>1
    <3> QED BY <2>1, <3>2, <3>3
  <2>2. CASE q /= 1
    <3>1. PICK m \in 1..n : q = m+1
      <4>1. q-1 \in 1..n /\ q = q-1+1
        BY <2>2
      <4> QED BY <4>1
    <3>2. Flattens(X, f[m], s, m)
      BY <1>2, FlattensPrefix
    <3>3. q-1 = m /\ q+0 = q /\ m \in Nat
      BY <3>1
    <3>4. f[q] = f[m] \o s[q] /\ s[q] \in Seq(X)
      BY <1>4, <2>2, <3>3
    <3> HIDE DEF T
    <3>5. Piece(f[m] \o s[m+1], s, m+1, m+1, Len(f[m]))
      BY <3>1, <3>2, <3>3, <3>4, PieceLast
    <3>6. Piece(f[q], s, q, q, Len(f[m])) /\ Len(f[m]) \in Nat
      BY <3>1, <3>2, <3>4, <3>5, LenProperties DEF Flattens
    <3> QED BY <3>3, <3>6 DEF T
  <2> QED BY <2>1, <2>2
<1>6. ASSUME NEW m \in Nat, m \in T PROVE m+1 \in T
  <2> SUFFICES ASSUME q+(m+1) <= n PROVE \E a \in Nat : Piece(f[q+(m+1)], s, q+(m+1), q, a)
    OBVIOUS
  <2>1. PICK x \in 1..n : x = q+m
    OBVIOUS
  <2>2. PICK y \in 1..n : y = x+1
    BY <2>1
  <2>3. q+(m+1) = y /\ y-1 = x /\ y /= 1 /\ q \in 1..x /\ x \in Nat
    BY <2>1, <2>2
  <2>4. PICK a \in Nat : Piece(f[x], s, x, q, a)
    BY <1>6, <2>1
  <2>5. f[y] = f[x] \o s[y] /\ s[y] \in Seq(X) /\ s[q] \in Seq(X)
    BY <1>4, <2>3
  <2>6. f[x] \in Seq(X)
    BY <1>2, FlattensPrefix DEF Flattens
  <2> HIDE DEF T
  <2>7. Piece(f[x] \o s[x+1], s, x+1, q, a)
    BY <2>2, <2>3, <2>4, <2>5, <2>6, PieceMore
  <2>8. Piece(f[y], s, y, q, a)
    BY <2>2, <2>5, <2>7
  <2> QED BY <2>3, <2>8
<1> HIDE DEF T
<1>7. Nat \subseteq T
  BY <1>5, <1>6, NatSetInduction
<1>8. n-q \in Nat /\ q+(n-q) = n
  OBVIOUS
<1>9. q+(n-q) <= n => \E a \in Nat : Piece(f[q+(n-q)], s, q+(n-q), q, a)
  BY <1>7, <1>8 DEF T
<1>10. \E a \in Nat : Piece(f[n], s, n, q, a)
  BY ONLY <1>8, <1>9, n \in Nat
<1> QED BY <1>1, <1>10
=============================================================================
