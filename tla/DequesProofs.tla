---------------------------- MODULE DequesProofs ----------------------------
(***************************************************************************)
(* Lemmas about KeepAt and Filter.  The induction they need is one use of  *)
(* the least element of a non-empty set of naturals.                       *)
(***************************************************************************)
EXTENDS Deques, FiniteSetTheorems, TLAPS

(* A non-empty set of natural numbers has a least element. *)
LEMMA LeastNatural ==
  ASSUME NEW T \in SUBSET Nat, T # {}
  PROVE  \E m \in T : \A t \in T : m <= t
<1>1. \E x \in T : \A y \in T : ~(<<y, x>> \in OpToRel(<, Nat))
  BY NatLessThanWellFounded, WFMin
<1>2. PICK m \in T : \A y \in T : ~(<<y, m>> \in OpToRel(<, Nat))
  BY <1>1
<1>3. \A y \in T : ~(y < m)
  BY <1>2 DEF OpToRel
<1> QED
  BY <1>3

(* Rank counts: it is 0 below every position, grows by one exactly at the  *)
(* positions kept, and ends at their number.                               *)
LEMMA RankStep ==
  ASSUME NEW n \in Nat, NEW keep \in SUBSET (1 .. n)
  PROVE  /\ IsFiniteSet(keep) /\ Cardinality(keep) \in Nat
         /\ \A i \in 0 .. n : Rank(keep, i) \in Nat
         /\ Rank(keep, 0) = 0
         /\ Rank(keep, n) = Cardinality(keep)
         /\ \A i \in 1 .. n : Rank(keep, i) =
              IF i \in keep THEN Rank(keep, i - 1) + 1 ELSE Rank(keep, i - 1)
<1>0. \A j \in keep : j \in Int /\ 1 <= j /\ j <= n
  OBVIOUS
<1>1. IsFiniteSet(keep) /\ Cardinality(keep) \in Nat
  <2>1. IsFiniteSet(1 .. n)
    BY FS_Interval
  <2>2. IsFiniteSet(keep)
    BY <2>1, FS_Subset
  <2> QED
    BY <2>2, FS_CardinalityType
<1>2. \A i : IsFiniteSet({j \in keep : j <= i}) /\ Rank(keep, i) \in Nat
  <2> TAKE i
  <2>1. {j \in keep : j <= i} \in SUBSET keep
    OBVIOUS
  <2>2. IsFiniteSet({j \in keep : j <= i})
    BY <1>1, <2>1, FS_Subset
  <2> QED
    BY <2>2, FS_CardinalityType DEF Rank
<1>3. Rank(keep, 0) = 0
  <2>0. \A j \in keep : ~(j <= 0)
    BY <1>0
  <2>1. {j \in keep : j <= 0} = {}
    BY <2>0
  <2> QED
    BY <2>1, FS_EmptySet DEF Rank
<1>4. Rank(keep, n) = Cardinality(keep)
  <2>1. {j \in keep : j <= n} = keep
    BY <1>0
  <2> QED
    BY <2>1 DEF Rank
<1>5. ASSUME NEW i \in 1 .. n
      PROVE  Rank(keep, i) =
               IF i \in keep THEN Rank(keep, i - 1) + 1 ELSE Rank(keep, i - 1)
  <2> DEFINE L == {j \in keep : j <= i - 1}
  <2>0. ~(i <= i - 1)
    OBVIOUS
  <2>1. i \notin L /\ IsFiniteSet(L)
    BY <1>2, <2>0
  <2>2. CASE i \in keep
    <3>0. \A j \in keep : j <= i <=> j <= i - 1 \/ j = i
      BY <1>0
    <3>1. {j \in keep : j <= i} = L \cup {i}
      BY <2>2, <3>0
    <3>2. Cardinality(L \cup {i}) = Cardinality(L) + 1
      BY <2>1, FS_AddElement
    <3> QED
      BY <2>2, <3>1, <3>2 DEF Rank
  <2>3. CASE i \notin keep
    <3>1. \A j \in keep : j <= i <=> j <= i - 1
      BY <1>0, <2>3
    <3>2. {j \in keep : j <= i} = L
      BY <3>1
    <3> QED
      BY <2>3, <3>2 DEF Rank
  <2> QED
    BY <2>2, <2>3
<1> QED
  BY <1>1, <1>2, <1>3, <1>4, <1>5

(* Rank increases strictly along the positions kept. *)
LEMMA RankIncreases ==
  ASSUME NEW n \in Nat, NEW keep \in SUBSET (1 .. n),
         NEW i \in keep, NEW j \in keep, i < j
  PROVE  Rank(keep, i) < Rank(keep, j)
<1> DEFINE I == {k \in keep : k <= i}
           J == {k \in keep : k <= j}
<1>0. \A k \in keep : k \in Int /\ k \in 0 .. n
  OBVIOUS
<1>a. j <= j /\ ~(j <= i) /\ \A k \in keep : k <= i => k <= j
  BY <1>0
<1>1. I \in SUBSET J /\ j \in J /\ j \notin I
  BY <1>a
<1>2. IsFiniteSet(J)
  <2>1. J \in SUBSET keep
    OBVIOUS
  <2> QED
    BY <2>1, RankStep, FS_Subset
<1>3. Cardinality(I) <= Cardinality(J) /\ Cardinality(I) # Cardinality(J)
  BY <1>1, <1>2, FS_Subset
<1>4. Rank(keep, i) \in Nat /\ Rank(keep, j) \in Nat
  BY <1>0, RankStep
<1> QED
  BY <1>3, <1>4 DEF Rank

(* There is a k-th position for every k up to the number of positions. *)
LEMMA NthExists ==
  ASSUME NEW n \in Nat, NEW keep \in SUBSET (1 .. n),
         NEW k \in 1 .. Cardinality(keep)
  PROVE  Nth(keep, k) \in keep /\ Rank(keep, Nth(keep, k)) = k
<1> DEFINE T == {i \in 0 .. n : Rank(keep, i) >= k}
<1>1. Cardinality(keep) \in Nat /\ n \in T
  BY RankStep
<1>2. PICK m \in T : \A t \in T : m <= t
  <2>1. T \in SUBSET Nat /\ T # {}
    BY <1>1
  <2> QED
    BY <2>1, LeastNatural
<1>3. m # 0
  BY <1>1, <1>2, RankStep
<1>4. m \in 1 .. n /\ m - 1 \in 0 .. n /\ m - 1 \notin T
  BY <1>2, <1>3
<1>5. m \in keep /\ Rank(keep, m) = k
  <2>1. Rank(keep, m - 1) < k /\ Rank(keep, m) >= k
    BY <1>1, <1>2, <1>4, RankStep
  <2> QED
    BY <1>1, <1>4, <2>1, RankStep
<1> QED
  BY <1>5 DEF Nth

(* A position that is kept is the Nth of its own rank. *)
LEMMA NthOfRank ==
  ASSUME NEW n \in Nat, NEW keep \in SUBSET (1 .. n), NEW i \in keep
  PROVE  /\ Rank(keep, i) \in 1 .. Cardinality(keep)
         /\ Nth(keep, Rank(keep, i)) = i
<1>0. \A k \in keep : k \in Int /\ k \in 1 .. n /\ k \in 0 .. n /\ k - 1 \in 0 .. n
  OBVIOUS
<1>1. Rank(keep, i) \in 1 .. Cardinality(keep)
  <2>1. {j \in keep : j <= i} \in SUBSET keep
    OBVIOUS
  <2>2. Rank(keep, i) <= Cardinality(keep)
    BY <2>1, RankStep, FS_Subset DEF Rank
  <2>3. Rank(keep, i) = Rank(keep, i - 1) + 1 /\ Rank(keep, i - 1) \in Nat
    BY <1>0, RankStep
  <2> QED
    BY <2>2, <2>3, RankStep
<1>2. PICK j \in keep : j = Nth(keep, Rank(keep, i)) /\ Rank(keep, j) = Rank(keep, i)
  BY <1>1, NthExists
<1>3. Rank(keep, i) \in Nat
  BY <1>0, RankStep
<1>4. ASSUME i < j PROVE FALSE
  <2>1. Rank(keep, i) < Rank(keep, j)
    BY <1>4, RankIncreases
  <2> QED
    BY <1>2, <1>3, <2>1
<1>5. ASSUME j < i PROVE FALSE
  <2>1. Rank(keep, j) < Rank(keep, i)
    BY <1>5, RankIncreases
  <2> QED
    BY <1>2, <1>3, <2>1
<1> QED
  BY <1>0, <1>1, <1>2, <1>4, <1>5

(* KeepAt has as many items as there are positions, and takes its items    *)
(* from these positions, in order, all of them.                            *)
KeepsInOrder(q, keep) ==
  /\ Cardinality(keep) \in Nat
  /\ Len(KeepAt(q, keep)) = Cardinality(keep)
  /\ DOMAIN KeepAt(q, keep) = 1 .. Cardinality(keep)
  /\ \A k \in 1 .. Cardinality(keep) :
       Nth(keep, k) \in keep /\ KeepAt(q, keep)[k] = q[Nth(keep, k)]
  /\ \A k, l \in 1 .. Cardinality(keep) : k < l => Nth(keep, k) < Nth(keep, l)
  /\ \A i \in keep : \E k \in 1 .. Cardinality(keep) : Nth(keep, k) = i

(* KeepAt of a sequence is a sequence over the same set with these facts. *)
LEMMA KeepAtProperties ==
  ASSUME NEW S, NEW q \in Seq(S), NEW keep \in SUBSET DOMAIN q
  PROVE  KeepAt(q, keep) \in Seq(S) /\ KeepsInOrder(q, keep)
<1>1. Len(q) \in Nat /\ keep \in SUBSET (1 .. Len(q))
  OBVIOUS
<1>2. Cardinality(keep) \in Nat
  BY <1>1, RankStep
<1>3. \A k \in 1 .. Cardinality(keep) : Nth(keep, k) \in keep /\ Rank(keep, Nth(keep, k)) = k
  BY <1>1, NthExists
<1>4. ASSUME NEW k \in 1 .. Cardinality(keep), NEW l \in 1 .. Cardinality(keep), k < l
      PROVE  Nth(keep, k) < Nth(keep, l)
  <2>1. ASSUME Nth(keep, l) < Nth(keep, k) PROVE FALSE
    <3>1. Rank(keep, Nth(keep, l)) < Rank(keep, Nth(keep, k))
      BY <1>1, <1>3, <2>1, RankIncreases
    <3> QED
      BY <1>2, <1>3, <1>4, <3>1
  <2>2. Nth(keep, l) # Nth(keep, k)
    BY <1>2, <1>3, <1>4
  <2> QED
    BY <1>1, <1>3, <2>1, <2>2
<1>5. \A i \in keep : \E k \in 1 .. Cardinality(keep) : Nth(keep, k) = i
  BY <1>1, NthOfRank
<1>6. KeepAt(q, keep) \in [1 .. Cardinality(keep) -> S]
  BY <1>1, <1>3 DEF KeepAt
<1>7. KeepAt(q, keep) \in Seq(S) /\ Len(KeepAt(q, keep)) = Cardinality(keep)
  BY <1>2, <1>6
<1> QED
  BY <1>2, <1>3, <1>4, <1>5, <1>7 DEF KeepAt, KeepsInOrder
(* KeepAt reads q only at the positions kept. *)
LEMMA KeepAtAgrees ==
  ASSUME NEW n \in Nat, NEW keep \in SUBSET (1 .. n), NEW q, NEW r,
         \A i \in keep : q[i] = r[i]
  PROVE  KeepAt(q, keep) = KeepAt(r, keep)
<1>1. \A k \in 1 .. Cardinality(keep) : Nth(keep, k) \in keep
  BY NthExists
<1>2. \A k \in 1 .. Cardinality(keep) : q[Nth(keep, k)] = r[Nth(keep, k)]
  BY <1>1
<1> QED
  BY <1>2 DEF KeepAt

(* Without one position, the positions after it move one place forward.    *)
LEMMA NthWithout ==
  ASSUME NEW n \in Nat, NEW keep \in SUBSET (1 .. n), NEW f \in keep
  PROVE  /\ Cardinality(keep \ {f}) = Cardinality(keep) - 1
         /\ \A k \in 1 .. Cardinality(keep) - 1 :
              Nth(keep \ {f}, k) = IF k < Rank(keep, f) THEN Nth(keep, k) ELSE Nth(keep, k + 1)
<1> DEFINE rest == keep \ {f}
<1>1. IsFiniteSet(keep) /\ Cardinality(keep) \in Nat
  BY RankStep
<1>2. Cardinality(rest) = Cardinality(keep) - 1
  BY <1>1, FS_RemoveElement
<1>3. ASSUME NEW i \in rest
      PROVE  Rank(rest, i) = IF f < i THEN Rank(keep, i) - 1 ELSE Rank(keep, i)
  <2> DEFINE L == {j \in keep : j <= i}
  <2>0. IsFiniteSet(L)
    <3>1. L \in SUBSET keep
      OBVIOUS
    <3> QED
      BY <1>1, <3>1, FS_Subset
  <2>1. CASE f < i
    <3>1. f \in L
      BY <2>1
    <3>2. {j \in rest : j <= i} = L \ {f}
      OBVIOUS
    <3>3. Cardinality(L \ {f}) = Cardinality(L) - 1
      BY <2>0, <3>1, FS_RemoveElement
    <3> QED
      BY <2>1, <3>2, <3>3 DEF Rank
  <2>2. CASE ~(f < i)
    <3>1. i \in 1 .. n /\ f \in 1 .. n /\ i # f
      OBVIOUS
    <3>2. ~(f <= i)
      BY <2>2, <3>1
    <3>3. {j \in rest : j <= i} = L
      BY <3>2
    <3> QED
      BY <2>2, <3>3 DEF Rank
  <2> QED
    BY <2>1, <2>2
<1>4. ASSUME NEW k \in 1 .. Cardinality(keep) - 1
      PROVE  Nth(rest, k) = IF k < Rank(keep, f) THEN Nth(keep, k) ELSE Nth(keep, k + 1)
  <2> DEFINE m == IF k < Rank(keep, f) THEN k ELSE k + 1
             i == Nth(keep, m)
  <2>0. Rank(keep, f) \in 1 .. Cardinality(keep)
    BY NthOfRank
  <2>1. m \in 1 .. Cardinality(keep) /\ m # Rank(keep, f) /\ m \in Nat
    BY <1>1, <2>0
  <2>2. i \in keep /\ Rank(keep, i) = m
    BY <2>1, NthExists
  <2> HIDE DEF i, m
  <2>3. i \in rest /\ i \in 1 .. n /\ f \in 1 .. n
    BY <2>1, <2>2
  <2>4. f < i <=> Rank(keep, f) < m
    <3>1. f < i => Rank(keep, f) < m
      BY <2>2, RankIncreases
    <3>2. i < f => m < Rank(keep, f)
      BY <2>2, RankIncreases
    <3> QED
      BY <2>0, <2>1, <2>3, <3>1, <3>2
  <2>5. Rank(rest, i) = k
    BY <1>1, <1>3, <2>0, <2>1, <2>2, <2>3, <2>4 DEF m
  <2>6. rest \in SUBSET (1 .. n)
    OBVIOUS
  <2>7. Nth(rest, k) = i
    <3> HIDE DEF rest
    <3> QED
      BY <2>3, <2>5, <2>6, NthOfRank
  <2> QED
    BY <2>7 DEF i, m
<1> QED
  BY <1>2, <1>4

(* Taking one kept item out is keeping one position less. *)
LEMMA KeepAtWithout ==
  ASSUME NEW S, NEW q \in Seq(S), NEW keep \in SUBSET DOMAIN q, NEW f \in keep
  PROVE  LET r == KeepAt(q, keep)
             i == Rank(keep, f)
         IN  /\ i \in DOMAIN r /\ r[i] = q[f]
             /\ SubSeq(r, 1, i - 1) \o SubSeq(r, i + 1, Len(r)) = KeepAt(q, keep \ {f})
<1> DEFINE r == KeepAt(q, keep)
           i == Rank(keep, f)
           c == Cardinality(keep)
           l == SubSeq(r, 1, i - 1) \o SubSeq(r, i + 1, Len(r))
           e == KeepAt(q, keep \ {f})
<1>1. Len(q) \in Nat /\ keep \in SUBSET (1 .. Len(q)) /\ f \in keep
  OBVIOUS
<1>2. /\ r \in Seq(S) /\ Len(r) = c /\ c \in Nat /\ DOMAIN r = 1 .. c
      /\ \A k \in 1 .. c : r[k] = q[Nth(keep, k)]
  <2>1. KeepAt(q, keep) \in Seq(S) /\ KeepsInOrder(q, keep)
    BY KeepAtProperties
  <2> QED
    BY <2>1 DEF KeepsInOrder
<1>3. i \in 1 .. c /\ Nth(keep, i) = f
  BY <1>1, NthOfRank
<1>4. /\ Cardinality(keep \ {f}) = c - 1
      /\ \A k \in 1 .. c - 1 :
           Nth(keep \ {f}, k) = IF k < i THEN Nth(keep, k) ELSE Nth(keep, k + 1)
  BY <1>1, NthWithout
<1>5. /\ e \in Seq(S) /\ Len(e) = c - 1 /\ DOMAIN e = 1 .. c - 1
      /\ \A k \in 1 .. c - 1 : e[k] = q[Nth(keep \ {f}, k)]
  <2>1. keep \ {f} \in SUBSET DOMAIN q
    OBVIOUS
  <2>2. e \in Seq(S) /\ KeepsInOrder(q, keep \ {f})
    BY <2>1, KeepAtProperties
  <2> QED
    BY <1>4, <2>2 DEF KeepsInOrder
<1> HIDE DEF r, i, c, e
<1>6. /\ l \in Seq(S) /\ Len(l) = c - 1 /\ DOMAIN l = 1 .. c - 1
      /\ \A k \in 1 .. c - 1 : l[k] = IF k < i THEN r[k] ELSE r[k + 1]
  BY <1>2, <1>3
<1>7. \A k \in 1 .. c - 1 : l[k] = e[k]
  <2> TAKE k \in 1 .. c - 1
  <2>1. k \in 1 .. c /\ k + 1 \in 1 .. c
    BY <1>2
  <2> QED
    BY <1>2, <1>4, <1>5, <1>6, <2>1
<1> HIDE DEF l
<1>8. l = e
  BY <1>2, <1>5, <1>6, <1>7
<1> QED
  BY <1>2, <1>3, <1>8 DEF r, i, l, e
(* Keeping everything changes nothing. *)
LEMMA KeepAtAll ==
  ASSUME NEW S, NEW q \in Seq(S)
  PROVE  KeepAt(q, DOMAIN q) = q
<1> DEFINE n == Len(q)
           r == KeepAt(q, DOMAIN q)
<1>0. n \in Nat /\ DOMAIN q = 1 .. n /\ DOMAIN q \in SUBSET DOMAIN q
  OBVIOUS
<1>1. r \in Seq(S) /\ KeepsInOrder(q, DOMAIN q)
  BY <1>0, KeepAtProperties
<1> HIDE DEF n, r
<1>2. \A k \in 0 .. n : Cardinality(1 .. k) = k
  <2> TAKE k \in 0 .. n
  <2>1. Cardinality(1 .. k) = IF 1 > k THEN 0 ELSE k - 1 + 1
    BY <1>0, FS_Interval
  <2> QED
    BY <1>0, <2>1
<1>3. ASSUME NEW k \in 1 .. n PROVE Nth(1 .. n, k) = k
  <2>1. {x \in 1 .. n : x <= k} = 1 .. k
    BY <1>0
  <2>2. Rank(1 .. n, k) = k
    <3>1. Rank(1 .. n, k) = Cardinality({x \in 1 .. n : x <= k})
      BY DEF Rank
    <3>2. k \in 0 .. n
      BY <1>0
    <3> QED
      BY <1>2, <2>1, <3>1, <3>2
  <2>3. 1 .. n \in SUBSET (1 .. n)
    OBVIOUS
  <2> QED
    BY <1>0, <2>2, <2>3, NthOfRank
<1>4. Len(r) = n /\ \A k \in 1 .. n : r[k] = q[k]
  <2>1. Cardinality(DOMAIN q) = n
    BY <1>0, <1>2
  <2> QED
    BY <1>0, <1>1, <1>3, <2>1 DEF KeepsInOrder, r
<1> QED
  BY <1>0, <1>1, <1>4 DEF n, r

(* To keep nothing is to empty the queue. *)
LEMMA KeepAtNone ==
  ASSUME NEW q
  PROVE  KeepAt(q, {}) = <<>>
<1>1. Cardinality({}) = 0
  BY FS_EmptySet
<1> QED
  BY <1>1 DEF KeepAt
=============================================================================
