--------------------------- MODULE OperatorProofs ---------------------------
(***************************************************************************)
(* Lemmas about the operators the modules share: folds over lists, totals  *)
(* and the columns of a ledger (Balances), and big maps as an indexer      *)
(* tells them (BigMaps).                                                   *)
(***************************************************************************)
EXTENDS Balances, BigMaps, FiniteSetTheorems, SequenceTheorems, TLAPS

(* Every non-empty set of naturals has a least element. *)
LEMMA LeastNat ==
    ASSUME NEW Q \in SUBSET Nat, Q # {}
    PROVE  \E n \in Q : \A m \in Q : n <= m
<1>1. IsWellFoundedOn(OpToRel(<,Nat), Nat)
  BY NatLessThanWellFounded
<1>2. PICK x \in Q : ~(\E y \in Q : <<y, x>> \in OpToRel(<, Nat))
  BY <1>1, WFMin, Zenon
<1>3. \A y \in Q : ~(y < x)
  BY <1>2 DEF OpToRel
<1>. QED BY <1>3

(* Induction over the naturals, stated for a set instead of a predicate. *)
LEMMA UpFromZero ==
    ASSUME NEW S \in SUBSET Nat, 0 \in S, \A n \in S : n + 1 \in S
    PROVE  S = Nat
<1>1. SUFFICES ASSUME Nat \ S # {} PROVE FALSE
  OBVIOUS
<1>2. PICK n \in Nat \ S : \A m \in Nat \ S : n <= m
  BY <1>1, LeastNat
<1>3. n - 1 \in Nat /\ n - 1 \in S
  BY <1>2
<1> QED BY <1>2, <1>3

(***************************************************************************)
(* A function on the subsets of a finite set may be defined by recursion:  *)
(* its value at s from its value at s without the element picked from s.   *)
(***************************************************************************)
Picks(D, pick) == \A s \in SUBSET D : s # {} => pick[s] \in s

Recurses(iter, D, base, pick, H) ==
    \A s \in SUBSET D :
        iter[s] = IF s = {} THEN base ELSE H[s][iter[s \ {pick[s]}]]

LEMMA RecursionOnSubsets ==
    ASSUME NEW D, IsFiniteSet(D), NEW V, NEW base \in V,
           NEW pick, Picks(D, pick),
           NEW H \in [SUBSET D -> [V -> V]]
    PROVE  \E iter \in [SUBSET D -> V] : Recurses(iter, D, base, pick, H)
<1>. DEFINE UpTo(n) == {s \in SUBSET D : Cardinality(s) <= n}
            Value(h, s) == IF s = {} THEN base ELSE H[s][h[s \ {pick[s]}]]
            Ok == {n \in Nat : \E h \in [UpTo(n) -> V] :
                                   \A s \in UpTo(n) : h[s] = Value(h, s)}
<1>1. \A s \in SUBSET D : IsFiniteSet(s) /\ Cardinality(s) \in Nat
                          /\ Cardinality(s) <= Cardinality(D)
  BY FS_Subset, FS_CardinalityType
<1>2. \A s \in SUBSET D : s # {} =>
         /\ s \ {pick[s]} \in SUBSET D
         /\ Cardinality(s \ {pick[s]}) = Cardinality(s) - 1
  BY <1>1, FS_RemoveElement DEF Picks
<1>3. 0 \in Ok
  <2>1. \A s \in UpTo(0) : s = {}
    BY <1>1, FS_EmptySet
  <2>2. [s \in UpTo(0) |-> base] \in [UpTo(0) -> V]
    OBVIOUS
  <2>. QED BY <2>1, <2>2
<1>4. ASSUME NEW n \in Nat, n \in Ok PROVE n + 1 \in Ok
  <2>1. PICK h \in [UpTo(n) -> V] : \A s \in UpTo(n) : h[s] = Value(h, s)
    BY <1>4
  <2>. DEFINE g == [s \in UpTo(n + 1) |-> Value(h, s)]
  <2>2. \A s \in UpTo(n + 1) : s # {} => s \ {pick[s]} \in UpTo(n)
    <3>. SUFFICES ASSUME NEW s \in UpTo(n + 1), s # {}
                  PROVE  Cardinality(s \ {pick[s]}) <= n
      OBVIOUS
    <3>1. Cardinality(s) \in Nat /\ Cardinality(s) <= n + 1
      BY <1>1
    <3>. QED BY <3>1, <1>2
  <2>3. g \in [UpTo(n + 1) -> V]
    BY <2>2
  <2>4. \A s \in UpTo(n) : s \in UpTo(n + 1) /\ g[s] = h[s]
    <3>1. \A s \in UpTo(n) : s \in UpTo(n + 1)
      BY <1>1
    <3>. QED BY <3>1, <2>1
  <2>5. \A s \in UpTo(n + 1) : g[s] = Value(g, s)
    BY <2>2, <2>4
  <2>. HIDE DEF g, Value, UpTo
  <2>6. \E k \in [UpTo(n + 1) -> V] : \A s \in UpTo(n + 1) : k[s] = Value(k, s)
    BY <2>3, <2>5
  <2>. QED BY <2>6
<1>5. Ok = Nat
  <2>. HIDE DEF Ok
  <2>1. Ok \in SUBSET Nat BY DEF Ok
  <2>. QED BY <1>3, <1>4, <2>1, UpFromZero
<1>6. UpTo(Cardinality(D)) = SUBSET D
  BY <1>1
<1>7. Cardinality(D) \in Ok
  BY <1>5, FS_CardinalityType
<1>8. PICK iter \in [SUBSET D -> V] : \A s \in SUBSET D : iter[s] = Value(iter, s)
  BY <1>6, <1>7
<1>. QED BY <1>8 DEF Recurses

-----------------------------------------------------------------------------
(* ListFold. *)

LEMMA MaxUpTo ==
    ASSUME NEW n \in Nat, n # 0
    PROVE  Max(1..n) = n
<1>1. n \in 1..n /\ \A y \in 1..n : n >= y
  OBVIOUS
<1>2. \A x \in 1..n : (\A y \in 1..n : x >= y) => x = n
  OBVIOUS
<1>. QED BY <1>1, <1>2 DEF Max

LEMMA MaxOfSubset ==
    ASSUME NEW n \in Nat, NEW s \in SUBSET (1..n), s # {}
    PROVE  Max(s) \in s
<1>. DEFINE Bound == {m \in Nat : \A x \in s : x <= m}
<1>1. n \in Bound
  OBVIOUS
<1>2. PICK m \in Bound : \A k \in Bound : m <= k
  <2>. HIDE DEF Bound
  <2>1. Bound \in SUBSET Nat /\ Bound # {}
    BY <1>1 DEF Bound
  <2>. QED BY <2>1, LeastNat
<1>3. m \in s
  <2>. SUFFICES ASSUME m \notin s PROVE FALSE
    OBVIOUS
  <2>1. \A x \in s : x \in Nat /\ x >= 1 /\ x < m
    BY <1>2
  <2>2. PICK x \in s : TRUE
    OBVIOUS
  <2>3. m - 1 \in Bound
    BY <2>1, <2>2, <1>2
  <2>. QED BY <2>3, <1>2
<1>4. m \in s /\ \A y \in s : m >= y
  BY <1>2, <1>3
<1>. QED BY <1>4 DEF Max

(* The values the fold computes on the prefixes of the list. *)
FoldIter(step, storage, list) ==
    CHOOSE iter : iter = [s \in SUBSET DOMAIN list |->
        IF s = {} THEN storage
        ELSE IF iter[s \ {Max(s)}] = Failed THEN Failed
             ELSE step[iter[s \ {Max(s)}]][list[Max(s)]]]

After(step, storage, list, i) == FoldIter(step, storage, list)[1..i]

(* What a step of the fold needs: it stays in S, or fails. *)
StaysIn(S, B, step) == \A s \in S, b \in B : step[s][b] \in S \cup {Failed}

LEMMA FoldPrefixes ==
    ASSUME NEW S, NEW B, NEW step, StaysIn(S, B, step),
           NEW storage \in S, NEW list \in Seq(B)
    PROVE  /\ ListFold(step, storage, list) = After(step, storage, list, Len(list))
           /\ After(step, storage, list, 0) = storage
           /\ \A i \in 1..Len(list) :
                 After(step, storage, list, i) =
                    IF After(step, storage, list, i-1) = Failed THEN Failed
                    ELSE step[After(step, storage, list, i-1)][list[i]]
<1>. DEFINE D == DOMAIN list
            V == S \cup {Failed}
            pick == [s \in SUBSET D |-> Max(s)]
            H == [s \in SUBSET D |-> [v \in V |->
                    IF v = Failed \/ s = {} THEN Failed
                    ELSE step[v][list[Max(s)]]]]
            iter == FoldIter(step, storage, list)
<1>1. D = 1..Len(list) /\ Len(list) \in Nat /\ IsFiniteSet(D)
  BY FS_Interval
<1>2. \A s \in SUBSET D : s # {} => Max(s) \in s
  BY <1>1, MaxOfSubset
<1>3. H \in [SUBSET D -> [V -> V]]
  <2>. SUFFICES ASSUME NEW s \in SUBSET D, NEW v \in V, v # Failed, s # {}
                PROVE  step[v][list[Max(s)]] \in V
    OBVIOUS
  <2>1. list[Max(s)] \in B
    BY <1>1, <1>2
  <2>. QED BY <2>1 DEF StaysIn
<1>4. PICK f \in [SUBSET D -> V] : Recurses(f, D, storage, pick, H)
  <2>. HIDE DEF H, V, D
  <2>1. Picks(D, pick)
    BY <1>2 DEF Picks
  <2>2. storage \in V
    BY DEF V
  <2>3. IsFiniteSet(D)
    BY <1>1
  <2>. HIDE DEF pick
  <2>. QED BY <1>3, <2>1, <2>2, <2>3, RecursionOnSubsets
<1>5. f = [s \in SUBSET DOMAIN list |->
        IF s = {} THEN storage
        ELSE IF f[s \ {Max(s)}] = Failed THEN Failed
             ELSE step[f[s \ {Max(s)}]][list[Max(s)]]]
  <2>1. \A s \in SUBSET D : s # {} => s \ {Max(s)} \in SUBSET D /\ f[s \ {Max(s)}] \in V
    OBVIOUS
  <2>2. \A s \in SUBSET D : s # {} =>
          f[s] = IF f[s \ {Max(s)}] = Failed THEN Failed
                 ELSE step[f[s \ {Max(s)}]][list[Max(s)]]
    BY <1>4, <2>1 DEF Recurses
  <2>. QED BY <1>4, <2>2 DEF Recurses
<1>6. iter = [s \in SUBSET DOMAIN list |->
        IF s = {} THEN storage
        ELSE IF iter[s \ {Max(s)}] = Failed THEN Failed
             ELSE step[iter[s \ {Max(s)}]][list[Max(s)]]]
  BY <1>5 DEF FoldIter
<1>7. ListFold(step, storage, list) = iter[DOMAIN list]
  BY DEF FoldIter, ListFold, FoldLeft, MapThenFoldSet
<1>. HIDE DEF iter, H, pick, V, D
<1>8. iter[1..0] = storage
  <2>1. 1..0 = {} /\ {} \in SUBSET DOMAIN list
    OBVIOUS
  <2>. QED BY <2>1, <1>6
<1>9. ASSUME NEW i \in 1..Len(list)
      PROVE  iter[1..i] = IF iter[1..(i-1)] = Failed THEN Failed
                          ELSE step[iter[1..(i-1)]][list[i]]
  <2>1. DOMAIN list = 1..Len(list) /\ Len(list) \in Nat /\ i \in Nat /\ i # 0
    BY <1>1 DEF D
  <2>2. 1..i \in SUBSET DOMAIN list
    BY <2>1
  <2>3. 1..i # {}
    BY <2>1
  <2>4. Max(1..i) = i
    BY <2>1, MaxUpTo
  <2>5. (1..i) \ {i} = 1..(i-1)
    BY <2>1
  <2>6. iter[1..i] = IF iter[(1..i) \ {Max(1..i)}] = Failed THEN Failed
                     ELSE step[iter[(1..i) \ {Max(1..i)}]][list[Max(1..i)]]
    BY <2>2, <2>3, <1>6, Zenon
  <2>. QED BY <2>4, <2>5, <2>6
<1>. QED BY <1>1, <1>7, <1>8, <1>9 DEF D, iter, After

(* A list of one takes one step. *)
LEMMA FoldOfOne ==
    ASSUME NEW S, NEW B, NEW step, StaysIn(S, B, step), NEW storage \in S, NEW x \in B
    PROVE  ListFold(step, storage, <<x>>)
              = IF storage = Failed THEN Failed ELSE step[storage][x]
<1>. DEFINE list == <<x>>
            after(i) == After(step, storage, list, i)
<1>1. list \in Seq(B) /\ Len(list) = 1 /\ list[1] = x
  OBVIOUS
<1>. HIDE DEF list
<1>2. /\ ListFold(step, storage, list) = after(Len(list))
      /\ after(0) = storage
      /\ \A i \in 1..Len(list) :
            after(i) = IF after(i-1) = Failed THEN Failed
                       ELSE step[after(i-1)][list[i]]
  BY <1>1, FoldPrefixes
<1>. HIDE DEF after
<1>3. after(1) = IF after(0) = Failed THEN Failed ELSE step[after(0)][list[1]]
  BY <1>1, <1>2
<1>4. ListFold(step, storage, list) = IF storage = Failed THEN Failed ELSE step[storage][x]
  BY <1>1, <1>2, <1>3
<1>. QED BY <1>4 DEF list

(* A fold whose steps stay in S stays in S, or fails as a whole. *)
LEMMA FoldStaysIn ==
    ASSUME NEW S, NEW B, NEW step, StaysIn(S, B, step),
           NEW storage \in S, NEW list \in Seq(B)
    PROVE  ListFold(step, storage, list) \in S \cup {Failed}
<1>. DEFINE after(i) == After(step, storage, list, i)
            Good == {i \in Nat : i <= Len(list) => after(i) \in S \cup {Failed}}
<1>1. /\ ListFold(step, storage, list) = after(Len(list))
      /\ after(0) = storage
      /\ \A i \in 1..Len(list) :
            after(i) = IF after(i-1) = Failed THEN Failed
                       ELSE step[after(i-1)][list[i]]
  BY FoldPrefixes
<1>. HIDE DEF after
<1>2. Len(list) \in Nat /\ \A i \in 1..Len(list) : list[i] \in B
  OBVIOUS
<1>3. 0 \in Good
  BY <1>1
<1>4. ASSUME NEW n \in Nat, n \in Good PROVE n + 1 \in Good
  <2>. SUFFICES ASSUME n + 1 <= Len(list)
                PROVE  after(n + 1) \in S \cup {Failed}
    OBVIOUS
  <2>1. after(n) \in S \cup {Failed} /\ n + 1 \in 1..Len(list) /\ (n + 1) - 1 = n
    BY <1>2, <1>4
  <2>. QED BY <1>1, <1>2, <2>1 DEF StaysIn
<1>5. Good = Nat
  <2>. HIDE DEF Good
  <2>1. Good \in SUBSET Nat BY DEF Good
  <2>. QED BY <1>3, <1>4, <2>1, UpFromZero
<1>. QED BY <1>1, <1>2, <1>5

(* A fold whose steps stay in S and never fail stays in S. *)
LEMMA FoldNeverFails ==
    ASSUME NEW S, NEW B, NEW step, \A s \in S, b \in B : step[s][b] \in S,
           NEW storage \in S, NEW list \in Seq(B)
    PROVE  ListFold(step, storage, list) \in S
<1>1. StaysIn(S, B, step)
  BY DEF StaysIn
<1>2. CASE Failed \in S
  BY <1>1, <1>2, FoldStaysIn
<1>3. CASE Failed \notin S
  <2>. DEFINE after(i) == After(step, storage, list, i)
              Good == {i \in Nat : i <= Len(list) => after(i) \in S}
  <2>1. /\ ListFold(step, storage, list) = after(Len(list))
        /\ after(0) = storage
        /\ \A i \in 1..Len(list) :
              after(i) = IF after(i-1) = Failed THEN Failed
                         ELSE step[after(i-1)][list[i]]
    BY <1>1, FoldPrefixes
  <2>. HIDE DEF after
  <2>2. Len(list) \in Nat /\ \A i \in 1..Len(list) : list[i] \in B
    OBVIOUS
  <2>3. 0 \in Good
    BY <2>1
  <2>4. ASSUME NEW n \in Nat, n \in Good PROVE n + 1 \in Good
    <3>. SUFFICES ASSUME n + 1 <= Len(list)
                  PROVE  after(n + 1) \in S
      OBVIOUS
    <3>1. after(n) \in S /\ n + 1 \in 1..Len(list) /\ (n + 1) - 1 = n
      BY <2>2, <2>4
    <3>2. after(n) # Failed
      BY <1>3, <3>1
    <3>. QED BY <2>1, <2>2, <3>1, <3>2
  <2>5. Good = Nat
    <3>. HIDE DEF Good
    <3>1. Good \in SUBSET Nat BY DEF Good
    <3>. QED BY <2>3, <2>4, <3>1, UpFromZero
  <2>. QED BY <2>1, <2>2, <2>5
<1>. QED BY <1>2, <1>3

(* Two folds over the same list, of steps that keep their storages related  *)
(* by R as long as the first one does not fail.                            *)
Abreast(R, B, left, right) ==
    \A r \in R, b \in B :
        \/ left[r.left][b] = Failed
        \/ [left |-> left[r.left][b], right |-> right[r.right][b]] \in R

LEMMA FoldsAbreast ==
    ASSUME NEW S, NEW U, NEW B, NEW R \in SUBSET [left : S, right : U],
           NEW f, NEW g, StaysIn(S, B, f), StaysIn(U, B, g),
           Failed \notin U, Abreast(R, B, f, g),
           NEW s, NEW u, [left |-> s, right |-> u] \in R, NEW list \in Seq(B)
    PROVE  \/ ListFold(f, s, list) = Failed
           \/ [left |-> ListFold(f, s, list),
               right |-> ListFold(g, u, list)] \in R
<1>. DEFINE F(i) == After(f, s, list, i)
            G(i) == After(g, u, list, i)
            Pair(i) == [left |-> F(i), right |-> G(i)]
            Good == {i \in Nat : i <= Len(list) => F(i) = Failed \/ Pair(i) \in R}
<1>1. s \in S /\ u \in U
  OBVIOUS
<1>2. /\ ListFold(f, s, list) = F(Len(list)) /\ F(0) = s
      /\ \A i \in 1..Len(list) :
            F(i) = IF F(i-1) = Failed THEN Failed ELSE f[F(i-1)][list[i]]
  BY <1>1, FoldPrefixes
<1>3. /\ ListFold(g, u, list) = G(Len(list)) /\ G(0) = u
      /\ \A i \in 1..Len(list) :
            G(i) = IF G(i-1) = Failed THEN Failed ELSE g[G(i-1)][list[i]]
  BY <1>1, FoldPrefixes
<1>. HIDE DEF F, G
<1>4. Len(list) \in Nat /\ \A i \in 1..Len(list) : list[i] \in B
  OBVIOUS
<1>5. 0 \in Good
  BY <1>2, <1>3
<1>6. ASSUME NEW n \in Nat, n \in Good PROVE n + 1 \in Good
  <2>. SUFFICES ASSUME n + 1 <= Len(list), F(n + 1) # Failed
                PROVE  Pair(n + 1) \in R
    OBVIOUS
  <2>1. n + 1 \in 1..Len(list) /\ (n + 1) - 1 = n /\ list[n + 1] \in B
    BY <1>4
  <2>2. F(n) # Failed /\ F(n + 1) = f[F(n)][list[n + 1]]
    BY <1>2, <2>1
  <2>3. Pair(n) \in R
    BY <1>6, <2>1, <2>2
  <2>4. G(n) \in U /\ G(n) # Failed
    BY <2>3
  <2>5. G(n + 1) = g[G(n)][list[n + 1]]
    BY <1>3, <2>1, <2>4
  <2>6. Pair(n).left = F(n) /\ Pair(n).right = G(n)
    OBVIOUS
  <2>. HIDE DEF Pair
  <2>7. [left |-> F(n + 1), right |-> G(n + 1)] \in R
    BY <2>1, <2>2, <2>3, <2>5, <2>6 DEF Abreast
  <2>. QED BY <2>7 DEF Pair
<1>7. Good = Nat
  <2>. HIDE DEF Good
  <2>1. Good \in SUBSET Nat BY DEF Good
  <2>. QED BY <1>5, <1>6, <2>1, UpFromZero
<1>. QED BY <1>2, <1>3, <1>4, <1>7

-----------------------------------------------------------------------------
(* Total. *)

First(s) == CHOOSE x \in s : TRUE

(* Induction over the subsets of a finite set, taking one element away. *)
LEMMA SubsetInduction ==
    ASSUME NEW D, IsFiniteSet(D), NEW Q \in SUBSET (SUBSET D), {} \in Q,
           \A s \in SUBSET D : s # {} /\ s \ {First(s)} \in Q => s \in Q
    PROVE  Q = SUBSET D
<1>. DEFINE N == {n \in Nat : \A s \in SUBSET D : Cardinality(s) = n => s \in Q}
<1>1. \A s \in SUBSET D : IsFiniteSet(s) /\ Cardinality(s) \in Nat
  BY FS_Subset, FS_CardinalityType
<1>2. 0 \in N
  BY <1>1, FS_EmptySet
<1>3. ASSUME NEW n \in Nat, n \in N PROVE n + 1 \in N
  <2>. SUFFICES ASSUME NEW s \in SUBSET D, Cardinality(s) = n + 1
                PROVE  s \in Q
    OBVIOUS
  <2>1. s # {}
    BY FS_EmptySet
  <2>2. First(s) \in s
    BY <2>1 DEF First
  <2>3. Cardinality(s \ {First(s)}) = n
    <3>1. Cardinality(s \ {First(s)}) = Cardinality(s) - 1
      BY <1>1, <2>2, FS_RemoveElement
    <3>. QED BY <3>1
  <2>4. s \ {First(s)} \in Q
    BY <1>3, <2>3
  <2>. QED BY <2>1, <2>4
<1>4. N = Nat
  <2>. HIDE DEF N
  <2>1. N \in SUBSET Nat BY DEF N
  <2>. QED BY <1>2, <1>3, <2>1, UpFromZero
<1>. QED BY <1>1, <1>4

(* The sums the fold of SumFunction computes on the subsets of the domain. *)
SumIter(f) ==
    CHOOSE iter : iter = [s \in SUBSET DOMAIN f |->
        IF s = {} THEN 0
        ELSE f[CHOOSE x \in s : TRUE] + iter[s \ {CHOOSE x \in s : TRUE}]]

SumsUp(iter, D, f) ==
    /\ iter[{}] = 0
    /\ \A s \in SUBSET D : s # {} => iter[s] = f[First(s)] + iter[s \ {First(s)}]

LEMMA SumRecursion ==
    ASSUME NEW D, IsFiniteSet(D), NEW f \in [D -> Int]
    PROVE  /\ Total(f) = SumIter(f)[D]
           /\ SumsUp(SumIter(f), D, f)
           /\ \A s \in SUBSET D : SumIter(f)[s] \in Int
<1>. DEFINE pick == [s \in SUBSET D |-> First(s)]
            H == [s \in SUBSET D |-> [v \in Int |->
                    IF s = {} THEN 0 ELSE f[First(s)] + v]]
            iter == SumIter(f)
<1>1. \A s \in SUBSET D : s # {} => First(s) \in s
  BY DEF First
<1>2. PICK g \in [SUBSET D -> Int] : Recurses(g, D, 0, pick, H)
  <2>1. Picks(D, pick)
    BY <1>1 DEF Picks
  <2>2. H \in [SUBSET D -> [Int -> Int]]
    BY <1>1
  <2>3. 0 \in Int
    OBVIOUS
  <2>. HIDE DEF pick, H
  <2>. QED BY <2>1, <2>2, <2>3, RecursionOnSubsets
<1>3. g = [s \in SUBSET DOMAIN f |->
        IF s = {} THEN 0
        ELSE f[CHOOSE x \in s : TRUE] + g[s \ {CHOOSE x \in s : TRUE}]]
  <2>1. \A s \in SUBSET D : s # {} =>
           g[s] = f[First(s)] + g[s \ {First(s)}]
    BY <1>1, <1>2 DEF Recurses
  <2>2. g[{}] = 0
    BY <1>2 DEF Recurses
  <2>. QED BY <2>1, <2>2 DEF First
<1>4. iter = [s \in SUBSET DOMAIN f |->
        IF s = {} THEN 0
        ELSE f[CHOOSE x \in s : TRUE] + iter[s \ {CHOOSE x \in s : TRUE}]]
  BY <1>3 DEF SumIter
<1>5. Total(f) = iter[D]
  <2>1. DOMAIN f = D
    OBVIOUS
  <2>2. Total(f) = iter[DOMAIN f]
    BY DEF SumIter, Total, SumFunction, SumFunctionOnSet, FoldFunctionOnSet,
           MapThenFoldSet
  <2>. QED BY <2>1, <2>2
<1>. HIDE DEF iter
<1>6. SumsUp(iter, D, f)
  <2>1. DOMAIN f = D
    OBVIOUS
  <2>2. iter[{}] = 0
    BY <1>4, <2>1
  <2>3. \A s \in SUBSET D : s # {} => iter[s] = f[First(s)] + iter[s \ {First(s)}]
    BY <1>4, <2>1, Zenon DEF First
  <2>. QED BY <2>2, <2>3 DEF SumsUp
<1>7. \A s \in SUBSET D : iter[s] \in Int
  <2>. DEFINE Q == {s \in SUBSET D : iter[s] \in Int}
  <2>1. {} \in Q
    BY <1>6 DEF SumsUp
  <2>2. \A s \in SUBSET D : s # {} /\ s \ {First(s)} \in Q => s \in Q
    BY <1>1, <1>6 DEF SumsUp
  <2>3. Q = SUBSET D
    <3>. HIDE DEF Q
    <3>1. Q \in SUBSET (SUBSET D) BY DEF Q
    <3>. QED BY <2>1, <2>2, <3>1, SubsetInduction
  <2>. QED BY <2>3
<1>. QED BY <1>5, <1>6, <1>7 DEF iter

(* A total is an integer, and a natural number if every entry is one. *)
LEMMA TotalInt ==
    ASSUME NEW D, IsFiniteSet(D), NEW f \in [D -> Int]
    PROVE  Total(f) \in Int
BY SumRecursion

LEMMA TotalType ==
    ASSUME NEW D, IsFiniteSet(D), NEW f \in [D -> Nat]
    PROVE  Total(f) \in Nat
<1>. DEFINE iter == SumIter(f)
            Q == {s \in SUBSET D : iter[s] \in Nat}
<1>1. f \in [D -> Int]
  OBVIOUS
<1>2. Total(f) = iter[D] /\ SumsUp(iter, D, f)
  BY <1>1, SumRecursion
<1>. HIDE DEF iter
<1>3. {} \in Q
  BY <1>2 DEF SumsUp
<1>4. \A s \in SUBSET D : s # {} => First(s) \in s
  BY DEF First
<1>5. ASSUME NEW s \in SUBSET D, s # {}, s \ {First(s)} \in Q PROVE s \in Q
  <2>1. iter[s] = f[First(s)] + iter[s \ {First(s)}]
    BY <1>2, <1>5 DEF SumsUp
  <2>2. f[First(s)] \in Nat /\ iter[s \ {First(s)}] \in Nat
    BY <1>4, <1>5
  <2>. QED BY <2>1, <2>2
<1>6. Q = SUBSET D
  <2>. HIDE DEF Q
  <2>1. Q \in SUBSET (SUBSET D) BY DEF Q
  <2>. QED BY <1>3, <1>5, <2>1, SubsetInduction
<1>. QED BY <1>2, <1>6

(* A sum of sums is the sum of all. *)
LEMMA TotalAdd ==
    ASSUME NEW D, IsFiniteSet(D), NEW f \in [D -> Int], NEW g \in [D -> Int]
    PROVE  Total([x \in D |-> f[x] + g[x]]) = Total(f) + Total(g)
<1>. DEFINE h == [x \in D |-> f[x] + g[x]]
            F == SumIter(f)
            G == SumIter(g)
            H == SumIter(h)
            Q == {s \in SUBSET D : H[s] = F[s] + G[s]}
<1>1. h \in [D -> Int] /\ \A x \in D : h[x] = f[x] + g[x]
  OBVIOUS
<1>. HIDE DEF h
<1>2. Total(f) = F[D] /\ SumsUp(F, D, f) /\ \A s \in SUBSET D : F[s] \in Int
  BY SumRecursion
<1>3. Total(g) = G[D] /\ SumsUp(G, D, g) /\ \A s \in SUBSET D : G[s] \in Int
  BY SumRecursion
<1>4. Total(h) = H[D] /\ SumsUp(H, D, h) /\ \A s \in SUBSET D : H[s] \in Int
  BY <1>1, SumRecursion
<1>. HIDE DEF F, G, H
<1>5. {} \in Q
  BY <1>2, <1>3, <1>4 DEF SumsUp
<1>6. ASSUME NEW s \in SUBSET D, s # {}, s \ {First(s)} \in Q PROVE s \in Q
  <2>1. First(s) \in D /\ s \ {First(s)} \in SUBSET D
    BY <1>6 DEF First
  <2>2. /\ F[s] = f[First(s)] + F[s \ {First(s)}]
        /\ G[s] = g[First(s)] + G[s \ {First(s)}]
        /\ H[s] = h[First(s)] + H[s \ {First(s)}]
    BY <1>2, <1>3, <1>4, <1>6 DEF SumsUp
  <2>3. /\ F[s \ {First(s)}] \in Int /\ G[s \ {First(s)}] \in Int
        /\ f[First(s)] \in Int /\ g[First(s)] \in Int
    BY <1>2, <1>3, <2>1
  <2>4. h[First(s)] = f[First(s)] + g[First(s)]
        /\ H[s \ {First(s)}] = F[s \ {First(s)}] + G[s \ {First(s)}]
    BY <1>1, <1>6, <2>1
  <2>. QED BY <2>2, <2>3, <2>4
<1>7. Q = SUBSET D
  <2>. HIDE DEF Q
  <2>1. Q \in SUBSET (SUBSET D) BY DEF Q
  <2>. QED BY <1>5, <1>6, <2>1, SubsetInduction
<1>8. D \in Q
  BY <1>7
<1>9. Total(h) = Total(f) + Total(g)
  BY <1>2, <1>3, <1>4, <1>8
<1>. QED BY <1>9 DEF h

(* Nothing in any entry: nothing in total. *)
LEMMA TotalZero ==
    ASSUME NEW D, IsFiniteSet(D), NEW f \in [D -> Int], \A x \in D : f[x] = 0
    PROVE  Total(f) = 0
<1>. DEFINE iter == SumIter(f)
            Q == {s \in SUBSET D : iter[s] = 0}
<1>1. Total(f) = iter[D] /\ SumsUp(iter, D, f)
  BY SumRecursion
<1>. HIDE DEF iter
<1>2. {} \in Q
  BY <1>1 DEF SumsUp
<1>3. \A s \in SUBSET D : s # {} => First(s) \in s
  BY DEF First
<1>4. \A s \in SUBSET D : s # {} /\ s \ {First(s)} \in Q => s \in Q
  BY <1>1, <1>3 DEF SumsUp
<1>5. Q = SUBSET D
  <2>. HIDE DEF Q
  <2>1. Q \in SUBSET (SUBSET D) BY DEF Q
  <2>. QED BY <1>2, <1>4, <2>1, SubsetInduction
<1>. QED BY <1>1, <1>5

(* Changing one entry changes the total by as much. *)
LEMMA TotalUpdate ==
    ASSUME NEW D, IsFiniteSet(D), NEW f \in [D -> Int],
           NEW k \in D, NEW v \in Int
    PROVE  Total([f EXCEPT ![k] = v]) = Total(f) - f[k] + v
<1>. DEFINE g == [f EXCEPT ![k] = v]
            F == SumIter(f)
            G == SumIter(g)
            Q == {s \in SUBSET D : G[s] = IF k \in s THEN F[s] - f[k] + v ELSE F[s]}
<1>1. g \in [D -> Int]
  OBVIOUS
<1>2. Total(f) = F[D] /\ SumsUp(F, D, f) /\ \A s \in SUBSET D : F[s] \in Int
  BY SumRecursion
<1>3. Total(g) = G[D] /\ SumsUp(G, D, g) /\ \A s \in SUBSET D : G[s] \in Int
  <2>. HIDE DEF g
  <2>. QED BY <1>1, SumRecursion
<1>. HIDE DEF F, G
<1>4. {} \in Q
  BY <1>2, <1>3 DEF SumsUp
<1>5. ASSUME NEW s \in SUBSET D, s # {}, s \ {First(s)} \in Q PROVE s \in Q
  <2>. DEFINE x == First(s)
              r == s \ {x}
  <2>1. x \in s
    BY <1>5 DEF First
  <2>. HIDE DEF x
  <2>2. G[r] = IF k \in r THEN F[r] - f[k] + v ELSE F[r]
    BY <1>5 DEF x
  <2>3. G[s] = g[x] + G[r] /\ F[s] = f[x] + F[r]
    BY <1>2, <1>3, <1>5 DEF SumsUp, x
  <2>4. F[r] \in Int /\ F[s] \in Int /\ f[x] \in Int /\ f[k] \in Int
    BY <1>2, <2>1
  <2>5. CASE x = k
    <3>1. k \notin r /\ k \in s /\ g[x] = v
      BY <2>1, <2>5
    <3>. QED BY <2>2, <2>3, <2>4, <2>5, <3>1
  <2>6. CASE x # k
    <3>1. (k \in r <=> k \in s) /\ g[x] = f[x]
      BY <2>1, <2>6
    <3>. QED BY <2>2, <2>3, <2>4, <2>6, <3>1
  <2>. QED BY <2>5, <2>6
<1>6. Q = SUBSET D
  <2>. HIDE DEF Q
  <2>1. Q \in SUBSET (SUBSET D) BY DEF Q
  <2>. QED BY <1>4, <1>5, <2>1, SubsetInduction
<1>. QED BY <1>2, <1>3, <1>6

(* No entry exceeds the total. *)
LEMMA TotalBoundsEntry ==
    ASSUME NEW D, IsFiniteSet(D), NEW f \in [D -> Nat], NEW k \in D
    PROVE  f[k] <= Total(f)
<1>1. [f EXCEPT ![k] = 0] \in [D -> Nat]
  OBVIOUS
<1>2. Total([f EXCEPT ![k] = 0]) \in Nat /\ Total(f) \in Nat
  BY <1>1, TotalType
<1>3. Total([f EXCEPT ![k] = 0]) = Total(f) - f[k] + 0
  <2>1. f \in [D -> Int] /\ 0 \in Int
    OBVIOUS
  <2>. QED BY <2>1, TotalUpdate
<1>4. f[k] \in Nat
  OBVIOUS
<1>. QED BY <1>2, <1>3, <1>4

(* A sum may be taken apart at any entry. *)
LEMMA SumRemove ==
    ASSUME NEW D, IsFiniteSet(D), NEW f \in [D -> Int],
           NEW s \in SUBSET D, NEW x \in s
    PROVE  SumIter(f)[s] = f[x] + SumIter(f)[s \ {x}]
<1>. DEFINE F == SumIter(f)
            Removes(t) == \A y \in t : F[t] = f[y] + F[t \ {y}]
            N == {n \in Nat : \A t \in SUBSET D : Cardinality(t) = n => Removes(t)}
<1>1. SumsUp(F, D, f) /\ \A t \in SUBSET D : F[t] \in Int
  BY SumRecursion
<1>. HIDE DEF F
<1>2. \A t \in SUBSET D : IsFiniteSet(t) /\ Cardinality(t) \in Nat
  BY FS_Subset, FS_CardinalityType
<1>3. 0 \in N
  BY <1>2, FS_EmptySet
<1>4. ASSUME NEW n \in Nat, n \in N PROVE n + 1 \in N
  <2>. SUFFICES ASSUME NEW t \in SUBSET D, Cardinality(t) = n + 1, NEW y \in t
                PROVE  F[t] = f[y] + F[t \ {y}]
    OBVIOUS
  <2>. DEFINE z == First(t)
  <2>1. z \in t /\ F[t] = f[z] + F[t \ {z}]
    BY <1>1 DEF First, SumsUp
  <2>. HIDE DEF z
  <2>2. CASE y = z
    BY <2>1, <2>2
  <2>3. CASE y # z
    <3>1. Cardinality(t \ {z}) = n /\ Cardinality(t \ {y}) = n
      <4>1. Cardinality(t \ {z}) = Cardinality(t) - 1
            /\ Cardinality(t \ {y}) = Cardinality(t) - 1
        BY <1>2, <2>1, FS_RemoveElement
      <4>. QED BY <4>1
    <3>2. Removes(t \ {z}) /\ Removes(t \ {y})
      BY <1>4, <3>1
    <3>3. F[t \ {z}] = f[y] + F[(t \ {z}) \ {y}]
          /\ F[t \ {y}] = f[z] + F[(t \ {y}) \ {z}]
      BY <2>1, <2>3, <3>2
    <3>4. (t \ {z}) \ {y} = (t \ {y}) \ {z} /\ (t \ {y}) \ {z} \in SUBSET D
      OBVIOUS
    <3>5. /\ f[y] \in Int /\ f[z] \in Int /\ F[(t \ {y}) \ {z}] \in Int
      BY <1>1, <2>1, <3>4
    <3>6. /\ F[t] = f[z] + (f[y] + F[(t \ {y}) \ {z}])
          /\ F[t \ {y}] = f[z] + F[(t \ {y}) \ {z}]
      BY <2>1, <3>3, <3>4
    <3>. QED BY <3>5, <3>6
  <2>. QED BY <2>2, <2>3
<1>5. N = Nat
  <2>. HIDE DEF N
  <2>1. N \in SUBSET Nat BY DEF N
  <2>. QED BY <1>3, <1>4, <2>1, UpFromZero
<1>6. Removes(s)
  <2>1. Cardinality(s) \in N
    BY <1>2, <1>5
  <2>. QED BY <2>1
<1>7. F[s] = f[x] + F[s \ {x}]
  BY <1>6
<1>. QED BY <1>7 DEF F

LEMMA TotalSplit ==
    ASSUME NEW D, IsFiniteSet(D), NEW f \in [D -> Int], NEW x \in D,
           NEW E, \A y : y \in E <=> y \in D /\ y # x,
           NEW g \in [E -> Int], \A y \in E : g[y] = f[y]
    PROVE  Total(f) = f[x] + Total(g)
<1>. DEFINE F == SumIter(f)
            G == SumIter(g)
            Q == {s \in SUBSET E : G[s] = F[s]}
<1>1. IsFiniteSet(E) /\ E \in SUBSET D /\ E = D \ {x}
  BY FS_Subset
<1>2. Total(f) = F[D] /\ SumsUp(F, D, f) /\ \A s \in SUBSET D : F[s] \in Int
  BY SumRecursion
<1>3. Total(g) = G[E] /\ SumsUp(G, E, g)
  BY <1>1, SumRecursion
<1>4. F[D] = f[x] + F[E]
  BY <1>1, SumRemove
<1>. HIDE DEF F, G
<1>5. {} \in Q
  BY <1>2, <1>3 DEF SumsUp
<1>6. ASSUME NEW s \in SUBSET E, s # {}, s \ {First(s)} \in Q PROVE s \in Q
  <2>1. First(s) \in E /\ s \in SUBSET D
    BY <1>1, <1>6 DEF First
  <2>2. F[s] = f[First(s)] + F[s \ {First(s)}] /\ G[s] = g[First(s)] + G[s \ {First(s)}]
    BY <1>2, <1>3, <1>6, <2>1 DEF SumsUp
  <2>. QED BY <1>1, <1>6, <2>1, <2>2
<1>7. Q = SUBSET E
  <2>. HIDE DEF Q
  <2>1. Q \in SUBSET (SUBSET E) BY DEF Q
  <2>. QED BY <1>1, <1>5, <1>6, <2>1, SubsetInduction
<1>8. Total(g) = F[E]
  <2>1. E \in Q
    BY <1>7
  <2>. QED BY <1>3, <2>1
<1>. QED BY <1>2, <1>4, <1>8

LEMMA TotalWith ==
    ASSUME NEW E, IsFiniteSet(E), NEW x, x \notin E, NEW g \in [E \cup {x} -> Int],
           NEW h \in [E -> Int], \A y \in E : h[y] = g[y]
    PROVE  Total(g) = g[x] + Total(h)
<1>. DEFINE D == E \cup {x}
<1>1. IsFiniteSet(D) /\ g \in [D -> Int] /\ x \in D /\ \A y : y \in E <=> y \in D /\ y # x
  BY FS_AddElement
<1>. HIDE DEF D
<1>. QED BY <1>1, TotalSplit

(* One entry that may differ from zero is the total. *)
LEMMA TotalSingle ==
    ASSUME NEW D, IsFiniteSet(D), NEW f \in [D -> Int], NEW k \in D,
           \A x \in D : x # k => f[x] = 0
    PROVE  Total(f) = f[k]
<1>. DEFINE E == D \ {k}
            r == [x \in E |-> 0]
<1>1. IsFiniteSet(E)
  BY FS_Subset
<1>2. /\ \A y : y \in E <=> y \in D /\ y # k
      /\ r \in [E -> Int]
      /\ \A y \in E : r[y] = 0
      /\ \A y \in E : r[y] = f[y]
  OBVIOUS
<1>. HIDE DEF E, r
<1>3. Total(f) = f[k] + Total(r)
  BY <1>2, TotalSplit
<1>4. Total(r) = 0
  BY <1>1, <1>2, TotalZero
<1>5. f[k] \in Int
  OBVIOUS
<1>. QED BY <1>3, <1>4, <1>5

(* Larger entries, larger total. *)
LEMMA TotalMonotone ==
    ASSUME NEW D, IsFiniteSet(D), NEW f \in [D -> Int], NEW g \in [D -> Int],
           \A x \in D : f[x] <= g[x]
    PROVE  Total(f) <= Total(g)
<1>. DEFINE d == [x \in D |-> g[x] - f[x]]
<1>1. d \in [D -> Nat] /\ d \in [D -> Int]
  OBVIOUS
<1>2. g = [x \in D |-> f[x] + d[x]]
  <2>1. \A x \in D : g[x] = f[x] + d[x]
    OBVIOUS
  <2>. HIDE DEF d
  <2>. QED BY <2>1
<1>. HIDE DEF d
<1>3. Total(g) = Total(f) + Total(d)
  <2>1. Total([x \in D |-> f[x] + d[x]]) = Total(f) + Total(d)
    BY <1>1, TotalAdd
  <2>. QED BY <1>2, <2>1
<1>4. Total(d) \in Nat /\ Total(f) \in Int
  BY <1>1, TotalType, TotalInt
<1>. QED BY <1>3, <1>4

(* Who counts no more anywhere and as much in all counts the same everywhere. *)
LEMMA TotalDetermines ==
    ASSUME NEW D, IsFiniteSet(D), NEW f \in [D -> Nat], NEW g \in [D -> Nat],
           \A x \in D : f[x] <= g[x], Total(f) = Total(g)
    PROVE  f = g
<1>. DEFINE d == [x \in D |-> g[x] - f[x]]
<1>1. d \in [D -> Nat]
  OBVIOUS
<1>2. f \in [D -> Int] /\ g \in [D -> Int] /\ d \in [D -> Int]
  BY <1>1
<1>3. [x \in D |-> f[x] + d[x]] = g
  OBVIOUS
<1>4. \A x \in D : g[x] = f[x] + d[x]
  OBVIOUS
<1>. HIDE DEF d
<1>5. Total(g) = Total(f) + Total(d)
  <2>1. Total([x \in D |-> f[x] + d[x]]) = Total(f) + Total(d)
    BY <1>2, TotalAdd
  <2>. QED BY <1>3, <2>1
<1>6. Total(f) \in Int /\ Total(d) \in Int
  BY <1>2, TotalInt
<1>7. Total(d) = 0
  BY <1>5, <1>6
<1>8. ASSUME NEW x \in D PROVE f[x] = g[x]
  <2>1. d[x] <= 0
    BY <1>1, <1>7, TotalBoundsEntry
  <2>2. d[x] \in Nat
    BY <1>1
  <2>3. d[x] = 0
    BY <2>1, <2>2
  <2>. QED BY <1>4, <2>3
<1>. QED BY <1>8

(* What is nothing can be left out. *)
LEMMA TotalPart ==
    ASSUME NEW D, IsFiniteSet(D), NEW f \in [D -> Int],
           NEW E \in SUBSET D, \A x \in D \ E : f[x] = 0
    PROVE  Total(f) = Total([x \in E |-> f[x]])
<1>. DEFINE R == D \ E
            part(s) == [x \in E \cup s |-> f[x]]
            Q == {s \in SUBSET R : Total(part(s)) = Total(part({}))}
<1>1. {} \in Q
  OBVIOUS
<1>2. ASSUME NEW s \in SUBSET R, s # {}, s \ {First(s)} \in Q PROVE s \in Q
  <2>. DEFINE x == First(s)
              g == part(s)
  <2>1. x \in s /\ x \in R /\ x \notin E
    BY <1>2 DEF First
  <2>2. /\ IsFiniteSet(E \cup s) /\ g \in [E \cup s -> Int]
        /\ x \in E \cup s /\ g[x] = 0
    BY <2>1, FS_Subset
  <2>3. /\ (E \cup s) \ {x} = E \cup (s \ {x})
        /\ \A y \in E \cup (s \ {x}) : part(s \ {x})[y] = g[y]
    BY <2>1
  <2>4. part(s \ {x}) \in [E \cup (s \ {x}) -> Int] /\ IsFiniteSet(E \cup (s \ {x}))
    BY FS_Subset
  <2>. HIDE DEF part, g, x
  <2>5. Total(g) = g[x] + Total(part(s \ {x}))
    <3>. DEFINE A == E \cup s
                B == E \cup (s \ {x})
                h == part(s \ {x})
    <3>1. /\ IsFiniteSet(A) /\ g \in [A -> Int] /\ x \in A
          /\ \A y : y \in B <=> y \in A /\ y # x
          /\ h \in [B -> Int] /\ \A y \in B : h[y] = g[y]
      BY <2>2, <2>3, <2>4
    <3>. HIDE DEF A, B, h
    <3>2. Total(g) = g[x] + Total(h)
      BY <3>1, TotalSplit
    <3>. QED BY <3>2, Zenon DEF h
  <2>6. Total(part(s \ {x})) \in Int
    BY <2>4, TotalInt
  <2>7. Total(g) = Total(part(s \ {x}))
    BY <2>2, <2>5, <2>6
  <2>8. Total(part(s \ {x})) = Total(part({}))
    BY <1>2 DEF x
  <2>. QED BY <2>7, <2>8 DEF g
<1>3. IsFiniteSet(R)
  BY FS_Subset
<1>4. Q = SUBSET R
  <2>. HIDE DEF Q, R
  <2>1. Q \in SUBSET (SUBSET R) BY DEF Q
  <2>. QED BY <1>1, <1>2, <1>3, <2>1, SubsetInduction
<1>5. R \in Q
  BY <1>4
<1>6. part(R) = f /\ part({}) = [x \in E |-> f[x]]
  <2>1. E \cup R = D /\ E \cup {} = E
    OBVIOUS
  <2>2. part(R) = [x \in D |-> f[x]]
    BY <2>1
  <2>3. f = [x \in D |-> f[x]]
    OBVIOUS
  <2>. QED BY <2>1, <2>2, <2>3
<1>. QED BY <1>5, <1>6

-----------------------------------------------------------------------------
(* Sums over lists. *)

(* The sum of the first n entries of a list. *)
Upto(f, n) == Total([i \in 1..n |-> f[i]])

LEMMA UptoNone == ASSUME NEW f PROVE Upto(f, 0) = 0
<1>. DEFINE D == 1..0
            e == [i \in D |-> f[i]]
<1>1. D = {}
  OBVIOUS
<1>2. IsFiniteSet(D)
  BY <1>1, FS_EmptySet
<1>3. e \in [D -> Int] /\ \A x \in D : e[x] = 0
  BY <1>1
<1>4. Upto(f, 0) = Total(e)
  BY DEF Upto
<1>. HIDE DEF e, D
<1>. QED BY <1>2, <1>3, <1>4, TotalZero

LEMMA UptoInt ==
    ASSUME NEW n \in Nat, NEW f \in [1..n -> Int], NEW k \in 0..n
    PROVE  Upto(f, k) \in Int
<1>1. [i \in 1..k |-> f[i]] \in [1..k -> Int] /\ IsFiniteSet(1..k)
  BY FS_Interval
<1>. QED BY <1>1, TotalInt DEF Upto

LEMMA UptoNext ==
    ASSUME NEW f, NEW k \in Nat, \A i \in 1..(k + 1) : f[i] \in Int
    PROVE  Upto(f, k + 1) = f[k + 1] + Upto(f, k)
<1>. DEFINE E == 1..k
            x == k + 1
            g == [i \in 1..(k + 1) |-> f[i]]
            h == [i \in E |-> f[i]]
<1>1. IsFiniteSet(E)
  BY FS_Interval
<1>2. x \notin E /\ E \cup {x} = 1..(k + 1)
  OBVIOUS
<1>3. g \in [E \cup {x} -> Int]
  BY <1>2
<1>4. h \in [E -> Int] /\ \A y \in E : h[y] = g[y]
  OBVIOUS
<1>5. g[x] = f[k + 1] /\ Upto(f, k + 1) = Total(g) /\ Upto(f, k) = Total(h)
  BY DEF Upto
<1>. HIDE DEF E, x, g, h
<1>6. Total(g) = g[x] + Total(h)
  BY <1>1, <1>2, <1>3, <1>4, TotalWith
<1>. QED BY <1>5, <1>6

LEMMA UptoStep ==
    ASSUME NEW n \in Nat, NEW f \in [1..n -> Int], NEW k \in Nat, k + 1 <= n
    PROVE  /\ Upto(f, 0) = 0
           /\ Upto(f, k + 1) = Upto(f, k) + f[k + 1]
<1>1. Upto(f, 0) = 0
  BY UptoNone
<1>2. Upto(f, k + 1) = f[k + 1] + Upto(f, k)
  <2>1. \A i \in 1..(k + 1) : f[i] \in Int
    OBVIOUS
  <2>. QED BY <2>1, UptoNext
<1>3. Upto(f, k) \in Int /\ f[k + 1] \in Int
  BY UptoInt
<1>. QED BY <1>1, <1>2, <1>3

LEMMA UptoAll ==
    ASSUME NEW n \in Nat, NEW f \in [1..n -> Int]
    PROVE  Upto(f, n) = Total(f)
<1>1. f = [i \in 1..n |-> f[i]]
  OBVIOUS
<1>. QED BY <1>1 DEF Upto

(* No part of a list of naturals sums up to more than all of it. *)
LEMMA UptoBelowTotal ==
    ASSUME NEW n \in Nat, NEW f \in [1..n -> Nat], NEW k \in 0..n
    PROVE  Upto(f, k) <= Total(f)
<1>. DEFINE Good == {m \in Nat : k + m <= n => Upto(f, k) <= Upto(f, k + m)}
<1>1. f \in [1..n -> Int] /\ \A m \in 0..n : Upto(f, m) \in Int
  <2>1. f \in [1..n -> Int]
    OBVIOUS
  <2>. QED BY <2>1, UptoInt
<1>2. 0 \in Good
  BY <1>1
<1>3. ASSUME NEW m \in Nat, m \in Good PROVE m + 1 \in Good
  <2>. SUFFICES ASSUME k + (m + 1) <= n PROVE Upto(f, k) <= Upto(f, k + (m + 1))
    OBVIOUS
  <2>1. k + m \in Nat /\ (k + m) + 1 = k + (m + 1) /\ (k + m) + 1 <= n
        /\ k + m \in 0..n
    OBVIOUS
  <2>2. Upto(f, (k + m) + 1) = Upto(f, k + m) + f[(k + m) + 1]
    BY <1>1, <2>1, UptoStep
  <2>3. f[(k + m) + 1] \in Nat
    BY <2>1
  <2>4. Upto(f, k) <= Upto(f, k + m)
    BY <1>3, <2>1
  <2>5. Upto(f, k) \in Int /\ Upto(f, k + m) \in Int
    BY <1>1, <2>1
  <2>. QED BY <2>1, <2>2, <2>3, <2>4, <2>5
<1>4. Good = Nat
  <2>. HIDE DEF Good
  <2>1. Good \in SUBSET Nat BY DEF Good
  <2>. QED BY <1>2, <1>3, <2>1, UpFromZero
<1>5. n - k \in Nat /\ k + (n - k) = n
  OBVIOUS
<1>6. Upto(f, k) <= Upto(f, n)
  <2>1. n - k \in Good
    BY <1>4, <1>5
  <2>. QED BY <1>5, <2>1
<1>. QED BY <1>1, <1>6, UptoAll

(* The first entry of a list and the sum of the rest. *)
LEMMA TotalOfTail ==
    ASSUME NEW n \in Nat, n # 0, NEW f \in [1..n -> Int]
    PROVE  Total(f) = f[1] + Total([i \in 1..(n - 1) |-> f[i + 1]])
<1>. DEFINE r == [i \in 1..(n - 1) |-> f[i + 1]]
            Good == {k \in Nat : k + 1 <= n => Upto(f, k + 1) = f[1] + Upto(r, k)}
<1>1. n - 1 \in Nat /\ r \in [1..(n - 1) -> Int]
      /\ \A i \in 1..(n - 1) : r[i] = f[i + 1]
  OBVIOUS
<1>. HIDE DEF r
<1>2. f[1] \in Int
  OBVIOUS
<1>3. Upto(f, 0) = 0 /\ Upto(f, 0 + 1) = Upto(f, 0) + f[0 + 1]
  BY UptoStep
<1>4. Upto(r, 0) = 0
  BY UptoNone
<1>5. 0 \in Good
  BY <1>2, <1>3, <1>4
<1>6. ASSUME NEW k \in Nat, k \in Good PROVE k + 1 \in Good
  <2>. SUFFICES ASSUME (k + 1) + 1 <= n
                PROVE  Upto(f, (k + 1) + 1) = f[1] + Upto(r, k + 1)
    OBVIOUS
  <2>1. Upto(f, (k + 1) + 1) = Upto(f, k + 1) + f[(k + 1) + 1]
    <3>1. k + 1 \in Nat
      OBVIOUS
    <3>. QED BY <3>1, UptoStep
  <2>2. Upto(r, k + 1) = Upto(r, k) + r[k + 1]
    <3>1. k + 1 <= n - 1
      OBVIOUS
    <3>. QED BY <1>1, <3>1, UptoStep
  <2>3. r[k + 1] = f[(k + 1) + 1]
    <3>1. k + 1 \in 1..(n - 1)
      OBVIOUS
    <3>. QED BY <1>1, <3>1
  <2>4. Upto(f, k + 1) = f[1] + Upto(r, k)
    BY <1>6
  <2>5. Upto(r, k) \in Int /\ f[(k + 1) + 1] \in Int
    <3>1. k \in 0..(n - 1) /\ (k + 1) + 1 \in 1..n
      OBVIOUS
    <3>. QED BY <1>1, <3>1, UptoInt
  <2>. QED BY <1>2, <2>1, <2>2, <2>3, <2>4, <2>5
<1>7. Good = Nat
  <2>. HIDE DEF Good
  <2>1. Good \in SUBSET Nat BY DEF Good
  <2>. QED BY <1>5, <1>6, <2>1, UpFromZero
<1>8. (n - 1) + 1 = n
  OBVIOUS
<1>9. Upto(f, n) = f[1] + Upto(r, n - 1)
  <2>1. n - 1 \in Good
    BY <1>1, <1>7
  <2>. QED BY <1>8, <2>1
<1>10. Total(f) = f[1] + Total(r)
  BY <1>1, <1>9, UptoAll
<1>. QED BY <1>10 DEF r

-----------------------------------------------------------------------------
(* Folds and sums. *)

(* Each step adds to a measure m of the storage what d says of its element. *)
Adds(S, B, step, m, d) ==
    \A s \in S, b \in B : step[s][b] # Failed => m[step[s][b]] = m[s] + d[b]

(* The sum over a list of what d says of its elements. *)
SumOver(d, list) == Total([i \in DOMAIN list |-> d[list[i]]])

(* Then the fold adds the sum over the list. *)
LEMMA FoldSums ==
    ASSUME NEW S, NEW B, NEW step, StaysIn(S, B, step),
           NEW m \in [S -> Int], NEW d \in [B -> Int], Adds(S, B, step, m, d),
           NEW storage \in S, NEW list \in Seq(B),
           ListFold(step, storage, list) # Failed
    PROVE  /\ ListFold(step, storage, list) \in S
           /\ m[ListFold(step, storage, list)]
                 = m[storage] + SumOver(d, list)
<1>. DEFINE after(i) == After(step, storage, list, i)
            f == [i \in DOMAIN list |-> d[list[i]]]
            Good == {i \in Nat : i <= Len(list) =>
                       \/ after(i) = Failed
                       \/ after(i) \in S /\ m[after(i)] = m[storage] + Upto(f, i)}
<1>1. /\ ListFold(step, storage, list) = after(Len(list))
      /\ after(0) = storage
      /\ \A i \in 1..Len(list) :
            after(i) = IF after(i-1) = Failed THEN Failed
                       ELSE step[after(i-1)][list[i]]
  BY FoldPrefixes
<1>. HIDE DEF after
<1>2. /\ Len(list) \in Nat /\ DOMAIN list = 1..Len(list)
      /\ \A i \in 1..Len(list) : list[i] \in B
  OBVIOUS
<1>3. f \in [1..Len(list) -> Int] /\ \A i \in 1..Len(list) : f[i] = d[list[i]]
  BY <1>2
<1>. HIDE DEF f
<1>4. 0 \in Good
  <2>1. m[storage] = m[storage] + Upto(f, 0)
    BY UptoNone
  <2>. QED BY <1>1, <2>1
<1>5. ASSUME NEW n \in Nat, n \in Good PROVE n + 1 \in Good
  <2>. SUFFICES ASSUME n + 1 <= Len(list), after(n + 1) # Failed
                PROVE  /\ after(n + 1) \in S
                       /\ m[after(n + 1)] = m[storage] + Upto(f, n + 1)
    OBVIOUS
  <2>1. n + 1 \in 1..Len(list) /\ (n + 1) - 1 = n /\ n \in 0..Len(list)
    BY <1>2
  <2>2. after(n) # Failed /\ after(n + 1) = step[after(n)][list[n + 1]]
    BY <1>1, <2>1
  <2>3. after(n) \in S /\ m[after(n)] = m[storage] + Upto(f, n)
    BY <1>5, <2>1, <2>2
  <2>4. after(n + 1) \in S /\ m[after(n + 1)] = m[after(n)] + f[n + 1]
    BY <1>2, <1>3, <2>1, <2>2, <2>3 DEF StaysIn, Adds
  <2>5. Upto(f, n + 1) = Upto(f, n) + f[n + 1]
    BY <1>2, <1>3, UptoStep
  <2>6. Upto(f, n) \in Int /\ f[n + 1] \in Int /\ m[storage] \in Int
    BY <1>2, <1>3, <2>1, UptoInt
  <2>. QED BY <2>3, <2>4, <2>5, <2>6
<1>6. Good = Nat
  <2>. HIDE DEF Good
  <2>1. Good \in SUBSET Nat BY DEF Good
  <2>. QED BY <1>4, <1>5, <2>1, UpFromZero
<1>7. /\ after(Len(list)) \in S
      /\ m[after(Len(list))] = m[storage] + Upto(f, Len(list))
  <2>1. Len(list) \in Good
    BY <1>2, <1>6
  <2>. QED BY <1>1, <1>2, <2>1
<1>8. Upto(f, Len(list)) = Total(f)
  BY <1>2, <1>3, UptoAll
<1>. QED BY <1>1, <1>7, <1>8 DEF f, SumOver

(* A step succeeds if its element's cost in each of the currencies K can be *)
(* afforded, and takes no more than that.                                  *)
Affordable(S, B, step, K, m, cost) ==
    \A s \in S, b \in B : (\A k \in K : cost[k][b] <= m[k][s]) =>
        /\ step[s][b] # Failed
        /\ \A k \in K : m[k][step[s][b]] >= m[k][s] - cost[k][b]

(* Then the fold succeeds if the whole list can be afforded, and takes no   *)
(* more than its sum.                                                      *)
LEMMA FoldAffords ==
    ASSUME NEW S, Failed \notin S, NEW B, NEW step, StaysIn(S, B, step),
           NEW K, NEW m \in [K -> [S -> Int]], NEW cost \in [K -> [B -> Nat]],
           Affordable(S, B, step, K, m, cost),
           NEW storage \in S, NEW list \in Seq(B),
           \A k \in K : SumOver(cost[k], list) <= m[k][storage]
    PROVE  /\ ListFold(step, storage, list) \in S
           /\ \A k \in K : m[k][ListFold(step, storage, list)] >=
                 m[k][storage] - SumOver(cost[k], list)
<1>. DEFINE after(i) == After(step, storage, list, i)
            f(k) == [i \in DOMAIN list |-> cost[k][list[i]]]
            Good == {i \in Nat : i <= Len(list) =>
                       /\ after(i) \in S
                       /\ \A k \in K : m[k][after(i)] >= m[k][storage] - Upto(f(k), i)}
<1>1. /\ ListFold(step, storage, list) = after(Len(list))
      /\ after(0) = storage
      /\ \A i \in 1..Len(list) :
            after(i) = IF after(i-1) = Failed THEN Failed
                       ELSE step[after(i-1)][list[i]]
  BY FoldPrefixes
<1>. HIDE DEF after
<1>2. /\ Len(list) \in Nat /\ DOMAIN list = 1..Len(list)
      /\ \A i \in 1..Len(list) : list[i] \in B
  OBVIOUS
<1>3. \A k \in K : /\ f(k) \in [1..Len(list) -> Nat]
                   /\ \A i \in 1..Len(list) : f(k)[i] = cost[k][list[i]]
                   /\ Total(f(k)) <= m[k][storage]
  BY <1>2 DEF SumOver
<1>. HIDE DEF f
<1>4. \A k \in K, i \in 0..Len(list) :
         /\ Upto(f(k), i) \in Int /\ Upto(f(k), i) <= Total(f(k))
         /\ Total(f(k)) \in Int
  <2>1. \A k \in K : f(k) \in [1..Len(list) -> Int] /\ IsFiniteSet(1..Len(list))
    BY <1>2, <1>3, FS_Interval
  <2>. QED BY <1>2, <1>3, <2>1, UptoInt, UptoBelowTotal, TotalInt
<1>5. 0 \in Good
  <2>1. \A k \in K : m[k][storage] >= m[k][storage] - Upto(f(k), 0)
    <3>. SUFFICES ASSUME NEW k \in K
                  PROVE  m[k][storage] >= m[k][storage] - Upto(f(k), 0)
      OBVIOUS
    <3>1. Upto(f(k), 0) = 0 /\ m[k][storage] \in Int
      BY UptoNone
    <3>. QED BY <3>1
  <2>. QED BY <1>1, <2>1
<1>6. ASSUME NEW n \in Nat, n \in Good PROVE n + 1 \in Good
  <2>. SUFFICES ASSUME n + 1 <= Len(list)
                PROVE  /\ after(n + 1) \in S
                       /\ \A k \in K : m[k][after(n + 1)] >=
                                          m[k][storage] - Upto(f(k), n + 1)
    OBVIOUS
  <2>1. n + 1 \in 1..Len(list) /\ (n + 1) - 1 = n /\ n \in 0..Len(list)
        /\ n + 1 \in 0..Len(list) /\ list[n + 1] \in B
    BY <1>2
  <2>2. /\ after(n) \in S /\ after(n) # Failed
        /\ after(n + 1) = step[after(n)][list[n + 1]]
        /\ \A k \in K : m[k][after(n)] >= m[k][storage] - Upto(f(k), n)
    BY <1>1, <1>6, <2>1
  <2>3. ASSUME NEW k \in K
        PROVE  /\ Upto(f(k), n + 1) = Upto(f(k), n) + cost[k][list[n + 1]]
               /\ cost[k][list[n + 1]] <= m[k][after(n)]
               /\ Upto(f(k), n) \in Int /\ cost[k][list[n + 1]] \in Nat
               /\ m[k][storage] \in Int /\ m[k][after(n)] \in Int
    <3>1. f(k) \in [1..Len(list) -> Int] /\ f(k)[n + 1] = cost[k][list[n + 1]]
      BY <1>3, <2>1
    <3>2. Upto(f(k), n + 1) = Upto(f(k), n) + cost[k][list[n + 1]]
      BY <1>2, <3>1, UptoStep
    <3>3. /\ Upto(f(k), n) \in Int /\ Upto(f(k), n + 1) \in Int
          /\ Upto(f(k), n + 1) <= Total(f(k)) /\ Total(f(k)) \in Int
      BY <1>4, <2>1
    <3>4. /\ cost[k][list[n + 1]] \in Nat /\ m[k][storage] \in Int
          /\ m[k][after(n)] \in Int
      BY <2>1, <2>2
    <3>5. Total(f(k)) <= m[k][storage] /\ m[k][after(n)] >= m[k][storage] - Upto(f(k), n)
      BY <1>3, <2>2
    <3>. QED BY <3>2, <3>3, <3>4, <3>5
  <2>4. /\ after(n + 1) # Failed
        /\ \A k \in K : m[k][after(n + 1)] >= m[k][after(n)] - cost[k][list[n + 1]]
    BY <2>1, <2>2, <2>3 DEF Affordable
  <2>5. after(n + 1) \in S
    BY <2>1, <2>2, <2>4 DEF StaysIn
  <2>6. \A k \in K : m[k][after(n + 1)] \in Int
    BY <2>5
  <2>7. ASSUME NEW k \in K
        PROVE  m[k][after(n + 1)] >= m[k][storage] - Upto(f(k), n + 1)
    BY <2>2, <2>3, <2>4, <2>6
  <2>. QED BY <2>5, <2>7
<1>7. Good = Nat
  <2>. HIDE DEF Good
  <2>1. Good \in SUBSET Nat BY DEF Good
  <2>. QED BY <1>5, <1>6, <2>1, UpFromZero
<1>8. /\ after(Len(list)) \in S
      /\ \A k \in K : m[k][after(Len(list))] >= m[k][storage] - Upto(f(k), Len(list))
  <2>1. Len(list) \in Good
    BY <1>2, <1>7
  <2>. QED BY <1>2, <2>1
<1>9. \A k \in K : Upto(f(k), Len(list)) = Total(f(k))
  <2>1. \A k \in K : f(k) \in [1..Len(list) -> Int]
    BY <1>3
  <2>. QED BY <1>2, <2>1, UptoAll
<1>. QED BY <1>1, <1>8, <1>9 DEF f, SumOver

(* Sums over lists: of none, of a first element and the rest, their type.   *)
LEMMA SumOverNone == ASSUME NEW d PROVE SumOver(d, <<>>) = 0
<1>. DEFINE f == [i \in DOMAIN <<>> |-> d[<<>>[i]]]
<1>1. DOMAIN <<>> = {} /\ IsFiniteSet({})
  BY FS_EmptySet
<1>2. f \in [{} -> Int] /\ \A x \in {} : f[x] = 0
  BY <1>1
<1>3. SumOver(d, <<>>) = Total(f)
  BY DEF SumOver
<1>. HIDE DEF f
<1>. QED BY <1>1, <1>2, <1>3, TotalZero

LEMMA SumOverType ==
    ASSUME NEW B, NEW d \in [B -> Int], NEW list \in Seq(B)
    PROVE  /\ SumOver(d, list) \in Int
           /\ (\A b \in B : d[b] \in Nat) => SumOver(d, list) \in Nat
<1>. DEFINE f == [i \in DOMAIN list |-> d[list[i]]]
<1>1. /\ Len(list) \in Nat /\ DOMAIN list = 1..Len(list)
      /\ \A i \in 1..Len(list) : list[i] \in B
  OBVIOUS
<1>2. f \in [1..Len(list) -> Int]
  BY <1>1
<1>3. ASSUME \A b \in B : d[b] \in Nat PROVE f \in [1..Len(list) -> Nat]
  BY <1>1, <1>3
<1>4. IsFiniteSet(1..Len(list))
  BY <1>1, FS_Interval
<1>5. SumOver(d, list) = Total(f)
  BY DEF SumOver
<1>. HIDE DEF f
<1>. QED BY <1>2, <1>3, <1>4, <1>5, TotalInt, TotalType

LEMMA SumOverTail ==
    ASSUME NEW B, NEW d \in [B -> Int], NEW list \in Seq(B), list # <<>>
    PROVE  SumOver(d, list) = d[Head(list)] + SumOver(d, Tail(list))
<1>. DEFINE n == Len(list)
            f == [i \in DOMAIN list |-> d[list[i]]]
            r == [i \in DOMAIN Tail(list) |-> d[Tail(list)[i]]]
<1>1. /\ n \in Nat /\ n # 0 /\ DOMAIN list = 1..n /\ 1 \in 1..n
      /\ \A i \in 1..n : list[i] \in B
      /\ Head(list) = list[1]
  OBVIOUS
<1>2. /\ DOMAIN Tail(list) = 1..(n - 1)
      /\ \A i \in 1..(n - 1) : Tail(list)[i] = list[i + 1]
  <2>1. Tail(list) \in Seq(B) /\ Len(Tail(list)) = n - 1
    BY <1>1, HeadTailProperties
  <2>. QED BY <1>1, <2>1
<1>3. f \in [1..n -> Int] /\ f[1] = d[Head(list)]
  BY <1>1
<1>4. r = [i \in 1..(n - 1) |-> f[i + 1]]
  <2>1. \A i \in 1..(n - 1) : i + 1 \in 1..n /\ f[i + 1] = d[list[i + 1]]
    BY <1>1
  <2>. HIDE DEF f
  <2>. QED BY <1>2, <2>1
<1>5. SumOver(d, list) = Total(f) /\ SumOver(d, Tail(list)) = Total(r)
  BY DEF SumOver
<1>. HIDE DEF f, r, n
<1>. QED BY <1>1, <1>3, <1>4, <1>5, TotalOfTail

-----------------------------------------------------------------------------
(* UpdateBalance, on a ledger whose keys are pairs of an owner and a token. *)

(* An update lowers no entry but its own, and that only by a debit. *)
LEMMA UpdateSparesOthers ==
    ASSUME NEW D, NEW l \in [D -> Nat], NEW x \in D, NEW y \in D, NEW d \in Int,
           l[x] + d >= 0, x # y \/ d >= 0
    PROVE  /\ UpdateBalance(x, d, l) \in [D -> Nat]
           /\ UpdateBalance(x, d, l)[y] >= l[y]
<1>. DEFINE m == UpdateBalance(x, d, l)
<1>1. l[x] \in Nat /\ l[y] \in Nat /\ l[x] + d \in Nat
  OBVIOUS
<1>2. m = [l EXCEPT ![x] = @ + d]
  BY <1>1 DEF UpdateBalance
<1>3. m \in [D -> Nat]
  BY <1>1, <1>2
<1>4. m[y] = IF x = y THEN l[x] + d ELSE l[y]
  BY <1>2
<1>5. m[y] >= l[y]
  <2>1. CASE x = y
    BY <1>1, <1>4, <2>1
  <2>2. CASE x # y
    BY <1>1, <1>4, <2>2
  <2>. QED BY <2>1, <2>2
<1>. QED BY <1>3, <1>5

(* Moving credits from one entry to another lowers no third one. *)
LEMMA MoveSparesOthers ==
    ASSUME NEW D, NEW l \in [D -> Nat], NEW from \in D, NEW to \in D,
           NEW x \in D, from # x, NEW n \in Nat,
           UpdateBalance(from, -n, UpdateBalance(to, n, l)) # Failed
    PROVE  /\ UpdateBalance(from, -n, UpdateBalance(to, n, l)) \in [D -> Nat]
           /\ UpdateBalance(from, -n, UpdateBalance(to, n, l))[x] >= l[x]
<1>. DEFINE mid == UpdateBalance(to, n, l)
            end == UpdateBalance(from, -n, mid)
<1>1. mid \in [D -> Nat] /\ mid[x] >= l[x]
  <2>1. n \in Int /\ n >= 0 /\ l[to] + n >= 0
    OBVIOUS
  <2>. QED BY <2>1, UpdateSparesOthers
<1>2. end # Failed
  OBVIOUS
<1>. HIDE DEF mid
<1>3. end \in [D -> Nat] /\ end[x] >= mid[x]
  <2>1. mid[from] + (-n) >= 0 /\ -n \in Int
    BY <1>1, <1>2 DEF UpdateBalance
  <2>. QED BY <1>1, <2>1, UpdateSparesOthers
<1>. HIDE DEF end
<1>4. end[x] >= l[x]
  <2>1. l[x] \in Nat /\ mid[x] \in Nat /\ end[x] \in Nat
    BY <1>1, <1>3
  <2>. QED BY <1>1, <1>3, <2>1
<1>5. end \in [D -> Nat] /\ end[x] >= l[x]
  BY <1>3, <1>4
<1>. QED BY <1>5 DEF end, mid

LEMMA ColumnType ==
    ASSUME NEW D, IsFiniteSet(D), NEW T, NEW l \in [D \X T -> Nat], NEW t \in T
    PROVE  /\ Column(D, l, t) \in [D -> Nat]
           /\ Total(Column(D, l, t)) \in Nat
<1>1. Column(D, l, t) \in [D -> Nat]
  BY DEF Column
<1>. QED BY <1>1, TotalType

(* m has d more of t than l, in all, and as much of everything else. *)
Shifts(D, T, l, m, t, d) ==
    /\ m \in [D \X T -> Nat]
    /\ \A u \in T : Total(Column(D, m, u)) =
                       Total(Column(D, l, u)) + IF u = t THEN d ELSE 0

(* A change of one balance changes its column by as much, and no other.    *)
LEMMA ColumnUpdate ==
    ASSUME NEW D, IsFiniteSet(D), NEW T, NEW l \in [D \X T -> Nat],
           NEW k \in D, NEW t \in T, NEW key, key = <<k, t>>,
           NEW v \in Nat, NEW m, m = [l EXCEPT ![key] = v]
    PROVE  Shifts(D, T, l, m, t, v - l[key])
<1>. SUFFICES ASSUME NEW u \in T
              PROVE  Total(Column(D, m, u)) =
                        Total(Column(D, l, u)) + IF u = t THEN v - l[key] ELSE 0
  BY DEF Shifts
<1>. DEFINE f == Column(D, l, u)
<1>1. m \in [D \X T -> Nat] /\ f \in [D -> Nat] /\ Total(f) \in Nat
  BY ColumnType
<1>2. CASE u = t
  <2>1. Column(D, m, u) = [f EXCEPT ![k] = v]
    BY <1>2 DEF Column
  <2>2. f[k] = l[key] /\ l[key] \in Nat
    BY <1>2 DEF Column
  <2>3. Total([f EXCEPT ![k] = v]) = Total(f) - f[k] + v
    <3>1. f \in [D -> Int]
      BY <1>1
    <3>. HIDE DEF f
    <3>2. \A x \in D, w \in Int : Total([f EXCEPT ![x] = w]) = Total(f) - f[x] + w
      BY <3>1, TotalUpdate
    <3>. QED BY <3>2
  <2>. HIDE DEF f
  <2>4. Total(Column(D, m, u)) = Total(f) + (v - l[key])
    BY <1>1, <2>1, <2>2, <2>3
  <2>. QED BY <1>2, <2>4 DEF f
<1>3. CASE u # t
  <2>1. Column(D, m, u) = f
    BY <1>3 DEF Column
  <2>. HIDE DEF f
  <2>2. Total(Column(D, m, u)) = Total(f) + 0
    BY <1>1, <2>1
  <2>. QED BY <1>3, <2>2 DEF f
<1>. QED BY <1>2, <1>3

(* An update_balance that does not fail shifts the ledger by its amount. *)
LEMMA BalanceShift ==
    ASSUME NEW D, IsFiniteSet(D), NEW T, NEW l \in [D \X T -> Nat],
           NEW k \in D, NEW t \in T, NEW d \in Int,
           l[<<k, t>>] + d >= 0
    PROVE  Shifts(D, T, l, UpdateBalance(<<k, t>>, d, l), t, d)
<1>. DEFINE key == <<k, t>>
            v == l[key] + d
            m == [l EXCEPT ![key] = v]
<1>1. UpdateBalance(key, d, l) = m
  BY DEF UpdateBalance
<1>2. v \in Nat /\ v - l[key] = d /\ key = <<k, t>>
  OBVIOUS
<1>3. m = [l EXCEPT ![key] = v]
  OBVIOUS
<1>. HIDE DEF v, key, m
<1>4. Shifts(D, T, l, m, t, v - l[key])
  BY <1>2, <1>3, ColumnUpdate
<1>. QED BY <1>1, <1>2, <1>4 DEF key

(* Both entrypoints that move credits from one owner to another: crediting  *)
(* first and debiting then leaves every total alone.                       *)
LEMMA MoveKeepsTotals ==
    ASSUME NEW D, IsFiniteSet(D), NEW T, NEW l \in [D \X T -> Nat],
           NEW from \in D, NEW to \in D, NEW t \in T, NEW n \in Nat,
           UpdateBalance(<<from, t>>, -n, UpdateBalance(<<to, t>>, n, l)) # Failed
    PROVE  Shifts(D, T, l,
              UpdateBalance(<<from, t>>, -n, UpdateBalance(<<to, t>>, n, l)), t, 0)
<1>. DEFINE mid == UpdateBalance(<<to, t>>, n, l)
            end == UpdateBalance(<<from, t>>, -n, mid)
<1>1. Shifts(D, T, l, mid, t, n)
  <2>1. l[<<to, t>>] + n >= 0 /\ n \in Int
    OBVIOUS
  <2>. QED BY <2>1, BalanceShift
<1>2. mid \in [D \X T -> Nat]
  BY <1>1 DEF Shifts
<1>3. end # Failed
  OBVIOUS
<1>. HIDE DEF mid
<1>4. Shifts(D, T, mid, end, t, -n)
  <2>1. mid[<<from, t>>] + (-n) >= 0 /\ -n \in Int
    BY <1>2, <1>3 DEF UpdateBalance
  <2>. QED BY <1>2, <2>1, BalanceShift
<1>5. \A u \in T : Total(Column(D, l, u)) \in Nat
  BY ColumnType
<1>. HIDE DEF end
<1>6. Shifts(D, T, l, end, t, 0)
  BY <1>1, <1>4, <1>5 DEF Shifts
<1>. QED BY <1>6 DEF end, mid

(* What a caller sends is a sequence. *)
LEMMA BatchesAreSequences ==
    ASSUME NEW S, NEW list \in Batches(S)
    PROVE  list \in Seq(S)
<1>1. PICK n \in 0..MaxBatch : list \in [1..n -> S]
  BY DEF Batches, SeqOf
<1>2. n \in Nat
  BY BalancesAssumption
<1>. QED BY <1>1, <1>2, SeqDef

(* A list of which every element is of the kind. *)
LEMMA ListOf ==
    ASSUME NEW S, NEW R, NEW list \in Seq(S), \A i \in DOMAIN list : list[i] \in R
    PROVE  list \in Seq(R)
<1>1. Len(list) \in Nat /\ list \in [1..Len(list) -> R]
  OBVIOUS
<1>. QED BY <1>1, SeqDef

LEMMA SeqMonotone ==
    ASSUME NEW S, NEW R, S \subseteq R, NEW list \in Seq(S)
    PROVE  list \in Seq(R)
<1>1. PICK n \in Nat : list \in [1..n -> S]
  BY SeqDef
<1>2. list \in [1..n -> R]
  BY <1>1
<1>. QED BY <1>2, SeqDef

-----------------------------------------------------------------------------
(* What an answer about a big map says. *)

Maps(keys, values) == UNION {[K -> values] : K \in SUBSET keys}

(* After each of len blocks, what there is for each key. *)
Histories(len, Keys) == [1..len -> [Keys -> Nat]]

LEMMA LastSetIsSet ==
    ASSUME NEW Keys, NEW len \in Nat \ {0}, NEW amounts \in Histories(len, Keys),
           NEW k \in Keys, NEW n \in 1..len, amounts[n][k] # 0
    PROVE  LastSet(amounts, k) \in 1..len /\ amounts[LastSet(amounts, k)][k] # 0
<1>. DEFINE Q == {m \in DOMAIN amounts : amounts[m][k] # 0}
<1>1. DOMAIN amounts = 1..len
  BY DEF Histories
<1>2. Q \in SUBSET (1..len) /\ Q # {} /\ len \in Nat
  BY <1>1
<1>3. Max(Q) \in Q
  <2>. HIDE DEF Q
  <2>. QED BY <1>2, MaxOfSubset
<1>. QED BY <1>1, <1>3 DEF LastSet

LEMMA LastSetIsLast ==
    ASSUME NEW Keys, NEW len \in Nat \ {0}, NEW amounts \in Histories(len, Keys),
           NEW k \in Keys, amounts[len][k] # 0
    PROVE  LastSet(amounts, k) = len
<1>. DEFINE Q == {m \in DOMAIN amounts : amounts[m][k] # 0}
<1>1. DOMAIN amounts = 1..len
  BY DEF Histories
<1>2. len \in Q /\ Q \subseteq 1..len
  BY <1>1
<1>3. Max(Q) = len
  <2>1. \A y \in Q : len >= y
    BY <1>2
  <2>2. \A x \in Q : (\A y \in Q : x >= y) => x = len
    BY <1>2
  <2>. HIDE DEF Q
  <2>. QED BY <1>2, <2>1, <2>2 DEF Max
<1>. QED BY <1>3 DEF LastSet

(* The item for a key that was set at some time. *)
Item(amounts, k) == [key |-> k, value |-> amounts[LastSet(amounts, k)][k],
                     active |-> amounts[Len(amounts)][k] # 0]

EverSet(amounts, Keys) == {k \in Keys : \E n \in DOMAIN amounts : amounts[n][k] # 0}

ItemsFor(amounts, K) == {Item(amounts, k) : k \in K}

LEMMA ItemsAre ==
    ASSUME NEW amounts, NEW Keys
    PROVE  BigMapItems(amounts, Keys) = ItemsFor(amounts, EverSet(amounts, Keys))
BY DEF BigMapItems, Item, EverSet, ItemsFor

(* A decoded big map: the keys are those of the items, with their values.  *)
LEMMA MapOfItems ==
    ASSUME NEW amounts, NEW K, NEW items, items = ItemsFor(amounts, K),
           NEW map, map = AsMap(items)
    PROVE  DOMAIN map = K /\ \A k \in K : map[k] = amounts[LastSet(amounts, k)][k]
<1>1. \A k \in K : Item(amounts, k) \in items /\ Item(amounts, k).key = k
  BY DEF Item, ItemsFor
<1>2. \A i \in items : i.key \in K /\ i = Item(amounts, i.key)
  BY DEF Item, ItemsFor
<1>3. {i.key : i \in items} = K
  BY <1>1, <1>2
<1>4. map = [k \in K |-> (CHOOSE i \in items : i.key = k).value]
  BY <1>3 DEF AsMap
<1>5. ASSUME NEW k \in K PROVE map[k] = amounts[LastSet(amounts, k)][k]
  <2>1. \E i \in items : i.key = k
    BY <1>1
  <2>2. (CHOOSE i \in items : i.key = k) \in items /\ (CHOOSE i \in items : i.key = k).key = k
    BY <2>1
  <2>3. (CHOOSE i \in items : i.key = k) = Item(amounts, k)
    BY <1>2, <2>2
  <2>4. map[k] = Item(amounts, k).value
    BY <1>4, <2>3
  <2>. QED BY <2>4 DEF Item
<1>. QED BY <1>4, <1>5

LEMMA LengthOfHistory ==
    ASSUME NEW Keys, NEW len \in Nat, NEW amounts \in Histories(len, Keys)
    PROVE  Len(amounts) = len /\ DOMAIN amounts = 1..len
<1>1. amounts \in Seq([Keys -> Nat])
  BY SeqDef DEF Histories
<1>2. DOMAIN amounts = 1..len
  BY DEF Histories
<1>. QED BY <1>1, <1>2

(* What a key's item says is an amount, and the latest if there is one. *)
LEMMA ItemValue ==
    ASSUME NEW Keys, NEW len \in Nat \ {0}, NEW amounts \in Histories(len, Keys),
           NEW max \in Nat, NEW k \in EverSet(amounts, Keys),
           Item(amounts, k).value <= max
    PROVE  /\ amounts[LastSet(amounts, k)][k] \in 1..max
           /\ amounts[len][k] # 0 => amounts[LastSet(amounts, k)][k] = amounts[len][k]
<1>1. PICK n \in 1..len : amounts[n][k] # 0
  BY LengthOfHistory DEF EverSet
<1>2. k \in Keys
  BY DEF EverSet
<1>3. LastSet(amounts, k) \in 1..len /\ amounts[LastSet(amounts, k)][k] # 0
  BY <1>1, <1>2, LastSetIsSet
<1>4. amounts[LastSet(amounts, k)][k] \in Nat
  BY <1>2, <1>3 DEF Histories
<1>5. amounts[LastSet(amounts, k)][k] <= max
  BY DEF Item
<1>6. amounts[len][k] # 0 => LastSet(amounts, k) = len
  BY <1>2, LastSetIsLast
<1>7. amounts[LastSet(amounts, k)][k] \in 1..max
  BY <1>3, <1>4, <1>5
<1>. QED BY <1>6, <1>7

(* Without the keys that were removed: the big map as it is. *)
LEMMA ActiveMap ==
    ASSUME NEW Keys, NEW len \in Nat \ {0}, NEW amounts \in Histories(len, Keys),
           NEW items, items = ActiveItems(BigMapItems(amounts, Keys)),
           NEW max \in Nat, \A i \in items : i.value <= max,
           NEW map, map = AsMap(items)
    PROVE  /\ map \in Maps(Keys, 1..max)
           /\ \A k \in Keys : /\ AmountOf(map, k) = amounts[len][k]
                              /\ k \in DOMAIN map <=> amounts[len][k] # 0
<1>. DEFINE K == {k \in Keys : amounts[len][k] # 0}
<1>1. K \subseteq EverSet(amounts, Keys)
  BY LengthOfHistory DEF EverSet
<1>2. items = ItemsFor(amounts, K)
  <2>1. \A k \in EverSet(amounts, Keys) : Item(amounts, k).active <=> k \in K
    BY LengthOfHistory DEF Item, EverSet
  <2>. HIDE DEF K
  <2>. QED BY <1>1, <2>1, ItemsAre DEF ActiveItems, ItemsFor
<1>3. DOMAIN map = K /\ \A k \in K : map[k] = amounts[LastSet(amounts, k)][k]
  <2>. HIDE DEF K
  <2>. QED BY <1>2, MapOfItems
<1>4. \A k \in K : /\ amounts[LastSet(amounts, k)][k] \in 1..max
                   /\ amounts[LastSet(amounts, k)][k] = amounts[len][k]
  <2>. SUFFICES ASSUME NEW k \in K
                PROVE  /\ amounts[LastSet(amounts, k)][k] \in 1..max
                       /\ amounts[LastSet(amounts, k)][k] = amounts[len][k]
    OBVIOUS
  <2>1. k \in EverSet(amounts, Keys) /\ Item(amounts, k).value <= max
    BY <1>1, <1>2 DEF ItemsFor
  <2>. QED BY <2>1, ItemValue
<1>5. map = [k \in K |-> map[k]]
  BY <1>3 DEF AsMap
<1>6. map \in [K -> 1..max] /\ K \in SUBSET Keys
  BY <1>3, <1>4, <1>5
<1>7. map \in Maps(Keys, 1..max)
  <2>. HIDE DEF K
  <2>. QED BY <1>6 DEF Maps
<1>8. \A k \in Keys : /\ AmountOf(map, k) = amounts[len][k]
                      /\ k \in DOMAIN map <=> amounts[len][k] # 0
  BY <1>3, <1>4 DEF AmountOf
<1>. HIDE DEF K
<1>. QED BY <1>7, <1>8

(* With them: what the big map has is right, and there may be more. *)
LEMMA WholeMap ==
    ASSUME NEW Keys, NEW len \in Nat \ {0}, NEW amounts \in Histories(len, Keys),
           NEW items, items = BigMapItems(amounts, Keys),
           NEW max \in Nat, \A i \in items : i.value <= max,
           NEW map, map = AsMap(items)
    PROVE  /\ map \in Maps(Keys, 1..max)
           /\ \A k \in Keys : amounts[len][k] # 0 => AmountOf(map, k) = amounts[len][k]
<1>. DEFINE K == EverSet(amounts, Keys)
<1>1. items = ItemsFor(amounts, K)
  BY ItemsAre
<1>2. K \in SUBSET Keys /\ \A k \in Keys : amounts[len][k] # 0 => k \in K
  BY LengthOfHistory DEF EverSet
<1>3. DOMAIN map = K /\ \A k \in K : map[k] = amounts[LastSet(amounts, k)][k]
  <2>. HIDE DEF K
  <2>. QED BY <1>1, MapOfItems
<1>4. ASSUME NEW k \in K
      PROVE  /\ amounts[LastSet(amounts, k)][k] \in 1..max
             /\ amounts[len][k] # 0 =>
                   amounts[LastSet(amounts, k)][k] = amounts[len][k]
  <2>1. Item(amounts, k).value <= max
    BY <1>1 DEF ItemsFor
  <2>. QED BY <2>1, ItemValue
<1>5. map = [k \in K |-> map[k]]
  BY <1>3 DEF AsMap
<1>. HIDE DEF K
<1>6. map \in [K -> 1..max]
  BY <1>3, <1>4, <1>5
<1>7. map \in Maps(Keys, 1..max)
  BY <1>2, <1>6 DEF Maps
<1>8. \A k \in Keys : amounts[len][k] # 0 => AmountOf(map, k) = amounts[len][k]
  BY <1>2, <1>3, <1>4 DEF AmountOf
<1>. QED BY <1>7, <1>8
=============================================================================
