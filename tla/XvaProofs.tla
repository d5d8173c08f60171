------------------------------ MODULE XvaProofs ------------------------------
(***************************************************************************)
(* Proofs about PortfolioPricing, ScenarioRun and XvaRun for any requests,  *)
(* portfolios, layouts, netting sets and sizes.                             *)
(***************************************************************************)
EXTENDS ScenarioRun, XvaRun, FiniteSetTheorems, FunctionTheorems, SequenceTheorems, WellFoundedInduction, TLAPS

(* Sorting.  A total order on a finite set gives its elements the places    *)
(* from one to the number of them.                                          *)

Upto(S, R, i) == {k \in S : <<k, i>> \in R}
TotalOrder(S, R) ==
  /\ \A x, y \in S : <<x, y>> \in R \/ <<y, x>> \in R
  /\ \A x, y \in S : <<x, y>> \in R /\ <<y, x>> \in R => x = y
  /\ \A x, y, z \in S : <<x, y>> \in R /\ <<y, z>> \in R => <<x, z>> \in R
Ranks(S, R, rank) ==
  /\ \A i \in S : rank[i] = Cardinality(Upto(S, R, i))
  /\ \A i, k \in S : <<i, k>> \in R /\ i # k => rank[i] < rank[k]
  /\ \A m \in 1 .. Cardinality(S) : \E i \in S : rank[i] = m

LEMMA Ranking ==
  ASSUME NEW S, IsFiniteSet(S), NEW R, TotalOrder(S, R)
  PROVE  \E rank \in [S -> 1 .. Cardinality(S)] : Ranks(S, R, rank)
<1> DEFINE rank == [i \in S |-> Cardinality(Upto(S, R, i))]
           n == Cardinality(S)
<1>1. n \in Nat
  BY FS_CardinalityType
<1>2. ASSUME NEW i \in S
      PROVE  /\ IsFiniteSet(Upto(S, R, i)) /\ rank[i] \in 1 .. n
  <2>1. Upto(S, R, i) \in SUBSET S /\ i \in Upto(S, R, i)
    BY DEF Upto, TotalOrder
  <2>2. IsFiniteSet(Upto(S, R, i)) /\ Cardinality(Upto(S, R, i)) <= n
    BY <2>1, FS_Subset
  <2>3. Cardinality(Upto(S, R, i)) \in Nat /\ Cardinality(Upto(S, R, i)) # 0
    BY <2>1, <2>2, FS_CardinalityType, FS_EmptySet
  <2>4. QED
    BY <1>1, <2>2, <2>3
<1>3. ASSUME NEW i \in S, NEW k \in S, <<i, k>> \in R, i # k
      PROVE  rank[i] < rank[k]
  <2>1. Upto(S, R, i) \in SUBSET Upto(S, R, k) /\ Upto(S, R, i) # Upto(S, R, k)
    BY <1>3 DEF Upto, TotalOrder
  <2>2. rank[i] <= rank[k] /\ rank[i] # rank[k]
    BY <1>2, <2>1, FS_Subset
  <2>3. QED
    BY <1>1, <1>2, <2>2
<1>4. rank \in Injection(S, 1 .. n)
  <2>1. rank \in [S -> 1 .. n] /\ DOMAIN rank = S
    BY <1>2
  <2> HIDE DEF rank
  <2>2. ASSUME NEW i \in S, NEW k \in S, rank[i] = rank[k], i # k
        PROVE  FALSE
    <3>1. rank[i] \in Nat /\ ~(rank[i] < rank[k]) /\ ~(rank[k] < rank[i])
      BY <1>1, <2>1, <2>2
    <3>2. <<i, k>> \in R \/ <<k, i>> \in R
      BY DEF TotalOrder
    <3>3. QED
      BY <1>3, <2>2, <3>1, <3>2
  <2>3. QED
    BY <2>1, <2>2 DEF Injection, IsInjective
<1>5. IsFiniteSet(1 .. n) /\ Cardinality(1 .. n) = n
  BY <1>1, FS_Interval
<1>6. rank \in Surjection(S, 1 .. n)
  BY <1>4, <1>5, FS_Injection
<1>7. /\ rank \in [S -> 1 .. n]
      /\ \A i \in S : rank[i] = Cardinality(Upto(S, R, i))
  BY <1>2
<1>8. \A m \in 1 .. n : \E i \in S : rank[i] = m
  BY <1>6 DEF Surjection
<1> HIDE DEF rank
<1>9. QED
  BY <1>3, <1>7, <1>8 DEF Ranks

(* The indices of a set, in ascending order. *)
LEMMA InOrderFacts ==
  ASSUME NEW S, IsFiniteSet(S), S \subseteq Nat
  PROVE  /\ InOrder(S) \in Seq(S)
         /\ ToSet(InOrder(S)) = S
         /\ Ascending(InOrder(S))
<1> DEFINE R == {p \in S \X S : p[1] <= p[2]}
           s == InOrder(S)
<1>1. PICK n \in Nat : n = Cardinality(S)
  BY FS_CardinalityType
<1>2. \A i \in S : Upto(S, R, i) = {k \in S : k <= i}
  BY DEF Upto
<1>3. PICK rank \in [S -> 1 .. n] :
        /\ \A i \in S : rank[i] = Cardinality({k \in S : k <= i})
        /\ \A i, k \in S : i < k => rank[i] < rank[k]
        /\ \A m \in 1 .. n : \E i \in S : rank[i] = m
  <2>1. TotalOrder(S, R)
    BY DEF TotalOrder
  <2>2. \A x, y \in S : x < y => <<x, y>> \in R /\ x # y
    OBVIOUS
  <2> HIDE DEF R
  <2>3. PICK rank \in [S -> 1 .. Cardinality(S)] : Ranks(S, R, rank)
    BY <2>1, Ranking
  <2>4. \A i \in S : rank[i] = Cardinality({k \in S : k <= i})
    BY <1>2, <2>3 DEF Ranks
  <2>5. QED
    BY <1>1, <2>2, <2>3, <2>4 DEF Ranks
<1>4. \A m \in 1 .. n : s[m] = CHOOSE i \in S : rank[i] = m
  BY <1>1, <1>3 DEF InOrder
<1>5. \A m \in 1 .. n : s[m] \in S /\ rank[s[m]] = m
  BY <1>3, <1>4
<1>6. s \in Seq(S) /\ Len(s) = n /\ DOMAIN s = 1 .. n
  <2>1. s = [m \in 1 .. n |-> s[m]]
    BY <1>1 DEF InOrder
  <2> HIDE DEF s
  <2>2. QED
    BY <1>5, <2>1
<1> HIDE DEF s, R
<1>7. Ascending(s)
  <2>1. SUFFICES ASSUME NEW i \in 1 .. n, NEW k \in 1 .. n, i < k
                 PROVE  s[i] < s[k]
    BY <1>6 DEF Ascending
  <2>2. PICK x \in S, y \in S : /\ x = s[i] /\ y = s[k]
                                /\ rank[x] = i /\ rank[y] = k
    BY <1>5
  <2>3. ~(y < x) /\ y # x
    BY <1>3, <2>1, <2>2
  <2>4. QED
    BY <2>2, <2>3
<1>8. ASSUME NEW i \in S
      PROVE  i \in ToSet(s)
  <2>1. PICK m \in 1 .. n : m = rank[i]
    BY <1>3
  <2>2. PICK x \in S : x = s[m] /\ rank[x] = rank[i]
    BY <1>5, <2>1
  <2>3. ~(x < i) /\ ~(i < x) /\ x \in Nat /\ i \in Nat
    BY <1>3, <2>2
  <2>4. QED
    BY <1>6, <2>2, <2>3 DEF ToSet
<1>9. ToSet(s) = S
  BY <1>5, <1>6, <1>8 DEF ToSet
<1>10. QED
  BY <1>6, <1>7, <1>9 DEF s

(* What a stable sort puts first is a total order on the positions. *)
LEMMA BeforeIsTotal ==
  ASSUME NEW s \in Seq(Nat)
  PROVE  /\ \A i, k \in DOMAIN s : Before(s, i, k) \/ Before(s, k, i)
         /\ \A i, k \in DOMAIN s : Before(s, i, k) /\ Before(s, k, i) => i = k
         /\ \A i, k, j \in DOMAIN s :
              Before(s, i, k) /\ Before(s, k, j) => Before(s, i, j)
<1>1. \A i \in DOMAIN s : i \in Nat /\ s[i] \in Nat
  OBVIOUS
<1>2. QED
  BY <1>1 DEF Before

LEMMA Places ==
  ASSUME NEW s \in Seq(Nat)
  PROVE  \E rank \in [DOMAIN s -> DOMAIN s] :
           /\ \A i \in DOMAIN s : rank[i] = Place(s, i)
           /\ \A i, k \in DOMAIN s : Before(s, i, k) /\ i # k => rank[i] < rank[k]
           /\ \A m \in DOMAIN s : \E i \in DOMAIN s : rank[i] = m
<1>1. IsFiniteSet(DOMAIN s) /\ DOMAIN s = 1 .. Cardinality(DOMAIN s)
  <2>1. PICK n \in Nat : n = Len(s) /\ DOMAIN s = 1 .. n
    OBVIOUS
  <2>2. IsFiniteSet(1 .. n) /\ Cardinality(1 .. n) = n
    BY FS_Interval
  <2>3. QED
    BY <2>1, <2>2
<1>a. PICK S : S = DOMAIN s
  OBVIOUS
<1>b. PICK R : R = {p \in S \X S : Before(s, p[1], p[2])}
  OBVIOUS
<1>2. \A x, y \in S : <<x, y>> \in R <=> Before(s, x, y)
  BY <1>b
<1>3. \A i \in S : Upto(S, R, i) = {k \in S : Before(s, k, i)}
  BY <1>b DEF Upto
<1>4. \A i \in S : Cardinality(Upto(S, R, i)) = Place(s, i)
  BY <1>3, <1>a DEF Place
<1>5. TotalOrder(S, R)
  BY <1>2, <1>a, BeforeIsTotal DEF TotalOrder
<1>6. PICK rank \in [S -> 1 .. Cardinality(S)] : Ranks(S, R, rank)
  <2>1. IsFiniteSet(S)
    BY <1>1, <1>a
  <2>2. QED
    BY <1>5, <2>1, Ranking
<1>7. S = 1 .. Cardinality(S)
  BY <1>1, <1>a
<1>8. /\ rank \in [S -> S]
      /\ \A i \in S : rank[i] = Place(s, i)
      /\ \A i, k \in S : Before(s, i, k) /\ i # k => rank[i] < rank[k]
      /\ \A m \in S : \E i \in S : rank[i] = m
  BY <1>2, <1>4, <1>6, <1>7 DEF Ranks
<1>9. QED
  BY <1>8, <1>a

(* A sorted sequence has the elements it had. *)
LEMMA SortedFacts ==
  ASSUME NEW s \in Seq(Nat)
  PROVE  /\ DOMAIN Sorted(s) = DOMAIN s
         /\ ToSet(Sorted(s)) = ToSet(s)
         /\ IsInjective(s) => Ascending(Sorted(s))
<1> DEFINE S == DOMAIN s
           t == Sorted(s)
<1>1. PICK rank \in [S -> S] :
        /\ \A i \in S : rank[i] = Place(s, i)
        /\ \A i, k \in S : Before(s, i, k) /\ i # k => rank[i] < rank[k]
        /\ \A m \in S : \E i \in S : rank[i] = m
  BY Places
<1>2. \A i \in S : i \in Nat /\ s[i] \in Nat
  OBVIOUS
<1>3. \A i, k \in S : rank[i] = rank[k] => i = k
  <2>1. SUFFICES ASSUME NEW i \in S, NEW k \in S, rank[i] = rank[k]
                 PROVE  i = k
    OBVIOUS
  <2>2. rank[i] \in Nat
    BY <1>1, <1>2
  <2>3. ~(rank[i] < rank[k]) /\ ~(rank[k] < rank[i])
    BY <2>1, <2>2
  <2>4. Before(s, i, k) \/ Before(s, k, i)
    BY BeforeIsTotal
  <2>5. QED
    BY <1>1, <2>3, <2>4
<1>4. DOMAIN t = S
  BY DEF Sorted
<1>5. \A m \in S : \E i \in S : rank[i] = m /\ t[m] = s[i]
  <2>1. SUFFICES ASSUME NEW m \in S
                 PROVE  \E i \in S : rank[i] = m /\ t[m] = s[i]
    OBVIOUS
  <2>2. t[m] = s[CHOOSE i \in S : Place(s, i) = m]
    BY DEF Sorted
  <2>3. \E i \in S : Place(s, i) = m
    BY <1>1
  <2>4. QED
    BY <1>1, <2>2, <2>3
<1> HIDE DEF t, S
<1>6. \A i \in S : \E m \in S : t[m] = s[i]
  <2>1. SUFFICES ASSUME NEW i \in S
                 PROVE  \E m \in S : t[m] = s[i]
    OBVIOUS
  <2>2. PICK m \in S : m = rank[i]
    BY <1>1
  <2>3. PICK k \in S : rank[k] = m /\ t[m] = s[k]
    BY <1>5
  <2>4. k = i
    BY <1>3, <2>2, <2>3
  <2>5. QED
    BY <2>3, <2>4
<1>7. ToSet(t) = ToSet(s)
  <2>1. \A x : /\ x \in ToSet(s) <=> \E i \in S : x = s[i]
               /\ x \in ToSet(t) <=> \E i \in S : x = t[i]
    BY <1>4 DEF ToSet, S
  <2>2. \A x : x \in ToSet(s) <=> x \in ToSet(t)
    BY <1>5, <1>6, <2>1
  <2>3. QED
    BY <2>2
<1>8. ASSUME IsInjective(s), NEW m \in S, NEW k \in S, m < k
      PROVE  t[m] < t[k]
  <2>1. PICK i \in S : rank[i] = m /\ t[m] = s[i]
    BY <1>5
  <2>2. PICK j \in S : rank[j] = k /\ t[k] = s[j]
    BY <1>5
  <2>3. m \in Nat /\ k \in Nat /\ i \in Nat /\ j \in Nat
        /\ s[i] \in Nat /\ s[j] \in Nat
    BY <1>2
  <2>4. i # j /\ ~(rank[j] < rank[i])
    BY <1>8, <2>1, <2>2, <2>3
  <2>5. ~Before(s, j, i)
    BY <1>1, <2>4
  <2>6. s[i] # s[j]
    BY <1>8, <2>4 DEF IsInjective, S
  <2>7. QED
    BY <2>1, <2>2, <2>3, <2>5, <2>6 DEF Before
<1>9. QED
  BY <1>4, <1>7, <1>8 DEF Ascending, S, t

(* Chunks cuts a sequence from the front: the first chunk is as long as it  *)
(* may be, and the other chunks are those of the rest.                      *)

LEMMA CeilDivFacts ==
  ASSUME NEW n \in Nat, n > 0, NEW a \in Nat
  PROVE  /\ CeilDiv(a, n) \in Nat
         /\ a > 0 => CeilDiv(a, n) > 0
         /\ a = 0 => CeilDiv(a, n) = 0
         /\ 0 < a /\ a <= n => CeilDiv(a, n) = 1
         /\ CeilDiv(a + n, n) = CeilDiv(a, n) + 1
         /\ \A k \in Nat : k < CeilDiv(a, n) => k * n < a
BY DEF CeilDiv

LEMMA FunctionIsSeq ==
  ASSUME NEW T, NEW n \in Nat, NEW f \in [1 .. n -> T]
  PROVE  f \in Seq(T) /\ Len(f) = n /\ DOMAIN f = 1 .. n
OBVIOUS

LEMMA SubSeqFacts ==
  ASSUME NEW S, NEW s \in Seq(S), NEW a \in Nat, NEW b \in Nat,
         0 < a, b <= Len(s)
  PROVE  /\ SubSeq(s, a, b) \in Seq(S)
         /\ Len(SubSeq(s, a, b)) = IF a <= b THEN b - a + 1 ELSE 0
         /\ \A i \in 1 .. Len(SubSeq(s, a, b)) : SubSeq(s, a, b)[i] = s[a + i - 1]
<1>1. Len(s) \in Nat /\ \A i \in 1 .. Len(s) : s[i] \in S
  BY LenProperties, ElementOfSeq
<1>2. \A i \in a .. b : s[i] \in S
  BY <1>1
<1>3. /\ SubSeq(s, a, b) \in Seq(S)
      /\ Len(SubSeq(s, a, b)) = IF a <= b THEN b - a + 1 ELSE 0
      /\ \A i \in 1 .. b - a + 1 : SubSeq(s, a, b)[i] = s[a + i - 1]
  BY <1>2, SubSeqProperties
<1>4. QED
  BY <1>3

LEMMA RestFacts ==
  ASSUME NEW S, NEW s \in Seq(S), NEW w \in Nat, w <= Len(s)
  PROVE  /\ SubSeq(s, w + 1, Len(s)) \in Seq(S)
         /\ Len(SubSeq(s, w + 1, Len(s))) = Len(s) - w
         /\ \A i \in 1 .. Len(s) - w : SubSeq(s, w + 1, Len(s))[i] = s[w + i]
<1>1. PICK L \in Nat : L = Len(s)
  BY LenProperties
<1>2. PICK a \in Nat : a = w + 1 /\ 0 < a
  OBVIOUS
<1>3. PICK t : t = SubSeq(s, a, L)
  OBVIOUS
<1>4. /\ t \in Seq(S)
      /\ Len(t) = IF a <= L THEN L - a + 1 ELSE 0
      /\ \A i \in 1 .. Len(t) : t[i] = s[a + i - 1]
  BY <1>1, <1>2, <1>3, SubSeqFacts
<1>5. Len(t) = L - w
  BY <1>1, <1>2, <1>4
<1>6. \A i \in 1 .. L - w : a + i - 1 = w + i
  BY <1>1, <1>2
<1>7. \A i \in 1 .. L - w : t[i] = s[w + i]
  BY <1>4, <1>5, <1>6
<1>8. QED
  BY <1>1, <1>2, <1>3, <1>4, <1>5, <1>7

LEMMA ShiftedSubSeq ==
  ASSUME NEW S, NEW s \in Seq(S), NEW t \in Seq(S), NEW n \in Nat,
         NEW a \in Nat, NEW b \in Nat, 0 < a, b <= Len(t), b + n <= Len(s),
         \A i \in 1 .. Len(t) : t[i] = s[n + i]
  PROVE  SubSeq(t, a, b) = SubSeq(s, a + n, b + n)
<1>1. PICK x : x = SubSeq(t, a, b)
  OBVIOUS
<1>2. PICK y : y = SubSeq(s, a + n, b + n)
  OBVIOUS
<1>3. PICK len \in Nat : len = IF a <= b THEN b - a + 1 ELSE 0
  <2>1. (IF a <= b THEN b - a + 1 ELSE 0) \in Nat
    OBVIOUS
  <2>2. QED
    BY <2>1
<1>4. /\ x \in Seq(S) /\ Len(x) = len
      /\ \A i \in 1 .. len : x[i] = t[a + i - 1]
  BY <1>1, <1>3, SubSeqFacts
<1>5. /\ y \in Seq(S) /\ Len(y) = len
      /\ \A i \in 1 .. len : y[i] = s[(a + n) + i - 1]
  <2>1. a + n \in Nat /\ 0 < a + n /\ b + n \in Nat
    OBVIOUS
  <2>2. len = IF a + n <= b + n THEN (b + n) - (a + n) + 1 ELSE 0
    BY <1>3
  <2>3. QED
    BY <1>2, <2>1, <2>2, SubSeqFacts
<1>6. ASSUME NEW i \in 1 .. len
      PROVE  x[i] = y[i]
  <2>1. Len(t) \in Nat
    BY LenProperties
  <2>2. a + i - 1 \in 1 .. Len(t) /\ n + (a + i - 1) = (a + n) + i - 1
    BY <1>3, <2>1
  <2>3. QED
    BY <1>4, <1>5, <2>2
<1>7. QED
  BY <1>1, <1>2, <1>4, <1>5, <1>6, SeqEqual

LEMMA ChunksOfNothing ==
  ASSUME NEW n \in Nat, n > 0
  PROVE  Chunks(<<>>, n) = <<>>
<1>1. CeilDiv(Len(<<>>), n) = 0
  BY CeilDivFacts
<1>2. QED
  BY <1>1 DEF Chunks

LEMMA ChunksFacts ==
  ASSUME NEW S, NEW s \in Seq(S), NEW n \in Nat, n > 0
  PROVE  /\ Chunks(s, n) \in Seq(Seq(S))
         /\ Len(Chunks(s, n)) = CeilDiv(Len(s), n)
         /\ \A k \in 1 .. CeilDiv(Len(s), n) :
              Chunks(s, n)[k] =
                SubSeq(s, (k - 1) * n + 1, IF k * n < Len(s) THEN k * n ELSE Len(s))
<1> DEFINE Chunk(k) ==
             SubSeq(s, (k - 1) * n + 1, IF k * n < Len(s) THEN k * n ELSE Len(s))
<1>1. Len(s) \in Nat /\ CeilDiv(Len(s), n) \in Nat
  BY CeilDivFacts, LenProperties
<1>2. ASSUME NEW k \in 1 .. CeilDiv(Len(s), n)
      PROVE  Chunk(k) \in Seq(S)
  <2>1. /\ (k - 1) * n + 1 \in Nat /\ 0 < (k - 1) * n + 1
        /\ k * n \in Nat
    BY <1>1
  <2>2. QED
    BY <1>1, <2>1, SubSeqFacts
<1>3. Chunks(s, n) = [k \in 1 .. CeilDiv(Len(s), n) |-> Chunk(k)]
  BY DEF Chunks
<1> HIDE DEF Chunk
<1>4. Chunks(s, n) \in [1 .. CeilDiv(Len(s), n) -> Seq(S)]
  BY <1>2, <1>3
<1>5. \A k \in 1 .. CeilDiv(Len(s), n) : Chunks(s, n)[k] = Chunk(k)
  BY <1>3
<1>6. QED
  BY <1>1, <1>4, <1>5, FunctionIsSeq DEF Chunk

(* A piece of what remains of s after n elements, seen from s. *)
LEMMA SeqRest ==
  ASSUME NEW S, NEW s \in Seq(S), NEW t \in Seq(S), NEW n \in Nat, NEW r \in Nat,
         Len(s) = r + n, Len(t) = r, \A i \in 1 .. r : t[i] = s[n + i],
         NEW a \in Nat, a > 0, NEW b \in Nat, b <= r
  PROVE  SubSeq(t, a, b) = SubSeq(s, a + n, b + n)
<1>1. b <= Len(t) /\ b + n <= Len(s) /\ 0 < a
  OBVIOUS
<1>2. \A i \in 1 .. Len(t) : t[i] = s[n + i]
  OBVIOUS
<1>3. QED
  BY <1>1, <1>2, ShiftedSubSeq

LEMMA ChunksStep ==
  ASSUME NEW S, NEW s \in Seq(S), s # <<>>, NEW n \in Nat, n > 0,
         NEW w, w = IF n < Len(s) THEN n ELSE Len(s)
  PROVE  /\ w \in 1 .. Len(s)
         /\ Chunks(s, n) # <<>>
         /\ Head(Chunks(s, n)) = SubSeq(s, 1, w)
         /\ Tail(Chunks(s, n)) = Chunks(SubSeq(s, w + 1, Len(s)), n)
<1> DEFINE c == Chunks(s, n)
           rest == SubSeq(s, w + 1, Len(s))
           d == Chunks(rest, n)
           Bound(k, m) == IF k * n < m THEN k * n ELSE m
<1>a. PICK L \in Nat : L = Len(s) /\ L > 0
  BY LenProperties, EmptySeq
<1>b. PICK r \in Nat : r = L - w
  BY <1>a
<1>1. w \in 1 .. L /\ L = r + w /\ (w = n \/ (r = 0 /\ L <= n))
  BY <1>a, <1>b
<1>c. PICK N : N = CeilDiv(L, n)
  OBVIOUS
<1>d. PICK M : M = CeilDiv(r, n)
  OBVIOUS
<1>2. N \in Nat /\ M \in Nat /\ N = M + 1 /\ (r = 0 => M = 0)
  <2>1. CASE w = n
    BY <1>1, <1>c, <1>d, <2>1, CeilDivFacts
  <2>2. CASE r = 0 /\ L <= n
    BY <1>a, <1>c, <1>d, <2>2, CeilDivFacts
  <2>3. QED
    BY <1>1, <2>1, <2>2
<1>3. /\ rest \in Seq(S) /\ Len(rest) = r
      /\ \A i \in 1 .. r : rest[i] = s[w + i]
  <2>1. w \in Nat /\ w <= Len(s) /\ Len(s) - w = r
    BY <1>a, <1>b, <1>1
  <2>2. QED
    BY <2>1, RestFacts
<1>4. /\ c \in Seq(Seq(S)) /\ Len(c) = N
      /\ \A k \in 1 .. N : c[k] = SubSeq(s, (k - 1) * n + 1, Bound(k, L))
  BY <1>a, <1>c, ChunksFacts
<1> HIDE DEF rest
<1>5. /\ d \in Seq(Seq(S)) /\ Len(d) = M
      /\ \A k \in 1 .. M : d[k] = SubSeq(rest, (k - 1) * n + 1, Bound(k, r))
  BY <1>3, <1>d, ChunksFacts
<1> HIDE DEF c, d
<1>6. c # <<>> /\ Head(c) = c[1]
  BY <1>2, <1>4
<1>7. Head(c) = SubSeq(s, 1, w)
  <2>1. (1 - 1) * n + 1 = 1 /\ Bound(1, L) = w
    BY <1>a, <1>1
  <2>2. 1 \in 1 .. N
    BY <1>2
  <2>3. QED
    BY <1>4, <1>6, <2>1, <2>2
<1>8. /\ Tail(c) \in Seq(Seq(S)) /\ Len(Tail(c)) = M
      /\ \A k \in 1 .. M : Tail(c)[k] = c[k + 1]
  BY <1>2, <1>4, <1>6, HeadTailProperties
<1>9. ASSUME NEW k \in 1 .. M
      PROVE  d[k] = c[k + 1]
  <2>1. w = n /\ L = r + n
    BY <1>1, <1>2
  <2>2. /\ (k - 1) * n \in Nat /\ k * n \in Nat /\ (k + 1) * n = k * n + n
        /\ ((k + 1) - 1) * n + 1 = (k - 1) * n + 1 + n
        /\ k \in Nat
    BY <1>2
  <2>3. PICK a \in Nat : a = (k - 1) * n + 1 /\ a > 0
    BY <2>2
  <2>4. PICK b \in Nat : b = Bound(k, r) /\ b <= r /\ b + n = Bound(k + 1, L)
    <3>1. PICK kn \in Nat : kn = k * n
      BY <2>2
    <3>2. (k + 1) * n = kn + n
      BY <2>2, <3>1
    <3>3. QED
      BY <2>1, <3>1, <3>2
  <2>5. c[k + 1] = SubSeq(s, a + n, b + n)
    <3>1. k + 1 \in 1 .. N
      BY <1>2
    <3>2. QED
      BY <1>4, <2>2, <2>3, <2>4, <3>1
  <2>6. d[k] = SubSeq(rest, a, b)
    BY <1>5, <2>1, <2>3, <2>4
  <2>7. SubSeq(rest, a, b) = SubSeq(s, a + n, b + n)
    <3>1. \A i \in 1 .. r : rest[i] = s[n + i]
      BY <1>3, <2>1
    <3>2. QED
      BY <1>a, <1>3, <2>1, <2>3, <2>4, <3>1, SeqRest
  <2>8. QED
    BY <2>5, <2>6, <2>7
<1>10. Tail(c) = d
  BY <1>5, <1>8, <1>9, SeqEqual
<1>11. QED
  BY <1>1, <1>6, <1>7, <1>10 DEF c, d, rest

-----------------------------------------------------------------------------
(* The groups of a portfolio. *)

LEMMA AscendingIsInjective ==
  ASSUME NEW s \in Seq(Nat), Ascending(s)
  PROVE  IsInjective(s)
<1>1. \A i \in DOMAIN s : i \in Nat /\ s[i] \in Nat
  OBVIOUS
<1>2. QED
  BY <1>1 DEF Ascending, IsInjective

LEMMA LeastElement ==
  ASSUME NEW S, IsFiniteSet(S), S \subseteq Nat, S # {}
  PROVE  \E x \in S : \A y \in S : x <= y
<1>1. PICK s : s = InOrder(S)
  OBVIOUS
<1>2. s \in Seq(S) /\ ToSet(s) = S /\ Ascending(s)
  BY <1>1, InOrderFacts
<1>3. PICK n \in Nat : DOMAIN s = 1 .. n /\ \A i \in 1 .. n : s[i] \in S
  <2>1. Len(s) \in Nat /\ DOMAIN s = 1 .. Len(s) /\ \A i \in 1 .. Len(s) : s[i] \in S
    BY <1>2, LenProperties, ElementOfSeq
  <2>2. QED
    BY <2>1
<1>4. \A y \in S : \E i \in 1 .. n : y = s[i]
  BY <1>2, <1>3 DEF ToSet
<1>5. 1 \in 1 .. n
  <2>1. PICK y \in S, i \in 1 .. n : y = s[i]
    BY <1>4
  <2>2. QED
    BY <1>3, <2>1
<1>6. \A i \in 1 .. n : s[1] <= s[i]
  <2>1. SUFFICES ASSUME NEW i \in 1 .. n
                 PROVE  s[1] <= s[i]
    OBVIOUS
  <2>2. s[1] \in Nat /\ s[i] \in Nat
    BY <1>3, <1>5
  <2>3. CASE i = 1
    BY <2>2, <2>3
  <2>4. CASE 1 < i
    BY <1>2, <1>3, <1>5, <2>2, <2>4 DEF Ascending
  <2>5. QED
    BY <2>3, <2>4
<1>7. QED
  BY <1>3, <1>4, <1>5, <1>6

LEMMA RequestFacts ==
  ASSUME portfolio \in Portfolios
  PROVE  /\ portfolio \in Seq(Products \cup {NotEmbedded})
         /\ Len(portfolio) \in Nat
         /\ DOMAIN portfolio = 1 .. Len(portfolio)
         /\ IsFiniteSet(DOMAIN portfolio)
         /\ DOMAIN portfolio \subseteq Nat
         /\ \A i \in DOMAIN portfolio :
              portfolio[i] # NotEmbedded => portfolio[i] \in Products
<1>1. portfolio \in Seq(Products \cup {NotEmbedded})
  BY PortfolioAssumption DEF PortfolioAssumption
<1>2. Len(portfolio) \in Nat /\ DOMAIN portfolio = 1 .. Len(portfolio)
  BY <1>1, LenProperties
<1>3. IsFiniteSet(1 .. Len(portfolio))
  BY <1>2, FS_Interval
<1>4. QED
  BY <1>1, <1>2, <1>3

(* The indices that a pass collects are a sequence without repetition. *)
LEMMA PassFacts ==
  ASSUME portfolio \in Portfolios, NEW S \in SUBSET DOMAIN portfolio
  PROVE  /\ InOrder(S) \in Seq(S)
         /\ InOrder(S) \in Seq(DOMAIN portfolio)
         /\ ToSet(InOrder(S)) = S
         /\ Ascending(InOrder(S))
         /\ IsInjective(InOrder(S))
<1>1. IsFiniteSet(S) /\ S \subseteq Nat
  BY RequestFacts, FS_Subset
<1>2. InOrder(S) \in Seq(S) /\ ToSet(InOrder(S)) = S /\ Ascending(InOrder(S))
  BY <1>1, InOrderFacts
<1>3. InOrder(S) \in Seq(DOMAIN portfolio) /\ InOrder(S) \in Seq(Nat)
  BY <1>1, <1>2, SeqMonotonic
<1>4. QED
  BY <1>2, <1>3, AscendingIsInjective

LEMMA MembersFacts ==
  ASSUME portfolio \in Portfolios, NEW l
  PROVE  /\ OfLayout(l) \subseteq DOMAIN portfolio
         /\ Members(l) \in Seq(DOMAIN portfolio)
         /\ ToSet(Members(l)) = OfLayout(l)
         /\ IsInjective(Members(l))
<1>1. OfLayout(l) \in SUBSET DOMAIN portfolio
  BY DEF OfLayout
<1>2. QED
  BY <1>1, PassFacts DEF Members

LEMMA MissingFacts ==
  ASSUME portfolio \in Portfolios
  PROVE  /\ Missing \in Seq(DOMAIN portfolio)
         /\ ToSet(Missing) = {i \in DOMAIN portfolio : portfolio[i] = NotEmbedded}
         /\ IsInjective(Missing)
<1>1. {i \in DOMAIN portfolio : portfolio[i] = NotEmbedded} \in SUBSET DOMAIN portfolio
  OBVIOUS
<1>2. QED
  BY <1>1, PassFacts DEF Missing

(* A trade is queued when the group of its layout is. *)
LEMMA QueuedFacts ==
  Queued = {i \in DOMAIN portfolio : /\ portfolio[i] # NotEmbedded
                                     /\ Layout[portfolio[i]] \in waiting}
BY DEF Queued, OfLayout

LEMMA NextLayoutFacts ==
  ASSUME portfolio \in Portfolios, waiting \subseteq Layouts, waiting # {}
  PROVE  NextLayout \in waiting
<1>1. ASSUME NEW l \in waiting
      PROVE  Head(Members(l)) \in DOMAIN portfolio
  <2>1. PICK i \in DOMAIN portfolio : portfolio[i] # NotEmbedded /\ l = Layout[portfolio[i]]
    BY DEF Layouts, ToSet
  <2>2. i \in OfLayout(l)
    BY <2>1 DEF OfLayout
  <2>3. PICK s \in Seq(DOMAIN portfolio) : s = Members(l) /\ i \in ToSet(s)
    BY <2>2, MembersFacts
  <2>4. s # <<>>
    BY <2>3 DEF ToSet
  <2>5. QED
    BY <2>3, <2>4, HeadTailProperties
<1>2. PICK H : H = {Head(Members(l)) : l \in waiting}
  OBVIOUS
<1>3. H \in SUBSET DOMAIN portfolio /\ H # {}
  BY <1>1, <1>2
<1>4. IsFiniteSet(H) /\ H \subseteq Nat
  BY <1>3, RequestFacts, FS_Subset
<1>5. PICK x \in H : \A y \in H : x <= y
  BY <1>3, <1>4, LeastElement
<1>6. PICK l \in waiting : x = Head(Members(l))
  BY <1>2
<1>7. \A k \in waiting : Head(Members(l)) <= Head(Members(k))
  BY <1>2, <1>5, <1>6
<1>8. QED
  BY <1>7 DEF NextLayout

(* The products of a part of the group at hand. *)
LEMMA ProductsOfFacts ==
  ASSUME portfolio \in Portfolios, NEW g \in Seq(DOMAIN portfolio),
         \A i \in ToSet(g) : portfolio[i] # NotEmbedded
  PROVE  /\ ProductsOf(g) \in Seq(Products)
         /\ Len(ProductsOf(g)) = Len(g)
         /\ \A k \in 1 .. Len(g) : ProductsOf(g)[k] = portfolio[g[k]]
         /\ ProductsOf(g) = <<>> <=> g = <<>>
<1>1. Len(g) \in Nat /\ DOMAIN g = 1 .. Len(g)
  BY LenProperties
<1>2. \A k \in 1 .. Len(g) : g[k] \in DOMAIN portfolio /\ portfolio[g[k]] \in Products
  BY <1>1, ElementOfSeq, RequestFacts DEF ToSet
<1>3. ProductsOf(g) = [k \in 1 .. Len(g) |-> portfolio[g[k]]]
  BY <1>1 DEF ProductsOf
<1>4. ProductsOf(g) \in [1 .. Len(g) -> Products]
  BY <1>2, <1>3
<1>5. ProductsOf(g) \in Seq(Products) /\ Len(ProductsOf(g)) = Len(g)
  BY <1>1, <1>4, FunctionIsSeq
<1>6. ProductsOf(g) = <<>> <=> g = <<>>
  BY <1>5, EmptySeq
<1>7. QED
  BY <1>3, <1>5, <1>6

-----------------------------------------------------------------------------
(* The invariant. *)

LEMMA SamePortfolio ==
  ASSUME portfolio' = portfolio
  PROVE  /\ Layouts' = Layouts
         /\ \A l : OfLayout(l)' = OfLayout(l)
         /\ DOMAIN portfolio' = DOMAIN portfolio
         /\ \A g : ProductsOf(g)' = ProductsOf(g)
         /\ Results' = Results
BY DEF Layouts, OfLayout, ProductsOf, Results

LEMMA InvariantAtStart ==
  ASSUME Init
  PROVE  IInv
<1>1. /\ portfolio \in Portfolios /\ pc = "idle" /\ answer = "none"
      /\ waiting = {} /\ members = <<>> /\ batches = <<>> /\ cursor = 0
      /\ failures = <<>> /\ market = <<>>
      /\ \A i \in DOMAIN portfolio : values[i] = NoValue
      /\ values = [i \in DOMAIN portfolio |-> NoValue]
  BY DEF Init
<1>2. TypeOK
  <2>1. cancelled \in BOOLEAN /\ processed_chunks \in Nat /\ total_chunks \in Nat
        /\ chunks \in Nat
    BY DEF Init
  <2>2. members \in Seq(DOMAIN portfolio) /\ Len(members) = 0
        /\ batches \in Seq(Seq(Products)) /\ failures \in Seq(DOMAIN portfolio)
    BY <1>1, EmptySeq
  <2>3. cursor \in 0 .. Len(members)
    BY <1>1, <2>2
  <2>4. result \in Results
    BY DEF Init, EmptyResult, Results
  <2>5. QED
    BY <1>1, <2>1, <2>2, <2>3, <2>4 DEF TypeOK, Positions, Answers
<1>3. market \in Seq(Nat)
  BY <1>1
<1>4. QED
  BY <1>1, <1>2, <1>3
     DEF IInv, SettledInOrder, ValuesBelongToTrades, ResultInOrder, PlanFollows,
         InOnePlace, InFlight, ReturnsOnce

(* Nothing is said of the counters and of the flag but their types. *)
LEMMA FrameKeeps ==
  ASSUME IInv, cancelled' \in BOOLEAN, processed_chunks' \in Nat,
         total_chunks' \in Nat,
         UNCHANGED <<portfolio, market, pc, waiting, members, batches, cursor,
                     values, failures, chunks, answer, result>>
  PROVE  IInv'
<1>1. TypeOK'
  BY SamePortfolio DEF IInv, SettledInOrder, TypeOK
<1>2. ValuesBelongToTrades'
  BY DEF IInv, SettledInOrder, ValuesBelongToTrades, Price
<1>3. ResultInOrder'
  BY DEF IInv, SettledInOrder, ResultInOrder, NamesEachTrade, PricedIn, Price
<1>4. Ahead' = Ahead /\ Priced' = Priced /\ Queued' = Queued
  BY SamePortfolio DEF Ahead, Priced, Queued
<1>5. AtHand' = AtHand /\ InFlight' = InFlight
  BY <1>4 DEF AtHand, InFlight
<1>6. PlanFollows'
  BY <1>4, SamePortfolio DEF IInv, PlanFollows
<1>7. InOnePlace'
  BY <1>4, <1>5 DEF IInv, InOnePlace
<1>8. QED
  BY <1>1, <1>2, <1>3, <1>6, <1>7 DEF IInv, SettledInOrder, ReturnsOnce

LEMMA CancelKeeps ==
  ASSUME IInv, Cancel
  PROVE  IInv'
BY FrameKeeps DEF IInv, SettledInOrder, TypeOK, Cancel, request, plan, books

LEMMA StutterKeeps ==
  ASSUME IInv, UNCHANGED vars
  PROVE  IInv'
BY FrameKeeps
   DEF IInv, SettledInOrder, TypeOK, vars, request, control, plan, books

LEMMA RefuseKeeps ==
  ASSUME IInv, NEW why \in {"Cancelled", "InvalidRequest"}, Refuse(why)
  PROVE  IInv'
<1>1. /\ UNCHANGED <<portfolio, market, cancelled, processed_chunks, total_chunks,
                     waiting, members, batches, cursor, values, failures, chunks,
                     result>>
      /\ pc' = "done" /\ answer' = why
  BY DEF Refuse, request, control, plan, books
<1>2. TypeOK'
  BY <1>1, SamePortfolio DEF IInv, SettledInOrder, TypeOK, Positions, Answers
<1>3. ValuesBelongToTrades'
  BY <1>1 DEF IInv, SettledInOrder, ValuesBelongToTrades, Price
<1>4. QED
  BY <1>1, <1>2, <1>3
     DEF IInv, SettledInOrder, ResultInOrder, PlanFollows, InOnePlace, InFlight,
         ReturnsOnce

LEMMA BeginKeeps ==
  ASSUME IInv, NEW m \in Seq(Nat), Begin(m)
  PROVE  IInv'
<1>1. CASE \/ Refuse("Cancelled")
           \/ Refuse("InvalidRequest")
  BY <1>1, RefuseKeeps
<1>2. CASE /\ market' = m
           /\ total_chunks' = Total
           /\ Group
           /\ values' = [i \in DOMAIN portfolio |-> NoValue]
           /\ chunks' = 0
           /\ pc' = "groups"
           /\ UNCHANGED <<portfolio, cancelled, processed_chunks, plan, answer,
                          result>>
  <2>1. /\ UNCHANGED <<portfolio, cancelled, processed_chunks, members, batches,
                       cursor, answer, result>>
        /\ waiting' = Layouts /\ failures' = Missing
        /\ \A i \in DOMAIN portfolio : values'[i] = NoValue
        /\ values' \in [DOMAIN portfolio -> Prices \cup {NoValue}]
        /\ market' = m /\ chunks' = 0 /\ pc' = "groups"
    BY <1>2 DEF Group, plan
  <2>2. portfolio \in Portfolios
    BY DEF IInv, SettledInOrder, TypeOK
  <2>3. answer' = "none"
    BY <2>1 DEF IInv, ReturnsOnce, Begin
  <2>4. total_chunks' \in Nat
    <3>1. Len(portfolio) \in Nat /\ max_batch_items \in Nat /\ total_chunks \in Nat
      BY <2>2, RequestFacts, PortfolioAssumption
         DEF IInv, SettledInOrder, TypeOK, PortfolioAssumption
    <3>2. PICK n \in Nat : n = AtLeastOne(max_batch_items) /\ n > 0
      <4>1. AtLeastOne(max_batch_items) \in Nat /\ AtLeastOne(max_batch_items) > 0
        BY <3>1 DEF AtLeastOne
      <4>2. QED
        BY <4>1
    <3>3. CeilDiv(Len(portfolio), n) \in Nat
      BY <3>1, <3>2, CeilDivFacts
    <3>4. QED
      BY <1>2, <3>1, <3>2, <3>3 DEF Total
  <2>5. TypeOK'
    BY <2>1, <2>2, <2>4, SamePortfolio, MissingFacts
       DEF IInv, SettledInOrder, TypeOK, Positions
  <2>6. ValuesBelongToTrades' /\ ResultInOrder' /\ PlanFollows' /\ ReturnsOnce'
    BY <2>1, <2>3 DEF ValuesBelongToTrades, ResultInOrder, PlanFollows, ReturnsOnce
  <2>7. InOnePlace'
    <3>1. AtHand' = {} /\ Priced' = {}
      BY <2>1 DEF AtHand, Priced
    <3>2. \A i \in DOMAIN portfolio :
            portfolio[i] # NotEmbedded => Layout[portfolio[i]] \in Layouts
      BY DEF Layouts, ToSet
    <3>3. Queued' = {i \in DOMAIN portfolio : portfolio[i] # NotEmbedded}
      <4>1. Queued' = {i \in DOMAIN portfolio' : /\ portfolio'[i] # NotEmbedded
                                                 /\ Layout[portfolio'[i]] \in waiting'}
        BY DEF Queued, OfLayout
      <4>2. QED
        BY <2>1, <3>2, <4>1
    <3>4. IsInjective(failures') /\ ToSet(failures') = DOMAIN portfolio \ Queued'
      BY <2>1, <2>2, <3>3, MissingFacts
    <3>5. Queued' \subseteq DOMAIN portfolio'
      BY <2>1, <3>3
    <3>6. QED
      BY <2>1, <3>1, <3>4, <3>5 DEF InOnePlace
  <2>8. QED
    BY <2>1, <2>5, <2>6, <2>7 DEF IInv, SettledInOrder
<1>3. QED
  BY <1>1, <1>2 DEF Begin

(* Taking a group out of the waiting ones takes its trades out of the queue. *)
LEMMA Dequeued ==
  ASSUME IInv, NextLayout \in waiting, waiting' = waiting \ {NextLayout},
         portfolio' = portfolio
  PROVE  /\ Queued = Queued' \cup OfLayout(NextLayout)
         /\ Queued' \cap OfLayout(NextLayout) = {}
         /\ OfLayout(NextLayout) \subseteq DOMAIN portfolio
<1>1. Queued' = {i \in DOMAIN portfolio : /\ portfolio[i] # NotEmbedded
                                          /\ Layout[portfolio[i]] \in waiting'}
  BY DEF Queued, OfLayout
<1> DEFINE l == NextLayout
<1>2. OfLayout(l) = {i \in DOMAIN portfolio : /\ portfolio[i] # NotEmbedded
                                              /\ Layout[portfolio[i]] = l}
  BY DEF OfLayout
<1> HIDE DEF l
<1>3. l \in waiting /\ waiting' = waiting \ {l}
  BY DEF l
<1>4. /\ Queued = Queued' \cup OfLayout(l)
      /\ Queued' \cap OfLayout(l) = {}
      /\ OfLayout(l) \subseteq DOMAIN portfolio
  BY <1>1, <1>2, <1>3, QueuedFacts
<1>5. QED
  BY <1>4 DEF l

(* Failures are appended: nothing fails twice. *)
LEMMA MoreFailures ==
  ASSUME NEW S, NEW s \in Seq(S), NEW t \in Seq(S), IsInjective(s), IsInjective(t),
         ToSet(s) \cap ToSet(t) = {}
  PROVE  /\ s \o t \in Seq(S)
         /\ IsInjective(s \o t)
         /\ ToSet(s \o t) = ToSet(s) \cup ToSet(t)
<1>1. PICK n \in Nat : n = Len(s) /\ DOMAIN s = 1 .. n
  BY LenProperties
<1>2. PICK m \in Nat : m = Len(t) /\ DOMAIN t = 1 .. m
  BY LenProperties
<1>3. PICK u \in Seq(S) : u = s \o t
  BY ConcatProperties
<1>4. /\ Len(u) = n + m
      /\ \A i \in 1 .. n + m : u[i] = IF i <= n THEN s[i] ELSE t[i - n]
  BY <1>1, <1>2, <1>3, ConcatProperties
<1>5. DOMAIN u = 1 .. n + m
  BY <1>4, LenProperties
<1>6. \A i \in 1 .. n : u[i] = s[i] /\ i \in DOMAIN u
  BY <1>1, <1>2, <1>4, <1>5
<1>7. \A i \in 1 .. m : u[i + n] = t[i] /\ i + n \in DOMAIN u
  <2>1. \A i \in 1 .. m : /\ i + n \in 1 .. n + m /\ ~(i + n <= n)
                          /\ (i + n) - n = i
    OBVIOUS
  <2>2. QED
    BY <1>4, <1>5, <2>1
<1>8. \A i \in DOMAIN u : \/ i \in 1 .. n /\ u[i] = s[i]
                          \/ \E k \in 1 .. m : i = k + n /\ u[i] = t[k]
  <2>1. SUFFICES ASSUME NEW i \in 1 .. n + m, ~(i <= n)
                 PROVE  \E k \in 1 .. m : i = k + n /\ u[i] = t[k]
    BY <1>4, <1>5
  <2>2. i - n \in 1 .. m /\ i = (i - n) + n /\ u[i] = t[i - n]
    BY <1>4, <2>1
  <2>3. QED
    BY <2>2
<1>9. ToSet(u) = ToSet(s) \cup ToSet(t)
  <2>1. \A x : x \in ToSet(u) => x \in ToSet(s) \/ x \in ToSet(t)
    BY <1>1, <1>2, <1>8 DEF ToSet
  <2>2. \A x \in ToSet(s) : x \in ToSet(u)
    BY <1>1, <1>6 DEF ToSet
  <2>3. \A x \in ToSet(t) : x \in ToSet(u)
    BY <1>2, <1>7 DEF ToSet
  <2>4. QED
    BY <2>1, <2>2, <2>3
<1>10. IsInjective(u)
  <2>1. SUFFICES ASSUME NEW i \in DOMAIN u, NEW k \in DOMAIN u, u[i] = u[k]
                 PROVE  i = k
    BY DEF IsInjective
  <2>2. \A a \in 1 .. n, b \in 1 .. m : s[a] # t[b]
    BY <1>1, <1>2 DEF ToSet
  <2>3. CASE i \in 1 .. n /\ u[i] = s[i]
    <3>1. k \in 1 .. n /\ u[k] = s[k]
      BY <1>8, <2>1, <2>2, <2>3
    <3>2. QED
      BY <1>1, <2>1, <2>3, <3>1 DEF IsInjective
  <2>4. CASE \E a \in 1 .. m : i = a + n /\ u[i] = t[a]
    <3>1. \E b \in 1 .. m : k = b + n /\ u[k] = t[b]
      BY <1>8, <2>1, <2>2, <2>4
    <3>2. QED
      BY <1>2, <2>1, <2>4, <3>1 DEF IsInjective
  <2>5. QED
    BY <1>8, <2>3, <2>4
<1>11. QED
  BY <1>3, <1>9, <1>10

LEMMA Appended ==
  ASSUME NEW S, NEW s \in Seq(S), NEW t \in Seq(S)
  PROVE  ToSet(s) \subseteq ToSet(s \o t)
<1>1. PICK u \in Seq(S) : u = s \o t
  BY ConcatProperties
<1>2. PICK n \in Nat : n = Len(s) /\ DOMAIN s = 1 .. n
  BY LenProperties
<1>3. \A i \in 1 .. n : i \in DOMAIN u /\ u[i] = s[i]
  <2>1. PICK m \in Nat : m = Len(t)
    BY LenProperties
  <2>2. /\ DOMAIN u = 1 .. n + m
        /\ \A i \in 1 .. n + m : u[i] = IF i <= n THEN s[i] ELSE t[i - n]
    BY <1>1, <1>2, <2>1, ConcatProperties, LenProperties
  <2>3. QED
    BY <2>2
<1>4. QED
  BY <1>1, <1>2, <1>3 DEF ToSet

LEMMA TakeGroupKeeps ==
  ASSUME IInv, TakeGroup
  PROVE  IInv'
<1>1. CASE Refuse("Cancelled")
  BY <1>1, RefuseKeeps
<1> DEFINE l == NextLayout
<1>2. CASE /\ waiting' = waiting \ {l}
           /\ \/ /\ max_batch_items > 0
                 /\ members' = Members(l)
                 /\ batches' = PlanBatches(l)
                 /\ cursor' = 0
                 /\ pc' = "batches"
                 /\ UNCHANGED failures
              \/ /\ failures' = failures \o Members(l)
                 /\ UNCHANGED <<plan, pc>>
           /\ UNCHANGED <<request, control, values, chunks, answer, result>>
  <2>1. /\ UNCHANGED <<portfolio, market, cancelled, processed_chunks,
                       total_chunks, values, chunks, answer, result>>
        /\ waiting' = waiting \ {l} /\ pc = "groups"
    BY <1>2 DEF request, control, TakeGroup
  <2>2. portfolio \in Portfolios /\ waiting \subseteq Layouts /\ waiting # {}
    BY DEF IInv, SettledInOrder, TypeOK, TakeGroup
  <2>3. /\ l \in waiting
        /\ Queued = Queued' \cup OfLayout(l)
        /\ Queued' \cap OfLayout(l) = {}
        /\ OfLayout(l) \subseteq DOMAIN portfolio
    BY <2>1, <2>2, NextLayoutFacts, Dequeued
  <2>4. PICK g \in Seq(DOMAIN portfolio) :
          g = Members(l) /\ ToSet(g) = OfLayout(l) /\ IsInjective(g)
    BY <2>2, MembersFacts
  <2>5. \A i \in ToSet(g) : portfolio[i] # NotEmbedded
    BY <2>4 DEF OfLayout
  <2> HIDE DEF l
  <2>6. /\ AtHand = {} /\ Priced' = Priced
        /\ IsInjective(failures)
        /\ ToSet(failures) \cup Priced \cup Queued = DOMAIN portfolio
        /\ ToSet(failures) \cap (Priced \cup Queued) = {}
        /\ Priced \cap Queued = {}
        /\ failures \in Seq(DOMAIN portfolio)
    BY <2>1
       DEF AtHand, Priced, IInv, InOnePlace, InFlight, SettledInOrder, TypeOK
  <2>7. ValuesBelongToTrades' /\ ResultInOrder' /\ market' \in Seq(Nat)
    <3>1. answer' = "none"
      BY <2>1 DEF IInv, ReturnsOnce
    <3>2. QED
      BY <2>1, <3>1
         DEF IInv, SettledInOrder, ValuesBelongToTrades, ResultInOrder, Price
  <2>8. waiting' \subseteq Layouts'
    BY <2>1, <2>2, SamePortfolio
  <2>9. CASE /\ max_batch_items > 0
             /\ members' = Members(l)
             /\ batches' = PlanBatches(l)
             /\ cursor' = 0
             /\ pc' = "batches"
             /\ UNCHANGED failures
    <3>1. Ahead' = g
      <4>1. Ahead' = SubSeq(g, 0 + 1, Len(g))
        BY <2>4, <2>9 DEF Ahead
      <4>2. SubSeq(g, 1, Len(g)) = g
        BY SubSeqFull
      <4>3. QED
        BY <4>1, <4>2
    <3>2. batches' = Chunks(ProductsOf(g), max_batch_items)
      BY <2>4, <2>9 DEF PlanBatches
    <3>3. max_batch_items \in Nat /\ max_batch_items > 0
      BY <2>9, PortfolioAssumption DEF PortfolioAssumption
    <3>4. batches' \in Seq(Seq(Products))
      BY <2>2, <2>5, <3>2, <3>3, ProductsOfFacts, ChunksFacts
    <3>5. TypeOK'
      <4>1. cursor' \in 0 .. Len(members')
        BY <2>4, <2>9, LenProperties
      <4>2. QED
        BY <2>1, <2>4, <2>8, <2>9, <3>4, <4>1, SamePortfolio
           DEF IInv, SettledInOrder, TypeOK, Positions
    <3>6. PlanFollows'
      BY <2>1, <2>4, <2>5, <2>9, <3>1, <3>2, <3>3, SamePortfolio DEF PlanFollows
    <3>7. AtHand' = OfLayout(l)
      BY <2>4, <2>9, <3>1 DEF AtHand
    <3>8. InOnePlace'
      BY <2>1, <2>3, <2>6, <2>9, <3>7 DEF InOnePlace
    <3>9. QED
      BY <2>1, <2>7, <2>9, <3>5, <3>6, <3>8
         DEF IInv, SettledInOrder, ReturnsOnce
  <2>10. CASE failures' = failures \o Members(l) /\ UNCHANGED <<plan, pc>>
    <3>1. UNCHANGED <<members, batches, cursor, pc>> /\ failures' = failures \o g
      BY <2>4, <2>10 DEF plan
    <3>2. ToSet(failures) \cap ToSet(g) = {}
      BY <2>3, <2>4, <2>6
    <3>3. /\ failures' \in Seq(DOMAIN portfolio)
          /\ IsInjective(failures')
          /\ ToSet(failures') = ToSet(failures) \cup OfLayout(l)
      BY <2>4, <2>6, <3>1, <3>2, MoreFailures
    <3>4. TypeOK'
      BY <2>1, <2>8, <3>1, <3>3, SamePortfolio DEF IInv, SettledInOrder, TypeOK
    <3>5. PlanFollows' /\ ReturnsOnce'
      BY <2>1, <3>1 DEF PlanFollows, IInv, ReturnsOnce
    <3>6. AtHand' = {}
      BY <2>1, <3>1 DEF AtHand
    <3>7. InOnePlace'
      BY <2>1, <2>3, <2>6, <3>3, <3>6 DEF InOnePlace
    <3>8. QED
      BY <2>7, <3>4, <3>5, <3>7 DEF IInv, SettledInOrder
  <2>11. QED
    BY <1>2, <2>9, <2>10 DEF l
<1>3. QED
  BY <1>1, <1>2 DEF TakeGroup

LEMMA TakeBatchKeeps ==
  ASSUME IInv, TakeBatch
  PROVE  IInv'
<1>1. CASE Refuse("Cancelled")
  BY <1>1, RefuseKeeps
<1>2. CASE /\ pc' = "executing"
           /\ UNCHANGED <<request, control, waiting, plan, books, answer, result>>
  <2>1. /\ UNCHANGED <<portfolio, market, cancelled, processed_chunks,
                       total_chunks, waiting, members, batches, cursor, values,
                       failures, chunks, answer, result>>
        /\ pc = "batches" /\ pc' = "executing" /\ batches # <<>>
    BY <1>2 DEF request, control, plan, books, TakeBatch
  <2>2. TypeOK'
    BY <2>1, SamePortfolio DEF IInv, SettledInOrder, TypeOK, Positions
  <2>3. answer' = "none"
    BY <2>1 DEF IInv, ReturnsOnce
  <2>4. ValuesBelongToTrades' /\ ResultInOrder' /\ market' \in Seq(Nat)
    BY <2>1, <2>3
       DEF IInv, SettledInOrder, ValuesBelongToTrades, ResultInOrder, Price
  <2>5. Ahead' = Ahead /\ Priced' = Priced /\ Queued' = Queued
    BY <2>1, SamePortfolio DEF Ahead, Priced, Queued
  <2>6. AtHand' = AtHand
    BY <2>1, <2>5 DEF AtHand
  <2>7. PlanFollows'
    BY <2>1, <2>5, SamePortfolio DEF IInv, PlanFollows
  <2>8. InOnePlace'
    BY <2>1, <2>5, <2>6 DEF IInv, InOnePlace, InFlight
  <2>9. QED
    BY <2>1, <2>2, <2>3, <2>4, <2>7, <2>8 DEF IInv, SettledInOrder, ReturnsOnce
<1>3. QED
  BY <1>1, <1>2 DEF TakeBatch

(* While there is something ahead, there is a batch for it; and a batch     *)
(* stands for the members it was planned for.                               *)
LEMMA PlanFacts ==
  ASSUME IInv, pc \in {"batches", "executing"}
  PROVE  /\ Ahead \in Seq(DOMAIN portfolio)
         /\ Len(Ahead) = Len(members) - cursor
         /\ \A k \in 1 .. Len(members) - cursor : Ahead[k] = members[cursor + k]
         /\ \A i \in ToSet(Ahead) : portfolio[i] # NotEmbedded
         /\ ProductsOf(Ahead) \in Seq(Products)
         /\ batches = <<>> => ToSet(Ahead) = {}
         /\ batches # <<>> => Ahead # <<>>
<1>1. /\ portfolio \in Portfolios /\ members \in Seq(DOMAIN portfolio)
      /\ cursor \in 0 .. Len(members)
      /\ batches = Chunks(ProductsOf(Ahead), max_batch_items)
      /\ max_batch_items \in Nat /\ max_batch_items > 0
      /\ \A i \in ToSet(members) : portfolio[i] # NotEmbedded
  BY PortfolioAssumption
     DEF IInv, SettledInOrder, TypeOK, PlanFollows, PortfolioAssumption
<1>2. cursor \in Nat /\ cursor <= Len(members) /\ Len(members) \in Nat
      /\ DOMAIN members = 1 .. Len(members)
  BY <1>1, LenProperties
<1>3. /\ Ahead \in Seq(DOMAIN portfolio)
      /\ Len(Ahead) = Len(members) - cursor
      /\ \A k \in 1 .. Len(members) - cursor : Ahead[k] = members[cursor + k]
  BY <1>1, <1>2, RestFacts DEF Ahead
<1>4. \A i \in ToSet(Ahead) : i \in ToSet(members)
  <2>1. SUFFICES ASSUME NEW i \in ToSet(Ahead)
                 PROVE  i \in ToSet(members)
    OBVIOUS
  <2>2. DOMAIN Ahead = 1 .. Len(members) - cursor
    BY <1>3, LenProperties
  <2>3. PICK k \in 1 .. Len(members) - cursor : i = Ahead[k]
    BY <2>2 DEF ToSet
  <2>4. cursor + k \in DOMAIN members
    BY <1>2
  <2>5. QED
    BY <1>3, <2>3, <2>4 DEF ToSet
<1>5. ProductsOf(Ahead) \in Seq(Products) /\ (ProductsOf(Ahead) = <<>> <=> Ahead = <<>>)
  BY <1>1, <1>3, <1>4, ProductsOfFacts
<1>6. batches # <<>> <=> Ahead # <<>>
  BY <1>1, <1>5, ChunksOfNothing, ChunksStep
<1>7. Ahead = <<>> => ToSet(Ahead) = {}
  BY DEF ToSet
<1>8. QED
  BY <1>1, <1>3, <1>4, <1>5, <1>6, <1>7

LEMMA GroupDoneKeeps ==
  ASSUME IInv, GroupDone
  PROVE  IInv'
<1>1. /\ UNCHANGED <<portfolio, market, cancelled, processed_chunks,
                     total_chunks, waiting, members, batches, cursor, values,
                     failures, chunks, answer, result>>
      /\ pc = "batches" /\ pc' = "groups" /\ batches = <<>>
  BY DEF GroupDone, request, control, plan, books
<1>2. TypeOK'
  BY <1>1, SamePortfolio DEF IInv, SettledInOrder, TypeOK, Positions
<1>3. answer' = "none"
  BY <1>1 DEF IInv, ReturnsOnce
<1>4. ValuesBelongToTrades' /\ ResultInOrder' /\ market' \in Seq(Nat)
  BY <1>1, <1>3 DEF IInv, SettledInOrder, ValuesBelongToTrades, ResultInOrder, Price
<1>5. PlanFollows' /\ ReturnsOnce'
  BY <1>1, <1>3 DEF PlanFollows, ReturnsOnce
<1>6. AtHand = {} /\ AtHand' = {}
  BY <1>1, PlanFacts DEF AtHand
<1>7. Priced' = Priced /\ Queued' = Queued
  BY <1>1, SamePortfolio DEF Priced, Queued
<1>8. InOnePlace'
  BY <1>1, <1>6, <1>7 DEF IInv, InOnePlace, InFlight
<1>9. QED
  BY <1>2, <1>4, <1>5, <1>8 DEF IInv, SettledInOrder

(* A slice of a sequence holds what stands at its positions. *)
Slice(s, a, b) == SubSeq(s, a + 1, b)
CutFrom(s, a, b, t) ==
  /\ Len(t) = b - a
  /\ \A k \in 1 .. b - a : t[k] = s[a + k]
  /\ \A x : x \in ToSet(t) <=> \E i \in a + 1 .. b : x = s[i]
  /\ IsInjective(s) => IsInjective(t)

LEMMA SliceFacts ==
  ASSUME NEW S, NEW s \in Seq(S), NEW a \in Nat, NEW b \in Nat, a <= b, b <= Len(s)
  PROVE  Slice(s, a, b) \in Seq(S) /\ CutFrom(s, a, b, Slice(s, a, b))
<1>t. PICK t : t = Slice(s, a, b)
  OBVIOUS
<1>1. PICK d \in Nat : d = a + 1 /\ 0 < d
  OBVIOUS
<1>2. PICK len \in Nat : len = b - a
  OBVIOUS
<1>3. /\ t \in Seq(S) /\ Len(t) = len
      /\ \A k \in 1 .. len : t[k] = s[d + k - 1]
  <2>1. t = SubSeq(s, d, b)
    BY <1>1, <1>t DEF Slice
  <2>2. /\ t \in Seq(S)
        /\ Len(t) = IF d <= b THEN b - d + 1 ELSE 0
        /\ \A k \in 1 .. Len(t) : t[k] = s[d + k - 1]
    BY <1>1, <2>1, SubSeqFacts
  <2>3. Len(t) = len
    BY <1>1, <1>2, <2>2
  <2>4. QED
    BY <2>2, <2>3
<1>4. DOMAIN t = 1 .. len
  BY <1>3, LenProperties
<1>5. PICK M \in Nat : M = Len(s) /\ DOMAIN s = 1 .. M /\ b <= M
  BY LenProperties
<1>6. \A k \in 1 .. len : d + k - 1 = a + k /\ a + k \in a + 1 .. b /\ a + k \in 1 .. M
  BY <1>1, <1>2, <1>5
<1>7. \A k \in 1 .. len : t[k] = s[a + k]
  BY <1>3, <1>6
<1>8. \A i \in a + 1 .. b : i - a \in 1 .. len /\ a + (i - a) = i
  BY <1>2
<1>9. \A i \in a + 1 .. b : \E k \in 1 .. len : s[i] = t[k]
  BY <1>7, <1>8
<1>10. ASSUME NEW x
       PROVE  x \in ToSet(t) <=> \E i \in a + 1 .. b : x = s[i]
  <2>1. x \in ToSet(t) <=> \E k \in 1 .. len : x = t[k]
    BY <1>4 DEF ToSet
  <2>2. QED
    BY <1>6, <1>7, <1>9, <2>1
<1>11. ASSUME IsInjective(s), NEW i \in 1 .. len, NEW k \in 1 .. len, t[i] = t[k]
       PROVE  i = k
  <2>1. s[a + i] = s[a + k] /\ a + i \in DOMAIN s /\ a + k \in DOMAIN s
    BY <1>5, <1>6, <1>7, <1>11
  <2>2. a + i = a + k
    BY <1>11, <2>1 DEF IsInjective
  <2>3. QED
    BY <2>2
<1>12. IsInjective(s) => IsInjective(t)
  BY <1>4, <1>11 DEF IsInjective
<1>13. QED
  BY <1>2, <1>3, <1>7, <1>10, <1>12, <1>t DEF CutFrom

LEMMA FirstChunk ==
  ASSUME NEW S, NEW s \in Seq(S), s # <<>>, NEW n \in Nat, n > 0
  PROVE  \E w \in 1 .. Len(s) :
           /\ Head(Chunks(s, n)) = Slice(s, 0, w)
           /\ Tail(Chunks(s, n)) = Chunks(Slice(s, w, Len(s)), n)
<1>1. PICK w : w = IF n < Len(s) THEN n ELSE Len(s)
  OBVIOUS
<1>2. /\ w \in 1 .. Len(s)
      /\ Head(Chunks(s, n)) = SubSeq(s, 1, w)
      /\ Tail(Chunks(s, n)) = Chunks(SubSeq(s, w + 1, Len(s)), n)
  BY <1>1, ChunksStep
<1>3. Slice(s, 0, w) = SubSeq(s, 1, w)
  BY DEF Slice
<1>4. Slice(s, w, Len(s)) = SubSeq(s, w + 1, Len(s))
  BY DEF Slice
<1>5. QED
  BY <1>2, <1>3, <1>4

(* The batch at the head of the plan stands for the next members; they are  *)
(* those that are at hand no more after it.                                 *)
LEMMA BatchFacts ==
  ASSUME IInv, pc = "executing"
  PROVE  \E e \in Nat :
           /\ e = cursor + Len(Head(batches)) /\ e <= Len(members)
           /\ Slots \in Seq(DOMAIN portfolio)
           /\ IsInjective(Slots)
           /\ \A k \in DOMAIN Slots : Head(batches)[k] = portfolio[Slots[k]]
           /\ Tail(batches) =
                Chunks(ProductsOf(SubSeq(members, e + 1, Len(members))),
                       max_batch_items)
           /\ Tail(batches) \in Seq(Seq(Products))
           /\ ToSet(Ahead) = ToSet(Slots) \cup
                             ToSet(SubSeq(members, e + 1, Len(members)))
           /\ ToSet(Slots) \cap ToSet(SubSeq(members, e + 1, Len(members))) = {}
<1>1. /\ portfolio \in Portfolios /\ members \in Seq(DOMAIN portfolio)
      /\ cursor \in 0 .. Len(members)
      /\ batches = Chunks(ProductsOf(Ahead), max_batch_items) /\ batches # <<>>
      /\ batches \in Seq(Seq(Products))
      /\ max_batch_items \in Nat /\ max_batch_items > 0
      /\ IsInjective(members)
      /\ \A i \in ToSet(members) : portfolio[i] # NotEmbedded
  BY PortfolioAssumption
     DEF IInv, SettledInOrder, TypeOK, PlanFollows, PortfolioAssumption
<1>2. PICK M \in Nat : M = Len(members) /\ DOMAIN members = 1 .. M
  BY <1>1, LenProperties
<1>3. PICK c \in Nat : c = cursor /\ c <= M
  BY <1>1, <1>2
<1>4. PICK A : A = Slice(members, c, M) /\ A = Ahead
  BY <1>2, <1>3 DEF Ahead, Slice
<1>5. /\ A \in Seq(DOMAIN portfolio) /\ Len(A) = M - c /\ A # <<>>
      /\ \A k \in 1 .. M - c : A[k] = members[c + k]
      /\ \A x : x \in ToSet(A) <=> \E i \in c + 1 .. M : x = members[i]
  <2>1. c <= M /\ M <= Len(members) /\ A # <<>>
    BY <1>1, <1>2, <1>3, <1>4, PlanFacts
  <2>2. A \in Seq(DOMAIN portfolio) /\ CutFrom(members, c, M, A)
    BY <1>1, <1>4, <2>1, SliceFacts
  <2>3. QED
    BY <2>1, <2>2 DEF CutFrom
<1>6. \A i \in 1 .. M : members[i] \in ToSet(members)
  BY <1>2 DEF ToSet
<1>7. \A i \in ToSet(A) : portfolio[i] # NotEmbedded
  <2>1. \A i \in c + 1 .. M : i \in 1 .. M
    BY <1>3
  <2>2. \A x \in ToSet(A) : \E i \in 1 .. M : x = members[i]
    BY <1>5, <2>1
  <2>3. \A x \in ToSet(A) : x \in ToSet(members)
    BY <1>6, <2>2
  <2>4. \A i \in ToSet(members) : portfolio[i] # NotEmbedded
    BY <1>1
  <2>5. QED
    BY <2>3, <2>4
<1>8. PICK P : P = ProductsOf(A)
  OBVIOUS
<1>9. /\ P \in Seq(Products) /\ Len(P) = M - c /\ P # <<>>
      /\ \A k \in 1 .. M - c : P[k] = portfolio[A[k]]
  BY <1>1, <1>5, <1>7, <1>8, ProductsOfFacts
<1>11. batches = Chunks(P, max_batch_items)
  BY <1>1, <1>4, <1>8
<1>12. PICK w \in 1 .. Len(P) :
         /\ Head(batches) = Slice(P, 0, w)
         /\ Tail(batches) = Chunks(Slice(P, w, Len(P)), max_batch_items)
  BY <1>1, <1>9, <1>11, FirstChunk
<1>13. PICK h : h = Slice(P, 0, w)
  OBVIOUS
<1>14. PICK q : q = Slice(P, w, Len(P))
  OBVIOUS
<1>15. w \in Nat /\ 1 <= w /\ w <= M - c
  BY <1>2, <1>3, <1>9
<1>16. PICK e \in Nat : e = c + w /\ e <= M /\ e - c = w /\ M - e = (M - c) - w
  BY <1>2, <1>3, <1>15
<1>17. h \in Seq(Products) /\ Len(h) = w /\ \A k \in 1 .. w : h[k] = P[k]
  <2>1. 0 \in Nat /\ 0 <= w /\ w <= Len(P) /\ w - 0 = w
    BY <1>9, <1>15
  <2>2. /\ h \in Seq(Products) /\ Len(h) = w - 0
        /\ \A k \in 1 .. w - 0 : h[k] = P[0 + k]
    <3>1. h \in Seq(Products) /\ CutFrom(P, 0, w, h)
      BY <1>9, <1>13, <1>15, <2>1, SliceFacts
    <3>2. QED
      BY <3>1 DEF CutFrom
  <2>3. \A k \in 1 .. w : 0 + k = k
    OBVIOUS
  <2>4. QED
    BY <2>1, <2>2, <2>3
<1>18. PICK t : t = Slice(members, c, e)
  OBVIOUS
<1>19. t = Slots
  BY <1>3, <1>12, <1>13, <1>16, <1>17, <1>18 DEF Slots, Slice
<1>20. /\ t \in Seq(DOMAIN portfolio) /\ Len(t) = w
       /\ \A k \in 1 .. w : t[k] = members[c + k]
       /\ \A x : x \in ToSet(t) <=> \E i \in c + 1 .. e : x = members[i]
       /\ IsInjective(t)
  <2>1. c <= e /\ e <= Len(members)
    BY <1>2, <1>15, <1>16
  <2>2. t \in Seq(DOMAIN portfolio) /\ CutFrom(members, c, e, t)
    BY <1>1, <1>18, <2>1, SliceFacts
  <2>3. QED
    BY <1>1, <1>16, <2>2 DEF CutFrom
<1>21. PICK r : r = Slice(members, e, M)
  OBVIOUS
<1>22. /\ r \in Seq(DOMAIN portfolio) /\ Len(r) = M - e
       /\ \A k \in 1 .. M - e : r[k] = members[e + k]
       /\ \A x : x \in ToSet(r) <=> \E i \in e + 1 .. M : x = members[i]
  <2>1. e <= M /\ M <= Len(members)
    BY <1>2, <1>16
  <2>2. r \in Seq(DOMAIN portfolio) /\ CutFrom(members, e, M, r)
    BY <1>1, <1>2, <1>21, <2>1, SliceFacts
  <2>3. QED
    BY <2>2 DEF CutFrom
<1>23. ToSet(A) = ToSet(t) \cup ToSet(r)
  <2>1. \A i : i \in c + 1 .. M <=> i \in c + 1 .. e \/ i \in e + 1 .. M
    BY <1>15, <1>16
  <2>2. \A x : x \in ToSet(A) => x \in ToSet(t) \/ x \in ToSet(r)
    BY <1>5, <1>20, <1>22, <2>1
  <2>3. \A x \in ToSet(t) : x \in ToSet(A)
    BY <1>5, <1>20, <2>1
  <2>4. \A x \in ToSet(r) : x \in ToSet(A)
    BY <1>5, <1>22, <2>1
  <2>5. QED
    BY <2>2, <2>3, <2>4
<1>24. ToSet(t) \cap ToSet(r) = {}
  <2>1. SUFFICES ASSUME NEW i \in c + 1 .. e, NEW k \in e + 1 .. M,
                        members[i] = members[k]
                 PROVE  FALSE
    BY <1>20, <1>22, SMTT(30)
  <2>2. i \in 1 .. M /\ k \in 1 .. M /\ i # k
    BY <1>16
  <2>3. QED
    BY <1>1, <1>2, <2>1, <2>2 DEF IsInjective
<1>25. \A k \in DOMAIN t : h[k] = portfolio[t[k]]
  <2>1. DOMAIN t = 1 .. w
    BY <1>20, LenProperties
  <2>2. \A k \in 1 .. w : k \in 1 .. M - c
    BY <1>15
  <2>3. QED
    BY <1>5, <1>9, <1>17, <1>20, <2>1, <2>2, ZenonT(60)
<1>26. q = ProductsOf(r)
  <2>1. \A i \in ToSet(r) : portfolio[i] # NotEmbedded
    BY <1>7, <1>23
  <2>2. /\ ProductsOf(r) \in Seq(Products) /\ Len(ProductsOf(r)) = M - e
        /\ \A k \in 1 .. M - e : ProductsOf(r)[k] = portfolio[r[k]]
    BY <1>1, <1>22, <2>1, ProductsOfFacts
  <2>3. w \in Nat /\ w <= Len(P) /\ Len(P) \in Nat /\ Len(P) - w = M - e
    BY <1>9, <1>15, <1>16
  <2>4. /\ q \in Seq(Products) /\ Len(q) = M - e
        /\ \A k \in 1 .. M - e : q[k] = P[w + k]
    <3>1. q \in Seq(Products) /\ CutFrom(P, w, Len(P), q)
      BY <1>9, <1>14, <2>3, SliceFacts
    <3>2. QED
      BY <2>3, <3>1 DEF CutFrom
  <2>5. ASSUME NEW k \in 1 .. M - e
        PROVE  q[k] = ProductsOf(r)[k]
    <3>1. w + k \in 1 .. M - c /\ c + (w + k) = e + k
      BY <1>3, <1>15, <1>16
    <3>2. A[w + k] = r[k]
      BY <1>5, <1>22, <3>1
    <3>3. QED
      BY <1>9, <2>2, <2>4, <3>1, <3>2
  <2>6. QED
    BY <2>2, <2>4, <2>5, SeqEqual
<1>27. Tail(batches) \in Seq(Seq(Products))
  BY <1>1, HeadTailProperties
<1>28. e = cursor + Len(Head(batches)) /\ e <= Len(members)
  BY <1>2, <1>3, <1>12, <1>13, <1>16, <1>17
<1>29. r = SubSeq(members, e + 1, Len(members))
  BY <1>2, <1>21 DEF Slice
<1>30. /\ Slots \in Seq(DOMAIN portfolio) /\ IsInjective(Slots)
       /\ \A k \in DOMAIN Slots : Head(batches)[k] = portfolio[Slots[k]]
       /\ Tail(batches) = Chunks(ProductsOf(r), max_batch_items)
       /\ ToSet(Ahead) = ToSet(Slots) \cup ToSet(r)
       /\ ToSet(Slots) \cap ToSet(r) = {}
  BY <1>4, <1>12, <1>13, <1>14, <1>19, <1>20, <1>23, <1>24, <1>25, <1>26
<1>31. QED
  BY <1>27, <1>28, <1>29, <1>30

(* What a kernel fills in are prices of the members of its batch.           *)
LEMMA ExecutedFacts ==
  ASSUME IInv, pc = "executing", Executed,
         \A k \in DOMAIN Slots : Head(batches)[k] = portfolio[Slots[k]],
         ToSet(Slots) \subseteq DOMAIN portfolio,
         \A i \in ToSet(Slots) : portfolio[i] # NotEmbedded
  PROVE  /\ values' \in [DOMAIN portfolio -> Prices \cup {NoValue}]
         /\ \A i \in DOMAIN portfolio :
              values'[i] = IF i \in ToSet(Slots)
                           THEN Price(market, portfolio[i])
                           ELSE values[i]
         /\ {i \in DOMAIN portfolio : values'[i] # NoValue} = Priced \cup ToSet(Slots)
<1>1. portfolio \in Portfolios /\ DOMAIN values = DOMAIN portfolio
      /\ values \in [DOMAIN portfolio -> Prices \cup {NoValue}]
      /\ market \in Seq(Nat)
  BY DEF IInv, SettledInOrder, TypeOK
<1>2. DOMAIN values' = DOMAIN portfolio
  BY <1>1 DEF Executed
<1>3. ASSUME NEW i \in ToSet(Slots)
      PROVE  values'[i] = Price(market, portfolio[i])
  <2>1. \E k \in DOMAIN Slots : Slots[k] = i
    BY DEF ToSet
  <2>2. PICK k : /\ k = CHOOSE n \in DOMAIN Slots : Slots[n] = i
                 /\ k \in DOMAIN Slots /\ Slots[k] = i
    BY <2>1
  <2>3. values'[i] = Price(market, Head(batches)[k])
    BY <1>1, <2>2 DEF Executed
  <2>4. QED
    BY <2>2, <2>3
<1>4. ASSUME NEW i \in DOMAIN portfolio, i \notin ToSet(Slots)
      PROVE  values'[i] = values[i]
  BY <1>1, <1>4 DEF Executed
<1>5. \A i \in ToSet(Slots) : /\ Price(market, portfolio[i]) \in Prices
                              /\ Price(market, portfolio[i]) # NoValue
  <2>1. \A i \in ToSet(Slots) : portfolio[i] \in Products
    BY <1>1, RequestFacts
  <2>2. QED
    BY <1>1, <2>1, PortfolioAssumption DEF Price, Prices, PortfolioAssumption
<1>6. {i \in DOMAIN portfolio : values'[i] # NoValue} = Priced \cup ToSet(Slots)
  BY <1>3, <1>4, <1>5 DEF Priced
<1>7. values' \in [DOMAIN portfolio -> Prices \cup {NoValue}]
  <2>1. values' = [i \in DOMAIN portfolio |-> values'[i]]
    BY <1>1 DEF Executed
  <2>2. \A i \in DOMAIN portfolio : values'[i] \in Prices \cup {NoValue}
    BY <1>1, <1>3, <1>4, <1>5
  <2>3. QED
    BY <2>1, <2>2
<1>8. QED
  BY <1>3, <1>4, <1>6, <1>7

LEMMA ExecuteBatchKeeps ==
  ASSUME IInv, ExecuteBatch
  PROVE  IInv'
<1>1. /\ UNCHANGED <<portfolio, market, cancelled, total_chunks, waiting, members,
                     answer, result>>
      /\ pc = "executing" /\ pc' = "batches"
      /\ batches' = Tail(batches) /\ cursor' = cursor + Len(Head(batches))
  BY DEF ExecuteBatch, Advance, request
<1>2. PICK e \in Nat :
        /\ e = cursor + Len(Head(batches)) /\ e <= Len(members)
        /\ Slots \in Seq(DOMAIN portfolio)
        /\ IsInjective(Slots)
        /\ \A k \in DOMAIN Slots : Head(batches)[k] = portfolio[Slots[k]]
        /\ Tail(batches) =
             Chunks(ProductsOf(SubSeq(members, e + 1, Len(members))), max_batch_items)
        /\ Tail(batches) \in Seq(Seq(Products))
        /\ ToSet(Ahead) = ToSet(Slots) \cup ToSet(SubSeq(members, e + 1, Len(members)))
        /\ ToSet(Slots) \cap ToSet(SubSeq(members, e + 1, Len(members))) = {}
  BY <1>1, BatchFacts
<1>3. PICK r : r = SubSeq(members, e + 1, Len(members))
  OBVIOUS
<1>4. Ahead' = r /\ batches' = Chunks(ProductsOf(r), max_batch_items)
  BY <1>1, <1>2, <1>3 DEF Ahead
<1>5. /\ ToSet(Ahead) = ToSet(Slots) \cup ToSet(r)
      /\ ToSet(Slots) \cap ToSet(r) = {}
  BY <1>2, <1>3
<1>6. /\ Queued' = Queued /\ AtHand = ToSet(Slots) \cup ToSet(r)
      /\ AtHand' = ToSet(r)
  BY <1>1, <1>4, <1>5, SamePortfolio DEF Queued, AtHand
<1>7. /\ IsInjective(failures) /\ failures \in Seq(DOMAIN portfolio)
      /\ ToSet(failures) \cup Priced \cup Queued \cup AtHand = DOMAIN portfolio
      /\ ToSet(failures) \cap (Priced \cup Queued \cup AtHand) = {}
      /\ Priced \cap (Queued \cup AtHand) = {}
      /\ Queued \cap AtHand = {}
  BY <1>1 DEF IInv, InOnePlace, InFlight, SettledInOrder, TypeOK
<1>8. ToSet(Slots) \subseteq DOMAIN portfolio
  BY <1>6, <1>7
<1>9. \A i \in ToSet(Slots) : portfolio[i] # NotEmbedded
  BY <1>1, <1>5, PlanFacts
<1>10. PlanFollows'
  <2>1. /\ max_batch_items > 0 /\ IsInjective(members)
        /\ \A i \in ToSet(members) : portfolio[i] # NotEmbedded
    BY <1>1 DEF IInv, PlanFollows
  <2>2. QED
    BY <1>1, <1>4, <2>1, SamePortfolio DEF PlanFollows
<1>11. answer' = "none"
  BY <1>1 DEF IInv, ReturnsOnce
<1>12. ASSUME values' \in [DOMAIN portfolio -> Prices \cup {NoValue}], failures' \in Seq(DOMAIN portfolio),
              chunks' \in Nat, processed_chunks' \in Nat
       PROVE  TypeOK'
  <2>1. cursor' \in 0 .. Len(members')
    BY <1>1, <1>2, LenProperties DEF IInv, SettledInOrder, TypeOK
  <2>2. QED
    BY <1>1, <1>2, <1>12, <2>1, SamePortfolio
       DEF IInv, SettledInOrder, TypeOK, Positions
<1>13. CASE Executed
  <2>1. /\ values' \in [DOMAIN portfolio -> Prices \cup {NoValue}]
        /\ \A i \in DOMAIN portfolio :
             values'[i] = IF i \in ToSet(Slots)
                          THEN Price(market, portfolio[i])
                          ELSE values[i]
        /\ {i \in DOMAIN portfolio : values'[i] # NoValue} = Priced \cup ToSet(Slots)
    BY <1>1, <1>2, <1>8, <1>9, <1>13, ExecutedFacts
  <2>2. failures' = failures /\ chunks' \in Nat /\ processed_chunks' \in Nat
    BY <1>13 DEF Executed, IInv, SettledInOrder, TypeOK
  <2>3. TypeOK'
    BY <1>7, <1>12, <2>1, <2>2
  <2>4. ValuesBelongToTrades'
    <3>1. \A i \in DOMAIN portfolio :
            values[i] # NoValue => values[i] = Price(market, portfolio[i])
      BY DEF IInv, SettledInOrder, ValuesBelongToTrades
    <3>2. \A i \in DOMAIN portfolio :
            values'[i] # NoValue => values'[i] = Price(market, portfolio[i])
      BY <2>1, <3>1
    <3>3. QED
      BY <1>1, <3>2 DEF ValuesBelongToTrades, Price
  <2>5. Priced' = Priced \cup ToSet(Slots)
    BY <1>1, <2>1 DEF Priced
  <2>6. InOnePlace'
    BY <1>1, <1>5, <1>6, <1>7, <2>2, <2>5 DEF InOnePlace
  <2>7. QED
    BY <1>1, <1>10, <1>11, <2>3, <2>4, <2>6
       DEF IInv, SettledInOrder, ResultInOrder, ReturnsOnce
<1>14. CASE Failed
  <2>1. /\ failures' = failures \o Slots
        /\ UNCHANGED <<values, chunks, processed_chunks>>
    BY <1>14 DEF Failed
  <2>2. ToSet(failures) \cap ToSet(Slots) = {}
    BY <1>6, <1>7
  <2>3. /\ failures' \in Seq(DOMAIN portfolio)
        /\ IsInjective(failures')
        /\ ToSet(failures') = ToSet(failures) \cup ToSet(Slots)
    BY <1>2, <1>7, <2>1, <2>2, MoreFailures
  <2>4. TypeOK'
    BY <1>12, <2>1, <2>3 DEF IInv, SettledInOrder, TypeOK
  <2>5. ValuesBelongToTrades'
    BY <1>1, <2>1 DEF IInv, SettledInOrder, ValuesBelongToTrades, Price
  <2>6. Priced' = Priced
    BY <1>1, <2>1 DEF Priced
  <2>7. InOnePlace'
    BY <1>1, <1>5, <1>6, <1>7, <2>3, <2>6 DEF InOnePlace
  <2>8. QED
    BY <1>1, <1>10, <1>11, <2>4, <2>5, <2>7
       DEF IInv, SettledInOrder, ResultInOrder, ReturnsOnce
<1>15. QED
  BY <1>13, <1>14 DEF ExecuteBatch

(* When no group is left, a trade has a value or a failure. *)
LEMMA AllSettled ==
  ASSUME IInv, pc = "groups", waiting = {}
  PROVE  /\ ToSet(failures) \cup Priced = DOMAIN portfolio
         /\ ToSet(failures) \cap Priced = {}
<1>1. Queued = {} /\ AtHand = {}
  BY DEF Queued, AtHand
<1>2. QED
  BY <1>1 DEF IInv, InOnePlace, InFlight

LEMMA ReportKeeps ==
  ASSUME IInv, Report
  PROVE  IInv'
<1>1. /\ UNCHANGED <<portfolio, market, cancelled, processed_chunks, total_chunks,
                     waiting, members, batches, cursor, values, failures, chunks>>
      /\ pc = "groups" /\ waiting = {}
      /\ answer' = "Ok" /\ pc' = "done"
  BY DEF Report, request, control, plan, books
<1>2. /\ portfolio \in Portfolios /\ failures \in Seq(DOMAIN portfolio)
      /\ IsInjective(failures) /\ chunks \in Nat /\ market \in Seq(Nat)
  BY <1>1 DEF IInv, SettledInOrder, TypeOK, InOnePlace, InFlight
<1>3. PICK v : v = Valued
  OBVIOUS
<1>4. v \in Seq(Priced) /\ ToSet(v) = Priced /\ Ascending(v)
  <2>1. Priced \in SUBSET DOMAIN portfolio
    BY DEF Priced
  <2>2. QED
    BY <1>2, <1>3, <2>1, PassFacts DEF Valued
<1>5. PICK f : f = Sorted(failures)
  OBVIOUS
<1>6. ToSet(f) = ToSet(failures) /\ Ascending(f) /\ DOMAIN f = DOMAIN failures
  <2>1. failures \in Seq(Nat)
    BY <1>2, RequestFacts, SeqMonotonic
  <2>2. QED
    BY <1>2, <1>5, <2>1, SortedFacts
<1>7. f \in Seq(DOMAIN portfolio)
  <2>1. PICK n \in Nat : DOMAIN failures = 1 .. n /\ \A i \in 1 .. n : failures[i] \in DOMAIN portfolio
    <3>1. /\ Len(failures) \in Nat /\ DOMAIN failures = 1 .. Len(failures)
          /\ \A i \in 1 .. Len(failures) : failures[i] \in DOMAIN portfolio
      BY <1>2, LenProperties, ElementOfSeq
    <3>2. QED
      BY <3>1
  <2>2. \A i \in 1 .. n : f[i] \in DOMAIN portfolio
    BY <1>6, <2>1 DEF ToSet
  <2>3. f = [i \in 1 .. n |-> f[i]]
    BY <1>5, <1>6, <2>1 DEF Sorted
  <2>4. f \in [1 .. n -> DOMAIN portfolio]
    BY <2>2, <2>3
  <2>5. QED
    BY <2>4, FunctionIsSeq
<1>8. PICK t : t = [k \in DOMAIN v |-> [index |-> v[k], value |-> values[v[k]]]]
  OBVIOUS
<1>9. result' = [trades |-> t, failures |-> f, chunks |-> chunks]
  BY <1>3, <1>5, <1>8 DEF Report
<1>10. PICK m \in Nat : DOMAIN v = 1 .. m /\ \A k \in 1 .. m : v[k] \in Priced
  <2>1. /\ Len(v) \in Nat /\ DOMAIN v = 1 .. Len(v)
        /\ \A k \in 1 .. Len(v) : v[k] \in Priced
    BY <1>4, LenProperties, ElementOfSeq
  <2>2. QED
    BY <2>1
<1>11. \A k \in 1 .. m : /\ t[k].index = v[k] /\ v[k] \in DOMAIN portfolio
                         /\ t[k].value = Price(market, portfolio[v[k]])
  BY <1>8, <1>10 DEF IInv, SettledInOrder, ValuesBelongToTrades, Priced
<1>12. t \in Seq([index : DOMAIN portfolio, value : Prices])
  <2>1. \A i \in Priced : values[i] \in Prices
    BY DEF Priced, IInv, SettledInOrder, TypeOK
  <2>2. \A k \in 1 .. m : t[k] \in [index : DOMAIN portfolio, value : Prices]
    BY <1>8, <1>10, <1>11, <2>1
  <2>3. t \in [1 .. m -> [index : DOMAIN portfolio, value : Prices]]
    BY <1>8, <1>10, <2>2
  <2>4. QED
    BY <2>3, FunctionIsSeq
<1>13. result' \in Results
  BY <1>2, <1>7, <1>9, <1>12 DEF Results
<1>14. TypeOK'
  BY <1>1, <1>13, SamePortfolio DEF IInv, SettledInOrder, TypeOK, Positions, Answers
<1>15. ValuesBelongToTrades'
  BY <1>1 DEF IInv, SettledInOrder, ValuesBelongToTrades, Price
<1>16. NamesEachTrade(result)'
  <2>1. [k \in DOMAIN result'.trades |-> result'.trades[k].index] = v
    <3>1. v = [k \in DOMAIN v |-> v[k]]
      BY <1>4
    <3>2. DOMAIN t = DOMAIN v /\ \A k \in DOMAIN v : t[k].index = v[k]
      BY <1>8
    <3>3. QED
      BY <1>9, <3>1, <3>2
  <2>2. ToSet(v) \cap ToSet(f) = {} /\ ToSet(v) \cup ToSet(f) = DOMAIN portfolio
    BY <1>1, <1>4, <1>6, AllSettled
  <2>3. QED
    BY <1>1, <1>4, <1>6, <1>9, <2>1, <2>2 DEF NamesEachTrade
<1>17. PricedIn(market, result)'
  <2>1. DOMAIN t = 1 .. m
    BY <1>8, <1>10
  <2>2. QED
    BY <1>1, <1>9, <1>11, <2>1 DEF PricedIn, Price
<1>18. QED
  BY <1>1, <1>14, <1>15, <1>16, <1>17
     DEF IInv, SettledInOrder, ResultInOrder, PlanFollows, InOnePlace, InFlight,
         ReturnsOnce

LEMMA PricingKeeps ==
  ASSUME IInv, Pricing
  PROVE  IInv'
BY TakeGroupKeeps, TakeBatchKeeps, GroupDoneKeeps, ExecuteBatchKeeps, ReportKeeps
   DEF Pricing

LEMMA StepKeeps ==
  ASSUME IInv, [Next]_vars
  PROVE  IInv'
<1>1. <<>> \in Seq(Nat)
  OBVIOUS
<1>2. QED
  BY <1>1, CancelKeeps, BeginKeeps, PricingKeeps, StutterKeeps DEF Next

(* The cursor and the plan never drift apart, and a trade is always in one  *)
(* place: not taken yet, at hand, priced or failed.                         *)
THEOREM Invariance == Spec => []IInv
<1>1. Init => IInv
  BY InvariantAtStart
<1>2. IInv /\ [Next]_vars => IInv'
  BY StepKeeps
<1>3. QED
  BY <1>1, <1>2, PTL DEF Spec

(* Whichever trades, groups and batches fail, and whenever the run is       *)
(* cancelled: a value is the price of its own trade in this call's market,  *)
(* and a returned result names every trade once, in order.                  *)
THEOREM SettlesInOrder == Spec => []SettledInOrder
<1>1. IInv => SettledInOrder
  BY DEF IInv
<1>2. QED
  BY <1>1, Invariance, PTL

-----------------------------------------------------------------------------
(* The refinement.  A step that settles trades leaves the settled ones as   *)
(* they are.                                                                *)

LEMMA SettlingStep ==
  ASSUME portfolio' = portfolio, answer = "none", answer' = "none",
         ToSet(failures) \subseteq ToSet(failures'), Priced \subseteq Priced',
         ToSet(failures') \cap Priced' = {}
  PROVE  Settled!Settle
<1> DEFINE now == [i \in DOMAIN portfolio |->
                     IF i \in ToSet(failures) THEN "failed"
                     ELSE IF values[i] # NoValue THEN "valued"
                     ELSE "open"]
           next == [i \in DOMAIN portfolio' |->
                      IF i \in ToSet(failures') THEN "failed"
                      ELSE IF values'[i] # NoValue THEN "valued"
                      ELSE "open"]
           open == {i \in DOMAIN now : now[i] = "open"}
           fate == [i \in open |-> next[i]]
<1>1. DOMAIN now = DOMAIN portfolio /\ DOMAIN next = DOMAIN portfolio
  OBVIOUS
<1>2. ASSUME NEW i \in DOMAIN portfolio, now[i] # "open"
      PROVE  next[i] = now[i]
  <2>1. i \in ToSet(failures) \/ i \in Priced
    BY <1>2 DEF Priced
  <2>2. CASE i \in ToSet(failures)
    BY <2>2
  <2>3. CASE i \in Priced
    <3>1. i \in Priced' /\ i \notin ToSet(failures') /\ i \notin ToSet(failures)
      BY <2>3
    <3>2. values[i] # NoValue /\ values'[i] # NoValue
      BY <2>3, <3>1 DEF Priced
    <3>3. QED
      BY <3>1, <3>2
  <2>4. QED
    BY <2>1, <2>2, <2>3
<1>3. fate \in [open -> {"open", "valued", "failed"}]
  OBVIOUS
<1>4. next = [i \in DOMAIN now |-> IF i \in open THEN fate[i] ELSE now[i]]
  <2>1. \A i \in DOMAIN portfolio : i \notin open => next[i] = now[i]
    BY <1>1, <1>2
  <2>2. \A i \in DOMAIN portfolio : i \in open => fate[i] = next[i]
    OBVIOUS
  <2> HIDE DEF now, open, fate
  <2>3. next = [i \in DOMAIN portfolio |-> next[i]]
    OBVIOUS
  <2> HIDE DEF next
  <2>4. QED
    BY <1>1, <2>1, <2>2, <2>3
<1>5. \E f \in [open -> {"open", "valued", "failed"}] :
        next = [i \in DOMAIN now |-> IF i \in open THEN f[i] ELSE now[i]]
  BY <1>3, <1>4
<1>6. QED
  BY <1>5 DEF Settled!Settle, Settled!Open

(* Before the call begins, every trade is open. *)
Fresh == pc = "idle" => failures = <<>> /\ Priced = {}

LEMMA FreshStep ==
  ASSUME Fresh, [Next]_vars
  PROVE  Fresh'
<1>1. ASSUME NEW why, Refuse(why)
      PROVE  pc' = "done"
  BY <1>1 DEF Refuse
<1>2. \/ pc' = pc /\ UNCHANGED <<portfolio, values, failures>>
      \/ pc' # "idle"
  BY <1>1 DEF Next, Cancel, Begin, Pricing, TakeGroup, TakeBatch, GroupDone,
              ExecuteBatch, Report, vars, request, books, plan
<1>3. QED
  BY <1>2 DEF Fresh, Priced

LEMMA RefuseStops ==
  ASSUME IInv, pc # "done", NEW why \in {"Cancelled", "InvalidRequest"}, Refuse(why)
  PROVE  Settled!Stop
BY DEF IInv, ReturnsOnce, Refuse, request, books, Settled!Stop

LEMMA BeginSettles ==
  ASSUME IInv, Fresh, Begin(<<>>), pc' = "groups"
  PROVE  Settled!Settle
<1>1. /\ portfolio' = portfolio /\ answer' = answer /\ failures' = Missing
      /\ \A i \in DOMAIN portfolio : values'[i] = NoValue
      /\ pc = "idle"
  BY DEF Begin, Refuse, Group
<1>2. failures = <<>> /\ Priced = {} /\ answer = "none"
  BY <1>1 DEF Fresh, IInv, ReturnsOnce
<1>3. ToSet(failures) = {}
  BY <1>2 DEF ToSet
<1>4. Priced' = {}
  BY <1>1 DEF Priced
<1>5. QED
  BY <1>1, <1>2, <1>3, <1>4, SettlingStep

LEMMA GroupSettles ==
  ASSUME IInv, IInv', TakeGroup, ~Refuse("Cancelled")
  PROVE  Settled!Settle
<1>1. /\ UNCHANGED <<portfolio, values, answer>> /\ pc = "groups"
      /\ pc' \in {"groups", "batches"}
      /\ failures' = failures \/ failures' = failures \o Members(NextLayout)
  BY DEF TakeGroup, request, plan
<1>2. Priced' = Priced /\ answer = "none"
  BY <1>1 DEF Priced, IInv, ReturnsOnce
<1>3. ToSet(failures') \cap Priced' = {}
  BY <1>1 DEF IInv, InOnePlace, InFlight
<1>4. portfolio \in Portfolios /\ failures \in Seq(DOMAIN portfolio)
      /\ Members(NextLayout) \in Seq(DOMAIN portfolio)
  BY MembersFacts DEF IInv, SettledInOrder, TypeOK
<1>5. ToSet(failures) \subseteq ToSet(failures')
  BY <1>1, <1>4, Appended
<1>6. QED
  BY <1>1, <1>2, <1>3, <1>5, SettlingStep

LEMMA BatchSettles ==
  ASSUME IInv, IInv', ExecuteBatch
  PROVE  Settled!Settle
<1>1. /\ UNCHANGED <<portfolio, answer>> /\ pc = "executing" /\ pc' = "batches"
  BY DEF ExecuteBatch, request
<1>2. /\ Slots \in Seq(DOMAIN portfolio) /\ ToSet(Slots) \subseteq AtHand
      /\ failures \in Seq(DOMAIN portfolio)
  BY <1>1, BatchFacts DEF AtHand, IInv, SettledInOrder, TypeOK
<1>3. ToSet(failures) \subseteq ToSet(failures')
  BY <1>2, Appended DEF ExecuteBatch, Executed, Failed
<1>4. Priced \cap ToSet(Slots) = {} /\ DOMAIN values = DOMAIN portfolio
  BY <1>1, <1>2 DEF IInv, InOnePlace, InFlight, SettledInOrder, TypeOK
<1>5. \A i \in Priced : values'[i] = values[i]
  BY <1>4 DEF ExecuteBatch, Executed, Failed, Priced
<1>6. Priced \subseteq Priced'
  BY <1>1, <1>5 DEF Priced
<1>7. ToSet(failures') \cap Priced' = {}
  BY <1>1 DEF IInv, InOnePlace, InFlight
<1>8. answer = "none"
  BY <1>1 DEF IInv, ReturnsOnce
<1>9. QED
  BY <1>1, <1>3, <1>6, <1>7, <1>8, SettlingStep

LEMMA ReportCompletes ==
  ASSUME IInv, Report
  PROVE  Settled!Complete
<1>1. /\ UNCHANGED <<portfolio, values, failures>> /\ answer' = "Ok"
      /\ pc = "groups" /\ waiting = {}
  BY DEF Report, request, books
<1>2. answer = "none"
  BY <1>1 DEF IInv, ReturnsOnce
<1>3. \A i \in DOMAIN portfolio : i \in ToSet(failures) \/ values[i] # NoValue
  BY <1>1, AllSettled DEF Priced
<1>4. QED
  BY <1>1, <1>2, <1>3 DEF Settled!Complete, Settled!Open

LEMMA StepRefines ==
  ASSUME IInv, IInv', Fresh, [Next]_vars
  PROVE  [Settled!Next]_(Settled!vars)
<1>1. ASSUME UNCHANGED <<portfolio, values, failures, answer>>
      PROVE  UNCHANGED Settled!vars
  BY <1>1 DEF Settled!vars
<1>2. CASE Cancel \/ UNCHANGED vars
  BY <1>1, <1>2 DEF Cancel, vars, request, books
<1>3. CASE Begin(<<>>)
  <2>1. CASE pc' = "groups"
    BY <1>3, <2>1, BeginSettles DEF Settled!Next
  <2>2. CASE pc' # "groups"
    <3>1. pc = "idle" /\ (Refuse("Cancelled") \/ Refuse("InvalidRequest"))
      BY <1>3, <2>2 DEF Begin
    <3>2. QED
      BY <3>1, RefuseStops DEF Settled!Next
  <2>3. QED
    BY <2>1, <2>2
<1>4. CASE TakeGroup
  <2>1. CASE Refuse("Cancelled")
    BY <1>4, <2>1, RefuseStops DEF TakeGroup, Settled!Next
  <2>2. CASE ~Refuse("Cancelled")
    BY <1>4, <2>2, GroupSettles DEF Settled!Next
  <2>3. QED
    BY <2>1, <2>2
<1>5. CASE TakeBatch
  <2>1. CASE Refuse("Cancelled")
    BY <1>5, <2>1, RefuseStops DEF TakeBatch, Settled!Next
  <2>2. CASE ~Refuse("Cancelled")
    BY <1>1, <1>5, <2>2 DEF TakeBatch, request, books
  <2>3. QED
    BY <2>1, <2>2
<1>6. CASE GroupDone
  BY <1>1, <1>6 DEF GroupDone, request, books
<1>7. CASE ExecuteBatch
  BY <1>7, BatchSettles DEF Settled!Next
<1>8. CASE Report
  BY <1>8, ReportCompletes DEF Settled!Next
<1>9. QED
  BY <1>2, <1>3, <1>4, <1>5, <1>6, <1>7, <1>8 DEF Next, Pricing

LEMMA StartRefines ==
  ASSUME Init
  PROVE  Settled!Init
<1>1. /\ portfolio \in Portfolios /\ failures = <<>> /\ answer = "none"
      /\ \A i \in DOMAIN portfolio : values[i] = NoValue
  BY DEF Init
<1>2. DOMAIN portfolio = 1 .. Len(portfolio)
  BY <1>1, RequestFacts
<1>3. ToSet(failures) = {}
  BY <1>1 DEF ToSet
<1>4. Len(portfolio) \in {Len(p) : p \in Portfolios}
  BY <1>1
<1>5. [i \in DOMAIN portfolio |->
         IF i \in ToSet(failures) THEN "failed"
         ELSE IF values[i] # NoValue THEN "valued"
         ELSE "open"] = [i \in 1 .. Len(portfolio) |-> "open"]
  BY <1>1, <1>2, <1>3
<1>6. QED
  BY <1>1, <1>4, <1>5 DEF Settled!Init

(* With any layouts, batches and failures, pricing settles each trade once, *)
(* and returns a result only when every trade is settled.                   *)
THEOREM SettlementRefinement == Spec => ImplementsSettlement
<1>1. Init => IInv /\ Fresh /\ Settled!Init
  <2>1. Init => Fresh
    BY DEF Init, Fresh, Priced
  <2>2. QED
    BY <2>1, InvariantAtStart, StartRefines
<1>2. IInv /\ Fresh /\ [Next]_vars => IInv' /\ Fresh' /\ [Settled!Next]_(Settled!vars)
  BY StepKeeps, FreshStep, StepRefines
<1>3. QED
  BY <1>1, <1>2, PTL DEF Spec, ImplementsSettlement, Settled!Spec

-----------------------------------------------------------------------------
(* The run over the scenarios. *)

(* What is said of a result depends on the portfolio alone. *)
LEMMA SameResults ==
  ASSUME portfolio' = portfolio
  PROVE  /\ Results' = Results
         /\ \A r : NamesEachTrade(r)' = NamesEachTrade(r)
         /\ \A m, r : PricedIn(m, r)' = PricedIn(m, r)
BY DEF Results, NamesEachTrade, PricedIn, Price

LEMMA RowsKept ==
  ASSUME RunIInv, UNCHANGED <<portfolio, count, wanted_chunk, rows, run_failures,
                              run_chunks>>
  PROVE  /\ \A k \in DOMAIN rows' : RowFaithful(k)'
         /\ RepeatsFailures'
         /\ rows' \in Seq([scenario : Nat, priced : Results'])
         /\ run_failures' \in Seq(Nat \X DOMAIN portfolio')
         /\ count' \in 0 .. MaxScenarios
         /\ wanted_chunk' \in Nat \cup {NoChunkSize}
         /\ run_chunks' \in Nat
BY SameResults DEF RunIInv, RowsFaithful, RowFaithful, RepeatsFailures, RunTypeOK,
                   Earlier

LEMMA RunStart ==
  ASSUME RunInit
  PROVE  RunIInv
<1>1. IInv
  BY InvariantAtStart DEF RunInit
<1>2. RunTypeOK
  BY RunAssumption DEF RunInit, RunTypeOK, RunStates, RunAssumption
<1>3. CallsFollow
  BY DEF RunInit, Init, CallsFollow
<1>4. RowsFaithful
  <2>1. DOMAIN rows = {} /\ DOMAIN run_failures = {} /\ ToSet(run_failures) = {}
    BY DEF RunInit, ToSet
  <2>2. RepeatsFailures
    BY <2>1 DEF RepeatsFailures
  <2>3. QED
    BY <2>1, <2>2 DEF RowsFaithful, RunInit
<1>5. QED
  BY <1>1, <1>2, <1>3, <1>4 DEF RunIInv

(* A step of the loop that leaves the call alone. *)
LEMMA LoopStep ==
  ASSUME RunIInv, IInv', chunk_size' \in Nat, run' \in RunStates,
         position' \in 0 .. count, CallsFollow',
         UNCHANGED <<portfolio, count, wanted_chunk, rows, run_failures, run_chunks>>
  PROVE  RunIInv'
<1>1. /\ \A k \in DOMAIN rows' : RowFaithful(k)'
      /\ RepeatsFailures'
      /\ rows' \in Seq([scenario : Nat, priced : Results'])
      /\ run_failures' \in Seq(Nat \X DOMAIN portfolio')
      /\ count' \in 0 .. MaxScenarios
      /\ wanted_chunk' \in Nat \cup {NoChunkSize}
      /\ run_chunks' \in Nat
  BY RowsKept
<1>2. RunTypeOK'
  BY <1>1 DEF RunTypeOK
<1>3. run' = "Ok" => Len(rows') = count'
  BY DEF CallsFollow
<1>4. QED
  BY <1>1, <1>2, <1>3 DEF RunIInv, RowsFaithful

LEMMA AbortKeeps ==
  ASSUME RunIInv, IInv', NEW why \in {"Cancelled", "InvalidRequest"}, Abort(why),
         pc' = "idle", portfolio' = portfolio
  PROVE  RunIInv'
<1>1. /\ UNCHANGED <<count, wanted_chunk, chunk_size, position, rows, run_failures,
                     run_chunks>>
      /\ run' = why
  BY DEF Abort
<1>2. CallsFollow'
  BY <1>1 DEF CallsFollow
<1>3. chunk_size' \in Nat /\ run' \in RunStates /\ position' \in 0 .. count
  BY <1>1 DEF RunIInv, RunTypeOK, RunStates
<1>4. QED
  BY <1>1, <1>2, <1>3, LoopStep

LEMMA StartRunKeeps ==
  ASSUME RunIInv, StartRun
  PROVE  RunIInv'
<1>1. run = "idle" /\ pc = "idle" /\ IInv /\ Len(rows) = position
  BY DEF StartRun, RunIInv, CallsFollow
<1>2. CASE Abort("Cancelled") /\ UNCHANGED vars
  <2>1. IInv' /\ pc' = pc /\ portfolio' = portfolio
    BY <1>1, <1>2, StutterKeeps DEF vars, request
  <2>2. QED
    BY <1>1, <1>2, <2>1, AbortKeeps
<1>3. CASE /\ run' = "looping"
           /\ chunk_size' = ChunkSize(wanted_chunk)
           /\ total_chunks' =
                count * CeilDiv(Len(portfolio), AtLeastOne(max_batch_items))
           /\ UNCHANGED <<request, cancelled, processed_chunks, pc, waiting, plan,
                          books, answer, result, count, wanted_chunk, position,
                          rows, run_failures, run_chunks>>
  <2>1. max_batch_items \in Nat /\ portfolio \in Portfolios
        /\ count \in Nat /\ wanted_chunk \in Nat \cup {NoChunkSize}
        /\ position \in 0 .. count
    BY PortfolioAssumption, RunAssumption
       DEF PortfolioAssumption, RunAssumption, RunIInv, RunTypeOK, IInv,
           SettledInOrder, TypeOK
  <2>2. \A n \in Nat : AtLeastOne(n) \in Nat /\ AtLeastOne(n) > 0
    BY DEF AtLeastOne
  <2>3. CeilDiv(Len(portfolio), AtLeastOne(max_batch_items)) \in Nat
    BY <2>1, <2>2, RequestFacts, CeilDivFacts
  <2>4. total_chunks' \in Nat
    BY <1>3, <2>1, <2>3
  <2>5. chunk_size' \in Nat
    BY <1>3, <2>1, <2>2 DEF ChunkSize
  <2>6. UNCHANGED <<portfolio, market, pc, waiting, members, batches, cursor,
                    values, failures, chunks, answer, result, cancelled,
                    processed_chunks, count, wanted_chunk, position, rows,
                    run_failures, run_chunks>>
    BY <1>3 DEF request, plan, books
  <2>7. IInv'
    BY <1>1, <2>4, <2>6, FrameKeeps DEF IInv, SettledInOrder, TypeOK
  <2>8. CallsFollow'
    BY <1>1, <1>3, <2>6 DEF CallsFollow
  <2>9. QED
    BY <1>3, <2>1, <2>5, <2>6, <2>7, <2>8, LoopStep DEF RunStates
<1>4. QED
  BY <1>2, <1>3 DEF StartRun

LEMMA NextScenarioKeeps ==
  ASSUME RunIInv, NextScenario
  PROVE  RunIInv'
<1>1. run = "looping" /\ pc = "idle" /\ IInv /\ Len(rows) = position
      /\ position < count /\ position \in 0 .. count /\ count \in Nat
      /\ chunk_size \in Nat
  BY RunAssumption DEF NextScenario, RunIInv, CallsFollow, RunTypeOK, RunAssumption
<1>2. UNCHANGED vars
  BY DEF NextScenario
<1>3. IInv' /\ UNCHANGED <<pc, portfolio, answer>>
  BY <1>1, <1>2, StutterKeeps DEF vars, request
<1>4. CASE Abort("Cancelled")
  BY <1>1, <1>3, <1>4, AbortKeeps
<1>5. CASE /\ run' = "pricing"
           /\ position' = position + 1
           /\ UNCHANGED <<vars, count, wanted_chunk, chunk_size, rows,
                          run_failures, run_chunks>>
  <2>1. position' \in 0 .. count
    BY <1>1, <1>5
  <2>2. ~InFlight' /\ answer' # "Ok"
    BY <1>1, <1>3 DEF InFlight, IInv, ReturnsOnce
  <2>3. CallsFollow'
    BY <1>1, <1>5, <2>2 DEF CallsFollow
  <2>4. QED
    BY <1>1, <1>3, <1>5, <2>1, <2>3, LoopStep DEF RunStates
<1>6. QED
  BY <1>4, <1>5 DEF NextScenario

(* A call keeps its market until it returns a result. *)
LEMMA CallFacts ==
  ASSUME IInv, NEW m, Begin(m) \/ Pricing
  PROVE  /\ portfolio' = portfolio
         /\ InFlight' \/ answer' = "Ok" => market' = IF pc = "idle" THEN m ELSE market
         /\ pc # "idle" => InFlight
<1>1. ASSUME NEW why \in {"Cancelled", "InvalidRequest"}, Refuse(why)
      PROVE  portfolio' = portfolio /\ ~InFlight' /\ answer' # "Ok"
  BY <1>1 DEF Refuse, request, InFlight
<1>2. CASE Begin(m)
  <2>1. pc = "idle"
    BY <1>2 DEF Begin
  <2>2. CASE Refuse("Cancelled") \/ Refuse("InvalidRequest")
    BY <1>1, <2>1, <2>2
  <2>3. CASE market' = m /\ portfolio' = portfolio
    BY <2>1, <2>3
  <2>4. QED
    BY <1>2, <2>2, <2>3 DEF Begin
<1>3. CASE Pricing
  <2>1. InFlight /\ pc # "idle"
    BY <1>3 DEF Pricing, TakeGroup, TakeBatch, GroupDone, ExecuteBatch, Report,
                InFlight
  <2>2. CASE Refuse("Cancelled")
    BY <1>1, <2>1, <2>2
  <2>3. CASE UNCHANGED request
    BY <2>1, <2>3 DEF request
  <2>4. QED
    BY <1>3, <2>2, <2>3
       DEF Pricing, TakeGroup, TakeBatch, GroupDone, ExecuteBatch, Report
<1>4. QED
  BY <1>2, <1>3

LEMMA PriceScenarioKeeps ==
  ASSUME RunIInv, PriceScenario
  PROVE  RunIInv'
<1>1. /\ UNCHANGED <<count, wanted_chunk, chunk_size, run, position, rows,
                     run_failures, run_chunks>>
      /\ Begin(ScenarioMarket) \/ Pricing
      /\ run = "pricing"
  BY DEF PriceScenario, outer
<1>2. IInv /\ position \in 0 .. count /\ count \in 0 .. MaxScenarios
      /\ chunk_size \in Nat /\ Len(rows) + 1 = position
      /\ (InFlight => market = <<position>>)
  BY <1>1 DEF RunIInv, RunTypeOK, CallsFollow
<1>3. ScenarioMarket \in Seq(Nat) /\ ScenarioMarket = <<position>>
  BY <1>2, RunAssumption DEF ScenarioMarket, RunAssumption
<1>4. IInv'
  BY <1>1, <1>2, <1>3, BeginKeeps, PricingKeeps
<1>5. /\ portfolio' = portfolio
      /\ InFlight' \/ answer' = "Ok" => market' = <<position>>
  BY <1>1, <1>2, <1>3, CallFacts
<1>6. CallsFollow'
  BY <1>1, <1>2, <1>5 DEF CallsFollow
<1>7. QED
  BY <1>1, <1>2, <1>4, <1>5, <1>6, LoopStep DEF RunStates

LEMMA FinishRunKeeps ==
  ASSUME RunIInv, FinishRun
  PROVE  RunIInv'
<1>1. /\ run = "looping" /\ position = count /\ run' = "Ok"
      /\ UNCHANGED <<vars, count, wanted_chunk, chunk_size, position, rows,
                     run_failures, run_chunks>>
  BY DEF FinishRun
<1>2. IInv /\ pc = "idle" /\ Len(rows) = position /\ position \in 0 .. count
      /\ chunk_size \in Nat
  BY <1>1 DEF RunIInv, RunTypeOK, CallsFollow
<1>3. IInv' /\ portfolio' = portfolio /\ pc' = pc
  BY <1>1, <1>2, StutterKeeps DEF vars, request
<1>4. CallsFollow'
  BY <1>1, <1>2, <1>3 DEF CallsFollow
<1>5. QED
  BY <1>1, <1>2, <1>3, <1>4, LoopStep DEF RunStates

(* u is the n elements of s, then the m elements of t. *)
Joined(s, t, u, n, m) ==
  /\ DOMAIN s = 1 .. n /\ DOMAIN t = 1 .. m /\ DOMAIN u = 1 .. n + m
  /\ \A i \in 1 .. n : i \in 1 .. n + m /\ u[i] = s[i]
  /\ \A i \in 1 .. m : n + i \in 1 .. n + m /\ u[n + i] = t[i]
  /\ \A i \in 1 .. n + m : i \in 1 .. n \/ \E k \in 1 .. m : i = n + k
  /\ ToSet(u) = ToSet(s) \cup ToSet(t)

LEMMA Concatenated ==
  ASSUME NEW S, NEW s \in Seq(S), NEW t \in Seq(S)
  PROVE  \E n, m \in Nat : s \o t \in Seq(S) /\ Joined(s, t, s \o t, n, m)
<1>1. PICK n \in Nat : n = Len(s) /\ DOMAIN s = 1 .. n
  BY LenProperties
<1>2. PICK m \in Nat : m = Len(t) /\ DOMAIN t = 1 .. m
  BY LenProperties
<1>3. PICK u \in Seq(S) : u = s \o t
  BY ConcatProperties
<1>4. /\ DOMAIN u = 1 .. n + m
      /\ \A i \in 1 .. n + m : u[i] = IF i <= n THEN s[i] ELSE t[i - n]
  BY <1>1, <1>2, <1>3, ConcatProperties, LenProperties
<1>5. \A i \in 1 .. n : i \in 1 .. n + m /\ u[i] = s[i]
  BY <1>4
<1>6. \A i \in 1 .. m : n + i \in 1 .. n + m /\ u[n + i] = t[i]
  <2>1. \A i \in 1 .. m : /\ n + i \in 1 .. n + m /\ ~(n + i <= n)
                          /\ (n + i) - n = i
    OBVIOUS
  <2>2. QED
    BY <1>4, <2>1
<1>7. ASSUME NEW i \in 1 .. n + m, i \notin 1 .. n
      PROVE  \E k \in 1 .. m : i = n + k
  <2>1. i - n \in 1 .. m /\ i = n + (i - n)
    BY <1>7
  <2>2. QED
    BY <2>1
<1>8. ToSet(u) = ToSet(s) \cup ToSet(t)
  <2>1. \A x \in ToSet(s) : x \in ToSet(u)
    BY <1>1, <1>4, <1>5 DEF ToSet
  <2>2. ASSUME NEW x \in ToSet(t)
        PROVE  x \in ToSet(u)
    <3>1. PICK k \in 1 .. m : x = t[k]
      BY <1>2 DEF ToSet
    <3>2. n + k \in DOMAIN u /\ u[n + k] = x
      BY <1>4, <1>6, <3>1
    <3>3. QED
      BY <3>2 DEF ToSet
  <2>3. ASSUME NEW i \in 1 .. n + m
        PROVE  u[i] \in ToSet(s) \/ u[i] \in ToSet(t)
    <3>1. CASE i \in 1 .. n
      BY <1>1, <1>5, <3>1 DEF ToSet
    <3>2. CASE i \notin 1 .. n
      <4>1. PICK k \in 1 .. m : i = n + k
        BY <1>7, <3>2
      <4>2. k \in DOMAIN t /\ u[i] = t[k]
        BY <1>2, <1>6, <4>1
      <4>3. QED
        BY <4>2 DEF ToSet
    <3>3. QED
      BY <3>1, <3>2
  <2>4. \A x \in ToSet(u) : x \in ToSet(s) \/ x \in ToSet(t)
    BY <1>4, <2>3 DEF ToSet
  <2>5. QED
    BY <2>1, <2>2, <2>4
<1>9. \A i \in 1 .. n + m : i \in 1 .. n \/ \E k \in 1 .. m : i = n + k
  BY <1>7
<1>10. Joined(s, t, u, n, m)
  <2>1. DOMAIN s = 1 .. n /\ DOMAIN t = 1 .. m /\ DOMAIN u = 1 .. n + m
    BY <1>1, <1>2, <1>4
  <2>2. QED
    BY <2>1, <1>5, <1>6, <1>8, <1>9 DEF Joined
<1>11. QED
  BY <1>3, <1>10

(* The call is over: its own variables are as before a call. *)
LEMMA CallOver ==
  ASSUME IInv, pc' = "idle", answer' = "none",
         UNCHANGED <<portfolio, market, cancelled, processed_chunks, total_chunks,
                     waiting, members, batches, cursor, values, failures, chunks,
                     result>>
  PROVE  IInv'
<1>1. TypeOK'
  BY SamePortfolio DEF IInv, SettledInOrder, TypeOK, Positions, Answers
<1>2. ValuesBelongToTrades'
  BY DEF IInv, SettledInOrder, ValuesBelongToTrades, Price
<1>3. QED
  BY <1>1, <1>2 DEF IInv, SettledInOrder, ResultInOrder, PlanFollows, InOnePlace,
                    InFlight, ReturnsOnce

(* The failures of a row, under its scenario. *)
Under(p, f) == [k \in DOMAIN f |-> <<p, f[k]>>]

IsUnder(p, f, u) ==
  /\ ToSet(u) = {p} \X ToSet(f)
  /\ \A i, k \in DOMAIN u : i < k => Earlier(u[i], u[k])
  /\ \A i \in DOMAIN u : u[i][1] = p

LEMMA RowFailures ==
  ASSUME NEW D, D \subseteq Nat, NEW f \in Seq(D), Ascending(f), NEW p \in Nat,
         NEW u, u = Under(p, f)
  PROVE  u \in Seq(Nat \X D) /\ IsUnder(p, f, u)
<1>1. PICK n \in Nat : DOMAIN f = 1 .. n /\ \A k \in 1 .. n : f[k] \in D
  <2>1. Len(f) \in Nat /\ DOMAIN f = 1 .. Len(f) /\ \A k \in 1 .. Len(f) : f[k] \in D
    BY LenProperties, ElementOfSeq
  <2>2. QED
    BY <2>1
<1>2. DOMAIN u = 1 .. n /\ \A k \in 1 .. n : u[k] = <<p, f[k]>>
  BY <1>1 DEF Under
<1>3. u \in [1 .. n -> Nat \X D]
  BY <1>1 DEF Under
<1>4. u \in Seq(Nat \X D)
  BY <1>3, FunctionIsSeq
<1>5. ToSet(u) = {p} \X ToSet(f)
  <2>1. \A x \in ToSet(u) : x \in {p} \X ToSet(f)
    <3>1. \A k \in 1 .. n : f[k] \in ToSet(f)
      BY <1>1 DEF ToSet
    <3>2. ASSUME NEW k \in 1 .. n
          PROVE  u[k] \in {p} \X ToSet(f)
      <4>1. f[k] \in ToSet(f) /\ u[k] = <<p, f[k]>>
        BY <1>2, <3>1
      <4>2. <<p, f[k]>> \in {p} \X ToSet(f)
        BY <4>1
      <4>3. QED
        BY <4>1, <4>2
    <3>3. QED
      BY <1>2, <3>2 DEF ToSet
  <2>2. \A x \in {p} \X ToSet(f) : x \in ToSet(u)
    BY <1>1, <1>2 DEF ToSet
  <2>3. QED
    BY <2>1, <2>2
<1>6. \A i, k \in 1 .. n : i < k => Earlier(u[i], u[k])
  BY <1>1, <1>2 DEF Earlier, Ascending
<1>7. QED
  BY <1>2, <1>4, <1>5, <1>6 DEF IsUnder

LEMMA RowCollected ==
  ASSUME RunIInv, run = "pricing", answer = "Ok", portfolio' = portfolio,
         rows' = Append(rows, [scenario |-> position, priced |-> result]),
         run_failures' =
           run_failures \o [k \in DOMAIN result.failures |->
                              <<position, result.failures[k]>>]
  PROVE  /\ \A k \in DOMAIN rows' : RowFaithful(k)'
         /\ RepeatsFailures'
         /\ rows' \in Seq([scenario : Nat, priced : Results'])
         /\ run_failures' \in Seq(Nat \X DOMAIN portfolio')
         /\ Len(rows') = position
<1> DEFINE Row == [scenario : Nat, priced : Results]
           Pair == Nat \X DOMAIN portfolio
           f == result.failures
<1>1. /\ rows \in Seq(Row) /\ run_failures \in Seq(Pair)
      /\ position \in Nat /\ Len(rows) + 1 = position
      /\ result \in Results /\ portfolio \in Portfolios
      /\ NamesEachTrade(result) /\ PricedIn(<<position>>, result)
      /\ \A k \in DOMAIN rows : RowFaithful(k)
      /\ RepeatsFailures
  <2>1. /\ rows \in Seq(Row) /\ run_failures \in Seq(Pair)
        /\ \A k \in DOMAIN rows : RowFaithful(k)
        /\ RepeatsFailures
    BY DEF RunIInv, RunTypeOK, RowsFaithful
  <2>2. result \in Results /\ portfolio \in Portfolios
    BY DEF RunIInv, IInv, SettledInOrder, TypeOK
  <2>3. position \in Nat
    BY RunAssumption DEF RunIInv, RunTypeOK, RunAssumption
  <2>4. Len(rows) + 1 = position /\ market = <<position>>
    BY DEF RunIInv, CallsFollow
  <2>5. NamesEachTrade(result) /\ PricedIn(market, result)
    BY DEF RunIInv, IInv, SettledInOrder, ResultInOrder
  <2>6. PricedIn(<<position>>, result)
    BY <2>4, <2>5
  <2>7. QED
    BY <2>1, <2>2, <2>3, <2>4, <2>5, <2>6
<1>2. PICK row \in Row : row = [scenario |-> position, priced |-> result]
  BY <1>1
<1> HIDE DEF Row
<1>3. PICK n \in Nat : n = Len(rows) /\ DOMAIN rows = 1 .. n /\ position = n + 1
  BY <1>1, LenProperties
<1>4. /\ rows' \in Seq(Row) /\ Len(rows') = n + 1
      /\ \A k \in 1 .. n : rows'[k] = rows[k]
      /\ rows'[n + 1] = row
  BY <1>1, <1>2, <1>3, AppendProperties
<1>5. DOMAIN rows' = 1 .. n + 1
  BY <1>4, LenProperties
<1>6. ASSUME NEW k \in DOMAIN rows'
      PROVE  RowFaithful(k)'
  <2>1. CASE k \in 1 .. n
    <3>1. rows'[k] = rows[k] /\ RowFaithful(k)
      BY <1>1, <1>3, <1>4, <2>1
    <3>2. QED
      BY <3>1, SameResults DEF RowFaithful
  <2>2. CASE k = n + 1
    <3>1. /\ rows'[k].scenario = k /\ rows'[k].priced = result /\ position = k
      BY <1>2, <1>3, <1>4, <2>2
    <3>2. NamesEachTrade(result) /\ PricedIn(<<k>>, result)
      BY <1>1, <3>1
    <3>3. QED
      BY <3>1, <3>2, SameResults DEF RowFaithful
  <2>3. QED
    BY <1>3, <1>5, <2>1, <2>2
<1>7. PICK u : u = Under(position, f)
  OBVIOUS
<1>8. /\ u \in Seq(Pair)
      /\ ToSet(u) = {position} \X ToSet(f)
      /\ \A i, k \in DOMAIN u : i < k => Earlier(u[i], u[k])
      /\ \A i \in DOMAIN u : u[i][1] = position
  <2>1. f \in Seq(DOMAIN portfolio) /\ Ascending(f) /\ DOMAIN portfolio \subseteq Nat
    BY <1>1, RequestFacts DEF Results, NamesEachTrade
  <2>2. position \in Nat
    BY <1>1
  <2>3. PICK D : D = DOMAIN portfolio
    OBVIOUS
  <2>4. D \subseteq Nat /\ f \in Seq(D) /\ Ascending(f)
    BY <2>1, <2>3
  <2>5. Pair = Nat \X D
    BY <2>3
  <2> HIDE DEF f, Pair
  <2>6. u \in Seq(Nat \X D) /\ IsUnder(position, f, u)
    BY <1>7, <2>2, <2>4, RowFailures
  <2>7. QED
    BY <2>5, <2>6 DEF IsUnder
<1>9. run_failures' = run_failures \o u
  BY <1>7 DEF Under
<1>a. PICK w : w = run_failures'
  OBVIOUS
<1>b. PICK a \in Nat, b \in Nat : w \in Seq(Pair) /\ Joined(run_failures, u, w, a, b)
  <2> HIDE DEF Pair
  <2>1. w = run_failures \o u
    BY <1>9, <1>a
  <2>2. run_failures \in Seq(Pair) /\ u \in Seq(Pair)
    BY <1>1, <1>8
  <2>3. QED
    BY <2>1, <2>2, Concatenated
<1>10. /\ DOMAIN run_failures = 1 .. a /\ DOMAIN u = 1 .. b /\ DOMAIN w = 1 .. a + b
       /\ \A i \in 1 .. a : i \in 1 .. a + b /\ w[i] = run_failures[i]
       /\ \A i \in 1 .. b : a + i \in 1 .. a + b /\ w[a + i] = u[i]
       /\ \A i \in 1 .. a + b : i \in 1 .. a \/ \E k \in 1 .. b : i = a + k
       /\ ToSet(w) = ToSet(run_failures) \cup ToSet(u)
  BY <1>b DEF Joined
<1> HIDE DEF f, Pair
<1>11. ToSet(w) = UNION {{k} \X ToSet(rows'[k].priced.failures) : k \in DOMAIN rows'}
  <2>1. ToSet(run_failures) =
          UNION {{k} \X ToSet(rows[k].priced.failures) : k \in 1 .. n}
    BY <1>1, <1>3 DEF RepeatsFailures
  <2>2. \A k \in 1 .. n : rows'[k].priced.failures = rows[k].priced.failures
    BY <1>4
  <2>3. rows'[n + 1].priced.failures = f /\ position = n + 1
    BY <1>2, <1>3, <1>4 DEF f
  <2>4. \A k : k \in DOMAIN rows' <=> k \in 1 .. n \/ k = n + 1
    BY <1>3, <1>5
  <2> HIDE DEF f
  <2>5. \A x : x \in ToSet(w) <=>
                 \/ \E k \in 1 .. n : x \in {k} \X ToSet(rows[k].priced.failures)
                 \/ x \in {n + 1} \X ToSet(f)
    BY <1>8, <1>10, <2>1, <2>3
  <2>6. \A x : x \in UNION {{k} \X ToSet(rows'[k].priced.failures) : k \in DOMAIN rows'}
                 <=> \E k \in DOMAIN rows' : x \in {k} \X ToSet(rows'[k].priced.failures)
    OBVIOUS
  <2>7. \A x : x \in ToSet(w) <=>
                 \E k \in DOMAIN rows' : x \in {k} \X ToSet(rows'[k].priced.failures)
    BY <2>2, <2>3, <2>4, <2>5
  <2>8. QED
    BY <2>6, <2>7
<1>12. \A i \in 1 .. a : run_failures[i][1] \in 1 .. n
  <2>1. \A i \in 1 .. a : run_failures[i] \in ToSet(run_failures)
    BY <1>10 DEF ToSet
  <2>2. \A x \in ToSet(run_failures) : x[1] \in 1 .. n
    BY <1>1, <1>3 DEF RepeatsFailures
  <2>3. QED
    BY <2>1, <2>2
<1>13. ASSUME NEW i \in 1 .. a + b, NEW k \in 1 .. a + b, i < k
       PROVE  Earlier(w[i], w[k])
  <2>1. CASE i \in 1 .. a /\ k \in 1 .. a
    BY <1>1, <1>10, <1>13, <2>1 DEF RepeatsFailures
  <2>2. CASE i \in 1 .. a /\ k \notin 1 .. a
    <3>1. PICK j \in 1 .. b : k = a + j
      BY <1>10, <2>2
    <3>2. w[i] = run_failures[i] /\ w[k] = u[j] /\ j \in DOMAIN u
      BY <1>10, <2>2, <3>1
    <3>3. w[i][1] \in 1 .. n /\ w[k][1] = position
      BY <1>8, <1>12, <2>2, <3>2
    <3>4. w[i][1] < w[k][1]
      BY <1>3, <3>3
    <3>5. QED
      BY <3>4 DEF Earlier
  <2>3. CASE i \notin 1 .. a
    <3>1. PICK g \in 1 .. b : i = a + g
      BY <1>10, <2>3
    <3>2. PICK j \in 1 .. b : k = a + j
      <4>1. k \notin 1 .. a
        BY <1>13, <2>3
      <4>2. QED
        BY <1>10, <4>1
    <3>3. g < j
      BY <1>13, <3>1, <3>2
    <3>4. w[i] = u[g] /\ w[k] = u[j] /\ g \in DOMAIN u /\ j \in DOMAIN u
      BY <1>10, <3>1, <3>2
    <3>5. Earlier(u[g], u[j])
      BY <1>8, <3>3, <3>4
    <3>6. QED
      BY <3>4, <3>5
  <2>4. QED
    BY <2>1, <2>2, <2>3
<1>14. RepeatsFailures'
  <2>1. ToSet(run_failures') =
          UNION {{k} \X ToSet(rows'[k].priced.failures) : k \in DOMAIN rows'}
    BY <1>11, <1>a
  <2>2. \A i, k \in DOMAIN run_failures' :
          i < k => Earlier(run_failures'[i], run_failures'[k])
    BY <1>10, <1>13, <1>a
  <2>3. QED
    BY <2>1, <2>2 DEF RepeatsFailures, Earlier
<1>15. rows' \in Seq([scenario : Nat, priced : Results'])
  BY <1>4, SameResults DEF Row
<1>16. run_failures' \in Seq(Nat \X DOMAIN portfolio')
  BY <1>a, <1>b DEF Pair
<1>17. Len(rows') = position
  BY <1>3, <1>4
<1>18. QED
  BY <1>6, <1>14, <1>15, <1>16, <1>17

LEMMA CollectRowKeeps ==
  ASSUME RunIInv, CollectRow
  PROVE  RunIInv'
<1>1. /\ UNCHANGED <<portfolio, market, cancelled, processed_chunks, total_chunks,
                     waiting, members, batches, cursor, values, failures, chunks,
                     result>>
      /\ run = "pricing" /\ pc = "done" /\ pc' = "idle" /\ answer' = "none"
  BY DEF CollectRow, request, control, plan, books
<1>2. IInv'
  BY <1>1, CallOver DEF RunIInv
<1>3. answer \in Answers /\ answer # "none"
  BY <1>1 DEF RunIInv, IInv, ReturnsOnce, SettledInOrder, TypeOK
<1>4. CASE answer # "Ok"
  <2>1. Abort(answer) /\ answer \in {"Cancelled", "InvalidRequest"}
    BY <1>3, <1>4 DEF CollectRow, Answers
  <2>2. QED
    BY <1>1, <1>2, <2>1, AbortKeeps
<1>5. CASE answer = "Ok"
  <2>1. /\ run' = "looping"
        /\ rows' = Append(rows, [scenario |-> position, priced |-> result])
        /\ run_failures' =
             run_failures \o [k \in DOMAIN result.failures |->
                                <<position, result.failures[k]>>]
        /\ run_chunks' = run_chunks + AtLeastOne(result.chunks)
        /\ UNCHANGED <<count, wanted_chunk, chunk_size, position>>
    BY <1>5 DEF CollectRow
  <2>2. /\ \A k \in DOMAIN rows' : RowFaithful(k)'
        /\ RepeatsFailures'
        /\ rows' \in Seq([scenario : Nat, priced : Results'])
        /\ run_failures' \in Seq(Nat \X DOMAIN portfolio')
        /\ Len(rows') = position
    BY <1>1, <1>5, <2>1, RowCollected
  <2>3. run_chunks' \in Nat
    <3>1. run_chunks \in Nat /\ result.chunks \in Nat
      BY DEF RunIInv, RunTypeOK, IInv, SettledInOrder, TypeOK, Results
    <3>2. QED
      BY <2>1, <3>1 DEF AtLeastOne
  <2>4. RunTypeOK'
    BY <2>1, <2>2, <2>3 DEF RunIInv, RunTypeOK, RunStates
  <2>5. CallsFollow'
    BY <1>1, <2>1, <2>2 DEF CallsFollow
  <2>6. QED
    BY <1>2, <2>1, <2>2, <2>4, <2>5 DEF RunIInv, RowsFaithful
<1>6. QED
  BY <1>4, <1>5

LEMMA RunStepKeeps ==
  ASSUME RunIInv, [RunNext]_runVars
  PROVE  RunIInv'
<1>1. CASE Cancel /\ UNCHANGED outer
  <2>1. IInv' /\ UNCHANGED <<portfolio, pc, market, answer>>
    BY <1>1, CancelKeeps DEF RunIInv, Cancel, request
  <2>2. UNCHANGED <<count, wanted_chunk, chunk_size, run, position, rows,
                    run_failures, run_chunks>>
    BY <1>1 DEF outer
  <2>3. CallsFollow'
    BY <2>1, <2>2 DEF RunIInv, CallsFollow, InFlight
  <2>4. QED
    BY <2>1, <2>2, <2>3, LoopStep DEF RunIInv, RunTypeOK
<1>2. CASE UNCHANGED runVars
  <2>1. UNCHANGED vars
    BY <1>2 DEF runVars
  <2>2. IInv' /\ UNCHANGED <<portfolio, pc, market, answer>>
    BY <2>1, StutterKeeps DEF RunIInv, vars, request
  <2>3. UNCHANGED <<count, wanted_chunk, chunk_size, run, position, rows,
                    run_failures, run_chunks>>
    BY <1>2 DEF runVars, outer
  <2>4. CallsFollow'
    BY <2>2, <2>3 DEF RunIInv, CallsFollow, InFlight
  <2>5. QED
    BY <2>2, <2>3, <2>4, LoopStep DEF RunIInv, RunTypeOK
<1>3. QED
  BY <1>1, <1>2, StartRunKeeps, NextScenarioKeeps, PriceScenarioKeeps,
     CollectRowKeeps, FinishRunKeeps DEF RunNext, RunStep

(* Over any number of scenarios, whatever fails in them and whenever the    *)
(* run is cancelled, each call prices the portfolio under its own scenario. *)
THEOREM RunInvariance == RunSpec => []RunIInv
<1>1. RunInit => RunIInv
  BY RunStart
<1>2. RunIInv /\ [RunNext]_runVars => RunIInv'
  BY RunStepKeeps
<1>3. QED
  BY <1>1, <1>2, PTL DEF RunSpec

(* The k-th row is the k-th scenario, complete and under its shocks alone;  *)
(* and the failures at the top level are those of the rows, in order.       *)
THEOREM RowsAreFaithful == RunSpec => []RowsFaithful
<1>1. RunIInv => RowsFaithful
  BY DEF RunIInv
<1>2. QED
  BY <1>1, RunInvariance, PTL

-----------------------------------------------------------------------------
(* The reduction. *)

(* Induction over numbers, for a set in the place of an operator. *)
LEMMA SetInduction ==
  ASSUME NEW T, 0 \in T, \A k \in Nat : k \in T => k + 1 \in T
  PROVE  Nat \subseteq T
<1> DEFINE Less == OpToRel(<, Nat)
           Rest == Nat \ T
<1>1. IsWellFoundedOn(Less, Nat)
  BY NatLessThanWellFounded
<1>2. \A m, n \in Nat : m < n => <<m, n>> \in Less
  <2>1. Less = {ss \in Nat \X Nat : ss[1] < ss[2]}
    BY Zenon DEF OpToRel
  <2> HIDE DEF Less
  <2>2. QED
    BY <2>1
<1>3. Rest \subseteq Nat
  OBVIOUS
<1> HIDE DEF Less
<1>4. SUFFICES ASSUME Rest # {}
               PROVE  FALSE
  OBVIOUS
<1> HIDE DEF Rest
<1>5. PICK n \in Rest : \A m \in Rest : ~(<<m, n>> \in Less)
  <2>1. \A S, R : IsWellFoundedOn(Less, S) /\ R \subseteq S /\ R # {} =>
                 \E n \in R : \A m \in R : ~(<<m, n>> \in Less)
    BY WFMin, Zenon
  <2>2. QED
    BY <1>1, <1>3, <1>4, <2>1, Zenon
<1>6. n \in Nat /\ n \notin T
  BY <1>5 DEF Rest
<1>7. n - 1 \in Nat /\ n - 1 < n
  BY <1>6
<1>8. n - 1 \in T
  BY <1>2, <1>5, <1>6, <1>7 DEF Rest
<1>9. (n - 1) + 1 = n
  BY <1>6
<1>10. QED
  BY <1>6, <1>7, <1>8, <1>9

(* The same over the subsets of a finite set. *)
LEMMA SubsetInduction ==
  ASSUME NEW S, IsFiniteSet(S), NEW T, {} \in T,
         \A s \in SUBSET S : \A x \in S \ s : s \in T => s \cup {x} \in T
  PROVE  SUBSET S \subseteq T
<1> DEFINE Sized(n) == {s \in SUBSET S : Cardinality(s) = n}
           N == {n \in Nat : Sized(n) \subseteq T}
<1>1. \A s \in SUBSET S : IsFiniteSet(s) /\ Cardinality(s) \in Nat
  BY FS_Subset, FS_CardinalityType
<1>2. 0 \in N
  <2>1. \A s \in Sized(0) : s = {}
    BY <1>1, FS_EmptySet
  <2>2. QED
    BY <2>1
<1>3. ASSUME NEW n \in Nat, n \in N
      PROVE  n + 1 \in N
  <2>1. ASSUME NEW s \in Sized(n + 1)
        PROVE  s \in T
    <3>1. s # {}
      BY <1>1, FS_EmptySet
    <3>2. PICK x \in s : TRUE
      BY <3>1
    <3>3. s \ {x} \in SUBSET S /\ x \in S \ (s \ {x}) /\ s = (s \ {x}) \cup {x}
      BY <3>2
    <3>4. Cardinality(s \ {x}) = n
      <4>1. IsFiniteSet(s) /\ Cardinality(s) = n + 1
        BY <1>1
      <4>2. Cardinality(s \ {x}) = Cardinality(s) - 1
        BY <3>2, <4>1, FS_RemoveElement
      <4>3. QED
        BY <4>1, <4>2
    <3>5. s \ {x} \in T
      BY <1>3, <3>3, <3>4
    <3>6. QED
      BY <3>3, <3>5
  <2>2. QED
    BY <2>1
<1>4. Nat \subseteq N
  <2> HIDE DEF N
  <2>1. QED
    BY <1>2, <1>3, SetInduction
<1>5. ASSUME NEW s \in SUBSET S
      PROVE  s \in T
  <2>1. Cardinality(s) \in N
    BY <1>1, <1>4
  <2>2. QED
    BY <2>1
<1>6. QED
  BY <1>5

LEMMA UptoFinite ==
  ASSUME NEW n \in Nat
  PROVE  IsFiniteSet(1 .. n)
BY FS_Interval, 1 \in Int, n \in Int

-----------------------------------------------------------------------------
(* Sums over finite sets, which the library takes element by element.       *)
Pick(s) == CHOOSE x \in s : TRUE
Stepped(f, g, s) == IF s = {} THEN 0 ELSE f[Pick(s)] + g[s \ {Pick(s)}]
IsSum(f, S, g) == g = [s \in SUBSET S |-> Stepped(f, g, s)]
Whole(f, S) == \A x \in S : f[x] \in Int
SumOf(f, S) == (CHOOSE g : IsSum(f, S, g))[S]

LEMMA Picked ==
  ASSUME NEW s, s # {}
  PROVE  Pick(s) \in s
BY DEF Pick

LEMMA SumExists ==
  ASSUME NEW f, NEW S, IsFiniteSet(S)
  PROVE  \E g : IsSum(f, S, g)
<1> DEFINE Small(n) == {s \in SUBSET S : Cardinality(s) <= n}
           Fits(n, g) == g = [s \in Small(n) |-> Stepped(f, g, s)]
           N == {n \in Nat : \E g : Fits(n, g)}
<1>1. \A s \in SUBSET S : IsFiniteSet(s) /\ Cardinality(s) \in Nat
  BY FS_Subset, FS_CardinalityType
<1>2. 0 \in N
  <2>1. Small(0) = {{}}
    <3>1. \A s \in Small(0) : s = {}
      BY <1>1, FS_EmptySet
    <3>2. {} \in Small(0)
      BY FS_EmptySet
    <3>3. QED
      BY <3>1, <3>2
  <2> DEFINE g == [s \in {{}} |-> 0]
  <2>2. \A s \in {{}} : Stepped(f, g, s) = 0
    BY DEF Stepped
  <2>3. g = [s \in {{}} |-> Stepped(f, g, s)]
    BY <2>2, Zenon
  <2> HIDE DEF g
  <2>4. QED
    BY <2>1, <2>3, Zenon
<1>3. ASSUME NEW n \in Nat, n \in N
      PROVE  n + 1 \in N
  <2>1. PICK g : Fits(n, g)
    BY <1>3
  <2>2. PICK h : h = [s \in Small(n + 1) |-> Stepped(f, g, s)]
    OBVIOUS
  <2>3. ASSUME NEW s \in Small(n)
        PROVE  h[s] = g[s]
    <3>1. s \in Small(n + 1)
      BY <1>1
    <3>2. g[s] = Stepped(f, g, s)
      BY <2>1, Zenon
    <3>3. h[s] = Stepped(f, g, s)
      BY <2>2, <3>1, Zenon
    <3>4. QED
      BY <3>2, <3>3
  <2>4. ASSUME NEW s \in Small(n + 1)
        PROVE  Stepped(f, h, s) = Stepped(f, g, s)
    <3>1. CASE s = {}
      BY <3>1 DEF Stepped
    <3>2. CASE s # {}
      <4>1. Pick(s) \in s
        BY <3>2, Picked
      <4>2. s \ {Pick(s)} \in SUBSET S
        OBVIOUS
      <4>3. Cardinality(s \ {Pick(s)}) = Cardinality(s) - 1
        BY <1>1, <4>1, FS_RemoveElement
      <4>4. s \ {Pick(s)} \in Small(n)
        BY <1>1, <4>2, <4>3
      <4>5. h[s \ {Pick(s)}] = g[s \ {Pick(s)}]
        BY <2>3, <4>4
      <4>6. QED
        BY <4>5, Zenon DEF Stepped
    <3>3. QED
      BY <3>1, <3>2
  <2>5. Fits(n + 1, h)
    BY <2>2, <2>4, Zenon
  <2>6. QED
    BY <2>5
<1>4. Nat \subseteq N
  <2> HIDE DEF N
  <2>1. QED
    BY <1>2, <1>3, SetInduction
<1>5. PICK g : Fits(Cardinality(S), g)
  BY <1>1, <1>4
<1>6. Small(Cardinality(S)) = SUBSET S
  BY <1>1, FS_Subset
<1>7. IsSum(f, S, g)
  BY <1>5, <1>6, Zenon DEF IsSum
<1>8. QED
  BY <1>7

(* The order in which the elements are taken does not matter. *)
OrderFree(f, S, g) == \A s \in SUBSET S : /\ g[s] \in Int
                                         /\ \A x \in s : g[s] = f[x] + g[s \ {x}]
LEMMA AnyOrder ==
  ASSUME NEW S, IsFiniteSet(S), NEW f, Whole(f, S),
         NEW g, IsSum(f, S, g)
  PROVE  OrderFree(f, S, g)
<1> DEFINE Good(s) == /\ g[s] \in Int
                      /\ \A x \in s : g[s] = f[x] + g[s \ {x}]
           N == {n \in Nat : \A s \in SUBSET S : Cardinality(s) <= n => Good(s)}
<1>1. \A s \in SUBSET S : IsFiniteSet(s) /\ Cardinality(s) \in Nat
  BY FS_Subset, FS_CardinalityType
<1>2. \A s \in SUBSET S : g[s] = Stepped(f, g, s)
  BY Zenon DEF IsSum
<1>3. 0 \in N
  <2>1. g[{}] = 0
    BY <1>2 DEF Stepped
  <2>2. ASSUME NEW s \in SUBSET S, Cardinality(s) <= 0
        PROVE  s = {}
    BY <1>1, <2>2, FS_EmptySet
  <2>3. Good({})
    BY <2>1
  <2>4. QED
    BY <2>2, <2>3
<1>4. ASSUME NEW n \in Nat, n \in N
      PROVE  n + 1 \in N
  <2>1. ASSUME NEW s \in SUBSET S, Cardinality(s) <= n + 1, s # {}
        PROVE  Good(s)
    <3>1. PICK c : c = Pick(s) /\ c \in s
      BY <2>1, Picked
    <3>2. g[s] = f[c] + g[s \ {c}]
      BY <1>2, <2>1, <3>1, Zenon DEF Stepped
    <3>3. ASSUME NEW r \in SUBSET s, NEW x \in s, x \notin r
          PROVE  Good(r)
      <4>1. IsFiniteSet(s) /\ Cardinality(s) \in Nat
        BY <1>1
      <4>2. Cardinality(s \ {x}) = Cardinality(s) - 1 /\ IsFiniteSet(s \ {x})
        BY <3>3, <4>1, FS_RemoveElement
      <4>3. r \in SUBSET (s \ {x}) /\ r \in SUBSET S
        BY <3>3
      <4>4. Cardinality(r) <= Cardinality(s \ {x}) /\ Cardinality(r) \in Nat
        BY <1>1, <4>2, <4>3, FS_Subset
      <4>5. Cardinality(r) <= n
        BY <2>1, <4>1, <4>2, <4>4
      <4>6. QED
        BY <1>4, <4>3, <4>5
    <3>4. f[c] \in Int /\ g[s \ {c}] \in Int
      BY <3>1, <3>3 DEF Whole
    <3>5. ASSUME NEW x \in s, x # c
          PROVE  g[s] = f[x] + g[s \ {x}]
      <4>1. PICK r : r = (s \ {c}) \ {x}
        OBVIOUS
      <4>2. PICK t : t = s \ {x}
        OBVIOUS
      <4>3. PICK u : u = s \ {c}
        OBVIOUS
      <4>4. /\ r = u \ {x} /\ r = t \ {c} /\ x \in u /\ c \in t
            /\ r \in SUBSET s /\ x \notin r
            /\ t \in SUBSET s /\ x \notin t /\ u \in SUBSET s /\ c \notin u
        BY <3>1, <3>5, <4>1, <4>2, <4>3
      <4>5. Good(r) /\ Good(t) /\ Good(u)
        BY <3>1, <3>3, <4>4
      <4> HIDE DEF N
      <4>6. g[u] = f[x] + g[r] /\ g[t] = f[c] + g[r] /\ g[r] \in Int
        BY <4>4, <4>5
      <4>7. f[x] \in Int
        BY DEF Whole
      <4>8. g[s] = f[c] + g[u]
        BY <3>2, <4>3
      <4>9. g[s] = f[x] + g[t]
        BY <3>4, <4>6, <4>7, <4>8
      <4>10. QED
        BY <4>2, <4>9
    <3>6. g[s] \in Int
      BY <3>2, <3>4
    <3>7. \A x \in s : g[s] = f[x] + g[s \ {x}]
      BY <3>1, <3>2, <3>5
    <3>8. QED
      BY <3>6, <3>7
  <2>2. Good({})
    <3>1. g[{}] = 0
      BY <1>2 DEF Stepped
    <3> HIDE DEF N
    <3>2. QED
      BY <3>1
  <2>3. \A s \in SUBSET S : Cardinality(s) <= n + 1 => Good(s)
    <3> HIDE DEF N, Good
    <3>1. QED
      BY <2>1, <2>2
  <2>4. n + 1 \in Nat
    OBVIOUS
  <2>5. QED
    BY <2>3, <2>4, Zenon
<1>5. Nat \subseteq N
  <2> HIDE DEF N
  <2>1. QED
    BY <1>3, <1>4, SetInduction
<1>6. ASSUME NEW s \in SUBSET S
      PROVE  Good(s)
  <2>1. Cardinality(s) \in N
    BY <1>1, <1>5
  <2>2. QED
    BY <1>1, <2>1
<1>7. QED
  BY <1>6, Zenon DEF OrderFree

(* A sum only looks at its own elements. *)
LEMMA SumAgree ==
  ASSUME NEW R, IsFiniteSet(R), NEW S \in SUBSET R,
         NEW f, NEW h, Whole(h, R), \A x \in S : f[x] = h[x],
         NEW g, IsSum(f, S, g), NEW k, IsSum(h, R, k)
  PROVE  \A s \in SUBSET S : g[s] = k[s]
<1> DEFINE T == {s \in SUBSET S : g[s] = k[s]}
<1>1. IsFiniteSet(S) /\ Whole(f, S)
  BY FS_Subset DEF Whole
<1>2. \A s \in SUBSET S : \A x \in s : g[s] = f[x] + g[s \ {x}]
  <2>1. OrderFree(f, S, g)
    BY <1>1, AnyOrder
  <2>2. QED
    BY <2>1 DEF OrderFree
<1>3. \A s \in SUBSET R : \A x \in s : k[s] = h[x] + k[s \ {x}]
  <2>1. OrderFree(h, R, k)
    BY AnyOrder
  <2>2. QED
    BY <2>1 DEF OrderFree
<1>4. g[{}] = 0 /\ k[{}] = 0
  <2>1. g[{}] = Stepped(f, g, {}) /\ k[{}] = Stepped(h, k, {})
    BY Zenon DEF IsSum
  <2>2. QED
    BY <2>1 DEF Stepped
<1>5. {} \in T
  BY <1>4
<1>6. ASSUME NEW s \in SUBSET S, NEW x \in S \ s, s \in T
      PROVE  s \cup {x} \in T
  <2>1. PICK t : t = s \cup {x}
    OBVIOUS
  <2>2. t \in SUBSET S /\ t \in SUBSET R /\ x \in t /\ s = t \ {x}
    BY <2>1
  <2>3. g[t] = f[x] + g[s] /\ k[t] = h[x] + k[s]
    BY <1>2, <1>3, <2>2
  <2>4. f[x] = h[x]
    OBVIOUS
  <2>5. QED
    BY <1>6, <2>1, <2>2, <2>3, <2>4
<1>7. SUBSET S \subseteq T
  <2> HIDE DEF T
  <2>1. QED
    BY <1>1, <1>5, <1>6, SubsetInduction
<1>8. QED
  BY <1>7

LEMMA SumParts ==
  ASSUME NEW S, IsFiniteSet(S), NEW f, Whole(f, S)
  PROVE  \E g : IsSum(f, S, g) /\ \A s \in SUBSET S : SumOf(f, s) = g[s]
<1>1. PICK g : IsSum(f, S, g)
  BY SumExists
<1>2. ASSUME NEW s \in SUBSET S
      PROVE  SumOf(f, s) = g[s]
  <2>1. IsFiniteSet(s) /\ \A x \in s : f[x] = f[x]
    BY FS_Subset
  <2> DEFINE k == CHOOSE k : IsSum(f, s, k)
  <2>2. IsSum(f, s, k)
    BY <2>1, SumExists
  <2>3. SumOf(f, s) = k[s]
    BY DEF SumOf
  <2> HIDE DEF k
  <2>4. k[s] = g[s]
    BY <1>1, <2>2, SumAgree
  <2>5. QED
    BY <2>3, <2>4
<1>3. QED
  BY <1>1, <1>2

Additive(f, S) ==
  /\ SumOf(f, {}) = 0
  /\ \A s \in SUBSET S :
       /\ SumOf(f, s) \in Int
       /\ \A x \in S \ s : SumOf(f, s \cup {x}) = f[x] + SumOf(f, s)

LEMMA SumFacts ==
  ASSUME NEW S, IsFiniteSet(S), NEW f, Whole(f, S)
  PROVE  Additive(f, S)
<1>1. PICK g : IsSum(f, S, g) /\ \A s \in SUBSET S : SumOf(f, s) = g[s]
  BY SumParts
<1>2. \A s \in SUBSET S : /\ g[s] \in Int
                          /\ \A x \in s : g[s] = f[x] + g[s \ {x}]
  <2>1. OrderFree(f, S, g)
    BY <1>1, AnyOrder
  <2>2. QED
    BY <2>1 DEF OrderFree
<1>3. SumOf(f, {}) = 0
  <2>1. g[{}] = Stepped(f, g, {})
    BY <1>1, Zenon DEF IsSum
  <2>2. QED
    BY <1>1, <2>1 DEF Stepped
<1>4. ASSUME NEW s \in SUBSET S, NEW x \in S \ s
      PROVE  SumOf(f, s \cup {x}) = f[x] + SumOf(f, s)
  <2>1. PICK t : t = s \cup {x}
    OBVIOUS
  <2>2. t \in SUBSET S /\ x \in t /\ s = t \ {x}
    BY <2>1
  <2>3. g[t] = f[x] + g[s]
    BY <1>2, <2>2
  <2>4. QED
    BY <1>1, <2>1, <2>2, <2>3
<1>5. QED
  BY <1>1, <1>2, <1>3, <1>4 DEF Additive

(* The elements may be renamed. *)
LEMMA SumRenamed ==
  ASSUME NEW S, IsFiniteSet(S), NEW f, Whole(f, S),
         NEW b, \A x, y \in S : b[x] = b[y] => x = y,
         NEW h, \A x \in S : h[b[x]] = f[x]
  PROVE  SumOf(h, {b[x] : x \in S}) = SumOf(f, S)
<1> DEFINE R == {b[x] : x \in S}
           Image(s) == {b[x] : x \in s}
           T == {s \in SUBSET S : SumOf(h, Image(s)) = SumOf(f, s)}
<1>1. IsFiniteSet(R)
  <2>1. PICK c \in [S -> R] : c = [x \in S |-> b[x]]
    OBVIOUS
  <2>2. c \in Surjection(S, R)
    BY <2>1 DEF Surjection
  <2>3. QED
    BY <2>2, FS_Surjection
<1>2. Whole(h, R)
  BY DEF Whole
<1>3. Image({}) = {}
  OBVIOUS
<1>4. \A s \in SUBSET S : Image(s) \in SUBSET R
  OBVIOUS
<1>5. ASSUME NEW s \in SUBSET S, NEW x \in S \ s
      PROVE  Image(s \cup {x}) = Image(s) \cup {b[x]} /\ b[x] \in R \ Image(s)
  OBVIOUS
<1> HIDE DEF R, Image
<1>a. Additive(f, S) /\ Additive(h, R)
  BY <1>1, <1>2, SumFacts
<1>6. {} \in T
  <2>1. SumOf(f, {}) = 0
    BY <1>a DEF Additive
  <2>2. SumOf(h, {}) = 0
    BY <1>a DEF Additive
  <2>3. QED
    BY <1>3, <2>1, <2>2
<1>7. ASSUME NEW s \in SUBSET S, NEW x \in S \ s, s \in T
      PROVE  s \cup {x} \in T
  <2>1. SumOf(f, s \cup {x}) = f[x] + SumOf(f, s)
    BY <1>a DEF Additive
  <2>2. \A r \in SUBSET R : \A y \in R \ r :
          SumOf(h, r \cup {y}) = h[y] + SumOf(h, r)
    BY <1>a DEF Additive
  <2>3. SumOf(h, Image(s) \cup {b[x]}) = h[b[x]] + SumOf(h, Image(s))
    BY <1>4, <1>5, <2>2
  <2>4. SumOf(h, Image(s \cup {x})) = f[x] + SumOf(f, s)
    BY <1>5, <1>7, <2>3
  <2>5. QED
    BY <2>1, <2>4
<1>8. SUBSET S \subseteq T
  <2> HIDE DEF T
  <2>1. QED
    BY <1>6, <1>7, SubsetInduction
<1>9. SumOf(h, Image(S)) = SumOf(f, S)
  BY <1>8
<1>10. QED
  BY <1>9 DEF Image

LEMMA SumSame ==
  ASSUME NEW S, IsFiniteSet(S), NEW f, Whole(f, S),
         NEW h, \A x \in S : h[x] = f[x]
  PROVE  SumOf(h, S) = SumOf(f, S)
<1>1. PICK b : b = [x \in S |-> x]
  OBVIOUS
<1>2. {b[x] : x \in S} = S /\ \A x \in S : b[x] = x
  BY <1>1
<1>3. SumOf(h, {b[x] : x \in S}) = SumOf(f, S)
  BY <1>2, SumRenamed
<1>4. QED
  BY <1>2, <1>3

(* Term by term; and with a common factor. *)
LEMMA SumMonotone ==
  ASSUME NEW S, IsFiniteSet(S), NEW f, NEW h, NEW c \in Int,
         Whole(f, S), Whole(h, S), \A x \in S : f[x] <= c * h[x]
  PROVE  SumOf(f, S) <= c * SumOf(h, S)
<1> DEFINE T == {s \in SUBSET S : SumOf(f, s) <= c * SumOf(h, s)}
<1>a. Additive(f, S) /\ Additive(h, S)
  BY SumFacts
<1>1. {} \in T
  <2>1. SumOf(f, {}) = 0 /\ SumOf(h, {}) = 0
    BY <1>a DEF Additive
  <2>2. c * 0 = 0
    OBVIOUS
  <2>3. QED
    BY <2>1, <2>2
<1>2. ASSUME NEW s \in SUBSET S, NEW x \in S \ s, s \in T
      PROVE  s \cup {x} \in T
  <2>1. /\ SumOf(f, s \cup {x}) = f[x] + SumOf(f, s)
        /\ SumOf(h, s \cup {x}) = h[x] + SumOf(h, s)
        /\ SumOf(f, s) \in Int /\ SumOf(h, s) \in Int
    BY <1>a DEF Additive
  <2>2. c * (h[x] + SumOf(h, s)) = c * h[x] + c * SumOf(h, s)
    BY <2>1 DEF Whole
  <2>3. c * h[x] \in Int /\ c * SumOf(h, s) \in Int
    BY <2>1 DEF Whole
  <2>4. f[x] + SumOf(f, s) <= c * h[x] + c * SumOf(h, s)
    <3>1. f[x] \in Int /\ f[x] <= c * h[x]
      BY DEF Whole
    <3>2. SumOf(f, s) <= c * SumOf(h, s)
      BY <1>2
    <3>3. QED
      BY <2>1, <2>3, <3>1, <3>2
  <2>5. QED
    BY <2>1, <2>2, <2>4
<1>3. SUBSET S \subseteq T
  <2> HIDE DEF T
  <2>1. QED
    BY <1>1, <1>2, SubsetInduction
<1>4. QED
  BY <1>3

LEMMA SumOfOne ==
  ASSUME NEW x, NEW f, f[x] \in Int
  PROVE  SumOf(f, {x}) = f[x]
<1>1. IsFiniteSet({x}) /\ {} \cup {x} = {x} /\ {} \in SUBSET {x} /\ x \in {x} \ {}
      /\ Whole(f, {x})
  BY FS_Singleton DEF Whole
<1>2. Additive(f, {x})
  BY <1>1, SumFacts
<1>3. QED
  BY <1>1, <1>2 DEF Additive

(* Of finitely many numbers one is the greatest. *)
LEMMA Greatest ==
  ASSUME NEW S, IsFiniteSet(S), S # {}, NEW f, Whole(f, S)
  PROVE  \E x \in S : \A y \in S : f[y] <= f[x]
<1> DEFINE T == {s \in SUBSET S : s = {} \/ \E x \in s : \A y \in s : f[y] <= f[x]}
<1>1. {} \in T
  OBVIOUS
<1>2. ASSUME NEW s \in SUBSET S, NEW z \in S \ s, s \in T
      PROVE  s \cup {z} \in T
  <2>1. CASE s = {}
    <3>1. f[z] \in Int /\ s \cup {z} = {z}
      BY <2>1 DEF Whole
    <3>2. QED
      BY <3>1
  <2>2. CASE s # {}
    <3>1. PICK x \in s : \A y \in s : f[y] <= f[x]
      BY <1>2, <2>2
    <3>2. PICK m \in {x, z} : f[x] <= f[m] /\ f[z] <= f[m]
      BY DEF Whole
    <3>3. \A y \in s \cup {z} : f[y] <= f[m]
      BY <3>1, <3>2 DEF Whole
    <3>4. QED
      BY <3>1, <3>2, <3>3
  <2>3. QED
    BY <2>1, <2>2
<1>3. SUBSET S \subseteq T
  <2> HIDE DEF T
  <2>1. QED
    BY <1>1, <1>2, SubsetInduction
<1>4. QED
  BY <1>3


(* The library's sum is this one. *)
LEMMA SumIsSum ==
  ASSUME NEW f, NEW S
  PROVE  SumFunctionOnSet(f, S) = SumOf(f, S)
<1> DEFINE g == CHOOSE g : IsSum(f, S, g)
<1>1. SumOf(f, S) = g[S]
  BY DEF SumOf
<1>2. g = CHOOSE h : h = [s \in SUBSET S |-> Stepped(f, h, s)]
  BY Zenon DEF IsSum
<1>3. QED
  BY <1>1, <1>2, Zenon
     DEF SumFunctionOnSet, FoldFunctionOnSet, MapThenFoldSet, Stepped, Pick

LEMMA SumFunctionIsSum ==
  ASSUME NEW f
  PROVE  SumFunction(f) = SumOf(f, DOMAIN f)
BY SumIsSum DEF SumFunction

LEMMA SumIsWhole ==
  ASSUME NEW S, IsFiniteSet(S), NEW f, Whole(f, S)
  PROVE  SumOf(f, S) \in Int
<1>1. Additive(f, S) /\ S \in SUBSET S
  BY SumFacts
<1>2. QED
  BY <1>1 DEF Additive

LEMMA SumNotNegative ==
  ASSUME NEW S, IsFiniteSet(S), NEW f, \A x \in S : f[x] \in Nat
  PROVE  SumOf(f, S) \in Nat
<1> DEFINE T == {s \in SUBSET S : SumOf(f, s) \in Nat}
<1>1. Additive(f, S)
  <2>1. Whole(f, S)
    BY DEF Whole
  <2>2. QED
    BY <2>1, SumFacts
<1>2. {} \in T
  BY <1>1 DEF Additive
<1>3. ASSUME NEW s \in SUBSET S, NEW x \in S \ s, s \in T
      PROVE  s \cup {x} \in T
  <2>1. SumOf(f, s \cup {x}) = f[x] + SumOf(f, s)
    BY <1>1 DEF Additive
  <2>2. f[x] \in Nat /\ SumOf(f, s) \in Nat
    BY <1>3
  <2>3. QED
    BY <2>1, <2>2
<1>4. SUBSET S \subseteq T
  <2> HIDE DEF T
  <2>1. QED
    BY <1>2, <1>3, SubsetInduction
<1>5. QED
  BY <1>4

(* Sums over the numbers up to n, number by number. *)
LEMMA SumUpto ==
  ASSUME NEW n \in Nat, NEW f, Whole(f, 1 .. n)
  PROVE  /\ SumOf(f, 1 .. 0) = 0
         /\ \A k \in Nat : k < n => SumOf(f, 1 .. (k + 1)) = f[k + 1] + SumOf(f, 1 .. k)
<1>1. Additive(f, 1 .. n)
  <2>1. IsFiniteSet(1 .. n)
    BY UptoFinite
  <2>2. QED
    BY <2>1, SumFacts
<1>2. 1 .. 0 = {}
  OBVIOUS
<1>3. ASSUME NEW k \in Nat, k < n
      PROVE  SumOf(f, 1 .. (k + 1)) = f[k + 1] + SumOf(f, 1 .. k)
  <2>1. /\ 1 .. k \in SUBSET (1 .. n)
        /\ k + 1 \in (1 .. n) \ (1 .. k)
        /\ 1 .. (k + 1) = (1 .. k) \cup {k + 1}
    BY <1>3
  <2>2. QED
    BY <1>1, <2>1 DEF Additive
<1>4. QED
  BY <1>1, <1>2, <1>3 DEF Additive

(* The differences of a list add up to the difference of its ends. *)
LEMMA Telescope ==
  ASSUME NEW n \in Nat, NEW d, NEW c, \A i \in 0 .. n : c[i] \in Int,
         \A i \in 1 .. n : d[i] = c[i - 1] - c[i]
  PROVE  SumOf(d, 1 .. n) = c[0] - c[n]
<1> DEFINE N == {m \in Nat : m <= n => SumOf(d, 1 .. m) = c[0] - c[m]}
<1>1. \A i \in 1 .. n : i - 1 \in 0 .. n /\ i \in 0 .. n
  OBVIOUS
<1>2. Whole(d, 1 .. n)
  BY <1>1 DEF Whole
<1>3. /\ SumOf(d, 1 .. 0) = 0
      /\ \A k \in Nat : k < n => SumOf(d, 1 .. (k + 1)) = d[k + 1] + SumOf(d, 1 .. k)
  BY <1>2, SumUpto
<1>4. 0 \in N
  <2>1. c[0] \in Int
    OBVIOUS
  <2>2. QED
    BY <1>3, <2>1
<1>5. ASSUME NEW k \in Nat, k \in N
      PROVE  k + 1 \in N
  <2>1. CASE k < n
    <3>1. SumOf(d, 1 .. (k + 1)) = d[k + 1] + (c[0] - c[k])
      BY <1>3, <1>5, <2>1
    <3>2. k + 1 \in 1 .. n /\ (k + 1) - 1 = k
      BY <2>1
    <3>3. d[k + 1] = c[k] - c[k + 1]
      BY <3>2
    <3>4. c[0] \in Int /\ c[k] \in Int /\ c[k + 1] \in Int
      BY <2>1
    <3>5. SumOf(d, 1 .. (k + 1)) = c[0] - c[k + 1]
      BY <3>1, <3>3, <3>4
    <3>6. QED
      BY <3>5
  <2>2. CASE ~(k < n)
    BY <2>2
  <2>3. QED
    BY <2>1, <2>2
<1>6. Nat \subseteq N
  <2> HIDE DEF N
  <2>1. QED
    BY <1>4, <1>5, SetInduction
<1>7. QED
  BY <1>6

LEMMA SumOfEqual ==
  ASSUME NEW n \in Nat, NEW v \in Int, NEW f, \A i \in 1 .. n : f[i] = v
  PROVE  SumOf(f, 1 .. n) = n * v
<1>1. PICK c : c = [i \in 0 .. n |-> (-i) * v]
  OBVIOUS
<1>2. \A i \in 0 .. n : c[i] \in Int
  BY <1>1
<1>3. \A i \in 1 .. n : f[i] = c[i - 1] - c[i]
  <2>1. SUFFICES ASSUME NEW i \in 1 .. n
                 PROVE  v = c[i - 1] - c[i]
    OBVIOUS
  <2>2. i - 1 \in 0 .. n /\ i \in 0 .. n
    OBVIOUS
  <2>3. c[i - 1] = (-(i - 1)) * v /\ c[i] = (-i) * v
    BY <1>1, <2>2
  <2>4. (-(i - 1)) * v = (-i) * v + v
    OBVIOUS
  <2>5. (-i) * v \in Int
    OBVIOUS
  <2>6. QED
    BY <2>3, <2>4, <2>5
<1>4. SumOf(f, 1 .. n) = c[0] - c[n]
  BY <1>2, <1>3, Telescope
<1>5. c[0] = 0 /\ c[n] = (-n) * v
  BY <1>1
<1>6. 0 - (-n) * v = n * v
  OBVIOUS
<1>7. QED
  BY <1>4, <1>5, <1>6

-----------------------------------------------------------------------------
(* One cube. *)

LEMMA PartFacts ==
  ASSUME NEW v \in Int
  PROVE  PositivePart(v) \in Nat /\ Magnitude(v) \in Nat
BY DEF PositivePart, Magnitude

LEMMA AdjustIsWhole ==
  ASSUME NEW csas \in Seq(Agreements), NEW v \in Int
  PROVE  CollateralAdjust(v, csas) \in Int
<1>1. CASE csas = <<>>
  BY <1>1 DEF CollateralAdjust
<1>2. CASE csas # <<>>
  <2>1. PICK csa \in Agreements : csa = Head(csas)
    BY <1>2
  <2>2. /\ PositivePart(csa.threshold) \in Nat
        /\ PositivePart(csa.minimum_transfer) \in Nat
        /\ PositivePart(csa.independent_amount) \in Nat
        /\ Magnitude(v) \in Nat
    BY PartFacts DEF Agreements
  <2>3. PICK collateral \in Nat :
          collateral = PositivePart(Magnitude(v) - PositivePart(csa.threshold))
    <3>1. Magnitude(v) - PositivePart(csa.threshold) \in Int
      BY <2>2
    <3>2. QED
      BY <3>1, PartFacts
  <2>4. QED
    BY <2>1, <2>2, <2>3 DEF CollateralAdjust
<1>3. QED
  BY <1>1, <1>2

(* The exposure on one date. *)
Exposure(q, i, csas) == Mean(Positives(q, i, csas))

Losses(q, csas, spec) ==
  [i \in DOMAIN q.times |-> Discount(q, i) * (Exposure(q, i, csas)
      * LossGivenDefault(spec) * DefaultIncrement(spec, q.times, i))]

LEMMA ReductionFacts ==
  ASSUME NEW ask, NEW q, NEW p, NEW csas, csas = ask.collateral_agreements
  PROVE  /\ Reduction(ask, q, p).ee = [i \in DOMAIN q.times |-> Exposure(q, i, csas)]
         /\ Reduction(ask, q, p).cva = SumFunction(Losses(q, csas, ask.counterparty))
<1>1. Reduction(ask, q, p).ee = [i \in DOMAIN q.times |-> Exposure(q, i, csas)]
  BY Zenon DEF Reduction, Exposure
<1> DEFINE dates == DOMAIN q.times
           ee == [i \in dates |-> Exposure(q, i, csas)]
           term == [i \in dates |-> ee[i] * LossGivenDefault(ask.counterparty)
                      * DefaultIncrement(ask.counterparty, q.times, i)]
<1>2. Reduction(ask, q, p).cva = SumFunction([i \in dates |-> Discount(q, i) * term[i]])
  BY Zenon DEF Reduction, Exposure
<1>3. \A i \in dates : term[i] = Exposure(q, i, csas)
        * LossGivenDefault(ask.counterparty) * DefaultIncrement(ask.counterparty, q.times, i)
  BY Zenon
<1> HIDE DEF term, dates
<1>4. [i \in dates |-> Discount(q, i) * term[i]] = Losses(q, csas, ask.counterparty)
  BY <1>3, Zenon DEF Losses, dates
<1>5. QED
  BY <1>1, <1>2, <1>4, Zenon DEF dates

(* On every date of a valid cube the exposure is a number. *)
LEMMA ExposureFacts ==
  ASSUME NEW q, TypedCube(q), ValidCube(q), NEW csas \in Seq(Agreements),
         NEW i \in DOMAIN q.times
  PROVE  Exposure(q, i, csas) \in Nat
<1> DEFINE row == Positives(q, i, csas)
<1>1. PICK path \in Seq(Int) : path = q.paths[i] /\ Len(path) \in Nat /\ Len(path) > 0
  <2>1. Len(q.paths) = Len(q.times) /\ DOMAIN q.times = 1 .. Len(q.times)
        /\ q.paths \in Seq(Seq(Int)) /\ Len(q.times) \in Nat
    BY DEF TypedCube, ValidCube
  <2>2. i \in DOMAIN q.paths /\ 1 \in DOMAIN q.paths /\ q.paths[i] \in Seq(Int)
        /\ q.paths[1] \in Seq(Int)
    BY <2>1
  <2>3. Len(q.paths[i]) = Len(q.paths[1]) /\ q.paths[1] # <<>>
    BY <2>2 DEF ValidCube
  <2>4. Len(q.paths[1]) \in Nat /\ Len(q.paths[1]) > 0
    BY <2>2, <2>3, LenProperties, EmptySeq
  <2>5. QED
    BY <2>2, <2>3, <2>4
<1>2. DOMAIN row = 1 .. Len(path) /\ \A k \in 1 .. Len(path) : row[k] \in Nat
  <2>1. DOMAIN path = 1 .. Len(path) /\ \A k \in 1 .. Len(path) : path[k] \in Int
    BY <1>1
  <2>2. \A k \in 1 .. Len(path) : PositivePart(CollateralAdjust(path[k], csas)) \in Nat
    BY <2>1, AdjustIsWhole, PartFacts
  <2>3. row = [k \in 1 .. Len(path) |-> PositivePart(CollateralAdjust(path[k], csas))]
    BY <1>1, <2>1, Zenon DEF Positives
  <2> HIDE DEF row
  <2>4. QED
    BY <2>2, <2>3
<1> HIDE DEF row
<1>3. SumFunction(row) \in Nat
  <2>1. IsFiniteSet(1 .. Len(path))
    BY <1>1, UptoFinite
  <2>2. SumOf(row, 1 .. Len(path)) \in Nat
    BY <1>2, <2>1, SumNotNegative
  <2>3. QED
    BY <1>2, <2>2, SumFunctionIsSum
<1>4. Len(row) = Len(path)
  <2>1. row \in [1 .. Len(path) -> Nat]
    <3>1. row = [k \in 1 .. Len(path) |-> row[k]]
      BY <1>2 DEF row, Positives
    <3>2. QED
      BY <1>2, <3>1
  <2>2. QED
    BY <1>1, <2>1, FunctionIsSeq
<1>5. Mean(row) \in Nat
  <2>1. \A a, b \in Nat : b > 0 => a \div b \in Nat
    OBVIOUS
  <2>2. QED
    BY <1>1, <1>3, <1>4, <2>1 DEF Mean
<1>6. QED
  BY <1>5 DEF Exposure, row

LEMMA LossGivenDefaultFacts ==
  ASSUME NEW spec, spec.recovery \in Int
  PROVE  LossGivenDefault(spec) \in Nat
BY ReductionAssumption DEF ReductionAssumption, LossGivenDefault, Clamp

LEMMA DiscountFacts ==
  ASSUME NEW q, TypedCube(q), ValidCube(q), NEW i \in DOMAIN q.times
  PROVE  Discount(q, i) \in Nat
BY DEF TypedCube, ValidCube, Discount

(* The increments of a decreasing default curve are the differences of what *)
(* survives, up to cap: of the given curve, of the hazard rate, or of the   *)
(* one and from its end on of the other.                                    *)
Falls(c, n, cap) == /\ \A i \in 0 .. n : c[i] \in 0 .. cap
                    /\ \A i \in 1 .. n : c[i] <= c[i - 1]

LEMMA CountedFacts ==
  ASSUME NEW spec, NEW n
  PROVE  DefaultsCounted(spec, n) \in Nat
BY ReductionAssumption DEF ReductionAssumption, DefaultsCounted

LEMMA Shifted ==
  ASSUME NEW k \in Int, NEW x \in Int, NEW y \in Int, y <= x
  PROVE  k + y <= k + x /\ (k + x) - (k + y) = x - y
OBVIOUS

LEMMA Increments ==
  ASSUME NEW q, TypedCube(q), ValidCube(q),
         NEW spec, spec.survival \in Seq(Int), spec.hazard \in DOMAIN Survival,
         ToSet(q.times) \cap Nat \subseteq DOMAIN Survival[spec.hazard],
         NEW n, n = Len(q.times), Decreasing(spec)
  PROVE  \E c : /\ Falls(c, n, DefaultsCounted(spec, n))
                /\ \A i \in 1 .. n :
                     DefaultIncrement(spec, q.times, i) = c[i - 1] - c[i]
<1>1. n \in Nat /\ DOMAIN q.times = 1 .. n /\ Unit \in Nat
  BY ReductionAssumption DEF TypedCube, ReductionAssumption
<1> DEFINE S == Survival[spec.hazard]
           at == [i \in 0 .. n |-> IF i = 0 THEN 0 ELSE q.times[i]]
           w == [i \in 0 .. n |-> S[at[i]]]
<1>2. /\ \A i \in 1 .. n : q.times[i] \in Int
      /\ q.times[1] >= 0
      /\ \A i \in 2 .. n : q.times[i] > q.times[i - 1]
  BY <1>1 DEF TypedCube, ValidCube
<1>3. \A i \in 1 .. n : q.times[i] \in Nat
  <2> DEFINE N == {k \in Nat : k + 1 <= n => q.times[k + 1] \in Nat}
  <2>1. 0 \in N
    BY <1>1, <1>2
  <2>2. ASSUME NEW k \in Nat, k \in N
        PROVE  k + 1 \in N
    <3>1. CASE k + 2 <= n
      <4>1. k + 2 \in 2 .. n /\ (k + 2) - 1 = k + 1 /\ k + 2 \in 1 .. n
        BY <3>1
      <4>2. q.times[k + 2] > q.times[k + 1] /\ q.times[k + 2] \in Int
        BY <1>2, <4>1
      <4>3. q.times[k + 1] \in Nat
        BY <2>2, <3>1
      <4>4. QED
        BY <4>2, <4>3
    <3>2. CASE ~(k + 2 <= n)
      BY <1>1, <3>2
    <3>3. QED
      BY <3>1, <3>2
  <2>3. Nat \subseteq N
    <3> HIDE DEF N
    <3>1. QED
      BY <2>1, <2>2, SetInduction
  <2>4. SUFFICES ASSUME NEW i \in 1 .. n
                 PROVE  q.times[i] \in Nat
    OBVIOUS
  <2>5. i - 1 \in Nat /\ (i - 1) + 1 = i /\ i <= n
    BY <1>1
  <2>6. i - 1 \in N
    <3> HIDE DEF N
    <3>1. QED
      BY <2>3, <2>5
  <2>7. QED
    BY <2>5, <2>6
<1>4. \A i \in 0 .. n : at[i] \in Nat /\ at[i] \in DOMAIN S
  <2>1. \A i \in 1 .. n : q.times[i] \in ToSet(q.times)
    BY <1>1 DEF ToSet
  <2>2. 0 \in DOMAIN S
    BY ReductionAssumption DEF ReductionAssumption
  <2>3. QED
    BY <1>3, <2>1, <2>2
<1>5. \A i \in 1 .. n : /\ i - 1 \in 0 .. n /\ i \in 0 .. n
                        /\ at[i - 1] <= at[i]
                        /\ at[i] = q.times[i]
                        /\ at[i - 1] = IF i = 1 THEN 0 ELSE q.times[i - 1]
  BY <1>2, <1>3
<1>6. \A t, u \in DOMAIN S : S[t] \in 0 .. Unit /\ (t <= u => S[u] <= S[t])
  BY ReductionAssumption DEF ReductionAssumption
<1>7. \A i \in 0 .. n : w[i] = S[at[i]]
  OBVIOUS
<1> HIDE DEF at, w, S
<1>8. Falls(w, n, Unit)
  BY <1>4, <1>5, <1>6, <1>7, ZenonT(30) DEF Falls
<1>9. ASSUME NEW i \in 1 .. n, i \notin DOMAIN spec.survival
      PROVE  DefaultIncrement(spec, q.times, i) = w[i - 1] - w[i]
  <2>1. PICK start \in Nat : start = at[i - 1]
    BY <1>4, <1>5
  <2>2. PICK end \in Nat : end = at[i] /\ start <= end
    BY <1>4, <1>5, <2>1
  <2>3. (IF end > start THEN end ELSE start) = end
    BY <2>1, <2>2
  <2>4. DefaultIncrement(spec, q.times, i) =
          S[start] - S[IF end > start THEN end ELSE start]
    BY <1>5, <1>9, <2>1, <2>2 DEF DefaultIncrement, S
  <2>5. QED
    BY <1>5, <1>7, <2>1, <2>2, <2>3, <2>4, SMTT(30)
<1>10. PICK s \in Seq(Int) : s = spec.survival
  OBVIOUS
<1>11. PICK l \in Nat : l = Len(s) /\ DOMAIN s = 1 .. l
  BY <1>10
<1>12. PICK g : g = [i \in 0 .. l |-> IF i = 0 THEN Unit ELSE s[i]]
  OBVIOUS
<1>13. Falls(g, l, Unit)
  <2>1. \A i \in 1 .. l : s[i] \in 0 .. Unit
    BY <1>10, <1>11 DEF Decreasing
  <2>2. \A i \in 2 .. l : s[i] <= s[i - 1]
    BY <1>10, <1>11 DEF Decreasing
  <2>3. QED
    BY <1>1, <1>12, <2>1, <2>2 DEF Falls
<1>14. ASSUME NEW i \in 1 .. n, i <= l
       PROVE  DefaultIncrement(spec, q.times, i) = g[i - 1] - g[i]
  <2>1. i \in 1 .. l /\ i \in DOMAIN spec.survival
    BY <1>10, <1>11, <1>14
  <2>2. PICK x : x = IF i = 1 THEN Unit ELSE s[i - 1]
    OBVIOUS
  <2>3. DefaultIncrement(spec, q.times, i) = PositivePart(x - s[i])
    BY <1>10, <2>1, <2>2 DEF DefaultIncrement
  <2>4. x = g[i - 1] /\ s[i] = g[i]
    BY <1>12, <2>1, <2>2
  <2>5. g[i - 1] \in Int /\ g[i] \in Int /\ g[i] <= g[i - 1]
    BY <1>1, <1>13, <2>1 DEF Falls
  <2>6. QED
    BY <2>3, <2>4, <2>5 DEF PositivePart
<1>15. CASE s = <<>>
  <2>1. DefaultsCounted(spec, n) = Unit
    BY <1>10, <1>15 DEF DefaultsCounted
  <2>2. \A i \in 1 .. n : i \notin DOMAIN spec.survival
    BY <1>10, <1>15
  <2>3. QED
    BY <1>8, <1>9, <2>1, <2>2
<1>16. CASE l >= n
  <2>1. DefaultsCounted(spec, n) = Unit
    BY <1>10, <1>11, <1>16 DEF DefaultsCounted
  <2>2. Falls(g, n, Unit)
    BY <1>1, <1>13, <1>16 DEF Falls
  <2>3. \A i \in 1 .. n : i <= l
    BY <1>1, <1>16
  <2>4. QED
    BY <1>14, <2>1, <2>2, <2>3
<1>17. CASE s # <<>> /\ ~(l >= n)
  <2>1. DefaultsCounted(spec, n) = 2 * Unit
    BY <1>10, <1>11, <1>17 DEF DefaultsCounted
  <2>2. PICK c : c = [i \in 0 .. n |-> IF i <= l THEN Unit + g[i]
                                      ELSE Unit + g[l] - w[l] + w[i]]
    OBVIOUS
  <2>3. /\ \A i \in 0 .. l : g[i] \in 0 .. Unit
        /\ \A i \in 1 .. l : g[i] <= g[i - 1]
    BY <1>13 DEF Falls
  <2>4. /\ \A i \in 0 .. n : w[i] \in 0 .. Unit
        /\ \A i \in 1 .. n : w[i] <= w[i - 1]
    BY <1>8 DEF Falls
  <2>5. \A i \in l .. n : w[i] <= w[l]
    <3>1. SUFFICES ASSUME NEW i \in l .. n
                   PROVE  w[i] <= w[l]
      OBVIOUS
    <3>2. i \in 0 .. n /\ l \in 0 .. n
      BY <1>1, <1>11, <1>17
    <3>3. at[l] <= at[i]
      <4> DEFINE N == {k \in Nat : l + k <= n => at[l] <= at[l + k]}
      <4>1. 0 \in N
        BY <1>1, <1>4, <3>2
      <4>2. ASSUME NEW k \in Nat, k \in N
            PROVE  k + 1 \in N
        <5>1. CASE l + (k + 1) <= n
          <6>1. /\ l + k <= n /\ l + (k + 1) \in 1 .. n /\ l + k \in 0 .. n
                /\ (l + (k + 1)) - 1 = l + k
            BY <1>1, <1>11, <5>1
          <6>2. at[l + k] <= at[l + (k + 1)]
            BY <1>5, <6>1
          <6>3. at[l] <= at[l + k]
            BY <4>2, <6>1
          <6>4. at[l] \in Nat /\ at[l + k] \in Nat /\ at[l + (k + 1)] \in Nat
            BY <1>4, <3>2, <6>1
          <6>5. QED
            BY <6>2, <6>3, <6>4, SMTT(30)
        <5>2. CASE ~(l + (k + 1) <= n)
          BY <5>2
        <5>3. QED
          BY <5>1, <5>2
      <4>3. Nat \subseteq N
        <5> HIDE DEF N
        <5>1. QED
          BY <4>1, <4>2, SetInduction
      <4>4. i - l \in Nat /\ l + (i - l) = i /\ i <= n
        BY <1>1, <3>2
      <4>5. i - l \in N
        <5> HIDE DEF N
        <5>1. QED
          BY <4>3, <4>4
      <4>6. QED
        BY <4>4, <4>5
    <3>4. QED
      BY <1>4, <1>6, <1>7, <3>2, <3>3
  <2>6. ASSUME NEW i \in 0 .. n
        PROVE  c[i] \in 0 .. (2 * Unit)
    <3>1. l \in 0 .. l /\ l \in 0 .. n
      BY <1>1, <1>11, <1>17
    <3>2. CASE i <= l
      BY <1>1, <1>11, <2>2, <2>3, <3>2
    <3>3. CASE ~(i <= l)
      <4>1. /\ g[l] \in 0 .. Unit /\ w[l] \in 0 .. Unit /\ w[i] \in 0 .. Unit
            /\ w[i] <= w[l]
        BY <1>1, <1>11, <2>3, <2>4, <2>5, <3>1, <3>3
      <4>2. c[i] = Unit + g[l] - w[l] + w[i]
        BY <2>2, <3>3
      <4>3. QED
        BY <1>1, <4>1, <4>2, SMTT(30)
    <3>4. QED
      BY <3>2, <3>3
  <2>7. ASSUME NEW i \in 1 .. n
        PROVE  /\ c[i] <= c[i - 1]
               /\ DefaultIncrement(spec, q.times, i) = c[i - 1] - c[i]
    <3>1. /\ i - 1 \in 0 .. n /\ i \in 0 .. n /\ l \in 0 .. l /\ l \in 0 .. n
          /\ w[i - 1] \in Int /\ w[i] \in Int /\ w[l] \in Int /\ g[l] \in Int
          /\ w[i] <= w[i - 1]
      BY <1>1, <1>11, <1>17, <2>3, <2>4, SMTT(30)
    <3>2. CASE i <= l
      <4>1. /\ i \in 1 .. l /\ i - 1 \in 0 .. l /\ i \in 0 .. l
            /\ g[i] \in Int /\ g[i - 1] \in Int /\ g[i] <= g[i - 1]
        BY <1>11, <2>3, <3>2
      <4>2. c[i] = Unit + g[i] /\ c[i - 1] = Unit + g[i - 1]
        BY <2>2, <3>1, <4>1
      <4>3. DefaultIncrement(spec, q.times, i) = g[i - 1] - g[i]
        BY <1>14, <3>2
      <4>4. Unit \in Int
        BY <1>1
      <4>5. /\ Unit + g[i] <= Unit + g[i - 1]
            /\ (Unit + g[i - 1]) - (Unit + g[i]) = g[i - 1] - g[i]
        BY <4>1, <4>4, Shifted
      <4>6. QED
        BY <4>2, <4>3, <4>5, Zenon
    <3>3. CASE ~(i <= l)
      <4>1. i \notin DOMAIN spec.survival
        BY <1>10, <1>11, <3>3
      <4>2. DefaultIncrement(spec, q.times, i) = w[i - 1] - w[i]
        BY <1>9, <4>1
      <4>3. c[i] = Unit + g[l] - w[l] + w[i]
        BY <2>2, <3>1, <3>3
      <4>4. c[i - 1] = Unit + g[l] - w[l] + w[i - 1]
        <5>1. CASE i - 1 = l
          BY <1>1, <2>2, <3>1, <5>1
        <5>2. CASE i - 1 # l
          <6>1. ~(i - 1 <= l)
            BY <1>11, <3>3, <5>2
          <6>2. QED
            BY <2>2, <3>1, <6>1
        <5>3. QED
          BY <5>1, <5>2
      <4>5. Unit + g[l] - w[l] \in Int
        BY <1>1, <3>1
      <4>6. PICK k \in Int : k = Unit + g[l] - w[l]
        BY <4>5
      <4>7. k + w[i] <= k + w[i - 1] /\ (k + w[i - 1]) - (k + w[i]) = w[i - 1] - w[i]
        BY <3>1, Shifted
      <4>8. c[i] = k + w[i] /\ c[i - 1] = k + w[i - 1]
        BY <4>3, <4>4, <4>6, Zenon
      <4>9. QED
        BY <4>2, <4>7, <4>8, Zenon
    <3>4. QED
      BY <3>2, <3>3
  <2>8. Falls(c, n, 2 * Unit)
    BY <2>6, <2>7 DEF Falls
  <2>9. QED
    BY <2>1, <2>7, <2>8
<1>18. QED
  BY <1>15, <1>16, <1>17

LEMMA Products3 ==
  ASSUME NEW a \in Nat, NEW b \in Nat, NEW c \in Nat, a <= b
  PROVE  a * c <= b * c /\ c * a <= c * b /\ a * c \in Nat
OBVIOUS

LEMMA Products4 ==
  ASSUME NEW x \in Nat, NEW y \in Nat, NEW g \in Nat, NEW z \in Nat
  PROVE  x * (y * g * z) = ((x * y) * g) * z /\ ((x * y) * g) * z \in Nat
OBVIOUS

(* The losses of one cube stay below the loss on its largest exposure. *)
LEMMA LossOfCube ==
  ASSUME NEW q, TypedCube(q), ValidCube(q), NEW csas \in Seq(Agreements),
         NEW spec, spec.survival \in Seq(Int), spec.recovery \in Int,
         spec.hazard \in DOMAIN Survival,
         ToSet(q.times) \cap Nat \subseteq DOMAIN Survival[spec.hazard],
         Decreasing(spec)
  PROVE  /\ SumFunction(Losses(q, csas, spec)) \in Nat
         /\ \E m \in DOMAIN q.times :
              SumFunction(Losses(q, csas, spec)) <=
                Discount(q, m) * Exposure(q, m, csas) * LossGivenDefault(spec)
                                                      * DefaultsCounted(spec, Len(q.times))
<1>1. PICK n \in Nat : n = Len(q.times) /\ DOMAIN q.times = 1 .. n /\ n > 0
  BY LenProperties, EmptySeq DEF TypedCube, ValidCube
<1>2. PICK c : /\ Falls(c, n, DefaultsCounted(spec, n))
               /\ \A i \in 1 .. n :
                     DefaultIncrement(spec, q.times, i) = c[i - 1] - c[i]
  <2>1. n = Len(q.times) /\ Decreasing(spec)
    BY <1>1
  <2>2. QED
    BY <2>1, Increments
<1>3. PICK d : d = [i \in 1 .. n |-> DefaultIncrement(spec, q.times, i)]
  OBVIOUS
<1>4. PICK e : e = [i \in 1 .. n |-> Discount(q, i) * Exposure(q, i, csas)]
  OBVIOUS
<1>5. PICK g \in Nat : g = LossGivenDefault(spec)
  BY LossGivenDefaultFacts
<1>6. PICK f : f = Losses(q, csas, spec)
  OBVIOUS
<1>7. PICK cap \in Nat : cap = DefaultsCounted(spec, n)
  BY CountedFacts
<1>8. ASSUME NEW i \in 1 .. n
      PROVE  e[i] \in Nat
  <2>1. Discount(q, i) \in Nat /\ Exposure(q, i, csas) \in Nat
    BY <1>1, ExposureFacts, DiscountFacts
  <2>2. QED
    BY <1>4, <2>1
<1>9. /\ \A i \in 0 .. n : c[i] \in 0 .. cap
      /\ \A i \in 1 .. n : i - 1 \in 0 .. n /\ i \in 0 .. n /\ c[i] <= c[i - 1]
  BY <1>2, <1>7 DEF Falls
<1>10. \A i \in 1 .. n : d[i] = c[i - 1] - c[i] /\ d[i] \in Nat
  BY <1>2, <1>3, <1>7, <1>9
<1>11. ASSUME NEW i \in 1 .. n
       PROVE  f[i] = (e[i] * g) * d[i] /\ f[i] \in Nat
  <2>1. f[i] = Discount(q, i) * (Exposure(q, i, csas) * g * d[i])
    BY <1>1, <1>3, <1>5, <1>6, Zenon DEF Losses
  <2>2. PICK x \in Nat, y \in Nat : x = Discount(q, i) /\ y = Exposure(q, i, csas)
    BY <1>1, ExposureFacts, DiscountFacts
  <2>3. e[i] = x * y
    BY <1>4, <2>2
  <2>4. d[i] \in Nat
    BY <1>10
  <2>5. PICK z \in Nat : z = d[i]
    BY <2>4
  <2>6. x * (y * g * z) = ((x * y) * g) * z /\ ((x * y) * g) * z \in Nat
    BY Products4
  <2>7. f[i] = x * (y * g * z) /\ (e[i] * g) * d[i] = ((x * y) * g) * z
    BY <2>1, <2>2, <2>3, <2>5, Zenon
  <2>8. QED
    BY <2>6, <2>7, Zenon
<1>12. IsFiniteSet(1 .. n)
  BY UptoFinite
<1>13. DOMAIN f = 1 .. n
  BY <1>1, <1>6 DEF Losses
<1>14. Whole(f, 1 .. n) /\ Whole(d, 1 .. n) /\ Whole(e, 1 .. n)
  BY <1>8, <1>10, <1>11 DEF Whole
<1>15. SumFunction(f) = SumOf(f, 1 .. n) /\ SumOf(f, 1 .. n) \in Nat
  BY <1>11, <1>12, <1>13, SumFunctionIsSum, SumNotNegative
<1>16. SumOf(d, 1 .. n) \in Nat /\ SumOf(d, 1 .. n) <= cap
  <2>1. SumOf(d, 1 .. n) = c[0] - c[n]
    <3>1. \A i \in 0 .. n : c[i] \in Int
      BY <1>7, <1>9
    <3>2. \A i \in 1 .. n : d[i] = c[i - 1] - c[i]
      BY <1>10
    <3>3. QED
      BY <1>1, <3>1, <3>2, Telescope, ZenonT(30)
  <2>2. c[0] \in 0 .. cap /\ c[n] \in 0 .. cap
    BY <1>9
  <2>3. SumOf(d, 1 .. n) \in Nat
    BY <1>10, <1>12, SumNotNegative
  <2>4. QED
    BY <1>7, <2>1, <2>2, <2>3
<1>17. PICK m \in 1 .. n : \A i \in 1 .. n : e[i] <= e[m]
  <2>1. 1 \in 1 .. n
    BY <1>1
  <2>2. QED
    BY <1>12, <1>14, <2>1, Greatest
<1>18. PICK l \in Nat : l = e[m] * g
  BY <1>8
<1>19. ASSUME NEW i \in 1 .. n
       PROVE  f[i] <= l * d[i]
  <2>1. e[i] \in Nat /\ e[m] \in Nat /\ e[i] <= e[m] /\ d[i] \in Nat
    BY <1>8, <1>10, <1>17
  <2>2. e[i] * g <= l /\ e[i] * g \in Nat
    BY <1>18, <2>1, Products3
  <2>3. (e[i] * g) * d[i] <= l * d[i]
    BY <2>1, <2>2, Products3
  <2>4. QED
    BY <1>11, <2>3
<1>20. SumOf(f, 1 .. n) <= l * SumOf(d, 1 .. n)
  BY <1>12, <1>14, <1>19, SumMonotone
<1>21. l * SumOf(d, 1 .. n) <= l * cap
  BY <1>7, <1>16, Products3
<1>22. SumFunction(f) <= l * cap
  <2>1. l * cap \in Int /\ l * SumOf(d, 1 .. n) \in Int
    BY <1>7, <1>16
  <2>2. QED
    BY <1>15, <1>20, <1>21, <2>1
<1>23. l = Discount(q, m) * Exposure(q, m, csas) * LossGivenDefault(spec)
  BY <1>4, <1>5, <1>18
<1>24. QED
  BY <1>1, <1>6, <1>7, <1>15, <1>22, <1>23

-----------------------------------------------------------------------------
(* The invariant. *)

LEMMA XvaStart ==
  ASSUME XvaInit
  PROVE  XvaIInv
<1>1. IInv /\ answer = "none"
  BY InvariantAtStart DEF XvaInit, Init
<1>2. XvaTypeOK /\ stage = "idle"
  BY DEF XvaInit, XvaTypeOK, Stages
<1>3. QED
  BY <1>1, <1>2 DEF XvaIInv, RowsComplete, CubeFollows, FiguresFollow

(* What netting sees of the call and of the request. *)
LEMMA SameBook ==
  ASSUME UNCHANGED <<portfolio, result, xva, netting_set, trade_id>>
  PROVE  /\ Grouped' = Grouped
         /\ Book' = Book
         /\ NettedTogether(Grouped)' = NettedTogether(Grouped)
         /\ Aggregate(Grouped)' = Aggregate(Grouped)
<1>1. \A i : RowsOf(i)' = RowsOf(i) /\ SetOf(i)' = SetOf(i)
  BY DEF RowsOf, SetOf
<1>2. \A i : ValueFound(i)' = ValueFound(i)
  BY <1>1 DEF ValueFound
<1>3. Grouped' = Grouped
  BY <1>1, <1>2 DEF Grouped
<1>4. \A v : FlatCube(v)' = FlatCube(v)
  BY DEF FlatCube
<1>5. Book' = Book
  BY <1>3, <1>4 DEF Book
<1>6. NettedTogether(Grouped)' = NettedTogether(Grouped)
  BY <1>3 DEF NettedTogether
<1>7. Aggregate(Grouped)' = Aggregate(Grouped)
  BY <1>3, <1>4 DEF Aggregate
<1>8. QED
  BY <1>3, <1>5, <1>6, <1>7

(* The rows of a result are those of the priced trades. *)
LEMMA ReportCompletesRows ==
  ASSUME IInv, Report
  PROVE  RowsComplete'
<1>1. portfolio \in Portfolios /\ UNCHANGED <<portfolio, values>>
  BY DEF IInv, SettledInOrder, TypeOK, Report, request, books
<1>2. IsFiniteSet(Priced) /\ Priced \subseteq Nat
  <2>1. IsFiniteSet(DOMAIN portfolio) /\ DOMAIN portfolio \subseteq Nat
    BY <1>1, RequestFacts
  <2>2. Priced \subseteq DOMAIN portfolio
    BY DEF Priced
  <2>3. QED
    BY <2>1, <2>2, FS_Subset
<1>3. ToSet(Valued) = Priced
  BY <1>2, InOrderFacts DEF Valued
<1>4. result'.trades = [k \in DOMAIN Valued |->
                           [index |-> Valued[k], value |-> values[Valued[k]]]]
  BY DEF Report
<1>5. /\ DOMAIN result'.trades = DOMAIN Valued
      /\ \A k \in DOMAIN Valued : result'.trades[k].index = Valued[k]
  BY <1>4
<1>6. {result'.trades[k].index : k \in DOMAIN result'.trades} = ToSet(Valued)
  BY <1>5 DEF ToSet
<1>7. Priced' = Priced
  BY <1>1 DEF Priced
<1>8. QED
  BY <1>3, <1>6, <1>7 DEF RowsComplete

(* A step of the call on its own keeps that too. *)
LEMMA RowsStayComplete ==
  ASSUME IInv, RowsComplete, Cancel \/ Begin(<<>>) \/ Pricing \/ UNCHANGED vars
  PROVE  RowsComplete'
<1>1. CASE Report
  BY <1>1, ReportCompletesRows
<1>2. CASE Cancel \/ UNCHANGED vars
  <2>1. UNCHANGED <<portfolio, values, result, answer>>
    BY <1>2 DEF Cancel, vars, request, books
  <2>2. Priced' = Priced
    BY <2>1 DEF Priced
  <2>3. QED
    BY <2>1, <2>2 DEF RowsComplete
<1>3. CASE Begin(<<>>) \/ TakeGroup \/ TakeBatch \/ GroupDone \/ ExecuteBatch
  <2>1. answer = "none"
    BY <1>3 DEF IInv, ReturnsOnce, Begin, TakeGroup, TakeBatch, GroupDone, ExecuteBatch
  <2>2. answer' # "Ok"
    BY <1>3, <2>1 DEF Begin, TakeGroup, TakeBatch, GroupDone, ExecuteBatch, Refuse
  <2>3. QED
    BY <2>2 DEF RowsComplete
<1>4. QED
  BY <1>1, <1>2, <1>3 DEF Pricing

(* Between the steps of the handler what it was asked does not change. *)
LEMMA XvaFrame ==
  ASSUME XvaIInv, UNCHANGED <<xva, netting_set, trade_id>>, portfolio' = portfolio,
         IInv', RowsComplete', stage' \in Stages, CubeFollows', FiguresFollow'
  PROVE  XvaIInv'
<1>1. XvaTypeOK'
  BY DEF XvaIInv, XvaTypeOK
<1>2. QED
  BY <1>1 DEF XvaIInv

(* A step that leaves the call and the request alone. *)
LEMMA XvaQuiet ==
  ASSUME XvaIInv, UNCHANGED <<vars, xva, netting_set, trade_id>>
  PROVE  /\ portfolio' = portfolio /\ answer' = answer /\ IInv' /\ RowsComplete'
         /\ \A q : BookFollows(q)' = BookFollows(q)
         /\ Book' = Book /\ Aggregate(Grouped)' = Aggregate(Grouped)
         /\ NettedTogether(Grouped)' = NettedTogether(Grouped)
<1>1. UNCHANGED <<portfolio, answer, result>>
  BY DEF vars, request
<1>2. UNCHANGED vars
  OBVIOUS
<1>3. IInv' /\ RowsComplete'
  BY <1>2, StutterKeeps, RowsStayComplete DEF XvaIInv
<1>4. /\ Book' = Book /\ Aggregate(Grouped)' = Aggregate(Grouped)
      /\ NettedTogether(Grouped)' = NettedTogether(Grouped)
  BY <1>1, SameBook
<1>5. \A q : BookFollows(q)' = BookFollows(q)
  BY <1>1, <1>4 DEF BookFollows
<1>6. QED
  BY <1>1, <1>3, <1>4, <1>5

(* The handler returns without figures. *)
LEMMA ReturnKeeps ==
  ASSUME XvaIInv, UNCHANGED vars,
         NEW how \in {"Cancelled", "InvalidRequest", "Domain"}, Return(how, Absent)
  PROVE  XvaIInv'
<1>1. stage' = how /\ UNCHANGED <<xva, netting_set, trade_id>>
  BY DEF Return, xvaInputs
<1>2. portfolio' = portfolio /\ IInv' /\ RowsComplete'
  BY <1>1, XvaQuiet
<1>3. stage' \in Stages /\ CubeFollows' /\ FiguresFollow'
  BY <1>1 DEF Stages, CubeFollows, FiguresFollow
<1>4. QED
  BY <1>1, <1>2, <1>3, XvaFrame

LEMMA StartXvaKeeps ==
  ASSUME XvaIInv, StartXva
  PROVE  XvaIInv'
<1>1. UNCHANGED vars
  BY DEF StartXva
<1>2. CASE Return("Cancelled", Absent) \/ Return("InvalidRequest", Absent)
             \/ Return("Domain", Absent)
  BY <1>1, <1>2, ReturnKeeps
<1>3. CASE /\ xva.q_exposure # Absent
           /\ q_cube' = xva.q_exposure
           /\ stage' = "reducing"
           /\ UNCHANGED <<xvaInputs, xva_result>>
  <2>1. UNCHANGED <<xva, netting_set, trade_id>>
    BY <1>3 DEF xvaInputs
  <2>2. portfolio' = portfolio /\ IInv' /\ RowsComplete'
    BY <1>1, <2>1, XvaQuiet
  <2>3. stage' \in Stages /\ CubeFollows' /\ FiguresFollow'
    BY <1>3, <2>1 DEF Stages, CubeFollows, FiguresFollow
  <2>4. QED
    BY <2>1, <2>2, <2>3, XvaFrame
<1>4. CASE xva.q_exposure = Absent /\ Return("pricing", Absent)
  <2>1. stage' = "pricing" /\ UNCHANGED <<xva, netting_set, trade_id>>
    BY <1>4 DEF Return, xvaInputs
  <2>2. portfolio' = portfolio /\ IInv' /\ RowsComplete'
    BY <1>1, <2>1, XvaQuiet
  <2>3. stage' \in Stages /\ CubeFollows' /\ FiguresFollow'
    BY <1>4, <2>1 DEF Stages, CubeFollows, FiguresFollow
  <2>4. QED
    BY <2>1, <2>2, <2>3, XvaFrame
<1>5. QED
  BY <1>2, <1>3, <1>4 DEF StartXva

LEMMA PriceBookKeeps ==
  ASSUME XvaIInv, PriceBook
  PROVE  XvaIInv'
<1>1. /\ stage = "pricing" /\ stage' = "pricing"
      /\ UNCHANGED <<xva, netting_set, trade_id>>
      /\ Begin(<<>>) \/ Pricing
  BY DEF PriceBook, xvaInputs
<1>2. IInv'
  <2>1. <<>> \in Seq(Nat)
    OBVIOUS
  <2>2. QED
    BY <1>1, <2>1, BeginKeeps, PricingKeeps DEF XvaIInv
<1>3. RowsComplete'
  BY <1>1, RowsStayComplete DEF XvaIInv
<1>4. portfolio' = portfolio
  BY <1>1, CallFacts DEF XvaIInv
<1>5. stage' \in Stages /\ CubeFollows' /\ FiguresFollow'
  BY <1>1 DEF Stages, CubeFollows, FiguresFollow, XvaIInv
<1>6. QED
  BY <1>1, <1>2, <1>3, <1>4, <1>5, XvaFrame

LEMMA NetBookKeeps ==
  ASSUME XvaIInv, NetBook
  PROVE  XvaIInv'
<1>1. UNCHANGED vars /\ pc = "done" /\ xva.q_exposure = Absent
  BY DEF NetBook, XvaIInv, CubeFollows
<1>2. CASE answer # "Ok" /\ Return(answer, Absent)
  <2>1. answer \in {"Cancelled", "InvalidRequest", "Domain"}
    BY <1>1, <1>2 DEF XvaIInv, IInv, ReturnsOnce, SettledInOrder, TypeOK, Answers
  <2>2. QED
    BY <1>1, <1>2, <2>1, ReturnKeeps
<1>3. CASE /\ answer = "Ok"
           /\ NettedTogether(Grouped)
           /\ q_cube' = FlatCube(SumFunction(Grouped))
           /\ stage' = "reducing"
           /\ UNCHANGED <<xvaInputs, xva_result>>
  <2>1. UNCHANGED <<xva, netting_set, trade_id>>
    BY <1>3 DEF xvaInputs
  <2>2. portfolio' = portfolio /\ IInv' /\ RowsComplete'
        /\ BookFollows(Book)' = BookFollows(Book) /\ Book' = Book
    BY <1>1, <2>1, XvaQuiet DEF BookFollows
  <2>3. BookFollows(q_cube)'
    BY <1>1, <1>3, <2>1, XvaQuiet DEF BookFollows, Book
  <2>4. stage' \in Stages /\ CubeFollows' /\ FiguresFollow'
    BY <1>3, <2>3 DEF Stages, CubeFollows, FiguresFollow
  <2>5. QED
    BY <2>1, <2>2, <2>4, XvaFrame
<1>4. CASE /\ answer = "Ok"
           /\ ~NettedTogether(Grouped)
           /\ Return("Ok", Aggregate(Grouped))
  <2>1. /\ UNCHANGED <<xva, netting_set, trade_id>> /\ stage' = "Ok"
        /\ xva_result' = Aggregate(Grouped)
    BY <1>4 DEF Return, xvaInputs
  <2>2. portfolio' = portfolio /\ IInv' /\ RowsComplete'
    BY <1>1, <2>1, XvaQuiet
  <2>3. /\ answer' = "Ok" /\ ~NettedTogether(Grouped)'
        /\ xva_result' = Aggregate(Grouped)' /\ xva'.q_exposure = Absent
    BY <1>1, <1>4, <2>1, XvaQuiet
  <2>4. stage' \in Stages /\ CubeFollows' /\ FiguresFollow'
    BY <2>1, <2>3 DEF Stages, CubeFollows, FiguresFollow
  <2>5. QED
    BY <2>1, <2>2, <2>4, XvaFrame
<1>5. CASE Return("InvalidRequest", Absent)
  BY <1>1, <1>5, ReturnKeeps
<1>6. QED
  BY <1>2, <1>3, <1>4, <1>5 DEF NetBook

LEMMA ReduceCubeKeeps ==
  ASSUME XvaIInv, ReduceCube
  PROVE  XvaIInv'
<1>1. UNCHANGED vars /\ stage = "reducing"
  BY DEF ReduceCube
<1>2. CASE Return("InvalidRequest", Absent)
  BY <1>1, <1>2, ReturnKeeps
<1>3. CASE /\ Admissible(xva, q_cube, xva.p_exposure)
           /\ Return("Ok", Reduction(xva, q_cube, xva.p_exposure))
  <2>1. /\ UNCHANGED <<xva, netting_set, trade_id>> /\ stage' = "Ok"
        /\ xva_result' = Reduction(xva, q_cube, xva.p_exposure)
    BY <1>3 DEF Return, xvaInputs
  <2>2. portfolio' = portfolio /\ IInv' /\ RowsComplete'
    BY <1>1, <2>1, XvaQuiet
  <2>3. \/ xva.q_exposure # Absent /\ q_cube = xva.q_exposure
        \/ BookFollows(q_cube)
    BY <1>1 DEF XvaIInv, CubeFollows
  <2>4. FiguresFollow'
    <3>1. CASE xva.q_exposure # Absent /\ q_cube = xva.q_exposure
      <4>1. xva'.q_exposure # Absent /\ Figures(xva.q_exposure)'
        BY <1>3, <2>1, <3>1 DEF Figures
      <4>2. QED
        BY <4>1 DEF FiguresFollow
    <3>2. CASE BookFollows(q_cube)
      <4>1. q_cube = Book /\ BookFollows(Book)
        BY <3>2 DEF BookFollows
      <4>2. Book' = Book /\ BookFollows(Book)'
        BY <1>1, <2>1, <4>1, XvaQuiet DEF BookFollows
      <4>3. Admissible(xva', Book', xva'.p_exposure)
            /\ xva_result' = Reduction(xva', Book', xva'.p_exposure)
        BY <1>3, <2>1, <4>1, <4>2
      <4>4. QED
        BY <4>2, <4>3 DEF FiguresFollow, Figures
    <3>3. QED
      BY <2>3, <3>1, <3>2
  <2>5. stage' \in Stages /\ CubeFollows'
    BY <2>1 DEF Stages, CubeFollows
  <2>6. QED
    BY <2>1, <2>2, <2>4, <2>5, XvaFrame
<1>4. QED
  BY <1>2, <1>3 DEF ReduceCube

LEMMA XvaStepKeeps ==
  ASSUME XvaIInv, [XvaNext]_xvaVars
  PROVE  XvaIInv'
<1>1. ASSUME UNCHANGED <<xva, netting_set, trade_id, stage, q_cube, xva_result>>,
             Cancel \/ UNCHANGED vars
      PROVE  XvaIInv'
  <2>1. UNCHANGED <<portfolio, answer, result>>
    BY <1>1 DEF Cancel, vars, request
  <2>2. IInv' /\ RowsComplete'
    BY <1>1, CancelKeeps, StutterKeeps, RowsStayComplete DEF XvaIInv
  <2>3. /\ Grouped' = Grouped /\ Book' = Book
        /\ NettedTogether(Grouped)' = NettedTogether(Grouped)
        /\ Aggregate(Grouped)' = Aggregate(Grouped)
    BY <1>1, <2>1, SameBook
  <2>4. \A q : BookFollows(q)' = BookFollows(q) /\ Figures(q)' = Figures(q)
    BY <1>1, <2>1, <2>3 DEF BookFollows, Figures
  <2>5. CubeFollows'
    BY <1>1, <2>4 DEF XvaIInv, CubeFollows
  <2>6. FiguresFollow'
    <3>1. Figures(Book)' <=> Figures(Book)
      BY <1>1, <2>3 DEF Figures
    <3>2. BookFollows(Book)' <=> BookFollows(Book)
      BY <1>1, <2>1, <2>3 DEF BookFollows
    <3>3. Figures(xva.q_exposure)' <=> Figures(xva.q_exposure)
      BY <1>1 DEF Figures
    <3>4. QED
      BY <1>1, <2>1, <2>3, <3>1, <3>2, <3>3 DEF XvaIInv, FiguresFollow
  <2>7. stage' \in Stages
    BY <1>1 DEF XvaIInv, XvaTypeOK
  <2>8. QED
    BY <1>1, <2>1, <2>2, <2>5, <2>6, <2>7, XvaFrame
<1>2. CASE Cancel /\ UNCHANGED <<xvaInputs, stage, q_cube, xva_result>>
  BY <1>1, <1>2 DEF xvaInputs
<1>3. CASE UNCHANGED xvaVars
  BY <1>1, <1>3 DEF xvaVars, xvaInputs
<1>4. QED
  BY <1>2, <1>3, StartXvaKeeps, PriceBookKeeps, NetBookKeeps, ReduceCubeKeeps
     DEF XvaNext, XvaStep

(* Whatever happens in the pricing call and whenever the run is cancelled,  *)
(* the handler reduces the cube of the request or the one of all trades     *)
(* that were priced.                                                        *)
THEOREM XvaInvariance == XvaSpec => []XvaIInv
<1>1. XvaInit => XvaIInv
  BY XvaStart
<1>2. XvaIInv /\ [XvaNext]_xvaVars => XvaIInv'
  BY XvaStepKeeps
<1>3. QED
  BY <1>1, <1>2, PTL DEF XvaSpec

(* Inside the handler the pricing call is the one of PortfolioPricing, so   *)
(* it settles each trade once too.                                          *)
THEOREM XvaSettles == XvaSpec => ImplementsSettlement
<1>1. XvaInit => Init
  BY DEF XvaInit
<1>2. [XvaNext]_xvaVars => [Next]_vars
  BY DEF XvaNext, XvaStep, StartXva, PriceBook, NetBook, ReduceCube, Next, xvaVars
<1>3. XvaSpec => Spec
  BY <1>1, <1>2, PTL DEF XvaSpec, Spec
<1>4. QED
  BY <1>3, SettlementRefinement

-----------------------------------------------------------------------------
(* The cube of the portfolio. *)

LEMMA FlatFacts ==
  ASSUME XvaTypeOK, NEW v \in Int, NEW q, q = FlatCube(v)
  PROVE  /\ TypedCube(q)
         /\ ValidCube(q)
         /\ DOMAIN q.times = 1 .. Steps(xva) /\ Len(q.times) = Steps(xva)
         /\ Steps(xva) \in Nat /\ Steps(xva) > 0
         /\ ToSet(q.times) = 1 .. Steps(xva)
         /\ \A i \in 1 .. Steps(xva) : Discount(q, i) = 1
<1>1. PICK n \in Nat : n = Steps(xva) /\ n > 0
  BY XvaAssumption DEF XvaTypeOK, XvaAssumption, TypedRequest, Steps
<1>2. PICK m \in Nat : m = Clamp(xva.n_paths, 1, max_derived_paths) /\ m > 0
  BY XvaAssumption DEF XvaTypeOK, XvaAssumption, TypedRequest, Clamp
<1>3. PICK path : path = [k \in 1 .. m |-> v]
  OBVIOUS
<1>4. path \in [1 .. m -> Int]
  BY <1>3
<1>5. path \in Seq(Int) /\ Len(path) = m
  BY <1>2, <1>4, FunctionIsSeq
<1>6. /\ q.times = [i \in 1 .. n |-> i]
      /\ q.paths = [i \in 1 .. n |-> path]
      /\ q.discount_factors = <<>>
  BY <1>1, <1>2, <1>3 DEF FlatCube
<1>7. q.times \in [1 .. n -> Int] /\ q.paths \in [1 .. n -> Seq(Int)]
  BY <1>5, <1>6
<1>8. /\ q.times \in Seq(Int) /\ Len(q.times) = n /\ DOMAIN q.times = 1 .. n
      /\ q.paths \in Seq(Seq(Int)) /\ Len(q.paths) = n /\ DOMAIN q.paths = 1 .. n
  BY <1>1, <1>7, FunctionIsSeq
<1>9. \A i \in 1 .. n : q.times[i] = i /\ q.paths[i] = path
  BY <1>6
<1>10. TypedCube(q)
  BY <1>6, <1>8 DEF TypedCube
<1>11. ValidCube(q)
  <2>1. 1 \in 1 .. n /\ q.times # <<>> /\ path # <<>>
    BY <1>1, <1>2, <1>5, <1>8
  <2>2. \A i \in 2 .. n : i - 1 \in 1 .. n /\ i \in 1 .. n
    BY <1>1
  <2>3. \A i \in 2 .. n : q.times[i] > q.times[i - 1]
    BY <1>1, <1>9, <2>2
  <2>4. QED
    BY <1>6, <1>8, <1>9, <2>1, <2>3 DEF ValidCube
<1>12. ToSet(q.times) = 1 .. n
  <2>1. \A x \in ToSet(q.times) : x \in 1 .. n
    BY <1>8, <1>9 DEF ToSet
  <2>2. \A i \in 1 .. n : i \in ToSet(q.times)
    BY <1>8, <1>9 DEF ToSet
  <2>3. QED
    BY <2>1, <2>2
<1>13. \A i \in 1 .. n : Discount(q, i) = 1
  BY <1>6 DEF Discount
<1>14. QED
  BY <1>1, <1>8, <1>10, <1>11, <1>12, <1>13

(* A cube with one value everywhere has one exposure everywhere. *)
SetExposure(v) == PositivePart(CollateralAdjust(v, xva.collateral_agreements))

LEMMA FlatExposure ==
  ASSUME XvaTypeOK, NEW v \in Int, NEW i \in 1 .. Steps(xva)
  PROVE  /\ SetExposure(v) \in Nat
         /\ Exposure(FlatCube(v), i, xva.collateral_agreements) = SetExposure(v)
<1>1. PICK m \in Nat : m = Clamp(xva.n_paths, 1, max_derived_paths) /\ m > 0
  BY XvaAssumption DEF XvaTypeOK, XvaAssumption, TypedRequest, Clamp
<1>2. PICK e \in Nat : e = SetExposure(v)
  BY AdjustIsWhole, PartFacts, XvaAssumption
     DEF XvaTypeOK, XvaAssumption, TypedRequest, SetExposure
<1>3. PICK row : row = Positives(FlatCube(v), i, xva.collateral_agreements)
  OBVIOUS
<1>4. FlatCube(v).paths[i] = [k \in 1 .. m |-> v]
  BY <1>1 DEF FlatCube
<1>5. row = [k \in 1 .. m |-> e]
  BY <1>2, <1>3, <1>4 DEF Positives, SetExposure
<1>6. row \in [1 .. m -> Int]
  BY <1>5
<1>7. Len(row) = m /\ DOMAIN row = 1 .. m
  BY <1>1, <1>6, FunctionIsSeq
<1>8. SumFunction(row) = m * e
  <2>1. SumFunction(row) = SumOf(row, 1 .. m)
    BY <1>7, SumFunctionIsSum
  <2>2. e \in Int /\ \A k \in 1 .. m : row[k] = e
    BY <1>2, <1>5
  <2>3. SumOf(row, 1 .. m) = m * e
    BY <1>1, <2>2, SumOfEqual
  <2>4. QED
    BY <2>1, <2>3
<1>9. (m * e) \div m = e
  BY <1>1
<1>10. Mean(row) = e
  BY <1>7, <1>8, <1>9 DEF Mean
<1>11. QED
  BY <1>2, <1>3, <1>10 DEF Exposure

(* The rows that netting finds. *)
LEMMA FoundFacts ==
  ASSUME XvaIInv, answer = "Ok", NEW i \in DOMAIN portfolio, RowsOf(i) # {}
  PROVE  /\ Min(RowsOf(i)) \in RowsOf(i)
         /\ ValueFound(i) \in Int
         /\ \A k \in RowsOf(i) : result.trades[k].value = <<market, portfolio[result.trades[k].index]>>
<1>1. result \in Results /\ PricedIn(market, result)
  BY DEF XvaIInv, IInv, SettledInOrder, TypeOK, ResultInOrder
<1>2. PICK n \in Nat : DOMAIN result.trades = 1 .. n
  BY <1>1 DEF Results
<1>3. RowsOf(i) \subseteq 1 .. n
  BY <1>2 DEF RowsOf
<1>4. IsFiniteSet(RowsOf(i)) /\ RowsOf(i) \subseteq Nat
  <2>1. IsFiniteSet(1 .. n)
    BY <1>2, UptoFinite
  <2>2. QED
    BY <1>3, <2>1, FS_Subset
<1>5. PICK k \in RowsOf(i) : k = Min(RowsOf(i))
  <2>1. \E x \in RowsOf(i) : \A y \in RowsOf(i) : x <= y
    BY <1>4, LeastElement
  <2>2. QED
    BY <2>1 DEF Min
<1>6. k \in DOMAIN result.trades
  BY <1>5 DEF RowsOf
<1>7. result.trades[k].value \in Seq(Nat) \X Products
  <2>1. PICK Row : Row = [index : DOMAIN portfolio, value : Prices]
    OBVIOUS
  <2>2. result.trades \in Seq(Row)
    BY <1>1, <2>1 DEF Results
  <2>3. result.trades[k] \in Row
    BY <1>6, <2>2
  <2>4. QED
    BY <2>1, <2>3 DEF Prices
<1>8. result.trades[k].value[2] \in Products
  BY <1>7
<1>9. ValueFound(i) = Worth[result.trades[k].value[2]]
  BY <1>5 DEF ValueFound
<1>10. ValueFound(i) \in Int
  BY <1>8, <1>9, XvaAssumption DEF XvaAssumption
<1>11. QED
  BY <1>1, <1>5, <1>10 DEF PricedIn, Price, RowsOf

LEMMA GroupedFacts ==
  ASSUME XvaIInv, answer = "Ok"
  PROVE  /\ IsFiniteSet(DOMAIN Grouped)
         /\ Whole(Grouped, DOMAIN Grouped)
         /\ SumFunction(Grouped) \in Int
<1> DEFINE found == {i \in DOMAIN portfolio : RowsOf(i) # {}}
           Of(s) == {k \in found : SetOf(k) = s}
           part(s) == [i \in Of(s) |-> ValueFound(i)]
<1>1. IsFiniteSet(found)
  <2>1. IsFiniteSet(DOMAIN portfolio)
    BY RequestFacts DEF XvaIInv, IInv, SettledInOrder, TypeOK
  <2>2. QED
    BY <2>1, FS_Subset
<1>2. DOMAIN Grouped = {SetOf(i) : i \in found}
  BY Zenon DEF Grouped
<1>3. IsFiniteSet(DOMAIN Grouped)
  <2> HIDE DEF found
  <2>1. PICK c \in [found -> DOMAIN Grouped] : c = [i \in found |-> SetOf(i)]
    BY <1>2
  <2>2. c \in Surjection(found, DOMAIN Grouped)
    BY <1>2, <2>1 DEF Surjection
  <2>3. QED
    BY <1>1, <2>2, FS_Surjection
<1>4. ASSUME NEW s \in DOMAIN Grouped
      PROVE  Grouped[s] \in Int
  <2>1. Grouped[s] = SumFunction(part(s))
    BY <1>2, Zenon DEF Grouped
  <2>2. Whole(part(s), Of(s))
    BY FoundFacts DEF Whole
  <2>3. IsFiniteSet(Of(s))
    BY <1>1, FS_Subset
  <2>4. DOMAIN part(s) = Of(s)
    OBVIOUS
  <2> HIDE DEF part, Of, found
  <2>5. QED
    BY <2>1, <2>2, <2>3, <2>4, SumFunctionIsSum, SumIsWhole
<1>5. Whole(Grouped, DOMAIN Grouped)
  BY <1>4, Zenon DEF Whole
<1>6. SumFunction(Grouped) \in Int
  BY <1>3, <1>5, SumFunctionIsSum, SumIsWhole
<1>7. QED
  BY <1>3, <1>5, <1>6

-----------------------------------------------------------------------------
(* CVA and the exposure. *)

LEMMA LossOfReduction ==
  ASSUME XvaTypeOK, NEW q, TypedCube(q), ValidCube(q), NEW p, NEW r,
         r = Reduction(xva, q, p),
         ToSet(q.times) \cap Nat \subseteq DOMAIN Survival[xva.counterparty.hazard],
         Decreasing(xva.counterparty)
  PROVE  /\ r.cva \in Nat
         /\ \E m \in DOMAIN r.ee :
              r.cva <= Discount(q, m) * r.ee[m] * LossGivenDefault(xva.counterparty)
                                                * DefaultsCounted(xva.counterparty, Len(q.times))
<1>1. PICK csas \in Seq(Agreements) : csas = xva.collateral_agreements
  BY XvaAssumption DEF XvaTypeOK, XvaAssumption, TypedRequest
<1>2. PICK spec : spec = xva.counterparty
  OBVIOUS
<1>3. /\ spec.recovery \in Int /\ spec.survival \in Seq(Int)
      /\ spec.hazard \in DOMAIN Survival
  BY <1>2, XvaAssumption DEF XvaTypeOK, XvaAssumption, TypedRequest
<1>4. /\ r.ee = [i \in DOMAIN q.times |-> Exposure(q, i, csas)]
      /\ r.cva = SumFunction(Losses(q, csas, spec))
  BY <1>1, <1>2, ReductionFacts
<1>5. /\ r.cva \in Nat
      /\ \E m \in DOMAIN q.times :
           r.cva <= Discount(q, m) * Exposure(q, m, csas) * LossGivenDefault(spec)
                                                          * DefaultsCounted(spec, Len(q.times))
  BY <1>1, <1>2, <1>3, <1>4, LossOfCube
<1>6. PICK m \in DOMAIN q.times :
        r.cva <= Discount(q, m) * Exposure(q, m, csas) * LossGivenDefault(spec)
                                                       * DefaultsCounted(spec, Len(q.times))
  BY <1>5
<1>7. m \in DOMAIN r.ee /\ r.ee[m] = Exposure(q, m, csas)
  BY <1>4
<1>8. r.cva <= Discount(q, m) * r.ee[m] * LossGivenDefault(spec)
                                        * DefaultsCounted(spec, Len(q.times))
  BY <1>6, <1>7
<1>9. QED
  BY <1>2, <1>5, <1>7, <1>8

LEMMA ReducedFlat ==
  ASSUME XvaTypeOK, NEW v \in Int, NEW p
  PROVE  Reduction(xva, FlatCube(v), p).ee = [i \in 1 .. Steps(xva) |-> SetExposure(v)]
<1>1. PICK q : q = FlatCube(v)
  OBVIOUS
<1>2. DOMAIN q.times = 1 .. Steps(xva)
  BY <1>1, FlatFacts
<1>3. \A i \in 1 .. Steps(xva) :
        Exposure(q, i, xva.collateral_agreements) = SetExposure(v)
  BY <1>1, FlatExposure
<1>4. Reduction(xva, q, p).ee =
        [i \in DOMAIN q.times |-> Exposure(q, i, xva.collateral_agreements)]
  BY ReductionFacts
<1>5. QED
  BY <1>1, <1>2, <1>3, <1>4

(* The time grid of a derived cube is covered by the default curve. *)
LEMMA FlatCovered ==
  ASSUME XvaTypeOK, xva.q_exposure = Absent, NEW v \in Int
  PROVE  ToSet(FlatCube(v).times) \cap Nat \subseteq DOMAIN Survival[xva.counterparty.hazard]
<1>1. ToSet(FlatCube(v).times) = 1 .. Steps(xva)
  BY FlatFacts
<1>2. TimesOf(xva) \subseteq DOMAIN Survival[xva.counterparty.hazard]
  BY XvaAssumption DEF XvaTypeOK, XvaAssumption, TypedRequest
<1>3. TimesOf(xva) = 1 .. Steps(xva)
  BY DEF TimesOf
<1>4. QED
  BY <1>1, <1>2, <1>3

LEMMA LossOfFlat ==
  ASSUME XvaTypeOK, xva.q_exposure = Absent, NEW v \in Int, NEW p, NEW r,
         r = Reduction(xva, FlatCube(v), p),
         Decreasing(xva.counterparty)
  PROVE  /\ r.cva \in Nat
         /\ r.cva <= SetExposure(v) * LossGivenDefault(xva.counterparty)
                                    * DefaultsCounted(xva.counterparty, Steps(xva))
<1>1. PICK q : q = FlatCube(v)
  OBVIOUS
<1>2. /\ TypedCube(q) /\ ValidCube(q) /\ Len(q.times) = Steps(xva)
      /\ \A i \in 1 .. Steps(xva) : Discount(q, i) = 1
  BY <1>1, FlatFacts
<1>3. ToSet(q.times) \cap Nat \subseteq DOMAIN Survival[xva.counterparty.hazard]
  BY <1>1, FlatCovered
<1>4. Decreasing(xva.counterparty) /\ r = Reduction(xva, q, p)
  BY <1>1, <1>2
<1>5. /\ r.cva \in Nat
      /\ \E m \in DOMAIN r.ee :
           r.cva <= Discount(q, m) * r.ee[m] * LossGivenDefault(xva.counterparty)
                                             * DefaultsCounted(xva.counterparty, Steps(xva))
  BY <1>2, <1>3, <1>4, LossOfReduction
<1>6. r.ee = [i \in 1 .. Steps(xva) |-> SetExposure(v)]
  BY ReducedFlat
<1>7. PICK m \in 1 .. Steps(xva) :
        r.cva <= Discount(q, m) * r.ee[m] * LossGivenDefault(xva.counterparty)
                                          * DefaultsCounted(xva.counterparty, Steps(xva))
  BY <1>5, <1>6
<1>8. Discount(q, m) = 1 /\ r.ee[m] = SetExposure(v)
  BY <1>2, <1>6
<1>9. SetExposure(v) \in Nat
  BY FlatExposure
<1>10. 1 * SetExposure(v) = SetExposure(v)
  BY <1>9
<1>11. QED
  BY <1>5, <1>7, <1>8, <1>10

LEMMA AggregateFacts ==
  ASSUME XvaTypeOK, NEW totals, Whole(totals, DOMAIN totals)
  PROVE  /\ Aggregate(totals).ee = [i \in 1 .. Steps(xva) |->
               SumFunction([s \in DOMAIN totals |-> SetExposure(totals[s])])]
         /\ Aggregate(totals).cva = SumFunction([s \in DOMAIN totals |->
               Reduction(xva, FlatCube(totals[s]), xva.p_exposure).cva])
<1> DEFINE Partial(s) == Reduction(xva, FlatCube(totals[s]), xva.p_exposure)
<1>1. Aggregate(totals).cva = SumFunction([s \in DOMAIN totals |->
               Reduction(xva, FlatCube(totals[s]), xva.p_exposure).cva])
  <2> DEFINE partial == [s \in DOMAIN totals |-> Partial(s)]
  <2>1. Aggregate(totals).cva = SumFunction([s \in DOMAIN totals |-> partial[s].cva])
    BY Zenon DEF Aggregate
  <2>2. \A s \in DOMAIN totals : partial[s] = Partial(s)
    BY Zenon
  <2> HIDE DEF partial
  <2>3. [s \in DOMAIN totals |-> partial[s].cva] = [s \in DOMAIN totals |-> Partial(s).cva]
    BY <2>2, Zenon
  <2>4. QED
    BY <2>1, <2>3, Zenon
<1>2. Aggregate(totals).ee = [i \in 1 .. Steps(xva) |->
               SumFunction([s \in DOMAIN totals |-> SetExposure(totals[s])])]
  <2> DEFINE partial == [s \in DOMAIN totals |-> Partial(s)]
             at(i) == [s \in DOMAIN totals |-> partial[s].ee[i]]
  <2>1. Aggregate(totals).ee = [i \in 1 .. Steps(xva) |-> SumFunction(at(i))]
    BY Zenon DEF Aggregate
  <2>2. \A s \in DOMAIN totals :
          Partial(s).ee = [i \in 1 .. Steps(xva) |-> SetExposure(totals[s])]
    BY ReducedFlat DEF Whole
  <2>3. ASSUME NEW i \in 1 .. Steps(xva)
        PROVE  at(i) = [s \in DOMAIN totals |-> SetExposure(totals[s])]
    <3>1. \A s \in DOMAIN totals : partial[s].ee[i] = SetExposure(totals[s])
      <4> HIDE DEF Partial
      <4>1. QED
        BY <2>2
    <3> HIDE DEF partial
    <3>2. QED
      BY <3>1, Zenon
  <2> HIDE DEF at
  <2>4. QED
    BY <2>1, <2>3, Zenon
<1>3. QED
  BY <1>1, <1>2

LEMMA AggregateExposure ==
  ASSUME XvaTypeOK, NEW totals, IsFiniteSet(DOMAIN totals), Whole(totals, DOMAIN totals)
  PROVE  Aggregate(totals).ee \in [1 .. Steps(xva) -> Nat]
<1>1. PICK h : h = [s \in DOMAIN totals |-> SetExposure(totals[s])]
  OBVIOUS
<1>2. \A s \in DOMAIN totals : h[s] \in Nat
  <2>1. SUFFICES ASSUME NEW s \in DOMAIN totals
                 PROVE  h[s] \in Nat
    OBVIOUS
  <2>2. totals[s] \in Int
    BY DEF Whole
  <2>3. 1 \in 1 .. Steps(xva)
    BY <2>2, FlatFacts
  <2>4. QED
    BY <1>1, <2>2, <2>3, FlatExposure
<1>3. SumFunction(h) \in Nat
  <2>1. SumOf(h, DOMAIN totals) \in Nat /\ DOMAIN h = DOMAIN totals
    BY <1>1, <1>2, SumNotNegative
  <2>2. QED
    BY <2>1, SumFunctionIsSum
<1>4. Aggregate(totals).ee = [i \in 1 .. Steps(xva) |-> SumFunction(h)]
  BY <1>1, AggregateFacts, ZenonT(30)
<1>5. QED
  BY <1>3, <1>4

LEMMA LossOfAggregate ==
  ASSUME XvaTypeOK, xva.q_exposure = Absent, NEW totals,
         IsFiniteSet(DOMAIN totals), Whole(totals, DOMAIN totals),
         NEW r, r = Aggregate(totals), Decreasing(xva.counterparty)
  PROVE  \A i \in 1 .. Steps(xva) :
           r.cva <= r.ee[i] * LossGivenDefault(xva.counterparty)
                            * DefaultsCounted(xva.counterparty, Steps(xva))
<1>1. PICK S : S = DOMAIN totals
  OBVIOUS
<1>2. PICK f : f = [s \in S |-> Reduction(xva, FlatCube(totals[s]), xva.p_exposure).cva]
  OBVIOUS
<1>3. PICK h : h = [s \in S |-> SetExposure(totals[s])]
  OBVIOUS
<1>4. PICK g \in Nat : g = LossGivenDefault(xva.counterparty)
                         * DefaultsCounted(xva.counterparty, Steps(xva))
  <2>1. /\ LossGivenDefault(xva.counterparty) \in Nat
        /\ DefaultsCounted(xva.counterparty, Steps(xva)) \in Nat
    BY LossGivenDefaultFacts, CountedFacts, XvaAssumption
       DEF XvaTypeOK, XvaAssumption, TypedRequest
  <2>2. QED
    BY <2>1
<1>5. r.ee = [i \in 1 .. Steps(xva) |-> SumFunction(h)] /\ r.cva = SumFunction(f)
  BY <1>1, <1>2, <1>3, AggregateFacts
<1>6. ASSUME NEW s \in S
      PROVE  f[s] \in Nat /\ h[s] \in Nat /\ f[s] <= g * h[s]
  <2>1. totals[s] \in Int
    BY <1>1 DEF Whole
  <2>2. f[s] \in Nat
        /\ f[s] <= SetExposure(totals[s]) * LossGivenDefault(xva.counterparty)
                                          * DefaultsCounted(xva.counterparty, Steps(xva))
    BY <1>2, <2>1, LossOfFlat
  <2>3. h[s] = SetExposure(totals[s]) /\ h[s] \in Nat
    <3>1. 1 \in 1 .. Steps(xva)
      BY FlatFacts, <2>1
    <3>2. QED
      BY <1>3, <2>1, <3>1, FlatExposure
  <2>4. /\ LossGivenDefault(xva.counterparty) \in Nat
        /\ DefaultsCounted(xva.counterparty, Steps(xva)) \in Nat
    BY LossGivenDefaultFacts, CountedFacts, XvaAssumption
       DEF XvaTypeOK, XvaAssumption, TypedRequest
  <2>5. \A x, y, z \in Nat : x * y * z = (y * z) * x
    OBVIOUS
  <2>6. QED
    BY <1>4, <2>2, <2>3, <2>4, <2>5
<1>7. Whole(f, S) /\ Whole(h, S)
  BY <1>6 DEF Whole
<1>8. SumOf(f, S) <= g * SumOf(h, S)
  <2>1. \A s \in S : f[s] <= g * h[s]
    BY <1>6
  <2>2. IsFiniteSet(S) /\ g \in Int
    BY <1>1, <1>4
  <2>3. QED
    BY <1>7, <2>1, <2>2, SumMonotone
<1>9. SumFunction(f) = SumOf(f, S) /\ SumFunction(h) = SumOf(h, S)
  BY <1>2, <1>3, SumFunctionIsSum
<1>10. SumOf(h, S) \in Nat
  BY <1>1, <1>6, SumNotNegative
<1>11. g * SumOf(h, S) = SumOf(h, S) * LossGivenDefault(xva.counterparty)
                                     * DefaultsCounted(xva.counterparty, Steps(xva))
  <2>1. /\ LossGivenDefault(xva.counterparty) \in Nat
        /\ DefaultsCounted(xva.counterparty, Steps(xva)) \in Nat
    BY LossGivenDefaultFacts, CountedFacts, XvaAssumption
       DEF XvaTypeOK, XvaAssumption, TypedRequest
  <2>2. \A x, y, z \in Nat : (y * z) * x = x * y * z
    OBVIOUS
  <2>3. QED
    BY <1>4, <1>10, <2>1, <2>2
<1>12. \A i \in 1 .. Steps(xva) : r.ee[i] = SumOf(h, S)
  BY <1>5, <1>9
<1>13. QED
  BY <1>5, <1>8, <1>9, <1>11, <1>12

LEMMA LossIsBounded ==
  ASSUME XvaIInv
  PROVE  LossBounded
<1>1. SUFFICES ASSUME stage = "Ok", Decreasing(xva.counterparty)
               PROVE  \E i \in DOMAIN xva_result.ee :
                        xva_result.cva <= DiscountAt(i) * xva_result.ee[i]
                          * LossGivenDefault(xva.counterparty)
                          * DefaultsCounted(xva.counterparty, Len(xva_result.ee))
  BY DEF LossBounded
<1>2. XvaTypeOK
  BY DEF XvaIInv
<1>3. CASE xva.q_exposure # Absent /\ Figures(xva.q_exposure)
  <2>1. PICK q : q = xva.q_exposure
    OBVIOUS
  <2>2. TypedCube(q) /\ ToSet(q.times) \cap Nat
                           \subseteq DOMAIN Survival[xva.counterparty.hazard]
    BY <1>2, <1>3, <2>1, XvaAssumption
       DEF XvaTypeOK, XvaAssumption, TypedRequest, TimesOf
  <2>3. ValidCube(q) /\ xva_result = Reduction(xva, q, xva.p_exposure)
    BY <1>3, <2>1 DEF Figures, Admissible
  <2>4. Len(xva_result.ee) = Len(q.times)
    <3>1. xva_result.ee =
            [i \in DOMAIN q.times |-> Exposure(q, i, xva.collateral_agreements)]
      BY <2>3, ReductionFacts
    <3>2. PICK n \in Nat : n = Len(q.times) /\ DOMAIN q.times = 1 .. n
      BY <2>2 DEF TypedCube
    <3>3. xva_result.ee \in
            [1 .. n -> {Exposure(q, i, xva.collateral_agreements) : i \in 1 .. n}]
      BY <3>1, <3>2
    <3>4. QED
      BY <3>2, <3>3, FunctionIsSeq
  <2>5. Len(xva_result.ee) = Len(q.times) /\ Decreasing(xva.counterparty)
    BY <1>1, <2>4
  <2>6. \E m \in DOMAIN xva_result.ee :
          xva_result.cva <= Discount(q, m) * xva_result.ee[m]
                              * LossGivenDefault(xva.counterparty)
                              * DefaultsCounted(xva.counterparty, Len(q.times))
    BY <1>2, <2>2, <2>3, <2>5, LossOfReduction
  <2>7. \A i : DiscountAt(i) = Discount(q, i)
    BY <1>3, <2>1 DEF DiscountAt
  <2>8. QED
    BY <2>5, <2>6, <2>7
<1>4. ASSUME xva.q_exposure = Absent, xva_result.ee \in [1 .. Steps(xva) -> Nat],
             Decreasing(xva.counterparty) =>
               \A i \in 1 .. Steps(xva) :
                 xva_result.cva <=
                   xva_result.ee[i] * LossGivenDefault(xva.counterparty)
                                    * DefaultsCounted(xva.counterparty, Steps(xva))
      PROVE  \E k \in DOMAIN xva_result.ee :
               xva_result.cva <= DiscountAt(k) * xva_result.ee[k]
                          * LossGivenDefault(xva.counterparty)
                          * DefaultsCounted(xva.counterparty, Len(xva_result.ee))
  <2>1. Steps(xva) \in Nat /\ 1 \in 1 .. Steps(xva)
    <3>1. 0 \in Int
      OBVIOUS
    <3>2. QED
      BY <1>2, <3>1, FlatFacts
  <2>2. Len(xva_result.ee) = Steps(xva)
    BY <1>4, <2>1, FunctionIsSeq
  <2>3. xva_result.cva <= xva_result.ee[1] * LossGivenDefault(xva.counterparty)
                                           * DefaultsCounted(xva.counterparty, Steps(xva))
    BY <1>1, <1>4, <2>1, <2>2
  <2>4. DiscountAt(1) = 1 /\ 1 * xva_result.ee[1] = xva_result.ee[1]
    BY <1>4, <2>1 DEF DiscountAt
  <2>5. 1 \in DOMAIN xva_result.ee
    BY <1>4, <2>1
  <2>6. QED
    BY <2>2, <2>3, <2>4, <2>5
<1>5. CASE BookFollows(Book) /\ Figures(Book)
  <2>1. xva.q_exposure = Absent /\ answer = "Ok"
        /\ xva_result = Reduction(xva, Book, xva.p_exposure)
    BY <1>5 DEF BookFollows, Figures
  <2>2. PICK v \in Int : Book = FlatCube(v)
    BY <2>1, GroupedFacts DEF Book
  <2>3. xva_result = Reduction(xva, FlatCube(v), xva.p_exposure)
    BY <2>1, <2>2
  <2>4. xva_result.ee = [i \in 1 .. Steps(xva) |-> SetExposure(v)]
    BY <1>2, <2>3, ReducedFlat
  <2>5. xva_result.ee \in [1 .. Steps(xva) -> Nat]
    <3>1. \A i \in 1 .. Steps(xva) : SetExposure(v) \in Nat
      BY <1>2, FlatExposure
    <3>2. QED
      BY <2>4, <3>1
  <2>6. ASSUME Decreasing(xva.counterparty), NEW i \in 1 .. Steps(xva)
        PROVE  xva_result.cva <=
                 xva_result.ee[i] * LossGivenDefault(xva.counterparty)
                                  * DefaultsCounted(xva.counterparty, Steps(xva))
    <3>1. xva_result.cva <= SetExposure(v) * LossGivenDefault(xva.counterparty)
                                           * DefaultsCounted(xva.counterparty, Steps(xva))
      BY <1>2, <2>1, <2>3, <2>6, LossOfFlat
    <3>2. QED
      BY <2>4, <3>1
  <2>7. QED
    BY <1>4, <2>1, <2>5, <2>6
<1>6. CASE /\ xva.q_exposure = Absent
           /\ answer = "Ok"
           /\ xva_result = Aggregate(Grouped)
  <2>1. IsFiniteSet(DOMAIN Grouped) /\ Whole(Grouped, DOMAIN Grouped)
    BY <1>6, GroupedFacts
  <2>2. ASSUME Decreasing(xva.counterparty)
        PROVE  \A i \in 1 .. Steps(xva) :
                 xva_result.cva <=
                   xva_result.ee[i] * LossGivenDefault(xva.counterparty)
                                    * DefaultsCounted(xva.counterparty, Steps(xva))
    BY <1>2, <1>6, <2>1, <2>2, LossOfAggregate
  <2>3. xva_result.ee \in [1 .. Steps(xva) -> Nat]
    BY <1>2, <1>6, <2>1, AggregateExposure
  <2>4. QED
    BY <1>4, <1>6, <2>2, <2>3
<1>7. QED
  BY <1>1, <1>3, <1>5, <1>6 DEF XvaIInv, FiguresFollow

(* On any grid, with the cube of the request, one derived cube or one for   *)
(* each netting set, and for every decreasing default curve: CVA stays      *)
(* below the loss on the largest exposure, counted twice where the given    *)
(* curve ends before the grid.                                              *)
THEOREM CvaIsBounded == XvaSpec => []LossBounded
BY XvaInvariance, LossIsBounded, PTL

-----------------------------------------------------------------------------
(* Netting. *)

(* With an id of its own, each priced trade finds its own row. *)
LEMMA FindsOwnRow ==
  ASSUME XvaIInv, answer = "Ok", DistinctIds, NEW i \in DOMAIN portfolio
  PROVE  /\ RowsOf(i) # {} <=> i \in Priced
         /\ i \in Priced => ValueFound(i) = Worth[portfolio[i]]
<1>1. DOMAIN trade_id = DOMAIN portfolio
  BY DEF XvaIInv, XvaTypeOK
<1>2. {result.trades[k].index : k \in DOMAIN result.trades} = Priced
  BY DEF XvaIInv, RowsComplete
<1>3. Priced \subseteq DOMAIN portfolio
  BY DEF Priced
<1>4. \A k \in RowsOf(i) : k \in DOMAIN result.trades /\ result.trades[k].index = i
  BY <1>1, <1>2, <1>3 DEF RowsOf, DistinctIds
<1>5. RowsOf(i) # {} <=> i \in Priced
  BY <1>2, <1>4 DEF RowsOf
<1>6. ASSUME i \in Priced
      PROVE  ValueFound(i) = Worth[portfolio[i]]
  <2>1. RowsOf(i) # {}
    BY <1>5, <1>6
  <2>2. PICK k \in RowsOf(i) : k = Min(RowsOf(i))
    BY <2>1, FoundFacts
  <2>3. result.trades[k].value = <<market, portfolio[i]>>
    BY <1>4, <2>1, <2>2, FoundFacts
  <2>4. result.trades[k].value[2] = portfolio[i]
    BY <2>3
  <2>5. QED
    BY <2>2, <2>4 DEF ValueFound
<1>7. QED
  BY <1>5, <1>6

LEMMA NettingFacts ==
  ASSUME XvaIInv, answer = "Ok", DistinctIds
  PROVE  /\ DOMAIN Grouped = {SetOf(i) : i \in Priced}
         /\ \A s \in DOMAIN Grouped :
              Grouped[s] = SumFunction([i \in {k \in Priced : SetOf(k) = s} |->
                                          Worth[portfolio[i]]])
<1> DEFINE found == {i \in DOMAIN portfolio : RowsOf(i) # {}}
           Of(s) == {k \in Priced : SetOf(k) = s}
<1>1. found = Priced
  <2>1. Priced \subseteq DOMAIN portfolio
    BY DEF Priced
  <2>2. \A i \in DOMAIN portfolio : RowsOf(i) # {} <=> i \in Priced
    BY FindsOwnRow
  <2>3. QED
    BY <2>1, <2>2
<1>2. \A i \in Priced : ValueFound(i) = Worth[portfolio[i]]
  BY FindsOwnRow DEF Priced
<1>3. Grouped = [s \in {SetOf(i) : i \in found} |->
                   SumFunction([i \in {k \in found : SetOf(k) = s} |-> ValueFound(i)])]
  BY Zenon DEF Grouped
<1> HIDE DEF found
<1>4. Grouped = [s \in {SetOf(i) : i \in Priced} |->
                   SumFunction([i \in Of(s) |-> ValueFound(i)])]
  BY <1>1, <1>3
<1>5. \A s : [i \in Of(s) |-> ValueFound(i)] = [i \in Of(s) |-> Worth[portfolio[i]]]
  BY <1>2
<1> HIDE DEF Of
<1>6. DOMAIN Grouped = {SetOf(i) : i \in Priced}
  BY <1>4, Zenon
<1>7. ASSUME NEW s \in DOMAIN Grouped
      PROVE  Grouped[s] = SumFunction([i \in Of(s) |-> Worth[portfolio[i]]])
  <2>1. Grouped[s] = SumFunction([i \in Of(s) |-> ValueFound(i)])
    BY <1>4, <1>6, Zenon
  <2>2. QED
    BY <1>5, <2>1, Zenon
<1>8. QED
  BY <1>6, <1>7, Zenon DEF Of

(* The sets that netting names are the netting sets, the one of trades      *)
(* without a set under the default name.                                    *)
LEMMA ExposureOfGroups ==
  ASSUME XvaIInv, answer = "Ok", DistinctIds
  PROVE  SumFunction([s \in DOMAIN Grouped |-> SetExposure(Grouped[s])]) = ExposureOfSets
<1>1. PICK N : N = {netting_set[i] : i \in Priced}
  OBVIOUS
<1>2. PICK b : b = [x \in N |-> IF x = Absent THEN DefaultSet ELSE x]
  OBVIOUS
<1>3. \A i \in Priced : /\ netting_set[i] \in N
                        /\ netting_set[i] \in NettingSets \cup {Absent}
                        /\ SetOf(i) = b[netting_set[i]]
  BY <1>1, <1>2 DEF XvaIInv, XvaTypeOK, Priced, SetOf
<1>4. \A x, y \in N : b[x] = b[y] => x = y
  <2>1. N \subseteq NettingSets \cup {Absent}
    BY <1>1, <1>3
  <2>2. DefaultSet \notin NettingSets
    BY XvaAssumption DEF XvaAssumption
  <2>3. QED
    BY <1>2, <2>1, <2>2
<1>5. DOMAIN Grouped = {b[x] : x \in N}
  <2>1. DOMAIN Grouped = {SetOf(i) : i \in Priced}
    BY NettingFacts
  <2>2. QED
    BY <1>1, <1>3, <2>1
<1>6. ASSUME NEW x \in N
      PROVE  Grouped[b[x]] = OwnTotal(x)
  <2>1. {k \in Priced : SetOf(k) = b[x]} = {k \in Priced : netting_set[k] = x}
    BY <1>3, <1>4
  <2>2. b[x] \in DOMAIN Grouped
    BY <1>5
  <2>3. Grouped[b[x]] = SumFunction([i \in {k \in Priced : SetOf(k) = b[x]} |->
                                       Worth[portfolio[i]]])
    BY <2>2, NettingFacts
  <2>4. QED
    BY <2>1, <2>3, Zenon DEF OwnTotal
<1>7. PICK h : h = [s \in DOMAIN Grouped |-> SetExposure(Grouped[s])]
  OBVIOUS
<1>8. PICK f : f = [x \in N |-> SetExposure(OwnTotal(x))]
  OBVIOUS
<1>9. \A x \in N : h[b[x]] = f[x]
  BY <1>5, <1>6, <1>7, <1>8
<1>10. Whole(f, N)
  <2>1. SUFFICES ASSUME NEW x \in N
                 PROVE  f[x] \in Int
    BY DEF Whole
  <2>2. b[x] \in DOMAIN Grouped
    BY <1>5
  <2>3. Grouped[b[x]] \in Int
    BY <2>2, GroupedFacts DEF Whole
  <2>4. 1 \in 1 .. Steps(xva)
    BY <2>3, FlatFacts DEF XvaIInv
  <2>5. SetExposure(Grouped[b[x]]) \in Nat
    BY <2>3, <2>4, FlatExposure DEF XvaIInv
  <2>6. QED
    BY <1>6, <1>8, <2>5
<1>11. IsFiniteSet(N)
  <2>1. IsFiniteSet(Priced)
    <3>1. IsFiniteSet(DOMAIN portfolio)
      BY RequestFacts DEF XvaIInv, IInv, SettledInOrder, TypeOK
    <3>2. QED
      BY <3>1, FS_Subset DEF Priced
  <2>2. PICK c \in [Priced -> N] : c = [i \in Priced |-> netting_set[i]]
    BY <1>3
  <2>3. c \in Surjection(Priced, N)
    BY <1>1, <2>2 DEF Surjection
  <2>4. QED
    BY <2>1, <2>3, FS_Surjection
<1>12. SumOf(h, {b[x] : x \in N}) = SumOf(f, N)
  BY <1>4, <1>9, <1>10, <1>11, SumRenamed
<1>13. SumFunction(h) = SumOf(h, {b[x] : x \in N}) /\ SumFunction(f) = SumOf(f, N)
  <2>1. DOMAIN h = {b[x] : x \in N} /\ DOMAIN f = N
    BY <1>5, <1>7, <1>8
  <2>2. QED
    BY <2>1, SumFunctionIsSum
<1>14. ExposureOfSets = SumFunction(f)
  BY <1>1, <1>8, Zenon DEF ExposureOfSets, SetExposure
<1>15. QED
  BY <1>7, <1>12, <1>13, <1>14

LEMMA SetsAreReducedApart ==
  ASSUME XvaIInv
  PROVE  SetsApartWithoutP
<1>1. SUFFICES ASSUME xva.p_exposure = Absent, Priced # {},
                      stage = "Ok", xva.q_exposure = Absent, DistinctIds,
                      NEW i \in DOMAIN xva_result.ee
               PROVE  xva_result.ee[i] = ExposureOfSets
  BY DEF SetsApartWithoutP, SetsReducedApart, Derived
<1>2. XvaTypeOK
  BY DEF XvaIInv
<1>3. CASE BookFollows(Book) /\ Figures(Book)
  <2>1. /\ answer = "Ok" /\ NettedTogether(Grouped)
        /\ xva_result = Reduction(xva, Book, xva.p_exposure)
    BY <1>3 DEF BookFollows, Figures
  <2>2. IsFiniteSet(DOMAIN Grouped) /\ Whole(Grouped, DOMAIN Grouped)
    BY <1>1, <2>1, GroupedFacts
  <2>3. PICK s : DOMAIN Grouped = {s}
    <3>1. DOMAIN Grouped # {}
      BY <1>1, <2>1, NettingFacts
    <3>2. Cardinality(DOMAIN Grouped) <= 1
      BY <1>1, <2>1 DEF NettedTogether
    <3>3. Cardinality(DOMAIN Grouped) \in Nat /\ Cardinality(DOMAIN Grouped) # 0
      BY <2>2, <3>1, FS_CardinalityType, FS_EmptySet
    <3>4. Cardinality(DOMAIN Grouped) = 1
      BY <3>2, <3>3
    <3>5. QED
      BY <2>2, <3>4, FS_Singleton
  <2>4. Grouped[s] \in Int
    BY <2>2, <2>3 DEF Whole
  <2>5. SumFunction(Grouped) = Grouped[s]
    <3>1. SumFunction(Grouped) = SumOf(Grouped, {s})
      BY <2>3, SumFunctionIsSum
    <3>2. QED
      BY <2>4, <3>1, SumOfOne
  <2>6. xva_result = Reduction(xva, FlatCube(Grouped[s]), xva.p_exposure)
    BY <2>1, <2>5 DEF Book
  <2>7. xva_result.ee = [k \in 1 .. Steps(xva) |-> SetExposure(Grouped[s])]
    BY <1>2, <2>4, <2>6, ReducedFlat
  <2>8. PICK h : h = [t \in DOMAIN Grouped |-> SetExposure(Grouped[t])]
    OBVIOUS
  <2>9. SumFunction(h) = SetExposure(Grouped[s])
    <3>1. DOMAIN h = {s} /\ h[s] = SetExposure(Grouped[s])
      BY <2>3, <2>8
    <3>2. SetExposure(Grouped[s]) \in Int
      <4>1. 1 \in 1 .. Steps(xva)
        BY <1>2, <2>4, FlatFacts
      <4>2. QED
        BY <1>2, <2>4, <4>1, FlatExposure
    <3>3. SumFunction(h) = SumOf(h, {s})
      BY <3>1, SumFunctionIsSum
    <3>4. QED
      BY <3>1, <3>2, <3>3, SumOfOne
  <2>10. SumFunction(h) = ExposureOfSets
    BY <1>1, <2>1, <2>8, ExposureOfGroups
  <2>11. QED
    BY <1>1, <2>7, <2>9, <2>10
<1>4. CASE answer = "Ok" /\ xva_result = Aggregate(Grouped)
  <2>1. PICK h : h = [s \in DOMAIN Grouped |-> SetExposure(Grouped[s])]
    OBVIOUS
  <2>2. IsFiniteSet(DOMAIN Grouped) /\ Whole(Grouped, DOMAIN Grouped)
    BY <1>1, <1>4, GroupedFacts
  <2>3. xva_result.ee = [k \in 1 .. Steps(xva) |-> SumFunction(h)]
    BY <1>2, <1>4, <2>1, <2>2, AggregateFacts, ZenonT(30)
  <2>4. SumFunction(h) = ExposureOfSets
    BY <1>1, <1>4, <2>1, ExposureOfGroups
  <2>5. QED
    BY <1>1, <2>3, <2>4
<1>5. QED
  BY <1>1, <1>3, <1>4 DEF XvaIInv, FiguresFollow

(* Without a P cube no exposure crosses a netting set: on every date it is  *)
(* the sum of what each set of priced trades is exposed on its own total.   *)
THEOREM SetsAreApart == XvaSpec => []SetsApartWithoutP
BY XvaInvariance, SetsAreReducedApart, PTL
=============================================================================
