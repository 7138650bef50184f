---------------------------- MODULE FormulasProofs ----------------------------
(***************************************************************************)
(* What Formulas promises of the pure parts, for every value of the          *)
(* constants.  Inputs never change, so each property is a lemma about one    *)
(* input, carried along by InputsOnly.                                      *)
(***************************************************************************)
EXTENDS Formulas, TLAPS, FiniteSetTheorems, FunctionTheorems, WellFoundedInduction

-----------------------------------------------------------------------------
(***************************************************************************)
(* Arithmetic.                                                              *)
(***************************************************************************)
LEMMA MaxOfTwo ==
    ASSUME NEW x \in Int, NEW y \in Int
    PROVE  Max({x, y}) = IF x >= y THEN x ELSE y
BY DEF Max

\* Likewise the smaller one.
LEMMA MinOfTwo ==
    ASSUME NEW x \in Int, NEW y \in Int
    PROVE  Min({x, y}) = IF x <= y THEN x ELSE y
BY DEF Min

\* Quotient and remainder exist, and nothing else is one.  The name keeps the
\* operators themselves out of the provers' sight.
DivMod(a, b, q, r) == q = a \div b /\ r = a % b

\* They exist.
LEMMA Division ==
    ASSUME NEW a \in Int, NEW b \in Nat \ {0}
    PROVE  \E q \in Int, r \in 0..b - 1 : DivMod(a, b, q, r) /\ a = q * b + r
<1> DEFINE q == a \div b
           r == a % b
<1>1. q \in Int
  OBVIOUS
<1>2. r \in 0..b - 1
  OBVIOUS
<1>3. DivMod(a, b, q, r)
  BY DEF DivMod
<1> HIDE DEF q, r
<1>4. a = q * b + r
  BY <1>1, <1>2, <1>3 DEF DivMod
<1> QED BY <1>1, <1>2, <1>3, <1>4

\* They are the only ones.
LEMMA DivisionIsUnique ==
    ASSUME NEW a \in Int, NEW b \in Nat \ {0}, NEW q \in Int, NEW r \in 0..b - 1,
           a = q * b + r
    PROVE  a \div b = q /\ a % b = r
OBVIOUS

\* The order of quotients, for products that the provers will not compare.
LEMMA ProductsAreOrdered ==
    ASSUME NEW p \in Int, NEW q \in Int, NEW b \in Nat \ {0}, p < q
    PROVE  p * b + b <= q * b
<1>1. q - p >= 1 /\ q - p \in Int /\ p * b \in Int /\ q * b \in Int
  OBVIOUS
<1>2. (q - p) * b >= b
  BY <1>1
<1>3. (q - p) * b = q * b - p * b
  OBVIOUS
<1> QED BY <1>1, <1>2, <1>3

\* Max finds the greatest element.
LEMMA GreatestIsMax ==
    ASSUME NEW S \in SUBSET Int, NEW x \in S, \A y \in S : y <= x
    PROVE  Max(S) = x
<1>1. \E z \in S : \A y \in S : z >= y
  OBVIOUS
<1>2. Max(S) \in S /\ \A y \in S : Max(S) >= y
  BY <1>1 DEF Max
<1>3. Max(S) \in Int /\ x \in Int /\ Max(S) >= x /\ x >= Max(S)
  BY <1>2
<1> QED BY <1>3

\* Min finds the least element.
LEMMA LeastIsMin ==
    ASSUME NEW S \in SUBSET Int, NEW x \in S, \A y \in S : x <= y
    PROVE  Min(S) = x
<1>1. \E z \in S : \A y \in S : z <= y
  OBVIOUS
<1>2. Min(S) \in S /\ \A y \in S : Min(S) <= y
  BY <1>1 DEF Min
<1>3. Min(S) \in Int /\ x \in Int /\ Min(S) <= x /\ x <= Min(S)
  BY <1>2
<1> QED BY <1>3

\* A remainder as the code takes it, of a modulus that is at least one.
LEMMA RemainderInRange ==
    ASSUME NEW hash \in Nat, NEW D \in Nat \ {0}
    PROVE  hash % Max({1, D}) \in 0..D - 1
<1>1. Max({1, D}) = D
  BY MaxOfTwo
<1>2. hash % D \in 0..D - 1
  OBVIOUS
<1> QED BY <1>1, <1>2

\* Induction over the numbers, with the set of those for which it holds.
LEMMA NumberInduction ==
    ASSUME NEW S, 0 \in S, \A n \in Nat : n \in S => n + 1 \in S
    PROVE  Nat \subseteq S
<1> SUFFICES ASSUME Nat \ S # {} PROVE FALSE
  OBVIOUS
<1> DEFINE T == Nat \ S
<1>1. T \subseteq Nat /\ T # {}
  OBVIOUS
<1> HIDE DEF T
<1>2. PICK least \in T : \A n \in T : <<n, least>> \notin OpToRel(<, Nat)
  BY <1>1, WFMin, NatLessThanWellFounded, Zenon
<1>3. \A n \in T : ~(n < least)
  BY <1>1, <1>2, Zenon DEF OpToRel
<1>4. least \in Nat /\ least \notin S /\ least # 0
  BY <1>2 DEF T
<1>5. least - 1 \in Nat /\ least - 1 < least /\ (least - 1) + 1 = least
  BY <1>4
<1>6. least - 1 \in T
  BY <1>4, <1>5 DEF T
<1> QED BY <1>3, <1>5, <1>6

\* A list without repetitions has as many elements as places.
LEMMA ListedOnce ==
    ASSUME NEW n \in Nat, NEW S, NEW list \in [1..n -> S],
           \A j, k \in 1..n : list[j] = list[k] => j = k
    PROVE  Cardinality(ToSet(list)) = n
<1> DEFINE T == ToSet(list)
<1>1. list \in [1..n -> T] /\ \A y \in T : \E k \in 1..n : list[k] = y
  BY DEF ToSet
<1> HIDE DEF T
<1>2. list \in Bijection(1..n, T)
  BY <1>1, Fun_IsBij, Zenon
<1>3. IsFiniteSet(1..n) /\ Cardinality(1..n) = n
  BY FS_Interval
<1>4. Cardinality(T) = n
  BY <1>2, <1>3, FS_Bijection, Zenon DEF ExistsBijection
<1> QED BY <1>4 DEF T

-----------------------------------------------------------------------------
(***************************************************************************)
(* The inputs: a state is one of them for ever, and its kind tells which.   *)
(***************************************************************************)
LEMMA InputsOnly == Spec => [](input \in Inputs)
<1>1. Init => input \in Inputs
  BY DEF Init
<1>2. input \in Inputs /\ [Next]_input => (input \in Inputs)'
  BY DEF Next
<1> QED BY <1>1, <1>2, PTL DEF Spec

\* An input of one kind is not one of another.
LEMMA KindOfInput ==
    ASSUME input \in Inputs
    PROVE  /\ input.kind = "challenge" => input \in ChallengeInputs
           /\ input.kind = "tree" => input \in TreeInputs
           /\ input.kind = "sector" => input \in SectorInputs
           /\ input.kind = "height" => input \in HeightInputs
           /\ input.kind = "window" => input \in WindowInputs
           /\ input.kind = "layout" => input \in LayoutInputs
           /\ input.kind = "blocks" => input \in BlocksInputs
           /\ input.kind = "registry" => input \in RegistryInputs
           /\ input.kind = "network" => input \in NetworkInputs
<1>1. input \in ChallengeInputs => input.kind = "challenge"
  BY DEF ChallengeInputs, ChallengesOf
<1>2. input \in TreeInputs => input.kind = "tree"
  BY DEF TreeInputs
<1>3. input \in SectorInputs => input.kind = "sector"
  BY DEF SectorInputs
<1>4. input \in HeightInputs => input.kind = "height"
  BY DEF HeightInputs
<1>5. input \in WindowInputs => input.kind = "window"
  BY DEF WindowInputs
<1>6. input \in LayoutInputs => input.kind = "layout"
  BY DEF LayoutInputs
<1>7. input \in BlocksInputs => input.kind = "blocks"
  BY DEF BlocksInputs
<1>8. input \in RegistryInputs => input.kind = "registry"
  BY DEF RegistryInputs
<1>9. input \in NetworkInputs => input.kind = "network"
  BY DEF NetworkInputs
<1> QED BY <1>1, <1>2, <1>3, <1>4, <1>5, <1>6, <1>7, <1>8, <1>9 DEF Inputs

-----------------------------------------------------------------------------
(***************************************************************************)
(* Challenges.  With as many chunks as challenges or more, challenge k falls *)
(* into bucket k - 1, and all buckets lie within the chunks.                *)
(***************************************************************************)
SharedOut(n, C, b, t) == b = Bucket(n, C) /\ t = n % C /\ n = C * b + t

\* The bucket is positive, and what is left over is less than the number of challenges.
LEMMA BucketFits ==
    ASSUME NEW n \in Nat \ {0}, NEW C \in Nat \ {0}, n >= C
    PROVE  \E b \in Nat \ {0}, t \in 0..C - 1 : SharedOut(n, C, b, t)
<1>1. PICK q \in Int, r \in 0..C - 1 : DivMod(n, C, q, r) /\ n = q * C + r
  <2>1. n \in Int
    OBVIOUS
  <2> QED BY <2>1, Division, Zenon
<1>2. q >= 1
  <2>1. q < 1 => q * C + C <= 1 * C
    BY ProductsAreOrdered
  <2> QED BY <1>1, <2>1
<1>3. Bucket(n, C) = Max({1, q})
  BY <1>1 DEF Bucket, DivMod
<1>4. Bucket(n, C) = q
  BY <1>2, <1>3, MaxOfTwo
<1>5. n = C * q + r
  BY <1>1
<1>6. SharedOut(n, C, q, r)
  BY <1>1, <1>4, <1>5, Zenon DEF SharedOut, DivMod
<1>7. q \in Nat \ {0}
  BY <1>2
<1> QED BY <1>6, <1>7, Zenon

\* With fewer chunks than challenges a bucket is a chunk.
LEMMA BucketOfFew ==
    ASSUME NEW n \in Nat \ {0}, NEW C \in Nat \ {0}, n < C
    PROVE  Bucket(n, C) = 1
<1>1. n \div C = 0
  BY DivisionIsUnique
<1>2. Max({1, 0}) = 1
  BY MaxOfTwo
<1> QED BY <1>1, <1>2 DEF Bucket

\* So a bucket is never empty.
LEMMA BucketIsPositive ==
    ASSUME NEW n \in Nat \ {0}, NEW C \in Nat \ {0}
    PROVE  Bucket(n, C) \in Nat \ {0}
<1>1. CASE n < C
  BY <1>1, BucketOfFew
<1>2. CASE n >= C
  <2>1. PICK b \in Nat \ {0}, t \in 0..C - 1 : SharedOut(n, C, b, t)
    BY <1>2, BucketFits, Zenon
  <2> QED BY <2>1, Zenon DEF SharedOut
<1> QED BY <1>1, <1>2

\* Challenge k falls on the place its draw gives within bucket k - 1, or on the
\* last chunk when that is beyond the end.
FallsOn(hit, offset, n, b, k, start, r) ==
    /\ start = (k - 1) * b
    /\ hit = IF start + r <= n - 1 THEN offset + start + r ELSE offset + n - 1

\* The place of a challenge within its bucket.
LEMMA ChallengePlace ==
    ASSUME NEW n \in Nat \ {0}, NEW C \in Nat \ {0}, NEW offset \in Nat,
           NEW draw \in [1..C -> Nat], NEW b \in Nat \ {0}, b = Bucket(n, C),
           NEW k \in 1..C
    PROVE  \E r \in 0..b - 1, start \in Nat :
              FallsOn(spread_challenge(draw, C, offset, n)[k], offset, n, b, k, start, r)
<1>1. draw[k] \in Int /\ k - 1 \in Nat
  OBVIOUS
<1> DEFINE start == (k - 1) * b
<1>2. start \in Nat
  BY <1>1
<1>3. PICK r \in 0..b - 1 : draw[k] % b = r
  OBVIOUS
<1>4. ~(C <= 0 \/ n <= 0)
  OBVIOUS
<1>5. spread_challenge(draw, C, offset, n)[k]
        = Min({offset + start + (draw[k] % b), offset + n - 1})
  <2>1. spread_challenge(draw, C, offset, n)
          = [j \in 1..C |-> Min({offset + (j - 1) * Bucket(n, C) + (draw[j] % Bucket(n, C)),
                                 offset + n - 1})]
    BY <1>4, Zenon DEF spread_challenge
  <2> QED BY <2>1, Zenon
<1> DEFINE hit == spread_challenge(draw, C, offset, n)[k]
<1>6. hit = Min({offset + start + r, offset + n - 1})
  BY <1>3, <1>5, Zenon
<1>7. start = (k - 1) * b
  OBVIOUS
<1> HIDE DEF start, hit
<1>8. hit = IF start + r <= n - 1 THEN offset + start + r ELSE offset + n - 1
  BY <1>2, <1>6, MinOfTwo
<1>9. FallsOn(hit, offset, n, b, k, start, r)
  BY <1>7, <1>8, Zenon DEF FallsOn
<1> QED BY <1>2, <1>9, Zenon DEF hit

\* Challenges fall on the chunks that the client has.
LEMMA ChallengesAreChunks ==
    ASSUME NEW n \in Nat \ {0}, NEW C \in Nat \ {0}, NEW offset \in Nat,
           NEW draw \in [1..C -> Nat]
    PROVE  spread_challenge(draw, C, offset, n) \in [1..C -> offset..offset + n - 1]
<1> DEFINE hits == spread_challenge(draw, C, offset, n)
<1>1. ~(C <= 0 \/ n <= 0)
  OBVIOUS
<1>2. hits = [k \in 1..C |-> hits[k]]
  BY <1>1, Zenon DEF spread_challenge
<1>3. PICK b \in Nat \ {0} : b = Bucket(n, C)
  BY BucketIsPositive
<1>4. ASSUME NEW k \in 1..C
      PROVE  hits[k] \in offset..offset + n - 1
  <2> DEFINE hit == hits[k]
  <2>1. PICK r \in 0..b - 1, start \in Nat : FallsOn(hit, offset, n, b, k, start, r)
    BY <1>3, ChallengePlace, Zenon
  <2> HIDE DEF hit
  <2>2. hit \in offset..offset + n - 1
    BY <2>1 DEF FallsOn
  <2> QED BY <2>2 DEF hit
<1> HIDE DEF hits
<1>5. hits \in [1..C -> offset..offset + n - 1]
  BY <1>2, <1>4
<1> QED BY <1>5 DEF hits

\* With enough chunks no bucket reaches beyond the end.
InBucket(hit, offset, n, b, k, start, r) ==
    start = (k - 1) * b /\ hit = offset + start + r /\ start + b <= n

\* Challenge k falls into bucket k - 1.
LEMMA ChallengesAreSpread ==
    ASSUME NEW n \in Nat \ {0}, NEW C \in Nat \ {0}, NEW offset \in Nat,
           NEW draw \in [1..C -> Nat], NEW b \in Nat \ {0}, NEW t \in Nat,
           SharedOut(n, C, b, t), NEW k \in 1..C
    PROVE  \E r \in 0..b - 1, start \in Nat :
              InBucket(spread_challenge(draw, C, offset, n)[k], offset, n, b, k, start, r)
<1> DEFINE hit == spread_challenge(draw, C, offset, n)[k]
<1>1. PICK r \in 0..b - 1, start \in Nat : FallsOn(hit, offset, n, b, k, start, r)
  <2>1. b = Bucket(n, C)
    BY DEF SharedOut
  <2> QED BY <2>1, ChallengePlace, Zenon
<1> HIDE DEF hit
<1>2. start + b <= n
  <2>1. k - 1 \in Int /\ C \in Int /\ k - 1 < C
    OBVIOUS
  <2>2. (k - 1) * b + b <= C * b
    BY <2>1, ProductsAreOrdered, Zenon
  <2>3. start = (k - 1) * b
    BY <1>1 DEF FallsOn
  <2> DEFINE m == C * b
  <2>4. m \in Nat
    OBVIOUS
  <2>5. n = m + t
    BY Zenon DEF SharedOut
  <2>6. start + b <= m
    BY <2>2, <2>3, Zenon
  <2> HIDE DEF m
  <2> QED BY <2>4, <2>5, <2>6
<1>3. hit = offset + start + r
  BY <1>1, <1>2 DEF FallsOn
<1>4. InBucket(hit, offset, n, b, k, start, r)
  BY <1>1, <1>2, <1>3, Zenon DEF FallsOn, InBucket
<1> QED BY <1>4, Zenon DEF hit

\* No two challenges fall on one chunk while there are enough chunks.
LEMMA ChallengesDiffer ==
    ASSUME NEW n \in Nat \ {0}, NEW C \in Nat \ {0}, NEW offset \in Nat,
           NEW draw \in [1..C -> Nat], n >= C
    PROVE  Cardinality(ToSet(spread_challenge(draw, C, offset, n))) = C
<1> DEFINE hits == spread_challenge(draw, C, offset, n)
           chunks == offset..offset + n - 1
<1>1. hits \in [1..C -> chunks]
  BY ChallengesAreChunks
<1>2. PICK b \in Nat \ {0}, t \in 0..C - 1 : SharedOut(n, C, b, t)
  BY BucketFits, Zenon
<1>3. ASSUME NEW j \in 1..C, NEW k \in 1..C, j < k
      PROVE  hits[j] # hits[k]
  <2>0. t \in Nat
    OBVIOUS
  <2> DEFINE hitJ == hits[j]
             hitK == hits[k]
  <2>1. PICK r \in 0..b - 1, start \in Nat : InBucket(hitJ, offset, n, b, j, start, r)
    BY <1>2, <2>0, ChallengesAreSpread, Zenon
  <2>2. PICK s \in 0..b - 1, next \in Nat : InBucket(hitK, offset, n, b, k, next, s)
    BY <1>2, <2>0, ChallengesAreSpread, Zenon
  <2>3. start + b <= next
    <3>1. j - 1 \in Int /\ k - 1 \in Int /\ j - 1 < k - 1
      BY <1>3
    <3>2. (j - 1) * b + b <= (k - 1) * b
      BY <3>1, ProductsAreOrdered, Zenon
    <3> QED BY <2>1, <2>2, <3>2, Zenon DEF InBucket
  <2>4. hitJ = offset + start + r /\ hitK = offset + next + s
    BY <2>1, <2>2, Zenon DEF InBucket
  <2> HIDE DEF hitJ, hitK
  <2>5. hitJ # hitK
    BY <2>3, <2>4
  <2> QED BY <2>5 DEF hitJ, hitK
<1> HIDE DEF hits, chunks
<1>4. \A j, k \in 1..C : hits[j] = hits[k] => j = k
  BY <1>3
<1>5. Cardinality(ToSet(hits)) = C
  BY <1>1, <1>4, ListedOnce
<1> QED BY <1>5 DEF hits

\* A hole of two buckets less one, or of a bucket and the remainder, is hit: the
\* next bucket that begins in it lies in it, unless the hole reaches the end.
LEMMA HolesAreHit ==
    ASSUME NEW n \in Nat \ {0}, NEW C \in Nat \ {0}, NEW offset \in Nat,
           NEW draw \in [1..C -> Nat], NEW b \in Nat \ {0}, NEW t \in Nat,
           SharedOut(n, C, b, t), NEW long \in Nat,
           2 * b - 2 <= long, b - 1 + t <= long,
           NEW a \in offset..offset + n - 1, a + long <= offset + n - 1
    PROVE  \E k \in 1..C : spread_challenge(draw, C, offset, n)[k] \in a..a + long
<1> DEFINE i == a - offset + b - 1
<1>1. i \in Int
  OBVIOUS
<1>2. PICK q \in Int, r \in 0..b - 1 : DivMod(i, b, q, r) /\ i = q * b + r
  BY <1>1, Division, Zenon
<1> DEFINE m == C * b
           start == q * b
<1>3. m \in Int /\ start \in Int
  OBVIOUS
<1>4. n = m + t
  BY Zenon DEF SharedOut
<1>5. i = start + r
  BY <1>2, Zenon
<1>6. q < 0 => start + b <= 0
  <2>1. q < 0 => q * b + b <= 0 * b
    BY ProductsAreOrdered
  <2>2. 0 * b = 0
    OBVIOUS
  <2> QED BY <2>1, <2>2, Zenon
<1>7. C < q => m + b <= start
  <2>1. C \in Int
    OBVIOUS
  <2> QED BY <2>1, ProductsAreOrdered, Zenon
<1>8. C = q => m = start
  OBVIOUS
<1> HIDE DEF m, start
<1>9. q + 1 \in 1..C
  BY <1>3, <1>4, <1>5, <1>6, <1>7, <1>8
<1> DEFINE hit == spread_challenge(draw, C, offset, n)[q + 1]
<1>10. PICK s \in 0..b - 1, here \in Nat : InBucket(hit, offset, n, b, q + 1, here, s)
  BY <1>9, ChallengesAreSpread, Zenon
<1>11. here = start /\ hit = offset + here + s
  <2>1. (q + 1) - 1 = q
    OBVIOUS
  <2> QED BY <1>10, <2>1, Zenon DEF InBucket, start
<1> HIDE DEF hit
<1>12. hit \in a..a + long
  BY <1>3, <1>5, <1>11
<1> QED BY <1>9, <1>12, Zenon DEF hit

\* With fewer chunks than challenges there is one challenge for each chunk.
LEMMA FewAreAllHit ==
    ASSUME NEW n \in Nat \ {0}, NEW C \in Nat \ {0}, NEW offset \in Nat,
           NEW draw \in [1..C -> Nat], n < C,
           NEW a \in offset..offset + n - 1
    PROVE  a \in ToSet(spread_challenge(draw, C, offset, n))
<1>1. Bucket(n, C) = 1
  BY BucketOfFew
<1> DEFINE k == a - offset + 1
           hit == spread_challenge(draw, C, offset, n)[k]
<1>2. k \in 1..C
  OBVIOUS
<1>3. PICK r \in 0..1 - 1, start \in Nat : FallsOn(hit, offset, n, 1, k, start, r)
  <2>1. 1 \in Nat \ {0}
    OBVIOUS
  <2> HIDE DEF k
  <2> QED BY <1>1, <1>2, <2>1, ChallengePlace, Zenon
<1>4. hit \in ToSet(spread_challenge(draw, C, offset, n))
  <2>1. spread_challenge(draw, C, offset, n) \in [1..C -> offset..offset + n - 1]
    BY ChallengesAreChunks
  <2> HIDE DEF k
  <2> QED BY <1>2, <2>1 DEF ToSet
<1> HIDE DEF hit
<1>5. hit = a
  BY <1>3 DEF FallsOn
<1> QED BY <1>4, <1>5, Zenon

-----------------------------------------------------------------------------
(***************************************************************************)
(* The clock.                                                               *)
(***************************************************************************)
\* The rest of a worker is the least number of deadlines its work fits into, less
\* the one it works in.
LEMMA RestIsRoundedUp ==
    ASSUME NEW t \in Nat, NEW w \in Nat \ {0}
    PROVE  LET spans == cooldown_deadlines(t, w) + 1
           IN  /\ spans * w >= t
               /\ spans > 1 => (spans - 1) * w < t
<1> DEFINE spans == cooldown_deadlines(t, w) + 1
<1>1. PICK q \in Int, r \in 0..w - 1 :
        DivMod(t + w - 1, w, q, r) /\ t + w - 1 = q * w + r
  <2>1. t + w - 1 \in Int
    OBVIOUS
  <2> QED BY <2>1, Division, Zenon
<1>2. spans = Max({0, q - 1}) + 1
  <2>1. ~(w <= 0)
    OBVIOUS
  <2> QED BY <1>1, <2>1, Zenon DEF cooldown_deadlines, DivMod
<1> DEFINE work == q * w
<1>3. work \in Int /\ t + w - 1 = work + r
  BY <1>1
<1>4. q < 0 => work + w <= 0
  <2>1. q < 0 => q * w + w <= 0 * w
    BY ProductsAreOrdered
  <2>2. 0 * w = 0
    OBVIOUS
  <2> QED BY <2>1, <2>2, Zenon
<1>5. q = 0 => work = 0
  OBVIOUS
<1>6. 1 * w = w /\ (q - 1) * w = work - w
  OBVIOUS
<1> HIDE DEF work, spans
<1>7. 0 <= q
  BY <1>3, <1>4
<1>8. spans = IF q >= 1 THEN q ELSE 1
  BY <1>2, <1>7, MaxOfTwo
<1>9. CASE q >= 1
  <2>1. spans = q
    BY <1>8, <1>9
  <2>2. work >= t /\ work - w < t
    BY <1>3
  <2>3. spans * w >= t /\ (spans - 1) * w < t
    BY <1>6, <2>1, <2>2, Zenon DEF work
  <2> QED BY <2>3 DEF spans
<1>10. CASE q = 0
  <2>1. spans = 1 /\ t = 0
    BY <1>3, <1>5, <1>8, <1>10
  <2>2. 1 * w >= 0
    OBVIOUS
  <2>3. spans * w >= t /\ ~(spans > 1)
    BY <2>1, <2>2
  <2> QED BY <2>3 DEF spans
<1> QED BY <1>7, <1>9, <1>10

\* The report, the inequality and the rest of a worker agree.
LEMMA TimesOfWindow == input \in Inputs => TimesAgree
<1> SUFFICES ASSUME input \in Inputs, input.kind = "window"
             PROVE  TimesAgree
  BY DEF TimesAgree
<1>1. input \in WindowInputs
  BY KindOfInput
<1> DEFINE w == input.w
           t == input.t_prove
           g == input.t_regen
           report == window_safety_report(w, t, g)
           spans == cooldown_deadlines(t, w) + 1
<1>2. w \in Nat /\ t \in Nat /\ g \in Nat
  BY <1>1, FormulasAssumption DEF WindowInputs
<1>3. /\ report.left_ok = (t <= w) /\ report.right_ok = (w < g + t)
      /\ report.t_prove_min_required = Max({0, w - g})
  BY DEF window_safety_report
<1>4. window_safety_ok(w, t, g) <=> report.left_ok /\ report.right_ok
  BY <1>3 DEF window_safety_ok
<1>5. w >= g => (report.right_ok <=> t > report.t_prove_min_required)
  <2> DEFINE least == report.t_prove_min_required
  <2>1. least = Max({0, w - g})
    BY <1>3
  <2> HIDE DEF least, report, w, t, g
  <2>2. w >= g => least = w - g
    BY <1>2, <2>1, MaxOfTwo
  <2>3. w >= g => ((w < g + t) <=> t > least)
    BY <1>2, <2>2
  <2> QED BY <1>3, <2>3 DEF least
<1>6. w > 0 => spans * w >= t /\ (spans > 1 => (spans - 1) * w < t)
  <2> HIDE DEF w, t
  <2> QED BY <1>2, RestIsRoundedUp
<1> HIDE DEF report, spans
<1>7. TimesAgree
  BY <1>4, <1>5, <1>6, Zenon DEF TimesAgree, report, spans
<1> QED BY <1>7

\* The slots in order: their numbers, and the heights at which they open.
LEMMA OpenHeightsApart ==
    ASSUME NEW m \in Nat, NEW n \in Nat
    PROVE  /\ OpenHeight(n) \in Nat /\ GENESIS_HEIGHT <= OpenHeight(n)
           /\ m < n => OpenHeight(m) + DEADLINE_LEN_BLOCKS <= OpenHeight(n)
<1> DEFINE L == DEADLINE_LEN_BLOCKS
           G == GENESIS_HEIGHT
           mL == m * L
           nL == n * L
<1>1. L \in Nat \ {0} /\ G \in Nat
  BY ClockAssumption
<1>2. mL \in Nat /\ nL \in Nat
  BY <1>1
<1>3. m < n => mL + L <= nL
  BY <1>1, ProductsAreOrdered
<1>4. OpenHeight(n) = G + nL /\ OpenHeight(m) = G + mL
  BY DEF OpenHeight
<1> HIDE DEF mL, nL, L, G
<1>5. G + nL \in Nat /\ G <= G + nL /\ (m < n => G + mL + L <= G + nL)
  BY <1>1, <1>2, <1>3
<1> QED BY <1>4, <1>5 DEF L, G

\* The numbers of slots, and how the epoch is found in them.
LEMMA SlotNumbers ==
    ASSUME NEW e \in Nat, NEW d \in DeadlineIdxs
    PROVE  /\ SlotNumber(e, 0) \in Nat
           /\ SlotNumber(e, d) = SlotNumber(e, 0) + d
           /\ SlotNumber(e + 1, 0) = SlotNumber(e, 0) + DEADLINES_PER_EPOCH
           /\ 0 \in DeadlineIdxs /\ DEADLINES_PER_EPOCH - 1 \in DeadlineIdxs
           /\ DeadlineIdxs \subseteq Nat
<1> DEFINE D == DEADLINES_PER_EPOCH
           eD == e * D
<1>1. D \in Nat \ {0}
  BY ClockAssumption
<1>2. eD \in Nat /\ (e + 1) * D = eD + D
  BY <1>1
<1>3. d \in Nat /\ 0 \in 0..D - 1 /\ D - 1 \in 0..D - 1 /\ 0..D - 1 \subseteq Nat
  BY <1>1 DEF DeadlineIdxs
<1>4. SlotNumber(e, 0) = eD + 0 /\ SlotNumber(e, d) = eD + d
  BY DEF SlotNumber
<1>5. SlotNumber(e + 1, 0) = eD + D + 0
  BY <1>2 DEF SlotNumber
<1> HIDE DEF eD
<1>6. eD + 0 = eD /\ eD + D + 0 = eD + D
  BY <1>1, <1>2
<1> QED BY <1>2, <1>3, <1>4, <1>5, <1>6 DEF DeadlineIdxs

\* A slot's number is no other slot's.
LEMMA SlotNumberIsUnique ==
    ASSUME NEW e \in Nat, NEW d \in DeadlineIdxs, NEW f \in Nat, NEW g \in DeadlineIdxs,
           SlotNumber(e, d) = SlotNumber(f, g)
    PROVE  e = f /\ d = g
<1> DEFINE D == DEADLINES_PER_EPOCH
           n == SlotNumber(e, d)
<1>1. D \in Nat \ {0} /\ d \in 0..D - 1 /\ g \in 0..D - 1
  BY ClockAssumption DEF DeadlineIdxs
<1>2. n = e * D + d /\ n = f * D + g
  BY DEF SlotNumber
<1>3. n \in Int
  BY <1>1, <1>2
<1> HIDE DEF n, D
<1>4. n \div D = e /\ n % D = d
  <2>1. e \in Int
    OBVIOUS
  <2> QED BY <1>1, <1>2, <1>3, <2>1, DivisionIsUnique, Zenon
<1>5. n \div D = f /\ n % D = g
  <2>1. f \in Int
    OBVIOUS
  <2> QED BY <1>1, <1>2, <1>3, <2>1, DivisionIsUnique, Zenon
<1> QED BY <1>4, <1>5

\* A height since genesis is in the slot that slot_of names.
LEMMA SlotOfHeight ==
    ASSUME NEW height \in Nat, GENESIS_HEIGHT <= height
    PROVE  \E e \in Nat, d \in DeadlineIdxs :
              /\ slot_of(height) = slot_at(e, d)
              /\ OpenHeight(SlotNumber(e, d)) <= height
              /\ height < OpenHeight(SlotNumber(e, d)) + DEADLINE_LEN_BLOCKS
<1> DEFINE L == DEADLINE_LEN_BLOCKS
           D == DEADLINES_PER_EPOCH
           above == height - GENESIS_HEIGHT
<1>1. L \in Nat \ {0} /\ D \in Nat \ {0} /\ above \in Nat /\ GENESIS_HEIGHT \in Nat
  BY ClockAssumption
<1>2. PICK i \in Int, r \in 0..L - 1 : DivMod(above, L, i, r) /\ above = i * L + r
  <2>1. above \in Int
    BY <1>1
  <2> HIDE DEF above, L
  <2> QED BY <1>1, <2>1, Division, Zenon
<1>3. PICK e \in Int, d \in 0..D - 1 : DivMod(i, D, e, d) /\ i = e * D + d
  BY <1>1, Division, Zenon
<1>4. slot_of(height) = slot_at(e, d)
  BY <1>2, <1>3, Zenon DEF slot_of, SlotIndex, DivMod
<1>5. i = SlotNumber(e, d)
  BY <1>3, Zenon DEF SlotNumber
<1> DEFINE iL == i * L
           eD == e * D
<1>6. iL \in Int /\ above = iL + r
  BY <1>1, <1>2
<1>7. i < 0 => iL + L <= 0
  <2>1. i < 0 => i * L + L <= 0 * L
    BY <1>1, ProductsAreOrdered
  <2>2. 0 * L = 0
    BY <1>1
  <2> QED BY <2>1, <2>2, Zenon
<1>8. OpenHeight(i) = GENESIS_HEIGHT + iL
  BY DEF OpenHeight
<1>9. 0 <= i
  <2> HIDE DEF iL, above, L
  <2> QED BY <1>1, <1>6, <1>7
<1>10. e < 0 => eD + D <= 0
  <2>1. e < 0 => e * D + D <= 0 * D
    BY <1>1, ProductsAreOrdered
  <2>2. 0 * D = 0
    BY <1>1
  <2> QED BY <2>1, <2>2, Zenon
<1>11. eD \in Int /\ i = eD + d
  BY <1>1, <1>3
<1>12. e \in Nat
  <2> HIDE DEF eD, D
  <2> QED BY <1>1, <1>9, <1>10, <1>11
<1>13. OpenHeight(i) <= height /\ height < OpenHeight(i) + L
  <2>1. height = GENESIS_HEIGHT + above
    BY <1>1
  <2> HIDE DEF iL, above, L
  <2> QED BY <1>1, <1>6, <1>8, <2>1
<1> QED BY <1>4, <1>5, <1>12, <1>13, Zenon DEF DeadlineIdxs

\* What slot_at makes of an epoch and a deadline.
LEMMA SlotFields ==
    ASSUME NEW e \in Nat, NEW d \in DeadlineIdxs
    PROVE  LET slot == slot_at(e, d)
               opens == OpenHeight(SlotNumber(e, d))
           IN  /\ slot.epoch = e /\ slot.deadline_idx = d
               /\ slot.open_height = opens /\ opens \in Nat /\ GENESIS_HEIGHT <= opens
               /\ slot.window_start = opens + BEACON_DELAY_BLOCKS
               /\ slot.window_end = opens + BEACON_DELAY_BLOCKS + SUBMIT_WINDOW_BLOCKS
               /\ opens < slot.window_start
               /\ slot.window_end <= opens + DEADLINE_LEN_BLOCKS
<1> DEFINE opens == OpenHeight(SlotNumber(e, d))
<1>1. opens \in Nat /\ GENESIS_HEIGHT <= opens
  <2>1. SlotNumber(e, d) \in Nat
    BY SlotNumbers
  <2> QED BY <2>1, OpenHeightsApart
<1>2. slot_at(e, d) = [epoch |-> e, deadline_idx |-> d, open_height |-> opens,
                       window_start |-> opens + BEACON_DELAY_BLOCKS,
                       window_end |-> opens + BEACON_DELAY_BLOCKS + SUBMIT_WINDOW_BLOCKS]
  BY DEF slot_at
<1> HIDE DEF opens
<1>3. /\ opens < opens + BEACON_DELAY_BLOCKS
      /\ opens + BEACON_DELAY_BLOCKS + SUBMIT_WINDOW_BLOCKS <= opens + DEADLINE_LEN_BLOCKS
  BY <1>1, ClockAssumption
<1> QED BY <1>1, <1>2, <1>3 DEF opens

\* Two slots are the same, or one opens a whole deadline before the other.
LEMMA SlotsApart ==
    ASSUME NEW e \in Nat, NEW d \in DeadlineIdxs, NEW f \in Nat, NEW g \in DeadlineIdxs
    PROVE  LET here == OpenHeight(SlotNumber(e, d))
               there == OpenHeight(SlotNumber(f, g))
           IN  \/ slot_at(e, d) = slot_at(f, g)
               \/ here + DEADLINE_LEN_BLOCKS <= there
               \/ there + DEADLINE_LEN_BLOCKS <= here
<1> DEFINE m == SlotNumber(e, d)
           n == SlotNumber(f, g)
<1>1. m \in Nat /\ n \in Nat
  BY SlotNumbers
<1>2. m = n => slot_at(e, d) = slot_at(f, g)
  BY SlotNumberIsUnique
<1> HIDE DEF m, n
<1>3. m < n => OpenHeight(m) + DEADLINE_LEN_BLOCKS <= OpenHeight(n)
  BY <1>1, OpenHeightsApart
<1>4. n < m => OpenHeight(n) + DEADLINE_LEN_BLOCKS <= OpenHeight(m)
  BY <1>1, OpenHeightsApart
<1> QED BY <1>1, <1>2, <1>3, <1>4 DEF m, n

\* The deadlines of an epoch open one after the other, the next epoch after them.
LEMMA SlotsInEpoch ==
    ASSUME NEW e \in Nat, NEW d \in DeadlineIdxs
    PROVE  /\ epoch_bounds(e)[1] <= slot_at(e, d).open_height
           /\ slot_at(e, d).window_end <= epoch_bounds(e)[2]
           /\ epoch_bounds(e)[2] <= epoch_bounds(e + 1)[1]
<1> DEFINE D == DEADLINES_PER_EPOCH
           L == DEADLINE_LEN_BLOCKS
           W == BEACON_DELAY_BLOCKS + SUBMIT_WINDOW_BLOCKS
           first == SlotNumber(e, 0)
           here == SlotNumber(e, d)
           end == SlotNumber(e, D - 1)
           next == SlotNumber(e + 1, 0)
<1>1. /\ 0 \in DeadlineIdxs /\ D - 1 \in DeadlineIdxs
      /\ D \in Nat \ {0} /\ d \in 0..D - 1
  BY SlotNumbers, ClockAssumption DEF DeadlineIdxs
<1>2. /\ first \in Nat /\ here = first + d /\ next = first + D
      /\ e + 1 \in Nat
  BY SlotNumbers
<1>3. end = first + (D - 1)
  BY <1>1, SlotNumbers
<1>4. /\ epoch_bounds(e)[1] = OpenHeight(first) /\ epoch_bounds(e + 1)[1] = OpenHeight(next)
  BY <1>1, <1>2, SlotFields DEF epoch_bounds
<1>5. epoch_bounds(e)[2] = OpenHeight(end) + BEACON_DELAY_BLOCKS + SUBMIT_WINDOW_BLOCKS
  BY <1>1, SlotFields DEF epoch_bounds
<1>6. /\ slot_at(e, d).open_height = OpenHeight(here)
      /\ slot_at(e, d).window_end = OpenHeight(here) + BEACON_DELAY_BLOCKS
                                                     + SUBMIT_WINDOW_BLOCKS
  BY SlotFields
<1> HIDE DEF first, here, end, next, D
<1>7. /\ first \in Nat /\ here \in Nat /\ end \in Nat /\ next \in Nat
      /\ (first = here \/ first < here) /\ (here = end \/ here < end) /\ end < next
  BY <1>1, <1>2, <1>3
<1>8. /\ OpenHeight(first) \in Nat /\ OpenHeight(here) \in Nat
      /\ OpenHeight(end) \in Nat /\ OpenHeight(next) \in Nat
  BY <1>7, OpenHeightsApart
<1>9. first < here => OpenHeight(first) + L <= OpenHeight(here)
  BY <1>7, OpenHeightsApart
<1>10. here < end => OpenHeight(here) + L <= OpenHeight(end)
  BY <1>7, OpenHeightsApart
<1>11. OpenHeight(end) + L <= OpenHeight(next)
  BY <1>7, OpenHeightsApart
<1>12. /\ L \in Nat /\ BEACON_DELAY_BLOCKS \in Nat /\ SUBMIT_WINDOW_BLOCKS \in Nat
       /\ BEACON_DELAY_BLOCKS + SUBMIT_WINDOW_BLOCKS <= L
  BY ClockAssumption
<1>13. epoch_bounds(e)[1] <= slot_at(e, d).open_height
  BY <1>4, <1>6, <1>7, <1>8, <1>9, <1>12
<1>14. slot_at(e, d).window_end <= epoch_bounds(e)[2]
  BY <1>5, <1>6, <1>7, <1>8, <1>10, <1>12
<1>15. epoch_bounds(e)[2] <= epoch_bounds(e + 1)[1]
  BY <1>4, <1>5, <1>8, <1>11, <1>12
<1> QED BY <1>13, <1>14, <1>15

\* The blocks a beacon mixes are those up to the opening of its deadline.
LEMMA BeaconBlocks ==
    ASSUME NEW e \in Nat, NEW d \in DeadlineIdxs
    PROVE  LET slot == slot_at(e, d)
               opens == OpenHeight(SlotNumber(e, d))
           IN  /\ \A h \in ToSet(beacon_heights(slot)) :
                     h \in Int /\ h <= opens /\ opens - BEACON_MIX_BLOCKS < h
               /\ beacon(slot)[2][1] = opens
<1> DEFINE slot == slot_at(e, d)
           opens == OpenHeight(SlotNumber(e, d))
<1>1. slot.open_height = opens /\ opens \in Nat
  BY SlotFields
<1>2. beacon_heights(slot) = [i \in 1..BEACON_MIX_BLOCKS |-> opens - (i - 1)]
  BY <1>1, Zenon DEF beacon_heights
<1>3. BEACON_MIX_BLOCKS \in Nat /\ 1 \in 1..BEACON_MIX_BLOCKS
  BY BeaconAssumption
<1> HIDE DEF opens, slot
<1>4. \A h \in ToSet(beacon_heights(slot)) :
        h \in Int /\ h <= opens /\ opens - BEACON_MIX_BLOCKS < h
  BY <1>1, <1>2, <1>3 DEF ToSet
<1>5. beacon_heights(slot)[1] = opens
  BY <1>1, <1>2, <1>3
<1>6. beacon(slot)[2] = beacon_heights(slot)
  BY DEF beacon, derive_beacon
<1> QED BY <1>4, <1>5, <1>6 DEF opens, slot

-----------------------------------------------------------------------------
(***************************************************************************)
(* The registry's hash chain.                                               *)
(***************************************************************************)
\* The lists of entries that a registry may have.
Entries == BoundedLists([kind: Kinds, a: Words, b: Words], MAX_ENTRIES)

\* log is the chain over the first n entries.
LogUpTo(log, entries, n) ==
    log = [i \in 0..n |-> IF i = 0 THEN Genesis
                          ELSE LogMembership(log[i - 1], entries[i].kind, entries[i].a,
                                             entries[i].b)]

\* There is a log of every length.
LEMMA LogsExist ==
    ASSUME NEW entries
    PROVE  \A n \in Nat : \E log : LogUpTo(log, entries, n)
<1> DEFINE S == {n \in Nat : \E log : LogUpTo(log, entries, n)}
<1>1. 0 \in S
  <2> DEFINE log == [i \in 0..0 |-> Genesis]
  <2>1. LogUpTo(log, entries, 0)
    BY DEF LogUpTo
  <2> HIDE DEF log
  <2> QED BY <2>1
<1>2. ASSUME NEW n \in Nat, n \in S
      PROVE  n + 1 \in S
  <2>1. PICK log : LogUpTo(log, entries, n)
    BY <1>2
  <2> DEFINE e == entries[n + 1]
             longer == [i \in 0..n + 1 |-> IF i = n + 1
                                           THEN LogMembership(log[n], e.kind, e.a, e.b)
                                           ELSE log[i]]
  <2>2. \A i \in 0..n : longer[i] = log[i]
    OBVIOUS
  <2>3. longer[n + 1] = LogMembership(log[n], e.kind, e.a, e.b)
    OBVIOUS
  <2>4. longer = [i \in 0..n + 1 |-> longer[i]]
    OBVIOUS
  <2>5. \A i \in 0..n + 1 :
          longer[i] = IF i = 0 THEN Genesis
                      ELSE LogMembership(longer[i - 1], entries[i].kind, entries[i].a,
                                         entries[i].b)
    <3> SUFFICES ASSUME NEW i \in 0..n + 1
                 PROVE  longer[i] = IF i = 0 THEN Genesis
                                    ELSE LogMembership(longer[i - 1], entries[i].kind,
                                                       entries[i].a, entries[i].b)
      OBVIOUS
    <3>1. CASE i = n + 1
      <4>1. longer[i - 1] = log[n] /\ i # 0
        BY <3>1, <2>2
      <4> HIDE DEF longer
      <4> QED BY <4>1, <3>1, <2>3
    <3>2. CASE i \in 0..n
      <4>1. log[i] = IF i = 0 THEN Genesis
                      ELSE LogMembership(log[i - 1], entries[i].kind, entries[i].a,
                                         entries[i].b)
        BY <2>1, <3>2 DEF LogUpTo
      <4>2. longer[i] = log[i] /\ (i # 0 => longer[i - 1] = log[i - 1])
        BY <3>2, <2>2
      <4> HIDE DEF longer
      <4> QED BY <4>1, <4>2
    <3> QED BY <3>1, <3>2
  <2> HIDE DEF longer
  <2>6. LogUpTo(longer, entries, n + 1)
    BY <2>4, <2>5 DEF LogUpTo
  <2> QED BY <2>6
<1> HIDE DEF S
<1>3. Nat \subseteq S
  BY <1>1, <1>2, NumberInduction, Zenon
<1> QED BY <1>3 DEF S

\* The chain that replay computes is one.
LEMMA HashChainIs ==
    ASSUME NEW entries, Len(entries) \in Nat
    PROVE  LogUpTo(HashChain(entries), entries, Len(entries))
<1> DEFINE F(log) == [i \in 0..Len(entries) |->
                        IF i = 0 THEN Genesis ELSE ReplayEntry(log[i - 1], entries[i])]
<1>1. \E log : log = F(log)
  <2>1. \E log : LogUpTo(log, entries, Len(entries))
    BY LogsExist
  <2> QED BY <2>1 DEF LogUpTo, ReplayEntry
<1>2. HashChain(entries) = CHOOSE log : log = F(log)
  BY DEF HashChain
<1>3. HashChain(entries) = F(HashChain(entries))
  <2> HIDE DEF F
  <2> QED BY <1>1, <1>2
<1> QED BY <1>3 DEF LogUpTo, ReplayEntry

\* The contract and the replay compute one and the same.
LEMMA LoggedIsReplayed ==
    ASSUME NEW entries
    PROVE  membershipLog(entries) = replay(entries)
BY DEF membershipLog, replay, HashChain, ReplayEntry

\* No entry leads back to genesis, and a hash tells what was hashed.
LEMMA GenesisIsFirst ==
    ASSUME NEW log, NEW kind, NEW a, NEW b
    PROVE  Genesis # LogMembership(log, kind, a, b)
<1>1. Len(<<"genesis">>) = 1 /\ Len(<<log, kind, a, b>>) = 4
  OBVIOUS
<1> QED BY <1>1 DEF Genesis, LogMembership

\* What a link of the chain was made of.
LEMMA EntryIsBound ==
    ASSUME NEW log, NEW kind, NEW a, NEW b
    PROVE  /\ LogMembership(log, kind, a, b)[1] = log
           /\ LogMembership(log, kind, a, b)[2] = kind
           /\ LogMembership(log, kind, a, b)[3] = a
           /\ LogMembership(log, kind, a, b)[4] = b
BY DEF LogMembership

\* Two logs that end alike are alike all the way back.
LEMMA LogsMeet ==
    ASSUME NEW entries, NEW others, NEW n \in Nat, NEW m \in Nat, NEW log, NEW log2,
           LogUpTo(log, entries, n), LogUpTo(log2, others, m), log[n] = log2[m]
    PROVE  \A k \in Nat : k <= n /\ k <= m => log[n - k] = log2[m - k]
<1> DEFINE S == {k \in Nat : k <= n /\ k <= m => log[n - k] = log2[m - k]}
<1>1. 0 \in S
  <2>1. n - 0 = n /\ m - 0 = m
    OBVIOUS
  <2> QED BY <2>1
<1>2. ASSUME NEW k \in Nat, k \in S
      PROVE  k + 1 \in S
  <2> SUFFICES ASSUME k + 1 <= n /\ k + 1 <= m
               PROVE  log[n - (k + 1)] = log2[m - (k + 1)]
    OBVIOUS
  <2> DEFINE i == n - k
             j == m - k
  <2>1. log[i] = log2[j]
    BY <1>2
  <2>2. i \in 1..n /\ j \in 1..m
    OBVIOUS
  <2>3. i - 1 = n - (k + 1) /\ j - 1 = m - (k + 1)
    OBVIOUS
  <2> HIDE DEF i, j
  <2>4. /\ log[i] = LogMembership(log[i - 1], entries[i].kind, entries[i].a, entries[i].b)
        /\ log2[j] = LogMembership(log2[j - 1], others[j].kind, others[j].a, others[j].b)
    <3>1. i \in 0..n /\ i # 0 /\ j \in 0..m /\ j # 0
      BY <2>2
    <3> QED BY <3>1 DEF LogUpTo
  <2>5. log[i - 1] = log2[j - 1]
    <3>1. log[i][1] = log[i - 1] /\ log2[j][1] = log2[j - 1]
      BY <2>4, EntryIsBound
    <3> QED BY <2>1, <3>1
  <2> QED BY <2>3, <2>5
<1> HIDE DEF S
<1>3. Nat \subseteq S
  BY <1>1, <1>2, NumberInduction, Zenon
<1> QED BY <1>3 DEF S

\* Entries with the same text.
Same(e1, e2) == e1.kind = e2.kind /\ e1.a = e2.a /\ e1.b = e2.b

\* Logs that end alike have the same entries.
LEMMA LogBindsEntries ==
    ASSUME NEW entries, NEW others, NEW n \in Nat, NEW m \in Nat, NEW log, NEW log2,
           LogUpTo(log, entries, n), LogUpTo(log2, others, m), log[n] = log2[m]
    PROVE  /\ n = m
           /\ \A i \in 1..n : Same(entries[i], others[i])
<1>1. \A k \in Nat : k <= n /\ k <= m => log[n - k] = log2[m - k]
  BY LogsMeet
<1>2. log[0] = Genesis /\ log2[0] = Genesis
  BY DEF LogUpTo
<1>3. ~(n < m)
  <2> SUFFICES ASSUME n < m PROVE FALSE
    OBVIOUS
  <2> DEFINE j == m - n
  <2>1. log[n - n] = log2[j] /\ n - n = 0 /\ j \in 0..m /\ j # 0
    BY <1>1
  <2> HIDE DEF j
  <2>2. log2[j] = LogMembership(log2[j - 1], others[j].kind, others[j].a, others[j].b)
    BY <2>1 DEF LogUpTo
  <2> QED BY <1>2, <2>1, <2>2, GenesisIsFirst
<1>4. ~(m < n)
  <2> SUFFICES ASSUME m < n PROVE FALSE
    OBVIOUS
  <2> DEFINE i == n - m
  <2>1. log[i] = log2[m - m] /\ m - m = 0 /\ i \in 0..n /\ i # 0
    BY <1>1
  <2> HIDE DEF i
  <2>2. log[i] = LogMembership(log[i - 1], entries[i].kind, entries[i].a, entries[i].b)
    BY <2>1 DEF LogUpTo
  <2> QED BY <1>2, <2>1, <2>2, GenesisIsFirst
<1>5. n = m
  BY <1>3, <1>4
<1>6. ASSUME NEW i \in 1..n
      PROVE  Same(entries[i], others[i])
  <2>1. log[i] = log2[i]
    <3>1. n - i \in Nat /\ n - i <= n /\ n - (n - i) = i
      OBVIOUS
    <3> QED BY <1>1, <1>5, <3>1
  <2>2. /\ log[i] = LogMembership(log[i - 1], entries[i].kind, entries[i].a, entries[i].b)
        /\ log2[i] = LogMembership(log2[i - 1], others[i].kind, others[i].a, others[i].b)
    <3>1. i \in 0..n /\ i # 0 /\ i \in 0..m
      BY <1>5
    <3> QED BY <3>1 DEF LogUpTo
  <2>3. /\ log[i][2] = entries[i].kind /\ log[i][3] = entries[i].a
        /\ log[i][4] = entries[i].b
    BY <2>2, EntryIsBound
  <2>4. /\ log2[i][2] = others[i].kind /\ log2[i][3] = others[i].a
        /\ log2[i][4] = others[i].b
    BY <2>2, EntryIsBound
  <2> QED BY <2>1, <2>3, <2>4 DEF Same
<1> QED BY <1>5, <1>6

\* A list of entries is what its entries are.
LEMMA EntriesAre ==
    ASSUME NEW entries \in Entries
    PROVE  /\ Len(entries) \in Nat
           /\ entries \in [1..Len(entries) -> [kind: Kinds, a: Words, b: Words]]
<1>1. PICK k \in 0..MAX_ENTRIES : entries \in [1..k -> [kind: Kinds, a: Words, b: Words]]
  BY DEF Entries, BoundedLists
<1>2. k \in Nat
  BY FormulasAssumption
<1>3. Len(entries) = k
  BY <1>1, <1>2
<1> QED BY <1>1, <1>2, <1>3

\* No other list of entries has the hash of the one that was logged.
LEMMA RegistriesAreBound == input \in Inputs => OnlyTheLogPasses
<1> SUFFICES ASSUME input \in Inputs, input.kind = "registry",
                    NEW entries \in Entries, NEW epoch \in {1, 2}
             PROVE  verify_registry([epoch |-> epoch, entries |-> entries],
                                    membershipLog(input.entries), 1)
                        <=> epoch = 1 /\ entries = input.entries
  BY DEF OnlyTheLogPasses, Entries
<1> DEFINE logged == input.entries
<1>1. logged \in Entries
  <2>1. input \in RegistryInputs
    BY KindOfInput
  <2> QED BY <2>1 DEF RegistryInputs, Entries
<1>2. verify_registry([epoch |-> epoch, entries |-> entries], membershipLog(logged), 1)
          <=> epoch = 1 /\ replay(entries) = replay(logged)
  BY LoggedIsReplayed DEF verify_registry
<1> HIDE DEF logged
<1>3. ASSUME replay(entries) = replay(logged)
      PROVE  entries = logged
  <2> DEFINE n == Len(entries)
             m == Len(logged)
             log == HashChain(entries)
             log2 == HashChain(logged)
  <2>1. /\ n \in Nat /\ entries \in [1..n -> [kind: Kinds, a: Words, b: Words]]
        /\ m \in Nat /\ logged \in [1..m -> [kind: Kinds, a: Words, b: Words]]
    BY <1>1, EntriesAre
  <2>2. LogUpTo(log, entries, n) /\ LogUpTo(log2, logged, m)
    BY <2>1, HashChainIs
  <2>3. log[n] = log2[m]
    BY <1>3 DEF replay
  <2> HIDE DEF n, m, log, log2
  <2>4. /\ n = m
        /\ \A i \in 1..n : Same(entries[i], logged[i])
    BY <2>1, <2>2, <2>3, LogBindsEntries, Zenon
  <2>5. \A i \in 1..n : entries[i] = logged[i]
    BY <2>1, <2>4 DEF Same
  <2> QED BY <2>1, <2>4, <2>5
<1> QED BY <1>2, <1>3 DEF logged

\* The cells of an epoch share out its deals.
LEMMA CellsOfDeals == input \in Inputs => CellsShareOutTheDeals
<1> SUFFICES ASSUME input \in Inputs, input.kind = "network"
             PROVE  CellsShareOutTheDeals
  BY DEF CellsShareOutTheDeals
<1> DEFINE hashes == input.hashes
           n_shards == input.n_shards
           deals == [i \in DOMAIN hashes |->
                        [deal_id |-> i, deadline_idx |-> derive_deadline(hashes[i][1]),
                         shard |-> derive_shard(hashes[i][2], n_shards)]]
           registry == SimRegistry(1, deals)
           Expected(c, epoch) ==
               expected_from_registry(registry, membershipLog(registry.entries), epoch,
                                      c[1], c[2])
           cells == DeadlineIdxs \X (0..n_shards - 1)
<1>1. PICK n \in 1..MAX_DEALS :
        input \in [kind: {"network"}, n_shards: 1..3,
                   hashes: [1..n -> (0..MAX_HASH) \X (0..MAX_HASH)]]
  <2>1. input \in NetworkInputs
    BY KindOfInput
  <2> QED BY <2>1 DEF NetworkInputs
<1>2. /\ n \in Nat \ {0} /\ n_shards \in Nat \ {0} /\ DOMAIN hashes = 1..n
      /\ \A i \in 1..n : hashes[i][1] \in Nat /\ hashes[i][2] \in Nat
  <2>1. n \in Nat \ {0} /\ 0..MAX_HASH \subseteq Nat
    BY FormulasAssumption
  <2> QED BY <1>1, <2>1
<1>3. ASSUME NEW i \in 1..n
      PROVE  /\ derive_deadline(hashes[i][1]) \in DeadlineIdxs
             /\ derive_shard(hashes[i][2], n_shards) \in 0..n_shards - 1
  <2>1. DEADLINES_PER_EPOCH \in Nat \ {0} /\ hashes[i][1] \in Nat /\ hashes[i][2] \in Nat
    BY <1>2, ClockAssumption
  <2> HIDE DEF hashes, n_shards
  <2>2. hashes[i][1] % Max({1, DEADLINES_PER_EPOCH}) \in 0..DEADLINES_PER_EPOCH - 1
    BY <2>1, RemainderInRange
  <2>3. hashes[i][2] % Max({1, n_shards}) \in 0..n_shards - 1
    BY <1>2, <2>1, RemainderInRange
  <2> QED BY <2>2, <2>3 DEF derive_deadline, derive_shard, DeadlineIdxs
<1> DEFINE D(i) == derive_deadline(hashes[i][1])
           S(i) == derive_shard(hashes[i][2], n_shards)
<1>4. /\ deals \in [1..n -> [deal_id: 1..n, deadline_idx: DeadlineIdxs, shard: 0..n_shards - 1]]
      /\ \A i \in 1..n : deals[i].deal_id = i
  <2>1. \A i \in 1..n : D(i) \in DeadlineIdxs /\ S(i) \in 0..n_shards - 1
    BY <1>3
  <2>2. deals = [i \in 1..n |-> [deal_id |-> i, deadline_idx |-> D(i), shard |-> S(i)]]
    BY <1>2
  <2> HIDE DEF D, S, deals
  <2> QED BY <2>1, <2>2
<1>5. /\ registry.epoch = 1 /\ registry.deals = ToSet(deals)
  BY DEF SimRegistry
<1>6. \A c : /\ Expected(c, 1) = {deal \in ToSet(deals) : deal.deadline_idx = c[1] /\ deal.shard = c[2]}
             /\ Expected(c, 2) = {}
  <2> HIDE DEF registry, deals
  <2> QED BY <1>5, LoggedIsReplayed DEF expected_from_registry, verify_registry
<1>7. \A deal \in ToSet(deals) : <<deal.deadline_idx, deal.shard>> \in cells
  <2> HIDE DEF deals
  <2> QED BY <1>4 DEF ToSet
<1> HIDE DEF deals, registry, hashes, n_shards
<1>8. UNION {Expected(c, 1) : c \in cells} = ToSet(deals)
  <2>1. \A deal \in ToSet(deals) : deal \in Expected(<<deal.deadline_idx, deal.shard>>, 1)
    <3> HIDE DEF Expected
    <3> QED BY <1>6
  <2>2. \A c \in cells : Expected(c, 1) \subseteq ToSet(deals)
    <3> HIDE DEF Expected
    <3> QED BY <1>6
  <2> HIDE DEF Expected, cells
  <2> QED BY <1>7, <2>1, <2>2
<1>9. \A c, other \in cells : c # other => Expected(c, 1) \cap Expected(other, 1) = {}
  <2> SUFFICES ASSUME NEW c \in cells, NEW other \in cells, c # other, NEW deal,
                      deal \in Expected(c, 1), deal \in Expected(other, 1)
               PROVE  FALSE
    <3> HIDE DEF Expected, cells
    <3> QED OBVIOUS
  <2>1. c = <<c[1], c[2]>> /\ other = <<other[1], other[2]>>
    OBVIOUS
  <2> HIDE DEF Expected, cells
  <2>2. c[1] = other[1] /\ c[2] = other[2]
    BY <1>6
  <2> QED BY <2>1, <2>2
<1>10. Cardinality(ToSet(deals)) = n /\ Len(deals) = n
  <2>1. \A j, k \in 1..n : deals[j] = deals[k] => j = k
    BY <1>4
  <2>2. n \in Nat
    BY <1>2
  <2>3. Cardinality(ToSet(deals)) = n
    BY <1>4, <2>1, <2>2, ListedOnce
  <2> QED BY <1>4, <2>2, <2>3
<1>11. \A c \in cells : Expected(c, 2) = {}
  <2> HIDE DEF Expected
  <2> QED BY <1>6
<1> HIDE DEF Expected, cells
<1>12. /\ UNION {Expected(c, 1) : c \in cells} = ToSet(deals)
       /\ \A c, other \in cells : c # other => Expected(c, 1) \cap Expected(other, 1) = {}
       /\ Cardinality(ToSet(deals)) = Len(deals)
       /\ \A c \in cells : Expected(c, 2) = {}
  BY <1>8, <1>9, <1>10, <1>11
<1> QED BY <1>12 DEF CellsShareOutTheDeals, Expected, cells, registry, deals, hashes, n_shards

-----------------------------------------------------------------------------
(***************************************************************************)
(* Congestion.                                                              *)
(***************************************************************************)
\* Rounding reaches 179 of 255 exactly above seven tenths: seven tenths of 255 are
\* 178 and a half, which is rounded to the even 178.
LEMMA RoundToThreshold ==
    ASSUME NEW f \in Nat, NEW n \in Nat \ {0}
    PROVE  /\ Round(255 * f, n) \in Int
           /\ Round(255 * f, n) >= 179 <=> 10 * f > 7 * n
<1> DEFINE a == 255 * f
<1>1. a \in Int
  OBVIOUS
<1>2. PICK q \in Int, r \in 0..n - 1 : DivMod(a, n, q, r) /\ a = q * n + r
  BY <1>1, Division
<1>3. Round(a, n) = IF 2 * r > n \/ (2 * r = n /\ q % 2 = 1) THEN q + 1 ELSE q
  BY <1>2 DEF Round, DivMod
<1> DEFINE Product == q * n
<1>4. 255 * f = Product + r /\ Product \in Int
  BY <1>2
<1>5. /\ q < 178 => Product + n <= 178 * n
      /\ q = 178 => Product = 178 * n
      /\ q > 178 => 178 * n + n <= Product
  <2>1. 178 \in Int /\ n \in Nat \ {0}
    OBVIOUS
  <2> QED BY <2>1, ProductsAreOrdered
<1>6. q = 178 => q % 2 = 0
  OBVIOUS
<1>7. Round(a, n) \in Int
  BY <1>3
<1> HIDE DEF a, Product
<1>8. CASE q < 178
  <2>1. 255 * f < 178 * n
    BY <1>4, <1>5, <1>8
  <2>2. Round(a, n) <= 178
    BY <1>3, <1>8
  <2> QED BY <1>7, <2>1, <2>2 DEF a
<1>9. CASE q = 178
  <2>1. Round(a, n) >= 179 <=> 2 * r > n
    BY <1>3, <1>6, <1>9
  <2>2. 255 * f = 178 * n + r
    BY <1>4, <1>5, <1>9
  <2>3. 2 * r > n <=> 10 * f > 7 * n
    BY <2>2
  <2> QED BY <1>7, <2>1, <2>3 DEF a
<1>10. CASE q > 178
  <2>1. 255 * f >= 179 * n
    BY <1>4, <1>5, <1>10
  <2>2. Round(a, n) >= 179
    BY <1>3, <1>10
  <2> QED BY <1>7, <2>1, <2>2 DEF a
<1> QED BY <1>8, <1>9, <1>10

\* The two squares that the property looks at.
LEMMA SquareRootsAre ==
    square_roots(65536) = 1024 /\ square_roots(3) = 8
<1>1. Max({1, 65536}) = 65536 /\ Max({1, 3}) = 3
  BY MaxOfTwo
<1>2. Min({side \in SIDES : side * side >= 65536}) = 256
  <2> DEFINE S == {side \in SIDES : side * side >= 65536}
  <2>1. S \in SUBSET Int /\ 256 \in S /\ \A y \in S : 256 <= y
    BY DEF SIDES
  <2> HIDE DEF S
  <2>2. Min(S) = 256
    BY <2>1, LeastIsMin
  <2> QED BY <2>2 DEF S
<1>3. Min({side \in SIDES : side * side >= 3}) = 2
  <2> DEFINE S == {side \in SIDES : side * side >= 3}
  <2>1. S \in SUBSET Int /\ 2 \in S /\ \A y \in S : 2 <= y
    BY DEF SIDES
  <2> HIDE DEF S
  <2>2. Min(S) = 2
    BY <2>1, LeastIsMin
  <2> QED BY <2>2 DEF S
<1> QED BY <1>1, <1>2, <1>3 DEF square_roots


\* Sorting does not depend on whether a list was read from its first or its last.
LEMMA SortedEitherWay ==
    ASSUME NEW n \in Nat, NEW s, NEW t, DOMAIN s = 1..n, DOMAIN t = 1..n,
           \A i \in 1..n : t[i] = s[n + 1 - i],
           \A i, j \in 1..n : Precedes(s[i], s[j]) <=> i < j
    PROVE  sorted(t) = sorted(s)
<1> DEFINE Behind(u, j, k) == \/ Precedes(u[j], u[k])
                              \/ j < k /\ ~Precedes(u[k], u[j])
           rank(u, k) == Cardinality({j \in DOMAIN u : Behind(u, j, k)})
<1>1. \A k \in 1..n : rank(s, k) = k - 1
  <2> SUFFICES ASSUME NEW k \in 1..n PROVE rank(s, k) = k - 1
    OBVIOUS
  <2>1. {j \in DOMAIN s : Behind(s, j, k)} = 1..k - 1
    OBVIOUS
  <2>2. Cardinality(1..k - 1) = k - 1
    BY FS_Interval
  <2> QED BY <2>1, <2>2
<1>2. \A k \in 1..n : rank(t, k) = n - k
  <2> SUFFICES ASSUME NEW k \in 1..n PROVE rank(t, k) = n - k
    OBVIOUS
  <2>1. \A j \in 1..n : Precedes(t[j], t[k]) <=> k < j
    OBVIOUS
  <2>2. \A j \in 1..n : Precedes(t[k], t[j]) <=> j < k
    OBVIOUS
  <2>3. {j \in DOMAIN t : Behind(t, j, k)} = k + 1..n
    BY <2>1, <2>2
  <2> DEFINE m == k + 1
  <2>4. m \in Int /\ n \in Int /\ (n < m => n = k) /\ n - m + 1 = n - k
    OBVIOUS
  <2> HIDE DEF m
  <2>5. Cardinality(m..n) = IF n < m THEN 0 ELSE n - m + 1
    BY <2>4, FS_Interval
  <2>6. Cardinality(m..n) = n - k
    BY <2>4, <2>5
  <2>7. Cardinality(k + 1..n) = n - k
    BY <2>6 DEF m
  <2> QED BY <2>3, <2>7
<1> DEFINE At(u, i) == CHOOSE k \in 1..n : rank(u, k) = i - 1
<1>3. sorted(s) = [i \in 1..n |-> s[At(s, i)]]
  BY DEF sorted
<1>4. sorted(t) = [i \in 1..n |-> t[At(t, i)]]
  BY DEF sorted
<1> HIDE DEF rank
<1>5. ASSUME NEW i \in 1..n
      PROVE  At(s, i) = i /\ At(t, i) = n + 1 - i
  <2>1. rank(s, i) = i - 1 /\ \A k \in 1..n : rank(s, k) = i - 1 => k = i
    BY <1>1
  <2>2. /\ n + 1 - i \in 1..n /\ rank(t, n + 1 - i) = i - 1
        /\ \A k \in 1..n : rank(t, k) = i - 1 => k = n + 1 - i
    BY <1>2
  <2> QED BY <2>1, <2>2
<1>6. \A i \in 1..n : t[n + 1 - i] = s[i]
  <2> SUFFICES ASSUME NEW i \in 1..n PROVE t[n + 1 - i] = s[i]
    OBVIOUS
  <2> DEFINE j == n + 1 - i
  <2>1. j \in 1..n /\ n + 1 - j = i
    OBVIOUS
  <2> HIDE DEF j
  <2>2. t[j] = s[i]
    BY <2>1
  <2> QED BY <2>2 DEF j
<1> HIDE DEF At
<1> QED BY <1>3, <1>4, <1>5, <1>6

\* With f full blocks of n the saturation reaches the threshold above 7n / 10.
LEMMA SaturationOfFull ==
    ASSUME NEW n \in Nat \ {0}, NEW f \in 0..n, NEW roots, DOMAIN roots = 1..n,
           \A i \in 1..n : roots[i] = IF i <= f THEN 1024 ELSE 8
    PROVE  window_saturation(roots, n) >= WINDOW_SATURATION_THRESHOLD <=> 10 * f > 7 * n
<1> DEFINE full == {k \in DOMAIN roots : roots[k] >= SQUARE_SATURATED_MIN_ROOTS}
           r == Round(255 * f, n)
<1>1. Cardinality(full) = f
  <2>1. full = 1..f
    BY CongestionAssumption
  <2>2. f \in Nat
    OBVIOUS
  <2>3. Cardinality(1..f) = f
    BY <2>2, FS_Interval
  <2> QED BY <2>1, <2>3
<1>2. roots # << >> /\ n > 0
  <2>1. 1 \in DOMAIN roots
    OBVIOUS
  <2> QED BY <2>1
<1>3. window_saturation(roots, n) = Min({255, r})
  <2> HIDE DEF full
  <2>1. window_saturation(roots, n) = Min({255, Round(255 * Cardinality(full), n)})
    BY <1>2 DEF window_saturation, full
  <2> QED BY <1>1, <2>1
<1>4. r \in Int /\ (r >= 179 <=> 10 * f > 7 * n)
  <2>1. f \in Nat
    OBVIOUS
  <2> QED BY <2>1, RoundToThreshold
<1> HIDE DEF r
<1>5. Min({255, r}) = IF 255 <= r THEN 255 ELSE r
  BY <1>4, MinOfTwo
<1>6. Min({255, r}) >= 179 <=> r >= 179
  BY <1>4, <1>5
<1> QED BY <1>3, <1>4, <1>6, CongestionAssumption

\* The threshold, the breaker and the order of reading together.
LEMMA SevenTenths == input \in Inputs => SeventyPercent
<1> SUFFICES ASSUME input \in Inputs, input.kind = "blocks"
             PROVE  SeventyPercent
  BY DEF SeventyPercent
<1> DEFINE n == input.n
           full == input.full
           roots == [i \in 1..n |-> square_roots(IF i <= full THEN 65536 ELSE 3)]
           blobs == [i \in 1..3 |-> [height |-> i \div 2, index |-> i % 2]]
           coverage == prove_coverage(blobs, 0, n, roots)
           result == evaluate(input.covered, 2, input.n_workers, 2, 1, coverage.window_saturation)
<1>1. n \in Nat \ {0} /\ full \in 0..n /\ input.n_workers \in Nat
  <2>1. input \in BlocksInputs
    BY KindOfInput
  <2>2. PICK m \in 1..MAX_BLOCKS :
          input \in [kind: {"blocks"}, n: {m}, full: 0..m, covered: {0, 1, 2}, n_workers: {0, 100}]
    BY <2>1 DEF BlocksInputs
  <2> QED BY <2>2, FormulasAssumption
<1> HIDE DEF n, full
<1>2. Max({0, n - 0}) = n
  BY <1>1, MaxOfTwo
<1>3. coverage.window_saturation = window_saturation(roots, n)
  <2> HIDE DEF roots, blobs
  <2> QED BY <1>2 DEF prove_coverage
<1>4. coverage.window_saturation >= WINDOW_SATURATION_THRESHOLD <=> 10 * full > 7 * n
  <2>1. DOMAIN roots = 1..n
    OBVIOUS
  <2>2. \A i \in 1..n : roots[i] = IF i <= full THEN 1024 ELSE 8
    BY SquareRootsAre
  <2> HIDE DEF roots, coverage
  <2> QED BY <1>1, <1>3, <2>1, <2>2, SaturationOfFull
<1>5. prove_coverage(Reverse(blobs), 0, n, roots) = coverage
  <2> DEFINE back == Reverse(blobs)
  <2>1. Len(blobs) = 3 /\ DOMAIN blobs = 1..3
    OBVIOUS
  <2>2. Len(back) = 3 /\ DOMAIN back = 1..3 /\ \A i \in 1..3 : back[i] = blobs[3 + 1 - i]
    <3> HIDE DEF blobs
    <3> QED BY <2>1 DEF Reverse
  <2>3. /\ blobs[1] = [height |-> 0, index |-> 1]
        /\ blobs[2] = [height |-> 1, index |-> 0]
        /\ blobs[3] = [height |-> 1, index |-> 1]
    OBVIOUS
  <2>4. \A i, j \in 1..3 : Precedes(blobs[i], blobs[j]) <=> i < j
    <3> HIDE DEF blobs
    <3>1. \A i \in 1..3 : i = 1 \/ i = 2 \/ i = 3
      OBVIOUS
    <3> QED BY <2>3, <3>1 DEF Precedes
  <2> HIDE DEF blobs, back, roots
  <2>5. sorted(back) = sorted(blobs)
    BY <2>1, <2>2, <2>4, SortedEitherWay
  <2>6. blobs # << >> /\ back # << >>
    <3>1. 1 \in DOMAIN blobs /\ 1 \in DOMAIN back
      BY <2>1, <2>2
    <3> QED BY <3>1
  <2>7. prove_coverage(back, 0, n, roots) = prove_coverage(blobs, 0, n, roots)
    BY <2>1, <2>2, <2>5, <2>6 DEF prove_coverage
  <2> QED BY <2>7 DEF back
<1> HIDE DEF coverage, blobs, roots
<1>6. result.da_congested <=> 10 * full > 7 * n
  BY <1>4 DEF evaluate
<1>7. result.da_congested => result.tripped
  BY DEF evaluate
<1>8. ~result.da_congested /\ input.n_workers < 2 * WORKER_REDUNDANCY_R * 2 => ~result.tripped
  <2>1. 2 * WORKER_REDUNDANCY_R * (1 + 1) = 2 * WORKER_REDUNDANCY_R * 2
    BY CongestionAssumption
  <2>2. 2 * WORKER_REDUNDANCY_R * 2 \in Nat
    BY CongestionAssumption
  <2> QED BY <1>1, <2>1, <2>2 DEF evaluate
<1> HIDE DEF result
<1>9. /\ result.da_congested <=> 10 * full > 7 * n
      /\ result.da_congested => result.tripped
      /\ ~result.da_congested /\ input.n_workers < 2 * WORKER_REDUNDANCY_R * 2 => ~result.tripped
      /\ prove_coverage(Reverse(blobs), 0, n, roots) = coverage
  BY <1>5, <1>6, <1>7, <1>8
<1> QED BY <1>9 DEF SeventyPercent, result, coverage, blobs, roots, n, full

-----------------------------------------------------------------------------
(***************************************************************************)
(* Hash trees.  The recursive definitions first: what they are step by step. *)
(***************************************************************************)
\* level holds the first n levels above the leaves.
LevelsUpTo(level, leaves, n) ==
    level = [h \in 0..n |-> IF h = 0 THEN leaves ELSE Above(level[h - 1])]

\* There are levels of every number.
LEMMA LevelsExist ==
    ASSUME NEW leaves
    PROVE  \A n \in Nat : \E level : LevelsUpTo(level, leaves, n)
<1> DEFINE S == {n \in Nat : \E level : LevelsUpTo(level, leaves, n)}
<1>1. 0 \in S
  <2> DEFINE level == [h \in 0..0 |-> leaves]
  <2>1. LevelsUpTo(level, leaves, 0)
    BY DEF LevelsUpTo
  <2> HIDE DEF level
  <2> QED BY <2>1
<1>2. ASSUME NEW n \in Nat, n \in S
      PROVE  n + 1 \in S
  <2>1. PICK level : LevelsUpTo(level, leaves, n)
    BY <1>2
  <2> DEFINE more == [h \in 0..n + 1 |-> IF h = n + 1 THEN Above(level[n]) ELSE level[h]]
  <2>2. /\ \A h \in 0..n : more[h] = level[h]
        /\ more[n + 1] = Above(level[n])
        /\ more = [h \in 0..n + 1 |-> more[h]]
    OBVIOUS
  <2> HIDE DEF more
  <2>3. \A h \in 0..n : level[h] = IF h = 0 THEN leaves ELSE Above(level[h - 1])
    BY <2>1 DEF LevelsUpTo
  <2>4. \A h \in 0..n : more[h] = IF h = 0 THEN leaves ELSE Above(more[h - 1])
    <3>1. \A h \in 0..n : h # 0 => h - 1 \in 0..n
      OBVIOUS
    <3> QED BY <2>2, <2>3, <3>1
  <2>5. more[n + 1] = Above(more[n])
    <3>1. n \in 0..n
      OBVIOUS
    <3> QED BY <2>2, <3>1
  <2>6. \A h \in 0..n + 1 : more[h] = IF h = 0 THEN leaves ELSE Above(more[h - 1])
    <3>1. \A h \in 0..n + 1 : h \in 0..n \/ (h = n + 1 /\ h # 0 /\ h - 1 = n)
      OBVIOUS
    <3> QED BY <2>4, <2>5, <3>1
  <2>7. LevelsUpTo(more, leaves, n + 1)
    BY <2>2, <2>6 DEF LevelsUpTo
  <2> QED BY <2>7
<1> HIDE DEF S
<1>3. Nat \subseteq S
  BY <1>1, <1>2, NumberInduction, Zenon
<1> QED BY <1>3 DEF S

\* Levels starts with the leaves and goes up one level a step.
LEMMA LevelsAre ==
    ASSUME NEW leaves, Len(leaves) \in Nat
    PROVE  LevelsUpTo(Levels(leaves), leaves, Len(leaves))
<1> DEFINE F(level) == [h \in 0..Len(leaves) |-> IF h = 0 THEN leaves ELSE Above(level[h - 1])]
<1>1. \E level : level = F(level)
  <2>1. \E level : LevelsUpTo(level, leaves, Len(leaves))
    BY LevelsExist
  <2> QED BY <2>1 DEF LevelsUpTo
<1>2. Levels(leaves) = CHOOSE level : level = F(level)
  BY DEF Levels
<1>3. Levels(leaves) = F(Levels(leaves))
  <2> HIDE DEF F
  <2> QED BY <1>1, <1>2
<1> QED BY <1>3 DEF LevelsUpTo

\* place holds the first n places above index.
PlacesUpTo(place, index, n) ==
    place = [h \in 0..n |-> IF h = 0 THEN index ELSE place[h - 1] \div 2]

\* There are places of every number.
LEMMA PlacesExist ==
    ASSUME NEW index
    PROVE  \A n \in Nat : \E place : PlacesUpTo(place, index, n)
<1> DEFINE S == {n \in Nat : \E place : PlacesUpTo(place, index, n)}
<1>1. 0 \in S
  <2> DEFINE place == [h \in 0..0 |-> index]
  <2>1. PlacesUpTo(place, index, 0)
    BY DEF PlacesUpTo
  <2> HIDE DEF place
  <2> QED BY <2>1
<1>2. ASSUME NEW n \in Nat, n \in S
      PROVE  n + 1 \in S
  <2>1. PICK place : PlacesUpTo(place, index, n)
    BY <1>2
  <2> DEFINE more == [h \in 0..n + 1 |-> IF h = n + 1 THEN place[n] \div 2 ELSE place[h]]
  <2>2. /\ \A h \in 0..n : more[h] = place[h]
        /\ more[n + 1] = place[n] \div 2
        /\ more = [h \in 0..n + 1 |-> more[h]]
    OBVIOUS
  <2> HIDE DEF more
  <2>3. \A h \in 0..n : place[h] = IF h = 0 THEN index ELSE place[h - 1] \div 2
    BY <2>1 DEF PlacesUpTo
  <2>4. \A h \in 0..n : more[h] = IF h = 0 THEN index ELSE more[h - 1] \div 2
    <3>1. \A h \in 0..n : h # 0 => h - 1 \in 0..n
      OBVIOUS
    <3> QED BY <2>2, <2>3, <3>1
  <2>5. more[n + 1] = more[n] \div 2
    <3>1. n \in 0..n
      OBVIOUS
    <3> QED BY <2>2, <3>1
  <2>6. \A h \in 0..n + 1 : more[h] = IF h = 0 THEN index ELSE more[h - 1] \div 2
    <3>1. \A h \in 0..n + 1 : h \in 0..n \/ (h = n + 1 /\ h # 0 /\ h - 1 = n)
      OBVIOUS
    <3> QED BY <2>4, <2>5, <3>1
  <2>7. PlacesUpTo(more, index, n + 1)
    BY <2>2, <2>6 DEF PlacesUpTo
  <2> QED BY <2>7
<1> HIDE DEF S
<1>3. Nat \subseteq S
  BY <1>1, <1>2, NumberInduction, Zenon
<1> QED BY <1>3 DEF S

\* Places starts with the index and halves it a step.
LEMMA PlacesAre ==
    ASSUME NEW index, NEW n \in Nat
    PROVE  PlacesUpTo(Places(index, n), index, n)
<1> DEFINE F(place) == [h \in 0..n |-> IF h = 0 THEN index ELSE place[h - 1] \div 2]
<1>1. \E place : place = F(place)
  <2>1. \E place : PlacesUpTo(place, index, n)
    BY PlacesExist
  <2> QED BY <2>1 DEF PlacesUpTo
<1>2. Places(index, n) = CHOOSE place : place = F(place)
  BY DEF Places
<1>3. Places(index, n) = F(Places(index, n))
  <2> HIDE DEF F
  <2> QED BY <1>1, <1>2
<1> QED BY <1>3 DEF PlacesUpTo

\* A node and its sibling in the order that the node's place asks for.
Joined(node, sib, p) == IF p % 2 = 0 THEN Node(node, sib) ELSE Node(sib, node)

\* node holds what the first n steps of a climb reach.
NodesUpTo(node, leaf, path, place, n) ==
    node = [h \in 0..n |-> IF h = 0 THEN leaf ELSE Joined(node[h - 1], path[h], place[h - 1])]

\* There is a climb along every path.
LEMMA NodesExist ==
    ASSUME NEW leaf, NEW path, NEW place
    PROVE  \A n \in Nat : \E node : NodesUpTo(node, leaf, path, place, n)
<1> DEFINE S == {n \in Nat : \E node : NodesUpTo(node, leaf, path, place, n)}
<1>1. 0 \in S
  <2> DEFINE node == [h \in 0..0 |-> leaf]
  <2>1. NodesUpTo(node, leaf, path, place, 0)
    BY DEF NodesUpTo
  <2> HIDE DEF node
  <2> QED BY <2>1
<1>2. ASSUME NEW n \in Nat, n \in S
      PROVE  n + 1 \in S
  <2>1. PICK node : NodesUpTo(node, leaf, path, place, n)
    BY <1>2
  <2> DEFINE more == [h \in 0..n + 1 |-> IF h = n + 1 THEN Joined(node[n], path[h], place[n])
                                         ELSE node[h]]
  <2>2. /\ \A h \in 0..n : more[h] = node[h]
        /\ more[n + 1] = Joined(node[n], path[n + 1], place[n])
        /\ more = [h \in 0..n + 1 |-> more[h]]
    OBVIOUS
  <2> HIDE DEF more
  <2>3. \A h \in 0..n : node[h] = IF h = 0 THEN leaf
                                  ELSE Joined(node[h - 1], path[h], place[h - 1])
    BY <2>1 DEF NodesUpTo
  <2>4. \A h \in 0..n : more[h] = IF h = 0 THEN leaf ELSE Joined(more[h - 1], path[h], place[h - 1])
    <3>1. \A h \in 0..n : h # 0 => h - 1 \in 0..n
      OBVIOUS
    <3> QED BY <2>2, <2>3, <3>1
  <2>5. more[n + 1] = Joined(more[n], path[n + 1], place[n])
    <3>1. n \in 0..n
      OBVIOUS
    <3> QED BY <2>2, <3>1
  <2>6. \A h \in 0..n + 1 : more[h] = IF h = 0 THEN leaf ELSE Joined(more[h - 1], path[h], place[h - 1])
    <3>1. \A h \in 0..n + 1 : h \in 0..n \/ (h = n + 1 /\ h # 0 /\ h - 1 = n)
      OBVIOUS
    <3> QED BY <2>4, <2>5, <3>1
  <2>7. NodesUpTo(more, leaf, path, place, n + 1)
    BY <2>2, <2>6 DEF NodesUpTo
  <2> QED BY <2>7
<1> HIDE DEF S
<1>3. Nat \subseteq S
  BY <1>1, <1>2, NumberInduction, Zenon
<1> QED BY <1>3 DEF S

\* Climb starts at the leaf and joins one sibling a step.
LEMMA ClimbIs ==
    ASSUME NEW leaf, NEW path, NEW index, Len(path) \in Nat
    PROVE  \E node : /\ NodesUpTo(node, leaf, path, Places(index, Len(path)), Len(path))
                     /\ Climb(leaf, path, index) = node[Len(path)]
<1> DEFINE place == Places(index, Len(path))
           F(node) == [h \in 0..Len(path) |->
                          IF h = 0 THEN leaf
                          ELSE IF place[h - 1] % 2 = 0 THEN Node(node[h - 1], path[h])
                          ELSE Node(path[h], node[h - 1])]
           node == CHOOSE x : x = F(x)
<1>1. \E x : x = F(x)
  <2>1. \E x : NodesUpTo(x, leaf, path, place, Len(path))
    BY NodesExist
  <2> QED BY <2>1 DEF NodesUpTo, Joined
<1>2. Climb(leaf, path, index) = node[Len(path)]
  BY DEF Climb
<1>3. node = F(node)
  <2> HIDE DEF F
  <2> QED BY <1>1
<1> HIDE DEF node
<1>4. NodesUpTo(node, leaf, path, place, Len(path))
  BY <1>3 DEF NodesUpTo, Joined
<1> QED BY <1>2, <1>4

-----------------------------------------------------------------------------
(***************************************************************************)
(* The shape of a tree, which only depends on the number of its leaves.      *)
(***************************************************************************)
\* A list of n elements, one at least.
List(s, n) == n \in Nat \ {0} /\ s = [i \in 1..n |-> s[i]] /\ Len(s) = n

\* A list given by its elements.
LEMMA ListOf ==
    ASSUME NEW n \in Nat \ {0}, NEW s, s = [i \in 1..n |-> s[i]]
    PROVE  List(s, n)
<1>1. Len([i \in 1..n |-> s[i]]) = n
  OBVIOUS
<1> QED BY <1>1 DEF List

\* An element within a level, and the one after the last.
LEMMA NthOfList ==
    ASSUME NEW n, NEW s, List(s, n)
    PROVE  /\ \A i \in 1..n : Nth(s, i) = s[i]
           /\ Nth(s, n + 1) = s[n]
<1>1. n \in Nat \ {0} /\ Len(s) = n
  BY DEF List
<1>2. \A i \in 1..n : Min({i, n}) = i
  BY <1>1, MinOfTwo
<1>3. Min({n + 1, n}) = n
  <2>1. n + 1 \in Int /\ n \in Int /\ ~(n + 1 <= n)
    BY <1>1
  <2> QED BY <2>1, MinOfTwo
<1> QED BY <1>1, <1>2, <1>3 DEF Nth

\* The level above a list is a list of half its length, rounded up.
LEMMA AboveIsList ==
    ASSUME NEW n, NEW s, List(s, n)
    PROVE  /\ List(Above(s), (n + 1) \div 2)
           /\ \A i \in 1..(n + 1) \div 2 :
                  Above(s)[i] = Node(Nth(s, 2 * i - 1), Nth(s, 2 * i))
<1> DEFINE m == (n + 1) \div 2
           E(i) == Node(Nth(s, 2 * i - 1), Nth(s, 2 * i))
<1>1. n \in Nat \ {0} /\ Len(s) = n
  BY DEF List
<1>2. m \in Nat \ {0}
  BY <1>1
<1>3. Above(s) = [i \in 1..m |-> E(i)]
  BY <1>1 DEF Above
<1> HIDE DEF m, E
<1>4. Above(s) = [i \in 1..m |-> Above(s)[i]]
  BY <1>3
<1>5. List(Above(s), m)
  BY <1>2, <1>4, ListOf
<1>6. \A i \in 1..m : Above(s)[i] = E(i)
  BY <1>3
<1> QED BY <1>5, <1>6 DEF m, E

\* A level tells the level below it.
LEMMA AboveBinds ==
    ASSUME NEW n, NEW s, NEW t, List(s, n), List(t, n), Above(s) = Above(t)
    PROVE  s = t
<1>1. n \in Nat \ {0} /\ s = [i \in 1..n |-> s[i]] /\ t = [i \in 1..n |-> t[i]]
  BY DEF List
<1>2. ASSUME NEW j \in 1..(n + 1) \div 2
      PROVE  Nth(s, 2 * j - 1) = Nth(t, 2 * j - 1) /\ Nth(s, 2 * j) = Nth(t, 2 * j)
  <2> DEFINE a == Nth(s, 2 * j - 1)
             b == Nth(s, 2 * j)
             c == Nth(t, 2 * j - 1)
             d == Nth(t, 2 * j)
  <2>1. Above(s)[j] = Node(a, b) /\ Above(t)[j] = Node(c, d)
    BY AboveIsList
  <2> HIDE DEF a, b, c, d
  <2>2. Node(a, b) = Node(c, d)
    BY <2>1
  <2>3. a = c /\ b = d
    BY <2>2 DEF Node
  <2> QED BY <2>3 DEF a, b, c, d
<1>3. ASSUME NEW i \in 1..n
      PROVE  s[i] = t[i]
  <2>1. Nth(s, i) = s[i] /\ Nth(t, i) = t[i]
    BY NthOfList
  <2>2. PICK j \in Int : i = 2 * j \/ i = 2 * j - 1
    <3> DEFINE k == (i + 1) \div 2
    <3>1. k \in Int /\ (i = 2 * k \/ i = 2 * k - 1)
      OBVIOUS
    <3> HIDE DEF k
    <3> QED BY <3>1
  <2>3. j \in 1..(n + 1) \div 2
    <3> DEFINE m == (n + 1) \div 2
    <3>0. n \in Nat
      BY <1>1
    <3>1. m \in Int /\ (n = 2 * m \/ n = 2 * m - 1)
      BY <3>0
    <3> HIDE DEF m
    <3>2. j \in 1..m
      BY <2>2, <3>0, <3>1
    <3> QED BY <3>2 DEF m
  <2>4. Nth(s, i) = Nth(t, i)
    BY <1>2, <2>2, <2>3
  <2> QED BY <2>1, <2>4
<1> QED BY <1>1, <1>3

\* Halving: a place stays a place, and falls by one at least until it is 0.
LEMMA PlacesShrink ==
    ASSUME NEW index \in Nat, NEW n \in Nat, NEW place, PlacesUpTo(place, index, n)
    PROVE  \A h \in Nat : h <= n => /\ place[h] \in Nat
                                    /\ place[h] = 0 \/ place[h] + h <= index
<1> DEFINE S == {h \in Nat : h <= n => /\ place[h] \in Nat
                                       /\ place[h] = 0 \/ place[h] + h <= index}
<1>0. \A h \in 0..n : place[h] = IF h = 0 THEN index ELSE place[h - 1] \div 2
  BY DEF PlacesUpTo
<1>1. 0 \in S
  <2>1. place[0] = index
    BY <1>0
  <2> QED BY <2>1
<1>2. ASSUME NEW h \in Nat, h \in S
      PROVE  h + 1 \in S
  <2> SUFFICES ASSUME h + 1 <= n
               PROVE  place[h + 1] \in Nat /\ (place[h + 1] = 0 \/ place[h + 1] + (h + 1) <= index)
    OBVIOUS
  <2> DEFINE p == place[h]
             q == place[h + 1]
  <2>1. p \in Nat /\ (p = 0 \/ p + h <= index)
    BY <1>2
  <2>2. q = p \div 2
    <3>1. h + 1 \in 0..n /\ h + 1 # 0 /\ (h + 1) - 1 = h
      OBVIOUS
    <3> QED BY <3>1, <1>0
  <2> HIDE DEF p, q
  <2>3. q \in Nat /\ (q = 0 \/ q + (h + 1) <= index)
    BY <2>1, <2>2
  <2> QED BY <2>3 DEF q
<1> HIDE DEF S
<1>3. Nat \subseteq S
  BY <1>1, <1>2, NumberInduction, Zenon
<1> QED BY <1>3 DEF S

\* Levels are halved like the place of the last leaf.
LEMMA LevelLengths ==
    ASSUME NEW n, NEW leaves, List(leaves, n), NEW N \in Nat, NEW M \in Nat,
           NEW level, LevelsUpTo(level, leaves, N),
           NEW place, PlacesUpTo(place, n - 1, M)
    PROVE  \A h \in Nat : h <= N /\ h <= M => List(level[h], place[h] + 1)
<1> DEFINE S == {h \in Nat : h <= N /\ h <= M => List(level[h], place[h] + 1)}
<1>0. n \in Nat \ {0} /\ n - 1 \in Nat /\ (n - 1) + 1 = n
  BY DEF List
<1>1. 0 \in S
  <2>1. 0 \in 0..N /\ 0 \in 0..M
    OBVIOUS
  <2>2. place[0] = n - 1 /\ level[0] = leaves
    BY <2>1 DEF PlacesUpTo, LevelsUpTo
  <2> QED BY <1>0, <2>2
<1>2. ASSUME NEW h \in Nat, h \in S
      PROVE  h + 1 \in S
  <2> SUFFICES ASSUME h + 1 <= N, h + 1 <= M
               PROVE  List(level[h + 1], place[h + 1] + 1)
    OBVIOUS
  <2>1. /\ h + 1 \in 0..N /\ h + 1 \in 0..M /\ h + 1 # 0 /\ (h + 1) - 1 = h
        /\ h <= N /\ h <= M
    OBVIOUS
  <2>2. List(level[h], place[h] + 1)
    BY <1>2, <2>1
  <2>3. level[h + 1] = Above(level[h])
    BY <2>1 DEF LevelsUpTo
  <2>4. place[h + 1] = place[h] \div 2
    BY <2>1 DEF PlacesUpTo
  <2>5. place[h] \in Nat
    BY <1>0, <2>1, PlacesShrink
  <2>6. List(Above(level[h]), (place[h] + 1 + 1) \div 2)
    BY <2>2, AboveIsList
  <2>7. (place[h] + 1 + 1) \div 2 = place[h + 1] + 1
    BY <2>4, <2>5
  <2> QED BY <2>3, <2>6, <2>7
<1> HIDE DEF S
<1>3. Nat \subseteq S
  BY <1>1, <1>2, NumberInduction, Zenon
<1> QED BY <1>3 DEF S

\* A set of numbers has a least element.
LEMMA LeastExists ==
    ASSUME NEW S, S \subseteq Nat, S # {}
    PROVE  \E m \in S : \A n \in S : m <= n
<1>1. PICK m \in S : \A n \in S : <<n, m>> \notin OpToRel(<, Nat)
  BY WFMin, NatLessThanWellFounded, Zenon
<1>2. \A n \in S : ~(n < m)
  BY <1>1, Zenon DEF OpToRel
<1> QED BY <1>2

\* h is the step at which the loop over n leaves ends.
Ends(h, n, place) == h \in 0..n - 1 /\ place[h] = 0 /\ \A k \in 0..h - 1 : place[k] # 0

\* The loop ends, within as many steps as there are leaves.
LEMMA PlacesEnd ==
    ASSUME NEW n \in Nat \ {0}, NEW place, PlacesUpTo(place, n - 1, n - 1)
    PROVE  \E h : Ends(h, n, place)
<1>1. n - 1 \in Nat
  OBVIOUS
<1>2. place[n - 1] \in Nat /\ (place[n - 1] = 0 \/ place[n - 1] + (n - 1) <= n - 1)
  BY <1>1, PlacesShrink
<1>3. place[n - 1] = 0
  BY <1>1, <1>2
<1> DEFINE S == {h \in 0..n - 1 : place[h] = 0}
<1>4. S \subseteq Nat /\ S # {}
  BY <1>1, <1>3
<1>5. \A h : h \in S <=> h \in 0..n - 1 /\ place[h] = 0
  OBVIOUS
<1> HIDE DEF S
<1>6. PICK h \in S : \A k \in S : h <= k
  BY <1>4, LeastExists
<1>7. h \in 0..n - 1 /\ place[h] = 0
  BY <1>5, <1>6
<1>8. ASSUME NEW k \in 0..h - 1 PROVE place[k] # 0
  <2>1. k \in 0..n - 1 /\ ~(h <= k)
    BY <1>7
  <2> QED BY <1>5, <1>6, <2>1
<1> QED BY <1>7, <1>8 DEF Ends

\* It ends at one step only.
LEMMA EndIsUnique ==
    ASSUME NEW n \in Nat \ {0}, NEW place, NEW h, NEW k, Ends(h, n, place), Ends(k, n, place)
    PROVE  h = k
<1>1. h \in 0..n - 1 /\ k \in 0..n - 1
  BY DEF Ends
<1>2. h < k => h \in 0..k - 1
  BY <1>1
<1>3. k < h => k \in 0..h - 1
  BY <1>1
<1> QED BY <1>1, <1>2, <1>3 DEF Ends

\* The levels end where nothing is left of n - 1.
LEMMA HeightIs ==
    ASSUME NEW n, NEW leaves, List(leaves, n)
    PROVE  /\ Ends(Height(leaves), n, Places(n - 1, n - 1))
           /\ n > 1 => Height(leaves) = tree_height(n)
<1> DEFINE place == Places(n - 1, n - 1)
           level == Levels(leaves)
<1>1. n \in Nat \ {0} /\ n - 1 \in Nat /\ Len(leaves) = n
  BY DEF List
<1>2. PlacesUpTo(place, n - 1, n - 1)
  BY <1>1, PlacesAre
<1>3. LevelsUpTo(level, leaves, n)
  BY <1>1, LevelsAre
<1> HIDE DEF place, level
<1>4. PICK h : Ends(h, n, place)
  BY <1>1, <1>2, PlacesEnd
<1>5. h \in 0..n - 1
  BY <1>4 DEF Ends
<1>6. \A k \in Nat : k <= n /\ k <= n - 1 => List(level[k], place[k] + 1)
  BY <1>1, <1>2, <1>3, LevelLengths
<1>7. \A k \in Nat : k <= n /\ k <= n - 1 => place[k] \in Nat
  BY <1>1, <1>2, PlacesShrink
<1>8. \A k \in 0..n - 1 : Len(level[k]) = 1 <=> place[k] = 0
  <2> SUFFICES ASSUME NEW k \in 0..n - 1
               PROVE  Len(level[k]) = 1 <=> place[k] = 0
    OBVIOUS
  <2>1. k \in Nat /\ k <= n /\ k <= n - 1
    BY <1>1
  <2>2. Len(level[k]) = place[k] + 1 /\ place[k] \in Nat
    BY <1>6, <1>7, <2>1 DEF List
  <2> QED BY <2>2
<1> DEFINE OneAt(k) == Len(level[k]) = 1 /\ \A j \in 0..k - 1 : Len(level[j]) # 1
<1>9. h \in 0..n /\ OneAt(h)
  <2>1. h \in 0..n /\ \A j \in 0..h - 1 : j \in 0..n - 1
    BY <1>1, <1>5
  <2> QED BY <1>4, <1>8, <2>1 DEF Ends
<1>10. ASSUME NEW k \in 0..n, OneAt(k) PROVE k = h
  <2>1. ~(h < k)
    <3>1. h < k => h \in 0..k - 1
      BY <1>5
    <3> QED BY <1>9, <1>10, <3>1
  <2>2. ~(k < h)
    <3>1. k < h => k \in 0..h - 1
      BY <1>5
    <3> QED BY <1>9, <1>10, <3>1
  <2> QED BY <1>5, <2>1, <2>2
<1>11. Height(leaves) = CHOOSE k \in 0..n : OneAt(k)
  BY <1>1 DEF Height, level
<1>12. Height(leaves) = h
  <2> HIDE DEF OneAt
  <2> QED BY <1>9, <1>10, <1>11
<1>13. ASSUME n > 1 PROVE h = tree_height(n)
  <2> DEFINE m == n - 1
             Done(k) == place[k] = 0 /\ \A j \in 0..k - 1 : place[j] # 0
  <2>1. bit_length(m) = CHOOSE k \in 0..m : Done(k)
    BY DEF bit_length, place
  <2>2. h \in 0..m /\ Done(h)
    BY <1>4 DEF Ends
  <2>3. \A k \in 0..m : Done(k) => k = h
    <3> SUFFICES ASSUME NEW k \in 0..m, Done(k) PROVE k = h
      OBVIOUS
    <3>1. Ends(k, n, place)
      BY DEF Ends
    <3> QED BY <1>1, <1>4, <3>1, EndIsUnique
  <2>4. bit_length(m) = h
    <3> HIDE DEF Done, m
    <3> QED BY <2>1, <2>2, <2>3
  <2>5. h # 0
    <3>1. place[0] = n - 1
      <4>1. 0 \in 0..n - 1
        BY <1>1
      <4> QED BY <1>2, <4>1 DEF PlacesUpTo
    <3> QED BY <1>4, <1>13, <1>1, <3>1 DEF Ends
  <2>6. Max({1, h}) = h
    <3>1. h \in Int /\ 1 \in Int /\ (1 >= h => h = 1)
      BY <1>5, <2>5
    <3> QED BY <3>1, MaxOfTwo
  <2> QED BY <2>4, <2>6 DEF tree_height
<1> QED BY <1>4, <1>12, <1>13 DEF place

\* The tree over n leaves, of which only the levels depend on the leaves.
LEMMA TreeIs ==
    ASSUME NEW n, NEW leaves, List(leaves, n)
    PROVE  LET H == Height(leaves)
               level == Levels(leaves)
               last == Places(n - 1, n - 1)
           IN  /\ H \in Nat /\ H <= n - 1 /\ H <= n
               /\ LevelsUpTo(level, leaves, n)
               /\ \A h \in Nat : h <= H => List(level[h], last[h] + 1)
               /\ List(level[H], 1)
               /\ merkle_root(leaves) = level[H][1]
<1> DEFINE H == Height(leaves)
           level == Levels(leaves)
           last == Places(n - 1, n - 1)
<1>1. n \in Nat \ {0} /\ n - 1 \in Nat /\ Len(leaves) = n
  BY DEF List
<1>2. PlacesUpTo(last, n - 1, n - 1) /\ LevelsUpTo(level, leaves, n)
  BY <1>1, PlacesAre, LevelsAre
<1>3. Ends(H, n, last)
  BY HeightIs
<1> HIDE DEF last, level, H
<1>4. H \in Nat /\ H <= n - 1 /\ H <= n /\ last[H] = 0
  BY <1>1, <1>3 DEF Ends
<1>5. \A h \in Nat : h <= n /\ h <= n - 1 => List(level[h], last[h] + 1)
  BY <1>1, <1>2, LevelLengths
<1>6. \A h \in Nat : h <= H => List(level[h], last[h] + 1)
  BY <1>1, <1>4, <1>5
<1>7. List(level[H], 1)
  <2>1. List(level[H], last[H] + 1)
    BY <1>4, <1>6
  <2> QED BY <1>4, <2>1
<1>8. leaves # << >>
  <2>1. leaves # << >> \/ Len(<< >>) = n
    BY <1>1
  <2>2. Len(<< >>) = 0
    OBVIOUS
  <2> QED BY <1>1, <2>1, <2>2
<1>9. merkle_root(leaves) = level[H][1]
  BY <1>8 DEF merkle_root, level, H
<1> QED BY <1>2, <1>4, <1>6, <1>7, <1>9 DEF last, level, H

\* One step up, from place p of a level.
LEMMA StepUp ==
    ASSUME NEW n, NEW s, List(s, n), NEW p \in 0..n - 1
    PROVE  /\ p \div 2 \in 0..(n + 1) \div 2 - 1
           /\ Above(s)[p \div 2 + 1] = Joined(s[p + 1], Nth(s, Sibling(p) + 1), p)
<1>1. n \in Nat \ {0}
  BY DEF List
<1> DEFINE q == p \div 2
           m == (n + 1) \div 2
<1>2. /\ q \in Nat
      /\ \/ p = 2 * q /\ p % 2 = 0
         \/ p = 2 * q + 1 /\ p % 2 = 1
  <2>1. p \in Nat
    BY <1>1
  <2> QED BY <2>1
<1>3. m \in Nat /\ (n = 2 * m \/ n = 2 * m - 1)
  BY <1>1
<1>4. \A i \in 1..m : Above(s)[i] = Node(Nth(s, 2 * i - 1), Nth(s, 2 * i))
  BY AboveIsList
<1> HIDE DEF q, m
<1>5. q + 1 \in 1..m
  BY <1>1, <1>2, <1>3
<1>6. Above(s)[q + 1] = Node(Nth(s, 2 * (q + 1) - 1), Nth(s, 2 * (q + 1)))
  BY <1>4, <1>5
<1>7. p + 1 \in 1..n /\ Nth(s, p + 1) = s[p + 1]
  BY <1>1, NthOfList
<1>8. CASE p = 2 * q /\ p % 2 = 0
  <2>1. 2 * (q + 1) - 1 = p + 1 /\ 2 * (q + 1) = p + 1 + 1 /\ Sibling(p) = p + 1
    BY <1>2, <1>8 DEF Sibling
  <2>2. Above(s)[q + 1] = Node(s[p + 1], Nth(s, Sibling(p) + 1))
    BY <1>6, <1>7, <2>1
  <2>3. Above(s)[q + 1] = Joined(s[p + 1], Nth(s, Sibling(p) + 1), p)
    BY <1>8, <2>2 DEF Joined
  <2> QED BY <1>2, <1>3, <1>5, <2>3 DEF q, m
<1>9. CASE p = 2 * q + 1 /\ p % 2 = 1
  <2>1. 2 * (q + 1) - 1 = p /\ 2 * (q + 1) = p + 1 /\ Sibling(p) = p - 1 /\ (p - 1) + 1 = p
    BY <1>2, <1>9 DEF Sibling
  <2>2. Above(s)[q + 1] = Node(Nth(s, Sibling(p) + 1), s[p + 1])
    BY <1>6, <1>7, <2>1
  <2>3. Above(s)[q + 1] = Joined(s[p + 1], Nth(s, Sibling(p) + 1), p)
    BY <1>9, <2>2 DEF Joined
  <2> QED BY <1>2, <1>3, <1>5, <2>3 DEF q, m
<1> QED BY <1>2, <1>8, <1>9

\* The path of a leaf leads from it to the root.
LEMMA PathsClimb ==
    ASSUME NEW n, NEW leaves, List(leaves, n), NEW i \in 0..n - 1
    PROVE  /\ Len(merkle_proof(leaves, i)) = Height(leaves)
           /\ Climb(leaves[i + 1], merkle_proof(leaves, i), i) = merkle_root(leaves)
<1> DEFINE H == Height(leaves)
           level == Levels(leaves)
           last == Places(n - 1, n - 1)
           path == merkle_proof(leaves, i)
           place == Places(i, H)
<1>1. n \in Nat \ {0} /\ i \in Nat /\ Len(leaves) = n
  BY DEF List
<1>2. /\ H \in Nat /\ H <= n - 1 /\ H <= n
      /\ LevelsUpTo(level, leaves, n)
      /\ \A h \in Nat : h <= H => List(level[h], last[h] + 1)
      /\ List(level[H], 1)
      /\ merkle_root(leaves) = level[H][1]
  BY TreeIs
<1>3. leaves # << >>
  <2>1. leaves # << >> \/ Len(<< >>) = n
    BY <1>1
  <2>2. Len(<< >>) = 0
    OBVIOUS
  <2> QED BY <1>1, <2>1, <2>2
<1>4. path = [h \in 1..H |-> Nth(level[h - 1], Sibling(place[h - 1]) + 1)]
  BY <1>3 DEF merkle_proof
<1> HIDE DEF H, level, last, path, place
<1>5. Len(path) = H
  BY <1>2, <1>4
<1>6. PlacesUpTo(place, i, H)
  BY <1>2, PlacesAre DEF place
<1>7. PICK node : /\ NodesUpTo(node, leaves[i + 1], path, place, H)
                  /\ Climb(leaves[i + 1], path, i) = node[H]
  BY <1>2, <1>5, ClimbIs DEF place
<1> DEFINE At(h) == place[h] \in 0..Len(level[h]) - 1 /\ node[h] = level[h][place[h] + 1]
           S == {h \in Nat : h <= H => At(h)}
<1>8. 0 \in S
  <2>1. 0 \in 0..H /\ 0 \in 0..n
    BY <1>1, <1>2
  <2>2. place[0] = i /\ node[0] = leaves[i + 1] /\ level[0] = leaves
    BY <1>2, <1>6, <1>7, <2>1 DEF PlacesUpTo, NodesUpTo, LevelsUpTo
  <2> QED BY <1>1, <2>2
<1>9. ASSUME NEW h \in Nat, h \in S
      PROVE  h + 1 \in S
  <2> SUFFICES ASSUME h + 1 <= H PROVE At(h + 1)
    OBVIOUS
  <2>1. /\ h + 1 \in 0..H /\ h + 1 \in 0..n /\ h + 1 \in 1..H /\ h + 1 # 0 /\ (h + 1) - 1 = h
        /\ h <= H
    BY <1>1, <1>2
  <2>2. At(h)
    BY <1>9, <2>1
  <2> DEFINE s == level[h]
             k == last[h] + 1
             p == place[h]
  <2>3. List(s, k)
    BY <1>2, <2>1
  <2>4. Len(s) = k /\ k \in Nat \ {0}
    BY <2>3 DEF List
  <2>5. p \in 0..k - 1 /\ node[h] = s[p + 1]
    BY <2>2, <2>4
  <2>6. /\ place[h + 1] = p \div 2
        /\ level[h + 1] = Above(s)
        /\ node[h + 1] = Joined(node[h], path[h + 1], p)
        /\ path[h + 1] = Nth(s, Sibling(p) + 1)
    <3>1. place[h + 1] = p \div 2
      BY <1>6, <2>1 DEF PlacesUpTo
    <3>2. level[h + 1] = Above(s)
      BY <1>2, <2>1 DEF LevelsUpTo
    <3>3. node[h + 1] = Joined(node[h], path[h + 1], p)
      BY <1>7, <2>1 DEF NodesUpTo
    <3>4. path[h + 1] = Nth(s, Sibling(p) + 1)
      BY <1>4, <2>1
    <3> QED BY <3>1, <3>2, <3>3, <3>4
  <2> HIDE DEF s, k, p, S
  <2>7. /\ p \div 2 \in 0..(k + 1) \div 2 - 1
        /\ Above(s)[p \div 2 + 1] = Joined(s[p + 1], Nth(s, Sibling(p) + 1), p)
    BY <2>3, <2>5, StepUp
  <2>8. Len(Above(s)) = (k + 1) \div 2
    <3>1. List(Above(s), (k + 1) \div 2)
      BY <2>3, AboveIsList
    <3> QED BY <3>1 DEF List
  <2> QED BY <2>5, <2>6, <2>7, <2>8
<1> HIDE DEF S
<1>10. Nat \subseteq S
  BY <1>8, <1>9, NumberInduction, Zenon
<1>11. At(H)
  BY <1>2, <1>10 DEF S
<1>12. place[H] = 0
  <2>1. Len(level[H]) = 1
    BY <1>2 DEF List
  <2> QED BY <1>11, <2>1
<1>13. node[H] = level[H][1]
  BY <1>11, <1>12
<1> QED BY <1>2, <1>5, <1>7, <1>13 DEF path, H

\* Two leaves that climb one path from one place to one node are the same.
LEMMA ClimbBinds ==
    ASSUME NEW x, NEW y, NEW path, NEW i, Len(path) \in Nat,
           Climb(x, path, i) = Climb(y, path, i)
    PROVE  x = y
<1> DEFINE n == Len(path)
           place == Places(i, n)
<1>1. PICK a : NodesUpTo(a, x, path, place, n) /\ Climb(x, path, i) = a[n]
  BY ClimbIs
<1>2. PICK b : NodesUpTo(b, y, path, place, n) /\ Climb(y, path, i) = b[n]
  BY ClimbIs
<1>3. n \in Nat
  OBVIOUS
<1>4. a[n] = b[n]
  BY <1>1, <1>2
<1> HIDE DEF n, place
<1> DEFINE S == {k \in Nat : k <= n => a[n - k] = b[n - k]}
<1>5. 0 \in S
  <2>1. n - 0 = n
    BY <1>3
  <2> QED BY <1>4, <2>1
<1>6. ASSUME NEW k \in Nat, k \in S
      PROVE  k + 1 \in S
  <2> SUFFICES ASSUME k + 1 <= n PROVE a[n - (k + 1)] = b[n - (k + 1)]
    OBVIOUS
  <2> DEFINE h == n - k
  <2>1. a[h] = b[h]
    BY <1>3, <1>6
  <2>2. h \in 0..n /\ h # 0 /\ h - 1 = n - (k + 1)
    BY <1>3
  <2> HIDE DEF h, S
  <2> DEFINE sib == path[h]
             p == place[h - 1]
  <2>3. a[h] = Joined(a[h - 1], sib, p) /\ b[h] = Joined(b[h - 1], sib, p)
    BY <1>1, <1>2, <2>2 DEF NodesUpTo
  <2> HIDE DEF sib, p
  <2>4. Joined(a[h - 1], sib, p) = Joined(b[h - 1], sib, p)
    BY <2>1, <2>3
  <2>5. CASE p % 2 = 0
    <3>1. Node(a[h - 1], sib) = Node(b[h - 1], sib)
      BY <2>4, <2>5 DEF Joined
    <3>2. a[h - 1] = b[h - 1]
      BY <3>1 DEF Node
    <3> QED BY <2>2, <3>2
  <2>6. CASE p % 2 # 0
    <3>1. Node(sib, a[h - 1]) = Node(sib, b[h - 1])
      BY <2>4, <2>6 DEF Joined
    <3>2. a[h - 1] = b[h - 1]
      BY <3>1 DEF Node
    <3> QED BY <2>2, <3>2
  <2> QED BY <2>5, <2>6
<1> HIDE DEF S
<1>7. Nat \subseteq S
  BY <1>5, <1>6, NumberInduction, Zenon
<1>8. a[n - n] = b[n - n] /\ n - n = 0 /\ 0 \in 0..n
  <2>1. n \in S
    BY <1>3, <1>7
  <2> QED BY <1>3, <2>1 DEF S
<1>9. a[0] = x /\ b[0] = y
  BY <1>1, <1>2, <1>8 DEF NodesUpTo
<1> QED BY <1>8, <1>9

\* Trees of one size with one root have the same leaves.
LEMMA RootBinds ==
    ASSUME NEW n, NEW s, NEW t, List(s, n), List(t, n), merkle_root(s) = merkle_root(t)
    PROVE  s = t
<1> DEFINE H == Height(s)
           last == Places(n - 1, n - 1)
           a == Levels(s)
           b == Levels(t)
<1>1. n \in Nat \ {0}
  BY DEF List
<1>2. H = Height(t)
  BY <1>1, HeightIs, EndIsUnique
<1>3. /\ H \in Nat /\ H <= n
      /\ LevelsUpTo(a, s, n)
      /\ \A h \in Nat : h <= H => List(a[h], last[h] + 1)
      /\ List(a[H], 1)
      /\ merkle_root(s) = a[H][1]
  BY TreeIs
<1>4. /\ LevelsUpTo(b, t, n)
      /\ \A h \in Nat : h <= H => List(b[h], last[h] + 1)
      /\ List(b[H], 1)
      /\ merkle_root(t) = b[H][1]
  BY <1>2, TreeIs
<1> HIDE DEF H, last, a, b
<1>5. a[H] = b[H]
  <2>1. /\ a[H] = [i \in 1..1 |-> a[H][i]] /\ b[H] = [i \in 1..1 |-> b[H][i]]
        /\ \A i \in 1..1 : i = 1
    BY <1>3, <1>4 DEF List
  <2>2. a[H][1] = b[H][1]
    BY <1>3, <1>4
  <2>3. \A i \in 1..1 : a[H][i] = b[H][i]
    BY <2>1, <2>2
  <2> QED BY <2>1, <2>3
<1> DEFINE S == {k \in Nat : k <= H => a[H - k] = b[H - k]}
<1>6. 0 \in S
  <2>1. H - 0 = H
    BY <1>3
  <2> QED BY <1>5, <2>1
<1>7. ASSUME NEW k \in Nat, k \in S
      PROVE  k + 1 \in S
  <2> SUFFICES ASSUME k + 1 <= H PROVE a[H - (k + 1)] = b[H - (k + 1)]
    OBVIOUS
  <2> DEFINE h == H - (k + 1)
  <2>1. a[H - k] = b[H - k]
    BY <1>3, <1>7
  <2>2. h \in Nat /\ h <= H /\ H - k = h + 1 /\ h + 1 \in 0..n /\ h + 1 # 0 /\ (h + 1) - 1 = h
    BY <1>1, <1>3
  <2> HIDE DEF h, S
  <2>3. a[h + 1] = Above(a[h]) /\ b[h + 1] = Above(b[h])
    BY <1>3, <1>4, <2>2 DEF LevelsUpTo
  <2>4. List(a[h], last[h] + 1) /\ List(b[h], last[h] + 1)
    BY <1>3, <1>4, <2>2
  <2>5. Above(a[h]) = Above(b[h])
    BY <2>1, <2>2, <2>3
  <2>6. a[h] = b[h]
    BY <2>4, <2>5, AboveBinds
  <2> QED BY <2>6 DEF h
<1> HIDE DEF S
<1>8. Nat \subseteq S
  BY <1>6, <1>7, NumberInduction, Zenon
<1>9. a[H - H] = b[H - H] /\ H - H = 0 /\ 0 \in 0..n
  <2>1. H \in S
    BY <1>3, <1>8
  <2> QED BY <1>1, <1>3, <2>1 DEF S
<1>10. a[0] = s /\ b[0] = t
  BY <1>3, <1>4, <1>9 DEF LevelsUpTo
<1> QED BY <1>9, <1>10

\* A leaf's path proves that leaf at its place and no other.
LEMMA PathsProve ==
    ASSUME NEW n, NEW leaves, List(leaves, n), NEW i \in 0..n - 1, NEW x
    PROVE  merkle_verify(x, merkle_proof(leaves, i), i, merkle_root(leaves))
               <=> x = leaves[i + 1]
<1> DEFINE path == merkle_proof(leaves, i)
           root == merkle_root(leaves)
<1>1. Len(path) = Height(leaves) /\ Climb(leaves[i + 1], path, i) = root
  BY PathsClimb
<1>2. Height(leaves) \in Nat
  BY TreeIs
<1> HIDE DEF path, root
<1>3. Climb(x, path, i) = root => x = leaves[i + 1]
  BY <1>1, <1>2, ClimbBinds
<1>4. merkle_verify(x, path, i, root) <=> x = leaves[i + 1]
  BY <1>1, <1>3 DEF merkle_verify
<1> QED BY <1>4 DEF path, root

\* The trees of the property: equal roots, paths and slot trees.
LEMMA TreesAreBound == input \in Inputs => MerkleTreesBind
<1> SUFFICES ASSUME input \in Inputs, input.kind = "tree"
             PROVE  MerkleTreesBind
  BY DEF MerkleTreesBind
<1> DEFINE given == input.leaves
           n == Len(given)
           leaves == [i \in 1..n |-> Leaf(given[i])]
           root == merkle_root(leaves)
<1>1. n \in Nat \ {0} /\ given \in [1..n -> LeafValues]
  <2>1. input \in TreeInputs
    BY KindOfInput
  <2>2. given \in BoundedLists(LeafValues, MAX_LEAVES) /\ given # << >>
    BY <2>1 DEF TreeInputs
  <2>3. PICK k \in 0..MAX_LEAVES : given \in [1..k -> LeafValues]
    BY <2>2 DEF BoundedLists
  <2>4. k \in Nat
    BY FormulasAssumption
  <2> HIDE DEF given
  <2>5. Len(given) = k
    BY <2>3, <2>4
  <2>6. k # 0
    BY <2>2, <2>3
  <2> QED BY <2>3, <2>4, <2>5, <2>6
<1> HIDE DEF given, n
<1>2. List(leaves, n) /\ \A i \in 1..n : leaves[i] = Leaf(given[i])
  <2>1. leaves = [i \in 1..n |-> leaves[i]]
    OBVIOUS
  <2> HIDE DEF leaves
  <2>2. List(leaves, n)
    BY <1>1, <2>1, ListOf
  <2> QED BY <2>2 DEF leaves
<1>3. \A x, y : Leaf(x) = Leaf(y) => x = y
  BY DEF Leaf
<1> HIDE DEF leaves
<1>4. ASSUME NEW i \in 0..n - 1
      PROVE  LET path == merkle_proof(leaves, i)
             IN  /\ n > 1 => Len(path) = tree_height(n)
                 /\ \A x \in LeafValues : merkle_verify(Leaf(x), path, i, root) <=> x = given[i + 1]
  <2>1. Len(merkle_proof(leaves, i)) = Height(leaves)
    BY <1>2, PathsClimb
  <2>2. n > 1 => Height(leaves) = tree_height(n)
    BY <1>2, HeightIs
  <2>3. ASSUME NEW x \in LeafValues
        PROVE  merkle_verify(Leaf(x), merkle_proof(leaves, i), i, root) <=> x = given[i + 1]
    <3>1. merkle_verify(Leaf(x), merkle_proof(leaves, i), i, root) <=> Leaf(x) = leaves[i + 1]
      BY <1>2, PathsProve
    <3>2. i + 1 \in 1..n
      BY <1>1
    <3> QED BY <1>2, <1>3, <3>1, <3>2
  <2> QED BY <2>1, <2>2, <2>3
<1>5. ASSUME NEW t \in [1..n -> LeafValues],
             merkle_root([i \in 1..n |-> Leaf(t[i])]) = root
      PROVE  t = given
  <2> DEFINE other == [i \in 1..n |-> Leaf(t[i])]
  <2>1. other = [i \in 1..n |-> other[i]] /\ \A i \in 1..n : other[i] = Leaf(t[i])
    OBVIOUS
  <2>2. merkle_root(other) = merkle_root(leaves)
    BY <1>5
  <2> HIDE DEF other
  <2>3. List(other, n)
    BY <1>1, <2>1, ListOf
  <2>4. other = leaves
    BY <1>2, <2>2, <2>3, RootBinds
  <2>5. \A i \in 1..n : t[i] = given[i]
    BY <1>2, <1>3, <2>1, <2>4
  <2> QED BY <1>1, <2>5
<1>6. ASSUME NEW capacity \in CAPACITY_SLOTS, NEW idx \in 0..n - 1, n <= capacity
      PROVE  LET slots == [i \in 1..capacity |-> IF i <= n THEN leaves[i]
                                                 ELSE SlotTree(capacity)[i]]
                 cleared == SlotClear(slots, idx)
                 provider_root == merkle_root(cleared)
             IN  \A i \in (0..capacity - 1) \ {idx} :
                     merkle_verify(slots[i + 1], merkle_proof(cleared, i), i, provider_root)
  <2> DEFINE slots == [i \in 1..capacity |-> IF i <= n THEN leaves[i] ELSE SlotTree(capacity)[i]]
             cleared == SlotClear(slots, idx)
  <2>1. capacity \in Nat \ {0}
    BY FormulasAssumption
  <2>2. /\ cleared = [i \in 1..capacity |-> cleared[i]]
        /\ \A i \in 1..capacity : i # idx + 1 => cleared[i] = slots[i]
    BY DEF SlotClear, SlotSet
  <2> HIDE DEF cleared, slots
  <2>3. List(cleared, capacity)
    BY <2>1, <2>2, ListOf
  <2>4. ASSUME NEW i \in (0..capacity - 1) \ {idx}
        PROVE  merkle_verify(slots[i + 1], merkle_proof(cleared, i), i, merkle_root(cleared))
    <3>1. i \in 0..capacity - 1 /\ i + 1 \in 1..capacity /\ i + 1 # idx + 1
      BY <1>1, <2>1
    <3>2. slots[i + 1] = cleared[i + 1]
      BY <2>2, <3>1
    <3> QED BY <2>3, <3>1, <3>2, PathsProve
  <2> QED BY <2>4 DEF cleared, slots
<1> QED BY <1>4, <1>5, <1>6 DEF MerkleTreesBind, root, leaves, n, given

-----------------------------------------------------------------------------
(***************************************************************************)
(* Sealing.  The hashes as terms, and the recursive definitions step by step. *)
(***************************************************************************)
\* A hash tells what was hashed.
LEMMA HashBinds ==
    ASSUME NEW a, NEW b, NEW c, NEW d, H2(a, b) = H2(c, d)
    PROVE  a = c /\ b = d
BY DEF H2

\* state holds what the first n limbs leave.
StatesUpTo(state, start, chunk, n) ==
    state = [i \in 0..n |-> IF i = 0 THEN start ELSE H2(state[i - 1], chunk[i])]

\* There are states for every number of limbs.
LEMMA StatesExist ==
    ASSUME NEW start, NEW chunk
    PROVE  \A n \in Nat : \E state : StatesUpTo(state, start, chunk, n)
<1> DEFINE S == {n \in Nat : \E state : StatesUpTo(state, start, chunk, n)}
<1>1. 0 \in S
  <2> DEFINE state == [i \in 0..0 |-> start]
  <2>1. StatesUpTo(state, start, chunk, 0)
    BY DEF StatesUpTo
  <2> HIDE DEF state
  <2> QED BY <2>1
<1>2. ASSUME NEW n \in Nat, n \in S
      PROVE  n + 1 \in S
  <2>1. PICK state : StatesUpTo(state, start, chunk, n)
    BY <1>2
  <2> DEFINE more == [i \in 0..n + 1 |-> IF i = n + 1 THEN H2(state[n], chunk[n + 1])
                                         ELSE state[i]]
  <2>2. /\ \A i \in 0..n : more[i] = state[i]
        /\ more[n + 1] = H2(state[n], chunk[n + 1])
        /\ more = [i \in 0..n + 1 |-> more[i]]
    OBVIOUS
  <2> HIDE DEF more
  <2>3. \A i \in 0..n : state[i] = IF i = 0 THEN start ELSE H2(state[i - 1], chunk[i])
    BY <2>1 DEF StatesUpTo
  <2>4. \A i \in 0..n : more[i] = IF i = 0 THEN start ELSE H2(more[i - 1], chunk[i])
    <3>1. \A i \in 0..n : i # 0 => i - 1 \in 0..n
      OBVIOUS
    <3> QED BY <2>2, <2>3, <3>1
  <2>5. more[n + 1] = H2(more[n], chunk[n + 1])
    <3>1. n \in 0..n
      OBVIOUS
    <3> QED BY <2>2, <3>1
  <2>6. \A i \in 0..n + 1 : more[i] = IF i = 0 THEN start ELSE H2(more[i - 1], chunk[i])
    <3>1. \A i \in 0..n + 1 : i \in 0..n \/ (i = n + 1 /\ i # 0 /\ i - 1 = n)
      OBVIOUS
    <3> QED BY <2>4, <2>5, <3>1
  <2>7. StatesUpTo(more, start, chunk, n + 1)
    BY <2>2, <2>6 DEF StatesUpTo
  <2> QED BY <2>7
<1> HIDE DEF S
<1>3. Nat \subseteq S
  BY <1>1, <1>2, NumberInduction, Zenon
<1> QED BY <1>3 DEF S

\* Absorb takes up one limb a step.
LEMMA AbsorbIs ==
    ASSUME NEW start, NEW chunk, Len(chunk) \in Nat
    PROVE  \E state : /\ StatesUpTo(state, start, chunk, Len(chunk))
                      /\ Absorb(start, chunk) = state[Len(chunk)]
<1> DEFINE F(state) == [i \in 0..Len(chunk) |->
                           IF i = 0 THEN start ELSE H2(state[i - 1], chunk[i])]
           it == CHOOSE state : state = F(state)
<1>1. \E state : state = F(state)
  <2>1. \E state : StatesUpTo(state, start, chunk, Len(chunk))
    BY StatesExist
  <2> QED BY <2>1 DEF StatesUpTo
<1>2. Absorb(start, chunk) = it[Len(chunk)]
  BY DEF Absorb
<1>3. it = F(it)
  <2> HIDE DEF F
  <2> QED BY <1>1
<1>4. StatesUpTo(it, start, chunk, Len(chunk))
  <2> HIDE DEF it
  <2> QED BY <1>3 DEF StatesUpTo
<1> HIDE DEF it
<1> QED BY <1>2, <1>4

\* What is left of equally many limbs tells them and the state they met.
LEMMA AbsorbBinds ==
    ASSUME NEW n \in Nat, NEW x, NEW y, NEW c, NEW d, Len(c) = n, Len(d) = n,
           Absorb(x, c) = Absorb(y, d)
    PROVE  x = y /\ \A i \in 1..n : c[i] = d[i]
<1>1. PICK a : StatesUpTo(a, x, c, n) /\ Absorb(x, c) = a[n]
  BY AbsorbIs
<1>2. PICK b : StatesUpTo(b, y, d, n) /\ Absorb(y, d) = b[n]
  BY AbsorbIs
<1>3. \A i \in 0..n : i # 0 => a[i] = H2(a[i - 1], c[i]) /\ b[i] = H2(b[i - 1], d[i])
  BY <1>1, <1>2 DEF StatesUpTo
<1>4. a[n] = b[n]
  BY <1>1, <1>2
<1>5. \A i \in 0..n : i # 0 /\ a[i] = b[i] => a[i - 1] = b[i - 1] /\ c[i] = d[i]
  BY <1>3, HashBinds
<1> DEFINE S == {k \in Nat : k <= n => a[n - k] = b[n - k]}
<1>6. 0 \in S
  <2>1. n - 0 = n
    OBVIOUS
  <2> QED BY <1>4, <2>1
<1>7. ASSUME NEW k \in Nat, k \in S
      PROVE  k + 1 \in S
  <2> SUFFICES ASSUME k + 1 <= n PROVE a[n - (k + 1)] = b[n - (k + 1)]
    OBVIOUS
  <2>1. n - k \in 0..n /\ n - k # 0 /\ (n - k) - 1 = n - (k + 1)
    OBVIOUS
  <2>2. a[n - k] = b[n - k]
    BY <1>7
  <2> HIDE DEF S
  <2> QED BY <1>5, <2>1, <2>2
<1> HIDE DEF S
<1>8. Nat \subseteq S
  BY <1>6, <1>7, NumberInduction, Zenon
<1>9. \A i \in 0..n : a[i] = b[i]
  <2> TAKE i \in 0..n
  <2>1. n - i \in Nat /\ n - i <= n /\ n - (n - i) = i
    OBVIOUS
  <2>2. n - i \in S
    BY <1>8, <2>1
  <2>3. a[n - (n - i)] = b[n - (n - i)]
    BY <2>1, <2>2 DEF S
  <2> QED BY <2>1, <2>3
<1>10. a[0] = x /\ b[0] = y
  <2>1. 0 \in 0..n
    OBVIOUS
  <2> QED BY <1>1, <1>2, <2>1 DEF StatesUpTo
<1>11. x = y
  <2>1. 0 \in 0..n
    OBVIOUS
  <2> QED BY <1>9, <1>10, <2>1
<1>12. \A i \in 1..n : c[i] = d[i]
  <2>1. \A i \in 1..n : i \in 0..n /\ i # 0
    OBVIOUS
  <2> QED BY <1>5, <1>9, <2>1
<1> QED BY <1>11, <1>12

\* A chain takes up the values one after the other.
Linked(s, r, n) == \A i \in 1..n : s[i] = H2(s[i - 1], r[i])

\* Two chains that take up different things part there and never meet again.
LEMMA ChainsPart ==
    ASSUME NEW n \in Nat, NEW s, NEW t, NEW r, NEW u,
           Linked(s, r, n), Linked(t, u, n), NEW k \in 1..n, r[k] # u[k]
    PROVE  \A j \in k..n : s[j] # t[j]
<1> DEFINE S == {m \in Nat : k + m <= n => s[k + m] # t[k + m]}
<1>1. 0 \in S
  <2>1. s[k] # t[k]
    BY HashBinds DEF Linked
  <2>2. k + 0 = k
    OBVIOUS
  <2> QED BY <2>1, <2>2
<1>2. ASSUME NEW m \in Nat, m \in S
      PROVE  m + 1 \in S
  <2> SUFFICES ASSUME k + (m + 1) <= n PROVE s[k + (m + 1)] # t[k + (m + 1)]
    OBVIOUS
  <2>1. k + (m + 1) \in 1..n /\ (k + (m + 1)) - 1 = k + m /\ k + m <= n
    OBVIOUS
  <2>2. s[k + m] # t[k + m]
    BY <1>2, <2>1
  <2> HIDE DEF S
  <2> DEFINE j == k + (m + 1)
  <2>3. s[j] = H2(s[k + m], r[j]) /\ t[j] = H2(t[k + m], u[j])
    BY <2>1 DEF Linked
  <2> HIDE DEF j
  <2>4. s[j] # t[j]
    BY <2>2, <2>3, HashBinds
  <2> QED BY <2>4 DEF j
<1> HIDE DEF S
<1>3. Nat \subseteq S
  BY <1>1, <1>2, NumberInduction, Zenon
<1> TAKE j \in k..n
<1>4. j - k \in Nat /\ k + (j - k) = j /\ k + (j - k) <= n
  OBVIOUS
<1>5. j - k \in S
  BY <1>3, <1>4
<1>6. s[k + (j - k)] # t[k + (j - k)]
  BY <1>4, <1>5 DEF S
<1> QED BY <1>4, <1>6

\* s holds the first n seals of the chunks.
SealsUpTo(s, chunks, replica, n) ==
    s = [i \in 0..n |-> IF i = 0 THEN replica
                        ELSE Chained(s[i - 1], r_value(chunks[i], i - 1, s[i - 1], replica))]

\* There are seals for every number of chunks.
LEMMA SealsExist ==
    ASSUME NEW chunks, NEW replica
    PROVE  \A n \in Nat : \E s : SealsUpTo(s, chunks, replica, n)
<1> DEFINE S == {n \in Nat : \E s : SealsUpTo(s, chunks, replica, n)}
           G(x, i) == Chained(x, r_value(chunks[i], i - 1, x, replica))
<1>1. 0 \in S
  <2> DEFINE s == [i \in 0..0 |-> replica]
  <2>1. SealsUpTo(s, chunks, replica, 0)
    BY DEF SealsUpTo
  <2> HIDE DEF s
  <2> QED BY <2>1
<1>2. ASSUME NEW n \in Nat, n \in S
      PROVE  n + 1 \in S
  <2>1. PICK s : SealsUpTo(s, chunks, replica, n)
    BY <1>2
  <2>2. \A i \in 0..n : s[i] = IF i = 0 THEN replica ELSE G(s[i - 1], i)
    BY <2>1 DEF SealsUpTo
  <2> HIDE DEF G
  <2> DEFINE more == [i \in 0..n + 1 |-> IF i = n + 1 THEN G(s[n], n + 1) ELSE s[i]]
  <2>3. /\ \A i \in 0..n : more[i] = s[i]
        /\ more[n + 1] = G(s[n], n + 1)
        /\ more = [i \in 0..n + 1 |-> more[i]]
    OBVIOUS
  <2> HIDE DEF more
  <2>4. \A i \in 0..n : more[i] = IF i = 0 THEN replica ELSE G(more[i - 1], i)
    <3>1. \A i \in 0..n : i # 0 => i - 1 \in 0..n
      OBVIOUS
    <3> QED BY <2>2, <2>3, <3>1
  <2>5. more[n + 1] = G(more[n], n + 1)
    <3>1. n \in 0..n
      OBVIOUS
    <3> QED BY <2>3, <3>1
  <2>6. \A i \in 0..n + 1 : more[i] = IF i = 0 THEN replica ELSE G(more[i - 1], i)
    <3>1. \A i \in 0..n + 1 : i \in 0..n \/ (i = n + 1 /\ i # 0 /\ i - 1 = n)
      OBVIOUS
    <3> QED BY <2>4, <2>5, <3>1
  <2>7. SealsUpTo(more, chunks, replica, n + 1)
    BY <2>3, <2>6 DEF SealsUpTo, G
  <2> QED BY <2>7
<1> HIDE DEF S
<1>3. Nat \subseteq S
  BY <1>1, <1>2, NumberInduction, Zenon
<1> QED BY <1>3 DEF S

\* The S chain of algorithm 1c.
LEMMA SealsAre ==
    ASSUME NEW chunks, NEW replica, Len(chunks) \in Nat
    PROVE  SealsUpTo(s_chain(chunks, replica), chunks, replica, Len(chunks))
<1> DEFINE F(s) == [i \in 0..Len(chunks) |->
                       IF i = 0 THEN replica
                       ELSE Chained(s[i - 1], r_value(chunks[i], i - 1, s[i - 1], replica))]
<1>1. \E s : s = F(s)
  <2>1. \E s : SealsUpTo(s, chunks, replica, Len(chunks))
    BY SealsExist
  <2> QED BY <2>1 DEF SealsUpTo
<1>2. s_chain(chunks, replica) = CHOOSE s : s = F(s)
  BY DEF s_chain
<1>3. s_chain(chunks, replica) = F(s_chain(chunks, replica))
  <2> HIDE DEF F
  <2> QED BY <1>1, <1>2
<1> QED BY <1>3 DEF SealsUpTo

\* What chunk i, counted from 1, is folded into.
Seed(s, i, replica, draws) ==
    <<s[i - 1],
      [t \in DOMAIN fanin_positions(i - 1, draws) |->
           s[fanin_positions(i - 1, draws)[t] + 1]],
      Number(i - 1), replica>>

\* What the hashes give.
Numbers(draws) == \A t \in DOMAIN draws : draws[t] \in Nat

\* Alike from 0 to n.
Agree(s, more, n) == \A i \in 0..n : more[i] = s[i]

\* It depends on the seals before it and on no other.
LEMMA SeedLooksBack ==
    ASSUME NEW s, NEW more, NEW replica, NEW draws, Numbers(draws),
           NEW n \in Nat, Agree(s, more, n), NEW i \in 1..n + 1
    PROVE  Seed(more, i, replica, draws) = Seed(s, i, replica, draws)
<1> DEFINE fanin == fanin_positions(i - 1, draws)
<1>1. \A t \in DOMAIN fanin : fanin[t] + 1 \in 0..n
  <2>1. CASE i = 1
    <3>1. fanin = << >>
      BY <2>1 DEF fanin_positions
    <3> QED BY <3>1
  <2>2. CASE i # 1
    <3>1. i - 1 \in Nat \ {0} /\ i - 1 # 0
      BY <2>2
    <3>2. fanin = [t \in DOMAIN draws |-> draws[t] % (i - 1)]
      BY <3>1 DEF fanin_positions
    <3> HIDE DEF fanin
    <3> SUFFICES ASSUME NEW t \in DOMAIN fanin PROVE fanin[t] + 1 \in 0..n
      OBVIOUS
    <3>3. draws[t] \in Nat /\ fanin[t] = draws[t] % (i - 1)
      BY <3>2 DEF Numbers
    <3>4. draws[t] % (i - 1) \in 0..(i - 1) - 1
      BY <3>1, <3>3
    <3> QED BY <3>3, <3>4
  <2> QED BY <2>1, <2>2
<1>2. i - 1 \in 0..n
  OBVIOUS
<1> HIDE DEF fanin
<1>3. [t \in DOMAIN fanin |-> more[fanin[t] + 1]] = [t \in DOMAIN fanin |-> s[fanin[t] + 1]]
  BY <1>1 DEF Agree
<1>4. more[i - 1] = s[i - 1]
  BY <1>2 DEF Agree
<1> QED BY <1>3, <1>4 DEF Seed, fanin

\* s holds the first n seals with fan-in.
WideUpTo(s, chunks, replica, draws, n) ==
    s = [i \in 0..n |-> IF i = 0 THEN replica
                        ELSE Chained(s[i - 1], Absorb(Seed(s, i, replica, draws), chunks[i]))]

\* There are such seals for every number of chunks.
LEMMA WideExist ==
    ASSUME NEW chunks, NEW replica, NEW draws, Numbers(draws)
    PROVE  \A n \in Nat : \E s : WideUpTo(s, chunks, replica, draws, n)
<1> DEFINE S == {n \in Nat : \E s : WideUpTo(s, chunks, replica, draws, n)}
           G(x, seed, i) == Chained(x, Absorb(seed, chunks[i]))
<1>1. 0 \in S
  <2> DEFINE s == [i \in 0..0 |-> replica]
  <2>1. WideUpTo(s, chunks, replica, draws, 0)
    BY DEF WideUpTo
  <2> HIDE DEF s
  <2> QED BY <2>1
<1>2. ASSUME NEW n \in Nat, n \in S
      PROVE  n + 1 \in S
  <2>1. PICK s : WideUpTo(s, chunks, replica, draws, n)
    BY <1>2
  <2> DEFINE seed(f, i) == Seed(f, i, replica, draws)
  <2>2. \A i \in 0..n : s[i] = IF i = 0 THEN replica ELSE G(s[i - 1], seed(s, i), i)
    BY <2>1 DEF WideUpTo
  <2> HIDE DEF G
  <2> DEFINE more == [i \in 0..n + 1 |-> IF i = n + 1 THEN G(s[n], seed(s, n + 1), n + 1)
                                         ELSE s[i]]
  <2>3. /\ \A i \in 0..n : more[i] = s[i]
        /\ more[n + 1] = G(s[n], seed(s, n + 1), n + 1)
        /\ more = [i \in 0..n + 1 |-> more[i]]
    OBVIOUS
  <2> HIDE DEF more
  <2>4. \A i \in 1..n + 1 : seed(more, i) = seed(s, i)
    <3> HIDE DEF S
    <3>1. Agree(s, more, n)
      BY <2>3 DEF Agree
    <3> TAKE i \in 1..n + 1
    <3>2. Seed(more, i, replica, draws) = Seed(s, i, replica, draws)
      BY <3>1, SeedLooksBack
    <3> QED BY <3>2
  <2> HIDE DEF seed
  <2>5. \A i \in 0..n : more[i] = IF i = 0 THEN replica ELSE G(more[i - 1], seed(more, i), i)
    <3>1. \A i \in 0..n : i # 0 => i - 1 \in 0..n /\ i \in 1..n + 1
      OBVIOUS
    <3> QED BY <2>2, <2>3, <2>4, <3>1
  <2>6. more[n + 1] = G(more[n], seed(more, n + 1), n + 1)
    <3>1. n \in 0..n /\ n + 1 \in 1..n + 1
      OBVIOUS
    <3> QED BY <2>3, <2>4, <3>1
  <2>7. \A i \in 0..n + 1 :
            more[i] = IF i = 0 THEN replica ELSE G(more[i - 1], seed(more, i), i)
    <3>1. \A i \in 0..n + 1 : i \in 0..n \/ (i = n + 1 /\ i # 0 /\ i - 1 = n)
      OBVIOUS
    <3> QED BY <2>5, <2>6, <3>1
  <2>8. WideUpTo(more, chunks, replica, draws, n + 1)
    BY <2>3, <2>7 DEF WideUpTo, G, seed
  <2> QED BY <2>8
<1> HIDE DEF S
<1>3. Nat \subseteq S
  BY <1>1, <1>2, NumberInduction, Zenon
<1> QED BY <1>3 DEF S

\* The S chain of algorithm 1d.
LEMMA WideAre ==
    ASSUME NEW chunks, NEW replica, NEW draws, Numbers(draws),
           Len(chunks) \in Nat
    PROVE  WideUpTo(s_chain_wide(chunks, replica, draws), chunks, replica, draws, Len(chunks))
<1> DEFINE F(s) == [i \in 0..Len(chunks) |->
                       IF i = 0 THEN replica
                       ELSE Chained(s[i - 1], Absorb(Seed(s, i, replica, draws), chunks[i]))]
<1>1. \E s : s = F(s)
  <2>1. \E s : WideUpTo(s, chunks, replica, draws, Len(chunks))
    BY WideExist
  <2> QED BY <2>1 DEF WideUpTo
<1>2. s_chain_wide(chunks, replica, draws) = CHOOSE s : s = F(s)
  BY DEF s_chain_wide, Seed
<1>3. s_chain_wide(chunks, replica, draws) = F(s_chain_wide(chunks, replica, draws))
  <2> HIDE DEF F
  <2> QED BY <1>1, <1>2
<1> QED BY <1>3 DEF WideUpTo

\* n chunks of CHUNK_SIZE limbs each.
Chunk(c) == c = [i \in 1..CHUNK_SIZE |-> c[i]] /\ Len(c) = CHUNK_SIZE
Chunks(c, n) == c = [k \in 1..n |-> c[k]] /\ Len(c) = n /\ \A k \in 1..n : Chunk(c[k])

\* Whatever happened to the file, its chunks read as chunks of full size.
LEMMA IterIsChunks ==
    ASSUME NEW sector, sector.n_chunks \in Nat
    PROVE  Chunks(iter_chunks(sector), sector.n_chunks)
<1> DEFINE n == sector.n_chunks
           chunk(k) == [i \in 1..CHUNK_SIZE |-> LimbAt(Read(sector, k - 1), i)]
<1>1. iter_chunks(sector) = [k \in 1..n |-> chunk(k)]
  BY DEF iter_chunks
<1>2. \A k \in 1..n : Chunk(chunk(k))
  <2> TAKE k \in 1..n
  <2> DEFINE limb(i) == LimbAt(Read(sector, k - 1), i)
  <2>1. chunk(k) = [i \in 1..CHUNK_SIZE |-> limb(i)]
    OBVIOUS
  <2>2. CHUNK_SIZE \in Nat
    BY FormulasAssumption
  <2> HIDE DEF limb, chunk
  <2>3. Len([i \in 1..CHUNK_SIZE |-> limb(i)]) = CHUNK_SIZE
    BY <2>2
  <2> QED BY <2>1, <2>3 DEF Chunk
<1> HIDE DEF chunk
<1>3. n \in Nat
  OBVIOUS
<1> HIDE DEF n
<1>4. Len([k \in 1..n |-> chunk(k)]) = n
  BY <1>3
<1>5. Chunks(iter_chunks(sector), n)
  BY <1>1, <1>2, <1>4 DEF Chunks
<1> QED BY <1>5 DEF n

\* Chunks fold alike only if they are the same.
LEMMA FoldBinds ==
    ASSUME NEW c, NEW d, Chunk(c), Chunk(d), NEW x, NEW y, Absorb(x, c) = Absorb(y, d)
    PROVE  c = d
<1>1. CHUNK_SIZE \in Nat
  BY FormulasAssumption
<1>2. \A i \in 1..CHUNK_SIZE : c[i] = d[i]
  BY <1>1, AbsorbBinds DEF Chunk
<1> QED BY <1>2 DEF Chunk

\* R tells the chunk and the replica it was made of.
LEMMA ValueBinds ==
    ASSUME NEW c, NEW d, Chunk(c), Chunk(d), NEW i, NEW x, NEW y, NEW p, NEW q,
           r_value(c, i, x, p) = r_value(d, i, y, q)
    PROVE  c = d /\ p = q
<1>1. H2(fold_limbs(c), x) = H2(fold_limbs(d), y) /\ H2(Number(i), p) = H2(Number(i), q)
  BY HashBinds DEF r_value, H4
<1>2. fold_limbs(c) = fold_limbs(d) /\ p = q
  BY <1>1, HashBinds
<1>3. c = d
  BY <1>2, FoldBinds DEF fold_limbs
<1> QED BY <1>2, <1>3

\* Chunks that differ somewhere part the chains there, for good.
LEMMA SealsPart ==
    ASSUME NEW n \in Nat, NEW c, NEW d, Chunks(c, n), Chunks(d, n), NEW replica,
           NEW k \in 1..n, c[k] # d[k]
    PROVE  \A j \in k..n : s_chain(c, replica)[j] # s_chain(d, replica)[j]
<1> DEFINE s == s_chain(c, replica)
           t == s_chain(d, replica)
           r == [i \in 1..n |-> r_value(c[i], i - 1, s[i - 1], replica)]
           u == [i \in 1..n |-> r_value(d[i], i - 1, t[i - 1], replica)]
<1>1. SealsUpTo(s, c, replica, n) /\ SealsUpTo(t, d, replica, n)
  BY SealsAre DEF Chunks
<1> HIDE DEF s, t
<1>2. \A i \in 1..n : i \in 0..n /\ i # 0
  OBVIOUS
<1>3. Linked(s, r, n) /\ Linked(t, u, n)
  BY <1>1, <1>2 DEF SealsUpTo, Chained, Linked
<1>4. r[k] # u[k]
  <2>1. Chunk(c[k]) /\ Chunk(d[k])
    BY DEF Chunks
  <2>2. r_value(c[k], k - 1, s[k - 1], replica) # r_value(d[k], k - 1, t[k - 1], replica)
    BY <2>1, ValueBinds
  <2> QED BY <2>2
<1> HIDE DEF r, u
<1>5. \A j \in k..n : s[j] # t[j]
  BY <1>3, <1>4, ChainsPart
<1> QED BY <1>5 DEF s, t

\* So they do with fan-in.
LEMMA WidePart ==
    ASSUME NEW n \in Nat, NEW c, NEW d, Chunks(c, n), Chunks(d, n), NEW replica,
           NEW draws, Numbers(draws), NEW k \in 1..n, c[k] # d[k]
    PROVE  \A j \in k..n : s_chain_wide(c, replica, draws)[j] # s_chain_wide(d, replica, draws)[j]
<1> DEFINE s == s_chain_wide(c, replica, draws)
           t == s_chain_wide(d, replica, draws)
           r == [i \in 1..n |-> Absorb(Seed(s, i, replica, draws), c[i])]
           u == [i \in 1..n |-> Absorb(Seed(t, i, replica, draws), d[i])]
<1>1. WideUpTo(s, c, replica, draws, n) /\ WideUpTo(t, d, replica, draws, n)
  BY WideAre DEF Chunks
<1> HIDE DEF s, t
<1>2. \A i \in 1..n : i \in 0..n /\ i # 0
  OBVIOUS
<1>3. Linked(s, r, n) /\ Linked(t, u, n)
  BY <1>1, <1>2 DEF WideUpTo, Chained, Linked
<1>4. r[k] # u[k]
  <2>1. Chunk(c[k]) /\ Chunk(d[k])
    BY DEF Chunks
  <2>2. Absorb(Seed(s, k, replica, draws), c[k]) # Absorb(Seed(t, k, replica, draws), d[k])
    BY <2>1, FoldBinds
  <2> QED BY <2>2
<1> HIDE DEF r, u
<1>5. \A j \in k..n : s[j] # t[j]
  BY <1>3, <1>4, ChainsPart
<1> QED BY <1>5 DEF s, t

\* Equal roots come of equal chunks and of one replica.
LEMMA SealBinds ==
    ASSUME NEW n \in Nat, NEW c, NEW d, Chunks(c, n), Chunks(d, n), NEW p, NEW q,
           sealed_root(c, p) = sealed_root(d, q)
    PROVE  c = d /\ (n # 0 => p = q)
<1> DEFINE s == s_chain(c, p)
           t == s_chain(d, q)
           a == [i \in 1..n |-> H2(r_value(c[i], i - 1, s[i - 1], p), s[i])]
           b == [i \in 1..n |-> H2(r_value(d[i], i - 1, t[i - 1], q), t[i])]
<1>1. DOMAIN c = 1..n /\ DOMAIN d = 1..n
  BY DEF Chunks
<1>2. sealed_root(c, p) = merkle_root(a) /\ sealed_root(d, q) = merkle_root(b)
  BY <1>1 DEF sealed_root
<1>3. CASE n = 0
  BY <1>3 DEF Chunks
<1>4. CASE n # 0
  <2> HIDE DEF s, t
  <2>1. /\ \A i \in 1..n : a[i] = H2(r_value(c[i], i - 1, s[i - 1], p), s[i])
        /\ \A i \in 1..n : b[i] = H2(r_value(d[i], i - 1, t[i - 1], q), t[i])
        /\ a = [i \in 1..n |-> a[i]] /\ b = [i \in 1..n |-> b[i]]
    OBVIOUS
  <2> HIDE DEF a, b
  <2>2. List(a, n) /\ List(b, n)
    BY <1>4, <2>1, ListOf
  <2>3. a = b
    BY <1>2, <2>2, RootBinds
  <2>4. \A i \in 1..n : c[i] = d[i] /\ p = q
    <3> TAKE i \in 1..n
    <3>1. r_value(c[i], i - 1, s[i - 1], p) = r_value(d[i], i - 1, t[i - 1], q)
      BY <2>1, <2>3, HashBinds
    <3>2. Chunk(c[i]) /\ Chunk(d[i])
      BY DEF Chunks
    <3> QED BY <3>1, <3>2, ValueBinds
  <2>5. 1 \in 1..n
    BY <1>4
  <2>6. c = d
    BY <2>4 DEF Chunks
  <2> QED BY <2>4, <2>5, <2>6
<1> QED BY <1>3, <1>4

\* A sector as from_bytes leaves it: all there.
IsSector(s) == s = [n_chunks |-> s.n_chunks, file |-> s.file]
Whole(s, n) ==
    /\ IsSector(s) /\ s.n_chunks = n /\ ~s.file.deleted
    /\ n \in Nat /\ Len(s.file.limbs) = n * CHUNK_SIZE

\* Nothing that happens to a file changes how many chunks it is read for.
LEMMA CountStays ==
    ASSUME NEW s, NEW file, IsSector(s)
    PROVE  /\ [s EXCEPT !.file = file].n_chunks = s.n_chunks
           /\ [s EXCEPT !.file = file].file = file
           /\ IsSector([s EXCEPT !.file = file])
<1>1. s = [n_chunks |-> s.n_chunks, file |-> s.file]
  BY DEF IsSector
<1> DEFINE a == s.n_chunks
           b == s.file
<1>2. s = [n_chunks |-> a, file |-> b]
  BY <1>1
<1> HIDE DEF a, b
<1>3. [s EXCEPT !.file = file] = [n_chunks |-> a, file |-> file]
  BY <1>2
<1> QED BY <1>2, <1>3 DEF IsSector

\* Chunk k, counted from 1, as it is in the file.
InFile(s, k) == [i \in 1..CHUNK_SIZE |-> s.file.limbs[(k - 1) * CHUNK_SIZE + i]]
ReadsThere(s, k) == Read(s, k - 1) = InFile(s, k)

\* A read of full length finds what is in the file.
LEMMA FullRead ==
    ASSUME NEW s, NEW m \in Nat, Len(s.file.limbs) = m, NEW k \in Nat \ {0}
    PROVE  /\ Len(Read(s, k - 1)) = CHUNK_SIZE <=> (k - 1) * CHUNK_SIZE + CHUNK_SIZE <= m
           /\ Len(Read(s, k - 1)) = CHUNK_SIZE => ReadsThere(s, k)
<1> DEFINE from == (k - 1) * CHUNK_SIZE
           width == Max({0, Min({CHUNK_SIZE, m - from})})
           limbs == s.file.limbs
           limb(i) == limbs[from + i]
<1>1. CHUNK_SIZE \in Nat \ {0}
  BY FormulasAssumption
<1>2. from \in Nat
  <2>1. k - 1 \in Nat
    OBVIOUS
  <2> QED BY <1>1, <2>1
<1>3. Read(s, k - 1) = [i \in 1..width |-> limb(i)]
  BY DEF Read
<1> HIDE DEF limb
<1>4. width \in Nat /\ (width = CHUNK_SIZE <=> from + CHUNK_SIZE <= m)
  <2> HIDE DEF from
  <2>1. Min({CHUNK_SIZE, m - from}) = IF CHUNK_SIZE <= m - from THEN CHUNK_SIZE ELSE m - from
    BY <1>1, <1>2, MinOfTwo
  <2>2. Min({CHUNK_SIZE, m - from}) \in Int
    BY <1>1, <1>2, <2>1
  <2>3. width = IF 0 >= Min({CHUNK_SIZE, m - from}) THEN 0 ELSE Min({CHUNK_SIZE, m - from})
    BY <2>2, MaxOfTwo
  <2> HIDE DEF width
  <2> QED BY <1>1, <1>2, <2>1, <2>2, <2>3
<1> HIDE DEF width
<1>5. Len([i \in 1..width |-> limb(i)]) = width
  BY <1>4
<1>6. Len(Read(s, k - 1)) = width
  BY <1>3, <1>5
<1>7. width = CHUNK_SIZE => Read(s, k - 1) = [i \in 1..CHUNK_SIZE |-> limb(i)]
  BY <1>3
<1> QED BY <1>4, <1>6, <1>7 DEF limb, ReadsThere, InFile

\* A read as iter_chunks gives it.
LEMMA IterIsRead ==
    ASSUME NEW s, NEW k \in 1..s.n_chunks, Len(Read(s, k - 1)) = CHUNK_SIZE,
           Chunk(Read(s, k - 1))
    PROVE  iter_chunks(s)[k] = Read(s, k - 1)
<1> DEFINE data == Read(s, k - 1)
<1>1. iter_chunks(s)[k] = [i \in 1..CHUNK_SIZE |-> LimbAt(data, i)]
  BY DEF iter_chunks
<1>2. CHUNK_SIZE \in Nat /\ Chunk(data)
  BY FormulasAssumption
<1> HIDE DEF data
<1>3. \A i \in 1..CHUNK_SIZE : LimbAt(data, i) = data[i]
  BY <1>2 DEF LimbAt, Chunk
<1>4. iter_chunks(s)[k] = [i \in 1..CHUNK_SIZE |-> data[i]]
  BY <1>1, <1>3
<1>5. iter_chunks(s)[k] = data
  BY <1>2, <1>4 DEF Chunk
<1> QED BY <1>5 DEF data

\* All of a whole sector can be read.
LEMMA WholeReads ==
    ASSUME NEW s, NEW n, Whole(s, n), NEW k \in 1..n
    PROVE  /\ Len(Read(s, k - 1)) = CHUNK_SIZE
           /\ ReadsThere(s, k)
           /\ iter_chunks(s)[k] = Read(s, k - 1)
<1>1. n \in Nat /\ CHUNK_SIZE \in Nat \ {0} /\ s.n_chunks = n
  BY FormulasAssumption DEF Whole
<1>2. (k - 1) * CHUNK_SIZE + CHUNK_SIZE <= n * CHUNK_SIZE
  <2>1. k - 1 \in Int /\ n \in Int /\ k - 1 < n
    BY <1>1
  <2> QED BY <1>1, <2>1, ProductsAreOrdered
<1> DEFINE m == n * CHUNK_SIZE
           limb(i) == s.file.limbs[(k - 1) * CHUNK_SIZE + i]
<1>3. m \in Nat
  BY <1>1
<1>4. Len(s.file.limbs) = m
  BY DEF Whole
<1>5. k \in Nat \ {0}
  BY <1>1
<1> HIDE DEF m
<1>6. Len(Read(s, k - 1)) = CHUNK_SIZE
  BY <1>2, <1>3, <1>4, <1>5, FullRead DEF m
<1>7. ReadsThere(s, k)
  BY <1>3, <1>4, <1>5, <1>6, FullRead
<1>11. Read(s, k - 1) = [i \in 1..CHUNK_SIZE |-> limb(i)]
  BY <1>7 DEF ReadsThere, InFile
<1> HIDE DEF limb
<1>8. Chunk(Read(s, k - 1))
  BY <1>6, <1>11 DEF Chunk
<1>9. iter_chunks(s)[k] = Read(s, k - 1)
  BY <1>1, <1>6, <1>8, IterIsRead
<1> QED BY <1>6, <1>7, <1>9

\* A sector holds all that it was made of, in chunks that are full.
LEMMA FromBytesWhole ==
    ASSUME NEW limbs, Len(limbs) \in Nat
    PROVE  Whole(from_bytes(limbs), from_bytes(limbs).n_chunks)
<1> DEFINE n == (Len(limbs) + CHUNK_SIZE - 1) \div CHUNK_SIZE
           limb(i) == LimbAt(limbs, i)
           m == n * CHUNK_SIZE
           all == [i \in 1..m |-> limb(i)]
<1>1. CHUNK_SIZE \in Nat \ {0}
  BY FormulasAssumption
<1>2. n \in Nat
  <2>1. Len(limbs) + CHUNK_SIZE - 1 \in Nat
    BY <1>1
  <2> QED BY <1>1, <2>1
<1>3. from_bytes(limbs) = [n_chunks |-> n, file |-> File(all)]
  BY DEF from_bytes
<1> HIDE DEF n, limb
<1>4. m \in Nat
  BY <1>1, <1>2
<1> HIDE DEF m
<1>5. Len(all) = m
  BY <1>4
<1> HIDE DEF all
<1>6. /\ from_bytes(limbs).n_chunks = n /\ ~from_bytes(limbs).file.deleted
      /\ from_bytes(limbs).file.limbs = all
  BY <1>3 DEF File
<1>7. IsSector(from_bytes(limbs))
  BY <1>3, <1>6 DEF IsSector
<1> QED BY <1>2, <1>5, <1>6, <1>7 DEF Whole, m

\* Overwriting chunks leaves the sector as large as it was and the others alone.
LEMMA LossIsLocal ==
    ASSUME NEW s, NEW n, Whole(s, n), NEW indices \in SUBSET (0..n - 1)
    PROVE  /\ Whole(lose_chunks(s, indices), n)
           /\ \A k \in 1..n : k - 1 \notin indices =>
                 InFile(lose_chunks(s, indices), k) = InFile(s, k)
<1> DEFINE limbs == s.file.limbs
           m == n * CHUNK_SIZE
           ends == {(j + 1) * CHUNK_SIZE : j \in indices}
           limb(i) == IF (i - 1) \div CHUNK_SIZE \in indices THEN ZeroLimb ELSE LimbAt(limbs, i)
           after == lose_chunks(s, indices)
<1>1. CHUNK_SIZE \in Nat \ {0} /\ n \in Nat /\ Len(limbs) = m /\ IsSector(s)
  BY FormulasAssumption DEF Whole
<1>2. m \in Nat
  BY <1>1
<1>3. Max({Len(limbs)} \cup ends) = m
  <2>1. \A j \in indices : (j + 1) * CHUNK_SIZE \in Int /\ (j + 1) * CHUNK_SIZE <= m
    <3> TAKE j \in indices
    <3>1. j \in Int /\ n \in Int /\ j < n
      BY <1>1
    <3>2. j * CHUNK_SIZE + CHUNK_SIZE <= n * CHUNK_SIZE
      BY <1>1, <3>1, ProductsAreOrdered
    <3>3. (j + 1) * CHUNK_SIZE = j * CHUNK_SIZE + CHUNK_SIZE /\ (j + 1) * CHUNK_SIZE \in Int
      BY <1>1, <3>1
    <3> QED BY <3>2, <3>3
  <2>2. m \in {Len(limbs)} \cup ends /\ {Len(limbs)} \cup ends \in SUBSET Int
    <3>1. ends \in SUBSET Int
      BY <2>1
    <3> QED BY <1>1, <1>2, <3>1
  <2>3. \A y \in {Len(limbs)} \cup ends : y <= m
    BY <1>1, <1>2, <2>1
  <2> HIDE DEF ends, m, limbs
  <2> QED BY <2>2, <2>3, GreatestIsMax
<1>4. after = [s EXCEPT !.file = File([i \in 1..m |-> limb(i)])]
  BY <1>3 DEF lose_chunks
<1> HIDE DEF after, limb, m, ends
<1>5. /\ after.n_chunks = s.n_chunks /\ IsSector(after)
      /\ after.file = File([i \in 1..m |-> limb(i)])
  BY <1>1, <1>4, CountStays
<1>6. ~after.file.deleted /\ after.file.limbs = [i \in 1..m |-> limb(i)]
  BY <1>5 DEF File
<1>7. Len([i \in 1..m |-> limb(i)]) = m
  BY <1>2
<1>8. Whole(after, n)
  BY <1>1, <1>5, <1>6, <1>7 DEF Whole, m
<1>9. ASSUME NEW k \in 1..n, k - 1 \notin indices
      PROVE  InFile(after, k) = InFile(s, k)
  <2> DEFINE from == (k - 1) * CHUNK_SIZE
  <2>1. from \in Nat /\ from + CHUNK_SIZE <= m
    <3>1. k - 1 \in Int /\ n \in Int /\ k - 1 < n /\ k - 1 \in Nat
      BY <1>1
    <3>2. from \in Nat
      BY <1>1, <3>1
    <3> QED BY <1>1, <3>1, <3>2, ProductsAreOrdered DEF m
  <2>2. \A i \in 1..CHUNK_SIZE : limb(from + i) = limbs[from + i]
    <3> TAKE i \in 1..CHUNK_SIZE
    <3>1. i - 1 \in 0..CHUNK_SIZE - 1 /\ k - 1 \in Int
      BY <1>1
    <3>2. (from + i) - 1 = from + (i - 1) /\ (from + i) - 1 \in Int
      BY <1>1, <2>1
    <3>3. ((from + i) - 1) \div CHUNK_SIZE = k - 1
      BY <1>1, <3>1, <3>2, DivisionIsUnique
    <3> HIDE DEF from
    <3>4. from + i <= m
      BY <1>1, <1>2, <2>1
    <3>5. LimbAt(limbs, from + i) = limbs[from + i]
      BY <1>1, <3>4 DEF LimbAt
    <3> QED BY <1>9, <3>3, <3>5 DEF limb
  <2> HIDE DEF from
  <2>3. \A i \in 1..CHUNK_SIZE : from + i \in 1..m
    BY <1>1, <1>2, <2>1
  <2>4. \A i \in 1..CHUNK_SIZE : after.file.limbs[from + i] = limbs[from + i]
    BY <1>6, <2>2, <2>3
  <2> QED BY <2>4 DEF InFile, from
<1> QED BY <1>8, <1>9 DEF after

\* What is left of a file that was cut is where it was.
LEMMA CutIsLocal ==
    ASSUME NEW s, NEW n, Whole(s, n), NEW cut, cut = Truncate(s, CHUNK_SIZE),
           NEW k \in 1..n, Len(Read(cut, k - 1)) = CHUNK_SIZE
    PROVE  Read(cut, k - 1) = InFile(s, k)
<1> DEFINE limbs == s.file.limbs
           m == n * CHUNK_SIZE
           w == Min({CHUNK_SIZE, m})
           limb(i) == limbs[i]
<1>1. CHUNK_SIZE \in Nat \ {0} /\ n \in Nat /\ Len(limbs) = m /\ IsSector(s)
  BY FormulasAssumption DEF Whole
<1>2. m \in Nat
  BY <1>1
<1>3. w \in Nat
  <2> HIDE DEF m
  <2>1. w = IF CHUNK_SIZE <= m THEN CHUNK_SIZE ELSE m
    BY <1>1, <1>2, MinOfTwo
  <2> QED BY <1>1, <1>2, <2>1
<1>4. cut = [s EXCEPT !.file = File([i \in 1..w |-> limb(i)])]
  BY <1>1 DEF Truncate
<1> HIDE DEF limb, w, m
<1>5. cut.file = File([i \in 1..w |-> limb(i)])
  BY <1>1, <1>4, CountStays
<1>6. cut.file.limbs = [i \in 1..w |-> limb(i)]
  BY <1>5 DEF File
<1>7. Len([i \in 1..w |-> limb(i)]) = w
  BY <1>3
<1>8. Len(cut.file.limbs) = w
  BY <1>6, <1>7
<1>9. k \in Nat \ {0}
  BY <1>1
<1>10. (k - 1) * CHUNK_SIZE + CHUNK_SIZE <= w
  BY <1>3, <1>8, <1>9, FullRead
<1>11. ReadsThere(cut, k)
  BY <1>3, <1>8, <1>9, FullRead
<1> DEFINE from == (k - 1) * CHUNK_SIZE
<1>12. from \in Nat
  <2>1. k - 1 \in Nat
    BY <1>9
  <2> QED BY <1>1, <2>1
<1>13. \A i \in 1..CHUNK_SIZE : cut.file.limbs[from + i] = limbs[from + i]
  <2> HIDE DEF from
  <2>1. from + CHUNK_SIZE <= w
    BY <1>10 DEF from
  <2>2. \A i \in 1..CHUNK_SIZE : from + i \in 1..w
    BY <1>1, <1>3, <1>12, <2>1
  <2> QED BY <1>6, <2>2 DEF limb
<1>14. InFile(cut, k) = InFile(s, k)
  BY <1>13 DEF InFile
<1> QED BY <1>11, <1>14 DEF ReadsThere

\* LimbAt least the fraction asked for is overwritten: rounding the step down loses more.
LEMMA EnoughAreLost ==
    ASSUME NEW n \in Nat, NEW p \in Nat, NEW q \in Nat \ {0}, p <= q
    PROVE  Cardinality(LostIndices(n, p, q)) * q >= n * p
<1> DEFINE step == LossStep(p, q)
           L == LostIndices(n, p, q)
           count == Cardinality(L)
<1>1. L = {i \in 0..n - 1 : i % step = 0}
  BY DEF LostIndices
<1>2. IsFiniteSet(L) /\ count \in Nat
  <2>1. IsFiniteSet(0..n - 1) /\ L \subseteq 0..n - 1
    BY <1>1, FS_Interval
  <2> HIDE DEF L
  <2>2. IsFiniteSet(L)
    BY <2>1, FS_Subset
  <2> QED BY <2>2, FS_CardinalityType
<1> HIDE DEF L
<1>3. ASSUME p = 0
      PROVE  count * q >= n * p
  <2>1. n * p = 0
    BY <1>3
  <2> HIDE DEF count
  <2>2. count * q >= 0
    BY <1>2
  <2> QED BY <2>1, <2>2
<1>4. ASSUME p # 0
      PROVE  count * q >= n * p
  <2>1. PICK d \in Int, r \in 0..p - 1 : DivMod(q, p, d, r) /\ q = d * p + r
    <3>1. q \in Int /\ p \in Nat \ {0}
      BY <1>4
    <3> QED BY <3>1, Division
  <2>2. d >= 1
    <3> SUFFICES ASSUME d < 1 PROVE FALSE
      BY <2>1
    <3>1. d * p + p <= 1 * p
      BY <1>4, <2>1, ProductsAreOrdered
    <3>2. d * p \in Int /\ r < p
      BY <2>1
    <3> QED BY <2>1, <3>1, <3>2
  <2>3. step = d
    <3>1. step = Max({1, q \div p})
      BY <1>4 DEF LossStep
    <3>2. q \div p = d
      BY <2>1 DEF DivMod
    <3>3. step = Max({1, d})
      BY <3>1, <3>2
    <3> HIDE DEF step
    <3> QED BY <2>1, <2>2, <3>3, MaxOfTwo
  <2> HIDE DEF step
  <2>4. d \in Nat \ {0} /\ d * p <= q /\ d * p \in Nat
    <3>1. d \in Nat \ {0}
      BY <2>1, <2>2
    <3>2. d * p \in Nat
      BY <3>1
    <3> QED BY <2>1, <3>1, <3>2
  <2>5. PICK c \in Int, e \in 0..d - 1 : n + d - 1 = c * d + e
    <3>1. n + d - 1 \in Int
      BY <2>4
    <3> QED BY <2>4, <3>1, Division
  <2>6. c \in Nat /\ c * d >= n /\ c * d \in Nat
    <3>1. c * d \in Int /\ c * d >= n
      BY <2>4, <2>5
    <3>2. c >= 0
      <4> SUFFICES ASSUME c < 0 PROVE FALSE
        BY <2>5
      <4>1. c * d + d <= 0 * d
        BY <2>4, <2>5, ProductsAreOrdered
      <4>2. 0 * d = 0
        BY <2>4
      <4> QED BY <2>4, <3>1, <4>1, <4>2
    <3> QED BY <2>5, <3>1, <3>2
  <2> DEFINE list == [i \in 1..c |-> (i - 1) * d]
  <2>7. \A i \in 1..c : (i - 1) * d \in L
    <3> TAKE i \in 1..c
    <3>1. i - 1 \in Nat /\ i - 1 < c
      BY <2>6
    <3>2. (i - 1) * d + d <= c * d
      BY <2>4, <2>6, <3>1, ProductsAreOrdered
    <3>3. (i - 1) * d \in Nat
      BY <2>4, <3>1
    <3>4. (i - 1) * d < n
      BY <2>4, <2>5, <2>6, <3>2, <3>3
    <3>5. ((i - 1) * d) % d = 0
      <4>1. (i - 1) * d = (i - 1) * d + 0 /\ (i - 1) * d \in Int /\ i - 1 \in Int /\ 0 \in 0..d - 1
        BY <2>4, <3>1, <3>3
      <4> QED BY <2>4, <4>1, DivisionIsUnique
    <3> QED BY <1>1, <2>3, <3>3, <3>4, <3>5
  <2>8. list \in [1..c -> L]
    BY <2>7
  <2>9. \A j, k \in 1..c : list[j] = list[k] => j = k
    <3> SUFFICES ASSUME NEW j \in 1..c, NEW k \in 1..c, (j - 1) * d = (k - 1) * d, j # k
                 PROVE  FALSE
      OBVIOUS
    <3>1. j - 1 \in Int /\ k - 1 \in Int /\ (j - 1 < k - 1 \/ k - 1 < j - 1)
      BY <2>6
    <3>2. (j - 1) * d + d <= (k - 1) * d \/ (k - 1) * d + d <= (j - 1) * d
      BY <2>4, <3>1, ProductsAreOrdered
    <3>3. (j - 1) * d \in Int
      BY <2>4, <3>1
    <3> QED BY <2>4, <3>2, <3>3
  <2> HIDE DEF list
  <2>10. Cardinality(ToSet(list)) = c
    BY <2>6, <2>8, <2>9, ListedOnce
  <2>11. ToSet(list) \subseteq L
    BY <2>8 DEF ToSet
  <2>12. c <= count
    BY <1>2, <2>10, <2>11, FS_Subset
  <2> HIDE DEF count
  <2> QED
    <3>1. n * p <= (c * d) * p
      BY <2>6
    <3>2. (c * d) * p = c * (d * p)
      BY <2>4, <2>6
    <3>3. c * (d * p) <= c * q
      BY <2>4, <2>6
    <3>4. c * q <= count * q
      BY <1>2, <2>6, <2>12
    <3>5. n * p \in Int /\ (c * d) * p \in Int /\ c * q \in Int /\ count * q \in Int
      BY <1>2, <2>4, <2>6
    <3> QED BY <3>1, <3>2, <3>3, <3>4, <3>5
<1>5. count * q >= n * p
  BY <1>3, <1>4
<1> QED BY <1>5, Zenon DEF L

\* Two sectors of n chunks: sealing tells whether they read alike, and where not.
Parted(s, t, replica, draws) ==
    \A j \in DOMAIN iter_chunks(t) :
        {k \in DOMAIN iter_chunks(t) : iter_chunks(s)[k] # iter_chunks(t)[k]} \cap 1..j # {} =>
            /\ s_chain(iter_chunks(s), replica)[j] # s_chain(iter_chunks(t), replica)[j]
            /\ s_chain_wide(iter_chunks(s), replica, draws)[j]
                  # s_chain_wide(iter_chunks(t), replica, draws)[j]

\* Sealing what is read now tells whether it is what was sealed.
LEMMA SealingTells ==
    ASSUME NEW n \in Nat, NEW s, NEW t, s.n_chunks = n, t.n_chunks = n, NEW replica,
           NEW draws, Numbers(draws)
    PROVE  /\ SeenAsLost(s, replica, sealed_root(iter_chunks(t), replica))
                 <=> {k \in DOMAIN iter_chunks(t) : iter_chunks(s)[k] # iter_chunks(t)[k]} # {}
           /\ Parted(s, t, replica, draws)
<1> DEFINE c == iter_chunks(s)
           d == iter_chunks(t)
<1>1. Chunks(c, n) /\ Chunks(d, n)
  BY IterIsChunks
<1> HIDE DEF c, d
<1>2. DOMAIN d = 1..n
  BY <1>1 DEF Chunks
<1>3. sealed_root(c, replica) # sealed_root(d, replica) <=> {k \in DOMAIN d : c[k] # d[k]} # {}
  <2>1. ASSUME sealed_root(c, replica) # sealed_root(d, replica),
               {k \in DOMAIN d : c[k] # d[k]} = {}
        PROVE  FALSE
    <3>1. \A k \in 1..n : c[k] = d[k]
      BY <1>2, <2>1
    <3>2. c = d
      BY <1>1, <3>1 DEF Chunks
    <3> QED BY <2>1, <3>2
  <2>2. ASSUME sealed_root(c, replica) = sealed_root(d, replica)
        PROVE  c = d
    BY <1>1, <2>2, SealBinds
  <2> QED BY <2>1, <2>2
<1>4. ASSUME NEW j \in DOMAIN d, {k \in DOMAIN d : c[k] # d[k]} \cap 1..j # {}
      PROVE  /\ s_chain(c, replica)[j] # s_chain(d, replica)[j]
             /\ s_chain_wide(c, replica, draws)[j] # s_chain_wide(d, replica, draws)[j]
  <2>1. PICK k \in 1..n : c[k] # d[k] /\ k \in 1..j
    BY <1>2, <1>4
  <2>2. j \in k..n
    BY <1>2, <2>1
  <2>3. s_chain(c, replica)[j] # s_chain(d, replica)[j]
    BY <1>1, <2>1, <2>2, SealsPart
  <2>4. s_chain_wide(c, replica, draws)[j] # s_chain_wide(d, replica, draws)[j]
    BY <1>1, <2>1, <2>2, WidePart
  <2> QED BY <2>3, <2>4
<1> QED BY <1>3, <1>4 DEF Parted, SeenAsLost, c, d

\* The sectors of the property.
LEMMA LossesAreSeen == input \in Inputs => LossIsSeen
<1> SUFFICES ASSUME input \in Inputs, input.kind = "sector" PROVE LossIsSeen
  BY DEF LossIsSeen
<1>1. input \in SectorInputs
  BY KindOfInput
<1> DEFINE limbs == input.limbs
           p == input.lose[1]
           q == input.lose[2]
<1>2. Len(limbs) \in Nat
  <2>1. limbs \in BoundedLists(Limbs, MAX_LIMBS)
    BY <1>1 DEF SectorInputs
  <2>2. PICK k \in 0..MAX_LIMBS : limbs \in [1..k -> Limbs]
    BY <2>1 DEF BoundedLists
  <2>3. k \in Nat
    BY FormulasAssumption
  <2> HIDE DEF limbs
  <2>4. limbs \in Seq(Limbs)
    BY <2>2, <2>3
  <2> QED BY <2>4
<1>3. p \in Nat /\ q \in Nat \ {0} /\ p <= q
  <2>1. input.lose \in FRACTIONS
    BY <1>1 DEF SectorInputs
  <2>2. input.lose \in Nat \X (Nat \ {0}) /\ p <= q
    BY <2>1, FormulasAssumption
  <2> QED BY <2>2
<1> HIDE DEF p, q, limbs
<1> DEFINE sector == from_bytes(limbs)
           n == sector.n_chunks
           chunks == iter_chunks(sector)
           replica == derive_replica_id("p", "d", "root", "beacon")
           other == derive_replica_id("p", "e", "root", "beacon")
           draws == <<7, 5, 0>>
           L == LostIndices(n, p, q)
           lost == lose_fraction(sector, p, q)
           cut == Truncate(sector, CHUNK_SIZE)
           both == lose_fraction(cut, 1, 2)
           Changed(s) == {k \in DOMAIN chunks : iter_chunks(s)[k] # chunks[k]}
<1>4. Whole(sector, n)
  BY <1>2, FromBytesWhole
<1> HIDE DEF sector
<1>5. n \in Nat /\ IsSector(sector)
  BY <1>4 DEF Whole
<1>6. Chunks(chunks, n)
  BY <1>5, IterIsChunks
<1>7. lost = lose_chunks(sector, L)
  BY DEF lose_fraction
<1>8. L \in SUBSET (0..n - 1)
  BY DEF LostIndices
<1>9. lost.n_chunks = n /\ cut.n_chunks = n /\ both.n_chunks = n
  <2>1. lost.n_chunks = n
    BY <1>5, CountStays DEF lose_fraction, lose_chunks
  <2>2. cut.n_chunks = n /\ IsSector(cut)
    BY <1>5, CountStays DEF Truncate
  <2> HIDE DEF cut
  <2>3. both.n_chunks = n
    BY <2>2, CountStays DEF lose_fraction, lose_chunks
  <2> QED BY <2>1, <2>2, <2>3
<1>10. Numbers(draws)
  BY DEF Numbers
<1> HIDE DEF lost, cut, both, n, draws, replica
<1>11. \A s \in {lost, cut, both} :
          /\ SeenAsLost(s, replica, sealed_root(chunks, replica)) <=> Changed(s) # {}
          /\ Parted(s, sector, replica, draws)
  BY <1>5, <1>9, <1>10, SealingTells DEF n
<1>12. DOMAIN chunks = 1..n
  BY <1>6 DEF Chunks
<1>13. \A k \in DOMAIN chunks : CanRead(sector, k - 1) /\ ~CanRead(delete(sector), k - 1)
  <2> TAKE k \in DOMAIN chunks
  <2>1. k \in 1..n /\ k - 1 \in 0..n - 1
    BY <1>5, <1>12
  <2>2. CanRead(sector, k - 1)
    BY <1>4, <2>1, WholeReads DEF CanRead, Whole, n
  <2>3. delete(sector).file.deleted
    BY <1>5, CountStays DEF delete, Gone
  <2> QED BY <2>2, <2>3 DEF CanRead
<1>14. \A k \in DOMAIN chunks : Read(sector, k - 1) = InFile(sector, k) /\ chunks[k] = Read(sector, k - 1)
  BY <1>4, <1>12, WholeReads DEF ReadsThere
<1>15. \A k \in DOMAIN chunks : CanRead(cut, k - 1) => Read(cut, k - 1) = chunks[k]
  <2> SUFFICES ASSUME NEW k \in DOMAIN chunks, CanRead(cut, k - 1)
               PROVE  Read(cut, k - 1) = chunks[k]
    OBVIOUS
  <2>1. Len(Read(cut, k - 1)) = CHUNK_SIZE /\ k \in 1..n
    BY <1>12 DEF CanRead
  <2>2. cut = Truncate(sector, CHUNK_SIZE)
    BY DEF cut
  <2>3. Read(cut, k - 1) = InFile(sector, k)
    BY <1>4, <2>1, <2>2, CutIsLocal
  <2> QED BY <1>14, <2>3
<1>16. \A k \in DOMAIN chunks : k - 1 \notin L => Read(lost, k - 1) = chunks[k]
  <2> SUFFICES ASSUME NEW k \in DOMAIN chunks, k - 1 \notin L
               PROVE  Read(lost, k - 1) = chunks[k]
    OBVIOUS
  <2> HIDE DEF L
  <2>1. Whole(lost, n) /\ InFile(lost, k) = InFile(sector, k)
    BY <1>4, <1>7, <1>8, <1>12, LossIsLocal
  <2>2. Read(lost, k - 1) = InFile(lost, k)
    BY <1>12, <2>1, WholeReads DEF ReadsThere
  <2> QED BY <1>14, <2>1, <2>2
<1>17. Cardinality(L) * q >= n * p
  BY <1>3, <1>5, EnoughAreLost
<1>18. chunks # << >> => sealed_root(chunks, other) # sealed_root(chunks, replica)
  <2>1. other # replica
    BY DEF derive_replica_id, replica
  <2> HIDE DEF other
  <2>2. ASSUME chunks # << >>, sealed_root(chunks, other) = sealed_root(chunks, replica)
        PROVE  FALSE
    <3>1. n # 0
      <4> SUFFICES ASSUME n = 0 PROVE FALSE
        OBVIOUS
      <4>1. chunks = [k \in 1..0 |-> chunks[k]]
        BY <1>6 DEF Chunks
      <4>2. 1..0 = {}
        OBVIOUS
      <4> HIDE DEF chunks
      <4>3. chunks = << >>
        BY <4>1, <4>2
      <4> QED BY <2>2, <4>3
    <3> HIDE DEF chunks
    <3>2. other = replica
      BY <1>5, <1>6, <2>2, <3>1, SealBinds
    <3> QED BY <2>1, <3>2
  <2> QED BY <2>2
<1>19. \A s \in {lost, cut, both} : \A j \in DOMAIN chunks : Changed(s) \cap 1..j # {} =>
          /\ s_chain(iter_chunks(s), replica)[j] # s_chain(iter_chunks(sector), replica)[j]
          /\ s_chain_wide(iter_chunks(s), replica, draws)[j]
                # s_chain_wide(iter_chunks(sector), replica, draws)[j]
  BY <1>11 DEF Parted
<1> HIDE DEF L, other, Changed
<1> QED BY <1>11, <1>13, <1>15, <1>16, <1>17, <1>18, <1>19, Zenon
           DEF LossIsSeen, sector, n, L, other, Changed, lost, cut, both, draws, replica, limbs, p, q

-----------------------------------------------------------------------------
(***************************************************************************)
(* The theorems.                                                            *)
(***************************************************************************)
LEMMA ChallengeInput ==
    ASSUME input \in ChallengeInputs
    PROVE  \E C \in Nat \ {0} :
              /\ input.n \in Nat \ {0} /\ input.offset \in Nat
              /\ input.draw \in [1..C -> Nat] /\ Len(input.draw) = C
<1>1. PICK n_bytes \in 0..MAX_BYTES : input \in ChallengesOf(RealChunks(n_bytes))
  BY DEF ChallengeInputs
<1>2. PICK C \in 1..MAX_CHALLENGES :
        /\ input.n = RealChunks(n_bytes) /\ input.offset \in {0, 5}
        /\ input.draw \in [1..C -> 0..Bucket(RealChunks(n_bytes), C)]
  BY <1>1 DEF ChallengesOf
<1>3. C \in Nat \ {0} /\ n_bytes \in Nat
  BY FormulasAssumption
<1>4. input.n \in Nat \ {0}
  <2> DEFINE m == (n_bytes + CHUNK_SIZE - 1) \div CHUNK_SIZE
  <2>1. m \in Int
    BY <1>3, FormulasAssumption
  <2>2. input.n = Max({1, m})
    BY <1>2 DEF RealChunks, prepare
  <2> HIDE DEF m
  <2> QED BY <2>1, <2>2, MaxOfTwo
<1>5. input.draw \in [1..C -> Nat]
  <2> DEFINE b == Bucket(input.n, C)
  <2>1. b \in Nat
    BY <1>3, <1>4, BucketIsPositive
  <2>2. input.draw \in [1..C -> 0..b]
    BY <1>2
  <2> HIDE DEF b
  <2> QED BY <2>1, <2>2
<1> QED BY <1>2, <1>3, <1>4, <1>5

\* The challenges of an input, together.
LEMMA ChallengesCatch == input \in Inputs => BlockDeletionIsCaught
<1> SUFFICES ASSUME input \in Inputs, input.kind = "challenge"
             PROVE  BlockDeletionIsCaught
  BY DEF BlockDeletionIsCaught
<1>0. input \in ChallengeInputs
  BY KindOfInput
<1> DEFINE n == input.n
           offset == input.offset
           draw == input.draw
<1>1. PICK C \in Nat \ {0} :
        /\ n \in Nat \ {0} /\ offset \in Nat /\ draw \in [1..C -> Nat] /\ Len(draw) = C
  BY <1>0, ChallengeInput
<1> DEFINE bucket == Bucket(n, C)
           tail == IF n < C THEN 0 ELSE n % C
           hits == spread_challenge(draw, C, offset, n)
           chunks == offset..offset + n - 1
           longest == Max({2 * bucket - 2, bucket - 1 + tail})
<1>2. ToSet(hits) \subseteq chunks
  <2>1. hits \in [1..C -> chunks]
    BY <1>1, ChallengesAreChunks
  <2> HIDE DEF hits, chunks
  <2> QED BY <2>1 DEF ToSet
<1>3. n >= C => Cardinality(ToSet(hits)) = C
  BY <1>1, ChallengesDiffer
<1>4. ASSUME NEW a \in chunks, a + longest \in chunks
      PROVE  (a..a + longest) \cap ToSet(hits) # {}
  <2>1. CASE n < C
    <3>1. bucket = 1 /\ tail = 0
      BY <1>1, <2>1, BucketOfFew
    <3>2. longest = 0
      BY <3>1, MaxOfTwo
    <3>3. a \in ToSet(hits)
      BY <1>1, <2>1, FewAreAllHit
    <3>4. a \in Int
      BY <1>1
    <3> HIDE DEF hits, longest
    <3> QED BY <3>2, <3>3, <3>4
  <2>2. CASE n >= C
    <3>1. PICK b \in Nat \ {0}, t \in 0..C - 1 : SharedOut(n, C, b, t)
      BY <1>1, <2>2, BucketFits, Zenon
    <3>2. bucket = b /\ tail = t
      <4>1. ~(n < C)
        BY <1>1, <2>2
      <4> QED BY <3>1, <4>1, Zenon DEF SharedOut
    <3>3. longest = Max({2 * b - 2, b - 1 + t})
      BY <3>2, Zenon
    <3>4. longest \in Nat /\ 2 * b - 2 <= longest /\ b - 1 + t <= longest
      <4> HIDE DEF longest
      <4> QED BY <3>3, MaxOfTwo
    <3>5. t \in Nat /\ a + longest <= offset + n - 1
      <4> HIDE DEF longest
      <4> QED BY <1>1, <1>4, <3>4
    <3> HIDE DEF longest
    <3>6. PICK k \in 1..C : hits[k] \in a..a + longest
      BY <1>1, <3>1, <3>4, <3>5, HolesAreHit, Zenon
    <3>7. hits \in [1..C -> chunks]
      BY <1>1, ChallengesAreChunks
    <3> HIDE DEF hits, chunks
    <3> QED BY <3>6, <3>7 DEF ToSet
  <2>3. n < C \/ n >= C
    BY <1>1
  <2> QED BY <2>1, <2>2, <2>3
<1> QED BY <1>1, <1>2, <1>3, <1>4 DEF BlockDeletionIsCaught

\* The slot of a height, together.
LEMMA SlotsOfHeights == input \in Inputs => OneSlotPerHeight
<1> SUFFICES ASSUME input \in Inputs, input.kind = "height"
             PROVE  OneSlotPerHeight
  BY DEF OneSlotPerHeight
<1>1. input \in HeightInputs
  BY KindOfInput
<1> DEFINE height == input.height
           slot == slot_of(height)
           epoch == slot.epoch
           mine == slot_at(epoch, derive_deadline(input.hash))
           D == DEADLINES_PER_EPOCH
<1>2. height \in Nat /\ GENESIS_HEIGHT <= height
  <2>1. /\ MAX_EPOCH + 1 \in Nat /\ GENESIS_HEIGHT \in Nat /\ 0 \in DeadlineIdxs
    BY FormulasAssumption, ClockAssumption DEF DeadlineIdxs
  <2> DEFINE end == OpenHeight(SlotNumber(MAX_EPOCH + 1, 0))
  <2>2. end \in Nat
    BY <2>1, SlotFields
  <2>3. height \in GENESIS_HEIGHT..end - 1
    BY <1>1 DEF HeightInputs
  <2> HIDE DEF end, height
  <2> QED BY <2>1, <2>2, <2>3
<1>3. PICK e \in Nat, d \in DeadlineIdxs :
        /\ slot = slot_at(e, d)
        /\ OpenHeight(SlotNumber(e, d)) <= height
        /\ height < OpenHeight(SlotNumber(e, d)) + DEADLINE_LEN_BLOCKS
  BY <1>2, SlotOfHeight
<1> DEFINE opens == OpenHeight(SlotNumber(e, d))
<1>4. /\ slot.epoch = e /\ slot.open_height = opens /\ opens \in Nat
      /\ opens < slot.window_start
  BY <1>3, SlotFields
<1>5. /\ slot.open_height <= height
      /\ height < slot.open_height + DEADLINE_LEN_BLOCKS
  BY <1>3, <1>4
<1>6. ASSUME NEW f \in 0..MAX_EPOCH, NEW g \in DeadlineIdxs
      PROVE  /\ in_submit_window(slot_at(f, g), height) => slot_at(f, g) = slot
             /\ slot_at(f, g) # slot =>
                   /\ beacon(slot_at(f, g)) # beacon(slot)
                   /\ ToSet(beacon_heights(slot_at(f, g))) \cap ToSet(beacon_heights(slot)) = {}
  <2> DEFINE other == slot_at(f, g)
             there == OpenHeight(SlotNumber(f, g))
  <2>1. f \in Nat
    BY FormulasAssumption
  <2>2. \/ other = slot
        \/ opens + DEADLINE_LEN_BLOCKS <= there
        \/ there + DEADLINE_LEN_BLOCKS <= opens
    BY <1>3, <2>1, SlotsApart
  <2>3. /\ there \in Nat /\ there < other.window_start
        /\ other.window_end <= there + DEADLINE_LEN_BLOCKS
        /\ other.window_start = there + BEACON_DELAY_BLOCKS
        /\ other.window_end = there + BEACON_DELAY_BLOCKS + SUBMIT_WINDOW_BLOCKS
    BY <2>1, SlotFields
  <2>4. /\ \A h \in ToSet(beacon_heights(slot)) :
              h \in Int /\ h <= opens /\ opens - BEACON_MIX_BLOCKS < h
        /\ beacon(slot)[2][1] = opens
    BY <1>3, BeaconBlocks
  <2>5. /\ \A h \in ToSet(beacon_heights(other)) :
              h \in Int /\ h <= there /\ there - BEACON_MIX_BLOCKS < h
        /\ beacon(other)[2][1] = there
    BY <2>1, BeaconBlocks
  <2>6. /\ DEADLINE_LEN_BLOCKS \in Nat \ {0} /\ BEACON_MIX_BLOCKS \in Nat
        /\ BEACON_MIX_BLOCKS <= DEADLINE_LEN_BLOCKS
        /\ BEACON_DELAY_BLOCKS \in Nat /\ SUBMIT_WINDOW_BLOCKS \in Nat
    BY ClockAssumption, BeaconAssumption
  <2> HIDE DEF opens, there, slot, other, height
  <2>7. other # slot => opens # there
    BY <1>4, <2>2, <2>3, <2>6
  <2>8. other # slot => beacon(other) # beacon(slot)
    BY <2>4, <2>5, <2>7
  <2>9. other # slot =>
          ToSet(beacon_heights(other)) \cap ToSet(beacon_heights(slot)) = {}
    BY <1>4, <2>2, <2>3, <2>4, <2>5, <2>6
  <2>10. in_submit_window(other, height) => there <= height /\ height < there + DEADLINE_LEN_BLOCKS
    BY <1>2, <2>3, <2>6 DEF in_submit_window
  <2>11. opens <= height /\ height < opens + DEADLINE_LEN_BLOCKS
    BY <1>3 DEF opens
  <2>12. in_submit_window(other, height) => other = slot
    BY <1>2, <1>4, <2>2, <2>3, <2>6, <2>10, <2>11
  <2> QED BY <2>8, <2>9, <2>12 DEF other
<1>7. \A h \in ToSet(beacon_heights(slot)) : h < slot.window_start
  <2>1. /\ \A h \in ToSet(beacon_heights(slot)) : h \in Int /\ h <= opens
        /\ slot.window_start = opens + BEACON_DELAY_BLOCKS /\ BEACON_DELAY_BLOCKS \in Nat \ {0}
    BY <1>3, BeaconBlocks, SlotFields, ClockAssumption
  <2> HIDE DEF slot, opens
  <2> QED BY <1>4, <2>1
<1>8. derive_deadline(input.hash) \in DeadlineIdxs
  <2> DEFINE hash == input.hash
  <2>1. D \in Nat \ {0}
    BY ClockAssumption
  <2>2. hash \in 0..D
    BY <1>1 DEF HeightInputs
  <2>3. derive_deadline(hash) = hash % Max({1, D})
    BY DEF derive_deadline
  <2>4. DeadlineIdxs = 0..D - 1
    BY DEF DeadlineIdxs
  <2> HIDE DEF hash, D
  <2>5. Max({1, D}) = D
    BY <2>1, MaxOfTwo
  <2>6. hash % D \in 0..D - 1
    BY <2>1, <2>2
  <2>7. derive_deadline(hash) \in DeadlineIdxs
    BY <2>3, <2>4, <2>5, <2>6
  <2> QED BY <2>7 DEF hash
<1>9. \A s \in {slot, mine} :
        /\ epoch_bounds(epoch)[1] <= s.open_height
        /\ s.window_end <= epoch_bounds(epoch)[2]
  BY <1>3, <1>4, <1>8, SlotsInEpoch
<1>10. epoch_bounds(epoch)[2] <= epoch_bounds(epoch + 1)[1]
  BY <1>4, SlotsInEpoch
<1> HIDE DEF slot, height
<1> QED BY <1>5, <1>6, <1>7, <1>9, <1>10, Zenon DEF OneSlotPerHeight, slot, height

\* Challenges fall on distinct chunks of the client and hit every hole longer than
\* two buckets or a bucket and the remainder, for every size of the data, every
\* number of challenges and whatever the beacon draws.
THEOREM DeletionsAreCaught == Spec => []BlockDeletionIsCaught
BY InputsOnly, ChallengesCatch, PTL

\* Heights, slots, windows, beacons and epochs fit together for all heights and
\* deals, whatever the lengths in the profile; and for all times, what the report
\* says of the window agrees with the inequality itself, and a worker rests for as
\* long as it works.
THEOREM ScheduleHolds == Spec => []ScheduleIsSound
<1>1. input \in Inputs => ScheduleIsSound
  BY SlotsOfHeights, TimesOfWindow DEF ScheduleIsSound
<1> QED BY <1>1, InputsOnly, PTL

\* A registry passes only with the entries the contract logged, for logs of every
\* length and whatever their kinds and words; and every deal of it has its one
\* cell, for all numbers of deals, deadlines and shards.
THEOREM RegistriesBind == Spec => []RegistryBindsTheEpoch
<1>1. input \in Inputs => RegistryBindsTheEpoch
  BY RegistriesAreBound, CellsOfDeals DEF RegistryBindsTheEpoch
<1> QED BY <1>1, InputsOnly, PTL

\* Congestion starts just above seven tenths, for windows of every length, and
\* trips the breaker; a small network is not voided without it.
THEOREM CongestionIsSeventyPercent == Spec => []SeventyPercent
BY InputsOnly, SevenTenths, PTL

\* Roots, paths and slot trees bind the leaves, for data of every size and slot
\* trees of every capacity.
THEOREM TreesBind == Spec => []MerkleTreesBind
BY InputsOnly, TreesAreBound, PTL

\* What was lost is seen by sealing again, whatever the data, the size of the
\* sector and the fraction lost; the rest is still read as it was.
THEOREM LossIsNoticed == Spec => []LossIsSeen
BY InputsOnly, LossesAreSeen, PTL

-----------------------------------------------------------------------------
(***************************************************************************)
(* Byte layouts.                                                            *)
(***************************************************************************)
\* from says where the first n fields of a layout begin, and where the next would.
Packed(from, layout, n) ==
    from = [k \in 1..n + 1 |-> IF k = 1 THEN 0 ELSE from[k - 1] + layout[k - 1][2]]

\* There are such places for any number of fields.
LEMMA PackingsExist ==
    ASSUME NEW layout
    PROVE  \A n \in Nat : \E from : Packed(from, layout, n)
<1> DEFINE S == {n \in Nat : \E from : Packed(from, layout, n)}
<1>1. 0 \in S
  <2> DEFINE from == [k \in 1..0 + 1 |-> 0]
  <2>1. Packed(from, layout, 0)
    BY DEF Packed
  <2> HIDE DEF from
  <2> QED BY <2>1
<1>2. ASSUME NEW n \in Nat, n \in S
      PROVE  n + 1 \in S
  <2>1. PICK from : Packed(from, layout, n)
    BY <1>2
  <2> DEFINE last == from[n + 1] + layout[n + 1][2]
             longer == [k \in 1..n + 2 |-> IF k = n + 2 THEN last ELSE from[k]]
  <2>2. /\ \A k \in 1..n + 1 : longer[k] = from[k]
        /\ longer[n + 2] = last
        /\ longer = [k \in 1..n + 2 |-> longer[k]]
    OBVIOUS
  <2>3. ASSUME NEW k \in 1..n + 2
        PROVE  longer[k] = IF k = 1 THEN 0 ELSE longer[k - 1] + layout[k - 1][2]
    <3>1. CASE k = n + 2
      <4>1. longer[k - 1] = from[n + 1] /\ k # 1 /\ k - 1 = n + 1
        BY <2>2, <3>1
      <4> HIDE DEF longer
      <4> QED BY <2>2, <3>1, <4>1
    <3>2. CASE k \in 1..n + 1
      <4>1. from[k] = IF k = 1 THEN 0 ELSE from[k - 1] + layout[k - 1][2]
        BY <2>1, <3>2 DEF Packed
      <4>2. longer[k] = from[k] /\ (k # 1 => longer[k - 1] = from[k - 1])
        BY <2>2, <3>2
      <4> HIDE DEF longer
      <4> QED BY <4>1, <4>2
    <3> QED BY <3>1, <3>2
  <2> HIDE DEF longer
  <2>4. n + 1 + 1 = n + 2
    OBVIOUS
  <2>5. Packed(longer, layout, n + 1)
    BY <2>2, <2>3, <2>4 DEF Packed
  <2> QED BY <2>5
<1> HIDE DEF S
<1>3. Nat \subseteq S
  BY <1>1, <1>2, NumberInduction, Zenon
<1> QED BY <1>3 DEF S

\* The places of a layout are these.
LEMMA OffsetsArePacked ==
    ASSUME NEW layout, Len(layout) \in Nat
    PROVE  Packed(Offsets(layout), layout, Len(layout))
<1> DEFINE F(from) == [k \in 1..Len(layout) + 1 |->
                          IF k = 1 THEN 0 ELSE from[k - 1] + layout[k - 1][2]]
<1>1. \E from : from = F(from)
  <2>1. \E from : Packed(from, layout, Len(layout))
    BY PackingsExist
  <2> QED BY <2>1 DEF Packed
<1>2. Offsets(layout) = CHOOSE from : from = F(from)
  BY DEF Offsets
<1>3. Offsets(layout) = F(Offsets(layout))
  <2> HIDE DEF F
  <2> QED BY <1>1, <1>2
<1> QED BY <1>3 DEF Packed

\* A field begins where the one before it ends.
LEMMA FieldFollows ==
    ASSUME NEW layout, NEW n \in Nat, Len(layout) = n
    PROVE  /\ Offset(layout, 1) = 0
           /\ \A k \in 1..n : Offset(layout, k + 1) = Offset(layout, k) + layout[k][2]
           /\ Size(layout) = Offset(layout, n + 1)
<1> DEFINE from == Offsets(layout)
<1>1. from = [k \in 1..n + 1 |-> IF k = 1 THEN 0 ELSE from[k - 1] + layout[k - 1][2]]
  BY OffsetsArePacked DEF Packed
<1> HIDE DEF from
<1>2. from[1] = 0
  BY <1>1
<1>3. \A k \in 1..n : from[k + 1] = from[k] + layout[k][2]
  <2> SUFFICES ASSUME NEW k \in 1..n
               PROVE  from[k + 1] = from[k] + layout[k][2]
    OBVIOUS
  <2>1. k + 1 \in 1..n + 1 /\ k + 1 # 1 /\ k + 1 - 1 = k
    OBVIOUS
  <2> QED BY <1>1, <2>1
<1> QED BY <1>2, <1>3 DEF from, Offset, Size

\* The public values, field by field.
LEMMA PublicValuesAt ==
    /\ Len(PublicValues) = 13 /\ DOMAIN PublicValues = 1..13
    /\ Offset(PublicValues, 1) = 0 /\ Offset(PublicValues, 2) = 8 /\ Offset(PublicValues, 3) = 40
    /\ Offset(PublicValues, 4) = 72 /\ Offset(PublicValues, 5) = 80 /\ Offset(PublicValues, 6) = 112
    /\ Offset(PublicValues, 7) = 144 /\ Offset(PublicValues, 8) = 176 /\ Offset(PublicValues, 9) = 208
    /\ Offset(PublicValues, 10) = 228 /\ Offset(PublicValues, 11) = 260 /\ Offset(PublicValues, 12) = 292
    /\ Offset(PublicValues, 13) = 296
    /\ Size(PublicValues) = 297
<1> DEFINE at(k) == Offset(PublicValues, k)
<1>1. Len(PublicValues) = 13 /\ DOMAIN PublicValues = 1..13
  BY DEF PublicValues
<1>2. /\ at(1) = 0
      /\ \A k \in 1..13 : at(k + 1) = at(k) + PublicValues[k][2]
      /\ Size(PublicValues) = at(13 + 1)
  <2>1. 13 \in Nat
    OBVIOUS
  <2> QED BY <1>1, <2>1, FieldFollows
<1> HIDE DEF at
<1>3. at(2) = 8 /\ at(3) = 40 /\ at(4) = 72 /\ at(5) = 80
  BY <1>2 DEF PublicValues
<1>4. at(6) = 112 /\ at(7) = 144 /\ at(8) = 176 /\ at(9) = 208
  BY <1>2, <1>3 DEF PublicValues
<1>5. at(10) = 228 /\ at(11) = 260 /\ at(12) = 292 /\ at(13) = 296
  BY <1>2, <1>4 DEF PublicValues
<1>6. at(14) = 297
  BY <1>2, <1>5 DEF PublicValues
<1> QED BY <1>1, <1>2, <1>3, <1>4, <1>5, <1>6 DEF at

\* The header of a blob.
LEMMA HeaderAt ==
    /\ Len(HEADER_STRUCT) = 8 /\ DOMAIN HEADER_STRUCT = 1..8
    /\ Offset(HEADER_STRUCT, 1) = 0 /\ Offset(HEADER_STRUCT, 2) = 4 /\ Offset(HEADER_STRUCT, 3) = 5
    /\ Offset(HEADER_STRUCT, 4) = 6 /\ Offset(HEADER_STRUCT, 5) = 14 /\ Offset(HEADER_STRUCT, 6) = 18
    /\ Offset(HEADER_STRUCT, 7) = 38 /\ Offset(HEADER_STRUCT, 8) = 70
    /\ Size(HEADER_STRUCT) = 74
<1> DEFINE at(k) == Offset(HEADER_STRUCT, k)
<1>1. Len(HEADER_STRUCT) = 8 /\ DOMAIN HEADER_STRUCT = 1..8
  BY DEF HEADER_STRUCT
<1>2. /\ at(1) = 0
      /\ \A k \in 1..8 : at(k + 1) = at(k) + HEADER_STRUCT[k][2]
      /\ Size(HEADER_STRUCT) = at(8 + 1)
  <2>1. 8 \in Nat
    OBVIOUS
  <2> QED BY <1>1, <2>1, FieldFollows
<1> HIDE DEF at
<1>3. at(2) = 4 /\ at(3) = 5 /\ at(4) = 6 /\ at(5) = 14
  BY <1>2 DEF HEADER_STRUCT
<1>4. at(6) = 18 /\ at(7) = 38 /\ at(8) = 70 /\ at(9) = 74
  BY <1>2, <1>3 DEF HEADER_STRUCT
<1> QED BY <1>1, <1>2, <1>3, <1>4 DEF at

\* The namespace.
LEMMA NamespaceAt ==
    /\ Len(build_namespace) = 6 /\ DOMAIN build_namespace = 1..6
    /\ Offset(build_namespace, 1) = 0 /\ Offset(build_namespace, 2) = 1 /\ Offset(build_namespace, 3) = 19
    /\ Offset(build_namespace, 4) = 20 /\ Offset(build_namespace, 5) = 21 /\ Offset(build_namespace, 6) = 25
    /\ Size(build_namespace) = 29
<1> DEFINE at(k) == Offset(build_namespace, k)
<1>1. Len(build_namespace) = 6 /\ DOMAIN build_namespace = 1..6
  BY DEF build_namespace
<1>2. /\ at(1) = 0
      /\ \A k \in 1..6 : at(k + 1) = at(k) + build_namespace[k][2]
      /\ Size(build_namespace) = at(6 + 1)
  <2>1. 6 \in Nat
    OBVIOUS
  <2> QED BY <1>1, <2>1, FieldFollows
<1> HIDE DEF at
<1>3. at(2) = 1 /\ at(3) = 19 /\ at(4) = 20 /\ at(5) = 21
  BY <1>2 DEF build_namespace
<1>4. at(6) = 25 /\ at(7) = 29
  BY <1>2, <1>3 DEF build_namespace
<1> QED BY <1>1, <1>2, <1>3, <1>4 DEF at

\* A field of this name is where the contract and the table for comparison look.
FieldAgrees(name, from, width) ==
    /\ decodePublicValues[name] = <<from, from + width>>
    /\ name \in DOMAIN PV_OFFSETS => PV_OFFSETS[name] = <<from, width>>

\* That is so of each.
LEMMA FieldsAgree ==
    ASSUME NEW k \in DOMAIN PublicValues
    PROVE  FieldAgrees(PublicValues[k][1], Offset(PublicValues, k), PublicValues[k][2])
<1> DEFINE name == PublicValues[k][1]
           from == Offset(PublicValues, k)
           width == PublicValues[k][2]
<1>1. ASSUME k = 1 PROVE FieldAgrees(name, from, width)
  <2>1. name = "epoch" /\ from = 0 /\ width = 8
    BY <1>1, PublicValuesAt DEF PublicValues
  <2> HIDE DEF name, from, width
  <2> QED BY <2>1 DEF FieldAgrees, decodePublicValues, PV_OFFSETS
<1>2. ASSUME k = 2 PROVE FieldAgrees(name, from, width)
  <2>1. name = "batch_root" /\ from = 8 /\ width = 32
    BY <1>2, PublicValuesAt DEF PublicValues
  <2> HIDE DEF name, from, width
  <2> QED BY <2>1 DEF FieldAgrees, decodePublicValues, PV_OFFSETS
<1>3. ASSUME k = 3 PROVE FieldAgrees(name, from, width)
  <2>1. name = "da_commitment" /\ from = 40 /\ width = 32
    BY <1>3, PublicValuesAt DEF PublicValues
  <2> HIDE DEF name, from, width
  <2> QED BY <2>1 DEF FieldAgrees, decodePublicValues, PV_OFFSETS
<1>4. ASSUME k = 4 PROVE FieldAgrees(name, from, width)
  <2>1. name = "da_nonce" /\ from = 72 /\ width = 8
    BY <1>4, PublicValuesAt DEF PublicValues
  <2> HIDE DEF name, from, width
  <2> QED BY <2>1 DEF FieldAgrees, decodePublicValues, PV_OFFSETS
<1>5. ASSUME k = 5 PROVE FieldAgrees(name, from, width)
  <2>1. name = "results_root" /\ from = 80 /\ width = 32
    BY <1>5, PublicValuesAt DEF PublicValues
  <2> HIDE DEF name, from, width
  <2> QED BY <2>1 DEF FieldAgrees, decodePublicValues, PV_OFFSETS
<1>6. ASSUME k = 6 PROVE FieldAgrees(name, from, width)
  <2>1. name = "results_data_root" /\ from = 112 /\ width = 32
    BY <1>6, PublicValuesAt DEF PublicValues
  <2> HIDE DEF name, from, width
  <2> QED BY <2>1 DEF FieldAgrees, decodePublicValues, PV_OFFSETS
<1>7. ASSUME k = 7 PROVE FieldAgrees(name, from, width)
  <2>1. name = "storage_vk_digest" /\ from = 144 /\ width = 32
    BY <1>7, PublicValuesAt DEF PublicValues
  <2> HIDE DEF name, from, width
  <2> QED BY <2>1 DEF FieldAgrees, decodePublicValues, PV_OFFSETS
<1>8. ASSUME k = 8 PROVE FieldAgrees(name, from, width)
  <2>1. name = "snapshot_id" /\ from = 176 /\ width = 32
    BY <1>8, PublicValuesAt DEF PublicValues
  <2> HIDE DEF name, from, width
  <2> QED BY <2>1 DEF FieldAgrees, decodePublicValues, PV_OFFSETS
<1>9. ASSUME k = 9 PROVE FieldAgrees(name, from, width)
  <2>1. name = "submitter" /\ from = 208 /\ width = 20
    BY <1>9, PublicValuesAt DEF PublicValues
  <2> HIDE DEF name, from, width
  <2> QED BY <2>1 DEF FieldAgrees, decodePublicValues, PV_OFFSETS
<1>10. ASSUME k = 10 PROVE FieldAgrees(name, from, width)
  <2>1. name = "prev_state_root" /\ from = 228 /\ width = 32
    BY <1>10, PublicValuesAt DEF PublicValues
  <2> HIDE DEF name, from, width
  <2> QED BY <2>1 DEF FieldAgrees, decodePublicValues, PV_OFFSETS
<1>11. ASSUME k = 11 PROVE FieldAgrees(name, from, width)
  <2>1. name = "new_state_root" /\ from = 260 /\ width = 32
    BY <1>11, PublicValuesAt DEF PublicValues
  <2> HIDE DEF name, from, width
  <2> QED BY <2>1 DEF FieldAgrees, decodePublicValues, PV_OFFSETS
<1>12. ASSUME k = 12 PROVE FieldAgrees(name, from, width)
  <2>1. name = "num_verified" /\ from = 292 /\ width = 4
    BY <1>12, PublicValuesAt DEF PublicValues
  <2> HIDE DEF name, from, width
  <2> QED BY <2>1 DEF FieldAgrees, decodePublicValues, PV_OFFSETS
<1>13. ASSUME k = 13 PROVE FieldAgrees(name, from, width)
  <2>1. name = "window_saturation" /\ from = 296 /\ width = 1
    BY <1>13, PublicValuesAt DEF PublicValues
  <2> HIDE DEF name, from, width
  <2> QED BY <2>1 DEF FieldAgrees, decodePublicValues, PV_OFFSETS
<1>14. k \in 1..13
  BY PublicValuesAt
<1> HIDE DEF name, from, width
<1>15. FieldAgrees(name, from, width)
  BY <1>1, <1>2, <1>3, <1>4, <1>5, <1>6, <1>7, <1>8, <1>9, <1>10, <1>11, <1>12, <1>13, <1>14
<1> QED BY <1>15 DEF name, from, width

\* All layouts agree.
LEMMA LayoutsFit == input \in Inputs => LayoutsAgree
<1> SUFFICES ASSUME input \in Inputs, input.kind = "layout"
             PROVE  LayoutsAgree
  BY DEF LayoutsAgree
<1>1. input.field \in DOMAIN PublicValues
  BY KindOfInput DEF LayoutInputs
<1>2. Size(PublicValues) = PUBLIC_VALUES_BYTES
  BY PublicValuesAt DEF PUBLIC_VALUES_BYTES
<1>3. Size(HEADER_STRUCT) = HEADER_SIZE /\ Size(build_namespace) = NAMESPACE_SIZE
  BY HeaderAt, NamespaceAt DEF HEADER_SIZE, NAMESPACE_SIZE
<1>4. pack = [k \in DOMAIN HEADER_STRUCT |-> HEADER_STRUCT[k][1]] /\ unpack = pack
  BY DEF pack, unpack, HEADER_STRUCT
<1> DEFINE k == input.field
<1>5. FieldAgrees(PublicValues[k][1], Offset(PublicValues, k), PublicValues[k][2])
  BY <1>1, FieldsAgree
<1> QED BY <1>2, <1>3, <1>4, <1>5, Zenon DEF LayoutsAgree, FieldAgrees

\* The bytes of the public values, of a blob's header and of a namespace are where
\* each side looks for them.
THEOREM LayoutsMatch == Spec => []LayoutsAgree
BY InputsOnly, LayoutsFit, PTL
=============================================================================
