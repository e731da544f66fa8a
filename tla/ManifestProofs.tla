--------------------------- MODULE ManifestProofs ---------------------------
(***************************************************************************)
(* Proofs about Manifest, for any files, frame sizes, bounds and runs.      *)
(* What the model defines by recursion is a function over 0..MaxEntries:    *)
(* the first lemmas give such functions their values, by induction.         *)
(***************************************************************************)
EXTENDS Manifest, FiniteSetTheorems, SequenceTheorems, TLAPS

----------------------------------------------------------------------------
(* Induction and recursion up to a bound.                                   *)

\* A set of naturals that has a member has a least one.
LEMMA LeastOf ==
    ASSUME NEW T \in SUBSET Nat, T # {}
    PROVE  \E x \in T : \A y \in T : x <= y
<1> DEFINE R == OpToRel(<, Nat)
<1>1. IsWellFoundedOn(R, Nat)
  BY NatLessThanWellFounded
<1>2. \A x, y \in Nat : y < x => <<y, x>> \in R
  BY DEF OpToRel
<1> HIDE DEF R
<1>3. PICK x \in T : \A y \in T : ~(<<y, x>> \in R)
  BY <1>1, WFMin
<1>4. \A y \in T : x <= y
  <2> TAKE y \in T
  <2>1. ~(y < x)
    BY <1>2, <1>3
  <2> QED BY <2>1
<1> QED BY <1>4

\* A set of naturals up to a bound that has a member has a greatest one.
LEMMA GreatestOf ==
    ASSUME NEW n \in Nat, NEW T \in SUBSET (0..n), T # {}
    PROVE  \E x \in T : \A y \in T : y <= x
<1> DEFINE U == {k \in 0..n : n - k \in T}
<1>1. U \in SUBSET Nat
  OBVIOUS
<1>2. PICK t \in T : TRUE
  OBVIOUS
<1>3. n - t \in U
  BY <1>2
<1>4. PICK u \in U : \A v \in U : u <= v
  BY <1>1, <1>3, LeastOf
<1>5. \A y \in T : n - y \in U
  OBVIOUS
<1> QED BY <1>4, <1>5

\* Induction up to a bound, over the set of the numbers that have the property: the
\* library's theorem takes an operator.
LEMMA InductionTo ==
    ASSUME NEW n \in Nat, NEW Holds \in SUBSET (0..n), 0 \in Holds,
           \A k \in Holds : k < n => k + 1 \in Holds
    PROVE  Holds = 0..n
<1>1. SUFFICES ASSUME (0..n) \ Holds # {} PROVE FALSE
  OBVIOUS
<1>2. PICK x \in (0..n) \ Holds : \A y \in (0..n) \ Holds : x <= y
  <2> (0..n) \ Holds \in SUBSET Nat
    OBVIOUS
  <2> QED BY <1>1, LeastOf
<1>3. x # 0 /\ x - 1 \in 0..n /\ x - 1 < n
  BY <1>2
<1>4. x - 1 \in Holds
  BY <1>2, <1>3
<1>5. (x - 1) + 1 = x
  BY <1>2
<1> QED BY <1>2, <1>3, <1>4, <1>5

\* What each of n turns does to a value of X.
Steps(n, X) == [1..n -> [X -> X]]

\* The values before the first turn and after each.
Walks(n, X, b, step) ==
    {g \in [0..n -> X] : g[0] = b /\ \A k \in 1..n : g[k] = step[k][g[k - 1]]}

\* A function defined by recursion over 0..n exists, so that CHOOSE picks one.
LEMMA RecursionExists ==
    ASSUME NEW n \in Nat, NEW X, NEW b \in X, NEW step \in Steps(n, X)
    PROVE  \E g : g \in Walks(n, X, b, step)
<1> USE DEF Steps
<1> DEFINE Good(m, g) == g = [k \in 0..m |-> IF k = 0 THEN b ELSE step[k][g[k - 1]]]
           Holds == {m \in 0..n : \E g \in [0..m -> X] : Good(m, g)}
<1>1. 0 \in Holds
  <2> DEFINE g == [k \in 0..0 |-> b]
  <2>1. g \in [0..0 -> X] /\ Good(0, g)
    OBVIOUS
  <2> HIDE DEF g
  <2> QED BY <2>1
<1>2. ASSUME NEW m \in Holds, m < n PROVE m + 1 \in Holds
  <2>1. PICK g \in [0..m -> X] : Good(m, g)
    OBVIOUS
  <2>2. m \in Nat /\ m + 1 \in 0..n /\ m + 1 \in 1..n
    BY <1>2
  <2> DEFINE h == [k \in 0..(m + 1) |-> IF k <= m THEN g[k] ELSE step[m + 1][g[m]]]
  <2>3. step[m + 1] \in [X -> X] /\ g[m] \in X
    BY <2>2
  <2>4. h \in [0..(m + 1) -> X]
    BY <2>2, <2>3
  <2>5. ASSUME NEW k \in 0..(m + 1)
        PROVE  h[k] = IF k = 0 THEN b ELSE step[k][h[k - 1]]
    <3>1. CASE k <= m
      <4>1. k \in 0..m /\ (k # 0 => k - 1 \in 0..m)
        BY <3>1, <2>2
      <4>2. h[k] = g[k] /\ (k # 0 => h[k - 1] = g[k - 1])
        BY <4>1, <2>2
      <4>3. g[k] = IF k = 0 THEN b ELSE step[k][g[k - 1]]
        BY <2>1, <4>1
      <4> QED BY <4>2, <4>3
    <3>2. CASE k = m + 1
      <4>1. h[k] = step[m + 1][g[m]] /\ k - 1 = m /\ h[m] = g[m] /\ k # 0
        BY <3>2, <2>2
      <4> QED BY <4>1, <3>2
    <3> QED BY <3>1, <3>2, <2>2
  <2>6. Good(m + 1, h)
    BY <2>5
  <2> HIDE DEF h, Good
  <2> QED BY <2>2, <2>4, <2>6
<1> HIDE DEF Good
<1>3. Holds = 0..n
  <2>1. Holds \in SUBSET (0..n)
    OBVIOUS
  <2> HIDE DEF Holds
  <2> QED BY <1>1, <1>2, <2>1, InductionTo
<1>4. PICK g \in [0..n -> X] : Good(n, g)
  BY <1>3
<1>5. g[0] = b /\ \A k \in 1..n : g[k] = step[k][g[k - 1]]
  BY <1>4 DEF Good
<1> QED BY <1>5 DEF Walks

----------------------------------------------------------------------------
(* The loop that cuts a manifest into chunks.                               *)

\* A manifest is a sequence of entries, neither empty nor longer than MaxEntries.
LEMMA OfManifests ==
    ASSUME NEW es \in Manifests
    PROVE  es \in Seq(Entry) /\ Len(es) \in 1..MaxEntries /\ MaxEntries \in Nat \ {0}
<1>1. MaxEntries \in Nat
  BY ManifestConstants
<1>2. PICK n \in 1..MaxEntries : es \in [1..n -> Entry]
  BY DEF Manifests
<1>3. es \in Seq(Entry) /\ Len(es) = n
  BY <1>1, <1>2
<1> QED BY <1>1, <1>2, <1>3

\* The fold over one entry is that entry's encoded length.
LEMMA WireOfOne ==
    ASSUME NEW seq, NEW e \in Entry, DOMAIN seq = {1}, seq[1] = e
    PROVE  Wire(seq) = e.wire
<1> DEFINE Step(g) == [s \in SUBSET {1} |->
                        IF s = {} THEN 0
                        ELSE seq[CHOOSE x \in s : TRUE].wire + g[s \ {CHOOSE x \in s : TRUE}]]
           iter == CHOOSE g : g = Step(g)
           w == [s \in SUBSET {1} |-> IF s = {} THEN 0 ELSE e.wire]
<1>0. e.wire \in Nat
  BY ManifestConstants
<1>1. DOMAIN seq = {1} /\ seq[1] = e
  OBVIOUS
<1>2. w = Step(w)
  <2>1. \A s \in SUBSET {1} : s # {} => s = {1}
    OBVIOUS
  <2>2. (CHOOSE x \in {1} : TRUE) = 1
    OBVIOUS
  <2>3. ASSUME NEW s \in SUBSET {1}, s # {}
        PROVE  w[s] = seq[CHOOSE x \in s : TRUE].wire + w[s \ {CHOOSE x \in s : TRUE}]
    <3>1. s = {1} /\ s \ {1} = {}
      BY <2>1, <2>3
    <3>2. w[s] = e.wire /\ w[{}] = 0
      BY <2>3
    <3> HIDE DEF w
    <3> QED BY <3>1, <3>2, <2>2, <1>0, <1>1
  <2>4. w[{}] = 0
    OBVIOUS
  <2> QED BY <2>3, <2>4
<1>3. iter = Step(iter)
  <2> HIDE DEF w, Step
  <2> QED BY <1>2
<1>4. iter[{1}] = e.wire
  <2>1. iter[{}] = 0
    <3> {} \in SUBSET {1}
      OBVIOUS
    <3> HIDE DEF iter
    <3> QED BY <1>3
  <2>2. iter[{1}] = seq[CHOOSE x \in {1} : TRUE].wire + iter[{1} \ {CHOOSE x \in {1} : TRUE}]
    <3> {1} \in SUBSET {1} /\ {1} # {}
      OBVIOUS
    <3> HIDE DEF iter
    <3> QED BY <1>3
  <2>3. (CHOOSE x \in {1} : TRUE) = 1 /\ {1} \ {1} = {}
    OBVIOUS
  <2> HIDE DEF iter
  <2> QED BY <2>1, <2>2, <2>3, <1>0, <1>1
<1>5. Wire(seq) = iter[{1}]
  BY <1>1 DEF Wire, FoldSeq, FoldFunction, FoldFunctionOnSet, MapThenFoldSet
<1> QED BY <1>4, <1>5

\* The inner loop ends with a length that is not zero, within the manifest and the initial
\* length, and whose chunk fits a frame: an entry alone does (manifest.rs:47).
LEMMA ChunkFits ==
    ASSUME NEW es \in Manifests, NEW o \in 0..(Len(es) - 1)
    PROVE  /\ ChunkLen(es, o) \in 1..(Len(es) - o)
           /\ ChunkLen(es, o) <= InitialChunkEntries
           /\ Wire(SubSeq(es, o + 1, o + ChunkLen(es, o))) <= ChunkRoom
<1> DEFINE left  == Len(es) - o
           first == IF left < InitialChunkEntries THEN left ELSE InitialChunkEntries
           fits  == {n \in HalfLengths(first) :
                        Wire(SubSeq(es, o + 1, o + n)) <= ChunkRoom}
           most  == CHOOSE n \in fits : \A k \in fits : k <= n
<1>1. left \in Nat /\ left >= 1 /\ InitialChunkEntries \in Nat /\ InitialChunkEntries >= 1
  BY OfManifests, ManifestConstants
<1>2. first \in Nat /\ first >= 1 /\ first <= left /\ first <= InitialChunkEntries
  BY <1>1
<1>3. ChunkLen(es, o) = IF fits = {} THEN 1 ELSE most
  BY DEF ChunkLen
<1>4. CASE fits = {}
  <2>0. es \in Seq(Entry) /\ o + 1 \in 1..Len(es)
    BY OfManifests
  <2>1. /\ DOMAIN SubSeq(es, o + 1, o + 1) = {1}
        /\ SubSeq(es, o + 1, o + 1)[1] = es[o + 1]
    BY <2>0
  <2>2. es[o + 1] \in Entry
    BY <2>0
  <2>3. Wire(SubSeq(es, o + 1, o + 1)) = es[o + 1].wire
    BY <2>1, <2>2, WireOfOne
  <2>4. Wire(SubSeq(es, o + 1, o + 1)) <= ChunkRoom
    BY <2>2, <2>3, ManifestConstants
  <2> HIDE DEF fits, most, first
  <2> QED BY <1>1, <1>3, <1>4, <2>4
<1>5. CASE fits # {}
  <2>1. fits \in SUBSET (1..first)
    BY DEF HalfLengths
  <2>2. \E n \in fits : \A k \in fits : k <= n
    <3> fits \in SUBSET (0..first)
      BY <2>1, <1>2
    <3> HIDE DEF fits, first
    <3> QED BY <1>2, <1>5, GreatestOf
  <2>3. most \in fits
    <3> HIDE DEF fits
    <3> QED BY <2>2
  <2>4. Wire(SubSeq(es, o + 1, o + most)) <= ChunkRoom
    <3> HIDE DEF most
    <3> QED BY <2>3
  <2> HIDE DEF fits, most, first
  <2>5. most \in 1..first
    BY <2>1, <2>3
  <2> QED BY <1>1, <1>2, <1>3, <1>5, <2>4, <2>5
<1> QED BY <1>4, <1>5

\* The offset starts at zero, stays within the manifest and moves by the chunk cut there.
LEMMA OffsetSteps ==
    ASSUME NEW es \in Manifests
    PROVE  /\ Offset(es) \in [0..MaxEntries -> 0..Len(es)]
           /\ Offset(es)[0] = 0
           /\ \A k \in 1..MaxEntries :
                Offset(es)[k] = IF Offset(es)[k - 1] < Len(es)
                                THEN Offset(es)[k - 1] + ChunkLen(es, Offset(es)[k - 1])
                                ELSE Offset(es)[k - 1]
<1> DEFINE After(o) == IF o < Len(es) THEN o + ChunkLen(es, o) ELSE o
           step == [k \in 1..MaxEntries |-> [o \in 0..Len(es) |-> After(o)]]
           Walk(g) == [k \in 0..MaxEntries |-> IF k = 0 THEN 0 ELSE After(g[k - 1])]
           offset == CHOOSE g : g = Walk(g)
<1>1. Len(es) \in Nat /\ MaxEntries \in Nat
  BY OfManifests
<1>2. ASSUME NEW o \in 0..Len(es) PROVE After(o) \in 0..Len(es)
  <2>1. CASE o < Len(es)
    <3>1. o \in 0..(Len(es) - 1)
      BY <1>1, <2>1
    <3>2. ChunkLen(es, o) \in 1..(Len(es) - o)
      BY <3>1, ChunkFits
    <3> QED BY <1>1, <2>1, <3>2
  <2> QED BY <1>1, <2>1
<1>3. step \in [1..MaxEntries -> [0..Len(es) -> 0..Len(es)]]
  BY <1>2
<1>4. PICK w \in [0..MaxEntries -> 0..Len(es)] :
        w[0] = 0 /\ \A k \in 1..MaxEntries : w[k] = step[k][w[k - 1]]
  <2>1. 0 \in 0..Len(es) /\ step \in Steps(MaxEntries, 0..Len(es)) /\ MaxEntries \in Nat
    BY <1>1, <1>3 DEF Steps
  <2>2. PICK w : w \in Walks(MaxEntries, 0..Len(es), 0, step)
    <3> HIDE DEF step
    <3> QED BY <2>1, RecursionExists
  <2> QED BY <2>2 DEF Walks
<1>5. w = Walk(w)
  <2>1. ASSUME NEW k \in 1..MaxEntries PROVE step[k][w[k - 1]] = After(w[k - 1])
    <3>1. w[k - 1] \in 0..Len(es)
      BY <1>1
    <3> HIDE DEF After
    <3> QED BY <3>1
  <2>2. ASSUME NEW k \in 0..MaxEntries PROVE w[k] = Walk(w)[k]
    <3>1. k = 0 \/ k \in 1..MaxEntries
      BY <1>1
    <3>2. w[k] = IF k = 0 THEN 0 ELSE step[k][w[k - 1]]
      BY <1>4, <3>1
    <3> HIDE DEF After, step
    <3> QED BY <2>1, <3>1, <3>2
  <2> HIDE DEF After, step
  <2> QED BY <2>2
<1>6. offset = Walk(offset)
  <2> HIDE DEF Walk
  <2> QED BY <1>5
<1>7. Offset(es) = offset
  BY DEF Offset
<1>8. /\ DOMAIN offset = 0..MaxEntries /\ offset[0] = 0
      /\ \A k \in 1..MaxEntries : offset[k] = After(offset[k - 1])
  <2>1. DOMAIN offset = 0..MaxEntries
    <3> HIDE DEF After, offset
    <3> QED BY <1>6
  <2>2. \A k \in 0..MaxEntries : offset[k] = IF k = 0 THEN 0 ELSE After(offset[k - 1])
    <3> HIDE DEF After, offset
    <3> QED BY <1>6
  <2> HIDE DEF offset, After
  <2> QED BY <2>1, <2>2, <1>1
<1>9. offset \in [0..MaxEntries -> 0..Len(es)]
  <2> DEFINE Typed == {k \in 0..MaxEntries : offset[k] \in 0..Len(es)}
  <2>1. Typed = 0..MaxEntries
    <3> HIDE DEF offset, After
    <3>1. 0 \in Typed
      BY <1>1, <1>8
    <3>2. ASSUME NEW k \in Typed, k < MaxEntries PROVE k + 1 \in Typed
      <4>1. k + 1 \in 1..MaxEntries /\ (k + 1) - 1 = k
        BY <3>2, <1>1
      <4>2. offset[k + 1] = After(offset[k])
        BY <4>1, <1>8
      <4> QED BY <4>1, <4>2, <1>2
    <3>3. Typed \in SUBSET (0..MaxEntries)
      OBVIOUS
    <3> HIDE DEF Typed
    <3> QED BY <1>1, <3>1, <3>2, <3>3, InductionTo
  <2>2. offset = [k \in 0..MaxEntries |-> offset[k]]
    <3> HIDE DEF After, offset
    <3> QED BY <1>6
  <2> HIDE DEF offset
  <2> QED BY <2>1, <2>2
<1> HIDE DEF offset
<1> QED BY <1>7, <1>8, <1>9

\* The outer loop never turns back and reaches the end of the manifest, since every turn
\* before it moves on.
LEMMA OffsetGrows ==
    ASSUME NEW es \in Manifests
    PROVE  /\ \A k \in 1..MaxEntries : Offset(es)[k - 1] <= Offset(es)[k]
           /\ Offset(es)[MaxEntries] = Len(es)
<1> DEFINE O == Offset(es)
           n == Len(es)
           Holds == {k \in 0..MaxEntries : k <= O[k] \/ O[k] = n}
<1>1. O \in [0..MaxEntries -> 0..n] /\ n \in 1..MaxEntries /\ MaxEntries \in Nat
  BY OffsetSteps, OfManifests
<1>2. ASSUME NEW k \in 1..MaxEntries
      PROVE  /\ k - 1 \in 0..MaxEntries
             /\ O[k - 1] <= O[k]
             /\ O[k - 1] < n => O[k - 1] + 1 <= O[k]
             /\ O[k - 1] = n => O[k] = n
  <2>1. k - 1 \in 0..MaxEntries /\ O[k - 1] \in 0..n
    BY <1>1
  <2>2. CASE O[k - 1] < n
    <3>1. O[k - 1] \in 0..(n - 1)
      BY <1>1, <2>1, <2>2
    <3>2. ChunkLen(es, O[k - 1]) \in 1..(n - O[k - 1])
      BY <3>1, ChunkFits
    <3>3. O[k] = O[k - 1] + ChunkLen(es, O[k - 1])
      BY <2>2, OffsetSteps
    <3> HIDE DEF O, n
    <3> QED BY <1>1, <2>1, <2>2, <3>2, <3>3
  <2>3. CASE O[k - 1] = n
    <3>1. O[k] = O[k - 1]
      <4>1. ~(O[k - 1] < n)
        BY <1>1, <2>3
      <4> QED BY <4>1, OffsetSteps
    <3> HIDE DEF O, n
    <3> QED BY <1>1, <2>1, <2>3, <3>1
  <2> HIDE DEF O, n
  <2> QED BY <1>1, <2>1, <2>2, <2>3
<1>3. Holds = 0..MaxEntries
  <2>1. 0 \in Holds
    BY <1>1
  <2>2. ASSUME NEW k \in Holds, k < MaxEntries PROVE k + 1 \in Holds
    <3>1. k + 1 \in 1..MaxEntries /\ (k + 1) - 1 = k /\ k \in 0..MaxEntries
      BY <2>2, <1>1
    <3>2. /\ O[k] <= O[k + 1]
          /\ O[k] < n => O[k] + 1 <= O[k + 1]
          /\ O[k] = n => O[k + 1] = n
      BY <3>1, <1>2
    <3>3. O[k] \in 0..n /\ O[k + 1] \in 0..n
      BY <3>1, <1>1
    <3>4. k <= O[k] \/ O[k] = n
      OBVIOUS
    <3> HIDE DEF O, n
    <3> QED BY <1>1, <3>1, <3>2, <3>3, <3>4
  <2>3. Holds \in SUBSET (0..MaxEntries)
    OBVIOUS
  <2> HIDE DEF Holds
  <2> QED BY <1>1, <2>1, <2>2, <2>3, InductionTo
<1>4. MaxEntries <= O[MaxEntries] \/ O[MaxEntries] = n
  <2> MaxEntries \in Holds
    BY <1>1, <1>3
  <2> QED OBVIOUS
<1> HIDE DEF O, n
<1>5. O[MaxEntries] = n
  BY <1>1, <1>4
<1> QED BY <1>2, <1>5 DEF O, n

\* The loop turns at least once, and the offset is at the end from the last turn on.
LEMMA ChunksCounted ==
    ASSUME NEW es \in Manifests
    PROVE  /\ ChunkCount(es) \in 1..MaxEntries
           /\ \A k \in 0..MaxEntries : Offset(es)[k] = Len(es) <=> ChunkCount(es) <= k
<1> DEFINE O == Offset(es)
           n == Len(es)
           Ends == {k \in 0..MaxEntries : O[k] >= n}
           First(c) == O[c] >= n /\ \A k \in 0..MaxEntries : O[k] >= n => c <= k
           Holds == {k \in 0..MaxEntries : ChunkCount(es) <= k => O[k] = n}
<1>1. O \in [0..MaxEntries -> 0..n] /\ n \in 1..MaxEntries /\ MaxEntries \in Nat
  BY OffsetSteps, OfManifests
<1>2. O[0] = 0 /\ O[MaxEntries] = n /\ \A k \in 1..MaxEntries : O[k - 1] <= O[k]
  BY OffsetSteps, OffsetGrows
<1>3. \E c \in 0..MaxEntries : First(c)
  <2>1. Ends \in SUBSET Nat /\ MaxEntries \in Ends
    <3> HIDE DEF O, n
    <3> QED BY <1>1, <1>2
  <2>2. PICK c \in Ends : \A k \in Ends : c <= k
    <3> HIDE DEF Ends
    <3> QED BY <2>1, LeastOf
  <2> HIDE DEF O, n
  <2> QED BY <2>2
<1>4. ChunkCount(es) \in 0..MaxEntries /\ First(ChunkCount(es))
  <2>1. ChunkCount(es) = CHOOSE c \in 0..MaxEntries : First(c)
    BY DEF ChunkCount
  <2> HIDE DEF First
  <2> QED BY <1>3, <2>1
<1> DEFINE c == ChunkCount(es)
<1>5. c \in 1..MaxEntries
  <2> HIDE DEF O, n, c
  <2> QED BY <1>1, <1>2, <1>4 DEF c
<1>6. Holds = 0..MaxEntries
  <2> HIDE DEF O, n, c
  <2> USE DEF c
  <2>1. 0 \in Holds
    BY <1>1, <1>5
  <2>2. ASSUME NEW k \in Holds, k < MaxEntries PROVE k + 1 \in Holds
    <3>1. k + 1 \in 1..MaxEntries /\ (k + 1) - 1 = k /\ k \in 0..MaxEntries
      BY <2>2, <1>1
    <3>2. O[k] <= O[k + 1] /\ O[k] \in 0..n /\ O[k + 1] \in 0..n
      BY <3>1, <1>1, <1>2
    <3>3. CASE c <= k
      BY <3>1, <3>2, <3>3, <1>1
    <3>4. CASE c = k + 1
      BY <3>1, <3>2, <3>4, <1>1, <1>4
    <3> QED BY <1>5, <3>1, <3>3, <3>4
  <2>3. Holds \in SUBSET (0..MaxEntries)
    OBVIOUS
  <2> HIDE DEF Holds
  <2> QED BY <1>1, <2>1, <2>2, <2>3, InductionTo
<1>7. ASSUME NEW k \in 0..MaxEntries PROVE O[k] = n <=> c <= k
  <2>1. k \in Holds
    BY <1>6
  <2>2. O[k] = n => c <= k
    <3> HIDE DEF O, n
    <3> QED BY <1>1, <1>4
  <2> QED BY <2>1, <2>2
<1> QED BY <1>5, <1>7

\* The entries up to one offset and the chunk cut there are those up to the next.
LEMMA PrefixExtends ==
    ASSUME NEW es \in Manifests, NEW k \in 1..MaxEntries
    PROVE  SubSeq(es, 1, Offset(es)[k - 1]) \o SubSeq(es, Offset(es)[k - 1] + 1, Offset(es)[k])
                = SubSeq(es, 1, Offset(es)[k])
<1>1. es \in Seq(Entry) /\ Len(es) \in Nat /\ MaxEntries \in Nat
  BY OfManifests
<1>2. /\ Offset(es)[k - 1] \in 0..Len(es) /\ Offset(es)[k] \in 0..Len(es)
      /\ Offset(es)[k - 1] <= Offset(es)[k]
  <2>1. k - 1 \in 0..MaxEntries /\ k \in 0..MaxEntries
    BY <1>1
  <2> QED BY <2>1, OffsetSteps, OffsetGrows
<1>3. \A m, n \in 0..Len(es) :
        m <= n => SubSeq(es, 1, m) \o SubSeq(es, m + 1, n) = SubSeq(es, 1, n)
  <2> TAKE m, n \in 0..Len(es)
  <2> HAVE m <= n
  <2>1. 1 \in 1..(Len(es) + 1) /\ m \in (1 - 1)..Len(es) /\ n \in m..Len(es)
    BY <1>1
  <2> QED BY <1>1, <2>1, ConcatAdjacentSubSeq
<1> QED BY <1>2, <1>3

\* A chunk holds the entries between two offsets.
LEMMA ChunkBounds ==
    ASSUME NEW es \in Manifests, NEW k \in 1..MaxEntries
    PROVE  LET chunk == SubSeq(es, Offset(es)[k - 1] + 1, Offset(es)[k])
           IN  /\ chunk \in Seq(Entry)
               /\ Len(chunk) = Offset(es)[k] - Offset(es)[k - 1]
<1>1. es \in Seq(Entry) /\ Len(es) \in Nat /\ MaxEntries \in Nat
  BY OfManifests
<1>2. /\ Offset(es)[k - 1] \in 0..Len(es) /\ Offset(es)[k] \in 0..Len(es)
      /\ Offset(es)[k - 1] <= Offset(es)[k]
  <2>1. k - 1 \in 0..MaxEntries /\ k \in 0..MaxEntries
    BY <1>1
  <2> QED BY <2>1, OffsetSteps, OffsetGrows
<1>3. \A m, n \in 0..Len(es) :
        m <= n => /\ SubSeq(es, m + 1, n) \in Seq(Entry)
                  /\ Len(SubSeq(es, m + 1, n)) = n - m
  <2> TAKE m, n \in 0..Len(es)
  <2> HAVE m <= n
  <2>1. \A i \in (m + 1)..n : es[i] \in Entry
    BY <1>1
  <2>2. m + 1 \in Int /\ n \in Int
    BY <1>1
  <2>3. /\ SubSeq(es, m + 1, n) \in Seq(Entry)
        /\ Len(SubSeq(es, m + 1, n)) = IF m + 1 <= n THEN n - (m + 1) + 1 ELSE 0
    BY <2>1, <2>2, SubSeqProperties
  <2> QED BY <1>1, <2>3
<1> QED BY <1>2, <1>3

\* The chunks are numbered without a gap.
LEMMA ChunksType ==
    ASSUME NEW es \in Manifests
    PROVE  /\ Chunks(es) \in Seq(Seq(Entry))
           /\ Len(Chunks(es)) = ChunkCount(es)
           /\ DOMAIN Chunks(es) = 1..ChunkCount(es)
           /\ \A i \in 1..ChunkCount(es) :
                Chunks(es)[i] = SubSeq(es, Offset(es)[i - 1] + 1, Offset(es)[i])
<1>1. ChunkCount(es) \in 1..MaxEntries /\ MaxEntries \in Nat
  BY ChunksCounted, OfManifests
<1>2. \A i \in 1..ChunkCount(es) :
        SubSeq(es, Offset(es)[i - 1] + 1, Offset(es)[i]) \in Seq(Entry)
  <2> TAKE i \in 1..ChunkCount(es)
  <2>1. i \in 1..MaxEntries
    BY <1>1
  <2> QED BY <2>1, ChunkBounds
<1>3. Chunks(es) \in [1..ChunkCount(es) -> Seq(Entry)]
  BY <1>2 DEF Chunks
<1>4. Chunks(es) \in Seq(Seq(Entry)) /\ Len(Chunks(es)) = ChunkCount(es)
  BY <1>1, <1>3
<1>5. /\ DOMAIN Chunks(es) = 1..ChunkCount(es)
      /\ \A i \in 1..ChunkCount(es) :
            Chunks(es)[i] = SubSeq(es, Offset(es)[i - 1] + 1, Offset(es)[i])
  BY DEF Chunks
<1> QED BY <1>4, <1>5

\* The chunks in order make up the manifest.
LEMMA ChunksJoin ==
    ASSUME NEW es \in Manifests
    PROVE  FlattenSeq(Chunks(es)) = es
<1> DEFINE cs == Chunks(es)
           c == ChunkCount(es)
           Prefix(i) == SubSeq(es, 1, Offset(es)[i])
           Join(g) == [i \in 1..c |-> IF i = 1 THEN cs[i] ELSE g[i - 1] \o cs[i]]
           joined == CHOOSE g : g = Join(g)
           w == [i \in 1..c |-> Prefix(i)]
<1>1. c \in 1..MaxEntries /\ MaxEntries \in Nat /\ Len(cs) = c
  BY ChunksCounted, OfManifests, ChunksType
<1>2. ASSUME NEW i \in 1..c
      PROVE  /\ i = 1 => cs[i] = Prefix(i)
             /\ i # 1 => Prefix(i - 1) \o cs[i] = Prefix(i)
  <2>1. cs[i] = SubSeq(es, Offset(es)[i - 1] + 1, Offset(es)[i]) /\ i \in 1..MaxEntries
    BY <1>1, ChunksType
  <2>2. CASE i = 1
    <3>1. Offset(es)[0] = 0 /\ i - 1 = 0 /\ 0 + 1 = 1
      BY <2>2, OffsetSteps
    <3> QED BY <2>1, <2>2, <3>1
  <2>3. CASE i # 1
    BY <2>1, <2>3, PrefixExtends
  <2> QED BY <2>2, <2>3
<1>3. w = Join(w)
  <2>1. ASSUME NEW i \in 1..c PROVE w[i] = IF i = 1 THEN cs[i] ELSE w[i - 1] \o cs[i]
    <3>1. i # 1 => i - 1 \in 1..c
      BY <1>1
    <3>2. w[i] = Prefix(i) /\ (i # 1 => w[i - 1] = Prefix(i - 1))
      BY <3>1
    <3> HIDE DEF w, Prefix, cs, c
    <3> QED BY <1>2, <3>1, <3>2
  <2> HIDE DEF Prefix, cs, c
  <2> QED BY <2>1
<1>4. joined = Join(joined)
  <2> HIDE DEF Join
  <2> QED BY <1>3
<1>5. \A i \in 1..c : joined[i] = IF i = 1 THEN cs[i] ELSE joined[i - 1] \o cs[i]
  <2> HIDE DEF joined, cs, c
  <2> QED BY <1>4
<1>6. joined[c] = Prefix(c)
  <2> DEFINE Holds == {k \in 0..c : k # 0 => joined[k] = Prefix(k)}
  <2> HIDE DEF joined, cs, c, Prefix
  <2>1. 0 \in Holds
    BY <1>1
  <2>2. ASSUME NEW k \in Holds, k < c PROVE k + 1 \in Holds
    <3>1. k + 1 \in 1..c /\ (k + 1) - 1 = k /\ k \in 0..c
      BY <2>2, <1>1
    <3>2. joined[k + 1] = IF k + 1 = 1 THEN cs[k + 1] ELSE joined[k] \o cs[k + 1]
      BY <3>1, <1>5
    <3>3. k + 1 = 1 => joined[k + 1] = Prefix(k + 1)
      BY <3>1, <3>2, <1>2
    <3>4. k # 0 => joined[k + 1] = Prefix(k + 1)
      <4> HAVE k # 0
      <4>1. joined[k] = Prefix(k) /\ k + 1 # 1
        BY <3>1
      <4>2. Prefix(k) \o cs[k + 1] = Prefix(k + 1)
        BY <3>1, <4>1, <1>2
      <4> QED BY <3>2, <4>1, <4>2
    <3> QED BY <3>1, <3>3, <3>4
  <2>3. Holds \in SUBSET (0..c)
    OBVIOUS
  <2>4. Holds = 0..c
    <3> HIDE DEF Holds
    <3> QED BY <1>1, <2>1, <2>2, <2>3, InductionTo
  <2>5. c \in Holds /\ c # 0
    BY <1>1, <2>4
  <2> QED BY <2>5
<1>7. Prefix(c) = es
  <2>1. Offset(es)[c] = Len(es) /\ es \in Seq(Entry)
    BY <1>1, ChunksCounted, OfManifests
  <2> QED BY <2>1, SubSeqFull
<1>8. FlattenSeq(cs) = joined[c]
  <2>1. Len(cs) # 0
    BY <1>1
  <2>2. 1..Len(cs) = 1..c
    BY <1>1
  <2> HIDE DEF cs, c
  <2>3. FlattenSeq(cs) = (CHOOSE g : g = [i \in 1..Len(cs) |->
            IF i = 1 THEN cs[i] ELSE g[i - 1] \o cs[i]])[Len(cs)]
    BY <2>1 DEF FlattenSeq
  <2> QED BY <2>3, <1>1
<1> QED BY <1>6, <1>7, <1>8

\* A chunk fits a frame and keeps to the initial length.
LEMMA ChunksFit ==
    ASSUME NEW es \in Manifests, NEW i \in DOMAIN Chunks(es)
    PROVE  Wire(Chunks(es)[i]) <= ChunkRoom /\ Len(Chunks(es)[i]) <= InitialChunkEntries
<1> DEFINE o == Offset(es)[i - 1]
<1>1. /\ i \in 1..ChunkCount(es) /\ ChunkCount(es) \in 1..MaxEntries /\ MaxEntries \in Nat
      /\ Chunks(es)[i] = SubSeq(es, o + 1, Offset(es)[i])
  BY ChunksType, ChunksCounted, OfManifests
<1>2. i \in 1..MaxEntries /\ i - 1 \in 0..MaxEntries /\ ~(ChunkCount(es) <= i - 1)
  BY <1>1
<1>3. o \in 0..Len(es) /\ o # Len(es) /\ Len(es) \in Nat
  BY <1>2, OffsetSteps, ChunksCounted, OfManifests
<1>4. o \in 0..(Len(es) - 1) /\ o < Len(es)
  BY <1>3
<1>5. Offset(es)[i] = o + ChunkLen(es, o)
  BY <1>2, <1>4, OffsetSteps
<1>6. Len(Chunks(es)[i]) = ChunkLen(es, o)
  <2>1. Len(Chunks(es)[i]) = Offset(es)[i] - o
    BY <1>1, <1>2, ChunkBounds
  <2>2. ChunkLen(es, o) \in 1..(Len(es) - o)
    BY <1>4, ChunkFits
  <2> HIDE DEF o
  <2> QED BY <1>3, <1>5, <2>1, <2>2
<1> HIDE DEF o
<1> QED BY <1>1, <1>4, <1>5, <1>6, ChunkFits

----------------------------------------------------------------------------
(* What is collected.                                                       *)

\* EntriesReceived is a sum along the indices.
LEMMA Received ==
    ASSUME NEW s, MaxEntries \in Nat,
           \A i \in 0..(MaxEntries - 1) : ChunkAt(s, i) \in Seq(Entry)
    PROVE  \E r \in [0..MaxEntries -> Nat] :
                /\ EntriesReceived(s) = r[MaxEntries]
                /\ r[0] = 0
                /\ \A k \in 1..MaxEntries : r[k] = r[k - 1] + Len(ChunkAt(s, k - 1))
<1> DEFINE step == [k \in 1..MaxEntries |-> [n \in Nat |-> n + Len(ChunkAt(s, k - 1))]]
           Walk(g) == [k \in 0..MaxEntries |->
                        IF k = 0 THEN 0 ELSE g[k - 1] + Len(ChunkAt(s, k - 1))]
           received == CHOOSE g : g = Walk(g)
<1>1. \A k \in 1..MaxEntries : k - 1 \in 0..(MaxEntries - 1) /\ k - 1 \in 0..MaxEntries
  OBVIOUS
<1>2. \A k \in 1..MaxEntries : Len(ChunkAt(s, k - 1)) \in Nat
  BY <1>1
<1>3. 0 \in Nat /\ step \in Steps(MaxEntries, Nat)
  BY <1>2 DEF Steps
<1>4. PICK w : w \in Walks(MaxEntries, Nat, 0, step)
  <2> HIDE DEF step
  <2> QED BY <1>3, RecursionExists
<1>5. /\ w \in [0..MaxEntries -> Nat] /\ w[0] = 0
      /\ \A k \in 1..MaxEntries : w[k] = w[k - 1] + Len(ChunkAt(s, k - 1))
  <2>1. /\ w \in [0..MaxEntries -> Nat] /\ w[0] = 0
        /\ \A k \in 1..MaxEntries : w[k] = step[k][w[k - 1]]
    <3> HIDE DEF step
    <3> QED BY <1>4 DEF Walks
  <2>2. \A k \in 1..MaxEntries : w[k - 1] \in Nat
    BY <1>1, <2>1
  <2> QED BY <2>1, <2>2
<1>6. w = Walk(w)
  <2>1. \A k \in 0..MaxEntries : k = 0 \/ k \in 1..MaxEntries
    OBVIOUS
  <2> QED BY <1>5, <2>1
<1>7. received = Walk(received)
  <2> HIDE DEF Walk
  <2> QED BY <1>6
<1>8. /\ DOMAIN received = 0..MaxEntries /\ received[0] = 0
      /\ \A k \in 1..MaxEntries : received[k] = received[k - 1] + Len(ChunkAt(s, k - 1))
  <2>1. DOMAIN received = 0..MaxEntries
    <3> HIDE DEF received
    <3> QED BY <1>7
  <2>2. \A k \in 0..MaxEntries :
            received[k] = IF k = 0 THEN 0 ELSE received[k - 1] + Len(ChunkAt(s, k - 1))
    <3> HIDE DEF received
    <3> QED BY <1>7
  <2> HIDE DEF received
  <2> QED BY <2>1, <2>2
<1>9. received \in [0..MaxEntries -> Nat]
  <2> DEFINE T == {k \in 0..MaxEntries : received[k] \in Nat}
  <2>1. T = 0..MaxEntries
    <3> HIDE DEF received
    <3>1. 0 \in T
      BY <1>8
    <3>2. ASSUME NEW k \in T, k < MaxEntries PROVE k + 1 \in T
      <4>1. k + 1 \in 1..MaxEntries /\ (k + 1) - 1 = k
        BY <3>2
      <4>2. received[k + 1] = received[k] + Len(ChunkAt(s, k))
        BY <4>1, <1>8
      <4>3. Len(ChunkAt(s, k)) \in Nat
        BY <4>1, <1>2
      <4> QED BY <4>1, <4>2, <4>3
    <3>3. T \in SUBSET (0..MaxEntries)
      OBVIOUS
    <3> HIDE DEF T
    <3> QED BY <3>1, <3>2, <3>3, InductionTo
  <2>2. received = [k \in 0..MaxEntries |-> received[k]]
    <3> HIDE DEF received
    <3> QED BY <1>7
  <2> HIDE DEF received
  <2> QED BY <2>1, <2>2
<1>10. EntriesReceived(s) = received[MaxEntries]
  BY DEF EntriesReceived
<1> HIDE DEF received
<1> QED BY <1>8, <1>9, <1>10

\* SortedEntries is the concatenation along the indices.
LEMMA Sorted ==
    ASSUME NEW s, MaxEntries \in Nat,
           \A i \in 0..(MaxEntries - 1) : ChunkAt(s, i) \in Seq(Entry)
    PROVE  \E c : /\ SortedEntries(s) = c[MaxEntries]
                  /\ c[0] = <<>>
                  /\ \A k \in 1..MaxEntries : c[k] = c[k - 1] \o ChunkAt(s, k - 1)
<1> DEFINE step == [k \in 1..MaxEntries |-> [q \in Seq(Entry) |-> q \o ChunkAt(s, k - 1)]]
           Walk(g) == [k \in 0..MaxEntries |->
                        IF k = 0 THEN <<>> ELSE g[k - 1] \o ChunkAt(s, k - 1)]
           entries == CHOOSE g : g = Walk(g)
<1>1. \A k \in 1..MaxEntries : k - 1 \in 0..(MaxEntries - 1) /\ k - 1 \in 0..MaxEntries
  OBVIOUS
<1>2. \A k \in 1..MaxEntries, q \in Seq(Entry) : q \o ChunkAt(s, k - 1) \in Seq(Entry)
  BY <1>1, ConcatProperties
<1>3. <<>> \in Seq(Entry) /\ step \in Steps(MaxEntries, Seq(Entry))
  BY <1>2 DEF Steps
<1>4. PICK w : w \in Walks(MaxEntries, Seq(Entry), <<>>, step)
  <2> HIDE DEF step
  <2> QED BY <1>3, RecursionExists
<1>5. /\ w \in [0..MaxEntries -> Seq(Entry)] /\ w[0] = <<>>
      /\ \A k \in 1..MaxEntries : w[k] = w[k - 1] \o ChunkAt(s, k - 1)
  <2>1. /\ w \in [0..MaxEntries -> Seq(Entry)] /\ w[0] = <<>>
        /\ \A k \in 1..MaxEntries : w[k] = step[k][w[k - 1]]
    <3> HIDE DEF step
    <3> QED BY <1>4 DEF Walks
  <2>2. \A k \in 1..MaxEntries : w[k - 1] \in Seq(Entry)
    BY <1>1, <2>1
  <2> QED BY <2>1, <2>2
<1>6. w = Walk(w)
  <2>1. \A k \in 0..MaxEntries : k = 0 \/ k \in 1..MaxEntries
    OBVIOUS
  <2> QED BY <1>5, <2>1
<1>7. entries = Walk(entries)
  <2> HIDE DEF Walk
  <2> QED BY <1>6
<1>8. entries[0] = <<>> /\ \A k \in 1..MaxEntries : entries[k] = entries[k - 1] \o ChunkAt(s, k - 1)
  <2>1. \A k \in 0..MaxEntries :
            entries[k] = IF k = 0 THEN <<>> ELSE entries[k - 1] \o ChunkAt(s, k - 1)
    <3> HIDE DEF entries
    <3> QED BY <1>7
  <2>2. 0 \in 0..MaxEntries /\ \A k \in 1..MaxEntries : k \in 0..MaxEntries /\ k # 0
    OBVIOUS
  <2> HIDE DEF entries
  <2> QED BY <2>1, <2>2, Zenon
<1>9. SortedEntries(s) = entries[MaxEntries]
  BY DEF SortedEntries
<1> HIDE DEF entries
<1> QED BY <1>8, <1>9

\* What is collected are chunks of one manifest, each under its index.
ChunksOf(s, es) ==
    /\ DOMAIN s.chunks \subseteq 0..(ChunkCount(es) - 1)
    /\ \A i \in DOMAIN s.chunks : s.chunks[i] = Chunks(es)[i + 1]

\* Chunks of one manifest that hold as many entries as it has are the manifest: as long as
\* one is missing there are fewer, since no chunk is empty.  All of them hold that many.
LEMMA Gathered ==
    ASSUME NEW es \in Manifests, NEW s, ChunksOf(s, es)
    PROVE  /\ EntriesReceived(s) = Len(es) => SortedEntries(s) = es
           /\ DOMAIN s.chunks = 0..(ChunkCount(es) - 1) => EntriesReceived(s) = Len(es)
           /\ DOMAIN s.chunks = {} => EntriesReceived(s) = 0
<1> DEFINE O == Offset(es)
           D == DOMAIN s.chunks
           Prefix(k) == SubSeq(es, 1, O[k])
           At(k) == ChunkAt(s, k)
           Full == D = 0..(ChunkCount(es) - 1)
<1>1. /\ es \in Seq(Entry) /\ Len(es) \in 1..MaxEntries /\ MaxEntries \in Nat \ {0}
      /\ ChunkCount(es) \in 1..MaxEntries
      /\ O \in [0..MaxEntries -> 0..Len(es)] /\ O[0] = 0 /\ O[MaxEntries] = Len(es)
  BY OfManifests, ChunksCounted, OffsetSteps, OffsetGrows
<1>2. ASSUME NEW k \in 1..MaxEntries
      PROVE  /\ O[k - 1] \in 0..Len(es) /\ O[k] \in 0..Len(es) /\ O[k - 1] <= O[k]
             /\ At(k - 1) \in Seq(Entry)
             /\ k - 1 \in D => /\ Len(At(k - 1)) = O[k] - O[k - 1]
                               /\ Prefix(k - 1) \o At(k - 1) = Prefix(k)
             /\ k - 1 \notin D => At(k - 1) = <<>>
             /\ Full /\ k - 1 \notin D => O[k - 1] = O[k]
  <2>1. k - 1 \in 0..MaxEntries /\ k \in 0..MaxEntries
    BY <1>1
  <2>2. O[k - 1] \in 0..Len(es) /\ O[k] \in 0..Len(es) /\ O[k - 1] <= O[k]
    BY <2>1, <1>1, OffsetGrows
  <2>3. ASSUME k - 1 \in D
        PROVE  /\ At(k - 1) \in Seq(Entry) /\ Len(At(k - 1)) = O[k] - O[k - 1]
               /\ Prefix(k - 1) \o At(k - 1) = Prefix(k)
    <3>1. k \in 1..ChunkCount(es)
      BY <2>3, <1>1 DEF ChunksOf
    <3>2. At(k - 1) = Chunks(es)[k]
      <4>1. (k - 1) + 1 = k
        BY <1>1
      <4> QED BY <2>3, <4>1 DEF ChunksOf, ChunkAt
    <3>3. At(k - 1) = SubSeq(es, O[k - 1] + 1, O[k])
      BY <3>1, <3>2, ChunksType
    <3> QED BY <3>3, ChunkBounds, PrefixExtends
  <2>4. k - 1 \notin D => At(k - 1) = <<>>
    BY DEF ChunkAt
  <2>5. At(k - 1) \in Seq(Entry)
    <3> HIDE DEF At, D
    <3>1. <<>> \in Seq(Entry)
      OBVIOUS
    <3> QED BY <2>3, <2>4, <3>1, Zenon
  <2>6. Full /\ k - 1 \notin D => O[k - 1] = O[k]
    <3> HAVE Full /\ k - 1 \notin D
    <3>1. ChunkCount(es) <= k - 1 /\ ChunkCount(es) <= k
      BY <1>1, <2>1
    <3> QED BY <3>1, <2>1, ChunksCounted
  <2> QED BY <2>2, <2>3, <2>4, <2>5, <2>6
<1>3. \A i \in 0..(MaxEntries - 1) : At(i) \in Seq(Entry)
  <2> TAKE i \in 0..(MaxEntries - 1)
  <2>1. i + 1 \in 1..MaxEntries /\ (i + 1) - 1 = i
    BY <1>1
  <2> HIDE DEF At
  <2> QED BY <2>1, <1>2
<1>4. PICK r \in [0..MaxEntries -> Nat] :
        /\ EntriesReceived(s) = r[MaxEntries]
        /\ r[0] = 0
        /\ \A k \in 1..MaxEntries : r[k] = r[k - 1] + Len(At(k - 1))
  BY <1>1, <1>3, Received
<1>5. PICK c : /\ SortedEntries(s) = c[MaxEntries]
               /\ c[0] = <<>>
               /\ \A k \in 1..MaxEntries : c[k] = c[k - 1] \o At(k - 1)
  BY <1>1, <1>3, Sorted
<1> DEFINE Upto(k) == /\ r[k] <= O[k]
                      /\ r[k] = O[k] => c[k] = Prefix(k)
                      /\ Full => r[k] = O[k]
                      /\ D = {} => r[k] = 0
           Holds == {k \in 0..MaxEntries : Upto(k)}
<1>6. Prefix(0) = <<>>
  BY <1>1, SubSeqEmpty
<1>7. \A k \in 0..MaxEntries : Prefix(k) \in Seq(Entry) /\ Prefix(k) \o <<>> = Prefix(k)
  <2> TAKE k \in 0..MaxEntries
  <2>1. O[k] \in 0..Len(es)
    BY <1>1
  <2>2. Prefix(k) \in Seq(Entry)
    BY <1>1, <2>1
  <2> HIDE DEF Prefix
  <2> QED BY <2>2, ConcatEmptySeq
<1>8. Holds = 0..MaxEntries
  <2> HIDE DEF O, D, Prefix, At, Full
  <2>1. 0 \in Holds
    <3>1. r[0] = 0 /\ O[0] = 0 /\ c[0] = Prefix(0)
      BY <1>1, <1>4, <1>5, <1>6
    <3>2. Upto(0)
      BY <3>1
    <3> HIDE DEF Upto
    <3> QED BY <3>2, <1>1
  <2>2. ASSUME NEW j \in Holds, j < MaxEntries PROVE j + 1 \in Holds
    <3> DEFINE k == j + 1
    <3>1. k \in 1..MaxEntries /\ k - 1 = j /\ j \in 0..MaxEntries /\ k \in 0..MaxEntries
      BY <2>2, <1>1
    <3>2. r[k] = r[j] + Len(At(j)) /\ c[k] = c[j] \o At(j)
      BY <3>1, <1>4, <1>5
    <3>3. r[j] \in Nat /\ O[j] \in 0..Len(es) /\ O[k] \in 0..Len(es) /\ O[j] <= O[k]
      BY <3>1, <1>1, <1>2
    <3>4. Upto(j)
      OBVIOUS
    <3>5. CASE j \in D
      <4>1. Len(At(j)) = O[k] - O[j] /\ Prefix(j) \o At(j) = Prefix(k)
        BY <3>1, <3>5, <1>2
      <4>2. r[k] <= O[k] /\ (r[k] = O[k] => r[j] = O[j]) /\ (r[j] = O[j] => r[k] = O[k])
        <5>1. r[j] <= O[j] /\ r[k] = r[j] + (O[k] - O[j])
          BY <3>2, <3>4, <4>1
        <5>2. \A x, y, u, v \in Int :
                x <= u /\ y = x + (v - u) => y <= v /\ (y = v <=> x = u)
          OBVIOUS
        <5>3. r[j] \in Int /\ r[k] \in Int /\ O[j] \in Int /\ O[k] \in Int
          BY <3>1, <3>3
        <5> QED BY <5>1, <5>2, <5>3
      <4>3. r[k] = O[k] => c[k] = Prefix(k)
        BY <3>2, <3>4, <4>1, <4>2
      <4>4. Upto(k)
        BY <3>4, <3>5, <4>2, <4>3
      <4> QED BY <3>1, <4>4
    <3>6. CASE j \notin D
      <4>1. At(j) = <<>> /\ (Full => O[j] = O[k])
        BY <3>1, <3>6, <1>2
      <4>2. r[k] = r[j]
        <5>1. Len(At(j)) = 0
          BY <4>1
        <5> QED BY <3>2, <3>3, <5>1
      <4>3. r[k] <= O[k] /\ (r[k] = O[k] => r[j] = O[j] /\ O[k] = O[j])
        BY <3>3, <3>4, <4>2, <1>1
      <4>4. r[k] = O[k] => c[k] = Prefix(k)
        <5> HAVE r[k] = O[k]
        <5>1. c[j] = Prefix(j) /\ O[k] = O[j]
          BY <3>4, <4>3
        <5>2. Prefix(k) = Prefix(j)
          BY <5>1 DEF Prefix
        <5>3. c[k] = Prefix(j) \o <<>>
          BY <3>2, <4>1, <5>1
        <5> QED BY <5>2, <5>3, <3>1, <1>7
      <4>5. Upto(k)
        BY <3>4, <4>1, <4>2, <4>3, <4>4
      <4> QED BY <3>1, <4>5
    <3> QED BY <3>5, <3>6
  <2>3. Holds \in SUBSET (0..MaxEntries)
    OBVIOUS
  <2>4. MaxEntries \in Nat
    BY <1>1
  <2> HIDE DEF Holds
  <2> QED BY <2>1, <2>2, <2>3, <2>4, InductionTo
<1>9. Upto(MaxEntries)
  <2> HIDE DEF Upto
  <2>1. MaxEntries \in Holds
    <3>1. MaxEntries \in 0..MaxEntries
      BY <1>1
    <3> HIDE DEF Holds
    <3> QED BY <3>1, <1>8
  <2> QED BY <2>1
<1>10. Prefix(MaxEntries) = es
  BY <1>1, SubSeqFull
<1> HIDE DEF Prefix, O, D, At
<1> QED BY <1>1, <1>4, <1>5, <1>9, <1>10 DEF D

----------------------------------------------------------------------------
(* The envelopes and the types.                                             *)

\* The envelopes of a plan: the payload alone, or the header, the chunks and the end.
LEMMA PlanMembers ==
    ASSUME NEW a, NEW es \in Manifests
    PROVE  LET plan == PlanTransferEnvelopes(a, es)
               c    == ChunkCount(es)
           IN  /\ plan \in Seq(Range(plan))
               /\ Wire(es) <= TransferRoom => Range(plan) = {Payload(a, es)}
               /\ ~(Wire(es) <= TransferRoom) =>
                    Range(plan) = {Header(a, es), End(a, c)}
                                    \cup {Chunk(a, i - 1, Chunks(es)[i]) : i \in 1..c}
<1> DEFINE plan == PlanTransferEnvelopes(a, es)
           c == ChunkCount(es)
           body == [i \in 1..c |-> Chunk(a, i - 1, Chunks(es)[i])]
           U == {Header(a, es), End(a, c), Payload(a, es)}
                    \cup {Chunk(a, i - 1, Chunks(es)[i]) : i \in 1..c}
<1>1. c \in Nat /\ Len(Chunks(es)) = c
  BY ChunksCounted, ChunksType, OfManifests
<1>2. plan = IF Wire(es) <= TransferRoom THEN <<Payload(a, es)>>
             ELSE <<Header(a, es)>> \o body \o <<End(a, c)>>
  BY <1>1 DEF PlanTransferEnvelopes
<1>3. /\ Header(a, es) \in U /\ End(a, c) \in U /\ Payload(a, es) \in U
      /\ body \in [1..c -> U] /\ Range(body) = {Chunk(a, i - 1, Chunks(es)[i]) : i \in 1..c}
  BY DEF Range
<1> HIDE DEF U, body, plan
<1>4. /\ <<Header(a, es)>> \in Seq(U) /\ <<End(a, c)>> \in Seq(U) /\ <<Payload(a, es)>> \in Seq(U)
      /\ body \in Seq(U)
  BY <1>1, <1>3
<1>5. \A x : Range(<<x>>) = {x}
  BY DEF Range
<1>6. <<Header(a, es)>> \o body \in Seq(U) /\ <<Header(a, es)>> \o body \o <<End(a, c)>> \in Seq(U)
  BY <1>4, ConcatProperties
<1>7. Range(<<Header(a, es)>> \o body \o <<End(a, c)>>)
        = (Range(<<Header(a, es)>>) \cup Range(body)) \cup Range(<<End(a, c)>>)
  <2>1. Range(<<Header(a, es)>> \o body) = Range(<<Header(a, es)>>) \cup Range(body)
    BY <1>4, RangeConcatenation
  <2>2. Range((<<Header(a, es)>> \o body) \o <<End(a, c)>>)
            = Range(<<Header(a, es)>> \o body) \cup Range(<<End(a, c)>>)
    BY <1>4, <1>6, RangeConcatenation
  <2> QED BY <2>1, <2>2
<1>8. plan \in Seq(U)
  BY <1>2, <1>4, <1>6
<1>9. plan \in Seq(Range(plan))
  BY <1>8, SeqOfRange
<1> QED BY <1>2, <1>3, <1>5, <1>7, <1>9 DEF plan

\* What a sequence holds is its first element and what the rest holds.
LEMMA HeadAndTail ==
    ASSUME NEW Holds, NEW u \in Seq(Holds), u # <<>>
    PROVE  /\ Head(u) \in Holds /\ Tail(u) \in Seq(Holds)
           /\ Range(u) = {Head(u)} \cup Range(Tail(u))
<1>1. /\ Head(u) \in Holds /\ Tail(u) \in Seq(Holds) /\ Len(Tail(u)) = Len(u) - 1
      /\ \A i \in 1..Len(Tail(u)) : Tail(u)[i] = u[i + 1]
  BY HeadTailProperties
<1>2. Len(u) \in Nat /\ Len(u) # 0 /\ Head(u) = u[1] /\ DOMAIN u = 1..Len(u)
  BY EmptySeq
<1>3. DOMAIN Tail(u) = 1..(Len(u) - 1)
  BY <1>1
<1>4. ASSUME NEW x \in Range(u) PROVE x \in {Head(u)} \cup Range(Tail(u))
  <2>1. PICK i \in 1..Len(u) : x = u[i]
    BY <1>2 DEF Range
  <2>2. CASE i = 1
    BY <2>1, <2>2, <1>2
  <2>3. CASE i # 1
    <3>1. i - 1 \in 1..(Len(u) - 1) /\ (i - 1) + 1 = i
      BY <2>3, <1>2
    <3>2. Tail(u)[i - 1] = x
      BY <2>1, <3>1, <1>1
    <3> QED BY <3>1, <3>2, <1>3 DEF Range
  <2> QED BY <2>2, <2>3
<1>5. ASSUME NEW x \in Range(Tail(u)) PROVE x \in Range(u)
  <2>1. PICK i \in 1..(Len(u) - 1) : x = Tail(u)[i]
    BY <1>3 DEF Range
  <2>2. i + 1 \in 1..Len(u) /\ x = u[i + 1]
    BY <2>1, <1>1, <1>2
  <2> QED BY <2>2, <1>2 DEF Range
<1>6. Head(u) \in Range(u)
  <2>1. 1 \in 1..Len(u)
    BY <1>2
  <2> QED BY <2>1, <1>2 DEF Range
<1> QED BY <1>1, <1>4, <1>5, <1>6

\* A planned envelope is of the run's manifest.
LEMMA Kinds ==
    ASSUME ManifestTypeOK, NEW a \in Runs, NEW e \in Planned(a)
    PROVE  LET es == manifest[a]
           IN  /\ a \in Started /\ es \in Manifests
               /\ \/ e = Payload(a, es) /\ Wire(es) <= TransferRoom
                  \/ e = Header(a, es) /\ ~(Wire(es) <= TransferRoom)
                  \/ e = End(a, ChunkCount(es)) /\ ~(Wire(es) <= TransferRoom)
                  \/ /\ \E i \in 0..(ChunkCount(es) - 1) : e = Chunk(a, i, Chunks(es)[i + 1])
                     /\ ~(Wire(es) <= TransferRoom)
<1> DEFINE es == manifest[a]
           c == ChunkCount(es)
<1>1. a \in Started /\ e \in Range(PlanTransferEnvelopes(a, es))
  BY DEF Planned
<1>2. es \in Manifests
  BY <1>1 DEF ManifestTypeOK, Started
<1>3. c \in Nat
  BY <1>2, ChunksCounted, OfManifests
<1>4. CASE Wire(es) <= TransferRoom
  BY <1>1, <1>2, <1>4, PlanMembers
<1>5. CASE ~(Wire(es) <= TransferRoom)
  <2>1. e \in {Header(a, es), End(a, c)} \cup {Chunk(a, i - 1, Chunks(es)[i]) : i \in 1..c}
    BY <1>1, <1>2, <1>5, PlanMembers
  <2>2. ASSUME NEW i \in 1..c, e = Chunk(a, i - 1, Chunks(es)[i])
        PROVE  \E k \in 0..(c - 1) : e = Chunk(a, k, Chunks(es)[k + 1])
    <3>1. i - 1 \in 0..(c - 1) /\ (i - 1) + 1 = i
      BY <1>3
    <3> QED BY <2>2, <3>1
  <2> QED BY <1>1, <1>2, <1>5, <2>1, <2>2
<1> QED BY <1>4, <1>5

\* An envelope on its way is one that a started run has planned.
LEMMA InFlight ==
    ASSUME ManifestTypeOK, NEW m \in net
    PROVE  \E a \in Started :
                /\ a \in Runs /\ manifest[a] \in Manifests
                /\ \/ m = Payload(a, manifest[a])
                   \/ m = Header(a, manifest[a])
                   \/ m = End(a, ChunkCount(manifest[a]))
                   \/ \E i \in 0..(ChunkCount(manifest[a]) - 1) :
                        m = Chunk(a, i, Chunks(manifest[a])[i + 1])
<1>1. PICK a \in Runs : m \in Planned(a)
  BY DEF ManifestTypeOK
<1> QED BY <1>1, Kinds

\* A step that starts no run changes no plan.
LEMMA PlannedStays ==
    ASSUME UNCHANGED manifest
    PROVE  Started' = Started /\ \A b \in Runs : Planned(b)' = Planned(b)
BY DEF Started, Planned

\* What a header creates, the count of an end and the content of a chunk have the types of
\* the collected state.
LEMMA ChunkedTypes ==
    ASSUME NEW a \in Runs, NEW es \in Manifests
    PROVE  /\ [hash |-> a, count |-> Len(es), bytes |-> Bytes(es),
               chunks |-> <<>>, expected |-> Absent] \in Chunked
           /\ ChunkCount(es) \in 1..MaxEntries
           /\ \A i \in 0..(ChunkCount(es) - 1) :
                i \in 0..(MaxEntries - 1) /\ Chunks(es)[i + 1] \in SeqOf(Entry, MaxEntries)
<1>1. Len(es) \in 1..MaxEntries /\ ChunkCount(es) \in 1..MaxEntries /\ MaxEntries \in Nat
  BY OfManifests, ChunksCounted
<1>2. <<>> \in UNION {[D -> SeqOf(Entry, MaxEntries)] : D \in SUBSET (0..(MaxEntries - 1))}
  <2>1. <<>> \in [{} -> SeqOf(Entry, MaxEntries)]
    OBVIOUS
  <2> QED BY <2>1
<1>3. [hash |-> a, count |-> Len(es), bytes |-> Bytes(es),
       chunks |-> <<>>, expected |-> Absent] \in Chunked
  BY <1>1, <1>2 DEF Chunked
<1>4. ASSUME NEW i \in 0..(ChunkCount(es) - 1)
      PROVE  i \in 0..(MaxEntries - 1) /\ Chunks(es)[i + 1] \in SeqOf(Entry, MaxEntries)
  <2>1. i \in 0..(MaxEntries - 1) /\ i + 1 \in 1..ChunkCount(es) /\ i + 1 \in 1..MaxEntries
        /\ (i + 1) - 1 = i
    BY <1>1
  <2> DEFINE q == Chunks(es)[i + 1]
  <2>2. q = SubSeq(es, Offset(es)[i] + 1, Offset(es)[i + 1])
    BY <2>1, ChunksType
  <2>3. q \in Seq(Entry) /\ Len(q) = Offset(es)[i + 1] - Offset(es)[i]
    BY <2>1, <2>2, ChunkBounds
  <2>4. Offset(es)[i + 1] \in 0..Len(es) /\ Offset(es)[i] \in 0..Len(es)
    <3>1. i + 1 \in 0..MaxEntries /\ i \in 0..MaxEntries
      BY <1>1, <2>1
    <3> QED BY <3>1, OffsetSteps
  <2> HIDE DEF q
  <2>5. Len(q) \in 0..MaxEntries /\ q \in [1..Len(q) -> Entry]
    BY <1>1, <2>3, <2>4
  <2>6. q \in SeqOf(Entry, MaxEntries)
    BY <2>5 DEF SeqOf
  <2> QED BY <2>1, <2>6 DEF q
<1> QED BY <1>1, <1>3, <1>4

\* push_chunk keeps the type and the hash of what is collected.
LEMMA ChunkStored ==
    ASSUME ManifestTypeOK, NEW m \in net, HandleChunk(m)
    PROVE  pendingChunked' \in Chunked /\ pendingChunked'.hash = pendingChunked.hash
<1> DEFINE d == pendingChunked.chunks
           new == [i \in DOMAIN d \cup {m.index} |-> IF i = m.index THEN m.entries ELSE d[i]]
           Stored == UNION {[D -> SeqOf(Entry, MaxEntries)] : D \in SUBSET (0..(MaxEntries - 1))}
<1>1. m.kind = "chunk" /\ pendingChunked' = [pendingChunked EXCEPT !.chunks = new]
  BY DEF HandleChunk, Dispatch
<1>2. pendingChunked \in Chunked
  BY DEF HandleChunk, ManifestTypeOK
<1>3. PICK a \in Started : /\ a \in Runs /\ manifest[a] \in Manifests
                           /\ \E i \in 0..(ChunkCount(manifest[a]) - 1) :
                                    m = Chunk(a, i, Chunks(manifest[a])[i + 1])
  BY <1>1, InFlight DEF Payload, Header, Chunk, End
<1>4. m.index \in 0..(MaxEntries - 1) /\ m.entries \in SeqOf(Entry, MaxEntries)
  <2>1. PICK i \in 0..(ChunkCount(manifest[a]) - 1) : m = Chunk(a, i, Chunks(manifest[a])[i + 1])
    BY <1>3
  <2>2. m.index = i /\ m.entries = Chunks(manifest[a])[i + 1]
    BY <2>1 DEF Chunk
  <2>3. /\ i \in 0..(MaxEntries - 1)
        /\ Chunks(manifest[a])[i + 1] \in SeqOf(Entry, MaxEntries)
    BY <1>3, ChunkedTypes
  <2> QED BY <2>2, <2>3
<1>5. PICK D \in SUBSET (0..(MaxEntries - 1)) : d \in [D -> SeqOf(Entry, MaxEntries)]
  BY <1>2 DEF Chunked
<1>6. D \cup {m.index} \in SUBSET (0..(MaxEntries - 1))
      /\ new \in [D \cup {m.index} -> SeqOf(Entry, MaxEntries)]
  BY <1>4, <1>5
<1>7. new \in Stored
  <2> HIDE DEF new
  <2> QED BY <1>6
<1> HIDE DEF new
<1> QED BY <1>1, <1>2, <1>7 DEF Chunked

\* mark_end keeps the type and the hash of what is collected.
LEMMA EndStored ==
    ASSUME ManifestTypeOK, NEW m \in net, HandleEnd(m)
    PROVE  /\ pendingChunked' \in Chunked /\ pendingChunked'.hash = pendingChunked.hash
           /\ \E a \in Started : m.count = ChunkCount(manifest[a])
<1>1. /\ m.kind = "end" /\ pendingChunked \in Chunked
      /\ pendingChunked' = [pendingChunked EXCEPT !.expected = m.count]
  BY DEF HandleEnd, Dispatch, ManifestTypeOK
<1>2. PICK a \in Started :
        a \in Runs /\ manifest[a] \in Manifests /\ m = End(a, ChunkCount(manifest[a]))
  BY <1>1, InFlight DEF Payload, Header, Chunk, End
<1>3. m.count = ChunkCount(manifest[a]) /\ m.count \in 1..MaxEntries
  BY <1>2, ChunkedTypes DEF End
<1> QED BY <1>1, <1>3 DEF Chunked

\* The state is typed before the first run.
LEMMA ManifestInitType == ManifestInit => ManifestTypeOK
<1> SUFFICES ASSUME ManifestInit PROVE ManifestTypeOK
  OBVIOUS
<1>1. \A a \in Runs : unsent[a] \in Seq(Planned(a))
  BY DEF ManifestInit
<1> QED BY <1>1 DEF ManifestInit, ManifestTypeOK, Started

\* Every operation keeps the state typed, also when the files change between runs.
LEMMA ManifestTypeStep ==
    ManifestTypeOK /\ [ManifestNext]_manifestVars => ManifestTypeOK'
<1> SUFFICES ASSUME ManifestTypeOK, [ManifestNext]_manifestVars PROVE ManifestTypeOK'
  OBVIOUS
<1>0. /\ manifest \in [Runs -> Manifests \cup {Absent}]
      /\ DOMAIN unsent = Runs /\ \A a \in Runs : unsent[a] \in Seq(Planned(a))
      /\ net \subseteq UNION {Planned(a) : a \in Runs}
      /\ pendingChunked # Absent => pendingChunked \in Chunked /\ pendingChunked.hash \in Started
      /\ finalizing \in {Absent, "chunk", "end"}
      /\ timers \in Nat
      /\ \A s \in spawned : s.hash \in Started
      /\ spoiled \in BOOLEAN
  BY DEF ManifestTypeOK
<1>1. ASSUME NEW a \in Runs, NEW es \in Manifests, StartAttempt(a, es) PROVE ManifestTypeOK'
  <2>1. /\ manifest[a] = Absent /\ manifest' = [manifest EXCEPT ![a] = es]
        /\ unsent' = [unsent EXCEPT ![a] = PlanTransferEnvelopes(a, es)]
        /\ UNCHANGED <<net, pendingChunked, finalizing, timers, spawned, spoiled>>
    BY <1>1 DEF StartAttempt
  <2>2. es # Absent
    BY AbsentIsNoValue
  <2>3. manifest' \in [Runs -> Manifests \cup {Absent}] /\ DOMAIN unsent' = Runs
    BY <1>0, <2>1
  <2>4. Started' = Started \cup {a} /\ Planned(a)' = Range(PlanTransferEnvelopes(a, es))
    BY <1>0, <2>1, <2>2 DEF Started, Planned
  <2>5. \A b \in Runs \ {a} : Planned(b)' = Planned(b) /\ unsent'[b] = unsent[b]
    BY <1>0, <2>1 DEF Started, Planned
  <2>6. Planned(a) = {}
    BY <2>1 DEF Started, Planned
  <2>7. unsent'[a] \in Seq(Planned(a)')
    BY <1>0, <2>1, <2>4, PlanMembers
  <2>8. \A b \in Runs : unsent'[b] \in Seq(Planned(b)')
    BY <1>0, <2>5, <2>7
  <2>9. net' \subseteq UNION {Planned(b)' : b \in Runs}
    BY <1>0, <2>1, <2>5, <2>6
  <2> QED BY <1>0, <2>1, <2>3, <2>4, <2>8, <2>9 DEF ManifestTypeOK
<1>2. SUFFICES ASSUME UNCHANGED manifest PROVE ManifestTypeOK'
  BY <1>1, PlannedStays DEF ManifestNext, SendEnvelope, SendFails, HandleTransfer, HandleHeader,
     HandleChunk, HandleEnd, Refuse, LoseEnvelope, TryFinalize, ChunkTimeout, Restart, manifestVars
<1>3. Started' = Started /\ \A a \in Runs : Planned(a)' = Planned(a)
  BY <1>2, PlannedStays
<1> DEFINE Typed == /\ DOMAIN unsent' = Runs /\ \A a \in Runs : unsent'[a] \in Seq(Planned(a))
                    /\ net' \subseteq UNION {Planned(a) : a \in Runs}
                    /\ pendingChunked' # Absent =>
                            pendingChunked' \in Chunked /\ pendingChunked'.hash \in Started
                    /\ finalizing' \in {Absent, "chunk", "end"}
                    /\ timers' \in Nat
                    /\ \A s \in spawned' : s.hash \in Started
                    /\ spoiled' \in BOOLEAN
<1>4. Typed => ManifestTypeOK'
  BY <1>0, <1>2, <1>3 DEF ManifestTypeOK
<1>6. CASE UNCHANGED manifestVars
  BY <1>0, <1>4, <1>6 DEF manifestVars
<1>7. ASSUME NEW a \in Runs, unsent[a] # <<>>
      PROVE  Head(unsent[a]) \in Planned(a) /\ Tail(unsent[a]) \in Seq(Planned(a))
  BY <1>0, <1>7, HeadAndTail
<1>8. ASSUME NEW a \in Runs, SendEnvelope(a) PROVE ManifestTypeOK'
  BY <1>0, <1>4, <1>7, <1>8 DEF SendEnvelope
<1>9. ASSUME NEW a \in Runs, SendFails(a) PROVE ManifestTypeOK'
  BY <1>0, <1>4, <1>9 DEF SendFails
<1>10. ASSUME NEW m \in net, HandleTransfer(m) PROVE ManifestTypeOK'
  <2>1. PICK a \in Started : a \in Runs /\ m = Payload(a, manifest[a])
    BY <1>10, InFlight DEF HandleTransfer, Dispatch, Payload, Header, Chunk, End
  <2>2. m.hash = a
    BY <2>1 DEF Payload
  <2> QED BY <1>0, <1>4, <1>10, <2>2 DEF HandleTransfer, Dispatch
<1>11. ASSUME NEW m \in net, HandleHeader(m) PROVE ManifestTypeOK'
  <2>1. PICK a \in Started : a \in Runs /\ manifest[a] \in Manifests /\ m = Header(a, manifest[a])
    BY <1>11, InFlight DEF HandleHeader, Dispatch, Payload, Header, Chunk, End
  <2>2. pendingChunked' \in Chunked /\ pendingChunked'.hash \in Started
    BY <1>11, <2>1, ChunkedTypes DEF HandleHeader, Header
  <2> QED BY <1>0, <1>4, <1>11, <2>2 DEF HandleHeader, Dispatch
<1>12. ASSUME NEW m \in net, HandleChunk(m) PROVE ManifestTypeOK'
  <2>1. pendingChunked' \in Chunked /\ pendingChunked'.hash \in Started
    BY <1>0, <1>12, ChunkStored DEF HandleChunk
  <2> QED BY <1>0, <1>4, <1>12, <2>1 DEF HandleChunk, Dispatch
<1>13. ASSUME NEW m \in net, HandleEnd(m) PROVE ManifestTypeOK'
  <2>1. pendingChunked' \in Chunked /\ pendingChunked'.hash \in Started
    BY <1>0, <1>13, EndStored DEF HandleEnd
  <2> QED BY <1>0, <1>4, <1>13, <2>1 DEF HandleEnd, Dispatch
<1>14. ASSUME NEW m \in net, Refuse(m) PROVE ManifestTypeOK'
  BY <1>0, <1>4, <1>14 DEF Refuse, Dispatch
<1>15. ASSUME NEW m \in net, LoseEnvelope(m) PROVE ManifestTypeOK'
  BY <1>0, <1>4, <1>15 DEF LoseEnvelope
<1>16. CASE TryFinalize
  <2>1. timers' \in Nat
    BY <1>0, <1>16 DEF TryFinalize, TimersAfterTry
  <2>2. /\ pendingChunked' \in {pendingChunked, Absent}
        /\ \A s \in spawned' :
                s \in spawned \/ (pendingChunked # Absent /\ s.hash = pendingChunked.hash)
    BY <1>16 DEF TryFinalize
  <2>3. \A s \in spawned' : s.hash \in Started
    BY <1>0, <2>2
  <2> QED BY <1>0, <1>4, <1>16, <2>1, <2>2, <2>3 DEF TryFinalize
<1>17. CASE ChunkTimeout
  BY <1>0, <1>4, <1>17 DEF ChunkTimeout
<1>18. CASE Restart
  BY <1>0, <1>4, <1>18 DEF Restart
<1> QED BY <1>1, <1>6, <1>8, <1>9, <1>10, <1>11, <1>12, <1>13, <1>14, <1>15, <1>16, <1>17, <1>18
        DEF ManifestNext, StartAttempt

----------------------------------------------------------------------------
(* The invariant.                                                           *)

\* Runs of the transfer send the same manifest.
SameFiles == \A a, b \in Started : manifest[a] = manifest[b]

\* What is collected belongs to the manifest that its header announced.
CollectedInv ==
    pendingChunked # Absent =>
        LET es == manifest[pendingChunked.hash]
        IN  /\ pendingChunked.count = Len(es)
            /\ pendingChunked.bytes = Bytes(es)
            /\ pendingChunked.expected \in {Absent, ChunkCount(es)}
            /\ ChunksOf(pendingChunked, es)

\* Between two messages what is collected is not complete: handle_message has tried.
TriedInv == finalizing = Absent /\ pendingChunked # Absent => ~IsComplete(pendingChunked)

\* A header, chunk or end has reached what is collected.
Arrived(e) ==
    /\ e.kind # "transfer"
    /\ pendingChunked # Absent
    /\ e.kind = "chunk" => e.index \in DOMAIN pendingChunked.chunks

\* While nothing was lost and nothing handed on, every planned envelope is still to be sent,
\* on its way or collected.
IntactInv ==
    ~spoiled /\ spawned = {} =>
        \A a \in Started : \A e \in Planned(a) :
            e \in net \/ e \in Range(unsent[a]) \/ Arrived(e)

\* The inductive invariant.
ManifestInv ==
    ManifestTypeOK /\ SameFiles /\ CollectedInv /\ SpawnedIsSent /\ TriedInv /\ IntactInv

\* It holds before the first run.
LEMMA ManifestInitInv == ManifestInit => ManifestInv
BY ManifestInitType DEF ManifestInit, ManifestInv, SameFiles, CollectedInv, SpawnedIsSent,
   TriedInv, IntactInv, Started

\* A run that starts plans the manifest of the others.
LEMMA StartInv ==
    ASSUME ManifestInv, ManifestTypeOK', ~FilesChange,
           NEW a \in Runs, NEW es \in Manifests, StartAttempt(a, es)
    PROVE  ManifestInv'
<1>1. /\ manifest[a] = Absent /\ manifest' = [manifest EXCEPT ![a] = es]
      /\ \A b \in Runs : manifest[b] \in {Absent, es}
      /\ unsent' = [unsent EXCEPT ![a] = PlanTransferEnvelopes(a, es)]
      /\ UNCHANGED <<net, pendingChunked, finalizing, timers, spawned, spoiled>>
  BY DEF StartAttempt
<1>2. /\ manifest \in [Runs -> Manifests \cup {Absent}] /\ DOMAIN unsent = Runs
      /\ pendingChunked # Absent => pendingChunked.hash \in Started
      /\ \A s \in spawned : s.hash \in Started
  BY DEF ManifestInv, ManifestTypeOK
<1>3. \A b \in Started : b \in Runs /\ b # a /\ manifest'[b] = manifest[b]
  BY <1>1, <1>2 DEF Started
<1>4. Started' \subseteq Started \cup {a}
  BY <1>1, <1>2 DEF Started
<1>5. SameFiles'
  <2>1. \A b \in Started' : manifest'[b] = es
    BY <1>1, <1>2 DEF Started
  <2> QED BY <2>1 DEF SameFiles
<1>6. CollectedInv'
  BY <1>1, <1>2, <1>3 DEF ManifestInv, CollectedInv
<1>7. SpawnedIsSent'
  BY <1>1, <1>2, <1>3 DEF ManifestInv, SpawnedIsSent
<1>8. TriedInv'
  BY <1>1 DEF ManifestInv, TriedInv
<1>9. IntactInv'
  <2> SUFFICES ASSUME ~spoiled, spawned = {}, NEW b \in Started', NEW e \in Planned(b)'
               PROVE  e \in net \/ e \in Range(unsent'[b]) \/ Arrived(e)
    BY <1>1 DEF IntactInv, Arrived
  <2>1. CASE b = a
    <3>1. a \in Runs /\ unsent'[a] = PlanTransferEnvelopes(a, es) /\ manifest'[a] = es
      BY <1>1, <1>2
    <3> QED BY <2>1, <3>1 DEF Planned
  <2>2. CASE b # a
    <3>1. b \in Started /\ b \in Runs
      BY <1>3, <1>4, <2>2
    <3>2. Planned(b)' = Planned(b) /\ unsent'[b] = unsent[b]
      BY <1>1, <1>2, <1>3, <2>2, <3>1 DEF Planned, Started
    <3> QED BY <3>1, <3>2 DEF ManifestInv, IntactInv
  <2> QED BY <2>1, <2>2
<1> QED BY <1>5, <1>6, <1>7, <1>8, <1>9 DEF ManifestInv

\* A step of the sender leaves what the receiver has.
LEMMA ReceiverUnmoved ==
    ASSUME ManifestInv, UNCHANGED <<manifest, pendingChunked, finalizing, spawned>>
    PROVE  SameFiles' /\ CollectedInv' /\ SpawnedIsSent' /\ TriedInv'
BY PlannedStays DEF ManifestInv, SameFiles, CollectedInv, SpawnedIsSent, TriedInv

\* An envelope that is sent goes from the plan to the network.
LEMMA SenderInv ==
    ASSUME ManifestInv, ManifestTypeOK', NEW a \in Runs, SendEnvelope(a) \/ SendFails(a)
    PROVE  ManifestInv'
<1>1. SameFiles' /\ CollectedInv' /\ SpawnedIsSent' /\ TriedInv'
  BY ReceiverUnmoved DEF SendEnvelope, SendFails
<1>2. IntactInv'
  <2>1. CASE SendFails(a)
    BY <2>1 DEF SendFails, IntactInv
  <2>2. CASE SendEnvelope(a)
    <3>1. /\ unsent[a] # <<>> /\ unsent' = [unsent EXCEPT ![a] = Tail(unsent[a])]
          /\ net' = net \cup {Head(unsent[a])}
          /\ UNCHANGED <<manifest, pendingChunked, finalizing, timers, spawned, spoiled>>
      BY <2>2 DEF SendEnvelope
    <3>2. DOMAIN unsent = Runs /\ unsent[a] \in Seq(Planned(a))
      BY DEF ManifestInv, ManifestTypeOK
    <3>3. Range(unsent[a]) = {Head(unsent[a])} \cup Range(Tail(unsent[a]))
      BY <3>1, <3>2, HeadAndTail
    <3>4. Started' = Started /\ \A b \in Runs : Planned(b)' = Planned(b)
      BY <3>1, PlannedStays
    <3>5. ASSUME NEW b \in Started, NEW e, e \in net \/ e \in Range(unsent[b])
          PROVE  e \in net' \/ e \in Range(unsent'[b])
      BY <3>1, <3>2, <3>3, <3>5 DEF Started
    <3>6. \A b \in Started : b \in Runs
      BY DEF Started
    <3>7. \A e : Arrived(e)' <=> Arrived(e)
      BY <3>1 DEF Arrived
    <3> QED BY <3>1, <3>4, <3>5, <3>6, <3>7 DEF ManifestInv, IntactInv
  <2> QED BY <2>1, <2>2
<1> QED BY <1>1, <1>2 DEF ManifestInv

\* What is lost, refused, dropped by a timer or by a restart spoils the run, or was of no
\* use any more.
LEMMA LostInv ==
    ASSUME ManifestInv, ManifestTypeOK',
           \/ \E m \in net : Refuse(m) \/ LoseEnvelope(m)
           \/ ChunkTimeout \/ Restart \/ UNCHANGED manifestVars
    PROVE  ManifestInv'
<1>1. CASE UNCHANGED manifestVars
  <2>1. UNCHANGED <<manifest, unsent, net, pendingChunked, finalizing, timers, spawned, spoiled>>
    BY <1>1 DEF manifestVars
  <2>2. SameFiles' /\ CollectedInv' /\ SpawnedIsSent' /\ TriedInv'
    BY <2>1, ReceiverUnmoved
  <2>3. IntactInv'
    BY <2>1, PlannedStays DEF ManifestInv, IntactInv, Arrived, Started
  <2> QED BY <2>2, <2>3 DEF ManifestInv
<1>2. ASSUME NEW m \in net, LoseEnvelope(m) PROVE ManifestInv'
  <2>1. SameFiles' /\ CollectedInv' /\ SpawnedIsSent' /\ TriedInv'
    BY <1>2, ReceiverUnmoved DEF LoseEnvelope
  <2> QED BY <1>2, <2>1 DEF LoseEnvelope, ManifestInv, IntactInv
<1>3. ASSUME NEW m \in net, Refuse(m) PROVE ManifestInv'
  <2>1. SameFiles' /\ CollectedInv' /\ SpawnedIsSent' /\ TriedInv'
    BY <1>3, ReceiverUnmoved DEF Refuse
  <2> QED BY <1>3, <2>1 DEF Refuse, ManifestInv, IntactInv
<1>4. CASE Restart
  <2>1. /\ pendingChunked' = Absent /\ finalizing' = Absent /\ spoiled' = TRUE
        /\ UNCHANGED <<manifest, unsent, net, spawned>>
    BY <1>4 DEF Restart
  <2>2. SameFiles' /\ SpawnedIsSent'
    BY <2>1, PlannedStays DEF ManifestInv, SameFiles, SpawnedIsSent
  <2> QED BY <2>1, <2>2 DEF ManifestInv, CollectedInv, TriedInv, IntactInv
<1>5. CASE ChunkTimeout
  <2>1. /\ pendingChunked' = Absent /\ spoiled' = (spoiled \/ pendingChunked # Absent)
        /\ UNCHANGED <<manifest, unsent, net, finalizing, spawned>>
    BY <1>5 DEF ChunkTimeout
  <2>2. SameFiles' /\ SpawnedIsSent' /\ CollectedInv' /\ TriedInv'
    BY <2>1, PlannedStays DEF ManifestInv, SameFiles, SpawnedIsSent, CollectedInv, TriedInv
  <2>3. IntactInv'
    <3>1. ASSUME ~spoiled' PROVE pendingChunked = Absent /\ ~spoiled
      BY <2>1, <3>1 DEF ManifestInv, ManifestTypeOK
    <3>2. Started' = Started /\ \A b \in Runs : Planned(b)' = Planned(b)
      BY <2>1, PlannedStays
    <3>3. \A b \in Started : b \in Runs
      BY DEF Started
    <3> QED BY <2>1, <3>1, <3>2, <3>3 DEF ManifestInv, IntactInv, Arrived
  <2> QED BY <2>2, <2>3 DEF ManifestInv
<1> QED BY <1>1, <1>2, <1>3, <1>4, <1>5

\* Once an envelope is collected, the others are where they were.
LEMMA OthersArrive ==
    ASSUME ManifestInv, NEW m \in net, net' = net \ {m}, UNCHANGED <<manifest, unsent>>,
           ~spoiled, spawned = {},
           \A e : Arrived(e) => Arrived(e)',
           Arrived(m)'
    PROVE  \A a \in Started' : \A e \in Planned(a)' :
                e \in net' \/ e \in Range(unsent'[a]) \/ Arrived(e)'
<1>1. Started' = Started /\ \A b \in Runs : Planned(b)' = Planned(b)
  BY PlannedStays
<1>2. \A b \in Started : b \in Runs
  BY DEF Started
<1> QED BY <1>1, <1>2 DEF ManifestInv, IntactInv

\* A whole payload is what its run sent.
LEMMA TransferInv ==
    ASSUME ManifestInv, ManifestTypeOK', NEW m \in net, HandleTransfer(m)
    PROVE  ManifestInv'
<1>1. /\ m.kind = "transfer" /\ spawned' = spawned \cup {[hash |-> m.hash, entries |-> m.entries]}
      /\ UNCHANGED <<manifest, unsent, pendingChunked, finalizing, timers, spoiled>>
  BY DEF HandleTransfer, Dispatch
<1>2. PICK a \in Started : m = Payload(a, manifest[a])
  BY <1>1, InFlight DEF ManifestInv, Payload, Header, End, Chunk
<1>3. SpawnedIsSent'
  BY <1>1, <1>2 DEF ManifestInv, SpawnedIsSent, Payload
<1>4. spawned' # {}
  BY <1>1
<1>5. SameFiles' /\ CollectedInv' /\ TriedInv'
  BY <1>1, PlannedStays DEF ManifestInv, SameFiles, CollectedInv, TriedInv
<1> QED BY <1>3, <1>4, <1>5 DEF ManifestInv, IntactInv

\* A header starts an empty collection, which is never complete.
LEMMA HeaderInv ==
    ASSUME ManifestInv, ManifestTypeOK', NEW m \in net, HandleHeader(m)
    PROVE  ManifestInv'
<1>1. /\ m.kind = "header" /\ finalizing = Absent /\ net' = net \ {m}
      /\ pendingChunked' = [hash |-> m.hash, count |-> m.count, bytes |-> m.bytes,
                            chunks |-> <<>>, expected |-> Absent]
      /\ spoiled' = (spoiled \/ pendingChunked # Absent)
      /\ UNCHANGED <<manifest, unsent, finalizing, timers, spawned>>
  BY DEF HandleHeader, Dispatch
<1>2. PICK a \in Started : a \in Runs /\ manifest[a] \in Manifests /\ m = Header(a, manifest[a])
  BY <1>1, InFlight DEF ManifestInv, Payload, Header, End, Chunk
<1>3. pendingChunked' = [hash |-> a, count |-> Len(manifest[a]), bytes |-> Bytes(manifest[a]),
                         chunks |-> <<>>, expected |-> Absent]
  BY <1>1, <1>2 DEF Header
<1>4. pendingChunked' # Absent
  BY <1>2, <1>3, ChunkedTypes, AbsentIsNoValue
<1>5. ChunksOf(pendingChunked', manifest[a]) /\ DOMAIN pendingChunked'.chunks = {}
  BY <1>3 DEF ChunksOf
<1>6. CollectedInv'
  BY <1>1, <1>3, <1>5 DEF CollectedInv, ChunksOf
<1>7. TriedInv'
  <2>1. EntriesReceived(pendingChunked') = 0
    BY <1>2, <1>5, Gathered
  <2>2. pendingChunked'.count # 0
    BY <1>2, <1>3, OfManifests
  <2> QED BY <2>1, <2>2 DEF TriedInv, IsComplete, EntriesReceived, ChunkAt
<1>8. SameFiles' /\ SpawnedIsSent'
  BY <1>1, PlannedStays DEF ManifestInv, SameFiles, SpawnedIsSent
<1>9. IntactInv'
  <2> SUFFICES ASSUME ~spoiled', spawned' = {}
               PROVE  \A b \in Started' : \A e \in Planned(b)' :
                        e \in net' \/ e \in Range(unsent'[b]) \/ Arrived(e)'
    BY DEF IntactInv
  <2>1. ~spoiled /\ pendingChunked = Absent /\ spawned = {}
    BY <1>1 DEF ManifestInv, ManifestTypeOK
  <2>2. \A e : ~Arrived(e)
    BY <2>1 DEF Arrived
  <2>3. Arrived(m)'
    BY <1>1, <1>4 DEF Arrived
  <2> QED BY <1>1, <2>1, <2>2, <2>3, OthersArrive
<1> QED BY <1>6, <1>7, <1>8, <1>9 DEF ManifestInv

\* A chunk goes under its index, whichever run sent it.
LEMMA ChunkInv ==
    ASSUME ManifestInv, ManifestTypeOK', NEW m \in net, HandleChunk(m)
    PROVE  ManifestInv'
<1> DEFINE p == pendingChunked
           new == [i \in DOMAIN p.chunks \cup {m.index} |->
                        IF i = m.index THEN m.entries ELSE p.chunks[i]]
<1>1. /\ m.kind = "chunk" /\ net' = net \ {m} /\ p # Absent
      /\ p' = [p EXCEPT !.chunks = new]
      /\ finalizing' = "chunk"
      /\ UNCHANGED <<manifest, unsent, timers, spawned, spoiled>>
  BY DEF HandleChunk, Dispatch
<1>2. p \in Chunked /\ p.hash \in Started
  BY <1>1 DEF ManifestInv, ManifestTypeOK
<1> DEFINE es == manifest[p.hash]
<1>3. PICK i \in 0..(ChunkCount(es) - 1) : m.index = i /\ m.entries = Chunks(es)[i + 1]
  <2>1. PICK a \in Started : \E i \in 0..(ChunkCount(manifest[a]) - 1) :
            m = Chunk(a, i, Chunks(manifest[a])[i + 1])
    BY <1>1, InFlight DEF ManifestInv, Payload, Header, End, Chunk
  <2>2. manifest[a] = es
    BY <1>2 DEF ManifestInv, SameFiles
  <2> QED BY <2>1, <2>2 DEF Chunk
<1>4. /\ p'.hash = p.hash /\ p'.count = p.count /\ p'.bytes = p.bytes
      /\ p'.expected = p.expected /\ p'.chunks = new
  <2> HIDE DEF new
  <2> QED BY <1>1, <1>2 DEF Chunked
<1>5. p' # Absent
  BY ChunkStored, AbsentIsNoValue DEF ManifestInv
<1>6. CollectedInv'
  <2>1. ChunksOf(p, es)
    BY <1>1 DEF ManifestInv, CollectedInv
  <2>2. ChunksOf(p', es)
    BY <1>3, <1>4, <2>1 DEF ChunksOf
  <2> HIDE DEF new
  <2> QED BY <1>1, <1>4, <2>2 DEF ManifestInv, CollectedInv, ChunksOf
<1>7. TriedInv'
  BY <1>1, AbsentIsNoValue DEF TriedInv
<1>8. SameFiles' /\ SpawnedIsSent'
  BY <1>1, PlannedStays DEF ManifestInv, SameFiles, SpawnedIsSent
<1>9. IntactInv'
  <2> SUFFICES ASSUME ~spoiled, spawned = {}
               PROVE  \A b \in Started' : \A e \in Planned(b)' :
                        e \in net' \/ e \in Range(unsent'[b]) \/ Arrived(e)'
    BY <1>1 DEF IntactInv
  <2>1. Arrived(m)' /\ \A e : Arrived(e) => Arrived(e)'
    BY <1>1, <1>4, <1>5 DEF Arrived
  <2> QED BY <1>1, <2>1, OthersArrive
<1> QED BY <1>6, <1>7, <1>8, <1>9 DEF ManifestInv

\* An end sets the count of the chunks, which all runs have in common.
LEMMA EndInv ==
    ASSUME ManifestInv, ManifestTypeOK', NEW m \in net, HandleEnd(m)
    PROVE  ManifestInv'
<1> DEFINE p == pendingChunked
           es == manifest[p.hash]
<1>1. /\ m.kind = "end" /\ net' = net \ {m} /\ p # Absent
      /\ p' = [p EXCEPT !.expected = m.count]
      /\ finalizing' = "end"
      /\ UNCHANGED <<manifest, unsent, timers, spawned, spoiled>>
  BY DEF HandleEnd, Dispatch
<1>2. p \in Chunked /\ p.hash \in Started
  BY <1>1 DEF ManifestInv, ManifestTypeOK
<1>3. m.count = ChunkCount(es)
  BY <1>2, EndStored DEF ManifestInv, SameFiles
<1>4. /\ p'.hash = p.hash /\ p'.count = p.count /\ p'.bytes = p.bytes
      /\ p'.expected = m.count /\ p'.chunks = p.chunks
  BY <1>1, <1>2 DEF Chunked
<1>5. p' # Absent
  BY EndStored, AbsentIsNoValue DEF ManifestInv
<1>6. CollectedInv'
  BY <1>1, <1>3, <1>4 DEF ManifestInv, CollectedInv, ChunksOf
<1>7. TriedInv'
  BY <1>1, AbsentIsNoValue DEF TriedInv
<1>8. SameFiles' /\ SpawnedIsSent'
  BY <1>1, PlannedStays DEF ManifestInv, SameFiles, SpawnedIsSent
<1>9. IntactInv'
  <2> SUFFICES ASSUME ~spoiled, spawned = {}
               PROVE  \A b \in Started' : \A e \in Planned(b)' :
                        e \in net' \/ e \in Range(unsent'[b]) \/ Arrived(e)'
    BY <1>1 DEF IntactInv
  <2>1. Arrived(m)' /\ \A e : Arrived(e) => Arrived(e)'
    BY <1>1, <1>4, <1>5 DEF Arrived
  <2> QED BY <1>1, <2>1, OthersArrive
<1> QED BY <1>6, <1>7, <1>8, <1>9 DEF ManifestInv

\* What is complete is the manifest of its hash, of the announced size.
LEMMA CompleteIsSent ==
    ASSUME ManifestInv, pendingChunked # Absent, IsComplete(pendingChunked)
    PROVE  /\ SortedEntries(pendingChunked) = manifest[pendingChunked.hash]
           /\ Bytes(SortedEntries(pendingChunked)) = pendingChunked.bytes
<1> DEFINE es == manifest[pendingChunked.hash]
<1>1. es \in Manifests
  BY DEF ManifestInv, ManifestTypeOK, Started
<1>2. /\ ChunksOf(pendingChunked, es) /\ pendingChunked.count = Len(es)
      /\ pendingChunked.bytes = Bytes(es)
  BY DEF ManifestInv, CollectedInv
<1>3. EntriesReceived(pendingChunked) = Len(es)
  BY <1>2 DEF IsComplete
<1> QED BY <1>1, <1>2, <1>3, Gathered

\* try_finalize hands on what was sent, or leaves what is not complete.
LEMMA FinalizeInv ==
    ASSUME ManifestInv, ManifestTypeOK', TryFinalize
    PROVE  ManifestInv'
<1>1. finalizing' = Absent /\ UNCHANGED <<manifest, unsent, net, spoiled>>
  BY DEF TryFinalize
<1>2. Started' = Started /\ SameFiles' /\ \A b \in Runs : Planned(b)' = Planned(b)
  BY <1>1, PlannedStays DEF ManifestInv, SameFiles
<1>3. CASE pendingChunked # Absent /\ IsComplete(pendingChunked)
  <2>1. /\ pendingChunked' = Absent
        /\ spawned' = spawned \cup {[hash |-> pendingChunked.hash,
                                    entries |-> SortedEntries(pendingChunked)]}
    BY <1>3, CompleteIsSent DEF TryFinalize
  <2>2. SortedEntries(pendingChunked) = manifest[pendingChunked.hash]
    BY <1>3, CompleteIsSent
  <2>3. SpawnedIsSent'
    BY <1>1, <2>1, <2>2 DEF ManifestInv, SpawnedIsSent
  <2>4. spawned' # {}
    BY <2>1
  <2> QED BY <1>2, <2>1, <2>3, <2>4 DEF ManifestInv, CollectedInv, TriedInv, IntactInv
<1>4. CASE ~(pendingChunked # Absent /\ IsComplete(pendingChunked))
  <2>1. UNCHANGED <<pendingChunked, spawned>>
    BY <1>4 DEF TryFinalize
  <2>2. CollectedInv' /\ SpawnedIsSent'
    BY <1>1, <2>1 DEF ManifestInv, CollectedInv, SpawnedIsSent
  <2>3. TriedInv'
    BY <1>4, <2>1 DEF TriedInv
  <2>4. IntactInv'
    <3>1. \A b \in Started : b \in Runs
      BY DEF Started
    <3> QED BY <1>1, <1>2, <2>1, <3>1 DEF ManifestInv, IntactInv, Arrived
  <2> QED BY <1>2, <2>2, <2>3, <2>4 DEF ManifestInv
<1> QED BY <1>3, <1>4

\* Every step keeps the invariant, if the files are the same for all runs.
LEMMA ManifestInvInductive ==
    ASSUME ~FilesChange
    PROVE  ManifestInv /\ [ManifestNext]_manifestVars => ManifestInv'
<1> SUFFICES ASSUME ManifestInv, [ManifestNext]_manifestVars PROVE ManifestInv'
  OBVIOUS
<1>1. ManifestTypeOK'
  BY ManifestTypeStep DEF ManifestInv
<1>2. ASSUME NEW a \in Runs, NEW es \in Manifests, StartAttempt(a, es) PROVE ManifestInv'
  BY <1>1, <1>2, StartInv
<1>3. ASSUME NEW a \in Runs, SendEnvelope(a) \/ SendFails(a) PROVE ManifestInv'
  BY <1>1, <1>3, SenderInv
<1>4. ASSUME NEW m \in net, HandleTransfer(m) PROVE ManifestInv'
  BY <1>1, <1>4, TransferInv
<1>5. ASSUME NEW m \in net, HandleHeader(m) PROVE ManifestInv'
  BY <1>1, <1>5, HeaderInv
<1>6. ASSUME NEW m \in net, HandleChunk(m) PROVE ManifestInv'
  BY <1>1, <1>6, ChunkInv
<1>7. ASSUME NEW m \in net, HandleEnd(m) PROVE ManifestInv'
  BY <1>1, <1>7, EndInv
<1>8. CASE TryFinalize
  BY <1>1, <1>8, FinalizeInv
<1>9. CASE \/ \E m \in net : Refuse(m) \/ LoseEnvelope(m)
           \/ ChunkTimeout \/ Restart \/ UNCHANGED manifestVars
  BY <1>1, <1>9, LostInv
<1> QED BY <1>2, <1>3, <1>4, <1>5, <1>6, <1>7, <1>8, <1>9 DEF ManifestNext

----------------------------------------------------------------------------
(* The theorems.                                                            *)

\* The chunks collected and the envelopes under way are typed, in any order of delivery
\* (manifest.rs:91, feature.rs:575).
THEOREM ManifestTyped == ManifestSpec => []ManifestTypeOK
<1>1. ManifestInit => ManifestTypeOK
  BY ManifestInitType
<1>2. ManifestTypeOK /\ [ManifestNext]_manifestVars => ManifestTypeOK'
  BY ManifestTypeStep
<1> QED BY <1>1, <1>2, PTL DEF ManifestSpec

\* The chunks of plan_transfer_envelopes hold every entry once and in order and fit their
\* frames, for every manifest and all frame sizes (manifest.rs:42).
THEOREM PlanExact == ManifestSpec => []PlanIsExact
<1>1. ManifestTypeOK => PlanIsExact
  <2> SUFFICES ASSUME ManifestTypeOK, NEW a \in Started
               PROVE  /\ FlattenSeq(Chunks(manifest[a])) = manifest[a]
                      /\ \A i \in DOMAIN Chunks(manifest[a]) :
                            /\ Wire(Chunks(manifest[a])[i]) <= ChunkRoom
                            /\ Len(Chunks(manifest[a])[i]) <= InitialChunkEntries
    BY DEF PlanIsExact
  <2>1. manifest[a] \in Manifests
    BY DEF ManifestTypeOK, Started
  <2> QED BY <2>1, ChunksJoin, ChunksFit
<1> QED BY <1>1, ManifestTyped, PTL

\* If the files do not change between the runs, the transfer handler gets what the run with
\* that collection hash sent, however chunks of the runs mix (manifest.rs:128).
THEOREM SpawnedSent == ASSUME ~FilesChange PROVE ManifestSpec => []SpawnedIsSent
<1>1. ManifestInit => ManifestInv
  BY ManifestInitInv
<1>2. ManifestInv /\ [ManifestNext]_manifestVars => ManifestInv'
  BY ManifestInvInductive
<1>3. ManifestInv => SpawnedIsSent
  BY DEF ManifestInv
<1> QED BY <1>1, <1>2, <1>3, PTL DEF ManifestSpec

\* When all has come and nothing is handed on, what is collected would be complete.
LEMMA IntactFinished == ManifestInv => IntactManifestIsSpawned
<1> SUFFICES ASSUME ManifestInv, Started # {}, ~spoiled, net = {}, finalizing = Absent,
                    \A a \in Runs : unsent[a] = <<>>,
                    spawned = {}
             PROVE  FALSE
  BY DEF IntactManifestIsSpawned
<1>1. PICK a \in Started : a \in Runs
  BY DEF Started
<1> DEFINE es == manifest[a]
           c == ChunkCount(es)
<1>2. \A e \in Planned(a) : Arrived(e)
  <2>1. Range(unsent[a]) = {}
    BY <1>1 DEF Range
  <2> QED BY <1>1, <2>1 DEF ManifestInv, IntactInv
<1>3. es \in Manifests /\ Planned(a) = Range(PlanTransferEnvelopes(a, es))
  BY <1>1 DEF ManifestInv, ManifestTypeOK, Started, Planned
<1>4. CASE Wire(es) <= TransferRoom
  <2>1. Payload(a, es) \in Planned(a)
    BY <1>3, <1>4, PlanMembers
  <2> QED BY <1>2, <2>1 DEF Arrived, Payload
<1>5. CASE ~(Wire(es) <= TransferRoom)
  <2>1. Planned(a) = {Header(a, es), End(a, c)} \cup {Chunk(a, i - 1, Chunks(es)[i]) : i \in 1..c}
    BY <1>3, <1>5, PlanMembers
  <2>2. pendingChunked # Absent
    BY <1>2, <2>1 DEF Arrived
  <2>3. c \in 1..MaxEntries /\ MaxEntries \in Nat
    BY <1>3, ChunksCounted, OfManifests
  <2>4. /\ pendingChunked.hash \in Started /\ manifest[pendingChunked.hash] = es
        /\ pendingChunked.count = Len(es) /\ pendingChunked.expected \in {Absent, c}
        /\ ChunksOf(pendingChunked, es)
    BY <1>1, <2>2 DEF ManifestInv, ManifestTypeOK, SameFiles, CollectedInv
  <2>5. DOMAIN pendingChunked.chunks = 0..(c - 1)
    <3>1. ASSUME NEW k \in 0..(c - 1) PROVE k \in DOMAIN pendingChunked.chunks
      <4>1. k + 1 \in 1..c /\ (k + 1) - 1 = k
        BY <2>3
      <4>2. Chunk(a, k, Chunks(es)[k + 1]) \in Planned(a)
        BY <2>1, <4>1
      <4> QED BY <1>2, <4>2 DEF Arrived, Chunk
    <3> QED BY <2>4, <3>1 DEF ChunksOf
  <2>6. EntriesReceived(pendingChunked) = Len(es)
    BY <1>3, <2>4, <2>5, Gathered
  <2>7. Cardinality(DOMAIN pendingChunked.chunks) = c
    <3>1. Cardinality(0..(c - 1)) = c
      BY <2>3, FS_Interval
    <3> QED BY <2>5, <3>1
  <2>8. IsComplete(pendingChunked)
    BY <2>4, <2>6, <2>7 DEF IsComplete
  <2> QED BY <2>2, <2>8 DEF ManifestInv, TriedInv
<1> QED BY <1>4, <1>5

\* Under the same condition, a manifest of which nothing was lost is handed on once its last
\* envelope is handled, in any order of header, chunks and end that is not refused
\* (feature.rs:591, 597).
THEOREM IntactSpawned == ASSUME ~FilesChange PROVE ManifestSpec => []IntactManifestIsSpawned
<1>1. ManifestInit => ManifestInv
  BY ManifestInitInv
<1>2. ManifestInv /\ [ManifestNext]_manifestVars => ManifestInv'
  BY ManifestInvInductive
<1> QED BY <1>1, <1>2, IntactFinished, PTL DEF ManifestSpec
=============================================================================
