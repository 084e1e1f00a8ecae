--------------------------- MODULE SrcCacheProofs ---------------------------
(***************************************************************************)
(* No lane of the source cache ever carries a property that was in the     *)
(* window before the line of its source came, for every number of          *)
(* elements, size of a window and depth of a stream, and for every sorted  *)
(* stream of sources; and where no burst is left out every lane carries    *)
(* the property of its source.                                             *)
(***************************************************************************)
EXTENDS SrcCacheInvariant, FiniteSetTheorems, WellFoundedInduction, TLAPS

-----------------------------------------------------------------------------
(* Natural numbers, sets of them, and sequences. *)

LEMMA LeastNatural ==
    ASSUME NEW S \in SUBSET Nat, S # {}
    PROVE  \E n \in S : \A m \in S : n <= m
  <1> DEFINE Below == {1 .. n : n \in S}
             Sub == StrictSubsetOrdering(Nat)
  <1>1. Below \subseteq FiniteSubsetsOf(Nat)
    <2> SUFFICES ASSUME NEW n \in S
                 PROVE  1 .. n \in FiniteSubsetsOf(Nat)
      OBVIOUS
    <2>1. n \in Nat /\ 1 .. n \in SUBSET Nat
      OBVIOUS
    <2>2. IsFiniteSet(1 .. n)
      BY <2>1, FS_Interval
    <2> QED BY <2>1, <2>2 DEF FiniteSubsetsOf
  <1>2. Below # {}
    OBVIOUS
  <1>3. IsWellFoundedOn(Sub, FiniteSubsetsOf(Nat))
    BY FS_StrictSubsetOrderingWellFounded
  <1>4. PICK B \in Below : \A C \in Below : <<C, B>> \notin Sub
    <2> HIDE DEF Below, Sub
    <2> QED BY <1>1, <1>2, <1>3, WFMin
  <1>5. PICK n \in S : B = 1 .. n
    OBVIOUS
  <1>6. ASSUME NEW m \in S
        PROVE  n <= m
    <2> SUFFICES ASSUME m < n
                 PROVE  FALSE
      OBVIOUS
    <2>1. 1 .. m \subseteq 1 .. n /\ n \in 1 .. n /\ n \notin 1 .. m
      OBVIOUS
    <2>2. <<1 .. m, 1 .. n>> \in Sub
      BY <2>1, 1 .. m \in SUBSET Nat, 1 .. n \in SUBSET Nat DEF StrictSubsetOrdering
    <2> QED BY <1>4, <1>5, <2>2
  <1> QED BY <1>6

LEMMA TimesMonotone ==
    ASSUME NEW x \in Nat, NEW y \in Nat, x <= y, NEW d \in Nat
    PROVE  x * d <= y * d
  <1>1. PICK z \in Nat : y = x + z
    OBVIOUS
  <1>2. (x + z) * d = x * d + z * d
    OBVIOUS
  <1>3. x * d \in Nat /\ z * d \in Nat
    OBVIOUS
  <1> QED BY <1>1, <1>2, <1>3

LEMMA TimesNext ==
    ASSUME NEW x \in Nat, NEW y \in Nat, x + 1 <= y, NEW d \in Nat
    PROVE  /\ x * d \in Nat /\ y * d \in Nat
           /\ (x + 1) * d = x * d + d /\ (x + 1) * d \in Nat
           /\ x * d + d <= y * d
  <1>1. (x + 1) * d <= y * d
    BY TimesMonotone, x + 1 \in Nat
  <1>2. (x + 1) * d = x * d + d /\ x * d \in Nat /\ y * d \in Nat
    OBVIOUS
  <1> QED BY <1>1, <1>2

LEMMA Division ==
    ASSUME NEW c \in Nat \ {0}, NEW n \in Nat
    PROVE  /\ n \div c \in Nat /\ n % c \in 0 .. c - 1
           /\ (n \div c) * c \in Nat
           /\ n = (n \div c) * c + (n % c)
  OBVIOUS

LEMMA Quotient ==
    ASSUME NEW c \in Nat \ {0}, NEW q \in Nat, NEW r \in 0 .. c - 1
    PROVE  (q * c + r) \div c = q /\ (q * c + r) % c = r
  <1>1. PICK p \in Nat : p = q * c
    OBVIOUS
  <1> DEFINE a == p + r
             k == a \div c
  <1>2. a \in Nat
    BY <1>1
  <1>3. k \in Nat /\ a = k * c + (a % c) /\ a % c \in 0 .. c - 1
    BY <1>2
  <1>4. PICK m \in Nat : m = k * c
    BY <1>3
  <1> HIDE DEF k
  <1>5. ~(k + 1 <= q)
    <2> SUFFICES ASSUME k + 1 <= q
                 PROVE  FALSE
      OBVIOUS
    <2>1. (k + 1) * c <= q * c
      BY <1>3, TimesMonotone
    <2>2. (k + 1) * c = m + c
      BY <1>3, <1>4
    <2> QED BY <1>1, <1>3, <1>4, <2>1, <2>2
  <1>6. ~(q + 1 <= k)
    <2> SUFFICES ASSUME q + 1 <= k
                 PROVE  FALSE
      OBVIOUS
    <2>1. (q + 1) * c <= k * c
      BY <1>3, TimesMonotone
    <2>2. (q + 1) * c = p + c
      BY <1>1
    <2> QED BY <1>1, <1>3, <1>4, <2>1, <2>2
  <1>7. k = q
    BY <1>3, <1>5, <1>6
  <1>8. a = p + (a % c)
    BY <1>1, <1>3, <1>7
  <1> QED BY <1>1, <1>3, <1>7, <1>8 DEF k

\* Division keeps the order of two numbers.
LEMMA DivMonotone ==
    ASSUME NEW c \in Nat \ {0}, NEW m \in Nat, NEW n \in Nat, m <= n
    PROVE  m \div c <= n \div c
  <1>1. PICK a \in Nat, x \in Nat, r \in 0 .. c - 1 : a = m \div c /\ x = a * c /\ m = x + r
    BY Division
  <1>2. PICK b \in Nat, y \in Nat, s \in 0 .. c - 1 : b = n \div c /\ y = b * c /\ n = y + s
    BY Division
  <1> SUFFICES ASSUME b + 1 <= a
               PROVE  FALSE
    BY <1>1, <1>2
  <1>3. (b + 1) * c <= a * c
    BY TimesMonotone
  <1>4. (b + 1) * c = y + c
    BY <1>2
  <1> QED BY <1>1, <1>2, <1>3, <1>4

\* The next number is in the same group, or the first one of the next group.
LEMMA NextDivision ==
    ASSUME NEW c \in Nat \ {0}, NEW n \in Nat
    PROVE  \/ /\ (n + 1) \div c = n \div c /\ (n + 1) % c = (n % c) + 1
              /\ n % c # c - 1
           \/ /\ (n + 1) \div c = (n \div c) + 1 /\ (n + 1) % c = 0
              /\ n % c = c - 1
  <1>1. PICK q \in Nat, r \in 0 .. c - 1 : q = n \div c /\ r = n % c /\ n = q * c + r
    BY Division
  <1>2. CASE r = c - 1
    <2>1. n + 1 = (q + 1) * c + 0
      BY <1>1, <1>2
    <2>2. ((q + 1) * c + 0) \div c = q + 1 /\ ((q + 1) * c + 0) % c = 0
      BY q + 1 \in Nat, 0 \in 0 .. c - 1, Quotient
    <2> QED BY <1>1, <1>2, <2>1, <2>2
  <1>3. CASE r # c - 1
    <2>1. n + 1 = q * c + (r + 1) /\ r + 1 \in 0 .. c - 1
      BY <1>1, <1>3
    <2>2. (q * c + (r + 1)) \div c = q /\ (q * c + (r + 1)) % c = r + 1
      BY <2>1, Quotient
    <2> QED BY <1>1, <1>3, <2>1, <2>2
  <1> QED BY <1>2, <1>3

LEMMA Smaller ==
    ASSUME NEW S, NEW T, IsFiniteSet(T), S \subseteq T
    PROVE  /\ Cardinality(S) \in Nat /\ Cardinality(T) \in Nat
           /\ Cardinality(S) <= Cardinality(T)
           /\ S # T => Cardinality(S) < Cardinality(T)
  <1>1. IsFiniteSet(S) /\ Cardinality(S) <= Cardinality(T)
        /\ (Cardinality(S) = Cardinality(T) => S = T)
    BY FS_Subset
  <1>2. Cardinality(S) \in Nat /\ Cardinality(T) \in Nat
    BY <1>1, FS_CardinalityType
  <1> QED BY <1>1, <1>2

-----------------------------------------------------------------------------
(* The constants, and the vectors of a stream. *)

LEMMA Constants ==
    /\ PE_NUM \in Nat \ {0} /\ CACHE_LINES \in Nat \ {0} /\ StreamDepth \in Nat \ {0}
    /\ BURST \in Nat \ {0, 1} /\ End \in Nat \ {0} /\ End % BURST = 0
    /\ 2 * PE_NUM \in Nat \ {0, 1}
  <1>1. /\ PE_NUM \in Nat \ {0} /\ CACHE_LINES \in Nat \ {0} /\ StreamDepth \in Nat \ {0}
        /\ BURST \in Nat \ {0, 1} /\ End \in Nat \ {0} /\ End % BURST = 0
    BY SrcCacheAssumption DEF SrcCacheAssumption
  <1> QED BY <1>1

(* The burst that vertex 0xFFFFFFFF lies in begins with it, and no line     *)
(* lies in it.                                                             *)
LEMMA EndBurst ==
    /\ End \div BURST \in Nat /\ (End \div BURST) * BURST = End
    /\ \A l \in Line : l \div BURST \in Nat /\ l \div BURST < End \div BURST
  <1>1. BURST \in Nat \ {0} /\ End \in Nat /\ End % BURST = 0
    BY Constants
  <1>2. /\ End \div BURST \in Nat /\ (End \div BURST) * BURST \in Nat
        /\ End = (End \div BURST) * BURST + (End % BURST)
    BY <1>1, Division
  <1>3. (End \div BURST) * BURST = End
    BY <1>1, <1>2
  <1>4. ASSUME NEW l \in Line
        PROVE  l \div BURST \in Nat /\ l \div BURST < End \div BURST
    <2>1. l \in Nat /\ l < End
      BY <1>1, <1>4 DEF Line
    <2>2. PICK e \in Nat : e = End \div BURST /\ e * BURST = End
      BY <1>2, <1>3
    <2>5. /\ l \div BURST \in Nat /\ l % BURST \in 0 .. BURST - 1
          /\ (l \div BURST) * BURST \in Nat /\ l = (l \div BURST) * BURST + (l % BURST)
      BY <1>1, <2>1, Division
    <2>3. PICK a \in Nat, x \in Nat, r \in Nat : a = l \div BURST /\ x = a * BURST /\ l = x + r
      BY <1>1, <2>5
    <2> SUFFICES ASSUME e <= a
                 PROVE  FALSE
      BY <2>2, <2>3
    <2>4. e * BURST <= a * BURST
      BY <1>1, TimesMonotone
    <2> QED BY <1>1, <2>1, <2>2, <2>3, <2>4
  <1> QED BY <1>2, <1>3, <1>4

LEMMA Stream ==
    ASSUME source \in Input
    PROVE  /\ Len(source) \in Nat \ {0} /\ DOMAIN source = 1 .. Len(source)
           /\ IsEnd(source[Len(source)])
           /\ \A k \in 1 .. Len(source) :
                 /\ source[k] \in [Lane -> Line \cup {End}]
                 /\ IsEnd(source[k]) \/ source[k] \in [Lane -> Line]
  <1>1. /\ source \in Seq([Lane -> Line \cup {End}])
        /\ source # <<>> /\ IsEnd(source[Len(source)])
        /\ \A k \in DOMAIN source : IsEnd(source[k]) \/ source[k] \in [Lane -> Line]
    BY SrcCacheAssumption DEF SrcCacheAssumption
  <1>2. Len(source) \in Nat \ {0} /\ DOMAIN source = 1 .. Len(source)
    BY <1>1
  <1>3. \A k \in 1 .. Len(source) : source[k] \in [Lane -> Line \cup {End}]
    BY <1>1
  <1> QED BY <1>1, <1>2, <1>3

\* The flags of vectors: what is no end has lines in all lanes.
LEMMA EndLanes ==
    ASSUME source \in Input, NEW k \in 1 .. Len(source), NEW l \in Lane
    PROVE  /\ ~IsEnd(source[k]) => source[k][l] \in Line
           /\ IsEnd(source[k]) => source[k][l] = End
           /\ source[k][l] \in Nat /\ source[k][l] <= End
           /\ (source[k][l] = End) <=> IsEnd(source[k])
  <1>1. IsEnd(source[k]) \/ source[k] \in [Lane -> Line]
    BY Stream
  <1>2. IsEnd(source[k]) => source[k][l] = End
    BY DEF IsEnd
  <1>3. source[k] \in [Lane -> Line] => source[k][l] \in Line
    OBVIOUS
  <1>4. End \in Nat /\ \A x \in Line : x \in Nat /\ x < End
    BY Constants DEF Line
  <1> QED BY <1>1, <1>2, <1>3, <1>4

LEMMA Order ==
    ASSUME source \in Input, NEW k \in 1 .. Len(source), NEW l \in Lane
    PROVE  /\ \A m \in l .. 2 * PE_NUM : source[k][l] <= source[k][m]
           /\ k > 1 /\ ~IsEnd(source[k - 1]) => source[k - 1][2 * PE_NUM] <= source[k][l]
           /\ IsEnd(source[k]) =>
                 k > 2 /\ ~IsEnd(source[k - 1]) /\ ~IsEnd(source[k - 2])
  <1>1. SortedAndPadded(source)
    BY SrcCacheAssumption DEF SrcCacheAssumption
  <1>2. k \in DOMAIN source
    BY Stream
  <1>3. IsEnd(source[k]) => \A j \in k - 2 .. k - 1 : ~IsEnd(source[j])
    BY <1>2, SrcCacheAssumption DEF SrcCacheAssumption
  <1>4. k \in Nat
    BY Stream
  <1>5. k - 2 \in k - 2 .. k - 1 /\ k - 1 \in k - 2 .. k - 1
    BY <1>4
  <1> QED BY <1>1, <1>2, <1>3, <1>5 DEF SortedAndPadded

-----------------------------------------------------------------------------
(* Runs. *)

LEMMA RunStep ==
    ASSUME NEW k \in Nat \ {0}
    PROVE  /\ RunOf(k) \in 1 .. k
           /\ RunOf(k + 1) = IF IsEnd(source[k]) THEN RunOf(k) + 1 ELSE RunOf(k)
  <1> DEFINE S(n) == {j \in 1 .. n - 1 : IsEnd(source[j])}
  <1>1. IsFiniteSet(1 .. k - 1) /\ Cardinality(1 .. k - 1) = k - 1
    BY FS_Interval
  <1>2. S(k) \subseteq 1 .. k - 1
    OBVIOUS
  <1>3. IsFiniteSet(S(k))
    BY <1>1, <1>2, FS_Subset
  <1>4. Cardinality(S(k)) \in Nat /\ Cardinality(S(k)) <= k - 1
    <2> HIDE DEF S
    <2> QED BY <1>1, <1>2, Smaller
  <1>5. RunOf(k) = Cardinality(S(k)) + 1 /\ RunOf(k + 1) = Cardinality(S(k + 1)) + 1
    BY DEF RunOf
  <1>6. CASE IsEnd(source[k])
    <2>1. S(k + 1) = S(k) \cup {k} /\ k \notin S(k)
      BY <1>6
    <2>2. Cardinality(S(k) \cup {k}) = Cardinality(S(k)) + 1
      <3> HIDE DEF S
      <3> QED BY <1>3, <2>1, FS_AddElement
    <2>3. Cardinality(S(k + 1)) = Cardinality(S(k)) + 1
      BY <2>1, <2>2
    <2> HIDE DEF S
    <2> QED BY <1>4, <1>5, <1>6, <2>3
  <1>7. CASE ~IsEnd(source[k])
    <2>1. S(k + 1) = S(k)
      BY <1>7
    <2> HIDE DEF S
    <2> QED BY <1>4, <1>5, <1>7, <2>1
  <1> QED BY <1>6, <1>7

LEMMA FirstRun == RunOf(1) = 1
  BY RunStep, 1 \in Nat \ {0}

LEMMA RunMonotone ==
    ASSUME NEW j \in Nat \ {0}, NEW k \in Nat, j <= k
    PROVE  RunOf(j) <= RunOf(k) /\ RunOf(j) \in Nat /\ RunOf(k) \in Nat
  <1> DEFINE S == {i \in 1 .. j - 1 : IsEnd(source[i])}
             T == {i \in 1 .. k - 1 : IsEnd(source[i])}
  <1>1. S \subseteq T /\ T \subseteq 1 .. k - 1
    OBVIOUS
  <1>2. IsFiniteSet(T)
    <2>1. IsFiniteSet(1 .. k - 1)
      BY FS_Interval
    <2> HIDE DEF T
    <2> QED BY <1>1, <2>1, FS_Subset
  <1>3. Cardinality(S) <= Cardinality(T) /\ Cardinality(S) \in Nat /\ Cardinality(T) \in Nat
    <2> HIDE DEF S, T
    <2> QED BY <1>1, <1>2, Smaller
  <1>4. RunOf(j) = Cardinality(S) + 1 /\ RunOf(k) = Cardinality(T) + 1
    BY DEF RunOf
  <1> HIDE DEF S, T
  <1> QED BY <1>3, <1>4

\* A run ends with the first vector of ends.
LEMMA RunEnds ==
    ASSUME NEW j \in Nat \ {0}, NEW m \in Nat, NEW k \in Nat, j <= m, m < k,
           IsEnd(source[m])
    PROVE  RunOf(j) < RunOf(k)
  <1>1. RunOf(j) <= RunOf(m) /\ RunOf(m + 1) <= RunOf(k)
        /\ {RunOf(j), RunOf(m), RunOf(m + 1), RunOf(k)} \subseteq Nat
    BY RunMonotone
  <1>2. RunOf(m + 1) = RunOf(m) + 1
    BY RunStep
  <1> QED BY <1>1, <1>2

LEMMA SameRunNoEnd ==
    ASSUME NEW j \in Nat \ {0}, NEW m \in Nat, NEW k \in Nat, j <= m, m < k,
           RunOf(j) = RunOf(k)
    PROVE  ~IsEnd(source[m]) /\ RunOf(m) = RunOf(k)
  <1>1. RunOf(j) <= RunOf(m) /\ RunOf(m) <= RunOf(k)
        /\ {RunOf(j), RunOf(m), RunOf(k)} \subseteq Nat
    BY RunMonotone
  <1>2. IsEnd(source[m]) => RunOf(j) < RunOf(k)
    BY RunEnds
  <1> QED BY <1>1, <1>2

LEMMA NoEndSameRun ==
    ASSUME NEW j \in Nat \ {0}, NEW k \in Nat, j <= k,
           \A m \in j .. k - 1 : ~IsEnd(source[m])
    PROVE  RunOf(j) = RunOf(k)
  <1> DEFINE S == {i \in 1 .. j - 1 : IsEnd(source[i])}
             T == {i \in 1 .. k - 1 : IsEnd(source[i])}
  <1>1. S = T
    OBVIOUS
  <1> QED BY <1>1 DEF RunOf

-----------------------------------------------------------------------------
(* Sources in the order of the stream. *)

Sources == 0 .. Len(source) * (2 * PE_NUM) - 1

LEMMA WidthOf ==
    ASSUME StreamInv
    PROVE  R!Width = 2 * PE_NUM
  <1>1. 1 \in DOMAIN source
    BY Stream DEF StreamInv
  <1> DEFINE v == [l \in Lane |-> source[1][l] \div BURST]
             n == 2 * PE_NUM
  <1>2. input[1] = v
    BY <1>1 DEF StreamInv
  <1>3. n \in Nat
    BY Constants
  <1>4. DOMAIN v = 1 .. n
    BY DEF Lane
  <1> HIDE DEF v, n
  <1>5. Len(v) = n
    BY <1>3, <1>4
  <1> QED BY <1>2, <1>5 DEF R!Width, n

LEMMA Source ==
    ASSUME StreamInv, NEW x \in Sources
    PROVE  /\ x \in Nat
           /\ VectorOf(x) \in 1 .. Len(source) /\ (x % (2 * PE_NUM)) + 1 \in Lane
           /\ LineOf(x) \in Nat /\ LineOf(x) <= End
           /\ (LineOf(x) = End) <=> IsEnd(source[VectorOf(x)])
           /\ ~IsEnd(source[VectorOf(x)]) => LineOf(x) \in Line
  <1>1. PICK w \in Nat \ {0}, n \in Nat : w = 2 * PE_NUM /\ n = Len(source)
    BY Constants, Stream DEF StreamInv
  <1>2. x \in Nat /\ x < n * w
    BY <1>1 DEF Sources
  <1>3. /\ x \div w \in Nat /\ x % w \in 0 .. w - 1
        /\ (x \div w) * w \in Nat /\ x = (x \div w) * w + (x % w)
    BY <1>2, Division
  <1>4. x \div w < n
    <2> SUFFICES ASSUME n <= x \div w
                 PROVE  FALSE
      BY <1>1, <1>3
    <2>1. n * w <= (x \div w) * w
      BY <1>1, <1>3, TimesMonotone
    <2>2. n * w \in Nat
      BY <1>1
    <2> QED BY <1>1, <1>2, <1>3, <2>1, <2>2
  <1>5. (x \div w) + 1 \in 1 .. n /\ (x % w) + 1 \in 1 .. w
    <2>1. PICK q \in Nat, r \in 0 .. w - 1 : q = x \div w /\ r = x % w
      BY <1>3
    <2> QED BY <1>4, <2>1
  <1>6. VectorOf(x) \in 1 .. Len(source) /\ (x % (2 * PE_NUM)) + 1 \in Lane
    BY <1>1, <1>5 DEF VectorOf, Lane
  <1> QED BY <1>2, <1>6, EndLanes DEF LineOf, StreamInv

LEMMA BurstOf ==
    ASSUME StreamInv, NEW x \in Sources
    PROVE  /\ R!Burst(x) = LineOf(x) \div BURST /\ R!Burst(x) \in Nat
           /\ R!Burst(x) <= End \div BURST
           /\ (R!Burst(x) = End \div BURST) <=> IsEnd(source[VectorOf(x)])
  <1>1. R!Burst(x) = input[VectorOf(x)][(x % (2 * PE_NUM)) + 1]
    BY WidthOf DEF R!Burst, VectorOf
  <1>2. VectorOf(x) \in DOMAIN source /\ (x % (2 * PE_NUM)) + 1 \in Lane
    BY Source, Stream DEF StreamInv
  <1>3. R!Burst(x) = LineOf(x) \div BURST
    BY <1>1, <1>2 DEF StreamInv, LineOf
  <1>4. CASE IsEnd(source[VectorOf(x)])
    <2>1. LineOf(x) = End
      BY <1>4, Source
    <2> QED BY <1>3, <1>4, <2>1, EndBurst
  <1>5. CASE ~IsEnd(source[VectorOf(x)])
    <2>1. LineOf(x) \in Line
      BY <1>5, Source
    <2> QED BY <1>3, <1>5, <2>1, EndBurst
  <1> QED BY <1>4, <1>5

LEMMA SourceBelow ==
    ASSUME StreamInv, NEW x \in Sources, NEW y \in Nat, y <= x
    PROVE  y \in Sources
  <1>1. Len(source) \in Nat /\ 2 * PE_NUM \in Nat
    BY Stream, Constants DEF StreamInv
  <1>2. PICK n \in Nat : n = Len(source) * (2 * PE_NUM)
    BY <1>1
  <1>3. x \in 0 .. n - 1
    BY <1>2 DEF Sources
  <1>4. y \in 0 .. n - 1
    BY <1>2, <1>3
  <1> QED BY <1>2, <1>4 DEF Sources

\* Every lane of a vector is a source.
LEMMA SourceOfLane ==
    ASSUME StreamInv, NEW k \in 1 .. Len(source), NEW l \in Lane
    PROVE  \E x \in Sources :
              /\ VectorOf(x) = k /\ (x % (2 * PE_NUM)) + 1 = l
              /\ LineOf(x) = source[k][l]
  <1>1. PICK w \in Nat \ {0}, n \in Nat : w = 2 * PE_NUM /\ n = Len(source)
    BY Constants, Stream DEF StreamInv
  <1>2. PICK q \in Nat, r \in 0 .. w - 1 : k = q + 1 /\ l = r + 1 /\ q < n
    BY <1>1 DEF Lane
  <1>3. PICK p \in Nat : p = q * w
    BY <1>1
  <1>4. (q + 1) * w <= n * w /\ (q + 1) * w = p + w /\ n * w \in Nat
    BY <1>2, <1>3, TimesMonotone
  <1> DEFINE x == p + r
  <1>5. x \in Sources
    <2>1. PICK m \in Nat : m = n * w
      BY <1>4
    <2>4. p + w <= m
      BY <1>4, <2>1
    <2>2. x \in 0 .. m - 1
      BY <2>4
    <2>3. m = Len(source) * (2 * PE_NUM)
      BY <1>1, <2>1
    <2> QED BY <2>2, <2>3 DEF Sources
  <1>6. x \div w = q /\ x % w = r
    BY <1>3, Quotient
  <1>7. VectorOf(x) = k /\ (x % (2 * PE_NUM)) + 1 = l
    BY <1>1, <1>2, <1>6 DEF VectorOf
  <1>8. LineOf(x) = source[k][l]
    BY <1>7 DEF LineOf
  <1> QED BY <1>5, <1>7, <1>8

LEMMA VectorMonotone ==
    ASSUME NEW x \in Nat, NEW y \in Nat, x <= y
    PROVE  VectorOf(x) <= VectorOf(y) /\ VectorOf(x) \in Nat \ {0} /\ VectorOf(y) \in Nat \ {0}
  <1>1. x \div (2 * PE_NUM) <= y \div (2 * PE_NUM)
    BY Constants, DivMonotone
  <1>2. x \div (2 * PE_NUM) \in Nat /\ y \div (2 * PE_NUM) \in Nat
    BY Constants, Division
  <1> QED BY <1>1, <1>2 DEF VectorOf

\* Two sources of a run have only sources of that run between them.
LEMMA RunBetween ==
    ASSUME NEW x \in Nat, NEW y \in Nat, NEW z \in Nat, x <= y, y <= z,
           RunOf(VectorOf(x)) = RunOf(VectorOf(z))
    PROVE  /\ RunOf(VectorOf(y)) = RunOf(VectorOf(z))
           /\ VectorOf(y) < VectorOf(z) => ~IsEnd(source[VectorOf(y)])
  <1>1. VectorOf(x) <= VectorOf(y) /\ VectorOf(y) <= VectorOf(z)
        /\ {VectorOf(x), VectorOf(y), VectorOf(z)} \subseteq Nat \ {0}
    BY VectorMonotone
  <1>2. CASE VectorOf(y) = VectorOf(z)
    BY <1>1, <1>2
  <1>3. CASE VectorOf(y) < VectorOf(z)
    BY <1>1, <1>3, SameRunNoEnd
  <1> QED BY <1>1, <1>2, <1>3

\* Two sources in a row of a run.
LEMMA NextSource ==
    ASSUME StreamInv, NEW x \in Sources, x + 1 \in Sources,
           RunOf(VectorOf(x)) = RunOf(VectorOf(x + 1))
    PROVE  /\ LineOf(x) <= LineOf(x + 1)
           /\ Dense(source) /\ ~IsEnd(source[VectorOf(x + 1)]) =>
                 LineOf(x + 1) \div BURST <= (LineOf(x) \div BURST) + 1
  <1>1. PICK w \in Nat \ {0, 1} : w = 2 * PE_NUM
    BY Constants
  <1>2. x \in Nat /\ x + 1 \in Nat /\ VectorOf(x) \in 1 .. Len(source)
        /\ VectorOf(x + 1) \in 1 .. Len(source)
    BY Source
  <1>3. PICK k \in 1 .. Len(source), l \in Lane :
            k = VectorOf(x) /\ l = (x % w) + 1 /\ LineOf(x) = source[k][l]
    BY <1>1, Source DEF LineOf
  <1>4. PICK k1 \in 1 .. Len(source), l1 \in Lane :
            /\ k1 = VectorOf(x + 1) /\ l1 = ((x + 1) % w) + 1
            /\ LineOf(x + 1) = source[k1][l1]
    BY <1>1, Source DEF LineOf
  <1>5. Len(source) \in Nat /\ DOMAIN source = 1 .. Len(source) /\ source \in Input
    BY Stream DEF StreamInv
  <1>6. \/ k1 = k /\ l1 = l + 1
        \/ k1 = k + 1 /\ l1 = 1 /\ l = w
    <2>1. PICK q \in Nat, r \in 0 .. w - 1 : q = x \div w /\ r = x % w
      BY <1>2, Division
    <2>2. PICK q1 \in Nat, r1 \in 0 .. w - 1 : q1 = (x + 1) \div w /\ r1 = (x + 1) % w
      BY <1>2, Division
    <2>3. \/ q1 = q /\ r1 = r + 1
          \/ q1 = q + 1 /\ r1 = 0 /\ r = w - 1
      BY <1>2, <2>1, <2>2, NextDivision
    <2>4. k = q + 1 /\ k1 = q1 + 1 /\ l = r + 1 /\ l1 = r1 + 1
      BY <1>1, <1>3, <1>4, <2>1, <2>2 DEF VectorOf
    <2> QED BY <2>3, <2>4
  <1>7. LineOf(x) <= LineOf(x + 1)
    <2>1. CASE k1 = k /\ l1 = l + 1
      <3>1. l1 \in l .. 2 * PE_NUM
        BY <1>1, <2>1 DEF Lane
      <3> QED BY <1>3, <1>4, <1>5, <2>1, <3>1, Order
    <2>2. CASE k1 = k + 1 /\ l1 = 1 /\ l = w
      <3>1. RunOf(k) = RunOf(k + 1) /\ k \in Nat \ {0}
        BY <1>3, <1>4, <1>5, <2>2
      <3>2. ~IsEnd(source[k])
        BY <3>1, SameRunNoEnd
      <3>3. k1 > 1 /\ k1 - 1 = k
        BY <1>5, <2>2
      <3> QED BY <1>1, <1>3, <1>4, <1>5, <2>2, <3>2, <3>3, Order
    <2> QED BY <1>6, <2>1, <2>2
  <1>8. ASSUME Dense(source), ~IsEnd(source[k1])
        PROVE  LineOf(x + 1) \div BURST <= (LineOf(x) \div BURST) + 1
    <2>1. k1 \in {j \in DOMAIN source : ~IsEnd(source[j])}
      BY <1>5, <1>8
    <2>2. CASE k1 = k /\ l1 = l + 1
      <3>1. l1 \in 2 .. 2 * PE_NUM /\ l1 - 1 = l
        BY <1>1, <2>2 DEF Lane
      <3>2. source[k1][l1] \div BURST <= (source[k1][l1 - 1] \div BURST) + 1
        BY <1>8, <2>1, <3>1 DEF Dense
      <3> QED BY <1>3, <1>4, <2>2, <3>1, <3>2
    <2>3. CASE k1 = k + 1 /\ l1 = 1 /\ l = w
      <3>1. RunOf(k) = RunOf(k + 1) /\ k \in Nat \ {0}
        BY <1>3, <1>4, <1>5, <2>3
      <3>2. ~IsEnd(source[k])
        BY <3>1, SameRunNoEnd
      <3>3. k1 > 1 /\ k1 - 1 = k
        BY <1>5, <2>3
      <3>4. source[k1][1] \div BURST <= (source[k1 - 1][2 * PE_NUM] \div BURST) + 1
        BY <1>8, <2>1, <3>2, <3>3 DEF Dense
      <3> QED BY <1>1, <1>3, <1>4, <2>3, <3>3, <3>4
    <2> QED BY <1>6, <2>2, <2>3
  <1> QED BY <1>4, <1>7, <1>8

\* The lines of a run ascend.
LEMMA Sorted ==
    ASSUME StreamInv, NEW x \in Sources, NEW y \in Sources, x <= y,
           RunOf(VectorOf(x)) = RunOf(VectorOf(y))
    PROVE  /\ LineOf(x) <= LineOf(y)
           /\ R!Burst(x) <= R!Burst(y)
  <1> DEFINE S == {z \in Sources : /\ x <= z /\ RunOf(VectorOf(x)) = RunOf(VectorOf(z))
                                   /\ ~(LineOf(x) <= LineOf(z))}
  <1>1. x \in Nat /\ y \in Nat /\ \A z \in Sources : z \in Nat
    BY Source
  <1>2. LineOf(x) <= LineOf(y)
    <2> SUFFICES ASSUME S # {}
                 PROVE  FALSE
      OBVIOUS
    <2>1. S \subseteq Nat
      BY <1>1
    <2>2. PICK n \in S : \A m \in S : n <= m
      <3> HIDE DEF S
      <3> QED BY <2>1, LeastNatural
    <2>3. n \in Sources /\ n \in Nat /\ x <= n /\ x # n
      BY <1>1, <2>2, Source
    <2>4. n - 1 \in Sources /\ n - 1 \in Nat /\ x <= n - 1 /\ (n - 1) + 1 = n
      <3>1. n - 1 \in Nat /\ x <= n - 1 /\ (n - 1) + 1 = n
        BY <1>1, <2>3
      <3> QED BY <2>3, <3>1, SourceBelow
    <2>5. RunOf(VectorOf(n - 1)) = RunOf(VectorOf(n))
      BY <1>1, <2>2, <2>3, <2>4, RunBetween
    <2>6. LineOf(x) <= LineOf(n - 1)
      <3>1. n - 1 \notin S
        <4> HIDE DEF S
        <4> QED BY <2>2, <2>3, <2>4
      <3> QED BY <2>2, <2>4, <2>5, <3>1
    <2>7. LineOf(n - 1) <= LineOf(n)
      BY <2>3, <2>4, <2>5, NextSource
    <2>8. LineOf(x) \in Nat /\ LineOf(n - 1) \in Nat /\ LineOf(n) \in Nat
      BY <2>3, <2>4, Source
    <2> QED BY <2>2, <2>6, <2>7, <2>8
  <1>3. LineOf(x) \div BURST <= LineOf(y) \div BURST
    BY <1>2, Source, Constants, DivMonotone
  <1> QED BY <1>2, <1>3, BurstOf

-----------------------------------------------------------------------------
(* Sources that give rise to a request. *)

LEMMA TouchedSources ==
    ASSUME StreamInv
    PROVE  /\ Touched = {x \in Sources : x = 0 \/ R!Burst(x) # R!Burst(x - 1)}
           /\ IsFiniteSet(Touched)
           /\ \A k \in 0 .. Len(source) :
                 R!Touched(k) = {x \in Touched : VectorOf(x) <= k}
  <1>1. PICK w \in Nat \ {0}, n \in Nat : w = 2 * PE_NUM /\ n = Len(source) /\ R!Width = w
    BY Constants, Stream, WidthOf DEF StreamInv
  <1>2. Touched = {x \in Sources : x = 0 \/ R!Burst(x) # R!Burst(x - 1)}
    BY <1>1 DEF Touched, R!Touched, Sources
  <1>3. IsFiniteSet(Touched)
    <2>1. PICK m \in Nat : m = Len(source) * (2 * PE_NUM)
      BY <1>1
    <2>2. IsFiniteSet(0 .. m - 1)
      BY <2>1, FS_Interval
    <2>3. Touched \subseteq 0 .. m - 1
      BY <1>2, <2>1 DEF Sources
    <2> QED BY <2>2, <2>3, FS_Subset
  <1>4. ASSUME NEW k \in 0 .. n
        PROVE  R!Touched(k) = {x \in Touched : VectorOf(x) <= k}
    <2>1. PICK p \in Nat, m \in Nat : p = k * w /\ m = n * w /\ p <= m
      BY <1>1, TimesMonotone
    <2>2. ASSUME NEW x \in 0 .. m - 1
          PROVE  x < p <=> VectorOf(x) <= k
      <3>1. PICK q \in Nat, a \in Nat, r \in 0 .. w - 1 : q = x \div w /\ a = q * w /\ x = a + r
        BY Division
      <3>2. VectorOf(x) = q + 1
        BY <1>1, <3>1 DEF VectorOf
      <3>3. CASE q < k
        <4>1. (q + 1) * w <= p
          BY <2>1, <3>3, TimesMonotone
        <4>2. (q + 1) * w = a + w
          BY <3>1
        <4> QED BY <3>1, <3>2, <3>3, <4>1, <4>2
      <3>4. CASE k <= q
        <4>1. p <= a
          BY <2>1, <3>1, <3>4, TimesMonotone
        <4> QED BY <3>1, <3>2, <3>4, <4>1
      <3> QED BY <3>3, <3>4
    <2>3. R!Touched(k) = {x \in 0 .. p - 1 : x = 0 \/ R!Burst(x) # R!Burst(x - 1)}
      BY <1>1, <2>1 DEF R!Touched
    <2>4. Touched = {x \in 0 .. m - 1 : x = 0 \/ R!Burst(x) # R!Burst(x - 1)}
      BY <1>1, <2>1 DEF Touched, R!Touched
    <2>5. \A x \in 0 .. m - 1 : x \in 0 .. p - 1 <=> x < p
      BY <2>1
    <2>6. 0 .. p - 1 \subseteq 0 .. m - 1
      BY <2>1
    <2> QED BY <2>2, <2>3, <2>4, <2>5, <2>6
  <1> QED BY <1>1, <1>2, <1>3, <1>4

LEMMA IsTouched ==
    ASSUME StreamInv, NEW x \in Touched
    PROVE  x \in Sources /\ x \in Nat
  BY TouchedSources, Source

\* The burst of a source was touched by it, or by an earlier source of the run.
LEMMA TouchOf ==
    ASSUME StreamInv, NEW x \in Sources
    PROVE  \E y \in Touched : /\ y <= x /\ R!Burst(y) = R!Burst(x)
                              /\ RunOf(VectorOf(y)) = RunOf(VectorOf(x))
  <1> DEFINE S == {y \in 0 .. x : /\ RunOf(VectorOf(y)) = RunOf(VectorOf(x))
                                  /\ R!Burst(y) = R!Burst(x)}
  <1>1. x \in Nat /\ x \in S
    BY Source
  <1>2. S \in SUBSET Nat
    OBVIOUS
  <1>3. PICK y \in S : \A z \in S : y <= z
    <2> HIDE DEF S
    <2> QED BY <1>1, <1>2, LeastNatural
  <1>4. /\ y \in Nat /\ y <= x /\ y \in Sources
        /\ RunOf(VectorOf(y)) = RunOf(VectorOf(x)) /\ R!Burst(y) = R!Burst(x)
    BY <1>1, SourceBelow
  <1>5. CASE y = 0
    BY <1>4, <1>5, TouchedSources
  <1>6. CASE y # 0
    <2>1. y - 1 \in Sources /\ y - 1 \in Nat /\ (y - 1) + 1 = y /\ y - 1 <= x
      BY <1>1, <1>4, <1>6, SourceBelow
    <2>2. y - 1 \notin S
      <3> HIDE DEF S
      <3> QED BY <1>3, <1>4, <2>1
    <2>3. R!Burst(y) # R!Burst(y - 1)
      <3> SUFFICES ASSUME R!Burst(y) = R!Burst(y - 1)
                   PROVE  FALSE
        OBVIOUS
      <3>1. IsEnd(source[VectorOf(y - 1)]) <=> IsEnd(source[VectorOf(y)])
        BY <1>4, <2>1, BurstOf
      <3>2. RunOf(VectorOf(y - 1)) # RunOf(VectorOf(y))
        BY <1>1, <1>4, <2>1, <2>2
      <3>3. PICK j \in 1 .. Len(source), k \in 1 .. Len(source) :
                j = VectorOf(y - 1) /\ k = VectorOf(y)
        BY <1>4, <2>1, Source
      <3>4. k = j + 1 \/ k = j
        <4>1. \/ y \div (2 * PE_NUM) = (y - 1) \div (2 * PE_NUM)
              \/ y \div (2 * PE_NUM) = ((y - 1) \div (2 * PE_NUM)) + 1
          <5>1. 2 * PE_NUM \in Nat \ {0}
            BY Constants
          <5>2. \/ ((y - 1) + 1) \div (2 * PE_NUM) = (y - 1) \div (2 * PE_NUM)
                \/ ((y - 1) + 1) \div (2 * PE_NUM) = ((y - 1) \div (2 * PE_NUM)) + 1
            BY <2>1, <5>1, NextDivision
          <5> QED BY <2>1, <5>2
        <4> QED BY <3>3, <4>1 DEF VectorOf
      <3>5. Len(source) \in Nat /\ source \in Input
        BY Stream DEF StreamInv
      <3>6. k = j + 1 /\ j \in Nat \ {0} /\ IsEnd(source[j])
        <4>1. j \in Nat \ {0}
          BY <3>3, <3>5
        <4>2. k = j + 1
          BY <3>2, <3>3, <3>4
        <4>3. RunOf(j) # RunOf(j + 1)
          BY <3>2, <3>3, <4>2
        <4> QED BY <4>1, <4>2, <4>3, RunStep
      <3>7. IsEnd(source[k]) /\ k - 1 = j
        BY <3>1, <3>3, <3>6
      <3>8. 1 \in Lane
        BY Constants DEF Lane
      <3> QED BY <3>3, <3>5, <3>6, <3>7, <3>8, Order
    <2> QED BY <1>4, <2>3, TouchedSources
  <1> QED BY <1>5, <1>6

-----------------------------------------------------------------------------
(* The numbers of requests. *)

LEMMA RankOrder ==
    ASSUME StreamInv, NEW x \in Touched, NEW y \in Touched
    PROVE  /\ Rank(x) \in Nat \ {0}
           /\ x < y <=> Rank(x) < Rank(y)
           /\ x = y <=> Rank(x) = Rank(y)
  <1> DEFINE S(z) == {t \in Touched : t <= z}
  <1>1. \A t \in Touched : t \in Nat
    BY IsTouched
  <1>2. ASSUME NEW a \in Touched
        PROVE  IsFiniteSet(S(a)) /\ Cardinality(S(a)) \in Nat \ {0} /\ Rank(a) = Cardinality(S(a))
    <2>1. IsFiniteSet(Touched)
      BY TouchedSources
    <2>2. S(a) \subseteq Touched /\ a \in S(a)
      BY <1>1
    <2>3. Rank(a) = Cardinality(S(a))
      BY DEF Rank
    <2> HIDE DEF S
    <2>4. IsFiniteSet(S(a)) /\ S(a) # {}
      BY <2>1, <2>2, FS_Subset
    <2>5. Cardinality(S(a)) \in Nat /\ Cardinality(S(a)) # 0
      <3>1. Cardinality(S(a)) \in Nat
        BY <2>4, FS_CardinalityType
      <3>2. Cardinality(S(a)) = 0 <=> S(a) = {}
        BY <2>4, FS_EmptySet
      <3> QED BY <2>4, <3>1, <3>2
    <2> QED BY <2>3, <2>4, <2>5
  <1>3. ASSUME NEW a \in Touched, NEW b \in Touched, a < b
        PROVE  Cardinality(S(a)) < Cardinality(S(b))
    <2>1. a \in Nat /\ b \in Nat
      BY <1>1
    <2>2. S(a) \subseteq S(b) /\ b \in S(b) /\ b \notin S(a)
      <3>1. ASSUME NEW t \in Touched, t <= a
            PROVE  t <= b
        BY <1>1, <1>3, <2>1, <3>1
      <3>2. b <= b /\ ~(b <= a)
        BY <1>3, <2>1
      <3> QED BY <3>1, <3>2
    <2>3. IsFiniteSet(S(b))
      BY <1>2
    <2> HIDE DEF S
    <2> QED BY <2>2, <2>3, Smaller
  <1> HIDE DEF S
  <1>4. x \in Nat /\ y \in Nat
    BY <1>1
  <1>5. CASE x < y
    BY <1>2, <1>3, <1>4, <1>5
  <1>6. CASE y < x
    BY <1>2, <1>3, <1>4, <1>6
  <1>7. CASE x = y
    BY <1>2, <1>4, <1>7
  <1> QED BY <1>4, <1>5, <1>6, <1>7

LEMMA RankUpto ==
    ASSUME StreamInv, NEW x \in Touched, NEW r \in Nat
    PROVE  Upto(r) \in Nat /\ (Rank(x) <= Upto(r) <=> RunOf(VectorOf(x)) <= r)
  <1> DEFINE S == {t \in Touched : t <= x}
             T == {t \in Touched : RunOf(VectorOf(t)) <= r}
  <1>1. IsFiniteSet(Touched) /\ S \subseteq Touched /\ T \subseteq Touched
    BY TouchedSources
  <1>2. \A t \in Touched : t \in Nat /\ RunOf(VectorOf(t)) \in Nat
    BY IsTouched, VectorMonotone, RunMonotone
  <1>3. ASSUME NEW s \in Touched, NEW t \in Touched, s <= t
        PROVE  RunOf(VectorOf(s)) <= RunOf(VectorOf(t))
    <2>1. s \in Nat /\ t \in Nat
      BY <1>2
    <2>2. VectorOf(s) <= VectorOf(t) /\ VectorOf(s) \in Nat \ {0} /\ VectorOf(t) \in Nat
      BY <1>3, <2>1, VectorMonotone
    <2> QED BY <2>2, RunMonotone
  <1>4. Rank(x) = Cardinality(S) /\ Upto(r) = Cardinality(T)
    BY DEF Rank, Upto
  <1>5. IsFiniteSet(S) /\ IsFiniteSet(T)
    <2> HIDE DEF S, T
    <2> QED BY <1>1, FS_Subset
  <1>6. Cardinality(S) \in Nat /\ Cardinality(T) \in Nat
    <2> HIDE DEF S, T
    <2> QED BY <1>5, FS_CardinalityType
  <1>7. CASE RunOf(VectorOf(x)) <= r
    <2>1. S \subseteq T
      BY <1>2, <1>3, <1>7
    <2>2. Cardinality(S) <= Cardinality(T)
      <3> HIDE DEF S, T
      <3> QED BY <1>5, <2>1, Smaller
    <2> HIDE DEF S, T
    <2> QED BY <1>4, <1>6, <1>7, <2>2
  <1>8. CASE ~(RunOf(VectorOf(x)) <= r)
    <2>1. T \subseteq S
      BY <1>2, <1>3, <1>8
    <2>2. x \in S /\ x \notin T
      BY <1>2, <1>8
    <2>3. Cardinality(T) < Cardinality(S)
      <3> HIDE DEF S, T
      <3> QED BY <1>5, <2>1, <2>2, Smaller
    <2> HIDE DEF S, T
    <2> QED BY <1>4, <1>6, <1>8, <2>3
  <1> QED BY <1>4, <1>6, <1>7, <1>8

LEMMA UptoMonotone ==
    ASSUME StreamInv, NEW r \in Nat, NEW s \in Nat, r <= s
    PROVE  Upto(r) \in Nat /\ Upto(s) \in Nat /\ Upto(r) <= Upto(s)
  <1> DEFINE S == {t \in Touched : RunOf(VectorOf(t)) <= r}
             T == {t \in Touched : RunOf(VectorOf(t)) <= s}
  <1>1. IsFiniteSet(Touched) /\ T \subseteq Touched
    BY TouchedSources
  <1>2. \A t \in Touched : RunOf(VectorOf(t)) \in Nat
    BY IsTouched, VectorMonotone, RunMonotone
  <1>3. S \subseteq T
    BY <1>2
  <1>4. Upto(r) = Cardinality(S) /\ Upto(s) = Cardinality(T)
    BY DEF Upto
  <1> HIDE DEF S, T
  <1>5. IsFiniteSet(T)
    BY <1>1, FS_Subset
  <1> QED BY <1>3, <1>4, <1>5, Smaller

\* Two requests in a row are for different bursts, in the order of the stream.
LEMMA RankNext ==
    ASSUME StreamInv, NEW x \in Touched, NEW y \in Touched, Rank(y) = Rank(x) + 1,
           RunOf(VectorOf(x)) = RunOf(VectorOf(y))
    PROVE  /\ R!Burst(x) < R!Burst(y)
           /\ Dense(source) /\ ~IsEnd(source[VectorOf(y)]) => R!Burst(y) = R!Burst(x) + 1
  <1>1. /\ x \in Sources /\ y \in Sources /\ x \in Nat /\ y \in Nat
        /\ Rank(x) \in Nat /\ Rank(y) \in Nat /\ x < y
    <2>1. Rank(x) \in Nat /\ Rank(x) < Rank(y)
      BY RankOrder
    <2> QED BY <2>1, RankOrder, IsTouched
  <1>2. PICK u \in Sources : u \in Nat /\ u + 1 = y /\ x <= u
    <2>1. y - 1 \in Nat /\ y - 1 <= y /\ (y - 1) + 1 = y /\ x <= y - 1
      BY <1>1
    <2> QED BY <1>1, <2>1, SourceBelow
  <1>3. /\ RunOf(VectorOf(u)) = RunOf(VectorOf(y))
        /\ RunOf(VectorOf(x)) = RunOf(VectorOf(u))
    BY <1>1, <1>2, RunBetween
  <1>4. PICK z \in Touched : /\ z <= u /\ R!Burst(z) = R!Burst(u)
                             /\ RunOf(VectorOf(z)) = RunOf(VectorOf(u))
    BY TouchOf
  <1>5. z \in Nat /\ z \in Sources
    BY IsTouched
  <1>6. z <= x
    <2> SUFFICES ASSUME x < z
                 PROVE  FALSE
      BY <1>1, <1>5
    <2>1. z < y
      BY <1>1, <1>2, <1>4, <1>5
    <2>2. Rank(x) < Rank(z) /\ Rank(z) < Rank(y) /\ Rank(z) \in Nat
      BY <2>1, RankOrder
    <2> QED BY <1>1, <2>2
  <1>7. R!Burst(z) <= R!Burst(x) /\ R!Burst(x) <= R!Burst(u) /\ R!Burst(u) <= R!Burst(y)
    <2>1. RunOf(VectorOf(z)) = RunOf(VectorOf(x))
      BY <1>3, <1>4
    <2>2. R!Burst(z) <= R!Burst(x)
      BY <1>1, <1>5, <1>6, <2>1, Sorted
    <2>3. R!Burst(x) <= R!Burst(u)
      BY <1>1, <1>2, <1>3, Sorted
    <2>4. u <= y
      BY <1>1, <1>2
    <2> QED BY <1>1, <1>2, <1>3, <2>2, <2>3, <2>4, Sorted
  <1>8. R!Burst(u) # R!Burst(y)
    <2>1. y # 0 /\ y - 1 = u
      BY <1>1, <1>2
    <2> QED BY <2>1, TouchedSources
  <1>9. {R!Burst(x), R!Burst(y), R!Burst(u)} \subseteq Nat /\ R!Burst(x) = R!Burst(u)
    BY <1>1, <1>2, <1>4, <1>5, <1>7, BurstOf
  <1>10. Dense(source) /\ ~IsEnd(source[VectorOf(y)]) => R!Burst(y) <= R!Burst(u) + 1
    BY <1>1, <1>2, <1>3, NextSource, BurstOf
  <1> QED BY <1>7, <1>8, <1>9, <1>10

\* The request for what ends a run is the last one of the run.
LEMMA LastOfRun ==
    ASSUME StreamInv, NEW x \in Touched, IsEnd(source[VectorOf(x)])
    PROVE  Rank(x) = Upto(RunOf(VectorOf(x)))
  <1> DEFINE r == RunOf(VectorOf(x))
             S == {t \in Touched : t <= x}
             T == {t \in Touched : RunOf(VectorOf(t)) <= r}
  <1>1. x \in Nat /\ x \in Sources /\ \A t \in Touched : t \in Nat /\ t \in Sources
    BY IsTouched
  <1>2. ASSUME NEW t \in Touched
        PROVE  t <= x <=> RunOf(VectorOf(t)) <= r
    <2>1. t \in Nat /\ t \in Sources
      BY <1>1
    <2>2. CASE t <= x
      <3>1. VectorOf(t) <= VectorOf(x) /\ VectorOf(t) \in Nat \ {0} /\ VectorOf(x) \in Nat
        BY <1>1, <2>1, <2>2, VectorMonotone
      <3> QED BY <2>2, <3>1, RunMonotone
    <2>3. CASE x < t
      <3> SUFFICES ASSUME RunOf(VectorOf(t)) <= r
                   PROVE  FALSE
        BY <1>1, <2>1, <2>3
      <3>1. PICK j \in Nat \ {0}, k \in Nat \ {0} : j = VectorOf(x) /\ k = VectorOf(t) /\ j <= k
        BY <1>1, <2>1, <2>3, VectorMonotone
      <3>2. ~(j < k)
        <4>1. j < k => RunOf(j) < RunOf(k)
          BY <3>1, RunEnds
        <4> QED BY <3>1, <4>1, RunMonotone
      <3>3. PICK u \in Sources : u \in Nat /\ u + 1 = t /\ x <= u
        <4>1. t - 1 \in Nat /\ t - 1 <= t /\ (t - 1) + 1 = t /\ x <= t - 1
          BY <1>1, <2>1, <2>3
        <4> QED BY <2>1, <4>1, SourceBelow
      <3>4. VectorOf(u) = VectorOf(x) /\ VectorOf(t) = VectorOf(x)
        <4>1. VectorOf(x) <= VectorOf(u) /\ VectorOf(u) <= VectorOf(t)
              /\ VectorOf(u) \in Nat
          BY <1>1, <2>1, <3>3, VectorMonotone
        <4> QED BY <3>1, <3>2, <4>1
      <3>5. R!Burst(u) = R!Burst(t)
        BY <2>1, <3>3, <3>4, BurstOf
      <3>6. t # 0 /\ t - 1 = u
        BY <2>1, <3>3
      <3> QED BY <3>5, <3>6, TouchedSources
    <2> QED BY <1>1, <2>1, <2>2, <2>3
  <1>3. S = T
    BY <1>2
  <1>4. Rank(x) = Cardinality(S) /\ Upto(r) = Cardinality(T)
    BY DEF Rank, Upto
  <1> QED BY <1>3, <1>4

LEMMA EndOfRun ==
    ASSUME StreamInv, NEW k \in 1 .. Len(source)
    PROVE  \E y \in Touched : /\ IsEnd(source[VectorOf(y)])
                              /\ RunOf(VectorOf(y)) = RunOf(k)
                              /\ Rank(y) = Upto(RunOf(k))
  <1>1. PICK n \in Nat \ {0} : n = Len(source) /\ IsEnd(source[n]) /\ k \in 1 .. n
    BY Stream DEF StreamInv
  <1> DEFINE S == {m \in k .. n : IsEnd(source[m])}
  <1>2. S \subseteq Nat /\ n \in S
    BY <1>1
  <1>3. PICK m \in S : \A j \in S : m <= j
    <2> HIDE DEF S
    <2> QED BY <1>2, LeastNatural
  <1>4. m \in 1 .. Len(source) /\ m \in Nat /\ k \in Nat \ {0} /\ k <= m /\ IsEnd(source[m])
    BY <1>1
  <1>5. \A j \in k .. m - 1 : ~IsEnd(source[j])
    <2> SUFFICES ASSUME NEW j \in k .. m - 1, IsEnd(source[j])
                 PROVE  FALSE
      OBVIOUS
    <2>1. j \in S /\ ~(m <= j)
      BY <1>1, <1>4
    <2> HIDE DEF S
    <2> QED BY <1>3, <2>1
  <1>6. RunOf(m) = RunOf(k)
    BY <1>4, <1>5, NoEndSameRun
  <1>7. 1 \in Lane
    BY Constants DEF Lane
  <1>8. PICK z \in Sources : VectorOf(z) = m
    BY <1>4, <1>7, SourceOfLane
  <1>9. PICK y \in Touched : R!Burst(y) = R!Burst(z) /\ RunOf(VectorOf(y)) = RunOf(VectorOf(z))
    BY TouchOf
  <1>10. IsEnd(source[VectorOf(y)])
    BY <1>4, <1>8, <1>9, BurstOf, IsTouched
  <1> QED BY <1>6, <1>8, <1>9, <1>10, LastOfRun

\* A request of a run is the last one exactly when it is for what ends the run.
LEMMA LastIsEnd ==
    ASSUME StreamInv, NEW x \in Touched, NEW r, RunOf(VectorOf(x)) = r
    PROVE  Rank(x) = Upto(r) <=> R!Burst(x) = End \div BURST
  <1>1. x \in Sources /\ VectorOf(x) \in 1 .. Len(source)
    BY IsTouched, Source
  <1>2. PICK y \in Touched : IsEnd(source[VectorOf(y)]) /\ Rank(y) = Upto(r)
    BY <1>1, EndOfRun
  <1>3. R!Burst(x) = End \div BURST <=> IsEnd(source[VectorOf(x)])
    BY <1>1, BurstOf
  <1>4. CASE Rank(x) = Upto(r)
    <2>1. x = y
      BY <1>2, <1>4, RankOrder
    <2> QED BY <1>2, <1>3, <1>4, <2>1
  <1>5. CASE IsEnd(source[VectorOf(x)])
    BY <1>3, <1>5, LastOfRun
  <1> QED BY <1>3, <1>4, <1>5

\* It is not the first one either.
LEMMA RequestBeforeEnd ==
    ASSUME StreamInv, NEW x \in Touched, NEW r \in Nat, RunOf(VectorOf(x)) = r + 1,
           R!Burst(x) = End \div BURST
    PROVE  Upto(r) + 1 < Rank(x)
  <1>1. PICK k \in 1 .. Len(source) : k = VectorOf(x) /\ IsEnd(source[k])
    BY IsTouched, Source, BurstOf
  <1>2. 1 \in Lane /\ source \in Input /\ Len(source) \in Nat
    BY Constants, Stream DEF Lane, StreamInv
  <1>3. k > 2 /\ ~IsEnd(source[k - 1])
    BY <1>1, <1>2, Order
  <1>4. PICK j \in 1 .. Len(source) : k = j + 1 /\ ~IsEnd(source[j]) /\ j \in Nat \ {0}
    <2>1. k - 1 \in 1 .. Len(source) /\ k = (k - 1) + 1 /\ k - 1 \in Nat \ {0}
      BY <1>2, <1>3
    <2> QED BY <1>3, <2>1
  <1>5. RunOf(j) = r + 1
    BY <1>1, <1>4, RunStep
  <1>6. PICK u \in Sources : VectorOf(u) = j
    BY <1>2, SourceOfLane
  <1>7. PICK w \in Touched : w <= u /\ RunOf(VectorOf(w)) = r + 1
    BY <1>5, <1>6, TouchOf
  <1>8. w \in Nat /\ u \in Nat /\ x \in Nat /\ w < x
    <2>1. w \in Nat /\ u \in Nat /\ x \in Nat
      BY Source, IsTouched
    <2>2. ~(x <= u)
      <3>1. x <= u => VectorOf(x) <= VectorOf(u)
        BY <2>1, VectorMonotone
      <3> QED BY <1>1, <1>4, <1>6, <3>1
    <2> QED BY <1>7, <2>1, <2>2
  <1>9. Rank(w) < Rank(x) /\ Rank(w) \in Nat /\ Rank(x) \in Nat
    BY <1>8, RankOrder
  <1>10. Upto(r) \in Nat /\ ~(Rank(w) <= Upto(r))
    BY <1>7, RankUpto, SMTT(30)
  <1> QED BY <1>9, <1>10

LEMMA RunHasRequests ==
    ASSUME StreamInv, NEW k \in 1 .. Len(source), NEW r \in Nat, RunOf(k) = r + 1
    PROVE  Upto(r) + 1 < Upto(r + 1) /\ Upto(r) \in Nat /\ Upto(r + 1) \in Nat
  <1>1. PICK y \in Touched : /\ IsEnd(source[VectorOf(y)])
                             /\ RunOf(VectorOf(y)) = r + 1
                             /\ Rank(y) = Upto(r + 1)
    BY EndOfRun
  <1>2. R!Burst(y) = End \div BURST
    BY <1>1, IsTouched, BurstOf
  <1>3. Upto(r) + 1 < Rank(y)
    BY <1>1, <1>2, RequestBeforeEnd
  <1> QED BY <1>1, <1>3, UptoMonotone

-----------------------------------------------------------------------------
(* The requests of a run. *)

LEMMA RunType ==
    ASSUME FeedInv
    PROVE  /\ run \in Nat \ {0} /\ run - 1 \in Nat /\ (run - 1) + 1 = run /\ StreamInv
           /\ Upto(run - 1) \in Nat /\ Upto(run) \in Nat /\ Upto(run - 1) <= Upto(run)
  <1>1. run \in Nat \ {0} /\ StreamInv
    BY Stream DEF FeedInv, StreamInv
  <1>2. run - 1 \in Nat /\ (run - 1) + 1 = run /\ run - 1 <= run /\ run \in Nat
    BY <1>1
  <1> QED BY <1>1, <1>2, UptoMonotone

LEMMA Requester ==
    ASSUME FeedInv, RequestInv, NEW c \in 1 .. Len(cmd), c > Upto(run - 1)
    PROVE  \E x \in Touched : /\ Rank(x) = c /\ cmd[c] = R!Burst(x)
                              /\ RunOf(VectorOf(x)) = run /\ x \in Sources
  <1>1. StreamInv /\ fed \in 0 .. Len(source)
    BY DEF FeedInv
  <1>2. PICK x \in R!Touched(fed) : Rank(x) = c /\ cmd[c] = R!Burst(x)
    BY DEF RequestInv
  <1>3. x \in Touched /\ x \in Sources
    BY <1>1, <1>2, TouchedSources, IsTouched
  <1>4. run \in Nat \ {0} /\ run - 1 \in Nat /\ (run - 1) + 1 = run
    BY RunType
  <1>5. Upto(run - 1) \in Nat /\ Upto(run) \in Nat /\ Len(cmd) \in Nat /\ Len(cmd) <= Upto(run)
    BY RunType DEF RequestInv
  <1>6. c \in Nat /\ c <= Upto(run) /\ ~(c <= Upto(run - 1))
    BY <1>5
  <1>7. RunOf(VectorOf(x)) \in Nat
    <2>1. VectorOf(x) \in Nat \ {0}
      BY <1>1, <1>3, IsTouched, VectorMonotone
    <2> QED BY <2>1, RunMonotone
  <1>8. RunOf(VectorOf(x)) <= run /\ ~(RunOf(VectorOf(x)) <= run - 1)
    BY <1>1, <1>2, <1>3, <1>4, <1>6, RankUpto
  <1> QED BY <1>2, <1>3, <1>4, <1>7, <1>8

LEMMA Commands ==
    ASSUME FeedInv, RequestInv, NEW c \in 1 .. Len(cmd), c > Upto(run - 1)
    PROVE  /\ cmd[c] \in Nat /\ cmd[c] <= End \div BURST
           /\ IsEndCmd(c) <=> c = Upto(run)
           /\ IsEndCmd(c) => c - 1 \in 1 .. Len(cmd) /\ c - 1 > Upto(run - 1)
           /\ c + 1 <= Len(cmd) =>
                 /\ cmd[c] < cmd[c + 1]
                 /\ Dense(source) /\ ~IsEndCmd(c + 1) => cmd[c + 1] = cmd[c] + 1
  <1>1. /\ run \in Nat \ {0} /\ run - 1 \in Nat /\ (run - 1) + 1 = run /\ StreamInv
        /\ Upto(run - 1) \in Nat /\ Upto(run) \in Nat /\ Len(cmd) \in Nat
    BY RunType DEF RequestInv
  <1>2. PICK x \in Touched : /\ Rank(x) = c /\ cmd[c] = R!Burst(x)
                             /\ RunOf(VectorOf(x)) = run /\ x \in Sources
    BY Requester
  <1>3. cmd[c] \in Nat /\ cmd[c] <= End \div BURST
    BY <1>1, <1>2, BurstOf
  <1>4. IsEndCmd(c) <=> c = Upto(run)
    BY <1>1, <1>2, LastIsEnd DEF IsEndCmd
  <1>5. ASSUME IsEndCmd(c)
        PROVE  c - 1 \in 1 .. Len(cmd) /\ c - 1 > Upto(run - 1)
    <2>1. Upto(run - 1) + 1 < Rank(x)
      BY <1>1, <1>2, <1>5, RequestBeforeEnd DEF IsEndCmd
    <2> QED BY <1>1, <1>2, <2>1
  <1>6. ASSUME c + 1 <= Len(cmd)
        PROVE  /\ cmd[c] < cmd[c + 1]
               /\ Dense(source) /\ ~IsEndCmd(c + 1) => cmd[c + 1] = cmd[c] + 1
    <2>1. c + 1 \in 1 .. Len(cmd) /\ c + 1 > Upto(run - 1) /\ c \in Nat
      BY <1>1, <1>6
    <2>2. PICK y \in Touched : /\ Rank(y) = c + 1 /\ cmd[c + 1] = R!Burst(y)
                               /\ RunOf(VectorOf(y)) = run /\ y \in Sources
      BY <2>1, Requester
    <2>3. ~IsEndCmd(c + 1) => ~IsEnd(source[VectorOf(y)])
      BY <1>1, <2>2, BurstOf DEF IsEndCmd
    <2> QED BY <1>1, <1>2, <2>2, <2>3, RankNext
  <1> QED BY <1>3, <1>4, <1>5, <1>6

-----------------------------------------------------------------------------
(* The lines of a run. *)

LEMMA RunExists ==
    ASSUME FeedInv
    PROVE  /\ \E k \in 1 .. Len(source) : RunOf(k) = run
           /\ Upto(run - 1) + 1 < Upto(run)
  <1>1. PICK n \in Nat \ {0}, f \in Nat : n = Len(source) /\ f = fed /\ f <= n
    <2>1. Len(source) \in Nat \ {0} /\ fed \in 0 .. Len(source)
      BY Stream DEF FeedInv, StreamInv
    <2> QED BY <2>1
  <1>2. PICK k \in 1 .. Len(source) : RunOf(k) = run
    <2>1. CASE RunOf(f + 1) = run
      <3>1. f + 1 \in 1 .. Len(source)
        BY <1>1, <2>1 DEF FeedInv
      <3> QED BY <2>1, <3>1
    <2>2. CASE RunOf(f + 1) = run + 1
      <3>1. f # 0
        <4>1. f = 0 => RunOf(f + 1) = 1
          BY FirstRun
        <4> QED BY <2>2, <4>1, RunType
      <3>2. f \in Nat \ {0} /\ f \in 1 .. Len(source)
        BY <1>1, <3>1
      <3>3. RunOf(f) <= run
        BY <1>1, <3>1 DEF FeedInv
      <3>4. RunOf(f) = run
        <4>1. RunOf(f) \in Nat /\ (RunOf(f + 1) = RunOf(f) \/ RunOf(f + 1) = RunOf(f) + 1)
          <5>1. f \in Nat \ {0}
            BY <3>2
          <5>2. RunOf(f) \in 1 .. f
            BY <5>1, RunStep
          <5>3. RunOf(f + 1) = IF IsEnd(source[f]) THEN RunOf(f) + 1 ELSE RunOf(f)
            BY <5>1, RunStep
          <5> QED BY <5>2, <5>3
        <4>2. run \in Nat
          BY RunType
        <4>3. RunOf(f + 1) = run + 1
          BY <2>2
        <4> QED BY <3>3, <4>1, <4>2, <4>3
      <3> QED BY <3>2, <3>4
    <2> QED BY <1>1, <2>1, <2>2 DEF FeedInv
  <1>3. Upto(run - 1) + 1 < Upto((run - 1) + 1)
    BY <1>2, RunType, RunHasRequests
  <1> QED BY <1>2, <1>3, RunType

LEMMA LineNumbers ==
    ASSUME FeedInv, RequestInv
    PROVE  /\ First \in Nat \ {0} /\ Sent \in Nat /\ Stop \in Nat
           /\ First <= Sent /\ Sent <= Stop
           /\ (taken = Upto(run)) <=> (Sent = Stop)
  <1>1. PICK b \in Nat \ {0, 1} : b = BURST
    BY Constants
  <1>2. PICK p \in Nat, u \in Nat, k \in Nat, j \in 0 .. b - 1 :
            /\ p = Upto(run - 1) /\ u = Upto(run) /\ k = taken /\ j = inner_idx
            /\ p <= k /\ k <= u /\ (k = u - 1 => j < 2) /\ p + 1 < u
    <2>1. Len(cmd) \in Nat
      BY DEF RequestInv
    <2>2. taken \in Nat /\ Upto(run - 1) <= taken /\ taken <= Upto(run)
      BY <2>1, RunType DEF RequestInv
    <2> QED BY <1>1, <2>2, RunType, RunExists DEF RequestInv
  <1>3. PICK f \in Nat, t \in Nat, s \in Nat :
            f = (p + 1) * b /\ t = (k + 1) * b /\ s = u * b /\ f <= t /\ f <= s
    <2>1. (p + 1) * b <= (k + 1) * b
      BY <1>2, TimesMonotone
    <2>2. (p + 1) * b <= u * b
      BY <1>2, TimesMonotone
    <2>3. (p + 1) * b \in Nat /\ (k + 1) * b \in Nat /\ u * b \in Nat
      OBVIOUS
    <2> QED BY <2>1, <2>2, <2>3
  <1>4. f # 0
    <2>1. (0 + 1) * b <= (p + 1) * b
      BY TimesMonotone, 0 + 1 \in Nat, p + 1 \in Nat, 0 + 1 <= p + 1
    <2> QED BY <1>3, <2>1
  <1>5. First = f /\ Stop = s + 2 /\ Sent = IF k = u THEN s + 2 ELSE t + j
    BY <1>1, <1>2, <1>3 DEF First, Stop, Sent
  <1>6. CASE k = u
    BY <1>2, <1>3, <1>4, <1>5, <1>6
  <1>7. CASE k = u - 1
    <2>1. t = s /\ j < 2
      BY <1>2, <1>3, <1>7
    <2> QED BY <1>2, <1>3, <1>4, <1>5, <1>7, <2>1
  <1>8. CASE k + 1 < u
    <2>1. (k + 2) * b <= s
      BY <1>2, <1>3, <1>8, TimesMonotone
    <2>2. (k + 2) * b = t + b
      BY <1>3
    <2>3. t + b <= s
      BY <2>1, <2>2
    <2> QED BY <1>2, <1>3, <1>4, <1>5, <1>8, <2>3
  <1> QED BY <1>2, <1>6, <1>7, <1>8

\* The request that a line belongs to was made.
LEMMA LineOfRequest ==
    ASSUME FeedInv, RequestInv, NEW q \in Nat, First <= q, q < Sent
    PROVE  \E c \in 1 .. Len(cmd), j \in 0 .. BURST - 1 :
              /\ c = q \div BURST /\ j = q % BURST /\ q = c * BURST + j
              /\ c > Upto(run - 1) /\ LineAt(q) = CacheLine(c, j)
              /\ IsEndCmd(c) => j < 2
              /\ (q = Stop - 1) <=> (IsEndCmd(c) /\ j = 1)
  <1>1. PICK b \in Nat \ {0, 1} : b = BURST
    BY Constants
  <1>2. PICK p \in Nat, u \in Nat, k \in Nat, i \in 0 .. b - 1, n \in Nat :
            /\ p = Upto(run - 1) /\ u = Upto(run) /\ k = taken /\ i = inner_idx
            /\ n = Len(cmd) /\ k <= n /\ (i > 0 => k < n)
    <2>1. Len(cmd) \in Nat
      BY DEF RequestInv
    <2>2. taken \in Nat /\ taken <= Len(cmd) /\ inner_idx \in 0 .. BURST - 1
          /\ (inner_idx > 0 => taken < Len(cmd))
      BY <2>1, RunType DEF RequestInv
    <2>3. Upto(run - 1) \in Nat /\ Upto(run) \in Nat
      BY RunType
    <2> QED BY <1>1, <2>1, <2>2, <2>3
  <1>3. First = (p + 1) * b + 0 /\ Stop = u * b + 2
        /\ Sent = IF k = u THEN Stop ELSE (k + 1) * b + i
    BY <1>1, <1>2 DEF First, Stop, Sent
  <1>4. PICK c \in Nat, j \in 0 .. b - 1 :
            c = q \div b /\ j = q % b /\ q = c * b + j
    BY Division
  <1>5. PICK m \in Nat : m = u * b
    BY <1>1
  <1>6. First \in Nat /\ Sent \in Nat /\ Stop \in Nat /\ Sent <= Stop
    BY LineNumbers
  <1>7. p + 1 <= c
    <2>1. First \div b <= q \div b
      BY <1>6, DivMonotone
    <2>2. ((p + 1) * b + 0) \div b = p + 1
      BY Quotient, p + 1 \in Nat, 0 \in 0 .. b - 1
    <2> QED BY <1>3, <1>4, <2>1, <2>2
  <1>8. c <= n
    <2>1. CASE k = u
      <3>1. q <= m + 1
        BY <1>3, <1>5, <1>6, <2>1
      <3>2. q \div b <= (m + 1) \div b
        BY <3>1, DivMonotone
      <3>3. (u * b + 1) \div b = u
        BY Quotient, 1 \in 0 .. b - 1
      <3> QED BY <1>2, <1>4, <1>5, <2>1, <3>2, <3>3, SMTT(30)
    <2>2. CASE k # u /\ i = 0
      <3>1. PICK a \in Nat : a = k * b
        BY <1>1
      <3>2. (k + 1) * b = a + b
        BY <3>1
      <3>3. q <= a + (b - 1)
        BY <1>3, <2>2, <3>2
      <3>4. q \div b <= (a + (b - 1)) \div b
        BY <3>3, DivMonotone, a + (b - 1) \in Nat
      <3>5. (k * b + (b - 1)) \div b = k
        BY Quotient, b - 1 \in 0 .. b - 1
      <3> QED BY <1>2, <1>4, <3>1, <3>4, <3>5
    <2>3. CASE k # u /\ i > 0
      <3>1. PICK a \in Nat : a = (k + 1) * b
        BY <1>1
      <3>2. q <= a + i
        BY <1>3, <2>3, <3>1
      <3>3. q \div b <= (a + i) \div b
        BY <3>2, DivMonotone, a + i \in Nat
      <3>4. ((k + 1) * b + i) \div b = k + 1
        BY Quotient, k + 1 \in Nat
      <3> QED BY <1>2, <1>4, <2>3, <3>1, <3>3, <3>4
    <2> QED BY <2>1, <2>2, <2>3
  <1>9. c \in 1 .. Len(cmd) /\ c > Upto(run - 1)
    BY <1>2, <1>7, <1>8
  <1>10. IsEndCmd(c) <=> c = u
    BY <1>2, <1>9, Commands
  <1>11. IsEndCmd(c) => j < 2
    <2>1. c = u => q = m + j
      BY <1>4, <1>5
    <2> QED BY <1>3, <1>5, <1>6, <1>10, <2>1
  <1>12. (q = Stop - 1) <=> (IsEndCmd(c) /\ j = 1)
    <2>1. Stop - 1 = u * b + 1
      BY <1>3, <1>5
    <2>2. (u * b + 1) \div b = u /\ (u * b + 1) % b = 1
      BY Quotient, 1 \in 0 .. b - 1
    <2> QED BY <1>4, <1>10, <2>1, <2>2
  <1>13. LineAt(q) = CacheLine(c, j)
    BY <1>1, <1>4 DEF LineAt
  <1> QED BY <1>1, <1>4, <1>9, <1>11, <1>12, <1>13

\* A dummy line comes behind another line, with the next index.
IsDummy(q) == LineAt(q).data.line = Dummy

LEMMA LineNext ==
    ASSUME FeedInv, RequestInv, NEW q \in Nat, First <= q, q + 1 < Sent
    PROVE  /\ Addr(q) \in Nat /\ Addr(q + 1) \in Nat /\ Addr(q) < Addr(q + 1)
           /\ IsDummy(q + 1) \/ Dense(source) => Addr(q + 1) = Addr(q) + 1
  <1>1. PICK b \in Nat \ {0, 1} : b = BURST
    BY Constants
  <1>2. q + 1 \in Nat /\ First <= q + 1 /\ q < Sent /\ Len(cmd) \in Nat
        /\ Len(cmd) <= Upto(run)
    BY LineNumbers, RunType DEF RequestInv
  <1>3. PICK c \in 1 .. Len(cmd), j \in 0 .. BURST - 1 :
            /\ c = q \div b /\ j = q % b /\ c > Upto(run - 1) /\ LineAt(q) = CacheLine(c, j)
    BY <1>1, <1>2, LineOfRequest
  <1>4. PICK c1 \in 1 .. Len(cmd), j1 \in 0 .. BURST - 1 :
            /\ c1 = (q + 1) \div b /\ j1 = (q + 1) % b /\ c1 > Upto(run - 1)
            /\ LineAt(q + 1) = CacheLine(c1, j1)
    BY <1>1, <1>2, LineOfRequest
  <1>5. c \in Nat /\ j \in Nat /\ c1 \in Nat /\ j1 \in Nat
    BY <1>1, <1>2
  <1>6. \/ c1 = c /\ j1 = j + 1
        \/ c1 = c + 1 /\ j1 = 0 /\ j = b - 1
    BY <1>3, <1>4, NextDivision
  <1>7. cmd[c] \in Nat /\ (IsEndCmd(c) => cmd[c - 1] \in Nat)
    BY <1>3, Commands
  <1>8. CASE c1 = c /\ j1 = j + 1
    <2>1. CASE IsEndCmd(c)
      <3>1. PICK a \in Nat : a = (cmd[c - 1] + 1) * BURST
        BY <1>1, <1>7, <2>1
      <3>2. Addr(q) = a + j /\ Addr(q + 1) = a + (j + 1)
        BY <1>3, <1>4, <1>8, <2>1, <3>1, SMTT(30) DEF Addr, CacheLine
      <3>3. /\ Addr(q) \in Nat /\ Addr(q + 1) \in Nat /\ Addr(q) < Addr(q + 1)
            /\ Addr(q + 1) = Addr(q) + 1
        BY <1>5, <3>1, <3>2, SMTT(30)
      <3> QED BY <3>3
    <2>2. CASE ~IsEndCmd(c)
      <3>1. PICK a \in Nat : a = cmd[c] * BURST
        BY <1>1, <1>7
      <3>2. /\ CacheLine(c, j).addr = cmd[c] * BURST + j
            /\ CacheLine(c, j + 1).addr = cmd[c] * BURST + (j + 1)
        BY <2>2 DEF CacheLine
      <3>3. Addr(q) = a + j /\ Addr(q + 1) = a + (j + 1)
        BY <1>3, <1>4, <1>8, <3>1, <3>2 DEF Addr
      <3>4. /\ Addr(q) \in Nat /\ Addr(q + 1) \in Nat /\ Addr(q) < Addr(q + 1)
            /\ Addr(q + 1) = Addr(q) + 1
        BY <1>5, <3>1, <3>3, SMTT(30)
      <3> QED BY <3>4
    <2> QED BY <2>1, <2>2
  <1>9. CASE c1 = c + 1 /\ j1 = 0 /\ j = b - 1
    <2>1. /\ ~IsEndCmd(c) /\ cmd[c] < cmd[c + 1] /\ cmd[c + 1] \in Nat
          /\ Dense(source) /\ ~IsEndCmd(c1) => cmd[c + 1] = cmd[c] + 1
      <3>1. c + 1 <= Len(cmd) /\ c # Upto(run)
        BY <1>2, <1>4, <1>5, <1>9, RunType
      <3>2. ~IsEndCmd(c) /\ cmd[c] < cmd[c + 1]
            /\ (Dense(source) /\ ~IsEndCmd(c + 1) => cmd[c + 1] = cmd[c] + 1)
        BY <1>3, <3>1, Commands
      <3>3. cmd[c + 1] \in Nat
        BY <1>4, <1>9, Commands
      <3> QED BY <1>9, <3>2, <3>3
    <2>2. PICK a \in Nat, d \in Nat : a = cmd[c] /\ d = cmd[c + 1] /\ a + 1 <= d
      BY <1>7, <2>1
    <2>3. PICK x \in Nat, y \in Nat : x = a * b /\ y = d * b
      BY <1>1
    <2>4. (a + 1) * b <= d * b /\ (a + 1) * b = x + b
      <3>1. (a + 1) * b = a * b + b /\ a * b + b <= d * b
        BY <2>2, TimesNext
      <3> QED BY <2>3, <3>1
    <2>5. Addr(q) = x + (b - 1)
      BY <1>1, <1>3, <1>9, <2>1, <2>2, <2>3 DEF Addr, CacheLine
    <2>6. CASE IsEndCmd(c1)
      <3>1. c1 - 1 = c
        BY <1>5, <1>9
      <3>2. Addr(q + 1) = (cmd[c] + 1) * BURST + 0
        BY <1>4, <1>9, <2>6, <3>1 DEF Addr, CacheLine
      <3>3. Addr(q + 1) = x + b
        BY <1>1, <2>2, <2>3, <2>4, <3>2
      <3> QED BY <1>1, <2>3, <2>5, <3>3
    <2>7. CASE ~IsEndCmd(c1)
      <3>1. LineAt(q + 1) = [addr |-> cmd[c1] * BURST + j1, last |-> FALSE,
                             data |-> [run |-> run, line |-> cmd[c1] * BURST + j1]]
        BY <1>4, <2>7 DEF CacheLine
      <3>2. Addr(q + 1) = y /\ LineAt(q + 1).data.line = y
        BY <1>1, <1>9, <2>2, <2>3, <3>1, SMTT(30) DEF Addr
      <3>3. ~IsDummy(q + 1)
        BY <2>3, <3>2 DEF IsDummy, Dummy
      <3>4. Dense(source) => y = x + b
        BY <2>1, <2>2, <2>3, <2>4, <2>7
      <3>5. x + b <= y
        BY <2>3, <2>4
      <3> QED BY <1>1, <2>3, <2>5, <3>2, <3>3, <3>4, <3>5
    <2> QED BY <2>6, <2>7
  <1> QED BY <1>6, <1>8, <1>9

LEMMA LineType ==
    ASSUME FeedInv, RequestInv, NEW q \in Nat, First <= q, q < Sent
    PROVE  /\ Addr(q) \in 0 .. End + 1
           /\ LineAt(q) = [addr |-> Addr(q), last |-> LineAt(q).last, data |-> LineAt(q).data]
           /\ LineAt(q).last \in BOOLEAN /\ (LineAt(q).last <=> q = Stop - 1)
           /\ LineAt(q).data \in Data /\ LineAt(q).data.run = run
           /\ LineAt(q).data.line = Addr(q) \/ (IsDummy(q) /\ First < q)
  <1>1. PICK b \in Nat \ {0, 1}, e \in Nat : b = BURST /\ e = End \div BURST /\ e * b = End
    BY Constants, EndBurst
  <1>2. PICK c \in 1 .. Len(cmd), j \in 0 .. b - 1 :
            /\ c > Upto(run - 1) /\ LineAt(q) = CacheLine(c, j) /\ q = c * b + j
            /\ IsEndCmd(c) => j < 2
            /\ (q = Stop - 1) <=> (IsEndCmd(c) /\ j = 1)
    BY <1>1, LineOfRequest
  <1>3. run \in 0 .. run /\ run \in Nat /\ End \in Nat \ {0}
    BY RunType, Constants
  <1>4. cmd[c] \in Nat /\ cmd[c] <= e /\ (IsEndCmd(c) <=> cmd[c] = e)
    BY <1>1, <1>2, Commands DEF IsEndCmd
  <1>5. CASE IsEndCmd(c)
    <2>1. PICK d \in Nat : d = cmd[c - 1] /\ d + 1 <= e
      <3>1. c - 1 \in 1 .. Len(cmd) /\ c - 1 > Upto(run - 1) /\ (c - 1) + 1 = c
            /\ (c - 1) + 1 <= Len(cmd)
        BY <1>2, <1>5, Commands, RunType DEF RequestInv
      <3>2. cmd[c - 1] \in Nat /\ cmd[c - 1] < cmd[(c - 1) + 1]
        BY <3>1, Commands
      <3> QED BY <1>4, <3>1, <3>2
    <2>2. PICK a \in Nat : a = (d + 1) * b /\ a <= End
      <3>1. (d + 1) * b \in Nat /\ (d + 1) * b = d * b + b /\ d * b + b <= e * b
        BY <2>1, TimesNext
      <3> QED BY <1>1, <3>1
    <2>3. LineAt(q) = [addr |-> a + j, last |-> j = 1, data |-> [run |-> run, line |-> Dummy]]
      BY <1>1, <1>2, <1>5, <2>1, <2>2 DEF CacheLine
    <2>4. First < q
      <3>1. PICK p \in Nat : p = Upto(run - 1)
        BY RunType
      <3>2. p + 1 < c
        BY <1>2, <1>5, <3>1, Commands, RunType DEF RequestInv
      <3>3. PICK f \in Nat, g \in Nat : f = (p + 1) * b /\ g = c * b
        BY <1>1, <3>1, <3>2
      <3>4. (p + 1 + 1) * b <= c * b /\ (p + 1 + 1) * b = f + b
        BY <3>2, <3>3, TimesMonotone
      <3> QED BY <1>1, <1>2, <3>1, <3>3, <3>4 DEF First
    <2>5. Addr(q) = a + j /\ a + j \in 0 .. End + 1
      BY <1>2, <1>3, <1>5, <2>2, <2>3 DEF Addr
    <2>6. [run |-> run, line |-> Dummy] \in Data
      BY <1>3 DEF Data
    <2>7. (LineAt(q).last <=> j = 1) /\ LineAt(q).last \in BOOLEAN
      <3>1. LineAt(q).last = (j = 1)
        BY <2>3
      <3>2. (j = 1) \in BOOLEAN
        OBVIOUS
      <3> QED BY <3>1, <3>2
    <2>8. LineAt(q).data = [run |-> run, line |-> Dummy]
      BY <2>3
    <2>9. LineAt(q) = [addr |-> Addr(q), last |-> LineAt(q).last, data |-> LineAt(q).data]
      BY <2>3, <2>5
    <2>10. LineAt(q).data \in Data /\ LineAt(q).data.run = run /\ LineAt(q).data.line = Dummy
      BY <2>6, <2>8
    <2> QED BY <1>2, <1>5, <2>4, <2>5, <2>7, <2>9, <2>10 DEF IsDummy
  <1>6. CASE ~IsEndCmd(c)
    <2>1. PICK d \in Nat : d = cmd[c] /\ d + 1 <= e
      BY <1>1, <1>4, <1>6
    <2>2. PICK a \in Nat : a = d * b
      BY <1>1
    <2>3. a + b <= e * b
      <3>1. d * b + b <= e * b
        BY <2>1, TimesNext
      <3> QED BY <2>2, <3>1
    <2>4. a + j \in Line /\ a + j \in 0 .. End + 1
      BY <1>1, <1>3, <2>2, <2>3 DEF Line
    <2>5. LineAt(q) = [addr |-> a + j, last |-> FALSE, data |-> [run |-> run, line |-> a + j]]
      BY <1>1, <1>2, <1>6, <2>1, <2>2 DEF CacheLine
    <2>6. Addr(q) = a + j
      BY <2>5 DEF Addr
    <2>7. [run |-> run, line |-> a + j] \in Data
      BY <1>3, <2>4 DEF Data
    <2>8. LineAt(q).last = FALSE /\ LineAt(q).data = [run |-> run, line |-> a + j]
      BY <2>5
    <2>9. LineAt(q) = [addr |-> Addr(q), last |-> LineAt(q).last, data |-> LineAt(q).data]
      BY <2>5, <2>6
    <2>10. LineAt(q).data \in Data /\ LineAt(q).data.run = run /\ LineAt(q).data.line = Addr(q)
      BY <2>6, <2>7, <2>8
    <2> QED BY <1>2, <1>6, <2>4, <2>6, <2>8, <2>9, <2>10
  <1> QED BY <1>5, <1>6

LEMMA AddrOrder ==
    ASSUME FeedInv, RequestInv, NEW q \in Nat, NEW p \in Nat, First <= q, q < p, p < Sent
    PROVE  Addr(q) < Addr(p)
  <1> DEFINE S == {n \in q + 1 .. p : ~(Addr(q) < Addr(n))}
  <1>1. First \in Nat /\ Sent \in Nat
    BY LineNumbers
  <1> SUFFICES ASSUME S # {}
               PROVE  FALSE
    OBVIOUS
  <1>2. S \subseteq Nat
    OBVIOUS
  <1>3. PICK n \in S : \A m \in S : n <= m
    <2> HIDE DEF S
    <2> QED BY <1>2, LeastNatural
  <1>4. PICK m \in Nat : n = m + 1 /\ q <= m /\ First <= m /\ m + 1 < Sent
    <2>1. n - 1 \in Nat /\ n = (n - 1) + 1 /\ q <= n - 1 /\ First <= n - 1 /\ (n - 1) + 1 < Sent
      BY <1>1
    <2> QED BY <2>1
  <1>5. Addr(m) \in Nat /\ Addr(m + 1) \in Nat /\ Addr(m) < Addr(m + 1)
    BY <1>4, LineNext
  <1>6. m = q \/ Addr(q) < Addr(m)
    <2>1. m # q => m \in q + 1 .. p
      BY <1>4
    <2>2. m \notin S
      <3> HIDE DEF S
      <3>1. n \in Nat
        BY <1>2
      <3> QED BY <1>3, <1>4
    <2> QED BY <2>1, <2>2
  <1>7. Addr(q) \in Nat
    BY <1>1, <1>4, LineType
  <1> QED BY <1>3, <1>4, <1>5, <1>6, <1>7

LEMMA TouchedOrder ==
    ASSUME StreamInv, NEW x \in Touched, NEW y \in Touched, x < y,
           RunOf(VectorOf(x)) = RunOf(VectorOf(y))
    PROVE  R!Burst(x) < R!Burst(y)
  <1>1. x \in Sources /\ y \in Sources /\ x \in Nat /\ y \in Nat
    BY IsTouched
  <1>2. PICK u \in Sources : u \in Nat /\ u + 1 = y /\ x <= u
    <2>1. y - 1 \in Nat /\ y - 1 <= y /\ (y - 1) + 1 = y /\ x <= y - 1
      BY <1>1
    <2> QED BY <1>1, <2>1, SourceBelow
  <1>3. /\ RunOf(VectorOf(u)) = RunOf(VectorOf(y))
        /\ RunOf(VectorOf(x)) = RunOf(VectorOf(u)) /\ u <= y
    BY <1>1, <1>2, RunBetween
  <1>4. R!Burst(x) <= R!Burst(u) /\ R!Burst(u) <= R!Burst(y)
    BY <1>1, <1>2, <1>3, Sorted
  <1>5. R!Burst(u) # R!Burst(y)
    <2>1. y # 0 /\ y - 1 = u
      BY <1>1, <1>2
    <2> QED BY <2>1, TouchedSources
  <1>6. {R!Burst(x), R!Burst(y), R!Burst(u)} \subseteq Nat
    BY <1>1, <1>2, BurstOf
  <1> QED BY <1>4, <1>5, <1>6

(* The line of every source of the run is sent, before any with a greater   *)
(* index is.                                                               *)
LEMMA Covered ==
    ASSUME FeedInv, RequestInv, NEW s \in Nat, First <= s, s < Sent,
           NEW k \in 1 .. Len(source), RunOf(k) = run, ~IsEnd(source[k]),
           NEW l \in Lane, source[k][l] <= Addr(s)
    PROVE  \E q \in First .. s : Addr(q) = source[k][l] /\ ~IsDummy(q)
  <1>1. PICK b \in Nat \ {0, 1}, e \in Nat : b = BURST /\ e = End \div BURST
    BY Constants, EndBurst
  <1>2. StreamInv /\ run - 1 \in Nat /\ run \in Nat /\ run = (run - 1) + 1
    BY RunType
  <1>3. PICK x \in Sources : VectorOf(x) = k /\ LineOf(x) = source[k][l]
    BY <1>2, SourceOfLane
  <1>4. LineOf(x) \in Line
    BY <1>2, <1>3, Source
  <1>5. PICK v \in Nat, g \in Nat, a \in Nat, r \in 0 .. b - 1 :
            v = LineOf(x) /\ g = v \div b /\ r = v % b /\ a = g * b /\ v = a + r
    <2>1. LineOf(x) \in Nat
      BY <1>4, Constants DEF Line
    <2>2. /\ LineOf(x) \div b \in Nat /\ LineOf(x) % b \in 0 .. b - 1
          /\ (LineOf(x) \div b) * b \in Nat
          /\ LineOf(x) = (LineOf(x) \div b) * b + (LineOf(x) % b)
      BY <2>1, Division
    <2> QED BY <2>1, <2>2
  <1>6. PICK w \in Touched : R!Burst(w) = g /\ RunOf(VectorOf(w)) = run
    <2>1. R!Burst(x) = g
      BY <1>1, <1>2, <1>5, BurstOf
    <2> QED BY <1>2, <1>3, <2>1, TouchOf
  <1>7. g < e
    BY <1>1, <1>4, <1>5, EndBurst
  <1>8. PICK c \in Nat, p \in Nat, t \in Nat :
            c = Rank(w) /\ p = Upto(run - 1) /\ t = Upto(run) /\ p < c /\ c <= t
    <2>1. Rank(w) \in Nat
      BY <1>2, RankOrder
    <2>2. Rank(w) <= Upto(run) /\ ~(Rank(w) <= Upto(run - 1))
      BY <1>2, <1>6, RankUpto, SMTT(30)
    <2> QED BY <2>1, <2>2, RunType
  <1>9. PICK d \in 1 .. Len(cmd), h \in 0 .. b - 1 :
            d > Upto(run - 1) /\ LineAt(s) = CacheLine(d, h) /\ s = d * b + h
    BY <1>1, LineOfRequest
  <1>10. d \in Nat /\ Len(cmd) \in Nat /\ First \in Nat
    BY LineNumbers DEF RequestInv
  <1>11. PICK y \in Touched : /\ Rank(y) = d /\ cmd[d] = R!Burst(y)
                              /\ RunOf(VectorOf(y)) = run /\ y \in Sources
    BY <1>9, Requester
  <1>12. PICK z \in Nat, f \in Nat : z = cmd[d] /\ f = z * b
    BY <1>2, <1>11, BurstOf
  <1>13. ~IsEndCmd(d) => Addr(s) = f + h
    BY <1>1, <1>9, <1>12 DEF Addr, CacheLine
  <1>14. c <= d
    <2> SUFFICES ASSUME d < c
                 PROVE  FALSE
      BY <1>10
    <2>1. ~IsEndCmd(d)
      BY <1>8, <1>9, <1>10, Commands
    <2>2. y < w
      BY <1>2, <1>8, <1>11, RankOrder
    <2>3. z < g
      BY <1>2, <1>6, <1>11, <1>12, <2>2, TouchedOrder
    <2>4. z * b + b <= g * b
      BY <2>3, TimesNext
    <2>5. f + b <= a
      BY <1>5, <1>12, <2>4
    <2>6. a <= f + h
      <3>1. v = a + r /\ v <= f + h
        BY <1>3, <1>5, <1>13, <2>1
      <3> QED BY <3>1
    <2> QED BY <2>5, <2>6
  <1>15. c \in 1 .. Len(cmd) /\ c > Upto(run - 1)
    BY <1>8, <1>10, <1>14
  <1>16. cmd[c] = g
    <2>1. PICK y1 \in Touched : Rank(y1) = c /\ cmd[c] = R!Burst(y1)
      BY <1>15, Requester
    <2>2. y1 = w
      BY <1>2, <1>8, <2>1, RankOrder
    <2> QED BY <1>6, <2>1, <2>2
  <1>17. ~IsEndCmd(c)
    BY <1>1, <1>7, <1>16 DEF IsEndCmd
  <1>18. PICK m \in Nat, q \in Nat : m = c * b /\ q = m + r
    OBVIOUS
  <1>19. q \div b = c /\ q % b = r
    BY <1>18, Quotient
  <1>20. LineAt(q) = [addr |-> a + r, last |-> FALSE, data |-> [run |-> run, line |-> a + r]]
    BY <1>1, <1>5, <1>16, <1>17, <1>19 DEF LineAt, CacheLine
  <1>21. Addr(q) = v /\ LineAt(q).data.line = v
    BY <1>5, <1>20 DEF Addr
  <1>22. First <= q
    <2>1. p + 1 <= c
      BY <1>8
    <2>2. (p + 1) * b <= c * b
      BY <2>1, TimesMonotone, p + 1 \in Nat
    <2>3. First = (p + 1) * b
      BY <1>1, <1>8 DEF First
    <2> QED BY <1>10, <1>18, <2>2, <2>3, SMTT(30)
  <1>23. q <= s
    <2>1. PICK n \in Nat : n = d * b /\ s = n + h
      BY <1>9, <1>10
    <2>2. CASE c < d
      <3>1. c * b + b <= d * b
        BY <1>10, <2>2, TimesNext
      <3> QED BY <1>18, <2>1, <3>1, SMTT(30)
    <2>3. CASE c = d
      <3>1. z = g /\ f = a
        BY <1>5, <1>12, <1>16, <2>3
      <3>2. v <= a + h
        BY <1>3, <1>5, <1>13, <1>17, <2>3, <3>1
      <3>3. v = a + r /\ m = n /\ q = m + r
        BY <1>5, <1>18, <2>1, <2>3
      <3> QED BY <2>1, <3>2, <3>3
    <2> QED BY <1>10, <1>14, <2>2, <2>3
  <1>24. ~IsDummy(q) /\ q \in First .. s
    BY <1>10, <1>21, <1>22, <1>23 DEF IsDummy, Dummy
  <1> QED BY <1>3, <1>5, <1>21, <1>24

-----------------------------------------------------------------------------
(* The sources of an element. *)

LEMMA LaneType ==
    ASSUME NEW n \in 0 .. 2 * PE_NUM - 1
    PROVE  /\ n % PE_NUM \in PE /\ n \div PE_NUM \in {0, 1}
           /\ n = (n \div PE_NUM) * PE_NUM + (n % PE_NUM)
           /\ (n >= PE_NUM) <=> (n \div PE_NUM = 1)
           /\ LaneOf(n) = 2 * PE_NUM - 1 - 2 * (n % PE_NUM) + (n \div PE_NUM)
           /\ LaneOf(n) \in Lane
  <1>1. PICK p \in Nat \ {0} : p = PE_NUM
    BY Constants
  <1>2. n \in Nat /\ n < 2 * p
    BY <1>1
  <1>3. PICK h \in Nat, i \in 0 .. p - 1 : h = n \div p /\ i = n % p
    BY <1>2, Division
  <1>4. n = h * p + i
    BY <1>2, <1>3, Division
  <1>5. h < 2
    <2> SUFFICES ASSUME 2 <= h
                 PROVE  FALSE
      OBVIOUS
    <2>1. 2 * p <= h * p
      BY TimesMonotone
    <2>2. h * p \in Nat
      OBVIOUS
    <2> QED BY <1>2, <1>4, <2>1, <2>2
  <1>6. n >= p <=> h = 1
    <2>1. CASE h = 0
      BY <1>4, <2>1
    <2>2. CASE h = 1
      BY <1>4, <2>2
    <2> QED BY <1>5, <2>1, <2>2
  <1>7. LaneOf(n) = 2 * p - 1 - 2 * i + h
    BY <1>1, <1>3 DEF LaneOf
  <1>8. LaneOf(n) \in 1 .. 2 * p
    BY <1>5, <1>7
  <1> QED BY <1>1, <1>3, <1>4, <1>5, <1>6, <1>7, <1>8 DEF PE, Lane

\* No two items of a vector have the same lane.
LEMMA LaneInjective ==
    ASSUME NEW n \in 0 .. 2 * PE_NUM - 1, NEW m \in 0 .. 2 * PE_NUM - 1, LaneOf(n) = LaneOf(m)
    PROVE  n = m
  <1>1. PICK p \in Nat \ {0} : p = PE_NUM
    BY Constants
  <1>2. ASSUME NEW x \in 0 .. 2 * PE_NUM - 1
        PROVE  \E i \in Nat, h \in {0, 1} :
                  LaneOf(x) = 2 * p - 1 - 2 * i + h /\ x = h * p + i
    <2>1. /\ x % PE_NUM \in PE /\ x \div PE_NUM \in {0, 1}
          /\ x = (x \div PE_NUM) * PE_NUM + (x % PE_NUM)
          /\ LaneOf(x) = 2 * PE_NUM - 1 - 2 * (x % PE_NUM) + (x \div PE_NUM)
      BY LaneType
    <2>2. x % PE_NUM \in Nat
      BY <2>1, Constants DEF PE
    <2> QED BY <1>1, <2>1, <2>2
  <1>3. PICK i \in Nat, h \in {0, 1} : LaneOf(n) = 2 * p - 1 - 2 * i + h /\ n = h * p + i
    BY <1>2
  <1>4. PICK j \in Nat, g \in {0, 1} : LaneOf(m) = 2 * p - 1 - 2 * j + g /\ m = g * p + j
    BY <1>2
  <1>5. h = g /\ i = j
    <2>1. 2 * p - 1 - 2 * i + h = 2 * p - 1 - 2 * j + g
      BY <1>3, <1>4
    <2> QED BY <2>1
  <1> QED BY <1>3, <1>4, <1>5

\* The item of element i in the lower, or the upper, half of a vector.
LEMMA ItemOf ==
    ASSUME NEW i \in PE, NEW h \in {0, 1}
    PROVE  /\ h * PE_NUM + i \in 0 .. 2 * PE_NUM - 1
           /\ (h * PE_NUM + i) % PE_NUM = i /\ (h * PE_NUM + i) \div PE_NUM = h
           /\ LaneOf(h * PE_NUM + i) \in Lane
           /\ LaneOf(h * PE_NUM + i) = 2 * PE_NUM - 1 - 2 * i + h
  <1>1. PICK p \in Nat \ {0} : p = PE_NUM
    BY Constants
  <1>2. i \in 0 .. p - 1
    BY <1>1 DEF PE
  <1>3. (h * p + i) % p = i /\ (h * p + i) \div p = h
    BY <1>2, Quotient
  <1>4. h * p + i \in 0 .. 2 * p - 1
    BY <1>2
  <1> QED BY <1>1, <1>3, <1>4, LaneType

LEMMA Half ==
    ASSUME NEW t \in Nat
    PROVE  /\ t \div 2 \in Nat /\ t % 2 \in {0, 1} /\ t = 2 * (t \div 2) + (t % 2)
           /\ t % 2 = 0 => (t + 1) \div 2 = t \div 2 /\ (t + 1) % 2 = 1
           /\ t % 2 = 1 => (t + 1) \div 2 = (t \div 2) + 1 /\ (t + 1) % 2 = 0
  <1>1. /\ t \div 2 \in Nat /\ t % 2 \in 0 .. 2 - 1 /\ (t \div 2) * 2 \in Nat
        /\ t = (t \div 2) * 2 + (t % 2)
    BY Division, 2 \in Nat \ {0}
  <1>2. \/ /\ (t + 1) \div 2 = t \div 2 /\ (t + 1) % 2 = (t % 2) + 1
           /\ t % 2 # 2 - 1
        \/ /\ (t + 1) \div 2 = (t \div 2) + 1 /\ (t + 1) % 2 = 0
           /\ t % 2 = 2 - 1
    BY NextDivision, 2 \in Nat \ {0}
  <1>3. PICK a \in Nat, r \in 0 .. 1 : a = t \div 2 /\ r = t % 2 /\ t = a * 2 + r
    BY <1>1
  <1>4. t = 2 * a + r
    BY <1>3
  <1> QED BY <1>2, <1>3, <1>4

LEMMA SourceAtType ==
    ASSUME source \in Input, NEW i \in PE, NEW t \in Nat, InRun(t)
    PROVE  /\ t \div 2 \in 1 .. Len(source)
           /\ LaneOf((t % 2) * PE_NUM + i) \in Lane
           /\ SourceAt(i, t) = source[t \div 2][LaneOf((t % 2) * PE_NUM + i)]
           /\ SourceAt(i, t) \in Line /\ SourceAt(i, t) \in Nat
  <1>1. t % 2 \in {0, 1}
    BY Half
  <1>2. LaneOf((t % 2) * PE_NUM + i) \in Lane
    BY <1>1, ItemOf
  <1>3. t \div 2 \in 1 .. Len(source) /\ ~IsEnd(source[t \div 2])
    BY Stream DEF InRun
  <1>4. SourceAt(i, t) = source[t \div 2][LaneOf((t % 2) * PE_NUM + i)]
    BY DEF SourceAt
  <1>5. SourceAt(i, t) \in Line
    BY <1>2, <1>3, <1>4, EndLanes
  <1>6. SourceAt(i, t) \in Nat
    BY <1>5, Constants DEF Line
  <1> QED BY <1>2, <1>3, <1>4, <1>5, <1>6

LEMMA SourceAtNext ==
    ASSUME source \in Input, NEW i \in PE, NEW t \in Nat, InRun(t), InRun(t + 1)
    PROVE  SourceAt(i, t) <= SourceAt(i, t + 1)
  <1>1. PICK k \in 1 .. Len(source), h \in {0, 1} :
            k = t \div 2 /\ h = t % 2 /\ ~IsEnd(source[k])
    BY Half, SourceAtType DEF InRun
  <1>2. PICK k1 \in 1 .. Len(source), h1 \in {0, 1} :
            k1 = (t + 1) \div 2 /\ h1 = (t + 1) % 2
    BY t + 1 \in Nat, Half, SourceAtType
  <1>3. PICK p \in Nat \ {0}, j \in Nat : p = PE_NUM /\ j = i /\ j < p
    BY Constants DEF PE
  <1>4. SourceAt(i, t) = source[k][2 * p - 1 - 2 * j + h]
    BY <1>1, <1>3, ItemOf DEF SourceAt
  <1>5. SourceAt(i, t + 1) = source[k1][2 * p - 1 - 2 * j + h1]
    BY <1>2, <1>3, ItemOf DEF SourceAt
  <1>6. \A g \in {0, 1} : 2 * p - 1 - 2 * j + g \in 1 .. 2 * p
    BY <1>3
  <1>7. CASE h = 0
    <2>1. k1 = k /\ h1 = 1
      BY <1>1, <1>2, <1>7, Half
    <2>2. 2 * p - 1 - 2 * j + 0 \in Lane
          /\ 2 * p - 1 - 2 * j + 1 \in (2 * p - 1 - 2 * j + 0) .. 2 * PE_NUM
      BY <1>3, <1>6 DEF Lane
    <2>3. source[k][2 * p - 1 - 2 * j + 0] <= source[k][2 * p - 1 - 2 * j + 1]
      BY <2>2, Order
    <2> QED BY <1>4, <1>5, <1>7, <2>1, <2>3
  <1>8. CASE h = 1
    <2>1. k1 = k + 1 /\ h1 = 0
      BY <1>1, <1>2, <1>8, Half
    <2> DEFINE a == 2 * p - 1 - 2 * j + 1
               c == 2 * p - 1 - 2 * j + 0
    <2>2. a \in Lane /\ c \in Lane /\ 2 * PE_NUM \in a .. 2 * PE_NUM /\ 2 * PE_NUM \in Lane
      BY <1>3, <1>6 DEF Lane
    <2>3. Len(source) \in Nat
      BY Stream
    <2>4. k1 > 1 /\ k1 - 1 = k
      BY <2>1, <2>3
    <2> HIDE DEF a, c
    <2>5. source[k][a] <= source[k][2 * PE_NUM]
      BY <2>2, Order
    <2>6. source[k][2 * PE_NUM] <= source[k1][c]
      BY <1>1, <2>2, <2>4, Order
    <2>7. source[k][a] \in Nat /\ source[k][2 * PE_NUM] \in Nat /\ source[k1][c] \in Nat
      BY <2>2, EndLanes
    <2>8. source[k][a] <= source[k1][c]
      BY <2>5, <2>6, <2>7
    <2> QED BY <1>4, <1>5, <1>8, <2>1, <2>8 DEF a, c
  <1> QED BY <1>7, <1>8

-----------------------------------------------------------------------------
(* The sources that src_dispatch and src_merge have come to. *)

LEMMA FedType ==
    ASSUME FeedInv
    PROVE  /\ fed \in Nat /\ fed2 \in Nat /\ fed2 <= fed /\ fed <= fed2 + 1
           /\ fed <= Len(source) /\ Len(source) \in Nat /\ source \in Input
           /\ DOMAIN source = 1 .. Len(source)
  <1>1. Len(source) \in Nat /\ source \in Input /\ DOMAIN source = 1 .. Len(source)
    BY Stream DEF FeedInv, StreamInv
  <1>2. fed \in 0 .. Len(source) /\ fed2 \in {fed - 1, fed} \cap Nat
    BY DEF FeedInv
  <1> QED BY <1>1, <1>2

\* The last vector fed when everything of the run was fed.
LEMMA RunFed ==
    ASSUME FeedInv, RunOf(fed + 1) = run + 1
    PROVE  fed \in Nat \ {0} /\ fed \in 1 .. Len(source) /\ RunOf(fed) = run /\ IsEnd(source[fed])
  <1>1. fed # 0
    <2>1. fed = 0 => RunOf(fed + 1) = 1
      BY FirstRun
    <2> QED BY <2>1, RunType
  <1>2. fed \in Nat \ {0} /\ fed \in 1 .. Len(source)
    BY <1>1, FedType
  <1>3. RunOf(fed) \in 1 .. fed
    BY <1>2, RunStep
  <1>4. RunOf(fed + 1) = IF IsEnd(source[fed]) THEN RunOf(fed) + 1 ELSE RunOf(fed)
    BY <1>2, RunStep
  <1>5. RunOf(fed) <= run /\ run \in Nat
    BY <1>1, <1>2, RunType DEF FeedInv
  <1>6. IsEnd(source[fed])
    BY <1>2, <1>3, <1>4, <1>5
  <1>7. RunOf(fed) = run
    BY <1>2, <1>3, <1>4, <1>5, <1>6
  <1> QED BY <1>2, <1>6, <1>7

LEMMA PlaceCases ==
    ASSUME FeedInv, NEW place, PlaceInv(place)
    PROVE  /\ place.vector \in Nat \ {0} /\ place.vector <= fed2 + 1
           /\ \/ RunOf(place.vector) = run
              \/ /\ RunOf(place.vector) = run + 1 /\ RunOf(place.vector) # run
                 /\ place.vector = fed + 1 /\ fed2 = fed /\ place.item = 0
                 /\ RunOf(fed + 1) = run + 1
  <1>1. place.vector \in Nat \ {0} /\ place.vector <= fed2 + 1
    BY FedType DEF PlaceInv
  <1>2. run \in Nat
    BY RunType
  <1>3. RunOf(place.vector) = run + 1 => RunOf(place.vector) # run
    BY <1>2
  <1> QED BY <1>1, <1>3 DEF PlaceInv

LEMMA ItemsType ==
    ASSUME FeedInv, NEW place, PlaceInv(place), NEW i \in PE
    PROVE  /\ Halves(i, place.item) \in {0, 1, 2}
           /\ Items(place, i) \in Nat
           /\ RunOf(place.vector) = run =>
                 Items(place, i) = 2 * place.vector + Halves(i, place.item)
           /\ RunOf(place.vector) # run => Items(place, i) = 2 * fed
  <1>1. Halves(i, place.item) \in {0, 1, 2}
    BY DEF Halves
  <1>2. PICK v \in Nat, f \in Nat : v = place.vector /\ f = fed /\ v # 0
    BY PlaceCases, FedType
  <1>3. CASE RunOf(place.vector) = run
    BY <1>1, <1>2, <1>3 DEF Items
  <1>4. CASE RunOf(place.vector) # run
    <2>1. v = f + 1
      BY <1>2, <1>4, PlaceCases
    <2> QED BY <1>1, <1>2, <1>4, <2>1 DEF Items
  <1> QED BY <1>3, <1>4

\* What src_dispatch gave out and src_merge did not put into a vector yet.
LEMMA ItemInRun ==
    ASSUME FeedInv, PlacesInv, NEW i \in PE, NEW t \in Nat,
           Items(merge, i) <= t, t < Items(dispatch, i)
    PROVE  InRun(t) /\ t \div 2 \in Nat \ {0} /\ t \div 2 <= fed2
  <1>1. PlaceInv(dispatch) /\ PlaceInv(merge)
        /\ (dispatch.item > 0 => dispatch.vector < fed2)
        /\ dispatch.item \in 0 .. 2 * PE_NUM - 1
    BY DEF PlacesInv
  <1>2. PICK v \in Nat : v = t \div 2 /\ 2 * v <= t /\ t <= 2 * v + 1
    BY Half
  <1>3. PICK dv \in Nat, mv \in Nat, f \in Nat, f2 \in Nat, n \in Nat :
            /\ dv = dispatch.vector /\ mv = merge.vector /\ f = fed /\ f2 = fed2
            /\ n = Len(source) /\ dv # 0 /\ mv # 0
            /\ dv <= f2 + 1 /\ mv <= f2 + 1 /\ f2 <= f /\ f <= n
    BY <1>1, PlaceCases, FedType
  <1>4. PICK hd \in {0, 1, 2}, hm \in {0, 1, 2} :
            hd = Halves(i, dispatch.item) /\ hm = Halves(i, merge.item)
    BY <1>1, ItemsType
  <1>5. hd > 0 => dv < f2
    <2>1. i \in Nat
      BY Constants DEF PE
    <2>2. hd > 0 => dispatch.item > 0
      BY <1>1, <1>4, <2>1, Constants DEF Halves
    <2> QED BY <1>1, <1>3, <2>2
  <1>6. /\ RunOf(dv) = run => Items(dispatch, i) = 2 * dv + hd
        /\ RunOf(mv) = run => Items(merge, i) = 2 * mv + hm
        /\ RunOf(dv) # run => Items(dispatch, i) = 2 * f
        /\ RunOf(mv) # run => Items(merge, i) = 2 * f
    BY <1>1, <1>3, <1>4, ItemsType
  <1>7. Items(dispatch, i) \in Nat /\ Items(merge, i) \in Nat
    BY <1>1, ItemsType
  <1>8. RunOf(dv) # run => dv = f + 1 /\ f2 = f
    BY <1>1, <1>3, PlaceCases
  <1>9. RunOf(mv) = run /\ mv <= v
    <2>1. CASE RunOf(mv) = run
      BY <1>2, <1>6, <2>1
    <2>2. CASE RunOf(mv) # run
      <3>1. f <= v
        BY <1>2, <1>6, <2>2
      <3>2. mv = f + 1
        BY <1>1, <1>3, <2>2, PlaceCases
      <3>3. CASE RunOf(dv) = run
        <4>1. dv <= f
          BY <1>3, <2>2, <3>2, <3>3
        <4>2. 2 * f < 2 * dv + hd
          BY <1>2, <1>6, <1>7, <2>2, <3>3
        <4> QED BY <1>3, <1>5, <4>1, <4>2, SMTT(30)
      <3>4. CASE RunOf(dv) # run
        BY <1>6, <1>7, <2>2, <3>4
      <3> QED BY <3>3, <3>4
    <2> QED BY <2>1, <2>2
  <1>10. CASE RunOf(dv) = run
    <2>1. v <= dv /\ (v = dv => dv < f2)
      BY <1>2, <1>5, <1>6, <1>7, <1>10
    <2>2. CASE v = dv
      <3>1. ~IsEnd(source[v]) /\ RunOf(v) = run
        BY <1>1, <1>3, <1>10, <2>1, <2>2 DEF PlaceInv
      <3>2. v \in 1 .. Len(source) /\ v <= f2
        BY <1>3, <2>1, <2>2
      <3> QED BY <1>2, <1>3, <2>1, <2>2, <3>1, <3>2, FedType DEF InRun
    <2>3. CASE v < dv
      <3>1. ~IsEnd(source[v]) /\ RunOf(v) = run
        BY <1>3, <1>9, <1>10, <2>3, SameRunNoEnd
      <3>2. v \in 1 .. Len(source) /\ v <= f2
        BY <1>3, <1>9, <2>3
      <3> QED BY <1>2, <1>3, <3>1, <3>2, FedType DEF InRun
    <2> QED BY <2>1, <2>2, <2>3
  <1>11. CASE RunOf(dv) # run
    <2>1. v < f /\ f2 = f
      BY <1>2, <1>6, <1>7, <1>8, <1>11
    <2>2. RunOf(f) = run
      BY <1>1, <1>3, <1>11, PlaceCases, RunFed
    <2>3. ~IsEnd(source[v]) /\ RunOf(v) = run
      BY <1>3, <1>9, <2>1, <2>2, SameRunNoEnd
    <2>4. v \in 1 .. Len(source) /\ v <= f2
      BY <1>3, <1>9, <2>1
    <2> QED BY <1>2, <1>3, <2>3, <2>4, FedType DEF InRun
  <1> QED BY <1>10, <1>11

\* Behind the last source of a run nothing more was given out.
LEMMA LastItem ==
    ASSUME FeedInv, PlacesInv, NEW i \in PE, NEW t \in Nat,
           Items(merge, i) <= t, t < Items(dispatch, i), LastAt(t)
    PROVE  Items(dispatch, i) = t + 1
  <1>1. InRun(t)
    BY ItemInRun
  <1>2. PICK v \in Nat : v = t \div 2 /\ t = 2 * v + 1 /\ IsEnd(source[v + 1])
    BY Half DEF LastAt
  <1>3. PICK n \in Nat : n = Len(source) /\ IsEnd(source[n])
    BY Stream, FedType
  <1>4. v \in 1 .. n /\ ~IsEnd(source[v]) /\ RunOf(v) = run
    BY <1>1, <1>2, <1>3, FedType DEF InRun
  <1>5. v \in Nat \ {0} /\ v + 1 \in 1 .. n
    <2>1. v # n
      BY <1>3, <1>4
    <2> QED BY <1>4, <2>1
  <1>6. RunOf(v + 1) = run
    BY <1>4, <1>5, RunStep
  <1>7. PICK dv \in Nat, f \in Nat : dv = dispatch.vector /\ f = fed /\ PlaceInv(dispatch)
    BY PlaceCases, FedType DEF PlacesInv
  <1>8. Items(dispatch, i) \in Nat
    BY <1>7, ItemsType
  <1>9. CASE RunOf(dv) = run
    <2>1. ~(v + 1 < dv)
      <3>1. v + 1 < dv => RunOf(v + 1) < RunOf(dv)
        BY <1>2, <1>5, RunEnds
      <3> QED BY <1>6, <1>9, <3>1, RunType
    <2>2. dv # v + 1
      BY <1>2, <1>3, <1>5, <1>7 DEF PlaceInv
    <2>3. dv <= v
      BY <2>1, <2>2
    <2>4. Items(dispatch, i) <= 2 * dv + 2
      <3>1. Halves(i, dispatch.item) \in {0, 1, 2}
            /\ Items(dispatch, i) = 2 * dispatch.vector + Halves(i, dispatch.item)
        BY <1>7, <1>9, ItemsType
      <3> QED BY <1>7, <3>1
    <2> QED BY <1>2, <1>8, <2>3, <2>4
  <1>10. CASE RunOf(dv) # run
    <2>1. Items(dispatch, i) = 2 * f
      BY <1>7, <1>10, ItemsType
    <2>2. RunOf(f) = run
      BY <1>7, <1>10, PlaceCases, RunFed
    <2>3. ~(v + 1 < f)
      <3>1. v + 1 < f => RunOf(v + 1) < RunOf(f)
        BY <1>2, <1>5, RunEnds
      <3> QED BY <1>6, <2>2, <3>1, RunType
    <2> QED BY <1>2, <1>8, <2>1, <2>3
  <1> QED BY <1>9, <1>10

-----------------------------------------------------------------------------
(* What a step leaves as it is. *)

SameStream == UNCHANGED <<source, input>>

LEMMA SameStreamFacts ==
    ASSUME SameStream
    PROVE  /\ \A k \in Nat : (RunOf(k) = RunOf(k)')
           /\ \A k : R!Touched(k)' = R!Touched(k) /\ R!Burst(k)' = R!Burst(k) /\ Rank(k)' = Rank(k)
           /\ \A r : Upto(r)' = Upto(r)
           /\ Touched' = Touched /\ Dense(source)' = Dense(source)
           /\ StreamInv => StreamInv'
  <1>1. source' = source /\ input' = input
    BY DEF SameStream
  <1>2. \A k : RunOf(k)' = RunOf(k)
    BY <1>1 DEF RunOf
  <1>3. \A k : R!Touched(k)' = R!Touched(k) /\ R!Burst(k)' = R!Burst(k)
    BY <1>1 DEF R!Touched, R!Burst, R!Width
  <1>4. Touched' = Touched
    BY <1>1, <1>3 DEF Touched
  <1>5. \A k : Rank(k)' = Rank(k)
    BY <1>4 DEF Rank
  <1>6. \A r : Upto(r)' = Upto(r)
    BY <1>1, <1>2, <1>4 DEF Upto
  <1>7. Dense(source)' = Dense(source)
    BY <1>1
  <1>8. StreamInv => StreamInv'
    BY <1>1 DEF StreamInv
  <1> QED BY <1>2, <1>3, <1>4, <1>5, <1>6, <1>7, <1>8

SameElement(i) ==
    /\ pe'[i] = pe[i] /\ prop'[i] = prop[i]
    /\ NextItem(i)' = NextItem(i) /\ (Exhausted(i) => Exhausted(i)')

(* What an element is like does not depend on what is sent later.           *)
LEMMA ElementSame ==
    ASSUME FeedInv, RequestInv, SameStream, run' = run,
           NEW n \in First .. Sent,
           \A q \in First .. n - 1 : LineAt(q)' = LineAt(q),
           NEW i \in PE, SameElement(i),
           Active(i, n) \/ Idle(i, n)
    PROVE  (Active(i, n) \/ Idle(i, n))'
  <1>1. source' = source /\ First' = First /\ Stop' = Stop /\ First \in Nat
    BY SameStreamFacts, LineNumbers DEF SameStream, First, Stop
  <1>2. \A q \in First .. n - 1 : Addr(q)' = Addr(q)
    BY DEF Addr
  <1>3. pe'[i] = pe[i] /\ prop'[i] = prop[i] /\ NextItem(i)' = NextItem(i)
        /\ (Exhausted(i) => Exhausted(i)')
    BY DEF SameElement
  <1>4. CASE Active(i, n)
    <2>1. ASSUME pe[i].tb_valid
          PROVE  n > First /\ pe[i].tb = [addr |-> Addr(n - 1)', data |-> LineAt(n - 1)'.data]
      <3>1. n > First /\ pe[i].tb = [addr |-> Addr(n - 1), data |-> LineAt(n - 1).data]
        BY <1>4, <2>1 DEF Active
      <3>2. n - 1 \in First .. n - 1
        BY <1>1, <3>1
      <3> QED BY <1>2, <3>1, <3>2
    <2>2. SourceInv(i)'
      <3>1. \A t : InRun(t)' = InRun(t) /\ SourceAt(i, t)' = SourceAt(i, t) /\ LastAt(t)' = LastAt(t)
        BY <1>1 DEF InRun, SourceAt, LastAt, RunOf
      <3>2. SourceInv(i)
        BY <1>4 DEF Active
      <3> QED BY <1>3, <3>1, <3>2 DEF SourceInv
    <2>3. ASSUME NEW s \in First .. n, WindowInv(i, s)
          PROVE  WindowInv(i, s)'
      <3>1. pe'[i].max = IF s = First THEN 0 ELSE (Addr(s - 1) + 1)'
        <4>1. s # First => s - 1 \in First .. n - 1
          BY <1>1
        <4> QED BY <1>2, <1>3, <2>3, <4>1 DEF WindowInv
      <3>2. pe'[i].need_update => pe'[i].max < pe'[i].required_min + CACHE_LINES
        BY <1>3, <2>3 DEF WindowInv
      <3>3. ASSUME NEW q \in First + 1 .. s - 1, Addr(q)' = (Addr(q - 1) + 1)'
            PROVE  Addr(q)' < pe'[i].required_min + CACHE_LINES
        <4>1. q \in First .. n - 1 /\ q - 1 \in First .. n - 1
          BY <1>1
        <4> QED BY <1>2, <1>3, <2>3, <3>3, <4>1 DEF WindowInv
      <3>4. ASSUME NEW q \in First .. s - 1
            PROVE  \E p \in q .. s - 1 :
                      /\ Tag(Addr(p)') = Tag(Addr(q)')
                      /\ prop'[i][Tag(Addr(q)')] = LineAt(p)'.data
        <4>1. PICK p \in q .. s - 1 : /\ Tag(Addr(p)) = Tag(Addr(q))
                                      /\ prop[i][Tag(Addr(q))] = LineAt(p).data
          BY <2>3 DEF WindowInv
        <4>2. q \in First .. n - 1 /\ p \in First .. n - 1
          BY <1>1
        <4> QED BY <1>2, <1>3, <4>1, <4>2
      <3> QED BY <1>1, <3>1, <3>2, <3>3, <3>4 DEF WindowInv, Tag
    <2>4. ASSUME ~pe[i].end_of_sv
          PROVE  WindowInv(i, IF pe[i].tb_valid THEN n - 1 ELSE n)'
      <3>1. PICK s \in First .. n : s = IF pe[i].tb_valid THEN n - 1 ELSE n
        BY <1>1, <2>1
      <3>2. WindowInv(i, s)
        BY <1>4, <2>4, <3>1 DEF Active
      <3>3. WindowInv(i, s)'
        BY <2>3, <3>2
      <3> QED BY <1>3, <3>1, <3>3
    <2> QED BY <1>1, <1>3, <1>4, <2>1, <2>2, <2>4 DEF Active
  <1>5. CASE Idle(i, n)
    BY <1>1, <1>3, <1>5 DEF Idle
  <1> QED BY <1>4, <1>5

(* Elements are as they were when no line comes or goes, and no line that   *)
(* was sent is another one then.                                           *)
LEMMA ElementsSame ==
    ASSUME FeedInv, RequestInv, ElementsInv, SameStream, run' = run,
           taken' = taken, inner_idx' = inner_idx, cl_stream' = cl_stream,
           \A q \in First .. Sent - 1 : LineAt(q)' = LineAt(q),
           \A i \in PE : SameElement(i)
    PROVE  ElementsInv'
  <1>1. First' = First /\ Sent' = Sent /\ First \in Nat /\ Sent \in Nat
    BY SameStreamFacts, LineNumbers DEF First, Stop, Sent
  <1>2. PICK next \in [PE -> First .. Sent] :
            /\ Chain(next) /\ \A i \in PE : Active(i, next[i]) \/ Idle(i, next[i])
    BY DEF ElementsInv
  <1>3. Chain(next)'
    <2> SUFFICES ASSUME NEW i \in PE
                 PROVE  /\ next[i] <= Above(i, next)'
                        /\ IsSeq(cl_stream[i])
                        /\ Len(cl_stream[i]) = Above(i, next)' - next[i]
                        /\ \A j \in 1 .. Len(cl_stream[i]) :
                              cl_stream[i][j] = LineAt(next[i] + (j - 1))'
      BY DEF Chain
    <2>1. Above(i, next)' = Above(i, next)
      BY <1>1 DEF Above
    <2>2. /\ next[i] <= Above(i, next) /\ IsSeq(cl_stream[i])
          /\ Len(cl_stream[i]) = Above(i, next) - next[i]
          /\ \A j \in 1 .. Len(cl_stream[i]) : cl_stream[i][j] = LineAt(next[i] + (j - 1))
      BY <1>2 DEF Chain
    <2>3. next[i] \in First .. Sent /\ Above(i, next) \in First .. Sent
      <3>1. i # 0 => i - 1 \in PE
        BY Constants DEF PE
      <3> QED BY <1>1, <1>2, <3>1, LineNumbers DEF Above
    <2>4. ASSUME NEW j \in 1 .. Len(cl_stream[i])
          PROVE  cl_stream[i][j] = LineAt(next[i] + (j - 1))'
      <3>1. next[i] + (j - 1) \in First .. Sent - 1
        BY <1>1, <2>2, <2>3
      <3> QED BY <2>2, <3>1
    <2> QED BY <2>1, <2>2, <2>4
  <1>4. ASSUME NEW i \in PE
        PROVE  (Active(i, next[i]) \/ Idle(i, next[i]))'
    <2>1. PICK n \in First .. Sent : n = next[i]
      BY <1>2
    <2>2. \A q \in First .. n - 1 : LineAt(q)' = LineAt(q)
      BY <1>1
    <2>3. (Active(i, n) \/ Idle(i, n))'
      BY <1>2, <2>1, <2>2, ElementSame
    <2> QED BY <2>1, <2>3
  <1> QED BY <1>1, <1>2, <1>3, <1>4 DEF ElementsInv

LEMMA LinesSame ==
    ASSUME SameStream, run' = run, cmd' = cmd
    PROVE  \A q : LineAt(q)' = LineAt(q)
  BY DEF SameStream, LineAt, CacheLine, IsEndCmd

LEMMA RequestSame ==
    ASSUME RequestInv, SameStream, run' = run, fed' = fed,
           UNCHANGED <<cmd, taken, inner_idx>>
    PROVE  RequestInv'
  <1>1. \A r : Upto(r)' = Upto(r)
    BY SameStreamFacts
  <1>2. \A c \in 1 .. Len(cmd) :
            \E x \in R!Touched(fed)' : Rank(x)' = c /\ cmd[c] = R!Burst(x)'
    BY SameStreamFacts DEF RequestInv
  <1> QED BY <1>1, <1>2 DEF RequestInv

LEMMA FeedSame ==
    ASSUME FeedInv, SameStream, UNCHANGED <<run, fed, fed2>>
    PROVE  FeedInv'
  <1>1. source' = source
    BY DEF SameStream
  <1>2. \A k : RunOf(k)' = RunOf(k)
    BY <1>1 DEF RunOf
  <1> QED BY <1>1, <1>2, SameStreamFacts DEF FeedInv

LEMMA ItemsSame ==
    ASSUME SameStream, run' = run
    PROVE  /\ \A t : InRun(t)' = InRun(t) /\ LastAt(t)' = LastAt(t)
           /\ \A i, t : SourceAt(i, t)' = SourceAt(i, t)
           /\ \A d, line : Serving(d, line)' = Serving(d, line)
           /\ dispatch' = dispatch => \A i : Items(dispatch, i)' = Items(dispatch, i)
           /\ merge' = merge => \A i : Items(merge, i)' = Items(merge, i)
  <1>1. source' = source
    BY DEF SameStream
  <1>2. \A k : RunOf(k)' = RunOf(k)
    BY <1>1 DEF RunOf
  <1>3. \A t : InRun(t)' = InRun(t) /\ LastAt(t)' = LastAt(t)
    BY <1>1, <1>2 DEF InRun, LastAt
  <1>4. \A i, t : SourceAt(i, t)' = SourceAt(i, t)
    BY <1>1 DEF SourceAt
  <1>5. \A d, line : Serving(d, line)' = Serving(d, line)
    BY <1>1 DEF Serving, Data
  <1>6. dispatch' = dispatch => \A i : Items(dispatch, i)' = Items(dispatch, i)
    BY <1>2 DEF Items
  <1>7. merge' = merge => \A i : Items(merge, i)' = Items(merge, i)
    BY <1>2 DEF Items
  <1> QED BY <1>3, <1>4, <1>5, <1>6, <1>7

LEMMA PlacesSame ==
    ASSUME PlacesInv, SameStream, UNCHANGED <<run, fed, fed2, dispatch, merge>>
    PROVE  PlacesInv'
  <1>1. source' = source
    BY DEF SameStream
  <1>2. \A k : RunOf(k)' = RunOf(k)
    BY <1>1 DEF RunOf
  <1> QED BY <1>1, <1>2 DEF PlacesInv, PlaceInv

LEMMA PkgSame ==
    ASSUME PkgInv, SameStream, UNCHANGED <<run, merge, pkg>>
    PROVE  PkgInv'
  BY ItemsSame DEF PkgInv, SameStream

LEMMA ItemsInvSame ==
    ASSUME SameStream, NEW i \in PE, ItemsInv(i), UNCHANGED <<run, dispatch, merge>>,
           sv_stream'[i] = sv_stream[i], out_stream'[i] = out_stream[i], pe'[i] = pe[i]
    PROVE  ItemsInv(i)' /\ NextItem(i)' = NextItem(i) /\ Exhausted(i)' = Exhausted(i)
  <1>1. Items(dispatch, i)' = Items(dispatch, i) /\ Items(merge, i)' = Items(merge, i)
    BY ItemsSame
  <1>2. NextItem(i)' = NextItem(i)
    BY <1>1 DEF NextItem
  <1>3. Exhausted(i)' = Exhausted(i)
    BY <1>2, ItemsSame DEF Exhausted
  <1>4. ItemsInv(i)'
    BY <1>1, <1>2, ItemsSame DEF ItemsInv
  <1> QED BY <1>2, <1>3, <1>4

LEMMA TypesSame ==
    ASSUME ElementTypes, UNCHANGED <<run, peVars, pkg>>
    PROVE  ElementTypes'
  BY DEF ElementTypes, Registers, Data, peVars

-----------------------------------------------------------------------------
(* The way to coalesce and the read engine. *)

LEMMA StartedRun ==
    ASSUME FeedInv
    PROVE  Started <=> RunOf(fed + 1) = run
  <1> DEFINE n == Cardinality({k \in 1 .. fed : IsEnd(source[k])})
  <1>1. fed \in Nat /\ (fed + 1) - 1 = fed /\ run \in Nat
    BY FedType, RunType
  <1>2. RunOf(fed + 1) = n + 1
    BY <1>1 DEF RunOf
  <1>3. Started <=> n < run
    BY DEF Started
  <1>4. n + 1 \in {run, run + 1}
    BY <1>2 DEF FeedInv
  <1>5. n \in Nat
    <2>1. {k \in 1 .. fed : IsEnd(source[k])} \subseteq 1 .. fed /\ IsFiniteSet(1 .. fed)
      BY <1>1, FS_Interval
    <2> QED BY <2>1, FS_Subset, FS_CardinalityType
  <1> HIDE DEF n
  <1> QED BY <1>1, <1>2, <1>3, <1>4, <1>5

LEMMA ToCoalesceStep ==
    ASSUME IInv, ToCoalesce
    PROVE  IInv'
  <1>1. FeedInv /\ RequestInv /\ PlacesInv /\ PkgInv /\ ElementTypes /\ ElementsInv
        /\ \A i \in PE : ItemsInv(i)
    BY DEF IInv
  <1>2. /\ SameStream /\ fed' = fed + 1 /\ fed2 = fed /\ fed < Len(input)
        /\ UNCHANGED <<source, run, fed2, cmd, taken, inner_idx, dispatch, merge, pkg>>
        /\ UNCHANGED <<sv_stream, pe, prop, cl_stream, out_stream>>
    BY DEF ToCoalesce, R!Feed, SameStream, engineVars, peVars, mergeVars
  <1>3. PICK f \in Nat, n \in Nat \ {0} : f = fed /\ n = Len(source) /\ f < n
    <2>1. Len(source) \in Nat \ {0} /\ DOMAIN source = 1 .. Len(source)
      BY <1>1, RunType, Stream DEF StreamInv
    <2>2. Len(input) = Len(source)
      <3>1. DOMAIN input = 1 .. Len(source)
        BY <1>1, <2>1, RunType DEF StreamInv
      <3> QED BY <2>1, <3>1
    <2> QED BY <1>1, <1>2, <2>1, <2>2, FedType
  <1>4. RunOf(f + 1) = run /\ run \in Nat
    BY <1>1, <1>2, <1>3, StartedRun, RunType DEF ToCoalesce
  <1>5. \A k : RunOf(k)' = RunOf(k)
    BY <1>2 DEF RunOf
  <1>6. FeedInv'
    <2>1. StreamInv'
      BY <1>1, <1>2, SameStreamFacts, RunType
    <2>2. RunOf(f + 1 + 1) = IF IsEnd(source[f + 1]) THEN run + 1 ELSE run
      <3> DEFINE g == f + 1
      <3>1. g \in Nat \ {0}
        BY <1>3
      <3> HIDE DEF g
      <3>2. RunOf(g + 1) = IF IsEnd(source[g]) THEN RunOf(g) + 1 ELSE RunOf(g)
        BY <3>1, RunStep
      <3> QED BY <1>4, <3>2 DEF g
    <2>3. RunOf(f + 1 + 1) = run => f + 1 < n
      <3>1. f + 1 = n => IsEnd(source[f + 1])
        BY <1>1, <1>3, RunType, Stream DEF StreamInv
      <3> QED BY <1>3, <1>4, <2>2, <3>1
    <2>4. fed' = f + 1 /\ fed2' = f /\ run' = run /\ source' = source
      BY <1>2, <1>3
    <2>5. fed' \in 0 .. Len(source) /\ fed2' \in {fed' - 1, fed'} \cap Nat
      BY <1>3, <2>4
    <2>6. run \in 1 .. Len(source)
      BY <1>1 DEF FeedInv
    <2>7. RunOf(fed' + 1) \in {run, run + 1} /\ RunOf(fed') <= run
          /\ (RunOf(fed' + 1) = run => fed' < Len(source))
      BY <1>3, <1>4, <2>2, <2>3, <2>4
    <2> QED BY <1>5, <2>1, <2>4, <2>5, <2>6, <2>7 DEF FeedInv
  <1>7. RequestInv'
    <2>1. R!Touched(fed) \subseteq R!Touched(fed')
      <3>1. fed \in 0 .. Len(source) /\ fed' \in 0 .. Len(source) /\ fed <= fed'
        BY <1>2, <1>3
      <3>2. StreamInv /\ \A x \in Touched : VectorOf(x) \in Nat
        BY <1>1, RunType, IsTouched, VectorMonotone
      <3>3. R!Touched(fed) = {x \in Touched : VectorOf(x) <= fed}
            /\ R!Touched(fed') = {x \in Touched : VectorOf(x) <= fed'}
        BY <3>1, <3>2, TouchedSources
      <3>4. ASSUME NEW x \in Touched, VectorOf(x) <= fed
            PROVE  VectorOf(x) <= fed'
        BY <1>2, <1>3, <3>1, <3>2, <3>4
      <3> QED BY <3>3, <3>4
    <2>2. \A x : R!Touched(x)' = R!Touched(x) /\ R!Burst(x)' = R!Burst(x) /\ Rank(x)' = Rank(x)
      BY <1>2, SameStreamFacts
    <2>3. R!Touched(fed)' = R!Touched(fed')
      BY <1>2 DEF SameStream, R!Touched, R!Width, R!Burst
    <2>4. \A r : Upto(r)' = Upto(r)
      BY <1>2, SameStreamFacts
    <2>5. \A c \in 1 .. Len(cmd) :
              \E x \in R!Touched(fed)' : Rank(x)' = c /\ cmd[c] = R!Burst(x)'
      BY <1>1, <2>1, <2>2, <2>3 DEF RequestInv
    <2> QED BY <1>1, <1>2, <2>4, <2>5 DEF RequestInv
  <1>8. PlacesInv'
    <2>1. ASSUME NEW place, PlaceInv(place)
          PROVE  RunOf(place.vector) = run
      BY <1>1, <1>3, <1>4, <2>1, PlaceCases
    <2>2. PlaceInv(dispatch)'
      BY <1>1, <1>2, <1>4, <1>5, <2>1, SMTT(30) DEF PlacesInv, PlaceInv
    <2>3. PlaceInv(merge)'
      BY <1>1, <1>2, <1>4, <1>5, <2>1 DEF PlacesInv, PlaceInv
    <2> QED BY <1>1, <1>2, <2>2, <2>3 DEF PlacesInv
  <1>9. PkgInv' /\ ElementTypes'
    BY <1>1, <1>2, PkgSame, TypesSame DEF peVars
  <1>10. \A i \in PE : ItemsInv(i)' /\ SameElement(i)
    BY <1>1, <1>2, ItemsInvSame DEF SameElement
  <1>11. ElementsInv'
    BY <1>1, <1>2, <1>10, LinesSame, ElementsSame
  <1> QED BY <1>6, <1>7, <1>8, <1>9, <1>10, <1>11 DEF IInv

LEMMA ToAccessStep ==
    ASSUME IInv, ToAccess
    PROVE  IInv'
  <1>1. FeedInv /\ RequestInv /\ PlacesInv /\ PkgInv /\ ElementTypes /\ ElementsInv
        /\ \A i \in PE : ItemsInv(i)
    BY DEF IInv
  <1>2. /\ SameStream /\ fed2 < fed /\ fed2' = fed2 + 1
        /\ UNCHANGED <<source, run, fed, cmd, taken, inner_idx, dispatch, merge, pkg>>
        /\ UNCHANGED <<sv_stream, pe, prop, cl_stream, out_stream>>
    BY DEF ToAccess, SameStream, requestVars, engineVars, peVars, mergeVars
  <1>3. fed \in Nat /\ fed2 \in Nat /\ fed <= fed2 + 1 /\ fed2' = fed
    BY <1>1, <1>2, FedType
  <1>4. \A k : RunOf(k)' = RunOf(k)
    BY <1>2 DEF RunOf
  <1>5. FeedInv'
    BY <1>1, <1>2, <1>3, <1>4, SameStreamFacts DEF FeedInv
  <1>6. PlacesInv'
    <2>1. ASSUME NEW place, PlaceInv(place)
          PROVE  RunOf(place.vector) # run + 1 /\ place.vector \in 1 .. fed2' + 1
      BY <1>1, <1>2, <1>3, <2>1, PlaceCases DEF PlaceInv
    <2>2. PlaceInv(dispatch)' /\ PlaceInv(merge)'
      BY <1>1, <1>2, <1>4, <2>1 DEF PlacesInv, PlaceInv
    <2>3. dispatch.vector < fed2 => dispatch.vector < fed2'
      BY <1>1, <1>2, <1>3, PlaceCases DEF PlacesInv
    <2> QED BY <1>1, <1>2, <2>2, <2>3 DEF PlacesInv
  <1>7. RequestInv'
    BY <1>1, <1>2, RequestSame
  <1>8. PkgInv' /\ ElementTypes'
    BY <1>1, <1>2, PkgSame, TypesSame DEF peVars
  <1>9. \A i \in PE : ItemsInv(i)' /\ SameElement(i)
    BY <1>1, <1>2, ItemsInvSame DEF SameElement
  <1>10. ElementsInv'
    BY <1>1, <1>2, <1>9, LinesSame, ElementsSame
  <1> QED BY <1>5, <1>6, <1>7, <1>8, <1>9, <1>10 DEF IInv

-----------------------------------------------------------------------------
(* Sequences of any elements. *)

LEMMA SeqIsSeq ==
    ASSUME NEW S, NEW t \in Seq(S)
    PROVE  IsSeq(t)
  <1>1. t \in [1 .. Len(t) -> Range(t)] /\ Len(t) \in Nat
    BY DEF Range
  <1> HIDE DEF Range
  <1> QED BY <1>1 DEF IsSeq

LEMMA LenSeq ==
    ASSUME NEW s, IsSeq(s)
    PROVE  Len(s) \in Nat /\ (s = <<>> <=> Len(s) = 0)
  BY DEF IsSeq

LEMMA SeqEmpty == IsSeq(<<>>)
  BY <<>> \in Seq({}) DEF IsSeq, Range

LEMMA SeqAppend ==
    ASSUME NEW s, IsSeq(s), NEW x
    PROVE  /\ IsSeq(Append(s, x)) /\ Append(s, x) # <<>>
           /\ Len(s) \in Nat /\ Len(Append(s, x)) = Len(s) + 1
           /\ \A j \in 1 .. Len(s) : Append(s, x)[j] = s[j]
           /\ Append(s, x)[Len(s) + 1] = x
  <1> DEFINE S == Range(s) \cup {x}
  <1>1. s \in Seq(S) /\ x \in S
    BY DEF IsSeq
  <1> HIDE DEF S
  <1>2. /\ Append(s, x) \in Seq(S) /\ Append(s, x) # <<>>
        /\ Len(s) \in Nat /\ Len(Append(s, x)) = Len(s) + 1
    BY <1>1
  <1>3. /\ \A j \in 1 .. Len(s) : Append(s, x)[j] = s[j]
        /\ Append(s, x)[Len(s) + 1] = x
    BY <1>1
  <1>4. IsSeq(Append(s, x))
    BY <1>2, SeqIsSeq
  <1> QED BY <1>2, <1>3, <1>4

LEMMA SeqTail ==
    ASSUME NEW s, IsSeq(s), s # <<>>
    PROVE  /\ IsSeq(Tail(s)) /\ Len(s) \in Nat \ {0}
           /\ Len(Tail(s)) = Len(s) - 1
           /\ \A j \in 1 .. Len(Tail(s)) : Tail(s)[j] = s[j + 1]
           /\ Head(s) = s[1]
  <1> DEFINE S == Range(s)
  <1>1. s \in Seq(S)
    BY DEF IsSeq
  <1> HIDE DEF S
  <1>2. /\ Tail(s) \in Seq(S) /\ Len(s) \in Nat \ {0}
        /\ Len(Tail(s)) = Len(s) - 1
        /\ \A j \in 1 .. Len(Tail(s)) : Tail(s)[j] = s[j + 1]
        /\ Head(s) = s[1]
    BY <1>1
  <1>3. IsSeq(Tail(s))
    BY <1>2, SeqIsSeq
  <1> QED BY <1>2, <1>3

-----------------------------------------------------------------------------
(* coalesce and the read engine. *)

LEMMA SeqNatAppend ==
    ASSUME NEW S, NEW s \in Seq(S), NEW x \in S
    PROVE  /\ Append(s, x) \in Seq(S) /\ Len(s) \in Nat /\ Len(Append(s, x)) = Len(s) + 1
           /\ \A j \in 1 .. Len(s) : Append(s, x)[j] = s[j]
           /\ Append(s, x)[Len(s) + 1] = x
  OBVIOUS

LEMMA SameCardinality ==
    ASSUME NEW S
    PROVE  R!Cardinality(S) = Cardinality(S)
  BY DEF R!Cardinality, Cardinality

LEMMA RequestStep ==
    ASSUME FeedInv, RequestInv, R!Request, UNCHANGED <<source, run, taken, inner_idx>>
    PROVE  /\ RequestInv' /\ SameStream /\ Len(cmd') = Len(cmd) + 1 /\ Len(cmd) \in Nat
           /\ fed' = fed
           /\ \A c \in 1 .. Len(cmd) : cmd'[c] = cmd[c]
  <1>1. SameStream /\ fed' = fed /\ source' = source
    BY DEF R!Request, SameStream
  <1>2. PICK x \in R!Touched(fed) :
            /\ Cardinality({y \in R!Touched(fed) : y <= x}) = Len(cmd) + 1
            /\ cmd' = Append(cmd, R!Burst(x))
    BY SameCardinality DEF R!Request
  <1>3. fed \in 0 .. Len(source) /\ fed \in Nat /\ run \in Nat \ {0} /\ StreamInv
    BY FedType, RunType
  <1>4. R!Touched(fed) = {y \in Touched : VectorOf(y) <= fed}
    BY <1>3, TouchedSources
  <1>5. x \in Touched /\ VectorOf(x) <= fed /\ x \in Nat /\ x \in Sources
    BY <1>2, <1>3, <1>4, IsTouched
  <1>6. {y \in R!Touched(fed) : y <= x} = {y \in Touched : y <= x}
    <2>1. ASSUME NEW y \in Touched, y <= x
          PROVE  VectorOf(y) <= fed
      <3>1. y \in Nat
        BY <1>3, <2>1, IsTouched
      <3> QED BY <1>3, <1>5, <2>1, <3>1, VectorMonotone
    <2> QED BY <1>4, <2>1
  <1>7. Rank(x) = Len(cmd) + 1
    BY <1>2, <1>6 DEF Rank
  <1>8. Rank(x) <= Upto(run)
    <2>1. fed > 0 /\ VectorOf(x) \in Nat \ {0}
      BY <1>3, <1>5, VectorMonotone
    <2>2. RunOf(VectorOf(x)) <= RunOf(fed) /\ RunOf(VectorOf(x)) \in Nat /\ RunOf(fed) \in Nat
      BY <1>3, <1>5, <2>1, RunMonotone
    <2>3. RunOf(VectorOf(x)) <= run
      BY <1>3, <2>1, <2>2 DEF FeedInv
    <2> QED BY <1>3, <1>5, <2>3, RankUpto
  <1>9. R!Burst(x) \in 0 .. End \div BURST
    BY <1>3, <1>5, BurstOf, EndBurst
  <1>10. /\ cmd' \in Seq(0 .. End \div BURST) /\ Len(cmd) \in Nat /\ Len(cmd') = Len(cmd) + 1
         /\ \A j \in 1 .. Len(cmd) : cmd'[j] = cmd[j]
         /\ cmd'[Len(cmd) + 1] = R!Burst(x)
    <2>1. cmd \in Seq(0 .. End \div BURST)
      BY DEF RequestInv
    <2> QED BY <1>2, <1>9, <2>1, SeqNatAppend
  <1>11. RequestInv'
    <2>1. /\ \A y : R!Burst(y)' = R!Burst(y) /\ Rank(y)' = Rank(y)
          /\ \A r : Upto(r)' = Upto(r)
      BY <1>1, SameStreamFacts
    <2>2. R!Touched(fed)' = R!Touched(fed)
      BY <1>1 DEF SameStream, R!Touched, R!Width, R!Burst
    <2>3. ASSUME NEW c \in 1 .. Len(cmd')
          PROVE  \E y \in R!Touched(fed) : Rank(y) = c /\ cmd'[c] = R!Burst(y)
      <3>1. c \in 1 .. Len(cmd) \/ c = Len(cmd) + 1
        BY <1>10
      <3>2. CASE c \in 1 .. Len(cmd)
        BY <1>10, <3>2 DEF RequestInv
      <3>3. CASE c = Len(cmd) + 1
        BY <1>2, <1>7, <1>10, <3>3
      <3> QED BY <3>1, <3>2, <3>3
    <2>4. \A c \in 1 .. Len(cmd)' :
              \E y \in R!Touched(fed)' : Rank(y)' = c /\ (cmd[c] = R!Burst(y))'
      BY <2>1, <2>2, <2>3
    <2>5. Upto(run - 1) \in Nat /\ Upto(run) \in Nat
      BY RunType
    <2>6. /\ taken \in Upto(run - 1) .. Len(cmd') /\ Len(cmd') <= Upto(run)
          /\ inner_idx > 0 => taken < Len(cmd')
      BY <1>7, <1>8, <1>10, <2>5 DEF RequestInv
    <2>7. /\ inner_idx \in 0 .. BURST - 1
          /\ taken = Upto(run) => inner_idx = 0
          /\ taken = Upto(run) - 1 => inner_idx < 2
      BY DEF RequestInv
    <2>8. Upto(run - 1)' = Upto(run - 1) /\ Upto(run)' = Upto(run)
      BY <2>1
    <2> QED BY <1>10, <2>4, <2>6, <2>7, <2>8 DEF RequestInv
  <1> QED BY <1>1, <1>10, <1>11

LEMMA CoalesceStep ==
    ASSUME IInv, Coalesce
    PROVE  IInv'
  <1>1. FeedInv /\ RequestInv /\ PlacesInv /\ PkgInv /\ ElementTypes /\ ElementsInv
        /\ \A i \in PE : ItemsInv(i)
    BY DEF IInv
  <1>2. /\ R!Request
        /\ UNCHANGED <<source, run, fed2, taken, inner_idx, dispatch, merge, pkg>>
        /\ UNCHANGED <<sv_stream, pe, prop, cl_stream, out_stream>>
    BY DEF Coalesce, engineVars, peVars, mergeVars
  <1>3. /\ RequestInv' /\ SameStream /\ Len(cmd') = Len(cmd) + 1 /\ Len(cmd) \in Nat
        /\ fed' = fed
        /\ \A c \in 1 .. Len(cmd) : cmd'[c] = cmd[c]
    BY <1>1, <1>2, RequestStep
  <1>4. FeedInv' /\ PlacesInv'
    BY <1>1, <1>2, <1>3, FeedSame, PlacesSame
  <1>5. PkgInv' /\ ElementTypes'
    BY <1>1, <1>2, <1>3, PkgSame, TypesSame DEF peVars
  <1>6. \A i \in PE : ItemsInv(i)' /\ SameElement(i)
    BY <1>1, <1>2, <1>3, ItemsInvSame DEF SameElement
  <1>7. ASSUME NEW q \in First .. Sent - 1
        PROVE  LineAt(q)' = LineAt(q)
    <2>1. q \in Nat /\ First <= q /\ q < Sent
      BY <1>1, LineNumbers
    <2>2. PICK c \in 1 .. Len(cmd), j \in 0 .. BURST - 1 :
              /\ c = q \div BURST /\ j = q % BURST
              /\ c > Upto(run - 1) /\ LineAt(q) = CacheLine(c, j)
      BY <1>1, <2>1, LineOfRequest
    <2>3. IsEndCmd(c) => c - 1 \in 1 .. Len(cmd)
      BY <1>1, <2>2, Commands
    <2>4. cmd'[c] = cmd[c] /\ (IsEndCmd(c) => cmd'[c - 1] = cmd[c - 1])
      BY <1>3, <2>3
    <2>5. CacheLine(c, j)' = CacheLine(c, j)
      BY <1>2, <2>4 DEF CacheLine, IsEndCmd
    <2>6. LineAt(q)' = CacheLine(c, j)'
      BY <2>2 DEF LineAt
    <2> QED BY <2>2, <2>5, <2>6
  <1>8. ElementsInv'
    BY <1>1, <1>2, <1>3, <1>6, <1>7, ElementsSame
  <1> QED BY <1>3, <1>4, <1>5, <1>6, <1>8 DEF IInv

(* The read engine sends line number Sent.                                  *)
LEMMA EngineStep ==
    ASSUME FeedInv, RequestInv, NEW lines,
           lines = IF IsEndCmd(taken + 1) THEN 2 ELSE BURST,
           taken + 1 <= Len(cmd),
           IF inner_idx + 1 < lines
           THEN inner_idx' = inner_idx + 1 /\ UNCHANGED taken
           ELSE inner_idx' = 0 /\ taken' = taken + 1,
           UNCHANGED <<source, input, run, fed, cmd>>
    PROVE  /\ RequestInv' /\ Sent' = Sent + 1
           /\ LineAt(Sent) = CacheLine(taken + 1, inner_idx)
  <1>1. SameStream
    BY DEF SameStream
  <1>2. PICK u \in Nat, b \in Nat : u = Upto(run) /\ b = Upto(run - 1)
    BY RunType
  <1>3. PICK t \in Nat, x \in Nat, n \in Nat :
            /\ t = taken /\ x = inner_idx /\ n = Len(cmd)
            /\ b <= t /\ n <= u /\ x <= BURST - 1
            /\ t = u => x = 0
            /\ t = u - 1 => x < 2
    <2>1. Len(cmd) \in Nat
      BY DEF RequestInv
    <2>2. /\ taken \in b .. Len(cmd) /\ Len(cmd) <= u /\ inner_idx \in 0 .. BURST - 1
          /\ taken = u => inner_idx = 0
          /\ taken = u - 1 => inner_idx < 2
      BY <1>2 DEF RequestInv
    <2>3. taken \in Nat /\ b <= taken
      BY <1>2, <2>1, <2>2
    <2>4. inner_idx \in Nat /\ inner_idx <= BURST - 1
      BY <2>2, Constants
    <2> QED BY <2>1, <2>2, <2>3, <2>4
  <1>4. t + 1 <= n /\ t # u /\ BURST \in Nat \ {0, 1}
    BY <1>3, Constants
  <1>5. IsEndCmd(t + 1) <=> t + 1 = u
    <2>1. t + 1 \in 1 .. Len(cmd) /\ t + 1 > Upto(run - 1)
      BY <1>2, <1>3, <1>4
    <2>2. IsEndCmd(t + 1) <=> t + 1 = Upto(run)
      BY <2>1, Commands
    <2> QED BY <1>2, <2>2
  <1>6. Sent = (t + 1) * BURST + x
    BY <1>2, <1>3, <1>4 DEF Sent
  <1>7. LineAt(Sent) = CacheLine(t + 1, x)
    <2>1. x \in 0 .. BURST - 1 /\ t + 1 \in Nat
      BY <1>3, <1>4
    <2>2. Sent \div BURST = t + 1 /\ Sent % BURST = x
      BY <1>4, <1>6, <2>1, Quotient
    <2> QED BY <2>2 DEF LineAt
  <1>8. \/ /\ inner_idx' = x + 1 /\ taken' = t
           /\ x + 1 < BURST /\ (t + 1 = u => x + 1 < 2)
        \/ /\ inner_idx' = 0 /\ taken' = t + 1
           /\ IF t + 1 = u THEN x = 1 ELSE x + 1 = BURST
    <2>1. lines = IF t + 1 = u THEN 2 ELSE BURST
      BY <1>3, <1>5
    <2>2. t = u - 1 <=> t + 1 = u
      BY <1>2, <1>3
    <2>3. CASE x + 1 < lines
      BY <1>3, <1>4, <2>1, <2>2, <2>3
    <2>4. CASE ~(x + 1 < lines)
      BY <1>3, <1>4, <2>1, <2>2, <2>4
    <2> QED BY <2>3, <2>4
  <1>9. Upto(run)' = u /\ Upto(run - 1)' = b /\ Stop' = u * BURST + 2
    BY <1>1, <1>2, SameStreamFacts DEF Stop
  <1>10. Sent' = Sent + 1
    <2>1. Sent' = IF taken' = u THEN u * BURST + 2 ELSE (taken' + 1) * BURST + inner_idx'
      BY <1>9 DEF Sent
    <2>2. CASE inner_idx' = x + 1 /\ taken' = t
      <3>1. Sent' = (t + 1) * BURST + (x + 1)
        BY <1>4, <1>3, <2>1, <2>2
      <3> DEFINE y == (t + 1) * BURST
      <3>2. y \in Nat
        BY <1>4, <1>3
      <3>3. Sent' = y + (x + 1) /\ Sent = y + x
        BY <1>6, <3>1
      <3> HIDE DEF y
      <3> QED BY <1>3, <3>2, <3>3
    <2>3. CASE taken' = t + 1 /\ t + 1 = u /\ x = 1
      <3>1. Sent' = (t + 1) * BURST + 2
        BY <2>1, <2>3
      <3> DEFINE y == (t + 1) * BURST
      <3>2. y \in Nat
        BY <1>4, <1>3
      <3>3. Sent' = y + 2 /\ Sent = y + 1
        BY <1>6, <2>3, <3>1
      <3> HIDE DEF y
      <3> QED BY <3>2, <3>3
    <2>4. CASE taken' = t + 1 /\ t + 1 # u /\ x + 1 = BURST /\ inner_idx' = 0
      <3> DEFINE w == t + 1
      <3>1. w \in Nat
        BY <1>3
      <3>2. Sent' = (w + 1) * BURST + 0
        BY <2>1, <2>4
      <3> HIDE DEF w
      <3>3. (w + 1) * BURST = w * BURST + BURST /\ w * BURST \in Nat
        BY <1>4, <3>1
      <3>4. Sent = w * BURST + x
        BY <1>6 DEF w
      <3> QED BY <1>3, <1>4, <2>4, <3>2, <3>3, <3>4
    <2> QED BY <1>8, <2>2, <2>3, <2>4
  <1>11. RequestInv'
    <2>1. /\ \A c : R!Burst(c)' = R!Burst(c) /\ Rank(c)' = Rank(c)
      BY <1>1, SameStreamFacts
    <2>2. R!Touched(fed)' = R!Touched(fed)
      BY <1>1 DEF SameStream, R!Touched, R!Width, R!Burst
    <2>3. /\ cmd' \in Seq(0 .. End \div BURST)
          /\ \A c \in 1 .. Len(cmd') :
                \E y \in R!Touched(fed)' : Rank(y)' = c /\ cmd'[c] = R!Burst(y)'
      BY <2>1, <2>2 DEF RequestInv
    <2>4. /\ taken' \in b .. Len(cmd') /\ Len(cmd') <= u
          /\ inner_idx' \in 0 .. BURST - 1 /\ (inner_idx' > 0 => taken' < Len(cmd'))
          /\ taken' = u => inner_idx' = 0
          /\ taken' = u - 1 => inner_idx' < 2
      BY <1>3, <1>4, <1>8
    <2> QED BY <1>9, <2>3, <2>4 DEF RequestInv
  <1> QED BY <1>3, <1>7, <1>10, <1>11

LEMMA ChainType ==
    ASSUME FeedInv, RequestInv, NEW next \in [PE -> First .. Sent], NEW i \in PE
    PROVE  /\ next[i] \in First .. Sent /\ Above(i, next) \in First .. Sent
           /\ next[i] \in Nat /\ Above(i, next) \in Nat
           /\ i # 0 => i - 1 \in PE /\ Above(i, next) = next[i - 1]
           /\ i = 0 => Above(i, next) = Sent
           /\ 0 \in PE
  <1>1. i # 0 => i - 1 \in PE
    BY Constants DEF PE
  <1>2. 0 \in PE
    BY Constants DEF PE
  <1> QED BY <1>1, <1>2, LineNumbers DEF Above

LEMMA ReadEngineStep ==
    ASSUME IInv, ReadEngine
    PROVE  IInv'
  <1>1. FeedInv /\ RequestInv /\ PlacesInv /\ PkgInv /\ ElementTypes /\ ElementsInv
        /\ \A i \in PE : ItemsInv(i)
    BY DEF IInv
  <1>2. /\ SameStream /\ run' = run
        /\ UNCHANGED <<source, input, run, fed, fed2, cmd, dispatch, merge, pkg>>
        /\ UNCHANGED <<sv_stream, pe, prop, out_stream>>
        /\ Room(cl_stream[0])
        /\ cl_stream' = [cl_stream EXCEPT ![0] = Append(@, CacheLine(taken + 1, inner_idx))]
    BY DEF ReadEngine, SameStream, feedVars, requestVars, mergeVars
  <1>3. RequestInv' /\ Sent' = Sent + 1 /\ LineAt(Sent) = CacheLine(taken + 1, inner_idx)
    <2> DEFINE lines == IF IsEndCmd(taken + 1) THEN 2 ELSE BURST
    <2>1. /\ taken + 1 <= Len(cmd)
          /\ IF inner_idx + 1 < lines
             THEN inner_idx' = inner_idx + 1 /\ UNCHANGED taken
             ELSE inner_idx' = 0 /\ taken' = taken + 1
      BY DEF ReadEngine
    <2> HIDE DEF lines
    <2>2. lines = IF IsEndCmd(taken + 1) THEN 2 ELSE BURST
      BY DEF lines
    <2> QED BY <1>1, <1>2, <2>1, <2>2, EngineStep
  <1>4. FeedInv' /\ PlacesInv' /\ PkgInv'
    BY <1>1, <1>2, FeedSame, PlacesSame, PkgSame
  <1>5. \A i \in PE : ItemsInv(i)' /\ SameElement(i)
    BY <1>1, <1>2, ItemsInvSame DEF SameElement
  <1>6. First' = First /\ First \in Nat /\ Sent \in Nat /\ Stop' = Stop /\ First <= Sent
    BY <1>1, <1>2, SameStreamFacts, LineNumbers DEF First, Stop
  <1>7. \A q : LineAt(q)' = LineAt(q)
    BY <1>2, LinesSame
  <1>8. PICK next \in [PE -> First .. Sent] :
            /\ Chain(next) /\ \A i \in PE : Active(i, next[i]) \/ Idle(i, next[i])
    BY <1>1 DEF ElementsInv
  <1>9. ASSUME NEW i \in PE
        PROVE  /\ next[i] <= Above(i, next)'
               /\ IsSeq(cl_stream'[i])
               /\ Len(cl_stream'[i]) = Above(i, next)' - next[i]
               /\ \A j \in 1 .. Len(cl_stream'[i]) : cl_stream'[i][j] = LineAt(next[i] + (j - 1))
               /\ Len(cl_stream'[i]) <= StreamDepth
    <2>1. /\ next[i] <= Above(i, next) /\ IsSeq(cl_stream[i])
          /\ Len(cl_stream[i]) = Above(i, next) - next[i]
          /\ \A j \in 1 .. Len(cl_stream[i]) : cl_stream[i][j] = LineAt(next[i] + (j - 1))
      BY <1>8 DEF Chain
    <2>2. /\ next[i] \in Nat /\ Above(i, next) \in Nat
      BY <1>1, <1>8, ChainType
    <2>3. Len(cl_stream[i]) <= StreamDepth /\ StreamDepth \in Nat
      BY <1>1, Constants DEF ElementTypes
    <2>4. CASE i = 0
      <3>1. cl_stream'[i] = Append(cl_stream[i], LineAt(Sent))
        <4>1. cl_stream = [k \in PE |-> cl_stream[k]]
          BY <1>1 DEF ElementTypes
        <4> QED BY <1>2, <1>3, <2>4, <4>1
      <3>2. Above(i, next) = Sent /\ Above(i, next)' = Sent + 1
        BY <1>3, <2>4 DEF Above
      <3>3. Len(cl_stream[i]) < StreamDepth
        BY <1>2, <2>4 DEF Room
      <3>4. /\ IsSeq(cl_stream'[i])
            /\ Len(cl_stream[i]) \in Nat /\ Len(cl_stream'[i]) = Len(cl_stream[i]) + 1
            /\ \A j \in 1 .. Len(cl_stream[i]) : cl_stream'[i][j] = cl_stream[i][j]
            /\ cl_stream'[i][Len(cl_stream[i]) + 1] = LineAt(Sent)
        BY <2>1, <3>1, SeqAppend
      <3>5. ASSUME NEW j \in 1 .. Len(cl_stream'[i])
            PROVE  cl_stream'[i][j] = LineAt(next[i] + (j - 1))
        <4>1. CASE j \in 1 .. Len(cl_stream[i])
          BY <2>1, <3>4, <4>1
        <4>2. CASE j = Len(cl_stream[i]) + 1
          <5>1. next[i] + (j - 1) = Sent
            BY <2>1, <2>2, <3>2, <4>2, <1>6
          <5> QED BY <3>4, <4>2, <5>1
        <4> QED BY <3>4, <4>1, <4>2
      <3> QED BY <1>6, <2>1, <2>2, <2>3, <3>2, <3>3, <3>4, <3>5
    <2>5. CASE i # 0
      <3>1. cl_stream'[i] = cl_stream[i]
        <4>1. cl_stream = [k \in PE |-> cl_stream[k]]
          BY <1>1 DEF ElementTypes
        <4> QED BY <1>2, <2>5, <4>1
      <3>2. Above(i, next)' = Above(i, next)
        BY <2>5 DEF Above
      <3> QED BY <2>1, <2>3, <3>1, <3>2
    <2> QED BY <2>4, <2>5
  <1>10. Chain(next)'
    BY <1>7, <1>9 DEF Chain
  <1>11. next \in [PE -> First .. Sent']
    BY <1>3, <1>6, <1>8
  <1>12. ASSUME NEW i \in PE
         PROVE  (Active(i, next[i]) \/ Idle(i, next[i]))'
    <2>1. PICK n \in First .. Sent : n = next[i]
      BY <1>8
    <2>2. (Active(i, n) \/ Idle(i, n))'
      BY <1>1, <1>2, <1>5, <1>7, <1>8, <2>1, ElementSame
    <2> QED BY <2>1, <2>2
  <1>13. ElementsInv'
    BY <1>6, <1>10, <1>11, <1>12 DEF ElementsInv
  <1>14. ElementTypes'
    <2>1. cl_stream' = [i \in PE |-> cl_stream'[i]]
      <3>1. cl_stream = [k \in PE |-> cl_stream[k]]
        BY <1>1 DEF ElementTypes
      <3> QED BY <1>2, <3>1
    <2> QED BY <1>1, <1>2, <1>9, <2>1 DEF ElementTypes, Registers, Data
  <1> QED BY <1>3, <1>4, <1>5, <1>13, <1>14 DEF IInv

-----------------------------------------------------------------------------
(* src_dispatch. *)

LEMMA HalvesNext ==
    ASSUME NEW i \in PE, NEW n \in 0 .. 2 * PE_NUM - 1
    PROVE  /\ Halves(i, n + 1) = Halves(i, n) + (IF n % PE_NUM = i THEN 1 ELSE 0)
           /\ n % PE_NUM = i => Halves(i, n) = n \div PE_NUM
           /\ Halves(i, 0) = 0 /\ Halves(i, 2 * PE_NUM) = 2
  <1>1. PICK h \in {0, 1}, m \in PE : h = n \div PE_NUM /\ m = n % PE_NUM /\ n = h * PE_NUM + m
    BY LaneType
  <1>2. PE_NUM \in Nat \ {0} /\ i \in Nat /\ i < PE_NUM /\ m \in Nat /\ m < PE_NUM
    BY Constants DEF PE
  <1>3. CASE h = 0
    BY <1>1, <1>2, <1>3 DEF Halves
  <1>4. CASE h = 1
    BY <1>1, <1>2, <1>4 DEF Halves
  <1> QED BY <1>1, <1>3, <1>4

(* The place behind a vector of the run, whether the next ends it or not.   *)
LEMMA FollowingPlace ==
    ASSUME FeedInv, NEW v \in Nat \ {0}, v < fed2, RunOf(v) = run, ~IsEnd(source[v]),
           NEW place, place = [vector |-> Following(v), item |-> 0]
    PROVE  /\ PlaceInv(place)
           /\ \A i \in PE : Items(place, i) = 2 * v + 2
  <1>1. PICK f \in Nat, f2 \in Nat, n \in Nat, r \in Nat :
            /\ f = fed /\ f2 = fed2 /\ n = Len(source) /\ r = run
            /\ v < f2 /\ f2 <= f /\ f <= f2 + 1 /\ f <= n
    BY FedType, RunType
  <1>2. \A i \in PE : Halves(i, 0) = 0
    BY Constants DEF Halves, PE
  <1>3. v + 1 \in 1 .. Len(source)
    BY <1>1
  <1>4. RunOf(v + 1) = r
    BY <1>1, RunStep
  <1>5. CASE IsEnd(source[v + 1])
    <2>1. place = [vector |-> v + 2, item |-> 0] /\ place.vector = v + 2 /\ place.item = 0
      BY <1>1, <1>3, <1>5 DEF Following
    <2>2. RunOf(v + 2) = r + 1
      <3> DEFINE w == v + 1
      <3>1. w \in Nat \ {0}
        BY <1>1
      <3> HIDE DEF w
      <3>2. RunOf(w + 1) = IF IsEnd(source[w]) THEN RunOf(w) + 1 ELSE RunOf(w)
        BY <3>1, RunStep
      <3>3. w + 1 = v + 2
        BY DEF w
      <3> QED BY <1>4, <1>5, <3>2, <3>3 DEF w
    <2>3. v + 2 = f + 1 /\ f2 = f
      <3>1. v + 2 <= f => RunOf(v + 2) <= RunOf(f)
        BY <1>1, RunMonotone
      <3>2. RunOf(f) <= r
        BY <1>1 DEF FeedInv
      <3>3. RunOf(f) \in Nat
        BY <1>1, RunStep
      <3> QED BY <1>1, <2>2, <3>1, <3>2, <3>3
    <2>4. v + 2 <= n => ~IsEnd(source[v + 2])
      <3>1. ASSUME v + 2 <= n, IsEnd(source[v + 2])
            PROVE  FALSE
        <4> DEFINE w == v + 2
        <4>1. w \in 1 .. Len(source) /\ 1 \in Lane /\ w - 1 = v + 1
          BY <1>1, <3>1, Constants DEF Lane
        <4> HIDE DEF w
        <4>2. IsEnd(source[w]) => ~IsEnd(source[w - 1])
          BY <4>1, FedType, Order
        <4> QED BY <1>5, <3>1, <4>1, <4>2 DEF w
      <3> QED BY <3>1
    <2>5. PlaceInv(place)
      BY <1>1, <2>1, <2>2, <2>3, <2>4 DEF PlaceInv
    <2>6. \A i \in PE : Items(place, i) = 2 * (v + 2 - 1)
      BY <1>1, <2>1, <2>2 DEF Items
    <2> QED BY <2>5, <2>6
  <1>6. CASE ~IsEnd(source[v + 1])
    <2>1. place = [vector |-> v + 1, item |-> 0] /\ place.vector = v + 1 /\ place.item = 0
      BY <1>6 DEF Following
    <2>2. PlaceInv(place)
      BY <1>1, <1>4, <1>6, <2>1 DEF PlaceInv
    <2>3. \A i \in PE : Items(place, i) = 2 * (v + 1) + 0
      BY <1>1, <1>2, <1>4, <2>1 DEF Items
    <2> QED BY <2>2, <2>3
  <1> QED BY <1>5, <1>6

LEMMA SourceOfItem ==
    ASSUME NEW n \in 0 .. 2 * PE_NUM - 1, NEW v \in Nat, NEW t, t = 2 * v + (n \div PE_NUM)
    PROVE  /\ t \in Nat /\ t \div 2 = v
           /\ SourceAt(n % PE_NUM, t) = source[v][LaneOf(n)]
           /\ LastAt(t) <=> (n >= PE_NUM /\ IsEnd(source[v + 1]))
           /\ t > 0 => (LastAt(t - 1) => n < PE_NUM /\ IsEnd(source[v]))
  <1>1. PICK h \in {0, 1}, m \in PE :
            /\ h = n \div PE_NUM /\ m = n % PE_NUM /\ n = h * PE_NUM + m
            /\ (n >= PE_NUM) <=> (h = 1)
    BY LaneType
  <1>2. t = 2 * v + h /\ t \in Nat
    BY <1>1
  <1>3. t \div 2 = v /\ t % 2 = h
    BY <1>1, <1>2
  <1>4. SourceAt(m, t) = source[v][LaneOf(n)]
    BY <1>1, <1>3 DEF SourceAt
  <1>5. LastAt(t) <=> (n >= PE_NUM /\ IsEnd(source[v + 1]))
    BY <1>1, <1>3 DEF LastAt
  <1>6. ASSUME t > 0, LastAt(t - 1)
        PROVE  n < PE_NUM /\ IsEnd(source[v])
    <2>1. h = 0 /\ (t - 1) % 2 = 1 /\ (t - 1) \div 2 = v - 1
      BY <1>1, <1>2, <1>6 DEF LastAt
    <2>2. IsEnd(source[(v - 1) + 1]) /\ (v - 1) + 1 = v
      BY <1>6, <2>1 DEF LastAt
    <2>3. n \in Nat /\ PE_NUM \in Nat
      BY Constants
    <2> QED BY <1>1, <2>1, <2>2, <2>3
  <1> QED BY <1>1, <1>2, <1>3, <1>4, <1>5, <1>6

LEMMA DispatchPlace ==
    ASSUME FeedInv, PlacesInv, SrcDispatch
    PROVE  /\ RunOf(dispatch.vector) = run /\ ~IsEnd(source[dispatch.vector])
           /\ dispatch.vector \in Nat \ {0} /\ dispatch.item \in 0 .. 2 * PE_NUM - 1
           /\ PlaceInv(dispatch') /\ dispatch'.item \in 0 .. 2 * PE_NUM - 1
           /\ dispatch'.item > 0 => dispatch'.vector < fed2
           /\ \A i \in PE : /\ Items(dispatch, i) \in Nat
                            /\ Items(dispatch', i) = Items(dispatch, i)
                                  + (IF dispatch.item % PE_NUM = i THEN 1 ELSE 0)
                            /\ dispatch.item % PE_NUM = i =>
                                  Items(dispatch, i) = 2 * dispatch.vector
                                                          + (dispatch.item \div PE_NUM)
  <1>1. PlaceInv(dispatch) /\ dispatch.item \in 0 .. 2 * PE_NUM - 1
    BY DEF PlacesInv
  <1>2. PICK v \in Nat \ {0}, n \in 0 .. 2 * PE_NUM - 1, f2 \in Nat :
            /\ v = dispatch.vector /\ n = dispatch.item /\ f2 = fed2 /\ v < f2
            /\ f2 <= Len(source) /\ Len(source) \in Nat
    BY <1>1, FedType, PlaceCases DEF SrcDispatch
  <1>3. RunOf(v) = run /\ ~IsEnd(source[v])
    <2>1. RunOf(v) = run
      BY <1>1, <1>2, FedType, PlaceCases
    <2>2. v <= Len(source)
      BY <1>2
    <2> QED BY <1>1, <1>2, <2>1, <2>2 DEF PlaceInv
  <1>4. \A i \in PE : Items(dispatch, i) = 2 * v + Halves(i, n)
    BY <1>2, <1>3 DEF Items
  <1>5. \A i \in PE : /\ Halves(i, n + 1) = Halves(i, n) + (IF n % PE_NUM = i THEN 1 ELSE 0)
                      /\ n % PE_NUM = i => Halves(i, n) = n \div PE_NUM
                      /\ Halves(i, 2 * PE_NUM) = 2 /\ Halves(i, n) \in {0, 1, 2}
    BY HalvesNext DEF Halves
  <1>6. 2 * PE_NUM \in Nat /\ n \in Nat /\ PE_NUM \in Nat
    BY Constants
  <1>7. dispatch' = IF n + 1 < 2 * PE_NUM
                    THEN [vector |-> v, item |-> n + 1]
                    ELSE [vector |-> Following(v), item |-> 0]
    BY <1>2 DEF SrcDispatch
  <1>8. /\ PlaceInv(dispatch') /\ dispatch'.item \in 0 .. 2 * PE_NUM - 1
        /\ dispatch'.item > 0 => dispatch'.vector < fed2
        /\ \A i \in PE : Items(dispatch', i) = 2 * v + Halves(i, n + 1)
    <2>1. CASE n + 1 < 2 * PE_NUM
      <3>1. dispatch' = [vector |-> v, item |-> n + 1]
            /\ dispatch'.vector = v /\ dispatch'.item = n + 1
        BY <1>7, <2>1
      <3>2. PlaceInv(dispatch')
        BY <1>2, <1>3, <3>1, RunType DEF PlaceInv
      <3>3. \A i \in PE : Items(dispatch', i) = 2 * v + Halves(i, n + 1)
        BY <1>3, <3>1 DEF Items
      <3> QED BY <1>2, <1>6, <2>1, <3>1, <3>2, <3>3
    <2>2. CASE ~(n + 1 < 2 * PE_NUM)
      <3>1. dispatch' = [vector |-> Following(v), item |-> 0] /\ dispatch'.item = 0
        BY <1>7, <2>2
      <3>2. PlaceInv(dispatch') /\ \A i \in PE : Items(dispatch', i) = 2 * v + 2
        BY <1>2, <1>3, <3>1, FollowingPlace
      <3>3. n + 1 = 2 * PE_NUM
        BY <1>6, <2>2
      <3> QED BY <1>5, <1>6, <3>1, <3>2, <3>3, Constants
    <2> QED BY <2>1, <2>2
  <1>9. ASSUME NEW i \in PE
        PROVE  /\ Items(dispatch, i) \in Nat
               /\ Items(dispatch', i) = Items(dispatch, i) + (IF n % PE_NUM = i THEN 1 ELSE 0)
               /\ n % PE_NUM = i => Items(dispatch, i) = 2 * v + (n \div PE_NUM)
    <2>1. PICK h \in {0, 1, 2} : h = Halves(i, n)
      BY <1>5
    <2>2. Items(dispatch, i) = 2 * v + h
      BY <1>4, <2>1
    <2>3. Items(dispatch', i) = 2 * v + (h + (IF n % PE_NUM = i THEN 1 ELSE 0))
      BY <1>5, <1>8, <2>1
    <2>4. n % PE_NUM = i => h = n \div PE_NUM
      BY <1>5, <2>1
    <2> QED BY <2>2, <2>3, <2>4
  <1> QED BY <1>2, <1>3, <1>8, <1>9

LEMMA SrcDispatchStep ==
    ASSUME IInv, SrcDispatch
    PROVE  IInv'
  <1>1. FeedInv /\ RequestInv /\ PlacesInv /\ PkgInv /\ ElementTypes /\ ElementsInv
        /\ \A i \in PE : ItemsInv(i)
    BY DEF IInv
  <1>2. /\ SameStream /\ run' = run /\ run \in Nat
        /\ UNCHANGED <<source, run, fed, fed2, cmd, taken, inner_idx, merge, pkg>>
        /\ UNCHANGED <<pe, prop, cl_stream, out_stream>>
    BY <1>1, RunType DEF SrcDispatch, SameStream, feedVars, requestVars, engineVars, mergeVars
  <1>3. PICK v \in Nat \ {0}, n \in 0 .. 2 * PE_NUM - 1, e \in PE :
            /\ v = dispatch.vector /\ n = dispatch.item /\ e = n % PE_NUM
            /\ RunOf(v) = run /\ ~IsEnd(source[v])
    BY <1>1, DispatchPlace, LaneType
  <1>4. /\ PlaceInv(dispatch') /\ dispatch'.item \in 0 .. 2 * PE_NUM - 1
        /\ dispatch'.item > 0 => dispatch'.vector < fed2
        /\ \A i \in PE : /\ Items(dispatch, i) \in Nat
                         /\ Items(dispatch', i) = Items(dispatch, i) + (IF e = i THEN 1 ELSE 0)
        /\ Items(dispatch, e) = 2 * v + (n \div PE_NUM)
    BY <1>1, <1>3, DispatchPlace
  <1>5. /\ Room(sv_stream[e])
        /\ sv_stream' = [sv_stream EXCEPT ![e] =
               Append(@, [src |-> source[v][LaneOf(n)],
                          last |-> n >= PE_NUM /\ IsEnd(source[v + 1])])]
    BY <1>3 DEF SrcDispatch
  <1>6. sv_stream = [i \in PE |-> sv_stream[i]] /\ StreamDepth \in Nat
    BY <1>1, Constants DEF ElementTypes
  <1>7. \A k : RunOf(k)' = RunOf(k)
    BY <1>2 DEF RunOf
  <1>8. /\ \A t : InRun(t)' = InRun(t) /\ LastAt(t)' = LastAt(t)
        /\ \A i, t : SourceAt(i, t)' = SourceAt(i, t)
        /\ \A d, line : Serving(d, line)' = Serving(d, line)
        /\ \A i : Items(merge, i)' = Items(merge, i)
    BY <1>2, ItemsSame
  <1>9. \A i : Items(dispatch, i)' = Items(dispatch', i)
    BY <1>2, <1>7 DEF Items
  <1>10. PlacesInv'
    <2>1. PlaceInv(dispatch)' /\ PlaceInv(merge)'
      BY <1>1, <1>2, <1>4, <1>7 DEF PlacesInv, PlaceInv
    <2> QED BY <1>1, <1>2, <1>4, <2>1 DEF PlacesInv
  <1>11. FeedInv' /\ RequestInv' /\ PkgInv'
    BY <1>1, <1>2, FeedSame, RequestSame, PkgSame
  <1>12. ASSUME NEW i \in PE
         PROVE  /\ ItemsInv(i)' /\ SameElement(i)
                /\ Len(sv_stream'[i]) <= StreamDepth
    <2>1. ItemsInv(i) /\ IsSeq(sv_stream[i]) /\ Len(sv_stream[i]) \in Nat
          /\ (sv_stream[i] = <<>> <=> Len(sv_stream[i]) = 0)
          /\ Len(sv_stream[i]) <= StreamDepth
      BY <1>1, LenSeq DEF ItemsInv, ElementTypes
    <2>2. CASE i # e
      <3>1. sv_stream'[i] = sv_stream[i]
        BY <1>5, <1>6, <2>2
      <3>2. Items(dispatch, i)' = Items(dispatch, i)
        BY <1>4, <1>9, <2>2
      <3>3. NextItem(i)' = NextItem(i)
        BY <3>1, <3>2 DEF NextItem
      <3>4. Exhausted(i)' = Exhausted(i)
        BY <1>2, <1>8, <3>1, <3>3 DEF Exhausted
      <3>5. ItemsInv(i)'
        BY <1>2, <1>8, <2>1, <3>1, <3>3 DEF ItemsInv
      <3> QED BY <1>2, <2>1, <3>1, <3>3, <3>4, <3>5 DEF SameElement
    <2>3. CASE i = e
      <3>1. PICK t \in Nat, m \in Nat :
                t = Items(dispatch, i) /\ t = 2 * v + (n \div PE_NUM) /\ m = Len(sv_stream[i])
        BY <1>4, <2>1, <2>3
      <3>2. sv_stream'[i] = Append(sv_stream[i], [src |-> SourceAt(i, t), last |-> LastAt(t)])
        <4>1. SourceAt(i, t) = source[v][LaneOf(n)]
          BY <1>3, <2>3, <3>1, SourceOfItem
        <4>2. LastAt(t) = (n >= PE_NUM /\ IsEnd(source[v + 1]))
          <5>1. LastAt(t) <=> (n >= PE_NUM /\ IsEnd(source[v + 1]))
            BY <3>1, SourceOfItem
          <5>2. LastAt(t) \in BOOLEAN
            BY DEF LastAt
          <5> QED BY <5>1, <5>2
        <4> QED BY <1>5, <1>6, <2>3, <4>1, <4>2
      <3>3. /\ IsSeq(sv_stream'[i]) /\ Len(sv_stream'[i]) = m + 1
            /\ \A j \in 1 .. m : sv_stream'[i][j] = sv_stream[i][j]
            /\ sv_stream'[i][m + 1] = [src |-> SourceAt(i, t), last |-> LastAt(t)]
        BY <2>1, <3>1, <3>2, SeqAppend
      <3>4. m < StreamDepth
        BY <1>5, <2>3, <3>1 DEF Room
      <3>5. NextItem(i) = t - m /\ NextItem(i)' = (t + 1) - (m + 1)
        BY <1>4, <1>9, <2>3, <3>1, <3>3 DEF NextItem
      <3>6. NextItem(i)' = NextItem(i)
        BY <3>1, <3>5
      <3>7. ~Exhausted(i)
        <4>1. ASSUME Exhausted(i)
              PROVE  FALSE
          <5>1. m = 0 /\ LastAt(t - 1)
            BY <2>1, <3>1, <3>5, <4>1 DEF Exhausted
          <5>2. t > 0
            BY <1>3, <3>1, LaneType
          <5> QED BY <1>3, <3>1, <5>1, <5>2, SourceOfItem
        <4> QED BY <4>1
      <3>8. ASSUME NEW j \in 1 .. Len(sv_stream'[i])
            PROVE  sv_stream'[i][j] = [src |-> SourceAt(i, NextItem(i) + (j - 1)),
                                       last |-> LastAt(NextItem(i) + (j - 1))]
        <4>1. CASE j \in 1 .. m
          BY <2>1, <3>1, <3>3, <4>1 DEF ItemsInv
        <4>2. CASE j = m + 1
          <5>1. NextItem(i) + (j - 1) = t
            BY <3>1, <3>5, <4>2
          <5> QED BY <3>3, <4>2, <5>1
        <4> QED BY <3>1, <3>3, <4>1, <4>2
      <3>9. ItemsInv(i)'
        BY <1>2, <1>8, <2>1, <3>3, <3>6, <3>8 DEF ItemsInv
      <3> QED BY <1>2, <1>6, <3>1, <3>3, <3>4, <3>6, <3>7, <3>9 DEF SameElement
    <2> QED BY <2>2, <2>3
  <1>13. ElementTypes'
    <2>1. sv_stream' = [i \in PE |-> sv_stream'[i]]
      BY <1>5, <1>6
    <2> QED BY <1>1, <1>2, <1>12, <2>1 DEF ElementTypes, Registers, Data
  <1>14. ElementsInv'
    BY <1>1, <1>2, <1>12, LinesSame, ElementsSame
  <1> QED BY <1>10, <1>11, <1>12, <1>13, <1>14 DEF IInv

-----------------------------------------------------------------------------
(* src_merge. *)

LEMMA MergePlace ==
    ASSUME FeedInv, PlacesInv, merge.item < 2 * PE_NUM,
           NEW e \in PE, e = merge.item % PE_NUM, ItemsInv(e), out_stream[e] # <<>>,
           NEW place, place = [merge EXCEPT !.item = merge.item + 1]
    PROVE  /\ RunOf(merge.vector) = run
           /\ merge.vector \in Nat \ {0} /\ merge.item \in 0 .. 2 * PE_NUM - 1
           /\ merge.vector <= fed2
           /\ place = [vector |-> merge.vector, item |-> merge.item + 1]
           /\ PlaceInv(place)
           /\ \A i \in PE : /\ Items(merge, i) \in Nat
                            /\ Items(place, i) = Items(merge, i) + (IF e = i THEN 1 ELSE 0)
           /\ Items(merge, e) = 2 * merge.vector + (merge.item \div PE_NUM)
  <1>1. PlaceInv(merge) /\ PlaceInv(dispatch) /\ merge.item \in 0 .. 2 * PE_NUM
    BY DEF PlacesInv
  <1>2. PICK v \in Nat \ {0}, n \in 0 .. 2 * PE_NUM - 1 : v = merge.vector /\ n = merge.item
    <2>1. merge.item \in 0 .. 2 * PE_NUM - 1
      BY <1>1, Constants
    <2> QED BY <1>1, <2>1, PlaceCases
  <1>3. Items(merge, e) \in Nat /\ Items(dispatch, e) \in Nat
    BY <1>1, ItemsType
  <1>4. Items(merge, e) < Items(dispatch, e)
    <2>1. PICK a \in Nat, b \in Nat : a = Items(merge, e) /\ b = Items(dispatch, e)
      BY <1>3
    <2>2. PICK s \in Nat, o \in Nat \ {0} : s = Len(sv_stream[e]) /\ o = Len(out_stream[e])
      BY LenSeq DEF ItemsInv
    <2>3. a + o + (IF pe[e].sv_ready THEN 1 ELSE 0) = b - s
      BY <2>1, <2>2 DEF ItemsInv, NextItem
    <2> QED BY <2>1, <2>2, <2>3, SMTT(30)
  <1>5. InRun(Items(merge, e)) /\ Items(merge, e) \div 2 <= fed2
    BY <1>3, <1>4, ItemInRun
  <1>6. RunOf(v) = run
    <2>1. ASSUME RunOf(v) # run
          PROVE  FALSE
      <3>1. PICK f \in Nat : f = fed /\ Items(merge, e) = 2 * f
        BY <1>1, <1>2, <2>1, ItemsType, FedType
      <3>2. Items(merge, e) \div 2 = f
        BY <3>1
      <3>3. IsEnd(source[f])
        BY <1>1, <1>2, <2>1, <3>1, PlaceCases, RunFed
      <3> QED BY <1>5, <3>2, <3>3 DEF InRun
    <2> QED BY <2>1
  <1>7. \A i \in PE : Items(merge, i) = 2 * v + Halves(i, n)
    BY <1>2, <1>6 DEF Items
  <1>8. \A i \in PE : /\ Halves(i, n + 1) = Halves(i, n) + (IF e = i THEN 1 ELSE 0)
                      /\ e = i => Halves(i, n) = n \div PE_NUM
                      /\ Halves(i, n) \in {0, 1, 2}
    BY <1>2, HalvesNext DEF Halves
  <1>9. place = [vector |-> v, item |-> n + 1] /\ place.vector = v /\ place.item = n + 1
    <2>1. merge = [vector |-> v, item |-> n]
      BY <1>1, <1>2 DEF PlaceInv
    <2> QED BY <1>2, <2>1
  <1>10. \A i \in PE : Items(place, i) = 2 * v + Halves(i, n + 1)
    BY <1>6, <1>9 DEF Items
  <1>11. PlaceInv(place)
    BY <1>1, <1>2, <1>6, <1>9, RunType DEF PlaceInv
  <1>12. ASSUME NEW i \in PE
         PROVE  /\ Items(merge, i) \in Nat
                /\ Items(place, i) = Items(merge, i) + (IF e = i THEN 1 ELSE 0)
    <2>1. PICK h \in {0, 1, 2} : h = Halves(i, n)
      BY <1>8
    <2> QED BY <1>7, <1>8, <1>10, <2>1
  <1>13. Items(merge, e) = 2 * v + (n \div PE_NUM)
    BY <1>7, <1>8
  <1>14. v <= fed2
    <2>1. Items(merge, e) \div 2 = v
      BY <1>13, SourceOfItem
    <2> QED BY <1>5, <2>1
  <1> QED BY <1>2, <1>6, <1>9, <1>11, <1>12, <1>13, <1>14

LEMMA SrcMergeReadStep ==
    ASSUME IInv, SrcMergeRead
    PROVE  IInv'
  <1>1. FeedInv /\ RequestInv /\ PlacesInv /\ PkgInv /\ ElementTypes /\ ElementsInv
        /\ \A i \in PE : ItemsInv(i)
    BY DEF IInv
  <1>2. /\ SameStream /\ run' = run /\ run \in Nat
        /\ UNCHANGED <<source, run, fed, fed2, cmd, taken, inner_idx, dispatch>>
        /\ UNCHANGED <<sv_stream, pe, prop, cl_stream>>
    BY <1>1, RunType DEF SrcMergeRead, SameStream, feedVars, requestVars, engineVars
  <1>3. PICK n \in 0 .. 2 * PE_NUM - 1, e \in PE :
            /\ n = merge.item /\ e = n % PE_NUM /\ out_stream[e] # <<>>
            /\ pkg' = [pkg EXCEPT ![LaneOf(n)] = Head(out_stream[e])]
            /\ out_stream' = [out_stream EXCEPT ![e] = Tail(@)]
            /\ merge' = [merge EXCEPT !.item = n + 1]
    <2>1. merge.item \in 0 .. 2 * PE_NUM - 1
      BY <1>1, Constants DEF SrcMergeRead, PlacesInv
    <2> QED BY <2>1, LaneType DEF SrcMergeRead
  <1>4. /\ RunOf(merge.vector) = run
        /\ merge.vector \in Nat \ {0}
        /\ merge' = [vector |-> merge.vector, item |-> n + 1]
        /\ PlaceInv(merge')
        /\ \A i \in PE : /\ Items(merge, i) \in Nat
                         /\ Items(merge', i) = Items(merge, i) + (IF e = i THEN 1 ELSE 0)
        /\ Items(merge, e) = 2 * merge.vector + (n \div PE_NUM)
    <2>1. merge.item < 2 * PE_NUM
      BY DEF SrcMergeRead
    <2> QED BY <1>1, <1>3, <2>1, MergePlace
  <1>5. out_stream = [i \in PE |-> out_stream[i]] /\ StreamDepth \in Nat /\ pkg \in [Lane -> Data]
    BY <1>1, Constants DEF ElementTypes
  <1>6. \A k : RunOf(k)' = RunOf(k)
    BY <1>2 DEF RunOf
  <1>7. /\ \A t : InRun(t)' = InRun(t) /\ LastAt(t)' = LastAt(t)
        /\ \A i, t : SourceAt(i, t)' = SourceAt(i, t)
        /\ \A d, line : Serving(d, line)' = Serving(d, line)
        /\ \A i : Items(dispatch, i)' = Items(dispatch, i)
    BY <1>2, ItemsSame
  <1>8. \A i : Items(merge, i)' = Items(merge', i)
    BY <1>2, <1>6 DEF Items
  <1>9. PlacesInv'
    <2>1. PlaceInv(dispatch)' /\ PlaceInv(merge)'
      BY <1>1, <1>2, <1>4, <1>6 DEF PlacesInv, PlaceInv
    <2>2. merge'.item \in 0 .. 2 * PE_NUM
      BY <1>3, <1>4, Constants, SMTT(30)
    <2> QED BY <1>1, <1>2, <1>4, <2>1, <2>2 DEF PlacesInv
  <1>10. FeedInv' /\ RequestInv'
    BY <1>1, <1>2, FeedSame, RequestSame
  <1>11. PICK b \in Nat : b = Items(merge, e) /\ SourceAt(e, b) = source[merge.vector][LaneOf(n)]
    BY <1>3, <1>4, SourceOfItem
  <1>12. /\ IsSeq(out_stream[e]) /\ IsSeq(Tail(out_stream[e]))
         /\ Len(out_stream[e]) \in Nat \ {0}
         /\ Len(Tail(out_stream[e])) = Len(out_stream[e]) - 1
         /\ \A j \in 1 .. Len(Tail(out_stream[e])) : Tail(out_stream[e])[j] = out_stream[e][j + 1]
         /\ Head(out_stream[e]) = out_stream[e][1]
    BY <1>1, <1>3, SeqTail DEF ItemsInv
  <1>13. Serving(Head(out_stream[e]), source[merge.vector][LaneOf(n)])
    <2>1. 1 \in 1 .. Len(out_stream[e]) /\ b + (1 - 1) = b
      BY <1>12
    <2>2. Serving(out_stream[e][1], SourceAt(e, Items(merge, e) + (1 - 1)))
      BY <1>1, <2>1 DEF ItemsInv
    <2> QED BY <1>11, <1>12, <2>1, <2>2
  <1>14. PkgInv'
    <2> SUFFICES ASSUME NEW m \in 0 .. merge'.item - 1
                 PROVE  Serving(pkg'[LaneOf(m)], source[merge'.vector][LaneOf(m)])
      BY <1>2, <1>7 DEF PkgInv
    <2>1. merge'.vector = merge.vector /\ merge'.item = n + 1 /\ n \in Nat
      BY <1>3, <1>4, Constants
    <2>2. m \in 0 .. n - 1 \/ m = n
      BY <2>1
    <2>3. CASE m = n
      <3>1. pkg'[LaneOf(m)] = Head(out_stream[e])
        BY <1>3, <1>5, <2>3, LaneType
      <3> QED BY <1>13, <2>1, <2>3, <3>1
    <2>4. CASE m \in 0 .. n - 1
      <3>1. m \in 0 .. 2 * PE_NUM - 1 /\ m # n
        BY <1>3, <2>4, Constants
      <3>2. LaneOf(m) # LaneOf(n) /\ LaneOf(m) \in Lane
        BY <3>1, LaneInjective, LaneType
      <3>3. pkg'[LaneOf(m)] = pkg[LaneOf(m)]
        BY <1>3, <1>5, <3>2
      <3>4. Serving(pkg[LaneOf(m)], source[merge.vector][LaneOf(m)])
        BY <1>1, <1>3, <2>4 DEF PkgInv
      <3> QED BY <2>1, <3>3, <3>4
    <2> QED BY <2>2, <2>3, <2>4
  <1>15. ASSUME NEW i \in PE
         PROVE  /\ ItemsInv(i)' /\ SameElement(i)
                /\ Len(out_stream'[i]) <= StreamDepth
    <2>1. ItemsInv(i) /\ Len(out_stream[i]) <= StreamDepth
      BY <1>1 DEF ElementTypes
    <2>2. NextItem(i)' = NextItem(i)
      BY <1>2, <1>7 DEF NextItem
    <2>3. Exhausted(i)' = Exhausted(i)
      BY <1>2, <1>7, <2>2 DEF Exhausted
    <2>4. CASE i # e
      <3>1. out_stream'[i] = out_stream[i]
        BY <1>3, <1>5, <2>4
      <3>2. Items(merge, i)' = Items(merge, i)
        BY <1>4, <1>8, <2>4
      <3>3. ItemsInv(i)'
        BY <1>2, <1>7, <2>1, <2>2, <3>1, <3>2 DEF ItemsInv
      <3> QED BY <1>2, <2>1, <2>2, <2>3, <3>1, <3>3 DEF SameElement
    <2>5. CASE i = e
      <3>1. out_stream'[i] = Tail(out_stream[i])
        BY <1>3, <1>5, <2>5
      <3>2. Items(merge, i)' = b + 1 /\ Items(merge, i) = b
        BY <1>4, <1>8, <1>11, <2>5
      <3>3. PICK o \in Nat \ {0} : o = Len(out_stream[i]) /\ Len(out_stream'[i]) = o - 1
        BY <1>12, <2>5, <3>1
      <3>4. b + o + (IF pe[i].sv_ready THEN 1 ELSE 0) = NextItem(i)
        BY <2>1, <3>2, <3>3 DEF ItemsInv
      <3>5. (b + 1) + (o - 1) + (IF pe[i].sv_ready THEN 1 ELSE 0) = NextItem(i)
        <4>1. PICK x \in {0, 1} : x = IF pe[i].sv_ready THEN 1 ELSE 0
          OBVIOUS
        <4>2. (b + 1) + (o - 1) + x = b + o + x
          OBVIOUS
        <4> QED BY <3>4, <4>1, <4>2
      <3>6. ASSUME NEW j \in 1 .. Len(out_stream'[i])
            PROVE  Serving(out_stream'[i][j], SourceAt(i, (b + 1) + (j - 1)))
        <4>1. j + 1 \in 1 .. Len(out_stream[i]) /\ b + ((j + 1) - 1) = (b + 1) + (j - 1)
          BY <3>3
        <4>2. out_stream'[i][j] = out_stream[i][j + 1]
          BY <1>12, <2>5, <3>1
        <4>3. Serving(out_stream[i][j + 1], SourceAt(i, b + ((j + 1) - 1)))
          BY <2>1, <3>2, <4>1 DEF ItemsInv
        <4> QED BY <4>1, <4>2, <4>3
      <3>7. ASSUME NEW j \in 1 .. Len(out_stream'[i])
            PROVE  Serving(out_stream[i][j], SourceAt(i, (b + 1) + (j - 1)))'
        BY <1>7, <3>6, <3>7
      <3>8. IsSeq(out_stream'[i]) /\ IsSeq(sv_stream'[i]) /\ sv_stream'[i] = sv_stream[i]
            /\ pe'[i] = pe[i]
        BY <1>2, <1>12, <2>1, <2>5, <3>1 DEF ItemsInv
      <3>9. \A j \in 1 .. Len(sv_stream[i]) :
                sv_stream[i][j] = [src |-> SourceAt(i, NextItem(i) + (j - 1)),
                                   last |-> LastAt(NextItem(i) + (j - 1))]
        BY <2>1 DEF ItemsInv
      <3>10. ItemsInv(i)'
        BY <1>2, <1>7, <2>2, <3>2, <3>3, <3>5, <3>7, <3>8, <3>9 DEF ItemsInv
      <3> QED BY <1>2, <1>5, <2>1, <2>2, <2>3, <3>3, <3>10 DEF SameElement
    <2> QED BY <2>4, <2>5
  <1>16. ElementTypes'
    <2>1. out_stream' = [i \in PE |-> out_stream'[i]]
      BY <1>3, <1>5
    <2>2. pkg' \in [Lane -> Data]
      BY <1>3, <1>5, <1>13 DEF Serving
    <2> QED BY <1>1, <1>2, <1>15, <2>1, <2>2 DEF ElementTypes, Registers, Data
  <1>17. ElementsInv'
    BY <1>1, <1>2, <1>15, LinesSame, ElementsSame
  <1> QED BY <1>9, <1>10, <1>14, <1>15, <1>16, <1>17 DEF IInv

LEMMA MergeWritePlace ==
    ASSUME FeedInv, PlacesInv, merge.item = 2 * PE_NUM, \A i \in PE : ItemsInv(i),
           NEW place, place = [vector |-> Following(merge.vector), item |-> 0]
    PROVE  /\ PlaceInv(place) /\ place.item = 0
           /\ \A i \in PE : Items(place, i) = Items(merge, i)
  <1>1. PlaceInv(merge) /\ PlaceInv(dispatch) /\ dispatch.item \in 0 .. 2 * PE_NUM - 1
    BY DEF PlacesInv
  <1>2. PICK v \in Nat \ {0}, d \in Nat \ {0}, f \in Nat, f2 \in Nat, n \in Nat :
            /\ v = merge.vector /\ d = dispatch.vector /\ f = fed /\ f2 = fed2
            /\ n = Len(source) /\ d <= f2 + 1 /\ v <= f2 + 1 /\ f2 <= f /\ f <= n
    BY <1>1, PlaceCases, FedType
  <1>3. RunOf(v) = run
    BY <1>1, <1>2, PlaceCases, Constants
  <1>4. \A i \in PE : Halves(i, 2 * PE_NUM) = 2 /\ Halves(i, 0) = 0
    BY Constants DEF Halves, PE
  <1>5. \A i \in PE : Items(merge, i) = 2 * v + 2
    BY <1>2, <1>3, <1>4 DEF Items
  <1> DEFINE i == PE_NUM - 1
  <1>6. i \in PE
    BY Constants DEF PE
  <1>7. PICK c \in Nat : c = Items(dispatch, i)
    BY <1>1, <1>6, ItemsType
  <1>8. 2 * v + 2 <= c
    <2>1. PICK s \in Nat, o \in Nat : s = Len(sv_stream[i]) /\ o = Len(out_stream[i])
      BY <1>6, LenSeq DEF ItemsInv
    <2>2. PICK x \in {0, 1} : x = IF pe[i].sv_ready THEN 1 ELSE 0
      OBVIOUS
    <2>3. Items(merge, i) + Len(out_stream[i]) + (IF pe[i].sv_ready THEN 1 ELSE 0)
              = Items(dispatch, i) - Len(sv_stream[i])
      BY <1>6 DEF ItemsInv, NextItem
    <2>4. (2 * v + 2) + o + x = c - s
      BY <1>5, <1>6, <1>7, <2>1, <2>2, <2>3
    <2>5. PICK y \in Nat : y = 2 * v + 2
      BY <1>2
    <2>6. y + o + x = c - s /\ x \in Nat /\ o \in Nat /\ s \in Nat /\ c \in Nat
      BY <1>7, <2>1, <2>2, <2>4, <2>5
    <2>7. y <= c
      BY <2>5, <2>6
    <2> QED BY <2>5, <2>7
  <1>9. Halves(i, dispatch.item) \in {0, 1}
    BY <1>1, Constants DEF Halves
  <1>10. v < f2 \/ (RunOf(d) = run /\ d = v + 1)
    <2>1. CASE RunOf(d) = run
      <3>1. PICK h \in {0, 1} : h = Halves(i, dispatch.item)
        BY <1>9
      <3>2. Items(dispatch, i) = 2 * d + h
        BY <1>2, <2>1, <3>1 DEF Items
      <3>3. 2 * v + 2 <= 2 * d + h
        BY <1>7, <1>8, <3>2
      <3>4. v + 1 <= d
        BY <1>2, <3>1, <3>3, SMTT(30)
      <3>5. d = v + 1 \/ v < f2
        BY <1>2, <3>4
      <3> QED BY <2>1, <3>5
    <2>2. CASE RunOf(d) # run
      <3>1. c = 2 * f /\ f2 = f
        BY <1>1, <1>2, <1>6, <1>7, <2>2, ItemsType, PlaceCases
      <3> QED BY <1>2, <1>8, <3>1
    <2> QED BY <2>1, <2>2
  <1>11. CASE v < f2
    <2>1. ~IsEnd(source[v])
      BY <1>1, <1>2, <1>11 DEF PlaceInv
    <2> QED BY <1>2, <1>3, <1>5, <1>11, <2>1, FollowingPlace
  <1>12. CASE RunOf(d) = run /\ d = v + 1
    <2>1. v < n => ~IsEnd(source[v + 1])
      BY <1>1, <1>2, <1>12 DEF PlaceInv
    <2>2. place = [vector |-> d, item |-> 0] /\ place.vector = d /\ place.item = 0
      BY <1>2, <1>12, <2>1 DEF Following
    <2>3. PlaceInv(place)
      BY <1>1, <1>2, <1>12, <2>2, RunType DEF PlaceInv
    <2>4. \A j \in PE : Items(place, j) = 2 * d + 0
      BY <1>4, <1>12, <2>2 DEF Items
    <2>5. 2 * d + 0 = 2 * v + 2
      BY <1>2, <1>12
    <2> QED BY <1>5, <2>2, <2>3, <2>4, <2>5
  <1> QED BY <1>10, <1>11, <1>12

LEMMA SrcMergeWriteStep ==
    ASSUME IInv, SrcMergeWrite
    PROVE  IInv'
  <1>1. FeedInv /\ RequestInv /\ PlacesInv /\ PkgInv /\ ElementTypes /\ ElementsInv
        /\ \A i \in PE : ItemsInv(i)
    BY DEF IInv
  <1>2. /\ SameStream /\ run' = run
        /\ UNCHANGED <<source, run, fed, fed2, cmd, taken, inner_idx, dispatch, pkg>>
        /\ UNCHANGED <<sv_stream, pe, prop, cl_stream, out_stream>>
    BY DEF SrcMergeWrite, SameStream, feedVars, requestVars, engineVars, peVars
  <1>3. /\ PlaceInv(merge') /\ merge'.item = 0
        /\ \A i \in PE : Items(merge', i) = Items(merge, i)
    BY <1>1, MergeWritePlace DEF SrcMergeWrite
  <1>4. \A k : RunOf(k)' = RunOf(k)
    BY <1>2 DEF RunOf
  <1>5. /\ \A t : InRun(t)' = InRun(t) /\ LastAt(t)' = LastAt(t)
        /\ \A i, t : SourceAt(i, t)' = SourceAt(i, t)
        /\ \A d, line : Serving(d, line)' = Serving(d, line)
        /\ \A i : Items(dispatch, i)' = Items(dispatch, i)
    BY <1>2, ItemsSame
  <1>6. \A i \in PE : Items(merge, i)' = Items(merge, i)
    BY <1>2, <1>3, <1>4 DEF Items
  <1>7. PlacesInv'
    <2>1. PlaceInv(dispatch)' /\ PlaceInv(merge)'
      BY <1>1, <1>2, <1>3, <1>4 DEF PlacesInv, PlaceInv
    <2>2. merge'.item \in 0 .. 2 * PE_NUM
      BY <1>3, Constants
    <2> QED BY <1>1, <1>2, <2>1, <2>2 DEF PlacesInv
  <1>8. FeedInv' /\ RequestInv' /\ ElementTypes'
    BY <1>1, <1>2, FeedSame, RequestSame, TypesSame DEF peVars
  <1>9. PkgInv'
    BY <1>3 DEF PkgInv
  <1>10. ASSUME NEW i \in PE
         PROVE  ItemsInv(i)' /\ SameElement(i)
    <2>1. NextItem(i)' = NextItem(i)
      BY <1>2, <1>5 DEF NextItem
    <2>2. Exhausted(i)' = Exhausted(i)
      BY <1>2, <1>5, <2>1 DEF Exhausted
    <2>3. ItemsInv(i)'
      BY <1>1, <1>2, <1>5, <1>6, <2>1 DEF ItemsInv
    <2> QED BY <1>2, <2>1, <2>2, <2>3 DEF SameElement
  <1>11. ElementsInv'
    BY <1>1, <1>2, <1>10, LinesSame, ElementsSame
  <1> QED BY <1>7, <1>8, <1>9, <1>10, <1>11 DEF IInv

-----------------------------------------------------------------------------
(* The next run. *)

LEMMA AllSent ==
    ASSUME FeedInv, RequestInv, NEW next \in [PE -> First .. Sent], Chain(next),
           \A i \in PE : cl_stream[i] = <<>>
    PROVE  \A i \in PE : next[i] = Sent
  <1> DEFINE S == {i \in PE : next[i] # Sent}
  <1>1. S \in SUBSET Nat
    BY DEF PE
  <1>2. ASSUME S # {}
        PROVE  FALSE
    <2>1. PICK m \in S : \A k \in S : m <= k
      <3> HIDE DEF S
      <3> QED BY <1>1, <1>2, LeastNatural
    <2>2. m \in PE /\ next[m] # Sent
      OBVIOUS
    <2>3. next[m] = Above(m, next)
      <3>1. Len(cl_stream[m]) = Above(m, next) - next[m] /\ Len(cl_stream[m]) = 0
        BY <2>2 DEF Chain
      <3>2. next[m] \in Nat /\ Above(m, next) \in Nat
        BY <2>2, ChainType
      <3> QED BY <3>1, <3>2
    <2>4. m # 0 /\ m - 1 \in PE /\ next[m - 1] = next[m]
      BY <2>2, <2>3, ChainType
    <2>5. m - 1 \in S
      BY <2>2, <2>4
    <2>6. m \in Nat
      BY <1>1
    <2> QED BY <2>1, <2>5, <2>6
  <1> QED BY <1>2

LEMMA NothingAdded ==
    ASSUME NEW f \in Nat, NEW o \in Nat, NEW x \in Nat, (2 * f + o) + x = 2 * f
    PROVE  o = 0
  OBVIOUS

LEMMA HalfAdded ==
    ASSUME NEW f \in Nat, NEW o \in Nat, NEW x \in Nat, NEW d \in Nat, NEW h \in {0, 1},
           (2 * f + o) + x = 2 * d + h
    PROVE  f <= d
  OBVIOUS

LEMMA DrainedRun ==
    ASSUME IInv, Drained
    PROVE  /\ RunOf(fed + 1) = run + 1 /\ fed \in Nat \ {0} /\ fed2 = fed
           /\ taken = Upto(run) /\ Len(cmd) = Upto(run)
           /\ merge = [vector |-> fed + 1, item |-> 0]
           /\ dispatch = [vector |-> fed + 1, item |-> 0]
           /\ \A i \in PE :
                 /\ sv_stream[i] = <<>> /\ cl_stream[i] = <<>> /\ out_stream[i] = <<>>
                 /\ pe[i] \in {Fresh, [Fresh EXCEPT !.need_update = TRUE]}
  <1>1. FeedInv /\ RequestInv /\ PlacesInv /\ ElementTypes /\ ElementsInv
        /\ \A i \in PE : ItemsInv(i)
    BY DEF IInv
  <1>2. RunOf(fed + 1) = run + 1
    BY <1>1, StartedRun DEF Drained, FeedInv
  <1>3. fed \in Nat \ {0} /\ fed \in 1 .. Len(source) /\ RunOf(fed) = run /\ IsEnd(source[fed])
    BY <1>1, <1>2, RunFed
  <1>4. StreamInv /\ run \in Nat \ {0}
    BY <1>1, RunType
  <1>5. R!Requested(fed) = Upto(run)
    <2>1. fed \in 0 .. Len(source)
      BY <1>3
    <2>2. R!Touched(fed) = {x \in Touched : VectorOf(x) <= fed}
      BY <1>4, <2>1, TouchedSources
    <2>3. ASSUME NEW x \in Touched
          PROVE  VectorOf(x) <= fed <=> RunOf(VectorOf(x)) <= run
      <3>1. VectorOf(x) \in Nat \ {0}
        BY <1>4, IsTouched, VectorMonotone
      <3>2. VectorOf(x) <= fed => RunOf(VectorOf(x)) <= RunOf(fed)
        BY <1>3, <3>1, RunMonotone
      <3>3. fed + 1 <= VectorOf(x) => RunOf(fed + 1) <= RunOf(VectorOf(x))
        BY <1>3, <3>1, RunMonotone
      <3>4. RunOf(VectorOf(x)) \in Nat
        BY <3>1, RunStep
      <3> QED BY <1>2, <1>3, <1>4, <3>1, <3>2, <3>3, <3>4
    <2>4. R!Touched(fed) = {x \in Touched : RunOf(VectorOf(x)) <= run}
      BY <2>2, <2>3
    <2> QED BY <2>4, SameCardinality DEF R!Requested, Upto
  <1>6. taken = Upto(run) /\ Len(cmd) = Upto(run) /\ fed2 = fed
        /\ merge = [vector |-> fed + 1, item |-> 0]
    BY <1>5 DEF Drained
  <1>7. Sent = Stop
    BY <1>6 DEF Sent
  <1>8. PICK next \in [PE -> First .. Sent] :
            /\ Chain(next) /\ \A i \in PE : Active(i, next[i]) \/ Idle(i, next[i])
    BY <1>1 DEF ElementsInv
  <1>9. \A i \in PE : next[i] = Stop
    BY <1>1, <1>7, <1>8, AllSent DEF Drained
  <1>10. \A i \in PE : Idle(i, Stop)
    <2>1. \A i \in PE : ~Active(i, Stop)
      BY DEF Active, Drained
    <2> QED BY <1>8, <1>9, <2>1
  <1>11. \A i \in PE : /\ sv_stream[i] = <<>> /\ cl_stream[i] = <<>>
                       /\ pe[i] \in {Fresh, [Fresh EXCEPT !.need_update = TRUE]}
    BY <1>10 DEF Idle, Exhausted, Drained
  <1>12. \A i \in PE : Items(merge, i) = 2 * fed
    <2>1. RunOf(merge.vector) # run /\ PlaceInv(merge)
      BY <1>1, <1>2, <1>4, <1>6 DEF PlacesInv
    <2> QED BY <1>1, <2>1, ItemsType
  <1>13. \A i \in PE : /\ Items(dispatch, i) \in Nat /\ Len(out_stream[i]) \in Nat
                       /\ 2 * fed + Len(out_stream[i]) + (IF pe[i].sv_ready THEN 1 ELSE 0)
                             = Items(dispatch, i)
    <2> SUFFICES ASSUME NEW i \in PE
                 PROVE  /\ Items(dispatch, i) \in Nat /\ Len(out_stream[i]) \in Nat
                        /\ 2 * fed + Len(out_stream[i]) + (IF pe[i].sv_ready THEN 1 ELSE 0)
                              = Items(dispatch, i)
      OBVIOUS
    <2>1. Items(dispatch, i) \in Nat
      BY <1>1, ItemsType DEF PlacesInv
    <2>2. Len(out_stream[i]) \in Nat
      BY <1>1, LenSeq DEF ItemsInv
    <2>3. Items(dispatch, i) - Len(sv_stream[i]) = Items(dispatch, i)
      BY <1>11, <2>1
    <2> QED BY <1>1, <1>12, <2>1, <2>2, <2>3 DEF ItemsInv, NextItem
  <1>14. RunOf(dispatch.vector) # run
    <2>1. ASSUME RunOf(dispatch.vector) = run
          PROVE  FALSE
      <3>1. PlaceInv(dispatch) /\ dispatch.item \in 0 .. 2 * PE_NUM - 1
        BY <1>1 DEF PlacesInv
      <3>2. PICK d \in Nat \ {0}, f \in Nat \ {0} :
                d = dispatch.vector /\ f = fed /\ d <= f + 1 /\ f <= Len(source)
        BY <1>1, <1>3, <1>6, <3>1, PlaceCases, FedType
      <3>3. d # f + 1
        BY <1>2, <1>4, <2>1, <3>2
      <3>4. d # f
        BY <1>3, <3>1, <3>2 DEF PlaceInv
      <3> DEFINE i == PE_NUM - 1
      <3>5. i \in PE
        BY Constants DEF PE
      <3>6. PICK h \in {0, 1} : h = Halves(i, dispatch.item)
        BY <3>1, Constants DEF Halves
      <3>7. Items(dispatch, i) = 2 * d + h
        BY <2>1, <3>2, <3>6 DEF Items
      <3> HIDE DEF i
      <3>8. PICK o \in Nat, x \in {0, 1} :
                o = Len(out_stream[i]) /\ x = IF pe[i].sv_ready THEN 1 ELSE 0
        BY <1>13, <3>5
      <3>9. (2 * f + o) + x = 2 * d + h
        BY <1>13, <3>2, <3>5, <3>7, <3>8
      <3>10. d + 1 <= f
        BY <3>2, <3>3, <3>4
      <3>11. x \in Nat /\ f \in Nat /\ d \in Nat
        OBVIOUS
      <3>12. f <= d
        BY <3>9, <3>11, HalfAdded
      <3> QED BY <3>10, <3>11, <3>12
    <2> QED BY <2>1
  <1>15. dispatch = [vector |-> fed + 1, item |-> 0]
    BY <1>1, <1>14, PlaceCases DEF PlacesInv, PlaceInv
  <1>16. ASSUME NEW i \in PE
         PROVE  out_stream[i] = <<>>
    <2>1. Items(dispatch, i) = 2 * fed
      BY <1>1, <1>14, ItemsType DEF PlacesInv
    <2>2. PICK o \in Nat, x \in {0, 1}, f \in Nat :
              o = Len(out_stream[i]) /\ x = (IF pe[i].sv_ready THEN 1 ELSE 0) /\ f = fed
      BY <1>3, <1>13
    <2>3. (2 * f + o) + x = 2 * f
      BY <1>13, <2>1, <2>2
    <2>4. x \in Nat
      OBVIOUS
    <2>5. o = 0
      BY <2>3, <2>4, NothingAdded
    <2> QED BY <1>1, <2>2, <2>5, LenSeq DEF ItemsInv
  <1> QED BY <1>2, <1>3, <1>6, <1>11, <1>15, <1>16

\* The first line of a run comes before the last one.
LEMMA FirstBeforeStop ==
    ASSUME StreamInv, NEW r \in Nat, NEW k \in 1 .. Len(source), RunOf(k) = r + 1
    PROVE  /\ (Upto(r) + 1) * BURST \in Nat
           /\ (Upto(r) + 1) * BURST < Upto(r + 1) * BURST + 2
           /\ Upto(r) # Upto(r + 1) /\ Upto(r) \in Nat /\ Upto(r + 1) \in Nat
  <1>1. PICK a \in Nat, b \in Nat : a = Upto(r) + 1 /\ b = Upto(r + 1) /\ a < b /\ Upto(r) \in Nat
    BY RunHasRequests
  <1>2. BURST \in Nat
    BY Constants
  <1>3. a * BURST <= b * BURST /\ a * BURST \in Nat /\ b * BURST \in Nat
    BY <1>1, <1>2, TimesMonotone
  <1>4. \A x \in Nat, y \in Nat : x <= y => x < y + 2
    OBVIOUS
  <1>5. a * BURST < b * BURST + 2
    BY <1>3, <1>4
  <1> QED BY <1>1, <1>3, <1>5

LEMMA FreshElement ==
    ASSUME NEW i \in PE, NEW first \in Nat, First' = first, Stop' # first,
           pe'[i] \in {Fresh, [Fresh EXCEPT !.need_update = TRUE]}
    PROVE  Active(i, first)'
  <1>1. /\ pe'[i].sv_ready = FALSE /\ pe'[i].required_min = 0 /\ pe'[i].max = 0
        /\ pe'[i].tb_valid = FALSE /\ pe'[i].end_of_sv = FALSE /\ pe'[i].end_of_ca = FALSE
    <2>1. CASE pe'[i] = Fresh
      BY <2>1 DEF Fresh
    <2>2. CASE pe'[i] = [Fresh EXCEPT !.need_update = TRUE]
      BY <2>2 DEF Fresh
    <2> QED BY <2>1, <2>2
  <1>2. SourceInv(i)'
    BY <1>1 DEF SourceInv
  <1>3. WindowInv(i, first)'
    <2>1. 0 < 0 + CACHE_LINES
      BY Constants
    <2>2. \A q : q \notin first + 1 .. first - 1 /\ q \notin first .. first - 1
      OBVIOUS
    <2> QED BY <1>1, <2>1, <2>2 DEF WindowInv
  <1> QED BY <1>1, <1>2, <1>3 DEF Active

LEMMA StartRunStep ==
    ASSUME IInv, StartRun
    PROVE  IInv'
  <1>1. FeedInv /\ RequestInv /\ PlacesInv /\ PkgInv /\ ElementTypes /\ ElementsInv
        /\ \A i \in PE : ItemsInv(i)
    BY DEF IInv
  <1>2. /\ SameStream /\ run' = run + 1 /\ run \in Nat \ {0} /\ fed < Len(source)
        /\ UNCHANGED <<source, input, fed, fed2, cmd, taken, inner_idx, dispatch, merge, pkg>>
        /\ UNCHANGED <<sv_stream, pe, prop, cl_stream, out_stream>> /\ Drained
    BY <1>1, RunType DEF StartRun, SameStream, requestVars, engineVars, peVars, mergeVars
  <1>3. /\ RunOf(fed + 1) = run + 1 /\ fed \in Nat \ {0} /\ fed2 = fed
        /\ taken = Upto(run) /\ Len(cmd) = Upto(run)
        /\ merge = [vector |-> fed + 1, item |-> 0]
        /\ dispatch = [vector |-> fed + 1, item |-> 0]
        /\ \A i \in PE :
              /\ sv_stream[i] = <<>> /\ cl_stream[i] = <<>> /\ out_stream[i] = <<>>
              /\ pe[i] \in {Fresh, [Fresh EXCEPT !.need_update = TRUE]}
    BY <1>2, DrainedRun
  <1>4. /\ \A k : RunOf(k)' = RunOf(k)
        /\ \A r : Upto(r)' = Upto(r)
        /\ StreamInv' /\ StreamInv
        /\ (run - 1)' = run
    BY <1>1, <1>2, SameStreamFacts, RunType DEF RunOf
  <1>5. fed + 1 \in 1 .. Len(source) /\ Len(source) \in Nat
    BY <1>1, <1>2, <1>3, FedType
  <1>6. /\ Upto(run) # Upto(run + 1) /\ Upto(run) \in Nat /\ Upto(run + 1) \in Nat
        /\ Upto(run) <= Upto(run + 1)
        /\ (Upto(run) + 1) * BURST \in Nat
        /\ (Upto(run) + 1) * BURST < Upto(run + 1) * BURST + 2
    <2>1. run \in Nat /\ run + 1 \in Nat /\ run <= run + 1
      BY <1>2
    <2> QED BY <1>3, <1>4, <1>5, <2>1, FirstBeforeStop, UptoMonotone
  <1>7. FeedInv'
    <2>1. run + 1 \in 1 .. Len(source)
      <3>1. RunOf(fed + 1) \in 1 .. fed + 1
        BY <1>3, RunStep
      <3> QED BY <1>2, <1>3, <1>5, <3>1
    <2>2. fed' \in 0 .. Len(source) /\ fed2' \in {fed' - 1, fed'} \cap Nat
      BY <1>2, <1>3, <1>5
    <2>3. RunOf(fed') <= run'
      <3>1. RunOf(fed) <= run /\ RunOf(fed) \in Nat
        BY <1>1, <1>3, RunStep DEF FeedInv
      <3> QED BY <1>2, <3>1
    <2> QED BY <1>2, <1>3, <1>4, <2>1, <2>2, <2>3 DEF FeedInv
  <1>8. inner_idx = 0
    BY <1>1, <1>3 DEF RequestInv
  <1>9. RequestInv'
    <2>1. \A c : R!Burst(c)' = R!Burst(c) /\ Rank(c)' = Rank(c)
      BY <1>2, SameStreamFacts
    <2>2. R!Touched(fed)' = R!Touched(fed)
      BY <1>2 DEF R!Touched, R!Width, R!Burst
    <2>3. /\ cmd' \in Seq(0 .. End \div BURST)
          /\ \A c \in 1 .. Len(cmd') :
                \E y \in R!Touched(fed)' : Rank(y)' = c /\ cmd'[c] = R!Burst(y)'
      BY <1>1, <1>2, <2>1, <2>2 DEF RequestInv
    <2>4. Upto(run - 1)' = Upto(run) /\ Upto(run)' = Upto(run + 1)
      BY <1>2, <1>4
    <2>5. /\ taken' \in Upto(run) .. Len(cmd') /\ Len(cmd') <= Upto(run + 1)
          /\ inner_idx' = 0 /\ 0 \in 0 .. BURST - 1
      BY <1>2, <1>3, <1>6, <1>8, Constants, SMTT(30)
    <2> QED BY <2>3, <2>4, <2>5 DEF RequestInv
  <1>10. PlaceInv(dispatch)' /\ PlaceInv(merge)' /\ dispatch' = merge'
    <2>1. PlaceInv(merge) /\ merge.vector = fed + 1 /\ merge.item = 0
      BY <1>1, <1>3 DEF PlacesInv
    <2> QED BY <1>2, <1>3, <1>4, <1>5, <2>1 DEF PlaceInv
  <1>11. PlacesInv'
    <2>1. dispatch'.item = 0 /\ merge'.item = 0
      BY <1>2, <1>3
    <2>2. 0 \in 0 .. 2 * PE_NUM - 1 /\ 0 \in 0 .. 2 * PE_NUM
      BY Constants
    <2> QED BY <1>10, <2>1, <2>2 DEF PlacesInv
  <1>12. PkgInv'
    BY <1>2, <1>3 DEF PkgInv
  <1>13. ASSUME NEW i \in PE
         PROVE  ItemsInv(i)'
    <2>1. Items(merge, i)' = Items(dispatch, i)'
      BY <1>10 DEF Items
    <2>2. PICK m \in Nat : m = Items(dispatch, i)'
      <3>1. Items(dispatch, i)' = 2 * (fed + 1) + Halves(i, 0)
        BY <1>2, <1>3, <1>4 DEF Items
      <3> QED BY <1>3, <3>1 DEF Halves
    <2>3. NextItem(i)' = m
      BY <1>2, <1>3, <2>2 DEF NextItem
    <2>4. pe'[i].sv_ready = FALSE
      <3>1. pe'[i] \in {Fresh, [Fresh EXCEPT !.need_update = TRUE]}
        BY <1>2, <1>3
      <3>2. CASE pe'[i] = Fresh
        BY <3>2 DEF Fresh
      <3>3. CASE pe'[i] = [Fresh EXCEPT !.need_update = TRUE]
        BY <3>3 DEF Fresh
      <3> QED BY <3>1, <3>2, <3>3
    <2>5. sv_stream'[i] = <<>> /\ out_stream'[i] = <<>>
      BY <1>2, <1>3
    <2>6. m + 0 + 0 = m
      OBVIOUS
    <2>7. Items(merge, i)' + 0 + 0 = NextItem(i)'
      BY <2>1, <2>2, <2>3, <2>6
    <2> QED BY <2>4, <2>5, <2>7, SeqEmpty DEF ItemsInv
  <1>14. ElementTypes'
    <2>1. Data \subseteq Data'
      <3>1. 0 .. run \subseteq 0 .. run'
        BY <1>2
      <3> QED BY <3>1 DEF Data
    <2>2. Registers \subseteq Registers'
      BY <2>1 DEF Registers
    <2>3. pe' \in [PE -> Registers']
      BY <1>1, <1>2, <2>2 DEF ElementTypes
    <2>4. prop' \in [PE -> [0 .. CACHE_LINES - 1 -> Data']]
      BY <1>1, <1>2, <2>1 DEF ElementTypes
    <2>5. pkg' \in [Lane -> Data']
      BY <1>1, <1>2, <2>1 DEF ElementTypes
    <2> QED BY <1>1, <1>2, <2>3, <2>4, <2>5 DEF ElementTypes
  <1>15. ElementsInv'
    <2>1. PICK f \in Nat : f = (Upto(run) + 1) * BURST
      BY <1>6
    <2>2. First' = f /\ Sent' = f
      <3>1. First' = f
        BY <1>4, <2>1 DEF First
      <3>2. taken' # Upto(run)' /\ Sent' = (Upto(run) + 1) * BURST + 0
        BY <1>2, <1>3, <1>4, <1>6, <1>8 DEF Sent
      <3>3. f + 0 = f
        OBVIOUS
      <3> QED BY <2>1, <3>1, <3>2, <3>3
    <2>3. Stop' # f
      <3>1. Stop' = Upto(run + 1) * BURST + 2
        BY <1>2, <1>4 DEF Stop
      <3> QED BY <1>6, <2>1, <3>1
    <2> DEFINE next == [i \in PE |-> f]
    <2>4. next \in [PE -> First' .. Sent']
      BY <2>2
    <2>5. Chain(next)'
      <3> SUFFICES ASSUME NEW i \in PE
                   PROVE  /\ next[i] <= Above(i, next)'
                          /\ IsSeq(cl_stream'[i])
                          /\ Len(cl_stream'[i]) = Above(i, next)' - next[i]
                          /\ cl_stream'[i] = <<>>
        BY DEF Chain
      <3>1. Above(i, next)' = f
        <4>1. i # 0 => i - 1 \in PE
          BY Constants DEF PE
        <4> QED BY <2>2, <4>1 DEF Above
      <3>2. cl_stream'[i] = <<>> /\ next[i] = f
        BY <1>2, <1>3
      <3> QED BY <3>1, <3>2, SeqEmpty
    <2>6. ASSUME NEW i \in PE
          PROVE  Active(i, next[i])'
      <3>1. pe'[i] \in {Fresh, [Fresh EXCEPT !.need_update = TRUE]}
        BY <1>2, <1>3
      <3>2. Active(i, f)'
        BY <2>2, <2>3, <3>1, FreshElement
      <3> QED BY <3>2
    <2> QED BY <2>4, <2>5, <2>6 DEF ElementsInv
  <1> QED BY <1>7, <1>9, <1>11, <1>12, <1>13, <1>14, <1>15 DEF IInv

-----------------------------------------------------------------------------
(* The registers of an element, from one part of an iteration to the next. *)

HasRegisters(e) ==
    e = [sv_ready |-> e.sv_ready, src |-> e.src, frp_flag |-> e.frp_flag,
         required_min |-> e.required_min, min |-> e.min, max |-> e.max,
         need_update |-> e.need_update, tb_valid |-> e.tb_valid, tb |-> e.tb,
         end_of_sv |-> e.end_of_sv, end_of_ca |-> e.end_of_ca]

LEMMA RegistersHave ==
    ASSUME NEW e \in Registers
    PROVE  HasRegisters(e)
  BY DEF Registers, HasRegisters

LEMMA SourceRegisters ==
    ASSUME NEW i, HasRegisters(pe[i]), NEW e, e = WithSource(i)
    PROVE  /\ HasRegisters(e)
           /\ e.min = pe[i].min /\ e.max = pe[i].max /\ e.need_update = pe[i].need_update
           /\ e.tb_valid = pe[i].tb_valid /\ e.tb = pe[i].tb
           /\ e.end_of_sv = pe[i].end_of_sv /\ e.end_of_ca = pe[i].end_of_ca
           /\ ~TakesSource(i) => e = pe[i]
           /\ TakesSource(i) =>
                 /\ e.sv_ready = TRUE /\ e.src = Head(sv_stream[i]).src
                 /\ e.frp_flag = Head(sv_stream[i]).last
                 /\ e.required_min = Head(sv_stream[i]).src
  <1>1. CASE TakesSource(i)
    <2>1. e = [pe[i] EXCEPT !.sv_ready = TRUE, !.src = Head(sv_stream[i]).src,
                            !.frp_flag = Head(sv_stream[i]).last,
                            !.required_min = Head(sv_stream[i]).src]
      BY <1>1 DEF WithSource
    <2> QED BY <1>1, <2>1 DEF HasRegisters
  <1>2. CASE ~TakesSource(i)
    BY <1>2 DEF WithSource
  <1> QED BY <1>1, <1>2

\* What WithLine makes of registers r.
LineFields(i, r, e) ==
    /\ e.sv_ready = r.sv_ready /\ e.src = r.src /\ e.frp_flag = r.frp_flag
    /\ e.required_min = r.required_min /\ e.end_of_sv = r.end_of_sv
    /\ StoresLine(i) =>
          /\ ~ReadsLine(i)
          /\ e.max = IF r.max < r.tb.addr + 1 THEN r.tb.addr + 1 ELSE r.max
          /\ e.min = IF r.tb.addr = r.required_min THEN r.tb.addr ELSE r.min
          /\ e.tb_valid = FALSE /\ e.need_update = FALSE
          /\ e.tb = r.tb /\ e.end_of_ca = r.end_of_ca
    /\ ~StoresLine(i) =>
          e.max = r.max /\ e.min = r.min /\ e.need_update = r.need_update
    /\ ReadsLine(i) =>
          /\ e.tb = [addr |-> Head(cl_stream[i]).addr, data |-> Head(cl_stream[i]).data]
          /\ e.tb_valid = TRUE
          /\ e.end_of_ca = (r.end_of_ca \/ Head(cl_stream[i]).last)
    /\ ~StoresLine(i) /\ ~ReadsLine(i) =>
          e.tb = r.tb /\ e.tb_valid = r.tb_valid /\ e.end_of_ca = r.end_of_ca

LEMMA LineRegisters ==
    ASSUME NEW i, NEW r, HasRegisters(r), NEW e, e = WithLine(i, r)
    PROVE  HasRegisters(e) /\ LineFields(i, r, e)
  <1>1. StoresLine(i) => ~ReadsLine(i)
    BY DEF StoresLine, ReadsLine
  <1>2. CASE StoresLine(i)
    <2>1. e = [r EXCEPT !.max = IF r.max < r.tb.addr + 1 THEN r.tb.addr + 1 ELSE @,
                        !.min = IF r.tb.addr = r.required_min THEN r.tb.addr ELSE @,
                        !.tb_valid = FALSE, !.need_update = FALSE]
      BY <1>2 DEF WithLine
    <2> QED BY <1>1, <1>2, <2>1 DEF HasRegisters, LineFields
  <1>3. CASE ~StoresLine(i) /\ ReadsLine(i)
    <2>1. e = [r EXCEPT !.tb = [addr |-> Head(cl_stream[i]).addr,
                                data |-> Head(cl_stream[i]).data],
                        !.tb_valid = TRUE,
                        !.end_of_ca = @ \/ Head(cl_stream[i]).last]
      BY <1>3 DEF WithLine
    <2> QED BY <1>3, <2>1 DEF HasRegisters, LineFields
  <1>4. CASE ~StoresLine(i) /\ ~ReadsLine(i)
    BY <1>4 DEF WithLine, LineFields
  <1> QED BY <1>2, <1>3, <1>4

\* What WithServed makes of them.
ServedFields(i, r, e) ==
    /\ e.src = r.src /\ e.frp_flag = r.frp_flag /\ e.required_min = r.required_min
    /\ e.min = r.min /\ e.max = r.max /\ e.need_update = r.need_update
    /\ e.tb_valid = r.tb_valid /\ e.tb = r.tb /\ e.end_of_ca = r.end_of_ca
    /\ ~Serves(i) => e.sv_ready = r.sv_ready /\ e.end_of_sv = r.end_of_sv
    /\ Serves(i) => e.sv_ready = FALSE /\ e.end_of_sv = (r.end_of_sv \/ r.frp_flag)

LEMMA ServedRegisters ==
    ASSUME NEW i, NEW r, HasRegisters(r), NEW e, e = WithServed(i, r)
    PROVE  HasRegisters(e) /\ ServedFields(i, r, e)
  <1>1. CASE Serves(i)
    <2>1. e = [r EXCEPT !.sv_ready = FALSE, !.end_of_sv = @ \/ r.frp_flag]
      BY <1>1 DEF WithServed
    <2> QED BY <1>1, <2>1 DEF HasRegisters, ServedFields
  <1>2. CASE ~Serves(i)
    BY <1>2 DEF WithServed, ServedFields
  <1> QED BY <1>1, <1>2

LEMMA AskRegisters ==
    ASSUME NEW r, HasRegisters(r), NEW e, e = AskLine(r)
    PROVE  /\ HasRegisters(e)
           /\ e.sv_ready = r.sv_ready
           /\ e.src = r.src /\ e.frp_flag = r.frp_flag /\ e.required_min = r.required_min
           /\ e.min = r.min /\ e.max = r.max
           /\ e.tb_valid = r.tb_valid /\ e.tb = r.tb
           /\ e.end_of_sv = r.end_of_sv /\ e.end_of_ca = r.end_of_ca
           /\ e.need_update = (r.need_update \/ r.required_min + CACHE_LINES > r.max)
  <1>1. e = [r EXCEPT !.need_update = @ \/ r.required_min + CACHE_LINES > r.max]
    BY DEF AskLine
  <1> QED BY <1>1 DEF HasRegisters

-----------------------------------------------------------------------------
(* An iteration of an element of which something is left to do in the run. *)

At(i, n) ==
    /\ FeedInv /\ RequestInv /\ PlacesInv /\ ItemsInv(i)
    /\ i \in PE /\ n \in First .. Sent /\ Active(i, n)
    /\ pe[i] \in Registers /\ prop[i] \in [0 .. CACHE_LINES - 1 -> Data]
    /\ cl_stream[i] # <<>> => Head(cl_stream[i]) = LineAt(n) /\ n < Sent

\* The source the element takes next when it has begun the iteration.
Taken(i) == NextItem(i) + (IF TakesSource(i) THEN 1 ELSE 0)

LEMMA TakenItems ==
    ASSUME NEW i, NEW n, At(i, n)
    PROVE  \E m \in Nat, o \in Nat, c \in Nat, p \in Nat :
              /\ m = Items(merge, i) /\ o = Len(out_stream[i])
              /\ c = Items(dispatch, i) /\ p = Len(sv_stream[i])
              /\ (sv_stream[i] = <<>>) <=> (p = 0)
              /\ NextItem(i) = c - p /\ NextItem(i) \in Nat
              /\ NextItem(i) = m + o + (IF pe[i].sv_ready THEN 1 ELSE 0)
  <1>1. FeedInv /\ PlacesInv /\ ItemsInv(i) /\ i \in PE
    BY DEF At
  <1>2. Items(merge, i) \in Nat /\ Items(dispatch, i) \in Nat
    BY <1>1, ItemsType DEF PlacesInv
  <1>3. Len(out_stream[i]) \in Nat /\ Len(sv_stream[i]) \in Nat
        /\ ((sv_stream[i] = <<>>) <=> (Len(sv_stream[i]) = 0))
    BY <1>1, LenSeq DEF ItemsInv
  <1>4. NextItem(i) = Items(merge, i) + Len(out_stream[i]) + (IF pe[i].sv_ready THEN 1 ELSE 0)
    BY <1>1 DEF ItemsInv
  <1>5. NextItem(i) \in Nat
    BY <1>2, <1>3, <1>4
  <1> QED BY <1>2, <1>3, <1>4, <1>5 DEF NextItem

LEMMA CountBehind ==
    ASSUME NEW m \in Nat, NEW o \in Nat, NEW c \in Nat, NEW p \in Nat, NEW k,
           k = c - p, k = m + o + 1
    PROVE  k - 1 = m + o /\ k - 1 \in Nat /\ m <= k - 1 /\ k - 1 < c
  OBVIOUS

LEMMA TakenSource ==
    ASSUME NEW i, NEW n, At(i, n), NEW e, e = WithSource(i), NEW t, t = Taken(i)
    PROVE  /\ t \in Nat
           /\ e.sv_ready \in BOOLEAN /\ e.frp_flag \in BOOLEAN
           /\ e.src \in Line \cup {0} /\ e.required_min \in Line \cup {0}
           /\ e.required_min \in Nat /\ pe[i].required_min \in Nat
           /\ pe[i].required_min <= e.required_min
           /\ Items(merge, i) \in Nat /\ Len(out_stream[i]) \in Nat
           /\ e.sv_ready =>
                 /\ t - 1 \in Nat /\ InRun(t - 1)
                 /\ Items(merge, i) + Len(out_stream[i]) = t - 1
                 /\ Items(merge, i) <= t - 1 /\ t - 1 < Items(dispatch, i)
                 /\ e.src = SourceAt(i, t - 1) /\ e.required_min = e.src
                 /\ e.frp_flag = LastAt(t - 1)
           /\ ~e.sv_ready => Items(merge, i) + Len(out_stream[i]) = t
           /\ \/ e.required_min = 0
              \/ InRun(t - 1) /\ e.required_min = SourceAt(i, t - 1)
  <1>1. FeedInv /\ PlacesInv /\ ItemsInv(i) /\ i \in PE /\ SourceInv(i) /\ pe[i] \in Registers
        /\ source \in Input
    BY FedType DEF At, Active
  <1>2. PICK m \in Nat, o \in Nat, c \in Nat, p \in Nat :
              /\ m = Items(merge, i) /\ o = Len(out_stream[i])
              /\ c = Items(dispatch, i) /\ p = Len(sv_stream[i])
              /\ (sv_stream[i] = <<>>) <=> (p = 0)
              /\ NextItem(i) = c - p /\ NextItem(i) \in Nat
              /\ NextItem(i) = m + o + (IF pe[i].sv_ready THEN 1 ELSE 0)
    BY TakenItems
  <1>3. PICK k \in Nat : k = NextItem(i)
    BY <1>2
  <1>4. Line \subseteq Nat
    BY Constants DEF Line
  <1>5. /\ pe[i].sv_ready \in BOOLEAN /\ pe[i].frp_flag \in BOOLEAN
        /\ pe[i].src \in Line \cup {0} /\ pe[i].required_min \in Line \cup {0}
        /\ pe[i].required_min \in Nat
    <2>1. /\ pe[i].sv_ready \in BOOLEAN /\ pe[i].frp_flag \in BOOLEAN
          /\ pe[i].src \in Line \cup {0} /\ pe[i].required_min \in Line \cup {0}
      BY <1>1 DEF Registers
    <2>2. Line \cup {0} \subseteq Nat
      BY <1>4
    <2>3. pe[i].required_min \in Nat
      BY <2>1, <2>2
    <2> QED BY <2>1, <2>3
  <1>6. \/ pe[i].required_min = 0
        \/ InRun(k - 1) /\ pe[i].required_min = SourceAt(i, k - 1)
    BY <1>1, <1>3 DEF SourceInv
  <1>7. CASE TakesSource(i)
    <2>1. ~pe[i].sv_ready /\ sv_stream[i] # <<>>
      BY <1>7 DEF TakesSource
    <2>2. k = m + o /\ k < c /\ p \in Nat \ {0} /\ t = k + 1 /\ m <= k
      BY <1>2, <1>3, <1>7, <2>1 DEF Taken
    <2>3. Head(sv_stream[i]) = [src |-> SourceAt(i, k), last |-> LastAt(k)]
      <3>1. Head(sv_stream[i]) = sv_stream[i][1]
        BY <1>1, <2>1, SeqTail DEF ItemsInv
      <3>2. 1 \in 1 .. Len(sv_stream[i]) /\ k + (1 - 1) = k
        BY <1>2, <2>2
      <3>3. sv_stream[i][1] = [src |-> SourceAt(i, k + (1 - 1)), last |-> LastAt(k + (1 - 1))]
        BY <1>1, <1>3, <3>2 DEF ItemsInv
      <3> QED BY <3>1, <3>2, <3>3
    <2>4. /\ e.sv_ready = TRUE /\ e.src = SourceAt(i, k) /\ e.frp_flag = LastAt(k)
          /\ e.required_min = SourceAt(i, k)
      <3>1. HasRegisters(pe[i])
        BY <1>1, RegistersHave
      <3>2. /\ e.sv_ready = TRUE /\ e.src = Head(sv_stream[i]).src
            /\ e.frp_flag = Head(sv_stream[i]).last
            /\ e.required_min = Head(sv_stream[i]).src
        BY <1>7, <3>1, SourceRegisters
      <3> QED BY <2>3, <3>2
    <2>5. InRun(k)
      BY <1>1, <1>2, <2>2, ItemInRun
    <2>6. SourceAt(i, k) \in Line /\ SourceAt(i, k) \in Nat
      BY <1>1, <2>5, SourceAtType
    <2>7. pe[i].required_min <= SourceAt(i, k)
      <3>1. CASE pe[i].required_min = 0
        BY <2>6, <3>1
      <3>2. CASE InRun(k - 1) /\ pe[i].required_min = SourceAt(i, k - 1)
        <4>1. (k - 1) \div 2 \in Nat \ {0}
          <5>1. (k - 1) \div 2 \in DOMAIN source
            BY <3>2 DEF InRun
          <5> QED BY <1>1, <5>1, FedType
        <4>2. k # 0
          BY <4>1
        <4>3. k - 1 \in Nat /\ (k - 1) + 1 = k
          BY <4>2
        <4> QED BY <1>1, <2>5, <3>2, <4>3, SourceAtNext
      <3> QED BY <1>6, <3>1, <3>2
    <2>8. LastAt(k) \in BOOLEAN
      BY DEF LastAt
    <2>9. t - 1 = k /\ t \in Nat
      BY <1>3, <2>2
    <2>10. /\ t - 1 \in Nat /\ InRun(t - 1)
           /\ Items(merge, i) + Len(out_stream[i]) = t - 1
           /\ Items(merge, i) <= t - 1 /\ t - 1 < Items(dispatch, i)
           /\ e.src = SourceAt(i, t - 1) /\ e.required_min = SourceAt(i, t - 1)
           /\ e.frp_flag = LastAt(t - 1)
      BY <1>2, <1>3, <2>2, <2>4, <2>5, <2>9
    <2>11. e.src \in Line \cup {0} /\ e.required_min \in Line \cup {0} /\ e.required_min \in Nat
      BY <2>4, <2>6
    <2> QED BY <1>2, <1>5, <2>4, <2>7, <2>8, <2>9, <2>10, <2>11
  <1>8. CASE ~TakesSource(i)
    <2>1. e = pe[i]
      BY <1>1, <1>8, RegistersHave, SourceRegisters
    <2>2. t = k
      BY <1>3, <1>8 DEF Taken
    <2>3. ASSUME pe[i].sv_ready
          PROVE  /\ t - 1 \in Nat /\ InRun(t - 1)
                 /\ Items(merge, i) + Len(out_stream[i]) = t - 1
                 /\ Items(merge, i) <= t - 1 /\ t - 1 < Items(dispatch, i)
      <3>1. t - 1 = m + o /\ t - 1 \in Nat /\ m <= t - 1 /\ t - 1 < c
        <4>1. k = c - p /\ k = m + o + 1
          BY <1>2, <1>3, <2>3
        <4> QED BY <2>2, <4>1, CountBehind
      <3>2. InRun(t - 1)
        BY <1>1, <1>2, <3>1, ItemInRun
      <3> QED BY <1>2, <3>1, <3>2
    <2>4. pe[i].sv_ready =>
              /\ pe[i].src = SourceAt(i, t - 1) /\ pe[i].required_min = pe[i].src
              /\ pe[i].frp_flag = LastAt(t - 1)
      BY <1>1, <1>3, <2>2 DEF SourceInv
    <2>5. ~pe[i].sv_ready => m + o = t
      BY <1>2, <1>3, <2>2
    <2> QED BY <1>2, <1>3, <1>5, <1>6, <2>1, <2>2, <2>3, <2>4, <2>5
  <1> QED BY <1>7, <1>8

LEMMA SameTag ==
    ASSUME NEW c \in Nat \ {0}, NEW a \in Nat, NEW b \in Nat, a < b, a % c = b % c
    PROVE  a + c <= b
  <1>1. PICK x \in Nat, y \in Nat, r \in Nat :
            /\ x = a \div c /\ y = b \div c /\ a = x * c + r /\ b = y * c + r
            /\ x * c \in Nat /\ y * c \in Nat
    <2>1. a % c \in Nat
      BY Division
    <2> QED BY <2>1, Division
  <1>2. ~(y <= x)
    <2>1. y <= x => y * c <= x * c
      BY <1>1, TimesMonotone
    <2>2. ~(y * c <= x * c)
      BY <1>1
    <2> QED BY <2>1, <2>2
  <1>3. x + 1 <= y
    BY <1>1, <1>2
  <1>4. x * c + c <= y * c
    BY <1>1, <1>3, TimesNext
  <1> QED BY <1>1, <1>4

\* The lines an active element has stored are below this one.
Stored(i, n) == IF pe[i].tb_valid THEN n - 1 ELSE n

LEMMA StoredType ==
    ASSUME NEW i, NEW n, At(i, n)
    PROVE  /\ First \in Nat /\ Sent \in Nat /\ n \in Nat /\ n <= Sent
           /\ Stored(i, n) \in Nat /\ First <= Stored(i, n) /\ Stored(i, n) <= n
  <1>1. First \in Nat /\ Sent \in Nat /\ n \in First .. Sent
    BY LineNumbers DEF At
  <1>2. pe[i].tb_valid => n > First
    BY DEF At, Active
  <1> QED BY <1>1, <1>2 DEF Stored

(* The source is within the window: its line was stored, and no line that   *)
(* was stored later took its place.                                        *)
LEMMA ServedLine ==
    ASSUME NEW i, NEW n, At(i, n), Serves(i),
           NEW e, e = WithSource(i), NEW t, t = Taken(i)
    PROVE  Serving(prop[i][Tag(e.src)], SourceAt(i, t - 1))
  <1>1. /\ FeedInv /\ RequestInv /\ i \in PE /\ Active(i, n) /\ source \in Input
        /\ HasRegisters(pe[i])
    BY FedType, RegistersHave DEF At
  <1>2. e.sv_ready /\ e.min <= e.src /\ e.src < e.max /\ e.max = pe[i].max
    BY <1>1, SourceRegisters DEF Serves
  <1>3. /\ t - 1 \in Nat /\ InRun(t - 1) /\ e.src = SourceAt(i, t - 1)
        /\ e.required_min = e.src
        /\ pe[i].required_min <= e.required_min /\ pe[i].required_min \in Nat
    BY <1>2, TakenSource
  <1>4. PICK k \in 1 .. Len(source), l \in Lane, src \in Nat :
            /\ k = (t - 1) \div 2 /\ RunOf(k) = run /\ ~IsEnd(source[k])
            /\ src = source[k][l] /\ src = SourceAt(i, t - 1) /\ src \in Line
    BY <1>1, <1>3, SourceAtType DEF InRun
  <1>5. WindowInv(i, Stored(i, n))
    <2>1. ~pe[i].end_of_sv
      <3>1. ASSUME pe[i].end_of_sv
            PROVE  FALSE
        <4>1. sv_stream[i] = <<>> /\ ~pe[i].sv_ready
          BY <1>1, <3>1 DEF Active, Exhausted
        <4>2. e = pe[i]
          BY <1>1, <4>1, SourceRegisters, ZenonT(40) DEF TakesSource
        <4> QED BY <1>2, <4>1, <4>2
      <3> QED BY <3>1
    <2> QED BY <1>1, <2>1 DEF Active, Stored
  <1>6. PICK s \in Nat, first \in Nat, sent \in Nat :
            s = Stored(i, n) /\ first = First /\ sent = Sent /\ first <= s /\ s <= sent
    BY StoredType
  <1>7. s # first /\ src <= Addr(s - 1) /\ first <= s - 1 /\ s - 1 \in Nat
    <2>1. pe[i].max = IF s = first THEN 0 ELSE Addr(s - 1) + 1
      BY <1>5, <1>6 DEF WindowInv
    <2>2. src < pe[i].max
      BY <1>2, <1>3, <1>4
    <2>3. s # first
      BY <1>4, <2>1, <2>2
    <2>4. s - 1 \in Nat /\ first <= s - 1 /\ s - 1 < sent
      BY <1>6, <2>3
    <2>5. Addr(s - 1) \in Nat
      <3>1. Addr(s - 1) \in 0 .. End + 1
        BY <1>1, <1>6, <2>4, LineType
      <3> QED BY <3>1, Constants
    <2> QED BY <1>4, <2>1, <2>2, <2>3, <2>4, <2>5
  <1>8. PICK q \in First .. s - 1 : Addr(q) = src /\ ~IsDummy(q)
    <2>1. PICK w \in Nat : w = s - 1 /\ First <= w /\ w < Sent
      BY <1>6, <1>7
    <2>2. source[k][l] <= Addr(w)
      BY <1>4, <1>7, <2>1
    <2>3. \E q \in First .. w : Addr(q) = source[k][l] /\ ~IsDummy(q)
      BY <1>1, <1>4, <2>1, <2>2, Covered
    <2> QED BY <1>4, <2>1, <2>3
  <1>9. PICK p \in q .. s - 1 :
            /\ Tag(Addr(p)) = Tag(src) /\ prop[i][Tag(src)] = LineAt(p).data
    BY <1>5, <1>6, <1>8 DEF WindowInv
  <1>10. /\ p \in Nat /\ First <= p /\ p < Sent /\ p <= s - 1 /\ q <= p
         /\ q \in Nat /\ First <= q
    BY <1>6, <1>7, <1>8, <1>9
  <1>11. /\ LineAt(p).data \in Data /\ LineAt(p).data.run = run
         /\ LineAt(p).data.line = Addr(p) \/ (IsDummy(p) /\ First < p)
         /\ Addr(p) \in Nat
    <2>1. Addr(p) \in 0 .. End + 1
      BY <1>1, <1>10, LineType
    <2> QED BY <1>1, <1>10, <2>1, LineType, Constants
  <1>12. ASSUME q < p
         PROVE  Addr(p) # Addr(p - 1) + 1 /\ src < Addr(p)
    <2>1. src < Addr(p)
      BY <1>1, <1>8, <1>10, <1>12, AddrOrder
    <2>2. src + CACHE_LINES <= Addr(p)
      BY <1>4, <1>9, <1>11, <2>1, SameTag, Constants DEF Tag
    <2>3. ASSUME Addr(p) = Addr(p - 1) + 1
          PROVE  FALSE
      <3>1. p \in First + 1 .. s - 1
        BY <1>6, <1>8, <1>10, <1>12
      <3>2. Addr(p) < pe[i].required_min + CACHE_LINES
        BY <1>5, <1>6, <2>3, <3>1 DEF WindowInv
      <3>3. pe[i].required_min <= src
        BY <1>3, <1>4
      <3>4. CACHE_LINES \in Nat
        BY Constants
      <3> QED BY <1>3, <1>4, <1>11, <2>2, <3>2, <3>3, <3>4
    <2> QED BY <2>1, <2>3
  <1>13. ASSUME IsDummy(p) \/ Dense(source)
         PROVE  p = q
    <2>1. ASSUME q < p
          PROVE  FALSE
      <3>1. PICK u \in Nat : u = p - 1 /\ u + 1 = p /\ First <= u /\ u + 1 < Sent
        BY <1>6, <1>8, <1>10, <2>1
      <3>2. Addr(u + 1) = Addr(u) + 1
        BY <1>1, <1>13, <3>1, LineNext
      <3> QED BY <1>12, <2>1, <3>1, <3>2
    <2> QED BY <1>10, <2>1
  <1>14. ~IsDummy(p) /\ LineAt(p).data.line = Addr(p)
    BY <1>8, <1>11, <1>13
  <1>15. Addr(p) >= src
    BY <1>4, <1>8, <1>10, <1>11, <1>12
  <1>16. Dense(source) => Addr(p) = src
    BY <1>8, <1>13
  <1>17. prop[i][Tag(e.src)] = LineAt(p).data
    BY <1>3, <1>4, <1>9
  <1> QED BY <1>4, <1>11, <1>14, <1>15, <1>16, <1>17 DEF Serving

\* The registers of the element before it looks whether the run has ended.
Asked(i) == AskLine(WithServed(i, WithLine(i, WithSource(i))))

AskedFields(i, r, e, a) ==
    /\ a.src = e.src /\ a.frp_flag = e.frp_flag /\ a.required_min = e.required_min
    /\ Serves(i) => a.sv_ready = FALSE /\ a.end_of_sv = (r.end_of_sv \/ e.frp_flag)
    /\ ~Serves(i) => a.sv_ready = e.sv_ready /\ a.end_of_sv = r.end_of_sv
    /\ StoresLine(i) =>
          /\ ~ReadsLine(i)
          /\ a.max = IF r.max < r.tb.addr + 1 THEN r.tb.addr + 1 ELSE r.max
          /\ a.min = IF r.tb.addr = e.required_min THEN r.tb.addr ELSE r.min
          /\ a.tb_valid = FALSE /\ a.tb = r.tb /\ a.end_of_ca = r.end_of_ca
          /\ a.need_update = (FALSE \/ e.required_min + CACHE_LINES > a.max)
    /\ ~StoresLine(i) =>
          /\ a.max = r.max /\ a.min = r.min
          /\ a.need_update = (r.need_update \/ e.required_min + CACHE_LINES > a.max)
    /\ ReadsLine(i) =>
          /\ a.tb = [addr |-> Head(cl_stream[i]).addr, data |-> Head(cl_stream[i]).data]
          /\ a.tb_valid = TRUE
          /\ a.end_of_ca = (r.end_of_ca \/ Head(cl_stream[i]).last)
    /\ ~StoresLine(i) /\ ~ReadsLine(i) =>
          a.tb = r.tb /\ a.tb_valid = r.tb_valid /\ a.end_of_ca = r.end_of_ca

LEMMA PartsRegisters ==
    ASSUME NEW i, NEW r, r = pe[i], HasRegisters(pe[i]),
           NEW e, e = WithSource(i), NEW l, l = WithLine(i, e),
           NEW v, v = WithServed(i, l), NEW a, a = AskLine(v)
    PROVE  HasRegisters(a) /\ AskedFields(i, r, e, a)
  <1>10. HasRegisters(e)
    BY SourceRegisters
  <1>20. HasRegisters(l)
    BY <1>10, LineRegisters
  <1>30. HasRegisters(v)
    BY <1>20, ServedRegisters
  <1>40. HasRegisters(a)
    BY <1>30, AskRegisters
  <1>1. /\ e.min = pe[i].min /\ e.max = pe[i].max /\ e.need_update = pe[i].need_update
        /\ e.tb_valid = pe[i].tb_valid /\ e.tb = pe[i].tb
        /\ e.end_of_sv = pe[i].end_of_sv /\ e.end_of_ca = pe[i].end_of_ca
    BY SourceRegisters, ZenonT(40)
  <1>2. LineFields(i, e, l)
    BY <1>10, LineRegisters
  <1>3. ServedFields(i, l, v)
    BY <1>20, ServedRegisters
  <1>4. /\ a.sv_ready = v.sv_ready
        /\ a.src = v.src /\ a.frp_flag = v.frp_flag /\ a.required_min = v.required_min
        /\ a.min = v.min /\ a.max = v.max
        /\ a.tb_valid = v.tb_valid /\ a.tb = v.tb
        /\ a.end_of_sv = v.end_of_sv /\ a.end_of_ca = v.end_of_ca
        /\ a.need_update = (v.need_update \/ v.required_min + CACHE_LINES > v.max)
    BY <1>30, AskRegisters
  <1>5. /\ a.src = e.src /\ a.frp_flag = e.frp_flag /\ a.required_min = e.required_min
        /\ Serves(i) => a.sv_ready = FALSE /\ a.end_of_sv = (r.end_of_sv \/ e.frp_flag)
        /\ ~Serves(i) => a.sv_ready = e.sv_ready /\ a.end_of_sv = r.end_of_sv
    BY <1>1, <1>2, <1>3, <1>4 DEF LineFields, ServedFields
  <1>6. StoresLine(i) =>
              /\ ~ReadsLine(i)
              /\ a.max = IF r.max < r.tb.addr + 1 THEN r.tb.addr + 1 ELSE r.max
              /\ a.min = IF r.tb.addr = e.required_min THEN r.tb.addr ELSE r.min
              /\ a.tb_valid = FALSE /\ a.tb = r.tb /\ a.end_of_ca = r.end_of_ca
              /\ a.need_update = (FALSE \/ e.required_min + CACHE_LINES > a.max)
    BY <1>1, <1>2, <1>3, <1>4 DEF LineFields, ServedFields
  <1>7. ~StoresLine(i) =>
              /\ a.max = r.max /\ a.min = r.min
              /\ a.need_update = (r.need_update \/ e.required_min + CACHE_LINES > a.max)
    BY <1>1, <1>2, <1>3, <1>4 DEF LineFields, ServedFields
  <1>8. ReadsLine(i) =>
              /\ a.tb = [addr |-> Head(cl_stream[i]).addr, data |-> Head(cl_stream[i]).data]
              /\ a.tb_valid = TRUE
              /\ a.end_of_ca = (r.end_of_ca \/ Head(cl_stream[i]).last)
    BY <1>1, <1>2, <1>3, <1>4 DEF LineFields, ServedFields
  <1>9. ~StoresLine(i) /\ ~ReadsLine(i) =>
              a.tb = r.tb /\ a.tb_valid = r.tb_valid /\ a.end_of_ca = r.end_of_ca
    BY <1>1, <1>2, <1>3, <1>4 DEF LineFields, ServedFields
  <1> QED BY <1>40, <1>5, <1>6, <1>7, <1>8, <1>9 DEF AskedFields

LEMMA AskedRegisters ==
    ASSUME NEW i, HasRegisters(pe[i])
    PROVE  HasRegisters(Asked(i)) /\ AskedFields(i, pe[i], WithSource(i), Asked(i))
  BY PartsRegisters DEF Asked

\* The line the element takes is the next one of the run.
LEMMA LineRead ==
    ASSUME NEW i, NEW n, At(i, n), ReadsLine(i)
    PROVE  /\ n \in Nat /\ n < Sent /\ n < Stop /\ First <= n
           /\ Head(cl_stream[i]) = LineAt(n)
           /\ LineAt(n).addr = Addr(n) /\ Addr(n) \in 0 .. End + 1
           /\ LineAt(n).data \in Data
           /\ LineAt(n).last \in BOOLEAN /\ (LineAt(n).last <=> n = Stop - 1)
  <1>1. FeedInv /\ RequestInv /\ Head(cl_stream[i]) = LineAt(n) /\ n < Sent /\ n \in First .. Sent
    BY DEF At, ReadsLine
  <1>2. First \in Nat /\ Sent \in Nat /\ Stop \in Nat /\ Sent <= Stop
    BY <1>1, LineNumbers
  <1>3. n \in Nat /\ First <= n /\ n < Stop
    BY <1>1, <1>2
  <1>4. /\ Addr(n) \in 0 .. End + 1 /\ LineAt(n).data \in Data
        /\ LineAt(n).last \in BOOLEAN /\ (LineAt(n).last <=> n = Stop - 1)
    BY <1>1, <1>3, LineType
  <1> QED BY <1>1, <1>3, <1>4 DEF Addr

\* What an iteration does to the registers, the streams and the window of element i.
ElementStep(i) ==
    /\ pe'[i] = EndRun(Asked(i))
    /\ sv_stream'[i] = IF TakesSource(i) THEN Tail(sv_stream[i]) ELSE sv_stream[i]
    /\ out_stream'[i] = IF Serves(i)
                        THEN Append(out_stream[i], prop[i][Tag(WithSource(i).src)])
                        ELSE out_stream[i]
    /\ prop'[i] = IF StoresLine(i)
                  THEN [prop[i] EXCEPT ![Tag(pe[i].tb.addr)] = pe[i].tb.data]
                  ELSE prop[i]
    /\ Serves(i) => Room(out_stream[i])
    /\ UNCHANGED <<source, input, run, fed, fed2, cmd, taken, inner_idx, dispatch, merge, pkg>>

LEMMA ElementSteps ==
    ASSUME ElementTypes, NEW i \in PE, SrcCachePe(i)
    PROVE  /\ ElementStep(i)
           /\ \A j \in PE : j # i => /\ pe'[j] = pe[j] /\ sv_stream'[j] = sv_stream[j]
                                     /\ out_stream'[j] = out_stream[j] /\ prop'[j] = prop[j]
           /\ pe' = [j \in PE |-> pe'[j]] /\ prop' = [j \in PE |-> prop'[j]]
           /\ sv_stream' = [j \in PE |-> sv_stream'[j]]
           /\ out_stream' = [j \in PE |-> out_stream'[j]]
  <1>1. /\ pe = [j \in PE |-> pe[j]] /\ prop = [j \in PE |-> prop[j]]
        /\ sv_stream = [j \in PE |-> sv_stream[j]]
        /\ out_stream = [j \in PE |-> out_stream[j]]
    BY DEF ElementTypes
  <1>2. pe' = [pe EXCEPT ![i] = EndRun(Asked(i))]
    BY DEF SrcCachePe, After, Asked
  <1>3. sv_stream' = IF TakesSource(i)
                     THEN [sv_stream EXCEPT ![i] = Tail(sv_stream[i])] ELSE sv_stream
    BY DEF SrcCachePe
  <1>4. out_stream' =
          IF Serves(i)
          THEN [out_stream EXCEPT ![i] = Append(out_stream[i], prop[i][Tag(WithSource(i).src)])]
          ELSE out_stream
    BY DEF SrcCachePe
  <1>5. prop' = IF StoresLine(i)
                THEN [prop EXCEPT ![i] = [prop[i] EXCEPT ![Tag(pe[i].tb.addr)] = pe[i].tb.data]]
                ELSE prop
    BY DEF SrcCachePe
  <1>6. pe'[i] = EndRun(Asked(i)) /\ (\A j \in PE : j # i => pe'[j] = pe[j])
        /\ pe' = [j \in PE |-> pe'[j]]
    BY <1>1, <1>2
  <1>7. /\ sv_stream'[i] = IF TakesSource(i) THEN Tail(sv_stream[i]) ELSE sv_stream[i]
        /\ \A j \in PE : j # i => sv_stream'[j] = sv_stream[j]
        /\ sv_stream' = [j \in PE |-> sv_stream'[j]]
    BY <1>1, <1>3
  <1>8. /\ out_stream'[i] = IF Serves(i)
                            THEN Append(out_stream[i], prop[i][Tag(WithSource(i).src)])
                            ELSE out_stream[i]
        /\ \A j \in PE : j # i => out_stream'[j] = out_stream[j]
        /\ out_stream' = [j \in PE |-> out_stream'[j]]
    BY <1>1, <1>4
  <1>9. /\ prop'[i] = IF StoresLine(i)
                      THEN [prop[i] EXCEPT ![Tag(pe[i].tb.addr)] = pe[i].tb.data]
                      ELSE prop[i]
        /\ \A j \in PE : j # i => prop'[j] = prop[j]
        /\ prop' = [j \in PE |-> prop'[j]]
    BY <1>1, <1>5
  <1>10. /\ UNCHANGED <<source, input, run, fed, fed2, cmd, taken, inner_idx, dispatch, merge, pkg>>
         /\ Serves(i) => Room(out_stream[i])
    BY DEF SrcCachePe, feedVars, requestVars, engineVars, mergeVars
  <1> QED BY <1>6, <1>7, <1>8, <1>9, <1>10 DEF ElementStep

LEMMA Behind ==
    ASSUME NEW p \in Nat, NEW k \in Nat, NEW j \in 1 .. p - 1
    PROVE  j + 1 \in 1 .. p /\ k + ((j + 1) - 1) = (k + 1) + (j - 1)
  OBVIOUS

LEMMA SourcesAfter ==
    ASSUME NEW i, NEW n, At(i, n), ElementStep(i), NEW t, t = Taken(i)
    PROVE  /\ IsSeq(sv_stream'[i]) /\ Len(sv_stream'[i]) \in Nat
           /\ Len(sv_stream'[i]) <= Len(sv_stream[i])
           /\ t \in Nat /\ t = Items(dispatch, i) - Len(sv_stream'[i])
           /\ Items(dispatch, i) \in Nat
           /\ NextItem(i)' = t
           /\ \A j \in 1 .. Len(sv_stream'[i]) :
                 sv_stream'[i][j] = [src |-> SourceAt(i, t + (j - 1)), last |-> LastAt(t + (j - 1))]
  <1>1. IsSeq(sv_stream[i]) /\ ItemsInv(i)
    BY DEF At, ItemsInv
  <1>2. PICK c \in Nat, p \in Nat, k \in Nat :
            /\ c = Items(dispatch, i) /\ p = Len(sv_stream[i])
            /\ (sv_stream[i] = <<>>) <=> (p = 0)
            /\ k = NextItem(i) /\ k = c - p
    BY TakenItems
  <1>3. Items(dispatch, i)' = Items(dispatch, i)
    BY DEF ElementStep, Items, RunOf
  <1>4. \A j \in 1 .. p :
            sv_stream[i][j] = [src |-> SourceAt(i, k + (j - 1)), last |-> LastAt(k + (j - 1))]
    BY <1>1, <1>2 DEF ItemsInv
  <1>5. CASE TakesSource(i)
    <2>1. /\ sv_stream'[i] = Tail(sv_stream[i]) /\ sv_stream[i] # <<>> /\ t = k + 1
      BY <1>2, <1>5 DEF ElementStep, TakesSource, Taken
    <2>2. /\ IsSeq(sv_stream'[i]) /\ Len(sv_stream'[i]) = p - 1
          /\ \A j \in 1 .. Len(sv_stream'[i]) : sv_stream'[i][j] = sv_stream[i][j + 1]
      BY <1>1, <1>2, <2>1, SeqTail
    <2>3. ASSUME NEW j \in 1 .. Len(sv_stream'[i])
          PROVE  sv_stream'[i][j] = [src |-> SourceAt(i, t + (j - 1)),
                                     last |-> LastAt(t + (j - 1))]
      <3>0. j \in 1 .. p - 1
        BY <2>2
      <3>1. j + 1 \in 1 .. p /\ k + ((j + 1) - 1) = t + (j - 1)
        <4>1. p \in Nat /\ k \in Nat /\ t = k + 1
          BY <1>2, <2>1
        <4> QED BY <3>0, <4>1, Behind
      <3>2. sv_stream[i][j + 1] = [src |-> SourceAt(i, k + ((j + 1) - 1)),
                                   last |-> LastAt(k + ((j + 1) - 1))]
        BY <1>4, <3>1
      <3> QED BY <2>2, <3>1, <3>2
    <2>4. p - 1 \in Nat /\ t = c - (p - 1) /\ p - 1 <= p /\ t \in Nat
      BY <1>2, <2>1, SMTT(30)
    <2>5. NextItem(i)' = t
      BY <1>2, <1>3, <2>2, <2>4 DEF NextItem
    <2> QED BY <1>2, <2>2, <2>3, <2>4, <2>5
  <1>6. CASE ~TakesSource(i)
    <2>1. sv_stream'[i] = sv_stream[i] /\ t = k
      BY <1>2, <1>6 DEF ElementStep, Taken
    <2>2. NextItem(i)' = t
      BY <1>2, <1>3, <2>1 DEF NextItem
    <2> QED BY <1>1, <1>2, <1>4, <2>1, <2>2
  <1> QED BY <1>5, <1>6

\* An element that has come to its last source has none left.
LEMMA EndOfSources ==
    ASSUME NEW i, NEW n, At(i, n), ElementStep(i), NEW t, t = Taken(i),
           NEW a, a = Asked(i), a.end_of_sv
    PROVE  ~a.sv_ready /\ sv_stream'[i] = <<>> /\ LastAt(t - 1)
  <1>1. /\ FeedInv /\ PlacesInv /\ i \in PE /\ Active(i, n) /\ HasRegisters(pe[i])
    BY RegistersHave DEF At
  <1> DEFINE e == WithSource(i)
  <1>2. AskedFields(i, pe[i], e, a)
    BY <1>1, AskedRegisters
  <1>3. CASE pe[i].end_of_sv
    <2>1. sv_stream[i] = <<>> /\ ~pe[i].sv_ready /\ LastAt(NextItem(i) - 1)
      BY <1>1, <1>3 DEF Active, Exhausted
    <2>2. ~TakesSource(i)
      BY <2>1 DEF TakesSource
    <2>3. e = pe[i]
      BY <1>1, <2>2, SourceRegisters
    <2>4. ~Serves(i)
      BY <2>1, <2>3 DEF Serves
    <2>5. a.sv_ready = e.sv_ready
      BY <1>2, <2>4 DEF AskedFields
    <2>6. t = NextItem(i) + 0 /\ NextItem(i) \in Nat
      BY <2>2, TakenItems DEF Taken
    <2> QED BY <2>1, <2>2, <2>3, <2>5, <2>6 DEF ElementStep
  <1>4. CASE ~pe[i].end_of_sv
    <2>1. Serves(i)
      BY <1>2, <1>4 DEF AskedFields
    <2>2. a.sv_ready = FALSE /\ a.end_of_sv = (pe[i].end_of_sv \/ e.frp_flag)
      BY <1>2, <2>1 DEF AskedFields
    <2>3. e.sv_ready /\ e.frp_flag
      BY <1>4, <2>1, <2>2 DEF Serves
    <2> HIDE DEF e
    <2>4. e = WithSource(i)
      BY DEF e
    <2>5. /\ t - 1 \in Nat /\ Items(merge, i) <= t - 1 /\ t - 1 < Items(dispatch, i)
          /\ LastAt(t - 1)
      BY <2>3, <2>4, TakenSource
    <2>6. Items(dispatch, i) = (t - 1) + 1
      BY <1>1, <2>5, LastItem
    <2>7. /\ IsSeq(sv_stream'[i]) /\ Len(sv_stream'[i]) \in Nat
          /\ t = Items(dispatch, i) - Len(sv_stream'[i]) /\ t \in Nat /\ Items(dispatch, i) \in Nat
      BY SourcesAfter
    <2>8. Len(sv_stream'[i]) = 0
      BY <2>6, <2>7
    <2>9. sv_stream'[i] = <<>>
      BY <2>7, <2>8, LenSeq
    <2> QED BY <2>2, <2>5, <2>9
  <1> QED BY <1>3, <1>4

\* The properties of an element, and the sources left for it, after its step.
LEMMA ItemsAfter ==
    ASSUME NEW i, NEW n, At(i, n), ElementStep(i), Len(out_stream[i]) <= StreamDepth,
           pe'[i].sv_ready = Asked(i).sv_ready
    PROVE  ItemsInv(i)' /\ Len(out_stream'[i]) <= StreamDepth
  <1> DEFINE e == WithSource(i)
  <1> DEFINE t == Taken(i)
  <1>1. /\ FeedInv /\ ItemsInv(i) /\ HasRegisters(pe[i]) /\ SameStream /\ run' = run
        /\ UNCHANGED <<dispatch, merge>>
    BY RegistersHave DEF At, ElementStep, SameStream
  <1>2. AskedFields(i, pe[i], e, Asked(i))
    BY <1>1, AskedRegisters
  <1>3. /\ Items(merge, i)' = Items(merge, i)
        /\ \A k : LastAt(k)' = LastAt(k)
        /\ \A k : SourceAt(i, k)' = SourceAt(i, k)
        /\ \A d, line : Serving(d, line)' = Serving(d, line)
    BY <1>1, ItemsSame
  <1>4. /\ IsSeq(sv_stream'[i]) /\ NextItem(i)' = t /\ t \in Nat
        /\ \A j \in 1 .. Len(sv_stream'[i]) :
              sv_stream'[i][j] = [src |-> SourceAt(i, t + (j - 1)), last |-> LastAt(t + (j - 1))]
    BY SourcesAfter
  <1>4a. t \in Nat
    BY <1>4
  <1>5. IsSeq(out_stream[i])
    BY <1>1 DEF ItemsInv
  <1>6. /\ Items(merge, i) \in Nat /\ Len(out_stream[i]) \in Nat /\ e.sv_ready \in BOOLEAN
        /\ e.sv_ready => Items(merge, i) + Len(out_stream[i]) = t - 1
        /\ ~e.sv_ready => Items(merge, i) + Len(out_stream[i]) = t
    BY TakenSource
  <1>7. /\ IsSeq(out_stream'[i]) /\ Len(out_stream'[i]) <= StreamDepth
        /\ Items(merge, i) + Len(out_stream'[i]) + (IF pe'[i].sv_ready THEN 1 ELSE 0) = t
        /\ \A j \in 1 .. Len(out_stream'[i]) :
              Serving(out_stream'[i][j], SourceAt(i, Items(merge, i) + (j - 1)))
    <2>1. \A j \in 1 .. Len(out_stream[i]) :
              Serving(out_stream[i][j], SourceAt(i, Items(merge, i) + (j - 1)))
      BY <1>1 DEF ItemsInv
    <2>2. CASE Serves(i)
      <3> DEFINE d == prop[i][Tag(e.src)]
      <3>1. e.sv_ready /\ pe'[i].sv_ready = FALSE
        BY <1>2, <2>2 DEF Serves, AskedFields
      <3>2. out_stream'[i] = Append(out_stream[i], d) /\ Room(out_stream[i])
        BY <2>2 DEF ElementStep
      <3>3. Serving(d, SourceAt(i, t - 1))
        BY <2>2, ServedLine
      <3> HIDE DEF d, e, t
      <3>4. /\ IsSeq(out_stream'[i]) /\ Len(out_stream'[i]) = Len(out_stream[i]) + 1
            /\ \A j \in 1 .. Len(out_stream[i]) : out_stream'[i][j] = out_stream[i][j]
            /\ out_stream'[i][Len(out_stream[i]) + 1] = d
        BY <1>5, <3>2, SeqAppend
      <3>5. PICK m \in Nat, o \in Nat : m = Items(merge, i) /\ o = Len(out_stream[i]) /\ m + o = t - 1
        BY <1>6, <3>1
      <3>6. ASSUME NEW j \in 1 .. Len(out_stream'[i])
            PROVE  Serving(out_stream'[i][j], SourceAt(i, m + (j - 1)))
        <4>1. j \in 1 .. o \/ j = o + 1
          BY <3>4, <3>5
        <4>2. CASE j \in 1 .. o
          BY <2>1, <3>4, <3>5, <4>2
        <4>3. CASE j = o + 1
          <5>1. m + (j - 1) = t - 1
            BY <3>5, <4>3
          <5> QED BY <3>3, <3>4, <3>5, <4>3, <5>1
        <4> QED BY <4>1, <4>2, <4>3
      <3>7. m + (o + 1) + 0 = t
        BY <1>4a, <3>5, SMTT(30)
      <3>8. o + 1 <= StreamDepth
        BY <3>2, <3>5, Constants DEF Room
      <3> QED BY <3>1, <3>4, <3>5, <3>6, <3>7, <3>8
    <2>3. CASE ~Serves(i)
      <3>1. pe'[i].sv_ready = e.sv_ready /\ out_stream'[i] = out_stream[i]
        BY <1>2, <2>3 DEF AskedFields, ElementStep
      <3> HIDE DEF e, t
      <3>2. PICK m \in Nat, o \in Nat :
                /\ m = Items(merge, i) /\ o = Len(out_stream[i])
                /\ e.sv_ready => m + o = t - 1
                /\ ~e.sv_ready => m + o = t
        BY <1>6
      <3>3. m + o + (IF e.sv_ready THEN 1 ELSE 0) = t
        <4>1. CASE e.sv_ready
          BY <1>4a, <3>2, <4>1
        <4>2. CASE ~e.sv_ready
          BY <1>4a, <3>2, <4>2
        <4> QED BY <4>1, <4>2
      <3> QED BY <1>5, <2>1, <3>1, <3>2, <3>3
    <2> QED BY <2>2, <2>3
  <1> HIDE DEF t
  <1>8. \A j \in 1 .. Len(out_stream'[i]) :
            Serving(out_stream[i][j], SourceAt(i, Items(merge, i) + (j - 1)))'
    BY <1>3, <1>7
  <1> QED BY <1>3, <1>4, <1>7, <1>8 DEF ItemsInv

\* What an element has after its step, as far as only its lines are concerned.
LEMMA LinesAfter ==
    ASSUME NEW i, NEW n, ElementStep(i)
    PROVE  /\ SameStream /\ run' = run /\ First' = First /\ Sent' = Sent /\ Stop' = Stop
           /\ \A q : LineAt(q)' = LineAt(q) /\ Addr(q)' = Addr(q)
  <1>1. /\ SameStream /\ run' = run /\ cmd' = cmd /\ taken' = taken /\ inner_idx' = inner_idx
    BY DEF ElementStep, SameStream
  <1>2. \A q : LineAt(q)' = LineAt(q)
    BY <1>1, LinesSame
  <1>3. \A q : Addr(q)' = Addr(q)
    BY <1>2 DEF Addr
  <1>4. \A r : Upto(r)' = Upto(r)
    BY <1>1, SameStreamFacts
  <1> QED BY <1>1, <1>2, <1>3, <1>4 DEF First, Stop, Sent

\* The number below which the element has stored the lines, after its step.
LEMMA StoredAfter ==
    ASSUME NEW i, NEW n, At(i, n), NEW a, a = Asked(i), ~a.end_of_sv,
           NEW m, m = IF ReadsLine(i) THEN n + 1 ELSE n,
           NEW s, s = IF a.tb_valid THEN m - 1 ELSE m
    PROVE  /\ ~pe[i].end_of_sv
           /\ WindowInv(i, Stored(i, n))
           /\ StoresLine(i) => s = n /\ Stored(i, n) = n - 1 /\ First < n /\ pe[i].tb_valid
           /\ ~StoresLine(i) => s = Stored(i, n)
  <1>1. Active(i, n) /\ HasRegisters(pe[i]) /\ pe[i] \in Registers
    BY RegistersHave DEF At
  <1>2. AskedFields(i, pe[i], WithSource(i), a)
    BY <1>1, AskedRegisters
  <1>3. ~pe[i].end_of_sv
    BY <1>2 DEF AskedFields
  <1>4. pe[i].tb_valid \in BOOLEAN
    BY <1>1 DEF Registers
  <1>5. n \in Nat
    BY StoredType
  <1>6. WindowInv(i, Stored(i, n))
    BY <1>1, <1>3 DEF Active, Stored
  <1>7. CASE StoresLine(i)
    <2>1. pe[i].tb_valid /\ ~ReadsLine(i) /\ a.tb_valid = FALSE
      BY <1>2, <1>7 DEF AskedFields, StoresLine
    <2>2. First < n
      BY <1>1, <2>1 DEF Active
    <2> QED BY <1>3, <1>6, <1>7, <2>1, <2>2 DEF Stored
  <1>8. CASE ~StoresLine(i) /\ ReadsLine(i)
    <2>1. ~pe[i].tb_valid /\ a.tb_valid = TRUE
      BY <1>2, <1>3, <1>8 DEF AskedFields, ReadsLine
    <2>2. s = (n + 1) - 1
      BY <1>8, <2>1
    <2>3. s = n
      BY <1>5, <2>2
    <2> QED BY <1>3, <1>6, <1>8, <2>1, <2>3 DEF Stored
  <1>9. CASE ~StoresLine(i) /\ ~ReadsLine(i)
    <2>1. a.tb_valid = pe[i].tb_valid
      BY <1>2, <1>9 DEF AskedFields
    <2> QED BY <1>3, <1>6, <1>9, <2>1 DEF Stored
  <1> QED BY <1>7, <1>8, <1>9

LEMMA WindowAfter ==
    ASSUME NEW i, NEW n, At(i, n), ElementStep(i),
           NEW a, a = Asked(i), ~a.end_of_sv, pe'[i] = a,
           NEW m, m = IF ReadsLine(i) THEN n + 1 ELSE n,
           NEW s, s = IF a.tb_valid THEN m - 1 ELSE m
    PROVE  WindowInv(i, s)'
  <1> DEFINE e == WithSource(i)
  <1> DEFINE r == pe[i]
  <1> DEFINE s0 == Stored(i, n)
  <1>1. /\ FeedInv /\ RequestInv /\ Active(i, n) /\ HasRegisters(r) /\ r \in Registers
        /\ prop[i] \in [0 .. CACHE_LINES - 1 -> Data]
    BY RegistersHave DEF At
  <1>2. AskedFields(i, r, e, a)
    BY <1>1, AskedRegisters
  <1>3. /\ First' = First
        /\ \A q : LineAt(q)' = LineAt(q) /\ Addr(q)' = Addr(q)
    BY LinesAfter
  <1>4. /\ WindowInv(i, s0)
        /\ StoresLine(i) => s = n /\ s0 = n - 1 /\ First < n /\ r.tb_valid
        /\ ~StoresLine(i) => s = s0
    BY StoredAfter
  <1>5. First \in Nat /\ Sent \in Nat /\ n \in Nat /\ n <= Sent /\ s0 \in Nat
        /\ First <= s0 /\ s0 <= n
    BY StoredType
  <1>6. /\ a.required_min = e.required_min /\ e.required_min \in Nat /\ r.required_min \in Nat
        /\ r.required_min <= e.required_min
    BY <1>2, TakenSource DEF AskedFields
  <1>7. r.max \in Nat /\ CACHE_LINES \in Nat \ {0}
    <2>1. r.max \in 0 .. End + 2
      BY <1>1 DEF Registers
    <2> QED BY <2>1, Constants
  <1>8. \A q \in First .. n - 1 : q \in Nat /\ Addr(q) \in Nat /\ Tag(Addr(q)) \in 0 .. CACHE_LINES - 1
    <2> SUFFICES ASSUME NEW q \in First .. n - 1
                 PROVE  q \in Nat /\ Addr(q) \in Nat /\ Tag(Addr(q)) \in 0 .. CACHE_LINES - 1
      OBVIOUS
    <2>1. q \in Nat /\ First <= q /\ q < Sent
      BY <1>5
    <2>2. Addr(q) \in Nat
      BY <1>1, <2>1, LineType, Constants
    <2> QED BY <1>7, <2>1, <2>2, Division DEF Tag
  <1> HIDE DEF e, r, s0
  <1>9. SUFFICES
            /\ a.max = IF s = First THEN 0 ELSE Addr(s - 1) + 1
            /\ a.need_update => a.max < a.required_min + CACHE_LINES
            /\ \A q \in First + 1 .. s - 1 :
                  Addr(q) = Addr(q - 1) + 1 => Addr(q) < a.required_min + CACHE_LINES
            /\ \A q \in First .. s - 1 :
                  \E p \in q .. s - 1 :
                      /\ Tag(Addr(p)) = Tag(Addr(q))
                      /\ prop'[i][Tag(Addr(q))] = LineAt(p).data
    BY <1>3 DEF WindowInv, Tag
  <1>10. /\ r.max = IF s0 = First THEN 0 ELSE Addr(s0 - 1) + 1
         /\ r.need_update => r.max < r.required_min + CACHE_LINES
         /\ \A q \in First + 1 .. s0 - 1 :
               Addr(q) = Addr(q - 1) + 1 => Addr(q) < r.required_min + CACHE_LINES
         /\ \A q \in First .. s0 - 1 :
               \E p \in q .. s0 - 1 :
                   /\ Tag(Addr(p)) = Tag(Addr(q))
                   /\ prop[i][Tag(Addr(q))] = LineAt(p).data
    BY <1>4 DEF WindowInv, r
  <1>11. \A x \in Nat : x < r.required_min + CACHE_LINES => x < a.required_min + CACHE_LINES
    BY <1>6, <1>7
  <1>12. ASSUME NEW q \in First + 1 .. s0 - 1, Addr(q) = Addr(q - 1) + 1
         PROVE  Addr(q) < a.required_min + CACHE_LINES
    <2>1. q \in First .. n - 1
      BY <1>5
    <2>2. Addr(q) \in Nat /\ Addr(q) < r.required_min + CACHE_LINES
      BY <1>8, <1>10, <1>12, <2>1
    <2> QED BY <1>11, <2>2
  <1>13. CASE ~StoresLine(i)
    <2>1. /\ s = s0 /\ a.max = r.max /\ prop'[i] = prop[i]
          /\ a.need_update => r.need_update \/ e.required_min + CACHE_LINES > a.max
      BY <1>2, <1>4, <1>13 DEF AskedFields, ElementStep
    <2>2. a.need_update => a.max < a.required_min + CACHE_LINES
      <3>1. CASE r.need_update
        BY <1>7, <1>10, <1>11, <2>1, <3>1
      <3>2. CASE e.required_min + CACHE_LINES > a.max
        BY <1>6, <1>7, <2>1, <3>2
      <3> QED BY <2>1, <3>1, <3>2
    <2> QED BY <1>10, <1>12, <2>1, <2>2
  <1>14. CASE StoresLine(i)
    <2>1. s = n /\ s0 = n - 1 /\ First < n /\ r.tb_valid
      BY <1>4, <1>14
    <2>2. PICK l \in First .. n - 1 : l = n - 1 /\ l = s0 /\ l + 1 = n
      BY <1>5, <2>1
    <2>3. r.tb = [addr |-> Addr(l), data |-> LineAt(l).data]
      BY <1>1, <2>1, <2>2 DEF Active, r
    <2>4. Addr(l) \in Nat /\ l \in Nat /\ Tag(Addr(l)) \in 0 .. CACHE_LINES - 1
      BY <1>8
    <2>5. r.max <= Addr(l)
      <3>1. CASE l = First
        BY <1>10, <2>2, <2>4, <3>1
      <3>2. CASE l # First
        <4>1. l - 1 \in First .. n - 1 /\ l - 1 < l /\ l < Sent
          BY <1>5, <2>2, <3>2
        <4>2. Addr(l - 1) < Addr(l) /\ Addr(l - 1) \in Nat
          BY <1>1, <1>8, <2>4, <4>1, AddrOrder
        <4>3. r.max = Addr(l - 1) + 1
          BY <1>10, <2>2, <3>2
        <4> QED BY <2>4, <4>2, <4>3
      <3> QED BY <3>1, <3>2
    <2>6. a.max = Addr(l) + 1
      <3>1. a.max = IF r.max < Addr(l) + 1 THEN Addr(l) + 1 ELSE r.max
        BY <1>2, <1>14, <2>3 DEF AskedFields
      <3> QED BY <1>7, <2>4, <2>5, <3>1
    <2>7. a.max = IF s = First THEN 0 ELSE Addr(s - 1) + 1
      <3>1. s # First /\ s - 1 = l
        BY <1>5, <2>1, <2>2
      <3> QED BY <2>6, <3>1
    <2>8. a.need_update => a.max < a.required_min + CACHE_LINES
      <3>1. a.need_update => e.required_min + CACHE_LINES > a.max
        BY <1>2, <1>14 DEF AskedFields
      <3> QED BY <1>6, <1>7, <2>4, <2>6, <3>1
    <2>9. ASSUME NEW q \in First + 1 .. s - 1, Addr(q) = Addr(q - 1) + 1
          PROVE  Addr(q) < a.required_min + CACHE_LINES
      <3>1. q \in First + 1 .. s0 - 1 \/ (q = l /\ l # First)
        BY <1>5, <2>1, <2>2
      <3>2. CASE q = l /\ l # First
        <4>1. r.need_update
          BY <1>14 DEF StoresLine, r
        <4>2. r.max = Addr(l)
          BY <1>10, <2>2, <2>9, <3>2
        <4>3. Addr(l) < r.required_min + CACHE_LINES
          BY <1>10, <4>1, <4>2
        <4> QED BY <1>11, <2>4, <3>2, <4>3
      <3> QED BY <1>12, <2>9, <3>1, <3>2
    <2>10. ASSUME NEW q \in First .. s - 1
           PROVE  \E p \in q .. s - 1 :
                      /\ Tag(Addr(p)) = Tag(Addr(q))
                      /\ prop'[i][Tag(Addr(q))] = LineAt(p).data
      <3>1. prop'[i] = [prop[i] EXCEPT ![Tag(Addr(l))] = LineAt(l).data]
        BY <1>14, <2>3 DEF ElementStep, r
      <3>2. q \in First .. n - 1 /\ q \in Nat /\ Tag(Addr(q)) \in 0 .. CACHE_LINES - 1
        BY <1>8, <2>1
      <3>3. CASE Tag(Addr(q)) = Tag(Addr(l))
        <4>1. prop'[i][Tag(Addr(q))] = LineAt(l).data
          BY <1>1, <2>4, <3>1, <3>3
        <4>2. l \in q .. s - 1
          BY <1>5, <2>1, <2>2, <3>2
        <4> QED BY <3>3, <4>1, <4>2
      <3>4. CASE Tag(Addr(q)) # Tag(Addr(l))
        <4>1. prop'[i][Tag(Addr(q))] = prop[i][Tag(Addr(q))]
          BY <1>1, <3>1, <3>2, <3>4
        <4>2. q \in First .. s0 - 1
          <5>1. q # l
            BY <3>4
          <5> QED BY <1>5, <2>2, <3>2, <5>1
        <4>3. PICK p \in q .. s0 - 1 :
                  /\ Tag(Addr(p)) = Tag(Addr(q))
                  /\ prop[i][Tag(Addr(q))] = LineAt(p).data
          BY <1>10, <4>2
        <4>4. p \in q .. s - 1
          BY <1>5, <2>1, <3>2
        <4> QED BY <4>1, <4>3, <4>4
      <3> QED BY <3>3, <3>4
    <2> QED BY <2>7, <2>8, <2>9, <2>10
  <1> QED BY <1>13, <1>14

\* The source that an element has after its step.
LEMMA SourceAfter ==
    ASSUME NEW i, NEW n, At(i, n), ElementStep(i), NEW a, a = Asked(i), pe'[i] = a
    PROVE  SourceInv(i)'
  <1> DEFINE e == WithSource(i)
  <1>1. HasRegisters(pe[i]) /\ SameStream /\ run' = run
    BY RegistersHave DEF At, ElementStep, SameStream
  <1>2. AskedFields(i, pe[i], e, a)
    BY <1>1, AskedRegisters
  <1>3. PICK t \in Nat : t = Taken(i) /\ NextItem(i)' = t
    BY SourcesAfter
  <1>4. /\ \A k : LastAt(k)' = LastAt(k) /\ InRun(k)' = InRun(k)
        /\ \A k : SourceAt(i, k)' = SourceAt(i, k)
    BY <1>1, ItemsSame
  <1>5. /\ e.sv_ready =>
              /\ e.src = SourceAt(i, t - 1) /\ e.required_min = e.src
              /\ e.frp_flag = LastAt(t - 1)
        /\ \/ e.required_min = 0
           \/ InRun(t - 1) /\ e.required_min = SourceAt(i, t - 1)
    BY <1>3, TakenSource
  <1>6. /\ a.src = e.src /\ a.frp_flag = e.frp_flag /\ a.required_min = e.required_min
        /\ a.sv_ready => e.sv_ready
    BY <1>2 DEF AskedFields
  <1> HIDE DEF e
  <1> QED BY <1>3, <1>4, <1>5, <1>6 DEF SourceInv

\* The line that an element comes to next.
LEMMA ComesTo ==
    ASSUME NEW i, NEW n, At(i, n), NEW a, a = Asked(i),
           NEW m, m = IF ReadsLine(i) THEN n + 1 ELSE n
    PROVE  /\ m \in First .. Sent
           /\ a.end_of_ca <=> m = Stop
           /\ a.tb_valid =>
                 /\ m > First
                 /\ a.tb = [addr |-> Addr(m - 1), data |-> LineAt(m - 1).data]
  <1>1. HasRegisters(pe[i]) /\ Active(i, n)
    BY RegistersHave DEF At
  <1>2. AskedFields(i, pe[i], WithSource(i), a)
    BY <1>1, AskedRegisters
  <1>3. /\ First \in Nat /\ Sent \in Nat /\ n \in First .. Sent /\ n \in Nat
        /\ Stop \in Nat
    BY StoredType, LineNumbers DEF At
  <1>4. CASE ReadsLine(i)
    <2>1. /\ n < Sent /\ n < Stop /\ Head(cl_stream[i]) = LineAt(n)
          /\ LineAt(n).addr = Addr(n) /\ (LineAt(n).last <=> n = Stop - 1)
      BY <1>4, LineRead
    <2>2. m = n + 1 /\ m - 1 = n /\ m > First /\ m \in First .. Sent
      BY <1>3, <1>4, <2>1
    <2>3. a.tb = [addr |-> Addr(n), data |-> LineAt(n).data]
          /\ a.end_of_ca = (pe[i].end_of_ca \/ LineAt(n).last)
      BY <1>2, <1>4, <2>1 DEF AskedFields
    <2>4. ~pe[i].end_of_ca
      BY <1>1, <1>3, <2>1 DEF Active
    <2>5. n = Stop - 1 <=> m = Stop
      BY <1>3, <2>2
    <2> QED BY <2>1, <2>2, <2>3, <2>4, <2>5
  <1>5. CASE ~ReadsLine(i)
    <2>1. m = n /\ a.end_of_ca = pe[i].end_of_ca
      BY <1>2, <1>5 DEF AskedFields
    <2>2. a.tb_valid => a.tb = pe[i].tb /\ pe[i].tb_valid
      BY <1>2, <1>5 DEF AskedFields
    <2> QED BY <1>1, <1>3, <2>1, <2>2 DEF Active
  <1> QED BY <1>4, <1>5

LEMMA ExhaustedAfter ==
    ASSUME NEW i, NEW n, At(i, n), ElementStep(i), Asked(i).end_of_sv, ~pe'[i].sv_ready
    PROVE  Exhausted(i)'
  <1>1. SameStream /\ run' = run
    BY DEF ElementStep, SameStream
  <1>2. NextItem(i)' = Taken(i)
    BY SourcesAfter
  <1>3. sv_stream'[i] = <<>> /\ LastAt(Taken(i) - 1)
    BY EndOfSources
  <1>4. \A k : LastAt(k)' = LastAt(k)
    BY <1>1, ItemsSame
  <1> QED BY <1>2, <1>3, <1>4 DEF Exhausted

\* The step of an element that has not ended the run.
LEMMA ActiveAfter ==
    ASSUME NEW i, NEW n, At(i, n), ElementStep(i),
           NEW m, m = IF ReadsLine(i) THEN n + 1 ELSE n
    PROVE  (Active(i, m) \/ Idle(i, m))' /\ pe'[i].sv_ready = Asked(i).sv_ready
  <1>0. PICK a : a = Asked(i)
    OBVIOUS
  <1>1. HasRegisters(pe[i]) /\ SameStream /\ run' = run /\ pe'[i] = EndRun(a)
    BY <1>0, RegistersHave DEF At, ElementStep, SameStream
  <1>2. AskedFields(i, pe[i], WithSource(i), a)
    BY <1>0, <1>1, AskedRegisters
  <1>3. /\ First' = First /\ Stop' = Stop
        /\ \A q : LineAt(q)' = LineAt(q) /\ Addr(q)' = Addr(q)
    BY LinesAfter
  <1>4. /\ a.end_of_ca <=> m = Stop
        /\ a.tb_valid =>
              /\ m > First
              /\ a.tb = [addr |-> Addr(m - 1), data |-> LineAt(m - 1).data]
    BY <1>0, ComesTo
  <1>5. a.sv_ready \in BOOLEAN
    BY <1>2, TakenSource DEF AskedFields
  <1>6. a.end_of_sv => ~a.sv_ready
    BY <1>0, EndOfSources
  <1>7. CASE a.end_of_sv /\ a.end_of_ca
    <2>1. pe'[i] = Fresh
      BY <1>1, <1>7 DEF EndRun
    <2>2. pe'[i].sv_ready = FALSE /\ a.sv_ready = FALSE
      BY <1>5, <1>6, <1>7, <2>1 DEF Fresh
    <2>3. Exhausted(i)'
      BY <1>0, <1>7, <2>2, ExhaustedAfter
    <2>4. Idle(i, m)'
      BY <1>3, <1>4, <1>7, <2>1, <2>3 DEF Idle, Fresh
    <2> QED BY <1>0, <2>2, <2>4
  <1>8. CASE ~(a.end_of_sv /\ a.end_of_ca)
    <2>1. pe'[i] = a
      BY <1>1, <1>8 DEF EndRun
    <2>2. a.end_of_sv => Exhausted(i)' /\ ~a.end_of_ca
      BY <1>0, <1>6, <1>8, <2>1, ExhaustedAfter
    <2>3. SourceInv(i)'
      BY <1>0, <2>1, SourceAfter
    <2>4. PICK s : s = IF a.tb_valid THEN m - 1 ELSE m
      OBVIOUS
    <2>5. ~a.end_of_sv => WindowInv(i, s)'
      BY <1>0, <2>1, <2>4, WindowAfter
    <2>6. Active(i, m)'
      BY <1>3, <1>4, <2>1, <2>2, <2>3, <2>4, <2>5 DEF Active
    <2> QED BY <1>0, <2>1, <2>6
  <1> QED BY <1>7, <1>8

\* An element that has ended the run has nothing to take; it asks for a line.
LEMMA IdleAfter ==
    ASSUME NEW i \in PE, NEW n, Idle(i, n), cl_stream[i] = <<>>, ItemsInv(i), ElementStep(i)
    PROVE  /\ Idle(i, n)' /\ ItemsInv(i)' /\ ~ReadsLine(i)
           /\ sv_stream'[i] = sv_stream[i] /\ out_stream'[i] = out_stream[i]
           /\ prop'[i] = prop[i]
           /\ pe[i] \in Registers => pe'[i] \in Registers
  <1> DEFINE r == pe[i]
  <1>1. /\ SameStream /\ run' = run /\ UNCHANGED <<dispatch, merge>>
        /\ pe'[i] = EndRun(Asked(i))
    BY DEF ElementStep, SameStream
  <1>2. /\ r \in {Fresh, [Fresh EXCEPT !.need_update = TRUE]}
        /\ sv_stream[i] = <<>> /\ LastAt(NextItem(i) - 1) /\ n = Stop
    BY DEF Idle, Exhausted
  <1>3. /\ HasRegisters(r) /\ r.sv_ready = FALSE /\ r.tb_valid = FALSE
        /\ r.end_of_sv = FALSE /\ r.end_of_ca = FALSE
        /\ r.required_min = 0 /\ r.max = 0
    BY <1>2 DEF Fresh, HasRegisters
  <1>4. ~TakesSource(i)
    BY <1>2 DEF TakesSource
  <1>5. WithSource(i) = r
    BY <1>4 DEF WithSource
  <1>6. ~Serves(i) /\ ~ReadsLine(i) /\ ~StoresLine(i)
    BY <1>3, <1>5 DEF Serves, ReadsLine, StoresLine
  <1>7. Asked(i) = AskLine(r)
    BY <1>5, <1>6 DEF Asked, WithServed, WithLine
  <1>8. 0 + CACHE_LINES > 0
    BY Constants
  <1>9. AskLine(r) = [Fresh EXCEPT !.need_update = TRUE]
    <2>1. AskLine(r) = [r EXCEPT !.need_update = TRUE]
      <3>1. (r.need_update \/ r.required_min + CACHE_LINES > r.max) = TRUE
        BY <1>3, <1>8
      <3> QED BY <3>1 DEF AskLine
    <2> QED BY <1>2, <2>1 DEF Fresh
  <1>10. pe'[i] = [Fresh EXCEPT !.need_update = TRUE]
    <2>1. ([Fresh EXCEPT !.need_update = TRUE]).end_of_sv = FALSE
      BY DEF Fresh
    <2> QED BY <1>1, <1>7, <1>9, <2>1 DEF EndRun
  <1>11. pe'[i].sv_ready = FALSE
    BY <1>10 DEF Fresh
  <1>12. sv_stream'[i] = sv_stream[i] /\ out_stream'[i] = out_stream[i] /\ prop'[i] = prop[i]
    BY <1>4, <1>6 DEF ElementStep
  <1>13. /\ Items(dispatch, i)' = Items(dispatch, i) /\ Items(merge, i)' = Items(merge, i)
         /\ \A k : LastAt(k)' = LastAt(k)
         /\ \A k : SourceAt(i, k)' = SourceAt(i, k)
         /\ \A d, line : Serving(d, line)' = Serving(d, line)
    BY <1>1, ItemsSame
  <1>14. NextItem(i)' = NextItem(i)
    BY <1>12, <1>13 DEF NextItem
  <1>15. ItemsInv(i)'
    BY <1>3, <1>11, <1>12, <1>13, <1>14 DEF ItemsInv
  <1>16. Idle(i, n)'
    <2>1. Exhausted(i)'
      BY <1>2, <1>11, <1>12, <1>13, <1>14 DEF Exhausted
    <2>2. Stop' = Stop
      BY LinesAfter
    <2> QED BY <1>2, <1>10, <2>1, <2>2 DEF Idle, Fresh
  <1>17. r \in Registers => pe'[i] \in Registers
    <2>1. pe'[i] = [r EXCEPT !.need_update = TRUE]
      BY <1>2, <1>10 DEF Fresh
    <2> QED BY <2>1 DEF Registers
  <1> QED BY <1>6, <1>12, <1>15, <1>16, <1>17

LEMMA TypesAfter ==
    ASSUME NEW i, NEW n, At(i, n), ElementStep(i)
    PROVE  /\ pe'[i] \in Registers
           /\ prop'[i] \in [0 .. CACHE_LINES - 1 -> Data]
  <1> DEFINE r == pe[i]
  <1> DEFINE e == WithSource(i)
  <1>1. r \in Registers /\ HasRegisters(r) /\ prop[i] \in [0 .. CACHE_LINES - 1 -> Data]
    BY RegistersHave DEF At
  <1>2. PICK a : a = Asked(i) /\ HasRegisters(a) /\ AskedFields(i, r, e, a)
    BY <1>1, AskedRegisters
  <1>3. /\ e.sv_ready \in BOOLEAN /\ e.frp_flag \in BOOLEAN
        /\ e.src \in Line \cup {0} /\ e.required_min \in Line \cup {0}
    BY TakenSource
  <1>4. /\ r.tb.addr \in 0 .. End + 1 /\ r.tb \in [addr : 0 .. End + 1, data : Data]
        /\ r.tb.data \in Data
        /\ r.min \in 0 .. End + 2 /\ r.max \in 0 .. End + 2
        /\ r.tb_valid \in BOOLEAN /\ r.need_update \in BOOLEAN
        /\ r.end_of_sv \in BOOLEAN /\ r.end_of_ca \in BOOLEAN
    BY <1>1 DEF Registers
  <1>5. End \in Nat
    BY Constants
  <1> HIDE DEF e, r
  <1>6. a.sv_ready \in BOOLEAN /\ a.end_of_sv \in BOOLEAN /\ a.frp_flag \in BOOLEAN
        /\ a.src \in Line \cup {0} /\ a.required_min \in Line \cup {0}
    BY <1>2, <1>3, <1>4 DEF AskedFields
  <1>7. a.max \in 0 .. End + 2 /\ a.min \in 0 .. End + 2
    BY <1>2, <1>4, <1>5 DEF AskedFields
  <1>8. a.need_update \in BOOLEAN
    BY <1>2, <1>4 DEF AskedFields
  <1>9. /\ a.tb \in [addr : 0 .. End + 1, data : Data]
        /\ a.tb_valid \in BOOLEAN /\ a.end_of_ca \in BOOLEAN
    <2>1. CASE ReadsLine(i)
      <3>1. /\ Head(cl_stream[i]).addr \in 0 .. End + 1 /\ Head(cl_stream[i]).data \in Data
            /\ Head(cl_stream[i]).last \in BOOLEAN
        BY <2>1, LineRead
      <3>2. /\ a.tb = [addr |-> Head(cl_stream[i]).addr, data |-> Head(cl_stream[i]).data]
            /\ a.tb_valid = TRUE
            /\ a.end_of_ca = (r.end_of_ca \/ Head(cl_stream[i]).last)
        BY <1>2, <2>1 DEF AskedFields
      <3>3. a.tb \in [addr : 0 .. End + 1, data : Data]
        BY <3>1, <3>2
      <3>4. a.tb_valid \in BOOLEAN /\ a.end_of_ca \in BOOLEAN
        BY <1>4, <3>1, <3>2
      <3> QED BY <3>3, <3>4
    <2>2. CASE ~ReadsLine(i)
      BY <1>2, <1>4, <2>2 DEF AskedFields
    <2> QED BY <2>1, <2>2
  <1>10. a \in Registers
    BY <1>2, <1>6, <1>7, <1>8, <1>9 DEF HasRegisters, Registers
  <1>11. pe'[i] \in Registers
    <2>1. pe'[i] = a \/ pe'[i] = Fresh
      BY <1>2 DEF ElementStep, EndRun
    <2>2. Fresh \in Registers
      BY <1>5, RunType DEF Fresh, Registers, Unloaded, Data, At
    <2> QED BY <1>10, <2>1, <2>2
  <1>12. prop'[i] \in [0 .. CACHE_LINES - 1 -> Data]
    BY <1>1, <1>4 DEF ElementStep, r
  <1> QED BY <1>11, <1>12

\* The line in front of an element is the one that it comes to next.
LEMMA HeadLine ==
    ASSUME FeedInv, RequestInv, NEW next \in [PE -> First .. Sent], Chain(next), NEW i \in PE
    PROVE  /\ cl_stream[i] # <<>> => Head(cl_stream[i]) = LineAt(next[i]) /\ next[i] < Above(i, next)
           /\ next[i] = Stop => cl_stream[i] = <<>>
  <1>1. /\ next[i] <= Above(i, next) /\ IsSeq(cl_stream[i])
        /\ Len(cl_stream[i]) = Above(i, next) - next[i]
        /\ \A j \in 1 .. Len(cl_stream[i]) : cl_stream[i][j] = LineAt(next[i] + (j - 1))
    BY DEF Chain
  <1>2. PICK n \in Nat, b \in Nat : n = next[i] /\ b = Above(i, next) /\ b <= Sent
    <2>1. Above(i, next) \in First .. Sent
      BY ChainType
    <2>2. First \in Nat /\ Sent \in Nat
      BY LineNumbers
    <2> QED BY <2>1, <2>2, ChainType
  <1>3. Sent \in Nat /\ Stop \in Nat /\ Sent <= Stop
    BY LineNumbers
  <1>4. Len(cl_stream[i]) \in Nat /\ (cl_stream[i] = <<>> <=> Len(cl_stream[i]) = 0)
    BY <1>1, LenSeq
  <1>5. n = Stop => cl_stream[i] = <<>>
    BY <1>1, <1>2, <1>3, <1>4
  <1>6. ASSUME cl_stream[i] # <<>>
        PROVE  Head(cl_stream[i]) = LineAt(n) /\ n < b
    <2>1. Len(cl_stream[i]) > 0
      BY <1>4, <1>6
    <2>2. n < b
      BY <1>1, <1>2, <2>1
    <2>3. Head(cl_stream[i]) = cl_stream[i][1]
      BY <1>1, <1>6, SeqTail
    <2>4. 1 \in 1 .. Len(cl_stream[i]) /\ n + (1 - 1) = n
      BY <1>2, <1>4, <2>1
    <2> QED BY <1>1, <1>2, <2>2, <2>3, <2>4
  <1> QED BY <1>2, <1>5, <1>6

LEMMA OneMore ==
    ASSUME NEW c \in Nat, NEW n \in Nat, NEW m \in Nat, c = m - n, NEW j \in 1 .. c + 1
    PROVE  j \in 1 .. c \/ (j = c + 1 /\ n + (j - 1) = m)
  OBVIOUS

\* The element passes the line in front of it on.
LinePassed(i) ==
    /\ ReadsLine(i) /\ (i + 1 \in PE => Room(cl_stream[i + 1]))
    /\ cl_stream' = [j \in PE |->
                        IF j = i THEN Tail(cl_stream[j])
                        ELSE IF j = i + 1 THEN Append(cl_stream[j], Head(cl_stream[i]))
                        ELSE cl_stream[j]]

OneFurther(i, next, nxt) == nxt = [next EXCEPT ![i] = next[i] + 1]

InOrder(k, next) ==
    /\ next[k] <= Above(k, next)
    /\ IsSeq(cl_stream'[k])
    /\ Len(cl_stream'[k]) = Above(k, next) - next[k]
    /\ \A j \in 1 .. Len(cl_stream'[k]) : cl_stream'[k][j] = LineAt(next[k] + (j - 1))
    /\ Len(cl_stream'[k]) <= StreamDepth

\* Lines are in order also after that.
LEMMA ChainAfter ==
    ASSUME FeedInv, RequestInv, ElementTypes, NEW next \in [PE -> First .. Sent], Chain(next),
           NEW i \in PE, LinePassed(i), NEW nxt, OneFurther(i, next, nxt), NEW k \in PE
    PROVE  InOrder(k, nxt)
  <1>1. /\ next[k] <= Above(k, next) /\ IsSeq(cl_stream[k])
        /\ Len(cl_stream[k]) = Above(k, next) - next[k]
        /\ \A j \in 1 .. Len(cl_stream[k]) : cl_stream[k][j] = LineAt(next[k] + (j - 1))
    BY DEF Chain
  <1>2. PICK n \in Nat, b \in Nat, c \in Nat :
            n = next[k] /\ b = Above(k, next) /\ c = Len(cl_stream[k]) /\ c = b - n
    BY <1>1, ChainType, LenSeq
  <1>3. Len(cl_stream[k]) <= StreamDepth /\ StreamDepth \in Nat /\ k \in Int /\ i \in Int
    BY Constants DEF ElementTypes, PE
  <1>4. cl_stream[i] # <<>>
    BY DEF LinePassed, ReadsLine
  <1>5. Head(cl_stream[i]) = LineAt(next[i]) /\ next[i] < Above(i, next)
    BY <1>4, HeadLine
  <1>6. \A j \in PE : j # i => nxt[j] = next[j]
    BY DEF OneFurther
  <1>7. nxt[i] = next[i] + 1
    BY DEF OneFurther
  <1>8. CASE k = i
    <2>1. cl_stream'[k] = Tail(cl_stream[k])
      BY <1>8 DEF LinePassed
    <2>2. /\ IsSeq(cl_stream'[k]) /\ Len(cl_stream'[k]) = c - 1
          /\ \A j \in 1 .. Len(cl_stream'[k]) : cl_stream'[k][j] = cl_stream[k][j + 1]
      BY <1>1, <1>2, <1>4, <1>8, <2>1, SeqTail
    <2>3. Above(k, nxt) = b
      <3>1. k # 0 => k - 1 \in PE /\ k - 1 # i
        BY <1>3, <1>8, ChainType
      <3>2. k # 0 => nxt[k - 1] = next[k - 1]
        BY <1>6, <3>1
      <3> QED BY <1>2, <3>2 DEF Above
    <2>4. nxt[k] = n + 1 /\ n < b
      BY <1>2, <1>5, <1>7, <1>8
    <2>5. ASSUME NEW j \in 1 .. c - 1
          PROVE  cl_stream'[k][j] = LineAt((n + 1) + (j - 1))
      <3>1. j + 1 \in 1 .. c /\ n + ((j + 1) - 1) = (n + 1) + (j - 1)
        BY <1>2, Behind
      <3>2. cl_stream[k][j + 1] = LineAt(n + ((j + 1) - 1))
        BY <1>1, <1>2, <3>1
      <3> QED BY <2>2, <3>1, <3>2
    <2>6. c - 1 = b - (n + 1) /\ n + 1 <= b /\ c - 1 <= StreamDepth
      BY <1>2, <1>3, <2>4
    <2> QED BY <2>2, <2>3, <2>4, <2>5, <2>6 DEF InOrder
  <1>9. CASE k = i + 1
    <2>1. k # i /\ k # 0 /\ k - 1 = i
      BY <1>3, <1>9, Constants DEF PE
    <2>2. cl_stream'[k] = Append(cl_stream[k], LineAt(next[i]))
      BY <1>5, <1>9, <2>1 DEF LinePassed
    <2>3. PICK m \in Nat : m = next[i]
      BY ChainType
    <2>4. b = m /\ Above(k, nxt) = m + 1 /\ nxt[k] = n
      BY <1>2, <1>6, <1>7, <2>1, <2>3 DEF Above
    <2>5. /\ IsSeq(cl_stream'[k]) /\ Len(cl_stream'[k]) = c + 1
          /\ \A j \in 1 .. c : cl_stream'[k][j] = cl_stream[k][j]
          /\ cl_stream'[k][c + 1] = LineAt(m)
      BY <1>1, <1>2, <2>2, <2>3, SeqAppend
    <2>6. ASSUME NEW j \in 1 .. c + 1
          PROVE  cl_stream'[k][j] = LineAt(n + (j - 1))
      <3>1. CASE j \in 1 .. c
        BY <1>1, <1>2, <2>5, <3>1
      <3>2. CASE j = c + 1 /\ n + (j - 1) = m
        BY <2>5, <3>2
      <3>3. c = m - n
        BY <1>2, <2>4
      <3>4. c \in Nat /\ n \in Nat /\ m \in Nat
        BY <1>2, <2>3
      <3>5. j \in 1 .. c \/ (j = c + 1 /\ n + (j - 1) = m)
        BY <3>3, <3>4, OneMore
      <3> QED BY <3>1, <3>2, <3>5
    <2>7. Room(cl_stream[k])
      BY <1>9 DEF LinePassed
    <2>8. c + 1 = (m + 1) - n /\ n <= m + 1 /\ c + 1 <= StreamDepth
      BY <1>1, <1>2, <1>3, <2>3, <2>4, <2>7, SMTT(30) DEF Room
    <2> QED BY <2>4, <2>5, <2>6, <2>8 DEF InOrder
  <1>10. CASE k # i /\ k # i + 1
    <2>1. cl_stream'[k] = cl_stream[k]
      BY <1>10 DEF LinePassed
    <2>2. k # 0 => k - 1 \in PE /\ k - 1 # i
      BY <1>3, <1>10, ChainType
    <2>3. Above(k, nxt) = Above(k, next) /\ nxt[k] = next[k]
      BY <1>6, <1>10, <2>2 DEF Above
    <2> QED BY <1>1, <1>3, <2>1, <2>3 DEF InOrder
  <1> QED BY <1>8, <1>9, <1>10

LEMMA OneElementAfter ==
    ASSUME IInv, NEW i \in PE, ElementStep(i), NEW next \in [PE -> First .. Sent], Chain(next),
           Active(i, next[i]) \/ Idle(i, next[i]),
           NEW m, m = IF ReadsLine(i) THEN next[i] + 1 ELSE next[i]
    PROVE  /\ m \in First .. Sent
           /\ (Active(i, m) \/ Idle(i, m))' /\ ItemsInv(i)'
           /\ pe'[i] \in Registers /\ prop'[i] \in [0 .. CACHE_LINES - 1 -> Data]
           /\ Len(sv_stream'[i]) <= StreamDepth /\ Len(out_stream'[i]) <= StreamDepth
  <1>1. /\ FeedInv /\ RequestInv /\ PlacesInv /\ ItemsInv(i)
        /\ pe[i] \in Registers /\ prop[i] \in [0 .. CACHE_LINES - 1 -> Data]
        /\ Len(sv_stream[i]) <= StreamDepth /\ Len(out_stream[i]) <= StreamDepth
    BY DEF IInv, ElementTypes
  <1>2. PICK n \in First .. Sent : n = next[i]
    OBVIOUS
  <1>3. /\ cl_stream[i] # <<>> => Head(cl_stream[i]) = LineAt(n) /\ n < Sent
        /\ n = Stop => cl_stream[i] = <<>>
    <2>1. Above(i, next) \in First .. Sent /\ n \in Nat /\ Sent \in Nat /\ First \in Nat
      BY <1>1, <1>2, ChainType, LineNumbers
    <2>2. cl_stream[i] # <<>> => Head(cl_stream[i]) = LineAt(n) /\ n < Above(i, next)
      BY <1>1, <1>2, HeadLine
    <2>3. n < Above(i, next) => n < Sent
      BY <2>1
    <2> QED BY <1>1, <1>2, <2>2, <2>3, HeadLine
  <1>4. CASE Active(i, next[i])
    <2>1. At(i, n)
      BY <1>1, <1>2, <1>3, <1>4 DEF At
    <2>2. m = IF ReadsLine(i) THEN n + 1 ELSE n
      BY <1>2
    <2>3. (Active(i, m) \/ Idle(i, m))' /\ pe'[i].sv_ready = Asked(i).sv_ready
      BY <2>1, <2>2, ActiveAfter
    <2>4. ItemsInv(i)' /\ Len(out_stream'[i]) <= StreamDepth
      BY <1>1, <2>1, <2>3, ItemsAfter
    <2>5. m \in First .. Sent
      BY <2>1, <2>2, ComesTo
    <2>6. Len(sv_stream'[i]) \in Nat /\ Len(sv_stream'[i]) <= Len(sv_stream[i])
      BY <2>1, SourcesAfter
    <2>7. Len(sv_stream'[i]) <= StreamDepth
      <3>1. Len(sv_stream[i]) \in Nat
        BY <1>1, LenSeq DEF ItemsInv
      <3> QED BY <1>1, <2>6, <3>1, Constants
    <2> QED BY <2>1, <2>3, <2>4, <2>5, <2>7, TypesAfter
  <1>5. CASE Idle(i, next[i])
    <2>1. Idle(i, n) /\ cl_stream[i] = <<>>
      BY <1>2, <1>3, <1>5 DEF Idle
    <2>2. /\ Idle(i, n)' /\ ItemsInv(i)' /\ ~ReadsLine(i)
          /\ sv_stream'[i] = sv_stream[i] /\ out_stream'[i] = out_stream[i]
          /\ prop'[i] = prop[i]
          /\ pe'[i] \in Registers
      BY <1>1, <2>1, IdleAfter
    <2>3. m = n
      BY <1>2, <2>2
    <2> QED BY <1>1, <2>2, <2>3
  <1> QED BY <1>4, <1>5

LEMMA SrcCachePeStep ==
    ASSUME IInv, NEW i \in PE, SrcCachePe(i)
    PROVE  IInv'
  <1>1. FeedInv /\ RequestInv /\ PlacesInv /\ PkgInv /\ ElementTypes /\ ElementsInv
        /\ \A j \in PE : ItemsInv(j)
    BY DEF IInv
  <1>2. /\ ElementStep(i)
        /\ \A j \in PE : j # i => /\ pe'[j] = pe[j] /\ sv_stream'[j] = sv_stream[j]
                                  /\ out_stream'[j] = out_stream[j] /\ prop'[j] = prop[j]
        /\ pe' = [j \in PE |-> pe'[j]] /\ prop' = [j \in PE |-> prop'[j]]
        /\ sv_stream' = [j \in PE |-> sv_stream'[j]]
        /\ out_stream' = [j \in PE |-> out_stream'[j]]
    BY <1>1, ElementSteps
  <1>3. /\ SameStream /\ run' = run
        /\ UNCHANGED <<source, run, fed, fed2, cmd, taken, inner_idx, dispatch, merge, pkg>>
    BY <1>2 DEF ElementStep, SameStream
  <1>4. /\ First' = First /\ Sent' = Sent
        /\ \A q : LineAt(q)' = LineAt(q)
    BY <1>2, LinesAfter
  <1>5. PICK next \in [PE -> First .. Sent] :
            /\ Chain(next) /\ \A j \in PE : Active(j, next[j]) \/ Idle(j, next[j])
    BY <1>1 DEF ElementsInv
  <1>6. PICK m : m = IF ReadsLine(i) THEN next[i] + 1 ELSE next[i]
    OBVIOUS
  <1>7. /\ m \in First .. Sent
        /\ (Active(i, m) \/ Idle(i, m))' /\ ItemsInv(i)'
        /\ pe'[i] \in Registers /\ prop'[i] \in [0 .. CACHE_LINES - 1 -> Data]
        /\ Len(sv_stream'[i]) <= StreamDepth /\ Len(out_stream'[i]) <= StreamDepth
    BY <1>2, <1>5, <1>6, OneElementAfter
  <1>8. FeedInv' /\ RequestInv' /\ PlacesInv' /\ PkgInv'
    BY <1>1, <1>3, FeedSame, RequestSame, PlacesSame, PkgSame
  <1>9. ASSUME NEW j \in PE, j # i
        PROVE  ItemsInv(j)' /\ (Active(j, next[j]) \/ Idle(j, next[j]))'
    <2>1. pe'[j] = pe[j] /\ sv_stream'[j] = sv_stream[j] /\ out_stream'[j] = out_stream[j]
          /\ prop'[j] = prop[j]
      BY <1>2, <1>9
    <2>2. ItemsInv(j)' /\ NextItem(j)' = NextItem(j) /\ Exhausted(j)' = Exhausted(j)
      BY <1>1, <1>3, <2>1, ItemsInvSame
    <2>3. SameElement(j)
      BY <2>1, <2>2 DEF SameElement
    <2>4. PICK n \in First .. Sent : n = next[j]
      BY <1>5
    <2>5. (Active(j, n) \/ Idle(j, n))'
      BY <1>1, <1>3, <1>4, <1>5, <2>3, <2>4, ElementSame
    <2> QED BY <2>2, <2>4, <2>5
  <1>10. PICK nxt \in [PE -> First .. Sent] : nxt = [next EXCEPT ![i] = m]
    BY <1>5, <1>7
  <1>11. ASSUME NEW k \in PE
         PROVE  InOrder(k, nxt)
    <2>1. CASE ReadsLine(i)
      <3>1. LinePassed(i)
        BY <2>1 DEF SrcCachePe, LinePassed
      <3>2. OneFurther(i, next, nxt)
        BY <1>6, <1>10, <2>1 DEF OneFurther
      <3> QED BY <1>1, <1>5, <3>1, <3>2, ChainAfter
    <2>2. CASE ~ReadsLine(i)
      <3>1. nxt = next /\ cl_stream' = cl_stream
        BY <1>5, <1>6, <1>10, <2>2 DEF SrcCachePe
      <3> QED BY <1>1, <1>5, <3>1 DEF Chain, ElementTypes, InOrder
    <2> QED BY <2>1, <2>2
  <1>12. Chain(nxt)'
    <2>1. \A k \in PE : Above(k, nxt)' = Above(k, nxt)
      BY <1>4 DEF Above
    <2> QED BY <1>4, <1>11, <2>1 DEF Chain, InOrder
  <1>13. \A j \in PE : (Active(j, nxt[j]) \/ Idle(j, nxt[j]))'
    <2> SUFFICES ASSUME NEW j \in PE
                 PROVE  (Active(j, nxt[j]) \/ Idle(j, nxt[j]))'
      OBVIOUS
    <2>1. CASE j = i
      BY <1>5, <1>7, <1>10, <2>1
    <2>2. CASE j # i
      BY <1>5, <1>9, <1>10, <2>2
    <2> QED BY <2>1, <2>2
  <1>14. ElementsInv'
    BY <1>4, <1>10, <1>12, <1>13 DEF ElementsInv
  <1>15. ElementTypes'
    <2>1. cl_stream' = [j \in PE |-> cl_stream'[j]]
      BY <1>1, <1>2 DEF SrcCachePe, ElementTypes
    <2>2. \A j \in PE : /\ pe'[j] \in Registers
                        /\ prop'[j] \in [0 .. CACHE_LINES - 1 -> Data]
                        /\ Len(sv_stream'[j]) <= StreamDepth
                        /\ Len(out_stream'[j]) <= StreamDepth
      BY <1>1, <1>2, <1>7 DEF ElementTypes
    <2>3. Registers' = Registers /\ Data' = Data
      BY <1>3 DEF Registers, Data
    <2>4. pe' \in [PE -> Registers] /\ prop' \in [PE -> [0 .. CACHE_LINES - 1 -> Data]]
      BY <1>2, <2>2
    <2>5. \A j \in PE : Len(cl_stream'[j]) <= StreamDepth
      BY <1>11 DEF InOrder
    <2> QED BY <1>1, <1>2, <1>3, <2>1, <2>2, <2>3, <2>4, <2>5 DEF ElementTypes
  <1>16. \A j \in PE : ItemsInv(j)'
    BY <1>7, <1>9
  <1> QED BY <1>8, <1>14, <1>15, <1>16 DEF IInv

-----------------------------------------------------------------------------
(* The initial state, and the steps that change nothing. *)

LEMMA InitStreams ==
    ASSUME Init
    PROVE  /\ FeedInv /\ RequestInv /\ PlacesInv /\ PkgInv
           /\ run = 1 /\ run - 1 = 0 /\ Upto(0) = 0 /\ Upto(1) \in Nat \ {0}
           /\ RunOf(1) = 1 /\ StreamInv /\ 1 \in 1 .. Len(source)
  <1>1. /\ StreamInv /\ run = 1 /\ fed = 0 /\ fed2 = 0 /\ cmd = <<>>
        /\ taken = 0 /\ inner_idx = 0
        /\ dispatch = [vector |-> 1, item |-> 0] /\ merge = [vector |-> 1, item |-> 0]
    BY DEF Init, StreamInv, R!Init
  <1>2. Len(source) \in Nat \ {0} /\ 1 \in 1 .. Len(source)
    BY <1>1, Stream DEF StreamInv
  <1>3. ~IsEnd(source[1])
    <2>1. \E l : l \in Lane
      BY Constants DEF Lane
    <2> QED BY <1>1, <1>2, <2>1, Order DEF StreamInv
  <1>4. RunOf(1) = 1
    BY FirstRun
  <1>5. Upto(0) = 0
    <2>1. ASSUME NEW x \in Touched
          PROVE  ~(RunOf(VectorOf(x)) <= 0)
      <3>1. x \in Nat
        BY <1>1, IsTouched
      <3>2. VectorOf(x) \in Nat \ {0}
        BY <3>1, VectorMonotone
      <3>3. RunOf(VectorOf(x)) \in 1 .. VectorOf(x)
        BY <3>2, RunStep
      <3> QED BY <3>2, <3>3
    <2>2. {x \in Touched : RunOf(VectorOf(x)) <= 0} = {}
      BY <2>1
    <2> QED BY <2>2, FS_EmptySet DEF Upto
  <1>6. Upto(1) \in Nat \ {0}
    <2>1. 1 \in Nat /\ 0 \in Nat /\ 0 + 1 = 1
      OBVIOUS
    <2>2. Upto(0) + 1 < Upto(0 + 1) /\ Upto(0 + 1) \in Nat
      BY <1>1, <1>2, <1>4, <2>1, RunHasRequests
    <2> QED BY <1>5, <2>1, <2>2
  <1>7. FeedInv
    <2>1. RunOf(fed + 1) = 1
      BY <1>1, <1>4
    <2> QED BY <1>1, <1>2, <2>1 DEF FeedInv
  <1>8. RequestInv
    <2>1. Len(cmd) = 0 /\ cmd \in Seq(0 .. End \div BURST)
      BY <1>1
    <2>2. run - 1 = 0
      BY <1>1
    <2>3. BURST \in Nat \ {0, 1}
      BY Constants
    <2> QED BY <1>1, <1>5, <1>6, <2>1, <2>2, <2>3 DEF RequestInv
  <1>9. PlacesInv
    <2>1. PlaceInv(dispatch) /\ PlaceInv(merge)
      BY <1>1, <1>3, <1>4 DEF PlaceInv
    <2> QED BY <1>1, <2>1, Constants DEF PlacesInv
  <1>10. PkgInv
    BY <1>1 DEF PkgInv
  <1> QED BY <1>1, <1>2, <1>4, <1>5, <1>6, <1>7, <1>8, <1>9, <1>10

LEMMA InitElement ==
    ASSUME Init, NEW i \in PE
    PROVE  ItemsInv(i) /\ Active(i, First) /\ First # Stop /\ Sent = First /\ First \in Nat
  <1>1. /\ StreamInv /\ FeedInv /\ run = 1 /\ Upto(0) = 0 /\ Upto(1) \in Nat \ {0}
        /\ RunOf(1) = 1 /\ 1 \in 1 .. Len(source)
    BY InitStreams
  <1>2. /\ dispatch = [vector |-> 1, item |-> 0] /\ merge = [vector |-> 1, item |-> 0]
        /\ sv_stream[i] = <<>> /\ out_stream[i] = <<>>
        /\ pe[i] = Fresh /\ taken = 0 /\ inner_idx = 0
    BY DEF Init
  <1>3. /\ pe[i].sv_ready = FALSE /\ pe[i].required_min = 0 /\ pe[i].max = 0
        /\ pe[i].tb_valid = FALSE /\ pe[i].end_of_sv = FALSE /\ pe[i].end_of_ca = FALSE
        /\ pe[i].need_update = FALSE
    BY <1>2 DEF Fresh
  <1>4. ItemsInv(i)
    <2>1. Items(dispatch, i) = 2 /\ Items(merge, i) = 2
      <3>1. Halves(i, 0) = 0
        BY Constants, HalvesNext DEF PE
      <3> QED BY <1>1, <1>2, <3>1 DEF Items
    <2>2. Len(<<>>) = 0
      OBVIOUS
    <2>3. NextItem(i) = 2
      BY <1>2, <2>1, <2>2 DEF NextItem
    <2> QED BY <1>2, <1>3, <2>1, <2>2, <2>3, SeqEmpty DEF ItemsInv
  <1>5. First \in Nat /\ First # Stop /\ Sent = First
    <2>1. 0 \in Nat /\ RunOf(1) = 0 + 1 /\ 0 + 1 = 1
      BY <1>1
    <2>2. /\ (Upto(0) + 1) * BURST \in Nat
          /\ (Upto(0) + 1) * BURST < Upto(0 + 1) * BURST + 2
          /\ Upto(0 + 1) \in Nat
      BY <1>1, <2>1, FirstBeforeStop
    <2>3. run - 1 = 0 /\ taken # Upto(run) /\ taken + 1 = Upto(0) + 1
      BY <1>1, <1>2
    <2>4. First = (Upto(0) + 1) * BURST /\ Stop = Upto(1) * BURST + 2
      BY <1>1, <2>3 DEF First, Stop
    <2>5. Sent = (Upto(0) + 1) * BURST + 0
      BY <1>2, <2>3 DEF Sent
    <2>6. Upto(1) * BURST \in Nat
      BY <1>1, Constants, TimesMonotone
    <2> QED BY <2>1, <2>2, <2>4, <2>5, <2>6
  <1>6. WindowInv(i, First)
    <2>1. PICK f \in Nat : f = First
      BY <1>5
    <2>2. \A q : q \notin f + 1 .. f - 1 /\ q \notin f .. f - 1
      OBVIOUS
    <2> QED BY <1>3, <2>1, <2>2 DEF WindowInv
  <1>7. Active(i, First)
    BY <1>3, <1>5, <1>6 DEF Active, SourceInv
  <1> QED BY <1>4, <1>5, <1>7

LEMMA InitInvariant ==
    ASSUME Init
    PROVE  IInv
  <1>1. FeedInv /\ RequestInv /\ PlacesInv /\ PkgInv /\ run = 1
    BY InitStreams
  <1>2. \A i \in PE : ItemsInv(i) /\ Active(i, First)
    BY InitElement
  <1>3. Sent = First /\ First \in Nat
    <2>1. 0 \in PE
      BY Constants DEF PE
    <2> QED BY <2>1, InitElement
  <1>4. ElementTypes
    <2>1. Fresh \in Registers /\ Unloaded \in Data
      <3>1. Unloaded \in Data
        BY <1>1 DEF Data, Unloaded
      <3> QED BY <3>1, Constants DEF Fresh, Registers
    <2>2. Len(<<>>) <= StreamDepth
      BY Constants
    <2> QED BY <2>1, <2>2 DEF Init, ElementTypes
  <1>5. ElementsInv
    <2>1. PICK next \in [PE -> First .. Sent] : next = [i \in PE |-> First]
      <3>1. First \in First .. Sent
        BY <1>3
      <3>2. [i \in PE |-> First] \in [PE -> First .. Sent]
        BY <3>1
      <3> QED BY <3>2
    <2>2. Chain(next)
      <3> SUFFICES ASSUME NEW i \in PE
                   PROVE  /\ next[i] <= Above(i, next)
                          /\ IsSeq(cl_stream[i])
                          /\ Len(cl_stream[i]) = Above(i, next) - next[i]
                          /\ \A j \in 1 .. Len(cl_stream[i]) :
                                cl_stream[i][j] = LineAt(next[i] + (j - 1))
        BY DEF Chain
      <3>1. next[i] = First /\ Above(i, next) = First
        <4>1. i # 0 => i - 1 \in PE
          BY Constants DEF PE
        <4> QED BY <1>3, <2>1, <4>1 DEF Above
      <3>2. cl_stream[i] = <<>> /\ Len(<<>>) = 0
        BY DEF Init
      <3> QED BY <1>3, <3>1, <3>2, SeqEmpty
    <2> QED BY <1>2, <2>1, <2>2 DEF ElementsInv
  <1> QED BY <1>1, <1>2, <1>4, <1>5 DEF IInv

LEMMA NoStep ==
    ASSUME IInv, UNCHANGED vars
    PROVE  IInv'
  <1>1. FeedInv /\ RequestInv /\ PlacesInv /\ PkgInv /\ ElementTypes /\ ElementsInv
        /\ \A i \in PE : ItemsInv(i)
    BY DEF IInv
  <1>2. /\ SameStream /\ run' = run
        /\ UNCHANGED <<source, input, run, fed, fed2, cmd, taken, inner_idx, dispatch, merge, pkg>>
        /\ UNCHANGED <<sv_stream, pe, prop, cl_stream, out_stream>> /\ UNCHANGED peVars
    BY DEF vars, feedVars, requestVars, engineVars, peVars, mergeVars, SameStream
  <1>3. FeedInv' /\ RequestInv' /\ PlacesInv' /\ PkgInv' /\ ElementTypes'
    BY <1>1, <1>2, FeedSame, RequestSame, PlacesSame, PkgSame, TypesSame
  <1>4. \A i \in PE : ItemsInv(i)' /\ SameElement(i)
    BY <1>1, <1>2, ItemsInvSame DEF SameElement
  <1>5. ElementsInv'
    BY <1>1, <1>2, <1>4, LinesSame, ElementsSame
  <1> QED BY <1>3, <1>4, <1>5 DEF IInv

-----------------------------------------------------------------------------
(* What the invariant says about types and about what src_merge gets. *)

LEMMA SeqOf ==
    ASSUME NEW S, NEW s, IsSeq(s), \A j \in 1 .. Len(s) : s[j] \in S
    PROVE  s \in Seq(S)
  <1>1. s \in [1 .. Len(s) -> Range(s)] /\ Len(s) \in Nat
    BY DEF IsSeq
  <1>2. s \in [1 .. Len(s) -> S]
    BY <1>1
  <1> QED BY <1>1, <1>2

LEMMA Between ==
    ASSUME NEW m \in Nat, NEW o \in Nat, NEW c \in Nat, NEW p \in Nat, NEW x \in {0, 1},
           m + o + x = c - p, NEW j \in 1 .. p
    PROVE  (c - p) + (j - 1) \in Nat /\ m <= (c - p) + (j - 1) /\ (c - p) + (j - 1) < c
  OBVIOUS

LEMMA Within ==
    ASSUME NEW n \in Nat, NEW b \in Nat, NEW f \in Nat, NEW s \in Nat, f <= n, b <= s,
           NEW j \in 1 .. b - n
    PROVE  n + (j - 1) \in Nat /\ f <= n + (j - 1) /\ n + (j - 1) < s
  OBVIOUS

LEMMA StreamTypes ==
    ASSUME IInv, NEW i \in PE
    PROVE  /\ sv_stream[i] \in Seq([src : Line, last : BOOLEAN])
           /\ cl_stream[i] \in Seq([addr : Nat, data : Data, last : BOOLEAN])
           /\ out_stream[i] \in Seq(Data)
  <1>1. FeedInv /\ RequestInv /\ PlacesInv /\ ElementsInv /\ ItemsInv(i) /\ source \in Input
    BY DEF IInv, FeedInv, StreamInv
  <1>2. sv_stream[i] \in Seq([src : Line, last : BOOLEAN])
    <2>1. /\ IsSeq(sv_stream[i]) /\ IsSeq(out_stream[i])
          /\ \A j \in 1 .. Len(sv_stream[i]) :
                sv_stream[i][j] = [src |-> SourceAt(i, NextItem(i) + (j - 1)),
                                   last |-> LastAt(NextItem(i) + (j - 1))]
      BY <1>1 DEF ItemsInv
    <2>2. PICK m \in Nat, o \in Nat, c \in Nat, p \in Nat, x \in {0, 1} :
              /\ m = Items(merge, i) /\ o = Len(out_stream[i])
              /\ c = Items(dispatch, i) /\ p = Len(sv_stream[i])
              /\ NextItem(i) = c - p /\ m + o + x = c - p
      <3>1. Items(merge, i) + Len(out_stream[i]) + (IF pe[i].sv_ready THEN 1 ELSE 0) = NextItem(i)
        BY <1>1 DEF ItemsInv
      <3>2. Items(merge, i) \in Nat /\ Items(dispatch, i) \in Nat
        BY <1>1, ItemsType DEF PlacesInv
      <3>3. Len(out_stream[i]) \in Nat /\ Len(sv_stream[i]) \in Nat
        BY <2>1, LenSeq
      <3>4. NextItem(i) = Items(dispatch, i) - Len(sv_stream[i])
        BY DEF NextItem
      <3>5. PICK x \in {0, 1} : x = IF pe[i].sv_ready THEN 1 ELSE 0
        OBVIOUS
      <3> QED BY <3>1, <3>2, <3>3, <3>4, <3>5
    <2>3. ASSUME NEW j \in 1 .. Len(sv_stream[i])
          PROVE  sv_stream[i][j] \in [src : Line, last : BOOLEAN]
      <3>1. PICK t \in Nat : t = NextItem(i) + (j - 1) /\ m <= t /\ t < c
        <4>1. j \in 1 .. p /\ m + o + x = c - p /\ NextItem(i) = c - p
          BY <2>2
        <4>2. (c - p) + (j - 1) \in Nat /\ m <= (c - p) + (j - 1) /\ (c - p) + (j - 1) < c
          BY <4>1, Between
        <4> QED BY <4>1, <4>2
      <3>2. InRun(t)
        BY <1>1, <2>2, <3>1, ItemInRun
      <3>3. SourceAt(i, t) \in Line
        BY <1>1, <3>2, SourceAtType
      <3>4. LastAt(t) \in BOOLEAN
        BY DEF LastAt
      <3>5. sv_stream[i][j] = [src |-> SourceAt(i, t), last |-> LastAt(t)]
        BY <2>1, <3>1
      <3> QED BY <3>3, <3>4, <3>5
    <2> QED BY <2>1, <2>3, SeqOf
  <1>3. cl_stream[i] \in Seq([addr : Nat, data : Data, last : BOOLEAN])
    <2>1. PICK next \in [PE -> First .. Sent] : Chain(next)
      BY <1>1 DEF ElementsInv
    <2>2. /\ IsSeq(cl_stream[i]) /\ Len(cl_stream[i]) = Above(i, next) - next[i]
          /\ \A j \in 1 .. Len(cl_stream[i]) : cl_stream[i][j] = LineAt(next[i] + (j - 1))
      BY <2>1 DEF Chain
    <2>3. PICK n \in Nat, b \in Nat, f \in Nat, s \in Nat :
              /\ n = next[i] /\ b = Above(i, next) /\ f = First /\ s = Sent
              /\ f <= n /\ b <= s
      <3>1. First \in Nat /\ Sent \in Nat
        BY <1>1, LineNumbers
      <3>2. next[i] \in First .. Sent /\ Above(i, next) \in First .. Sent
        BY <1>1, <2>1, ChainType
      <3> QED BY <3>1, <3>2
    <2>4. ASSUME NEW j \in 1 .. Len(cl_stream[i])
          PROVE  cl_stream[i][j] \in [addr : Nat, data : Data, last : BOOLEAN]
      <3>1. PICK q \in Nat : q = n + (j - 1) /\ f <= q /\ q < s
        <4>1. j \in 1 .. b - n
          BY <2>2, <2>3
        <4> QED BY <2>3, <4>1, Within
      <3>2. /\ Addr(q) \in 0 .. End + 1
            /\ LineAt(q) = [addr |-> Addr(q), last |-> LineAt(q).last, data |-> LineAt(q).data]
            /\ LineAt(q).last \in BOOLEAN /\ LineAt(q).data \in Data
        BY <1>1, <2>3, <3>1, LineType
      <3>3. Addr(q) \in Nat
        BY <3>2, Constants
      <3>4. LineAt(q) \in [addr : Nat, data : Data, last : BOOLEAN]
        BY <3>2, <3>3
      <3> QED BY <2>2, <2>3, <3>1, <3>4
    <2> QED BY <2>2, <2>4, SeqOf
  <1>4. out_stream[i] \in Seq(Data)
    <2>1. IsSeq(out_stream[i]) /\ \A j \in 1 .. Len(out_stream[i]) : out_stream[i][j] \in Data
      BY <1>1 DEF ItemsInv, Serving
    <2> QED BY <2>1, SeqOf
  <1> QED BY <1>2, <1>3, <1>4

LEMMA PlaceType ==
    ASSUME FeedInv, NEW place, PlaceInv(place), place.item \in 0 .. 2 * PE_NUM
    PROVE  place \in [vector : 1 .. Len(source) + 1, item : 0 .. 2 * PE_NUM]
  <1>1. place = [vector |-> place.vector, item |-> place.item]
    BY DEF PlaceInv
  <1>2. place.vector \in 1 .. Len(source) + 1
    <2>1. place.vector \in 1 .. fed2 + 1
      BY DEF PlaceInv
    <2> QED BY <2>1, FedType
  <1> QED BY <1>1, <1>2

LEMMA InvariantTypes ==
    ASSUME IInv
    PROVE  TypeOK
  <1>1. FeedInv /\ RequestInv /\ PlacesInv /\ PkgInv /\ ElementTypes
    BY DEF IInv
  <1>2. /\ source \in Input /\ run \in 1 .. Len(source)
        /\ {fed, fed2} \subseteq 0 .. Len(source)
    <2>1. fed \in 0 .. Len(source) /\ fed2 \in 0 .. Len(source)
      BY <1>1, FedType
    <2> QED BY <1>1, <2>1 DEF FeedInv, StreamInv
  <1>3. /\ cmd \in Seq(0 .. End \div BURST)
        /\ taken \in 0 .. Len(cmd) /\ inner_idx \in 0 .. BURST - 1 \cup {1}
    <2>1. Upto(run - 1) \in Nat
      BY <1>1, RunType
    <2> QED BY <1>1, <2>1 DEF RequestInv
  <1>4. {dispatch, merge} \subseteq [vector : 1 .. Len(source) + 1, item : 0 .. 2 * PE_NUM]
    <2>1. /\ PlaceInv(dispatch) /\ PlaceInv(merge)
          /\ dispatch.item \in 0 .. 2 * PE_NUM - 1 /\ merge.item \in 0 .. 2 * PE_NUM
      BY <1>1 DEF PlacesInv
    <2>2. dispatch.item \in 0 .. 2 * PE_NUM
      BY <2>1, Constants
    <2> QED BY <1>1, <2>1, <2>2, PlaceType
  <1>5. ASSUME NEW i \in PE
        PROVE  /\ Len(sv_stream[i]) <= StreamDepth
               /\ Len(cl_stream[i]) <= StreamDepth
               /\ Len(out_stream[i]) <= StreamDepth
               /\ DOMAIN pe[i] = DOMAIN Fresh
               /\ pe[i].tb.data \in Data
               /\ {pe[i].min, pe[i].max} \subseteq 0 .. End + 2
    BY <1>1 DEF ElementTypes, Registers, Fresh
  <1>6. prop \in [PE -> [0 .. CACHE_LINES - 1 -> Data]] /\ pkg \in [Lane -> Data]
    BY <1>1 DEF ElementTypes
  <1> QED BY <1>2, <1>3, <1>4, <1>5, <1>6, StreamTypes DEF TypeOK

LEMMA MergedLane ==
    ASSUME IInv, NEW l \in Merged
    PROVE  Serving(pkg[l], source[merge.vector][l])
  BY DEF IInv, PkgInv, Merged

-----------------------------------------------------------------------------
(* The theorems. *)

(* The invariant of SrcCacheInvariant holds in every state: every source    *)
(* and every line is where its number says, and every element's window      *)
(* holds, by tag, the last of the lines that it stored.                     *)
THEOREM Invariance == Spec => []IInv
  <1>1. Init => IInv
    BY InitInvariant
  <1>2. IInv /\ [Next]_vars => IInv'
    <2> SUFFICES ASSUME IInv, [Next]_vars
                 PROVE  IInv'
      OBVIOUS
    <2>1. CASE ToCoalesce
      BY <2>1, ToCoalesceStep
    <2>2. CASE ToAccess
      BY <2>2, ToAccessStep
    <2>3. CASE Coalesce
      BY <2>3, CoalesceStep
    <2>4. CASE ReadEngine
      BY <2>4, ReadEngineStep
    <2>5. CASE SrcDispatch
      BY <2>5, SrcDispatchStep
    <2>6. ASSUME NEW i \in PE, SrcCachePe(i)
          PROVE  IInv'
      BY <2>6, SrcCachePeStep
    <2>7. CASE SrcMergeRead
      BY <2>7, SrcMergeReadStep
    <2>8. CASE SrcMergeWrite
      BY <2>8, SrcMergeWriteStep
    <2>9. CASE StartRun
      BY <2>9, StartRunStep
    <2>10. CASE Terminated \/ UNCHANGED vars
      BY <2>10, NoStep DEF Terminated
    <2> QED BY <2>1, <2>2, <2>3, <2>4, <2>5, <2>6, <2>7, <2>8, <2>9, <2>10 DEF Next, Kernels
  <1> QED BY <1>1, <1>2, PTL DEF Spec

(* Types are kept: in the streams around the elements are only sources of   *)
(* the run, lines the read engine sent, and properties that were read; none *)
(* holds more than it has room for, and the window of an element never ends *)
(* behind the dummy lines.                                                  *)
THEOREM TypeCorrect == Spec => []TypeOK
  BY Invariance, InvariantTypes, PTL

(* Nothing that was in a window before the line of a source came goes back  *)
(* to gs, however the sources lie: the window test of src_cache_pe_frp      *)
(* never admits a source whose place holds an earlier line, a line of an    *)
(* earlier run, or one of the dummy lines.                                  *)
THEOREM NeverServesStale == Spec => []NeverStale
  <1>1. IInv => NeverStale
    BY MergedLane DEF NeverStale, Serving
  <1> QED BY Invariance, <1>1, PTL

(* Where no burst lies between two sources, every lane that goes back to gs *)
(* carries the property of the source in the same lane of the same vector.  *)
THEOREM DenseLanesServed == Spec => []DenseLanesMatch
  <1>1. ASSUME IInv, Dense(source), NEW l \in Merged
        PROVE  pkg[l] = [run |-> run, line |-> source[merge.vector][l]]
    <2>1. Serving(pkg[l], source[merge.vector][l])
      BY <1>1, MergedLane
    <2> QED BY <1>1, <2>1 DEF Serving, Data
  <1>2. IInv => DenseLanesMatch
    BY <1>1 DEF DenseLanesMatch, LanesMatch
  <1> QED BY Invariance, <1>2, PTL

=============================================================================
