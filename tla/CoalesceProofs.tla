--------------------------- MODULE CoalesceProofs ---------------------------
(***************************************************************************)
(* The mergers and the filter of coalesce make the requests that Requests  *)
(* promises, and no others, for every number of lanes, depth of the        *)
(* streams and stream of vectors, and in every order of their steps.       *)
(***************************************************************************)
EXTENDS CoalesceInvariant, FiniteSetTheorems, WellFoundedInduction, TLAPS

-----------------------------------------------------------------------------
(* Natural numbers. *)

LEMMA LeastNatural ==
    ASSUME NEW S \in SUBSET Nat, S # {}
    PROVE  \E n \in S : \A m \in S : n <= m
  <1> DEFINE Below == {1 .. n : n \in S}
             Sub == StrictSubsetOrdering(Nat)
  <1>1. Below \subseteq FiniteSubsetsOf(Nat)
    <2> SUFFICES ASSUME NEW n \in S
                 PROVE  1 .. n \in FiniteSubsetsOf(Nat)
      OBVIOUS
    <2>1. n \in Nat /\ 1 .. n \in SUBSET Nat
      OBVIOUS
    <2>2. IsFiniteSet(1 .. n)
      BY <2>1, FS_Interval
    <2> QED BY <2>1, <2>2 DEF FiniteSubsetsOf
  <1>2. Below # {}
    OBVIOUS
  <1>3. IsWellFoundedOn(Sub, FiniteSubsetsOf(Nat))
    BY FS_StrictSubsetOrderingWellFounded
  <1>4. PICK B \in Below : \A C \in Below : <<C, B>> \notin Sub
    <2> HIDE DEF Below, Sub
    <2> QED BY <1>1, <1>2, <1>3, WFMin
  <1>5. PICK n \in S : B = 1 .. n
    OBVIOUS
  <1>6. ASSUME NEW m \in S
        PROVE  n <= m
    <2> SUFFICES ASSUME m < n
                 PROVE  FALSE
      OBVIOUS
    <2>1. 1 .. m \subseteq 1 .. n /\ n \in 1 .. n /\ n \notin 1 .. m
      OBVIOUS
    <2>2. <<1 .. m, 1 .. n>> \in Sub
      BY <2>1, 1 .. m \in SUBSET Nat, 1 .. n \in SUBSET Nat DEF StrictSubsetOrdering
    <2> QED BY <1>4, <1>5, <2>2
  <1> QED BY <1>6

LEMMA TimesMonotone ==
    ASSUME NEW x \in Nat, NEW y \in Nat, x <= y, NEW d \in Nat
    PROVE  x * d <= y * d
  <1>1. PICK z \in Nat : y = x + z
    OBVIOUS
  <1>2. (x + z) * d = x * d + z * d
    OBVIOUS
  <1>3. x * d \in Nat /\ z * d \in Nat
    OBVIOUS
  <1> QED BY <1>1, <1>2, <1>3

LEMMA Division ==
    ASSUME NEW c \in Nat \ {0}, NEW n \in Nat
    PROVE  /\ n \div c \in Nat /\ n % c \in 0 .. c - 1
           /\ (n \div c) * c \in Nat
           /\ n = (n \div c) * c + (n % c)
  OBVIOUS

LEMMA Quotient ==
    ASSUME NEW c \in Nat \ {0}, NEW q \in Nat, NEW r \in 0 .. c - 1
    PROVE  (q * c + r) \div c = q /\ (q * c + r) % c = r
  <1>1. PICK p \in Nat : p = q * c
    OBVIOUS
  <1> DEFINE a == p + r
             k == a \div c
  <1>2. a \in Nat
    BY <1>1
  <1>3. k \in Nat /\ a = k * c + (a % c) /\ a % c \in 0 .. c - 1
    BY <1>2
  <1>4. PICK m \in Nat : m = k * c
    BY <1>3
  <1> HIDE DEF k
  <1>5. ~(k + 1 <= q)
    <2> SUFFICES ASSUME k + 1 <= q
                 PROVE  FALSE
      OBVIOUS
    <2>1. (k + 1) * c <= q * c
      BY <1>3, TimesMonotone
    <2>2. (k + 1) * c = m + c
      BY <1>3, <1>4
    <2> QED BY <1>1, <1>3, <1>4, <2>1, <2>2
  <1>6. ~(q + 1 <= k)
    <2> SUFFICES ASSUME q + 1 <= k
                 PROVE  FALSE
      OBVIOUS
    <2>1. (q + 1) * c <= k * c
      BY <1>3, TimesMonotone
    <2>2. (q + 1) * c = p + c
      BY <1>1
    <2> QED BY <1>1, <1>3, <1>4, <2>1, <2>2
  <1>7. k = q
    BY <1>3, <1>5, <1>6
  <1>8. a = p + (a % c)
    BY <1>1, <1>3, <1>7
  <1> QED BY <1>1, <1>3, <1>7, <1>8 DEF k

-----------------------------------------------------------------------------
(* Vectors, and the sources in them. *)

LEMMA Constants == Lane \in Nat \ {0, 1} /\ Depth \in Nat \ {0}
  BY CoalesceAssumption DEF CoalesceAssumption

LEMMA Place ==
    ASSUME NEW x \in Nat
    PROVE  /\ First(x) \in Nat /\ x \div Lane \in Nat /\ x % Lane \in 0 .. Lane - 1
           /\ First(x) = (x \div Lane) * Lane
           /\ x = First(x) + (x % Lane)
           /\ First(x) <= x /\ x < First(x) + Lane
  <1>1. Lane \in Nat \ {0}
    BY Constants
  <1>2. /\ x \div Lane \in Nat /\ x % Lane \in 0 .. Lane - 1
        /\ (x \div Lane) * Lane \in Nat
        /\ x = (x \div Lane) * Lane + (x % Lane)
    BY <1>1, Division
  <1>3. PICK m \in Nat, l \in 0 .. Lane - 1 : m = (x \div Lane) * Lane /\ l = x % Lane
    BY <1>2
  <1>4. x = m + l /\ First(x) = m
    BY <1>2, <1>3 DEF First
  <1> QED BY <1>1, <1>2, <1>3, <1>4

\* Source l of vector k, both from 0.
LEMMA Position ==
    ASSUME NEW k \in Nat, NEW l \in 0 .. Lane - 1
    PROVE  /\ k * Lane \in Nat /\ k * Lane + l \in Nat
           /\ (k * Lane + l) \div Lane = k /\ (k * Lane + l) % Lane = l
           /\ First(k * Lane + l) = k * Lane
  <1>1. Lane \in Nat \ {0}
    BY Constants
  <1>2. (k * Lane + l) \div Lane = k /\ (k * Lane + l) % Lane = l
    BY <1>1, Quotient
  <1>3. k * Lane \in Nat
    BY <1>1
  <1>4. l \in Nat
    BY <1>1
  <1> QED BY <1>2, <1>3, <1>4 DEF First

LEMMA VectorStart ==
    ASSUME NEW k \in Nat
    PROVE  /\ k * Lane \in Nat /\ (k + 1) * Lane = k * Lane + Lane
           /\ (k * Lane) \div Lane = k /\ (k * Lane) % Lane = 0
           /\ First(k * Lane) = k * Lane
  <1>1. Lane \in Nat \ {0} /\ 0 \in 0 .. Lane - 1
    BY Constants
  <1>2. k * Lane \in Nat /\ (k + 1) * Lane = k * Lane + Lane
    BY <1>1
  <1>3. k * Lane + 0 = k * Lane
    BY <1>2
  <1> QED BY <1>1, <1>2, <1>3, Position

LEMMA SameVector ==
    ASSUME NEW x \in Nat, NEW y \in Nat, First(x) <= y, y < First(x) + Lane
    PROVE  /\ First(y) = First(x) /\ y \div Lane = x \div Lane
           /\ y % Lane = y - First(x)
  <1>1. PICK k \in Nat, m \in Nat : k = x \div Lane /\ m = k * Lane /\ m = First(x)
    BY Place
  <1>2. PICK l \in 0 .. Lane - 1 : y = m + l
    <2>1. y - m \in 0 .. Lane - 1 /\ y = m + (y - m)
      BY <1>1, Constants
    <2> QED BY <2>1
  <1>3. y \div Lane = k /\ y % Lane = l /\ First(y) = m
    BY <1>1, <1>2, Position
  <1>4. l = y - m
    BY <1>2, Constants
  <1> QED BY <1>1, <1>3, <1>4

\* The vector behind that of x begins with the source behind it.
LEMMA NextVector ==
    ASSUME NEW x \in Nat
    PROVE  /\ Behind(x) \in Nat /\ x < Behind(x) /\ Behind(x) = First(x) + Lane
           /\ Behind(x) % Lane = 0 /\ Behind(x) \div Lane = (x \div Lane) + 1
           /\ First(Behind(x)) = Behind(x)
  <1>1. PICK k \in Nat : k = x \div Lane
    BY Place
  <1>2. First(x) = k * Lane /\ x < First(x) + Lane /\ First(x) \in Nat
    BY <1>1, Place
  <1>3. Behind(x) = (k + 1) * Lane /\ Behind(x) = First(x) + Lane
    BY <1>2, VectorStart DEF Behind
  <1>4. k + 1 \in Nat
    OBVIOUS
  <1> QED BY <1>1, <1>2, <1>3, <1>4, VectorStart

LEMMA EarlierVector ==
    ASSUME NEW x \in Nat, NEW y \in Nat, x <= y
    PROVE  First(y) = First(x) \/ Behind(x) <= First(y)
  <1>1. PICK j \in Nat, k \in Nat :
            j = x \div Lane /\ k = y \div Lane /\ First(x) = j * Lane /\ First(y) = k * Lane
    BY Place
  <1>2. First(x) <= x /\ y < First(y) + Lane /\ First(x) \in Nat /\ First(y) \in Nat
    BY Place
  <1>3. CASE j <= k
    <2>1. j = k \/ j + 1 <= k
      BY <1>3
    <2>2. j + 1 <= k => (j + 1) * Lane <= k * Lane
      BY TimesMonotone, Constants
    <2>3. (j + 1) * Lane = Behind(x)
      BY <1>1, VectorStart DEF Behind
    <2> QED BY <1>1, <2>1, <2>2, <2>3
  <1>4. CASE k < j
    <2>1. (k + 1) * Lane <= j * Lane
      BY <1>4, TimesMonotone, Constants
    <2>2. (k + 1) * Lane = First(y) + Lane
      BY <1>1, VectorStart
    <2> QED BY <1>1, <1>2, <2>1, <2>2, Constants
  <1> QED BY <1>3, <1>4

-----------------------------------------------------------------------------
(* The bursts of the stream. *)

LEMMA Stream ==
    ASSUME input \in Input
    PROVE  /\ Len(input) \in Nat \ {0} /\ R!Width = Lane
           /\ \A k \in 1 .. Len(input) :
                 /\ Len(input[k]) = Lane
                 /\ \A l \in 1 .. Lane : input[k][l] \in Nat
  <1>1. /\ input \in Seq(Seq(Nat)) /\ input # <<>>
        /\ \A k \in DOMAIN input : Len(input[k]) = Lane
    BY CoalesceAssumption DEF CoalesceAssumption
  <1>2. Len(input) \in Nat \ {0} /\ DOMAIN input = 1 .. Len(input)
    BY <1>1
  <1>3. \A k \in 1 .. Len(input) : input[k] \in Seq(Nat) /\ Len(input[k]) = Lane
    <2> TAKE k \in 1 .. Len(input)
    <2>1. input[k] \in Seq(Nat)
      BY <1>1, <1>2
    <2> QED BY <1>1, <1>2, <2>1
  <1>4. \A k \in 1 .. Len(input) : \A l \in 1 .. Lane : input[k][l] \in Nat
    BY <1>3
  <1>5. 1 \in 1 .. Len(input)
    BY <1>2
  <1> QED BY <1>2, <1>3, <1>4, <1>5 DEF R!Width

LEMMA BurstIs ==
    ASSUME input \in Input, NEW x
    PROVE  Burst(x) = input[(x \div Lane) + 1][(x % Lane) + 1]
  BY Stream DEF Burst, R!Burst

LEMMA SourceIn ==
    ASSUME input \in Input, NEW x \in Nat, x < Len(input) * Lane
    PROVE  /\ (x \div Lane) + 1 \in 1 .. Len(input) /\ (x % Lane) + 1 \in 1 .. Lane
           /\ Burst(x) \in Nat
  <1>1. PICK k \in Nat, m \in Nat : k = x \div Lane /\ m = k * Lane /\ m <= x
    BY Place
  <1>2. k < Len(input)
    <2> SUFFICES ASSUME Len(input) <= k
                 PROVE  FALSE
      BY <1>1, Stream
    <2>1. PICK n \in Nat : n = Len(input)
      BY Stream
    <2>2. n * Lane <= k * Lane /\ n * Lane \in Nat
      BY <1>1, <2>1, Constants, TimesMonotone
    <2> QED BY <1>1, <2>1, <2>2
  <1>3. PICK l \in 0 .. Lane - 1 : l = x % Lane
    BY Place
  <1>4. k + 1 \in 1 .. Len(input)
    BY <1>1, <1>2, Stream
  <1>5. l + 1 \in 1 .. Lane
    BY <1>3, Constants
  <1> QED BY <1>1, <1>3, <1>4, <1>5, BurstIs, Stream

\* Where no source starts another burst, all are in the burst of the first.
LEMMA SameBurst ==
    ASSUME NEW a \in Nat, NEW b \in Nat, a <= b,
           \A y \in a + 1 .. b : Burst(y) = Burst(y - 1)
    PROVE  Burst(b) = Burst(a)
  <1> DEFINE S == {z \in a .. b : Burst(z) # Burst(a)}
  <1> SUFFICES ASSUME S # {}
               PROVE  FALSE
    <2>1. b \in a .. b
      OBVIOUS
    <2> QED BY <2>1
  <1>1. S \in SUBSET Nat
    OBVIOUS
  <1>2. PICK n \in S : \A m \in S : n <= m
    <2> HIDE DEF S
    <2> QED BY <1>1, LeastNatural
  <1>3. n \in a .. b /\ Burst(n) # Burst(a) /\ n # a
    BY <1>2
  <1>4. n - 1 \in a .. b /\ ~(n <= n - 1) /\ n \in a + 1 .. b
    BY <1>3
  <1>5. n - 1 \notin S
    <2> HIDE DEF S
    <2> QED BY <1>2, <1>4
  <1>6. Burst(n - 1) = Burst(a)
    BY <1>4, <1>5
  <1> QED BY <1>3, <1>4, <1>6

-----------------------------------------------------------------------------
(* Sequences that have the items of a set of sources in their order. *)

LEMMA EmptyHolds == ASSUME NEW item PROVE Holds(<<>>, {}, item)
  BY FS_EmptySet DEF Holds

LEMMA RankType ==
    ASSUME NEW S \in SUBSET Nat, IsFiniteSet(S), NEW x \in S
    PROVE  Rank(S, x) \in 1 .. Cardinality(S)
  <1> DEFINE T == {y \in S : y <= x}
  <1>1. T \subseteq S /\ x \in T
    OBVIOUS
  <1> HIDE DEF T
  <1>2. IsFiniteSet(T) /\ Cardinality(T) <= Cardinality(S)
    BY <1>1, FS_Subset
  <1>3. Cardinality(T) \in Nat /\ Cardinality(S) \in Nat /\ Cardinality(T) # 0
    BY <1>1, <1>2, FS_CardinalityType, FS_EmptySet
  <1>4. Rank(S, x) = Cardinality(T)
    BY DEF T, Rank
  <1> QED BY <1>2, <1>3, <1>4

LEMMA HoldsNothing ==
    ASSUME NEW S, IsFiniteSet(S), NEW item, NEW q, Holds(q, S, item)
    PROVE  Len(q) = 0 <=> S = {}
  BY FS_EmptySet DEF Holds

LEMMA HoldsTail ==
    ASSUME NEW S \in SUBSET Nat, IsFiniteSet(S), NEW item, NEW T, NEW q \in Seq(T),
           Holds(q, S, item), q # <<>>
    PROVE  \E x \in S : /\ \A y \in S : x <= y
                        /\ Head(q) = item[x]
                        /\ Holds(Tail(q), S \ {x}, item)
  <1>1. S # {}
    BY HoldsNothing
  <1>2. PICK x \in S : \A y \in S : x <= y
    BY <1>1, LeastNatural
  <1>3. Rank(S, x) = 1
    <2>1. \A y \in S : y <= x => y = x
      <3> SUFFICES ASSUME NEW y \in S, y <= x
                   PROVE  y = x
        OBVIOUS
      <3>1. x <= y /\ x \in Nat /\ y \in Nat
        BY <1>2
      <3> QED BY <3>1
    <2>2. x <= x
      BY <1>2
    <2>3. {y \in S : y <= x} = {x}
      BY <1>2, <2>1, <2>2
    <2> QED BY <2>3, FS_Singleton DEF Rank
  <1>4. Head(q) = item[x]
    BY <1>3 DEF Holds
  <1>5. Cardinality(S \ {x}) = Cardinality(S) - 1 /\ Len(q) \in Nat \ {0}
        /\ Len(Tail(q)) = Len(q) - 1
    <2>1. Cardinality(S \ {x}) = Cardinality(S) - 1
      BY <1>2, FS_RemoveElement
    <2>2. Len(q) \in Nat \ {0} /\ Len(Tail(q)) = Len(q) - 1
      OBVIOUS
    <2> QED BY <2>1, <2>2
  <1>6. ASSUME NEW y \in S \ {x}
        PROVE  Tail(q)[Rank(S \ {x}, y)] = item[y]
    <2> DEFINE A == {z \in S : z <= y}
               B == {z \in S \ {x} : z <= y}
    <2>1. B = A \ {x} /\ x \in A /\ A \subseteq S
      BY <1>2
    <2> HIDE DEF A, B
    <2>2. IsFiniteSet(A)
      BY <2>1, FS_Subset
    <2>3. Cardinality(B) = Cardinality(A) - 1
      BY <2>1, <2>2, FS_RemoveElement
    <2>4. Rank(S, y) = Cardinality(A) /\ Rank(S \ {x}, y) = Cardinality(B)
      BY DEF A, B, Rank
    <2>5. Rank(S \ {x}, y) \in 1 .. Cardinality(S \ {x})
      <3>1. IsFiniteSet(S \ {x}) /\ S \ {x} \in SUBSET Nat
        BY FS_Subset
      <3> QED BY <3>1, RankType
    <2>6. Rank(S \ {x}, y) \in 1 .. Len(Tail(q)) /\ Rank(S, y) \in Nat
      <3>1. Rank(S, y) \in 1 .. Cardinality(S)
        BY RankType
      <3> QED BY <1>5, <2>5, <3>1 DEF Holds
    <2>7. Rank(S, y) = Rank(S \ {x}, y) + 1
      BY <2>3, <2>4, <2>6
    <2>8. Tail(q)[Rank(S \ {x}, y)] = q[Rank(S, y)]
      BY <1>5, <2>6, <2>7
    <2> QED BY <2>8 DEF Holds
  <1>7. Holds(Tail(q), S \ {x}, item)
    BY <1>5, <1>6 DEF Holds
  <1> QED BY <1>2, <1>4, <1>7

LEMMA HoldsAppend ==
    ASSUME NEW S \in SUBSET Nat, IsFiniteSet(S), NEW item, NEW T, NEW q \in Seq(T),
           Holds(q, S, item), NEW x \in Nat, \A y \in S : y < x
    PROVE  Holds(Append(q, item[x]), S \cup {x}, item)
  <1>1. x \notin S
    <2> SUFFICES ASSUME x \in S PROVE x < x
      OBVIOUS
    <2> QED OBVIOUS
  <1> DEFINE p == Append(q, item[x])
  <1>2. /\ Len(q) \in Nat /\ Len(p) = Len(q) + 1 /\ p[Len(q) + 1] = item[x]
        /\ \A j \in 1 .. Len(q) : p[j] = q[j]
    OBVIOUS
  <1>3. Cardinality(S \cup {x}) = Cardinality(S) + 1
    BY <1>1, FS_AddElement
  <1>4. Len(p) = Cardinality(S \cup {x})
    BY <1>2, <1>3 DEF Holds
  <1>5. ASSUME NEW y \in S
        PROVE  p[Rank(S \cup {x}, y)] = item[y]
    <2>1. {z \in S \cup {x} : z <= y} = {z \in S : z <= y}
      OBVIOUS
    <2>2. Rank(S \cup {x}, y) = Rank(S, y)
      BY <2>1 DEF Rank
    <2>3. Rank(S, y) \in 1 .. Len(q)
      BY RankType DEF Holds
    <2> HIDE DEF p
    <2> QED BY <1>2, <2>2, <2>3 DEF Holds
  <1>6. p[Rank(S \cup {x}, x)] = item[x]
    <2>1. \A z \in S \cup {x} : z <= x
      OBVIOUS
    <2>3. {z \in S \cup {x} : z <= x} = S \cup {x}
      BY <2>1
    <2>2. Rank(S \cup {x}, x) = Len(q) + 1
      BY <1>2, <1>4, <2>3 DEF Rank
    <2> HIDE DEF p
    <2> QED BY <1>2, <2>2
  <1> HIDE DEF p
  <1>7. Holds(p, S \cup {x}, item)
    BY <1>4, <1>5, <1>6 DEF Holds
  <1> QED BY <1>7 DEF p

-----------------------------------------------------------------------------
(* The items of a stream. *)

LEMMA ItemsIs ==
    ASSUME input \in Input, NEW i, NEW x
    PROVE  x \in Items(i) <=> /\ x \in Nat /\ x < Len(input) * Lane
                              /\ x % Lane < i /\ Starts(x)
  <1>1. PICK n \in Nat : n = Len(input) * Lane
    BY Stream, Constants
  <1>2. x \in 0 .. n - 1 <=> x \in Nat /\ x < n
    BY <1>1
  <1> QED BY <1>1, <1>2 DEF Items

LEMMA BetweenType ==
    ASSUME input \in Input, NEW i, NEW a, NEW b
    PROVE  Between(i, a, b) \in SUBSET Nat /\ IsFiniteSet(Between(i, a, b))
  <1>1. PICK n \in Nat : n = Len(input) * Lane
    BY Stream, Constants
  <1>2. Between(i, a, b) \subseteq 0 .. n - 1
    BY <1>1 DEF Between, Items
  <1>3. IsFiniteSet(0 .. n - 1)
    BY FS_Interval
  <1>4. 0 .. n - 1 \subseteq Nat
    OBVIOUS
  <1> QED BY <1>2, <1>3, <1>4, FS_Subset

\* Reading the next item from a stream.
LEMMA TakeItem ==
    ASSUME input \in Input, NEW i, NEW a \in Nat, NEW b \in Nat,
           NEW T, NEW q \in Seq(T), Holds(q, Between(i, a, b), Item(i)), q # <<>>
    PROVE  \E x \in Between(i, a, b) :
              /\ Head(q) = [data |-> Burst(x), last |-> IsLast(i, x)]
              /\ Between(i, a, x) = {} /\ Between(i, a, x + 1) = {x}
              /\ Holds(Tail(q), Between(i, x + 1, b), Item(i))
  <1> DEFINE S == Between(i, a, b)
  <1>1. S \in SUBSET Nat /\ IsFiniteSet(S)
    BY BetweenType
  <1>2. PICK x \in S : /\ \A y \in S : x <= y
                       /\ Head(q) = Item(i)[x]
                       /\ Holds(Tail(q), S \ {x}, Item(i))
    <2> HIDE DEF S
    <2>1. Holds(q, S, Item(i))
      BY DEF S
    <2> QED BY <1>1, <2>1, HoldsTail
  <1>3. x \in Nat /\ x \in Items(i) /\ a <= x /\ x < b
    BY <1>1, <1>2 DEF Between
  <1>4. Head(q) = [data |-> Burst(x), last |-> IsLast(i, x)]
    BY <1>2, <1>3 DEF Item
  <1>5. ASSUME NEW y \in Items(i), a <= y, y <= x
        PROVE  y = x
    <2>1. y \in Nat
      BY ItemsIs
    <2>2. y < b
      BY <1>3, <1>5, <2>1
    <2>3. x <= y
      BY <1>2, <1>5, <2>2 DEF Between
    <2> QED BY <1>3, <1>5, <2>1, <2>3
  <1>6. Between(i, a, x) = {}
    <2> SUFFICES ASSUME NEW y \in Items(i), a <= y, y < x
                 PROVE  FALSE
      BY DEF Between
    <2>1. y \in Nat /\ y <= x
      BY <1>3, ItemsIs
    <2> QED BY <1>3, <1>5, <2>1
  <1>7. Between(i, a, x + 1) = {x}
    <2>1. ASSUME NEW y \in Items(i), a <= y, y < x + 1
          PROVE  y = x
      <3>1. y \in Nat /\ y <= x
        BY <1>3, <2>1, ItemsIs
      <3> QED BY <1>5, <2>1, <3>1
    <2>2. x < x + 1
      BY <1>3
    <2> QED BY <1>3, <2>1, <2>2 DEF Between
  <1>8. S \ {x} = Between(i, x + 1, b)
    <2>1. ASSUME NEW y \in Items(i)
          PROVE  (a <= y /\ y < b /\ y # x) <=> (x + 1 <= y /\ y < b)
      <3>1. y \in Nat
        BY ItemsIs
      <3>2. a <= y /\ y < b => x <= y
        BY <1>2 DEF Between
      <3> QED BY <1>3, <3>1, <3>2
    <2> QED BY <2>1 DEF Between
  <1> QED BY <1>2, <1>3, <1>4, <1>6, <1>7, <1>8

\* Writing the item of the next source of a stream.
LEMMA PutItem ==
    ASSUME input \in Input, NEW i, NEW a \in Nat, NEW b \in Nat, NEW c \in Nat,
           NEW T, NEW q \in Seq(T), Holds(q, Between(i, a, b), Item(i)),
           NEW x \in Items(i), a <= b, b <= x, x < c,
           Between(i, b, x) = {}, Between(i, x + 1, c) = {}
    PROVE  Holds(Append(q, [data |-> Burst(x), last |-> IsLast(i, x)]),
                 Between(i, a, c), Item(i))
  <1> DEFINE S == Between(i, a, b)
  <1>1. S \in SUBSET Nat /\ IsFiniteSet(S)
    BY BetweenType
  <1>2. x \in Nat
    BY ItemsIs
  <1>3. \A y \in S : y < x
    BY <1>1, <1>2 DEF Between
  <1>4. Holds(Append(q, Item(i)[x]), S \cup {x}, Item(i))
    <2>1. Holds(q, S, Item(i))
      OBVIOUS
    <2> HIDE DEF S
    <2> QED BY <1>1, <1>2, <1>3, <2>1, HoldsAppend
  <1>5. Item(i)[x] = [data |-> Burst(x), last |-> IsLast(i, x)]
    BY DEF Item
  <1>6. S \cup {x} = Between(i, a, c)
    <2>1. ASSUME NEW y \in Items(i)
          PROVE  (a <= y /\ y < b) \/ y = x <=> (a <= y /\ y < c)
      <3>1. y \in Nat
        BY ItemsIs
      <3>2. ~(b <= y /\ y < x)
        BY DEF Between
      <3>3. ~(x + 1 <= y /\ y < c)
        BY DEF Between
      <3> QED BY <1>2, <3>1, <3>2, <3>3
    <2> QED BY <2>1 DEF Between
  <1> QED BY <1>4, <1>5, <1>6

LEMMA SameInput ==
    ASSUME input' = input, NEW i, NEW x, NEW a, NEW b
    PROVE  /\ Burst(x)' = Burst(x) /\ Starts(x)' = Starts(x)
           /\ IsLast(i, x)' = IsLast(i, x)
           /\ Items(i)' = Items(i) /\ Between(i, a, b)' = Between(i, a, b)
           /\ Item(i)' = Item(i)
  BY DEF Burst, R!Burst, R!Width, Starts, IsLast, Items, Between, Item

-----------------------------------------------------------------------------
(* Types. *)

ItemType == [data : Nat, last : BOOLEAN]
Register == [valid : BOOLEAN, data : Nat, last : BOOLEAN]

LEMMA Types ==
    TypeOK <=>
       /\ input \in Input /\ fed \in 0 .. Len(input)
       /\ single \in [Merger -> Seq(ItemType)]
       /\ inner \in [1 .. Lane -> Seq(ItemType)]
       /\ \A i \in Merger : Len(single[i]) <= Depth
       /\ \A i \in 1 .. Lane : Len(inner[i]) <= Depth
       /\ src1 \in [Merger -> Register] /\ src2 \in [Merger -> Register]
       /\ state \in [Merger -> {"ST_SRC1", "ST_SRC2"}]
       /\ cmd \in Seq(Nat)
  BY DEF TypeOK, ItemType, Register

LEMMA NextTypes ==
    TypeOK' <=>
       /\ input' \in Input /\ fed' \in 0 .. Len(input')
       /\ single' \in [Merger -> Seq(ItemType)]
       /\ inner' \in [1 .. Lane -> Seq(ItemType)]
       /\ \A i \in Merger : Len(single'[i]) <= Depth
       /\ \A i \in 1 .. Lane : Len(inner'[i]) <= Depth
       /\ src1' \in [Merger -> Register] /\ src2' \in [Merger -> Register]
       /\ state' \in [Merger -> {"ST_SRC1", "ST_SRC2"}]
       /\ cmd' \in Seq(Nat)
  BY DEF TypeOK, ItemType, Register

LEMMA MergerType ==
    ASSUME NEW i \in Merger
    PROVE  /\ i \in Nat /\ 2 <= i /\ i <= Lane /\ i \in 1 .. Lane /\ i - 1 \in 1 .. Lane
           /\ i \in 2 .. Lane + 1 /\ i - 1 \in Nat /\ (i - 1) + 1 = i
           /\ i - 1 \in 0 .. Lane - 1
  BY Constants DEF Merger

LEMMA NextItem ==
    ASSUME NEW q \in Seq(ItemType), q # <<>>
    PROVE  /\ Head(q) \in ItemType /\ Tail(q) \in Seq(ItemType)
           /\ Head(q).data \in Nat /\ Head(q).last \in BOOLEAN
           /\ Valid(Head(q)) \in Register
           /\ Len(Tail(q)) = Len(q) - 1 /\ Len(q) \in Nat \ {0}
           /\ Head(q) = q[1] /\ \A j \in 1 .. Len(Tail(q)) : Tail(q)[j] = q[j + 1]
  <1>1. Head(q) \in ItemType /\ Tail(q) \in Seq(ItemType) /\ Head(q) = q[1]
    OBVIOUS
  <1>2. /\ Len(Tail(q)) = Len(q) - 1 /\ Len(q) \in Nat \ {0}
        /\ \A j \in 1 .. Len(Tail(q)) : Tail(q)[j] = q[j + 1]
    OBVIOUS
  <1> QED BY <1>1, <1>2 DEF ItemType, Register, Valid

LEMMA MoreItems ==
    ASSUME NEW q \in Seq(ItemType), NEW e \in ItemType
    PROVE  /\ Append(q, e) \in Seq(ItemType)
           /\ Len(Append(q, e)) = Len(q) + 1 /\ Len(q) \in Nat
           /\ Append(q, e)[Len(q) + 1] = e
           /\ \A j \in 1 .. Len(q) : Append(q, e)[j] = q[j]
  OBVIOUS

LEMMA InvalidType == Invalid \in Register /\ ~Invalid.valid
  BY DEF Invalid, Register

LEMMA InitType == Init => TypeOK
  <1> SUFFICES ASSUME Init
               PROVE  TypeOK
    OBVIOUS
  <1>1. input \in Input /\ fed \in 0 .. Len(input)
    BY Stream DEF Init
  <1>2. <<>> \in Seq(ItemType) /\ <<>> \in Seq(Nat) /\ Len(<<>>) = 0
    OBVIOUS
  <1>3. 0 <= Depth
    BY Constants
  <1> QED BY <1>1, <1>2, <1>3, Types, InvalidType DEF Init

LEMMA SrcToAddressType ==
    ASSUME TypeOK, SrcToAddress
    PROVE  TypeOK'
  <1> USE Types, NextTypes
  <1> DEFINE item(i) == [data |-> input[fed + 1][i], last |-> TRUE]
  <1>1. fed + 1 \in 1 .. Len(input) /\ fed' \in 0 .. Len(input)
    BY Stream DEF SrcToAddress
  <1>2. \A i \in 1 .. Lane : item(i) \in ItemType
    BY <1>1, Stream DEF ItemType
  <1>3. \A i \in Merger : i \in 1 .. Lane
    BY MergerType
  <1>4. /\ single' = [i \in Merger |-> Append(single[i], item(i))]
        /\ inner' = [inner EXCEPT ![1] = Append(@, item(1))]
        /\ UNCHANGED <<input, src1, src2, state, cmd>>
    BY DEF SrcToAddress
  <1> HIDE DEF item
  <1>5. 1 \in 1 .. Lane
    BY Constants
  <1>6. single' \in [Merger -> Seq(ItemType)] /\ inner' \in [1 .. Lane -> Seq(ItemType)]
    <2>1. \A i \in Merger : Append(single[i], item(i)) \in Seq(ItemType)
      BY <1>2, <1>3, MoreItems
    <2>2. Append(inner[1], item(1)) \in Seq(ItemType)
      BY <1>2, <1>5, MoreItems
    <2>3. single' \in [Merger -> Seq(ItemType)]
      BY <1>4, <2>1
    <2>4. inner' \in [1 .. Lane -> Seq(ItemType)]
      BY <1>4, <2>2
    <2> QED BY <2>3, <2>4
  <1>7. ASSUME NEW i \in Merger
        PROVE  Len(single'[i]) <= Depth
    <2>1. Len(single'[i]) = Len(single[i]) + 1 /\ Len(single[i]) \in Nat
      BY <1>2, <1>3, <1>4, MoreItems
    <2>2. Len(single[i]) < Depth
      BY DEF SrcToAddress
    <2> QED BY <2>1, <2>2, Constants
  <1>8. ASSUME NEW i \in 1 .. Lane
        PROVE  Len(inner'[i]) <= Depth
    <2>1. CASE i = 1
      <3>1. Len(inner'[1]) = Len(inner[1]) + 1 /\ Len(inner[1]) \in Nat
        BY <1>2, <1>4, <1>5, MoreItems
      <3>2. Len(inner[1]) < Depth
        BY DEF SrcToAddress
      <3> QED BY <2>1, <3>1, <3>2, Constants
    <2>2. CASE i # 1
      BY <1>4, <2>2
    <2> QED BY <2>1, <2>2
  <1> QED BY <1>1, <1>4, <1>6, <1>7, <1>8

LEMMA ReadSrc1Type ==
    ASSUME TypeOK, NEW i \in Merger, ReadSrc1(i)
    PROVE  TypeOK'
  <1> USE Types, NextTypes
  <1>1. inner[i - 1] \in Seq(ItemType) /\ inner[i - 1] # <<>> /\ i - 1 \in 1 .. Lane
    BY MergerType DEF ReadSrc1
  <1>2. /\ src1' = [src1 EXCEPT ![i] = Valid(Head(inner[i - 1]))]
        /\ inner' = [inner EXCEPT ![i - 1] = Tail(@)]
        /\ UNCHANGED <<input, fed, single, src2, state, cmd>>
    BY DEF ReadSrc1
  <1>3. src1' \in [Merger -> Register] /\ inner' \in [1 .. Lane -> Seq(ItemType)]
    BY <1>1, <1>2, NextItem
  <1>4. ASSUME NEW j \in 1 .. Lane
        PROVE  Len(inner'[j]) <= Depth
    <2>1. CASE j = i - 1
      <3>1. Len(inner'[j]) = Len(inner[j]) - 1 /\ Len(inner[j]) \in Nat
        BY <1>1, <1>2, <2>1, NextItem
      <3>2. Len(inner[j]) <= Depth
        OBVIOUS
      <3> QED BY <3>1, <3>2, Constants
    <2>2. CASE j # i - 1
      BY <1>2, <2>2
    <2> QED BY <2>1, <2>2
  <1> QED BY <1>2, <1>3, <1>4

LEMMA ReadSrc2Type ==
    ASSUME TypeOK, NEW i \in Merger, ReadSrc2(i)
    PROVE  TypeOK'
  <1> USE Types, NextTypes
  <1>1. single[i] \in Seq(ItemType) /\ single[i] # <<>>
    BY DEF ReadSrc2
  <1>2. /\ src2' = [src2 EXCEPT ![i] = Valid(Head(single[i]))]
        /\ single' = [single EXCEPT ![i] = Tail(@)]
        /\ UNCHANGED <<input, fed, inner, src1, state, cmd>>
    BY DEF ReadSrc2
  <1>3. src2' \in [Merger -> Register] /\ single' \in [Merger -> Seq(ItemType)]
    BY <1>1, <1>2, NextItem
  <1>4. ASSUME NEW j \in Merger
        PROVE  Len(single'[j]) <= Depth
    <2>1. CASE j = i
      <3>1. Len(single'[j]) = Len(single[j]) - 1 /\ Len(single[j]) \in Nat
        BY <1>1, <1>2, <2>1, NextItem
      <3>2. Len(single[j]) <= Depth
        OBVIOUS
      <3> QED BY <3>1, <3>2, Constants
    <2>2. CASE j # i
      BY <1>2, <2>2
    <2> QED BY <2>1, <2>2
  <1> QED BY <1>2, <1>3, <1>4

\* Writing an item keeps the type of the streams.
LEMMA WriteType ==
    ASSUME TypeOK, NEW i \in Merger, NEW x \in Register, NEW last \in BOOLEAN,
           Write(i, x, last)
    PROVE  /\ inner' \in [1 .. Lane -> Seq(ItemType)]
           /\ \A j \in 1 .. Lane : Len(inner'[j]) <= Depth
           /\ inner'[i] = Append(inner[i], [data |-> x.data, last |-> last])
           /\ \A j \in 1 .. Lane : j # i => inner'[j] = inner[j]
  <1> USE Types, NextTypes
  <1> DEFINE e == [data |-> x.data, last |-> last]
  <1>1. e \in ItemType /\ i \in 1 .. Lane
    BY MergerType DEF ItemType, Register
  <1>2. Len(inner[i]) < Depth /\ inner' = [inner EXCEPT ![i] = Append(@, e)]
    BY DEF Write
  <1> HIDE DEF e
  <1>3. inner' \in [1 .. Lane -> Seq(ItemType)] /\ inner'[i] = Append(inner[i], e)
        /\ \A j \in 1 .. Lane : j # i => inner'[j] = inner[j]
    <2>1. Append(inner[i], e) \in Seq(ItemType)
      BY <1>1, MoreItems
    <2>2. inner' \in [1 .. Lane -> Seq(ItemType)]
      BY <1>2, <2>1
    <2> QED BY <1>1, <1>2, <2>2
  <1>4. Len(inner'[i]) <= Depth
    <2>1. Len(inner'[i]) = Len(inner[i]) + 1 /\ Len(inner[i]) \in Nat
      BY <1>1, <1>3, MoreItems
    <2> QED BY <1>2, <2>1, Constants
  <1>5. \A j \in 1 .. Lane : Len(inner'[j]) <= Depth
    BY <1>3, <1>4
  <1> QED BY <1>3, <1>5 DEF e

LEMMA WriteSrc1Type ==
    ASSUME TypeOK, NEW i \in Merger, WriteSrc1(i)
    PROVE  TypeOK'
  <1> USE Types, NextTypes
  <1> DEFINE same == src1[i].last /\ src1[i].data = src2[i].data
             own == src1[i].last /\ ~same
  <1>1. /\ Write(i, src1[i], same)
        /\ state' = [state EXCEPT ![i] = IF own THEN "ST_SRC2" ELSE "ST_SRC1"]
        /\ src2' = [src2 EXCEPT ![i] = IF same THEN Invalid ELSE @]
        /\ src1' = [src1 EXCEPT ![i] = Invalid]
        /\ UNCHANGED <<input, fed, single, cmd>>
    BY DEF WriteSrc1
  <1>2. same \in BOOLEAN /\ src1[i] \in Register
    BY DEF Register
  <1> HIDE DEF same, own
  <1>3. inner' \in [1 .. Lane -> Seq(ItemType)] /\ \A j \in 1 .. Lane : Len(inner'[j]) <= Depth
    BY <1>1, <1>2, WriteType
  <1>4. /\ state' \in [Merger -> {"ST_SRC1", "ST_SRC2"}]
        /\ src2' \in [Merger -> Register] /\ src1' \in [Merger -> Register]
    BY <1>1, InvalidType
  <1> QED BY <1>1, <1>3, <1>4

LEMMA WriteSrc2Type ==
    ASSUME TypeOK, NEW i \in Merger, WriteSrc2(i)
    PROVE  TypeOK'
  <1> USE Types, NextTypes
  <1>1. /\ Write(i, src2[i], TRUE)
        /\ state' = [state EXCEPT ![i] = "ST_SRC1"]
        /\ src2' = [src2 EXCEPT ![i] = Invalid]
        /\ UNCHANGED <<input, fed, single, src1, cmd>>
    BY DEF WriteSrc2
  <1>2. src2[i] \in Register
    OBVIOUS
  <1>3. inner' \in [1 .. Lane -> Seq(ItemType)] /\ \A j \in 1 .. Lane : Len(inner'[j]) <= Depth
    BY <1>1, <1>2, WriteType
  <1>4. state' \in [Merger -> {"ST_SRC1", "ST_SRC2"}] /\ src2' \in [Merger -> Register]
    BY <1>1, InvalidType
  <1> QED BY <1>1, <1>3, <1>4

LEMMA FilterType ==
    ASSUME TypeOK, FilterSameItem
    PROVE  TypeOK'
  <1> USE Types, NextTypes
  <1> DEFINE q == inner[Lane]
  <1>1. Lane \in 1 .. Lane /\ q \in Seq(ItemType) /\ q # <<>>
    BY Constants DEF FilterSameItem
  <1>2. /\ cmd' = cmd \/ cmd' = Append(cmd, Head(q).data)
        /\ inner' = [inner EXCEPT ![Lane] = Tail(@)]
        /\ UNCHANGED <<input, fed, single, src1, src2, state>>
    BY DEF FilterSameItem
  <1>3. cmd' \in Seq(Nat) /\ inner' \in [1 .. Lane -> Seq(ItemType)]
    <2>1. Head(q).data \in Nat /\ Tail(q) \in Seq(ItemType)
      BY <1>1, NextItem
    <2>2. Append(cmd, Head(q).data) \in Seq(Nat)
      BY <2>1
    <2>3. inner' \in [1 .. Lane -> Seq(ItemType)]
      BY <1>2, <2>1
    <2> HIDE DEF q
    <2> QED BY <1>2, <2>2, <2>3
  <1>4. ASSUME NEW j \in 1 .. Lane
        PROVE  Len(inner'[j]) <= Depth
    <2>1. CASE j = Lane
      <3>1. Len(inner'[j]) = Len(inner[j]) - 1 /\ Len(inner[j]) \in Nat
        BY <1>1, <1>2, <2>1, NextItem
      <3>2. Len(inner[j]) <= Depth
        OBVIOUS
      <3> QED BY <3>1, <3>2, Constants
    <2>2. CASE j # Lane
      BY <1>2, <2>2
    <2> QED BY <2>1, <2>2
  <1> QED BY <1>2, <1>3, <1>4

LEMMA TypeStep ==
    ASSUME TypeOK, [Next]_vars
    PROVE  TypeOK'
  <1>1. CASE UNCHANGED vars
    BY <1>1, Types, NextTypes DEF vars
  <1>2. CASE SrcToAddress
    BY <1>2, SrcToAddressType
  <1>3. ASSUME NEW i \in Merger, MergeSameItem(i)
        PROVE  TypeOK'
    BY <1>3, ReadSrc1Type, ReadSrc2Type, WriteSrc1Type, WriteSrc2Type DEF MergeSameItem
  <1>4. CASE FilterSameItem
    BY <1>4, FilterType
  <1> QED BY <1>1, <1>2, <1>3, <1>4 DEF Next, Waiting

-----------------------------------------------------------------------------
(* Streams and mergers that a step leaves alone. *)

LEMMA NoneBetween ==
    ASSUME input \in Input, NEW i, NEW a \in Nat, NEW b \in Nat, b <= a
    PROVE  Between(i, a, b) = {}
  <1> SUFFICES ASSUME NEW x \in Items(i), a <= x, x < b
               PROVE  FALSE
    BY DEF Between
  <1>1. x \in Nat
    BY ItemsIs
  <1> QED BY <1>1

LEMMA KeepStream ==
    ASSUME input' = input, fed \in Nat, fed' \in Nat, fed <= fed',
           NEW i, inner'[i] = inner[i], NEW r \in Nat, NEW w \in Nat, StreamInv(i, r, w)
    PROVE  StreamInv(i, r, w)'
  <1>1. fed * Lane <= fed' * Lane /\ fed * Lane \in Nat /\ fed' * Lane \in Nat
    <2>1. PICK m \in Nat, n \in Nat : m = fed /\ n = fed'
      OBVIOUS
    <2>2. Lane \in Nat /\ m <= n
      BY <2>1, Constants
    <2>3. m * Lane <= n * Lane
      BY <2>2, TimesMonotone
    <2>4. m * Lane \in Nat /\ n * Lane \in Nat
      BY <2>2
    <2> QED BY <2>1, <2>3, <2>4
  <1>2. w <= fed' * Lane
    BY <1>1 DEF StreamInv
  <1>3. Item(i)' = Item(i) /\ Between(i, r, w)' = Between(i, r, w)
    BY SameInput
  <1>4. Holds(inner'[i], Between(i, r, w)', Item(i)')
    BY <1>3 DEF StreamInv
  <1> QED BY <1>2, <1>4 DEF StreamInv, Holds

LEMMA KeepMerger ==
    ASSUME input' = input, fed' = fed,
           NEW i, src1'[i] = src1[i], src2'[i] = src2[i], single'[i] = single[i],
           state'[i] = state[i], NEW w, NEW r, MergerInv(i, w, r)
    PROVE  MergerInv(i, w, r)'
  <1>1. OwnInv(i, w)'
    BY DEF MergerInv, OwnInv
  <1>2. Between(i - 1, w, r)' = Between(i - 1, w, r)
    BY SameInput
  <1>3. IF src1'[i].valid
        THEN \E x \in Items(i - 1)' :
                /\ Between(i - 1, w, r)' = {x}
                /\ src1'[i].data = Burst(x)' /\ src1'[i].last = IsLast(i - 1, x)'
        ELSE Between(i - 1, w, r)' = {}
    <2>1. CASE src1[i].valid
      <3>1. PICK x \in Items(i - 1) :
                /\ Between(i - 1, w, r) = {x}
                /\ src1[i].data = Burst(x) /\ src1[i].last = IsLast(i - 1, x)
        BY <2>1 DEF MergerInv
      <3>2. /\ Items(i - 1)' = Items(i - 1) /\ Burst(x)' = Burst(x)
            /\ IsLast(i - 1, x)' = IsLast(i - 1, x)
        BY SameInput
      <3> QED BY <1>2, <2>1, <3>1, <3>2
    <2>2. CASE ~src1[i].valid
      BY <1>2, <2>2 DEF MergerInv
    <2> QED BY <2>1, <2>2
  <1>4. IF state'[i] = "ST_SRC2"
        THEN src2'[i].valid /\ w % Lane = i - 1 /\ Starts(w)'
        ELSE w % Lane = 0 \/ \E y \in w .. First(w) + i - 2 : Starts(y)'
    <2>1. Starts(w)' = Starts(w) /\ \A y : Starts(y)' = Starts(y)
      BY SameInput
    <2> QED BY <2>1 DEF MergerInv
  <1>5. w <= r
    BY DEF MergerInv
  <1>6. First(w)' = First(w)
    BY DEF First
  <1> QED BY <1>1, <1>3, <1>4, <1>5, <1>6 DEF MergerInv

LEMMA KeepFilter ==
    ASSUME input' = input, fed' = fed, cmd' = cmd, NEW r, FilterInv(r)
    PROVE  FilterInv(r)'
  BY DEF FilterInv, Burst, R!Touched, R!Burst, R!Width

\* Sources that start another burst, in or between vectors.
Touches(r) == {x \in 0 .. r - 1 : x = 0 \/ Burst(x) # Burst(x - 1)}

LEMMA TouchesIs ==
    ASSUME input \in Input, NEW k \in Nat, NEW r \in Nat, r <= k * Lane
    PROVE  {x \in R!Touched(k) : x < r} = Touches(r)
  <1>1. PICK n \in Nat : n = k * Lane
    BY Constants
  <1>2. \A x : x \in 0 .. n - 1 /\ x < r <=> x \in 0 .. r - 1
    BY <1>1
  <1>3. R!Touched(k) = {x \in 0 .. n - 1 : x = 0 \/ Burst(x) # Burst(x - 1)}
    BY <1>1, Stream DEF R!Touched, Burst
  <1> QED BY <1>2, <1>3 DEF Touches

LEMMA LayoutType ==
    ASSUME TypeOK, NEW w \in [1 .. Lane -> Nat], NEW r \in [2 .. Lane + 1 -> Nat], Layout(w, r)
    PROVE  /\ input \in Input /\ fed \in Nat /\ fed <= Len(input)
           /\ \A i \in 1 .. Lane : w[i] \in Nat /\ r[i + 1] \in Nat /\ i + 1 \in 2 .. Lane + 1
           /\ \A i \in Merger : r[i] \in Nat
  <1>1. input \in Input /\ fed \in Nat /\ fed <= Len(input)
    BY Types, Stream
  <1>2. \A i \in 1 .. Lane : i + 1 \in 2 .. Lane + 1
    BY Constants
  <1>3. \A i \in Merger : i \in 2 .. Lane + 1
    BY MergerType
  <1> QED BY <1>1, <1>2, <1>3

\* A step of merger i takes it to w and r.
LEMMA MergerStep ==
    ASSUME TypeOK, NEW w \in [1 .. Lane -> Nat], NEW r \in [2 .. Lane + 1 -> Nat], Layout(w, r),
           NEW i \in Merger, NEW c \in Nat, NEW d \in Nat,
           UNCHANGED <<input, fed, cmd>>,
           \A j \in 1 .. Lane : j \notin {i - 1, i} => inner'[j] = inner[j],
           \A j \in Merger : j # i => /\ src1'[j] = src1[j] /\ src2'[j] = src2[j]
                                      /\ state'[j] = state[j] /\ single'[j] = single[j],
           StreamInv(i - 1, d, w[i - 1])', StreamInv(i, r[i + 1], c)', MergerInv(i, c, d)'
    PROVE  \E v \in [1 .. Lane -> Nat], s \in [2 .. Lane + 1 -> Nat] : Layout(v, s)'
  <1> DEFINE v == [w EXCEPT ![i] = c]
             s == [r EXCEPT ![i] = d]
  <1>1. /\ i \in Nat /\ 2 <= i /\ i \in 1 .. Lane /\ i - 1 \in 1 .. Lane
        /\ i \in 2 .. Lane + 1 /\ (i - 1) + 1 = i
    BY MergerType
  <1>2. v \in [1 .. Lane -> Nat] /\ s \in [2 .. Lane + 1 -> Nat]
    OBVIOUS
  <1>3. /\ v[i] = c /\ \A j \in 1 .. Lane : j # i => v[j] = w[j]
        /\ s[i] = d /\ \A j \in 2 .. Lane + 1 : j # i => s[j] = r[j]
    BY <1>1
  <1> HIDE DEF v, s
  <1>4. v[1] = (fed * Lane)'
    <2>1. 1 \in 1 .. Lane /\ i # 1
      BY <1>1, Constants
    <2> QED BY <1>3, <2>1 DEF Layout
  <1>5. ASSUME NEW j \in 1 .. Lane
        PROVE  StreamInv(j, s[j + 1], v[j])'
    <2>1. CASE j = i - 1
      <3>1. j # i /\ j + 1 = i
        BY <1>1, <2>1
      <3>2. s[j + 1] = d /\ v[j] = w[i - 1]
        BY <1>3, <2>1, <3>1
      <3> QED BY <2>1, <3>2
    <2>2. CASE j = i
      <3>1. i + 1 \in 2 .. Lane + 1 /\ i + 1 # i
        BY <1>1, Constants
      <3>2. s[j + 1] = r[i + 1] /\ v[j] = c
        BY <1>3, <2>2, <3>1
      <3> QED BY <2>2, <3>2
    <2>3. CASE j \notin {i - 1, i}
      <3>1. j + 1 \in 2 .. Lane + 1 /\ j + 1 # i
        BY <1>1, <2>3, Constants
      <3>2. s[j + 1] = r[j + 1] /\ v[j] = w[j] /\ inner'[j] = inner[j]
        BY <1>3, <2>3, <3>1
      <3>3. r[j + 1] \in Nat /\ w[j] \in Nat /\ fed \in Nat
        BY LayoutType
      <3>4. StreamInv(j, r[j + 1], w[j])
        BY DEF Layout
      <3>5. StreamInv(j, r[j + 1], w[j])'
        BY <3>2, <3>3, <3>4, KeepStream
      <3> QED BY <3>2, <3>5
    <2> QED BY <2>1, <2>2, <2>3
  <1>6. ASSUME NEW j \in Merger
        PROVE  MergerInv(j, v[j], s[j])'
    <2>1. CASE j = i
      BY <1>3, <2>1
    <2>2. CASE j # i
      <3>1. j \in 1 .. Lane /\ j \in 2 .. Lane + 1
        BY MergerType
      <3>2. v[j] = w[j] /\ s[j] = r[j]
        BY <1>3, <2>2, <3>1
      <3>3. MergerInv(j, w[j], r[j])
        BY DEF Layout
      <3>4. MergerInv(j, w[j], r[j])'
        BY <2>2, <3>3, KeepMerger
      <3> QED BY <3>2, <3>4
    <2> QED BY <2>1, <2>2
  <1>7. FilterInv(s[Lane + 1])'
    <2>1. Lane + 1 \in 2 .. Lane + 1 /\ Lane + 1 # i
      BY <1>1, Constants
    <2>2. s[Lane + 1] = r[Lane + 1]
      BY <1>3, <2>1
    <2>3. FilterInv(r[Lane + 1])
      BY DEF Layout
    <2> QED BY <2>2, <2>3, KeepFilter
  <1>8. Layout(v, s)'
    BY <1>4, <1>5, <1>6, <1>7 DEF Layout
  <1> QED BY <1>2, <1>8

-----------------------------------------------------------------------------
(* The steps, in the order of the kernel. *)

LEMMA InitInvariant == Init => IInv
  <1> SUFFICES ASSUME Init
               PROVE  IInv
    OBVIOUS
  <1>1. TypeOK /\ input \in Input
    BY InitType DEF Init
  <1> DEFINE w == [i \in 1 .. Lane |-> 0]
             r == [i \in 2 .. Lane + 1 |-> 0]
  <1>2. w \in [1 .. Lane -> Nat] /\ r \in [2 .. Lane + 1 -> Nat]
    OBVIOUS
  <1>3. /\ 0 * Lane = 0 /\ 0 \div Lane = 0 /\ 0 % Lane = 0
        /\ \A i \in 1 .. Lane : w[i] = 0 /\ r[i + 1] = 0
        /\ \A i \in Merger : w[i] = 0 /\ r[i] = 0
        /\ 1 \in 1 .. Lane /\ w[1] = 0 /\ r[Lane + 1] = 0
    <2>1. 0 * Lane = 0 /\ 0 \div Lane = 0 /\ 0 % Lane = 0
      <3>1. (0 * Lane) \div Lane = 0 /\ (0 * Lane) % Lane = 0
        BY VectorStart
      <3>2. 0 * Lane = 0
        BY Constants
      <3> QED BY <3>1, <3>2
    <2>2. /\ \A i \in 1 .. Lane : i + 1 \in 2 .. Lane + 1
          /\ 1 \in 1 .. Lane /\ Lane + 1 \in 2 .. Lane + 1
      BY Constants
    <2> QED BY <2>1, <2>2, MergerType
  <1> HIDE DEF w, r
  <1>4. ASSUME NEW i \in 1 .. Lane
        PROVE  StreamInv(i, 0, 0)
    <2>1. Between(i, 0, 0) = {} /\ inner[i] = <<>> /\ fed = 0
      BY <1>1, NoneBetween DEF Init
    <2>2. Holds(inner[i], Between(i, 0, 0), Item(i))
      BY <2>1, EmptyHolds
    <2>3. fed * Lane = 0
      BY <1>3, <2>1
    <2> QED BY <2>2, <2>3 DEF StreamInv
  <1>5. ASSUME NEW i \in Merger
        PROVE  MergerInv(i, 0, 0)
    <2>1. Between(i - 1, 0, 0) = {}
      BY <1>1, NoneBetween
    <2>2. /\ fed = 0 /\ single[i] = <<>> /\ ~src1[i].valid /\ ~src2[i].valid
          /\ state[i] = "ST_SRC1"
      BY DEF Init, Invalid
    <2>3. OwnInv(i, 0)
      BY <1>3, <2>2 DEF OwnInv
    <2> QED BY <1>3, <2>1, <2>2, <2>3 DEF MergerInv
  <1>6. FilterInv(0)
    <2>2. fed = 0 /\ cmd = <<>>
      BY DEF Init
    <2>1. {x \in R!Touched(fed) : x < 0} = {}
      <3>1. {x \in R!Touched(0) : x < 0} = Touches(0)
        BY <1>1, <1>3, TouchesIs
      <3>2. Touches(0) = {}
        BY DEF Touches
      <3> QED BY <2>2, <3>1, <3>2
    <2>3. Cardinality({x \in R!Touched(fed) : x < 0}) = 0
      BY <2>1, FS_EmptySet
    <2> QED BY <2>2, <2>3 DEF FilterInv
  <1>7. Layout(w, r)
    BY <1>3, <1>4, <1>5, <1>6 DEF Layout, Init
  <1> QED BY <1>1, <1>2, <1>7 DEF IInv

LEMMA SrcToAddressStep ==
    ASSUME TypeOK, NEW w \in [1 .. Lane -> Nat], NEW r \in [2 .. Lane + 1 -> Nat], Layout(w, r),
           SrcToAddress
    PROVE  \E v \in [1 .. Lane -> Nat], s \in [2 .. Lane + 1 -> Nat] : Layout(v, s)'
  <1> DEFINE item(i) == [data |-> input[fed + 1][i], last |-> TRUE]
  <1>1. /\ fed < Len(input) /\ fed' = fed + 1
        /\ single' = [i \in Merger |-> Append(single[i], item(i))]
        /\ inner' = [inner EXCEPT ![1] = Append(@, item(1))]
        /\ UNCHANGED <<input, src1, src2, state, cmd>>
    BY DEF SrcToAddress
  <1>2. /\ input \in Input /\ fed \in Nat /\ fed <= Len(input)
        /\ \A i \in 1 .. Lane : w[i] \in Nat /\ r[i + 1] \in Nat /\ i + 1 \in 2 .. Lane + 1
        /\ \A i \in Merger : r[i] \in Nat
    BY LayoutType
  <1>3. PICK x \in Nat, c \in Nat :
            /\ x = fed * Lane /\ c = (fed + 1) * Lane /\ c = x + Lane
            /\ x \div Lane = fed /\ x % Lane = 0 /\ First(x) = x
    BY <1>2, VectorStart, Constants
  <1>4. Len(input) \in Nat /\ Lane \in Nat \ {0, 1} /\ 1 \in 1 .. Lane
    BY <1>2, Stream, Constants
  <1>5. x < Len(input) * Lane
    <2>1. PICK n \in Nat : n = Len(input)
      BY <1>4
    <2>2. fed + 1 \in Nat /\ fed + 1 <= n /\ Lane \in Nat
      BY <1>1, <1>2, <1>4, <2>1
    <2>3. (fed + 1) * Lane <= n * Lane
      BY <2>2, TimesMonotone
    <2>4. n * Lane \in Nat
      BY <2>2
    <2> QED BY <1>3, <1>4, <2>1, <2>3, <2>4
  <1> DEFINE v == [w EXCEPT ![1] = c]
  <1>6. v \in [1 .. Lane -> Nat] /\ v[1] = c /\ \A i \in 1 .. Lane : i # 1 => v[i] = w[i]
    BY <1>4
  <1> HIDE DEF v
  <1>7. StreamInv(1, r[2], c)'
    <2>1. r[2] \in Nat /\ StreamInv(1, r[2], w[1]) /\ w[1] = x
      BY <1>2, <1>3, <1>4 DEF Layout
    <2>2. x \in Items(1)
      BY <1>2, <1>3, <1>5, ItemsIs DEF Starts
    <2>3. Between(1, x, x) = {}
      BY <1>2, NoneBetween
    <2>4. Between(1, x + 1, c) = {}
      <3> SUFFICES ASSUME NEW y \in Items(1), x + 1 <= y, y < c
                   PROVE  FALSE
        BY DEF Between
      <3>1. y \in Nat /\ y % Lane < 1
        BY <1>2, ItemsIs
      <3>2. x <= y /\ y < x + Lane
        BY <1>3, <3>1
      <3>3. y % Lane = y - x
        BY <1>3, <3>1, <3>2, SameVector
      <3> QED BY <3>1, <3>3
    <2>5. IsLast(1, x)
      <3>1. x + 1 .. First(x) + 1 - 1 = {}
        BY <1>3
      <3> QED BY <3>1 DEF IsLast
    <2>6. Burst(x) = input[fed + 1][1]
      BY <1>2, <1>3, BurstIs
    <2>7. item(1) = [data |-> Burst(x), last |-> IsLast(1, x)]
      BY <2>5, <2>6
    <2>8. inner[1] \in Seq(ItemType) /\ inner'[1] = Append(inner[1], item(1))
      BY <1>1, <1>4, Types
    <2>9. r[2] <= x /\ x <= x /\ x < c /\ Holds(inner[1], Between(1, r[2], x), Item(1))
      BY <1>3, <1>4, <2>1 DEF StreamInv
    <2> HIDE DEF item
    <2>10. Holds(Append(inner[1], [data |-> Burst(x), last |-> IsLast(1, x)]),
                 Between(1, r[2], c), Item(1))
      BY <1>2, <2>1, <2>2, <2>3, <2>4, <2>8, <2>9, PutItem
    <2>11. Item(1)' = Item(1) /\ Between(1, r[2], c)' = Between(1, r[2], c)
      BY <1>1, SameInput
    <2>12. r[2] <= c /\ c <= fed' * Lane
      BY <1>1, <1>3, <2>1, <2>9
    <2> QED BY <2>7, <2>8, <2>10, <2>11, <2>12 DEF StreamInv, Holds
  <1>8. ASSUME NEW i \in 1 .. Lane, i # 1
        PROVE  StreamInv(i, r[i + 1], w[i])'
    <2>1. inner'[i] = inner[i] /\ StreamInv(i, r[i + 1], w[i])
      BY <1>1, <1>8, Types DEF Layout
    <2>2. fed' \in Nat /\ fed <= fed'
      BY <1>1, <1>2
    <2> QED BY <1>1, <1>2, <2>1, <2>2, KeepStream
  <1>9. ASSUME NEW i \in Merger
        PROVE  MergerInv(i, w[i], r[i])'
    <2>1. MergerInv(i, w[i], r[i]) /\ i \in 1 .. Lane /\ w[i] \in Nat /\ r[i] \in Nat
      BY <1>2, MergerType DEF Layout
    <2> DEFINE q == single[i]
    <2>2. q \in Seq(ItemType) /\ single'[i] = Append(q, item(i)) /\ item(i) \in ItemType
      <3>1. input[fed + 1][i] \in Nat
        <4>1. fed + 1 \in 1 .. Len(input)
          BY <1>1, <1>2, <1>4
        <4> QED BY <1>2, <2>1, <4>1, Stream
      <3> QED BY <1>1, <3>1, Types DEF ItemType
    <2>3. OwnInv(i, w[i])'
      <3>1. OwnInv(i, w[i])
        BY <2>1 DEF MergerInv
      <3> HIDE DEF item, q
      <3>2. /\ Len(single'[i]) = Len(q) + 1 /\ Len(q) \in Nat
            /\ single'[i][Len(q) + 1] = item(i)
            /\ \A j \in 1 .. Len(q) : single'[i][j] = q[j]
        BY <2>2, MoreItems
      <3>3. w[i] \div Lane \in Nat
        BY <2>1, Place
      <3>4. ASSUME NEW j \in 1 .. Len(single'[i])
            PROVE  single'[i][j].data = input'[fed' - Len(single'[i]) + j][i]
        <4>1. fed' - Len(single'[i]) + j = fed - Len(q) + j
          <5>1. PICK f \in Nat, n \in Nat : f = fed /\ n = Len(q)
            BY <1>2, <3>2
          <5>2. fed' = f + 1 /\ Len(single'[i]) = n + 1
            BY <1>1, <3>2, <5>1
          <5>3. j \in 1 .. n + 1
            BY <5>2
          <5>4. (f + 1) - (n + 1) + j = f - n + j
            BY <5>3
          <5> QED BY <5>1, <5>2, <5>4
        <4>2. CASE j = Len(q) + 1
          <5>1. fed - Len(q) + j = fed + 1
            BY <1>2, <3>2, <4>2
          <5> QED BY <1>1, <3>2, <4>1, <4>2, <5>1 DEF item
        <4>3. CASE j # Len(q) + 1
          <5>1. j \in 1 .. Len(q)
            BY <3>2, <4>3
          <5>2. q[j].data = input[fed - Len(q) + j][i]
            BY <3>1, <5>1 DEF OwnInv, q
          <5> QED BY <1>1, <3>2, <4>1, <5>1, <5>2
        <4> QED BY <4>2, <4>3
      <3>5. (w[i] \div Lane) + Len(single'[i]) + (IF src2'[i].valid THEN 1 ELSE 0) = fed'
        BY <1>1, <1>2, <3>1, <3>2, <3>3 DEF OwnInv, q
      <3>6. src2'[i].valid => src2'[i].data = input'[(w[i] \div Lane) + 1][i]
        BY <1>1, <3>1 DEF OwnInv
      <3> QED BY <3>4, <3>5, <3>6 DEF OwnInv
    <2>4. /\ Between(i - 1, w[i], r[i])' = Between(i - 1, w[i], r[i])
          /\ Items(i - 1)' = Items(i - 1)
          /\ \A y : /\ Burst(y)' = Burst(y) /\ Starts(y)' = Starts(y)
                    /\ IsLast(i - 1, y)' = IsLast(i - 1, y)
      BY <1>1, SameInput
    <2> QED BY <1>1, <2>1, <2>3, <2>4 DEF MergerInv, First
  <1>10. FilterInv(r[Lane + 1])'
    <2>1. r[Lane + 1] \in Nat /\ w[Lane] \in Nat /\ StreamInv(Lane, r[Lane + 1], w[Lane])
          /\ FilterInv(r[Lane + 1])
      BY <1>2, <1>4 DEF Layout
    <2>2. r[Lane + 1] <= fed * Lane /\ r[Lane + 1] <= (fed + 1) * Lane
      BY <1>3, <1>4, <2>1, SMTT(30) DEF StreamInv
    <2>3. /\ {y \in R!Touched(fed) : y < r[Lane + 1]} = Touches(r[Lane + 1])
          /\ {y \in R!Touched(fed + 1) : y < r[Lane + 1]} = Touches(r[Lane + 1])
      BY <1>2, <2>1, <2>2, TouchesIs
    <2>4. {y \in R!Touched(fed)' : y < r[Lane + 1]} = {y \in R!Touched(fed + 1) : y < r[Lane + 1]}
      BY <1>1 DEF R!Touched, R!Burst, R!Width
    <2>5. Burst(r[Lane + 1] - 1)' = Burst(r[Lane + 1] - 1)
      BY <1>1, SameInput
    <2> QED BY <1>1, <2>1, <2>3, <2>4, <2>5 DEF FilterInv
  <1>11. Layout(v, r)'
    <2>1. v[1] = (fed * Lane)'
      BY <1>1, <1>3, <1>6
    <2>2. ASSUME NEW i \in 1 .. Lane
          PROVE  StreamInv(i, r[i + 1], v[i])'
      <3>1. CASE i = 1
        <4>1. i + 1 = 2
          BY <3>1
        <4> QED BY <1>6, <1>7, <3>1, <4>1
      <3>2. CASE i # 1
        BY <1>6, <1>8, <3>2
      <3> QED BY <3>1, <3>2
    <2>3. ASSUME NEW i \in Merger
          PROVE  MergerInv(i, v[i], r[i])'
      <3>1. i \in 1 .. Lane /\ i # 1
        BY MergerType
      <3> QED BY <1>6, <1>9, <3>1
    <2> QED BY <1>10, <2>1, <2>2, <2>3 DEF Layout
  <1> QED BY <1>6, <1>11

LEMMA ReadSrc1Step ==
    ASSUME TypeOK, NEW w \in [1 .. Lane -> Nat], NEW r \in [2 .. Lane + 1 -> Nat], Layout(w, r),
           NEW i \in Merger, ReadSrc1(i)
    PROVE  \E v \in [1 .. Lane -> Nat], s \in [2 .. Lane + 1 -> Nat] : Layout(v, s)'
  <1> DEFINE q == inner[i - 1]
  <1>1. /\ ~src1[i].valid /\ q # <<>>
        /\ src1' = [src1 EXCEPT ![i] = Valid(Head(q))]
        /\ inner' = [inner EXCEPT ![i - 1] = Tail(q)]
        /\ UNCHANGED <<input, fed, single, src2, state, cmd>>
    BY DEF ReadSrc1
  <1>2. /\ i \in 1 .. Lane /\ i - 1 \in 1 .. Lane /\ (i - 1) + 1 = i /\ i - 1 # i
        /\ input \in Input /\ fed \in Nat
        /\ w[i] \in Nat /\ r[i] \in Nat /\ w[i - 1] \in Nat /\ r[i + 1] \in Nat
    BY LayoutType, MergerType
  <1>3. StreamInv(i - 1, r[i], w[i - 1]) /\ StreamInv(i, r[i + 1], w[i])
        /\ MergerInv(i, w[i], r[i])
    BY <1>2 DEF Layout
  <1>4. q \in Seq(ItemType) /\ inner'[i - 1] = Tail(q) /\ inner'[i] = inner[i]
        /\ src1'[i] = Valid(Head(q))
    BY <1>1, <1>2, Types
  <1> HIDE DEF q
  <1>5. Holds(q, Between(i - 1, r[i], w[i - 1]), Item(i - 1))
    BY <1>3 DEF StreamInv, q
  <1>6. PICK x \in Between(i - 1, r[i], w[i - 1]) :
            /\ Head(q) = [data |-> Burst(x), last |-> IsLast(i - 1, x)]
            /\ Between(i - 1, r[i], x) = {} /\ Between(i - 1, r[i], x + 1) = {x}
            /\ Holds(Tail(q), Between(i - 1, x + 1, w[i - 1]), Item(i - 1))
    BY <1>1, <1>2, <1>4, <1>5, TakeItem, ZenonT(40)
  <1>7. x \in Items(i - 1) /\ x \in Nat /\ r[i] <= x /\ x < w[i - 1] /\ x + 1 \in Nat
    <2>1. x \in Items(i - 1) /\ r[i] <= x /\ x < w[i - 1]
      BY <1>6 DEF Between
    <2>2. x \in Nat
      BY <1>2, <2>1, ItemsIs
    <2> QED BY <2>1, <2>2
  <1>8. StreamInv(i - 1, x + 1, w[i - 1])'
    <2>1. x + 1 <= w[i - 1] /\ w[i - 1] <= (fed * Lane)'
      BY <1>1, <1>2, <1>3, <1>7 DEF StreamInv
    <2>2. /\ Item(i - 1)' = Item(i - 1)
          /\ Between(i - 1, x + 1, w[i - 1])' = Between(i - 1, x + 1, w[i - 1])
      BY <1>1, SameInput
    <2> QED BY <1>4, <1>6, <2>1, <2>2 DEF StreamInv, Holds
  <1>9. StreamInv(i, r[i + 1], w[i])'
    <2>1. fed' \in Nat /\ fed <= fed' /\ input' = input
      BY <1>1, <1>2
    <2> QED BY <1>2, <1>3, <1>4, <2>1, KeepStream
  <1>10. MergerInv(i, w[i], x + 1)'
    <2>1. /\ w[i] <= r[i] /\ Between(i - 1, w[i], r[i]) = {} /\ OwnInv(i, w[i])
          /\ IF state[i] = "ST_SRC2"
             THEN src2[i].valid /\ w[i] % Lane = i - 1 /\ Starts(w[i])
             ELSE w[i] % Lane = 0 \/ \E y \in w[i] .. First(w[i]) + i - 2 : Starts(y)
      BY <1>1, <1>3 DEF MergerInv
    <2>2. w[i] <= x + 1
      BY <1>2, <1>7, <2>1
    <2>3. Between(i - 1, w[i], x + 1) = {x}
      <3>1. ASSUME NEW y \in Items(i - 1)
            PROVE  (w[i] <= y /\ y < x + 1) <=> y = x
        <4>1. y \in Nat
          BY <1>2, ItemsIs
        <4>2. ~(w[i] <= y /\ y < r[i])
          BY <2>1 DEF Between
        <4>3. (r[i] <= y /\ y < x + 1) => y = x
          BY <1>6 DEF Between
        <4>4. w[i] <= x /\ x < x + 1
          BY <1>2, <1>7, <2>1
        <4> QED BY <1>2, <1>7, <4>1, <4>2, <4>3, <4>4
      <3> QED BY <1>7, <3>1 DEF Between
    <2>4. src1'[i].valid /\ src1'[i].data = Burst(x) /\ src1'[i].last = IsLast(i - 1, x)
      BY <1>4, <1>6 DEF Valid
    <2>5. /\ Between(i - 1, w[i], x + 1)' = Between(i - 1, w[i], x + 1)
          /\ Items(i - 1)' = Items(i - 1) /\ Burst(x)' = Burst(x)
          /\ IsLast(i - 1, x)' = IsLast(i - 1, x)
      BY <1>1, SameInput
    <2>6. \A y : Starts(y)' = Starts(y)
      BY <1>1, SameInput
    <2>7. OwnInv(i, w[i])'
      BY <1>1, <2>1 DEF OwnInv
    <2>8. IF state'[i] = "ST_SRC2"
          THEN src2'[i].valid /\ w[i] % Lane = i - 1 /\ Starts(w[i])'
          ELSE w[i] % Lane = 0 \/ \E y \in w[i] .. First(w[i])' + i - 2 : Starts(y)'
      BY <1>1, <2>1, <2>6 DEF First
    <2>9. \E y \in Items(i - 1)' : /\ Between(i - 1, w[i], x + 1)' = {y}
                                   /\ src1'[i].data = Burst(y)'
                                   /\ src1'[i].last = IsLast(i - 1, y)'
      BY <1>7, <2>3, <2>4, <2>5
    <2> QED BY <2>2, <2>4, <2>7, <2>8, <2>9 DEF MergerInv
  <1>11. /\ \A j \in 1 .. Lane : j \notin {i - 1, i} => inner'[j] = inner[j]
         /\ \A j \in Merger : j # i => /\ src1'[j] = src1[j] /\ src2'[j] = src2[j]
                                       /\ state'[j] = state[j] /\ single'[j] = single[j]
    BY <1>1, <1>2, Types
  <1> QED BY <1>1, <1>2, <1>7, <1>8, <1>9, <1>10, <1>11, MergerStep

LEMMA ReadSrc2Step ==
    ASSUME TypeOK, NEW w \in [1 .. Lane -> Nat], NEW r \in [2 .. Lane + 1 -> Nat], Layout(w, r),
           NEW i \in Merger, ReadSrc2(i)
    PROVE  \E v \in [1 .. Lane -> Nat], s \in [2 .. Lane + 1 -> Nat] : Layout(v, s)'
  <1> DEFINE q == single[i]
  <1>1. /\ ~src2[i].valid /\ q # <<>>
        /\ src2' = [src2 EXCEPT ![i] = Valid(Head(q))]
        /\ single' = [single EXCEPT ![i] = Tail(q)]
        /\ UNCHANGED <<input, fed, inner, src1, state, cmd>>
    BY DEF ReadSrc2
  <1>2. /\ i \in 1 .. Lane /\ i - 1 \in 1 .. Lane /\ (i - 1) + 1 = i
        /\ input \in Input /\ fed \in Nat
        /\ w[i] \in Nat /\ r[i] \in Nat /\ w[i - 1] \in Nat /\ r[i + 1] \in Nat
    BY LayoutType, MergerType
  <1>3. StreamInv(i - 1, r[i], w[i - 1]) /\ StreamInv(i, r[i + 1], w[i])
        /\ MergerInv(i, w[i], r[i])
    BY <1>2 DEF Layout
  <1>4. q \in Seq(ItemType) /\ single'[i] = Tail(q) /\ src2'[i] = Valid(Head(q))
    BY <1>1, Types
  <1>5. StreamInv(i - 1, r[i], w[i - 1])' /\ StreamInv(i, r[i + 1], w[i])'
    BY <1>1, <1>2, <1>3, KeepStream
  <1>6. OwnInv(i, w[i])'
    <2>1. OwnInv(i, w[i]) /\ w[i] \div Lane \in Nat
      BY <1>2, <1>3, Place DEF MergerInv
    <2> HIDE DEF q
    <2>2. /\ Len(Tail(q)) = Len(q) - 1 /\ Len(q) \in Nat \ {0} /\ Head(q) = q[1]
          /\ \A j \in 1 .. Len(Tail(q)) : Tail(q)[j] = q[j + 1]
      BY <1>1, <1>4, NextItem
    <2>3. PICK f \in Nat, n \in Nat \ {0}, k \in Nat :
              f = fed /\ n = Len(q) /\ k = w[i] \div Lane /\ k + n = f
      <3>1. (w[i] \div Lane) + Len(q) + 0 = fed
        BY <1>1, <2>1 DEF OwnInv, q
      <3>2. PICK f \in Nat, n \in Nat \ {0}, k \in Nat :
                f = fed /\ n = Len(q) /\ k = w[i] \div Lane
        BY <1>2, <2>1, <2>2
      <3>3. k + n + 0 = f
        BY <3>1, <3>2
      <3>4. k + n = f
        BY <3>3
      <3> QED BY <3>2, <3>4
    <2>4. ASSUME NEW j \in 1 .. n
          PROVE  q[j].data = input[k + j][i]
      <3>1. f - n + j = k + j
        BY <2>3
      <3> QED BY <2>1, <2>3, <3>1 DEF OwnInv, q
    <2>5. ASSUME NEW j \in 1 .. Len(single'[i])
          PROVE  single'[i][j].data = input'[fed' - Len(single'[i]) + j][i]
      <3>1. j \in 1 .. n - 1 /\ Len(single'[i]) = n - 1
        BY <1>4, <2>2, <2>3
      <3>2. j + 1 \in 1 .. n /\ f - (n - 1) + j = k + (j + 1)
        BY <2>3, <3>1
      <3>3. single'[i][j] = q[j + 1]
        BY <1>4, <2>2, <2>5
      <3> QED BY <1>1, <2>3, <2>4, <3>1, <3>2, <3>3
    <2>6. src2'[i].valid /\ src2'[i].data = input'[(w[i] \div Lane) + 1][i]
      <3>1. 1 \in 1 .. n
        BY <2>3
      <3> QED BY <1>1, <1>4, <2>2, <2>3, <2>4, <3>1 DEF Valid
    <2>7. (w[i] \div Lane) + Len(single'[i]) + 1 = fed'
      <3>1. Len(single'[i]) = n - 1
        BY <1>4, <2>2, <2>3
      <3> QED BY <1>1, <2>3, <3>1
    <2> QED BY <2>5, <2>6, <2>7 DEF OwnInv
  <1>7. MergerInv(i, w[i], r[i])'
    <2>1. IF src1'[i].valid
          THEN \E x \in Items(i - 1)' :
                  /\ Between(i - 1, w[i], r[i])' = {x}
                  /\ src1'[i].data = Burst(x)' /\ src1'[i].last = IsLast(i - 1, x)'
          ELSE Between(i - 1, w[i], r[i])' = {}
      <3>1. /\ Between(i - 1, w[i], r[i])' = Between(i - 1, w[i], r[i])
            /\ Items(i - 1)' = Items(i - 1)
            /\ \A x : Burst(x)' = Burst(x) /\ IsLast(i - 1, x)' = IsLast(i - 1, x)
        BY <1>1, SameInput
      <3>2. src1' = src1
        BY <1>1
      <3> QED BY <1>3, <3>1, <3>2 DEF MergerInv
    <2>2. \A y : Starts(y)' = Starts(y)
      BY <1>1, SameInput
    <2>3. state'[i] = state[i] /\ state[i] # "ST_SRC2"
      BY <1>1, <1>3 DEF MergerInv
    <2> QED BY <1>3, <1>6, <2>1, <2>2, <2>3 DEF MergerInv, First
  <1>8. /\ \A j \in 1 .. Lane : j \notin {i - 1, i} => inner'[j] = inner[j]
        /\ \A j \in Merger : j # i => /\ src1'[j] = src1[j] /\ src2'[j] = src2[j]
                                      /\ state'[j] = state[j] /\ single'[j] = single[j]
    BY <1>1, Types
  <1> QED BY <1>1, <1>2, <1>5, <1>7, <1>8, MergerStep

\* A writer that is inside of a vector has a source of the vector left.
LEMMA Partial ==
    ASSUME TypeOK, NEW w \in [1 .. Lane -> Nat], NEW r \in [2 .. Lane + 1 -> Nat], Layout(w, r),
           NEW i \in 1 .. Lane
    PROVE  w[i] % Lane = 0 \/ \E y \in w[i] .. First(w[i]) + i - 1 : Starts(y)
  <1>1. w[i] \in Nat
    OBVIOUS
  <1>2. CASE i = 1
    <2>1. w[1] = fed * Lane /\ fed \in Nat
      BY LayoutType DEF Layout
    <2> QED BY <1>2, <2>1, VectorStart
  <1>3. CASE i # 1
    <2>1. i \in Merger /\ i \in Nat
      BY <1>3, Constants DEF Merger
    <2>2. MergerInv(i, w[i], r[i])
      BY <2>1 DEF Layout
    <2>3. PICK f \in Nat : f = First(w[i]) /\ w[i] = f + (w[i] % Lane)
      BY <1>1, Place
    <2>4. CASE state[i] = "ST_SRC2"
      <3>1. w[i] % Lane = i - 1 /\ Starts(w[i])
        BY <2>2, <2>4 DEF MergerInv
      <3>2. w[i] = f + (i - 1)
        BY <2>3, <3>1
      <3>3. w[i] \in w[i] .. f + i - 1
        BY <1>1, <2>1, <3>2
      <3> QED BY <2>3, <3>1, <3>3
    <2>5. CASE state[i] # "ST_SRC2"
      <3>1. w[i] % Lane = 0 \/ \E y \in w[i] .. f + i - 2 : Starts(y)
        BY <2>2, <2>3, <2>5 DEF MergerInv
      <3>2. \A y \in w[i] .. f + i - 2 : y \in w[i] .. f + i - 1
        BY <2>1
      <3> QED BY <2>3, <3>1, <3>2
    <2> QED BY <2>4, <2>5
  <1> QED BY <1>2, <1>3

\* A writer with nothing left in a vector that it has begun is behind it.
LEMMA WrittenOut ==
    ASSUME TypeOK, NEW w \in [1 .. Lane -> Nat], NEW r \in [2 .. Lane + 1 -> Nat], Layout(w, r),
           NEW i \in 1 .. Lane, NEW x \in Nat, First(x) < w[i],
           \A y \in w[i] .. First(x) + i - 1 : ~Starts(y)
    PROVE  Behind(x) <= w[i]
  <1>1. PICK f \in Nat, b \in Nat : f = First(x) /\ b = w[i] /\ f < b
    BY Place
  <1> SUFFICES ASSUME b < f + Lane
               PROVE  FALSE
    BY <1>1, Constants DEF Behind
  <1>2. First(b) = f /\ b % Lane = b - f
    BY <1>1, SameVector
  <1>3. b % Lane # 0
    BY <1>1, <1>2
  <1>4. \E y \in b .. f + i - 1 : Starts(y)
    BY <1>1, <1>2, <1>3, Partial
  <1> QED BY <1>1, <1>4

\* What the merger holds, or finds next, is of the vector it is in.
LEMMA HeldInVector ==
    ASSUME TypeOK, NEW w \in [1 .. Lane -> Nat], NEW r \in [2 .. Lane + 1 -> Nat], Layout(w, r),
           NEW i \in Merger, state[i] = "ST_SRC1",
           NEW x \in Items(i - 1), Between(i - 1, w[i], r[i]) = {x}
    PROVE  /\ x \in Nat /\ w[i] <= x /\ x < r[i] /\ First(x) = First(w[i])
           /\ x <= First(w[i]) + i - 2
  <1>1. /\ i \in Nat /\ 2 <= i /\ i - 1 \in 1 .. Lane
        /\ input \in Input /\ w[i] \in Nat /\ r[i] \in Nat
    BY LayoutType, MergerType
  <1>2. x \in Nat /\ x < Len(input) * Lane /\ x % Lane < i - 1 /\ Len(input) * Lane \in Nat
    <2>1. x \in Nat /\ x < Len(input) * Lane /\ x % Lane < i - 1
      BY <1>1, ItemsIs
    <2>2. Len(input) * Lane \in Nat
      BY <1>1, Stream, Constants
    <2> QED BY <2>1, <2>2
  <1>3. x \in Between(i - 1, w[i], r[i])
    OBVIOUS
  <1>4. w[i] <= x /\ x < r[i]
    BY <1>3 DEF Between
  <1>5. PICK f \in Nat, b \in Nat : f = First(w[i]) /\ b = w[i] /\ f <= b /\ b < f + Lane
    BY <1>1, Place
  <1>6. MergerInv(i, w[i], r[i])
    BY DEF Layout
  <1>7. First(x) = f
    <2>1. CASE b % Lane = 0
      <3>1. b < Len(input) * Lane
        BY <1>2, <1>4, <1>5
      <3>2. b \in Items(i - 1)
        BY <1>1, <1>5, <2>1, <3>1, ItemsIs DEF Starts
      <3>3. b \in Between(i - 1, w[i], r[i])
        <4>1. w[i] <= b /\ b < r[i]
          BY <1>1, <1>2, <1>4, <1>5
        <4> QED BY <3>2, <4>1 DEF Between
      <3> QED BY <1>5, <3>3
    <2>2. CASE b % Lane # 0
      <3>1. PICK y \in b .. f + i - 2 : Starts(y)
        BY <1>5, <1>6, <2>2 DEF MergerInv
      <3>2. y \in Nat /\ f <= y /\ y < f + Lane /\ y - f < i - 1
        <4>1. PICK n \in Nat : n = Lane /\ i <= n
          BY MergerType, Constants
        <4>2. y \in Nat /\ b <= y /\ y <= f + i - 2
          BY <1>1, <1>5, <3>1
        <4>3. PICK k \in Nat : k = i
          BY <1>1
        <4>4. y <= f + k - 2 /\ k <= n
          BY <4>1, <4>2, <4>3
        <4>5. y \in Nat /\ f <= y
          BY <1>5, <4>2
        <4>6. y < f + n /\ y - f < k - 1
          BY <4>4, <4>5
        <4> QED BY <4>1, <4>3, <4>5, <4>6
      <3>3. First(y) = f /\ y % Lane = y - f
        BY <1>1, <1>5, <3>2, SameVector
      <3>4. CASE y < x
        <4>1. y < Len(input) * Lane
          BY <1>2, <3>2, <3>4
        <4>2. y \in Items(i - 1)
          BY <1>1, <3>1, <3>2, <3>3, <4>1, ItemsIs
        <4>3. w[i] <= y /\ y < r[i]
          BY <1>1, <1>2, <1>4, <1>5, <3>1, <3>2, <3>4
        <4>4. y \in Between(i - 1, w[i], r[i])
          BY <4>2, <4>3 DEF Between
        <4> QED BY <1>2, <3>4, <4>4
      <3>5. CASE x <= y
        <4>1. f <= x /\ x < f + Lane
          <5>1. b <= x
            BY <1>4, <1>5
          <5> QED BY <1>2, <1>5, <3>2, <3>5, <5>1, Constants, SMTT(30)
        <4> QED BY <1>1, <1>2, <1>5, <4>1, SameVector
      <3> QED BY <1>2, <3>2, <3>4, <3>5
    <2> QED BY <2>1, <2>2
  <1>8. x = f + (x % Lane) /\ x % Lane \in Nat
    <2>1. x = First(x) + (x % Lane) /\ x % Lane \in 0 .. Lane - 1
      BY <1>2, Place
    <2>2. x % Lane \in Nat
      BY <2>1, Constants
    <2> QED BY <1>7, <2>1, <2>2
  <1>9. x <= f + i - 2
    BY <1>1, <1>2, <1>8
  <1> QED BY <1>2, <1>4, <1>5, <1>7, <1>9

\* Merger i writes the item of source x; there are none from there up to c.
LEMMA Written ==
    ASSUME TypeOK, input' = input, fed' = fed, NEW i \in 1 .. Lane,
           NEW a \in Nat, NEW b \in Nat, NEW c \in Nat, StreamInv(i, a, b),
           NEW x \in Items(i), b <= x, x < c, c <= fed * Lane,
           Between(i, b, x) = {}, Between(i, x + 1, c) = {},
           inner'[i] = Append(inner[i], [data |-> Burst(x), last |-> IsLast(i, x)])
    PROVE  StreamInv(i, a, c)'
  <1>1. input \in Input /\ inner[i] \in Seq(ItemType) /\ fed \in Nat
    BY Types, Stream
  <1>2. x \in Nat
    BY <1>1, ItemsIs
  <1>3. Holds(inner[i], Between(i, a, b), Item(i)) /\ a <= b
    BY DEF StreamInv
  <1>4. Holds(inner'[i], Between(i, a, c), Item(i))
    BY <1>1, <1>3, PutItem
  <1>5. Item(i)' = Item(i) /\ Between(i, a, c)' = Between(i, a, c)
    BY SameInput
  <1>6. a <= c
    BY <1>2, <1>3
  <1> QED BY <1>4, <1>5, <1>6 DEF StreamInv, Holds

\* A reader may be said to have read up to d as well as up to a.
LEMMA Skipped ==
    ASSUME input' = input, fed' = fed, NEW i, inner'[i] = inner[i],
           NEW a \in Nat, NEW b \in Nat, NEW d \in Nat, StreamInv(i, a, b), d <= b,
           \A y \in Items(i) : a <= y <=> d <= y
    PROVE  StreamInv(i, d, b)'
  <1>1. Between(i, a, b) = Between(i, d, b)
    BY DEF Between
  <1>2. Item(i)' = Item(i) /\ Between(i, d, b)' = Between(i, d, b)
    BY SameInput
  <1> QED BY <1>1, <1>2 DEF StreamInv, Holds

\* The source of the merger's own lane in the vector it is in.
LEMMA OwnSource ==
    ASSUME TypeOK, NEW w \in [1 .. Lane -> Nat], NEW r \in [2 .. Lane + 1 -> Nat], Layout(w, r),
           NEW i \in Merger, src2[i].valid
    PROVE  \E z \in Nat :
              /\ z = First(w[i]) + i - 1 /\ z < Behind(w[i])
              /\ First(z) = First(w[i]) /\ z \div Lane = w[i] \div Lane /\ z % Lane = i - 1
              /\ src2[i].data = Burst(z)
              /\ Starts(z) => z \in Items(i)
              /\ Starts(z) <=> Burst(z) # Burst(z - 1)
  <1>1. /\ i \in Nat /\ 2 <= i /\ i <= Lane /\ w[i] \in Nat /\ Lane \in Nat
        /\ input \in Input /\ fed \in Nat /\ fed <= Len(input) /\ Len(input) \in Nat
    BY LayoutType, MergerType, Stream, Constants
  <1>2. PICK f \in Nat, k \in Nat : f = First(w[i]) /\ k = w[i] \div Lane /\ f = k * Lane
    BY <1>1, Place
  <1>3. PICK z \in Nat : z = f + i - 1 /\ f <= z /\ z < f + Lane
    <2>1. PICK j \in Nat : j = i - 1 /\ j < Lane
      BY <1>1
    <2>2. f + j \in Nat /\ f + j = f + i - 1 /\ f <= f + j /\ f + j < f + Lane
      BY <1>1, <2>1
    <2> QED BY <2>2
  <1>4. First(z) = f /\ z \div Lane = k /\ z % Lane = z - f
    <2>1. First(w[i]) <= z /\ z < First(w[i]) + Lane
      BY <1>2, <1>3
    <2>2. First(z) = First(w[i]) /\ z \div Lane = w[i] \div Lane /\ z % Lane = z - First(w[i])
      BY <1>1, <1>3, <2>1, SameVector
    <2> QED BY <1>2, <2>2
  <1>5. z % Lane = i - 1
    BY <1>1, <1>3, <1>4
  <1>6. OwnInv(i, w[i])
    BY DEF Layout, MergerInv
  <1>7. src2[i].data = Burst(z)
    <2>1. src2[i].data = input[k + 1][i]
      BY <1>2, <1>6 DEF OwnInv
    <2>2. Burst(z) = input[k + 1][(i - 1) + 1]
      BY <1>1, <1>4, <1>5, BurstIs
    <2> QED BY <1>1, <2>1, <2>2
  <1>8. z < Len(input) * Lane
    <2>1. k + 1 <= Len(input)
      <3>1. Len(single[i]) \in Nat
        BY Types
      <3>2. k + Len(single[i]) + 1 = fed
        BY <1>2, <1>6 DEF OwnInv
      <3> QED BY <1>1, <3>1, <3>2, SMTT(30)
    <2>2. PICK n \in Nat : n = Len(input)
      BY <1>1
    <2>3. (k + 1) * Lane <= n * Lane
      <3>1. k + 1 \in Nat /\ k + 1 <= n /\ Lane \in Nat
        BY <1>1, <2>1, <2>2
      <3> QED BY <3>1, TimesMonotone
    <2>4. (k + 1) * Lane = f + Lane
      BY <1>2, VectorStart
    <2>5. n * Lane \in Nat
      BY <1>1
    <2> QED BY <1>1, <1>3, <2>2, <2>3, <2>4, <2>5
  <1>9. Starts(z) => z \in Items(i)
    <2>1. z % Lane < i
      BY <1>1, <1>5
    <2> QED BY <1>1, <1>8, <2>1, ItemsIs
  <1>10. Starts(z) <=> Burst(z) # Burst(z - 1)
    <2>1. z % Lane # 0
      BY <1>1, <1>5
    <2> QED BY <2>1 DEF Starts
  <1>11. z = First(w[i]) + i - 1 /\ z < Behind(w[i])
    BY <1>2, <1>3 DEF Behind
  <1>12. First(z) = First(w[i]) /\ z \div Lane = w[i] \div Lane
    BY <1>2, <1>4
  <1> QED BY <1>5, <1>7, <1>9, <1>10, <1>11, <1>12

LEMMA OwnStays ==
    ASSUME UNCHANGED <<input, fed>>, NEW i, single'[i] = single[i], src2'[i] = src2[i],
           NEW b, NEW c, OwnInv(i, b), c \div Lane = b \div Lane
    PROVE  OwnInv(i, c)'
  BY DEF OwnInv

LEMMA OwnTaken ==
    ASSUME TypeOK, UNCHANGED <<input, fed>>, NEW i \in Merger, single'[i] = single[i],
           src2[i].valid, ~src2'[i].valid,
           NEW b \in Nat, NEW c, OwnInv(i, b), c \div Lane = (b \div Lane) + 1
    PROVE  OwnInv(i, c)'
  <1>1. b \div Lane \in Nat /\ Len(single[i]) \in Nat /\ fed \in Nat
    BY Place, Types, Stream
  <1>2. (b \div Lane) + Len(single[i]) + 1 = fed
    BY DEF OwnInv
  <1>3. (c \div Lane) + Len(single[i]) + 0 = fed
    BY <1>1, <1>2
  <1> QED BY <1>3 DEF OwnInv

LEMMA WriteSrc1Step ==
    ASSUME TypeOK, NEW w \in [1 .. Lane -> Nat], NEW r \in [2 .. Lane + 1 -> Nat], Layout(w, r),
           NEW i \in Merger, WriteSrc1(i)
    PROVE  \E v \in [1 .. Lane -> Nat], s \in [2 .. Lane + 1 -> Nat] : Layout(v, s)'
  <1> DEFINE same == src1[i].last /\ src1[i].data = src2[i].data
             own == src1[i].last /\ ~same
  <1>1. /\ state[i] = "ST_SRC1" /\ src1[i].valid /\ src2[i].valid
        /\ Write(i, src1[i], same)
        /\ state' = [state EXCEPT ![i] = IF own THEN "ST_SRC2" ELSE "ST_SRC1"]
        /\ src2' = [src2 EXCEPT ![i] = IF same THEN Invalid ELSE @]
        /\ src1' = [src1 EXCEPT ![i] = Invalid]
        /\ UNCHANGED <<input, fed, single, cmd>>
    BY DEF WriteSrc1
  <1>2. /\ i \in Nat /\ 2 <= i /\ i \in 1 .. Lane /\ i - 1 \in 1 .. Lane /\ (i - 1) + 1 = i
        /\ i - 1 \in Nat /\ i - 1 # i /\ i <= Lane
        /\ input \in Input /\ fed \in Nat /\ fed * Lane \in Nat /\ Lane \in Nat
        /\ w[i] \in Nat /\ r[i] \in Nat /\ w[i - 1] \in Nat /\ r[i + 1] \in Nat
    <2>1. /\ i \in Nat /\ 2 <= i /\ i \in 1 .. Lane /\ i - 1 \in 1 .. Lane /\ (i - 1) + 1 = i
          /\ i - 1 \in Nat /\ i - 1 # i /\ i <= Lane
      BY MergerType
    <2>2. input \in Input /\ fed \in Nat /\ Lane \in Nat
      BY LayoutType, Constants
    <2>3. fed * Lane \in Nat
      BY <2>2
    <2>4. w[i] \in Nat /\ r[i] \in Nat /\ w[i - 1] \in Nat /\ r[i + 1] \in Nat
      BY <2>1, LayoutType
    <2> QED BY <2>1, <2>2, <2>3, <2>4
  <1>3. StreamInv(i - 1, r[i], w[i - 1]) /\ StreamInv(i, r[i + 1], w[i])
        /\ MergerInv(i, w[i], r[i])
    BY <1>2 DEF Layout
  <1>4. same \in BOOLEAN /\ src1[i].last \in BOOLEAN /\ src1[i] \in Register
    BY Types DEF Register
  <1>5. /\ inner'[i] = Append(inner[i], [data |-> src1[i].data, last |-> same])
        /\ \A j \in 1 .. Lane : j # i => inner'[j] = inner[j]
    <2> HIDE DEF same
    <2> QED BY <1>1, <1>4, WriteType
  <1>6. /\ ~src1'[i].valid /\ state'[i] = (IF own THEN "ST_SRC2" ELSE "ST_SRC1")
        /\ (same => ~src2'[i].valid) /\ (~same => src2'[i] = src2[i])
        /\ \A j \in Merger : j # i => /\ src1'[j] = src1[j] /\ src2'[j] = src2[j]
                                      /\ state'[j] = state[j] /\ single'[j] = single[j]
        /\ single'[i] = single[i]
    <2> HIDE DEF same, own
    <2> QED BY <1>1, Types, InvalidType
  <1>7. PICK x \in Items(i - 1) :
            /\ Between(i - 1, w[i], r[i]) = {x}
            /\ src1[i].data = Burst(x) /\ src1[i].last = IsLast(i - 1, x)
    BY <1>1, <1>3 DEF MergerInv
  <1>8. /\ x \in Nat /\ w[i] <= x /\ x < r[i] /\ First(x) = First(w[i])
        /\ x <= First(w[i]) + i - 2
    BY <1>1, <1>7, HeldInVector
  <1>9. PICK b \in Nat, f \in Nat, a \in Nat, p \in Nat :
            /\ b = w[i] /\ f = First(b) /\ a = r[i] /\ p = w[i - 1]
            /\ f <= b /\ b < f + Lane
    BY <1>2, Place
  <1>10. b <= x /\ x < a /\ First(x) = f /\ x <= f + i - 2 /\ a <= p /\ p <= fed * Lane
    BY <1>3, <1>8, <1>9 DEF StreamInv
  <1>11. PICK z \in Nat :
            /\ z = First(w[i]) + i - 1 /\ z < Behind(w[i])
            /\ First(z) = First(w[i]) /\ z \div Lane = w[i] \div Lane /\ z % Lane = i - 1
            /\ src2[i].data = Burst(z)
            /\ Starts(z) => z \in Items(i)
            /\ Starts(z) <=> Burst(z) # Burst(z - 1)
    BY <1>1, OwnSource
  <1>12. First(z) = f /\ z \div Lane = b \div Lane
    BY <1>9, <1>11
  <1>13. PICK n \in Nat, k \in Nat : n = Lane /\ k = i /\ 2 <= k /\ k <= n
    BY <1>2
  <1>14. z = f + k - 1 /\ x <= f + k - 2
    BY <1>9, <1>10, <1>11, <1>13
  \* The places in the order of the stream.
  <1>15. f <= b /\ b <= x /\ x < z /\ z < f + n /\ x < a /\ a <= p /\ x <= z - 1
    <2>1. z < f + n
      BY <1>13, <1>14
    <2>2. x < z /\ x <= z - 1
      BY <1>8, <1>13, <1>14
    <2> QED BY <1>9, <1>10, <2>1, <2>2
  <1>16. f <= x /\ x + 1 \in Nat /\ z - 1 \in Nat
    BY <1>8, <1>15
  <1>17. /\ z \in x + 1 .. z
         /\ \A y : y \in x + 1 .. z <=> (y \in x + 1 .. z - 1 \/ y = z)
    BY <1>8, <1>15
  <1>18. IsLast(i - 1, x) <=> \A y \in x + 1 .. z - 1 : ~Starts(y)
    <2>1. f + (i - 1) - 1 = z - 1
      BY <1>13, <1>14
    <2> QED BY <1>10, <2>1 DEF IsLast
  <1>19. IsLast(i, x) <=> IsLast(i - 1, x) /\ ~Starts(z)
    <2>1. IsLast(i, x) <=> \A y \in x + 1 .. z : ~Starts(y)
      BY <1>10, <1>13, <1>14 DEF IsLast
    <2> QED BY <1>17, <1>18, <2>1
  <1>20. same <=> IsLast(i, x)
    <2>1. CASE ~IsLast(i - 1, x)
      BY <1>7, <1>19, <2>1
    <2>2. CASE IsLast(i - 1, x)
      <3>1. \A y \in x + 1 .. z - 1 : Burst(y) = Burst(y - 1)
        BY <1>18, <2>2 DEF Starts
      <3>3. Burst(z - 1) = Burst(x)
        BY <1>8, <1>15, <1>16, <3>1, SameBurst
      <3>4. same <=> Burst(z) = Burst(x)
        BY <1>7, <1>11, <2>2
      <3> QED BY <1>11, <1>19, <2>2, <3>3, <3>4
    <2> QED BY <2>1, <2>2
  <1>21. same = IsLast(i, x) /\ (own <=> IsLast(i - 1, x) /\ Starts(z))
    <2>1. IsLast(i, x) \in BOOLEAN
      BY DEF IsLast
    <2> QED BY <1>4, <1>7, <1>19, <1>20, <2>1
  <1> HIDE DEF same, own
  \* The rest of the proof for any place c to which the merger gets.
  <1>22. ASSUME NEW c \in Nat, x < c, c <= p, c <= f + Lane,
                Between(i, x + 1, c) = {},
                OwnInv(i, c)',
                IF own THEN src2[i].valid /\ c % Lane = i - 1 /\ Starts(c)
                       ELSE c % Lane = 0 \/ \E y \in c .. First(c) + i - 2 : Starts(y)
         PROVE  \E v \in [1 .. Lane -> Nat], s \in [2 .. Lane + 1 -> Nat] : Layout(v, s)'
    <2>1. x \in Items(i)
      <3>1. x % Lane < i - 1 /\ x % Lane \in 0 .. Lane - 1
        BY <1>2, <1>7, <1>8, ItemsIs, Place
      <3>2. x % Lane < i
        BY <1>2, <3>1
      <3> QED BY <1>2, <1>7, <3>2, ItemsIs
    <2>2. ASSUME NEW y \in Items(i), b <= y, y < x
          PROVE  FALSE
      <3>1. y \in Nat /\ y < Len(input) * Lane /\ Starts(y)
        BY <1>2, ItemsIs
      <3>2. f <= y /\ y < f + Lane
        <4>1. f <= y /\ y < f + n
          BY <1>8, <1>15, <2>2, <3>1
        <4> QED BY <1>13, <4>1
      <3>3. y % Lane = y - f
        BY <1>9, <1>10, <3>1, <3>2, SameVector
      <3>4. y % Lane < i - 1
        <4>1. y - f < k - 1
          BY <1>8, <1>13, <1>14, <2>2, <3>1
        <4> QED BY <1>13, <3>3, <4>1
      <3>5. y \in Items(i - 1)
        BY <1>2, <3>1, <3>4, ItemsIs
      <3>6. y < a
        BY <1>8, <1>9, <1>10, <2>2, <3>1
      <3>7. y = x
        BY <1>7, <1>9, <2>2, <3>5, <3>6 DEF Between
      <3> QED BY <2>2, <3>1, <3>7
    <2>3. StreamInv(i, r[i + 1], c)'
      <3>1. Between(i, b, x) = {}
        BY <2>2 DEF Between
      <3>2. inner'[i] = Append(inner[i], [data |-> Burst(x), last |-> IsLast(i, x)])
        BY <1>5, <1>7, <1>21
      <3>3. c <= fed * Lane /\ b <= x
        BY <1>2, <1>9, <1>10, <1>22
      <3>4. StreamInv(i, r[i + 1], b)
        BY <1>3, <1>9
      <3> QED BY <1>1, <1>2, <1>22, <2>1, <3>1, <3>2, <3>3, <3>4, Written
    <2>4. ASSUME NEW y \in Items(i - 1)
          PROVE  a <= y <=> c <= y
      <3>1. y \in Nat /\ y \in Items(i)
        <4>1. y \in Nat /\ y % Lane < i - 1 /\ y % Lane \in 0 .. Lane - 1
          BY <1>2, ItemsIs, Place
        <4>2. y % Lane < i
          BY <1>2, <4>1
        <4> QED BY <1>2, <4>1, <4>2, ItemsIs
      <3>2. ~(x + 1 <= y /\ y < c)
        BY <1>22, <3>1 DEF Between
      <3>3. ~(x < y /\ y < a)
        <4> SUFFICES ASSUME x < y, y < a
                     PROVE  FALSE
          OBVIOUS
        <4>1. b <= y
          BY <1>8, <1>9, <1>10, <3>1
        <4>2. y = x
          BY <1>7, <1>9, <4>1 DEF Between
        <4> QED BY <1>8, <4>2
      <3> QED BY <1>8, <1>9, <1>10, <1>22, <3>1, <3>2, <3>3
    <2>5. StreamInv(i - 1, c, p)'
      <3>1. inner'[i - 1] = inner[i - 1] /\ StreamInv(i - 1, a, p)
        BY <1>2, <1>3, <1>5, <1>9
      <3> QED BY <1>1, <1>9, <1>22, <2>4, <3>1, Skipped
    <2>6. MergerInv(i, c, c)'
      <3>1. Between(i - 1, c, c) = {}
        BY <1>2, NoneBetween
      <3>2. Between(i - 1, c, c)' = {} /\ \A y : Starts(y)' = Starts(y)
        BY <1>1, <3>1, SameInput
      <3>3. IF state'[i] = "ST_SRC2"
            THEN src2'[i].valid /\ c % Lane = i - 1 /\ Starts(c)'
            ELSE c % Lane = 0 \/ \E y \in c .. First(c) + i - 2 : Starts(y)'
        <4>1. own => ~same
          BY DEF own
        <4> QED BY <1>6, <1>22, <3>2, <4>1
      <3>4. First(c)' = First(c)
        BY DEF First
      <3> QED BY <1>6, <1>22, <3>2, <3>3, <3>4 DEF MergerInv
    <2>7. \A j \in 1 .. Lane : j \notin {i - 1, i} => inner'[j] = inner[j]
      BY <1>5
    <2> QED BY <1>1, <1>6, <1>9, <1>22, <2>3, <2>5, <2>6, <2>7, MergerStep
  <1>23. OwnInv(i, b)
    BY <1>3, <1>9 DEF MergerInv
  <1>24. CASE ~IsLast(i - 1, x)
    <2>1. PICK y \in x + 1 .. z - 1 : Starts(y)
      BY <1>18, <1>24
    <2>2. /\ x + 1 <= p /\ x + 1 <= f + Lane /\ x < x + 1 /\ x + 1 < f + Lane /\ f <= x + 1
      <3>1. x + 1 <= p /\ x + 1 <= f + n /\ x < x + 1 /\ x + 1 < f + n /\ f <= x + 1
        BY <1>8, <1>15
      <3> QED BY <1>13, <3>1
    <2>3. First(x + 1) = f /\ (x + 1) \div Lane = b \div Lane
      BY <1>9, <1>16, <2>2, SameVector
    <2>4. ~same /\ ~own
      BY <1>19, <1>21, <1>24
    <2>5. OwnInv(i, x + 1)'
      BY <1>1, <1>6, <1>23, <2>3, <2>4, OwnStays
    <2>6. Between(i, x + 1, x + 1) = {}
      BY <1>2, <1>16, NoneBetween
    <2>7. y \in x + 1 .. First(x + 1) + i - 2
      <3>1. z - 1 = f + i - 2
        BY <1>13, <1>14
      <3> QED BY <2>1, <2>3, <3>1
    <2> QED BY <1>16, <1>22, <2>1, <2>2, <2>4, <2>5, <2>6, <2>7
  <1>25. CASE IsLast(i - 1, x)
    <2>1. f + Lane <= p /\ f + Lane \in Nat
      <3>1. First(x) < w[i - 1]
        <4>1. f < p
          BY <1>8, <1>15
        <4> QED BY <1>9, <1>10, <4>1
      <3>2. \A y \in w[i - 1] .. First(x) + (i - 1) - 1 : ~Starts(y)
        <4> SUFFICES ASSUME NEW y \in p .. f + (i - 1) - 1
                     PROVE  ~Starts(y)
          BY <1>9, <1>10
        <4>1. y \in x + 1 .. z - 1
          <5>1. y \in p .. f + (k - 1) - 1
            BY <1>13
          <5> QED BY <1>8, <1>14, <1>15, <5>1
        <4> QED BY <1>18, <1>25, <4>1
      <3>3. Behind(x) <= w[i - 1]
        BY <1>2, <1>8, <3>1, <3>2, WrittenOut
      <3>4. Behind(x) = f + n
        BY <1>10, <1>13 DEF Behind
      <3> QED BY <1>9, <1>13, <3>3, <3>4
    <2>2. ASSUME NEW y \in Items(i), x + 1 <= y, y < f + Lane
          PROVE  y = z /\ Starts(z)
      <3>1. y \in Nat /\ Starts(y) /\ y % Lane < i
        BY <1>2, ItemsIs
      <3>2. f <= y
        BY <1>8, <1>15, <2>2, <3>1
      <3>3. y % Lane = y - f
        BY <1>9, <2>2, <3>1, <3>2, SameVector
      <3>4. y <= z
        <4>1. y - f < k
          BY <1>13, <3>1, <3>3
        <4> QED BY <1>14, <3>1, <4>1
      <3>5. y \in x + 1 .. z
        BY <1>8, <2>2, <3>1, <3>4
      <3>6. y \notin x + 1 .. z - 1
        BY <1>18, <1>25, <3>1
      <3> QED BY <1>17, <3>1, <3>5, <3>6
    <2>3. CASE Starts(z)
      <3>1. own /\ ~same
        BY <1>19, <1>21, <1>25, <2>3
      <3>2. OwnInv(i, z)'
        BY <1>1, <1>6, <1>12, <1>23, <3>1, OwnStays
      <3>3. Between(i, x + 1, z) = {}
        <4> SUFFICES ASSUME NEW y \in Items(i), x + 1 <= y, y < z
                     PROVE  FALSE
          BY DEF Between
        <4>1. y \in Nat
          BY <1>2, ItemsIs
        <4>2. y < f + n
          BY <1>15, <4>1
        <4>3. y < f + Lane
          BY <1>13, <4>2
        <4>4. y = z
          BY <2>2, <4>3
        <4> QED BY <4>1, <4>4
      <3>4. z <= p /\ z <= f + Lane
        <4>1. f + n <= p
          BY <1>13, <2>1
        <4>2. z <= p /\ z <= f + n
          BY <1>15, <4>1
        <4> QED BY <1>13, <4>2
      <3> QED BY <1>1, <1>11, <1>15, <1>22, <2>3, <3>1, <3>2, <3>3, <3>4
    <2>4. CASE ~Starts(z)
      <3>1. same /\ ~own
        BY <1>19, <1>20, <1>21, <1>25, <2>4
      <3>2. (f + Lane) % Lane = 0 /\ (f + Lane) \div Lane = (b \div Lane) + 1
        BY <1>9, NextVector, ZenonT(40)
      <3>3. OwnInv(i, f + Lane)'
        BY <1>1, <1>6, <1>9, <1>23, <3>1, <3>2, OwnTaken
      <3>4. Between(i, x + 1, f + Lane) = {}
        BY <2>2, <2>4 DEF Between
      <3>5. x < f + Lane /\ f + Lane <= f + Lane
        <4>1. x < f + n /\ f + n <= f + n
          BY <1>8, <1>15
        <4> QED BY <1>13, <4>1
      <3> QED BY <1>22, <2>1, <3>1, <3>2, <3>3, <3>4, <3>5
    <2> QED BY <2>3, <2>4
  <1> QED BY <1>24, <1>25

LEMMA WriteSrc2Step ==
    ASSUME TypeOK, NEW w \in [1 .. Lane -> Nat], NEW r \in [2 .. Lane + 1 -> Nat], Layout(w, r),
           NEW i \in Merger, WriteSrc2(i)
    PROVE  \E v \in [1 .. Lane -> Nat], s \in [2 .. Lane + 1 -> Nat] : Layout(v, s)'
  <1>1. /\ state[i] = "ST_SRC2" /\ src2[i].valid
        /\ Write(i, src2[i], TRUE)
        /\ state' = [state EXCEPT ![i] = "ST_SRC1"]
        /\ src2' = [src2 EXCEPT ![i] = Invalid]
        /\ UNCHANGED <<input, fed, single, src1, cmd>>
    BY DEF WriteSrc2
  <1>2. /\ i \in 1 .. Lane /\ i - 1 \in 1 .. Lane /\ (i - 1) + 1 = i /\ i - 1 # i
        /\ input \in Input /\ fed \in Nat
        /\ w[i] \in Nat /\ r[i] \in Nat /\ w[i - 1] \in Nat /\ r[i + 1] \in Nat
    <2>1. i \in 1 .. Lane /\ i - 1 \in 1 .. Lane /\ (i - 1) + 1 = i /\ i - 1 # i
      BY MergerType
    <2> QED BY <2>1, LayoutType
  <1>3. StreamInv(i - 1, r[i], w[i - 1]) /\ StreamInv(i, r[i + 1], w[i])
        /\ MergerInv(i, w[i], r[i])
    BY <1>2 DEF Layout
  <1>4. /\ inner'[i] = Append(inner[i], [data |-> src2[i].data, last |-> TRUE])
        /\ \A j \in 1 .. Lane : j # i => inner'[j] = inner[j]
    BY <1>1, Types, WriteType
  <1>5. /\ src1'[i] = src1[i] /\ state'[i] = "ST_SRC1" /\ ~src2'[i].valid
        /\ \A j \in Merger : j # i => /\ src1'[j] = src1[j] /\ src2'[j] = src2[j]
                                      /\ state'[j] = state[j] /\ single'[j] = single[j]
        /\ single'[i] = single[i]
    BY <1>1, Types, InvalidType
  <1>6. PICK n \in Nat, k \in Nat : n = Lane /\ k = i /\ 2 <= k /\ k <= n
    BY MergerType, Constants
  <1>7. PICK b \in Nat, f \in Nat, a \in Nat, p \in Nat :
            b = w[i] /\ f = First(b) /\ a = r[i] /\ p = w[i - 1]
    BY <1>2, Place
  <1>8. b % Lane = i - 1 /\ Starts(b) /\ b <= a /\ a <= p /\ p <= fed * Lane
    BY <1>1, <1>3, <1>7 DEF MergerInv, StreamInv
  <1>9. b = f + k - 1 /\ b < f + n
    <2>1. b = f + (b % Lane)
      BY <1>7, Place
    <2>2. b = f + (k - 1)
      BY <1>6, <1>8, <2>1
    <2> QED BY <1>6, <2>2
  <1>10. src2[i].data = Burst(b) /\ b \in Items(i)
    <2>1. PICK z \in Nat : /\ z = f + i - 1 /\ src2[i].data = Burst(z)
                           /\ Starts(z) => z \in Items(i)
      BY <1>1, <1>7, OwnSource
    <2>2. z = b
      BY <1>6, <1>9, <2>1
    <2> QED BY <1>8, <2>1, <2>2
  <1>11. PICK c \in Nat : c = Behind(b) /\ c = f + n
    BY <1>6, <1>7, NextVector
  <1>12. c % Lane = 0 /\ c \div Lane = (b \div Lane) + 1
    BY <1>11, NextVector
  \* No other source of the vector has its place behind b in these streams.
  <1>13. ASSUME NEW j \in {i - 1, i}, NEW y \in Items(j), b <= y, y < c
         PROVE  j = i /\ y = b
    <2>1. y \in Nat /\ y % Lane < j
      BY <1>2, ItemsIs
    <2>2. f <= y /\ y < f + n
      BY <1>6, <1>9, <1>11, <1>13, <2>1
    <2>3. y % Lane = y - f
      <3>1. First(b) <= y /\ y < First(b) + Lane
        BY <1>6, <1>7, <2>2
      <3> QED BY <1>7, <2>1, <3>1, SameVector
    <2>4. k - 1 <= y - f
      BY <1>6, <1>9, <1>13, <2>1
    <2>5. CASE j = i
      <3>1. y - f < k
        BY <1>6, <2>1, <2>3, <2>5
      <3>2. y = b
        BY <1>6, <1>9, <2>1, <2>4, <3>1
      <3> QED BY <2>5, <3>2
    <2>6. CASE j = i - 1
      <3>1. y - f < k - 1
        BY <1>6, <2>1, <2>3, <2>6
      <3> QED BY <1>6, <2>1, <2>4, <3>1
    <2> QED BY <2>5, <2>6
  <1>14. c <= p
    <2>1. f < p
      BY <1>6, <1>8, <1>9, <1>7
    <2>2. p .. f + (k - 1) - 1 = {}
      BY <1>6, <1>7, <1>8, <1>9
    <2>3. First(b) < w[i - 1] /\ \A y \in w[i - 1] .. First(b) + (i - 1) - 1 : ~Starts(y)
      BY <1>6, <1>7, <2>1, <2>2
    <2> QED BY <1>2, <1>7, <1>11, <2>3, WrittenOut
  <1>15. StreamInv(i, r[i + 1], c)'
    <2>1. IsLast(i, b)
      <3>1. b + 1 .. f + k - 1 = {}
        BY <1>6, <1>9
      <3> QED BY <1>6, <1>7, <3>1 DEF IsLast
    <2>2. IsLast(i, b) = TRUE
      BY <2>1 DEF IsLast
    <2>3. inner'[i] = Append(inner[i], [data |-> Burst(b), last |-> IsLast(i, b)])
      BY <1>4, <1>10, <2>2
    <2>4. Between(i, b, b) = {}
      BY <1>2, NoneBetween
    <2>5. Between(i, b + 1, c) = {}
      <3> SUFFICES ASSUME NEW y \in Items(i), b + 1 <= y, y < c
                   PROVE  FALSE
        BY DEF Between
      <3>1. y \in Nat
        BY <1>2, ItemsIs
      <3>2. b <= y /\ y # b
        BY <1>7, <3>1
      <3> QED BY <1>13, <3>2
    <2>6. b <= b /\ b < c /\ c <= fed * Lane
      <3>1. b <= b /\ b < c
        BY <1>6, <1>9, <1>11
      <3>2. PICK m \in Nat : m = fed * Lane
        BY <1>2, Constants
      <3>3. c <= m
        BY <1>8, <1>14, <3>2
      <3> QED BY <3>1, <3>2, <3>3
    <2>7. StreamInv(i, r[i + 1], b)
      BY <1>3, <1>7
    <2> QED BY <1>1, <1>2, <1>10, <2>3, <2>4, <2>5, <2>6, <2>7, Written
  <1>16. OwnInv(i, c)'
    <2>1. OwnInv(i, b)
      BY <1>3, <1>7 DEF MergerInv
    <2> QED BY <1>1, <1>5, <1>12, <2>1, OwnTaken
  <1>17. ASSUME NEW d \in Nat, c <= d, StreamInv(i - 1, d, p)',
                IF src1[i].valid
                THEN \E x \in Items(i - 1) :
                        /\ Between(i - 1, c, d) = {x}
                        /\ src1[i].data = Burst(x) /\ src1[i].last = IsLast(i - 1, x)
                ELSE Between(i - 1, c, d) = {}
         PROVE  \E v \in [1 .. Lane -> Nat], s \in [2 .. Lane + 1 -> Nat] : Layout(v, s)'
    <2>1. /\ Items(i - 1)' = Items(i - 1) /\ Between(i - 1, c, d)' = Between(i - 1, c, d)
          /\ \A x : Burst(x)' = Burst(x) /\ IsLast(i - 1, x)' = IsLast(i - 1, x)
      BY <1>1, SameInput
    <2>2. IF src1'[i].valid
          THEN \E x \in Items(i - 1)' :
                  /\ Between(i - 1, c, d)' = {x}
                  /\ src1'[i].data = Burst(x)' /\ src1'[i].last = IsLast(i - 1, x)'
          ELSE Between(i - 1, c, d)' = {}
      BY <1>5, <1>17, <2>1
    <2>3. state'[i] # "ST_SRC2"
      BY <1>5
    <2>4. MergerInv(i, c, d)'
      BY <1>12, <1>16, <1>17, <2>2, <2>3 DEF MergerInv
    <2>5. \A j \in 1 .. Lane : j \notin {i - 1, i} => inner'[j] = inner[j]
      BY <1>4
    <2> QED BY <1>1, <1>5, <1>7, <1>15, <1>17, <2>4, <2>5, MergerStep
  <1>18. StreamInv(i - 1, a, p) /\ inner'[i - 1] = inner[i - 1]
    BY <1>2, <1>3, <1>4, <1>7
  <1>19. CASE src1[i].valid
    <2>1. PICK x \in Items(i - 1) :
              /\ Between(i - 1, b, a) = {x}
              /\ src1[i].data = Burst(x) /\ src1[i].last = IsLast(i - 1, x)
      BY <1>3, <1>7, <1>19 DEF MergerInv
    <2>2. x \in Nat /\ b <= x /\ x < a
      <3>1. x \in Between(i - 1, b, a)
        BY <2>1
      <3>2. x \in Nat
        BY <1>2, ItemsIs
      <3> QED BY <3>1, <3>2 DEF Between
    <2>3. c <= x
      <3> SUFFICES ASSUME x < c
                   PROVE  FALSE
        BY <2>2, <1>11
      <3>1. i - 1 = i
        BY <1>13, <2>2
      <3> QED BY <1>2, <3>1
    <2>4. c <= a
      BY <2>2, <2>3
    <2>5. Between(i - 1, c, a) = {x}
      <3>1. ASSUME NEW y \in Items(i - 1), c <= y, y < a
            PROVE  y = x
        <4>1. y \in Nat
          BY <1>2, ItemsIs
        <4>2. b <= y
          BY <1>6, <1>9, <1>11, <3>1, <4>1
        <4> QED BY <2>1, <3>1, <4>2 DEF Between
      <3> QED BY <2>2, <2>3, <3>1 DEF Between
    <2>6. StreamInv(i - 1, a, p)'
      BY <1>1, <1>2, <1>18, KeepStream
    <2> QED BY <1>17, <1>19, <2>1, <2>4, <2>5, <2>6
  <1>20. CASE ~src1[i].valid
    <2>1. Between(i - 1, b, a) = {}
      BY <1>3, <1>7, <1>20 DEF MergerInv
    <2>2. ASSUME NEW y \in Items(i - 1)
          PROVE  a <= y <=> c <= y
      <3>1. y \in Nat
        BY <1>2, ItemsIs
      <3>2. ~(b <= y /\ y < a)
        BY <2>1 DEF Between
      <3>3. ~(b <= y /\ y < c)
        BY <1>2, <1>13
      <3> QED BY <1>6, <1>8, <1>9, <1>11, <3>1, <3>2, <3>3, SMTT(30)
    <2>3. StreamInv(i - 1, c, p)'
      BY <1>1, <1>14, <1>18, <2>2, Skipped
    <2>4. Between(i - 1, c, c) = {}
      BY <1>2, NoneBetween
    <2> QED BY <1>17, <1>20, <2>3, <2>4
  <1> QED BY <1>19, <1>20

\* The filter passes on the first item of a burst and no other.
LEMMA FilterTurn ==
    ASSUME TypeOK, NEW w \in [1 .. Lane -> Nat], NEW r \in [2 .. Lane + 1 -> Nat], Layout(w, r),
           FilterSameItem
    PROVE  \E x \in Nat :
              /\ r[Lane + 1] <= x /\ x < w[Lane]
              /\ inner'[Lane] = Tail(inner[Lane])
              /\ Holds(Tail(inner[Lane]), Between(Lane, x + 1, w[Lane]), Item(Lane))
              /\ \/ /\ cmd' = cmd /\ cmd # <<>> /\ cmd[Len(cmd)] = Burst(x)
                    /\ Cardinality(Touches(x + 1)) = Len(cmd)
                 \/ /\ cmd' = Append(cmd, Burst(x)) /\ x \in Touches(x + 1)
                    /\ Cardinality(Touches(x + 1)) = Len(cmd) + 1
  <1> DEFINE q == inner[Lane]
  <1>1. /\ q # <<>>
        /\ cmd' = (IF cmd # <<>> /\ Head(q).data = cmd[Len(cmd)] THEN cmd
                   ELSE Append(cmd, Head(q).data))
        /\ inner' = [inner EXCEPT ![Lane] = Tail(q)]
    BY DEF FilterSameItem
  <1>2. Lane \in 1 .. Lane /\ Lane \in Nat \ {0} /\ input \in Input /\ cmd \in Seq(Nat)
        /\ q \in Seq(ItemType) /\ inner'[Lane] = Tail(q)
    <2>1. Lane \in 1 .. Lane /\ Lane \in Nat \ {0}
      BY Constants
    <2> QED BY <1>1, <2>1, Types
  <1>3. PICK s \in Nat, p \in Nat : s = r[Lane + 1] /\ p = w[Lane]
    <2>1. r[Lane + 1] \in Nat /\ w[Lane] \in Nat
      BY <1>2, LayoutType
    <2> QED BY <2>1
  <1>4. s <= p /\ p <= fed * Lane /\ Holds(q, Between(Lane, s, p), Item(Lane)) /\ FilterInv(s)
    BY <1>2, <1>3 DEF Layout, StreamInv
  <1> HIDE DEF q
  <1>5. PICK x \in Between(Lane, s, p) :
            /\ Head(q) = [data |-> Burst(x), last |-> IsLast(Lane, x)]
            /\ Between(Lane, s, x) = {}
            /\ Holds(Tail(q), Between(Lane, x + 1, p), Item(Lane))
    <2>1. q # <<>> /\ q \in Seq(ItemType) /\ input \in Input
      BY <1>1, <1>2
    <2>2. Holds(q, Between(Lane, s, p), Item(Lane))
      BY <1>4
    <2> QED BY <2>1, <2>2, TakeItem, ZenonT(40)
  <1>6. x \in Nat /\ x < Len(input) * Lane /\ Len(input) * Lane \in Nat /\ s <= x /\ x < p
    <2>1. x \in Items(Lane) /\ s <= x /\ x < p
      BY <1>5 DEF Between
    <2>2. x \in Nat /\ x < Len(input) * Lane
      BY <1>2, <2>1, ItemsIs
    <2>3. Len(input) * Lane \in Nat
      BY <1>2, Stream
    <2> QED BY <2>1, <2>2, <2>3
  <1>7. ASSUME NEW y \in s .. x - 1
        PROVE  y # 0 /\ Burst(y) = Burst(y - 1)
    <2>1. y \in Nat /\ s <= y /\ y < x /\ y < Len(input) * Lane
      BY <1>3, <1>6
    <2>2. y % Lane < Lane
      BY <1>2, <2>1, Place
    <2>3. ~Starts(y)
      <3> SUFFICES ASSUME Starts(y)
                   PROVE  FALSE
        OBVIOUS
      <3>1. y \in Items(Lane)
        BY <1>2, <2>1, <2>2, ItemsIs
      <3> QED BY <1>5, <2>1, <3>1 DEF Between
    <2>4. 0 % Lane = 0
      BY <1>2
    <2> QED BY <2>3, <2>4 DEF Starts
  <1> DEFINE touched == x = 0 \/ Burst(x) # Burst(x - 1)
  <1>8. Touches(x + 1) = Touches(s) \cup (IF touched THEN {x} ELSE {})
    <2>1. ASSUME NEW y
          PROVE  y \in 0 .. x <=> (y \in 0 .. s - 1 \/ y \in s .. x - 1 \/ y = x)
      BY <1>3, <1>6
    <2>2. (x + 1) - 1 = x
      BY <1>6
    <2>3. Touches(x + 1) = {y \in 0 .. x : y = 0 \/ Burst(y) # Burst(y - 1)}
      BY <2>2 DEF Touches
    <2>4. ASSUME NEW y
          PROVE  y \in Touches(x + 1) <=> (y \in Touches(s) \/ (y = x /\ touched))
      BY <1>7, <2>1, <2>3 DEF Touches
    <2> HIDE DEF touched
    <2> QED BY <2>4
  <1>9. x \notin Touches(s) /\ IsFiniteSet(Touches(s))
    <2>1. x \notin 0 .. s - 1
      BY <1>3, <1>6
    <2>2. IsFiniteSet(0 .. s - 1) /\ Touches(s) \subseteq 0 .. s - 1
      <3>1. IsFiniteSet(0 .. s - 1)
        <4>1. 0 \in Int /\ s - 1 \in Int
          BY <1>3
        <4> QED BY <4>1, FS_Interval
      <3> QED BY <3>1 DEF Touches
    <2> QED BY <2>1, <2>2, FS_Subset
  <1>10. Len(cmd) = Cardinality(Touches(s)) /\ Len(cmd) \in Nat
    <2>1. fed \in Nat /\ fed * Lane \in Nat
      <3>1. fed \in Nat
        BY LayoutType
      <3> QED BY <1>2, <3>1
    <2>2. s <= fed * Lane
      BY <1>3, <1>4, <2>1
    <2>3. {y \in R!Touched(fed) : y < s} = Touches(s)
      BY <1>2, <1>3, <2>1, <2>2, TouchesIs
    <2>4. Len(cmd) = Cardinality({y \in R!Touched(fed) : y < s})
      BY <1>4 DEF FilterInv
    <2>5. Len(cmd) \in Nat
      BY <1>2
    <2> QED BY <2>3, <2>4, <2>5
  <1>11. touched <=> ~(cmd # <<>> /\ Burst(x) = cmd[Len(cmd)])
    <2>1. CASE s = 0
      <3>1. Touches(s) = {}
        BY <2>1 DEF Touches
      <3>2. cmd = <<>>
        <4>1. Len(cmd) = 0
          BY <1>10, <3>1, FS_EmptySet
        <4> QED BY <1>2, <4>1
      <3>3. x = 0
        <4> SUFFICES ASSUME x # 0
                     PROVE  FALSE
          OBVIOUS
        <4>1. 0 \in s .. x - 1
          BY <1>6, <2>1
        <4> QED BY <1>7, <4>1
      <3> QED BY <3>2, <3>3
    <2>2. CASE s # 0
      <3>1. cmd # <<>> /\ cmd[Len(cmd)] = Burst(s - 1)
        BY <1>3, <1>4, <2>2 DEF FilterInv
      <3>2. s - 1 \in Nat /\ x - 1 \in Nat /\ s - 1 <= x - 1 /\ x # 0 /\ (s - 1) + 1 = s
        BY <1>3, <1>6, <2>2
      <3>3. \A y \in (s - 1) + 1 .. x - 1 : Burst(y) = Burst(y - 1)
        BY <1>7, <3>2
      <3>4. Burst(x - 1) = Burst(s - 1)
        BY <3>2, <3>3, SameBurst
      <3> QED BY <3>1, <3>2, <3>4
    <2> QED BY <2>1, <2>2
  <1>12. Head(q).data = Burst(x)
    BY <1>5
  <1>13. CASE touched
    <2>1. cmd' = Append(cmd, Burst(x))
      BY <1>1, <1>11, <1>12, <1>13
    <2>2. Touches(x + 1) = Touches(s) \cup {x}
      BY <1>8, <1>13
    <2>3. Cardinality(Touches(x + 1)) = Len(cmd) + 1
      BY <1>9, <1>10, <2>2, FS_AddElement
    <2> QED BY <1>2, <1>3, <1>5, <1>6, <2>1, <2>2, <2>3 DEF q
  <1>14. CASE ~touched
    <2>1. cmd' = cmd /\ cmd # <<>> /\ cmd[Len(cmd)] = Burst(x)
      BY <1>1, <1>11, <1>12, <1>14
    <2>2. Touches(x + 1) = Touches(s)
      BY <1>8, <1>14
    <2> QED BY <1>2, <1>3, <1>5, <1>6, <1>10, <2>1, <2>2 DEF q
  <1> QED BY <1>13, <1>14

LEMMA FilterStep ==
    ASSUME TypeOK, NEW w \in [1 .. Lane -> Nat], NEW r \in [2 .. Lane + 1 -> Nat], Layout(w, r),
           FilterSameItem
    PROVE  \E v \in [1 .. Lane -> Nat], s \in [2 .. Lane + 1 -> Nat] : Layout(v, s)'
  <1>1. /\ inner' = [inner EXCEPT ![Lane] = Tail(@)]
        /\ UNCHANGED <<input, fed, single, src1, src2, state>>
    BY DEF FilterSameItem
  <1>2. PICK x \in Nat :
            /\ r[Lane + 1] <= x /\ x < w[Lane]
            /\ inner'[Lane] = Tail(inner[Lane])
            /\ Holds(Tail(inner[Lane]), Between(Lane, x + 1, w[Lane]), Item(Lane))
            /\ \/ /\ cmd' = cmd /\ cmd # <<>> /\ cmd[Len(cmd)] = Burst(x)
                  /\ Cardinality(Touches(x + 1)) = Len(cmd)
               \/ /\ cmd' = Append(cmd, Burst(x)) /\ x \in Touches(x + 1)
                  /\ Cardinality(Touches(x + 1)) = Len(cmd) + 1
    BY FilterTurn
  <1>3. /\ input \in Input /\ fed \in Nat /\ cmd \in Seq(Nat) /\ Lane \in 1 .. Lane
        /\ Lane \in Nat /\ w[Lane] \in Nat
    <2>1. Lane \in 1 .. Lane /\ Lane \in Nat
      BY Constants
    <2> QED BY <2>1, LayoutType, Types
  <1> DEFINE s == [r EXCEPT ![Lane + 1] = x + 1]
  <1>4. /\ s \in [2 .. Lane + 1 -> Nat] /\ s[Lane + 1] = x + 1
        /\ \A j \in 2 .. Lane : s[j] = r[j]
    <2>1. Lane + 1 \in 2 .. Lane + 1 /\ \A j \in 2 .. Lane : j \in 2 .. Lane + 1 /\ j # Lane + 1
      BY Constants
    <2> QED BY <2>1
  <1> HIDE DEF s
  <1>5. ASSUME NEW i \in 1 .. Lane
        PROVE  StreamInv(i, s[i + 1], w[i])'
    <2>1. StreamInv(i, r[i + 1], w[i])
      BY DEF Layout
    <2>2. CASE i = Lane
      <3>1. x + 1 <= w[Lane] /\ w[Lane] <= fed * Lane
        BY <1>2, <1>3, <2>1, <2>2 DEF StreamInv
      <3>2. /\ Between(Lane, x + 1, w[Lane])' = Between(Lane, x + 1, w[Lane])
            /\ Item(Lane)' = Item(Lane)
        BY <1>1, SameInput
      <3>3. StreamInv(Lane, x + 1, w[Lane])'
        BY <1>1, <1>2, <3>1, <3>2 DEF StreamInv, Holds
      <3> QED BY <1>4, <2>2, <3>3
    <2>3. CASE i # Lane
      <3>1. i + 1 \in 2 .. Lane
        BY <1>3, <2>3
      <3>2. inner'[i] = inner[i] /\ s[i + 1] = r[i + 1]
        BY <1>1, <1>4, <2>3, <3>1, Types
      <3>3. r[i + 1] \in Nat /\ w[i] \in Nat
        BY LayoutType
      <3>4. StreamInv(i, r[i + 1], w[i])'
        BY <1>1, <1>3, <2>1, <3>2, <3>3, KeepStream
      <3> QED BY <3>2, <3>4
    <2> QED BY <2>2, <2>3
  <1>6. ASSUME NEW i \in Merger
        PROVE  MergerInv(i, w[i], s[i])'
    <2>1. MergerInv(i, w[i], r[i]) /\ s[i] = r[i]
      BY <1>4 DEF Layout, Merger
    <2>2. MergerInv(i, w[i], r[i])'
      BY <1>1, <2>1, KeepMerger
    <2> QED BY <2>1, <2>2
  <1>7. FilterInv(x + 1)'
    <2>1. x + 1 \in Nat /\ x + 1 <= fed * Lane /\ (x + 1) - 1 = x
      <3>1. StreamInv(Lane, r[Lane + 1], w[Lane])
        BY <1>3 DEF Layout
      <3>2. PICK m \in Nat : m = fed * Lane
        BY <1>3
      <3>3. w[Lane] <= m
        BY <3>1, <3>2 DEF StreamInv
      <3> QED BY <1>2, <1>3, <3>2, <3>3
    <2>2. {y \in R!Touched(fed) : y < x + 1} = Touches(x + 1)
      BY <1>3, <2>1, TouchesIs
    <2>3. /\ {y \in R!Touched(fed)' : y < x + 1} = {y \in R!Touched(fed) : y < x + 1}
          /\ Burst(x)' = Burst(x)
      BY <1>1, SameInput DEF R!Touched, R!Burst, R!Width
    <2>4. Len(cmd') = Cardinality(Touches(x + 1)) /\ cmd' # <<>> /\ cmd'[Len(cmd')] = Burst(x)
      <3>1. ASSUME NEW e
            PROVE  /\ Len(Append(cmd, e)) = Len(cmd) + 1 /\ Append(cmd, e) # <<>>
                   /\ Append(cmd, e)[Len(cmd) + 1] = e
        <4>1. cmd \in Seq(Nat \cup {e})
          BY <1>3
        <4> QED BY <4>1
      <3> QED BY <1>2, <3>1
    <2>5. Burst((x + 1) - 1)' = Burst(x)
      BY <2>1, <2>3
    <2> QED BY <2>2, <2>3, <2>4, <2>5 DEF FilterInv
  <1>8. Layout(w, s)'
    <2>1. w[1] = (fed * Lane)'
      BY <1>1 DEF Layout
    <2> QED BY <1>4, <1>5, <1>6, <1>7, <2>1 DEF Layout
  <1> QED BY <1>4, <1>8

\* The Cardinality that Requests has from FiniteSets.
LEMMA RequestsCardinality == ASSUME NEW S PROVE R!Cardinality(S) = Cardinality(S)
  BY DEF R!Cardinality, Cardinality

\* What the filter passes on is the next request.
LEMMA FilterRequests ==
    ASSUME TypeOK, NEW w \in [1 .. Lane -> Nat], NEW r \in [2 .. Lane + 1 -> Nat], Layout(w, r),
           FilterSameItem
    PROVE  R!Request \/ UNCHANGED R!vars
  <1>1. UNCHANGED <<input, fed>>
    BY DEF FilterSameItem
  <1>2. PICK x \in Nat :
            /\ r[Lane + 1] <= x /\ x < w[Lane]
            /\ \/ cmd' = cmd
               \/ /\ cmd' = Append(cmd, Burst(x)) /\ x \in Touches(x + 1)
                  /\ Cardinality(Touches(x + 1)) = Len(cmd) + 1
    BY FilterTurn
  <1>3. CASE cmd' = cmd
    BY <1>1, <1>3 DEF R!vars
  <1>4. CASE /\ cmd' = Append(cmd, Burst(x)) /\ x \in Touches(x + 1)
             /\ Cardinality(Touches(x + 1)) = Len(cmd) + 1
    <2>1. input \in Input /\ fed \in Nat /\ w[Lane] \in Nat /\ Lane \in 1 .. Lane /\ Lane \in Nat
      <3>1. Lane \in 1 .. Lane /\ Lane \in Nat
        BY Constants
      <3> QED BY <3>1, LayoutType
    <2>2. PICK m \in Nat : m = fed * Lane
      BY <2>1
    <2>3. x + 1 \in Nat /\ x + 1 <= m
      <3>1. w[Lane] <= m
        BY <2>1, <2>2 DEF Layout, StreamInv
      <3> QED BY <1>2, <2>1, <3>1
    <2>4. {y \in R!Touched(fed) : y < x + 1} = Touches(x + 1)
      BY <2>1, <2>2, <2>3, TouchesIs
    <2>5. R!Touched(fed) \subseteq Nat
      <3>1. R!Touched(fed) \subseteq 0 .. m - 1
        BY <2>1, <2>2, Stream DEF R!Touched
      <3> QED BY <3>1
    <2>6. {y \in R!Touched(fed) : y <= x} = {y \in R!Touched(fed) : y < x + 1}
      BY <2>5
    <2>7. x \in R!Touched(fed)
      BY <1>4, <2>4
    <2>8. Cardinality({y \in R!Touched(fed) : y <= x}) = Len(cmd) + 1
      BY <1>4, <2>4, <2>6
    <2>9. R!Cardinality({y \in R!Touched(fed) : y <= x}) = Len(cmd) + 1
      BY <2>8, RequestsCardinality
    <2> QED BY <1>1, <1>4, <2>7, <2>9 DEF R!Request, Burst
  <1> QED BY <1>2, <1>3, <1>4

LEMMA InvariantStep ==
    ASSUME IInv, [Next]_vars
    PROVE  IInv'
  <1>1. TypeOK /\ TypeOK'
    BY TypeStep DEF IInv
  <1>2. PICK w \in [1 .. Lane -> Nat], r \in [2 .. Lane + 1 -> Nat] : Layout(w, r)
    BY DEF IInv
  <1> SUFFICES \E v \in [1 .. Lane -> Nat], s \in [2 .. Lane + 1 -> Nat] : Layout(v, s)'
    BY <1>1 DEF IInv
  <1>3. CASE SrcToAddress
    BY <1>1, <1>2, <1>3, SrcToAddressStep
  <1>4. ASSUME NEW i \in Merger, MergeSameItem(i)
        PROVE  \E v \in [1 .. Lane -> Nat], s \in [2 .. Lane + 1 -> Nat] : Layout(v, s)'
    <2>1. CASE ReadSrc1(i)
      BY <1>1, <1>2, <2>1, ReadSrc1Step
    <2>2. CASE ReadSrc2(i)
      BY <1>1, <1>2, <2>2, ReadSrc2Step
    <2>3. CASE WriteSrc1(i)
      BY <1>1, <1>2, <2>3, WriteSrc1Step
    <2>4. CASE WriteSrc2(i)
      BY <1>1, <1>2, <2>4, WriteSrc2Step
    <2> QED BY <1>4, <2>1, <2>2, <2>3, <2>4 DEF MergeSameItem
  <1>5. CASE FilterSameItem
    BY <1>1, <1>2, <1>5, FilterStep
  <1>6. CASE UNCHANGED vars
    <2>1. /\ UNCHANGED <<input, fed, single, inner, src1, src2, state, cmd>>
      BY <1>6 DEF vars
    <2>2. ASSUME NEW i \in 1 .. Lane
          PROVE  StreamInv(i, r[i + 1], w[i])'
      <3>1. StreamInv(i, r[i + 1], w[i]) /\ r[i + 1] \in Nat /\ w[i] \in Nat /\ fed \in Nat
        BY <1>1, <1>2, LayoutType DEF Layout
      <3> QED BY <2>1, <3>1, KeepStream
    <2>3. ASSUME NEW i \in Merger
          PROVE  MergerInv(i, w[i], r[i])'
      <3>1. MergerInv(i, w[i], r[i])
        BY <1>2 DEF Layout
      <3> QED BY <2>1, <3>1, KeepMerger
    <2>4. FilterInv(r[Lane + 1])'
      <3>1. FilterInv(r[Lane + 1])
        BY <1>2 DEF Layout
      <3> QED BY <2>1, <3>1, KeepFilter
    <2>5. Layout(w, r)'
      BY <1>2, <2>1, <2>2, <2>3, <2>4 DEF Layout
    <2> QED BY <1>2, <2>5
  <1> QED BY <1>3, <1>4, <1>5, <1>6 DEF Next, Waiting

-----------------------------------------------------------------------------
(* The results. *)

\* Every stream of coalesce holds the requests of the sources between what
\* was written to it and what was read, in order, and every merger knows by
\* the flag of its first input what its own source is to be compared with.
THEOREM Invariance == Spec => []IInv
  <1>1. Init => IInv
    BY InitInvariant
  <1>2. IInv /\ [Next]_vars => IInv'
    BY InvariantStep
  <1> QED BY <1>1, <1>2, PTL DEF Spec

\* The streams between the kernels are never written beyond their depth.
THEOREM TypeCorrect == Spec => []TypeOK
  <1>1. IInv => TypeOK
    BY DEF IInv
  <1> QED BY <1>1, Invariance, PTL

\* coalesce requests each burst that the vectors touch, in their order, and
\* none twice in a row.
THEOREM RequestsMade == Spec => ImplementsRequests
  <1>1. Init => R!Init
    BY DEF Init, R!Init
  <1>2. IInv /\ [Next]_vars => [R!Next]_(R!vars)
    <2> SUFFICES ASSUME IInv, [Next]_vars
                 PROVE  R!Next \/ UNCHANGED R!vars
      OBVIOUS
    <2>1. PICK w \in [1 .. Lane -> Nat], r \in [2 .. Lane + 1 -> Nat] : Layout(w, r)
      BY DEF IInv
    <2>2. CASE SrcToAddress
      BY <2>2 DEF SrcToAddress, R!Next, R!Feed
    <2>3. ASSUME NEW i \in Merger, MergeSameItem(i)
          PROVE  UNCHANGED R!vars
      BY <2>3 DEF MergeSameItem, ReadSrc1, ReadSrc2, WriteSrc1, WriteSrc2, R!vars
    <2>4. CASE FilterSameItem
      BY <2>1, <2>4, FilterRequests DEF IInv, R!Next
    <2>5. CASE UNCHANGED vars
      BY <2>5 DEF vars, R!vars
    <2> QED BY <2>2, <2>3, <2>4, <2>5 DEF Next, Waiting
  <1> QED BY <1>1, <1>2, Invariance, PTL DEF Spec, ImplementsRequests, R!Spec
=============================================================================
