--------------------------- MODULE PipelineProofs ---------------------------
(***************************************************************************)
(* When the host sees the kernels of a partition end, nothing is left in   *)
(* gs or between the kernels: for every number of pipelines, elements and  *)
(* lanes, every depth of the streams and every list of edges.              *)
(***************************************************************************)
EXTENDS PipelineInvariant, TLAPS

-----------------------------------------------------------------------------
(* Sequences of any elements. *)

LEMMA SeqIsSeq ==
    ASSUME NEW S, NEW t \in Seq(S)
    PROVE  IsSeq(t)
  <1>1. t \in [1 .. Len(t) -> Range(t)] /\ Len(t) \in Nat
    BY DEF Range
  <1> HIDE DEF Range
  <1> QED BY <1>1 DEF IsSeq

LEMMA LenSeq ==
    ASSUME NEW s, IsSeq(s)
    PROVE  Len(s) \in Nat /\ (s = <<>> <=> Len(s) = 0)
  BY DEF IsSeq

LEMMA SeqEmpty == IsSeq(<<>>)
  BY <<>> \in Seq({}) DEF IsSeq, Range

LEMMA SeqAppend ==
    ASSUME NEW s, IsSeq(s), NEW x
    PROVE  /\ IsSeq(Append(s, x)) /\ Append(s, x) # <<>>
           /\ Len(s) \in Nat /\ Len(Append(s, x)) = Len(s) + 1
           /\ \A j \in 1 .. Len(s) : Append(s, x)[j] = s[j]
           /\ Append(s, x)[Len(s) + 1] = x
  <1> DEFINE S == Range(s) \cup {x}
  <1>1. s \in Seq(S) /\ x \in S
    BY DEF IsSeq
  <1> HIDE DEF S
  <1>2. /\ Append(s, x) \in Seq(S) /\ Append(s, x) # <<>>
        /\ Len(s) \in Nat /\ Len(Append(s, x)) = Len(s) + 1
    BY <1>1
  <1>3. /\ \A j \in 1 .. Len(s) : Append(s, x)[j] = s[j]
        /\ Append(s, x)[Len(s) + 1] = x
    BY <1>1
  <1>4. IsSeq(Append(s, x))
    BY <1>2, SeqIsSeq
  <1> QED BY <1>2, <1>3, <1>4

LEMMA SeqTail ==
    ASSUME NEW s, IsSeq(s), s # <<>>
    PROVE  /\ IsSeq(Tail(s)) /\ Len(s) \in Nat \ {0}
           /\ Len(Tail(s)) = Len(s) - 1
           /\ \A j \in 1 .. Len(Tail(s)) : Tail(s)[j] = s[j + 1]
           /\ Head(s) = s[1]
  <1> DEFINE S == Range(s)
  <1>1. s \in Seq(S)
    BY DEF IsSeq
  <1> HIDE DEF S
  <1>2. /\ Tail(s) \in Seq(S) /\ Len(s) \in Nat \ {0}
        /\ Len(Tail(s)) = Len(s) - 1
        /\ \A j \in 1 .. Len(Tail(s)) : Tail(s)[j] = s[j + 1]
        /\ Head(s) = s[1]
    BY <1>1
  <1>3. IsSeq(Tail(s))
    BY <1>2, SeqIsSeq
  <1> QED BY <1>2, <1>3

-----------------------------------------------------------------------------
(* Streams that end at a flagged token. *)

LEMMA FlagEndsEmpty ==
    FlagEnds(<<>>, FALSE, FALSE) /\ FilterEnds(<<>>, FALSE, FALSE)
  BY DEF FlagEnds, FilterEnds

LEMMA FlagEndsAppend ==
    ASSUME NEW s, IsSeq(s), NEW x, NEW up \in BOOLEAN, NEW down \in BOOLEAN,
           FlagEnds(s, up, down), ~up, x.flag \in BOOLEAN
    PROVE  ~down /\ FlagEnds(Append(s, x), x.flag, FALSE)
  BY SeqAppend DEF FlagEnds

LEMMA FlagEndsTail ==
    ASSUME NEW s, IsSeq(s), s # <<>>, NEW up \in BOOLEAN, NEW down \in BOOLEAN,
           FlagEnds(s, up, down)
    PROVE  /\ ~down /\ Head(s).flag \in BOOLEAN
           /\ FlagEnds(Tail(s), up, Head(s).flag)
  <1>1. ~down
    BY DEF FlagEnds
  <1> DEFINE t == Tail(s)
  <1>2. IsSeq(t) /\ Len(s) \in Nat /\ Len(t) = Len(s) - 1
    BY SeqTail
  <1> HIDE DEF t
  <1>3. t = <<>> <=> Len(t) = 0
    BY <1>2, LenSeq
  <1>4. Tail(s) = <<>> <=> Len(s) = 1
    BY <1>2, <1>3 DEF t
  <1> QED BY <1>1, <1>4, SeqTail DEF FlagEnds

LEMMA FilterEndsAppend ==
    ASSUME NEW s, IsSeq(s), NEW x, NEW up \in BOOLEAN, NEW down \in BOOLEAN,
           FilterEnds(s, up, down), ~up, IsFilter(x),
           x.end => Len(x.tuples) = 1
    PROVE  ~down /\ FilterEnds(Append(s, x), x.end, FALSE)
  BY SeqAppend DEF FilterEnds, IsFilter

LEMMA FilterEndsTail ==
    ASSUME NEW s, IsSeq(s), s # <<>>, NEW up \in BOOLEAN, NEW down \in BOOLEAN,
           FilterEnds(s, up, down)
    PROVE  /\ ~down /\ IsFilter(Head(s))
           /\ Head(s).end => Len(Head(s).tuples) = 1
           /\ FilterEnds(Tail(s), up, Head(s).end)
  <1>1. ~down
    BY DEF FilterEnds
  <1> DEFINE t == Tail(s)
  <1>2. IsSeq(t) /\ Len(s) \in Nat /\ Len(t) = Len(s) - 1
    BY SeqTail
  <1> HIDE DEF t
  <1>3. t = <<>> <=> Len(t) = 0
    BY <1>2, LenSeq
  <1>4. t = <<>> <=> Len(s) = 1
    BY <1>2, <1>3
  <1>5. ASSUME NEW j \in 1 .. Len(s)
        PROVE  /\ IsFilter(s[j])
               /\ s[j].end <=> up /\ j = Len(s)
               /\ s[j].end => Len(s[j].tuples) = 1
    BY DEF FilterEnds
  <1>6. Head(s) = s[1] /\ 1 \in 1 .. Len(s) /\ \A j \in 1 .. Len(t) : t[j] = s[j + 1]
    BY SeqTail DEF t
  <1>7. /\ IsFilter(Head(s))
        /\ Head(s).end => Len(Head(s).tuples) = 1
        /\ Head(s).end <=> up /\ t = <<>>
    BY <1>4, <1>5, <1>6
  <1>8. ASSUME NEW j \in 1 .. Len(t)
        PROVE  /\ IsFilter(t[j])
               /\ t[j].end <=> up /\ j = Len(t)
               /\ t[j].end => Len(t[j].tuples) = 1
    <2>1. j + 1 \in 1 .. Len(s) /\ t[j] = s[j + 1] /\ (j + 1 = Len(s) <=> j = Len(t))
      BY <1>2, <1>6
    <2> QED BY <1>5, <2>1
  <1>9. FilterEnds(t, up, Head(s).end)
    BY <1>7, <1>8 DEF FilterEnds
  <1> QED BY <1>1, <1>7, <1>9 DEF t

LEMMA FilterEndsShorten ==
    ASSUME NEW s, IsSeq(s), s # <<>>, NEW up \in BOOLEAN,
           FilterEnds(s, up, FALSE), ~Head(s).end, NEW x
    PROVE  LET t == [s EXCEPT ![1] = [Head(s) EXCEPT !.tuples = x]]
           IN IsSeq(t) /\ FilterEnds(t, up, FALSE)
  <1> DEFINE y == [Head(s) EXCEPT !.tuples = x]
             t == [s EXCEPT ![1] = y]
  <1>1. PICK n \in Nat \ {0} : n = Len(s) /\ Head(s) = s[1] /\ 1 \in 1 .. n
    BY SeqTail
  <1>2. IsFilter(Head(s)) /\ Head(s).end = FALSE
    BY <1>1 DEF FilterEnds, IsFilter
  <1>3. IsFilter(y) /\ y.end = FALSE
    BY <1>2 DEF IsFilter
  <1> HIDE DEF y
  <1> DEFINE S == Range(s) \cup {y}
  <1>4. s \in Seq(S) /\ y \in S
    BY DEF IsSeq
  <1> HIDE DEF S
  <1>5. /\ t \in Seq(S) /\ Len(t) = n /\ t[1] = y
        /\ \A j \in 1 .. n : j # 1 => t[j] = s[j]
    BY <1>1, <1>4
  <1>6. IsSeq(t) /\ t # <<>>
    <2>1. IsSeq(t)
      BY <1>5, SeqIsSeq
    <2> HIDE DEF t
    <2> QED BY <1>1, <1>5, <2>1, LenSeq
  <1> HIDE DEF t
  <1>7. up => ~s[1].end
    BY <1>1, <1>2
  <1>8. ASSUME NEW j \in 1 .. n
        PROVE  /\ IsFilter(t[j])
               /\ t[j].end <=> up /\ j = n
               /\ t[j].end => Len(t[j].tuples) = 1
    <2>1. CASE j = 1
      <3>1. s[1].end <=> up /\ 1 = n
        BY <1>1 DEF FilterEnds
      <3>2. ~(up /\ 1 = n)
        BY <1>1, <1>2, <3>1
      <3> QED BY <1>3, <1>5, <2>1, <3>2
    <2>2. CASE j # 1
      BY <1>1, <1>5, <2>2 DEF FilterEnds
    <2> QED BY <2>1, <2>2
  <1>9. FilterEnds(t, up, FALSE)
    BY <1>5, <1>6, <1>8 DEF FilterEnds
  <1> QED BY <1>6, <1>9 DEF t, y

LEMMA CacheEndsAppend ==
    ASSUME NEW s, IsSeq(s), NEW x, NEW old, NEW new,
           CacheEnds(s, old, 0), old = 1 => s # <<>>,
           x = EndOfSources <=> new = 1
    PROVE  CacheEnds(Append(s, x), old, new)
  <1> DEFINE t == Append(s, x)
  <1>1. PICK n \in Nat : n = Len(s) /\ Len(t) = n + 1
    BY SeqAppend
  <1>2. (\A j \in 1 .. n : t[j] = s[j]) /\ t[n + 1] = x
    BY <1>1, SeqAppend
  <1>3. old = 1 => n # 0
    BY <1>1, LenSeq
  <1> HIDE DEF t
  <1> SUFFICES ASSUME NEW j \in 1 .. n + 1
               PROVE  t[j] = EndOfSources <=> \/ old = 1 /\ j = 1
                                              \/ new = 1 /\ j = n + 1
    BY <1>1 DEF CacheEnds, t
  <1>4. CASE j = n + 1
    BY <1>2, <1>3, <1>4
  <1>5. CASE j # n + 1
    <2>1. j \in 1 .. n
      BY <1>5
    <2>2. s[j] = EndOfSources <=> old = 1 /\ j = 1
      BY <1>1, <2>1 DEF CacheEnds
    <2> QED BY <1>2, <1>5, <2>1, <2>2
  <1> QED BY <1>4, <1>5

LEMMA CacheEndsTail ==
    ASSUME NEW s, IsSeq(s), s # <<>>, NEW old, NEW new, CacheEnds(s, old, new)
    PROVE  /\ Head(s) = EndOfSources <=> old = 1 \/ (new = 1 /\ Len(s) = 1)
           /\ CacheEnds(Tail(s), 0, new)
  <1> DEFINE t == Tail(s)
  <1>1. PICK n \in Nat \ {0} : n = Len(s) /\ Len(t) = n - 1
    BY SeqTail
  <1>2. (\A j \in 1 .. n - 1 : t[j] = s[j + 1]) /\ Head(s) = s[1]
    BY <1>1, SeqTail
  <1> HIDE DEF t
  <1>3. Head(s) = EndOfSources <=> old = 1 \/ (new = 1 /\ n = 1)
    <2>1. 1 \in 1 .. Len(s)
      BY <1>1
    <2> QED BY <1>1, <1>2, <2>1 DEF CacheEnds
  <1>4. ASSUME NEW j \in 1 .. n - 1
        PROVE  t[j] = EndOfSources <=> new = 1 /\ j = n - 1
    <2>1. j + 1 \in 1 .. Len(s) /\ j + 1 # 1
      BY <1>1
    <2>2. s[j + 1] = EndOfSources <=> new = 1 /\ j + 1 = n
      BY <1>1, <2>1 DEF CacheEnds
    <2> QED BY <1>2, <2>2
  <1>5. CacheEnds(t, 0, new)
    BY <1>1, <1>4 DEF CacheEnds
  <1> QED BY <1>1, <1>3, <1>5 DEF t

-----------------------------------------------------------------------------
(* The constants. *)

LEMMA TimesMonotone ==
    ASSUME NEW x \in Nat, NEW y \in Nat, x <= y, NEW d \in Nat
    PROVE  x * d <= y * d
  <1>1. PICK z \in Nat : y = x + z
    OBVIOUS
  <1>2. (x + z) * d = x * d + z * d
    OBVIOUS
  <1>3. x * d \in Nat /\ z * d \in Nat
    OBVIOUS
  <1> QED BY <1>1, <1>2, <1>3

LEMMA Quotient ==
    ASSUME NEW c \in Nat \ {0}, NEW q \in Nat, NEW r \in 0 .. c - 1
    PROVE  (q * c + r) \div c = q
  <1>1. PICK p \in Nat : p = q * c
    OBVIOUS
  <1> DEFINE a == p + r
             k == a \div c
  <1>2. a \in Nat
    BY <1>1
  <1>3. k \in Nat /\ a = k * c + (a % c) /\ a % c \in 0 .. c - 1
    BY <1>2
  <1>4. PICK m \in Nat : m = k * c
    BY <1>3
  <1> HIDE DEF k
  <1>5. ~(k + 1 <= q)
    <2> SUFFICES ASSUME k + 1 <= q
                 PROVE  FALSE
      OBVIOUS
    <2>1. (k + 1) * c <= q * c
      BY <1>3, TimesMonotone
    <2>2. (k + 1) * c = m + c
      BY <1>3, <1>4
    <2> QED BY <1>1, <1>3, <1>4, <2>1, <2>2
  <1>6. ~(q + 1 <= k)
    <2> SUFFICES ASSUME q + 1 <= k
                 PROVE  FALSE
      OBVIOUS
    <2>1. (q + 1) * c <= k * c
      BY <1>3, TimesMonotone
    <2>2. (q + 1) * c = p + c
      BY <1>1
    <2> QED BY <1>1, <1>3, <1>4, <2>1, <2>2
  <1>7. k = q
    BY <1>3, <1>5, <1>6
  <1> QED BY <1>1, <1>7 DEF k

LEMMA Remainder ==
    ASSUME NEW c \in Nat \ {0}, NEW q \in Nat, NEW r \in 0 .. c - 1
    PROVE  (q * c + r) % c = r
  <1>1. PICK p \in Nat : p = q * c
    OBVIOUS
  <1> DEFINE a == p + r
  <1>2. a \in Nat /\ a \div c = q
    BY <1>1, Quotient
  <1>3. a = (a \div c) * c + (a % c) /\ a % c \in Nat
    BY <1>2
  <1>4. a = p + (a % c)
    BY <1>1, <1>2, <1>3
  <1> QED BY <1>1, <1>3, <1>4

LEMMA NextRemainder ==
    ASSUME NEW c \in Nat \ {0}, NEW n \in Nat
    PROVE  /\ n % c \in 0 .. c - 1
           /\ (n + 1) % c = IF n % c = c - 1 THEN 0 ELSE (n % c) + 1
  <1>1. PICK q \in Nat, r \in 0 .. c - 1 : n = q * c + r /\ n % c = r
    <2>1. /\ n \div c \in Nat /\ n % c \in 0 .. c - 1
          /\ n = (n \div c) * c + (n % c)
      OBVIOUS
    <2> QED BY <2>1
  <1>2. CASE r = c - 1
    <2>1. n + 1 = (q + 1) * c + 0
      BY <1>1, <1>2
    <2>2. ((q + 1) * c + 0) % c = 0
      BY Remainder
    <2> QED BY <1>1, <1>2, <2>1, <2>2
  <1>3. CASE r # c - 1
    <2>1. n + 1 = q * c + (r + 1) /\ r + 1 \in 0 .. c - 1
      BY <1>1, <1>3
    <2>2. (q * c + (r + 1)) % c = r + 1
      BY <2>1, Remainder
    <2> QED BY <1>1, <1>3, <2>1, <2>2
  <1> QED BY <1>2, <1>3

LEMMA Sizes ==
    /\ PE_NUM \in Nat \ {0} /\ EDGE_NUM \in Nat \ {0} /\ Words \in Nat \ {0}
    /\ BURSTS \in Nat \ {0, 1} /\ BURSTS % 2 = 0
    /\ VECTOR \in Nat \ {0} /\ VECTOR = 2 * EDGE_NUM
  <1>1. /\ PE_NUM \in Nat \ {0} /\ EDGE_NUM \in Nat \ {0} /\ Words \in Nat \ {0}
        /\ BURSTS \in Nat \ {0} /\ BURSTS % 2 = 0
    BY GatherScatterAssumption DEF GatherScatterAssumption
  <1>2. BURSTS # 1
    BY <1>1
  <1> QED BY <1>1, <1>2 DEF VECTOR

(* A file has a vector at least.                                            *)
LEMMA VectorsPositive ==
    ASSUME run \in Runs
    PROVE  Vectors \in Nat \ {0}
  <1> DEFINE edges == Edges[run]
             A == VECTOR
             num == (A - (Len(edges) % A)) + A
             x == IF edges = <<>> THEN 0 ELSE Last(edges).src
             pad == [k \in 1 .. num |-> [src |-> x, dst |-> Marker]]
  <1>1. edges \in Seq([src : Vertex, dst : Nat])
    BY GatherScatterAssumption, SMTT(30) DEF GatherScatterAssumption, Runs
  <1>2. file = edges \o pad
    BY DEF file, Padded
  <1> HIDE DEF edges, A, x
  <1>3. A \in Nat \ {0} /\ Len(edges) \in Nat
    BY <1>1, Sizes DEF A
  <1>4. Len(edges) % A \in 0 .. A - 1
    BY <1>3
  <1>5. num \in Nat /\ num >= A
    BY <1>3, <1>4
  <1> HIDE DEF num
  <1> DEFINE S == {[src |-> x, dst |-> Marker]}
  <1>6. pad \in Seq(S) /\ Len(pad) = num
    BY <1>5
  <1> HIDE DEF pad, S
  <1> DEFINE T == [src : Vertex, dst : Nat]
  <1> HIDE DEF T
  <1>7. edges \in Seq(T \cup S) /\ pad \in Seq(T \cup S)
    <2>1. edges \in Seq(T)
      BY <1>1 DEF T
    <2> QED BY <1>6, <2>1
  <1>8. Len(file) = Len(edges) + num
    BY <1>2, <1>6, <1>7
  <1>9. Len(file) \in Nat /\ Len(file) >= A
    BY <1>3, <1>5, <1>8
  <1> DEFINE L == Len(file)
             v == L \div A
  <1>10. v \in Nat /\ L = v * A + (L % A) /\ L % A \in 0 .. A - 1
    BY <1>3, <1>9
  <1>11. Vectors = v
    BY DEF Vectors, A
  <1> HIDE DEF v, L
  <1>12. v # 0
    <2> SUFFICES ASSUME v = 0
                 PROVE  FALSE
      OBVIOUS
    <2>1. v * A = 0
      BY <1>3
    <2> QED BY <1>3, <1>9, <1>10, <2>1 DEF L
  <1> QED BY <1>10, <1>11, <1>12

LEMMA PathSizes ==
    /\ KERNEL_NUM \in Nat \ {0}
    /\ Path!Kernel = 1 .. KERNEL_NUM /\ OtherKernel = 2 .. KERNEL_NUM
    /\ Path!Memory = {"vertexProp", "outDegree"}
    /\ Path!ToRead = 2 * Words /\ Path!loopNum = 2 * Words /\ Path!ToWrite = 2 * Words
  <1>1. KERNEL_NUM \in Nat \ {0}
    BY PipelineAssumption DEF Path!ApplyPathAssumption
  <1> DEFINE c == PE_NUM * BURSTS
             q == (2 * Words) \div BURSTS
  <1>2. c \in Nat \ {0} /\ 2 * Words \in Nat \ {0}
    BY Sizes
  <1>3. (2 * Words) % BURSTS = 0
    BY GatherScatterAssumption DEF GatherScatterAssumption
  <1>4. q \in Nat /\ 2 * Words = q * BURSTS
    BY <1>2, <1>3, Sizes
  <1> HIDE DEF q
  <1>5. q # 0
    BY <1>2, <1>4, Sizes
  <1>6. PARTITION_SIZE = q * c
    <2>1. PE_NUM * Words * 2 = PE_NUM * (q * BURSTS)
      BY <1>4, Sizes
    <2>2. PE_NUM * (q * BURSTS) = q * (PE_NUM * BURSTS)
      BY <1>4, Sizes
    <2> QED BY <2>1, <2>2 DEF PARTITION_SIZE
  <1>7. PARTITION_SIZE = (2 * Words) * PE_NUM + 0
    BY Sizes DEF PARTITION_SIZE
  <1>8. PARTITION_SIZE \div PE_NUM = 2 * Words
    BY <1>2, <1>7, Quotient, Sizes
  <1>9. PARTITION_SIZE \div c = q
    <2>1. q * c + 0 = q * c /\ 0 \in 0 .. c - 1
      BY <1>2, <1>4
    <2> HIDE DEF c
    <2> QED BY <1>2, <1>4, <1>6, <2>1, Quotient
  <1>10. (PARTITION_SIZE - 1) \div c = q - 1
    <2> HIDE DEF c
    <2>1. (q - 1) * c + (c - 1) = q * c - 1 /\ c - 1 \in 0 .. c - 1 /\ q - 1 \in Nat
      BY <1>2, <1>4, <1>5
    <2>2. ((q - 1) * c + (c - 1)) \div c = q - 1
      BY <1>2, <2>1, Quotient
    <2> QED BY <1>6, <2>1, <2>2
  <1>11. Path!loopNum = 2 * Words
    BY <1>8 DEF Path!loopNum
  <1>12. Path!ToWrite = 2 * Words
    BY <1>4, <1>9 DEF Path!ToWrite
  <1>13. Path!ToRead = 2 * Words
    <2>1. q - 1 + 1 = q
      BY <1>4
    <2> QED BY <1>4, <1>10, <2>1 DEF Path!ToRead
  <1> QED BY <1>1, <1>11, <1>12, <1>13 DEF Path!Kernel, OtherKernel, Path!Memory

-----------------------------------------------------------------------------
(* What is left when all have ended. *)

LEMMA NothingAtTheEnd ==
    ASSUME GatherScatterInv, Done
    PROVE  /\ mapStream = <<>> /\ edgeBurstStream = <<>> /\ propIn = <<>>
           /\ srcOut \in {<<>>, <<EndOfSources>>}
           /\ edgeTuplesBuffer = <<>>
           /\ \A p \in PE :
                 /\ edgeTuplesArray[p] = <<>> /\ toFilterArray[p] = <<>>
                 /\ buildArray[p] = <<>> /\ writeArray[p] = <<>>
                 /\ table[p] = EmptyTable
           /\ Len(tmpVertexProp) = 2 * Words
  <1> DEFINE V == Vectors
  <1>1. V \in Nat \ {0} /\ Words \in Nat \ {0}
    BY VectorsPositive, Sizes DEF GatherScatterInv
  <1> HIDE DEF V
  <1>2. AllRead /\ ~read.owed /\ outDone /\ read.vector = V + 1
    <2>1. read \in [vector : 0 .. V + 1, owed : BOOLEAN] /\ ~read.owed /\ read.vector > V
      BY DEF GatherScatterInv, ReadInv, Done, V
    <2> QED BY <1>1, <2>1 DEF AllRead, Done, V
  <1>3. mapStream = <<>>
    BY <1>2 DEF GatherScatterInv, ReadInv, FlagEnds
  <1>4. DestsOut = V + 1 /\ srcProp.halves = <<>> /\ edgeBurstStream = <<>>
    <2> IsSeq(edgeBurstStream)
      BY DEF GatherScatterInv, JoinInv
    <2>0. PICK n \in Nat : n = Len(edgeBurstStream)
      BY LenSeq
    <2>1. DestsOut = V + 1 - n
      BY <1>1, <1>2, <2>0 DEF DestsOut
    <2>2. ~(DestsOut <= V) /\ srcProp.halves = <<>>
      BY DEF GatherScatterInv, JoinInv, Done, Finished, V
    <2>3. n = 0
      <3>1. ~(V + 1 - n <= V)
        BY <2>1, <2>2
      <3> QED BY <1>1, <3>1
    <2>4. edgeBurstStream = <<>>
      BY <2>0, <2>3, LenSeq
    <2>5. DestsOut = V + 1
      BY <1>1, <2>1, <2>3
    <2> QED BY <2>2, <2>4, <2>5
  <1>5. Joined = V
    BY <1>1, <1>4 DEF Joined
  <1>6. SourcesOut = V
    BY <1>2 DEF SourcesOut, V
  <1>7. propIn = <<>> /\ Served = V
    <2>1. IsSeq(propIn) /\ Served <= V
      BY <1>6 DEF GatherScatterInv, CacheInv
    <2>2. Len(propIn) \in Nat
      BY <2>1, LenSeq
    <2>3. Len(propIn) = 0
      BY <1>1, <1>5, <2>1, <2>2 DEF Served
    <2> QED BY <1>1, <1>5, <2>1, <2>3, LenSeq DEF Served
  <1>8. srcOut \in {<<>>, <<EndOfSources>>}
    <2>1. PICK old \in {0, 1}, new \in {0, 1} :
             /\ old = 1 => Served = 0
             /\ Len(srcOut) = old + (SourcesOut - Served) + new
             /\ CacheEnds(srcOut, old, new)
      BY DEF GatherScatterInv, CacheInv, InCache
    <2>2. old = 0 /\ Len(srcOut) = new
      BY <1>1, <1>6, <1>7, <2>1
    <2>3. IsSeq(srcOut)
      BY DEF GatherScatterInv, CacheInv
    <2>4. CASE new = 0
      BY <2>2, <2>3, <2>4, LenSeq
    <2>5. CASE new = 1
      <3>1. Len(srcOut) = 1
        BY <2>2, <2>5
      <3> 1 \in 1 .. Len(srcOut)
        BY <3>1
      <3>2. srcOut[1] = EndOfSources
        BY <2>1, <2>5, <3>1 DEF CacheEnds
      <3> HIDE DEF EndOfSources
      <3>3. srcOut \in Seq(Range(srcOut))
        BY <2>3 DEF IsSeq
      <3> QED BY <3>1, <3>2, <3>3
    <2> QED BY <2>4, <2>5
  <1>9. edgeTuplesBuffer = <<>>
    <2>1. IsSeq(edgeTuplesBuffer) /\ HalvesOut = 2 * V
      BY DEF GatherScatterInv, SelfInv, Done, V
    <2>2. HalvesOut = 2 * V - 0 - Len(edgeTuplesBuffer)
      BY <1>4, <1>5 DEF HalvesOut
    <2>3. Len(edgeTuplesBuffer) = 0
      BY <1>1, <2>1, <2>2, LenSeq
    <2> QED BY <2>1, <2>3, LenSeq
  <1>10. ASSUME NEW p \in PE
         PROVE  /\ edgeTuplesArray[p] = <<>> /\ toFilterArray[p] = <<>>
                /\ buildArray[p] = <<>> /\ writeArray[p] = <<>>
                /\ table[p] = EmptyTable
    <2>1. shuffle[p] /\ filtered[p] /\ dst[p] = Words /\ words = Words
      BY DEF Done
    <2>2. edgeTuplesArray[p] = <<>> /\ toFilterArray[p] = <<>>
      BY <2>1 DEF GatherScatterInv, ShuffleInv, FlagEnds, FilterEnds
    <2>3. dst[p] # Gather /\ Dumped(p) = Words
      BY <1>1, <2>1 DEF Gather, Dumped
    <2>4. buildArray[p] = <<>>
      BY <2>1, <2>3 DEF GatherScatterInv, GatherInv, FlagEnds
    <2>5. IsSeq(writeArray[p]) /\ Words = Words + Len(writeArray[p])
      BY <2>1, <2>3 DEF GatherScatterInv, GatherInv
    <2>6. writeArray[p] = <<>>
      BY <1>1, <2>5, LenSeq
    <2>7. table[p] = [a \in Addr |-> table[p][a]] /\ \A a \in 0 .. Words - 1 : table[p][a] = ZeroWord
      BY <2>3 DEF GatherScatterInv, GatherInv
    <2>8. table[p] = EmptyTable
      BY <2>7 DEF EmptyTable, Addr
    <2> QED BY <2>2, <2>4, <2>6, <2>8
  <1>11. Len(tmpVertexProp) = 2 * Words
    <2>1. IsSeq(tmpVertexProp) /\ Len(writeBuffer) + Len(tmpVertexProp) = 2 * Words
      BY DEF GatherScatterInv, WriteInv, Done
    <2>2. Len(writeBuffer) = 0
      BY DEF Done
    <2> QED BY <2>1, <2>2, LenSeq
  <1> QED BY <1>3, <1>4, <1>7, <1>8, <1>9, <1>10, <1>11

LEMMA PathAtTheEnd ==
    ASSUME IInv, PartitionDone
    PROVE  /\ \A k \in Path!Kernel : gsOut[k] = <<>>
           /\ \A k \in 1 .. KERNEL_NUM - 1 : merged[k] = <<>>
           /\ \A m \in Path!Memory : rawStream[m] = <<>>
           /\ output_to_forward = <<>>
  <1>1. Words \in Nat /\ KERNEL_NUM \in Nat \ {0}
    BY Sizes, PathSizes
  <1>2. applied = 2 * Words /\ written = 2 * Words
    BY PathSizes DEF PartitionDone, Path!Done
  <1>3. \A k \in Path!Kernel : Emitted(k) = 2 * Words
    <2>1. Emitted(1) = 2 * Words
      BY NothingAtTheEnd DEF IInv, PartitionDone, Emitted
    <2>2. run \in Runs
      BY DEF IInv, GatherScatterInv
    <2>3. \A k \in OtherKernel : emitted[k] = 2 * Words
      BY <2>2, PipelineAssumption DEF PartitionDone
    <2> QED BY <1>1, <2>1, <2>3, PathSizes DEF Emitted
  <1>4. \A k \in Path!Kernel : Summed(k) >= 2 * Words
    <2>1. Summed(KERNEL_NUM) = 2 * Words
      BY <1>2 DEF Summed
    <2> QED BY <1>1, <2>1, PathSizes DEF IInv, PathInv, MergeInv
  <1>5. \A k \in Path!Kernel : Merged(k) >= 2 * Words
    <2>1. Merged(1) >= 2 * Words
      BY <1>1, <1>4, PathSizes DEF IInv, PathInv, MergeInv
    <2>2. ASSUME NEW k \in 2 .. KERNEL_NUM
          PROVE  Merged(k) >= 2 * Words
      <3>1. k - 1 \in Path!Kernel /\ k - 1 # KERNEL_NUM /\ (k - 1) + 1 = k
        BY <1>1, PathSizes
      <3> QED BY <1>4, <3>1 DEF Summed
    <2> QED BY <1>1, <2>1, <2>2, PathSizes
  <1>6. ASSUME NEW k \in Path!Kernel
        PROVE  gsOut[k] = <<>> /\ Merged(k) = 2 * Words
    <2>1. IsSeq(gsOut[k])
      BY DEF IInv, PathInv, MergeInv
    <2>2. PICK n \in Nat : n = Len(gsOut[k])
      BY <2>1, LenSeq
    <2>3. Merged(k) = 2 * Words - n
      BY <1>3, <2>2 DEF Merged
    <2>4. n = 0
      BY <1>1, <1>5, <2>3
    <2>5. gsOut[k] = <<>>
      BY <2>1, <2>2, <2>4, LenSeq
    <2>6. Merged(k) = 2 * Words
      BY <1>1, <2>3, <2>4
    <2> QED BY <2>5, <2>6
  <1>7. ASSUME NEW k \in 1 .. KERNEL_NUM - 1
        PROVE  merged[k] = <<>>
    <2>1. Summed(k) = 2 * Words
      BY <1>1, <1>6, PathSizes DEF Summed
    <2>2. Summed(k + 1) >= 2 * Words
      BY <1>1, <1>4, PathSizes
    <2>3. Summed(k + 1) = 2 * Words
      BY <1>1, <1>2, <1>6, PathSizes DEF Summed
    <2>4. IsSeq(merged[k]) /\ Summed(k) = Summed(k + 1) + Len(merged[k])
      BY DEF IInv, PathInv, MergeInv
    <2>5. Len(merged[k]) = 0
      BY <1>1, <2>1, <2>3, <2>4, LenSeq
    <2> QED BY <2>4, <2>5, LenSeq
  <1>8. ASSUME NEW m \in Path!Memory
        PROVE  rawStream[m] = <<>>
    <2>1. IsSeq(rawStream[m]) /\ rawRead[m] = applied + Len(rawStream[m])
      BY DEF IInv, PathInv, ApplyInv
    <2>2. rawRead[m] = 2 * Words
      BY PathSizes DEF PartitionDone, Path!Done
    <2>5. applied = 2 * Words
      BY <1>2
    <2>3. PICK n \in Nat : n = Len(rawStream[m])
      BY <2>1, LenSeq
    <2>6. rawRead[m] = applied + n
      BY <2>1, <2>3
    <2>4. n = 0
      <3>1. 2 * Words = 2 * Words + n
        BY <2>2, <2>5, <2>6
      <3> QED BY <1>1, <3>1
    <2> QED BY <2>1, <2>3, <2>4, LenSeq
  <1>9. output_to_forward = <<>>
    <2>1. IsSeq(output_to_forward) /\ applied = written + Len(output_to_forward)
      BY DEF IInv, PathInv, ApplyInv
    <2> QED BY <1>1, <1>2, <2>1, LenSeq
  <1> QED BY <1>6, <1>7, <1>8, <1>9

LEMMA StartingInv == Starting => GatherScatterInv
  <1> SUFFICES ASSUME Starting
               PROVE  GatherScatterInv
    OBVIOUS
  <1>1. run \in Runs
    BY DEF Starting
  <1>2. Vectors \in Nat \ {0} /\ Words \in Nat \ {0}
    BY <1>1, VectorsPositive, Sizes
  <1>3. ReadInv
    <2>1. read = [vector |-> 0, owed |-> FALSE] /\ outDone = FALSE /\ mapStream = <<>>
      BY DEF Starting, Unread
    <2>2. AllRead = FALSE
      BY <1>2, <2>1 DEF AllRead
    <2>3. FlagEnds(mapStream, AllRead, outDone)
      BY <2>1, <2>2, FlagEndsEmpty
    <2>4. Len(mapStream) = 0 /\ IsSeq(mapStream)
      BY <2>1, SeqEmpty
    <2>5. read \in [vector : 0 .. Vectors + 1, owed : BOOLEAN]
      <3> DEFINE U == 0 .. Vectors + 1
      <3>1. 0 \in U
        BY <1>2
      <3> HIDE DEF U
      <3>2. read \in [vector : U, owed : BOOLEAN]
        BY <2>1, <3>1
      <3> QED BY <3>2 DEF U
    <2>6. outDone \in BOOLEAN /\ ~read.owed /\ read.vector = 0
      BY <2>1
    <2>8. Len(mapStream) <= read.vector
      BY <2>4, <2>6
    <2>7. \A j \in 1 .. Len(mapStream) : mapStream[j].data # EndOfSources
      BY <2>4
    <2> QED BY <2>3, <2>4, <2>5, <2>6, <2>7, <2>8 DEF ReadInv
  <1>4. DestsOut = 0 /\ Joined = 0 /\ Served = 0 /\ SourcesOut = 0
    BY DEF DestsOut, Joined, Served, SourcesOut, Unread, Starting
  <1>5. CacheInv
    <2>1. IsSeq(propIn)
      BY SeqEmpty DEF Starting
    <2>2. CASE srcOut = <<>>
      <3>1. InCache(0, 0)
        BY <1>4, <2>2 DEF InCache, CacheEnds
      <3> QED BY <1>4, <2>1, <2>2, <3>1, SeqEmpty DEF CacheInv
    <2>3. CASE srcOut # <<>>
      <3> DEFINE x == EndOfSources
      <3>1. srcOut = Append(<<>>, x)
        BY <2>3 DEF Starting
      <3> HIDE DEF x
      <3>2. IsSeq(srcOut) /\ Len(srcOut) = 1 /\ srcOut[1] = x
        <4>1. IsSeq(srcOut)
          BY <3>1, SeqEmpty, SeqAppend
        <4>2. Len(srcOut) = 1 /\ srcOut[1] = x
          BY <3>1
        <4> QED BY <4>1, <4>2
      <3>3. InCache(1, 0)
        BY <1>4, <3>2 DEF InCache, CacheEnds, x
      <3> QED BY <1>4, <2>1, <3>2, <3>3 DEF CacheInv
    <2> QED BY <2>2, <2>3
  <1>6. JoinInv
    BY <1>2, <1>4, SeqEmpty DEF JoinInv, NoHalves, NoDest, Starting
  <1>7. HalvesOut = 0
    <2>1. srcProp.halves = <<>> /\ edgeTuplesBuffer = <<>>
      BY DEF NoHalves, Starting
    <2>2. Len(srcProp.halves) = 0 /\ Len(edgeTuplesBuffer) = 0
      BY <2>1
    <2> QED BY <1>4, <2>2 DEF HalvesOut
  <1>8. SelfInv
    <2>1. selfProp = "run" /\ edgeTuplesBuffer = <<>> /\ Len(<<>>) = 0
      BY DEF Starting
    <2>2. 0 <= 2 * Vectors - 2
      BY <1>2
    <2> QED BY <1>7, <2>1, <2>2, SeqEmpty DEF SelfInv, Finished
  <1>9. ShuffleInv
    <2>1. /\ shuffle = [p \in PE |-> FALSE] /\ filtered = [p \in PE |-> FALSE]
          /\ edgeTuplesArray = [p \in PE |-> <<>>] /\ toFilterArray = [p \in PE |-> <<>>]
          /\ selfProp = "run"
      BY DEF Starting, None
    <2>2. ASSUME NEW p \in PE
          PROVE  (IF p = 0 THEN selfProp # "run" ELSE shuffle[p - 1]) = FALSE
      BY <2>1, Sizes DEF PE
    <2>3. \A p \in PE : /\ IsSeq(edgeTuplesArray[p]) /\ IsSeq(toFilterArray[p])
                        /\ FlagEnds(edgeTuplesArray[p], FALSE, shuffle[p])
                        /\ FilterEnds(toFilterArray[p], shuffle[p], filtered[p])
      BY <2>1, SeqEmpty, FlagEndsEmpty
    <2> QED BY <2>1, <2>2, <2>3 DEF ShuffleInv
  <1>10. GatherInv
    <2>1. /\ dst = [p \in PE |-> -1] /\ words = 0 /\ table = [p \in PE |-> EmptyTable]
          /\ buildArray = [p \in PE |-> <<>>] /\ writeArray = [p \in PE |-> <<>>]
          /\ filtered = [p \in PE |-> FALSE]
      BY DEF Starting, Gathering, Gather, None
    <2>2. \A p \in PE : Dumped(p) = 0 /\ table[p] = EmptyTable
      BY <2>1 DEF Dumped, Gather
    <2>3. dst \in [PE -> Gather .. Words]
      BY <1>2, <2>1 DEF Gather
    <2>4. table = [p \in PE |-> [a \in Addr |-> table[p][a]]]
      BY <2>1 DEF EmptyTable
    <2>5. \A p \in PE : /\ IsSeq(buildArray[p]) /\ IsSeq(writeArray[p])
                        /\ FlagEnds(buildArray[p], filtered[p], dst[p] # Gather)
                        /\ Len(writeArray[p]) = 0
      BY <2>1, SeqEmpty, FlagEndsEmpty DEF Gather
    <2>6. \A p \in PE : Dumped(p) = words + Len(writeArray[p])
      BY <2>1, <2>2, <2>5
    <2>7. \A p \in PE : \A a \in 0 .. Dumped(p) - 1 : table[p][a] = ZeroWord
      BY <2>2
    <2>8. buildArray = [p \in PE |-> buildArray[p]] /\ writeArray = [p \in PE |-> writeArray[p]]
      BY <2>1
    <2> QED BY <2>3, <2>4, <2>5, <2>6, <2>7, <2>8 DEF GatherInv
  <1>11. WriteInv
    <2>1. words = 0 /\ writeBuffer = <<>> /\ tmpVertexProp = <<>> /\ Len(<<>>) = 0
      BY DEF Starting
    <2>2. 0 % BURSTS = 0 /\ 0 % 2 = 0
      BY Sizes
    <2> QED BY <1>2, <2>1, <2>2, SeqEmpty, Sizes DEF WriteInv
  <1> QED BY <1>1, <1>3, <1>5, <1>6, <1>8, <1>9, <1>10, <1>11 DEF GatherScatterInv

LEMMA PathStartingInv == PathStarting => PathInv
  <1> SUFFICES ASSUME PathStarting
               PROVE  PathInv
    OBVIOUS
  <1> USE DEF PathStarting
  <1>1. Words \in Nat \ {0}
    BY Sizes
  <1>2. \A k \in Path!Kernel : Emitted(k) = 0 /\ Merged(k) = 0 /\ Summed(k) = 0
    BY PathSizes DEF Emitted, Merged, Summed, NothingEmitted
  <1>3. MergeInv
    BY <1>1, <1>2, SeqEmpty, PathSizes DEF MergeInv, NothingEmitted
  <1>4. ApplyInv
    BY <1>1, SeqEmpty, PathSizes DEF ApplyInv, Path!ReadNothing
  <1> QED BY <1>3, <1>4 DEF PathInv

LEMMA PipelineInitInv ==
    ASSUME PipelineInit
    PROVE  IInv
  <1>1. run \in Runs
    BY GatherScatterAssumption DEF GatherScatterAssumption, Runs, PipelineInit, Init
  <1>2. Starting
    BY <1>1 DEF Starting, PipelineInit, Init
  <1>3. PathStarting
    BY DEF PathStarting, PipelineInit, Init, Path!Init
  <1> QED BY <1>2, <1>3, StartingInv, PathStartingInv DEF IInv

-----------------------------------------------------------------------------
(* What a step leaves alone. *)

LEMMA SameRun ==
    ASSUME run' = run
    PROVE  Vectors' = Vectors /\ (run \in Runs => run' \in Runs)
  BY DEF Vectors, file, VECTOR, Runs

LEMMA SameRead ==
    ASSUME ReadInv, UNCHANGED <<run, read, outDone, mapStream>>
    PROVE  ReadInv'
  BY SameRun DEF ReadInv, AllRead, EndOfSources

LEMMA SameCache ==
    ASSUME CacheInv, UNCHANGED <<srcOut, propIn>>, SourcesOut' = SourcesOut,
           Served' = Served, outDone => outDone'
    PROVE  CacheInv'
  BY DEF CacheInv, InCache, CacheEnds, EndOfSources

LEMMA SameJoin ==
    ASSUME JoinInv, UNCHANGED <<run, edgeBurstStream, srcProp>>, DestsOut' = DestsOut
    PROVE  JoinInv'
  BY SameRun DEF JoinInv, IsToken, NoDest, Finished

LEMMA SameSelf ==
    ASSUME SelfInv, UNCHANGED <<run, edgeTuplesBuffer, selfProp>>, HalvesOut' = HalvesOut
    PROVE  SelfInv'
  BY SameRun DEF SelfInv, IsToken, Finished

LEMMA SameShuffle ==
    ASSUME ShuffleInv, UNCHANGED <<shuffleVars, edgeTuplesArray, toFilterArray, selfProp>>
    PROVE  ShuffleInv'
  BY DEF ShuffleInv, shuffleVars, PE

LEMMA SameGather ==
    ASSUME GatherInv, UNCHANGED <<peVars, buildArray, writeArray, filtered, words>>
    PROVE  GatherInv'
  BY DEF GatherInv, peVars, PE, Gather, Addr, ZeroWord, Lane, Dumped

LEMMA SameWrite ==
    ASSUME WriteInv, UNCHANGED writeVars
    PROVE  WriteInv'
  BY DEF WriteInv, writeVars

\* The counts in front of propProcessSelf.
LEMMA SameCounts ==
    ASSUME UNCHANGED <<read, edgeBurstStream>>
    PROVE  /\ DestsOut' = DestsOut /\ Joined' = Joined
           /\ propIn' = propIn => Served' = Served
           /\ UNCHANGED <<run, outDone, mapStream>> => SourcesOut' = SourcesOut
           /\ UNCHANGED <<srcProp, edgeTuplesBuffer>> => HalvesOut' = HalvesOut
  BY SameRun DEF DestsOut, Joined, Served, SourcesOut, HalvesOut

LEMMA Counts ==
    ASSUME GatherScatterInv
    PROVE  /\ Vectors \in Nat \ {0}
           /\ read.vector \in 0 .. Vectors + 1 /\ read.owed \in BOOLEAN
           /\ read.owed => read.vector > 0
           /\ SourcesOut \in 0 .. Vectors /\ DestsOut \in 0 .. Vectors + 1
           /\ DestsOut <= read.vector
           /\ Joined \in 0 .. Vectors /\ Len(propIn) \in Nat
           /\ Served = Joined + Len(propIn) /\ Served \in 0 .. Vectors
           /\ HalvesOut \in 0 .. 2 * Vectors
           /\ Len(srcProp.halves) \in 0 .. 2 /\ Len(edgeTuplesBuffer) \in Nat
           /\ HalvesOut + Len(edgeTuplesBuffer) + Len(srcProp.halves) = 2 * Joined
  <1>1. Vectors \in Nat \ {0}
    BY VectorsPositive DEF GatherScatterInv
  <1>2. /\ read.vector \in 0 .. Vectors + 1 /\ read.owed \in BOOLEAN
        /\ read.owed => read.vector > 0
    BY DEF GatherScatterInv, ReadInv
  <1>3. PICK m \in Nat : m = Len(mapStream) /\ m <= read.vector
    BY LenSeq DEF GatherScatterInv, ReadInv
  <1>4. SourcesOut \in 0 .. Vectors
    <2>1. CASE outDone
      BY <1>1, <2>1 DEF SourcesOut
    <2>2. CASE ~outDone
      <3>1. SourcesOut = read.vector - m
        BY <2>2, <1>2, <1>3 DEF SourcesOut
      <3>2. read.vector = Vectors + 1 => m # 0
        BY <1>3, <2>2, LenSeq DEF GatherScatterInv, ReadInv, AllRead, FlagEnds
      <3> QED BY <1>1, <1>2, <1>3, <3>1, <3>2
    <2> QED BY <2>1, <2>2 DEF GatherScatterInv, ReadInv
  <1>5. DestsOut \in 0 .. Vectors + 1
    BY DEF GatherScatterInv, JoinInv
  <1>6. PICK e \in Nat : e = Len(edgeBurstStream)
    BY LenSeq DEF GatherScatterInv, JoinInv
  <1>7. DestsOut <= read.vector
    <2>1. PICK d \in Nat : d <= read.vector
                           /\ d = IF read.owed THEN read.vector - 1 ELSE read.vector
      BY <1>1, <1>2
    <2>2. DestsOut = d - e
      BY <1>6, <2>1 DEF DestsOut
    <2> QED BY <1>1, <1>2, <2>1, <2>2
  <1>8. Joined \in 0 .. Vectors
    BY <1>1, <1>5 DEF Joined
  <1>9. PICK n \in Nat : n = Len(propIn)
    BY LenSeq DEF GatherScatterInv, CacheInv
  <1>10. Served = Joined + n
    BY <1>9 DEF Served
  <1>11. Served \in 0 .. Vectors
    <2>1. Served <= SourcesOut
      BY DEF GatherScatterInv, CacheInv
    <2> QED BY <1>1, <1>4, <1>8, <1>10, <2>1
  <1>12. PICK h \in 0 .. 2 : h = Len(srcProp.halves)
    <2>1. IsSeq(srcProp.halves) /\ Len(srcProp.halves) <= 2
      BY DEF GatherScatterInv, JoinInv
    <2>2. PICK h : h = Len(srcProp.halves)
      OBVIOUS
    <2>3. h \in Nat /\ h <= 2
      BY <2>1, <2>2, LenSeq
    <2>4. h \in 0 .. 2
      BY <2>3
    <2> QED BY <2>2, <2>4
  <1>13. PICK b \in Nat : b = Len(edgeTuplesBuffer)
    BY LenSeq DEF GatherScatterInv, SelfInv
  <1>14. HalvesOut = 2 * Joined - h - b
    BY <1>12, <1>13 DEF HalvesOut
  <1>15. HalvesOut \in Nat
    BY DEF GatherScatterInv, SelfInv
  <1>16. HalvesOut \in 0 .. 2 * Vectors /\ HalvesOut + b + h = 2 * Joined
    BY <1>1, <1>8, <1>14, <1>15
  <1> QED BY <1>1, <1>2, <1>4, <1>5, <1>7, <1>8, <1>9, <1>10, <1>11, <1>12, <1>13, <1>16

-----------------------------------------------------------------------------
(* From burstRead to srcPropertyProcess. *)

LEMMA SourcesAreNoEnd ==
    \A k : Sources(k) # EndOfSources /\ Dests(k) # NoDest
  <1>1. 1 \in 1 .. VECTOR
    BY Sizes
  <1> DEFINE L == 1 .. VECTOR
  <1>2. L # {}
    BY <1>1
  <1> HIDE DEF L
  <1>3. ASSUME NEW f, DOMAIN f = L
        PROVE  f # <<>>
    <2>1. DOMAIN <<>> = {}
      OBVIOUS
    <2> QED BY <1>2, <1>3, <2>1
  <1>4. ASSUME NEW k
        PROVE  DOMAIN Sources(k) = L /\ DOMAIN Dests(k) = L
    BY DEF Sources, Dests, L
  <1> QED BY <1>3, <1>4 DEF EndOfSources, NoDest

LEMMA ReadVectorStep ==
    ASSUME GatherScatterInv, ReadVector
    PROVE  GatherScatterInv'
  <1> DEFINE V == Vectors
             k == read.vector + 1
             token == IF k <= V THEN [data |-> Sources(k), flag |-> FALSE]
                      ELSE [data |-> Sources(V), flag |-> TRUE]
  <1>1. /\ V \in Nat \ {0} /\ read.vector \in 0 .. V /\ ~read.owed
        /\ mapStream' = Append(mapStream, token)
        /\ read' = [vector |-> k, owed |-> TRUE]
    BY Counts, SMTT(30) DEF ReadVector
  <1>2. UNCHANGED <<run, outDone, edgeBurstStream, srcOut, propIn, edgeTuplesBuffer>>
    BY DEF ReadVector
  <1>3. UNCHANGED <<joinVars, shuffleVars, peVars, writeVars, edgeTuplesArray,
                    toFilterArray, buildArray, writeArray>>
    BY DEF ReadVector
  <1>4. k \in 1 .. V + 1 /\ k - 1 = read.vector
    BY <1>1
  <1> HIDE DEF k
  <1>5. read'.vector = k /\ read'.owed = TRUE
    BY <1>1
  <1>6. ~AllRead /\ ~outDone
    BY <1>1 DEF AllRead, GatherScatterInv, ReadInv, FlagEnds
  <1>7. token.flag \in BOOLEAN /\ (token.flag <=> k = V + 1) /\ token.data # EndOfSources
    BY <1>1, <1>4, SourcesAreNoEnd
  <1>8. V' = V /\ (AllRead' <=> k = V + 1)
    BY <1>2, <1>5, SameRun DEF AllRead
  <1> HIDE DEF V, token
  <1>9. IsSeq(mapStream)
    BY DEF GatherScatterInv, ReadInv
  <1>10. PICK m \in Nat : m = Len(mapStream) /\ m <= read.vector /\ Len(mapStream') = m + 1
    BY <1>1, <1>9, SeqAppend DEF GatherScatterInv, ReadInv
  <1>11. ReadInv'
    <2>1. FlagEnds(mapStream', AllRead', outDone')
      <3>1. FlagEnds(mapStream, FALSE, FALSE)
        BY <1>6 DEF GatherScatterInv, ReadInv, FlagEnds
      <3>2. FlagEnds(Append(mapStream, token), token.flag, FALSE)
        BY <1>7, <1>9, <3>1, FlagEndsAppend
      <3> QED BY <1>1, <1>2, <1>6, <1>7, <1>8, <3>2 DEF FlagEnds
    <2>2. read' \in [vector : 0 .. V + 1, owed : BOOLEAN]
      BY <1>1, <1>4
    <2>3. read'.vector > 0 /\ outDone' \in BOOLEAN
      BY <1>1, <1>2, <1>4, <1>5 DEF GatherScatterInv, ReadInv
    <2>4. IsSeq(mapStream')
      BY <1>1, <1>9, SeqAppend
    <2>5. Len(mapStream') <= read'.vector
      BY <1>1, <1>4, <1>5, <1>10
    <2>6. \A j \in 1 .. Len(mapStream') : mapStream'[j].data # EndOfSources
      <3>1. \A j \in 1 .. m : mapStream'[j] = mapStream[j]
        BY <1>1, <1>9, <1>10, SeqAppend
      <3>2. mapStream'[m + 1] = token
        BY <1>1, <1>9, <1>10, SeqAppend
      <3>3. \A j \in 1 .. m : mapStream[j].data # EndOfSources
        BY <1>10 DEF GatherScatterInv, ReadInv
      <3> QED BY <1>7, <1>10, <3>1, <3>2, <3>3
    <2> QED BY <1>8, <2>1, <2>2, <2>3, <2>4, <2>5, <2>6 DEF ReadInv, EndOfSources, V
  <1>12. SourcesOut' = SourcesOut
    <2>1. SourcesOut = read.vector - m
      BY <1>6, <1>10 DEF SourcesOut
    <2>2. SourcesOut' = k - (m + 1)
      BY <1>2, <1>5, <1>6, <1>10 DEF SourcesOut
    <2> QED BY <1>1, <1>4, <1>10, <2>1, <2>2
  <1>13. DestsOut' = DestsOut /\ Joined' = Joined /\ Served' = Served /\ HalvesOut' = HalvesOut
    <2>1. (IF read.owed THEN read.vector - 1 ELSE read.vector)'
            = (IF read.owed THEN read.vector - 1 ELSE read.vector)
      BY <1>1, <1>4, <1>5
    <2>2. DestsOut' = DestsOut
      BY <1>2, <2>1 DEF DestsOut
    <2> QED BY <1>2, <1>3, <2>2 DEF Joined, Served, HalvesOut, joinVars
  <1>14. CacheInv' /\ JoinInv' /\ SelfInv'
    BY <1>2, <1>3, <1>12, <1>13, SameCache, SameJoin, SameSelf DEF GatherScatterInv, joinVars
  <1>15. ShuffleInv' /\ GatherInv' /\ WriteInv'
    BY <1>3, SameShuffle, SameGather, SameWrite DEF GatherScatterInv, joinVars, shuffleVars,
       writeVars
  <1> QED BY <1>2, <1>11, <1>14, <1>15, SameRun DEF GatherScatterInv

LEMMA ReadDestsStep ==
    ASSUME GatherScatterInv, ReadDests
    PROVE  GatherScatterInv'
  <1> DEFINE V == Vectors
             k == read.vector
             token == IF k <= V THEN [data |-> Dests(k), flag |-> FALSE]
                      ELSE [data |-> Dests(V), flag |-> TRUE]
  <1>1. /\ V \in Nat \ {0} /\ k \in 1 .. V + 1 /\ read.owed
        /\ edgeBurstStream' = Append(edgeBurstStream, token)
        /\ read' = [read EXCEPT !.owed = FALSE]
    BY Counts, SMTT(30) DEF ReadDests
  <1>2. UNCHANGED <<run, outDone, mapStream, srcOut, propIn, edgeTuplesBuffer>>
    BY DEF ReadDests
  <1>3. UNCHANGED <<joinVars, shuffleVars, peVars, writeVars, edgeTuplesArray,
                    toFilterArray, buildArray, writeArray>>
    BY DEF ReadDests
  <1>4. token.flag \in BOOLEAN /\ (token.flag <=> k = V + 1) /\ token.data # NoDest
    BY <1>1, SourcesAreNoEnd
  <1>5. V' = V
    BY <1>2, SameRun
  <1> HIDE DEF V, token
  <1>6. /\ read'.vector = k /\ read'.owed = FALSE
        /\ read' \in [vector : 0 .. V + 1, owed : BOOLEAN]
    BY <1>1 DEF GatherScatterInv, ReadInv, V
  <1>7. ReadInv'
    BY <1>2, <1>5, <1>6 DEF GatherScatterInv, ReadInv, AllRead, EndOfSources, V
  <1>8. IsSeq(edgeBurstStream)
    BY DEF GatherScatterInv, JoinInv
  <1>9. PICK e \in Nat : e = Len(edgeBurstStream) /\ Len(edgeBurstStream') = e + 1
    BY <1>1, <1>8, SeqAppend
  <1>10. DestsOut = k - 1 - e /\ DestsOut' = DestsOut
    <2>1. DestsOut = (k - 1) - e
      BY <1>1, <1>9 DEF DestsOut
    <2>2. DestsOut' = k - (e + 1)
      BY <1>6, <1>9 DEF DestsOut
    <2> QED BY <1>1, <1>9, <2>1, <2>2
  <1>11. SourcesOut' = SourcesOut /\ Joined' = Joined /\ Served' = Served /\ HalvesOut' = HalvesOut
    BY <1>2, <1>3, <1>5, <1>6, <1>10 DEF SourcesOut, Joined, Served, HalvesOut, joinVars, V
  <1>12. JoinInv'
    <2>1. \A j \in 1 .. e : edgeBurstStream'[j] = edgeBurstStream[j]
      BY <1>1, <1>8, <1>9, SeqAppend
    <2>2. edgeBurstStream'[e + 1] = token
      BY <1>1, <1>8, <1>9, SeqAppend
    <2>3. DestsOut' + (e + 1) = k
      BY <1>1, <1>9, <1>10
    <2>4. ASSUME NEW j \in 1 .. Len(edgeBurstStream')
          PROVE  /\ edgeBurstStream'[j].flag \in BOOLEAN
                 /\ edgeBurstStream'[j].flag <=> DestsOut' + j = V + 1
                 /\ edgeBurstStream'[j].data # NoDest
      <3>1. CASE j = e + 1
        BY <1>4, <2>2, <2>3, <3>1
      <3>2. CASE j # e + 1
        <4>1. j \in 1 .. Len(edgeBurstStream)
          BY <1>9, <3>2
        <4>2. edgeBurstStream'[j] = edgeBurstStream[j]
          BY <1>9, <2>1, <4>1
        <4> QED BY <1>10, <4>1, <4>2 DEF GatherScatterInv, JoinInv, V
      <3> QED BY <3>1, <3>2
    <2>5. IsSeq(edgeBurstStream')
      BY <1>1, <1>8, SeqAppend
    <2> QED BY <1>3, <1>5, <1>10, <2>4, <2>5 DEF GatherScatterInv, JoinInv, joinVars, NoDest,
            Finished, V
  <1>13. CacheInv' /\ SelfInv'
    BY <1>2, <1>3, <1>11, SameCache, SameSelf DEF GatherScatterInv, joinVars
  <1>14. ShuffleInv' /\ GatherInv' /\ WriteInv'
    BY <1>3, SameShuffle, SameGather, SameWrite DEF GatherScatterInv, joinVars, shuffleVars,
       writeVars
  <1> QED BY <1>2, <1>7, <1>12, <1>13, <1>14, SameRun DEF GatherScatterInv

LEMMA SrcStreamOutStep ==
    ASSUME GatherScatterInv, SrcStreamOut
    PROVE  GatherScatterInv'
  <1> DEFINE V == Vectors
             flag == Head(mapStream).flag
             token == IF flag THEN EndOfSources ELSE Head(mapStream).data
  <1>1. /\ ~outDone /\ mapStream # <<>> /\ mapStream' = Tail(mapStream)
        /\ outDone' = flag /\ srcOut' = Append(srcOut, token)
    BY DEF SrcStreamOut
  <1>2. UNCHANGED <<run, read, edgeBurstStream, propIn, edgeTuplesBuffer>>
    BY DEF SrcStreamOut
  <1>3. UNCHANGED <<joinVars, shuffleVars, peVars, writeVars, edgeTuplesArray,
                    toFilterArray, buildArray, writeArray>>
    BY DEF SrcStreamOut
  <1>4. V' = V /\ AllRead' = AllRead
    BY <1>2, SameRun DEF AllRead
  <1>5. IsSeq(mapStream) /\ IsSeq(srcOut)
    BY DEF GatherScatterInv, ReadInv, CacheInv
  <1>6. PICK m \in Nat \ {0} : m = Len(mapStream) /\ m <= read.vector /\ Len(mapStream') = m - 1
    BY <1>1, <1>5, SeqTail DEF GatherScatterInv, ReadInv
  <1>7. Head(mapStream) = mapStream[1] /\ \A j \in 1 .. m - 1 : mapStream'[j] = mapStream[j + 1]
    BY <1>1, <1>5, <1>6, SeqTail
  <1>8. V \in Nat \ {0} /\ read.vector \in 0 .. V + 1
    BY Counts
  <1>9. flag \in BOOLEAN /\ FlagEnds(mapStream', AllRead', outDone')
    <2>1. FlagEnds(mapStream, AllRead, FALSE) /\ AllRead \in BOOLEAN
      BY <1>1 DEF GatherScatterInv, ReadInv, FlagEnds, AllRead
    <2> QED BY <1>1, <1>4, <1>5, <2>1, FlagEndsTail
  <1>10. flag => read.vector = V + 1 /\ m = 1
    <2>1. 1 \in 1 .. Len(mapStream)
      BY <1>6
    <2>2. flag => AllRead /\ 1 = m
      BY <1>6, <1>7, <2>1 DEF GatherScatterInv, ReadInv, FlagEnds
    <2> QED BY <2>2 DEF AllRead
  <1>11. token = EndOfSources <=> flag
    <2>1. 1 \in 1 .. Len(mapStream)
      BY <1>6
    <2>2. Head(mapStream).data # EndOfSources
      BY <1>7, <2>1 DEF GatherScatterInv, ReadInv
    <2> QED BY <1>9, <2>2
  <1> HIDE DEF flag, token, V
  <1>12. ReadInv'
    <2>1. IsSeq(mapStream') /\ Len(mapStream') <= read'.vector
      BY <1>1, <1>2, <1>5, <1>6, <1>8, SeqTail
    <2>2. \A j \in 1 .. Len(mapStream') : mapStream'[j].data # EndOfSources
      <3> SUFFICES ASSUME NEW j \in 1 .. m - 1
                   PROVE  mapStream'[j].data # EndOfSources
        BY <1>6
      <3>1. j + 1 \in 1 .. Len(mapStream)
        BY <1>6
      <3> QED BY <1>7, <3>1 DEF GatherScatterInv, ReadInv
    <2>3. outDone' \in BOOLEAN
      BY <1>1, <1>9
    <2> QED BY <1>2, <1>4, <1>9, <2>1, <2>2, <2>3 DEF GatherScatterInv, ReadInv, EndOfSources, V
  <1>13. SourcesOut' = IF flag THEN SourcesOut ELSE SourcesOut + 1
    <2>1. SourcesOut = read.vector - m
      BY <1>1, <1>6 DEF SourcesOut
    <2>2. CASE flag
      <3>1. SourcesOut' = V
        BY <1>1, <1>4, <2>2 DEF SourcesOut, V
      <3> QED BY <1>8, <1>10, <2>1, <2>2, <3>1
    <2>3. CASE ~flag
      <3>1. SourcesOut' = read.vector - (m - 1)
        BY <1>1, <1>2, <1>6, <2>3 DEF SourcesOut
      <3> QED BY <1>6, <1>8, <2>1, <2>3, <3>1
    <2> QED BY <1>9, <2>2, <2>3
  <1>14. DestsOut' = DestsOut /\ Joined' = Joined /\ Served' = Served /\ HalvesOut' = HalvesOut
    BY <1>2, <1>3, SameCounts DEF joinVars
  <1>15. CacheInv'
    <2>1. PICK old \in {0, 1} :
             /\ old = 1 => Served = 0
             /\ Len(srcOut) = old + (SourcesOut - Served) + 0
             /\ CacheEnds(srcOut, old, 0)
      <3>1. PICK old \in {0, 1}, new \in {0, 1} : InCache(old, new)
        BY DEF GatherScatterInv, CacheInv
      <3>2. new = 0
        BY <1>1, <3>1 DEF InCache
      <3> QED BY <3>1, <3>2 DEF InCache
    <2>2. PICK n \in Nat : n = Len(srcOut) /\ Len(srcOut') = n + 1
      BY <1>1, <1>5, SeqAppend
    <2>3. /\ SourcesOut \in Nat /\ Served \in Nat /\ Served <= SourcesOut
          /\ n = old + (SourcesOut - Served)
      <3>1. SourcesOut \in Nat /\ Served \in Nat
        BY Counts, <1>8 DEF V
      <3>2. Served <= SourcesOut
        BY DEF GatherScatterInv, CacheInv
      <3> QED BY <2>1, <2>2, <3>1, <3>2
    <2>4. PICK new \in {0, 1} : new = 1 <=> flag
      BY <1>9
    <2>5. n + 1 = old + (SourcesOut' - Served) + new /\ Served <= SourcesOut'
      BY <1>9, <1>13, <2>3, <2>4
    <2>6. CacheEnds(srcOut', old, new)
      <3>1. old = 1 => srcOut # <<>>
        <4>1. old = 1 => n # 0
          BY <2>3
        <4>2. n # 0 => srcOut # <<>>
          BY <1>5, <2>2, LenSeq
        <4> QED BY <4>1, <4>2
      <3>2. token = EndOfSources <=> new = 1
        BY <1>11, <2>4
      <3> QED BY <1>1, <1>5, <2>1, <3>1, <3>2, CacheEndsAppend
    <2>7. IsSeq(srcOut') /\ IsSeq(propIn')
      BY <1>1, <1>2, <1>5, SeqAppend DEF GatherScatterInv, CacheInv
    <2>8. InCache(old, new)'
      BY <1>1, <1>14, <2>1, <2>2, <2>4, <2>5, <2>6 DEF InCache, CacheEnds, EndOfSources
    <2> QED BY <1>14, <2>4, <2>5, <2>7, <2>8 DEF CacheInv
  <1>16. JoinInv' /\ SelfInv'
    BY <1>2, <1>3, <1>14, SameJoin, SameSelf DEF GatherScatterInv, joinVars
  <1>17. ShuffleInv' /\ GatherInv' /\ WriteInv'
    BY <1>3, SameShuffle, SameGather, SameWrite DEF GatherScatterInv, joinVars, shuffleVars,
       writeVars
  <1> QED BY <1>2, <1>12, <1>15, <1>16, <1>17, SameRun DEF GatherScatterInv

LEMMA CacheStep ==
    ASSUME GatherScatterInv, Cache
    PROVE  GatherScatterInv'
  <1>1. srcOut # <<>> /\ srcOut' = Tail(srcOut)
    BY Len(<<>>) = 0 DEF Cache
  <1>2. UNCHANGED <<run, read, outDone, mapStream, edgeBurstStream, edgeTuplesBuffer>>
    BY DEF Cache, inVars
  <1>3. UNCHANGED <<joinVars, shuffleVars, peVars, writeVars, edgeTuplesArray,
                    toFilterArray, buildArray, writeArray>>
    BY DEF Cache
  <1>4. /\ SourcesOut' = SourcesOut /\ DestsOut' = DestsOut
        /\ Joined' = Joined /\ HalvesOut' = HalvesOut
    BY <1>2, <1>3, SameCounts DEF joinVars
  <1>5. CacheInv'
    <2> IsSeq(srcOut) /\ IsSeq(propIn)
      BY DEF GatherScatterInv, CacheInv
    <2>1. PICK old \in {0, 1}, new \in {0, 1} : InCache(old, new)
      BY DEF GatherScatterInv, CacheInv
    <2>2. PICK n \in Nat \ {0} : n = Len(srcOut) /\ Len(srcOut') = n - 1
      BY <1>1, SeqTail
    <2>3. PICK m \in Nat : m = Len(propIn)
      BY LenSeq
    <2>4. /\ SourcesOut \in Nat /\ Joined \in Nat /\ Served = Joined + m
          /\ Joined + m <= SourcesOut
      BY <2>3, Counts DEF GatherScatterInv, CacheInv
    <2>5. n = old + (SourcesOut - (Joined + m)) + new
      BY <2>1, <2>2, <2>4 DEF InCache
    <2>6. /\ Head(srcOut) = EndOfSources <=> old = 1 \/ (new = 1 /\ n = 1)
          /\ CacheEnds(srcOut', 0, new) /\ IsSeq(srcOut')
      <3>1. CacheEnds(srcOut, old, new)
        BY <2>1 DEF InCache
      <3>2. /\ Head(srcOut) = EndOfSources <=> old = 1 \/ (new = 1 /\ Len(srcOut) = 1)
            /\ CacheEnds(Tail(srcOut), 0, new)
        BY <1>1, <3>1, CacheEndsTail
      <3>3. IsSeq(srcOut')
        BY <1>1, SeqTail
      <3> QED BY <1>1, <2>2, <3>2, <3>3
    <2>7. ASSUME NEW w \in {0, 1}, w = 1 => outDone, Len(srcOut') = SourcesOut - Served' + w,
                 CacheEnds(srcOut', 0, w), IsSeq(propIn'), Served' \in Nat,
                 Served' <= SourcesOut
          PROVE  CacheInv'
      <3>1. CacheEnds(srcOut, 0, w)'
        BY <2>7 DEF CacheEnds, EndOfSources
      <3>2. Len(srcOut') = 0 + (SourcesOut' - Served') + w
        BY <1>4, <2>4, <2>7
      <3>3. InCache(0, w)'
        BY <1>2, <2>7, <3>1, <3>2 DEF InCache
      <3> QED BY <1>4, <2>6, <2>7, <3>3 DEF CacheInv
    <2>8. CASE Head(srcOut) # EndOfSources
      <3>1. PICK x : propIn' = Append(propIn, x) /\ n > 1
        BY <2>2, <2>8 DEF Cache
      <3>2. IsSeq(propIn') /\ Len(propIn') = m + 1
        BY <2>3, <3>1, SeqAppend
      <3>3. Served' = Joined + (m + 1)
        BY <1>4, <3>2 DEF Served
      <3>4. old = 0
        BY <2>6, <2>8
      <3>5. n - 1 = SourcesOut - (Joined + (m + 1)) + new /\ Joined + (m + 1) <= SourcesOut
        BY <2>4, <2>5, <3>1, <3>4
      <3>6. Served' \in Nat /\ Served' <= SourcesOut /\ Len(srcOut') = SourcesOut - Served' + new
        BY <2>2, <2>4, <3>3, <3>5
      <3>7. new = 1 => outDone
        BY <2>1 DEF InCache
      <3> QED BY <2>6, <2>7, <3>2, <3>6, <3>7
    <2>9. CASE Head(srcOut) = EndOfSources
      <3>1. propIn' = propIn
        BY <2>9 DEF Cache
      <3>2. Served' = Joined + m
        BY <1>4, <2>3, <3>1 DEF Served
      <3>3. CASE old = 1
        <4>1. n - 1 = SourcesOut - (Joined + m) + new
          BY <2>4, <2>5, <3>3
        <4> QED BY <2>1, <2>2, <2>4, <2>6, <2>7, <3>1, <3>2, <4>1 DEF InCache
      <3>4. CASE old # 1
        <4>1. old = 0 /\ new = 1 /\ n = 1
          BY <2>6, <2>9, <3>4
        <4>2. 0 = SourcesOut - (Joined + m) + 0
          BY <2>4, <2>5, <4>1
        <4>3. CacheEnds(srcOut', 0, 0) /\ Len(srcOut') = 0
          BY <2>2, <4>1 DEF CacheEnds
        <4> QED BY <2>4, <2>7, <3>1, <3>2, <4>2, <4>3
      <3> QED BY <3>3, <3>4
    <2> QED BY <2>8, <2>9
  <1>6. ReadInv' /\ JoinInv' /\ SelfInv'
    BY <1>2, <1>3, <1>4, SameRead, SameJoin, SameSelf DEF GatherScatterInv, joinVars
  <1>7. ShuffleInv' /\ GatherInv' /\ WriteInv'
    BY <1>3, SameShuffle, SameGather, SameWrite DEF GatherScatterInv, joinVars, shuffleVars,
       writeVars
  <1> QED BY <1>2, <1>5, <1>6, <1>7, SameRun DEF GatherScatterInv

-----------------------------------------------------------------------------
(* srcPropertyProcess and propProcessSelf. *)

\* The next token of the destinations.
LEMMA TakeDests ==
    ASSUME GatherScatterInv, edgeBurstStream # <<>>,
           edgeBurstStream' = Tail(edgeBurstStream), UNCHANGED <<run, read>>
    PROVE  /\ DestsOut \in 0 .. Vectors /\ DestsOut' = DestsOut + 1 /\ Vectors' = Vectors
           /\ IsSeq(edgeBurstStream')
           /\ Head(edgeBurstStream).flag \in BOOLEAN
           /\ Head(edgeBurstStream).flag <=> DestsOut + 1 = Vectors + 1
           /\ Head(edgeBurstStream).data # NoDest
           /\ \A j \in 1 .. Len(edgeBurstStream') :
                 /\ edgeBurstStream'[j].flag \in BOOLEAN
                 /\ edgeBurstStream'[j].flag <=> DestsOut' + j = Vectors' + 1
                 /\ edgeBurstStream'[j].data # NoDest
  <1> DEFINE D == DestsOut
             V == Vectors
  <1>1. IsSeq(edgeBurstStream)
    BY DEF GatherScatterInv, JoinInv
  <1>2. /\ IsSeq(edgeBurstStream')
        /\ \A j \in 1 .. Len(edgeBurstStream') : edgeBurstStream'[j] = edgeBurstStream[j + 1]
        /\ Head(edgeBurstStream) = edgeBurstStream[1]
    BY <1>1, SeqTail
  <1>3. PICK e \in Nat \ {0} : e = Len(edgeBurstStream) /\ Len(edgeBurstStream') = e - 1
    BY <1>1, SeqTail
  <1>4. PICK d \in Nat : d = IF read.owed THEN read.vector - 1 ELSE read.vector
    BY Counts, SMTT(30)
  <1>5. D = d - e
    BY <1>3, <1>4 DEF DestsOut
  <1>6. DestsOut' = d - (e - 1)
    BY <1>3, <1>4 DEF DestsOut
  <1>7. V \in Nat /\ D \in 0 .. V + 1 /\ d <= V + 1
    BY <1>4, Counts, SMTT(30)
  <1>8. V' = V
    BY SameRun
  <1>9. ASSUME NEW j \in 1 .. e
        PROVE  /\ edgeBurstStream[j].flag \in BOOLEAN
               /\ edgeBurstStream[j].flag <=> D + j = V + 1
               /\ edgeBurstStream[j].data # NoDest
    BY <1>3 DEF GatherScatterInv, JoinInv
  <1> HIDE DEF D, V
  <1>10. D \in 0 .. V /\ DestsOut' = D + 1
    BY <1>3, <1>5, <1>6, <1>7
  <1>11. /\ Head(edgeBurstStream).flag \in BOOLEAN
         /\ Head(edgeBurstStream).flag <=> D + 1 = V + 1
         /\ Head(edgeBurstStream).data # NoDest
    BY <1>2, <1>9
  <1>12. ASSUME NEW j \in 1 .. Len(edgeBurstStream')
         PROVE  /\ edgeBurstStream'[j].flag \in BOOLEAN
                /\ edgeBurstStream'[j].flag <=> DestsOut' + j = V' + 1
                /\ edgeBurstStream'[j].data # NoDest
    <2>1. j + 1 \in 1 .. e /\ edgeBurstStream'[j] = edgeBurstStream[j + 1]
      BY <1>2, <1>3
    <2>2. D + (j + 1) = V + 1 <=> DestsOut' + j = V' + 1
      BY <1>7, <1>8, <1>10
    <2> QED BY <1>9, <2>1, <2>2
  <1> QED BY <1>2, <1>8, <1>10, <1>11, <1>12 DEF D, V, NoDest

LEMMA FirstDestsStep ==
    ASSUME GatherScatterInv, FirstDests
    PROVE  GatherScatterInv'
  <1>1. /\ srcProp.state = "run" /\ srcProp.last = NoDest /\ edgeBurstStream # <<>>
        /\ srcProp' = [srcProp EXCEPT !.last = Head(edgeBurstStream).data]
        /\ edgeBurstStream' = Tail(edgeBurstStream)
    BY DEF FirstDests
  <1>2. UNCHANGED <<run, read, outDone, mapStream, srcOut, propIn, edgeTuplesBuffer, selfProp>>
    BY DEF FirstDests, inVars
  <1>3. UNCHANGED <<shuffleVars, peVars, writeVars, edgeTuplesArray, toFilterArray,
                    buildArray, writeArray>>
    BY DEF FirstDests
  <1>4. DestsOut = 0 /\ srcProp.halves = <<>>
    BY <1>1 DEF GatherScatterInv, JoinInv
  <1>5. DestsOut' = 1 /\ Vectors' = Vectors /\ Vectors \in Nat \ {0}
    BY <1>1, <1>2, <1>4, TakeDests, Counts
  <1>6. /\ srcProp'.last = Head(edgeBurstStream).data /\ srcProp'.halves = <<>>
        /\ srcProp'.state = "run"
        /\ srcProp' = [last |-> srcProp'.last, halves |-> srcProp'.halves,
                       state |-> srcProp'.state]
    BY <1>1, <1>4 DEF GatherScatterInv, JoinInv
  <1>7. Joined' = Joined /\ Served' = Served
    BY <1>2, <1>4, <1>5 DEF Joined, Served
  <1>8. HalvesOut' = HalvesOut /\ SourcesOut' = SourcesOut
    BY <1>2, <1>4, <1>5, <1>6, <1>7 DEF HalvesOut, SourcesOut
  <1>9. JoinInv'
    <2>1. IsSeq(srcProp'.halves) /\ Len(srcProp'.halves) = 0
      BY <1>6, SeqEmpty
    <2>2. srcProp'.last # NoDest
      BY <1>1, <1>2, <1>6, TakeDests
    <2>3. DestsOut' \in 0 .. Vectors' + 1 /\ DestsOut' # 0 /\ DestsOut' <= Vectors'
      BY <1>5
    <2>4. /\ IsSeq(edgeBurstStream')
          /\ \A j \in 1 .. Len(edgeBurstStream') :
                 /\ edgeBurstStream'[j].flag \in BOOLEAN
                 /\ edgeBurstStream'[j].flag <=> DestsOut' + j = Vectors' + 1
                 /\ edgeBurstStream'[j].data # NoDest
      BY <1>1, <1>2, TakeDests
    <2> QED BY <1>6, <2>1, <2>2, <2>3, <2>4 DEF JoinInv, NoDest, Finished
  <1>10. ReadInv' /\ CacheInv' /\ SelfInv'
    BY <1>2, <1>7, <1>8, SameRead, SameCache, SameSelf DEF GatherScatterInv
  <1>11. ShuffleInv' /\ GatherInv' /\ WriteInv'
    BY <1>2, <1>3, SameShuffle, SameGather, SameWrite DEF GatherScatterInv, shuffleVars,
       writeVars
  <1> QED BY <1>2, <1>9, <1>10, <1>11, SameRun DEF GatherScatterInv

LEMMA JoinStep ==
    ASSUME GatherScatterInv, Join
    PROVE  GatherScatterInv'
  <1> DEFINE dest == Head(edgeBurstStream)
             two == [h \in 1 .. 2 |-> Half(h - 1, srcProp.last, Head(propIn), dest.flag)]
  <1>1. /\ srcProp.state = "run" /\ srcProp.last # NoDest /\ srcProp.halves = <<>>
        /\ edgeBurstStream # <<>> /\ propIn # <<>>
        /\ srcProp' = [srcProp EXCEPT !.last = dest.data, !.halves = two]
        /\ edgeBurstStream' = Tail(edgeBurstStream) /\ propIn' = Tail(propIn)
    BY DEF Join
  <1>2. UNCHANGED <<run, read, outDone, mapStream, srcOut, edgeTuplesBuffer, selfProp>>
    BY DEF Join, inVars
  <1>3. UNCHANGED <<shuffleVars, peVars, writeVars, edgeTuplesArray, toFilterArray,
                    buildArray, writeArray>>
    BY DEF Join
  <1> HIDE DEF two
  <1>4. /\ srcProp'.last = dest.data /\ srcProp'.halves = two
        /\ srcProp'.state = "run"
        /\ srcProp' = [last |-> srcProp'.last, halves |-> srcProp'.halves,
                       state |-> srcProp'.state]
    BY <1>1 DEF GatherScatterInv, JoinInv
  <1>5. /\ DestsOut \in 0 .. Vectors /\ DestsOut' = DestsOut + 1 /\ Vectors' = Vectors
        /\ IsSeq(edgeBurstStream')
        /\ dest.flag \in BOOLEAN
        /\ dest.flag <=> DestsOut + 1 = Vectors + 1
        /\ dest.data # NoDest
        /\ \A j \in 1 .. Len(edgeBurstStream') :
                 /\ edgeBurstStream'[j].flag \in BOOLEAN
                 /\ edgeBurstStream'[j].flag <=> DestsOut' + j = Vectors' + 1
                 /\ edgeBurstStream'[j].data # NoDest
    BY <1>1, <1>2, TakeDests
  <1>6. DestsOut # 0 /\ Vectors \in Nat
    BY <1>1, Counts DEF GatherScatterInv, JoinInv
  <1> HIDE DEF dest
  <1>7. Joined \in Nat /\ Joined' = Joined + 1
    BY <1>5, <1>6 DEF Joined
  <1>8. IsSeq(propIn') /\ Served' = Served
    <2>1. IsSeq(propIn)
      BY DEF GatherScatterInv, CacheInv
    <2>2. PICK m \in Nat \ {0} : m = Len(propIn) /\ Len(propIn') = m - 1
      BY <1>1, <2>1, SeqTail
    <2>3. Served = Joined + m
      BY <2>2 DEF Served
    <2>4. Served' = (Joined + 1) + (m - 1)
      BY <1>7, <2>2 DEF Served
    <2> QED BY <1>1, <1>7, <2>1, <2>2, <2>3, <2>4, SeqTail
  <1>9. IsSeq(two) /\ Len(two) = 2 /\ two # <<>>
    <2> DEFINE S == {Half(h - 1, srcProp.last, Head(propIn), dest.flag) : h \in 1 .. 2}
    <2>1. two \in [1 .. 2 -> S]
      BY DEF two
    <2> HIDE DEF S
    <2>2. PICK n \in Nat : n = 2
      OBVIOUS
    <2>3. two \in [1 .. n -> S]
      BY <2>1, <2>2
    <2>4. two \in Seq(S) /\ Len(two) = n
      BY <2>3
    <2>5. IsSeq(two)
      BY <2>4, SeqIsSeq
    <2>6. Len(two) = 2 /\ two # <<>>
      BY <2>2, <2>4, <2>5, LenSeq, SMTT(30)
    <2> QED BY <2>5, <2>6
  <1>10. ASSUME NEW h \in 1 .. 2
         PROVE  /\ IsToken(two[h])
                /\ two[h].flag <=> DestsOut' = Vectors' + 1
    <2>1. PICK x : two[h] = [data |-> x, flag |-> dest.flag]
      BY DEF two, Half
    <2>2. two[h].data = x /\ two[h].flag = dest.flag
      BY <2>1
    <2> QED BY <1>5, <2>1, <2>2 DEF IsToken
  <1>11. HalvesOut' = HalvesOut /\ SourcesOut' = SourcesOut
    <2>1. PICK b \in Nat : b = Len(edgeTuplesBuffer)
      BY Counts
    <2>2. Len(<<>>) = 0
      OBVIOUS
    <2>3. HalvesOut = 2 * Joined - 0 - b
      BY <1>1, <2>1, <2>2 DEF HalvesOut
    <2>4. HalvesOut' = 2 * (Joined + 1) - 2 - b
      BY <1>2, <1>4, <1>7, <1>9, <2>1 DEF HalvesOut
    <2>5. HalvesOut' = HalvesOut
      BY <1>7, <2>1, <2>3, <2>4
    <2> QED BY <1>2, <1>5, <2>5 DEF SourcesOut
  <1>12. JoinInv'
    <2>1. DestsOut' \in 0 .. Vectors' + 1 /\ DestsOut' > 1
      BY <1>5, <1>6
    <2>2. /\ IsSeq(srcProp'.halves) /\ Len(srcProp'.halves) = 2 /\ srcProp'.halves # <<>>
          /\ srcProp'.last # NoDest
      BY <1>4, <1>5, <1>9
    <2>3. \A h \in 1 .. 2 : /\ IsToken(srcProp'.halves[h])
                            /\ srcProp'.halves[h].flag <=> DestsOut' = Vectors' + 1
      BY <1>4, <1>10
    <2> QED BY <1>4, <1>5, <2>1, <2>2, <2>3 DEF JoinInv, IsToken, NoDest, Finished
  <1>13. CacheInv'
    BY <1>2, <1>8, <1>11 DEF GatherScatterInv, CacheInv, InCache, CacheEnds, EndOfSources
  <1>14. ReadInv' /\ SelfInv'
    BY <1>2, <1>11, SameRead, SameSelf DEF GatherScatterInv
  <1>15. ShuffleInv' /\ GatherInv' /\ WriteInv'
    BY <1>2, <1>3, SameShuffle, SameGather, SameWrite DEF GatherScatterInv, shuffleVars,
       writeVars
  <1> QED BY <1>2, <1>12, <1>13, <1>14, <1>15, SameRun DEF GatherScatterInv

LEMMA WriteHalfStep ==
    ASSUME GatherScatterInv, WriteHalf
    PROVE  GatherScatterInv'
  <1> DEFINE halves == srcProp.halves
             half == Head(halves)
             ends == half.flag /\ Len(halves) = 1
             last == DestsOut = Vectors + 1
  <1>1. /\ halves # <<>>
        /\ edgeTuplesBuffer' = Append(edgeTuplesBuffer, half)
        /\ srcProp' = [srcProp EXCEPT !.halves = Tail(halves),
                                      !.state = IF ends THEN "clear" ELSE srcProp.state]
    BY DEF WriteHalf, GatherScatterInv, JoinInv
  <1>2. UNCHANGED <<run, read, outDone, mapStream, edgeBurstStream, srcOut, propIn, selfProp>>
    BY DEF WriteHalf, inVars
  <1>3. UNCHANGED <<shuffleVars, peVars, writeVars, edgeTuplesArray, toFilterArray,
                    buildArray, writeArray>>
    BY DEF WriteHalf
  <1>4. /\ IsSeq(halves) /\ DestsOut > 1 /\ srcProp.state = "run"
        /\ DestsOut \in 0 .. Vectors + 1
        /\ \A k \in 1 .. Len(halves) : IsToken(halves[k]) /\ (halves[k].flag <=> last)
        /\ srcProp = [last |-> srcProp.last, halves |-> halves, state |-> srcProp.state]
        /\ srcProp.last # NoDest
    BY <1>1 DEF GatherScatterInv, JoinInv
  <1>5. /\ IsSeq(Tail(halves)) /\ half = halves[1]
        /\ \A k \in 1 .. Len(Tail(halves)) : Tail(halves)[k] = halves[k + 1]
    BY <1>1, <1>4, SeqTail
  <1>6. PICK h \in {1, 2} : h = Len(halves) /\ Len(Tail(halves)) = h - 1
    <2>1. PICK n \in Nat \ {0} : n = Len(halves) /\ Len(Tail(halves)) = n - 1
      BY <1>1, <1>4, SeqTail
    <2>2. n <= 2
      BY <2>1 DEF GatherScatterInv, JoinInv
    <2>3. n \in {1, 2}
      BY <2>2
    <2> QED BY <2>1, <2>3
  <1>7. IsToken(half)
    BY <1>4, <1>5, <1>6
  <1>8. half.flag <=> last
    BY <1>4, <1>5, <1>6
  <1>9. /\ srcProp'.last = srcProp.last /\ srcProp'.halves = Tail(halves)
        /\ srcProp'.state = IF last /\ h = 1 THEN "clear" ELSE "run"
        /\ srcProp' = [last |-> srcProp'.last, halves |-> srcProp'.halves,
                       state |-> srcProp'.state]
    BY <1>1, <1>4, <1>6, <1>8
  <1> HIDE DEF ends, half, last, halves
  <1>10. /\ DestsOut' = DestsOut /\ Joined' = Joined /\ Served' = Served
         /\ SourcesOut' = SourcesOut /\ Vectors' = Vectors
    BY <1>2, SameCounts, SameRun
  <1>11. last' <=> last
    BY <1>10 DEF last
  <1>12. IsSeq(edgeTuplesBuffer)
    BY DEF GatherScatterInv, SelfInv
  <1>13. PICK b \in Nat : b = Len(edgeTuplesBuffer) /\ Len(edgeTuplesBuffer') = b + 1
    BY <1>1, <1>12, SeqAppend
  <1>14. /\ Joined = DestsOut - 1 /\ Vectors \in Nat \ {0} /\ HalvesOut \in Nat
         /\ HalvesOut + b + h = 2 * Joined
    <2>1. Joined = DestsOut - 1
      BY <1>4 DEF Joined
    <2> QED BY <1>6, <1>13, <2>1, Counts DEF halves
  <1>15. HalvesOut' = HalvesOut
    <2>1. HalvesOut' = 2 * Joined - (h - 1) - (b + 1)
      BY <1>6, <1>9, <1>10, <1>13 DEF HalvesOut
    <2>2. HalvesOut = 2 * Joined - h - b
      BY <1>6, <1>13 DEF HalvesOut, halves
    <2>3. Joined \in Nat
      BY <1>4, <1>14
    <2> QED BY <1>6, <1>13, <2>1, <2>2, <2>3
  <1>16. JoinInv'
    <2>1. IsSeq(srcProp'.halves) /\ Len(srcProp'.halves) = h - 1 /\ Len(srcProp'.halves) <= 2
      BY <1>5, <1>6, <1>9
    <2>2. DestsOut' > 1
      BY <1>4, <1>10
    <2>3. ASSUME NEW k \in 1 .. Len(srcProp'.halves)
          PROVE  /\ IsToken(srcProp'.halves[k])
                 /\ srcProp'.halves[k].flag <=> DestsOut' = Vectors' + 1
      <3>1. k + 1 \in 1 .. Len(halves) /\ srcProp'.halves[k] = halves[k + 1]
        BY <1>5, <1>6, <1>9, <2>1
      <3>2. /\ IsToken(halves[k + 1])
            /\ halves[k + 1].flag <=> DestsOut = Vectors + 1
        BY <1>4, <3>1 DEF last
      <3> QED BY <1>10, <3>1, <3>2
    <2>4. srcProp'.state = "run" <=> DestsOut' <= Vectors' \/ srcProp'.halves # <<>>
      <3>1. srcProp'.halves # <<>> <=> h # 1
        <4>1. srcProp'.halves # <<>> <=> Len(srcProp'.halves) # 0
          BY <2>1, LenSeq
        <4> QED BY <1>6, <2>1, <4>1
      <3>2. DestsOut' <= Vectors' <=> ~last
        BY <1>4, <1>10, <1>14 DEF last
      <3> QED BY <1>9, <3>1, <3>2
    <2>5. srcProp'.state \in {"run", "clear"}
      BY <1>9
    <2>6. /\ IsSeq(edgeBurstStream')
          /\ \A j \in 1 .. Len(edgeBurstStream') :
                 /\ edgeBurstStream'[j].flag \in BOOLEAN
                 /\ edgeBurstStream'[j].flag <=> DestsOut' + j = Vectors' + 1
                 /\ edgeBurstStream'[j].data # NoDest
      BY <1>2, <1>10 DEF GatherScatterInv, JoinInv
    <2>7. DestsOut' \in 0 .. Vectors' + 1 /\ (srcProp'.last = NoDest <=> DestsOut' = 0)
      BY <1>4, <1>9, <1>10
    <2> QED BY <1>9, <2>1, <2>2, <2>3, <2>4, <2>5, <2>6, <2>7 DEF JoinInv, IsToken,
            NoDest, Finished
  <1>17. SelfInv'
    <2>1. \A j \in 1 .. b : edgeTuplesBuffer'[j] = edgeTuplesBuffer[j]
      BY <1>1, <1>12, <1>13, SeqAppend
    <2>2. edgeTuplesBuffer'[b + 1] = half
      BY <1>1, <1>12, <1>13, SeqAppend
    <2>3. last <=> HalvesOut + (b + 1) > 2 * Vectors - 2
      <3>1. PICK H \in Nat, D \in Nat, V \in Nat :
               /\ H = HalvesOut /\ D = DestsOut /\ V = Vectors
               /\ D <= V + 1 /\ H + b + h = 2 * (D - 1)
        BY <1>4, <1>14
      <3>2. D = V + 1 <=> H + (b + 1) > 2 * V - 2
        BY <3>1
      <3> QED BY <3>1, <3>2 DEF last
    <2>5. ASSUME NEW j \in 1 .. b + 1
          PROVE  /\ IsToken(edgeTuplesBuffer'[j])
                 /\ edgeTuplesBuffer'[j].flag <=> HalvesOut + j > 2 * Vectors - 2
      <3>1. CASE j = b + 1
        BY <1>7, <1>8, <2>2, <2>3, <3>1
      <3>2. CASE j # b + 1
        <4>1. j \in 1 .. b
          BY <3>2
        <4>2. /\ IsToken(edgeTuplesBuffer[j])
              /\ edgeTuplesBuffer[j].flag <=> HalvesOut + j > 2 * Vectors - 2
          BY <1>13, <4>1 DEF GatherScatterInv, SelfInv
        <4> QED BY <2>1, <4>1, <4>2
      <3> QED BY <3>1, <3>2
    <2>6. IsSeq(edgeTuplesBuffer')
      BY <1>1, <1>12, SeqAppend
    <2> QED BY <1>2, <1>10, <1>13, <1>15, <2>5, <2>6 DEF GatherScatterInv, SelfInv, IsToken,
            Finished
  <1>18. ReadInv' /\ CacheInv'
    BY <1>2, <1>10, SameRead, SameCache DEF GatherScatterInv
  <1>19. ShuffleInv' /\ GatherInv' /\ WriteInv'
    BY <1>2, <1>3, SameShuffle, SameGather, SameWrite DEF GatherScatterInv, shuffleVars,
       writeVars
  <1> QED BY <1>2, <1>16, <1>17, <1>18, <1>19, SameRun DEF GatherScatterInv

\* All properties have been joined by then: there is nothing to clear.
LEMMA ClearPropsStep ==
    ASSUME GatherScatterInv, ClearProps
    PROVE  GatherScatterInv'
  <1>1. srcProp.state = "clear"
    BY DEF ClearProps
  <1>2. DestsOut = Vectors + 1 /\ srcProp.halves = <<>>
    <2>1. ~(DestsOut <= Vectors) /\ srcProp.halves = <<>>
      BY <1>1 DEF GatherScatterInv, JoinInv
    <2> QED BY <2>1, Counts
  <1>3. propIn = <<>>
    <2>1. PICK m \in Nat : m = Len(propIn)
      BY Counts
    <2>2. Joined = Vectors /\ Vectors \in Nat
      BY <1>2, Counts DEF Joined
    <2>3. Joined + m <= Vectors
      BY <2>1, Counts
    <2>4. m = 0
      BY <2>2, <2>3
    <2> QED BY <2>1, <2>4, LenSeq DEF GatherScatterInv, CacheInv
  <1>4. srcProp' = [srcProp EXCEPT !.state = Finished]
    BY <1>3 DEF ClearProps
  <1>5. UNCHANGED <<run, read, outDone, mapStream, edgeBurstStream, srcOut, propIn,
                    edgeTuplesBuffer, selfProp>>
    BY <1>3 DEF ClearProps, inVars
  <1>6. UNCHANGED <<shuffleVars, peVars, writeVars, edgeTuplesArray, toFilterArray,
                    buildArray, writeArray>>
    BY DEF ClearProps
  <1>7. /\ DestsOut' = DestsOut /\ Joined' = Joined /\ Served' = Served
        /\ SourcesOut' = SourcesOut /\ Vectors' = Vectors
    BY <1>5, SameCounts, SameRun
  <1>8. /\ srcProp'.last = srcProp.last /\ srcProp'.halves = <<>>
        /\ srcProp'.state = Finished
        /\ srcProp' = [last |-> srcProp'.last, halves |-> srcProp'.halves,
                       state |-> srcProp'.state]
    BY <1>2, <1>4 DEF GatherScatterInv, JoinInv
  <1>9. HalvesOut' = HalvesOut
    BY <1>2, <1>5, <1>7, <1>8 DEF HalvesOut
  <1>10. JoinInv'
    <2>1. IsSeq(srcProp'.halves) /\ Len(srcProp'.halves) = 0
      BY <1>8, SeqEmpty
    <2>2. ~(DestsOut' <= Vectors')
      BY <1>2, <1>7, Counts
    <2>3. /\ IsSeq(edgeBurstStream') /\ DestsOut' \in 0 .. Vectors' + 1
          /\ srcProp'.last = NoDest <=> DestsOut' = 0
          /\ \A j \in 1 .. Len(edgeBurstStream') :
                 /\ edgeBurstStream'[j].flag \in BOOLEAN
                 /\ edgeBurstStream'[j].flag <=> DestsOut' + j = Vectors' + 1
                 /\ edgeBurstStream'[j].data # NoDest
      BY <1>5, <1>7, <1>8 DEF GatherScatterInv, JoinInv
    <2>4. Finished # "run"
      BY DEF Finished
    <2> QED BY <1>8, <2>1, <2>2, <2>3, <2>4 DEF JoinInv, NoDest, Finished
  <1>11. ReadInv' /\ CacheInv' /\ SelfInv'
    BY <1>5, <1>7, <1>9, SameRead, SameCache, SameSelf DEF GatherScatterInv
  <1>12. ShuffleInv' /\ GatherInv' /\ WriteInv'
    BY <1>5, <1>6, SameShuffle, SameGather, SameWrite DEF GatherScatterInv, shuffleVars,
       writeVars
  <1> QED BY <1>5, <1>10, <1>11, <1>12, SameRun DEF GatherScatterInv

\* The next half.
LEMMA TakeHalf ==
    ASSUME GatherScatterInv, edgeTuplesBuffer # <<>>,
           edgeTuplesBuffer' = Tail(edgeTuplesBuffer),
           UNCHANGED <<run, read, edgeBurstStream, srcProp>>
    PROVE  /\ HalvesOut' = HalvesOut + 1 /\ HalvesOut' \in 1 .. 2 * Vectors
           /\ Vectors' = Vectors /\ IsSeq(edgeTuplesBuffer')
           /\ IsToken(Head(edgeTuplesBuffer))
           /\ Head(edgeTuplesBuffer).flag <=> HalvesOut' > 2 * Vectors - 2
           /\ \A j \in 1 .. Len(edgeTuplesBuffer') :
                 /\ IsToken(edgeTuplesBuffer'[j])
                 /\ edgeTuplesBuffer'[j].flag <=> HalvesOut' + j > 2 * Vectors' - 2
  <1>1. IsSeq(edgeTuplesBuffer)
    BY DEF GatherScatterInv, SelfInv
  <1>2. /\ IsSeq(edgeTuplesBuffer')
        /\ \A j \in 1 .. Len(edgeTuplesBuffer') : edgeTuplesBuffer'[j] = edgeTuplesBuffer[j + 1]
        /\ Head(edgeTuplesBuffer) = edgeTuplesBuffer[1]
    BY <1>1, SeqTail
  <1>3. PICK b \in Nat \ {0} : b = Len(edgeTuplesBuffer) /\ Len(edgeTuplesBuffer') = b - 1
    BY <1>1, SeqTail
  <1>4. PICK H \in Nat, J \in Nat, V \in Nat, h \in Nat :
           /\ H = HalvesOut /\ J = Joined /\ V = Vectors /\ h = Len(srcProp.halves)
           /\ J <= V /\ H + b + h = 2 * J
    <2>1. /\ HalvesOut \in Nat /\ Joined \in Nat /\ Vectors \in Nat
          /\ Len(srcProp.halves) \in Nat /\ Joined <= Vectors
          /\ HalvesOut + b + Len(srcProp.halves) = 2 * Joined
      BY <1>3, Counts
    <2> QED BY <2>1
  <1>5. Vectors' = V /\ Joined' = J
    BY <1>4, SameRun, SameCounts
  <1>6. HalvesOut' = 2 * J - h - (b - 1)
    BY <1>3, <1>4, <1>5 DEF HalvesOut
  <1>7. HalvesOut' = H + 1 /\ H + 1 \in 1 .. 2 * V
    <2>1. PICK c \in Nat : b = c + 1
      BY <1>3
    <2>2. H + (c + 1) + h = 2 * J /\ J <= V
      BY <1>4, <2>1
    <2>3. HalvesOut' = 2 * J - h - c
      BY <1>6, <2>1
    <2>4. 2 * J - h - c = H + 1 /\ H + 1 <= 2 * V
      BY <2>2
    <2> QED BY <2>3, <2>4
  <1>8. ASSUME NEW j \in 1 .. b
        PROVE  /\ IsToken(edgeTuplesBuffer[j])
               /\ edgeTuplesBuffer[j].flag <=> H + j > 2 * V - 2
    BY <1>3, <1>4 DEF GatherScatterInv, SelfInv
  <1>9. /\ IsToken(Head(edgeTuplesBuffer))
        /\ Head(edgeTuplesBuffer).flag <=> HalvesOut' > 2 * V - 2
    BY <1>2, <1>7, <1>8
  <1>10. ASSUME NEW j \in 1 .. Len(edgeTuplesBuffer')
         PROVE  /\ IsToken(edgeTuplesBuffer'[j])
                /\ edgeTuplesBuffer'[j].flag <=> HalvesOut' + j > 2 * V - 2
    <2>1. j + 1 \in 1 .. b /\ edgeTuplesBuffer'[j] = edgeTuplesBuffer[j + 1]
      BY <1>2, <1>3
    <2>2. H + (j + 1) > 2 * V - 2 <=> HalvesOut' + j > 2 * V - 2
      BY <1>7
    <2> QED BY <1>8, <2>1, <2>2
  <1> QED BY <1>2, <1>4, <1>5, <1>7, <1>9, <1>10

LEMMA SelfPropStep ==
    ASSUME GatherScatterInv, SelfProp
    PROVE  GatherScatterInv'
  <1> DEFINE half == Head(edgeTuplesBuffer)
             out == [half EXCEPT !.data =
                        [l \in 1 .. EDGE_NUM |-> [@[l] EXCEPT !.y = preprocessProperty(l2, @)]]]
  <1>1. /\ selfProp = "run" /\ edgeTuplesBuffer # <<>>
        /\ edgeTuplesArray' = [edgeTuplesArray EXCEPT ![0] = Append(edgeTuplesArray[0], out)]
        /\ selfProp' = IF half.flag THEN "clear" ELSE "run"
        /\ edgeTuplesBuffer' = Tail(edgeTuplesBuffer)
    BY DEF SelfProp
  <1>2. UNCHANGED <<run, read, outDone, mapStream, edgeBurstStream, srcOut, propIn, srcProp>>
    BY DEF SelfProp, inVars
  <1>3. UNCHANGED <<shuffle, filtered, peVars, writeVars, toFilterArray, buildArray, writeArray>>
    BY DEF SelfProp, shuffleVars
  <1>4. /\ HalvesOut' = HalvesOut + 1 /\ HalvesOut' \in 1 .. 2 * Vectors
        /\ Vectors' = Vectors /\ IsSeq(edgeTuplesBuffer') /\ IsToken(half)
        /\ half.flag <=> HalvesOut' > 2 * Vectors - 2
        /\ \A j \in 1 .. Len(edgeTuplesBuffer') :
              /\ IsToken(edgeTuplesBuffer'[j])
              /\ edgeTuplesBuffer'[j].flag <=> HalvesOut' + j > 2 * Vectors' - 2
    BY <1>1, <1>2, TakeHalf
  <1>5. out.flag = half.flag /\ half.flag \in BOOLEAN
    BY <1>4 DEF IsToken
  <1> HIDE DEF half, out
  <1>6. SelfInv'
    <2>1. selfProp' \in {"run", "clear", Finished} /\ selfProp' # Finished
      BY <1>1 DEF Finished
    <2>2. selfProp' = "run" <=> HalvesOut' <= 2 * Vectors' - 2
      <3>1. PICK H \in Nat, V \in Nat : H = HalvesOut' /\ V = Vectors
        BY <1>4, Counts
      <3>2. H > 2 * V - 2 <=> ~(H <= 2 * V - 2)
        OBVIOUS
      <3>3. half.flag <=> ~(HalvesOut' <= 2 * Vectors' - 2)
        BY <1>4, <3>1, <3>2
      <3> QED BY <1>1, <3>3
    <2>3. HalvesOut' \in Nat
      BY <1>4
    <2> QED BY <1>4, <2>1, <2>2, <2>3 DEF SelfInv, IsToken, Finished
  <1>7. ShuffleInv'
    <2> 0 \in PE
      BY Sizes DEF PE
    <2>1. /\ IsSeq(edgeTuplesArray[0]) /\ FlagEnds(edgeTuplesArray[0], FALSE, shuffle[0])
          /\ shuffle[0] \in BOOLEAN
      BY <1>1 DEF GatherScatterInv, ShuffleInv
    <2>2. ~shuffle[0] /\ FlagEnds(Append(edgeTuplesArray[0], out), half.flag, FALSE)
      BY <1>5, <2>1, FlagEndsAppend
    <2>3. edgeTuplesArray = [p \in PE |-> edgeTuplesArray[p]]
      BY DEF GatherScatterInv, ShuffleInv
    <2>4. /\ edgeTuplesArray'[0] = Append(edgeTuplesArray[0], out)
          /\ \A p \in PE : p # 0 => edgeTuplesArray'[p] = edgeTuplesArray[p]
          /\ edgeTuplesArray' = [p \in PE |-> edgeTuplesArray'[p]]
      BY <1>1, <2>3
    <2>5. IsSeq(edgeTuplesArray'[0])
      BY <2>1, <2>4, SeqAppend
    <2>6. FlagEnds(edgeTuplesArray'[0], selfProp' # "run", shuffle'[0])
      <3>1. (selfProp' # "run") <=> half.flag
        BY <1>1
      <3> QED BY <1>3, <1>5, <2>2, <2>4, <3>1 DEF FlagEnds
    <2>7. ASSUME NEW p \in PE
          PROVE  /\ IsSeq(edgeTuplesArray'[p]) /\ IsSeq(toFilterArray'[p])
                 /\ FlagEnds(edgeTuplesArray'[p],
                             IF p = 0 THEN selfProp' # "run" ELSE shuffle'[p - 1], shuffle'[p])
                 /\ FilterEnds(toFilterArray'[p], shuffle'[p], filtered'[p])
      <3>1. IsSeq(toFilterArray'[p]) /\ FilterEnds(toFilterArray'[p], shuffle'[p], filtered'[p])
        BY <1>3 DEF GatherScatterInv, ShuffleInv
      <3>2. CASE p = 0
        BY <2>5, <2>6, <3>1, <3>2
      <3>3. CASE p # 0
        BY <1>3, <2>4, <3>1, <3>3 DEF GatherScatterInv, ShuffleInv
      <3> QED BY <3>2, <3>3
    <2>8. /\ shuffle' \in [PE -> BOOLEAN] /\ filtered' \in [PE -> BOOLEAN]
          /\ toFilterArray' = [p \in PE |-> toFilterArray'[p]]
      BY <1>3 DEF GatherScatterInv, ShuffleInv
    <2> QED BY <2>4, <2>7, <2>8 DEF ShuffleInv, PE
  <1>8. /\ DestsOut' = DestsOut /\ Served' = Served /\ SourcesOut' = SourcesOut
    BY <1>2, SameCounts
  <1>9. ReadInv' /\ CacheInv' /\ JoinInv'
    BY <1>2, <1>8, SameRead, SameCache, SameJoin DEF GatherScatterInv
  <1>10. GatherInv' /\ WriteInv'
    BY <1>3, SameGather, SameWrite DEF GatherScatterInv, writeVars
  <1> QED BY <1>2, <1>6, <1>7, <1>9, <1>10, SameRun DEF GatherScatterInv

LEMMA ClearTuplesStep ==
    ASSUME GatherScatterInv, ClearTuples
    PROVE  GatherScatterInv'
  <1>1. selfProp = "clear"
    BY DEF ClearTuples
  <1>2. UNCHANGED <<run, read, outDone, mapStream, edgeBurstStream, srcOut, propIn, srcProp>>
    BY DEF ClearTuples, inVars
  <1>3. UNCHANGED <<shuffle, filtered, peVars, writeVars, edgeTuplesArray, toFilterArray,
                    buildArray, writeArray>>
    BY DEF ClearTuples, shuffleVars
  <1>4. PICK H \in Nat, J \in Nat, V \in Nat :
           /\ H = HalvesOut /\ J = Joined /\ V = Vectors /\ J <= V
           /\ H > 2 * V - 2
    <2>1. PICK H \in Nat, J \in Nat, V \in Nat :
             /\ H = HalvesOut /\ J = Joined /\ V = Vectors /\ J <= V
      BY Counts
    <2>2. ~(H <= 2 * V - 2)
      BY <1>1, <2>1 DEF GatherScatterInv, SelfInv
    <2>3. H > 2 * V - 2
      BY <2>2
    <2> QED BY <2>1, <2>3
  <1>5. Vectors' = V /\ Joined' = J
    BY <1>2, <1>4, SameRun, SameCounts
  <1>6. SelfInv' /\ selfProp' # "run"
    <2>1. CASE edgeTuplesBuffer = <<>>
      <3>1. selfProp' = Finished /\ edgeTuplesBuffer' = <<>> /\ srcProp.halves = <<>>
        BY <2>1 DEF ClearTuples, ClearedLongEnough
      <3>2. Len(<<>>) = 0
        OBVIOUS
      <3>3. HalvesOut = 2 * J - 0 - 0 /\ HalvesOut' = 2 * J - 0 - 0
        BY <1>2, <1>4, <1>5, <2>1, <3>1, <3>2 DEF HalvesOut
      <3>4. H = 2 * J
        BY <1>4, <3>3
      <3>5. J = V
        BY <1>4, <3>4
      <3>6. HalvesOut' = 2 * V /\ HalvesOut' \in Nat /\ ~(HalvesOut' <= 2 * V - 2)
        BY <3>3, <3>5
      <3>7. Finished # "run"
        BY DEF Finished
      <3> QED BY <1>5, <3>1, <3>2, <3>6, <3>7, SeqEmpty DEF SelfInv, IsToken, Finished
    <2>2. CASE edgeTuplesBuffer # <<>>
      <3>1. edgeTuplesBuffer' = Tail(edgeTuplesBuffer) /\ selfProp' = "clear"
        BY <1>1, <2>2 DEF ClearTuples
      <3>2. /\ HalvesOut' = HalvesOut + 1 /\ IsSeq(edgeTuplesBuffer')
            /\ \A j \in 1 .. Len(edgeTuplesBuffer') :
                  /\ IsToken(edgeTuplesBuffer'[j])
                  /\ edgeTuplesBuffer'[j].flag <=> HalvesOut' + j > 2 * Vectors' - 2
        BY <1>2, <2>2, <3>1, TakeHalf
      <3>3. HalvesOut' = H + 1
        BY <1>4, <3>2
      <3>4. HalvesOut' \in Nat /\ ~(HalvesOut' <= 2 * V - 2)
        BY <1>4, <3>3
      <3> QED BY <1>5, <3>1, <3>2, <3>4 DEF SelfInv, IsToken, Finished
    <2> QED BY <2>1, <2>2
  <1>7. ShuffleInv'
    BY <1>1, <1>3, <1>6 DEF GatherScatterInv, ShuffleInv, PE
  <1>8. /\ DestsOut' = DestsOut /\ Served' = Served /\ SourcesOut' = SourcesOut
    BY <1>2, SameCounts
  <1>9. ReadInv' /\ CacheInv' /\ JoinInv'
    BY <1>2, <1>8, SameRead, SameCache, SameJoin DEF GatherScatterInv
  <1>10. GatherInv' /\ WriteInv'
    BY <1>3, SameGather, SameWrite DEF GatherScatterInv, writeVars
  <1> QED BY <1>2, <1>6, <1>7, <1>9, <1>10, SameRun DEF GatherScatterInv

-----------------------------------------------------------------------------
(* The distribution to the processing elements. *)

LEMMA SameFront ==
    ASSUME GatherScatterInv,
           UNCHANGED <<run, inVars, joinVars, edgeBurstStream, srcOut, propIn, edgeTuplesBuffer>>
    PROVE  run' \in Runs /\ ReadInv' /\ CacheInv' /\ JoinInv' /\ SelfInv'
  <1>1. UNCHANGED <<run, read, outDone, mapStream, edgeBurstStream, srcOut, propIn,
                    edgeTuplesBuffer, srcProp, selfProp>>
    BY DEF inVars, joinVars
  <1>2. /\ DestsOut' = DestsOut /\ Served' = Served /\ SourcesOut' = SourcesOut
        /\ HalvesOut' = HalvesOut
    BY <1>1, SameCounts
  <1> QED BY <1>1, <1>2, SameRun, SameRead, SameCache, SameJoin, SameSelf DEF GatherScatterInv

\* The flag goes with one tuple.
LEMMA MineOfTheEnd ==
    ASSUME NEW p, NEW half, half.flag = TRUE
    PROVE  Len(Mine(p, half)) = 1 /\ Mine(p, half) # <<>>
  <1> DEFINE shuff == shuffleDecoder(Opcode(p, half))
             t == [j \in 1 .. 1 |-> half.data[Position(shuff.idx, j - 1) + 1]]
  <1>1. Mine(p, half) = t
    BY DEF Mine
  <1> HIDE DEF shuff
  <1>2. DOMAIN t = 1 .. 1 /\ 1 \in Nat
    OBVIOUS
  <1> HIDE DEF t
  <1>3. Len(t) = 1
    BY <1>1, <1>2
  <1>4. Len(<<>>) = 0
    OBVIOUS
  <1> QED BY <1>1, <1>3, <1>4

LEMMA ShuffleStep ==
    ASSUME GatherScatterInv, NEW p \in PE, Shuffle(p)
    PROVE  GatherScatterInv'
  <1> DEFINE half == Head(edgeTuplesArray[p])
             filter == [tuples |-> Mine(p, half), end |-> half.flag]
             up(q) == IF q = 0 THEN selfProp # "run" ELSE shuffle[q - 1]
  <1>1. /\ ~shuffle[p] /\ edgeTuplesArray[p] # <<>>
        /\ edgeTuplesArray' = [q \in PE |->
                CASE q = p -> Tail(edgeTuplesArray[q])
                  [] q = p + 1 -> Append(edgeTuplesArray[q], half)
                  [] OTHER -> edgeTuplesArray[q]]
        /\ toFilterArray' = [toFilterArray EXCEPT
                ![p] = IF Mine(p, half) = <<>> THEN toFilterArray[p]
                       ELSE Append(toFilterArray[p], filter)]
        /\ shuffle' = [shuffle EXCEPT ![p] = half.flag]
    BY DEF Shuffle
  <1>2. UNCHANGED <<run, inVars, joinVars, edgeBurstStream, srcOut, propIn, edgeTuplesBuffer,
                    filtered, peVars, writeVars, buildArray, writeArray>>
    BY DEF Shuffle
  <1>3. p \in Int /\ \A q \in PE : q \in Int /\ (q # 0 => q - 1 \in PE)
    BY Sizes DEF PE
  <1>4. ASSUME NEW q \in PE
        PROVE  /\ IsSeq(edgeTuplesArray[q]) /\ IsSeq(toFilterArray[q])
               /\ shuffle[q] \in BOOLEAN /\ filtered[q] \in BOOLEAN /\ up(q) \in BOOLEAN
               /\ FlagEnds(edgeTuplesArray[q], up(q), shuffle[q])
               /\ FilterEnds(toFilterArray[q], shuffle[q], filtered[q])
    <2>1. shuffle \in [PE -> BOOLEAN] /\ filtered \in [PE -> BOOLEAN]
      BY DEF GatherScatterInv, ShuffleInv
    <2>2. up(q) \in BOOLEAN
      BY <1>3, <2>1
    <2> QED BY <2>1, <2>2 DEF GatherScatterInv, ShuffleInv
  <1>5. half.flag \in BOOLEAN /\ FlagEnds(Tail(edgeTuplesArray[p]), up(p), half.flag)
    BY <1>1, <1>4, FlagEndsTail
  <1>6. half.flag => Len(Mine(p, half)) = 1 /\ Mine(p, half) # <<>>
    BY <1>5, MineOfTheEnd
  <1>7. IsFilter(filter) /\ filter.end = half.flag /\ filter.tuples = Mine(p, half)
    BY <1>5 DEF IsFilter
  <1> HIDE DEF half, filter
  <1>8. /\ edgeTuplesArray'[p] = Tail(edgeTuplesArray[p])
        /\ p + 1 \in PE => edgeTuplesArray'[p + 1] = Append(edgeTuplesArray[p + 1], half)
        /\ \A q \in PE : q # p /\ q # p + 1 => edgeTuplesArray'[q] = edgeTuplesArray[q]
        /\ edgeTuplesArray' = [q \in PE |-> edgeTuplesArray'[q]]
    BY <1>1, <1>3
  <1>9. /\ shuffle'[p] = half.flag /\ shuffle' \in [PE -> BOOLEAN]
        /\ \A q \in PE : q # p => shuffle'[q] = shuffle[q]
    BY <1>1, <1>5 DEF GatherScatterInv, ShuffleInv
  <1>10. /\ toFilterArray'[p] = IF Mine(p, half) = <<>> THEN toFilterArray[p]
                                ELSE Append(toFilterArray[p], filter)
         /\ \A q \in PE : q # p => toFilterArray'[q] = toFilterArray[q]
         /\ toFilterArray' = [q \in PE |-> toFilterArray'[q]]
    BY <1>1 DEF GatherScatterInv, ShuffleInv
  <1>11. IsSeq(toFilterArray'[p]) /\ FilterEnds(toFilterArray'[p], half.flag, filtered[p])
    <2>1. FilterEnds(toFilterArray[p], FALSE, filtered[p])
      BY <1>1, <1>4
    <2>2. CASE Mine(p, half) = <<>>
      <3>1. half.flag = FALSE
        BY <1>5, <1>6, <2>2
      <3> QED BY <1>4, <1>10, <2>1, <2>2, <3>1
    <2>3. CASE Mine(p, half) # <<>>
      <3>1. toFilterArray'[p] = Append(toFilterArray[p], filter)
        BY <1>10, <2>3
      <3>2. IsSeq(toFilterArray[p]) /\ filtered[p] \in BOOLEAN
        BY <1>4
      <3>3. filter.end => Len(filter.tuples) = 1
        BY <1>6, <1>7
      <3>4. ~filtered[p] /\ FilterEnds(Append(toFilterArray[p], filter), filter.end, FALSE)
        BY <1>7, <2>1, <3>2, <3>3, FilterEndsAppend
      <3>5. IsSeq(toFilterArray'[p])
        BY <3>1, <3>2, SeqAppend
      <3>6. filtered[p] = FALSE
        BY <3>2, <3>4
      <3> QED BY <1>7, <3>1, <3>4, <3>5, <3>6
    <2> QED BY <2>2, <2>3
  <1>12. ASSUME NEW q \in PE
         PROVE  /\ IsSeq(edgeTuplesArray'[q])
                /\ FlagEnds(edgeTuplesArray'[q],
                            IF q = 0 THEN selfProp' # "run" ELSE shuffle'[q - 1], shuffle'[q])
    <2>0. selfProp' = selfProp
      BY <1>2 DEF joinVars
    <2>1. CASE q = p
      <3>1. (IF q = 0 THEN selfProp' # "run" ELSE shuffle'[q - 1]) = up(p)
        BY <1>3, <1>9, <2>0, <2>1
      <3>2. IsSeq(edgeTuplesArray'[p])
        BY <1>1, <1>4, <1>8, SeqTail
      <3> QED BY <1>5, <1>8, <1>9, <2>1, <3>1, <3>2
    <2>2. CASE q = p + 1
      <3>1. q # 0 /\ q - 1 = p /\ q # p
        BY <1>3, <2>2 DEF PE
      <3>2. up(q) = FALSE
        BY <1>1, <1>4, <3>1
      <3>3. ~shuffle[q] /\ FlagEnds(Append(edgeTuplesArray[q], half), half.flag, FALSE)
        BY <1>4, <1>5, <3>2, FlagEndsAppend
      <3>4. shuffle'[q] = FALSE /\ shuffle'[q - 1] = half.flag
        BY <1>4, <1>9, <3>1, <3>3
      <3>5. edgeTuplesArray'[q] = Append(edgeTuplesArray[q], half) /\ IsSeq(edgeTuplesArray'[q])
        <4>1. edgeTuplesArray'[q] = Append(edgeTuplesArray[q], half)
          BY <1>8, <2>2
        <4>2. IsSeq(edgeTuplesArray[q])
          BY <1>4
        <4> QED BY <4>1, <4>2, SeqAppend
      <3> QED BY <3>1, <3>3, <3>4, <3>5
    <2>3. CASE q # p /\ q # p + 1
      <3>1. q # 0 => q - 1 \in PE /\ q - 1 # p
        BY <1>3, <2>3
      <3>2. (IF q = 0 THEN selfProp' # "run" ELSE shuffle'[q - 1]) = up(q)
        BY <1>9, <2>0, <3>1
      <3> QED BY <1>4, <1>8, <1>9, <2>3, <3>2
    <2> QED BY <2>1, <2>2, <2>3
  <1>13. ASSUME NEW q \in PE
         PROVE  /\ IsSeq(toFilterArray'[q])
                /\ FilterEnds(toFilterArray'[q], shuffle'[q], filtered'[q])
    <2>1. filtered'[q] = filtered[q]
      BY <1>2
    <2> QED BY <1>4, <1>9, <1>10, <1>11, <2>1
  <1>14. filtered' \in [PE -> BOOLEAN]
    BY <1>2 DEF GatherScatterInv, ShuffleInv
  <1>15. ShuffleInv'
    BY <1>8, <1>9, <1>10, <1>12, <1>13, <1>14 DEF ShuffleInv, PE
  <1>16. GatherInv' /\ WriteInv'
    BY <1>2, SameGather, SameWrite DEF GatherScatterInv, writeVars
  <1> QED BY <1>2, <1>15, <1>16, SameFront DEF GatherScatterInv

LEMMA TupleFilterStep ==
    ASSUME GatherScatterInv, NEW p \in PE, TupleFilter(p)
    PROVE  GatherScatterInv'
  <1> DEFINE filter == Head(toFilterArray[p])
             last == Len(filter.tuples) = 1
             token == [data |-> Head(filter.tuples), flag |-> last /\ filter.end]
             rest == IF last THEN Tail(toFilterArray[p])
                     ELSE [toFilterArray[p] EXCEPT
                              ![1] = [filter EXCEPT !.tuples = Tail(filter.tuples)]]
  <1>1. /\ ~filtered[p] /\ toFilterArray[p] # <<>>
        /\ buildArray' = [buildArray EXCEPT ![p] = Append(buildArray[p], token)]
        /\ toFilterArray' = [toFilterArray EXCEPT ![p] = rest]
        /\ filtered' = [filtered EXCEPT ![p] = token.flag]
    <2>1. toFilterArray' = [toFilterArray EXCEPT
                ![p] = IF last THEN Tail(@)
                       ELSE [@ EXCEPT ![1] = [filter EXCEPT !.tuples = Tail(@)]]]
      BY DEF TupleFilter
    <2>2. filtered' = [filtered EXCEPT ![p] = last /\ filter.end]
      BY DEF TupleFilter
    <2>3. token.flag = (last /\ filter.end)
      OBVIOUS
    <2>4. filtered' = [filtered EXCEPT ![p] = token.flag]
      BY <2>2, <2>3, Zenon
    <2> QED BY <2>1, <2>4 DEF TupleFilter
  <1>2. UNCHANGED <<run, inVars, joinVars, edgeBurstStream, srcOut, propIn, edgeTuplesBuffer,
                    shuffle, peVars, writeVars, edgeTuplesArray, writeArray>>
    BY DEF TupleFilter
  <1>3. /\ IsSeq(toFilterArray[p]) /\ shuffle[p] \in BOOLEAN /\ filtered[p] = FALSE
        /\ FilterEnds(toFilterArray[p], shuffle[p], FALSE)
        /\ IsSeq(buildArray[p]) /\ FlagEnds(buildArray[p], FALSE, dst[p] # Gather)
    BY <1>1, ZenonT(40) DEF GatherScatterInv, ShuffleInv, GatherInv
  <1>4. /\ IsFilter(filter) /\ (filter.end => last)
        /\ FilterEnds(Tail(toFilterArray[p]), shuffle[p], filter.end)
    BY <1>1, <1>3, FilterEndsTail
  <1>5. token.flag \in BOOLEAN /\ token.flag = filter.end
    BY <1>4 DEF IsFilter
  <1>6. IsSeq(rest) /\ FilterEnds(rest, shuffle[p], token.flag)
    <2>1. CASE last
      BY <1>1, <1>3, <1>4, <1>5, <2>1, SeqTail
    <2>2. CASE ~last
      <3>1. filter.end = FALSE
        BY <1>4, <2>2 DEF IsFilter
      <3> QED BY <1>1, <1>3, <1>5, <2>2, <3>1, FilterEndsShorten
    <2> QED BY <2>1, <2>2
  <1>7. /\ IsSeq(Append(buildArray[p], token)) /\ ~(dst[p] # Gather)
        /\ FlagEnds(Append(buildArray[p], token), token.flag, FALSE)
    BY <1>3, <1>5, SeqAppend, FlagEndsAppend
  <1> HIDE DEF token, rest
  <1>8. /\ filtered'[p] = token.flag /\ filtered' \in [PE -> BOOLEAN]
        /\ \A q \in PE : q # p => filtered'[q] = filtered[q]
        /\ toFilterArray'[p] = rest /\ toFilterArray' = [q \in PE |-> toFilterArray'[q]]
        /\ \A q \in PE : q # p => toFilterArray'[q] = toFilterArray[q]
    BY <1>1, <1>5 DEF GatherScatterInv, ShuffleInv
  <1>9. /\ buildArray'[p] = Append(buildArray[p], token)
        /\ buildArray' = [q \in PE |-> buildArray'[q]]
        /\ \A q \in PE : q # p => buildArray'[q] = buildArray[q]
    BY <1>1 DEF GatherScatterInv, GatherInv
  <1>10. ShuffleInv'
    <2>1. ASSUME NEW q \in PE
          PROVE  /\ IsSeq(toFilterArray'[q])
                 /\ FilterEnds(toFilterArray'[q], shuffle'[q], filtered'[q])
      <3>1. shuffle'[q] = shuffle[q]
        BY <1>2
      <3>2. CASE q = p
        BY <1>6, <1>8, <3>1, <3>2
      <3>3. CASE q # p
        BY <1>8, <3>1, <3>3 DEF GatherScatterInv, ShuffleInv
      <3> QED BY <3>2, <3>3
    <2>2. ASSUME NEW q \in PE
          PROVE  /\ IsSeq(edgeTuplesArray'[q])
                 /\ FlagEnds(edgeTuplesArray'[q],
                             IF q = 0 THEN selfProp' # "run" ELSE shuffle'[q - 1], shuffle'[q])
      BY <1>2 DEF GatherScatterInv, ShuffleInv, joinVars
    <2>3. shuffle' \in [PE -> BOOLEAN] /\ edgeTuplesArray' = [q \in PE |-> edgeTuplesArray'[q]]
      BY <1>2 DEF GatherScatterInv, ShuffleInv
    <2> QED BY <1>8, <2>1, <2>2, <2>3 DEF ShuffleInv, PE
  <1>11. GatherInv'
    <2>1. /\ dst' = dst /\ table' = table /\ words' = words /\ writeArray' = writeArray
      BY <1>2 DEF peVars, writeVars
    <2>2. ASSUME NEW q \in PE
          PROVE  /\ IsSeq(buildArray'[q])
                 /\ FlagEnds(buildArray'[q], filtered'[q], dst'[q] # Gather)
      <3>1. CASE q = p
        <4>1. FlagEnds(buildArray'[p], filtered'[p], FALSE) /\ ~(dst'[p] # Gather)
          BY <1>7, <1>8, <1>9, <2>1
        <4> QED BY <1>7, <1>9, <3>1, <4>1 DEF FlagEnds
      <3>2. CASE q # p
        BY <1>8, <1>9, <2>1, <3>2 DEF GatherScatterInv, GatherInv
      <3> QED BY <3>1, <3>2
    <2> QED BY <1>9, <2>1, <2>2 DEF GatherScatterInv, GatherInv, PE, Gather, Addr, ZeroWord,
            Lane, Dumped
  <1>12. WriteInv'
    BY <1>2, SameWrite DEF GatherScatterInv
  <1> QED BY <1>2, <1>10, <1>11, <1>12, SameFront DEF GatherScatterInv

-----------------------------------------------------------------------------
(* dstPropertyProcess and processEdgeWrite. *)

\* What the elements hold, one by one.
LEMMA GatherIntro ==
    ASSUME dst' \in [PE -> Gather .. Words],
           buildArray' = [q \in PE |-> buildArray'[q]],
           writeArray' = [q \in PE |-> writeArray'[q]],
           table' = [q \in PE |-> [a \in Addr |-> table'[q][a]]],
           \A q \in PE :
              /\ IsSeq(buildArray'[q]) /\ IsSeq(writeArray'[q])
              /\ FlagEnds(buildArray'[q], filtered'[q], dst'[q] # Gather)
              /\ Dumped(q)' = words' + Len(writeArray'[q])
              /\ \A a \in 0 .. Dumped(q)' - 1 : table'[q][a] = ZeroWord
    PROVE  GatherInv'
  BY DEF GatherInv, PE, Gather, Addr, ZeroWord, Lane, Dumped

LEMMA DstGatherStep ==
    ASSUME GatherScatterInv, NEW p \in PE, DstGather(p)
    PROVE  GatherScatterInv'
  <1> DEFINE token == Head(buildArray[p])
             idx == Index(token.data.x)
  <1>1. /\ dst[p] = Gather /\ buildArray[p] # <<>>
        /\ buildArray' = [buildArray EXCEPT ![p] = Tail(buildArray[p])]
    BY DEF DstGather
  <1>2. UNCHANGED <<run, inVars, joinVars, edgeBurstStream, srcOut, propIn, edgeTuplesBuffer,
                    shuffleVars, writeVars, edgeTuplesArray, toFilterArray, writeArray>>
    BY DEF DstGather
  <1>3. /\ dst \in [PE -> Gather .. Words] /\ buildArray = [q \in PE |-> buildArray[q]]
        /\ writeArray = [q \in PE |-> writeArray[q]]
        /\ table = [q \in PE |-> [a \in Addr |-> table[q][a]]]
    BY DEF GatherScatterInv, GatherInv
  <1>4. ASSUME NEW q \in PE
        PROVE  /\ IsSeq(buildArray[q]) /\ IsSeq(writeArray[q])
               /\ FlagEnds(buildArray[q], filtered[q], dst[q] # Gather)
               /\ Dumped(q) = words + Len(writeArray[q])
               /\ \A a \in 0 .. Dumped(q) - 1 : table[q][a] = ZeroWord
    BY DEF GatherScatterInv, GatherInv
  <1>5. token.flag \in BOOLEAN /\ FlagEnds(Tail(buildArray[p]), filtered[p], token.flag)
    <2>1. filtered[p] \in BOOLEAN /\ FlagEnds(buildArray[p], filtered[p], FALSE)
      BY <1>1, <1>4 DEF GatherScatterInv, ShuffleInv
    <2> QED BY <1>1, <1>4, <2>1, FlagEndsTail
  <1>6. /\ dst' = IF token.flag THEN [dst EXCEPT ![p] = 0] ELSE dst
        /\ \/ table' = table
           \/ \E x : table' = [table EXCEPT ![p] = [table[p] EXCEPT ![idx \div 2] = x]]
    <2>1. CASE token.flag
      BY <2>1 DEF DstGather
    <2>2. CASE ~token.flag
      <3>1. dst' = dst
        BY <2>2 DEF DstGather
      <3>2. table' = IF token.data.x < 0 THEN table
                     ELSE [table EXCEPT ![p][idx \div 2][idx % 2] =
                              gatherFunc(l2, @, token.data.y)]
        BY <2>2 DEF DstGather
      <3> HIDE DEF idx, token
      <3>3. CASE token.data.x < 0
        BY <2>2, <3>1, <3>2, <3>3
      <3>4. CASE ~(token.data.x < 0)
        <4> DEFINE y == gatherFunc(l2, table[p][idx \div 2][idx % 2], token.data.y)
                   x == [table[p][idx \div 2] EXCEPT ![idx % 2] = y]
        <4>1. table' = [table EXCEPT ![p] = [table[p] EXCEPT ![idx \div 2] = x]]
          BY <3>2, <3>4
        <4> QED BY <2>2, <3>1, <4>1
      <3> QED BY <3>3, <3>4
    <2> QED BY <1>5, <2>1, <2>2
  <1> HIDE DEF token, idx
  <1>7. /\ \A q \in PE : q # p => dst'[q] = dst[q]
        /\ dst'[p] = IF token.flag THEN 0 ELSE Gather
        /\ dst' \in [PE -> Gather .. Words]
    <2>1. 0 \in Gather .. Words
      BY Sizes DEF Gather
    <2> QED BY <1>1, <1>3, <1>6, <2>1
  <1>8. /\ \A q \in PE : q # p => table'[q] = table[q]
        /\ table' = [q \in PE |-> [a \in Addr |-> table'[q][a]]]
    <2>1. CASE table' = table
      BY <1>3, <2>1
    <2>2. CASE table' # table
      <3>1. PICK x : table' = [table EXCEPT ![p] = [table[p] EXCEPT ![idx \div 2] = x]]
        BY <1>6, <2>2
      <3>2. DOMAIN table = PE /\ \A q \in PE : table[q] = [a \in Addr |-> table[q][a]]
        BY <1>3
      <3> DEFINE T == [table[p] EXCEPT ![idx \div 2] = x]
      <3>3. T = [a \in Addr |-> T[a]]
        BY <3>2
      <3> HIDE DEF T
      <3>4. table' = [q \in PE |-> IF q = p THEN T ELSE table[q]]
        BY <3>1, <3>2 DEF T
      <3> QED BY <3>2, <3>3, <3>4
    <2> QED BY <2>1, <2>2
  <1>9. /\ buildArray' = [q \in PE |-> buildArray'[q]]
        /\ buildArray'[p] = Tail(buildArray[p])
        /\ \A q \in PE : q # p => buildArray'[q] = buildArray[q]
    BY <1>1, <1>3
  <1>10. filtered' = filtered /\ words' = words /\ writeArray' = writeArray
    BY <1>2 DEF shuffleVars, writeVars
  <1>11. ASSUME NEW q \in PE
         PROVE  /\ IsSeq(buildArray'[q]) /\ IsSeq(writeArray'[q])
                /\ FlagEnds(buildArray'[q], filtered'[q], dst'[q] # Gather)
                /\ Dumped(q)' = words' + Len(writeArray'[q])
                /\ \A a \in 0 .. Dumped(q)' - 1 : table'[q][a] = ZeroWord
    <2>1. CASE q = p
      <3>1. IsSeq(buildArray'[p]) /\ IsSeq(writeArray'[p])
        BY <1>1, <1>4, <1>9, <1>10, SeqTail
      <3>2. (dst'[p] # Gather) <=> token.flag
        BY <1>5, <1>7 DEF Gather
      <3>3. FlagEnds(buildArray'[p], filtered'[p], dst'[p] # Gather)
        BY <1>5, <1>9, <1>10, <3>2 DEF FlagEnds
      <3>4. Dumped(p) = 0 /\ Dumped(p)' = 0
        BY <1>1, <1>7 DEF Dumped, Gather
      <3> QED BY <1>4, <1>10, <2>1, <3>1, <3>3, <3>4
    <2>2. CASE q # p
      <3>1. dst'[q] = dst[q] /\ Dumped(q)' = Dumped(q) /\ table'[q] = table[q]
        BY <1>7, <1>8, <2>2 DEF Dumped, Gather
      <3> QED BY <1>4, <1>9, <1>10, <2>2, <3>1
    <2> QED BY <2>1, <2>2
  <1>12. GatherInv'
    BY <1>3, <1>7, <1>8, <1>9, <1>10, <1>11, GatherIntro
  <1>13. ShuffleInv' /\ WriteInv'
    BY <1>2, SameShuffle, SameWrite DEF GatherScatterInv, joinVars
  <1> QED BY <1>2, <1>12, <1>13, SameFront DEF GatherScatterInv

LEMMA DstDumpStep ==
    ASSUME GatherScatterInv, NEW p \in PE, DstDump(p)
    PROVE  GatherScatterInv'
  <1>1. /\ dst[p] \in Addr
        /\ writeArray' = [writeArray EXCEPT ![p] = Append(writeArray[p], table[p][dst[p]])]
        /\ table' = [table EXCEPT ![p] = [table[p] EXCEPT ![dst[p]] = ZeroWord]]
        /\ dst' = [dst EXCEPT ![p] = dst[p] + 1]
    BY DEF DstDump
  <1>2. UNCHANGED <<run, inVars, joinVars, edgeBurstStream, srcOut, propIn, edgeTuplesBuffer,
                    shuffleVars, writeVars, edgeTuplesArray, toFilterArray, buildArray>>
    BY DEF DstDump
  <1>3. /\ dst \in [PE -> Gather .. Words] /\ buildArray = [q \in PE |-> buildArray[q]]
        /\ writeArray = [q \in PE |-> writeArray[q]]
        /\ table = [q \in PE |-> [a \in Addr |-> table[q][a]]]
    BY DEF GatherScatterInv, GatherInv
  <1>4. ASSUME NEW q \in PE
        PROVE  /\ IsSeq(buildArray[q]) /\ IsSeq(writeArray[q])
               /\ FlagEnds(buildArray[q], filtered[q], dst[q] # Gather)
               /\ Dumped(q) = words + Len(writeArray[q])
               /\ \A a \in 0 .. Dumped(q) - 1 : table[q][a] = ZeroWord
    BY DEF GatherScatterInv, GatherInv
  <1>5. dst[p] \in 0 .. Words - 1 /\ dst[p] # Gather /\ Words \in Nat \ {0} /\ words \in Nat
    <2>1. words \in 0 .. Words /\ Words \in Nat \ {0}
      BY Sizes DEF GatherScatterInv, WriteInv
    <2> QED BY <1>1, <2>1 DEF Addr, Gather
  <1>6. /\ \A q \in PE : q # p => dst'[q] = dst[q]
        /\ dst'[p] = dst[p] + 1 /\ dst'[p] # Gather
        /\ dst' \in [PE -> Gather .. Words]
    <2>1. dst[p] + 1 \in Gather .. Words /\ dst[p] + 1 # Gather
      BY <1>5 DEF Gather
    <2> QED BY <1>1, <1>3, <2>1
  <1>7. /\ \A q \in PE : q # p => table'[q] = table[q]
        /\ \A a \in Addr : table'[p][a] = IF a = dst[p] THEN ZeroWord ELSE table[p][a]
        /\ table' = [q \in PE |-> [a \in Addr |-> table'[q][a]]]
    <2>1. DOMAIN table = PE /\ \A q \in PE : table[q] = [a \in Addr |-> table[q][a]]
      BY <1>3
    <2> DEFINE T == [table[p] EXCEPT ![dst[p]] = ZeroWord]
    <2>2. T = [a \in Addr |-> IF a = dst[p] THEN ZeroWord ELSE table[p][a]]
      BY <1>1, <2>1
    <2> HIDE DEF T
    <2>3. table' = [q \in PE |-> IF q = p THEN T ELSE table[q]]
      BY <1>1, <2>1 DEF T
    <2> QED BY <2>1, <2>2, <2>3
  <1>8. /\ writeArray' = [q \in PE |-> writeArray'[q]]
        /\ writeArray'[p] = Append(writeArray[p], table[p][dst[p]])
        /\ \A q \in PE : q # p => writeArray'[q] = writeArray[q]
    BY <1>1, <1>3
  <1>9. filtered' = filtered /\ words' = words /\ buildArray' = buildArray
    BY <1>2 DEF shuffleVars, writeVars
  <1>10. ASSUME NEW q \in PE
         PROVE  /\ IsSeq(buildArray'[q]) /\ IsSeq(writeArray'[q])
                /\ FlagEnds(buildArray'[q], filtered'[q], dst'[q] # Gather)
                /\ Dumped(q)' = words' + Len(writeArray'[q])
                /\ \A a \in 0 .. Dumped(q)' - 1 : table'[q][a] = ZeroWord
    <2>1. CASE q = p
      <3>1. PICK n \in Nat : /\ n = Len(writeArray[p]) /\ Len(writeArray'[p]) = n + 1
                             /\ IsSeq(writeArray'[p])
        BY <1>4, <1>8, SeqAppend
      <3>2. FlagEnds(buildArray[p], filtered[p], TRUE)
        BY <1>4, <1>5
      <3>3. FlagEnds(buildArray'[p], filtered'[p], dst'[p] # Gather)
        BY <1>6, <1>9, <3>2 DEF FlagEnds
      <3>4. Dumped(p) = dst[p] /\ Dumped(p)' = dst[p] + 1
        BY <1>5, <1>6 DEF Dumped, Gather
      <3>5. Dumped(p)' = words' + Len(writeArray'[p])
        <4>1. dst[p] = words + n
          BY <1>4, <3>1, <3>4
        <4> QED BY <1>5, <1>9, <3>1, <3>4, <4>1
      <3>6. ASSUME NEW a \in 0 .. (dst[p] + 1) - 1
            PROVE  table'[p][a] = ZeroWord
        <4>1. a \in Addr /\ (a = dst[p] \/ a \in 0 .. dst[p] - 1)
          BY <1>5 DEF Addr
        <4>2. a \in 0 .. dst[p] - 1 => table[p][a] = ZeroWord
          BY <1>4, <3>4
        <4> QED BY <1>7, <4>1, <4>2
      <3> QED BY <1>4, <1>9, <2>1, <3>1, <3>3, <3>4, <3>5, <3>6
    <2>2. CASE q # p
      <3>1. dst'[q] = dst[q] /\ Dumped(q)' = Dumped(q) /\ table'[q] = table[q]
        BY <1>6, <1>7, <2>2 DEF Dumped, Gather
      <3> QED BY <1>4, <1>8, <1>9, <2>2, <3>1
    <2> QED BY <2>1, <2>2
  <1>11. GatherInv'
    BY <1>3, <1>6, <1>7, <1>8, <1>9, <1>10, GatherIntro
  <1>12. ShuffleInv' /\ WriteInv'
    BY <1>2, SameShuffle, SameWrite DEF GatherScatterInv, joinVars
  <1> QED BY <1>2, <1>11, <1>12, SameFront DEF GatherScatterInv

LEMMA TakeWordsStep ==
    ASSUME GatherScatterInv, TakeWords
    PROVE  GatherScatterInv'
  <1> DEFINE two == [b \in 1 .. 2 |-> [p \in PE |-> Head(writeArray[p])[b - 1]]]
  <1>1. /\ words < Words /\ ~Writing /\ words' = words + 1
        /\ \A p \in PE : writeArray[p] # <<>>
        /\ writeBuffer' = writeBuffer \o two
        /\ writeArray' = [p \in PE |-> Tail(writeArray[p])]
    BY DEF TakeWords
  <1>2. UNCHANGED <<run, inVars, joinVars, edgeBurstStream, srcOut, propIn, edgeTuplesBuffer,
                    shuffleVars, peVars, tmpVertexProp, edgeTuplesArray, toFilterArray,
                    buildArray>>
    BY DEF TakeWords
  <1>3. words \in 0 .. Words /\ Words \in Nat
    BY Sizes DEF GatherScatterInv, WriteInv
  <1>4. Writing = (Len(writeBuffer) = BURSTS \/ Len(tmpVertexProp) % BURSTS # 0)
    BY DEF Writing
  <1> HIDE DEF two
  <1>5. GatherInv'
    <2>1. dst' = dst /\ table' = table /\ filtered' = filtered /\ buildArray' = buildArray
      BY <1>2 DEF peVars, shuffleVars
    <2>2. ASSUME NEW q \in PE
          PROVE  /\ IsSeq(buildArray'[q]) /\ IsSeq(writeArray'[q])
                 /\ FlagEnds(buildArray'[q], filtered'[q], dst'[q] # Gather)
                 /\ Dumped(q)' = words' + Len(writeArray'[q])
                 /\ \A a \in 0 .. Dumped(q)' - 1 : table'[q][a] = ZeroWord
      <3>1. /\ IsSeq(buildArray[q]) /\ IsSeq(writeArray[q])
            /\ FlagEnds(buildArray[q], filtered[q], dst[q] # Gather)
            /\ Dumped(q) = words + Len(writeArray[q])
            /\ \A a \in 0 .. Dumped(q) - 1 : table[q][a] = ZeroWord
        BY DEF GatherScatterInv, GatherInv
      <3>2. writeArray'[q] = Tail(writeArray[q]) /\ writeArray[q] # <<>>
        BY <1>1
      <3>3. PICK n \in Nat \ {0} : n = Len(writeArray[q]) /\ Len(writeArray'[q]) = n - 1
        BY <3>1, <3>2, SeqTail
      <3>4. Dumped(q)' = Dumped(q) /\ IsSeq(writeArray'[q])
        BY <2>1, <3>1, <3>2, SeqTail DEF Dumped, Gather
      <3>5. Dumped(q)' = words' + Len(writeArray'[q])
        <4>1. Dumped(q) = words + n
          BY <3>1, <3>3
        <4>2. words + n = (words + 1) + (n - 1)
          BY <1>3
        <4> QED BY <1>1, <3>3, <3>4, <4>1, <4>2
      <3> QED BY <2>1, <3>1, <3>4, <3>5
    <2>3. /\ dst \in [PE -> Gather .. Words] /\ buildArray = [q \in PE |-> buildArray[q]]
          /\ table = [q \in PE |-> [a \in Addr |-> table[q][a]]]
      BY DEF GatherScatterInv, GatherInv
    <2>4. writeArray' = [q \in PE |-> writeArray'[q]]
      BY <1>1
    <2> QED BY <2>1, <2>2, <2>3, <2>4, GatherIntro
  <1>6. WriteInv'
    <2> IsSeq(writeBuffer) /\ IsSeq(tmpVertexProp)
      BY DEF GatherScatterInv, WriteInv
    <2>1. PICK w \in Nat, n \in Nat : w = Len(writeBuffer) /\ n = Len(tmpVertexProp)
      BY LenSeq
    <2>2. /\ w + n = 2 * words /\ n % BURSTS = 0 /\ w # BURSTS
          /\ w <= BURSTS /\ w % 2 = 0 /\ BURSTS \in Nat /\ BURSTS % 2 = 0
      BY <1>1, <1>4, <2>1, Sizes DEF GatherScatterInv, WriteInv
    <2>3. IsSeq(writeBuffer') /\ Len(writeBuffer') = w + 2
      <3> DEFINE S == Range(writeBuffer)
                 T == {[p \in PE |-> Head(writeArray[p])[b - 1]] : b \in 1 .. 2}
      <3>1. PICK k \in Nat : k = 2
        OBVIOUS
      <3>2. two \in [1 .. k -> T]
        BY <3>1 DEF two
      <3>3. writeBuffer \in Seq(S)
        BY DEF IsSeq
      <3> HIDE DEF S, T
      <3>4. two \in Seq(T) /\ Len(two) = k
        BY <3>2
      <3>5. writeBuffer \in Seq(S \cup T) /\ two \in Seq(S \cup T)
        BY <3>3, <3>4
      <3>6. writeBuffer' \in Seq(S \cup T) /\ Len(writeBuffer') = w + 2
        <4>1. writeBuffer' \in Seq(S \cup T)
          BY <1>1, <3>5
        <4>2. Len(writeBuffer \o two) = Len(writeBuffer) + Len(two)
          BY <3>5
        <4> QED BY <1>1, <2>1, <3>1, <3>4, <4>1, <4>2
      <3> QED BY <3>6, SeqIsSeq
    <2>4. w + 2 <= BURSTS /\ (w + 2) % 2 = 0 /\ (w + 2) + n = 2 * (words + 1)
      BY <1>3, <2>2
    <2>5. words + 1 \in 0 .. Words
      BY <1>1, <1>3
    <2> QED BY <1>1, <1>2, <2>1, <2>2, <2>3, <2>4, <2>5 DEF WriteInv
  <1>7. ShuffleInv'
    BY <1>2, SameShuffle DEF GatherScatterInv, joinVars
  <1> QED BY <1>2, <1>5, <1>6, <1>7, SameFront DEF GatherScatterInv

LEMMA WriteBurstStep ==
    ASSUME GatherScatterInv, WriteBurst
    PROVE  GatherScatterInv' /\ Len(tmpVertexProp') = Len(tmpVertexProp) + 1
  <1>1. /\ Writing /\ tmpVertexProp' = Append(tmpVertexProp, Head(writeBuffer))
        /\ writeBuffer' = Tail(writeBuffer)
    BY DEF WriteBurst
  <1>2. UNCHANGED <<run, inVars, joinVars, edgeBurstStream, srcOut, propIn, edgeTuplesBuffer,
                    shuffleVars, peVars, words, edgeTuplesArray, toFilterArray, buildArray,
                    writeArray>>
    BY DEF WriteBurst
  <1> IsSeq(writeBuffer) /\ IsSeq(tmpVertexProp)
    BY DEF GatherScatterInv, WriteInv
  <1>3. PICK w \in Nat, n \in Nat :
           /\ w = Len(writeBuffer) /\ n = Len(tmpVertexProp) /\ Len(tmpVertexProp') = n + 1
    BY <1>1, LenSeq, SeqAppend
  <1>4. PICK B \in Nat \ {0, 1} : B = BURSTS
    BY Sizes
  <1>5. PICK r \in 0 .. B - 1 : r = n % B /\ (n + 1) % B = IF r = B - 1 THEN 0 ELSE r + 1
    BY <1>4, NextRemainder
  <1>6. IF r = 0 THEN w = B ELSE w = B - r
    BY <1>1, <1>3, <1>4, <1>5 DEF GatherScatterInv, WriteInv, Writing
  <1>7. w # 0 /\ writeBuffer # <<>>
    <2>1. w # 0
      BY <1>4, <1>5, <1>6
    <2> QED BY <1>3, <2>1, LenSeq
  <1>8. IsSeq(writeBuffer') /\ IsSeq(tmpVertexProp') /\ Len(writeBuffer') = w - 1
    BY <1>1, <1>3, <1>7, SeqTail, SeqAppend
  <1>9. IF (n + 1) % B = 0 THEN w - 1 <= B /\ (w - 1) % 2 = 0
        ELSE w - 1 = B - ((n + 1) % B)
    <2>1. CASE r = B - 1
      <3>1. (n + 1) % B = 0 /\ w - 1 = 0
        BY <1>4, <1>5, <1>6, <2>1
      <3> QED BY <1>4, <3>1
    <2>2. CASE r # B - 1
      <3>1. (n + 1) % B = r + 1 /\ w - 1 = B - (r + 1) /\ r + 1 # 0
        BY <1>4, <1>5, <1>6, <2>2
      <3> QED BY <3>1
    <2> QED BY <2>1, <2>2
  <1>10. WriteInv'
    <2>1. words' \in 0 .. Words /\ (w - 1) + (n + 1) = 2 * words'
      <3>1. words \in 0 .. Words /\ w + n = 2 * words
        BY <1>3 DEF GatherScatterInv, WriteInv
      <3> QED BY <1>2, <3>1
    <2> QED BY <1>3, <1>4, <1>8, <1>9, <2>1 DEF WriteInv
  <1>11. ShuffleInv' /\ GatherInv'
    BY <1>2, SameShuffle, SameGather DEF GatherScatterInv, joinVars, shuffleVars
  <1> QED BY <1>2, <1>3, <1>10, <1>11, SameFront DEF GatherScatterInv

-----------------------------------------------------------------------------
(* The host starts the next run. *)

LEMMA NextRunStep ==
    ASSUME GatherScatterInv, NextRun
    PROVE  GatherScatterInv'
  <1>1. Done /\ run' \in Runs
    <2>1. run \in 1 .. Len(Edges) /\ run < Len(Edges) /\ run' = run + 1
      BY DEF GatherScatterInv, NextRun, Runs
    <2>2. Len(Edges) \in Nat
      BY GatherScatterAssumption DEF GatherScatterAssumption
    <2> QED BY <2>1, <2>2 DEF Runs, NextRun
  <1>2. /\ mapStream = <<>> /\ edgeBurstStream = <<>> /\ propIn = <<>>
        /\ srcOut \in {<<>>, <<EndOfSources>>} /\ edgeTuplesBuffer = <<>>
        /\ \A p \in PE :
              /\ edgeTuplesArray[p] = <<>> /\ toFilterArray[p] = <<>>
              /\ buildArray[p] = <<>> /\ writeArray[p] = <<>>
              /\ table[p] = EmptyTable
    BY <1>1, NothingAtTheEnd
  <1>3. /\ edgeTuplesArray = [p \in PE |-> edgeTuplesArray[p]]
        /\ toFilterArray = [p \in PE |-> toFilterArray[p]]
        /\ buildArray = [p \in PE |-> buildArray[p]]
        /\ writeArray = [p \in PE |-> writeArray[p]]
        /\ table = [p \in PE |-> table[p]]
    BY DEF GatherScatterInv, ShuffleInv, GatherInv
  <1>4. /\ edgeTuplesArray = [p \in PE |-> <<>>] /\ toFilterArray = [p \in PE |-> <<>>]
        /\ buildArray = [p \in PE |-> <<>>] /\ writeArray = [p \in PE |-> <<>>]
        /\ table = [p \in PE |-> EmptyTable]
    BY <1>2, <1>3, Zenon
  <1>5. Starting'
    BY <1>1, <1>2, <1>4 DEF Starting, NextRun, Unread, NoHalves, NoDest, None, Gathering, Gather,
       EmptyTable, ZeroWord, Lane, Addr, PE, EndOfSources
  <1>6. Starting' => GatherScatterInv'
    BY StartingInv, PTL
  <1> QED BY <1>5, <1>6

LEMMA GatherScatterStepInv ==
    ASSUME GatherScatterInv, GatherScatterStep
    PROVE  GatherScatterInv' /\ UNCHANGED <<run, tmpVertexProp>>
  <1>1. CASE ReadVector
    BY <1>1, ReadVectorStep DEF ReadVector, writeVars
  <1>2. CASE ReadDests
    BY <1>2, ReadDestsStep DEF ReadDests, writeVars
  <1>3. CASE SrcStreamOut
    BY <1>3, SrcStreamOutStep DEF SrcStreamOut, writeVars
  <1>4. CASE Cache
    BY <1>4, CacheStep DEF Cache, writeVars
  <1>5. CASE FirstDests
    BY <1>5, FirstDestsStep DEF FirstDests, writeVars
  <1>6. CASE Join
    BY <1>6, JoinStep DEF Join, writeVars
  <1>7. CASE WriteHalf
    BY <1>7, WriteHalfStep DEF WriteHalf, writeVars
  <1>8. CASE ClearProps
    BY <1>8, ClearPropsStep DEF ClearProps, writeVars
  <1>9. CASE SelfProp
    BY <1>9, SelfPropStep DEF SelfProp, writeVars
  <1>10. CASE ClearTuples
    BY <1>10, ClearTuplesStep DEF ClearTuples, writeVars
  <1>11. ASSUME NEW p \in PE, Shuffle(p)
         PROVE  GatherScatterInv' /\ UNCHANGED <<run, tmpVertexProp>>
    BY <1>11, ShuffleStep DEF Shuffle, writeVars
  <1>12. ASSUME NEW p \in PE, TupleFilter(p)
         PROVE  GatherScatterInv' /\ UNCHANGED <<run, tmpVertexProp>>
    BY <1>12, TupleFilterStep DEF TupleFilter, writeVars
  <1>13. ASSUME NEW p \in PE, DstGather(p)
         PROVE  GatherScatterInv' /\ UNCHANGED <<run, tmpVertexProp>>
    BY <1>13, DstGatherStep DEF DstGather, writeVars
  <1>14. ASSUME NEW p \in PE, DstDump(p)
         PROVE  GatherScatterInv' /\ UNCHANGED <<run, tmpVertexProp>>
    BY <1>14, DstDumpStep DEF DstDump, writeVars
  <1>15. CASE TakeWords
    BY <1>15, TakeWordsStep DEF TakeWords
  <1> QED BY <1>1, <1>2, <1>3, <1>4, <1>5, <1>6, <1>7, <1>8, <1>9, <1>10, <1>11, <1>12,
             <1>13, <1>14, <1>15 DEF GatherScatterStep

-----------------------------------------------------------------------------
(* Between the kernels. *)

LEMMA PathCounts ==
    ASSUME IInv
    PROVE  /\ applied \in Nat /\ written \in Nat
           /\ \A k \in Path!Kernel : /\ Emitted(k) \in Nat /\ Len(gsOut[k]) \in Nat
                                     /\ Merged(k) \in Int /\ Summed(k) \in Int
           /\ \A k \in 1 .. KERNEL_NUM - 1 : Len(merged[k]) \in Nat
  <1>1. Words \in Nat /\ KERNEL_NUM \in Nat \ {0}
    BY Sizes, PathSizes
  <1>2. applied \in Nat /\ written \in Nat
    BY <1>1 DEF IInv, PathInv, ApplyInv
  <1>3. ASSUME NEW k \in Path!Kernel
        PROVE  Emitted(k) \in Nat /\ Len(gsOut[k]) \in Nat /\ Merged(k) \in Int
    <2>1. IsSeq(gsOut[k]) /\ IsSeq(tmpVertexProp)
      BY DEF IInv, PathInv, MergeInv, GatherScatterInv, WriteInv
    <2>2. Len(gsOut[k]) \in Nat /\ Len(tmpVertexProp) \in Nat
      BY <2>1, LenSeq
    <2>3. k # 1 => emitted[k] \in Nat
      BY <1>1, PathSizes DEF IInv, PathInv, MergeInv
    <2>4. Emitted(k) \in Nat
      BY <2>2, <2>3 DEF Emitted
    <2> QED BY <2>2, <2>4 DEF Merged
  <1>4. ASSUME NEW k \in Path!Kernel
        PROVE  Summed(k) \in Int
    <2>1. k # KERNEL_NUM => k + 1 \in Path!Kernel
      BY <1>1, PathSizes
    <2> QED BY <1>2, <1>3, <2>1 DEF Summed
  <1>5. \A k \in 1 .. KERNEL_NUM - 1 : Len(merged[k]) \in Nat
    BY LenSeq DEF IInv, PathInv, MergeInv
  <1> QED BY <1>2, <1>3, <1>4, <1>5

\* A burst that is written has not been taken.
LEMMA SameMerge ==
    ASSUME IInv, merged' = merged, applied' = applied,
           emitted' \in [OtherKernel -> 0 .. 2 * Words],
           gsOut' = [k \in Path!Kernel |-> gsOut'[k]],
           \A k \in Path!Kernel : IsSeq(gsOut'[k]) /\ Merged(k)' = Merged(k)
    PROVE  MergeInv'
  <1>1. KERNEL_NUM \in Nat \ {0}
    BY PathSizes
  <1>2. ASSUME NEW k \in Path!Kernel
        PROVE  Summed(k)' = Summed(k)
    <2>1. k # KERNEL_NUM => k + 1 \in Path!Kernel
      BY <1>1, PathSizes
    <2> QED BY <2>1 DEF Summed
  <1>3. 1 \in Path!Kernel /\ \A k \in 1 .. KERNEL_NUM - 1 : k \in Path!Kernel /\ k + 1 \in Path!Kernel
    BY <1>1, PathSizes
  <1>4. /\ merged = [k \in 1 .. KERNEL_NUM - 1 |-> merged[k]]
        /\ \A k \in 1 .. KERNEL_NUM - 1 : IsSeq(merged[k])
    BY DEF IInv, PathInv, MergeInv
  <1>5. Merged(1)' = Summed(1)'
    BY <1>2, <1>3 DEF IInv, PathInv, MergeInv
  <1>6. \A k \in 1 .. KERNEL_NUM - 1 : Summed(k)' = Summed(k + 1)' + Len(merged'[k])
    BY <1>2, <1>3 DEF IInv, PathInv, MergeInv
  <1>7. \A i, j \in Path!Kernel : i <= j => Summed(j)' <= Summed(i)'
    BY <1>2 DEF IInv, PathInv, MergeInv
  <1> QED BY <1>4, <1>5, <1>6, <1>7 DEF MergeInv, OtherKernel, Path!Kernel

LEMMA SameApply ==
    ASSUME ApplyInv, UNCHANGED <<rawRead, rawStream, applied, written, output_to_forward>>
    PROVE  ApplyInv'
  BY DEF ApplyInv, Path!Memory

LEMMA SamePath ==
    ASSUME IInv, UNCHANGED <<pathVars, tmpVertexProp>>
    PROVE  PathInv'
  <1>1. UNCHANGED <<gsOut, merged, rawRead, rawStream, applied, output_to_forward, written,
                    emitted>>
    BY DEF pathVars, applyVars
  <1>2. \A k \in Path!Kernel : Merged(k)' = Merged(k)
    BY <1>1 DEF Merged, Emitted
  <1> QED BY <1>1, <1>2, SameMerge, SameApply DEF IInv, PathInv, MergeInv

LEMMA EmitStep ==
    ASSUME IInv, NEW k \in Path!Kernel, NEW burst, Path!Emit(k, burst),
           Emitted(k)' = Emitted(k) + 1,
           \A j \in Path!Kernel : j # k => Emitted(j)' = Emitted(j),
           emitted' \in [OtherKernel -> 0 .. 2 * Words]
    PROVE  PathInv'
  <1>1. /\ gsOut' = [gsOut EXCEPT ![k] = Append(gsOut[k], burst)]
        /\ UNCHANGED <<merged, rawRead, rawStream, applied, output_to_forward, written>>
    BY DEF Path!Emit
  <1>2. /\ gsOut = [j \in Path!Kernel |-> gsOut[j]]
        /\ \A j \in Path!Kernel : IsSeq(gsOut[j])
    BY DEF IInv, PathInv, MergeInv
  <1>3. /\ gsOut' = [j \in Path!Kernel |-> gsOut'[j]]
        /\ gsOut'[k] = Append(gsOut[k], burst)
        /\ \A j \in Path!Kernel : j # k => gsOut'[j] = gsOut[j]
    BY <1>1, <1>2
  <1>4. ASSUME NEW j \in Path!Kernel
        PROVE  IsSeq(gsOut'[j]) /\ Merged(j)' = Merged(j)
    <2>1. CASE j = k
      <3>1. PICK n \in Nat : n = Len(gsOut[k]) /\ Len(gsOut'[k]) = n + 1 /\ IsSeq(gsOut'[k])
        BY <1>2, <1>3, SeqAppend, SMTT(30)
      <3>2. PICK e \in Nat : e = Emitted(k) /\ Emitted(k)' = e + 1
        BY PathCounts
      <3>3. Merged(k) = e - n /\ Merged(k)' = (e + 1) - (n + 1)
        BY <3>1, <3>2 DEF Merged
      <3> QED BY <2>1, <3>1, <3>2, <3>3
    <2>2. CASE j # k
      BY <1>2, <1>3, <2>2 DEF Merged
    <2> QED BY <2>1, <2>2
  <1>5. MergeInv'
    BY <1>1, <1>3, <1>4, SameMerge
  <1> QED BY <1>1, <1>5, SameApply DEF IInv, PathInv

LEMMA SameGs ==
    ASSUME GatherScatterInv, UNCHANGED vars
    PROVE  GatherScatterInv' /\ tmpVertexProp' = tmpVertexProp
  <1>1. UNCHANGED <<run, inVars, joinVars, shuffleVars, peVars, writeVars, edgeBurstStream,
                    srcOut, propIn, edgeTuplesBuffer, edgeTuplesArray, toFilterArray,
                    buildArray, writeArray>>
    BY DEF vars
  <1>2. UNCHANGED <<selfProp, filtered, words, tmpVertexProp>>
    BY <1>1 DEF joinVars, shuffleVars, writeVars
  <1> QED BY <1>1, <1>2, SameFront, SameShuffle, SameGather, SameWrite DEF GatherScatterInv

LEMMA GsWritesStep ==
    ASSUME IInv, GsWrites
    PROVE  IInv'
  <1>1. GatherScatterInv' /\ Len(tmpVertexProp') = Len(tmpVertexProp) + 1
    BY WriteBurstStep DEF IInv, GsWrites
  <1>2. Path!Emit(1, Head(writeBuffer)) /\ emitted' = emitted
    BY DEF GsWrites
  <1>3. 1 \in Path!Kernel
    BY PathSizes
  <1>4. Emitted(1)' = Emitted(1) + 1 /\ \A j \in Path!Kernel : j # 1 => Emitted(j)' = Emitted(j)
    BY <1>1, <1>2 DEF Emitted
  <1>5. emitted' \in [OtherKernel -> 0 .. 2 * Words]
    BY <1>2 DEF IInv, PathInv, MergeInv
  <1>6. PathInv'
    BY <1>2, <1>3, <1>4, <1>5, EmitStep
  <1> QED BY <1>1, <1>6 DEF IInv

LEMMA OtherGsStep ==
    ASSUME IInv, NEW k \in OtherKernel, OtherGs(k)
    PROVE  IInv'
  <1>1. GatherScatterInv' /\ tmpVertexProp' = tmpVertexProp
    BY SameGs DEF IInv, OtherGs
  <1>2. /\ emitted[k] < 2 * Words /\ emitted' = [emitted EXCEPT ![k] = emitted[k] + 1]
        /\ Path!Emit(k, OtherBursts[k][run][emitted[k] + 1])
    <2>1. run \in Runs
      BY DEF IInv, GatherScatterInv
    <2> QED BY <2>1, PipelineAssumption DEF OtherGs
  <1>3. k \in Path!Kernel /\ k # 1
    BY PathSizes
  <1>4. emitted \in [OtherKernel -> 0 .. 2 * Words] /\ Words \in Nat
    BY Sizes DEF IInv, PathInv, MergeInv
  <1>5. /\ emitted' \in [OtherKernel -> 0 .. 2 * Words]
        /\ emitted'[k] = emitted[k] + 1
        /\ \A j \in OtherKernel : j # k => emitted'[j] = emitted[j]
    BY <1>2, <1>4
  <1>6. \A j \in Path!Kernel : j # 1 => j \in OtherKernel
    BY PathSizes
  <1>7. Emitted(k)' = Emitted(k) + 1 /\ \A j \in Path!Kernel : j # k => Emitted(j)' = Emitted(j)
    BY <1>1, <1>3, <1>5, <1>6 DEF Emitted
  <1>8. PathInv'
    BY <1>2, <1>3, <1>5, <1>7, EmitStep
  <1> QED BY <1>1, <1>8 DEF IInv

(* A streamMerge takes a burst of its inputs: the sum of the pipelines up   *)
(* to its second input has been taken once more, and of no others.          *)
LEMMA StreamMergeStep ==
    ASSUME IInv, NEW k \in 1 .. KERNEL_NUM - 1, Path!StreamMerge(k),
           UNCHANGED <<emitted, tmpVertexProp>>
    PROVE  PathInv'
  <1> DEFINE N == KERNEL_NUM
             K == Path!Kernel
  <1>1. N \in Nat \ {0} /\ K = 1 .. N
    BY PathSizes
  <1>2. PICK res : merged' = [j \in DOMAIN merged |->
                        CASE j = k -> Append(merged[j], res)
                          [] j = k - 1 -> Tail(merged[j])
                          [] OTHER -> merged[j]]
    BY DEF Path!StreamMerge
  <1>3. /\ Path!InputA(k) # <<>> /\ gsOut[k + 1] # <<>>
        /\ gsOut' = [j \in K |-> IF j = k + 1 \/ (k = 1 /\ j = 1) THEN Tail(gsOut[j])
                                 ELSE gsOut[j]]
        /\ UNCHANGED <<rawRead, rawStream, applied, output_to_forward, written>>
    BY DEF Path!StreamMerge
  <1> HIDE DEF K
  <1>4. /\ gsOut = [j \in K |-> gsOut[j]] /\ \A j \in K : IsSeq(gsOut[j])
        /\ merged = [j \in 1 .. N - 1 |-> merged[j]]
        /\ \A j \in 1 .. N - 1 : IsSeq(merged[j])
    BY DEF IInv, PathInv, MergeInv, K
  <1>5. /\ merged' = [j \in 1 .. N - 1 |-> merged'[j]]
        /\ merged'[k] = Append(merged[k], res)
        /\ k # 1 => merged'[k - 1] = Tail(merged[k - 1])
        /\ \A j \in 1 .. N - 1 : j # k /\ j # k - 1 => merged'[j] = merged[j]
    <2>1. k # 1 => k - 1 \in 1 .. N - 1
      BY <1>1
    <2>2. DOMAIN merged = 1 .. N - 1
      BY <1>4
    <2> QED BY <1>1, <1>2, <2>1, <2>2
  <1>6. k # 1 => merged[k - 1] # <<>>
    BY <1>3 DEF Path!InputA
  <1>7. k = 1 => gsOut[1] # <<>>
    BY <1>3 DEF Path!InputA
  <1>8. ASSUME NEW j \in K
        PROVE  /\ IsSeq(gsOut'[j])
               /\ Merged(j)' = IF j = k + 1 \/ (k = 1 /\ j = 1) THEN Merged(j) + 1 ELSE Merged(j)
    <2>1. Emitted(j)' = Emitted(j) /\ Emitted(j) \in Nat
      BY PathCounts DEF Emitted, K
    <2>2. CASE j = k + 1 \/ (k = 1 /\ j = 1)
      <3>1. gsOut'[j] = Tail(gsOut[j]) /\ gsOut[j] # <<>> /\ IsSeq(gsOut[j])
        BY <1>3, <1>4, <1>7, <2>2
      <3>2. PICK n \in Nat \ {0} : n = Len(gsOut[j]) /\ Len(gsOut'[j]) = n - 1 /\ IsSeq(gsOut'[j])
        BY <3>1, SeqTail
      <3>3. Merged(j) = Emitted(j) - n /\ Merged(j)' = Emitted(j) - (n - 1)
        BY <2>1, <3>2 DEF Merged
      <3>4. Emitted(j) - (n - 1) = (Emitted(j) - n) + 1
        BY <2>1
      <3> QED BY <2>2, <3>2, <3>3, <3>4
    <2>3. CASE ~(j = k + 1 \/ (k = 1 /\ j = 1))
      <3>1. gsOut'[j] = gsOut[j]
        BY <1>3, <2>3
      <3> QED BY <1>4, <2>1, <2>3, <3>1 DEF Merged
    <2> QED BY <2>2, <2>3
  <1>9. ASSUME NEW j \in K
        PROVE  Summed(j)' = IF j = k THEN Summed(j) + 1 ELSE Summed(j)
    <2>1. CASE j = N
      BY <1>1, <1>3, <2>1 DEF Summed
    <2>2. CASE j # N
      <3>1. j + 1 \in K /\ j + 1 # 1 /\ (j + 1 = k + 1 <=> j = k)
        BY <1>1, <2>2
      <3>2. Summed(j) = Merged(j + 1) /\ Summed(j)' = Merged(j + 1)'
        BY <2>2 DEF Summed
      <3>3. Merged(j + 1)' = IF j = k THEN Merged(j + 1) + 1 ELSE Merged(j + 1)
        BY <1>8, <3>1
      <3> QED BY <3>2, <3>3
    <2> QED BY <2>1, <2>2
  <1>10. \A j \in K : Summed(j) \in Int /\ Merged(j) \in Int
    BY PathCounts DEF K
  <1>11. 1 \in K /\ k \in K /\ N # 1
    BY <1>1
  <1>12. Merged(1)' = Summed(1)'
    <2>1. Merged(1) = Summed(1)
      BY DEF IInv, PathInv, MergeInv
    <2>2. 1 # k + 1
      OBVIOUS
    <2>3. Merged(1)' = IF k = 1 THEN Merged(1) + 1 ELSE Merged(1)
      BY <1>8, <1>11, <2>2
    <2>4. Summed(1)' = IF 1 = k THEN Summed(1) + 1 ELSE Summed(1)
      BY <1>9, <1>11
    <2> QED BY <2>1, <2>3, <2>4
  <1>13. ASSUME NEW j \in 1 .. N - 1
         PROVE  IsSeq(merged'[j]) /\ Summed(j)' = Summed(j + 1)' + Len(merged'[j])
    <2>1. /\ j \in K /\ j + 1 \in K /\ Summed(j) \in Int /\ Summed(j + 1) \in Int
      BY <1>1, <1>10
    <2>2. IsSeq(merged[j]) /\ Summed(j) = Summed(j + 1) + Len(merged[j])
      BY DEF IInv, PathInv, MergeInv
    <2>3. CASE j = k
      <3>1. PICK n \in Nat : n = Len(merged[j]) /\ Len(merged'[j]) = n + 1 /\ IsSeq(merged'[j])
        <4>1. merged'[j] = Append(merged[j], res)
          BY <1>5, <2>3
        <4>2. IsSeq(merged[j])
          BY <2>2
        <4> QED BY <4>1, <4>2, SeqAppend
      <3>2. Summed(j)' = Summed(j) + 1 /\ Summed(j + 1)' = Summed(j + 1)
        BY <1>9, <2>1, <2>3
      <3>3. Summed(j) + 1 = Summed(j + 1) + (n + 1)
        BY <2>1, <2>2, <3>1
      <3> QED BY <3>1, <3>2, <3>3
    <2>4. CASE j = k - 1
      <3>1. merged'[j] = Tail(merged[j]) /\ merged[j] # <<>>
        BY <1>5, <1>6, <2>4
      <3>2. PICK n \in Nat \ {0} : n = Len(merged[j]) /\ Len(merged'[j]) = n - 1 /\ IsSeq(merged'[j])
        BY <2>2, <3>1, SeqTail
      <3>3. Summed(j)' = Summed(j) /\ Summed(j + 1)' = Summed(j + 1) + 1
        BY <1>9, <2>1, <2>4
      <3>4. Summed(j) = (Summed(j + 1) + 1) + (n - 1)
        BY <2>1, <2>2, <3>2, SMTT(30)
      <3> QED BY <3>2, <3>3, <3>4
    <2>5. CASE j # k /\ j # k - 1
      <3>1. merged'[j] = merged[j] /\ j + 1 # k
        BY <1>5, <2>5
      <3>2. Summed(j)' = Summed(j) /\ Summed(j + 1)' = Summed(j + 1)
        BY <1>9, <2>1, <2>5, <3>1
      <3> QED BY <2>2, <3>1, <3>2
    <2> QED BY <2>3, <2>4, <2>5
  <1>14. ASSUME NEW i \in K, NEW j \in K, i <= j
         PROVE  Summed(j)' <= Summed(i)'
    <2>1. Summed(j) <= Summed(i) /\ Summed(j) \in Int /\ Summed(i) \in Int
      BY <1>10, <1>14 DEF IInv, PathInv, MergeInv, K
    <2>2. CASE j # k \/ i = k
      <3>1. Summed(i)' = Summed(i) \/ Summed(i)' = Summed(i) + 1
        BY <1>9
      <3>2. j = k => i = j
        BY <2>2
      <3>3. j # k => Summed(j)' = Summed(j)
        BY <1>9
      <3> QED BY <2>1, <3>1, <3>2, <3>3
    <2>3. CASE j = k /\ i # k
      <3>1. k - 1 \in 1 .. N - 1 /\ k - 1 \in K /\ i <= k - 1 /\ k # 1 /\ (k - 1) + 1 = k
        BY <1>1, <1>14, <2>3
      <3>2. Summed(k - 1) <= Summed(i)
        BY <3>1 DEF IInv, PathInv, MergeInv, K
      <3>3. PICK n \in Nat \ {0} : n = Len(merged[k - 1])
        BY <1>4, <1>6, <3>1, SeqTail
      <3>4. Summed(k - 1) = Summed(k) + n
        BY <3>1, <3>3 DEF IInv, PathInv, MergeInv
      <3>5. Summed(k) + 1 <= Summed(i)
        BY <1>10, <1>11, <2>1, <3>2, <3>4
      <3>6. Summed(j)' = Summed(k) + 1 /\ Summed(i)' = Summed(i)
        BY <1>9, <2>3
      <3> QED BY <3>5, <3>6
    <2> QED BY <2>2, <2>3
  <1>15. gsOut' = [j \in K |-> gsOut'[j]]
    BY <1>3
  <1>16. emitted' \in [OtherKernel -> 0 .. 2 * Words]
    BY DEF IInv, PathInv, MergeInv
  <1>17. MergeInv'
    BY <1>5, <1>8, <1>12, <1>13, <1>14, <1>15, <1>16 DEF MergeInv, K, OtherKernel, Path!Kernel
  <1> QED BY <1>3, <1>17, SameApply DEF IInv, PathInv

(* streamApply takes a burst of the sum of all pipelines.                   *)
LEMMA ApplyFunctionStep ==
    ASSUME IInv, Path!ApplyFunction, UNCHANGED <<emitted, tmpVertexProp>>
    PROVE  PathInv'
  <1> DEFINE N == KERNEL_NUM
             K == Path!Kernel
  <1>1. N \in Nat \ {0} /\ K = 1 .. N /\ Words \in Nat
    BY PathSizes, Sizes
  <1> HIDE DEF K
  <1>2. PICK res : output_to_forward' = Append(output_to_forward, res)
    BY DEF Path!ApplyFunction
  <1>3. /\ applied < 2 * Words /\ applied' = applied + 1
        /\ Path!input_from_merge # <<>>
        /\ \A m \in Path!Memory : rawStream[m] # <<>>
        /\ rawStream' = [m \in Path!Memory |-> Tail(rawStream[m])]
        /\ rawRead' = rawRead /\ written' = written
    BY PathSizes DEF Path!ApplyFunction
  <1>4. /\ gsOut = [j \in K |-> gsOut[j]] /\ \A j \in K : IsSeq(gsOut[j])
        /\ merged = [j \in 1 .. N - 1 |-> merged[j]]
        /\ \A j \in 1 .. N - 1 : IsSeq(merged[j])
        /\ emitted' \in [OtherKernel -> 0 .. 2 * Words]
    BY DEF IInv, PathInv, MergeInv, K
  <1>5. \A j \in K : Summed(j) \in Int /\ Merged(j) \in Int
    BY PathCounts DEF K
  <1>6. MergeInv'
    <2>1. CASE N = 1
      <3>1. K = {1} /\ 1 \in K
        BY <1>1, <2>1
      <3>2. gsOut' = [gsOut EXCEPT ![1] = Tail(gsOut[1])] /\ merged' = merged /\ gsOut[1] # <<>>
        BY <1>3, <2>1 DEF Path!ApplyFunction, Path!input_from_merge
      <3>3. gsOut'[1] = Tail(gsOut[1]) /\ gsOut' = [j \in K |-> gsOut'[j]]
        BY <1>4, <3>1, <3>2
      <3>4. IsSeq(gsOut[1])
        BY <1>4, <3>1
      <3>5. PICK n \in Nat \ {0} : n = Len(gsOut[1]) /\ Len(gsOut'[1]) = n - 1 /\ IsSeq(gsOut'[1])
        BY <3>2, <3>3, <3>4, SeqTail, ZenonT(40)
      <3>6. PICK e \in Nat : e = Emitted(1) /\ e = Emitted(1)'
        BY <3>1, PathCounts DEF Emitted, K
      <3>7. Merged(1) = e - n /\ Merged(1)' = e - (n - 1)
        BY <3>5, <3>6 DEF Merged
      <3>8. Summed(1) = applied /\ Summed(1)' = applied + 1 /\ Merged(1) = Summed(1)
        BY <1>3, <2>1 DEF Summed, IInv, PathInv, MergeInv
      <3>9. Merged(1)' = Summed(1)' /\ Summed(1)' <= Summed(1)'
        BY <1>5, <3>1, <3>7, <3>8
      <3>10. 1 .. N - 1 = {}
        BY <2>1
      <3> QED BY <1>4, <3>1, <3>2, <3>3, <3>5, <3>9, <3>10
              DEF MergeInv, K, OtherKernel, Path!Kernel
    <2>2. CASE N # 1
      <3>1. N - 1 \in 1 .. N - 1 /\ N - 1 \in K /\ N \in K /\ 1 \in K /\ (N - 1) + 1 = N
        BY <1>1, <2>2
      <3>2. /\ merged' = [merged EXCEPT ![N - 1] = Tail(merged[N - 1])] /\ gsOut' = gsOut
            /\ merged[N - 1] # <<>>
        BY <1>3, <2>2 DEF Path!ApplyFunction, Path!input_from_merge
      <3>3. /\ merged'[N - 1] = Tail(merged[N - 1])
            /\ merged' = [j \in 1 .. N - 1 |-> merged'[j]]
            /\ \A j \in 1 .. N - 1 : j # N - 1 => merged'[j] = merged[j]
        BY <1>4, <3>1, <3>2
      <3>4. \A j \in K : Merged(j)' = Merged(j)
        BY <3>2 DEF Merged, Emitted
      <3>5. ASSUME NEW j \in K
            PROVE  Summed(j)' = IF j = N THEN Summed(j) + 1 ELSE Summed(j)
        <4>1. CASE j = N
          BY <1>3, <4>1 DEF Summed
        <4>2. CASE j # N
          <5>1. j + 1 \in K
            BY <1>1, <4>2
          <5> QED BY <3>4, <4>2, <5>1 DEF Summed
        <4> QED BY <4>1, <4>2
      <3>6. Merged(1)' = Summed(1)'
        BY <2>2, <3>1, <3>4, <3>5 DEF IInv, PathInv, MergeInv
      <3>7. ASSUME NEW j \in 1 .. N - 1
            PROVE  IsSeq(merged'[j]) /\ Summed(j)' = Summed(j + 1)' + Len(merged'[j])
        <4>1. /\ j \in K /\ j + 1 \in K /\ Summed(j) \in Int /\ Summed(j + 1) \in Int /\ j # N
          BY <1>1, <1>5
        <4>2. IsSeq(merged[j]) /\ Summed(j) = Summed(j + 1) + Len(merged[j])
          BY DEF IInv, PathInv, MergeInv
        <4>3. CASE j = N - 1
          <5>1. merged'[j] = Tail(merged[j]) /\ merged[j] # <<>> /\ j + 1 = N
            BY <3>1, <3>2, <3>3, <4>3
          <5>2. PICK n \in Nat \ {0} : n = Len(merged[j]) /\ Len(merged'[j]) = n - 1
                                       /\ IsSeq(merged'[j])
            BY <4>2, <5>1, SeqTail
          <5>3. Summed(j)' = Summed(j) /\ Summed(j + 1)' = Summed(j + 1) + 1
            BY <3>5, <4>1, <5>1
          <5>4. Summed(j) = (Summed(j + 1) + 1) + (n - 1)
            BY <4>1, <4>2, <5>2
          <5> QED BY <5>2, <5>3, <5>4
        <4>4. CASE j # N - 1
          <5>1. j + 1 # N /\ merged'[j] = merged[j]
            BY <1>1, <3>3, <4>4
          <5>2. Summed(j)' = Summed(j) /\ Summed(j + 1)' = Summed(j + 1)
            BY <3>5, <4>1, <5>1
          <5> QED BY <4>2, <5>1, <5>2
        <4> QED BY <4>3, <4>4
      <3>8. ASSUME NEW i \in K, NEW j \in K, i <= j
            PROVE  Summed(j)' <= Summed(i)'
        <4>1. Summed(j) <= Summed(i) /\ Summed(j) \in Int /\ Summed(i) \in Int
          BY <1>5, <3>8 DEF IInv, PathInv, MergeInv, K
        <4>2. CASE j # N \/ i = N
          <5>1. Summed(i)' = Summed(i) \/ Summed(i)' = Summed(i) + 1
            BY <3>5
          <5>2. j = N => i = j
            BY <4>2
          <5>3. j # N => Summed(j)' = Summed(j)
            BY <3>5
          <5> QED BY <4>1, <5>1, <5>2, <5>3
        <4>3. CASE j = N /\ i # N
          <5>1. i <= N - 1
            BY <1>1, <3>8, <4>3
          <5>2. Summed(N - 1) <= Summed(i)
            BY <3>1, <5>1 DEF IInv, PathInv, MergeInv, K
          <5>3. PICK n \in Nat \ {0} : n = Len(merged[N - 1])
            BY <1>4, <3>1, <3>2, SeqTail
          <5>4. Summed(N - 1) = Summed(N) + n
            BY <3>1, <5>3 DEF IInv, PathInv, MergeInv
          <5>5. Summed(N) + 1 <= Summed(i)
            BY <1>5, <3>1, <4>1, <5>2, <5>4
          <5>6. Summed(j)' = Summed(N) + 1 /\ Summed(i)' = Summed(i)
            BY <3>5, <4>3
          <5> QED BY <5>5, <5>6
        <4> QED BY <4>2, <4>3
      <3> QED BY <1>4, <3>2, <3>3, <3>6, <3>7, <3>8
              DEF MergeInv, K, OtherKernel, Path!Kernel
    <2> QED BY <2>1, <2>2
  <1>7. ApplyInv'
    <2>1. /\ rawRead \in [Path!Memory -> 0 .. 2 * Words]
          /\ applied \in 0 .. 2 * Words /\ written \in 0 .. 2 * Words
          /\ IsSeq(output_to_forward) /\ applied = written + Len(output_to_forward)
      BY DEF IInv, PathInv, ApplyInv
    <2>2. ASSUME NEW m \in Path!Memory
          PROVE  IsSeq(rawStream'[m]) /\ rawRead[m] = (applied + 1) + Len(rawStream'[m])
      <3>1. /\ IsSeq(rawStream[m]) /\ rawRead[m] = applied + Len(rawStream[m])
            /\ rawStream[m] # <<>> /\ rawStream'[m] = Tail(rawStream[m])
        BY <1>3 DEF IInv, PathInv, ApplyInv
      <3>2. PICK n \in Nat \ {0} : n = Len(rawStream[m]) /\ Len(rawStream'[m]) = n - 1
                                   /\ IsSeq(rawStream'[m])
        BY <3>1, SeqTail
      <3>3. PICK a \in Nat : a = applied
        BY <1>1, <2>1
      <3>4. a + n = (a + 1) + (n - 1)
        OBVIOUS
      <3> QED BY <3>1, <3>2, <3>3, <3>4
    <2>3. PICK n \in Nat : /\ n = Len(output_to_forward) /\ Len(output_to_forward') = n + 1
                           /\ IsSeq(output_to_forward')
      BY <1>2, <2>1, SeqAppend
    <2>4. applied + 1 = written + (n + 1) /\ applied + 1 \in 0 .. 2 * Words
      BY <1>1, <1>3, <2>1, <2>3
    <2>5. rawStream' = [m \in Path!Memory |-> rawStream'[m]]
      BY <1>3
    <2> QED BY <1>3, <2>1, <2>2, <2>3, <2>4, <2>5 DEF ApplyInv, Path!Memory
  <1> QED BY <1>6, <1>7 DEF PathInv

LEMMA ReadRawStep ==
    ASSUME IInv, NEW m \in Path!Memory, Path!ReadRaw(m, run), UNCHANGED <<emitted, tmpVertexProp>>
    PROVE  PathInv'
  <1>1. Words \in Nat /\ rawRead[m] < 2 * Words /\ rawRead' = [rawRead EXCEPT ![m] = rawRead[m] + 1]
    BY PathSizes, Sizes DEF Path!ReadRaw
  <1>2. PICK x : rawStream' = [rawStream EXCEPT ![m] = Append(rawStream[m], x)]
    BY DEF Path!ReadRaw
  <1>3. UNCHANGED <<gsOut, merged, applied, output_to_forward, written>>
    BY DEF Path!ReadRaw
  <1>4. /\ rawRead \in [Path!Memory -> 0 .. 2 * Words]
        /\ rawStream = [i \in Path!Memory |-> rawStream[i]]
        /\ applied \in 0 .. 2 * Words
        /\ \A i \in Path!Memory : IsSeq(rawStream[i]) /\ rawRead[i] = applied + Len(rawStream[i])
    BY DEF IInv, PathInv, ApplyInv
  <1>5. /\ rawRead' \in [Path!Memory -> 0 .. 2 * Words] /\ rawRead'[m] = rawRead[m] + 1
        /\ \A i \in Path!Memory : i # m => rawRead'[i] = rawRead[i]
    <2>1. rawRead[m] + 1 \in 0 .. 2 * Words
      BY <1>1, <1>4
    <2> QED BY <1>1, <1>4, <2>1
  <1>6. /\ rawStream' = [i \in Path!Memory |-> rawStream'[i]]
        /\ rawStream'[m] = Append(rawStream[m], x)
        /\ \A i \in Path!Memory : i # m => rawStream'[i] = rawStream[i]
    BY <1>2, <1>4
  <1>7. ASSUME NEW i \in Path!Memory
        PROVE  IsSeq(rawStream'[i]) /\ rawRead'[i] = applied + Len(rawStream'[i])
    <2>1. CASE i = m
      <3>1. PICK n \in Nat : n = Len(rawStream[m]) /\ Len(rawStream'[m]) = n + 1 /\ IsSeq(rawStream'[m])
        <4>1. IsSeq(rawStream[m]) /\ rawStream'[m] = Append(rawStream[m], x)
          BY <1>4, <1>6
        <4> QED BY <4>1, SeqAppend
      <3>2. PICK a \in Nat : a = applied /\ rawRead[m] = a + n
        <4>1. applied \in Nat
          BY <1>1, <1>4
        <4>2. rawRead[m] = applied + n
          BY <1>4, <3>1
        <4> QED BY <4>1, <4>2
      <3>3. (a + n) + 1 = a + (n + 1)
        OBVIOUS
      <3> QED BY <1>5, <2>1, <3>1, <3>2, <3>3
    <2>2. CASE i # m
      BY <1>4, <1>5, <1>6, <2>2
    <2> QED BY <2>1, <2>2
  <1>8. ApplyInv'
    BY <1>3, <1>5, <1>6, <1>7 DEF IInv, PathInv, ApplyInv, Path!Memory
  <1>9. MergeInv'
    <2>1. \A k \in Path!Kernel : Merged(k)' = Merged(k)
      BY <1>3 DEF Merged, Emitted
    <2> QED BY <1>3, <2>1, SameMerge DEF IInv, PathInv, MergeInv
  <1> QED BY <1>8, <1>9 DEF PathInv

LEMMA StreamWriteStep ==
    ASSUME IInv, Path!StreamWrite(run), UNCHANGED <<emitted, tmpVertexProp>>
    PROVE  PathInv'
  <1>1. /\ Words \in Nat /\ written < 2 * Words /\ written' = written + 1
        /\ output_to_forward # <<>> /\ output_to_forward' = Tail(output_to_forward)
    BY PathSizes, Sizes DEF Path!StreamWrite
  <1>2. UNCHANGED <<gsOut, merged, rawRead, rawStream, applied>>
    BY DEF Path!StreamWrite
  <1>3. /\ written \in 0 .. 2 * Words /\ applied \in 0 .. 2 * Words
        /\ IsSeq(output_to_forward) /\ applied = written + Len(output_to_forward)
    BY DEF IInv, PathInv, ApplyInv
  <1>4. PICK n \in Nat \ {0} : /\ n = Len(output_to_forward) /\ Len(output_to_forward') = n - 1
                               /\ IsSeq(output_to_forward')
    BY <1>1, <1>3, SeqTail
  <1>5. applied = (written + 1) + (n - 1) /\ written + 1 \in 0 .. 2 * Words
    BY <1>1, <1>3, <1>4
  <1>6. ApplyInv'
    BY <1>1, <1>2, <1>3, <1>4, <1>5 DEF IInv, PathInv, ApplyInv, Path!Memory
  <1>7. MergeInv'
    <2>1. \A k \in Path!Kernel : Merged(k)' = Merged(k)
      BY <1>2 DEF Merged, Emitted
    <2> QED BY <1>2, <2>1, SameMerge DEF IInv, PathInv, MergeInv
  <1> QED BY <1>6, <1>7 DEF PathInv

LEMMA NextPartitionStep ==
    ASSUME IInv, NextPartition
    PROVE  IInv'
  <1>1. GatherScatterInv'
    BY NextRunStep DEF IInv, NextPartition
  <1>2. /\ \A k \in Path!Kernel : gsOut[k] = <<>>
        /\ \A k \in 1 .. KERNEL_NUM - 1 : merged[k] = <<>>
        /\ \A m \in Path!Memory : rawStream[m] = <<>>
        /\ output_to_forward = <<>>
    BY PathAtTheEnd DEF NextPartition
  <1>3. /\ gsOut = [k \in Path!Kernel |-> gsOut[k]]
        /\ merged = [k \in 1 .. KERNEL_NUM - 1 |-> merged[k]]
        /\ rawStream = [m \in Path!Memory |-> rawStream[m]]
    BY DEF IInv, PathInv, MergeInv, ApplyInv
  <1>4. /\ gsOut = [k \in Path!Kernel |-> <<>>]
        /\ merged = [k \in 1 .. KERNEL_NUM - 1 |-> <<>>]
        /\ rawStream = [m \in Path!Memory |-> <<>>]
    BY <1>2, <1>3, Zenon
  <1>5. PathStarting'
    BY <1>2, <1>4 DEF PathStarting, NextPartition, NextRun, Path!Restart, Path!ReadNothing,
       NothingEmitted, OtherKernel, Path!Kernel, Path!Memory
  <1>6. PathStarting' => PathInv'
    BY PathStartingInv, PTL
  <1> QED BY <1>1, <1>5, <1>6 DEF IInv

LEMMA PathStep ==
    ASSUME IInv, Path!Step(run), UNCHANGED <<vars, emitted>>
    PROVE  IInv'
  <1>1. GatherScatterInv' /\ UNCHANGED <<emitted, tmpVertexProp>>
    BY SameGs DEF IInv
  <1>2. DOMAIN merged = 1 .. KERNEL_NUM - 1
    <2>1. merged = [k \in 1 .. KERNEL_NUM - 1 |-> merged[k]]
      BY DEF IInv, PathInv, MergeInv
    <2> QED BY <2>1
  <1>3. PathInv'
    BY <1>1, <1>2, StreamMergeStep, ReadRawStep, ApplyFunctionStep, StreamWriteStep DEF Path!Step
  <1> QED BY <1>1, <1>3 DEF IInv

-----------------------------------------------------------------------------
(* The theorems. *)

(* Every step of the kernels of a partition, and of the host that starts    *)
(* the next ones, keeps the invariant: each process has read and written as *)
(* much as the tokens in its streams say, up to the flagged one.            *)
THEOREM PipelineInvariance == PipelineSpec => []IInv
  <1>1. PipelineInit => IInv
    BY PipelineInitInv
  <1>2. IInv /\ [PipelineNext]_allVars => IInv'
    <2> SUFFICES ASSUME IInv, [PipelineNext]_allVars
                 PROVE  IInv'
      OBVIOUS
    <2>1. CASE GatherScatterStep /\ UNCHANGED pathVars
      <3>1. GatherScatterInv' /\ UNCHANGED <<pathVars, tmpVertexProp>>
        BY <2>1, GatherScatterStepInv DEF IInv
      <3> QED BY <3>1, SamePath DEF IInv
    <2>2. CASE GsWrites
      BY <2>2, GsWritesStep
    <2>3. CASE \E k \in OtherKernel : OtherGs(k)
      BY <2>3, OtherGsStep
    <2>4. CASE Path!Step(run) /\ UNCHANGED <<vars, emitted>>
      BY <2>4, PathStep
    <2>5. CASE NextPartition
      BY <2>5, NextPartitionStep
    <2>6. CASE UNCHANGED allVars
      <3>1. UNCHANGED vars /\ UNCHANGED pathVars
        BY <2>6 DEF allVars
      <3>2. GatherScatterInv' /\ UNCHANGED <<pathVars, tmpVertexProp>>
        BY <3>1, SameGs DEF IInv
      <3> QED BY <3>2, SamePath DEF IInv
    <2> QED BY <2>1, <2>2, <2>3, <2>4, <2>5, <2>6 DEF PipelineNext
  <1> QED BY <1>1, <1>2, PTL DEF PipelineSpec

(* When the host sees a run of gs end, which it learns from the end of each *)
(* process and not from a count, no stream of it, no element and no more of *)
(* the cache than the end of the sources holds anything the next run could  *)
(* take for its own: whatever the depths of the streams, the number of      *)
(* elements and the edges of the runs are.                                  *)
THEOREM NothingIsLeft == PipelineSpec => []NothingLeft
  <1>1. IInv => NothingLeft
    BY NothingAtTheEnd DEF IInv, NothingLeft
  <1> QED BY <1>1, PipelineInvariance, PTL

(* When the runs of all pipelines, streamApply and streamWrite have ended,  *)
(* no burst is between them, in the chain of streamMerges that is never     *)
(* restarted: the place of a burst in a stream tells its vertex in the next *)
(* partition, too.                                                          *)
THEOREM PathIsLeftEmpty == PipelineSpec => []PathIsEmpty
  <1>1. ASSUME IInv
        PROVE  PathIsEmpty
    <2> SUFFICES ASSUME PartitionDone
                 PROVE  /\ \A k \in DOMAIN gsOut : gsOut[k] = <<>>
                        /\ \A k \in DOMAIN merged : merged[k] = <<>>
                        /\ \A m \in DOMAIN rawStream : rawStream[m] = <<>>
                        /\ output_to_forward = <<>>
      BY DEF PathIsEmpty
    <2>1. /\ gsOut = [k \in Path!Kernel |-> gsOut[k]]
          /\ merged = [k \in 1 .. KERNEL_NUM - 1 |-> merged[k]]
          /\ rawStream = [m \in Path!Memory |-> rawStream[m]]
      BY <1>1 DEF IInv, PathInv, MergeInv, ApplyInv
    <2>2. /\ DOMAIN gsOut = Path!Kernel /\ DOMAIN merged = 1 .. KERNEL_NUM - 1
          /\ DOMAIN rawStream = Path!Memory
      BY <2>1
    <2> QED BY <1>1, <2>2, PathAtTheEnd
  <1> QED BY <1>1, PipelineInvariance, PTL
=============================================================================
