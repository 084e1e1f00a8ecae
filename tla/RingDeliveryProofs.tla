------------------------- MODULE RingDeliveryProofs -------------------------
(***************************************************************************)
(* What the exchange delivers.  When writeProp has counted its packets,    *)
(* all of them are in its array and nothing is left in the ring: no packet *)
(* comes to a node twice.  Without losses the exchange keeps the promise   *)
(* of Broadcast, which is all that the superstep knows of it; and losses   *)
(* or not, it handles its packets by the credit rules of CreditRing.       *)
(***************************************************************************)
EXTENDS RingRefinement, RingExchangeProofs

-----------------------------------------------------------------------------
(* What the host may rely on when writeProp has returned. *)

\* There are as many packets as writeProp counts.
LEMMA StartsCount == IsFiniteSet(Starts) /\ Cardinality(Starts) <= packet_num
  <1>1. PICK P \in Nat : P = packets_of(BlockNum)
    BY PacketsOf, ConstantTypes
  <1>2. total_p_num \in Nat \ {0} /\ BlockNum \in Nat \ {0} /\ Payload \in Nat \ {0}
    BY ConstantTypes
  <1>3. /\ IsFiniteSet(Partition) /\ Cardinality(Partition) = total_p_num
        /\ IsFiniteSet(0 .. P - 1) /\ Cardinality(0 .. P - 1) = P
    <2>1. 0 \in Int /\ total_p_num - 1 \in Int /\ P - 1 \in Int
      BY <1>2
    <2>2. /\ IsFiniteSet(0 .. total_p_num - 1)
          /\ Cardinality(0 .. total_p_num - 1)
                 = IF 0 > total_p_num - 1 THEN 0 ELSE total_p_num - 1 - 0 + 1
      BY <2>1, FS_Interval
    <2>3. /\ IsFiniteSet(0 .. P - 1)
          /\ Cardinality(0 .. P - 1) = IF 0 > P - 1 THEN 0 ELSE P - 1 - 0 + 1
      BY <2>1, FS_Interval
    <2> QED BY <1>2, <2>2, <2>3 DEF Partition
  <1>4. /\ IsFiniteSet(Partition \X (0 .. P - 1))
        /\ Cardinality(Partition \X (0 .. P - 1)) = total_p_num * P
    BY <1>3, FS_Product
  <1> DEFINE h == [a \in Starts |-> <<a \div BlockNum, (a % BlockNum) \div Payload>>]
  <1>5. ASSUME NEW a \in Starts
        PROVE  \E p \in Partition : \E k \in 0 .. P - 1 :
                   h[a] = <<p, k>> /\ a = p * BlockNum + k * Payload
    <2>1. a \in Block /\ Slot(a) = 0
      BY DEF Starts
    <2>2. PICK p \in Partition, k \in Nat, r \in 0 .. Payload - 1, b \in 0 .. BlockNum - 1 :
              /\ b = k * Payload + r /\ k * Payload \in 0 .. BlockNum - 1
              /\ a = p * BlockNum + b
              /\ p = a \div BlockNum /\ b = a % BlockNum /\ k = b \div Payload
      BY <2>1, BlockParts
    <2>3. Slot(p * BlockNum + b) = r
      <3>1. b = k * Payload + r
        BY <2>2
      <3> QED BY ONLY <3>1, SlotOfBlock, p \in Partition, b \in 0 .. BlockNum - 1, k \in Nat,
                 r \in 0 .. Payload - 1
    <2>4. r = 0 /\ b = k * Payload
      BY <1>2, <2>1, <2>2, <2>3
    <2>5. k \in 0 .. P - 1
      <3>1. k * Payload < BlockNum
        BY <1>2, <2>2
      <3>2. k < P
        BY <1>1, <3>1, PacketsOf
      <3> QED BY <3>2
    <2>6. h[a] = <<p, k>>
      BY <2>2
    <2>7. a = p * BlockNum + k * Payload
      BY <2>2, <2>4
    <2> QED BY <2>5, <2>6, <2>7
  <1> HIDE DEF h
  <1>6. h \in Injection(Starts, Partition \X (0 .. P - 1))
    <2>1. h \in [Starts -> Partition \X (0 .. P - 1)]
      <3>1. ASSUME NEW a \in Starts
            PROVE  h[a] \in Partition \X (0 .. P - 1)
        <4>1. PICK p \in Partition, k \in 0 .. P - 1 : h[a] = <<p, k>>
          BY <1>5
        <4> QED BY ONLY <4>1, p \in Partition, k \in 0 .. P - 1
      <3>2. h = [a \in Starts |-> h[a]]
        BY DEF h
      <3> QED BY <3>1, <3>2
    <2>2. ASSUME NEW a \in Starts, NEW c \in Starts, h[a] = h[c]
          PROVE  a = c
      <3>1. PICK p \in Partition, k \in 0 .. P - 1 :
                h[a] = <<p, k>> /\ a = p * BlockNum + k * Payload
        BY <1>5
      <3>2. PICK q \in Partition, l \in 0 .. P - 1 :
                h[c] = <<q, l>> /\ c = q * BlockNum + l * Payload
        BY <1>5
      <3>4. <<p, k>> = <<q, l>>
        BY <2>2, <3>1, <3>2
      <3>3. p = q /\ k = l
        BY ONLY <3>4
      <3> QED BY <3>1, <3>2, <3>3
    <2> QED BY <2>1, <2>2 DEF Injection, IsInjective
  <1>7. /\ IsFiniteSet(Starts)
        /\ Cardinality(Starts) <= Cardinality(Partition \X (0 .. P - 1))
    BY <1>4, <1>6, FS_Injection
  <1> QED BY <1>1, <1>4, <1>7 DEF packet_num

LEMMA AllGot ==
    ASSUME DeliveryInv, NEW n \in Node, Stored(n)
    PROVE  Got(n) = Starts
  <1>1. IsFiniteSet(Got(n)) /\ Cardinality(Got(n)) = packet_num
    BY DEF DeliveryInv, Counted, Stored
  <1>2. Got(n) \in SUBSET Starts
    BY DEF Got
  <1>3. /\ IsFiniteSet(Starts) /\ Cardinality(Starts) <= packet_num
    BY StartsCount
  <1>4. Cardinality(Got(n)) <= Cardinality(Starts)
        /\ (Cardinality(Starts) = Cardinality(Got(n)) => Starts = Got(n))
    BY <1>2, <1>3, FS_Subset
  <1>5. Cardinality(Starts) \in Nat /\ Cardinality(Got(n)) \in Nat
    BY <1>1, <1>3, FS_CardinalityType
  <1> QED BY <1>1, <1>3, <1>4, <1>5

LEMMA CountedAll == DeliveryInv => StoredMeansComplete
  <1> SUFFICES ASSUME DeliveryInv, NEW n \in Node, Stored(n), NEW a \in Block
               PROVE  vertexProp[n][a] = a
    BY DEF StoredMeansComplete
  <1>1. PacketStart(a) \in Got(n)
    BY AllGot, Packets
  <1> QED BY <1>1 DEF Got

\* writeProp only counts packets; when it returns, every block is in its array.
THEOREM StoredIsComplete == Spec => []StoredMeansComplete
  BY OnePlaceOnly, CountedAll, PTL

\* What is not in the places that are counted is not there.
LEMMA NoneMarked ==
    ASSUME NEW q \in [Node -> Seq(PacketFrame)], NEW S, Marked(q, S) = {},
           NEW m \in Node, NEW i \in 1 .. Len(q[m])
    PROVE  <<m, q[m][i]>> \notin S
  <1>1. q[m] \in Seq(PacketFrame) /\ i \in DOMAIN q[m] /\ i \in Nat
    OBVIOUS
  <1>2. PICK l \in Node \X Nat : l[1] = m /\ l[2] = i
    <2>1. <<m, i>> \in Node \X Nat /\ <<m, i>>[1] = m /\ <<m, i>>[2] = i
      BY <1>1
    <2> QED BY ONLY <2>1
  <1>3. l[2] \in DOMAIN q[l[1]] /\ q[l[1]][l[2]] = q[m][i]
    BY <1>1, <1>2
  <1>4. <<l[1], q[l[1]][l[2]]>> \notin S
    BY <1>3 DEF Marked
  <1> QED BY <1>2, <1>3, <1>4

\* A packet that node n has stored is in no other place on its way to n.
LEMMA OnlyStored ==
    ASSUME NEW n \in Node, NEW a \in Starts, OnePlace(n, a), a \in Got(n)
    PROVE  /\ a \notin Unread /\ ~Current(n, a) /\ ~Lost(n, a)
           /\ Marked(vertexTrans, Anywhere(a)) = {} /\ Marked(wire, OnWire(n, a)) = {}
           /\ Marked(net_in, InNet(n, a)) = {} /\ Marked(vertexUpdate, AtNode(n, a)) = {}
  <1>1. PICK t, w, i, v \in Nat, r, c, g, l \in {0, 1} :
            /\ t = Cardinality(Marked(vertexTrans, Anywhere(a)))
            /\ w = Cardinality(Marked(wire, OnWire(n, a)))
            /\ i = Cardinality(Marked(net_in, InNet(n, a)))
            /\ v = Cardinality(Marked(vertexUpdate, AtNode(n, a)))
            /\ r = One(a \in Unread) /\ c = One(Current(n, a))
            /\ g = One(a \in Got(n)) /\ l = One(Lost(n, a))
            /\ r + t + w + i + v + c + g + l <= 1
    BY PlacesOld
  <1>2. g = 1
    BY <1>1 DEF One
  <1>3. r + t + w + i + v + c + g + l <= 1
    BY <1>1
  <1>4. t = 0 /\ w = 0 /\ i = 0 /\ v = 0 /\ r = 0 /\ c = 0 /\ l = 0
    BY ONLY <1>2, <1>3, t \in Nat, w \in Nat, i \in Nat, v \in Nat, r \in {0, 1},
            c \in {0, 1}, l \in {0, 1}
  <1>5. a \notin Unread /\ ~Current(n, a) /\ ~Lost(n, a)
    BY <1>1, <1>4 DEF One
  <1>6. \A S : IsFiniteSet(S) => (Cardinality(S) = 0 <=> S = {})
    BY FS_EmptySet
  <1> QED BY <1>1, <1>4, <1>5, <1>6 DEF OnePlace

NoHeaders(q) == \A m \in Node : \A i \in 1 .. Len(q[m]) : ~q[m][i].head

LEMMA AllQuiet ==
    ASSUME DeliveryInv, \A n \in Node : Stored(n)
    PROVE  /\ NoHeaders(vertexTrans) /\ NoHeaders(wire) /\ NoHeaders(net_in)
           /\ NoHeaders(vertexUpdate) /\ Unread = {} /\ lost = {}
           /\ \A n \in Node : \A a \in Starts : ~Current(n, a)
  <1>1. Typed /\ \A n \in Node : Got(n) = Starts
    BY AllGot DEF DeliveryInv, CreditInv, IInv
  <1>2. ASSUME NEW n \in Node, NEW a \in Starts
        PROVE  /\ a \notin Unread /\ ~Current(n, a) /\ ~Lost(n, a)
               /\ Marked(vertexTrans, Anywhere(a)) = {} /\ Marked(wire, OnWire(n, a)) = {}
               /\ Marked(net_in, InNet(n, a)) = {} /\ Marked(vertexUpdate, AtNode(n, a)) = {}
    BY <1>1, OnlyStored DEF DeliveryInv
  <1>3. 0 \in Node
    BY RingAssumption DEF Node
  <1>4. Unread = {}
    BY <1>2, <1>3 DEF Unread
  <1>5. ASSUME NEW f \in PacketFrame, f.head
        PROVE  f.addr \in Starts /\ f.node \in Node
    BY <1>5, FramePositions DEF PacketFrame, Starts
  <1>6. lost = {}
    <2>1. ASSUME NEW f \in lost
          PROVE  FALSE
      <3>1. f \in PacketFrame /\ f.head
        BY DEF DeliveryInv
      <3>2. ~Lost(f.node, f.addr)
        BY <1>2, <1>5, <3>1
      <3> QED BY <3>2 DEF Lost
    <2> QED BY <2>1
  <1>7. ASSUME NEW q \in [Node -> Seq(PacketFrame)], NEW m \in Node, NEW i \in 1 .. Len(q[m])
        PROVE  q[m][i] \in PacketFrame
    <2>1. q[m] \in Seq(PacketFrame)
      OBVIOUS
    <2> QED BY <2>1
  <1>8. /\ vertexTrans \in [Node -> Seq(PacketFrame)] /\ wire \in [Node -> Seq(PacketFrame)]
        /\ net_in \in [Node -> Seq(PacketFrame)] /\ vertexUpdate \in [Node -> Seq(PacketFrame)]
    BY <1>1 DEF Typed
  <1>9. NoHeaders(vertexTrans)
    <2>1. ASSUME NEW m \in Node, NEW i \in 1 .. Len(vertexTrans[m]), vertexTrans[m][i].head
          PROVE  FALSE
      <3> PICK f \in PacketFrame : f = vertexTrans[m][i]
        BY <1>7, <1>8
      <3>1. f.addr \in Starts /\ f.head
        BY <1>5, <2>1
      <3>2. Marked(vertexTrans, Anywhere(f.addr)) = {}
        BY <1>2, <1>3, <3>1
      <3>3. <<m, f>> \notin Anywhere(f.addr)
        BY <1>8, <3>2, NoneMarked
      <3> QED BY <3>1, <3>3 DEF Anywhere
    <2> QED BY <2>1 DEF NoHeaders
  <1>10. NoHeaders(wire)
    <2>1. ASSUME NEW m \in Node, NEW i \in 1 .. Len(wire[m]), wire[m][i].head
          PROVE  FALSE
      <3> PICK f \in PacketFrame : f = wire[m][i]
        BY <1>7, <1>8
      <3>1. f.addr \in Starts /\ f.node \in Node /\ f.head
        BY <1>5, <2>1
      <3>2. Marked(wire, OnWire(f.node, f.addr)) = {}
        BY <1>2, <3>1
      <3>3. <<m, f>> \notin OnWire(f.node, f.addr)
        BY <1>8, <3>2, NoneMarked
      <3>4. m = f.node \/ Hops(f.node, m) < Hops(f.node, f.node)
        BY <3>1, RingHops
      <3> QED BY <3>1, <3>3, <3>4 DEF OnWire
    <2> QED BY <2>1 DEF NoHeaders
  <1>11. NoHeaders(net_in)
    <2>1. ASSUME NEW m \in Node, NEW i \in 1 .. Len(net_in[m]), net_in[m][i].head
          PROVE  FALSE
      <3> PICK f \in PacketFrame : f = net_in[m][i]
        BY <1>7, <1>8
      <3>1. f.addr \in Starts /\ f.node \in Node /\ f.head
        BY <1>5, <2>1
      <3>2. Marked(net_in, InNet(f.node, f.addr)) = {}
        BY <1>2, <3>1
      <3>3. <<m, f>> \notin InNet(f.node, f.addr)
        BY <1>8, <3>2, NoneMarked
      <3>4. Hops(f.node, m) <= Hops(f.node, f.node)
        BY <3>1, RingHops
      <3> QED BY <3>1, <3>3, <3>4 DEF InNet
    <2> QED BY <2>1 DEF NoHeaders
  <1>12. NoHeaders(vertexUpdate)
    <2>1. ASSUME NEW m \in Node, NEW i \in 1 .. Len(vertexUpdate[m]), vertexUpdate[m][i].head
          PROVE  FALSE
      <3> PICK f \in PacketFrame : f = vertexUpdate[m][i]
        BY <1>7, <1>8
      <3>1. f.addr \in Starts /\ f.head
        BY <1>5, <2>1
      <3>2. Marked(vertexUpdate, AtNode(m, f.addr)) = {}
        BY <1>2, <3>1
      <3>3. <<m, f>> \notin AtNode(m, f.addr)
        BY <1>8, <3>2, NoneMarked
      <3> QED BY <3>1, <3>3 DEF AtNode
    <2> QED BY <2>1 DEF NoHeaders
  <1> QED BY <1>2, <1>4, <1>6, <1>9, <1>10, <1>11, <1>12

\* Frames that begin between two packets begin with a header.
LEMMA QuietFlow ==
    ASSUME NEW q \in [Node -> Seq(PacketFrame)], NoHeaders(q), NEW n \in Node,
           NEW b, Flow(q[n], Boundary, b)
    PROVE  q[n] = <<>> /\ b = Boundary
  <1>1. q[n] \in Seq(PacketFrame)
    OBVIOUS
  <1>2. ASSUME q[n] # <<>>
        PROVE  FALSE
    <2>1. 1 \in 1 .. Len(q[n]) /\ q[n][1] \in PacketFrame
      BY <1>1, <1>2
    <2>2. At(q[n][1]) = Boundary
      BY <1>2 DEF Flow
    <2> QED BY <2>1, <2>2, FramePositions DEF NoHeaders
  <1> QED BY <1>2 DEF Flow

LEMMA StoredAll == DeliveryInv => NothingLeftBehind
  <1> SUFFICES ASSUME DeliveryInv, \A n \in Node : Stored(n), NEW n \in Node
               PROVE  /\ vertexTrans[n] = <<>> /\ wire[n] = <<>> /\ net_in[n] = <<>>
                      /\ vertexUpdate[n] = <<>> /\ currentState[n] = "firstFrame"
                      /\ write_read_num[n] = 0 /\ rdProp[n].item > Len(Schedule[n])
    BY DEF NothingLeftBehind
  <1>1. /\ NoHeaders(vertexTrans) /\ NoHeaders(wire) /\ NoHeaders(net_in)
        /\ NoHeaders(vertexUpdate) /\ Unread = {} /\ lost = {}
        /\ \A m \in Node : \A a \in Starts : ~Current(m, a)
    BY AllQuiet
  <1>2. IInv /\ Typed /\ \A m \in Node : OpenPacket(m)
    BY DEF DeliveryInv, CreditInv, IInv
  <1>3. PICK own \in [Node -> Position], mid \in [Node -> Position],
             gap \in [Node -> Position] :
            \A m \in Node : FramedAt(m, own, mid, gap)
    BY <1>2 DEF IInv, Framing
  <1>4. /\ vertexTrans \in [Node -> Seq(PacketFrame)] /\ wire \in [Node -> Seq(PacketFrame)]
        /\ net_in \in [Node -> Seq(PacketFrame)] /\ vertexUpdate \in [Node -> Seq(PacketFrame)]
    BY <1>2 DEF Typed
  <1>5. ASSUME NEW m \in Node
        PROVE  /\ vertexTrans[m] = <<>> /\ net_in[m] = <<>> /\ vertexUpdate[m] = <<>>
               /\ currentState[m] = "firstFrame" /\ ReadPos(m) = Boundary
               /\ gap[m] = Boundary
    <2>1. FramedAt(m, own, mid, gap)
      BY <1>3
    <2>2. currentState[m] \notin {"onlySend", "remainFrame_other"}
      BY <1>1, <1>2 DEF OpenPacket, NoHeaders
    <2>3. own[m] = Boundary
      BY <2>1, <2>2 DEF FramedAt
    <2>4. vertexTrans[m] = <<>> /\ ReadPos(m) = Boundary
      BY <1>1, <1>4, <2>1, <2>3, QuietFlow DEF FramedAt
    <2>5. wrProp[m].state = "firstFrame"
      <3>1. CASE wrProp[m].state = "remainFrame"
        <4>1. wrProp[m].address \in Block /\ Slot(wrProp[m].address) = 0
          BY <1>2, <3>1 DEF IInv, Typed, Writing
        <4>2. wrProp[m].address \in Starts /\ Current(m, wrProp[m].address)
          BY <3>1, <4>1 DEF Starts, Current
        <4> QED BY <1>1, <4>2
      <3> QED BY <1>2, <3>1 DEF Typed
    <2>6. vertexUpdate[m] = <<>> /\ mid[m] = Boundary
      <3>1. Flow(vertexUpdate[m], Boundary, mid[m])
        BY <2>1, <2>5 DEF FramedAt, WritePos
      <3> QED BY <1>1, <1>4, <3>1, QuietFlow
    <2>7. currentState[m] = "firstFrame"
      BY <1>2, <2>1, <2>2, <2>6 DEF FramedAt, Typed
    <2>8. net_in[m] = <<>> /\ gap[m] = Boundary
      <3>1. Flow(net_in[m], Boundary, gap[m])
        BY <2>1, <2>6 DEF FramedAt
      <3> QED BY <1>1, <1>4, <3>1, QuietFlow
    <2> QED BY <2>4, <2>6, <2>7, <2>8
  <1>6. wire[n] = <<>>
    <2>1. lower_worker_idx(n) \in Node
      BY Neighbours
    <2>2. gap[lower_worker_idx(n)] = Boundary
      BY <1>5, <2>1
    <2>3. Flow(wire[n], Boundary, OutPos(n, own, mid))
      BY <1>3, <2>2 DEF FramedAt
    <2> QED BY <1>1, <1>4, <2>3, QuietFlow
  <1>7. write_read_num[n] = 0
    <2>1. HeadersIn(wire, n) = {} /\ HeadersIn(net_in, n) = {} /\ {f \in lost : f.node = n} = {}
      <3>1. ASSUME NEW q \in [Node -> Seq(PacketFrame)], NoHeaders(q)
            PROVE  HeadersIn(q, n) = {}
        <4>1. \A m \in Node : \A i \in DOMAIN q[m] : i \in 1 .. Len(q[m])
          OBVIOUS
        <4> QED BY <3>1, <4>1 DEF HeadersIn, Marked, NoHeaders
      <3> QED BY <1>1, <1>4, <3>1
    <2>2. Cardinality({}) = 0
      BY FS_EmptySet
    <2>3. write_read_num[n] = Cardinality(HeadersIn(wire, n)) + Cardinality(HeadersIn(net_in, n))
                              + Cardinality({f \in lost : f.node = n})
      BY DEF DeliveryInv, Balanced
    <2> QED BY <2>1, <2>2, <2>3
  <1>8. rdProp[n].item > Len(Schedule[n])
    <2> PICK rd : rd = rdProp[n]
      OBVIOUS
    <2>1. /\ rd \in [item : Nat \ {0}, i : Nat, address : Nat, frameId : 0 .. Payload]
          /\ Schedule[n] \in Seq(Partition) /\ Reading(n) /\ ReadPos(n) = Boundary
      BY <1>2, <1>5, ConstantTypes DEF Typed, IInv
    <2>2. SUFFICES ASSUME rd.item \in DOMAIN Schedule[n]
                   PROVE  FALSE
      BY <2>1
    <2> PICK p \in Partition : p = Schedule[n][rd.item]
      BY <2>1, <2>2
    <2>3. rd.frameId = 0
      <3>1. p * BlockNum + rd.address \in Nat
        <4>1. p \in Nat /\ BlockNum \in Nat
          BY ConstantTypes DEF Partition
        <4>2. p * BlockNum \in Nat /\ rd.address \in Nat
          BY <2>1, <4>1
        <4> QED BY <4>2
      <3> QED BY <2>1, <3>1 DEF ReadPos, Boundary
    <2>4. PICK k \in Nat :
              /\ rd.i = k * Payload + k + rd.frameId
              /\ rd.i < BlockNum + packets_of(BlockNum)
              /\ rd.address = k * Payload + (IF rd.frameId = 0 THEN 0 ELSE rd.frameId - 1)
      BY <2>1 DEF Reading
    <2>5. 0 \in 0 .. Payload /\ 0 \in 0 .. Payload - 1
      BY ConstantTypes
    <2>6. k * Payload + k + 0 < BlockNum + packets_of(BlockNum)
      BY <2>3, <2>4
    <2>7. k * Payload \in 0 .. BlockNum - 1
      BY ONLY <2>5, <2>6, ReadingBounds, k \in Nat
    <2> PICK b \in 0 .. BlockNum - 1 : b = k * Payload
      BY <2>7
    <2>8. b = k * Payload + 0 /\ rd.address = b
      BY <2>3, <2>4
    <2>9. p * BlockNum + b \in Block /\ Slot(p * BlockNum + b) = 0
      BY ONLY <2>5, <2>8, SlotOfBlock, p \in Partition, b \in 0 .. BlockNum - 1, k \in Nat
    <2>10. (p * BlockNum + b) \div BlockNum = p /\ (p * BlockNum + b) % BlockNum = b
      BY DivOfBlock
    <2>11. p * BlockNum + b \in Unread
      BY <2>2, <2>3, <2>8, <2>9, <2>10 DEF Unread, Starts
    <2> QED BY <1>1, <2>11
  <1> QED BY <1>5, <1>6, <1>7, <1>8

\* When every writeProp has returned, the ring is as it was at the start.
THEOREM StoredLeavesNothing == Spec => []NothingLeftBehind
  BY OnePlaceOnly, StoredAll, PTL

-----------------------------------------------------------------------------
(* Order inside of a FIFO. *)

\* The packet of o that a frame begins, if it does.
Begun(f, o) == IF HeaderOf(f, o) THEN {f.addr} ELSE {}

LEMMA TurnAppend ==
    ASSUME NEW q \in Seq(PacketFrame), NEW f \in PacketFrame, NEW o \in Node, NEW gone
    PROVE  /\ HeadersOf(Append(q, f), o) = HeadersOf(q, o) \cup Begun(f, o)
           /\ /\ InTurn(q, o, gone)
              /\ HeaderOf(f, o) => /\ f.addr \notin gone \cup HeadersOf(q, o)
                                   /\ Before(f.addr) \subseteq gone \cup HeadersOf(q, o)
              => InTurn(Append(q, f), o, gone)
  <1> DEFINE v == Append(q, f)
  <1>1. /\ Len(q) \in Nat /\ Len(v) = Len(q) + 1 /\ v[Len(q) + 1] = f
        /\ \A i \in 1 .. Len(q) : v[i] = q[i]
    OBVIOUS
  <1> PICK n \in Nat : n = Len(q)
    BY <1>1
  <1> HIDE DEF v
  <1>2. HeadersOf(v, o) = HeadersOf(q, o) \cup Begun(f, o)
    <2>1. \A i \in 1 .. n + 1 : i \in 1 .. n \/ i = n + 1
      OBVIOUS
    <2>2. 1 .. n \subseteq 1 .. n + 1 /\ n + 1 \in 1 .. n + 1
      OBVIOUS
    <2> QED BY <1>1, <2>1, <2>2 DEF HeadersOf, Begun
  <1>3. ASSUME InTurn(q, o, gone),
               HeaderOf(f, o) => /\ f.addr \notin gone \cup HeadersOf(q, o)
                                 /\ Before(f.addr) \subseteq gone \cup HeadersOf(q, o),
               NEW i \in 1 .. n + 1, HeaderOf(v[i], o),
               NEW ahead,
               ahead = gone \cup {v[j].addr : j \in {k \in 1 .. i - 1 : HeaderOf(v[k], o)}}
        PROVE  v[i].addr \notin ahead /\ Before(v[i].addr) \subseteq ahead
    <2>1. CASE i \in 1 .. n
      <3>1. \A k \in 1 .. i - 1 : k \in 1 .. n
        BY <2>1
      <3>2. ahead = gone \cup {q[j].addr : j \in {k \in 1 .. i - 1 : HeaderOf(q[k], o)}}
        BY <1>1, <1>3, <3>1
      <3> QED BY <1>1, <1>3, <2>1, <3>2 DEF InTurn
    <2>2. CASE i = n + 1
      <3>1. 1 .. i - 1 = 1 .. n
        BY <2>2
      <3>2. ahead = gone \cup HeadersOf(q, o)
        BY <1>1, <1>3, <3>1 DEF HeadersOf
      <3> QED BY <1>1, <1>3, <2>2, <3>2
    <2> QED BY <2>1, <2>2
  <1> QED BY <1>1, <1>2, <1>3 DEF InTurn, v

LEMMA TurnHead ==
    ASSUME NEW q \in Seq(PacketFrame), q # <<>>, NEW f, f = Head(q), NEW o \in Node,
           NEW gone
    PROVE  /\ HeadersOf(q, o) = Begun(f, o) \cup HeadersOf(Tail(q), o)
           /\ InTurn(q, o, gone) =>
                  /\ HeaderOf(f, o) => f.addr \notin gone /\ Before(f.addr) \subseteq gone
                  /\ InTurn(Tail(q), o, gone \cup Begun(f, o))
                  /\ Begun(f, o) \cap HeadersOf(Tail(q), o) = {}
  <1> DEFINE t == Tail(q)
  <1>1. /\ Len(q) \in Nat \ {0} /\ Len(t) = Len(q) - 1 /\ q[1] = f
        /\ \A i \in 1 .. Len(q) - 1 : t[i] = q[i + 1]
    OBVIOUS
  <1> HIDE DEF t
  <1>7. Len(q) - 1 \in Nat
    BY <1>1
  <1> PICK n \in Nat : n = Len(q) - 1
    BY <1>7
  <1>2. HeadersOf(q, o) = Begun(f, o) \cup HeadersOf(t, o)
    <2>1. \A i \in 1 .. n + 1 : i = 1 \/ (i - 1 \in 1 .. n /\ (i - 1) + 1 = i)
      OBVIOUS
    <2>2. \A i \in 1 .. n : i + 1 \in 1 .. n + 1
      OBVIOUS
    <2>3. 1 \in 1 .. n + 1 /\ Len(q) = n + 1 /\ Len(t) = n
      BY <1>1
    <2>4. ASSUME NEW x \in HeadersOf(q, o)
          PROVE  x \in Begun(f, o) \cup HeadersOf(t, o)
      <3>1. PICK i \in 1 .. n + 1 : HeaderOf(q[i], o) /\ x = q[i].addr
        BY <2>3, <2>4 DEF HeadersOf
      <3>2. CASE i = 1
        BY <1>1, <3>1, <3>2 DEF Begun
      <3>3. CASE i - 1 \in 1 .. n /\ (i - 1) + 1 = i
        <4>1. t[i - 1] = q[i]
          BY <1>1, <2>3, <3>3
        <4> QED BY <2>3, <3>1, <3>3, <4>1 DEF HeadersOf
      <3> QED BY <2>1, <3>2, <3>3
    <2>5. ASSUME NEW x \in Begun(f, o) \cup HeadersOf(t, o)
          PROVE  x \in HeadersOf(q, o)
      <3>1. CASE x \in Begun(f, o)
        BY <1>1, <2>3, <3>1 DEF Begun, HeadersOf
      <3>2. CASE x \in HeadersOf(t, o)
        <4>1. PICK i \in 1 .. n : HeaderOf(t[i], o) /\ x = t[i].addr
          BY <2>3, <3>2 DEF HeadersOf
        <4>2. t[i] = q[i + 1] /\ i + 1 \in 1 .. Len(q)
          BY <1>1, <2>2, <2>3
        <4> QED BY <4>1, <4>2 DEF HeadersOf
      <3> QED BY <2>5, <3>1, <3>2
    <2> QED BY <2>4, <2>5
  <1>3. ASSUME InTurn(q, o, gone)
        PROVE  HeaderOf(f, o) => f.addr \notin gone /\ Before(f.addr) \subseteq gone
    <2>1. 1 \in 1 .. Len(q) /\ 1 .. 1 - 1 = {}
      BY <1>1
    <2>2. {q[j].addr : j \in {k \in 1 .. 1 - 1 : HeaderOf(q[k], o)}} = {}
      BY <2>1
    <2> QED BY <1>1, <1>3, <2>1, <2>2 DEF InTurn
  <1>4. ASSUME InTurn(q, o, gone), NEW i \in 1 .. n, HeaderOf(t[i], o), NEW ahead,
               ahead = (gone \cup Begun(f, o))
                          \cup {t[j].addr : j \in {k \in 1 .. i - 1 : HeaderOf(t[k], o)}}
        PROVE  t[i].addr \notin ahead /\ Before(t[i].addr) \subseteq ahead
    <2> DEFINE before == {q[j].addr : j \in {k \in 1 .. i : HeaderOf(q[k], o)}}
    <2>1. i + 1 \in 1 .. Len(q) /\ (i + 1) - 1 = i /\ t[i] = q[i + 1]
      BY <1>1
    <2>2. before \subseteq Begun(f, o)
              \cup {t[j].addr : j \in {k \in 1 .. i - 1 : HeaderOf(t[k], o)}}
      <3> SUFFICES ASSUME NEW k \in 1 .. i, HeaderOf(q[k], o)
                   PROVE  q[k].addr \in Begun(f, o)
                            \cup {t[j].addr : j \in {m \in 1 .. i - 1 : HeaderOf(t[m], o)}}
        OBVIOUS
      <3>1. CASE k = 1
        BY <1>1, <3>1 DEF Begun
      <3>2. CASE k # 1
        <4>1. k - 1 \in 1 .. i - 1 /\ (k - 1) + 1 = k /\ k - 1 \in 1 .. Len(q) - 1
          BY <1>1, <3>2
        <4>2. t[k - 1] = q[k]
          BY <1>1, <4>1
        <4> QED BY <4>1, <4>2
      <3> QED BY <3>1, <3>2
    <2>3. Begun(f, o) \cup {t[j].addr : j \in {k \in 1 .. i - 1 : HeaderOf(t[k], o)}}
              \subseteq before
      <3>1. Begun(f, o) \subseteq before
        <4>1. 1 \in 1 .. i
          OBVIOUS
        <4> QED BY <1>1, <4>1 DEF Begun
      <3>2. ASSUME NEW k \in 1 .. i - 1, HeaderOf(t[k], o)
            PROVE  t[k].addr \in before
        <4>1. k + 1 \in 1 .. i /\ t[k] = q[k + 1]
          BY <1>1
        <4> QED BY <3>2, <4>1
      <3> QED BY <3>1, <3>2
    <2>4. ahead = gone \cup before
      BY <1>4, <2>2, <2>3
    <2> QED BY <1>4, <2>1, <2>4 DEF InTurn
  <1>5. ASSUME InTurn(q, o, gone)
        PROVE  InTurn(t, o, gone \cup Begun(f, o))
    BY <1>1, <1>4, <1>5, ZenonT(40) DEF InTurn
  <1>6. ASSUME InTurn(q, o, gone)
        PROVE  Begun(f, o) \cap HeadersOf(t, o) = {}
    <2>1. \A x \in HeadersOf(t, o) : x \notin Begun(f, o)
      BY <1>5, <1>6 DEF InTurn, HeadersOf
    <2> QED BY <2>1
  <1> QED BY <1>2, <1>3, <1>5, <1>6 DEF t

LEMMA HeadersAppend ==
    ASSUME NEW q \in Seq(PacketFrame), NEW f \in PacketFrame, NEW o \in Node
    PROVE  HeadersOf(Append(q, f), o) = HeadersOf(q, o) \cup Begun(f, o)
  BY TurnAppend

LEMMA HeadersTail ==
    ASSUME NEW q \in Seq(PacketFrame), q # <<>>, NEW f, f = Head(q), NEW o \in Node
    PROVE  HeadersOf(q, o) = Begun(f, o) \cup HeadersOf(Tail(q), o)
  BY TurnHead

-----------------------------------------------------------------------------
(* Order along the ring, for the packets of a node o. *)

LEMMA WrittenKept ==
    ASSUME NEW o \in Node, NEW m \in Node,
           wrProp'[m] = wrProp[m], vertexProp'[m] = vertexProp[m]
    PROVE  WrittenOf(o, m)' = WrittenOf(o, m)
  BY DEF WrittenOf, Current, Got, PacketsFrom

LEMMA SentKept ==
    ASSUME NEW o \in Node, UNCHANGED <<rdProp, vertexTrans>>
    PROVE  SentOf(o)' = SentOf(o) /\ ReadOf(o)' = ReadOf(o)
  BY DEF SentOf, ReadOf, Unread, PacketsFrom

\* A frame that globalTrans takes from the network and copies to writeProp.
LEMMA TakeOrdered ==
    ASSUME Typed, NEW n \in Node, net_in[n] # <<>>,
           NEW f \in PacketFrame, f = Head(net_in[n]),
           net_in' = Pop(net_in, n), vertexUpdate' = Push(vertexUpdate, n, f),
           UNCHANGED <<rdProp, vertexTrans, wrProp, vertexProp>>,
           \/ UNCHANGED wire /\ (f.head => f.node = n)
           \/ wire' = Push(wire, n, f) /\ (f.head => f.node # n),
           NEW o \in Node, \A k \in Node : Ordered(o, k),
           NEW m \in Node
    PROVE  Ordered(o, m)'
  <1>1. /\ net_in \in [Node -> Seq(PacketFrame)] /\ wire \in [Node -> Seq(PacketFrame)]
        /\ vertexUpdate \in [Node -> Seq(PacketFrame)]
    BY DEF Typed
  <1>2. /\ net_in'[n] = Tail(net_in[n]) /\ vertexUpdate'[n] = Append(vertexUpdate[n], f)
        /\ \A k \in Node \ {n} :
               net_in'[k] = net_in[k] /\ vertexUpdate'[k] = vertexUpdate[k]
    BY <1>1 DEF Pop, Push
  <1>3. \A k \in Node : WrittenOf(o, k)' = WrittenOf(o, k)
    BY WrittenKept
  <1>4. SentOf(o)' = SentOf(o)
    BY SentKept
  <1> DEFINE B == Begun(f, o)
  <1>5. /\ HeadersOf(vertexUpdate'[n], o) = HeadersOf(vertexUpdate[n], o) \cup B
        /\ HeadersOf(net_in[n], o) = B \cup HeadersOf(net_in'[n], o)
    <2>1. net_in[n] \in Seq(PacketFrame) /\ vertexUpdate[n] \in Seq(PacketFrame)
      BY <1>1
    <2>2. HeadersOf(Append(vertexUpdate[n], f), o) = HeadersOf(vertexUpdate[n], o) \cup B
      BY ONLY <2>1, HeadersAppend, f \in PacketFrame, o \in Node
    <2>3. HeadersOf(net_in[n], o) = B \cup HeadersOf(Tail(net_in[n]), o)
      BY ONLY <2>1, HeadersTail, net_in[n] # <<>>, f = Head(net_in[n]), o \in Node
    <2> QED BY <1>2, <2>2, <2>3
  <1>6. /\ HeaderOf(f, o) => /\ f.addr \notin TakenOf(o, n)
                             /\ Before(f.addr) \subseteq TakenOf(o, n)
        /\ InTurn(net_in'[n], o, TakenOf(o, n) \cup B)
    <2>1. net_in[n] \in Seq(PacketFrame) /\ InTurn(net_in[n], o, TakenOf(o, n))
      BY <1>1 DEF Ordered
    <2>2. /\ HeaderOf(f, o) => /\ f.addr \notin TakenOf(o, n)
                               /\ Before(f.addr) \subseteq TakenOf(o, n)
          /\ InTurn(Tail(net_in[n]), o, TakenOf(o, n) \cup B)
      BY ONLY <2>1, TurnHead, net_in[n] # <<>>, f = Head(net_in[n]), o \in Node
    <2> QED BY <1>2, <2>2
  <1>7. InTurn(vertexUpdate'[n], o, WrittenOf(o, n))
    <2>1. vertexUpdate[n] \in Seq(PacketFrame) /\ InTurn(vertexUpdate[n], o, WrittenOf(o, n))
      BY <1>1 DEF Ordered
    <2>2. TakenOf(o, n) = WrittenOf(o, n) \cup HeadersOf(vertexUpdate[n], o)
      BY DEF TakenOf
    <2>3. InTurn(Append(vertexUpdate[n], f), o, WrittenOf(o, n))
      BY ONLY <1>6, <2>1, <2>2, TurnAppend, f \in PacketFrame, o \in Node
    <2> QED BY <1>2, <2>3
  <1>8. /\ TakenOf(o, n)' = TakenOf(o, n) \cup B
        /\ \A k \in Node \ {n} : TakenOf(o, k)' = TakenOf(o, k)
    BY <1>2, <1>3, <1>5 DEF TakenOf
  <1>9. \A k \in Node : ComeOf(o, k)' = ComeOf(o, k)
    BY <1>2, <1>5, <1>8 DEF ComeOf
  <1>10. lower_worker_idx(m) \in Node
    BY Neighbours
  <1>11. /\ InTurn(wire[m], o, ComeOf(o, lower_worker_idx(m)))
         /\ ComeOf(o, lower_worker_idx(m)) \cup HeadersOf(wire[m], o)
                = IF m = o THEN SentOf(o) ELSE TakenOf(o, m)
         /\ HeadersOf(vertexUpdate[m], o) \cup HeadersOf(net_in[m], o)
                \cup HeadersOf(wire[m], o) \subseteq PacketsFrom(o)
         /\ HeadersOf(net_in[n], o) \subseteq PacketsFrom(o)
         /\ InTurn(vertexUpdate[m], o, WrittenOf(o, m)) /\ InTurn(net_in[m], o, TakenOf(o, m))
    BY DEF Ordered
  <1>12. /\ m = n /\ o # n => HeadersOf(wire'[m], o) = HeadersOf(wire[m], o) \cup B
         /\ m # n \/ o = n => HeadersOf(wire'[m], o) = HeadersOf(wire[m], o)
         /\ InTurn(wire'[m], o, ComeOf(o, lower_worker_idx(m)))
    <2>1. wire[m] \in Seq(PacketFrame)
      BY <1>1
    <2>2. CASE UNCHANGED wire /\ (f.head => f.node = n)
      BY <1>11, <2>2 DEF Begun, HeaderOf
    <2>3. CASE wire' = Push(wire, n, f) /\ (f.head => f.node # n)
      <3>1. CASE m # n
        BY <1>1, <1>11, <2>3, <3>1 DEF Push
      <3>2. CASE m = n
        <4>1. wire'[m] = Append(wire[m], f)
          BY <1>1, <2>3, <3>2 DEF Push
        <4>2. HeadersOf(wire'[m], o) = HeadersOf(wire[m], o) \cup B
          BY ONLY <2>1, <4>1, HeadersAppend, f \in PacketFrame, o \in Node
        <4>3. o = n => B = {} /\ ~HeaderOf(f, o)
          BY <2>3 DEF Begun, HeaderOf
        <4>4. o # n => ComeOf(o, lower_worker_idx(m)) \cup HeadersOf(wire[m], o) = TakenOf(o, n)
          BY <1>11, <3>2
        <4>5. InTurn(wire'[m], o, ComeOf(o, lower_worker_idx(m)))
          BY <1>6, <1>11, <2>1, <4>1, <4>3, <4>4, TurnAppend
        <4> QED BY <3>2, <4>2, <4>3, <4>5
      <3> QED BY <3>1, <3>2
    <2> QED BY <2>2, <2>3
  <1> HIDE DEF B
  <1>13. ComeOf(o, lower_worker_idx(m)) \cup HeadersOf(wire'[m], o)
             = IF m = o THEN SentOf(o) ELSE TakenOf(o, m)'
    BY <1>8, <1>11, <1>12
  <1>14. /\ HeadersOf(vertexUpdate'[m], o) \cup HeadersOf(net_in'[m], o)
                \cup HeadersOf(wire'[m], o) \subseteq PacketsFrom(o)
         /\ InTurn(vertexUpdate'[m], o, WrittenOf(o, m)) /\ InTurn(net_in'[m], o, TakenOf(o, m)')
    <2>1. CASE m = n
      BY <1>5, <1>6, <1>7, <1>8, <1>11, <1>12, <2>1, ZenonT(40) DEF B
    <2>2. CASE m # n
      BY <1>2, <1>8, <1>11, <1>12, <2>2
    <2> QED BY <2>1, <2>2
  <1>15. PacketsFrom(o)' = PacketsFrom(o) /\ lower_worker_idx(m)' = lower_worker_idx(m)
    BY DEF PacketsFrom, lower_worker_idx
  <1> QED BY <1>3, <1>4, <1>9, <1>10, <1>12, <1>13, <1>14 DEF Ordered

\* An own frame that globalTrans sends.
LEMMA OwnOrderedStep ==
    ASSUME Typed, NEW n \in Node, vertexTrans[n] # <<>>,
           NEW f \in PacketFrame, f = Head(vertexTrans[n]), f.node = n,
           vertexTrans' = Pop(vertexTrans, n), wire' = Push(wire, n, f),
           UNCHANGED <<rdProp, net_in, vertexUpdate, wrProp, vertexProp>>,
           NEW o \in Node, OwnOrdered(o), \A k \in Node : Ordered(o, k)
    PROVE  /\ OwnOrdered(o)' /\ \A m \in Node : Ordered(o, m)'
           /\ SentOf(o)' = SentOf(o) \cup Begun(f, o)
           /\ HeaderOf(f, o) => f.addr \notin SentOf(o) /\ Before(f.addr) \subseteq SentOf(o)
  <1> DEFINE B == Begun(f, o)
  <1>1. /\ vertexTrans \in [Node -> Seq(PacketFrame)] /\ wire \in [Node -> Seq(PacketFrame)]
        /\ vertexTrans[n] \in Seq(PacketFrame)
    BY DEF Typed
  <1>2. /\ vertexTrans'[n] = Tail(vertexTrans[n]) /\ wire'[n] = Append(wire[n], f)
        /\ \A k \in Node \ {n} : vertexTrans'[k] = vertexTrans[k] /\ wire'[k] = wire[k]
    BY <1>1 DEF Pop, Push
  <1>3. ReadOf(o)' = ReadOf(o)
    BY DEF ReadOf, Unread, PacketsFrom
  <1>4. \A k \in Node : /\ WrittenOf(o, k)' = WrittenOf(o, k) /\ TakenOf(o, k)' = TakenOf(o, k)
                        /\ ComeOf(o, k)' = ComeOf(o, k)
    BY WrittenKept DEF TakenOf, ComeOf
  <1>5. o # n => B = {} /\ ~HeaderOf(f, o)
    BY DEF Begun, HeaderOf
  <1>6. /\ InTurn(vertexTrans[o], o, SentOf(o)) /\ HeadersOf(vertexTrans[o], o) \subseteq ReadOf(o)
        /\ SentOf(o) = ReadOf(o) \ HeadersOf(vertexTrans[o], o)
    BY DEF OwnOrdered, SentOf
  <1>7. o = n => /\ HeadersOf(vertexTrans[n], o) = B \cup HeadersOf(vertexTrans'[n], o)
                 /\ HeaderOf(f, o) => /\ f.addr \notin SentOf(o)
                                      /\ Before(f.addr) \subseteq SentOf(o)
                 /\ InTurn(vertexTrans'[n], o, SentOf(o) \cup B)
                 /\ B \cap HeadersOf(vertexTrans'[n], o) = {}
    <2>1. /\ HeadersOf(vertexTrans[n], o) = B \cup HeadersOf(Tail(vertexTrans[n]), o)
          /\ InTurn(vertexTrans[n], o, SentOf(o)) =>
                 /\ HeaderOf(f, o) => /\ f.addr \notin SentOf(o)
                                      /\ Before(f.addr) \subseteq SentOf(o)
                 /\ InTurn(Tail(vertexTrans[n]), o, SentOf(o) \cup B)
                 /\ B \cap HeadersOf(Tail(vertexTrans[n]), o) = {}
      BY ONLY <1>1, TurnHead, vertexTrans[n] # <<>>, f = Head(vertexTrans[n]), o \in Node
    <2> QED BY <1>2, <1>6, <2>1
  <1> HIDE DEF B
  <1>8. SentOf(o)' = ReadOf(o) \ HeadersOf(vertexTrans'[o], o)
    BY <1>3 DEF SentOf
  <1>9. SentOf(o)' = SentOf(o) \cup B
    <2>1. CASE o = n
      BY <1>6, <1>7, <1>8, <2>1
    <2>2. CASE o # n
      BY <1>2, <1>5, <1>6, <1>8, <2>2
    <2> QED BY <2>1, <2>2
  <1>10. OwnOrdered(o)'
    <2>1. /\ InTurn(vertexTrans'[o], o, SentOf(o) \cup B)
          /\ HeadersOf(vertexTrans'[o], o) \subseteq ReadOf(o)
      <3>1. CASE o = n
        BY <1>6, <1>7, <3>1
      <3>2. CASE o # n
        <4>1. SentOf(o) \cup B = SentOf(o)
          BY <1>5, <3>2
        <4> QED BY <1>2, <1>6, <3>2, <4>1
      <3> QED BY <3>1, <3>2
    <2> QED BY <1>3, <1>9, <2>1 DEF OwnOrdered
  <1>11. ASSUME NEW m \in Node
         PROVE  Ordered(o, m)'
    <2>1. lower_worker_idx(m) \in Node
      BY Neighbours
    <2>2. /\ InTurn(wire[m], o, ComeOf(o, lower_worker_idx(m)))
          /\ ComeOf(o, lower_worker_idx(m)) \cup HeadersOf(wire[m], o)
                 = IF m = o THEN SentOf(o) ELSE TakenOf(o, m)
          /\ HeadersOf(vertexUpdate[m], o) \cup HeadersOf(net_in[m], o)
                 \cup HeadersOf(wire[m], o) \subseteq PacketsFrom(o)
          /\ InTurn(vertexUpdate[m], o, WrittenOf(o, m)) /\ InTurn(net_in[m], o, TakenOf(o, m))
      BY DEF Ordered
    <2>3. /\ m = o => HeadersOf(wire'[m], o) = HeadersOf(wire[m], o) \cup B
          /\ m # o => HeadersOf(wire'[m], o) = HeadersOf(wire[m], o)
          /\ InTurn(wire'[m], o, ComeOf(o, lower_worker_idx(m)))
      <3>1. wire[m] \in Seq(PacketFrame)
        BY <1>1
      <3>2. CASE m # n
        BY <1>2, <1>5, <2>2, <3>2
      <3>3. CASE m = n
        <4>1. HeadersOf(wire'[m], o) = HeadersOf(wire[m], o) \cup B
          <5>1. HeadersOf(Append(wire[m], f), o) = HeadersOf(wire[m], o) \cup Begun(f, o)
            BY ONLY <3>1, HeadersAppend, f \in PacketFrame, o \in Node
          <5> QED BY <1>2, <3>3, <5>1 DEF B
        <4>2. HeaderOf(f, o) =>
                  ComeOf(o, lower_worker_idx(m)) \cup HeadersOf(wire[m], o) = SentOf(o)
          BY <1>5, <2>2, <3>3
        <4>3. InTurn(wire'[m], o, ComeOf(o, lower_worker_idx(m)))
          <5>1. HeaderOf(f, o) => /\ f.addr \notin SentOf(o)
                                  /\ Before(f.addr) \subseteq SentOf(o)
            BY <1>5, <1>7
          <5>2. InTurn(wire[m], o, ComeOf(o, lower_worker_idx(m)))
            BY <2>2
          <5>3. InTurn(Append(wire[m], f), o, ComeOf(o, lower_worker_idx(m)))
            BY ONLY <3>1, <4>2, <5>1, <5>2, TurnAppend, f \in PacketFrame, o \in Node
          <5> QED BY <1>2, <3>3, <5>3
        <4> QED BY <1>5, <3>3, <4>1, <4>3
      <3> QED BY <3>2, <3>3
    <2>4. ComeOf(o, lower_worker_idx(m)) \cup HeadersOf(wire'[m], o)
              = IF m = o THEN SentOf(o)' ELSE TakenOf(o, m)
      BY <1>9, <2>2, <2>3
    <2>5. B \subseteq PacketsFrom(o)
      BY <1>5, <1>6, <1>7 DEF ReadOf
    <2>6. HeadersOf(vertexUpdate'[m], o) \cup HeadersOf(net_in'[m], o)
              \cup HeadersOf(wire'[m], o) \subseteq PacketsFrom(o)
      BY <2>2, <2>3, <2>5
    <2> QED BY <1>4, <2>1, <2>2, <2>3, <2>4, <2>6 DEF Ordered
  <1> QED BY <1>5, <1>7, <1>9, <1>10, <1>11 DEF B

\* A frame that the link carries to net_in.
LEMMA ArriveOrdered ==
    ASSUME Typed, NEW n \in Node, NEW u \in Node, u = upper_worker_idx(n), wire[u] # <<>>,
           NEW f \in PacketFrame, f = Head(wire[u]),
           wire' = Pop(wire, u), net_in' = Push(net_in, n, f),
           UNCHANGED <<rdProp, vertexTrans, vertexUpdate, wrProp, vertexProp>>,
           NEW o \in Node, \A k \in Node : Ordered(o, k),
           NEW m \in Node
    PROVE  Ordered(o, m)'
  <1> DEFINE B == Begun(f, o)
  <1>1. /\ net_in \in [Node -> Seq(PacketFrame)] /\ wire \in [Node -> Seq(PacketFrame)]
        /\ wire[u] \in Seq(PacketFrame) /\ net_in[n] \in Seq(PacketFrame)
    BY DEF Typed
  <1>2. /\ wire'[u] = Tail(wire[u]) /\ net_in'[n] = Append(net_in[n], f)
        /\ \A k \in Node \ {u} : wire'[k] = wire[k]
        /\ \A k \in Node \ {n} : net_in'[k] = net_in[k]
    BY <1>1 DEF Pop, Push
  <1>3. /\ SentOf(o)' = SentOf(o)
        /\ \A k \in Node : WrittenOf(o, k)' = WrittenOf(o, k) /\ TakenOf(o, k)' = TakenOf(o, k)
    BY SentKept, WrittenKept DEF TakenOf
  <1>4. /\ lower_worker_idx(u) = n /\ lower_worker_idx(m) \in Node
        /\ lower_worker_idx(m) = n => m = u
    BY Neighbours
  <1>5. /\ InTurn(wire[m], o, ComeOf(o, lower_worker_idx(m)))
        /\ ComeOf(o, lower_worker_idx(m)) \cup HeadersOf(wire[m], o)
               = IF m = o THEN SentOf(o) ELSE TakenOf(o, m)
        /\ HeadersOf(vertexUpdate[m], o) \cup HeadersOf(net_in[m], o)
               \cup HeadersOf(wire[m], o) \subseteq PacketsFrom(o)
        /\ InTurn(vertexUpdate[m], o, WrittenOf(o, m)) /\ InTurn(net_in[m], o, TakenOf(o, m))
        /\ HeadersOf(wire[u], o) \subseteq PacketsFrom(o)
    BY DEF Ordered
  <1>6. /\ HeadersOf(wire[u], o) = B \cup HeadersOf(wire'[u], o)
        /\ HeaderOf(f, o) => /\ f.addr \notin ComeOf(o, n)
                             /\ Before(f.addr) \subseteq ComeOf(o, n)
        /\ InTurn(wire'[u], o, ComeOf(o, n) \cup B)
    <2>1. InTurn(wire[u], o, ComeOf(o, n))
      BY <1>4 DEF Ordered
    <2>2. /\ HeadersOf(wire[u], o) = B \cup HeadersOf(Tail(wire[u]), o)
          /\ HeaderOf(f, o) => /\ f.addr \notin ComeOf(o, n)
                               /\ Before(f.addr) \subseteq ComeOf(o, n)
          /\ InTurn(Tail(wire[u]), o, ComeOf(o, n) \cup B)
      BY ONLY <1>1, <2>1, TurnHead, wire[u] # <<>>, f = Head(wire[u]), o \in Node
    <2> QED BY <1>2, <2>2
  <1>7. /\ HeadersOf(net_in'[n], o) = HeadersOf(net_in[n], o) \cup B
        /\ InTurn(net_in'[n], o, TakenOf(o, n))
    <2>1. InTurn(net_in[n], o, TakenOf(o, n))
      BY DEF Ordered
    <2>2. ComeOf(o, n) = TakenOf(o, n) \cup HeadersOf(net_in[n], o)
      BY DEF ComeOf
    <2>3. HeadersOf(Append(net_in[n], f), o) = HeadersOf(net_in[n], o) \cup B
      BY ONLY <1>1, HeadersAppend, f \in PacketFrame, o \in Node
    <2>4. InTurn(Append(net_in[n], f), o, TakenOf(o, n))
      BY ONLY <1>1, <1>6, <2>1, <2>2, TurnAppend, f \in PacketFrame, o \in Node
    <2> QED BY <1>2, <2>3, <2>4
  <1> HIDE DEF B
  <1>8. /\ ComeOf(o, n)' = ComeOf(o, n) \cup B
        /\ \A k \in Node \ {n} : ComeOf(o, k)' = ComeOf(o, k)
    BY <1>2, <1>3, <1>7 DEF ComeOf
  <1>9. /\ InTurn(wire'[m], o, ComeOf(o, lower_worker_idx(m))')
        /\ ComeOf(o, lower_worker_idx(m))' \cup HeadersOf(wire'[m], o)
               = IF m = o THEN SentOf(o) ELSE TakenOf(o, m)
        /\ HeadersOf(wire'[m], o) \subseteq PacketsFrom(o)
    <2>1. CASE m = u
      BY <1>4, <1>5, <1>6, <1>8, <2>1
    <2>2. CASE m # u
      BY <1>2, <1>4, <1>5, <1>8, <2>2
    <2> QED BY <2>1, <2>2
  <1>10. InTurn(net_in'[m], o, TakenOf(o, m)) /\ HeadersOf(net_in'[m], o) \subseteq PacketsFrom(o)
    <2>1. CASE m = n
      BY <1>5, <1>6, <1>7, <2>1
    <2>2. CASE m # n
      BY <1>2, <1>5, <2>2
    <2> QED BY <2>1, <2>2
  <1>11. HeadersOf(vertexUpdate'[m], o) \cup HeadersOf(net_in'[m], o)
             \cup HeadersOf(wire'[m], o) \subseteq PacketsFrom(o)
    BY <1>5, <1>9, <1>10
  <1> QED BY <1>3, <1>4, <1>5, <1>9, <1>10, <1>11 DEF Ordered

\* A partition has one owner, and one place in its schedule.
LEMMA OneSender ==
    ASSUME NEW o \in Node, NEW n \in Node, NEW a \in PacketsFrom(o), a \in PacketsFrom(n)
    PROVE  o = n
  BY ConstantsAssumption DEF OneOwner, PacketsFrom

LEMMA BeforeFrom ==
    ASSUME NEW o \in Node, NEW a \in PacketsFrom(o)
    PROVE  Before(a) \subseteq PacketsFrom(o)
  BY ConstantsAssumption DEF OneOwner, PacketsFrom, Before

-----------------------------------------------------------------------------
(* readProp. *)

\* The only packet that one more frame of readProp begins is that of a header.
LEMMA ReadKeepsUnread ==
    ASSUME Typed, NEW n \in Node, Reading(n), ReadProp(n),
           NEW a \in Unread, ~(NextFrame(n).head /\ NextFrame(n).addr = a)
    PROVE  a \in Unread'
  <1> PICK rd : rd = rdProp[n]
    OBVIOUS
  <1> PICK new : new = rdProp'[n]
    OBVIOUS
  <1>1. /\ rd \in [item : Nat \ {0}, i : Nat, address : Nat, frameId : 0 .. Payload]
        /\ rd.item \in Nat /\ rd.i \in Nat /\ rd.address \in Nat /\ rd.frameId \in Nat
    BY ConstantTypes DEF Typed
  <1>2. PICK k \in Nat :
            /\ rd.i = k * Payload + k + rd.frameId
            /\ rd.i < BlockNum + packets_of(BlockNum)
            /\ rd.address = k * Payload + (IF rd.frameId = 0 THEN 0 ELSE rd.frameId - 1)
    BY DEF Reading
  <1>3. /\ new = IF rd.i + 1 = BlockNum + packets_of(BlockNum)
                 THEN [item |-> rd.item + 1, i |-> 0, address |-> 0, frameId |-> 0]
                 ELSE [item |-> rd.item, i |-> rd.i + 1,
                       address |-> IF rd.frameId = 0 THEN rd.address ELSE rd.address + 1,
                       frameId |-> IF rd.frameId = Payload
                                      \/ rd.i + 1 = BlockNum + packets_of(BlockNum)
                                   THEN 0 ELSE rd.frameId + 1]
        /\ \A m \in Node \ {n} : rdProp'[m] = rdProp[m]
    BY DEF ReadProp, Typed
  <1>4. PICK m \in Node : \E j \in DOMAIN Schedule[m] :
            /\ Schedule[m][j] = a \div BlockNum
            /\ \/ j > rdProp[m].item
               \/ /\ j = rdProp[m].item
                  /\ \/ a % BlockNum > rdProp[m].address
                     \/ a % BlockNum = rdProp[m].address /\ rdProp[m].frameId = 0
    BY DEF Unread
  <1>5. PICK j \in DOMAIN Schedule[m] :
            /\ Schedule[m][j] = a \div BlockNum
            /\ \/ j > rdProp[m].item
               \/ /\ j = rdProp[m].item
                  /\ \/ a % BlockNum > rdProp[m].address
                     \/ a % BlockNum = rdProp[m].address /\ rdProp[m].frameId = 0
    BY <1>4
  <1>6. a \in Starts /\ a \in Nat /\ BlockNum \in Nat \ {0} /\ Payload \in Nat \ {0}
    BY BlockType, ConstantTypes DEF Unread, Starts
  <1>7. PICK b \in 0 .. BlockNum - 1 : b = a % BlockNum /\ a = (a \div BlockNum) * BlockNum + b
    BY <1>6, Division
  <1>8. j \in Nat
    BY <1>5, ConstantTypes
  <1>9. CASE m # n
    BY <1>3, <1>4, <1>5, <1>6, <1>9 DEF Unread
  <1>10. CASE m = n /\ rd.i + 1 = BlockNum + packets_of(BlockNum)
    <2>1. new.item = rd.item + 1 /\ new.address = 0 /\ new.frameId = 0
      BY <1>3, <1>10
    <2>2. k < packets_of(BlockNum) /\ packets_of(BlockNum) \in Nat
      <3>1. k * Payload + k + rd.frameId < BlockNum + packets_of(BlockNum)
        BY <1>2
      <3> QED BY ONLY <1>1, <3>1, ReadingBounds, PacketsOf, ConstantTypes, k \in Nat
    <2>3. rd.address >= BlockNum - 1 /\ rd.frameId # 0
      <3>1. k * Payload \in Nat
        BY <1>6
      <3>2. rd.frameId # 0
        <4>1. rd.frameId = 0 => k * Payload + k + rd.frameId + 1 < BlockNum + packets_of(BlockNum)
          BY ONLY <1>1, <1>2, ReadingBounds, ConstantTypes, k \in Nat
        <4> QED BY <1>1, <1>2, <1>6, <1>10, <2>2, <3>1, <4>1
      <3> QED BY <1>1, <1>2, <1>6, <1>10, <2>2, <3>1, <3>2
    <2>4. j > rd.item
      BY <1>1, <1>5, <1>6, <1>7, <1>10, <2>3
    <2>5. \/ j > new.item
          \/ j = new.item /\ (b > new.address \/ (b = new.address /\ new.frameId = 0))
      BY <1>1, <1>7, <1>8, <2>1, <2>4
    <2> QED BY <1>5, <1>6, <1>7, <1>10, <2>5 DEF Unread
  <1>11. CASE m = n /\ rd.i + 1 # BlockNum + packets_of(BlockNum)
    <2>1. /\ new.item = rd.item
          /\ new.address = IF rd.frameId = 0 THEN rd.address ELSE rd.address + 1
          /\ new.frameId = IF rd.frameId = Payload THEN 0 ELSE rd.frameId + 1
      BY <1>3, <1>11
    <2>2. rd.frameId = 0 /\ j = rd.item => b # rd.address
      <3>1. ASSUME rd.frameId = 0, j = rd.item, b = rd.address
            PROVE  NextFrame(n).head /\ NextFrame(n).addr = a
        BY <1>5, <1>7, <1>11, <3>1 DEF NextFrame
      <3> QED BY <3>1
    <2>3. rd.frameId # 0 /\ rd.frameId # Payload => b # rd.address + 1
      <3>1. ASSUME rd.frameId # 0, rd.frameId # Payload, b = rd.address + 1
            PROVE  FALSE
        <4>1. rd.frameId \in 0 .. Payload - 1
          BY <1>1, <1>6, <3>1
        <4>2. (k * Payload + rd.frameId) % Payload = rd.frameId
          BY <1>6, <4>1, ModUnique
        <4>3. b = k * Payload + rd.frameId
          <5>1. k * Payload \in Nat
            BY <1>6
          <5> QED BY <1>1, <1>2, <3>1, <5>1
        <4>4. b % Payload = 0
          BY <1>6, <1>7 DEF Starts, Slot
        <4> QED BY <3>1, <4>2, <4>3, <4>4
      <3> QED BY <3>1
    <2>4. \/ j > new.item
          \/ j = new.item /\ (b > new.address \/ (b = new.address /\ new.frameId = 0))
      BY <1>1, <1>5, <1>6, <1>7, <1>8, <1>11, <2>1, <2>2, <2>3
    <2> QED BY <1>5, <1>6, <1>7, <1>11, <2>4 DEF Unread
  <1> QED BY <1>9, <1>10, <1>11

\* readProp writes the headers of its packets in order.
LEMMA ReadBefore ==
    ASSUME Typed, NEW n \in Node, Reading(n), ReadProp(n), NEW f \in PacketFrame,
           f = NextFrame(n), f.head
    PROVE  f.addr \in PacketsFrom(n) /\ Before(f.addr) \subseteq ReadOf(n)
  <1>1. /\ rdProp[n].item \in DOMAIN Schedule[n] /\ rdProp[n].frameId = 0
        /\ rdProp[n].address \in 0 .. BlockNum - 1
        /\ f.addr = Schedule[n][rdProp[n].item] * BlockNum + rdProp[n].address
    BY ReadMoves DEF NextFrame
  <1>2. \A m \in Node : Schedule[m] \in Seq(Partition) /\ DOMAIN Schedule[m] \subseteq Nat
    BY ConstantTypes
  <1> PICK p \in Partition, c \in 0 .. BlockNum - 1 :
          p = Schedule[n][rdProp[n].item] /\ c = rdProp[n].address
    BY <1>1, <1>2
  <1>3. f.addr \div BlockNum = p /\ f.addr % BlockNum = c
    BY <1>1, DivOfBlock
  <1>4. f.addr \in PacketsFrom(n)
    <2>1. f.addr \in Starts
      BY FramePositions DEF PacketFrame, Starts
    <2> QED BY <1>1, <1>3, <2>1 DEF PacketsFrom
  <1>5. ASSUME NEW b \in Before(f.addr), b \in Unread
        PROVE  FALSE
    <2>1. PICK o \in Node : \E j, i \in DOMAIN Schedule[o] :
              /\ Schedule[o][j] = b \div BlockNum /\ Schedule[o][i] = f.addr \div BlockNum
              /\ j < i \/ (j = i /\ b < f.addr)
      BY <1>5 DEF Before
    <2>2. PICK j \in DOMAIN Schedule[o], i \in DOMAIN Schedule[o] :
              /\ Schedule[o][j] = b \div BlockNum /\ Schedule[o][i] = f.addr \div BlockNum
              /\ j < i \/ (j = i /\ b < f.addr)
      BY <2>1
    <2>3. o = n /\ i = rdProp[n].item
      BY <1>1, <1>3, <2>2, ConstantsAssumption DEF OneOwner
    <2>4. PICK m \in Node : \E k \in DOMAIN Schedule[m] :
              /\ Schedule[m][k] = b \div BlockNum
              /\ \/ k > rdProp[m].item
                 \/ /\ k = rdProp[m].item
                    /\ \/ b % BlockNum > rdProp[m].address
                       \/ b % BlockNum = rdProp[m].address /\ rdProp[m].frameId = 0
      BY <1>5 DEF Unread
    <2>5. PICK k \in DOMAIN Schedule[m] :
              /\ Schedule[m][k] = b \div BlockNum
              /\ \/ k > rdProp[m].item
                 \/ /\ k = rdProp[m].item
                    /\ \/ b % BlockNum > rdProp[m].address
                       \/ b % BlockNum = rdProp[m].address /\ rdProp[m].frameId = 0
      BY <2>4
    <2>6. m = n /\ k = j
      BY <2>2, <2>3, <2>5, ConstantsAssumption DEF OneOwner
    <2>7. j \in Nat /\ i \in Nat
      BY <1>2, <2>2
    <2>8. k = rdProp[n].item /\ j = i /\ b < f.addr /\ b % BlockNum >= c
      <3>1. b \in Nat /\ BlockNum \in Nat \ {0}
        BY BlockType, ConstantTypes DEF Before, Starts
      <3>2. b % BlockNum \in 0 .. BlockNum - 1
        BY <3>1, Division
      <3> QED BY <2>2, <2>3, <2>5, <2>6, <2>7, <3>2
    <2>9. b \div BlockNum = p
      BY <1>3, <2>2, <2>8
    <2>10. b < p * BlockNum + c /\ b = p * BlockNum + (b % BlockNum) /\ b % BlockNum \in Nat
      <3>1. b \in Nat /\ BlockNum \in Nat \ {0}
        BY BlockType, ConstantTypes DEF Before, Starts
      <3>2. b = (b \div BlockNum) * BlockNum + (b % BlockNum) /\ b % BlockNum \in Nat
        BY <3>1, Division
      <3> QED BY <1>1, <2>8, <2>9, <3>2
    <2>11. p * BlockNum \in Nat
      <3>1. p \in Nat /\ BlockNum \in Nat
        BY ConstantTypes DEF Partition
      <3> QED BY <3>1
    <2> QED BY <2>8, <2>10, <2>11
  <1>6. Before(f.addr) \subseteq PacketsFrom(n)
    BY <1>4, BeforeFrom
  <1> QED BY <1>4, <1>5, <1>6 DEF ReadOf

LEMMA ReadOrdered ==
    ASSUME Typed, NEW n \in Node, Bounded(n), Reading(n), ReadProp(n),
           NEW o \in Node, OwnOrdered(o), \A k \in Node : Ordered(o, k)
    PROVE  /\ SentOf(o)' = SentOf(o) /\ OwnOrdered(o)'
           /\ \A m \in Node : Ordered(o, m)'
  <1> PICK f \in PacketFrame : f = NextFrame(n)
    BY ReadFrame
  <1>1. /\ f.node = n /\ f.addr \in Block
        /\ vertexTrans' = [vertexTrans EXCEPT ![n] = Append(vertexTrans[n], f)]
        /\ UNCHANGED <<wire, net_in, vertexUpdate, wrProp, vertexProp>>
        /\ vertexTrans \in [Node -> Seq(PacketFrame)]
    BY ReadFrame, FramePositions, ZenonT(40) DEF ReadProp, transVars, netVars, writeVars, Typed
  <1>2. /\ Unread' \subseteq Unread
        /\ f.head => f.addr \in Unread /\ f.addr \notin Unread'
        /\ f.head => f.addr \in PacketsFrom(n) /\ Before(f.addr) \subseteq ReadOf(n)
        /\ \A a \in Unread : ~(f.head /\ f.addr = a) => a \in Unread'
    BY ReadUnread, ReadBefore, ReadKeepsUnread
  <1>3. f.node # o => Begun(f, o) = {} /\ ~HeaderOf(f, o)
    BY DEF Begun, HeaderOf
  <1>4. f.head /\ n # o => f.addr \notin PacketsFrom(o)
    BY <1>2, OneSender
  <1>5. PacketsFrom(o)' = PacketsFrom(o)
    BY DEF PacketsFrom
  <1>6. ReadOf(o)' = ReadOf(o) \cup Begun(f, o)
    BY <1>1, <1>2, <1>4, <1>5 DEF ReadOf, Begun, HeaderOf
  <1>7. HeaderOf(f, o) => f.addr \notin ReadOf(o) /\ Before(f.addr) \subseteq ReadOf(o)
    BY <1>1, <1>2 DEF ReadOf, HeaderOf
  <1>8. /\ InTurn(vertexTrans[o], o, SentOf(o)) /\ HeadersOf(vertexTrans[o], o) \subseteq ReadOf(o)
        /\ SentOf(o) = ReadOf(o) \ HeadersOf(vertexTrans[o], o)
        /\ SentOf(o)' = ReadOf(o)' \ HeadersOf(vertexTrans'[o], o)
        /\ SentOf(o) \cup HeadersOf(vertexTrans[o], o) = ReadOf(o)
    BY DEF OwnOrdered, SentOf
  <1>9. /\ HeadersOf(vertexTrans'[o], o) = HeadersOf(vertexTrans[o], o) \cup Begun(f, o)
        /\ InTurn(vertexTrans'[o], o, SentOf(o))
    <2>1. CASE o # n
      BY <1>1, <1>3, <1>8, <2>1
    <2>2. CASE o = n
      <3>1. vertexTrans[n] \in Seq(PacketFrame) /\ vertexTrans'[n] = Append(vertexTrans[n], f)
        BY <1>1
      <3>2. HeaderOf(f, o) =>
                /\ f.addr \notin SentOf(o) \cup HeadersOf(vertexTrans[n], o)
                /\ Before(f.addr) \subseteq SentOf(o) \cup HeadersOf(vertexTrans[n], o)
        BY <1>7, <1>8, <2>2
      <3>3. InTurn(vertexTrans[n], o, SentOf(o))
        BY <1>8, <2>2
      <3>4. /\ HeadersOf(Append(vertexTrans[n], f), o)
                   = HeadersOf(vertexTrans[n], o) \cup Begun(f, o)
            /\ InTurn(Append(vertexTrans[n], f), o, SentOf(o))
        BY ONLY <3>1, <3>2, <3>3, TurnAppend, f \in PacketFrame, o \in Node
      <3> QED BY <2>2, <3>1, <3>4
    <2> QED BY <2>1, <2>2
  <1>10. SentOf(o)' = SentOf(o)
    <2>1. Begun(f, o) \cap ReadOf(o) = {}
      BY <1>7 DEF Begun
    <2> QED BY <1>6, <1>8, <1>9, <2>1
  <1>11. OwnOrdered(o)'
    <2>1. HeadersOf(vertexTrans'[o], o) \subseteq ReadOf(o)'
      BY <1>6, <1>8, <1>9
    <2> QED BY <1>9, <1>10, <2>1 DEF OwnOrdered
  <1>12. \A k \in Node : /\ WrittenOf(o, k)' = WrittenOf(o, k) /\ TakenOf(o, k)' = TakenOf(o, k)
                         /\ ComeOf(o, k)' = ComeOf(o, k)
    BY <1>1, WrittenKept DEF TakenOf, ComeOf
  <1>13. ASSUME NEW m \in Node
         PROVE  Ordered(o, m)'
    <2>1. lower_worker_idx(m) \in Node /\ lower_worker_idx(m)' = lower_worker_idx(m)
      BY Neighbours DEF lower_worker_idx
    <2> QED BY <1>1, <1>5, <1>10, <1>12, <2>1 DEF Ordered
  <1> QED BY <1>10, <1>11, <1>13

-----------------------------------------------------------------------------
(* writeProp. *)

\* Packets stay as they are but for the one that writeProp begins.
LEMMA WriteProgress ==
    ASSUME IInv, NEW n \in Node, InOrder(n), \A a \in Starts : OnePlace(n, a),
           WriteProp(n), NEW f, f = Head(vertexUpdate[n]), NEW o \in Node,
           f.head => (f.addr \in PacketsFrom(o) <=> f.node = o)
    PROVE  /\ Got(n) \subseteq Got(n)'
           /\ WrittenOf(o, n)' = WrittenOf(o, n) \cup Begun(f, o)
           /\ \A a \in Starts : Current(n, a)' => Current(n, a) \/ (f.head /\ f.addr = a)
  <1>1. /\ Typed /\ Framing /\ Writing(n)
        /\ wrProp[n] \in [state : {"firstFrame", "remainFrame"}, address : Block,
                          offset : 0 .. Payload, process_packet_num : 0 .. packet_num]
        /\ wrProp[n].state = "firstFrame" => f.head /\ f.addr \in Starts
        /\ wrProp[n].state # "firstFrame" => ~f.head
    BY WriteFrame DEF IInv
  <1>2. PacketsFrom(o)' = PacketsFrom(o)
    BY DEF PacketsFrom
  <1>3. PacketsFrom(o) \subseteq Starts
    BY DEF PacketsFrom
  <1>4. CASE WritePropFirst(n)
    <2>1. /\ wrProp[n].state = "firstFrame" /\ vertexProp' = vertexProp
          /\ wrProp'[n].state = "remainFrame" /\ wrProp'[n].address = f.addr
      BY <1>1, <1>4 DEF WritePropFirst, Typed
    <2>2. Got(n)' = Got(n)
      BY <2>1 DEF Got
    <2>3. \A a : ~Current(n, a) /\ (Current(n, a)' <=> a = f.addr)
      BY <2>1 DEF Current
    <2>4. WrittenOf(o, n)' = {a \in PacketsFrom(o) : a = f.addr \/ a \in Got(n)}
      BY <1>2, <2>2, <2>3 DEF WrittenOf
    <2>5. WrittenOf(o, n) = {a \in PacketsFrom(o) : a \in Got(n)}
      BY <2>3 DEF WrittenOf
    <2>6. Begun(f, o) = {a \in PacketsFrom(o) : a = f.addr}
      BY <1>1, <2>1 DEF Begun, HeaderOf
    <2>7. WrittenOf(o, n)' = WrittenOf(o, n) \cup Begun(f, o)
      BY <2>4, <2>5, <2>6
    <2> QED BY <1>1, <2>1, <2>2, <2>3, <2>7
  <1>5. CASE WritePropRemain(n)
    <2> PICK s : s = wrProp[n].address
      OBVIOUS
    <2>1. /\ Current(n, s)
          /\ f.last => Got(n)' = Got(n) \cup {s} /\ \A a : ~Current(n, a)'
          /\ ~f.last => Got(n)' = Got(n) /\ \A a : Current(n, a)' <=> Current(n, a)
      BY <1>1, <1>5, StoreFrame
    <2>2. ~f.head
      BY <1>1, <1>5 DEF WritePropRemain
    <2>3. Begun(f, o) = {}
      BY <2>2 DEF Begun, HeaderOf
    <2>4. \A a : Current(n, a) => a = s
      BY DEF Current
    <2>5. WrittenOf(o, n)' = {a \in PacketsFrom(o) : Current(n, a)' \/ a \in Got(n)'}
      BY <1>2 DEF WrittenOf
    <2>6. WrittenOf(o, n) = {a \in PacketsFrom(o) : Current(n, a) \/ a \in Got(n)}
      BY DEF WrittenOf
    <2>7. \A a : (Current(n, a)' \/ a \in Got(n)') <=> (Current(n, a) \/ a \in Got(n))
      BY <2>1, <2>4
    <2>8. WrittenOf(o, n)' = WrittenOf(o, n)
      BY <2>5, <2>6, <2>7
    <2> QED BY <2>1, <2>3, <2>8
  <1> QED BY <1>4, <1>5 DEF WriteProp

\* A header on its way to writeProp is one of its sender's.
LEMMA HeaderSender ==
    ASSUME Typed, NEW n \in Node, vertexUpdate[n] # <<>>, NEW f \in PacketFrame,
           f = Head(vertexUpdate[n]), f.head, \A o \in Node : Ordered(o, n), NEW o \in Node
    PROVE  f.addr \in PacketsFrom(o) <=> f.node = o
  <1>1. f.node \in Node
    BY FramePositions
  <1>2. f.addr \in PacketsFrom(f.node)
    <2>1. vertexUpdate[n] \in Seq(PacketFrame)
      BY DEF Typed
    <2>2. HeadersOf(vertexUpdate[n], f.node)
              = Begun(f, f.node) \cup HeadersOf(Tail(vertexUpdate[n]), f.node)
      BY ONLY <1>1, <2>1, HeadersTail, vertexUpdate[n] # <<>>, f = Head(vertexUpdate[n])
    <2>3. f.addr \in Begun(f, f.node)
      BY DEF Begun, HeaderOf
    <2>4. HeadersOf(vertexUpdate[n], f.node) \subseteq PacketsFrom(f.node)
      BY <1>1 DEF Ordered
    <2> QED BY <2>2, <2>3, <2>4
  <1> QED BY <1>1, <1>2, OneSender

LEMMA WriteOrdered ==
    ASSUME IInv, NEW n \in Node, InOrder(n), \A a \in Starts : OnePlace(n, a),
           WriteProp(n), \A o, k \in Node : Ordered(o, k), NEW o \in Node, OwnOrdered(o)
    PROVE  /\ OwnOrdered(o)' /\ SentOf(o)' = SentOf(o)
           /\ \A m \in Node : Ordered(o, m)'
  <1> PICK f : f = Head(vertexUpdate[n])
    OBVIOUS
  <1>1. /\ Typed /\ Framing /\ Writing(n) /\ f \in PacketFrame /\ vertexUpdate[n] # <<>>
        /\ vertexUpdate' = Pop(vertexUpdate, n)
        /\ UNCHANGED <<rdProp, vertexTrans, wire, net_in>>
        /\ vertexUpdate \in [Node -> Seq(PacketFrame)]
    BY WriteFrame DEF IInv, Typed
  <1>2. SentOf(o)' = SentOf(o) /\ ReadOf(o)' = ReadOf(o)
    BY <1>1, SentKept
  <1>3. OwnOrdered(o)'
    BY <1>1, <1>2 DEF OwnOrdered
  <1>4. f.head => (f.addr \in PacketsFrom(o) <=> f.node = o)
    BY <1>1, HeaderSender
  <1> DEFINE B == Begun(f, o)
  <1>5. /\ WrittenOf(o, n)' = WrittenOf(o, n) \cup B
        /\ \A k \in Node \ {n} : WrittenOf(o, k)' = WrittenOf(o, k)
    <2>1. WrittenOf(o, n)' = WrittenOf(o, n) \cup B
      BY <1>4, WriteProgress
    <2>2. ASSUME NEW k \in Node, k # n
          PROVE  WrittenOf(o, k)' = WrittenOf(o, k)
      BY <1>1, <2>2, WriteOthers, WrittenKept
    <2> QED BY <2>1, <2>2
  <1>6. /\ vertexUpdate'[n] = Tail(vertexUpdate[n])
        /\ \A k \in Node \ {n} : vertexUpdate'[k] = vertexUpdate[k]
    BY <1>1 DEF Pop
  <1>7. /\ HeadersOf(vertexUpdate[n], o) = B \cup HeadersOf(vertexUpdate'[n], o)
        /\ InTurn(vertexUpdate'[n], o, WrittenOf(o, n) \cup B)
    <2>1. /\ vertexUpdate[n] \in Seq(PacketFrame) /\ vertexUpdate[n] # <<>>
          /\ InTurn(vertexUpdate[n], o, WrittenOf(o, n))
      BY <1>1 DEF Ordered
    <2>2. /\ HeadersOf(vertexUpdate[n], o) = B \cup HeadersOf(Tail(vertexUpdate[n]), o)
          /\ InTurn(Tail(vertexUpdate[n]), o, WrittenOf(o, n) \cup B)
      BY ONLY <2>1, TurnHead, f = Head(vertexUpdate[n]), o \in Node
    <2> QED BY <1>6, <2>2
  <1> HIDE DEF B
  <1>8. \A k \in Node : TakenOf(o, k)' = TakenOf(o, k)
    BY <1>5, <1>6, <1>7 DEF TakenOf
  <1>9. \A k \in Node : ComeOf(o, k)' = ComeOf(o, k)
    BY <1>1, <1>8 DEF ComeOf
  <1>10. ASSUME NEW m \in Node
         PROVE  Ordered(o, m)'
    <2>1. /\ lower_worker_idx(m) \in Node /\ lower_worker_idx(m)' = lower_worker_idx(m)
          /\ PacketsFrom(o)' = PacketsFrom(o)
      BY Neighbours DEF lower_worker_idx, PacketsFrom
    <2>2. InTurn(vertexUpdate'[m], o, WrittenOf(o, m)')
      <3>1. CASE m = n
        BY <1>5, <1>7, <3>1
      <3>2. CASE m # n
        BY <1>5, <1>6, <3>2 DEF Ordered
      <3> QED BY <3>1, <3>2
    <2>3. HeadersOf(vertexUpdate'[m], o) \subseteq HeadersOf(vertexUpdate[m], o)
      BY <1>6, <1>7
    <2>4. Ordered(o, m)
      OBVIOUS
    <2> QED BY <1>1, <1>2, <1>8, <1>9, <2>1, <2>2, <2>3, <2>4 DEF Ordered
  <1> QED BY <1>2, <1>3, <1>10

LEMMA WriteStored ==
    ASSUME IInv, NEW n \in Node, InOrder(n), \A a \in Starts : OnePlace(n, a),
           WriteProp(n), \A o, k \in Node : Ordered(o, k), NEW m \in Node, StoredBefore(m)
    PROVE  StoredBefore(m)'
  <1>1. Typed /\ Framing /\ Writing(n)
    BY DEF IInv
  <1>2. CASE m # n
    BY <1>1, <1>2, WriteOthers DEF StoredBefore, Current, Got
  <1>3. CASE m = n
    <2> PICK f : f = Head(vertexUpdate[n])
      OBVIOUS
    <2>1. /\ f \in PacketFrame /\ vertexUpdate[n] # <<>>
          /\ wrProp[n].state # "firstFrame" => ~f.head
          /\ vertexUpdate[n] \in Seq(PacketFrame)
      BY <1>1, WriteFrame DEF Typed
    <2>2. f.node \in Node
      BY <2>1, FramePositions
    <2>3. f.head => (f.addr \in PacketsFrom(f.node) <=> f.node = f.node)
      BY <1>1, <2>1, <2>2, HeaderSender
    <2>4. /\ Got(n) \subseteq Got(n)'
          /\ \A a \in Starts : Current(n, a)' => Current(n, a) \/ (f.head /\ f.addr = a)
      BY <2>2, <2>3, WriteProgress
    <2>5. ASSUME f.head
          PROVE  Before(f.addr) \subseteq Got(n)
      <3>1. InTurn(vertexUpdate[n], f.node, WrittenOf(f.node, n))
        BY <2>2 DEF Ordered
      <3>2. HeaderOf(f, f.node) => Before(f.addr) \subseteq WrittenOf(f.node, n)
        BY ONLY <2>1, <2>2, <3>1, TurnHead, f = Head(vertexUpdate[n])
      <3>3. \A a : ~Current(n, a)
        BY <2>1, <2>5 DEF Current
      <3> QED BY <2>5, <3>2, <3>3 DEF HeaderOf, WrittenOf
    <2>6. ASSUME NEW a \in Starts, Current(n, a)'
          PROVE  Before(a) \subseteq Got(n)'
      BY <1>3, <2>4, <2>5, <2>6 DEF StoredBefore
    <2> QED BY <1>3, <2>6 DEF StoredBefore
  <1> QED BY <1>2, <1>3

-----------------------------------------------------------------------------
(* The invariant, as long as no packet is lost. *)

LEMMA NothingGot == Init => \A n \in Node : Got(n) = {} /\ \A a : ~Current(n, a)
  <1>1. Init => \A n \in Node : \A a \in Block : vertexProp[n][a] # a
    BY BlockType DEF Init, NoBlock
  <1>2. \A a \in Starts : a \in Block /\ PacketStart(a) = a
    BY Packets DEF Starts
  <1> QED BY <1>1, <1>2 DEF Init, Got, Current

LEMMA OrderInit == Init => OrderInv
  <1> SUFFICES ASSUME Init
               PROVE  OrderInv
    OBVIOUS
  <1>1. DeliveryInv
    BY DeliveryInit
  <1>2. \A o, n \in Node :
            /\ HeadersOf(vertexTrans[n], o) = {} /\ HeadersOf(wire[n], o) = {}
            /\ HeadersOf(net_in[n], o) = {} /\ HeadersOf(vertexUpdate[n], o) = {}
            /\ \A gone : /\ InTurn(vertexTrans[n], o, gone) /\ InTurn(wire[n], o, gone)
                         /\ InTurn(net_in[n], o, gone) /\ InTurn(vertexUpdate[n], o, gone)
    <2>1. \A q : q = <<>> => 1 .. Len(q) = {}
      OBVIOUS
    <2> QED BY <2>1 DEF Init, HeadersOf, InTurn
  <1>3. \A n \in Node : Got(n) = {} /\ \A a : ~Current(n, a)
    BY NothingGot
  <1>4. ASSUME NEW o \in Node
        PROVE  ReadOf(o) = {}
    <2>1. ASSUME NEW a \in PacketsFrom(o)
          PROVE  a \in Unread
      <3>1. PICK k \in DOMAIN Schedule[o] : Schedule[o][k] = a \div BlockNum
        BY DEF PacketsFrom
      <3>2. k \in Nat /\ k >= 1
        BY ConstantTypes
      <3>3. a \in Starts /\ a % BlockNum \in Nat
        BY BlockType, ConstantTypes, Division DEF PacketsFrom, Starts
      <3>4. rdProp[o].item = 1 /\ rdProp[o].address = 0 /\ rdProp[o].frameId = 0
        BY DEF Init
      <3>5. \/ k > rdProp[o].item
            \/ /\ k = rdProp[o].item
               /\ \/ a % BlockNum > rdProp[o].address
                  \/ a % BlockNum = rdProp[o].address /\ rdProp[o].frameId = 0
        BY <3>2, <3>3, <3>4
      <3> QED BY <3>1, <3>3, <3>5 DEF Unread
    <2> QED BY <2>1 DEF ReadOf
  <1>5. ASSUME NEW o \in Node
        PROVE  OwnOrdered(o) /\ StoredBefore(o) /\ SentOf(o) = {}
    BY <1>2, <1>3, <1>4 DEF OwnOrdered, StoredBefore, SentOf
  <1>6. ASSUME NEW o \in Node, NEW n \in Node
        PROVE  WrittenOf(o, n) = {} /\ TakenOf(o, n) = {} /\ ComeOf(o, n) = {}
    BY <1>2, <1>3 DEF WrittenOf, TakenOf, ComeOf
  <1>7. ASSUME NEW o \in Node, NEW n \in Node
        PROVE  Ordered(o, n)
    <2>1. lower_worker_idx(n) \in Node
      BY Neighbours
    <2> QED BY <1>2, <1>5, <1>6, <2>1 DEF Ordered
  <1> QED BY <1>1, <1>5, <1>7 DEF OrderInv

\* What one step does to the packets of o.
LEMMA SenderStep ==
    ASSUME OrderInv, NoPacketLost', [Next]_vars, NEW o \in Node
    PROVE  /\ OwnOrdered(o)' /\ StoredBefore(o)' /\ \A m \in Node : Ordered(o, m)'
           /\ \/ SentOf(o)' = SentOf(o)
              \/ /\ UNCHANGED <<wrProp, vertexProp>>
                 /\ \A p \in Node \ {o} : SentOf(p)' = SentOf(p)
                 /\ \E a \in PacketsFrom(o) :
                        /\ a \notin SentOf(o) /\ Before(a) \subseteq SentOf(o)
                        /\ SentOf(o)' = SentOf(o) \cup {a}
  <1>1. /\ IInv /\ Typed /\ OwnOrdered(o) /\ StoredBefore(o)
        /\ \A p, k \in Node : Ordered(p, k)
        /\ \A p \in Node : OwnOrdered(p)
        /\ \A p \in Node : Balanced(p) /\ InOrder(p) /\ Bounded(p) /\ Reading(p)
        /\ \A p \in Node : \A a \in Starts : OnePlace(p, a)
    BY DEF OrderInv, DeliveryInv, CreditInv, IInv
  <1>2. ASSUME UNCHANGED <<wrProp, vertexProp>>
        PROVE  StoredBefore(o)'
    BY <1>1, <1>2 DEF StoredBefore, Current, Got
  <1>3. ASSUME UNCHANGED <<rdProp, vertexTrans>>
        PROVE  OwnOrdered(o)' /\ SentOf(o)' = SentOf(o)
    BY <1>1, <1>3, SentKept DEF OwnOrdered
  <1>4. ASSUME NEW n \in Node, ReadProp(n)
        PROVE  /\ OwnOrdered(o)' /\ StoredBefore(o)' /\ \A m \in Node : Ordered(o, m)'
               /\ SentOf(o)' = SentOf(o)
    BY <1>1, <1>2, <1>4, ReadOrdered DEF ReadProp, writeVars
  <1>5. ASSUME NEW n \in Node, NEW f \in PacketFrame, MovesOwn(n, f)
        PROVE  /\ OwnOrdered(o)' /\ StoredBefore(o)' /\ \A m \in Node : Ordered(o, m)'
               /\ \/ SentOf(o)' = SentOf(o)
                  \/ /\ UNCHANGED <<wrProp, vertexProp>>
                     /\ \A p \in Node \ {o} : SentOf(p)' = SentOf(p)
                     /\ \E a \in PacketsFrom(o) :
                            /\ a \notin SentOf(o) /\ Before(a) \subseteq SentOf(o)
                            /\ SentOf(o)' = SentOf(o) \cup {a}
    <2>1. /\ vertexTrans[n] # <<>> /\ f = Head(vertexTrans[n]) /\ f.node = n
          /\ vertexTrans' = Pop(vertexTrans, n) /\ wire' = Push(wire, n, f)
          /\ UNCHANGED <<rdProp, net_in, vertexUpdate, wrProp, vertexProp>>
      BY <1>5 DEF MovesOwn
    <2>2. ASSUME NEW p \in Node
          PROVE  /\ OwnOrdered(p)' /\ \A m \in Node : Ordered(p, m)'
                 /\ SentOf(p)' = SentOf(p) \cup Begun(f, p)
                 /\ HeaderOf(f, p) =>
                        f.addr \notin SentOf(p) /\ Before(f.addr) \subseteq SentOf(p)
      BY <1>1, <2>1, OwnOrderedStep
    <2>3. CASE ~HeaderOf(f, o)
      BY <1>2, <2>1, <2>2, <2>3 DEF Begun
    <2>4. CASE HeaderOf(f, o)
      <3>1. Begun(f, o) = {f.addr} /\ \A p \in Node \ {o} : Begun(f, p) = {}
        BY <2>4 DEF Begun, HeaderOf
      <3>2. f.addr \in PacketsFrom(o)
        <4>1. vertexTrans[n] \in Seq(PacketFrame) /\ o = n
          BY <1>1, <2>1, <2>4 DEF Typed, HeaderOf
        <4>2. HeadersOf(vertexTrans[n], o) = Begun(f, o) \cup HeadersOf(Tail(vertexTrans[n]), o)
          BY ONLY <2>1, <4>1, HeadersTail, o \in Node
        <4> QED BY <1>1, <3>1, <4>1, <4>2 DEF OwnOrdered, ReadOf
      <3>3. /\ f.addr \notin SentOf(o) /\ Before(f.addr) \subseteq SentOf(o)
            /\ SentOf(o)' = SentOf(o) \cup {f.addr}
            /\ \A p \in Node \ {o} : SentOf(p)' = SentOf(p)
        <4>1. \A p \in Node \ {o} : SentOf(p)' = SentOf(p) \cup {}
          BY <2>2, <3>1
        <4> QED BY <2>2, <2>4, <3>1, <4>1
      <3>4. OwnOrdered(o)' /\ StoredBefore(o)' /\ \A m \in Node : Ordered(o, m)'
        BY <1>2, <2>1, <2>2
      <3> QED BY <2>1, <3>2, <3>3, <3>4
    <2> QED BY <2>3, <2>4
  <1>6. ASSUME NEW n \in Node, NEW f \in PacketFrame, MovesHome(n, f) \/ MovesOn(n, f)
        PROVE  /\ OwnOrdered(o)' /\ StoredBefore(o)' /\ \A m \in Node : Ordered(o, m)'
               /\ SentOf(o)' = SentOf(o)
    <2>1. /\ net_in[n] # <<>> /\ f = Head(net_in[n])
          /\ net_in' = Pop(net_in, n) /\ vertexUpdate' = Push(vertexUpdate, n, f)
          /\ UNCHANGED <<rdProp, vertexTrans, wrProp, vertexProp>>
          /\ \/ UNCHANGED wire /\ (f.head => f.node = n)
             \/ wire' = Push(wire, n, f) /\ (f.head => f.node # n)
      BY <1>6 DEF MovesHome, MovesOn
    <2>2. \A m \in Node : Ordered(o, m)'
      BY <1>1, <2>1, TakeOrdered
    <2> QED BY <1>2, <1>3, <2>1, <2>2
  <1>7. ASSUME NEW n \in Node, Arrive(n)
        PROVE  /\ OwnOrdered(o)' /\ StoredBefore(o)' /\ \A m \in Node : Ordered(o, m)'
               /\ SentOf(o)' = SentOf(o)
    <2> PICK u \in Node : u = upper_worker_idx(n)
      BY Neighbours
    <2> PICK f : f = Head(wire[u])
      OBVIOUS
    <2>1. /\ wire[u] # <<>> /\ wire' = Pop(wire, u) /\ net_in' = Push(net_in, n, f)
          /\ UNCHANGED <<rdProp, vertexTrans, vertexUpdate, wrProp, vertexProp>>
      BY <1>7 DEF Arrive, readVars, writeVars
    <2>2. f \in PacketFrame
      BY <1>1, <2>1, PopIsCut DEF Typed
    <2>3. \A m \in Node : Ordered(o, m)'
      BY <1>1, <2>1, <2>2, ArriveOrdered
    <2> QED BY <1>2, <1>3, <2>1, <2>3
  <1>8. ASSUME NEW n \in Node, Drop(n)
        PROVE  FALSE
    BY <1>8 DEF Drop, NoPacketLost
  <1>9. ASSUME NEW n \in Node, WriteProp(n)
        PROVE  /\ OwnOrdered(o)' /\ StoredBefore(o)' /\ \A m \in Node : Ordered(o, m)'
               /\ SentOf(o)' = SentOf(o)
    BY <1>1, <1>9, WriteOrdered, WriteStored
  <1>10. ASSUME Terminated \/ UNCHANGED vars
         PROVE  /\ OwnOrdered(o)' /\ StoredBefore(o)' /\ \A m \in Node : Ordered(o, m)'
                /\ SentOf(o)' = SentOf(o)
    <2>1. UNCHANGED vars
      BY <1>10 DEF Terminated
    <2>2. \A m \in Node : lower_worker_idx(m) \in Node /\ lower_worker_idx(m)' = lower_worker_idx(m)
      BY Neighbours DEF lower_worker_idx
    <2>3. \A m \in Node : /\ WrittenOf(o, m)' = WrittenOf(o, m) /\ TakenOf(o, m)' = TakenOf(o, m)
                          /\ ComeOf(o, m)' = ComeOf(o, m)
      BY <2>1, WrittenKept DEF TakenOf, ComeOf, vars
    <2>4. PacketsFrom(o)' = PacketsFrom(o)
      BY DEF PacketsFrom
    <2>5. SentOf(o)' = SentOf(o) /\ OwnOrdered(o)' /\ StoredBefore(o)'
      BY <1>2, <1>3, <2>1 DEF vars
    <2> QED BY <1>1, <2>1, <2>2, <2>3, <2>4, <2>5 DEF Ordered, vars
  <1>11. ASSUME NEW n \in Node, GlobalTrans(n)
         PROVE  \E f \in PacketFrame : MovesOwn(n, f) \/ MovesHome(n, f) \/ MovesOn(n, f)
    BY <1>1, <1>11, TransMoves
  <1> QED BY <1>4, <1>5, <1>6, <1>7, <1>8, <1>9, <1>10, <1>11 DEF Next

LEMMA OrderNext == OrderInv /\ NoPacketLost' /\ [Next]_vars => OrderInv'
  <1> SUFFICES ASSUME OrderInv, NoPacketLost', [Next]_vars
               PROVE  OrderInv'
    OBVIOUS
  <1>1. DeliveryInv'
    BY DeliveryNext DEF OrderInv
  <1>2. ASSUME NEW o \in Node
        PROVE  OwnOrdered(o)' /\ StoredBefore(o)' /\ \A m \in Node : Ordered(o, m)'
    BY SenderStep
  <1> QED BY <1>1, <1>2 DEF OrderInv

\* The packets of a sender come in order everywhere in the ring, if the net_in FIFOs
\* have room for all packets that the credits admit.
THEOREM SendersInOrder == EnoughRoom => (Spec => []OrderInv)
  <1> SUFFICES ASSUME EnoughRoom
               PROVE  Spec => []OrderInv
    OBVIOUS
  <1>1. Spec => []NoPacketLost
    BY CreditsPreventLoss
  <1> QED BY <1>1, OrderInit, OrderNext, PTL DEF Spec

-----------------------------------------------------------------------------
(* The packets of RingRefinement and those of the invariant. *)

\* The packets by their headers, and their blocks.
LEMMA PacketHeaders ==
    /\ \A h \in Packet : /\ h.node \in Node /\ h.addr \in PacketsFrom(h.node)
                         /\ h = Header(h.node, h.addr)
    /\ \A n \in Node : \A a \in PacketsFrom(n) : Header(n, a) \in Packet
  <1>1. ASSUME NEW h \in Packet
        PROVE  /\ h.node \in Node /\ h.addr \in PacketsFrom(h.node)
               /\ h = Header(h.node, h.addr)
    <2>1. PICK n \in Node : \E k \in DOMAIN Schedule[n] :
              \E j \in 0 .. packets_of(BlockNum) - 1 :
                  h = Header(n, Schedule[n][k] * BlockNum + j * Payload)
      BY DEF Packet
    <2>2. PICK k \in DOMAIN Schedule[n], j \in 0 .. packets_of(BlockNum) - 1 :
              h = Header(n, Schedule[n][k] * BlockNum + j * Payload)
      BY <2>1
    <2>3. Schedule[n] \in Seq(Partition) /\ BlockNum \in Nat \ {0} /\ Payload \in Nat \ {0}
      BY ConstantTypes
    <2> PICK p \in Partition : p = Schedule[n][k]
      BY <2>2, <2>3
    <2>4. j \in Nat /\ j < packets_of(BlockNum)
      <3>1. packets_of(BlockNum) \in Nat
        BY PacketsOf
      <3> QED BY <3>1
    <2>5. j * Payload < BlockNum
      BY ONLY <2>4, PacketsOf
    <2>6. j * Payload \in Nat
      BY <2>3, <2>4
    <2> PICK b \in 0 .. BlockNum - 1 : b = j * Payload
      BY <2>3, <2>5, <2>6
    <2>7. 0 \in 0 .. Payload - 1 /\ b = j * Payload + 0
      BY <2>3
    <2>8. p * BlockNum + b \in Block /\ Slot(p * BlockNum + b) = 0
      BY ONLY <2>4, <2>7, SlotOfBlock, p \in Partition, b \in 0 .. BlockNum - 1
    <2>9. (p * BlockNum + b) \div BlockNum = p
      BY DivOfBlock
    <2>10. h = Header(n, p * BlockNum + b)
      BY <2>2
    <2>11. p * BlockNum + b \in PacketsFrom(n)
      BY <2>8, <2>9 DEF PacketsFrom, Starts
    <2> QED BY <2>10, <2>11 DEF Header
  <1>2. ASSUME NEW n \in Node, NEW a \in PacketsFrom(n)
        PROVE  Header(n, a) \in Packet
    <2>1. a \in Block /\ Slot(a) = 0
      BY DEF PacketsFrom, Starts
    <2>2. PICK k \in DOMAIN Schedule[n] : Schedule[n][k] = a \div BlockNum
      BY DEF PacketsFrom
    <2>3. PICK p \in Partition : \E j \in Nat : \E r \in 0 .. Payload - 1 :
              \E b \in 0 .. BlockNum - 1 :
                  /\ b = j * Payload + r /\ j * Payload \in 0 .. BlockNum - 1
                  /\ a = p * BlockNum + b
                  /\ p = a \div BlockNum
      BY <2>1, BlockParts
    <2>4. PICK j \in Nat, r \in 0 .. Payload - 1, b \in 0 .. BlockNum - 1 :
              /\ b = j * Payload + r /\ j * Payload \in 0 .. BlockNum - 1
              /\ a = p * BlockNum + b
              /\ p = a \div BlockNum
      BY <2>3
    <2>5. Slot(p * BlockNum + b) = r
      <3>1. b = j * Payload + r
        BY <2>4
      <3> QED BY ONLY <3>1, SlotOfBlock, p \in Partition, j \in Nat, r \in 0 .. Payload - 1,
                 b \in 0 .. BlockNum - 1
    <2>6. r = 0
      BY <2>1, <2>4, <2>5
    <2>7. a = Schedule[n][k] * BlockNum + j * Payload
      <3>1. j * Payload \in Nat
        BY <2>4
      <3> QED BY <2>2, <2>4, <2>6, <3>1
    <2>8. j < packets_of(BlockNum)
      <3>1. j * Payload < BlockNum
        BY <2>4, ConstantTypes
      <3> QED BY ONLY <3>1, PacketsOf, j \in Nat
    <2>9. j \in 0 .. packets_of(BlockNum) - 1
      BY <2>8, PacketsOf
    <2> QED BY <2>7, <2>9 DEF Packet
  <1> QED BY <1>1, <1>2

LEMMA PacketBlocks ==
    ASSUME NEW h \in Packet
    PROVE  Blocks(h) = {b \in Block : PacketStart(b) = h.addr}
  <1>1. h.addr \in Block /\ Slot(h.addr) = 0
    BY PacketHeaders DEF PacketsFrom, Starts
  <1> PICK a \in Block : a = h.addr
    BY <1>1
  <1>2. PICK p \in Partition : \E j \in Nat : \E r \in 0 .. Payload - 1 :
            \E b \in 0 .. BlockNum - 1 :
                /\ b = j * Payload + r /\ j * Payload \in 0 .. BlockNum - 1
                /\ a = p * BlockNum + b
                /\ p = a \div BlockNum /\ b = a % BlockNum
    BY BlockParts
  <1>3. PICK j \in Nat, r \in 0 .. Payload - 1, b \in 0 .. BlockNum - 1 :
            /\ b = j * Payload + r /\ j * Payload \in 0 .. BlockNum - 1
            /\ a = p * BlockNum + b
            /\ p = a \div BlockNum /\ b = a % BlockNum
    BY <1>2
  <1>4. Slot(p * BlockNum + b) = r
    <2>1. b = j * Payload + r
      BY <1>3
    <2> QED BY ONLY <2>1, SlotOfBlock, p \in Partition, j \in Nat, r \in 0 .. Payload - 1,
               b \in 0 .. BlockNum - 1
  <1>5. r = 0
    BY <1>1, <1>3, <1>4
  <1>6. /\ BlockNum \in Nat \ {0} /\ Payload \in Nat \ {0} /\ p \in Nat
        /\ p * BlockNum \in Nat /\ j * Payload \in Nat
    <2>1. BlockNum \in Nat \ {0} /\ Payload \in Nat \ {0} /\ p \in Nat
      BY ConstantTypes DEF Partition
    <2> QED BY <2>1
  <1>7. b = j * Payload /\ a = p * BlockNum + j * Payload
    BY <1>3, <1>5, <1>6
  <1> PICK P \in Nat, J \in Nat : P = p * BlockNum /\ J = j * Payload
    BY <1>6
  <1>8. Blocks(h) = P + J .. P + ((IF J + Payload < BlockNum THEN J + Payload ELSE BlockNum) - 1)
    BY <1>3, <1>7 DEF Blocks, LastOffset
  <1>9. ASSUME NEW x \in Blocks(h)
        PROVE  x \in Block /\ PacketStart(x) = h.addr
    <2>1. x \in Nat /\ x - P - J \in 0 .. Payload - 1 /\ x - P \in 0 .. BlockNum - 1
          /\ J + (x - P - J) = x - P /\ P + (x - P) = x
      <3>1. BlockNum \in Nat \ {0} /\ Payload \in Nat \ {0}
        BY <1>6
      <3>2. x \in P + J .. P + ((IF J + Payload < BlockNum THEN J + Payload ELSE BlockNum) - 1)
        BY <1>8, <1>9
      <3> QED BY ONLY <3>1, <3>2, P \in Nat, J \in Nat
    <2> PICK s \in 0 .. Payload - 1, y \in 0 .. BlockNum - 1 : s = x - P - J /\ y = x - P
      BY <2>1
    <2>2. y = j * Payload + s /\ x = p * BlockNum + y
      BY <2>1
    <2>3. p * BlockNum + y \in Block /\ PacketStart(p * BlockNum + y) = p * BlockNum + j * Payload
      BY <2>2, SlotOfBlock
    <2> QED BY <1>7, <2>2, <2>3
  <1>10. ASSUME NEW x \in Block, PacketStart(x) = h.addr
         PROVE  x \in Blocks(h)
    <2>1. PICK s \in 0 .. Payload - 1 :
              j * Payload + s \in 0 .. BlockNum - 1 /\ x = p * BlockNum + (j * Payload + s)
      <3>1. PacketStart(x) = p * BlockNum + j * Payload /\ j * Payload \in 0 .. BlockNum - 1
        BY <1>3, <1>7, <1>10
      <3> QED BY ONLY <3>1, SamePacket, p \in Partition, j \in Nat, x \in Block
    <2>2. J + s \in 0 .. BlockNum - 1 /\ x = P + (J + s)
      BY <2>1
    <2> QED BY <1>6, <1>8, <2>2
  <1> QED BY <1>9, <1>10

\* What Broadcast says of packets is what the invariant says of their addresses.
SameView ==
    /\ {h \in Packet : Sent(h)} = {h \in Packet : h.addr \in SentOf(h.node)}
    /\ gotBar = [n \in Node |-> {h \in Packet : h.addr \in Got(n)}]

EarlierPackets ==
    [h \in Packet |->
        {g \in Packet : /\ g.node = h.node
                        /\ \/ Item(g) < Item(h)
                           \/ Item(g) = Item(h) /\ g.addr < h.addr}]

LEMMA ItemIs ==
    ASSUME NEW h \in Packet
    PROVE  /\ h.node \in Node /\ Item(h) \in DOMAIN Schedule[h.node] /\ Item(h) \in Nat
           /\ Schedule[h.node][Item(h)] = h.addr \div BlockNum
           /\ \A n \in Node : \A k \in DOMAIN Schedule[n] :
                  Schedule[n][k] = h.addr \div BlockNum => n = h.node /\ k = Item(h)
  <1>1. h.node \in Node /\ h.addr \in PacketsFrom(h.node)
    BY PacketHeaders
  <1>2. PICK k \in DOMAIN Schedule[h.node] : Schedule[h.node][k] = h.addr \div BlockNum
    BY <1>1 DEF PacketsFrom
  <1>3. /\ Item(h) \in DOMAIN Schedule[h.node]
        /\ Schedule[h.node][Item(h)] = h.addr \div BlockNum
    BY <1>2 DEF Item
  <1>4. Item(h) \in Nat
    BY <1>1, <1>3, ConstantTypes
  <1> QED BY <1>1, <1>3, <1>4, ConstantsAssumption DEF OneOwner

LEMMA SentAddress ==
    ASSUME Typed, NEW h \in Packet
    PROVE  Sent(h) <=> h.addr \in SentOf(h.node)
  <1> PICK n \in Node : n = h.node
    BY PacketHeaders
  <1> PICK a \in PacketsFrom(n) : a = h.addr /\ h = Header(n, a)
    BY PacketHeaders
  <1>1. Produced(h) <=> a \notin Unread
    <2> PICK rd : rd = rdProp[n]
      OBVIOUS
    <2>1. rd.item \in Nat /\ rd.address \in Nat /\ rd.frameId \in Nat
      <3>1. rd \in [item : Nat \ {0}, i : Nat, address : Nat, frameId : 0 .. Payload]
        BY DEF Typed
      <3> QED BY <3>1, ConstantTypes
    <2>2. a \in Starts /\ a % BlockNum \in Nat
      <3>1. a \in Starts /\ a \in Nat /\ BlockNum \in Nat \ {0}
        BY BlockType, ConstantTypes DEF PacketsFrom, Starts
      <3> QED BY <3>1, Division
    <2> PICK k \in Nat, c \in Nat : k = Item(h) /\ c = a % BlockNum
      BY <2>2, ItemIs
    <2>3. a \in Unread <=> k > rd.item \/ (k = rd.item /\ (c > rd.address \/ (c = rd.address /\ rd.frameId = 0)))
      <3>1. ASSUME a \in Unread
            PROVE  k > rd.item \/ (k = rd.item /\ (c > rd.address \/ (c = rd.address /\ rd.frameId = 0)))
        BY <3>1, ItemIs DEF Unread
      <3>2. ASSUME k > rd.item \/ (k = rd.item /\ (c > rd.address \/ (c = rd.address /\ rd.frameId = 0)))
            PROVE  a \in Unread
        BY <2>2, <3>2, ItemIs DEF Unread
      <3> QED BY <3>1, <3>2
    <2>4. Produced(h) <=> k < rd.item \/ (k = rd.item /\ (c < rd.address \/ (c = rd.address /\ rd.frameId > 0)))
      BY DEF Produced
    <2> QED BY <2>1, <2>3, <2>4
  <1>2. Holds(vertexTrans[n], h) <=> a \in HeadersOf(vertexTrans[n], n)
    <2>1. /\ vertexTrans[n] \in Seq(PacketFrame)
          /\ DOMAIN vertexTrans[n] = 1 .. Len(vertexTrans[n])
          /\ \A i \in 1 .. Len(vertexTrans[n]) : vertexTrans[n][i] \in PacketFrame
      BY DEF Typed
    <2>2. ASSUME NEW f \in PacketFrame
          PROVE  f = h <=> HeaderOf(f, n) /\ f.addr = a
      <3>1. f \in Frame /\ (f.head => f.last = FALSE)
        BY FramePositions
      <3> QED BY <3>1 DEF Frame, Header, HeaderOf
    <2> QED BY <2>1, <2>2 DEF Holds, HeadersOf
  <1> QED BY <1>1, <1>2 DEF Sent, SentOf, ReadOf

LEMMA SameViews == OrderInv => SameView
  <1> SUFFICES ASSUME OrderInv
               PROVE  SameView
    OBVIOUS
  <1>1. Typed
    BY DEF OrderInv, DeliveryInv, CreditInv, IInv
  <1>2. {h \in Packet : Sent(h)} = {h \in Packet : h.addr \in SentOf(h.node)}
    BY <1>1, SentAddress
  <1>3. ASSUME NEW n \in Node, NEW h \in Packet
        PROVE  (\A a \in Blocks(h) : vertexProp[n][a] = a) <=> h.addr \in Got(n)
    <2>1. h.addr \in Starts
      BY PacketHeaders DEF PacketsFrom
    <2> QED BY <2>1, PacketBlocks DEF Got
  <1> QED BY <1>2, <1>3 DEF SameView, gotBar

\* A packet that is stored now was sent, and no other is its equal.
LEMMA CurrentSent ==
    ASSUME Typed, NEW n \in Node, NEW a \in Starts, OnePlace(n, a), Current(n, a)
    PROVE  \E o \in Node : a \in PacketsFrom(o) /\ a \in SentOf(o)
  <1>1. PICK o \in Node : a \in PacketsFrom(o)
    <2>1. PICK p \in Partition : p = a \div BlockNum
      BY BlockParts DEF Starts
    <2> QED BY <2>1, ConstantsAssumption DEF OneOwner, PacketsFrom
  <1>2. PICK t, w, i, v \in Nat, r, c, g, l \in {0, 1} :
            /\ t = Cardinality(Marked(vertexTrans, Anywhere(a)))
            /\ w = Cardinality(Marked(wire, OnWire(n, a)))
            /\ i = Cardinality(Marked(net_in, InNet(n, a)))
            /\ v = Cardinality(Marked(vertexUpdate, AtNode(n, a)))
            /\ r = One(a \in Unread) /\ c = One(Current(n, a))
            /\ g = One(a \in Got(n)) /\ l = One(Lost(n, a))
            /\ r + t + w + i + v + c + g + l <= 1
    BY PlacesOld, ZenonT(40)
  <1>3. c = 1 /\ r + t + w + i + v + c + g + l <= 1
    BY <1>2 DEF One
  <1>4. t = 0 /\ r = 0
    BY ONLY <1>3, t \in Nat, w \in Nat, i \in Nat, v \in Nat, r \in {0, 1},
            c \in {0, 1}, g \in {0, 1}, l \in {0, 1}
  <1>5. a \notin Unread
    BY <1>2, <1>4 DEF One
  <1>6. Marked(vertexTrans, Anywhere(a)) = {}
    <2>1. \A S : IsFiniteSet(S) => (Cardinality(S) = 0 <=> S = {})
      BY FS_EmptySet
    <2> QED BY <1>2, <1>4, <2>1 DEF OnePlace
  <1>7. a \notin HeadersOf(vertexTrans[o], o)
    <2>1. ASSUME NEW x \in 1 .. Len(vertexTrans[o]), HeaderOf(vertexTrans[o][x], o),
                 vertexTrans[o][x].addr = a
          PROVE  FALSE
      <3>1. vertexTrans[o][x] \in PacketFrame /\ vertexTrans \in [Node -> Seq(PacketFrame)]
        <4>1. vertexTrans \in [Node -> Seq(PacketFrame)]
          BY DEF Typed
        <4>2. vertexTrans[o] \in Seq(PacketFrame)
          BY <4>1
        <4> QED BY <4>1, <4>2
      <3>2. <<o, vertexTrans[o][x]>> \notin Anywhere(a)
        BY <1>6, <3>1, NoneMarked
      <3> QED BY <2>1, <3>1, <3>2 DEF Anywhere, HeaderOf
    <2> QED BY <2>1 DEF HeadersOf
  <1> QED BY <1>1, <1>5, <1>7 DEF SentOf, ReadOf

LEMMA EarlierBefore ==
    ASSUME NEW h \in Packet, NEW g \in EarlierPackets[h]
    PROVE  g \in Packet /\ g.node = h.node /\ g.addr \in Before(h.addr)
  <1>1. g \in Packet /\ g.node = h.node /\ (Item(g) < Item(h) \/ (Item(g) = Item(h) /\ g.addr < h.addr))
    BY DEF EarlierPackets
  <1>2. g.addr \in Starts
    BY <1>1, PacketHeaders DEF PacketsFrom
  <1>3. /\ h.node \in Node
        /\ Item(h) \in DOMAIN Schedule[h.node] /\ Schedule[h.node][Item(h)] = h.addr \div BlockNum
        /\ Item(g) \in DOMAIN Schedule[h.node] /\ Schedule[h.node][Item(g)] = g.addr \div BlockNum
    BY <1>1, ItemIs
  <1> QED BY <1>1, <1>2, <1>3 DEF Before

-----------------------------------------------------------------------------
(* Every step is a step of Broadcast or changes nothing that it sees. *)

published == {h \in Packet : Sent(h)}

\* Nothing was sent and nothing was stored in full.
LEMMA UnseenStep ==
    ASSUME SameView, SameView', \A o \in Node : SentOf(o)' = SentOf(o),
           \A m \in Node : /\ Got(m)' = Got(m)
                           /\ wrProp'[m].process_packet_num = wrProp[m].process_packet_num
    PROVE  UNCHANGED Delivery!vars
  <1>1. Packet' = Packet
    BY DEF Packet, Header, packets_of
  <1>2. published' = published
    BY <1>1, PacketHeaders DEF SameView, published
  <1>3. gotBar' = gotBar
    BY <1>1 DEF SameView
  <1> QED BY <1>2, <1>3 DEF Delivery!vars, published

LEMMA PublishStep ==
    ASSUME SameView, SameView', NEW o \in Node, NEW a \in PacketsFrom(o),
           a \notin SentOf(o), Before(a) \subseteq SentOf(o), SentOf(o)' = SentOf(o) \cup {a},
           \A p \in Node \ {o} : SentOf(p)' = SentOf(p),
           UNCHANGED <<wrProp, vertexProp>>
    PROVE  Delivery!Next
  <1> PICK h \in Packet : h = Header(o, a)
    BY PacketHeaders
  <1>1. h.node = o /\ h.addr = a
    BY DEF Header
  <1>2. Packet' = Packet
    BY DEF Packet, Header, packets_of
  <1>3. published = {x \in Packet : x.addr \in SentOf(x.node)}
    BY DEF SameView, published
  <1>4. published' = {x \in Packet : x.addr \in SentOf(x.node)'}
    BY <1>2 DEF SameView, published
  <1>5. h \notin published
    BY <1>1, <1>3
  <1>6. EarlierPackets[h] \subseteq published
    BY <1>1, <1>3, EarlierBefore
  <1>7. published' = published \cup {h}
    <2>1. ASSUME NEW x \in Packet
          PROVE  x.addr \in SentOf(x.node)' <=> x.addr \in SentOf(x.node) \/ x = h
      <3>1. x.node \in Node /\ x = Header(x.node, x.addr)
        BY PacketHeaders
      <3> QED BY <1>1, <3>1
    <2> QED BY <1>3, <1>4, <2>1
  <1>8. UNCHANGED <<gotBar, [n \in Node |-> wrProp[n].process_packet_num]>>
    BY <1>2 DEF gotBar, Blocks, LastOffset
  <1>9. Delivery!Publish(h)
    BY <1>5, <1>6, <1>7, <1>8 DEF Delivery!Publish, EarlierPackets, published
  <1> QED BY <1>9 DEF Delivery!Next

LEMMA DeliverStep ==
    ASSUME SameView, SameView', NEW n \in Node, NEW o \in Node, NEW a \in PacketsFrom(o),
           a \in SentOf(o), a \notin Got(n), Before(a) \subseteq Got(n),
           \A p \in Node : SentOf(p)' = SentOf(p),
           Got(n)' = Got(n) \cup {a},
           wrProp'[n].process_packet_num = wrProp[n].process_packet_num + 1,
           \A m \in Node \ {n} : wrProp'[m] = wrProp[m] /\ Got(m)' = Got(m)
    PROVE  Delivery!Next
  <1> PICK h \in Packet : h = Header(o, a)
    BY PacketHeaders
  <1>1. h.node = o /\ h.addr = a
    BY DEF Header
  <1>2. Packet' = Packet
    BY DEF Packet, Header, packets_of
  <1>3. /\ published = {x \in Packet : x.addr \in SentOf(x.node)}
        /\ gotBar = [m \in Node |-> {x \in Packet : x.addr \in Got(m)}]
    BY DEF SameView, published
  <1>4. /\ published' = {x \in Packet : x.addr \in SentOf(x.node)'}
        /\ gotBar' = [m \in Node |-> {x \in Packet : x.addr \in Got(m)'}]
    BY <1>2 DEF SameView, published
  <1>5. published' = published
    BY <1>3, <1>4, PacketHeaders
  <1>6. h \in published \ gotBar[n]
    BY <1>1, <1>3
  <1>7. EarlierPackets[h] \subseteq gotBar[n]
    BY <1>1, <1>3, EarlierBefore
  <1>8. gotBar' = [gotBar EXCEPT ![n] = @ \cup {h}]
    <2>1. ASSUME NEW x \in Packet
          PROVE  x.addr = a <=> x = h
      <3>1. x.node \in Node /\ x.addr \in PacketsFrom(x.node) /\ x = Header(x.node, x.addr)
        BY PacketHeaders
      <3> QED BY <1>1, <3>1, OneSender
    <2>2. {x \in Packet : x.addr \in Got(n)'} = {x \in Packet : x.addr \in Got(n)} \cup {h}
      BY <2>1
    <2> QED BY <1>3, <1>4, <2>2, ZenonT(40)
  <1>9. [m \in Node |-> wrProp[m].process_packet_num]'
            = [[m \in Node |-> wrProp[m].process_packet_num] EXCEPT ![n] = @ + 1]
    OBVIOUS
  <1>10. Delivery!Deliver(n, h)
    BY <1>5, <1>6, <1>7, <1>8, <1>9 DEF Delivery!Deliver, EarlierPackets, published
  <1> QED BY <1>10 DEF Delivery!Next

\* What a step of writeProp stores in full.
LEMMA WriteRefines ==
    ASSUME OrderInv, SameView, SameView', NEW n \in Node, WriteProp(n),
           \A o \in Node : SentOf(o)' = SentOf(o)
    PROVE  Delivery!Next \/ UNCHANGED Delivery!vars
  <1>1. /\ Typed /\ Framing /\ Writing(n) /\ InOrder(n) /\ StoredBefore(n)
        /\ \A a \in Starts : OnePlace(n, a)
    BY DEF OrderInv, DeliveryInv, CreditInv, IInv
  <1>2. ASSUME NEW m \in Node, m # n
        PROVE  wrProp'[m] = wrProp[m] /\ Got(m)' = Got(m)
    BY <1>1, <1>2, WriteOthers DEF Got
  <1>3. ASSUME Got(n)' = Got(n),
               wrProp'[n].process_packet_num = wrProp[n].process_packet_num
        PROVE  UNCHANGED Delivery!vars
    <2>1. \A m \in Node : /\ Got(m)' = Got(m)
                          /\ wrProp'[m].process_packet_num = wrProp[m].process_packet_num
      BY <1>2, <1>3
    <2> QED BY <2>1, UnseenStep
  <1>4. CASE WritePropFirst(n)
    <2>1. vertexProp' = vertexProp
      BY <1>4 DEF WritePropFirst
    <2>2. Got(n)' = Got(n)
      BY <2>1 DEF Got
    <2>3. wrProp'[n].process_packet_num = wrProp[n].process_packet_num
      BY <1>1, <1>4 DEF WritePropFirst, Typed
    <2> QED BY <1>3, <2>2, <2>3
  <1>5. CASE WritePropRemain(n)
    <2> PICK f : f = Head(vertexUpdate[n])
      OBVIOUS
    <2> PICK s : s = wrProp[n].address
      OBVIOUS
    <2>1. /\ Current(n, s) /\ s \notin Got(n)
          /\ f.last => /\ Got(n)' = Got(n) \cup {s}
                       /\ wrProp'[n].process_packet_num = wrProp[n].process_packet_num + 1
          /\ ~f.last => /\ Got(n)' = Got(n)
                        /\ wrProp'[n].process_packet_num = wrProp[n].process_packet_num
      BY <1>1, <1>5, StoreFrame
    <2>2. CASE ~f.last
      BY <1>3, <2>1, <2>2
    <2>3. CASE f.last
      <3>1. s \in Starts
        BY <1>1, <1>5, WriteFrame DEF WritePropRemain, WriteProp
      <3>2. PICK o \in Node : s \in PacketsFrom(o) /\ s \in SentOf(o)
        BY <1>1, <2>1, <3>1, CurrentSent
      <3>3. Before(s) \subseteq Got(n)
        BY <1>1, <2>1, <3>1 DEF StoredBefore
      <3> QED BY <1>2, <2>1, <2>3, <3>2, <3>3, DeliverStep
    <2> QED BY <2>2, <2>3
  <1> QED BY <1>4, <1>5 DEF WriteProp

LEMMA BroadcastNext ==
    ASSUME OrderInv, SameView, SameView', NoPacketLost', [Next]_vars
    PROVE  [Delivery!Next]_(Delivery!vars)
  <1>1. CASE \E o \in Node : SentOf(o)' # SentOf(o)
    <2> PICK o \in Node : SentOf(o)' # SentOf(o)
      BY <1>1
    <2>1. /\ UNCHANGED <<wrProp, vertexProp>>
          /\ \A p \in Node \ {o} : SentOf(p)' = SentOf(p)
          /\ \E a \in PacketsFrom(o) :
                 /\ a \notin SentOf(o) /\ Before(a) \subseteq SentOf(o)
                 /\ SentOf(o)' = SentOf(o) \cup {a}
      BY SenderStep
    <2> QED BY <2>1, PublishStep
  <1>2. CASE \A o \in Node : SentOf(o)' = SentOf(o)
    <2>1. ASSUME NEW n \in Node, WriteProp(n)
          PROVE  Delivery!Next \/ UNCHANGED Delivery!vars
      BY <1>2, <2>1, WriteRefines
    <2>2. ASSUME ~\E n \in Node : WriteProp(n)
          PROVE  UNCHANGED Delivery!vars
      <3>1. UNCHANGED <<wrProp, vertexProp>>
        BY <2>2 DEF Next, Terminated, vars, ReadProp, GlobalTrans, FirstFrameSame,
             FirstFrameOther, FirstFrameOwn, RemainFrameSame, RemainFrameOther, OnlySend,
             Arrive, Drop, writeVars
      <3>2. \A m \in Node : Got(m)' = Got(m)
        BY <3>1 DEF Got
      <3> QED BY <1>2, <3>1, <3>2, UnseenStep
    <2> QED BY <2>1, <2>2
  <1> QED BY <1>1, <1>2

LEMMA BroadcastInit == Init => Delivery!Init
  <1> SUFFICES ASSUME Init
               PROVE  Delivery!Init
    OBVIOUS
  <1>1. OrderInv /\ SameView
    BY OrderInit, SameViews
  <1>2. \A o \in Node : SentOf(o) = {}
    <2>1. \A o \in Node : /\ ComeOf(o, lower_worker_idx(o)) \cup HeadersOf(wire[o], o) = SentOf(o)
                          /\ lower_worker_idx(o) \in Node
      BY <1>1, Neighbours DEF OrderInv, Ordered
    <2>2. \A q, o : q = <<>> => HeadersOf(q, o) = {}
      <3>1. \A q : q = <<>> => 1 .. Len(q) = {}
        OBVIOUS
      <3> QED BY <3>1 DEF HeadersOf
    <2>3. \A m \in Node : Got(m) = {} /\ \A a : ~Current(m, a)
      BY NothingGot
    <2>4. \A o, m \in Node : WrittenOf(o, m) = {}
      BY <2>3 DEF WrittenOf
    <2> QED BY <2>1, <2>2, <2>4 DEF ComeOf, TakenOf, Init
  <1>3. \A m \in Node : Got(m) = {}
    BY NothingGot
  <1>4. published = {} /\ gotBar = [m \in Node |-> {}]
    BY <1>1, <1>2, <1>3, PacketHeaders DEF SameView, published
  <1>5. [m \in Node |-> wrProp[m].process_packet_num] = [m \in Node |-> 0]
    BY DEF Init
  <1> QED BY <1>4, <1>5 DEF Delivery!Init, published

(***************************************************************************)
(* globalTrans, the network and writeProp keep the promise that the host   *)
(* builds its supersteps on: every packet that was sent is stored once by  *)
(* every node, in the order of its sender, and process_packet_num counts   *)
(* the packets that are stored.                                            *)
(***************************************************************************)
THEOREM RingBroadcasts == EnoughRoom => (Spec => ImplementsBroadcast)
  <1> SUFFICES ASSUME EnoughRoom
               PROVE  Spec => ImplementsBroadcast
    OBVIOUS
  <1>1. Spec => []NoPacketLost
    BY CreditsPreventLoss
  <1>2. Spec => []OrderInv
    BY SendersInOrder
  <1>3. OrderInv => SameView
    BY SameViews
  <1>4. OrderInv /\ SameView /\ SameView' /\ NoPacketLost' /\ [Next]_vars
            => [Delivery!Next]_(Delivery!vars)
    BY BroadcastNext
  <1> QED BY <1>1, <1>2, <1>3, <1>4, BroadcastInit, PTL
          DEF Spec, Delivery!Spec, ImplementsBroadcast

-----------------------------------------------------------------------------
(* A packet's header, its blocks and its last frame. *)

LEMMA SamePartition ==
    ASSUME NEW a \in Block, NEW b \in Block, PacketStart(a) = PacketStart(b)
    PROVE  a \div BlockNum = b \div BlockNum
  <1>1. PICK p \in Partition, k \in Nat, r \in 0 .. Payload - 1, c \in 0 .. BlockNum - 1 :
            /\ c = k * Payload + r /\ k * Payload \in 0 .. BlockNum - 1
            /\ a = p * BlockNum + c /\ p = a \div BlockNum
    BY BlockParts
  <1>2. PacketStart(a) = p * BlockNum + k * Payload
    BY <1>1, SlotOfBlock
  <1>3. PICK s \in 0 .. Payload - 1 :
            k * Payload + s \in 0 .. BlockNum - 1 /\ b = p * BlockNum + (k * Payload + s)
    BY <1>1, <1>2, SamePacket, ZenonT(40)
  <1>4. b \div BlockNum = p
    BY <1>3, DivOfBlock
  <1> QED BY <1>1, <1>4

\* The first frame of a packet and its last one are like no others.
LEMMA EndsOfPacket ==
    ASSUME NEW h \in Packet, NEW f \in SenderFrame
    PROVE  /\ f.head /\ f.addr = h.addr <=> f = h
           /\ f.last /\ PacketStart(f.addr) = h.addr <=> f = LastFrame(h)
           /\ ~LastFrame(h).head /\ LastFrame(h).last /\ h.head /\ ~h.last
  <1>1. /\ h.node \in Node /\ h.addr \in Block /\ Slot(h.addr) = 0
        /\ h = Header(h.node, h.addr)
    BY PacketHeaders DEF PacketsFrom, Starts
  <1>2. f \in PacketFrame /\ f \in Frame /\ f.addr \in Block /\ Computes(f.node, f.addr)
        /\ f.node \in Node /\ (f.head => ~f.last) /\ f.head \in BOOLEAN /\ f.last \in BOOLEAN
    BY FramePositions DEF SenderFrame
  <1>3. ASSUME f.addr \div BlockNum = h.addr \div BlockNum
        PROVE  f.node = h.node
    BY <1>2, <1>3, ItemIs DEF Computes
  <1>4. PacketStart(h.addr) = h.addr
    BY <1>1, Packets
  <1>5. f = [node |-> f.node, addr |-> f.addr, head |-> f.head, last |-> f.last]
    BY <1>2 DEF Frame
  <1>6. f.head /\ f.addr = h.addr => f = h
    BY <1>1, <1>2, <1>3, <1>5 DEF Header
  <1> PICK e : e = (h.addr \div BlockNum) * BlockNum + LastOffset(h)
    OBVIOUS
  <1>7. /\ Blocks(h) = h.addr .. e
        /\ LastFrame(h) = [node |-> h.node, addr |-> e, head |-> FALSE, last |-> TRUE]
    BY DEF Blocks, LastFrame
  <1>8. Blocks(h) = {b \in Block : PacketStart(b) = h.addr}
    BY PacketBlocks
  <1>9. h.addr \in Blocks(h)
    BY <1>1, <1>4, <1>8
  <1>10. h.addr \in Nat /\ e \in Int /\ h.addr <= e
    <2>1. h.addr \in Nat
      BY <1>1, BlockType
    <2>2. BlockNum \in Nat \ {0} /\ Payload \in Nat
      BY ConstantTypes
    <2>3. h.addr \div BlockNum \in Nat /\ h.addr % BlockNum \in Nat
      BY ONLY <2>1, <2>2, Division
    <2>4. e \in Int
      <3>1. (h.addr \div BlockNum) * BlockNum \in Nat
        BY <2>2, <2>3
      <3>2. LastOffset(h) \in Int
        BY <2>2, <2>3 DEF LastOffset
      <3> QED BY <3>1, <3>2
    <2> QED BY <1>7, <1>9, <2>1, <2>4
  <1>11. e \in Blocks(h)
    BY <1>7, <1>10
  <1>12. ASSUME f.last, PacketStart(f.addr) = h.addr
         PROVE  f = LastFrame(h)
    <2>1. f.addr \in Blocks(h)
      BY <1>2, <1>8, <1>12
    <2>2. e \in Block /\ PacketStart(e) = PacketStart(f.addr)
      BY <1>8, <1>11, <1>12
    <2>3. e <= f.addr
      BY <1>2, <1>12, <2>2 DEF PacketFrame
    <2>4. f.addr = e
      BY <1>7, <1>10, <2>1, <2>3
    <2>5. f.node = h.node
      <3>1. f.addr \div BlockNum = h.addr \div BlockNum
        BY <1>1, <1>2, <1>4, <1>12, SamePartition
      <3> QED BY <1>3, <3>1
    <2>6. f.head = FALSE /\ f.last = TRUE
      BY <1>2, <1>12
    <2> QED BY <1>5, <1>7, <2>4, <2>5, <2>6
  <1>13. ASSUME f = LastFrame(h)
         PROVE  f.last /\ PacketStart(f.addr) = h.addr
    <2>1. f.addr = e /\ f.last
      BY <1>7, <1>13
    <2> QED BY <1>8, <1>11, <2>1
  <1>14. ~LastFrame(h).head /\ LastFrame(h).last
    BY <1>7
  <1>15. h.head /\ ~h.last
    BY <1>1 DEF Header
  <1> QED BY <1>6, <1>12, <1>13, <1>14, <1>15

LEMMA HeaderPacket ==
    ASSUME NEW f \in SenderFrame, f.head
    PROVE  f \in Packet /\ f.addr \in Starts /\ f.node \in Node
  <1>1. f \in PacketFrame /\ f \in Frame /\ f.node \in Node /\ f.addr \in Block
        /\ ~f.last /\ Computes(f.node, f.addr) /\ f.head = TRUE /\ f.last = FALSE
    BY FramePositions DEF SenderFrame
  <1>2. Slot(f.addr) = 0
    BY <1>1 DEF PacketFrame
  <1>3. f.addr \in PacketsFrom(f.node)
    BY <1>1, <1>2 DEF PacketsFrom, Starts, Computes
  <1>4. f = Header(f.node, f.addr)
    BY <1>1 DEF Frame, Header
  <1> QED BY <1>1, <1>2, <1>3, <1>4, PacketHeaders DEF Starts

-----------------------------------------------------------------------------
(* The header behind a frame, and the last frame ahead of it. *)

LEMMA FlowFront ==
    ASSUME NEW q \in Seq(PacketFrame), NEW a, NEW b, Flow(q, a, b), NEW j \in 1 .. Len(q)
    PROVE  LET p == SubSeq(q, 1, j - 1)
           IN  /\ p \in Seq(PacketFrame) /\ Len(p) = j - 1
               /\ \A i \in 1 .. j - 1 : p[i] = q[i]
               /\ Flow(p, a, At(q[j]))
  <1> DEFINE p == SubSeq(q, 1, j - 1)
  <1>1. /\ p \in Seq(PacketFrame) /\ Len(p) = j - 1 /\ Len(q) \in Nat
        /\ \A i \in 1 .. j - 1 : p[i] = q[i]
    OBVIOUS
  <1> HIDE DEF p
  <1>2. p = <<>> => a = At(q[j])
    <2>1. p = <<>> => j = 1
      BY <1>1
    <2>2. q # <<>>
      OBVIOUS
    <2> QED BY <2>1, <2>2 DEF Flow
  <1>3. ASSUME p # <<>>
        PROVE  At(p[1]) = a /\ After(p[Len(p)]) = At(q[j])
    <2>1. j - 1 \in 1 .. Len(q) - 1 /\ 1 \in 1 .. j - 1 /\ q # <<>> /\ j - 1 + 1 = j
      BY <1>1, <1>3
    <2>2. After(q[j - 1]) = At(q[j - 1 + 1]) /\ At(q[1]) = a
      BY <2>1 DEF Flow
    <2> QED BY <1>1, <2>1, <2>2
  <1>4. ASSUME NEW i \in 1 .. Len(p) - 1
        PROVE  After(p[i]) = At(p[i + 1])
    <2>1. i \in 1 .. Len(q) - 1 /\ i \in 1 .. j - 1 /\ i + 1 \in 1 .. j - 1
      BY <1>1
    <2> QED BY <1>1, <2>1 DEF Flow
  <1> QED BY <1>1, <1>2, <1>3, <1>4 DEF p, Flow

\* The frames before position b of a packet lead back to its header, or to the
\* other end of the FIFO.
LEMMA BackFromEnd ==
    ASSUME NEW q \in Seq(PacketFrame), NEW a, NEW b \in Position, Flow(q, a, b),
           b # Boundary
    PROVE  \/ \E i \in 1 .. Len(q) : q[i].head /\ q[i].addr = PacketStart(b)
           \/ a # Boundary /\ PacketStart(a) = PacketStart(b)
  <1> DEFINE Back(p, c) == \/ \E i \in 1 .. Len(p) : p[i].head /\ p[i].addr = PacketStart(c)
                           \/ a # Boundary /\ PacketStart(a) = PacketStart(c)
             S == {k \in Nat : \E p \in Seq(PacketFrame) : \E c \in Position :
                       Len(p) = k /\ Flow(p, a, c) /\ c # Boundary /\ ~Back(p, c)}
  <1>1. SUFFICES ASSUME S # {}
                 PROVE  FALSE
    <2>1. Len(q) \in Nat
      OBVIOUS
    <2> QED BY <2>1
  <1>2. PICK k \in S : \A j \in S : k <= j
    <2>1. S \in SUBSET Nat
      OBVIOUS
    <2> HIDE DEF S
    <2> QED BY <1>1, <2>1, LeastNatural
  <1>3. PICK p \in Seq(PacketFrame), c \in Position :
            k \in Nat /\ Len(p) = k /\ Flow(p, a, c) /\ c # Boundary /\ ~Back(p, c)
    OBVIOUS
  <1> HIDE DEF S
  <1>4. p # <<>>
    BY <1>3 DEF Flow
  <1>5. k \in 1 .. Len(p) /\ k - 1 \in Nat /\ k \in Nat
    BY <1>3, <1>4
  <1> PICK f \in PacketFrame : f = p[k]
    BY <1>5
  <1>6. After(f) = c
    BY <1>3, <1>4 DEF Flow
  <1>7. ~f.last
    BY <1>3, <1>6, FramePositions
  <1>8. ~f.head
    <2> SUFFICES ASSUME f.head
                 PROVE  FALSE
      OBVIOUS
    <2>1. f.addr = c /\ f.addr \in Block /\ Slot(f.addr) = 0
      BY <1>6, FramePositions
    <2>2. f.addr = PacketStart(c)
      BY <2>1, Packets
    <2> QED BY <1>3, <1>5, <2>2
  <1>9. f.addr \in Block /\ f.addr + 1 = c /\ f.addr = At(f) /\ f.addr + 1 \in Block
        /\ Slot(f.addr + 1) = Slot(f.addr) + 1
    BY <1>6, <1>7, <1>8, FramePositions DEF PacketFrame
  <1>10. PacketStart(c) = PacketStart(f.addr)
    BY <1>9, SamePacketNext
  <1> PICK o : o = SubSeq(p, 1, k - 1)
    OBVIOUS
  <1>11. /\ o \in Seq(PacketFrame) /\ Len(o) = k - 1 /\ Flow(o, a, At(f))
         /\ \A i \in 1 .. k - 1 : o[i] = p[i]
    BY <1>3, <1>5, FlowFront
  <1>12. f.addr \in Position /\ f.addr # Boundary
    BY <1>8, <1>9, FramePositions
  <1>13. ~Back(o, f.addr)
    <2>1. \A i \in 1 .. k - 1 : i \in 1 .. Len(p)
      BY <1>3
    <2> QED BY <1>3, <1>10, <1>11, <2>1
  <1>14. k - 1 \in S
    BY <1>5, <1>9, <1>11, <1>12, <1>13 DEF S
  <1> QED BY <1>2, <1>5, <1>14

LEMMA BackFromFrame ==
    ASSUME NEW q \in Seq(PacketFrame), NEW a, NEW b, Flow(q, a, b),
           NEW j \in 1 .. Len(q), ~q[j].head
    PROVE  \/ \E i \in 1 .. Len(q) :
                  i < j /\ q[i].head /\ q[i].addr = PacketStart(q[j].addr)
           \/ a # Boundary /\ PacketStart(a) = PacketStart(q[j].addr)
  <1>1. q[j] \in PacketFrame
    OBVIOUS
  <1>2. At(q[j]) = q[j].addr /\ At(q[j]) \in Position /\ At(q[j]) # Boundary
    BY <1>1, FramePositions
  <1> PICK p : p = SubSeq(q, 1, j - 1)
    OBVIOUS
  <1>3. /\ p \in Seq(PacketFrame) /\ Len(p) = j - 1 /\ Flow(p, a, At(q[j]))
        /\ \A i \in 1 .. j - 1 : p[i] = q[i]
    BY FlowFront
  <1>4. \/ \E i \in 1 .. Len(p) : p[i].head /\ p[i].addr = PacketStart(q[j].addr)
        \/ a # Boundary /\ PacketStart(a) = PacketStart(q[j].addr)
    BY <1>2, <1>3, BackFromEnd, ZenonT(40)
  <1>5. \A i \in 1 .. Len(p) : i \in 1 .. Len(q) /\ i < j /\ p[i] = q[i]
    BY <1>3
  <1> QED BY <1>4, <1>5

\* The frames from position a of a packet lead to its last frame, or to the other
\* end of the FIFO.
LEMMA AheadToLast ==
    ASSUME NEW q \in Seq(PacketFrame), NEW a \in Position, NEW b, Flow(q, a, b),
           a # Boundary
    PROVE  \/ \E i \in 1 .. Len(q) :
                  q[i].last /\ ~q[i].head /\ PacketStart(q[i].addr) = PacketStart(a)
           \/ /\ b # Boundary /\ PacketStart(b) = PacketStart(a)
              /\ \A i \in 1 .. Len(q) : ~q[i].last
  <1> DEFINE Ahead(p, c) ==
                 \/ \E i \in 1 .. Len(p) :
                        p[i].last /\ ~p[i].head /\ PacketStart(p[i].addr) = PacketStart(c)
                 \/ /\ b # Boundary /\ PacketStart(b) = PacketStart(c)
                    /\ \A i \in 1 .. Len(p) : ~p[i].last
             S == {k \in Nat : \E p \in Seq(PacketFrame) : \E c \in Position :
                       Len(p) = k /\ Flow(p, c, b) /\ c # Boundary /\ ~Ahead(p, c)}
  <1>1. SUFFICES ASSUME S # {}
                 PROVE  FALSE
    <2>1. Len(q) \in Nat
      OBVIOUS
    <2> QED BY <2>1
  <1>2. PICK k \in S : \A j \in S : k <= j
    <2>1. S \in SUBSET Nat
      OBVIOUS
    <2> HIDE DEF S
    <2> QED BY <1>1, <2>1, LeastNatural
  <1>3. PICK p \in Seq(PacketFrame), c \in Position :
            k \in Nat /\ Len(p) = k /\ Flow(p, c, b) /\ c # Boundary /\ ~Ahead(p, c)
    OBVIOUS
  <1> HIDE DEF S
  <1>4. p # <<>>
    <2> SUFFICES ASSUME p = <<>>
                 PROVE  FALSE
      OBVIOUS
    <2>1. b = c
      BY <1>3 DEF Flow
    <2>2. 1 .. Len(p) = {}
      OBVIOUS
    <2> QED BY <1>3, <2>1, <2>2
  <1> PICK f \in PacketFrame : f = Head(p) /\ f = p[1]
    BY <1>4
  <1> PICK t : t = Tail(p)
    OBVIOUS
  <1>5. At(f) = c /\ t \in Seq(PacketFrame) /\ Flow(t, After(f), b)
    BY <1>3, <1>4, FlowHead, FlowTail
  <1>6. Len(t) = k - 1 /\ Len(t) \in Nat /\ 1 \in 1 .. Len(p)
        /\ \A i \in 1 .. Len(t) : i + 1 \in 1 .. Len(p) /\ t[i] = p[i + 1]
    BY <1>3, <1>4
  <1>7. ~f.head /\ f.addr = c
    BY <1>3, <1>5, FramePositions
  <1>8. ~f.last
    BY <1>3, <1>6, <1>7
  <1>9. After(f) # Boundary /\ After(f) \in Position /\ PacketStart(After(f)) = PacketStart(c)
    <2>1. After(f) # Boundary /\ After(f) \in Position /\ After(f) = f.addr + 1
      BY <1>7, <1>8, FramePositions
    <2>2. f.addr + 1 \in Block /\ Slot(f.addr + 1) = Slot(f.addr) + 1 /\ f.addr \in Block
      BY <1>7, <1>8, FramePositions DEF PacketFrame
    <2>3. PacketStart(f.addr + 1) = PacketStart(f.addr)
      BY <2>2, SamePacketNext
    <2> QED BY <1>7, <2>1, <2>3
  <1>10. ~Ahead(t, After(f))
    <2> SUFFICES ASSUME Ahead(t, After(f))
                 PROVE  Ahead(p, c)
      BY <1>3
    <2>1. CASE \E i \in 1 .. Len(t) :
                   t[i].last /\ ~t[i].head /\ PacketStart(t[i].addr) = PacketStart(After(f))
      BY <1>6, <1>9, <2>1
    <2>2. CASE /\ b # Boundary /\ PacketStart(b) = PacketStart(After(f))
               /\ \A i \in 1 .. Len(t) : ~t[i].last
      <3>1. ASSUME NEW i \in 1 .. Len(p)
            PROVE  ~p[i].last
        <4>1. i = 1 \/ (i - 1 \in 1 .. Len(t) /\ i - 1 + 1 = i)
          BY <1>3, <1>6
        <4> QED BY <1>6, <1>8, <2>2, <4>1
      <3> QED BY <1>9, <2>2, <3>1
    <2> QED BY <2>1, <2>2
  <1>11. Len(t) \in S
    <2> HIDE DEF Ahead
    <2> QED BY <1>5, <1>6, <1>9, <1>10 DEF S
  <1> QED BY <1>2, <1>3, <1>6, <1>11

LEMMA HeaderAhead ==
    ASSUME NEW q \in Seq(PacketFrame), NEW a, NEW b, Flow(q, a, b),
           NEW j \in 1 .. Len(q), q[j].head
    PROVE  \/ \E i \in 1 .. Len(q) :
                  i > j /\ q[i].last /\ ~q[i].head /\ PacketStart(q[i].addr) = q[j].addr
           \/ /\ b # Boundary /\ PacketStart(b) = q[j].addr
              /\ \A i \in j .. Len(q) : ~q[i].last
  <1> PICK f \in PacketFrame : f = q[j]
    OBVIOUS
  <1>1. /\ After(f) = f.addr /\ After(f) \in Position /\ ~f.last /\ f.addr \in Block
        /\ Slot(f.addr) = 0 /\ After(f) # Boundary
    BY FramePositions
  <1>2. PacketStart(After(f)) = f.addr
    BY <1>1, Packets
  <1> PICK t : t = SubSeq(q, j + 1, Len(q))
    OBVIOUS
  <1>3. t \in Seq(PacketFrame) /\ Flow(t, After(f), b)
    BY FlowSuffix
  <1>4. /\ Len(t) = Len(q) - j /\ Len(t) \in Nat /\ Len(q) \in Nat /\ j \in Nat
        /\ \A i \in 1 .. Len(t) : t[i] = q[i + j]
    <2>1. Len(t) = Len(q) - j /\ Len(q) \in Nat /\ j \in Nat
      OBVIOUS
    <2>2. ASSUME NEW i \in 1 .. Len(t)
          PROVE  t[i] = q[i + j]
      OBVIOUS
    <2> QED BY <2>1, <2>2
  <1>5. \/ \E i \in 1 .. Len(t) :
               t[i].last /\ ~t[i].head /\ PacketStart(t[i].addr) = PacketStart(After(f))
        \/ /\ b # Boundary /\ PacketStart(b) = PacketStart(After(f))
           /\ \A i \in 1 .. Len(t) : ~t[i].last
    BY <1>1, <1>3, AheadToLast
  <1>6. ASSUME NEW i \in 1 .. Len(t)
        PROVE  i + j \in 1 .. Len(q) /\ i + j > j
    BY <1>4, SMTT(30)
  <1>7. ASSUME \A i \in 1 .. Len(t) : ~t[i].last, NEW i \in j .. Len(q)
        PROVE  ~q[i].last
    <2>1. i = j \/ (i - j \in 1 .. Len(t) /\ i - j + j = i)
      BY <1>4
    <2> QED BY <1>1, <1>4, <1>7, <2>1
  <1> QED BY <1>2, <1>4, <1>5, <1>6, <1>7
-----------------------------------------------------------------------------
(* Where the frames of a packet are. *)

\* The last frame of the packet does not follow its header in w.
Unfinished(w, h) == \E i \in 1 .. Len(w) : w[i] = h /\ \A j \in i .. Len(w) : ~w[j].last

\* globalTrans of n is sending or forwarding the packet.
OpenIn(n, h) == Unfinished(wire[n], h)

\* globalTrans of n is inside of the packet, which it reads from the network.
TakenAt(n, h) == TakePos(n) # Boundary /\ PacketStart(TakePos(n)) = h.addr

TakingHome(h) == currentState[h.node] = "remainFrame_same" /\ TakenAt(h.node, h)

Fifos == {vertexTrans, wire, net_in, vertexUpdate}

LEMMA TravelTypes ==
    ASSUME TravelInv
    PROVE  /\ Typed /\ IInv /\ Framing
           /\ \A q \in Fifos : /\ q \in [Node -> Seq(PacketFrame)]
                               /\ q \in [Node -> Seq(SenderFrame)]
  <1>1. Typed /\ IInv /\ Framing
    BY DEF TravelInv, DeliveryInv, CreditInv, IInv
  <1>2. \A q \in Fifos : q \in [Node -> Seq(PacketFrame)]
    BY <1>1 DEF Typed, Fifos
  <1>3. ASSUME NEW q \in Fifos
        PROVE  q \in [Node -> Seq(SenderFrame)]
    <2>1. \A n \in Node : q[n] \in Seq(SenderFrame)
      BY DEF TravelInv, Stamped, Fifos
    <2>2. q = [n \in Node |-> q[n]]
      BY <1>2
    <2> QED BY <2>1, <2>2
  <1> QED BY <1>1, <1>2, <1>3

(* The positions of the FIFOs on the way through node n: gap[n] is in front of its
   net_in, out[n] behind its link. *)
Routed(n, gap, out) ==
    /\ Flow(vertexUpdate[n], WritePos(n), TakePos(n))
    /\ Flow(net_in[n], TakePos(n), gap[n])
    /\ Flow(wire[n], gap[lower_worker_idx(n)], out[n])
    /\ TakePos(n) \in Position
    /\ TakePos(n) # Boundary <=> currentState[n] \in {"remainFrame_same", "remainFrame_other"}
    /\ out[n] # Boundary <=> currentState[n] \in {"onlySend", "remainFrame_other"}
    /\ currentState[n] = "remainFrame_other" => out[n] = TakePos(n)

LEMMA Routes ==
    ASSUME Typed, Framing
    PROVE  \E gap, out \in [Node -> Position] : \A n \in Node : Routed(n, gap, out)
  <1>1. PICK own \in [Node -> Position], mid \in [Node -> Position],
             gap \in [Node -> Position] :
            \A m \in Node : FramedAt(m, own, mid, gap)
    BY DEF Framing
  <1> DEFINE out == [m \in Node |-> OutPos(m, own, mid)]
  <1>2. out \in [Node -> Position]
    BY DEF OutPos, Position
  <1>3. ASSUME NEW n \in Node
        PROVE  Routed(n, gap, out)
    <2>1. mid[n] = TakePos(n) /\ mid[n] \in Position
      BY <1>1 DEF FramedAt, Flow, TakePos
    <2>2. out[n] = OutPos(n, own, mid) /\ FramedAt(n, own, mid, gap)
      BY <1>1
    <2> HIDE DEF out
    <2>3. /\ out[n] # Boundary <=> currentState[n] \in {"onlySend", "remainFrame_other"}
          /\ currentState[n] = "remainFrame_other" => out[n] = TakePos(n)
      BY <2>1, <2>2 DEF FramedAt, OutPos
    <2> QED BY <2>1, <2>2, <2>3 DEF FramedAt, Routed
  <1> QED BY <1>2, <1>3

LEMMA MarkedAt ==
    ASSUME NEW q \in [Node -> Seq(PacketFrame)], NEW S, NEW m \in Node,
           NEW i \in 1 .. Len(q[m]), <<m, q[m][i]>> \in S
    PROVE  <<m, i>> \in Marked(q, S)
  <1>1. q[m] \in Seq(PacketFrame) /\ i \in DOMAIN q[m] /\ i \in Nat
    OBVIOUS
  <1>2. PICK l \in Node \X Nat : l = <<m, i>> /\ l[1] = m /\ l[2] = i
    <2>1. <<m, i>> \in Node \X Nat /\ <<m, i>>[1] = m /\ <<m, i>>[2] = i
      BY <1>1
    <2> QED BY ONLY <2>1
  <1> QED BY <1>1, <1>2 DEF Marked

LEMMA AtMostOne ==
    ASSUME NEW T, IsFiniteSet(T)
    PROVE  /\ Cardinality(T) \in Nat
           /\ T # {} => Cardinality(T) >= 1
           /\ Cardinality(T) <= 1 => \A x, y \in T : x = y
  <1>1. Cardinality(T) \in Nat
    BY FS_CardinalityType
  <1>2. T # {} => Cardinality(T) >= 1
    BY <1>1, FS_EmptySet
  <1>3. ASSUME Cardinality(T) <= 1, NEW x \in T, NEW y \in T, x # y
        PROVE  FALSE
    <2>1. IsFiniteSet({x}) /\ Cardinality({x}) = 1
      BY FS_Singleton
    <2>2. Cardinality({x} \cup {y}) = 2
      <3>1. Cardinality({x} \cup {y}) = Cardinality({x}) + 1
        BY <1>3, <2>1, FS_AddElement
      <3> QED BY <2>1, <3>1
    <2>3. Cardinality({x} \cup {y}) <= Cardinality(T)
      BY FS_Subset
    <2> QED BY <1>1, <1>3, <2>2, <2>3
  <1> QED BY <1>1, <1>2, <1>3

\* A packet has one header, in one place.
LEMMA OneSpot ==
    ASSUME TravelInv, NEW h \in Packet
    PROVE  /\ \A m, n \in Node : \A i \in 1 .. Len(wire[m]), j \in 1 .. Len(wire[n]) :
                  wire[m][i] = h /\ wire[n][j] = h => m = n /\ i = j
           /\ \A m, n \in Node : \A i \in 1 .. Len(net_in[m]), j \in 1 .. Len(net_in[n]) :
                  net_in[m][i] = h /\ net_in[n][j] = h => m = n /\ i = j
           /\ \A m, n \in Node : ~(Holds(wire[m], h) /\ Holds(net_in[n], h))
           /\ \A n \in Node : Holds(wire[n], h) \/ Holds(net_in[n], h) => Sent(h) /\ h \notin lost
           /\ h \in lost => Sent(h)
           /\ Holds(vertexUpdate[h.node], h) \/ Current(h.node, h.addr) =>
                  /\ Sent(h) /\ h \notin lost
                  /\ \A n \in Node : ~Holds(wire[n], h) /\ ~Holds(net_in[n], h)
  <1>1. /\ Typed /\ wire \in [Node -> Seq(PacketFrame)] /\ net_in \in [Node -> Seq(PacketFrame)]
        /\ vertexUpdate \in [Node -> Seq(PacketFrame)] /\ vertexTrans \in [Node -> Seq(PacketFrame)]
    BY TravelTypes DEF Typed
  <1> PICK o \in Node : o = h.node
    BY PacketHeaders
  <1> PICK a \in Starts : a = h.addr /\ a \in PacketsFrom(o) /\ h = Header(o, a)
    BY PacketHeaders DEF PacketsFrom
  <1>2. h \in PacketFrame /\ h.head
    <2>1. a \in Block /\ Slot(a) = 0
      BY DEF Starts
    <2> QED BY <2>1 DEF PacketFrame, Header, Frame
  <1>3. OnePlace(o, a)
    BY DEF TravelInv, DeliveryInv
  <1> DEFINE T == Marked(vertexTrans, Anywhere(a))
             W == Marked(wire, OnWire(o, a))
             I == Marked(net_in, InNet(o, a))
             V == Marked(vertexUpdate, AtNode(o, a))
  <1>4. IsFiniteSet(T) /\ IsFiniteSet(W) /\ IsFiniteSet(I) /\ IsFiniteSet(V)
    BY <1>3 DEF OnePlace
  <1>5. ASSUME NEW m \in Node
        PROVE  /\ <<m, h>> \in OnWire(o, a) /\ <<m, h>> \in InNet(o, a)
               /\ <<m, h>> \in Anywhere(a) /\ <<o, h>> \in AtNode(o, a)
    <2>1. Hops(o, m) \in 1 .. PROCESSOR_NUM /\ Hops(o, o) = PROCESSOR_NUM
          /\ (m # o => Hops(o, m) < PROCESSOR_NUM)
      BY RingHops
    <2>2. Hops(o, m) <= Hops(o, o) /\ (m # o => Hops(o, m) < Hops(o, o))
      BY <2>1, RingAssumption
    <2>3. h.node = o /\ h.addr = a
      OBVIOUS
    <2>4. <<m, h>> \in Node \X PacketFrame /\ <<m, h>>[1] = m /\ <<m, h>>[2] = h
      BY <1>2
    <2>5. <<m, h>> \in OnWire(o, a)
      BY ONLY <1>2, <2>2, <2>3, <2>4 DEF OnWire
    <2>6. <<m, h>> \in InNet(o, a)
      BY ONLY <1>2, <2>2, <2>3, <2>4 DEF InNet
    <2>7. <<m, h>> \in Anywhere(a) /\ <<o, h>> \in AtNode(o, a)
      BY <1>2, <2>3 DEF Anywhere, AtNode
    <2> QED BY <2>5, <2>6, <2>7
  <1>6. ASSUME NEW m \in Node
        PROVE  /\ \A i \in 1 .. Len(wire[m]) : wire[m][i] = h => <<m, i>> \in W
               /\ \A i \in 1 .. Len(net_in[m]) : net_in[m][i] = h => <<m, i>> \in I
    BY <1>1, <1>5, MarkedAt
  <1>7. /\ \A i \in 1 .. Len(vertexUpdate[o]) : vertexUpdate[o][i] = h => <<o, i>> \in V
        /\ \A i \in 1 .. Len(vertexTrans[o]) : vertexTrans[o][i] = h => <<o, i>> \in T
    BY <1>1, <1>5, MarkedAt
  <1>8. \A m \in Node : /\ Holds(wire[m], h) => W # {}
                        /\ Holds(net_in[m], h) => I # {}
                        /\ Holds(vertexUpdate[o], h) => V # {}
                        /\ Holds(vertexTrans[o], h) => T # {}
    <2>1. \A q \in Seq(PacketFrame) : DOMAIN q = 1 .. Len(q)
      OBVIOUS
    <2> HIDE DEF T, W, I, V
    <2> QED BY <1>1, <1>6, <1>7, <2>1 DEF Holds
  <1> HIDE DEF T, W, I, V
  <1>9. PICK t, w, i, v \in Nat, r, c, g, l \in {0, 1} :
            /\ t = Cardinality(T) /\ w = Cardinality(W) /\ i = Cardinality(I)
            /\ v = Cardinality(V)
            /\ r = One(a \in Unread) /\ c = One(Current(o, a))
            /\ g = One(a \in Got(o)) /\ l = One(Lost(o, a))
            /\ r + t + w + i + v + c + g + l <= 1
    <2>1. PICK t, w, i, v \in Nat, r, c, g, l \in {0, 1} :
              /\ t = Cardinality(Marked(vertexTrans, Anywhere(a)))
              /\ w = Cardinality(Marked(wire, OnWire(o, a)))
              /\ i = Cardinality(Marked(net_in, InNet(o, a)))
              /\ v = Cardinality(Marked(vertexUpdate, AtNode(o, a)))
              /\ r = One(a \in Unread) /\ c = One(Current(o, a))
              /\ g = One(a \in Got(o)) /\ l = One(Lost(o, a))
              /\ r + t + w + i + v + c + g + l <= 1
      BY <1>3, PlacesOld, SMTT(30)
    <2>2. t = Cardinality(T) /\ w = Cardinality(W) /\ i = Cardinality(I) /\ v = Cardinality(V)
      BY <2>1 DEF T, W, I, V
    <2>3. /\ r = One(a \in Unread) /\ c = One(Current(o, a))
          /\ g = One(a \in Got(o)) /\ l = One(Lost(o, a))
          /\ r + t + w + i + v + c + g + l <= 1
      BY <2>1
    <2> QED BY <2>1, <2>2, <2>3, ZenonT(40)
  <1>10. /\ T # {} => t >= 1
         /\ W # {} => w >= 1
         /\ I # {} => i >= 1
         /\ V # {} => v >= 1
    BY <1>4, <1>9, AtMostOne
  <1>11. /\ a \in Unread => r = 1
         /\ Current(o, a) => c = 1
         /\ Lost(o, a) => l = 1
    BY <1>9 DEF One
  <1>12. ~Sent(h) => a \in Unread \/ Holds(vertexTrans[o], h)
    <2>1. a \in PacketsFrom(o) /\ vertexTrans[o] \in Seq(PacketFrame)
          /\ DOMAIN vertexTrans[o] = 1 .. Len(vertexTrans[o])
      BY <1>1
    <2>2. ASSUME a \in HeadersOf(vertexTrans[o], o)
          PROVE  Holds(vertexTrans[o], h)
      <3>1. PICK x \in 1 .. Len(vertexTrans[o]) :
                HeaderOf(vertexTrans[o][x], o) /\ vertexTrans[o][x].addr = a
        BY <2>2 DEF HeadersOf
      <3>2. vertexTrans[o][x] \in PacketFrame
        BY <2>1
      <3>3. vertexTrans[o][x] = h
        BY <3>1, <3>2, FramePositions DEF Frame, Header, HeaderOf
      <3> QED BY <2>1, <3>1, <3>3 DEF Holds
    <2> QED BY <1>1, <2>1, <2>2, SentAddress DEF SentOf, ReadOf
  <1>13. h \in lost => Lost(o, a)
    BY DEF Lost
  <1> DEFINE U == Holds(vertexUpdate[o], h) \/ Current(o, a)
  <1>14. /\ ~Sent(h) => r + t >= 1
         /\ h \in lost => l = 1
         /\ U => v + c >= 1
    <2>1. ~Sent(h) => r + t >= 1
      BY <1>8, <1>9, <1>10, <1>11, <1>12
    <2>2. U => v + c >= 1
      BY <1>8, <1>9, <1>10, <1>11
    <2> QED BY <1>11, <1>13, <2>1, <2>2
  <1>15. r + t + w + i + v + c + g + l <= 1
    BY <1>9
  <1>16. w <= 1 /\ i <= 1
    BY ONLY <1>15, t \in Nat, w \in Nat, i \in Nat, v \in Nat, r \in {0, 1}, c \in {0, 1},
            g \in {0, 1}, l \in {0, 1}
  <1>17. (\A x, y \in W : x = y) /\ (\A x, y \in I : x = y)
    BY <1>4, <1>9, <1>16, AtMostOne
  <1> HIDE DEF U
  <1>18. /\ W # {} \/ I # {} => Sent(h) /\ h \notin lost
         /\ ~(W # {} /\ I # {})
         /\ h \in lost => Sent(h)
         /\ U => Sent(h) /\ h \notin lost /\ W = {} /\ I = {}
    BY ONLY <1>10, <1>14, <1>15, t \in Nat, w \in Nat, i \in Nat, v \in Nat, r \in {0, 1},
            c \in {0, 1}, g \in {0, 1}, l \in {0, 1}
  <1>19. ASSUME NEW m \in Node, NEW n \in Node, NEW x \in 1 .. Len(wire[m]),
                NEW y \in 1 .. Len(wire[n]), wire[m][x] = h, wire[n][y] = h
         PROVE  m = n /\ x = y
    <2>1. <<m, x>> = <<n, y>>
      BY <1>6, <1>17, <1>19
    <2> QED BY <2>1
  <1>20. ASSUME NEW m \in Node, NEW n \in Node, NEW x \in 1 .. Len(net_in[m]),
                NEW y \in 1 .. Len(net_in[n]), net_in[m][x] = h, net_in[n][y] = h
         PROVE  m = n /\ x = y
    <2>1. <<m, x>> = <<n, y>>
      BY <1>6, <1>17, <1>20
    <2> QED BY <2>1
  <1>21. \A m, n \in Node : ~(Holds(wire[m], h) /\ Holds(net_in[n], h))
    BY <1>8, <1>18
  <1>22. \A n \in Node : Holds(wire[n], h) \/ Holds(net_in[n], h) => Sent(h) /\ h \notin lost
    BY <1>8, <1>18
  <1>23. U => /\ Sent(h) /\ h \notin lost
              /\ \A n \in Node : ~Holds(wire[n], h) /\ ~Holds(net_in[n], h)
    BY <1>8, <1>18
  <1> QED BY <1>18, <1>19, <1>20, <1>21, <1>22, <1>23 DEF U
-----------------------------------------------------------------------------
(* From one frame of a packet to the others. *)

\* A packet is known by its first block.
LEMMA SameAddress ==
    ASSUME NEW g \in Packet, NEW h \in Packet, g.addr = h.addr
    PROVE  g = h
  <1>1. /\ g.node \in Node /\ g = Header(g.node, g.addr) /\ h = Header(h.node, h.addr)
        /\ Item(g) \in DOMAIN Schedule[g.node]
        /\ Schedule[g.node][Item(g)] = h.addr \div BlockNum
    BY PacketHeaders, ItemIs
  <1>2. g.node = h.node
    BY <1>1, ItemIs
  <1> QED BY <1>1, <1>2

\* The node that computes a block is the one its packet names.
LEMMA OwnerOf ==
    ASSUME NEW h \in Packet, NEW b \in Position, b # Boundary, PacketStart(b) = h.addr,
           NEW n \in Node
    PROVE  Computes(n, b) <=> n = h.node
  <1>1. b \in Block /\ h.addr \in Block /\ PacketStart(h.addr) = h.addr
    BY PacketHeaders, Packets DEF Position, PacketsFrom, Starts
  <1>2. b \div BlockNum = h.addr \div BlockNum
    BY <1>1, SamePartition
  <1> QED BY <1>2, ItemIs DEF Computes

\* globalTrans writes the frames of a packet behind its header.
LEMMA OpenAhead ==
    ASSUME TravelInv, NEW h \in Packet, NEW n \in Node,
           NEW gap, NEW out \in [Node -> Position], Routed(n, gap, out)
    PROVE  OpenIn(n, h) <=> out[n] # Boundary /\ PacketStart(out[n]) = h.addr
  <1>1. /\ wire[n] \in Seq(PacketFrame) /\ wire[n] \in Seq(SenderFrame)
        /\ Flow(wire[n], gap[lower_worker_idx(n)], out[n])
    <2>1. wire \in [Node -> Seq(PacketFrame)] /\ wire \in [Node -> Seq(SenderFrame)]
      BY TravelTypes DEF Fifos
    <2> QED BY <2>1 DEF Routed
  <1>2. h.head
    BY PacketHeaders DEF Header
  <1>3. ASSUME NEW i \in 1 .. Len(wire[n]), wire[n][i].head,
               \A j \in i .. Len(wire[n]) : ~wire[n][j].last
        PROVE  out[n] # Boundary /\ PacketStart(out[n]) = wire[n][i].addr
    <2>1. \A j \in 1 .. Len(wire[n]) : j > i => j \in i .. Len(wire[n])
      OBVIOUS
    <2>2. \A j \in 1 .. Len(wire[n]) : j > i => ~wire[n][j].last
      BY <1>3, <2>1
    <2> QED BY <1>1, <1>3, <2>2, HeaderAhead
  <1>4. ASSUME OpenIn(n, h)
        PROVE  out[n] # Boundary /\ PacketStart(out[n]) = h.addr
    BY <1>2, <1>3, <1>4 DEF OpenIn, Unfinished
  <1>5. ASSUME out[n] # Boundary, PacketStart(out[n]) = h.addr
        PROVE  OpenIn(n, h)
    <2>1. OpenPacket(n) /\ currentState[n] \in {"onlySend", "remainFrame_other"}
      BY <1>5 DEF TravelInv, DeliveryInv, CreditInv, Routed
    <2>2. PICK i \in 1 .. Len(wire[n]) :
              /\ wire[n][i].head
              /\ \A j \in i .. Len(wire[n]) : ~wire[n][j].last
      BY <2>1 DEF OpenPacket
    <2>3. wire[n][i] \in SenderFrame /\ wire[n][i].addr = h.addr
      BY <1>1, <1>3, <1>5, <2>2
    <2>4. wire[n][i] = h
      BY <2>2, <2>3, EndsOfPacket
    <2> QED BY <2>2, <2>4 DEF OpenIn, Unfinished
  <1> QED BY <1>4, <1>5

\* Who is inside of a packet that comes from the network.
LEMMA TakenBy ==
    ASSUME TravelInv, NEW h \in Packet, NEW n \in Node, TakenAt(n, h)
    PROVE  \/ /\ currentState[n] = "remainFrame_same" /\ n = h.node
              /\ Holds(vertexUpdate[n], h) \/ Current(n, h.addr)
           \/ currentState[n] = "remainFrame_other" /\ n # h.node /\ OpenIn(n, h)
  <1>1. PICK gap, out \in [Node -> Position] : \A m \in Node : Routed(m, gap, out)
    BY TravelTypes, Routes
  <1>2. Routed(n, gap, out)
    BY <1>1
  <1>3. /\ TakePos(n) \in Position /\ TakePos(n) # Boundary /\ PacketStart(TakePos(n)) = h.addr
        /\ currentState[n] \in {"remainFrame_same", "remainFrame_other"}
    BY <1>2 DEF Routed, TakenAt
  <1>4. Computes(n, TakePos(n)) <=> n = h.node
    BY <1>3, OwnerOf
  <1>5. TakesOwn(n) /\ Writing(n)
    BY TravelTypes DEF TravelInv, IInv
  <1>6. CASE currentState[n] = "remainFrame_other"
    <2>1. n # h.node
      BY <1>4, <1>5, <1>6 DEF TakesOwn
    <2>2. out[n] = TakePos(n)
      BY <1>2, <1>6 DEF Routed
    <2>3. OpenIn(n, h)
      BY <1>1, <1>2, <1>3, <2>2, OpenAhead
    <2> QED BY <1>6, <2>1, <2>3
  <1>7. CASE currentState[n] = "remainFrame_same"
    <2>1. n = h.node
      BY <1>4, <1>5, <1>7 DEF TakesOwn
    <2>2. /\ vertexUpdate[n] \in Seq(PacketFrame) /\ vertexUpdate[n] \in Seq(SenderFrame)
          /\ Flow(vertexUpdate[n], WritePos(n), TakePos(n))
      <3>1. vertexUpdate \in [Node -> Seq(PacketFrame)] /\ vertexUpdate \in [Node -> Seq(SenderFrame)]
        BY TravelTypes DEF Fifos
      <3> QED BY <1>2, <3>1 DEF Routed
    <2>3. CASE \E i \in 1 .. Len(vertexUpdate[n]) :
                   vertexUpdate[n][i].head /\ vertexUpdate[n][i].addr = PacketStart(TakePos(n))
      <3>1. PICK i \in 1 .. Len(vertexUpdate[n]) :
                   vertexUpdate[n][i].head /\ vertexUpdate[n][i].addr = h.addr
        BY <1>3, <2>3
      <3>2. vertexUpdate[n][i] = h /\ i \in DOMAIN vertexUpdate[n]
        BY <2>2, <3>1, EndsOfPacket
      <3> QED BY <1>7, <2>1, <3>2 DEF Holds
    <2>4. CASE WritePos(n) # Boundary /\ PacketStart(WritePos(n)) = PacketStart(TakePos(n))
      <3>1. wrProp[n].state = "remainFrame" /\ WritePos(n) = wrProp[n].address + wrProp[n].offset
        <4>1. wrProp[n].state \in {"firstFrame", "remainFrame"}
          BY TravelTypes DEF Typed
        <4> QED BY <2>4, <4>1 DEF WritePos
      <3>2. wrProp[n].address \in Nat /\ wrProp[n].offset \in Nat
        <4>1. wrProp[n].address \in Block /\ wrProp[n].offset \in 0 .. Payload
          BY TravelTypes DEF Typed
        <4> QED BY <4>1, BlockType
      <3>3. PacketStart(WritePos(n)) = wrProp[n].address
        BY <1>5, <3>1, <3>2 DEF Writing, PacketStart
      <3>4. Current(n, h.addr)
        BY <1>3, <2>4, <3>1, <3>3 DEF Current
      <3> QED BY <1>7, <2>1, <3>4
    <2> QED BY <1>3, <2>2, <2>3, <2>4, BackFromEnd
  <1> QED BY <1>3, <1>6, <1>7

\* The header of a packet that is on no link and in no net_in FIFO is behind all its frames.
LEMMA BehindNet ==
    ASSUME TravelInv, NEW h \in Packet, NEW n \in Node, ~Holds(net_in[n], h),
           NEW gap \in [Node -> Position], NEW out, Routed(n, gap, out),
           \/ gap[n] # Boundary /\ PacketStart(gap[n]) = h.addr
           \/ Holds(net_in[n], LastFrame(h))
    PROVE  TakenAt(n, h)
  <1>1. /\ net_in[n] \in Seq(PacketFrame) /\ net_in[n] \in Seq(SenderFrame)
        /\ Flow(net_in[n], TakePos(n), gap[n]) /\ DOMAIN net_in[n] = 1 .. Len(net_in[n])
    <2>1. net_in \in [Node -> Seq(PacketFrame)] /\ net_in \in [Node -> Seq(SenderFrame)]
      BY TravelTypes DEF Fifos
    <2>2. net_in[n] \in Seq(PacketFrame)
      BY <2>1
    <2> QED BY <2>1, <2>2 DEF Routed
  <1>2. ASSUME NEW i \in 1 .. Len(net_in[n]), net_in[n][i].head, net_in[n][i].addr = h.addr
        PROVE  FALSE
    <2>1. net_in[n][i] = h
      BY <1>1, <1>2, EndsOfPacket
    <2> QED BY <1>1, <2>1 DEF Holds
  <1>3. CASE gap[n] # Boundary /\ PacketStart(gap[n]) = h.addr
    BY <1>1, <1>2, <1>3, BackFromEnd DEF TakenAt
  <1>4. CASE Holds(net_in[n], LastFrame(h))
    <2>1. PICK j \in 1 .. Len(net_in[n]) : net_in[n][j] = LastFrame(h)
      BY <1>1, <1>4 DEF Holds
    <2>2. net_in[n][j] \in SenderFrame
      BY <1>1
    <2>3. ~net_in[n][j].head /\ PacketStart(net_in[n][j].addr) = h.addr
      BY <2>1, <2>2, EndsOfPacket
    <2> QED BY <1>1, <1>2, <2>3, BackFromFrame DEF TakenAt
  <1> QED BY <1>3, <1>4

LEMMA BehindWire ==
    ASSUME TravelInv, NEW h \in Packet, NEW u \in Node,
           NEW k \in 1 .. Len(wire[u]), wire[u][k] = LastFrame(h),
           \A i \in 1 .. k - 1 : wire[u][i] # h,
           ~Holds(net_in[lower_worker_idx(u)], h)
    PROVE  TakenAt(lower_worker_idx(u), h)
  <1>1. PICK gap, out \in [Node -> Position] : \A m \in Node : Routed(m, gap, out)
    BY TravelTypes, Routes
  <1> PICK n \in Node : n = lower_worker_idx(u)
    BY Neighbours
  <1>2. /\ wire[u] \in Seq(PacketFrame) /\ wire[u] \in Seq(SenderFrame)
        /\ Flow(wire[u], gap[n], out[u])
    <2>1. wire \in [Node -> Seq(PacketFrame)] /\ wire \in [Node -> Seq(SenderFrame)]
      BY TravelTypes DEF Fifos
    <2> QED BY <1>1, <2>1 DEF Routed
  <1>3. wire[u][k] \in SenderFrame /\ Len(wire[u]) \in Nat /\ k \in Nat
    BY <1>2
  <1>4. ~wire[u][k].head /\ PacketStart(wire[u][k].addr) = h.addr
    BY <1>3, EndsOfPacket
  <1>5. ASSUME NEW i \in 1 .. Len(wire[u]), i < k, wire[u][i].head, wire[u][i].addr = h.addr
        PROVE  FALSE
    <2>1. wire[u][i] = h
      BY <1>2, <1>5, EndsOfPacket
    <2>2. i \in 1 .. k - 1
      BY <1>3, <1>5
    <2> QED BY <2>1, <2>2
  <1>6. gap[n] # Boundary /\ PacketStart(gap[n]) = h.addr
    BY <1>2, <1>4, <1>5, BackFromFrame
  <1> QED BY <1>1, <1>6, BehindNet

\* A packet is complete on a link unless its node is still writing it.
LEMMA WireEnd ==
    ASSUME TravelInv, NEW h \in Packet, NEW n \in Node, Holds(wire[n], h)
    PROVE  Holds(wire[n], LastFrame(h)) <=> ~OpenIn(n, h)
  <1>1. PICK gap, out \in [Node -> Position] : \A m \in Node : Routed(m, gap, out)
    BY TravelTypes, Routes
  <1>2. /\ wire[n] \in Seq(PacketFrame) /\ wire[n] \in Seq(SenderFrame)
        /\ Flow(wire[n], gap[lower_worker_idx(n)], out[n]) /\ DOMAIN wire[n] = 1 .. Len(wire[n])
    <2>1. wire \in [Node -> Seq(PacketFrame)] /\ wire \in [Node -> Seq(SenderFrame)]
      BY TravelTypes DEF Fifos
    <2>2. wire[n] \in Seq(PacketFrame)
      BY <2>1
    <2> QED BY <1>1, <2>1, <2>2 DEF Routed
  <1>3. PICK j \in 1 .. Len(wire[n]) : wire[n][j] = h
    BY <1>2 DEF Holds
  <1>4. wire[n][j].head /\ Len(wire[n]) \in Nat /\ j \in Nat
    BY <1>2, <1>3, PacketHeaders DEF Header
  <1>5. ASSUME ~OpenIn(n, h)
        PROVE  Holds(wire[n], LastFrame(h))
    <2>1. ~ \A i \in j .. Len(wire[n]) : ~wire[n][i].last
      BY <1>3, <1>5 DEF OpenIn, Unfinished
    <2>2. PICK i \in 1 .. Len(wire[n]) :
              wire[n][i].last /\ PacketStart(wire[n][i].addr) = wire[n][j].addr
      BY <1>2, <1>4, <2>1, HeaderAhead
    <2>3. wire[n][i] \in SenderFrame /\ wire[n][j].addr = h.addr
      BY <1>2, <1>3
    <2>4. wire[n][i] = LastFrame(h)
      BY <2>2, <2>3, EndsOfPacket
    <2> QED BY <1>2, <2>4 DEF Holds
  <1>6. ASSUME OpenIn(n, h), Holds(wire[n], LastFrame(h))
        PROVE  FALSE
    <2>1. PICK k \in 1 .. Len(wire[n]) : wire[n][k] = LastFrame(h)
      BY <1>2, <1>6 DEF Holds
    <2>2. wire[n][k].last /\ k \in Nat
      <3>1. wire[n][k] \in SenderFrame
        BY <1>2
      <3> QED BY <1>2, <2>1, <3>1, EndsOfPacket
    <2>3. \A i \in 1 .. Len(wire[n]) : wire[n][i] = h => i = j
      BY <1>3, OneSpot
    <2>4. \A i \in j .. Len(wire[n]) : ~wire[n][i].last
      BY <1>3, <1>6, <2>3 DEF OpenIn, Unfinished
    <2>5. k < j
      BY <1>4, <2>2, <2>4
    <2>6. \A i \in 1 .. k - 1 : wire[n][i] # h
      <3>1. \A i \in 1 .. k - 1 : i \in 1 .. Len(wire[n]) /\ i # j
        BY <1>4, <2>2, <2>5
      <3> QED BY <2>3, <3>1
    <2> PICK m \in Node : m = lower_worker_idx(n)
      BY Neighbours
    <2>7. ~Holds(net_in[m], h)
      BY OneSpot
    <2>8. TakenAt(m, h)
      BY <2>1, <2>6, <2>7, BehindWire
    <2>9. m # h.node /\ OpenIn(m, h)
      <3>1. ~Holds(vertexUpdate[h.node], h) /\ ~Current(h.node, h.addr)
        BY OneSpot
      <3> QED BY <2>8, <3>1, TakenBy
    <2>10. m = n
      <3>1. wire[m] \in Seq(PacketFrame)
        <4>1. wire \in [Node -> Seq(PacketFrame)]
          BY TravelTypes DEF Fifos
        <4> QED BY <4>1
      <3>2. PICK i \in 1 .. Len(wire[m]) : wire[m][i] = h
        BY <2>9 DEF OpenIn, Unfinished
      <3> QED BY <1>3, <3>2, OneSpot
    <2>11. h.node \in Node
      BY PacketHeaders
    <2>12. n = h.node
      BY <2>10, <2>11, RingAssumption DEF lower_worker_idx, Node
    <2> QED BY <2>9, <2>10, <2>12
  <1> QED BY <1>5, <1>6

\* While a node takes a packet off the ring, the last frame is on its way to it.
LEMMA HomeEnd ==
    ASSUME TravelInv, NEW h \in Packet,
           \A n \in Node : ~Holds(wire[n], h) /\ ~Holds(net_in[n], h)
    PROVE  \/ Holds(net_in[h.node], LastFrame(h))
           \/ Holds(wire[upper_worker_idx(h.node)], LastFrame(h))
           <=> TakingHome(h)
  <1>1. PICK gap, out \in [Node -> Position] : \A m \in Node : Routed(m, gap, out)
    BY TravelTypes, Routes
  <1> PICK o \in Node : o = h.node
    BY PacketHeaders
  <1> PICK u \in Node : u = upper_worker_idx(o) /\ o = lower_worker_idx(u)
    BY Neighbours
  <1>2. /\ wire[u] \in Seq(PacketFrame) /\ wire[u] \in Seq(SenderFrame)
        /\ DOMAIN wire[u] = 1 .. Len(wire[u])
        /\ net_in[o] \in Seq(PacketFrame) /\ net_in[o] \in Seq(SenderFrame)
        /\ DOMAIN net_in[o] = 1 .. Len(net_in[o])
    <2>1. /\ wire \in [Node -> Seq(PacketFrame)] /\ wire \in [Node -> Seq(SenderFrame)]
          /\ net_in \in [Node -> Seq(PacketFrame)] /\ net_in \in [Node -> Seq(SenderFrame)]
      BY TravelTypes DEF Fifos
    <2>2. wire[u] \in Seq(PacketFrame) /\ net_in[o] \in Seq(PacketFrame)
      BY <2>1
    <2> QED BY <2>1, <2>2
  <1>3. /\ Flow(wire[u], gap[o], out[u]) /\ Flow(net_in[o], TakePos(o), gap[o])
        /\ TakePos(o) \in Position /\ gap[o] \in Position /\ Routed(o, gap, out)
        /\ Routed(u, gap, out)
    BY <1>1 DEF Routed
  <1>4. ~OpenIn(u, h)
    <2>1. ~Holds(wire[u], h)
      OBVIOUS
    <2> QED BY <1>2, <2>1 DEF OpenIn, Unfinished, Holds
  <1>5. ASSUME TakenAt(o, h)
        PROVE  TakingHome(h)
    <2>1. currentState[o] = "remainFrame_same"
      BY <1>5, TakenBy
    <2> QED BY <1>5, <2>1 DEF TakingHome
  <1>6. ASSUME Holds(net_in[o], LastFrame(h))
        PROVE  TakingHome(h)
    BY <1>3, <1>5, <1>6, BehindNet
  <1>7. ASSUME Holds(wire[u], LastFrame(h))
        PROVE  TakingHome(h)
    <2>1. PICK k \in 1 .. Len(wire[u]) : wire[u][k] = LastFrame(h)
      BY <1>2, <1>7 DEF Holds
    <2>2. \A i \in 1 .. k - 1 : wire[u][i] # h
      <3>1. \A i \in 1 .. k - 1 : i \in 1 .. Len(wire[u])
        BY <1>2
      <3>2. ~Holds(wire[u], h)
        OBVIOUS
      <3> QED BY <1>2, <3>1, <3>2 DEF Holds
    <2>3. TakenAt(o, h)
      BY <2>1, <2>2, BehindWire
    <2> QED BY <1>5, <2>3
  <1>8. ASSUME TakingHome(h)
        PROVE  Holds(net_in[o], LastFrame(h)) \/ Holds(wire[u], LastFrame(h))
    <2>1. TakePos(o) # Boundary /\ PacketStart(TakePos(o)) = h.addr
      BY <1>8 DEF TakingHome, TakenAt
    <2>2. ASSUME NEW i \in 1 .. Len(net_in[o]), net_in[o][i].last,
                 PacketStart(net_in[o][i].addr) = h.addr
          PROVE  Holds(net_in[o], LastFrame(h))
      <3>1. net_in[o][i] = LastFrame(h)
        BY <1>2, <2>2, EndsOfPacket
      <3> QED BY <1>2, <3>1 DEF Holds
    <2>3. ASSUME NEW i \in 1 .. Len(wire[u]), wire[u][i].last,
                 PacketStart(wire[u][i].addr) = h.addr
          PROVE  Holds(wire[u], LastFrame(h))
      <3>1. wire[u][i] = LastFrame(h)
        BY <1>2, <2>3, EndsOfPacket
      <3> QED BY <1>2, <3>1 DEF Holds
    <2>4. CASE gap[o] # Boundary /\ PacketStart(gap[o]) = h.addr
      <3>1. ~(out[u] # Boundary /\ PacketStart(out[u]) = h.addr)
        BY <1>3, <1>4, OpenAhead
      <3>2. PICK i \in 1 .. Len(wire[u]) : wire[u][i].last /\ PacketStart(wire[u][i].addr) = h.addr
        <4>1. /\ wire[u] \in Seq(PacketFrame) /\ gap[o] \in Position
              /\ Flow(wire[u], gap[o], out[u])
          BY <1>2, <1>3
        <4>2. \/ \E i \in 1 .. Len(wire[u]) :
                     wire[u][i].last /\ ~wire[u][i].head
                         /\ PacketStart(wire[u][i].addr) = PacketStart(gap[o])
              \/ out[u] # Boundary /\ PacketStart(out[u]) = PacketStart(gap[o])
          BY <2>4, <4>1, AheadToLast
        <4> QED BY <2>4, <3>1, <4>2
      <3> QED BY <2>3, <3>2
    <2> QED BY <1>2, <1>3, <2>1, <2>2, <2>4, AheadToLast
  <1> QED BY <1>6, <1>7, <1>8
-----------------------------------------------------------------------------
(* The stage of a packet, told from where its header is. *)

Aboard(h) == \E n \in Node : Holds(wire[n], h) \/ Holds(net_in[n], h)

Seen(h) ==
    /\ \A n \in Node : Holds(net_in[n], h) => atBar[h] = n /\ stageBar[h] = "net_in"
    /\ \A n \in Node : Holds(wire[n], h) =>
           /\ atBar[h] = n
           /\ stageBar[h] = IF ~OpenIn(n, h) THEN "wire"
                            ELSE IF n = h.node THEN "onlySend" ELSE "other"
    /\ ~Aboard(h) =>
           /\ atBar[h] = h.node
           /\ stageBar[h] = IF h \in lost THEN "lost"
                            ELSE IF ~Sent(h) THEN "vertexTrans"
                            ELSE IF TakingHome(h) THEN "same" ELSE "home"

Told(h) ==
    /\ Aboard(h) => Sent(h) /\ h \notin lost /\ ~TakingHome(h)
    /\ TakingHome(h) => Sent(h) /\ h \notin lost
    /\ h \in lost => Sent(h)
    /\ Sent(h) <=> h.addr \in SentOf(h.node)

Staged == \A h \in Packet : Seen(h) /\ Told(h)

LEMMA TellsStage ==
    ASSUME TravelInv, NEW h \in Packet
    PROVE  Told(h)
  <1>1. /\ \A n \in Node : Holds(wire[n], h) \/ Holds(net_in[n], h) => Sent(h) /\ h \notin lost
        /\ h \in lost => Sent(h)
        /\ Holds(vertexUpdate[h.node], h) \/ Current(h.node, h.addr) =>
               /\ Sent(h) /\ h \notin lost
               /\ \A n \in Node : ~Holds(wire[n], h) /\ ~Holds(net_in[n], h)
    BY OneSpot
  <1>2. TakingHome(h) => Holds(vertexUpdate[h.node], h) \/ Current(h.node, h.addr)
    <2>1. h.node \in Node
      BY PacketHeaders
    <2> QED BY <2>1, TakenBy DEF TakingHome
  <1>3. Sent(h) <=> h.addr \in SentOf(h.node)
    BY TravelTypes, SentAddress
  <1> QED BY <1>1, <1>2, <1>3 DEF Told, Aboard

LEMMA SeesStage ==
    ASSUME TravelInv, NEW h \in Packet
    PROVE  Seen(h)
  <1> DEFINE n == atBar[h]
             end == LastFrame(h)
  <1>1. atBar[h] = IF Carriers(h) = {} THEN h.node ELSE CHOOSE m \in Carriers(h) : TRUE
    BY DEF atBar
  <1>2. stageBar[h] =
            CASE h \in lost -> "lost"
              [] ~Sent(h) -> "vertexTrans"
              [] Holds(net_in[n], h) -> "net_in"
              [] Holds(wire[n], h) /\ Holds(wire[n], end) -> "wire"
              [] Holds(wire[n], h) /\ ~Holds(wire[n], end) ->
                     IF n = h.node THEN "onlySend" ELSE "other"
              [] OTHER ->
                     IF \/ Holds(net_in[n], end)
                        \/ Holds(wire[upper_worker_idx(n)], end)
                     THEN "same"
                     ELSE "home"
    BY DEF stageBar
  <1> HIDE DEF n
  <1>3. Told(h)
    BY TellsStage
  <1>4. /\ \A m, k \in Node : Holds(wire[m], h) /\ Holds(wire[k], h) => m = k
        /\ \A m, k \in Node : Holds(net_in[m], h) /\ Holds(net_in[k], h) => m = k
        /\ \A m, k \in Node : ~(Holds(wire[m], h) /\ Holds(net_in[k], h))
    <2>1. \A m \in Node : DOMAIN wire[m] = 1 .. Len(wire[m]) /\ DOMAIN net_in[m] = 1 .. Len(net_in[m])
      <3>1. \A m \in Node : wire[m] \in Seq(PacketFrame) /\ net_in[m] \in Seq(PacketFrame)
        BY TravelTypes DEF Typed
      <3> QED BY <3>1
    <2> QED BY <2>1, OneSpot DEF Holds
  <1>5. \A m \in Node : Holds(wire[m], h) \/ Holds(net_in[m], h) => Carriers(h) = {m}
    BY <1>4 DEF Carriers
  <1>6. \A m \in Node : Holds(wire[m], h) \/ Holds(net_in[m], h) => n = m
    BY <1>1, <1>5 DEF n
  <1>7. ASSUME NEW m \in Node, Holds(net_in[m], h)
        PROVE  n = m /\ stageBar[h] = "net_in"
    <2>1. n = m /\ Sent(h) /\ h \notin lost
      BY <1>3, <1>6, <1>7 DEF Told, Aboard
    <2> HIDE DEF end
    <2>2. stageBar[h] = "net_in"
      BY <1>2, <1>4, <1>7, <2>1
    <2> QED BY <2>1, <2>2
  <1>8. ASSUME NEW m \in Node, Holds(wire[m], h)
        PROVE  /\ n = m
               /\ stageBar[h] = IF ~OpenIn(m, h) THEN "wire"
                                ELSE IF m = h.node THEN "onlySend" ELSE "other"
    <2>1. n = m /\ Sent(h) /\ h \notin lost
      BY <1>3, <1>6, <1>8 DEF Told, Aboard
    <2>2. ~Holds(net_in[m], h)
      BY <1>4, <1>8
    <2>3. Holds(wire[m], end) <=> ~OpenIn(m, h)
      BY <1>8, WireEnd
    <2> HIDE DEF end
    <2>4. CASE OpenIn(m, h)
      <3>1. stageBar[h] = IF n = h.node THEN "onlySend" ELSE "other"
        BY <1>2, <1>8, <2>1, <2>2, <2>3, <2>4
      <3> QED BY <2>1, <2>4, <3>1
    <2>5. CASE ~OpenIn(m, h)
      <3>1. stageBar[h] = "wire"
        BY <1>2, <1>8, <2>1, <2>2, <2>3, <2>5
      <3> QED BY <2>1, <2>5, <3>1
    <2> QED BY <2>4, <2>5
  <1>9. ASSUME ~Aboard(h)
        PROVE  /\ n = h.node
               /\ stageBar[h] = IF h \in lost THEN "lost"
                                ELSE IF ~Sent(h) THEN "vertexTrans"
                                ELSE IF TakingHome(h) THEN "same" ELSE "home"
    <2>1. \A m \in Node : ~Holds(wire[m], h) /\ ~Holds(net_in[m], h)
      BY <1>9 DEF Aboard
    <2>2. n = h.node /\ h.node \in Node
      BY <1>1, <2>1, PacketHeaders DEF Carriers, n
    <2>3. Holds(net_in[n], end) \/ Holds(wire[upper_worker_idx(n)], end) <=> TakingHome(h)
      BY <2>1, <2>2, HomeEnd
    <2> HIDE DEF end
    <2>4. CASE h \in lost
      <3>1. stageBar[h] = "lost"
        BY <1>2, <1>3, <2>1, <2>2, <2>4 DEF Told
      <3> QED BY <2>2, <2>4, <3>1
    <2>5. CASE h \notin lost /\ ~Sent(h)
      <3>1. stageBar[h] = "vertexTrans"
        BY <1>2, <2>1, <2>2, <2>5
      <3> QED BY <2>2, <2>5, <3>1
    <2>6. CASE h \notin lost /\ Sent(h)
      <3>1. stageBar[h] = IF \/ Holds(net_in[n], end)
                             \/ Holds(wire[upper_worker_idx(n)], end)
                          THEN "same"
                          ELSE "home"
        BY <1>2, <2>1, <2>2, <2>6
      <3> QED BY <2>2, <2>3, <2>6, <3>1
    <2> QED BY <2>4, <2>5, <2>6
  <1> QED BY <1>7, <1>8, <1>9 DEF Seen, n

LEMMA AllStaged == TravelInv => Staged
  BY SeesStage, TellsStage DEF Staged
-----------------------------------------------------------------------------
(* The steps keep the frames of a packet together. *)

LEMMA LastAppended ==
    ASSUME NEW q \in Seq(PacketFrame), NEW f \in PacketFrame
    PROVE  /\ Append(q, f) # <<>> /\ Append(q, f) # q
           /\ Append(q, f)[Len(Append(q, f))] = f
  <1>1. Len(q) \in Nat /\ Len(Append(q, f)) = Len(q) + 1 /\ Append(q, f)[Len(q) + 1] = f
    OBVIOUS
  <1> QED BY <1>1

LEMMA LastOfTail ==
    ASSUME NEW q \in Seq(PacketFrame), q # <<>>
    PROVE  /\ Tail(q) # q
           /\ Tail(q) = <<>> => q[Len(q)] = Head(q)
           /\ Tail(q) # <<>> => Tail(q)[Len(Tail(q))] = q[Len(q)]
  <1>1. /\ Tail(q) \in Seq(PacketFrame) /\ Len(Tail(q)) = Len(q) - 1 /\ Len(q) \in Nat
        /\ Head(q) = q[1] /\ \A i \in 1 .. Len(Tail(q)) : Tail(q)[i] = q[i + 1]
    OBVIOUS
  <1>2. Tail(q) = <<>> => Len(q) = 1
    BY <1>1
  <1>3. Tail(q) # <<>> => Len(Tail(q)) \in 1 .. Len(Tail(q)) /\ Len(Tail(q)) + 1 = Len(q)
    BY <1>1
  <1>4. Tail(q) # q
    <2>1. PICK k \in Nat : k = Len(q) /\ Len(Tail(q)) = k - 1
      BY <1>1
    <2>2. k # k - 1
      OBVIOUS
    <2> QED BY <2>1, <2>2, Zenon
  <1>5. Tail(q) # <<>> => Tail(q)[Len(Tail(q))] = q[Len(q)]
    BY <1>1, <1>3, Zenon
  <1>6. Tail(q) = <<>> => q[Len(q)] = Head(q)
    BY <1>1, <1>2, Zenon
  <1> QED BY <1>4, <1>5, <1>6

\* The frame that globalTrans reads from the network.
LEMMA TakesFrame ==
    ASSUME TravelInv, NEW n \in Node, Take(n), UNCHANGED wrProp, NEW f, f = Head(net_in[n])
    PROVE  /\ f \in SenderFrame /\ f \in PacketFrame /\ net_in[n] # <<>>
           /\ net_in' = Pop(net_in, n) /\ vertexUpdate' = Push(vertexUpdate, n, f)
           /\ At(f) = TakePos(n) /\ TakePos(n)' = After(f)
           /\ f.head <=> currentState[n] \notin {"remainFrame_same", "remainFrame_other"}
           /\ \A m \in Node \ {n} : TakePos(m)' = TakePos(m)
  <1>1. PICK gap, out \in [Node -> Position] : \A m \in Node : Routed(m, gap, out)
    BY TravelTypes, Routes
  <1>2. /\ net_in[n] \in Seq(PacketFrame) /\ net_in[n] \in Seq(SenderFrame)
        /\ vertexUpdate[n] \in Seq(PacketFrame) /\ vertexUpdate \in [Node -> Seq(PacketFrame)]
        /\ Flow(net_in[n], TakePos(n), gap[n])
    <2>1. /\ net_in \in [Node -> Seq(PacketFrame)] /\ net_in \in [Node -> Seq(SenderFrame)]
          /\ vertexUpdate \in [Node -> Seq(PacketFrame)]
      BY TravelTypes DEF Fifos
    <2> QED BY <1>1, <2>1 DEF Routed
  <1>3. /\ net_in[n] # <<>> /\ net_in' = Pop(net_in, n)
        /\ vertexUpdate' = Push(vertexUpdate, n, f)
    BY DEF Take
  <1>4. f \in PacketFrame /\ At(f) = TakePos(n)
    BY <1>2, <1>3, FlowHead
  <1>5. f \in SenderFrame
    BY <1>2, <1>3
  <1>6. f.head <=> currentState[n] \notin {"remainFrame_same", "remainFrame_other"}
    BY <1>1, <1>4, FramePositions DEF Routed
  <1>7. TakePos(n)' = After(f)
    <2>1. vertexUpdate'[n] = Append(vertexUpdate[n], f)
      BY <1>2, <1>3 DEF Push
    <2>2. /\ vertexUpdate'[n] # <<>>
          /\ vertexUpdate'[n][Len(vertexUpdate'[n])] = f
      BY <1>2, <1>4, <2>1, LastAppended
    <2> QED BY <2>2 DEF TakePos
  <1>8. ASSUME NEW m \in Node \ {n}
        PROVE  TakePos(m)' = TakePos(m)
    <2>1. vertexUpdate'[m] = vertexUpdate[m]
      BY <1>2, <1>3 DEF Push
    <2> QED BY <2>1 DEF TakePos, WritePos
  <1> QED BY <1>3, <1>4, <1>5, <1>6, <1>7, <1>8

\* The frame that globalTrans sends for its own node.
LEMMA SendsFrame ==
    ASSUME TravelInv, NEW n \in Node, vertexTrans[n] # <<>>,
           currentState[n] \in {"firstFrame", "onlySend"}, NEW f, f = Head(vertexTrans[n])
    PROVE  /\ f \in SenderFrame /\ f \in PacketFrame /\ f.node = n
           /\ f.head <=> currentState[n] = "firstFrame"
           /\ Holds(vertexTrans[n], f)
  <1>1. PICK own \in [Node -> Position], mid \in [Node -> Position],
             gap \in [Node -> Position] :
            \A m \in Node : FramedAt(m, own, mid, gap)
    BY TravelTypes DEF Framing
  <1>2. /\ vertexTrans[n] \in Seq(PacketFrame) /\ vertexTrans[n] \in Seq(SenderFrame)
        /\ Flow(vertexTrans[n], own[n], ReadPos(n))
        /\ own[n] # Boundary <=> currentState[n] = "onlySend"
    <2>1. vertexTrans \in [Node -> Seq(PacketFrame)] /\ vertexTrans \in [Node -> Seq(SenderFrame)]
      BY TravelTypes DEF Fifos
    <2> QED BY <1>1, <2>1 DEF FramedAt
  <1>3. f \in PacketFrame /\ At(f) = own[n]
    BY <1>2, FlowHead
  <1>4. f \in SenderFrame /\ 1 \in 1 .. Len(vertexTrans[n]) /\ f = vertexTrans[n][1]
        /\ 1 \in DOMAIN vertexTrans[n]
    BY <1>2
  <1>5. f.node = n
    BY <1>4, TravelTypes DEF IInv, OwnFrames
  <1>6. f.head <=> currentState[n] = "firstFrame"
    BY <1>2, <1>3, FramePositions
  <1> QED BY <1>3, <1>4, <1>5, <1>6 DEF Holds

\* A header that came home is an own one, and one that did not is not.
LEMMA KnowsOwn ==
    ASSUME TravelInv, NEW n \in Node, NEW f, f = Head(net_in[n])
    PROVE  /\ FirstFrameSame(n) => f.node = n
           /\ FirstFrameOther(n) => f.node # n
  <1>1. /\ net_in[n] \in Seq(PacketFrame) /\ vertexTrans \in [Node -> Seq(PacketFrame)]
        /\ wire \in [Node -> Seq(PacketFrame)]
    BY TravelTypes DEF Typed
  <1>2. ASSUME FirstFrameSame(n)
        PROVE  f.node = n
    <2>1. f \in PacketFrame
      BY <1>1, <1>2 DEF FirstFrameSame, Take
    <2>2. f.node \in Node /\ f.node = current_node_id[n] /\ current_node_id[n] \in {n, -1}
      BY <1>2, <2>1, FramePositions, TravelTypes DEF FirstFrameSame, IInv, OwnFrames
    <2>3. -1 \notin Node
      BY RingAssumption DEF Node
    <2> QED BY <2>2, <2>3
  <1>3. ASSUME FirstFrameOther(n)
        PROVE  f.node # n
    <2>1. IInv /\ Balanced(n) /\ GlobalTrans(n)
      BY <1>3, TravelTypes DEF TravelInv, DeliveryInv, GlobalTrans
    <2>2. PICK g \in PacketFrame : MovesOwn(n, g) \/ MovesHome(n, g) \/ MovesOn(n, g)
      BY <2>1, TransMoves
    <2>3. ~MovesOwn(n, g)
      <3> SUFFICES ASSUME MovesOwn(n, g)
                   PROVE  FALSE
        OBVIOUS
      <3>1. vertexTrans' = vertexTrans /\ vertexTrans[n] # <<>>
            /\ vertexTrans'[n] = Tail(vertexTrans[n]) /\ vertexTrans[n] \in Seq(PacketFrame)
        BY <1>1, <1>3 DEF FirstFrameOther, MovesOwn, Pop
      <3> QED BY <3>1, LastOfTail
    <2>4. ~MovesHome(n, g)
      <3> SUFFICES ASSUME MovesHome(n, g)
                   PROVE  FALSE
        OBVIOUS
      <3>1. wire' = wire /\ wire'[n] = Append(wire[n], f) /\ wire[n] \in Seq(PacketFrame)
        BY <1>1, <1>3 DEF FirstFrameOther, MovesHome, Send, Push
      <3>2. f \in PacketFrame
        BY <1>1, <1>3 DEF FirstFrameOther, Take
      <3> QED BY <3>1, <3>2, LastAppended
    <2>5. MovesOn(n, g) /\ g = f
      BY <2>2, <2>3, <2>4 DEF MovesOn
    <2>6. f.head
      <3>1. Take(n) /\ UNCHANGED wrProp /\ currentState[n] = "firstFrame"
        BY <1>3 DEF FirstFrameOther, writeVars
      <3> QED BY <3>1, TakesFrame
    <2> QED BY <2>5, <2>6 DEF MovesOn
  <1> QED BY <1>2, <1>3

\* writeProp only catches up with what went to it.
LEMMA WriteKeepsTake ==
    ASSUME TravelInv, NEW n \in Node, WriteProp(n), NEW m \in Node
    PROVE  TakePos(m)' = TakePos(m)
  <1>1. /\ Typed /\ Framing /\ Writing(n) /\ vertexUpdate \in [Node -> Seq(PacketFrame)]
    BY TravelTypes DEF IInv, Fifos
  <1> PICK f : f = Head(vertexUpdate[n])
    OBVIOUS
  <1>2. /\ f \in PacketFrame /\ vertexUpdate[n] # <<>> /\ vertexUpdate' = Pop(vertexUpdate, n)
        /\ wrProp[n].state # "firstFrame" => ~f.head /\ f.addr = wrProp[n].address + wrProp[n].offset
        /\ wrProp[n].state = "firstFrame" => f.head
        /\ wrProp[n].address \in Nat /\ wrProp[n].offset \in Nat
    BY <1>1, WriteFrame
  <1>3. CASE m # n
    <2>1. wrProp'[m] = wrProp[m]
      BY <1>1, <1>3, WriteOthers
    <2>2. vertexUpdate'[m] = vertexUpdate[m]
      BY <1>1, <1>2, <1>3 DEF Pop
    <2> QED BY <2>1, <2>2 DEF TakePos, WritePos
  <1>4. CASE m = n
    <2>1. WritePos(n)' = After(f)
      <3>1. f.head => ~f.last /\ f.addr \in Nat
        BY <1>2, FramePositions
      <3>2. CASE WritePropFirst(n)
        <4>1. wrProp' = [wrProp EXCEPT ![n].state = "remainFrame",
                                       ![n].address = f.addr, ![n].offset = 0]
              /\ f.head
          BY <1>2, <3>2 DEF WritePropFirst
        <4>2. /\ wrProp'[n].state = "remainFrame" /\ wrProp'[n].address = f.addr
              /\ wrProp'[n].offset = 0
          BY <1>1, <4>1 DEF Typed
        <4>3. WritePos(n)' = f.addr + 0
          BY <4>2 DEF WritePos
        <4> QED BY <3>1, <4>1, <4>3 DEF After
      <3>3. CASE WritePropRemain(n)
        <4>1. /\ wrProp' = [wrProp EXCEPT ![n] =
                     [state |-> IF f.last THEN "firstFrame" ELSE "remainFrame",
                      address |-> wrProp[n].address,
                      offset |-> wrProp[n].offset + 1,
                      process_packet_num |-> wrProp[n].process_packet_num
                                             + (IF f.last THEN 1 ELSE 0)]]
              /\ wrProp[n].state = "remainFrame"
          BY <3>3 DEF WritePropRemain
        <4>2. /\ wrProp'[n].state = IF f.last THEN "firstFrame" ELSE "remainFrame"
              /\ wrProp'[n].address = wrProp[n].address
              /\ wrProp'[n].offset = wrProp[n].offset + 1
          BY <1>1, <4>1 DEF Typed
        <4>3. ~f.head /\ f.addr = wrProp[n].address + wrProp[n].offset
          BY <1>2, <4>1
        <4>4. CASE f.last
          BY <4>2, <4>4 DEF WritePos, After
        <4>5. CASE ~f.last
          <5>1. WritePos(n)' = wrProp[n].address + (wrProp[n].offset + 1)
            BY <4>2, <4>5 DEF WritePos
          <5>2. After(f) = f.addr + 1
            BY <4>3, <4>5 DEF After
          <5> QED BY <1>2, <4>3, <5>1, <5>2
        <4> QED BY <4>4, <4>5
      <3> QED BY <3>2, <3>3 DEF WriteProp
    <2>2. vertexUpdate[n] \in Seq(PacketFrame) /\ vertexUpdate'[n] = Tail(vertexUpdate[n])
      BY <1>1, <1>2 DEF Pop
    <2>3. CASE vertexUpdate'[n] = <<>>
      <3>1. vertexUpdate[n][Len(vertexUpdate[n])] = f
        BY <1>2, <2>2, <2>3, LastOfTail
      <3>2. TakePos(n) = After(f)
        BY <1>2, <3>1 DEF TakePos
      <3> QED BY <1>4, <2>1, <2>3, <3>2 DEF TakePos
    <2>4. CASE vertexUpdate'[n] # <<>>
      <3>1. vertexUpdate'[n][Len(vertexUpdate'[n])] = vertexUpdate[n][Len(vertexUpdate[n])]
        BY <1>2, <2>2, <2>4, LastOfTail
      <3> QED BY <1>2, <1>4, <2>4, <3>1 DEF TakePos
    <2> QED BY <2>3, <2>4
  <1> QED BY <1>3, <1>4

\* Frames keep their stamp wherever they go.
LEMMA StampsMove ==
    ASSUME NEW q \in [Node -> Seq(SenderFrame)], NEW n \in Node
    PROVE  /\ \A f \in SenderFrame : Push(q, n, f) \in [Node -> Seq(SenderFrame)]
           /\ q[n] # <<>> => /\ Pop(q, n) \in [Node -> Seq(SenderFrame)]
                             /\ Head(q[n]) \in SenderFrame
           /\ \A j \in 1 .. Len(q[n]) : Cut(q, n, j) \in [Node -> Seq(SenderFrame)]
  <1>1. q[n] \in Seq(SenderFrame)
    OBVIOUS
  <1>2. ASSUME NEW f \in SenderFrame
        PROVE  Push(q, n, f) \in [Node -> Seq(SenderFrame)]
    <2>1. Append(q[n], f) \in Seq(SenderFrame)
      BY <1>1
    <2> QED BY <2>1 DEF Push
  <1>3. ASSUME q[n] # <<>>
        PROVE  Pop(q, n) \in [Node -> Seq(SenderFrame)] /\ Head(q[n]) \in SenderFrame
    <2>1. Tail(q[n]) \in Seq(SenderFrame) /\ Head(q[n]) \in SenderFrame
      BY <1>1, <1>3
    <2> QED BY <2>1 DEF Pop
  <1>4. ASSUME NEW j \in 1 .. Len(q[n])
        PROVE  Cut(q, n, j) \in [Node -> Seq(SenderFrame)]
    <2>1. SubSeq(q[n], j + 1, Len(q[n])) \in Seq(SenderFrame)
      BY <1>1
    <2> QED BY <2>1 DEF Cut
  <1> QED BY <1>2, <1>3, <1>4

LEMMA ReadStamps ==
    ASSUME Typed, NEW n \in Node, Bounded(n), Reading(n), ReadProp(n)
    PROVE  NextFrame(n) \in SenderFrame
  <1> PICK f : f = NextFrame(n)
    OBVIOUS
  <1>1. f \in PacketFrame /\ f.node = n
    BY ReadFrame
  <1>2. /\ rdProp[n].item \in DOMAIN Schedule[n]
        /\ f.addr = Schedule[n][rdProp[n].item] * BlockNum + rdProp[n].address
    BY ReadMoves DEF NextFrame
  <1>3. rdProp[n].address \in 0 .. BlockNum - 1
    <2>1. PICK k \in Nat :
              /\ rdProp[n].i = k * Payload + k + rdProp[n].frameId
              /\ rdProp[n].i < BlockNum + packets_of(BlockNum)
              /\ rdProp[n].address
                     = k * Payload + (IF rdProp[n].frameId = 0 THEN 0 ELSE rdProp[n].frameId - 1)
      BY DEF Reading
    <2>2. PICK r \in 0 .. Payload : r = rdProp[n].frameId
      BY DEF Typed
    <2>3. PICK x \in Nat : x = k * Payload
      BY ConstantTypes
    <2>4. /\ k * Payload \in 0 .. BlockNum - 1
          /\ r > 0 => k * Payload + r - 1 \in 0 .. BlockNum - 1
      BY <2>1, <2>2, ReadingBounds
    <2>5. rdProp[n].address = x + (IF r = 0 THEN 0 ELSE r - 1)
      BY <2>1, <2>2, <2>3
    <2>6. x \in 0 .. BlockNum - 1 /\ (r > 0 => x + r - 1 \in 0 .. BlockNum - 1)
      BY <2>3, <2>4
    <2>7. BlockNum \in Nat /\ Payload \in Nat
      BY ConstantTypes
    <2> QED BY ONLY <2>5, <2>6, <2>7, r \in 0 .. Payload, x \in Nat
  <1>4. Schedule[n][rdProp[n].item] \in Partition
    <2>1. Schedule[n] \in Seq(Partition)
      BY ConstantTypes
    <2> QED BY <1>2, <2>1
  <1>5. Computes(n, f.addr)
    <2>1. f.addr \div BlockNum = Schedule[n][rdProp[n].item]
      BY <1>2, <1>3, <1>4, DivOfBlock
    <2> QED BY <1>2, <2>1 DEF Computes
  <1> QED BY <1>1, <1>5 DEF SenderFrame

LEMMA StampedNext ==
    ASSUME TravelInv, [Next]_vars
    PROVE  \A n \in Node : Stamped(n)'
  <1>1. /\ vertexTrans \in [Node -> Seq(SenderFrame)] /\ wire \in [Node -> Seq(SenderFrame)]
        /\ net_in \in [Node -> Seq(SenderFrame)] /\ vertexUpdate \in [Node -> Seq(SenderFrame)]
    BY TravelTypes DEF Fifos
  <1>2. /\ IInv /\ Typed /\ Framing
        /\ \A n \in Node : Bounded(n) /\ Reading(n) /\ Writing(n) /\ Balanced(n)
    BY TravelTypes DEF IInv, TravelInv, DeliveryInv
  <1> SUFFICES /\ vertexTrans' \in [Node -> Seq(SenderFrame)]
               /\ wire' \in [Node -> Seq(SenderFrame)]
               /\ net_in' \in [Node -> Seq(SenderFrame)]
               /\ vertexUpdate' \in [Node -> Seq(SenderFrame)]
    BY DEF Stamped
  <1>3. ASSUME NEW n \in Node, ReadProp(n)
        PROVE  /\ vertexTrans' \in [Node -> Seq(SenderFrame)]
               /\ UNCHANGED <<wire, net_in, vertexUpdate>>
    <2> PICK f : f = NextFrame(n)
      OBVIOUS
    <2>1. vertexTrans' = Push(vertexTrans, n, f) /\ UNCHANGED <<wire, net_in, vertexUpdate>>
      BY <1>3 DEF ReadProp, NextFrame, netVars
    <2>2. f \in SenderFrame
      BY <1>2, <1>3, ReadStamps
    <2> QED BY <1>1, <2>1, <2>2, StampsMove
  <1>4. ASSUME NEW n \in Node, GlobalTrans(n)
        PROVE  /\ vertexTrans' \in [Node -> Seq(SenderFrame)]
               /\ wire' \in [Node -> Seq(SenderFrame)]
               /\ net_in' \in [Node -> Seq(SenderFrame)]
               /\ vertexUpdate' \in [Node -> Seq(SenderFrame)]
    <2>1. PICK f \in PacketFrame : MovesOwn(n, f) \/ MovesHome(n, f) \/ MovesOn(n, f)
      BY <1>2, <1>4, TransMoves
    <2>2. CASE MovesOwn(n, f)
      BY <1>1, <2>2, StampsMove DEF MovesOwn
    <2>3. CASE MovesHome(n, f)
      BY <1>1, <2>3, StampsMove DEF MovesHome
    <2>4. CASE MovesOn(n, f)
      BY <1>1, <2>4, StampsMove DEF MovesOn
    <2> QED BY <2>1, <2>2, <2>3, <2>4
  <1>5. ASSUME NEW n \in Node, Arrive(n)
        PROVE  /\ wire' \in [Node -> Seq(SenderFrame)]
               /\ net_in' \in [Node -> Seq(SenderFrame)]
               /\ UNCHANGED <<vertexTrans, vertexUpdate>>
    <2> PICK u \in Node : u = upper_worker_idx(n)
      BY Neighbours
    <2>1. /\ wire[u] # <<>> /\ net_in' = Push(net_in, n, Head(wire[u])) /\ wire' = Pop(wire, u)
          /\ UNCHANGED <<vertexTrans, vertexUpdate>>
      BY <1>5 DEF Arrive
    <2> QED BY <1>1, <2>1, StampsMove
  <1>6. ASSUME NEW n \in Node, Drop(n)
        PROVE  /\ wire' \in [Node -> Seq(SenderFrame)]
               /\ UNCHANGED <<vertexTrans, net_in, vertexUpdate>>
    <2> PICK u \in Node : u = upper_worker_idx(n)
      BY Neighbours
    <2>1. PICK j \in 1 .. Len(wire[u]) : wire' = Cut(wire, u, j)
      BY <1>2, <1>6, DropFacts
    <2>2. UNCHANGED <<vertexTrans, net_in, vertexUpdate>>
      BY <1>6 DEF Drop
    <2> QED BY <1>1, <2>1, <2>2, StampsMove
  <1>7. ASSUME NEW n \in Node, WriteProp(n)
        PROVE  /\ vertexUpdate' \in [Node -> Seq(SenderFrame)]
               /\ UNCHANGED <<vertexTrans, wire, net_in>>
    <2>1. /\ vertexUpdate[n] # <<>> /\ vertexUpdate' = Pop(vertexUpdate, n)
          /\ UNCHANGED <<vertexTrans, wire, net_in>>
      BY <1>2, <1>7, WriteFrame
    <2> QED BY <1>1, <2>1, StampsMove
  <1>8. CASE UNCHANGED vars
    BY <1>1, <1>8 DEF vars
  <1> QED BY <1>1, <1>3, <1>4, <1>5, <1>6, <1>7, <1>8 DEF Next, Terminated

\* Inside of a packet, the next position is one of the same packet.
LEMMA NextPosition ==
    ASSUME NEW f \in PacketFrame, ~f.last
    PROVE  /\ After(f) \in Position /\ After(f) # Boundary /\ After(f) \in Block
           /\ PacketStart(After(f)) = IF f.head THEN f.addr ELSE PacketStart(At(f))
           /\ PacketStart(f.addr) = IF f.head THEN f.addr ELSE PacketStart(At(f))
           /\ \A n \in Node : Computes(n, After(f)) <=> Computes(n, f.addr)
  <1>1. /\ f.addr \in Block /\ After(f) \in Position /\ After(f) # Boundary
        /\ f.head => Slot(f.addr) = 0 /\ After(f) = f.addr
        /\ ~f.head => At(f) = f.addr /\ After(f) = f.addr + 1
                      /\ f.addr + 1 \in Block /\ Slot(f.addr + 1) = Slot(f.addr) + 1
    BY FramePositions DEF PacketFrame
  <1>2. After(f) \in Block
    BY <1>1 DEF Position
  <1>3. f.head => PacketStart(f.addr) = f.addr /\ PacketStart(After(f)) = f.addr
    BY <1>1, Packets
  <1>4. ~f.head => PacketStart(After(f)) = PacketStart(f.addr) /\ PacketStart(f.addr) = PacketStart(At(f))
    BY <1>1, SamePacketNext
  <1>5. After(f) \div BlockNum = f.addr \div BlockNum
    BY <1>1, <1>2, <1>3, <1>4, SamePartition
  <1>6. \A n \in Node : Computes(n, After(f)) <=> Computes(n, f.addr)
    BY <1>5 DEF Computes
  <1> QED BY <1>1, <1>2, <1>3, <1>4, <1>6

LEMMA TransTakesOwn ==
    ASSUME TravelInv, NEW n \in Node, GlobalTrans(n), NEW m \in Node
    PROVE  TakesOwn(m)'
  <1>1. TakesOwn(m) /\ Typed /\ currentState \in [Node -> {"firstFrame", "remainFrame_same",
                                                           "remainFrame_other", "onlySend"}]
    BY TravelTypes DEF TravelInv, Typed
  <1>2. /\ m # n => currentState'[m] = currentState[m]
        /\ \A k \in Node : \A a : Computes(k, a)' <=> Computes(k, a)
    BY <1>1 DEF GlobalTrans, FirstFrameSame, FirstFrameOther, FirstFrameOwn, RemainFrameSame,
                RemainFrameOther, OnlySend, Goto, Computes
  <1>3. CASE FirstFrameOwn(n) \/ OnlySend(n)
    <2>1. UNCHANGED <<vertexUpdate, wrProp>>
          /\ (m = n => currentState'[m] \in {"firstFrame", "onlySend"})
      BY <1>1, <1>3 DEF FirstFrameOwn, OnlySend, writeVars, Goto
    <2>2. TakePos(m)' = TakePos(m)
      BY <2>1 DEF TakePos, WritePos
    <2> QED BY <1>1, <1>2, <2>1, <2>2 DEF TakesOwn
  <1>4. CASE FirstFrameSame(n) \/ FirstFrameOther(n) \/ RemainFrameSame(n) \/ RemainFrameOther(n)
    <2> PICK f : f = Head(net_in[n])
      OBVIOUS
    <2>1. Take(n) /\ UNCHANGED wrProp
      BY <1>4 DEF FirstFrameSame, FirstFrameOther, RemainFrameSame, RemainFrameOther, writeVars
    <2>2. /\ f \in SenderFrame /\ f \in PacketFrame /\ At(f) = TakePos(n) /\ TakePos(n)' = After(f)
          /\ f.head <=> currentState[n] \notin {"remainFrame_same", "remainFrame_other"}
          /\ \A k \in Node \ {n} : TakePos(k)' = TakePos(k)
      BY <2>1, TakesFrame
    <2>3. CASE m # n
      BY <1>1, <1>2, <2>2, <2>3 DEF TakesOwn
    <2>4. CASE m = n /\ (FirstFrameSame(n) \/ FirstFrameOther(n))
      <3>1. f.head /\ currentState[n] = "firstFrame"
        BY <2>2, <2>4 DEF FirstFrameSame, FirstFrameOther
      <3>2. f \in Packet /\ f.node \in Node /\ ~f.last
        BY <2>2, <3>1, HeaderPacket, FramePositions
      <3>3. Computes(n, After(f)) <=> n = f.node
        <4>1. After(f) \in Position /\ After(f) # Boundary /\ PacketStart(After(f)) = f.addr
          BY <2>2, <3>1, <3>2, NextPosition
        <4> QED BY <3>2, <4>1, OwnerOf
      <3>4. CASE FirstFrameSame(n)
        <4>1. currentState'[n] = "remainFrame_same" /\ f.node = n
          BY <1>1, <3>4, KnowsOwn DEF FirstFrameSame, Goto
        <4> QED BY <1>2, <2>2, <2>4, <3>3, <4>1 DEF TakesOwn
      <3>5. CASE FirstFrameOther(n)
        <4>1. currentState'[n] = "remainFrame_other" /\ f.node # n
          BY <1>1, <3>5, KnowsOwn DEF FirstFrameOther, Goto
        <4> QED BY <1>2, <2>2, <2>4, <3>3, <4>1 DEF TakesOwn
      <3> QED BY <2>4, <3>4, <3>5
    <2>5. CASE m = n /\ (RemainFrameSame(n) \/ RemainFrameOther(n))
      <3>1. /\ ~f.head
            /\ currentState'[n] = IF f.last THEN "firstFrame" ELSE currentState[n]
        BY <1>1, <2>2, <2>5 DEF RemainFrameSame, RemainFrameOther, Goto
      <3>2. CASE f.last
        BY <2>5, <3>1, <3>2 DEF TakesOwn
      <3>3. CASE ~f.last
        <4>1. At(f) = f.addr
          BY <3>1 DEF At
        <4>2. Computes(n, After(f)) <=> Computes(n, TakePos(n))
          BY <2>2, <3>3, <4>1, NextPosition
        <4> QED BY <1>1, <1>2, <2>2, <2>5, <3>1, <3>3, <4>2 DEF TakesOwn
      <3> QED BY <3>2, <3>3
    <2> QED BY <1>4, <2>3, <2>4, <2>5
  <1> QED BY <1>3, <1>4 DEF GlobalTrans

LEMMA TravelNext == TravelInv /\ [Next]_vars => TravelInv'
  <1> SUFFICES ASSUME TravelInv, [Next]_vars
               PROVE  TravelInv'
    OBVIOUS
  <1>1. DeliveryInv'
    BY DeliveryNext DEF TravelInv
  <1>2. \A n \in Node : Stamped(n)'
    BY StampedNext
  <1>3. ASSUME NEW m \in Node
        PROVE  TakesOwn(m)'
    <2>1. TakesOwn(m)
      BY DEF TravelInv
    <2>2. ASSUME TakePos(m)' = TakePos(m), UNCHANGED currentState
          PROVE  TakesOwn(m)'
      BY <2>1, <2>2 DEF TakesOwn, Computes
    <2>3. ASSUME UNCHANGED <<currentState, vertexUpdate, wrProp>>
          PROVE  TakesOwn(m)'
      BY <2>2, <2>3 DEF TakePos, WritePos
    <2>4. ASSUME NEW n \in Node, ReadProp(n)
          PROVE  TakesOwn(m)'
      BY <2>3, <2>4 DEF ReadProp, transVars, writeVars
    <2>5. ASSUME NEW n \in Node, Arrive(n) \/ Drop(n)
          PROVE  TakesOwn(m)'
      BY <2>3, <2>5 DEF Arrive, Drop, transVars, writeVars
    <2>6. ASSUME NEW n \in Node, WriteProp(n)
          PROVE  TakesOwn(m)'
      <3>1. UNCHANGED currentState
        BY <2>6 DEF WriteProp, WritePropFirst, WritePropRemain, WritePropRuns, transVars
      <3> QED BY <2>2, <2>6, <3>1, WriteKeepsTake
    <2>7. ASSUME UNCHANGED vars
          PROVE  TakesOwn(m)'
      BY <2>3, <2>7 DEF vars
    <2> QED BY <2>4, <2>5, <2>6, <2>7, TransTakesOwn DEF Next, Terminated
  <1> QED BY <1>1, <1>2, <1>3 DEF TravelInv

LEMMA TravelInit == Init => TravelInv
  <1> SUFFICES ASSUME Init
               PROVE  TravelInv
    OBVIOUS
  <1>1. DeliveryInv
    BY DeliveryInit
  <1>2. ASSUME NEW n \in Node
        PROVE  Stamped(n) /\ TakesOwn(n)
    BY DEF Init, Stamped, TakesOwn
  <1> QED BY <1>1, <1>2 DEF TravelInv

\* globalTrans takes the packets of its own node off the ring and no others.
THEOREM OwnersTakeTheirOwn == Spec => []TravelInv
  <1>1. Init => TravelInv
    BY TravelInit
  <1>2. TravelInv /\ [Next]_vars => TravelInv'
    BY TravelNext
  <1> QED BY <1>1, <1>2, PTL DEF Spec

-----------------------------------------------------------------------------
(* What a step does to the places of a packet. *)

LEMMA PushedFrames ==
    ASSUME NEW q \in [Node -> Seq(PacketFrame)], NEW m \in Node, NEW f \in PacketFrame,
           NEW h, NEW n \in Node
    PROVE  /\ Holds(Push(q, m, f)[n], h) <=> Holds(q[n], h) \/ (n = m /\ f = h)
           /\ Unfinished(Push(q, m, f)[n], h) <=>
                  IF n = m THEN ~f.last /\ (Unfinished(q[n], h) \/ f = h)
                  ELSE Unfinished(q[n], h)
  <1>1. CASE n # m
    BY <1>1 DEF Push
  <1>2. CASE n = m
    <2> PICK w \in Seq(PacketFrame) : w = q[m]
      OBVIOUS
    <2> PICK v : v = Append(w, f)
      OBVIOUS
    <2>1. Push(q, m, f)[n] = v
      BY <1>2 DEF Push
    <2> PICK k \in Nat : k = Len(w)
      OBVIOUS
    <2>2. /\ Len(v) = k + 1 /\ v[k + 1] = f /\ DOMAIN v = 1 .. k + 1 /\ DOMAIN w = 1 .. k
          /\ \A i \in 1 .. k : v[i] = w[i]
      OBVIOUS
    <2>3. \A i \in 1 .. k + 1 : i \in 1 .. k \/ i = k + 1
      OBVIOUS
    <2>4. 1 .. k \subseteq 1 .. k + 1 /\ k + 1 \in 1 .. k + 1 /\ Len(w) = k
      OBVIOUS
    <2>5. Holds(v, h) <=> Holds(w, h) \/ f = h
      BY <2>2, <2>3, <2>4, Zenon DEF Holds
    <2>6. ASSUME Unfinished(v, h)
          PROVE  ~f.last /\ (Unfinished(w, h) \/ f = h)
      <3>1. PICK i \in 1 .. k + 1 : v[i] = h /\ \A j \in i .. k + 1 : ~v[j].last
        BY <2>2, <2>6 DEF Unfinished
      <3>2. ~f.last
        <4>1. k + 1 \in i .. k + 1
          OBVIOUS
        <4> QED BY <2>2, <3>1, <4>1
      <3>3. CASE i = k + 1
        BY <2>2, <3>1, <3>2, <3>3
      <3>4. CASE i \in 1 .. k
        <4>1. \A j \in i .. k : j \in i .. k + 1 /\ j \in 1 .. k
          BY <3>4
        <4>2. w[i] = h /\ \A j \in i .. k : ~w[j].last
          BY <2>2, <3>1, <3>4, <4>1
        <4> QED BY <2>4, <3>2, <3>4, <4>2 DEF Unfinished
      <3> QED BY <2>3, <3>3, <3>4
    <2>7. ASSUME ~f.last, Unfinished(w, h) \/ f = h
          PROVE  Unfinished(v, h)
      <3>1. CASE f = h
        <4>1. k + 1 \in 1 .. k + 1 /\ \A j \in k + 1 .. k + 1 : j = k + 1
          OBVIOUS
        <4> QED BY <2>2, <2>7, <3>1, <4>1 DEF Unfinished
      <3>2. CASE Unfinished(w, h)
        <4>1. PICK i \in 1 .. k : w[i] = h /\ \A j \in i .. k : ~w[j].last
          BY <2>4, <3>2 DEF Unfinished
        <4>2. \A j \in i .. k + 1 : j = k + 1 \/ (j \in i .. k /\ j \in 1 .. k)
          BY ONLY k \in Nat, i \in 1 .. k
        <4>3. \A j \in i .. k + 1 : ~v[j].last
          BY <2>2, <2>7, <4>1, <4>2
        <4> QED BY <2>2, <2>4, <4>1, <4>3 DEF Unfinished
      <3> QED BY <2>7, <3>1, <3>2
    <2> QED BY <1>2, <2>1, <2>5, <2>6, <2>7
  <1> QED BY <1>1, <1>2

LEMMA CutFrames ==
    ASSUME NEW q \in [Node -> Seq(PacketFrame)], NEW m \in Node, NEW j \in 1 .. Len(q[m]),
           NEW h, \A i \in 1 .. j : q[m][i] # h, NEW n \in Node
    PROVE  /\ Holds(Cut(q, m, j)[n], h) <=> Holds(q[n], h)
           /\ Unfinished(Cut(q, m, j)[n], h) <=> Unfinished(q[n], h)
  <1>1. CASE n # m
    BY <1>1 DEF Cut
  <1>2. CASE n = m
    <2> PICK w \in Seq(PacketFrame) : w = q[m]
      OBVIOUS
    <2> PICK v : v = SubSeq(w, j + 1, Len(w))
      OBVIOUS
    <2>1. Cut(q, m, j)[n] = v
      BY <1>2 DEF Cut
    <2> PICK k \in Nat : k = Len(w)
      OBVIOUS
    <2>2. j \in 1 .. k /\ DOMAIN w = 1 .. k
      OBVIOUS
    <2>3. /\ Len(v) = k - j /\ DOMAIN v = 1 .. k - j
          /\ \A i \in 1 .. k - j : v[i] = w[i + j]
      BY <2>2
    <2>4. \A i \in 1 .. k - j : i + j \in 1 .. k
      BY <2>2
    <2>5. \A i \in 1 .. k : i \in 1 .. j \/ (i - j \in 1 .. k - j /\ i - j + j = i)
      BY <2>2
    <2>6. Holds(v, h) <=> Holds(w, h)
      <3>1. ASSUME NEW i \in 1 .. k - j, v[i] = h
            PROVE  Holds(w, h)
        BY <2>2, <2>3, <2>4, <3>1 DEF Holds
      <3>2. ASSUME NEW i \in 1 .. k, w[i] = h
            PROVE  Holds(v, h)
        <4>1. i \notin 1 .. j
          BY <3>2
        <4>2. i - j \in 1 .. k - j /\ i - j + j = i
          BY <2>5, <4>1
        <4> QED BY <2>3, <3>2, <4>2 DEF Holds
      <3> QED BY <2>2, <2>3, <3>1, <3>2 DEF Holds
    <2>7. ASSUME Unfinished(v, h)
          PROVE  Unfinished(w, h)
      <3>1. PICK i \in 1 .. k - j : v[i] = h /\ \A l \in i .. k - j : ~v[l].last
        BY <2>3, <2>7 DEF Unfinished
      <3>2. \A l \in i + j .. k : l - j \in i .. k - j /\ l - j \in 1 .. k - j /\ l - j + j = l
        BY <2>2
      <3>3. i + j \in 1 .. k /\ w[i + j] = h /\ \A l \in i + j .. k : ~w[l].last
        BY <2>3, <2>4, <3>1, <3>2, ZenonT(40)
      <3> QED BY <3>3 DEF Unfinished
    <2>8. ASSUME Unfinished(w, h)
          PROVE  Unfinished(v, h)
      <3>1. PICK i \in 1 .. k : w[i] = h /\ \A l \in i .. k : ~w[l].last
        BY <2>8 DEF Unfinished
      <3>2. i \notin 1 .. j
        BY <3>1
      <3>3. i - j \in 1 .. k - j /\ i - j + j = i
        BY <2>5, <3>2
      <3>4. \A l \in i - j .. k - j : l + j \in i .. k /\ l \in 1 .. k - j
        BY <2>2, <3>3
      <3>5. v[i - j] = h /\ \A l \in i - j .. k - j : ~v[l].last
        BY <2>3, <3>1, <3>3, <3>4
      <3> QED BY <2>3, <3>3, <3>5 DEF Unfinished
    <2> QED BY <1>2, <2>1, <2>6, <2>7, <2>8
  <1> QED BY <1>1, <1>2

LEMMA PoppedFrames ==
    ASSUME NEW q \in [Node -> Seq(PacketFrame)], NEW m \in Node, q[m] # <<>>,
           NEW h, Head(q[m]) # h, NEW n \in Node
    PROVE  /\ Holds(Pop(q, m)[n], h) <=> Holds(q[n], h)
           /\ Unfinished(Pop(q, m)[n], h) <=> Unfinished(q[n], h)
  <1>1. 1 \in 1 .. Len(q[m]) /\ Head(q[m]) = q[m][1] /\ Pop(q, m) = Cut(q, m, 1)
    BY PopIsCut
  <1>2. \A i \in 1 .. 1 : q[m][i] # h
    BY <1>1
  <1> QED BY <1>1, <1>2, CutFrames

\* A packet stays where it is while nothing that tells its stage changes.
Untouched(h) ==
    /\ \A n \in Node : /\ Holds(wire[n], h)' <=> Holds(wire[n], h)
                       /\ Holds(net_in[n], h)' <=> Holds(net_in[n], h)
                       /\ OpenIn(n, h)' <=> OpenIn(n, h)
    /\ (h \in lost') <=> h \in lost
    /\ Sent(h)' <=> Sent(h)
    /\ TakingHome(h)' <=> TakingHome(h)

LEMMA UntouchedStays ==
    ASSUME Staged, Staged', NEW h \in Packet, Untouched(h)
    PROVE  stageBar'[h] = stageBar[h] /\ atBar'[h] = atBar[h]
  <1>1. Seen(h) /\ Seen(h)'
    BY DEF Staged
  <1>2. CASE Aboard(h)
    <2>1. PICK n \in Node : Holds(wire[n], h) \/ Holds(net_in[n], h)
      BY <1>2 DEF Aboard
    <2>2. CASE Holds(net_in[n], h)
      BY <1>1, <2>2 DEF Seen, Untouched
    <2>3. CASE Holds(wire[n], h)
      BY <1>1, <2>3 DEF Seen, Untouched
    <2> QED BY <2>1, <2>2, <2>3
  <1>3. CASE ~Aboard(h)
    <2>1. ~Aboard(h)'
      BY <1>3 DEF Aboard, Untouched
    <2> QED BY <1>1, <1>3, <2>1 DEF Seen, Untouched
  <1> QED BY <1>2, <1>3

LEMMA PacketMoves ==
    ASSUME Staged, Staged', NEW p \in Packet, \A h \in Packet \ {p} : Untouched(h),
           NEW s, NEW n, stageBar'[p] = s, atBar'[p] = n
    PROVE  Credits!Move(p, s, n)
  <1>1. \A h \in Packet \ {p} : stageBar'[h] = stageBar[h] /\ atBar'[h] = atBar[h]
    BY UntouchedStays
  <1>2. /\ stageBar = [h \in Packet |-> stageBar[h]] /\ atBar = [h \in Packet |-> atBar[h]]
        /\ stageBar' = [h \in Packet |-> stageBar'[h]] /\ atBar' = [h \in Packet |-> atBar'[h]]
    BY DEF stageBar, atBar
  <1>3. stageBar' = [stageBar EXCEPT ![p] = s]
    BY <1>1, <1>2
  <1>4. atBar' = [atBar EXCEPT ![p] = n]
    BY <1>1, <1>2
  <1> QED BY <1>3, <1>4 DEF Credits!Move

LEMMA NoPacketMoves ==
    ASSUME Staged, Staged', \A h \in Packet : Untouched(h), UNCHANGED write_read_num
    PROVE  UNCHANGED Credits!vars
  <1>1. \A h \in Packet : stageBar'[h] = stageBar[h] /\ atBar'[h] = atBar[h]
    BY UntouchedStays
  <1>2. /\ stageBar = [h \in Packet |-> stageBar[h]] /\ atBar = [h \in Packet |-> atBar[h]]
        /\ stageBar' = [h \in Packet |-> stageBar'[h]] /\ atBar' = [h \in Packet |-> atBar'[h]]
    BY DEF stageBar, atBar
  <1>3. stageBar' = stageBar /\ atBar' = atBar
    BY <1>1, <1>2
  <1> QED BY <1>3 DEF Credits!vars
-----------------------------------------------------------------------------
(* The steps of RingExchange, as steps of CreditRing. *)

\* What decides the stages, but for the places of the headers.
LEMMA TakingStays ==
    ASSUME NEW h \in Packet, currentState'[h.node] = currentState[h.node],
           TakePos(h.node)' = TakePos(h.node)
    PROVE  TakingHome(h)' <=> TakingHome(h)
  BY DEF TakingHome, TakenAt

\* Two packets are never open at once.
LEMMA OneOpen ==
    ASSUME TravelInv, NEW g \in Packet, NEW h \in Packet, NEW n \in Node,
           OpenIn(n, g), OpenIn(n, h)
    PROVE  g = h
  <1>1. PICK gap, out \in [Node -> Position] : \A m \in Node : Routed(m, gap, out)
    BY TravelTypes, Routes
  <1>2. PacketStart(out[n]) = g.addr /\ PacketStart(out[n]) = h.addr
    BY <1>1, OpenAhead
  <1> QED BY <1>2, SameAddress

\* The FSM is inside of a packet when one is open.
LEMMA OpenState ==
    ASSUME TravelInv, NEW n \in Node
    PROVE  /\ \A h \in Packet : OpenIn(n, h) => currentState[n] \in {"onlySend", "remainFrame_other"}
           /\ currentState[n] \in {"onlySend", "remainFrame_other"} =>
                  \E h \in Packet : OpenIn(n, h) /\ Holds(wire[n], h)
  <1>1. PICK gap, out \in [Node -> Position] : \A m \in Node : Routed(m, gap, out)
    BY TravelTypes, Routes
  <1>2. ASSUME NEW h \in Packet, OpenIn(n, h)
        PROVE  currentState[n] \in {"onlySend", "remainFrame_other"}
    <2>1. out[n] # Boundary
      BY <1>1, <1>2, OpenAhead
    <2> QED BY <1>1, <2>1 DEF Routed
  <1>3. ASSUME currentState[n] \in {"onlySend", "remainFrame_other"}
        PROVE  \E h \in Packet : OpenIn(n, h) /\ Holds(wire[n], h)
    <2>1. OpenPacket(n)
      BY DEF TravelInv, DeliveryInv, CreditInv
    <2>2. PICK i \in 1 .. Len(wire[n]) :
              /\ wire[n][i].head
              /\ \A j \in i .. Len(wire[n]) : ~wire[n][j].last
      BY <1>3, <2>1 DEF OpenPacket
    <2>3. wire[n] \in Seq(SenderFrame)
      BY TravelTypes DEF Fifos
    <2>4. wire[n][i] \in SenderFrame /\ i \in DOMAIN wire[n]
      BY <2>3
    <2>5. wire[n][i] \in Packet
      BY <2>2, <2>4, HeaderPacket
    <2> QED BY <2>2, <2>4, <2>5 DEF OpenIn, Unfinished, Holds
  <1> QED BY <1>2, <1>3

\* In firstFrame no packet is half read or half sent.
LEMMA NotBusy ==
    ASSUME TravelInv, Staged, NEW n \in Node, currentState[n] = "firstFrame"
    PROVE  Credits!InFirstFrame(n)
  <1>1. ASSUME NEW p \in Packet, atBar[p] = n, stageBar[p] \in {"onlySend", "other", "same"}
        PROVE  FALSE
    <2>1. Seen(p)
      BY DEF Staged
    <2>2. CASE Aboard(p)
      <3>1. PICK m \in Node : Holds(wire[m], p) \/ Holds(net_in[m], p)
        BY <2>2 DEF Aboard
      <3>2. ~Holds(net_in[m], p)
        BY <1>1, <2>1 DEF Seen
      <3>3. m = n /\ OpenIn(n, p)
        BY <1>1, <2>1, <3>1, <3>2 DEF Seen
      <3> QED BY <3>3, OpenState
    <2>3. CASE ~Aboard(p)
      <3>1. p.node = n /\ TakingHome(p)
        BY <1>1, <2>1, <2>3 DEF Seen
      <3> QED BY <3>1 DEF TakingHome
    <2> QED BY <2>2, <2>3
  <1> QED BY <1>1 DEF Credits!InFirstFrame, Credits!Busy

\* readProp sends nothing: what it reads goes to vertexTrans.
LEMMA ReadSends ==
    ASSUME TravelInv, Staged, Staged', NEW n \in Node, ReadProp(n), NEW h \in Packet
    PROVE  Sent(h)' <=> Sent(h)
  <1>1. /\ Typed /\ Bounded(n) /\ Reading(n) /\ vertexTrans \in [Node -> Seq(PacketFrame)]
    BY TravelTypes DEF IInv, Fifos
  <1> PICK o \in Node : o = h.node
    BY PacketHeaders
  <1> PICK a : a = h.addr /\ a \in PacketsFrom(o)
    BY PacketHeaders
  <1>2. (Sent(h) <=> a \in SentOf(o)) /\ (Sent(h)' <=> a \in SentOf(o)')
    <2>1. Told(h) /\ Told(h)'
      BY DEF Staged
    <2> QED BY <2>1 DEF Told
  <1> PICK f : f = NextFrame(n)
    OBVIOUS
  <1>3. /\ f \in PacketFrame /\ f.node = n
        /\ vertexTrans' = [vertexTrans EXCEPT ![n] = Append(vertexTrans[n], f)]
    BY <1>1, ReadFrame
  <1>4. Unread' \subseteq Unread /\ (f.head => f.addr \in Unread /\ f.addr \notin Unread')
    BY <1>1, <1>3, ReadUnread
  <1>5. f.head => f.addr \in PacketsFrom(n)
    BY <1>1, <1>3, ReadBefore
  <1>6. HeadersOf(vertexTrans'[o], o)
            = HeadersOf(vertexTrans[o], o) \cup (IF o = n THEN Begun(f, o) ELSE {})
    <2>1. CASE o = n
      BY <1>1, <1>3, <2>1, HeadersAppend
    <2>2. CASE o # n
      BY <1>1, <1>3, <2>2
    <2> QED BY <2>1, <2>2
  <1>7. ASSUME a \in SentOf(o)
        PROVE  a \in SentOf(o)'
    <2>1. a \notin Unread /\ a \notin HeadersOf(vertexTrans[o], o) /\ a \notin Unread'
      BY <1>4, <1>7 DEF SentOf, ReadOf
    <2>2. a \notin Begun(f, o)
      BY <1>4, <2>1 DEF Begun, HeaderOf
    <2>3. a \notin HeadersOf(vertexTrans'[o], o)
      BY <1>6, <2>1, <2>2
    <2>4. SentOf(o)' = (PacketsFrom(o) \ Unread') \ HeadersOf(vertexTrans'[o], o)
      BY DEF SentOf, ReadOf, PacketsFrom, Starts, HeadersOf
    <2> QED BY <2>1, <2>3, <2>4
  <1>8. ASSUME a \in SentOf(o)'
        PROVE  a \in SentOf(o)
    <2>1. SentOf(o)' = (PacketsFrom(o) \ Unread') \ HeadersOf(vertexTrans'[o], o)
      BY DEF SentOf, ReadOf, PacketsFrom, Starts, HeadersOf
    <2>2. a \notin Unread' /\ a \notin HeadersOf(vertexTrans'[o], o)
      BY <1>8, <2>1
    <2>3. a \notin HeadersOf(vertexTrans[o], o)
      BY <1>6, <2>2
    <2>4. ASSUME a \in Unread
          PROVE  FALSE
      <3>1. f.head /\ f.addr = a
        BY <1>1, <2>2, <2>4, ReadKeepsUnread
      <3>2. o = n
        BY <1>5, <3>1, OneSender
      <3>3. a \in Begun(f, o)
        BY <1>3, <3>1, <3>2 DEF Begun, HeaderOf
      <3> QED BY <1>6, <2>2, <3>2, <3>3
    <2> QED BY <2>3, <2>4 DEF SentOf, ReadOf
  <1> QED BY <1>2, <1>7, <1>8

LEMMA QuietSteps ==
    ASSUME TravelInv, Staged, Staged', NEW n \in Node,
           ReadProp(n) \/ WriteProp(n) \/ UNCHANGED vars
    PROVE  UNCHANGED Credits!vars
  <1>1. UNCHANGED <<wire, net_in, lost, currentState, write_read_num>>
    BY DEF ReadProp, WriteProp, WritePropFirst, WritePropRemain, WritePropRuns, transVars,
           netVars, vars
  <1>2. ASSUME NEW m \in Node
        PROVE  TakePos(m)' = TakePos(m)
    <2>1. ASSUME UNCHANGED <<vertexUpdate, wrProp>>
          PROVE  TakePos(m)' = TakePos(m)
      BY <2>1 DEF TakePos, WritePos
    <2>2. ReadProp(n) \/ UNCHANGED vars => UNCHANGED <<vertexUpdate, wrProp>>
      BY DEF ReadProp, writeVars, vars
    <2> QED BY <2>1, <2>2, WriteKeepsTake
  <1>3. ASSUME NEW h \in Packet
        PROVE  Sent(h)' <=> Sent(h)
    <2>1. ASSUME UNCHANGED <<rdProp, vertexTrans>>
          PROVE  Sent(h)' <=> Sent(h)
      BY <2>1 DEF Sent, Produced
    <2>2. WriteProp(n) \/ UNCHANGED vars => UNCHANGED <<rdProp, vertexTrans>>
      BY DEF WriteProp, WritePropFirst, WritePropRemain, WritePropRuns, readVars, vars
    <2> QED BY <2>1, <2>2, ReadSends
  <1>4. ASSUME NEW h \in Packet
        PROVE  Untouched(h)
    <2>1. TakingHome(h)' <=> TakingHome(h)
      BY <1>1, <1>2, PacketHeaders, TakingStays
    <2> QED BY <1>1, <1>3, <2>1 DEF Untouched, OpenIn
  <1> QED BY <1>1, <1>4, NoPacketMoves

\* Sending and forwarding the frames behind a header.
LEMMA SendsOn ==
    ASSUME TravelInv, Staged, Staged', NEW n \in Node, NEW f \in PacketFrame, ~f.head,
           wire' = Push(wire, n, f),
           currentState[n] \in {"onlySend", "remainFrame_other"},
           currentState' = [currentState EXCEPT ![n] = IF f.last THEN "firstFrame" ELSE @],
           \A m \in Node \ {n} : TakePos(m)' = TakePos(m),
           \A h \in Packet : /\ Sent(h)' <=> Sent(h)
                             /\ \A m \in Node : Holds(net_in[m], h)' <=> Holds(net_in[m], h),
           UNCHANGED <<lost, write_read_num>>
    PROVE  [Credits!Next]_(Credits!vars)
  <1>1. /\ wire \in [Node -> Seq(PacketFrame)]
        /\ currentState \in [Node -> {"firstFrame", "remainFrame_same",
                                      "remainFrame_other", "onlySend"}]
    BY TravelTypes DEF Typed
  <1>2. ASSUME NEW h \in Packet
        PROVE  TakingHome(h)' <=> TakingHome(h)
    <2>1. CASE h.node = n
      BY <1>1, <2>1 DEF TakingHome
    <2>2. CASE h.node # n
      BY <1>1, <2>2, PacketHeaders, TakingStays
    <2> QED BY <2>1, <2>2
  <1>3. ASSUME NEW h \in Packet, NEW m \in Node
        PROVE  /\ Holds(wire[m], h)' <=> Holds(wire[m], h)
               /\ OpenIn(m, h)' <=> OpenIn(m, h) /\ (m = n => ~f.last)
    <2>1. f # h
      BY PacketHeaders DEF Header
    <2>2. /\ Holds(Push(wire, n, f)[m], h) <=> Holds(wire[m], h)
          /\ Unfinished(Push(wire, n, f)[m], h) <=> Unfinished(wire[m], h) /\ (m = n => ~f.last)
      <3>1. /\ Holds(Push(wire, n, f)[m], h) <=> Holds(wire[m], h) \/ (m = n /\ f = h)
            /\ Unfinished(Push(wire, n, f)[m], h) <=>
                   IF m = n THEN ~f.last /\ (Unfinished(wire[m], h) \/ f = h)
                   ELSE Unfinished(wire[m], h)
        BY <1>1, PushedFrames
      <3> QED BY ONLY <2>1, <3>1
    <2>3. Holds(wire[m], h)' = Holds(wire'[m], h) /\ OpenIn(m, h)' = Unfinished(wire'[m], h)
      BY DEF Holds, OpenIn, Unfinished
    <2> QED BY <2>2, <2>3 DEF OpenIn
  <1>4. ASSUME NEW h \in Packet, ~f.last \/ ~OpenIn(n, h)
        PROVE  Untouched(h)
    <2>1. \A m \in Node : OpenIn(m, h)' <=> OpenIn(m, h)
      BY <1>3, <1>4
    <2> QED BY <1>2, <1>3, <2>1 DEF Untouched
  <1>5. CASE ~f.last
    BY <1>4, <1>5, NoPacketMoves
  <1>6. CASE f.last
    <2>1. PICK p \in Packet : OpenIn(n, p) /\ Holds(wire[n], p)
      BY OpenState
    <2>2. \A h \in Packet \ {p} : Untouched(h)
      BY <1>4, <2>1, OneOpen
    <2>3. atBar[p] = n /\ stageBar[p] \in {"onlySend", "other"}
      <3>1. Seen(p)
        BY DEF Staged
      <3> QED BY <2>1, <3>1 DEF Seen
    <2>4. atBar'[p] = n /\ stageBar'[p] = "wire"
      <3>1. Seen(p)'
        BY DEF Staged
      <3>2. Holds(wire[n], p)' /\ ~OpenIn(n, p)'
        BY <1>3, <1>6, <2>1
      <3> QED BY <3>1, <3>2 DEF Seen
    <2>5. Credits!Move(p, "wire", atBar[p])
      BY <2>2, <2>3, <2>4, PacketMoves
    <2>6. Credits!EndPacket(p)
      BY <2>3, <2>5 DEF Credits!EndPacket
    <2> QED BY <2>6 DEF Credits!Next
  <1> QED BY <1>5, <1>6

\* Frames that only pass through vertexTrans or net_in.
LEMMA SentMoves ==
    ASSUME NEW h \in Packet, UNCHANGED rdProp,
           Holds(vertexTrans[h.node], h)' <=> Holds(vertexTrans[h.node], h)
    PROVE  Sent(h)' <=> Sent(h)
  <1>1. Produced(h)' <=> Produced(h)
    BY DEF Produced
  <1> QED BY <1>1 DEF Sent

LEMMA FrameTaken ==
    ASSUME NEW q \in [Node -> Seq(PacketFrame)], NEW n \in Node, q[n] # <<>>,
           NEW h, Head(q[n]) # h, NEW v, v = Pop(q, n)
    PROVE  \A m \in Node : Holds(v[m], h) <=> Holds(q[m], h)
  BY PoppedFrames

LEMMA FrameSent ==
    ASSUME NEW q \in [Node -> Seq(PacketFrame)], NEW n \in Node, NEW f \in PacketFrame,
           ~f.last, NEW h, f # h, NEW v, v = Push(q, n, f)
    PROVE  \A m \in Node : /\ Holds(v[m], h) <=> Holds(q[m], h)
                           /\ Unfinished(v[m], h) <=> Unfinished(q[m], h)
  <1> SUFFICES ASSUME NEW m \in Node
               PROVE  /\ Holds(v[m], h) <=> Holds(q[m], h)
                      /\ Unfinished(v[m], h) <=> Unfinished(q[m], h)
    OBVIOUS
  <1>1. /\ Holds(v[m], h) <=> Holds(q[m], h) \/ (m = n /\ f = h)
        /\ Unfinished(v[m], h) <=>
               IF m = n THEN ~f.last /\ (Unfinished(q[m], h) \/ f = h)
               ELSE Unfinished(q[m], h)
    BY PushedFrames, ZenonT(40)
  <1> QED BY ONLY <1>1, ~f.last, f # h

LEMMA FrameBegun ==
    ASSUME NEW q \in [Node -> Seq(PacketFrame)], NEW n \in Node, NEW f \in PacketFrame,
           ~f.last
    PROVE  Holds(Push(q, n, f)[n], f) /\ Unfinished(Push(q, n, f)[n], f)
  <1>1. Holds(Push(q, n, f)[n], f)
    BY PushedFrames
  <1>2. PICK m \in Node : m = n
    OBVIOUS
  <1>3. Unfinished(Push(q, n, f)[m], f) <=>
            IF m = n THEN ~f.last /\ (Unfinished(q[m], f) \/ f = f)
            ELSE Unfinished(q[m], f)
    BY PushedFrames
  <1> QED BY <1>1, <1>2, <1>3

LEMMA OnlySendRefines ==
    ASSUME TravelInv, Staged, Staged', NEW n \in Node, OnlySend(n)
    PROVE  [Credits!Next]_(Credits!vars)
  <1> PICK f : f = Head(vertexTrans[n])
    OBVIOUS
  <1>1. /\ vertexTrans \in [Node -> Seq(PacketFrame)]
        /\ currentState \in [Node -> {"firstFrame", "remainFrame_same",
                                      "remainFrame_other", "onlySend"}]
    BY TravelTypes DEF Typed
  <1>2. /\ currentState[n] = "onlySend" /\ vertexTrans[n] # <<>>
        /\ vertexTrans' = Pop(vertexTrans, n) /\ wire' = Push(wire, n, f)
        /\ currentState' = [currentState EXCEPT ![n] = IF f.last THEN "firstFrame" ELSE @]
        /\ UNCHANGED <<rdProp, lost, write_read_num, net_in, vertexUpdate, wrProp>>
    BY <1>1 DEF OnlySend, Send, Goto, readVars, writeVars
  <1>3. f \in PacketFrame /\ ~f.head
    BY <1>2, SendsFrame
  <1>4. \A m \in Node : TakePos(m)' = TakePos(m)
    BY <1>2 DEF TakePos, WritePos
  <1>5. ASSUME NEW h \in Packet
        PROVE  Sent(h)' <=> Sent(h)
    <2>1. f # h /\ h.node \in Node
      BY <1>3, PacketHeaders DEF Header
    <2>2. Holds(vertexTrans'[h.node], h) <=> Holds(vertexTrans[h.node], h)
      BY <1>1, <1>2, <2>1, FrameTaken
    <2>3. Holds(vertexTrans[h.node], h)' = Holds(vertexTrans'[h.node], h)
      BY DEF Holds
    <2> QED BY <1>2, <2>2, <2>3, SentMoves
  <1>6. \A h \in Packet : \A m \in Node : Holds(net_in[m], h)' <=> Holds(net_in[m], h)
    BY <1>2
  <1> QED BY <1>2, <1>3, <1>4, <1>5, <1>6, SendsOn

LEMMA RemainOtherRefines ==
    ASSUME TravelInv, Staged, Staged', NEW n \in Node, RemainFrameOther(n)
    PROVE  [Credits!Next]_(Credits!vars)
  <1> PICK f : f = Head(net_in[n])
    OBVIOUS
  <1>1. /\ net_in \in [Node -> Seq(PacketFrame)]
        /\ currentState \in [Node -> {"firstFrame", "remainFrame_same",
                                      "remainFrame_other", "onlySend"}]
    BY TravelTypes DEF Typed
  <1>2. /\ currentState[n] = "remainFrame_other" /\ wire' = Push(wire, n, f) /\ Take(n)
        /\ currentState' = [currentState EXCEPT ![n] = IF f.last THEN "firstFrame" ELSE @]
        /\ UNCHANGED <<rdProp, vertexTrans, lost, write_read_num, wrProp>>
    BY <1>1 DEF RemainFrameOther, Send, Goto, readVars, writeVars
  <1>3. /\ f \in PacketFrame /\ ~f.head /\ net_in[n] # <<>> /\ net_in' = Pop(net_in, n)
        /\ \A m \in Node \ {n} : TakePos(m)' = TakePos(m)
    BY <1>2, TakesFrame
  <1>4. ASSUME NEW h \in Packet
        PROVE  /\ Sent(h)' <=> Sent(h)
               /\ \A m \in Node : Holds(net_in[m], h)' <=> Holds(net_in[m], h)
    <2>1. f # h
      BY <1>3, PacketHeaders DEF Header
    <2>2. \A m \in Node : Holds(net_in'[m], h) <=> Holds(net_in[m], h)
      BY <1>1, <1>3, <2>1, FrameTaken
    <2>3. \A m \in Node : Holds(net_in[m], h)' = Holds(net_in'[m], h)
      BY DEF Holds
    <2>4. Sent(h)' <=> Sent(h)
      BY <1>2 DEF Sent, Produced
    <2> QED BY <2>2, <2>3, <2>4
  <1> QED BY <1>2, <1>3, <1>4, SendsOn

LEMMA RemainSameRefines ==
    ASSUME TravelInv, Staged, Staged', NEW n \in Node, RemainFrameSame(n)
    PROVE  [Credits!Next]_(Credits!vars)
  <1> PICK f : f = Head(net_in[n])
    OBVIOUS
  <1>1. /\ net_in \in [Node -> Seq(PacketFrame)]
        /\ currentState \in [Node -> {"firstFrame", "remainFrame_same",
                                      "remainFrame_other", "onlySend"}]
    BY TravelTypes DEF Typed
  <1>2. /\ currentState[n] = "remainFrame_same" /\ Take(n)
        /\ currentState' = [currentState EXCEPT ![n] = IF f.last THEN "firstFrame" ELSE @]
        /\ UNCHANGED <<rdProp, vertexTrans, wire, lost, write_read_num, wrProp>>
    BY <1>1 DEF RemainFrameSame, Goto, readVars, writeVars
  <1>3. /\ f \in PacketFrame /\ f \in SenderFrame /\ ~f.head
        /\ net_in[n] # <<>> /\ net_in' = Pop(net_in, n)
        /\ At(f) = TakePos(n) /\ TakePos(n)' = After(f)
        /\ \A m \in Node \ {n} : TakePos(m)' = TakePos(m)
    BY <1>2, TakesFrame
  <1>4. TakePos(n) = f.addr /\ TakePos(n) # Boundary /\ f.addr \in Block
    BY <1>3, FramePositions
  <1>5. ASSUME NEW h \in Packet, h.node = n => (TakingHome(h)' <=> TakingHome(h))
        PROVE  Untouched(h)
    <2>1. f # h
      BY <1>3, PacketHeaders DEF Header
    <2>2. \A m \in Node : Holds(net_in'[m], h) <=> Holds(net_in[m], h)
      BY <1>1, <1>3, <2>1, FrameTaken
    <2>3. \A m \in Node : Holds(net_in[m], h)' = Holds(net_in'[m], h)
      BY DEF Holds
    <2>4. Sent(h)' <=> Sent(h)
      BY <1>2 DEF Sent, Produced
    <2>5. TakingHome(h)' <=> TakingHome(h)
      <3>1. CASE h.node # n
        <4>1. currentState'[h.node] = currentState[h.node] /\ TakePos(h.node)' = TakePos(h.node)
          BY <1>1, <1>2, <1>3, <3>1, PacketHeaders
        <4> QED BY <4>1, TakingStays
      <3> QED BY <1>5, <3>1
    <2> QED BY <1>2, <2>2, <2>3, <2>4, <2>5 DEF Untouched, OpenIn
  <1>6. CASE ~f.last
    <2>1. ASSUME NEW h \in Packet, h.node = n
          PROVE  TakingHome(h)' <=> TakingHome(h)
      <3>1. currentState'[n] = "remainFrame_same"
        BY <1>1, <1>2, <1>6
      <3>2. After(f) # Boundary /\ PacketStart(After(f)) = PacketStart(At(f))
        BY <1>3, <1>6, NextPosition
      <3>3. TakePos(n)' # Boundary /\ PacketStart(TakePos(n)') = PacketStart(TakePos(n))
        BY <1>3, <3>2
      <3>4. (TakingHome(h)' <=> PacketStart(TakePos(n)') = h.addr)
        BY <2>1, <3>1, <3>3 DEF TakingHome, TakenAt
      <3>5. (TakingHome(h) <=> PacketStart(TakePos(n)) = h.addr)
        BY <1>2, <1>4, <2>1 DEF TakingHome, TakenAt
      <3> QED BY <3>3, <3>4, <3>5
    <2> QED BY <1>2, <1>5, <2>1, NoPacketMoves
  <1>7. CASE f.last
    <2>1. PICK p \in Packet : p.node = n /\ PacketStart(f.addr) = p.addr
      <3>1. TakesOwn(n)
        BY DEF TravelInv
      <3>2. PICK k \in DOMAIN Schedule[n] : Schedule[n][k] = f.addr \div BlockNum
        BY <1>2, <1>4, <3>1 DEF TakesOwn, Computes
      <3>3. /\ PacketStart(f.addr) \in Starts /\ PacketStart(f.addr) \in Block
            /\ PacketStart(PacketStart(f.addr)) = PacketStart(f.addr)
        BY <1>4, Packets DEF Starts
      <3>4. PacketStart(f.addr) \div BlockNum = f.addr \div BlockNum
        BY <1>4, <3>3, SamePartition
      <3>5. PacketStart(f.addr) \in PacketsFrom(n)
        BY <3>2, <3>3, <3>4 DEF PacketsFrom
      <3> QED BY <3>5, PacketHeaders DEF Header
    <2>2. ASSUME NEW h \in Packet, h.node = n
          PROVE  (TakingHome(h) <=> h = p) /\ ~TakingHome(h)'
      <3>1. ~TakingHome(h)'
        BY <1>1, <1>2, <1>7, <2>2 DEF TakingHome
      <3>2. TakingHome(h) <=> h.addr = p.addr
        BY <1>2, <1>4, <2>1, <2>2 DEF TakingHome, TakenAt
      <3> QED BY <3>1, <3>2, SameAddress
    <2>3. \A h \in Packet \ {p} : Untouched(h)
      BY <1>5, <2>2
    <2>4. ~Aboard(p) /\ p \notin lost /\ Sent(p) /\ Seen(p) /\ Seen(p)' /\ TakingHome(p)
      BY <2>1, <2>2 DEF Staged, Told
    <2>5. stageBar[p] = "same" /\ atBar[p] = n
      BY <2>1, <2>4 DEF Seen
    <2>6. ~Aboard(p)' /\ p \notin lost' /\ Sent(p)' /\ ~TakingHome(p)'
      <3>1. f # p
        BY <1>3, PacketHeaders DEF Header
      <3>2. \A m \in Node : Holds(net_in'[m], p) <=> Holds(net_in[m], p)
        BY <1>1, <1>3, <3>1, FrameTaken
      <3>3. ~Aboard(p)'
        BY <1>2, <2>4, <3>2 DEF Aboard, Holds
      <3>4. Sent(p)'
        BY <1>2, <2>4 DEF Sent, Produced
      <3> QED BY <1>2, <2>1, <2>2, <2>4, <3>3, <3>4
    <2>7. stageBar'[p] = "home" /\ atBar'[p] = n
      BY <2>1, <2>4, <2>6 DEF Seen
    <2>8. Credits!Move(p, "home", atBar[p])
      BY <2>3, <2>5, <2>7, PacketMoves
    <2>9. Credits!EndPacket(p)
      BY <1>2, <2>5, <2>8 DEF Credits!EndPacket
    <2> QED BY <2>9 DEF Credits!Next
  <1> QED BY <1>6, <1>7

LEMMA FirstOwnRefines ==
    ASSUME TravelInv, Staged, Staged', NEW n \in Node, FirstFrameOwn(n)
    PROVE  Credits!Next
  <1> PICK f : f = Head(vertexTrans[n])
    OBVIOUS
  <1>1. /\ vertexTrans \in [Node -> Seq(PacketFrame)] /\ wire \in [Node -> Seq(PacketFrame)]
        /\ currentState \in [Node -> {"firstFrame", "remainFrame_same",
                                      "remainFrame_other", "onlySend"}]
    BY TravelTypes DEF Typed
  <1>2. /\ currentState[n] = "firstFrame" /\ vertexTrans[n] # <<>>
        /\ vertexTrans' = Pop(vertexTrans, n) /\ wire' = Push(wire, n, f)
        /\ write_read_num[n] < FIFO_len
        /\ write_read_num' = [write_read_num EXCEPT ![n] = @ + 1]
        /\ currentState' = [currentState EXCEPT ![n] = "onlySend"]
        /\ UNCHANGED <<rdProp, lost, net_in, vertexUpdate, wrProp>>
    BY DEF FirstFrameOwn, Send, Goto, readVars, writeVars
  <1>3. f \in PacketFrame /\ f \in SenderFrame /\ f.head /\ f.node = n /\ Holds(vertexTrans[n], f)
    BY <1>2, SendsFrame
  <1>4. f \in Packet /\ ~f.last
    BY <1>3, HeaderPacket, FramePositions
  <1>5. ASSUME NEW h \in Packet \ {f}
        PROVE  Untouched(h)
    <2>1. Holds(vertexTrans'[h.node], h) <=> Holds(vertexTrans[h.node], h)
      BY <1>1, <1>2, PacketHeaders, FrameTaken
    <2>2. Holds(vertexTrans[h.node], h)' = Holds(vertexTrans'[h.node], h)
      BY DEF Holds
    <2>3. Sent(h)' <=> Sent(h)
      BY <1>2, <2>1, <2>2, SentMoves
    <2>4. \A m \in Node : /\ Holds(wire'[m], h) <=> Holds(wire[m], h)
                          /\ Unfinished(wire'[m], h) <=> Unfinished(wire[m], h)
      BY <1>1, <1>2, <1>3, <1>4, FrameSent
    <2>5. \A m \in Node : /\ Holds(wire[m], h)' = Holds(wire'[m], h)
                          /\ OpenIn(m, h)' = Unfinished(wire'[m], h)
      BY DEF Holds, OpenIn, Unfinished
    <2>6. TakingHome(h)' <=> TakingHome(h)
      <3>1. CASE h.node = n
        BY <1>1, <1>2, <3>1 DEF TakingHome
      <3>2. CASE h.node # n
        <4>1. currentState'[h.node] = currentState[h.node] /\ TakePos(h.node)' = TakePos(h.node)
          BY <1>1, <1>2, <3>2, PacketHeaders DEF TakePos, WritePos
        <4> QED BY <4>1, TakingStays
      <3> QED BY <3>1, <3>2
    <2> QED BY <1>2, <2>3, <2>4, <2>5, <2>6 DEF Untouched, OpenIn
  <1>6. stageBar[f] = "vertexTrans" /\ atBar[f] = n
    <2>1. Seen(f) /\ Told(f)
      BY <1>4 DEF Staged
    <2>2. ~Sent(f)
      BY <1>3 DEF Sent
    <2> QED BY <1>3, <2>1, <2>2 DEF Seen, Told
  <1>7. stageBar'[f] = "onlySend" /\ atBar'[f] = n
    <2>1. Seen(f)'
      BY <1>4 DEF Staged
    <2>2. Holds(Push(wire, n, f)[n], f) /\ Unfinished(Push(wire, n, f)[n], f)
      BY <1>1, <1>3, <1>4, FrameBegun
    <2>3. Holds(wire'[n], f) /\ Unfinished(wire'[n], f)
      BY <1>2, <2>2
    <2>4. Holds(wire[n], f)' /\ OpenIn(n, f)'
      BY <2>3 DEF Holds, OpenIn, Unfinished
    <2> QED BY <1>3, <2>1, <2>4 DEF Seen
  <1>8. Credits!Move(f, "onlySend", n)
    BY <1>4, <1>5, <1>7, PacketMoves
  <1>9. Credits!BeginSend(f)
    <2>1. [h \in Packet |-> h.node][f] = n
      BY <1>3, <1>4
    <2>2. Credits!InFirstFrame(n)
      BY <1>2, NotBusy
    <2> QED BY <1>2, <1>6, <1>8, <2>1, <2>2 DEF Credits!BeginSend
  <1> QED BY <1>4, <1>9 DEF Credits!Next

LEMMA FirstOtherRefines ==
    ASSUME TravelInv, Staged, Staged', NEW n \in Node, FirstFrameOther(n)
    PROVE  Credits!Next
  <1> PICK f : f = Head(net_in[n])
    OBVIOUS
  <1>1. /\ net_in \in [Node -> Seq(PacketFrame)] /\ wire \in [Node -> Seq(PacketFrame)]
        /\ currentState \in [Node -> {"firstFrame", "remainFrame_same",
                                      "remainFrame_other", "onlySend"}]
    BY TravelTypes DEF Typed
  <1>2. /\ currentState[n] = "firstFrame" /\ Take(n) /\ wire' = Push(wire, n, f)
        /\ currentState' = [currentState EXCEPT ![n] = "remainFrame_other"]
        /\ UNCHANGED <<rdProp, vertexTrans, write_read_num, lost, wrProp>>
    BY DEF FirstFrameOther, Send, Goto, readVars, writeVars
  <1>3. /\ f \in PacketFrame /\ f \in SenderFrame /\ f.head /\ net_in[n] # <<>>
        /\ net_in' = Pop(net_in, n) /\ \A m \in Node \ {n} : TakePos(m)' = TakePos(m)
    BY <1>2, TakesFrame
  <1>4. f \in Packet /\ ~f.last /\ f.node # n
    BY <1>3, HeaderPacket, FramePositions, KnowsOwn
  <1>5. ASSUME NEW h \in Packet \ {f}
        PROVE  Untouched(h)
    <2>1. \A m \in Node : Holds(net_in'[m], h) <=> Holds(net_in[m], h)
      BY <1>1, <1>3, FrameTaken
    <2>2. \A m \in Node : Holds(net_in[m], h)' = Holds(net_in'[m], h)
      BY DEF Holds
    <2>3. Sent(h)' <=> Sent(h)
      BY <1>2 DEF Sent, Produced
    <2>4. \A m \in Node : /\ Holds(wire'[m], h) <=> Holds(wire[m], h)
                          /\ Unfinished(wire'[m], h) <=> Unfinished(wire[m], h)
      BY <1>1, <1>2, <1>3, <1>4, FrameSent
    <2>5. \A m \in Node : /\ Holds(wire[m], h)' = Holds(wire'[m], h)
                          /\ OpenIn(m, h)' = Unfinished(wire'[m], h)
      BY DEF Holds, OpenIn, Unfinished
    <2>6. TakingHome(h)' <=> TakingHome(h)
      <3>1. CASE h.node = n
        BY <1>1, <1>2, <3>1 DEF TakingHome
      <3>2. CASE h.node # n
        <4>1. currentState'[h.node] = currentState[h.node] /\ TakePos(h.node)' = TakePos(h.node)
          BY <1>1, <1>2, <1>3, <3>2, PacketHeaders
        <4> QED BY <4>1, TakingStays
      <3> QED BY <3>1, <3>2
    <2> QED BY <1>2, <2>1, <2>2, <2>3, <2>4, <2>5, <2>6 DEF Untouched, OpenIn
  <1>6. stageBar[f] = "net_in" /\ atBar[f] = n
    <2>1. Seen(f)
      BY <1>4 DEF Staged
    <2>2. Holds(net_in[n], f)
      <3>1. 1 \in DOMAIN net_in[n] /\ net_in[n][1] = f
        BY <1>1, <1>3, PopIsCut
      <3> QED BY <3>1 DEF Holds
    <2> QED BY <2>1, <2>2 DEF Seen
  <1>7. stageBar'[f] = "other" /\ atBar'[f] = n
    <2>1. Seen(f)'
      BY <1>4 DEF Staged
    <2>2. Holds(Push(wire, n, f)[n], f) /\ Unfinished(Push(wire, n, f)[n], f)
      BY <1>1, <1>3, <1>4, FrameBegun
    <2>3. Holds(wire'[n], f) /\ Unfinished(wire'[n], f)
      BY <1>2, <2>2
    <2>4. Holds(wire[n], f)' /\ OpenIn(n, f)'
      BY <2>3 DEF Holds, OpenIn, Unfinished
    <2> QED BY <1>4, <2>1, <2>4 DEF Seen
  <1>8. Credits!Move(f, "other", atBar[f])
    BY <1>4, <1>5, <1>6, <1>7, PacketMoves
  <1>9. Credits!BeginForward(f)
    <2>1. [h \in Packet |-> h.node][f] # n
      BY <1>4
    <2>2. Credits!InFirstFrame(atBar[f])
      BY <1>2, <1>6, NotBusy
    <2> QED BY <1>2, <1>6, <1>8, <2>1, <2>2 DEF Credits!BeginForward
  <1> QED BY <1>4, <1>9 DEF Credits!Next

LEMMA FirstSameRefines ==
    ASSUME TravelInv, Staged, Staged', NEW n \in Node, FirstFrameSame(n)
    PROVE  Credits!Next
  <1> PICK f : f = Head(net_in[n])
    OBVIOUS
  <1>1. /\ net_in \in [Node -> Seq(PacketFrame)]
        /\ currentState \in [Node -> {"firstFrame", "remainFrame_same",
                                      "remainFrame_other", "onlySend"}]
    BY TravelTypes DEF Typed
  <1>2. /\ currentState[n] = "firstFrame" /\ Take(n)
        /\ write_read_num' = [write_read_num EXCEPT ![n] = @ - 1]
        /\ currentState' = [currentState EXCEPT ![n] = "remainFrame_same"]
        /\ UNCHANGED <<rdProp, vertexTrans, wire, lost, wrProp>>
    BY DEF FirstFrameSame, Goto, readVars, writeVars
  <1>3. /\ f \in PacketFrame /\ f \in SenderFrame /\ f.head /\ net_in[n] # <<>>
        /\ net_in' = Pop(net_in, n) /\ \A m \in Node \ {n} : TakePos(m)' = TakePos(m)
        /\ TakePos(n)' = After(f)
    BY <1>2, TakesFrame
  <1>4. f \in Packet /\ ~f.last /\ f.node = n
    BY <1>3, HeaderPacket, FramePositions, KnowsOwn
  <1>5. TakePos(n)' # Boundary /\ PacketStart(TakePos(n)') = f.addr
    BY <1>3, <1>4, NextPosition
  <1>6. ASSUME NEW h \in Packet, h.node = n
        PROVE  TakingHome(h)' <=> h = f
    <2>1. TakingHome(h)' <=> h.addr = f.addr
      BY <1>1, <1>2, <1>5, <1>6 DEF TakingHome, TakenAt
    <2> QED BY <1>4, <2>1, SameAddress
  <1>7. ASSUME NEW h \in Packet \ {f}
        PROVE  Untouched(h)
    <2>1. \A m \in Node : Holds(net_in'[m], h) <=> Holds(net_in[m], h)
      BY <1>1, <1>3, FrameTaken
    <2>2. \A m \in Node : Holds(net_in[m], h)' = Holds(net_in'[m], h)
      BY DEF Holds
    <2>3. Sent(h)' <=> Sent(h)
      BY <1>2 DEF Sent, Produced
    <2>4. TakingHome(h)' <=> TakingHome(h)
      <3>1. CASE h.node = n
        <4>1. ~TakingHome(h)
          BY <1>2, <3>1 DEF TakingHome
        <4> QED BY <1>6, <3>1, <4>1
      <3>2. CASE h.node # n
        <4>1. currentState'[h.node] = currentState[h.node] /\ TakePos(h.node)' = TakePos(h.node)
          BY <1>1, <1>2, <1>3, <3>2, PacketHeaders
        <4> QED BY <4>1, TakingStays
      <3> QED BY <3>1, <3>2
    <2> QED BY <1>2, <2>1, <2>2, <2>3, <2>4 DEF Untouched, OpenIn
  <1>8. stageBar[f] = "net_in" /\ atBar[f] = n
    <2>1. Seen(f)
      BY <1>4 DEF Staged
    <2>2. Holds(net_in[n], f)
      <3>1. 1 \in DOMAIN net_in[n] /\ net_in[n][1] = f
        BY <1>1, <1>3, PopIsCut
      <3> QED BY <3>1 DEF Holds
    <2> QED BY <2>1, <2>2 DEF Seen
  <1>9. stageBar'[f] = "same" /\ atBar'[f] = n
    <2>1. Seen(f)' /\ Told(f)'
      BY <1>4 DEF Staged
    <2>2. TakingHome(f)'
      BY <1>4, <1>6
    <2>3. ~Aboard(f)' /\ Sent(f)' /\ f \notin lost'
      BY <2>1, <2>2 DEF Told
    <2> QED BY <1>4, <2>1, <2>2, <2>3 DEF Seen
  <1>10. Credits!Move(f, "same", n)
    BY <1>4, <1>7, <1>9, PacketMoves
  <1>11. Credits!BeginHome(f)
    <2>1. [h \in Packet |-> h.node][f] = n
      BY <1>4
    <2>2. Credits!InFirstFrame(n)
      BY <1>2, NotBusy
    <2> QED BY <1>2, <1>8, <1>10, <2>1, <2>2 DEF Credits!BeginHome
  <1> QED BY <1>4, <1>11 DEF Credits!Next

\* A complete packet at the front of a link.
LEMMA FrontPacket ==
    ASSUME TravelInv, Staged, NEW u \in Node, wire[u] # <<>>, NEW f, f = wire[u][1], f.head,
           Complete(wire[u])
    PROVE  f \in Packet /\ Holds(wire[u], f) /\ stageBar[f] = "wire" /\ atBar[f] = u
  <1>1. wire[u] \in Seq(PacketFrame) /\ wire[u] \in Seq(SenderFrame)
    <2>1. wire \in [Node -> Seq(PacketFrame)] /\ wire \in [Node -> Seq(SenderFrame)]
      BY TravelTypes DEF Fifos
    <2> QED BY <2>1
  <1>2. 1 \in 1 .. Len(wire[u]) /\ DOMAIN wire[u] = 1 .. Len(wire[u]) /\ f \in SenderFrame
    BY <1>1
  <1>3. f \in Packet /\ Holds(wire[u], f)
    BY <1>2, HeaderPacket DEF Holds
  <1>4. ~OpenIn(u, f)
    <2>1. \A i \in 1 .. Len(wire[u]) : wire[u][i] = f => i = 1
      BY <1>2, <1>3, OneSpot
    <2> QED BY <1>2, <2>1 DEF OpenIn, Unfinished, Complete
  <1>5. Seen(f)
    BY <1>3 DEF Staged
  <1> QED BY <1>3, <1>4, <1>5 DEF Seen

LEMMA ArriveRefines ==
    ASSUME TravelInv, Staged, Staged', NEW n \in Node, Arrive(n)
    PROVE  [Credits!Next]_(Credits!vars)
  <1> PICK u \in Node : u = upper_worker_idx(n) /\ lower_worker_idx(u) = n
    BY Neighbours
  <1> PICK f : f = Head(wire[u])
    OBVIOUS
  <1>1. net_in \in [Node -> Seq(PacketFrame)] /\ wire \in [Node -> Seq(PacketFrame)]
        /\ wire \in [Node -> Seq(SenderFrame)]
    BY TravelTypes DEF Fifos
  <1>2. /\ wire[u] # <<>> /\ (f.head => Complete(wire[u]))
        /\ net_in' = Push(net_in, n, f) /\ wire' = Pop(wire, u)
        /\ UNCHANGED <<rdProp, vertexTrans, currentState, write_read_num, lost, vertexUpdate, wrProp>>
    BY DEF Arrive, readVars, transVars, writeVars
  <1>3. f \in PacketFrame /\ f \in SenderFrame /\ f = wire[u][1]
    <2>1. wire[u] \in Seq(SenderFrame)
      BY <1>1
    <2> QED BY <1>1, <1>2, <2>1, PopIsCut
  <1>4. ASSUME NEW h \in Packet, h # f
        PROVE  Untouched(h)
    <2>1. \A m \in Node : /\ Holds(wire'[m], h) <=> Holds(wire[m], h)
                          /\ Unfinished(wire'[m], h) <=> Unfinished(wire[m], h)
      BY <1>1, <1>2, <1>4, PoppedFrames
    <2>2. ASSUME NEW m \in Node
          PROVE  Holds(net_in'[m], h) <=> Holds(net_in[m], h)
      <3>1. Holds(Push(net_in, n, f)[m], h) <=> Holds(net_in[m], h) \/ (m = n /\ f = h)
        BY <1>1, <1>3, PushedFrames
      <3> QED BY <1>2, <1>4, <3>1
    <2>3. \A m \in Node : /\ Holds(wire[m], h)' = Holds(wire'[m], h)
                          /\ Holds(net_in[m], h)' = Holds(net_in'[m], h)
                          /\ OpenIn(m, h)' = Unfinished(wire'[m], h)
      BY DEF Holds, OpenIn, Unfinished
    <2>4. Sent(h)' <=> Sent(h)
      BY <1>2 DEF Sent, Produced
    <2>5. TakingHome(h)' <=> TakingHome(h)
      <3>1. TakePos(h.node)' = TakePos(h.node)
        BY <1>2 DEF TakePos, WritePos
      <3> QED BY <1>2, <3>1, TakingStays
    <2> QED BY <1>2, <2>1, <2>2, <2>3, <2>4, <2>5 DEF Untouched, OpenIn
  <1>5. CASE ~f.head
    <2>1. \A h \in Packet : h # f
      BY <1>5, PacketHeaders DEF Header
    <2> QED BY <1>2, <1>4, <2>1, NoPacketMoves
  <1>6. CASE f.head
    <2>1. f \in Packet /\ stageBar[f] = "wire" /\ atBar[f] = u
      BY <1>2, <1>3, <1>6, FrontPacket
    <2>2. stageBar'[f] = "net_in" /\ atBar'[f] = n
      <3>1. Seen(f)'
        BY <2>1 DEF Staged
      <3>2. Holds(Push(net_in, n, f)[n], f) <=> Holds(net_in[n], f) \/ (n = n /\ f = f)
        BY <1>1, <1>3, PushedFrames
      <3>3. Holds(net_in[n], f)'
        BY <1>2, <3>2 DEF Holds
      <3> QED BY <3>1, <3>3 DEF Seen
    <2>3. Credits!Move(f, "net_in", n)
      BY <1>4, <2>1, <2>2, PacketMoves
    <2>4. Credits!lower_worker_idx(atBar[f]) = n
      BY <2>1 DEF Credits!lower_worker_idx, lower_worker_idx
    <2>5. Credits!Arrive(f)
      BY <1>2, <2>1, <2>3, <2>4 DEF Credits!Arrive
    <2> QED BY <2>1, <2>5 DEF Credits!Next
  <1> QED BY <1>5, <1>6

LEMMA PacketsFinite == IsFiniteSet(Packet)
  <1> PICK g \in [Packet -> Starts] : \A h \in Packet : g[h] = h.addr
    <2>1. \A h \in Packet : h.addr \in Starts
      BY PacketHeaders DEF PacketsFrom
    <2> DEFINE g == [h \in Packet |-> h.addr]
    <2>2. g \in [Packet -> Starts] /\ \A h \in Packet : g[h] = h.addr
      BY <2>1
    <2> QED BY <2>2
  <1>1. \A a, b \in Packet : g[a] = g[b] => a = b
    BY SameAddress
  <1>2. g \in Injection(Packet, Starts)
    BY <1>1 DEF Injection, IsInjective
  <1> QED BY <1>2, StartsCount, FS_Injection

\* The packet of its own that globalTrans is taking off the ring.
LEMMA OwnAhead ==
    ASSUME TravelInv, NEW n \in Node, currentState[n] = "remainFrame_same"
    PROVE  \E p \in Packet : p.node = n /\ TakingHome(p)
  <1>1. PICK gap \in [Node -> Position], out \in [Node -> Position] : Routed(n, gap, out)
    BY TravelTypes, Routes
  <1> PICK a : a = TakePos(n)
    OBVIOUS
  <1>2. a \in Block /\ a # Boundary
    BY <1>1 DEF Routed, Position
  <1>3. PICK k \in DOMAIN Schedule[n] : Schedule[n][k] = a \div BlockNum
    BY DEF TravelInv, TakesOwn, Computes
  <1>4. /\ PacketStart(a) \in Starts /\ PacketStart(a) \in Block
        /\ PacketStart(PacketStart(a)) = PacketStart(a)
    BY <1>2, Packets DEF Starts
  <1>5. PacketStart(a) \div BlockNum = a \div BlockNum
    BY <1>2, <1>4, SamePartition
  <1>6. PacketStart(a) \in PacketsFrom(n)
    BY <1>3, <1>4, <1>5 DEF PacketsFrom
  <1>7. PICK p \in Packet : p.node = n /\ p.addr = PacketStart(a)
    BY <1>6, PacketHeaders DEF Header
  <1> QED BY <1>2, <1>7 DEF TakingHome, TakenAt

\* The packet that globalTrans is inside of, as it reads from the network.
LEMMA BeingRead ==
    ASSUME TravelInv, Staged, NEW n \in Node, TakePos(n) # Boundary
    PROVE  \E p \in Packet : atBar[p] = n /\ stageBar[p] \in {"same", "other"}
  <1>1. PICK gap \in [Node -> Position], out \in [Node -> Position] : Routed(n, gap, out)
    BY TravelTypes, Routes
  <1>2. currentState[n] \in {"remainFrame_same", "remainFrame_other"} /\ TakesOwn(n)
    BY <1>1 DEF Routed, TravelInv
  <1>3. CASE currentState[n] = "remainFrame_same"
    <2>1. PICK p \in Packet : p.node = n /\ TakingHome(p)
      BY <1>3, OwnAhead
    <2>2. ~Aboard(p) /\ p \notin lost /\ Sent(p) /\ Seen(p)
      BY <2>1 DEF Staged, Told
    <2> QED BY <2>1, <2>2 DEF Seen
  <1>4. CASE currentState[n] = "remainFrame_other"
    <2>1. PICK p \in Packet : OpenIn(n, p) /\ Holds(wire[n], p)
      BY <1>4, OpenState
    <2>2. out[n] # Boundary /\ PacketStart(out[n]) = p.addr /\ out[n] = TakePos(n)
      BY <1>1, <1>4, <2>1, OpenAhead DEF Routed
    <2>3. p.node # n
      BY <1>2, <1>4, <2>2, OwnerOf DEF TakesOwn
    <2>4. Seen(p)
      BY DEF Staged
    <2> QED BY <2>1, <2>3, <2>4 DEF Seen
  <1> QED BY <1>2, <1>3, <1>4

LEMMA FullRoom ==
    ASSUME NEW y \in Nat, NEW k \in Nat, NEW p \in Nat, NEW r \in Nat, NEW len \in Nat,
           NEW depth \in Nat, len <= y * (p + 1) + r, r <= k * (p + 1), len + p + 1 > depth
    PROVE  depth \div (p + 1) <= y + k
  <1> PICK d \in Nat \ {0} : d = p + 1
    OBVIOUS
  <1>1. /\ depth \div d \in Nat /\ depth % d \in 0 .. d - 1
        /\ depth = (depth \div d) * d + (depth % d)
    BY Division
  <1> PICK z \in Nat : z = depth \div d
    BY <1>1
  <1>2. z * d <= depth
    BY <1>1
  <1>3. depth < (y + k + 1) * d
    <2>1. (y + k + 1) * d = y * d + k * d + d
      BY ONLY y \in Nat, k \in Nat, d \in Nat
    <2>2. y * d \in Nat /\ k * d \in Nat
      OBVIOUS
    <2>3. len <= y * d + r /\ r <= k * d /\ len + d > depth
      OBVIOUS
    <2> PICK a \in Nat : a = y * d
      BY <2>2
    <2> PICK b \in Nat : b = k * d
      BY <2>2
    <2>4. len <= a + r /\ r <= b
      BY <2>3
    <2>5. depth < a + b + d
      BY ONLY <2>3, <2>4, len \in Nat, r \in Nat, depth \in Nat, a \in Nat, b \in Nat, d \in Nat
    <2> QED BY <2>1, <2>5
  <1>4. z <= y + k
    <2> SUFFICES ASSUME z >= y + k + 1
                 PROVE  FALSE
      OBVIOUS
    <2> PICK s \in Nat : s = y + k + 1
      OBVIOUS
    <2> PICK e \in Nat : z = s + e
      <3>1. z - s \in Nat /\ z = s + (z - s)
        OBVIOUS
      <3> QED BY <3>1
    <2>1. z * d = s * d + e * d /\ e * d \in Nat /\ s * d \in Nat
      BY ONLY z = s + e, s \in Nat, e \in Nat, d \in Nat
    <2>2. s * d <= z * d
      BY <2>1
    <2> QED BY <1>2, <1>3, <2>1, <2>2
  <1> QED BY <1>4

(* A net_in FIFO without room for one more packet holds as many as CreditRing allows. *)
LEMMA ManyOccupants ==
    ASSUME TravelInv, Staged, NEW n \in Node, ~HasRoom(n)
    PROVE  Cardinality(Credits!Occupants(n)) >= NetDepth \div (Payload + 1)
  <1>1. PICK gap \in [Node -> Position], out \in [Node -> Position] : Routed(n, gap, out)
    BY TravelTypes, Routes
  <1> PICK q \in Seq(PacketFrame) : q = net_in[n] /\ q \in Seq(SenderFrame)
    <2>1. net_in \in [Node -> Seq(PacketFrame)] /\ net_in \in [Node -> Seq(SenderFrame)]
      BY TravelTypes DEF Fifos
    <2> QED BY <2>1
  <1> PICK O : O = Credits!Occupants(n)
    OBVIOUS
  <1>2. IsFiniteSet(O) /\ O \subseteq Packet
    <2>1. O \subseteq Packet
      BY DEF Credits!Occupants
    <2> QED BY <2>1, PacketsFinite, FS_Subset
  <1>3. \A h \in Packet : h \in O <=> atBar[h] = n /\ stageBar[h] \in {"net_in", "other", "same"}
    BY DEF Credits!Occupants
  <1> DEFINE W == {h \in Packet : Holds(q, h)}
  <1>4. \A h \in W : atBar[h] = n /\ stageBar[h] = "net_in"
    BY DEF Staged, Seen
  <1>5. W \subseteq O
    BY <1>3, <1>4
  <1> PICK g \in [Heads(q) -> W] : \A i \in Heads(q) : g[i] = q[i]
    <2>1. ASSUME NEW i \in Heads(q)
          PROVE  q[i] \in W
      <3>1. i \in DOMAIN q /\ q[i] \in SenderFrame /\ q[i].head
        BY DEF Heads
      <3>2. q[i] \in Packet
        BY <3>1, HeaderPacket
      <3> QED BY <3>1, <3>2 DEF Holds
    <2> DEFINE g == [i \in Heads(q) |-> q[i]]
    <2> HIDE DEF W
    <2>2. g \in [Heads(q) -> W] /\ \A i \in Heads(q) : g[i] = q[i]
      BY <2>1
    <2> QED BY <2>2
  <1>6. g \in Injection(Heads(q), W)
    <2>1. ASSUME NEW i \in Heads(q), NEW j \in Heads(q), g[i] = g[j]
          PROVE  i = j
      <3>1. i \in 1 .. Len(net_in[n]) /\ j \in 1 .. Len(net_in[n])
        BY DEF Heads
      <3>2. g[i] \in Packet /\ net_in[n][i] = g[i] /\ net_in[n][j] = g[i]
        BY <2>1
      <3> QED BY <3>1, <3>2, OneSpot
    <2> QED BY <2>1 DEF Injection, IsInjective
  <1> HIDE DEF W
  <1>7. IsFiniteSet(W) /\ Cardinality(Heads(q)) <= Cardinality(W) /\ IsFiniteSet(Heads(q))
    <2>1. IsFiniteSet(W)
      BY <1>2, <1>5, FS_Subset
    <2> QED BY <1>6, <2>1, FS_Injection
  <1> PICK y \in Nat : y = Cardinality(Heads(q))
    BY <1>7, FS_CardinalityType
  <1> PICK w \in Nat : w = Cardinality(W)
    BY <1>7, FS_CardinalityType
  <1> PICK o \in Nat : o = Cardinality(O)
    BY <1>2, FS_CardinalityType
  <1> PICK k \in {0, 1} : k = IF TakePos(n) = Boundary THEN 0 ELSE 1
    OBVIOUS
  <1>8. w + k <= o
    <2>1. CASE TakePos(n) = Boundary
      <3>1. w <= o
        BY <1>2, <1>5, FS_Subset
      <3> QED BY <2>1, <3>1
    <2>2. CASE TakePos(n) # Boundary
      <3>1. PICK p \in Packet : atBar[p] = n /\ stageBar[p] \in {"same", "other"}
        BY <2>2, BeingRead
      <3>2. p \in O /\ p \notin W
        BY <1>3, <1>4, <3>1
      <3>3. IsFiniteSet(W \cup {p}) /\ Cardinality(W \cup {p}) = w + 1
        BY <1>7, <3>2, FS_AddElement
      <3>4. W \cup {p} \subseteq O
        BY <1>5, <3>2
      <3>5. Cardinality(W \cup {p}) <= o
        BY <1>2, <3>4, FS_Subset
      <3> QED BY <2>2, <3>3, <3>5
    <2> QED BY <2>1, <2>2
  <1> PICK s \in Nat \ {0} : s = Payload
    BY ConstantTypes
  <1> PICK depth \in Nat : depth = NetDepth
    BY ConstantTypes
  <1> PICK r \in Nat : r = Rest(TakePos(n)) /\ r <= k * (s + 1)
    <2>1. Rest(TakePos(n)) \in 0 .. s
      BY <1>1, RestType DEF Routed
    <2>2. CASE TakePos(n) = Boundary
      <3>1. Rest(TakePos(n)) = 0 /\ k * (s + 1) = 0
        BY <2>2 DEF Rest
      <3> QED BY <3>1
    <2>3. CASE TakePos(n) # Boundary
      <3>1. k * (s + 1) = s + 1
        BY <2>3
      <3> QED BY <2>1, <3>1
    <2> QED BY <2>2, <2>3
  <1> PICK len \in Nat : len = Len(q)
    OBVIOUS
  <1>9. len <= y * (s + 1) + r
    BY <1>1, FlowLength DEF Routed
  <1>10. len + s + 1 > depth
    BY DEF HasRoom
  <1>11. depth \div (s + 1) <= y + k
    BY <1>9, <1>10, FullRoom
  <1>12. depth \div (s + 1) \in Nat
    <2>1. s + 1 \in Nat \ {0}
      OBVIOUS
    <2> QED BY <2>1, Division
  <1> PICK z \in Nat : z = depth \div (s + 1)
    BY <1>12
  <1>13. z <= o
    <2>1. y <= w
      BY <1>7
    <2>2. z <= y + k
      BY <1>11
    <2> QED BY ONLY <1>8, <2>1, <2>2, z \in Nat, y \in Nat, w \in Nat, o \in Nat, k \in {0, 1}
  <1>14. z = NetDepth \div (Payload + 1) /\ o = Cardinality(Credits!Occupants(n))
    OBVIOUS
  <1> QED BY <1>13, <1>14

LEMMA DropRefines ==
    ASSUME TravelInv, Staged, Staged', NEW n \in Node, Drop(n)
    PROVE  Credits!Next
  <1> PICK u \in Node : u = upper_worker_idx(n) /\ lower_worker_idx(u) = n
    BY Neighbours
  <1> PICK f : f = wire[u][1]
    OBVIOUS
  <1>1. net_in \in [Node -> Seq(PacketFrame)] /\ wire \in [Node -> Seq(PacketFrame)] /\ IInv
    BY TravelTypes DEF Fifos
  <1>2. /\ f.head /\ wire[u] # <<>> /\ lost' = lost \cup {f}
        /\ UNCHANGED <<rdProp, vertexTrans, currentState, write_read_num, net_in,
                       vertexUpdate, wrProp>>
    BY <1>1, DropFacts
  <1> PICK j \in 1 .. Len(wire[u]) : wire' = Cut(wire, u, j) /\ \A i \in 2 .. j : ~wire[u][i].head
    BY <1>1, DropFacts
  <1>3. Complete(wire[u]) /\ ~HasRoom(n)
    BY DEF Drop
  <1>4. f \in Packet /\ Holds(wire[u], f) /\ stageBar[f] = "wire" /\ atBar[f] = u
    BY <1>2, <1>3, FrontPacket
  <1>5. ASSUME NEW h \in Packet \ {f}
        PROVE  Untouched(h)
    <2>1. \A i \in 1 .. j : wire[u][i] # h
      <3>1. h.head
        BY PacketHeaders DEF Header
      <3>2. ASSUME NEW i \in 1 .. j
            PROVE  wire[u][i] # h
        <4>1. i = 1 \/ i \in 2 .. j
          OBVIOUS
        <4> QED BY <3>1, <4>1
      <3> QED BY <3>2
    <2>2. \A m \in Node : /\ Holds(wire'[m], h) <=> Holds(wire[m], h)
                          /\ Unfinished(wire'[m], h) <=> Unfinished(wire[m], h)
      BY <1>1, <2>1, CutFrames
    <2>3. \A m \in Node : /\ Holds(wire[m], h)' = Holds(wire'[m], h)
                          /\ Holds(net_in[m], h)' = Holds(net_in'[m], h)
                          /\ OpenIn(m, h)' = Unfinished(wire'[m], h)
      BY DEF Holds, OpenIn, Unfinished
    <2>4. Sent(h)' <=> Sent(h)
      BY <1>2 DEF Sent, Produced
    <2>5. TakingHome(h)' <=> TakingHome(h)
      <3>1. TakePos(h.node)' = TakePos(h.node)
        BY <1>2 DEF TakePos, WritePos
      <3> QED BY <1>2, <3>1, TakingStays
    <2>6. h \in lost' <=> h \in lost
      BY <1>2
    <2> QED BY <1>2, <2>2, <2>3, <2>4, <2>5, <2>6 DEF Untouched, OpenIn
  <1>6. stageBar'[f] = "lost" /\ atBar'[f] = f.node
    <2>1. Seen(f)' /\ Told(f)'
      BY <1>4 DEF Staged
    <2>2. f \in lost'
      BY <1>2
    <2>3. ~Aboard(f)'
      BY <2>1, <2>2 DEF Told
    <2> QED BY <2>1, <2>2, <2>3 DEF Seen
  <1>7. [h \in Packet |-> h.node][f] = f.node
    BY <1>4
  <1>8. Credits!Move(f, "lost", [h \in Packet |-> h.node][f])
    BY <1>4, <1>5, <1>6, <1>7, PacketMoves
  <1>9. Credits!lower_worker_idx(atBar[f]) = n
    BY <1>4 DEF Credits!lower_worker_idx, lower_worker_idx
  <1>10. /\ Cardinality(Credits!Occupants(n)) >= NetDepth \div (Payload + 1)
         /\ [m \in Node |-> NetDepth \div (Payload + 1)][n] = NetDepth \div (Payload + 1)
    BY <1>3, ManyOccupants
  <1>11. Credits!Drop(f)
    <2>1. Credits!Cardinality(Credits!Occupants(n)) = Cardinality(Credits!Occupants(n))
      BY DEF Credits!Cardinality, Cardinality
    <2> QED BY <1>2, <1>4, <1>8, <1>9, <1>10, <2>1 DEF Credits!Drop
  <1> QED BY <1>4, <1>11 DEF Credits!Next

LEMMA CreditRingNext ==
    ASSUME TravelInv, Staged, Staged', [Next]_vars
    PROVE  [Credits!Next]_(Credits!vars)
  <1>1. ASSUME NEW n \in Node, ReadProp(n) \/ WriteProp(n)
        PROVE  [Credits!Next]_(Credits!vars)
    BY <1>1, QuietSteps
  <1>2. ASSUME NEW n \in Node, GlobalTrans(n)
        PROVE  [Credits!Next]_(Credits!vars)
    BY <1>2, FirstSameRefines, FirstOtherRefines, FirstOwnRefines, OnlySendRefines,
       RemainOtherRefines, RemainSameRefines DEF GlobalTrans
  <1>3. ASSUME NEW n \in Node, Arrive(n) \/ Drop(n)
        PROVE  [Credits!Next]_(Credits!vars)
    BY <1>3, ArriveRefines, DropRefines
  <1>4. CASE UNCHANGED vars
    <2>1. 0 \in Node
      BY RingAssumption DEF Node
    <2> QED BY <1>4, <2>1, QuietSteps
  <1> QED BY <1>1, <1>2, <1>3, <1>4 DEF Next, Terminated

LEMMA CreditRingInit == Init => Credits!Init
  <1> SUFFICES ASSUME Init
               PROVE  Credits!Init
    OBVIOUS
  <1>1. Staged
    BY TravelInit, AllStaged
  <1>2. ASSUME NEW h \in Packet
        PROVE  stageBar[h] = "vertexTrans" /\ atBar[h] = h.node
    <2>1. h.node \in Node /\ h.addr \in PacketsFrom(h.node) /\ h.addr \in Unread
      <3>1. h.node \in Node /\ h.addr \in PacketsFrom(h.node)
        BY PacketHeaders
      <3>2. PICK k \in DOMAIN Schedule[h.node] : Schedule[h.node][k] = h.addr \div BlockNum
        BY <3>1 DEF PacketsFrom
      <3>3. k \in Nat /\ k >= 1
        BY <3>1, ConstantTypes
      <3>4. h.addr \in Starts /\ h.addr % BlockNum \in Nat
        <4>1. h.addr \in Starts
          BY <3>1 DEF PacketsFrom
        <4> PICK a \in Nat : a = h.addr
          BY <4>1, BlockType DEF Starts
        <4>2. a % BlockNum \in Nat
          BY ConstantTypes, Division
        <4> QED BY <4>1, <4>2
      <3>5. /\ rdProp[h.node].item = 1 /\ rdProp[h.node].address = 0
            /\ rdProp[h.node].frameId = 0
        BY <3>1 DEF Init
      <3>6. \/ k > rdProp[h.node].item
            \/ /\ k = rdProp[h.node].item
               /\ \/ h.addr % BlockNum > rdProp[h.node].address
                  \/ h.addr % BlockNum = rdProp[h.node].address /\ rdProp[h.node].frameId = 0
        BY <3>3, <3>4, <3>5
      <3> QED BY <3>1, <3>2, <3>4, <3>6 DEF Unread
    <2>2. h.addr \notin SentOf(h.node)
      BY <2>1 DEF SentOf, ReadOf
    <2>3. Seen(h) /\ Told(h)
      BY <1>1 DEF Staged
    <2>4. ~Sent(h) /\ ~Aboard(h) /\ h \notin lost
      BY <2>2, <2>3 DEF Told
    <2> QED BY <2>3, <2>4 DEF Seen
  <1>3. stageBar = [h \in Packet |-> "vertexTrans"]
    BY <1>2 DEF stageBar
  <1>4. atBar = [h \in Packet |-> h.node]
    BY <1>2 DEF atBar
  <1>5. write_read_num = [m \in Credits!Node |-> 0]
    BY DEF Init, Credits!Node, Node
  <1> QED BY <1>3, <1>4, <1>5 DEF Credits!Init

(***************************************************************************)
(* Frame by frame, globalTrans, the FIFOs and the lossy links do to the    *)
(* packets what the credit rules of CreditRing allow: a node is inside of  *)
(* one packet at a time, write_read_num goes up with every own header sent *)
(* and down with every own header that comes home, and a link drops a      *)
(* packet only in front of a net_in FIFO that holds all it has room for.   *)
(* No condition on the size of that FIFO is needed.                        *)
(***************************************************************************)
THEOREM RingFollowsCredits == Spec => ImplementsCreditRing
  <1>1. Init => TravelInv /\ Credits!Init
    BY TravelInit, CreditRingInit
  <1>2. TravelInv /\ [Next]_vars => TravelInv'
    BY TravelNext
  <1>3. TravelInv => Staged
    BY AllStaged
  <1>4. TravelInv /\ Staged /\ Staged' /\ [Next]_vars => [Credits!Next]_(Credits!vars)
    BY CreditRingNext
  <1> QED BY <1>1, <1>2, <1>3, <1>4, PTL DEF Spec, ImplementsCreditRing, Credits!Spec
=============================================================================
