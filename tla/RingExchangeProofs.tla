------------------------- MODULE RingExchangeProofs -------------------------
(***************************************************************************)
(* The invariants of the exchange, frame by frame, for every number of     *)
(* FPGAs, every schedule, packet size and FIFO depth: it keeps its types,  *)
(* never takes back a credit it did not give, stores every block at its    *)
(* own address and has every packet at one place, losses included; and     *)
(* with room for all the packets that the credits allow it loses none.     *)
(***************************************************************************)
EXTENDS RingInvariant, FiniteSetTheorems, SequenceTheorems, WellFoundedInduction, TLAPS

-----------------------------------------------------------------------------
(* Facts about the natural numbers and the ring. *)

LEMMA LeastNatural ==
    ASSUME NEW S \in SUBSET Nat, S # {}
    PROVE  \E n \in S : \A m \in S : n <= m
  <1> DEFINE Below == {1 .. n : n \in S}
             R == StrictSubsetOrdering(Nat)
  <1>1. Below \subseteq FiniteSubsetsOf(Nat)
    <2> SUFFICES ASSUME NEW n \in S
                 PROVE  1 .. n \in FiniteSubsetsOf(Nat)
      OBVIOUS
    <2>1. n \in Nat /\ 1 .. n \in SUBSET Nat
      OBVIOUS
    <2>2. IsFiniteSet(1 .. n)
      BY <2>1, FS_Interval
    <2> QED BY <2>1, <2>2 DEF FiniteSubsetsOf
  <1>2. Below # {}
    OBVIOUS
  <1>3. IsWellFoundedOn(R, FiniteSubsetsOf(Nat))
    BY FS_StrictSubsetOrderingWellFounded
  <1>4. PICK B \in Below : \A C \in Below : <<C, B>> \notin R
    <2> HIDE DEF Below, R
    <2> QED BY <1>1, <1>2, <1>3, WFMin
  <1>5. PICK n \in S : B = 1 .. n
    OBVIOUS
  <1>6. ASSUME NEW m \in S
        PROVE  n <= m
    <2> SUFFICES ASSUME m < n
                 PROVE  FALSE
      OBVIOUS
    <2>1. 1 .. m \subseteq 1 .. n /\ n \in 1 .. n /\ n \notin 1 .. m
      OBVIOUS
    <2>2. <<1 .. m, 1 .. n>> \in R
      BY <2>1, 1 .. m \in SUBSET Nat, 1 .. n \in SUBSET Nat DEF StrictSubsetOrdering
    <2> QED BY <1>4, <1>5, <2>2
  <1> QED BY <1>6

LEMMA TimesMonotone ==
    ASSUME NEW x \in Nat, NEW y \in Nat, x <= y, NEW d \in Nat
    PROVE  x * d <= y * d
  <1>1. PICK z \in Nat : y = x + z
    OBVIOUS
  <1>2. (x + z) * d = x * d + z * d
    OBVIOUS
  <1>3. x * d \in Nat /\ z * d \in Nat
    OBVIOUS
  <1> QED BY <1>1, <1>2, <1>3

LEMMA Neighbours ==
    ASSUME NEW n \in Node
    PROVE  /\ upper_worker_idx(n) \in Node /\ lower_worker_idx(n) \in Node
           /\ lower_worker_idx(upper_worker_idx(n)) = n
           /\ upper_worker_idx(lower_worker_idx(n)) = n
  BY RingAssumption DEF Node, upper_worker_idx, lower_worker_idx

\* The number of full packets is the number of whole blocks rounded up.
LEMMA PacketsOf ==
    ASSUME NEW k \in Nat
    PROVE  /\ packets_of(BlockNum) \in Nat
           /\ k * Payload < BlockNum <=> k < packets_of(BlockNum)
  <1>1. Payload \in Nat \ {0} /\ BlockNum \in Nat \ {0}
    BY ConstantsAssumption DEF ExchangeAssumption
  <1> DEFINE B == BlockNum + Payload - 1
             q == B \div Payload
  <1>2. B \in Nat
    BY <1>1
  <1>3. q \in Nat /\ B = q * Payload + (B % Payload) /\ B % Payload \in 0 .. Payload - 1
    BY <1>1, <1>2
  <1> HIDE DEF q
  <1>4. k < q => k * Payload < BlockNum
    <2> SUFFICES ASSUME k + 1 <= q
                 PROVE  k * Payload < BlockNum
      BY <1>3
    <2>1. (k + 1) * Payload <= q * Payload
      BY <1>1, <1>3
    <2>2. (k + 1) * Payload = k * Payload + Payload
      BY <1>1
    <2> QED BY <1>1, <1>3, <2>1, <2>2
  <1>5. q <= k => BlockNum <= k * Payload
    <2> SUFFICES ASSUME q <= k
                 PROVE  BlockNum <= k * Payload
      OBVIOUS
    <2>1. q * Payload <= k * Payload
      BY <1>1, <1>3
    <2> QED BY <1>1, <1>3, <2>1
  <1>6. packets_of(BlockNum) = q
    BY DEF packets_of, q
  <1>7. k * Payload \in Nat
    BY <1>1
  <1> QED BY <1>1, <1>3, <1>4, <1>5, <1>6, <1>7

-----------------------------------------------------------------------------
(* What a FIFO carries: appending, taking and cutting off frames. *)

LEMMA FlowEmpty ==
    ASSUME NEW a
    PROVE  Flow(<<>>, a, a)
  BY DEF Flow

LEMMA FlowAppend ==
    ASSUME NEW q \in Seq(PacketFrame), NEW f \in PacketFrame, NEW a, Flow(q, a, At(f))
    PROVE  Flow(Append(q, f), a, After(f))
  BY DEF Flow

LEMMA FlowHead ==
    ASSUME NEW q \in Seq(PacketFrame), NEW a, NEW b, Flow(q, a, b), q # <<>>
    PROVE  Head(q) \in PacketFrame /\ Tail(q) \in Seq(PacketFrame) /\ At(Head(q)) = a
  BY DEF Flow

LEMMA FlowTail ==
    ASSUME NEW q \in Seq(PacketFrame), NEW a, NEW b, Flow(q, a, b), q # <<>>
    PROVE  Flow(Tail(q), After(Head(q)), b)
  <1> DEFINE t == Tail(q)
  <1>1. /\ Len(t) = Len(q) - 1 /\ Len(q) \in Nat \ {0} /\ t \in Seq(PacketFrame)
        /\ \A i \in 1 .. Len(t) : t[i] = q[i + 1]
        /\ Head(q) = q[1]
    BY HeadTailProperties
  <1> HIDE DEF t
  <1>2. CASE Len(q) = 1
    BY <1>1, <1>2 DEF Flow
  <1>3. CASE Len(q) > 1
    <2>1. t # <<>> /\ q # <<>> /\ t[1] = q[2] /\ t[Len(t)] = q[Len(q)]
      BY <1>1, <1>3
    <2>2. \A i \in 1 .. Len(t) - 1 : After(t[i]) = At(t[i + 1])
      BY <1>1 DEF Flow
    <2>3. After(q[1]) = At(q[2]) /\ After(q[Len(q)]) = b
      BY <1>1, <1>3, <2>1 DEF Flow
    <2> QED BY <1>1, <2>1, <2>2, <2>3 DEF Flow
  <1> QED BY <1>1, <1>2, <1>3 DEF t

LEMMA FlowSuffix ==
    ASSUME NEW q \in Seq(PacketFrame), NEW a, NEW b, Flow(q, a, b),
           NEW j \in 1 .. Len(q)
    PROVE  /\ SubSeq(q, j + 1, Len(q)) \in Seq(PacketFrame)
           /\ Flow(SubSeq(q, j + 1, Len(q)), After(q[j]), b)
  <1> DEFINE s == SubSeq(q, j + 1, Len(q))
             k == Len(q) - j
  <1>1. /\ s \in Seq(PacketFrame) /\ Len(q) \in Nat /\ k \in Nat
        /\ Len(s) = k
    OBVIOUS
  <1>2. \A i \in 1 .. k : s[i] = q[i + j]
    OBVIOUS
  <1>3. CASE k = 0
    <2>1. j = Len(q) /\ s = <<>> /\ q # <<>> /\ k - 1 < 1
      BY <1>1, <1>3
    <2> QED BY <1>1, <1>3, <2>1 DEF Flow
  <1>4. CASE k > 0
    <2>1. s[1] = q[j + 1] /\ s[k] = q[Len(q)]
      <3>1. 1 \in 1 .. k /\ k \in 1 .. k /\ 1 + j = j + 1 /\ k + j = Len(q)
        BY <1>1, <1>4
      <3> HIDE DEF s, k
      <3> QED BY <1>2, <3>1
    <2>2. \A i \in 1 .. k - 1 : After(s[i]) = At(s[i + 1])
      <3> SUFFICES ASSUME NEW i \in 1 .. k - 1
                   PROVE  After(s[i]) = At(s[i + 1])
        OBVIOUS
      <3>1. i \in 1 .. k /\ i + 1 \in 1 .. k /\ i + j \in 1 .. Len(q) - 1
        BY <1>1
      <3>2. (i + 1) + j = (i + j) + 1
        BY <1>1
      <3>3. After(q[i + j]) = At(q[(i + j) + 1])
        BY <3>1 DEF Flow
      <3> HIDE DEF s, k
      <3> QED BY <1>2, <3>1, <3>2, <3>3
    <2>3. After(q[j]) = At(q[j + 1]) /\ After(q[Len(q)]) = b
      BY <1>1, <1>4 DEF Flow
    <2>4. s # <<>>
      <3> HIDE DEF s
      <3> QED BY <1>1, <1>4
    <2> QED BY <1>1, <2>1, <2>2, <2>3, <2>4 DEF Flow
  <1> QED BY <1>1, <1>3, <1>4

-----------------------------------------------------------------------------
(* Positions. *)

LEMMA ConstantTypes ==
    /\ Payload \in Nat \ {0} /\ BlockNum \in Nat \ {0} /\ total_p_num \in Nat \ {0}
    /\ NetDepth \in Nat /\ NetDepth > Payload
    /\ FIFO_len \in Nat \ {0} /\ TransDepth \in Nat \ {0} /\ UpdateDepth \in Nat \ {0}
    /\ Schedule \in [Node -> Seq(Partition)]
  BY ConstantsAssumption DEF ExchangeAssumption

LEMMA SlotType ==
    ASSUME NEW a \in Int
    PROVE  Slot(a) \in 0 .. Payload - 1
  <1> DEFINE b == a % BlockNum
  <1>1. b \in Nat
    BY ConstantTypes
  <1> HIDE DEF b
  <1>2. b % Payload \in 0 .. Payload - 1
    BY <1>1, ConstantTypes
  <1> QED BY <1>2 DEF Slot, b

LEMMA BlockType == Block \subseteq Nat
  BY ConstantTypes DEF Block

LEMMA PositionType == Position \subseteq Int
  BY BlockType DEF Position, Boundary

LEMMA FramePositions ==
    ASSUME NEW f \in PacketFrame
    PROVE  /\ f \in Frame /\ f.node \in Node /\ f.addr \in Block /\ f.addr \in Nat
           /\ f.head \in BOOLEAN /\ f.last \in BOOLEAN
           /\ At(f) \in Position /\ After(f) \in Position
           /\ f.head <=> At(f) = Boundary
           /\ f.last <=> After(f) = Boundary
           /\ f.head => ~f.last /\ Slot(After(f)) = 0 /\ After(f) = f.addr
           /\ ~f.head => At(f) = f.addr
           /\ ~f.head /\ ~f.last =>
                  After(f) = f.addr + 1 /\ Slot(After(f)) = Slot(At(f)) + 1
  <1>1. /\ f \in Frame
        /\ f.head => Slot(f.addr) = 0 /\ ~f.last
        /\ ~f.head /\ ~f.last =>
               f.addr + 1 \in Block /\ Slot(f.addr + 1) = Slot(f.addr) + 1
    BY DEF PacketFrame
  <1>2. /\ f.node \in Node /\ f.addr \in Block /\ f.addr \in Nat
        /\ f.head \in BOOLEAN /\ f.last \in BOOLEAN
    BY <1>1, BlockType DEF Frame
  <1>3. At(f) \in Position /\ After(f) \in Position
    BY <1>1, <1>2 DEF At, After, Position
  <1>4. /\ f.head <=> At(f) = Boundary
        /\ f.last <=> After(f) = Boundary
    BY <1>1, <1>2 DEF At, After, Boundary
  <1> QED BY <1>1, <1>2, <1>3, <1>4 DEF At, After

-----------------------------------------------------------------------------
(* The positions survive every step. *)

\* globalTrans copies the first frame of net_in to writeProp.
LEMMA TakeFlows ==
    ASSUME Typed, NEW n \in Node, Take(n),
           NEW own, NEW mid, NEW gap, FramedAt(n, own, mid, gap)
    PROVE  LET f == Head(net_in[n]) IN
           /\ f \in PacketFrame /\ At(f) = mid[n]
           /\ net_in' = [net_in EXCEPT ![n] = Tail(net_in[n])]
           /\ vertexUpdate' = [vertexUpdate EXCEPT ![n] = Append(vertexUpdate[n], f)]
           /\ net_in' \in [Node -> Seq(PacketFrame)]
           /\ vertexUpdate' \in [Node -> Seq(PacketFrame)]
           /\ Flow(net_in'[n], After(f), gap[n])
           /\ Flow(vertexUpdate'[n], WritePos(n), After(f))
           /\ Len(net_in'[n]) = Len(net_in[n]) - 1 /\ Len(net_in[n]) \in Nat
           /\ Len(vertexUpdate'[n]) <= UpdateDepth
  <1> DEFINE q == net_in[n]
             u == vertexUpdate[n]
             f == Head(net_in[n])
  <1>1. q \in Seq(PacketFrame) /\ u \in Seq(PacketFrame) /\ q # <<>>
    BY DEF Typed, Take
  <1>2. Flow(q, mid[n], gap[n]) /\ Flow(u, WritePos(n), mid[n])
    BY DEF FramedAt
  <1>3. /\ net_in' = [net_in EXCEPT ![n] = Tail(q)]
        /\ vertexUpdate' = [vertexUpdate EXCEPT ![n] = Append(u, f)]
        /\ Len(u) < UpdateDepth
    BY DEF Take, Push, Pop
  <1> HIDE DEF q, u, f
  <1>4. f \in PacketFrame /\ Tail(q) \in Seq(PacketFrame) /\ At(f) = mid[n]
    BY <1>1, <1>2, FlowHead DEF f, q
  <1>5. Flow(Tail(q), After(f), gap[n])
    BY <1>1, <1>2, FlowTail DEF f, q
  <1>6. Flow(Append(u, f), WritePos(n), After(f))
    BY <1>1, <1>2, <1>4, FlowAppend
  <1>7. /\ Append(u, f) \in Seq(PacketFrame) /\ Len(Append(u, f)) = Len(u) + 1
        /\ Len(u) \in Nat
        /\ Len(Tail(q)) = Len(q) - 1 /\ Len(q) \in Nat
    BY <1>1, <1>4
  <1>8. net_in'[n] = Tail(q) /\ vertexUpdate'[n] = Append(u, f)
    BY <1>3 DEF Typed
  <1>9. /\ net_in' \in [Node -> Seq(PacketFrame)]
        /\ vertexUpdate' \in [Node -> Seq(PacketFrame)]
    BY <1>3, <1>4, <1>7 DEF Typed
  <1>10. Len(vertexUpdate'[n]) <= UpdateDepth
    BY <1>3, <1>7, <1>8, ConstantTypes
  <1> QED BY <1>3, <1>4, <1>5, <1>6, <1>7, <1>8, <1>9, <1>10 DEF q, u, f

\* globalTrans writes frame f to the link of its node.
LEMMA SendFlows ==
    ASSUME Typed, NEW n \in Node, NEW f \in PacketFrame, Send(n, f),
           NEW a, Flow(wire[n], a, At(f))
    PROVE  /\ wire' = [wire EXCEPT ![n] = Append(wire[n], f)]
           /\ wire' \in [Node -> Seq(PacketFrame)]
           /\ Flow(wire'[n], a, After(f))
  <1>1. wire' = [wire EXCEPT ![n] = Append(wire[n], f)] /\ wire[n] \in Seq(PacketFrame)
    BY DEF Typed, Send, Push
  <1>2. Append(wire[n], f) \in Seq(PacketFrame)
    BY <1>1
  <1>3. Flow(Append(wire[n], f), a, After(f))
    BY <1>1, FlowAppend
  <1> QED BY <1>1, <1>2, <1>3 DEF Typed

(***************************************************************************)
(* The four branches of globalTrans that take a frame f from the network.  *)
(* Afterwards the FSM is in state t: inside of the packet of f unless f is *)
(* its last frame.                                                         *)
(***************************************************************************)
LEMMA TakeFraming ==
    ASSUME Typed, NEW n \in Node, Take(n), NEW t,
           NEW own \in [Node -> Position], NEW mid \in [Node -> Position],
           NEW gap \in [Node -> Position],
           \A m \in Node : FramedAt(m, own, mid, gap),
           own[n] = Boundary,
           t = IF Head(net_in[n]).last THEN "firstFrame" ELSE t,
           ~Head(net_in[n]).last => t \in {"remainFrame_same", "remainFrame_other"},
           currentState'[n] = t,
           Flow(wire'[n], gap[lower_worker_idx(n)],
                IF t = "remainFrame_other" THEN After(Head(net_in[n])) ELSE Boundary),
           \A m \in Node \ {n} : wire'[m] = wire[m] /\ currentState'[m] = currentState[m],
           UNCHANGED <<rdProp, vertexTrans, wrProp>>
    PROVE  Framing'
  <1>1. FramedAt(n, own, mid, gap)
    OBVIOUS
  <1> PICK f : f = Head(net_in[n])
    OBVIOUS
  <1>2. /\ f \in PacketFrame /\ At(f) = mid[n]
        /\ net_in' = [net_in EXCEPT ![n] = Tail(net_in[n])]
        /\ vertexUpdate' = [vertexUpdate EXCEPT ![n] = Append(vertexUpdate[n], f)]
        /\ Flow(net_in'[n], After(f), gap[n])
        /\ Flow(vertexUpdate'[n], WritePos(n), After(f))
        /\ Len(net_in'[n]) = Len(net_in[n]) - 1 /\ Len(net_in[n]) \in Nat
    BY <1>1, TakeFlows
  <1>3. After(f) \in Position /\ (f.last <=> After(f) = Boundary)
    BY <1>2, FramePositions
  <1>4. PICK mid1 \in [Node -> Position] : mid1 = [mid EXCEPT ![n] = After(f)]
    BY <1>3
  <1>5. \A m \in Node : ReadPos(m)' = ReadPos(m) /\ WritePos(m)' = WritePos(m)
    BY DEF ReadPos, WritePos
  <1>6. FramedAt(n, own, mid1, gap)'
    <2>1. Flow(vertexTrans[n], own[n], ReadPos(n))'
      BY <1>1, <1>5 DEF FramedAt
    <2>2. OutPos(n, own, mid1)' = IF t = "remainFrame_other" THEN After(f) ELSE Boundary
      BY <1>3, <1>4 DEF OutPos
    <2>3. Flow(wire[n], gap[lower_worker_idx(n)], OutPos(n, own, mid1))'
      BY <2>2
    <2>4. Flow(net_in[n], mid1[n], gap[n])'
      BY <1>2, <1>4
    <2>5. Flow(vertexUpdate[n], WritePos(n), mid1[n])'
      BY <1>2, <1>4, <1>5
    <2>6. /\ own[n] # Boundary <=> currentState'[n] = "onlySend"
          /\ mid1[n] # Boundary
               <=> currentState'[n] \in {"remainFrame_same", "remainFrame_other"}
      BY <1>3, <1>4
    <2>7. gap[n] # Boundary => Len(net_in'[n]) + Payload - Slot(gap[n]) <= NetDepth
      <3> SUFFICES ASSUME gap[n] # Boundary
                   PROVE  Len(net_in'[n]) + Payload - Slot(gap[n]) <= NetDepth
        OBVIOUS
      <3>1. gap[n] \in Int
        BY PositionType
      <3>2. Slot(gap[n]) \in Int
        BY <3>1, SlotType
      <3>3. Len(net_in[n]) + Payload - Slot(gap[n]) <= NetDepth
        BY <1>1 DEF FramedAt
      <3> QED BY <1>2, <3>2, <3>3, ConstantTypes
    <2> QED BY <2>1, <2>3, <2>4, <2>5, <2>6, <2>7 DEF FramedAt
  <1>7. ASSUME NEW m \in Node \ {n}
        PROVE  FramedAt(m, own, mid1, gap)'
    <2>1. FramedAt(m, own, mid, gap)
      OBVIOUS
    <2>2. /\ mid1[m] = mid[m] /\ net_in'[m] = net_in[m]
          /\ vertexUpdate'[m] = vertexUpdate[m] /\ wire'[m] = wire[m]
          /\ currentState'[m] = currentState[m] /\ vertexTrans'[m] = vertexTrans[m]
      BY <1>2, <1>4 DEF Typed
    <2>3. OutPos(m, own, mid1)' = OutPos(m, own, mid)
      BY <2>2 DEF OutPos
    <2> QED BY <1>5, <2>1, <2>2, <2>3 DEF FramedAt
  <1>8. \A m \in Node : FramedAt(m, own, mid1, gap)'
    BY <1>6, <1>7
  <1> QED BY <1>8 DEF Framing

\* The two branches that send a frame f of the node's own packets.
LEMMA OwnFraming ==
    ASSUME Typed, NEW n \in Node, NEW t,
           NEW own \in [Node -> Position], NEW mid \in [Node -> Position],
           NEW gap \in [Node -> Position],
           \A m \in Node : FramedAt(m, own, mid, gap),
           currentState[n] \in {"firstFrame", "onlySend"},
           vertexTrans[n] # <<>>,
           vertexTrans' = Pop(vertexTrans, n),
           Send(n, Head(vertexTrans[n])),
           t = IF Head(vertexTrans[n]).last THEN "firstFrame" ELSE "onlySend",
           currentState'[n] = t,
           \A m \in Node \ {n} : currentState'[m] = currentState[m],
           UNCHANGED <<rdProp, net_in, vertexUpdate, wrProp>>
    PROVE  /\ Framing'
           /\ Head(vertexTrans[n]) \in PacketFrame
           /\ wire' \in [Node -> Seq(PacketFrame)]
           /\ vertexTrans' \in [Node -> Seq(PacketFrame)]
  <1>1. FramedAt(n, own, mid, gap)
    OBVIOUS
  <1> PICK f : f = Head(vertexTrans[n])
    OBVIOUS
  <1>2. /\ vertexTrans[n] \in Seq(PacketFrame)
        /\ Flow(vertexTrans[n], own[n], ReadPos(n))
    BY <1>1 DEF Typed, FramedAt
  <1>3. /\ f \in PacketFrame /\ Tail(vertexTrans[n]) \in Seq(PacketFrame)
        /\ At(f) = own[n] /\ Flow(Tail(vertexTrans[n]), After(f), ReadPos(n))
    BY <1>2, FlowHead, FlowTail
  <1>4. /\ vertexTrans' = [vertexTrans EXCEPT ![n] = Tail(vertexTrans[n])]
        /\ vertexTrans' \in [Node -> Seq(PacketFrame)]
    BY <1>3 DEF Typed, Pop
  <1>5. After(f) \in Position /\ (f.last <=> After(f) = Boundary)
    BY <1>3, FramePositions
  <1>6. PICK own1 \in [Node -> Position] : own1 = [own EXCEPT ![n] = After(f)]
    BY <1>5
  <1>7. OutPos(n, own, mid) = At(f)
    BY <1>1, <1>3 DEF FramedAt, OutPos
  <1>8. /\ wire' = [wire EXCEPT ![n] = Append(wire[n], f)]
        /\ wire' \in [Node -> Seq(PacketFrame)]
        /\ Flow(wire'[n], gap[lower_worker_idx(n)], After(f))
    <2>1. Send(n, f)
      BY DEF Send
    <2>2. Flow(wire[n], gap[lower_worker_idx(n)], At(f))
      BY <1>1, <1>7 DEF FramedAt
    <2> QED BY <1>3, <2>1, <2>2, SendFlows
  <1>9. \A m \in Node : ReadPos(m)' = ReadPos(m) /\ WritePos(m)' = WritePos(m)
    BY DEF ReadPos, WritePos
  <1>10. FramedAt(n, own1, mid, gap)'
    <2>1. Flow(vertexTrans[n], own1[n], ReadPos(n))'
      BY <1>3, <1>4, <1>6, <1>9 DEF Typed
    <2>2. OutPos(n, own1, mid)' = After(f)
      BY <1>5, <1>6 DEF OutPos
    <2>3. Flow(wire[n], gap[lower_worker_idx(n)], OutPos(n, own1, mid))'
      BY <1>8, <2>2
    <2>4. own1[n] # Boundary <=> currentState'[n] = "onlySend"
      BY <1>5, <1>6
    <2>5. ~(mid[n] # Boundary)
      BY <1>1 DEF FramedAt
    <2> QED BY <1>1, <1>9, <2>1, <2>3, <2>4, <2>5 DEF FramedAt
  <1>11. ASSUME NEW m \in Node \ {n}
         PROVE  FramedAt(m, own1, mid, gap)'
    <2>1. FramedAt(m, own, mid, gap)
      OBVIOUS
    <2>2. /\ own1[m] = own[m] /\ wire'[m] = wire[m]
          /\ currentState'[m] = currentState[m] /\ vertexTrans'[m] = vertexTrans[m]
      BY <1>4, <1>6, <1>8 DEF Typed
    <2>3. OutPos(m, own1, mid)' = OutPos(m, own, mid)
      BY <2>2 DEF OutPos
    <2> QED BY <1>9, <2>1, <2>2, <2>3 DEF FramedAt
  <1>12. \A m \in Node : FramedAt(m, own1, mid, gap)'
    BY <1>10, <1>11
  <1> QED BY <1>3, <1>4, <1>8, <1>12 DEF Framing

\* A frame of the link arrives in net_in.
LEMMA ArriveFraming ==
    ASSUME Typed, Framing, NEW n \in Node, Arrive(n)
    PROVE  /\ Framing'
           /\ wire' \in [Node -> Seq(PacketFrame)]
           /\ net_in' \in [Node -> Seq(PacketFrame)]
           /\ Len(net_in'[n]) <= NetDepth
  <1>1. PICK own \in [Node -> Position], mid \in [Node -> Position],
             gap \in [Node -> Position] :
            \A m \in Node : FramedAt(m, own, mid, gap)
    BY DEF Framing
  <1> PICK u \in Node : u = upper_worker_idx(n) /\ lower_worker_idx(u) = n
    BY Neighbours
  <1> PICK f : f = Head(wire[u])
    OBVIOUS
  <1>2. /\ wire[u] # <<>> /\ wire[u] \in Seq(PacketFrame) /\ net_in[n] \in Seq(PacketFrame)
        /\ f.head => HasRoom(n)
        /\ net_in' = [net_in EXCEPT ![n] = Append(net_in[n], f)]
        /\ wire' = [wire EXCEPT ![u] = Tail(wire[u])]
        /\ UNCHANGED <<rdProp, vertexTrans, currentState, vertexUpdate, wrProp>>
    BY DEF Arrive, Push, Pop, Typed, readVars, transVars, writeVars
  <1>3. /\ Flow(wire[u], gap[n], OutPos(u, own, mid))
        /\ Flow(net_in[n], mid[n], gap[n])
    BY <1>1 DEF FramedAt
  <1>4. /\ f \in PacketFrame /\ Tail(wire[u]) \in Seq(PacketFrame)
        /\ At(f) = gap[n] /\ Flow(Tail(wire[u]), After(f), OutPos(u, own, mid))
    BY <1>2, <1>3, FlowHead, FlowTail
  <1>5. Flow(Append(net_in[n], f), mid[n], After(f))
    BY <1>2, <1>3, <1>4, FlowAppend
  <1>6. /\ Append(net_in[n], f) \in Seq(PacketFrame)
        /\ Len(Append(net_in[n], f)) = Len(net_in[n]) + 1 /\ Len(net_in[n]) \in Nat
    BY <1>2, <1>4
  <1>7. /\ wire' \in [Node -> Seq(PacketFrame)]
        /\ net_in' \in [Node -> Seq(PacketFrame)]
        /\ net_in'[n] = Append(net_in[n], f) /\ wire'[u] = Tail(wire[u])
    BY <1>2, <1>4, <1>6 DEF Typed
  <1>8. PICK gap1 \in [Node -> Position] : gap1 = [gap EXCEPT ![n] = After(f)]
    BY <1>4, FramePositions
  <1>9. /\ Len(net_in'[n]) <= NetDepth
        /\ After(f) # Boundary =>
               Len(net_in'[n]) + Payload - Slot(After(f)) <= NetDepth
    <2>1. At(f) \in Int /\ After(f) \in Int
      BY <1>4, FramePositions, PositionType
    <2>2. Slot(At(f)) \in 0 .. Payload - 1 /\ Slot(After(f)) \in 0 .. Payload - 1
      BY <2>1, SlotType
    <2>5. Len(net_in'[n]) = Len(net_in[n]) + 1 /\ Len(net_in[n]) \in Nat
      BY <1>6, <1>7
    <2>3. CASE f.head
      <3>1. Len(net_in[n]) + Payload + 1 <= NetDepth
        BY <1>2, <2>3 DEF HasRoom
      <3>2. Slot(After(f)) = 0
        BY <1>4, <2>3, FramePositions
      <3> QED BY <2>5, <3>1, <3>2, ConstantTypes
    <2>4. CASE ~f.head
      <3>1. gap[n] # Boundary
        BY <1>4, <2>4, FramePositions
      <3>2. Len(net_in[n]) + Payload - Slot(At(f)) <= NetDepth
        BY <1>1, <1>4, <3>1 DEF FramedAt
      <3>3. After(f) # Boundary => Slot(After(f)) = Slot(At(f)) + 1
        BY <1>4, <2>4, FramePositions
      <3> QED BY <2>2, <2>5, <3>2, <3>3, ConstantTypes
    <2> QED BY <2>3, <2>4, <1>4, FramePositions
  <1>10. /\ \A m \in Node : ReadPos(m)' = ReadPos(m) /\ WritePos(m)' = WritePos(m)
         /\ \A m \in Node : OutPos(m, own, mid)' = OutPos(m, own, mid)
    BY <1>2 DEF ReadPos, WritePos, OutPos
  <1>11. ASSUME NEW m \in Node
         PROVE  FramedAt(m, own, mid, gap1)'
    <2>1. FramedAt(m, own, mid, gap)
      BY <1>1
    <2>2. lower_worker_idx(m) \in Node /\ (lower_worker_idx(m) = n <=> m = u)
      BY Neighbours
    <2>3. Flow(wire[m], gap1[lower_worker_idx(m)], OutPos(m, own, mid))'
      <3>1. CASE m = u
        BY <1>4, <1>7, <1>8, <1>10, <3>1
      <3>2. CASE m # u
        <4>1. wire'[m] = wire[m] /\ gap1[lower_worker_idx(m)] = gap[lower_worker_idx(m)]
          BY <1>2, <1>8, <2>2, <3>2 DEF Typed
        <4> QED BY <1>10, <2>1, <4>1 DEF FramedAt
      <3> QED BY <3>1, <3>2
    <2>4. /\ Flow(net_in[m], mid[m], gap1[m])'
          /\ gap1[m] # Boundary => Len(net_in'[m]) + Payload - Slot(gap1[m]) <= NetDepth
      <3>1. CASE m = n
        BY <1>5, <1>7, <1>8, <1>9, <3>1
      <3>2. CASE m # n
        <4>1. net_in'[m] = net_in[m] /\ gap1[m] = gap[m]
          BY <1>2, <1>8, <3>2 DEF Typed
        <4> QED BY <2>1, <4>1 DEF FramedAt
      <3> QED BY <3>1, <3>2
    <2> QED BY <1>2, <1>10, <2>1, <2>3, <2>4 DEF FramedAt
  <1> QED BY <1>7, <1>9, <1>11 DEF Framing

\* The network cuts a datagram off at its first last flag.
LEMMA FirstDatagram ==
    ASSUME NEW w \in Seq(PacketFrame), Complete(w)
    PROVE  /\ DatagramLen(w) \in 1 .. Len(w) /\ w[DatagramLen(w)].last
           /\ \A k \in 1 .. DatagramLen(w) - 1 : ~w[k].last
  <1> DEFINE S == {j \in 1 .. Len(w) : w[j].last}
  <1>1. S \in SUBSET Nat /\ S # {}
    BY DEF Complete
  <1> HIDE DEF S
  <1>2. PICK j \in S : \A k \in S : j <= k
    BY <1>1, LeastNatural
  <1>3. j \in DOMAIN w /\ w[j].last /\ \A k \in 1 .. j - 1 : ~w[k].last
    <2>1. j \in 1 .. Len(w) /\ w[j].last
      BY DEF S
    <2>2. ASSUME NEW k \in 1 .. j - 1, w[k].last
          PROVE  FALSE
      <3>1. k \in 1 .. Len(w) /\ k < j
        BY <2>1
      <3>2. k \in S
        BY <2>2, <3>1 DEF S
      <3> QED BY <1>1, <1>2, <3>1, <3>2
    <2> QED BY <2>1, <2>2
  <1> QED BY <1>3 DEF DatagramLen

\* A datagram that finds no room goes as a whole: it ends where it began.
LEMMA DropFraming ==
    ASSUME Typed, Framing, NEW n \in Node, Drop(n)
    PROVE  /\ Framing'
           /\ \E j \in 1 .. Len(wire[upper_worker_idx(n)]) :
                  /\ wire' = [wire EXCEPT ![upper_worker_idx(n)] = SubSeq(@, j + 1, Len(@))]
                  /\ \A i \in 2 .. j : ~wire[upper_worker_idx(n)][i].head
           /\ wire' \in [Node -> Seq(PacketFrame)]
  <1>1. PICK own \in [Node -> Position], mid \in [Node -> Position],
             gap \in [Node -> Position] :
            \A m \in Node : FramedAt(m, own, mid, gap)
    BY DEF Framing
  <1> PICK u \in Node : u = upper_worker_idx(n) /\ lower_worker_idx(u) = n
    BY Neighbours
  <1> PICK w : w = wire[u]
    OBVIOUS
  <1>2. /\ w # <<>> /\ w \in Seq(PacketFrame) /\ Head(w).head
        /\ Complete(w)
        /\ wire' = [wire EXCEPT ![u] = SubSeq(w, DatagramLen(w) + 1, Len(w))]
        /\ UNCHANGED <<rdProp, vertexTrans, currentState, net_in, vertexUpdate, wrProp>>
    BY DEF Drop, Typed, readVars, transVars, writeVars
  <1>3. Flow(w, gap[n], OutPos(u, own, mid))
    BY <1>1 DEF FramedAt
  <1>4. DatagramLen(w) \in 1 .. Len(w) /\ w[DatagramLen(w)].last
    BY <1>2, FirstDatagram
  <1> PICK j \in 1 .. Len(w) : j = DatagramLen(w)
    BY <1>4
  <1> PICK s : s = SubSeq(w, j + 1, Len(w))
    OBVIOUS
  <1>5. gap[n] = Boundary /\ After(w[j]) = Boundary
    <2>1. Head(w) \in PacketFrame /\ At(Head(w)) = gap[n] /\ w[j] \in PacketFrame
      BY <1>2, <1>3, FlowHead
    <2> QED BY <1>2, <1>4, <2>1, FramePositions
  <1>6. s \in Seq(PacketFrame) /\ Flow(s, gap[n], OutPos(u, own, mid))
    BY <1>2, <1>3, <1>5, FlowSuffix
  <1>7. /\ wire' = [wire EXCEPT ![u] = s]
        /\ wire' \in [Node -> Seq(PacketFrame)] /\ wire'[u] = s
    BY <1>2, <1>6 DEF Typed
  <1>8. /\ \A m \in Node : ReadPos(m)' = ReadPos(m) /\ WritePos(m)' = WritePos(m)
        /\ \A m \in Node : OutPos(m, own, mid)' = OutPos(m, own, mid)
    BY <1>2 DEF ReadPos, WritePos, OutPos
  <1>9. ASSUME NEW m \in Node
        PROVE  FramedAt(m, own, mid, gap)'
    <2>1. FramedAt(m, own, mid, gap)
      BY <1>1
    <2>2. lower_worker_idx(m) = n <=> m = u
      BY Neighbours
    <2>3. Flow(wire[m], gap[lower_worker_idx(m)], OutPos(m, own, mid))'
      <3>1. CASE m = u
        BY <1>6, <1>7, <1>8, <3>1
      <3>2. CASE m # u
        <4>1. wire'[m] = wire[m]
          BY <1>7, <3>2 DEF Typed
        <4> QED BY <1>8, <2>1, <4>1 DEF FramedAt
      <3> QED BY <3>1, <3>2
    <2> QED BY <1>2, <1>8, <2>1, <2>3 DEF FramedAt
  <1>10. wire' = [wire EXCEPT ![u] = SubSeq(@, j + 1, Len(@))]
    BY <1>7
  <1>11. ASSUME NEW i \in 2 .. j, w[i].head
         PROVE  FALSE
    <2> PICK l : l = i - 1
      OBVIOUS
    <2>1. l \in 1 .. DatagramLen(w) - 1 /\ l \in 1 .. Len(w) - 1 /\ l + 1 = i
      BY <1>2
    <2>2. w[l] \in PacketFrame /\ w[i] \in PacketFrame /\ i \in 1 .. Len(w)
      BY <1>2, <2>1, SMTT(30)
    <2>3. ~w[l].last
      BY <1>2, <2>1, FirstDatagram
    <2>4. After(w[l]) = At(w[i])
      BY <1>3, <2>1 DEF Flow
    <2> QED BY <1>11, <2>2, <2>3, <2>4, FramePositions
  <1> QED BY <1>7, <1>9, <1>10, <1>11 DEF Framing

-----------------------------------------------------------------------------
(* readProp: the frames it writes are cut at multiples of Payload. *)

LEMMA Division ==
    ASSUME NEW x \in Nat, NEW d \in Nat \ {0}
    PROVE  /\ x \div d \in Nat /\ x % d \in 0 .. d - 1
           /\ x = (x \div d) * d + (x % d)
  OBVIOUS

LEMMA ModUnique ==
    ASSUME NEW d \in Nat \ {0}, NEW k \in Nat, NEW r \in 0 .. d - 1
    PROVE  (k * d + r) % d = r
  <1> DEFINE x == k * d + r
  <1>1. x \in Nat /\ k * d \in Nat
    OBVIOUS
  <1> DEFINE q == x \div d
             s == x % d
  <1>2. q \in Nat /\ s \in 0 .. d - 1 /\ x = q * d + s
    BY <1>1
  <1>3. x = k * d + r
    OBVIOUS
  <1> HIDE DEF q, s, x
  <1>4. CASE q = k
    BY <1>1, <1>2, <1>3, <1>4 DEF s, x
  <1>5. CASE q < k
    <2>1. (q + 1) * d <= k * d /\ (q + 1) * d = q * d + d /\ q * d \in Nat
      BY <1>2, <1>5
    <2> QED BY <1>1, <1>2, <1>3, <2>1
  <1>6. CASE k < q
    <2>1. (k + 1) * d <= q * d /\ (k + 1) * d = k * d + d /\ q * d \in Nat
      BY <1>2, <1>6
    <2> QED BY <1>1, <1>2, <1>3, <2>1
  <1> QED BY <1>2, <1>4, <1>5, <1>6

\* Block b of partition p, which is block r of its packet k.
LEMMA SlotOfBlock ==
    ASSUME NEW p \in Partition, NEW b \in 0 .. BlockNum - 1, NEW k \in Nat,
           NEW r \in 0 .. Payload - 1, b = k * Payload + r
    PROVE  /\ p * BlockNum + b \in Block /\ Slot(p * BlockNum + b) = r
           /\ PacketStart(p * BlockNum + b) = p * BlockNum + k * Payload
           /\ (p * BlockNum + b) % BlockNum = b
  <1>1. p \in Nat /\ p + 1 <= total_p_num
    BY ConstantTypes DEF Partition
  <1>2. (p * BlockNum + b) % BlockNum = b
    BY <1>1, ModUnique, ConstantTypes
  <1>3. b % Payload = r
    BY ModUnique, ConstantTypes
  <1>4. p * BlockNum + b \in Block
    <2>1. (p + 1) * BlockNum <= total_p_num * BlockNum
      BY <1>1, ConstantTypes
    <2>2. (p + 1) * BlockNum = p * BlockNum + BlockNum /\ p * BlockNum \in Nat
      BY <1>1, ConstantTypes
    <2>3. total_p_num * BlockNum \in Nat
      BY ConstantTypes
    <2> QED BY <2>1, <2>2, <2>3, ConstantTypes DEF Block
  <1>5. Slot(p * BlockNum + b) = r
    BY <1>2, <1>3 DEF Slot
  <1>6. PacketStart(p * BlockNum + b) = p * BlockNum + k * Payload
    <2> PICK x \in Nat : x = p * BlockNum
      BY <1>1, ConstantTypes
    <2> PICK y \in Nat : y = k * Payload
      BY ConstantTypes
    <2> QED BY <1>5 DEF PacketStart
  <1> QED BY <1>2, <1>4, <1>5, <1>6

\* Every block is block r of packet k of a partition p.
LEMMA BlockParts ==
    ASSUME NEW a \in Block
    PROVE  \E p \in Partition : \E k \in Nat : \E r \in 0 .. Payload - 1 :
               \E b \in 0 .. BlockNum - 1 :
                   /\ b = k * Payload + r /\ k * Payload \in 0 .. BlockNum - 1
                   /\ a = p * BlockNum + b
                   /\ p = a \div BlockNum /\ b = a % BlockNum /\ k = b \div Payload
  <1>1. a \in Nat /\ BlockNum \in Nat \ {0} /\ Payload \in Nat \ {0}
    BY BlockType, ConstantTypes
  <1>2. PICK p \in Nat : p = a \div BlockNum
    BY <1>1, Division
  <1>3. PICK b \in 0 .. BlockNum - 1 : b = a % BlockNum
    BY <1>1, Division
  <1>4. a = p * BlockNum + b /\ b \in Nat
    BY <1>1, <1>2, <1>3, Division
  <1>5. p \in Partition
    <2> SUFFICES ASSUME total_p_num <= p
                 PROVE  FALSE
      BY ConstantTypes DEF Partition
    <2>1. total_p_num * BlockNum <= p * BlockNum
      BY TimesMonotone, ConstantTypes
    <2>2. total_p_num * BlockNum \in Nat /\ p * BlockNum \in Nat
      BY ConstantTypes
    <2>3. a <= total_p_num * BlockNum - 1
      BY DEF Block
    <2> QED BY <1>1, <1>4, <2>1, <2>2, <2>3
  <1>6. PICK k \in Nat : k = b \div Payload
    BY <1>1, <1>4, Division
  <1>7. PICK r \in 0 .. Payload - 1 : r = b % Payload
    BY <1>1, <1>4, Division
  <1>8. b = k * Payload + r
    BY <1>1, <1>4, <1>6, <1>7, Division
  <1>9. PICK z \in Nat : z = k * Payload
    BY <1>1
  <1>10. z <= b /\ b <= BlockNum - 1
    BY <1>1, <1>4, <1>8, <1>9
  <1>11. k * Payload \in 0 .. BlockNum - 1
    BY <1>1, <1>4, <1>9, <1>10
  <1> QED BY <1>2, <1>3, <1>4, <1>5, <1>6, <1>8, <1>11

\* Blocks of one packet are blocks of one partition.
LEMMA SamePacket ==
    ASSUME NEW p \in Partition, NEW k \in Nat, k * Payload \in 0 .. BlockNum - 1,
           NEW a \in Block, PacketStart(a) = p * BlockNum + k * Payload
    PROVE  \E r \in 0 .. Payload - 1 :
               /\ k * Payload + r \in 0 .. BlockNum - 1
               /\ a = p * BlockNum + (k * Payload + r)
  <1>1. PICK q \in Partition, l \in Nat, r \in 0 .. Payload - 1, b \in 0 .. BlockNum - 1 :
            /\ b = l * Payload + r /\ l * Payload \in 0 .. BlockNum - 1
            /\ a = q * BlockNum + b
    BY BlockParts
  <1>2. PacketStart(a) = q * BlockNum + l * Payload
    BY <1>1, SlotOfBlock
  <1>3. p \in Nat /\ q \in Nat
    BY ConstantTypes DEF Partition
  <1> PICK y \in 0 .. BlockNum - 1 : y = k * Payload
    OBVIOUS
  <1> PICK z \in 0 .. BlockNum - 1 : z = l * Payload
    BY <1>1
  <1>4. y = z
    <2>1. (p * BlockNum + y) % BlockNum = y /\ (q * BlockNum + z) % BlockNum = z
      BY <1>3, ModUnique, ConstantTypes
    <2>2. p * BlockNum + y = q * BlockNum + z
      BY <1>2
    <2> QED BY <2>1, <2>2
  <1>5. p * BlockNum = q * BlockNum
    <2>1. p * BlockNum \in Nat /\ q * BlockNum \in Nat
      BY <1>3, ConstantTypes
    <2> QED BY <1>2, <1>4, <2>1
  <1>6. k * Payload + r = b
    BY <1>1, <1>4
  <1> QED BY <1>1, <1>5, <1>6

\* A packet ends where it is full or the partition ends.
LEMMA LastOfPacket ==
    ASSUME NEW p \in Partition, NEW k \in Nat, NEW r \in 0 .. Payload - 1,
           NEW c \in 0 .. BlockNum - 1, c = k * Payload + r,
           r = Payload - 1 \/ c = BlockNum - 1,
           NEW b \in Block, PacketStart(b) = PacketStart(p * BlockNum + c)
    PROVE  b <= p * BlockNum + c
  <1> PICK z \in Nat : z = k * Payload
    BY ConstantTypes
  <1>1. z \in 0 .. BlockNum - 1
    BY ConstantTypes
  <1>2. PacketStart(b) = p * BlockNum + k * Payload
    BY SlotOfBlock
  <1>3. PICK s \in 0 .. Payload - 1 : /\ k * Payload + s \in 0 .. BlockNum - 1
                                      /\ b = p * BlockNum + (k * Payload + s)
    BY <1>1, <1>2, SamePacket
  <1> PICK x \in Nat : x = p * BlockNum
    BY ConstantTypes DEF Partition
  <1>4. b = x + (z + s) /\ z + s <= BlockNum - 1 /\ c = z + r
    BY <1>3
  <1>5. z + s <= c
    BY <1>4, ConstantTypes
  <1>6. z + s \in Int /\ c \in Int
    BY ConstantTypes
  <1> QED BY <1>4, <1>5, <1>6

\* Where readProp is after k whole packets and r frames of the next one.
LEMMA ReadingBounds ==
    ASSUME NEW k \in Nat, NEW r \in 0 .. Payload,
           k * Payload + k + r < BlockNum + packets_of(BlockNum)
    PROVE  /\ k < packets_of(BlockNum) /\ k * Payload \in 0 .. BlockNum - 1
           /\ r > 0 => k * Payload + r - 1 \in 0 .. BlockNum - 1
           /\ r = 0 => k * Payload + k + r + 1 < BlockNum + packets_of(BlockNum)
  <1>1. /\ packets_of(BlockNum) \in Nat /\ k * Payload \in Nat
        /\ k * Payload < BlockNum <=> k < packets_of(BlockNum)
    BY PacketsOf, ConstantTypes
  <1>2. /\ (k + 1) * Payload = k * Payload + Payload
        /\ (k + 1) * Payload < BlockNum <=> k + 1 < packets_of(BlockNum)
    BY PacketsOf, ConstantTypes
  <1>3. k < packets_of(BlockNum) /\ k * Payload \in 0 .. BlockNum - 1
    BY <1>1, ConstantTypes
  <1>4. ASSUME r > 0
        PROVE  k * Payload + r - 1 \in 0 .. BlockNum - 1
    BY <1>1, <1>2, <1>3, <1>4, ConstantTypes
  <1>5. ASSUME r = 0
        PROVE  k * Payload + k + r + 1 < BlockNum + packets_of(BlockNum)
    BY <1>1, <1>3, <1>5, ConstantTypes
  <1> QED BY <1>3, <1>4, <1>5

NextFrame(n) ==
    LET rd == rdProp[n] IN
    [node |-> n, addr |-> Schedule[n][rd.item] * BlockNum + rd.address,
     head |-> rd.frameId = 0,
     last |-> rd.frameId = Payload \/ rd.i + 1 = BlockNum + packets_of(BlockNum)]

\* The frame that readProp writes, and where it leaves readProp.
LEMMA ReadFrame ==
    ASSUME Typed, NEW n \in Node, Bounded(n), Reading(n), ReadProp(n),
           NEW f, f = NextFrame(n)
    PROVE  /\ f \in PacketFrame /\ f.node = n
           /\ vertexTrans' = [vertexTrans EXCEPT ![n] = Append(vertexTrans[n], f)]
           /\ At(f) = ReadPos(n) /\ After(f) = ReadPos(n)'
           /\ rdProp' \in [Node -> [item : Nat \ {0}, i : Nat, address : Nat,
                                    frameId : 0 .. Payload]]
           /\ Reading(n)' /\ rdProp'[n].item <= Len(Schedule[n]) + 1
           /\ \A m \in Node \ {n} : rdProp'[m] = rdProp[m]
  <1> DEFINE total == BlockNum + packets_of(BlockNum)
  <1> PICK rd : rd = rdProp[n]
    OBVIOUS
  <1>1. /\ rd \in [item : Nat \ {0}, i : Nat, address : Nat, frameId : 0 .. Payload]
        /\ rd.item <= Len(Schedule[n]) /\ Schedule[n] \in Seq(Partition)
    BY ConstantTypes DEF Typed, ReadProp
  <1> PICK p \in Partition : p = Schedule[n][rd.item]
    BY <1>1
  <1>2. PICK k \in Nat :
            /\ rd.i = k * Payload + k + rd.frameId
            /\ rd.i < total
            /\ rd.address = k * Payload + (IF rd.frameId = 0 THEN 0 ELSE rd.frameId - 1)
    BY DEF Reading
  <1> PICK r \in 0 .. Payload : r = rd.frameId
    BY <1>1
  <1>3. total \in Nat
    <2>1. packets_of(BlockNum) \in Nat
      BY PacketsOf
    <2> QED BY <2>1, ConstantTypes
  <1> HIDE DEF total
  <1>4. PICK z \in Nat : z = k * Payload /\ (k + 1) * Payload = z + Payload
    BY ConstantTypes
  <1>5. PICK start \in Nat : start = p * BlockNum
    BY ConstantTypes DEF Partition
  <1>6. rd.address = z + (IF r = 0 THEN 0 ELSE r - 1) /\ rd.i = z + k + r /\ rd.i < total
    BY <1>2, <1>4
  <1>7. /\ z \in 0 .. BlockNum - 1
        /\ r > 0 => z + r - 1 \in 0 .. BlockNum - 1
        /\ r = 0 => rd.i + 1 < total
        /\ r < Payload /\ rd.i + 1 # total => z + r \in 0 .. BlockNum - 1
    <2>1. ASSUME NEW q \in 0 .. Payload, z + k + q < total
          PROVE  /\ z \in 0 .. BlockNum - 1
                 /\ q > 0 => z + q - 1 \in 0 .. BlockNum - 1
                 /\ q = 0 => z + k + q + 1 < total
      BY <1>4, <2>1, ReadingBounds DEF total
    <2>2. /\ z \in 0 .. BlockNum - 1
          /\ r > 0 => z + r - 1 \in 0 .. BlockNum - 1
          /\ r = 0 => rd.i + 1 < total
      BY <1>6, <2>1
    <2>3. ASSUME r < Payload, rd.i + 1 # total
          PROVE  z + r \in 0 .. BlockNum - 1
      <3>1. r + 1 \in 0 .. Payload
        BY <2>3, ConstantTypes
      <3>2. z + k + (r + 1) < total
        BY <1>3, <1>6, <2>3
      <3>3. z + (r + 1) - 1 \in 0 .. BlockNum - 1
        BY <2>1, <3>1, <3>2
      <3> QED BY <3>3
    <2> QED BY <2>2, <2>3
  <1>8. PICK last \in BOOLEAN : last <=> r = Payload \/ rd.i + 1 = total
    OBVIOUS
  <1>9. PICK head \in BOOLEAN : head <=> r = 0
    OBVIOUS
  <1> PICK new : new = IF rd.i + 1 = total
               THEN [item |-> rd.item + 1, i |-> 0, address |-> 0, frameId |-> 0]
               ELSE [item |-> rd.item, i |-> rd.i + 1,
                     address |-> IF r = 0 THEN rd.address ELSE rd.address + 1,
                     frameId |-> IF r = Payload \/ rd.i + 1 = total
                                 THEN 0 ELSE r + 1]
    OBVIOUS
  <1>10. /\ f = [node |-> n, addr |-> start + rd.address, head |-> head, last |-> last]
         /\ vertexTrans' = [vertexTrans EXCEPT ![n] = Append(vertexTrans[n], f)]
         /\ rdProp' = [rdProp EXCEPT ![n] = new] /\ rdProp'[n] = new
         /\ \A m \in Node \ {n} : rdProp'[m] = rdProp[m]
    <2>1. f = [node |-> n, addr |-> start + rd.address, head |-> head, last |-> last]
      BY <1>5, <1>8, <1>9 DEF NextFrame, total
    <2>2. vertexTrans' = [vertexTrans EXCEPT ![n] = Append(vertexTrans[n], f)]
      BY DEF ReadProp, NextFrame, Push, total
    <2>3. rdProp' = [rdProp EXCEPT ![n] = new]
      BY DEF ReadProp, total
    <2> QED BY <2>1, <2>2, <2>3 DEF Typed
  <1>11. /\ f.addr = start + rd.address /\ f.node = n /\ f.head = head /\ f.last = last
         /\ head => ~last
    <2>1. f = [node |-> n, addr |-> start + rd.address, head |-> head, last |-> last]
      BY <1>10
    <2>2. f.addr = start + rd.address /\ f.node = n
      BY <2>1
    <2>3. f.head = head /\ f.last = last
      BY <2>1
    <2>4. r = 0 => ~(r = Payload \/ rd.i + 1 = total)
      BY <1>3, <1>7, ConstantTypes
    <2>5. head => ~last
      BY <1>8, <1>9, <2>4, Zenon
    <2> QED BY <2>2, <2>3, <2>5
  <1>12. /\ f.addr \in Block
         /\ Slot(f.addr) = IF r = 0 THEN 0 ELSE r - 1
    <2>1. rd.address \in 0 .. BlockNum - 1
      BY <1>6, <1>7
    <2>2. (IF r = 0 THEN 0 ELSE r - 1) \in 0 .. Payload - 1
      BY ConstantTypes
    <2> QED BY <1>4, <1>5, <1>6, <1>11, <2>1, <2>2, SlotOfBlock
  <1>13. ~head /\ ~last =>
             /\ f.addr + 1 = start + (z + r)
             /\ f.addr + 1 \in Block /\ Slot(f.addr + 1) = Slot(f.addr) + 1
    <2> SUFFICES ASSUME ~head, ~last
                 PROVE  /\ f.addr + 1 = start + (z + r)
                        /\ f.addr + 1 \in Block /\ Slot(f.addr + 1) = Slot(f.addr) + 1
      OBVIOUS
    <2>1. r > 0 /\ r < Payload /\ r \in 0 .. Payload - 1 /\ rd.i + 1 # total
      BY <1>8, <1>9, ConstantTypes
    <2>2. f.addr + 1 = start + (z + r)
      BY <1>6, <1>11, <2>1
    <2>3. z + r \in 0 .. BlockNum - 1
      BY <1>7, <2>1
    <2>4. start + (z + r) \in Block /\ Slot(start + (z + r)) = r
      BY <1>4, <1>5, <2>1, <2>3, SlotOfBlock
    <2> QED BY <1>12, <2>1, <2>2, <2>4
  <1>18. ASSUME last, NEW b \in Block, PacketStart(b) = PacketStart(f.addr)
         PROVE  b <= f.addr
    <2>1. r > 0 /\ r \in 1 .. Payload
      BY <1>9, <1>11, <1>18
    <2>6. z + r - 1 \in 0 .. BlockNum - 1 /\ f.addr = start + rd.address
          /\ rd.address = z + r - 1
      BY <1>6, <1>7, <1>11, <2>1
    <2>2. /\ r - 1 \in 0 .. Payload - 1 /\ z + (r - 1) \in 0 .. BlockNum - 1
          /\ f.addr = start + (z + (r - 1))
      <3>1. r - 1 \in 0 .. Payload - 1
        BY <2>1, ConstantTypes
      <3>2. z + (r - 1) = z + r - 1
        BY <2>1, ConstantTypes
      <3> QED BY <2>6, <3>1, <3>2
    <2>3. r - 1 = Payload - 1 \/ z + (r - 1) = BlockNum - 1
      <3>1. CASE r = Payload
        BY <3>1, ConstantTypes
      <3>2. CASE r # Payload
        <4>1. rd.i + 1 = total
          BY <1>8, <1>18, <3>2
        <4> PICK m \in Nat : m = packets_of(BlockNum) /\ k < m
          <5>1. packets_of(BlockNum) \in Nat /\ k < packets_of(BlockNum)
            BY <1>4, <1>7, PacketsOf, ConstantTypes
          <5> QED BY <5>1
        <4>3. z + k + r + 1 = BlockNum + m
          BY <1>6, <4>1 DEF total
        <4>4. z + (r - 1) <= BlockNum - 1 /\ k + 1 <= m /\ r \in Nat /\ BlockNum \in Nat
          BY <2>2, ConstantTypes
        <4> QED BY <4>3, <4>4
      <3> QED BY <3>1, <3>2
    <2>4. z + (r - 1) = k * Payload + (r - 1)
      BY <1>4
    <2>5. b <= p * BlockNum + (z + (r - 1))
      BY <1>5, <1>18, <2>2, <2>3, <2>4, LastOfPacket
    <2> QED BY <1>5, <2>2, <2>5
  <1>14. f \in PacketFrame
    <2>1. f \in Frame
      BY <1>10, <1>11, <1>12 DEF Frame
    <2> QED BY <1>9, <1>11, <1>12, <1>13, <1>18, <2>1 DEF PacketFrame
  <1>15. At(f) = ReadPos(n)
    BY <1>5, <1>9, <1>11 DEF At, ReadPos
  <1>16. CASE rd.i + 1 = total
    <2>1. new = [item |-> rd.item + 1, i |-> 0, address |-> 0, frameId |-> 0]
      BY <1>16
    <2>2. new \in [item : Nat \ {0}, i : Nat, address : Nat, frameId : 0 .. Payload]
      <3>1. rd.item + 1 \in Nat \ {0} /\ 0 \in Nat /\ 0 \in 0 .. Payload
        BY <1>1, ConstantTypes
      <3> QED BY <2>1, <3>1
    <2>3. new.item = rd.item + 1 /\ new.i = 0 /\ new.address = 0 /\ new.frameId = 0
      BY <2>1
    <2>4. Reading(n)'
      <3>1. 0 \in Nat /\ 0 * Payload + 0 + 0 = 0 /\ 0 * Payload + 0 = 0
        BY ConstantTypes
      <3>2. 0 < total
        BY <1>1, <1>3, <1>6, <1>16
      <3> QED BY <1>10, <2>3, <3>1, <3>2, ZenonT(40) DEF Reading, total
    <2>5. After(f) = ReadPos(n)'
      BY <1>8, <1>10, <1>11, <1>16, <2>3 DEF After, ReadPos
    <2>6. rdProp' \in [Node -> [item : Nat \ {0}, i : Nat, address : Nat,
                                frameId : 0 .. Payload]]
      BY <1>10, <2>2 DEF Typed
    <2>7. rdProp'[n].item <= Len(Schedule[n]) + 1
      <3>1. rd.item \in Nat /\ rd.item <= Len(Schedule[n]) /\ Len(Schedule[n]) \in Nat
        BY <1>1
      <3> QED BY <1>10, <2>3, <3>1
    <2> QED BY <1>10, <1>11, <1>14, <1>15, <2>4, <2>5, <2>6, <2>7
  <1>17. CASE rd.i + 1 # total
    <2>1. new = [item |-> rd.item, i |-> rd.i + 1,
                 address |-> IF r = 0 THEN rd.address ELSE rd.address + 1,
                 frameId |-> IF r = Payload THEN 0 ELSE r + 1]
      BY <1>17
    <2>2. PICK frameId \in 0 .. Payload : frameId = IF r = Payload THEN 0 ELSE r + 1
      BY ConstantTypes
    <2>3. PICK address \in Nat : address = IF r = 0 THEN rd.address ELSE rd.address + 1
      BY <1>1
    <2>4. /\ new \in [item : Nat \ {0}, i : Nat, address : Nat, frameId : 0 .. Payload]
          /\ new.item = rd.item /\ new.i = rd.i + 1
          /\ new.address = address /\ new.frameId = frameId
      BY <1>1, <2>1, <2>2, <2>3
    <2>5. PICK l \in Nat :
              /\ new.i = l * Payload + l + frameId
              /\ address = l * Payload + (IF frameId = 0 THEN 0 ELSE frameId - 1)
      <3>1. CASE r = Payload
        <4>1. new.i = (z + Payload) + (k + 1) + frameId /\ frameId = 0
              /\ address = (z + Payload) + 0
          BY <1>6, <2>2, <2>3, <2>4, <3>1, ConstantTypes
        <4> QED BY <1>4, <4>1
      <3>2. CASE r # Payload
        <4>1. /\ new.i = z + k + frameId /\ frameId # 0
              /\ address = z + (frameId - 1)
          BY <1>6, <2>2, <2>3, <2>4, <3>2
        <4> QED BY <1>4, <4>1
      <3> QED BY <3>1, <3>2
    <2>6. new.i < total /\ ~(new.item > Len(Schedule[n]))
      <3>1. rd.i \in Nat /\ rd.item \in Nat /\ rd.item <= Len(Schedule[n])
        BY <1>1
      <3>2. new.i < total
        BY <1>3, <1>6, <1>17, <2>4, <3>1
      <3>3. Len(Schedule[n]) \in Nat
        BY <1>1
      <3> QED BY <2>4, <3>1, <3>2, <3>3
    <2>7. Reading(n)'
      <3>1. /\ rdProp'[n] = new /\ new.frameId = frameId /\ new.address = address
        BY <1>10, <2>4
      <3> QED BY <2>5, <2>6, <3>1 DEF Reading, total
    <2>8. After(f) = ReadPos(n)'
      <3>1. ReadPos(n)' = IF frameId = 0 THEN Boundary ELSE start + address
        BY <1>5, <1>10, <2>4 DEF ReadPos
      <3>2. CASE last
        BY <1>8, <1>11, <1>17, <2>2, <3>1, <3>2 DEF After
      <3>3. CASE ~last
        <4>1. frameId # 0
          BY <1>8, <2>2, <3>3
        <4>2. start + address = IF head THEN f.addr ELSE f.addr + 1
          BY <1>1, <1>9, <1>11, <2>3
        <4> QED BY <1>11, <3>1, <3>3, <4>1, <4>2 DEF After
      <3> QED BY <3>2, <3>3
    <2>9. rdProp' \in [Node -> [item : Nat \ {0}, i : Nat, address : Nat,
                                frameId : 0 .. Payload]]
      BY <1>10, <2>4 DEF Typed
    <2>10. rdProp'[n].item <= Len(Schedule[n]) + 1
      BY <1>1, <1>10, <2>4
    <2> QED BY <1>10, <1>11, <1>14, <1>15, <2>7, <2>8, <2>9, <2>10
  <1> QED BY <1>16, <1>17

LEMMA ReadFraming ==
    ASSUME Typed, Framing, NEW n \in Node, Bounded(n), Reading(n), ReadProp(n)
    PROVE  Framing'
  <1>1. PICK own \in [Node -> Position], mid \in [Node -> Position],
             gap \in [Node -> Position] :
            \A m \in Node : FramedAt(m, own, mid, gap)
    BY DEF Framing
  <1> PICK f : f = NextFrame(n)
    OBVIOUS
  <1>2. /\ f \in PacketFrame
        /\ vertexTrans' = [vertexTrans EXCEPT ![n] = Append(vertexTrans[n], f)]
        /\ At(f) = ReadPos(n) /\ After(f) = ReadPos(n)'
        /\ \A m \in Node \ {n} : rdProp'[m] = rdProp[m]
    BY ReadFrame
  <1>3. Flow(vertexTrans[n], own[n], At(f)) /\ vertexTrans[n] \in Seq(PacketFrame)
    BY <1>1, <1>2 DEF FramedAt, Typed
  <1>4. Flow(Append(vertexTrans[n], f), own[n], After(f))
    BY <1>2, <1>3, FlowAppend
  <1>5. UNCHANGED <<currentState, wire, net_in, vertexUpdate, wrProp>>
    BY DEF ReadProp, transVars, netVars, writeVars
  <1>6. \A m \in Node : /\ WritePos(m)' = WritePos(m)
                        /\ OutPos(m, own, mid)' = OutPos(m, own, mid)
                        /\ m # n => ReadPos(m)' = ReadPos(m)
    BY <1>2, <1>5 DEF ReadPos, WritePos, OutPos
  <1>7. ASSUME NEW m \in Node
        PROVE  FramedAt(m, own, mid, gap)'
    <2>1. FramedAt(m, own, mid, gap)
      BY <1>1
    <2>2. Flow(vertexTrans[m], own[m], ReadPos(m))'
      <3>1. CASE m = n
        <4>1. vertexTrans'[n] = Append(vertexTrans[n], f)
          BY <1>2 DEF Typed
        <4> QED BY <1>2, <1>4, <3>1, <4>1
      <3>2. CASE m # n
        <4>1. vertexTrans'[m] = vertexTrans[m]
          BY <1>2, <3>2 DEF Typed
        <4> QED BY <1>6, <2>1, <3>2, <4>1 DEF FramedAt
      <3> QED BY <3>1, <3>2
    <2> QED BY <1>5, <1>6, <2>1, <2>2 DEF FramedAt
  <1> QED BY <1>7 DEF Framing

-----------------------------------------------------------------------------
(* writeProp: a header is where it expects one, and every block at its place. *)

LEMMA WriteStep ==
    ASSUME Typed, Framing, NEW n \in Node, Writing(n), WriteProp(n)
    PROVE  /\ Framing' /\ Writing(n)'
           /\ vertexUpdate' \in [Node -> Seq(PacketFrame)]
           /\ wrProp' \in [Node -> [state : {"firstFrame", "remainFrame"},
                                    address : Block, offset : 0 .. Payload,
                                    process_packet_num : 0 .. packet_num]]
           /\ \A m \in Node \ {n} : wrProp'[m] = wrProp[m]
           /\ Len(vertexUpdate'[n]) < Len(vertexUpdate[n])
           /\ \/ vertexProp' = vertexProp
              \/ \E a \in Block : vertexProp' = [vertexProp EXCEPT ![n][a] = a]
  <1>1. PICK own \in [Node -> Position], mid \in [Node -> Position],
             gap \in [Node -> Position] :
            \A m \in Node : FramedAt(m, own, mid, gap)
    BY DEF Framing
  <1> PICK f : f = Head(vertexUpdate[n])
    OBVIOUS
  <1> PICK wr : wr = wrProp[n]
    OBVIOUS
  <1>2. /\ wr \in [state : {"firstFrame", "remainFrame"}, address : Block,
                   offset : 0 .. Payload, process_packet_num : 0 .. packet_num]
        /\ wr.process_packet_num < packet_num
    BY DEF Typed, WriteProp, WritePropFirst, WritePropRemain, WritePropRuns
  <1>13. wr.address \in Nat /\ wr.offset \in Nat
    <2>1. wr.address \in Block /\ wr.offset \in 0 .. Payload
      BY <1>2
    <2>2. wr.address \in Nat
      BY <2>1, BlockType
    <2>3. wr.offset \in Nat
      BY <2>1, ConstantTypes
    <2> QED BY <2>2, <2>3
  <1>3. /\ vertexUpdate[n] # <<>> /\ vertexUpdate[n] \in Seq(PacketFrame)
        /\ vertexUpdate' = [vertexUpdate EXCEPT ![n] = Tail(vertexUpdate[n])]
        /\ UNCHANGED <<rdProp, vertexTrans, currentState, wire, net_in>>
    BY DEF Typed, WriteProp, WritePropFirst, WritePropRemain, WritePropRuns, Pop,
           readVars, transVars, netVars
  <1>4. Flow(vertexUpdate[n], WritePos(n), mid[n])
    BY <1>1 DEF FramedAt
  <1>5. /\ f \in PacketFrame /\ Tail(vertexUpdate[n]) \in Seq(PacketFrame)
        /\ At(f) = WritePos(n) /\ Flow(Tail(vertexUpdate[n]), After(f), mid[n])
    BY <1>3, <1>4, FlowHead, FlowTail
  <1>6. /\ vertexUpdate' \in [Node -> Seq(PacketFrame)]
        /\ vertexUpdate'[n] = Tail(vertexUpdate[n])
        /\ Len(vertexUpdate'[n]) < Len(vertexUpdate[n])
    BY <1>3, <1>5 DEF Typed
  <1>7. PICK new \in [state : {"firstFrame", "remainFrame"}, address : Block,
                      offset : 0 .. Payload, process_packet_num : 0 .. packet_num] :
            /\ wrProp' = [wrProp EXCEPT ![n] = new]
            /\ After(f) = IF new.state = "firstFrame" THEN Boundary
                          ELSE new.address + new.offset
            /\ new.state = "remainFrame" =>
                  /\ Slot(new.address) = 0 /\ new.address + new.offset \in Block
                  /\ Slot(new.address + new.offset) = new.offset
            /\ \/ vertexProp' = vertexProp
               \/ \E a \in Block : vertexProp' = [vertexProp EXCEPT ![n][a] = a]
    <2>1. CASE WritePropFirst(n)
      <3>1. WritePos(n) = Boundary
        BY <2>1 DEF WritePropFirst, WritePos
      <3>2. f.head /\ ~f.last /\ After(f) = f.addr /\ f.addr \in Block /\ f.addr \in Nat
            /\ Slot(f.addr) = 0
        BY <1>5, <3>1, FramePositions
      <3>3. PICK new : new = [wr EXCEPT !.state = "remainFrame",
                                        !.address = f.addr, !.offset = 0]
        OBVIOUS
      <3>4. new \in [state : {"firstFrame", "remainFrame"}, address : Block,
                     offset : 0 .. Payload, process_packet_num : 0 .. packet_num]
        <4>1. 0 \in 0 .. Payload
          BY ConstantTypes
        <4> QED BY <1>2, <3>2, <3>3, <4>1
      <3>5. wrProp' = [wrProp EXCEPT ![n] = new] /\ vertexProp' = vertexProp
        <4>1. wrProp' = [wrProp EXCEPT ![n].state = "remainFrame",
                                       ![n].address = f.addr, ![n].offset = 0]
          BY <2>1 DEF WritePropFirst
        <4> QED BY <2>1, <3>3, <4>1 DEF WritePropFirst, Typed
      <3>6. /\ new.state = "remainFrame" /\ new.address = f.addr /\ new.offset = 0
            /\ f.addr + 0 = f.addr
        BY <1>2, <3>2, <3>3
      <3> QED BY <3>2, <3>4, <3>5, <3>6
    <2>2. CASE WritePropRemain(n)
      <3>1. /\ WritePos(n) = wr.address + wr.offset
            /\ Slot(wr.address) = 0 /\ wr.address + wr.offset \in Block
            /\ Slot(wr.address + wr.offset) = wr.offset
        BY <2>2 DEF WritePropRemain, WritePos, Writing
      <3>2. /\ ~f.head /\ f.addr = wr.address + wr.offset
            /\ f.last <=> After(f) = Boundary
            /\ ~f.last => /\ After(f) = f.addr + 1
                          /\ f.addr + 1 \in Block
                          /\ Slot(f.addr + 1) = wr.offset + 1
        <4>1. WritePos(n) # Boundary
          BY <3>1, BlockType DEF Boundary
        <4>2. ~f.head /\ f.addr = wr.address + wr.offset
          BY <1>5, <3>1, <4>1, FramePositions
        <4>3. ~f.last => /\ f.addr + 1 \in Block
                         /\ Slot(f.addr + 1) = Slot(f.addr) + 1
                         /\ After(f) = f.addr + 1
          BY <1>5, <4>2, FramePositions DEF PacketFrame
        <4> QED BY <1>5, <3>1, <4>2, <4>3, FramePositions
      <3>3. PICK new : new = [state |-> IF f.last THEN "firstFrame" ELSE "remainFrame",
                    address |-> wr.address, offset |-> wr.offset + 1,
                    process_packet_num |->
                        wr.process_packet_num + (IF f.last THEN 1 ELSE 0)]
        OBVIOUS
      <3>4. new \in [state : {"firstFrame", "remainFrame"}, address : Block,
                     offset : 0 .. Payload, process_packet_num : 0 .. packet_num]
        <4>1. wr.offset + 1 \in 0 .. Payload
          <5>1. wr.address + wr.offset \in Int
            BY <1>13
          <5>2. wr.offset \in 0 .. Payload - 1
            BY <3>1, <5>1, SlotType
          <5> QED BY <5>2, ConstantTypes
        <4>2. wr.process_packet_num + (IF f.last THEN 1 ELSE 0) \in 0 .. packet_num
          <5>1. wr.process_packet_num \in 0 .. packet_num
            BY <1>2
          <5>2. packet_num \in Nat
            BY PacketsOf, ConstantTypes DEF packet_num
          <5> QED BY <1>2, <5>1, <5>2
        <4> QED BY <1>2, <3>3, <4>1, <4>2
      <3>5. /\ wrProp' = [wrProp EXCEPT ![n] = new]
            /\ vertexProp' = [vertexProp EXCEPT ![n][f.addr] = f.addr]
        BY <2>2, <3>2, <3>3 DEF WritePropRemain
      <3>6. /\ new.state = IF f.last THEN "firstFrame" ELSE "remainFrame"
            /\ new.address = wr.address /\ new.offset = wr.offset + 1
        BY <3>3
      <3>7. wr.address + (wr.offset + 1) = f.addr + 1 /\ f.addr \in Block
        BY <1>13, <3>1, <3>2
      <3>8. /\ After(f) = IF new.state = "firstFrame" THEN Boundary
                          ELSE new.address + new.offset
            /\ new.state = "remainFrame" =>
                  /\ Slot(new.address) = 0 /\ new.address + new.offset \in Block
                  /\ Slot(new.address + new.offset) = new.offset
        BY <3>1, <3>2, <3>6, <3>7
      <3> QED BY <3>4, <3>5, <3>7, <3>8
    <2> QED BY <2>1, <2>2 DEF WriteProp
  <1>8. wrProp'[n] = new /\ \A m \in Node \ {n} : wrProp'[m] = wrProp[m]
    BY <1>7 DEF Typed
  <1>9. /\ After(f) = WritePos(n)' /\ Writing(n)'
        /\ \A m \in Node \ {n} : WritePos(m)' = WritePos(m)
    BY <1>7, <1>8 DEF WritePos, Writing
  <1>10. \A m \in Node : ReadPos(m)' = ReadPos(m)
                         /\ OutPos(m, own, mid)' = OutPos(m, own, mid)
    BY <1>3 DEF ReadPos, OutPos
  <1>11. ASSUME NEW m \in Node
         PROVE  FramedAt(m, own, mid, gap)'
    <2>1. FramedAt(m, own, mid, gap)
      BY <1>1
    <2>2. Flow(vertexUpdate[m], WritePos(m), mid[m])'
      <3>1. CASE m = n
        BY <1>5, <1>6, <1>9, <3>1
      <3>2. CASE m # n
        <4>1. vertexUpdate'[m] = vertexUpdate[m] /\ WritePos(m)' = WritePos(m)
          BY <1>3, <1>9, <3>2 DEF Typed
        <4> QED BY <2>1, <4>1 DEF FramedAt
      <3> QED BY <3>1, <3>2
    <2> QED BY <1>3, <1>10, <2>1, <2>2 DEF FramedAt
  <1>12. wrProp' \in [Node -> [state : {"firstFrame", "remainFrame"},
                               address : Block, offset : 0 .. Payload,
                               process_packet_num : 0 .. packet_num]]
    BY <1>7 DEF Typed
  <1> QED BY <1>6, <1>7, <1>8, <1>9, <1>11, <1>12 DEF Framing

-----------------------------------------------------------------------------
(* Counting frames, and headers among them. *)

\* Appending a frame adds one to those of S only if it is one.
LEMMA MarkedPush ==
    ASSUME NEW q \in [Node -> Seq(PacketFrame)], NEW m \in Node, NEW f \in PacketFrame,
           NEW S, IsFiniteSet(Marked(q, S))
    PROVE  /\ IsFiniteSet(Marked(Push(q, m, f), S))
           /\ <<m, f>> \in S =>
                  Cardinality(Marked(Push(q, m, f), S)) = Cardinality(Marked(q, S)) + 1
           /\ <<m, f>> \notin S =>
                  Cardinality(Marked(Push(q, m, f), S)) = Cardinality(Marked(q, S))
  <1> PICK q1 : q1 = Push(q, m, f)
    OBVIOUS
  <1>0. q1 = [q EXCEPT ![m] = Append(q[m], f)]
    BY DEF Push
  <1> DEFINE w == q[m]
             l == <<m, Len(w) + 1>>
  <1>1. /\ w \in Seq(PacketFrame) /\ Len(w) \in Nat
        /\ Len(Append(w, f)) = Len(w) + 1
        /\ \A i \in 1 .. Len(w) : Append(w, f)[i] = w[i]
        /\ Append(w, f)[Len(w) + 1] = f
        /\ q1 \in [Node -> Seq(PacketFrame)]
        /\ q1[m] = Append(w, f) /\ \A k \in Node \ {m} : q1[k] = q[k]
    BY <1>0
  <1>2. l \in Node \X Nat /\ l \notin Marked(q, S)
    BY <1>1 DEF Marked
  <1>3. ASSUME NEW k \in Node, NEW i \in Nat
        PROVE  i \in DOMAIN q1[k] /\ <<k, q1[k][i]>> \in S
                   <=> \/ i \in DOMAIN q[k] /\ <<k, q[k][i]>> \in S
                       \/ k = m /\ i = Len(w) + 1 /\ <<m, f>> \in S
    <2>1. CASE k # m
      BY <1>1, <2>1
    <2>2. CASE k = m
      <3>1. DOMAIN q1[m] = 1 .. Len(w) + 1 /\ DOMAIN q[m] = 1 .. Len(w)
        BY <1>1
      <3>2. CASE i = Len(w) + 1
        BY <1>1, <2>2, <3>1, <3>2, SMTT(30)
      <3>3. CASE i # Len(w) + 1
        <4>1. i \in DOMAIN q1[m] <=> i \in DOMAIN q[m]
          BY <1>1, <3>1, <3>3
        <4>2. i \in DOMAIN q[m] => q1[m][i] = q[m][i]
          BY <1>1, <3>1
        <4> QED BY <2>2, <3>3, <4>1, <4>2
      <3> QED BY <3>2, <3>3
    <2> QED BY <2>1, <2>2
  <1>4. CASE <<m, f>> \in S
    <2>1. Marked(q1, S) = Marked(q, S) \cup {l}
      BY <1>2, <1>3, <1>4 DEF Marked
    <2>2. /\ IsFiniteSet(Marked(q, S) \cup {l})
          /\ Cardinality(Marked(q, S) \cup {l}) = Cardinality(Marked(q, S)) + 1
      <3> HIDE DEF l
      <3> QED BY <1>2, FS_AddElement
    <2> QED BY <1>4, <2>1, <2>2
  <1>5. CASE <<m, f>> \notin S
    <2>1. Marked(q1, S) = Marked(q, S)
      BY <1>3, <1>5 DEF Marked
    <2> QED BY <1>5, <2>1
  <1> QED BY <1>4, <1>5

\* The first j frames of a FIFO are cut off.
Cut(q, m, j) == [q EXCEPT ![m] = SubSeq(q[m], j + 1, Len(q[m]))]

\* Cutting off frames of which only the first may be of S takes at most one.
LEMMA MarkedCut ==
    ASSUME NEW q \in [Node -> Seq(PacketFrame)], NEW m \in Node, NEW j \in 1 .. Len(q[m]),
           NEW S, IsFiniteSet(Marked(q, S)),
           \A i \in 2 .. j : <<m, q[m][i]>> \notin S
    PROVE  /\ IsFiniteSet(Marked(Cut(q, m, j), S))
           /\ <<m, q[m][1]>> \in S =>
                  Cardinality(Marked(Cut(q, m, j), S)) + 1 = Cardinality(Marked(q, S))
           /\ <<m, q[m][1]>> \notin S =>
                  Cardinality(Marked(Cut(q, m, j), S)) = Cardinality(Marked(q, S))
  <1> PICK q1 : q1 = Cut(q, m, j)
    OBVIOUS
  <1>0. q1 = [q EXCEPT ![m] = SubSeq(q[m], j + 1, Len(q[m]))]
    BY DEF Cut
  <1> DEFINE w == q[m]
             s == SubSeq(w, j + 1, Len(w))
             U == Marked(q1, S)
             T == Marked(q, S) \ {<<m, 1>>}
             h == [l \in U |-> IF l[1] = m THEN <<m, l[2] + j>> ELSE l]
  <1>1. /\ w \in Seq(PacketFrame) /\ Len(w) \in Nat /\ Len(w) - j \in Nat
        /\ s \in Seq(PacketFrame) /\ Len(s) = Len(w) - j
        /\ \A i \in 1 .. Len(w) - j : s[i] = w[i + j]
    OBVIOUS
  <1>2. q1[m] = s /\ \A k \in Node \ {m} : q1[k] = q[k]
    BY <1>0, <1>1
  <1> HIDE DEF s
  <1>3. ASSUME NEW l \in U
        PROVE  /\ h[l] \in T
               /\ l[1] \in Node /\ l[2] \in Nat /\ l = <<l[1], l[2]>>
               /\ h[l] = IF l[1] = m THEN <<m, l[2] + j>> ELSE <<l[1], l[2]>>
    <2>1. /\ l[1] \in Node /\ l[2] \in Nat /\ l = <<l[1], l[2]>>
          /\ l[2] \in DOMAIN q1[l[1]]
          /\ <<l[1], q1[l[1]][l[2]]>> \in S
      BY DEF Marked
    <2> PICK k \in Node : k = l[1]
      BY <2>1
    <2> PICK i \in Nat : i = l[2]
      BY <2>1
    <2>2. CASE k = m
      <3>1. i \in 1 .. Len(w) - j /\ q1[k][i] = w[i + j]
        BY <1>1, <1>2, <2>1, <2>2, SMTT(30)
      <3>2. i + j \in DOMAIN w /\ i + j \in Nat /\ i + j # 1
        BY <1>1, <3>1
      <3>3. h[l] = <<m, i + j>>
        BY <2>2
      <3>4. <<m, i + j>> \in Marked(q, S)
        BY <2>1, <2>2, <3>1, <3>2 DEF Marked
      <3> QED BY <2>1, <2>2, <3>2, <3>3, <3>4
    <2>3. CASE k # m
      <3>1. h[l] = l
        BY <2>3
      <3>2. l \in Marked(q, S)
        BY <1>2, <2>1, <2>3 DEF Marked
      <3>3. l # <<m, 1>>
        BY <2>1, <2>3
      <3> QED BY <2>1, <2>3, <3>1, <3>2, <3>3
    <2> QED BY <2>2, <2>3
  <1>4. ASSUME NEW l1 \in U, NEW l2 \in U, h[l1] = h[l2]
        PROVE  l1 = l2
    <2>1. j \in Nat
      BY <1>1
    <2>2. /\ h[l1] = IF l1[1] = m THEN <<m, l1[2] + j>> ELSE <<l1[1], l1[2]>>
          /\ h[l2] = IF l2[1] = m THEN <<m, l2[2] + j>> ELSE <<l2[1], l2[2]>>
          /\ l1[2] \in Nat /\ l2[2] \in Nat
          /\ l1 = <<l1[1], l1[2]>> /\ l2 = <<l2[1], l2[2]>>
      BY <1>3
    <2> HIDE DEF h, U
    <2>3. CASE l1[1] = m /\ l2[1] = m
      <3>1. <<m, l1[2] + j>> = <<m, l2[2] + j>>
        BY <1>4, <2>2, <2>3
      <3>2. l1[2] + j = l2[2] + j
        BY <3>1
      <3>3. l1[2] = l2[2]
        BY <2>1, <2>2, <3>2
      <3>4. l1 = <<m, l1[2]>> /\ l2 = <<m, l2[2]>>
        BY <2>2, <2>3
      <3> QED BY <3>3, <3>4
    <2>4. CASE l1[1] # m /\ l2[1] # m
      BY <1>4, <2>2, <2>4
    <2>5. CASE l1[1] = m /\ l2[1] # m
      <3>1. <<m, l1[2] + j>> = <<l2[1], l2[2]>>
        BY <1>4, <2>2, <2>5
      <3> QED BY <2>5, <3>1
    <2>6. CASE l1[1] # m /\ l2[1] = m
      <3>1. <<l1[1], l1[2]>> = <<m, l2[2] + j>>
        BY <1>4, <2>2, <2>6
      <3> QED BY <2>6, <3>1
    <2> QED BY <2>3, <2>4, <2>5, <2>6
  <1>5. h \in Injection(U, T)
    BY <1>3, <1>4 DEF Injection, IsInjective
  <1>6. ASSUME NEW l \in T
        PROVE  \E o \in U : h[o] = l
    <2>1. /\ l[1] \in Node /\ l[2] \in Nat /\ l = <<l[1], l[2]>>
          /\ l[2] \in DOMAIN q[l[1]]
          /\ <<l[1], q[l[1]][l[2]]>> \in S /\ l # <<m, 1>>
      BY DEF Marked
    <2> PICK k \in Node : k = l[1]
      BY <2>1
    <2> PICK i \in Nat : i = l[2]
      BY <2>1
    <2>2. CASE k = m
      <3>1. i \in 1 .. Len(w) /\ i # 1 /\ <<m, w[i]>> \in S
        BY <1>1, <2>1, <2>2
      <3>2. i \notin 2 .. j
        BY <3>1
      <3>3. i - j \in 1 .. Len(w) - j /\ (i - j) + j = i
        BY <1>1, <3>1, <3>2
      <3>4. s[i - j] = w[i] /\ i - j \in DOMAIN s /\ i - j \in Nat
        BY <1>1, <3>3
      <3> PICK o : o = <<m, i - j>>
        OBVIOUS
      <3>5. o \in U /\ o[1] = m /\ o[2] = i - j
        BY <1>2, <3>1, <3>4 DEF Marked
      <3>6. h[o] = <<m, (i - j) + j>>
        BY <3>5
      <3>7. h[o] = l
        BY <2>1, <2>2, <3>3, <3>6
      <3> QED BY <3>5, <3>7
    <2>3. CASE k # m
      <3>1. l \in U
        BY <1>2, <2>1, <2>3 DEF Marked
      <3>2. h[l] = l
        BY <2>3, <3>1
      <3> QED BY <3>1, <3>2
    <2> QED BY <2>2, <2>3
  <1>7. h \in Surjection(U, T)
    <2>1. h \in [U -> T]
      BY <1>3
    <2> HIDE DEF h, U, T
    <2> QED BY <1>6, <2>1 DEF Surjection
  <1>8. <<m, q[m][1]>> \in S <=> <<m, 1>> \in Marked(q, S)
    <2> PICK l : l = <<m, 1>>
      OBVIOUS
    <2>1. l[1] = m /\ l[2] = 1 /\ l \in Node \X Nat /\ 1 \in DOMAIN q[m]
      BY <1>1
    <2> QED BY <2>1 DEF Marked
  <1> HIDE DEF h, U, T
  <1>9. /\ IsFiniteSet(T)
        /\ Cardinality(T) = IF <<m, 1>> \in Marked(q, S)
                            THEN Cardinality(Marked(q, S)) - 1
                            ELSE Cardinality(Marked(q, S))
    BY FS_RemoveElement DEF T
  <1>10. IsFiniteSet(U) /\ Cardinality(U) = Cardinality(T)
    BY <1>5, <1>7, <1>9, FS_Injection
  <1>11. Cardinality(U) \in Nat /\ Cardinality(Marked(q, S)) \in Nat
    BY <1>10, FS_CardinalityType
  <1> QED BY <1>8, <1>9, <1>10, <1>11 DEF U

LEMMA PopIsCut ==
    ASSUME NEW q \in [Node -> Seq(PacketFrame)], NEW m \in Node, q[m] # <<>>
    PROVE  /\ 1 \in 1 .. Len(q[m]) /\ Head(q[m]) = q[m][1] /\ Head(q[m]) \in PacketFrame
           /\ Pop(q, m) = Cut(q, m, 1)
  <1>1. q[m] \in Seq(PacketFrame) /\ 1 \in 1 .. Len(q[m]) /\ Head(q[m]) = q[m][1]
    OBVIOUS
  <1>2. Tail(q[m]) = SubSeq(q[m], 2, Len(q[m]))
    BY <1>1, TailIsSubSeq
  <1>3. 1 + 1 = 2
    OBVIOUS
  <1>4. Head(q[m]) \in PacketFrame
    BY <1>1
  <1>5. Pop(q, m) = [q EXCEPT ![m] = Tail(q[m])]
    BY DEF Pop
  <1>6. Cut(q, m, 1) = [q EXCEPT ![m] = SubSeq(q[m], 2, Len(q[m]))]
    BY <1>3 DEF Cut
  <1> QED BY <1>1, <1>2, <1>4, <1>5, <1>6

LEMMA MarkedPop ==
    ASSUME NEW q \in [Node -> Seq(PacketFrame)], NEW m \in Node, q[m] # <<>>,
           NEW S, IsFiniteSet(Marked(q, S))
    PROVE  /\ IsFiniteSet(Marked(Pop(q, m), S))
           /\ <<m, Head(q[m])>> \in S =>
                  Cardinality(Marked(Pop(q, m), S)) + 1 = Cardinality(Marked(q, S))
           /\ <<m, Head(q[m])>> \notin S =>
                  Cardinality(Marked(Pop(q, m), S)) = Cardinality(Marked(q, S))
  <1>1. 1 \in 1 .. Len(q[m]) /\ Head(q[m]) = q[m][1] /\ Pop(q, m) = Cut(q, m, 1)
    BY PopIsCut
  <1>2. \A i \in 2 .. 1 : <<m, q[m][i]>> \notin S
    OBVIOUS
  <1> QED BY <1>1, <1>2, MarkedCut

Headers(n) == Node \X {f \in PacketFrame : f.head /\ f.node = n}

LEMMA HeadersPush ==
    ASSUME NEW q \in [Node -> Seq(PacketFrame)], NEW m \in Node, NEW f \in PacketFrame,
           NEW n \in Node, IsFiniteSet(HeadersIn(q, n))
    PROVE  /\ IsFiniteSet(HeadersIn(Push(q, m, f), n))
           /\ f.head /\ f.node = n =>
                  Cardinality(HeadersIn(Push(q, m, f), n)) = Cardinality(HeadersIn(q, n)) + 1
           /\ ~(f.head /\ f.node = n) =>
                  Cardinality(HeadersIn(Push(q, m, f), n)) = Cardinality(HeadersIn(q, n))
  <1>1. \A r : HeadersIn(r, n) = Marked(r, Headers(n))
    BY DEF HeadersIn, Headers
  <1>2. <<m, f>> \in Headers(n) <=> f.head /\ f.node = n
    BY DEF Headers
  <1> QED BY <1>1, <1>2, MarkedPush

LEMMA HeadersCut ==
    ASSUME NEW q \in [Node -> Seq(PacketFrame)], NEW m \in Node, NEW j \in 1 .. Len(q[m]),
           NEW n \in Node, IsFiniteSet(HeadersIn(q, n)),
           \A i \in 2 .. j : ~q[m][i].head
    PROVE  /\ IsFiniteSet(HeadersIn(Cut(q, m, j), n))
           /\ q[m][1].head /\ q[m][1].node = n =>
                  Cardinality(HeadersIn(Cut(q, m, j), n)) + 1 = Cardinality(HeadersIn(q, n))
           /\ ~(q[m][1].head /\ q[m][1].node = n) =>
                  Cardinality(HeadersIn(Cut(q, m, j), n)) = Cardinality(HeadersIn(q, n))
  <1>1. \A r : HeadersIn(r, n) = Marked(r, Headers(n))
    BY DEF HeadersIn, Headers
  <1>2. \A f \in PacketFrame : <<m, f>> \in Headers(n) <=> f.head /\ f.node = n
    BY DEF Headers
  <1>3. q[m][1] \in PacketFrame
    <2>1. q[m] \in Seq(PacketFrame) /\ 1 \in 1 .. Len(q[m])
      OBVIOUS
    <2> QED BY <2>1
  <1>4. \A i \in 2 .. j : <<m, q[m][i]>> \notin Headers(n)
    BY DEF Headers
  <1>5. IsFiniteSet(Marked(q, Headers(n)))
    BY <1>1
  <1>6. /\ IsFiniteSet(Marked(Cut(q, m, j), Headers(n)))
        /\ <<m, q[m][1]>> \in Headers(n) =>
               Cardinality(Marked(Cut(q, m, j), Headers(n))) + 1
                   = Cardinality(Marked(q, Headers(n)))
        /\ <<m, q[m][1]>> \notin Headers(n) =>
               Cardinality(Marked(Cut(q, m, j), Headers(n)))
                   = Cardinality(Marked(q, Headers(n)))
    BY <1>4, <1>5, MarkedCut
  <1>7. <<m, q[m][1]>> \in Headers(n) <=> q[m][1].head /\ q[m][1].node = n
    BY <1>2, <1>3
  <1> QED BY <1>1, <1>6, <1>7

LEMMA HeadersPop ==
    ASSUME NEW q \in [Node -> Seq(PacketFrame)], NEW m \in Node, q[m] # <<>>,
           NEW n \in Node, IsFiniteSet(HeadersIn(q, n))
    PROVE  /\ IsFiniteSet(HeadersIn(Pop(q, m), n))
           /\ Head(q[m]).head /\ Head(q[m]).node = n =>
                  Cardinality(HeadersIn(Pop(q, m), n)) + 1 = Cardinality(HeadersIn(q, n))
           /\ ~(Head(q[m]).head /\ Head(q[m]).node = n) =>
                  Cardinality(HeadersIn(Pop(q, m), n)) = Cardinality(HeadersIn(q, n))
  <1>1. 1 \in 1 .. Len(q[m]) /\ Head(q[m]) = q[m][1] /\ Pop(q, m) = Cut(q, m, 1)
    BY PopIsCut
  <1>2. \A i \in 2 .. 1 : ~q[m][i].head
    OBVIOUS
  <1> QED BY <1>1, <1>2, HeadersCut

-----------------------------------------------------------------------------
(* The invariant holds, and every action keeps it. *)

LEMMA InitInvariant == Init => IInv
  <1> SUFFICES ASSUME Init
               PROVE  IInv
    OBVIOUS
  <1>1. /\ <<>> \in Seq(PacketFrame) /\ Len(<<>>) = 0
        /\ packets_of(BlockNum) \in Nat /\ packet_num \in Nat
        /\ 0 \in Block /\ 0 \in 0 .. Payload /\ 0 \in 0 .. packet_num
    <2>1. packets_of(BlockNum) \in Nat
      BY PacketsOf
    <2>2. packet_num \in Nat
      BY <2>1, ConstantTypes DEF packet_num
    <2>3. total_p_num * BlockNum \in Nat \ {0}
      BY ConstantTypes
    <2> QED BY <2>1, <2>2, <2>3, ConstantTypes DEF Block
  <1>2. Typed
    <2>1. rdProp \in [Node -> [item : Nat \ {0}, i : Nat, address : Nat,
                               frameId : 0 .. Payload]]
      BY <1>1 DEF Init
    <2>2. wrProp \in [Node -> [state : {"firstFrame", "remainFrame"},
                               address : Block, offset : 0 .. Payload,
                               process_packet_num : 0 .. packet_num]]
      BY <1>1 DEF Init
    <2>3. vertexProp \in [Node -> [Block -> Block \cup {NoBlock}]]
      BY DEF Init
    <2> QED BY <1>1, <2>1, <2>2, <2>3 DEF Init, Typed
  <1>3. Framing
    <2>1. PICK none \in [Node -> Position] : none = [n \in Node |-> Boundary]
      BY DEF Position
    <2>2. ASSUME NEW n \in Node
          PROVE  FramedAt(n, none, none, none)
      <3>1. /\ vertexTrans[n] = <<>> /\ wire[n] = <<>> /\ net_in[n] = <<>>
            /\ vertexUpdate[n] = <<>> /\ currentState[n] = "firstFrame"
            /\ none[n] = Boundary /\ none[lower_worker_idx(n)] = Boundary
        BY <2>1, Neighbours DEF Init
      <3>2. ReadPos(n) = Boundary /\ WritePos(n) = Boundary
            /\ OutPos(n, none, none) = Boundary
        BY DEF Init, ReadPos, WritePos, OutPos
      <3> QED BY <3>1, <3>2, FlowEmpty DEF FramedAt
    <2> QED BY <2>2 DEF Framing
  <1>4. ASSUME NEW n \in Node
        PROVE  Bounded(n) /\ Reading(n) /\ Writing(n) /\ OwnFrames(n)
    <2>1. Schedule[n] \in Seq(Partition)
      BY ConstantTypes
    <2>2. Bounded(n)
      <3> Len(Schedule[n]) \in Nat
        BY <2>1
      <3> QED BY <1>1, ConstantTypes DEF Init, Bounded
    <2>3. Reading(n)
      <3>1. 0 * Payload + 0 + 0 = 0 /\ 0 * Payload = 0 /\ 0 < BlockNum + packets_of(BlockNum)
        BY <1>1, ConstantTypes
      <3>2. rdProp[n].i = 0 /\ rdProp[n].frameId = 0 /\ rdProp[n].address = 0
        BY DEF Init
      <3> QED BY <3>1, <3>2 DEF Reading
    <2>4. Writing(n) /\ OwnFrames(n)
      BY <1>1 DEF Init, Writing, OwnFrames
    <2> QED BY <2>2, <2>3, <2>4
  <1>5. ASSUME NEW n \in Node
        PROVE  Credited(n)
    <2>1. HeadersIn(wire, n) = {} /\ HeadersIn(net_in, n) = {}
      BY <1>1 DEF Init, HeadersIn, Marked
    <2>2. write_read_num[n] = 0
      BY DEF Init
    <2>3. IsFiniteSet({}) /\ Cardinality({}) = 0
      BY FS_EmptySet
    <2> QED BY <2>1, <2>2, <2>3, ConstantTypes DEF Credited
  <1>6. BlocksAtTheirAddress
    BY DEF Init, BlocksAtTheirAddress
  <1> QED BY <1>2, <1>3, <1>4, <1>5, <1>6 DEF IInv

\* A frame that moves from a FIFO q to a FIFO w is counted where it is.
LEMMA HeadersMove ==
    ASSUME NEW q \in [Node -> Seq(PacketFrame)], NEW w \in [Node -> Seq(PacketFrame)],
           NEW m \in Node, NEW k \in Node, q[m] # <<>>,
           NEW n \in Node, IsFiniteSet(HeadersIn(q, n)), IsFiniteSet(HeadersIn(w, n))
    PROVE  /\ IsFiniteSet(HeadersIn(Pop(q, m), n))
           /\ IsFiniteSet(HeadersIn(Push(w, k, Head(q[m])), n))
           /\ Cardinality(HeadersIn(Push(w, k, Head(q[m])), n))
                     + Cardinality(HeadersIn(Pop(q, m), n))
                  = Cardinality(HeadersIn(w, n)) + Cardinality(HeadersIn(q, n))
  <1>1. Head(q[m]) \in PacketFrame
    OBVIOUS
  <1> PICK f : f = Head(q[m])
    OBVIOUS
  <1>2. /\ IsFiniteSet(HeadersIn(Pop(q, m), n))
        /\ f.head /\ f.node = n =>
               Cardinality(HeadersIn(Pop(q, m), n)) + 1 = Cardinality(HeadersIn(q, n))
        /\ ~(f.head /\ f.node = n) =>
               Cardinality(HeadersIn(Pop(q, m), n)) = Cardinality(HeadersIn(q, n))
    BY HeadersPop
  <1>3. /\ IsFiniteSet(HeadersIn(Push(w, k, f), n))
        /\ f.head /\ f.node = n =>
               Cardinality(HeadersIn(Push(w, k, f), n)) = Cardinality(HeadersIn(w, n)) + 1
        /\ ~(f.head /\ f.node = n) =>
               Cardinality(HeadersIn(Push(w, k, f), n)) = Cardinality(HeadersIn(w, n))
    BY <1>1, HeadersPush, ZenonT(40)
  <1>4. /\ Cardinality(HeadersIn(q, n)) \in Nat /\ Cardinality(HeadersIn(w, n)) \in Nat
        /\ Cardinality(HeadersIn(Pop(q, m), n)) \in Nat
        /\ Cardinality(HeadersIn(Push(w, k, f), n)) \in Nat
    BY <1>2, <1>3, FS_CardinalityType
  <1> QED BY <1>2, <1>3, <1>4

\* A node whose headers do not grow and that keeps its credits stays credited.
LEMMA CreditedKept ==
    ASSUME NEW m \in Node, Credited(m), write_read_num[m] \in Int,
           write_read_num'[m] = write_read_num[m],
           IsFiniteSet(HeadersIn(wire', m)), IsFiniteSet(HeadersIn(net_in', m)),
           Cardinality(HeadersIn(wire', m)) + Cardinality(HeadersIn(net_in', m))
               <= Cardinality(HeadersIn(wire, m)) + Cardinality(HeadersIn(net_in, m))
    PROVE  Credited(m)'
  <1> DEFINE W == HeadersIn(wire, m)
             N == HeadersIn(net_in, m)
             W1 == HeadersIn(wire', m)
             N1 == HeadersIn(net_in', m)
  <1>1. IsFiniteSet(W) /\ IsFiniteSet(N) /\ Cardinality(W) + Cardinality(N) <= write_read_num[m]
        /\ write_read_num[m] <= FIFO_len
    BY DEF Credited
  <1>2. HeadersIn(wire, m)' = W1 /\ HeadersIn(net_in, m)' = N1
    BY DEF HeadersIn, Marked
  <1> HIDE DEF W, N, W1, N1
  <1>3. /\ Cardinality(W) \in Nat /\ Cardinality(N) \in Nat
        /\ Cardinality(W1) \in Nat /\ Cardinality(N1) \in Nat
    BY <1>1, FS_CardinalityType DEF W1, N1
  <1>4. Cardinality(W1) + Cardinality(N1) <= Cardinality(W) + Cardinality(N)
    BY DEF W, N, W1, N1
  <1>5. Cardinality(W1) + Cardinality(N1) <= write_read_num'[m]
    BY <1>1, <1>3, <1>4
  <1> QED BY <1>1, <1>2, <1>5 DEF Credited, W1, N1

(* The parts of the invariant that a branch which takes a frame leaves alone. *)
LEMMA TakeKeeps ==
    ASSUME IInv, NEW n \in Node, Take(n),
           NEW t \in {"firstFrame", "remainFrame_same", "remainFrame_other"},
           Goto(n, t),
           UNCHANGED <<rdProp, vertexTrans, current_node_id, lost, wrProp, vertexProp>>,
           wire' \in [Node -> Seq(PacketFrame)], write_read_num' \in [Node -> Int],
           Framing', \A m \in Node : Credited(m)'
    PROVE  IInv'
  <1>1. PICK own \in [Node -> Position], mid \in [Node -> Position],
             gap \in [Node -> Position] :
            \A m \in Node : FramedAt(m, own, mid, gap)
    BY DEF IInv, Framing
  <1>2. Typed /\ FramedAt(n, own, mid, gap) /\ Bounded(n)
    BY <1>1 DEF IInv
  <1>3. /\ net_in' = [net_in EXCEPT ![n] = Tail(net_in[n])]
        /\ vertexUpdate' = [vertexUpdate EXCEPT ![n] = Append(vertexUpdate[n], Head(net_in[n]))]
        /\ net_in' \in [Node -> Seq(PacketFrame)]
        /\ vertexUpdate' \in [Node -> Seq(PacketFrame)]
        /\ Len(net_in'[n]) = Len(net_in[n]) - 1 /\ Len(net_in[n]) \in Nat
        /\ Len(vertexUpdate'[n]) <= UpdateDepth
    BY <1>2, TakeFlows
  <1>4. Typed'
    BY <1>2, <1>3 DEF Typed, Goto
  <1>5. ASSUME NEW m \in Node
        PROVE  Bounded(m)'
    <2>1. Bounded(m) /\ rdProp'[m] = rdProp[m] /\ vertexTrans'[m] = vertexTrans[m]
      BY DEF IInv
    <2>2. CASE m = n
      <3>1. Len(net_in'[n]) <= NetDepth
        BY <1>2, <1>3, ConstantTypes DEF Bounded
      <3> QED BY <1>3, <2>1, <2>2, <3>1 DEF Bounded
    <2>3. CASE m # n
      <3>1. net_in'[m] = net_in[m] /\ vertexUpdate'[m] = vertexUpdate[m]
        BY <1>2, <1>3, <2>3 DEF Typed
      <3> QED BY <2>1, <3>1 DEF Bounded
    <2> QED BY <2>2, <2>3
  <1>6. ASSUME NEW m \in Node
        PROVE  Reading(m)' /\ Writing(m)' /\ OwnFrames(m)'
    BY DEF IInv, Reading, Writing, OwnFrames
  <1>7. BlocksAtTheirAddress'
    BY DEF IInv, BlocksAtTheirAddress
  <1> QED BY <1>4, <1>5, <1>6, <1>7 DEF IInv

\* An own packet goes no further, and its header gives the credit back.
LEMMA TakeSameStep ==
    ASSUME IInv, NEW n \in Node, Take(n),
           currentState[n] \in {"firstFrame", "remainFrame_same"},
           NEW t, t = IF Head(net_in[n]).last THEN "firstFrame" ELSE "remainFrame_same",
           Goto(n, t),
           UNCHANGED <<rdProp, vertexTrans, current_node_id, wire, lost, wrProp, vertexProp>>,
           \/ UNCHANGED write_read_num
           \/ /\ write_read_num' = [write_read_num EXCEPT ![n] = @ - 1]
              /\ Head(net_in[n]).head /\ Head(net_in[n]).node = n
    PROVE  IInv'
  <1>1. PICK own \in [Node -> Position], mid \in [Node -> Position],
             gap \in [Node -> Position] :
            \A m \in Node : FramedAt(m, own, mid, gap)
    BY DEF IInv, Framing
  <1>2. /\ Typed /\ FramedAt(n, own, mid, gap)
        /\ own[n] = Boundary /\ OutPos(n, own, mid) = Boundary
    BY <1>1 DEF IInv, FramedAt, OutPos
  <1>3. t \in {"firstFrame", "remainFrame_same"} /\ currentState'[n] = t
    BY <1>2 DEF Typed, Goto
  <1>4. Framing'
    <2>1. Flow(wire'[n], gap[lower_worker_idx(n)],
               IF t = "remainFrame_other" THEN After(Head(net_in[n])) ELSE Boundary)
      BY <1>2, <1>3 DEF FramedAt
    <2>2. \A m \in Node \ {n} : wire'[m] = wire[m] /\ currentState'[m] = currentState[m]
      BY <1>2 DEF Typed, Goto
    <2>3. /\ t = IF Head(net_in[n]).last THEN "firstFrame" ELSE t
          /\ ~Head(net_in[n]).last => t \in {"remainFrame_same", "remainFrame_other"}
      OBVIOUS
    <2> QED BY <1>1, <1>2, <1>3, <2>1, <2>2, <2>3, TakeFraming
  <1>5. ASSUME NEW m \in Node
        PROVE  Credited(m)'
    <2>1. /\ net_in[n] # <<>> /\ net_in' = Pop(net_in, n)
          /\ net_in \in [Node -> Seq(PacketFrame)] /\ write_read_num \in [Node -> Int]
      BY <1>2 DEF Take, Typed
    <2>2. Credited(m) /\ IsFiniteSet(HeadersIn(net_in, m)) /\ IsFiniteSet(HeadersIn(wire, m))
      BY DEF IInv, Credited
    <2>3. /\ IsFiniteSet(HeadersIn(net_in', m))
          /\ Head(net_in[n]).head /\ Head(net_in[n]).node = m =>
                 Cardinality(HeadersIn(net_in', m)) + 1 = Cardinality(HeadersIn(net_in, m))
          /\ ~(Head(net_in[n]).head /\ Head(net_in[n]).node = m) =>
                 Cardinality(HeadersIn(net_in', m)) = Cardinality(HeadersIn(net_in, m))
      BY <2>1, <2>2, HeadersPop
    <2>4. HeadersIn(wire', m) = HeadersIn(wire, m)
      OBVIOUS
    <2>5. /\ Cardinality(HeadersIn(wire, m)) \in Nat /\ Cardinality(HeadersIn(net_in, m)) \in Nat
          /\ Cardinality(HeadersIn(net_in', m)) \in Nat
      BY <2>2, <2>3, FS_CardinalityType
    <2>6. CASE write_read_num'[m] = write_read_num[m]
      <3>1. Cardinality(HeadersIn(net_in', m)) <= Cardinality(HeadersIn(net_in, m))
        BY <2>3, <2>5
      <3>2. Cardinality(HeadersIn(wire', m)) + Cardinality(HeadersIn(net_in', m))
                <= Cardinality(HeadersIn(wire, m)) + Cardinality(HeadersIn(net_in, m))
        BY <2>4, <2>5, <3>1
      <3>3. IsFiniteSet(HeadersIn(wire', m)) /\ write_read_num[m] \in Int
        BY <2>1, <2>2, <2>4
      <3> QED BY <2>2, <2>3, <2>6, <3>2, <3>3, CreditedKept
    <2>7. CASE write_read_num'[m] # write_read_num[m]
      <3>1. m = n /\ write_read_num'[m] = write_read_num[m] - 1
        BY <2>1, <2>7
      <3>2. Head(net_in[n]).head /\ Head(net_in[n]).node = m
        BY <2>7, <3>1
      <3>3. /\ Cardinality(HeadersIn(wire, m)) + Cardinality(HeadersIn(net_in, m))
                   <= write_read_num[m]
            /\ write_read_num[m] <= FIFO_len /\ write_read_num[m] \in Int
        BY <2>1, <2>2 DEF Credited
      <3>4. /\ Cardinality(HeadersIn(wire', m)) + Cardinality(HeadersIn(net_in', m))
                   <= write_read_num'[m]
            /\ write_read_num'[m] <= FIFO_len
        BY <2>3, <2>4, <2>5, <3>1, <3>2, <3>3, ConstantTypes
      <3>5. HeadersIn(wire, m)' = HeadersIn(wire', m) /\ HeadersIn(net_in, m)' = HeadersIn(net_in', m)
        BY DEF HeadersIn, Marked
      <3> QED BY <2>2, <2>3, <2>4, <3>4, <3>5 DEF Credited
    <2> QED BY <2>6, <2>7
  <1>6. write_read_num' \in [Node -> Int]
    <2> write_read_num \in [Node -> Int] /\ write_read_num[n] - 1 \in Int
      BY <1>2 DEF Typed
    <2> QED OBVIOUS
  <1>7. wire' \in [Node -> Seq(PacketFrame)]
    BY <1>2 DEF Typed
  <1> QED BY <1>3, <1>4, <1>5, <1>6, <1>7, TakeKeeps

\* A packet of another node goes on to the lower worker.
LEMMA TakeOtherStep ==
    ASSUME IInv, NEW n \in Node, Take(n),
           currentState[n] \in {"firstFrame", "remainFrame_other"},
           Send(n, Head(net_in[n])),
           NEW t, t = IF Head(net_in[n]).last THEN "firstFrame" ELSE "remainFrame_other",
           Goto(n, t),
           UNCHANGED <<rdProp, vertexTrans, current_node_id, write_read_num, lost,
                       wrProp, vertexProp>>
    PROVE  IInv'
  <1>1. PICK own \in [Node -> Position], mid \in [Node -> Position],
             gap \in [Node -> Position] :
            \A m \in Node : FramedAt(m, own, mid, gap)
    BY DEF IInv, Framing
  <1>2. /\ Typed /\ FramedAt(n, own, mid, gap)
        /\ own[n] = Boundary /\ OutPos(n, own, mid) = mid[n]
    BY <1>1 DEF IInv, FramedAt, OutPos
  <1> PICK f : f = Head(net_in[n])
    OBVIOUS
  <1>3. f \in PacketFrame /\ At(f) = mid[n]
    BY <1>2, TakeFlows
  <1>4. /\ wire' = [wire EXCEPT ![n] = Append(wire[n], f)]
        /\ wire' \in [Node -> Seq(PacketFrame)]
        /\ Flow(wire'[n], gap[lower_worker_idx(n)], After(f))
    <2>1. Flow(wire[n], gap[lower_worker_idx(n)], At(f))
      BY <1>2, <1>3 DEF FramedAt
    <2> QED BY <1>2, <1>3, <2>1, SendFlows
  <1>5. t \in {"firstFrame", "remainFrame_other"} /\ currentState'[n] = t
    BY <1>2 DEF Typed, Goto
  <1>6. Framing'
    <2>1. After(f) = IF t = "remainFrame_other" THEN After(f) ELSE Boundary
      BY <1>3, FramePositions
    <2>2. Flow(wire'[n], gap[lower_worker_idx(n)],
               IF t = "remainFrame_other" THEN After(Head(net_in[n])) ELSE Boundary)
      BY <1>4, <2>1
    <2>3. \A m \in Node \ {n} : wire'[m] = wire[m] /\ currentState'[m] = currentState[m]
      BY <1>2, <1>4 DEF Typed, Goto
    <2>4. /\ t = IF Head(net_in[n]).last THEN "firstFrame" ELSE t
          /\ ~Head(net_in[n]).last => t \in {"remainFrame_same", "remainFrame_other"}
      OBVIOUS
    <2> QED BY <1>1, <1>2, <1>5, <2>2, <2>3, <2>4, TakeFraming
  <1>7. ASSUME NEW m \in Node
        PROVE  Credited(m)'
    <2>1. /\ net_in[n] # <<>>
          /\ net_in \in [Node -> Seq(PacketFrame)] /\ write_read_num \in [Node -> Int]
          /\ wire \in [Node -> Seq(PacketFrame)]
      BY <1>2 DEF Take, Typed
    <2>2. Credited(m) /\ IsFiniteSet(HeadersIn(net_in, m)) /\ IsFiniteSet(HeadersIn(wire, m))
      BY DEF IInv, Credited
    <2>3. net_in' = Pop(net_in, n) /\ wire' = Push(wire, n, Head(net_in[n]))
      BY DEF Take, Send
    <2>4. /\ IsFiniteSet(HeadersIn(wire', m)) /\ IsFiniteSet(HeadersIn(net_in', m))
          /\ Cardinality(HeadersIn(wire', m)) + Cardinality(HeadersIn(net_in', m))
                 = Cardinality(HeadersIn(wire, m)) + Cardinality(HeadersIn(net_in, m))
      BY <2>1, <2>2, <2>3, HeadersMove
    <2>5. /\ Cardinality(HeadersIn(wire, m)) \in Nat /\ Cardinality(HeadersIn(net_in, m)) \in Nat
          /\ Cardinality(HeadersIn(wire', m)) \in Nat /\ Cardinality(HeadersIn(net_in', m)) \in Nat
      BY <2>2, <2>4, FS_CardinalityType
    <2>6. Cardinality(HeadersIn(wire', m)) + Cardinality(HeadersIn(net_in', m))
              <= Cardinality(HeadersIn(wire, m)) + Cardinality(HeadersIn(net_in, m))
      BY <2>4, <2>5
    <2> QED BY <2>1, <2>2, <2>4, <2>6, CreditedKept
  <1>8. write_read_num' \in [Node -> Int]
    BY <1>2 DEF Typed
  <1> QED BY <1>4, <1>5, <1>6, <1>7, <1>8, TakeKeeps

(* The node sends a frame of its own: a header takes a credit. *)
LEMMA OwnStep ==
    ASSUME IInv, NEW n \in Node, FirstFrameOwn(n) \/ OnlySend(n)
    PROVE  IInv'
  <1>1. PICK own \in [Node -> Position], mid \in [Node -> Position],
             gap \in [Node -> Position] :
            \A m \in Node : FramedAt(m, own, mid, gap)
    BY DEF IInv, Framing
  <1>2. /\ Typed /\ FramedAt(n, own, mid, gap) /\ OwnFrames(n)
        /\ currentState[n] \in {"firstFrame", "onlySend"} /\ vertexTrans[n] # <<>>
        /\ vertexTrans' = Pop(vertexTrans, n) /\ Send(n, Head(vertexTrans[n]))
        /\ UNCHANGED <<rdProp, net_in, lost, vertexUpdate, wrProp, vertexProp>>
    BY <1>1 DEF IInv, FirstFrameOwn, OnlySend, readVars, writeVars
  <1> PICK f : f = Head(vertexTrans[n])
    OBVIOUS
  <1>3. /\ vertexTrans[n] \in Seq(PacketFrame) /\ Tail(vertexTrans[n]) \in Seq(PacketFrame)
        /\ f \in PacketFrame /\ At(f) = own[n]
    BY <1>2, FlowHead DEF Typed, FramedAt
  <1>4. f.node = n
    BY <1>2, <1>3 DEF OwnFrames
  <1>5. /\ own[n] # Boundary <=> currentState[n] = "onlySend"
        /\ f.head <=> currentState[n] = "firstFrame"
        /\ f.head => ~f.last
    BY <1>2, <1>3, FramePositions DEF FramedAt
  <1> PICK t \in {"firstFrame", "onlySend"} : t = IF f.last THEN "firstFrame" ELSE "onlySend"
    OBVIOUS
  <1>6. currentState' = [currentState EXCEPT ![n] = t]
    <2>1. CASE FirstFrameOwn(n)
      BY <1>5, <2>1 DEF FirstFrameOwn, Goto
    <2>2. CASE OnlySend(n)
      BY <1>2, <2>2 DEF OnlySend, Goto, Typed
    <2> QED BY <1>2, <2>1, <2>2
  <1>7. currentState'[n] = t /\ \A m \in Node \ {n} : currentState'[m] = currentState[m]
    BY <1>2, <1>6 DEF Typed
  <1>8. /\ Framing'
        /\ wire' \in [Node -> Seq(PacketFrame)]
        /\ vertexTrans' \in [Node -> Seq(PacketFrame)]
    BY <1>1, <1>2, <1>7, OwnFraming
  <1>9. /\ current_node_id' = [current_node_id EXCEPT ![n] = n] \/ UNCHANGED current_node_id
        /\ write_read_num' \in [Node -> Int]
        /\ \A m \in Node \ {n} : write_read_num'[m] = write_read_num[m]
        /\ f.head => /\ write_read_num'[n] = write_read_num[n] + 1
                     /\ write_read_num[n] < FIFO_len
        /\ ~f.head => write_read_num'[n] = write_read_num[n]
    <2>1. CASE FirstFrameOwn(n)
      <3>1. write_read_num \in [Node -> Int] /\ write_read_num[n] + 1 \in Int
        BY <1>2 DEF Typed
      <3>2. /\ write_read_num' = [write_read_num EXCEPT ![n] = @ + 1]
            /\ write_read_num[n] < FIFO_len
            /\ current_node_id' = [current_node_id EXCEPT ![n] = n]
            /\ currentState[n] = "firstFrame"
        BY <1>4, <2>1 DEF FirstFrameOwn
      <3> QED BY <1>5, <3>1, <3>2
    <2>2. CASE OnlySend(n)
      BY <1>2, <1>5, <2>2 DEF OnlySend, Typed
    <2> QED BY <1>2, <2>1, <2>2
  <1>10. Typed'
    <2>1. currentState' \in [Node -> {"firstFrame", "remainFrame_same",
                                      "remainFrame_other", "onlySend"}]
      BY <1>2, <1>6 DEF Typed
    <2>2. current_node_id' \in [Node -> Node \cup {-1}]
      BY <1>2, <1>9 DEF Typed
    <2> QED BY <1>2, <1>8, <1>9, <2>1, <2>2 DEF Typed
  <1>11. ASSUME NEW m \in Node
         PROVE  Bounded(m)' /\ OwnFrames(m)'
    <2>1. Bounded(m) /\ OwnFrames(m)
      BY DEF IInv
    <2>2. CASE m = n
      <3>1. vertexTrans'[n] = Tail(vertexTrans[n])
        BY <1>2 DEF Pop, Typed
      <3>2. /\ Len(Tail(vertexTrans[n])) = Len(vertexTrans[n]) - 1
            /\ Len(vertexTrans[n]) \in Nat
            /\ \A i \in 1 .. Len(Tail(vertexTrans[n])) :
                   Tail(vertexTrans[n])[i] = vertexTrans[n][i + 1]
        BY <1>2, <1>3
      <3>3. Len(vertexTrans'[n]) <= TransDepth
        BY <2>1, <2>2, <3>1, <3>2, ConstantTypes DEF Bounded
      <3>4. \A i \in 1 .. Len(vertexTrans'[n]) : vertexTrans'[n][i].node = n
        BY <1>2, <3>1, <3>2 DEF OwnFrames
      <3>5. current_node_id'[n] \in {n, -1}
        BY <1>2, <1>9 DEF Typed, OwnFrames
      <3> QED BY <1>2, <2>1, <2>2, <3>3, <3>4, <3>5 DEF Bounded, OwnFrames
    <2>3. CASE m # n
      <3>1. vertexTrans'[m] = vertexTrans[m] /\ current_node_id'[m] = current_node_id[m]
        BY <1>2, <1>9, <2>3 DEF Pop, Typed
      <3> QED BY <1>2, <2>1, <3>1 DEF Bounded, OwnFrames
    <2> QED BY <2>2, <2>3
  <1>12. ASSUME NEW m \in Node
         PROVE  Reading(m)' /\ Writing(m)'
    BY <1>2 DEF IInv, Reading, Writing
  <1>13. ASSUME NEW m \in Node
         PROVE  Credited(m)'
    <2>1. /\ wire \in [Node -> Seq(PacketFrame)] /\ write_read_num \in [Node -> Int]
          /\ wire' = Push(wire, n, f)
      BY <1>2 DEF Typed, Send
    <2>2. Credited(m) /\ IsFiniteSet(HeadersIn(net_in, m)) /\ IsFiniteSet(HeadersIn(wire, m))
      BY DEF IInv, Credited
    <2>3. /\ IsFiniteSet(HeadersIn(wire', m))
          /\ f.head /\ f.node = m =>
                 Cardinality(HeadersIn(wire', m)) = Cardinality(HeadersIn(wire, m)) + 1
          /\ ~(f.head /\ f.node = m) =>
                 Cardinality(HeadersIn(wire', m)) = Cardinality(HeadersIn(wire, m))
      BY <1>3, <2>1, <2>2, HeadersPush
    <2>4. HeadersIn(net_in', m) = HeadersIn(net_in, m)
      BY <1>2
    <2>5. /\ Cardinality(HeadersIn(wire, m)) \in Nat /\ Cardinality(HeadersIn(net_in, m)) \in Nat
          /\ write_read_num[m] \in Int
      BY <2>1, <2>2, FS_CardinalityType
    <2>6. CASE f.head /\ m = n
      <3>1. /\ Cardinality(HeadersIn(wire, m)) + Cardinality(HeadersIn(net_in, m))
                   <= write_read_num[m]
            /\ write_read_num'[m] = write_read_num[m] + 1 /\ write_read_num[m] < FIFO_len
        BY <1>9, <2>2, <2>6 DEF Credited
      <3>2. /\ Cardinality(HeadersIn(wire', m)) + Cardinality(HeadersIn(net_in', m))
                   <= write_read_num'[m]
            /\ write_read_num'[m] <= FIFO_len
        BY <1>4, <2>3, <2>4, <2>5, <2>6, <3>1, ConstantTypes
      <3>3. HeadersIn(wire, m)' = HeadersIn(wire', m) /\ HeadersIn(net_in, m)' = HeadersIn(net_in', m)
        BY DEF HeadersIn, Marked
      <3> QED BY <2>2, <2>3, <2>4, <3>2, <3>3 DEF Credited
    <2>7. CASE ~(f.head /\ m = n)
      <3>1. write_read_num'[m] = write_read_num[m]
        BY <1>9, <2>7
      <3>2. IsFiniteSet(HeadersIn(net_in', m))
        BY <2>2, <2>4
      <3>3. Cardinality(HeadersIn(wire', m)) + Cardinality(HeadersIn(net_in', m))
                <= Cardinality(HeadersIn(wire, m)) + Cardinality(HeadersIn(net_in, m))
        BY <1>4, <2>3, <2>4, <2>5, <2>7
      <3> QED BY <2>2, <2>3, <2>5, <3>1, <3>2, <3>3, CreditedKept
    <2> QED BY <2>6, <2>7
  <1>14. BlocksAtTheirAddress'
    BY <1>2 DEF IInv, BlocksAtTheirAddress
  <1> QED BY <1>8, <1>10, <1>11, <1>12, <1>13, <1>14 DEF IInv

LEMMA GlobalTransStep ==
    ASSUME IInv, NEW n \in Node, GlobalTrans(n)
    PROVE  IInv'
  <1>1. PICK own \in [Node -> Position], mid \in [Node -> Position],
             gap \in [Node -> Position] :
            \A m \in Node : FramedAt(m, own, mid, gap)
    BY DEF IInv, Framing
  <1>2. Typed /\ FramedAt(n, own, mid, gap) /\ OwnFrames(n)
    BY <1>1 DEF IInv
  <1>3. ASSUME Take(n), currentState[n] = "firstFrame"
        PROVE  /\ Head(net_in[n]).head /\ ~Head(net_in[n]).last
               /\ Head(net_in[n]).node \in Node
    <2>1. Head(net_in[n]) \in PacketFrame /\ At(Head(net_in[n])) = mid[n]
      BY <1>2, <1>3, TakeFlows
    <2>2. mid[n] = Boundary
      BY <1>2, <1>3 DEF FramedAt
    <2> QED BY <2>1, <2>2, FramePositions
  <1>4. ASSUME IF Head(net_in[n]).last THEN Goto(n, "firstFrame") ELSE UNCHANGED currentState,
               NEW s, currentState[n] = s
        PROVE  Goto(n, IF Head(net_in[n]).last THEN "firstFrame" ELSE s)
    BY <1>2, <1>4 DEF Typed, Goto
  <1>5. CASE FirstFrameSame(n)
    <2>1. /\ Take(n) /\ currentState[n] = "firstFrame"
          /\ write_read_num' = [write_read_num EXCEPT ![n] = @ - 1]
          /\ Head(net_in[n]).node = current_node_id[n]
          /\ Goto(n, "remainFrame_same")
          /\ UNCHANGED <<rdProp, vertexTrans, current_node_id, wire, lost, wrProp, vertexProp>>
      BY <1>5 DEF FirstFrameSame, readVars, writeVars
    <2>2. Head(net_in[n]).head /\ ~Head(net_in[n]).last /\ Head(net_in[n]).node = n
      <3>1. -1 \notin Node /\ current_node_id[n] \in {n, -1}
        BY <1>2, RingAssumption DEF Node, OwnFrames
      <3> QED BY <1>3, <2>1, <3>1
    <2> QED BY <2>1, <2>2, TakeSameStep
  <1>6. CASE FirstFrameOther(n)
    <2>1. /\ Take(n) /\ currentState[n] = "firstFrame" /\ Send(n, Head(net_in[n]))
          /\ Goto(n, "remainFrame_other")
          /\ UNCHANGED <<rdProp, vertexTrans, current_node_id, write_read_num, lost,
                         wrProp, vertexProp>>
      BY <1>6 DEF FirstFrameOther, readVars, writeVars
    <2> QED BY <1>3, <2>1, TakeOtherStep
  <1>7. CASE RemainFrameSame(n)
    <2>1. /\ Take(n) /\ currentState[n] = "remainFrame_same"
          /\ Goto(n, IF Head(net_in[n]).last THEN "firstFrame" ELSE "remainFrame_same")
          /\ UNCHANGED write_read_num
          /\ UNCHANGED <<rdProp, vertexTrans, current_node_id, wire, lost, wrProp, vertexProp>>
      BY <1>4, <1>7 DEF RemainFrameSame, readVars, writeVars
    <2> QED BY <2>1, TakeSameStep
  <1>8. CASE RemainFrameOther(n)
    <2>1. /\ Take(n) /\ currentState[n] = "remainFrame_other" /\ Send(n, Head(net_in[n]))
          /\ Goto(n, IF Head(net_in[n]).last THEN "firstFrame" ELSE "remainFrame_other")
          /\ UNCHANGED <<rdProp, vertexTrans, current_node_id, write_read_num, lost,
                         wrProp, vertexProp>>
      BY <1>4, <1>8 DEF RemainFrameOther, readVars, writeVars
    <2> QED BY <2>1, TakeOtherStep
  <1>9. CASE FirstFrameOwn(n) \/ OnlySend(n)
    BY <1>9, OwnStep
  <1> QED BY <1>5, <1>6, <1>7, <1>8, <1>9 DEF GlobalTrans

LEMMA ArriveStep ==
    ASSUME IInv, NEW n \in Node, Arrive(n)
    PROVE  IInv'
  <1> PICK u \in Node : u = upper_worker_idx(n)
    BY Neighbours
  <1>1. Typed /\ Framing
    BY DEF IInv
  <1>2. /\ wire[u] # <<>> /\ wire' = Pop(wire, u) /\ net_in' = Push(net_in, n, Head(wire[u]))
        /\ UNCHANGED <<rdProp, vertexTrans, currentState, current_node_id, write_read_num,
                       lost, vertexUpdate, wrProp, vertexProp>>
    BY DEF Arrive, readVars, transVars, writeVars
  <1>3. /\ Framing'
        /\ wire' \in [Node -> Seq(PacketFrame)] /\ net_in' \in [Node -> Seq(PacketFrame)]
        /\ Len(net_in'[n]) <= NetDepth
    BY <1>1, ArriveFraming
  <1>4. Typed'
    BY <1>1, <1>2, <1>3 DEF Typed
  <1>5. ASSUME NEW m \in Node
        PROVE  Bounded(m)'
    <2>1. m # n => net_in'[m] = net_in[m]
      BY <1>1, <1>2 DEF Push, Typed
    <2> QED BY <1>2, <1>3, <2>1 DEF IInv, Bounded
  <1>6. ASSUME NEW m \in Node
        PROVE  Reading(m)' /\ Writing(m)' /\ OwnFrames(m)'
    BY <1>2 DEF IInv, Reading, Writing, OwnFrames
  <1>7. ASSUME NEW m \in Node
        PROVE  Credited(m)'
    <2>1. /\ wire \in [Node -> Seq(PacketFrame)] /\ net_in \in [Node -> Seq(PacketFrame)]
          /\ write_read_num[m] \in Int
      BY <1>1 DEF Typed
    <2>2. Credited(m) /\ IsFiniteSet(HeadersIn(net_in, m)) /\ IsFiniteSet(HeadersIn(wire, m))
      BY DEF IInv, Credited
    <2>3. /\ IsFiniteSet(HeadersIn(wire', m)) /\ IsFiniteSet(HeadersIn(net_in', m))
          /\ Cardinality(HeadersIn(net_in', m)) + Cardinality(HeadersIn(wire', m))
                 = Cardinality(HeadersIn(net_in, m)) + Cardinality(HeadersIn(wire, m))
      <3>1. wire' = Pop(wire, u) /\ net_in' = Push(net_in, n, Head(wire[u])) /\ wire[u] # <<>>
        BY <1>2
      <3> QED
        BY ONLY <2>1, <2>2, <3>1, HeadersMove, u \in Node, n \in Node, m \in Node, ZenonT(90)
    <2>4. /\ Cardinality(HeadersIn(wire, m)) \in Nat /\ Cardinality(HeadersIn(net_in, m)) \in Nat
          /\ Cardinality(HeadersIn(wire', m)) \in Nat /\ Cardinality(HeadersIn(net_in', m)) \in Nat
      BY <2>2, <2>3, FS_CardinalityType
    <2>5. Cardinality(HeadersIn(wire', m)) + Cardinality(HeadersIn(net_in', m))
              <= Cardinality(HeadersIn(wire, m)) + Cardinality(HeadersIn(net_in, m))
      BY <2>3, <2>4
    <2>6. write_read_num'[m] = write_read_num[m]
      BY <1>2
    <2> QED BY <2>1, <2>2, <2>3, <2>5, <2>6, CreditedKept
  <1>8. BlocksAtTheirAddress'
    BY <1>2 DEF IInv, BlocksAtTheirAddress
  <1> QED BY <1>3, <1>4, <1>5, <1>6, <1>7, <1>8 DEF IInv

LEMMA DropStep ==
    ASSUME IInv, NEW n \in Node, Drop(n)
    PROVE  IInv'
  <1> PICK u \in Node : u = upper_worker_idx(n)
    BY Neighbours
  <1>1. Typed /\ Framing
    BY DEF IInv
  <1>2. /\ wire[u] # <<>> /\ lost' = lost \cup {Head(wire[u])}
        /\ UNCHANGED <<rdProp, vertexTrans, currentState, current_node_id, write_read_num,
                       net_in, vertexUpdate, wrProp, vertexProp>>
    BY DEF Drop, readVars, transVars, writeVars
  <1>3. /\ Framing' /\ wire' \in [Node -> Seq(PacketFrame)]
        /\ \E j \in 1 .. Len(wire[u]) :
               /\ wire' = [wire EXCEPT ![u] = SubSeq(@, j + 1, Len(@))]
               /\ \A i \in 2 .. j : ~wire[u][i].head
    BY <1>1, DropFraming
  <1>4. PICK j \in 1 .. Len(wire[u]) :
            wire' = Cut(wire, u, j) /\ \A i \in 2 .. j : ~wire[u][i].head
    BY <1>3 DEF Cut
  <1>5. Typed'
    <2>1. Head(wire[u]) \in Frame
      <3>1. wire[u] \in Seq(PacketFrame)
        BY <1>1 DEF Typed
      <3>2. Head(wire[u]) \in PacketFrame
        BY <1>2, <3>1
      <3> QED BY <3>2, FramePositions
    <2> QED BY <1>1, <1>2, <1>3, <2>1 DEF Typed
  <1>6. ASSUME NEW m \in Node
        PROVE  Bounded(m)' /\ Reading(m)' /\ Writing(m)' /\ OwnFrames(m)'
    BY <1>2 DEF IInv, Bounded, Reading, Writing, OwnFrames
  <1>7. ASSUME NEW m \in Node
        PROVE  Credited(m)'
    <2>1. wire \in [Node -> Seq(PacketFrame)] /\ write_read_num[m] \in Int
      BY <1>1 DEF Typed
    <2>2. Credited(m) /\ IsFiniteSet(HeadersIn(net_in, m)) /\ IsFiniteSet(HeadersIn(wire, m))
      BY DEF IInv, Credited
    <2>3. /\ IsFiniteSet(HeadersIn(wire', m))
          /\ \/ Cardinality(HeadersIn(wire', m)) + 1 = Cardinality(HeadersIn(wire, m))
             \/ Cardinality(HeadersIn(wire', m)) = Cardinality(HeadersIn(wire, m))
      BY <1>4, <2>1, <2>2, HeadersCut
    <2>4. HeadersIn(net_in', m) = HeadersIn(net_in, m) /\ write_read_num'[m] = write_read_num[m]
      BY <1>2
    <2>5. /\ Cardinality(HeadersIn(wire, m)) \in Nat /\ Cardinality(HeadersIn(net_in, m)) \in Nat
          /\ Cardinality(HeadersIn(wire', m)) \in Nat
      BY <2>2, <2>3, FS_CardinalityType
    <2>6. IsFiniteSet(HeadersIn(net_in', m))
      BY <2>2, <2>4
    <2>7. Cardinality(HeadersIn(wire', m)) + Cardinality(HeadersIn(net_in', m))
              <= Cardinality(HeadersIn(wire, m)) + Cardinality(HeadersIn(net_in, m))
      BY <2>3, <2>4, <2>5
    <2> QED BY <2>1, <2>2, <2>3, <2>4, <2>6, <2>7, CreditedKept
  <1>8. BlocksAtTheirAddress'
    BY <1>2 DEF IInv, BlocksAtTheirAddress
  <1> QED BY <1>3, <1>5, <1>6, <1>7, <1>8 DEF IInv

LEMMA ReadStep ==
    ASSUME IInv, NEW n \in Node, ReadProp(n)
    PROVE  IInv'
  <1>1. Typed /\ Framing /\ Bounded(n) /\ Reading(n)
    BY DEF IInv
  <1> PICK f : f = NextFrame(n)
    OBVIOUS
  <1>2. /\ f \in PacketFrame /\ f.node = n
        /\ vertexTrans' = [vertexTrans EXCEPT ![n] = Append(vertexTrans[n], f)]
        /\ rdProp' \in [Node -> [item : Nat \ {0}, i : Nat, address : Nat,
                                 frameId : 0 .. Payload]]
        /\ Reading(n)' /\ rdProp'[n].item <= Len(Schedule[n]) + 1
        /\ \A m \in Node \ {n} : rdProp'[m] = rdProp[m]
    BY <1>1, ReadFrame
  <1>3. /\ Len(vertexTrans[n]) < TransDepth
        /\ UNCHANGED <<currentState, current_node_id, write_read_num, wire, net_in,
                       lost, vertexUpdate, wrProp, vertexProp>>
    BY DEF ReadProp, transVars, netVars, writeVars
  <1>4. Framing'
    BY <1>1, ReadFraming
  <1>5. /\ vertexTrans[n] \in Seq(PacketFrame)
        /\ Append(vertexTrans[n], f) \in Seq(PacketFrame)
        /\ Len(Append(vertexTrans[n], f)) = Len(vertexTrans[n]) + 1 /\ Len(vertexTrans[n]) \in Nat
        /\ \A i \in 1 .. Len(vertexTrans[n]) + 1 :
               Append(vertexTrans[n], f)[i] = IF i = Len(vertexTrans[n]) + 1 THEN f
                                              ELSE vertexTrans[n][i]
    BY <1>1, <1>2, SMTT(30) DEF Typed
  <1>6. vertexTrans'[n] = Append(vertexTrans[n], f)
        /\ vertexTrans' \in [Node -> Seq(PacketFrame)]
    BY <1>1, <1>2, <1>5 DEF Typed
  <1>7. Typed'
    BY <1>1, <1>2, <1>3, <1>6 DEF Typed
  <1>8. ASSUME NEW m \in Node
        PROVE  Bounded(m)' /\ Reading(m)' /\ OwnFrames(m)'
    <2>1. Bounded(m) /\ Reading(m) /\ OwnFrames(m)
      BY DEF IInv
    <2>2. CASE m = n
      <3>1. Len(vertexTrans'[n]) <= TransDepth
        BY <1>3, <1>5, <1>6, ConstantTypes
      <3>2. \A i \in 1 .. Len(vertexTrans'[n]) : vertexTrans'[n][i].node = n
        BY <1>2, <1>5, <1>6, <2>1, <2>2 DEF OwnFrames
      <3>3. Bounded(n)'
        BY <1>2, <1>3, <2>1, <2>2, <3>1 DEF Bounded
      <3>4. OwnFrames(n)'
        BY <1>3, <2>1, <2>2, <3>2 DEF OwnFrames
      <3> QED BY <1>2, <2>2, <3>3, <3>4
    <2>3. CASE m # n
      <3>1. vertexTrans'[m] = vertexTrans[m] /\ rdProp'[m] = rdProp[m]
        BY <1>1, <1>2, <2>3 DEF Typed
      <3> QED BY <1>3, <2>1, <3>1 DEF Bounded, Reading, OwnFrames
    <2> QED BY <2>2, <2>3
  <1>9. ASSUME NEW m \in Node
        PROVE  Writing(m)' /\ Credited(m)'
    BY <1>3, ZenonT(40) DEF IInv, Writing, Credited, HeadersIn, Marked
  <1>10. BlocksAtTheirAddress'
    BY <1>3 DEF IInv, BlocksAtTheirAddress
  <1> QED BY <1>4, <1>7, <1>8, <1>9, <1>10 DEF IInv

LEMMA WritePropStep ==
    ASSUME IInv, NEW n \in Node, WriteProp(n)
    PROVE  IInv'
  <1>1. Typed /\ Framing /\ Writing(n)
    BY DEF IInv
  <1>2. UNCHANGED <<rdProp, vertexTrans, currentState, current_node_id, write_read_num,
                    wire, net_in, lost>>
    BY DEF WriteProp, WritePropFirst, WritePropRemain, WritePropRuns, readVars, transVars,
           netVars
  <1>3. /\ Framing' /\ Writing(n)'
        /\ vertexUpdate' \in [Node -> Seq(PacketFrame)]
        /\ wrProp' \in [Node -> [state : {"firstFrame", "remainFrame"},
                                 address : Block, offset : 0 .. Payload,
                                 process_packet_num : 0 .. packet_num]]
        /\ \A m \in Node \ {n} : wrProp'[m] = wrProp[m]
        /\ Len(vertexUpdate'[n]) < Len(vertexUpdate[n])
        /\ \/ vertexProp' = vertexProp
           \/ \E a \in Block : vertexProp' = [vertexProp EXCEPT ![n][a] = a]
    BY <1>1, WriteStep
  <1>4. /\ vertexProp' \in [Node -> [Block -> Block \cup {NoBlock}]]
        /\ BlocksAtTheirAddress'
    <2>1. vertexProp \in [Node -> [Block -> Block \cup {NoBlock}]] /\ BlocksAtTheirAddress
      BY <1>1 DEF IInv, Typed
    <2>2. CASE vertexProp' = vertexProp
      BY <2>1, <2>2 DEF BlocksAtTheirAddress
    <2>3. ASSUME NEW a \in Block, vertexProp' = [vertexProp EXCEPT ![n][a] = a]
          PROVE  /\ vertexProp' \in [Node -> [Block -> Block \cup {NoBlock}]]
                 /\ BlocksAtTheirAddress'
      BY <2>1, <2>3 DEF BlocksAtTheirAddress
    <2> QED BY <1>3, <2>2, <2>3
  <1>5. Typed'
    BY <1>1, <1>2, <1>3, <1>4 DEF Typed
  <1>6. ASSUME NEW m \in Node
        PROVE  Bounded(m)' /\ Writing(m)'
    <2>1. Bounded(m) /\ Writing(m)
      BY DEF IInv
    <2>2. CASE m = n
      <3> vertexUpdate[n] \in Seq(PacketFrame) /\ vertexUpdate'[n] \in Seq(PacketFrame)
        BY <1>1, <1>3 DEF Typed
      <3>1. Len(vertexUpdate[n]) \in Nat /\ Len(vertexUpdate'[n]) \in Nat
        OBVIOUS
      <3>2. Len(vertexUpdate'[n]) <= UpdateDepth
        BY <1>3, <2>1, <2>2, <3>1, ConstantTypes DEF Bounded
      <3> QED BY <1>2, <1>3, <2>1, <2>2, <3>2 DEF Bounded
    <2>3. CASE m # n
      <3>1. vertexUpdate'[m] = vertexUpdate[m] /\ wrProp'[m] = wrProp[m]
        BY <1>1, <1>3, <2>3 DEF WriteProp, WritePropFirst, WritePropRemain, WritePropRuns,
                                Pop, Typed
      <3> QED BY <1>2, <2>1, <3>1 DEF Bounded, Writing
    <2> QED BY <2>2, <2>3
  <1>7. ASSUME NEW m \in Node
        PROVE  Reading(m)' /\ OwnFrames(m)' /\ Credited(m)'
    BY <1>2 DEF IInv, Reading, OwnFrames, Credited, HeadersIn, Marked
  <1> QED BY <1>3, <1>4, <1>5, <1>6, <1>7 DEF IInv

LEMMA StutterStep ==
    ASSUME IInv, UNCHANGED vars
    PROVE  IInv'
  <1> USE DEF vars
  <1>1. Typed' /\ BlocksAtTheirAddress'
    BY DEF IInv, Typed, BlocksAtTheirAddress
  <1>2. Framing'
    <2>1. PICK own \in [Node -> Position], mid \in [Node -> Position],
               gap \in [Node -> Position] :
              \A m \in Node : FramedAt(m, own, mid, gap)
      BY DEF IInv, Framing
    <2>2. \A m \in Node : /\ WritePos(m)' = WritePos(m) /\ ReadPos(m)' = ReadPos(m)
                          /\ OutPos(m, own, mid)' = OutPos(m, own, mid)
      BY DEF ReadPos, WritePos, OutPos
    <2>3. \A m \in Node : FramedAt(m, own, mid, gap)'
      BY <2>1, <2>2 DEF FramedAt
    <2> QED BY <2>3 DEF Framing
  <1>3. ASSUME NEW m \in Node
        PROVE  /\ Bounded(m)' /\ Reading(m)' /\ Writing(m)' /\ OwnFrames(m)'
               /\ Credited(m)'
    BY DEF IInv, Bounded, Reading, Writing, OwnFrames, Credited, HeadersIn, Marked
  <1> QED BY <1>1, <1>2, <1>3 DEF IInv

LEMMA NextInvariant == IInv /\ [Next]_vars => IInv'
  <1> SUFFICES ASSUME IInv, [Next]_vars
               PROVE  IInv'
    OBVIOUS
  <1>1. ASSUME NEW n \in Node, ReadProp(n)
        PROVE  IInv'
    BY <1>1, ReadStep
  <1>2. ASSUME NEW n \in Node, GlobalTrans(n)
        PROVE  IInv'
    BY <1>2, GlobalTransStep
  <1>3. ASSUME NEW n \in Node, Arrive(n)
        PROVE  IInv'
    BY <1>3, ArriveStep
  <1>4. ASSUME NEW n \in Node, Drop(n)
        PROVE  IInv'
    BY <1>4, DropStep
  <1>5. ASSUME NEW n \in Node, WriteProp(n)
        PROVE  IInv'
    BY <1>5, WritePropStep
  <1>6. CASE Terminated \/ UNCHANGED vars
    BY <1>6, StutterStep DEF Terminated
  <1> QED BY <1>1, <1>2, <1>3, <1>4, <1>5, <1>6 DEF Next

\* No node computes more partitions than there are.
LEMMA ScheduleLength ==
    ASSUME NEW n \in Node
    PROVE  Len(Schedule[n]) \in 0 .. total_p_num
  <1> DEFINE s == Schedule[n]
             h == [k \in 1 .. Len(s) |-> s[k]]
  <1>1. s \in Seq(Partition) /\ Len(s) \in Nat
    BY ConstantTypes
  <1>2. h \in Injection(1 .. Len(s), Partition)
    <2>1. \A j, k \in DOMAIN s : s[j] = s[k] => j = k
      BY ConstantsAssumption DEF OneOwner
    <2> QED BY <1>1, <2>1 DEF Injection, IsInjective
  <1>3. /\ IsFiniteSet(Partition) /\ Cardinality(Partition) = total_p_num
        /\ Cardinality(1 .. Len(s)) = Len(s)
    <2>1. total_p_num - 1 \in Int /\ total_p_num \in Nat \ {0}
      BY ConstantTypes
    <2>2. IsFiniteSet(0 .. total_p_num - 1) /\ Cardinality(0 .. total_p_num - 1) = total_p_num
      BY <2>1, FS_Interval
    <2>3. Cardinality(1 .. Len(s)) = Len(s)
      BY <1>1, FS_Interval
    <2> QED BY <2>2, <2>3 DEF Partition
  <1> HIDE DEF s, h
  <1>4. Cardinality(1 .. Len(s)) <= Cardinality(Partition)
    BY <1>2, <1>3, FS_Injection
  <1> QED BY <1>1, <1>3, <1>4, ConstantTypes DEF s

LEMMA InvariantTypes == IInv => TypeOK
  <1> SUFFICES ASSUME IInv
               PROVE  TypeOK
    OBVIOUS
  <1>1. Typed
    BY DEF IInv
  <1>2. rdProp \in [Node -> [item : 1 .. total_p_num + 1,
                             i : 0 .. BlockNum + packets_of(BlockNum),
                             address : 0 .. BlockNum, frameId : 0 .. Payload]]
    <2>1. ASSUME NEW n \in Node
          PROVE  rdProp[n] \in [item : 1 .. total_p_num + 1,
                                i : 0 .. BlockNum + packets_of(BlockNum),
                                address : 0 .. BlockNum, frameId : 0 .. Payload]
      <3> PICK rd : rd = rdProp[n]
        OBVIOUS
      <3>1. rd \in [item : Nat \ {0}, i : Nat, address : Nat, frameId : 0 .. Payload]
        BY <1>1 DEF Typed
      <3> PICK r \in 0 .. Payload : r = rd.frameId
        BY <3>1
      <3>2. PICK k \in Nat :
                /\ rd.i = k * Payload + k + r
                /\ rd.i < BlockNum + packets_of(BlockNum)
                /\ rd.address = k * Payload + (IF r = 0 THEN 0 ELSE r - 1)
        BY DEF IInv, Reading
      <3>3. /\ k * Payload \in 0 .. BlockNum - 1
            /\ r > 0 => k * Payload + r - 1 \in 0 .. BlockNum - 1
        BY <3>2, ReadingBounds
      <3> PICK z \in 0 .. BlockNum - 1 : z = k * Payload
        BY <3>3
      <3>4. rd.address \in 0 .. BlockNum
        BY <3>2, <3>3, ConstantTypes
      <3>5. rd.i \in 0 .. BlockNum + packets_of(BlockNum)
        BY <3>1, <3>2, PacketsOf, ConstantTypes
      <3>6. rd.item \in 1 .. total_p_num + 1
        <4>1. rd.item <= Len(Schedule[n]) + 1
          BY DEF IInv, Bounded
        <4> QED BY <3>1, <4>1, ScheduleLength, ConstantTypes, SMTT(30)
      <3> QED BY <3>1, <3>4, <3>5, <3>6
    <2> QED BY <1>1, <2>1 DEF Typed
  <1>3. Seq(PacketFrame) \subseteq Seq(Frame)
    BY DEF PacketFrame
  <1>4. ASSUME NEW n \in Node
        PROVE  /\ vertexTrans[n] \in Seq(Frame) /\ Len(vertexTrans[n]) <= TransDepth
               /\ wire[n] \in Seq(Frame)
               /\ net_in[n] \in Seq(Frame) /\ Len(net_in[n]) <= NetDepth
               /\ vertexUpdate[n] \in Seq(Frame) /\ Len(vertexUpdate[n]) <= UpdateDepth
    BY <1>1, <1>3 DEF IInv, Typed, Bounded
  <1>5. write_read_num \in [Node -> 0 .. FIFO_len]
    <2>1. ASSUME NEW n \in Node
          PROVE  write_read_num[n] \in 0 .. FIFO_len
      <3> DEFINE c == Cardinality(HeadersIn(wire, n))
                 d == Cardinality(HeadersIn(net_in, n))
      <3>1. c \in Nat /\ d \in Nat
        BY FS_CardinalityType DEF IInv, Credited
      <3>2. c + d <= write_read_num[n] /\ write_read_num[n] <= FIFO_len
        BY DEF IInv, Credited
      <3>3. write_read_num[n] \in Int
        BY <1>1 DEF Typed
      <3> HIDE DEF c, d
      <3> QED BY <3>1, <3>2, <3>3, ConstantTypes
    <2> QED BY <1>1, <2>1 DEF Typed
  <1> QED BY <1>1, <1>2, <1>4, <1>5 DEF Typed, TypeOK

-----------------------------------------------------------------------------
(***************************************************************************)
(* The packets on the links and in the FIFOs are whole and in order, and   *)
(* every credit that is out is counted, in every reachable state.          *)
(***************************************************************************)
THEOREM Invariance == Spec => []IInv
  <1>1. Init => IInv
    BY InitInvariant
  <1>2. IInv /\ [Next]_vars => IInv'
    BY NextInvariant
  <1> QED BY <1>1, <1>2, PTL DEF Spec

(***************************************************************************)
(* No FIFO holds more frames than it has room for, no write_read_num falls *)
(* below zero or exceeds FIFO_len, and no counter of readProp or writeProp *)
(* leaves its range.                                                       *)
(***************************************************************************)
THEOREM TypeCorrect == Spec => []TypeOK
  BY Invariance, InvariantTypes, PTL

(***************************************************************************)
(* writeProp stores no block at another block's address, whatever the ring *)
(* loses, however many FPGAs there are and whatever they compute.          *)
(***************************************************************************)
THEOREM EveryBlockAtItsAddress == Spec => []BlocksAtTheirAddress
  <1>1. IInv => BlocksAtTheirAddress
    BY DEF IInv
  <1> QED BY <1>1, Invariance, PTL

-----------------------------------------------------------------------------
(* The length of a FIFO, from the headers in it. *)

Heads(q) == {i \in 1 .. Len(q) : q[i].head}

LEMMA HeadsTail ==
    ASSUME NEW q \in Seq(PacketFrame), q # <<>>
    PROVE  /\ Cardinality(Heads(q)) \in Nat /\ Cardinality(Heads(Tail(q))) \in Nat
           /\ Cardinality(Heads(Tail(q))) <= Cardinality(Heads(q))
           /\ Head(q).head => Cardinality(Heads(Tail(q))) + 1 <= Cardinality(Heads(q))
  <1> DEFINE t == Tail(q)
  <1>1. /\ Len(q) \in Nat \ {0} /\ Len(t) = Len(q) - 1 /\ Head(q) = q[1]
        /\ \A i \in 1 .. Len(t) : t[i] = q[i + 1]
    OBVIOUS
  <1> HIDE DEF t
  <1> DEFINE S == Heads(t)
             T == Heads(q) \ {1}
             h == [i \in S |-> i + 1]
  <1>2. IsFiniteSet(Heads(q)) /\ IsFiniteSet(S)
    <2>1. IsFiniteSet(1 .. Len(q)) /\ IsFiniteSet(1 .. Len(t))
      BY <1>1, FS_Interval
    <2> QED BY <2>1, FS_Subset DEF Heads
  <1>3. h \in Injection(S, T)
    BY <1>1 DEF Injection, IsInjective, Heads
  <1>4. IsFiniteSet(T) /\ Cardinality(T) = IF 1 \in Heads(q) THEN Cardinality(Heads(q)) - 1
                                          ELSE Cardinality(Heads(q))
    BY <1>2, FS_RemoveElement
  <1>5. Head(q).head => 1 \in Heads(q)
    BY <1>1 DEF Heads
  <1> HIDE DEF S, T, h
  <1>6. Cardinality(S) <= Cardinality(T)
    BY <1>3, <1>4, FS_Injection
  <1>7. Cardinality(S) \in Nat /\ Cardinality(Heads(q)) \in Nat
    BY <1>2, FS_CardinalityType
  <1> QED BY <1>4, <1>5, <1>6, <1>7 DEF S, t

\* The frames of a packet that are still to come at position a.
Rest(a) == IF a = Boundary THEN 0 ELSE Payload - Slot(a)

LEMMA RestType ==
    ASSUME NEW a \in Position
    PROVE  Rest(a) \in 0 .. Payload /\ (a # Boundary => Rest(a) > 0)
  <1>1. a \in Int
    BY PositionType
  <1>2. Slot(a) \in 0 .. Payload - 1
    BY <1>1, SlotType
  <1> PICK z \in 0 .. Payload - 1 : z = Slot(a)
    BY <1>2
  <1> QED BY ConstantTypes DEF Rest

\* A FIFO holds whole packets but for the first one and the last one.
LEMMA FlowLength ==
    ASSUME NEW q \in Seq(PacketFrame), NEW a \in Position, NEW b, Flow(q, a, b)
    PROVE  Len(q) <= Cardinality(Heads(q)) * (Payload + 1) + Rest(a)
  <1> DEFINE Bound(p, c) == Cardinality(Heads(p)) * (Payload + 1) + Rest(c)
             S == {k \in Nat : \E p \in Seq(PacketFrame) : \E c \in Position :
                       Len(p) = k /\ Flow(p, c, b) /\ ~(k <= Bound(p, c))}
  <1>1. SUFFICES ASSUME S # {}
                 PROVE  FALSE
    <2>1. Len(q) \in Nat
      OBVIOUS
    <2> QED BY <2>1
  <1>2. PICK k \in S : \A j \in S : k <= j
    <2>1. S \in SUBSET Nat
      OBVIOUS
    <2> HIDE DEF S
    <2> QED BY <1>1, <2>1, LeastNatural
  <1>3. PICK p \in Seq(PacketFrame), c \in Position :
            k \in Nat /\ Len(p) = k /\ Flow(p, c, b) /\ ~(k <= Bound(p, c))
    OBVIOUS
  <1> HIDE DEF S
  <1>4. CASE p = <<>>
    <2>1. k = 0 /\ Heads(p) = {}
      BY <1>3, <1>4 DEF Heads
    <2>2. Cardinality(Heads(p)) = 0 /\ Rest(c) \in Nat
      BY <2>1, FS_EmptySet, RestType
    <2>3. 0 * (Payload + 1) = 0
      BY ConstantTypes
    <2> QED BY <1>3, <2>1, <2>2, <2>3
  <1>5. CASE p # <<>>
    <2> PICK f : f = Head(p)
      OBVIOUS
    <2> PICK t : t = Tail(p)
      OBVIOUS
    <2>1. f \in PacketFrame /\ t \in Seq(PacketFrame) /\ At(f) = c /\ Flow(t, After(f), b)
      BY <1>3, <1>5, FlowHead, FlowTail
    <2>2. Len(t) = k - 1 /\ Len(t) \in Nat
      BY <1>3, <1>5
    <2>3. After(f) \in Position
      BY <2>1, FramePositions
    <2>4. Len(t) <= Bound(t, After(f))
      <3>1. Len(t) \notin S
        BY <1>2, <1>3, <2>2
      <3> QED BY <2>1, <2>2, <2>3, <3>1 DEF S
    <2> PICK x \in Nat : x = Cardinality(Heads(p))
      BY <1>5, HeadsTail
    <2> PICK y \in Nat : y = Cardinality(Heads(t))
      BY <1>5, HeadsTail
    <2>5. y <= x /\ (f.head => y + 1 <= x)
      BY <1>5, HeadsTail
    <2> PICK d \in Nat : d = Payload + 1
      BY ConstantTypes
    <2>11. PICK xd \in Nat : xd = x * d
      OBVIOUS
    <2>12. PICK yd \in Nat : yd = y * d
      OBVIOUS
    <2>6. yd <= xd /\ (f.head => yd + d <= xd)
      <3>1. yd <= xd
        BY <2>5, <2>11, <2>12, TimesMonotone
      <3>2. ASSUME f.head
            PROVE  yd + d <= xd
        <4>1. y + 1 \in Nat /\ y + 1 <= x
          BY <2>5, <3>2
        <4>2. (y + 1) * d <= x * d
          BY <4>1, TimesMonotone
        <4>3. (y + 1) * d = yd + d
          BY <2>12
        <4> QED BY <2>11, <4>2, <4>3
      <3> QED BY <3>1, <3>2
    <2>7. k - 1 <= yd + Rest(After(f)) /\ ~(k <= xd + Rest(c)) /\ k \in Nat
      BY <1>3, <2>2, <2>4, <2>11, <2>12
    <2>8. Rest(c) \in 0 .. Payload /\ Rest(After(f)) \in 0 .. Payload
      BY <2>3, RestType
    <2>9. CASE f.head
      <3> HIDE DEF Bound
      <3> PICK r \in 0 .. Payload : r = Rest(After(f))
        BY <2>8
      <3> PICK r1 \in 0 .. Payload : r1 = Rest(c)
        BY <2>8
      <3>1. k <= yd + Payload + 1 /\ yd + Payload + 1 <= xd
        <4>1. d = Payload + 1 /\ xd \in Nat /\ yd \in Nat
          BY <2>11, <2>12
        <4>2. k - 1 <= yd + r /\ k \in Nat /\ yd + d <= xd
          BY <2>6, <2>7, <2>9
        <4> QED BY <4>1, <4>2, ConstantTypes
      <3>2. ~(k <= xd + r1) /\ xd \in Nat
        BY <2>7, <2>11
      <3> QED BY <2>7, <3>1, <3>2, ConstantTypes, SMTT(30)
    <2>10. CASE ~f.head
      <3>1. c # Boundary /\ Rest(c) > 0
        BY <2>1, <2>10, FramePositions, RestType
      <3>2. Rest(After(f)) + 1 <= Rest(c)
        <4>1. CASE f.last
          <5>1. Rest(After(f)) = 0
            BY <2>1, <4>1, FramePositions DEF Rest
          <5> QED BY <2>8, <3>1, <5>1
        <4>2. CASE ~f.last
          <5>1. After(f) # Boundary /\ Slot(After(f)) = Slot(c) + 1
            BY <2>1, <2>10, <4>2, FramePositions
          <5>2. Slot(c) \in Int
            BY SlotType, PositionType
          <5> QED BY <3>1, <5>1, <5>2, ConstantTypes DEF Rest
        <4> QED BY <4>1, <4>2
      <3> HIDE DEF Bound
      <3> PICK r \in 0 .. Payload : r = Rest(After(f))
        BY <2>8
      <3> PICK r1 \in 0 .. Payload : r1 = Rest(c)
        BY <2>8
      <3>3. r + 1 <= r1 /\ yd <= xd /\ xd \in Nat /\ yd \in Nat /\ k \in Nat
        BY <2>6, <2>7, <2>11, <2>12, <3>2
      <3>4. k - 1 <= yd + r /\ ~(k <= xd + r1)
        BY <2>7
      <3> QED BY <3>3, <3>4, ConstantTypes, SMTT(30)
    <2> QED BY <2>9, <2>10
  <1> QED BY <1>4, <1>5
-----------------------------------------------------------------------------
(* The packets of all nodes together: FIFO_len for each of them. *)

HeadersBelow(q, k) ==
    {l \in Node \X Nat :
        /\ l[2] \in DOMAIN q[l[1]]
        /\ q[l[1]][l[2]].head
        /\ q[l[1]][l[2]].node < k}

LEMMA HeadersBelowNext ==
    ASSUME NEW q \in [Node -> Seq(PacketFrame)], NEW k \in Node,
           IsFiniteSet(HeadersBelow(q, k)), IsFiniteSet(HeadersIn(q, k))
    PROVE  /\ IsFiniteSet(HeadersBelow(q, k + 1))
           /\ Cardinality(HeadersBelow(q, k + 1))
                  <= Cardinality(HeadersBelow(q, k)) + Cardinality(HeadersIn(q, k))
  <1> DEFINE S == HeadersBelow(q, k)
             T == HeadersIn(q, k)
  <1>1. HeadersBelow(q, k + 1) = S \cup T
    <2>1. \A m \in Node, i \in Nat : i \in DOMAIN q[m] => q[m][i] \in PacketFrame
      OBVIOUS
    <2>2. ASSUME NEW l \in Node \X Nat, l[2] \in DOMAIN q[l[1]]
          PROVE  q[l[1]][l[2]].node < k + 1
                     <=> q[l[1]][l[2]].node < k \/ q[l[1]][l[2]].node = k
      <3>1. q[l[1]][l[2]].node \in Node
        BY <2>1, <2>2, FramePositions
      <3> PICK x \in Node : x = q[l[1]][l[2]].node
        BY <3>1
      <3> QED BY RingAssumption, SMTT(30) DEF Node
    <2>3. ASSUME NEW l \in Node \X Nat, l[2] \in DOMAIN q[l[1]]
          PROVE  <<l[1], q[l[1]][l[2]]>> \in Node \X {f \in PacketFrame : f.head /\ f.node = k}
                     <=> q[l[1]][l[2]].head /\ q[l[1]][l[2]].node = k
      BY <2>1, <2>3
    <2> QED BY <2>2, <2>3 DEF HeadersBelow, HeadersIn, Marked
  <1> HIDE DEF S, T
  <1>2. /\ IsFiniteSet(S \cup T)
        /\ Cardinality(S \cup T) = Cardinality(S) + Cardinality(T) - Cardinality(S \cap T)
    BY FS_Union DEF S, T
  <1>3. Cardinality(S) \in Nat /\ Cardinality(T) \in Nat /\ Cardinality(S \cap T) \in Nat
    <2>1. IsFiniteSet(S \cap T)
      BY FS_Intersection DEF S, T
    <2> QED BY <2>1, FS_CardinalityType DEF S, T
  <1>4. Cardinality(S \cup T) <= Cardinality(S) + Cardinality(T)
    BY <1>2, <1>3
  <1> QED BY <1>1, <1>2, <1>4 DEF S, T

LEMMA LoadSum ==
    ASSUME NEW vk \in Nat, NEW wk \in Nat, NEW vn \in Nat, NEW wn \in Nat,
           NEW a \in Nat, NEW b \in Nat, NEW d \in Nat, NEW e \in Nat,
           NEW z \in Nat, NEW c \in Nat,
           vk <= vn + a, wk <= wn + b, a + b + e <= c, vn + wn + d <= z
    PROVE  vk + wk + (d + e) <= z + c
  OBVIOUS

\* Node m keeps e credits back.
LEMMA RingLoad ==
    ASSUME NEW v \in [Node -> Seq(PacketFrame)], NEW w \in [Node -> Seq(PacketFrame)],
           NEW m \in Node, NEW e \in {0, 1},
           \A n \in Node :
               /\ IsFiniteSet(HeadersIn(v, n)) /\ IsFiniteSet(HeadersIn(w, n))
               /\ Cardinality(HeadersIn(v, n)) + Cardinality(HeadersIn(w, n))
                      + (IF n = m THEN e ELSE 0) <= FIFO_len
    PROVE  LET V == HeadersBelow(v, PROCESSOR_NUM)
               W == HeadersBelow(w, PROCESSOR_NUM)
           IN  /\ IsFiniteSet(V) /\ IsFiniteSet(W)
               /\ Cardinality(V) + Cardinality(W) + e <= PROCESSOR_NUM * FIFO_len
  <1> DEFINE V(k) == HeadersBelow(v, k)
             W(k) == HeadersBelow(w, k)
             Load(k) == /\ IsFiniteSet(V(k)) /\ IsFiniteSet(W(k))
                        /\ Cardinality(V(k)) + Cardinality(W(k)) + (IF m < k THEN e ELSE 0)
                               <= k * FIFO_len
             S == {k \in 0 .. PROCESSOR_NUM : ~Load(k)}
  <1>1. ASSUME S # {}
        PROVE  FALSE
    <2>1. PICK k \in S : \A j \in S : k <= j
      <3>1. S \in SUBSET Nat
        OBVIOUS
      <3> HIDE DEF S
      <3> QED BY <1>1, <3>1, LeastNatural
    <2>2. k \in 0 .. PROCESSOR_NUM /\ ~Load(k)
      OBVIOUS
    <2>3. CASE k = 0
      <3>1. V(0) = {} /\ W(0) = {}
        <4>1. \A n \in Node, i \in Nat :
                  /\ i \in DOMAIN v[n] => v[n][i] \in PacketFrame
                  /\ i \in DOMAIN w[n] => w[n][i] \in PacketFrame
          OBVIOUS
        <4>2. \A f \in PacketFrame : ~(f.node < 0)
          <5> SUFFICES ASSUME NEW f \in PacketFrame
                       PROVE  ~(f.node < 0)
            OBVIOUS
          <5> PICK x \in Node : x = f.node
            BY FramePositions
          <5> QED BY RingAssumption DEF Node
        <4> QED BY <4>1, <4>2 DEF HeadersBelow
      <3>2. IsFiniteSet({}) /\ Cardinality({}) = 0
        BY FS_EmptySet
      <3>3. ~(m < 0) /\ 0 * FIFO_len = 0
        BY RingAssumption, ConstantTypes DEF Node
      <3> HIDE DEF V, W
      <3>4. Cardinality(V(0)) + Cardinality(W(0)) + (IF m < 0 THEN e ELSE 0) <= 0 * FIFO_len
        <4>1. Cardinality(V(0)) = 0 /\ Cardinality(W(0)) = 0 /\ (IF m < 0 THEN e ELSE 0) = 0
          BY <3>1, <3>2, <3>3
        <4> QED BY <3>3, <4>1
      <3>5. Load(0)
        BY <3>1, <3>2, <3>4
      <3> QED BY <2>2, <2>3, <3>5
    <2>4. CASE k # 0
      <3>11. FIFO_len \in Nat
        BY ConstantTypes
      <3> PICK n \in Node : n = k - 1 /\ k = n + 1 /\ n \in 0 .. PROCESSOR_NUM /\ n < k
        BY <2>2, <2>4, RingAssumption DEF Node
      <3>1. Load(n)
        <4>1. n \notin S
          BY <2>1, <2>2
        <4> HIDE DEF Load
        <4> QED BY <4>1
      <3> PICK a \in Nat : a = Cardinality(HeadersIn(v, n))
        BY FS_CardinalityType
      <3> PICK b \in Nat : b = Cardinality(HeadersIn(w, n))
        BY FS_CardinalityType
      <3>2. a + b + (IF n = m THEN e ELSE 0) <= FIFO_len
        OBVIOUS
      <3>3. /\ IsFiniteSet(V(k)) /\ Cardinality(V(k)) <= Cardinality(V(n)) + a
            /\ IsFiniteSet(W(k)) /\ Cardinality(W(k)) <= Cardinality(W(n)) + b
        BY <3>1, HeadersBelowNext
      <3>4. /\ Cardinality(V(n)) \in Nat /\ Cardinality(V(k)) \in Nat
            /\ Cardinality(W(n)) \in Nat /\ Cardinality(W(k)) \in Nat
        BY <3>1, <3>3, FS_CardinalityType
      <3>5. (n + 1) * FIFO_len = n * FIFO_len + FIFO_len
        BY ConstantTypes, RingAssumption DEF Node
      <3>10. PICK z \in Nat : z = n * FIFO_len
        BY ConstantTypes, RingAssumption DEF Node
      <3>6. m < k <=> m < n \/ n = m
        BY RingAssumption DEF Node
      <3>7. ~(n = m /\ m < n)
        BY RingAssumption DEF Node
      <3> HIDE DEF V, W
      <3>8. Cardinality(V(n)) + Cardinality(W(n)) + (IF m < n THEN e ELSE 0) <= z
        BY <3>1, <3>10
      <3>9. Cardinality(V(k)) + Cardinality(W(k)) + (IF m < k THEN e ELSE 0) <= z + FIFO_len
        <4> PICK vn \in Nat : vn = Cardinality(V(n))
          BY <3>4
        <4> PICK wn \in Nat : wn = Cardinality(W(n))
          BY <3>4
        <4> PICK vk \in Nat : vk = Cardinality(V(k))
          BY <3>4
        <4> PICK wk \in Nat : wk = Cardinality(W(k))
          BY <3>4
        <4>1. vk <= vn + a /\ wk <= wn + b
          BY <3>3
        <4>2. vn + wn + (IF m < n THEN e ELSE 0) <= z
          BY <3>8
        <4> PICK e1 \in {0, 1} : e1 = IF m < n THEN e ELSE 0
          OBVIOUS
        <4> PICK e2 \in {0, 1} : e2 = IF n = m THEN e ELSE 0
          OBVIOUS
        <4>6. e \in Nat /\ e1 \in Nat /\ e2 \in Nat
          OBVIOUS
        <4>3. (IF m < k THEN e ELSE 0) = e1 + e2
          <5>1. CASE n = m
            <6>1. m < k /\ ~(m < n)
              BY <3>6, <3>7, <5>1
            <6>2. e1 = 0 /\ e2 = e
              BY <5>1, <6>1
            <6> QED BY <4>6, <6>1, <6>2
          <5>2. CASE n # m
            BY <3>6, <5>2
          <5> QED BY <5>1, <5>2
        <4>4. a + b + e2 <= FIFO_len /\ vn + wn + e1 <= z
          BY <3>2, <4>2
        <4> HIDE DEF V, W
        <4>5. vk + wk + (e1 + e2) <= z + FIFO_len
          BY <3>10, <3>11, <4>1, <4>4, <4>6, LoadSum, ZenonT(90)
        <4> QED BY <4>3, <4>5
      <3> QED BY <2>2, <3>3, <3>5, <3>9, <3>10
    <2> QED BY <2>3, <2>4
  <1>2. Load(PROCESSOR_NUM)
    <2>1. PROCESSOR_NUM \in 0 .. PROCESSOR_NUM
      BY RingAssumption
    <2> HIDE DEF Load
    <2> QED BY <1>1, <2>1
  <1>3. m < PROCESSOR_NUM
    BY RingAssumption DEF Node
  <1> QED BY <1>2, <1>3
-----------------------------------------------------------------------------
(* The packet that is being forwarded, and the one that is coming home. *)

\* A link that takes the header or a further frame of a packet, not its last,
\* holds an open packet.
LEMMA OpenPush ==
    ASSUME NEW w \in Seq(PacketFrame), NEW f \in PacketFrame, ~f.last,
           \/ f.head
           \/ \E i \in 1 .. Len(w) : w[i].head /\ \A k \in i .. Len(w) : ~w[k].last,
           NEW v, v = Append(w, f)
    PROVE  \E i \in 1 .. Len(v) : v[i].head /\ \A k \in i .. Len(v) : ~v[k].last
  <1>1. /\ Len(v) = Len(w) + 1 /\ Len(w) \in Nat
        /\ \A i \in 1 .. Len(w) : v[i] = w[i]
        /\ v[Len(w) + 1] = f
    OBVIOUS
  <1>2. CASE f.head
    <2>1. Len(w) + 1 \in 1 .. Len(v) /\ \A k \in Len(w) + 1 .. Len(v) : k = Len(w) + 1
      BY <1>1
    <2> QED BY <1>1, <1>2, <2>1
  <1>3. ASSUME NEW i \in 1 .. Len(w), w[i].head, \A k \in i .. Len(w) : ~w[k].last
        PROVE  v[i].head /\ \A k \in i .. Len(v) : ~v[k].last
    <2>1. \A k \in i .. Len(v) : k \in i .. Len(w) \/ k = Len(w) + 1
      BY <1>1
    <2>2. i .. Len(w) \subseteq 1 .. Len(w)
      BY <1>1
    <2> QED BY <1>1, <1>3, <2>1, <2>2
  <1>4. 1 .. Len(w) \subseteq 1 .. Len(v)
    BY <1>1
  <1> QED BY <1>2, <1>3, <1>4

\* What leaves a link leaves the open packet on it.
LEMMA OpenCut ==
    ASSUME Typed, NEW n \in Node, OpenPacket(n), currentState'[n] = currentState[n],
           NEW j \in 1 .. Len(wire[n]), wire'[n] = SubSeq(wire[n], j + 1, Len(wire[n])),
           \A i \in 1 .. j : wire[n][i].head => \E k \in i .. Len(wire[n]) : wire[n][k].last
    PROVE  OpenPacket(n)'
  <1> SUFFICES ASSUME currentState[n] \in {"onlySend", "remainFrame_other"}
               PROVE  \E i \in 1 .. Len(wire'[n]) :
                          /\ wire'[n][i].head
                          /\ \A k \in i .. Len(wire'[n]) : ~wire'[n][k].last
    BY DEF OpenPacket
  <1> PICK w \in Seq(PacketFrame) : w = wire[n]
    BY DEF Typed
  <1> PICK s : s = SubSeq(w, j + 1, Len(w))
    OBVIOUS
  <1>1. /\ Len(w) \in Nat /\ Len(w) - j \in Nat /\ s \in Seq(PacketFrame) /\ Len(s) = Len(w) - j
        /\ \A i \in 1 .. Len(w) - j : s[i] = w[i + j]
    OBVIOUS
  <1>2. PICK i \in 1 .. Len(w) : w[i].head /\ \A k \in i .. Len(w) : ~w[k].last
    BY DEF OpenPacket
  <1>3. i > j
    <2> SUFFICES ASSUME i <= j
                 PROVE  FALSE
      OBVIOUS
    <2>1. i \in 1 .. j
      BY <1>1
    <2> QED BY <1>2, <2>1
  <1>4. /\ i - j \in 1 .. Len(s)
        /\ s[i - j].head
        /\ \A k \in i - j .. Len(s) : ~s[k].last
    <2>1. i - j \in 1 .. Len(w) - j /\ (i - j) + j = i
      BY <1>1, <1>3
    <2>2. s[i - j] = w[(i - j) + j]
      BY <1>1, <2>1
    <2>3. ASSUME NEW k \in i - j .. Len(s)
          PROVE  ~s[k].last
      <3>1. k \in 1 .. Len(w) - j /\ k + j \in i .. Len(w)
        BY <1>1, <2>1
      <3>2. s[k] = w[k + j]
        BY <1>1, <3>1
      <3> QED BY <1>2, <3>1, <3>2
    <2> QED BY <1>1, <1>2, <2>1, <2>2, <2>3
  <1> QED BY <1>4

LEMMA CreditTransStep ==
    ASSUME IInv, NEW n \in Node, OpenPacket(n), HomeCredit(n), GlobalTrans(n)
    PROVE  OpenPacket(n)' /\ HomeCredit(n)'
  <1>1. PICK own \in [Node -> Position], mid \in [Node -> Position],
             gap \in [Node -> Position] :
            \A m \in Node : FramedAt(m, own, mid, gap)
    BY DEF IInv, Framing
  <1>2. Typed /\ FramedAt(n, own, mid, gap) /\ Credited(n)
    BY <1>1 DEF IInv
  <1>3. \A s : Goto(n, s) => currentState'[n] = s
    BY <1>2 DEF Goto, Typed
  <1>4. CASE FirstFrameSame(n)
    <2>1. currentState'[n] = "remainFrame_same"
      BY <1>3, <1>4 DEF FirstFrameSame
    <2>2. write_read_num'[n] = write_read_num[n] - 1
      BY <1>2, <1>4 DEF FirstFrameSame, Typed
    <2>3. write_read_num[n] \in Int /\ write_read_num[n] <= FIFO_len
      BY <1>2 DEF Typed, Credited
    <2>4. write_read_num'[n] < FIFO_len
      BY <2>2, <2>3, ConstantTypes
    <2> QED BY <2>1, <2>4 DEF OpenPacket, HomeCredit
  <1>5. CASE FirstFrameOwn(n) \/ OnlySend(n)
    <2> PICK f : f = Head(vertexTrans[n])
      OBVIOUS
    <2> PICK w \in Seq(PacketFrame) : w = wire[n]
      BY <1>2 DEF Typed
    <2>1. f \in PacketFrame /\ At(f) = own[n]
      <3>1. vertexTrans[n] \in Seq(PacketFrame) /\ vertexTrans[n] # <<>>
            /\ Flow(vertexTrans[n], own[n], ReadPos(n))
        BY <1>2, <1>5 DEF FirstFrameOwn, OnlySend, Typed, FramedAt
      <3> QED BY <3>1, FlowHead
    <2>2. wire'[n] = Append(w, f)
      BY <1>2, <1>5 DEF FirstFrameOwn, OnlySend, Send, Push, Typed
    <2>3. \/ currentState'[n] = "firstFrame"
          \/ /\ currentState'[n] = "onlySend" /\ ~f.last
             /\ \/ f.head
                \/ \E i \in 1 .. Len(w) : w[i].head /\ \A k \in i .. Len(w) : ~w[k].last
      <3>1. CASE FirstFrameOwn(n)
        <4>1. own[n] = Boundary
          BY <1>2, <3>1 DEF FramedAt, FirstFrameOwn
        <4> QED BY <1>3, <2>1, <3>1, <4>1, FramePositions DEF FirstFrameOwn
      <3>2. CASE OnlySend(n)
        <4>1. \E i \in 1 .. Len(w) : w[i].head /\ \A k \in i .. Len(w) : ~w[k].last
          BY <3>2 DEF OpenPacket, OnlySend
        <4> QED BY <1>3, <3>2, <4>1 DEF OnlySend
      <3> QED BY <1>5, <3>1, <3>2
    <2> QED BY <2>1, <2>2, <2>3, OpenPush DEF OpenPacket, HomeCredit
  <1>6. CASE RemainFrameSame(n)
    <2>1. currentState'[n] \in {"firstFrame", "remainFrame_same"} /\ UNCHANGED write_read_num
          /\ currentState[n] = "remainFrame_same"
      BY <1>3, <1>6 DEF RemainFrameSame
    <2> QED BY <2>1 DEF OpenPacket, HomeCredit
  <1>7. CASE FirstFrameOther(n) \/ RemainFrameOther(n)
    <2> PICK f : f = Head(net_in[n])
      OBVIOUS
    <2> PICK w \in Seq(PacketFrame) : w = wire[n]
      BY <1>2 DEF Typed
    <2>1. f \in PacketFrame /\ At(f) = mid[n]
      BY <1>2, <1>7, TakeFlows DEF FirstFrameOther, RemainFrameOther
    <2>2. wire'[n] = Append(w, f)
      BY <1>2, <1>7 DEF FirstFrameOther, RemainFrameOther, Send, Push, Typed
    <2>3. \/ currentState'[n] = "firstFrame"
          \/ /\ currentState'[n] = "remainFrame_other" /\ ~f.last
             /\ \/ f.head
                \/ \E i \in 1 .. Len(w) : w[i].head /\ \A k \in i .. Len(w) : ~w[k].last
      <3>1. CASE FirstFrameOther(n)
        <4>1. mid[n] = Boundary
          BY <1>2, <3>1 DEF FramedAt, FirstFrameOther
        <4> QED BY <1>3, <2>1, <3>1, <4>1, FramePositions DEF FirstFrameOther
      <3>2. CASE RemainFrameOther(n)
        <4>1. \E i \in 1 .. Len(w) : w[i].head /\ \A k \in i .. Len(w) : ~w[k].last
          BY <3>2 DEF OpenPacket, RemainFrameOther
        <4> QED BY <1>3, <3>2, <4>1 DEF RemainFrameOther
      <3> QED BY <1>7, <3>1, <3>2
    <2> QED BY <2>1, <2>2, <2>3, OpenPush DEF OpenPacket, HomeCredit
  <1> QED BY <1>4, <1>5, <1>6, <1>7 DEF GlobalTrans

LEMMA CreditNext == CreditInv /\ [Next]_vars => CreditInv'
  <1> SUFFICES ASSUME CreditInv, [Next]_vars
               PROVE  CreditInv'
    OBVIOUS
  <1>1. IInv /\ IInv' /\ Typed
    BY NextInvariant DEF CreditInv, IInv
  <1>2. SUFFICES ASSUME NEW m \in Node
                 PROVE  OpenPacket(m)' /\ HomeCredit(m)'
    BY <1>1 DEF CreditInv
  <1>3. OpenPacket(m) /\ HomeCredit(m)
    BY DEF CreditInv
  <1>4. ASSUME UNCHANGED <<wire, currentState, write_read_num>>
        PROVE  OpenPacket(m)' /\ HomeCredit(m)'
    BY <1>3, <1>4 DEF OpenPacket, HomeCredit
  <1>5. ASSUME NEW n \in Node, GlobalTrans(n)
        PROVE  OpenPacket(m)' /\ HomeCredit(m)'
    <2>1. CASE m = n
      BY <1>1, <1>3, <1>5, <2>1, CreditTransStep
    <2>2. CASE m # n
      <3>1. /\ wire'[m] = wire[m] /\ currentState'[m] = currentState[m]
            /\ write_read_num'[m] = write_read_num[m]
        BY <1>1, <1>5, <2>2 DEF GlobalTrans, FirstFrameSame, FirstFrameOther, FirstFrameOwn,
               RemainFrameSame, RemainFrameOther, OnlySend, Send, Push, Goto, Typed
      <3> QED BY <1>3, <3>1 DEF OpenPacket, HomeCredit
    <2> QED BY <2>1, <2>2
  <1>6. ASSUME NEW n \in Node, Arrive(n) \/ Drop(n)
        PROVE  OpenPacket(m)' /\ HomeCredit(m)'
    <2> PICK u \in Node : u = upper_worker_idx(n)
      BY Neighbours
    <2> PICK w \in Seq(PacketFrame) : w = wire[u]
      BY <1>1 DEF Typed
    <2>1. UNCHANGED <<currentState, write_read_num>>
      BY <1>6 DEF Arrive, Drop, transVars
    <2>2. HomeCredit(m)'
      BY <1>3, <2>1 DEF HomeCredit
    <2>3. PICK j \in 1 .. Len(w) :
              /\ wire' = [wire EXCEPT ![u] = SubSeq(w, j + 1, Len(w))]
              /\ \A i \in 1 .. j : w[i].head => \E k \in i .. Len(w) : w[k].last
      <3>1. CASE Arrive(n)
        <4>1. w # <<>> /\ wire' = [wire EXCEPT ![u] = Tail(w)]
              /\ (Head(w).head => Complete(w))
          BY <3>1 DEF Arrive, Pop
        <4>2. Tail(w) = SubSeq(w, 1 + 1, Len(w)) /\ 1 \in 1 .. Len(w) /\ Head(w) = w[1]
          <5>1. Tail(w) = SubSeq(w, 2, Len(w))
            BY TailIsSubSeq
          <5>2. 1 + 1 = 2
            OBVIOUS
          <5> QED BY <4>1, <5>1, <5>2
        <4>3. \A i \in 1 .. 1 : w[i].head => \E k \in i .. Len(w) : w[k].last
          BY <4>1, <4>2 DEF Complete
        <4> QED BY <4>1, <4>2, <4>3
      <3>2. CASE Drop(n)
        <4>1. w # <<>> /\ Complete(w)
              /\ wire' = [wire EXCEPT ![u] = SubSeq(w, DatagramLen(w) + 1, Len(w))]
          BY <3>2 DEF Drop
        <4>2. DatagramLen(w) \in 1 .. Len(w) /\ w[DatagramLen(w)].last
          BY <4>1, FirstDatagram
        <4>3. \A i \in 1 .. DatagramLen(w) : DatagramLen(w) \in i .. Len(w)
          BY <4>2
        <4> QED BY <4>1, <4>2, <4>3
      <3> QED BY <1>6, <3>1, <3>2
    <2>4. CASE m = u
      <3>1. wire'[m] = SubSeq(wire[m], j + 1, Len(wire[m]))
        BY <1>1, <2>3, <2>4 DEF Typed
      <3>2. currentState'[m] = currentState[m] /\ j \in 1 .. Len(wire[m])
        BY <2>1, <2>4
      <3>3. \A i \in 1 .. j : wire[m][i].head => \E k \in i .. Len(wire[m]) : wire[m][k].last
        BY <2>3, <2>4
      <3> QED BY <1>1, <1>3, <2>2, <3>1, <3>2, <3>3, OpenCut
    <2>5. CASE m # u
      <3>1. wire'[m] = wire[m]
        BY <1>1, <2>3, <2>5 DEF Typed
      <3> QED BY <1>3, <2>1, <2>2, <3>1 DEF OpenPacket
    <2> QED BY <2>4, <2>5
  <1>7. ASSUME NEW n \in Node, ReadProp(n) \/ WriteProp(n)
        PROVE  UNCHANGED <<wire, currentState, write_read_num>>
    BY <1>7 DEF ReadProp, WriteProp, WritePropFirst, WritePropRemain, WritePropRuns,
                netVars, transVars
  <1>8. CASE Terminated \/ UNCHANGED vars
    BY <1>4, <1>8 DEF Terminated, vars
  <1> QED BY <1>4, <1>5, <1>6, <1>7, <1>8 DEF Next

LEMMA CreditInit == Init => CreditInv
  <1> SUFFICES ASSUME Init
               PROVE  CreditInv
    OBVIOUS
  <1>1. IInv
    BY InitInvariant
  <1>2. \A n \in Node : currentState[n] = "firstFrame"
    BY DEF Init
  <1> QED BY <1>1, <1>2 DEF CreditInv, OpenPacket, HomeCredit

-----------------------------------------------------------------------------
(* A datagram always finds room. *)

LEMMA HeadsInFifo ==
    ASSUME NEW q \in [Node -> Seq(PacketFrame)], NEW n \in Node,
           NEW T, T = HeadersBelow(q, PROCESSOR_NUM), IsFiniteSet(T)
    PROVE  Cardinality(Heads(q[n])) <= Cardinality(T)
  <1> PICK w \in Seq(PacketFrame) : w = q[n]
    OBVIOUS
  <1> DEFINE h == [i \in Heads(w) |-> <<n, i>>]
  <1>1. ASSUME NEW i \in Heads(w)
        PROVE  <<n, i>> \in T
    <2>1. i \in DOMAIN w /\ i \in Nat /\ w[i].head /\ w[i] \in PacketFrame
      BY DEF Heads
    <2>2. w[i].node < PROCESSOR_NUM
      <3> PICK x \in Node : x = w[i].node
        BY <2>1, FramePositions
      <3> QED BY RingAssumption DEF Node
    <2> QED BY <2>1, <2>2 DEF HeadersBelow
  <1>2. h \in Injection(Heads(w), T)
    BY <1>1 DEF Injection, IsInjective
  <1> HIDE DEF h
  <1> QED BY <1>2, FS_Injection

LEMMA RoomSum ==
    ASSUME NEW len \in Nat, NEW y \in Nat, NEW r \in Nat, NEW p \in Nat,
           NEW c \in Nat, NEW k \in Nat, NEW depth \in Nat,
           len <= y * (p + 1) + r, r <= k * (p + 1), y + 1 + k <= c, c * (p + 1) <= depth
    PROVE  len + p + 1 <= depth
  <1> PICK d \in Nat : d = p + 1
    OBVIOUS
  <1>1. y + 1 + k \in Nat
    OBVIOUS
  <1>2. (y + 1 + k) * d <= c * d
    BY <1>1, TimesMonotone
  <1>3. (y + 1 + k) * d = y * d + d + k * d
    OBVIOUS
  <1>4. y * d \in Nat /\ k * d \in Nat /\ c * d \in Nat
    OBVIOUS
  <1> QED BY <1>2, <1>3, <1>4

LEMMA HasRoomForAll ==
    ASSUME CreditInv, EnoughRoom, NEW n \in Node, Drop(n)
    PROVE  FALSE
  <1>1. PICK own \in [Node -> Position], mid \in [Node -> Position],
             gap \in [Node -> Position] :
            \A m \in Node : FramedAt(m, own, mid, gap)
    BY DEF CreditInv, IInv, Framing
  <1>2. Typed /\ FramedAt(n, own, mid, gap) /\ OpenPacket(n) /\ HomeCredit(n)
    BY <1>1 DEF CreditInv, IInv
  <1> PICK u \in Node : u = upper_worker_idx(n)
    BY Neighbours
  <1> PICK q \in Seq(PacketFrame) : q = net_in[n]
    BY <1>2 DEF Typed
  <1>3. /\ wire[u] # <<>> /\ wire[u] \in Seq(PacketFrame) /\ Head(wire[u]).head
        /\ Complete(wire[u])
        /\ ~(Len(q) + Payload + 1 <= NetDepth)
    BY <1>2 DEF Drop, HasRoom, Typed
  <1> PICK e \in {0, 1} : e = IF currentState[n] = "remainFrame_same" THEN 1 ELSE 0
    OBVIOUS
  <1> DEFINE V == HeadersBelow(wire, PROCESSOR_NUM)
             W == HeadersBelow(net_in, PROCESSOR_NUM)
  <1>4. ASSUME NEW m \in Node
        PROVE  /\ IsFiniteSet(HeadersIn(wire, m)) /\ IsFiniteSet(HeadersIn(net_in, m))
               /\ Cardinality(HeadersIn(wire, m)) + Cardinality(HeadersIn(net_in, m))
                      + (IF m = n THEN e ELSE 0) <= FIFO_len
    <2>1. Credited(m)
      BY DEF CreditInv, IInv
    <2>2. IsFiniteSet(HeadersIn(wire, m)) /\ IsFiniteSet(HeadersIn(net_in, m))
      BY <2>1 DEF Credited
    <2> PICK a \in Nat : a = Cardinality(HeadersIn(wire, m))
      BY <2>2, FS_CardinalityType
    <2> PICK b \in Nat : b = Cardinality(HeadersIn(net_in, m))
      BY <2>2, FS_CardinalityType
    <2> PICK c \in Int : c = write_read_num[m]
      BY <1>2 DEF Typed
    <2>3. a + b <= c /\ c <= FIFO_len
      BY <2>1 DEF Credited
    <2>4. a + b + (IF m = n THEN e ELSE 0) <= FIFO_len
      <3>1. CASE m = n /\ currentState[n] = "remainFrame_same"
        <4>1. c < FIFO_len
          BY <1>2, <3>1 DEF HomeCredit
        <4>2. a + b + 1 <= FIFO_len
          BY <2>3, <4>1, ConstantTypes
        <4> QED BY <3>1, <4>2
      <3>2. CASE ~(m = n /\ currentState[n] = "remainFrame_same")
        <4>1. (IF m = n THEN e ELSE 0) = 0
          BY <3>2
        <4> QED BY <2>3, <4>1, ConstantTypes
      <3> QED BY <3>1, <3>2
    <2> QED BY <2>2, <2>4
  <1>5. /\ IsFiniteSet(V) /\ IsFiniteSet(W)
        /\ Cardinality(V) + Cardinality(W) + e <= PROCESSOR_NUM * FIFO_len
    BY <1>2, <1>4, RingLoad DEF Typed
  <1>6. <<u, 1>> \in V
    <2>1. 1 \in DOMAIN wire[u] /\ wire[u][1] = Head(wire[u]) /\ wire[u][1] \in PacketFrame
      BY <1>3
    <2> PICK x \in Node : x = wire[u][1].node
      BY <2>1, FramePositions
    <2>2. x < PROCESSOR_NUM
      BY RingAssumption DEF Node
    <2> QED BY <1>3, <2>1, <2>2 DEF HeadersBelow
  <1>7. ASSUME currentState[n] = "remainFrame_other"
        PROVE  \E i \in Nat : <<n, i>> \in V /\ <<n, i>> # <<u, 1>>
    <2> PICK w \in Seq(PacketFrame) : w = wire[n]
      BY <1>2 DEF Typed
    <2>1. PICK i \in 1 .. Len(w) : w[i].head /\ \A j \in i .. Len(w) : ~w[j].last
      BY <1>2, <1>7 DEF OpenPacket
    <2>2. i \in DOMAIN w /\ i \in Nat /\ w[i] \in PacketFrame
      OBVIOUS
    <2> PICK x \in Node : x = w[i].node
      BY <2>2, FramePositions
    <2>3. x < PROCESSOR_NUM
      BY RingAssumption DEF Node
    <2>4. <<n, i>> \in V
      BY <2>1, <2>2, <2>3 DEF HeadersBelow
    <2>5. <<n, i>> # <<u, 1>>
      <3> SUFFICES ASSUME n = u, i = 1
                   PROVE  FALSE
        OBVIOUS
      <3>1. \E j \in 1 .. Len(w) : w[j].last
        BY <1>3 DEF Complete
      <3> QED BY <2>1, <3>1
    <2> QED BY <2>2, <2>4, <2>5
  <1> PICK s \in {1, 2} : s = IF currentState[n] = "remainFrame_other" THEN 2 ELSE 1
    OBVIOUS
  <1> HIDE DEF V, W
  <1> PICK v \in Nat : v = Cardinality(V)
    BY <1>5, FS_CardinalityType
  <1> PICK x \in Nat : x = Cardinality(W)
    BY <1>5, FS_CardinalityType
  <1>8. s <= v
    <2>1. CASE currentState[n] = "remainFrame_other"
      <3>1. PICK i \in Nat : <<n, i>> \in V /\ <<n, i>> # <<u, 1>>
        BY <1>7, <2>1
      <3> PICK l1 \in V : l1 = <<u, 1>>
        BY <1>6
      <3> PICK l2 \in V : l2 = <<n, i>> /\ l2 # l1
        BY <3>1
      <3>2. IsFiniteSet({l1}) /\ Cardinality({l1}) = 1
        BY FS_Singleton
      <3>3. Cardinality({l1} \cup {l2}) = 2
        <4>1. Cardinality({l1} \cup {l2}) = Cardinality({l1}) + 1
          BY <3>2, FS_AddElement
        <4> QED BY <3>2, <4>1
      <3>4. Cardinality({l1} \cup {l2}) <= v
        BY <1>5, FS_Subset
      <3> QED BY <2>1, <3>3, <3>4
    <2>2. CASE currentState[n] # "remainFrame_other"
      <3>1. V # {}
        BY <1>6
      <3>2. v # 0
        BY <1>5, <3>1, FS_EmptySet
      <3> QED BY <2>2, <3>2
    <2> QED BY <2>1, <2>2
  <1> PICK y \in Nat : y = Cardinality(Heads(q))
    <2>1. IsFiniteSet(1 .. Len(q)) /\ Heads(q) \subseteq 1 .. Len(q)
      <3>1. Len(q) \in Nat /\ 1 \in Int /\ Len(q) \in Int
        OBVIOUS
      <3>2. IsFiniteSet(1 .. Len(q))
        BY <3>1, FS_Interval
      <3> QED BY <3>2 DEF Heads
    <2>2. IsFiniteSet(Heads(q))
      BY <2>1, FS_Subset
    <2> QED BY <2>2, FS_CardinalityType
  <1>9. y <= x
    BY <1>2, <1>5, HeadsInFifo DEF Typed, W
  <1>10. Len(q) <= y * (Payload + 1) + Rest(mid[n]) /\ Len(q) \in Nat
    BY <1>2, FlowLength DEF FramedAt
  <1> PICK r \in 0 .. Payload : r = Rest(mid[n])
    BY RestType
  <1>11. mid[n] # Boundary
             <=> currentState[n] \in {"remainFrame_same", "remainFrame_other"}
    BY <1>2 DEF FramedAt
  <1>12. PICK c \in Nat : c = PROCESSOR_NUM * FIFO_len /\ c * (Payload + 1) <= NetDepth
    BY RingAssumption, ConstantTypes DEF EnoughRoom
  <1>13. v + x + e <= c
    BY <1>5, <1>12
  <1>14. e \in Nat /\ s \in Nat /\ Payload \in Nat /\ NetDepth \in Nat
    BY ConstantTypes
  <1> PICK k \in Nat : k = IF mid[n] = Boundary THEN 0 ELSE 1
    OBVIOUS
  <1>15. y + 1 + k <= c
    <2>1. 1 + k = s + e
      BY <1>11
    <2> QED BY <1>8, <1>9, <1>13, <1>14, <2>1, SMTT(30)
  <1>16. r <= k * (Payload + 1)
    <2>1. 0 * (Payload + 1) = 0 /\ 1 * (Payload + 1) = Payload + 1
      BY <1>14
    <2>2. CASE mid[n] = Boundary
      BY <2>1, <2>2 DEF Rest
    <2>3. CASE mid[n] # Boundary
      <3>1. k = 1 /\ r <= Payload + 1
        BY <1>14, <2>3
      <3> QED BY <2>1, <3>1
    <2> QED BY <2>2, <2>3
  <1>17. Len(q) + Payload + 1 <= NetDepth
    <2> PICK p \in Nat : p = Payload
      BY <1>14
    <2> PICK depth \in Nat : depth = NetDepth
      BY <1>14
    <2> PICK len \in Nat : len = Len(q)
      BY <1>10
    <2>1. /\ len <= y * (p + 1) + r /\ r <= k * (p + 1) /\ y + 1 + k <= c
          /\ c * (p + 1) <= depth /\ r \in Nat
      BY <1>10, <1>12, <1>15, <1>16
    <2>2. len + p + 1 <= depth
      BY <1>12, <2>1, RoomSum
    <2> QED BY <2>2
  <1> QED BY <1>3, <1>17

(***************************************************************************)
(* With room in every net_in FIFO for FIFO_len packets of every node, UDP  *)
(* without flow control loses none of them: what globalTrans.cpp claims of *)
(* write_read_num, with the condition it needs.  With 22 frames to a       *)
(* packet, 32 credits and 2048 frames of net_in, that is up to two FPGAs.  *)
(***************************************************************************)
THEOREM CreditsPreventLoss == EnoughRoom => (Spec => []NoPacketLost)
  <1> SUFFICES ASSUME EnoughRoom
               PROVE  Spec => []NoPacketLost
    OBVIOUS
  <1>1. Init => CreditInv /\ NoPacketLost
    BY CreditInit DEF Init, NoPacketLost
  <1>2. CreditInv /\ NoPacketLost /\ [Next]_vars => (CreditInv /\ NoPacketLost)'
    <2> SUFFICES ASSUME CreditInv, NoPacketLost, [Next]_vars
                 PROVE  NoPacketLost'
      BY CreditNext
    <2>1. ASSUME NEW n \in Node, Drop(n)
          PROVE  FALSE
      BY <2>1, HasRoomForAll
    <2>2. ASSUME NEW n \in Node, ReadProp(n) \/ GlobalTrans(n) \/ Arrive(n) \/ WriteProp(n)
          PROVE  lost' = lost
      BY <2>2 DEF ReadProp, GlobalTrans, FirstFrameSame, FirstFrameOther, FirstFrameOwn,
             RemainFrameSame, RemainFrameOther, OnlySend, Arrive, WriteProp, WritePropFirst,
             WritePropRemain, WritePropRuns, netVars
    <2>3. CASE Terminated \/ UNCHANGED vars
      BY <2>3 DEF Terminated, vars, NoPacketLost
    <2> QED BY <2>1, <2>2, <2>3 DEF Next, NoPacketLost
  <1> QED BY <1>1, <1>2, PTL DEF Spec

-----------------------------------------------------------------------------
(* The ring, the packets and the counts, as constants. *)

LEMMA RingHops ==
    ASSUME NEW o \in Node, NEW n \in Node
    PROVE  /\ Hops(o, n) \in 1 .. PROCESSOR_NUM
           /\ Hops(o, o) = PROCESSOR_NUM
           /\ n # o => Hops(o, n) < PROCESSOR_NUM
           /\ \A m \in Node : Hops(o, m) = Hops(o, n) => m = n
           /\ Hops(o, lower_worker_idx(o)) = 1
           /\ n # o => Hops(o, lower_worker_idx(n)) = Hops(o, n) + 1
  BY RingAssumption DEF Node, Hops, lower_worker_idx

LEMMA OneType ==
    ASSUME NEW b
    PROVE  One(b) \in {0, 1} /\ (b <=> One(b) = 1)
  BY DEF One

\* The packet of a block, and the block's number in it.
LEMMA Packets ==
    ASSUME NEW a \in Block
    PROVE  /\ PacketStart(a) \in Starts /\ PacketStart(a) \in Nat /\ PacketStart(a) <= a
           /\ a = PacketStart(a) + Slot(a) /\ Slot(a) \in 0 .. Payload - 1
           /\ Slot(a) = 0 => PacketStart(a) = a
  <1>1. PICK p \in Partition, k \in Nat, r \in 0 .. Payload - 1, b \in 0 .. BlockNum - 1 :
            /\ b = k * Payload + r /\ k * Payload \in 0 .. BlockNum - 1
            /\ a = p * BlockNum + b
    BY BlockParts
  <1>2. Slot(a) = r /\ PacketStart(a) = p * BlockNum + k * Payload
    BY <1>1, SlotOfBlock
  <1>3. PICK c \in 0 .. BlockNum - 1 : c = k * Payload
    BY <1>1
  <1>4. 0 \in 0 .. Payload - 1 /\ c = k * Payload + 0
    BY <1>3, ConstantTypes
  <1>5. p * BlockNum + c \in Block /\ Slot(p * BlockNum + c) = 0
    BY <1>4, SlotOfBlock
  <1>6. PacketStart(a) = p * BlockNum + c
    BY <1>2, <1>3
  <1>7. PacketStart(a) \in Starts
    BY <1>5, <1>6 DEF Starts
  <1>8. PacketStart(a) \in Nat /\ a \in Nat
    BY <1>5, <1>6, BlockType
  <1>9. a = PacketStart(a) + Slot(a) /\ Slot(a) \in 0 .. Payload - 1
    BY <1>2, <1>8 DEF PacketStart
  <1> HIDE DEF Block
  <1> QED BY <1>7, <1>8, <1>9

\* A block after another one of its packet is not the first.
LEMMA SamePacketNext ==
    ASSUME NEW a \in Block, a + 1 \in Block, Slot(a + 1) = Slot(a) + 1
    PROVE  PacketStart(a + 1) = PacketStart(a)
  <1>1. a \in Nat /\ Slot(a) \in Int
    BY BlockType, SlotType
  <1> QED BY <1>1 DEF PacketStart

-----------------------------------------------------------------------------
(* Frames that move, counted. *)

LEMMA CountPush ==
    ASSUME NEW q \in [Node -> Seq(PacketFrame)], NEW m \in Node, NEW f \in PacketFrame,
           NEW S, IsFiniteSet(Marked(q, S))
    PROVE  \E d \in {0, 1} :
               /\ d = 1 <=> <<m, f>> \in S
               /\ IsFiniteSet(Marked(Push(q, m, f), S))
               /\ Cardinality(Marked(Push(q, m, f), S)) = Cardinality(Marked(q, S)) + d
  <1>1. PICK c \in Nat : c = Cardinality(Marked(q, S))
    BY FS_CardinalityType
  <1>2. CASE <<m, f>> \in S
    <2>1. /\ IsFiniteSet(Marked(Push(q, m, f), S))
          /\ Cardinality(Marked(Push(q, m, f), S)) = Cardinality(Marked(q, S)) + 1
      BY <1>2, MarkedPush
    <2> QED BY <1>2, <2>1
  <1>3. CASE <<m, f>> \notin S
    <2>1. /\ IsFiniteSet(Marked(Push(q, m, f), S))
          /\ Cardinality(Marked(Push(q, m, f), S)) = c + 0
      BY <1>1, <1>3, MarkedPush
    <2> QED BY <1>1, <1>3, <2>1
  <1> QED BY <1>2, <1>3

LEMMA CountPop ==
    ASSUME NEW q \in [Node -> Seq(PacketFrame)], NEW m \in Node, q[m] # <<>>,
           NEW S, IsFiniteSet(Marked(q, S))
    PROVE  \E d \in {-1, 0} :
               /\ d = -1 <=> <<m, Head(q[m])>> \in S
               /\ IsFiniteSet(Marked(Pop(q, m), S))
               /\ Cardinality(Marked(Pop(q, m), S)) = Cardinality(Marked(q, S)) + d
  <1>1. /\ IsFiniteSet(Marked(Pop(q, m), S))
        /\ <<m, Head(q[m])>> \in S =>
               Cardinality(Marked(Pop(q, m), S)) + 1 = Cardinality(Marked(q, S))
        /\ <<m, Head(q[m])>> \notin S =>
               Cardinality(Marked(Pop(q, m), S)) = Cardinality(Marked(q, S))
    BY MarkedPop
  <1>2. PICK c, e \in Nat : c = Cardinality(Marked(q, S)) /\ e = Cardinality(Marked(Pop(q, m), S))
    BY <1>1, FS_CardinalityType
  <1>3. CASE <<m, Head(q[m])>> \in S
    <2>1. e = c + (-1)
      BY <1>1, <1>2, <1>3
    <2> QED BY <1>1, <1>2, <1>3, <2>1
  <1>4. CASE <<m, Head(q[m])>> \notin S
    <2>1. e = c + 0
      BY <1>1, <1>2, <1>4
    <2> QED BY <1>1, <1>2, <1>4, <2>1
  <1> QED BY <1>3, <1>4

LEMMA CountCut ==
    ASSUME NEW q \in [Node -> Seq(PacketFrame)], NEW m \in Node, NEW j \in 1 .. Len(q[m]),
           NEW S, IsFiniteSet(Marked(q, S)),
           \A i \in 2 .. j : <<m, q[m][i]>> \notin S
    PROVE  \E d \in {-1, 0} :
               /\ d = -1 <=> <<m, q[m][1]>> \in S
               /\ IsFiniteSet(Marked(Cut(q, m, j), S))
               /\ Cardinality(Marked(Cut(q, m, j), S)) = Cardinality(Marked(q, S)) + d
  <1>1. /\ IsFiniteSet(Marked(Cut(q, m, j), S))
        /\ <<m, q[m][1]>> \in S =>
               Cardinality(Marked(Cut(q, m, j), S)) + 1 = Cardinality(Marked(q, S))
        /\ <<m, q[m][1]>> \notin S =>
               Cardinality(Marked(Cut(q, m, j), S)) = Cardinality(Marked(q, S))
    BY MarkedCut
  <1>2. PICK c, e \in Nat :
            c = Cardinality(Marked(q, S)) /\ e = Cardinality(Marked(Cut(q, m, j), S))
    BY <1>1, FS_CardinalityType
  <1>3. CASE <<m, q[m][1]>> \in S
    <2>1. e = c + (-1)
      BY <1>1, <1>2, <1>3
    <2> QED BY <1>1, <1>2, <1>3, <2>1
  <1>4. CASE <<m, q[m][1]>> \notin S
    <2>1. e = c + 0
      BY <1>1, <1>2, <1>4
    <2> QED BY <1>1, <1>2, <1>4, <2>1
  <1> QED BY <1>3, <1>4

-----------------------------------------------------------------------------
(* A step moves a packet on, or leaves it where it is. *)

LEMMA PlacesOld ==
    ASSUME NEW k \in Node, NEW a \in Starts, OnePlace(k, a)
    PROVE  \E t, w, i, v \in Nat : \E r, c, g, l \in {0, 1} :
               /\ t = Cardinality(Marked(vertexTrans, Anywhere(a)))
               /\ w = Cardinality(Marked(wire, OnWire(k, a)))
               /\ i = Cardinality(Marked(net_in, InNet(k, a)))
               /\ v = Cardinality(Marked(vertexUpdate, AtNode(k, a)))
               /\ r = One(a \in Unread) /\ c = One(Current(k, a))
               /\ g = One(a \in Got(k)) /\ l = One(Lost(k, a))
               /\ r + t + w + i + v + c + g + l <= 1
  <1>1. /\ Cardinality(Marked(vertexTrans, Anywhere(a))) \in Nat
        /\ Cardinality(Marked(wire, OnWire(k, a))) \in Nat
        /\ Cardinality(Marked(net_in, InNet(k, a))) \in Nat
        /\ Cardinality(Marked(vertexUpdate, AtNode(k, a))) \in Nat
    BY FS_CardinalityType DEF OnePlace
  <1>2. /\ One(a \in Unread) \in {0, 1} /\ One(Current(k, a)) \in {0, 1}
        /\ One(a \in Got(k)) \in {0, 1} /\ One(Lost(k, a)) \in {0, 1}
    BY DEF One
  <1>3. Places(k, a) <= 1
    BY DEF OnePlace
  <1> QED BY <1>1, <1>2, <1>3, ZenonT(40) DEF Places

LEMMA PlacesNew ==
    ASSUME NEW k \in Node, NEW a \in Starts,
           NEW t \in Nat, t = Cardinality(Marked(vertexTrans', Anywhere(a))),
           NEW w \in Nat, w = Cardinality(Marked(wire', OnWire(k, a))),
           NEW i \in Nat, i = Cardinality(Marked(net_in', InNet(k, a))),
           NEW v \in Nat, v = Cardinality(Marked(vertexUpdate', AtNode(k, a))),
           NEW r \in {0, 1}, r = One(a \in Unread'),
           NEW c \in {0, 1}, c = One(Current(k, a)'),
           NEW g \in {0, 1}, g = One(a \in Got(k)'),
           NEW l \in {0, 1}, l = One(Lost(k, a)'),
           IsFiniteSet(Marked(vertexTrans', Anywhere(a))),
           IsFiniteSet(Marked(wire', OnWire(k, a))),
           IsFiniteSet(Marked(net_in', InNet(k, a))),
           IsFiniteSet(Marked(vertexUpdate', AtNode(k, a))),
           r + t + w + i + v + c + g + l <= 1
    PROVE  OnePlace(k, a)'
  BY DEF OnePlace, Places, Marked, Anywhere, OnWire, InNet, AtNode, One

\* What depends on one component only.
LEMMA PartsKept ==
    ASSUME NEW k \in Node, NEW a \in Starts, OnePlace(k, a)
    PROVE  /\ UNCHANGED vertexTrans =>
                  /\ IsFiniteSet(Marked(vertexTrans', Anywhere(a)))
                  /\ Cardinality(Marked(vertexTrans', Anywhere(a)))
                         = Cardinality(Marked(vertexTrans, Anywhere(a))) + 0
           /\ UNCHANGED wire =>
                  /\ IsFiniteSet(Marked(wire', OnWire(k, a)))
                  /\ Cardinality(Marked(wire', OnWire(k, a)))
                         = Cardinality(Marked(wire, OnWire(k, a))) + 0
           /\ UNCHANGED net_in =>
                  /\ IsFiniteSet(Marked(net_in', InNet(k, a)))
                  /\ Cardinality(Marked(net_in', InNet(k, a)))
                         = Cardinality(Marked(net_in, InNet(k, a))) + 0
           /\ UNCHANGED vertexUpdate =>
                  /\ IsFiniteSet(Marked(vertexUpdate', AtNode(k, a)))
                  /\ Cardinality(Marked(vertexUpdate', AtNode(k, a)))
                         = Cardinality(Marked(vertexUpdate, AtNode(k, a))) + 0
           /\ UNCHANGED rdProp => One(a \in Unread') = One(a \in Unread) + 0
           /\ UNCHANGED wrProp => One(Current(k, a)') = One(Current(k, a)) + 0
           /\ UNCHANGED vertexProp => One(a \in Got(k)') = One(a \in Got(k)) + 0
           /\ UNCHANGED lost => One(Lost(k, a)') = One(Lost(k, a)) + 0
  <1>1. PICK t, w, i, v \in Nat, r, c, g, l \in {0, 1} :
            /\ t = Cardinality(Marked(vertexTrans, Anywhere(a)))
            /\ w = Cardinality(Marked(wire, OnWire(k, a)))
            /\ i = Cardinality(Marked(net_in, InNet(k, a)))
            /\ v = Cardinality(Marked(vertexUpdate, AtNode(k, a)))
            /\ r = One(a \in Unread) /\ c = One(Current(k, a))
            /\ g = One(a \in Got(k)) /\ l = One(Lost(k, a))
            /\ r + t + w + i + v + c + g + l <= 1
    BY PlacesOld
  <1>2. /\ t = t + 0 /\ w = w + 0 /\ i = i + 0 /\ v = v + 0
        /\ r = r + 0 /\ c = c + 0 /\ g = g + 0 /\ l = l + 0
    BY <1>1
  <1>3. /\ UNCHANGED rdProp => Unread' = Unread
        /\ UNCHANGED lost => Lost(k, a)' = Lost(k, a)
        /\ UNCHANGED wrProp => Current(k, a)' = Current(k, a)
        /\ UNCHANGED vertexProp => Got(k)' = Got(k)
    BY DEF Unread, Lost, Current, Got
  <1> QED BY <1>1, <1>2, <1>3 DEF OnePlace

\* The counts of the places change by d, and by no more than 0 together.
LEMMA PlacesMove ==
    ASSUME NEW k \in Node, NEW a \in Starts, OnePlace(k, a),
           NEW dt \in -1 .. 1, NEW dw \in -1 .. 1, NEW di \in -1 .. 1, NEW dv \in -1 .. 1,
           NEW dr \in -1 .. 1, NEW dc \in -1 .. 1, NEW dg \in -1 .. 1, NEW dl \in -1 .. 1,
           dr + dt + dw + di + dv + dc + dg + dl <= 0,
           IsFiniteSet(Marked(vertexTrans', Anywhere(a))),
           IsFiniteSet(Marked(wire', OnWire(k, a))),
           IsFiniteSet(Marked(net_in', InNet(k, a))),
           IsFiniteSet(Marked(vertexUpdate', AtNode(k, a))),
           Cardinality(Marked(vertexTrans', Anywhere(a)))
               = Cardinality(Marked(vertexTrans, Anywhere(a))) + dt,
           Cardinality(Marked(wire', OnWire(k, a)))
               = Cardinality(Marked(wire, OnWire(k, a))) + dw,
           Cardinality(Marked(net_in', InNet(k, a)))
               = Cardinality(Marked(net_in, InNet(k, a))) + di,
           Cardinality(Marked(vertexUpdate', AtNode(k, a)))
               = Cardinality(Marked(vertexUpdate, AtNode(k, a))) + dv,
           One(a \in Unread') = One(a \in Unread) + dr,
           One(Current(k, a)') = One(Current(k, a)) + dc,
           One(a \in Got(k)') = One(a \in Got(k)) + dg,
           One(Lost(k, a)') = One(Lost(k, a)) + dl
    PROVE  OnePlace(k, a)'
  <1>1. PICK t, w, i, v \in Nat, r, c, g, l \in {0, 1} :
            /\ t = Cardinality(Marked(vertexTrans, Anywhere(a)))
            /\ w = Cardinality(Marked(wire, OnWire(k, a)))
            /\ i = Cardinality(Marked(net_in, InNet(k, a)))
            /\ v = Cardinality(Marked(vertexUpdate, AtNode(k, a)))
            /\ r = One(a \in Unread) /\ c = One(Current(k, a))
            /\ g = One(a \in Got(k)) /\ l = One(Lost(k, a))
            /\ r + t + w + i + v + c + g + l <= 1
    BY PlacesOld
  <1>2. PICK t1, w1, i1, v1 \in Nat :
            /\ t1 = Cardinality(Marked(vertexTrans', Anywhere(a)))
            /\ w1 = Cardinality(Marked(wire', OnWire(k, a)))
            /\ i1 = Cardinality(Marked(net_in', InNet(k, a)))
            /\ v1 = Cardinality(Marked(vertexUpdate', AtNode(k, a)))
    BY FS_CardinalityType
  <1>3. PICK r1, c1, g1, l1 \in {0, 1} :
            /\ r1 = One(a \in Unread') /\ c1 = One(Current(k, a)')
            /\ g1 = One(a \in Got(k)') /\ l1 = One(Lost(k, a)')
    BY DEF One
  <1>4. /\ t1 = t + dt /\ w1 = w + dw /\ i1 = i + di /\ v1 = v + dv
        /\ r1 = r + dr /\ c1 = c + dc /\ g1 = g + dg /\ l1 = l + dl
    BY <1>1, <1>2, <1>3
  <1>5. r1 + t1 + w1 + i1 + v1 + c1 + g1 + l1 <= 1
    <2>1. r + t + w + i + v + c + g + l <= 1
      BY <1>1
    <2> QED BY ONLY <2>1, <1>4, t \in Nat, w \in Nat, i \in Nat, v \in Nat,
               r \in {0, 1}, c \in {0, 1}, g \in {0, 1}, l \in {0, 1},
               dt \in -1 .. 1, dw \in -1 .. 1, di \in -1 .. 1, dv \in -1 .. 1,
               dr \in -1 .. 1, dc \in -1 .. 1, dg \in -1 .. 1, dl \in -1 .. 1,
               dr + dt + dw + di + dv + dc + dg + dl <= 0
  <1>6. /\ IsFiniteSet(Marked(vertexTrans', Anywhere(a)))
        /\ IsFiniteSet(Marked(wire', OnWire(k, a)))
        /\ IsFiniteSet(Marked(net_in', InNet(k, a)))
        /\ IsFiniteSet(Marked(vertexUpdate', AtNode(k, a)))
    OBVIOUS
  <1>7. /\ t1 \in Nat /\ w1 \in Nat /\ i1 \in Nat /\ v1 \in Nat
        /\ r1 \in {0, 1} /\ c1 \in {0, 1} /\ g1 \in {0, 1} /\ l1 \in {0, 1}
    BY <1>2, <1>3
  <1> QED BY ONLY <1>2, <1>3, <1>5, <1>6, <1>7, PlacesNew, k \in Node, a \in Starts

\* A packet that globalTrans takes goes to writeProp, and on if it is another's.
LEMMA TakePlaces ==
    ASSUME Typed, NEW n \in Node, net_in[n] # <<>>,
           NEW f \in PacketFrame, f = Head(net_in[n]),
           net_in' = Pop(net_in, n), vertexUpdate' = Push(vertexUpdate, n, f),
           UNCHANGED <<rdProp, vertexTrans, lost, wrProp, vertexProp>>,
           \/ UNCHANGED wire
           \/ wire' = Push(wire, n, f) /\ (f.head => f.node # n),
           NEW k \in Node, NEW a \in Starts, OnePlace(k, a)
    PROVE  OnePlace(k, a)'
  <1>1. net_in \in [Node -> Seq(PacketFrame)] /\ IsFiniteSet(Marked(net_in, InNet(k, a)))
    BY DEF Typed, OnePlace
  <1>10. /\ vertexUpdate \in [Node -> Seq(PacketFrame)]
         /\ IsFiniteSet(Marked(vertexUpdate, AtNode(k, a)))
    BY DEF Typed, OnePlace
  <1>11. wire \in [Node -> Seq(PacketFrame)] /\ IsFiniteSet(Marked(wire, OnWire(k, a)))
    BY DEF Typed, OnePlace
  <1>2. PICK di \in {-1, 0} :
            /\ di = -1 <=> <<n, f>> \in InNet(k, a)
            /\ IsFiniteSet(Marked(net_in', InNet(k, a)))
            /\ Cardinality(Marked(net_in', InNet(k, a)))
                   = Cardinality(Marked(net_in, InNet(k, a))) + di
    BY <1>1, CountPop
  <1>3. PICK dv \in {0, 1} :
            /\ dv = 1 <=> <<n, f>> \in AtNode(k, a)
            /\ IsFiniteSet(Marked(vertexUpdate', AtNode(k, a)))
            /\ Cardinality(Marked(vertexUpdate', AtNode(k, a)))
                   = Cardinality(Marked(vertexUpdate, AtNode(k, a))) + dv
    BY ONLY <1>10, CountPush, vertexUpdate' = Push(vertexUpdate, n, f), n \in Node, f \in PacketFrame
  <1>4. PICK dw \in {0, 1} :
            /\ dw = 1 => <<n, f>> \in OnWire(k, a) /\ (f.head => f.node # n)
            /\ IsFiniteSet(Marked(wire', OnWire(k, a)))
            /\ Cardinality(Marked(wire', OnWire(k, a)))
                   = Cardinality(Marked(wire, OnWire(k, a))) + dw
    <2>1. CASE UNCHANGED wire
      BY <2>1, PartsKept
    <2>2. CASE wire' = Push(wire, n, f) /\ (f.head => f.node # n)
      BY ONLY <1>11, <2>2, CountPush, n \in Node, f \in PacketFrame
    <2> QED BY <2>1, <2>2
  <1>5. f.node \in Node /\ Hops(f.node, n) \in Nat /\ Hops(f.node, k) \in Nat
    BY FramePositions, RingHops
  <1>6. dv = 1 => di = -1 /\ dw = 0
    BY <1>2, <1>3, <1>4, <1>5 DEF AtNode, InNet, OnWire
  <1>7. dw = 1 => di = -1
    BY <1>2, <1>4, <1>5 DEF InNet, OnWire
  <1>8. 0 + 0 + dw + di + dv + 0 + 0 + 0 <= 0
    BY ONLY <1>6, <1>7, di \in {-1, 0}, dv \in {0, 1}, dw \in {0, 1}
  <1>9. /\ IsFiniteSet(Marked(vertexTrans', Anywhere(a)))
        /\ Cardinality(Marked(vertexTrans', Anywhere(a)))
               = Cardinality(Marked(vertexTrans, Anywhere(a))) + 0
        /\ One(a \in Unread') = One(a \in Unread) + 0
        /\ One(Current(k, a)') = One(Current(k, a)) + 0
        /\ One(a \in Got(k)') = One(a \in Got(k)) + 0
        /\ One(Lost(k, a)') = One(Lost(k, a)) + 0
    BY PartsKept
  <1>12. 0 \in -1 .. 1 /\ di \in -1 .. 1 /\ dv \in -1 .. 1 /\ dw \in -1 .. 1
    OBVIOUS
  <1> QED BY ONLY <1>2, <1>3, <1>4, <1>8, <1>9, <1>12, PlacesMove,
             k \in Node, a \in Starts, OnePlace(k, a), ZenonT(40)

\* The own packets go to the link, on their way to every node.
LEMMA OwnPlaces ==
    ASSUME Typed, NEW n \in Node, vertexTrans[n] # <<>>,
           NEW f \in PacketFrame, f = Head(vertexTrans[n]), f.node = n,
           vertexTrans' = Pop(vertexTrans, n), wire' = Push(wire, n, f),
           UNCHANGED <<rdProp, net_in, lost, vertexUpdate, wrProp, vertexProp>>,
           NEW k \in Node, NEW a \in Starts, OnePlace(k, a)
    PROVE  OnePlace(k, a)'
  <1>1. /\ vertexTrans \in [Node -> Seq(PacketFrame)] /\ wire \in [Node -> Seq(PacketFrame)]
        /\ IsFiniteSet(Marked(wire, OnWire(k, a)))
        /\ IsFiniteSet(Marked(vertexTrans, Anywhere(a)))
    BY DEF Typed, OnePlace
  <1>2. PICK dt \in {-1, 0} :
            /\ dt = -1 <=> <<n, f>> \in Anywhere(a)
            /\ IsFiniteSet(Marked(vertexTrans', Anywhere(a)))
            /\ Cardinality(Marked(vertexTrans', Anywhere(a)))
                   = Cardinality(Marked(vertexTrans, Anywhere(a))) + dt
    BY <1>1, CountPop
  <1>3. PICK dw \in {0, 1} :
            /\ dw = 1 <=> <<n, f>> \in OnWire(k, a)
            /\ IsFiniteSet(Marked(wire', OnWire(k, a)))
            /\ Cardinality(Marked(wire', OnWire(k, a)))
                   = Cardinality(Marked(wire, OnWire(k, a))) + dw
    BY <1>1, CountPush, SMTT(30)
  <1>4. dw = 1 => dt = -1
    BY <1>2, <1>3 DEF OnWire, Anywhere
  <1>5. 0 + dt + dw + 0 + 0 + 0 + 0 + 0 <= 0
    BY ONLY <1>4, dt \in {-1, 0}, dw \in {0, 1}
  <1>6. /\ IsFiniteSet(Marked(net_in', InNet(k, a)))
        /\ Cardinality(Marked(net_in', InNet(k, a)))
               = Cardinality(Marked(net_in, InNet(k, a))) + 0
        /\ IsFiniteSet(Marked(vertexUpdate', AtNode(k, a)))
        /\ Cardinality(Marked(vertexUpdate', AtNode(k, a)))
               = Cardinality(Marked(vertexUpdate, AtNode(k, a))) + 0
        /\ One(a \in Unread') = One(a \in Unread) + 0
        /\ One(Current(k, a)') = One(Current(k, a)) + 0
        /\ One(a \in Got(k)') = One(a \in Got(k)) + 0
        /\ One(Lost(k, a)') = One(Lost(k, a)) + 0
    BY PartsKept
  <1>7. 0 \in -1 .. 1 /\ dt \in -1 .. 1 /\ dw \in -1 .. 1
    OBVIOUS
  <1> QED BY ONLY <1>2, <1>3, <1>5, <1>6, <1>7, PlacesMove,
             k \in Node, a \in Starts, OnePlace(k, a)

\* One hop further.
LEMMA ArrivePlaces ==
    ASSUME Typed, NEW n \in Node, NEW u \in Node, u = upper_worker_idx(n), wire[u] # <<>>,
           NEW f \in PacketFrame, f = Head(wire[u]),
           wire' = Pop(wire, u), net_in' = Push(net_in, n, f),
           UNCHANGED <<rdProp, vertexTrans, lost, vertexUpdate, wrProp, vertexProp>>,
           NEW k \in Node, NEW a \in Starts, OnePlace(k, a)
    PROVE  OnePlace(k, a)'
  <1>1. /\ wire \in [Node -> Seq(PacketFrame)] /\ net_in \in [Node -> Seq(PacketFrame)]
        /\ IsFiniteSet(Marked(wire, OnWire(k, a))) /\ IsFiniteSet(Marked(net_in, InNet(k, a)))
    BY DEF Typed, OnePlace
  <1>2. PICK dw \in {-1, 0} :
            /\ dw = -1 <=> <<u, f>> \in OnWire(k, a)
            /\ IsFiniteSet(Marked(wire', OnWire(k, a)))
            /\ Cardinality(Marked(wire', OnWire(k, a)))
                   = Cardinality(Marked(wire, OnWire(k, a))) + dw
    BY <1>1, CountPop
  <1>3. PICK di \in {0, 1} :
            /\ di = 1 <=> <<n, f>> \in InNet(k, a)
            /\ IsFiniteSet(Marked(net_in', InNet(k, a)))
            /\ Cardinality(Marked(net_in', InNet(k, a)))
                   = Cardinality(Marked(net_in, InNet(k, a))) + di
    BY ONLY <1>1, CountPush, net_in' = Push(net_in, n, f), n \in Node, f \in PacketFrame, SMTT(90)
  <1>4. f.node \in Node /\ n = lower_worker_idx(u)
    BY FramePositions, Neighbours
  <1>5. /\ Hops(f.node, u) \in Nat /\ Hops(f.node, n) \in Nat /\ Hops(f.node, k) \in Nat
        /\ u # f.node => Hops(f.node, n) = Hops(f.node, u) + 1
    BY <1>4, RingHops, SMTT(30)
  <1>6. di = 1 => dw = -1
    BY <1>2, <1>3, <1>5 DEF OnWire, InNet
  <1>7. 0 + 0 + dw + di + 0 + 0 + 0 + 0 <= 0
    BY ONLY <1>6, dw \in {-1, 0}, di \in {0, 1}
  <1>8. /\ IsFiniteSet(Marked(vertexTrans', Anywhere(a)))
        /\ Cardinality(Marked(vertexTrans', Anywhere(a)))
               = Cardinality(Marked(vertexTrans, Anywhere(a))) + 0
        /\ IsFiniteSet(Marked(vertexUpdate', AtNode(k, a)))
        /\ Cardinality(Marked(vertexUpdate', AtNode(k, a)))
               = Cardinality(Marked(vertexUpdate, AtNode(k, a))) + 0
        /\ One(a \in Unread') = One(a \in Unread) + 0
        /\ One(Current(k, a)') = One(Current(k, a)) + 0
        /\ One(a \in Got(k)') = One(a \in Got(k)) + 0
        /\ One(Lost(k, a)') = One(Lost(k, a)) + 0
    BY PartsKept
  <1>9. 0 \in -1 .. 1 /\ dw \in -1 .. 1 /\ di \in -1 .. 1
    OBVIOUS
  <1> QED BY ONLY <1>2, <1>3, <1>7, <1>8, <1>9, PlacesMove,
             k \in Node, a \in Starts, OnePlace(k, a)

\* A packet that is dropped on its way is lost to the count of its own node.
LEMMA DropPlaces ==
    ASSUME Typed, NEW u \in Node, NEW j \in 1 .. Len(wire[u]),
           \A i \in 2 .. j : ~wire[u][i].head,
           NEW f \in PacketFrame, f = wire[u][1], f.head,
           wire' = Cut(wire, u, j), lost' = lost \cup {f},
           UNCHANGED <<rdProp, vertexTrans, net_in, vertexUpdate, wrProp, vertexProp>>,
           NEW k \in Node, NEW a \in Starts, OnePlace(k, a)
    PROVE  OnePlace(k, a)'
  <1>1. /\ wire \in [Node -> Seq(PacketFrame)] /\ IsFiniteSet(Marked(wire, OnWire(k, a)))
        /\ \A i \in 2 .. j : <<u, wire[u][i]>> \notin OnWire(k, a)
    BY DEF Typed, OnePlace, OnWire
  <1>2. PICK dw \in {-1, 0} :
            /\ dw = -1 <=> <<u, f>> \in OnWire(k, a)
            /\ IsFiniteSet(Marked(wire', OnWire(k, a)))
            /\ Cardinality(Marked(wire', OnWire(k, a)))
                   = Cardinality(Marked(wire, OnWire(k, a))) + dw
    BY <1>1, CountCut, SMTT(30)
  <1>3. PICK dl \in {0, 1} :
            /\ One(Lost(k, a)') = One(Lost(k, a)) + dl
            /\ dl = 1 => f.node = k /\ f.addr = a
    BY DEF Lost, One
  <1>4. dl = 1 => dw = -1
    <2>1. /\ Hops(k, u) \in 1 .. PROCESSOR_NUM /\ Hops(k, k) = PROCESSOR_NUM
          /\ u # k => Hops(k, u) < PROCESSOR_NUM
      BY RingHops
    <2>2. f.node = k /\ f.addr = a => <<u, f>> \in OnWire(k, a)
      BY <2>1 DEF OnWire
    <2> QED BY <1>2, <1>3, <2>2
  <1>5. 0 + 0 + dw + 0 + 0 + 0 + 0 + dl <= 0
    BY ONLY <1>4, dw \in {-1, 0}, dl \in {0, 1}
  <1>6. /\ IsFiniteSet(Marked(vertexTrans', Anywhere(a)))
        /\ Cardinality(Marked(vertexTrans', Anywhere(a)))
               = Cardinality(Marked(vertexTrans, Anywhere(a))) + 0
        /\ IsFiniteSet(Marked(net_in', InNet(k, a)))
        /\ Cardinality(Marked(net_in', InNet(k, a)))
               = Cardinality(Marked(net_in, InNet(k, a))) + 0
        /\ IsFiniteSet(Marked(vertexUpdate', AtNode(k, a)))
        /\ Cardinality(Marked(vertexUpdate', AtNode(k, a)))
               = Cardinality(Marked(vertexUpdate, AtNode(k, a))) + 0
        /\ One(a \in Unread') = One(a \in Unread) + 0
        /\ One(Current(k, a)') = One(Current(k, a)) + 0
        /\ One(a \in Got(k)') = One(a \in Got(k)) + 0
    BY PartsKept
  <1>7. 0 \in -1 .. 1 /\ dw \in -1 .. 1 /\ dl \in -1 .. 1
    OBVIOUS
  <1>8. /\ IsFiniteSet(Marked(wire', OnWire(k, a)))
        /\ Cardinality(Marked(wire', OnWire(k, a)))
               = Cardinality(Marked(wire, OnWire(k, a))) + dw
        /\ One(Lost(k, a)') = One(Lost(k, a)) + dl
    BY <1>2, <1>3
  <1> QED BY ONLY <1>5, <1>6, <1>7, <1>8, PlacesMove, k \in Node, a \in Starts, OnePlace(k, a)

-----------------------------------------------------------------------------
(* readProp writes every header once. *)

LEMMA DivOfBlock ==
    ASSUME NEW p \in Partition, NEW b \in 0 .. BlockNum - 1
    PROVE  (p * BlockNum + b) \div BlockNum = p /\ (p * BlockNum + b) % BlockNum = b
  <1>1. BlockNum \in Nat \ {0} /\ p \in Nat
    BY ConstantTypes DEF Partition
  <1>2. PICK x \in Nat : x = p * BlockNum + b
    BY <1>1
  <1>3. PICK q \in Nat, r \in 0 .. BlockNum - 1 : q = x \div BlockNum /\ r = x % BlockNum
    BY <1>1, Division
  <1>4. r \in 0 .. BlockNum - 1 /\ x = q * BlockNum + r
    BY <1>1, <1>3, Division
  <1>5. r = b
    BY <1>1, <1>2, <1>3, ModUnique
  <1>6. q * BlockNum = p * BlockNum
    BY <1>1, <1>2, <1>4, <1>5
  <1>7. q = p
    <2>1. CASE q < p
      <3>1. (q + 1) * BlockNum <= p * BlockNum /\ (q + 1) * BlockNum = q * BlockNum + BlockNum
        BY <1>1, <2>1
      <3> QED BY <1>1, <1>6, <3>1
    <2>2. CASE p < q
      <3>1. (p + 1) * BlockNum <= q * BlockNum /\ (p + 1) * BlockNum = p * BlockNum + BlockNum
        BY <1>1, <2>2
      <3> QED BY <1>1, <1>6, <3>1
    <2> QED BY <1>1, <2>1, <2>2
  <1> QED BY <1>2, <1>3, <1>5, <1>7

\* The three ways readProp moves on: to the next partition, behind a header and
\* behind a block.
LEMMA ReadMoves ==
    ASSUME Typed, NEW n \in Node, Reading(n), ReadProp(n)
    PROVE  /\ rdProp[n].item \in DOMAIN Schedule[n] /\ rdProp[n].address \in Nat
           /\ rdProp[n].item \in Nat
           /\ \/ rdProp'[n].item = rdProp[n].item + 1 /\ rdProp[n].frameId # 0
              \/ /\ rdProp'[n].item = rdProp[n].item
                 /\ rdProp'[n].address = rdProp[n].address
                 /\ rdProp[n].frameId = 0 /\ rdProp'[n].frameId # 0
              \/ /\ rdProp'[n].item = rdProp[n].item
                 /\ rdProp'[n].address = rdProp[n].address + 1
                 /\ rdProp[n].frameId # 0
           /\ rdProp[n].frameId = 0 => rdProp[n].address \in 0 .. BlockNum - 1
           /\ \A m \in Node \ {n} : rdProp'[m] = rdProp[m]
  <1> PICK rd : rd = rdProp[n]
    OBVIOUS
  <1> PICK new : new = rdProp'[n]
    OBVIOUS
  <1>1. /\ rd \in [item : Nat \ {0}, i : Nat, address : Nat, frameId : 0 .. Payload]
        /\ rd.item <= Len(Schedule[n]) /\ Schedule[n] \in Seq(Partition)
    BY ConstantTypes DEF Typed, ReadProp
  <1>2. rd.item \in DOMAIN Schedule[n] /\ rd.item \in Nat /\ rd.address \in Nat
    BY <1>1
  <1>3. PICK k \in Nat :
            /\ rd.i = k * Payload + k + rd.frameId
            /\ rd.i < BlockNum + packets_of(BlockNum)
            /\ rd.address = k * Payload + (IF rd.frameId = 0 THEN 0 ELSE rd.frameId - 1)
    BY DEF Reading
  <1>4. k * Payload \in Nat /\ rd.frameId \in Nat /\ rd.frameId \in 0 .. Payload
    BY <1>1, ConstantTypes
  <1>5. k * Payload + k + rd.frameId < BlockNum + packets_of(BlockNum)
    BY <1>3
  <1>6. rd.frameId = 0 => /\ rd.i + 1 # BlockNum + packets_of(BlockNum)
                          /\ rd.address \in 0 .. BlockNum - 1
    <2>1. k * Payload \in 0 .. BlockNum - 1
          /\ (rd.frameId = 0 =>
                  k * Payload + k + rd.frameId + 1 < BlockNum + packets_of(BlockNum))
      BY ONLY <1>4, <1>5, ReadingBounds, k \in Nat
    <2>2. packets_of(BlockNum) \in Nat /\ BlockNum \in Nat
      BY PacketsOf, ConstantTypes
    <2> QED BY <1>3, <1>4, <2>1, <2>2
  <1>7. /\ new = IF rd.i + 1 = BlockNum + packets_of(BlockNum)
                 THEN [item |-> rd.item + 1, i |-> 0, address |-> 0, frameId |-> 0]
                 ELSE [item |-> rd.item, i |-> rd.i + 1,
                       address |-> IF rd.frameId = 0 THEN rd.address ELSE rd.address + 1,
                       frameId |-> IF rd.frameId = Payload
                                      \/ rd.i + 1 = BlockNum + packets_of(BlockNum)
                                   THEN 0 ELSE rd.frameId + 1]
        /\ \A m \in Node \ {n} : rdProp'[m] = rdProp[m]
    BY DEF ReadProp, Typed
  <1>8. CASE rd.i + 1 = BlockNum + packets_of(BlockNum)
    <2>1. new.item = rd.item + 1 /\ rd.frameId # 0
      BY <1>6, <1>7, <1>8
    <2> QED BY <1>2, <1>6, <1>7, <2>1
  <1>9. CASE rd.i + 1 # BlockNum + packets_of(BlockNum)
    <2>1. /\ new.item = rd.item
          /\ new.address = IF rd.frameId = 0 THEN rd.address ELSE rd.address + 1
          /\ new.frameId = IF rd.frameId = Payload THEN 0 ELSE rd.frameId + 1
      BY <1>7, <1>9
    <2>2. rd.frameId = 0 => new.frameId # 0
      BY <2>1, ConstantTypes
    <2> QED BY <1>2, <1>6, <1>7, <2>1, <2>2
  <1> QED BY <1>8, <1>9

LEMMA ReadUnread ==
    ASSUME Typed, NEW n \in Node, Reading(n), ReadProp(n), NEW f \in PacketFrame,
           f = NextFrame(n)
    PROVE  /\ Unread' \subseteq Unread
           /\ f.head => f.addr \in Unread /\ f.addr \notin Unread'
  <1>1. /\ rdProp[n].item \in DOMAIN Schedule[n] /\ rdProp[n].address \in Nat
        /\ rdProp[n].item \in Nat
        /\ \/ rdProp'[n].item = rdProp[n].item + 1 /\ rdProp[n].frameId # 0
           \/ /\ rdProp'[n].item = rdProp[n].item
              /\ rdProp'[n].address = rdProp[n].address
              /\ rdProp[n].frameId = 0 /\ rdProp'[n].frameId # 0
           \/ /\ rdProp'[n].item = rdProp[n].item
              /\ rdProp'[n].address = rdProp[n].address + 1
              /\ rdProp[n].frameId # 0
        /\ rdProp[n].frameId = 0 => rdProp[n].address \in 0 .. BlockNum - 1
        /\ \A m \in Node \ {n} : rdProp'[m] = rdProp[m]
    BY ReadMoves
  <1>2. \A m \in Node : Schedule[m] \in Seq(Partition) /\ DOMAIN Schedule[m] \subseteq Nat
    BY ConstantTypes
  <1>3. ASSUME NEW a \in Unread'
        PROVE  a \in Unread
    <2>4. PICK m \in Node : \E k \in DOMAIN Schedule[m] :
              /\ a \in Starts /\ Schedule[m][k] = a \div BlockNum
              /\ \/ k > rdProp'[m].item
                 \/ /\ k = rdProp'[m].item
                    /\ \/ a % BlockNum > rdProp'[m].address
                       \/ a % BlockNum = rdProp'[m].address /\ rdProp'[m].frameId = 0
      BY <1>3 DEF Unread
    <2>1. PICK k \in DOMAIN Schedule[m] :
              /\ a \in Starts /\ Schedule[m][k] = a \div BlockNum
              /\ \/ k > rdProp'[m].item
                 \/ /\ k = rdProp'[m].item
                    /\ \/ a % BlockNum > rdProp'[m].address
                       \/ a % BlockNum = rdProp'[m].address /\ rdProp'[m].frameId = 0
      BY <2>4
    <2>2. k \in Nat /\ a % BlockNum \in Nat
      <3>1. a \in Nat /\ BlockNum \in Nat \ {0}
        BY <2>1, BlockType, ConstantTypes DEF Starts
      <3>2. a % BlockNum \in 0 .. BlockNum - 1
        BY <3>1, Division
      <3> QED BY <1>2, <3>1, <3>2
    <2>3. /\ \/ k > rdProp[m].item
             \/ /\ k = rdProp[m].item
                /\ \/ a % BlockNum > rdProp[m].address
                   \/ a % BlockNum = rdProp[m].address /\ rdProp[m].frameId = 0
      <3>1. CASE m = n
        BY <1>1, <2>1, <2>2, <3>1
      <3>2. CASE m # n
        BY <1>1, <2>1, <3>2
      <3> QED BY <3>1, <3>2
    <2> QED BY <2>1, <2>3 DEF Unread
  <1>4. ASSUME f.head
        PROVE  f.addr \in Unread /\ f.addr \notin Unread'
    <2>1. /\ rdProp[n].frameId = 0 /\ rdProp[n].address \in 0 .. BlockNum - 1
          /\ f.addr = Schedule[n][rdProp[n].item] * BlockNum + rdProp[n].address
      BY <1>1, <1>4 DEF NextFrame
    <2> PICK p \in Partition, b \in 0 .. BlockNum - 1 :
            p = Schedule[n][rdProp[n].item] /\ b = rdProp[n].address
      BY <1>1, <1>2, <2>1
    <2>2. f.addr \div BlockNum = p /\ f.addr % BlockNum = b
      BY <2>1, DivOfBlock
    <2>3. f.addr \in Starts
      BY <1>4, FramePositions DEF PacketFrame, Starts
    <2>4. f.addr \in Unread
      BY <1>1, <2>1, <2>2, <2>3 DEF Unread
    <2>5. ASSUME NEW m \in Node, NEW k \in DOMAIN Schedule[m],
                 Schedule[m][k] = f.addr \div BlockNum,
                 \/ k > rdProp'[m].item
                 \/ /\ k = rdProp'[m].item
                    /\ \/ f.addr % BlockNum > rdProp'[m].address
                       \/ f.addr % BlockNum = rdProp'[m].address /\ rdProp'[m].frameId = 0
          PROVE  FALSE
      <3>1. m = n /\ k = rdProp[n].item
        BY <1>1, <2>2, <2>5, ConstantsAssumption DEF OneOwner
      <3> QED BY <1>1, <2>1, <2>2, <2>5, <3>1
    <2>6. f.addr \notin Unread'
      BY <2>5 DEF Unread
    <2> QED BY <2>4, <2>6
  <1> QED BY <1>3, <1>4

LEMMA ReadPlaces ==
    ASSUME Typed, NEW n \in Node, Bounded(n), Reading(n), ReadProp(n),
           NEW k \in Node, NEW a \in Starts, OnePlace(k, a)
    PROVE  OnePlace(k, a)'
  <1> PICK f : f = NextFrame(n)
    OBVIOUS
  <1>1. f \in PacketFrame /\ vertexTrans' = Push(vertexTrans, n, f)
    <2>1. f \in PacketFrame /\ vertexTrans' = [vertexTrans EXCEPT ![n] = Append(vertexTrans[n], f)]
      BY ReadFrame
    <2> QED BY <2>1 DEF Push
  <1>2. UNCHANGED <<wire, net_in, lost, vertexUpdate, wrProp, vertexProp>>
    BY DEF ReadProp, netVars, writeVars
  <1>3. vertexTrans \in [Node -> Seq(PacketFrame)] /\ IsFiniteSet(Marked(vertexTrans, Anywhere(a)))
    BY DEF Typed, OnePlace
  <1>4. PICK dt \in {0, 1} :
            /\ dt = 1 <=> <<n, f>> \in Anywhere(a)
            /\ IsFiniteSet(Marked(vertexTrans', Anywhere(a)))
            /\ Cardinality(Marked(vertexTrans', Anywhere(a)))
                   = Cardinality(Marked(vertexTrans, Anywhere(a))) + dt
    BY ONLY <1>1, <1>3, CountPush, n \in Node
  <1>5. /\ Unread' \subseteq Unread
        /\ f.head => f.addr \in Unread /\ f.addr \notin Unread'
    BY <1>1, ReadUnread
  <1>6. PICK dr \in {-1, 0} :
            /\ One(a \in Unread') = One(a \in Unread) + dr
            /\ a \in Unread /\ a \notin Unread' => dr = -1
    BY <1>5 DEF One
  <1>7. dt = 1 => dr = -1
    BY <1>4, <1>5, <1>6 DEF Anywhere
  <1>8. dr + dt + 0 + 0 + 0 + 0 + 0 + 0 <= 0
    BY ONLY <1>7, dt \in {0, 1}, dr \in {-1, 0}
  <1>9. /\ IsFiniteSet(Marked(wire', OnWire(k, a)))
        /\ Cardinality(Marked(wire', OnWire(k, a)))
               = Cardinality(Marked(wire, OnWire(k, a))) + 0
        /\ IsFiniteSet(Marked(net_in', InNet(k, a)))
        /\ Cardinality(Marked(net_in', InNet(k, a)))
               = Cardinality(Marked(net_in, InNet(k, a))) + 0
        /\ IsFiniteSet(Marked(vertexUpdate', AtNode(k, a)))
        /\ Cardinality(Marked(vertexUpdate', AtNode(k, a)))
               = Cardinality(Marked(vertexUpdate, AtNode(k, a))) + 0
        /\ One(Current(k, a)') = One(Current(k, a)) + 0
        /\ One(a \in Got(k)') = One(a \in Got(k)) + 0
        /\ One(Lost(k, a)') = One(Lost(k, a)) + 0
    BY <1>2, PartsKept
  <1>10. /\ IsFiniteSet(Marked(vertexTrans', Anywhere(a)))
         /\ Cardinality(Marked(vertexTrans', Anywhere(a)))
                = Cardinality(Marked(vertexTrans, Anywhere(a))) + dt
         /\ One(a \in Unread') = One(a \in Unread) + dr
    BY <1>4, <1>6
  <1>11. 0 \in -1 .. 1 /\ dt \in -1 .. 1 /\ dr \in -1 .. 1
    OBVIOUS
  <1> QED BY ONLY <1>8, <1>9, <1>10, <1>11, PlacesMove, k \in Node, a \in Starts, OnePlace(k, a)

-----------------------------------------------------------------------------
(* writeProp stores a packet that is neither stored nor being stored. *)

LEMMA WriteFrame ==
    ASSUME Typed, Framing, NEW n \in Node, Writing(n), WriteProp(n),
           NEW f, f = Head(vertexUpdate[n])
    PROVE  /\ f \in PacketFrame /\ vertexUpdate[n] # <<>> /\ vertexUpdate' = Pop(vertexUpdate, n)
           /\ wrProp[n].state = "firstFrame" => f.head /\ f.addr \in Starts
           /\ wrProp[n].state # "firstFrame" =>
                  /\ ~f.head /\ f.addr = wrProp[n].address + wrProp[n].offset
                  /\ PacketStart(f.addr) = wrProp[n].address /\ wrProp[n].address \in Starts
           /\ wrProp[n] \in [state : {"firstFrame", "remainFrame"}, address : Block,
                             offset : 0 .. Payload, process_packet_num : 0 .. packet_num]
           /\ wrProp[n].address \in Nat /\ wrProp[n].offset \in Nat
           /\ wrProp[n].process_packet_num < packet_num
           /\ UNCHANGED <<rdProp, vertexTrans, currentState, current_node_id,
                          write_read_num, wire, net_in, lost>>
  <1>1. PICK own \in [Node -> Position], mid \in [Node -> Position],
             gap \in [Node -> Position] :
            \A m \in Node : FramedAt(m, own, mid, gap)
    BY DEF Framing
  <1>2. /\ vertexUpdate[n] # <<>> /\ vertexUpdate[n] \in Seq(PacketFrame)
        /\ vertexUpdate' = Pop(vertexUpdate, n)
        /\ wrProp[n].process_packet_num < packet_num
        /\ UNCHANGED <<rdProp, vertexTrans, currentState, current_node_id,
                       write_read_num, wire, net_in, lost>>
    BY DEF Typed, WriteProp, WritePropFirst, WritePropRemain, WritePropRuns,
           readVars, transVars, netVars
  <1>3. f \in PacketFrame /\ At(f) = WritePos(n)
    BY <1>1, <1>2, FlowHead DEF FramedAt
  <1>4. wrProp[n] \in [state : {"firstFrame", "remainFrame"}, address : Block,
                       offset : 0 .. Payload, process_packet_num : 0 .. packet_num]
    BY DEF Typed
  <1>5. wrProp[n].address \in Nat /\ wrProp[n].offset \in Nat /\ wrProp[n].address \in Block
    <2>1. wrProp[n].address \in Block /\ wrProp[n].offset \in 0 .. Payload
      BY <1>4
    <2>2. wrProp[n].offset \in Nat
      BY <2>1, ConstantTypes
    <2> QED BY <2>1, <2>2, BlockType
  <1>6. CASE wrProp[n].state = "firstFrame"
    <2>1. f.head
      BY <1>3, <1>6, FramePositions DEF WritePos
    <2>2. f.addr \in Starts
      BY <1>3, <2>1, FramePositions DEF PacketFrame, Starts
    <2> QED BY <1>2, <1>3, <1>4, <1>5, <1>6, <2>1, <2>2
  <1>7. CASE wrProp[n].state # "firstFrame"
    <2>1. At(f) = wrProp[n].address + wrProp[n].offset
      BY <1>3, <1>7 DEF WritePos
    <2>2. ~f.head /\ f.addr = wrProp[n].address + wrProp[n].offset
      BY <1>3, <1>5, <2>1, FramePositions DEF Boundary
    <2>3. Slot(wrProp[n].address) = 0 /\ Slot(f.addr) = wrProp[n].offset
      BY <1>4, <1>7, <2>2 DEF Writing
    <2>4. PacketStart(f.addr) = wrProp[n].address /\ wrProp[n].address \in Starts
      BY <1>5, <2>2, <2>3 DEF PacketStart, Starts
    <2> QED BY <1>2, <1>3, <1>4, <1>5, <1>7, <2>2, <2>4
  <1> QED BY <1>6, <1>7

\* The packet whose header writeProp reads is in no other place.
LEMMA NotGotYet ==
    ASSUME Typed, NEW n \in Node, vertexUpdate[n] # <<>>,
           NEW f \in PacketFrame, f = Head(vertexUpdate[n]), f.head,
           f.addr \in Starts, OnePlace(n, f.addr)
    PROVE  f.addr \notin Got(n)
  <1> PICK a \in Starts : a = f.addr
    OBVIOUS
  <1>1. PICK t, w, i, v \in Nat, r, c, g, l \in {0, 1} :
            /\ t = Cardinality(Marked(vertexTrans, Anywhere(a)))
            /\ w = Cardinality(Marked(wire, OnWire(n, a)))
            /\ i = Cardinality(Marked(net_in, InNet(n, a)))
            /\ v = Cardinality(Marked(vertexUpdate, AtNode(n, a)))
            /\ r = One(a \in Unread) /\ c = One(Current(n, a))
            /\ g = One(a \in Got(n)) /\ l = One(Lost(n, a))
            /\ r + t + w + i + v + c + g + l <= 1
    BY PlacesOld, SMTT(90)
  <1>2. <<n, f>> \in AtNode(n, a) /\ IsFiniteSet(Marked(vertexUpdate, AtNode(n, a)))
    BY DEF AtNode, OnePlace
  <1>3. vertexUpdate \in [Node -> Seq(PacketFrame)]
    BY DEF Typed
  <1>4. /\ IsFiniteSet(Marked(Pop(vertexUpdate, n), AtNode(n, a)))
        /\ Cardinality(Marked(Pop(vertexUpdate, n), AtNode(n, a))) + 1 = v
    BY <1>1, <1>2, <1>3, MarkedPop
  <1>5. v >= 1
    BY <1>4, FS_CardinalityType
  <1>6. g = 0
    <2>1. r + t + w + i + v + c + g + l <= 1
      BY <1>1
    <2> QED BY ONLY <1>5, <2>1, t \in Nat, w \in Nat, i \in Nat, v \in Nat, r \in {0, 1},
               c \in {0, 1}, g \in {0, 1}, l \in {0, 1}
  <1> QED BY <1>1, <1>6 DEF One

\* A frame behind the header: the last one completes the packet.
LEMMA StoreFrame ==
    ASSUME Typed, Framing, NEW n \in Node, Writing(n), InOrder(n), WritePropRemain(n),
           NEW f, f = Head(vertexUpdate[n]), NEW s, s = wrProp[n].address
    PROVE  /\ Current(n, s) /\ s \notin Got(n) /\ InOrder(n)'
           /\ f.last => /\ Got(n)' = Got(n) \cup {s} /\ \A a : ~Current(n, a)'
                        /\ wrProp'[n].process_packet_num = wrProp[n].process_packet_num + 1
           /\ ~f.last => /\ Got(n)' = Got(n) /\ \A a : Current(n, a)' <=> Current(n, a)
                         /\ wrProp'[n].process_packet_num = wrProp[n].process_packet_num
  <1>1. wrProp[n].state = "remainFrame" /\ WriteProp(n)
    BY DEF WritePropRemain, WriteProp
  <1>2. /\ f \in PacketFrame /\ ~f.head /\ f.addr = s + wrProp[n].offset
        /\ PacketStart(f.addr) = s /\ s \in Starts
        /\ wrProp[n] \in [state : {"firstFrame", "remainFrame"}, address : Block,
                          offset : 0 .. Payload, process_packet_num : 0 .. packet_num]
        /\ s \in Nat /\ wrProp[n].offset \in Nat
    BY <1>1, WriteFrame
  <1>3. /\ vertexProp' = [vertexProp EXCEPT ![n][f.addr] = f.addr]
        /\ wrProp' = [wrProp EXCEPT ![n] =
               [state |-> IF f.last THEN "firstFrame" ELSE "remainFrame",
                address |-> s, offset |-> wrProp[n].offset + 1,
                process_packet_num |-> wrProp[n].process_packet_num
                                           + (IF f.last THEN 1 ELSE 0)]]
    BY <1>2 DEF WritePropRemain
  <1>4. f.addr \in Block /\ f.addr \in Nat /\ Block \subseteq Nat
    BY <1>2, FramePositions, BlockType
  <1>5. \A b \in Block : vertexProp'[n][b] = IF b = f.addr THEN f.addr ELSE vertexProp[n][b]
    BY <1>3, <1>4 DEF Typed
  <1>6. wrProp'[n] = [state |-> IF f.last THEN "firstFrame" ELSE "remainFrame",
                      address |-> s, offset |-> wrProp[n].offset + 1,
                      process_packet_num |-> wrProp[n].process_packet_num
                                                 + (IF f.last THEN 1 ELSE 0)]
    BY <1>3 DEF Typed
  <1>7. /\ Current(n, s) /\ \A a : Current(n, a) => a = s
        /\ \A b \in Block : PacketStart(b) = s =>
               vertexProp[n][b] = IF b < f.addr THEN b ELSE NoBlock
    <2>1. Current(n, s) /\ \A a : Current(n, a) => a = s
      BY <1>1 DEF Current
    <2> QED BY <1>2, <2>1 DEF InOrder
  <1>8. s \notin Got(n)
    <2>1. vertexProp[n][f.addr] = NoBlock /\ NoBlock # f.addr
      BY <1>2, <1>4, <1>7 DEF NoBlock
    <2> QED BY <1>2, <1>4, <2>1 DEF Got
  <1>9. \A a \in Starts \ {s} : a \in Got(n)' <=> a \in Got(n)
    BY <1>2, <1>5 DEF Got
  <1>10. CASE f.last
    <2>1. \A b \in Block : PacketStart(b) = s => b <= f.addr
      BY <1>2, <1>10 DEF PacketFrame
    <2>2. \A b \in Block : PacketStart(b) = s => vertexProp'[n][b] = b
      <3> SUFFICES ASSUME NEW b \in Block, PacketStart(b) = s
                   PROVE  vertexProp'[n][b] = b
        OBVIOUS
      <3>1. b \in Nat /\ b <= f.addr
        BY <1>4, <2>1
      <3> QED BY <1>4, <1>5, <1>7, <3>1
    <2>3. Got(n)' = Got(n) \cup {s}
      BY <1>2, <1>9, <2>2, ZenonT(90) DEF Got
    <2>4. /\ \A a : ~Current(n, a)'
          /\ wrProp'[n].process_packet_num = wrProp[n].process_packet_num + 1
      BY <1>6, <1>10 DEF Current
    <2>5. ASSUME NEW b \in Block, PacketStart(b) \notin Got(n)'
          PROVE  vertexProp'[n][b] = NoBlock
      <3>1. PacketStart(b) \notin Got(n) /\ PacketStart(b) # s
        BY <2>3, <2>5
      <3>2. vertexProp[n][b] = NoBlock
        BY <1>7, <3>1 DEF InOrder
      <3> QED BY <1>2, <1>5, <3>1, <3>2
    <2>6. InOrder(n)'
      BY <2>4, <2>5 DEF InOrder
    <2> QED BY <1>7, <1>8, <1>10, <2>3, <2>4, <2>6
  <1>11. CASE ~f.last
    <2>1. f.addr + 1 \in Block /\ PacketStart(f.addr + 1) = s
      <3>1. f.addr + 1 \in Block /\ Slot(f.addr + 1) = Slot(f.addr) + 1
        BY <1>2, <1>11 DEF PacketFrame
      <3> QED BY <1>2, <1>4, <3>1, SamePacketNext
    <2>2. vertexProp'[n][f.addr + 1] = NoBlock /\ NoBlock # f.addr + 1
      BY <1>4, <1>5, <1>7, <2>1 DEF NoBlock
    <2>3. s \notin Got(n)'
      BY <2>1, <2>2 DEF Got
    <2>4. Got(n)' = Got(n)
      BY <1>8, <1>9, <2>3 DEF Got
    <2>5. /\ wrProp'[n].state = "remainFrame" /\ wrProp'[n].address = s
          /\ wrProp'[n].offset = wrProp[n].offset + 1
          /\ wrProp'[n].process_packet_num = wrProp[n].process_packet_num
      BY <1>2, <1>6, <1>11
    <2>6. \A a : Current(n, a)' <=> Current(n, a)
      BY <1>1, <2>5 DEF Current
    <2>7. ASSUME NEW b \in Block
          PROVE  /\ PacketStart(b) \notin Got(n)' /\ ~Current(n, PacketStart(b))' =>
                        vertexProp'[n][b] = NoBlock
                 /\ Current(n, PacketStart(b))' =>
                        vertexProp'[n][b] = IF b < wrProp'[n].address + wrProp'[n].offset
                                            THEN b ELSE NoBlock
      <3>1. CASE PacketStart(b) = s
        <4>1. vertexProp'[n][b] = IF b < f.addr + 1 THEN b ELSE NoBlock
          BY <1>4, <1>5, <1>7, <3>1
        <4>2. wrProp'[n].address + wrProp'[n].offset = f.addr + 1
          BY <1>2, <2>5
        <4> QED BY <1>7, <2>6, <3>1, <4>1, <4>2
      <3>2. CASE PacketStart(b) # s
        <4>1. ~Current(n, PacketStart(b)) /\ vertexProp'[n][b] = vertexProp[n][b]
          BY <1>2, <1>5, <1>7, <3>2
        <4> QED BY <2>4, <2>6, <4>1 DEF InOrder
      <3> QED BY <3>1, <3>2
    <2>8. InOrder(n)'
      BY <2>7 DEF InOrder
    <2> QED BY <1>7, <1>8, <1>11, <2>4, <2>5, <2>6, <2>8
  <1>12. f.last \in BOOLEAN
    BY <1>2, FramePositions
  <1> QED BY <1>10, <1>11, <1>12

LEMMA WriteOthers ==
    ASSUME Typed, NEW n \in Node, WriteProp(n), NEW m \in Node, m # n
    PROVE  wrProp'[m] = wrProp[m] /\ vertexProp'[m] = vertexProp[m]
  BY DEF WriteProp, WritePropFirst, WritePropRemain, Typed

LEMMA WritePlaces ==
    ASSUME Typed, Framing, NEW n \in Node, Writing(n), InOrder(n), WriteProp(n),
           NEW k \in Node, NEW a \in Starts, OnePlace(k, a)
    PROVE  OnePlace(k, a)'
  <1> PICK f : f = Head(vertexUpdate[n])
    OBVIOUS
  <1>1. /\ f \in PacketFrame /\ vertexUpdate[n] # <<>> /\ vertexUpdate' = Pop(vertexUpdate, n)
        /\ wrProp[n].state = "firstFrame" => f.head /\ f.addr \in Starts
        /\ wrProp[n].state # "firstFrame" => ~f.head
        /\ UNCHANGED <<rdProp, vertexTrans, wire, net_in, lost>>
    BY WriteFrame
  <1>2. vertexUpdate \in [Node -> Seq(PacketFrame)] /\ IsFiniteSet(Marked(vertexUpdate, AtNode(k, a)))
    BY DEF Typed, OnePlace
  <1>3. PICK dv \in {-1, 0} :
            /\ dv = -1 <=> <<n, f>> \in AtNode(k, a)
            /\ IsFiniteSet(Marked(vertexUpdate', AtNode(k, a)))
            /\ Cardinality(Marked(vertexUpdate', AtNode(k, a)))
                   = Cardinality(Marked(vertexUpdate, AtNode(k, a))) + dv
    BY <1>1, <1>2, CountPop
  <1>4. \E dc, dg \in -1 .. 1 :
            /\ One(Current(k, a)') = One(Current(k, a)) + dc
            /\ One(a \in Got(k)') = One(a \in Got(k)) + dg
            /\ dv + dc + dg <= 0
    <2>1. CASE k # n
      <3>1. wrProp'[k] = wrProp[k] /\ vertexProp'[k] = vertexProp[k]
        BY <2>1, WriteOthers
      <3>2. /\ One(Current(k, a)') = One(Current(k, a)) + 0
            /\ One(a \in Got(k)') = One(a \in Got(k)) + 0
        BY <3>1 DEF Current, Got, One
      <3> QED BY <3>2
    <2>2. CASE k = n /\ WritePropFirst(n)
      <3>1. /\ wrProp'[n].state = "remainFrame" /\ wrProp'[n].address = f.addr
            /\ wrProp[n].state = "firstFrame" /\ vertexProp' = vertexProp
        BY <2>2 DEF WritePropFirst, Typed
      <3>2. One(a \in Got(k)') = One(a \in Got(k)) + 0
        BY <3>1 DEF Got, One
      <3>3. ~Current(k, a) /\ (Current(k, a)' <=> f.addr = a)
        BY <2>2, <3>1 DEF Current
      <3>4. f.addr = a => dv = -1
        BY <1>1, <1>3, <2>2, <3>1 DEF AtNode
      <3>5. CASE f.addr = a
        <4>1. One(Current(k, a)') = One(Current(k, a)) + 1
          BY <3>3, <3>5 DEF One
        <4> QED BY <3>2, <3>4, <3>5, <4>1
      <3>6. CASE f.addr # a
        <4>1. One(Current(k, a)') = One(Current(k, a)) + 0
          BY <3>3, <3>6 DEF One
        <4> QED BY <3>2, <4>1
      <3> QED BY <3>5, <3>6
    <2>3. CASE k = n /\ WritePropRemain(n)
      <3> PICK s : s = wrProp[n].address
        OBVIOUS
      <3>1. /\ Current(n, s) /\ s \notin Got(n)
            /\ f.last => Got(n)' = Got(n) \cup {s} /\ \A c : ~Current(n, c)'
            /\ ~f.last => Got(n)' = Got(n) /\ \A c : Current(n, c)' <=> Current(n, c)
        BY <2>3, StoreFrame
      <3>2. CASE f.last /\ a = s
        <4>1. One(Current(k, a)') = One(Current(k, a)) + (-1)
          BY <2>3, <3>1, <3>2 DEF One
        <4>2. One(a \in Got(k)') = One(a \in Got(k)) + 1
          BY <2>3, <3>1, <3>2 DEF One
        <4> QED BY <4>1, <4>2
      <3>3. CASE ~(f.last /\ a = s)
        <4>1. Current(n, a) => a = s
          BY DEF Current
        <4>2. One(Current(k, a)') = One(Current(k, a)) + 0
          BY <2>3, <3>1, <3>3, <4>1 DEF One
        <4>3. One(a \in Got(k)') = One(a \in Got(k)) + 0
          BY <2>3, <3>1, <3>3 DEF One
        <4> QED BY <4>2, <4>3
      <3> QED BY <3>2, <3>3
    <2> QED BY <2>1, <2>2, <2>3 DEF WriteProp
  <1>5. PICK dc, dg \in -1 .. 1 :
            /\ One(Current(k, a)') = One(Current(k, a)) + dc
            /\ One(a \in Got(k)') = One(a \in Got(k)) + dg
            /\ dv + dc + dg <= 0
    BY <1>4
  <1>6. /\ IsFiniteSet(Marked(vertexTrans', Anywhere(a)))
        /\ Cardinality(Marked(vertexTrans', Anywhere(a)))
               = Cardinality(Marked(vertexTrans, Anywhere(a))) + 0
        /\ IsFiniteSet(Marked(wire', OnWire(k, a)))
        /\ Cardinality(Marked(wire', OnWire(k, a)))
               = Cardinality(Marked(wire, OnWire(k, a))) + 0
        /\ IsFiniteSet(Marked(net_in', InNet(k, a)))
        /\ Cardinality(Marked(net_in', InNet(k, a)))
               = Cardinality(Marked(net_in, InNet(k, a))) + 0
        /\ One(a \in Unread') = One(a \in Unread) + 0
        /\ One(Lost(k, a)') = One(Lost(k, a)) + 0
    BY <1>1, PartsKept
  <1>7. 0 + 0 + 0 + 0 + dv + dc + dg + 0 <= 0
    BY <1>5
  <1>8. /\ IsFiniteSet(Marked(vertexUpdate', AtNode(k, a)))
        /\ Cardinality(Marked(vertexUpdate', AtNode(k, a)))
               = Cardinality(Marked(vertexUpdate, AtNode(k, a))) + dv
        /\ One(Current(k, a)') = One(Current(k, a)) + dc
        /\ One(a \in Got(k)') = One(a \in Got(k)) + dg
    BY <1>3, <1>5
  <1>9. 0 \in -1 .. 1 /\ dv \in -1 .. 1 /\ dc \in -1 .. 1 /\ dg \in -1 .. 1
    BY <1>5
  <1> QED BY ONLY <1>6, <1>7, <1>8, <1>9, PlacesMove, k \in Node, a \in Starts, OnePlace(k, a)

-----------------------------------------------------------------------------
(* globalTrans: what its six actions do to the packets and to the credits. *)

MovesOwn(n, f) ==
    /\ vertexTrans[n] # <<>> /\ f = Head(vertexTrans[n]) /\ f.node = n
    /\ vertexTrans' = Pop(vertexTrans, n) /\ wire' = Push(wire, n, f)
    /\ UNCHANGED <<rdProp, net_in, lost, vertexUpdate, wrProp, vertexProp>>
    /\ \A m \in Node : write_read_num'[m]
                           = write_read_num[m] + (IF f.head /\ f.node = m THEN 1 ELSE 0)
    /\ \A m \in Node :
           \/ current_node_id'[m] = m
           \/ current_node_id'[m] = current_node_id[m] /\ ~(f.head /\ f.node = m)

MovesHome(n, f) ==
    /\ net_in[n] # <<>> /\ f = Head(net_in[n])
    /\ net_in' = Pop(net_in, n) /\ vertexUpdate' = Push(vertexUpdate, n, f)
    /\ UNCHANGED <<rdProp, vertexTrans, wire, lost, wrProp, vertexProp, current_node_id>>
    /\ f.head => current_node_id[n] = n /\ f.node = n
    /\ \A m \in Node : write_read_num'[m]
                           = write_read_num[m] - (IF f.head /\ f.node = m THEN 1 ELSE 0)

MovesOn(n, f) ==
    /\ net_in[n] # <<>> /\ f = Head(net_in[n])
    /\ net_in' = Pop(net_in, n) /\ vertexUpdate' = Push(vertexUpdate, n, f)
    /\ wire' = Push(wire, n, f) /\ (f.head => f.node # n)
    /\ UNCHANGED <<rdProp, vertexTrans, lost, wrProp, vertexProp, current_node_id,
                   write_read_num>>

LEMMA TransMoves ==
    ASSUME IInv, NEW n \in Node, Balanced(n), GlobalTrans(n)
    PROVE  \E f \in PacketFrame : MovesOwn(n, f) \/ MovesHome(n, f) \/ MovesOn(n, f)
  <1>1. PICK own \in [Node -> Position], mid \in [Node -> Position],
             gap \in [Node -> Position] :
            \A m \in Node : FramedAt(m, own, mid, gap)
    BY DEF IInv, Framing
  <1>2. Typed /\ FramedAt(n, own, mid, gap) /\ Credited(n) /\ OwnFrames(n)
    BY <1>1 DEF IInv
  <1>3. /\ write_read_num \in [Node -> Int] /\ current_node_id \in [Node -> Node \cup {-1}]
        /\ -1 \notin Node
    BY <1>2, SMTT(30) DEF Typed, Node
  <1>4. CASE FirstFrameOwn(n) \/ OnlySend(n)
    <2> PICK f : f = Head(vertexTrans[n])
      OBVIOUS
    <2>1. /\ vertexTrans[n] # <<>> /\ vertexTrans[n] \in Seq(PacketFrame)
          /\ Flow(vertexTrans[n], own[n], ReadPos(n))
          /\ vertexTrans' = Pop(vertexTrans, n) /\ wire' = Push(wire, n, f)
          /\ UNCHANGED <<rdProp, net_in, lost, vertexUpdate, wrProp, vertexProp>>
      BY <1>2, <1>4 DEF FirstFrameOwn, OnlySend, Typed, FramedAt, Send, readVars, writeVars
    <2>2. f \in PacketFrame /\ At(f) = own[n]
      BY <2>1, FlowHead
    <2>3. f.node = n
      <3>1. 1 \in 1 .. Len(vertexTrans[n]) /\ f = vertexTrans[n][1]
        BY <2>1
      <3> QED BY <1>2, <3>1 DEF OwnFrames
    <2>4. CASE FirstFrameOwn(n)
      <3>1. f.head
        BY <1>2, <2>2, <2>4, FramePositions DEF FramedAt, FirstFrameOwn
      <3>2. /\ write_read_num' = [write_read_num EXCEPT ![n] = @ + 1]
            /\ current_node_id' = [current_node_id EXCEPT ![n] = n]
        BY <2>3, <2>4 DEF FirstFrameOwn
      <3>3. \A m \in Node : write_read_num'[m]
                = write_read_num[m] + (IF f.head /\ f.node = m THEN 1 ELSE 0)
        BY <1>3, <2>3, <3>1, <3>2
      <3>4. \A m \in Node :
                \/ current_node_id'[m] = m
                \/ current_node_id'[m] = current_node_id[m] /\ ~(f.head /\ f.node = m)
        BY <1>3, <2>3, <3>2
      <3> QED BY <2>1, <2>2, <2>3, <3>3, <3>4 DEF MovesOwn
    <2>5. CASE OnlySend(n)
      <3>1. ~f.head
        BY <1>2, <2>2, <2>5, FramePositions DEF FramedAt, OnlySend
      <3>2. UNCHANGED <<write_read_num, current_node_id>>
        BY <2>5 DEF OnlySend
      <3>3. \A m \in Node : write_read_num'[m]
                = write_read_num[m] + (IF f.head /\ f.node = m THEN 1 ELSE 0)
        BY <1>3, <3>1, <3>2
      <3> QED BY <2>1, <2>2, <2>3, <3>1, <3>2, <3>3 DEF MovesOwn
    <2> QED BY <1>4, <2>4, <2>5
  <1>5. CASE FirstFrameSame(n) \/ FirstFrameOther(n) \/ RemainFrameSame(n) \/ RemainFrameOther(n)
    <2> PICK f : f = Head(net_in[n])
      OBVIOUS
    <2>1. Take(n)
      BY <1>5 DEF FirstFrameSame, FirstFrameOther, RemainFrameSame, RemainFrameOther
    <2>2. f \in PacketFrame /\ At(f) = mid[n]
      BY <1>2, <2>1, TakeFlows
    <2>3. /\ net_in[n] # <<>> /\ net_in' = Pop(net_in, n)
          /\ vertexUpdate' = Push(vertexUpdate, n, f)
      BY <2>1 DEF Take
    <2>4. currentState[n] = "firstFrame" => f.head
      BY <1>2, <2>2, FramePositions DEF FramedAt
    <2>5. currentState[n] \in {"remainFrame_same", "remainFrame_other"} => ~f.head
      BY <1>2, <2>2, FramePositions DEF FramedAt
    <2>6. /\ UNCHANGED <<rdProp, vertexTrans, lost, wrProp, vertexProp, current_node_id>>
      BY <1>5 DEF FirstFrameSame, FirstFrameOther, RemainFrameSame, RemainFrameOther,
                  readVars, writeVars
    <2>7. CASE FirstFrameSame(n)
      <3>1. UNCHANGED wire /\ f.node = current_node_id[n]
            /\ write_read_num' = [write_read_num EXCEPT ![n] = @ - 1]
        BY <2>7 DEF FirstFrameSame
      <3>2. f.node = n /\ current_node_id[n] = n
        BY <1>2, <1>3, <2>2, <3>1, FramePositions DEF OwnFrames
      <3>3. f.head
        BY <2>4, <2>7 DEF FirstFrameSame
      <3>4. \A m \in Node : write_read_num'[m]
                = write_read_num[m] - (IF f.head /\ f.node = m THEN 1 ELSE 0)
        BY <1>3, <3>1, <3>2, <3>3
      <3> QED BY <2>2, <2>3, <2>6, <3>1, <3>2, <3>4 DEF MovesHome
    <2>8. CASE RemainFrameSame(n)
      <3>1. UNCHANGED <<wire, write_read_num>>
        BY <2>8 DEF RemainFrameSame
      <3>2. ~f.head
        BY <2>5, <2>8 DEF RemainFrameSame
      <3>3. \A m \in Node : write_read_num'[m]
                = write_read_num[m] - (IF f.head /\ f.node = m THEN 1 ELSE 0)
        BY <1>3, <3>1, <3>2
      <3> QED BY <2>2, <2>3, <2>6, <3>1, <3>2, <3>3 DEF MovesHome
    <2>9. CASE FirstFrameOther(n)
      <3>1. wire' = Push(wire, n, f) /\ UNCHANGED write_read_num /\ f.node # current_node_id[n]
        BY <2>9 DEF FirstFrameOther, Send
      <3>2. f.head
        BY <2>4, <2>9 DEF FirstFrameOther
      <3>3. f.node # n
        <4>1. ASSUME f.node = n
              PROVE  write_read_num[n] # 0
          <5>1. net_in \in [Node -> Seq(PacketFrame)]
            BY <1>2 DEF Typed
          <5>2. /\ IsFiniteSet(HeadersIn(net_in, n)) /\ IsFiniteSet(HeadersIn(wire, n))
                /\ IsFiniteSet({g \in lost : g.node = n})
            BY <1>2 DEF Credited, Balanced
          <5>3. /\ IsFiniteSet(HeadersIn(Pop(net_in, n), n))
                /\ Cardinality(HeadersIn(Pop(net_in, n), n)) + 1 = Cardinality(HeadersIn(net_in, n))
            BY <2>3, <3>2, <4>1, <5>1, <5>2, HeadersPop
          <5>4. /\ Cardinality(HeadersIn(Pop(net_in, n), n)) \in Nat
                /\ Cardinality(HeadersIn(net_in, n)) \in Nat
                /\ Cardinality(HeadersIn(wire, n)) \in Nat
                /\ Cardinality({g \in lost : g.node = n}) \in Nat
            BY <5>2, <5>3, FS_CardinalityType
          <5> QED BY <5>3, <5>4 DEF Balanced
        <4>2. current_node_id[n] \in {n, -1} /\ (current_node_id[n] = -1 => write_read_num[n] = 0)
          BY <1>2 DEF OwnFrames, Balanced
        <4> QED BY <3>1, <4>1, <4>2
      <3> QED BY <2>2, <2>3, <2>6, <3>1, <3>3 DEF MovesOn
    <2>10. CASE RemainFrameOther(n)
      <3>1. wire' = Push(wire, n, f) /\ UNCHANGED write_read_num
        BY <2>10 DEF RemainFrameOther, Send
      <3>2. ~f.head
        BY <2>5, <2>10 DEF RemainFrameOther
      <3> QED BY <2>2, <2>3, <2>6, <3>1, <3>2 DEF MovesOn
    <2> QED BY <1>5, <2>7, <2>8, <2>9, <2>10
  <1> QED BY <1>4, <1>5 DEF GlobalTrans

\* The credits that are out, as numbers.
LEMMA BalanceOld ==
    ASSUME IInv, NEW m \in Node, Balanced(m)
    PROVE  /\ IsFiniteSet(HeadersIn(wire, m)) /\ IsFiniteSet(HeadersIn(net_in, m))
           /\ \E w, i, l \in Nat :
                  /\ w = Cardinality(HeadersIn(wire, m))
                  /\ i = Cardinality(HeadersIn(net_in, m))
                  /\ l = Cardinality({g \in lost : g.node = m})
                  /\ write_read_num[m] = w + i + l
  <1>1. /\ IsFiniteSet(HeadersIn(wire, m)) /\ IsFiniteSet(HeadersIn(net_in, m))
        /\ IsFiniteSet({g \in lost : g.node = m})
    BY DEF IInv, Credited, Balanced
  <1> QED BY <1>1, FS_CardinalityType DEF Balanced

LEMMA BalanceNew ==
    ASSUME NEW m \in Node, NEW w, NEW i, NEW l,
           w = Cardinality(HeadersIn(wire', m)), i = Cardinality(HeadersIn(net_in', m)),
           l = Cardinality({g \in lost' : g.node = m}),
           IsFiniteSet({g \in lost' : g.node = m}),
           write_read_num'[m] = w + i + l,
           current_node_id'[m] = -1 => write_read_num'[m] = 0
    PROVE  Balanced(m)'
  BY DEF Balanced, HeadersIn, Marked

LEMMA BalancedTrans ==
    ASSUME IInv, NEW n \in Node, NEW f \in PacketFrame,
           MovesOwn(n, f) \/ MovesHome(n, f) \/ MovesOn(n, f),
           NEW m \in Node, Balanced(m)
    PROVE  Balanced(m)'
  <1>1. /\ wire \in [Node -> Seq(PacketFrame)] /\ net_in \in [Node -> Seq(PacketFrame)]
    BY DEF IInv, Typed
  <1>2. /\ IsFiniteSet(HeadersIn(wire, m)) /\ IsFiniteSet(HeadersIn(net_in, m))
        /\ \E w, i, l \in Nat :
               /\ w = Cardinality(HeadersIn(wire, m))
               /\ i = Cardinality(HeadersIn(net_in, m))
               /\ l = Cardinality({g \in lost : g.node = m})
               /\ write_read_num[m] = w + i + l
    BY BalanceOld
  <1>3. PICK w, i, l \in Nat :
            /\ w = Cardinality(HeadersIn(wire, m))
            /\ i = Cardinality(HeadersIn(net_in, m))
            /\ l = Cardinality({g \in lost : g.node = m})
            /\ write_read_num[m] = w + i + l
    BY <1>2
  <1>4. PICK d \in {0, 1} : d = IF f.head /\ f.node = m THEN 1 ELSE 0
    OBVIOUS
  <1>5. /\ lost' = lost /\ IsFiniteSet({g \in lost' : g.node = m})
        /\ l = Cardinality({g \in lost' : g.node = m})
        /\ current_node_id[m] = -1 => write_read_num[m] = 0
    BY <1>3 DEF Balanced, MovesOwn, MovesHome, MovesOn
  <1>9. m \in Nat /\ m # -1
    BY RingAssumption DEF Node
  <1>6. CASE MovesOwn(n, f)
    <2>1. /\ wire' = Push(wire, n, f) /\ net_in' = net_in /\ write_read_num'[m] = w + i + l + d
          /\ current_node_id'[m] = -1 => current_node_id[m] = -1 /\ d = 0
      <3>1. /\ wire' = Push(wire, n, f) /\ net_in' = net_in
            /\ write_read_num'[m] = write_read_num[m] + d
        BY <1>4, <1>6 DEF MovesOwn
      <3>2. \/ current_node_id'[m] = m
            \/ current_node_id'[m] = current_node_id[m] /\ ~(f.head /\ f.node = m)
        BY <1>6 DEF MovesOwn
      <3> QED BY <1>3, <1>4, <1>9, <3>1, <3>2
    <2>2. Cardinality(HeadersIn(wire', m)) = w + d
      <3>1. CASE f.head /\ f.node = m
        <4>1. Cardinality(HeadersIn(Push(wire, n, f), m)) = w + 1
          BY ONLY <1>1, <1>2, <1>3, <3>1, HeadersPush, n \in Node, m \in Node, f \in PacketFrame, ZenonT(90)
        <4> QED BY <1>3, <1>4, <2>1, <3>1, <4>1
      <3>2. CASE ~(f.head /\ f.node = m)
        <4>1. Cardinality(HeadersIn(Push(wire, n, f), m)) = w
          BY ONLY <1>1, <1>2, <1>3, <3>2, HeadersPush, n \in Node, m \in Node, f \in PacketFrame
        <4> QED BY <1>3, <1>4, <2>1, <3>2, <4>1
      <3> QED BY <3>1, <3>2
    <2>3. Cardinality(HeadersIn(net_in', m)) = i
      BY <1>3, <2>1
    <2>4. write_read_num'[m] = (w + d) + i + l
      BY <2>1
    <2>5. current_node_id'[m] = -1 => write_read_num'[m] = 0
      BY <1>3, <1>5, <2>1
    <2> QED BY <1>5, <2>2, <2>3, <2>4, <2>5, BalanceNew
  <1>7. CASE MovesHome(n, f)
    <2>1. /\ net_in[n] # <<>> /\ f = Head(net_in[n])
          /\ net_in' = Pop(net_in, n) /\ wire' = wire /\ write_read_num'[m] = w + i + l - d
          /\ current_node_id'[m] = -1 => current_node_id[m] = -1 /\ d = 0
      <3>1. /\ net_in[n] # <<>> /\ f = Head(net_in[n])
            /\ net_in' = Pop(net_in, n) /\ wire' = wire
            /\ write_read_num'[m] = write_read_num[m] - d
            /\ current_node_id'[m] = current_node_id[m]
            /\ f.head => current_node_id[n] = n /\ f.node = n
        BY <1>4, <1>7 DEF MovesHome
      <3>2. current_node_id[m] = -1 => d = 0
        BY <1>4, <1>9, <3>1
      <3> QED BY <1>3, <3>1, <3>2
    <2>2. Cardinality(HeadersIn(net_in', m)) = i - d
      <3>1. IsFiniteSet(HeadersIn(Pop(net_in, n), m))
        BY <1>1, <1>2, <2>1, HeadersPop
      <3>2. PICK j \in Nat : j = Cardinality(HeadersIn(Pop(net_in, n), m))
        BY <3>1, FS_CardinalityType
      <3>3. CASE f.head /\ f.node = m
        <4>1. j + 1 = i
          BY <1>1, <1>2, <1>3, <2>1, <3>2, <3>3, HeadersPop
        <4> QED BY <1>4, <2>1, <3>2, <3>3, <4>1
      <3>4. CASE ~(f.head /\ f.node = m)
        <4>1. j = i
          BY <1>1, <1>2, <1>3, <2>1, <3>2, <3>4, HeadersPop
        <4> QED BY <1>4, <2>1, <3>2, <3>4, <4>1
      <3> QED BY <3>3, <3>4
    <2>3. Cardinality(HeadersIn(wire', m)) = w
      BY <1>3, <2>1
    <2>4. write_read_num'[m] = w + (i - d) + l
      BY <2>1
    <2>5. current_node_id'[m] = -1 => write_read_num'[m] = 0
      BY <1>3, <1>5, <2>1
    <2> QED BY <1>5, <2>2, <2>3, <2>4, <2>5, BalanceNew
  <1>8. CASE MovesOn(n, f)
    <2>1. /\ net_in[n] # <<>> /\ wire' = Push(wire, n, Head(net_in[n]))
          /\ net_in' = Pop(net_in, n) /\ write_read_num'[m] = w + i + l
          /\ current_node_id'[m] = current_node_id[m]
      BY <1>3, <1>8 DEF MovesOn
    <2>2. /\ IsFiniteSet(HeadersIn(net_in', m)) /\ IsFiniteSet(HeadersIn(wire', m))
          /\ Cardinality(HeadersIn(wire', m)) + Cardinality(HeadersIn(net_in', m)) = w + i
      BY <1>1, <1>2, <1>3, <2>1, HeadersMove, ZenonT(40)
    <2>3. PICK x, y \in Nat : /\ x = Cardinality(HeadersIn(wire', m))
                              /\ y = Cardinality(HeadersIn(net_in', m))
      BY <2>2, FS_CardinalityType
    <2>4. x + y = w + i
      BY <2>2, <2>3
    <2>5. write_read_num'[m] = x + y + l
      BY <2>1, <2>4
    <2>6. current_node_id'[m] = -1 => write_read_num'[m] = 0
      BY <1>3, <1>5, <2>1
    <2> QED BY <1>5, <2>3, <2>5, <2>6, BalanceNew
  <1> QED BY <1>6, <1>7, <1>8

\* One hop further.
LEMMA BalancedArrive ==
    ASSUME IInv, NEW n \in Node, Arrive(n), NEW m \in Node, Balanced(m)
    PROVE  Balanced(m)'
  <1> PICK u \in Node : u = upper_worker_idx(n)
    BY Neighbours
  <1>1. /\ wire \in [Node -> Seq(PacketFrame)] /\ net_in \in [Node -> Seq(PacketFrame)]
        /\ wire[u] # <<>> /\ wire' = Pop(wire, u) /\ net_in' = Push(net_in, n, Head(wire[u]))
        /\ UNCHANGED <<current_node_id, write_read_num, lost>>
    BY DEF IInv, Typed, Arrive, transVars
  <1>2. /\ IsFiniteSet(HeadersIn(wire, m)) /\ IsFiniteSet(HeadersIn(net_in, m))
        /\ \E w, i, l \in Nat :
               /\ w = Cardinality(HeadersIn(wire, m))
               /\ i = Cardinality(HeadersIn(net_in, m))
               /\ l = Cardinality({g \in lost : g.node = m})
               /\ write_read_num[m] = w + i + l
    BY BalanceOld
  <1>3. PICK w, i, l \in Nat :
            /\ w = Cardinality(HeadersIn(wire, m))
            /\ i = Cardinality(HeadersIn(net_in, m))
            /\ l = Cardinality({g \in lost : g.node = m})
            /\ write_read_num[m] = w + i + l
    BY <1>2
  <1>4. /\ IsFiniteSet(HeadersIn(net_in', m)) /\ IsFiniteSet(HeadersIn(wire', m))
        /\ Cardinality(HeadersIn(net_in', m)) + Cardinality(HeadersIn(wire', m)) = i + w
    <2>1. wire[u] # <<>> /\ wire' = Pop(wire, u) /\ net_in' = Push(net_in, n, Head(wire[u]))
      BY <1>1
    <2>2. /\ wire \in [Node -> Seq(PacketFrame)] /\ net_in \in [Node -> Seq(PacketFrame)]
          /\ IsFiniteSet(HeadersIn(wire, m)) /\ IsFiniteSet(HeadersIn(net_in, m))
      BY <1>1, <1>2
    <2>3. /\ IsFiniteSet(HeadersIn(net_in', m)) /\ IsFiniteSet(HeadersIn(wire', m))
          /\ Cardinality(HeadersIn(net_in', m)) + Cardinality(HeadersIn(wire', m))
                 = Cardinality(HeadersIn(net_in, m)) + Cardinality(HeadersIn(wire, m))
      BY ONLY <2>1, <2>2, HeadersMove, u \in Node, n \in Node, m \in Node, ZenonT(90)
    <2> QED BY <1>3, <2>3
  <1>5. PICK x, y \in Nat : /\ x = Cardinality(HeadersIn(wire', m))
                            /\ y = Cardinality(HeadersIn(net_in', m))
    BY <1>4, FS_CardinalityType
  <1>6. y + x = i + w
    BY <1>4, <1>5
  <1>7. write_read_num'[m] = x + y + l
    BY <1>1, <1>3, <1>6
  <1>8. /\ l = Cardinality({g \in lost' : g.node = m}) /\ IsFiniteSet({g \in lost' : g.node = m})
        /\ current_node_id'[m] = -1 => write_read_num'[m] = 0
    BY <1>1, <1>3 DEF Balanced
  <1> QED BY <1>5, <1>7, <1>8, BalanceNew

\* A dropped packet takes its credit with it, for good.
LEMMA LostOnce ==
    ASSUME Typed, NEW u \in Node, wire[u] # <<>>, NEW f \in PacketFrame, f = Head(wire[u]),
           f.head, f.addr \in Starts, OnePlace(f.node, f.addr)
    PROVE  f \notin lost
  <1> PICK k \in Node : k = f.node
    BY FramePositions
  <1> PICK a \in Starts : a = f.addr
    OBVIOUS
  <1>1. PICK t, w, i, v \in Nat, r, c, g, l \in {0, 1} :
            /\ t = Cardinality(Marked(vertexTrans, Anywhere(a)))
            /\ w = Cardinality(Marked(wire, OnWire(k, a)))
            /\ i = Cardinality(Marked(net_in, InNet(k, a)))
            /\ v = Cardinality(Marked(vertexUpdate, AtNode(k, a)))
            /\ r = One(a \in Unread) /\ c = One(Current(k, a))
            /\ g = One(a \in Got(k)) /\ l = One(Lost(k, a))
            /\ r + t + w + i + v + c + g + l <= 1
    BY PlacesOld, SMTT(60)
  <1>2. <<u, f>> \in OnWire(k, a)
    <2>1. /\ Hops(k, u) \in 1 .. PROCESSOR_NUM /\ Hops(k, k) = PROCESSOR_NUM
          /\ u # k => Hops(k, u) < PROCESSOR_NUM
      BY RingHops
    <2> QED BY <2>1 DEF OnWire
  <1>3. wire \in [Node -> Seq(PacketFrame)] /\ IsFiniteSet(Marked(wire, OnWire(k, a)))
    BY DEF Typed, OnePlace
  <1>4. /\ IsFiniteSet(Marked(Pop(wire, u), OnWire(k, a)))
        /\ Cardinality(Marked(Pop(wire, u), OnWire(k, a))) + 1 = w
    BY <1>1, <1>2, <1>3, MarkedPop
  <1>5. w >= 1
    BY <1>4, FS_CardinalityType
  <1>6. l = 0
    <2>1. r + t + w + i + v + c + g + l <= 1
      BY <1>1
    <2> QED BY ONLY <1>5, <2>1, t \in Nat, w \in Nat, i \in Nat, v \in Nat, r \in {0, 1},
               c \in {0, 1}, g \in {0, 1}, l \in {0, 1}
  <1>7. ~Lost(k, a)
    BY <1>1, <1>6 DEF One
  <1> QED BY <1>7 DEF Lost

LEMMA DropFacts ==
    ASSUME IInv, NEW n \in Node, Drop(n), NEW u \in Node, u = upper_worker_idx(n),
           NEW f, f = wire[u][1]
    PROVE  /\ f \in PacketFrame /\ f.head /\ f.addr \in Starts /\ wire[u] # <<>>
           /\ f = Head(wire[u]) /\ lost' = lost \cup {f}
           /\ \E j \in 1 .. Len(wire[u]) :
                  wire' = Cut(wire, u, j) /\ \A i \in 2 .. j : ~wire[u][i].head
           /\ UNCHANGED <<rdProp, vertexTrans, currentState, current_node_id, write_read_num,
                          net_in, vertexUpdate, wrProp, vertexProp>>
  <1>1. Typed /\ Framing
    BY DEF IInv
  <1>2. /\ wire[u] # <<>> /\ lost' = lost \cup {Head(wire[u])} /\ Head(wire[u]).head
        /\ UNCHANGED <<rdProp, vertexTrans, currentState, current_node_id, write_read_num,
                       net_in, vertexUpdate, wrProp, vertexProp>>
    BY DEF Drop, readVars, transVars, writeVars
  <1>3. f = Head(wire[u]) /\ f \in PacketFrame
    <2>1. wire[u] \in Seq(PacketFrame)
      BY <1>1 DEF Typed
    <2> QED BY <1>2, <2>1
  <1>4. f.addr \in Starts
    BY <1>2, <1>3, FramePositions DEF PacketFrame, Starts
  <1>5. \E j \in 1 .. Len(wire[u]) :
            wire' = Cut(wire, u, j) /\ \A i \in 2 .. j : ~wire[u][i].head
    BY <1>1, DropFraming DEF Cut
  <1> QED BY <1>2, <1>3, <1>4, <1>5

LEMMA BalancedDrop ==
    ASSUME IInv, NEW n \in Node, Drop(n), \A k \in Node : \A a \in Starts : OnePlace(k, a),
           NEW m \in Node, Balanced(m)
    PROVE  Balanced(m)'
  <1> PICK u \in Node : u = upper_worker_idx(n)
    BY Neighbours
  <1> PICK f : f = wire[u][1]
    OBVIOUS
  <1>1. /\ f \in PacketFrame /\ f.head /\ f.addr \in Starts /\ wire[u] # <<>>
        /\ f = Head(wire[u]) /\ lost' = lost \cup {f}
        /\ \E j \in 1 .. Len(wire[u]) :
               wire' = Cut(wire, u, j) /\ \A i \in 2 .. j : ~wire[u][i].head
        /\ UNCHANGED <<current_node_id, write_read_num, net_in>>
    BY DropFacts
  <1>2. Typed /\ wire \in [Node -> Seq(PacketFrame)]
    BY DEF IInv, Typed
  <1>3. f \notin lost /\ f.node \in Node
    BY <1>1, <1>2, LostOnce, FramePositions
  <1>4. /\ IsFiniteSet(HeadersIn(wire, m)) /\ IsFiniteSet(HeadersIn(net_in, m))
        /\ \E w, i, l \in Nat :
               /\ w = Cardinality(HeadersIn(wire, m))
               /\ i = Cardinality(HeadersIn(net_in, m))
               /\ l = Cardinality({g \in lost : g.node = m})
               /\ write_read_num[m] = w + i + l
    BY BalanceOld
  <1>5. PICK w, i, l \in Nat :
            /\ w = Cardinality(HeadersIn(wire, m))
            /\ i = Cardinality(HeadersIn(net_in, m))
            /\ l = Cardinality({g \in lost : g.node = m})
            /\ write_read_num[m] = w + i + l
    BY <1>4
  <1>6. PICK j \in 1 .. Len(wire[u]) :
            wire' = Cut(wire, u, j) /\ \A h \in 2 .. j : ~wire[u][h].head
    BY <1>1
  <1>7. /\ IsFiniteSet(HeadersIn(Cut(wire, u, j), m))
        /\ f.node = m => Cardinality(HeadersIn(Cut(wire, u, j), m)) + 1 = w
        /\ f.node # m => Cardinality(HeadersIn(Cut(wire, u, j), m)) = w
    <2>1. wire \in [Node -> Seq(PacketFrame)] /\ IsFiniteSet(HeadersIn(wire, m))
          /\ \A h \in 2 .. j : ~wire[u][h].head
      BY <1>2, <1>4, <1>6
    <2>2. /\ IsFiniteSet(HeadersIn(Cut(wire, u, j), m))
          /\ wire[u][1].head /\ wire[u][1].node = m =>
                 Cardinality(HeadersIn(Cut(wire, u, j), m)) + 1 = Cardinality(HeadersIn(wire, m))
          /\ ~(wire[u][1].head /\ wire[u][1].node = m) =>
                 Cardinality(HeadersIn(Cut(wire, u, j), m)) = Cardinality(HeadersIn(wire, m))
      BY ONLY <2>1, HeadersCut, u \in Node, m \in Node, j \in 1 .. Len(wire[u])
    <2> QED BY <1>1, <1>5, <2>2
  <1>8. PICK x \in Nat : x = Cardinality(HeadersIn(wire', m))
    BY <1>6, <1>7, FS_CardinalityType
  <1>9. IsFiniteSet({g \in lost : g.node = m})
        /\ (current_node_id[m] = -1 => write_read_num[m] = 0)
    BY DEF Balanced
  <1>10. i = Cardinality(HeadersIn(net_in', m))
    BY <1>1, <1>5
  <1>11. CASE f.node = m
    <2>1. /\ {g \in lost' : g.node = m} = {g \in lost : g.node = m} \cup {f}
          /\ f \notin {g \in lost : g.node = m}
      BY <1>1, <1>3, <1>11
    <2>2. /\ IsFiniteSet({g \in lost' : g.node = m})
          /\ Cardinality({g \in lost' : g.node = m}) = l + 1
      <3> PICK S : S = {g \in lost : g.node = m}
        OBVIOUS
      <3>1. IsFiniteSet(S \cup {f}) /\ Cardinality(S \cup {f}) = l + 1
        BY <1>5, <1>9, <2>1, FS_AddElement
      <3> QED BY <2>1, <3>1
    <2>3. write_read_num'[m] = x + i + (l + 1)
      BY <1>1, <1>5, <1>6, <1>7, <1>8, <1>11
    <2> QED BY <1>1, <1>8, <1>9, <1>10, <2>2, <2>3, BalanceNew
  <1>12. CASE f.node # m
    <2>1. {g \in lost' : g.node = m} = {g \in lost : g.node = m}
      BY <1>1, <1>12
    <2>2. write_read_num'[m] = x + i + l
      BY <1>1, <1>5, <1>6, <1>7, <1>8, <1>12
    <2>3. /\ IsFiniteSet({g \in lost' : g.node = m})
          /\ l = Cardinality({g \in lost' : g.node = m})
      BY <1>5, <1>9, <2>1
    <2>4. current_node_id'[m] = -1 => write_read_num'[m] = 0
      BY <1>1, <1>9
    <2> QED BY ONLY <1>8, <1>10, <2>2, <2>3, <2>4, BalanceNew, m \in Node
  <1> QED BY <1>11, <1>12

-----------------------------------------------------------------------------
(* The invariant of the delivery. *)

LEMMA OrderKept ==
    ASSUME NEW m \in Node, InOrder(m), Counted(m),
           wrProp'[m] = wrProp[m], vertexProp'[m] = vertexProp[m]
    PROVE  InOrder(m)' /\ Counted(m)'
  <1>1. Got(m)' = Got(m) /\ \A a : Current(m, a)' <=> Current(m, a)
    BY DEF Got, Current
  <1> QED BY <1>1 DEF InOrder, Counted

LEMMA OrderStep ==
    ASSUME IInv, NEW n \in Node, WriteProp(n), \A a \in Starts : OnePlace(n, a),
           InOrder(n), Counted(n)
    PROVE  InOrder(n)' /\ Counted(n)'
  <1>1. Typed /\ Framing /\ Writing(n)
    BY DEF IInv
  <1> PICK f : f = Head(vertexUpdate[n])
    OBVIOUS
  <1>2. CASE WritePropFirst(n)
    <2>1. /\ f \in PacketFrame /\ vertexUpdate[n] # <<>>
          /\ wrProp[n].state = "firstFrame" /\ f.head /\ f.addr \in Starts
      BY <1>1, <1>2, WriteFrame DEF WritePropFirst
    <2>2. /\ wrProp'[n].state = "remainFrame" /\ wrProp'[n].address = f.addr
          /\ wrProp'[n].offset = 0
          /\ wrProp'[n].process_packet_num = wrProp[n].process_packet_num
          /\ vertexProp' = vertexProp
      BY <1>1, <1>2 DEF WritePropFirst, Typed
    <2>3. f.addr \notin Got(n)
      BY <1>1, <2>1, NotGotYet
    <2>4. /\ Got(n)' = Got(n)
          /\ \A a : ~Current(n, a)
          /\ \A a : Current(n, a)' <=> a = f.addr
      BY <2>1, <2>2 DEF Got, Current
    <2>5. ASSUME NEW b \in Block
          PROVE  /\ PacketStart(b) \notin Got(n)' /\ ~Current(n, PacketStart(b))' =>
                        vertexProp'[n][b] = NoBlock
                 /\ Current(n, PacketStart(b))' =>
                        vertexProp'[n][b] = IF b < wrProp'[n].address + wrProp'[n].offset
                                            THEN b ELSE NoBlock
      <3>1. PacketStart(b) \in Nat /\ PacketStart(b) <= b /\ b \in Nat
        BY Packets, BlockType
      <3>2. PacketStart(b) \notin Got(n) => vertexProp[n][b] = NoBlock
        BY <2>4 DEF InOrder
      <3>3. PacketStart(b) = f.addr =>
                /\ vertexProp[n][b] = NoBlock
                /\ ~(b < wrProp'[n].address + wrProp'[n].offset)
        BY <2>2, <2>3, <3>1, <3>2
      <3> QED BY <2>2, <2>4, <3>2, <3>3
    <2>6. InOrder(n)'
      BY <2>5 DEF InOrder
    <2> QED BY <2>2, <2>4, <2>6 DEF Counted
  <1>3. CASE WritePropRemain(n)
    <2> PICK s : s = wrProp[n].address
      OBVIOUS
    <2>1. /\ s \notin Got(n) /\ InOrder(n)'
          /\ f.last => /\ Got(n)' = Got(n) \cup {s}
                       /\ wrProp'[n].process_packet_num = wrProp[n].process_packet_num + 1
          /\ ~f.last => /\ Got(n)' = Got(n)
                        /\ wrProp'[n].process_packet_num = wrProp[n].process_packet_num
      BY <1>1, <1>3, StoreFrame
    <2>2. IsFiniteSet(Got(n)) /\ Cardinality(Got(n)) = wrProp[n].process_packet_num
      BY DEF Counted
    <2>3. IsFiniteSet(Got(n) \cup {s}) /\ Cardinality(Got(n) \cup {s}) = Cardinality(Got(n)) + 1
      BY <2>1, <2>2, FS_AddElement
    <2>4. IsFiniteSet(Got(n)') /\ Cardinality(Got(n)') = wrProp'[n].process_packet_num
      <3>1. CASE f.last
        BY <2>1, <2>2, <2>3, <3>1
      <3>2. CASE ~f.last
        BY <2>1, <2>2, <3>2
      <3> QED BY <3>1, <3>2
    <2> QED BY <2>1, <2>4 DEF Counted
  <1> QED BY <1>2, <1>3 DEF WriteProp

LEMMA DeliveryInit == Init => DeliveryInv
  <1> SUFFICES ASSUME Init
               PROVE  DeliveryInv
    OBVIOUS
  <1>1. CreditInv
    BY CreditInit
  <1>2. ASSUME NEW S
        PROVE  /\ Marked(vertexTrans, S) = {} /\ Marked(wire, S) = {}
               /\ Marked(net_in, S) = {} /\ Marked(vertexUpdate, S) = {}
    BY DEF Init, Marked
  <1>3. IsFiniteSet({}) /\ Cardinality({}) = 0
    BY FS_EmptySet
  <1>4. ASSUME NEW n \in Node
        PROVE  Got(n) = {} /\ \A a : ~Current(n, a) /\ ~Lost(n, a)
    <2>1. \A a \in Block : vertexProp[n][a] # a
      BY BlockType DEF Init, NoBlock
    <2>2. \A a \in Starts : a \in Block /\ PacketStart(a) = a
      BY Packets DEF Starts
    <2> QED BY <2>1, <2>2 DEF Init, Got, Current, Lost
  <1>5. ASSUME NEW n \in Node, NEW a \in Starts
        PROVE  OnePlace(n, a)
    <2>1. One(a \in Unread) \in {0, 1}
      BY DEF One
    <2>2. One(Current(n, a)) = 0 /\ One(a \in Got(n)) = 0 /\ One(Lost(n, a)) = 0
      BY <1>4 DEF One
    <2> QED BY <1>2, <1>3, <2>1, <2>2, SMTT(60) DEF OnePlace, Places
  <1>6. ASSUME NEW n \in Node
        PROVE  InOrder(n) /\ Counted(n) /\ Balanced(n)
    <2>1. InOrder(n)
      BY <1>4 DEF InOrder, Init
    <2>2. Counted(n)
      BY <1>3, <1>4 DEF Counted, Init
    <2>3. HeadersIn(wire, n) = {} /\ HeadersIn(net_in, n) = {} /\ {g \in lost : g.node = n} = {}
          /\ write_read_num[n] = 0
      BY <1>2 DEF HeadersIn, Init
    <2>4. Balanced(n)
      BY <1>3, <2>3 DEF Balanced
    <2> QED BY <2>1, <2>2, <2>4
  <1>7. lost \subseteq {f \in PacketFrame : f.head}
    BY DEF Init
  <1> QED BY <1>1, <1>5, <1>6, <1>7 DEF DeliveryInv

LEMMA PlacesNext ==
    ASSUME DeliveryInv, [Next]_vars, NEW k \in Node, NEW a \in Starts
    PROVE  OnePlace(k, a)'
  <1>1. IInv /\ Typed /\ Framing /\ OnePlace(k, a)
    BY DEF DeliveryInv, CreditInv, IInv
  <1>2. ASSUME NEW n \in Node, GlobalTrans(n)
        PROVE  OnePlace(k, a)'
    <2>1. Balanced(n)
      BY DEF DeliveryInv
    <2>2. PICK f \in PacketFrame : MovesOwn(n, f) \/ MovesHome(n, f) \/ MovesOn(n, f)
      BY <1>1, <1>2, <2>1, TransMoves
    <2>3. CASE MovesOwn(n, f)
      BY <1>1, <2>3, OwnPlaces DEF MovesOwn
    <2>4. CASE MovesHome(n, f) \/ MovesOn(n, f)
      BY <1>1, <2>4, TakePlaces DEF MovesHome, MovesOn
    <2> QED BY <2>2, <2>3, <2>4
  <1>3. ASSUME NEW n \in Node, Arrive(n)
        PROVE  OnePlace(k, a)'
    <2> PICK u \in Node : u = upper_worker_idx(n)
      BY Neighbours
    <2>1. /\ wire[u] # <<>> /\ wire' = Pop(wire, u) /\ net_in' = Push(net_in, n, Head(wire[u]))
          /\ UNCHANGED <<rdProp, vertexTrans, lost, vertexUpdate, wrProp, vertexProp>>
      BY <1>3 DEF Arrive, readVars, writeVars
    <2>2. Head(wire[u]) \in PacketFrame
      <3>1. wire[u] \in Seq(PacketFrame)
        BY <1>1 DEF Typed
      <3> QED BY <2>1, <3>1
    <2> QED BY <1>1, <2>1, <2>2, ArrivePlaces
  <1>4. ASSUME NEW n \in Node, Drop(n)
        PROVE  OnePlace(k, a)'
    <2> PICK u \in Node : u = upper_worker_idx(n)
      BY Neighbours
    <2> PICK f : f = wire[u][1]
      OBVIOUS
    <2>1. /\ f \in PacketFrame /\ f.head /\ lost' = lost \cup {f}
          /\ \E j \in 1 .. Len(wire[u]) :
                 wire' = Cut(wire, u, j) /\ \A i \in 2 .. j : ~wire[u][i].head
          /\ UNCHANGED <<rdProp, vertexTrans, net_in, vertexUpdate, wrProp, vertexProp>>
      BY <1>1, <1>4, DropFacts
    <2> QED BY <1>1, <2>1, DropPlaces
  <1>5. ASSUME NEW n \in Node, ReadProp(n)
        PROVE  OnePlace(k, a)'
    BY <1>1, <1>5, ReadPlaces DEF IInv
  <1>6. ASSUME NEW n \in Node, WriteProp(n)
        PROVE  OnePlace(k, a)'
    <2>1. Writing(n) /\ InOrder(n)
      BY <1>1 DEF IInv, DeliveryInv
    <2> QED BY <1>1, <1>6, <2>1, WritePlaces
  <1>7. CASE Terminated \/ UNCHANGED vars
    <2>1. UNCHANGED vars
      BY <1>7 DEF Terminated
    <2>2. /\ vertexTrans' = vertexTrans /\ wire' = wire /\ net_in' = net_in
          /\ vertexUpdate' = vertexUpdate /\ Unread' = Unread
          /\ Got(k)' = Got(k) /\ (Current(k, a)' <=> Current(k, a)) /\ (Lost(k, a)' <=> Lost(k, a))
      BY <2>1 DEF vars, Unread, Got, Current, Lost
    <2>3. Places(k, a)' = Places(k, a)
      BY <2>2 DEF Places, One, Marked, Anywhere, OnWire, InNet, AtNode
    <2> QED BY <1>1, <2>2, <2>3 DEF OnePlace, Marked, Anywhere, OnWire, InNet, AtNode
  <1> QED BY <1>2, <1>3, <1>4, <1>5, <1>6, <1>7 DEF Next

LEMMA DeliveryNext == DeliveryInv /\ [Next]_vars => DeliveryInv'
  <1> SUFFICES ASSUME DeliveryInv, [Next]_vars
               PROVE  DeliveryInv'
    OBVIOUS
  <1>1. CreditInv'
    BY CreditNext DEF DeliveryInv
  <1>2. ASSUME NEW k \in Node, NEW a \in Starts
        PROVE  OnePlace(k, a)'
    BY PlacesNext
  <1>3. IInv /\ Typed
    BY DEF DeliveryInv, CreditInv, IInv
  <1>4. ASSUME NEW m \in Node
        PROVE  InOrder(m)' /\ Counted(m)' /\ Balanced(m)'
    <2>1. InOrder(m) /\ Counted(m) /\ Balanced(m)
      BY DEF DeliveryInv
    <2>2. ASSUME UNCHANGED <<wrProp, vertexProp>>
          PROVE  InOrder(m)' /\ Counted(m)'
      BY <2>1, <2>2, OrderKept
    <2>3. ASSUME UNCHANGED <<wire, net_in, lost, write_read_num, current_node_id>>
          PROVE  Balanced(m)'
      BY <2>1, <2>3 DEF Balanced, HeadersIn, Marked
    <2>4. ASSUME NEW n \in Node, GlobalTrans(n)
          PROVE  InOrder(m)' /\ Counted(m)' /\ Balanced(m)'
      <3>1. Balanced(n)
        BY DEF DeliveryInv
      <3>2. PICK f \in PacketFrame : MovesOwn(n, f) \/ MovesHome(n, f) \/ MovesOn(n, f)
        BY <1>3, <2>4, <3>1, TransMoves
      <3>3. UNCHANGED <<wrProp, vertexProp>>
        BY <3>2 DEF MovesOwn, MovesHome, MovesOn
      <3> QED BY <1>3, <2>1, <2>2, <3>2, <3>3, BalancedTrans
    <2>5. ASSUME NEW n \in Node, Arrive(n)
          PROVE  InOrder(m)' /\ Counted(m)' /\ Balanced(m)'
      <3>1. UNCHANGED <<wrProp, vertexProp>>
        BY <2>5 DEF Arrive, writeVars
      <3> QED BY <1>3, <2>1, <2>2, <2>5, <3>1, BalancedArrive
    <2>6. ASSUME NEW n \in Node, Drop(n)
          PROVE  InOrder(m)' /\ Counted(m)' /\ Balanced(m)'
      <3>1. UNCHANGED <<wrProp, vertexProp>>
        BY <2>6 DEF Drop, writeVars
      <3>2. \A k \in Node : \A a \in Starts : OnePlace(k, a)
        BY DEF DeliveryInv
      <3> QED BY <1>3, <2>1, <2>2, <2>6, <3>1, <3>2, BalancedDrop
    <2>7. ASSUME NEW n \in Node, ReadProp(n)
          PROVE  InOrder(m)' /\ Counted(m)' /\ Balanced(m)'
      BY <2>2, <2>3, <2>7 DEF ReadProp, transVars, netVars, writeVars
    <2>8. ASSUME NEW n \in Node, WriteProp(n)
          PROVE  InOrder(m)' /\ Counted(m)' /\ Balanced(m)'
      <3>1. Balanced(m)'
        BY <2>3, <2>8 DEF WriteProp, WritePropFirst, WritePropRemain, WritePropRuns,
                          transVars, netVars
      <3>2. CASE m = n
        <4>1. \A a \in Starts : OnePlace(n, a)
          BY DEF DeliveryInv
        <4> QED BY <1>3, <2>1, <2>8, <3>1, <3>2, <4>1, OrderStep
      <3>3. CASE m # n
        <4>1. wrProp'[m] = wrProp[m] /\ vertexProp'[m] = vertexProp[m]
          BY <1>3, <2>8, <3>3, WriteOthers
        <4> QED BY <2>1, <3>1, <4>1, OrderKept
      <3> QED BY <3>2, <3>3
    <2>9. CASE Terminated \/ UNCHANGED vars
      BY <2>2, <2>3, <2>9 DEF Terminated, vars
    <2> QED BY <2>4, <2>5, <2>6, <2>7, <2>8, <2>9 DEF Next
  <1>5. lost' \subseteq {f \in PacketFrame : f.head}
    <2>1. lost \subseteq {f \in PacketFrame : f.head}
      BY DEF DeliveryInv
    <2>2. ASSUME NEW n \in Node, Drop(n)
          PROVE  lost' \subseteq {f \in PacketFrame : f.head}
      <3> PICK u \in Node : u = upper_worker_idx(n)
        BY Neighbours
      <3> PICK f : f = wire[u][1]
        OBVIOUS
      <3>1. f \in PacketFrame /\ f.head /\ lost' = lost \cup {f}
        BY <1>3, <2>2, DropFacts
      <3> QED BY <2>1, <3>1
    <2>3. CASE ~\E n \in Node : Drop(n)
      <3>1. UNCHANGED lost
        BY <2>3 DEF Next, Terminated, vars, ReadProp, GlobalTrans, FirstFrameSame, FirstFrameOther,
               FirstFrameOwn, RemainFrameSame, RemainFrameOther, OnlySend, Arrive, WriteProp,
               WritePropFirst, WritePropRemain, WritePropRuns, netVars
      <3> QED BY <2>1, <3>1
    <2> QED BY <2>2, <2>3
  <1> QED BY <1>1, <1>2, <1>4, <1>5 DEF DeliveryInv

\* From readProp to the array of every node, a packet is in one place only.
THEOREM OnePlaceOnly == Spec => []DeliveryInv
  BY DeliveryInit, DeliveryNext, PTL DEF Spec
=============================================================================
