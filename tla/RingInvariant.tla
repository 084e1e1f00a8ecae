---------------------------- MODULE RingInvariant ----------------------------
(***************************************************************************)
(* Why the frames of RingExchange find their way: the inductive invariant  *)
(* behind its safety properties.                                           *)
(*                                                                         *)
(* No frame says where it belongs, so all that writeProp and globalTrans   *)
(* know is where they are inside of a packet.  The invariant gives every   *)
(* end of every FIFO such a position: Boundary between two packets, or the *)
(* address of the data frame that must come next.  A FIFO carries its      *)
(* frames from one position to another, and the positions of neighbouring  *)
(* FIFOs agree.                                                            *)
(***************************************************************************)
EXTENDS RingExchange

Boundary == -1                          \* between two packets

Position == Block \cup {Boundary}

\* The position a frame belongs at, and the one behind it.
At(f) == IF f.head THEN Boundary ELSE f.addr

After(f) ==
    IF f.last THEN Boundary ELSE IF f.head THEN f.addr ELSE f.addr + 1

\* The FIFO q carries whole frames from position a to position b.
Flow(q, a, b) ==
    /\ q = <<>> => a = b
    /\ q # <<>> => At(q[1]) = a /\ After(q[Len(q)]) = b
    /\ \A i \in 1 .. Len(q) - 1 : After(q[i]) = At(q[i + 1])

\* The place of a block among the data frames of its packet.
Slot(a) == (a % BlockNum) % Payload

\* The first block of the packet that carries a block.
PacketStart(a) == a - Slot(a)

\* A packet begins at a multiple of Payload, its blocks follow each other, and
\* its last frame carries the last of them.
PacketFrame ==
    {f \in Frame :
        /\ f.head => Slot(f.addr) = 0 /\ ~f.last
        /\ ~f.head /\ ~f.last =>
               f.addr + 1 \in Block /\ Slot(f.addr + 1) = Slot(f.addr) + 1
        /\ f.last =>
               \A b \in Block : PacketStart(b) = PacketStart(f.addr) => b <= f.addr}

-----------------------------------------------------------------------------
(* readProp: k packets of the partition are complete. *)
Reading(n) ==
    LET rd == rdProp[n] IN
    \E k \in Nat :
        /\ rd.i = k * Payload + k + rd.frameId
        /\ rd.i < BlockNum + packets_of(BlockNum)
        /\ rd.address = k * Payload + (IF rd.frameId = 0 THEN 0 ELSE rd.frameId - 1)
        /\ rd.item > Len(Schedule[n]) => rd.i = 0

ReadPos(n) ==
    LET rd == rdProp[n] IN
    IF rd.frameId = 0
    THEN Boundary
    ELSE Schedule[n][rd.item] * BlockNum + rd.address

(* writeProp: inside of a packet it stands at address + offset. *)
WritePos(n) ==
    IF wrProp[n].state = "firstFrame"
    THEN Boundary
    ELSE wrProp[n].address + wrProp[n].offset

Writing(n) ==
    LET wr == wrProp[n] IN
    wr.state = "remainFrame" =>
        /\ Slot(wr.address) = 0
        /\ wr.address + wr.offset \in Block
        /\ Slot(wr.address + wr.offset) = wr.offset

(***************************************************************************)
(* own[n]: in front of vertexTrans of n.  mid[n]: between net_in and       *)
(* vertexUpdate of n.  gap[n]: between the link into n and its net_in.     *)
(* What globalTrans writes to its link continues what it is inside of.     *)
(***************************************************************************)
OutPos(n, own, mid) ==
    IF currentState[n] = "onlySend" THEN own[n]
    ELSE IF currentState[n] = "remainFrame_other" THEN mid[n]
    ELSE Boundary

FramedAt(n, own, mid, gap) ==
    /\ Flow(vertexTrans[n], own[n], ReadPos(n))
    /\ Flow(wire[n], gap[lower_worker_idx(n)], OutPos(n, own, mid))
    /\ Flow(net_in[n], mid[n], gap[n])
    /\ Flow(vertexUpdate[n], WritePos(n), mid[n])
    /\ own[n] # Boundary <=> currentState[n] = "onlySend"
    /\ mid[n] # Boundary
           <=> currentState[n] \in {"remainFrame_same", "remainFrame_other"}
    /\ gap[n] # Boundary =>
           Len(net_in[n]) + Payload - Slot(gap[n]) <= NetDepth

Framing ==
    \E own, mid, gap \in [Node -> Position] :
        \A n \in Node : FramedAt(n, own, mid, gap)

-----------------------------------------------------------------------------
(* The places in the FIFOs q that hold a frame of S; S has pairs of a node *)
(* and a frame in its FIFO.                                                *)
Marked(q, S) ==
    {l \in Node \X Nat :
        l[2] \in DOMAIN q[l[1]] /\ <<l[1], q[l[1]][l[2]]>> \in S}

(* The headers of node n on the links and in the net_in FIFOs. *)
HeadersIn(q, n) == Marked(q, Node \X {f \in PacketFrame : f.head /\ f.node = n})

\* Every packet in the ring has taken a credit that is not back yet.
Credited(n) ==
    /\ IsFiniteSet(HeadersIn(wire, n)) /\ IsFiniteSet(HeadersIn(net_in, n))
    /\ Cardinality(HeadersIn(wire, n)) + Cardinality(HeadersIn(net_in, n))
           <= write_read_num[n]
    /\ write_read_num[n] <= FIFO_len

Typed ==
    /\ rdProp \in [Node -> [item : Nat \ {0}, i : Nat, address : Nat,
                            frameId : 0 .. Payload]]
    /\ vertexTrans \in [Node -> Seq(PacketFrame)]
    /\ wire \in [Node -> Seq(PacketFrame)]
    /\ net_in \in [Node -> Seq(PacketFrame)]
    /\ vertexUpdate \in [Node -> Seq(PacketFrame)]
    /\ currentState \in [Node -> {"firstFrame", "remainFrame_same",
                                  "remainFrame_other", "onlySend"}]
    /\ current_node_id \in [Node -> Node \cup {-1}]
    /\ write_read_num \in [Node -> Int]
    /\ lost \subseteq Frame
    /\ wrProp \in [Node -> [state : {"firstFrame", "remainFrame"},
                            address : Block, offset : 0 .. Payload,
                            process_packet_num : 0 .. packet_num]]
    /\ vertexProp \in [Node -> [Block -> Block \cup {NoBlock}]]

Bounded(n) ==
    /\ rdProp[n].item <= Len(Schedule[n]) + 1
    /\ Len(vertexTrans[n]) <= TransDepth
    /\ Len(net_in[n]) <= NetDepth
    /\ Len(vertexUpdate[n]) <= UpdateDepth

\* readProp stamps its own node on every frame, and nothing else reaches
\* vertexTrans.
OwnFrames(n) ==
    /\ \A i \in 1 .. Len(vertexTrans[n]) : vertexTrans[n][i].node = n
    /\ current_node_id[n] \in {n, -1}

IInv ==
    /\ Typed
    /\ Framing
    /\ \A n \in Node :
           Bounded(n) /\ Reading(n) /\ Writing(n) /\ OwnFrames(n) /\ Credited(n)
    /\ BlocksAtTheirAddress
-----------------------------------------------------------------------------
(* Why the credits keep packets from being lost. *)

\* The header of the packet that globalTrans is sending or forwarding is still on
\* its link: a datagram leaves only when it is complete.
OpenPacket(n) ==
    currentState[n] \in {"onlySend", "remainFrame_other"} =>
        \E i \in 1 .. Len(wire[n]) :
            /\ wire[n][i].head
            /\ \A j \in i .. Len(wire[n]) : ~wire[n][j].last

\* The own packet that globalTrans takes off the ring has its credit back, and
\* no other packet has taken this credit.
HomeCredit(n) ==
    currentState[n] = "remainFrame_same" => write_read_num[n] < FIFO_len

CreditInv == IInv /\ \A n \in Node : OpenPacket(n) /\ HomeCredit(n)

\* The net_in FIFOs have room for every packet that the ring may hold.
EnoughRoom == PROCESSOR_NUM * FIFO_len * (Payload + 1) <= NetDepth

-----------------------------------------------------------------------------
(***************************************************************************)
(* Why a count is all that writeProp needs: on its way to node n a packet  *)
(* is in one place only, from readProp to the array of n.                  *)
(***************************************************************************)
Starts == {a \in Block : Slot(a) = 0}          \* packets, by their first block

\* readProp has yet to write the header.
Unread ==
    {a \in Starts :
        \E n \in Node : \E k \in DOMAIN Schedule[n] :
            /\ Schedule[n][k] = a \div BlockNum
            /\ \/ k > rdProp[n].item
               \/ /\ k = rdProp[n].item
                  /\ \/ a % BlockNum > rdProp[n].address
                     \/ a % BlockNum = rdProp[n].address /\ rdProp[n].frameId = 0}

\* The links that a frame of o crosses before it reaches n, its own at the end.
Hops(o, n) == IF n > o THEN n - o ELSE n - o + PROCESSOR_NUM

\* Headers of packet a that have yet to pass the globalTrans of n: on the link
\* of a node and in the net_in of a node.
OnWire(n, a) ==
    {x \in Node \X PacketFrame :
        /\ x[2].head /\ x[2].addr = a
        /\ x[1] = x[2].node \/ Hops(x[2].node, x[1]) < Hops(x[2].node, n)}

InNet(n, a) ==
    {x \in Node \X PacketFrame :
        /\ x[2].head /\ x[2].addr = a
        /\ Hops(x[2].node, x[1]) <= Hops(x[2].node, n)}

\* Headers of packet a in the FIFO of n, and in that of any node.
AtNode(n, a) == {n} \X {f \in PacketFrame : f.head /\ f.addr = a}

Anywhere(a) == Node \X {f \in PacketFrame : f.head /\ f.addr = a}

Current(n, a) == wrProp[n].state = "remainFrame" /\ wrProp[n].address = a

\* The packets whose blocks are all in the array of n.
Got(n) ==
    {a \in Starts :
        \A b \in Block : PacketStart(b) = a => vertexProp[n][b] = b}

Lost(n, a) == \E f \in lost : f.node = n /\ f.addr = a

One(b) == IF b THEN 1 ELSE 0

Places(n, a) ==
    One(a \in Unread)
    + Cardinality(Marked(vertexTrans, Anywhere(a)))
    + Cardinality(Marked(wire, OnWire(n, a)))
    + Cardinality(Marked(net_in, InNet(n, a)))
    + Cardinality(Marked(vertexUpdate, AtNode(n, a)))
    + One(Current(n, a)) + One(a \in Got(n)) + One(Lost(n, a))

OnePlace(n, a) ==
    /\ IsFiniteSet(Marked(vertexTrans, Anywhere(a)))
    /\ IsFiniteSet(Marked(wire, OnWire(n, a)))
    /\ IsFiniteSet(Marked(net_in, InNet(n, a)))
    /\ IsFiniteSet(Marked(vertexUpdate, AtNode(n, a)))
    /\ Places(n, a) <= 1

\* The blocks of a packet are stored in order, and those of a packet that is
\* neither stored nor being stored are not there.
InOrder(n) ==
    \A b \in Block :
        /\ PacketStart(b) \notin Got(n) /\ ~Current(n, PacketStart(b)) =>
               vertexProp[n][b] = NoBlock
        /\ Current(n, PacketStart(b)) =>
               vertexProp[n][b] = IF b < wrProp[n].address + wrProp[n].offset
                                  THEN b ELSE NoBlock

Counted(n) ==
    IsFiniteSet(Got(n)) /\ Cardinality(Got(n)) = wrProp[n].process_packet_num

\* Every credit that is out is with a packet in the ring or a lost one.
Balanced(n) ==
    /\ IsFiniteSet({f \in lost : f.node = n})
    /\ write_read_num[n] =
           Cardinality(HeadersIn(wire, n)) + Cardinality(HeadersIn(net_in, n))
           + Cardinality({f \in lost : f.node = n})
    /\ current_node_id[n] = -1 => write_read_num[n] = 0

DeliveryInv ==
    /\ CreditInv
    /\ lost \subseteq {f \in PacketFrame : f.head}
    /\ \A n \in Node : \A a \in Starts : OnePlace(n, a)
    /\ \A n \in Node : InOrder(n) /\ Counted(n) /\ Balanced(n)
-----------------------------------------------------------------------------
(***************************************************************************)
(* Why the packets of a sender stay in order, as long as none is lost: a   *)
(* packet that leaves a FIFO has all earlier ones of its sender ahead of   *)
(* it.  At the ends of the FIFOs this is said by the packets of sender o   *)
(* that have gone by there.                                                *)
(***************************************************************************)
\* The packets of the partitions of node o.
PacketsFrom(o) ==
    {a \in Starts : \E k \in DOMAIN Schedule[o] : Schedule[o][k] = a \div BlockNum}

\* The packets that the sender of packet a sends before it.
Before(a) ==
    {b \in Starts :
        \E o \in Node : \E j, k \in DOMAIN Schedule[o] :
            /\ Schedule[o][j] = b \div BlockNum /\ Schedule[o][k] = a \div BlockNum
            /\ j < k \/ (j = k /\ b < a)}

HeaderOf(f, o) == f.head /\ f.node = o

HeadersOf(q, o) == {q[i].addr : i \in {j \in 1 .. Len(q) : HeaderOf(q[j], o)}}

\* The packets of o in the FIFO q come in order, and none of them has gone by:
\* those are gone.
InTurn(q, o, gone) ==
    \A i \in 1 .. Len(q) :
        HeaderOf(q[i], o) =>
            LET ahead == gone \cup {q[j].addr : j \in {k \in 1 .. i - 1 : HeaderOf(q[k], o)}}
            IN  q[i].addr \notin ahead /\ Before(q[i].addr) \subseteq ahead

\* What of o went by readProp, into the ring, by writeProp, by globalTrans and
\* by the link of node n.
ReadOf(o) == PacketsFrom(o) \ Unread
SentOf(o) == ReadOf(o) \ HeadersOf(vertexTrans[o], o)
WrittenOf(o, n) == {a \in PacketsFrom(o) : Current(n, a) \/ a \in Got(n)}
TakenOf(o, n) == WrittenOf(o, n) \cup HeadersOf(vertexUpdate[n], o)
ComeOf(o, n) == TakenOf(o, n) \cup HeadersOf(net_in[n], o)

Ordered(o, n) ==
    /\ InTurn(vertexUpdate[n], o, WrittenOf(o, n))
    /\ InTurn(net_in[n], o, TakenOf(o, n))
    /\ InTurn(wire[n], o, ComeOf(o, lower_worker_idx(n)))
    /\ ComeOf(o, lower_worker_idx(n)) \cup HeadersOf(wire[n], o)
           = IF n = o THEN SentOf(o) ELSE TakenOf(o, n)
    /\ HeadersOf(vertexUpdate[n], o) \cup HeadersOf(net_in[n], o)
           \cup HeadersOf(wire[n], o) \subseteq PacketsFrom(o)

OwnOrdered(o) ==
    /\ InTurn(vertexTrans[o], o, SentOf(o))
    /\ HeadersOf(vertexTrans[o], o) \subseteq ReadOf(o)

\* All that was sent before the packet that writeProp is inside of is stored.
StoredBefore(n) ==
    \A a \in Starts : Current(n, a) => Before(a) \subseteq Got(n)

OrderInv ==
    /\ DeliveryInv
    /\ \A o \in Node : OwnOrdered(o) /\ StoredBefore(o)
    /\ \A o, n \in Node : Ordered(o, n)
-----------------------------------------------------------------------------
(***************************************************************************)
(* Why a packet is where its header says: all its frames carry the node    *)
(* that computes its partition, so its last frame is found behind its own  *)
(* header only, and globalTrans takes the packets of its own node off the  *)
(* ring and no others, whatever is lost.                                   *)
(***************************************************************************)
\* The partition of block a is in the schedule of node n.
Computes(n, a) == \E k \in DOMAIN Schedule[n] : Schedule[n][k] = a \div BlockNum

SenderFrame == {f \in PacketFrame : Computes(f.node, f.addr)}

\* The position between net_in and vertexUpdate of n, behind what went to writeProp.
TakePos(n) ==
    IF vertexUpdate[n] = <<>>
    THEN WritePos(n)
    ELSE After(vertexUpdate[n][Len(vertexUpdate[n])])

TakesOwn(n) ==
    /\ currentState[n] = "remainFrame_same" => Computes(n, TakePos(n))
    /\ currentState[n] = "remainFrame_other" => ~Computes(n, TakePos(n))

Stamped(n) ==
    {vertexTrans[n], wire[n], net_in[n], vertexUpdate[n]} \subseteq Seq(SenderFrame)

TravelInv ==
    /\ DeliveryInv
    /\ \A n \in Node : Stamped(n) /\ TakesOwn(n)
=============================================================================
