-------------------------- MODULE CreditRingProofs --------------------------
(***************************************************************************)
(* The credit counter keeps its promise for every number of FPGAs, every   *)
(* FIFO_len, every size of the net_in FIFOs and every set of packets.      *)
(***************************************************************************)
EXTENDS CreditRing, FunctionTheorems, FiniteSetTheorems, TLAPS

USE RingAssumption, CreditAssumption

\* The lower worker of an FPGA on the ring is an FPGA on the ring
\* (acceleratorInit wraps the last rank round to rank 0).
LEMMA LowerWorkerType ==
    ASSUME NEW n \in Node
    PROVE  lower_worker_idx(n) \in Node
  BY DEF Node, lower_worker_idx

\* A node has finitely many packets in the ring, so that they can be counted.
LEMMA InRingFinite ==
    ASSUME NEW n
    PROVE  /\ IsFiniteSet(InRing(n))
           /\ Cardinality(InRing(n)) \in Nat
  <1>1. InRing(n) \in SUBSET Packet
    BY DEF InRing
  <1>2. IsFiniteSet(InRing(n))
    BY <1>1, FS_Subset
  <1>. QED
    BY <1>2, FS_CardinalityType

-----------------------------------------------------------------------------
(* What a move of one packet preserves. *)

\* An FSM enters a packet in firstFrame alone, hence never two at once.
LEMMA OneBusyPreserved ==
    ASSUME TypeOK, OneBusyPacket,
           NEW p \in Packet, NEW s \in Stage, NEW m \in Node, Move(p, s, m),
           s \in Busy => InFirstFrame(m)
    PROVE  OneBusyPacket'
  BY DEF TypeOK, OneBusyPacket, Move, InFirstFrame, Busy

\* A move that neither enters nor leaves the ring, nor comes home, changes
\* no count of packets.
LEMMA MoveInsideRing ==
    ASSUME TypeOK,
           NEW p \in Packet, NEW s \in Stage, NEW m \in Node, Move(p, s, m),
           stage[p] \notin {"vertexTrans", "home"},
           s \notin {"vertexTrans", "home"},
           NEW n \in Node
    PROVE  /\ InRing(n)' = InRing(n)
           /\ Origin[p] # n \/ (stage[p] # "same" /\ s # "same")
                => (ComingHome(n)' <=> ComingHome(n))
  <1>1. InRing(n)' = InRing(n)
    BY DEF TypeOK, Move, InRing
  <1>2. ASSUME Origin[p] # n \/ (stage[p] # "same" /\ s # "same")
        PROVE  ComingHome(n)' <=> ComingHome(n)
    <2>1. \A q \in InRing(n) : (stage'[q] = "same") <=> (stage[q] = "same")
      BY <1>2 DEF TypeOK, Move, InRing
    <2>. QED
      BY <1>1, <2>1 DEF ComingHome
  <1>. QED
    BY <1>1, <1>2

\* A move changes nothing for the nodes that did not send the packet.
LEMMA MoveOfAnother ==
    ASSUME TypeOK,
           NEW p \in Packet, NEW s \in Stage, NEW m \in Node, Move(p, s, m),
           NEW n \in Node, Origin[p] # n
    PROVE  /\ InRing(n)' = InRing(n)
           /\ ComingHome(n)' <=> ComingHome(n)
  <1>1. InRing(n)' = InRing(n)
    BY DEF TypeOK, Move, InRing
  <1>2. \A q \in InRing(n) : (stage'[q] = "same") <=> (stage[q] = "same")
    BY DEF TypeOK, Move, InRing
  <1>. QED
    BY <1>1, <1>2 DEF ComingHome

\* In firstFrame no own packet is being taken off the ring.
LEMMA FirstFrameNotComingHome ==
    ASSUME TypeOK, EndsAtOrigin, NEW n \in Node, InFirstFrame(n)
    PROVE  ~ComingHome(n)
  BY DEF TypeOK, EndsAtOrigin, InFirstFrame, Busy, ComingHome, InRing

-----------------------------------------------------------------------------
(* The invariant, action by action. *)

\* Sending is allowed below FIFO_len and takes one credit.
LEMMA BeginSendStep ==
    ASSUME IInv, NEW p \in Packet, BeginSend(p)
    PROVE  IInv'
  <1> DEFINE o == Origin[p]
  <1>1. /\ o \in Node /\ InFirstFrame(o) /\ write_read_num[o] < FIFO_len
        /\ stage[p] = "vertexTrans" /\ Move(p, "onlySend", o)
        /\ write_read_num' = [write_read_num EXCEPT ![o] = @ + 1]
    BY DEF BeginSend
  <1>2. TypeOK /\ OneBusyPacket /\ EndsAtOrigin /\ CreditsCountPackets
    BY DEF IInv
  <1>3. TypeOK'
    BY <1>1, <1>2 DEF TypeOK, Move, Stage
  <1>4. OneBusyPacket'
    BY <1>1, <1>2, OneBusyPreserved DEF Stage
  <1>5. EndsAtOrigin'
    BY <1>1, <1>2 DEF TypeOK, EndsAtOrigin, Move
  <1>7. ASSUME NEW n \in Node
        PROVE  /\ Cardinality(InRing(n)') =
                      write_read_num'[n] + (IF ComingHome(n)' THEN 1 ELSE 0)
               /\ Cardinality(InRing(n)') <= FIFO_len
    <2>1. CASE n # o
      <3>1. InRing(n)' = InRing(n) /\ (ComingHome(n)' <=> ComingHome(n))
        BY <1>1, <1>2, <2>1, MoveOfAnother DEF Stage
      <3>2. write_read_num'[n] = write_read_num[n]
        BY <1>1, <1>2, <2>1 DEF TypeOK
      <3>. QED
        BY <1>2, <3>1, <3>2 DEF CreditsCountPackets
    <2>2. CASE n = o
      <3>1. InRing(o)' = InRing(o) \cup {p} /\ p \notin InRing(o)
        BY <1>1, <1>2 DEF TypeOK, Move, InRing
      <3>2. Cardinality(InRing(o)') = Cardinality(InRing(o)) + 1
        BY <3>1, InRingFinite, FS_AddElement
      <3>3. ~ComingHome(o)
        BY <1>1, <1>2, FirstFrameNotComingHome
      <3>4. \A q \in InRing(o)' : stage'[q] # "same"
        BY <1>1, <1>2, <3>1, <3>3 DEF TypeOK, Move, ComingHome, InRing
      <3>5. ~ComingHome(o)'
        BY <3>4 DEF ComingHome
      <3>6. write_read_num'[o] = write_read_num[o] + 1
        BY <1>1, <1>2 DEF TypeOK
      <3>7. /\ write_read_num[o] \in 0 .. FIFO_len
            /\ Cardinality(InRing(o)) = write_read_num[o]
        BY <1>1, <1>2, <3>3 DEF TypeOK, CreditsCountPackets
      <3>. QED
        BY <1>1, <2>2, <3>2, <3>5, <3>6, <3>7
    <2>. QED
      BY <2>1, <2>2
  <1>8. CreditsCountPackets'
    BY <1>7 DEF CreditsCountPackets
  <1>. QED
    BY <1>3, <1>4, <1>5, <1>8 DEF IInv

\* Forwarding leaves every counter and every count alone.
LEMMA BeginForwardStep ==
    ASSUME IInv, NEW p \in Packet, BeginForward(p)
    PROVE  IInv'
  <1>1. /\ at[p] \in Node /\ InFirstFrame(at[p]) /\ at[p] # Origin[p]
        /\ stage[p] = "net_in" /\ Move(p, "other", at[p])
        /\ write_read_num' = write_read_num
    BY DEF BeginForward, IInv, TypeOK
  <1>2. TypeOK /\ OneBusyPacket /\ EndsAtOrigin /\ CreditsCountPackets
    BY DEF IInv
  <1>3. TypeOK'
    BY <1>1, <1>2 DEF TypeOK, Move, Stage
  <1>4. OneBusyPacket'
    BY <1>1, <1>2, OneBusyPreserved DEF Stage
  <1>5. EndsAtOrigin'
    BY <1>1, <1>2 DEF TypeOK, EndsAtOrigin, Move
  <1>7. \A n \in Node : InRing(n)' = InRing(n) /\ (ComingHome(n)' <=> ComingHome(n))
    BY <1>1, <1>2, MoveInsideRing DEF Stage
  <1>8. CreditsCountPackets'
    BY <1>1, <1>2, <1>7 DEF CreditsCountPackets
  <1>. QED
    BY <1>3, <1>4, <1>5, <1>8 DEF IInv

\* The header of an own packet gives the credit back before the packet is off
\* the ring.
LEMMA BeginHomeStep ==
    ASSUME IInv, NEW p \in Packet, BeginHome(p)
    PROVE  IInv'
  <1> DEFINE o == Origin[p]
  <1>1. /\ o \in Node /\ InFirstFrame(o) /\ at[p] = o
        /\ stage[p] = "net_in" /\ Move(p, "same", o)
        /\ write_read_num' = [write_read_num EXCEPT ![o] = @ - 1]
    BY DEF BeginHome
  <1>2. TypeOK /\ OneBusyPacket /\ EndsAtOrigin /\ CreditsCountPackets
    BY DEF IInv
  <1>3. ~ComingHome(o)
    BY <1>1, <1>2, FirstFrameNotComingHome
  <1>4. p \in InRing(o)
    BY <1>1 DEF InRing
  <1>5. /\ write_read_num[o] \in 0 .. FIFO_len
        /\ Cardinality(InRing(o)) = write_read_num[o]
        /\ write_read_num[o] >= 1
    <2>1. /\ write_read_num[o] \in 0 .. FIFO_len
          /\ Cardinality(InRing(o)) = write_read_num[o]
      BY <1>1, <1>2, <1>3 DEF TypeOK, CreditsCountPackets
    <2>2. Cardinality(InRing(o)) # 0
      BY <1>4, InRingFinite, FS_EmptySet
    <2>. QED
      BY <2>1, <2>2
  <1>6. TypeOK'
    BY <1>1, <1>2, <1>5 DEF TypeOK, Move, Stage
  <1>7. OneBusyPacket'
    BY <1>1, <1>2, OneBusyPreserved DEF Stage
  <1>8. EndsAtOrigin'
    BY <1>1, <1>2 DEF TypeOK, EndsAtOrigin, Move
  <1>10. ASSUME NEW n \in Node
         PROVE  /\ Cardinality(InRing(n)') =
                       write_read_num'[n] + (IF ComingHome(n)' THEN 1 ELSE 0)
                /\ Cardinality(InRing(n)') <= FIFO_len
    <2>1. CASE n # o
      <3>1. InRing(n)' = InRing(n) /\ (ComingHome(n)' <=> ComingHome(n))
        BY <1>1, <1>2, <2>1, MoveOfAnother DEF Stage
      <3>2. write_read_num'[n] = write_read_num[n]
        BY <1>1, <1>2, <2>1 DEF TypeOK
      <3>. QED
        BY <1>2, <3>1, <3>2 DEF CreditsCountPackets
    <2>2. CASE n = o
      <3>1. InRing(o)' = InRing(o)
        BY <1>1, <1>2, MoveInsideRing DEF Stage
      <3>2. stage'[p] = "same"
        BY <1>1, <1>2 DEF TypeOK, Move
      <3>3. ComingHome(o)'
        BY <1>4, <3>1, <3>2 DEF ComingHome
      <3>4. write_read_num'[o] = write_read_num[o] - 1
        BY <1>1, <1>2 DEF TypeOK
      <3>. QED
        BY <1>5, <2>2, <3>1, <3>3, <3>4
    <2>. QED
      BY <2>1, <2>2
  <1>11. CreditsCountPackets'
    BY <1>10 DEF CreditsCountPackets
  <1>. QED
    BY <1>6, <1>7, <1>8, <1>11 DEF IInv

\* The last frame: the packet goes onto the link, or it is home and makes room
\* for the next one of its origin.
LEMMA EndPacketStep ==
    ASSUME IInv, NEW p \in Packet, EndPacket(p)
    PROVE  IInv'
  <1>1. TypeOK /\ OneBusyPacket /\ EndsAtOrigin /\ CreditsCountPackets
    BY DEF IInv
  <1>2. at[p] \in Node /\ write_read_num' = write_read_num
    BY <1>1 DEF EndPacket, TypeOK
  <1>3. CASE stage[p] \in {"onlySend", "other"} /\ Move(p, "wire", at[p])
    <2>1. TypeOK'
      BY <1>1, <1>2, <1>3 DEF TypeOK, Move, Stage
    <2>2. OneBusyPacket'
      BY <1>1, <1>2, <1>3, OneBusyPreserved DEF Stage, Busy
    <2>3. EndsAtOrigin'
      BY <1>1, <1>3 DEF TypeOK, EndsAtOrigin, Move
    <2>5. \A n \in Node : InRing(n)' = InRing(n) /\ (ComingHome(n)' <=> ComingHome(n))
      BY <1>1, <1>2, <1>3, MoveInsideRing DEF Stage
    <2>6. CreditsCountPackets'
      BY <1>1, <1>2, <2>5 DEF CreditsCountPackets
    <2>. QED
      BY <2>1, <2>2, <2>3, <2>6 DEF IInv
  <1>4. CASE stage[p] = "same" /\ Move(p, "home", at[p])
    <2> DEFINE o == Origin[p]
    <2>1. TypeOK'
      BY <1>1, <1>2, <1>4 DEF TypeOK, Move, Stage
    <2>2. OneBusyPacket'
      BY <1>1, <1>2, <1>4, OneBusyPreserved DEF Stage, Busy
    <2>3. EndsAtOrigin'
      BY <1>1, <1>4 DEF TypeOK, EndsAtOrigin, Move
    <2>5. ASSUME NEW n \in Node
          PROVE  /\ Cardinality(InRing(n)') =
                        write_read_num[n] + (IF ComingHome(n)' THEN 1 ELSE 0)
                 /\ Cardinality(InRing(n)') <= FIFO_len
      <3>1. CASE n # o
        <4>1. InRing(n)' = InRing(n) /\ (ComingHome(n)' <=> ComingHome(n))
          BY <1>1, <1>2, <1>4, <3>1, MoveOfAnother DEF Stage
        <4>. QED
          BY <1>1, <4>1 DEF CreditsCountPackets
      <3>2. CASE n = o
        <4>1. InRing(o)' = InRing(o) \ {p} /\ p \in InRing(o)
          BY <1>1, <1>4 DEF TypeOK, Move, InRing
        <4>2. Cardinality(InRing(o)') = Cardinality(InRing(o)) - 1
          BY <4>1, InRingFinite, FS_RemoveElement, ZenonT(40)
        <4>3. ComingHome(o)
          BY <1>4, <4>1 DEF ComingHome
        <4>4. \A q \in InRing(o) : stage[q] = "same" => q = p
          BY <1>1, <1>4 DEF OneBusyPacket, EndsAtOrigin, Busy, InRing
        <4>5. \A q \in InRing(o)' : stage'[q] # "same"
          BY <1>1, <1>4, <4>1, <4>4 DEF TypeOK, Move, InRing
        <4>6. ~ComingHome(o)'
          BY <4>5 DEF ComingHome
        <4>7. /\ write_read_num[o] \in 0 .. FIFO_len
              /\ Cardinality(InRing(o)) = write_read_num[o] + 1
              /\ Cardinality(InRing(o)) <= FIFO_len
          BY <1>1, <4>3 DEF TypeOK, CreditsCountPackets
        <4>. QED
          BY <3>2, <4>2, <4>6, <4>7
      <3>. QED
        BY <3>1, <3>2
    <2>6. CreditsCountPackets'
      BY <1>2, <2>5 DEF CreditsCountPackets
    <2>. QED
      BY <2>1, <2>2, <2>3, <2>6 DEF IInv
  <1>. QED
    BY <1>3, <1>4 DEF EndPacket

\* The network carries a packet to the next node.
LEMMA ArriveStep ==
    ASSUME IInv, NEW p \in Packet, Arrive(p)
    PROVE  IInv'
  <1> DEFINE m == lower_worker_idx(at[p])
  <1>1. TypeOK /\ OneBusyPacket /\ EndsAtOrigin /\ CreditsCountPackets
    BY DEF IInv
  <1>2. m \in Node
    BY <1>1, LowerWorkerType DEF TypeOK
  <1>3. stage[p] = "wire" /\ Move(p, "net_in", m) /\ write_read_num' = write_read_num
    BY DEF Arrive
  <1> HIDE DEF m
  <1>4. TypeOK'
    BY <1>1, <1>2, <1>3 DEF TypeOK, Move, Stage
  <1>5. OneBusyPacket'
    BY <1>1, <1>2, <1>3, OneBusyPreserved DEF Stage, Busy
  <1>6. EndsAtOrigin'
    BY <1>1, <1>3 DEF TypeOK, EndsAtOrigin, Move
  <1>8. \A n \in Node : InRing(n)' = InRing(n) /\ (ComingHome(n)' <=> ComingHome(n))
    BY <1>1, <1>2, <1>3, MoveInsideRing DEF Stage
  <1>9. CreditsCountPackets'
    BY <1>1, <1>3, <1>8 DEF CreditsCountPackets
  <1>. QED
    BY <1>4, <1>5, <1>6, <1>9 DEF IInv

-----------------------------------------------------------------------------
(* No FIFO overflows. *)

\* The packets of the whole ring are at most PROCESSOR_NUM * FIFO_len: each
\* node numbers its own packets from 1 to FIFO_len, and the pair of origin
\* and number is different for different packets.
LEMMA RingHoldsFewPackets ==
    ASSUME CreditsCountPackets
    PROVE  LET All == {p \in Packet : stage[p] \notin {"vertexTrans", "home"}}
           IN  /\ IsFiniteSet(All)
               /\ Cardinality(All) <= PROCESSOR_NUM * FIFO_len
  <1> DEFINE All == {p \in Packet : stage[p] \notin {"vertexTrans", "home"}}
             Slot == 1 .. FIFO_len
             numbering == [n \in Node |-> CHOOSE g : g \in Injection(InRing(n), Slot)]
             slot == [p \in All |-> <<Origin[p], numbering[Origin[p]][p]>>]
  <1>1. ASSUME NEW n \in Node
        PROVE  numbering[n] \in Injection(InRing(n), Slot)
    <2> DEFINE c == Cardinality(InRing(n))
    <2>1. c \in Nat /\ c <= FIFO_len /\ ExistsBijection(1 .. c, InRing(n))
      BY InRingFinite, FS_CardinalityType DEF CreditsCountPackets
    <2>2. ExistsBijection(InRing(n), 1 .. c)
      BY <2>1, Fun_ExistsBijSymmetric
    <2>3. PICK g : g \in Bijection(InRing(n), 1 .. c)
      BY <2>2, Zenon DEF ExistsBijection
    <2>4. /\ g \in [InRing(n) -> 1 .. c]
          /\ \A a, b \in InRing(n) : g[a] = g[b] => a = b
      BY <2>3, Zenon DEF Bijection, Injection, IsInjective
    <2>5. g \in [InRing(n) -> Slot]
      BY <2>1, <2>4
    <2>6. g \in Injection(InRing(n), Slot)
      BY <2>4, <2>5, Fun_IsInj, Zenon
    <2>. QED
      BY <2>6, Zenon
  <1>2. \A p \in All : Origin[p] \in Node /\ p \in InRing(Origin[p])
    BY DEF InRing
  <1>3. ASSUME NEW n \in Node
        PROVE  /\ numbering[n] \in [InRing(n) -> Slot]
               /\ \A a, b \in InRing(n) : numbering[n][a] = numbering[n][b] => a = b
    <2> HIDE DEF numbering
    <2>. QED
      BY <1>1, Zenon DEF Injection, IsInjective
  <1> HIDE DEF numbering
  <1>4. slot \in [All -> Node \X Slot]
    BY <1>2, <1>3
  <1>5. \A a, b \in All : slot[a] = slot[b] => a = b
    BY <1>2, <1>3
  <1>6. slot \in Injection(All, Node \X Slot)
    <2> HIDE DEF slot, All
    <2>. QED
      BY <1>4, <1>5, Fun_IsInj, Zenon
  <1>7. /\ IsFiniteSet(Node) /\ Cardinality(Node) = PROCESSOR_NUM
        /\ IsFiniteSet(Slot) /\ Cardinality(Slot) = FIFO_len
    <2>1. /\ IsFiniteSet(Node)
          /\ Cardinality(Node) = IF 0 > PROCESSOR_NUM - 1 THEN 0 ELSE PROCESSOR_NUM - 1 - 0 + 1
      BY FS_Interval DEF Node
    <2>2. IsFiniteSet(Slot) /\ Cardinality(Slot) = IF 1 > FIFO_len THEN 0 ELSE FIFO_len - 1 + 1
      BY FS_Interval
    <2>. QED
      BY <2>1, <2>2
  <1>8. /\ IsFiniteSet(Node \X Slot)
        /\ Cardinality(Node \X Slot) = PROCESSOR_NUM * FIFO_len
    BY <1>7, FS_Product
  <1>. QED
    <2> HIDE DEF slot, All, Slot
    <2>1. IsFiniteSet(All) /\ Cardinality(All) <= Cardinality(Node \X Slot)
      BY <1>6, <1>8, FS_Injection
    <2>. QED
      BY <1>8, <2>1 DEF All

\* A loss changes no counter: the credit of a lost packet never comes back.
LEMMA DropStep ==
    ASSUME IInv, NEW p \in Packet, Drop(p)
    PROVE  IInv'
  <1>1. TypeOK /\ OneBusyPacket /\ EndsAtOrigin /\ CreditsCountPackets
    BY DEF IInv
  <1>2. /\ stage[p] = "wire" /\ Move(p, "lost", Origin[p]) /\ Origin[p] \in Node
        /\ write_read_num' = write_read_num
    BY <1>1 DEF Drop, TypeOK
  <1>3. TypeOK'
    BY <1>1, <1>2 DEF TypeOK, Move, Stage
  <1>4. OneBusyPacket'
    BY <1>1, <1>2, OneBusyPreserved DEF Stage, Busy
  <1>5. EndsAtOrigin'
    BY <1>1, <1>2 DEF TypeOK, EndsAtOrigin, Move
  <1>6. \A n \in Node : InRing(n)' = InRing(n) /\ (ComingHome(n)' <=> ComingHome(n))
    BY <1>1, <1>2, MoveInsideRing DEF Stage
  <1>7. CreditsCountPackets'
    BY <1>1, <1>2, <1>6 DEF CreditsCountPackets
  <1>. QED
    BY <1>3, <1>4, <1>5, <1>7 DEF IInv

\* A packet is lost only in front of a FIFO that is full of other packets of
\* the ring, hence only where the FIFO is smaller than what the credits admit.
LEMMA DropNeedsSmallFIFO ==
    ASSUME IInv, NEW p \in Packet, Drop(p)
    PROVE  ~CapacityAssumption(lower_worker_idx(at[p]))
  <1> DEFINE m == lower_worker_idx(at[p])
             All == {q \in Packet : stage[q] \notin {"vertexTrans", "home"}}
  <1>1. TypeOK /\ CreditsCountPackets
    BY DEF IInv
  <1>2. stage[p] = "wire" /\ Cardinality(Occupants(m)) >= Room[m]
    BY DEF Drop
  <1>3. m \in Node
    BY <1>1, LowerWorkerType DEF TypeOK
  <1>4. IsFiniteSet(All) /\ Cardinality(All) <= PROCESSOR_NUM * FIFO_len
    BY <1>1, RingHoldsFewPackets
  <1>5. Occupants(m) \cup {p} \in SUBSET All /\ p \notin Occupants(m)
    BY <1>2 DEF Occupants
  <1>6. IsFiniteSet(Occupants(m))
    BY <1>4, <1>5, FS_Subset
  <1>7. /\ Cardinality(Occupants(m) \cup {p}) = Cardinality(Occupants(m)) + 1
        /\ Cardinality(Occupants(m) \cup {p}) <= Cardinality(All)
    BY <1>4, <1>5, <1>6, FS_AddElement, FS_Subset
  <1>8. Cardinality(All) \in Nat /\ Cardinality(Occupants(m)) \in Nat
    BY <1>4, <1>6, FS_CardinalityType
  <1> HIDE DEF All, m
  <1>9. Room[m] \in Nat
    BY <1>3
  <1>. QED
    BY <1>2, <1>4, <1>7, <1>8, <1>9 DEF CapacityAssumption, m

-----------------------------------------------------------------------------
\* The invariant holds in every reachable state.
THEOREM Invariance == Spec => []IInv
  <1>1. Init => IInv
    <2> SUFFICES ASSUME Init
                 PROVE  IInv
      OBVIOUS
    <2>1. TypeOK
      BY DEF Init, TypeOK, Stage
    <2>2. OneBusyPacket /\ EndsAtOrigin
      BY DEF Init, OneBusyPacket, EndsAtOrigin, Busy
    <2>3. \A n \in Node : InRing(n) = {} /\ ~ComingHome(n)
      BY DEF Init, InRing, ComingHome
    <2>4. CreditsCountPackets
      BY <2>3, FS_EmptySet DEF Init, CreditsCountPackets
    <2>. QED
      BY <2>1, <2>2, <2>4 DEF IInv
  <1>2. IInv /\ [Next]_vars => IInv'
    <2> SUFFICES ASSUME IInv, [Next]_vars
                 PROVE  IInv'
      OBVIOUS
    <2>1. CASE Next
      <3>1. PICK p \in Packet :
                \/ BeginSend(p)
                \/ BeginForward(p)
                \/ BeginHome(p)
                \/ EndPacket(p)
                \/ Arrive(p)
                \/ Drop(p)
        BY <2>1 DEF Next
      <3>. QED
        BY <3>1, BeginSendStep, BeginForwardStep, BeginHomeStep, EndPacketStep,
           ArriveStep, DropStep
    <2>2. CASE UNCHANGED vars
      BY <2>2 DEF vars, IInv, TypeOK, OneBusyPacket, EndsAtOrigin,
                  CreditsCountPackets, InRing, ComingHome
    <2>. QED
      BY <2>1, <2>2
  <1>. QED
    BY <1>1, <1>2, PTL DEF Spec

\* Every variable stays in its set; in particular the counter of globalTrans,
\* a plain int that the code never checks, is never negative.
THEOREM TypeCorrect == Spec => []TypeOK
  <1>1. IInv => TypeOK
    BY DEF IInv
  <1>. QED
    BY <1>1, Invariance, PTL

\* The counter of globalTrans counts the packets of its node in the ring, and
\* it keeps them below FIFO_len + 1.
THEOREM CreditsAreExact == Spec => []CreditsCountPackets
  <1>1. IInv => CreditsCountPackets
    BY DEF IInv
  <1>. QED
    BY <1>1, Invariance, PTL

\* With room for PROCESSOR_NUM * FIFO_len packets in its net_in FIFO an FPGA
\* never loses a packet, whatever the relative speed of the FPGAs and whatever
\* is lost elsewhere (the comment of globalTrans.cpp on write_read_num).
THEOREM CreditsPreventLoss == Spec => NoLoss
  <1>1. IInv /\ [Next]_vars => [LosesOnlyWithoutRoom]_vars
    <2> SUFFICES ASSUME IInv, Next
                 PROVE  LosesOnlyWithoutRoom
      OBVIOUS
    <2> SUFFICES ASSUME NEW q \in Packet, stage[q] # "lost", stage'[q] = "lost"
                 PROVE  ~CapacityAssumption(lower_worker_idx(at[q]))
      BY DEF LosesOnlyWithoutRoom
    <2>1. TypeOK
      BY DEF IInv
    <2>2. PICK p \in Packet :
              \/ BeginSend(p)
              \/ BeginForward(p)
              \/ BeginHome(p)
              \/ EndPacket(p)
              \/ Arrive(p)
              \/ Drop(p)
      BY DEF Next
    <2>3. CASE ~Drop(p)
      <3>1. PICK s \in Stage \ {"lost"}, m \in Node \cup {lower_worker_idx(at[p])} :
                Move(p, s, m)
        BY <2>1, <2>2, <2>3 DEF BeginSend, BeginForward, BeginHome, EndPacket,
                                Arrive, Stage, TypeOK
      <3>. QED
        BY <2>1, <3>1 DEF Move, TypeOK
    <2>4. CASE Drop(p)
      <3>1. q = p
        BY <2>1, <2>4 DEF Drop, Move, TypeOK
      <3>. QED
        BY <2>4, <3>1, DropNeedsSmallFIFO
    <2>. QED
      BY <2>3, <2>4
  <1>. QED
    BY <1>1, Invariance, PTL DEF Spec, NoLoss
=============================================================================
