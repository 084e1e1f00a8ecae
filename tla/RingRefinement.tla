--------------------------- MODULE RingRefinement ---------------------------
(***************************************************************************)
(* The frames of RingExchange implement the packets of CreditRing and the  *)
(* promise of Broadcast.  A packet is identified by its header frame.      *)
(***************************************************************************)
EXTENDS RingExchange

Header(n, a) == [node |-> n, addr |-> a, head |-> TRUE, last |-> FALSE]

Packet ==
    UNION {{Header(n, Schedule[n][k] * BlockNum + j * Payload) :
                k \in DOMAIN Schedule[n], j \in 0 .. packets_of(BlockNum) - 1} :
           n \in Node}

Item(h) == CHOOSE k \in DOMAIN Schedule[h.node] :
               Schedule[h.node][k] = h.addr \div BlockNum

LastOffset(h) ==
    LET end == (h.addr % BlockNum) + Payload
    IN  (IF end < BlockNum THEN end ELSE BlockNum) - 1

Blocks(h) == h.addr .. (h.addr \div BlockNum) * BlockNum + LastOffset(h)

LastFrame(h) ==
    [node |-> h.node, addr |-> (h.addr \div BlockNum) * BlockNum + LastOffset(h),
     head |-> FALSE, last |-> TRUE]

Holds(fifo, f) == \E i \in DOMAIN fifo : fifo[i] = f

-----------------------------------------------------------------------------
(* Where a packet is. *)

\* readProp has written the header to vertexTrans.
Produced(h) ==
    LET rd == rdProp[h.node] IN
    \/ Item(h) < rd.item
    \/ /\ Item(h) = rd.item
       /\ \/ h.addr % BlockNum < rd.address
          \/ h.addr % BlockNum = rd.address /\ rd.frameId > 0

Sent(h) == Produced(h) /\ ~Holds(vertexTrans[h.node], h)

Carriers(h) ==
    {n \in Node : Holds(wire[n], h)} \cup {n \in Node : Holds(net_in[n], h)}

atBar ==
    [h \in Packet |->
        IF Carriers(h) = {} THEN h.node ELSE CHOOSE n \in Carriers(h) : TRUE]

stageBar ==
    [h \in Packet |->
        LET n == atBar[h]
            end == LastFrame(h)
        IN  CASE h \in lost -> "lost"
              [] ~Sent(h) -> "vertexTrans"
              [] Holds(net_in[n], h) -> "net_in"
              [] Holds(wire[n], h) /\ Holds(wire[n], end) -> "wire"
              [] Holds(wire[n], h) /\ ~Holds(wire[n], end) ->
                     IF n = h.node THEN "onlySend" ELSE "other"
              [] OTHER ->
                     IF \/ Holds(net_in[n], end)
                        \/ Holds(wire[upper_worker_idx(n)], end)
                     THEN "same"
                     ELSE "home"]

\* The credit rules of CreditRing, over the same counter.
Credits == INSTANCE CreditRing WITH
               Room <- [n \in Node |-> NetDepth \div (Payload + 1)],
               Origin <- [h \in Packet |-> h.node],
               stage <- stageBar,
               at <- atBar

(***************************************************************************)
(* Frame by frame the exchange does to packets what CreditRing allows: the *)
(* FSM enters and leaves packets as a whole, and only an own header gives  *)
(* a credit back.                                                          *)
(***************************************************************************)
ImplementsCreditRing == Credits!Spec

-----------------------------------------------------------------------------
gotBar ==
    [n \in Node |->
        {h \in Packet : \A a \in Blocks(h) : vertexProp[n][a] = a}]

Delivery == INSTANCE Broadcast WITH
                Earlier <- [h \in Packet |->
                               {g \in Packet :
                                   /\ g.node = h.node
                                   /\ \/ Item(g) < Item(h)
                                      \/ Item(g) = Item(h) /\ g.addr < h.addr}],
                published <- {h \in Packet : Sent(h)},
                got <- gotBar,
                count <- [n \in Node |-> wrProp[n].process_packet_num]

(***************************************************************************)
(* Every packet is stored exactly once by every FPGA, in the order of its  *)
(* sender, and process_packet_num, all that writeProp knows, counts the    *)
(* packets that are stored.                                                *)
(***************************************************************************)
ImplementsBroadcast == Delivery!Spec
=============================================================================
