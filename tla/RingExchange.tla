---------------------------- MODULE RingExchange ----------------------------
(***************************************************************************)
(* The exchange of one superstep, frame by frame: on every FPGA readProp   *)
(* cuts the partitions computed there into packets, globalTrans sends them *)
(* round the ring and forwards what the others send, and writeProp stores  *)
(* every packet in the property array that the next superstep reads.       *)
(*                                                                         *)
(*    readProp --vertexTrans--> globalTrans --net_out--> link to the lower *)
(*    link from the upper --net_in--> globalTrans --vertexUpdate-->        *)
(*    writeProp                                                            *)
(*                                                                         *)
(* A packet is one header frame, whose data hold the sender and the        *)
(* address of the first block, and up to Payload data frames of one block  *)
(* each.  No frame says that it is a header: globalTrans and writeProp tell *)
(* by the last flag of the frame before.  The field head is for the network, *)
(* which knows where a datagram begins, and for the properties.  In a data *)
(* frame, addr names the block that the frame carries.                     *)
(***************************************************************************)
EXTENDS Ring, Sequences, FiniteSets

CONSTANTS
    FIFO_len,       \* packets a node may have in the ring (32)
    Payload,        \* data frames of a full packet (21)
    BlockNum,       \* 512-bit blocks of a partition (PARTITION_SIZE / 16)
    total_p_num,    \* partitions of the graph
    Schedule,       \* scheduleItem of every node
    NetDepth,       \* frames net_in holds (2048)
    TransDepth,     \* frames vertexTrans holds
    UpdateDepth     \* frames vertexUpdate holds

Partition == 0 .. total_p_num - 1

ExchangeAssumption ==
    /\ {FIFO_len, Payload, BlockNum, total_p_num, TransDepth, UpdateDepth}
           \subseteq Nat \ {0}
    /\ NetDepth \in Nat
    /\ NetDepth > Payload
    /\ Schedule \in [Node -> Seq(Partition)]

(***************************************************************************)
(* The greedy part of schedule.py gives every partition to one node, once. *)
(***************************************************************************)
OneOwner ==
    /\ \A p \in Partition :
           \E n \in Node : \E k \in DOMAIN Schedule[n] : Schedule[n][k] = p
    /\ \A m, n \in Node :
           \A j \in DOMAIN Schedule[m], k \in DOMAIN Schedule[n] :
               Schedule[m][j] = Schedule[n][k] => m = n /\ j = k

ASSUME ConstantsAssumption == ExchangeAssumption /\ OneOwner

Block == 0 .. total_p_num * BlockNum - 1        \* addresses, in blocks

NoBlock == -1                                   \* nothing stored yet

\* Names that start with Bug are mutated forms of the definition that follows;
\* no specification uses them.

\* A last packet that is not full is forgotten.
BugRoundDown(blocks) == blocks \div Payload

\* The number of packets of a partition, in readProp and in the host.
packets_of(blocks) == (blocks + Payload - 1) \div Payload

packet_num == total_p_num * packets_of(BlockNum)

VARIABLES
    rdProp,             \* readProp of every node, with the host's loop around it
    vertexTrans,        \* FIFO from readProp to globalTrans
    currentState,       \* the FSM of globalTrans
    current_node_id,    \* the sender in the last own header, -1 before it
    write_read_num,     \* own packets sent less own packets back
    wire,               \* frames on the link from a node to its lower worker
    net_in,             \* FIFO from the network to globalTrans
    lost,               \* headers of the packets the network dropped
    vertexUpdate,       \* FIFO from globalTrans to writeProp
    wrProp,             \* writeProp of every node
    vertexProp          \* the block whose contents each address holds

vars == <<rdProp, vertexTrans, currentState, current_node_id, write_read_num,
          wire, net_in, lost, vertexUpdate, wrProp, vertexProp>>

readVars == <<rdProp>>
transVars == <<currentState, current_node_id, write_read_num>>
netVars == <<wire, net_in, lost>>
writeVars == <<wrProp, vertexProp>>

Frame == [node : Node, addr : Block, head : BOOLEAN, last : BOOLEAN]

Push(q, n, f) == [q EXCEPT ![n] = Append(@, f)]
Pop(q, n) == [q EXCEPT ![n] = Tail(@)]

-----------------------------------------------------------------------------
Init ==
    /\ rdProp = [n \in Node |->
                    [item |-> 1, i |-> 0, address |-> 0, frameId |-> 0]]
    /\ vertexTrans = [n \in Node |-> <<>>]
    /\ currentState = [n \in Node |-> "firstFrame"]
    /\ current_node_id = [n \in Node |-> -1]
    /\ write_read_num = [n \in Node |-> 0]
    /\ wire = [n \in Node |-> <<>>]
    /\ net_in = [n \in Node |-> <<>>]
    /\ lost = {}
    /\ vertexUpdate = [n \in Node |-> <<>>]
    /\ wrProp = [n \in Node |->
                    [state |-> "firstFrame", address |-> 0, offset |-> 0,
                     process_packet_num |-> 0]]
    /\ vertexProp = [n \in Node |-> [a \in Block |-> NoBlock]]

(***************************************************************************)
(* readProp: iteration i of its loop for the scheduled partition.  The run *)
(* ends with iteration loop_num + packet_num - 1, and the host starts the  *)
(* next one when the next partition is computed, at any later time.        *)
(***************************************************************************)
ReadProp(n) ==
    LET rd == rdProp[n]
        start_idx == Schedule[n][rd.item] * BlockNum
        iterations == BlockNum + packets_of(BlockNum)
        isHead == rd.frameId = 0
        isLast == rd.frameId = Payload \/ rd.i + 1 = iterations
    IN
    /\ rd.item <= Len(Schedule[n])
    /\ Len(vertexTrans[n]) < TransDepth
    /\ vertexTrans' = Push(vertexTrans, n,
           [node |-> n, addr |-> start_idx + rd.address,
            head |-> isHead, last |-> isLast])
    /\ rdProp' = [rdProp EXCEPT ![n] =
           IF rd.i + 1 = iterations
           THEN [item |-> rd.item + 1, i |-> 0, address |-> 0, frameId |-> 0]
           ELSE [item |-> rd.item, i |-> rd.i + 1,
                 address |-> IF isHead THEN rd.address ELSE rd.address + 1,
                 frameId |-> IF isLast THEN 0 ELSE rd.frameId + 1]]
    /\ UNCHANGED <<transVars, netVars, vertexUpdate, writeVars>>

-----------------------------------------------------------------------------
(* globalTrans, one action for every branch of its state machine. *)

Goto(n, s) == currentState' = [currentState EXCEPT ![n] = s]

\* Read a frame from the network and copy it to writeProp, which blocks while
\* vertexUpdate is full.
Take(n) ==
    /\ net_in[n] # <<>>
    /\ Len(vertexUpdate[n]) < UpdateDepth
    /\ net_in' = Pop(net_in, n)
    /\ vertexUpdate' = Push(vertexUpdate, n, Head(net_in[n]))

\* Write a frame to net_out: it is on the link to the lower worker.
Send(n, f) == wire' = Push(wire, n, f)

\* An own packet is forwarded as if it were another node's.
BugForwardOwn(n) ==
    /\ currentState[n] = "firstFrame"
    /\ Take(n)
    /\ Head(net_in[n]).node = current_node_id[n]
    /\ Send(n, Head(net_in[n]))
    /\ write_read_num' = [write_read_num EXCEPT ![n] = @ - 1]
    /\ Goto(n, "remainFrame_other")
    /\ UNCHANGED <<readVars, vertexTrans, current_node_id, lost, writeVars>>

\* A packet that came home does not give its credit back.
BugKeepCredit(n) ==
    /\ currentState[n] = "firstFrame"
    /\ Take(n)
    /\ Head(net_in[n]).node = current_node_id[n]
    /\ Goto(n, "remainFrame_same")
    /\ UNCHANGED <<readVars, vertexTrans, current_node_id, write_read_num, wire,
                   lost, writeVars>>

FirstFrameSame(n) ==
    /\ currentState[n] = "firstFrame"
    /\ Take(n)
    /\ Head(net_in[n]).node = current_node_id[n]
    /\ write_read_num' = [write_read_num EXCEPT ![n] = @ - 1]
    /\ Goto(n, "remainFrame_same")
    /\ UNCHANGED <<readVars, vertexTrans, current_node_id, wire, lost, writeVars>>

\* Every header that arrives gives a credit back.
BugCreditForAll(n) ==
    /\ currentState[n] = "firstFrame"
    /\ Take(n)
    /\ Head(net_in[n]).node # current_node_id[n]
    /\ Send(n, Head(net_in[n]))
    /\ write_read_num' = [write_read_num EXCEPT ![n] = @ - 1]
    /\ Goto(n, "remainFrame_other")
    /\ UNCHANGED <<readVars, vertexTrans, current_node_id, lost, writeVars>>

FirstFrameOther(n) ==
    /\ currentState[n] = "firstFrame"
    /\ Take(n)
    /\ Head(net_in[n]).node # current_node_id[n]
    /\ Send(n, Head(net_in[n]))
    /\ Goto(n, "remainFrame_other")
    /\ UNCHANGED <<readVars, vertexTrans, current_node_id, write_read_num, lost,
                   writeVars>>

\* Sending asks for no credit.
BugNoThreshold(n) ==
    /\ currentState[n] = "firstFrame"
    /\ net_in[n] = <<>>
    /\ vertexTrans[n] # <<>>
    /\ vertexTrans' = Pop(vertexTrans, n)
    /\ current_node_id' =
           [current_node_id EXCEPT ![n] = Head(vertexTrans[n]).node]
    /\ Send(n, Head(vertexTrans[n]))
    /\ write_read_num' = [write_read_num EXCEPT ![n] = @ + 1]
    /\ Goto(n, "onlySend")
    /\ UNCHANGED <<readVars, net_in, lost, vertexUpdate, writeVars>>

FirstFrameOwn(n) ==
    /\ currentState[n] = "firstFrame"
    /\ net_in[n] = <<>>
    /\ vertexTrans[n] # <<>>
    /\ write_read_num[n] < FIFO_len
    /\ vertexTrans' = Pop(vertexTrans, n)
    /\ current_node_id' =
           [current_node_id EXCEPT ![n] = Head(vertexTrans[n]).node]
    /\ Send(n, Head(vertexTrans[n]))
    /\ write_read_num' = [write_read_num EXCEPT ![n] = @ + 1]
    /\ Goto(n, "onlySend")
    /\ UNCHANGED <<readVars, net_in, lost, vertexUpdate, writeVars>>

RemainFrameSame(n) ==
    /\ currentState[n] = "remainFrame_same"
    /\ Take(n)
    /\ IF Head(net_in[n]).last
       THEN Goto(n, "firstFrame")
       ELSE UNCHANGED currentState
    /\ UNCHANGED <<readVars, vertexTrans, current_node_id, write_read_num, wire,
                   lost, writeVars>>

RemainFrameOther(n) ==
    /\ currentState[n] = "remainFrame_other"
    /\ Take(n)
    /\ Send(n, Head(net_in[n]))
    /\ IF Head(net_in[n]).last
       THEN Goto(n, "firstFrame")
       ELSE UNCHANGED currentState
    /\ UNCHANGED <<readVars, vertexTrans, current_node_id, write_read_num, lost,
                   writeVars>>

\* The FSM looks at the network between two frames of an own packet.
BugInterleave(n) ==
    /\ currentState[n] = "onlySend"
    /\ vertexTrans[n] # <<>>
    /\ vertexTrans' = Pop(vertexTrans, n)
    /\ Send(n, Head(vertexTrans[n]))
    /\ Goto(n, "firstFrame")
    /\ UNCHANGED <<readVars, current_node_id, write_read_num, net_in, lost,
                   vertexUpdate, writeVars>>

OnlySend(n) ==
    /\ currentState[n] = "onlySend"
    /\ vertexTrans[n] # <<>>
    /\ vertexTrans' = Pop(vertexTrans, n)
    /\ Send(n, Head(vertexTrans[n]))
    /\ IF Head(vertexTrans[n]).last
       THEN Goto(n, "firstFrame")
       ELSE UNCHANGED currentState
    /\ UNCHANGED <<readVars, current_node_id, write_read_num, net_in, lost,
                   vertexUpdate, writeVars>>

GlobalTrans(n) ==
    \/ FirstFrameSame(n)
    \/ FirstFrameOther(n)
    \/ FirstFrameOwn(n)
    \/ RemainFrameSame(n)
    \/ RemainFrameOther(n)
    \/ OnlySend(n)

-----------------------------------------------------------------------------
(***************************************************************************)
(* The network: UDP over a link without flow control.  A datagram leaves   *)
(* once its last frame is written, datagrams of a link arrive in order,    *)
(* and one that finds no room in net_in is lost as a whole.                *)
(***************************************************************************)
Complete(w) == \E j \in DOMAIN w : w[j].last

DatagramLen(w) == CHOOSE j \in DOMAIN w :
                      w[j].last /\ \A k \in 1 .. j - 1 : ~w[k].last

HasRoom(n) == Len(net_in[n]) + Payload + 1 <= NetDepth

Arrive(n) ==
    LET u == upper_worker_idx(n) IN
    /\ wire[u] # <<>>
    /\ Head(wire[u]).head => Complete(wire[u]) /\ HasRoom(n)
    /\ net_in' = Push(net_in, n, Head(wire[u]))
    /\ wire' = Pop(wire, u)
    /\ UNCHANGED <<readVars, vertexTrans, transVars, lost, vertexUpdate, writeVars>>

Drop(n) ==
    LET u == upper_worker_idx(n)
        w == wire[u]
    IN
    /\ w # <<>>
    /\ Head(w).head
    /\ Complete(w)
    /\ ~HasRoom(n)
    /\ wire' = [wire EXCEPT ![u] = SubSeq(w, DatagramLen(w) + 1, Len(w))]
    /\ lost' = lost \cup {Head(w)}
    /\ UNCHANGED <<readVars, vertexTrans, transVars, net_in, vertexUpdate, writeVars>>

-----------------------------------------------------------------------------
(***************************************************************************)
(* writeProp: one frame per iteration of its do-while loop.                *)
(***************************************************************************)
WritePropRuns(n) ==
    /\ wrProp[n].process_packet_num < packet_num
    /\ vertexUpdate[n] # <<>>
    /\ vertexUpdate' = Pop(vertexUpdate, n)
    /\ UNCHANGED <<readVars, vertexTrans, transVars, netVars>>

\* A packet is stored behind the one before.
BugKeepOffset(n) ==
    /\ wrProp[n].state = "firstFrame"
    /\ WritePropRuns(n)
    /\ wrProp' = [wrProp EXCEPT ![n].state = "remainFrame",
                                ![n].address = Head(vertexUpdate[n]).addr]
    /\ UNCHANGED vertexProp

WritePropFirst(n) ==
    /\ wrProp[n].state = "firstFrame"
    /\ WritePropRuns(n)
    /\ wrProp' = [wrProp EXCEPT ![n].state = "remainFrame",
                                ![n].address = Head(vertexUpdate[n]).addr,
                                ![n].offset = 0]
    /\ UNCHANGED vertexProp

WritePropRemain(n) ==
    LET f == Head(vertexUpdate[n])
        wr == wrProp[n]
    IN
    /\ wr.state = "remainFrame"
    /\ WritePropRuns(n)
    /\ vertexProp' = [vertexProp EXCEPT ![n][wr.address + wr.offset] = f.addr]
    /\ wrProp' = [wrProp EXCEPT ![n] =
           [state |-> IF f.last THEN "firstFrame" ELSE "remainFrame",
            address |-> wr.address,
            offset |-> wr.offset + 1,
            process_packet_num |-> wr.process_packet_num + (IF f.last THEN 1 ELSE 0)]]

WriteProp(n) == WritePropFirst(n) \/ WritePropRemain(n)

-----------------------------------------------------------------------------
Stored(n) == wrProp[n].process_packet_num = packet_num  \* writeProp returned

Finished == \A n \in Node : rdProp[n].item > Len(Schedule[n]) /\ Stored(n)

\* The exchange is over; everything else that comes to a halt is a deadlock.
Terminated == Finished /\ UNCHANGED vars

Next ==
    \/ \E n \in Node :
           ReadProp(n) \/ GlobalTrans(n) \/ Arrive(n) \/ Drop(n) \/ WriteProp(n)
    \/ Terminated

Spec == Init /\ [][Next]_vars

\* Free-running kernels, links and started runs proceed while they can.
Fairness ==
    \A n \in Node :
        /\ WF_vars(ReadProp(n))
        /\ WF_vars(GlobalTrans(n))
        /\ WF_vars(Arrive(n))
        /\ WF_vars(WriteProp(n))

FairSpec == Spec /\ Fairness

-----------------------------------------------------------------------------
TypeOK ==
    /\ rdProp \in [Node -> [item : 1 .. total_p_num + 1,
                            i : 0 .. BlockNum + packets_of(BlockNum),
                            address : 0 .. BlockNum, frameId : 0 .. Payload]]
    /\ \A n \in Node :
           /\ vertexTrans[n] \in Seq(Frame) /\ Len(vertexTrans[n]) <= TransDepth
           /\ wire[n] \in Seq(Frame)
           /\ net_in[n] \in Seq(Frame) /\ Len(net_in[n]) <= NetDepth
           /\ vertexUpdate[n] \in Seq(Frame) /\ Len(vertexUpdate[n]) <= UpdateDepth
    /\ currentState \in [Node -> {"firstFrame", "remainFrame_same",
                                  "remainFrame_other", "onlySend"}]
    /\ current_node_id \in [Node -> Node \cup {-1}]
    /\ write_read_num \in [Node -> 0 .. FIFO_len]
    /\ lost \subseteq Frame
    /\ wrProp \in [Node -> [state : {"firstFrame", "remainFrame"},
                            address : Block, offset : 0 .. Payload,
                            process_packet_num : 0 .. packet_num]]
    /\ vertexProp \in [Node -> [Block -> Block \cup {NoBlock}]]

(***************************************************************************)
(* writeProp finds the header of a packet by counting alone, so a frame of *)
(* one sender slipped between two of another would be stored at the wrong  *)
(* address.  Whatever the interleaving of sending, forwarding and arrival, *)
(* an address only ever holds the block it belongs to.                     *)
(***************************************************************************)
BlocksAtTheirAddress ==
    \A n \in Node, a \in Block : vertexProp[n][a] \in {a, NoBlock}

(***************************************************************************)
(* The host waits for writeProp and starts the next superstep on the array *)
(* it wrote.  writeProp only counts packets; yet when it returns, every    *)
(* block of every partition has been stored on that FPGA.                  *)
(***************************************************************************)
StoredMeansComplete ==
    \A n \in Node :
        Stored(n) => \A a \in Block : vertexProp[n][a] = a

(***************************************************************************)
(* When every writeProp returned nothing of this superstep is left in any  *)
(* FIFO or on a link, no FSM is inside of a packet and every credit is     *)
(* back: the free-running globalTrans, which no host ever resets, starts   *)
(* the next superstep as it started this one.                              *)
(***************************************************************************)
NothingLeftBehind ==
    (\A n \in Node : Stored(n)) =>
        \A n \in Node :
            /\ {vertexTrans[n], wire[n], net_in[n], vertexUpdate[n]} = {<<>>}
            /\ currentState[n] = "firstFrame"
            /\ write_read_num[n] = 0
            /\ rdProp[n].item > Len(Schedule[n])

(***************************************************************************)
(* write_read_num keeps UDP data packets from being lost                   *)
(* (globalTrans.cpp:49).                                                   *)
(***************************************************************************)
NoPacketLost == lost = {}

(***************************************************************************)
(* The exchange comes to its end: the credits never block a node for good, *)
(* and the priority of forwarding over sending starves no sender.          *)
(***************************************************************************)
EventuallyFinished == <>Finished
=============================================================================
