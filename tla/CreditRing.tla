----------------------------- MODULE CreditRing -----------------------------
(***************************************************************************)
(* The packet level of the result exchange: what the credit counter of     *)
(* globalTrans promises about the packets that travel round the ring.      *)
(*                                                                         *)
(* Every node injects the packets of its own vertices into the ring, every *)
(* node copies every packet that passes to its writeProp kernels, and a    *)
(* packet leaves the ring at the node that sent it.  No acknowledgement    *)
(* exists: the homecoming of its own packet is what tells a node that one  *)
(* more packet may be sent (write_read_num < FIFO_len).  The links are UDP *)
(* and have no flow control: a packet that finds no room in the net_in     *)
(* FIFO of its receiver is lost for good.                                  *)
(*                                                                         *)
(* A packet is in one stage at a time, which abstracts from its frames     *)
(* (module RingExchange has them).  The order of the packets inside a FIFO *)
(* is left open here, since no promise of the counter depends on it.       *)
(***************************************************************************)
EXTENDS Ring, FiniteSets

CONSTANTS
    FIFO_len,   \* the packets a node may have in the ring
    Room,       \* the whole packets that fit into the net_in FIFO of a node
    Packet,     \* the packets of one exchange
    Origin      \* the node whose vertices a packet carries

ASSUME CreditAssumption ==
    /\ FIFO_len \in Nat \ {0}
    /\ Room \in [Node -> Nat \ {0}]
    /\ Origin \in [Packet -> Node]
    /\ IsFiniteSet(Packet)

(***************************************************************************)
(* All the packets that PROCESSOR_NUM nodes may have in the ring fit into  *)
(* the net_in FIFO of node n.                                              *)
(***************************************************************************)
CapacityAssumption(n) == PROCESSOR_NUM * FIFO_len <= Room[n]

VARIABLES
    stage,          \* how far each packet is on its way
    at,             \* the node each packet is at; its origin again once it is lost
    write_read_num  \* the packets a node sent less those that came home

vars == <<stage, at, write_read_num>>

(***************************************************************************)
(* vertexTrans  not sent yet                                               *)
(* onlySend     being sent by its origin, whose FSM is in onlySend         *)
(* wire         complete in the link from at to its lower worker           *)
(* net_in       its header waits in the net_in FIFO of at                  *)
(* other        being forwarded: the FSM of at is in remainFrame_other     *)
(* same         being taken off the ring: the FSM is in remainFrame_same   *)
(* home         off the ring                                               *)
(* lost         dropped in front of a full net_in FIFO                     *)
(***************************************************************************)
Stage == {"vertexTrans", "onlySend", "wire", "net_in", "other", "same",
          "home", "lost"}

Busy == {"onlySend", "other", "same"}       \* the FSM is inside the packet

InFirstFrame(n) == \A p \in Packet : at[p] = n => stage[p] \notin Busy

\* The packets that hold places of n's net_in FIFO: those whose header
\* waits, and the one that is being read, whose last frames are still there.
Occupants(n) ==
    {p \in Packet : at[p] = n /\ stage[p] \in {"net_in", "other", "same"}}

Move(p, s, n) ==
    /\ stage' = [stage EXCEPT ![p] = s]
    /\ at' = [at EXCEPT ![p] = n]

-----------------------------------------------------------------------------
Init ==
    /\ stage = [p \in Packet |-> "vertexTrans"]
    /\ at = Origin
    /\ write_read_num = [n \in Node |-> 0]

\* Names that start with Bug are mutated forms of the definition that follows;
\* no specification uses them.

\* Sending asks for no credit.
BugNoThreshold(p) ==
    LET n == Origin[p] IN
    /\ stage[p] = "vertexTrans"
    /\ InFirstFrame(n)
    /\ Move(p, "onlySend", n)
    /\ write_read_num' = [write_read_num EXCEPT ![n] = @ + 1]

\* firstFrame, nothing from the network: send the header of an own packet.
BeginSend(p) ==
    LET n == Origin[p] IN
    /\ stage[p] = "vertexTrans"
    /\ InFirstFrame(n)
    /\ write_read_num[n] < FIFO_len
    /\ Move(p, "onlySend", n)
    /\ write_read_num' = [write_read_num EXCEPT ![n] = @ + 1]

\* Every header that arrives gives a credit back.
BugCreditForAll(p) ==
    /\ stage[p] = "net_in"
    /\ at[p] # Origin[p]
    /\ InFirstFrame(at[p])
    /\ Move(p, "other", at[p])
    /\ write_read_num' = [write_read_num EXCEPT ![at[p]] = @ - 1]

\* A packet is forwarded between two frames of another one.
BugInterleave(p) ==
    /\ stage[p] = "net_in"
    /\ at[p] # Origin[p]
    /\ Move(p, "other", at[p])
    /\ UNCHANGED write_read_num

\* firstFrame, the header of another node's packet: forward it.
BeginForward(p) ==
    /\ stage[p] = "net_in"
    /\ at[p] # Origin[p]
    /\ InFirstFrame(at[p])
    /\ Move(p, "other", at[p])
    /\ UNCHANGED write_read_num

\* firstFrame, the header of an own packet: take it off the ring.
BeginHome(p) ==
    LET n == Origin[p] IN
    /\ stage[p] = "net_in"
    /\ at[p] = n
    /\ InFirstFrame(n)
    /\ Move(p, "same", n)
    /\ write_read_num' = [write_read_num EXCEPT ![n] = @ - 1]

\* The last frame of the packet that the FSM is inside of.
EndPacket(p) ==
    /\ \/ /\ stage[p] \in {"onlySend", "other"}
          /\ Move(p, "wire", at[p])
       \/ /\ stage[p] = "same"
          /\ Move(p, "home", at[p])
    /\ UNCHANGED write_read_num

\* The lower worker's net_in FIFO takes the packet.
Arrive(p) ==
    /\ stage[p] = "wire"
    /\ Move(p, "net_in", lower_worker_idx(at[p]))
    /\ UNCHANGED write_read_num

\* The packet does not fit into the lower worker's net_in FIFO.
Drop(p) ==
    /\ stage[p] = "wire"
    /\ Cardinality(Occupants(lower_worker_idx(at[p]))) >= Room[lower_worker_idx(at[p])]
    /\ Move(p, "lost", Origin[p])
    /\ UNCHANGED write_read_num

Next ==
    \E p \in Packet :
        \/ BeginSend(p)
        \/ BeginForward(p)
        \/ BeginHome(p)
        \/ EndPacket(p)
        \/ Arrive(p)
        \/ Drop(p)

Spec == Init /\ [][Next]_vars
-----------------------------------------------------------------------------
TypeOK ==
    /\ stage \in [Packet -> Stage]
    /\ at \in [Packet -> Node]
    /\ write_read_num \in [Node -> 0 .. FIFO_len]

\* The packets of n that are not home, the lost ones included.
InRing(n) ==
    {p \in Packet : Origin[p] = n /\ stage[p] \notin {"vertexTrans", "home"}}

\* n is taking an own packet off the ring: its credit is back already.
ComingHome(n) == \E p \in InRing(n) : stage[p] = "same"

(***************************************************************************)
(* The counter of every node tells exactly how many of its packets are in  *)
(* the ring, but for the one packet whose header came home and whose last  *)
(* frames are still to be read; and however the FSMs, the links and losses *)
(* interleave, a node never has more than FIFO_len packets in the ring.    *)
(* (globalTrans.cpp: write_read_num, ++ in the send branch, -- when an own *)
(* header is read.)                                                        *)
(***************************************************************************)
CreditsCountPackets ==
    \A n \in Node :
        /\ Cardinality(InRing(n)) =
               write_read_num[n] + (IF ComingHome(n) THEN 1 ELSE 0)
        /\ Cardinality(InRing(n)) <= FIFO_len

(***************************************************************************)
(* "write_read_num is used to aviod UDP data packet loss"                  *)
(* (globalTrans.cpp:49): with no flow control on the links, the credits    *)
(* alone keep a net_in FIFO from overflowing, provided that this FIFO has  *)
(* room for all the packets the ring may hold; whether others have does    *)
(* not matter.  Stated as: a step that loses a packet loses it in front of *)
(* a FIFO without that room.                                               *)
(***************************************************************************)
LosesOnlyWithoutRoom ==
    \A p \in Packet :
        stage[p] # "lost" /\ stage'[p] = "lost"
            => ~CapacityAssumption(lower_worker_idx(at[p]))

NoLoss == [][LosesOnlyWithoutRoom]_vars

(***************************************************************************)
(* The part of the inductive invariant that is about positions: a node is  *)
(* inside one packet at a time, and only the origin of a packet sends it   *)
(* and takes it off the ring.                                              *)
(***************************************************************************)
OneBusyPacket ==
    \A p, q \in Packet :
        stage[p] \in Busy /\ stage[q] \in Busy /\ at[p] = at[q] => p = q

EndsAtOrigin ==
    \A p \in Packet :
        stage[p] \in {"vertexTrans", "onlySend", "same", "home"}
            => at[p] = Origin[p]

IInv ==
    /\ TypeOK
    /\ OneBusyPacket
    /\ EndsAtOrigin
    /\ CreditsCountPackets
=============================================================================
