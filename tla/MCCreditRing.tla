---------------------------- MODULE MCCreditRing ----------------------------
(* A small ring for TLC: PacketNum packets for every node.  The FIFO of     *)
(* node 0 just has the room that CapacityAssumption asks for, those of the  *)
(* others have not.                                                         *)
EXTENDS CreditRing

CONSTANT PacketNum

MCPacket == Node \X (1 .. PacketNum)

MCOrigin == [p \in MCPacket |-> p[1]]

MCRoom ==
    [n \in Node |-> IF n = 0 THEN PROCESSOR_NUM * FIFO_len
                    ELSE PROCESSOR_NUM * FIFO_len - 2]
=============================================================================
