SPECIFICATION Spec
CONSTANTS
    PROCESSOR_NUM = 2
    FIFO_len = 2
    PacketNum = 3
    Room <- MCRoom
    Packet <- MCPacket
    Origin <- MCOrigin
INVARIANTS
    TypeOK
    CreditsCountPackets
    IInv
PROPERTY
    NoLoss
CHECK_DEADLOCK FALSE
