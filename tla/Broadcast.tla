------------------------------ MODULE Broadcast ------------------------------
(***************************************************************************)
(* What the exchange of one superstep promises to the host, whatever it is *)
(* built of: every packet that a node publishes is stored once by every    *)
(* node, the sender included, and the packets of one sender are stored in  *)
(* the order they were published in.  Nothing is promised about the order  *)
(* between different senders.  A node learns only how many packets it      *)
(* stored (process_packet_num of writeProp), never which ones.             *)
(***************************************************************************)
EXTENDS Integers

CONSTANTS
    Node,
    Packet,
    Earlier     \* the packets the same node publishes before a packet

VARIABLES
    published,  \* the packets sent so far
    got,        \* the packets each node has stored in full
    count       \* how many packets each node believes to have stored

vars == <<published, got, count>>

Init ==
    /\ published = {}
    /\ got = [n \in Node |-> {}]
    /\ count = [n \in Node |-> 0]

Publish(p) ==
    /\ p \notin published
    /\ Earlier[p] \subseteq published
    /\ published' = published \cup {p}
    /\ UNCHANGED <<got, count>>

Deliver(n, p) ==
    /\ p \in published \ got[n]
    /\ Earlier[p] \subseteq got[n]
    /\ got' = [got EXCEPT ![n] = @ \cup {p}]
    /\ count' = [count EXCEPT ![n] = @ + 1]
    /\ UNCHANGED published

Next ==
    \E p \in Packet :
        \/ Publish(p)
        \/ \E n \in Node : Deliver(n, p)

Spec == Init /\ [][Next]_vars
=============================================================================
