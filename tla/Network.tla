------------------------------- MODULE Network -------------------------------
(***************************************************************************)
(* The bring-up of the network in acceleratorInit: every host loads its    *)
(* FPGA, waits for the link, writes address and socket table into the      *)
(* network layer, and repeats ARP discovery until it knows its lower       *)
(* worker.  Neither loop has a timeout.  The network layer itself is       *)
(* external: it answers ARP requests once it has an address, and it drops  *)
(* a datagram that fits no entry of its socket table.                      *)
(***************************************************************************)
EXTENDS Ring

NoAddress == [host |-> -1]      \* my_ip after reset
ip_addr(n) == [host |-> n]      \* FPGA_config
tx_port == 60512
rx_port == 5001

VARIABLES
    bringUp,        \* what each host is about to do
    linkStatus,     \* stat_rx_status of cmac_0
    my_ip,          \* the address of each network layer
    socket,         \* the valid entries of its socket table, by index
    arpTable        \* the addresses in its ARP table

networkVars == <<bringUp, linkStatus, my_ip, socket, arpTable>>

NetworkInit ==
    /\ bringUp = [n \in Node |-> "load_xclbin"]
    /\ linkStatus = [n \in Node |-> FALSE]
    /\ my_ip = [n \in Node |-> NoAddress]
    /\ socket = [n \in Node |-> <<>>]
    /\ arpTable = [n \in Node |-> {}]

LoadXclbin(n) ==
    /\ bringUp[n] = "load_xclbin"
    /\ bringUp' = [bringUp EXCEPT ![n] = "link"]
    /\ UNCHANGED <<linkStatus, my_ip, socket, arpTable>>

\* The transceivers have found each other.
LinkUp(n) ==
    /\ bringUp[n] # "load_xclbin"
    /\ ~linkStatus[n]
    /\ linkStatus' = [linkStatus EXCEPT ![n] = TRUE]
    /\ UNCHANGED <<bringUp, my_ip, socket, arpTable>>

WaitLink(n) ==
    /\ bringUp[n] = "link"
    /\ linkStatus[n]
    /\ bringUp' = [bringUp EXCEPT ![n] = "address"]
    /\ UNCHANGED <<linkStatus, my_ip, socket, arpTable>>

SetAddress(n) ==
    /\ bringUp[n] = "address"
    /\ my_ip' = [my_ip EXCEPT ![n] = ip_addr(n)]
    /\ bringUp' = [bringUp EXCEPT ![n] = "sockets"]
    /\ UNCHANGED <<linkStatus, socket, arpTable>>

setSocket(remote_ip, remote_udp, local_udp) ==
    [theirIP |-> remote_ip, theirPort |-> remote_udp, myPort |-> local_udp]

\* The receive socket is for the wrong neighbour.
BugSockets(n) ==
    [i \in 0 .. 1 |->
        IF i = 0 THEN setSocket(ip_addr(upper_worker_idx(n)), rx_port, tx_port)
                 ELSE setSocket(ip_addr(lower_worker_idx(n)), rx_port, tx_port)]

\* Entry 0 receives from the upper worker, entry 1 sends to the lower one.
sockets(n) ==
    [i \in 0 .. 1 |->
        IF i = 0 THEN setSocket(ip_addr(upper_worker_idx(n)), tx_port, rx_port)
                 ELSE setSocket(ip_addr(lower_worker_idx(n)), rx_port, tx_port)]

SetSockets(n) ==
    /\ bringUp[n] = "sockets"
    /\ socket' = [socket EXCEPT ![n] = sockets(n)]
    /\ bringUp' = [bringUp EXCEPT ![n] = "arp"]
    /\ UNCHANGED <<linkStatus, my_ip, arpTable>>

IsARPTableFound(n) == ip_addr(lower_worker_idx(n)) \in arpTable[n]

\* A request to the whole subnet is answered by those who have an address;
\* requests and answers may be lost.
RunARPDiscovery(n) ==
    /\ bringUp[n] = "arp"
    /\ ~IsARPTableFound(n)
    /\ \E answered \in SUBSET {m \in Node \ {n} : my_ip[m] # NoAddress} :
          arpTable' = [arpTable EXCEPT ![n] = @ \cup {my_ip[m] : m \in answered}]
    /\ UNCHANGED <<bringUp, linkStatus, my_ip, socket>>

\* Nobody looks whether discovery has found the neighbour.
BugARPReady(n) ==
    /\ bringUp[n] = "arp"
    /\ bringUp' = [bringUp EXCEPT ![n] = "done"]
    /\ UNCHANGED <<linkStatus, my_ip, socket, arpTable>>

ARPReady(n) ==
    /\ bringUp[n] = "arp"
    /\ IsARPTableFound(n)
    /\ bringUp' = [bringUp EXCEPT ![n] = "done"]
    /\ UNCHANGED <<linkStatus, my_ip, socket, arpTable>>

BringUp(n) ==
    LoadXclbin(n) \/ WaitLink(n) \/ SetAddress(n) \/ SetSockets(n) \/ ARPReady(n)

NetworkNext == \E n \in Node : BringUp(n) \/ LinkUp(n) \/ RunARPDiscovery(n)

\* Discovery has found the neighbour.
Discovered(n) == RunARPDiscovery(n) /\ IsARPTableFound(n)'

-----------------------------------------------------------------------------
\* A network layer takes what fits an entry of its table.
Accepts(m, datagram) ==
    \E i \in DOMAIN socket[m] :
        socket[m][i] = setSocket(datagram.srcIP, datagram.srcPort, datagram.dstPort)

\* What n sends with dest 1 gets to its lower worker.
Reaches(n) ==
    LET m == lower_worker_idx(n)
        datagram == [srcIP |-> my_ip[n], srcPort |-> socket[n][1].myPort,
                     dstPort |-> socket[n][1].theirPort]
    IN /\ 1 \in DOMAIN socket[n]
       /\ socket[n][1].theirIP = my_ip[m]
       /\ my_ip[m] \in arpTable[n]
       /\ Accepts(m, datagram)

NetworkTypeOK ==
    /\ bringUp \in [Node -> {"load_xclbin", "link", "address", "sockets", "arp", "done"}]
    /\ linkStatus \in [Node -> BOOLEAN]
    /\ DOMAIN my_ip = Node /\ DOMAIN socket = Node /\ DOMAIN arpTable = Node

\* What a host has written by the time it goes on.
Registers ==
    \A n \in Node :
        /\ bringUp[n] \in {"sockets", "arp", "done"} => my_ip[n] = ip_addr(n)
        /\ bringUp[n] \in {"arp", "done"} => socket[n] = sockets(n)
        /\ bringUp[n] = "done" => IsARPTableFound(n)
=============================================================================
