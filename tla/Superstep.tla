------------------------------ MODULE Superstep ------------------------------
(***************************************************************************)
(* The supersteps of PageRank on all FPGAs: one host process per FPGA      *)
(* (acceleratorExecute inside the loop of mpi_host.cpp) that starts and    *)
(* awaits the kernels, the kernels that work in between, and the MPI       *)
(* barriers.                                                               *)
(*                                                                         *)
(* Superstep s reads one of two copies of the property array and fills the *)
(* other with what arrives from all FPGAs, itself included.  Transmission  *)
(* of a partition overlaps with the computation of the next one.           *)
(*                                                                         *)
(* Data are abstracted to versions: the initial properties have version 0, *)
(* and what is computed from version v alone has version v + 1.  A result  *)
(* that mixes versions is Mixed for ever.  The exchange is that of module  *)
(* Broadcast, which RingExchange implements: packets of one sender arrive  *)
(* in order and once, those of different senders in any order.             *)
(***************************************************************************)
EXTENDS Ring, Sequences, FiniteSets

CONSTANTS
    KERNEL_NUM,     \* gather-scatter pipelines, each with a copy of the arrays
    SUPER_STEP,     \* the number of supersteps (option super_step)
    total_p_num,    \* partitions of the graph
    PartPackets     \* packets of one partition

Partition == 0 .. total_p_num - 1
Kernel == 1 .. KERNEL_NUM

ASSUME SuperstepAssumption ==
    {KERNEL_NUM, SUPER_STEP, total_p_num, PartPackets} \subseteq Nat \ {0}

Chunk == Partition \X (1 .. PartPackets)    \* what one packet carries

\* Names that start with Bug are mutated forms of the definition that follows;
\* no specification uses them.

\* The host counts a packet that nobody sends.
BugOnePacketMore == total_p_num * PartPackets + 1

packet_num == total_p_num * PartPackets

Unset == -1                     \* what a buffer holds before the first write
Mixed == -2                     \* a result of inputs of different versions
Version == 0 .. SUPER_STEP
Value == Version \cup {Unset, Mixed}

\* The version of what is computed from inputs of the given versions.
Computed(versions) ==
    IF \E v \in Version : versions = {v} /\ v < SUPER_STEP
    THEN (CHOOSE v \in Version : versions = {v}) + 1
    ELSE Mixed

VARIABLES
    schedule_txt,   \* the schedule file: the partitions of every node in order
    scheduleItem,   \* what each host has read of it
    super_step,     \* the superstep each host is in
    p,              \* index of its loop over the schedule
    host,           \* what the host is about to do: load, start, wait, barrier, end
    entered,        \* the barriers a host has entered
    gsRun,          \* runs of srcReKernel and gsKernel: idle, run, done
    gsOut,          \* version of what each pipeline computed
    applyRun,       \* runs of applyKernel and writeKernel, joined by a stream
    rdPropRun,      \* readProp: the packets it has sent, of the item before p
    wrPropRun,      \* writeProp of each pipeline: packets it has stored
    prop,           \* propBuffer (0) and propBufferNew (1) of each pipeline
    propTemp,       \* results of the own partitions
    trans,          \* packets a node has published, in order
    seen,           \* how many packets of each sender reached a node
    vertexUpdate    \* packets in front of each writeProp

hostVars == <<super_step, p, host, entered>>
computeVars == <<gsRun, gsOut, applyRun, propTemp>>
netVars == <<trans, seen, vertexUpdate>>
scheduleVars == <<schedule_txt, scheduleItem>>
vars == <<scheduleVars, hostVars, computeVars, rdPropRun, wrPropRun, prop, netVars>>

Idle == PartPackets             \* a readProp run that has sent everything

pingpong(n) == super_step[n] % 2

\* The partition of iteration k of the host's loop, which counts from 0.
item(n, k) == scheduleItem[n][k + 1]

schedule_num(n) == Len(scheduleItem[n])

Init ==
    /\ super_step = [n \in Node |-> 0]
    /\ p = [n \in Node |-> 0]
    /\ scheduleItem = [n \in Node |-> <<>>]
    /\ host = [n \in Node |-> "load"]
    /\ entered = [n \in Node |-> 0]
    /\ gsRun = [n \in Node |-> [k \in Kernel |-> "idle"]]
    /\ gsOut = [n \in Node |-> [k \in Kernel |-> Unset]]
    /\ applyRun = [n \in Node |-> "idle"]
    /\ rdPropRun = [n \in Node |-> Idle]
    /\ wrPropRun = [n \in Node |-> [k \in Kernel |-> packet_num]]
    /\ prop = [n \in Node |-> [k \in Kernel |->
                  [b \in 0 .. 1 |->
                      [c \in Chunk |-> IF b = 0 THEN 0 ELSE Unset]]]]
    /\ propTemp = [n \in Node |-> [q \in Partition |-> Unset]]
    /\ trans = [n \in Node |-> <<>>]
    /\ seen = [n \in Node |-> [m \in Node |-> 0]]
    /\ vertexUpdate = [n \in Node |-> [k \in Kernel |-> <<>>]]

-----------------------------------------------------------------------------
\* Every host reads the line of another node.
BugLoad(n) ==
    /\ host[n] = "load"
    /\ schedule_txt # <<>>
    /\ scheduleItem' = [scheduleItem EXCEPT ![n] = schedule_txt[0]]
    /\ host' = [host EXCEPT ![n] = "barrier"]
    /\ entered' = [entered EXCEPT ![n] = @ + 1]
    /\ UNCHANGED <<schedule_txt, super_step, p, computeVars, rdPropRun, wrPropRun, prop,
                   netVars>>

\* A host reads the line of its rank and the edges of the partitions in it, and
\* comes to the first barrier.
Load(n) ==
    /\ host[n] = "load"
    /\ schedule_txt # <<>>
    /\ scheduleItem' = [scheduleItem EXCEPT ![n] = schedule_txt[n]]
    /\ host' = [host EXCEPT ![n] = "barrier"]
    /\ entered' = [entered EXCEPT ![n] = @ + 1]
    /\ UNCHANGED <<schedule_txt, super_step, p, computeVars, rdPropRun, wrPropRun, prop,
                   netVars>>

(***************************************************************************)
(* The host.  Each iteration starts its runs and then awaits all of them;  *)
(* the order of the waits does not matter, as it goes on after the last.   *)
(***************************************************************************)
StartCompute(n) ==
    /\ gsRun' = [gsRun EXCEPT ![n] = [k \in Kernel |-> "run"]]
    /\ applyRun' = [applyRun EXCEPT ![n] = "run"]

StartFirst(n) ==
    /\ host[n] = "start"
    /\ p[n] = 0
    /\ wrPropRun' = [wrPropRun EXCEPT ![n] = [k \in Kernel |-> 0]]
    /\ StartCompute(n)
    /\ UNCHANGED rdPropRun

StartMiddle(n) ==
    /\ host[n] = "start"
    /\ p[n] \in 1 .. schedule_num(n) - 1
    /\ StartCompute(n)
    /\ rdPropRun' = [rdPropRun EXCEPT ![n] = 0]
    /\ UNCHANGED wrPropRun

StartLast(n) ==
    /\ host[n] = "start"
    /\ p[n] = schedule_num(n)
    /\ rdPropRun' = [rdPropRun EXCEPT ![n] = 0]
    /\ UNCHANGED <<gsRun, applyRun, wrPropRun>>

Start(n) ==
    /\ StartFirst(n) \/ StartMiddle(n) \/ StartLast(n)
    /\ host' = [host EXCEPT ![n] = "wait"]
    /\ UNCHANGED <<scheduleVars, super_step, p, entered, gsOut, propTemp, prop, netVars>>

\* The host does not wait for streamWrite.
BugNoWriteWait(n) == \A k \in Kernel : gsRun[n][k] # "run"

ComputeDone(n) ==
    /\ \A k \in Kernel : gsRun[n][k] # "run"
    /\ applyRun[n] # "run"

WritesDone(n) == \A k \in Kernel : wrPropRun[n][k] = packet_num

WaitIteration(n) ==
    /\ host[n] = "wait"
    /\ p[n] < schedule_num(n)
    /\ ComputeDone(n)
    /\ rdPropRun[n] = Idle
    /\ p' = [p EXCEPT ![n] = @ + 1]
    /\ host' = [host EXCEPT ![n] = "start"]
    /\ UNCHANGED <<scheduleVars, super_step, entered, computeVars, rdPropRun,
                   wrPropRun, prop, netVars>>

\* The last wait of the superstep, and the first of the two barriers after it.
WaitLast(n) ==
    /\ host[n] = "wait"
    /\ p[n] = schedule_num(n)
    /\ rdPropRun[n] = Idle
    /\ WritesDone(n)
    /\ host' = [host EXCEPT ![n] = "barrier"]
    /\ entered' = [entered EXCEPT ![n] = @ + 1]
    /\ UNCHANGED <<scheduleVars, super_step, p, computeVars, rdPropRun, wrPropRun,
                   prop, netVars>>

\* No barrier.
BugNoBarrier(n) == n \in Node

BarrierOpen(n) == \A m \in Node : entered[m] >= entered[n]

\* One superstep too many.
BugOneStepMore(n) ==
    /\ host[n] = "barrier"
    /\ BarrierOpen(n)
    /\ IF entered[n] % 2 = 0
       THEN /\ entered' = [entered EXCEPT ![n] = @ + 1]
            /\ UNCHANGED <<super_step, p, host>>
       ELSE LET s == (entered[n] - 1) \div 2 IN
            /\ super_step' = [super_step EXCEPT ![n] = s]
            /\ p' = [p EXCEPT ![n] = 0]
            /\ host' = [host EXCEPT ![n] = IF s <= SUPER_STEP THEN "start" ELSE "end"]
            /\ UNCHANGED entered
    /\ UNCHANGED <<scheduleVars, computeVars, rdPropRun, wrPropRun, prop, netVars>>

\* The host ends one superstep early.
BugOneStepLess(n) ==
    /\ host[n] = "barrier"
    /\ BarrierOpen(n)
    /\ IF entered[n] % 2 = 0
       THEN /\ entered' = [entered EXCEPT ![n] = @ + 1]
            /\ UNCHANGED <<super_step, p, host>>
       ELSE LET s == (entered[n] - 1) \div 2 IN
            /\ super_step' = [super_step EXCEPT ![n] = s]
            /\ p' = [p EXCEPT ![n] = 0]
            /\ host' = [host EXCEPT ![n] = IF s + 1 < SUPER_STEP THEN "start" ELSE "end"]
            /\ UNCHANGED entered
    /\ UNCHANGED <<scheduleVars, computeVars, rdPropRun, wrPropRun, prop, netVars>>

(***************************************************************************)
(* Barrier 1 precedes the loop.  Superstep s is followed by barrier 2s + 2 *)
(* and, after the execution times are gathered, by barrier 2s + 3.         *)
(***************************************************************************)
LeaveBarrier(n) ==
    /\ host[n] = "barrier"
    /\ BarrierOpen(n)
    /\ IF entered[n] % 2 = 0
       THEN /\ entered' = [entered EXCEPT ![n] = @ + 1]
            /\ UNCHANGED <<super_step, p, host>>
       ELSE LET s == (entered[n] - 1) \div 2 IN
            /\ super_step' = [super_step EXCEPT ![n] = s]
            /\ p' = [p EXCEPT ![n] = 0]
            /\ host' = [host EXCEPT ![n] = IF s < SUPER_STEP THEN "start" ELSE "end"]
            /\ UNCHANGED entered
    /\ UNCHANGED <<scheduleVars, computeVars, rdPropRun, wrPropRun, prop, netVars>>

-----------------------------------------------------------------------------
(***************************************************************************)
(* The kernels.                                                            *)
(***************************************************************************)

\* A gather-scatter pipeline computes its share of the partition.  It reads
\* properties of vertices of all partitions, any time before it returns.
GatherScatter(n, k) ==
    /\ gsRun[n][k] = "run"
    /\ gsOut' = [gsOut EXCEPT ![n][k] =
                    Computed({prop[n][k][pingpong(n)][c] : c \in Chunk})]
    /\ gsRun' = [gsRun EXCEPT ![n][k] = "done"]
    /\ UNCHANGED <<scheduleVars, hostVars, applyRun, propTemp, rdPropRun, wrPropRun,
                   prop, netVars>>

\* streamMerge sums the shares of all pipelines, streamApply combines the sum
\* with the old properties in the copy of the last pipeline, and streamWrite
\* stores the result in propTemp.
ApplyAndWrite(n) ==
    LET q == item(n, p[n])
        old == {prop[n][KERNEL_NUM][pingpong(n)][<<q, j>>] : j \in 1 .. PartPackets}
        shares == {gsOut[n][k] : k \in Kernel}
    IN
    /\ applyRun[n] = "run"
    /\ \A k \in Kernel : gsRun[n][k] = "done"
    /\ propTemp' = [propTemp EXCEPT ![n][q] =
                       IF shares = {Computed(old)} THEN Computed(old) ELSE Mixed]
    /\ applyRun' = [applyRun EXCEPT ![n] = "done"]
    /\ UNCHANGED <<scheduleVars, hostVars, gsRun, gsOut, rdPropRun, wrPropRun, prop,
                   netVars>>

\* readProp sends one packet of the partition that was computed before.
ReadProp(n) ==
    LET q == item(n, p[n] - 1) IN
    /\ rdPropRun[n] < PartPackets
    /\ trans' = [trans EXCEPT ![n] =
                    Append(@, [chunk |-> <<q, rdPropRun[n] + 1>>,
                               version |-> propTemp[n][q]])]
    /\ rdPropRun' = [rdPropRun EXCEPT ![n] = @ + 1]
    /\ UNCHANGED <<scheduleVars, hostVars, computeVars, wrPropRun, prop, seen,
                   vertexUpdate>>

\* The ring brings n the next packet of m, and the forwarders copy it to the
\* writeProp kernels of all pipelines.
Deliver(n, m) ==
    /\ seen[n][m] < Len(trans[m])
    /\ seen' = [seen EXCEPT ![n][m] = @ + 1]
    /\ vertexUpdate' = [vertexUpdate EXCEPT ![n] =
           [k \in Kernel |-> Append(@[k], trans[m][seen[n][m] + 1])]]
    /\ UNCHANGED <<scheduleVars, hostVars, computeVars, rdPropRun, wrPropRun, prop,
                   trans>>

\* writeProp stores a packet in the array that is not being read; it returns
\* after packet_num packets.
WriteProp(n, k) ==
    LET packet == Head(vertexUpdate[n][k]) IN
    /\ wrPropRun[n][k] < packet_num
    /\ vertexUpdate[n][k] # <<>>
    /\ prop' = [prop EXCEPT ![n][k][1 - pingpong(n)][packet.chunk] = packet.version]
    /\ wrPropRun' = [wrPropRun EXCEPT ![n][k] = @ + 1]
    /\ vertexUpdate' = [vertexUpdate EXCEPT ![n][k] = Tail(@)]
    /\ UNCHANGED <<scheduleVars, hostVars, computeVars, rdPropRun, trans, seen>>

-----------------------------------------------------------------------------
Host(n) == Load(n) \/ Start(n) \/ WaitIteration(n) \/ WaitLast(n) \/ LeaveBarrier(n)

AllEnd == \A n \in Node : host[n] = "end"

Terminated == AllEnd /\ UNCHANGED vars

KernelStep(n) ==
    \/ ApplyAndWrite(n)
    \/ ReadProp(n)
    \/ \E k \in Kernel : GatherScatter(n, k) \/ WriteProp(n, k)
    \/ \E m \in Node : Deliver(n, m)

Next ==
    \/ \E n \in Node : Host(n) \/ KernelStep(n)
    \/ Terminated

Spec == Init /\ [][Next]_vars

\* Started kernels and the ring proceed while they can.
KernelFairness ==
    \A n \in Node :
        /\ WF_vars(ApplyAndWrite(n))
        /\ WF_vars(ReadProp(n))
        /\ \A k \in Kernel : WF_vars(GatherScatter(n, k)) /\ WF_vars(WriteProp(n, k))
        /\ \A m \in Node : WF_vars(Deliver(n, m))

-----------------------------------------------------------------------------
TypeOK ==
    /\ schedule_txt = <<>> \/ schedule_txt \in [Node -> Seq(Partition) \ {<<>>}]
    /\ scheduleItem \in [Node -> Seq(Partition)]
    /\ super_step \in [Node -> 0 .. SUPER_STEP]
    /\ p \in [Node -> 0 .. total_p_num]
    /\ host \in [Node -> {"load", "start", "wait", "barrier", "end"}]
    /\ entered \in [Node -> 0 .. 2 * SUPER_STEP + 1]
    /\ gsRun \in [Node -> [Kernel -> {"idle", "run", "done"}]]
    /\ gsOut \in [Node -> [Kernel -> Value]]
    /\ applyRun \in [Node -> {"idle", "run", "done"}]
    /\ rdPropRun \in [Node -> 0 .. Idle]
    /\ wrPropRun \in [Node -> [Kernel -> 0 .. packet_num]]
    /\ prop \in [Node -> [Kernel -> [0 .. 1 -> [Chunk -> Value]]]]
    /\ propTemp \in [Node -> [Partition -> Value]]
    /\ trans \in [Node -> Seq([chunk : Chunk, version : Value])]
    /\ seen \in [Node -> [Node -> Nat]]
    /\ vertexUpdate \in [Node -> [Kernel -> Seq([chunk : Chunk, version : Value])]]

(***************************************************************************)
(* The promise of bulk synchrony: while the host of a node is inside of    *)
(* superstep s, the array that its pipelines read holds the results of     *)
(* superstep s - 1 for every vertex of the whole graph, no older and no    *)
(* newer ones, and nobody writes to it.                                    *)
(***************************************************************************)
SnapshotComplete ==
    \A n \in Node, k \in Kernel, c \in Chunk :
        host[n] \in {"start", "wait"} => prop[n][k][pingpong(n)][c] = super_step[n]

(***************************************************************************)
(* writeProp cannot tell a packet of the next superstep from one of this.  *)
(* A fast FPGA may send while a slow host has not yet left the barrier,    *)
(* but what waits in front of a writeProp that is still counting belongs   *)
(* to the superstep of its host.                                           *)
(***************************************************************************)
NoPacketFromAnotherStep ==
    \A n \in Node, k \in Kernel :
        wrPropRun[n][k] < packet_num =>
            \A i \in DOMAIN vertexUpdate[n][k] :
                vertexUpdate[n][k][i].version = super_step[n] + 1

(***************************************************************************)
(* readProp sends a partition while streamWrite fills propTemp with the    *)
(* next one; still it only sends results of this superstep.                *)
(***************************************************************************)
SentResultsAreFinal ==
    \A n \in Node :
        rdPropRun[n] < PartPackets
            => propTemp[n][item(n, p[n] - 1)] = super_step[n] + 1

(***************************************************************************)
(* After the last superstep all copies on all FPGAs hold the same, final   *)
(* properties: any of them may be taken for the result.                    *)
(***************************************************************************)
CopiesAgree ==
    \A n \in Node, k \in Kernel, c \in Chunk :
        host[n] = "end" => prop[n][k][SUPER_STEP % 2][c] = SUPER_STEP

\* Every host comes out of its last barrier.
EventuallyAllEnd == <>AllEnd

-----------------------------------------------------------------------------
(***************************************************************************)
(* The supersteps with whatever a scheduler may write: a line for every    *)
(* node, and every partition in one place at most.                         *)
(***************************************************************************)
Dealt(s) ==
    /\ s \in [Node -> Seq(Partition) \ {<<>>}]
    /\ \A n, m \in Node : \A i \in DOMAIN s[n], j \in DOMAIN s[m] :
          s[n][i] = s[m][j] => n = m /\ i = j

ScheduleWritten ==
    /\ schedule_txt = <<>>
    /\ Dealt(schedule_txt')
    /\ UNCHANGED <<scheduleItem, hostVars, computeVars, rdPropRun, wrPropRun, prop, netVars>>

DealtSpec == Init /\ schedule_txt = <<>> /\ [][Next \/ ScheduleWritten]_vars

(***************************************************************************)
(* An inductive invariant of DealtSpec, for the proofs of the properties   *)
(* above.  A node is at superstep step(n) from the barrier before it to    *)
(* the wait at its end.                                                    *)
(***************************************************************************)
step(n) ==
    IF host[n] = "barrier" /\ entered[n] > 1 THEN super_step[n] + 1 ELSE super_step[n]

Active(n) == host[n] \in {"start", "wait"}
Computing(n) == host[n] = "wait" /\ p[n] < schedule_num(n)
Writing(n) == host[n] = "wait" \/ (host[n] = "start" /\ p[n] > 0)

\* The barriers keep the nodes together.
HostsTogether ==
    /\ schedule_txt = <<>> \/ Dealt(schedule_txt)
    /\ \A n \in Node :
          /\ host[n] = "load" => /\ super_step[n] = 0 /\ entered[n] = 0
                                 /\ scheduleItem[n] = <<>>
          /\ host[n] # "load" => schedule_txt # <<>> /\ scheduleItem[n] = schedule_txt[n]
          /\ Active(n) => /\ super_step[n] < SUPER_STEP
                          /\ entered[n] = 2 * super_step[n] + 1
                          /\ p[n] <= schedule_num(n)
          /\ host[n] = "barrier" =>
                \/ super_step[n] = 0 /\ entered[n] = 1
                \/ /\ super_step[n] < SUPER_STEP
                   /\ entered[n] \in {2 * super_step[n] + 2, 2 * super_step[n] + 3}
          /\ host[n] = "end" => /\ super_step[n] = SUPER_STEP
                                /\ entered[n] = 2 * super_step[n] + 1
          /\ \A m \in Node :
                entered[n] <= entered[m] + IF host[n] = "barrier" THEN 1 ELSE 0

\* What is computed from a complete snapshot is of the next version.
InTime(n) ==
    /\ \A k \in Kernel : gsRun[n][k] = "run" => Computing(n)
    /\ applyRun[n] = "run" => Computing(n)
    /\ rdPropRun[n] < PartPackets => host[n] = "wait" /\ p[n] > 0
    /\ Computing(n) =>
          /\ \A k \in Kernel : gsRun[n][k] = "run" \/ gsOut[n][k] = super_step[n] + 1
          /\ \/ applyRun[n] = "run"
             \/ propTemp[n][item(n, p[n])] = super_step[n] + 1
    /\ Active(n) =>
          \A j \in 1 .. p[n] : propTemp[n][scheduleItem[n][j]] = super_step[n] + 1

ComputedInTime == \A n \in Node : InTime(n)

\* Node m has sent chunk c of superstep r.
Sent(m, r, c) ==
    \E j \in DOMAIN scheduleItem[m] :
        /\ c[1] = scheduleItem[m][j]
        /\ \/ step(m) > r
           \/ /\ step(m) = r
              /\ \/ Active(m) /\ j < p[m]
                 \/ host[m] = "wait" /\ j = p[m] /\ c[2] <= rdPropRun[m]

\* A packet names its superstep by its version, and nobody sends one twice.
SentOnce ==
    \A m \in Node : \A j \in DOMAIN trans[m] :
        /\ \E r \in 0 .. SUPER_STEP - 1, c \in Chunk :
              trans[m][j] = [chunk |-> c, version |-> r + 1] /\ Sent(m, r, c)
        /\ \A i \in DOMAIN trans[m] : trans[m][i] = trans[m][j] => i = j

Delivered(n) == UNION {{trans[m][j] : j \in 1 .. seen[n][m]} : m \in Node}

\* What is under way to a node is of its superstep.
UnderWay ==
    \A n, m \in Node :
        /\ seen[n][m] <= Len(trans[m])
        /\ \A j \in seen[n][m] + 1 .. Len(trans[m]) : trans[m][j].version = step(n) + 1

\* The chunks of the array being filled that have come.
Stored(n, k) == {c \in Chunk : prop[n][k][1 - (step(n) % 2)][c] = step(n) + 1}

\* Each packet that came waits once, or is stored.
ReceivedBy(n, k) ==
    LET queue == vertexUpdate[n][k] IN
    /\ \A i \in DOMAIN queue :
          /\ queue[i].version = step(n) + 1
          /\ queue[i] \in Delivered(n)
          /\ queue[i].chunk \notin Stored(n, k)
          /\ \A j \in DOMAIN queue : queue[i] = queue[j] => i = j
    /\ \A c \in Stored(n, k) : [chunk |-> c, version |-> step(n) + 1] \in Delivered(n)
    /\ wrPropRun[n][k] = IF Writing(n) THEN Cardinality(Stored(n, k)) ELSE packet_num
    /\ ~Writing(n) => Stored(n, k) = {}

Received == \A n \in Node, k \in Kernel : ReceivedBy(n, k)

\* A node goes on to the next superstep with all results of the one before.
Complete ==
    \A n \in Node :
        /\ \A k \in Kernel, c \in Chunk : prop[n][k][step(n) % 2][c] = step(n)
        /\ \A r \in 0 .. SUPER_STEP, c \in Chunk :
              r < step(n) => \E m \in Node : Sent(m, r, c)

IInv ==
    /\ TypeOK /\ HostsTogether /\ ComputedInTime
    /\ SentOnce /\ UnderWay /\ Received /\ Complete
=============================================================================
