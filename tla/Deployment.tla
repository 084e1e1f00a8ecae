----------------------------- MODULE Deployment -----------------------------
(***************************************************************************)
(* A graph from its list of edges to the result: the offline partitioner   *)
(* writes the edge files, the offline scheduler deals the partitions that  *)
(* have files to the nodes, and the hosts bring up the network, load their *)
(* lines of the schedule and the files named there, and run the            *)
(* supersteps.                                                             *)
(***************************************************************************)
EXTENDS Superstep, Network, Functions

CONSTANTS
    edgeList, TARGET_RANGE, numThreads, numSLRs, blockSize, ALIGN,
    exe_time, RANDOM_NUM, APPLY_TIME

VARIABLES
    nextSublist, divider, sublists, mergedResults, alpha, lists, file,
    R_IDX, inRound, tasks, left, change_flag, workstations, exe_time_per_worker,
    global_timestamp, workstations_opt, MAX_EXE_TIME

Partitioning == INSTANCE Partitioner

Scheduling == INSTANCE Scheduler WITH NODE_NUM <- PROCESSOR_NUM

partitionVars == <<nextSublist, divider, sublists, mergedResults, alpha, lists, file>>
roundVars == <<R_IDX, inRound, tasks, left, change_flag, workstations, exe_time_per_worker,
               global_timestamp, workstations_opt, MAX_EXE_TIME>>
offlineVars == <<partitionVars, roundVars>>
allVars == <<vars, offlineVars, networkVars>>

\* A pipeline for every list of the partitioner.
ASSUME DeploymentAssumption ==
    /\ Partitioning!PartitionerAssumption
    /\ Scheduling!SchedulerAssumption
    /\ numSLRs = KERNEL_NUM
    /\ Partition = Partitioning!Interval
    /\ DOMAIN exe_time = Partition

DeploymentInit ==
    /\ Partitioning!Init
    /\ Scheduling!Init
    /\ NetworkInit
    /\ Init

PartitionerStep ==
    /\ Partitioning!Next
    /\ UNCHANGED <<vars, roundVars, networkVars>>

\* The scheduler is run on the files of the partitioner.
SchedulerStep ==
    /\ Partitioning!Partitioned
    /\ Scheduling!Next
    /\ UNCHANGED <<partitionVars, networkVars, scheduleItem, hostVars, computeVars, rdPropRun,
                   wrPropRun, prop, netVars>>

\* The program for the FPGAs is run on the schedule.
InBringUp(Action) ==
    /\ schedule_txt # <<>>
    /\ Action
    /\ UNCHANGED <<vars, offlineVars>>

\* The host brings up the network after it has read its line of the schedule
\* and before it loads the edges.  As neither changes any more, it makes no
\* difference that Load is one step after the bring-up.
HostStep(n) ==
    /\ host[n] = "load" => bringUp[n] = "done"
    /\ Host(n)
    /\ UNCHANGED <<offlineVars, networkVars>>

DeploymentNext ==
    \/ PartitionerStep
    \/ SchedulerStep
    \/ InBringUp(NetworkNext)
    \/ \E n \in Node : HostStep(n)
    \/ (\E n \in Node : KernelStep(n)) /\ UNCHANGED <<offlineVars, networkVars>>
    \/ Terminated /\ UNCHANGED <<offlineVars, networkVars>>

\* Processes are not stopped for ever.  A link comes up some time, and a host
\* that repeats its ARP requests is answered some time.
DeploymentSpec ==
    /\ DeploymentInit /\ [][DeploymentNext]_allVars
    /\ Partitioning!Fairness
    /\ WF_allVars(SchedulerStep)
    /\ \A n \in Node :
          /\ WF_allVars(InBringUp(BringUp(n)))
          /\ WF_allVars(InBringUp(LinkUp(n)))
          /\ WF_allVars(InBringUp(Discovered(n)))
          /\ WF_allVars(HostStep(n))
    /\ KernelFairness

-----------------------------------------------------------------------------
\* The edges a host passes to pipeline k for iteration j of its loop.
chunkEdgeData(n, j, k) == file[item(n, j)][k].edges

CountIn(e, edges) == Cardinality({i \in DOMAIN edges : edges[i] = e})

(* Files are as the kernels need them (they do not change once the          *)
(* schedule is written).                                                    *)
FilesFitKernels == schedule_txt = <<>> => Partitioning!FilesFitKernels

(* Nodes do not send at the same time by the plan of any round.             *)
AppliesApart == inRound => Scheduling!AppliesApart

\* Rounds are planned when all files are there.
PlanInv == inRound => Partitioning!Partitioned /\ Scheduling!Planned

(* When all hosts have loaded their files and are at the first barrier,     *)
(* every edge of the graph is in the memory of exactly one pipeline of one  *)
(* FPGA, as often as it is in the list: neither the threads, nor the        *)
(* splitting of blocks, nor the schedule lose or double an edge.            *)
EveryEdgeLoadedOnce ==
    (\A n \in Node : host[n] = "barrier" /\ entered[n] = 1) =>
        LET loaded == {l \in Node \X (0 .. total_p_num - 1) \X Kernel :
                          l[2] < schedule_num(l[1])}
            copies(e) == [l \in loaded |-> CountIn(e, chunkEdgeData(l[1], l[2], l[3]))]
        IN \A i \in DOMAIN edgeList :
              FoldFunction(+, 0, copies(edgeList[i])) = CountIn(edgeList[i], edgeList)

(* Bring-up and barrier keep a node from sending before every network       *)
(* layer of the ring can send to its lower worker and takes what the upper  *)
(* worker sends: a datagram that is dropped is never sent again.            *)
NetworkReady ==
    (\E n \in Node : trans[n] # <<>>) => \A n \in Node : Reaches(n)

InSupersteps(n) == host[n] \in {"start", "wait", "end"} \/ entered[n] > 1

\* What makes NetworkReady inductive: a host enters its first barrier after its
\* own bring-up, and runs supersteps after all have entered it.
HostsKnow ==
    \A n \in Node :
        /\ host[n] = "load" <=> entered[n] = 0
        /\ host[n] # "load" => bringUp[n] = "done"
        /\ (InSupersteps(n) \/ rdPropRun[n] # Idle \/ trans[n] # <<>>) =>
               \A m \in Node : entered[m] >= 1

HostTypes ==
    /\ entered \in [Node -> Nat]
    /\ DOMAIN host = Node /\ DOMAIN rdPropRun = Node /\ DOMAIN trans = Node

ReadyInv == NetworkTypeOK /\ Registers /\ HostTypes /\ HostsKnow

(* To the hosts, the partitioner and the scheduler are one step that deals  *)
(* every partition to one node at most and leaves no node without work:     *)
(* what is proved of the supersteps from that holds here.                   *)
ImplementsSuperstep == DealtSpec
=============================================================================
