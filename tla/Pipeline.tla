------------------------------ MODULE Pipeline ------------------------------
(***************************************************************************)
(* The kernels that the host of an FPGA starts for one partition after the *)
(* other: a gather-scatter pipeline (GatherScatter) in all its detail, the *)
(* other pipelines as sources of bursts, and the apply path (ApplyPath).   *)
(* The host starts the runs of the next partition when all runs of the one *)
(* before have ended, whatever is left in the streams between the kernels. *)
(***************************************************************************)
EXTENDS GatherScatter

CONSTANTS
    KERNEL_NUM,
    scheduleItem,       \* partition of every run
    vertexProp,         \* property array and out-degrees, in bursts
    outDegree,
    PathDepth,
    OtherBursts,        \* what every other pipeline gathers in every run
    applyFunc(_, _, _)

VARIABLES
    gsOut, merged, rawRead, rawStream, applied, output_to_forward, written, propTemp,
    emitted     \* bursts that every other pipeline has written in this run

applyVars == <<gsOut, merged, rawRead, rawStream, applied, output_to_forward, written, propTemp>>
pathVars == <<applyVars, emitted>>
allVars == <<vars, pathVars>>

mergeFunc(ori, update) == gatherFunc(l2, ori, update)

Path == INSTANCE ApplyPath WITH
            LANES <- PE_NUM, BURST <- BURSTS, vertexNum <- PARTITION_SIZE

OtherKernel == 2 .. KERNEL_NUM

\* A pipeline writes all bursts of the partition, whatever edges it has.
ASSUME PipelineAssumption ==
    /\ Path!ApplyPathAssumption
    /\ \A k \in OtherKernel : \A r \in Runs : Len(OtherBursts[k][r]) = 2 * Words

NothingEmitted == [k \in OtherKernel |-> 0]

PipelineInit ==
    /\ Init
    /\ Path!Init
    /\ emitted = NothingEmitted

\* The bursts that processEdgeWrite writes go to the first streamMerge.
GsWrites ==
    /\ WriteBurst
    /\ Path!Emit(1, Head(writeBuffer))
    /\ UNCHANGED emitted

\* Another pipeline, which has the same number of bursts in every run.
OtherGs(k) ==
    /\ emitted[k] < Len(OtherBursts[k][run])
    /\ Path!Emit(k, OtherBursts[k][run][emitted[k] + 1])
    /\ emitted' = [emitted EXCEPT ![k] = @ + 1]
    /\ UNCHANGED vars

PartitionDone ==
    /\ Done
    /\ \A k \in OtherKernel : emitted[k] = Len(OtherBursts[k][run])
    /\ Path!Done

NextPartition ==
    /\ PartitionDone
    /\ NextRun
    /\ Path!Restart
    /\ emitted' = NothingEmitted

Finish == PartitionDone /\ run = Len(Edges)

PipelineNext ==
    \/ GatherScatterStep /\ UNCHANGED pathVars
    \/ GsWrites
    \/ \E k \in OtherKernel : OtherGs(k)
    \/ Path!Step(run) /\ UNCHANGED <<vars, emitted>>
    \/ NextPartition
    \/ Finish /\ UNCHANGED allVars

PipelineSpec == PipelineInit /\ [][PipelineNext]_allVars /\ WF_allVars(PipelineNext)

-----------------------------------------------------------------------------
\* What becomes of burst b of the partition of run r.
Result(r, b) ==
    LET place == (scheduleItem[r] * PARTITION_SIZE) \div PE_NUM + b
        gs == [p \in PE |-> Reference(Edges[r], b * PE_NUM + p)]
    IN [p \in PE |->
           applyFunc(FoldLeft(LAMBDA sum, k : mergeFunc(sum, OtherBursts[k][r][b + 1][p]),
                              gs[p], [k \in 1 .. KERNEL_NUM - 1 |-> k + 1]),
                     vertexProp[place][p], outDegree[place][p])]

Bursts == 0 .. 2 * Words - 1

(* The last run that stored a partition has gathered its edges in all       *)
(* pipelines: when the host has waited for the runs of a partition, the     *)
(* place of that partition in propTemp holds for every vertex what its      *)
(* edges, its old property and its out-degree make of it, and those of all  *)
(* partitions before still do; although bursts are matched by their place   *)
(* in a stream alone.                                                       *)
ResultsInPlace ==
    PartitionDone =>
        \A r \in 1 .. run : \A b \in Bursts :
            propTemp[(scheduleItem[r] * PARTITION_SIZE) \div PE_NUM + b] = Result(r, b)

(* Nothing is left between the kernels when the host starts the next runs.  *)
PathIsEmpty ==
    PartitionDone =>
        /\ \A k \in DOMAIN gsOut : gsOut[k] = <<>>
        /\ \A k \in DOMAIN merged : merged[k] = <<>>
        /\ \A m \in DOMAIN rawStream : rawStream[m] = <<>>
        /\ output_to_forward = <<>>

(* Every run of every kernel ends: the streams between them are deep enough *)
(* for the vector that the cache holds back and the one that                *)
(* srcPropertyProcess looks ahead, and gs waits for no kernel behind it for *)
(* good.                                                                    *)
EventuallyFinished == <>Finish
=============================================================================
