------------------------------ MODULE ApplyPath ------------------------------
(***************************************************************************)
(* The kernels behind the gather-scatter pipelines of an FPGA.  A chain of *)
(* streamMerges, which always run, adds up what the pipelines gathered;    *)
(* streamApply joins the sums with the old properties and the out-degrees  *)
(* of the partition, and streamWrite stores the results in the partition's *)
(* place in propTemp.  Nothing but its place in a stream tells to which    *)
(* vertex and to which partition a burst belongs.                          *)
(*                                                                         *)
(* The host starts streamApply and streamWrite once for every partition.   *)
(***************************************************************************)
EXTENDS Integers, Sequences

CONSTANTS
    KERNEL_NUM,         \* pipelines
    LANES,              \* vertices of a burst: 16
    BURST,              \* bursts read or written in a row: 64
    vertexNum,          \* PARTITION_SIZE, an argument of both kernels
    scheduleItem,       \* the partition of every run
    vertexProp,         \* property array of the superstep, in bursts from 0
    outDegree,          \* and the out-degrees
    PathDepth,          \* depth of the streams
    mergeFunc(_, _),    \* gatherFunc of the algorithm
    applyFunc(_, _, _)  \* its applyFunc

Kernel == 1 .. KERNEL_NUM
BurstLane == 0 .. LANES - 1
Memory == {"vertexProp", "outDegree"}

\* Assumed by the module that composes this one.
ApplyPathAssumption ==
    /\ {KERNEL_NUM, LANES, BURST, vertexNum, PathDepth} \subseteq Nat \ {0}
    /\ vertexNum % (LANES * BURST) = 0
    /\ DOMAIN vertexProp = DOMAIN outDegree

VARIABLES
    gsOut,      \* tmpVertexProp of every pipeline: bursts on their way
    merged,     \* output of every streamMerge
    rawRead,    \* bursts that each burstReadLiteRaw has read in this run
    rawStream,  \* vertexPropStream and outDegreeStream
    applied,    \* loopCount of applyFunction
    output_to_forward,
    written,    \* bursts stored by streamWrite in this run
    propTemp    \* its array

vars == <<gsOut, merged, rawRead, rawStream, applied, output_to_forward, written, propTemp>>

ReadNothing == [m \in Memory |-> 0]
NotStored == <<>>

Init ==
    /\ gsOut = [k \in Kernel |-> <<>>]
    /\ merged = [k \in 1 .. KERNEL_NUM - 1 |-> <<>>]
    /\ rawRead = ReadNothing
    /\ rawStream = [m \in Memory |-> <<>>]
    /\ applied = 0
    /\ output_to_forward = <<>>
    /\ written = 0
    /\ propTemp = [b \in DOMAIN vertexProp |-> NotStored]

\* Names that start with Bug are mutated forms of the definition that follows.

\* addrOffset and vertexOffset of a run, in bursts.
offset(run) == (scheduleItem[run] * vertexNum) \div LANES

\* A burst too many.
BugToRead == ((vertexNum - 1) \div (LANES * BURST) + 1) * BURST + 1

\* What burstReadLiteRaw reads: whole rows of BURST bursts.
ToRead == ((vertexNum - 1) \div (LANES * BURST) + 1) * BURST

loopNum == vertexNum \div LANES

ToWrite == (vertexNum \div (LANES * BURST)) * BURST

GsHasRoom(k) == Len(gsOut[k]) < PathDepth

\* Pipeline k writes its next burst.
Emit(k, burst) ==
    /\ GsHasRoom(k)
    /\ gsOut' = [gsOut EXCEPT ![k] = Append(@, burst)]
    /\ UNCHANGED <<merged, rawRead, rawStream, applied, output_to_forward, written, propTemp>>

\* The first input of merge k: the first pipeline, or the merge before.
InputA(k) == IF k = 1 THEN gsOut[1] ELSE merged[k - 1]

\* streamMerge k: a burst of each input to one of the output, lane by lane.
StreamMerge(k) ==
    /\ InputA(k) # <<>>
    /\ gsOut[k + 1] # <<>>
    /\ Len(merged[k]) < PathDepth
    /\ LET res == [lane \in BurstLane |->
                      mergeFunc(Head(InputA(k))[lane], Head(gsOut[k + 1])[lane])]
       IN merged' = [j \in DOMAIN merged |->
                        CASE j = k -> Append(merged[j], res)
                          [] j = k - 1 -> Tail(merged[j])
                          [] OTHER -> merged[j]]
    /\ gsOut' = [j \in Kernel |-> IF j = k + 1 \/ (k = 1 /\ j = 1) THEN Tail(gsOut[j])
                                  ELSE gsOut[j]]
    /\ UNCHANGED <<rawRead, rawStream, applied, output_to_forward, written, propTemp>>

\* burstReadLiteRaw reads the next burst of the partition.
ReadRaw(m, run) ==
    /\ rawRead[m] < ToRead
    /\ Len(rawStream[m]) < PathDepth
    /\ LET memory == IF m = "vertexProp" THEN vertexProp ELSE outDegree
       IN rawStream' = [rawStream EXCEPT
                            ![m] = Append(@, memory[offset(run) + rawRead[m]])]
    /\ rawRead' = [rawRead EXCEPT ![m] = @ + 1]
    /\ UNCHANGED <<gsOut, merged, applied, output_to_forward, written, propTemp>>

input_from_merge == IF KERNEL_NUM = 1 THEN gsOut[1] ELSE merged[KERNEL_NUM - 1]

\* applyFunction takes a burst of each of its three inputs.
ApplyFunction ==
    /\ applied < loopNum
    /\ input_from_merge # <<>>
    /\ \A m \in Memory : rawStream[m] # <<>>
    /\ Len(output_to_forward) < PathDepth
    /\ output_to_forward' = Append(output_to_forward,
           [lane \in BurstLane |-> applyFunc(Head(input_from_merge)[lane],
                                             Head(rawStream["vertexProp"])[lane],
                                             Head(rawStream["outDegree"])[lane])])
    /\ rawStream' = [m \in Memory |-> Tail(rawStream[m])]
    /\ IF KERNEL_NUM = 1
       THEN gsOut' = [gsOut EXCEPT ![1] = Tail(@)] /\ UNCHANGED merged
       ELSE merged' = [merged EXCEPT ![KERNEL_NUM - 1] = Tail(@)] /\ UNCHANGED gsOut
    /\ applied' = applied + 1
    /\ UNCHANGED <<rawRead, written, propTemp>>

BugStreamWrite(run) ==
    /\ written < ToWrite
    /\ output_to_forward # <<>>
    /\ propTemp' = [propTemp EXCEPT ![written] = Head(output_to_forward)]
    /\ output_to_forward' = Tail(output_to_forward)
    /\ written' = written + 1
    /\ UNCHANGED <<gsOut, merged, rawRead, rawStream, applied>>

StreamWrite(run) ==
    /\ written < ToWrite
    /\ output_to_forward # <<>>
    /\ propTemp' = [propTemp EXCEPT ![offset(run) + written] = Head(output_to_forward)]
    /\ output_to_forward' = Tail(output_to_forward)
    /\ written' = written + 1
    /\ UNCHANGED <<gsOut, merged, rawRead, rawStream, applied>>

\* streamWrite and streamApply have returned.
Done ==
    /\ written = ToWrite
    /\ applied = loopNum
    /\ \A m \in Memory : rawRead[m] = ToRead

\* The host starts both again.
Restart ==
    /\ Done
    /\ rawRead' = ReadNothing
    /\ applied' = 0
    /\ written' = 0
    /\ UNCHANGED <<gsOut, merged, rawStream, output_to_forward, propTemp>>

Step(run) ==
    \/ \E k \in DOMAIN merged : StreamMerge(k)
    \/ \E m \in Memory : ReadRaw(m, run)
    \/ ApplyFunction
    \/ StreamWrite(run)
=============================================================================
