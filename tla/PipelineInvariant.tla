-------------------------- MODULE PipelineInvariant --------------------------
(***************************************************************************)
(* Why nothing is left behind when a partition is done: the inductive      *)
(* invariant of Pipeline.  No count of edges is passed on, so that it      *)
(* relates what every process has read and written to the flagged token,   *)
(* which is the last one of its stream.                                    *)
(***************************************************************************)
EXTENDS Pipeline

IsSeq(s) == s \in Seq(Range(s))
IsFilter(t) == t = [tuples |-> t.tuples, end |-> t.end] /\ t.end \in BOOLEAN
IsToken(t) == t = [data |-> t.data, flag |-> t.flag] /\ t.flag \in BOOLEAN

(***************************************************************************)
(* A stream between two processes that each end at a flagged token: its    *)
(* writer has ended (up) with the flagged token, which is the last one,    *)
(* and its reader has ended (down) when it has taken that one.             *)
(***************************************************************************)
FlagEnds(stream, up, down) ==
    /\ \A j \in 1 .. Len(stream) :
          /\ stream[j].flag \in BOOLEAN
          /\ stream[j].flag <=> up /\ j = Len(stream)
    /\ down => up
    /\ up => (down <=> stream = <<>>)

\* The same of the filters, which carry the flag as end, and then one tuple.
FilterEnds(stream, up, down) ==
    /\ \A j \in 1 .. Len(stream) :
          /\ IsFilter(stream[j])
          /\ stream[j].end <=> up /\ j = Len(stream)
          /\ stream[j].end => Len(stream[j].tuples) = 1
    /\ down => up
    /\ up => (down <=> stream = <<>>)

\* The sources, with an end in front or behind.
CacheEnds(stream, old, new) ==
    \A j \in 1 .. Len(stream) :
        stream[j] = EndOfSources <=> \/ old = 1 /\ j = 1
                                     \/ new = 1 /\ j = Len(stream)

-----------------------------------------------------------------------------
(* From burstRead to srcPropertyProcess. *)

AllRead == read.vector = Vectors + 1

\* Vectors that src_stream_out has given to the cache.
SourcesOut == IF outDone THEN Vectors ELSE read.vector - Len(mapStream)

\* Vectors of destinations that srcPropertyProcess has taken, and those of
\* them that it has joined.
DestsOut == (IF read.owed THEN read.vector - 1 ELSE read.vector) - Len(edgeBurstStream)
Joined == IF DestsOut = 0 THEN 0 ELSE DestsOut - 1

\* Vectors whose properties the cache has returned.
Served == Joined + Len(propIn)

ReadInv ==
    /\ read \in [vector : 0 .. Vectors + 1, owed : BOOLEAN]
    /\ read.owed => read.vector > 0
    /\ outDone \in BOOLEAN
    /\ IsSeq(mapStream) /\ Len(mapStream) <= read.vector
    /\ FlagEnds(mapStream, AllRead, outDone)
    /\ \A j \in 1 .. Len(mapStream) : mapStream[j].data # EndOfSources

(* In the cache: perhaps the end of the run before (old = 1), which it      *)
(* drops before it serves a vector, then the vectors not served, then       *)
(* perhaps the end of this run (new = 1).                                   *)
InCache(old, new) ==
    /\ old = 1 => Served = 0
    /\ new = 1 => outDone
    /\ Len(srcOut) = old + (SourcesOut - Served) + new
    /\ CacheEnds(srcOut, old, new)

CacheInv ==
    /\ IsSeq(srcOut) /\ IsSeq(propIn)
    /\ Served <= SourcesOut
    /\ \E old, new \in {0, 1} : InCache(old, new)

(* A flagged half is one of the last vector; srcPropertyProcess has ended   *)
(* when it has written both of them.                                        *)
JoinInv ==
    /\ IsSeq(edgeBurstStream) /\ DestsOut \in 0 .. Vectors + 1
    /\ \A j \in 1 .. Len(edgeBurstStream) :
          /\ edgeBurstStream[j].flag \in BOOLEAN
          /\ edgeBurstStream[j].flag <=> DestsOut + j = Vectors + 1
          /\ edgeBurstStream[j].data # NoDest
    /\ srcProp = [last |-> srcProp.last, halves |-> srcProp.halves, state |-> srcProp.state]
    /\ srcProp.last = NoDest <=> DestsOut = 0
    /\ IsSeq(srcProp.halves) /\ Len(srcProp.halves) <= 2
    /\ srcProp.halves # <<>> => DestsOut > 1
    /\ \A h \in 1 .. Len(srcProp.halves) :
          /\ IsToken(srcProp.halves[h])
          /\ srcProp.halves[h].flag <=> DestsOut = Vectors + 1
    /\ srcProp.state \in {"run", "clear", Finished}
    /\ srcProp.state = "run" <=> DestsOut <= Vectors \/ srcProp.halves # <<>>

\* Halves that propProcessSelf has taken or cleared.
HalvesOut == 2 * Joined - Len(srcProp.halves) - Len(edgeTuplesBuffer)

(* propProcessSelf ends its loop at the first flagged half, and clears the  *)
(* second one.                                                              *)
SelfInv ==
    /\ IsSeq(edgeTuplesBuffer) /\ HalvesOut \in Nat
    /\ \A j \in 1 .. Len(edgeTuplesBuffer) :
          /\ IsToken(edgeTuplesBuffer[j])
          /\ edgeTuplesBuffer[j].flag <=> HalvesOut + j > 2 * Vectors - 2
    /\ selfProp \in {"run", "clear", Finished}
    /\ selfProp = "run" <=> HalvesOut <= 2 * Vectors - 2
    /\ selfProp = Finished => HalvesOut = 2 * Vectors

-----------------------------------------------------------------------------
(* From propProcessSelf to processEdgeWrite. *)

ShuffleInv ==
    /\ shuffle \in [PE -> BOOLEAN] /\ filtered \in [PE -> BOOLEAN]
    /\ edgeTuplesArray = [p \in PE |-> edgeTuplesArray[p]]
    /\ toFilterArray = [p \in PE |-> toFilterArray[p]]
    /\ \A p \in PE :
          /\ IsSeq(edgeTuplesArray[p]) /\ IsSeq(toFilterArray[p])
          /\ FlagEnds(edgeTuplesArray[p],
                      IF p = 0 THEN selfProp # "run" ELSE shuffle[p - 1], shuffle[p])
          /\ FilterEnds(toFilterArray[p], shuffle[p], filtered[p])

\* Words that element p has handed out.
Dumped(p) == IF dst[p] = Gather THEN 0 ELSE dst[p]

GatherInv ==
    /\ dst \in [PE -> Gather .. Words]
    /\ buildArray = [p \in PE |-> buildArray[p]]
    /\ writeArray = [p \in PE |-> writeArray[p]]
    /\ table = [p \in PE |-> [a \in Addr |-> table[p][a]]]
    /\ \A p \in PE :
          /\ IsSeq(buildArray[p]) /\ IsSeq(writeArray[p])
          /\ FlagEnds(buildArray[p], filtered[p], dst[p] # Gather)
          /\ Dumped(p) = words + Len(writeArray[p])
          /\ \A a \in 0 .. Dumped(p) - 1 : table[p][a] = ZeroWord

(* processEdgeWrite fills its buffer by two bursts, and empties it.         *)
WriteInv ==
    /\ words \in 0 .. Words
    /\ IsSeq(writeBuffer) /\ IsSeq(tmpVertexProp)
    /\ Len(writeBuffer) + Len(tmpVertexProp) = 2 * words
    /\ IF Len(tmpVertexProp) % BURSTS = 0
       THEN Len(writeBuffer) <= BURSTS /\ Len(writeBuffer) % 2 = 0
       ELSE Len(writeBuffer) = BURSTS - (Len(tmpVertexProp) % BURSTS)

-----------------------------------------------------------------------------
(* Between the kernels. *)

Emitted(k) == IF k = 1 THEN Len(tmpVertexProp) ELSE emitted[k]

\* Bursts of pipeline k that streamMerge, or streamApply, has taken.
Merged(k) == Emitted(k) - Len(gsOut[k])

\* Bursts of the sum of pipelines 1 .. k that were taken.
Summed(k) == IF k = KERNEL_NUM THEN applied ELSE Merged(k + 1)

(* A streamMerge takes as many bursts of one input as of the other, and     *)
(* never more than the one before has written.                              *)
MergeInv ==
    /\ emitted \in [OtherKernel -> 0 .. 2 * Words]
    /\ gsOut = [k \in Path!Kernel |-> gsOut[k]]
    /\ merged = [k \in 1 .. KERNEL_NUM - 1 |-> merged[k]]
    /\ \A k \in Path!Kernel : IsSeq(gsOut[k])
    /\ \A k \in 1 .. KERNEL_NUM - 1 : IsSeq(merged[k])
    /\ Merged(1) = Summed(1)
    /\ \A k \in 1 .. KERNEL_NUM - 1 : Summed(k) = Summed(k + 1) + Len(merged[k])
    /\ \A i, j \in Path!Kernel : i <= j => Summed(j) <= Summed(i)

ApplyInv ==
    /\ rawRead \in [Path!Memory -> 0 .. 2 * Words]
    /\ rawStream = [m \in Path!Memory |-> rawStream[m]]
    /\ \A m \in Path!Memory :
          /\ IsSeq(rawStream[m])
          /\ rawRead[m] = applied + Len(rawStream[m])
    /\ applied \in 0 .. 2 * Words /\ written \in 0 .. 2 * Words
    /\ IsSeq(output_to_forward)
    /\ applied = written + Len(output_to_forward)

-----------------------------------------------------------------------------
GatherScatterInv ==
    /\ run \in Runs
    /\ ReadInv /\ CacheInv /\ JoinInv /\ SelfInv
    /\ ShuffleInv /\ GatherInv /\ WriteInv

PathInv == MergeInv /\ ApplyInv

IInv == GatherScatterInv /\ PathInv

-----------------------------------------------------------------------------
(* What the processes of gs find when a run starts: empty streams and       *)
(* memories, but perhaps the end of the sources of the run before.          *)
Starting ==
    /\ run \in Runs
    /\ read = Unread /\ outDone = FALSE
    /\ srcProp = NoHalves /\ selfProp = "run"
    /\ shuffle = None /\ filtered = None /\ dst = Gathering
    /\ words = 0 /\ writeBuffer = <<>> /\ tmpVertexProp = <<>>
    /\ table = [p \in PE |-> EmptyTable]
    /\ mapStream = <<>> /\ edgeBurstStream = <<>> /\ propIn = <<>> /\ edgeTuplesBuffer = <<>>
    /\ srcOut \in {<<>>, <<EndOfSources>>}
    /\ edgeTuplesArray = [p \in PE |-> <<>>] /\ toFilterArray = [p \in PE |-> <<>>]
    /\ buildArray = [p \in PE |-> <<>>] /\ writeArray = [p \in PE |-> <<>>]

PathStarting ==
    /\ tmpVertexProp = <<>> /\ emitted = NothingEmitted
    /\ gsOut = [k \in Path!Kernel |-> <<>>]
    /\ merged = [k \in 1 .. KERNEL_NUM - 1 |-> <<>>]
    /\ rawRead = Path!ReadNothing
    /\ rawStream = [m \in Path!Memory |-> <<>>]
    /\ applied = 0 /\ written = 0
    /\ output_to_forward = <<>>
=============================================================================
