---------------------------- MODULE GatherScatter ----------------------------
(***************************************************************************)
(* The gather-scatter kernel gs of one pipeline, run after run.  It reads  *)
(* the edges of a sub-partition in vectors, sends their sources to the     *)
(* property cache, joins the properties that come back with the            *)
(* destinations, distributes the edges over the processing elements by     *)
(* destination and writes out what the elements have gathered.             *)
(*                                                                         *)
(* Every function of the dataflow region is a process of its own; a stream *)
(* is a sequence, and a slice (filterSlice, processEdgesBuildSlice,        *)
(* processEdgesSlice), which only hands tokens on, is part of the depth of *)
(* the stream it is in.  No count of edges is passed on: every process     *)
(* ends at a flagged token, and the host starts the next run when all have *)
(* ended.                                                                  *)
(***************************************************************************)
EXTENDS Algorithm, ShuffleDecoder, EdgeFile, SequencesExt, FiniteSetsExt

CONSTANTS
    l2,             \* the algorithm whose l2.h is compiled in
    PE_NUM,         \* processing elements, 16 in the code
    EDGE_NUM,       \* edges of half a vector, 8 in the code
    Words,          \* words of an element's share of a partition
    BURSTS,         \* bursts written out together: BURST_WRITE_SIZE, 64
    MapDepth, EdgeDepth, TupleDepth, FilterDepth, BuildDepth, WriteDepth,
    CacheDepth,     \* vectors of sources on their way to the cache
    Vertex,         \* sources of edges
    property,       \* property of every source
    Edges           \* the edges of every run, before saveFile pads them

PE == 0 .. PE_NUM - 1
VECTOR == 2 * EDGE_NUM
Lane == {0, 1}
Addr == 0 .. Words - 1
Runs == 1 .. Len(Edges)
PARTITION_SIZE == PE_NUM * Words * 2

ASSUME GatherScatterAssumption ==
    /\ l2 \in Types
    /\ {PE_NUM, EDGE_NUM, Words, BURSTS, MapDepth, EdgeDepth, TupleDepth,
        FilterDepth, BuildDepth, WriteDepth} \subseteq Nat \ {0}
    /\ CacheDepth \in Nat \ {0, 1}
    /\ BURSTS % 2 = 0 /\ (2 * Words) % BURSTS = 0
    /\ 0 \in Vertex /\ property \in [Vertex -> Nat]
    /\ EDGE_NUM <= 8
    /\ Edges # <<>> /\ Edges \in Seq(Seq([src : Vertex, dst : Nat]))

\* Names that start with Bug are mutated forms of the definition that follows.

\* Room is left for more than the stream can hold.
BugRoom(stream, depth) == Len(stream) <= depth

\* A write to a stream blocks while it is full.
Room(stream, depth) == Len(stream) < depth

VARIABLES
    run,        \* the run the host has started
    read,       \* burstRead: vectors read, and whether dststream is still owed one
    outDone,    \* src_stream_out has ended
    srcProp,    \* srcPropertyProcess: the destinations kept, the halves to be written
    selfProp,   \* propProcessSelf: run, clear or done
    shuffle,    \* shuffleEntry of every element has ended
    filtered,   \* tupleFilter of every element has ended
    dst,        \* dstPropertyProcess of every element: the next word to be dumped
    table,      \* its tmpVPropBuffer
    words,      \* processEdgeWrite: words taken of every element
    writeBuffer,    \* bursts put together
    tmpVertexProp,  \* bursts written out in this run
    mapStream, edgeBurstStream, srcOut, propIn, edgeTuplesBuffer,
    edgeTuplesArray, toFilterArray, buildArray, writeArray

inVars == <<read, outDone, mapStream>>
joinVars == <<srcProp, selfProp>>
shuffleVars == <<shuffle, filtered>>
peVars == <<dst, table>>
writeVars == <<words, writeBuffer, tmpVertexProp>>
vars == <<run, inVars, joinVars, shuffleVars, peVars, writeVars, edgeBurstStream, srcOut,
          propIn, edgeTuplesBuffer, edgeTuplesArray, toFilterArray, buildArray, writeArray>>

file == Padded(Edges[run], VECTOR)
Vectors == Len(file) \div VECTOR

\* One field of vector k of the file.
Sources(k) == [l \in 1 .. VECTOR |-> file[(k - 1) * VECTOR + l].src]
Dests(k) == [l \in 1 .. VECTOR |-> file[(k - 1) * VECTOR + l].dst]

ZeroWord == [lane \in Lane |-> 0]
EmptyTable == [a \in Addr |-> ZeroWord]
Gather == -1        \* dst of an element that is still gathering
NoDest == <<>>      \* srcPropertyProcess has not read its first vector
Finished == "done"

\* What the processes start with in every run.
Unread == [vector |-> 0, owed |-> FALSE]
NoHalves == [last |-> NoDest, halves |-> <<>>, state |-> "run"]
None == [p \in PE |-> FALSE]
Gathering == [p \in PE |-> Gather]

Init ==
    /\ run = 1
    /\ read = Unread
    /\ outDone = FALSE
    /\ srcProp = NoHalves
    /\ selfProp = "run"
    /\ shuffle = None
    /\ filtered = None
    /\ dst = Gathering
    /\ words = 0
    /\ writeBuffer = <<>>
    /\ tmpVertexProp = <<>>
    /\ table = [p \in PE |-> EmptyTable]
    /\ mapStream = <<>> /\ edgeBurstStream = <<>> /\ srcOut = <<>> /\ propIn = <<>>
    /\ edgeTuplesBuffer = <<>>
    /\ edgeTuplesArray = [p \in PE |-> <<>>]
    /\ toFilterArray = [p \in PE |-> <<>>]
    /\ buildArray = [p \in PE |-> <<>>]
    /\ writeArray = [p \in PE |-> <<>>]

-----------------------------------------------------------------------------
(***************************************************************************)
(* The edges, and the way through the cache.                               *)
(***************************************************************************)
\* burstRead puts a vector together from two reads and writes its sources;
\* behind the last one, a flagged token.
ReadVector ==
    /\ ~read.owed
    /\ read.vector <= Vectors
    /\ Room(mapStream, MapDepth)
    /\ LET k == read.vector + 1
           token == IF k <= Vectors THEN [data |-> Sources(k), flag |-> FALSE]
                    ELSE [data |-> Sources(Vectors), flag |-> TRUE]
       IN /\ mapStream' = Append(mapStream, token)
          /\ read' = [vector |-> k, owed |-> TRUE]
    /\ UNCHANGED <<run, outDone, joinVars, shuffleVars, peVars, writeVars, edgeBurstStream,
                   srcOut, propIn, edgeTuplesBuffer, edgeTuplesArray, toFilterArray,
                   buildArray, writeArray>>

\* It writes the destinations after the sources.
ReadDests ==
    /\ read.owed
    /\ Room(edgeBurstStream, EdgeDepth)
    /\ LET k == read.vector
           token == IF k <= Vectors THEN [data |-> Dests(k), flag |-> FALSE]
                    ELSE [data |-> Dests(Vectors), flag |-> TRUE]
       IN edgeBurstStream' = Append(edgeBurstStream, token)
    /\ read' = [read EXCEPT !.owed = FALSE]
    /\ UNCHANGED <<run, outDone, mapStream, joinVars, shuffleVars, peVars, writeVars, srcOut,
                   propIn, edgeTuplesBuffer, edgeTuplesArray, toFilterArray, buildArray,
                   writeArray>>

EndOfSources == <<>>    \* the package of vertices 0xFFFFFFFF, with last set

BugSrcStreamOut ==
    /\ ~outDone
    /\ mapStream # <<>>
    /\ Room(srcOut, CacheDepth)
    /\ mapStream' = Tail(mapStream)
    /\ outDone' = Head(mapStream).flag
    /\ srcOut' = IF Head(mapStream).flag THEN srcOut
                 ELSE Append(srcOut, Head(mapStream).data)
    /\ UNCHANGED <<run, read, joinVars, shuffleVars, peVars, writeVars, edgeBurstStream,
                   propIn, edgeTuplesBuffer, edgeTuplesArray, toFilterArray, buildArray,
                   writeArray>>

\* src_stream_out sends the sources on, and the end of them for the flagged token.
SrcStreamOut ==
    /\ ~outDone
    /\ mapStream # <<>>
    /\ Room(srcOut, CacheDepth)
    /\ mapStream' = Tail(mapStream)
    /\ outDone' = Head(mapStream).flag
    /\ srcOut' = Append(srcOut, IF Head(mapStream).flag THEN EndOfSources
                                ELSE Head(mapStream).data)
    /\ UNCHANGED <<run, read, joinVars, shuffleVars, peVars, writeVars, edgeBurstStream,
                   propIn, edgeTuplesBuffer, edgeTuplesArray, toFilterArray, buildArray,
                   writeArray>>

\* The cache (module SrcCache) returns the properties of a vector when it has
\* the next one, and nothing for the end of the sources.
Cache ==
    /\ \/ /\ Len(srcOut) > 1 /\ Head(srcOut) # EndOfSources
          /\ Room(propIn, TupleDepth)
          /\ propIn' = Append(propIn, [l \in 1 .. VECTOR |-> property[Head(srcOut)[l]]])
       \/ /\ srcOut # <<>> /\ Head(srcOut) = EndOfSources
          /\ UNCHANGED propIn
    /\ srcOut' = Tail(srcOut)
    /\ UNCHANGED <<run, inVars, joinVars, shuffleVars, peVars, writeVars, edgeBurstStream,
                   edgeTuplesBuffer, edgeTuplesArray, toFilterArray, buildArray, writeArray>>

-----------------------------------------------------------------------------
(***************************************************************************)
(* srcPropertyProcess and propProcessSelf.                                 *)
(***************************************************************************)
\* The first vector of destinations is only kept.
FirstDests ==
    /\ srcProp.state = "run" /\ srcProp.last = NoDest
    /\ edgeBurstStream # <<>>
    /\ srcProp' = [srcProp EXCEPT !.last = Head(edgeBurstStream).data]
    /\ edgeBurstStream' = Tail(edgeBurstStream)
    /\ UNCHANGED <<run, inVars, selfProp, shuffleVars, peVars, writeVars, srcOut, propIn,
                   edgeTuplesBuffer, edgeTuplesArray, toFilterArray, buildArray, writeArray>>

\* The tuples of half h of a vector.
Half(h, dests, props, flag) ==
    [data |-> [l \in 1 .. EDGE_NUM |-> [x |-> dests[h * EDGE_NUM + l],
                                        y |-> props[h * EDGE_NUM + l]]],
     flag |-> flag]

BugJoin ==
    /\ srcProp.state = "run" /\ srcProp.last # NoDest /\ srcProp.halves = <<>>
    /\ edgeBurstStream # <<>> /\ propIn # <<>>
    /\ LET dest == Head(edgeBurstStream)
       IN srcProp' = [srcProp EXCEPT
                !.last = dest.data,
                !.halves = [h \in 1 .. 2 |->
                               Half(h - 1, dest.data, Head(propIn), dest.flag)]]
    /\ edgeBurstStream' = Tail(edgeBurstStream)
    /\ propIn' = Tail(propIn)
    /\ UNCHANGED <<run, inVars, selfProp, shuffleVars, peVars, writeVars, srcOut,
                   edgeTuplesBuffer, edgeTuplesArray, toFilterArray, buildArray, writeArray>>

\* The vector kept is joined with its properties; it is the last one, and both
\* of its halves are flagged, if the next token is flagged.
Join ==
    /\ srcProp.state = "run" /\ srcProp.last # NoDest /\ srcProp.halves = <<>>
    /\ edgeBurstStream # <<>> /\ propIn # <<>>
    /\ LET dest == Head(edgeBurstStream)
       IN srcProp' = [srcProp EXCEPT
                !.last = dest.data,
                !.halves = [h \in 1 .. 2 |->
                               Half(h - 1, srcProp.last, Head(propIn), dest.flag)]]
    /\ edgeBurstStream' = Tail(edgeBurstStream)
    /\ propIn' = Tail(propIn)
    /\ UNCHANGED <<run, inVars, selfProp, shuffleVars, peVars, writeVars, srcOut,
                   edgeTuplesBuffer, edgeTuplesArray, toFilterArray, buildArray, writeArray>>

\* The halves are written one after the other.
WriteHalf ==
    /\ srcProp.halves # <<>>
    /\ Room(edgeTuplesBuffer, TupleDepth)
    /\ LET half == Head(srcProp.halves)
           ends == half.flag /\ Len(srcProp.halves) = 1
       IN /\ edgeTuplesBuffer' = Append(edgeTuplesBuffer, half)
          /\ srcProp' = [srcProp EXCEPT !.halves = Tail(@),
                                        !.state = IF ends THEN "clear" ELSE @]
    /\ UNCHANGED <<run, inVars, selfProp, shuffleVars, peVars, writeVars, edgeBurstStream,
                   srcOut, propIn, edgeTuplesArray, toFilterArray, buildArray, writeArray>>

\* clear_stream takes what is left, and ends when it finds the stream empty too often.
ClearProps ==
    /\ srcProp.state = "clear"
    /\ IF propIn = <<>>
       THEN srcProp' = [srcProp EXCEPT !.state = Finished] /\ UNCHANGED propIn
       ELSE propIn' = Tail(propIn) /\ UNCHANGED srcProp
    /\ UNCHANGED <<run, inVars, selfProp, shuffleVars, peVars, writeVars, edgeBurstStream,
                   srcOut, edgeTuplesBuffer, edgeTuplesArray, toFilterArray, buildArray,
                   writeArray>>

\* propProcessSelf, which ends its loop at the first half that is flagged.
SelfProp ==
    /\ selfProp = "run"
    /\ edgeTuplesBuffer # <<>>
    /\ Room(edgeTuplesArray[0], TupleDepth)
    /\ LET half == Head(edgeTuplesBuffer)
           out == [half EXCEPT !.data =
                      [l \in 1 .. EDGE_NUM |-> [@[l] EXCEPT !.y = preprocessProperty(l2, @)]]]
       IN /\ edgeTuplesArray' = [edgeTuplesArray EXCEPT ![0] = Append(@, out)]
          /\ selfProp' = IF half.flag THEN "clear" ELSE "run"
    /\ edgeTuplesBuffer' = Tail(edgeTuplesBuffer)
    /\ UNCHANGED <<run, inVars, srcProp, shuffleVars, peVars, writeVars, edgeBurstStream,
                   srcOut, propIn, toFilterArray, buildArray, writeArray>>

BugClearedLongEnough == TRUE

\* CLEAR_CYCLE empty reads, 256, take longer than the other half needs: it is
\* written in the cycle after the first one.
ClearedLongEnough == srcProp.halves = <<>>

\* clear_stream of propProcessSelf, which meets the second half.
ClearTuples ==
    /\ selfProp = "clear"
    /\ IF edgeTuplesBuffer = <<>>
       THEN ClearedLongEnough /\ selfProp' = Finished /\ UNCHANGED edgeTuplesBuffer
       ELSE edgeTuplesBuffer' = Tail(edgeTuplesBuffer) /\ UNCHANGED selfProp
    /\ UNCHANGED <<run, inVars, srcProp, shuffleVars, peVars, writeVars, edgeBurstStream,
                   srcOut, propIn, edgeTuplesArray, toFilterArray, buildArray, writeArray>>

-----------------------------------------------------------------------------
(***************************************************************************)
(* The distribution to the processing elements.                            *)
(***************************************************************************)
\* One bit for every tuple of a half that belongs to element p.
Opcode(p, half) ==
    MapThenSumSet(LAMBDA l : 2 ^ (l - 1),
                  {l \in 1 .. EDGE_NUM : /\ half.data[l].x % PE_NUM = p
                                        /\ IS_ACTIVE_VERTEX(l2, half.data[l].y)})

\* The tuples that shuffleEntry makes tupleFilter take: those of the opcode, or
\* just the first of them to carry the end if the half is flagged.
Mine(p, half) ==
    LET shuff == shuffleDecoder(Opcode(p, half))
        num == IF half.flag THEN 1 ELSE shuff.num
    IN [j \in 1 .. num |-> half.data[Position(shuff.idx, j - 1) + 1]]

\* shuffleEntry p hands the half to the next one as it is.
Shuffle(p) ==
    /\ ~shuffle[p]
    /\ edgeTuplesArray[p] # <<>>
    /\ p + 1 \in PE => Room(edgeTuplesArray[p + 1], TupleDepth)
    /\ Room(toFilterArray[p], FilterDepth)
    /\ LET half == Head(edgeTuplesArray[p])
       IN /\ edgeTuplesArray' = [q \in PE |->
                CASE q = p -> Tail(edgeTuplesArray[q])
                  [] q = p + 1 -> Append(edgeTuplesArray[q], half)
                  [] OTHER -> edgeTuplesArray[q]]
          /\ toFilterArray' = [toFilterArray EXCEPT
                ![p] = IF Mine(p, half) = <<>> THEN @
                       ELSE Append(@, [tuples |-> Mine(p, half), end |-> half.flag])]
          /\ shuffle' = [shuffle EXCEPT ![p] = half.flag]
    /\ UNCHANGED <<run, inVars, joinVars, filtered, peVars, writeVars, edgeBurstStream,
                   srcOut, propIn, edgeTuplesBuffer, buildArray, writeArray>>

\* tupleFilter writes the tuples one by one; the last of the last filter is flagged.
TupleFilter(p) ==
    /\ ~filtered[p]
    /\ toFilterArray[p] # <<>>
    /\ Room(buildArray[p], BuildDepth)
    /\ LET filter == Head(toFilterArray[p])
           last == Len(filter.tuples) = 1
       IN /\ buildArray' = [buildArray EXCEPT
                ![p] = Append(@, [data |-> Head(filter.tuples), flag |-> last /\ filter.end])]
          /\ toFilterArray' = [toFilterArray EXCEPT
                ![p] = IF last THEN Tail(@)
                       ELSE [@ EXCEPT ![1] = [filter EXCEPT !.tuples = Tail(@)]]]
          /\ filtered' = [filtered EXCEPT ![p] = last /\ filter.end]
    /\ UNCHANGED <<run, inVars, joinVars, shuffle, peVars, writeVars, edgeBurstStream,
                   srcOut, propIn, edgeTuplesBuffer, edgeTuplesArray, writeArray>>

-----------------------------------------------------------------------------
(***************************************************************************)
(* dstPropertyProcess, as module GatherBuffer has it (module DstProperty   *)
(* shows why), and processEdgeWrite.                                       *)
(***************************************************************************)
\* The place of a vertex in the share of its element.
Index(x) == (x \div PE_NUM) % (2 * Words)

DstGather(p) ==
    /\ dst[p] = Gather
    /\ buildArray[p] # <<>>
    /\ buildArray' = [buildArray EXCEPT ![p] = Tail(@)]
    /\ LET token == Head(buildArray[p])
           idx == Index(token.data.x)
       IN IF token.flag
          THEN dst' = [dst EXCEPT ![p] = 0] /\ UNCHANGED table
          ELSE /\ table' = IF token.data.x < 0 THEN table
                           ELSE [table EXCEPT ![p][idx \div 2][idx % 2] =
                                    gatherFunc(l2, @, token.data.y)]
               /\ UNCHANGED dst
    /\ UNCHANGED <<run, inVars, joinVars, shuffleVars, writeVars, edgeBurstStream, srcOut,
                   propIn, edgeTuplesBuffer, edgeTuplesArray, toFilterArray, writeArray>>

\* After the flagged token the words are handed out and cleared.
DstDump(p) ==
    /\ dst[p] \in Addr
    /\ Room(writeArray[p], WriteDepth)
    /\ writeArray' = [writeArray EXCEPT ![p] = Append(@, table[p][dst[p]])]
    /\ table' = [table EXCEPT ![p][dst[p]] = ZeroWord]
    /\ dst' = [dst EXCEPT ![p] = @ + 1]
    /\ UNCHANGED <<run, inVars, joinVars, shuffleVars, writeVars, edgeBurstStream, srcOut,
                   propIn, edgeTuplesBuffer, edgeTuplesArray, toFilterArray, buildArray>>

\* processEdgeWrite fills its buffer, or writes out BURSTS bursts of it in a row.
Writing == Len(writeBuffer) = BURSTS \/ Len(tmpVertexProp) % BURSTS # 0

\* It takes a word of every element and makes two bursts of them.
TakeWords ==
    /\ words < Words /\ ~Writing
    /\ \A p \in PE : writeArray[p] # <<>>
    /\ words' = words + 1
    /\ writeBuffer' = writeBuffer \o
          [b \in 1 .. 2 |-> [p \in PE |-> Head(writeArray[p])[b - 1]]]
    /\ writeArray' = [p \in PE |-> Tail(writeArray[p])]
    /\ UNCHANGED <<run, inVars, joinVars, shuffleVars, peVars, tmpVertexProp,
                   edgeBurstStream, srcOut, propIn, edgeTuplesBuffer, edgeTuplesArray,
                   toFilterArray, buildArray>>

WriteBurst ==
    /\ Writing
    /\ tmpVertexProp' = Append(tmpVertexProp, Head(writeBuffer))
    /\ writeBuffer' = Tail(writeBuffer)
    /\ UNCHANGED <<run, inVars, joinVars, shuffleVars, peVars, words, edgeBurstStream,
                   srcOut, propIn, edgeTuplesBuffer, edgeTuplesArray, toFilterArray,
                   buildArray, writeArray>>

-----------------------------------------------------------------------------
\* All processes of the dataflow region have ended: the host's wait returns.
Done ==
    /\ read.vector > Vectors /\ ~read.owed
    /\ outDone
    /\ srcProp.state = Finished /\ selfProp = Finished
    /\ \A p \in PE : shuffle[p] /\ filtered[p] /\ dst[p] = Words
    /\ words = Words /\ writeBuffer = <<>>

\* The host starts the next run.
NextRun ==
    /\ Done
    /\ run < Len(Edges)
    /\ run' = run + 1
    /\ read' = Unread
    /\ outDone' = FALSE
    /\ srcProp' = NoHalves
    /\ selfProp' = "run"
    /\ shuffle' = None
    /\ filtered' = None
    /\ dst' = Gathering
    /\ words' = 0
    /\ writeBuffer' = <<>>
    /\ tmpVertexProp' = <<>>
    /\ UNCHANGED <<table, mapStream, edgeBurstStream, srcOut, propIn, edgeTuplesBuffer,
                   edgeTuplesArray, toFilterArray, buildArray, writeArray>>

\* A step of a process that does not write to the kernels behind gs.
GatherScatterStep ==
    \/ ReadVector \/ ReadDests \/ SrcStreamOut \/ Cache
    \/ FirstDests \/ Join \/ WriteHalf \/ ClearProps \/ SelfProp \/ ClearTuples
    \/ \E p \in PE : Shuffle(p) \/ TupleFilter(p) \/ DstGather(p) \/ DstDump(p)
    \/ TakeWords

-----------------------------------------------------------------------------
(* What the edges into a vertex of the partition make of its property, by   *)
(* the functions of an algorithm.                                           *)
Reference(edges, vertex) ==
    LET into == SelectSeq(edges, LAMBDA e :
                    /\ e.dst % PARTITION_SIZE = vertex
                    /\ IS_ACTIVE_VERTEX(l2, preprocessProperty(l2, property[e.src])))
    IN FoldLeft(LAMBDA acc, e :
                    gatherFunc(l2, acc, preprocessProperty(l2, property[e.src])),
                0, into)

Expected(b) == [p \in PE |-> Reference(Edges[run], (b - 1) * PE_NUM + p)]

TypeOK ==
    /\ run \in Runs
    /\ Len(mapStream) <= MapDepth /\ Len(edgeBurstStream) <= EdgeDepth
    /\ Len(srcOut) <= CacheDepth /\ Len(propIn) <= TupleDepth
    /\ \A p \in PE :
          /\ dst[p] \in Gather .. Words
          /\ table[p] \in [Addr -> [Lane -> Nat]]
          /\ Len(toFilterArray[p]) <= FilterDepth
          /\ Len(buildArray[p]) <= BuildDepth
          /\ Len(writeArray[p]) <= WriteDepth
    /\ Len(writeBuffer) <= BURSTS

(* gs writes out, for every vertex of the partition and at its place, what  *)
(* all edges of the run make of it, and each of them once; although the     *)
(* last vector of the file never reaches the elements, and the elements     *)
(* keep their memory from run to run.                                       *)
EveryEdgeOnce == \A b \in DOMAIN tmpVertexProp : tmpVertexProp[b] = Expected(b)

(* When the host sees a run of gs end, nothing of it is left in a stream,   *)
(* in the cache or in the memory of an element, where the next run would    *)
(* take it for its own.                                                     *)
NothingLeft ==
    Done =>
        /\ mapStream = <<>> /\ edgeBurstStream = <<>> /\ propIn = <<>>
        /\ srcOut \in {<<>>, <<EndOfSources>>}
        /\ edgeTuplesBuffer = <<>>
        /\ \A p \in PE :
              /\ edgeTuplesArray[p] = <<>> /\ toFilterArray[p] = <<>>
              /\ buildArray[p] = <<>> /\ writeArray[p] = <<>>
              /\ table[p] = EmptyTable
        /\ Len(tmpVertexProp) = 2 * Words
=============================================================================
