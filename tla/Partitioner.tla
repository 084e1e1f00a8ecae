----------------------------- MODULE Partitioner -----------------------------
(***************************************************************************)
(* The offline partitioner input_aware.cpp.  Threads divide the list of    *)
(* edges into intervals by destination, one partition of the graph each;   *)
(* then a thread for every interval deals its edges to numSLRs lists of    *)
(* nearly equal cost, which are saved as the edge files of the pipelines.  *)
(* It splits more and more blocks of edges until the costs are close.      *)
(***************************************************************************)
EXTENDS EdgeFile, FiniteSets, FiniteSetsExt, Functions

CONSTANTS
    edgeList,       \* the input
    TARGET_RANGE,   \* destinations of an interval, 2^20
    numThreads,     \* 32
    numSLRs,        \* lists of an interval: 4, the pipelines of an FPGA
    blockSize,      \* sources of a block, 512
    ALIGN           \* edges of a vector, 16

Thread == 0 .. numThreads - 1

maxVertexId == Max(UNION {{e.src, e.dst} : e \in Range(edgeList)})

intervalNum == (maxVertexId + TARGET_RANGE - 1) \div TARGET_RANGE
Interval == 0 .. intervalNum - 1

\* The index of a destination of a larger id is beyond the intervals, and an
\* interval without edges is never balanced.  Assumed by the modules that use this.
PartitionerAssumption ==
    /\ {TARGET_RANGE, numThreads, numSLRs, blockSize, ALIGN} \subseteq Nat \ {0}
    /\ {e.dst \div TARGET_RANGE : e \in Range(edgeList)} = Interval

VARIABLES
    nextSublist,    \* the next sublist a thread takes
    divider,        \* sublist a thread is at: none yet, its index, or Ended
    sublists,       \* the intervals of every sublist
    mergedResults,  \* the edges of every interval, sorted when its thread starts
    alpha,          \* share of the blocks to split in percent
    lists,          \* blocks that every list got in the last round
    file            \* the files saved

vars == <<nextSublist, divider, sublists, mergedResults, alpha, lists, file>>

None == -1
Ended == numThreads

Init ==
    /\ nextSublist = 0
    /\ divider = [t \in Thread |-> None]
    /\ sublists = [t \in Thread |-> <<>>]
    /\ mergedResults = <<>>
    /\ alpha = [i \in Interval |-> 20]
    /\ lists = [i \in Interval |-> <<>>]
    /\ file = <<>>

-----------------------------------------------------------------------------
\* Names that start with Bug are mutated forms of the definition that follows.

\* nextSublist.fetch_add(1)
TakeSublist(t) ==
    /\ divider[t] = None
    /\ divider' = [divider EXCEPT ![t] = IF nextSublist < numThreads THEN nextSublist
                                         ELSE Ended]
    /\ nextSublist' = nextSublist + 1
    /\ UNCHANGED <<sublists, mergedResults, alpha, lists, file>>

\* The last sublist takes no more than the others.
BugSublist(index) ==
    LET edgesPerThread == Len(edgeList) \div numThreads
    IN SubSeq(edgeList, index * edgesPerThread + 1, (index + 1) * edgesPerThread)

\* A sublist of the edges; the last one has the rest of them too.
Sublist(index) ==
    LET edgesPerThread == Len(edgeList) \div numThreads
    IN SubSeq(edgeList, index * edgesPerThread + 1,
              IF index = numThreads - 1 THEN Len(edgeList) ELSE (index + 1) * edgesPerThread)

DivideSublist(t) ==
    /\ divider[t] \in Thread
    /\ sublists' = [sublists EXCEPT ![divider[t]] =
          [i \in Interval |-> SelectSeq(Sublist(divider[t]),
                                        LAMBDA e : e.dst \div TARGET_RANGE = i)]]
    /\ divider' = [divider EXCEPT ![t] = None]
    /\ UNCHANGED <<nextSublist, mergedResults, alpha, lists, file>>

\* A sequence that is sorted, with e behind all elements it need not precede.
Inserted(s, e, Before(_, _)) ==
    LET k == Cardinality({i \in DOMAIN s : ~Before(e, s[i])})
    IN SubSeq(s, 1, k) \o <<e>> \o SubSeq(s, k + 1, Len(s))

\* std::sort may leave equal elements in any order; here they keep theirs.
Sort(s, Before(_, _)) == FoldLeft(LAMBDA acc, e : Inserted(acc, e, Before), <<>>, s)

sortVector(edges) == Sort(edges, LAMBDA a, b : a.src < b.src)

\* All threads are joined; the intervals are merged, and their threads sort them.
Merge ==
    /\ \A t \in Thread : divider[t] = Ended
    /\ mergedResults = <<>>
    /\ mergedResults' = [i \in Interval |->
          sortVector(FlattenSeq([t \in 1 .. numThreads |-> sublists[t - 1][i]]))]
    /\ UNCHANGED <<nextSublist, divider, sublists, alpha, lists, file>>

-----------------------------------------------------------------------------
(***************************************************************************)
(* One round of the thread of an interval.                                 *)
(***************************************************************************)
\* The edges of every block of sources that has any.
Blocks(sortedEdges) ==
    LET index(e) == e.src \div blockSize
        Add(blocks, e) == IF blocks # <<>> /\ index(Last(Last(blocks))) = index(e)
                          THEN [blocks EXCEPT ![Len(blocks)] = Append(@, e)]
                          ELSE Append(blocks, <<e>>)
    IN FoldLeft(Add, <<>>, sortedEdges)

\* Positions of the blocks, the largest first, of equal ones the last.
BySize(blocks) ==
    Sort(Reverse([k \in DOMAIN blocks |-> k]), LAMBDA a, b : Len(blocks[a]) > Len(blocks[b]))

\* std::ceil(n * alpha) with alpha a float, of which the sums that stand for
\* 0.4 and 0.5 are a little too large.  (For n below 25: no other product of
\* theirs comes near a whole number.)
numBlocksToSplit(n, percent) ==
    IF percent \in {40, 50} THEN (n * percent) \div 100 + 1
    ELSE (n * percent + 99) \div 100

\* The numSLRs pieces of a block, the first ones longer by an edge.
newSmallerBlocks(block) ==
    LET splitSize == Len(block) \div numSLRs
        remainder == Len(block) % numSLRs
        startIdx(j) == j * splitSize + Min({j, remainder})
    IN [j \in 1 .. numSLRs |-> SubSeq(block, startIdx(j - 1) + 1, startIdx(j))]

\* Every block to be split is erased and its pieces are appended.  Positions
\* are those of before the first one was erased.
processBlocks(edges, percent) ==
    LET blocks == Blocks(edges)
        order == SubSeq(BySize(blocks), 1, numBlocksToSplit(Len(blocks), percent))
    IN FoldLeft(LAMBDA acc, at : RemoveAt(acc, at) \o newSmallerBlocks(acc[at]),
                blocks, order)

Edges(list) == FlattenSeq(list)

\* The list with the fewest edges, the first one of several.
minIndex(ls) ==
    Min({l \in DOMAIN ls : \A m \in DOMAIN ls : Len(Edges(ls[l])) <= Len(Edges(ls[m]))})

\* Greedy, the largest block first.
allocateBlocksToLists(blocks) ==
    FoldLeft(LAMBDA ls, block : [ls EXCEPT ![minIndex(ls)] = Append(@, block)],
             [l \in 1 .. numSLRs |-> <<>>],
             Sort(blocks, LAMBDA a, b : Len(a) > Len(b)))

perfCost(list) == Len(Edges(list)) * 100 + Len(list) * 20

\* The costs differ by less than 5 % of their average.
perfmodel(ls) ==
    LET costs == {perfCost(ls[l]) : l \in DOMAIN ls}
        average == MapThenSumSet(LAMBDA l : perfCost(ls[l]), DOMAIN ls) \div numSLRs
    IN (Max(costs) - Min(costs)) * 20 < average

\* The pair of the file's length in front of the edges, and the edges.
Saved(list) ==
    LET edges == Padded(sortVector(Edges(list)), ALIGN)
    IN [c |-> Len(edges), edges |-> edges]

\* More than all blocks are to be split for an alpha above 1: beyond blockSizes.
Round(i) ==
    /\ mergedResults # <<>>
    /\ i \notin DOMAIN file
    /\ alpha[i] <= 100
    /\ LET ls == allocateBlocksToLists(processBlocks(mergedResults[i], alpha[i]))
       IN /\ lists' = [lists EXCEPT ![i] = ls]
          /\ IF perfmodel(ls)
             THEN /\ file' = [j \in DOMAIN file \cup {i} |->
                               IF j = i THEN [l \in 1 .. numSLRs |-> Saved(ls[l])]
                               ELSE file[j]]
                  /\ UNCHANGED alpha
             ELSE alpha' = [alpha EXCEPT ![i] = @ + 2] /\ UNCHANGED file
    /\ UNCHANGED <<nextSublist, divider, sublists, mergedResults>>

Next ==
    \/ \E t \in Thread : TakeSublist(t) \/ DivideSublist(t)
    \/ Merge
    \/ \E i \in Interval : Round(i)

\* All threads have ended.
Partitioned == DOMAIN file = Interval

\* Next is enabled.
Running ==
    \/ \E t \in Thread : divider[t] # Ended
    \/ mergedResults = <<>>
    \/ \E i \in Interval \ DOMAIN file : alpha[i] <= 100

\* Threads that run take steps: weak fairness of Next.
Fairness == []<>(~Running) \/ []<><<TRUE>>_vars

Spec == Init /\ [][Next]_vars /\ Fairness

-----------------------------------------------------------------------------
Count(e, edges) == Cardinality({k \in DOMAIN edges : edges[k] = e})

(* What the kernels rely on in a file (SrcCache, GatherScatter): whole      *)
(* vectors of edges in the order of their sources, the last vector all      *)
(* padding, padding nowhere but at the end, and the number of edges that    *)
(* the host reads from its head.                                            *)
FilesFitKernels ==
    \A i \in DOMAIN file : \A l \in 1 .. numSLRs :
        LET f == file[i][l]
            len == Len(f.edges)
        IN /\ f.c = len /\ len % ALIGN = 0
           /\ \A k \in 1 .. len - 1 :
                 /\ f.edges[k].src <= f.edges[k + 1].src
                 /\ f.edges[k].dst = Marker => f.edges[k + 1].dst = Marker
           /\ \A k \in len - ALIGN + 1 .. len : f.edges[k].dst = Marker

(* main sets alpha to 0.2, "first set as 20% top blocks": a block is split  *)
(* only if every larger block is.                                           *)
LargestAreSplit ==
    \A i \in Interval :
        lists[i] # <<>> =>
            LET blocks == Blocks(mergedResults[i])
                Whole(b) == \E l \in 1 .. numSLRs : blocks[b] \in Range(lists[i][l])
            IN \A a, b \in DOMAIN blocks :
                  Len(blocks[a]) > Len(blocks[b]) /\ Whole(a) => Whole(b)
=============================================================================
