------------------------------ MODULE SrcCache ------------------------------
(***************************************************************************)
(* The source property cache of one pipeline.  test_duplicate_512 hands    *)
(* every vector of sources to coalesce and to src_cache_access.  The first *)
(* requests bursts of property lines (module Requests), which the read     *)
(* engine sends through the chain of processing elements of the second.    *)
(* Each element keeps a window of lines, and serves two lanes of every     *)
(* vector as soon as it takes the line of the source to be in its window.  *)
(*                                                                         *)
(* All indices of the code are compared and moved in steps of a line of 16 *)
(* vertices; here a source is the number of its line.  A property is known *)
(* by the line it belongs to and by the run in which it was read.          *)
(***************************************************************************)
EXTENDS Integers, Sequences, FiniteSets

CONSTANTS
    PE_NUM,         \* processing elements: NUM_OF_PE, 8 in the code
    CACHE_LINES,    \* lines of a window: CACHE_SIZE / 16, 4096 in the code
    BURST,          \* lines of a request: CACHE_UPDATE_BURST, 32 in the code
    StreamDepth,    \* depth of the streams around a processing element, 2
    CmdDepth,       \* requests under way to the read engine
    CoalesceDepth,  \* vectors inside of coalesce
    AccessDepth,    \* vectors in front of src_dispatch
    End,            \* the line of vertex 0xFFFFFFFF
    Input           \* streams of vectors of sources, all runs in a row

PE == 0 .. PE_NUM - 1
Lane == 1 .. 2 * PE_NUM
Line == 0 .. End - 1

IsEnd(v) == v = [l \in Lane |-> End]

(***************************************************************************)
(* saveFile of the partitioner writes the edges in the order of their      *)
(* sources and fills up the last vector, and one more, with the source of  *)
(* the last edge.                                                          *)
(***************************************************************************)
SortedAndPadded(s) ==
    \A k \in DOMAIN s : \A l \in Lane :
        /\ \A m \in l .. 2 * PE_NUM : s[k][l] <= s[k][m]
        /\ k > 1 /\ ~IsEnd(s[k - 1]) => s[k - 1][2 * PE_NUM] <= s[k][l]
        /\ IsEnd(s[k]) => k > 2 /\ s[k - 1][l] = s[k - 2][2 * PE_NUM]

SrcCacheAssumption ==
    /\ {PE_NUM, CACHE_LINES, StreamDepth, CmdDepth, CoalesceDepth,
        AccessDepth} \subseteq Nat \ {0}
    /\ BURST \in Nat \ {0, 1}
    /\ End \in Nat \ {0} /\ End % BURST = 0
    /\ \A s \in Input :
        /\ s \in Seq([Lane -> Line \cup {End}])
        /\ s # <<>> /\ IsEnd(s[Len(s)]) /\ SortedAndPadded(s)
        /\ \A k \in DOMAIN s : IsEnd(s[k]) \/ s[k] \in [Lane -> Line]
        /\ \A k \in DOMAIN s : IsEnd(s[k]) => \A j \in k - 2 .. k - 1 : ~IsEnd(s[j])

ASSUME SrcCacheAssumption

VARIABLES
    source,     \* the vectors of sources of all runs
    input,      \* the same as numbers of bursts, which coalesce looks at
    run,        \* the runs the host has started
    fed,        \* vectors given to coalesce
    fed2,       \* vectors given to src_cache_access
    cmd,        \* the requests made so far
    taken,      \* the requests the read engine is done with
    inner_idx,  \* the lines it has sent of the current one
    dispatch,   \* the vector and the item src_dispatch comes to next
    sv_stream,  \* sources in front of every processing element
    pe,         \* registers of the processing elements
    prop,       \* their windows
    cl_stream,  \* lines in front of every processing element
    out_stream, \* properties served by every processing element
    merge,      \* the vector and the item src_merge comes to next
    pkg         \* the vector of properties it puts together

requestVars == <<input, fed, cmd>>
feedVars == <<source, run, requestVars, fed2>>
engineVars == <<taken, inner_idx>>
peVars == <<sv_stream, pe, prop, cl_stream, out_stream>>
mergeVars == <<merge, pkg>>
vars == <<feedVars, engineVars, dispatch, peVars, mergeVars>>

R == INSTANCE Requests

Unloaded == [run |-> 0, line |-> -1]    \* the window before the first run
Dummy == -2                             \* what dummy lines hold: zeros
Data == [run : 0 .. run, line : Line \cup {-1, Dummy}]

Fresh ==
    [sv_ready |-> FALSE, src |-> 0, frp_flag |-> FALSE, required_min |-> 0,
     min |-> 0, max |-> 0, need_update |-> FALSE,
     tb_valid |-> FALSE, tb |-> [addr |-> 0, data |-> Unloaded],
     end_of_sv |-> FALSE, end_of_ca |-> FALSE]

Init ==
    /\ source \in Input
    /\ input = [k \in DOMAIN source |-> [l \in Lane |-> source[k][l] \div BURST]]
    /\ run = 1
    /\ fed2 = 0
    /\ R!Init
    /\ taken = 0 /\ inner_idx = 0
    /\ dispatch = [vector |-> 1, item |-> 0]
    /\ sv_stream = [i \in PE |-> <<>>]
    /\ pe = [i \in PE |-> Fresh]
    /\ prop = [i \in PE |-> [t \in 0 .. CACHE_LINES - 1 |-> Unloaded]]
    /\ cl_stream = [i \in PE |-> <<>>]
    /\ out_stream = [i \in PE |-> <<>>]
    /\ merge = [vector |-> 1, item |-> 0]
    /\ pkg = [l \in Lane |-> Unloaded]

\* Names that start with Bug are mutated forms of the definition that follows.

\* Streams of the processing elements take one item more than they have room for.
BugRoom(stream) == Len(stream) <= StreamDepth

Room(stream) == Len(stream) < StreamDepth

-----------------------------------------------------------------------------
(***************************************************************************)
(* The way to coalesce, the read engine and src_dispatch.                  *)
(***************************************************************************)
\* The run that the next vector belongs to was started.
Started == Cardinality({k \in 1 .. fed : IsEnd(source[k])}) < run

\* Vectors in coalesce: some of their requests are still to be made.
InCoalesce == {k \in 1 .. fed : Len(cmd) < R!Requested(k)}

\* test_duplicate_512 writes to out1, then to out2.
ToCoalesce ==
    /\ fed2 = fed /\ Started
    /\ Cardinality(InCoalesce) < CoalesceDepth
    /\ R!Feed
    /\ UNCHANGED <<source, run, fed2, engineVars, dispatch, peVars, mergeVars>>

ToAccess ==
    /\ fed2 < fed
    /\ fed2 - dispatch.vector + 1 < AccessDepth
    /\ fed2' = fed2 + 1
    /\ UNCHANGED <<source, run, requestVars, engineVars, dispatch, peVars, mergeVars>>

Coalesce ==
    /\ Len(cmd) - taken < CmdDepth
    /\ R!Request
    /\ UNCHANGED <<source, run, fed2, engineVars, dispatch, peVars, mergeVars>>

(***************************************************************************)
(* One line of read_with_request: those of the requested burst, or two     *)
(* dummy lines behind the last line of the run, the second with the flag   *)
(* that ends the run.                                                      *)
(***************************************************************************)
IsEndCmd(k) == cmd[k] = End \div BURST

CacheLine(k, j) ==
    IF IsEndCmd(k)
    THEN [addr |-> (cmd[k - 1] + 1) * BURST + j, last |-> j = 1,
          data |-> [run |-> run, line |-> Dummy]]
    ELSE [addr |-> cmd[k] * BURST + j, last |-> FALSE,
          data |-> [run |-> run, line |-> cmd[k] * BURST + j]]

ReadEngine ==
    LET k == taken + 1
        lines == IF IsEndCmd(k) THEN 2 ELSE BURST
    IN /\ k <= Len(cmd) /\ Room(cl_stream[0])
       /\ cl_stream' = [cl_stream EXCEPT ![0] = Append(@, CacheLine(k, inner_idx))]
       /\ IF inner_idx + 1 < lines
          THEN inner_idx' = inner_idx + 1 /\ UNCHANGED taken
          ELSE inner_idx' = 0 /\ taken' = k
       /\ UNCHANGED <<feedVars, dispatch, sv_stream, pe, prop, out_stream, mergeVars>>

\* The lane that the n-th item of a vector belongs to: first one lane of each
\* element, from the highest down, then the other.
LaneOf(n) == 2 * PE_NUM - 1 - 2 * (n % PE_NUM) + n \div PE_NUM

\* src_buffer takes the vector that ends a run away.
Following(k) == IF k < Len(source) /\ IsEnd(source[k + 1]) THEN k + 2 ELSE k + 1

\* src_buffer keeps a vector back until it has seen the next one.
SrcDispatch ==
    LET k == dispatch.vector
        n == dispatch.item
        i == n % PE_NUM
    IN /\ k < fed2 /\ Room(sv_stream[i])
       /\ sv_stream' = [sv_stream EXCEPT ![i] =
              Append(@, [src |-> source[k][LaneOf(n)],
                         last |-> n >= PE_NUM /\ IsEnd(source[k + 1])])]
       /\ dispatch' = IF n + 1 < 2 * PE_NUM
                      THEN [vector |-> k, item |-> n + 1]
                      ELSE [vector |-> Following(k), item |-> 0]
       /\ UNCHANGED <<feedVars, engineVars, pe, prop, cl_stream, out_stream, mergeVars>>

-----------------------------------------------------------------------------
(***************************************************************************)
(* One iteration of src_cache_pe_frp on element i.                         *)
(***************************************************************************)
Tag(line) == line % CACHE_LINES

TakesSource(i) == ~pe[i].sv_ready /\ sv_stream[i] # <<>>

\* The registers of the element, with the source it takes now if it takes one.
WithSource(i) ==
    IF TakesSource(i)
    THEN LET sv == Head(sv_stream[i])
         IN [pe[i] EXCEPT !.sv_ready = TRUE, !.src = sv.src,
                          !.frp_flag = sv.last, !.required_min = sv.src]
    ELSE pe[i]

\* The test admits the line that will be stored next.
BugServes(i) ==
    LET e == WithSource(i)
    IN e.sv_ready /\ e.min <= e.src /\ e.src <= e.max

Serves(i) ==
    LET e == WithSource(i)
    IN e.sv_ready /\ e.min <= e.src /\ e.src < e.max

\* An element that has served all its sources does not pass lines on.
BugReadsLine(i) == ~pe[i].tb_valid /\ cl_stream[i] # <<>>

ReadsLine(i) == (~pe[i].tb_valid \/ pe[i].end_of_sv) /\ cl_stream[i] # <<>>

StoresLine(i) == pe[i].tb_valid /\ ~pe[i].end_of_sv /\ pe[i].need_update

\* The window after a line was stored.
WithLine(i, e) ==
    IF StoresLine(i)
    THEN [e EXCEPT !.max = IF e.max < e.tb.addr + 1 THEN e.tb.addr + 1 ELSE @,
                   !.min = IF e.tb.addr = e.required_min THEN e.tb.addr ELSE @,
                   !.tb_valid = FALSE, !.need_update = FALSE]
    ELSE IF ReadsLine(i)
    THEN LET cl == Head(cl_stream[i])
         IN [e EXCEPT !.tb = [addr |-> cl.addr, data |-> cl.data],
                      !.tb_valid = TRUE, !.end_of_ca = @ \/ cl.last]
    ELSE e

WithServed(i, e) ==
    IF Serves(i)
    THEN [e EXCEPT !.sv_ready = FALSE, !.end_of_sv = @ \/ e.frp_flag]
    ELSE e

AskLine(e) ==
    [e EXCEPT !.need_update = @ \/ e.required_min + CACHE_LINES > e.max]

\* The window is not reset between two runs.
BugEndRun(e) ==
    IF e.end_of_sv /\ e.end_of_ca
    THEN [Fresh EXCEPT !.max = e.max] ELSE e

EndRun(e) == IF e.end_of_sv /\ e.end_of_ca THEN Fresh ELSE e

After(i) == EndRun(AskLine(WithServed(i, WithLine(i, WithSource(i)))))

(***************************************************************************)
(* An iteration reads, and writes, several streams.  Here it only begins   *)
(* when there is room for all that it writes, whereas the code may stall   *)
(* in the middle, with its reads done: the model makes less progress.      *)
(***************************************************************************)
SrcCachePe(i) ==
    /\ After(i) # pe[i] \/ TakesSource(i)
    /\ Serves(i) => Room(out_stream[i])
    /\ ReadsLine(i) /\ i + 1 \in PE => Room(cl_stream[i + 1])
    /\ pe' = [pe EXCEPT ![i] = After(i)]
    /\ sv_stream' = IF TakesSource(i)
                    THEN [sv_stream EXCEPT ![i] = Tail(@)] ELSE sv_stream
    /\ out_stream' =
          IF Serves(i)
          THEN [out_stream EXCEPT ![i] = Append(@, prop[i][Tag(WithSource(i).src)])]
          ELSE out_stream
    /\ prop' = IF StoresLine(i)
               THEN [prop EXCEPT ![i][Tag(pe[i].tb.addr)] = pe[i].tb.data]
               ELSE prop
    /\ cl_stream' =
          IF ~ReadsLine(i) THEN cl_stream
          ELSE [j \in PE |->
                   IF j = i THEN Tail(cl_stream[j])
                   ELSE IF j = i + 1 THEN Append(cl_stream[j], Head(cl_stream[i]))
                   ELSE cl_stream[j]]
    /\ UNCHANGED <<feedVars, engineVars, dispatch, mergeVars>>

-----------------------------------------------------------------------------
\* src_merge waits for one item of each element after the other.
SrcMergeRead ==
    LET n == merge.item
        i == n % PE_NUM
    IN /\ n < 2 * PE_NUM /\ out_stream[i] # <<>>
       /\ pkg' = [pkg EXCEPT ![LaneOf(n)] = Head(out_stream[i])]
       /\ out_stream' = [out_stream EXCEPT ![i] = Tail(@)]
       /\ merge' = [merge EXCEPT !.item = n + 1]
       /\ UNCHANGED <<feedVars, engineVars, dispatch, sv_stream, pe, prop, cl_stream>>

SrcMergeWrite ==
    /\ merge.item = 2 * PE_NUM
    /\ merge' = [vector |-> Following(merge.vector), item |-> 0]
    /\ UNCHANGED <<feedVars, engineVars, dispatch, peVars, pkg>>

(***************************************************************************)
(* The host starts the next run when gs and the read engine of this one    *)
(* have returned.  Between that and the first vector of the next run lies  *)
(* the latency of a start, much longer than the lines in the chain need to *)
(* run out; the model takes it for granted that they did.                  *)
(***************************************************************************)
Drained ==
    /\ fed2 = fed /\ ~Started
    /\ Len(cmd) = R!Requested(fed) /\ taken = Len(cmd)
    /\ merge = [vector |-> fed + 1, item |-> 0]
    /\ \A i \in PE : pe[i].end_of_ca = FALSE /\ ~pe[i].tb_valid /\ cl_stream[i] = <<>>

StartRun ==
    /\ Drained /\ fed < Len(source)
    /\ run' = run + 1
    /\ UNCHANGED <<source, requestVars, fed2, engineVars, dispatch, peVars, mergeVars>>

Finished == Drained /\ fed = Len(source)

Terminated == Finished /\ UNCHANGED vars

Kernels ==
    \/ ToCoalesce \/ ToAccess
    \/ Coalesce
    \/ ReadEngine
    \/ SrcDispatch
    \/ \E i \in PE : SrcCachePe(i)
    \/ SrcMergeRead \/ SrcMergeWrite

Next == Kernels \/ StartRun \/ Terminated

Spec == Init /\ [][Next]_vars

Fairness ==
    /\ WF_vars(ToCoalesce \/ ToAccess)
    /\ WF_vars(Coalesce)
    /\ WF_vars(ReadEngine)
    /\ WF_vars(SrcDispatch)
    /\ \A i \in PE : WF_vars(SrcCachePe(i))
    /\ WF_vars(SrcMergeRead \/ SrcMergeWrite)
    /\ WF_vars(StartRun)

FairSpec == Spec /\ Fairness

-----------------------------------------------------------------------------
\* Types, and the depths of the streams.
TypeOK ==
    LET CL == [addr : Nat, data : Data, last : BOOLEAN]
        Place == [vector : 1 .. Len(source) + 1, item : 0 .. 2 * PE_NUM]
    IN /\ source \in Input
       /\ run \in 1 .. Len(source)
       /\ {fed, fed2} \subseteq 0 .. Len(source)
       /\ cmd \in Seq(0 .. End \div BURST)
       /\ taken \in 0 .. Len(cmd) /\ inner_idx \in 0 .. BURST - 1 \cup {1}
       /\ {dispatch, merge} \subseteq Place
       /\ \A i \in PE :
           /\ sv_stream[i] \in Seq([src : Line, last : BOOLEAN])
           /\ cl_stream[i] \in Seq(CL)
           /\ out_stream[i] \in Seq(Data)
           /\ Len(sv_stream[i]) <= StreamDepth
           /\ Len(cl_stream[i]) <= StreamDepth
           /\ Len(out_stream[i]) <= StreamDepth
           /\ DOMAIN pe[i] = DOMAIN Fresh
           /\ pe[i].tb.data \in Data
           /\ {pe[i].min, pe[i].max} \subseteq 0 .. End + 2
       /\ prop \in [PE -> [0 .. CACHE_LINES - 1 -> Data]]
       /\ pkg \in [Lane -> Data]

\* The lanes that src_merge has put into pkg so far.
Merged == {LaneOf(n) : n \in 0 .. merge.item - 1}

(***************************************************************************)
(* Every lane that goes back to gs carries the property of the source in   *)
(* the same lane of the same vector, as it is in this run.  gs joins       *)
(* properties with edges by their place only.                              *)
(***************************************************************************)
LanesMatch ==
    \A l \in Merged :
        pkg[l] = [run |-> run, line |-> source[merge.vector][l]]

\* No burst lies between two sources that follow on each other in a run.
Dense(s) ==
    LET burst(k, l) == s[k][l] \div BURST
    IN \A k \in {j \in DOMAIN s : ~IsEnd(s[j])} :
        /\ \A l \in 2 .. 2 * PE_NUM : burst(k, l) <= burst(k, l - 1) + 1
        /\ k > 1 /\ ~IsEnd(s[k - 1]) => burst(k, 1) <= burst(k - 1, 2 * PE_NUM) + 1

(***************************************************************************)
(* The same where no burst is left out, as in the test of the cache: the   *)
(* window test then never admits a source before its line.                 *)
(***************************************************************************)
DenseLanesMatch == Dense(source) => LanesMatch

(***************************************************************************)
(* Whatever the sources are, no lane carries what was in the window before *)
(* its line came: nothing of an earlier run, none of the dummy lines, and  *)
(* no earlier line.                                                        *)
(***************************************************************************)
NeverStale ==
    \A l \in Merged :
        /\ pkg[l].run = run
        /\ pkg[l].line >= source[merge.vector][l]

(***************************************************************************)
(* Elements that wait for a source, for a line, and for room in a stream   *)
(* never wait for each other: all runs end.                                *)
(***************************************************************************)
EventuallyFinished == <>Finished
=============================================================================
