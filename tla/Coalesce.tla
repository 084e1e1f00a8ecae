------------------------------ MODULE Coalesce ------------------------------
(***************************************************************************)
(* The coalesce kernel: a chain of mergers, one per lane of a vector but   *)
(* the first, and a filter behind it.  Each merger takes the requests of   *)
(* the lanes before its own and appends that of its own lane, unless the   *)
(* last of them asks for the same burst.  It tells by a flag which request *)
(* of a vector is the last.  All of them run freely, for all vectors and   *)
(* runs, and are never reset.                                              *)
(***************************************************************************)
EXTENDS Naturals, Sequences

CONSTANTS
    Lane,       \* number of lanes of a vector, 16 in the code
    Depth,      \* depth of the streams single and inner_stream
    Input       \* the streams of vectors to look at

CoalesceAssumption ==
    /\ Lane \in Nat \ {0, 1} /\ Depth \in Nat \ {0}
    /\ \A s \in Input :
          s \in Seq(Seq(Nat)) \ {<<>>} /\ \A k \in DOMAIN s : Len(s[k]) = Lane

ASSUME CoalesceAssumption

Merger == 2 .. Lane             \* a merger has the number of its second input

VARIABLES
    input,      \* the bursts of the vectors of the stream
    fed,        \* vectors split into their lanes
    single,     \* stream of every lane
    inner,      \* stream behind every merger; inner[1] is that of lane 1
    src1, src2, \* registers of the mergers
    state,      \* ST_SRC1 or ST_SRC2
    cmd         \* what filter_same_item let pass, from the first vector on

vars == <<input, fed, single, inner, src1, src2, state, cmd>>

Invalid == [valid |-> FALSE, data |-> 0, last |-> FALSE]
Valid(x) == [valid |-> TRUE, data |-> x.data, last |-> x.last]

Init ==
    /\ input \in Input
    /\ fed = 0
    /\ single = [i \in Merger |-> <<>>]
    /\ inner = [i \in 1 .. Lane |-> <<>>]
    /\ src1 = [i \in Merger |-> Invalid]
    /\ src2 = [i \in Merger |-> Invalid]
    /\ state = [i \in Merger |-> "ST_SRC1"]
    /\ cmd = <<>>

\* src_to_address: a vector leaves when all streams of the lanes have room.
SrcToAddress ==
    /\ fed < Len(input)
    /\ Len(inner[1]) < Depth /\ \A i \in Merger : Len(single[i]) < Depth
    /\ fed' = fed + 1
    /\ LET Item(i) == [data |-> input[fed + 1][i], last |-> TRUE]
       IN /\ single' = [i \in Merger |-> Append(single[i], Item(i))]
          /\ inner' = [inner EXCEPT ![1] = Append(@, Item(1))]
    /\ UNCHANGED <<input, src1, src2, state, cmd>>

(***************************************************************************)
(* One iteration of merge_same_item reads into the registers that are free *)
(* and then writes at most once.  Each of these is a step, because the     *)
(* write may be held up while its stream is full.                          *)
(***************************************************************************)
ReadSrc1(i) ==
    /\ ~src1[i].valid /\ inner[i - 1] # <<>>
    /\ src1' = [src1 EXCEPT ![i] = Valid(Head(inner[i - 1]))]
    /\ inner' = [inner EXCEPT ![i - 1] = Tail(@)]
    /\ UNCHANGED <<input, fed, single, src2, state, cmd>>

ReadSrc2(i) ==
    /\ ~src2[i].valid /\ single[i] # <<>>
    /\ src2' = [src2 EXCEPT ![i] = Valid(Head(single[i]))]
    /\ single' = [single EXCEPT ![i] = Tail(@)]
    /\ UNCHANGED <<input, fed, inner, src1, state, cmd>>

\* Names that start with Bug are mutated forms of the definition that follows.

\* Nothing stops a writer whose stream is full.
BugWrite(i, x, last) ==
    inner' = [inner EXCEPT ![i] = Append(@, [data |-> x.data, last |-> last])]

Write(i, x, last) ==
    /\ Len(inner[i]) < Depth
    /\ inner' = [inner EXCEPT ![i] = Append(@, [data |-> x.data, last |-> last])]

\* The lane's own request is compared with, and follows, any request.
BugWriteSrc1(i) ==
    /\ state[i] = "ST_SRC1" /\ src1[i].valid /\ src2[i].valid
    /\ LET same == src1[i].data = src2[i].data
       IN /\ Write(i, src1[i], same)
          /\ state' = [state EXCEPT ![i] = IF same THEN "ST_SRC1" ELSE "ST_SRC2"]
          /\ src2' = [src2 EXCEPT ![i] = IF same THEN Invalid ELSE @]
    /\ src1' = [src1 EXCEPT ![i] = Invalid]
    /\ UNCHANGED <<input, fed, single, cmd>>

WriteSrc1(i) ==
    /\ state[i] = "ST_SRC1" /\ src1[i].valid /\ src2[i].valid
    /\ LET same == src1[i].last /\ src1[i].data = src2[i].data
           own == src1[i].last /\ ~same
       IN /\ Write(i, src1[i], same)
          /\ state' = [state EXCEPT ![i] = IF own THEN "ST_SRC2" ELSE "ST_SRC1"]
          /\ src2' = [src2 EXCEPT ![i] = IF same THEN Invalid ELSE @]
    /\ src1' = [src1 EXCEPT ![i] = Invalid]
    /\ UNCHANGED <<input, fed, single, cmd>>

WriteSrc2(i) ==
    /\ state[i] = "ST_SRC2" /\ src2[i].valid
    /\ Write(i, src2[i], TRUE)
    /\ state' = [state EXCEPT ![i] = "ST_SRC1"]
    /\ src2' = [src2 EXCEPT ![i] = Invalid]
    /\ UNCHANGED <<input, fed, single, src1, cmd>>

MergeSameItem(i) == ReadSrc1(i) \/ ReadSrc2(i) \/ WriteSrc1(i) \/ WriteSrc2(i)

\* Without the state ST_INIT: the first item is compared with 0.
BugFilterSameItem ==
    /\ inner[Lane] # <<>>
    /\ LET curr == Head(inner[Lane]).data
           last_item == IF cmd = <<>> THEN 0 ELSE cmd[Len(cmd)]
       IN cmd' = IF curr = last_item THEN cmd ELSE Append(cmd, curr)
    /\ inner' = [inner EXCEPT ![Lane] = Tail(@)]
    /\ UNCHANGED <<input, fed, single, src1, src2, state>>

(***************************************************************************)
(* filter_same_item keeps the item it passed on last, across vectors and   *)
(* runs: last_item is the end of cmd.  The stream to the read engine takes *)
(* what it is given sooner or later.                                       *)
(***************************************************************************)
FilterSameItem ==
    /\ inner[Lane] # <<>>
    /\ LET curr == Head(inner[Lane]).data
       IN cmd' = IF cmd # <<>> /\ curr = cmd[Len(cmd)] THEN cmd
                 ELSE Append(cmd, curr)
    /\ inner' = [inner EXCEPT ![Lane] = Tail(@)]
    /\ UNCHANGED <<input, fed, single, src1, src2, state>>

Idle ==
    /\ fed = Len(input)
    /\ \A i \in 1 .. Lane : inner[i] = <<>>
    /\ \A i \in Merger : single[i] = <<>> /\ ~src1[i].valid /\ ~src2[i].valid

\* Nothing is left to do: the kernels wait for ever.
Waiting == Idle /\ UNCHANGED vars

Next ==
    \/ SrcToAddress
    \/ \E i \in Merger : MergeSameItem(i)
    \/ FilterSameItem
    \/ Waiting

Spec == Init /\ [][Next]_vars

Fairness ==
    /\ WF_vars(SrcToAddress) /\ WF_vars(FilterSameItem)
    /\ \A i \in Merger : WF_vars(MergeSameItem(i))

FairSpec == Spec /\ Fairness

-----------------------------------------------------------------------------
\* Types, and the depth of the streams between the kernels.
TypeOK ==
    LET Item == [data : Nat, last : BOOLEAN]
        Register == [valid : BOOLEAN, data : Nat, last : BOOLEAN]
    IN /\ input \in Input
       /\ fed \in 0 .. Len(input)
       /\ single \in [Merger -> Seq(Item)]
       /\ inner \in [1 .. Lane -> Seq(Item)]
       /\ \A i \in Merger : Len(single[i]) <= Depth
       /\ \A i \in 1 .. Lane : Len(inner[i]) <= Depth
       /\ src1 \in [Merger -> Register] /\ src2 \in [Merger -> Register]
       /\ state \in [Merger -> {"ST_SRC1", "ST_SRC2"}]
       /\ cmd \in Seq(Nat)

R == INSTANCE Requests

(***************************************************************************)
(* The chain of mergers and the filter request each burst that the vectors *)
(* touch, in order and without a repetition.                               *)
(***************************************************************************)
ImplementsRequests == R!Spec

(***************************************************************************)
(* Each request is made without waiting for later vectors: were one held   *)
(* back until the next vector comes, src_cache_access and coalesce could   *)
(* wait for each other.                                                    *)
(***************************************************************************)
NoRequestHeldBack == R!Prompt
=============================================================================
