------------------------------ MODULE Requests ------------------------------
(***************************************************************************)
(* What coalesce promises to the engine that reads property lines: a       *)
(* request for each burst that some source of the stream lies in, in the   *)
(* order of the stream, and no two requests in a row for the same burst.   *)
(*                                                                         *)
(* The stream is a sequence of vectors of sources.  Sources are only seen  *)
(* through the number of their burst, the vertex number without the bits   *)
(* that LOG_CACHEUPDATEBURST + LOG2_SIZE_BY_INT shifts out.                *)
(***************************************************************************)
EXTENDS Naturals, Sequences, FiniteSets

VARIABLES
    input,      \* the vectors of bursts of the whole stream
    fed,        \* how many of them were handed over
    cmd         \* the requests made so far

vars == <<input, fed, cmd>>

\* The sources of all vectors are numbered in the order of the stream, from 0.
Width == Len(input[1])
Burst(x) == input[(x \div Width) + 1][(x % Width) + 1]

\* Those of the first k vectors that lie in another burst than the one before.
Touched(k) == {x \in 0 .. k * Width - 1 : x = 0 \/ Burst(x) # Burst(x - 1)}

\* The number of requests that the first k vectors give rise to.
Requested(k) == Cardinality(Touched(k))

Feed ==
    /\ fed < Len(input)
    /\ fed' = fed + 1
    /\ UNCHANGED <<input, cmd>>

\* The next request is for the first burst that was touched and not requested.
Request ==
    /\ \E x \in Touched(fed) :
          /\ Cardinality({y \in Touched(fed) : y <= x}) = Len(cmd) + 1
          /\ cmd' = Append(cmd, Burst(x))
    /\ UNCHANGED <<input, fed>>

Init == fed = 0 /\ cmd = <<>>

Next == Feed \/ Request

Spec == Init /\ [][Next]_vars

\* A request does not wait for a later vector.
Prompt == WF_vars(Request)
=============================================================================
