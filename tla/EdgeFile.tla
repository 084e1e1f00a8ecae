------------------------------- MODULE EdgeFile -------------------------------
(***************************************************************************)
(* The files that saveFile of the offline partitioner writes, of which the *)
(* host loads one for every pipeline and gs reads vectors of edges.        *)
(***************************************************************************)
EXTENDS Integers, Sequences, SequencesExt

Marker == -2        \* destination of a padding edge, bit 31 is set

\* Names that start with Bug are mutated forms of the definition that follows.

\* The file is filled up to whole vectors and no more.
BugPadded(edges, align) ==
    LET a == IF edges = <<>> THEN 0 ELSE Last(edges).src
        num == (align - (Len(edges) % align)) % align
    IN edges \o [k \in 1 .. num |-> [src |-> a, dst |-> Marker]]

\* saveFile fills up the last vector, and adds one more.
Padded(edges, align) ==
    LET a == IF edges = <<>> THEN 0 ELSE Last(edges).src
        num == (align - (Len(edges) % align)) + align
    IN edges \o [k \in 1 .. num |-> [src |-> a, dst |-> Marker]]
=============================================================================
