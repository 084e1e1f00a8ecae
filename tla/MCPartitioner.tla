---------------------------- MODULE MCPartitioner ----------------------------
(* One interval with a block of six, one of five and one of four edges.     *)
EXTENDS Partitioner

Edge(s, d) == [src |-> s, dst |-> d]

MCedgeList ==
    [k \in 1 .. 6 |-> Edge(0, k % 3)] \o [k \in 1 .. 5 |-> Edge(1, k % 3)]
        \o [k \in 1 .. 4 |-> Edge(2, k % 3)]
=============================================================================
