---------------------------- MODULE MCDeployment ----------------------------
(* A graph of three partitions of two vertices each.                        *)
EXTENDS Deployment

Edge(s, d) == [src |-> s, dst |-> d]

(* One interval is balanced at once, the others after many rounds.  Some     *)
(* edges are there twice, and the last sublist has two edges more.          *)
MCedgeList ==
    << Edge(0, 0), Edge(1, 2), Edge(0, 1), Edge(2, 5), Edge(2, 5), Edge(4, 3), Edge(1, 3),
       Edge(2, 4), Edge(1, 2), Edge(2, 4), Edge(1, 1), Edge(0, 1), Edge(0, 0), Edge(0, 1) >>

(* A node with the longest partition has less work than the other one.      *)
MCexe_time == [q \in Partition |-> q + 1]

(* One partition is longer than twice the average of three nodes.           *)
MCsplit_time == [q \in Partition |-> IF q = 0 THEN 10 ELSE 1]
=============================================================================
