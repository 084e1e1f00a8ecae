------------------------------ MODULE MCPipeline ------------------------------
(* Three pipelines, two elements, and three partitions of four bursts each. *)
EXTENDS Pipeline

MCproperty == [v \in Vertex |-> 10 ^ v]

Edge(s, d) == [src |-> s, dst |-> d]

(* Five edges, then three, then none. Edges into the same vertex follow on  *)
(* each other, both elements get edges of the last real vector, and         *)
(* partition 1 is computed before partition 0.                              *)
MCEdges ==
    << <<Edge(0, 8), Edge(0, 11), Edge(1, 11), Edge(2, 14), Edge(2, 11)>>,
       <<Edge(1, 0), Edge(1, 3), Edge(2, 0)>>,
       << >> >>

MCscheduleItem == <<1, 0, 2>>

MCvertexProp == [b \in 0 .. 11 |-> [lane \in PE |-> <<"old", 2 * b + lane>>]]
MCoutDegree == [b \in 0 .. 11 |-> [lane \in PE |-> <<"degree", 2 * b + lane>>]]

(* Values that no sum of MCproperty has.                                    *)
MCOtherBursts ==
    [k \in 2 .. 3 |-> [r \in 1 .. 3 |-> [b \in 1 .. 4 |->
        [lane \in PE |-> 1000 * (1000 * k + 100 * r + 10 * b + lane)]]]]

(* What streamApply combines, whatever an algorithm makes of it.            *)
MCapplyFunc(tProp, source, outDeg) == <<tProp, source, outDeg>>
=============================================================================
