------------------------------ MODULE Algorithm ------------------------------
(***************************************************************************)
(* The functions of an algorithm, which the kernels take from the l2.h     *)
(* that fpga_application.h includes.  Properties are numbers of which the  *)
(* highest bit, ActiveBit, marks the vertices a bfs has just reached.      *)
(***************************************************************************)
EXTENDS Integers

CONSTANT ActiveBit      \* VERTEX_ACTIVE_BIT_MASK, 2^31 in the code

ASSUME ActiveBitAssumption == ActiveBit \in Nat \ {0}

Types == {"pr", "wcc", "bfs"}

\* A property without the active bit.
Level(y) == y % ActiveBit

IS_ACTIVE_VERTEX(l2, y) == l2 = "bfs" => (y \div ActiveBit) % 2 = 1

preprocessProperty(l2, y) == IF l2 = "bfs" THEN y + 1 ELSE y

gatherFunc(l2, ori, update) ==
    CASE l2 = "pr" -> ori + update
      [] l2 = "wcc" -> IF update > ori THEN update ELSE ori
      [] l2 = "bfs" -> IF (Level(ori) > Level(update) /\ update # 0) \/ ori = 0
                       THEN update ELSE ori
=============================================================================
