---------------------------- MODULE MCDstProperty ----------------------------
(* Additions of one-bit properties: a lost or a doubled update shows.        *)
EXTENDS DstProperty

MCgatherFunc(x, y) == (x + y) % 2
=============================================================================
