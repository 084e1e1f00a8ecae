----------------------------- MODULE MCSrcCache -----------------------------
(* Streams of sources for TLC.  A window has four lines, a request two.     *)
EXTENDS SrcCache

All(l) == <<l, l, l, l>>
E == All(End)

(* The first stream is longer than a window and every requested burst       *)
(* follows on the one before, as in the test of the cache; its second run   *)
(* begins with a line that is still in the windows.                         *)
MCDense == << <<0, 2, 3, 5>>, All(5), E, All(5), All(5), E >>

(* Bursts that no source lies in are not requested.                         *)
MCSparse == << <<0, 4, 9, 9>>, All(9), E >>

MCInput == {MCDense, MCSparse}
=============================================================================
