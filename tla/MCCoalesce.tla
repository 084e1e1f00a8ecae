----------------------------- MODULE MCCoalesce -----------------------------
(* Streams of two vectors of three lanes, ascending as a sorted edge list   *)
(* is, followed by the vector of 0xFFFFFFFF and the beginning of another    *)
(* run.  Bursts are numbered from 0; End is that of 0xFFFFFFFF.             *)
EXTENDS Coalesce

End == 9
Ascending(s) == \A k \in 1 .. Len(s) - 1 : s[k] <= s[k + 1]

MCInput ==
    {<< <<s[1], s[2], s[3]>>, <<s[4], s[5], s[6]>>, <<End, End, End>>,
        <<0, 2, 2>> >> : s \in {t \in [1 .. 6 -> 0 .. 3] : Ascending(t)}}
=============================================================================
