-------------------------- MODULE SrcCacheInvariant --------------------------
(***************************************************************************)
(* Why an element of the source cache never takes another line for that of *)
(* its source: the inductive invariant of SrcCache.  Sources and lines     *)
(* come to an element by different ways.  It relates both to the place     *)
(* they have in the stream of the run, and the window to the lines that    *)
(* came so far.                                                            *)
(***************************************************************************)
EXTENDS SrcCache, Functions

IsSeq(s) == s \in Seq(Range(s))

(* The run that vector k belongs to; the vector that ends a run is part of  *)
(* it.                                                                     *)
RunOf(k) == Cardinality({j \in 1 .. k - 1 : IsEnd(source[j])}) + 1

-----------------------------------------------------------------------------
(* Requests.  Sources are numbered over all vectors, as in Requests.        *)

VectorOf(x) == (x \div (2 * PE_NUM)) + 1
LineOf(x) == source[VectorOf(x)][(x % (2 * PE_NUM)) + 1]

Touched == R!Touched(Len(source))

\* The number of the request that source x gives rise to.
Rank(x) == Cardinality({y \in Touched : y <= x})

\* Requests that the runs up to r give rise to.
Upto(r) == Cardinality({x \in Touched : RunOf(VectorOf(x)) <= r})

StreamInv ==
    /\ source \in Input
    /\ input = [k \in DOMAIN source |-> [l \in Lane |-> source[k][l] \div BURST]]

FeedInv ==
    /\ StreamInv
    /\ run \in 1 .. Len(source)
    /\ fed \in 0 .. Len(source) /\ fed2 \in {fed - 1, fed} \cap Nat
    /\ RunOf(fed + 1) \in {run, run + 1}
    /\ RunOf(fed + 1) = run => fed < Len(source)
    /\ fed > 0 => RunOf(fed) <= run

RequestInv ==
    /\ cmd \in Seq(0 .. End \div BURST)
    /\ \A c \in 1 .. Len(cmd) :
          \E x \in R!Touched(fed) : Rank(x) = c /\ cmd[c] = R!Burst(x)
    /\ taken \in Upto(run - 1) .. Len(cmd) /\ Len(cmd) <= Upto(run)
    /\ inner_idx \in 0 .. BURST - 1 /\ (inner_idx > 0 => taken < Len(cmd))
    /\ taken = Upto(run) => inner_idx = 0
    /\ taken = Upto(run) - 1 => inner_idx < 2

-----------------------------------------------------------------------------
(* Lines.  Those of request c have the numbers from c * BURST on.           *)

LineAt(q) == CacheLine(q \div BURST, q % BURST)
Addr(q) == LineAt(q).addr

\* The numbers of the first line of the run, and of the line behind the last.
First == (Upto(run - 1) + 1) * BURST
Stop == Upto(run) * BURST + 2

\* The number of the line that the read engine sends next.
Sent == IF taken = Upto(run) THEN Stop ELSE (taken + 1) * BURST + inner_idx

\* What comes to element i, where the elements have read up to line next.
Above(i, next) == IF i = 0 THEN Sent ELSE next[i - 1]

Chain(next) ==
    \A i \in PE :
        /\ next[i] <= Above(i, next)
        /\ IsSeq(cl_stream[i])
        /\ Len(cl_stream[i]) = Above(i, next) - next[i]
        /\ \A j \in 1 .. Len(cl_stream[i]) : cl_stream[i][j] = LineAt(next[i] + (j - 1))

-----------------------------------------------------------------------------
(* Sources of an element.  Those of vector k have the numbers 2 * k and     *)
(* 2 * k + 1.                                                              *)

SourceAt(i, t) == source[t \div 2][LaneOf((t % 2) * PE_NUM + i)]
LastAt(t) == t % 2 = 1 /\ IsEnd(source[(t \div 2) + 1])

\* Number t is that of a source of the run.
InRun(t) ==
    /\ t \div 2 \in DOMAIN source
    /\ RunOf(t \div 2) = run /\ ~IsEnd(source[t \div 2])

\* The source of element i that src_dispatch, or src_merge, comes to next.
Halves(i, n) == IF n <= i THEN 0 ELSE IF n <= PE_NUM + i THEN 1 ELSE 2
Items(place, i) ==
    IF RunOf(place.vector) = run THEN 2 * place.vector + Halves(i, place.item)
    ELSE 2 * (place.vector - 1)

\* A place is in a vector of the run, or behind the vector that ends it.
PlaceInv(place) ==
    /\ place = [vector |-> place.vector, item |-> place.item]
    /\ place.vector \in 1 .. fed2 + 1
    /\ RunOf(place.vector) \in {run, run + 1}
    /\ RunOf(place.vector) = run + 1 =>
          place.vector = fed + 1 /\ fed2 = fed /\ place.item = 0
    /\ place.vector <= Len(source) => ~IsEnd(source[place.vector])

PlacesInv ==
    /\ PlaceInv(dispatch) /\ PlaceInv(merge)
    /\ dispatch.item \in 0 .. 2 * PE_NUM - 1 /\ merge.item \in 0 .. 2 * PE_NUM
    /\ dispatch.item > 0 => dispatch.vector < fed2

\* The source that element i takes next.
NextItem(i) == Items(dispatch, i) - Len(sv_stream[i])

\* No source of the run is left for the element.
Exhausted(i) ==
    sv_stream[i] = <<>> /\ ~pe[i].sv_ready /\ LastAt(NextItem(i) - 1)

\* A property that may be served for a source in the given line.
Serving(d, line) ==
    /\ d \in Data
    /\ d.run = run /\ d.line >= line
    /\ Dense(source) => d.line = line

ItemsInv(i) ==
    /\ IsSeq(sv_stream[i]) /\ IsSeq(out_stream[i])
    /\ Items(merge, i) + Len(out_stream[i]) + (IF pe[i].sv_ready THEN 1 ELSE 0) = NextItem(i)
    /\ \A j \in 1 .. Len(sv_stream[i]) :
          sv_stream[i][j] = [src |-> SourceAt(i, NextItem(i) + (j - 1)),
                             last |-> LastAt(NextItem(i) + (j - 1))]
    /\ \A j \in 1 .. Len(out_stream[i]) :
          Serving(out_stream[i][j], SourceAt(i, Items(merge, i) + (j - 1)))

\* The registers of the source the element has, or had last.
SourceInv(i) ==
    /\ pe[i].sv_ready =>
          /\ pe[i].src = SourceAt(i, NextItem(i) - 1)
          /\ pe[i].required_min = pe[i].src
          /\ pe[i].frp_flag = LastAt(NextItem(i) - 1)
    /\ \/ pe[i].required_min = 0
       \/ /\ InRun(NextItem(i) - 1)
          /\ pe[i].required_min = SourceAt(i, NextItem(i) - 1)

PkgInv ==
    \A n \in 0 .. merge.item - 1 :
        Serving(pkg[LaneOf(n)], source[merge.vector][LaneOf(n)])

-----------------------------------------------------------------------------
(* The window of element i when it has stored the lines below number s.     *)
(* A line that follows on the one before is only stored when it is within   *)
(* a window of the source; and the place of a stored line holds that line   *)
(* or one that was stored later.                                           *)
WindowInv(i, s) ==
    /\ pe[i].max = IF s = First THEN 0 ELSE Addr(s - 1) + 1
    /\ pe[i].need_update => pe[i].max < pe[i].required_min + CACHE_LINES
    /\ \A q \in First + 1 .. s - 1 :
          Addr(q) = Addr(q - 1) + 1 => Addr(q) < pe[i].required_min + CACHE_LINES
    /\ \A q \in First .. s - 1 :
          \E p \in q .. s - 1 :
              /\ Tag(Addr(p)) = Tag(Addr(q))
              /\ prop[i][Tag(Addr(q))] = LineAt(p).data

(* An element that has read line next - 1 last.                             *)
Active(i, next) ==
    /\ pe[i].tb_valid =>
          /\ next > First
          /\ pe[i].tb = [addr |-> Addr(next - 1), data |-> LineAt(next - 1).data]
    /\ pe[i].end_of_ca <=> next = Stop
    /\ pe[i].end_of_sv => Exhausted(i) /\ ~pe[i].end_of_ca
    /\ ~pe[i].end_of_sv => WindowInv(i, IF pe[i].tb_valid THEN next - 1 ELSE next)
    /\ SourceInv(i)

\* An element that has ended the run.
Idle(i, next) ==
    /\ next = Stop /\ Exhausted(i)
    /\ pe[i] \in {Fresh, [Fresh EXCEPT !.need_update = TRUE]}

Registers ==
    [sv_ready : BOOLEAN, src : Line \cup {0}, frp_flag : BOOLEAN, required_min : Line \cup {0},
     min : 0 .. End + 2, max : 0 .. End + 2, need_update : BOOLEAN,
     tb_valid : BOOLEAN, tb : [addr : 0 .. End + 1, data : Data],
     end_of_sv : BOOLEAN, end_of_ca : BOOLEAN]

ElementTypes ==
    /\ pe \in [PE -> Registers]
    /\ prop \in [PE -> [0 .. CACHE_LINES - 1 -> Data]]
    /\ sv_stream = [i \in PE |-> sv_stream[i]]
    /\ cl_stream = [i \in PE |-> cl_stream[i]]
    /\ out_stream = [i \in PE |-> out_stream[i]]
    /\ pkg \in [Lane -> Data]
    /\ \A i \in PE :
          /\ Len(sv_stream[i]) <= StreamDepth
          /\ Len(cl_stream[i]) <= StreamDepth
          /\ Len(out_stream[i]) <= StreamDepth

ElementsInv ==
    \E next \in [PE -> First .. Sent] :
        /\ Chain(next)
        /\ \A i \in PE : Active(i, next[i]) \/ Idle(i, next[i])

IInv ==
    /\ FeedInv /\ RequestInv
    /\ PlacesInv /\ PkgInv
    /\ \A i \in PE : ItemsInv(i)
    /\ ElementTypes /\ ElementsInv
=============================================================================
