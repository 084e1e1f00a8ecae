-------------------------- MODULE CoalesceInvariant --------------------------
(***************************************************************************)
(* Why the mergers of coalesce make the requests of their vectors and no   *)
(* others: the inductive invariant of Coalesce.  It says of each stream    *)
(* which sources the items in it stand for, and of each merger how far it  *)
(* is in the streams around it.                                            *)
(***************************************************************************)
EXTENDS Coalesce, FiniteSets

\* Sources are numbered over all vectors from 0, as in Requests.
Burst(x) == R!Burst(x)

\* A source that a merger in its vector makes a request for.
Starts(x) == x % Lane = 0 \/ Burst(x) # Burst(x - 1)

\* The sources that have an item in the stream behind merger i.
Items(i) == {x \in 0 .. Len(input) * Lane - 1 : x % Lane < i /\ Starts(x)}
Between(i, from, to) == {x \in Items(i) : from <= x /\ x < to}

\* The first source of the vector that x is in, and of the next one.
First(x) == (x \div Lane) * Lane
Behind(x) == First(x) + Lane

\* The item that stands for x in the stream behind merger i.
IsLast(i, x) == \A y \in x + 1 .. First(x) + i - 1 : ~Starts(y)
Item(i) == [x \in Items(i) |-> [data |-> Burst(x), last |-> IsLast(i, x)]]

\* Sequence q has the items of the sources of S, in their order.
Rank(S, x) == Cardinality({y \in S : y <= x})
Holds(q, S, item) ==
    /\ Len(q) = Cardinality(S)
    /\ \A x \in S : q[Rank(S, x)] = item[x]

-----------------------------------------------------------------------------
\* The stream behind merger i, written up to source w and read up to r.
StreamInv(i, r, w) ==
    /\ r <= w /\ w <= fed * Lane
    /\ Holds(inner[i], Between(i, r, w), Item(i))

\* Sources of the merger's own lane: those of the vectors from that of w on.
OwnInv(i, w) ==
    /\ w \div Lane + Len(single[i]) + (IF src2[i].valid THEN 1 ELSE 0) = fed
    /\ \A j \in 1 .. Len(single[i]) :
          single[i][j].data = input[fed - Len(single[i]) + j][i]
    /\ src2[i].valid => src2[i].data = input[w \div Lane + 1][i]

(* A merger that has written what there is below source w, and has read the *)
(* items of the lanes before its own below r: at most one of them is held.  *)
(* In ST_SRC2 it has only its own source of the vector left; in ST_SRC1,    *)
(* if it is inside of a vector, it has one of another lane left.           *)
MergerInv(i, w, r) ==
    /\ w <= r
    /\ OwnInv(i, w)
    /\ IF src1[i].valid
       THEN \E x \in Items(i - 1) :
               /\ Between(i - 1, w, r) = {x}
               /\ src1[i].data = Burst(x) /\ src1[i].last = IsLast(i - 1, x)
       ELSE Between(i - 1, w, r) = {}
    /\ IF state[i] = "ST_SRC2"
       THEN src2[i].valid /\ w % Lane = i - 1 /\ Starts(w)
       ELSE w % Lane = 0 \/ \E y \in w .. First(w) + i - 2 : Starts(y)

\* The filter has made the requests for what is below source r.
FilterInv(r) ==
    /\ Len(cmd) = Cardinality({x \in R!Touched(fed) : x < r})
    /\ r > 0 => cmd # <<>> /\ cmd[Len(cmd)] = Burst(r - 1)

\* Merger i has written up to source w[i], and read the stream of the mergers
\* before it up to r[i]; the filter has read up to r[Lane + 1].
Layout(w, r) ==
    /\ w[1] = fed * Lane
    /\ \A i \in 1 .. Lane : StreamInv(i, r[i + 1], w[i])
    /\ \A i \in Merger : MergerInv(i, w[i], r[i])
    /\ FilterInv(r[Lane + 1])

IInv == TypeOK /\ \E w \in [1 .. Lane -> Nat], r \in [2 .. Lane + 1 -> Nat] : Layout(w, r)
=============================================================================
