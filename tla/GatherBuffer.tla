---------------------------- MODULE GatherBuffer ----------------------------
(***************************************************************************)
(* What a processing element of gs promises: a table of properties that    *)
(* takes one update after the other, and is handed out word by word at the *)
(* end of the edges and empty again for the next partition.  A word holds  *)
(* the properties of two vertices.                                         *)
(***************************************************************************)
EXTENDS Integers

CONSTANTS
    Words,              \* words of a processing element's share of a partition
    Prop,               \* properties
    Zero,               \* the property an empty buffer holds
    gatherFunc(_, _)    \* a property and an update to the new property

Addr == 0 .. Words - 1
Lane == {0, 1}
Word == [Lane -> Prop]
ZeroWord == [lane \in Lane |-> Zero]

VARIABLES
    phase,      \* gather, dump, or idle between two runs
    gathered,   \* the table
    next,       \* the word to be handed out next
    out         \* the word handed out last

vars == <<phase, gathered, next, out>>

Init ==
    /\ phase = "gather"
    /\ gathered = [a \in Addr |-> ZeroWord]
    /\ next = 0
    /\ out = [addr |-> -1, word |-> ZeroWord]

\* A property arrives at a vertex.
Gather(a, lane, y) ==
    /\ phase = "gather"
    /\ gathered' = [gathered EXCEPT ![a][lane] = gatherFunc(@, y)]
    /\ UNCHANGED <<phase, next, out>>

\* The last token of the edges has come.
Finish ==
    /\ phase = "gather"
    /\ phase' = "dump"
    /\ next' = 0
    /\ UNCHANGED <<gathered, out>>

HandOut ==
    /\ phase = "dump"
    /\ next < Words
    /\ out' = [addr |-> next, word |-> gathered[next]]
    /\ next' = next + 1
    /\ UNCHANGED <<phase, gathered>>

End ==
    /\ phase = "dump"
    /\ next = Words
    /\ phase' = "idle"
    /\ UNCHANGED <<gathered, next, out>>

\* The next run begins with an empty table.
Restart ==
    /\ phase = "idle"
    /\ phase' = "gather"
    /\ gathered' = [a \in Addr |-> ZeroWord]
    /\ UNCHANGED <<next, out>>

Next ==
    \/ \E a \in Addr, lane \in Lane, y \in Prop : Gather(a, lane, y)
    \/ Finish \/ HandOut \/ End \/ Restart

Spec == Init /\ [][Next]_vars
=============================================================================
