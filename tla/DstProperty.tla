---------------------------- MODULE DstProperty ----------------------------
(***************************************************************************)
(* dstPropertyProcess, the processing element of gs that adds the property *)
(* of the source of every edge to its destination.  The loop is pipelined: *)
(* a word is read from the memory while the stores of the edges before are *)
(* still on their way to it (the code declares that there is no dependence *)
(* between two passes of the loop).  The element therefore keeps the last  *)
(* L + 1 words it stored and takes a word from there if it can.            *)
(*                                                                         *)
(* Delay is the number of passes a store takes until a read sees it.  It   *)
(* is up to the build; one step of store is one pass of the loop.          *)
(***************************************************************************)
EXTENDS Integers

CONSTANTS
    Words,              \* (MAX_VERTICES_IN_ONE_PARTITION / 2) >> LOG2_PE_NUM
    Prop,               \* properties
    Zero,               \* the property 0
    gatherFunc(_, _),   \* of the algorithm's l2.h
    L,                  \* age of the oldest word kept, 3 in the code
    Delay               \* passes between a store and the first read to see it

Addr == 0 .. Words - 1
Lane == {0, 1}
Word == [Lane -> Prop]
ZeroWord == [lane \in Lane |-> Zero]
Window == 0 .. L
Stage == 1 .. Delay

ASSUME ConstantsAssumption ==
    /\ Words \in Nat \ {0}
    /\ L \in Nat
    /\ Zero \in Prop
    /\ \A x \in Prop, y \in Prop : gatherFunc(x, y) \in Prop

\* What the window is for: no store is under way for longer than it is kept.
ASSUME DelayAssumption == Delay \in Nat \ {0} /\ Delay <= L + 1

VARIABLES
    tmpVPropBuffer, \* the memory
    lastValue,      \* the words stored last, the newest at L
    lastIndex,      \* and their addresses
    store,          \* stores on their way to the memory, the newest at 1
    phase,          \* gather, dump, or idle between two runs
    i,              \* the word the dump comes to
    writeArray,     \* the word handed to processEdgesSlice last
    gathered        \* history: the words if every update were done at once

windowVars == <<lastValue, lastIndex>>
dumpVars == <<i, writeArray>>
vars == <<tmpVPropBuffer, windowVars, store, phase, dumpVars, gathered>>

NoAddr == -1
NoStore == [addr |-> NoAddr, word |-> ZeroWord]

Init ==
    /\ tmpVPropBuffer = [a \in Addr |-> ZeroWord]
    /\ lastValue = [k \in Window |-> ZeroWord]
    /\ lastIndex = [k \in Window |-> 0]
    /\ store = [k \in Stage |-> NoStore]
    /\ phase = "gather"
    /\ i = 0
    /\ writeArray = [addr |-> NoAddr, word |-> ZeroWord]
    /\ gathered = [a \in Addr |-> ZeroWord]

\* Names that start with Bug are mutated forms of the definition that follows.

\* The word the window holds for an address is the oldest one.
BugForwarded(a, word) ==
    \/ \E k \in Window :
          /\ lastIndex[k] = a
          /\ \A j \in Window : j < k => lastIndex[j] # a
          /\ word = lastValue[k]
    \/ /\ \A k \in Window : lastIndex[k] # a
       /\ word = tmpVPropBuffer[a]

\* The newest word of the window for an address, or else what the memory holds.
Forwarded(a, word) ==
    \/ \E k \in Window :
          /\ lastIndex[k] = a
          /\ \A j \in Window : k < j => lastIndex[j] # a
          /\ word = lastValue[k]
    \/ /\ \A k \in Window : lastIndex[k] # a
       /\ word = tmpVPropBuffer[a]

\* One pass of the pipeline: the oldest store reaches the memory.
Pass(newest) ==
    /\ store' = [k \in Stage |-> IF k = 1 THEN newest ELSE store[k - 1]]
    /\ tmpVPropBuffer' =
          [a \in Addr |-> IF store[Delay].addr = a THEN store[Delay].word
                          ELSE tmpVPropBuffer[a]]

\* An edge into a vertex of this element.
Update(a, lane, y) ==
    /\ phase = "gather"
    /\ \E word \in Word :
          /\ Forwarded(a, word)
          /\ LET accumulate == [word EXCEPT ![lane] = gatherFunc(@, y)]
             IN /\ Pass([addr |-> a, word |-> accumulate])
                /\ lastValue' = [k \in Window |->
                                    IF k = L THEN accumulate ELSE lastValue[k + 1]]
                /\ lastIndex' = [k \in Window |->
                                    IF k = L THEN a ELSE lastIndex[k + 1]]
    /\ gathered' = [gathered EXCEPT ![a][lane] = gatherFunc(@, y)]
    /\ UNCHANGED <<phase, dumpVars>>

\* An edge of the padding, or no edge in the stream, or the end of the loop:
\* the pipeline moves on and nothing is stored.
Skip ==
    /\ phase # "idle"
    /\ Pass(NoStore)
    /\ UNCHANGED <<windowVars, phase, dumpVars, gathered>>

\* The flagged token ends the loop; its edge is not looked at.
Finish ==
    /\ phase = "gather"
    /\ phase' = "dump"
    /\ i' = 0
    /\ UNCHANGED <<tmpVPropBuffer, windowVars, store, writeArray, gathered>>

\* The second loop starts when the pipeline of the first one has run empty.
Drained == \A k \in Stage : store[k] = NoStore

BugDump ==
    /\ phase = "dump"
    /\ Drained
    /\ i < Words
    /\ writeArray' = [addr |-> i, word |-> tmpVPropBuffer[i]]
    /\ i' = i + 1
    /\ UNCHANGED <<tmpVPropBuffer, windowVars, store, phase, gathered>>

\* A word is handed out and the word before it is cleared.
Dump ==
    /\ phase = "dump"
    /\ Drained
    /\ i < Words
    /\ writeArray' = [addr |-> i, word |-> tmpVPropBuffer[i]]
    /\ tmpVPropBuffer' = [a \in Addr |-> IF a = i - 1 THEN ZeroWord
                                         ELSE tmpVPropBuffer[a]]
    /\ i' = i + 1
    /\ UNCHANGED <<windowVars, store, phase, gathered>>

\* The last word is cleared after the loop.
ClearLast ==
    /\ phase = "dump"
    /\ i = Words
    /\ tmpVPropBuffer' = [tmpVPropBuffer EXCEPT ![Words - 1] = ZeroWord]
    /\ phase' = "idle"
    /\ UNCHANGED <<windowVars, store, dumpVars, gathered>>

\* The next run starts with an empty window; the memory is left as it is.
Restart ==
    /\ phase = "idle"
    /\ phase' = "gather"
    /\ lastValue' = [k \in Window |-> ZeroWord]
    /\ lastIndex' = [k \in Window |-> 0]
    /\ gathered' = [a \in Addr |-> ZeroWord]
    /\ UNCHANGED <<tmpVPropBuffer, store, dumpVars>>

Next ==
    \/ \E a \in Addr, lane \in Lane, y \in Prop : Update(a, lane, y)
    \/ Skip \/ Finish \/ Dump \/ ClearLast \/ Restart

Spec == Init /\ [][Next]_vars

-----------------------------------------------------------------------------
Entry == [addr : Addr \cup {NoAddr}, word : Word]

(* Types of the variables of dstPropertyProcess; a dump is under way only   *)
(* with an index into the memory.                                           *)
TypeOK ==
    /\ tmpVPropBuffer \in [Addr -> Word]
    /\ lastValue \in [Window -> Word]
    /\ lastIndex \in [Window -> Addr]
    /\ store \in [Stage -> Entry]
    /\ phase \in {"gather", "dump", "idle"}
    /\ i \in 0 .. Words
    /\ writeArray \in Entry
    /\ gathered \in [Addr -> Word]

(* While edges come in, the newest word the window holds for an address is  *)
(* the result of all updates to it.                                         *)
WindowIsCurrent ==
    phase = "gather" =>
        \A k \in Window :
            (\A j \in Window : k < j => lastIndex[j] # lastIndex[k])
                => lastValue[k] = gathered[lastIndex[k]]

(* Every store under way is still in the window, so that no update reads a  *)
(* word from the memory before the last store to it has arrived there.      *)
StoresAreInWindow ==
    phase = "gather" =>
        \A k \in Stage : store[k].addr # NoAddr =>
            \E j \in Window : j >= L + 1 - k /\ lastIndex[j] = store[k].addr

\* Words that the dump has already handed out and cleared.
Cleared(a) ==
    \/ phase = "idle"
    \/ /\ phase = "dump"
       /\ a < i - 1

(* What the stores under way make of the memory is the result of all        *)
(* updates.                                                                 *)
MemoryCatchesUp ==
    \A a \in Addr :
        /\ \A k \in Stage :
              /\ store[k].addr = a
              /\ \A j \in Stage : j < k => store[j].addr # a
              => store[k].word = gathered[a]
        /\ (\A k \in Stage : store[k].addr # a) =>
              tmpVPropBuffer[a] = IF Cleared(a) THEN ZeroWord ELSE gathered[a]

(* Nothing is on its way to the memory while it is handed out.              *)
DumpIsDrained == phase = "idle" \/ (phase = "dump" /\ i > 0) => Drained

(* The invariant of dstPropertyProcess: all of the above.                   *)
IInv ==
    /\ TypeOK
    /\ WindowIsCurrent
    /\ StoresAreInWindow
    /\ MemoryCatchesUp
    /\ DumpIsDrained

Buffer == INSTANCE GatherBuffer WITH next <- i, out <- writeArray

(* dstPropertyProcess is a table that takes one update after the other: the *)
(* words it hands to processEdgesSlice hold every edge of the run once and  *)
(* nothing of the run before, whatever the latency of its memory.           *)
ImplementsGatherBuffer == Buffer!Spec
=============================================================================
