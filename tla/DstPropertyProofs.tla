-------------------------- MODULE DstPropertyProofs --------------------------
(***************************************************************************)
(* dstPropertyProcess is correct for every number of words, every kind of  *)
(* property and every latency of the memory up to the length of the window.*)
(***************************************************************************)
EXTENDS DstProperty, TLAPS

USE ConstantsAssumption DEF Addr, Lane, Word, Window, Stage

(***************************************************************************)
(* The word an update starts from is the result of all updates before it:  *)
(* it is in the window if any store to it is still under way, and in the   *)
(* memory otherwise.                                                       *)
(***************************************************************************)
LEMMA ForwardedIsCurrent ==
    ASSUME IInv, phase = "gather", NEW a \in Addr, NEW word, Forwarded(a, word)
    PROVE  word = gathered[a]
<1>1. CASE \E k \in Window :
              /\ lastIndex[k] = a
              /\ \A j \in Window : k < j => lastIndex[j] # a
              /\ word = lastValue[k]
    <2>1. PICK k \in Window :
              /\ lastIndex[k] = a
              /\ \A j \in Window : k < j => lastIndex[j] # a
              /\ word = lastValue[k]
        BY <1>1
    <2>2. QED BY <2>1, phase = "gather" DEF IInv, WindowIsCurrent
<1>2. CASE /\ \A k \in Window : lastIndex[k] # a
           /\ word = tmpVPropBuffer[a]
    <2>1. \A k \in Stage : store[k].addr # a
        BY <1>2, phase = "gather" DEF IInv, StoresAreInWindow, NoAddr
    <2>2. ~Cleared(a)
        BY phase = "gather" DEF Cleared
    <2>3. QED BY <1>2, <2>1, <2>2 DEF IInv, MemoryCatchesUp
<1>3. QED BY <1>1, <1>2 DEF Forwarded

(***************************************************************************)
(* What a pass of the pipeline does to the types.                          *)
(***************************************************************************)
LEMMA NoStoreType == NoStore \in Entry /\ ZeroWord \in Word
BY DEF NoStore, Entry, NoAddr, ZeroWord

LEMMA PassType ==
    ASSUME TypeOK, NEW e \in Entry, Pass(e)
    PROVE  store' \in [Stage -> Entry] /\ tmpVPropBuffer' \in [Addr -> Word]
<1>1. store' \in [Stage -> Entry]
    BY DelayAssumption DEF TypeOK, Pass
<1>2. \A k \in Stage : store[k] \in Entry
    BY DEF TypeOK
<1>3. store[Delay].word \in Word
    BY <1>2, DelayAssumption DEF Entry
<1>4. tmpVPropBuffer' \in [Addr -> Word]
    BY <1>3 DEF TypeOK, Pass
<1>5. QED BY <1>1, <1>4

(***************************************************************************)
(* A pass with no new store leaves what the stores make of the memory.     *)
(***************************************************************************)
LEMMA PassKeepsMemory ==
    ASSUME TypeOK, MemoryCatchesUp, Pass(NoStore),
           UNCHANGED <<gathered, phase, i>>, DumpIsDrained
    PROVE  MemoryCatchesUp'
<1> SUFFICES ASSUME NEW a \in Addr
             PROVE  /\ \A k \in Stage :
                          /\ store'[k].addr = a
                          /\ \A j \in Stage : j < k => store'[j].addr # a
                          => store'[k].word = gathered[a]
                    /\ (\A k \in Stage : store'[k].addr # a) =>
                          tmpVPropBuffer'[a] =
                              IF Cleared(a) THEN ZeroWord ELSE gathered[a]
    BY DEF MemoryCatchesUp, Cleared
<1>0. store'[1].addr # a
    BY DelayAssumption DEF Pass, NoStore, NoAddr
<1>1. ASSUME NEW k \in Stage, store'[k].addr = a,
             \A j \in Stage : j < k => store'[j].addr # a
      PROVE  store'[k].word = gathered[a]
    <2>1. k # 1 /\ k - 1 \in Stage /\ store'[k] = store[k - 1]
        BY <1>0, <1>1, DelayAssumption DEF Pass
    <2>2. ASSUME NEW j \in Stage, j < k - 1
          PROVE  store[j].addr # a
        <3>1. j + 1 \in Stage /\ j + 1 < k /\ store'[j + 1] = store[j]
            BY <2>2, DelayAssumption DEF Pass
        <3>2. QED BY <3>1, <1>1
    <2>3. QED BY <1>1, <2>1, <2>2 DEF MemoryCatchesUp
<1>2. ASSUME \A k \in Stage : store'[k].addr # a
      PROVE  tmpVPropBuffer'[a] = IF Cleared(a) THEN ZeroWord ELSE gathered[a]
    <2>1. ASSUME NEW j \in Stage, j < Delay
          PROVE  store[j].addr # a
        <3>1. j + 1 \in Stage /\ store'[j + 1] = store[j]
            BY <2>1, DelayAssumption DEF Pass
        <3>2. QED BY <3>1, <1>2
    <2>2. CASE store[Delay].addr = a
        <3>1. Delay \in Stage /\ tmpVPropBuffer'[a] = store[Delay].word
            BY <2>2, DelayAssumption DEF Pass
        <3>2. store[Delay].word = gathered[a]
            BY <2>1, <2>2, <3>1 DEF MemoryCatchesUp
        <3>3. ~Cleared(a)
            BY <2>2, <3>1, DelayAssumption
               DEF DumpIsDrained, Drained, Cleared, NoStore, NoAddr, TypeOK
        <3>4. QED BY <3>1, <3>2, <3>3
    <2>3. CASE store[Delay].addr # a
        <3>1. \A j \in Stage : store[j].addr # a
            BY <2>1, <2>3, DelayAssumption
        <3>2. tmpVPropBuffer'[a] = tmpVPropBuffer[a]
            BY <2>3 DEF Pass
        <3>3. QED BY <3>1, <3>2 DEF MemoryCatchesUp
    <2>4. QED BY <2>2, <2>3
<1>3. QED BY <1>1, <1>2

(***************************************************************************)
(* The invariant holds at first.                                           *)
(***************************************************************************)
LEMMA InitInv == Init => IInv
<1> SUFFICES ASSUME Init PROVE IInv
    OBVIOUS
<1> USE NoStoreType DEF Init
<1>1. TypeOK
    BY DEF TypeOK, Entry, NoAddr
<1>2. WindowIsCurrent
    BY DEF WindowIsCurrent
<1>3. StoresAreInWindow
    BY DEF StoresAreInWindow, NoStore
<1>4. MemoryCatchesUp
    BY DEF MemoryCatchesUp, NoStore, NoAddr, Cleared
<1>5. DumpIsDrained
    BY DEF DumpIsDrained
<1>6. QED BY <1>1, <1>2, <1>3, <1>4, <1>5 DEF IInv

(***************************************************************************)
(* An update keeps it: this is where the window has to be long enough.     *)
(***************************************************************************)
LEMMA UpdateInv ==
    ASSUME IInv, NEW a \in Addr, NEW lane \in Lane, NEW y \in Prop,
           Update(a, lane, y)
    PROVE  IInv'
<1> DEFINE newest == [gathered[a] EXCEPT ![lane] = gatherFunc(@, y)]
<1>1. /\ phase = "gather" /\ phase' = "gather"
      /\ Pass([addr |-> a, word |-> newest])
      /\ lastValue' = [k \in Window |-> IF k = L THEN newest ELSE lastValue[k + 1]]
      /\ lastIndex' = [k \in Window |-> IF k = L THEN a ELSE lastIndex[k + 1]]
      /\ gathered' = [gathered EXCEPT ![a] = newest]
      /\ UNCHANGED dumpVars
    BY ForwardedIsCurrent DEF Update, IInv, TypeOK
<1>2. newest \in Word
    BY DEF IInv, TypeOK
<1> DEFINE entry == [addr |-> a, word |-> newest]
<1> HIDE DEF newest
<1>3. entry \in Entry
    BY <1>2 DEF Entry
<1>4. TypeOK'
    BY <1>1, <1>2, <1>3, PassType DEF IInv, TypeOK, dumpVars
<1>5. WindowIsCurrent'
    <2> SUFFICES ASSUME NEW k \in Window,
                        \A j \in Window : k < j => lastIndex'[j] # lastIndex'[k]
                 PROVE  lastValue'[k] = gathered'[lastIndex'[k]]
        BY DEF WindowIsCurrent
    <2>1. CASE k = L
        BY <2>1, <1>1 DEF IInv, TypeOK
    <2>2. CASE k # L
        <3>1. k + 1 \in Window /\ lastIndex'[k] = lastIndex[k + 1]
              /\ lastValue'[k] = lastValue[k + 1]
            BY <2>2, <1>1
        <3>2. lastIndex[k + 1] # a
            BY <2>2, <3>1, <1>1
        <3>3. ASSUME NEW j \in Window, k + 1 < j
              PROVE  lastIndex[j] # lastIndex[k + 1]
            <4>1. j - 1 \in Window /\ k < j - 1 /\ lastIndex'[j - 1] = lastIndex[j]
                BY <3>3, <1>1
            <4>2. QED BY <4>1, <3>1
        <3>4. lastValue[k + 1] = gathered[lastIndex[k + 1]]
            BY <3>1, <3>3, <1>1 DEF IInv, WindowIsCurrent
        <3>5. QED BY <3>1, <3>2, <3>4, <1>1 DEF IInv, TypeOK
    <2>3. QED BY <2>1, <2>2
<1>6. StoresAreInWindow'
    <2> SUFFICES ASSUME NEW k \in Stage, store'[k].addr # NoAddr
                 PROVE  \E j \in Window :
                            j >= L + 1 - k /\ lastIndex'[j] = store'[k].addr
        BY DEF StoresAreInWindow
    <2>1. CASE k = 1
        <3>1. store'[1].addr = a
            BY <1>1, DelayAssumption DEF Pass
        <3>2. L \in Window /\ L >= L + 1 - k /\ lastIndex'[L] = a
            BY <2>1, <1>1
        <3>3. QED BY <2>1, <3>1, <3>2
    <2>2. CASE k # 1
        <3>1. k - 1 \in Stage /\ store'[k] = store[k - 1]
            BY <2>2, <1>1, DelayAssumption DEF Pass
        <3>2. PICK j \in Window :
                  j >= L + 1 - (k - 1) /\ lastIndex[j] = store[k - 1].addr
            BY <3>1, <1>1 DEF IInv, StoresAreInWindow
        <3>3. j - 1 \in Window /\ j - 1 >= L + 1 - k
              /\ lastIndex'[j - 1] = store'[k].addr
            BY <3>1, <3>2, <1>1, DelayAssumption
        <3>4. QED BY <3>3
    <2>3. QED BY <2>1, <2>2
<1>7. MemoryCatchesUp'
    <2> SUFFICES ASSUME NEW b \in Addr
                 PROVE  /\ \A k \in Stage :
                              /\ store'[k].addr = b
                              /\ \A j \in Stage : j < k => store'[j].addr # b
                              => store'[k].word = gathered'[b]
                        /\ (\A k \in Stage : store'[k].addr # b) =>
                              tmpVPropBuffer'[b] =
                                  IF Cleared(b)' THEN ZeroWord ELSE gathered'[b]
        BY DEF MemoryCatchesUp
    <2>0. 1 \in Stage /\ store'[1] = entry
        BY <1>1, DelayAssumption DEF Pass
    <2>1. CASE b = a
        <3>1. ASSUME NEW k \in Stage,
                     \A j \in Stage : j < k => store'[j].addr # b
              PROVE  k = 1
            BY <3>1, <2>0, <2>1
        <3>2. store'[1].word = gathered'[b]
            BY <2>0, <2>1, <1>1 DEF IInv, TypeOK
        <3>3. QED BY <2>0, <2>1, <3>1, <3>2
    <2>2. CASE b # a
        <3>1. gathered'[b] = gathered[b] /\ ~Cleared(b) /\ ~Cleared(b)'
            BY <2>2, <1>1 DEF Cleared, IInv, TypeOK
        <3>2. ASSUME NEW k \in Stage, store'[k].addr = b,
                     \A j \in Stage : j < k => store'[j].addr # b
              PROVE  store'[k].word = gathered'[b]
            <4>1. k # 1 /\ k - 1 \in Stage /\ store'[k] = store[k - 1]
                BY <3>2, <2>0, <2>2, <1>1, DelayAssumption DEF Pass
            <4>2. ASSUME NEW j \in Stage, j < k - 1
                  PROVE  store[j].addr # b
                <5>1. j + 1 \in Stage /\ j + 1 < k /\ store'[j + 1] = store[j]
                    BY <4>2, <1>1, DelayAssumption DEF Pass
                <5>2. QED BY <5>1, <3>2
            <4>3. QED BY <3>1, <3>2, <4>1, <4>2 DEF IInv, MemoryCatchesUp
        <3>3. ASSUME \A k \in Stage : store'[k].addr # b
              PROVE  tmpVPropBuffer'[b] = gathered'[b]
            <4>1. ASSUME NEW j \in Stage, j < Delay
                  PROVE  store[j].addr # b
                <5>1. j + 1 \in Stage /\ store'[j + 1] = store[j]
                    BY <4>1, <1>1, DelayAssumption DEF Pass
                <5>2. QED BY <5>1, <3>3
            <4>2. CASE store[Delay].addr = b
                <5>1. Delay \in Stage /\ tmpVPropBuffer'[b] = store[Delay].word
                    BY <4>2, <1>1, DelayAssumption DEF Pass
                <5>2. QED BY <3>1, <4>1, <4>2, <5>1 DEF IInv, MemoryCatchesUp
            <4>3. CASE store[Delay].addr # b
                <5>1. \A j \in Stage : store[j].addr # b
                    BY <4>1, <4>3, DelayAssumption
                <5>2. tmpVPropBuffer'[b] = tmpVPropBuffer[b]
                    BY <4>3, <1>1 DEF Pass
                <5>3. QED BY <3>1, <5>1, <5>2 DEF IInv, MemoryCatchesUp
            <4>4. QED BY <4>2, <4>3
        <3>4. QED BY <3>1, <3>2, <3>3
    <2>3. QED BY <2>1, <2>2
<1>8. DumpIsDrained'
    BY <1>1 DEF DumpIsDrained
<1>9. QED BY <1>4, <1>5, <1>6, <1>7, <1>8 DEF IInv

(***************************************************************************)
(* So do the other steps.                                                  *)
(***************************************************************************)
LEMMA SkipInv == IInv /\ Skip => IInv'
<1> SUFFICES ASSUME IInv, Skip PROVE IInv'
    OBVIOUS
<1>1. /\ Pass(NoStore)
      /\ UNCHANGED <<windowVars, phase, dumpVars, gathered>>
    BY DEF Skip
<1>2. TypeOK'
    BY <1>1, PassType, NoStoreType DEF IInv, TypeOK, windowVars, dumpVars
<1>3. WindowIsCurrent'
    BY <1>1 DEF IInv, WindowIsCurrent, windowVars
<1>4. StoresAreInWindow'
    <2> SUFFICES ASSUME phase = "gather", NEW k \in Stage, store'[k].addr # NoAddr
                 PROVE  \E j \in Window :
                            j >= L + 1 - k /\ lastIndex[j] = store'[k].addr
        BY <1>1 DEF StoresAreInWindow, windowVars
    <2>1. k - 1 \in Stage /\ store'[k] = store[k - 1]
        BY <1>1, DelayAssumption DEF Pass, NoStore
    <2>2. PICK j \in Window :
              j >= L + 1 - (k - 1) /\ lastIndex[j] = store[k - 1].addr
        BY <2>1 DEF IInv, StoresAreInWindow
    <2>3. QED BY <2>1, <2>2
<1>5. MemoryCatchesUp'
    BY <1>1, PassKeepsMemory DEF IInv, dumpVars
<1>6. DumpIsDrained'
    <2> SUFFICES ASSUME Drained PROVE Drained'
        BY <1>1 DEF IInv, DumpIsDrained, dumpVars
    <2>1. QED BY <1>1, DelayAssumption DEF Drained, Pass
<1>7. QED BY <1>2, <1>3, <1>4, <1>5, <1>6 DEF IInv

LEMMA FinishInv == IInv /\ Finish => IInv'
<1> SUFFICES ASSUME IInv, Finish PROVE IInv'
    OBVIOUS
<1> USE DEF Finish, IInv, windowVars
<1>1. TypeOK'
    BY DEF TypeOK
<1>2. WindowIsCurrent' /\ StoresAreInWindow'
    BY DEF WindowIsCurrent, StoresAreInWindow
<1>3. MemoryCatchesUp'
    BY DEF MemoryCatchesUp, Cleared, TypeOK
<1>4. DumpIsDrained'
    BY DEF DumpIsDrained
<1>5. QED BY <1>1, <1>2, <1>3, <1>4

LEMMA DumpInv == IInv /\ Dump => IInv'
<1> SUFFICES ASSUME IInv, Dump PROVE IInv'
    OBVIOUS
<1> USE NoStoreType DEF Dump, IInv, windowVars
<1>1. TypeOK'
    BY DEF TypeOK, Entry
<1>2. WindowIsCurrent' /\ StoresAreInWindow'
    BY DEF WindowIsCurrent, StoresAreInWindow
<1>3. \A k \in Stage, a \in Addr : store[k].addr # a
    BY DEF Drained, NoStore, NoAddr
<1>4. MemoryCatchesUp'
    BY <1>3 DEF MemoryCatchesUp, Cleared, TypeOK
<1>5. DumpIsDrained'
    BY DEF DumpIsDrained, Drained
<1>6. QED BY <1>1, <1>2, <1>4, <1>5

LEMMA ClearLastInv == IInv /\ ClearLast => IInv'
<1> SUFFICES ASSUME IInv, ClearLast PROVE IInv'
    OBVIOUS
<1> USE NoStoreType DEF ClearLast, IInv, windowVars, dumpVars
<1>1. TypeOK'
    BY DEF TypeOK
<1>2. WindowIsCurrent' /\ StoresAreInWindow'
    BY DEF WindowIsCurrent, StoresAreInWindow
<1>3. Drained
    BY DEF DumpIsDrained
<1>4. \A k \in Stage, a \in Addr : store[k].addr # a
    BY <1>3 DEF Drained, NoStore, NoAddr
<1>5. MemoryCatchesUp'
    <2> SUFFICES ASSUME NEW a \in Addr
                 PROVE  tmpVPropBuffer'[a] = ZeroWord
        BY <1>4 DEF MemoryCatchesUp, Cleared
    <2>1. tmpVPropBuffer[a] = IF Cleared(a) THEN ZeroWord ELSE gathered[a]
        BY <1>4 DEF MemoryCatchesUp
    <2>2. CASE a = Words - 1
        BY <2>2 DEF TypeOK
    <2>3. CASE a # Words - 1
        <3>1. Cleared(a) /\ tmpVPropBuffer'[a] = tmpVPropBuffer[a]
            BY <2>3 DEF Cleared, TypeOK
        <3>2. QED BY <2>1, <3>1
    <2>4. QED BY <2>2, <2>3
<1>6. DumpIsDrained'
    BY <1>3 DEF DumpIsDrained, Drained
<1>7. QED BY <1>1, <1>2, <1>5, <1>6

LEMMA RestartInv == IInv /\ Restart => IInv'
<1> SUFFICES ASSUME IInv, Restart PROVE IInv'
    OBVIOUS
<1> USE NoStoreType DEF Restart, IInv, dumpVars
<1>1. TypeOK'
    BY DEF TypeOK
<1>2. Drained
    BY DEF DumpIsDrained
<1>3. WindowIsCurrent' /\ StoresAreInWindow'
    BY <1>2 DEF WindowIsCurrent, StoresAreInWindow, Drained, NoStore
<1>4. \A k \in Stage, a \in Addr : store[k].addr # a
    BY <1>2 DEF Drained, NoStore, NoAddr
<1>5. MemoryCatchesUp'
    BY <1>4 DEF MemoryCatchesUp, Cleared, TypeOK
<1>6. DumpIsDrained'
    BY DEF DumpIsDrained
<1>7. QED BY <1>1, <1>3, <1>5, <1>6

(***************************************************************************)
(* The invariant of dstPropertyProcess: the window has the newest words,   *)
(* every store under way is in the window, and the memory with the stores  *)
(* under way is what atomic updates would have made of it.                 *)
(***************************************************************************)
THEOREM Invariance == Spec => []IInv
<1>1. IInv /\ [Next]_vars => IInv'
    <2> SUFFICES ASSUME IInv, [Next]_vars PROVE IInv'
        OBVIOUS
    <2>1. ASSUME NEW a \in Addr, NEW lane \in Lane, NEW y \in Prop,
                 Update(a, lane, y)
          PROVE  IInv'
        BY <2>1, UpdateInv
    <2>2. CASE UNCHANGED vars
        BY <2>2 DEF vars, windowVars, dumpVars, IInv, TypeOK, WindowIsCurrent,
                    StoresAreInWindow, MemoryCatchesUp, DumpIsDrained, Cleared, Drained
    <2>3. QED
        BY <2>1, <2>2, SkipInv, FinishInv, DumpInv, ClearLastInv, RestartInv
           DEF Next, Lane, Addr
<1>2. QED BY <1>1, InitInv, PTL DEF Spec

(***************************************************************************)
(* dstPropertyProcess implements the table that takes one update after the *)
(* other: whatever the latency of the memory, the words it hands out hold  *)
(* every update of the run once, and nothing of the run before.            *)
(***************************************************************************)
THEOREM Refinement == Spec => ImplementsGatherBuffer
<1>1. Init => Buffer!Init
    BY DEF Init, Buffer!Init, Buffer!Addr, Buffer!ZeroWord, Buffer!Lane, ZeroWord, NoAddr
<1>2. IInv /\ [Next]_vars => [Buffer!Next]_(Buffer!vars)
    <2> SUFFICES ASSUME IInv, [Next]_vars PROVE [Buffer!Next]_(Buffer!vars)
        OBVIOUS
    <2> USE DEF Buffer!Addr, Buffer!Lane, Buffer!vars, windowVars, dumpVars
    <2>1. ASSUME NEW a \in Addr, NEW lane \in Lane, NEW y \in Prop,
                 Update(a, lane, y)
          PROVE  Buffer!Gather(a, lane, y)
        BY <2>1 DEF Update, Buffer!Gather
    <2>2. CASE Skip
        BY <2>2 DEF Skip
    <2>3. CASE Finish
        BY <2>3 DEF Finish, Buffer!Finish, Buffer!Next
    <2>4. CASE Dump
        <3>1. i \in Addr /\ ~Cleared(i) /\ \A k \in Stage : store[k].addr # i
            BY <2>4 DEF Dump, IInv, TypeOK, Cleared, Drained, NoStore, NoAddr
        <3>2. tmpVPropBuffer[i] = gathered[i]
            BY <3>1 DEF IInv, MemoryCatchesUp
        <3>3. QED BY <2>4, <3>2 DEF Dump, Buffer!HandOut, Buffer!Next
    <2>5. CASE ClearLast
        BY <2>5 DEF ClearLast, Buffer!End, Buffer!Next
    <2>6. CASE Restart
        BY <2>6 DEF Restart, Buffer!Restart, Buffer!Next, Buffer!ZeroWord, ZeroWord
    <2>7. CASE UNCHANGED vars
        BY <2>7 DEF vars
    <2>8. QED BY <2>1, <2>2, <2>3, <2>4, <2>5, <2>6, <2>7 DEF Next, Buffer!Next
<1>3. QED BY <1>1, <1>2, Invariance, PTL DEF Spec, Buffer!Spec, ImplementsGatherBuffer
=============================================================================
