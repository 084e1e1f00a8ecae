-------------------------- MODULE DeploymentProofs --------------------------
(***************************************************************************)
(* The promises of module Superstep for every number of nodes, pipelines,  *)
(* supersteps, partitions and packets, and for every schedule that deals   *)
(* no partition twice; NetworkReady of the whole deployment, whatever the  *)
(* partitioner and the scheduler hand over; and AppliesApart of the        *)
(* scheduler's plans.                                                      *)
(***************************************************************************)
EXTENDS Deployment, FunctionTheorems, FiniteSetTheorems, WellFoundedInduction, TLAPS

-----------------------------------------------------------------------------
(* The superstep loop. *)

LEMMA Sizes ==
    /\ KERNEL_NUM \in Nat \ {0} /\ SUPER_STEP \in Nat \ {0}
    /\ total_p_num \in Nat \ {0} /\ PartPackets \in Nat \ {0}
BY SuperstepAssumption

USE Sizes

\* A queue and its head.
LEMMA HeadTail ==
    ASSUME NEW S, NEW s \in Seq(S), s # <<>>
    PROVE  /\ Head(s) = s[1] /\ Head(s) \in S
           /\ Tail(s) \in Seq(S) /\ Len(Tail(s)) = Len(s) - 1
           /\ \A i \in DOMAIN Tail(s) : i + 1 \in DOMAIN s /\ Tail(s)[i] = s[i + 1]
OBVIOUS

LEMMA ElementOf == ASSUME NEW S, NEW s \in Seq(S), NEW i \in DOMAIN s PROVE s[i] \in S
OBVIOUS

LEMMA AppendOne ==
    ASSUME NEW S, NEW s \in Seq(S), NEW e \in S
    PROVE  /\ Append(s, e) \in Seq(S) /\ Len(Append(s, e)) = Len(s) + 1
           /\ Append(s, e)[Len(s) + 1] = e
           /\ \A i \in 1 .. Len(s) : Append(s, e)[i] = s[i]
OBVIOUS

\* packet_num packets are all chunks of the graph.
LEMMA ChunkCount ==
    /\ IsFiniteSet(Chunk)
    /\ Cardinality(Chunk) = packet_num
<1>1. IsFiniteSet(Partition) /\ Cardinality(Partition) = total_p_num
    BY FS_Interval DEF Partition
<1>2. IsFiniteSet(1 .. PartPackets) /\ Cardinality(1 .. PartPackets) = PartPackets
    BY FS_Interval
<1>3. QED BY <1>1, <1>2, FS_Product DEF packet_num, Chunk

\* A schedule that deals no partition twice has at most total_p_num in a line.
LEMMA ShortSchedule ==
    ASSUME NEW s, Dealt(s), NEW n \in Node
    PROVE  s[n] \in Seq(Partition) /\ Len(s[n]) \in 1 .. total_p_num
<1>1. s[n] \in Seq(Partition) /\ s[n] # <<>>
    BY DEF Dealt
<1>2. s[n] \in [1 .. Len(s[n]) -> Partition]
    BY <1>1
<1>3. \A i, j \in 1 .. Len(s[n]) : s[n][i] = s[n][j] => i = j
    BY <1>1 DEF Dealt
<1>4. s[n] \in Injection(1 .. Len(s[n]), Partition)
    BY <1>2, <1>3, Fun_IsInj
<1>5. Len(s[n]) \in Nat \ {0}
    BY <1>1
<1>6. Cardinality(1 .. Len(s[n])) = Len(s[n])
    BY <1>5, FS_Interval
<1>7. IsFiniteSet(Partition) /\ Cardinality(Partition) = total_p_num
    BY FS_Interval DEF Partition
<1>8. Cardinality(1 .. Len(s[n])) <= Cardinality(Partition)
    BY <1>4, <1>7, FS_Injection
<1>9. QED BY <1>1, <1>5, <1>6, <1>7, <1>8

\* The two arrays swap roles.
LEMMA Parity ==
    ASSUME NEW s \in Nat
    PROVE  /\ s % 2 \in 0 .. 1 /\ 1 - (s % 2) \in 0 .. 1
           /\ (s + 1) % 2 = 1 - (s % 2) /\ 1 - ((s + 1) % 2) = s % 2
OBVIOUS

\* What is computed from one version is of the next.
LEMMA ComputedNext ==
    ASSUME NEW v \in Version, v < SUPER_STEP
    PROVE  Computed({v}) = v + 1
<1>1. \A w \in Version : {v} = {w} <=> w = v
    OBVIOUS
<1>2. (CHOOSE w \in Version : {v} = {w}) = v
    BY <1>1
<1>3. QED BY <1>1, <1>2 DEF Computed

LEMMA ComputedType == ASSUME NEW V PROVE Computed(V) \in Value
<1>1. CASE \E v \in Version : V = {v} /\ v < SUPER_STEP
    <2>1. PICK v \in Version : V = {v} /\ v < SUPER_STEP
        BY <1>1
    <2>2. Computed(V) = v + 1
        BY <2>1, ComputedNext
    <2>3. QED BY <2>1, <2>2 DEF Version, Value
<1>2. CASE ~ \E v \in Version : V = {v} /\ v < SUPER_STEP
    BY <1>2 DEF Computed, Value
<1>3. QED BY <1>1, <1>2

-----------------------------------------------------------------------------
(***************************************************************************)
(* What the invariant says of a node and of two nodes.                     *)
(***************************************************************************)
LEMMA NodeFacts ==
    ASSUME TypeOK, HostsTogether, NEW n \in Node
    PROVE  /\ step(n) \in 0 .. SUPER_STEP
           /\ entered[n] \in {2 * step(n), 2 * step(n) + 1}
           /\ Active(n) => /\ step(n) = super_step[n] /\ step(n) < SUPER_STEP
                           /\ Dealt(schedule_txt) /\ scheduleItem[n] = schedule_txt[n]
                           /\ schedule_num(n) \in 1 .. total_p_num
                           /\ p[n] \in 0 .. schedule_num(n)
                           /\ scheduleItem[n] \in Seq(Partition)
<1>1. /\ super_step[n] \in 0 .. SUPER_STEP /\ entered[n] \in Nat /\ p[n] \in Nat
      /\ host[n] \in {"load", "start", "wait", "barrier", "end"}
    BY DEF TypeOK
<1>2. step(n) \in 0 .. SUPER_STEP /\ entered[n] \in {2 * step(n), 2 * step(n) + 1}
    <2>1. CASE host[n] = "barrier"
        <3>1. \/ super_step[n] = 0 /\ entered[n] = 1
              \/ /\ super_step[n] < SUPER_STEP
                 /\ entered[n] \in {2 * super_step[n] + 2, 2 * super_step[n] + 3}
            BY <2>1 DEF HostsTogether
        <3>2. CASE super_step[n] = 0 /\ entered[n] = 1
            BY <3>2 DEF step
        <3>3. CASE /\ super_step[n] < SUPER_STEP
                   /\ entered[n] \in {2 * super_step[n] + 2, 2 * super_step[n] + 3}
            BY <1>1, <2>1, <3>3 DEF step
        <3>4. QED BY <3>1, <3>2, <3>3
    <2>2. CASE host[n] # "barrier"
        <3>1. step(n) = super_step[n]
            BY <2>2 DEF step
        <3>2. \/ super_step[n] = 0 /\ entered[n] = 0
              \/ entered[n] = 2 * super_step[n] + 1
            BY <1>1, <2>2 DEF HostsTogether, Active
        <3>3. QED BY <1>1, <3>1, <3>2
    <2>3. QED BY <2>1, <2>2
<1>3. ASSUME Active(n)
      PROVE  /\ step(n) = super_step[n] /\ step(n) < SUPER_STEP
             /\ Dealt(schedule_txt) /\ scheduleItem[n] = schedule_txt[n]
             /\ p[n] <= schedule_num(n)
    BY <1>3 DEF HostsTogether, step, Active
<1>4. QED BY <1>1, <1>2, <1>3, ShortSchedule DEF schedule_num

\* A node whose host is inside of a superstep sees no node more than one ahead.
LEMMA StepsApart ==
    ASSUME TypeOK, HostsTogether, NEW n \in Node, NEW m \in Node, Active(m)
    PROVE  step(n) \in {step(m), step(m) + 1}
<1>1. entered[m] = 2 * step(m) + 1 /\ host[m] # "barrier"
    BY NodeFacts DEF HostsTogether, Active
<1>2. entered[m] \in Nat /\ entered[n] \in Nat
    BY DEF TypeOK
<1>3. entered[m] <= entered[n] + 0
    BY <1>1 DEF HostsTogether
<1>4. entered[n] <= entered[m] + 1
    BY <1>2 DEF HostsTogether
<1>5. /\ step(n) \in 0 .. SUPER_STEP /\ step(m) \in 0 .. SUPER_STEP
      /\ entered[n] \in {2 * step(n), 2 * step(n) + 1}
    BY NodeFacts
<1>6. QED BY <1>1, <1>2, <1>3, <1>4, <1>5

\* Only one node sends a chunk.
LEMMA OneSender ==
    ASSUME TypeOK, HostsTogether, NEW n \in Node, NEW m \in Node, NEW c,
           NEW i \in DOMAIN scheduleItem[n], NEW j \in DOMAIN scheduleItem[m],
           scheduleItem[n][i] = scheduleItem[m][j]
    PROVE  n = m /\ i = j
<1>1. \A l \in Node : host[l] = "load" => scheduleItem[l] = <<>>
    BY DEF HostsTogether
<1>2. host[n] # "load" /\ host[m] # "load"
    BY <1>1
<1>3. /\ Dealt(schedule_txt)
      /\ scheduleItem[n] = schedule_txt[n] /\ scheduleItem[m] = schedule_txt[m]
    BY <1>2 DEF HostsTogether
<1>4. QED BY <1>3 DEF Dealt

-----------------------------------------------------------------------------
(***************************************************************************)
(* Packets.                                                                *)
(***************************************************************************)
\* Packets in different places of the ring are different packets.
LEMMA PacketsDiffer ==
    ASSUME TypeOK, HostsTogether, SentOnce,
           NEW m \in Node, NEW i \in DOMAIN trans[m],
           NEW l \in Node, NEW j \in DOMAIN trans[l],
           trans[m][i] = trans[l][j]
    PROVE  m = l /\ i = j
<1>1. PICK r \in 0 .. SUPER_STEP - 1, c \in Chunk :
          trans[m][i] = [chunk |-> c, version |-> r + 1] /\ Sent(m, r, c)
    BY DEF SentOnce
<1>2. PICK q \in 0 .. SUPER_STEP - 1, d \in Chunk :
          trans[l][j] = [chunk |-> d, version |-> q + 1] /\ Sent(l, q, d)
    BY DEF SentOnce
<1>3. c = d
    <2>1. trans[m][i] = [chunk |-> c, version |-> r + 1]
        BY <1>1
    <2>2. trans[l][j] = [chunk |-> d, version |-> q + 1]
        BY <1>2
    <2>3. [chunk |-> c, version |-> r + 1] = [chunk |-> d, version |-> q + 1]
        BY <2>1, <2>2
    <2>4. QED BY <2>3
<1>4. PICK a \in DOMAIN scheduleItem[m] : c[1] = scheduleItem[m][a]
    BY <1>1 DEF Sent
<1>5. PICK b \in DOMAIN scheduleItem[l] : d[1] = scheduleItem[l][b]
    BY <1>2 DEF Sent
<1>6. m = l
    BY <1>3, <1>4, <1>5, OneSender
<1>7. QED BY <1>6 DEF SentOnce

\* A packet under way has not been delivered.
LEMMA UnseenNotDelivered ==
    ASSUME TypeOK, HostsTogether, SentOnce, UnderWay,
           NEW n \in Node, NEW m \in Node, NEW j \in seen[n][m] + 1 .. Len(trans[m])
    PROVE  j \in DOMAIN trans[m] /\ trans[m][j] \notin Delivered(n)
<1>1. /\ \A l \in Node : /\ seen[n][l] \in Nat /\ seen[n][l] <= Len(trans[l])
                          /\ DOMAIN trans[l] = 1 .. Len(trans[l])
    BY DEF TypeOK, UnderWay
<1>2. j \in DOMAIN trans[m]
    BY <1>1
<1>3. ASSUME trans[m][j] \in Delivered(n) PROVE FALSE
    <2>1. PICK l \in Node : \E i \in 1 .. seen[n][l] : trans[m][j] = trans[l][i]
        BY <1>3 DEF Delivered
    <2>2. PICK i \in 1 .. seen[n][l] : trans[m][j] = trans[l][i]
        BY <2>1
    <2>3. i \in DOMAIN trans[l]
        BY <1>1
    <2>4. m = l /\ j = i
        BY <1>2, <2>2, <2>3, PacketsDiffer
    <2>5. QED BY <1>1, <2>4
<1>4. QED BY <1>2, <1>3

\* What has been sent stays sent.
LEMMA SentKept ==
    ASSUME NEW m \in Node,
           UNCHANGED <<host[m], entered[m], super_step[m], p[m], scheduleItem[m], rdPropRun[m]>>,
           NEW r, NEW c, Sent(m, r, c)
    PROVE  Sent(m, r, c)'
BY DEF Sent, step, Active

LEMMA InTimeKept ==
    ASSUME NEW m \in Node, InTime(m),
           UNCHANGED <<host[m], super_step[m], p[m], scheduleItem[m], rdPropRun[m],
                       gsRun[m], gsOut[m], applyRun[m], propTemp[m]>>
    PROVE  InTime(m)'
BY DEF InTime, Computing, Active, item, schedule_num

LEMMA SentOnceKept ==
    ASSUME SentOnce, UNCHANGED trans,
           \A m \in Node, r \in 0 .. SUPER_STEP, c \in Chunk : Sent(m, r, c) => Sent(m, r, c)'
    PROVE  SentOnce'
<1> SUFFICES ASSUME NEW m \in Node, NEW j \in DOMAIN trans[m]
             PROVE  /\ \E r \in 0 .. SUPER_STEP - 1, c \in Chunk :
                          trans[m][j] = [chunk |-> c, version |-> r + 1] /\ Sent(m, r, c)'
                    /\ \A i \in DOMAIN trans[m] : trans[m][i] = trans[m][j] => i = j
    BY DEF SentOnce
<1>1. PICK r \in 0 .. SUPER_STEP - 1, c \in Chunk :
          trans[m][j] = [chunk |-> c, version |-> r + 1] /\ Sent(m, r, c)
    BY DEF SentOnce
<1>2. r \in 0 .. SUPER_STEP
    OBVIOUS
<1>3. Sent(m, r, c)'
    BY <1>1, <1>2
<1>4. QED BY <1>1, <1>3 DEF SentOnce

LEMMA CompleteKept ==
    ASSUME IInv, \A n \in Node : step(n)' = step(n),
           \A n \in Node, k \in Kernel, c \in Chunk :
              prop'[n][k][step(n) % 2][c] = prop[n][k][step(n) % 2][c],
           \A m \in Node, r \in 0 .. SUPER_STEP, c \in Chunk : Sent(m, r, c) => Sent(m, r, c)'
    PROVE  Complete'
BY NodeFacts DEF IInv, Complete

\* A step that touches neither the packets nor the arrays, and ends no superstep.
LEMMA NetFrame ==
    ASSUME IInv, UNCHANGED <<prop, netVars>>,
           \A n \in Node : step(n)' = step(n),
           \A n \in Node, k \in Kernel :
              /\ wrPropRun'[n][k] =
                    IF Writing(n)' THEN Cardinality(Stored(n, k)) ELSE packet_num
              /\ ~Writing(n)' => Stored(n, k) = {},
           \A m \in Node, r \in 0 .. SUPER_STEP, c \in Chunk : Sent(m, r, c) => Sent(m, r, c)'
    PROVE  SentOnce' /\ UnderWay' /\ Received' /\ Complete'
<1>1. UNCHANGED <<prop, trans, seen, vertexUpdate>>
    BY DEF netVars
<1>2. \A n \in Node : Delivered(n)' = Delivered(n)
    BY <1>1 DEF Delivered
<1>3. \A n \in Node, k \in Kernel : Stored(n, k)' = Stored(n, k)
    BY <1>1 DEF Stored
<1>4. SentOnce'
    BY <1>1, SentOnceKept DEF IInv
<1>5. UnderWay'
    BY <1>1 DEF IInv, UnderWay
<1>6. Received'
    BY <1>1, <1>2, <1>3 DEF IInv, Received, ReceivedBy
<1>7. Complete'
    BY <1>1, CompleteKept
<1>8. QED BY <1>4, <1>5, <1>6, <1>7

LEMMA NetSame ==
    ASSUME IInv, UNCHANGED <<prop, wrPropRun, netVars>>,
           \A n \in Node : step(n)' = step(n) /\ (Writing(n)' <=> Writing(n)),
           \A m \in Node, r \in 0 .. SUPER_STEP, c \in Chunk : Sent(m, r, c) => Sent(m, r, c)'
    PROVE  SentOnce' /\ UnderWay' /\ Received' /\ Complete'
<1>1. \A n \in Node, k \in Kernel :
          /\ wrPropRun'[n][k] = IF Writing(n)' THEN Cardinality(Stored(n, k)) ELSE packet_num
          /\ ~Writing(n)' => Stored(n, k) = {}
    BY DEF IInv, Received, ReceivedBy
<1>2. QED BY <1>1, NetFrame

-----------------------------------------------------------------------------
(***************************************************************************)
(* The invariant at first, and the steps that only compute.                *)
(***************************************************************************)
LEMMA InitInv == Init /\ schedule_txt = <<>> => IInv
<1> SUFFICES ASSUME Init, schedule_txt = <<>> PROVE IInv
    OBVIOUS
<1> USE DEF Init
<1>1. TypeOK
    BY DEF TypeOK, Value, Version, Idle, packet_num
<1>2. \A n \in Node : step(n) = 0 /\ ~Active(n) /\ ~Writing(n) /\ ~Computing(n)
    BY DEF step, Active, Writing, Computing
<1>3. HostsTogether
    BY <1>2 DEF HostsTogether
<1>4. ComputedInTime
    BY <1>2 DEF ComputedInTime, InTime, Idle
<1>5. SentOnce /\ UnderWay
    BY DEF SentOnce, UnderWay
<1>6. Received
    <2>1. \A n \in Node, k \in Kernel : Stored(n, k) = {}
        BY <1>2 DEF Stored, Unset
    <2>2. QED BY <1>2, <2>1 DEF Received, ReceivedBy
<1>7. Complete
    BY <1>2 DEF Complete
<1>8. QED BY <1>1, <1>3, <1>4, <1>5, <1>6, <1>7 DEF IInv

LEMMA GatherScatterInv ==
    ASSUME IInv, NEW n \in Node, NEW k \in Kernel, GatherScatter(n, k)
    PROVE  IInv'
<1> USE DEF GatherScatter, scheduleVars, hostVars, netVars
<1>1. TypeOK'
    BY ComputedType DEF IInv, TypeOK
<1>2. HostsTogether'
    BY DEF IInv, HostsTogether, Active, schedule_num
<1>3. Computing(n) /\ Active(n)
    BY DEF IInv, ComputedInTime, InTime, Computing, Active
<1>4. super_step[n] \in Version /\ super_step[n] < SUPER_STEP /\ step(n) = super_step[n]
    BY <1>3, NodeFacts DEF IInv, Version
<1>5. {prop[n][k][pingpong(n)][c] : c \in Chunk} = {super_step[n]}
    <2>1. <<0, 1>> \in Chunk
        BY DEF Chunk, Partition
    <2>2. \A c \in Chunk : prop[n][k][pingpong(n)][c] = super_step[n]
        BY <1>4 DEF IInv, Complete, pingpong
    <2>3. QED BY <2>1, <2>2
<1>6. gsOut' = [gsOut EXCEPT ![n][k] = super_step[n] + 1]
    BY <1>4, <1>5, ComputedNext
<1>7. ComputedInTime'
    <2>1. /\ gsRun \in [Node -> [Kernel -> {"idle", "run", "done"}]]
          /\ gsOut \in [Node -> [Kernel -> Value]]
        BY DEF IInv, TypeOK
    <2>2. /\ gsRun'[n][k] = "done" /\ gsOut'[n][k] = super_step[n] + 1
          /\ \A l \in Kernel : l # k =>
                gsRun'[n][l] = gsRun[n][l] /\ gsOut'[n][l] = gsOut[n][l]
        BY <1>6, <2>1
    <2>3. InTime(n)'
        <3>1. InTime(n)
            BY DEF IInv, ComputedInTime
        <3>2. QED BY <2>2, <3>1 DEF InTime, Computing, Active, item, schedule_num
    <2>4. ASSUME NEW m \in Node, m # n PROVE InTime(m)'
        <3>1. gsRun'[m] = gsRun[m] /\ gsOut'[m] = gsOut[m]
            BY <2>1, <2>4
        <3>2. QED BY <3>1, InTimeKept DEF IInv, ComputedInTime
    <2>5. QED BY <2>3, <2>4 DEF ComputedInTime
<1>8. SentOnce' /\ UnderWay' /\ Received' /\ Complete'
    <2>1. \A m \in Node : step(m)' = step(m) /\ (Writing(m)' <=> Writing(m))
        BY DEF step, Writing
    <2>2. QED BY <2>1, NetSame, SentKept
<1>9. QED BY <1>1, <1>2, <1>7, <1>8 DEF IInv

LEMMA ApplyAndWriteInv ==
    ASSUME IInv, NEW n \in Node, ApplyAndWrite(n)
    PROVE  IInv'
<1> DEFINE q == item(n, p[n])
           old == {prop[n][KERNEL_NUM][pingpong(n)][<<q, j>>] : j \in 1 .. PartPackets}
           shares == {gsOut[n][k] : k \in Kernel}
<1> USE DEF scheduleVars, hostVars, netVars
<1>1. /\ applyRun[n] = "run"
      /\ \A k \in Kernel : gsRun[n][k] = "done"
      /\ propTemp' = [propTemp EXCEPT ![n][q] =
                          IF shares = {Computed(old)} THEN Computed(old) ELSE Mixed]
      /\ applyRun' = [applyRun EXCEPT ![n] = "done"]
      /\ UNCHANGED <<scheduleVars, hostVars, gsRun, gsOut, rdPropRun, wrPropRun, prop, netVars>>
    BY DEF ApplyAndWrite
<1>2. InTime(n) /\ Computing(n) /\ Active(n)
    BY <1>1 DEF IInv, ComputedInTime, InTime, Computing, Active
<1>3. super_step[n] \in Version /\ super_step[n] < SUPER_STEP /\ step(n) = super_step[n]
    BY <1>2, NodeFacts DEF IInv, Version
<1>4. q \in Partition
    <2>1. scheduleItem[n] \in Seq(Partition) /\ p[n] \in Nat /\ p[n] < Len(scheduleItem[n])
        BY <1>2, NodeFacts DEF IInv, Computing, schedule_num
    <2>2. QED BY <2>1 DEF item
<1>5. old = {super_step[n]}
    <2>1. KERNEL_NUM \in Kernel /\ \A j \in 1 .. PartPackets : <<q, j>> \in Chunk
        BY <1>4 DEF Kernel, Chunk
    <2>2. \A j \in 1 .. PartPackets :
              prop[n][KERNEL_NUM][pingpong(n)][<<q, j>>] = super_step[n]
        BY <1>3, <2>1 DEF IInv, Complete, pingpong
    <2>3. 1 \in 1 .. PartPackets
        OBVIOUS
    <2>4. QED BY <2>2, <2>3
<1>6. shares = {super_step[n] + 1}
    <2>1. \A k \in Kernel : gsOut[n][k] = super_step[n] + 1
        BY <1>1, <1>2 DEF InTime
    <2>2. KERNEL_NUM \in Kernel
        BY DEF Kernel
    <2>3. QED BY <2>1, <2>2
<1>7. propTemp' = [propTemp EXCEPT ![n][q] = super_step[n] + 1]
    <2>1. Computed(old) = super_step[n] + 1
        BY <1>3, <1>5, ComputedNext
    <2>2. shares = {Computed(old)}
        BY <1>6, <2>1
    <2>3. QED BY <1>1, <2>1, <2>2
<1> HIDE DEF old, shares
<1>8. /\ propTemp \in [Node -> [Partition -> Value]]
      /\ applyRun \in [Node -> {"idle", "run", "done"}]
      /\ super_step[n] + 1 \in Value
    BY <1>3 DEF IInv, TypeOK, Value, Version
<1>9. TypeOK'
    <2>1. propTemp' \in [Node -> [Partition -> Value]]
        BY <1>7, <1>8
    <2>2. applyRun' \in [Node -> {"idle", "run", "done"}]
        BY <1>1, <1>8
    <2>3. QED BY <1>1, <2>1, <2>2 DEF IInv, TypeOK
<1>10. HostsTogether'
    BY <1>1 DEF IInv, HostsTogether, Active, schedule_num
<1>11. ComputedInTime'
    <2>1. InTime(n)'
        <3>1. propTemp'[n][q] = super_step[n] + 1
            BY <1>4, <1>7, <1>8
        <3>2. \A a \in Partition : propTemp'[n][a] \in {propTemp[n][a], super_step[n] + 1}
            BY <1>4, <1>7, <1>8
        <3>3. \A j \in 1 .. p[n] : scheduleItem[n][j] \in Partition
            <4>1. /\ scheduleItem[n] \in Seq(Partition)
                  /\ p[n] \in Nat /\ p[n] <= Len(scheduleItem[n])
                BY <1>2, NodeFacts DEF IInv, schedule_num
            <4>2. QED BY <4>1
        <3>4. \A j \in 1 .. p[n] : propTemp'[n][scheduleItem[n][j]] = super_step[n] + 1
            BY <1>2, <3>2, <3>3 DEF InTime
        <3>5. applyRun'[n] = "done"
            BY <1>1, <1>8
        <3>6. QED BY <1>1, <1>2, <3>1, <3>4, <3>5
                  DEF InTime, Computing, Active, item, schedule_num
    <2>2. ASSUME NEW m \in Node, m # n PROVE InTime(m)'
        <3>1. propTemp'[m] = propTemp[m] /\ applyRun'[m] = applyRun[m]
            BY <1>1, <1>7, <1>8, <2>2
        <3>2. QED BY <1>1, <3>1, InTimeKept DEF IInv, ComputedInTime
    <2>3. QED BY <2>1, <2>2 DEF ComputedInTime
<1>12. SentOnce' /\ UnderWay' /\ Received' /\ Complete'
    <2>1. \A m \in Node : step(m)' = step(m) /\ (Writing(m)' <=> Writing(m))
        BY <1>1 DEF step, Writing
    <2>2. QED BY <1>1, <2>1, NetSame, SentKept
<1>13. QED BY <1>9, <1>10, <1>11, <1>12 DEF IInv

-----------------------------------------------------------------------------
(***************************************************************************)
(* The steps of a host.                                                    *)
(***************************************************************************)
LEMMA StartInv ==
    ASSUME IInv, NEW n \in Node, Start(n)
    PROVE  IInv'
<1> USE DEF scheduleVars, hostVars, netVars
<1>1. /\ host[n] = "start" /\ host' = [host EXCEPT ![n] = "wait"]
      /\ UNCHANGED <<schedule_txt, scheduleItem, super_step, p, entered, gsOut, propTemp,
                     prop, trans, seen, vertexUpdate>>
      /\ StartFirst(n) \/ StartMiddle(n) \/ StartLast(n)
    BY DEF Start, StartFirst, StartMiddle, StartLast
<1>2. TypeOK
    BY DEF IInv
<1>3. /\ gsRun \in [Node -> [Kernel -> {"idle", "run", "done"}]]
      /\ applyRun \in [Node -> {"idle", "run", "done"}]
      /\ rdPropRun \in [Node -> 0 .. PartPackets]
      /\ wrPropRun \in [Node -> [Kernel -> 0 .. packet_num]]
      /\ host \in [Node -> {"load", "start", "wait", "barrier", "end"}]
    BY <1>2 DEF TypeOK, Idle
<1>4. TypeOK'
    <2>1. /\ 0 \in 0 .. packet_num /\ 0 \in 0 .. PartPackets
        BY DEF packet_num
    <2>2. /\ gsRun' \in [Node -> [Kernel -> {"idle", "run", "done"}]]
          /\ applyRun' \in [Node -> {"idle", "run", "done"}]
          /\ rdPropRun' \in [Node -> 0 .. PartPackets]
          /\ wrPropRun' \in [Node -> [Kernel -> 0 .. packet_num]]
        <3>1. CASE StartFirst(n)
            <4>1. [k \in Kernel |-> 0] \in [Kernel -> 0 .. packet_num]
                BY <2>1
            <4>2. [k \in Kernel |-> "run"] \in [Kernel -> {"idle", "run", "done"}]
                OBVIOUS
            <4>3. QED BY <1>3, <3>1, <4>1, <4>2 DEF StartFirst, StartCompute
        <3>2. CASE StartMiddle(n)
            <4>1. [k \in Kernel |-> "run"] \in [Kernel -> {"idle", "run", "done"}]
                OBVIOUS
            <4>2. QED BY <1>3, <2>1, <3>2, <4>1 DEF StartMiddle, StartCompute
        <3>3. CASE StartLast(n)
            BY <1>3, <2>1, <3>3 DEF StartLast
        <3>4. QED BY <1>1, <3>1, <3>2, <3>3
    <2>3. host' \in [Node -> {"load", "start", "wait", "barrier", "end"}]
        BY <1>1, <1>3
    <2>4. QED BY <1>1, <1>2, <2>2, <2>3 DEF TypeOK, Idle
<1>5. host'[n] = "wait" /\ \A m \in Node : m # n => host'[m] = host[m]
    BY <1>1, <1>3
<1>6. HostsTogether'
    BY <1>1, <1>5 DEF IInv, HostsTogether, Active, schedule_num
<1>7. /\ InTime(n) /\ ~Computing(n) /\ Active(n)
      /\ schedule_num(n) \in Nat \ {0} /\ p[n] \in 0 .. schedule_num(n)
      /\ rdPropRun[n] = PartPackets
    <2>1. InTime(n) /\ Active(n) /\ ~Computing(n)
        BY <1>1 DEF IInv, ComputedInTime, Active, Computing
    <2>2. QED BY <1>1, <1>3, <2>1, NodeFacts DEF IInv, InTime
<1>8. InTime(n)'
    <2>1. \A j \in 1 .. p[n] : propTemp[n][scheduleItem[n][j]] = super_step[n] + 1
        BY <1>7 DEF InTime
    <2>2. CASE StartFirst(n) \/ StartMiddle(n)
        <3>1. /\ Computing(n)' /\ applyRun'[n] = "run"
              /\ \A k \in Kernel : gsRun'[n][k] = "run"
              /\ rdPropRun'[n] < PartPackets => p[n] > 0
            BY <1>1, <1>3, <1>5, <1>7, <2>2
               DEF StartFirst, StartMiddle, StartCompute, Computing, schedule_num
        <3>2. QED BY <1>1, <1>5, <2>1, <3>1 DEF InTime
    <2>3. CASE StartLast(n)
        <3>1. /\ ~Computing(n)' /\ applyRun'[n] # "run"
              /\ \A k \in Kernel : gsRun'[n][k] # "run"
              /\ p[n] > 0
            BY <1>1, <1>7, <2>3 DEF StartLast, Computing, schedule_num, InTime
        <3>2. QED BY <1>1, <1>5, <2>1, <3>1 DEF InTime
    <2>4. QED BY <1>1, <2>2, <2>3
<1>9. ComputedInTime'
    <2>1. ASSUME NEW m \in Node, m # n PROVE InTime(m)'
        <3>1. /\ gsRun'[m] = gsRun[m] /\ applyRun'[m] = applyRun[m]
              /\ rdPropRun'[m] = rdPropRun[m]
            BY <1>1, <1>3, <2>1 DEF StartFirst, StartMiddle, StartLast, StartCompute
        <3>2. QED BY <1>1, <1>5, <2>1, <3>1, InTimeKept DEF IInv, ComputedInTime
    <2>2. QED BY <1>8, <2>1 DEF ComputedInTime
<1>10. \A m \in Node : step(m)' = step(m)
    BY <1>1, <1>5 DEF step
<1>11. ASSUME NEW m \in Node, NEW k \in Kernel
       PROVE  /\ wrPropRun'[m][k] =
                    IF Writing(m)' THEN Cardinality(Stored(m, k)) ELSE packet_num
              /\ ~Writing(m)' => Stored(m, k) = {}
    <2>1. ReceivedBy(m, k)
        BY DEF IInv, Received
    <2>2. CASE m = n /\ StartFirst(n)
        <3>1. ~Writing(n) /\ Writing(n)' /\ wrPropRun'[n][k] = 0
            BY <1>1, <1>3, <1>5, <2>2 DEF Writing, StartFirst
        <3>2. Stored(n, k) = {}
            BY <2>1, <2>2, <3>1 DEF ReceivedBy
        <3>3. QED BY <2>2, <3>1, <3>2, FS_EmptySet
    <2>3. CASE ~(m = n /\ StartFirst(n))
        <3>1. wrPropRun'[m][k] = wrPropRun[m][k]
            BY <1>1, <1>3, <2>3 DEF StartFirst, StartMiddle, StartLast
        <3>2. Writing(m)' <=> Writing(m)
            BY <1>1, <1>5, <1>7, <2>3 DEF Writing, StartMiddle, StartLast
        <3>3. QED BY <2>1, <3>1, <3>2 DEF ReceivedBy
    <2>4. QED BY <2>2, <2>3
<1>12. ASSUME NEW m \in Node, NEW r \in 0 .. SUPER_STEP, NEW c \in Chunk, Sent(m, r, c)
       PROVE  Sent(m, r, c)'
    <2>1. CASE m = n
        BY <1>1, <1>5, <1>10, <1>12, <2>1 DEF Sent, Active
    <2>2. CASE m # n
        <3>1. rdPropRun'[m] = rdPropRun[m]
            BY <1>1, <1>3, <2>2 DEF StartFirst, StartMiddle, StartLast
        <3>2. QED BY <1>1, <1>5, <1>12, <2>2, <3>1, SentKept
    <2>3. QED BY <2>1, <2>2
<1>13. SentOnce' /\ UnderWay' /\ Received' /\ Complete'
    BY <1>1, <1>10, <1>11, <1>12, NetFrame
<1>14. QED BY <1>4, <1>6, <1>9, <1>13 DEF IInv

LEMMA WaitIterationInv ==
    ASSUME IInv, NEW n \in Node, WaitIteration(n)
    PROVE  IInv'
<1> USE DEF scheduleVars, hostVars, computeVars, netVars
<1>1. /\ host[n] = "wait" /\ p[n] < schedule_num(n)
      /\ ComputeDone(n) /\ rdPropRun[n] = Idle
      /\ p' = [p EXCEPT ![n] = @ + 1]
      /\ host' = [host EXCEPT ![n] = "start"]
      /\ UNCHANGED <<schedule_txt, scheduleItem, super_step, entered, gsRun, gsOut, applyRun,
                     propTemp, rdPropRun, wrPropRun, prop, trans, seen, vertexUpdate>>
    BY DEF WaitIteration
<1>2. /\ p \in [Node -> 0 .. total_p_num]
      /\ host \in [Node -> {"load", "start", "wait", "barrier", "end"}]
    BY DEF IInv, TypeOK
<1>3. Active(n) /\ schedule_num(n) \in 1 .. total_p_num /\ p[n] + 1 \in 1 .. total_p_num
    <2>1. Active(n)
        BY <1>1 DEF Active
    <2>2. QED BY <1>1, <1>2, <2>1, NodeFacts DEF IInv
<1>4. /\ host'[n] = "start" /\ p'[n] = p[n] + 1
      /\ \A m \in Node : m # n => host'[m] = host[m] /\ p'[m] = p[m]
    BY <1>1, <1>2
<1>5. TypeOK'
    <2>1. p' \in [Node -> 0 .. total_p_num]
        BY <1>1, <1>2, <1>3
    <2>2. host' \in [Node -> {"load", "start", "wait", "barrier", "end"}]
        BY <1>1, <1>2
    <2>3. QED BY <1>1, <2>1, <2>2 DEF IInv, TypeOK
<1>6. HostsTogether'
    <2>1. p'[n] <= schedule_num(n)'
        BY <1>1, <1>2, <1>3, <1>4 DEF schedule_num
    <2>2. QED BY <1>1, <1>4, <2>1 DEF IInv, HostsTogether, Active, schedule_num
<1>7. ComputedInTime'
    <2>1. InTime(n)'
        <3>1. InTime(n) /\ Computing(n)
            BY <1>1 DEF IInv, ComputedInTime, Computing
        <3>2. propTemp[n][scheduleItem[n][p[n] + 1]] = super_step[n] + 1
            BY <1>1, <3>1 DEF InTime, ComputeDone, item
        <3>3. \A j \in 1 .. p[n] + 1 : propTemp[n][scheduleItem[n][j]] = super_step[n] + 1
            BY <1>2, <1>3, <3>1, <3>2 DEF InTime
        <3>4. ~Computing(n)' /\ applyRun[n] # "run" /\ \A k \in Kernel : gsRun[n][k] # "run"
            BY <1>1, <1>4 DEF Computing, ComputeDone
        <3>5. ~(rdPropRun[n] < PartPackets)
            BY <1>1 DEF Idle
        <3>6. QED BY <1>1, <1>4, <3>3, <3>4, <3>5 DEF InTime
    <2>2. ASSUME NEW m \in Node, m # n PROVE InTime(m)'
        BY <1>1, <1>4, <2>2, InTimeKept DEF IInv, ComputedInTime
    <2>3. QED BY <2>1, <2>2 DEF ComputedInTime
<1>8. \A m \in Node : step(m)' = step(m) /\ (Writing(m)' <=> Writing(m))
    BY <1>1, <1>2, <1>3, <1>4 DEF step, Writing
<1>9. ASSUME NEW m \in Node, NEW r \in 0 .. SUPER_STEP, NEW c \in Chunk, Sent(m, r, c)
      PROVE  Sent(m, r, c)'
    <2>1. CASE m = n
        <3>1. scheduleItem[n] \in Seq(Partition)
            BY <1>3, NodeFacts DEF IInv
        <3>2. \A j \in DOMAIN scheduleItem[n] : j <= p[n] => j < p'[n]
            BY <1>2, <1>4, <3>1
        <3>3. \A j \in DOMAIN scheduleItem[n] : j < p[n] \/ j = p[n] => j <= p[n]
            BY <1>2, <3>1
        <3>4. Active(n)'
            BY <1>4 DEF Active
        <3>5. QED BY <1>1, <1>8, <1>9, <2>1, <3>2, <3>3, <3>4 DEF Sent
    <2>2. CASE m # n
        BY <1>1, <1>4, <1>9, <2>2, SentKept
    <2>3. QED BY <2>1, <2>2
<1>10. SentOnce' /\ UnderWay' /\ Received' /\ Complete'
    BY <1>1, <1>8, <1>9, NetSame
<1>11. QED BY <1>5, <1>6, <1>7, <1>10 DEF IInv

\* What HostsTogether says of one host.
Alone(n) ==
    /\ host[n] = "load" => /\ super_step[n] = 0 /\ entered[n] = 0
                           /\ scheduleItem[n] = <<>>
    /\ host[n] # "load" => schedule_txt # <<>> /\ scheduleItem[n] = schedule_txt[n]
    /\ Active(n) => /\ super_step[n] < SUPER_STEP
                    /\ entered[n] = 2 * super_step[n] + 1
                    /\ p[n] <= schedule_num(n)
    /\ host[n] = "barrier" =>
          \/ super_step[n] = 0 /\ entered[n] = 1
          \/ /\ super_step[n] < SUPER_STEP
             /\ entered[n] \in {2 * super_step[n] + 2, 2 * super_step[n] + 3}
    /\ host[n] = "end" => /\ super_step[n] = SUPER_STEP
                          /\ entered[n] = 2 * super_step[n] + 1

LEMMA TogetherAndAlone == ASSUME HostsTogether PROVE \A n \in Node : Alone(n)
BY DEF HostsTogether, Alone

LEMMA LoadInv ==
    ASSUME IInv, NEW n \in Node, Load(n)
    PROVE  IInv'
<1> USE DEF scheduleVars, hostVars, computeVars, netVars
<1>1. /\ host[n] = "load" /\ schedule_txt # <<>>
      /\ scheduleItem' = [scheduleItem EXCEPT ![n] = schedule_txt[n]]
      /\ host' = [host EXCEPT ![n] = "barrier"]
      /\ entered' = [entered EXCEPT ![n] = @ + 1]
      /\ UNCHANGED <<schedule_txt, super_step, p, gsRun, gsOut, applyRun, propTemp,
                     rdPropRun, wrPropRun, prop, trans, seen, vertexUpdate>>
    BY DEF Load
<1>2. /\ entered \in [Node -> 0 .. 2 * SUPER_STEP + 1]
      /\ host \in [Node -> {"load", "start", "wait", "barrier", "end"}]
      /\ scheduleItem \in [Node -> Seq(Partition)]
    BY DEF IInv, TypeOK
<1>3. /\ Dealt(schedule_txt) /\ schedule_txt[n] \in Seq(Partition)
      /\ super_step[n] = 0 /\ entered[n] = 0
    <2>1. /\ Dealt(schedule_txt) /\ super_step[n] = 0 /\ entered[n] = 0
        BY <1>1 DEF IInv, HostsTogether
    <2>2. QED BY <2>1, ShortSchedule
<1>4. /\ host'[n] = "barrier" /\ entered'[n] = 1 /\ scheduleItem'[n] = schedule_txt[n]
      /\ \A m \in Node : m # n =>
            /\ host'[m] = host[m] /\ entered'[m] = entered[m]
            /\ scheduleItem'[m] = scheduleItem[m]
    BY <1>1, <1>2, <1>3
<1>5. TypeOK'
    <2>1. scheduleItem' \in [Node -> Seq(Partition)]
        BY <1>1, <1>2, <1>3
    <2>2. entered' \in [Node -> 0 .. 2 * SUPER_STEP + 1]
        BY <1>1, <1>2, <1>3
    <2>3. host' \in [Node -> {"load", "start", "wait", "barrier", "end"}]
        BY <1>1, <1>2
    <2>4. QED BY <1>1, <2>1, <2>2, <2>3 DEF IInv, TypeOK
<1>6. HostsTogether'
    <2>1. \A m \in Node : Alone(m)
        BY TogetherAndAlone DEF IInv
    <2>2. ASSUME NEW m \in Node PROVE Alone(m)'
        <3>1. CASE m = n
            BY <1>1, <1>3, <1>4, <3>1 DEF Alone, Active
        <3>2. CASE m # n
            BY <1>1, <1>4, <2>1, <3>2 DEF Alone, Active, schedule_num
        <3>3. QED BY <3>1, <3>2
    <2>3. ASSUME NEW m \in Node, NEW l \in Node
          PROVE  entered'[m] <= entered'[l] + IF host'[m] = "barrier" THEN 1 ELSE 0
        <3>1. /\ entered[m] <= entered[l] + IF host[m] = "barrier" THEN 1 ELSE 0
              /\ entered[m] \in Nat /\ entered[l] \in Nat /\ entered'[l] \in Nat
            BY <1>2, <1>4 DEF IInv, HostsTogether
        <3>2. CASE m = n
            BY <1>4, <3>1, <3>2
        <3>3. CASE m # n
            <4>1. entered[l] <= entered'[l]
                BY <1>3, <1>4, <3>1
            <4>2. host'[m] = host[m] /\ entered'[m] = entered[m]
                BY <1>4, <3>3
            <4>3. CASE host[m] = "barrier"
                BY <3>1, <4>1, <4>2, <4>3
            <4>4. CASE host[m] # "barrier"
                BY <3>1, <4>1, <4>2, <4>4
            <4>5. QED BY <4>3, <4>4
        <3>4. QED BY <3>2, <3>3
    <2>4. QED BY <1>1, <1>3, <2>2, <2>3 DEF HostsTogether, Alone
<1>7. ComputedInTime'
    <2>1. InTime(n)'
        <3>1. InTime(n)
            BY DEF IInv, ComputedInTime
        <3>2. QED BY <1>1, <1>4, <3>1 DEF InTime, Computing, Active
    <2>2. ASSUME NEW m \in Node, m # n PROVE InTime(m)'
        BY <1>1, <1>4, <2>2, InTimeKept DEF IInv, ComputedInTime
    <2>3. QED BY <2>1, <2>2 DEF ComputedInTime
<1>8. \A m \in Node : step(m)' = step(m) /\ (Writing(m)' <=> Writing(m))
    BY <1>1, <1>3, <1>4 DEF step, Writing
<1>9. ASSUME NEW m \in Node, NEW r \in 0 .. SUPER_STEP, NEW c \in Chunk, Sent(m, r, c)
      PROVE  Sent(m, r, c)'
    <2>1. m # n
        BY <1>1, <1>3, <1>9 DEF Sent, step, Active
    <2>2. QED BY <1>1, <1>4, <1>9, <2>1, SentKept
<1>10. SentOnce' /\ UnderWay' /\ Received' /\ Complete'
    BY <1>1, <1>8, <1>9, NetSame
<1>11. QED BY <1>5, <1>6, <1>7, <1>10 DEF IInv

LEMMA ScheduleWrittenInv ==
    ASSUME IInv, ScheduleWritten
    PROVE  IInv'
<1> USE DEF hostVars, computeVars, netVars
<1>1. /\ schedule_txt = <<>> /\ Dealt(schedule_txt')
      /\ UNCHANGED <<scheduleItem, super_step, p, host, entered, gsRun, gsOut, applyRun,
                     propTemp, rdPropRun, wrPropRun, prop, trans, seen, vertexUpdate>>
    BY DEF ScheduleWritten
<1>2. TypeOK'
    BY <1>1 DEF IInv, TypeOK, Dealt
<1>3. \A m \in Node : host[m] = "load"
    BY <1>1 DEF IInv, HostsTogether
<1>4. HostsTogether'
    BY <1>1, <1>3 DEF IInv, HostsTogether, Active
<1>5. ComputedInTime'
    BY <1>1, InTimeKept DEF IInv, ComputedInTime
<1>6. \A m \in Node : step(m)' = step(m) /\ (Writing(m)' <=> Writing(m))
    BY <1>1 DEF step, Writing
<1>7. \A m \in Node, r \in 0 .. SUPER_STEP, c \in Chunk : Sent(m, r, c) => Sent(m, r, c)'
    BY <1>1, SentKept
<1>8. SentOnce' /\ UnderWay' /\ Received' /\ Complete'
    BY <1>1, <1>6, <1>7, NetSame
<1>9. QED BY <1>2, <1>4, <1>5, <1>8 DEF IInv

LEMMA LeaveBarrierInv ==
    ASSUME IInv, NEW n \in Node, LeaveBarrier(n)
    PROVE  IInv'
<1> USE DEF scheduleVars, computeVars, netVars
<1>1. /\ host[n] = "barrier" /\ BarrierOpen(n)
      /\ UNCHANGED <<schedule_txt, scheduleItem, gsRun, gsOut, applyRun,
                     propTemp, rdPropRun, wrPropRun, prop, trans, seen, vertexUpdate>>
    BY DEF LeaveBarrier
<1>2. /\ entered \in [Node -> 0 .. 2 * SUPER_STEP + 1]
      /\ host \in [Node -> {"load", "start", "wait", "barrier", "end"}]
      /\ super_step \in [Node -> 0 .. SUPER_STEP]
      /\ p \in [Node -> 0 .. total_p_num]
    BY DEF IInv, TypeOK
<1> DEFINE s == step(n)
           Between == /\ entered[n] = 2 * s /\ s > 0
                      /\ entered' = [entered EXCEPT ![n] = @ + 1]
                      /\ UNCHANGED <<super_step, p, host>>
           Left == /\ entered[n] = 2 * s + 1
                   /\ super_step' = [super_step EXCEPT ![n] = s]
                   /\ p' = [p EXCEPT ![n] = 0]
                   /\ host' = [host EXCEPT ![n] = IF s < SUPER_STEP THEN "start" ELSE "end"]
                   /\ UNCHANGED entered
<1>3. /\ s \in 0 .. SUPER_STEP
      /\ entered[n] \in {2 * s, 2 * s + 1} /\ entered[n] > 0
      /\ schedule_txt # <<>> /\ scheduleItem[n] = schedule_txt[n]
    <2>1. s \in 0 .. SUPER_STEP /\ entered[n] \in {2 * s, 2 * s + 1}
        BY NodeFacts DEF IInv
    <2>2. schedule_txt # <<>> /\ scheduleItem[n] = schedule_txt[n]
        BY <1>1 DEF IInv, HostsTogether
    <2>3. \/ super_step[n] = 0 /\ entered[n] = 1
          \/ entered[n] \in {2 * super_step[n] + 2, 2 * super_step[n] + 3}
        BY <1>1 DEF IInv, HostsTogether
    <2>4. QED BY <1>2, <2>1, <2>2, <2>3
<1>4. Between \/ Left
    <2>1. CASE entered[n] = 2 * s
        <3>1. entered[n] % 2 = 0 /\ s > 0
            BY <1>3, <2>1
        <3>2. QED BY <2>1, <3>1 DEF LeaveBarrier
    <2>2. CASE entered[n] = 2 * s + 1
        <3>1. entered[n] % 2 # 0 /\ (entered[n] - 1) \div 2 = s
            BY <1>3, <2>2
        <3>2. QED BY <2>2, <3>1 DEF LeaveBarrier
    <2>3. QED BY <1>3, <2>1, <2>2
<1>5. TypeOK'
    <2>1. CASE Between
        <3>1. entered[n] + 1 \in 0 .. 2 * SUPER_STEP + 1
            BY <1>3, <2>1
        <3>2. entered' \in [Node -> 0 .. 2 * SUPER_STEP + 1]
            BY <1>2, <2>1, <3>1
        <3>3. QED BY <1>1, <2>1, <3>2 DEF IInv, TypeOK
    <2>2. CASE Left
        <3>1. /\ super_step' \in [Node -> 0 .. SUPER_STEP]
              /\ p' \in [Node -> 0 .. total_p_num]
              /\ host' \in [Node -> {"load", "start", "wait", "barrier", "end"}]
            BY <1>2, <1>3, <2>2
        <3>2. QED BY <1>1, <2>2, <3>1 DEF IInv, TypeOK
    <2>3. QED BY <1>4, <2>1, <2>2
<1>6. \A m \in Node : m # n => /\ host'[m] = host[m] /\ entered'[m] = entered[m]
                               /\ super_step'[m] = super_step[m] /\ p'[m] = p[m]
    BY <1>2, <1>4
<1>7. Between => host'[n] = "barrier" /\ entered'[n] = entered[n] + 1
    BY <1>1, <1>2
<1>8. Left => /\ host'[n] = (IF s < SUPER_STEP THEN "start" ELSE "end")
              /\ super_step'[n] = s /\ p'[n] = 0 /\ entered'[n] = entered[n]
    BY <1>2
<1>9. \A m \in Node : step(m)' = step(m) /\ (Writing(m)' <=> Writing(m))
    <2>1. step(n)' = s
        <3>1. CASE Between
            <4>1. entered[n] > 1 /\ entered[n] + 1 > 1
                BY <1>3, <3>1
            <4>2. QED BY <1>1, <1>7, <3>1, <4>1 DEF step
        <3>2. CASE Left
            BY <1>8, <3>2 DEF step
        <3>3. QED BY <1>4, <3>1, <3>2
    <2>2. ~Writing(n)' /\ ~Writing(n)
        BY <1>1, <1>4, <1>7, <1>8 DEF Writing
    <2>3. ASSUME NEW m \in Node, m # n
          PROVE  step(m)' = step(m) /\ (Writing(m)' <=> Writing(m))
        BY <1>6, <2>3 DEF step, Writing
    <2>4. QED BY <2>1, <2>2, <2>3
<1>10. HostsTogether'
    <2>1. \A m \in Node : Alone(m)
        BY TogetherAndAlone DEF IInv
    <2>2. ASSUME NEW m \in Node PROVE Alone(m)'
        <3>1. CASE m # n
            BY <1>1, <1>6, <2>1, <3>1 DEF Alone, Active, schedule_num
        <3>2. CASE m = n /\ Between
            <4>1. /\ super_step'[n] = super_step[n] /\ super_step[n] < SUPER_STEP
                  /\ entered[n] = 2 * super_step[n] + 2
                <5>1. Alone(n) /\ entered[n] = 2 * s /\ super_step[n] \in Nat
                    BY <1>2, <2>1, <3>2
                <5>2. QED BY <1>1, <1>3, <3>2, <5>1 DEF Alone
            <4>2. entered'[n] = 2 * super_step[n] + 3
                BY <1>2, <1>7, <3>2, <4>1
            <4>3. QED BY <1>1, <1>3, <1>7, <3>2, <4>1, <4>2 DEF Alone, Active
        <3>3. CASE m = n /\ Left
            <4>1. scheduleItem[n] \in Seq(Partition) /\ schedule_num(n)' \in Nat
                BY <1>1 DEF IInv, TypeOK, schedule_num
            <4>2. CASE s < SUPER_STEP
                BY <1>1, <1>3, <1>8, <3>3, <4>1, <4>2 DEF Alone, Active
            <4>3. CASE s = SUPER_STEP
                BY <1>1, <1>3, <1>8, <3>3, <4>3 DEF Alone, Active
            <4>4. QED BY <1>3, <4>2, <4>3
        <3>4. QED BY <1>4, <3>1, <3>2, <3>3
    <2>3. ASSUME NEW m \in Node, NEW l \in Node
          PROVE  entered'[m] <= entered'[l] + IF host'[m] = "barrier" THEN 1 ELSE 0
        <3>1. /\ entered[m] \in Nat /\ entered[l] \in Nat /\ entered'[l] \in Nat
              /\ entered[l] <= entered'[l] /\ entered[n] <= entered[l]
            BY <1>1, <1>2, <1>4, <1>6, <1>7, <1>8 DEF BarrierOpen
        <3>2. CASE m = n
            BY <1>2, <1>4, <1>7, <1>8, <3>1, <3>2
        <3>3. CASE m # n
            <4>1. entered[m] <= entered[l] + IF host[m] = "barrier" THEN 1 ELSE 0
                BY DEF IInv, HostsTogether
            <4>2. CASE host[m] = "barrier"
                BY <1>6, <3>1, <3>3, <4>1, <4>2
            <4>3. CASE host[m] # "barrier"
                BY <1>6, <3>1, <3>3, <4>1, <4>3
            <4>4. QED BY <4>2, <4>3
        <3>4. QED BY <3>2, <3>3
    <2>4. schedule_txt' = <<>> \/ Dealt(schedule_txt')
        BY <1>1 DEF IInv, HostsTogether
    <2>5. QED BY <2>2, <2>3, <2>4 DEF HostsTogether, Alone
<1>11. ComputedInTime'
    <2>1. InTime(n)'
        <3>1. InTime(n) /\ ~Computing(n)
            BY <1>1 DEF IInv, ComputedInTime, Computing
        <3>2. /\ applyRun[n] # "run" /\ \A k \in Kernel : gsRun[n][k] # "run"
              /\ ~(rdPropRun[n] < PartPackets)
            BY <1>1, <3>1 DEF InTime
        <3>3. ~Computing(n)' /\ (Active(n)' => p'[n] = 0)
            BY <1>4, <1>7, <1>8 DEF Computing, Active
        <3>4. QED BY <1>1, <3>2, <3>3 DEF InTime
    <2>2. ASSUME NEW m \in Node, m # n PROVE InTime(m)'
        BY <1>1, <1>6, <2>2, InTimeKept DEF IInv, ComputedInTime
    <2>3. QED BY <2>1, <2>2 DEF ComputedInTime
<1>12. ASSUME NEW m \in Node, NEW r \in 0 .. SUPER_STEP, NEW c \in Chunk, Sent(m, r, c)
       PROVE  Sent(m, r, c)'
    <2>1. CASE m = n
        BY <1>1, <1>9, <1>12, <2>1 DEF Sent, Active
    <2>2. CASE m # n
        BY <1>1, <1>6, <1>12, <2>2, SentKept
    <2>3. QED BY <2>1, <2>2
<1>13. SentOnce' /\ UnderWay' /\ Received' /\ Complete'
    BY <1>1, <1>9, <1>12, NetSame
<1>14. QED BY <1>5, <1>10, <1>11, <1>13 DEF IInv

-----------------------------------------------------------------------------
(***************************************************************************)
(* The steps that move packets.                                            *)
(***************************************************************************)
LEMMA ReadPropInv ==
    ASSUME IInv, NEW n \in Node, ReadProp(n)
    PROVE  IInv'
<1> DEFINE q == item(n, p[n] - 1)
           chunk == <<q, rdPropRun[n] + 1>>
           packet == [chunk |-> chunk, version |-> propTemp[n][q]]
<1> USE DEF scheduleVars, hostVars, computeVars, netVars
<1>1. /\ rdPropRun[n] < PartPackets
      /\ trans' = [trans EXCEPT ![n] = Append(@, packet)]
      /\ rdPropRun' = [rdPropRun EXCEPT ![n] = @ + 1]
      /\ UNCHANGED <<schedule_txt, scheduleItem, super_step, p, host, entered, gsRun, gsOut,
                     applyRun, propTemp, wrPropRun, prop, seen, vertexUpdate>>
    BY DEF ReadProp
<1>2. /\ rdPropRun \in [Node -> 0 .. PartPackets]
      /\ trans \in [Node -> Seq([chunk : Chunk, version : Value])]
      /\ propTemp \in [Node -> [Partition -> Value]]
      /\ seen \in [Node -> [Node -> Nat]]
    BY DEF IInv, TypeOK, Idle
<1>3. InTime(n) /\ host[n] = "wait" /\ p[n] > 0 /\ Active(n)
    BY <1>1 DEF IInv, ComputedInTime, InTime, Active
<1>4. /\ step(n) = super_step[n] /\ step(n) \in 0 .. SUPER_STEP - 1
      /\ scheduleItem[n] \in Seq(Partition)
      /\ p[n] \in 1 .. Len(scheduleItem[n]) /\ p[n] \in DOMAIN scheduleItem[n]
    <2>1. /\ step(n) = super_step[n] /\ step(n) \in 0 .. SUPER_STEP /\ step(n) < SUPER_STEP
          /\ scheduleItem[n] \in Seq(Partition)
          /\ p[n] \in 0 .. Len(scheduleItem[n])
        BY <1>3, NodeFacts DEF IInv, schedule_num
    <2>2. QED BY <1>3, <2>1
<1>5. q = scheduleItem[n][p[n]] /\ q \in Partition
    BY <1>4 DEF item
<1>6. propTemp[n][q] = step(n) + 1
    BY <1>3, <1>4, <1>5, SMTT(30) DEF InTime
<1> DEFINE newSent == [chunk |-> chunk, version |-> step(n) + 1]
<1>7. /\ packet = newSent /\ chunk \in Chunk /\ chunk[1] = q /\ chunk[2] = rdPropRun[n] + 1
      /\ rdPropRun[n] \in 0 .. PartPackets
    BY <1>1, <1>2, <1>5, <1>6 DEF Chunk
<1> HIDE DEF chunk, packet
<1>8. /\ Len(trans'[n]) = Len(trans[n]) + 1 /\ trans'[n][Len(trans[n]) + 1] = packet
      /\ \A j \in 1 .. Len(trans[n]) : trans'[n][j] = trans[n][j]
      /\ \A m \in Node : m # n => trans'[m] = trans[m] /\ rdPropRun'[m] = rdPropRun[m]
      /\ rdPropRun'[n] = rdPropRun[n] + 1
      /\ \A m \in Node : Len(trans[m]) \in Nat /\ DOMAIN trans[m] = 1 .. Len(trans[m])
      /\ DOMAIN trans'[n] = 1 .. Len(trans[n]) + 1
    BY <1>1, <1>2
<1>9. TypeOK'
    <2>1. packet \in [chunk : Chunk, version : Value]
        BY <1>4, <1>7, SMTT(30) DEF Value, Version
    <2>2. trans' \in [Node -> Seq([chunk : Chunk, version : Value])]
        <3>1. Append(trans[n], packet) \in Seq([chunk : Chunk, version : Value])
            BY <1>2, <2>1, AppendOne
        <3>2. QED BY <1>1, <1>2, <3>1
    <2>3. rdPropRun' \in [Node -> 0 .. PartPackets]
        BY <1>1, <1>2
    <2>4. QED BY <1>1, <2>2, <2>3 DEF IInv, TypeOK, Idle
<1>10. HostsTogether'
    BY <1>1 DEF IInv, HostsTogether, Active, schedule_num
<1>11. ComputedInTime'
    <2>1. InTime(n)'
        BY <1>1, <1>3 DEF InTime, Computing, Active, item, schedule_num
    <2>2. ASSUME NEW m \in Node, m # n PROVE InTime(m)'
        BY <1>1, <1>8, <2>2, InTimeKept DEF IInv, ComputedInTime
    <2>3. QED BY <2>1, <2>2 DEF ComputedInTime
<1>12. \A m \in Node : step(m)' = step(m) /\ (Writing(m)' <=> Writing(m))
    BY <1>1 DEF step, Writing
<1>13. \A m \in Node : ~Sent(m, step(n), chunk)
    <2> SUFFICES ASSUME NEW m \in Node, Sent(m, step(n), chunk) PROVE FALSE
        OBVIOUS
    <2>1. PICK j \in DOMAIN scheduleItem[m] :
              /\ chunk[1] = scheduleItem[m][j]
              /\ \/ step(m) > step(n)
                 \/ /\ step(m) = step(n)
                    /\ \/ Active(m) /\ j < p[m]
                       \/ host[m] = "wait" /\ j = p[m] /\ chunk[2] <= rdPropRun[m]
        BY DEF Sent
    <2>2. m = n /\ j = p[n]
        BY <1>4, <1>5, <1>7, <2>1, OneSender DEF IInv
    <2>3. QED BY <1>4, <1>7, <2>1, <2>2
<1>14. ASSUME NEW r, r = step(n), NEW c, c = chunk
       PROVE  Sent(n, r, c)'
    <2>1. host'[n] = "wait" /\ p[n] = p'[n] /\ c[2] <= rdPropRun'[n]
        BY <1>1, <1>3, <1>7, <1>8, <1>14
    <2>2. QED BY <1>1, <1>4, <1>5, <1>7, <1>12, <1>14, <2>1 DEF Sent
<1>15. ASSUME NEW m \in Node, NEW r \in 0 .. SUPER_STEP, NEW c \in Chunk, Sent(m, r, c)
       PROVE  Sent(m, r, c)'
    <2>1. CASE m = n
        <3>1. c[2] <= rdPropRun[n] => c[2] <= rdPropRun'[n]
            BY <1>2, <1>8 DEF Chunk
        <3>2. QED BY <1>1, <1>12, <1>15, <2>1, <3>1 DEF Sent, Active
    <2>2. CASE m # n
        BY <1>1, <1>8, <1>15, <2>2, SentKept
    <2>3. QED BY <2>1, <2>2
<1>16. \A m \in Node : step(m) = step(n)
    <2> SUFFICES ASSUME NEW m \in Node, step(m) = step(n) + 1 PROVE FALSE
        BY <1>3, StepsApart DEF IInv
    <2>1. step(n) < step(m) /\ step(n) \in 0 .. SUPER_STEP
        BY <1>4
    <2>2. \E l \in Node : Sent(l, step(n), chunk)
        BY <1>7, <2>1 DEF IInv, Complete
    <2>3. QED BY <1>13, <2>2
<1>17. \A m \in Node : \A j \in DOMAIN trans[m] : trans[m][j] # packet
    <2> SUFFICES ASSUME NEW m \in Node, NEW j \in DOMAIN trans[m], trans[m][j] = packet
                 PROVE  FALSE
        OBVIOUS
    <2>1. PICK r \in 0 .. SUPER_STEP - 1, c \in Chunk :
              trans[m][j] = [chunk |-> c, version |-> r + 1] /\ Sent(m, r, c)
        BY DEF IInv, SentOnce
    <2>2. [chunk |-> c, version |-> r + 1] = newSent
        BY <1>7, <2>1
    <2>3. c = chunk /\ r + 1 = step(n) + 1
        BY <2>2
    <2>4. r = step(n)
        BY <1>4, <2>3
    <2>5. QED BY <1>13, <2>1, <2>3, <2>4
<1>18. SentOnce'
    <2>1. ASSUME NEW m \in Node, NEW j \in DOMAIN trans[m]
          PROVE  /\ \E r \in 0 .. SUPER_STEP - 1, c \in Chunk :
                       trans[m][j] = [chunk |-> c, version |-> r + 1] /\ Sent(m, r, c)'
                 /\ \A i \in DOMAIN trans[m] : trans[m][i] = trans[m][j] => i = j
        <3>1. PICK r \in 0 .. SUPER_STEP - 1, c \in Chunk :
                  trans[m][j] = [chunk |-> c, version |-> r + 1] /\ Sent(m, r, c)
            BY DEF IInv, SentOnce
        <3>2. r \in 0 .. SUPER_STEP
            OBVIOUS
        <3>3. Sent(m, r, c)'
            BY <1>15, <3>1, <3>2
        <3>4. QED BY <3>1, <3>3 DEF IInv, SentOnce
    <2>2. ASSUME NEW j \in DOMAIN trans'[n], NEW i \in DOMAIN trans'[n],
                 trans'[n][i] = trans'[n][j]
          PROVE  i = j
        <3>1. CASE i \in DOMAIN trans[n] /\ j \in DOMAIN trans[n]
            BY <1>8, <2>1, <2>2, <3>1
        <3>2. CASE i \in DOMAIN trans[n] /\ j = Len(trans[n]) + 1
            BY <1>8, <1>17, <2>2, <3>2
        <3>3. CASE i = Len(trans[n]) + 1 /\ j \in DOMAIN trans[n]
            BY <1>8, <1>17, <2>2, <3>3
        <3>4. QED BY <1>8, <3>1, <3>2, <3>3
    <2>3. ASSUME NEW j \in DOMAIN trans'[n]
          PROVE  \E r \in 0 .. SUPER_STEP - 1, c \in Chunk :
                     trans'[n][j] = [chunk |-> c, version |-> r + 1] /\ Sent(n, r, c)'
        <3>1. j \in DOMAIN trans[n] \/ j = Len(trans[n]) + 1
            BY <1>8
        <3>2. CASE j \in DOMAIN trans[n]
            <4>1. PICK r \in 0 .. SUPER_STEP - 1, c \in Chunk :
                      trans[n][j] = [chunk |-> c, version |-> r + 1] /\ Sent(n, r, c)'
                BY <2>1, <3>2
            <4>2. trans'[n][j] = [chunk |-> c, version |-> r + 1]
                BY <1>8, <3>2, <4>1
            <4>3. QED BY <4>1, <4>2
        <3>3. CASE j = Len(trans[n]) + 1
            <4>1. PICK r \in 0 .. SUPER_STEP - 1, c \in Chunk : r = step(n) /\ c = chunk
                BY <1>4, <1>7
            <4>2. Sent(n, r, c)'
                BY <1>14, <4>1
            <4>3. trans'[n][j] = [chunk |-> c, version |-> r + 1]
                BY <1>7, <1>8, <3>3, <4>1
            <4>4. QED BY <4>2, <4>3
        <3>4. QED BY <3>1, <3>2, <3>3
    <2>4. ASSUME NEW m \in Node, m # n, NEW j \in DOMAIN trans'[m]
          PROVE  /\ \E r \in 0 .. SUPER_STEP - 1, c \in Chunk :
                       trans'[m][j] = [chunk |-> c, version |-> r + 1] /\ Sent(m, r, c)'
                 /\ \A i \in DOMAIN trans'[m] : trans'[m][i] = trans'[m][j] => i = j
        <3>1. trans'[m] = trans[m] /\ j \in DOMAIN trans[m]
            BY <1>8, <2>4
        <3>2. PICK r \in 0 .. SUPER_STEP - 1, c \in Chunk :
                  trans[m][j] = [chunk |-> c, version |-> r + 1] /\ Sent(m, r, c)'
            BY <2>1, <3>1
        <3>3. \A i \in DOMAIN trans[m] : trans[m][i] = trans[m][j] => i = j
            BY <2>1, <3>1
        <3>4. QED BY <3>1, <3>2, <3>3
    <2>5. ASSUME NEW m \in Node, NEW j \in DOMAIN trans'[m]
          PROVE  /\ \E r \in 0 .. SUPER_STEP - 1, c \in Chunk :
                       trans'[m][j] = [chunk |-> c, version |-> r + 1] /\ Sent(m, r, c)'
                 /\ \A i \in DOMAIN trans'[m] : trans'[m][i] = trans'[m][j] => i = j
        <3>1. CASE m # n
            BY <2>4, <3>1
        <3>2. CASE m = n
            <4>1. PICK r \in 0 .. SUPER_STEP - 1, c \in Chunk :
                      trans'[n][j] = [chunk |-> c, version |-> r + 1] /\ Sent(n, r, c)'
                BY <2>3, <3>2
            <4>2. QED BY <2>2, <3>2, <4>1
        <3>3. QED BY <3>1, <3>2
    <2>6. QED BY <2>5 DEF SentOnce
<1>19. UnderWay'
    <2> SUFFICES ASSUME NEW l \in Node, NEW m \in Node
                 PROVE  /\ seen'[l][m] <= Len(trans'[m])
                        /\ \A j \in seen'[l][m] + 1 .. Len(trans'[m]) :
                              trans'[m][j].version = step(l)' + 1
        BY DEF UnderWay
    <2> SUFFICES /\ seen[l][m] <= Len(trans'[m])
                 /\ \A j \in seen[l][m] + 1 .. Len(trans'[m]) :
                       trans'[m][j].version = step(l) + 1
        BY <1>1, <1>12
    <2>1. /\ seen[l][m] <= Len(trans[m]) /\ seen[l][m] \in Nat
          /\ \A j \in seen[l][m] + 1 .. Len(trans[m]) : trans[m][j].version = step(l) + 1
        BY <1>2 DEF IInv, UnderWay
    <2>2. packet.version = step(l) + 1
        BY <1>7, <1>16
    <2>3. CASE m = n
        <3>1. seen[l][n] <= Len(trans'[n])
            BY <1>8, <2>1, <2>3
        <3>2. ASSUME NEW j \in seen[l][n] + 1 .. Len(trans'[n])
              PROVE  trans'[n][j].version = step(l) + 1
            <4>1. CASE j = Len(trans[n]) + 1
                BY <1>8, <2>2, <4>1
            <4>2. CASE j \in seen[l][n] + 1 .. Len(trans[n])
                <5>1. j \in 1 .. Len(trans[n])
                    BY <1>8, <2>1, <2>3, <4>2
                <5>2. QED BY <1>8, <2>1, <2>3, <4>2, <5>1
            <4>3. QED BY <1>8, <2>1, <2>3, <4>1, <4>2
        <3>3. QED BY <2>3, <3>1, <3>2
    <2>4. CASE m # n
        BY <1>8, <2>1, <2>4
    <2>5. QED BY <2>3, <2>4
<1>20. \A l \in Node : Delivered(l)' = Delivered(l)
    <2> SUFFICES ASSUME NEW l \in Node, NEW x
                 PROVE  x \in Delivered(l)' <=> x \in Delivered(l)
        OBVIOUS
    <2>1. \A m \in Node : \A j \in 1 .. seen[l][m] : trans'[m][j] = trans[m][j]
        <3> TAKE m \in Node
        <3>1. seen[l][m] <= Len(trans[m]) /\ seen[l][m] \in Nat
            BY <1>2 DEF IInv, UnderWay
        <3>2. QED BY <1>8, <3>1, SMTT(30)
    <2>2. x \in Delivered(l)
             <=> \E m \in Node : \E j \in 1 .. seen[l][m] : x = trans[m][j]
        BY DEF Delivered
    <2>3. x \in Delivered(l)'
             <=> \E m \in Node : \E j \in 1 .. seen'[l][m] : x = trans'[m][j]
        BY DEF Delivered
    <2>4. seen' = seen
        BY <1>1
    <2>5. QED BY <2>1, <2>2, <2>3, <2>4
<1>21. \A l \in Node, k \in Kernel : Stored(l, k)' = Stored(l, k)
    BY <1>1, <1>12 DEF Stored
<1>22. Received'
    BY <1>1, <1>12, <1>20, <1>21 DEF IInv, Received, ReceivedBy
<1>23. Complete'
    <2>1. \A m \in Node : step(m) \in 0 .. SUPER_STEP
        BY NodeFacts DEF IInv
    <2>2. QED BY <1>1, <1>12, <1>15, <2>1 DEF IInv, Complete
<1>24. QED BY <1>9, <1>10, <1>11, <1>18, <1>19, <1>22, <1>23 DEF IInv

LEMMA DeliverInv ==
    ASSUME IInv, NEW n \in Node, NEW m \in Node, Deliver(n, m)
    PROVE  IInv'
<1> DEFINE i == seen[n][m] + 1
           packet == trans[m][i]
<1> USE DEF scheduleVars, hostVars, computeVars
<1>1. /\ seen[n][m] < Len(trans[m])
      /\ seen' = [seen EXCEPT ![n][m] = i]
      /\ vertexUpdate' = [vertexUpdate EXCEPT ![n] = [k \in Kernel |-> Append(@[k], packet)]]
      /\ UNCHANGED <<schedule_txt, scheduleItem, super_step, p, host, entered, gsRun, gsOut,
                     applyRun, propTemp, rdPropRun, wrPropRun, prop, trans>>
    BY DEF Deliver
<1>2. /\ trans \in [Node -> Seq([chunk : Chunk, version : Value])]
      /\ seen \in [Node -> [Node -> Nat]]
      /\ vertexUpdate \in [Node -> [Kernel -> Seq([chunk : Chunk, version : Value])]]
    BY DEF IInv, TypeOK
<1>3. i \in DOMAIN trans[m] /\ i \in seen[n][m] + 1 .. Len(trans[m])
    BY <1>1, <1>2
<1>4. /\ packet \in [chunk : Chunk, version : Value] /\ packet.version = step(n) + 1
      /\ packet \notin Delivered(n)
    <2>1. packet \in [chunk : Chunk, version : Value]
        <3>1. trans[m] \in Seq([chunk : Chunk, version : Value])
            BY <1>2
        <3>2. QED BY <1>3, <3>1, ElementOf
    <2>2. packet.version = step(n) + 1
        BY <1>3 DEF IInv, UnderWay
    <2>3. packet \notin Delivered(n)
        BY <1>3, UnseenNotDelivered DEF IInv
    <2>4. QED BY <2>1, <2>2, <2>3
<1> HIDE DEF packet
<1>5. /\ seen'[n][m] = i /\ i \in Nat
      /\ \A l, j \in Node : l # n \/ j # m => seen'[l][j] = seen[l][j]
    BY <1>1, <1>2
<1>6. /\ \A k \in Kernel : vertexUpdate'[n][k] = Append(vertexUpdate[n][k], packet)
      /\ \A l \in Node : l # n => vertexUpdate'[l] = vertexUpdate[l]
    BY <1>1, <1>2
<1>7. TypeOK'
    <2>1. seen' \in [Node -> [Node -> Nat]]
        BY <1>1, <1>2
    <2>2. \A k \in Kernel : Append(vertexUpdate[n][k], packet)
                               \in Seq([chunk : Chunk, version : Value])
        <3> TAKE k \in Kernel
        <3>1. vertexUpdate[n][k] \in Seq([chunk : Chunk, version : Value])
            BY <1>2
        <3>2. QED BY <1>4, <3>1, AppendOne
    <2>3. vertexUpdate' \in [Node -> [Kernel -> Seq([chunk : Chunk, version : Value])]]
        <3>1. [k \in Kernel |-> Append(vertexUpdate[n][k], packet)]
                 \in [Kernel -> Seq([chunk : Chunk, version : Value])]
            BY <2>2
        <3>2. vertexUpdate' = [vertexUpdate EXCEPT ![n] =
                                  [k \in Kernel |-> Append(vertexUpdate[n][k], packet)]]
            BY <1>1
        <3>3. QED BY <1>2, <3>1, <3>2
    <2>4. QED BY <1>1, <2>1, <2>3 DEF IInv, TypeOK
<1>8. HostsTogether'
    BY <1>1 DEF IInv, HostsTogether, Active, schedule_num
<1>9. ComputedInTime'
    BY <1>1, InTimeKept DEF IInv, ComputedInTime
<1>10. \A l \in Node : step(l)' = step(l) /\ (Writing(l)' <=> Writing(l))
    BY <1>1 DEF step, Writing
<1>11. \A l \in Node, r \in 0 .. SUPER_STEP, c \in Chunk : Sent(l, r, c) => Sent(l, r, c)'
    BY <1>1, SentKept
<1>12. SentOnce' /\ Complete'
    BY <1>1, <1>10, <1>11, SentOnceKept, CompleteKept DEF IInv
<1>13. UnderWay'
    <2> SUFFICES ASSUME NEW l \in Node, NEW j \in Node
                 PROVE  /\ seen'[l][j] <= Len(trans[j])
                        /\ \A a \in seen'[l][j] + 1 .. Len(trans[j]) :
                              trans[j][a].version = step(l) + 1
        BY <1>1, <1>10 DEF UnderWay
    <2>1. /\ seen[l][j] <= Len(trans[j]) /\ seen[l][j] \in Nat /\ Len(trans[j]) \in Nat
          /\ \A a \in seen[l][j] + 1 .. Len(trans[j]) : trans[j][a].version = step(l) + 1
        <3>1. trans[j] \in Seq([chunk : Chunk, version : Value])
            BY <1>2
        <3>2. seen[l][j] \in Nat /\ Len(trans[j]) \in Nat
            BY <1>2, <3>1
        <3>3. QED BY <3>2 DEF IInv, UnderWay
    <2>2. CASE l = n /\ j = m
        BY <1>1, <1>5, <2>1, <2>2
    <2>3. CASE l # n \/ j # m
        BY <1>5, <2>1, <2>3
    <2>4. QED BY <2>2, <2>3
<1>14. \A l \in Node : Delivered(l) \subseteq Delivered(l)'
    <2> SUFFICES ASSUME NEW l \in Node, NEW x \in Delivered(l)
                 PROVE  x \in Delivered(l)'
        OBVIOUS
    <2>1. PICK j \in Node : \E a \in 1 .. seen[l][j] : x = trans[j][a]
        BY DEF Delivered
    <2>2. PICK a \in 1 .. seen[l][j] : x = trans[j][a]
        BY <2>1
    <2>3. a \in 1 .. seen'[l][j]
        <3>1. seen[l][j] \in Nat /\ seen[l][j] <= seen'[l][j] /\ seen'[l][j] \in Nat
            <4>1. CASE l = n /\ j = m
                BY <1>2, <1>5, <4>1
            <4>2. CASE l # n \/ j # m
                <5>1. seen'[l][j] = seen[l][j] /\ seen[l][j] \in Nat
                    BY <1>2, <1>5, <4>2
                <5>2. QED BY <5>1
            <4>3. QED BY <4>1, <4>2
        <3>2. QED BY <3>1
    <2>4. x = trans'[j][a]
        BY <1>1, <2>2
    <2>5. QED BY <2>3, <2>4 DEF Delivered
<1>15. packet \in Delivered(n)'
    <2>1. i \in 1 .. seen'[n][m] /\ packet = trans'[m][i]
        BY <1>1, <1>2, <1>5 DEF packet
    <2>2. QED BY <2>1 DEF Delivered
<1>16. \A l \in Node, k \in Kernel : Stored(l, k)' = Stored(l, k)
    BY <1>1, <1>10 DEF Stored
<1>17. ASSUME NEW l \in Node, NEW k \in Kernel PROVE ReceivedBy(l, k)'
    <2> DEFINE queue == vertexUpdate[l][k]
    <2>1. ReceivedBy(l, k)
        BY DEF IInv, Received
    <2>2. /\ \A c \in Stored(l, k)' : [chunk |-> c, version |-> step(l)' + 1] \in Delivered(l)'
          /\ wrPropRun'[l][k] =
                IF Writing(l)' THEN Cardinality(Stored(l, k)') ELSE packet_num
          /\ ~Writing(l)' => Stored(l, k)' = {}
        BY <1>1, <1>10, <1>14, <1>16, <2>1 DEF ReceivedBy
    <2>3. ASSUME NEW a \in DOMAIN queue
          PROVE  /\ queue[a].version = step(l) + 1 /\ queue[a] \in Delivered(l)
                 /\ queue[a] \in Delivered(l)' /\ queue[a].chunk \notin Stored(l, k)
                 /\ \A b \in DOMAIN queue : queue[a] = queue[b] => a = b
        BY <1>14, <2>1 DEF ReceivedBy
    <2>4. CASE l # n
        <3>1. vertexUpdate'[l][k] = queue
            BY <1>6, <2>4
        <3>2. QED BY <1>10, <1>16, <2>2, <2>3, <3>1 DEF ReceivedBy
    <2>5. CASE l = n
        <3> DEFINE queueNew == vertexUpdate'[n][k]
        <3>1. /\ queueNew = Append(queue, packet)
              /\ DOMAIN queue = 1 .. Len(queue) /\ Len(queue) \in Nat
              /\ DOMAIN queueNew = 1 .. Len(queue) + 1
              /\ queueNew[Len(queue) + 1] = packet
              /\ \A a \in 1 .. Len(queue) : queueNew[a] = queue[a]
            <4>1. queueNew = Append(queue, packet)
                BY <1>6, <2>5
            <4>2. vertexUpdate[l] \in [Kernel -> Seq([chunk : Chunk, version : Value])]
                BY <1>2
            <4>3. queue \in Seq([chunk : Chunk, version : Value])
                BY <4>2
            <4> HIDE DEF queue, queueNew
            <4>4. /\ DOMAIN queue = 1 .. Len(queue) /\ Len(queue) \in Nat
                  /\ DOMAIN queueNew = 1 .. Len(queueNew)
                BY <1>4, <4>1, <4>3, AppendOne
            <4>5. QED BY <1>4, <4>1, <4>3, <4>4, AppendOne
        <3>2. packet.chunk \notin Stored(n, k)
            <4>1. packet = [chunk |-> packet.chunk, version |-> step(n) + 1]
                BY <1>4
            <4>2. QED BY <1>4, <2>1, <2>5, <4>1 DEF ReceivedBy
        <3> HIDE DEF queue, queueNew
        <3>3. ASSUME NEW a \in DOMAIN queueNew
              PROVE  /\ queueNew[a].version = step(n) + 1 /\ queueNew[a] \in Delivered(n)'
                     /\ queueNew[a].chunk \notin Stored(n, k)
                     /\ \A b \in DOMAIN queueNew : queueNew[a] = queueNew[b] => a = b
            <4>1. a \in DOMAIN queue \/ a = Len(queue) + 1
                BY <3>1
            <4>2. CASE a \in DOMAIN queue
                <5>1. queueNew[a] = queue[a]
                    BY <3>1, <4>2
                <5>2. queue[a] # packet
                    BY <1>4, <2>3, <2>5, <4>2
                <5>3. \A b \in DOMAIN queueNew : queueNew[a] = queueNew[b] => a = b
                    BY <2>3, <3>1, <4>2, <5>1, <5>2
                <5>4. QED BY <2>3, <2>5, <4>2, <5>1, <5>3
            <4>3. CASE a = Len(queue) + 1
                <5>1. \A b \in DOMAIN queue : queue[b] # packet
                    BY <1>4, <2>3, <2>5
                <5>2. \A b \in DOMAIN queueNew : queueNew[a] = queueNew[b] => a = b
                    BY <3>1, <4>3, <5>1
                <5>3. QED BY <1>4, <1>15, <3>1, <3>2, <4>3, <5>2
            <4>4. QED BY <4>1, <4>2, <4>3
        <3>4. /\ \A a \in DOMAIN vertexUpdate'[l][k] :
                    /\ vertexUpdate'[l][k][a].version = step(l)' + 1
                    /\ vertexUpdate'[l][k][a] \in Delivered(l)'
                    /\ vertexUpdate'[l][k][a].chunk \notin Stored(l, k)'
                    /\ \A b \in DOMAIN vertexUpdate'[l][k] :
                          vertexUpdate'[l][k][a] = vertexUpdate'[l][k][b] => a = b
            BY <1>10, <1>16, <2>5, <3>3 DEF queueNew
        <3>5. QED BY <2>2, <3>4 DEF ReceivedBy
    <2>6. QED BY <2>4, <2>5
<1>18. Received'
    BY <1>17 DEF Received
<1>19. QED BY <1>7, <1>8, <1>9, <1>12, <1>13, <1>18 DEF IInv

LEMMA WritePropInv ==
    ASSUME IInv, NEW n \in Node, NEW k \in Kernel, WriteProp(n, k)
    PROVE  IInv'
<1> DEFINE queue == vertexUpdate[n][k]
           packet == Head(queue)
           filled == 1 - pingpong(n)
           Packet == [chunk : Chunk, version : Value]
<1> USE DEF scheduleVars, hostVars, computeVars
<1>1. /\ wrPropRun[n][k] < packet_num /\ queue # <<>>
      /\ prop' = [prop EXCEPT ![n][k][filled][packet.chunk] = packet.version]
      /\ wrPropRun' = [wrPropRun EXCEPT ![n][k] = @ + 1]
      /\ vertexUpdate' = [vertexUpdate EXCEPT ![n][k] = Tail(@)]
      /\ UNCHANGED <<schedule_txt, scheduleItem, super_step, p, host, entered, gsRun, gsOut,
                     applyRun, propTemp, rdPropRun, trans, seen>>
    BY DEF WriteProp
<1>2. /\ prop \in [Node -> [Kernel -> [0 .. 1 -> [Chunk -> Value]]]]
      /\ wrPropRun \in [Node -> [Kernel -> 0 .. packet_num]]
      /\ vertexUpdate \in [Node -> [Kernel -> Seq(Packet)]]
    BY DEF IInv, TypeOK
<1>3. ReceivedBy(n, k)
    BY DEF IInv, Received
<1>4. /\ Writing(n) /\ Active(n) /\ wrPropRun[n][k] = Cardinality(Stored(n, k))
      /\ step(n) = super_step[n] /\ step(n) \in 0 .. SUPER_STEP - 1
    <2>1. wrPropRun[n][k] \in 0 .. packet_num /\ packet_num \in Nat
        BY <1>2 DEF packet_num
    <2>2. Writing(n)
        BY <1>1, <1>3, <2>1 DEF ReceivedBy
    <2>3. Active(n)
        BY <2>2 DEF Writing, Active
    <2>4. QED BY <1>3, <2>2, <2>3, NodeFacts DEF IInv, ReceivedBy
<1>5. /\ queue \in Seq(Packet) /\ packet = queue[1] /\ 1 \in DOMAIN queue
      /\ Tail(queue) \in Seq(Packet)
      /\ \A i \in DOMAIN Tail(queue) : /\ i + 1 \in DOMAIN queue /\ i + 1 # 1
                                       /\ Tail(queue)[i] = queue[i + 1]
    <2>1. queue \in Seq(Packet)
        <3>1. vertexUpdate[n] \in [Kernel -> Seq(Packet)]
            BY <1>2
        <3>2. QED BY <3>1
    <2>2. /\ packet = queue[1] /\ Tail(queue) \in Seq(Packet)
          /\ \A i \in DOMAIN Tail(queue) : i + 1 \in DOMAIN queue /\ Tail(queue)[i] = queue[i + 1]
        BY <1>1, <2>1, HeadTail
    <2>3. 1 \in DOMAIN queue /\ \A i \in DOMAIN Tail(queue) : i + 1 # 1
        BY <1>1, <2>1, <2>2
    <2>4. QED BY <2>1, <2>2, <2>3
<1>6. \A i \in DOMAIN queue : queue[i] \in Packet
    BY <1>5, ElementOf
<1>7. /\ packet \in Packet /\ packet.chunk \in Chunk /\ packet.version = step(n) + 1
      /\ packet \in Delivered(n) /\ packet.chunk \notin Stored(n, k)
    <2>1. packet \in Packet /\ packet.version = step(n) + 1
          /\ packet \in Delivered(n) /\ packet.chunk \notin Stored(n, k)
        BY <1>3, <1>5, <1>6 DEF ReceivedBy
    <2>2. QED BY <2>1
<1>8. /\ filled \in 0 .. 1 /\ filled = 1 - (step(n) % 2) /\ filled # step(n) % 2
      /\ step(n) % 2 \in 0 .. 1
    BY <1>4, Parity DEF pingpong
<1> DEFINE chunk == packet.chunk
           array == [prop[n][k][filled] EXCEPT ![chunk] = step(n) + 1]
<1>9. /\ step(n) + 1 \in Value /\ prop[n][k][filled] \in [Chunk -> Value]
      /\ array \in [Chunk -> Value] /\ array[chunk] = step(n) + 1
      /\ \A c \in Chunk : c # chunk => array[c] = prop[n][k][filled][c]
    <2>1. step(n) + 1 \in Value
        BY <1>4 DEF Value, Version
    <2>2. prop[n][k][filled] \in [Chunk -> Value]
        BY <1>2, <1>8
    <2>3. QED BY <1>7, <2>1, <2>2
<1>10. prop' = [prop EXCEPT ![n][k][filled] = array]
    BY <1>1, <1>7
<1> HIDE DEF queue, packet, filled, array, chunk
<1>11. /\ prop'[n][k][filled] = array
       /\ \A l \in Node, j \in Kernel, a \in 0 .. 1 :
             l # n \/ j # k \/ a # filled => prop'[l][j][a] = prop[l][j][a]
       /\ prop' \in [Node -> [Kernel -> [0 .. 1 -> [Chunk -> Value]]]]
    <2> DEFINE pipeline == [prop[n][k] EXCEPT ![filled] = array]
    <2>2. /\ prop[n] \in [Kernel -> [0 .. 1 -> [Chunk -> Value]]]
          /\ prop[n][k] \in [0 .. 1 -> [Chunk -> Value]]
        BY <1>2
    <2>3. /\ pipeline \in [0 .. 1 -> [Chunk -> Value]] /\ pipeline[filled] = array
          /\ \A a \in 0 .. 1 : a # filled => pipeline[a] = prop[n][k][a]
        BY <1>8, <1>9, <2>2
    <2>4. prop' = [prop EXCEPT ![n][k] = pipeline]
        BY <1>10
    <2> HIDE DEF pipeline
    <2>5. /\ prop'[n][k] = pipeline
          /\ \A l \in Node, j \in Kernel : l # n \/ j # k => prop'[l][j] = prop[l][j]
          /\ prop' \in [Node -> [Kernel -> [0 .. 1 -> [Chunk -> Value]]]]
        BY <1>2, <2>2, <2>3, <2>4
    <2>6. QED BY <2>3, <2>5
<1>12. /\ vertexUpdate'[n][k] = Tail(queue) /\ wrPropRun'[n][k] = wrPropRun[n][k] + 1
       /\ \A l \in Node, j \in Kernel : l # n \/ j # k =>
             vertexUpdate'[l][j] = vertexUpdate[l][j] /\ wrPropRun'[l][j] = wrPropRun[l][j]
    BY <1>1, <1>2 DEF queue
<1>13. TypeOK'
    <2>1. vertexUpdate' \in [Node -> [Kernel -> Seq(Packet)]]
        <3>1. vertexUpdate' = [vertexUpdate EXCEPT ![n][k] = Tail(queue)]
            BY <1>1 DEF queue
        <3>2. QED BY <1>2, <1>5, <3>1
    <2>2. wrPropRun' \in [Node -> [Kernel -> 0 .. packet_num]]
        <3>1. wrPropRun[n][k] + 1 \in 0 .. packet_num
            BY <1>1, <1>2 DEF packet_num
        <3>2. QED BY <1>1, <1>2, <3>1
    <2>3. QED BY <1>1, <1>11, <2>1, <2>2 DEF IInv, TypeOK
<1>14. HostsTogether'
    BY <1>1 DEF IInv, HostsTogether, Active, schedule_num
<1>15. ComputedInTime'
    BY <1>1, InTimeKept DEF IInv, ComputedInTime
<1>16. \A l \in Node : step(l)' = step(l) /\ (Writing(l)' <=> Writing(l))
    BY <1>1 DEF step, Writing
<1>17. \A l \in Node, r \in 0 .. SUPER_STEP, c \in Chunk : Sent(l, r, c) => Sent(l, r, c)'
    BY <1>1, SentKept
<1>18. SentOnce' /\ UnderWay'
    BY <1>1, <1>16, <1>17, SentOnceKept DEF IInv, UnderWay
<1>19. Complete'
    <2>1. ASSUME NEW l \in Node, NEW j \in Kernel, NEW c \in Chunk
          PROVE  prop'[l][j][step(l) % 2][c] = prop[l][j][step(l) % 2][c]
        <3>1. step(l) % 2 \in 0 .. 1
            BY NodeFacts, Parity DEF IInv
        <3>2. QED BY <1>8, <1>11, <3>1
    <2>2. QED BY <1>16, <1>17, <2>1, CompleteKept
<1>20. \A l \in Node : Delivered(l)' = Delivered(l)
    BY <1>1 DEF Delivered
<1>21. \A l \in Node, j \in Kernel : l # n \/ j # k => Stored(l, j)' = Stored(l, j)
    <2> SUFFICES ASSUME NEW l \in Node, NEW j \in Kernel, l # n \/ j # k
                 PROVE  Stored(l, j)' = Stored(l, j)
        OBVIOUS
    <2>1. 1 - (step(l) % 2) \in 0 .. 1
        BY NodeFacts, Parity DEF IInv
    <2>2. prop'[l][j][1 - (step(l) % 2)] = prop[l][j][1 - (step(l) % 2)]
        BY <1>11, <2>1
    <2>3. QED BY <1>16, <2>2 DEF Stored
<1>22. Stored(n, k)' = Stored(n, k) \cup {chunk}
    <2>1. Stored(n, k)' = {c \in Chunk : array[c] = step(n) + 1}
        BY <1>8, <1>11, <1>16 DEF Stored
    <2>2. Stored(n, k) = {c \in Chunk : prop[n][k][filled][c] = step(n) + 1}
        BY <1>8 DEF Stored
    <2>3. chunk \in Chunk
        BY <1>7 DEF chunk
    <2>4. QED BY <1>9, <2>1, <2>2, <2>3
<1>23. Cardinality(Stored(n, k)') = Cardinality(Stored(n, k)) + 1
    <2>1. IsFiniteSet(Stored(n, k))
        BY ChunkCount, FS_Subset DEF Stored
    <2>2. chunk \notin Stored(n, k)
        BY <1>7 DEF chunk
    <2>3. QED BY <1>22, <2>1, <2>2, FS_AddElement
<1>24. ReceivedBy(n, k)'
    <2>1. packet = [chunk |-> chunk, version |-> step(n) + 1]
        BY <1>7 DEF chunk
    <2>2. ASSUME NEW i \in DOMAIN Tail(queue)
          PROVE  /\ Tail(queue)[i].version = step(n) + 1 /\ Tail(queue)[i] \in Delivered(n)
                 /\ Tail(queue)[i].chunk \notin Stored(n, k)'
                 /\ \A j \in DOMAIN Tail(queue) : Tail(queue)[i] = Tail(queue)[j] => i = j
        <3>1. /\ i + 1 \in DOMAIN queue /\ i + 1 # 1 /\ Tail(queue)[i] = queue[i + 1]
              /\ queue[i + 1] \in Packet /\ 1 \in DOMAIN queue /\ packet = queue[1]
            BY <1>5, <1>6
        <3>2. /\ queue[i + 1].version = step(n) + 1 /\ queue[i + 1] \in Delivered(n)
              /\ queue[i + 1].chunk \notin Stored(n, k) /\ queue[i + 1] # packet
            BY <1>3, <3>1 DEF ReceivedBy, queue
        <3>3. queue[i + 1].chunk # chunk
            BY <2>1, <3>1, <3>2
        <3>4. \A j \in DOMAIN Tail(queue) : Tail(queue)[i] = Tail(queue)[j] => i = j
            <4> SUFFICES ASSUME NEW j \in DOMAIN Tail(queue), Tail(queue)[i] = Tail(queue)[j]
                         PROVE  i = j
                OBVIOUS
            <4>1. j + 1 \in DOMAIN queue /\ queue[j + 1] = queue[i + 1]
                BY <1>5, <3>1
            <4>2. i + 1 = j + 1
                BY <1>3, <3>1, <4>1 DEF ReceivedBy, queue
            <4>3. i \in Int /\ j \in Int
                BY <1>5
            <4>4. QED BY <4>2, <4>3
        <3>5. QED BY <1>22, <3>1, <3>2, <3>3, <3>4
    <2>3. \A c \in Stored(n, k)' : [chunk |-> c, version |-> step(n) + 1] \in Delivered(n)
        BY <1>3, <1>7, <1>22, <2>1 DEF ReceivedBy
    <2>4. wrPropRun'[n][k] = Cardinality(Stored(n, k)')
        BY <1>4, <1>12, <1>23
    <2>5. QED BY <1>4, <1>12, <1>16, <1>20, <2>2, <2>3, <2>4 DEF ReceivedBy
<1>25. Received'
    <2>1. ASSUME NEW l \in Node, NEW j \in Kernel, l # n \/ j # k
          PROVE  ReceivedBy(l, j)'
        <3>1. ReceivedBy(l, j)
            BY DEF IInv, Received
        <3>2. QED BY <1>12, <1>16, <1>20, <1>21, <2>1, <3>1 DEF ReceivedBy
    <2>2. QED BY <1>24, <2>1 DEF Received
<1>26. QED BY <1>13, <1>14, <1>15, <1>18, <1>19, <1>25 DEF IInv

-----------------------------------------------------------------------------
(***************************************************************************)
(* The end of a superstep.                                                 *)
(***************************************************************************)
LEMMA WaitLastInv ==
    ASSUME IInv, NEW n \in Node, WaitLast(n)
    PROVE  IInv'
<1> DEFINE s == step(n)
           Packet == [chunk : Chunk, version : Value]
<1> USE DEF scheduleVars, computeVars, netVars
<1>1. /\ host[n] = "wait" /\ p[n] = schedule_num(n) /\ rdPropRun[n] = Idle /\ WritesDone(n)
      /\ host' = [host EXCEPT ![n] = "barrier"]
      /\ entered' = [entered EXCEPT ![n] = @ + 1]
      /\ UNCHANGED <<schedule_txt, scheduleItem, super_step, p, gsRun, gsOut, applyRun,
                     propTemp, rdPropRun, wrPropRun, prop, trans, seen, vertexUpdate>>
    BY DEF WaitLast
<1>2. /\ entered \in [Node -> 0 .. 2 * SUPER_STEP + 1]
      /\ host \in [Node -> {"load", "start", "wait", "barrier", "end"}]
      /\ prop \in [Node -> [Kernel -> [0 .. 1 -> [Chunk -> Value]]]]
      /\ trans \in [Node -> Seq(Packet)]
      /\ seen \in [Node -> [Node -> Nat]]
      /\ vertexUpdate \in [Node -> [Kernel -> Seq(Packet)]]
    BY DEF IInv, TypeOK
<1>3. /\ Active(n) /\ Writing(n) /\ s = super_step[n] /\ s \in 0 .. SUPER_STEP - 1
      /\ entered[n] = 2 * s + 1 /\ schedule_txt # <<>> /\ scheduleItem[n] = schedule_txt[n]
    <2>1. Active(n) /\ Writing(n)
        BY <1>1 DEF Active, Writing
    <2>2. s = super_step[n] /\ s \in 0 .. SUPER_STEP - 1
        BY <2>1, NodeFacts DEF IInv
    <2>3. /\ entered[n] = 2 * super_step[n] + 1
          /\ schedule_txt # <<>> /\ scheduleItem[n] = schedule_txt[n]
        BY <1>1, <2>1 DEF IInv, HostsTogether
    <2>4. QED BY <2>1, <2>2, <2>3
<1>4. /\ host'[n] = "barrier" /\ entered'[n] = 2 * s + 2
      /\ \A m \in Node : m # n => host'[m] = host[m] /\ entered'[m] = entered[m]
    BY <1>1, <1>2, <1>3
<1>5. TypeOK'
    <2>1. entered' \in [Node -> 0 .. 2 * SUPER_STEP + 1]
        <3>1. entered[n] + 1 \in 0 .. 2 * SUPER_STEP + 1
            BY <1>3
        <3>2. QED BY <1>1, <1>2, <3>1
    <2>2. host' \in [Node -> {"load", "start", "wait", "barrier", "end"}]
        BY <1>1, <1>2
    <2>3. QED BY <1>1, <2>1, <2>2 DEF IInv, TypeOK
<1>6. HostsTogether'
    <2>1. \A m \in Node : Alone(m)
        BY TogetherAndAlone DEF IInv
    <2>2. ASSUME NEW m \in Node PROVE Alone(m)'
        <3>1. CASE m = n
            BY <1>1, <1>3, <1>4, <3>1 DEF Alone, Active
        <3>2. CASE m # n
            BY <1>1, <1>4, <2>1, <3>2 DEF Alone, Active, schedule_num
        <3>3. QED BY <3>1, <3>2
    <2>3. ASSUME NEW m \in Node, NEW l \in Node
          PROVE  entered'[m] <= entered'[l] + IF host'[m] = "barrier" THEN 1 ELSE 0
        <3>1. /\ entered[m] \in Nat /\ entered[l] \in Nat /\ entered'[l] \in Nat
              /\ entered[l] <= entered'[l]
            <4>1. entered[m] \in Nat /\ entered[l] \in Nat
                BY <1>2
            <4>2. CASE l = n
                BY <1>3, <1>4, <4>1, <4>2
            <4>3. CASE l # n
                BY <1>4, <4>1, <4>3
            <4>4. QED BY <4>1, <4>2, <4>3
        <3>2. CASE m = n
            <4>1. entered[n] <= entered[l] + 0
                BY <1>1 DEF IInv, HostsTogether
            <4>2. QED BY <1>3, <1>4, <3>1, <3>2, <4>1
        <3>3. CASE m # n
            <4>1. entered[m] <= entered[l] + IF host[m] = "barrier" THEN 1 ELSE 0
                BY DEF IInv, HostsTogether
            <4>2. host'[m] = host[m] /\ entered'[m] = entered[m]
                BY <1>4, <3>3
            <4>3. CASE host[m] = "barrier"
                BY <3>1, <4>1, <4>2, <4>3
            <4>4. CASE host[m] # "barrier"
                BY <3>1, <4>1, <4>2, <4>4
            <4>5. QED BY <4>3, <4>4
        <3>4. QED BY <3>2, <3>3
    <2>4. schedule_txt' = <<>> \/ Dealt(schedule_txt')
        BY <1>1 DEF IInv, HostsTogether
    <2>5. QED BY <2>2, <2>3, <2>4 DEF HostsTogether, Alone
<1>7. ComputedInTime'
    <2>1. InTime(n)'
        <3>1. InTime(n) /\ schedule_num(n) \in Nat /\ p[n] \in Nat
            BY NodeFacts, <1>3 DEF IInv, ComputedInTime
        <3>2. ~Computing(n)
            BY <1>1, <3>1 DEF Computing
        <3>3. /\ applyRun[n] # "run" /\ \A k \in Kernel : gsRun[n][k] # "run"
              /\ ~(rdPropRun[n] < PartPackets)
            BY <1>1, <3>1, <3>2 DEF InTime, Idle
        <3>4. ~Computing(n)' /\ ~Active(n)'
            BY <1>4 DEF Computing, Active
        <3>5. QED BY <1>1, <3>3, <3>4 DEF InTime
    <2>2. ASSUME NEW m \in Node, m # n PROVE InTime(m)'
        BY <1>1, <1>4, <2>2, InTimeKept DEF IInv, ComputedInTime
    <2>3. QED BY <2>1, <2>2 DEF ComputedInTime
<1>8. /\ step(n)' = s + 1 /\ ~Writing(n)'
      /\ \A m \in Node : m # n => step(m)' = step(m) /\ (Writing(m)' <=> Writing(m))
    <2>1. step(n)' = s + 1
        BY <1>1, <1>3, <1>4 DEF step
    <2>2. QED BY <1>1, <1>4, <2>1 DEF step, Writing
<1>9. ASSUME NEW m \in Node, NEW r \in 0 .. SUPER_STEP, NEW c \in Chunk, Sent(m, r, c)
      PROVE  Sent(m, r, c)'
    <2>1. CASE m = n
        <3>1. PICK j \in DOMAIN scheduleItem[n] :
                  c[1] = scheduleItem[n][j] /\ (s > r \/ s = r)
            BY <1>9, <2>1 DEF Sent
        <3>2. s + 1 > r
            BY <1>3, <3>1
        <3>3. QED BY <1>1, <1>8, <2>1, <3>1, <3>2 DEF Sent
    <2>2. CASE m # n
        BY <1>1, <1>4, <1>9, <2>2, SentKept
    <2>3. QED BY <2>1, <2>2
<1>10. \A k \in Kernel : Stored(n, k) = Chunk
    <2> TAKE k \in Kernel
    <2>1. Cardinality(Stored(n, k)) = packet_num
        BY <1>1, <1>3 DEF IInv, Received, ReceivedBy, WritesDone
    <2>2. Stored(n, k) \subseteq Chunk
        BY DEF Stored
    <2>3. QED BY <2>1, <2>2, ChunkCount, FS_Subset
<1>11. \A c \in Chunk : [chunk |-> c, version |-> s + 1] \in Delivered(n)
    <2>1. 1 \in Kernel
        BY DEF Kernel
    <2>2. QED BY <1>10, <2>1 DEF IInv, Received, ReceivedBy
<1>12. ASSUME NEW c \in Chunk PROVE \E m \in Node : Sent(m, s, c)
    <2>1. PICK m \in Node :
              \E j \in 1 .. seen[n][m] : [chunk |-> c, version |-> s + 1] = trans[m][j]
        BY <1>11 DEF Delivered
    <2>2. PICK j \in 1 .. seen[n][m] : [chunk |-> c, version |-> s + 1] = trans[m][j]
        BY <2>1
    <2>3. j \in DOMAIN trans[m]
        <3>1. trans[m] \in Seq(Packet) /\ seen[n][m] \in Nat /\ seen[n][m] <= Len(trans[m])
            BY <1>2 DEF IInv, UnderWay
        <3>2. QED BY <3>1
    <2>4. PICK r \in 0 .. SUPER_STEP - 1, d \in Chunk :
              trans[m][j] = [chunk |-> d, version |-> r + 1] /\ Sent(m, r, d)
        BY <2>3 DEF IInv, SentOnce
    <2>5. [chunk |-> c, version |-> s + 1] = [chunk |-> d, version |-> r + 1]
        BY <2>2, <2>4
    <2>6. c = d /\ s + 1 = r + 1
        BY <2>5
    <2>7. r = s
        BY <1>3, <2>6
    <2>8. QED BY <2>4, <2>6, <2>7
<1>13. ASSUME NEW m \in Node PROVE seen[n][m] \in Nat /\ seen[n][m] = Len(trans[m])
    <2>1. /\ trans[m] \in Seq(Packet) /\ seen[n][m] \in Nat /\ seen[n][m] <= Len(trans[m])
          /\ Len(trans[m]) \in Nat
        <3>1. trans[m] \in Seq(Packet) /\ seen[n][m] \in Nat
            BY <1>2
        <3>2. QED BY <3>1 DEF IInv, UnderWay
    <2>2. ASSUME seen[n][m] # Len(trans[m]) PROVE FALSE
        <3>1. Len(trans[m]) \in seen[n][m] + 1 .. Len(trans[m])
            BY <2>1, <2>2
        <3>2. /\ Len(trans[m]) \in DOMAIN trans[m]
              /\ trans[m][Len(trans[m])] \notin Delivered(n)
            BY <3>1, UnseenNotDelivered DEF IInv
        <3>3. trans[m][Len(trans[m])] \in Packet
            BY <2>1, <3>2, ElementOf
        <3>4. trans[m][Len(trans[m])].version = s + 1
            BY <3>1 DEF IInv, UnderWay
        <3>5. trans[m][Len(trans[m])]
                 = [chunk |-> trans[m][Len(trans[m])].chunk, version |-> s + 1]
            BY <3>3, <3>4
        <3>6. QED BY <1>11, <3>2, <3>3, <3>5
    <2>3. QED BY <2>1, <2>2
<1>14. \A k \in Kernel : DOMAIN vertexUpdate[n][k] = {}
    <2> SUFFICES ASSUME NEW k \in Kernel, NEW i \in DOMAIN vertexUpdate[n][k] PROVE FALSE
        OBVIOUS
    <2>1. vertexUpdate[n][k] \in Seq(Packet)
        <3>1. vertexUpdate[n] \in [Kernel -> Seq(Packet)]
            BY <1>2
        <3>2. QED BY <3>1
    <2>2. vertexUpdate[n][k][i] \in Packet
        BY <2>1, ElementOf
    <2>3. vertexUpdate[n][k][i].chunk \notin Stored(n, k)
        BY DEF IInv, Received, ReceivedBy
    <2>4. QED BY <1>10, <2>2, <2>3
<1>15. SentOnce'
    BY <1>1, <1>9, SentOnceKept DEF IInv
<1>16. UnderWay'
    <2> SUFFICES ASSUME NEW l \in Node, NEW m \in Node
                 PROVE  /\ seen[l][m] <= Len(trans[m])
                        /\ \A j \in seen[l][m] + 1 .. Len(trans[m]) :
                              trans[m][j].version = step(l)' + 1
        BY <1>1 DEF UnderWay
    <2>1. CASE l = n
        BY <1>13, <2>1
    <2>2. CASE l # n
        BY <1>8, <2>2 DEF IInv, UnderWay
    <2>3. QED BY <2>1, <2>2
<1>17. s % 2 \in 0 .. 1 /\ (s + 1) % 2 = 1 - (s % 2) /\ 1 - ((s + 1) % 2) = s % 2
    BY <1>3, Parity
<1>18. Received'
    <2> SUFFICES ASSUME NEW l \in Node, NEW k \in Kernel PROVE ReceivedBy(l, k)'
        BY DEF Received
    <2>1. ReceivedBy(l, k) /\ Delivered(l)' = Delivered(l)
        BY <1>1 DEF IInv, Received, Delivered
    <2>2. CASE l # n
        <3>1. Stored(l, k)' = Stored(l, k)
            BY <1>1, <1>8, <2>2 DEF Stored
        <3>2. QED BY <1>1, <1>8, <2>1, <2>2, <3>1 DEF ReceivedBy
    <2>3. CASE l = n
        <3>1. \A c \in Chunk : prop[n][k][s % 2][c] = s
            BY DEF IInv, Complete
        <3>2. Stored(n, k)' = {}
            <4>1. s # s + 1 + 1
                BY <1>3
            <4>2. \A c \in Chunk : prop'[n][k][1 - ((s + 1) % 2)][c] # s + 1 + 1
                BY <1>1, <1>17, <3>1, <4>1
            <4>3. QED BY <1>8, <4>2 DEF Stored
        <3>3. wrPropRun'[n][k] = packet_num
            BY <1>1 DEF WritesDone
        <3>4. DOMAIN vertexUpdate'[n][k] = {}
            BY <1>1, <1>14
        <3>5. QED BY <1>8, <2>3, <3>2, <3>3, <3>4 DEF ReceivedBy
    <2>4. QED BY <2>2, <2>3
<1>19. Complete'
    <2> SUFFICES ASSUME NEW l \in Node
                 PROVE  /\ \A k \in Kernel, c \in Chunk :
                              prop[l][k][step(l)' % 2][c] = step(l)'
                        /\ \A r \in 0 .. SUPER_STEP, c \in Chunk :
                              r < step(l)' => \E m \in Node : Sent(m, r, c)'
        BY <1>1 DEF Complete
    <2>1. CASE l # n
        BY <1>8, <1>9, <2>1 DEF IInv, Complete
    <2>2. CASE l = n
        <3>1. \A k \in Kernel, c \in Chunk : prop[n][k][(s + 1) % 2][c] = s + 1
            BY <1>10, <1>17 DEF Stored
        <3>2. ASSUME NEW r \in 0 .. SUPER_STEP, NEW c \in Chunk, r < s + 1
              PROVE  \E m \in Node : Sent(m, r, c)
            <4>1. CASE r = s
                BY <1>12, <4>1
            <4>2. CASE r < s
                BY <4>2 DEF IInv, Complete
            <4>3. QED BY <1>3, <3>2, <4>1, <4>2
        <3>3. QED BY <1>8, <1>9, <2>2, <3>1, <3>2
    <2>3. QED BY <2>1, <2>2
<1>20. QED BY <1>5, <1>6, <1>7, <1>15, <1>16, <1>18, <1>19 DEF IInv

-----------------------------------------------------------------------------
(***************************************************************************)
(* The promises.                                                           *)
(***************************************************************************)
LEMMA StutterInv == ASSUME IInv, UNCHANGED vars PROVE IInv'
<1>1. UNCHANGED <<schedule_txt, scheduleItem, super_step, p, host, entered, gsRun, gsOut,
                  applyRun, propTemp, rdPropRun, wrPropRun, prop, trans, seen, vertexUpdate>>
    BY DEF vars, scheduleVars, hostVars, computeVars, netVars
<1>2. TypeOK'
    BY <1>1 DEF IInv, TypeOK
<1>3. HostsTogether'
    BY <1>1 DEF IInv, HostsTogether, Active, schedule_num
<1>4. ComputedInTime'
    BY <1>1, InTimeKept DEF IInv, ComputedInTime
<1>5. \A m \in Node : step(m)' = step(m) /\ (Writing(m)' <=> Writing(m))
    BY <1>1 DEF step, Writing
<1>6. \A m \in Node, r \in 0 .. SUPER_STEP, c \in Chunk : Sent(m, r, c) => Sent(m, r, c)'
    BY <1>1, SentKept
<1>7. SentOnce' /\ UnderWay' /\ Received' /\ Complete'
    BY <1>1, <1>5, <1>6, NetSame DEF netVars
<1>8. QED BY <1>2, <1>3, <1>4, <1>7 DEF IInv

LEMMA NextInv == ASSUME IInv, [Next \/ ScheduleWritten]_vars PROVE IInv'
<1>1. CASE UNCHANGED vars
    BY <1>1, StutterInv
<1>2. CASE ScheduleWritten
    BY <1>2, ScheduleWrittenInv
<1>3. CASE Next
    <2>1. CASE Terminated
        BY <2>1, StutterInv DEF Terminated
    <2>2. ASSUME NEW n \in Node, Host(n) PROVE IInv'
        BY <2>2, LoadInv, StartInv, WaitIterationInv, WaitLastInv, LeaveBarrierInv DEF Host
    <2>3. ASSUME NEW n \in Node, ApplyAndWrite(n) PROVE IInv'
        BY <2>3, ApplyAndWriteInv
    <2>4. ASSUME NEW n \in Node, ReadProp(n) PROVE IInv'
        BY <2>4, ReadPropInv
    <2>5. ASSUME NEW n \in Node, NEW k \in Kernel, GatherScatter(n, k) PROVE IInv'
        BY <2>5, GatherScatterInv
    <2>6. ASSUME NEW n \in Node, NEW k \in Kernel, WriteProp(n, k) PROVE IInv'
        BY <2>6, WritePropInv
    <2>7. ASSUME NEW n \in Node, NEW m \in Node, Deliver(n, m) PROVE IInv'
        BY <2>7, DeliverInv
    <2>8. QED BY <1>3, <2>1, <2>2, <2>3, <2>4, <2>5, <2>6, <2>7 DEF Next, KernelStep
<1>4. QED BY <1>1, <1>2, <1>3

\* The barriers of the hosts, the counting writeProp kernels and the ring
\* together keep IInv: every run of the supersteps stays in step.
THEOREM Invariance == DealtSpec => []IInv
<1>1. Init /\ schedule_txt = <<>> => IInv
    BY InitInv
<1>2. IInv /\ [Next \/ ScheduleWritten]_vars => IInv'
    BY NextInv
<1>3. QED BY <1>1, <1>2, PTL DEF DealtSpec

\* Every variable keeps its type; entered, p and the counters of the kernels
\* stay within what the loops of the host and of writeProp allow.
THEOREM TypeCorrect == DealtSpec => []TypeOK
<1>1. IInv => TypeOK
    BY DEF IInv
<1>2. QED BY <1>1, Invariance, PTL

\* While a host is inside of superstep s, the array its gather-scatter kernels
\* read is the complete result of superstep s - 1 in every pipeline's copy.
THEOREM SnapshotIsComplete == DealtSpec => []SnapshotComplete
<1>1. IInv => SnapshotComplete
    <2> SUFFICES ASSUME IInv, NEW n \in Node, NEW k \in Kernel, NEW c \in Chunk, Active(n)
                 PROVE  prop[n][k][pingpong(n)][c] = super_step[n]
        BY DEF SnapshotComplete, Active
    <2>1. step(n) = super_step[n]
        BY NodeFacts DEF IInv
    <2>2. QED BY <2>1 DEF IInv, Complete, pingpong
<1>2. QED BY <1>1, Invariance, PTL

\* What waits in front of a writeProp that is still counting was computed in the
\* superstep of its host, however far the other FPGAs are.
THEOREM NoPacketIsFromAnotherStep == DealtSpec => []NoPacketFromAnotherStep
<1>1. IInv => NoPacketFromAnotherStep
    <2> SUFFICES ASSUME IInv, NEW n \in Node, NEW k \in Kernel, wrPropRun[n][k] < packet_num,
                        NEW i \in DOMAIN vertexUpdate[n][k]
                 PROVE  vertexUpdate[n][k][i].version = super_step[n] + 1
        BY DEF NoPacketFromAnotherStep
    <2>1. ReceivedBy(n, k) /\ wrPropRun[n][k] # packet_num
        BY DEF IInv, Received, packet_num, TypeOK
    <2>2. Writing(n)
        BY <2>1 DEF ReceivedBy
    <2>3. step(n) = super_step[n]
        BY <2>2, NodeFacts DEF IInv, Writing, Active
    <2>4. QED BY <2>1, <2>3 DEF ReceivedBy
<1>2. QED BY <1>1, Invariance, PTL

\* readProp sends a partition only after streamWrite has stored all of it for
\* this superstep, although the next partition is being written meanwhile.
THEOREM SentAreFinal == DealtSpec => []SentResultsAreFinal
<1>1. IInv => SentResultsAreFinal
    <2> SUFFICES ASSUME IInv, NEW n \in Node, rdPropRun[n] < PartPackets
                 PROVE  propTemp[n][item(n, p[n] - 1)] = super_step[n] + 1
        BY DEF SentResultsAreFinal
    <2>1. InTime(n) /\ host[n] = "wait" /\ p[n] > 0 /\ p[n] \in Nat
        BY DEF IInv, ComputedInTime, InTime, TypeOK
    <2>2. \A j \in 1 .. p[n] : propTemp[n][scheduleItem[n][j]] = super_step[n] + 1
        BY <2>1 DEF InTime, Active
    <2>3. p[n] \in 1 .. p[n] /\ p[n] - 1 + 1 = p[n]
        BY <2>1
    <2>4. QED BY <2>2, <2>3 DEF item
<1>2. QED BY <1>1, Invariance, PTL

\* When a host has left its loop, every copy of the array on its FPGA holds the
\* properties after the last superstep, for every vertex of the graph.
THEOREM AllCopiesAgree == DealtSpec => []CopiesAgree
<1>1. IInv => CopiesAgree
    <2> SUFFICES ASSUME IInv, NEW n \in Node, NEW k \in Kernel, NEW c \in Chunk, host[n] = "end"
                 PROVE  prop[n][k][SUPER_STEP % 2][c] = SUPER_STEP
        BY DEF CopiesAgree
    <2>1. step(n) = SUPER_STEP
        BY DEF IInv, HostsTogether, step
    <2>2. QED BY <2>1 DEF IInv, Complete
<1>2. QED BY <1>1, Invariance, PTL

-----------------------------------------------------------------------------
(* The bring-up of the network. *)

\* The neighbours of a node are nodes, and a node is the upper worker of its lower one.
LEMMA Neighbours ==
    ASSUME NEW n \in Node
    PROVE  /\ lower_worker_idx(n) \in Node /\ upper_worker_idx(n) \in Node
           /\ upper_worker_idx(lower_worker_idx(n)) = n
BY RingAssumption DEF Node, lower_worker_idx, upper_worker_idx

\* Two neighbours that are through with their bring-up are connected.
LEMMA DoneReach ==
    ASSUME Registers, NEW n \in Node, bringUp[n] = "done",
           bringUp[lower_worker_idx(n)] = "done"
    PROVE  Reaches(n)
<1> DEFINE m == lower_worker_idx(n)
<1>1. m \in Node /\ upper_worker_idx(m) = n
    BY Neighbours
<1>2. my_ip[n] = ip_addr(n) /\ my_ip[m] = ip_addr(m) /\ IsARPTableFound(n)
    BY <1>1 DEF Registers
<1>3. socket[n] = sockets(n) /\ socket[m] = sockets(m)
    BY <1>1 DEF Registers
<1>4. 1 \in DOMAIN socket[n] /\ socket[n][1] = setSocket(ip_addr(m), rx_port, tx_port)
    BY <1>3 DEF sockets
<1>5. 0 \in DOMAIN socket[m] /\ socket[m][0] = setSocket(ip_addr(n), tx_port, rx_port)
    BY <1>1, <1>3 DEF sockets
<1>6. socket[n][1].theirIP = my_ip[m]
    BY <1>2, <1>4 DEF setSocket
<1>7. my_ip[m] \in arpTable[n]
    BY <1>2 DEF IsARPTableFound
<1>8. socket[m][0] = setSocket(my_ip[n], socket[n][1].myPort, socket[n][1].theirPort)
    BY <1>2, <1>4, <1>5 DEF setSocket
<1>9. Accepts(m, [srcIP |-> my_ip[n], srcPort |-> socket[n][1].myPort,
                  dstPort |-> socket[n][1].theirPort])
    BY <1>5, <1>8 DEF Accepts
<1>10. QED BY <1>4, <1>6, <1>7, <1>9 DEF Reaches

LEMMA InvGivesReady == ReadyInv => NetworkReady
<1> SUFFICES ASSUME ReadyInv, NEW n \in Node, trans[n] # <<>>, NEW m \in Node
             PROVE  Reaches(m)
    BY DEF NetworkReady
<1>1. \A k \in Node : entered[k] >= 1
    BY DEF ReadyInv, HostsKnow
<1>2. \A k \in Node : bringUp[k] = "done"
    BY <1>1 DEF ReadyInv, HostsKnow
<1>3. QED BY <1>2, DoneReach, Neighbours DEF ReadyInv

LEMMA InitReady == DeploymentInit => ReadyInv
<1> SUFFICES ASSUME NetworkInit, Init PROVE ReadyInv
    BY DEF DeploymentInit
<1>1. NetworkTypeOK
    BY DEF NetworkInit, NetworkTypeOK
<1>2. Registers
    BY DEF NetworkInit, Registers
<1>3. HostTypes
    BY DEF Init, HostTypes
<1>4. HostsKnow
    BY DEF Init, HostsKnow, InSupersteps, Idle
<1>5. QED BY <1>1, <1>2, <1>3, <1>4 DEF ReadyInv

\* What a step of the bring-up changes is in the registers of one node.
LEMMA BringUpReady ==
    ASSUME ReadyInv, InBringUp(NetworkNext)
    PROVE  ReadyInv'
<1> USE DEF ReadyInv
<1>1. PICK n \in Node : BringUp(n) \/ LinkUp(n) \/ RunARPDiscovery(n)
    BY DEF InBringUp, NetworkNext
<1>2. UNCHANGED <<host, entered, rdPropRun, trans>>
    BY DEF InBringUp, vars, hostVars, netVars
<1>3. NetworkTypeOK'
    BY <1>1 DEF NetworkTypeOK, BringUp, LoadXclbin, WaitLink, SetAddress, SetSockets, ARPReady,
                LinkUp, RunARPDiscovery
<1>4. Registers'
  <2>1. CASE LoadXclbin(n) \/ WaitLink(n)
    BY <2>1 DEF NetworkTypeOK, Registers, IsARPTableFound, LoadXclbin, WaitLink
  <2>2. CASE SetAddress(n)
    BY <2>2 DEF NetworkTypeOK, Registers, IsARPTableFound, SetAddress
  <2>3. CASE SetSockets(n)
    BY <2>3 DEF NetworkTypeOK, Registers, IsARPTableFound, SetSockets
  <2>4. CASE ARPReady(n)
    BY <2>4 DEF NetworkTypeOK, Registers, IsARPTableFound, ARPReady
  <2>5. CASE LinkUp(n)
    BY <2>5 DEF NetworkTypeOK, Registers, IsARPTableFound, LinkUp
  <2>6. CASE RunARPDiscovery(n)
    BY <2>6 DEF NetworkTypeOK, Registers, IsARPTableFound, RunARPDiscovery
  <2>7. QED BY <1>1, <2>1, <2>2, <2>3, <2>4, <2>5, <2>6 DEF BringUp
<1>5. \A m \in Node : bringUp[m] = "done" => bringUp'[m] = "done"
    BY <1>1 DEF NetworkTypeOK, BringUp, LoadXclbin, WaitLink, SetAddress, SetSockets, ARPReady,
                LinkUp, RunARPDiscovery
<1>6. HostsKnow' /\ HostTypes'
    BY <1>2, <1>5 DEF HostsKnow, HostTypes, InSupersteps, Idle
<1>7. QED BY <1>3, <1>4, <1>6

\* Steps of the rest leave the registers as they are.
LEMMA SameRegisters ==
    ASSUME NetworkTypeOK, Registers, UNCHANGED networkVars
    PROVE  NetworkTypeOK' /\ Registers'
BY DEF networkVars, NetworkTypeOK, Registers, IsARPTableFound

LEMMA HostReady ==
    ASSUME ReadyInv, NEW n \in Node, HostStep(n)
    PROVE  ReadyInv'
<1> USE DEF ReadyInv
<1>1. NetworkTypeOK' /\ Registers' /\ UNCHANGED bringUp
    BY SameRegisters DEF HostStep, networkVars
<1>2. bringUp[n] = "done"
    BY DEF HostStep, HostsKnow
<1>3. HostTypes' /\ HostsKnow'
  <2>1. CASE Load(n)
    <3>1. entered[n] = 0 /\ entered' = [entered EXCEPT ![n] = @ + 1]
        BY <2>1 DEF Load, HostsKnow
    <3>2. host' = [host EXCEPT ![n] = "barrier"] /\ UNCHANGED <<rdPropRun, trans>>
        BY <2>1 DEF Load, netVars
    <3>3. HostTypes'
        BY <3>1, <3>2 DEF HostTypes
    <3>4. HostsKnow'
        BY <1>1, <1>2, <3>1, <3>2 DEF HostTypes, HostsKnow, InSupersteps, Idle
    <3>5. QED BY <3>3, <3>4
  <2>2. CASE Start(n)
    <3>1. host[n] = "start" /\ UNCHANGED <<entered, trans>>
        BY <2>2 DEF Start, StartFirst, StartMiddle, StartLast, netVars
    <3>2. host' = [host EXCEPT ![n] = "wait"]
        BY <2>2 DEF Start
    <3>3. rdPropRun' = rdPropRun \/ rdPropRun' = [rdPropRun EXCEPT ![n] = 0]
        BY <2>2 DEF Start, StartFirst, StartMiddle, StartLast
    <3>4. HostTypes'
        BY <3>1, <3>2, <3>3 DEF HostTypes
    <3>5. HostsKnow'
        BY <1>1, <1>2, <3>1, <3>2, <3>3 DEF HostTypes, HostsKnow, InSupersteps, Idle
    <3>6. QED BY <3>4, <3>5
  <2>3. CASE WaitIteration(n)
    <3>1. host[n] = "wait" /\ host' = [host EXCEPT ![n] = "start"]
        BY <2>3 DEF WaitIteration
    <3>2. UNCHANGED <<entered, rdPropRun, trans>>
        BY <2>3 DEF WaitIteration, netVars
    <3>3. HostTypes'
        BY <3>1, <3>2 DEF HostTypes
    <3>4. HostsKnow'
        BY <1>1, <1>2, <3>1, <3>2 DEF HostTypes, HostsKnow, InSupersteps, Idle
    <3>5. QED BY <3>3, <3>4
  <2>4. CASE WaitLast(n)
    <3>1. host[n] = "wait" /\ host' = [host EXCEPT ![n] = "barrier"]
        BY <2>4 DEF WaitLast
    <3>2. entered' = [entered EXCEPT ![n] = @ + 1] /\ UNCHANGED <<rdPropRun, trans>>
        BY <2>4 DEF WaitLast, netVars
    <3>3. HostTypes'
        BY <3>1, <3>2 DEF HostTypes
    <3>4. \A m \in Node : entered[m] >= 1 /\ entered'[m] >= 1
        BY <3>1, <3>2 DEF HostTypes, HostsKnow, InSupersteps
    <3>5. HostsKnow'
        BY <1>1, <1>2, <3>1, <3>2, <3>4 DEF HostTypes, HostsKnow
    <3>6. QED BY <3>3, <3>5
  <2>5. CASE LeaveBarrier(n)
    <3>1. host[n] = "barrier" /\ entered[n] # 0
        BY <2>5 DEF LeaveBarrier, HostsKnow
    <3>2. \A m \in Node : entered[m] >= 1
        BY <2>5, <3>1 DEF LeaveBarrier, BarrierOpen, HostTypes
    <3>3. \/ entered' = [entered EXCEPT ![n] = @ + 1] /\ UNCHANGED host
          \/ UNCHANGED entered /\ host' = [host EXCEPT ![n] = "start"]
          \/ UNCHANGED entered /\ host' = [host EXCEPT ![n] = "end"]
        BY <2>5 DEF LeaveBarrier
    <3>4. UNCHANGED <<rdPropRun, trans>>
        BY <2>5 DEF LeaveBarrier, netVars
    <3>5. HostTypes'
        BY <3>3, <3>4 DEF HostTypes
    <3>6. \A m \in Node : entered'[m] >= 1 /\ host'[m] # "load"
        BY <3>1, <3>2, <3>3 DEF HostTypes, HostsKnow
    <3>7. HostsKnow'
        BY <1>1, <1>2, <3>1, <3>2, <3>3, <3>6 DEF HostTypes, HostsKnow
    <3>8. QED BY <3>5, <3>7
  <2>6. QED BY <2>1, <2>2, <2>3, <2>4, <2>5 DEF HostStep, Host
<1>4. QED BY <1>1, <1>3

\* readProp, which was started in a superstep, is the only one to send.
LEMMA KernelReady ==
    ASSUME ReadyInv, NEW n \in Node, KernelStep(n), UNCHANGED networkVars
    PROVE  ReadyInv'
<1> USE DEF ReadyInv
<1>1. NetworkTypeOK' /\ Registers' /\ UNCHANGED bringUp
    BY SameRegisters DEF networkVars
<1>2. UNCHANGED <<host, entered>>
    BY DEF KernelStep, ApplyAndWrite, ReadProp, GatherScatter, WriteProp, Deliver, hostVars
<1>3. CASE ReadProp(n)
  <2>1. rdPropRun[n] # Idle
    BY <1>3, SuperstepAssumption DEF ReadProp, Idle
  <2>2. \A m \in Node : entered[m] >= 1
    BY <2>1 DEF HostsKnow
  <2>3. HostTypes'
    BY <1>2, <1>3 DEF HostTypes, ReadProp
  <2>4. HostsKnow'
    BY <1>1, <1>2, <2>2 DEF HostsKnow
  <2>5. QED BY <1>1, <2>3, <2>4
<1>4. CASE ~ReadProp(n)
  <2>1. UNCHANGED <<rdPropRun, trans>>
    BY <1>4 DEF KernelStep, ApplyAndWrite, GatherScatter, WriteProp, Deliver, netVars
  <2>2. HostTypes' /\ HostsKnow'
    BY <1>1, <1>2, <2>1 DEF HostTypes, HostsKnow, InSupersteps, Idle
  <2>3. QED BY <1>1, <2>2
<1>5. QED BY <1>3, <1>4

LEMMA NothingChanges ==
    ASSUME ReadyInv, UNCHANGED <<host, entered, rdPropRun, trans, networkVars>>
    PROVE  ReadyInv'
BY SameRegisters DEF ReadyInv, HostTypes, HostsKnow, InSupersteps, Idle, networkVars

LEMMA NextReady == ReadyInv /\ [DeploymentNext]_allVars => ReadyInv'
<1> SUFFICES ASSUME ReadyInv, [DeploymentNext]_allVars PROVE ReadyInv'
    OBVIOUS
<1>1. CASE PartitionerStep
    BY <1>1, NothingChanges DEF PartitionerStep, vars, hostVars, netVars
<1>2. CASE SchedulerStep
    BY <1>2, NothingChanges DEF SchedulerStep, hostVars, netVars
<1>3. CASE InBringUp(NetworkNext)
    BY <1>3, BringUpReady
<1>4. CASE \E n \in Node : HostStep(n)
    BY <1>4, HostReady
<1>5. CASE (\E n \in Node : KernelStep(n)) /\ UNCHANGED <<offlineVars, networkVars>>
    BY <1>5, KernelReady
<1>6. CASE Terminated /\ UNCHANGED <<offlineVars, networkVars>>
    BY <1>6, NothingChanges DEF Terminated, vars, hostVars, netVars
<1>7. CASE UNCHANGED allVars
    BY <1>7, NothingChanges DEF allVars, vars, hostVars, netVars
<1>8. QED BY <1>1, <1>2, <1>3, <1>4, <1>5, <1>6, <1>7 DEF DeploymentNext

\* No node sends before all network layers of the ring can receive, whatever
\* the order in which hosts, links and ARP answers come: bring-up of
\* acceleratorInit and the first barrier of main see to it.
THEOREM NobodySendsTooEarly == DeploymentSpec => []NetworkReady
<1>1. DeploymentInit => ReadyInv
    BY InitReady
<1>2. ReadyInv /\ [DeploymentNext]_allVars => ReadyInv'
    BY NextReady
<1>3. ReadyInv => NetworkReady
    BY InvGivesReady
<1>4. QED BY <1>1, <1>2, <1>3, PTL DEF DeploymentSpec

-----------------------------------------------------------------------------
(* Natural numbers, and folds over sequences. *)

LEMMA LeastNatural ==
    ASSUME NEW S \in SUBSET Nat, S # {}
    PROVE  \E n \in S : \A m \in S : n <= m
<1> DEFINE Below == {1 .. n : n \in S}
           R == StrictSubsetOrdering(Nat)
<1>1. Below \subseteq FiniteSubsetsOf(Nat)
  <2> SUFFICES ASSUME NEW n \in S
               PROVE  1 .. n \in FiniteSubsetsOf(Nat)
    OBVIOUS
  <2>1. n \in Nat /\ 1 .. n \in SUBSET Nat
    OBVIOUS
  <2>2. IsFiniteSet(1 .. n)
    BY <2>1, FS_Interval
  <2> QED BY <2>1, <2>2 DEF FiniteSubsetsOf
<1>2. Below # {}
  OBVIOUS
<1>3. IsWellFoundedOn(R, FiniteSubsetsOf(Nat))
  BY FS_StrictSubsetOrderingWellFounded
<1>4. PICK B \in Below : \A C \in Below : <<C, B>> \notin R
  <2> HIDE DEF Below, R
  <2> QED BY <1>1, <1>2, <1>3, WFMin
<1>5. PICK n \in S : B = 1 .. n
  OBVIOUS
<1>6. ASSUME NEW m \in S
      PROVE  n <= m
  <2> SUFFICES ASSUME m < n
               PROVE  FALSE
    OBVIOUS
  <2>1. 1 .. m \subseteq 1 .. n /\ n \in 1 .. n /\ n \notin 1 .. m
    OBVIOUS
  <2>2. <<1 .. m, 1 .. n>> \in R
    BY <2>1, 1 .. m \in SUBSET Nat, 1 .. n \in SUBSET Nat DEF StrictSubsetOrdering
  <2> QED BY <1>4, <1>5, <2>2
<1> QED BY <1>6

\* Max, under a name that is the same for all instances.
Largest(S) == CHOOSE x \in S : \A y \in S : x >= y

LEMMA LargestOf ==
    ASSUME NEW n \in Nat, NEW S \in SUBSET (1 .. n), n \in S
    PROVE  Largest(S) = n
<1>1. \A y \in S : y \in Nat /\ n >= y
  OBVIOUS
<1>2. \E x \in S : \A y \in S : x >= y
  BY <1>1
<1>3. Largest(S) \in S /\ \A y \in S : Largest(S) >= y
  BY <1>2 DEF Largest
<1>4. Largest(S) \in Nat /\ Largest(S) >= n /\ n >= Largest(S)
  BY <1>1, <1>3
<1> QED BY <1>4

LEMMA LargestIn ==
    ASSUME NEW n \in Nat, NEW S \in SUBSET (1 .. n), S # {}
    PROVE  Largest(S) \in S /\ \A y \in S : y <= Largest(S)
<1> DEFINE B == {b \in 0 .. n : \A y \in S : y <= b}
<1>1. B \in SUBSET Nat /\ B # {}
  <2>1. n \in B
    OBVIOUS
  <2> QED BY <2>1
<1>2. PICK b \in B : \A c \in B : b <= c
  <2> HIDE DEF B
  <2> QED BY <1>1, LeastNatural
<1>3. b \in S
  <2> SUFFICES ASSUME b \notin S
               PROVE  FALSE
    OBVIOUS
  <2>1. PICK y \in S : y \in 1 .. n
    OBVIOUS
  <2>2. b > 0
    BY <2>1
  <2>3. b - 1 \in B
    <3>1. \A z \in S : z <= b - 1
      <4> TAKE z \in S
      <4>1. z # b /\ z <= b /\ z \in 1 .. n
        OBVIOUS
      <4> QED BY <4>1
    <3> QED BY <2>2, <3>1
  <2> QED BY <1>2, <2>3
<1>4. \A y \in S : b >= y
  OBVIOUS
<1>5. \E x \in S : \A y \in S : x >= y
  BY <1>3, <1>4
<1>6. Largest(S) \in S /\ \A y \in S : Largest(S) >= y
  BY <1>5 DEF Largest
<1> QED BY <1>6

(* FoldLeft is a function that is chosen by its recursion over the subsets  *)
(* of the sequence's domain, the largest index last.                        *)
StepFunction(A, E) == [A -> [E -> A]]

Folded(g, base, op, s) ==
    \A S \in SUBSET (1 .. Len(s)) :
        g[S] = IF S = {} THEN base ELSE op[g[S \ {Largest(S)}]][s[Largest(S)]]

\* There is such a function.
LEMMA FoldExists ==
    ASSUME NEW A, NEW E, NEW base \in A, NEW op \in StepFunction(A, E), NEW s \in Seq(E)
    PROVE  \E g : (\A S \in SUBSET (1 .. Len(s)) : g[S] \in A) /\ g = [S \in SUBSET (1 .. Len(s)) |-> g[S]]
                  /\ Folded(g, base, op, s)
<1> DEFINE n == Len(s)
<1>n. n \in Nat /\ s \in [1 .. n -> E] /\ op \in [A -> [E -> A]]
  BY DEF StepFunction
<1> HIDE DEF n
<1> USE <1>n
<1>t. \A a \in A, e \in E : op[a][e] \in A
  BY <1>n
<1> DEFINE Good(j, g) == \A S \in SUBSET (1 .. j) :
               g[S] = IF S = {} THEN base ELSE op[g[S \ {Largest(S)}]][s[Largest(S)]]
           Bad == {j \in 0 .. n : ~ \E g \in [SUBSET (1 .. j) -> A] : Good(j, g)}
<1> SUFFICES ASSUME Bad # {}
             PROVE  FALSE
  <2>1. n \in 0 .. n
    BY <1>n
  <2>2. PICK g \in [SUBSET (1 .. n) -> A] : Good(n, g)
    BY <2>1
  <2>3. Folded(g, base, op, s)
    BY <2>2 DEF n, Folded
  <2>4. g = [S \in SUBSET (1 .. n) |-> g[S]] /\ \A S \in SUBSET (1 .. n) : g[S] \in A
    BY <2>2
  <2> QED BY <2>3, <2>4 DEF n
<1>1. PICK j \in Bad : \A i \in Bad : j <= i
  <2>1. Bad \in SUBSET Nat
    OBVIOUS
  <2> HIDE DEF Bad
  <2> QED BY <2>1, LeastNatural
<1>2. j \in 0 .. n /\ ~ \E g \in [SUBSET (1 .. j) -> A] : Good(j, g)
  BY <1>1
<1>3. CASE j = 0
  <2> DEFINE g == [S \in SUBSET (1 .. j) |-> base]
  <2>1. SUBSET (1 .. j) = {{}}
    BY <1>3
  <2>2. g \in [SUBSET (1 .. j) -> A]
    OBVIOUS
  <2>3. Good(j, g)
    BY <2>1
  <2> QED BY <1>2, <2>2, <2>3
<1>4. CASE j # 0
  <2>1. PICK m \in 0 .. n : m = j - 1 /\ j = m + 1
    BY <1>2, <1>4
  <2>2. PICK g \in [SUBSET (1 .. m) -> A] : Good(m, g)
    <3>1. m \notin Bad
      <4>1. ~ j <= m /\ m \in 0 .. n
        BY <2>1
      <4> HIDE DEF Bad
      <4> QED BY <1>1, <4>1
    <3> QED BY <2>1, <3>1
  <2> HIDE DEF Bad
  <2> DEFINE h == [S \in SUBSET (1 .. j) |-> IF j \in S THEN op[g[S \ {j}]][s[j]] ELSE g[S]]
  <2>3. ASSUME NEW S \in SUBSET (1 .. j)
        PROVE  /\ j \notin S => S \in SUBSET (1 .. m)
               /\ S \ {j} \in SUBSET (1 .. m)
    <3>1. \A x \in 1 .. j : x # j => x \in 1 .. m
      BY ONLY <1>n, <2>1
    <3> QED BY <3>1
  <2>4. h \in [SUBSET (1 .. j) -> A]
    <3>1. ASSUME NEW S \in SUBSET (1 .. j)
          PROVE  h[S] \in A
      <4>1. s[j] \in E
        <5>1. j \in 1 .. n
          BY ONLY <1>n, <1>2, <1>4
        <5> QED BY <5>1
      <4>2. CASE j \in S
        <5>1. g[S \ {j}] \in A
          BY <2>3
        <5>2. op[g[S \ {j}]][s[j]] \in A
          BY <1>t, <4>1, <5>1
        <5> QED BY <4>2, <5>2
      <4>3. CASE j \notin S
        BY <2>3, <4>3
      <4> QED BY <4>2, <4>3
    <3> QED BY <3>1
  <2>5. ASSUME NEW S \in SUBSET (1 .. j)
        PROVE  h[S] = IF S = {} THEN base ELSE op[h[S \ {Largest(S)}]][s[Largest(S)]]
    <3>1. CASE j \in S
      <4>1. Largest(S) = j /\ S # {}
        <5>1. j \in Nat
          BY <1>2
        <5> QED BY <3>1, <5>1, LargestOf
      <4>2. h[S \ {j}] = g[S \ {j}]
        OBVIOUS
      <4> HIDE DEF h
      <4>3. h[S] = op[g[S \ {j}]][s[j]]
        BY <3>1 DEF h
      <4> QED BY <4>1, <4>2, <4>3
    <3>2. CASE j \notin S
      <4>1. S \in SUBSET (1 .. m) /\ h[S] = g[S]
        BY <2>3, <3>2
      <4>2. g[S] = IF S = {} THEN base ELSE op[g[S \ {Largest(S)}]][s[Largest(S)]]
        BY <2>2, <4>1
      <4>3. h[S \ {Largest(S)}] = g[S \ {Largest(S)}]
        BY <3>2, <4>1
      <4> QED BY <4>1, <4>2, <4>3
    <3> QED BY <3>1, <3>2
  <2> HIDE DEF h
  <2>6. Good(j, h)
    BY <2>5
  <2> QED BY <1>2, <2>4, <2>6
<1> QED BY <1>3, <1>4

\* What is known of the one chosen, as long as its values have their type.
Unfolds(iter, A, op, s) ==
    \A S \in SUBSET (1 .. Len(s)) :
        S # {} /\ iter[S \ {Largest(S)}] \in A => iter[S] = op[iter[S \ {Largest(S)}]][s[Largest(S)]]

\* Its values for the prefixes of the sequence.
LEMMA FoldPrefixes ==
    ASSUME NEW A, NEW E, NEW base \in A, NEW op \in StepFunction(A, E), NEW s \in Seq(E),
           NEW iter, iter[{}] = base, Unfolds(iter, A, op, s)
    PROVE  \E g \in [0 .. Len(s) -> A] :
               /\ g[0] = base
               /\ \A k \in 1 .. Len(s) : g[k] = op[g[k - 1]][s[k]]
               /\ g[Len(s)] = iter[1 .. Len(s)]
<1> DEFINE n == Len(s)
<1>n. n \in Nat /\ s \in [1 .. n -> E] /\ op \in [A -> [E -> A]]
  BY DEF StepFunction
<1>u. \A S \in SUBSET (1 .. n) :
             S # {} /\ iter[S \ {Largest(S)}] \in A =>
                 iter[S] = op[iter[S \ {Largest(S)}]][s[Largest(S)]]
  BY DEF Unfolds
<1> SUFFICES \E g \in [0 .. n -> A] :
             /\ g[0] = base
             /\ \A k \in 1 .. n : g[k] = op[g[k - 1]][s[k]]
             /\ g[n] = iter[1 .. n]
  OBVIOUS
<1> HIDE DEF n
<1> USE <1>n
<1>1. 1 .. 0 = {} /\ 1 .. 0 \in SUBSET (1 .. n)
  OBVIOUS
<1>2. iter[1 .. 0] = base
  BY <1>1
<1>3. ASSUME NEW k \in 1 .. n, iter[1 .. k - 1] \in A
      PROVE  iter[1 .. k] = op[iter[1 .. k - 1]][s[k]]
  <2>1. k \in Nat /\ k \in 1 .. k /\ 1 .. k \in SUBSET (1 .. n) /\ (1 .. k) \ {k} = 1 .. k - 1
    BY ONLY <1>n, k \in 1 .. n
  <2>2. Largest(1 .. k) = k
    BY <2>1, LargestOf
  <2>3. 1 .. k # {}
    BY <2>1
  <2> QED BY <1>3, <1>u, <2>1, <2>2, <2>3
<1> DEFINE Bad == {k \in 0 .. n : iter[1 .. k] \notin A}
<1>4. Bad = {}
  <2> SUFFICES ASSUME Bad # {}
               PROVE  FALSE
    OBVIOUS
  <2>1. PICK k \in Bad : \A i \in Bad : k <= i
    <3>1. Bad \in SUBSET Nat
      OBVIOUS
    <3> HIDE DEF Bad
    <3> QED BY <3>1, LeastNatural
  <2>2. k \in 0 .. n /\ iter[1 .. k] \notin A
    BY <2>1
  <2>3. k # 0
    BY <1>2, <2>2
  <2>4. k \in 1 .. n /\ k - 1 \in 0 .. n /\ ~ k <= k - 1
    BY ONLY <1>n, <2>2, <2>3
  <2>5. iter[1 .. k - 1] \in A
    <3>1. k - 1 \notin Bad
      <4> HIDE DEF Bad
      <4> QED BY <2>1, <2>4
    <3> QED BY <2>4, <3>1
  <2>6. s[k] \in E
    BY <2>4
  <2>7. op[iter[1 .. k - 1]][s[k]] \in A
    BY <2>5, <2>6
  <2> QED BY <1>3, <2>2, <2>4, <2>5, <2>7
<1>5. \A k \in 0 .. n : iter[1 .. k] \in A
  BY <1>4
<1>6. ASSUME NEW k \in 1 .. n
      PROVE  iter[1 .. k] = op[iter[1 .. k - 1]][s[k]]
  <2>1. k - 1 \in 0 .. n
    OBVIOUS
  <2> QED BY <1>3, <1>5, <2>1
<1> DEFINE g == [k \in 0 .. n |-> iter[1 .. k]]
<1>7. g \in [0 .. n -> A] /\ g[0] = base /\ g[n] = iter[1 .. n]
  BY <1>2, <1>5
<1>8. ASSUME NEW k \in 1 .. n
      PROVE  g[k] = op[g[k - 1]][s[k]]
  <2>1. k \in 0 .. n /\ k - 1 \in 0 .. n
    OBVIOUS
  <2> QED BY <1>6, <2>1
<1> QED BY <1>7, <1>8

\* Two functions on the prefixes that start and go on alike.
GoOnAlike(f, g, n) == f[0] = g[0] /\ \A k \in 1 .. n : f[k - 1] = g[k - 1] => f[k] = g[k]

LEMMA SamePrefixes ==
    ASSUME NEW n \in Nat, NEW f, NEW g, GoOnAlike(f, g, n)
    PROVE  f[n] = g[n]
<1> USE DEF GoOnAlike
<1> DEFINE Bad == {k \in 0 .. n : f[k] # g[k]}
<1> SUFFICES ASSUME Bad # {}
             PROVE  FALSE
  <2>1. n \in 0 .. n
    OBVIOUS
  <2> QED BY <2>1
<1>1. PICK k \in Bad : \A i \in Bad : k <= i
  <2>1. Bad \in SUBSET Nat
    OBVIOUS
  <2> HIDE DEF Bad
  <2> QED BY <2>1, LeastNatural
<1>2. k \in 0 .. n /\ f[k] # g[k]
  BY <1>1
<1>3. k # 0
  BY <1>2
<1>4. k \in 1 .. n /\ k - 1 \in 0 .. n /\ ~ k <= k - 1
  BY ONLY <1>2, <1>3, n \in Nat
<1>5. f[k - 1] = g[k - 1]
  <2>1. k - 1 \notin Bad
    <3> HIDE DEF Bad
    <3> QED BY <1>1, <1>4
  <2> QED BY <1>4, <2>1
<1> QED BY <1>2, <1>4, <1>5

-----------------------------------------------------------------------------
(* The scheduler. *)

Task == Scheduling!Task

\* What a task adds to the time of a node.
Cost(t) == t.exe_time + IF t = Scheduling!DUMMY_TASK THEN 0 ELSE Scheduling!Apply

LEMMA Units ==
    /\ PROCESSOR_NUM \in Nat \ {0} /\ APPLY_TIME \in Nat \ {0}
    /\ Scheduling!Unit \in Nat \ {0} /\ Scheduling!Apply \in Nat \ {0}
    /\ Scheduling!DUMMY_TASK \in Task
<1>1. PROCESSOR_NUM \in Nat \ {0} /\ APPLY_TIME \in Nat \ {0}
  BY DeploymentAssumption DEF Scheduling!SchedulerAssumption
<1>2. Scheduling!Unit \in Nat \ {0}
  BY <1>1 DEF Scheduling!Unit
<1>3. Scheduling!Apply \in Nat \ {0}
  BY <1>1, <1>2 DEF Scheduling!Apply
<1> QED BY <1>1, <1>2, <1>3 DEF Scheduling!DUMMY_TASK, Task, Scheduling!Task

\* The times at which a node is done with the tasks of a list.
LEMMA TimeSteps ==
    ASSUME NEW list \in Seq(Task)
    PROVE  \E g \in [0 .. Len(list) -> Nat] :
               /\ g[0] = 0
               /\ \A k \in 1 .. Len(list) : g[k] = g[k - 1] + Cost(list[k])
               /\ Scheduling!TimeOf(list) = g[Len(list)]
<1> DEFINE n == Len(list)
           op == [u \in Nat |-> [t \in Task |-> u + t.exe_time +
                      IF t = Scheduling!DUMMY_TASK THEN 0 ELSE Scheduling!Apply]]
           IsFold(f) == f = [S \in SUBSET DOMAIN list |->
               IF S = {} THEN 0
               ELSE f[S \ {Scheduling!Max(S)}] + list[Scheduling!Max(S)].exe_time +
                      IF list[Scheduling!Max(S)] = Scheduling!DUMMY_TASK THEN 0 ELSE Scheduling!Apply]
           iter == CHOOSE f : IsFold(f)
<1>1. Scheduling!TimeOf(list) = iter[DOMAIN list]
  BY DEF Scheduling!TimeOf, Scheduling!FoldLeft, Scheduling!MapThenFoldSet
<1>2. n \in Nat /\ DOMAIN list = 1 .. n /\ list \in [1 .. n -> Task]
  OBVIOUS
<1>3. op \in StepFunction(Nat, Task)
  <2>1. ASSUME NEW u \in Nat, NEW t \in Task
        PROVE  u + t.exe_time + (IF t = Scheduling!DUMMY_TASK THEN 0 ELSE Scheduling!Apply) \in Nat
    <3>1. t.exe_time \in Nat
      BY DEF Task, Scheduling!Task
    <3> QED BY <3>1, Units
  <2> QED BY <2>1 DEF StepFunction
<1>4. \A S : Scheduling!Max(S) = Largest(S)
  BY DEF Scheduling!Max, Largest
<1>5. ASSUME NEW u \in Nat, NEW t \in Task
      PROVE  /\ op[u][t] = u + t.exe_time + IF t = Scheduling!DUMMY_TASK THEN 0 ELSE Scheduling!Apply
             /\ op[u][t] = u + Cost(t)
  <2>1. op[u][t] = u + t.exe_time + IF t = Scheduling!DUMMY_TASK THEN 0 ELSE Scheduling!Apply
    OBVIOUS
  <2>2. t.exe_time \in Nat
    BY DEF Task, Scheduling!Task
  <2> QED BY <2>1, <2>2, Units DEF Cost
<1> HIDE DEF op
<1>6. PICK g : /\ \A S \in SUBSET (1 .. n) : g[S] \in Nat
               /\ g = [S \in SUBSET (1 .. n) |-> g[S]]
               /\ Folded(g, 0, op, list)
  <2>1. 0 \in Nat
    OBVIOUS
  <2> QED BY <1>3, <2>1, FoldExists
<1>7. ASSUME NEW S \in SUBSET (1 .. n), S # {}
      PROVE  Largest(S) \in S /\ list[Largest(S)] \in Task
  <2>1. Largest(S) \in S
    <3> HIDE DEF n
    <3> QED BY <1>2, <1>7, LargestIn
  <2> QED BY <1>2, <2>1
<1>8. IsFold(g)
  <2>1. ASSUME NEW S \in SUBSET (1 .. n), S # {}
        PROVE  g[S] = g[S \ {Scheduling!Max(S)}] + list[Scheduling!Max(S)].exe_time +
                      IF list[Scheduling!Max(S)] = Scheduling!DUMMY_TASK THEN 0 ELSE Scheduling!Apply
    <3>1. g[S] = op[g[S \ {Largest(S)}]][list[Largest(S)]]
      BY <1>6, <2>1 DEF Folded
    <3>2. g[S \ {Largest(S)}] \in Nat
      BY <1>6
    <3> QED BY <1>4, <1>5, <1>7, <2>1, <3>1, <3>2
  <2>2. g = [S \in SUBSET (1 .. n) |-> g[S]] /\ g[{}] = 0
    BY <1>6 DEF Folded
  <2>3. g = [S \in SUBSET (1 .. n) |->
               IF S = {} THEN 0
               ELSE g[S \ {Scheduling!Max(S)}] + list[Scheduling!Max(S)].exe_time +
                      IF list[Scheduling!Max(S)] = Scheduling!DUMMY_TASK THEN 0 ELSE Scheduling!Apply]
    BY <1>6, <2>1, <2>2
  <2> QED BY <1>2, <2>3
<1>9. IsFold(iter)
  <2> HIDE DEF IsFold
  <2> QED BY <1>8
<1> HIDE DEF iter
<1>10. iter[{}] = 0
  BY <1>9
<1>11. ASSUME NEW S \in SUBSET (1 .. n), S # {}, iter[S \ {Largest(S)}] \in Nat
       PROVE  iter[S] = op[iter[S \ {Largest(S)}]][list[Largest(S)]]
  <2>1. iter[S] = iter[S \ {Largest(S)}] + list[Largest(S)].exe_time +
                      IF list[Largest(S)] = Scheduling!DUMMY_TASK THEN 0 ELSE Scheduling!Apply
    BY <1>2, <1>4, <1>9, <1>11
  <2> QED BY <1>5, <1>7, <1>11, <2>1
<1>12. Unfolds(iter, Nat, op, list)
  BY <1>11 DEF Unfolds
<1>13. PICK h \in [0 .. n -> Nat] : /\ h[0] = 0
                                    /\ \A k \in 1 .. n : h[k] = op[h[k - 1]][list[k]]
                                    /\ h[n] = iter[1 .. n]
  <2>1. 0 \in Nat
    OBVIOUS
  <2> QED BY <1>3, <1>10, <1>12, <2>1, FoldPrefixes
<1>14. ASSUME NEW k \in 1 .. n
       PROVE  h[k] = h[k - 1] + Cost(list[k])
  <2>1. h[k - 1] \in Nat /\ list[k] \in Task
    OBVIOUS
  <2> QED BY <1>5, <1>13, <2>1
<1>15. Scheduling!TimeOf(list) = h[n]
  BY <1>1, <1>2, <1>13
<1> QED BY <1>13, <1>14, <1>15

\* All that is needed to know of the time of a list.
LEMMA Times ==
    /\ Scheduling!TimeOf(<<>>) = 0
    /\ \A list \in Seq(Task) : Scheduling!TimeOf(list) \in Nat
    /\ \A list \in Seq(Task), t \in Task :
          Scheduling!TimeOf(Append(list, t)) = Scheduling!TimeOf(list) + Cost(t)
<1>1. Scheduling!TimeOf(<<>>) = 0
  <2>1. <<>> \in Seq(Task) /\ Len(<<>>) = 0
    OBVIOUS
  <2> QED BY <2>1, TimeSteps
<1>2. ASSUME NEW list \in Seq(Task)
      PROVE  Scheduling!TimeOf(list) \in Nat
  BY TimeSteps
<1>3. ASSUME NEW list \in Seq(Task), NEW t \in Task
      PROVE  Scheduling!TimeOf(Append(list, t)) = Scheduling!TimeOf(list) + Cost(t)
  <2> DEFINE n == Len(list)
             more == Append(list, t)
  <2>1. /\ n \in Nat /\ more \in Seq(Task) /\ Len(more) = n + 1 /\ more[n + 1] = t
        /\ \A k \in 1 .. n : more[k] = list[k]
    OBVIOUS
  <2>2. PICK g \in [0 .. n -> Nat] :
            /\ g[0] = 0
            /\ \A k \in 1 .. n : g[k] = g[k - 1] + Cost(list[k])
            /\ Scheduling!TimeOf(list) = g[n]
    BY TimeSteps
  <2>3. PICK h \in [0 .. n + 1 -> Nat] :
            /\ h[0] = 0
            /\ \A k \in 1 .. n + 1 : h[k] = h[k - 1] + Cost(more[k])
            /\ Scheduling!TimeOf(more) = h[n + 1]
    <3> HIDE DEF more, n
    <3> QED BY <2>1, TimeSteps
  <2> HIDE DEF more, n
  <2>4. \A k \in 1 .. n : h[k - 1] = g[k - 1] => h[k] = g[k]
    <3>1. \A k \in 1 .. n : k \in 1 .. n + 1
      BY <2>1
    <3> QED BY <2>1, <2>2, <2>3, <3>1
  <2>5. h[n] = g[n]
    <3>1. GoOnAlike(h, g, n)
      BY <2>2, <2>3, <2>4 DEF GoOnAlike
    <3> QED BY <2>1, <3>1, SamePrefixes
  <2>6. h[n + 1] = h[n] + Cost(t)
    <3>1. n + 1 \in 1 .. n + 1 /\ (n + 1) - 1 = n
      BY <2>1
    <3> QED BY <2>1, <2>3, <3>1
  <2> QED BY <2>2, <2>3, <2>5, <2>6 DEF more
<1> QED BY <1>1, <1>2, <1>3

\* The larger and the smaller of two.
LEMMA Pairs ==
    ASSUME NEW a \in Int, NEW b \in Int
    PROVE  /\ Scheduling!Max({a, b}) = IF a >= b THEN a ELSE b
           /\ Scheduling!Min({a, b}) = IF a <= b THEN a ELSE b
<1>1. \E x \in {a, b} : \A y \in {a, b} : x >= y
  OBVIOUS
<1>2. Scheduling!Max({a, b}) \in {a, b} /\ \A y \in {a, b} : Scheduling!Max({a, b}) >= y
  BY <1>1 DEF Scheduling!Max
<1>3. \E x \in {a, b} : \A y \in {a, b} : x <= y
  OBVIOUS
<1>4. Scheduling!Min({a, b}) \in {a, b} /\ \A y \in {a, b} : Scheduling!Min({a, b}) <= y
  BY <1>3 DEF Scheduling!Min
<1> QED BY <1>2, <1>4

\* Ranges that do not intersect follow one another.
LEMMA Disjoint ==
    ASSUME NEW lower \in Nat, NEW r \in global_timestamp,
           r.lower \in Nat, r.upper = r.lower + Scheduling!Apply,
           ~ Scheduling!has_intersection(lower, lower + Scheduling!Apply)
    PROVE  lower + Scheduling!Apply <= r.lower \/ r.upper <= lower
<1>1. ~ Scheduling!Max({lower, r.lower}) < Scheduling!Min({lower + Scheduling!Apply, r.upper})
  BY DEF Scheduling!has_intersection
<1> PICK A \in Nat : A = Scheduling!Apply /\ A > 0
  BY Units
<1> PICK l \in Nat, u \in Nat : l = r.lower /\ u = r.upper /\ u = l + A
  OBVIOUS
<1>2. Scheduling!Max({lower, l}) = IF lower >= l THEN lower ELSE l
  BY Pairs
<1>3. Scheduling!Min({lower + A, u}) = IF lower + A <= u THEN lower + A ELSE u
  <2>1. lower + A \in Int /\ u \in Int
    OBVIOUS
  <2> QED BY <2>1, Pairs
<1>4. ~ (IF lower >= l THEN lower ELSE l) < (IF lower + A <= u THEN lower + A ELSE u)
  BY <1>1, <1>2, <1>3
<1>5. lower + A <= l \/ u <= lower
  BY ONLY <1>4, lower \in Nat, l \in Nat, A \in Nat, A > 0, u = l + A
<1> QED BY <1>5

\* There is a node that is done first.
LEMMA Work ==
    ASSUME exe_time_per_worker \in [Node -> Nat]
    PROVE  Scheduling!work_id \in Node
<1> DEFINE Times0 == {exe_time_per_worker[n] : n \in Node}
<1>1. Node \in SUBSET Nat /\ Node # {}
  BY Units DEF Node
<1>2. PICK t \in Times0 : \A u \in Times0 : t <= u
  <2>1. Times0 \in SUBSET Nat /\ Times0 # {}
    BY <1>1
  <2> HIDE DEF Times0
  <2> QED BY <2>1, LeastNatural
<1> DEFINE First == {n \in Node : exe_time_per_worker[n] = t}
<1>3. PICK n \in First : \A m \in First : n <= m
  <2>1. First \in SUBSET Nat /\ First # {}
    BY <1>1, <1>2
  <2> HIDE DEF First
  <2> QED BY <2>1, LeastNatural
<1>4. n \in Node /\ exe_time_per_worker[n] = t
  BY <1>3
<1>5. ASSUME NEW m \in Node
      PROVE  \/ exe_time_per_worker[n] < exe_time_per_worker[m]
             \/ exe_time_per_worker[n] = exe_time_per_worker[m] /\ n <= m
  <2>1. t <= exe_time_per_worker[m]
    BY <1>2
  <2>2. t \in Nat /\ exe_time_per_worker[m] \in Nat
    BY <1>4
  <2>3. CASE exe_time_per_worker[m] = t
    BY <1>3, <1>4, <2>3
  <2>4. CASE exe_time_per_worker[m] # t
    BY <1>4, <2>1, <2>2, <2>4
  <2> QED BY <2>3, <2>4
<1>6. Scheduling!Node = Node
  BY DEF Scheduling!Node, Node
<1> QED BY <1>4, <1>5, <1>6 DEF Scheduling!work_id

(* The tasks of a partitioned graph. *)

LEMMA Partitions ==
    ASSUME Partitioning!Partitioned
    PROVE  Scheduling!partitionNum = total_p_num
<1>n. total_p_num \in Nat \ {0}
  BY SuperstepAssumption
<1>1. DOMAIN file = 0 .. total_p_num - 1
  BY DeploymentAssumption DEF Partitioning!Partitioned, Partition
<1>2. Cardinality(DOMAIN file) = total_p_num
  BY <1>n, <1>1, FS_Interval
<1>3. \A S : Scheduling!Cardinality(S) = Cardinality(S)
  BY DEF Scheduling!Cardinality, Cardinality
<1> DEFINE Free == {q \in 0 .. total_p_num : q \notin 0 .. total_p_num - 1}
<1>4. Free = {total_p_num, total_p_num}
  BY <1>n
<1>5. Scheduling!partitionNum = Scheduling!Min({total_p_num, total_p_num})
  BY <1>1, <1>2, <1>3, <1>4 DEF Scheduling!partitionNum
<1> QED BY <1>n, <1>5, Pairs

LEMMA OriginalTasks ==
    ASSUME Partitioning!Partitioned
    PROVE  /\ Scheduling!original_tasks \in Seq(Scheduling!Range(Scheduling!original_tasks))
           /\ \A t \in Scheduling!Range(Scheduling!original_tasks) :
                 t \in Task /\ t # Scheduling!DUMMY_TASK
           /\ \A s, t \in Scheduling!Range(Scheduling!original_tasks) :
                 s.partition_id = t.partition_id => s = t
<1> DEFINE N == total_p_num
           Of(k) == [partition_id |-> k - 1, exe_time |-> exe_time[k - 1] * Scheduling!Unit]
<1>1. N \in Nat /\ Scheduling!original_tasks = [k \in 1 .. N |-> Of(k)]
  BY SuperstepAssumption, Partitions DEF Scheduling!original_tasks
<1>2. \A q \in 0 .. N - 1 : exe_time[q] \in Nat /\ q <= 98
  <2>1. DOMAIN exe_time = 0 .. N - 1
    BY DeploymentAssumption DEF Partition
  <2>2. DOMAIN exe_time \subseteq 0 .. 98 /\ \A q \in DOMAIN exe_time : exe_time[q] \in Nat \ {0}
    BY DeploymentAssumption DEF Scheduling!SchedulerAssumption
  <2>3. \A q \in DOMAIN exe_time : q <= 98
    <3>1. \A q \in 0 .. 98 : q <= 98
      OBVIOUS
    <3> QED BY <2>2, <3>1
  <2> HIDE DEF N
  <2> QED BY <2>1, <2>2, <2>3
<1>3. ASSUME NEW k \in 1 .. N
      PROVE  Of(k) \in Task /\ Of(k).partition_id = k - 1 /\ k - 1 < 99
  <2>1. k - 1 \in 0 .. N - 1 /\ k - 1 \in Nat
    BY <1>1
  <2>2. exe_time[k - 1] \in Nat /\ k - 1 <= 98
    BY <1>2, <2>1
  <2>3. exe_time[k - 1] * Scheduling!Unit \in Nat
    BY <2>2, Units
  <2> QED BY <2>1, <2>2, <2>3 DEF Task, Scheduling!Task
<1>4. \A t \in Scheduling!Range(Scheduling!original_tasks) : \E k \in 1 .. N : t = Of(k)
  BY <1>1 DEF Scheduling!Range
<1>5. \A k \in 1 .. N : Of(k) \in Scheduling!Range(Scheduling!original_tasks)
  BY <1>1 DEF Scheduling!Range
<1>6. Scheduling!original_tasks \in Seq(Scheduling!Range(Scheduling!original_tasks))
  <2> DEFINE S == Scheduling!Range(Scheduling!original_tasks)
  <2>1. Scheduling!original_tasks \in [1 .. N -> S]
    BY <1>1, <1>5
  <2>2. N \in Nat
    BY <1>1
  <2> HIDE DEF S, N
  <2>3. \A s \in [1 .. N -> S] : s \in Seq(S)
    BY <2>2
  <2>4. Scheduling!original_tasks \in Seq(S)
    BY <2>1, <2>3
  <2> QED BY <2>4 DEF S
<1>7. ASSUME NEW t \in Scheduling!Range(Scheduling!original_tasks)
      PROVE  t \in Task /\ t # Scheduling!DUMMY_TASK
  <2>1. PICK k \in 1 .. N : t = Of(k)
    BY <1>4
  <2> HIDE DEF Of
  <2>2. t \in Task /\ t.partition_id < 99
    BY <1>3, <2>1
  <2>3. Scheduling!DUMMY_TASK.partition_id = 65535
    BY DEF Scheduling!DUMMY_TASK
  <2> QED BY <2>2, <2>3
<1>8. ASSUME NEW s \in Scheduling!Range(Scheduling!original_tasks),
             NEW t \in Scheduling!Range(Scheduling!original_tasks), s.partition_id = t.partition_id
      PROVE  s = t
  <2>1. PICK j \in 1 .. N : s = Of(j)
    BY <1>4
  <2>2. PICK k \in 1 .. N : t = Of(k)
    BY <1>4
  <2> HIDE DEF Of
  <2>3. j - 1 = k - 1
    BY <1>3, <1>8, <2>1, <2>2
  <2>4. j = k
    BY <1>1, <2>3
  <2> QED BY <2>1, <2>2, <2>4
<1> QED BY <1>6, <1>7, <1>8

\* Only tasks above the threshold are split.
LEMMA SplitTasks ==
    ASSUME Partitioning!Partitioned
    PROVE  Scheduling!all_reduce_tasks \in Seq(Scheduling!Long)
<1> DEFINE list == Scheduling!original_tasks
           E == Scheduling!Range(list)
           L == Scheduling!Long
           A == Seq(L)
           n == Len(list)
           op == [u \in A |-> [t \in E |-> IF t \in L THEN Append(u, t) ELSE u]]
           IsFold(f) == f = [S \in SUBSET DOMAIN list |->
               IF S = {} THEN <<>>
               ELSE IF list[Scheduling!Max(S)] \in L
                    THEN Append(f[S \ {Scheduling!Max(S)}], list[Scheduling!Max(S)])
                    ELSE f[S \ {Scheduling!Max(S)}]]
           iter == CHOOSE f : IsFold(f)
<1>1. Scheduling!all_reduce_tasks = iter[DOMAIN list]
  BY DEF Scheduling!all_reduce_tasks, Scheduling!FoldLeft, Scheduling!MapThenFoldSet
<1>2. n \in Nat /\ DOMAIN list = 1 .. n /\ list \in Seq(E) /\ list \in [1 .. n -> E]
  BY OriginalTasks
<1> HIDE DEF list, E, L
<1>3. op \in StepFunction(A, E)
  BY DEF StepFunction
<1>4. \A S : Scheduling!Max(S) = Largest(S)
  BY DEF Scheduling!Max, Largest
<1>5. \A u \in A, t \in E : op[u][t] = IF t \in L THEN Append(u, t) ELSE u
  OBVIOUS
<1>6. <<>> \in A
  OBVIOUS
<1> HIDE DEF op, A
<1>7. PICK g : /\ \A S \in SUBSET (1 .. n) : g[S] \in A
               /\ g = [S \in SUBSET (1 .. n) |-> g[S]]
               /\ Folded(g, <<>>, op, list)
  BY <1>2, <1>3, <1>6, FoldExists
<1>8. ASSUME NEW S \in SUBSET (1 .. n), S # {}
      PROVE  Largest(S) \in S /\ list[Largest(S)] \in E
  <2>1. Largest(S) \in S
    <3> HIDE DEF n
    <3> QED BY <1>2, <1>8, LargestIn
  <2> QED BY <1>2, <2>1
<1>9. IsFold(g)
  <2>1. ASSUME NEW S \in SUBSET (1 .. n), S # {}
        PROVE  g[S] = IF list[Scheduling!Max(S)] \in L
                      THEN Append(g[S \ {Scheduling!Max(S)}], list[Scheduling!Max(S)])
                      ELSE g[S \ {Scheduling!Max(S)}]
    <3>1. g[S] = op[g[S \ {Largest(S)}]][list[Largest(S)]]
      BY <1>7, <2>1 DEF Folded
    <3>2. g[S \ {Largest(S)}] \in A
      BY <1>7
    <3> QED BY <1>4, <1>5, <1>8, <2>1, <3>1, <3>2
  <2>2. g = [S \in SUBSET (1 .. n) |-> g[S]] /\ g[{}] = <<>>
    BY <1>7 DEF Folded
  <2> QED BY <1>2, <2>1, <2>2
<1>10. IsFold(iter)
  <2> HIDE DEF IsFold
  <2> QED BY <1>9
<1> HIDE DEF iter
<1>11. iter[{}] = <<>>
  BY <1>10
<1>12. ASSUME NEW S \in SUBSET (1 .. n), S # {}, iter[S \ {Largest(S)}] \in A
       PROVE  iter[S] = op[iter[S \ {Largest(S)}]][list[Largest(S)]]
  <2>1. iter[S] = IF list[Largest(S)] \in L
                  THEN Append(iter[S \ {Largest(S)}], list[Largest(S)])
                  ELSE iter[S \ {Largest(S)}]
    BY <1>2, <1>4, <1>10, <1>12
  <2> QED BY <1>5, <1>8, <1>12, <2>1
<1>13. Unfolds(iter, A, op, list)
  BY <1>12 DEF Unfolds
<1>14. PICK h \in [0 .. n -> A] : h[n] = iter[1 .. n]
  BY <1>2, <1>3, <1>6, <1>11, <1>13, FoldPrefixes
<1>15. iter[1 .. n] \in A
  BY <1>2, <1>14
<1> QED BY <1>1, <1>2, <1>15 DEF A, L, list

\* The files do not change any more.
LEMMA SameTasks ==
    ASSUME file' = file
    PROVE  Scheduling!forward_tasks' = Scheduling!forward_tasks
<1> DEFINE Threshold(n) ==
              LET sum == Scheduling!MapThenSumSet(LAMBDA q : exe_time[q], 0 .. n - 1)
              IN 2 * ((sum + PROCESSOR_NUM - 1) \div PROCESSOR_NUM) * Scheduling!Unit
<1>1. Scheduling!partitionNum' = Scheduling!partitionNum
  BY DEF Scheduling!partitionNum
<1>2. Scheduling!original_tasks' = Scheduling!original_tasks
  BY <1>1 DEF Scheduling!original_tasks
<1>3. Scheduling!thres_time = Threshold(Scheduling!partitionNum)
  BY DEF Scheduling!thres_time
<1>4. Scheduling!thres_time' = Threshold(Scheduling!partitionNum')
  BY DEF Scheduling!thres_time, Scheduling!MapThenSumSet, Scheduling!MapThenFoldSet
<1> HIDE DEF Threshold
<1>5. Scheduling!thres_time' = Scheduling!thres_time
  BY <1>1, <1>3, <1>4
<1>6. Scheduling!Long' = Scheduling!Long
  BY <1>2, <1>5 DEF Scheduling!Long
<1> QED BY <1>2, <1>6 DEF Scheduling!forward_tasks

LEMMA SetToSeqsTyped ==
    ASSUME NEW S, IsFiniteSet(S), NEW s \in Scheduling!SetToSeqs(S)
    PROVE  s \in Seq(S)
<1>1. \A T : Scheduling!Cardinality(T) = Cardinality(T)
  BY DEF Scheduling!Cardinality, Cardinality
<1>2. s \in [1 .. Cardinality(S) -> S]
  BY <1>1 DEF Scheduling!SetToSeqs
<1>3. Cardinality(S) \in Nat
  BY FS_CardinalityType
<1> QED BY <1>2, <1>3

\* A round starts with the shares of the split tasks, which are no tasks of their own.
LEMMA StartIsPlanned ==
    ASSUME Partitioning!Partitioned, Scheduling!StartRound, file' = file
    PROVE  Scheduling!Planned'
<1> DEFINE shares == [k \in DOMAIN Scheduling!all_reduce_tasks |->
                         Scheduling!Share(Scheduling!all_reduce_tasks[k])]
           Original == Scheduling!Range(Scheduling!original_tasks)
<1>1. Scheduling!Node = Node
  BY DEF Scheduling!Node, Node
<1>2. /\ workstations' = [n \in Node |-> shares]
      /\ exe_time_per_worker' = [n \in Node |-> Scheduling!TimeOf(shares)]
      /\ global_timestamp' = {}
      /\ tasks' \in Scheduling!SetToSeqs(Scheduling!forward_tasks) /\ left' = Len(tasks')
  BY <1>1 DEF Scheduling!StartRound
<1>3. tasks' \in Seq(Task) /\ left' \in 0 .. Len(tasks')
  <2>1. IsFiniteSet(Original)
    <3>1. Scheduling!original_tasks \in Seq(Original)
      BY OriginalTasks
    <3>2. Scheduling!original_tasks \in Surjection(1 .. Len(Scheduling!original_tasks), Original)
      <4>1. Scheduling!original_tasks \in [1 .. Len(Scheduling!original_tasks) -> Original]
        BY <3>1
      <4>2. \A t \in Original :
               \E k \in 1 .. Len(Scheduling!original_tasks) : Scheduling!original_tasks[k] = t
        BY <3>1 DEF Scheduling!Range
      <4> HIDE DEF Original
      <4> QED BY <4>1, <4>2 DEF Surjection
    <3>3. IsFiniteSet(1 .. Len(Scheduling!original_tasks))
      BY <3>1, FS_Interval
    <3> QED BY <3>2, <3>3, FS_Surjection
  <2>2. Scheduling!forward_tasks \subseteq Original
    BY DEF Scheduling!forward_tasks
  <2>3. IsFiniteSet(Scheduling!forward_tasks)
    BY <2>1, <2>2, FS_Subset
  <2>4. tasks' \in Seq(Scheduling!forward_tasks)
    BY <1>2, <2>3, SetToSeqsTyped
  <2>5. Scheduling!forward_tasks \subseteq Task
    BY <2>2, OriginalTasks
  <2>6. tasks' \in Seq(Task)
    BY <2>4, <2>5
  <2>7. Len(tasks') \in Nat
    BY <2>6
  <2> QED BY <1>2, <2>6, <2>7
<1>4. \A k \in DOMAIN shares : shares[k] \in Task /\ shares[k] \notin Scheduling!forward_tasks
  <2> SUFFICES ASSUME NEW k \in DOMAIN Scheduling!all_reduce_tasks
               PROVE  /\ Scheduling!Share(Scheduling!all_reduce_tasks[k]) \in Task
                      /\ Scheduling!Share(Scheduling!all_reduce_tasks[k]) \notin Scheduling!forward_tasks
    OBVIOUS
  <2> DEFINE t == Scheduling!all_reduce_tasks[k]
  <2>1. t \in Scheduling!Long
    BY SplitTasks
  <2>2. t \in Original /\ t \notin Scheduling!forward_tasks
    BY <2>1 DEF Scheduling!Long, Scheduling!forward_tasks
  <2>3. t \in Task
    BY <2>2, OriginalTasks
  <2> HIDE DEF t
  <2>4. Scheduling!Share(t) \in Task /\ Scheduling!Share(t).partition_id = t.partition_id
    <3>1. t.exe_time \in Nat
      BY <2>3 DEF Task, Scheduling!Task
    <3>2. t.exe_time \div PROCESSOR_NUM \in Nat
      BY <3>1, Units
    <3> QED BY <2>3, <3>2 DEF Scheduling!Share, Task, Scheduling!Task
  <2>5. Scheduling!Share(t) \in Scheduling!forward_tasks => Scheduling!Share(t) = t
    <3>1. Scheduling!forward_tasks \subseteq Original
      BY DEF Scheduling!forward_tasks
    <3> HIDE DEF Original
    <3> QED BY <2>2, <2>4, <3>1, OriginalTasks DEF Original
  <2> QED BY <2>2, <2>4, <2>5 DEF t
<1>5. shares \in Seq(Task)
  <2>1. Scheduling!all_reduce_tasks \in Seq(Scheduling!Long)
    BY SplitTasks
  <2> PICK m \in Nat : DOMAIN Scheduling!all_reduce_tasks = 1 .. m
    BY <2>1
  <2>2. shares \in [1 .. m -> Task]
    BY <1>4
  <2> QED BY <2>2
<1>6. workstations' \in [Node -> Seq(Task)]
  BY <1>2, <1>5
<1> HIDE DEF shares
<1>7. \A n \in Node : \A j \in DOMAIN workstations'[n] : workstations'[n][j] \notin Scheduling!forward_tasks
  BY <1>2, <1>4
<1>8. Scheduling!forward_tasks' = Scheduling!forward_tasks
  BY SameTasks
<1>9. exe_time_per_worker' = [n \in Node |-> Scheduling!TimeOf(workstations'[n])]
  BY <1>2
<1>10. Scheduling!AppliesApart'
  BY <1>1, <1>7, <1>8 DEF Scheduling!AppliesApart
<1> QED BY <1>1, <1>2, <1>3, <1>6, <1>7, <1>8, <1>9, <1>10 DEF Scheduling!Planned, Task

\* The beginnings of a list with one task more.
LEMMA Beginnings ==
    ASSUME NEW S, NEW list \in Seq(S), NEW t \in S
    PROVE  /\ \A k \in 1 .. Len(list) : SubSeq(Append(list, t), 1, k) = SubSeq(list, 1, k)
           /\ SubSeq(Append(list, t), 1, Len(list) + 1) = Append(list, t)
<1> DEFINE n == Len(list)
           more == Append(list, t)
<1>1. n \in Nat /\ more \in Seq(S) /\ Len(more) = n + 1 /\ \A k \in 1 .. n : more[k] = list[k]
  OBVIOUS
<1>2. ASSUME NEW k \in 1 .. n
      PROVE  SubSeq(more, 1, k) = SubSeq(list, 1, k)
  <2>1. SubSeq(more, 1, k) = [i \in 1 .. k |-> more[i]]
    <3> HIDE DEF more, n
    <3> QED BY <1>1
  <2>2. SubSeq(list, 1, k) = [i \in 1 .. k |-> list[i]]
    <3> HIDE DEF more
    <3> QED BY <1>1
  <2>3. \A i \in 1 .. k : more[i] = list[i]
    <3> HIDE DEF more, n
    <3> QED BY <1>1
  <2> QED BY <2>1, <2>2, <2>3
<1>3. SubSeq(more, 1, n + 1) = more
  <2>1. \A s \in Seq(S) : SubSeq(s, 1, Len(s)) = s
    OBVIOUS
  <2> HIDE DEF more, n
  <2> QED BY <1>1, <2>1
<1> QED BY <1>2, <1>3

\* A task, or a dummy task, that node w gets.
LEMMA AssignIsPlanned ==
    ASSUME Partitioning!Partitioned, Scheduling!Planned, file' = file,
           NEW w \in Node, NEW task \in Task,
           Scheduling!Assign(task, w, exe_time_per_worker[w] + Cost(task)),
           left > 0, left' = left - 1,
           \/ task = Scheduling!DUMMY_TASK /\ global_timestamp' = global_timestamp
           \/ /\ task # Scheduling!DUMMY_TASK
              /\ ~ Scheduling!has_intersection(exe_time_per_worker[w] + task.exe_time,
                                               exe_time_per_worker[w] + task.exe_time + Scheduling!Apply)
              /\ global_timestamp' = global_timestamp \cup
                    {[lower |-> exe_time_per_worker[w] + task.exe_time,
                      upper |-> exe_time_per_worker[w] + task.exe_time + Scheduling!Apply]}
    PROVE  Scheduling!Planned'
<1> DEFINE old == workstations[w]
           time == exe_time_per_worker[w] + Cost(task)
           A == Scheduling!Apply
           D(n, j) == Scheduling!DoneAt(n, j)
<1>1. Scheduling!Node = Node
  BY DEF Scheduling!Node, Node
<1>2. /\ tasks \in Seq(Task) /\ left \in 0 .. Len(tasks)
      /\ workstations \in [Node -> Seq(Task)]
      /\ exe_time_per_worker = [n \in Node |-> Scheduling!TimeOf(workstations[n])]
      /\ \A r \in global_timestamp : r.lower \in Nat /\ r.upper = r.lower + A
      /\ \A n \in Node : \A j \in DOMAIN workstations[n] :
            workstations[n][j] \in Scheduling!forward_tasks =>
                [lower |-> D(n, j) - A, upper |-> D(n, j)] \in global_timestamp
      /\ Scheduling!AppliesApart
  BY <1>1 DEF Scheduling!Planned, Task
<1>3. /\ workstations' = [workstations EXCEPT ![w] = Append(old, task)]
      /\ exe_time_per_worker' = [exe_time_per_worker EXCEPT ![w] = time]
  BY DEF Scheduling!Assign
<1>l. PICK last \in Nat : last = Len(old) + 1
  BY <1>2
<1>4. /\ old \in Seq(Task) /\ Append(old, task) \in Seq(Task)
      /\ DOMAIN old = 1 .. Len(old) /\ DOMAIN Append(old, task) = 1 .. last
      /\ Len(old) \in Nat /\ Append(old, task)[last] = task
      /\ \A j \in 1 .. Len(old) : Append(old, task)[j] = old[j]
  BY <1>2, <1>l
<1>5. time = Scheduling!TimeOf(Append(old, task)) /\ exe_time_per_worker[w] = Scheduling!TimeOf(old)
  BY <1>2, <1>4, Times
<1>6. exe_time_per_worker[w] \in Nat /\ task.exe_time \in Nat
  BY <1>4, <1>5, Times DEF Task, Scheduling!Task
<1>7. workstations' \in [Node -> Seq(Task)]
  BY <1>2, <1>3, <1>4
<1>8. exe_time_per_worker' = [n \in Node |-> Scheduling!TimeOf(workstations'[n])]
  BY <1>2, <1>3, <1>5
<1>9. tasks' \in Seq(Task) /\ left' \in 0 .. Len(tasks')
  <2>1. tasks' = Tail(tasks)
    BY DEF Scheduling!Assign
  <2>2. left \in 0 .. Len(tasks) /\ Len(tasks) \in Nat /\ tasks # <<>>
    BY <1>2
  <2>3. tasks' \in Seq(Task) /\ Len(tasks') = Len(tasks) - 1
    BY <1>2, <2>1, <2>2
  <2> QED BY <2>2, <2>3
<1>10. Scheduling!forward_tasks' = Scheduling!forward_tasks
  BY SameTasks
<1>11. \A r \in global_timestamp' : r.lower \in Nat /\ r.upper = r.lower + A
  <2> DEFINE lower == exe_time_per_worker[w] + task.exe_time
  <2>1. lower \in Nat
    BY <1>6
  <2> QED BY <1>2, <2>1
<1>12. \A n \in Node, j \in Nat : D(n, j)' = Scheduling!TimeOf(SubSeq(workstations'[n], 1, j))
  BY DEF Scheduling!DoneAt
<1>13. ASSUME NEW n \in Node, NEW j \in DOMAIN workstations[n]
       PROVE  /\ j \in DOMAIN workstations'[n] /\ workstations'[n][j] = workstations[n][j]
              /\ D(n, j)' = D(n, j) /\ D(n, j) \in Nat
  <2>1. workstations[n] \in Seq(Task) /\ j \in 1 .. Len(workstations[n]) /\ j \in Nat
    BY <1>2
  <2>2. D(n, j) = Scheduling!TimeOf(SubSeq(workstations[n], 1, j))
    BY DEF Scheduling!DoneAt
  <2>3. SubSeq(workstations[n], 1, j) \in Seq(Task)
    BY <2>1
  <2>4. D(n, j) \in Nat
    BY <2>2, <2>3, Times
  <2>5. CASE n = w
    <3>1. SubSeq(workstations'[n], 1, j) = SubSeq(workstations[n], 1, j)
      BY <1>2, <1>3, <1>4, <2>1, <2>5, Beginnings
    <3>2. D(n, j)' = D(n, j)
      BY <1>12, <2>1, <2>2, <3>1
    <3> QED BY <1>2, <1>3, <1>4, <2>4, <2>5, <3>2
  <2>6. CASE n # w
    <3>1. workstations'[n] = workstations[n]
      BY <1>2, <1>3, <2>6
    <3> QED BY <1>12, <2>1, <2>2, <2>4, <3>1
  <2> QED BY <2>5, <2>6
<1>14. workstations'[w][last] = task /\ D(w, last)' = time /\ last \in DOMAIN workstations'[w]
  <2>1. workstations'[w] = Append(old, task)
    BY <1>2, <1>3
  <2>2. SubSeq(Append(old, task), 1, last) = Append(old, task)
    BY <1>l, <1>4, Beginnings
  <2>3. last \in Nat /\ last \in 1 .. last
    BY <1>l, <1>4
  <2>4. D(w, last)' = Scheduling!TimeOf(SubSeq(Append(old, task), 1, last))
    BY <1>12, <2>1, <2>3
  <2>5. last \in DOMAIN workstations'[w] /\ workstations'[w][last] = task
    BY <1>4, <2>1, <2>3
  <2> HIDE DEF old, D, time
  <2>6. D(w, last)' = time
    BY <1>5, <2>2, <2>4
  <2> QED BY <2>5, <2>6
<1>15. \A n \in Node : \A j \in DOMAIN workstations'[n] :
          j \in DOMAIN workstations[n] \/ (n = w /\ j = last)
  <2> SUFFICES ASSUME NEW n \in Node, NEW j \in DOMAIN workstations'[n]
               PROVE  j \in DOMAIN workstations[n] \/ (n = w /\ j = last)
    OBVIOUS
  <2>1. CASE n = w
    <3>1. j \in 1 .. last
      BY <1>2, <1>3, <1>4, <2>1
    <3>2. j \in 1 .. Len(old) \/ j = last
      BY <1>l, <1>4, <3>1
    <3> QED BY <1>4, <2>1, <3>2
  <2>2. CASE n # w
    BY <1>2, <1>3, <2>2
  <2> QED BY <2>1, <2>2
<1> HIDE DEF D, time, old
<1>16. ASSUME task \in Scheduling!forward_tasks
       PROVE  /\ time - A \in Nat /\ time = (time - A) + A
              /\ [lower |-> time - A, upper |-> time] \in global_timestamp'
              /\ \A r \in global_timestamp : time <= r.lower \/ r.upper <= time - A
  <2> DEFINE lower == exe_time_per_worker[w] + task.exe_time
  <2>1. task # Scheduling!DUMMY_TASK
    BY <1>16, OriginalTasks DEF Scheduling!forward_tasks
  <2>2. lower \in Nat
    BY <1>6
  <2>3. time = lower + A
    BY <1>6, <2>1, Units DEF time, Cost
  <2>4. time - A = lower
    BY <2>2, <2>3, Units
  <2>5. [lower |-> time - A, upper |-> time] \in global_timestamp'
    BY <2>1, <2>3, <2>4
  <2>6. ASSUME NEW r \in global_timestamp
        PROVE  time <= r.lower \/ r.upper <= time - A
    <3>1. ~ Scheduling!has_intersection(lower, lower + A)
      BY <2>1
    <3>2. r.lower \in Nat /\ r.upper = r.lower + A
      BY <1>2
    <3> HIDE DEF lower
    <3> QED BY <2>2, <2>3, <2>4, <3>1, <3>2, Disjoint
  <2> QED BY <2>2, <2>3, <2>4, <2>5, <2>6
<1>17. global_timestamp \subseteq global_timestamp'
  OBVIOUS
<1>18. ASSUME NEW n \in Node, NEW j \in DOMAIN workstations'[n],
              workstations'[n][j] \in Scheduling!forward_tasks
       PROVE  [lower |-> D(n, j)' - A, upper |-> D(n, j)'] \in global_timestamp'
  <2>1. CASE j \in DOMAIN workstations[n]
    BY <1>2, <1>13, <1>17, <1>18, <2>1
  <2>2. CASE n = w /\ j = last
    BY <1>14, <1>16, <1>18, <2>2
  <2> QED BY <1>15, <2>1, <2>2
<1>19. ASSUME NEW m \in Node, NEW k \in DOMAIN workstations[m],
              task \in Scheduling!forward_tasks, workstations[m][k] \in Scheduling!forward_tasks
       PROVE  time <= D(m, k) - A \/ D(m, k) <= time - A
  <2> PICK r \in global_timestamp : r.lower = D(m, k) - A /\ r.upper = D(m, k)
    BY <1>2, <1>19
  <2> QED BY <1>16, <1>19
<1>20. ASSUME NEW n \in Node, NEW m \in Node, n # m,
              NEW j \in DOMAIN workstations'[n], NEW k \in DOMAIN workstations'[m],
              workstations'[n][j] \in Scheduling!forward_tasks,
              workstations'[m][k] \in Scheduling!forward_tasks
       PROVE  D(n, j)' <= D(m, k)' - A \/ D(m, k)' <= D(n, j)' - A
  <2>1. CASE n = w /\ j = last
    <3>1. k \in DOMAIN workstations[m]
      BY <1>15, <1>20, <2>1
    <3> QED BY <1>13, <1>14, <1>19, <1>20, <2>1, <3>1
  <2>2. CASE m = w /\ k = last
    <3>1. j \in DOMAIN workstations[n]
      BY <1>15, <1>20, <2>2
    <3> QED BY <1>13, <1>14, <1>19, <1>20, <2>2, <3>1
  <2>3. CASE j \in DOMAIN workstations[n] /\ k \in DOMAIN workstations[m]
    <3>1. D(n, j) <= D(m, k) - A \/ D(m, k) <= D(n, j) - A
      BY <1>1, <1>2, <1>13, <1>20, <2>3 DEF Scheduling!AppliesApart, D
    <3> QED BY <1>13, <2>3, <3>1
  <2> QED BY <1>15, <2>1, <2>2, <2>3
<1>21. Scheduling!AppliesApart'
  BY <1>1, <1>10, <1>20 DEF Scheduling!AppliesApart, D
<1> QED BY <1>1, <1>7, <1>8, <1>9, <1>10, <1>11, <1>18, <1>21 DEF Scheduling!Planned, Task, D

\* Only the order of the tasks to come changes.
LEMMA UnchangedIsPlanned ==
    ASSUME Scheduling!Planned, file' = file, tasks' \in Seq(Task), left' \in 0 .. Len(tasks'),
           UNCHANGED <<workstations, exe_time_per_worker, global_timestamp>>
    PROVE  Scheduling!Planned'
<1>1. Scheduling!forward_tasks' = Scheduling!forward_tasks
  BY SameTasks
<1>2. \A n, j : Scheduling!DoneAt(n, j)' = Scheduling!DoneAt(n, j)
  BY DEF Scheduling!DoneAt
<1>3. Scheduling!AppliesApart'
  BY <1>1, <1>2 DEF Scheduling!Planned, Scheduling!AppliesApart
<1> QED BY <1>1, <1>2, <1>3 DEF Scheduling!Planned, Task

LEMMA PlaceIsPlanned ==
    ASSUME Partitioning!Partitioned, Scheduling!Planned, Scheduling!Place, file' = file
    PROVE  Scheduling!Planned'
<1>1. tasks \in Seq(Task) /\ left \in 0 .. Len(tasks)
  BY DEF Scheduling!Planned, Task
<1>2. left > 0 /\ left' = left - 1 /\ tasks # <<>>
  BY <1>1 DEF Scheduling!Place
<1>3. exe_time_per_worker \in [Node -> Nat]
  <2>1. Scheduling!Node = Node
    BY DEF Scheduling!Node, Node
  <2>2. /\ workstations \in [Node -> Seq(Task)]
        /\ exe_time_per_worker = [n \in Node |-> Scheduling!TimeOf(workstations[n])]
    BY <2>1 DEF Scheduling!Planned, Task
  <2> QED BY <2>2, Times
<1> PICK w \in Node : w = Scheduling!work_id
  BY <1>3, Work
<1> PICK task \in Task : task = Head(tasks)
  BY <1>1, <1>2
<1>4. exe_time_per_worker[w] \in Nat /\ task.exe_time \in Nat
  BY <1>3 DEF Task, Scheduling!Task
<1> DEFINE lower == exe_time_per_worker[w] + task.exe_time
           upper == lower + Scheduling!Apply
<1>5. \/ task = Scheduling!DUMMY_TASK /\ Scheduling!Assign(task, w, lower) /\ UNCHANGED global_timestamp
      \/ /\ tasks' = Append(Tail(tasks), task)
         /\ UNCHANGED <<workstations, exe_time_per_worker, global_timestamp>>
      \/ /\ task # Scheduling!DUMMY_TASK /\ ~ Scheduling!has_intersection(lower, upper)
         /\ Scheduling!Assign(task, w, upper)
         /\ global_timestamp' = global_timestamp \cup {[lower |-> lower, upper |-> upper]}
  BY DEF Scheduling!Place
<1>6. CASE task = Scheduling!DUMMY_TASK /\ Scheduling!Assign(task, w, lower) /\ UNCHANGED global_timestamp
  <2>1. exe_time_per_worker[w] + Cost(task) = lower
    BY <1>4, <1>6 DEF Cost
  <2> HIDE DEF lower
  <2> QED BY <1>2, <1>6, <2>1, AssignIsPlanned
<1>7. CASE /\ tasks' = Append(Tail(tasks), task)
           /\ UNCHANGED <<workstations, exe_time_per_worker, global_timestamp>>
  <2>1. tasks' \in Seq(Task) /\ Len(tasks') = Len(tasks)
    BY <1>1, <1>2, <1>7
  <2>2. left' \in 0 .. Len(tasks')
    BY <1>1, <1>2, <2>1
  <2> QED BY <1>7, <2>1, <2>2, UnchangedIsPlanned
<1>8. CASE /\ task # Scheduling!DUMMY_TASK /\ ~ Scheduling!has_intersection(lower, upper)
           /\ Scheduling!Assign(task, w, upper)
           /\ global_timestamp' = global_timestamp \cup {[lower |-> lower, upper |-> upper]}
  <2>1. exe_time_per_worker[w] + Cost(task) = upper
    BY <1>4, <1>8, Units DEF Cost
  <2> QED BY <1>2, <1>8, <2>1, AssignIsPlanned
<1> QED BY <1>5, <1>6, <1>7, <1>8

LEMMA LoopIsPlanned ==
    ASSUME Scheduling!Planned, Scheduling!Loop, file' = file
    PROVE  Scheduling!Planned'
<1>1. tasks \in Seq(Task)
  BY DEF Scheduling!Planned, Task
<1>2. tasks' \in Seq(Task)
  BY <1>1, Units DEF Scheduling!Loop
<1>3. left' \in 0 .. Len(tasks')
  BY <1>2 DEF Scheduling!Loop
<1> QED BY <1>2, <1>3, UnchangedIsPlanned DEF Scheduling!Loop

\* The files are there, and stay, when the scheduler runs.
LEMMA PlanNext == PlanInv /\ [DeploymentNext]_allVars => PlanInv'
<1> SUFFICES ASSUME PlanInv, [DeploymentNext]_allVars
             PROVE  PlanInv'
  OBVIOUS
<1>1. ASSUME Partitioning!Partitioned, file' = file
      PROVE  Partitioning!Partitioned'
  BY <1>1 DEF Partitioning!Partitioned
<1>2. ASSUME UNCHANGED <<file, roundVars>>
      PROVE  PlanInv'
  <2> SUFFICES ASSUME inRound
               PROVE  Partitioning!Partitioned' /\ Scheduling!Planned'
    BY <1>2 DEF PlanInv, roundVars
  <2>1. Partitioning!Partitioned /\ Scheduling!Planned
    BY DEF PlanInv
  <2>2. tasks' \in Seq(Task) /\ left' \in 0 .. Len(tasks')
    BY <1>2, <2>1 DEF Scheduling!Planned, Task, roundVars
  <2> QED BY <1>1, <1>2, <2>1, <2>2, UnchangedIsPlanned DEF roundVars
<1>3. CASE PartitionerStep
  <2> SUFFICES ASSUME inRound
               PROVE  file' = file
    BY <1>2, <1>3 DEF PartitionerStep, PlanInv, roundVars
  <2>1. Partitioning!Partitioned
    BY DEF PlanInv
  <2>2. ~ \E i \in Partitioning!Interval : Partitioning!Round(i)
    BY <2>1 DEF Partitioning!Partitioned, Partitioning!Round
  <2> QED BY <1>3, <2>2 DEF PartitionerStep, Partitioning!Next, Partitioning!TakeSublist,
                           Partitioning!DivideSublist, Partitioning!Merge
<1>4. CASE SchedulerStep
  <2>1. Partitioning!Partitioned /\ file' = file /\ Scheduling!Next
    BY <1>4 DEF SchedulerStep, partitionVars
  <2>2. CASE Scheduling!StartRound
    BY <1>1, <2>1, <2>2, StartIsPlanned DEF PlanInv
  <2>3. CASE Scheduling!Place
    BY <1>1, <2>1, <2>3, PlaceIsPlanned DEF PlanInv, Scheduling!Place
  <2>4. CASE Scheduling!Loop
    BY <1>1, <2>1, <2>4, LoopIsPlanned DEF PlanInv, Scheduling!Loop
  <2>5. CASE Scheduling!EndRound
    BY <2>5 DEF PlanInv, Scheduling!EndRound
  <2>6. CASE Scheduling!WriteSchedule
    BY <1>2, <2>1, <2>6 DEF Scheduling!WriteSchedule, Scheduling!roundVars, Scheduling!bestVars, roundVars
  <2> QED BY <2>1, <2>2, <2>3, <2>4, <2>5, <2>6 DEF Scheduling!Next
<1>5. CASE InBringUp(NetworkNext)
  BY <1>2, <1>5 DEF InBringUp, offlineVars, partitionVars
<1>6. CASE \E n \in Node : HostStep(n)
  BY <1>2, <1>6 DEF HostStep, offlineVars, partitionVars
<1>7. CASE (\E n \in Node : KernelStep(n)) /\ UNCHANGED <<offlineVars, networkVars>>
  BY <1>2, <1>7 DEF offlineVars, partitionVars
<1>8. CASE Terminated /\ UNCHANGED <<offlineVars, networkVars>>
  BY <1>2, <1>8 DEF offlineVars, partitionVars
<1>9. CASE UNCHANGED allVars
  BY <1>2, <1>9 DEF allVars, offlineVars, partitionVars
<1> QED BY <1>3, <1>4, <1>5, <1>6, <1>7, <1>8, <1>9 DEF DeploymentNext

\* In every round, however the tasks are shuffled and whatever the times of the
\* partitions, no two nodes apply and send a task that is not split at the same
\* time: the list global_timestamp, the test has_intersection and the dummy
\* tasks of schedule.py see to it.
THEOREM NobodyAppliesAtOnce == DeploymentSpec => []AppliesApart
<1>1. DeploymentInit => PlanInv
  BY DEF DeploymentInit, Scheduling!Init, PlanInv
<1>2. PlanInv => AppliesApart
  BY DEF PlanInv, AppliesApart, Scheduling!Planned
<1> QED BY <1>1, <1>2, PlanNext, PTL DEF DeploymentSpec
=============================================================================
