# A TLA+ verification of Clementi

Clementi processes a graph on a ring of FPGAs in supersteps. An offline
partitioner and an offline scheduler cut the graph into partitions and give
each of them to one FPGA. In a superstep every FPGA computes new vertex
properties for its partitions, and the FPGAs exchange the results, so that every
FPGA starts the next superstep with the properties of the whole graph. One MPI
process per FPGA starts and awaits the kernels.

This directory holds TLA+ modules for the parts of the system whose behaviour is
hard to test, TLC models of them, and machine-checked proofs.
`PROJECT.json` maps each definition to the source lines it stands for.
All paths below are relative to the root of the repository.

## 1. Inventory

### 1.1 Ring exchange (`src/clementi`)

* `readProp` (a started kernel) cuts a computed partition into packets of 22
  frames: a header (sender, address) and up to 21 data frames of 512 bits; the
  last frame of a packet carries a last flag.
* `globalTrans` (free-running) is a state machine between four streams. In
  `firstFrame` it prefers the network: it copies a header to `writeProp` and, if
  it is another node's, forwards it; only when the network is silent, and
  `write_read_num < FIFO_len`, does it send the header of an own packet. In the
  three other states it finishes the packet it is inside of.
* The network shell carries a datagram to the lower worker by UDP. There is no
  flow control: the only memory at the receiver is the `net_in` stream of 2048
  frames (`app/clementi/kernel.cfg:78`).
* `streamForward` copies every frame to one more `writeProp`; one `writeProp` per
  pipeline stores packets into its copy of the property array, and returns
  after `packet_num` packets.

State: the state machine, `current_node_id`, `write_read_num`, the streams, the
counters of the two started kernels, the property arrays.
Hard: all nodes send and forward at the same time; receivers find headers only
by counting frames; a lost datagram is never sent again; the credits are all
that keeps `net_in` from overflowing.
Correct when: nothing is lost, every packet is stored once by everybody at its
address, nothing is left in the streams, and the exchange ends.

### 1.2 Host superstep loop (`host/clementi/mpi_host.cpp`, `mpi_graph_dataflow.cpp`)

`main` runs `acceleratorExecute` per superstep, between MPI barriers.
Iteration `p` of it computes scheduled partition `p` while `readProp` sends
partition `p - 1`; `writeProp` runs are started in iteration 0 and awaited in
the last one. Two arrays per pipeline (`propBuffer`, `propBufferNew`) swap roles
every superstep; results pass through `propTemp`.
Hard: hosts leave a barrier at different times, so packets of the next superstep
may come in early; sending overlaps with computing in the same buffer.
Correct when: a superstep reads exactly the results of the one before.

### 1.3 Gather-scatter pipeline (`src/clementi/gs.cpp`, `src/header`, `src/coalesce`, `src/src_cache`)

* Source cache: `gs` streams the source vertices of its edges; `coalesce` turns
  them into requests for property lines, `src_cache_read_engine` reads the lines,
  `src_cache_access` serves the 16 lanes of each vector of sources, two by each of
  eight processing elements that keep a window of recent lines.
* Edges and properties are joined (`srcPropertyProcess`, `propProcessSelf`), shuffled
  to 16 processing elements (`shuffleEntry`, `tupleFilter`), accumulated by
  `dstPropertyProcess`, which forwards values through a window of registers
  while the memory write is under way, and put together again by `processEdgeWrite`.

State: the streams between about 60 processes, the memories of the elements, the
windows of the cache. No process knows how many edges come: each ends at a flagged token.
Hard: requests and lanes go their own pace, cache hits are decided by distances,
the end of a stream is marked by padding, and what is left in a stream meets the next run.
Correct when: each edge contributes once, with the property of its source, and
nothing is left when the host sees the run end.

### 1.4 Apply path (`streamMerge`, `streamApply`, `streamWrite`)

A chain of `streamMerge` kernels sums the bursts of all pipelines, `streamApply` combines
the sum with the old properties and the out-degrees, which two readers fetch, and `streamWrite`
stores the result. All of it is joined by position only.
Correct when: every result is stored in the place of its vertex.

### 1.5 Offline tools (`partition_schedule`)

* `input_aware.cpp`: threads cut the list of edges into intervals of destinations; then a
  thread per interval sorts its edges, cuts them into blocks of sources, splits the largest
  blocks, allocates blocks to the pipelines, and repeats with more blocks
  to split until a performance model is satisfied. The result is a file per interval and pipeline.
* `schedule.py`: fits a model of execution times, and deals partitions to FPGAs in
  100 random rounds, with dummy tasks where two transmissions would
  collide; the shortest round is written as one line of partitions per FPGA.

Hard: threads in any order, loops without a bound, formats that only the
kernels interpret.
Correct when: no edge is lost or doubled on its way to the memory of
an FPGA, the loops end, and the files are as the kernels need them.

### 1.6 Bring-up of the network (`acceleratorInit`, `host/network`)

Every host, before the supersteps: loads its FPGA, waits for the link, writes address and
socket table into the network layer, and repeats ARP discovery until its lower worker is in the ARP table.
State: link status, address, socket table, ARP table of each network layer.
Hard: no loop has a timeout, and each host needs something of its neighbour.
Correct when: all hosts come through, and nobody sends before its neighbour can receive.

### 1.7 The rest

Graph loading on the host; the single-FPGA variant
(`src/single_gas`), which has the same dataflow without a ring, and `streamSync`;
`src/gather_scatter`, `src/global_apply` and their hosts, earlier forms of the
same kernels; the network RTL and drivers; test kernels; command line, logging
and OpenCL utilities.

### 1.8 How they interact

| from | to | by |
| --- | --- | --- |
| partitioner | scheduler | which files exist, and their sizes |
| partitioner, scheduler | host | edge files and the schedule, read once before the first barrier |
| host | host | MPI barriers, two per superstep |
| host | network layer of its FPGA | registers; ARP with the neighbours |
| host | kernels | start and wait of runs; buffers by address |
| `gs`, cache, apply path | each other | AXI streams of fixed depth that outlive a run |
| apply path | `readProp` | `propTemp`, memory |
| `readProp`, `globalTrans`, `writeProp` | each other, other FPGAs | streams, UDP |
| `writeProp` | cache, apply path | the array that is read in the next superstep |

## 2. Modules

| module | content |
| --- | --- |
| `Ring` | nodes and neighbours, as in `acceleratorInit` |
| `CreditRing` | packets in the ring and the credit counter of `globalTrans` |
| `CreditRingProofs` | proofs about `CreditRing` for all values of its constants |
| `Broadcast` | what an exchange promises: each packet stored once by all, in the order of its sender |
| `RingExchange` | `readProp`, `globalTrans`, link, `writeProp`, frame by frame |
| `RingRefinement` | `RingExchange` implements `CreditRing` and `Broadcast` |
| `RingInvariant` | the inductive invariant of `RingExchange`, in five layers |
| `RingExchangeProofs` | types, `BlocksAtTheirAddress`, one place for each packet, and that credits prevent loss, frame by frame, for all values of the constants |
| `RingDeliveryProofs` | that a count of packets is all `writeProp` needs, and that `RingExchange` implements `Broadcast` and `CreditRing` |
| `Requests` | what `coalesce` promises: each touched burst of lines is requested, in order, once |
| `Coalesce` | the mergers and the filter of `coalesce`; implements `Requests` |
| `CoalesceInvariant` | the inductive invariant of `Coalesce`: which sources each stream and each merger stands for |
| `CoalesceProofs` | types, and that `Coalesce` implements `Requests`, for all values of the constants |
| `SrcCache` | duplicator, read engine, dispatch, processing elements and merge of the source cache; requests come as in `Requests` |
| `SrcCacheInvariant` | the inductive invariant of `SrcCache`, from the requests to the windows |
| `SrcCacheProofs` | types, `NeverStale` and `DenseLanesMatch`, for all values of the constants |
| `Algorithm` | the functions of the `l2.h` of the three algorithms |
| `ShuffleDecoder` | the table of `shuffleDecoder`, checked for all 256 opcodes by an assumption |
| `EdgeFile` | the padding of `saveFile` |
| `GatherBuffer` | what a processing element of `gs` promises: a table that takes one update after the other |
| `DstProperty` | `dstPropertyProcess` pass by pass, its memory pipelined; implements `GatherBuffer` |
| `DstPropertyProofs` | proofs about `DstProperty`, among them the refinement |
| `GatherScatter` | every process of `gs`, stream by stream; the elements are those of `GatherBuffer` |
| `ApplyPath` | `streamMerge`, the two readers, `streamApply`, `streamWrite` |
| `Pipeline` | a `gs` in all detail, the other pipelines as sources of bursts, and the apply path, run after run |
| `PipelineInvariant` | the inductive invariant of `Pipeline`, process by process |
| `PipelineProofs` | that nothing is left in `gs` or between the kernels when a partition is done |
| `Partitioner` | the threads and rounds of `input_aware.cpp` |
| `Scheduler` | the rounds of `schedule.py` |
| `Network` | the bring-up of the network by each host |
| `Superstep` | hosts, barriers, kernels, double buffers; the exchange is that of `Broadcast` |
| `Deployment` | from a list of edges to the result: `Partitioner`, then `Scheduler`, then `Network`, then `Superstep` |
| `DeploymentProofs` | proofs about `Superstep` for all values of its constants and all schedules, and that nobody sends before the ring can receive, for any number of nodes |
| `MC...` | constants for TLC |

    Ring <- CreditRing <- CreditRingProofs
    Ring <- RingExchange <- RingRefinement --implements--> CreditRing, Broadcast
    RingExchange <- RingInvariant <- RingExchangeProofs;  RingRefinement, RingExchangeProofs <- RingDeliveryProofs
    Coalesce <- CoalesceInvariant <- CoalesceProofs
    Coalesce --implements--> Requests <- SrcCache <- SrcCacheInvariant <- SrcCacheProofs
    DstProperty --implements--> GatherBuffer (its table is that of GatherScatter)
    Algorithm, ShuffleDecoder, EdgeFile <- GatherScatter <- Pipeline -> ApplyPath
    Pipeline <- PipelineInvariant <- PipelineProofs
    Ring <- Superstep <- Deployment -> Partitioner, Scheduler;  Ring <- Network <- Deployment
    Superstep, Deployment <- DeploymentProofs;  Deployment --implements--> Superstep (DealtSpec)

Where one component is composed of others, the inner one is replaced by its promise, which a
run shows it keeps, and a theorem proves it for `Broadcast`, `GatherBuffer` and `Requests`: `Superstep` uses `Broadcast` for the ring and one step for a `gs` run,
`GatherScatter` uses the table of `GatherBuffer` for `dstPropertyProcess` and a queue for the cache,
`SrcCache` uses `Requests` for `coalesce`.

### 2.1 RingExchange

`GlobalTrans(n)` has one disjunct per branch of the switch in `globalTrans.cpp`.
A step of it moves one frame. A branch that writes to `vertexUpdate` waits for
room there, as the stream does; writing to `net_out` never waits, since nothing
pushes back on a UDP link. `ReadProp` is one iteration of the kernel's loop.
The host's loop around it is part of its state (`item`): it starts a run for
each scheduled partition, at any time after the one before.
`WriteProp` is one iteration of the `do ... while`.
A frame is a record of sender, block, and flags. `head` is not in the code: the
network, which sees datagrams, and the properties use it; no kernel action reads
it. A data frame names the block it carries, so that `vertexProp` tells which
block's contents are stored where.

`ConstantsAssumption` has the types of the constants and `OneOwner`: the schedule gives every partition to
one node, once, as `schedule.py` does when it splits none. Without it `StoredMeansComplete` would be false.

`Arrive` and `Drop` are the environment. A datagram is carried once its last
frame is written, in order, and it is dropped as a whole when `net_in` has no room
for a full packet.

### 2.2 CreditRing

The same ring with a packet as the unit. A packet is in one of the stages
`vertexTrans`, `onlySend`, `wire`, `net_in`, `other`, `same`, `home`, `lost`.
The order of packets inside of a stream is left open, so the module admits more
behaviours than the code.

### 2.3 Superstep

Data are versions: what is computed from version `v` alone has version `v + 1`, and
what mixes versions is `Mixed`. So "reads a complete snapshot" is a statement
about versions. `Start...`, `Wait...`, `LeaveBarrier` are the host; the order in
which one iteration waits for its kernels is left out, because the host does
nothing before the last of them returned. The two barriers per superstep are
counted in `entered`. `GatherScatter` reads the array in one step. That is enough
for `SnapshotComplete`, which demands that the array is complete and unchanged
the whole time the host is inside of the superstep, so at any time a pipeline
might read. The code takes the old properties for `streamApply` from pipeline 4
(`propBuffer[3]`): the model takes the last pipeline. `Load` is `acceleratorSchedule`:
each host takes the line of its rank. `Next` alone leaves
`schedule_txt` empty. In `DealtSpec` any schedule that deals no partition twice is written at some time;
in `Deployment` the scheduler writes it, and a run checks for its instance, which has more partitions than nodes and none
that is split, that this is a case of `DealtSpec`. `TypeOK` admits no empty line,
for which the host would read `scheduleItem[0]` of an empty vector.

### 2.4 Coalesce and SrcCache

A vector of sources is sent to `coalesce` and to `src_cache_access`. In `Coalesce`
each read into a register of a merger and each write is a step, as a write may be held
up by a full stream. `ImplementsRequests` says which requests are made and in what order,
`NoRequestHeldBack`, under fairness, that none of them waits for a later vector. `SrcCache` takes `Feed` and
`Request` of `Requests` for its own actions, with the room that `coalesce` has.
`Requests` numbers the sources of the whole stream; `Touched` are those in another burst than the one
before, the requests are theirs, in this order.

`SrcCachePe(i)` is one iteration of the loop of `src_cache_pe_frp`. The code reads
sources and lines without blocking, so an iteration can find either, both or
none. `WithSource`, `WithLine`, `WithServed`, `AskLine` and `EndRun` are its parts,
applied to the registers one after the other as in the code. An iteration begins
only with room for all its output, which withholds progress the code may make: with
streams of depth 1 the model, though not necessarily the code, can block; with the deployed
depth 2 it never does. Vertex numbers are divided by 16, since every number
that the code compares with a source is a multiple of 16. Contents of a window are
known by line and run. What HLS may overlap of two iterations (`dependence ... false`) is not modelled.
`src_buffer` is part of `SrcDispatch`: vector `k` leaves when vector `k + 1` has come.

### 2.5 DstProperty

A step is one pass of the pipelined loop. A store is visible to reads `Delay` passes later;
the code promises the build that passes do not depend on each other (`dependence ... false`), so
that this latency is the build's choice. `DelayAssumption`, `Delay <= L + 1`, is what makes the
declaration true; the code asks for it with `latency min=2 max=2` at an initiation interval of 2
and keeps four words (`L = 3`). The clearing of the memory behind the hand-out is part of `Dump`, but for the last word (`ClearLast`).

### 2.6 GatherScatter, ApplyPath, Pipeline

One action per process and token. A slice (`filterSlice`, `processEdgesSlice`, ...) only
hands tokens on and is part of the depth of its stream. The flagged tokens that end the processes
are modelled as the code makes them: the flag of a vector comes with the destinations of
the next one, both halves of the last vector carry it, and `propProcessSelf` ends at the
first of them; the second is left to `clear_stream`. `ClearedLongEnough` states the assumption
on time in it: the writer of the second half needs fewer cycles than the 257 empty reads. What a slower writer
would leave behind is thereby excluded, and `NothingLeft` says nothing about it: the models do not count cycles.
Properties are `Nat`, so that a sum tells which edges are in it.

`ApplyPath` keeps the functions of the algorithm as the constant `applyFunc` and joins by position,
as the code does. In `Pipeline` the host starts the runs of the next partition when
those of the one before have ended (`PartitionDone`), whatever the streams hold.

### 2.7 Partitioner

`TakeSublist` is the `fetch_add` on the shared counter. Each thread's sublist is divided in one
step, since threads share nothing in it. `Round(i)` is one round of the loop in the
thread of an interval, including the erasing of blocks at positions that were taken before.
`alpha` counts percent; the sums of the float 0.1 that are a little above 0.4 and 0.5 make
`std::ceil` round up once more, which `numBlocksToSplit` has. `std::sort` leaves the order of
equal elements open; the model keeps one. The performance model's costs are integers here.

### 2.8 Scheduler

Times count in units of `0.1 / NODE_NUM`, where the code adds floats. The fit of the
performance model is external: its result is the constant `exe_time`. The rounds, the shuffled order
(any order of the tasks), `Place`, the dummy tasks of `Loop` and the choice of the shortest round
are as in the code, which compares a task with a number at the end of a round and therefore keeps
trailing dummy tasks.

### 2.9 Network

One action per step of `acceleratorInit`. `LinkUp` is the transceivers'; `RunARPDiscovery` is one pass of the ARP loop, which
learns the addresses of any of those FPGAs that have one by then, as requests and answers may be lost. `Accepts` is the
network layer's rule for a datagram: sender, its port and the port it is for must fit an entry of the socket table.
Addresses are records of a host, registers are assigned as a whole, and MAC addresses are left out.

### 2.10 Deployment

The programs one after the other, each reading what the one before has written. A host comes to `Load` after its own
bring-up only, and does not wait for that of others before the first barrier. Data
that only pass through are read where they are (`chunkEdgeData`). Superstep and partitioner agree on the
number of partitions and pipelines (`DeploymentAssumption`, which includes the assumptions of the three parts;
`PipelineAssumption` does the same for `Pipeline`).

## 3. Properties and runs

| run | instance | what it shows |
| --- | --- | --- |
| `credit_ring` | 2 nodes, 3 packets each, 2 credits; the FIFO of node 0 has just enough room, that of node 1 has not | `CreditsCountPackets`, `NoLoss`, and the inductive invariant `IInv`, in a ring that does lose packets, but never in front of node 0 |
| `ring_exchange` | 2 nodes, 1 partition each of 3 blocks, packets of 2 blocks | all safety properties, both refinements and `EventuallyFinished` for the deployed ring size |
| `ring_loss` | 3 nodes, `net_in` with room for two packets of three | packets pass through a third node; no loss is silent: what `writeProp` counts is what it stored, and both refinements still hold (that `writeProp` does not return with a block missing, and that nothing is misplaced, is proved for lossy rings too, section 4). Each node has one packet, so the order of a sender's packets is not tested here; with losses it is not promised (section 4) |
| `ring_four_nodes` | 4 nodes, room for 3 of the 4 packets admitted | violation of `NoPacketLost`, section 5 |
| `coalesce` | all ascending streams of two vectors of three lanes over four bursts, and the start of a second run | `ImplementsRequests`, `NoRequestHeldBack` |
| `src_cache` | two elements, windows of two bursts; a stream without gaps of two runs, and one with gaps | `DenseLanesMatch`: without gaps the property in every lane is that of its source; `NeverStale`: in any case nothing is served that was in the window before the line came; all runs end |
| `src_cache_gap` | the same streams | violation of `LanesMatch`, section 5 |
| `dst_property` | two words, a window of three, the longest latency it covers | `ImplementsGatherBuffer` and the inductive invariant, any order of edges and gaps, run after run |
| `pipeline` | a `gs` with two elements and two others, three partitions of four bursts, one without edges, streams as short as they may be | `EveryEdgeOnce`, `NothingLeft`, `ResultsInPlace`, `PathIsEmpty`, `EventuallyFinished` |
| `deployment` | 14 edges, 3 threads, 3 intervals, 2 lists each, 2 rounds of the scheduler, then 2 nodes, 2 pipelines, 2 supersteps | `FilesFitKernels`, `AppliesApart`, `EveryEdgeLoadedOnce`; `NetworkReady`: nobody sends before every network layer takes what its upper worker sends; and of the supersteps `SnapshotComplete`, `NoPacketFromAnotherStep`, `SentResultsAreFinal`, `CopiesAgree`, `EventuallyAllEnd`; `ImplementsSuperstep`: the schedule is one of those the proofs are about |
| `deployment_split` | 3 nodes, a partition that takes most of the time | violation of `EveryEdgeLoadedOnce`, section 5 |
| `block_split` | an interval of three blocks | violation of `LargestAreSplit`, section 5 |

Deadlock is checked in all runs but `credit_ring`, whose specification simply ends, `ring_loss`
and `ring_four_nodes`, where the loss of a packet does leave every host waiting for ever.

**Bounds.** A partition of three blocks in packets of two has what 65536 blocks in
packets of 21 have: a full packet followed by one that is not full. With one
credit each, both nodes reach the threshold and a node has a packet waiting
behind it; `credit_ring` has two credits. Two supersteps
use both roles of the double buffer, and a packet of the second can come in
while the first ends. Three partitions on two nodes give a first, a middle and
a last iteration of the host's loop on one of them, in all the distributions that the rounds of the scheduler lead to.
Of the three intervals one is balanced at once, one after several rounds that split more and more blocks, and the
sublists of the threads have a remainder. No counter is cut off: all runs end by
themselves. Two elements have an order in the chain of lines and in dispatch and
merge; four lanes per vector can touch more lines than a window has, which is harder than 16
lanes in front of 128 bursts. `coalesce` holds three vectors, which is fewer than
the 16 of the code, so that it makes `test_duplicate_512` wait. Streams are sorted and padded as
`saveFile` of the partitioner writes them. In `pipeline` three runs follow each other, the
first has two real vectors, so that padding, a partly filled and a full vector occur, and the third has nothing but padding.

**Fairness.** `FairSpec` of `RingExchange` demands weak fairness of `readProp`, `globalTrans`, `Arrive`,
`writeProp`; `DeploymentSpec` that of each host and (`KernelFairness`) each started kernel. The kernels
are pieces of hardware with a clock that proceed whenever their streams let
them, and hosts poll for the end of runs. One fairness condition for all
branches of `globalTrans` is enough: no two of them are enabled together. There is none for `Drop`.
In `Coalesce` and `SrcCache` every free-running kernel is weakly fair, for the same
reason, and so is the host's start of the next run. `PipelineSpec` has weak fairness of the whole
next-state relation only: every process makes finitely many steps in a run, so none of them can be overtaken for ever.
`Scheduler` is a sequential program.
Of the network, `DeploymentSpec` assumes that a link comes up some time, and that a request of a host that repeats
its ARP requests while the neighbour has an address is answered some time (`Discovered`). That the address is there is not assumed; it follows. The threads of `Partitioner` are fair together, for
the same reason as in `Pipeline`; the formula is spelled out with `Running`, which says when a step is possible.

## 4. Proofs

`CreditRingProofs` proves, for all `PROCESSOR_NUM`, `FIFO_len`, `Room`, `Packet`,
`Origin` that satisfy `RingAssumption` and `CreditAssumption` (positive
numbers, finitely many packets):

* `TypeCorrect`: `Spec => []TypeOK`; so the `int` counter never is negative.
* `CreditsAreExact`: `Spec => []CreditsCountPackets`.
* `CreditsPreventLoss`: `Spec => NoLoss`, that is, a packet is only lost in front of
  a node `n` with `Room[n] < PROCESSOR_NUM * FIFO_len`, whatever is lost elsewhere.
* `Invariance`: `Spec => []IInv`, from which the others follow.

`CreditsCountPackets` alone is not inductive. When a header comes home, the
credit is given back while frames of the packet still wait in `net_in`. That no
second packet of the node does the same needs `OneBusyPacket` (the state machine is inside
of one packet at a time) and `EndsAtOrigin` (a packet is sent and taken
off the ring at its origin). `IInv` is their conjunction with `TypeOK`.
Its preservation has one lemma per action. What matters for `NoLoss` is `Drop`
(`DropNeedsSmallFIFO`): the packets in the ring are numbered per node from 1 to `FIFO_len`, which
`CreditsCountPackets` makes possible; pairs of node and number are an injection into
a set of `PROCESSOR_NUM * FIFO_len` elements (`RingHoldsFewPackets`); the packet
on the link is not among those in the FIFO; hence a full FIFO is smaller than the capacity
assumption demands.

`RingExchangeProofs` and `RingDeliveryProofs` prove about the frames of
`RingExchange`, for every `PROCESSOR_NUM`, `FIFO_len`, `Payload`, `BlockNum`, `total_p_num`, all depths of
streams with `NetDepth > Payload`, and every schedule in which each partition has one owner (`ConstantsAssumption`):

* `TypeCorrect`, `EveryBlockAtItsAddress`: `Spec => []TypeOK` and `Spec => []BlocksAtTheirAddress`.
* `StoredIsComplete`, `StoredLeavesNothing`: `Spec => []StoredMeansComplete` and `Spec => []NothingLeftBehind`.
* `CreditsPreventLoss`: `EnoughRoom => (Spec => []NoPacketLost)`.
* `RingBroadcasts`: `EnoughRoom => (Spec => ImplementsBroadcast)`. `Broadcast` is all that `Superstep` knows of the
  ring, so this joins the proofs about frames to those about supersteps.
* `RingFollowsCredits`: `Spec => ImplementsCreditRing`, so what `CreditRingProofs` shows of packets is true of frames.

All but the two with `EnoughRoom` also hold for a ring that loses datagrams. `EnoughRoom` is
`PROCESSOR_NUM * FIFO_len * (Payload + 1) <= NetDepth`: for the two FPGAs of `kernel.mk` it says 1408 <= 2048, for four it is
false, and `ring_four_nodes` shows what then happens. The invariant, in `RingInvariant`, has five layers.

`IInv`: *framing.* None of the properties is inductive, because they say nothing of frames that are under way.
`Framing` gives every end of every stream a position, `Boundary` or the address of the data frame that must
come next, such that a stream carries its frames from one position to the other (`Flow`), a sender and a receiver stand where
their streams end (`ReadPos`, `OutPos`, `WritePos`), and a state machine in `firstFrame` is at a boundary. Each action takes a frame from the
front of a stream and adds one to the end of another; the lemmas `FlowAppend`, `FlowTail` and `FlowSuffix` (for `Drop`, which
removes a whole datagram) move the positions. `Credited` bounds the headers in the ring by the counter.

`CreditInv`: *loss.* A header leaves the link only with the rest of its datagram, so the header of the packet that a node is inside of is
still on its link (`OpenPacket`), and the node that takes its packet off the ring has a credit to spare (`HomeCredit`). Hence `FIFO_len`
bounds the packets of a node of which any frame is on a link or in a `net_in` (`HasRoomForAll`): every frame belongs to the header in front
of it, so frames can be counted by packets.

`DeliveryInv`: *completeness.* `OnePlace(n, a)`: on its way to node `n`, packet `a` is in one place only, counted with multiplicity: not yet read, in
`vertexTrans`, on a link or in a `net_in` that comes before `n` on the ring, in `vertexUpdate`, being stored, stored, or lost.
`Counted` says that `process_packet_num` is the number of packets that are stored in full, since no packet is stored twice. A
`writeProp` that returns has therefore counted as many packets as the graph has, hence all of them. They are in one place only, so
no header is anywhere else, and by `Framing` a stream without a header is empty. `Balanced` makes the credit counter exact.

`OrderInv`: *order.* As long as nothing is lost, the headers of a sender come in the order of its schedule in each stream, and what went by at
one end of a stream is known from what went by at the next (`Ordered`, round the ring, `OwnOrdered` for `vertexTrans`). `StoredBefore` is what
`Broadcast` asks for. With a loss this fails: the packet behind a lost one may be delivered, which is why `RingBroadcasts` needs `EnoughRoom`.

`TravelInv`: *ownership.* `DeliveryInv`, and that all frames carry the node that computes their partition (`Stamped`), so that a node in
`remainFrame_same` is inside of an own packet and one in `remainFrame_other` is not (`TakesOwn`). It is the invariant for
`RingFollowsCredits`, and needs no `EnoughRoom`. The mapping of `RingRefinement` tells the stage of a packet from where its header and
its last frame are found, with `CHOOSE` and `CASE` over whole streams. `AllStaged` replaces that by what a step can be compared with (`Staged`): a
header on a link or in a `net_in` is at one place only (`OnePlace`); a packet on a link is complete if no last frame is missing behind its
header (`OpenIn`); and one that is neither is lost, not sent, home, or being taken home (`TakingHome`), which the position of `globalTrans`
tells, since by `Framing` the last frame of a packet is where its header went before it. Then each step of the
exchange moves at most one packet (`Untouched`, `PacketMoves`), and there is one lemma per branch of `globalTrans`, link event and
kernel. The step that needs most is `Drop`: a `net_in` without room for a datagram holds as many packets as `CreditRing`
has room for (`ManyOccupants`). Its frames are counted by the headers in it, and the frames of a packet whose header was read
before belong to one more occupant, in stage `same` or `other`.

These layers were checked by TLC as invariants before they were proved: all but `OrderInv` with the constants of `ring_exchange` (11 088 states) and of
`ring_loss` (49 935), `OrderInv` with two nodes, two credits and packets of one block (82 000).

`DstPropertyProofs` proves, for every `Words`, `Prop`, `gatherFunc`, `L` and every
`Delay <= L + 1`:

* `Invariance`: `Spec => []IInv`.
* `Refinement`: `Spec => ImplementsGatherBuffer`: the element is a table that takes one update after the other.

The invariant relates the memory to the table in three parts: an address whose store is still under way is
in the window (`StoresAreInWindow`, where `DelayAssumption` is needed); what the window holds for an
address is its newest word (`WindowIsCurrent`); and the memory has the current word of every address without a store under
way, or, during the hand-out, zero behind the hand-out (`MemoryCatchesUp`). Hence `ForwardedIsCurrent`: an
update starts from the word that all updates before it have made.

`DeploymentProofs` has three parts. The first, about `Superstep`, proves, for every `PROCESSOR_NUM`, `KERNEL_NUM`, `SUPER_STEP`, `total_p_num` and
`PartPackets` (positive numbers) and every schedule that gives each node a partition and deals none
twice (`Dealt`), with `DealtSpec` for the specification:

* `TypeCorrect`, `SnapshotIsComplete`, `NoPacketIsFromAnotherStep`, `SentAreFinal`, `AllCopiesAgree`: the
  properties of the same names, `TypeOK`, `SnapshotComplete`, `NoPacketFromAnotherStep`,
  `SentResultsAreFinal`, `CopiesAgree`, always hold.
* `Invariance`: `DealtSpec => []IInv`, from which the others follow.

None of these properties is inductive, since each depends on where all other nodes are. `IInv` adds that
the barriers keep the nodes less than a superstep apart (`HostsTogether`); that what a pipeline, `streamWrite`
or `readProp` works on belongs to the host's superstep (`ComputedInTime`); that a packet names its superstep
and nobody sends one twice (`SentOnce`); that what is still under way to a node is of the superstep it is in
(`UnderWay`); that every packet that came to a `writeProp` waits there once or is stored, and that
the kernel has counted the stored ones (`Received`); and that a node goes on only with all results of the superstep
before (`Complete`). The two hard steps are these. When `writeProp` has counted to `packet_num`, it
has stored as many chunks as the graph has, hence all of them (`ChunkCount`), so nothing is left in its queue or on
the ring (`WaitLastInv`). And when `readProp` sends, no other node can have left the superstep, since it would need this very
packet (`ReadPropInv`), so the packet is in time for everybody. There is one lemma per action; the ones that
neither move packets nor end a superstep share `NetSame`. That the schedule of `Scheduler` is of this kind is checked for one
instance, as `ImplementsSuperstep` of run `deployment`; a schedule that splits a partition is not (section 5), and neither is one with an empty
line (section 6).

The second part proves, for every number of nodes, pipelines, partitions and supersteps, and for any
result of the partitioner and the scheduler:

* `NobodySendsTooEarly`: `DeploymentSpec => []NetworkReady`.

A host that is through with its bring-up knows that its lower worker had an address, not that it had a socket to
receive from: that is what the first barrier adds. The invariant `ReadyInv` says so: the registers of a node are
as far as its bring-up is (`Registers`); a host enters its first barrier after its own bring-up, and `readProp` runs, packets
are sent and barriers are left only when all hosts have entered theirs (`HostsKnow`). Two neighbours that are
done reach each other (`DoneReach`), since a node is the upper worker of its lower one.

The third part is about the plans of `schedule.py`, for every number of nodes, all times of the partitions, any number of rounds
and every order in which the tasks are shuffled:

* `NobodyAppliesAtOnce`: `DeploymentSpec => []AppliesApart`.

The code never compares the nodes' plans. It keeps a list of ranges and a clock for each node; `AppliesApart` replays the lists of tasks.
The invariant (`Planned`, and `PlanInv`: the files are all there before a round starts, and stay) says that the clock of a node is what
its list adds up to (`TimeOf`), dummy tasks and shares of split tasks included, and that each task placed has its range in the list,
which ends when the node is done with it. A task is placed at the end of a list, so no earlier one moves (`Beginnings`, `AssignIsPlanned`), and
two ranges that do not intersect follow one another (`Disjoint`). That a dummy task is no task of a partition takes that the script looks for
100 files at most (`SchedulerAssumption`). `TimeOf` and `all_reduce_tasks` are folds: `FoldLeft` is a function chosen by its recursion, and
what it does from prefix to prefix (`FoldExists`, `FoldPrefixes`) is proved with `LeastNatural` instead of an induction scheme. `PlanInv` was checked by TLC as
an invariant of run `deployment` (143 962 states).

`CoalesceProofs` proves, for every number of lanes (at least 2), depth of the streams and stream of vectors
(`CoalesceAssumption`):

* `TypeCorrect`: `Spec => []TypeOK`; no stream is written beyond its depth.
* `RequestsMade`: `Spec => ImplementsRequests`. `Requests` is all that `SrcCache` knows of `coalesce`.
* `Invariance`: `Spec => []IInv`, from which they follow.

No merger counts: that an item is of the same vector as the merger's own one is known by the flag `last` only, which each merger
computes anew. So the invariant, in `CoalesceInvariant`, numbers the sources of all vectors, and says for each stream between which two sources
its items lie: `w[i]`, up to which merger `i` has written, and `r[i + 1]`, up to which the next one has read. The stream has an item for each source between
them that is in one of the first `i` lanes and either the first of its vector or in another burst than the source before it (`Starts`), in their order, and
the flag of an item tells that no further one of its vector comes (`IsLast`). A merger holds at most the one item between what it wrote and what
it read, its own streams have the sources of its lane from the vector of `w[i]` on (`OwnInv`), and inside of a vector it has something of
this vector left (`MergerInv`). The steps that matter are the writes. Where the flag is not set, another item of the
vector comes, so the merger may pass on what it holds and stay. Where it is set, all sources from the item to the lane before are of one burst
(`SameBurst`), so a comparison with the item is one with the source before, and the merger before is through with the vector
(`WrittenOut`): hence nothing is left between `w[i]` and the next vector. The filter sees the sources that start a burst and the first one of each vector
(`FilterTurn`); what it has passed on last is the burst of the source before, so that it drops the latter unless they start one too.
The places are parameters that are bound in `IInv`, not variables: the code keeps none of them. With places up to the end of the
stream the invariant was checked by TLC for four of the streams of run `coalesce` (2 245 states).

`SrcCacheProofs` proves, for every number of elements, lines of a window and of a burst (`BURST` at least 2, 32 in the code, so that
the two closing lines of a run are no longer than a burst), all depths of streams, and all streams of
sources in the order in which `saveFile` writes them (`SrcCacheAssumption`):

* `TypeCorrect`: `Spec => []TypeOK`.
* `NeverServesStale`: `Spec => []NeverStale`. Whatever gaps the sources have, an element never serves what its window kept of an earlier run.
* `DenseLanesServed`: `Spec => []DenseLanesMatch`. Without gaps, every lane gets the property of its own source.
* `Invariance`: `Spec => []IInv`, from which they follow.

Lines and sources come to an element by different ways, at any distance from each other, and all the code compares are two
numbers, the maximum of the window and the source. The invariant, in `SrcCacheInvariant`, therefore numbers both by their
place in the stream. The sources that wait for an element, the one it has and the properties that wait behind it are consecutive
sources between `src_dispatch` and `src_merge` (`ItemsInv`). The lines of request `c` have the numbers from `c * BURST`
on, and what is in front of each element is the stretch between its own position and that of the element above (`Chain`). The
requests are those of `Requests`, in order (`RequestInv`), so that the line of every source of the run is among the numbers from
`First` to `Stop`. Then, of the window (`WindowInv`):

* the maximum is the end of the line stored last;
* the place of a stored line holds it or one stored later, which has the same place;
* a line that follows on the one before was stored when it was less than a window above the source of then, and sources ascend.

When the test in line 133 admits a source, lines up to the source have been stored, since addresses ascend with the
numbers; the line of the source is among them. Its place holds it or a later line of this run: hence `NeverStale`, in all cases. If no burst
is skipped, each line follows on the one before; a later one at the same place would be a window above the
source: hence `DenseLanesMatch` (`ServedLine`). Where a burst is skipped the third item says nothing, which is the finding of
`src_cache_gap`. That an element that has ended its run begins the next one with nothing on its way needs that the lines
of a run end with two more than the sources can ask for (`Stop`, `Idle`).
The invariant was checked by TLC as an invariant of runs `src_cache` and `src_cache_gap` (164 726 and 207 115 states).

`PipelineProofs` proves, for every number of pipelines, elements and lanes, all sizes of tables and bursts that fit each other, all
depths of streams, all lists of edges, functions of the algorithm and schedules (`GatherScatterAssumption`, `PipelineAssumption`):

* `NothingIsLeft`: `PipelineSpec => []NothingLeft`.
* `PathIsLeftEmpty`: `PipelineSpec => []PathIsEmpty`.
* `PipelineInvariance`: `PipelineSpec => []IInv`, from which they follow.

The code passes no count of edges on: a process of `gs` ends at a flagged token, and the end of a kernel is that of all its
processes. So the invariant, in `PipelineInvariant`, says that in each stream the flagged token is the last one, that it is
there if and only if the writer has ended, and that the reader has ended if and only if it took it (`FlagEnds`, `FilterEnds`). Four places need
more, since there the code does not end where the data ends:

* *The cache.* It can hold the end of the sources of this run, or of the one before in front (`InCache`), and how many vectors are between them is
  known from what `src_stream_out` gave and `srcPropertyProcess` joined (`SourcesOut`, `Served`). An end of the run before is dropped before a vector is served,
  so there is never more than one at the end.
* *The late flag.* The flag of a vector comes with the destinations of the next, so `srcPropertyProcess` is always one vector of destinations ahead
  (`DestsOut`, `Joined`), and only the last vector makes flagged halves (`JoinInv`).
* *Two flagged halves.* `propProcessSelf` has ended its loop when it took the first and has ended when it cleared the second
  (`SelfInv`, by the number of halves that were ever taken, `HalvesOut`).
* *The tables and the writer* count words instead: `processEdgeWrite` ends with the word on which every element ends (`GatherInv`, `WriteInv`).
  That each address below `Dumped` is zero again makes the tables empty for the next run.

Between the kernels there is no flag at all. The bursts that were taken of each pipeline, of each sum and by `streamApply` are a descending chain
(`MergeInv`), and all are at most the bursts of a partition; when every kernel that the host waits for has ended, both ends of the chain are
that number, hence all between, and each stream holds the difference of two neighbours. That is why it does no harm that no host waits for a `streamMerge`.
`PipelineAssumption` says that the other pipelines write as many bursts, which `gs` does whatever edges it has (that is part of `WriteInv`).
The invariant was checked by TLC as an invariant of run `pipeline` (289 540 states) before it was proved.

Model-checked only:

* `FilesFitKernels` and `EveryEdgeLoadedOnce` of `Deployment`: what the partitioner does to the edges is built from `SelectSeq`, a primitive that
  the provers cannot open;
* `EveryEdgeOnce`, `ResultsInPlace`: which edges are in a sum is a fold over the list of edges, over values of which `gatherFunc` is only
  known to be commutative and associative. `TypeOK` of `GatherScatter` also is one, because the words of a table are such sums;
* `ImplementsSuperstep`: no round is known to leave a node with work, and some leave one without it;
* liveness, among it `NoRequestHeldBack`, and `ENABLED`, which are out of reach.

## 5. Findings

*Credits of four FPGAs exceed the receive FIFO.* Each node may have 32 packets of 22
frames in the ring (`src/clementi/globalTrans.cpp:18`), and the FIFO has 2048
places. For the two FPGAs of `app/clementi/kernel.mk` that is 1408 frames, and
the capacity assumption holds. For the four FPGAs that the README and the host
code name it is 2816. The comment "write_read_num is used to aviod UDP data
packet loss" (line 49) is then not true of every schedule: run `ring_four_nodes`
finds it with the same proportion (room for three packets out of four). It needs a node
that does not take frames for as long as the others need to fill it, such as
one whose `writeProp` was not started yet. As `ring_loss` shows, the loss is not
silent: the hosts wait in `wrPropRun.wait()` for ever.

*A gap in the sources replaces a line in use.* An element of the source cache stores
the next line when `required_min_vertex_index + CACHE_SIZE > max_vertex_index`
(`src/src_cache/src_cache_access.cpp:244`), where the maximum is the end of the lines it
has, not the address of the line it is about to store. Without gaps the two are the
same, and `src_cache` shows that every lane is right. But bursts without a source are
not requested. If the next requested burst begins a multiple of 4096 lines (65536
vertices) after one whose first line is still in use, its first line replaces
that line, and the test in line 133, "data in cache", still succeeds: run
`src_cache_gap`, with sources in lines 0, 4, 9 and windows of four lines. The edge then gets the property
of another vertex of the same run (`NeverStale`). It takes a pipeline whose edges have
no source in the 127 bursts between, and either a vertex with many edges in the first line of
a burst or lines that are faster than sources. The sources of the cache's test program
have no gaps (`test/host_src_cache/src_cache.cpp:50`).

*A split partition is not split.* `schedule.py` gives a partition that is longer than twice the average of a
node to every node and plans a share of its time there ("split", lines 114 and 138), but the schedule
names the whole partition, and hosts load and compute all of it: run `deployment_split` loads its edges three
times. The nodes also send its results once each, while `writeProp` counts them once.

*Another block than the largest is split.* `processBlocks` erases blocks from the vector while it goes
through a list of positions from before (`partition_schedule/input_aware.cpp:141`): from the second one
on another block may be split than the comments say (line 328: "20% top blocks"), run `block_split`. No edge is lost
(`EveryEdgeLoadedOnce`).

Beyond the runs: `#if TYPE == bfs` in `src/header/fpga_application.h:6` compares names that are no macros in a kernel build,
both count as 0, and `bfs/l2.h` is compiled whatever the build asks for. It is a matter of the build, and listed as a hazard.

## 6. Not modelled, and why

* Vendored code: `sparsepp` alone is more than 10 000 of the 26 515 implementation lines, and the
  third-party network IP and its register map a further part. None of it is the system's own logic, so the share of
  lines with a model stays small however much of the rest is modelled.
* Test kernels, drivers of tests, command line, logging, OpenCL utilities: no control of the system's own.
* Allocation and transfer of buffers, transfer of results: executed once, by
  one process, before the first barrier or after the last.
* The single-FPGA variant with `streamSync`, the earlier forms of kernels in `src/gather_scatter` and `src/global_apply`, and the
  host `host/netgp`, for which no build has kernels.
* The variants of `gs` for edge properties and performance counters, which no build enables.
* `input_aware.py`, an earlier version of `input_aware.cpp`, and the fit of the scheduler's performance model.
* A node with an empty schedule, and a list of edges with an empty interval or with a destination of an
  id that is a multiple of 2^20 and the largest (`PartitionerAssumption`): undefined behaviour follows at once.
* Overlap of two runs in the source cache: an element that has served its last source
  would take a source of the next run while lines of this run are still on their
  way. `StartRun` waits until the chain is empty, as the latency of the
  host between two runs is far longer than that takes.

## 7. What is left

1. `streamSync` and the single-FPGA host loop.
2. A proof, for all values of the constants, of `FilesFitKernels`, `EveryEdgeLoadedOnce`, `EveryEdgeOnce` and `ResultsInPlace`: each needs
   lemmas about several folds, of the kind that `TimeOf` has in `DeploymentProofs`.
