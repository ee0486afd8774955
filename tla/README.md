# Octopus in TLA+

Octopus is a cycle-driven simulator of multi-core cache hierarchies: cores, private
L1s, a shared LLC, the interconnect between them, a main memory with a choice of DRAM
controllers (MCsim), and a bridge that lets gem5 drive the caches. Its value rests on
the simulated machine being right: coherent, free of deadlock, losing and repeating no
message. This directory models the parts that decide that, checks them with TLC on
small instances, and proves the central facts with TLAPS for every instance.

Paths below are relative to the repository; `src/X.cpp` is the simulator's source
directory.

## 1. The system

| Part | State it keeps | Operations | Talks to |
|---|---|---|---|
| Cores (`CPU`) | instruction window, samples of a trace or of a job, releases and deadlines | issue loads and stores, take answers, release, finish and skip jobs | their L1 |
| Clock (`ClockManager`) | the next edge of every clocked object, the triggers | step objects in order of time and registration, stop | everything |
| gem5 bridge (`gem5/octopus.cc`, `ExternalCPU`) | pending packets, refused ports, credits | accept or refuse a packet, perform data at commit, answer at completion, retry | gem5, the L1 over a direct link |
| Cache controller (`BaseController`, `CacheController`; `_End2End` for the LLC, `Exclusive` for MESI, `Directory`) | processing queue, pending requests, requests saved for a write-back, deferred array accesses | intake of one message per interface, a loop over ready messages, admission, hit, pending, supply, eviction | interfaces, protocol, data handler |
| Processing queue (`FRFCFS_Buffer`) | the queue, its dirty mark, the per-line mask, held lines | bounded and forced push, ordered front push, first-ready scan | controller |
| Coherence protocols (`src/Protocols`, tables in `Protocols_FSM/*.csv`) | line states in the data handler, owner, sharers, acknowledgement counts | decode an event, look a cell up, return controller actions | controller |
| Data handler (`CacheDataHandler_COTS`) | array and its timer, MSHR, write-back registers, queue of evictions to issue | fill, evict, write back, free | controller, protocol |
| Snooping bus (`TripleBusController` on `SplitBusController`, `TripleBusInterface`) | TX/RX buffers per agent, slot counters, held messages, delivery numbers | push, elect, hold, broadcast, send, peek, pop | every cache controller |
| Unified bus (`UnifiedBusController`) | one slot counter, one elected message | elect, broadcast, force-elect, send | every cache controller |
| Mesh and NoC (`MeshController`, `NoCController`, their interfaces) | TX buffers per link, RX buffers, links in use, routing tables | push, elect, deliver, forward | directory controllers |
| Arbiters (FCFS, round robin, TDM) | candidate index | `elect`, `forceElect` | bus, mesh and memory controllers |
| Memory path (`Point2PointController`, `MainMemoryController`, `MCsimInterface`) | slot counters, request queue | read, write, roll back, answer | LLC |
| MCsim (`src/MCsim`) | request queues, open-row table, command queues, timers, device state | schedule requests, generate commands, schedule commands, move data | `MCsimInterface` |

Everything runs in one thread, but the machine it simulates is concurrent: messages
wait in buffers between the components, each component sees them in its own cycle, and
the order in which a clock edge reaches components is visible. What is hard:

* **order**: a snooping protocol is right only if all caches see one order, and here
  requests and invalidations wait in two buffers, demands can be put back in a queue,
  and data travels on a lane of its own; a directory protocol has to live with
  messages that overtake each other between different pairs of nodes; the bridge sees
  commits in another order than gem5 issued the accesses;
* **full buffers**: bounded buffers, queues, MSHRs, credits and write-back registers,
  with forced admissions that go past the bounds to avoid deadlock;
* **stale state**: a line's state changes between the cycle a request is issued and
  the cycle it is broadcast; a mark tells the queue it need not rescan; the request
  scheduler's row table runs ahead of the device;
* **progress**: slots, reserves, gates, stalls, retries and scheduling preferences,
  each of which could wait for the other;
* **uninitialised state**: the point-to-point link and two DRAM schedulers read fields
  before they are written.

What makes each component right:

* bus and mesh: one broadcast order, or one order per pair, seen by everybody;
  all-or-nothing broadcast; nothing lost or repeated; everything observed in the end;
* protocol and controllers together: one writer, no stale reader, one answer per
  request, no unreachable cell reached, agreement of home and caches at rest, and rest
  is reached;
* one controller with its queue: no demand lost or answered twice, demands to a line
  in order, no forgotten eviction, no ready message missed by the rescan skip, every
  demand answered;
* memory: a read sees the write-back before it, is answered once and is answered; a
  column access meets its own row;
* bridge: data operations in an order the core cannot tell from program order where
  writes are concerned, no callback out of turn, no packet forgotten;
* cores and clock: jobs in their periods, generators to the end, a run that ends when
  and only when all work is done.

`PROJECT.json` lists the components, the hazards (each at its line, with the
properties aimed at it) and the source lines of each definition.

## 2. Modules

```
Arbiters ──┬── TripleBus ──── MCTripleBus                (TripleBusProofs)
           ├── UnifiedBus ─── MCUnifiedBus               (UnifiedBusProofs)
           ├── MemoryPath ─── MCMemoryPath               (MemoryPathProofs)
           ├── Mesh ───────── MCMesh                     (MeshProofs)
           │     └─ implements ─ OrderedNetwork
           └── BufferLemmas: used by the proofs about buffers
MSITables ─┬── MESITables ─── Snooping ── MCSnooping     (bus order: BusOrdered)
           └── L1Controller ── MCL1Controller            (L1ControllerProofs)
DirectoryTables ── Directory ── MCDirectory              (pair order: PairOrder)
                       └─ implements ─ CoherentLine      (MeshProofs, with OrderedNetwork)
DramRequests ── DramCommands ── DramController ── MCDram
Gem5Bridge ── MCGem5Bridge                               (Gem5BridgeProofs)
Cores ── MCCores                                         (CoresProofs)
```

The `MC` modules extend a component for TLC; the `.cfg` files give the constants.
Operators whose comment begins with "Mutant" (`ElectedLeftBehind`,
`StalePutMUnexpected`, ...) are not used by any specification: each stands for a
plausible mistake in the definition it names, and putting it in that definition's
place makes a property fail.

**Arbiters** gives the winner and the new candidate index of `elect` for the three
arbiters: oldest first, round robin from the index, and TDM, which may elect only on a
slot boundary and only for the owner of the slot.

**TripleBus** is the bus, its interfaces and channels. Agent 1 is the LLC. `busStep`
is one bus cycle: the request lane (back-pressure by the response reserve, election in
slot 0, delivery in the last slot, held while a receiver is full), the response lane
and the service lane, which delivers an invalidation at once. `PushRequest`,
`PushResponse` and `PushService` are the controllers' calls; `Intake` is their peek
and pop, with the alternation between request and response buffers and the comparison
of delivery numbers between request and service buffers; `RefuseDemand` is a peek the
controller does not follow by a pop. `log`, `seen` and `sent` are history.

**UnifiedBus** is the bus with one link: `ElectRequest`, `BroadcastRequest`,
`ElectResponse`, `SendResponse` and `Wait` are the branches of its slot counter. The
tests are in the order of the code, so a request latency of 1 loses the elected
message there too; the runs use 2 and more.

**MSITables** and **MESITables** hold the tables of the snooping protocols, row by
row, as records of next state and actions.

**Snooping** follows one line through every cache: L1s, LLC, the bus between them,
memory behind. `protocol` is MSI or MESI; under MESI the L1s are
`CacheControllerExclusive`, whose one addition (`removeSavedReq`) is part of
`SavedAfter`. Variable `turn` is the clock edge going round (bus, L1s, LLC), and a
controller's turn is an intake followed by one action per ready message. Other lines
act through what they do to this one: they evict it, fill MSHRs (`Full`), fill the
LLC's queue (`MaxRefusals`) or keep the LLC's data array busy (`parked`). The two RX
buffers of an interface are one sequence here, which is what theorem `BusOrdered`
justifies; its buffers never fill: a full buffer holds a broadcast back for everybody
(`AtomicBroadcast`), which delays messages and keeps their order. The model has the
shipped snooping configuration: an occupancy array at the LLC, no data latency at the
L1s (docs/StateAndData.md).

**L1Controller** follows every line through one L1: queue, dirty mark, per-line gate,
intake order, admission and put-back, pending demands, MSHR, array and write-back
registers, and the data array in its three forms: `instant` (latency 0), `occupancy`
(one access at a time, `isReady`), `pipelined` (`arrayAdmit`, `deferForDataArray`,
`pipelineFire`: a message that needs the array is deferred for its latency, and the
interlock holds its line in the queue meanwhile). The bus is the environment: it owes a
request its own broadcast and then its data, keeps that order per line, and snoops
lines at will. Any resident line may be the victim, which covers every replacement
policy.

**MemoryPath** is everything between the LLC and memory, cycle by cycle: the LLC's
upper interface, the rollback of a write-back when its line is read again
(`sendBusRequest` of `CacheController_End2End`), the point-to-point link with both its
slot counters, `MainMemoryController` with its queue, `MCsimInterface`, and an LLC
without memory (`perfect_llc`), which makes fills up and drops write-backs. The upper slot state starts with any value, as the
constructor leaves it.

**DirectoryTables** and **Directory** are the directory protocols MSI, MESI and MOESI:
one line in the L1s and the home, with sharers, owner, acknowledgement counts,
forwarded requests, saved requests and stalls. Init chooses the protocol, the transport
(`bus`, `mesh`) and the workload. The transport keeps the order the controllers can
observe: on the bus one order of requests, on the mesh one per pair of nodes and class,
which is `PairOrder` of Mesh; delays are arbitrary.

**CoherentLine** is what a coherence protocol promises: permissions per core, write
permission exclusive, permission gained only as the answer to a request. Directory maps
its states to permissions by what the table lets a core do (`PermOf`) and its pending
requests to `want`; `Implements` is that every directory protocol implements it.

**DramRequests**, **DramCommands** and **DramController** are MCsim: a memory system is
a record of its `.ini` keys, and a DRAM cycle runs the request scheduler, fills the
command queues, sends at most one command and moves the data. A scheduler call is an
operator from its state to the set of states it can leave; reads outside a vector and
uninitialised fields (`Heaps`) are the reason for the set.

**Gem5Bridge** is one bridge per core with its `ExternalCPU`, the direct link and the
tick; gem5 offers packets between ticks, and the L1 commits in any order. A commit takes
a step of its own for each held back operation it releases (`releaseHeldBack`, the loop
of the code); no other component moves until they are done. **Cores** are
the trace and task cores under `ClockManager`, with a memory that answers in any order
within a latency.

**Mesh** is links, interfaces and switches, each with the code's buffers and direction
rule. `step` is one link: it elects, stays busy, delivers (`Delivers`) or ends the
program at a destination that is unknown or full (`Exits`, which fills `fault`); the
switches then forward until they have nothing left. The controllers have clocks of
their own, take at most one message a cycle and refuse a demand when their queue is
full, so between two cycles of the network each may `Take` any number of messages, none
included, or peek and `Leave` what it sees.

**OrderedNetwork** is what an interconnect promises its controllers: each destination
takes a message once, and always the oldest outstanding one of its flow. `Implements`
of Mesh is that the mesh does, with the numbers of the copies taken as the refinement
mapping.

What the models abstract: addresses are lines, messages carry a kind, an owner and
destinations, and there are no bytes (the bridge knows which bytes an access covers,
not their values); times are slots, orders and, where a component counts them, cycles;
logging, statistics and configuration are left out.

## 3. Runs

| Run | Instance | Shows |
|---|---|---|
| `bus` | 3 agents, buffers of 1, TDM, 2 messages | one order for all agents (`SameOrder`), all-or-nothing broadcast (`AtomicBroadcast`), no loss or repetition, every request observed by every agent |
| `unified` | 3 agents, TDM, 3 messages, receivers with room for all | program order per sender, every request broadcast |
| `snoop_two_cores` | MSI and MESI, 2 cores with 2 operations, one eviction per L1 and one at the LLC, an L1 whose MSHRs fill once | no fault, coherence in bus order, one answer per request, agreement at rest (`Settled`), and rest is reached |
| `l1` | 2 lines, 1 way, queue of 2, 1 MSHR, the three data arrays with a latency of 2, 4 demands, 1 snoop | sound rescan skip, conservation of demands, no orphaned eviction, order per line, every demand answered |
| `memory_path` | 3 lines in 1 way, 2 MSHRs, queue of 1, round robin, the three memories, any initial slot state | no overflow, a read on the way exactly while its line is waited for, no read before an older write-back of its line, every miss filled |
| `directory` | MSI, MESI and MOESI over the bus and MSI over the mesh; two busy cores with evictions, three racing cores, the home recalling the line of a single core | no fault, exact acknowledgement counts, an exact directory at rest, implementation of `CoherentLine`, and all settles |
| `dram` | the twenty memory systems of `src/MCsim/system` with DDR4 and two with DDR3, 2 requestors, 2 banks, 2 rows, 3 requests | no access lost or doubled, rows open, order per requestor and address, every request answered |
| `gem5_bridge` | one bridge, 2 ports, 3 credits, 4 packets that overlap in part | no callback panics, overlapping older writes first, credits bound all queues, every packet answered |
| `cores` | a trace, a task that overruns, a generator of half the clock rate, an idle core | the run stops only when drained, generators stop last, jobs are released in their periods, the run ends |
| `mesh` | two cores and a home behind a switch under FCFS, buffers of 3; two nodes under RR, buffers of 2; latencies 2 and 3, 3 messages | copies conserved, no overflow at the switch, implementation of `OrderedNetwork` (so order per pair and class), everything taken unless a controller's full buffer ends the program |

Two runs refute a statement of the repository, that a `Fault/` cell is unreachable
(docs/Architecture.md:235); each is a finding in `PROJECT.json`:

| Run | What the code does |
|---|---|
| `stale_putm` | 3 cores under snooping MSI: a core evicting its M copy loses it to another core's GetS, so the LLC gets the data too, evicts the line and refetches it for the third core; the PutM, still queued, meets the Fault cell of `NIorS_d` (third request a GetS) or `NM_d` (a GetM). A GetM that takes the line first is answered to the requester only and reaches no Fault within these bounds |
| `directory_recall` | the home evicts a line while its new owner collects acknowledgements; the Inv meets the Fault cell of `IM_a` |

**What the passing runs leave out because the code does not satisfy it.** Each is a
hazard, or the note of one, in `PROJECT.json`, with its line.

* A full LLC queue or full LLC MSHRs (`MaxRefusals`, `Full` at the LLC): a demand put
  back is passed by a younger one and two data messages reach one cache; data admitted
  past a full queue leaves the line in `IorS_a` for ever. An LLC eviction with three
  cores: `stale_putm`.
* MESI with three cores: the row `IES_dI` x `OwnData` of the MESI table settles in S,
  and a reader is left beside the writer.
* L1: a demand put back into a queue that forced or held messages have filled is
  dropped (BaseController.cpp:115-117 says a slot is guaranteed). `DemandConserved`
  and `EveryDemandAnswered` except exactly those, which `dropped` records. With
  `StoresCarryData = TRUE` `SameLineOrder` fails: such a store is not a demand and
  escapes the gate.
* Unified bus with a full receiver: the demand is lost (UnifiedBusController.cpp:56).
* Directory: recalls by the home while another core's request is under way, in MSI and
  more so in MESI and MOESI; MESI and MOESI over the mesh.
* DRAM: `LosesRow`, `Overtakes` and `Unserving` name the memory systems excepted from
  `RowOpen`, `OwnOrder` and `Answered`; the comments there give the reasons.
* Latency 1 of the point-to-point link, the mesh and the unified bus, which loses
  messages: excluded by `MemoryAssumption` and `MeshAssumption`, and by the constants
  of `unified`.

**Bounds.** `MaxMsgs`, `MaxOps`, `MaxDemands`, `MaxSnoops`, `MaxFetches`,
`MaxRequests`, `MaxPackets`, `L1Evicts`, `LLCEvicts`, `MaxRefusals`, `Full` and the
`ops` and `evicts` of a directory configuration bound how often the environment acts;
`MaxCycle` caps age stamps or cycles. They are chosen so that the interesting cases
occur: buffers, queues and registers of one or two entries fill; two requests and an
invalidation are enough to be taken in the wrong order; two operations per core reach
every pair of racing requests, with an upgrade after a loss; two lines in one way force
an eviction while another one is being written back; three lines at the LLC keep a
write-back, its rollback and a fetch on the link together; three DRAM requests over two
rows and two banks have a hit, a conflict and a bystander; four packets have an
overlapping write held back behind another. The faulty variants are all caught within
these bounds. Deadlock is checked except in `bus`, `directory`, `gem5_bridge`, `cores`
and `mesh`, where the environment may stop and the system then rests or ends.

**Fairness.** The clock never stops, so the step of a bus, a cycle of the mesh, a tick
of the bridge under way, and in models with a turn or a loop `Next` itself, are weakly
fair; a controller on a bus takes a message in each of its cycles. Strong fairness is
given to what the models allow to be put off without reason: memory answers a read after
finitely many cycles, a controller on the mesh, whose queue drains, takes in the end
what it finds again and again, the data array runs a parked hit, the bus delivers what
it owes a request, the LLC finishes an eviction, an L1 behind the bridge drains its
registers. No
fairness is given to cores, to gem5 or to evictions.

## 4. Proofs

Each theorem holds for every value of the constants that the named assumption of its
module allows; the assumptions are ranges only (positive counts and latencies, latencies
of 2 and more on the memory link and the mesh, one of the three arbiters) and, for the
mesh, the shape of the topologies; TLC evaluates them in the runs. A property of a run is seldom inductive; the modules prove a stronger
invariant, action by action, and derive the property from it.

**Buffers and arbiters** (`BufferLemmas`). `NOf(s, S)` counts the messages of a set in
a buffer; the lemmas say what an append, a tail, a concatenation or an erasure does to
the count (`CountAppend`, `CountTail`, `CountConcat`, `CountCut`), what they do to the
order of two kinds of messages (`Ahead...`), and that an arbiter, whichever it is,
grants at most one message, a queued one (`ElectOne`), with none of its owner in front
of it, and under FCFS none at all (`ElectFirst`).

**The bus** (`TripleBusProofs`, from `BusAssumption`).

* `BusTyped`: `TypeOK` is an invariant, inductive as it stands.
* `BusOrdered`: `SameOrder`. It says nothing of messages that wait, so the induction is
  over `OrderInv`: what an agent has seen is the beginning of the log; the log's
  delivery numbers increase and stay below `rxSeq`; and an agent's two RX buffers
  together hold exactly the rest of the log, each in increasing order. Then the entry
  `peekMessage` picks, the smaller of the two heads, is the next of the log.
* `BroadcastIsAtomic`: `AtomicBroadcast`. What an agent has taken and what waits for it
  add up to the length of the log, the same for all; a request is broadcast only when
  every receiver has room.
* `NothingLost`: `NoLossNoDuplicate`. Every message pushed is placed once: in a TX
  buffer, held in a slot, or delivered. Each operation moves what one spot holds to the
  next one, and the rest stays.

**The unified bus** (`UnifiedBusProofs`, from `UnifiedAssumption`). `RequestsInOrder`:
`RequestProgramOrder`. The induction is over `OrderInv`: the requests an agent has
waiting are in order of issue and later than its requests on the bus or broadcast.
Arbiters elect an agent's oldest, and between the election and the broadcast of a
message the slot counter lets no other election happen.

**The memory path** (`MemoryPathProofs`, from `MemoryAssumption`).

* `FetchIsConserved`: `FetchConserved`, from `MemoryInv`. For each line the reads and
  fills of it are counted in twelve places, LLC interface, link, memory's queue, DRAM
  and back; their sum is one while the line is being fetched and zero otherwise. The
  theorem covers every value the upper slot state may start with: a message is on the
  upper wire only after a slot 0, so an arbitrary counter delivers nothing.
* `WriteBacksGoFirst`: `WriteBackFirst`. Past the arbiter no write-back of a line is
  behind a read of it in any buffer, or in a later buffer than the read; before it, a
  write-back waits only while its line is absent, and a miss takes it back.

**The cache controller** (`L1ControllerProofs`, from `L1Assumption`).

* `CleanQueueIdle`: a queue marked clean holds no ready message, so `getFirstReady` may
  return without looking, for every kind of data array. The invariant is inductive:
  readiness depends on the queue, the line states and the lines the interlock holds;
  whatever changes these marks the queue dirty, and the mark is cleared only by a scan
  that found nothing.
* `EvictionsDrain`: `NoOrphanEviction`, with `L1Typed`, the types of all variables,
  which rests on the tables: each row's next state and actions are looked up once.
* `SameLineInOrder`: `SameLineOrder`, from `LineInv`: the demands of a line are in order
  in the queue and among the deferred accesses, the queued ones are later than the
  deferred, and those later than what has been served, except for demands that were put
  back. Its hypothesis is `~StoresCarryData`: a store that brings its bytes is not a
  demand request for the queue (`Message::isDemandRequest`), escapes the per-line gate
  and may be passed. The stores of the simulator's own cores bring none; those of the
  run neither.
* `DemandsAreConserved`: `DemandConserved`. `Tally` counts each demand in the queue,
  among the deferred, in each line's pending list and among the answered; it is one in
  one place, or the demand is in `dropped`, and a demand not yet issued is nowhere.

**Cores and clock** (`CoresProofs`, from `CoresAssumption` and `ExpansionAssumption`:
a workload has the types that the loader gives it, a task has a positive period, a trace
at least one access, and the expansion of a row is a list of gaps).

* `StopIsDrained`, `GeneratorsOutlive`, `JobsReleasedInPeriod`: `StopsDrained`,
  `GeneratorsStopLast` and `ReleasedInPeriod`, from `CoresInv`: a core's accesses sent
  are those in flight or answered, a core that is done has nothing left, the trigger set
  holds the cores not done, and `finiteRunning` counts the finite cores not done. For
  the periods, the release of the job under way lies in its own period, which the
  skipping after an overrun re-establishes.

**The gem5 bridge** (`Gem5BridgeProofs`, from `BridgeAssumption`).

* `CallbacksInTurn`, `WritesKeepTheirPlace`, `CreditsSuffice`: `NoPanic`,
  `OlderWritesFirst` and `CreditsBoundLink`, from `BridgeInv`. Each request of the
  table that the L1 has not committed is once on the way down (queue, link, L1), each
  committed one that is not completed is once on the way back, and nothing else is on
  either way; so a commit or a completion finds its request, at the right stage. The
  messages are as many as the requests not completed, so at most the credits. And no
  access performed overlaps an older write that is pending or performed later.

**The mesh** (`MeshProofs`, from `MeshAssumption`: links run both ways, a buffer has
more entries than its interface has neighbours, which `pushMessage` demands before it
sends anything, latencies of 2 and more, and between two ends one route, by way of at
most one switch, as in NoC.csv). `MeshInvariant`: `MeshInv` is inductive. Its parts:

* `Shape`, the types of all variables.
* `Placed`: each queue (transmit buffer, link, receive buffer, what was taken) is a
  *spot*, and a copy is only where its route may have brought it. The spot gives the
  copy's *level*, how far it has come; the copies of one flow at one level are at one
  spot.
* `Ordered`: of two copies of a flow, the one at a higher level, or in front at the
  same spot, was sent before. A step that moves a copy moves it up one level, from a
  spot where it is the first of its flow (the arbiters elect the oldest one,
  `ElectFirst`) to the end of another, which is all the induction needs: `StepMoves`.
* `Covered`: every copy sent is at some spot.
* `Room`: a receive buffer of a switch is empty when the cycle begins and holds at most
  one message for each of its links stepped since; so `Exits` never meets a switch.
  Of the buffers of controllers nothing of the kind is true, and nothing is claimed.

From it follow `NothingLost` (`CopiesConserved`, where the copies in flight are counted
by a bijection with those owed), `OrderKept` (`PairOrder`, which no run lists because
`Implements` covers it) and `MeshImplements` (`Implements`): what is taken is the oldest
of its flow that is outstanding, a send is a `Post`, and every other step a stutter.

**The abstract specifications** (`MeshProofs` too). `NetworkInOrder`: a behaviour of
OrderedNetwork takes nothing twice, and nothing of a flow out of order; with
`MeshImplements` it is what the directory protocol relies on. `AbsSpecSingleWriter`:
single writer or many readers, for any set of cores: a permission is given only when it
is `Allowed` beside the others'. Together with `Implements` of Directory, which TLC
checks, it is the coherence of the directory protocols.

**Only model-checked**, and why:

* all liveness (`EveryRequestObserved`, `ComesToRest`, ...): fairness and ENABLED are outside
  what the provers handle. Starvation by an unbounded stream of demands is not covered
  by TLC either: the environment is bounded in every liveness run.
* `NoFault`, `Coherent`, `OneAnswer` and `Settled` of Snooping, and `NoFault`,
  `AckConservation`, `DirectoryExact` and the refinement `Implements` of Directory. Their
  inductive invariants relate every row of the tables to what may be in every queue of
  every cache, for each protocol apart; and several are true only within the
  configurations of the runs (section 3), so no theorem over all constants exists.
* `NoFault` of MemoryPath: reads are bounded by the MSHRs, but the room for write-backs
  depends on how fast the arbiter drains them, which is a statement about rates. It is
  false without a relation between `TxMax`, `Mshr` and the latencies that the code does
  not check.
* the properties of DramController: its schedulers pass over their queues with folds
  (`HitPass`, `BatchReads`, `DrainWrites`, ...), and what a fold does to the number of
  accesses takes an induction over data, which the provers cannot do; and `RowOpen`,
  `OwnOrder` and `Answered` except some of the memory systems.

## 5. Not modelled

* The bytes of a line; so neither the order of supply and modification
  (`MSIProtocol.cpp`), nor a store's bytes lost to a busy occupancy array
  (`CacheDataHandler.cpp`), nor partial writes.
* The snooping MOESI protocol, the predictable protocols (PMSI, PMESI, the asterisk
  variants, Pendulum) and the exclusive tables (`*_split.csv`).
* MCsim's refresh (`RefreshMachine`, `PUSH`, DSARP), several ranks and channels, the
  device's four-activation window, requestors without real-time needs. The
  five-argument `MemoryController::addRequest` is not called by Octopus.
* gem5's functional and atomic accesses, the invalidating snoops to a core and the
  logging window.
* The addresses of LINEAR and RANDOM task rows; the parsing of traces and tasks.
* A mesh whose links are arbitrated by TDM (`NoCController.cpp:30-33` accepts it): Topology
  has FCFS and RR.
* The lifetime of the `Request` a pending access points to (`MemoryController.cpp:494`):
  an access is in one place, its storage is not followed.
* LRU's bookkeeping: the victim is any resident line.
* Configuration, command line, XML, logging and debugging, which have no part in the
  machine's state.

## 6. Plan

Done: the bus and its arbiters; snooping MSI and MESI around one line; one controller
around all lines with its data arrays; the unified bus; the memory path; the directory
protocols and their abstract specification; MCsim's controllers; the gem5 bridge; cores
and clock; the mesh. Next, in this order:

1. **Proofs**: a bound of the write-back buffer from the arbiters' fairness, for `NoFault` of
   MemoryPath; then the agreement of tables and queues in Snooping (`OneAnswer` first)
   and the steps of Directory under `PermOf`.
2. **Data values**: the version of the line in each place of Snooping, a read returning
   the last write in bus order, the order of supply and modification.
3. **Snooping refinement**: `CoherentLine` weakened to bus order, and Snooping shown to
   implement it.
4. **MOESI snooping and the predictable protocols** under the same controllers.
5. **Refresh** in DramController, with several ranks.
