# A verification project for m2s-cgm

m2s-cgm is a cycle-level simulator of a CPU+GPU system-on-chip, derived from
Multi2Sim: x86 cores and Southern Islands compute units execute programs on
functional emulators, feed out-of-order and SIMD timing models, and send every
fetch, load and store through a detailed memory system of caches, a directory
coherence protocol, ring switches, a system agent and a memory controller
(`src/src/cgm`).  The modules of this directory model the program's own core
logic; they are written from the source, and PROJECT.json names for every
definition the lines it stands for.

## 1. Inventory

| component | sources | state | operations | interacts by |
|---|---|---|---|---|
| tasking kernel | cgm/tasking.c, wakeupcall.c, contexts.c | event counts, time list, scan hint, alarm list | await, advance, epause, future_advance, task return | every other component is a task of it |
| CPU coherence protocol | cgm/cpu_mesi_protocol.c, protocol.c | block states, pending and transient bits, directory entries, sharers, per-cache MSHRs | load, store, get, getx, upgrade, get_fwd, getx_fwd, upgrade_inval, inval, nack, put, flush handlers of L1I, L1D, L2, L3 | packets on switch queues, direct queue insertion between L1 and L2 |
| cache controllers | cgm/cache.c, mshr.c | Rx/Tx queues, retry queue, pending-request buffer, write-back buffer, outstanding request table (ORT), coalescer | message selection, io tasks, coalesced retry, write-back insertion | shared lists, bus lock, advance of the neighbour's event count |
| switches | cgm/switch.c | per-port and per-lane queues in and out, crossbar, port and lane it begins with | routing, arbitration, io tasks of the ports | packets, advance of the next switch's and the caches' event counts |
| system agent | cgm/sys-agent.c | Rx/Tx queues, next-queue cursor | route, io up, io down | packets; memory controller queue |
| memory controller and DRAM | cgm/mem-ctrl.c, dram.c | Rx, pending and Tx queues | accept, complete a read, complete a write, reply | packets; DRAMSim callbacks |
| hub and IOMMU | cgm/hub-iommu.c | Rx/Tx queues, translations | route GPU traffic, translate | packets |
| GPU coherence protocol | cgm/gpu_mesi_protocol.c | vector/scalar L1, L2 block states | load, store, get, put, flush handlers | packets |
| interrupts and flushes | cgm/interrupt.c, cgm.c | interrupt queue, flush counters | service, block flush | packets to the cache hierarchy |
| simulation driver | cgm/cgm.c, m2s.c, configure.c | queues of the cores, counters | fetch/issue access, tick, watchdog | called by the pipelines |
| x86 timing | arch/x86/timing | fetch queue, uop queue, ROB, IQ, LSQ, event queue, register rename tables | fetch, decode, dispatch, issue, writeback, commit, recover | fetch/issue access, advance of the L1 event counts |
| x86 emulator | arch/x86/emu | contexts, file tables, signals, processes | context scheduling, syscalls | memory image |
| GPU timing and emulator | arch/si | wavefront pools, compute unit stages, work-groups | stage advance, barriers | memory system |
| memory image | mem-image | pages, MMU tables, TLB, page-table walker | access, translate, evict | pipelines |
| event library | lib/esim | event heap, lists | schedule, process | MMU, GPU |
| containers | lib/util, lib/mhandle | circular list, linked list, heap, hash table, bit map | usual | everybody |
| prefetcher, DRAM driver, OpenCL driver, scripts, configuration | prefetch, driver, scripts, config | - | - | - |

### What is hard in this code

* **Cooperative interleavings.** A task runs until it calls `await`; a pause in
  the middle of a handler (`P_PAUSE`) lets every other task run, so queues and
  block states read before the pause may be stale after it.
* **Counted wake-ups.** A controller's event count must be advanced once for
  every message it will process; messages that are set aside (retry, pending,
  write-back) change the balance.
* **Coherence races.** Forwarded requests cross write-backs, upgrades cross
  invalidations, replies overtake each other on the bidirectional ring; the
  protocol answers with nacks and with pending and transient bits.
* **Limits.** Every queue, the ORT, the coalescer, the write-back buffer and the
  pending buffer have a size, checked by whoever inserts - before a pause or
  after it.

## 2. Plan

Done:

1. `Tasking`, `EventCounts`: the kernel all components run on; its safety
   invariants and the refinement of the interface proved.
2. `L1DCache`, `L1DSystem`: the L1 data cache with its core above and the L2 below;
   the accounting of its accesses, requests and blocks and who pulls those set aside proved.
3. `MemoryPath`: system agent, memory controller and DRAM; its safety and ordering
   properties proved.
4. `Mesi`, `MesiL1`, `MesiL2`, `MesiL3`, `CpuMesi`: one block in several cores - L1,
   L2, L3 and the directory.
5. `RegFile`, `Pipeline`, `InOrder`: the out-of-order core that issues the accesses,
   as a refinement of a core that runs the program in order; the refinement, the
   renaming, the accounting of the registers and the assertions proved.
6. `Interconnect`, `Switches`: the ring of switches as a refinement of one channel
   for each flow of packets; its queue bounds, event counts, routes and the
   refinement proved.

To do, in this order:

7. `HubIommu`, and the GPU side of the protocol for one block.
8. Several threads on a core, fences and flushes, in `Pipeline`.
9. Containers: the circular list of `lib/util/list.c` against a sequence, the
   event heap against a priority queue, the MSHR table.

Theorems still worth proving: that the circular list implements a sequence; the
coherence of `CpuMesi` for the races in which it holds, which first needs a statement
of which those are.

## 3. The tasking kernel: `Tasking`, `EventCounts`

`Tasking` translates `cgm/tasking.c` and `cgm/wakeupcall.c`.

| variable | code |
|---|---|
| `count[c]`, `tasklist[c]` | `eventcount.count`, `eventcount.tasklist` of event count `c`; the linked list is a sequence |
| `tcount[t]` | `task.count` |
| `curtask`, `hint` | `curtask`, the static `hint` of `find_next_task()` |
| `alarms`, `wakepc` | the list of `wakeupcall.c` and the place inside the alarm task's loop |
| `want[t]` | the arguments of `t`'s last `await()`, which the code keeps on `t`'s stack |
| `live`, `sim` | tasks whose function has not returned; how the process ended |

A task runs until it calls `await()`, so an action is everything the running task
does in one call into the kernel: `Await`, `Epause`, `Advance`, `FutureAdvance`,
`FinishTask`, and the steps of the alarm task's loop.  The insertion scan of
`find_next_task()` is the relation `QueuedBehind`, its start at the hint
included.  `EventCounts` is what the rest of the simulator relies on: event counts
and tasks that wait for a value; no lists, no order, no hint.  `Tasking` is shown
to implement it by `ImplementsInterface`.

Run **tasking** (three clients, one event count and the one the simulation ends
with, times up to 2, counts up to 1, two alarms; 645 636 states).  Three clients
are the fewest for which two tasks queue behind each other, a third is released
or left, and the hint points into the middle of the time list.  `TimeBound`,
`CountBound` and `AlarmBound` only stop the clients from asking for later times,
advancing further and setting more alarms; `MaxTime` stands for
`0x7FFFFFFFFFFFFFFF`.

* `ListsSorted`: the list surgery keeps every list ordered, and the hint, which
  the code follows without a test, on the time list.
* `NoMissedWakeup`, `NoLostTask`: a task is in exactly one place and is released when
  its value is reached, and time never runs backwards.  That it is not released
  before is `ImplementsInterface`.
* `AlarmArmed`, `AlarmFires`, `DeadlockIsReal`: moving the sleeping alarm task
  never loses an alarm, and the deadlock message is printed only when every
  client really waits for something nobody will advance.

Fairness: weak fairness of the running task's next call, that is, a task of the
simulator does not compute for ever between two calls into the kernel; every
task function of `cgm` is a loop around `await()`.

## 4. The L1 data cache: `L1DCache`, `L1DSystem`

`L1DCache` is one set of the L1 data cache with its controller
(`l1_d_cache_ctrl()`, `cache_get_message()`), ORT, coalescer, write-back buffer and
the L1D handlers of `cpu_mesi_protocol.c`; `L1DSystem` adds the core's issue of
accesses above and the L2 below.

| variable | code |
|---|---|
| `blk[w]` | tag, state and transient tag of way `w` |
| `lru` | the way list, head first |
| `ort[t]` | the row of block `t` in the ORT and its pending-join bit |
| `coal` | `ort_list` |
| `inq[q]` | `Rx_queue_top`, `Rx_queue_bottom`, `Coherance_Rx_queue`, `retry_queue` |
| `wb`, `tx` | `write_back_buffer`, `Tx_queue_bottom` |
| `credit` | advances of the controller's event count not yet consumed |
| `flight`, `unsaved` | history: accesses not yet returned; blocks stored to and not yet received by the L2 |
| `up`, `l2`, `l2wb`, `l2fwd`, `l2miss` | the L2's queue to the L1, block state, write-back buffer, waiting demand of another core, request at the L3 |

A handler's pauses come before it looks at the cache or after its last change of
it, so a handler is one action: `Load`, `Store`, `Fill`, `Nack`, `UpgradeAck`,
`UpgradeInval`, `Downgrade`, `GetxFwdInval`, `FlushBlock`, `WriteBack`.  Every
`assert` and `fatal()` of a handler is a conjunct of `May` (`L2May` below): the action
is disabled where the process would end, and `HandlersDoNotAbort` says that it
never comes to that.  What the L2 itself asserts, and that it holds what the L1
holds, is checked with the whole L2 in section 6.  The L2 is not modelled by its own
ORT and pending buffer but by all it can do to one L1: it answers from its
state, asks the L3, evicts, and hands on what other cores demand.  The constant
`Demands` names what it does of its own accord:

| demand | what happens in the code |
|---|---|
| `flush_block` | `cgm_L2_cache_evict_block()` for a victim or on behalf of the L3 |
| `upgrade_inval` | another core upgrades a block shared here |
| `downgrade` | another core loads a block owned here |
| `getx_fwd_inval` | another core stores to a block owned here |

| run | instance | shows |
|---|---|---|
| l1d_capacity | 3 accesses, 3 blocks, 2 ways, no demands | no handler aborts, no store is lost, no block is twice in the cache; `SomebodyPulls`, see below |
| l1d_demands | 2 accesses, 2 blocks, 1 way, queues of 1, blocks granted shared, all four demands | `MessagesAccounted`: the event count matches the queues and an access is in one place; `RequestsAccounted`: ORT rows and waiting ways match requests, and a retried conflict finds its row free |
| l1d_forward, l1d_stuck | | see Findings |

Bounds.  Only blocks of one set interact through ways and the LRU list, so one set
is modelled.  Three blocks in two ways (or two in one) make every access able to
evict another's block, conflict in the ORT and meet its own block in the
write-back buffer; three accesses are needed for a merge and a conflict at the
same time.  Accesses are reused after they return, so behaviours are unbounded.
Tags and accesses are symmetric; ways are not.

`SomebodyPulls`: while accesses are set aside, a request is under way or an access
is being retried, unless more accesses wait for a way than the set has ways.  The
exception is what the code does: each access that waits for a way keeps a row of the
ORT, and with all rows such, nothing returns and pulls.  Three accesses are too few
to reach it in two ways.  In one way, l1d_capacity with `Assoc = 1` and without the
deadlock check, two accesses can wait for the only way: TLC finds the property kept
in 149 185 states, the excluded states among them.  That it holds for every number of
ways, blocks and accesses is the theorem `SomebodyIsLeftToPull`; what happens in the
excluded states is finding l1d_stuck.

Fairness (`FairSpec`): weak fairness of the controller, of the io task that moves the
L2's messages up, of the L2, and of each answer of the L3.  Each is a task of the
kernel that runs again in the next cycle while it has a message.  Nothing is
assumed of the core or of demands.

Deadlock is not checked in l1d_demands: with queues of one
packet the L1 stops because its queue to the L2 is full, and the L2 because its
queue to the L1 is full.  Both wait for the other's queue (`cache.c:3357` and
`cache.c:3513`).  The model of the L2 evicts more eagerly than the code, in which
an eviction needs a fill, so this is listed as a hazard and not as a finding.

### Findings

* **l1d_forward** - `cpu_mesi_protocol.c:1217`: a `getx_fwd_inval` that finds the
  modified block in the write-back buffer builds the dirty answer and then
  overwrites it with a clean one; the modification is dropped.
* **l1d_stuck** - `cache.c:5827`: a store pulled from the coalescer that finds no
  way becomes a second conflict; both are set aside and no request is left that
  would pull one of them.  Found in a set of one way with three accesses.

Seen while modelling: at `cpu_mesi_protocol.c:518` a comment says "make this block the
MRU", but the call moves the tail of the way list to its head, whichever way was
hit, and so does the model; replacement is a rotation, not LRU.  With two accesses
and one way every access returns under `FairSpec` (`AccessesReturn` with
`MaxCoal = 3`, `QueueSize = 3` and no demands); section 6 checks it for the whole
protocol.

Reproducible by changing `Demands` and the invariants of a
cfg: `HandlersDoNotAbort` fails under `Demands = {"upgrade_inval"}` (the `fatal()` of
line 8792 for a block already granted again), under `{"downgrade"}` (line 1054) and for a
row hit on a modified block (lines 653 and 657); an L2 eviction whose
`flush_block` is overtaken by a refill loses the dirty answer (lines 1452 and
3965).  These interleavings depend on what the L2's own tables let it do;
section 6 says which of them remain with the whole L2.

## 5. System agent, memory controller, DRAM: `MemoryPath`

Requests come from the ring into the system agent, go down to the memory
controller and the DRAM; replies of loads go the other way through the same
system agent.  Five tasks share the queues: `sys_agent_ctrl()` (`SelectMessage`,
`Route`), its two io tasks (`StartUp`/`FinishUp`, `StartDown`/`FinishDown`),
`memctrl_ctrl()` (`StartAccess`, then `EndCleanFlush`, `AddTransaction`,
`RefuseTransaction` or `AccessDirectly`) and `memctrl_ctrl_io()`
(`StartReply`/`FinishReply`).  Each of them looks at the queue it will fill, pauses
for a latency and then moves the packet, so every task is two actions and all
others may run in between.  The DRAMSim callbacks are `ReadComplete` and
`WriteComplete`; accesses to different blocks complete in any order.  Whether
DRAMSim is linked in is chosen in `Init`, so one run covers both builds.

| variable | code |
|---|---|
| `saRx`, `saTx`, `nextQueue` | queues and `next_queue` of the system agent |
| `routing`, `upBusy`, `down`, `mcBusy`, `mcUp` | the local variables of a task during its pause |
| `mcRx`, `pending`, `mcTx` | `Rx_queue_top`, `pending_accesses`, `Tx_queue_top` of the memory controller |
| `credit[t]` | the difference between the count and the step of task `t`'s event count |
| `swRx`, `flush` | `south_rx_reply_queue` of the switch; `flush_tx_counter` of each core |
| `flushing`, `loads` | history: flushes still in the caches; loads under way |

The caches and the switch are the environment: they send loads, stores and flush
answers and take replies.  `FewLoads` says that the L3 caches together have fewer
loads under way than the memory controller may hold and the queue above it
takes; they are limited by the rows of the L3's ORT.  The bound is tight: with one load more
TLC finds a deadlock in which the full south queue of the system agent keeps it
from taking a reply north (`sys-agent.c:451` checks both queues for every packet).

Run **memory_path** (two loads, one core, two blocks, queues of one packet, two
accesses in the memory controller, one flush; 91 598 states).  Queues of one packet
make every check before a pause matter; two blocks are enough for the DRAM to
reorder.  Stores and flushes go to one of the blocks.

* `Credits`: a task's event count has one advance per packet it must move.
* `PausesAreSafe`, `QueueBounds` (a part of `TypeOK`): what was checked before the
  pause still holds after it.
* `LoadsAccounted`, `FlushesCounted`: no load is lost or answered twice, and a
  fence that waits for the flush counter finds the core's blocks written.
* `SouthboundInOrder`: a load never overtakes an earlier write-back of its block
  on the way to the memory controller.
* `LoadsReturn`: every load is answered.

Fairness: weak fairness of each task's step (it is run again after its pause), of the
switch's taking of replies, of each load's and some write's completion by
DRAMSim; strong fairness of `Served`, since DRAMSim may refuse an access but, as its
queues drain, not for ever.

## 6. One block in all caches: `Mesi`, `MesiL1`, `MesiL2`, `MesiL3`, `CpuMesi`

`Mesi` holds the state and the packets, `MesiL1`, `MesiL2` and `MesiL3` one action per
handler of `cpu_mesi_protocol.c` (named after it: `L2GetFwd` is `cgm_mesi_l2_get_fwd()`),
and `CpuMesi` composes them and states what makes them coherent.

| variable | code |
|---|---|
| `l1[c]` | state of the block in the L1 of core `c`, `fill`: its way waits, `row`: ORT row and pending-join bit, `wb`: in the write-back buffer, `op`: the access that is not finished |
| `l2[c]` | state, `tran`: transient way, `upg`: upgrade-pending bit, `row`, `wb` with `flush_pending` and `L3_flush_join`, `pend`: `pending_request_buffer`, `retry`: `retry_queue` |
| `l3` | state, `tran`, `dir` and `pb`: sharers and pending bit of the directory entry, `wb`, `row`, `coal`: coalesced requests, `mem`: what memory works on |
| `chan` | packets between an L1 and its L2 ("up", "down") and on the ring, by source, destination and lane (`Tx_queue` and switch queue together) |
| `unsaved` | history: stored to since memory last received the block |
| `late` | history: a packet was late in one of the ways listed below |
| `left` | what is left of the bounds |

A handler takes a packet at the end of its latency and runs to its end without a
pause, so it is one action: which state it finds, what it asserts, what it sends
and what it puts aside.  Where it asserts or calls `fatal()` (`L1May`, `L2May`, `L3May`)
the action is disabled, because the process ends there.  Other blocks appear only
as the reason of an eviction.  A packet put back in front of its queue with
another type (a getx that finds the block shared becomes an upgrade) stays first
in its channel.

The order of packets is what the protocol depends on, so it is a constant.
`Overtakes` names where a packet may pass another one:

| member | what it stands for |
|---|---|
| "L1" | `l2_cache_up_io_ctrl()` sorts the L2's messages for the L1 into two queues, and the L1 serves the replies first |
| "ring" | the io tasks use three lanes (requests, replies, coherence); between two stops each keeps its own order.  Without it one lane carries all and keeps their order |
| "memory" | the L3 gets a block from memory before the flushes it sent to sharers have arrived |
| "eviction" | the L3 evicts a block whose copy is still on its way to the core it was granted to |

| run | instance | shows |
|---|---|---|
| mesi_coherence | 3 cores, 4 accesses, one L2 and one L3 eviction, all four; 385 932 states | `Coherent`, `NoLostStore`, `AnswersAccounted`, `QuietIsClean`, `HandlersDoNotAbort` |
| mesi_progress | 2 cores, 4 accesses, one L1 eviction, "ring"; 7 204 states | `AccessesReturn` |
| mesi_stuck | 3 cores, 3 accesses, "ring" | see Findings |

The protocol is not correct under all of these orders: the packets name the block,
not the copy or the flush they are about, and a late one is taken for another.
`late` becomes TRUE where that happens, and the properties say what holds until then.

| late | what happens | code |
|---|---|---|
| `PassesFlush` | in an L1, the block passes the flush of the copy before it | `cache.c:571`, `cpu_mesi_protocol.c:1330` |
| `Outrun` | in an L2, the L3's flush of a shared copy meets one it owns by now, or arrives before the copy it was sent for | `cpu_mesi_protocol.c:3121`, `cache.c:2030` |
| `L2Mistakes` | an L2 takes an answer of its L1 for that to a flush or forward the L1 has not seen yet | `cpu_mesi_protocol.c:2498`, `:2824`, `:3686` |
| `L3Mistakes` | the L3 takes an answer to an earlier flush for that to the one it waits for | `cpu_mesi_protocol.c:8370` |
| `Overtaken` | a write_back reaches the L3 when the block has been granted to another core, and clears the directory entry of the new owner | `cpu_mesi_protocol.c:8674` |

None of the five can be dropped: without `PassesFlush`, `Outrun`, `Overtaken` or the
first part of `L2Mistakes` TLC violates a property in the bounds of mesi_coherence,
without `L3Mistakes` or the second part with two evictions.  `NotLate`, the
CONSTRAINT of mesi_coherence, ends a behaviour at the late packet.

Until a packet is late:

* `Coherent`: one owner, but for shared copies whose invalidation is on its way,
  and what an L1 holds its L2 holds or has demanded back.
* `NoLostStore`: until memory has the stored value, a modified copy is in a cache or in
  a packet.
* `AnswersAccounted`: an upgrade's counter, the acknowledgements under way and the
  invalidations not answered add up, and the directory's pending bit is set exactly
  while one forward is under way, waits in an L2 or has been answered.
* `QuietIsClean`: when no packet is left, nobody waits, nothing stays in a pending
  buffer, and the directory knows every copy.
* `HandlersDoNotAbort`: no packet a controller may select fails an assertion, but for
  those of `FailsInL1`, `FailsInL2` and `FailsInL3`, which can fail without a late
  packet.  A behaviour ends there, as the program does.

| exception | line of `cpu_mesi_protocol.c` | an assertion or `fatal()` fails because |
|---|---|---|
| `FailsInL1` | 8792 | an upgrade_inval of the copy before finds the block granted again |
| `FailsInL2` | 9140 | the same in the L2 |
| | 2084, 2454 | a request that was refused is answered by a nack while a forward waits for it |
| | 4308 | a forward for a block given up finds the L1 with a copy |
| | 3681 | the answer to a flush finds the L1 with a copy again |
| | 5033 | an answer with `l3_pending` is stale and no forward has come yet |
| `FailsInL3` | 8419, 8656 | the core that answers a flush or writes back has the block again |
| | 8578, 8610 | a write_back finds the block shared, or evicted by the L3 |
| | 10296 | an upgrade finds a block that its owner wrote back |

Late packets or not, with the races of mesi_progress:

* `AccessesReturn`: each load and store returns, however often it is refused.

Bounds.  Three cores are the fewest with a requester, an owner that is asked by
the L3 and a third party whose request is refused, or with two acknowledgements
to count.  Four accesses let a core lose the block while it upgrades and take it
again.  One eviction of an L2 and one of the L3 are enough for each of the races above but
for those of one flush with another.  With more than one: two cores with all races
keep with two L2 and one L3 eviction, or one and two, `Coherent`, `NoLostStore`,
`AnswersAccounted` and `QuietIsClean` until a packet is late (with two of the L3
one more assertion fails, of an upgrade's answer sent as a getx); with two of both,
`Coherent` fails, for one more answer taken for another.  `L1Evictions` is 0 in
mesi_coherence because of finding l1d_forward: with one, TLC shows the loss of
that store here as well; with two cores the other properties hold.  Behaviours end when `left`
is used up, so deadlock is not checked; `QuietIsClean` is what a deadlock would
violate.  mesi_progress has two cores and no L2 or L3 eviction: its states must be
followed past every packet, late ones included, and with a third core finding
mesi_stuck shows that an access may not return.

Fairness (`FairSpec`): weak fairness of each L1, of each queue of an L2 and of the L3,
and of memory's answer.  A controller runs again while it has a packet, and its
queues are served in turn or by priority with finitely many packets ahead.
Nothing is assumed of the cores and of evictions.

### Findings

* **mesi_stuck** - `cpu_mesi_protocol.c:9857`: the comment at line 9739 says that the
  L3's reply and the acknowledgements may come in any order.  If an acknowledgement is
  first, line 9803 frees the packet that counted and line 9857 looks for the waiting
  forwards by comparing addresses with it.  What freed memory holds is undefined, so
  both outcomes are taken (`seen` in `L2UpgradePutxN`).  If the forward is missed, this
  L2 asks the L3 again, the L3 answers "pending" since its forward has not been
  answered, and requester and owner go on for ever.  With `seen` always TRUE every
  access returns.

### Seen while modelling

What follows the late packets and the exceptions above is reproducible: take the
disjunct out of `late'`, or the exception out of `HandlersDoNotAbort`, and TLC shows
the behaviour.  They need packet orders that the latencies of a configuration may
never produce, and no doc or comment of the repository says that they cannot
happen, so they are hazards and not findings.

* `Overtaken`: two owners, and the assertion `sharers == 1` at 7396.
* `Outrun`: the flush finds no copy yet and is answered, or the flush of a shared copy,
  which nobody acknowledges, meets the copy granted next; two owners either way.
* `L2Mistakes`: with two L2 evictions and three cores an answer delayed past a whole
  upgrade loses a store.

Left out: instruction fetches (`gets`), CPU and GPU flush instructions, the sharers
behind the hub, way numbers, full queues, `simple_mem`, the assertions on the L1 of
core 0 in `cgm_mesi_l3_downgrade_nack()` and in the L3's draining of its write-back
buffer, which are about a single core.

## 7. The out-of-order core: `RegFile`, `Pipeline`, `InOrder`

`Pipeline` is one hardware thread of `arch/x86/timing` with private structures, from
the fetch queue to retirement.  `RegFile` holds the operations of `reg-file.c` on a
record that is the physical register file; `InOrder` is what a core promises.

| variable | code |
|---|---|
| `uop` | the `struct x86_uop_t` that exist, by `id`: micro-instruction, `specmode`, `neip != pred_neip`, `in_event_queue`, `completed`, `syscall_ready`, and the physical registers it reads, writes and replaces |
| `fetch_queue`, `uop_queue`, `rob` | the lists of that name, oldest first |
| `iq`, `lq`, `sq` | uops waiting to issue |
| `memory` | accesses between `cgm_issue_lspq_access()` and the `linked_list_add()` of `cache_l1_d_return()` |
| `event_queue` | the list of that name |
| `regs` | `rat`, free stack, `busy`, `pending`, `top`; `ok` is FALSE after a failed assertion of `reg-file.c` |
| `wrong_path` | `fetch_neip` differs from the emulator's `eip` |

Each stage loops over its queue, a bounded number of entries per cycle.  An action
is one turn of such a loop, and the turns of all stages are interleaved in any
order: which of them are in one cycle depends on widths, latencies, functional
units, translations and on whether the cache accepts an access, none of which
the properties tell apart.  What is kept is the order inside the queues, and that
`X86CoreWriteback()` serves only the oldest uop of the event queue, which may be a
system call that waits for the head of the ROB.  The branch predictor is the
choice whether a branch is mispredicted; recovery at writeback and at commit are
chosen in `Init`, so one run covers both settings of `RecoverKind`.

The constants are assumed to be what the code and its configuration make them:
`NamesFit` (the registers the code numbers, the flags among the integer ones, an FP
stack inside the FP names), `FilesFit` (every register file has the smallest size
`X86ReadRegFileConfig()` allows, a register for every name and for the outputs of one
uop) and `PipelineConstants` (sizes of at least one; a branch is the last uop of its
instruction, and flags are renamed after its other outputs).

Run **pipeline** (up to four uops, a ROB of three, an instruction queue of two, one
load/store entry; 395 506 states).  The instructions are the shapes that differ for
the stages: with and without flags, flags only, load, branch, store and branch,
system call, an FP push and an FP pop.  The FP stack has two registers, with the
status word behind it: the code numbers `fpst`, `fpcw` and `fpaux` as FP registers and
takes their number, plus the top, modulo 8 as well, so they share names with the
stack.  The register files have the smallest size `X86ReadRegFileConfig()` allows, so
renaming stalls.  Four uops let a branch be followed by a wrong path, a recovery,
and uops that take the registers and queue entries of the squashed ones.

* `RegistersAccounted`: a physical register is free exactly when neither the map nor
  a uop in the ROB keeps it, and no pending bit stays set without a uop that will
  clear it.  Flags share the register of the uop's integer output, so registers
  are counted, not owned.
* `RenamingFollowsProgram`: over any mixture of commits and squashes and moves of
  the FP stack, the map names the youngest writer, every writer keeps its
  predecessor, and an input is the output of the youngest older writer.
* `HandlersDoNotAbort`: the assertions of the stages hold, a uop exists exactly while
  a queue or the memory system knows it, and the state keeps its types (`TypeOK`).
* `WrongPathIsBehindABranch`: wrong-path uops are exactly those behind the one branch
  that has not recovered yet; recovery squashes nothing else and leaves nothing.
* `RetiresInOrder`: `Pipeline` implements `InOrder` under the mapping `RightPath`, the
  ROB, uop queue and fetch queue put end to end without what is of the wrong path: a
  fetch appends to it, a commit takes its first member, and everything else - a
  recovery too, whatever it squashes - leaves it alone.
* `EveryoneRetires`: all of the program that was fetched retires.  No uop waits for a
  value that never comes, for the head of the ROB, or behind a system call that waits
  for it.

Fairness (`FairSpec`): weak fairness of `Advance`, the disjunction of all stages but
fetch.  `X86CpuRunStages()` runs every stage in every cycle, so the core does not stand
still while any of them can go on; that an access comes back is `AccessesReturn` of
section 6.  Nothing is assumed of fetch.  The run ends when `MaxUops` are fetched and
retired, so deadlock is not checked; `EveryoneRetires` is what a deadlock would
violate.

### Finding

* **pipeline_squash** - `writeback.c:277`: an access that was squashed while the memory
  system held it is written back when it returns.  `X86ThreadRecover()` has freed its
  physical register, and if another uop has taken it by then, that uop's pending
  bit is cleared before it has completed.  A uop that reads the register issues
  without its operand (`IssuesWithOperands`, "Return 1 if input dependencies are
  resolved", `reg-file.c:393`).  Only timing is wrong, since the emulator computes the
  values; TLC needs 19 states.

Seen while modelling: `X86ThreadInitRegFile()` says that all flags are mapped to the
first allocated register, and maps them to the last one allocated before them;
recovery at writeback stops at a `getchar()` (`writeback.c:264`); a full instruction
queue is a stall for `X86ThreadCanDispatch()` and the end of the simulation at
`dispatch.c:278`.

## 8. The ring of switches: `Interconnect`, `Switches`

Every L2, L3, the hub and the system agent put their packets into a switch and
take them out of queues a switch fills.  `Interconnect` is what they rely on: for each
flow - a source, a destination and a lane - a channel that loses, doubles and
reorders nothing.  Its state is the set of numbers under way, of which the least
arrives next.  `Switches` translates `cgm/switch.c`, with the nodes numbered as in
`node_strn_map_p4`, and is shown to implement it.

| variable | code |
|---|---|
| `rx[s][p][l]`, `tx[s][p][l]` | `north_rx_request_queue` ... `west_tx_coherence_queue` of switch `s`, by port and lane |
| `queue[s]`, `lane[s]` | `queue`, `next_crossbar_lane` |
| `ec[s]`, `step[s]` | `switches_ec[s]` and the `step` of `switch_ctrl()` |
| `ioEc`, `ioStep`, `ioLane`, `ioBusy` | the event count, `step` and `current_lane` of the io task of each port, and whether it is in `SYSTEM_PAUSE(transfer_time)` |
| `inbox[n][q]` | how many packets are in queue `q` of endpoint `n` |
| `sent`, `rcvd` | history: packets of each flow put into the first switch, and the last one that an io task put into a queue of its destination |

`switch_ctrl` is one turn of the controller after its pause: each port with a
packet on the current lane asks `switch_get_route` for a port out, `Links` keeps the
first to ask for each while there is room in its queue, all linked packets move,
the step grows by their number, and lane and first port go on.  An io task looks
at the queue it will fill (`LookIo`), pauses, and then moves the packet (`TransferIo`
into the next switch, `DeliverIo` into a cache, the hub or the system agent); all
others run in between.  `Send` and `Consume` are the endpoints.  An endpoint is the only
one to fill its queue of the switch, so that its look and its insertion can be
one action.  The queues the switches fill in the L2s and L3s have no other
writer without `simple_mem`: the branch of `l1_d_cache_down_io_ctrl()` that would put a packet into the L2's coherence queue
follows a `fatal()` (`cache.c:4577`).  `crossbar->current_port` is
left out: it sets the order in which the links of a turn are served, and they
concern different queues.

Run **switches** (four cores, five switches, queues of one packet; one load of the L3
of core 2, two of that of core 3, one reply to core 3; 96 047 states).  The loads
meet in switch 3 for the same port and lane, go on to the same queue of the system
agent, and the reply passes the other way; with queues of one packet every check
before a pause matters, and a flow needs two packets for one to overtake the other.

* `TypeOK`: among the types, that no queue grows past its size over the pauses.  The
  queue of the system agent may by one packet, because it compares with `>`
  (`sys-agent.c:316`).  A comment at `cache.c:4774` says of the L2's queue to the switch that it
  "sometimes [...] will be overrun by 1" and that comparing with `QueueSize - 1` fixes it;
  the code below it compares with `>= QueueSize`, and as `l2_cache_down_io_ctrl()` alone fills
  that queue it is not overrun.  `Send` compares as the code does.
* `Credits`: a task's unused advances are the packets it has to move, though a turn
  may link none or several and an io task may pass over a lane.
* `OnTheWay`: a packet is in a switch between the first and the last of its flow
  (`Hop(f, s) <= Hops(f)`), on its lane and at the ports of its flow there.  The way round
  is chosen in the first switch alone; no later one turns a packet back, sends it past
  its destination or delivers it on the wrong side.
* `ImplementsInterconnect`: `Switches` implements `Interconnect`, under the mapping of a
  flow's channel to the packets of it in any queue (`UnderWay`).
* `PacketsArrive`: every packet arrives.

Fairness (`FairSpec`): weak fairness of each controller and each io task - every pause
ends - and of the endpoints' taking of packets.  Nobody has to send.

With every queue of a direction and lane full of packets that go on, a ring
stops; it takes many more packets than this run has, and the request tables of
the caches bound them.  It is listed as a hazard.

Seen while modelling: `switch_get_route()` is to "go in the direction with the
shortest number of hops" (`switch.c:1291`), but `switch_get_distance()`, whose comment
says that its L2-to-L3 case "works for both ways" (`switch.c:1942`), counts a hop too
few from an L3 to an L2 further east.  With four cores a packet of the first L3 to
the L2 of core 3 goes three hops east and not two west.  It arrives all the same.

## 9. Proofs

TLAPS checks these for all values of the constants, under the assumptions named in
the modules (`TaskingAssumption`, `MemoryPathAssumption`, `L1DCacheAssumption`,
`L1DSystemAssumption`, `NoRequestAssumption`, of `Switches` `SizesAssumption`,
`FlowAssumption` and `PacketsAssumption`, and of the core `NamesFit`, `FilesFit` and
`PipelineConstants`; `FewLoads` is not used).  They bound sizes
from below and say that sets are finite; `NoRequestAssumption` says that the value
for "nothing outstanding" is no request; those of the core are explained in section 7.

`TaskingProofs`: `TypeCorrect`, `Spec => []TypeOK`.  Each operation is a lemma
about the lists it builds (`InsertAt`, `SubSeq`, `RemoveAt` on sequences of
tasks).  For the lists of the kernel the inductive invariant is

    IInv == TypeOK /\ Queued(tasklist, tcount, live \ {curtask}, count)
            /\ HintOn(tasklist, hint) /\ (sim = "running" => curtask \in live)

* `ListsStaySorted`: `Spec => []ListsSorted`.
* `NoWakeupMissed`: `Spec => []NoMissedWakeup`.
* `NoTaskIsLost`: `Spec => []NoLostTask`.

None of the three is inductive alone, they need each other.  The insertion scan finds
the right place only in a sorted list, and from the hint only if the hint is on the
time list.  `advance()` releases exactly the tasks that are due only because the list
is sorted and nobody on it waits for a value already reached: then the first task
released waits for the new count itself, and so do those released behind it.
Putting them at the front of the time list keeps it sorted only because
nobody on it waits for a time that has passed.  Changing a task's value leaves the
other lists sorted only because it is on none of them.  `Queued` states all of it about
arbitrary lists, so that `DispatchKeeps` can speak of the lists halfway through a
call.  Below the lemmas for the operations are the facts about ordered lists they
rest on: `InsertKeeps`, `RemoveKeeps`, `CutKeeps`, `JoinKeeps`, `TailKeeps`.

`TaskingInterfaceProofs`: the alarm task, and that the kernel does what
`cgm/tasking.h` promises.  For the alarm task, with

    DeadlockInv == AlarmInv /\ TimesInReach /\ WakeTimely /\ WantsKept /\ DeadlockIsReal
    AlarmInv    == IInv /\ WakeOnTime /\ AlarmArmed

* `AlarmStaysArmed`: `Spec => []AlarmArmed`.
* `DeadlockReportedIsReal`: `Spec => []DeadlockIsReal`.

`AlarmArmed` needs `WakeOnTime` - no event count has the alarm task on its list, or an
advance could change what it waits for.  That a deadlock is real follows when the
alarm task wakes with no alarm left: it wakes at its time (`WakeTimely`), which was
`MaxTime`; nobody waits for an earlier time (`IInv`) or sleeps until a later one
(`TimesInReach`), so all others are on the lists of event counts, for the values they
asked for (`WantsKept`), which have not been reached (`IInv`).

For the interface, with

    InterfaceInv == DeadlockInv /\ AlarmsInOrder /\ WakeIsPunctual
                    /\ ReleasedOrTimed /\ WakeAwaitsTime

* `KernelImplementsInterface`: `Spec => ImplementsInterface`.

Initial states map to initial states, and each operation of `Tasking` to an action of
`EventCounts` or a stutter.  The mapping drops the lists of tasks, the hint and
`tcount`, and keeps of the alarm list only the bag of its alarms, so that the move of the
alarm task and the insertion scan become stutters.  What is left to show is that a task
chosen to run is one that the interface calls ready: that is what `ListsSorted` and
`NoMissedWakeup` were proved for, with `ReleasedOrTimed` - a task on the time list
waits for the time it named, or was released by a count that reached its value and is
due now.  `AlarmsInOrder` is needed because the alarm that goes off is the first of the
list, and the interface promises the earliest; `WakeIsPunctual` because the alarm task
must wake exactly at it; `WakeAwaitsTime` because the alarm task is always
treated as one that waits for time only.

`SequenceCounts`: the lemmas on how often a sequence holds an element of a set (`In`),
and what appending, taking the first and removing from the middle do to the number.
The two components below rest on them.

`MemoryPathProofs`: with the inductive invariant

    IInv == Types /\ Counted /\ PausesAreSafe /\ Reserved

* `PathTypes`: `Spec => []TypeOK`, the types and the queue bounds.
* `EveryPacketIsAwaited`: `Spec => []Credits`.
* `PausesSafe`: `Spec => []PausesAreSafe`.
* `EveryFlushCounted`: `Spec => []FlushesCounted`.
* `EveryLoadAccounted`: `Spec => []LoadsAccounted`.
* `SouthboundKeepsOrder`: `Spec => SouthboundInOrder`.

`FlushSum` and `LoadSum` say the two accountings with `In`, which makes every step a
sum: what leaves one queue enters another.  For the order, the packets on
their way down are written as one sequence, the queues put end to end, and each
step is shown to append to it, to take its first packet, or to leave it alone.

None of `PausesAreSafe`, `Credits` and `QueueBounds` is inductive alone.  `PausesAreSafe` needs the event
counts: a task starts a pause because its await returned, and only `Credits` says
that there is a packet then.  `QueueBounds` needs `Reserved`, which counts the packet
carried during a pause together with the queue it is going to, and keeps a place
free in both Tx queues of the system agent while it routes, and in the memory
controller's table while it serves.  `Counted` is `Credits` without the conditional
sums, for the provers.  There is one lemma per action, and under it one step per
conjunct.

`SwitchesProofs`: for any number of cores, any traffic and any queue size, with

    SwitchInv == TypeOK /\ SentFirst /\ TransferStands /\ Credits

* `QueuesBounded`: `Spec => []TypeOK`, the queue bounds among the types.
* `CreditsMatch`: `Spec => []Credits`.

The bounds need `TransferStands`: during the pause of an io task its packet is still
there and its place in the next queue is still free, because every queue between
switches is filled by one io task only.  `Credits` needs that a turn of
`switch_ctrl()` moves every linked packet exactly once, though it links up to
as many packets as there are ports: a port in is linked to one port out and no
port out to two ports in.  `SentFirst` says that no queue holds a packet its flow has not sent yet, so
that no flow has received more than it sent.

For the routes and the order the invariant is, beside `SwitchInv`,

    WayInv == OnTheWay /\ QueuesInOrder /\ RowsInOrder

* `PacketsKeepTheirWay`: `Spec => []OnTheWay`.
* `SwitchesConnect`: `Spec => ImplementsInterconnect`.

By `OnTheWay` the packets of a flow are in one row of queues, in and out of each switch
on its way, and a hop leads to the next queue of the row.  `QueuesInOrder` says that each
queue holds the packets of a flow in the order of their numbers; `RowsInOrder` that
those further on have smaller numbers, and that the row holds exactly
`rcvd + 1 .. sent`.  A turn of the
crossbar, a transfer, a delivery and a send are each a packet that leaves the end of
one queue for the end of the next, so that the row stays in order (`CrossKeepsRow`,
`HopKeepsRow`, `LeaveKeepsRow`, `EnterKeepsRow`, lemmas about sets of numbers by switch
without queues).  From it the set under way is exactly `rcvd + 1 .. sent`
(`ChannelHoldsThem`): a delivery takes the least of it, a send adds the next, and
every other step leaves it alone.  The mapping is a set and not the concatenation
of the queues because how many queues there are depends on the flow, and a fact
about such a concatenation needs induction over it.  The two are the same here, as the
packets of a flow differ in their numbers and arrive in their order.

`L1DSystemProofs`: for any number of blocks, accesses, ways and ORT rows, any queue
sizes and whatever the L2 grants and demands, with

    L1DInv == Shapes /\ LruFull /\ Placed(blk, wb) /\ RowsMatch /\ WaysMatch
              /\ Accounted /\ RetryFree /\ CreditMatch

* `L1DTypes`: `Spec => []TypeOK`.
* `EveryMessageAccounted`: `Spec => []MessagesAccounted`.
* `EveryRequestAccounted`: `Spec => []RequestsAccounted`.
* `BlocksInOnePlace`: `Spec => []NoBlockTwice`.
* `SomebodyIsLeftToPull`: `Spec => []SomebodyPulls`.
* `AnswersAccepted`: `Spec => []AnswersPass`, the assertions of the fill, nack and
  write-back handlers.

`Total(P)` counts the messages of a set `P` in every queue, in the coalescer and at
the L3; it is used for the packets of an access (`Accounted`), the requests for a block
(`RowsMatch`) and those that reserve a way for it (`WaysMatch`).  A message changes its
type, its flags and its queue on the way, so the lemmas are about any set that none
of these changes enters or leaves (`Kind`).  The conjuncts need each other.  A fill
finds its way because its request was counted (`RowsMatch`) and reserved it
(`WaysMatch`).  A miss may take a row because the row is free: for an access of
the core that is what `cache_check_ORT()` tests, but a retried conflict skips the
test, and then only `RetryFree` says so - at most one access is retried at a time, and
its row was freed with it.  The block of a miss is nowhere else (`Placed`) because it was
looked for in the ways and in the write-back buffer, and because a way that waits for
a block is the only place the block can appear.  `LruFull`, that the way list
keeps every way, is needed for a victim to exist.  `Shapes` strengthens `TypeOK` by
what each queue can hold.

`SomebodyIsLeftToPull` rests on `PullInv == MergedHaveRow /\ StuckByConflicts` besides
`L1DInv`: an access merged with another finds its row taken or that access being
retried, and where all rows are those of accesses that wait for a way and nothing is
retried, these are more than the ways.  For an access only becomes a conflict when
the set has `Assoc` rows already, and brings a row of its own; if all of them belong to
accesses that wait, there are more than `Assoc` (`RowsOfConflicts`).  By `RowsMatch`, all rows
are such when no request is under way.

`RegFileProofs`: what the operations of `reg-file.c` do to a register file, for any
registers, flags, file sizes and FP stack.  A log of renamings is kept: one entry for
each output of a uop in the ROB, with the name it renamed, the register it took and the
one it replaced.  `Books` says that a file is what its log makes of it: a use count is
the number of names mapped to the register and of entries that replaced it
(`BusyCounted`), the free list has the unused registers, each once (`FreeUnused`), the
map names the last entry of a name and each entry replaced what the one before it took
(`Linked`), and every entry's register is its own but for flags, which share
(`OwnRegisters`).  `InitBooks` holds it at reset; `RenameUop` appends the entries of a
uop, `CommitUop` takes the oldest and `UndoUop` the youngest away.  The sharing makes it
hard: a use count is not 0 or 1, a commit drops a register that a flag may still be
mapped to, and the youngest must be undone exactly, last output first.  The operations
are folds over the outputs of a uop; what a fold computes is proved as a chain of values
from one output to the next (`BuiltUp`, `Chain`), by induction over the length written as
the absence of a least counterexample.

`PipelineProofs`: the core, for any program, any sizes and either stage of recovery, with

    CoreInv == UopsTyped /\ QueuesOrdered /\ Issuing /\ Flags /\ UopsAccounted /\ Speculation
    RegsInv == CoreInv /\ PhTyped /\ RegsKept

* `CoreAlways`: `Spec => []CoreInv`.
* `WrongPathAlways`: `Spec => []WrongPathIsBehindABranch`.
* `PipelineIsInOrder`: `Spec => RetiresInOrder`.
* `RegsAlways`: `Spec => []RegsInv`.
* `RegistersAlwaysAccounted`: `Spec => []RegistersAccounted`.
* `HandlersNeverAbort`: `Spec => []HandlersDoNotAbort`.
* `RenamingAlwaysFollows`: `Spec => []RenamingFollowsProgram`.

In `CoreInv`, `QueuesOrdered` (ids grow from the ROB to the end of the fetch queue) makes
"younger" mean "further back", so that the uops behind a branch are the end of every
queue; `Speculation` says that they are what `specmode` marks, so that trimming a queue
from its end takes them all and nothing else; `Issuing` and `Flags` say in which structures
a uop is and that its flags agree, so that `x86_uop_free_if_not_queued()` frees it with the
last of them (`UopsAccounted`).  One lemma, `CoreRecover`, is for both stages of
recovery: its premises are what writeback and commit have in common when they recover.

For the refinement the right path is shown to be the set of uops that exist and are not
of the wrong path, in order (`RightPathIs`); two sequences in order with the same members
are equal (`SortedSame`).  A step then need only be shown to leave that set alone, to take
the least of it or to add what is above it, and what the queues do to one another drops
out.  That only the wrong path is freed early, and the least is what commits, is `CoreInv`.

`RegsKept` says that there is a log, and a history of the top of the FP stack for the
uops in the ROB, with which `Kept` holds: the file is `Books` of the log, the log is that
of the ROB (`Entered`), the tops follow the moves of the stack (`Stacked`), a register is
pending while the uop that writes it has not completed (`Awaited`), and every operand
read is the last output before it (`Reads`).  They are under a quantifier since the code
keeps neither; `RegistersAccounted` and `RenamingFollowsProgram`, which count and look up
in the ROB, follow from them (`LogOfRob`, `TopAfterIs`, `MapNamesLast`).  A squashed load
that comes back writes a register that is no longer its own: this only clears a
pending bit, which `Awaited` allows, and is why it says "only while" and
`IssuesWithOperands` is no theorem (finding pipeline_squash).

Only model-checked:

* All liveness properties: `AlarmFires`, `LoadsReturn`, `AccessesReturn`, `PacketsArrive`,
  `EveryoneRetires` (TLAPS does not treat fairness here).
* `HandlersDoNotAbort` and `NoLostStore` of `L1DSystem`: they hold in the
  runs that check them and not for every value of the constants, as the finding
  l1d_forward and the demands of section 4 show.  `AnswersPass` is the part
  of the first that always holds.
* `CpuMesi`: its properties hold until a packet is late in the ways section 6 lists, with one
  eviction of an L2 and one of the L3; with more there are further ways, so they are no
  theorems about all values of its constants.

## 10. Not modelled

* Values: blocks carry no data; what matters is where the newest copy is
  (`unsaved`).  Statistics are left out: among them `dram.c:147`, which divides the
  average read latency by the number of writes.
* Latencies: a pause is a place where others may run, of any length.
* The context switch of `contexts.c` and everything below a task's call.
* CPU and GPU flush instructions and interrupts inside the L1; prefetching.
* In the core: fences and flushes, prefetches, the trace cache (`fetch.c:563` ends
  the simulation when it hits), functional units, several threads and shared
  structures, context scheduling and eviction, page faults.
* The components of the inventory that PROJECT.json lists as `not_modelled`, each
  with its reason; section 2 says which of them are next.
