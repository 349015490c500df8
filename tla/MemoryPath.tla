----------------------------- MODULE MemoryPath -----------------------------
(***************************************************************************)
(* The way from the ring to the DRAM and back (sys-agent.c, mem-ctrl.c,    *)
(* dram.c): the system agent routes packets south to the memory controller *)
(* and replies north to the switch.  Five tasks run in turns; each looks   *)
(* at the queue it will fill, pauses for a latency and then moves the      *)
(* packet, so that every other task may run in between.                    *)
(***************************************************************************)
EXTENDS Integers, Sequences, SequencesExt, FiniteSets

CONSTANTS
  Load,         \* the L3 caches' outstanding table rows: loads that may be under way
  Core,         \* cores that flush blocks
  Tag,          \* block addresses
  Written,      \* bound: the blocks that are written and flushed
  QueueSize,
  MaxInflight,  \* max_inflight of the memory controller
  FlushBound    \* bound: flushes of a core under way

ASSUME MemoryPathAssumption ==
  /\ QueueSize \in Nat \ {0} /\ MaxInflight \in Nat \ {0} /\ FlushBound \in Nat
  /\ Written \subseteq Tag

\* The L3 caches have fewer table rows than replies and queued replies fill.
ASSUME FewLoads == IsFiniteSet(Load) /\ Cardinality(Load) < MaxInflight + QueueSize

VARIABLES
  DRAMSim,      \* whether DRAMSim is linked in; fixed at start
  saRx,         \* Rx_queue_top and Rx_queue_bottom of the system agent
  nextQueue,    \* its next_queue
  routing,      \* last_queue while the system agent pauses, "none" otherwise
  saTx,         \* Tx_queue_top and Tx_queue_bottom of the system agent
  upBusy,       \* sys_agent_ctrl_io_up() pauses: the head of Tx_queue_top moves
  down,         \* the packet sys_agent_ctrl_io_down() carries, if any
  mcRx,         \* Rx_queue_top of the memory controller
  mcBusy,       \* memctrl_ctrl() pauses: the head of Rx_queue_top is served
  pending,      \* pending_accesses
  mcTx,         \* Tx_queue_top of the memory controller
  mcUp,         \* the packet memctrl_ctrl_io() carries, if any
  swRx,         \* south_rx_reply_queue of the system agent's switch
  credit,       \* for each task, the advances of its event count not yet awaited
  flush,        \* flush[c]: flush_tx_counter of core c
  flushing,     \* flushing[c]: flushes of core c in the cache hierarchy
  loads         \* loads under way

sysAgent == <<saRx, nextQueue, routing, saTx, upBusy, down>>
memCtrl == <<mcRx, mcBusy, pending, mcTx, mcUp>>
ring == <<swRx, flushing, loads>>
vars == <<DRAMSim, sysAgent, memCtrl, ring, credit, flush>>

LoadPacket == [type : {"mc_load"}, tag : Tag, id : Load]
WritePacket ==
  [type : {"mc_store"}, tag : Tag]
  \cup [type : {"flush_ack"}, tag : Tag, core : Core, dirty : {TRUE}]
South == LoadPacket \cup WritePacket
         \cup [type : {"flush_ack"}, tag : Tag, core : Core, dirty : {FALSE}]
North == [type : {"mc_put"}, tag : Tag, id : Load]

Side == {"top", "bottom"}
Task == {"ctrl", "io_up", "io_down", "mc", "mc_io"}

Init ==
  /\ DRAMSim \in BOOLEAN
  /\ saRx = [q \in Side |-> <<>>] /\ nextQueue = "top" /\ routing = "none"
  /\ saTx = [q \in Side |-> <<>>] /\ upBusy = FALSE /\ down = <<>>
  /\ mcRx = <<>> /\ mcBusy = FALSE /\ pending = <<>> /\ mcTx = <<>> /\ mcUp = <<>>
  /\ swRx = <<>> /\ flushing = [c \in Core |-> 0] /\ loads = {}
  /\ credit = [t \in Task |-> 0]
  /\ flush = [c \in Core |-> 0]

Advance(t) == credit' = [credit EXCEPT ![t] = @ + 1]
Await(t) == credit[t] > 0 /\ credit' = [credit EXCEPT ![t] = @ - 1]

-----------------------------------------------------------------------------
(* The switch and the caches, by what they send and take *)

\* switch_south_io_ctrl() of the system agent's switch.
Enter(p) ==
  /\ Len(saRx["top"]) < QueueSize
  /\ saRx' = [saRx EXCEPT !["top"] = Append(@, p)]
  /\ Advance("ctrl")
  /\ UNCHANGED <<DRAMSim, nextQueue, routing, saTx, upBusy, down, memCtrl, swRx, flush>>

SendLoad ==
  \E p \in LoadPacket :
    /\ p.id \notin loads
    /\ Enter(p)
    /\ loads' = loads \cup {p.id}
    /\ UNCHANGED flushing

SendStore ==
  \E t \in Written : Enter([type |-> "mc_store", tag |-> t]) /\ UNCHANGED <<flushing, loads>>

\* A core flushes a block: the L1 counts it.
Flush(c) ==
  /\ flush[c] < FlushBound
  /\ flush' = [flush EXCEPT ![c] = @ + 1]
  /\ flushing' = [flushing EXCEPT ![c] = @ + 1]
  /\ UNCHANGED <<DRAMSim, sysAgent, memCtrl, swRx, loads, credit>>

\* The L3 answers the flush, with the block if it was modified anywhere.
SendFlushAck ==
  \E c \in Core, t \in Written, d \in BOOLEAN :
    /\ flushing[c] > 0
    /\ Enter([type |-> "flush_ack", tag |-> t, core |-> c, dirty |-> d])
    /\ flushing' = [flushing EXCEPT ![c] = @ - 1]
    /\ UNCHANGED loads

\* The switch takes a reply and the L3 gets its block.
Deliver ==
  /\ swRx # <<>>
  /\ loads' = loads \ {Head(swRx).id}
  /\ swRx' = Tail(swRx)
  /\ UNCHANGED <<DRAMSim, sysAgent, memCtrl, flushing, credit, flush>>

-----------------------------------------------------------------------------
(* System agent *)

Other(q) == IF q = "top" THEN "bottom" ELSE "top"

\* Mutants: an empty queue is not skipped; the queues are not rotated.
PickNext == nextQueue
PickFirst == IF saRx["top"] # <<>> THEN "top" ELSE "bottom"

\* sysagent_get_message(): the next queue, or the other one if it is empty.
Pick == IF saRx[nextQueue] # <<>> THEN nextQueue ELSE Other(nextQueue)

\* sys_agent_ctrl(), up to the pause of system_agent_route().
SelectMessage ==
  /\ routing = "none"
  /\ Len(saTx["bottom"]) < QueueSize /\ Len(saTx["top"]) < QueueSize
  /\ Await("ctrl")
  /\ routing' = Pick
  /\ nextQueue' = Other(Pick)
  /\ UNCHANGED <<DRAMSim, saRx, saTx, upBusy, down, memCtrl, ring, flush>>

SideOf(p) == IF p.type = "mc_put" THEN "top" ELSE "bottom"

\* Mutant: the task that carries the packet on is not advanced.
RouteSilently ==
  /\ routing # "none"
  /\ LET p == Head(saRx[routing])
     IN saTx' = [saTx EXCEPT ![SideOf(p)] = Append(@, p)]
  /\ saRx' = [saRx EXCEPT ![routing] = Tail(@)]
  /\ routing' = "none"
  /\ UNCHANGED <<DRAMSim, nextQueue, upBusy, down, memCtrl, ring, credit, flush>>

\* Mutant: a request goes straight to an idle memory controller.
RouteDirectly ==
  /\ routing # "none"
  /\ LET p == Head(saRx[routing])
     IN \/ /\ SideOf(p) = "bottom" /\ mcRx = <<>> /\ saTx["bottom"] = <<>>
           /\ mcRx' = <<p>>
           /\ Advance("mc")
           /\ UNCHANGED saTx
        \/ /\ saTx' = [saTx EXCEPT ![SideOf(p)] = Append(@, p)]
           /\ Advance(IF SideOf(p) = "top" THEN "io_up" ELSE "io_down")
           /\ UNCHANGED mcRx
  /\ saRx' = [saRx EXCEPT ![routing] = Tail(@)]
  /\ routing' = "none"
  /\ UNCHANGED <<DRAMSim, nextQueue, upBusy, down, mcBusy, pending, mcTx, mcUp, ring, flush>>

\* system_agent_route() after its pause.
Route ==
  /\ routing # "none"
  /\ LET p == Head(saRx[routing])
     IN /\ saTx' = [saTx EXCEPT ![SideOf(p)] = Append(@, p)]
        /\ Advance(IF SideOf(p) = "top" THEN "io_up" ELSE "io_down")
  /\ saRx' = [saRx EXCEPT ![routing] = Tail(@)]
  /\ routing' = "none"
  /\ UNCHANGED <<DRAMSim, nextQueue, upBusy, down, memCtrl, ring, flush>>

\* sys_agent_ctrl_io_up(): the switch's queue is compared with ">".
StartUp ==
  /\ ~upBusy
  /\ Len(swRx) <= QueueSize
  /\ Await("io_up")
  /\ upBusy' = TRUE
  /\ UNCHANGED <<DRAMSim, saRx, nextQueue, routing, saTx, down, memCtrl, ring, flush>>

FinishUp ==
  /\ upBusy
  /\ swRx' = Append(swRx, Head(saTx["top"]))
  /\ saTx' = [saTx EXCEPT !["top"] = Tail(@)]
  /\ upBusy' = FALSE
  /\ UNCHANGED <<DRAMSim, saRx, nextQueue, routing, down, memCtrl, flushing, loads, credit, flush>>

\* Mutant: the memory controller's queue is not checked.
StartDownUnchecked ==
  /\ down = <<>>
  /\ Await("io_down")
  /\ down' = <<Head(saTx["bottom"])>>
  /\ saTx' = [saTx EXCEPT !["bottom"] = Tail(@)]
  /\ UNCHANGED <<DRAMSim, saRx, nextQueue, routing, upBusy, memCtrl, ring, flush>>

\* sys_agent_ctrl_io_down() takes the packet out before its pause.
StartDown ==
  /\ down = <<>>
  /\ Len(mcRx) < QueueSize
  /\ Await("io_down")
  /\ down' = <<Head(saTx["bottom"])>>
  /\ saTx' = [saTx EXCEPT !["bottom"] = Tail(@)]
  /\ UNCHANGED <<DRAMSim, saRx, nextQueue, routing, upBusy, memCtrl, ring, flush>>

FinishDown ==
  /\ down # <<>>
  /\ mcRx' = mcRx \o down
  /\ down' = <<>>
  /\ Advance("mc")
  /\ UNCHANGED <<DRAMSim, saRx, nextQueue, routing, saTx, upBusy,
                 mcBusy, pending, mcTx, mcUp, ring, flush>>

-----------------------------------------------------------------------------
(* Memory controller and DRAM *)

Inflight == Len(pending) + Len(mcTx)

\* memctrl_ctrl() up to its pause.
StartAccess ==
  /\ ~mcBusy
  /\ Inflight < MaxInflight
  /\ Await("mc")
  /\ mcBusy' = TRUE
  /\ UNCHANGED <<DRAMSim, sysAgent, mcRx, pending, mcTx, mcUp, ring, flush>>

Put(p) == [type |-> "mc_put", tag |-> p.tag, id |-> p.id]
Uncount(c) == flush' = [flush EXCEPT ![c] = @ - 1]

Serves(p) == mcBusy /\ p = Head(mcRx) /\ mcBusy' = FALSE

\* A flush that found the block clean ends here.
EndCleanFlush(p) ==
  /\ Serves(p)
  /\ p.type = "flush_ack" /\ ~p.dirty
  /\ Uncount(p.core)
  /\ mcRx' = Tail(mcRx)
  /\ UNCHANGED <<DRAMSim, sysAgent, pending, mcTx, mcUp, ring, credit>>

ToDRAM(p) == Serves(p) /\ DRAMSim /\ p \in LoadPacket \cup WritePacket

\* Mutant: a core's flush is counted off when the DRAM takes it.
AddTransactionCounts(p) ==
  /\ ToDRAM(p)
  /\ pending' = Append(pending, p)
  /\ mcRx' = Tail(mcRx)
  /\ IF p.type = "flush_ack" THEN Uncount(p.core) ELSE UNCHANGED flush
  /\ UNCHANGED <<DRAMSim, sysAgent, mcTx, mcUp, ring, credit>>

\* dramsim_add_transaction() takes the access ...
AddTransaction(p) ==
  /\ ToDRAM(p)
  /\ pending' = Append(pending, p)
  /\ mcRx' = Tail(mcRx)
  /\ UNCHANGED <<DRAMSim, sysAgent, mcTx, mcUp, ring, credit, flush>>

\* ... or refuses it, and memctrl_ctrl() takes its step back to try again.
RefuseTransaction(p) ==
  /\ ToDRAM(p)
  /\ Advance("mc")
  /\ UNCHANGED <<DRAMSim, sysAgent, mcRx, pending, mcTx, mcUp, ring, flush>>

\* Without DRAMSim the access is done after a second pause.
AccessDirectly(p) ==
  /\ Serves(p)
  /\ ~DRAMSim
  /\ \/ /\ p.type = "mc_load"
        /\ mcTx' = Append(mcTx, Put(p))
        /\ Advance("mc_io")
        /\ UNCHANGED flush
     \/ /\ p \in WritePacket
        /\ IF p.type = "flush_ack" THEN Uncount(p.core) ELSE UNCHANGED flush
        /\ UNCHANGED <<mcTx, credit>>
  /\ mcRx' = Tail(mcRx)
  /\ UNCHANGED <<DRAMSim, sysAgent, pending, mcUp, ring>>

\* The DRAM completes accesses to different blocks in any order; the callbacks
\* look for the first pending access of their kind to the block.
First(i) ==
  \A j \in 1..(i - 1) : pending[j].tag # pending[i].tag
                        \/ (pending[j].type = "mc_load") # (pending[i].type = "mc_load")

\* Mutant: the access stays on the list and is completed again.
ReadCompleteKeeps(i) ==
  /\ First(i) /\ pending[i].type = "mc_load"
  /\ mcTx' = Append(mcTx, Put(pending[i]))
  /\ Advance("mc_io")
  /\ UNCHANGED <<DRAMSim, sysAgent, mcRx, mcBusy, pending, mcUp, ring, flush>>

\* dramsim_read_complete()
ReadComplete(i) ==
  /\ First(i) /\ pending[i].type = "mc_load"
  /\ mcTx' = Append(mcTx, Put(pending[i]))
  /\ pending' = RemoveAt(pending, i)
  /\ Advance("mc_io")
  /\ UNCHANGED <<DRAMSim, sysAgent, mcRx, mcBusy, mcUp, ring, flush>>

\* dramsim_write_complete()
WriteComplete(i) ==
  /\ First(i) /\ pending[i].type # "mc_load"
  /\ IF pending[i].type = "flush_ack" THEN Uncount(pending[i].core) ELSE UNCHANGED flush
  /\ pending' = RemoveAt(pending, i)
  /\ UNCHANGED <<DRAMSim, sysAgent, mcRx, mcBusy, mcTx, mcUp, ring, credit>>

\* memctrl_ctrl_io() takes the packet out before its pause.
StartReply ==
  /\ mcUp = <<>>
  /\ Len(saRx["bottom"]) < QueueSize
  /\ Await("mc_io")
  /\ mcUp' = <<Head(mcTx)>>
  /\ mcTx' = Tail(mcTx)
  /\ UNCHANGED <<DRAMSim, sysAgent, mcRx, mcBusy, pending, ring, flush>>

FinishReply ==
  /\ mcUp # <<>>
  /\ saRx' = [saRx EXCEPT !["bottom"] = @ \o mcUp]
  /\ mcUp' = <<>>
  /\ Advance("ctrl")
  /\ UNCHANGED <<DRAMSim, nextQueue, routing, saTx, upBusy, down,
                 mcRx, mcBusy, pending, mcTx, ring, flush>>

-----------------------------------------------------------------------------

Served ==
  mcBusy /\ LET p == Head(mcRx) IN EndCleanFlush(p) \/ AddTransaction(p) \/ AccessDirectly(p)

Refused == mcBusy /\ RefuseTransaction(Head(mcRx))

Completed == \E i \in DOMAIN pending : ReadComplete(i) \/ WriteComplete(i)
LoadCompleted(l) ==
  \E i \in DOMAIN pending : pending[i].type = "mc_load" /\ pending[i].id = l /\ ReadComplete(i)
WriteCompleted == \E i \in DOMAIN pending : WriteComplete(i)

Next ==
  \/ SendLoad \/ SendStore \/ SendFlushAck \/ (\E c \in Core : Flush(c)) \/ Deliver
  \/ SelectMessage \/ Route \/ StartUp \/ FinishUp \/ StartDown \/ FinishDown
  \/ StartAccess \/ Served \/ Refused \/ Completed \/ StartReply \/ FinishReply

Spec == Init /\ [][Next]_vars

\* Every task runs again after its pause, the switch takes what it is given,
\* DRAMSim completes each access and does not refuse one forever.
FairSpec ==
  /\ Spec
  /\ WF_vars(SelectMessage) /\ WF_vars(Route) /\ WF_vars(StartUp) /\ WF_vars(FinishUp)
  /\ WF_vars(StartDown) /\ WF_vars(FinishDown) /\ WF_vars(StartReply) /\ WF_vars(FinishReply)
  /\ WF_vars(StartAccess) /\ WF_vars(Deliver) /\ SF_vars(Served)
  /\ WF_vars(WriteCompleted) /\ \A l \in Load : WF_vars(LoadCompleted(l))

-----------------------------------------------------------------------------
(* Properties *)

\* The types of the variables: requests and replies never meet in a queue.
Types ==
  /\ DRAMSim \in BOOLEAN
  /\ saRx \in [Side -> Seq(South \cup North)] /\ saTx \in [Side -> Seq(South \cup North)]
  /\ saRx["top"] \in Seq(South) /\ saRx["bottom"] \in Seq(North)
  /\ nextQueue \in Side /\ routing \in Side \cup {"none"}
  /\ saTx["top"] \in Seq(North) /\ saTx["bottom"] \in Seq(South)
  /\ upBusy \in BOOLEAN /\ down \in Seq(South)
  /\ mcRx \in Seq(South) /\ mcBusy \in BOOLEAN
  /\ pending \in Seq(LoadPacket \cup WritePacket)
  /\ mcTx \in Seq(North) /\ mcUp \in Seq(North) /\ swRx \in Seq(North)
  /\ credit \in [Task -> Nat] /\ flush \in [Core -> Int] /\ flushing \in [Core -> Nat]
  /\ loads \in SUBSET Load

\* Each task's event count has one advance for each packet in the queues it
\* serves, one less while it pauses with a packet still in the queue: with
\* fewer a packet is stranded, with more the task finds its queue empty, where
\* the code asserts a packet.
Credits ==
  /\ credit["ctrl"] + (IF routing = "none" THEN 0 ELSE 1)
       = Len(saRx["top"]) + Len(saRx["bottom"])
  /\ credit["io_up"] + (IF upBusy THEN 1 ELSE 0) = Len(saTx["top"])
  /\ credit["io_down"] = Len(saTx["bottom"])
  /\ credit["mc"] + (IF mcBusy THEN 1 ELSE 0) = Len(mcRx)
  /\ credit["mc_io"] = Len(mcTx)

\* The packet a task looked at before its pause is still there after it.
PausesAreSafe ==
  /\ routing # "none" => saRx[routing] # <<>>
  /\ upBusy => saTx["top"] # <<>>
  /\ mcBusy => mcRx # <<>>

\* Although every queue is checked before a pause and filled after it, none
\* passes its size, but for the reply queue of the switch by one.
QueueBounds ==
  /\ \A q \in Side : Len(saRx[q]) <= QueueSize /\ Len(saTx[q]) <= QueueSize
  /\ Len(mcRx) <= QueueSize
  /\ Len(swRx) <= QueueSize + 1
  /\ Inflight <= MaxInflight

\* Every queue holds packets of its own direction and no more than it has room for.
TypeOK == Types /\ QueueBounds

Southbound == mcRx \o down \o saTx["bottom"] \o saRx["top"]
Northbound == swRx \o saTx["top"] \o saRx["bottom"] \o mcUp \o mcTx

Flushes(s, c) == {i \in DOMAIN s : s[i].type = "flush_ack" /\ s[i].core = c}

\* A core's flush counter is the number of its flushes in the caches, on the way
\* to the memory controller and in the DRAM: a fence, which waits for zero,
\* finds every block the core flushed written.
FlushesCounted ==
  \A c \in Core :
    flush[c] = flushing[c] + Cardinality(Flushes(Southbound, c)) + Cardinality(Flushes(pending, c))

Count(s, l) == Cardinality({i \in DOMAIN s : s[i].type \in {"mc_load", "mc_put"} /\ s[i].id = l})

\* A load under way is in one place, as a request or as its reply: it is never
\* lost and never answered twice.
LoadsAccounted ==
  \A l \in Load :
    Count(Southbound, l) + Count(pending, l) + Count(Northbound, l) = IF l \in loads THEN 1 ELSE 0

\* Requests reach the DRAM in the order in which they come from the ring, so a
\* load never overtakes an earlier write-back of its block.
SouthboundInOrder ==
  [][\/ Southbound' = Southbound
     \/ Southbound # <<>> /\ Southbound' = Tail(Southbound)
     \/ Southbound' # <<>> /\ Southbound = Front(Southbound')]_vars

\* Every load is answered: the shared system agent never waits for itself.
LoadsReturn == \A l \in Load : l \in loads ~> l \notin loads
=============================================================================
