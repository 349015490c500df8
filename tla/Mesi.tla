-------------------------------- MODULE Mesi --------------------------------
(***************************************************************************)
(* One memory block in the CPU side of m2s-cgm: the L1 data cache and the  *)
(* L2 of every core, the L3 slice the block maps to, and the channels      *)
(* between them.  This module holds the state and the packets; MesiL1,     *)
(* MesiL2 and MesiL3 are the handlers of cgm/cpu_mesi_protocol.c, CpuMesi  *)
(* composes them.                                                          *)
(*                                                                         *)
(* Other blocks appear only as the reason for which a cache evicts this    *)
(* one.  A handler runs from the end of its latency to its end without a   *)
(* pause, so it is one action.  The simulator stops where an assertion of  *)
(* a handler fails or it calls fatal(): that handler's action is disabled. *)
(***************************************************************************)
EXTENDS Integers, FiniteSets, SequencesExt

CONSTANTS
  Core,       \* the cores, each with an L1 data cache and an L2
  Ops,        \* bound: what a core does, of "load" and "store"
  Accesses,   \* bound: the number of accesses of all cores
  L1Evictions, L2Evictions, L3Evictions, \* bound: evictions of the block
  Overtakes   \* where a packet may overtake another, see Faster

\* "L1": in an L1, replies overtake demands that came before them.
\* "ring": between two ring stops a packet overtakes those of other lanes.
\* "memory": a load from memory is faster than the flushes of shared copies.
\* "eviction": the L3 evicts the block before a copy it granted has arrived.
Faster == {"L1", "ring", "memory", "eviction"}

ASSUME MesiAssumption ==
  /\ IsFiniteSet(Core) /\ Core # {} /\ "L3" \notin Core
  /\ Ops \subseteq {"load", "store"} /\ Accesses \in Nat
  /\ L1Evictions \in Nat /\ L2Evictions \in Nat /\ L3Evictions \in Nat
  /\ Overtakes \subseteq Faster

VARIABLES
  l1,       \* l1[c]: the block in the L1 of core c and the access of the core
  l2,       \* l2[c]: the block in the L2 of core c
  l3,       \* the block in the L3 and its directory entry
  chan,     \* the packets on their way, by channel
  unsaved,  \* history: stored to since memory last received the block
  late,     \* history: a packet met a later copy of the block than its own
  left      \* the accesses and evictions that are left of the bounds

vars == <<l1, l2, l3, chan, unsaved, late, left>>

BlockState == {"I", "S", "E", "M"}
Row == {"free", "open", "stale"}  \* a row of the ORT; stale: join bit 0
Fwd == {"get_fwd", "getx_fwd"}

\* A way waits for a fill or an upgrade (fill); wb: a modified copy in the
\* write-back buffer; op: the access that is not finished.
L1Init == [st |-> "I", fill |-> FALSE, row |-> "free", wb |-> FALSE, op |-> "none"]

\* tran: the way waits for a fill or an upgrade; upg: its upgrade pending bit;
\* wb: the block in the write-back buffer, fp its flush_pending and join its
\* L3_flush_join; pend: pending_request_buffer; retry: retry_queue.
NoWB == [st |-> "I", fp |-> FALSE, join |-> FALSE]
L2Init == [st |-> "I", tran |-> FALSE, upg |-> FALSE, row |-> "free", wb |-> NoWB,
           pend |-> <<>>, retry |-> <<>>]

\* dir, pb: sharers and pending bit of the directory entry; row: the block has
\* a row in the ORT; coal: the requests coalesced on it; mem: the requests
\* memory works on.
L3Init == [st |-> "I", tran |-> FALSE, dir |-> {}, pb |-> FALSE, wb |-> NoWB,
           row |-> FALSE, coal |-> <<>>, retry |-> <<>>, mem |-> <<>>]

\* Between an L1 and its L2 one queue each way; on the ring one lane of each
\* kind between any two of the L2s and the L3.
Lane == {"request", "reply", "coherence"}
Ring == (Core \cup {"L3"}) \X (Core \cup {"L3"}) \X Lane
Channel == ({"up", "down"} \X Core) \cup Ring

Init ==
  /\ l1 = [c \in Core |-> L1Init]
  /\ l2 = [c \in Core |-> L2Init]
  /\ l3 = L3Init
  /\ chan = [ch \in Channel |-> <<>>]
  /\ unsaved = FALSE /\ late = FALSE
  /\ left = [acc |-> Accesses, L1 |-> L1Evictions, L2 |-> L2Evictions, L3 |-> L3Evictions]

-----------------------------------------------------------------------------
(* Packets *)

\* req is the core a packet is made for or concerns, acc the l1_access_type of
\* a request and its answer, st cache_block_state, l3p the l3_pending bit, n the
\* counter upgrade_ack or upgrade_inval_ack_count, dgp downgrade_pending.
Packet(type, c, acc, st) ==
  [type |-> type, req |-> c, acc |-> acc, st |-> st, l3p |-> FALSE, n |-> 0, dgp |-> 0]
Request(type, c, acc) == Packet(type, c, acc, "I")
Note(type, c, st) == Packet(type, c, "none", st)

\* cgm_cache_get_retry_state(): by cpu_access_type, and a load asks with get.
RetryOf(m) == [m EXCEPT !.type = IF m.acc = "get" THEN "load_retry" ELSE "store_retry"]

PutOf(st) == CASE st = "S" -> "puts" [] st = "E" -> "put_clnx" [] st = "M" -> "putx"
Granted(type) == CASE type = "puts" -> "S" [] type = "put_clnx" -> "E" [] type = "putx" -> "M"
Puts == {"puts", "put_clnx", "putx"}

\* l2_cache_down_io_ctrl() and l3_cache_up_io_ctrl(): the lane of a packet.
L2Lane(type) ==
  IF "ring" \notin Overtakes THEN "request"
  ELSE IF type \in {"get", "getx", "upgrade", "write_back", "flush_block_ack",
               "downgrade_ack", "downgrade_nack"} THEN "request"
  ELSE IF type \in Puts \cup {"upgrade_putx_n"} THEN "reply"
  ELSE "coherence"
L3Lane(type) ==
  IF "ring" \notin Overtakes THEN "request"
  ELSE IF type \in Puts \cup Fwd THEN "reply" ELSE "coherence"

\* A packet and the channel it is put on.
ToL2(c, m) == [to |-> <<"down", c>>, m |-> m]
ToL1(c, m) == [to |-> <<"up", c>>, m |-> m]
FromL2(c, d, m) == [to |-> <<c, d, L2Lane(m.type)>>, m |-> m]
FromL3(c, m) == [to |-> <<"L3", c, L3Lane(m.type)>>, m |-> m]

Types(ch) == {chan[ch][i].type : i \in DOMAIN chan[ch]}
UnderWay(types) == \E ch \in Channel : Types(ch) \cap types # {}

Put(channels, out) ==
  FoldLeft(LAMBDA ch, p : [ch EXCEPT ![p.to] = Append(@, p.m)], channels, out)

-----------------------------------------------------------------------------
(* What a handler sees of other caches *)

\* cache_validate_block_flushed_from_l1(), cache_validate_block_flushed_from_core()
L1Flushed(c) == l1[c].st = "I" /\ ~l1[c].wb
CoreFlushed(c) == L1Flushed(c) /\ l2[c].st = "I" /\ l2[c].wb = NoWB

\* cache_search_pending_request_buffer(): the first packet, if there is one.
HasPending(s) == s.pend # <<>>
FirstPending(s) == Head(s.pend)
=============================================================================
