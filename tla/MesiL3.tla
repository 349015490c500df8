------------------------------- MODULE MesiL3 -------------------------------
(***************************************************************************)
(* The handlers of the L3 slice and its directory: cgm_mesi_l3_*() of      *)
(* cgm/cpu_mesi_protocol.c.  As in MesiL2 the retry queue is served first  *)
(* and of the other queues any may come next.                              *)
(***************************************************************************)
EXTENDS Mesi

L3Retry == <<"L3", "retry">>
L3Sources ==
  IF l3.retry # <<>> THEN {L3Retry}
  ELSE {ch \in {<<c, "L3", l>> : c \in Core, l \in Lane} : chan[ch] # <<>>}
L3First(src) == IF src = L3Retry THEN Head(l3.retry) ELSE Head(chan[src])
L3Self(src) == IF src = L3Retry THEN [l3 EXCEPT !.retry = Tail(@)] ELSE l3

\* The packet is consumed, the L3 goes to state s and sends "out".
L3Goes(src, s, out) ==
  /\ l3' = s
  /\ chan' = Put(IF src = L3Retry THEN chan ELSE [chan EXCEPT ![src] = Tail(@)], out)

\* The answer to m, with the lines in which it is made.
Answer(m, type) == FromL3(m.req, [m EXCEPT !.type = type])
Forward(m, type, owner) == FromL3(owner, [m EXCEPT !.type = type])

Owner(s) == CHOOSE c \in s.dir : TRUE
Owned(s) == s.st \in {"E", "M"}

\* Mutant: the requests coalesced on the block are forgotten.
PullNothing(s, m) == s

\* cache_coalesed_retry(): a request that was retried takes the next one
\* coalesced on the block with it.
Pull(s, m) ==
  IF m.type \in {"load_retry", "store_retry"} /\ s.coal # <<>>
  THEN [s EXCEPT !.coal = Tail(@), !.retry = Append(@, RetryOf(Head(s.coal)))]
  ELSE s

\* The block is granted to one core, the only one in the directory.
Only(s, c) == [s EXCEPT !.dir = {c}, !.pb = FALSE]

-----------------------------------------------------------------------------
(* What the handlers assert or check with fatal() *)

MayEnd(s) == s.pb /\ s.wb.st = "I" /\ Owned(s)

L3May(s, m) ==
  CASE m.type \in {"get", "getx", "load_retry", "store_retry"} ->
         /\ s.pb /\ s.st # "I" /\ m.req \in s.dir => s.dir = {m.req} /\ Owned(s)
         /\ ~s.pb /\ Owned(s) => Cardinality(s.dir) <= 1
         /\ s.st = "S" /\ m.type \in {"getx", "store_retry"} => s.dir # {}
    [] m.type = "upgrade" ->
         /\ s.pb /\ s.st # "I" => Owned(s)
         /\ ~s.pb /\ Owned(s) => Cardinality(s.dir) = 1 /\ m.req \notin s.dir
         /\ ~s.pb /\ s.st = "S" => s.dir # {}
    [] m.type = "downgrade_ack" ->
         MayEnd(s) /\ Cardinality(s.dir) = 1 /\ m.req \notin s.dir
    [] m.type = "getx_fwd_ack" -> MayEnd(s) /\ Cardinality(s.dir) = 1
    [] m.type \in {"downgrade_nack", "getx_fwd_nack"} ->
         MayEnd(s) /\ Cardinality(s.dir) <= 1
    [] m.type = "flush_block_ack" -> CoreFlushed(m.req)
    [] m.type = "write_back" ->
         /\ s.st # "S" /\ (s.st = "I" => s.wb.st # "I")
         /\ s.st # "I" => CoreFlushed(m.req)

\* Late: a write-back finds the block granted to another core.
Overtaken(s, m) == m.type = "write_back" /\ s.st # "I" /\ ~(s.dir \subseteq {m.req})

\* Late: the answer to an earlier flush is taken for that of the flush the block
\* in the write-back buffer waits for.
L3Mistakes(s, m) ==
  /\ m.type = "flush_block_ack" /\ s.wb.st # "I" /\ s.wb.fp
  /\ UnderWay({"flush_block"}) \/ \E c \in Core : l2[c].wb.join

L3Takes(src, s, m, types) ==
  /\ m.type \in types /\ L3May(s, m)
  /\ late' = (late \/ Overtaken(s, m) \/ L3Mistakes(s, m))
  /\ UNCHANGED <<l1, l2, left>>

-----------------------------------------------------------------------------
(* Requests *)

Nack(m) == IF m.acc = "get" THEN "get_nack" ELSE "getx_nack"

\* While another core is asked for the block its own request is answered, with
\* l3_pending set, and others are refused.
WhilePending(src, s, m) ==
  /\ s.st # "I" /\ s.pb
  /\ IF m.req \in s.dir
     THEN L3Goes(src, s, <<Answer([m EXCEPT !.l3p = TRUE], IF m.acc = "get" THEN PutOf(s.st) ELSE "putx")>>)
     ELSE L3Goes(src, Pull(s, m), <<Answer(m, Nack(m))>>)

\* The block is not in the cache: it waits in the write-back buffer for the
\* core that owned it, or is taken back from there, or memory is asked for it,
\* or it has been asked already and the request is coalesced.
L3Absent(src, s, m) ==
  /\ s.st = "I"
  /\ \/ s.wb.st # "I" /\ s.wb.fp /\ L3Goes(src, Pull(s, m), <<Answer(m, Nack(m))>>)
     \/ /\ s.wb.st # "I" /\ ~s.wb.fp
        /\ L3Goes(src, [Only(Pull(s, m), m.req) EXCEPT !.st = s.wb.st, !.wb = NoWB],
                  <<Answer(m, PutOf(s.wb.st))>>)
     \/ s.wb.st = "I" /\ s.row /\ L3Goes(src, [s EXCEPT !.coal = Append(@, m)], <<>>)
     \/ /\ s.wb.st = "I" /\ ~s.row
        /\ L3Goes(src, [s EXCEPT !.row = TRUE, !.tran = TRUE, !.dir = {}, !.pb = FALSE,
                                 !.mem = Append(@, m)], <<>>)

\* Another core owns the block and is asked for it.
AskOwner(src, s, m, type) ==
  L3Goes(src, [Pull(s, m) EXCEPT !.pb = TRUE], <<Forward(m, type, Owner(s))>>)

\* cgm_mesi_l3_get()
L3Get(src, s, m) ==
  /\ L3Takes(src, s, m, {"get", "load_retry"}) /\ m.acc = "get"
  /\ \/ WhilePending(src, s, m)
     \/ L3Absent(src, s, m)
     \/ /\ ~s.pb /\ Owned(s)
        /\ IF s.dir \subseteq {m.req}
           THEN L3Goes(src, Only(Pull(s, m), m.req), <<Answer(m, PutOf(s.st))>>)
           ELSE AskOwner(src, s, m, "get_fwd")
     \/ /\ ~s.pb /\ s.st = "S"
        /\ L3Goes(src, [Pull(s, m) EXCEPT !.dir = @ \cup {m.req}], <<Answer(m, "puts")>>)
  /\ UNCHANGED unsaved

Invalidations(s, m, st) ==
  LET others == SetToSeq(s.dir \ {m.req})
  IN [i \in DOMAIN others |-> FromL3(others[i], Note("upgrade_inval", m.req, st))]
Others(s, m) == Cardinality(s.dir \ {m.req})

\* cgm_mesi_l3_getx(): the sharers send their acknowledgements to the requester.
L3Getx(src, s, m) ==
  /\ L3Takes(src, s, m, {"getx", "store_retry"})
  /\ \/ WhilePending(src, s, m)
     \/ L3Absent(src, s, m)
     \/ /\ ~s.pb /\ Owned(s)
        /\ IF s.dir \subseteq {m.req}
           THEN L3Goes(src, [Only(Pull(s, m), m.req) EXCEPT !.st = "M"], <<Answer(m, "putx")>>)
           ELSE AskOwner(src, s, m, "getx_fwd")
     \/ /\ ~s.pb /\ s.st = "S"
        /\ L3Goes(src, [Only(s, m.req) EXCEPT !.st = "M"],
                  <<Answer([m EXCEPT !.n = Others(s, m)], "upgrade_putx_n")>>
                  \o Invalidations(s, m, "M"))
  /\ UNCHANGED unsaved

\* cgm_mesi_l3_upgrade()
L3Upgrade(src, s, m) ==
  /\ L3Takes(src, s, m, {"upgrade"})
  /\ \/ (s.st = "I" \/ s.pb) /\ L3Goes(src, s, <<Answer(m, "upgrade_nack")>>)
     \/ ~s.pb /\ Owned(s) /\ AskOwner(src, s, m, "getx_fwd")
     \/ /\ ~s.pb /\ s.st = "S"
        /\ L3Goes(src, [Only(s, m.req) EXCEPT !.st = "M"],
                  <<Answer([m EXCEPT !.n = Others(s, m)], "upgrade_ack")>>
                  \o Invalidations(s, m, "I"))
  /\ UNCHANGED unsaved

\* cgm_mesi_l3_write_block(): memory has sent the block, the request is retried.
L3WriteBlock ==
  /\ l3.mem # <<>> /\ l3.retry = <<>> /\ l3.tran /\ l3.dir = {}
  /\ "memory" \in Overtakes \/ ~UnderWay({"flush_block"})
  /\ LET m == Head(l3.mem)
     IN l3' = [l3 EXCEPT !.mem = Tail(@), !.row = FALSE, !.tran = FALSE,
                         !.st = IF m.acc = "get" THEN "E" ELSE "M",
                         !.retry = Append(@, RetryOf(m))]
  /\ UNCHANGED <<l1, l2, chan, unsaved, late, left>>

-----------------------------------------------------------------------------
(* Acknowledgements and write-backs *)

Ended(src, s) == L3Goes(src, s, <<>>)

\* Mutant: modified data of the owner is not stored.
DowngradeUnsaved(src, s, m) ==
  /\ L3Takes(src, s, m, {"downgrade_ack"})
  /\ Ended(src, [s EXCEPT !.st = "S", !.dir = @ \cup {m.req}, !.pb = FALSE])
  /\ unsaved' = IF m.st = "M" /\ s.st = "M" THEN FALSE ELSE unsaved

\* cgm_mesi_l3_downgrade_ack(): modified data goes to memory (mc_store).
L3DowngradeAck(src, s, m) ==
  /\ L3Takes(src, s, m, {"downgrade_ack"})
  /\ Ended(src, [s EXCEPT !.st = "S", !.dir = @ \cup {m.req}, !.pb = FALSE])
  /\ unsaved' = IF m.st = "M" THEN FALSE ELSE unsaved

\* cgm_mesi_l3_getx_fwd_ack()
L3GetxFwdAck(src, s, m) ==
  /\ L3Takes(src, s, m, {"getx_fwd_ack"})
  /\ Ended(src, [Only(s, m.req) EXCEPT !.st = "M"])
  /\ UNCHANGED unsaved

\* The owner did not have the block any more: nobody has.
OwnerGone(src, s) == Ended(src, [s EXCEPT !.dir = {}, !.pb = FALSE]) /\ UNCHANGED unsaved

\* cgm_mesi_l3_downgrade_nack()
L3DowngradeNack(src, s, m) == L3Takes(src, s, m, {"downgrade_nack"}) /\ OwnerGone(src, s)

\* cgm_mesi_l3_getx_fwd_nack()
L3GetxFwdNack(src, s, m) == L3Takes(src, s, m, {"getx_fwd_nack"}) /\ OwnerGone(src, s)

\* cgm_mesi_l3_flush_block_ack(): the core has let go of the block.
L3FlushBlockAck(src, s, m) ==
  /\ L3Takes(src, s, m, {"flush_block_ack"})
  /\ Ended(src, IF s.wb.st = "I" THEN s
                ELSE IF "M" \in {s.wb.st, m.st} THEN [s EXCEPT !.wb = [NoWB EXCEPT !.st = "M"]]
                ELSE [s EXCEPT !.wb = NoWB])
  /\ UNCHANGED unsaved

\* cgm_mesi_l3_write_back() of a block an L2 wrote back.
L3WriteBack(src, s, m) ==
  /\ L3Takes(src, s, m, {"write_back"})
  /\ Ended(src, IF s.st = "I" THEN [s EXCEPT !.wb.st = "M"] ELSE [s EXCEPT !.st = "M", !.dir = {}])
  /\ UNCHANGED unsaved

\* cgm_L3_cache_evict_block(), after which the way's directory entry is cleared.
L3Evict ==
  /\ left.L3 > 0 /\ l3.st # "I" /\ ~l3.pb /\ ~l3.tran /\ l3.retry = <<>>
  /\ Owned(l3) => Cardinality(l3.dir) <= 1
  /\ "eviction" \in Overtakes \/ ~UnderWay(Puts \cup {"upgrade_inval", "upgrade_ack", "upgrade_putx_n"})
  /\ left' = [left EXCEPT !.L3 = @ - 1]
  /\ l3' = [l3 EXCEPT !.st = "I", !.dir = {},
                      !.wb = IF Owned(l3) THEN [st |-> l3.st, fp |-> l3.dir # {}, join |-> FALSE] ELSE @]
  /\ LET sharers == SetToSeq(l3.dir)
     IN chan' = Put(chan, [i \in DOMAIN sharers |->
                             FromL3(sharers[i], Note("flush_block", sharers[i], l3.st))])
  /\ UNCHANGED <<l1, l2, unsaved, late>>

\* cgm_mesi_l3_write_back() of a block in the write-back buffer.
L3Drain ==
  /\ l3.wb.st # "I" /\ ~l3.wb.fp /\ l3.retry = <<>> /\ l3.st = "I"
  /\ l3' = [l3 EXCEPT !.wb = NoWB]
  /\ unsaved' = IF l3.wb.st = "M" THEN FALSE ELSE unsaved
  /\ UNCHANGED <<l1, l2, chan, late, left>>

L3Serves(src) ==
  /\ src \in L3Sources
  /\ LET m == L3First(src)
         s == L3Self(src)
     IN \/ L3Get(src, s, m) \/ L3Getx(src, s, m) \/ L3Upgrade(src, s, m)
        \/ L3DowngradeAck(src, s, m) \/ L3GetxFwdAck(src, s, m) \/ L3DowngradeNack(src, s, m)
        \/ L3GetxFwdNack(src, s, m) \/ L3FlushBlockAck(src, s, m) \/ L3WriteBack(src, s, m)

L3Next == L3Evict \/ L3Drain \/ L3WriteBlock \/ \E src \in L3Sources : L3Serves(src)
=============================================================================
