------------------------------- MODULE MesiL2 -------------------------------
(***************************************************************************)
(* The handlers of an L2: cgm_mesi_l2_*() of cgm/cpu_mesi_protocol.c.      *)
(*                                                                         *)
(* An L2 serves its retry queue first.  Its other queues are served in an  *)
(* order of their own, but a packet can be late on any channel, so here    *)
(* the next packet of any channel may be the one that is handled.          *)
(***************************************************************************)
EXTENDS Mesi

Retry == <<"retry">>

\* Where core c's L2 can get a packet from.
L2Sources(c) ==
  IF l2[c].retry # <<>> THEN {Retry}
  ELSE {ch \in {<<"down", c>>} \cup {<<d, c, l>> : d \in Core \cup {"L3"}, l \in Lane} :
          ch \in Channel /\ chan[ch] # <<>>}
L2First(c, src) == IF src = Retry THEN Head(l2[c].retry) ELSE Head(chan[src])

\* The L2's state without the packet that is handled.
L2Self(c, src) == IF src = Retry THEN [l2[c] EXCEPT !.retry = Tail(@)] ELSE l2[c]
L2Rest(src) == IF src = Retry THEN chan ELSE [chan EXCEPT ![src] = Tail(@)]

\* The packet is consumed, the L2 goes to state s and sends "out".
L2Goes(c, src, s, out) ==
  /\ l2' = [l2 EXCEPT ![c] = s]
  /\ chan' = Put(L2Rest(src), out)

\* The packet stays first in its queue as packet m.
L2Becomes(c, src, s, m) ==
  IF src = Retry THEN l2' = [l2 EXCEPT ![c] = [s EXCEPT !.retry = <<m>> \o @]] /\ UNCHANGED chan
  ELSE l2' = [l2 EXCEPT ![c] = s] /\ chan' = [L2Rest(src) EXCEPT ![src] = <<m>> \o @]

-----------------------------------------------------------------------------
(* The pending request buffer *)

Pending(s, types) == SelectSeq(s.pend, LAMBDA p : p.type \in types)
Without(s, p) == [s EXCEPT !.pend = RemoveFirst(@, p)]
Pend(s, m) == [s EXCEPT !.pend = Append(@, m)]
Again(s, m) == [s EXCEPT !.retry = Append(@, m)]

\* ort_set_pending_join_bit(): what is on its way for the block is stale.
MarkStale(s) == [s EXCEPT !.row = IF @ = "free" THEN @ ELSE "stale"]

\* Mutant: the forward stays in the buffer.
ServedNever(s, m) == s

\* A retried access has been served: the forward that waited for it is next.
ServedRetry(s, m) ==
  IF m.type \in {"load_retry", "store_retry"} /\ HasPending(s) /\ FirstPending(s).type \in Fwd
  THEN LET p == [FirstPending(s) EXCEPT !.dgp = @ - 1]
           rest == [s EXCEPT !.pend = Tail(@)]
       IN IF p.dgp = 0 THEN Again(rest, p) ELSE [rest EXCEPT !.pend = <<p>> \o @]
  ELSE s

\* Mutant: a shared block is put into the write-back buffer as well.
EvictedAlways(s) ==
  [s EXCEPT !.st = "I", !.wb = [st |-> s.st, fp |-> TRUE, join |-> FALSE]]

\* The L2 lets go of a block it shares, or one it owns: a copy stays in the
\* write-back buffer until the L1 has answered the flush.
Evicted(s) ==
  [s EXCEPT !.st = "I",
            !.wb = IF s.st \in {"E", "M"} THEN [st |-> s.st, fp |-> TRUE, join |-> FALSE] ELSE @]

Flush(c, s) == ToL1(c, Note("flush_block", c, s.st))

-----------------------------------------------------------------------------
(* What the handlers assert or check with fatal() *)

MayAsk(s) == s.row = "free" /\ ~s.upg

MayGet(s) ==
  s.st = "I" => IF s.wb.st = "I" THEN MayAsk(s) ELSE ~s.wb.fp => ~s.wb.join

MayWriteBlock(s, m) ==
  LET two == SubSeq(s.pend, 1, Min({2, Len(s.pend)}))
      fwd == SelectSeq(two, LAMBDA p : p.type \in Fwd)
      up == SelectSeq(two, LAMBDA p : p.type = "upgrade")
  IN /\ s.tran /\ s.row # "free"
     /\ s.upg => ~m.l3p
     /\ CASE s.row = "open" /\ s.upg -> HasPending(s) /\ FirstPending(s).type = "upgrade"
          [] s.row = "open" /\ ~s.upg -> TRUE
          [] s.row = "stale" /\ ~s.upg ->
               IF HasPending(s) THEN FirstPending(s).type \in Fwd /\ FirstPending(s).dgp = 1
               ELSE ~m.l3p
          [] s.row = "stale" /\ s.upg ->
               /\ up # <<>> /\ Len(fwd) + Len(up) = Len(two)
               /\ IF fwd = <<>> THEN m.type = "putx" ELSE Head(fwd).dgp = 1

MayForward(c, s, m) ==
  /\ s.row # "free" /\ s.st = "I" => s.wb.st = "I"
  /\ s.st = "S" => s.tran /\ s.row # "free"
  /\ s.st = "I" /\ ~s.wb.fp /\ s.row = "free" => L1Flushed(c)
  /\ m.type = "get_fwd" /\ s.st = "I" /\ ~s.wb.fp => s.wb.st \in {"I", "M"}

MayAnswerForward(c, s, m) ==
  /\ s.st # "S" /\ (s.st = "I" => s.wb.st # "I")
  /\ HasPending(s)
  /\ m.type = "getx_fwd_inval_ack" /\ s.st = "I" => L1Flushed(c)

MayTakeFlushAck(c, s) ==
  /\ L1Flushed(c)
  /\ s.wb.st # "I" /\ ~s.wb.join /\ HasPending(s) => FirstPending(s).type \in Fwd
  /\ s.wb.st # "I" /\ s.wb.join => HasPending(s) /\ Pending(s, Fwd) = <<>>

MayCount(s) == s.tran /\ s.row # "free"

L2May(c, s, m) ==
  CASE m.type \in {"get", "load_retry", "getx", "store_retry"} -> MayGet(s)
    [] m.type \in {"get_nack", "getx_nack"} ->
         s.row # "free" /\ (s.row = "stale" => ~HasPending(s))
    [] m.type \in Puts -> MayWriteBlock(s, m)
    [] m.type = "upgrade" ->
         s.st \notin {"E", "M"} /\ (s.st = "S" => ~s.tran /\ s.row = "free")
    [] m.type = "upgrade_inval" -> s.st \notin {"E", "M"}
    [] m.type = "upgrade_nack" -> s.tran /\ s.upg /\ HasPending(s)
    [] m.type = "upgrade_ack" ->
         MayCount(s) /\ s.st \notin {"E", "M"} /\ Pending(s, {"upgrade"}) # <<>>
    [] m.type = "upgrade_putx_n" -> MayCount(s) /\ s.st = "I"
    [] m.type \in Fwd -> MayForward(c, s, m)
    [] m.type \in {"downgrade_ack", "getx_fwd_inval_ack"} -> MayAnswerForward(c, s, m)
    [] m.type = "downgrade_nack" -> s.tran
    [] m.type = "getx_fwd_nack" ->
         s.tran /\ (s.row = "stale" /\ HasPending(s) => FirstPending(s).type = "upgrade")
    [] m.type = "flush_block" ->
         /\ s.st = "I" /\ s.wb.st # "I" /\ ~s.wb.fp => s.wb.st = "M"
         /\ s.st \in {"E", "M"} => ~s.tran
    [] m.type = "flush_block_ack" -> MayTakeFlushAck(c, s)
    [] m.type = "write_back" ->
         s.st # "S" /\ (s.st = "I" => s.wb.st # "I") /\ (s.st # "I" => L1Flushed(c))

\* Late: the L3's flush of a shared copy meets one the core owns by now, or a
\* flush passes the copy it was sent for.
Outrun(c, s, m) ==
  /\ m.type = "flush_block"
  /\ \/ m.st = "S" /\ {s.st, s.wb.st} \cap {"E", "M"} # {}
     \/ \E ch \in Ring : ch[2] = c /\ Types(ch) \cap (Puts \cup {"upgrade_ack", "upgrade_putx_n"}) # {}

\* Late: an answer of the L1, which names the block and not the question, is
\* taken for the answer to a question the L1 has not seen.
AnswerTo == [flush_block_ack |-> "flush_block", downgrade_ack |-> "downgrade",
             getx_fwd_inval_ack |-> "getx_fwd_inval"]
L2Mistakes(c, s, m) ==
  \/ /\ m.type \in DOMAIN AnswerTo /\ AnswerTo[m.type] \in Types(<<"up", c>>)
     /\ m.type = "flush_block_ack" => s.wb.st # "I"
  \/ /\ m.type \in {"downgrade_ack", "getx_fwd_inval_ack"}
     /\ HasPending(s) /\ FirstPending(s).type \notin Fwd

\* l2_cache_ctrl() dispatches packet m from src to a handler, which finds the
\* L2 in state s.
L2Takes(c, src, s, m, types) ==
  /\ m.type \in types /\ L2May(c, s, m)
  /\ late' = (late \/ Outrun(c, s, m) \/ L2Mistakes(c, s, m))
  /\ UNCHANGED <<l1, l3, unsaved, left>>
-----------------------------------------------------------------------------
(* Requests of the L1 *)

Nacked(m) == [m EXCEPT !.type = IF m.acc = "get" THEN "get_nack" ELSE "getx_nack"]
Reply(c, m, st) == ToL1(c, [m EXCEPT !.type = PutOf(st)])
AskL3(c, m, type) == FromL2(c, "L3", [m EXCEPT !.type = type])
L3Request(m) == IF m.acc = "get" THEN "get" ELSE "getx"

\* The block is neither in the cache nor in the write-back buffer, or it is in
\* the buffer and waits for the L1 (fp) or can be taken back.
Absent(c, src, s, m) ==
  /\ s.st = "I"
  /\ \/ /\ s.wb.st = "I"
        /\ L2Goes(c, src, [s EXCEPT !.tran = TRUE, !.row = "open"],
                  <<AskL3(c, m, L3Request(m))>>)
     \/ /\ s.wb.st # "I" /\ s.wb.fp
        /\ L2Goes(c, src, s, <<ToL1(c, Nacked(m))>>)
     \/ /\ s.wb.st # "I" /\ ~s.wb.fp
        /\ L2Goes(c, src, [s EXCEPT !.st = s.wb.st, !.wb = NoWB], <<Reply(c, m, s.wb.st)>>)

\* cgm_mesi_l2_get()
L2Get(c, src, s, m) ==
  /\ L2Takes(c, src, s, m, {"get", "load_retry"})
  /\ \/ Absent(c, src, s, m)
     \/ s.st # "I" /\ L2Goes(c, src, ServedRetry(s, m), <<Reply(c, m, s.st)>>)

\* cgm_mesi_l2_getx(): for a shared block the packet becomes an upgrade.
L2Getx(c, src, s, m) ==
  /\ L2Takes(c, src, s, m, {"getx", "store_retry"})
  /\ \/ Absent(c, src, s, m)
     \/ /\ s.st \in {"E", "M"}
        /\ L2Goes(c, src, [ServedRetry(s, m) EXCEPT !.st = "M"], <<Reply(c, m, "M")>>)
     \/ s.st = "S" /\ L2Becomes(c, src, s, [m EXCEPT !.type = "upgrade"])

\* cgm_mesi_l2_upgrade()
L2Upgrade(c, src, s, m) ==
  /\ L2Takes(c, src, s, m, {"upgrade"})
  /\ \/ s.st = "I" /\ L2Becomes(c, src, s, [m EXCEPT !.type = "getx"])
     \/ /\ s.st = "S"
        /\ L2Goes(c, src, [Pend(s, [m EXCEPT !.n = 0])
                             EXCEPT !.tran = TRUE, !.upg = TRUE, !.row = "open"],
                  <<FromL2(c, "L3", Request("upgrade", c, m.acc))>>)

\* cgm_mesi_l2_write_back() of a block the L1 wrote back.
L2WriteBack(c, src, s, m) ==
  /\ L2Takes(c, src, s, m, {"write_back"})
  /\ L2Goes(c, src, IF s.st = "I" THEN [s EXCEPT !.wb.st = "M"] ELSE [s EXCEPT !.st = "M"], <<>>)

-----------------------------------------------------------------------------
(* Answers of the L3 and of other L2s *)

\* The request is sent to the L3 again; what is on its way now is not stale.
L2Repeats(c, src, s, m, type) ==
  L2Goes(c, src, [s EXCEPT !.row = "open"], <<AskL3(c, m, type)>>)

\* cgm_mesi_l2_get_nack()
L2GetNack(c, src, s, m) ==
  L2Takes(c, src, s, m, {"get_nack"}) /\ L2Repeats(c, src, s, m, "get")

\* cgm_mesi_l2_getx_nack()
L2GetxNack(c, src, s, m) ==
  L2Takes(c, src, s, m, {"getx_nack"}) /\ L2Repeats(c, src, s, m, "getx")

\* cgm_mesi_l2_downgrade_nack(): the row stays as it is.
L2DowngradeNack(c, src, s, m) ==
  /\ L2Takes(c, src, s, m, {"downgrade_nack"})
  /\ L2Goes(c, src, s, <<AskL3(c, m, "get")>>)

\* cgm_mesi_l2_getx_fwd_nack(): an upgrade that lost its block becomes a getx.
L2GetxFwdNack(c, src, s, m) ==
  /\ L2Takes(c, src, s, m, {"getx_fwd_nack"})
  /\ IF s.row = "stale" /\ HasPending(s)
     THEN L2Repeats(c, src, [Without(s, FirstPending(s)) EXCEPT !.upg = FALSE],
                    FirstPending(s), "getx")
     ELSE L2Repeats(c, src, s, m, "getx")

\* The block fills its way.
WithBlock(s, m) == [s EXCEPT !.st = Granted(m.type), !.tran = FALSE, !.upg = FALSE, !.row = "free"]

\* The upgrade that waits for the block.
Upgrade(s) == Head(Pending(s, {"upgrade"}))

\* cgm_mesi_l2_write_block(): the cases of pending_join_bit and
\* pending_upgrade_bit.  The access that waited is retried; the forward that
\* waits for that keeps its downgrade_pending of 1, nothing being coalesced.
L2WriteBlock(c, src, s, m) ==
  /\ L2Takes(c, src, s, m, Puts)
  /\ \/ /\ s.row = "open" /\ ~s.upg /\ m.l3p
        /\ L2Repeats(c, src, s, [m EXCEPT !.l3p = FALSE], L3Request(m))
     \/ /\ s.row = "open" /\ ~s.upg /\ ~m.l3p
        /\ L2Goes(c, src, Again(WithBlock(s, m), RetryOf(m)), <<>>)
     \/ /\ s.row = "stale" /\ ~s.upg /\ HasPending(s)
        /\ L2Goes(c, src, Again(WithBlock(s, m), RetryOf([m EXCEPT !.l3p = FALSE])), <<>>)
     \/ /\ s.row = "stale" /\ ~s.upg /\ ~HasPending(s)
        /\ L2Repeats(c, src, s, m, L3Request(m))
     \/ /\ s.upg
        /\ L2Goes(c, src, Again(Without(WithBlock(s, m), Upgrade(s)),
                                RetryOf(Upgrade(s))), <<>>)

-----------------------------------------------------------------------------
(* Upgrades of a shared block *)

\* cgm_mesi_l2_upgrade_inval(): the requester counts the acknowledgements.
L2UpgradeInval(c, src, s, m) ==
  /\ L2Takes(c, src, s, m, {"upgrade_inval"})
  /\ LET ack == [Request(IF m.st = "M" THEN "upgrade_putx_n" ELSE "upgrade_ack", m.req, "getx")
                   EXCEPT !.n = -1]
     IN L2Goes(c, src, [MarkStale(s) EXCEPT !.st = "I"],
               <<FromL2(c, m.req, ack)>>
               \o (IF s.st = "S" THEN <<ToL1(c, Note("upgrade_inval", c, "I"))>> ELSE <<>>))

\* cgm_mesi_l2_upgrade_nack()
L2UpgradeNack(c, src, s, m) ==
  /\ L2Takes(c, src, s, m, {"upgrade_nack"})
  /\ L2Becomes(c, src, [Without(s, FirstPending(s))
                          EXCEPT !.tran = FALSE, !.upg = FALSE, !.row = "free"],
               [FirstPending(s) EXCEPT !.type = "getx"])

\* The upgrade is complete, p is what its access waits for.
Upgraded(c, s, p) == [s EXCEPT !.st = "M", !.tran = FALSE, !.upg = FALSE, !.row = "free"]
UpgradeReply(c, p) == ToL1(c, [p EXCEPT !.type = IF p.acc = "getx" THEN "putx" ELSE "upgrade_ack"])
Join(s) == LET f == Head(Pending(s, Fwd)) IN Again(Without(s, f), f)

\* Mutant: the L3's count of sharers is not waited for.
L2UpgradeAckEarly(c, src, s, m) ==
  /\ L2Takes(c, src, s, m, {"upgrade_ack"})
  /\ LET up == Upgrade(s)
     IN L2Goes(c, src, Upgraded(c, Without(s, up), up), <<UpgradeReply(c, up)>>)

\* cgm_mesi_l2_upgrade_ack(): the count is complete at zero.
L2UpgradeAck(c, src, s, m) ==
  /\ L2Takes(c, src, s, m, {"upgrade_ack"})
  /\ LET up == Upgrade(s)
         n == up.n + m.n
         rest == Without(s, up)
         stale == s.row = "stale"
     IN \/ /\ n # 0
           /\ L2Goes(c, src, [s EXCEPT !.pend = [i \in DOMAIN @ |-> IF @[i] = up THEN [up EXCEPT !.n = n] ELSE @[i]]], <<>>)
        \/ /\ n = 0 /\ ~stale
           /\ L2Goes(c, src, Upgraded(c, rest, up), <<UpgradeReply(c, up)>>)
        \/ /\ n = 0 /\ stale /\ Pending(s, Fwd) # <<>>
           /\ L2Goes(c, src, Upgraded(c, Join(rest), up), <<UpgradeReply(c, up)>>)
        \/ /\ n = 0 /\ stale /\ Pending(s, Fwd) = <<>> /\ s.st = "I"
           /\ L2Becomes(c, src, [rest EXCEPT !.tran = FALSE, !.upg = FALSE, !.row = "free"],
                        [up EXCEPT !.type = "getx"])

\* cgm_mesi_l2_upgrade_putx_n(): the first to come waits in the buffer and
\* counts.  When the packet with the block comes after an acknowledgement, the
\* packet that counted has been freed when its address is compared with those
\* of the forwards: the comparison may fail (seen is FALSE).
L2UpgradePutxN(c, src, s, m) ==
  /\ L2Takes(c, src, s, m, {"upgrade_putx_n"})
  /\ LET counters == Pending(s, {"upgrade_putx_n"})
     IN \/ counters = <<>> /\ L2Goes(c, src, Pend(s, m), <<>>)
        \/ /\ counters # <<>>
           /\ LET old == Head(counters)
                  both == [(IF m.n >= 0 THEN m ELSE old) EXCEPT !.n = old.n + m.n]
                  rest == Without(s, old)
              IN \/ both.n # 0 /\ L2Goes(c, src, Pend(rest, both), <<>>)
                 \/ /\ both.n = 0
                    /\ \E seen \in BOOLEAN :
                         /\ m.n < 0 => seen
                         /\ LET joins == seen /\ Pending(s, Fwd) # <<>>
                            IN \/ /\ s.row = "stale" /\ ~joins
                                  /\ L2Goes(c, src, [rest EXCEPT !.row = "open"],
                                            <<AskL3(c, both, "getx")>>)
                               \/ /\ s.row = "open" \/ joins
                                  /\ L2Goes(c, src,
                                            Upgraded(c, IF s.row = "stale" THEN Join(rest) ELSE rest, both),
                                            <<UpgradeReply(c, both)>>)

-----------------------------------------------------------------------------
(* Demands of other cores through the L3 *)

\* The block or its writable copy goes to the requester, and the L3 learns of
\* it; "dirty" says whether modified data goes with the acknowledgement.
Handed(c, p, getx, dirty) ==
  <<FromL2(c, p.req, [p EXCEPT !.type = IF getx THEN "putx" ELSE "puts"]),
    FromL2(c, "L3", Note(IF getx THEN "getx_fwd_ack" ELSE "downgrade_ack", p.req,
                         IF dirty THEN "M" ELSE "I"))>>

\* The demand waits for what the L2 has asked for itself, or for the L1; a block
\* ready to be written back is handed over at once; a block the L2 does not have
\* is refused.
Demanded(c, src, s, m, getx) ==
  \/ /\ s.st = "S" \/ (s.st = "I" /\ s.wb.st = "I" /\ s.row # "free")
     /\ L2Goes(c, src, Pend(MarkStale(s), [m EXCEPT !.dgp = 1]), <<>>)
  \/ /\ s.st = "I" /\ s.wb.st # "I" /\ s.wb.fp
     /\ L2Goes(c, src, Pend(s, m), <<>>)
  \/ /\ s.st = "I" /\ s.wb.st # "I" /\ ~s.wb.fp
     /\ L2Goes(c, src, [s EXCEPT !.wb = NoWB], Handed(c, m, getx, s.wb.st = "M"))
  \/ /\ s.st = "I" /\ s.wb.st = "I" /\ s.row = "free"
     /\ LET type == IF getx THEN "getx_fwd_nack" ELSE "downgrade_nack"
        IN L2Goes(c, src, s, <<FromL2(c, m.req, [m EXCEPT !.type = type]),
                               FromL2(c, "L3", Note(type, m.req, "I"))>>)
  \/ /\ s.st \in {"E", "M"}
     /\ L2Goes(c, src, Pend(s, IF getx THEN m ELSE [m EXCEPT !.dgp = 1]),
               <<ToL1(c, Note(IF getx THEN "getx_fwd_inval" ELSE "downgrade", c, "I"))>>)

\* cgm_mesi_l2_get_fwd()
L2GetFwd(c, src, s, m) ==
  L2Takes(c, src, s, m, {"get_fwd"}) /\ Demanded(c, src, s, m, FALSE)

\* cgm_mesi_l2_getx_fwd()
L2GetxFwd(c, src, s, m) ==
  L2Takes(c, src, s, m, {"getx_fwd"}) /\ Demanded(c, src, s, m, TRUE)

\* The first pending packet is answered; the block goes to state st.
Yields(c, src, s, m, getx, st) ==
  L2Goes(c, src, [Without(s, FirstPending(s)) EXCEPT !.st = IF @ = "I" THEN "I" ELSE st,
                                                     !.wb = IF s.st = "I" THEN NoWB ELSE @],
         Handed(c, FirstPending(s), getx, "M" \in {m.st, s.st, s.wb.st}))

\* cgm_mesi_l2_downgrade_ack()
L2DowngradeAck(c, src, s, m) ==
  L2Takes(c, src, s, m, {"downgrade_ack"}) /\ Yields(c, src, s, m, FALSE, "S")

\* Mutant: the L2 keeps the block it hands over for writing.
L2GetxFwdInvalAckKeeps(c, src, s, m) ==
  L2Takes(c, src, s, m, {"getx_fwd_inval_ack"}) /\ Yields(c, src, s, m, TRUE, "S")

\* cgm_mesi_l2_getx_fwd_inval_ack()
L2GetxFwdInvalAck(c, src, s, m) ==
  L2Takes(c, src, s, m, {"getx_fwd_inval_ack"}) /\ Yields(c, src, s, m, TRUE, "I")

\* cgm_mesi_l2_flush_block(): the L3 gives the block up.
L2FlushBlock(c, src, s, m) ==
  /\ L2Takes(c, src, s, m, {"flush_block"})
  /\ LET t == MarkStale(s)
         ack(st) == <<FromL2(c, "L3", Note("flush_block_ack", c, st))>>
         waits(u) == Pend([u EXCEPT !.wb.join = TRUE], m)
     IN \/ /\ s.st = "I" /\ s.wb.st # "I" /\ ~s.wb.fp
           /\ L2Goes(c, src, [t EXCEPT !.wb = NoWB], ack("M"))
        \/ /\ s.st = "I" /\ s.wb.st # "I" /\ s.wb.fp
           /\ L2Goes(c, src, waits(t), <<>>)
        \/ /\ s.st = "I" /\ s.wb.st = "I"
           /\ L2Goes(c, src, t, IF m.st = "S" THEN <<>> ELSE ack("I"))
        \/ /\ s.st \in {"E", "M"}
           /\ L2Goes(c, src, waits(Evicted(t)), <<Flush(c, s)>>)
        \/ /\ s.st = "S"
           /\ L2Goes(c, src, Evicted(t),
                     (IF s.tran /\ s.upg THEN ack("I") ELSE <<>>) \o <<Flush(c, s)>>)

\* cgm_mesi_l2_flush_block_ack(): the L1's answer to the flush.
L2FlushBlockAck(c, src, s, m) ==
  /\ L2Takes(c, src, s, m, {"flush_block_ack"})
  /\ LET dirty == "M" \in {m.st, s.wb.st}
         gone == [s EXCEPT !.wb = NoWB]
         p == FirstPending(s)
     IN \/ s.wb.st = "I" /\ L2Goes(c, src, s, <<>>)
        \/ /\ s.wb.st # "I" /\ ~s.wb.join /\ ~HasPending(s)
           /\ L2Goes(c, src, IF dirty THEN [s EXCEPT !.wb = [NoWB EXCEPT !.st = "M"]] ELSE gone, <<>>)
        \/ /\ s.wb.st # "I" /\ ~s.wb.join /\ HasPending(s)
           /\ L2Goes(c, src, Without(gone, p), Handed(c, p, p.type = "getx_fwd", dirty))
        \/ /\ s.wb.st # "I" /\ s.wb.join
           /\ L2Goes(c, src, Without(gone, p),
                     <<FromL2(c, "L3", Note("flush_block_ack", c, IF dirty THEN "M" ELSE "I"))>>)

-----------------------------------------------------------------------------
(* Evictions and the write-back buffer *)

\* cgm_L2_cache_evict_block(): a miss on another block takes the way.
L2Evict(c) ==
  /\ left.L2 > 0 /\ l2[c].st # "I" /\ ~l2[c].tran /\ l2[c].retry = <<>>
  /\ left' = [left EXCEPT !.L2 = @ - 1]
  /\ l2' = [l2 EXCEPT ![c] = Evicted(l2[c])]
  /\ chan' = Put(chan, <<Flush(c, l2[c])>>)
  /\ UNCHANGED <<l1, l3, unsaved, late>>

\* What cgm_mesi_l2_write_back() asserts of a packet of the buffer.
MayDrain(c) == l2[c].st = "I" /\ L1Flushed(c)

\* cgm_mesi_l2_write_back() of a block in the write-back buffer.
L2Drain(c) ==
  /\ l2[c].wb.st # "I" /\ ~l2[c].wb.fp /\ l2[c].retry = <<>> /\ MayDrain(c)
  /\ l2' = [l2 EXCEPT ![c].wb = NoWB]
  /\ chan' = IF l2[c].wb.st = "M" THEN Put(chan, <<FromL2(c, "L3", Note("write_back", c, "M"))>>)
             ELSE chan
  /\ UNCHANGED <<l1, l3, unsaved, late, left>>

L2Serves(c, src) ==
  /\ src \in L2Sources(c)
  /\ LET m == L2First(c, src)
         s == L2Self(c, src)
     IN \/ L2Get(c, src, s, m) \/ L2Getx(c, src, s, m) \/ L2Upgrade(c, src, s, m)
        \/ L2WriteBack(c, src, s, m) \/ L2GetNack(c, src, s, m) \/ L2GetxNack(c, src, s, m)
        \/ L2DowngradeNack(c, src, s, m) \/ L2GetxFwdNack(c, src, s, m) \/ L2WriteBlock(c, src, s, m)
        \/ L2UpgradeInval(c, src, s, m) \/ L2UpgradeNack(c, src, s, m) \/ L2UpgradeAck(c, src, s, m)
        \/ L2UpgradePutxN(c, src, s, m) \/ L2GetFwd(c, src, s, m) \/ L2GetxFwd(c, src, s, m)
        \/ L2DowngradeAck(c, src, s, m) \/ L2GetxFwdInvalAck(c, src, s, m) \/ L2FlushBlock(c, src, s, m)
        \/ L2FlushBlockAck(c, src, s, m)

L2Next == \E c \in Core : L2Evict(c) \/ L2Drain(c) \/ \E src \in L2Sources(c) : L2Serves(c, src)
=============================================================================
