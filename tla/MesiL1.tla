------------------------------- MODULE MesiL1 -------------------------------
(***************************************************************************)
(* The L1 data cache of one core as Mesi needs it: the handlers of module  *)
(* L1DCache for one block and one access at a time.  A fill and the retry  *)
(* of the access that follows it, first in the retry queue, are one step.  *)
(***************************************************************************)
EXTENDS Mesi

L1Quiet == UNCHANGED <<l2, l3, late>>

\* The access of core c has begun and is in its L1.
Begin(c, op) ==
  /\ op \in Ops /\ l1[c].op = "none" /\ left.acc > 0
  /\ left' = [left EXCEPT !.acc = @ - 1]

Ask(c, op, type) ==
  /\ l1' = [l1 EXCEPT ![c].fill = TRUE, ![c].row = "open", ![c].op = op]
  /\ chan' = Put(chan, <<ToL2(c, Request(type, c, type))>>)
  /\ UNCHANGED unsaved

\* A block in the write-back buffer is taken back into the cache.
TakeBack(c) == IF l1[c].wb THEN [l1[c] EXCEPT !.st = "M", !.wb = FALSE] ELSE l1[c]

\* cgm_mesi_load(); a hit in the cache alone changes nothing.
Load(c) ==
  /\ Begin(c, "load") /\ l1[c].st = "I" /\ L1Quiet
  /\ IF l1[c].wb
     THEN l1' = [l1 EXCEPT ![c] = TakeBack(c)] /\ UNCHANGED <<chan, unsaved>>
     ELSE Ask(c, "load", "get")

\* cgm_mesi_store()
Store(c) ==
  /\ Begin(c, "store") /\ L1Quiet
  /\ IF l1[c].st \in {"E", "M"} \/ l1[c].wb
     THEN /\ l1' = [l1 EXCEPT ![c] = [TakeBack(c) EXCEPT !.st = "M"]]
          /\ unsaved' = TRUE /\ UNCHANGED chan
     ELSE Ask(c, "store", IF l1[c].st = "S" THEN "upgrade" ELSE "getx")

\* A miss on another block takes the way.
L1Evict(c) ==
  /\ left.L1 > 0 /\ l1[c].st # "I" /\ ~l1[c].fill
  /\ left' = [left EXCEPT !.L1 = @ - 1]
  /\ l1' = [l1 EXCEPT ![c].st = "I", ![c].wb = (l1[c].st = "M")]
  /\ L1Quiet /\ UNCHANGED <<chan, unsaved>>

\* cgm_mesi_l1_d_write_back()
L1WriteBack(c) ==
  /\ l1[c].wb /\ l1[c].st = "I"
  /\ l1' = [l1 EXCEPT ![c].wb = FALSE]
  /\ chan' = Put(chan, <<ToL2(c, Note("write_back", c, "M"))>>)
  /\ L1Quiet /\ UNCHANGED <<unsaved, left>>

-----------------------------------------------------------------------------
(* What comes from the L2 *)

\* The replies have a queue of their own, which is served first.
ToBottom == Puts \cup {"get_nack", "getx_nack"}
NextUp(c) ==
  LET q == chan[<<"up", c>>]
  IN {i \in DOMAIN q : i = 1 \/ ("L1" \in Overtakes /\ q[i].type \in ToBottom
                                  /\ \A j \in 1 .. i - 1 : q[j].type \notin ToBottom)}

\* What the handlers assert or check with fatal().
L1May(c, m) ==
  CASE m.type \in Puts -> l1[c].row # "free" /\ l1[c].fill
    [] m.type \in {"get_nack", "getx_nack"} -> l1[c].row # "free"
    [] m.type = "upgrade_ack" -> /\ l1[c].st \in {"I", "S"} /\ l1[c].row # "free"
                                 /\ l1[c].st = "I" => l1[c].fill
    [] m.type = "upgrade_inval" -> l1[c].st \in {"I", "S"}
    [] m.type \in {"downgrade", "getx_fwd_inval"} -> l1[c].st # "S"
    [] m.type = "flush_block" -> TRUE

\* Late: a block passes the flush of the copy before it.
PassesFlush(c, i) == \E j \in 1 .. i - 1 : chan[<<"up", c>>][j].type = "flush_block"

L1Takes(c, i, m, types) ==
  /\ i \in NextUp(c) /\ m = chan[<<"up", c>>][i] /\ m.type \in types /\ L1May(c, m)
  /\ late' = (late \/ PassesFlush(c, i))
  /\ UNCHANGED <<l2, l3, left>>

Taken(c, i) == [chan EXCEPT ![<<"up", c>>] = RemoveAt(@, i)]

\* The block comes in state st and the waiting access is retried: a store that
\* finds it shared asks for an upgrade.
Filled(c, i, st) ==
  LET done == [l1[c] EXCEPT !.st = st, !.fill = FALSE, !.row = "free", !.op = "none"]
      shared == l1[c].op = "store" /\ st = "S"
  IN /\ l1' = [l1 EXCEPT ![c] = IF shared THEN [@ EXCEPT !.st = "S", !.row = "open"]
                                ELSE IF @.op = "store" THEN [done EXCEPT !.st = "M"] ELSE done]
     /\ chan' = Put(Taken(c, i), IF shared THEN <<ToL2(c, Request("upgrade", c, "upgrade"))>> ELSE <<>>)
     /\ unsaved' = (unsaved \/ (l1[c].op = "store" /\ ~shared))

AskAgain(c, i, m, type) ==
  /\ chan' = Put(Taken(c, i), <<ToL2(c, [m EXCEPT !.type = type])>>)
  /\ UNCHANGED unsaved

\* cgm_mesi_l1_d_write_block(): a block that was invalidated on its way is
\* asked for again.
L1Fill(c, i, m) ==
  /\ L1Takes(c, i, m, Puts)
  /\ \/ l1[c].row = "open" /\ Filled(c, i, Granted(m.type))
     \/ /\ l1[c].row = "stale"
        /\ l1' = [l1 EXCEPT ![c].row = "open"]
        /\ AskAgain(c, i, m, IF m.acc = "get" THEN "get" ELSE "getx")

\* cgm_mesi_load_nack()
L1LoadNack(c, i, m) ==
  L1Takes(c, i, m, {"get_nack"}) /\ AskAgain(c, i, m, "get") /\ UNCHANGED l1

\* cgm_mesi_store_nack()
L1StoreNack(c, i, m) ==
  L1Takes(c, i, m, {"getx_nack"}) /\ AskAgain(c, i, m, "getx") /\ UNCHANGED l1

\* cgm_mesi_l1_d_upgrade_ack()
L1UpgradeAck(c, i, m) ==
  L1Takes(c, i, m, {"upgrade_ack"}) /\ Filled(c, i, "M")

\* An answer on its way down is made stale; the block goes to state st.
Lowered(c, st) ==
  [l1[c] EXCEPT !.st = IF @ = "I" THEN "I" ELSE st, !.row = IF @ = "free" THEN @ ELSE "stale"]

\* cgm_mesi_l1_d_upgrade_inval()
L1UpgradeInval(c, i, m) ==
  /\ L1Takes(c, i, m, {"upgrade_inval"})
  /\ l1' = [l1 EXCEPT ![c] = Lowered(c, "I")]
  /\ chan' = Taken(c, i) /\ UNCHANGED unsaved

Dirty(c) == l1[c].st = "M" \/ (l1[c].st = "I" /\ l1[c].wb)

\* The block goes to state st and, unless silent, an answer to the L2, with
\* which a block in the write-back buffer leaves it.
Answers(c, i, type, st, dirty, silent) ==
  /\ l1' = [l1 EXCEPT ![c] = [Lowered(c, st) EXCEPT !.wb = @ /\ l1[c].st # "I"]]
  /\ chan' = IF silent THEN Taken(c, i)
             ELSE Put(Taken(c, i), <<ToL2(c, Note(type, c, IF dirty THEN "M" ELSE "I"))>>)
  /\ UNCHANGED unsaved

\* cgm_mesi_l1_d_downgrade()
L1Downgrade(c, i, m) ==
  /\ L1Takes(c, i, m, {"downgrade"})
  /\ Answers(c, i, "downgrade_ack", "S", Dirty(c), FALSE)

\* cgm_mesi_l1_d_getx_fwd_inval(): clean for a block in the write-back buffer.
L1GetxFwdInval(c, i, m) ==
  /\ L1Takes(c, i, m, {"getx_fwd_inval"})
  /\ Answers(c, i, "getx_fwd_inval_ack", "I", l1[c].st = "M", FALSE)

\* cgm_mesi_l1_d_flush_block(): a block that is shared is not answered for.
L1FlushBlock(c, i, m) ==
  /\ L1Takes(c, i, m, {"flush_block"})
  /\ Answers(c, i, "flush_block_ack", "I", Dirty(c),
             l1[c].st = "S" \/ (l1[c].st = "I" /\ ~l1[c].wb /\ m.st = "S"))

L1Serves(c) ==
  \E i \in NextUp(c) :
    LET m == chan[<<"up", c>>][i]
    IN \/ L1Fill(c, i, m) \/ L1LoadNack(c, i, m) \/ L1StoreNack(c, i, m)
       \/ L1UpgradeAck(c, i, m) \/ L1UpgradeInval(c, i, m) \/ L1Downgrade(c, i, m)
       \/ L1GetxFwdInval(c, i, m) \/ L1FlushBlock(c, i, m)

L1Next == \E c \in Core : Load(c) \/ Store(c) \/ L1Evict(c) \/ L1WriteBack(c) \/ L1Serves(c)
=============================================================================
