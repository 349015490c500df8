------------------------------ MODULE L1DCache ------------------------------
(***************************************************************************)
(* The L1 data cache controller of m2s-cgm: message selection and queues   *)
(* of cgm/cache.c, the load, store, fill and invalidation handlers of      *)
(* cgm/cpu_mesi_protocol.c.                                                *)
(*                                                                         *)
(* One cache set is modelled, and every tag of the model maps to it.  A    *)
(* handler reads and writes the cache, the ORT (outstanding request table) *)
(* and the write-back buffer without a pause that another task could use   *)
(* to change them, so each handler is one action.                          *)
(*                                                                         *)
(* A handler whose assertions or fatal() checks fail ends the process: its *)
(* action is disabled, and HandlersDoNotAbort says that this never comes.  *)
(***************************************************************************)
EXTENDS Integers, FiniteSets, SequencesExt

CONSTANTS
  Tag,        \* the block addresses, all of one set
  Access,     \* identities of the accesses a core may have in flight
  NoTag,      \* no block
  Assoc,      \* cache->assoc
  MshrSize,   \* cache->mshr_size, the rows of the ORT
  MaxCoal,    \* cache->max_coal
  QueueSize   \* QueueSize

ASSUME L1DCacheAssumption ==
  /\ IsFiniteSet(Tag) /\ Tag # {} /\ NoTag \notin Tag
  /\ Assoc \in Nat \ {0} /\ MshrSize \in Nat \ {0}
  /\ MaxCoal \in Nat \ {0} /\ QueueSize \in Nat \ {0}

Way == 1 .. Assoc
BlockState == {"I", "S", "E", "M"}

VARIABLES
  blk,      \* blk[w]: tag and state of way w; fill is its transient tag, or NoTag
  lru,      \* lru[i]: the way at place i of the way list, head first
  ort,      \* ort[t]: "free", "open" (join bit 1) or "stale" (join bit 0)
  coal,     \* ort_list: the coalesced accesses
  inq,      \* Rx_queue_top, Rx_queue_bottom, Coherance_Rx_queue, retry_queue
  wb,       \* write_back_buffer: the tags of the dirty blocks in it
  tx,       \* Tx_queue_bottom, to the L2
  credit,   \* the event count's advances not yet consumed: count - step + 1
  flight,   \* accesses issued by the core and not returned
  unsaved   \* history: blocks stored to since the L2 last received them

cacheVars == <<blk, lru, ort, coal, inq, wb, tx, credit, flight, unsaved>>

Queue == {"top", "bot", "coh", "retry"}
Retried == {"load_retry", "store_retry"}

\* What the core sends: cgm_packet_t on its way through Rx_queue_top, the
\* retry queue and ort_list.
CpuPacket ==
  [id : Access, op : {"load", "store"}, tag : Tag,
   type : {"load", "store"} \cup Retried, coal : BOOLEAN, conf : BOOLEAN]

\* The same packet on its way to the L2 and back.  req is l1_access_type and
\* way is l1_victim_way.
Request(m, type, req, w) ==
  [id |-> m.id, op |-> m.op, tag |-> m.tag, type |-> type, req |-> req, way |-> w]

RetryOf(m, coalesced, conflict) ==
  [id |-> m.id, op |-> m.op, tag |-> m.tag,
   type |-> IF m.op = "load" THEN "load_retry" ELSE "store_retry",
   coal |-> coalesced, conf |-> conflict]

Ack(type, t, dirty) == [type |-> type, tag |-> t, dirty |-> dirty]

CacheInit ==
  /\ blk = [w \in Way |-> [tag |-> NoTag, st |-> "I", fill |-> NoTag]]
  /\ lru = [i \in Way |-> i]
  /\ ort = [t \in Tag |-> "free"]
  /\ coal = <<>> /\ wb = <<>> /\ tx = <<>>
  /\ inq = [q \in Queue |-> <<>>]
  /\ credit = 0 /\ flight = {} /\ unsaved = {}

-----------------------------------------------------------------------------
(* The cache set *)

HitWays(t) == {w \in Way : blk[w].st # "I" /\ blk[w].tag = t}
Present(t) == HitWays(t) # {}
WayOf(t) == Min(HitWays(t))
StateOf(t) == IF Present(t) THEN blk[WayOf(t)].st ELSE "I"

InWB(t) == Contains(wb, t)

\* Mutant: a way that waits for a fill may be the victim.
AnyWay == Way

\* The LRU victim: the way nearest the tail that waits for no fill.
Victims == {w \in Way : blk[w].fill = NoTag}
Victim == lru[Max({i \in Way : lru[i] \in Victims})]

\* cgm_cache_get_victim_for_wb(): the first way that waits for no fill.
WBVictim == Min(Victims)

Place(w) == CHOOSE i \in Way : lru[i] = w

MoveToHead(w) ==
  [i \in Way |-> IF i = 1 THEN w ELSE IF i <= Place(w) THEN lru[i - 1] ELSE lru[i]]

\* On a hit the handlers move the tail of the way list to its head.
Touch(t) == lru' = IF Present(t) THEN MoveToHead(lru[Assoc]) ELSE lru

\* Mutant: exclusive blocks are saved and modified ones dropped.
EvictedUnsaved(w) == IF blk[w].st = "E" THEN Append(wb, blk[w].tag) ELSE wb

\* Only a modified victim goes to the write-back buffer.
Evicted(w) == IF blk[w].st = "M" THEN Append(wb, blk[w].tag) ELSE wb

-----------------------------------------------------------------------------
(* The outstanding request table and the coalescer *)

Rows == {t \in Tag : ort[t] # "free"}

\* cache_check_ORT(): the three branches.
Goes(m) == m.conf \/ (ort[m.tag] = "free" /\ Cardinality(Rows) < Assoc)
Conflicts(m) == ~m.conf /\ ort[m.tag] = "free" /\ Cardinality(Rows) >= Assoc
Merges(m) == ~m.conf /\ ort[m.tag] # "free"

\* cache_coalesed_retry() for a block that has just been used: at most one
\* coalesced access moves to the retry queue, one for the same block before
\* one that found no way in the set.
Merged(t) == {i \in DOMAIN coal : coal[i].tag = t}
Conflicting == {i \in DOMAIN coal : coal[i].conf}

NoPull == [ort |-> ort, coal |-> coal, again |-> <<>>]

PullMerged(t) ==
  LET i == Min(Merged(t))
  IN [ort |-> ort, coal |-> RemoveAt(coal, i),
      again |-> <<RetryOf(coal[i], TRUE, coal[i].conf)>>]

\* Mutant: the row of the access set aside is kept.
PullConflictKeepsRow ==
  LET i == Min(Conflicting)
  IN [ort |-> ort, coal |-> RemoveAt(coal, i), again |-> <<RetryOf(coal[i], FALSE, TRUE)>>]

PullConflict ==
  LET i == Min(Conflicting)
  IN [ort |-> [ort EXCEPT ![coal[i].tag] = "free"], coal |-> RemoveAt(coal, i),
      again |-> <<RetryOf(coal[i], FALSE, TRUE)>>]

\* Mutant: only accesses to the same block are pulled.
PullSameBlock(t) == IF Merged(t) # {} THEN PullMerged(t) ELSE NoPull

Pull(t) ==
  IF Merged(t) # {} THEN PullMerged(t)
  ELSE IF Conflicting # {} THEN PullConflict
  ELSE NoPull

\* The message leaves its queue; "again" joins the retry queue.
Dequeue(q, again) ==
  inq' = [[inq EXCEPT ![q] = Tail(@)] EXCEPT !["retry"] = @ \o again]

-----------------------------------------------------------------------------
(* cache_get_message(): which queue is served *)

Blocked ==
  \/ Cardinality(Rows) >= MshrSize
  \/ Len(coal) >= MaxCoal
  \/ Len(wb) >= QueueSize
  \/ Len(inq["retry"]) >= QueueSize
  \/ Len(tx) >= QueueSize

Waiting(q) == IF q = "wb" THEN wb # <<>> ELSE inq[q] # <<>>

Before(q) ==
  IF Blocked
  THEN CASE q = "retry" -> {} [] q = "wb" -> {"retry"}
         [] q = "bot" -> {"retry", "wb"} [] q = "coh" -> {"retry", "wb", "bot"}
  ELSE CASE q = "retry" -> {} [] q = "bot" -> {"retry"}
         [] q = "coh" -> {"retry", "bot"} [] q = "top" -> {"retry", "bot", "coh"}
         [] q = "wb" -> {"retry", "bot", "coh", "top"}

\* l1_d_cache_ctrl() gets a message from q: there is an advance to consume,
\* the bottom queue can be accessed, and no queue with priority holds one.
Served(q) ==
  /\ credit > 0
  /\ Len(tx) < QueueSize
  /\ Blocked => q # "top"
  /\ Waiting(q)
  /\ \A r \in Before(q) : ~Waiting(r)
-----------------------------------------------------------------------------
(* What the handlers assert or check with fatal() *)

\* cache_check_ORT(): not yet coalesced, and the table has a free row.
MayCheck(m) == ~m.coal /\ Cardinality(Rows) < MshrSize

\* A miss that is sent out needs a way for the block to come.
MayMiss(m) == MayCheck(m) /\ (Goes(m) => Victims # {})

\* A hit on a block with a row waits for the upgrade of a shared block.
MayWaitForUpgrade(m) == StateOf(m.tag) = "S" /\ MayCheck(m) /\ ~m.conf

LoadMay(m) ==
  /\ ~Present(m.tag) /\ InWB(m.tag) /\ Victims = {} => MayCheck(m) /\ ~Goes(m)
  /\ ~Present(m.tag) /\ ~InWB(m.tag) => MayMiss(m)
  /\ Present(m.tag) /\ m.tag \in Rows => MayWaitForUpgrade(m)

StoreMay(m) ==
  /\ InWB(m.tag) => ~Present(m.tag)
  /\ ~Present(m.tag) /\ InWB(m.tag) /\ Victims = {} => MayCheck(m) /\ ~Goes(m)
  /\ ~Present(m.tag) /\ ~InWB(m.tag) => MayMiss(m)
  /\ StateOf(m.tag) = "S" => Cardinality(Rows) < MshrSize

FillMay(m) ==
  /\ m.tag \in Rows
  /\ \E w \in Way : blk[w].fill = m.tag
  /\ blk[m.way].fill # NoTag

UpgradeAckMay(m) ==
  /\ StateOf(m.tag) \in {"I", "S"}
  /\ m.tag \in Rows
  /\ ~Present(m.tag) => blk[m.way].fill # NoTag

May(q, m) ==
  CASE q = "wb" -> ~Present(m)
    [] q # "wb" /\ m.type \in {"load", "load_retry"} -> LoadMay(m)
    [] q # "wb" /\ m.type \in {"store", "store_retry"} -> StoreMay(m)
    [] q # "wb" /\ m.type \in {"puts", "put_clnx", "putx"} -> FillMay(m)
    [] q # "wb" /\ m.type \in {"get_nack", "getx_nack"} -> m.tag \in Rows
    [] q # "wb" /\ m.type = "upgrade_ack" -> UpgradeAckMay(m)
    [] q # "wb" /\ m.type = "upgrade_inval" -> StateOf(m.tag) \in {"I", "S"}
    [] q # "wb" /\ m.type \in {"downgrade", "getx_fwd_inval"} -> StateOf(m.tag) # "S"
    [] q # "wb" /\ m.type = "flush_block" ->
         ~Present(m.tag) /\ ~InWB(m.tag) => m.st \in {"S", "E", "M"}

First(q) == IF q = "wb" THEN Head(wb) ELSE Head(inq[q])

\* l1_d_cache_ctrl() dispatches message m of queue q to a handler, which runs
\* to its end.
Handles(q, m, types) ==
  /\ q # "wb" /\ Served(q) /\ m = First(q) /\ m.type \in types /\ May(q, m)

-----------------------------------------------------------------------------
(* Loads and stores *)

\* The access is done; a retried or coalesced one pulls the next.
Return(q, m) ==
  LET r == IF m.type \in Retried \/ m.coal THEN Pull(m.tag) ELSE NoPull
  IN /\ ort' = r.ort /\ coal' = r.coal
     /\ Dequeue(q, r.again)
     /\ credit' = credit - 1 + Len(r.again)
     /\ flight' = flight \ {m.id}

\* Mutant: an access set aside is not marked.
AsideUnmarked(m) == [m EXCEPT !.conf = Conflicts(m)]

\* cache_check_ORT() sets the access aside.
RowAside(m) == IF Conflicts(m) THEN [ort EXCEPT ![m.tag] = "open"] ELSE ort
Aside(m) == [m EXCEPT !.coal = TRUE, !.conf = Conflicts(m)]

Coalesce(q, m) ==
  /\ ~Goes(m)
  /\ ort' = RowAside(m)
  /\ coal' = Append(coal, Aside(m))
  /\ Dequeue(q, <<>>)
  /\ credit' = credit - 1
  /\ UNCHANGED <<blk, wb, tx, flight, unsaved>>

\* A request goes to the L2 and way w waits for the answer.
Send(q, m, type, w) ==
  /\ Goes(m)
  /\ ort' = [ort EXCEPT ![m.tag] = "open"]
  /\ tx' = Append(tx, Request(m, type, type, w))
  /\ Dequeue(q, <<>>)
  /\ credit' = credit - 1
  /\ UNCHANGED <<coal, flight, unsaved>>

\* Neither in the cache nor in the write-back buffer.
Miss(q, m, type) ==
  /\ ~Present(m.tag) /\ ~InWB(m.tag)
  /\ \/ /\ Send(q, m, type, Victim)
        /\ wb' = Evicted(Victim)
        /\ blk' = [blk EXCEPT ![Victim] = [tag |-> NoTag, st |-> "I", fill |-> m.tag]]
        /\ lru' = MoveToHead(Victim)
     \/ Coalesce(q, m) /\ UNCHANGED lru

\* Mutant: the block stays in the write-back buffer.
WBUntaken(t) == Evicted(WBVictim)

WBTaken(t) == RemoveFirst(Evicted(WBVictim), t)

\* The block is taken back from the write-back buffer into way WBVictim, or
\* the access waits because every way waits for a fill.
Reclaim(q, m) ==
  /\ ~Present(m.tag) /\ InWB(m.tag)
  /\ \/ /\ Victims # {}
        /\ wb' = WBTaken(m.tag)
        /\ blk' = [blk EXCEPT ![WBVictim] = [tag |-> m.tag, st |-> "M", fill |-> NoTag]]
        /\ Return(q, m)
        /\ UNCHANGED tx
     \/ Victims = {} /\ Coalesce(q, m)
  /\ UNCHANGED lru

Load(q, m) ==
  /\ Handles(q, m, {"load", "load_retry"})
  /\ \/ Miss(q, m, "get")
     \/ Reclaim(q, m) /\ UNCHANGED unsaved
     \/ /\ Present(m.tag) /\ m.tag \notin Rows
        /\ Return(q, m) /\ Touch(m.tag)
        /\ UNCHANGED <<blk, wb, tx, unsaved>>
     \/ /\ Present(m.tag) /\ m.tag \in Rows
        /\ Coalesce(q, m) /\ Touch(m.tag)

Store(q, m) ==
  /\ Handles(q, m, {"store", "store_retry"})
  /\ \/ Miss(q, m, "getx")
     \/ /\ Reclaim(q, m)
        /\ unsaved' = IF Victims = {} THEN unsaved ELSE unsaved \cup {m.tag}
     \/ /\ StateOf(m.tag) \in {"E", "M"}
        /\ blk' = [blk EXCEPT ![WayOf(m.tag)].st = "M"]
        /\ Return(q, m) /\ Touch(m.tag)
        /\ unsaved' = unsaved \cup {m.tag}
        /\ UNCHANGED <<wb, tx>>
     \/ /\ StateOf(m.tag) = "S"
        /\ LET fresh == [m EXCEPT !.coal = FALSE]
           IN \/ /\ Send(q, fresh, "upgrade", WayOf(m.tag))
                 /\ blk' = [blk EXCEPT ![WayOf(m.tag)].fill = m.tag]
                 /\ UNCHANGED wb
              \/ Coalesce(q, fresh)
        /\ Touch(m.tag)
-----------------------------------------------------------------------------
(* Answers of the L2 *)

\* The state each reply brings (cache_block_state).
Granted(type) == CASE type = "puts" -> "S" [] type = "put_clnx" -> "E" [] type = "putx" -> "M"

\* l1_d_write_block(): the block fills its way and the access is retried,
\* unless an invalidation passed by since the request was sent: then the
\* block is asked for again.
Fill(q, m) ==
  /\ Handles(q, m, {"puts", "put_clnx", "putx"})
  /\ \/ /\ ort[m.tag] = "stale"
        /\ ort' = [ort EXCEPT ![m.tag] = "open"]
        /\ tx' = Append(tx, Request(m, IF m.req = "get" THEN "get" ELSE "getx", m.req, m.way))
        /\ Dequeue(q, <<>>)
        /\ credit' = credit - 1
        /\ UNCHANGED blk
     \/ /\ ort[m.tag] = "open"
        /\ ort' = [ort EXCEPT ![m.tag] = "free"]
        /\ blk' = [blk EXCEPT ![m.way] = [tag |-> m.tag, st |-> Granted(m.type), fill |-> NoTag]]
        /\ Dequeue(q, <<RetryOf(m, FALSE, FALSE)>>)
        /\ UNCHANGED <<tx, credit>>
  /\ UNCHANGED <<lru, coal, wb, flight, unsaved>>

\* load_nack() and store_nack(): ask again.
Nack(q, m) ==
  /\ Handles(q, m, {"get_nack", "getx_nack"})
  /\ tx' = Append(tx, Request(m, IF m.type = "get_nack" THEN "get" ELSE "getx", m.req, m.way))
  /\ Dequeue(q, <<>>)
  /\ credit' = credit - 1
  /\ UNCHANGED <<blk, lru, ort, coal, wb, flight, unsaved>>

UpgradeAck(q, m) ==
  /\ Handles(q, m, {"upgrade_ack"})
  /\ ort' = [ort EXCEPT ![m.tag] = "free"]
  /\ LET w == IF Present(m.tag) THEN WayOf(m.tag) ELSE m.way
     IN blk' = [blk EXCEPT ![w] = [tag |-> m.tag, st |-> "M", fill |-> NoTag]]
  /\ Dequeue(q, <<RetryOf(m, FALSE, FALSE)>>)
  /\ UNCHANGED <<lru, coal, wb, tx, credit, flight, unsaved>>

-----------------------------------------------------------------------------
(* Invalidations and downgrades by the L2 *)

\* An outstanding request for the block must be repeated when it is answered.
MarkStale(t) == ort' = IF t \in Rows THEN [ort EXCEPT ![t] = "stale"] ELSE ort

\* The block in the cache goes to state st.
Lower(t, st) ==
  blk' = IF Present(t)
         THEN [blk EXCEPT ![WayOf(t)] =
                 [tag |-> IF st = "I" THEN NoTag ELSE t, st |-> st, fill |-> @.fill]]
         ELSE blk

Answer(type, t, dirty) == tx' = Append(tx, Ack(type, t, dirty))

Demanded(q, m) ==
  /\ MarkStale(m.tag)
  /\ Dequeue(q, <<>>)
  /\ credit' = credit - 1
  /\ UNCHANGED <<lru, coal, flight, unsaved>>

UpgradeInval(q, m) ==
  /\ Handles(q, m, {"upgrade_inval"})
  /\ Demanded(q, m)
  /\ Lower(m.tag, "I")
  /\ UNCHANGED <<wb, tx>>

\* A block found in the write-back buffer leaves it with the answer.
Downgrade(q, m) ==
  /\ Handles(q, m, {"downgrade"})
  /\ Demanded(q, m)
  /\ Lower(m.tag, "S")
  /\ wb' = IF Present(m.tag) THEN wb ELSE RemoveFirst(wb, m.tag)
  /\ Answer("downgrade_ack", m.tag,
            StateOf(m.tag) = "M" \/ (~Present(m.tag) /\ InWB(m.tag)))

\* For a block in the write-back buffer the answer is first made a dirty one
\* and then overwritten by a clean header.
GetxFwdInval(q, m) ==
  /\ Handles(q, m, {"getx_fwd_inval"})
  /\ Demanded(q, m)
  /\ Lower(m.tag, "I")
  /\ wb' = IF Present(m.tag) THEN wb ELSE RemoveFirst(wb, m.tag)
  /\ Answer("getx_fwd_inval_ack", m.tag, StateOf(m.tag) = "M")

\* The L2 gave the block up.  Nobody waits for an answer when the block was
\* shared; m.st is the state it had in the L2.
FlushBlock(q, m) ==
  /\ Handles(q, m, {"flush_block"})
  /\ Demanded(q, m)
  /\ Lower(m.tag, "I")
  /\ wb' = IF Present(m.tag) THEN wb ELSE RemoveFirst(wb, m.tag)
  /\ IF StateOf(m.tag) = "S" \/ (~Present(m.tag) /\ ~InWB(m.tag) /\ m.st = "S")
     THEN UNCHANGED tx
     ELSE Answer("flush_block_ack", m.tag,
                 StateOf(m.tag) = "M" \/ (~Present(m.tag) /\ InWB(m.tag)))

\* Mutant: step is not decremented again.
WriteBackUncounted ==
  /\ Served("wb") /\ May("wb", Head(wb))
  /\ tx' = Append(tx, [type |-> "write_back", tag |-> Head(wb)])
  /\ wb' = Tail(wb)
  /\ credit' = credit - 1
  /\ UNCHANGED <<blk, lru, ort, coal, inq, flight, unsaved>>

\* l1_d_write_back(): step is decremented again, no advance was made for it.
WriteBack ==
  /\ Served("wb") /\ May("wb", Head(wb))
  /\ tx' = Append(tx, [type |-> "write_back", tag |-> Head(wb)])
  /\ wb' = Tail(wb)
  /\ UNCHANGED <<blk, lru, ort, coal, inq, credit, flight, unsaved>>

-----------------------------------------------------------------------------
(* The core: cgm_can_issue_access(), cgm_issue_lspq_access() *)

Issue(a, op, t) ==
  /\ a \notin flight
  /\ Len(inq["top"]) < QueueSize
  /\ inq' = [inq EXCEPT !["top"] =
                Append(@, [id |-> a, op |-> op, tag |-> t, type |-> op,
                           coal |-> FALSE, conf |-> FALSE])]
  /\ credit' = credit + 1
  /\ flight' = flight \cup {a}
  /\ UNCHANGED <<blk, lru, ort, coal, wb, tx, unsaved>>

\* One turn of l1_d_cache_ctrl().
Step ==
  \/ WriteBack
  \/ \E q \in Queue : Waiting(q) /\
       LET m == First(q)
       IN \/ Load(q, m) \/ Store(q, m) \/ Fill(q, m) \/ Nack(q, m) \/ UpgradeAck(q, m)
          \/ UpgradeInval(q, m) \/ Downgrade(q, m) \/ GetxFwdInval(q, m)
          \/ FlushBlock(q, m)
=============================================================================
