------------------------------ MODULE L1DSystem ------------------------------
(***************************************************************************)
(* The L1 data cache with its core above it and the L2 below it.  The L2   *)
(* is modelled by what its handlers (cpu_mesi_protocol.c) do to the L1: it *)
(* answers requests at once or after asking the L3, evicts blocks, and     *)
(* hands on what other cores demand through the L3.                        *)
(*                                                                         *)
(* Where an L2 handler calls fatal(), its action is disabled.              *)
(***************************************************************************)
EXTENDS L1DCache

CONSTANTS
  NoRequest,  \* nothing outstanding at the L3
  Ops,        \* bound: the operations the core issues, of "load" and "store"
  Grants,     \* bound: states in which the L3 grants a load, of "S", "E", "M"
  Demands     \* bound: what the L2 does of its own accord, see below

ASSUME L1DSystemAssumption ==
  /\ Ops \subseteq {"load", "store"} /\ Grants \subseteq {"S", "E", "M"}
  /\ Demands \subseteq {"flush_block", "upgrade_inval", "downgrade", "getx_fwd_inval"}

VARIABLES
  up,       \* Tx_queue_top of the L2
  l2,       \* l2[t]: the state of the block in the L2
  l2wb,     \* l2wb[t]: in its write-back buffer, waiting for the L1's answer
  l2fwd,    \* l2fwd[t]: the demand of another core waiting for the L1
  l2miss    \* l2miss[t]: the request waiting for the L3

l2Vars == <<l2, l2wb, l2fwd, l2miss>>
vars == <<cacheVars, up, l2Vars>>

Init ==
  /\ CacheInit
  /\ up = <<>>
  /\ l2 = [t \in Tag |-> "I"]
  /\ l2wb = [t \in Tag |-> FALSE]
  /\ l2fwd = [t \in Tag |-> "none"]
  /\ l2miss = [t \in Tag |-> NoRequest]

-----------------------------------------------------------------------------
(* From the L2 to the L1 *)

ToBottom == {"puts", "put_clnx", "putx", "get_nack", "getx_nack"}

\* l2_cache_up_io_ctrl(): replies and demands go to different queues, each
\* checked against QueueSize with ">".
UpIO ==
  /\ up # <<>>
  /\ LET q == IF Head(up).type \in ToBottom THEN "bot" ELSE "coh"
     IN /\ Len(inq[q]) <= QueueSize
        /\ inq' = [inq EXCEPT ![q] = Append(@, Head(up))]
  /\ up' = Tail(up)
  /\ credit' = credit + 1
  /\ UNCHANGED <<blk, lru, ort, coal, wb, tx, flight, unsaved, l2Vars>>

Reply(m, type) == Request(m, type, m.req, m.way)
PutOf(st) == CASE st = "S" -> "puts" [] st = "E" -> "put_clnx" [] st = "M" -> "putx"
Demand(type, t) == [type |-> type, tag |-> t]

\* A reply for a block whose owner is being asked to downgrade makes the L2
\* take up the waiting demand again: it sends a second downgrade.
Again(t) == IF l2fwd[t] = "downgrade" THEN <<Demand("downgrade", t)>> ELSE <<>>

\* l2_cache_ctrl() stalls while its queue to the L1 is full.
L2Free == Len(up) < QueueSize

\* cache_validate_block_flushed_from_l1(): the L2 looks into the L1.
L1Holds(t) == Present(t) \/ InWB(t)

\* What the L2's handlers assert or check with fatal(): an upgrade is never for
\* a block the L2 owns; dirty data and answers to demands find the block in the
\* L2 or its write-back buffer, and no longer in the L1.
L2May(m) ==
  CASE m.type \in {"get", "getx"} -> TRUE
    [] m.type = "upgrade" -> l2[m.tag] \in {"I", "S"}
    [] m.type = "write_back" ->
         \/ l2[m.tag] \in {"E", "M"} /\ ~L1Holds(m.tag)
         \/ l2[m.tag] = "I" /\ l2wb[m.tag]
    [] m.type = "downgrade_ack" ->
         /\ l2fwd[m.tag] # "none"
         /\ l2[m.tag] \in {"E", "M"} \/ (l2[m.tag] = "I" /\ l2wb[m.tag])
    [] m.type = "getx_fwd_inval_ack" ->
         /\ l2fwd[m.tag] # "none"
         /\ l2[m.tag] \in {"E", "M"} \/ (l2[m.tag] = "I" /\ l2wb[m.tag] /\ ~L1Holds(m.tag))
    [] m.type = "flush_block_ack" -> ~L1Holds(m.tag)

\* The L2 takes the L1's oldest message (l1_d_cache_down_io_ctrl() moves it
\* to the L2's queue in the same order).
Takes(m, types) ==
  /\ L2Free
  /\ tx # <<>> /\ m = Head(tx) /\ m.type \in types /\ L2May(m)
  /\ tx' = Tail(tx)

RestOfCache == <<blk, lru, ort, coal, inq, wb, credit, flight>>

L2Get(m) ==
  /\ Takes(m, {"get"})
  /\ \/ /\ l2[m.tag] = "I" /\ l2wb[m.tag]
        /\ up' = Append(up, Reply(m, "get_nack"))
        /\ UNCHANGED l2miss
     \/ /\ l2[m.tag] = "I" /\ ~l2wb[m.tag]
        /\ l2miss' = [l2miss EXCEPT ![m.tag] = m]
        /\ UNCHANGED up
     \/ /\ l2[m.tag] # "I"
        /\ up' = Append(up, Reply(m, PutOf(l2[m.tag]))) \o Again(m.tag)
        /\ UNCHANGED l2miss
  /\ UNCHANGED <<RestOfCache, unsaved, l2, l2wb, l2fwd>>

L2Getx(m) ==
  /\ Takes(m, {"getx", "upgrade"})
  /\ \/ /\ l2[m.tag] = "I" /\ l2wb[m.tag]
        /\ up' = Append(up, Reply(m, "getx_nack"))
        /\ UNCHANGED <<l2, l2miss>>
     \/ /\ l2[m.tag] = "S" \/ (l2[m.tag] = "I" /\ ~l2wb[m.tag])
        /\ l2miss' = [l2miss EXCEPT ![m.tag] = m]
        /\ UNCHANGED <<up, l2>>
     \/ /\ l2[m.tag] \in {"E", "M"}
        /\ l2' = [l2 EXCEPT ![m.tag] = "M"]
        /\ up' = Append(up, Reply(m, "putx")) \o Again(m.tag)
        /\ UNCHANGED l2miss
  /\ UNCHANGED <<RestOfCache, unsaved, l2wb, l2fwd>>

\* The L3 grants the request.  An upgrade succeeds if the L2 still has the
\* block; otherwise the L2 has asked for the block itself.
L2Answer(t) ==
  /\ L2Free
  /\ l2miss[t] # NoRequest
  /\ LET m == l2miss[t]
     IN \E st \in IF m.req = "get" THEN Grants ELSE {"M"} :
          /\ l2' = [l2 EXCEPT ![t] = st]
          /\ up' = Append(up, Reply(m,
                     IF m.req = "upgrade" /\ l2[t] = "S" THEN "upgrade_ack" ELSE PutOf(st)))
  /\ l2miss' = [l2miss EXCEPT ![t] = NoRequest]
  /\ UNCHANGED <<cacheVars, l2wb, l2fwd>>

L2WriteBack(m) ==
  /\ Takes(m, {"write_back"})
  /\ \/ l2[m.tag] \in {"E", "M"} /\ l2' = [l2 EXCEPT ![m.tag] = "M"]
     \/ l2[m.tag] = "I" /\ UNCHANGED l2
  /\ unsaved' = unsaved \ {m.tag}
  /\ UNCHANGED <<RestOfCache, up, l2wb, l2fwd, l2miss>>

\* downgrade_ack and getx_fwd_inval_ack: the waiting demand is answered with
\* the block, from the cache or from the write-back buffer.
L2ForwardAck(m) ==
  /\ Takes(m, {"downgrade_ack", "getx_fwd_inval_ack"})
  /\ \/ /\ l2[m.tag] \in {"E", "M"}
        /\ l2' = [l2 EXCEPT ![m.tag] = IF m.type = "downgrade_ack" THEN "S" ELSE "I"]
        /\ UNCHANGED l2wb
     \/ /\ l2[m.tag] = "I"
        /\ l2wb' = [l2wb EXCEPT ![m.tag] = FALSE]
        /\ UNCHANGED l2
  /\ l2fwd' = [l2fwd EXCEPT ![m.tag] = "none"]
  /\ unsaved' = IF m.dirty THEN unsaved \ {m.tag} ELSE unsaved
  /\ UNCHANGED <<RestOfCache, up, l2miss>>

\* Without a write-back buffer entry the answer is dropped.
L2FlushAck(m) ==
  /\ Takes(m, {"flush_block_ack"})
  /\ l2wb' = [l2wb EXCEPT ![m.tag] = FALSE]
  /\ l2fwd' = IF l2wb[m.tag] THEN [l2fwd EXCEPT ![m.tag] = "none"] ELSE l2fwd
  /\ unsaved' = IF l2wb[m.tag] /\ m.dirty THEN unsaved \ {m.tag} ELSE unsaved
  /\ UNCHANGED <<RestOfCache, up, l2, l2miss>>

-----------------------------------------------------------------------------
(* What the L2 does of its own accord *)

\* The L1 may hold newer data of a block that is exclusive here.
Waits(t) == l2[t] # "S"

\* cgm_L2_cache_evict_block(), for a victim or for a flush of the L3.
L2Evict(t) ==
  /\ L2Free
  /\ "flush_block" \in Demands
  /\ l2[t] # "I"
  /\ l2' = [l2 EXCEPT ![t] = "I"]
  /\ l2wb' = [l2wb EXCEPT ![t] = Waits(t)]
  /\ up' = Append(up, [type |-> "flush_block", tag |-> t, st |-> l2[t]])
  /\ UNCHANGED <<cacheVars, l2fwd, l2miss>>

\* Another core upgrades a block shared here.
L2UpgradeInval(t) ==
  /\ L2Free
  /\ "upgrade_inval" \in Demands
  /\ l2[t] = "S"
  /\ l2' = [l2 EXCEPT ![t] = "I"]
  /\ up' = Append(up, Demand("upgrade_inval", t))
  /\ UNCHANGED <<cacheVars, l2wb, l2fwd, l2miss>>

\* Another core loads or stores to a block owned here.
L2Forward(t, type) ==
  /\ L2Free
  /\ type \in Demands
  /\ l2[t] \in {"E", "M"} /\ l2fwd[t] = "none"
  /\ l2fwd' = [l2fwd EXCEPT ![t] = type]
  /\ up' = Append(up, Demand(type, t))
  /\ UNCHANGED <<cacheVars, l2, l2wb, l2miss>>

-----------------------------------------------------------------------------

L2Take ==
  tx # <<>> /\ LET m == Head(tx)
               IN L2Get(m) \/ L2Getx(m) \/ L2WriteBack(m) \/ L2ForwardAck(m) \/ L2FlushAck(m)

L2Demand ==
  \E t \in Tag :
    \/ L2Evict(t) \/ L2UpgradeInval(t)
    \/ L2Forward(t, "downgrade") \/ L2Forward(t, "getx_fwd_inval")

Cache == Step /\ UNCHANGED <<up, l2Vars>>

Core == \E a \in Access, op \in Ops, t \in Tag : Issue(a, op, t) /\ UNCHANGED <<up, l2Vars>>

Next == Core \/ Cache \/ UpIO \/ L2Take \/ (\E t \in Tag : L2Answer(t)) \/ L2Demand

Spec == Init /\ [][Next]_vars

\* Every controller is a task that is run again in the next cycle while it has
\* a message; the L3 answers every request.
FairSpec ==
  /\ Spec
  /\ WF_vars(Cache) /\ WF_vars(UpIO) /\ WF_vars(L2Take)
  /\ \A t \in Tag : WF_vars(L2Answer(t))

-----------------------------------------------------------------------------
(* Properties *)

Returned == [id : Access, op : {"load", "store"}, tag : Tag, type : ToBottom \cup {"upgrade_ack"},
             req : {"get", "getx", "upgrade"}, way : Way]
Requested == [id : Access, op : {"load", "store"}, tag : Tag, type : {"get", "getx", "upgrade"},
              req : {"get", "getx", "upgrade"}, way : Way]

ASSUME NoRequestAssumption == NoRequest \notin Requested

FromL2 ==
  Returned
  \cup [type : {"upgrade_inval", "downgrade", "getx_fwd_inval"}, tag : Tag]
  \cup [type : {"flush_block"}, tag : Tag, st : {"S", "E", "M"}]
ToL2 ==
  Requested
  \cup [type : {"write_back"}, tag : Tag]
  \cup [type : {"downgrade_ack", "getx_fwd_inval_ack", "flush_block_ack"}, tag : Tag,
        dirty : BOOLEAN]

\* The types of all variables: among them, every access set aside is marked as
\* coalesced, and a demand of another core is only ever in the coherence queue.
TypeOK ==
  /\ blk \in [Way -> [tag : Tag \cup {NoTag}, st : BlockState, fill : Tag \cup {NoTag}]]
  /\ lru \in [Way -> Way]
  /\ ort \in [Tag -> {"free", "open", "stale"}]
  /\ coal \in Seq({p \in CpuPacket : p.coal})
  /\ DOMAIN inq = Queue
  /\ inq["top"] \in Seq(CpuPacket) /\ inq["retry"] \in Seq(CpuPacket)
  /\ inq["bot"] \in Seq(FromL2) /\ inq["coh"] \in Seq(FromL2)
  /\ wb \in Seq(Tag) /\ tx \in Seq(ToL2) /\ up \in Seq(FromL2)
  /\ credit \in Nat /\ flight \in SUBSET Access /\ unsaved \in SUBSET Tag
  /\ l2 \in [Tag -> BlockState] /\ l2wb \in [Tag -> BOOLEAN]
  /\ l2fwd \in [Tag -> {"none", "downgrade", "getx_fwd_inval"}]
  /\ l2miss \in [Tag -> Requested \cup {NoRequest}]

Holding(s, a) == {i \in DOMAIN s : "id" \in DOMAIN s[i] /\ s[i].id = a}

\* Where the packet of access a is.
Places(a) ==
  Cardinality(Holding(inq["top"], a)) + Cardinality(Holding(inq["bot"], a))
  + Cardinality(Holding(inq["coh"], a)) + Cardinality(Holding(inq["retry"], a))
  + Cardinality(Holding(coal, a)) + Cardinality(Holding(tx, a)) + Cardinality(Holding(up, a))
  + Cardinality({t \in Tag : l2miss[t] # NoRequest /\ l2miss[t].id = a})

\* The one packet of an access is in one place until the access returns, and
\* nowhere afterwards: no load or store is lost, answered twice or freed early.
\* And through retries, coalescing and write-backs the event count has exactly
\* one advance for each message in the queues: with fewer a message would never
\* be served, with more cache_get_message() would find none and fail.
MessagesAccounted ==
  /\ \A a \in Access : Places(a) = IF a \in flight THEN 1 ELSE 0
  /\ credit = Len(inq["top"]) + Len(inq["bot"]) + Len(inq["coh"]) + Len(inq["retry"])

\* Whatever cache_get_message() selects passes the assertions and fatal() checks
\* of its handler.
HandlersDoNotAbort ==
  \A q \in Queue \cup {"wb"} : Waiting(q) /\ Served(q) => May(q, First(q))

\* A block is in one way of the set or once in the write-back buffer, never in
\* both, also while blocks are evicted, taken back and filled.
NoBlockTwice ==
  /\ \A v, w \in Way : blk[v].st # "I" /\ blk[w].st # "I" /\ blk[v].tag = blk[w].tag => v = w
  /\ \A w \in Way : blk[w].st # "I" => ~InWB(blk[w].tag)
  /\ \A i, j \in DOMAIN wb : wb[i] = wb[j] => i = j

Asked(s, t) == {i \in DOMAIN s : s[i].tag = t /\ "req" \in DOMAIN s[i]}

\* The requests for block t on their way to the L2 and back.
Requests(t) ==
  Cardinality(Asked(inq["bot"], t)) + Cardinality(Asked(inq["coh"], t))
  + Cardinality(Asked(tx, t)) + Cardinality(Asked(up, t))
  + (IF l2miss[t] = NoRequest THEN 0 ELSE 1)

\* A row of the ORT is taken exactly while one request for its block is under
\* way or one access to it waits for a way of the set, each request under way has
\* a way of its own waiting for the block, and no way waits for a block that was
\* not asked for: rows and ways neither leak nor are they freed under a request,
\* and an access that waited for a way and is retried finds its row free, so that
\* it is not merged with itself.
RequestsAccounted ==
  /\ \A t \in Tag :
       /\ (IF t \in Rows THEN 1 ELSE 0)
            = Requests(t) + Cardinality({i \in DOMAIN coal : coal[i].tag = t /\ coal[i].conf})
       /\ Cardinality({w \in Way : blk[w].fill = t}) = Requests(t)
  /\ \A i \in DOMAIN inq["retry"] : inq["retry"][i].conf => inq["retry"][i].tag \notin Rows

\* While accesses are set aside somebody is left to pull them: a request is under
\* way, or an access is being retried that pulls the next one when it returns.
\* Only where more accesses wait for a way than the set has ways, each with a row
\* and none with a request, may nobody be left.
SomebodyPulls ==
  coal # <<>> /\ Cardinality(Conflicting) <= Assoc
    => inq["retry"] # <<>> \/ \E t \in Tag : Requests(t) > 0

\* A stored value is in a modified block, in the write-back buffer or on its way
\* to the L2 until the L2 has it.
NoLostStore ==
  \A t \in unsaved :
    \/ StateOf(t) = "M" \/ InWB(t)
    \/ \E i \in DOMAIN tx :
         /\ tx[i].tag = t
         /\ tx[i].type = "write_back" \/ ("dirty" \in DOMAIN tx[i] /\ tx[i].dirty)

\* Every load and store comes back to the core ("we assume that something is
\* going wrong if more than 1M cycles go by without committing an inst").
AccessesReturn == \A a \in Access : a \in flight ~> a \notin flight
=============================================================================
