-------------------------- MODULE L1DSystemProofs --------------------------
(***************************************************************************)
(* Proofs about the L1 data cache of cgm/cache.c and its handlers in       *)
(* cgm/cpu_mesi_protocol.c, for every number of blocks, accesses, ways,    *)
(* ORT rows and queue places and whatever the L2 answers and demands: no   *)
(* access is lost or returned twice, every ORT row and every waiting way   *)
(* belongs to one request, and no block is held twice.                     *)
(*                                                                         *)
(* A message changes its form as it goes from queue to queue.  Total(P)    *)
(* counts the messages of a set P in all queues, in the coalescer and at   *)
(* the L3, and each step is a lemma about that number.                     *)
(***************************************************************************)
EXTENDS L1DSystem, SequenceCounts, TLAPS

\* What the queues hold: what the core sends and what is retried, replies, and
\* what the L2 demands.
Fresh == {p \in CpuPacket : p.type = p.op /\ p.coal = FALSE /\ p.conf = FALSE}
RetriedPacket == {p \in CpuPacket : p.type \in Retried}
Bottom == {p \in Returned : p.type \in ToBottom}
Coherence == {p \in FromL2 : p.type \notin ToBottom}
Parked == {p \in CpuPacket : p.coal}

Shapes ==
  /\ TypeOK
  /\ inq["top"] \in Seq(Fresh) /\ inq["retry"] \in Seq(RetriedPacket)
  /\ inq["bot"] \in Seq(Bottom) /\ inq["coh"] \in Seq(Coherence)
  /\ \A t \in Tag : l2miss[t] # NoRequest => l2miss[t].tag = t

Packets == CpuPacket \cup Returned \cup Requested

\* The packets of an access, the requests for a block, those that reserve way w
\* for it, and the accesses to it that wait for a way.
Ids(a) == {p \in Packets : p.id = a}
Asks(t) == {p \in Returned \cup Requested : p.tag = t}
AsksFor(t, w) == {p \in Returned \cup Requested : p.tag = t /\ p.way = w}
Confs(t) == {p \in CpuPacket : p.tag = t /\ p.conf}

\* A set of packets that an access does not enter or leave as its packet is
\* answered, sent again, set aside or retried.
Kind(P) ==
  /\ P \subseteq Packets
  /\ \A p, r \in CpuPacket : p.id = r.id => (p \in P <=> r \in P)
  /\ \A p, r \in Returned \cup Requested :
       p.id = r.id /\ p.tag = r.tag /\ p.way = r.way => (p \in P <=> r \in P)

Queued(P) == In(inq["top"], P) + In(inq["bot"], P) + In(inq["coh"], P) + In(inq["retry"], P)
Missing(P) == Cardinality({t \in Tag : l2miss[t] # NoRequest /\ l2miss[t] \in P})
Total(P) == Queued(P) + In(coal, P) + In(tx, P) + In(up, P) + Missing(P)
Length == Len(inq["top"]) + Len(inq["bot"]) + Len(inq["coh"]) + Len(inq["retry"])

-----------------------------------------------------------------------------

\* An access keeps its identity through every change of its packet.
LEMMA KindIds == \A a : Kind(Ids(a))
BY DEF Kind, Ids, Packets, CpuPacket, Returned, Requested

LEMMA KindAsks == \A t : Kind(Asks(t))
BY DEF Kind, Asks, Packets, CpuPacket, Returned, Requested

LEMMA KindAsksFor == \A t, w : Kind(AsksFor(t, w))
BY DEF Kind, AsksFor, Packets, CpuPacket, Returned, Requested

\* Demands of the L2 and answers to them are no packets of an access.
LEMMA NotPackets ==
  /\ \A x, t : [type |-> x, tag |-> t] \notin Packets
  /\ \A x, t, y : [type |-> x, tag |-> t, st |-> y] \notin Packets
  /\ \A x, t, y : [type |-> x, tag |-> t, dirty |-> y] \notin Packets
BY DEF Packets, CpuPacket, Returned, Requested

\* What each queue holds.
LEMMA QueueTypes ==
  ASSUME Shapes
  PROVE  /\ DOMAIN inq = Queue
         /\ inq["top"] \in Seq(Fresh) /\ inq["retry"] \in Seq(RetriedPacket)
         /\ inq["bot"] \in Seq(Bottom) /\ inq["coh"] \in Seq(Coherence)
         /\ coal \in Seq(Parked) /\ tx \in Seq(ToL2) /\ up \in Seq(FromL2) /\ wb \in Seq(Tag)
         /\ l2miss \in [Tag -> Requested \cup {NoRequest}]
BY DEF Shapes, TypeOK, Parked

\* The L3 works on finitely many requests.
LEMMA MissingFacts ==
  ASSUME NEW P
  PROVE  IsFiniteSet({t \in Tag : l2miss[t] # NoRequest /\ l2miss[t] \in P}) /\ Missing(P) \in Nat
<1> DEFINE D == {t \in Tag : l2miss[t] # NoRequest /\ l2miss[t] \in P}
<1>1. IsFiniteSet(Tag) /\ D \in SUBSET Tag
  BY L1DCacheAssumption
<1>2. IsFiniteSet(D)
  BY <1>1, FS_Subset
<1> QED
  BY <1>2, FS_CardinalityType DEF Missing

\* Every count is a natural number.
LEMMA TotalNats ==
  ASSUME Shapes, NEW P
  PROVE  /\ In(inq["top"], P) \in Nat /\ In(inq["bot"], P) \in Nat /\ In(inq["coh"], P) \in Nat
         /\ In(inq["retry"], P) \in Nat /\ In(coal, P) \in Nat /\ In(tx, P) \in Nat
         /\ In(up, P) \in Nat /\ Missing(P) \in Nat /\ Queued(P) \in Nat /\ Total(P) \in Nat
<1>1. /\ In(inq["top"], P) \in Nat /\ In(inq["bot"], P) \in Nat /\ In(inq["coh"], P) \in Nat
      /\ In(inq["retry"], P) \in Nat /\ In(coal, P) \in Nat /\ In(tx, P) \in Nat
      /\ In(up, P) \in Nat
  BY QueueTypes, InType
<1>2. Queued(P) \in Nat
  BY <1>1 DEF Queued
<1>3. Missing(P) \in Nat
  BY MissingFacts
<1> QED
  BY <1>1, <1>2, <1>3 DEF Total

LEMMA LengthNats ==
  ASSUME Shapes
  PROVE  /\ Len(inq["top"]) \in Nat /\ Len(inq["bot"]) \in Nat /\ Len(inq["coh"]) \in Nat
         /\ Len(inq["retry"]) \in Nat /\ Length \in Nat
<1>1. /\ Len(inq["top"]) \in Nat /\ Len(inq["bot"]) \in Nat /\ Len(inq["coh"]) \in Nat
      /\ Len(inq["retry"]) \in Nat
  BY QueueTypes, LenFacts
<1>2. \A a, b, c, d \in Nat : a + b + c + d \in Nat
  OBVIOUS
<1> QED
  BY <1>1, <1>2 DEF Length

\* One is at most the other.
LEMMA TotalSubset ==
  ASSUME Shapes, NEW P, NEW R, P \subseteq R
  PROVE  Total(P) <= Total(R)
<1>1. /\ In(inq["top"], P) <= In(inq["top"], R) /\ In(inq["bot"], P) <= In(inq["bot"], R)
      /\ In(inq["coh"], P) <= In(inq["coh"], R) /\ In(inq["retry"], P) <= In(inq["retry"], R)
      /\ In(coal, P) <= In(coal, R) /\ In(tx, P) <= In(tx, R) /\ In(up, P) <= In(up, R)
  BY QueueTypes, InSubset
<1>2. Missing(P) <= Missing(R)
  <2> DEFINE D(Q) == {t \in Tag : l2miss[t] # NoRequest /\ l2miss[t] \in Q}
  <2>1. D(P) \in SUBSET D(R) /\ IsFiniteSet(D(R))
    BY MissingFacts
  <2> HIDE DEF D
  <2>2. Cardinality(D(P)) <= Cardinality(D(R))
    BY <2>1, FS_Subset
  <2> QED
    BY <2>2 DEF D, Missing
<1>3. /\ In(inq["top"], P) \in Nat /\ In(inq["bot"], P) \in Nat /\ In(inq["coh"], P) \in Nat
      /\ In(inq["retry"], P) \in Nat /\ In(coal, P) \in Nat /\ In(tx, P) \in Nat
      /\ In(up, P) \in Nat /\ Missing(P) \in Nat
  BY TotalNats
<1>4. /\ In(inq["top"], R) \in Nat /\ In(inq["bot"], R) \in Nat /\ In(inq["coh"], R) \in Nat
      /\ In(inq["retry"], R) \in Nat /\ In(coal, R) \in Nat /\ In(tx, R) \in Nat
      /\ In(up, R) \in Nat /\ Missing(R) \in Nat
  BY TotalNats
<1>5. Queued(P) <= Queued(R) /\ Queued(P) \in Nat /\ Queued(R) \in Nat
  BY <1>1, <1>3, <1>4 DEF Queued
<1> QED
  BY <1>1, <1>2, <1>3, <1>4, <1>5 DEF Total

\* No packet of the core asks the L2.
LEMMA NoCoreAsks ==
  ASSUME Shapes, NEW P, P \subseteq Returned \cup Requested
  PROVE  /\ In(inq["top"], P) = 0 /\ In(inq["retry"], P) = 0 /\ In(coal, P) = 0
<1>1. \A p \in CpuPacket : p \notin P
  BY DEF CpuPacket, Returned, Requested
<1>2. /\ \A i \in DOMAIN inq["top"] : inq["top"][i] \in Fresh
      /\ \A i \in DOMAIN inq["retry"] : inq["retry"][i] \in RetriedPacket
      /\ \A i \in DOMAIN coal : coal[i] \in Parked
  BY QueueTypes
<1>3. /\ \A i \in DOMAIN inq["top"] : inq["top"][i] \notin P
      /\ \A i \in DOMAIN inq["retry"] : inq["retry"][i] \notin P
      /\ \A i \in DOMAIN coal : coal[i] \notin P
  BY <1>1, <1>2 DEF Fresh, RetriedPacket, Parked
<1> QED
  BY <1>3, QueueTypes, InType

-----------------------------------------------------------------------------
(* The controller takes a message *)

\* At most one access is retried at a time, and the ORT row of its block is free.
RetryFree ==
  /\ Len(inq["retry"]) <= 1
  /\ \A i \in DOMAIN inq["retry"] : inq["retry"][i].tag \notin Rows

\* m is the message that the controller takes from q.
Taken(q, m) ==
  /\ q \in Queue /\ inq[q] # <<>> /\ m = Head(inq[q])
  /\ q # "retry" => inq["retry"] = <<>>

\* The message that a handler works on is the first of its queue.
LEMMA HandlesTakes ==
  ASSUME Shapes, NEW q \in Queue, NEW m, NEW types, Handles(q, m, types)
  PROVE  Taken(q, m) /\ m.type \in types /\ May(q, m) /\ q # "wb"
<1>1. q # "wb" /\ Served(q) /\ m = First(q) /\ m.type \in types /\ May(q, m)
  BY DEF Handles
<1>2. inq[q] # <<>> /\ m = Head(inq[q])
  BY <1>1 DEF Served, Waiting, First
<1>3. ASSUME q # "retry" PROVE inq["retry"] = <<>>
  <2>1. "retry" \in Before(q)
    BY <1>1, <1>3 DEF Served, Before, Queue
  <2> QED
    BY <1>1, <2>1 DEF Served, Waiting
<1> QED
  BY <1>1, <1>2, <1>3 DEF Taken

\* What the message is, by its queue.
LEMMA TakenPacket ==
  ASSUME Shapes, RetryFree, NEW q, NEW m, Taken(q, m)
  PROVE  /\ q = "top" => m \in Fresh
         /\ q = "bot" => m \in Bottom
         /\ q = "coh" => m \in Coherence
         /\ q = "retry" => m \in RetriedPacket /\ m.tag \notin Rows /\ Len(inq["retry"]) = 1
         /\ q # "retry" => Len(inq["retry"]) = 0
<1>1. q \in Queue /\ inq[q] # <<>> /\ m = Head(inq[q]) /\ (q # "retry" => inq["retry"] = <<>>)
  BY DEF Taken
<1>2. /\ inq["top"] \in Seq(Fresh) /\ inq["retry"] \in Seq(RetriedPacket)
      /\ inq["bot"] \in Seq(Bottom) /\ inq["coh"] \in Seq(Coherence)
  BY QueueTypes
<1>3. CASE q = "top"
  BY <1>1, <1>2, <1>3, HeadAndTail, EmptySeq
<1>4. CASE q = "bot"
  BY <1>1, <1>2, <1>4, HeadAndTail, EmptySeq
<1>5. CASE q = "coh"
  BY <1>1, <1>2, <1>5, HeadAndTail, EmptySeq
<1>6. CASE q = "retry"
  <2>1. inq["retry"] # <<>> /\ m = Head(inq["retry"])
    BY <1>1, <1>6
  <2>2. m \in RetriedPacket
    BY <1>2, <2>1, HeadAndTail
  <2>3. Len(inq["retry"]) = 1
    <3>1. Len(inq["retry"]) \in Nat /\ Len(inq["retry"]) # 0
      BY <1>2, <2>1, LenFacts
    <3>2. Len(inq["retry"]) <= 1
      BY DEF RetryFree
    <3> QED
      BY <3>1, <3>2, One
  <2>4. 1 \in DOMAIN inq["retry"] /\ m = inq["retry"][1]
    BY <1>2, <2>1, <2>3, LenProperties
  <2> QED
    BY <1>6, <2>2, <2>3, <2>4 DEF RetryFree
<1> QED
  BY <1>1, <1>3, <1>4, <1>5, <1>6 DEF Queue

LEMMA RestOf ==
  ASSUME NEW S, NEW s \in Seq(S), s # <<>>
  PROVE  /\ Head(s) \in S /\ Tail(s) \in Seq(S)
         /\ Len(s) \in Nat /\ Len(Tail(s)) \in Nat /\ Len(s) = Len(Tail(s)) + 1
<1>1. Head(s) \in S /\ Tail(s) \in Seq(S)
  BY HeadAndTail
<1>2. Len(s) \in Nat /\ Len(Tail(s)) = Len(s) - 1
  BY LenFacts, HeadTailProperties
<1> QED
  BY <1>1, <1>2, LenFacts

\* The queues after a message is served.
LEMMA Dequeued ==
  ASSUME Shapes, RetryFree, NEW q, NEW m, Taken(q, m),
         NEW again \in Seq(RetriedPacket), Dequeue(q, again)
  PROVE  /\ DOMAIN inq' = Queue /\ inq'["retry"] = again
         /\ q # "retry" => inq'[q] = Tail(inq[q])
         /\ \A r \in Queue : r # q /\ r # "retry" => inq'[r] = inq[r]
         /\ q = "retry" => Tail(inq["retry"]) = <<>>
<1>1. /\ DOMAIN inq' = Queue
      /\ q # "retry" => inq'["retry"] = inq["retry"] \o again /\ inq'[q] = Tail(inq[q])
      /\ q = "retry" => inq'["retry"] = Tail(inq["retry"]) \o again
      /\ \A r \in Queue : r # q /\ r # "retry" => inq'[r] = inq[r]
  BY QueueTypes DEF Dequeue, Queue, Taken
<1>2. <<>> \o again = again
  BY ConcatEmptySeq
<1>3. CASE q = "retry"
  <2>1. Len(inq["retry"]) = 1 /\ inq["retry"] # <<>> /\ inq["retry"] \in Seq(RetriedPacket)
    BY <1>3, TakenPacket, QueueTypes DEF Taken
  <2>2. Len(Tail(inq["retry"])) = 0 /\ Tail(inq["retry"]) \in Seq(RetriedPacket)
    BY <2>1, RestOf
  <2>3. Tail(inq["retry"]) = <<>>
    BY <2>2, LenFacts
  <2> QED
    BY <1>1, <1>2, <1>3, <2>3
<1>4. CASE q # "retry"
  <2>1. inq["retry"] = <<>>
    BY <1>4 DEF Taken
  <2> QED
    BY <1>1, <1>2, <1>4, <2>1
<1> QED
  BY <1>3, <1>4

LEMMA DequeuedTypes ==
  ASSUME Shapes, RetryFree, NEW q, NEW m, Taken(q, m),
         NEW again \in Seq(RetriedPacket), Dequeue(q, again)
  PROVE  /\ inq'["top"] \in Seq(Fresh) /\ inq'["retry"] \in Seq(RetriedPacket)
         /\ inq'["bot"] \in Seq(Bottom) /\ inq'["coh"] \in Seq(Coherence)
         /\ Length' = Length - 1 + Len(again) /\ Length' \in Nat
<1> DEFINE a == inq["top"]
           b == inq["bot"]
           c == inq["coh"]
           d == inq["retry"]
<1>1. /\ inq'["retry"] = again
      /\ q # "retry" => inq'[q] = Tail(inq[q])
      /\ \A r \in Queue : r # q /\ r # "retry" => inq'[r] = inq[r]
  BY Dequeued
<1>2. /\ a \in Seq(Fresh) /\ d \in Seq(RetriedPacket) /\ b \in Seq(Bottom) /\ c \in Seq(Coherence)
  BY QueueTypes
<1>3. q \in Queue /\ inq[q] # <<>> /\ "top" \in Queue /\ "bot" \in Queue /\ "coh" \in Queue
  BY DEF Taken, Queue
<1>4. Len(again) \in Nat
  BY LenFacts
<1>5. Len(a) \in Nat /\ Len(b) \in Nat /\ Len(c) \in Nat /\ Len(d) \in Nat
  BY LengthNats
<1>6. (q = "retry" => Len(d) = 1) /\ (q # "retry" => Len(d) = 0)
  BY TakenPacket
<1>7. CASE q = "retry"
  <2>1. inq'["top"] = a /\ inq'["bot"] = b /\ inq'["coh"] = c
    BY <1>1, <1>3, <1>7
  <2>2. Length' = Len(a) + Len(b) + Len(c) + Len(again) /\ Length = Len(a) + Len(b) + Len(c) + 1
    BY <1>1, <1>6, <1>7, <2>1 DEF Length
  <2> HIDE DEF a, b, c, d
  <2>3. Length' = Length - 1 + Len(again) /\ Length' \in Nat
    BY <1>4, <1>5, <2>2
  <2> QED
    BY <1>1, <1>2, <2>1, <2>3
<1>8. CASE q = "top"
  <2>1. inq'["top"] = Tail(a) /\ inq'["bot"] = b /\ inq'["coh"] = c
    BY <1>1, <1>3, <1>8
  <2>2. Tail(a) \in Seq(Fresh) /\ Len(a) = Len(Tail(a)) + 1 /\ Len(Tail(a)) \in Nat
    BY <1>2, <1>3, <1>8, RestOf
  <2>3. /\ Length' = Len(Tail(a)) + Len(b) + Len(c) + Len(again)
        /\ Length = Len(a) + Len(b) + Len(c) + 0
    BY <1>1, <1>6, <1>8, <2>1 DEF Length
  <2> HIDE DEF a, b, c, d
  <2>4. Length' = Length - 1 + Len(again) /\ Length' \in Nat
    BY <1>4, <1>5, <2>2, <2>3
  <2> QED
    BY <1>1, <1>2, <2>1, <2>2, <2>4
<1>9. CASE q = "bot"
  <2>1. inq'["top"] = a /\ inq'["bot"] = Tail(b) /\ inq'["coh"] = c
    BY <1>1, <1>3, <1>9
  <2>2. Tail(b) \in Seq(Bottom) /\ Len(b) = Len(Tail(b)) + 1 /\ Len(Tail(b)) \in Nat
    BY <1>2, <1>3, <1>9, RestOf
  <2>3. /\ Length' = Len(a) + Len(Tail(b)) + Len(c) + Len(again)
        /\ Length = Len(a) + Len(b) + Len(c) + 0
    BY <1>1, <1>6, <1>9, <2>1 DEF Length
  <2> HIDE DEF a, b, c, d
  <2>4. Length' = Length - 1 + Len(again) /\ Length' \in Nat
    BY <1>4, <1>5, <2>2, <2>3
  <2> QED
    BY <1>1, <1>2, <2>1, <2>2, <2>4
<1>10. CASE q = "coh"
  <2>1. inq'["top"] = a /\ inq'["bot"] = b /\ inq'["coh"] = Tail(c)
    BY <1>1, <1>3, <1>10
  <2>2. Tail(c) \in Seq(Coherence) /\ Len(c) = Len(Tail(c)) + 1 /\ Len(Tail(c)) \in Nat
    BY <1>2, <1>3, <1>10, RestOf
  <2>3. /\ Length' = Len(a) + Len(b) + Len(Tail(c)) + Len(again)
        /\ Length = Len(a) + Len(b) + Len(c) + 0
    BY <1>1, <1>6, <1>10, <2>1 DEF Length
  <2> HIDE DEF a, b, c, d
  <2>4. Length' = Length - 1 + Len(again) /\ Length' \in Nat
    BY <1>4, <1>5, <2>2, <2>3
  <2> QED
    BY <1>1, <1>2, <2>1, <2>2, <2>4
<1> QED
  BY <1>3, <1>7, <1>8, <1>9, <1>10 DEF Queue

\* The packet leaves its queue and "again" joins the retried ones.
LEMMA DequeuedCounts ==
  ASSUME Shapes, RetryFree, NEW q, NEW m, Taken(q, m),
         NEW again \in Seq(RetriedPacket), Dequeue(q, again), NEW P
  PROVE  Queued(P)' + Bit(m \in P) = Queued(P) + In(again, P) /\ Queued(P)' \in Nat
<1> DEFINE a == In(inq["top"], P)
           b == In(inq["bot"], P)
           c == In(inq["coh"], P)
           d == In(inq["retry"], P)
           e == In(again, P)
           r == In(Tail(inq[q]), P)
           x == Bit(m \in P)
<1>1. /\ inq'["retry"] = again
      /\ q # "retry" => inq'[q] = Tail(inq[q])
      /\ \A u \in Queue : u # q /\ u # "retry" => inq'[u] = inq[u]
      /\ q = "retry" => Tail(inq["retry"]) = <<>>
  BY Dequeued
<1>2. /\ inq["top"] \in Seq(Fresh) /\ inq["retry"] \in Seq(RetriedPacket)
      /\ inq["bot"] \in Seq(Bottom) /\ inq["coh"] \in Seq(Coherence)
  BY QueueTypes
<1>3. /\ q \in Queue /\ inq[q] # <<>> /\ m = Head(inq[q]) /\ (q # "retry" => inq["retry"] = <<>>)
      /\ "top" \in Queue /\ "bot" \in Queue /\ "coh" \in Queue
  BY DEF Taken, Queue
<1>4. PICK S : inq[q] \in Seq(S)
  BY <1>2, <1>3 DEF Queue
<1>5. In(inq[q], P) = x + r /\ r \in Nat
  <2>1. Tail(inq[q]) \in Seq(S)
    BY <1>3, <1>4, RestOf
  <2>2. r \in Nat
    BY <2>1, InType
  <2> QED
    BY <1>3, <1>4, <2>2, InTail
<1>6. a \in Nat /\ b \in Nat /\ c \in Nat /\ d \in Nat /\ e \in Nat /\ x \in Nat
  BY TotalNats, InType DEF Bit
<1>7. (q = "retry" => r = 0) /\ (q # "retry" => d = 0)
  BY <1>1, <1>3, InEmpty
<1>8. Queued(P) = a + b + c + d
  BY DEF Queued
<1>9. CASE q = "retry"
  <2>1. Queued(P)' = a + b + c + e
    BY <1>1, <1>3, <1>9 DEF Queued
  <2>2. d = x + 0
    BY <1>5, <1>7, <1>9
  <2> HIDE DEF a, b, c, d, e, r, x
  <2>3. Queued(P)' + x = Queued(P) + e /\ Queued(P)' \in Nat
    BY <1>6, <1>8, <2>1, <2>2
  <2> QED
    BY <2>3 DEF e, x
<1>10. CASE q = "top"
  <2>1. Queued(P)' = r + b + c + e
    BY <1>1, <1>3, <1>10 DEF Queued
  <2>2. a = x + r /\ d = 0
    BY <1>5, <1>7, <1>10
  <2> HIDE DEF a, b, c, d, e, r, x
  <2>3. Queued(P)' + x = Queued(P) + e /\ Queued(P)' \in Nat
    BY <1>5, <1>6, <1>8, <2>1, <2>2
  <2> QED
    BY <2>3 DEF e, x
<1>11. CASE q = "bot"
  <2>1. Queued(P)' = a + r + c + e
    BY <1>1, <1>3, <1>11 DEF Queued
  <2>2. b = x + r /\ d = 0
    BY <1>5, <1>7, <1>11
  <2> HIDE DEF a, b, c, d, e, r, x
  <2>3. Queued(P)' + x = Queued(P) + e /\ Queued(P)' \in Nat
    BY <1>5, <1>6, <1>8, <2>1, <2>2
  <2> QED
    BY <2>3 DEF e, x
<1>12. CASE q = "coh"
  <2>1. Queued(P)' = a + b + r + e
    BY <1>1, <1>3, <1>12 DEF Queued
  <2>2. c = x + r /\ d = 0
    BY <1>5, <1>7, <1>12
  <2> HIDE DEF a, b, c, d, e, r, x
  <2>3. Queued(P)' + x = Queued(P) + e /\ Queued(P)' \in Nat
    BY <1>5, <1>6, <1>8, <2>1, <2>2
  <2> QED
    BY <2>3 DEF e, x
<1> QED
  BY <1>3, <1>9, <1>10, <1>11, <1>12 DEF Queue

-----------------------------------------------------------------------------
(* What is pulled from the coalescer *)

\* A row is taken while a request for its block is under way or an access to
\* it waits for a way.
RowsMatch == \A t \in Tag : Bit(t \in Rows) = Total(Asks(t)) + In(coal, Confs(t))

\* The ORT o, the coalescer c and the retried accesses g after a pull.
Hands(o, c, g) ==
  /\ o \in [Tag -> {"free", "open", "stale"}] /\ c \in Seq(Parked) /\ g \in Seq(RetriedPacket)
  /\ Len(g) <= 1
  /\ \A P : Kind(P) => In(c, P) + In(g, P) = In(coal, P)
  /\ \A u \in Tag : Bit(o[u] # "free") + In(coal, Confs(u)) = Bit(u \in Rows) + In(c, Confs(u))
  /\ \A i \in DOMAIN g : o[g[i].tag] = "free"

\* A retried packet is a packet of the core.
LEMMA RetryOfPacket ==
  ASSUME NEW m \in Packets, NEW x \in BOOLEAN, NEW y \in BOOLEAN
  PROVE  /\ RetryOf(m, x, y) \in RetriedPacket /\ RetryOf(m, x, y) \in CpuPacket
         /\ RetryOf(m, x, y).id = m.id /\ RetryOf(m, x, y).tag = m.tag
BY DEF RetryOf, RetriedPacket, CpuPacket, Retried, Packets, Returned, Requested

LEMMA OneRetry ==
  ASSUME NEW x \in RetriedPacket
  PROVE  /\ <<x>> \in Seq(RetriedPacket) /\ Len(<<x>>) = 1 /\ \A i \in DOMAIN <<x>> : <<x>>[i] = x
         /\ \A P : In(<<x>>, P) = Bit(x \in P)
<1>1. <<x>> \in Seq(RetriedPacket) /\ Len(<<x>>) = 1 /\ \A i \in DOMAIN <<x>> : <<x>>[i] = x
  OBVIOUS
<1>2. ASSUME NEW P PROVE In(<<x>>, P) = Bit(x \in P)
  BY InSingle
<1> QED
  BY <1>1, <1>2

LEMMA OrtType ==
  ASSUME Shapes
  PROVE  ort \in [Tag -> {"free", "open", "stale"}]
BY DEF Shapes, TypeOK

\* Each branch of cache_coalesed_retry() keeps what Hands says.
LEMMA NoPullHands ==
  ASSUME Shapes
  PROVE  Hands(ort, coal, <<>>)
<1>1. ort \in [Tag -> {"free", "open", "stale"}] /\ coal \in Seq(Parked) /\ <<>> \in Seq(RetriedPacket)
      /\ Len(<<>>) <= 1
  BY OrtType, QueueTypes, EmptySeq
<1>2. ASSUME NEW P PROVE In(coal, P) + In(<<>>, P) = In(coal, P)
  BY InEmpty, TotalNats
<1>3. ASSUME NEW u \in Tag
      PROVE Bit(ort[u] # "free") + In(coal, Confs(u)) = Bit(u \in Rows) + In(coal, Confs(u))
  BY DEF Rows
<1> QED
  BY <1>1, <1>2, <1>3 DEF Hands

\* What a row waits for is there once.
LEMMA ConfsOnce ==
  ASSUME Shapes, RowsMatch, NEW t \in Tag
  PROVE  /\ t \notin Rows => In(coal, Confs(t)) = 0 /\ Total(Asks(t)) = 0
         /\ In(coal, Confs(t)) > 0 => t \in Rows /\ In(coal, Confs(t)) = 1 /\ Total(Asks(t)) = 0
         /\ Total(Asks(t)) > 0 => t \in Rows /\ In(coal, Confs(t)) = 0 /\ Total(Asks(t)) = 1
         /\ In(coal, Confs(t)) \in Nat /\ Total(Asks(t)) \in Nat
<1>1. Bit(t \in Rows) = Total(Asks(t)) + In(coal, Confs(t))
  BY DEF RowsMatch
<1>2. In(coal, Confs(t)) \in Nat /\ Total(Asks(t)) \in Nat
  BY TotalNats
<1> QED
  BY <1>1, <1>2 DEF Bit

LEMMA PullMergedHands ==
  ASSUME Shapes, RowsMatch, NEW t \in Tag, t \notin Rows, Merged(t) # {}
  PROVE  Hands(PullMerged(t).ort, PullMerged(t).coal, PullMerged(t).again)
<1> DEFINE i == Min(Merged(t))
           c == RemoveAt(coal, i)
           x == RetryOf(coal[i], TRUE, coal[i].conf)
<1>1. coal \in Seq(Parked) /\ DOMAIN coal = 1..Len(coal) /\ Len(coal) \in Nat
  BY QueueTypes, LenProperties
<1>2. i \in Merged(t)
  <2>1. Merged(t) \in SUBSET Nat
    BY <1>1 DEF Merged
  <2> QED
    BY <2>1, MinFacts
<1>3. i \in DOMAIN coal /\ coal[i].tag = t /\ coal[i] \in Parked
  BY <1>1, <1>2 DEF Merged
<1>4. PullMerged(t) = [ort |-> ort, coal |-> c, again |-> <<x>>]
  BY DEF PullMerged
<1> HIDE DEF i
<1>5. coal[i] \in CpuPacket /\ coal[i] \in Packets /\ coal[i].conf \in BOOLEAN
  BY <1>3 DEF Parked, CpuPacket, Packets
<1>6. x \in RetriedPacket /\ x \in CpuPacket /\ x.id = coal[i].id /\ x.tag = t
  BY <1>3, <1>5, RetryOfPacket
<1> HIDE DEF x
<1>7. /\ <<x>> \in Seq(RetriedPacket) /\ Len(<<x>>) <= 1 /\ \A j \in DOMAIN <<x>> : <<x>>[j] = x
      /\ \A P : In(<<x>>, P) = Bit(x \in P)
  <2>1. Len(<<x>>) = 1
    BY <1>6, OneRetry
  <2> QED
    BY <1>6, <2>1, OneRetry
<1>8. c \in Seq(Parked)
  BY <1>1, <1>3, RemoveAtFacts
<1>9. \A P : In(coal, P) = Bit(coal[i] \in P) + In(c, P)
  BY <1>1, <1>3, InRemoveAt
<1> HIDE DEF c
<1>10. ASSUME NEW P, Kind(P) PROVE In(c, P) + In(<<x>>, P) = In(coal, P)
  <2>1. Bit(x \in P) = Bit(coal[i] \in P)
    BY <1>5, <1>6, <1>10 DEF Kind, Bit
  <2>2. In(c, P) \in Nat /\ Bit(x \in P) \in Nat
    BY <1>8, InType DEF Bit
  <2>3. In(<<x>>, P) = Bit(x \in P) /\ In(coal, P) = Bit(x \in P) + In(c, P)
    BY <1>7, <1>9, <2>1
  <2> DEFINE k == In(c, P)
             l == Bit(x \in P)
  <2> HIDE DEF k, l
  <2>4. k + l = l + k
    BY <2>2 DEF k, l
  <2> QED
    BY <2>3, <2>4 DEF k, l
<1>11. ASSUME NEW u \in Tag
       PROVE  Bit(ort[u] # "free") + In(coal, Confs(u)) = Bit(u \in Rows) + In(c, Confs(u))
  <2>1. coal[i] \notin Confs(u)
    <3>1. CASE u = t
      <4>1. In(coal, Confs(t)) = 0
        BY ConfsOnce
      <4>2. \A j \in DOMAIN coal : coal[j] \in Confs(t) => In(coal, Confs(t)) > 0
        BY <1>1, InSome
      <4> QED
        BY <1>3, <3>1, <4>1, <4>2
    <3>2. CASE u # t
      BY <1>3, <3>2 DEF Confs
    <3> QED
      BY <3>1, <3>2
  <2>2. In(coal, Confs(u)) = 0 + In(c, Confs(u)) /\ In(c, Confs(u)) \in Nat
    BY <1>8, <1>9, <2>1, InType DEF Bit
  <2> QED
    BY <2>2 DEF Rows
<1>12. \A j \in DOMAIN <<x>> : ort[<<x>>[j].tag] = "free"
  BY <1>6, <1>7 DEF Rows
<1> QED
  BY <1>4, <1>7, <1>8, <1>10, <1>11, <1>12, OrtType DEF Hands

LEMMA PullConflictHands ==
  ASSUME Shapes, RowsMatch, Conflicting # {}
  PROVE  Hands(PullConflict.ort, PullConflict.coal, PullConflict.again)
<1> DEFINE i == Min(Conflicting)
           c == RemoveAt(coal, i)
           x == RetryOf(coal[i], FALSE, TRUE)
           t == coal[i].tag
           o == [ort EXCEPT ![t] = "free"]
<1>1. coal \in Seq(Parked) /\ DOMAIN coal = 1..Len(coal) /\ Len(coal) \in Nat
  BY QueueTypes, LenProperties
<1>2. i \in Conflicting
  <2>1. Conflicting \in SUBSET Nat
    BY <1>1 DEF Conflicting
  <2> QED
    BY <2>1, MinFacts
<1>3. i \in DOMAIN coal /\ coal[i].conf /\ coal[i] \in Parked
  BY <1>1, <1>2 DEF Conflicting
<1>4. PullConflict = [ort |-> o, coal |-> c, again |-> <<x>>]
  BY DEF PullConflict
<1> HIDE DEF i
<1>5. coal[i] \in CpuPacket /\ coal[i] \in Packets /\ t \in Tag
  BY <1>3 DEF Parked, CpuPacket, Packets
<1>6. x \in RetriedPacket /\ x \in CpuPacket /\ x.id = coal[i].id /\ x.tag = t
  BY <1>3, <1>5, RetryOfPacket
<1> HIDE DEF x
<1>7. /\ <<x>> \in Seq(RetriedPacket) /\ Len(<<x>>) <= 1 /\ \A j \in DOMAIN <<x>> : <<x>>[j] = x
      /\ \A P : In(<<x>>, P) = Bit(x \in P)
  <2>1. Len(<<x>>) = 1
    BY <1>6, OneRetry
  <2> QED
    BY <1>6, <2>1, OneRetry
<1>8. c \in Seq(Parked)
  BY <1>1, <1>3, RemoveAtFacts
<1>9. \A P : In(coal, P) = Bit(coal[i] \in P) + In(c, P)
  BY <1>1, <1>3, InRemoveAt
<1> HIDE DEF c
<1>10. /\ o \in [Tag -> {"free", "open", "stale"}] /\ o[t] = "free"
       /\ \A u \in Tag : u # t => o[u] = ort[u]
  BY <1>5, OrtType
<1> HIDE DEF o
<1>11. ASSUME NEW P, Kind(P) PROVE In(c, P) + In(<<x>>, P) = In(coal, P)
  <2>1. Bit(x \in P) = Bit(coal[i] \in P)
    BY <1>5, <1>6, <1>11 DEF Kind, Bit
  <2>2. In(c, P) \in Nat /\ Bit(x \in P) \in Nat
    BY <1>8, InType DEF Bit
  <2>3. In(<<x>>, P) = Bit(x \in P) /\ In(coal, P) = Bit(x \in P) + In(c, P)
    BY <1>7, <1>9, <2>1
  <2> DEFINE k == In(c, P)
             l == Bit(x \in P)
  <2> HIDE DEF k, l
  <2>4. k + l = l + k
    BY <2>2 DEF k, l
  <2> QED
    BY <2>3, <2>4 DEF k, l
<1>12. ASSUME NEW u \in Tag
       PROVE  Bit(o[u] # "free") + In(coal, Confs(u)) = Bit(u \in Rows) + In(c, Confs(u))
  <2>1. In(c, Confs(u)) \in Nat
    BY <1>8, InType
  <2>2. CASE u = t
    <3>1. coal[i] \in Confs(u)
      BY <1>3, <1>5, <2>2 DEF Confs
    <3>2. In(coal, Confs(u)) = 1 + In(c, Confs(u))
      BY <1>9, <3>1 DEF Bit
    <3>3. In(coal, Confs(u)) > 0
      BY <2>1, <3>2
    <3>4. u \in Rows
      BY <3>3, ConfsOnce
    <3>5. Bit(o[u] # "free") = 0 /\ Bit(u \in Rows) = 1
      BY <1>10, <2>2, <3>4 DEF Bit
    <3> QED
      BY <2>1, <3>2, <3>5
  <2>3. CASE u # t
    <3>1. coal[i] \notin Confs(u)
      BY <2>3 DEF Confs
    <3>2. In(coal, Confs(u)) = 0 + In(c, Confs(u))
      BY <1>9, <3>1 DEF Bit
    <3>3. Bit(o[u] # "free") = Bit(u \in Rows)
      BY <1>10, <2>3 DEF Rows
    <3> QED
      BY <2>1, <3>2, <3>3
  <2> QED
    BY <2>2, <2>3
<1>13. \A j \in DOMAIN <<x>> : o[<<x>>[j].tag] = "free"
  BY <1>6, <1>7, <1>10
<1> QED
  BY <1>4, <1>7, <1>8, <1>10, <1>11, <1>12, <1>13 DEF Hands

LEMMA ReturnHands ==
  ASSUME Shapes, RetryFree, RowsMatch, NEW q, NEW m \in CpuPacket, Taken(q, m), Return(q, m)
  PROVE  \E g : /\ Hands(ort', coal', g) /\ Dequeue(q, g) /\ credit' = credit - 1 + Len(g)
                /\ flight' = flight \ {m.id}
<1> DEFINE r == IF m.type \in Retried \/ m.coal THEN Pull(m.tag) ELSE NoPull
<1>1. /\ ort' = r.ort /\ coal' = r.coal /\ Dequeue(q, r.again)
      /\ credit' = credit - 1 + Len(r.again) /\ flight' = flight \ {m.id}
  BY DEF Return
<1>2. m.tag \in Tag
  BY DEF CpuPacket
<1>3. Hands(r.ort, r.coal, r.again)
  <2>1. Hands(NoPull.ort, NoPull.coal, NoPull.again)
    BY NoPullHands DEF NoPull
  <2>2. ASSUME m.type \in Retried \/ m.coal PROVE Hands(Pull(m.tag).ort, Pull(m.tag).coal, Pull(m.tag).again)
    <3>1. q \in Queue
      BY DEF Taken
    <3>2. q = "retry"
      <4>1. q # "top"
        BY <2>2, TakenPacket DEF Fresh, CpuPacket, Retried
      <4>2. q # "bot"
        BY TakenPacket DEF Bottom, CpuPacket, Returned
      <4>3. q # "coh"
        <5>1. \A p \in CpuPacket : p \notin FromL2
          BY DEF CpuPacket, FromL2, Returned
        <5> QED
          BY <5>1, TakenPacket DEF Coherence
      <4> QED
        BY <3>1, <4>1, <4>2, <4>3 DEF Queue
    <3>3. m.tag \notin Rows
      BY <3>2, TakenPacket
    <3> QED
      BY <1>2, <2>1, <3>3, PullMergedHands, PullConflictHands DEF Pull
  <2> QED
    BY <2>1, <2>2
<1> HIDE DEF r
<1> QED
  BY <1>1, <1>3

-----------------------------------------------------------------------------
(* What a step of the controller does to the counts *)

\* The event count has one advance for each message.
CreditMatch == credit = Length

QueuesTyped ==
  /\ DOMAIN inq = Queue
  /\ inq["top"] \in Seq(Fresh) /\ inq["retry"] \in Seq(RetriedPacket)
  /\ inq["bot"] \in Seq(Bottom) /\ inq["coh"] \in Seq(Coherence)
  /\ ort \in [Tag -> {"free", "open", "stale"}] /\ coal \in Seq(Parked) /\ credit \in Nat

\* Rows are taken and freed together with the accesses that wait for a way.
RowsKept == \A u \in Tag : Bit(u \in Rows') + In(coal, Confs(u)) = Bit(u \in Rows) + In(coal', Confs(u))

\* The count after a message is served.
LEMMA TotalAfter ==
  ASSUME Shapes, RetryFree, NEW q, NEW m, Taken(q, m),
         NEW g \in Seq(RetriedPacket), Dequeue(q, g), UNCHANGED <<up, l2miss>>,
         coal' \in Seq(Parked), NEW S, tx' \in Seq(S), NEW P
  PROVE  /\ Total(P)' + Bit(m \in P) + In(coal, P) + In(tx, P)
              = Total(P) + In(g, P) + In(coal', P) + In(tx', P)
         /\ Total(P)' \in Nat /\ In(coal', P) \in Nat /\ In(tx', P) \in Nat /\ In(g, P) \in Nat
<1>1. Queued(P)' + Bit(m \in P) = Queued(P) + In(g, P) /\ Queued(P)' \in Nat
  BY DequeuedCounts
<1>2. Missing(P)' = Missing(P) /\ In(up', P) = In(up, P)
  BY DEF Missing
<1>3. Total(P)' = Queued(P)' + In(coal', P) + In(tx', P) + In(up', P) + Missing(P)'
  BY DEF Total, Queued, Missing
<1>4. Total(P) = Queued(P) + In(coal, P) + In(tx, P) + In(up, P) + Missing(P)
  BY DEF Total
<1>5. /\ Queued(P) \in Nat /\ In(coal, P) \in Nat /\ In(tx, P) \in Nat /\ In(up, P) \in Nat
      /\ Missing(P) \in Nat /\ Bit(m \in P) \in Nat
  BY TotalNats DEF Bit
<1>6. In(coal', P) \in Nat /\ In(tx', P) \in Nat /\ In(g, P) \in Nat
  BY InType
<1> DEFINE a == Queued(P)
           b == In(coal, P)
           c == In(tx, P)
           d == In(up, P)
           e == Missing(P)
           x == Bit(m \in P)
           y == In(g, P)
           a1 == Queued(P)'
           b1 == In(coal', P)
           c1 == In(tx', P)
           t == Total(P)
           t1 == Total(P)'
<1>7. /\ a1 + x = a + y /\ t1 = a1 + b1 + c1 + d + e /\ t = a + b + c + d + e
      /\ a \in Nat /\ b \in Nat /\ c \in Nat /\ d \in Nat /\ e \in Nat /\ x \in Nat /\ y \in Nat
      /\ a1 \in Nat /\ b1 \in Nat /\ c1 \in Nat
  BY <1>1, <1>2, <1>3, <1>4, <1>5, <1>6
<1> HIDE DEF a, b, c, d, e, x, y, a1, b1, c1, t, t1
<1>8. t1 + x + b + c = t + y + b1 + c1 /\ t1 \in Nat
  BY <1>7
<1> QED
  BY <1>6, <1>8 DEF b, c, x, y, b1, c1, t, t1

\* The event count after a step of the controller.
LEMMA PassedTypes ==
  ASSUME Shapes, RetryFree, CreditMatch, NEW q, NEW m, Taken(q, m),
         NEW g \in Seq(RetriedPacket), Dequeue(q, g), credit' = credit - 1 + Len(g),
         ort' \in [Tag -> {"free", "open", "stale"}], coal' \in Seq(Parked),
         Len(g) <= 1, \A i \in DOMAIN g : ort'[g[i].tag] = "free"
  PROVE  QueuesTyped' /\ CreditMatch' /\ RetryFree'
<1>1. /\ inq'["top"] \in Seq(Fresh) /\ inq'["retry"] \in Seq(RetriedPacket)
      /\ inq'["bot"] \in Seq(Bottom) /\ inq'["coh"] \in Seq(Coherence)
      /\ Length' = Length - 1 + Len(g) /\ Length' \in Nat
  BY DequeuedTypes
<1>2. DOMAIN inq' = Queue /\ inq'["retry"] = g
  BY Dequeued
<1>3. credit' = Length'
  BY <1>1 DEF CreditMatch
<1>4. RetryFree'
  <2>1. \A i \in DOMAIN g : g[i].tag \notin Rows'
    BY DEF Rows
  <2> QED
    BY <1>2, <2>1 DEF RetryFree
<1> QED
  BY <1>1, <1>2, <1>3, <1>4 DEF QueuesTyped, CreditMatch

\* An access returns.
LEMMA ReturnCounts ==
  ASSUME Shapes, RetryFree, RowsMatch, CreditMatch, NEW q, NEW m \in CpuPacket, Taken(q, m),
         Return(q, m), UNCHANGED <<up, l2miss, tx>>
  PROVE  /\ \A P : Kind(P) => Total(P)' + Bit(m \in P) = Total(P) /\ Total(P)' \in Nat
         /\ RowsKept /\ QueuesTyped' /\ CreditMatch' /\ RetryFree' /\ flight' = flight \ {m.id}
<1>1. PICK g : /\ Hands(ort', coal', g) /\ Dequeue(q, g) /\ credit' = credit - 1 + Len(g)
               /\ flight' = flight \ {m.id}
  BY ReturnHands
<1>2. /\ ort' \in [Tag -> {"free", "open", "stale"}] /\ coal' \in Seq(Parked) /\ g \in Seq(RetriedPacket)
      /\ Len(g) <= 1 /\ \A i \in DOMAIN g : ort'[g[i].tag] = "free"
      /\ \A P : Kind(P) => In(coal', P) + In(g, P) = In(coal, P)
      /\ \A u \in Tag : Bit(ort'[u] # "free") + In(coal, Confs(u)) = Bit(u \in Rows) + In(coal', Confs(u))
  BY <1>1 DEF Hands
<1>3. tx' \in Seq(ToL2)
  BY QueueTypes
<1>4. ASSUME NEW P, Kind(P) PROVE Total(P)' + Bit(m \in P) = Total(P) /\ Total(P)' \in Nat
  <2>1. /\ Total(P)' + Bit(m \in P) + In(coal, P) + In(tx, P)
             = Total(P) + In(g, P) + In(coal', P) + In(tx', P)
        /\ Total(P)' \in Nat /\ In(coal', P) \in Nat /\ In(tx', P) \in Nat /\ In(g, P) \in Nat
    BY <1>1, <1>2, <1>3, TotalAfter
  <2>2. In(coal', P) + In(g, P) = In(coal, P) /\ In(tx', P) = In(tx, P)
    BY <1>2, <1>4
  <2>3. Total(P) \in Nat /\ Bit(m \in P) \in Nat
    BY TotalNats DEF Bit
  <2> DEFINE a == Total(P)'
             b == Bit(m \in P)
             c == In(coal', P)
             d == In(g, P)
             e == In(tx', P)
             f == Total(P)
  <2>4. /\ a + b + (c + d) + e = f + d + c + e /\ a \in Nat /\ b \in Nat /\ c \in Nat /\ d \in Nat
        /\ e \in Nat /\ f \in Nat
    BY <2>1, <2>2, <2>3
  <2> HIDE DEF a, b, c, d, e, f
  <2>5. a + b = f /\ a \in Nat
    BY <2>4
  <2> QED
    BY <2>5 DEF a, b, f
<1>5. RowsKept
  BY <1>2 DEF RowsKept, Rows
<1>6. QueuesTyped' /\ CreditMatch' /\ RetryFree'
  BY <1>1, <1>2, PassedTypes
<1> QED
  BY <1>1, <1>4, <1>5, <1>6

\* Nothing is retried: what follows of the counts.
LEMMA NoAgain ==
  ASSUME Shapes, RetryFree, CreditMatch, NEW q, NEW m, Taken(q, m), Dequeue(q, <<>>),
         credit' = credit - 1, ort' \in [Tag -> {"free", "open", "stale"}], coal' \in Seq(Parked)
  PROVE  QueuesTyped' /\ CreditMatch' /\ RetryFree'
<1> DEFINE g == <<>>
<1>1. g \in Seq(RetriedPacket) /\ Len(g) = 0 /\ DOMAIN g = {} /\ Dequeue(q, g)
  OBVIOUS
<1> HIDE DEF g
<1>2. credit' = credit - 1 + Len(g)
  <2>1. credit \in Nat
    BY LengthNats DEF CreditMatch
  <2> QED
    BY <1>1, <2>1
<1>3. Len(g) <= 1 /\ \A i \in DOMAIN g : ort'[g[i].tag] = "free"
  BY <1>1
<1> QED
  BY <1>1, <1>2, <1>3, PassedTypes

LEMMA TotalNoAgain ==
  ASSUME Shapes, RetryFree, NEW q, NEW m, Taken(q, m), Dequeue(q, <<>>), UNCHANGED <<up, l2miss>>,
         coal' \in Seq(Parked), NEW S, tx' \in Seq(S), NEW P
  PROVE  /\ Total(P)' + Bit(m \in P) + In(coal, P) + In(tx, P) = Total(P) + In(coal', P) + In(tx', P)
         /\ Total(P)' \in Nat /\ In(coal', P) \in Nat /\ In(tx', P) \in Nat
<1> DEFINE g == <<>>
<1>1. g \in Seq(RetriedPacket) /\ In(g, P) = 0 /\ Dequeue(q, g)
  BY InEmpty, EmptySeq
<1> HIDE DEF g
<1>2. /\ Total(P)' + Bit(m \in P) + In(coal, P) + In(tx, P)
              = Total(P) + In(g, P) + In(coal', P) + In(tx', P)
      /\ Total(P)' \in Nat /\ In(coal', P) \in Nat /\ In(tx', P) \in Nat
  BY <1>1, TotalAfter
<1>3. Total(P) + In(g, P) = Total(P)
  BY <1>1, TotalNats
<1> QED
  BY <1>2, <1>3

\* An access is set aside; n is the message and m what the handler made of it.
LEMMA CoalesceCounts ==
  ASSUME Shapes, RetryFree, RowsMatch, CreditMatch, NEW q, NEW n \in CpuPacket, Taken(q, n),
         NEW m \in CpuPacket, m.id = n.id, m.tag = n.tag,
         Coalesce(q, m), UNCHANGED <<up, l2miss>>
  PROVE  /\ \A P : Kind(P) => Total(P)' = Total(P)
         /\ RowsKept /\ QueuesTyped' /\ CreditMatch' /\ RetryFree'
<1> DEFINE x == Aside(m)
<1>1. /\ ~Goes(m) /\ ort' = RowAside(m) /\ coal' = Append(coal, x) /\ Dequeue(q, <<>>)
      /\ credit' = credit - 1 /\ tx' = tx
  BY DEF Coalesce
<1>2. m.tag \in Tag /\ m.conf = FALSE /\ Conflicts(m) \in BOOLEAN
  BY <1>1 DEF CpuPacket, Goes, Conflicts
<1>3. x \in Parked /\ x \in CpuPacket /\ x.id = m.id /\ x.tag = m.tag /\ x.conf = Conflicts(m)
  BY <1>2 DEF Aside, CpuPacket, Parked
<1> HIDE DEF x
<1>4. coal \in Seq(Parked) /\ tx' \in Seq(ToL2)
  BY <1>1, QueueTypes
<1>5. coal' \in Seq(Parked) /\ \A P : In(coal', P) = In(coal, P) + Bit(x \in P)
  BY <1>1, <1>3, <1>4, AppendFacts, InAppend
<1>6. /\ ort' \in [Tag -> {"free", "open", "stale"}]
      /\ Conflicts(m) => ort'[m.tag] # "free" /\ ort[m.tag] = "free"
      /\ \A u \in Tag : u # m.tag \/ ~Conflicts(m) => ort'[u] = ort[u]
  BY <1>1, <1>2, OrtType DEF RowAside, Conflicts
<1>7. ASSUME NEW P, Kind(P) PROVE Total(P)' = Total(P)
  <2>1. /\ Total(P)' + Bit(n \in P) + In(coal, P) + In(tx, P) = Total(P) + In(coal', P) + In(tx', P)
        /\ Total(P)' \in Nat /\ In(coal', P) \in Nat /\ In(tx', P) \in Nat
    BY <1>1, <1>4, <1>5, TotalNoAgain
  <2>2. In(coal', P) = In(coal, P) + Bit(n \in P) /\ In(tx', P) = In(tx, P)
    <3>1. Bit(x \in P) = Bit(n \in P)
      BY <1>3, <1>7 DEF Kind, Bit
    <3> QED
      BY <1>1, <1>5, <3>1
  <2>3. Total(P) \in Nat /\ Bit(n \in P) \in Nat /\ In(coal, P) \in Nat
    BY TotalNats DEF Bit
  <2> DEFINE a == Total(P)'
             b == Bit(n \in P)
             c == In(coal, P)
             e == In(tx', P)
             f == Total(P)
  <2>4. /\ a + b + c + e = f + (c + b) + e /\ a \in Nat /\ b \in Nat /\ c \in Nat
        /\ e \in Nat /\ f \in Nat
    BY <2>1, <2>2, <2>3
  <2> HIDE DEF a, b, c, e, f
  <2>5. a = f
    BY <2>4
  <2> QED
    BY <2>5 DEF a, f
<1>8. ASSUME NEW u \in Tag
      PROVE  Bit(u \in Rows') + In(coal, Confs(u)) = Bit(u \in Rows) + In(coal', Confs(u))
  <2>1. In(coal', Confs(u)) = In(coal, Confs(u)) + Bit(x \in Confs(u)) /\ In(coal, Confs(u)) \in Nat
    BY <1>5, TotalNats
  <2>2. (u \in Rows' <=> ort'[u] # "free") /\ (u \in Rows <=> ort[u] # "free")
    BY DEF Rows
  <2>3. CASE u = m.tag /\ Conflicts(m)
    <3>1. Bit(x \in Confs(u)) = 1 /\ Bit(u \in Rows') = 1 /\ Bit(u \in Rows) = 0
      BY <1>3, <1>6, <2>2, <2>3 DEF Confs, Bit
    <3> QED
      BY <2>1, <3>1
  <2>4. CASE ~(u = m.tag /\ Conflicts(m))
    <3>1. Bit(x \in Confs(u)) = 0 /\ Bit(u \in Rows') = Bit(u \in Rows) /\ Bit(u \in Rows) \in Nat
      BY <1>3, <1>6, <2>2, <2>4 DEF Confs, Bit
    <3> QED
      BY <2>1, <3>1
  <2> QED
    BY <2>3, <2>4
<1>9. QueuesTyped' /\ CreditMatch' /\ RetryFree'
  BY <1>1, <1>5, <1>6, NoAgain
<1> QED
  BY <1>7, <1>8, <1>9 DEF RowsKept

\* A message is served and x goes to the L2.
LEMMA AppendCounts ==
  ASSUME Shapes, RetryFree, CreditMatch, NEW q, NEW m, Taken(q, m), Dequeue(q, <<>>),
         credit' = credit - 1, ort' \in [Tag -> {"free", "open", "stale"}], UNCHANGED coal,
         UNCHANGED <<up, l2miss>>, NEW x \in ToL2, tx' = Append(tx, x)
  PROVE  /\ \A P : Total(P)' + Bit(m \in P) = Total(P) + Bit(x \in P) /\ Total(P)' \in Nat
         /\ tx' \in Seq(ToL2) /\ QueuesTyped' /\ CreditMatch' /\ RetryFree'
<1>1. tx \in Seq(ToL2) /\ coal' \in Seq(Parked)
  BY QueueTypes
<1>2. tx' \in Seq(ToL2)
  BY <1>1, AppendFacts
<1>3. ASSUME NEW P PROVE Total(P)' + Bit(m \in P) = Total(P) + Bit(x \in P) /\ Total(P)' \in Nat
  <2>1. /\ Total(P)' + Bit(m \in P) + In(coal, P) + In(tx, P) = Total(P) + In(coal', P) + In(tx', P)
        /\ Total(P)' \in Nat
    BY <1>1, <1>2, TotalNoAgain
  <2>2. In(coal', P) = In(coal, P) /\ In(tx', P) = In(tx, P) + Bit(x \in P)
    BY <1>1, InAppend
  <2>3. /\ Total(P) \in Nat /\ Bit(m \in P) \in Nat /\ In(coal, P) \in Nat /\ In(tx, P) \in Nat
        /\ Bit(x \in P) \in Nat
    BY TotalNats DEF Bit
  <2> DEFINE a == Total(P)'
             b == Bit(m \in P)
             c == In(coal, P)
             d == In(tx, P)
             e == Bit(x \in P)
             f == Total(P)
  <2>4. /\ a + b + c + d = f + c + (d + e) /\ a \in Nat /\ b \in Nat /\ c \in Nat /\ d \in Nat
        /\ e \in Nat /\ f \in Nat
    BY <2>1, <2>2, <2>3
  <2> HIDE DEF a, b, c, d, e, f
  <2>5. a + b = f + e
    BY <2>4
  <2> QED
    BY <2>1, <2>5 DEF a, b, e, f
<1>4. QueuesTyped' /\ CreditMatch' /\ RetryFree'
  BY <1>1, NoAgain
<1> QED
  BY <1>2, <1>3, <1>4

\* A message is served and nothing is sent.
LEMMA DropCounts ==
  ASSUME Shapes, RetryFree, CreditMatch, NEW q, NEW m, Taken(q, m), Dequeue(q, <<>>),
         credit' = credit - 1, ort' \in [Tag -> {"free", "open", "stale"}], UNCHANGED coal,
         UNCHANGED <<up, l2miss, tx>>
  PROVE  /\ \A P : Total(P)' + Bit(m \in P) = Total(P) /\ Total(P)' \in Nat
         /\ tx' \in Seq(ToL2) /\ QueuesTyped' /\ CreditMatch' /\ RetryFree'
<1>1. tx' \in Seq(ToL2) /\ coal' \in Seq(Parked)
  BY QueueTypes
<1>3. ASSUME NEW P PROVE Total(P)' + Bit(m \in P) = Total(P) /\ Total(P)' \in Nat
  <2>1. /\ Total(P)' + Bit(m \in P) + In(coal, P) + In(tx, P) = Total(P) + In(coal', P) + In(tx', P)
        /\ Total(P)' \in Nat
    BY <1>1, TotalNoAgain
  <2>2. In(coal', P) = In(coal, P) /\ In(tx', P) = In(tx, P)
    OBVIOUS
  <2>3. /\ Total(P) \in Nat /\ Bit(m \in P) \in Nat /\ In(coal, P) \in Nat /\ In(tx, P) \in Nat
    BY TotalNats DEF Bit
  <2> DEFINE a == Total(P)'
             b == Bit(m \in P)
             c == In(coal, P)
             d == In(tx, P)
             f == Total(P)
  <2>4. /\ a + b + c + d = f + c + d /\ a \in Nat /\ b \in Nat /\ c \in Nat /\ d \in Nat
        /\ f \in Nat
    BY <2>1, <2>2, <2>3
  <2> HIDE DEF a, b, c, d, f
  <2>5. a + b = f
    BY <2>4
  <2> QED
    BY <2>1, <2>5 DEF a, b, f
<1>4. QueuesTyped' /\ CreditMatch' /\ RetryFree'
  BY <1>1, NoAgain
<1> QED
  BY <1>1, <1>3, <1>4

\* A reply is served and the access is retried as x.
LEMMA RetryCounts ==
  ASSUME Shapes, RetryFree, CreditMatch, NEW q, NEW m, Taken(q, m),
         NEW x \in RetriedPacket, Dequeue(q, <<x>>), ort'[x.tag] = "free",
         ort' \in [Tag -> {"free", "open", "stale"}], UNCHANGED <<coal, credit, up, l2miss, tx>>
  PROVE  /\ \A P : Total(P)' + Bit(m \in P) = Total(P) + Bit(x \in P) /\ Total(P)' \in Nat
         /\ tx' \in Seq(ToL2) /\ QueuesTyped' /\ CreditMatch' /\ RetryFree'
<1> DEFINE g == <<x>>
<1>1. /\ g \in Seq(RetriedPacket) /\ Len(g) = 1 /\ \A i \in DOMAIN g : g[i] = x
      /\ \A P : In(g, P) = Bit(x \in P)
  BY OneRetry
<1>2. Dequeue(q, g)
  OBVIOUS
<1> HIDE DEF g
<1>3. tx' \in Seq(ToL2) /\ coal' \in Seq(Parked)
  BY QueueTypes
<1>4. ASSUME NEW P PROVE Total(P)' + Bit(m \in P) = Total(P) + Bit(x \in P) /\ Total(P)' \in Nat
  <2>1. /\ Total(P)' + Bit(m \in P) + In(coal, P) + In(tx, P)
              = Total(P) + In(g, P) + In(coal', P) + In(tx', P)
        /\ Total(P)' \in Nat
    BY <1>1, <1>2, <1>3, TotalAfter
  <2>2. In(coal', P) = In(coal, P) /\ In(tx', P) = In(tx, P) /\ In(g, P) = Bit(x \in P)
    BY <1>1
  <2>3. /\ Total(P) \in Nat /\ Bit(m \in P) \in Nat /\ In(coal, P) \in Nat /\ In(tx, P) \in Nat
        /\ Bit(x \in P) \in Nat
    BY TotalNats DEF Bit
  <2> DEFINE a == Total(P)'
             b == Bit(m \in P)
             c == In(coal, P)
             d == In(tx, P)
             e == Bit(x \in P)
             f == Total(P)
  <2>4. /\ a + b + c + d = f + e + c + d /\ a \in Nat /\ b \in Nat /\ c \in Nat /\ d \in Nat
        /\ e \in Nat /\ f \in Nat
    BY <2>1, <2>2, <2>3
  <2> HIDE DEF a, b, c, d, e, f
  <2>5. a + b = f + e
    BY <2>4
  <2> QED
    BY <2>1, <2>5 DEF a, b, e, f
<1>5. credit' = credit - 1 + Len(g)
  <2>1. credit \in Nat
    BY LengthNats DEF CreditMatch
  <2>2. \A n \in Nat : n = n - 1 + 1
    OBVIOUS
  <2> QED
    BY <1>1, <2>1, <2>2
<1>6. Len(g) <= 1 /\ \A i \in DOMAIN g : ort'[g[i].tag] = "free"
  BY <1>1
<1>7. QueuesTyped' /\ CreditMatch' /\ RetryFree'
  BY <1>1, <1>2, <1>3, <1>5, <1>6, PassedTypes
<1> QED
  BY <1>3, <1>4, <1>7

-----------------------------------------------------------------------------
(* What a step of the L2 does to the counts *)

\* The L2's request for a block is noted, or taken up again.
LEMMA MissingAdd ==
  ASSUME Shapes, NEW t \in Tag, l2miss[t] = NoRequest, NEW m \in Requested,
         l2miss' = [l2miss EXCEPT ![t] = m], NEW P
  PROVE  Missing(P)' = Missing(P) + Bit(m \in P)
<1> DEFINE D == {u \in Tag : l2miss[u] # NoRequest /\ l2miss[u] \in P}
           E == {u \in Tag : l2miss'[u] # NoRequest /\ l2miss'[u] \in P}
<1>1. IsFiniteSet(D) /\ Cardinality(D) \in Nat
  BY MissingFacts DEF Missing
<1>2. m # NoRequest
  BY NoRequestAssumption
<1>3. l2miss'[t] = m /\ \A u \in Tag : u # t => l2miss'[u] = l2miss[u]
  BY QueueTypes
<1>4. t \notin D /\ (m \in P => E = D \cup {t}) /\ (m \notin P => E = D)
  BY <1>2, <1>3
<1>5. Missing(P) = Cardinality(D) /\ Missing(P)' = Cardinality(E)
  BY DEF Missing
<1> HIDE DEF D, E
<1>6. Cardinality(D \cup {t}) = Cardinality(D) + 1
  BY <1>1, <1>4, FS_AddElement
<1> QED
  BY <1>1, <1>4, <1>5, <1>6 DEF Bit

LEMMA MissingRemove ==
  ASSUME Shapes, NEW t \in Tag, l2miss[t] # NoRequest,
         l2miss' = [l2miss EXCEPT ![t] = NoRequest], NEW P
  PROVE  Missing(P) = Missing(P)' + Bit(l2miss[t] \in P) /\ Missing(P)' \in Nat
<1> DEFINE D == {u \in Tag : l2miss[u] # NoRequest /\ l2miss[u] \in P}
           E == {u \in Tag : l2miss'[u] # NoRequest /\ l2miss'[u] \in P}
<1>1. IsFiniteSet(D) /\ Cardinality(D) \in Nat
  BY MissingFacts DEF Missing
<1>3. l2miss'[t] = NoRequest /\ \A u \in Tag : u # t => l2miss'[u] = l2miss[u]
  BY QueueTypes
<1>4. t \notin E /\ (l2miss[t] \in P => D = E \cup {t}) /\ (l2miss[t] \notin P => E = D)
  BY <1>3
<1>5. Missing(P) = Cardinality(D) /\ Missing(P)' = Cardinality(E)
  BY DEF Missing
<1> HIDE DEF D, E
<1>6. IsFiniteSet(E)
  BY <1>1, <1>4, FS_Subset
<1>7. Cardinality(E \cup {t}) = Cardinality(E) + 1 /\ Cardinality(E) \in Nat
  BY <1>4, <1>6, FS_AddElement, FS_CardinalityType
<1>8. CASE l2miss[t] \in P
  BY <1>4, <1>5, <1>7, <1>8 DEF Bit
<1>9. CASE l2miss[t] \notin P
  BY <1>4, <1>5, <1>7, <1>9 DEF Bit
<1> QED
  BY <1>8, <1>9

-----------------------------------------------------------------------------
(* The cache set and the write-back buffer *)

Block == [tag : Tag \cup {NoTag}, st : BlockState, fill : Tag \cup {NoTag}]

\* A block is in one way, and a way that waits for a block is the only one the
\* block can be in.
Apart(b) ==
  /\ \A v, w \in Way : b[v].st # "I" /\ b[w].st # "I" /\ b[v].tag = b[w].tag => v = w
  /\ \A w \in Way : b[w].st # "I" => b[w].tag # NoTag
  /\ \A w \in Way : b[w].fill # NoTag => (b[w].st # "I" => b[w].tag = b[w].fill)
  /\ \A v, w \in Way : b[w].fill # NoTag /\ b[v].st # "I" /\ b[v].tag = b[w].fill => v = w
  /\ \A v, w \in Way : b[w].fill # NoTag /\ b[v].fill = b[w].fill => v = w

\* A block is in the write-back buffer s once, and then not in a way and not
\* waited for.
Saved(b, s) ==
  /\ \A t : Copies(s, t) <= 1
  /\ \A w \in Way : b[w].st # "I" => Copies(s, b[w].tag) = 0
  /\ \A w \in Way : b[w].fill # NoTag => Copies(s, b[w].fill) = 0

Placed(b, s) == Apart(b) /\ Saved(b, s)

\* Way w gets contents x.
Sets(b, c, w, x) == c \in [Way -> Block] /\ c[w] = x /\ \A v \in Way : v # w => c[v] = b[v]

\* The write-back buffer after way w is evicted.
Victimized(b, s, w) == IF b[w].st = "M" THEN Append(s, b[w].tag) ELSE s

\* What is known of the write-back buffer.
LEMMA SavedFacts ==
  ASSUME NEW b, NEW s \in Seq(Tag), Saved(b, s)
  PROVE  /\ \A t : Copies(s, t) \in Nat
         /\ \A t : Copies(s, t) <= 1
         /\ \A w \in Way : b[w].st # "I" => Copies(s, b[w].tag) = 0
         /\ \A w \in Way : b[w].fill # NoTag => Copies(s, b[w].fill) = 0
<1>1. \A t : Copies(s, t) \in Nat
  BY InType DEF Copies
<1> QED
  BY <1>1 DEF Saved

\* A block goes to the write-back buffer only if it is modified.
LEMMA EvictedFacts ==
  ASSUME NEW b \in [Way -> Block], NEW s \in Seq(Tag), Placed(b, s), NEW w \in Way,
         NEW r, r = Victimized(b, s, w)
  PROVE  /\ r \in Seq(Tag) /\ \A t : Copies(r, t) <= 1
         /\ \A t : (b[w].st = "I" \/ t # b[w].tag) => Copies(r, t) = Copies(s, t)
<1> DEFINE f == b[w].tag
<1>1. /\ \A t : Copies(s, t) \in Nat
      /\ \A t : Copies(s, t) <= 1
      /\ b[w].st # "I" => Copies(s, f) = 0
  BY SavedFacts DEF Placed
<1>2. CASE b[w].st = "M"
  <2>1. f \in Tag /\ Copies(s, f) = 0
    <3>1. f \in Tag \cup {NoTag} /\ f # NoTag
      BY <1>2 DEF Placed, Apart, Block
    <3> QED
      BY <1>1, <1>2, <3>1
  <2>2. r = Append(s, f)
    BY <1>2 DEF Victimized
  <2> HIDE DEF f
  <2>3. r \in Seq(Tag) /\ \A t : Copies(r, t) = Copies(s, t) + Bit(f \in {t})
    BY <2>1, <2>2, AppendFacts, InAppend DEF Copies
  <2>4. ASSUME NEW t, t # f PROVE Copies(r, t) = Copies(s, t)
    <3>1. Bit(f \in {t}) = 0
      BY <2>4 DEF Bit
    <3>2. Copies(r, t) = Copies(s, t) + 0
      BY <2>3, <3>1
    <3> QED
      BY <1>1, <3>2, PlusZero
  <2>5. Copies(r, f) = 1
    <3>1. Bit(f \in {f}) = 1
      BY DEF Bit
    <3>2. Copies(r, f) = 0 + 1
      BY <2>1, <2>3, <3>1
    <3> QED
      BY <3>2
  <2>6. ASSUME NEW t PROVE Copies(r, t) <= 1
    <3>1. CASE t = f
      BY <2>5, <3>1
    <3>2. CASE t # f
      BY <1>1, <2>4, <3>2
    <3> QED
      BY <3>1, <3>2
  <2> QED
    BY <1>2, <2>3, <2>4, <2>6 DEF f
<1>3. CASE b[w].st # "M"
  <2>1. r = s
    BY <1>3 DEF Victimized
  <2> QED
    BY <1>1, <2>1
<1> QED
  BY <1>2, <1>3

\* A way is cleared and waits for a block.
LEMMA MissPlaced ==
  ASSUME NEW b \in [Way -> Block], NEW s \in Seq(Tag), Placed(b, s), NEW w \in Way,
         NEW r, r = Victimized(b, s, w),
         b[w].fill = NoTag, NEW t \in Tag, Copies(s, t) = 0,
         \A v \in Way : b[v].fill # t /\ (b[v].st # "I" => b[v].tag # t),
         NEW c, Sets(b, c, w, [tag |-> NoTag, st |-> "I", fill |-> t])
  PROVE  Placed(c, r) /\ r \in Seq(Tag)
<1>1. /\ r \in Seq(Tag) /\ \A u : Copies(r, u) <= 1
      /\ \A u : (b[w].st = "I" \/ u # b[w].tag) => Copies(r, u) = Copies(s, u)
  <2>1. r \in Seq(Tag) /\ \A u : Copies(r, u) <= 1
    BY EvictedFacts
  <2>2. ASSUME NEW u, b[w].st = "I" \/ u # b[w].tag PROVE Copies(r, u) = Copies(s, u)
    BY <2>2, EvictedFacts
  <2> QED
    BY <2>1, <2>2
<1>2. c[w].st = "I" /\ c[w].fill = t /\ \A v \in Way : v # w => c[v] = b[v]
  BY DEF Sets
<1>3. Apart(b) /\ Saved(b, s)
  BY DEF Placed
<1>4. Apart(c)
  BY <1>2, <1>3 DEF Apart
<1>5. ASSUME NEW v \in Way, c[v].st # "I" PROVE Copies(r, c[v].tag) = 0
  <2>1. v # w /\ c[v] = b[v]
    BY <1>2, <1>5
  <2>2. Copies(s, b[v].tag) = 0
    BY <1>3, <1>5, <2>1, SavedFacts
  <2>3. b[w].st = "I" \/ b[v].tag # b[w].tag
    BY <1>3, <1>5, <2>1 DEF Apart
  <2> QED
    BY <1>1, <2>1, <2>2, <2>3
<1>6. ASSUME NEW v \in Way, c[v].fill # NoTag PROVE Copies(r, c[v].fill) = 0
  <2>1. CASE v = w
    BY <1>1, <1>2, <2>1
  <2>2. CASE v # w
    <3>1. c[v] = b[v]
      BY <1>2, <2>2
    <3>2. b[w].st = "I" \/ b[w].tag # b[v].fill
      BY <1>3, <1>6, <2>2, <3>1 DEF Apart
    <3>3. Copies(s, b[v].fill) = 0
      BY <1>3, <1>6, <3>1, SavedFacts
    <3> QED
      BY <1>1, <3>1, <3>2, <3>3
  <2> QED
    BY <2>1, <2>2
<1>7. Saved(c, r)
  BY <1>1, <1>5, <1>6 DEF Saved
<1> QED
  BY <1>1, <1>4, <1>7 DEF Placed

\* The block comes back from the write-back buffer.
LEMMA ReclaimPlaced ==
  ASSUME NEW b \in [Way -> Block], NEW s \in Seq(Tag), Placed(b, s), NEW w \in Way,
         NEW r, r = Victimized(b, s, w),
         b[w].fill = NoTag, NEW t \in Tag, Copies(s, t) > 0,
         NEW c, Sets(b, c, w, [tag |-> t, st |-> "M", fill |-> NoTag])
  PROVE  Placed(c, RemoveFirst(r, t)) /\ RemoveFirst(r, t) \in Seq(Tag)
<1> DEFINE q == RemoveFirst(r, t)
<1>1. /\ r \in Seq(Tag) /\ \A u : Copies(r, u) <= 1
      /\ \A u : (b[w].st = "I" \/ u # b[w].tag) => Copies(r, u) = Copies(s, u)
  <2>1. r \in Seq(Tag) /\ \A u : Copies(r, u) <= 1
    BY EvictedFacts
  <2>2. ASSUME NEW u, b[w].st = "I" \/ u # b[w].tag PROVE Copies(r, u) = Copies(s, u)
    BY <2>2, EvictedFacts
  <2> QED
    BY <2>1, <2>2
<1>2. q \in Seq(Tag) /\ Copies(q, t) = 0 /\ \A u : u # t => Copies(q, u) = Copies(r, u)
  <2>1. q \in Seq(Tag) /\ Copies(q, t) = 0
    BY <1>1, RemoveFirstFacts
  <2>2. ASSUME NEW u, u # t PROVE Copies(q, u) = Copies(r, u)
    BY <1>1, <2>2, RemoveFirstFacts
  <2> QED
    BY <2>1, <2>2
<1> HIDE DEF q
<1>3. c[w].st = "M" /\ c[w].tag = t /\ c[w].fill = NoTag /\ \A v \in Way : v # w => c[v] = b[v]
  BY DEF Sets
<1>4. t # NoTag /\ Apart(b) /\ Saved(b, s)
  BY L1DCacheAssumption DEF Placed
<1>5. \A v \in Way : b[v].fill # t /\ (b[v].st # "I" => b[v].tag # t)
  <2>1. Copies(s, t) # 0
    OBVIOUS
  <2>2. ASSUME NEW v \in Way PROVE b[v].fill # t /\ (b[v].st # "I" => b[v].tag # t)
    BY <1>4, <2>1, SavedFacts
  <2> QED
    BY <2>2
<1>6. Apart(c)
  BY <1>3, <1>4, <1>5 DEF Apart
<1>7. ASSUME NEW u PROVE Copies(q, u) <= 1
  <2>1. CASE u = t
    BY <1>2, <2>1
  <2>2. CASE u # t
    BY <1>1, <1>2, <2>2
  <2> QED
    BY <2>1, <2>2
<1>8. ASSUME NEW v \in Way, c[v].st # "I" PROVE Copies(q, c[v].tag) = 0
  <2>1. CASE v = w
    BY <1>2, <1>3, <2>1
  <2>2. CASE v # w
    <3>1. c[v] = b[v]
      BY <1>3, <2>2
    <3>2. Copies(s, b[v].tag) = 0 /\ b[v].tag # t
      BY <1>4, <1>5, <1>8, <3>1, SavedFacts
    <3>3. b[w].st = "I" \/ b[v].tag # b[w].tag
      BY <1>4, <1>8, <2>2, <3>1 DEF Apart
    <3> QED
      BY <1>1, <1>2, <3>1, <3>2, <3>3
  <2> QED
    BY <2>1, <2>2
<1>9. ASSUME NEW v \in Way, c[v].fill # NoTag PROVE Copies(q, c[v].fill) = 0
  <2>1. v # w /\ c[v] = b[v]
    BY <1>3, <1>9
  <2>2. b[w].st = "I" \/ b[w].tag # b[v].fill
    BY <1>4, <1>9, <2>1 DEF Apart
  <2>3. Copies(s, b[v].fill) = 0 /\ b[v].fill # t
    BY <1>4, <1>5, <1>9, <2>1, SavedFacts
  <2> QED
    BY <1>1, <1>2, <2>1, <2>2, <2>3
<1>10. Saved(c, q)
  BY <1>7, <1>8, <1>9 DEF Saved
<1>11. Placed(c, q)
  BY <1>6, <1>10 DEF Placed
<1> QED
  BY <1>2, <1>11 DEF q

\* The block comes to the way that waits for it.
LEMMA FillPlaced ==
  ASSUME NEW b \in [Way -> Block], NEW s \in Seq(Tag), Placed(b, s), NEW w \in Way,
         NEW t \in Tag, b[w].fill = t, NEW x \in BlockState,
         NEW c, Sets(b, c, w, [tag |-> t, st |-> x, fill |-> NoTag])
  PROVE  Placed(c, s)
<1>1. c[w].st = x /\ c[w].tag = t /\ c[w].fill = NoTag /\ \A v \in Way : v # w => c[v] = b[v]
  BY DEF Sets
<1>2. b[w].fill # NoTag /\ t # NoTag /\ Apart(b) /\ Saved(b, s)
  BY L1DCacheAssumption DEF Placed
<1>3. Apart(c)
  BY <1>1, <1>2 DEF Apart
<1>4. \A u : Copies(s, u) <= 1
  BY <1>2, SavedFacts
<1>5. ASSUME NEW v \in Way, c[v].st # "I" PROVE Copies(s, c[v].tag) = 0
  BY <1>1, <1>2, <1>5, SavedFacts
<1>6. ASSUME NEW v \in Way, c[v].fill # NoTag PROVE Copies(s, c[v].fill) = 0
  BY <1>1, <1>2, <1>6, SavedFacts
<1>7. Saved(c, s)
  BY <1>4, <1>5, <1>6 DEF Saved
<1> QED
  BY <1>3, <1>7 DEF Placed

\* A shared block waits for its upgrade.
LEMMA UpgradePlaced ==
  ASSUME NEW b \in [Way -> Block], NEW s \in Seq(Tag), Placed(b, s), NEW w \in Way,
         NEW t \in Tag, b[w].st # "I", b[w].tag = t, \A v \in Way : b[v].fill # t,
         NEW c, Sets(b, c, w, [tag |-> b[w].tag, st |-> b[w].st, fill |-> t])
  PROVE  Placed(c, s) /\ b[w].fill = NoTag
<1>1. c[w].st = b[w].st /\ c[w].tag = t /\ c[w].fill = t /\ \A v \in Way : v # w => c[v] = b[v]
  BY DEF Sets
<1>2. t # NoTag /\ Apart(b) /\ Saved(b, s)
  BY L1DCacheAssumption DEF Placed
<1>3. Apart(c) /\ b[w].fill = NoTag
  BY <1>1, <1>2 DEF Apart
<1>4. \A u : Copies(s, u) <= 1
  BY <1>2, SavedFacts
<1>5. ASSUME NEW v \in Way, c[v].st # "I" PROVE Copies(s, c[v].tag) = 0
  BY <1>1, <1>2, <1>5, SavedFacts
<1>6. ASSUME NEW v \in Way, c[v].fill # NoTag PROVE Copies(s, c[v].fill) = 0
  BY <1>1, <1>2, <1>6, SavedFacts
<1>7. Saved(c, s)
  BY <1>4, <1>5, <1>6 DEF Saved
<1> QED
  BY <1>3, <1>7 DEF Placed

\* A block changes its state or goes.
LEMMA LowerPlaced ==
  ASSUME NEW b \in [Way -> Block], NEW s \in Seq(Tag), Placed(b, s), NEW w \in Way,
         b[w].st # "I", NEW x \in BlockState, NEW y,
         y = [tag |-> IF x = "I" THEN NoTag ELSE b[w].tag, st |-> x, fill |-> b[w].fill],
         NEW c, Sets(b, c, w, y)
  PROVE  Placed(c, s)
<1>1. /\ c[w].st = x /\ c[w].fill = b[w].fill /\ (x # "I" => c[w].tag = b[w].tag)
      /\ \A v \in Way : v # w => c[v] = b[v]
  BY DEF Sets
<1>2. /\ \A v \in Way : c[v].st # "I" => b[v].st # "I" /\ c[v].tag = b[v].tag
      /\ \A v \in Way : c[v].fill = b[v].fill
  BY <1>1
<1>3. Apart(b) /\ Saved(b, s)
  BY DEF Placed
<1>4. Apart(c)
  BY <1>2, <1>3 DEF Apart
<1>5. \A u : Copies(s, u) <= 1
  BY <1>3, SavedFacts
<1>6. ASSUME NEW v \in Way, c[v].st # "I" PROVE Copies(s, c[v].tag) = 0
  BY <1>2, <1>3, <1>6, SavedFacts
<1>7. ASSUME NEW v \in Way, c[v].fill # NoTag PROVE Copies(s, c[v].fill) = 0
  BY <1>2, <1>3, <1>7, SavedFacts
<1>8. Saved(c, s)
  BY <1>5, <1>6, <1>7 DEF Saved
<1> QED
  BY <1>4, <1>8 DEF Placed

\* Blocks leave the write-back buffer.
LEMMA SavedPlaced ==
  ASSUME NEW b \in [Way -> Block], NEW s \in Seq(Tag), Placed(b, s), NEW r \in Seq(Tag),
         \A t : Copies(r, t) <= Copies(s, t)
  PROVE  Placed(b, r)
<1>1. Apart(b) /\ Saved(b, s)
  BY DEF Placed
<1>2. ASSUME NEW t PROVE Copies(r, t) <= 1 /\ (Copies(s, t) = 0 => Copies(r, t) = 0)
  <2>1. Copies(r, t) \in Nat /\ Copies(s, t) \in Nat
    BY InType DEF Copies
  <2>2. Copies(r, t) <= Copies(s, t) /\ Copies(s, t) <= 1
    BY <1>1, SavedFacts
  <2> DEFINE m == Copies(r, t)
             n == Copies(s, t)
  <2>3. m \in Nat /\ n \in Nat /\ m <= n /\ n <= 1
    BY <2>1, <2>2
  <2> HIDE DEF m, n
  <2>4. m <= 1 /\ (n = 0 => m = 0)
    BY <2>3
  <2> QED
    BY <2>4 DEF m, n
<1>3. ASSUME NEW w \in Way
      PROVE  /\ b[w].st # "I" => Copies(r, b[w].tag) = 0
             /\ b[w].fill # NoTag => Copies(r, b[w].fill) = 0
  BY <1>1, <1>2, SavedFacts
<1>4. Saved(b, r)
  BY <1>2, <1>3 DEF Saved
<1> QED
  BY <1>1, <1>4 DEF Placed

-----------------------------------------------------------------------------
(* Ways *)

\* Every way is in the way list.
LruFull == \A w \in Way : \E i \in Way : lru[i] = w

LEMMA WayRange == Way \in SUBSET Nat /\ 1 \in Way /\ Assoc \in Way
BY L1DCacheAssumption DEF Way

\* The way list keeps every way.
LEMMA MoveToHeadFull ==
  ASSUME Shapes, LruFull, NEW w \in Way, lru' = MoveToHead(w)
  PROVE  lru' \in [Way -> Way] /\ LruFull'
<1> DEFINE k == Place(w)
<1>1. lru \in [Way -> Way]
  BY DEF Shapes, TypeOK
<1>2. k \in Way /\ lru[k] = w
  BY DEF Place, LruFull
<1>3. lru' = [i \in Way |-> IF i = 1 THEN w ELSE IF i <= k THEN lru[i - 1] ELSE lru[i]]
  BY DEF MoveToHead
<1> HIDE DEF k
<1>4. \A i \in Way : i # 1 => i - 1 \in Way
  BY L1DCacheAssumption DEF Way
<1>5. lru' \in [Way -> Way]
  BY <1>1, <1>3, <1>4
<1>6. ASSUME NEW v \in Way PROVE \E i \in Way : lru'[i] = v
  <2>1. PICK j \in Way : lru[j] = v
    BY DEF LruFull
  <2>2. CASE v = w
    <3>1. lru'[1] = v
      BY <1>3, <2>2, WayRange
    <3> QED
      BY <3>1, WayRange
  <2>3. CASE v # w /\ j < k
    <3>1. j + 1 \in Way /\ j + 1 # 1 /\ j + 1 <= k /\ (j + 1) - 1 = j
      BY <1>2, <2>3, L1DCacheAssumption DEF Way
    <3>2. lru'[j + 1] = lru[(j + 1) - 1]
      BY <1>3, <3>1
    <3> QED
      BY <2>1, <3>1, <3>2
  <2>4. CASE v # w /\ ~(j < k)
    <3>1. j # k
      BY <1>2, <2>1, <2>4
    <3>2. j # 1 /\ ~(j <= k)
      BY <1>2, <2>4, <3>1, L1DCacheAssumption DEF Way
    <3>3. lru'[j] = lru[j]
      BY <1>3, <3>2
    <3> QED
      BY <2>1, <3>3
  <2> QED
    BY <2>2, <2>3, <2>4
<1> QED
  BY <1>5, <1>6 DEF LruFull

LEMMA TouchFull ==
  ASSUME Shapes, LruFull, NEW t, Touch(t)
  PROVE  lru' \in [Way -> Way] /\ LruFull'
<1>1. lru \in [Way -> Way]
  BY DEF Shapes, TypeOK
<1>2. CASE Present(t)
  <2>1. lru[Assoc] \in Way /\ lru' = MoveToHead(lru[Assoc])
    BY <1>1, <1>2, WayRange DEF Touch
  <2> QED
    BY <2>1, MoveToHeadFull
<1>3. CASE ~Present(t)
  <2>1. lru' = lru
    BY <1>3 DEF Touch
  <2> QED
    BY <1>1, <2>1 DEF LruFull
<1> QED
  BY <1>2, <1>3

\* The victim is a way that waits for no block.
LEMMA VictimFacts ==
  ASSUME Shapes, LruFull, Victims # {}
  PROVE  /\ Victim \in Way /\ blk[Victim].fill = NoTag
         /\ WBVictim \in Way /\ blk[WBVictim].fill = NoTag
<1> DEFINE D == {i \in Way : lru[i] \in Victims}
<1>1. Victims \in SUBSET Nat
  BY WayRange DEF Victims
<1>2. WBVictim \in Victims
  BY <1>1, MinFacts DEF WBVictim
<1>3. Assoc \in Nat /\ D \in SUBSET (1 .. Assoc)
  BY L1DCacheAssumption DEF Way
<1>4. D # {}
  BY DEF LruFull, Victims
<1>5. Victim = lru[Max(D)]
  BY DEF Victim
<1> HIDE DEF D
<1>6. Max(D) \in D
  BY <1>3, <1>4, MaxFacts
<1>7. Victim \in Victims
  BY <1>5, <1>6 DEF D
<1> QED
  BY <1>2, <1>7 DEF Victims

LEMMA WayOfFacts ==
  ASSUME NEW t, Present(t)
  PROVE  WayOf(t) \in Way /\ blk[WayOf(t)].st # "I" /\ blk[WayOf(t)].tag = t
<1>1. HitWays(t) \in SUBSET Nat /\ HitWays(t) # {}
  BY WayRange DEF HitWays, Present
<1>2. WayOf(t) \in HitWays(t)
  BY <1>1, MinFacts DEF WayOf
<1> QED
  BY <1>2 DEF HitWays

LEMMA AbsentFacts ==
  ASSUME NEW t, ~Present(t)
  PROVE  \A w \in Way : blk[w].st # "I" => blk[w].tag # t
BY DEF Present, HitWays

LEMMA InWBFacts ==
  ASSUME Shapes, NEW t
  PROVE  /\ InWB(t) <=> Copies(wb, t) > 0
         /\ Copies(wb, t) \in Nat /\ (~InWB(t) => Copies(wb, t) = 0)
<1>1. wb \in Seq(Tag)
  BY QueueTypes
<1>2. Copies(wb, t) \in Nat
  BY <1>1, InType DEF Copies
<1>3. InWB(t) <=> Copies(wb, t) > 0
  BY <1>1, ContainsIn DEF InWB
<1> QED
  BY <1>2, <1>3

-----------------------------------------------------------------------------
(* What the counts say of the ways, the rows and the accesses in flight *)

\* A way waits for a block exactly while one request that reserves it is under way.
WaysMatch == \A t \in Tag, w \in Way : Bit(blk[w].fill = t) = Total(AsksFor(t, w))

Accounted == \A a \in Access : Bit(a \in flight) = Total(Ids(a))

FillsKept == \A w \in Way : blk'[w].fill = blk[w].fill

\* A step that changes no count and no row.
LEMMA SamePreserves ==
  ASSUME RowsMatch, WaysMatch, Accounted, \A P : Kind(P) => Total(P)' = Total(P),
         RowsKept, FillsKept, UNCHANGED flight, Shapes,
         coal' \in Seq(Parked)
  PROVE  RowsMatch' /\ WaysMatch' /\ Accounted'
<1>1. ASSUME NEW u \in Tag PROVE Bit(u \in Rows') = Total(Asks(u))' + In(coal', Confs(u))
  <2>1. Total(Asks(u))' = Total(Asks(u))
    BY KindAsks
  <2>2. Bit(u \in Rows) = Total(Asks(u)) + In(coal, Confs(u))
    BY DEF RowsMatch
  <2>3. Bit(u \in Rows') + In(coal, Confs(u)) = Bit(u \in Rows) + In(coal', Confs(u))
    BY DEF RowsKept
  <2>4. Total(Asks(u)) \in Nat /\ In(coal, Confs(u)) \in Nat /\ In(coal', Confs(u)) \in Nat
    BY TotalNats, InType
  <2> DEFINE a == Bit(u \in Rows)
             b == Bit(u \in Rows')
             c == Total(Asks(u))
             d == In(coal, Confs(u))
             e == In(coal', Confs(u))
  <2>5. a = c + d /\ b + d = a + e /\ b \in Nat /\ c \in Nat /\ d \in Nat /\ e \in Nat
    BY <2>2, <2>3, <2>4 DEF Bit
  <2> HIDE DEF a, b, c, d, e
  <2>6. b = c + e
    BY <2>5
  <2> QED
    BY <2>1, <2>6 DEF b, c, e
<1>2. ASSUME NEW t \in Tag, NEW w \in Way PROVE Bit(blk'[w].fill = t) = Total(AsksFor(t, w))'
  <2>1. Total(AsksFor(t, w))' = Total(AsksFor(t, w))
    BY KindAsksFor
  <2>2. Bit(blk'[w].fill = t) = Bit(blk[w].fill = t)
    BY DEF FillsKept
  <2> QED
    BY <2>1, <2>2 DEF WaysMatch
<1>3. ASSUME NEW a \in Access PROVE Bit(a \in flight') = Total(Ids(a))'
  BY KindIds DEF Accounted
<1>4. RowsMatch'
  BY <1>1 DEF RowsMatch, Asks, Confs
<1>5. WaysMatch'
  BY <1>2 DEF WaysMatch, AsksFor
<1>6. Accounted'
  BY <1>3 DEF Accounted, Ids
<1> QED
  BY <1>4, <1>5, <1>6

\* The counts that a packet of the core takes part in, and those of a request.
LEMMA CoreMembers ==
  ASSUME NEW m \in CpuPacket
  PROVE  /\ \A u : Bit(m \in Asks(u)) = 0 /\ Bit(m \in Confs(u)) = Bit(m.tag = u /\ m.conf)
         /\ \A u, w : Bit(m \in AsksFor(u, w)) = 0
         /\ \A a : Bit(m \in Ids(a)) = Bit(m.id = a)
<1>1. m \in Packets /\ m \notin Returned \cup Requested
  BY DEF Packets, CpuPacket, Returned, Requested
<1> QED
  BY <1>1 DEF Asks, AsksFor, Ids, Confs, Bit

LEMMA RequestMembers ==
  ASSUME NEW m \in Returned \cup Requested
  PROVE  /\ \A u : Bit(m \in Asks(u)) = Bit(m.tag = u)
         /\ \A u, w : Bit(m \in AsksFor(u, w)) = Bit(m.tag = u /\ m.way = w)
         /\ \A a : Bit(m \in Ids(a)) = Bit(m.id = a)
<1>1. m \in Packets
  BY DEF Packets
<1> QED
  BY <1>1 DEF Asks, AsksFor, Ids, Bit

\* Numbers.
LEMMA Balance == \A a, b, c, d \in Nat : a + b = c + d => (b = d => a = c)
OBVIOUS

\* The access of packet m returns.
LEMMA ReturnPreserves ==
  ASSUME RowsMatch, WaysMatch, Accounted, Shapes, NEW m \in CpuPacket,
         \A P : Kind(P) => Total(P)' + Bit(m \in P) = Total(P) /\ Total(P)' \in Nat,
         RowsKept, FillsKept, flight' = flight \ {m.id}, coal' \in Seq(Parked)
  PROVE  RowsMatch' /\ WaysMatch' /\ Accounted'
<1>1. ASSUME NEW P, Kind(P), Bit(m \in P) = 0 PROVE Total(P)' = Total(P)
  <2>1. Total(P)' + Bit(m \in P) = Total(P) /\ Total(P)' \in Nat
    BY <1>1
  <2>2. Total(P)' + 0 = Total(P)
    BY <1>1, <2>1
  <2> QED
    BY <2>1, <2>2, PlusZero
<1>2. ASSUME NEW u \in Tag PROVE Bit(u \in Rows') = Total(Asks(u))' + In(coal', Confs(u))
  <2>1. Total(Asks(u))' = Total(Asks(u))
    BY <1>1, KindAsks, CoreMembers
  <2>2. Bit(u \in Rows) = Total(Asks(u)) + In(coal, Confs(u))
    BY DEF RowsMatch
  <2>3. Bit(u \in Rows') + In(coal, Confs(u)) = Bit(u \in Rows) + In(coal', Confs(u))
    BY DEF RowsKept
  <2>4. Total(Asks(u)) \in Nat /\ In(coal, Confs(u)) \in Nat /\ In(coal', Confs(u)) \in Nat
    BY TotalNats, InType
  <2> DEFINE a == Bit(u \in Rows)
             b == Bit(u \in Rows')
             c == Total(Asks(u))
             d == In(coal, Confs(u))
             e == In(coal', Confs(u))
  <2>5. a = c + d /\ b + d = a + e /\ b \in Nat /\ c \in Nat /\ d \in Nat /\ e \in Nat
    BY <2>2, <2>3, <2>4 DEF Bit
  <2> HIDE DEF a, b, c, d, e
  <2>6. b = c + e
    BY <2>5
  <2> QED
    BY <2>1, <2>6 DEF b, c, e
<1>3. ASSUME NEW t \in Tag, NEW w \in Way PROVE Bit(blk'[w].fill = t) = Total(AsksFor(t, w))'
  <2>1. Total(AsksFor(t, w))' = Total(AsksFor(t, w))
    BY <1>1, KindAsksFor, CoreMembers
  <2>2. Bit(blk'[w].fill = t) = Bit(blk[w].fill = t)
    BY DEF FillsKept
  <2> QED
    BY <2>1, <2>2 DEF WaysMatch
<1>4. ASSUME NEW a \in Access PROVE Bit(a \in flight') = Total(Ids(a))'
  <2>1. Bit(a \in flight) = Total(Ids(a))
    BY DEF Accounted
  <2>2. Total(Ids(a))' + Bit(m.id = a) = Total(Ids(a)) /\ Total(Ids(a))' \in Nat
    <3>1. Bit(m \in Ids(a)) = Bit(m.id = a)
      BY CoreMembers
    <3>2. Kind(Ids(a))
      BY KindIds
    <3> QED
      BY <3>1, <3>2
  <2>3. CASE a = m.id
    <3>1. Bit(m.id = a) = 1 /\ Bit(a \in flight') = 0
      BY <2>3 DEF Bit
    <3>2. Total(Ids(a)) = 0 \/ Total(Ids(a)) = 1
      BY <2>1 DEF Bit
    <3>3. Total(Ids(a))' + 1 = Total(Ids(a))
      BY <2>2, <3>1
    <3>4. Total(Ids(a))' = 0
      BY <2>2, <3>2, <3>3
    <3> QED
      BY <3>1, <3>4
  <2>4. CASE a # m.id
    <3>1. Bit(m.id = a) = 0 /\ Bit(a \in flight') = Bit(a \in flight)
      BY <2>4 DEF Bit
    <3>2. Total(Ids(a))' + 0 = Total(Ids(a))
      BY <2>2, <3>1
    <3> QED
      BY <2>1, <2>2, <3>1, <3>2, PlusZero
  <2> QED
    BY <2>3, <2>4
<1>5. RowsMatch'
  BY <1>2 DEF RowsMatch, Asks, Confs
<1>6. WaysMatch'
  BY <1>3 DEF WaysMatch, AsksFor
<1>7. Accounted'
  BY <1>4 DEF Accounted, Ids
<1> QED
  BY <1>5, <1>6, <1>7

\* For packet m of the core request x goes to the L2; way x.way waits for it.
LEMMA SentPreserves ==
  ASSUME RowsMatch, WaysMatch, Accounted, Shapes, NEW m \in CpuPacket, NEW x \in Requested,
         x.id = m.id, x.tag \notin Rows,
         \A P : Total(P)' + Bit(m \in P) = Total(P) + Bit(x \in P) /\ Total(P)' \in Nat,
         ort' = [ort EXCEPT ![x.tag] = "open"], UNCHANGED <<coal, flight>>,
         blk[x.way].fill = NoTag, blk'[x.way].fill = x.tag,
         \A w \in Way : w # x.way => blk'[w].fill = blk[w].fill
  PROVE  RowsMatch' /\ WaysMatch' /\ Accounted'
<1>1. x.tag \in Tag /\ x.way \in Way /\ x.tag # NoTag
  BY L1DCacheAssumption DEF Requested
<1>2. \A u \in Tag : (u \in Rows' <=> u \in Rows \/ u = x.tag)
  BY <1>1, OrtType DEF Rows
<1>3. ASSUME NEW P, Bit(m \in P) = 0 PROVE Total(P)' = Total(P) + Bit(x \in P)
  <2>1. Total(P)' + 0 = Total(P) + Bit(x \in P) /\ Total(P)' \in Nat
    BY <1>3
  <2> QED
    BY <2>1, PlusZero
<1>4. ASSUME NEW u \in Tag PROVE Bit(u \in Rows') = Total(Asks(u))' + In(coal, Confs(u))
  <2>1. Total(Asks(u))' = Total(Asks(u)) + Bit(x.tag = u)
    BY <1>3, CoreMembers, RequestMembers
  <2>2. Bit(u \in Rows) = Total(Asks(u)) + In(coal, Confs(u))
    BY DEF RowsMatch
  <2>3. Total(Asks(u)) \in Nat /\ In(coal, Confs(u)) \in Nat
    BY TotalNats
  <2>4. Bit(u \in Rows') = Bit(u \in Rows) + Bit(x.tag = u)
    BY <1>2 DEF Bit
  <2> DEFINE a == Bit(u \in Rows)
             c == Total(Asks(u))
             d == In(coal, Confs(u))
             e == Bit(x.tag = u)
  <2>5. a = c + d /\ c \in Nat /\ d \in Nat /\ e \in Nat
    BY <2>2, <2>3 DEF Bit
  <2> HIDE DEF a, c, d, e
  <2>6. a + e = (c + e) + d
    BY <2>5
  <2> QED
    BY <2>1, <2>4, <2>6 DEF a, c, d, e
<1>5. ASSUME NEW t \in Tag, NEW w \in Way PROVE Bit(blk'[w].fill = t) = Total(AsksFor(t, w))'
  <2>1. Total(AsksFor(t, w))' = Total(AsksFor(t, w)) + Bit(x.tag = t /\ x.way = w)
    BY <1>3, CoreMembers, RequestMembers
  <2>2. Bit(blk[w].fill = t) = Total(AsksFor(t, w)) /\ t # NoTag
    BY L1DCacheAssumption DEF WaysMatch
  <2>3. CASE x.way = w
    <3>1. Bit(blk[w].fill = t) = 0 /\ Bit(blk'[w].fill = t) = Bit(x.tag = t /\ x.way = w)
      BY <2>2, <2>3 DEF Bit
    <3>2. Bit(x.tag = t /\ x.way = w) \in Nat
      BY DEF Bit
    <3>3. Total(AsksFor(t, w))' = 0 + Bit(x.tag = t /\ x.way = w)
      BY <2>1, <2>2, <3>1
    <3> QED
      BY <3>1, <3>2, <3>3, PlusZero
  <2>4. CASE x.way # w
    <3>1. Bit(x.tag = t /\ x.way = w) = 0 /\ blk'[w].fill = blk[w].fill
      BY <2>4 DEF Bit
    <3>2. Total(AsksFor(t, w)) \in Nat
      BY TotalNats
    <3>3. Total(AsksFor(t, w))' = Total(AsksFor(t, w)) + 0
      BY <2>1, <3>1
    <3> QED
      BY <2>2, <3>1, <3>2, <3>3, PlusZero
  <2> QED
    BY <2>3, <2>4
<1>6. ASSUME NEW a \in Access PROVE Bit(a \in flight') = Total(Ids(a))'
  <2>1. Bit(m \in Ids(a)) = Bit(x.id = a) /\ Bit(x \in Ids(a)) = Bit(x.id = a)
    BY CoreMembers, RequestMembers
  <2>2. Total(Ids(a))' + Bit(x.id = a) = Total(Ids(a)) + Bit(x.id = a) /\ Total(Ids(a))' \in Nat
    BY <2>1
  <2>3. Bit(x.id = a) \in Nat /\ Total(Ids(a)) \in Nat
    BY TotalNats DEF Bit
  <2>4. Total(Ids(a))' = Total(Ids(a))
    BY <2>2, <2>3, Balance
  <2> QED
    BY <2>4 DEF Accounted
<1>7. RowsMatch'
  BY <1>4 DEF RowsMatch, Asks, Confs
<1>8. WaysMatch'
  BY <1>5 DEF WaysMatch, AsksFor
<1>9. Accounted'
  BY <1>6 DEF Accounted, Ids
<1> QED
  BY <1>7, <1>8, <1>9

\* Reply m is served, its row and its way are free again, and x is retried.
LEMMA AnswerPreserves ==
  ASSUME RowsMatch, WaysMatch, Accounted, Shapes, NEW m \in Returned, NEW x \in CpuPacket,
         x.id = m.id, Total(Asks(m.tag)) = 1, Total(AsksFor(m.tag, m.way)) = 1,
         \A P : Total(P)' + Bit(m \in P) = Total(P) + Bit(x \in P) /\ Total(P)' \in Nat,
         ort' = [ort EXCEPT ![m.tag] = "free"], UNCHANGED <<coal, flight>>,
         blk'[m.way].fill = NoTag, \A w \in Way : w # m.way => blk'[w].fill = blk[w].fill
  PROVE  RowsMatch' /\ WaysMatch' /\ Accounted'
<1>1. m.tag \in Tag /\ m.way \in Way /\ m.tag # NoTag
  BY L1DCacheAssumption DEF Returned
<1>2. \A u \in Tag : (u \in Rows' <=> u \in Rows /\ u # m.tag)
  BY <1>1, OrtType DEF Rows
<1>3. ASSUME NEW P, Bit(x \in P) = 0 PROVE Total(P)' + Bit(m \in P) = Total(P) /\ Total(P)' \in Nat
  <2>1. Total(P)' + Bit(m \in P) = Total(P) + 0 /\ Total(P)' \in Nat
    BY <1>3
  <2> QED
    BY <2>1, PlusZero, TotalNats
<1>4. ASSUME NEW u \in Tag PROVE Bit(u \in Rows') = Total(Asks(u))' + In(coal, Confs(u))
  <2>1. Total(Asks(u))' + Bit(m.tag = u) = Total(Asks(u)) /\ Total(Asks(u))' \in Nat
    <3>1. Bit(x \in Asks(u)) = 0 /\ Bit(m \in Asks(u)) = Bit(m.tag = u)
      BY CoreMembers, RequestMembers
    <3>2. Total(Asks(u))' + Bit(m \in Asks(u)) = Total(Asks(u)) /\ Total(Asks(u))' \in Nat
      BY <1>3, <3>1
    <3> QED
      BY <3>1, <3>2
  <2>2. Bit(u \in Rows) = Total(Asks(u)) + In(coal, Confs(u))
    BY DEF RowsMatch
  <2>3. Total(Asks(u)) \in Nat /\ In(coal, Confs(u)) \in Nat
    BY TotalNats
  <2> DEFINE a == Total(Asks(u))'
             c == Total(Asks(u))
             d == In(coal, Confs(u))
  <2>4. CASE m.tag = u
    <3>1. Bit(m.tag = u) = 1 /\ Bit(u \in Rows') = 0 /\ c = 1 /\ (Bit(u \in Rows) = 0 \/ Bit(u \in Rows) = 1)
      BY <1>2, <2>4 DEF Bit
    <3>2. a + 1 = 1 /\ a \in Nat /\ (1 + d = 0 \/ 1 + d = 1) /\ d \in Nat
      BY <2>1, <2>2, <2>3, <3>1
    <3> HIDE DEF a, c, d
    <3>3. a + d = 0
      BY <3>2
    <3> QED
      BY <3>1, <3>3 DEF a, c, d
  <2>5. CASE m.tag # u
    <3>1. Bit(m.tag = u) = 0 /\ Bit(u \in Rows') = Bit(u \in Rows)
      BY <1>2, <2>5 DEF Bit
    <3>2. a + 0 = c /\ a \in Nat
      BY <2>1, <3>1
    <3>3. a = c
      BY <3>2, PlusZero
    <3> QED
      BY <2>2, <3>1, <3>3
  <2> QED
    BY <2>4, <2>5
<1>5. ASSUME NEW t \in Tag, NEW w \in Way PROVE Bit(blk'[w].fill = t) = Total(AsksFor(t, w))'
  <2>1. Total(AsksFor(t, w))' + Bit(m.tag = t /\ m.way = w) = Total(AsksFor(t, w))
        /\ Total(AsksFor(t, w))' \in Nat
    <3>1. Bit(x \in AsksFor(t, w)) = 0 /\ Bit(m \in AsksFor(t, w)) = Bit(m.tag = t /\ m.way = w)
      BY CoreMembers, RequestMembers
    <3>2. Total(AsksFor(t, w))' + Bit(m \in AsksFor(t, w)) = Total(AsksFor(t, w))
          /\ Total(AsksFor(t, w))' \in Nat
      BY <1>3, <3>1
    <3> QED
      BY <3>1, <3>2
  <2>2. Bit(blk[w].fill = t) = Total(AsksFor(t, w)) /\ t # NoTag
    BY L1DCacheAssumption DEF WaysMatch
  <2> DEFINE a == Total(AsksFor(t, w))'
             c == Total(AsksFor(t, w))
  <2>3. CASE m.tag = t /\ m.way = w
    <3>1. Bit(m.tag = t /\ m.way = w) = 1 /\ c = 1 /\ Bit(blk'[w].fill = t) = 0
      BY <2>2, <2>3 DEF Bit
    <3>2. a + 1 = 1 /\ a \in Nat
      BY <2>1, <3>1
    <3> HIDE DEF a, c
    <3>3. a = 0
      BY <3>2
    <3> QED
      BY <3>1, <3>3 DEF a
  <2>4. CASE ~(m.tag = t /\ m.way = w)
    <3>1. Bit(m.tag = t /\ m.way = w) = 0
      BY <2>4 DEF Bit
    <3>2. a + 0 = c /\ a \in Nat
      BY <2>1, <3>1
    <3>3. a = c
      BY <3>2, PlusZero
    <3>4. Bit(blk'[w].fill = t) = Bit(blk[w].fill = t)
      <4>1. CASE m.way # w
        BY <4>1
      <4>2. CASE m.way = w
        <5>1. m.tag # t /\ blk[w].fill = m.tag
          <6>1. Bit(blk[m.way].fill = m.tag) = 1
            BY <1>1 DEF WaysMatch
          <6> QED
            BY <2>4, <4>2, <6>1 DEF Bit
        <5> QED
          BY <2>2, <4>2, <5>1 DEF Bit
      <4> QED
        BY <4>1, <4>2
    <3> QED
      BY <2>2, <3>3, <3>4
  <2> QED
    BY <2>3, <2>4
<1>6. ASSUME NEW a \in Access PROVE Bit(a \in flight') = Total(Ids(a))'
  <2>1. Bit(m \in Ids(a)) = Bit(x.id = a) /\ Bit(x \in Ids(a)) = Bit(x.id = a)
    BY CoreMembers, RequestMembers
  <2>2. Total(Ids(a))' + Bit(x.id = a) = Total(Ids(a)) + Bit(x.id = a) /\ Total(Ids(a))' \in Nat
    BY <2>1
  <2>3. Bit(x.id = a) \in Nat /\ Total(Ids(a)) \in Nat
    BY TotalNats DEF Bit
  <2>4. Total(Ids(a))' = Total(Ids(a))
    BY <2>2, <2>3, Balance
  <2> QED
    BY <2>4 DEF Accounted
<1>7. RowsMatch'
  BY <1>4 DEF RowsMatch, Asks, Confs
<1>8. WaysMatch'
  BY <1>5 DEF WaysMatch, AsksFor
<1>9. Accounted'
  BY <1>6 DEF Accounted, Ids
<1> QED
  BY <1>7, <1>8, <1>9

-----------------------------------------------------------------------------
(* The invariant *)

L1DInv ==
  /\ Shapes /\ LruFull /\ Placed(blk, wb)
  /\ RowsMatch /\ WaysMatch /\ Accounted /\ RetryFree /\ CreditMatch

LEMMA Widen ==
  ASSUME NEW S, NEW T, S \subseteq T, NEW s \in Seq(S)
  PROVE  s \in Seq(T)
OBVIOUS

LEMMA BlockTypes ==
  ASSUME Shapes
  PROVE  /\ blk \in [Way -> Block] /\ lru \in [Way -> Way] /\ wb \in Seq(Tag)
         /\ flight \in SUBSET Access /\ unsaved \in SUBSET Tag
BY DEF Shapes, TypeOK, Block

\* The types after a step.
LEMMA ShapesAfter ==
  ASSUME QueuesTyped', blk' \in [Way -> Block], lru' \in [Way -> Way], wb' \in Seq(Tag),
         tx' \in Seq(ToL2), up' \in Seq(FromL2), flight' \in SUBSET Access,
         unsaved' \in SUBSET Tag, l2' \in [Tag -> BlockState], l2wb' \in [Tag -> BOOLEAN],
         l2fwd' \in [Tag -> {"none", "downgrade", "getx_fwd_inval"}],
         l2miss' \in [Tag -> Requested \cup {NoRequest}],
         \A t \in Tag : l2miss'[t] # NoRequest => l2miss'[t].tag = t
  PROVE  Shapes'
<1>1. /\ DOMAIN inq' = Queue
      /\ inq'["top"] \in Seq(Fresh) /\ inq'["retry"] \in Seq(RetriedPacket)
      /\ inq'["bot"] \in Seq(Bottom) /\ inq'["coh"] \in Seq(Coherence)
      /\ ort' \in [Tag -> {"free", "open", "stale"}] /\ coal' \in Seq(Parked) /\ credit' \in Nat
  BY DEF QueuesTyped
<1>2. Fresh \subseteq CpuPacket /\ RetriedPacket \subseteq CpuPacket /\ Bottom \subseteq FromL2
      /\ Coherence \subseteq FromL2
  BY DEF Fresh, RetriedPacket, Bottom, Coherence, FromL2
<1>3. inq'["top"] \in Seq(CpuPacket) /\ inq'["retry"] \in Seq(CpuPacket)
      /\ inq'["bot"] \in Seq(FromL2) /\ inq'["coh"] \in Seq(FromL2)
  BY <1>1, <1>2, Widen
<1>4. TypeOK'
  BY <1>1, <1>3 DEF TypeOK, Block, Parked
<1> QED
  BY <1>1, <1>4 DEF Shapes

LEMMA CacheShapes ==
  ASSUME Shapes, QueuesTyped', blk' \in [Way -> Block], lru' \in [Way -> Way], wb' \in Seq(Tag),
         tx' \in Seq(ToL2), flight' \in SUBSET Access, unsaved' \in SUBSET Tag,
         UNCHANGED <<up, l2Vars>>
  PROVE  Shapes'
<1>1. /\ up' \in Seq(FromL2) /\ l2' \in [Tag -> BlockState] /\ l2wb' \in [Tag -> BOOLEAN]
      /\ l2fwd' \in [Tag -> {"none", "downgrade", "getx_fwd_inval"}]
      /\ l2miss' \in [Tag -> Requested \cup {NoRequest}]
      /\ \A t \in Tag : l2miss'[t] # NoRequest => l2miss'[t].tag = t
  BY DEF Shapes, TypeOK, l2Vars
<1> QED
  BY <1>1, ShapesAfter

\* What the controller finds in its queues, by the type of the message.
LEMMA MessageKinds ==
  ASSUME Shapes, RetryFree, NEW q, NEW m, Taken(q, m)
  PROVE  /\ m.type \in {"load", "store", "load_retry", "store_retry"} =>
              m \in CpuPacket /\ q \in {"top", "retry"}
         /\ m.type \in {"puts", "put_clnx", "putx", "get_nack", "getx_nack", "upgrade_ack"} =>
              m \in Returned
         /\ m.type \in {"upgrade_inval", "downgrade", "getx_fwd_inval", "flush_block"} =>
              m \in FromL2 /\ m \notin Packets /\ m.tag \in Tag
<1>1. q \in Queue
  BY DEF Taken
<1>2. CASE q = "top"
  <2>1. m \in CpuPacket /\ m.type = m.op
    BY <1>2, TakenPacket DEF Fresh
  <2> QED
    BY <1>2, <2>1 DEF CpuPacket
<1>3. CASE q = "retry"
  <2>1. m \in CpuPacket /\ m.type \in Retried
    BY <1>3, TakenPacket DEF RetriedPacket
  <2> QED
    BY <1>3, <2>1 DEF Retried
<1>4. CASE q = "bot"
  <2>1. m \in Returned /\ m.type \in ToBottom
    BY <1>4, TakenPacket DEF Bottom
  <2> QED
    BY <2>1 DEF ToBottom
<1>5. CASE q = "coh"
  <2>1. m \in FromL2
    BY <1>5, TakenPacket DEF Coherence
  <2>2. CASE m \in Returned
    BY <2>2 DEF Returned, ToBottom
  <2>3. CASE m \notin Returned
    <3>1. m \in [type : {"upgrade_inval", "downgrade", "getx_fwd_inval"}, tag : Tag]
          \/ m \in [type : {"flush_block"}, tag : Tag, st : {"S", "E", "M"}]
      BY <2>1, <2>3 DEF FromL2
    <3>2. m.tag \in Tag /\ m.type \in {"upgrade_inval", "downgrade", "getx_fwd_inval", "flush_block"}
      BY <3>1
    <3>3. m \notin Packets
      BY <3>1 DEF Packets, CpuPacket, Returned, Requested
    <3> QED
      BY <2>1, <3>2, <3>3
  <2> QED
    BY <2>2, <2>3
<1> QED
  BY <1>1, <1>2, <1>3, <1>4, <1>5 DEF Queue

\* What is in a queue is counted.
LEMMA TakenCounted ==
  ASSUME Shapes, NEW q, NEW m, Taken(q, m), NEW P, m \in P
  PROVE  Total(P) > 0
<1>1. q \in Queue /\ inq[q] # <<>> /\ m = Head(inq[q])
  BY DEF Taken
<1>2. PICK S : inq[q] \in Seq(S)
  BY <1>1, QueueTypes DEF Queue
<1>3. 1 \in DOMAIN inq[q] /\ m = inq[q][1]
  BY <1>1, <1>2
<1>4. In(inq[q], P) > 0
  BY <1>2, <1>3, InSome
<1>5. /\ In(inq["top"], P) \in Nat /\ In(inq["bot"], P) \in Nat /\ In(inq["coh"], P) \in Nat
      /\ In(inq["retry"], P) \in Nat
  BY TotalNats
<1>6. Queued(P) > 0
  BY <1>1, <1>4, <1>5 DEF Queued, Queue
<1>7. Queued(P) \in Nat /\ In(coal, P) \in Nat /\ In(tx, P) \in Nat /\ In(up, P) \in Nat
      /\ Missing(P) \in Nat
  BY TotalNats
<1> QED
  BY <1>6, <1>7 DEF Total

\* A packet on its way back has a row and a way that waits for its block.
LEMMA ReplyBacked ==
  ASSUME Shapes, RowsMatch, WaysMatch, NEW m \in Returned \cup Requested,
         \A P : m \in P => Total(P) > 0
  PROVE  /\ Total(Asks(m.tag)) = 1 /\ Total(AsksFor(m.tag, m.way)) = 1
         /\ m.tag \in Rows /\ blk[m.way].fill = m.tag /\ m.way \in Way /\ m.tag \in Tag
<1>1. m.tag \in Tag /\ m.way \in Way
  BY DEF Returned, Requested
<1>2. Total(Asks(m.tag)) > 0 /\ Total(AsksFor(m.tag, m.way)) > 0
  BY DEF Asks, AsksFor
<1>3. Total(Asks(m.tag)) = 1 /\ m.tag \in Rows
  BY <1>1, <1>2, ConfsOnce
<1>4. Bit(blk[m.way].fill = m.tag) = Total(AsksFor(m.tag, m.way))
  BY <1>1 DEF WaysMatch
<1>5. blk[m.way].fill = m.tag /\ Total(AsksFor(m.tag, m.way)) = 1
  BY <1>2, <1>4 DEF Bit
<1> QED
  BY <1>1, <1>3, <1>5

\* A block that nobody has asked for is not waited for.
LEMMA FreeRow ==
  ASSUME Shapes, RowsMatch, WaysMatch, NEW t \in Tag, t \notin Rows
  PROVE  \A w \in Way : blk[w].fill # t
<1> SUFFICES ASSUME NEW w \in Way, blk[w].fill = t PROVE FALSE
  OBVIOUS
<1>1. Total(Asks(t)) = 0
  BY ConfsOnce
<1>2. Total(AsksFor(t, w)) = 1
  BY DEF WaysMatch, Bit
<1>3. Total(AsksFor(t, w)) <= Total(Asks(t))
  <2>1. AsksFor(t, w) \subseteq Asks(t)
    BY DEF Asks, AsksFor
  <2> QED
    BY <2>1, TotalSubset
<1> QED
  BY <1>1, <1>2, <1>3

\* An access that goes out finds the row of its block free.
LEMMA GoesFree ==
  ASSUME Shapes, RetryFree, NEW q, NEW n \in CpuPacket, Taken(q, n),
         NEW m, Goes(m), m.conf = n.conf, m.tag = n.tag
  PROVE  m.tag \notin Rows
<1>1. CASE m.conf
  <2>1. q # "top"
    BY <1>1, TakenPacket DEF Fresh
  <2>2. n.type \in {"load", "store", "load_retry", "store_retry"}
    BY DEF CpuPacket, Retried
  <2>3. q = "retry"
    BY <2>1, <2>2, MessageKinds
  <2> QED
    BY <2>3, TakenPacket
<1>2. CASE ~m.conf
  BY <1>2 DEF Goes, Rows
<1> QED
  BY <1>1, <1>2

-----------------------------------------------------------------------------
(* The steps of the controller *)

\* An access is set aside.
LEMMA CoalesceInv ==
  ASSUME L1DInv, NEW q, NEW n \in CpuPacket, Taken(q, n), NEW m \in CpuPacket, m.id = n.id,
         m.tag = n.tag, Coalesce(q, m), lru' \in [Way -> Way], LruFull', UNCHANGED <<up, l2Vars>>
  PROVE  L1DInv'
<1>1. /\ Shapes /\ LruFull /\ Placed(blk, wb)
      /\ RowsMatch /\ WaysMatch /\ Accounted /\ RetryFree /\ CreditMatch
  BY DEF L1DInv
<1>2. UNCHANGED <<blk, wb, tx, flight, unsaved>> /\ UNCHANGED <<up, l2miss>>
  BY DEF Coalesce, l2Vars
<1>3. /\ \A P : Kind(P) => Total(P)' = Total(P)
      /\ RowsKept /\ QueuesTyped' /\ CreditMatch' /\ RetryFree'
  BY <1>1, <1>2, CoalesceCounts
<1>4. FillsKept
  BY <1>2 DEF FillsKept
<1>5. coal' \in Seq(Parked)
  BY <1>3 DEF QueuesTyped
<1>6. RowsMatch' /\ WaysMatch' /\ Accounted'
  BY <1>1, <1>2, <1>3, <1>4, <1>5, SamePreserves
<1>7. /\ blk' \in [Way -> Block] /\ wb' \in Seq(Tag) /\ tx' \in Seq(ToL2)
      /\ flight' \in SUBSET Access /\ unsaved' \in SUBSET Tag
  BY <1>1, <1>2, BlockTypes, QueueTypes
<1>8. Shapes'
  BY <1>1, <1>3, <1>7, CacheShapes
<1>9. Placed(blk', wb')
  BY <1>1, <1>2
<1> QED
  BY <1>3, <1>6, <1>8, <1>9 DEF L1DInv

\* An access returns.
LEMMA ReturnInv ==
  ASSUME L1DInv, NEW q, NEW m \in CpuPacket, Taken(q, m), Return(q, m), UNCHANGED tx,
         lru' \in [Way -> Way], LruFull', FillsKept, blk' \in [Way -> Block], wb' \in Seq(Tag),
         Placed(blk', wb'), unsaved' \in SUBSET Tag, UNCHANGED <<up, l2Vars>>
  PROVE  L1DInv'
<1>1. /\ Shapes /\ LruFull /\ Placed(blk, wb)
      /\ RowsMatch /\ WaysMatch /\ Accounted /\ RetryFree /\ CreditMatch
  BY DEF L1DInv
<1>2. UNCHANGED <<up, l2miss, tx>>
  BY DEF l2Vars
<1>3. /\ \A P : Kind(P) => Total(P)' + Bit(m \in P) = Total(P) /\ Total(P)' \in Nat
      /\ RowsKept /\ QueuesTyped' /\ CreditMatch' /\ RetryFree' /\ flight' = flight \ {m.id}
  BY <1>1, <1>2, ReturnCounts
<1>4. coal' \in Seq(Parked)
  BY <1>3 DEF QueuesTyped
<1>5. RowsMatch' /\ WaysMatch' /\ Accounted'
  BY <1>1, <1>3, <1>4, ReturnPreserves
<1>6. tx' \in Seq(ToL2) /\ flight' \in SUBSET Access
  BY <1>1, <1>3, BlockTypes, QueueTypes
<1>7. Shapes'
  BY <1>1, <1>3, <1>6, CacheShapes
<1> QED
  BY <1>3, <1>5, <1>7 DEF L1DInv

LEMMA RequestTypes ==
  ASSUME NEW m \in Packets, NEW type \in {"get", "getx", "upgrade"},
         NEW r \in {"get", "getx", "upgrade"}, NEW w \in Way
  PROVE  /\ Request(m, type, r, w) \in Requested /\ Request(m, type, r, w) \in ToL2
         /\ Request(m, type, r, w).id = m.id /\ Request(m, type, r, w).tag = m.tag
         /\ Request(m, type, r, w).way = w
BY DEF Request, Requested, ToL2, Packets, CpuPacket, Returned

\* A request is sent.
LEMMA SendInv ==
  ASSUME L1DInv, NEW q, NEW n \in CpuPacket, Taken(q, n), NEW m \in CpuPacket, m.id = n.id,
         m.tag = n.tag, m.conf = n.conf, NEW type \in {"get", "getx", "upgrade"}, NEW w \in Way,
         Send(q, m, type, w), blk[w].fill = NoTag, blk'[w].fill = m.tag,
         \A v \in Way : v # w => blk'[v].fill = blk[v].fill,
         lru' \in [Way -> Way], LruFull', blk' \in [Way -> Block], wb' \in Seq(Tag),
         Placed(blk', wb'), UNCHANGED <<up, l2Vars>>
  PROVE  L1DInv'
<1> DEFINE x == Request(m, type, type, w)
<1>1. /\ Shapes /\ LruFull /\ Placed(blk, wb)
      /\ RowsMatch /\ WaysMatch /\ Accounted /\ RetryFree /\ CreditMatch
  BY DEF L1DInv
<1>2. /\ Goes(m) /\ ort' = [ort EXCEPT ![m.tag] = "open"] /\ tx' = Append(tx, x)
      /\ Dequeue(q, <<>>) /\ credit' = credit - 1 /\ UNCHANGED <<coal, flight, unsaved>>
      /\ UNCHANGED <<up, l2miss>>
  BY DEF Send, l2Vars
<1>3. m \in Packets
  BY DEF Packets
<1>4. x \in Requested /\ x \in ToL2 /\ x.id = m.id /\ x.tag = m.tag /\ x.way = w
  BY <1>3, RequestTypes
<1> HIDE DEF x
<1>5. m.tag \notin Rows
  BY <1>1, <1>2, GoesFree
<1>6. ort' \in [Tag -> {"free", "open", "stale"}]
  BY <1>1, <1>2, OrtType
<1>7. /\ \A P : Total(P)' + Bit(n \in P) = Total(P) + Bit(x \in P) /\ Total(P)' \in Nat
      /\ tx' \in Seq(ToL2) /\ QueuesTyped' /\ CreditMatch' /\ RetryFree'
  BY <1>1, <1>2, <1>4, <1>6, AppendCounts
<1>8. RowsMatch' /\ WaysMatch' /\ Accounted'
  BY <1>1, <1>2, <1>4, <1>5, <1>7, SentPreserves
<1>9. flight' \in SUBSET Access /\ unsaved' \in SUBSET Tag
  BY <1>1, <1>2, BlockTypes
<1>10. Shapes'
  BY <1>1, <1>7, <1>9, CacheShapes
<1> QED
  BY <1>7, <1>8, <1>10 DEF L1DInv

\* A reply is served and the access is retried.
LEMMA AnswerInv ==
  ASSUME L1DInv, NEW q, NEW m \in Returned, Taken(q, m),
         ort' = [ort EXCEPT ![m.tag] = "free"], Dequeue(q, <<RetryOf(m, FALSE, FALSE)>>),
         blk'[m.way].fill = NoTag, \A v \in Way : v # m.way => blk'[v].fill = blk[v].fill,
         blk' \in [Way -> Block], Placed(blk', wb'),
         UNCHANGED <<lru, coal, wb, tx, credit, flight, unsaved>>, UNCHANGED <<up, l2Vars>>
  PROVE  L1DInv'
<1> DEFINE x == RetryOf(m, FALSE, FALSE)
<1>1. /\ Shapes /\ LruFull /\ Placed(blk, wb)
      /\ RowsMatch /\ WaysMatch /\ Accounted /\ RetryFree /\ CreditMatch
  BY DEF L1DInv
<1>2. Dequeue(q, <<x>>) /\ UNCHANGED <<up, l2miss>>
  BY DEF l2Vars
<1>3. x \in RetriedPacket /\ x \in CpuPacket /\ x.id = m.id /\ x.tag = m.tag
  <2>1. m \in Packets
    BY DEF Packets
  <2> QED
    BY <2>1, RetryOfPacket
<1> HIDE DEF x
<1>4. ort' \in [Tag -> {"free", "open", "stale"}] /\ ort'[x.tag] = "free"
  <2>1. m.tag \in Tag
    BY DEF Returned
  <2> QED
    BY <1>1, <1>3, <2>1, OrtType
<1>5. /\ \A P : Total(P)' + Bit(m \in P) = Total(P) + Bit(x \in P) /\ Total(P)' \in Nat
      /\ tx' \in Seq(ToL2) /\ QueuesTyped' /\ CreditMatch' /\ RetryFree'
  BY <1>1, <1>2, <1>3, <1>4, RetryCounts
<1>6. Total(Asks(m.tag)) = 1 /\ Total(AsksFor(m.tag, m.way)) = 1
  <2>1. \A P : m \in P => Total(P) > 0
    BY <1>1, TakenCounted
  <2> QED
    BY <1>1, <2>1, ReplyBacked
<1>7. RowsMatch' /\ WaysMatch' /\ Accounted'
  BY <1>1, <1>3, <1>5, <1>6, AnswerPreserves
<1>8. /\ lru' \in [Way -> Way] /\ wb' \in Seq(Tag) /\ flight' \in SUBSET Access
      /\ unsaved' \in SUBSET Tag
  BY <1>1, BlockTypes
<1>9. Shapes'
  BY <1>1, <1>5, <1>8, CacheShapes
<1>10. LruFull'
  BY <1>1 DEF LruFull
<1> QED
  BY <1>5, <1>7, <1>9, <1>10 DEF L1DInv

\* A request goes out again for reply m.
LEMMA RepeatInv ==
  ASSUME L1DInv, NEW q, NEW m \in Returned, Taken(q, m), NEW type \in {"get", "getx", "upgrade"},
         tx' = Append(tx, Request(m, type, m.req, m.way)), Dequeue(q, <<>>), credit' = credit - 1,
         ort' \in [Tag -> {"free", "open", "stale"}],
         \A u \in Tag : ort'[u] = "free" <=> ort[u] = "free",
         UNCHANGED <<blk, lru, coal, wb, flight, unsaved>>, UNCHANGED <<up, l2Vars>>
  PROVE  L1DInv'
<1> DEFINE x == Request(m, type, m.req, m.way)
<1>1. /\ Shapes /\ LruFull /\ Placed(blk, wb)
      /\ RowsMatch /\ WaysMatch /\ Accounted /\ RetryFree /\ CreditMatch
  BY DEF L1DInv
<1>2. tx' = Append(tx, x) /\ UNCHANGED <<up, l2miss>>
  BY DEF l2Vars
<1>3. x \in Requested /\ x \in ToL2 /\ x.id = m.id /\ x.tag = m.tag /\ x.way = m.way
  <2>1. m \in Packets /\ m.req \in {"get", "getx", "upgrade"} /\ m.way \in Way
    BY DEF Packets, Returned
  <2> QED
    BY <2>1, RequestTypes
<1> HIDE DEF x
<1>4. /\ \A P : Total(P)' + Bit(m \in P) = Total(P) + Bit(x \in P) /\ Total(P)' \in Nat
      /\ tx' \in Seq(ToL2) /\ QueuesTyped' /\ CreditMatch' /\ RetryFree'
  BY <1>1, <1>2, <1>3, AppendCounts
<1>5. ASSUME NEW P, Kind(P) PROVE Total(P)' = Total(P)
  <2>1. Bit(m \in P) = Bit(x \in P)
    BY <1>3, <1>5 DEF Kind, Bit
  <2>2. Total(P)' + Bit(x \in P) = Total(P) + Bit(x \in P) /\ Total(P)' \in Nat
    BY <1>4, <2>1
  <2>3. Total(P) \in Nat /\ Bit(x \in P) \in Nat
    BY <1>1, TotalNats DEF Bit
  <2> QED
    BY <2>2, <2>3, Balance
<1>6. RowsKept
  BY DEF RowsKept, Rows, Bit
<1>7. FillsKept /\ coal' \in Seq(Parked)
  BY <1>1, QueueTypes DEF FillsKept
<1>8. RowsMatch' /\ WaysMatch' /\ Accounted'
  BY <1>1, <1>5, <1>6, <1>7, SamePreserves
<1>9. /\ blk' \in [Way -> Block] /\ lru' \in [Way -> Way] /\ wb' \in Seq(Tag)
      /\ flight' \in SUBSET Access /\ unsaved' \in SUBSET Tag
  BY <1>1, BlockTypes
<1>10. Shapes'
  BY <1>1, <1>4, <1>9, CacheShapes
<1>11. LruFull' /\ Placed(blk', wb')
  BY <1>1 DEF LruFull
<1> QED
  BY <1>4, <1>8, <1>10, <1>11 DEF L1DInv

\* A demand of the L2 is served and perhaps answered.
LEMMA DemandInv ==
  ASSUME L1DInv, NEW q, NEW m, m \notin Packets, m.tag \in Tag, Taken(q, m), Demanded(q, m),
         NEW x \in ToL2, x \notin Packets, tx' = tx \/ tx' = Append(tx, x),
         FillsKept, blk' \in [Way -> Block], wb' \in Seq(Tag), Placed(blk', wb'),
         unsaved' = unsaved, UNCHANGED <<up, l2Vars>>
  PROVE  L1DInv'
<1>1. /\ Shapes /\ LruFull /\ Placed(blk, wb)
      /\ RowsMatch /\ WaysMatch /\ Accounted /\ RetryFree /\ CreditMatch
  BY DEF L1DInv
<1>2. /\ MarkStale(m.tag) /\ Dequeue(q, <<>>) /\ credit' = credit - 1
      /\ UNCHANGED <<lru, coal, flight>> /\ UNCHANGED <<up, l2miss>>
  BY DEF Demanded, l2Vars
<1>3. /\ ort' \in [Tag -> {"free", "open", "stale"}]
      /\ \A u \in Tag : ort'[u] = "free" <=> ort[u] = "free"
  BY <1>1, <1>2, OrtType DEF MarkStale, Rows
<1>4. ASSUME NEW P, Kind(P) PROVE P \subseteq Packets /\ Bit(m \in P) = 0 /\ Bit(x \in P) = 0
  BY <1>4 DEF Kind, Bit
<1>5. /\ \A P : Kind(P) => Total(P)' = Total(P)
      /\ tx' \in Seq(ToL2) /\ QueuesTyped' /\ CreditMatch' /\ RetryFree'
  <2>1. CASE tx' = tx
    <3>1. /\ \A P : Total(P)' + Bit(m \in P) = Total(P) /\ Total(P)' \in Nat
          /\ tx' \in Seq(ToL2) /\ QueuesTyped' /\ CreditMatch' /\ RetryFree'
      BY <1>1, <1>2, <1>3, <2>1, DropCounts
    <3>2. ASSUME NEW P, Kind(P) PROVE Total(P)' = Total(P)
      <4>1. Total(P)' + 0 = Total(P) /\ Total(P)' \in Nat
        BY <1>4, <3>1, <3>2
      <4> QED
        BY <4>1, PlusZero
    <3> QED
      BY <3>1, <3>2
  <2>2. CASE tx' = Append(tx, x)
    <3>1. /\ \A P : Total(P)' + Bit(m \in P) = Total(P) + Bit(x \in P) /\ Total(P)' \in Nat
          /\ tx' \in Seq(ToL2) /\ QueuesTyped' /\ CreditMatch' /\ RetryFree'
      BY <1>1, <1>2, <1>3, <2>2, AppendCounts
    <3>2. ASSUME NEW P, Kind(P) PROVE Total(P)' = Total(P)
      <4>1. Total(P)' + 0 = Total(P) + 0 /\ Total(P)' \in Nat
        BY <1>4, <3>1, <3>2
      <4>2. Total(P) \in Nat
        BY <1>1, TotalNats
      <4> QED
        BY <4>1, <4>2, PlusZero
    <3> QED
      BY <3>1, <3>2
  <2> QED
    BY <2>1, <2>2
<1>6. RowsKept
  BY <1>2, <1>3 DEF RowsKept, Rows, Bit
<1>7. coal' \in Seq(Parked)
  BY <1>1, <1>2, QueueTypes
<1>8. RowsMatch' /\ WaysMatch' /\ Accounted'
  BY <1>1, <1>2, <1>5, <1>6, <1>7, SamePreserves
<1>9. lru' \in [Way -> Way] /\ flight' \in SUBSET Access /\ unsaved' \in SUBSET Tag
  BY <1>1, <1>2, BlockTypes
<1>10. Shapes'
  BY <1>1, <1>5, <1>9, CacheShapes
<1>11. LruFull'
  BY <1>1, <1>2 DEF LruFull
<1> QED
  BY <1>5, <1>8, <1>10, <1>11 DEF L1DInv

LEMMA SetsFacts ==
  ASSUME NEW b \in [Way -> Block], NEW w \in Way, NEW x \in Block,
         NEW c, c = [b EXCEPT ![w] = x]
  PROVE  Sets(b, c, w, x) /\ c \in [Way -> Block]
BY DEF Sets

LEMMA SetState ==
  ASSUME NEW b \in [Way -> Block], NEW w \in Way, NEW y \in BlockState,
         NEW c, c = [b EXCEPT ![w].st = y]
  PROVE  /\ c = [b EXCEPT ![w] = [tag |-> b[w].tag, st |-> y, fill |-> b[w].fill]]
         /\ [tag |-> b[w].tag, st |-> y, fill |-> b[w].fill] \in Block
<1>1. [b[w] EXCEPT !.st = y] = [tag |-> b[w].tag, st |-> y, fill |-> b[w].fill]
  BY DEF Block
<1>2. c = [b EXCEPT ![w] = [b[w] EXCEPT !.st = y]]
  OBVIOUS
<1>3. [tag |-> b[w].tag, st |-> y, fill |-> b[w].fill] \in Block
  BY DEF Block
<1> QED
  BY <1>1, <1>2, <1>3

\* The cases of cgm_mesi_load() and cgm_mesi_store(): a miss, a block in the write-back buffer, a hit.
LEMMA MissInv ==
  ASSUME L1DInv, NEW q, NEW m \in CpuPacket, Taken(q, m), NEW type \in {"get", "getx"},
         Goes(m) => Victims # {}, Miss(q, m, type), UNCHANGED <<up, l2Vars>>
  PROVE  L1DInv'
<1>1. /\ Shapes /\ LruFull /\ Placed(blk, wb) /\ RowsMatch /\ WaysMatch /\ RetryFree
      /\ blk \in [Way -> Block] /\ lru \in [Way -> Way] /\ wb \in Seq(Tag)
  BY BlockTypes DEF L1DInv
<1>2. CASE /\ Send(q, m, type, Victim)
           /\ wb' = Evicted(Victim)
           /\ blk' = [blk EXCEPT ![Victim] = [tag |-> NoTag, st |-> "I", fill |-> m.tag]]
           /\ lru' = MoveToHead(Victim)
  <2> DEFINE x == [tag |-> NoTag, st |-> "I", fill |-> m.tag]
             w == Victim
  <2>1. Goes(m) /\ m.tag \in Tag
    BY <1>2 DEF Send, CpuPacket
  <2>2. w \in Way /\ blk[w].fill = NoTag
    BY <1>1, <2>1, VictimFacts
  <2>3. lru' \in [Way -> Way] /\ LruFull'
    BY <1>1, <1>2, <2>2, MoveToHeadFull
  <2>4. wb' = Victimized(blk, wb, w)
    BY <1>2 DEF Evicted, Victimized
  <2> HIDE DEF w
  <2>5. x \in Block /\ x.fill = m.tag
    BY <2>1 DEF Block, BlockState
  <2>6. Sets(blk, blk', w, x) /\ blk' \in [Way -> Block]
    <3>1. blk' = [blk EXCEPT ![w] = x]
      BY <1>2 DEF w
    <3> HIDE DEF x
    <3> QED
      BY <1>1, <2>2, <2>5, <3>1, SetsFacts
  <2>7. Copies(wb, m.tag) = 0 /\ \A v \in Way : blk[v].st # "I" => blk[v].tag # m.tag
    <3>1. ~Present(m.tag) /\ ~InWB(m.tag)
      BY DEF Miss
    <3> QED
      BY <1>1, <3>1, InWBFacts, AbsentFacts
  <2>8. m.tag \notin Rows
    BY <1>1, <2>1, GoesFree
  <2>9. \A v \in Way : blk[v].fill # m.tag
    BY <1>1, <2>1, <2>8, FreeRow
  <2>10. Placed(blk', wb') /\ wb' \in Seq(Tag)
    BY <1>1, <2>1, <2>2, <2>4, <2>6, <2>7, <2>9, MissPlaced
  <2>11. blk'[w].fill = m.tag /\ \A v \in Way : v # w => blk'[v].fill = blk[v].fill
    BY <2>5, <2>6 DEF Sets
  <2>12. Send(q, m, type, w)
    BY <1>2 DEF w
  <2> QED
    BY <2>2, <2>3, <2>6, <2>10, <2>11, <2>12, SendInv
<1>3. CASE Coalesce(q, m) /\ UNCHANGED lru
  <2>1. lru' \in [Way -> Way] /\ LruFull'
    BY <1>1, <1>3 DEF LruFull
  <2> QED
    BY <1>3, <2>1, CoalesceInv
<1> QED
  BY <1>2, <1>3 DEF Miss

LEMMA ReclaimInv ==
  ASSUME L1DInv, NEW q, NEW m \in CpuPacket, Taken(q, m), Reclaim(q, m),
         Victims # {} => unsaved' \in SUBSET Tag, UNCHANGED <<up, l2Vars>>
  PROVE  L1DInv'
<1>1. /\ Shapes /\ LruFull /\ Placed(blk, wb) /\ RowsMatch /\ WaysMatch /\ RetryFree
      /\ blk \in [Way -> Block] /\ lru \in [Way -> Way] /\ wb \in Seq(Tag)
  BY BlockTypes DEF L1DInv
<1>2. lru' \in [Way -> Way] /\ LruFull'
  BY <1>1 DEF LruFull, Reclaim
<1>3. CASE /\ Victims # {}
           /\ wb' = WBTaken(m.tag)
           /\ blk' = [blk EXCEPT ![WBVictim] = [tag |-> m.tag, st |-> "M", fill |-> NoTag]]
           /\ Return(q, m)
           /\ UNCHANGED tx
  <2> DEFINE x == [tag |-> m.tag, st |-> "M", fill |-> NoTag]
             w == WBVictim
             r == Victimized(blk, wb, w)
  <2>1. m.tag \in Tag /\ InWB(m.tag)
    BY DEF Reclaim, CpuPacket
  <2>2. w \in Way /\ blk[w].fill = NoTag
    BY <1>1, <1>3, VictimFacts
  <2>3. wb' = RemoveFirst(r, m.tag)
    BY <1>3 DEF WBTaken, Evicted, Victimized
  <2>4. blk' = [blk EXCEPT ![w] = x] /\ Return(q, m) /\ tx' = tx /\ unsaved' \in SUBSET Tag
    BY <1>3
  <2> HIDE DEF w
  <2>5. x \in Block /\ x.fill = NoTag
    BY <2>1 DEF Block, BlockState
  <2>6. Sets(blk, blk', w, x) /\ blk' \in [Way -> Block]
    <3> HIDE DEF x
    <3> QED
      BY <1>1, <2>2, <2>4, <2>5, SetsFacts
  <2>7. Copies(wb, m.tag) > 0
    BY <1>1, <2>1, InWBFacts
  <2>8. Placed(blk', RemoveFirst(r, m.tag)) /\ RemoveFirst(r, m.tag) \in Seq(Tag)
    BY <1>1, <2>1, <2>2, <2>6, <2>7, ReclaimPlaced
  <2>9. FillsKept
    <3> HIDE DEF x
    <3> QED
      BY <2>2, <2>5, <2>6 DEF Sets, FillsKept
  <2>10. Placed(blk', wb') /\ wb' \in Seq(Tag)
    BY <2>3, <2>8
  <2> QED
    BY <1>2, <2>4, <2>6, <2>9, <2>10, ReturnInv
<1>4. CASE Victims = {} /\ Coalesce(q, m)
  BY <1>2, <1>4, CoalesceInv
<1> QED
  BY <1>3, <1>4 DEF Reclaim

\* A hit that changes at most the state of the block.
LEMMA HitInv ==
  ASSUME L1DInv, NEW q, NEW m \in CpuPacket, Taken(q, m), Return(q, m), Touch(m.tag),
         UNCHANGED <<wb, tx>>, FillsKept, blk' \in [Way -> Block], Placed(blk', wb),
         unsaved' \in SUBSET Tag, UNCHANGED <<up, l2Vars>>
  PROVE  L1DInv'
<1>1. Shapes /\ LruFull /\ wb \in Seq(Tag)
  BY BlockTypes DEF L1DInv
<1>2. lru' \in [Way -> Way] /\ LruFull'
  BY <1>1, TouchFull
<1>3. wb' \in Seq(Tag) /\ Placed(blk', wb') /\ tx' = tx
  BY <1>1
<1> QED
  BY <1>2, <1>3, ReturnInv

\* cgm_mesi_load() keeps the invariant.
LEMMA LoadInv ==
  ASSUME L1DInv, NEW q \in Queue, NEW m, Load(q, m), UNCHANGED <<up, l2Vars>>
  PROVE  L1DInv'
<1>1. /\ Shapes /\ LruFull /\ Placed(blk, wb) /\ RetryFree
      /\ blk \in [Way -> Block] /\ unsaved \in SUBSET Tag
  BY BlockTypes DEF L1DInv
<1>2. Taken(q, m) /\ m.type \in {"load", "load_retry"} /\ May(q, m) /\ q # "wb"
  BY <1>1, HandlesTakes DEF Load
<1>3. m \in CpuPacket
  BY <1>1, <1>2, MessageKinds
<1>4. LoadMay(m)
  BY <1>2 DEF May
<1>5. CASE Miss(q, m, "get")
  <2>1. Goes(m) => Victims # {}
    BY <1>4, <1>5 DEF LoadMay, MayMiss, Miss
  <2>2. "get" \in {"get", "getx"}
    OBVIOUS
  <2> QED
    BY <1>2, <1>3, <1>5, <2>1, <2>2, MissInv
<1>6. CASE Reclaim(q, m) /\ UNCHANGED unsaved
  <2>1. unsaved' \in SUBSET Tag
    BY <1>1, <1>6
  <2> QED
    BY <1>2, <1>3, <1>6, <2>1, ReclaimInv
<1>7. CASE /\ Present(m.tag) /\ m.tag \notin Rows
           /\ Return(q, m) /\ Touch(m.tag)
           /\ UNCHANGED <<blk, wb, tx, unsaved>>
  <2>1. FillsKept /\ blk' \in [Way -> Block] /\ Placed(blk', wb) /\ unsaved' \in SUBSET Tag
    BY <1>1, <1>7 DEF FillsKept
  <2> QED
    BY <1>2, <1>3, <1>7, <2>1, HitInv
<1>8. CASE Present(m.tag) /\ m.tag \in Rows /\ Coalesce(q, m) /\ Touch(m.tag)
  <2>1. lru' \in [Way -> Way] /\ LruFull'
    BY <1>1, <1>8, TouchFull
  <2> QED
    BY <1>2, <1>3, <1>8, <2>1, CoalesceInv
<1> QED
  BY <1>5, <1>6, <1>7, <1>8 DEF Load

\* cgm_mesi_store() keeps it.
LEMMA StoreInv ==
  ASSUME L1DInv, NEW q \in Queue, NEW m, Store(q, m), UNCHANGED <<up, l2Vars>>
  PROVE  L1DInv'
<1>1. /\ Shapes /\ LruFull /\ Placed(blk, wb) /\ RetryFree /\ RowsMatch /\ WaysMatch
      /\ blk \in [Way -> Block] /\ unsaved \in SUBSET Tag /\ wb \in Seq(Tag)
  BY BlockTypes DEF L1DInv
<1>2. Taken(q, m) /\ m.type \in {"store", "store_retry"} /\ May(q, m) /\ q # "wb"
  BY <1>1, HandlesTakes DEF Store
<1>3. m \in CpuPacket /\ m.tag \in Tag
  BY <1>1, <1>2, MessageKinds DEF CpuPacket
<1>4. StoreMay(m)
  BY <1>2 DEF May
<1>5. CASE Miss(q, m, "getx")
  <2>1. Goes(m) => Victims # {}
    BY <1>4, <1>5 DEF StoreMay, MayMiss, Miss
  <2>2. "getx" \in {"get", "getx"}
    OBVIOUS
  <2> QED
    BY <1>2, <1>3, <1>5, <2>1, <2>2, MissInv
<1>6. CASE /\ Reclaim(q, m)
           /\ unsaved' = IF Victims = {} THEN unsaved ELSE unsaved \cup {m.tag}
  <2>1. unsaved' \in SUBSET Tag
    BY <1>1, <1>3, <1>6
  <2> QED
    BY <1>2, <1>3, <1>6, <2>1, ReclaimInv
<1>7. CASE /\ StateOf(m.tag) \in {"E", "M"}
           /\ blk' = [blk EXCEPT ![WayOf(m.tag)].st = "M"]
           /\ Return(q, m) /\ Touch(m.tag)
           /\ unsaved' = unsaved \cup {m.tag}
           /\ UNCHANGED <<wb, tx>>
  <2> DEFINE w == WayOf(m.tag)
             x == [tag |-> blk[w].tag, st |-> "M", fill |-> blk[w].fill]
  <2>1. Present(m.tag)
    BY <1>7 DEF StateOf
  <2>2. w \in Way /\ blk[w].st # "I"
    BY <2>1, WayOfFacts
  <2>3. blk' = [blk EXCEPT ![w].st = "M"]
    BY <1>7
  <2> HIDE DEF w
  <2>4. x \in Block /\ blk' = [blk EXCEPT ![w] = x]
    <3>1. "M" \in BlockState
      BY DEF BlockState
    <3> QED
      BY <1>1, <2>2, <2>3, <3>1, SetState
  <2>5. x = [tag |-> IF "M" = "I" THEN NoTag ELSE blk[w].tag, st |-> "M", fill |-> blk[w].fill]
        /\ "M" \in BlockState /\ x.fill = blk[w].fill
    BY DEF BlockState
  <2> HIDE DEF x
  <2>6. Sets(blk, blk', w, x) /\ blk' \in [Way -> Block]
    BY <1>1, <2>2, <2>4, SetsFacts
  <2>7. Placed(blk', wb)
    BY <1>1, <2>2, <2>5, <2>6, LowerPlaced
  <2>8. FillsKept
    BY <2>2, <2>5, <2>6 DEF Sets, FillsKept
  <2>9. unsaved' \in SUBSET Tag
    BY <1>1, <1>3, <1>7
  <2> QED
    BY <1>2, <1>3, <1>7, <2>6, <2>7, <2>8, <2>9, HitInv
<1>8. CASE /\ StateOf(m.tag) = "S"
           /\ LET fresh == [m EXCEPT !.coal = FALSE]
              IN \/ /\ Send(q, fresh, "upgrade", WayOf(m.tag))
                    /\ blk' = [blk EXCEPT ![WayOf(m.tag)].fill = m.tag]
                    /\ UNCHANGED wb
                 \/ Coalesce(q, fresh)
           /\ Touch(m.tag)
  <2> DEFINE w == WayOf(m.tag)
             f == [m EXCEPT !.coal = FALSE]
             x == [tag |-> blk[w].tag, st |-> blk[w].st, fill |-> m.tag]
  <2>1. lru' \in [Way -> Way] /\ LruFull'
    BY <1>1, <1>8, TouchFull
  <2>2. f \in CpuPacket /\ f.id = m.id /\ f.tag = m.tag /\ f.conf = m.conf
    BY <1>3 DEF CpuPacket
  <2>3. Present(m.tag)
    BY <1>8 DEF StateOf
  <2>4. w \in Way /\ blk[w].st # "I" /\ blk[w].tag = m.tag
    BY <2>3, WayOfFacts
  <2>5. \/ Send(q, f, "upgrade", w) /\ blk' = [blk EXCEPT ![w].fill = m.tag] /\ wb' = wb
        \/ Coalesce(q, f)
    BY <1>8
  <2> HIDE DEF f, w
  <2>6. CASE Coalesce(q, f)
    BY <1>2, <1>3, <2>1, <2>2, <2>6, CoalesceInv
  <2>7. CASE Send(q, f, "upgrade", w) /\ blk' = [blk EXCEPT ![w].fill = m.tag] /\ wb' = wb
    <3>1. f.tag \notin Rows
      <4>1. Goes(f)
        BY <2>7 DEF Send
      <4> QED
        BY <1>1, <1>2, <1>3, <2>2, <4>1, GoesFree
    <3>2. \A v \in Way : blk[v].fill # m.tag
      <4>1. m.tag \notin Rows
        BY <2>2, <3>1
      <4> QED
        BY <1>1, <1>3, <4>1, FreeRow
    <3>3. x \in Block /\ blk' = [blk EXCEPT ![w] = x] /\ x.fill = m.tag
      <4>1. blk' = [blk EXCEPT ![w].fill = m.tag]
        BY <2>7
      <4>2. x.fill = m.tag
        OBVIOUS
      <4> DEFINE y == [blk[w] EXCEPT !.fill = m.tag]
      <4>3. blk[w] \in Block /\ m.tag \in Tag
        BY <1>1, <1>3, <2>4
      <4>4. y = x /\ x \in Block
        BY <4>3 DEF Block
      <4>5. blk' = [blk EXCEPT ![w] = y]
        BY <4>1
      <4> QED
        BY <4>2, <4>4, <4>5
    <3>4. Sets(blk, blk', w, x) /\ blk' \in [Way -> Block]
      <4> HIDE DEF x
      <4> QED
        BY <1>1, <2>4, <3>3, SetsFacts
    <3>5. Placed(blk', wb) /\ blk[w].fill = NoTag
      BY <1>1, <1>3, <2>4, <3>2, <3>4, UpgradePlaced
    <3> HIDE DEF x
    <3>6. blk'[w].fill = m.tag /\ \A v \in Way : v # w => blk'[v].fill = blk[v].fill
      BY <3>3, <3>4 DEF Sets
    <3>7. Placed(blk', wb') /\ wb' \in Seq(Tag)
      BY <1>1, <2>7, <3>5
    <3>8. Send(q, f, "upgrade", w) /\ blk'[w].fill = f.tag
      BY <2>2, <2>7, <3>6
    <3> DEFINE y == "upgrade"
    <3>9. y \in {"get", "getx", "upgrade"} /\ Send(q, f, y, w)
      BY <3>8
    <3> HIDE DEF y
    <3> QED
      BY <1>2, <1>3, <2>1, <2>2, <2>4, <3>4, <3>5, <3>6, <3>7, <3>8, <3>9, SendInv
  <2> QED
    BY <2>5, <2>6, <2>7
<1> QED
  BY <1>5, <1>6, <1>7, <1>8 DEF Store

\* cgm_mesi_l1_d_write_block() keeps it.
LEMMA FillInv ==
  ASSUME L1DInv, NEW q \in Queue, NEW m, Fill(q, m), UNCHANGED <<up, l2Vars>>
  PROVE  L1DInv'
<1>1. /\ Shapes /\ Placed(blk, wb) /\ RetryFree /\ RowsMatch /\ WaysMatch
      /\ blk \in [Way -> Block] /\ wb \in Seq(Tag)
  BY BlockTypes DEF L1DInv
<1>2. Taken(q, m) /\ m.type \in {"puts", "put_clnx", "putx"}
  BY <1>1, HandlesTakes DEF Fill
<1>3. m \in Returned
  BY <1>1, <1>2, MessageKinds
<1>4. m.tag \in Rows /\ blk[m.way].fill = m.tag /\ m.way \in Way /\ m.tag \in Tag
  <2>1. \A P : m \in P => Total(P) > 0
    BY <1>1, <1>2, TakenCounted
  <2> QED
    BY <1>1, <1>3, <2>1, ReplyBacked
<1>5. CASE /\ ort[m.tag] = "stale"
           /\ ort' = [ort EXCEPT ![m.tag] = "open"]
           /\ tx' = Append(tx, Request(m, IF m.req = "get" THEN "get" ELSE "getx", m.req, m.way))
           /\ Dequeue(q, <<>>)
           /\ credit' = credit - 1
           /\ UNCHANGED blk
           /\ UNCHANGED <<lru, coal, wb, flight, unsaved>>
  <2> DEFINE type == IF m.req = "get" THEN "get" ELSE "getx"
  <2>1. type \in {"get", "getx", "upgrade"} /\ tx' = Append(tx, Request(m, type, m.req, m.way))
    BY <1>5
  <2> HIDE DEF type
  <2>2. /\ ort' \in [Tag -> {"free", "open", "stale"}]
        /\ \A u \in Tag : ort'[u] = "free" <=> ort[u] = "free"
    BY <1>1, <1>4, <1>5, OrtType
  <2> QED
    BY <1>2, <1>3, <1>5, <2>1, <2>2, RepeatInv
<1>6. CASE /\ ort[m.tag] = "open"
           /\ ort' = [ort EXCEPT ![m.tag] = "free"]
           /\ blk' = [blk EXCEPT ![m.way] = [tag |-> m.tag, st |-> Granted(m.type), fill |-> NoTag]]
           /\ Dequeue(q, <<RetryOf(m, FALSE, FALSE)>>)
           /\ UNCHANGED <<tx, credit>>
           /\ UNCHANGED <<lru, coal, wb, flight, unsaved>>
  <2> DEFINE s == Granted(m.type)
             x == [tag |-> m.tag, st |-> s, fill |-> NoTag]
  <2>1. s \in BlockState
    BY <1>2 DEF Granted, BlockState
  <2> HIDE DEF s
  <2>2. x \in Block /\ x.fill = NoTag /\ blk' = [blk EXCEPT ![m.way] = x]
    BY <1>4, <1>6, <2>1 DEF Block, s
  <2>3. Sets(blk, blk', m.way, x) /\ blk' \in [Way -> Block]
    <3> HIDE DEF x
    <3> QED
      BY <1>1, <1>4, <2>2, SetsFacts
  <2>4. Placed(blk', wb)
    BY <1>1, <1>4, <2>1, <2>3, FillPlaced
  <2>5. blk'[m.way].fill = NoTag /\ \A v \in Way : v # m.way => blk'[v].fill = blk[v].fill
    <3> HIDE DEF x
    <3> QED
      BY <2>2, <2>3 DEF Sets
  <2>6. Placed(blk', wb')
    BY <1>6, <2>4
  <2> QED
    BY <1>2, <1>3, <1>6, <2>3, <2>5, <2>6, AnswerInv
<1> QED
  BY <1>5, <1>6 DEF Fill

\* cgm_mesi_load_nack() and cgm_mesi_store_nack() keep it.
LEMMA NackInv ==
  ASSUME L1DInv, NEW q \in Queue, NEW m, Nack(q, m), UNCHANGED <<up, l2Vars>>
  PROVE  L1DInv'
<1>1. Shapes /\ RetryFree
  BY DEF L1DInv
<1>2. Taken(q, m) /\ m.type \in {"get_nack", "getx_nack"}
  BY <1>1, HandlesTakes DEF Nack
<1>3. m \in Returned
  BY <1>1, <1>2, MessageKinds
<1> DEFINE type == IF m.type = "get_nack" THEN "get" ELSE "getx"
<1>4. type \in {"get", "getx", "upgrade"} /\ tx' = Append(tx, Request(m, type, m.req, m.way))
  BY DEF Nack
<1>5. /\ Dequeue(q, <<>>) /\ credit' = credit - 1
      /\ UNCHANGED <<blk, lru, ort, coal, wb, flight, unsaved>>
  BY DEF Nack
<1> HIDE DEF type
<1>6. /\ ort' \in [Tag -> {"free", "open", "stale"}]
      /\ \A u \in Tag : ort'[u] = "free" <=> ort[u] = "free"
  BY <1>1, <1>5, OrtType
<1> QED
  BY <1>2, <1>3, <1>4, <1>5, <1>6, RepeatInv

\* cgm_mesi_l1_d_upgrade_ack() keeps it.
LEMMA UpgradeAckInv ==
  ASSUME L1DInv, NEW q \in Queue, NEW m, UpgradeAck(q, m), UNCHANGED <<up, l2Vars>>
  PROVE  L1DInv'
<1>1. /\ Shapes /\ Placed(blk, wb) /\ RetryFree /\ RowsMatch /\ WaysMatch
      /\ blk \in [Way -> Block] /\ wb \in Seq(Tag)
  BY BlockTypes DEF L1DInv
<1>2. Taken(q, m) /\ m.type = "upgrade_ack"
  BY <1>1, HandlesTakes DEF UpgradeAck
<1>3. m \in Returned
  BY <1>1, <1>2, MessageKinds
<1>4. m.tag \in Rows /\ blk[m.way].fill = m.tag /\ m.way \in Way /\ m.tag \in Tag
  <2>1. \A P : m \in P => Total(P) > 0
    BY <1>1, <1>2, TakenCounted
  <2> QED
    BY <1>1, <1>3, <2>1, ReplyBacked
<1>5. Present(m.tag) => WayOf(m.tag) = m.way
  <2> SUFFICES ASSUME Present(m.tag) PROVE WayOf(m.tag) = m.way
    OBVIOUS
  <2> DEFINE v == WayOf(m.tag)
  <2>1. v \in Way /\ blk[v].st # "I" /\ blk[v].tag = m.tag
    BY WayOfFacts
  <2> HIDE DEF v
  <2>2. blk[m.way].fill # NoTag
    BY <1>4, L1DCacheAssumption
  <2>3. v = m.way
    BY <1>1, <1>4, <2>1, <2>2 DEF Placed, Apart
  <2> QED
    BY <2>3 DEF v
<1> DEFINE x == [tag |-> m.tag, st |-> "M", fill |-> NoTag]
<1>6. /\ ort' = [ort EXCEPT ![m.tag] = "free"] /\ blk' = [blk EXCEPT ![m.way] = x]
      /\ Dequeue(q, <<RetryOf(m, FALSE, FALSE)>>)
      /\ UNCHANGED <<lru, coal, wb, tx, credit, flight, unsaved>>
  BY <1>5 DEF UpgradeAck
<1>7. "M" \in BlockState
  BY DEF BlockState
<1>8. x \in Block /\ x.fill = NoTag
  BY <1>4, <1>7 DEF Block
<1>9. Sets(blk, blk', m.way, x) /\ blk' \in [Way -> Block]
  <2> HIDE DEF x
  <2> QED
    BY <1>1, <1>4, <1>6, <1>8, SetsFacts
<1>10. Placed(blk', wb)
  BY <1>1, <1>4, <1>7, <1>9, FillPlaced
<1> HIDE DEF x
<1>11. blk'[m.way].fill = NoTag /\ \A v \in Way : v # m.way => blk'[v].fill = blk[v].fill
  BY <1>8, <1>9 DEF Sets
<1>12. Placed(blk', wb')
  BY <1>6, <1>10
<1> QED
  BY <1>2, <1>3, <1>6, <1>9, <1>11, <1>12, AnswerInv

-----------------------------------------------------------------------------
(* Demands *)

\* A block goes to a lower state.
LEMMA LowerFacts ==
  ASSUME Shapes, Placed(blk, wb), NEW t \in Tag, NEW st \in BlockState, Lower(t, st)
  PROVE  blk' \in [Way -> Block] /\ FillsKept /\ Placed(blk', wb)
<1>1. blk \in [Way -> Block] /\ wb \in Seq(Tag)
  BY BlockTypes
<1>2. CASE Present(t)
  <2> DEFINE w == WayOf(t)
             x == [tag |-> IF st = "I" THEN NoTag ELSE blk[w].tag, st |-> st, fill |-> blk[w].fill]
  <2>1. w \in Way /\ blk[w].st # "I" /\ blk[w].tag = t
    BY <1>2, WayOfFacts
  <2>2. blk' = [blk EXCEPT ![w] =
                  [tag |-> IF st = "I" THEN NoTag ELSE t, st |-> st, fill |-> blk[w].fill]]
    BY <1>1, <1>2, <2>1 DEF Lower
  <2> HIDE DEF w
  <2>3. x \in Block /\ x.fill = blk[w].fill
    BY <1>1, <2>1 DEF Block
  <2>4. blk' = [blk EXCEPT ![w] = x]
    BY <2>1, <2>2
  <2>5. Sets(blk, blk', w, x) /\ blk' \in [Way -> Block]
    <3> HIDE DEF x
    <3> QED
      BY <1>1, <2>1, <2>3, <2>4, SetsFacts
  <2>6. Placed(blk', wb)
    <3>1. x = [tag |-> IF st = "I" THEN NoTag ELSE blk[w].tag, st |-> st, fill |-> blk[w].fill]
      OBVIOUS
    <3> HIDE DEF x
    <3> QED
      BY <1>1, <2>1, <2>5, <3>1, LowerPlaced
  <2>7. FillsKept
    <3> HIDE DEF x
    <3> QED
      BY <2>1, <2>3, <2>5 DEF Sets, FillsKept
  <2> QED
    BY <2>5, <2>6, <2>7
<1>3. CASE ~Present(t)
  <2>1. blk' = blk
    BY <1>3 DEF Lower
  <2> QED
    BY <1>1, <2>1 DEF FillsKept
<1> QED
  BY <1>2, <1>3

\* A block leaves the write-back buffer, if it is there.
LEMMA DroppedPlaced ==
  ASSUME NEW b \in [Way -> Block], NEW s \in Seq(Tag), Placed(b, s), NEW t
  PROVE  RemoveFirst(s, t) \in Seq(Tag) /\ Placed(b, RemoveFirst(s, t))
<1> DEFINE r == RemoveFirst(s, t)
<1>1. Copies(s, t) <= 1 /\ Copies(s, t) \in Nat
  BY SavedFacts DEF Placed
<1>2. r \in Seq(Tag) /\ Copies(r, t) = 0 /\ \A u : u # t => Copies(r, u) = Copies(s, u)
  BY <1>1, RemoveFirstFacts
<1>3. \A u : Copies(s, u) \in Nat
  BY InType DEF Copies
<1> HIDE DEF r
<1>4. ASSUME NEW u PROVE Copies(r, u) <= Copies(s, u)
  <2>1. CASE u = t
    BY <1>1, <1>2, <2>1
  <2>2. CASE u # t
    BY <1>2, <1>3, <2>2
  <2> QED
    BY <2>1, <2>2
<1>5. Placed(b, r)
  BY <1>2, <1>4, SavedPlaced
<1> QED
  BY <1>2, <1>5 DEF r

LEMMA AckTypes ==
  ASSUME NEW type \in {"downgrade_ack", "getx_fwd_inval_ack", "flush_block_ack"},
         NEW t \in Tag, NEW d \in BOOLEAN
  PROVE  Ack(type, t, d) \in ToL2 /\ Ack(type, t, d) \notin Packets
BY NotPackets DEF Ack, ToL2

\* A demand that lowers the block, or takes it from the write-back buffer.
LEMMA DemandedInv ==
  ASSUME L1DInv, NEW q \in Queue, NEW m, Taken(q, m),
         m.type \in {"upgrade_inval", "downgrade", "getx_fwd_inval", "flush_block"},
         Demanded(q, m), NEW st \in BlockState, Lower(m.tag, st),
         wb' = wb \/ wb' = RemoveFirst(wb, m.tag),
         NEW type \in {"downgrade_ack", "getx_fwd_inval_ack", "flush_block_ack"},
         NEW d \in BOOLEAN, tx' = tx \/ Answer(type, m.tag, d), UNCHANGED <<up, l2Vars>>
  PROVE  L1DInv'
<1>1. Shapes /\ Placed(blk, wb) /\ RetryFree /\ wb \in Seq(Tag)
  BY BlockTypes DEF L1DInv
<1>2. m \notin Packets /\ m.tag \in Tag
  BY <1>1, MessageKinds
<1>3. blk' \in [Way -> Block] /\ FillsKept /\ Placed(blk', wb)
  BY <1>1, <1>2, LowerFacts
<1>4. wb' \in Seq(Tag) /\ Placed(blk', wb')
  BY <1>1, <1>3, DroppedPlaced
<1> DEFINE x == Ack(type, m.tag, d)
<1>5. x \in ToL2 /\ x \notin Packets
  BY <1>2, AckTypes
<1>6. tx' = tx \/ tx' = Append(tx, x)
  BY DEF Answer
<1> HIDE DEF x
<1>7. unsaved' = unsaved
  BY DEF Demanded
<1> QED
  BY <1>2, <1>3, <1>4, <1>5, <1>6, <1>7, DemandInv

\* The invalidation, downgrade and flush handlers keep it.
LEMMA DemandStepsInv ==
  ASSUME L1DInv, NEW q \in Queue, NEW m, UNCHANGED <<up, l2Vars>>,
         UpgradeInval(q, m) \/ Downgrade(q, m) \/ GetxFwdInval(q, m) \/ FlushBlock(q, m)
  PROVE  L1DInv'
<1> DEFINE A == {"downgrade_ack", "getx_fwd_inval_ack", "flush_block_ack"}
           d == StateOf(m.tag) = "M"
           e == StateOf(m.tag) = "M" \/ (~Present(m.tag) /\ InWB(m.tag))
           k == "downgrade_ack"
           g == "getx_fwd_inval_ack"
           f == "flush_block_ack"
           i == "I"
           s == "S"
<1>1. Shapes
  BY DEF L1DInv
<1>2. k \in A /\ g \in A /\ f \in A /\ d \in BOOLEAN /\ e \in BOOLEAN
      /\ i \in BlockState /\ s \in BlockState
  BY DEF BlockState
<1>3. CASE UpgradeInval(q, m)
  <2>1. Taken(q, m) /\ m.type \in {"upgrade_inval"}
    BY <1>1, <1>3, HandlesTakes DEF UpgradeInval
  <2>2. Demanded(q, m) /\ Lower(m.tag, i) /\ wb' = wb /\ tx' = tx
    BY <1>3 DEF UpgradeInval
  <2>3. m.type \in {"upgrade_inval", "downgrade", "getx_fwd_inval", "flush_block"}
    BY <2>1
  <2> HIDE DEF A, d, e, k, g, f, i, s
  <2> QED
    BY <1>2, <2>1, <2>2, <2>3, DemandedInv DEF A
<1>4. CASE Downgrade(q, m)
  <2>1. Taken(q, m) /\ m.type \in {"downgrade"}
    BY <1>1, <1>4, HandlesTakes DEF Downgrade
  <2>2. /\ Demanded(q, m) /\ Lower(m.tag, s) /\ (wb' = wb \/ wb' = RemoveFirst(wb, m.tag))
        /\ Answer(k, m.tag, e)
    BY <1>4 DEF Downgrade
  <2>3. m.type \in {"upgrade_inval", "downgrade", "getx_fwd_inval", "flush_block"}
    BY <2>1
  <2> HIDE DEF A, d, e, k, g, f, i, s
  <2> QED
    BY <1>2, <2>1, <2>2, <2>3, DemandedInv DEF A
<1>5. CASE GetxFwdInval(q, m)
  <2>1. Taken(q, m) /\ m.type \in {"getx_fwd_inval"}
    BY <1>1, <1>5, HandlesTakes DEF GetxFwdInval
  <2>2. /\ Demanded(q, m) /\ Lower(m.tag, i) /\ (wb' = wb \/ wb' = RemoveFirst(wb, m.tag))
        /\ Answer(g, m.tag, d)
    BY <1>5 DEF GetxFwdInval
  <2>3. m.type \in {"upgrade_inval", "downgrade", "getx_fwd_inval", "flush_block"}
    BY <2>1
  <2> HIDE DEF A, d, e, k, g, f, i, s
  <2> QED
    BY <1>2, <2>1, <2>2, <2>3, DemandedInv DEF A
<1>6. CASE FlushBlock(q, m)
  <2>1. Taken(q, m) /\ m.type \in {"flush_block"}
    BY <1>1, <1>6, HandlesTakes DEF FlushBlock
  <2>2. /\ Demanded(q, m) /\ Lower(m.tag, i) /\ (wb' = wb \/ wb' = RemoveFirst(wb, m.tag))
        /\ (tx' = tx \/ Answer(f, m.tag, e))
    BY <1>6 DEF FlushBlock
  <2>3. m.type \in {"upgrade_inval", "downgrade", "getx_fwd_inval", "flush_block"}
    BY <2>1
  <2> HIDE DEF A, d, e, k, g, f, i, s
  <2> QED
    BY <1>2, <2>1, <2>2, <2>3, DemandedInv DEF A
<1> QED
  BY <1>3, <1>4, <1>5, <1>6

-----------------------------------------------------------------------------
(* Messages enter the queues of the cache *)

\* A message joins a queue of the cache.
LEMMA EnqueueCounts ==
  ASSUME Shapes, CreditMatch, NEW r, NEW x, inq' = [inq EXCEPT ![r] = Append(@, x)],
         \/ r = "top" /\ x \in Fresh
         \/ r = "bot" /\ x \in Bottom
         \/ r = "coh" /\ x \in Coherence,
         credit' = credit + 1, UNCHANGED <<ort, coal>>
  PROVE  /\ \A P : Queued(P)' = Queued(P) + Bit(x \in P) /\ Queued(P)' \in Nat
         /\ QueuesTyped' /\ CreditMatch' /\ inq'["retry"] = inq["retry"]
<1> DEFINE a == inq["top"]
           b == inq["bot"]
           c == inq["coh"]
           d == inq["retry"]
<1>1. /\ DOMAIN inq = Queue /\ a \in Seq(Fresh) /\ d \in Seq(RetriedPacket) /\ b \in Seq(Bottom)
      /\ c \in Seq(Coherence) /\ coal \in Seq(Parked)
      /\ ort \in [Tag -> {"free", "open", "stale"}]
  BY QueueTypes, OrtType
<1>2. r \in Queue /\ "top" \in Queue /\ "bot" \in Queue /\ "coh" \in Queue /\ "retry" \in Queue
  BY DEF Queue
<1>3. /\ DOMAIN inq' = Queue /\ inq'[r] = Append(inq[r], x)
      /\ \A u \in Queue : u # r => inq'[u] = inq[u]
  BY <1>1, <1>2
<1>4. inq'["retry"] = d
  BY <1>2, <1>3
<1>5. Len(a) \in Nat /\ Len(b) \in Nat /\ Len(c) \in Nat /\ Len(d) \in Nat
  BY LengthNats
<1>6. credit = Len(a) + Len(b) + Len(c) + Len(d)
  BY DEF CreditMatch, Length
<1>7. ASSUME NEW P
      PROVE  /\ In(a, P) \in Nat /\ In(b, P) \in Nat /\ In(c, P) \in Nat /\ In(d, P) \in Nat
             /\ Queued(P) = In(a, P) + In(b, P) + In(c, P) + In(d, P) /\ Bit(x \in P) \in Nat
  BY TotalNats DEF Queued, Bit
<1>8. CASE r = "top" /\ x \in Fresh
  <2>1. inq'["top"] = Append(a, x) /\ inq'["bot"] = b /\ inq'["coh"] = c
    BY <1>2, <1>3, <1>8
  <2>2. /\ inq'["top"] \in Seq(Fresh) /\ Len(inq'["top"]) = Len(a) + 1
        /\ \A P : In(inq'["top"], P) = In(a, P) + Bit(x \in P)
    BY <1>1, <1>8, <2>1, AppendFacts, InAppend
  <2>3. ASSUME NEW P PROVE Queued(P)' = Queued(P) + Bit(x \in P) /\ Queued(P)' \in Nat
    <3> DEFINE i == In(a, P)
               j == In(b, P)
               k == In(c, P)
               l == In(d, P)
               z == Bit(x \in P)
    <3>1. Queued(P)' = (i + z) + j + k + l /\ Queued(P) = i + j + k + l
      BY <1>4, <1>7, <2>1, <2>2 DEF Queued
    <3>2. i \in Nat /\ j \in Nat /\ k \in Nat /\ l \in Nat /\ z \in Nat
      BY <1>7
    <3> HIDE DEF i, j, k, l, z
    <3>3. Queued(P)' = Queued(P) + z /\ Queued(P)' \in Nat
      BY <3>1, <3>2
    <3> QED
      BY <3>3 DEF z
  <2>4. Length' = (Len(a) + 1) + Len(b) + Len(c) + Len(d)
    BY <1>4, <2>1, <2>2 DEF Length
  <2> HIDE DEF a, b, c, d
  <2>5. credit' = Length' /\ credit' \in Nat
    BY <1>5, <1>6, <2>4
  <2>6. /\ inq'["top"] \in Seq(Fresh) /\ inq'["bot"] \in Seq(Bottom)
        /\ inq'["coh"] \in Seq(Coherence) /\ inq'["retry"] \in Seq(RetriedPacket)
    BY <1>1, <1>4, <2>1, <2>2
  <2> QED
    BY <1>1, <1>3, <1>4, <2>3, <2>5, <2>6 DEF QueuesTyped, CreditMatch, d
<1>9. CASE r = "bot" /\ x \in Bottom
  <2>1. inq'["top"] = a /\ inq'["bot"] = Append(b, x) /\ inq'["coh"] = c
    BY <1>2, <1>3, <1>9
  <2>2. /\ inq'["bot"] \in Seq(Bottom) /\ Len(inq'["bot"]) = Len(b) + 1
        /\ \A P : In(inq'["bot"], P) = In(b, P) + Bit(x \in P)
    BY <1>1, <1>9, <2>1, AppendFacts, InAppend
  <2>3. ASSUME NEW P PROVE Queued(P)' = Queued(P) + Bit(x \in P) /\ Queued(P)' \in Nat
    <3> DEFINE i == In(a, P)
               j == In(b, P)
               k == In(c, P)
               l == In(d, P)
               z == Bit(x \in P)
    <3>1. Queued(P)' = i + (j + z) + k + l /\ Queued(P) = i + j + k + l
      BY <1>4, <1>7, <2>1, <2>2 DEF Queued
    <3>2. i \in Nat /\ j \in Nat /\ k \in Nat /\ l \in Nat /\ z \in Nat
      BY <1>7
    <3> HIDE DEF i, j, k, l, z
    <3>3. Queued(P)' = Queued(P) + z /\ Queued(P)' \in Nat
      BY <3>1, <3>2
    <3> QED
      BY <3>3 DEF z
  <2>4. Length' = Len(a) + (Len(b) + 1) + Len(c) + Len(d)
    BY <1>4, <2>1, <2>2 DEF Length
  <2> HIDE DEF a, b, c, d
  <2>5. credit' = Length' /\ credit' \in Nat
    BY <1>5, <1>6, <2>4
  <2>6. /\ inq'["top"] \in Seq(Fresh) /\ inq'["bot"] \in Seq(Bottom)
        /\ inq'["coh"] \in Seq(Coherence) /\ inq'["retry"] \in Seq(RetriedPacket)
    BY <1>1, <1>4, <2>1, <2>2
  <2> QED
    BY <1>1, <1>3, <1>4, <2>3, <2>5, <2>6 DEF QueuesTyped, CreditMatch, d
<1>10. CASE r = "coh" /\ x \in Coherence
  <2>1. inq'["top"] = a /\ inq'["bot"] = b /\ inq'["coh"] = Append(c, x)
    BY <1>2, <1>3, <1>10
  <2>2. /\ inq'["coh"] \in Seq(Coherence) /\ Len(inq'["coh"]) = Len(c) + 1
        /\ \A P : In(inq'["coh"], P) = In(c, P) + Bit(x \in P)
    BY <1>1, <1>10, <2>1, AppendFacts, InAppend
  <2>3. ASSUME NEW P PROVE Queued(P)' = Queued(P) + Bit(x \in P) /\ Queued(P)' \in Nat
    <3> DEFINE i == In(a, P)
               j == In(b, P)
               k == In(c, P)
               l == In(d, P)
               z == Bit(x \in P)
    <3>1. Queued(P)' = i + j + (k + z) + l /\ Queued(P) = i + j + k + l
      BY <1>4, <1>7, <2>1, <2>2 DEF Queued
    <3>2. i \in Nat /\ j \in Nat /\ k \in Nat /\ l \in Nat /\ z \in Nat
      BY <1>7
    <3> HIDE DEF i, j, k, l, z
    <3>3. Queued(P)' = Queued(P) + z /\ Queued(P)' \in Nat
      BY <3>1, <3>2
    <3> QED
      BY <3>3 DEF z
  <2>4. Length' = Len(a) + Len(b) + (Len(c) + 1) + Len(d)
    BY <1>4, <2>1, <2>2 DEF Length
  <2> HIDE DEF a, b, c, d
  <2>5. credit' = Length' /\ credit' \in Nat
    BY <1>5, <1>6, <2>4
  <2>6. /\ inq'["top"] \in Seq(Fresh) /\ inq'["bot"] \in Seq(Bottom)
        /\ inq'["coh"] \in Seq(Coherence) /\ inq'["retry"] \in Seq(RetriedPacket)
    BY <1>1, <1>4, <2>1, <2>2
  <2> QED
    BY <1>1, <1>3, <1>4, <2>3, <2>5, <2>6 DEF QueuesTyped, CreditMatch, d
<1> QED
  BY <1>8, <1>9, <1>10

LEMMA RetryFreeKept ==
  ASSUME RetryFree, inq'["retry"] = inq["retry"], ort' = ort
  PROVE  RetryFree'
BY DEF RetryFree, Rows

\* The core issues an access.
LEMMA IssueInv ==
  ASSUME L1DInv, NEW a \in Access, NEW op \in Ops, NEW t \in Tag, Issue(a, op, t),
         UNCHANGED <<up, l2Vars>>
  PROVE  L1DInv'
<1> DEFINE x == [id |-> a, op |-> op, tag |-> t, type |-> op, coal |-> FALSE, conf |-> FALSE]
<1>1. /\ Shapes /\ LruFull /\ Placed(blk, wb)
      /\ RowsMatch /\ WaysMatch /\ Accounted /\ RetryFree /\ CreditMatch
  BY DEF L1DInv
<1>2. /\ a \notin flight /\ inq' = [inq EXCEPT !["top"] = Append(@, x)] /\ credit' = credit + 1
      /\ flight' = flight \cup {a} /\ UNCHANGED <<blk, lru, ort, coal, wb, tx, unsaved>>
      /\ UNCHANGED <<up, l2miss>>
  BY DEF Issue, l2Vars
<1>3. x \in Fresh /\ x.id = a /\ x \in CpuPacket
  BY L1DSystemAssumption DEF Fresh, CpuPacket
<1> HIDE DEF x
<1>4. /\ \A P : Queued(P)' = Queued(P) + Bit(x \in P) /\ Queued(P)' \in Nat
      /\ QueuesTyped' /\ CreditMatch' /\ inq'["retry"] = inq["retry"]
  <2> DEFINE r == "top"
  <2>1. r = "top" /\ inq' = [inq EXCEPT ![r] = Append(@, x)]
    BY <1>2
  <2> HIDE DEF r
  <2> QED
    BY <1>1, <1>2, <1>3, <2>1, EnqueueCounts
<1>5. ASSUME NEW P PROVE Total(P)' = Total(P) + Bit(x \in P)
  <2>1. Total(P)' = Queued(P)' + In(coal, P) + In(tx, P) + In(up, P) + Missing(P)
    BY <1>2 DEF Total, Queued, Missing
  <2>2. Total(P) = Queued(P) + In(coal, P) + In(tx, P) + In(up, P) + Missing(P)
    BY DEF Total
  <2>3. /\ Queued(P) \in Nat /\ In(coal, P) \in Nat /\ In(tx, P) \in Nat /\ In(up, P) \in Nat
        /\ Missing(P) \in Nat /\ Bit(x \in P) \in Nat
    BY <1>1, TotalNats DEF Bit
  <2> DEFINE h == Queued(P)
             i == In(coal, P)
             j == In(tx, P)
             k == In(up, P)
             l == Missing(P)
             z == Bit(x \in P)
  <2>4. /\ Total(P)' = (h + z) + i + j + k + l /\ Total(P) = h + i + j + k + l
        /\ h \in Nat /\ i \in Nat /\ j \in Nat /\ k \in Nat /\ l \in Nat /\ z \in Nat
    BY <1>4, <2>1, <2>2, <2>3
  <2> HIDE DEF h, i, j, k, l, z
  <2>5. Total(P)' = Total(P) + z
    BY <2>4
  <2> QED
    BY <2>5 DEF z
<1>6. ASSUME NEW P, Bit(x \in P) = 0 PROVE Total(P)' = Total(P)
  BY <1>1, <1>5, <1>6, TotalNats, PlusZero
<1>7. ASSUME NEW u \in Tag PROVE Bit(u \in Rows') = Total(Asks(u))' + In(coal', Confs(u))
  <2>1. Total(Asks(u))' = Total(Asks(u))
    BY <1>3, <1>6, CoreMembers
  <2>2. Rows' = Rows /\ coal' = coal
    BY <1>2 DEF Rows
  <2> QED
    BY <1>1, <2>1, <2>2 DEF RowsMatch
<1>8. ASSUME NEW u \in Tag, NEW w \in Way PROVE Bit(blk'[w].fill = u) = Total(AsksFor(u, w))'
  <2>1. Total(AsksFor(u, w))' = Total(AsksFor(u, w))
    BY <1>3, <1>6, CoreMembers
  <2> QED
    BY <1>1, <1>2, <2>1 DEF WaysMatch
<1>9. ASSUME NEW b \in Access PROVE Bit(b \in flight') = Total(Ids(b))'
  <2>1. Total(Ids(b))' = Total(Ids(b)) + Bit(a = b)
    BY <1>3, <1>5, CoreMembers
  <2>2. Bit(b \in flight) = Total(Ids(b))
    BY <1>1 DEF Accounted
  <2>3. Bit(b \in flight') = Bit(b \in flight) + Bit(a = b)
    BY <1>2 DEF Bit
  <2> QED
    BY <2>1, <2>2, <2>3
<1>10. RowsMatch'
  BY <1>7 DEF RowsMatch, Asks, Confs
<1>11. WaysMatch'
  BY <1>8 DEF WaysMatch, AsksFor
<1>12. Accounted'
  BY <1>9 DEF Accounted, Ids
<1>13. /\ blk' \in [Way -> Block] /\ lru' \in [Way -> Way] /\ wb' \in Seq(Tag) /\ tx' \in Seq(ToL2)
       /\ flight' \in SUBSET Access /\ unsaved' \in SUBSET Tag
  BY <1>1, <1>2, BlockTypes, QueueTypes
<1>14. Shapes'
  BY <1>1, <1>4, <1>13, CacheShapes
<1>15. LruFull' /\ Placed(blk', wb')
  BY <1>1, <1>2 DEF LruFull
<1>16. RetryFree'
  BY <1>1, <1>2, <1>4, RetryFreeKept
<1> QED
  BY <1>4, <1>10, <1>11, <1>12, <1>14, <1>15, <1>16 DEF L1DInv

\* The I/O controller moves a message from the L2 to the cache.
LEMMA UpIOInv ==
  ASSUME L1DInv, UpIO
  PROVE  L1DInv'
<1> DEFINE x == Head(up)
           r == IF x.type \in ToBottom THEN "bot" ELSE "coh"
<1>1. /\ Shapes /\ LruFull /\ Placed(blk, wb)
      /\ RowsMatch /\ WaysMatch /\ Accounted /\ RetryFree /\ CreditMatch
  BY DEF L1DInv
<1>2. /\ up # <<>> /\ up' = Tail(up) /\ inq' = [inq EXCEPT ![r] = Append(@, x)]
      /\ credit' = credit + 1 /\ UNCHANGED <<blk, lru, ort, coal, wb, tx, flight, unsaved>>
      /\ UNCHANGED l2Vars /\ l2miss' = l2miss
  BY DEF UpIO, l2Vars
<1>3. up \in Seq(FromL2)
  BY <1>1, QueueTypes
<1>4. x \in FromL2 /\ up' \in Seq(FromL2)
  BY <1>2, <1>3, RestOf
<1>5. ASSUME NEW P PROVE In(up, P) = Bit(x \in P) + In(up', P) /\ In(up', P) \in Nat
  <2>1. In(up, P) = Bit(x \in P) + In(up', P)
    BY <1>2, <1>3, InTail
  <2>2. In(up', P) \in Nat
    BY <1>4, InType
  <2> QED
    BY <2>1, <2>2
<1> HIDE DEF x
<1>6. (r = "bot" /\ x \in Bottom) \/ (r = "coh" /\ x \in Coherence)
  <2>1. CASE x.type \in ToBottom
    <3>1. x \in Returned
      BY <1>4, <2>1 DEF FromL2, ToBottom
    <3> QED
      BY <2>1, <3>1 DEF Bottom
  <2>2. CASE x.type \notin ToBottom
    BY <1>4, <2>2 DEF Coherence
  <2> QED
    BY <2>1, <2>2
<1> HIDE DEF r
<1>7. /\ \A P : Queued(P)' = Queued(P) + Bit(x \in P) /\ Queued(P)' \in Nat
      /\ QueuesTyped' /\ CreditMatch' /\ inq'["retry"] = inq["retry"]
  BY <1>1, <1>2, <1>6, EnqueueCounts
<1>8. ASSUME NEW P PROVE Total(P)' = Total(P)
  <2>1. Total(P)' = Queued(P)' + In(coal, P) + In(tx, P) + In(up', P) + Missing(P)
    BY <1>2 DEF Total, Queued, Missing
  <2>2. Total(P) = Queued(P) + In(coal, P) + In(tx, P) + In(up, P) + Missing(P)
    BY DEF Total
  <2>3. /\ Queued(P) \in Nat /\ In(coal, P) \in Nat /\ In(tx, P) \in Nat
        /\ Missing(P) \in Nat /\ Bit(x \in P) \in Nat
    BY <1>1, TotalNats DEF Bit
  <2> DEFINE h == Queued(P)
             i == In(coal, P)
             j == In(tx, P)
             k == In(up', P)
             l == Missing(P)
             z == Bit(x \in P)
  <2>4. /\ Total(P)' = (h + z) + i + j + k + l /\ Total(P) = h + i + j + (z + k) + l
        /\ h \in Nat /\ i \in Nat /\ j \in Nat /\ k \in Nat /\ l \in Nat /\ z \in Nat
    BY <1>5, <1>7, <2>1, <2>2, <2>3
  <2> HIDE DEF h, i, j, k, l, z
  <2> QED
    BY <2>4
<1>9. RowsKept /\ FillsKept /\ coal' \in Seq(Parked)
  BY <1>1, <1>2, QueueTypes DEF RowsKept, FillsKept, Rows
<1>10. RowsMatch' /\ WaysMatch' /\ Accounted'
  BY <1>1, <1>2, <1>8, <1>9, SamePreserves
<1>11. /\ blk' \in [Way -> Block] /\ lru' \in [Way -> Way] /\ wb' \in Seq(Tag) /\ tx' \in Seq(ToL2)
       /\ flight' \in SUBSET Access /\ unsaved' \in SUBSET Tag
  BY <1>1, <1>2, BlockTypes, QueueTypes
<1>12. /\ l2' \in [Tag -> BlockState] /\ l2wb' \in [Tag -> BOOLEAN]
       /\ l2fwd' \in [Tag -> {"none", "downgrade", "getx_fwd_inval"}]
       /\ l2miss' \in [Tag -> Requested \cup {NoRequest}]
       /\ \A t \in Tag : l2miss'[t] # NoRequest => l2miss'[t].tag = t
  BY <1>1, <1>2 DEF Shapes, TypeOK, l2Vars
<1>13. Shapes'
  BY <1>4, <1>7, <1>11, <1>12, ShapesAfter
<1>14. LruFull' /\ Placed(blk', wb')
  BY <1>1, <1>2 DEF LruFull
<1>15. RetryFree'
  BY <1>1, <1>2, <1>7, RetryFreeKept
<1> QED
  BY <1>7, <1>10, <1>13, <1>14, <1>15 DEF L1DInv

-----------------------------------------------------------------------------
(* Steps that leave the queues of the cache alone *)

L2Typed ==
  /\ l2 \in [Tag -> BlockState] /\ l2wb \in [Tag -> BOOLEAN]
  /\ l2fwd \in [Tag -> {"none", "downgrade", "getx_fwd_inval"}]
  /\ l2miss \in [Tag -> Requested \cup {NoRequest}]
  /\ \A t \in Tag : l2miss[t] # NoRequest => l2miss[t].tag = t

LEMMA L2Types ==
  ASSUME Shapes
  PROVE  L2Typed
BY DEF L2Typed, Shapes, TypeOK

\* What a step that leaves the queues of the cache alone has to keep.
LEMMA ElsewhereInv ==
  ASSUME L1DInv, UNCHANGED <<blk, lru, ort, coal, inq, credit, flight>>,
         \A P : Kind(P) => /\ In(tx, P) + In(up, P) + Missing(P)
                                = In(tx', P) + In(up', P) + Missing(P)'
                           /\ Missing(P)' \in Nat,
         tx' \in Seq(ToL2), up' \in Seq(FromL2), wb' \in Seq(Tag), Placed(blk, wb'),
         unsaved' \in SUBSET Tag, L2Typed'
  PROVE  L1DInv'
<1>1. /\ Shapes /\ LruFull /\ Placed(blk, wb)
      /\ RowsMatch /\ WaysMatch /\ Accounted /\ RetryFree /\ CreditMatch
  BY DEF L1DInv
<1>2. ASSUME NEW P, Kind(P) PROVE Total(P)' = Total(P)
  <2>1. Total(P)' = Queued(P) + In(coal, P) + In(tx', P) + In(up', P) + Missing(P)'
    BY DEF Total, Queued
  <2>2. Total(P) = Queued(P) + In(coal, P) + In(tx, P) + In(up, P) + Missing(P)
    BY DEF Total
  <2>3. /\ Queued(P) \in Nat /\ In(coal, P) \in Nat /\ In(tx, P) \in Nat /\ In(up, P) \in Nat
        /\ Missing(P) \in Nat
    BY <1>1, TotalNats
  <2>4. In(tx', P) \in Nat /\ In(up', P) \in Nat /\ Missing(P)' \in Nat
    BY <1>2, InType
  <2>5. In(tx, P) + In(up, P) + Missing(P) = In(tx', P) + In(up', P) + Missing(P)'
    BY <1>2
  <2> DEFINE h == Queued(P)
             i == In(coal, P)
             j == In(tx, P)
             k == In(up, P)
             l == Missing(P)
             j1 == In(tx', P)
             k1 == In(up', P)
             l1 == Missing(P)'
  <2>6. /\ Total(P)' = h + i + j1 + k1 + l1 /\ Total(P) = h + i + j + k + l
        /\ j + k + l = j1 + k1 + l1
        /\ h \in Nat /\ i \in Nat /\ j \in Nat /\ k \in Nat /\ l \in Nat
        /\ j1 \in Nat /\ k1 \in Nat /\ l1 \in Nat
    BY <2>1, <2>2, <2>3, <2>4, <2>5
  <2> HIDE DEF h, i, j, k, l, j1, k1, l1
  <2> QED
    BY <2>6
<1>3. RowsKept /\ FillsKept /\ coal' \in Seq(Parked)
  BY <1>1, QueueTypes DEF RowsKept, FillsKept, Rows
<1>4. RowsMatch' /\ WaysMatch' /\ Accounted'
  BY <1>1, <1>2, <1>3, SamePreserves
<1>5. QueuesTyped'
  <2>1. QueuesTyped
    BY <1>1, QueueTypes, OrtType, LengthNats DEF QueuesTyped, CreditMatch
  <2> QED
    BY <2>1 DEF QueuesTyped
<1>6. blk' \in [Way -> Block] /\ lru' \in [Way -> Way] /\ flight' \in SUBSET Access
  BY <1>1, BlockTypes
<1>7. Shapes'
  BY <1>5, <1>6, ShapesAfter DEF L2Typed
<1>8. LruFull' /\ Placed(blk', wb')
  BY <1>1 DEF LruFull
<1>9. RetryFree' /\ CreditMatch'
  BY <1>1 DEF RetryFree, Rows, CreditMatch, Length
<1> QED
  BY <1>4, <1>7, <1>8, <1>9 DEF L1DInv

LEMMA NotPacketsIn ==
  ASSUME NEW x, x \notin Packets, NEW P, Kind(P)
  PROVE  Bit(x \in P) = 0
BY DEF Kind, Bit

\* What the L2 takes, by its type.
LEMMA ToL2Kinds ==
  ASSUME NEW m \in ToL2
  PROVE  /\ m.tag \in Tag
         /\ m.type \in {"get", "getx", "upgrade"} => m \in Requested
         /\ m.type \notin {"get", "getx", "upgrade"} => m \notin Packets
<1>1. CASE m \in Requested
  BY <1>1 DEF Requested
<1>2. CASE m \in [type : {"write_back"}, tag : Tag]
  BY <1>2 DEF Packets, CpuPacket, Returned, Requested
<1>3. CASE m \in [type : {"downgrade_ack", "getx_fwd_inval_ack", "flush_block_ack"}, tag : Tag,
                  dirty : BOOLEAN]
  BY <1>3 DEF Packets, CpuPacket, Returned, Requested
<1> QED
  BY <1>1, <1>2, <1>3 DEF ToL2

\* The message that the L2 takes.
LEMMA TakesFacts ==
  ASSUME Shapes, NEW m, NEW types, Takes(m, types)
  PROVE  /\ m \in ToL2 /\ m.type \in types /\ m.tag \in Tag /\ tx' \in Seq(ToL2)
         /\ \A P : In(tx, P) = Bit(m \in P) + In(tx', P) /\ In(tx', P) \in Nat
         /\ \A P : m \in P => Total(P) > 0
<1>1. tx # <<>> /\ m = Head(tx) /\ m.type \in types /\ tx' = Tail(tx) /\ tx \in Seq(ToL2)
  BY QueueTypes DEF Takes
<1>2. m \in ToL2 /\ tx' \in Seq(ToL2)
  BY <1>1, RestOf
<1>3. ASSUME NEW P PROVE In(tx, P) = Bit(m \in P) + In(tx', P) /\ In(tx', P) \in Nat
  BY <1>1, <1>2, InTail, InType
<1>4. ASSUME NEW P, m \in P PROVE Total(P) > 0
  <2>1. 1 \in DOMAIN tx /\ tx[1] = m
    BY <1>1
  <2>2. In(tx, P) > 0
    BY <1>1, <1>4, <2>1, InSome
  <2>3. /\ Queued(P) \in Nat /\ In(coal, P) \in Nat /\ In(tx, P) \in Nat /\ In(up, P) \in Nat
        /\ Missing(P) \in Nat
    BY TotalNats
  <2> QED
    BY <2>2, <2>3 DEF Total
<1> QED
  BY <1>1, <1>2, <1>3, <1>4, ToL2Kinds

\* The cache writes a block back from its buffer.
LEMMA WriteBackInv ==
  ASSUME L1DInv, WriteBack, UNCHANGED <<up, l2Vars>>
  PROVE  L1DInv'
<1> DEFINE x == [type |-> "write_back", tag |-> Head(wb)]
<1>1. Shapes /\ Placed(blk, wb) /\ blk \in [Way -> Block] /\ wb \in Seq(Tag) /\ unsaved \in SUBSET Tag
  BY BlockTypes DEF L1DInv
<1>2. /\ tx' = Append(tx, x) /\ wb' = Tail(wb) /\ wb # <<>>
      /\ UNCHANGED <<blk, lru, ort, coal, inq, credit, flight, unsaved>>
  BY DEF WriteBack, Served, Waiting
<1>3. Head(wb) \in Tag /\ wb' \in Seq(Tag)
  BY <1>1, <1>2, RestOf
<1>4. x \in ToL2 /\ x \notin Packets
  BY <1>3, NotPackets DEF ToL2
<1> HIDE DEF x
<1>5. tx \in Seq(ToL2) /\ up \in Seq(FromL2)
  BY <1>1, QueueTypes
<1>6. tx' \in Seq(ToL2)
  BY <1>2, <1>4, <1>5, AppendFacts
<1>7. ASSUME NEW P, Kind(P)
      PROVE  /\ In(tx, P) + In(up, P) + Missing(P) = In(tx', P) + In(up', P) + Missing(P)'
             /\ Missing(P)' \in Nat
  <2>1. In(tx', P) = In(tx, P) + Bit(x \in P)
    BY <1>2, <1>4, <1>5, InAppend
  <2>2. Bit(x \in P) = 0 /\ In(tx, P) \in Nat
    BY <1>1, <1>4, <1>7, NotPacketsIn, TotalNats
  <2>3. In(tx', P) = In(tx, P)
    BY <2>1, <2>2, PlusZero
  <2>4. Missing(P)' = Missing(P) /\ up' = up
    BY DEF Missing, l2Vars
  <2> QED
    BY <2>3, <2>4, MissingFacts
<1>8. Placed(blk, wb')
  <2>1. ASSUME NEW t PROVE Copies(wb', t) <= Copies(wb, t)
    <3>1. In(wb, {t}) = Bit(Head(wb) \in {t}) + In(wb', {t})
      BY <1>1, <1>2, InTail
    <3>2. In(wb', {t}) \in Nat /\ Bit(Head(wb) \in {t}) \in Nat
      BY <1>3, InType DEF Bit
    <3> DEFINE i == In(wb, {t})
               j == Bit(Head(wb) \in {t})
               k == In(wb', {t})
    <3>3. i = j + k /\ j \in Nat /\ k \in Nat
      BY <3>1, <3>2
    <3> HIDE DEF i, j, k
    <3>4. k <= i
      BY <3>3
    <3> QED
      BY <3>4 DEF i, k, Copies
  <2> QED
    BY <1>1, <1>3, <2>1, SavedPlaced
<1>9. L2Typed'
  <2>1. L2Typed
    BY <1>1, L2Types
  <2> QED
    BY <2>1 DEF L2Typed, l2Vars
<1>10. up' \in Seq(FromL2) /\ unsaved' \in SUBSET Tag
  BY <1>1, <1>2, <1>5
<1> QED
  BY <1>2, <1>3, <1>6, <1>7, <1>8, <1>9, <1>10, ElsewhereInv

-----------------------------------------------------------------------------
(* Steps of the L2 *)

\* The cache is left alone; what the L2 takes and what it sends balance.
LEMMA L2Inv ==
  ASSUME L1DInv, UNCHANGED RestOfCache,
         \A P : Kind(P) => /\ In(tx, P) + In(up, P) + Missing(P)
                                = In(tx', P) + In(up', P) + Missing(P)'
                           /\ Missing(P)' \in Nat,
         tx' \in Seq(ToL2), up' \in Seq(FromL2), unsaved' \in SUBSET Tag, L2Typed'
  PROVE  L1DInv'
<1>1. Shapes /\ Placed(blk, wb) /\ wb \in Seq(Tag)
  BY BlockTypes DEF L1DInv
<1>2. UNCHANGED <<blk, lru, ort, coal, inq, credit, flight>> /\ wb' = wb
  BY DEF RestOfCache
<1>3. wb' \in Seq(Tag) /\ Placed(blk, wb')
  BY <1>1, <1>2
<1> QED
  BY <1>2, <1>3, ElsewhereInv

\* A reply takes the place of its request.
LEMMA ReplyTypes ==
  ASSUME NEW m \in Requested, NEW type \in ToBottom \cup {"upgrade_ack"}
  PROVE  /\ Reply(m, type) \in FromL2
         /\ \A P : Kind(P) => Bit(Reply(m, type) \in P) = Bit(m \in P)
<1> DEFINE x == Reply(m, type)
<1>1. x \in Returned /\ x.id = m.id /\ x.tag = m.tag /\ x.way = m.way
  BY DEF Reply, Request, Requested, Returned
<1> HIDE DEF x
<1>2. ASSUME NEW P, Kind(P) PROVE Bit(x \in P) = Bit(m \in P)
  BY <1>1, <1>2 DEF Kind, Bit
<1>3. x \in FromL2
  BY <1>1 DEF FromL2
<1> QED
  BY <1>2, <1>3 DEF x

\* A second downgrade is no reply.
LEMMA AgainFacts ==
  ASSUME NEW t \in Tag
  PROVE  Again(t) \in Seq(FromL2) /\ \A P : Kind(P) => In(Again(t), P) = 0
<1> DEFINE x == Demand("downgrade", t)
<1>1. x \in FromL2 /\ x \notin Packets
  BY NotPackets DEF Demand, FromL2
<1> HIDE DEF x
<1>2. CASE l2fwd[t] = "downgrade"
  <2>1. Again(t) = <<x>>
    BY <1>2 DEF Again, x
  <2>2. ASSUME NEW P, Kind(P) PROVE In(<<x>>, P) = 0
    BY <1>1, <2>2, InSingle, NotPacketsIn
  <2>3. <<x>> \in Seq(FromL2)
    BY <1>1
  <2> QED
    BY <2>1, <2>2, <2>3
<1>3. CASE l2fwd[t] # "downgrade"
  <2>1. Again(t) = <<>>
    BY <1>3 DEF Again
  <2> QED
    BY <2>1, InEmpty, EmptySeq
<1> QED
  BY <1>2, <1>3

\* The queue to the L1 after a reply to m, and after what is sent again.
LEMMA RepliedFacts ==
  ASSUME Shapes, NEW m \in Requested, NEW type \in ToBottom \cup {"upgrade_ack"},
         NEW g \in Seq(FromL2), \A P : Kind(P) => In(g, P) = 0,
         up' = Append(up, Reply(m, type)) \o g
  PROVE  /\ up' \in Seq(FromL2)
         /\ \A P : Kind(P) => In(up', P) = In(up, P) + Bit(m \in P) /\ In(up', P) \in Nat
<1> DEFINE x == Reply(m, type)
           s == Append(up, x)
<1>1. x \in FromL2 /\ \A P : Kind(P) => Bit(x \in P) = Bit(m \in P)
  BY ReplyTypes
<1>2. up \in Seq(FromL2)
  BY QueueTypes
<1> HIDE DEF x
<1>3. s \in Seq(FromL2) /\ \A P : In(s, P) = In(up, P) + Bit(x \in P)
  BY <1>1, <1>2, AppendFacts, InAppend
<1>4. up' = s \o g
  BY DEF x
<1> HIDE DEF s
<1>5. up' \in Seq(FromL2)
  BY <1>3, <1>4, JoinFacts
<1>6. ASSUME NEW P, Kind(P) PROVE In(up', P) = In(up, P) + Bit(m \in P) /\ In(up', P) \in Nat
  <2>1. In(up', P) = In(s, P) + In(g, P)
    BY <1>3, <1>4, InConcat
  <2>2. In(g, P) = 0 /\ In(s, P) = In(up, P) + Bit(m \in P) /\ In(s, P) \in Nat
    BY <1>1, <1>3, <1>6, InType
  <2>3. In(up', P) = In(s, P) + 0
    BY <2>1, <2>2
  <2> QED
    BY <2>2, <2>3, PlusZero
<1> QED
  BY <1>5, <1>6

\* The L2 answers m, which it has just taken.
LEMMA AnsweredInv ==
  ASSUME L1DInv, UNCHANGED RestOfCache, NEW m \in Requested, NEW types, Takes(m, types),
         NEW type \in ToBottom \cup {"upgrade_ack"},
         NEW g \in Seq(FromL2), \A P : Kind(P) => In(g, P) = 0,
         up' = Append(up, Reply(m, type)) \o g, unsaved' \in SUBSET Tag, UNCHANGED l2miss, L2Typed'
  PROVE  L1DInv'
<1>1. Shapes
  BY DEF L1DInv
<1>2. /\ tx' \in Seq(ToL2)
      /\ \A P : In(tx, P) = Bit(m \in P) + In(tx', P) /\ In(tx', P) \in Nat
  BY <1>1, TakesFacts
<1>3. /\ up' \in Seq(FromL2)
      /\ \A P : Kind(P) => In(up', P) = In(up, P) + Bit(m \in P) /\ In(up', P) \in Nat
  BY <1>1, RepliedFacts
<1>4. ASSUME NEW P, Kind(P)
      PROVE  /\ In(tx, P) + In(up, P) + Missing(P) = In(tx', P) + In(up', P) + Missing(P)'
             /\ Missing(P)' \in Nat
  <2>1. Missing(P)' = Missing(P)
    BY DEF Missing
  <2>2. In(up, P) \in Nat /\ Missing(P) \in Nat /\ Bit(m \in P) \in Nat /\ In(tx', P) \in Nat
    BY <1>1, <1>2, TotalNats DEF Bit
  <2> DEFINE i == In(tx', P)
             j == In(up, P)
             k == Missing(P)
             z == Bit(m \in P)
  <2>3. /\ In(tx, P) = z + i /\ In(up', P) = j + z /\ i \in Nat /\ j \in Nat /\ k \in Nat
        /\ z \in Nat /\ Missing(P)' = k
    BY <1>2, <1>3, <1>4, <2>1, <2>2
  <2> HIDE DEF i, j, k, z
  <2>4. (z + i) + j + k = i + (j + z) + k
    BY <2>3
  <2> QED
    BY <2>3, <2>4 DEF i, j, k
<1> QED
  BY <1>2, <1>3, <1>4, L2Inv

\* The L2 takes a message that is not a request.
LEMMA AckedInv ==
  ASSUME L1DInv, UNCHANGED RestOfCache, NEW m, NEW types, Takes(m, types), m \notin Packets,
         unsaved' \in SUBSET Tag, UNCHANGED <<up, l2miss>>, L2Typed'
  PROVE  L1DInv'
<1>1. Shapes
  BY DEF L1DInv
<1>2. /\ tx' \in Seq(ToL2)
      /\ \A P : In(tx, P) = Bit(m \in P) + In(tx', P) /\ In(tx', P) \in Nat
  BY <1>1, TakesFacts
<1>3. up' \in Seq(FromL2)
  BY <1>1, QueueTypes
<1>4. ASSUME NEW P, Kind(P)
      PROVE  /\ In(tx, P) + In(up, P) + Missing(P) = In(tx', P) + In(up', P) + Missing(P)'
             /\ Missing(P)' \in Nat
  <2>1. Missing(P)' = Missing(P) /\ Missing(P) \in Nat
    BY MissingFacts DEF Missing
  <2>2. In(tx, P) = 0 + In(tx', P) /\ In(tx', P) \in Nat
    BY <1>2, <1>4, NotPacketsIn
  <2>3. In(tx, P) = In(tx', P)
    BY <2>2, PlusZero
  <2> QED
    BY <2>1, <2>3
<1> QED
  BY <1>2, <1>3, <1>4, L2Inv

\* The L2 notes the request m until the L3 answers.
LEMMA NotedInv ==
  ASSUME L1DInv, UNCHANGED RestOfCache, NEW m \in Requested, NEW types, Takes(m, types),
         l2miss' = [l2miss EXCEPT ![m.tag] = m], UNCHANGED <<up, unsaved, l2, l2wb, l2fwd>>
  PROVE  L1DInv'
<1>1. Shapes /\ RowsMatch /\ unsaved \in SUBSET Tag
  BY BlockTypes DEF L1DInv
<1>2. /\ tx' \in Seq(ToL2) /\ m.tag \in Tag
      /\ \A P : In(tx, P) = Bit(m \in P) + In(tx', P) /\ In(tx', P) \in Nat
      /\ \A P : m \in P => Total(P) > 0
  BY <1>1, TakesFacts
<1>3. up' \in Seq(FromL2)
  BY <1>1, QueueTypes
<1>4. l2miss[m.tag] = NoRequest
  <2> SUFFICES ASSUME l2miss[m.tag] # NoRequest PROVE FALSE
    OBVIOUS
  <2> DEFINE P == Asks(m.tag)
             D == {t \in Tag : l2miss[t] # NoRequest /\ l2miss[t] \in P}
  <2>1. l2miss[m.tag] \in Requested /\ l2miss[m.tag].tag = m.tag
    BY <1>1, <1>2, QueueTypes DEF Shapes
  <2>2. m.tag \in D /\ m \in P
    BY <1>2, <2>1 DEF Asks
  <2>3. IsFiniteSet(D) /\ Missing(P) = Cardinality(D) /\ Missing(P) \in Nat
    BY MissingFacts DEF Missing
  <2> HIDE DEF D, P
  <2>4. Missing(P) # 0
    BY <2>2, <2>3, FS_EmptySet
  <2>5. In(tx, P) = 1 + In(tx', P) /\ In(tx', P) \in Nat
    BY <1>2, <2>2 DEF Bit
  <2>6. Queued(P) \in Nat /\ In(coal, P) \in Nat /\ In(up, P) \in Nat
    BY <1>1, TotalNats
  <2>7. Total(P) >= 2
    <3>1. Total(P) = Queued(P) + In(coal, P) + (1 + In(tx', P)) + In(up, P) + Missing(P)
      BY <2>5 DEF Total
    <3> DEFINE h == Queued(P)
               i == In(coal, P)
               j == In(tx', P)
               k == In(up, P)
               l == Missing(P)
    <3>2. /\ Total(P) = h + i + (1 + j) + k + l /\ l # 0
          /\ h \in Nat /\ i \in Nat /\ j \in Nat /\ k \in Nat /\ l \in Nat
      BY <2>3, <2>4, <2>5, <2>6, <3>1
    <3> HIDE DEF h, i, j, k, l
    <3> QED
      BY <3>2
  <2>8. Total(P) = 1
    <3>1. Total(P) > 0
      BY <1>2, <2>2
    <3> QED
      BY <1>1, <1>2, <3>1, ConfsOnce DEF P
  <2> QED
    BY <2>7, <2>8
<1>5. ASSUME NEW P, Kind(P)
      PROVE  /\ In(tx, P) + In(up, P) + Missing(P) = In(tx', P) + In(up', P) + Missing(P)'
             /\ Missing(P)' \in Nat
  <2>1. Missing(P)' = Missing(P) + Bit(m \in P)
    BY <1>1, <1>2, <1>4, MissingAdd
  <2>2. In(up, P) \in Nat /\ Missing(P) \in Nat /\ Bit(m \in P) \in Nat /\ In(tx', P) \in Nat
    BY <1>1, <1>2, TotalNats DEF Bit
  <2> DEFINE i == In(tx', P)
             j == In(up, P)
             k == Missing(P)
             z == Bit(m \in P)
  <2>3. /\ In(tx, P) = z + i /\ In(up', P) = j /\ i \in Nat /\ j \in Nat /\ k \in Nat
        /\ z \in Nat /\ Missing(P)' = k + z
    BY <1>2, <2>1, <2>2
  <2> HIDE DEF i, j, k, z
  <2>4. (z + i) + j + k = i + j + (k + z) /\ k + z \in Nat
    BY <2>3
  <2> QED
    BY <2>3, <2>4 DEF i, j, k
<1>6. L2Typed'
  <2>1. /\ l2 \in [Tag -> BlockState] /\ l2wb \in [Tag -> BOOLEAN]
        /\ l2fwd \in [Tag -> {"none", "downgrade", "getx_fwd_inval"}]
        /\ l2miss \in [Tag -> Requested \cup {NoRequest}]
        /\ \A t \in Tag : l2miss[t] # NoRequest => l2miss[t].tag = t
    BY <1>1, L2Types DEF L2Typed
  <2>2. l2miss' \in [Tag -> Requested \cup {NoRequest}]
    BY <1>2, <2>1
  <2>3. \A t \in Tag : l2miss'[t] # NoRequest => l2miss'[t].tag = t
    BY <1>2, <2>1
  <2> QED
    BY <2>1, <2>2, <2>3 DEF L2Typed
<1>7. unsaved' \in SUBSET Tag
  BY <1>1
<1> QED
  BY <1>2, <1>3, <1>5, <1>6, <1>7, L2Inv

\* The L2 demands a block: x goes to the L1.
LEMMA DemandedByL2Inv ==
  ASSUME L1DInv, UNCHANGED cacheVars, NEW x \in FromL2, x \notin Packets, up' = Append(up, x),
         UNCHANGED l2miss, L2Typed'
  PROVE  L1DInv'
<1>1. Shapes /\ unsaved \in SUBSET Tag
  BY BlockTypes DEF L1DInv
<1>2. UNCHANGED RestOfCache /\ tx' = tx /\ unsaved' = unsaved
  BY DEF cacheVars, RestOfCache
<1>3. up \in Seq(FromL2) /\ tx' \in Seq(ToL2)
  BY <1>1, <1>2, QueueTypes
<1>4. up' \in Seq(FromL2)
  BY <1>3, AppendFacts
<1>5. ASSUME NEW P, Kind(P)
      PROVE  /\ In(tx, P) + In(up, P) + Missing(P) = In(tx', P) + In(up', P) + Missing(P)'
             /\ Missing(P)' \in Nat
  <2>1. Missing(P)' = Missing(P) /\ Missing(P) \in Nat
    BY MissingFacts DEF Missing
  <2>2. In(up', P) = In(up, P) + 0
    BY <1>3, <1>5, InAppend, NotPacketsIn
  <2>3. In(up', P) = In(up, P)
    BY <1>1, <2>2, TotalNats, PlusZero
  <2> QED
    BY <1>2, <2>1, <2>3
<1>6. unsaved' \in SUBSET Tag
  BY <1>1, <1>2
<1> QED
  BY <1>2, <1>3, <1>4, <1>5, <1>6, L2Inv

\* The L2 answers with the state of the block or less.
LEMMA PutTypes ==
  /\ \A st \in {"S", "E", "M"} : PutOf(st) \in ToBottom \cup {"upgrade_ack"}
  /\ "get_nack" \in ToBottom \cup {"upgrade_ack"} /\ "getx_nack" \in ToBottom \cup {"upgrade_ack"}
  /\ "putx" \in ToBottom \cup {"upgrade_ack"} /\ "upgrade_ack" \in ToBottom \cup {"upgrade_ack"}
<1>1. PutOf("S") = "puts" /\ PutOf("E") = "put_clnx" /\ PutOf("M") = "putx"
  BY DEF PutOf
<1> QED
  BY <1>1 DEF ToBottom

\* A reply alone.
LEMMA NothingAgain ==
  /\ \A s \in Seq(FromL2) : s = s \o <<>>
  /\ <<>> \in Seq(FromL2) /\ \A P : Kind(P) => In(<<>>, P) = 0
BY ConcatEmptySeq, EmptySeq, InEmpty

\* Each handler of the L2 keeps the invariant.
LEMMA L2GetInv ==
  ASSUME L1DInv, NEW m, L2Get(m)
  PROVE  L1DInv'
<1>1. Shapes /\ unsaved \in SUBSET Tag
  BY BlockTypes DEF L1DInv
<1>2. /\ Takes(m, {"get"}) /\ UNCHANGED RestOfCache /\ UNCHANGED <<unsaved, l2, l2wb, l2fwd>>
  BY DEF L2Get
<1>3. m \in Requested /\ m.tag \in Tag
  BY <1>1, <1>2, TakesFacts, ToL2Kinds
<1>4. L2Typed
  BY <1>1, L2Types
<1>5. unsaved' \in SUBSET Tag
  BY <1>1, <1>2
<1>6. CASE up' = Append(up, Reply(m, "get_nack")) /\ UNCHANGED l2miss
  <2>1. up \in Seq(FromL2) /\ Reply(m, "get_nack") \in FromL2
    BY <1>1, <1>3, QueueTypes, PutTypes, ReplyTypes
  <2>2. Append(up, Reply(m, "get_nack")) \in Seq(FromL2)
    BY <2>1, AppendFacts
  <2>3. up' = Append(up, Reply(m, "get_nack")) \o <<>>
    BY <1>6, <2>2, NothingAgain
  <2>4. L2Typed'
    BY <1>2, <1>4, <1>6 DEF L2Typed
  <2> DEFINE g == <<>>
             y == "get_nack"
  <2>5. g \in Seq(FromL2) /\ (\A P : Kind(P) => In(g, P) = 0) /\ y \in ToBottom \cup {"upgrade_ack"}
    BY NothingAgain, PutTypes
  <2>6. up' = Append(up, Reply(m, y)) \o g
    BY <2>3
  <2> HIDE DEF g, y
  <2> QED
    BY <1>2, <1>3, <1>5, <1>6, <2>4, <2>5, <2>6, AnsweredInv
<1>7. CASE l2miss' = [l2miss EXCEPT ![m.tag] = m] /\ UNCHANGED up
  BY <1>2, <1>3, <1>7, NotedInv
<1>8. CASE /\ l2[m.tag] # "I" /\ UNCHANGED l2miss
           /\ up' = Append(up, Reply(m, PutOf(l2[m.tag]))) \o Again(m.tag)
  <2>1. l2[m.tag] \in {"S", "E", "M"}
    BY <1>3, <1>4, <1>8 DEF L2Typed, BlockState
  <2>2. L2Typed'
    BY <1>2, <1>4, <1>8 DEF L2Typed
  <2> QED
    BY <1>2, <1>3, <1>5, <1>8, <2>1, <2>2, PutTypes, AgainFacts, AnsweredInv
<1> QED
  BY <1>6, <1>7, <1>8 DEF L2Get

LEMMA L2GetxInv ==
  ASSUME L1DInv, NEW m, L2Getx(m)
  PROVE  L1DInv'
<1>1. Shapes /\ unsaved \in SUBSET Tag
  BY BlockTypes DEF L1DInv
<1>2. /\ Takes(m, {"getx", "upgrade"}) /\ UNCHANGED RestOfCache /\ UNCHANGED <<unsaved, l2wb, l2fwd>>
  BY DEF L2Getx
<1>3. m \in Requested /\ m.tag \in Tag
  BY <1>1, <1>2, TakesFacts, ToL2Kinds
<1>4. L2Typed
  BY <1>1, L2Types
<1>5. unsaved' \in SUBSET Tag
  BY <1>1, <1>2
<1>6. CASE up' = Append(up, Reply(m, "getx_nack")) /\ UNCHANGED <<l2, l2miss>>
  <2>1. up \in Seq(FromL2) /\ Reply(m, "getx_nack") \in FromL2
    BY <1>1, <1>3, QueueTypes, PutTypes, ReplyTypes
  <2>2. Append(up, Reply(m, "getx_nack")) \in Seq(FromL2)
    BY <2>1, AppendFacts
  <2>3. up' = Append(up, Reply(m, "getx_nack")) \o <<>>
    BY <1>6, <2>2, NothingAgain
  <2>4. L2Typed'
    BY <1>2, <1>4, <1>6 DEF L2Typed
  <2> DEFINE g == <<>>
             y == "getx_nack"
  <2>5. g \in Seq(FromL2) /\ (\A P : Kind(P) => In(g, P) = 0) /\ y \in ToBottom \cup {"upgrade_ack"}
    BY NothingAgain, PutTypes
  <2>6. up' = Append(up, Reply(m, y)) \o g
    BY <2>3
  <2> HIDE DEF g, y
  <2> QED
    BY <1>2, <1>3, <1>5, <1>6, <2>4, <2>5, <2>6, AnsweredInv
<1>7. CASE l2miss' = [l2miss EXCEPT ![m.tag] = m] /\ UNCHANGED <<up, l2>>
  BY <1>2, <1>3, <1>7, NotedInv
<1>8. CASE /\ l2' = [l2 EXCEPT ![m.tag] = "M"] /\ UNCHANGED l2miss
           /\ up' = Append(up, Reply(m, "putx")) \o Again(m.tag)
  <2>1. L2Typed'
    BY <1>2, <1>3, <1>4, <1>8 DEF L2Typed, BlockState
  <2> QED
    BY <1>2, <1>3, <1>5, <1>8, <2>1, PutTypes, AgainFacts, AnsweredInv
<1> QED
  BY <1>6, <1>7, <1>8 DEF L2Getx

\* Messages that are no requests.
LEMMA L2AckInv ==
  ASSUME L1DInv, NEW m, L2WriteBack(m) \/ L2ForwardAck(m) \/ L2FlushAck(m)
  PROVE  L1DInv'
<1>1. Shapes /\ unsaved \in SUBSET Tag
  BY BlockTypes DEF L1DInv
<1>2. L2Typed
  BY <1>1, L2Types
<1>3. ASSUME NEW types, Takes(m, types),
             types \cap {"get", "getx", "upgrade"} = {}
      PROVE  m \notin Packets /\ m.tag \in Tag
  BY <1>1, <1>3, TakesFacts, ToL2Kinds
<1>4. CASE L2WriteBack(m)
  <2>1. /\ Takes(m, {"write_back"}) /\ unsaved' = unsaved \ {m.tag}
        /\ UNCHANGED RestOfCache /\ UNCHANGED <<up, l2wb, l2fwd, l2miss>>
        /\ l2' = [l2 EXCEPT ![m.tag] = "M"] \/ UNCHANGED l2
    BY <1>4 DEF L2WriteBack
  <2>2. m \notin Packets /\ m.tag \in Tag
    BY <1>3, <2>1
  <2>3. L2Typed' /\ unsaved' \in SUBSET Tag
    BY <1>1, <1>2, <2>1, <2>2 DEF L2Typed, BlockState
  <2> QED
    BY <2>1, <2>2, <2>3, AckedInv
<1>5. CASE L2ForwardAck(m)
  <2>1. /\ Takes(m, {"downgrade_ack", "getx_fwd_inval_ack"})
        /\ unsaved' = IF m.dirty THEN unsaved \ {m.tag} ELSE unsaved
        /\ UNCHANGED RestOfCache /\ UNCHANGED <<up, l2miss>>
        /\ l2fwd' = [l2fwd EXCEPT ![m.tag] = "none"]
        /\ \/ l2' = [l2 EXCEPT ![m.tag] = IF m.type = "downgrade_ack" THEN "S" ELSE "I"]
              /\ UNCHANGED l2wb
           \/ l2wb' = [l2wb EXCEPT ![m.tag] = FALSE] /\ UNCHANGED l2
    BY <1>5 DEF L2ForwardAck
  <2>2. m \notin Packets /\ m.tag \in Tag
    BY <1>3, <2>1
  <2>3. l2' \in [Tag -> BlockState] /\ l2wb' \in [Tag -> BOOLEAN]
    BY <1>2, <2>1, <2>2 DEF L2Typed, BlockState
  <2>4. L2Typed'
    BY <1>2, <2>1, <2>2, <2>3 DEF L2Typed
  <2>5. unsaved' \in SUBSET Tag
    BY <1>1, <2>1
  <2> QED
    BY <2>1, <2>2, <2>4, <2>5, AckedInv
<1>6. CASE L2FlushAck(m)
  <2>1. /\ Takes(m, {"flush_block_ack"})
        /\ unsaved' = IF l2wb[m.tag] /\ m.dirty THEN unsaved \ {m.tag} ELSE unsaved
        /\ UNCHANGED RestOfCache /\ UNCHANGED <<up, l2, l2miss>>
        /\ l2fwd' = IF l2wb[m.tag] THEN [l2fwd EXCEPT ![m.tag] = "none"] ELSE l2fwd
        /\ l2wb' = [l2wb EXCEPT ![m.tag] = FALSE]
    BY <1>6 DEF L2FlushAck
  <2>2. m \notin Packets /\ m.tag \in Tag
    BY <1>3, <2>1
  <2>3. l2fwd' \in [Tag -> {"none", "downgrade", "getx_fwd_inval"}] /\ l2wb' \in [Tag -> BOOLEAN]
    BY <1>2, <2>1, <2>2 DEF L2Typed
  <2>4. L2Typed'
    BY <1>2, <2>1, <2>3 DEF L2Typed
  <2>5. unsaved' \in SUBSET Tag
    BY <1>1, <2>1
  <2> QED
    BY <2>1, <2>2, <2>4, <2>5, AckedInv
<1> QED
  BY <1>4, <1>5, <1>6

\* What the L2 does of its own accord.
LEMMA L2DemandInv ==
  ASSUME L1DInv, L2Demand
  PROVE  L1DInv'
<1>1. PICK t \in Tag : \/ L2Evict(t) \/ L2UpgradeInval(t)
                       \/ L2Forward(t, "downgrade") \/ L2Forward(t, "getx_fwd_inval")
  BY DEF L2Demand
<1>2. Shapes /\ unsaved \in SUBSET Tag
  BY BlockTypes DEF L1DInv
<1>3. L2Typed
  BY <1>2, L2Types
<1>4. CASE L2Evict(t)
  <2>1. l2[t] \in {"S", "E", "M"}
    BY <1>3, <1>4 DEF L2Evict, L2Typed, BlockState
  <2> DEFINE x == [type |-> "flush_block", tag |-> t, st |-> l2[t]]
  <2>2. x \in FromL2 /\ x \notin Packets
    BY <2>1, NotPackets DEF FromL2
  <2>3. up' = Append(up, x) /\ UNCHANGED cacheVars /\ UNCHANGED l2miss
    BY <1>4 DEF L2Evict
  <2> HIDE DEF x
  <2>4. L2Typed'
    BY <1>3, <1>4 DEF L2Evict, L2Typed, BlockState, Waits
  <2> QED
    BY <2>2, <2>3, <2>4, DemandedByL2Inv
<1>5. CASE L2UpgradeInval(t)
  <2> DEFINE x == Demand("upgrade_inval", t)
  <2>1. x \in FromL2 /\ x \notin Packets
    BY NotPackets DEF FromL2, Demand
  <2>2. up' = Append(up, x) /\ UNCHANGED cacheVars /\ UNCHANGED l2miss
    BY <1>5 DEF L2UpgradeInval
  <2> HIDE DEF x
  <2>3. L2Typed'
    BY <1>3, <1>5 DEF L2UpgradeInval, L2Typed, BlockState
  <2> QED
    BY <2>1, <2>2, <2>3, DemandedByL2Inv
<1>6. ASSUME NEW type \in {"downgrade", "getx_fwd_inval"}, L2Forward(t, type)
      PROVE  L1DInv'
  <2> DEFINE x == Demand(type, t)
  <2>1. x \in FromL2 /\ x \notin Packets
    BY NotPackets DEF FromL2, Demand
  <2>2. up' = Append(up, x) /\ UNCHANGED cacheVars /\ UNCHANGED l2miss
    BY <1>6 DEF L2Forward
  <2> HIDE DEF x
  <2>3. L2Typed'
    BY <1>3, <1>6 DEF L2Forward, L2Typed
  <2> QED
    BY <2>1, <2>2, <2>3, DemandedByL2Inv
<1> QED
  BY <1>1, <1>4, <1>5, <1>6

\* The queue to the L1 after a reply alone.
LEMMA RepliedAlone ==
  ASSUME Shapes, NEW m \in Requested, NEW type \in ToBottom \cup {"upgrade_ack"},
         up' = Append(up, Reply(m, type))
  PROVE  /\ up' \in Seq(FromL2)
         /\ \A P : Kind(P) => In(up', P) = In(up, P) + Bit(m \in P) /\ In(up', P) \in Nat
<1> DEFINE g == <<>>
<1>1. up \in Seq(FromL2) /\ Reply(m, type) \in FromL2
  BY QueueTypes, ReplyTypes
<1>2. Append(up, Reply(m, type)) \in Seq(FromL2)
  BY <1>1, AppendFacts
<1>3. g \in Seq(FromL2) /\ (\A P : Kind(P) => In(g, P) = 0) /\ up' = Append(up, Reply(m, type)) \o g
  BY <1>2, NothingAgain
<1> HIDE DEF g
<1> QED
  BY <1>3, RepliedFacts

\* The L3 has answered.
LEMMA L2AnswerInv ==
  ASSUME L1DInv, NEW t \in Tag, L2Answer(t)
  PROVE  L1DInv'
<1> DEFINE m == l2miss[t]
<1>1. Shapes /\ unsaved \in SUBSET Tag /\ tx \in Seq(ToL2) /\ up \in Seq(FromL2)
  BY BlockTypes, QueueTypes DEF L1DInv
<1>2. L2Typed
  BY <1>1, L2Types
<1>3. m \in Requested
  BY <1>2 DEF L2Answer, L2Typed
<1>4. PICK st \in {"S", "E", "M"} :
        /\ l2' = [l2 EXCEPT ![t] = st]
        /\ up' = Append(up, Reply(m,
                   IF m.req = "upgrade" /\ l2[t] = "S" THEN "upgrade_ack" ELSE PutOf(st)))
  BY L1DSystemAssumption DEF L2Answer
<1>5. /\ l2miss' = [l2miss EXCEPT ![t] = NoRequest] /\ l2miss[t] # NoRequest
      /\ UNCHANGED RestOfCache /\ UNCHANGED <<tx, unsaved, l2wb, l2fwd>>
  BY DEF L2Answer, cacheVars, RestOfCache
<1>6. PICK type \in ToBottom \cup {"upgrade_ack"} : up' = Append(up, Reply(m, type))
  BY <1>4, PutTypes
<1> HIDE DEF m
<1>9. /\ up' \in Seq(FromL2)
      /\ \A P : Kind(P) => In(up', P) = In(up, P) + Bit(m \in P) /\ In(up', P) \in Nat
  BY <1>1, <1>3, <1>6, RepliedAlone
<1>10. ASSUME NEW P, Kind(P)
       PROVE  /\ In(tx, P) + In(up, P) + Missing(P) = In(tx', P) + In(up', P) + Missing(P)'
              /\ Missing(P)' \in Nat
  <2>1. Missing(P) = Missing(P)' + Bit(m \in P) /\ Missing(P)' \in Nat
    BY <1>1, <1>5, MissingRemove DEF m
  <2>2. In(up, P) \in Nat /\ Bit(m \in P) \in Nat /\ In(tx, P) \in Nat
    BY <1>1, TotalNats DEF Bit
  <2> DEFINE i == In(tx, P)
             j == In(up, P)
             k == Missing(P)'
             z == Bit(m \in P)
  <2>3. /\ In(tx', P) = i /\ In(up', P) = j + z /\ i \in Nat /\ j \in Nat /\ k \in Nat
        /\ z \in Nat /\ Missing(P) = k + z
    BY <1>5, <1>9, <1>10, <2>1, <2>2
  <2> HIDE DEF i, j, k, z
  <2>4. i + j + (k + z) = i + (j + z) + k
    BY <2>3
  <2> QED
    BY <2>1, <2>3, <2>4 DEF i, j, k
<1>11. L2Typed'
  BY <1>2, <1>4, <1>5 DEF L2Typed, BlockState
<1>12. tx' \in Seq(ToL2) /\ unsaved' \in SUBSET Tag
  BY <1>1, <1>5
<1> QED
  BY <1>5, <1>9, <1>10, <1>11, <1>12, L2Inv

-----------------------------------------------------------------------------
(* The invariant holds *)

\* The caches are empty at first.
LEMMA InitL1D == Init => L1DInv
<1> SUFFICES ASSUME Init PROVE L1DInv
  OBVIOUS
<1>1. /\ blk = [w \in Way |-> [tag |-> NoTag, st |-> "I", fill |-> NoTag]]
      /\ lru = [i \in Way |-> i] /\ ort = [t \in Tag |-> "free"]
      /\ coal = <<>> /\ wb = <<>> /\ tx = <<>> /\ up = <<>>
      /\ inq = [q \in Queue |-> <<>>] /\ credit = 0 /\ flight = {} /\ unsaved = {}
      /\ l2 = [t \in Tag |-> "I"] /\ l2wb = [t \in Tag |-> FALSE]
      /\ l2fwd = [t \in Tag |-> "none"] /\ l2miss = [t \in Tag |-> NoRequest]
  BY DEF Init, CacheInit
<1>2. /\ DOMAIN inq = Queue /\ inq["top"] = <<>> /\ inq["bot"] = <<>> /\ inq["coh"] = <<>>
      /\ inq["retry"] = <<>>
  BY <1>1 DEF Queue
<1>3. \A S : <<>> \in Seq(S)
  BY EmptySeq
<1>4. Shapes
  <2>1. blk \in [Way -> [tag : Tag \cup {NoTag}, st : BlockState, fill : Tag \cup {NoTag}]]
    BY <1>1 DEF BlockState
  <2>2. /\ lru \in [Way -> Way] /\ ort \in [Tag -> {"free", "open", "stale"}]
        /\ l2 \in [Tag -> BlockState] /\ l2wb \in [Tag -> BOOLEAN]
        /\ l2fwd \in [Tag -> {"none", "downgrade", "getx_fwd_inval"}]
        /\ l2miss \in [Tag -> Requested \cup {NoRequest}]
        /\ credit \in Nat /\ flight \in SUBSET Access /\ unsaved \in SUBSET Tag
    BY <1>1 DEF BlockState
  <2>3. \A t \in Tag : l2miss[t] # NoRequest => l2miss[t].tag = t
    BY <1>1
  <2>4. TypeOK
    <3>1. /\ <<>> \in Seq({p \in CpuPacket : p.coal}) /\ <<>> \in Seq(CpuPacket)
          /\ <<>> \in Seq(FromL2) /\ <<>> \in Seq(ToL2) /\ <<>> \in Seq(Tag)
      BY <1>3
    <3> QED
      BY <1>1, <1>2, <2>1, <2>2, <3>1 DEF TypeOK
  <2>5. <<>> \in Seq(Fresh) /\ <<>> \in Seq(RetriedPacket) /\ <<>> \in Seq(Bottom) /\ <<>> \in Seq(Coherence)
    BY <1>3
  <2> QED
    BY <1>2, <2>3, <2>4, <2>5 DEF Shapes
<1>5. LruFull
  BY <1>1 DEF LruFull
<1>6. Placed(blk, wb)
  <2>1. Apart(blk)
    BY <1>1 DEF Apart
  <2>2. \A t : Copies(wb, t) = 0
    BY <1>1, InEmpty DEF Copies
  <2> QED
    BY <2>1, <2>2 DEF Saved, Placed
<1>7. ASSUME NEW P PROVE Total(P) = 0 /\ In(coal, P) = 0
  <2>1. {t \in Tag : l2miss[t] # NoRequest /\ l2miss[t] \in P} = {}
    BY <1>1
  <2>2. Missing(P) = 0
    BY <2>1, FS_EmptySet DEF Missing
  <2>3. In(<<>>, P) = 0
    BY InEmpty
  <2> QED
    BY <1>1, <1>2, <2>2, <2>3 DEF Total, Queued
<1>8. Rows = {}
  BY <1>1 DEF Rows
<1>9. RowsMatch
  <2>1. \A t \in Tag : Bit(t \in Rows) = 0
    BY <1>8 DEF Bit
  <2>2. \A t \in Tag : Total(Asks(t)) = 0 /\ In(coal, Confs(t)) = 0
    BY <1>7
  <2> QED
    BY <2>1, <2>2 DEF RowsMatch
<1>10. WaysMatch
  <2>1. \A t \in Tag, w \in Way : blk[w].fill # t
    BY <1>1, L1DCacheAssumption
  <2>2. \A t \in Tag, w \in Way : Bit(blk[w].fill = t) = 0
    BY <2>1 DEF Bit
  <2>3. \A t \in Tag, w \in Way : Total(AsksFor(t, w)) = 0
    BY <1>7
  <2> QED
    BY <2>2, <2>3 DEF WaysMatch
<1>11. Accounted
  <2>1. \A a \in Access : Bit(a \in flight) = 0
    BY <1>1 DEF Bit
  <2>2. \A a \in Access : Total(Ids(a)) = 0
    BY <1>7
  <2> QED
    BY <2>1, <2>2 DEF Accounted
<1>12. RetryFree /\ CreditMatch
  <2>1. Len(<<>>) = 0 /\ DOMAIN <<>> = {}
    OBVIOUS
  <2>2. RetryFree
    BY <1>2, <2>1 DEF RetryFree
  <2>3. Length = 0 + 0 + 0 + 0
    BY <1>2, <2>1 DEF Length
  <2> QED
    BY <1>1, <2>2, <2>3 DEF CreditMatch
<1> QED
  BY <1>4, <1>5, <1>6, <1>9, <1>10, <1>11, <1>12 DEF L1DInv

\* One turn of the controller of the cache.
LEMMA CacheInv ==
  ASSUME L1DInv, Cache
  PROVE  L1DInv'
<1>1. Step /\ UNCHANGED <<up, l2Vars>>
  BY DEF Cache
<1>2. CASE WriteBack
  BY <1>1, <1>2, WriteBackInv
<1>3. CASE \E q \in Queue : \E m :
             \/ Load(q, m) \/ Store(q, m) \/ Fill(q, m) \/ Nack(q, m) \/ UpgradeAck(q, m)
             \/ UpgradeInval(q, m) \/ Downgrade(q, m) \/ GetxFwdInval(q, m) \/ FlushBlock(q, m)
  <2>0. PICK q \in Queue : \E m :
          \/ Load(q, m) \/ Store(q, m) \/ Fill(q, m) \/ Nack(q, m) \/ UpgradeAck(q, m)
          \/ UpgradeInval(q, m) \/ Downgrade(q, m) \/ GetxFwdInval(q, m) \/ FlushBlock(q, m)
    BY <1>3
  <2>1. PICK m :
          \/ Load(q, m) \/ Store(q, m) \/ Fill(q, m) \/ Nack(q, m) \/ UpgradeAck(q, m)
          \/ UpgradeInval(q, m) \/ Downgrade(q, m) \/ GetxFwdInval(q, m) \/ FlushBlock(q, m)
    BY <2>0
  <2>2. CASE Load(q, m)
    BY <1>1, <2>2, LoadInv
  <2>3. CASE Store(q, m)
    BY <1>1, <2>3, StoreInv
  <2>4. CASE Fill(q, m)
    BY <1>1, <2>4, FillInv
  <2>5. CASE Nack(q, m)
    BY <1>1, <2>5, NackInv
  <2>6. CASE UpgradeAck(q, m)
    BY <1>1, <2>6, UpgradeAckInv
  <2>7. CASE UpgradeInval(q, m) \/ Downgrade(q, m) \/ GetxFwdInval(q, m) \/ FlushBlock(q, m)
    BY <1>1, <2>7, DemandStepsInv
  <2> QED
    BY <2>1, <2>2, <2>3, <2>4, <2>5, <2>6, <2>7
<1> QED
  BY <1>1, <1>2, <1>3 DEF Step

\* Nothing happens.
LEMMA StutterInv ==
  ASSUME L1DInv, UNCHANGED vars
  PROVE  L1DInv'
<1>1. /\ UNCHANGED <<blk, lru, ort, coal, inq, wb, tx, credit, flight, unsaved>>
      /\ UNCHANGED <<up, l2, l2wb, l2fwd, l2miss>>
  BY DEF vars, cacheVars, l2Vars
<1>2. Shapes' /\ LruFull' /\ Placed(blk, wb)'
  <2>1. Shapes /\ LruFull /\ Placed(blk, wb)
    BY DEF L1DInv
  <2>2. Shapes'
    BY <1>1, <2>1 DEF Shapes, TypeOK
  <2>3. LruFull'
    BY <1>1, <2>1 DEF LruFull
  <2> QED
    BY <1>1, <2>1, <2>2, <2>3
<1>3. RowsMatch' /\ WaysMatch' /\ Accounted'
  <2>1. \A P : Total(P)' = Total(P)
    BY <1>1 DEF Total, Queued, Missing
  <2>2. Rows' = Rows
    BY <1>1 DEF Rows
  <2>3. RowsMatch /\ WaysMatch /\ Accounted
    BY DEF L1DInv
  <2>4. RowsMatch'
    BY <1>1, <2>1, <2>2, <2>3 DEF RowsMatch
  <2>5. WaysMatch' /\ Accounted'
    BY <1>1, <2>1, <2>3 DEF WaysMatch, Accounted
  <2> QED
    BY <2>4, <2>5
<1>4. RetryFree' /\ CreditMatch'
  <2>1. RetryFree /\ CreditMatch
    BY DEF L1DInv
  <2> QED
    BY <1>1, <2>1 DEF RetryFree, CreditMatch, Length, Rows
<1> QED
  BY <1>1, <1>2, <1>3, <1>4 DEF L1DInv

\* Every step of the core, the L1 and the L2 keeps the invariant.
LEMMA NextL1D == L1DInv /\ [Next]_vars => L1DInv'
<1> SUFFICES ASSUME L1DInv, [Next]_vars PROVE L1DInv'
  OBVIOUS
<1>1. CASE Core
  BY <1>1, IssueInv DEF Core
<1>2. CASE Cache
  BY <1>2, CacheInv
<1>3. CASE UpIO
  BY <1>3, UpIOInv
<1>4. CASE L2Take
  <2>1. PICK m : L2Get(m) \/ L2Getx(m) \/ L2WriteBack(m) \/ L2ForwardAck(m) \/ L2FlushAck(m)
    BY <1>4 DEF L2Take
  <2> QED
    BY <2>1, L2GetInv, L2GetxInv, L2AckInv
<1>5. CASE \E t \in Tag : L2Answer(t)
  BY <1>5, L2AnswerInv
<1>6. CASE L2Demand
  BY <1>6, L2DemandInv
<1>7. CASE UNCHANGED vars
  BY <1>7, StutterInv
<1> QED
  BY <1>1, <1>2, <1>3, <1>4, <1>5, <1>6, <1>7 DEF Next

\* However the core, the L1 and the L2 interleave, the inductive invariant holds.
THEOREM L1DInvAlways == Spec => []L1DInv
BY InitL1D, NextL1D, PTL DEF Spec

-----------------------------------------------------------------------------
(* What the invariant says of the properties *)

Messages == Packets \cup FromL2 \cup ToL2

\* The field "id" is what makes a packet of a message, the field "req" a request.
LEMMA FieldFacts ==
  ASSUME NEW x \in Messages
  PROVE  /\ \A a : ("id" \in DOMAIN x /\ x.id = a) <=> x \in Ids(a)
         /\ \A t : (x.tag = t /\ "req" \in DOMAIN x) <=> x \in Asks(t)
<1>1. CASE x \in CpuPacket
  <2>1. x \in Packets /\ x \notin Returned \cup Requested
    BY <1>1 DEF Packets, CpuPacket, Returned, Requested
  <2>2. "id" \in DOMAIN x /\ "req" \notin DOMAIN x
    BY <1>1 DEF CpuPacket
  <2> QED
    BY <2>1, <2>2 DEF Ids, Asks
<1>2. CASE x \in Returned \cup Requested
  <2>1. x \in Packets
    BY <1>2 DEF Packets
  <2>2. "id" \in DOMAIN x /\ "req" \in DOMAIN x
    BY <1>2 DEF Returned, Requested
  <2> QED
    BY <1>2, <2>1, <2>2 DEF Ids, Asks
<1>3. CASE x \notin Packets
  <2>1. \/ x \in [type : {"upgrade_inval", "downgrade", "getx_fwd_inval"}, tag : Tag]
        \/ x \in [type : {"flush_block"}, tag : Tag, st : {"S", "E", "M"}]
        \/ x \in [type : {"write_back"}, tag : Tag]
        \/ x \in [type : {"downgrade_ack", "getx_fwd_inval_ack", "flush_block_ack"}, tag : Tag,
                  dirty : BOOLEAN]
    BY <1>3 DEF Messages, FromL2, ToL2, Packets
  <2>2. "id" \notin DOMAIN x /\ "req" \notin DOMAIN x
    BY <2>1
  <2> QED
    BY <1>3, <2>2 DEF Ids, Asks, Packets
<1> QED
  BY <1>1, <1>2, <1>3 DEF Packets

LEMMA HoldingCounts ==
  ASSUME NEW S, S \subseteq Messages, NEW s, s \in Seq(S)
  PROVE  /\ \A a : Cardinality(Holding(s, a)) = In(s, Ids(a))
         /\ \A t : Cardinality(Asked(s, t)) = In(s, Asks(t))
<1>1. \A i \in DOMAIN s : s[i] \in Messages
  OBVIOUS
<1>2. ASSUME NEW a PROVE Holding(s, a) = {i \in DOMAIN s : s[i] \in Ids(a)}
  BY <1>1, FieldFacts DEF Holding
<1>3. ASSUME NEW t PROVE Asked(s, t) = {i \in DOMAIN s : s[i] \in Asks(t)}
  BY <1>1, FieldFacts DEF Asked
<1> QED
  BY <1>2, <1>3 DEF In

LEMMA QueueMessages ==
  /\ Fresh \subseteq Messages /\ RetriedPacket \subseteq Messages /\ Bottom \subseteq Messages
  /\ Coherence \subseteq Messages /\ Parked \subseteq Messages /\ FromL2 \subseteq Messages
  /\ ToL2 \subseteq Messages
BY DEF Messages, Packets, Fresh, RetriedPacket, Bottom, Coherence, Parked

\* The places of an access, counted as a total.
LEMMA PlacesTotal ==
  ASSUME Shapes, NEW a
  PROVE  Places(a) = Total(Ids(a))
<1> DEFINE P == Ids(a)
<1>1. /\ Cardinality(Holding(inq["top"], a)) = In(inq["top"], P)
      /\ Cardinality(Holding(inq["bot"], a)) = In(inq["bot"], P)
      /\ Cardinality(Holding(inq["coh"], a)) = In(inq["coh"], P)
      /\ Cardinality(Holding(inq["retry"], a)) = In(inq["retry"], P)
      /\ Cardinality(Holding(coal, a)) = In(coal, P)
      /\ Cardinality(Holding(tx, a)) = In(tx, P)
      /\ Cardinality(Holding(up, a)) = In(up, P)
  BY QueueTypes, QueueMessages, HoldingCounts
<1>2. {t \in Tag : l2miss[t] # NoRequest /\ l2miss[t].id = a}
        = {t \in Tag : l2miss[t] # NoRequest /\ l2miss[t] \in P}
  <2>1. \A t \in Tag : l2miss[t] # NoRequest => l2miss[t] \in Packets
    BY QueueTypes DEF Packets
  <2> QED
    BY <2>1 DEF Ids
<1>3. Cardinality({t \in Tag : l2miss[t] # NoRequest /\ l2miss[t].id = a}) = Missing(P)
  BY <1>2 DEF Missing
<1> HIDE DEF P
<1>4. /\ In(inq["top"], P) \in Nat /\ In(inq["bot"], P) \in Nat /\ In(inq["coh"], P) \in Nat
      /\ In(inq["retry"], P) \in Nat /\ In(coal, P) \in Nat /\ In(tx, P) \in Nat
      /\ In(up, P) \in Nat /\ Missing(P) \in Nat
  BY TotalNats
<1>5. Places(a) = Total(P)
  BY <1>1, <1>3, <1>4 DEF Places, Total, Queued
<1> QED
  BY <1>5 DEF P

LEMMA InvMessages == L1DInv => MessagesAccounted
<1> SUFFICES ASSUME L1DInv PROVE MessagesAccounted
  OBVIOUS
<1>1. Shapes /\ Accounted /\ CreditMatch
  BY DEF L1DInv
<1>2. ASSUME NEW a \in Access PROVE Places(a) = IF a \in flight THEN 1 ELSE 0
  <2>1. Places(a) = Total(Ids(a)) /\ Bit(a \in flight) = Total(Ids(a))
    BY <1>1, PlacesTotal DEF Accounted
  <2> QED
    BY <2>1 DEF Bit
<1> QED
  BY <1>1, <1>2 DEF MessagesAccounted, CreditMatch, Length

LEMMA InvBlocks == L1DInv => NoBlockTwice
<1> SUFFICES ASSUME L1DInv PROVE NoBlockTwice
  OBVIOUS
<1>1. Shapes /\ Apart(blk) /\ Saved(blk, wb) /\ wb \in Seq(Tag)
  BY BlockTypes DEF L1DInv, Placed
<1>2. \A v, w \in Way : blk[v].st # "I" /\ blk[w].st # "I" /\ blk[v].tag = blk[w].tag => v = w
  BY <1>1 DEF Apart
<1>3. ASSUME NEW w \in Way, blk[w].st # "I" PROVE ~InWB(blk[w].tag)
  <2>1. Copies(wb, blk[w].tag) = 0
    BY <1>1, <1>3 DEF Saved
  <2>2. InWB(blk[w].tag) <=> Copies(wb, blk[w].tag) > 0
    BY <1>1, InWBFacts
  <2> QED
    BY <2>1, <2>2
<1>4. ASSUME NEW i \in DOMAIN wb, NEW j \in DOMAIN wb, wb[i] = wb[j] PROVE i = j
  <2>1. Copies(wb, wb[i]) <= 1
    BY <1>1 DEF Saved
  <2> QED
    BY <1>1, <1>4, <2>1, InOnce
<1> QED
  BY <1>2, <1>3, <1>4 DEF NoBlockTwice

\* A part of a total is not zero.
LEMMA PartOfTotal ==
  ASSUME Shapes, NEW R,
         \/ In(inq["top"], R) > 0 \/ In(inq["bot"], R) > 0 \/ In(inq["coh"], R) > 0
         \/ In(inq["retry"], R) > 0 \/ In(coal, R) > 0 \/ In(tx, R) > 0 \/ In(up, R) > 0
         \/ Missing(R) > 0
  PROVE  Total(R) > 0
<1> DEFINE a == In(inq["top"], R)
           b == In(inq["bot"], R)
           c == In(inq["coh"], R)
           d == In(inq["retry"], R)
           e == In(coal, R)
           f == In(tx, R)
           g == In(up, R)
           h == Missing(R)
           n == Total(R)
<1>1. /\ a \in Nat /\ b \in Nat /\ c \in Nat /\ d \in Nat /\ e \in Nat /\ f \in Nat /\ g \in Nat
      /\ h \in Nat
  BY TotalNats
<1>2. n = a + b + c + d + e + f + g + h
  BY DEF Total, Queued
<1>3. a > 0 \/ b > 0 \/ c > 0 \/ d > 0 \/ e > 0 \/ f > 0 \/ g > 0 \/ h > 0
  OBVIOUS
<1> HIDE DEF a, b, c, d, e, f, g, h, n
<1>4. n > 0
  BY <1>1, <1>2, <1>3
<1> QED
  BY <1>4 DEF n

LEMMA TotalParts ==
  ASSUME Shapes, NEW R, Total(R) > 0
  PROVE  \/ In(inq["top"], R) > 0 \/ In(inq["bot"], R) > 0 \/ In(inq["coh"], R) > 0
         \/ In(inq["retry"], R) > 0 \/ In(coal, R) > 0 \/ In(tx, R) > 0 \/ In(up, R) > 0
         \/ Missing(R) > 0
<1> DEFINE a == In(inq["top"], R)
           b == In(inq["bot"], R)
           c == In(inq["coh"], R)
           d == In(inq["retry"], R)
           e == In(coal, R)
           f == In(tx, R)
           g == In(up, R)
           h == Missing(R)
           n == Total(R)
<1>1. /\ a \in Nat /\ b \in Nat /\ c \in Nat /\ d \in Nat /\ e \in Nat /\ f \in Nat /\ g \in Nat
      /\ h \in Nat
  BY TotalNats
<1>2. n = a + b + c + d + e + f + g + h /\ n > 0
  BY DEF Total, Queued
<1> HIDE DEF a, b, c, d, e, f, g, h, n
<1>3. a > 0 \/ b > 0 \/ c > 0 \/ d > 0 \/ e > 0 \/ f > 0 \/ g > 0 \/ h > 0
  BY <1>1, <1>2
<1> QED
  BY <1>3 DEF a, b, c, d, e, f, g, h

\* What is counted is somewhere.
LEMMA SomePacket ==
  ASSUME Shapes, NEW P, Total(P) > 0
  PROVE  \E p \in P : \A R : p \in R => Total(R) > 0
<1>1. ASSUME NEW S, NEW s \in Seq(S), In(s, P) > 0,
             \A R : In(s, R) > 0 => Total(R) > 0
      PROVE  \E p \in P : \A R : p \in R => Total(R) > 0
  <2>1. PICK i \in DOMAIN s : s[i] \in P
    BY <1>1, InSome
  <2>2. ASSUME NEW R, s[i] \in R PROVE Total(R) > 0
    BY <1>1, <2>2, InSome
  <2> QED
    BY <2>1, <2>2
<1>2. CASE Missing(P) > 0
  <2> DEFINE D == {t \in Tag : l2miss[t] # NoRequest /\ l2miss[t] \in P}
  <2>1. D # {}
    BY <1>2, FS_EmptySet DEF Missing
  <2>2. PICK t \in Tag : l2miss[t] # NoRequest /\ l2miss[t] \in P
    BY <2>1
  <2>3. ASSUME NEW R, l2miss[t] \in R PROVE Total(R) > 0
    <3> DEFINE E == {u \in Tag : l2miss[u] # NoRequest /\ l2miss[u] \in R}
    <3>1. E # {} /\ IsFiniteSet(E) /\ Missing(R) = Cardinality(E) /\ Missing(R) \in Nat
      BY <2>2, <2>3, MissingFacts DEF Missing
    <3> HIDE DEF E
    <3>2. Missing(R) # 0
      BY <3>1, FS_EmptySet
    <3>3. Missing(R) > 0
      BY <3>1, <3>2
    <3> QED
      BY <3>3, PartOfTotal
  <2> QED
    BY <2>2, <2>3
<1>3. CASE \/ In(inq["top"], P) > 0 \/ In(inq["bot"], P) > 0 \/ In(inq["coh"], P) > 0
           \/ In(inq["retry"], P) > 0
  BY <1>1, <1>3, QueueTypes, PartOfTotal
<1>4. CASE In(coal, P) > 0 \/ In(tx, P) > 0 \/ In(up, P) > 0
  BY <1>1, <1>4, QueueTypes, PartOfTotal
<1> QED
  BY <1>2, <1>3, <1>4, TotalParts

\* The requests for a block, counted as a total.
LEMMA RequestsTotal ==
  ASSUME Shapes, NEW t \in Tag
  PROVE  Requests(t) = Total(Asks(t))
<1> DEFINE P == Asks(t)
<1>1. /\ Cardinality(Asked(inq["bot"], t)) = In(inq["bot"], P)
      /\ Cardinality(Asked(inq["coh"], t)) = In(inq["coh"], P)
      /\ Cardinality(Asked(tx, t)) = In(tx, P)
      /\ Cardinality(Asked(up, t)) = In(up, P)
  BY QueueTypes, QueueMessages, HoldingCounts
<1>2. Missing(P) = IF l2miss[t] = NoRequest THEN 0 ELSE 1
  <2> DEFINE D == {u \in Tag : l2miss[u] # NoRequest /\ l2miss[u] \in P}
  <2>1. \A u \in Tag : l2miss[u] # NoRequest => l2miss[u] \in Requested /\ l2miss[u].tag = u
    BY QueueTypes DEF Shapes
  <2>2. D = IF l2miss[t] = NoRequest THEN {} ELSE {t}
    BY <2>1 DEF Asks
  <2>3. Missing(P) = Cardinality(D)
    BY DEF Missing
  <2>4. Cardinality({}) = 0 /\ Cardinality({t}) = 1
    BY FS_EmptySet, FS_Singleton
  <2> HIDE DEF D, P
  <2> QED
    BY <2>2, <2>3, <2>4
<1>3. P \subseteq Returned \cup Requested
  BY DEF Asks
<1> HIDE DEF P
<1>4. In(inq["top"], P) = 0 /\ In(inq["retry"], P) = 0 /\ In(coal, P) = 0
  BY <1>3, NoCoreAsks
<1>5. /\ In(inq["bot"], P) \in Nat /\ In(inq["coh"], P) \in Nat
      /\ In(tx, P) \in Nat /\ In(up, P) \in Nat /\ Missing(P) \in Nat
  BY TotalNats
<1>6. Total(P) = 0 + In(inq["bot"], P) + In(inq["coh"], P) + 0 + 0 + In(tx, P) + In(up, P) + Missing(P)
  BY <1>4 DEF Total, Queued
<1>7. Requests(t) = In(inq["bot"], P) + In(inq["coh"], P) + In(tx, P) + In(up, P) + Missing(P)
  BY <1>1, <1>2 DEF Requests
<1> DEFINE b == In(inq["bot"], P)
           c == In(inq["coh"], P)
           f == In(tx, P)
           g == In(up, P)
           h == Missing(P)
           n == Total(P)
           r == Requests(t)
<1>8. /\ n = 0 + b + c + 0 + 0 + f + g + h /\ r = b + c + f + g + h
      /\ b \in Nat /\ c \in Nat /\ f \in Nat /\ g \in Nat /\ h \in Nat
  BY <1>5, <1>6, <1>7
<1> HIDE DEF b, c, f, g, h, n, r
<1>9. r = n
  BY <1>8
<1> QED
  BY <1>9 DEF r, n, P

\* A request under way has one way, and a way waits only for such a request.
LEMMA WaitingWays ==
  ASSUME L1DInv, NEW t \in Tag
  PROVE  Cardinality({w \in Way : blk[w].fill = t}) = Total(Asks(t))
<1> DEFINE D == {w \in Way : blk[w].fill = t}
<1>1. Shapes /\ RowsMatch /\ WaysMatch /\ Apart(blk)
  BY DEF L1DInv, Placed
<1>2. Total(Asks(t)) \in Nat /\ (Total(Asks(t)) > 0 => Total(Asks(t)) = 1)
  BY <1>1, ConfsOnce
<1>3. CASE Total(Asks(t)) = 0
  <2>1. ASSUME NEW w \in Way PROVE blk[w].fill # t
    <3>1. AsksFor(t, w) \subseteq Asks(t)
      BY DEF AsksFor, Asks
    <3>2. Total(AsksFor(t, w)) <= Total(Asks(t)) /\ Total(AsksFor(t, w)) \in Nat
      BY <1>1, <3>1, TotalSubset, TotalNats
    <3>3. Total(AsksFor(t, w)) = 0
      BY <1>3, <3>2
    <3>4. Bit(blk[w].fill = t) = Total(AsksFor(t, w))
      BY <1>1 DEF WaysMatch
    <3> QED
      BY <3>3, <3>4 DEF Bit
  <2>2. D = {}
    BY <2>1
  <2> QED
    BY <1>3, <2>2, FS_EmptySet
<1>4. CASE Total(Asks(t)) > 0
  <2>1. PICK p \in Asks(t) : \A R : p \in R => Total(R) > 0
    BY <1>1, <1>4, SomePacket
  <2>2. p \in Returned \cup Requested /\ p.tag = t
    BY DEF Asks
  <2>3. p.way \in Way /\ blk[p.way].fill = t
    BY <1>1, <2>1, <2>2, ReplyBacked
  <2>4. \A v \in Way : blk[v].fill = t => v = p.way
    BY <1>1, <2>3, L1DCacheAssumption DEF Apart
  <2>5. D = {p.way}
    BY <2>3, <2>4
  <2>6. Cardinality(D) = 1
    BY <2>5, FS_Singleton
  <2> QED
    BY <1>2, <1>4, <2>6
<1> QED
  BY <1>2, <1>3, <1>4

LEMMA InvRequests == L1DInv => RequestsAccounted
<1> SUFFICES ASSUME L1DInv PROVE RequestsAccounted
  OBVIOUS
<1>1. Shapes /\ RowsMatch /\ RetryFree
  BY DEF L1DInv
<1>2. ASSUME NEW t \in Tag
      PROVE  /\ (IF t \in Rows THEN 1 ELSE 0)
                  = Requests(t) + Cardinality({i \in DOMAIN coal : coal[i].tag = t /\ coal[i].conf})
             /\ Cardinality({w \in Way : blk[w].fill = t}) = Requests(t)
  <2>1. {i \in DOMAIN coal : coal[i].tag = t /\ coal[i].conf}
          = {i \in DOMAIN coal : coal[i] \in Confs(t)}
    <3>1. \A i \in DOMAIN coal : coal[i] \in CpuPacket
      BY <1>1, QueueTypes DEF Parked
    <3> QED
      BY <3>1 DEF Confs
  <2>2. Cardinality({i \in DOMAIN coal : coal[i].tag = t /\ coal[i].conf}) = In(coal, Confs(t))
    BY <2>1 DEF In
  <2>3. Requests(t) = Total(Asks(t))
    BY <1>1, RequestsTotal
  <2>4. Bit(t \in Rows) = Total(Asks(t)) + In(coal, Confs(t))
    BY <1>1 DEF RowsMatch
  <2>5. Cardinality({w \in Way : blk[w].fill = t}) = Total(Asks(t))
    BY WaitingWays
  <2> QED
    BY <2>2, <2>3, <2>4, <2>5 DEF Bit
<1> QED
  BY <1>1, <1>2 DEF RequestsAccounted, RetryFree

\* No handler leaves the types of the state: every access set aside is marked
\* as coalesced, and no packet of the core reaches a queue of the L2.
THEOREM L1DTypes == Spec => []TypeOK
<1>1. L1DInv => TypeOK
  BY DEF L1DInv, Shapes
<1> QED
  BY <1>1, L1DInvAlways, PTL

\* cache_get_message() and the handlers: a load or store is in one queue, in the
\* coalescer or at the L3 until it returns, and nowhere afterwards, and the event
\* count has one advance for each message in the queues.
THEOREM EveryMessageAccounted == Spec => []MessagesAccounted
BY InvMessages, L1DInvAlways, PTL

\* cache_check_ORT(), cache_coalesed_retry() and the transient tags: every row of
\* the ORT has one request or one access that waits for a way, every request has
\* a way that waits for its block, and a retried access finds its row free.
THEOREM EveryRequestAccounted == Spec => []RequestsAccounted
BY InvRequests, L1DInvAlways, PTL

\* Through evictions, fills, upgrades and what is taken back from the write-back
\* buffer, a block is in one way or once in the buffer, never both.
THEOREM BlocksInOnePlace == Spec => []NoBlockTwice
BY InvBlocks, L1DInvAlways, PTL

\* What the handlers of fills and nacks and the write-back assert, the part of
\* HandlersDoNotAbort that does not depend on what the L2 demands.
AnswersPass ==
  /\ Waiting("bot") => May("bot", First("bot"))
  /\ Waiting("wb") => May("wb", First("wb"))

LEMMA InvAnswers == L1DInv => AnswersPass
<1> SUFFICES ASSUME L1DInv PROVE AnswersPass
  OBVIOUS
<1>1. Shapes /\ RowsMatch /\ WaysMatch /\ Saved(blk, wb) /\ wb \in Seq(Tag)
  BY BlockTypes DEF L1DInv, Placed
<1>2. ASSUME Waiting("bot") PROVE May("bot", First("bot"))
  <2> DEFINE m == Head(inq["bot"])
  <2>1. inq["bot"] # <<>> /\ inq["bot"] \in Seq(Bottom) /\ First("bot") = m
    BY <1>1, <1>2, QueueTypes DEF Waiting, First
  <2>2. m \in Bottom
    BY <2>1, RestOf
  <2>3. ASSUME NEW P, m \in P PROVE Total(P) > 0
    <3>1. 1 \in DOMAIN inq["bot"] /\ inq["bot"][1] = m
      BY <2>1
    <3>2. In(inq["bot"], P) > 0
      BY <2>1, <2>3, <3>1, InSome
    <3> QED
      BY <1>1, <3>2, PartOfTotal
  <2> HIDE DEF m
  <2>4. m \in Returned /\ m.type \in {"puts", "put_clnx", "putx", "get_nack", "getx_nack"}
    BY <2>2 DEF Bottom, ToBottom
  <2>5. m.tag \in Rows /\ blk[m.way].fill = m.tag /\ m.way \in Way /\ m.tag \in Tag
    BY <1>1, <2>3, <2>4, ReplyBacked
  <2>6. FillMay(m)
    BY <2>5, L1DCacheAssumption DEF FillMay
  <2> QED
    BY <2>1, <2>4, <2>5, <2>6 DEF May
<1>3. ASSUME Waiting("wb") PROVE May("wb", First("wb"))
  <2> DEFINE t == Head(wb)
  <2>1. wb # <<>> /\ First("wb") = t
    BY <1>3 DEF Waiting, First
  <2>2. 1 \in DOMAIN wb /\ wb[1] = t
    BY <1>1, <2>1
  <2>3. Copies(wb, t) > 0
    BY <1>1, <2>2, InSome DEF Copies
  <2> HIDE DEF t
  <2>4. ASSUME Present(t) PROVE FALSE
    <3>1. WayOf(t) \in Way /\ blk[WayOf(t)].st # "I" /\ blk[WayOf(t)].tag = t
      BY <2>4, WayOfFacts
    <3>2. Copies(wb, t) = 0
      BY <1>1, <3>1 DEF Saved
    <3> QED
      BY <2>3, <3>2
  <2> QED
    BY <2>1, <2>4 DEF May
<1> QED
  BY <1>2, <1>3 DEF AnswersPass

\* The assertions of cgm_mesi_l1_d_write_block(), cgm_mesi_load_nack(),
\* cgm_mesi_store_nack() and cgm_mesi_l1_d_write_back() never fail: a fill finds
\* its ORT row and its way, and a block written back is not in the cache.
THEOREM AnswersAccepted == Spec => []AnswersPass
BY InvAnswers, L1DInvAlways, PTL

-----------------------------------------------------------------------------
(* The accesses set aside *)

\* An access to block t waits in the retry queue.
Retries(t) == \E j \in DOMAIN inq["retry"] : inq["retry"][j].tag = t

\* Every row of the ORT is that of an access that waits for a way.
OnlyConflicts == \A t \in Rows : \E i \in Conflicting : coal[i].tag = t

\* An access merged with another finds its row taken, until the other is retried.
MergedHaveRow == \A i \in DOMAIN coal : coal[i].conf \/ coal[i].tag \in Rows \/ Retries(coal[i].tag)

\* Where nothing is left to pull, more accesses wait for a way than there are ways.
StuckByConflicts ==
  coal # <<>> /\ inq["retry"] = <<>> /\ OnlyConflicts => Cardinality(Conflicting) > Assoc

\* The inductive invariant of SomebodyPulls, besides L1DInv.
PullInv == MergedHaveRow /\ StuckByConflicts

\* What is left of a sequence was in it.
LEMMA RemoveAtElement ==
  ASSUME NEW S, NEW s \in Seq(S), NEW i \in DOMAIN s, NEW j \in DOMAIN RemoveAt(s, i)
  PROVE  \E k \in DOMAIN s : RemoveAt(s, i)[j] = s[k]
<1> DEFINE r == RemoveAt(s, i)
           P == {r[j]}
<1>1. r \in Seq(S) /\ DOMAIN r = 1..Len(r) /\ Len(r) \in Nat
  BY RemoveAtFacts, LenProperties
<1>2. In(r, P) > 0
  <2> DEFINE D == {k \in DOMAIN r : r[k] \in P}
  <2>1. IsFiniteSet(D)
    BY <1>1, InType
  <2>2. D # {}
    OBVIOUS
  <2>3. Cardinality(D) \in Nat /\ Cardinality(D) # 0
    BY <2>1, <2>2, FS_CardinalityType, FS_EmptySet
  <2> QED
    BY <2>3 DEF In
<1>3. In(s, P) = Bit(s[i] \in P) + In(r, P)
  BY InRemoveAt
<1>4. In(s, P) # 0
  <2>1. In(r, P) \in Nat /\ Bit(s[i] \in P) \in Nat
    BY <1>1, InType DEF Bit
  <2> QED
    BY <1>2, <1>3, <2>1
<1>5. ~ \A k \in DOMAIN s : s[k] \notin P
  BY <1>4, InType
<1> QED
  BY <1>5

\* A step that leaves the accesses set aside, the rows and the retried access alone.
LEMMA PullKept ==
  ASSUME PullInv, coal' = coal, Rows' = Rows, inq'["retry"] = inq["retry"]
  PROVE  PullInv'
<1>1. Conflicting' = Conflicting
  BY DEF Conflicting
<1>2. OnlyConflicts' <=> OnlyConflicts
  BY <1>1 DEF OnlyConflicts
<1> QED
  BY <1>1, <1>2 DEF PullInv, MergedHaveRow, StuckByConflicts, Retries

\* One access is retried: the accesses that are left have their row taken or are to
\* the block of that access.
LEMMA PullRetried ==
  ASSUME NEW x, inq'["retry"] = <<x>>,
         \A i \in DOMAIN coal' : coal'[i].conf \/ coal'[i].tag \in Rows' \/ coal'[i].tag = x.tag
  PROVE  PullInv'
<1>1. 1 \in DOMAIN <<x>> /\ <<x>>[1] = x /\ <<x>> # <<>>
  OBVIOUS
<1>2. Retries(x.tag)'
  BY <1>1 DEF Retries
<1>3. MergedHaveRow'
  BY <1>2 DEF MergedHaveRow
<1> QED
  BY <1>1, <1>3 DEF PullInv, StuckByConflicts

\* cache_coalesed_retry() at the end of a retried access.
LEMMA PullReturn ==
  ASSUME Shapes, RetryFree, PullInv, NEW q, NEW m \in CpuPacket, Taken(q, m), Return(q, m)
  PROVE  PullInv'
<1> DEFINE r == IF m.type \in Retried \/ m.coal THEN Pull(m.tag) ELSE NoPull
<1>1. ort' = r.ort /\ coal' = r.coal /\ Dequeue(q, r.again)
  BY DEF Return
<1>2. coal \in Seq(Parked) /\ inq["retry"] \in Seq(RetriedPacket)
  BY QueueTypes
<1>3. q = "top" \/ q = "retry"
  <2>1. m.type \in {"load", "store", "load_retry", "store_retry"}
    BY DEF CpuPacket, Retried
  <2> QED
    BY <2>1, MessageKinds
<1>4. CASE q = "top"
  <2>1. m \in Fresh
    BY <1>4, TakenPacket
  <2>2. r = NoPull
    BY <2>1 DEF Fresh, CpuPacket, Retried
  <2>3. ort' = ort /\ coal' = coal /\ Dequeue(q, <<>>)
    BY <1>1, <2>2 DEF NoPull
  <2>4. inq'["retry"] = <<>> /\ inq["retry"] = <<>>
    BY <1>4, <2>3, Dequeued, EmptySeq DEF Taken
  <2> QED
    BY <2>3, <2>4, PullKept DEF Rows
<1>5. CASE q = "retry"
  <2>1. m.type \in Retried /\ r = Pull(m.tag)
    BY <1>5, TakenPacket DEF RetriedPacket
  <2>2. \A i \in DOMAIN coal : coal[i].conf \/ coal[i].tag \in Rows \/ coal[i].tag = m.tag
    <3>1. Len(inq["retry"]) = 1 /\ m = Head(inq["retry"])
      BY <1>5, TakenPacket DEF Taken
    <3>2. \A j \in DOMAIN inq["retry"] : inq["retry"][j] = m
      BY <1>2, <3>1
    <3> QED
      BY <3>2 DEF PullInv, MergedHaveRow, Retries
  <2>3. ASSUME NEW i \in DOMAIN coal
        PROVE  RetryOf(coal[i], TRUE, coal[i].conf) \in RetriedPacket
               /\ RetryOf(coal[i], TRUE, coal[i].conf).tag = coal[i].tag
               /\ RetryOf(coal[i], FALSE, TRUE) \in RetriedPacket
               /\ RetryOf(coal[i], FALSE, TRUE).tag = coal[i].tag
               /\ coal[i].tag \in Tag
    <3>1. coal[i] \in CpuPacket /\ coal[i] \in Packets /\ coal[i].conf \in BOOLEAN /\ coal[i].tag \in Tag
      BY <1>2 DEF Parked, CpuPacket, Packets
    <3> QED
      BY <3>1, RetryOfPacket
  <2>4. CASE Merged(m.tag) # {}
    <3> DEFINE i == Min(Merged(m.tag))
               x == RetryOf(coal[i], TRUE, coal[i].conf)
    <3>1. i \in Merged(m.tag)
      <4>1. Merged(m.tag) \in SUBSET Nat
        BY <1>2 DEF Merged
      <4> QED
        BY <2>4, <4>1, MinFacts
    <3>2. i \in DOMAIN coal /\ coal[i].tag = m.tag
      BY <3>1 DEF Merged
    <3>3. r.ort = ort /\ r.coal = RemoveAt(coal, i) /\ r.again = <<x>>
      BY <2>1, <2>4 DEF Pull, PullMerged
    <3> HIDE DEF i, r
    <3>4. x \in RetriedPacket /\ x.tag = m.tag
      BY <2>3, <3>2
    <3> HIDE DEF x
    <3>5. ort' = ort /\ coal' = RemoveAt(coal, i) /\ inq'["retry"] = <<x>>
      <4>1. Dequeue(q, <<x>>) /\ <<x>> \in Seq(RetriedPacket)
        BY <1>1, <3>3, <3>4, OneRetry
      <4> QED
        BY <1>1, <3>3, <4>1, Dequeued
    <3>6. \A j \in DOMAIN coal' : \E k \in DOMAIN coal : coal'[j] = coal[k]
      BY <1>2, <3>2, <3>5, RemoveAtElement
    <3>7. \A j \in DOMAIN coal' : coal'[j].conf \/ coal'[j].tag \in Rows' \/ coal'[j].tag = x.tag
      BY <2>2, <3>4, <3>5, <3>6 DEF Rows
    <3> QED
      BY <3>5, <3>7, PullRetried
  <2>5. CASE Merged(m.tag) = {} /\ Conflicting # {}
    <3> DEFINE i == Min(Conflicting)
               x == RetryOf(coal[i], FALSE, TRUE)
    <3>1. i \in Conflicting
      <4>1. Conflicting \in SUBSET Nat
        BY <1>2 DEF Conflicting
      <4> QED
        BY <2>5, <4>1, MinFacts
    <3>2. i \in DOMAIN coal
      BY <3>1 DEF Conflicting
    <3>3. r.ort = [ort EXCEPT ![coal[i].tag] = "free"] /\ r.coal = RemoveAt(coal, i) /\ r.again = <<x>>
      BY <2>1, <2>5 DEF Pull, PullConflict
    <3> HIDE DEF i, r
    <3>4. x \in RetriedPacket /\ x.tag = coal[i].tag /\ coal[i].tag \in Tag
      BY <2>3, <3>2
    <3> HIDE DEF x
    <3>5. /\ ort' = [ort EXCEPT ![coal[i].tag] = "free"] /\ coal' = RemoveAt(coal, i)
          /\ inq'["retry"] = <<x>>
      <4>1. Dequeue(q, <<x>>) /\ <<x>> \in Seq(RetriedPacket)
        BY <1>1, <3>3, <3>4, OneRetry
      <4> QED
        BY <1>1, <3>3, <4>1, Dequeued
    <3>6. \A j \in DOMAIN coal' : \E k \in DOMAIN coal : coal'[j] = coal[k]
      BY <1>2, <3>2, <3>5, RemoveAtElement
    <3>7. \A t \in Rows : t \in Rows' \/ t = x.tag
      BY <3>4, <3>5, OrtType DEF Rows
    <3>8. \A k \in DOMAIN coal : coal[k].tag # m.tag
      BY <2>5 DEF Merged
    <3>9. \A j \in DOMAIN coal' : coal'[j].conf \/ coal'[j].tag \in Rows' \/ coal'[j].tag = x.tag
      BY <2>2, <3>6, <3>7, <3>8
    <3> QED
      BY <3>5, <3>9, PullRetried
  <2>6. CASE Merged(m.tag) = {} /\ Conflicting = {}
    <3>1. r = NoPull
      BY <2>1, <2>6 DEF Pull
    <3>2. ort' = ort /\ coal' = coal /\ Dequeue(q, <<>>)
      BY <1>1, <3>1 DEF NoPull
    <3>3. inq'["retry"] = <<>>
      BY <3>2, Dequeued, EmptySeq
    <3>4. \A k \in DOMAIN coal : coal[k].tag # m.tag /\ ~coal[k].conf
      BY <2>6 DEF Merged, Conflicting
    <3>5. \A k \in DOMAIN coal : coal[k].tag \in Rows
      BY <2>2, <3>4
    <3>6. MergedHaveRow'
      BY <3>2, <3>5 DEF MergedHaveRow, Rows
    <3>7. coal # <<>> => 1 \in DOMAIN coal
      BY <1>2
    <3>8. coal # <<>> => ~OnlyConflicts
      BY <2>6, <3>5, <3>7 DEF OnlyConflicts
    <3>9. StuckByConflicts'
      BY <3>2, <3>8 DEF StuckByConflicts, OnlyConflicts, Conflicting, Rows
    <3> QED
      BY <3>6, <3>9 DEF PullInv
  <2> QED
    BY <2>4, <2>5, <2>6
<1> QED
  BY <1>3, <1>4, <1>5

\* An access that waits for a way has a row of its own.
LEMMA ConflictsHaveRows ==
  ASSUME Shapes, RowsMatch, NEW i \in Conflicting
  PROVE  coal[i].tag \in Rows
<1> DEFINE t == coal[i].tag
           D == {k \in DOMAIN coal : coal[k] \in Confs(t)}
<1>1. coal \in Seq(Parked) /\ i \in DOMAIN coal /\ coal[i].conf
  BY QueueTypes DEF Conflicting
<1>2. coal[i] \in CpuPacket /\ t \in Tag
  BY <1>1 DEF Parked, CpuPacket
<1>3. IsFiniteSet(D) /\ i \in D
  BY <1>1, <1>2, InType DEF Confs
<1>4. Cardinality(D) \in Nat /\ Cardinality(D) # 0
  BY <1>3, FS_CardinalityType, FS_EmptySet
<1>5. In(coal, Confs(t)) > 0
  BY <1>4 DEF In
<1> QED
  BY <1>2, <1>5, ConfsOnce

\* When every row is that of an access that waits for a way, there are as many of
\* those as there are rows.
LEMMA RowsOfConflicts ==
  ASSUME NEW c \in Seq(Parked), NEW R \in SUBSET Tag,
         \A t \in R : \E i \in {j \in DOMAIN c : c[j].conf} : c[i].tag = t
  PROVE  /\ Cardinality(R) \in Nat /\ Cardinality({j \in DOMAIN c : c[j].conf}) \in Nat
         /\ Cardinality(R) <= Cardinality({j \in DOMAIN c : c[j].conf})
<1> DEFINE D == {j \in DOMAIN c : c[j].conf}
           I == {c[j].tag : j \in D}
<1>1. IsFiniteSet(DOMAIN c)
  BY LenProperties, FS_Interval
<1>2. IsFiniteSet(D)
  BY <1>1, FS_Subset
<1>3. IsFiniteSet(I) /\ Cardinality(I) <= Cardinality(D)
  <2> DEFINE f == [j \in D |-> c[j].tag]
  <2>1. f \in Surjection(D, I)
    BY DEF Surjection
  <2> QED
    BY <1>2, <2>1, FS_Surjection
<1>4. R \subseteq I
  OBVIOUS
<1>5. IsFiniteSet(R) /\ Cardinality(R) <= Cardinality(I)
  BY <1>3, <1>4, FS_Subset
<1>6. Cardinality(R) \in Nat /\ Cardinality(D) \in Nat /\ Cardinality(I) \in Nat
  BY <1>2, <1>3, <1>5, FS_CardinalityType
<1> HIDE DEF D, I
<1>7. Cardinality(R) <= Cardinality(D)
  BY <1>3, <1>5, <1>6
<1> QED
  BY <1>6, <1>7 DEF D

\* The ORT has finitely many rows.
LEMMA RowsNumber == Cardinality(Rows) \in Nat /\ IsFiniteSet(Rows) /\ Assoc \in Nat
<1>1. IsFiniteSet(Rows)
  BY L1DCacheAssumption, FS_Subset DEF Rows
<1> QED
  BY <1>1, FS_CardinalityType, L1DCacheAssumption

\* cache_check_ORT() sets an access aside.
LEMMA PullCoalesce ==
  ASSUME Shapes, RowsMatch, RetryFree, PullInv, NEW q, NEW n \in CpuPacket, Taken(q, n),
         NEW m \in CpuPacket, m.tag = n.tag, Coalesce(q, m)
  PROVE  PullInv'
<1>1. ~Goes(m) /\ ort' = RowAside(m) /\ coal' = Append(coal, Aside(m)) /\ Dequeue(q, <<>>)
  BY DEF Coalesce
<1>2. inq'["retry"] = <<>>
  BY <1>1, Dequeued, EmptySeq
<1>3. coal \in Seq(Parked) /\ m.tag \in Tag /\ inq["retry"] \in Seq(RetriedPacket)
  BY QueueTypes DEF CpuPacket
<1>4. Aside(m) \in Parked /\ Aside(m).tag = m.tag /\ (Aside(m).conf <=> Conflicts(m))
  BY DEF Aside, Parked, CpuPacket, Conflicts
<1>5. /\ coal' \in Seq(Parked) /\ Len(coal') = Len(coal) + 1 /\ coal' # <<>>
      /\ DOMAIN coal' = DOMAIN coal \cup {Len(coal) + 1} /\ Len(coal) + 1 \notin DOMAIN coal
      /\ \A i \in DOMAIN coal : coal'[i] = coal[i]
      /\ coal'[Len(coal) + 1] = Aside(m)
  BY <1>1, <1>3, <1>4
<1>6. /\ \A i \in DOMAIN coal : coal[i].conf \/ coal[i].tag \in Rows \/ coal[i].tag = m.tag
      /\ q = "retry" => m.tag \notin Rows
  <2>1. q = "top" \/ q = "retry"
    <3>1. n.type \in {"load", "store", "load_retry", "store_retry"}
      BY DEF CpuPacket, Retried
    <3> QED
      BY <3>1, MessageKinds
  <2>2. CASE q = "top"
    <3>1. inq["retry"] = <<>>
      BY <2>2 DEF Taken
    <3> QED
      BY <2>2, <3>1 DEF PullInv, MergedHaveRow, Retries
  <2>3. CASE q = "retry"
    <3>1. Len(inq["retry"]) = 1 /\ n = Head(inq["retry"]) /\ n.tag \notin Rows
      BY <2>3, TakenPacket DEF Taken
    <3>2. \A j \in DOMAIN inq["retry"] : inq["retry"][j] = n
      BY <1>3, <3>1
    <3> QED
      BY <3>1, <3>2 DEF PullInv, MergedHaveRow, Retries
  <2> QED
    BY <2>1, <2>2, <2>3
<1>7. CASE Conflicts(m)
  <2>1. Rows' = Rows \cup {m.tag} /\ m.tag \notin Rows /\ Cardinality(Rows) >= Assoc
    BY <1>1, <1>3, <1>7, OrtType DEF RowAside, Rows, Conflicts
  <2>2. MergedHaveRow'
    BY <1>4, <1>5, <1>6, <1>7, <2>1 DEF MergedHaveRow
  <2>3. ASSUME OnlyConflicts' PROVE Cardinality(Conflicting') > Assoc
    <3>1. Conflicting' = {j \in DOMAIN coal' : coal'[j].conf}
      BY DEF Conflicting
    <3>2. Rows' \in SUBSET Tag
      BY DEF Rows
    <3>3. /\ Cardinality(Rows') \in Nat /\ Cardinality(Conflicting') \in Nat
          /\ Cardinality(Rows') <= Cardinality(Conflicting')
      BY <1>5, <2>3, <3>1, <3>2, RowsOfConflicts DEF OnlyConflicts
    <3>4. IsFiniteSet(Rows)
      BY L1DCacheAssumption, FS_Subset DEF Rows
    <3>5. Cardinality(Rows') = Cardinality(Rows) + 1 /\ Cardinality(Rows) \in Nat
      BY <2>1, <3>4, FS_AddElement, FS_CardinalityType
    <3> QED
      BY <2>1, <3>3, <3>5, L1DCacheAssumption
  <2> QED
    BY <2>2, <2>3 DEF PullInv, StuckByConflicts
<1>8. CASE ~Conflicts(m)
  <2>1. m.tag \in Rows /\ Rows' = Rows
    <3>1. ort' = ort
      BY <1>1, <1>8 DEF RowAside
    <3>2. m.tag \in Rows
      BY <1>1, <1>3, <1>8, RowsNumber DEF Rows, Conflicts, Goes
    <3> QED
      BY <3>1, <3>2 DEF Rows
  <2>2. inq["retry"] = <<>>
    BY <1>6, <2>1 DEF Taken
  <2>3. Conflicting' = Conflicting /\ \A i \in Conflicting : coal'[i] = coal[i]
    BY <1>4, <1>5, <1>8 DEF Conflicting
  <2>4. OnlyConflicts' => OnlyConflicts
    BY <2>1, <2>3 DEF OnlyConflicts
  <2>5. MergedHaveRow'
    BY <1>4, <1>5, <1>6, <2>1 DEF MergedHaveRow
  <2>6. OnlyConflicts' => coal # <<>>
    BY <1>3, <2>1, <2>4 DEF OnlyConflicts, Conflicting
  <2> QED
    BY <2>2, <2>3, <2>4, <2>5, <2>6 DEF PullInv, StuckByConflicts
<1> QED
  BY <1>7, <1>8

\* A request goes to the L2.
LEMMA PullSend ==
  ASSUME Shapes, RowsMatch, RetryFree, PullInv, NEW q, NEW n \in CpuPacket, Taken(q, n),
         NEW m \in CpuPacket, m.tag = n.tag, m.conf = n.conf, NEW type, NEW w, Send(q, m, type, w)
  PROVE  PullInv'
<1>1. Goes(m) /\ ort' = [ort EXCEPT ![m.tag] = "open"] /\ coal' = coal /\ Dequeue(q, <<>>)
  BY DEF Send
<1>2. inq'["retry"] = <<>> /\ m.tag \in Tag /\ inq["retry"] \in Seq(RetriedPacket)
  BY <1>1, Dequeued, EmptySeq, QueueTypes DEF CpuPacket
<1>3. m.tag \notin Rows
  BY <1>1, GoesFree
<1>4. Rows' = Rows \cup {m.tag}
  BY <1>1, <1>2, OrtType DEF Rows
<1>5. \A i \in DOMAIN coal : coal[i].conf \/ coal[i].tag \in Rows \/ coal[i].tag = m.tag
  <2>1. CASE q = "retry"
    <3>1. Len(inq["retry"]) = 1 /\ n = Head(inq["retry"])
      BY <2>1, TakenPacket DEF Taken
    <3>2. \A j \in DOMAIN inq["retry"] : inq["retry"][j] = n
      BY <1>2, <3>1
    <3> QED
      BY <3>2 DEF PullInv, MergedHaveRow, Retries
  <2>2. CASE q # "retry"
    <3>1. inq["retry"] = <<>>
      BY <2>2 DEF Taken
    <3> QED
      BY <3>1 DEF PullInv, MergedHaveRow, Retries
  <2> QED
    BY <2>1, <2>2
<1>6. MergedHaveRow'
  BY <1>1, <1>4, <1>5 DEF MergedHaveRow
<1>7. ~OnlyConflicts'
  <2>1. Conflicting' = Conflicting
    BY <1>1 DEF Conflicting
  <2>2. \A i \in Conflicting : coal[i].tag # m.tag
    BY <1>3, ConflictsHaveRows
  <2> QED
    BY <1>1, <1>4, <2>1, <2>2 DEF OnlyConflicts
<1> QED
  BY <1>6, <1>7 DEF PullInv, StuckByConflicts

\* Loads and stores.
LEMMA PullAccess ==
  ASSUME L1DInv, PullInv, NEW q \in Queue, NEW m, Load(q, m) \/ Store(q, m)
  PROVE  PullInv'
<1>1. Shapes /\ RowsMatch /\ RetryFree
  BY DEF L1DInv
<1>2. Taken(q, m) /\ m.type \in {"load", "load_retry", "store", "store_retry"}
  BY <1>1, HandlesTakes DEF Load, Store
<1>3. m \in CpuPacket
  BY <1>1, <1>2, MessageKinds
<1> DEFINE fresh == [m EXCEPT !.coal = FALSE]
<1>4. fresh \in CpuPacket /\ fresh.tag = m.tag /\ fresh.conf = m.conf
  BY <1>3 DEF CpuPacket
<1> HIDE DEF fresh
<1>5. \/ \E type, w : Send(q, m, type, w) \/ Send(q, fresh, type, w)
      \/ Coalesce(q, m) \/ Coalesce(q, fresh) \/ Return(q, m)
  BY DEF Load, Store, Miss, Reclaim, fresh
<1>6. CASE \E type, w : Send(q, m, type, w) \/ Send(q, fresh, type, w)
  BY <1>1, <1>2, <1>3, <1>4, <1>6, PullSend
<1>7. CASE Coalesce(q, m) \/ Coalesce(q, fresh)
  BY <1>1, <1>2, <1>3, <1>4, <1>7, PullCoalesce
<1>8. CASE Return(q, m)
  BY <1>1, <1>2, <1>3, <1>8, PullReturn
<1> QED
  BY <1>5, <1>6, <1>7, <1>8

\* A message that is no access is served while no access is retried.
LEMMA NoRetryWaits ==
  ASSUME L1DInv, PullInv, NEW q, NEW m, Taken(q, m),
         m.type \notin {"load", "load_retry", "store", "store_retry"}
  PROVE  /\ q # "retry" /\ inq["retry"] = <<>>
         /\ \A i \in DOMAIN coal : coal[i].conf \/ coal[i].tag \in Rows
         /\ Dequeue(q, <<>>) => inq'["retry"] = inq["retry"]
<1>1. Shapes /\ RetryFree
  BY DEF L1DInv
<1>2. q # "retry"
  BY <1>1, TakenPacket DEF RetriedPacket, Retried
<1>3. inq["retry"] = <<>>
  BY <1>2 DEF Taken
<1>4. \A i \in DOMAIN coal : coal[i].conf \/ coal[i].tag \in Rows
  BY <1>3 DEF PullInv, MergedHaveRow, Retries
<1>5. Dequeue(q, <<>>) => inq'["retry"] = <<>>
  BY <1>1, Dequeued, EmptySeq
<1> QED
  BY <1>2, <1>3, <1>4, <1>5

\* The answers of the L2: the access of an answer that is taken is retried.
LEMMA PullAnswer ==
  ASSUME L1DInv, PullInv, NEW q \in Queue, NEW m, Fill(q, m) \/ UpgradeAck(q, m) \/ Nack(q, m)
  PROVE  PullInv'
<1>1. Shapes /\ RetryFree
  BY DEF L1DInv
<1>2. Taken(q, m) /\ m.type \in {"puts", "put_clnx", "putx", "get_nack", "getx_nack", "upgrade_ack"}
  BY <1>1, HandlesTakes DEF Fill, UpgradeAck, Nack
<1>3. /\ Dequeue(q, <<>>) => inq'["retry"] = inq["retry"]
      /\ \A i \in DOMAIN coal : coal[i].conf \/ coal[i].tag \in Rows
  BY <1>2, NoRetryWaits
<1>4. m \in Returned /\ m \in Packets /\ m.tag \in Tag
  BY <1>1, <1>2, MessageKinds DEF Packets, Returned
<1>5. CASE ort' = [ort EXCEPT ![m.tag] = "free"] /\ Dequeue(q, <<RetryOf(m, FALSE, FALSE)>>) /\ coal' = coal
  <2> DEFINE x == RetryOf(m, FALSE, FALSE)
  <2>1. x \in RetriedPacket /\ x.tag = m.tag
    BY <1>4, RetryOfPacket
  <2> HIDE DEF x
  <2>2. <<x>> \in Seq(RetriedPacket) /\ Dequeue(q, <<x>>)
    BY <1>5, <2>1, OneRetry DEF x
  <2>3. inq'["retry"] = <<x>>
    BY <1>1, <1>2, <2>2, Dequeued
  <2>4. \A t \in Rows : t \in Rows' \/ t = x.tag
    BY <1>4, <1>5, <2>1, OrtType, <1>1 DEF Rows
  <2>5. \A i \in DOMAIN coal' : coal'[i].conf \/ coal'[i].tag \in Rows' \/ coal'[i].tag = x.tag
    BY <1>3, <1>5, <2>4
  <2> QED
    BY <2>3, <2>5, PullRetried
<1>6. CASE /\ ort' = ort \/ (m.tag \in Rows /\ ort' = [ort EXCEPT ![m.tag] = "open"])
           /\ Dequeue(q, <<>>) /\ coal' = coal
  <2>1. Rows' = Rows
    <3>1. CASE ort' = ort
      BY <3>1 DEF Rows
    <3>2. CASE m.tag \in Rows /\ ort' = [ort EXCEPT ![m.tag] = "open"]
      <4>1. ort \in [Tag -> {"free", "open", "stale"}]
        BY <1>1, OrtType
      <4>2. ort'[m.tag] = "open" /\ \A t \in Tag : t # m.tag => ort'[t] = ort[t]
        BY <1>4, <3>2, <4>1
      <4>3. ASSUME NEW t \in Tag PROVE t \in Rows' <=> t \in Rows
        BY <1>4, <3>2, <4>2 DEF Rows
      <4>4. Rows \in SUBSET Tag /\ Rows' \in SUBSET Tag
        BY DEF Rows
      <4> QED
        BY <4>3, <4>4
    <3> QED
      BY <1>6, <3>1, <3>2
  <2> QED
    BY <1>3, <1>6, <2>1, PullKept
<1>7. CASE Fill(q, m)
  <2>1. ort[m.tag] = "stale" => m.tag \in Rows
    BY <1>4 DEF Rows
  <2> QED
    BY <1>5, <1>6, <1>7, <2>1 DEF Fill
<1>8. CASE UpgradeAck(q, m)
  BY <1>5, <1>8 DEF UpgradeAck
<1>9. CASE Nack(q, m)
  BY <1>6, <1>9 DEF Nack
<1> QED
  BY <1>7, <1>8, <1>9

\* What the L2 demands leaves every taken row taken.
LEMMA PullDemand ==
  ASSUME L1DInv, PullInv, NEW q \in Queue, NEW m,
         UpgradeInval(q, m) \/ Downgrade(q, m) \/ GetxFwdInval(q, m) \/ FlushBlock(q, m)
  PROVE  PullInv'
<1>1. Shapes
  BY DEF L1DInv
<1>2. Taken(q, m) /\ m.type \in {"upgrade_inval", "downgrade", "getx_fwd_inval", "flush_block"}
  BY <1>1, HandlesTakes DEF UpgradeInval, Downgrade, GetxFwdInval, FlushBlock
<1>3. Demanded(q, m)
  BY DEF UpgradeInval, Downgrade, GetxFwdInval, FlushBlock
<1>4. inq'["retry"] = inq["retry"]
  BY <1>2, <1>3, NoRetryWaits DEF Demanded
<1>5. Rows' = Rows
  BY <1>1, <1>3, OrtType DEF Demanded, MarkStale, Rows
<1> QED
  BY <1>3, <1>4, <1>5, PullKept DEF Demanded

\* The core and the L2 add to the other queues.
LEMMA PullOthers ==
  ASSUME L1DInv, PullInv, Core \/ UpIO \/ L2Take \/ (\E t \in Tag : L2Answer(t)) \/ L2Demand
                          \/ WriteBack \/ UNCHANGED vars
  PROVE  PullInv'
<1>1. coal' = coal /\ ort' = ort
  BY DEF Core, Issue, UpIO, L2Take, L2Get, L2Getx, L2WriteBack, L2ForwardAck, L2FlushAck, RestOfCache,
         L2Answer, L2Demand, L2Evict, L2UpgradeInval, L2Forward, WriteBack, cacheVars, vars
<1>2. "retry" \in DOMAIN inq /\ "retry" # "top" /\ "retry" # "bot" /\ "retry" # "coh"
  BY QueueTypes DEF L1DInv, Queue
<1>3. inq'["retry"] = inq["retry"]
  BY <1>2 DEF Core, Issue, UpIO, L2Take, L2Get, L2Getx, L2WriteBack, L2ForwardAck, L2FlushAck, RestOfCache,
         L2Answer, L2Demand, L2Evict, L2UpgradeInval, L2Forward, WriteBack, cacheVars, vars
<1> QED
  BY <1>1, <1>3, PullKept DEF Rows

\* At the start nothing is set aside.
LEMMA InitPull == Init => PullInv
<1> SUFFICES ASSUME Init PROVE PullInv
  OBVIOUS
<1>1. coal = <<>> /\ DOMAIN coal = {}
  BY DEF Init, CacheInit
<1> QED
  BY <1>1 DEF PullInv, MergedHaveRow, StuckByConflicts

\* Every step preserves it.
LEMMA NextPull == L1DInv /\ PullInv /\ [Next]_vars => PullInv'
<1> SUFFICES ASSUME L1DInv, PullInv, [Next]_vars PROVE PullInv'
  OBVIOUS
<1>1. CASE Cache
  <2>1. CASE WriteBack
    BY <2>1, PullOthers
  <2>2. CASE \E q \in Queue : \E m :
               \/ Load(q, m) \/ Store(q, m) \/ Fill(q, m) \/ Nack(q, m) \/ UpgradeAck(q, m)
               \/ UpgradeInval(q, m) \/ Downgrade(q, m) \/ GetxFwdInval(q, m) \/ FlushBlock(q, m)
    BY <2>2, PullAccess, PullAnswer, PullDemand
  <2> QED
    BY <1>1, <2>1, <2>2 DEF Cache, Step
<1>2. CASE ~Cache
  BY <1>2, PullOthers DEF Next
<1> QED
  BY <1>1, <1>2

\* With no request under way and nothing retried, every row is that of an access
\* that waits for a way.
LEMMA InvPulls == L1DInv /\ PullInv => SomebodyPulls
<1> SUFFICES ASSUME L1DInv, PullInv, coal # <<>>, Cardinality(Conflicting) <= Assoc,
                    inq["retry"] = <<>>, \A t \in Tag : ~(Requests(t) > 0)
             PROVE  FALSE
  BY DEF SomebodyPulls
<1>1. Shapes /\ RowsMatch
  BY DEF L1DInv
<1>2. ASSUME NEW t \in Rows PROVE \E i \in Conflicting : coal[i].tag = t
  <2>1. t \in Tag /\ Bit(t \in Rows) = 1
    BY DEF Rows, Bit
  <2>2. Total(Asks(t)) = 0
    BY <1>1, <2>1, RequestsTotal, TotalNats
  <2>3. In(coal, Confs(t)) # 0
    BY <1>1, <2>1, <2>2, TotalNats DEF RowsMatch
  <2>4. PICK i \in DOMAIN coal : coal[i] \in Confs(t)
    BY <1>1, <2>3, InType, QueueTypes
  <2> QED
    BY <2>4 DEF Confs, Conflicting
<1>3. Cardinality(Conflicting) > Assoc
  BY <1>2 DEF PullInv, StuckByConflicts, OnlyConflicts
<1>4. Cardinality(Conflicting) \in Nat
  <2>1. coal \in Seq(Parked) /\ {} \in SUBSET Tag
    BY <1>1, QueueTypes
  <2> QED
    BY <2>1, RowsOfConflicts DEF Conflicting
<1> QED
  BY <1>3, <1>4, L1DCacheAssumption

\* cache_coalesed_retry(), whatever the L2 answers and demands: unless more
\* accesses wait for a way than the set has ways, every access set aside has a
\* request under way or a retried access to pull it.
THEOREM SomebodyIsLeftToPull == Spec => []SomebodyPulls
<1>1. Spec => []PullInv
  BY L1DInvAlways, InitPull, NextPull, PTL DEF Spec
<1> QED
  BY <1>1, L1DInvAlways, InvPulls, PTL
=============================================================================
