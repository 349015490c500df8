-------------------------- MODULE MemoryPathProofs --------------------------
(***************************************************************************)
(* The memory path keeps its event counts, its pauses and its queue sizes, *)
(* loses and repeats no load and no flush and keeps the order of the       *)
(* requests, for any number of cores, loads and blocks and any queue size. *)
(***************************************************************************)
EXTENDS MemoryPath, SequenceCounts, TLAPS

\* What the queues have room for: a task that looked at a queue before its
\* pause has reserved the place it will fill after it.
Reserved ==
  /\ Len(down) <= 1 /\ Len(mcUp) <= 1
  /\ Len(saRx["top"]) <= QueueSize /\ Len(saRx["bottom"]) + Len(mcUp) <= QueueSize
  /\ \A q \in Side : Len(saTx[q]) <= QueueSize /\ (routing # "none" => Len(saTx[q]) < QueueSize)
  /\ Len(swRx) <= QueueSize + 1 /\ (upBusy => Len(swRx) <= QueueSize)
  /\ Len(mcRx) + Len(down) <= QueueSize
  /\ Inflight <= MaxInflight /\ (mcBusy => Inflight < MaxInflight)

\* Credits, case by case.
Counted ==
  /\ routing = "none" => credit["ctrl"] = Len(saRx["top"]) + Len(saRx["bottom"])
  /\ routing # "none" => credit["ctrl"] + 1 = Len(saRx["top"]) + Len(saRx["bottom"])
  /\ ~upBusy => credit["io_up"] = Len(saTx["top"])
  /\ upBusy => credit["io_up"] + 1 = Len(saTx["top"])
  /\ credit["io_down"] = Len(saTx["bottom"])
  /\ ~mcBusy => credit["mc"] = Len(mcRx)
  /\ mcBusy => credit["mc"] + 1 = Len(mcRx)
  /\ credit["mc_io"] = Len(mcTx)

IInv == Types /\ Counted /\ PausesAreSafe /\ Reserved

-----------------------------------------------------------------------------
(* What the invariant says of the queues *)

LEMMA Counts ==
  ASSUME IInv
  PROVE  /\ saRx \in [{"top", "bottom"} -> Seq(South \cup North)]
         /\ saTx \in [{"top", "bottom"} -> Seq(South \cup North)]
         /\ down \in Seq(South) /\ mcRx \in Seq(South)
         /\ pending \in Seq(LoadPacket \cup WritePacket)
         /\ mcTx \in Seq(North) /\ mcUp \in Seq(North) /\ swRx \in Seq(North)
         /\ Len(saRx["top"]) \in Nat /\ Len(saRx["bottom"]) \in Nat
         /\ Len(saTx["top"]) \in Nat /\ Len(saTx["bottom"]) \in Nat
         /\ Len(down) \in Nat /\ Len(mcRx) \in Nat /\ Len(pending) \in Nat
         /\ Len(mcTx) \in Nat /\ Len(mcUp) \in Nat /\ Len(swRx) \in Nat
BY LenFacts DEF IInv, Types, Side

LEMMA Empty ==
  ASSUME IInv
  PROVE  /\ \A q \in Side : saRx[q] = <<>> <=> Len(saRx[q]) = 0
         /\ saTx["top"] = <<>> <=> Len(saTx["top"]) = 0
         /\ mcRx = <<>> <=> Len(mcRx) = 0
         /\ down = <<>> <=> Len(down) = 0
         /\ mcUp = <<>> <=> Len(mcUp) = 0
BY LenFacts DEF IInv, Types, Side

LEMMA CountsOfTasks ==
  ASSUME IInv
  PROVE  /\ credit["ctrl"] \in Nat /\ credit["io_up"] \in Nat /\ credit["io_down"] \in Nat
         /\ credit["mc"] \in Nat /\ credit["mc_io"] \in Nat
BY DEF IInv, Types, Task

LEMMA Advanced ==
  ASSUME IInv, NEW t \in Task, Advance(t)
  PROVE  /\ credit' \in [Task -> Nat] /\ credit'[t] = credit[t] + 1
         /\ \A u \in Task : u # t => credit'[u] = credit[u]
<1>1. credit \in [Task -> Nat]
  BY DEF IInv, Types
<1> QED
  BY <1>1 DEF Advance

LEMMA Awaited ==
  ASSUME IInv, NEW t \in Task, Await(t)
  PROVE  /\ credit' \in [Task -> Nat] /\ credit[t] > 0 /\ credit'[t] = credit[t] - 1
         /\ \A u \in Task : u # t => credit'[u] = credit[u]
<1>1. credit \in [Task -> Nat]
  BY DEF IInv, Types
<1>2. credit[t] \in Nat
  BY <1>1
<1> QED
  BY <1>1, <1>2 DEF Await

LEMMA Tasks ==
  /\ "ctrl" \in Task /\ "io_up" \in Task /\ "io_down" \in Task /\ "mc" \in Task
  /\ "mc_io" \in Task
BY DEF Task

LEMMA Constants == QueueSize \in Nat /\ MaxInflight \in Nat /\ QueueSize > 0 /\ MaxInflight > 0
BY MemoryPathAssumption

LEMMA Sides == "top" \in Side /\ "bottom" \in Side /\ \A q \in Side : q = "top" \/ q = "bottom"
BY DEF Side

-----------------------------------------------------------------------------
(* The actions, one lemma each *)

LEMMA EnterStep ==
  ASSUME IInv, NEW p \in South, Enter(p), flushing' \in [Core -> Nat], loads' \in SUBSET Load
  PROVE  IInv'
<1> DEFINE s == Append(saRx["top"], p)
<1>1. saRx' = [saRx EXCEPT !["top"] = s] /\ Len(saRx["top"]) < QueueSize
  BY DEF Enter
<1>2. s \in Seq(South) /\ Len(s) = Len(saRx["top"]) + 1
  BY AppendFacts DEF IInv, Types
<1>3. /\ saRx' \in [{"top", "bottom"} -> Seq(South \cup North)]
      /\ saRx'["top"] = s /\ saRx'["bottom"] = saRx["bottom"]
  BY <1>1, <1>2, Wider, Counts
<1>4. Advance("ctrl")
  BY DEF Enter
<1>5. /\ credit' \in [Task -> Nat] /\ credit'["ctrl"] = credit["ctrl"] + 1
      /\ \A t \in Task : t # "ctrl" => credit'[t] = credit[t]
  BY <1>4, Advanced, Tasks
<1>6. UNCHANGED <<DRAMSim, nextQueue, routing, saTx, upBusy, down, mcRx, mcBusy, pending,
                  mcTx, mcUp, swRx, flush>>
  BY DEF Enter, memCtrl
<1> HIDE DEF s
<1>7. Types'
  BY <1>2, <1>3, <1>5, <1>6 DEF IInv, Types, Side
<1>8. Counted'
  <2>1. Len(saRx'["top"]) = Len(saRx["top"]) + 1 /\ saRx'["bottom"] = saRx["bottom"]
    BY <1>2, <1>3
  <2>2. credit'["ctrl"] = credit["ctrl"] + 1 /\ routing' = routing
    BY <1>5, <1>6
  <2>3. /\ routing' = "none" => credit'["ctrl"] = Len(saRx'["top"]) + Len(saRx'["bottom"])
        /\ routing' # "none" => credit'["ctrl"] + 1 = Len(saRx'["top"]) + Len(saRx'["bottom"])
    <3>1. /\ routing = "none" => credit["ctrl"] = Len(saRx["top"]) + Len(saRx["bottom"])
          /\ routing # "none" => credit["ctrl"] + 1 = Len(saRx["top"]) + Len(saRx["bottom"])
      BY DEF IInv, Counted
    <3> DEFINE a == Len(saRx["top"])
               b == Len(saRx["bottom"])
               c == credit["ctrl"]
    <3>2. a \in Nat /\ b \in Nat /\ c \in Nat
      BY Counts, CountsOfTasks
    <3> HIDE DEF a, b, c
    <3>3. (c = a + b => c + 1 = a + 1 + b) /\ (c + 1 = a + b => c + 1 + 1 = a + 1 + b)
      BY <3>2
    <3> QED
      BY <2>1, <2>2, <3>1, <3>3 DEF a, b, c
  <2> QED
    BY <2>3, <1>5, <1>6, Tasks DEF IInv, Counted
<1>9. PausesAreSafe'
  <2>1. routing # "none" => saRx'[routing] # <<>>
    BY <1>2, <1>3, Counts, LenFacts, Sides DEF IInv, Types, PausesAreSafe
  <2> QED
    BY <2>1, <1>6 DEF IInv, PausesAreSafe
<1>10. Reserved'
  BY <1>1, <1>2, <1>3, <1>6, Counts, Constants DEF IInv, Reserved, Inflight
<1> QED
  BY <1>7, <1>8, <1>9, <1>10 DEF IInv

LEMMA SelectStep ==
  ASSUME IInv, SelectMessage
  PROVE  IInv'
<1>1. /\ routing = "none" /\ routing' = Pick /\ nextQueue' = Other(Pick)
      /\ Len(saTx["bottom"]) < QueueSize /\ Len(saTx["top"]) < QueueSize
      /\ Await("ctrl")
  BY DEF SelectMessage
<1>2. UNCHANGED <<DRAMSim, saRx, saTx, upBusy, down, mcRx, mcBusy, pending, mcTx, mcUp,
                  swRx, flushing, loads, flush>>
  BY DEF SelectMessage, memCtrl, ring
<1>3. /\ credit' \in [Task -> Nat] /\ credit["ctrl"] > 0 /\ credit'["ctrl"] = credit["ctrl"] - 1
      /\ \A t \in Task : t # "ctrl" => credit'[t] = credit[t]
  BY <1>1, Awaited, Tasks
<1>4. Pick \in Side /\ Other(Pick) \in Side
  BY DEF IInv, Types, Pick, Other, Side
<1>5. saRx[Pick] # <<>>
  <2>1. Len(saRx["top"]) + Len(saRx["bottom"]) > 0
    BY <1>1, <1>3, Counts, CountsOfTasks DEF IInv, Counted
  <2>2. saRx["top"] # <<>> \/ saRx["bottom"] # <<>>
    BY <2>1, Counts, Empty, Sides
  <2> QED
    BY <2>2 DEF IInv, Types, Pick, Other, Side
<1>6. Pick # "none"
  BY <1>4, Sides
<1>7. Types'
  BY <1>1, <1>2, <1>3, <1>4 DEF IInv, Types
<1>8. Counted'
  <2>1. credit'["ctrl"] + 1 = Len(saRx'["top"]) + Len(saRx'["bottom"]) /\ routing' # "none"
    <3>1. credit["ctrl"] = Len(saRx["top"]) + Len(saRx["bottom"])
      BY <1>1 DEF IInv, Counted
    <3>2. credit'["ctrl"] + 1 = credit["ctrl"]
      BY <1>3, CountsOfTasks
    <3> QED
      BY <3>1, <3>2, <1>1, <1>2, <1>6
  <2> QED
    BY <2>1, <1>2, <1>3, Tasks DEF IInv, Counted
<1>9. PausesAreSafe'
  BY <1>1, <1>2, <1>5 DEF IInv, PausesAreSafe
<1>10. Reserved'
  BY <1>1, <1>2, Sides DEF IInv, Reserved, Inflight
<1> QED
  BY <1>7, <1>8, <1>9, <1>10 DEF IInv

\* A step that leaves the queues, the pauses and the event counts alone.
LEMMA QuietStep ==
  ASSUME IInv, Types',
         UNCHANGED <<saRx, routing, saTx, upBusy, down, mcRx, mcBusy, pending, mcTx, mcUp,
                     swRx, credit>>
  PROVE  IInv'
BY DEF IInv, Counted, PausesAreSafe, Reserved, Inflight

LEMMA FlushStep ==
  ASSUME IInv, NEW c \in Core, Flush(c)
  PROVE  IInv'
<1>1. flush' \in [Core -> Int] /\ flushing' \in [Core -> Nat]
  <2>1. flush \in [Core -> Int] /\ flushing \in [Core -> Nat]
    BY DEF IInv, Types
  <2> QED
    BY <2>1 DEF Flush
<1>2. UNCHANGED <<DRAMSim, saRx, nextQueue, routing, saTx, upBusy, down, mcRx, mcBusy, pending,
                  mcTx, mcUp, swRx, loads, credit>>
  BY DEF Flush, sysAgent, memCtrl
<1>3. Types'
  BY <1>1, <1>2 DEF IInv, Types
<1> QED
  BY <1>2, <1>3, QuietStep

LEMMA DeliverStep ==
  ASSUME IInv, Deliver
  PROVE  IInv'
<1>1. UNCHANGED <<DRAMSim, saRx, nextQueue, routing, saTx, upBusy, down, mcRx, mcBusy, pending,
                  mcTx, mcUp, flushing, credit, flush>>
  BY DEF Deliver, sysAgent, memCtrl
<1>2. Len(swRx) > 0
  BY LenFacts DEF Deliver, IInv, Types
<1>3. swRx' \in Seq(North) /\ Len(swRx') = Len(swRx) - 1
  BY <1>2, HeadFacts DEF Deliver, IInv, Types
<1>4. loads' \in SUBSET Load
  BY DEF Deliver, IInv, Types
<1>5. Types'
  BY <1>1, <1>3, <1>4 DEF IInv, Types
<1>6. Counted' /\ PausesAreSafe'
  BY <1>1 DEF IInv, Counted, PausesAreSafe
<1>7. Reserved'
  BY <1>1, <1>3, Counts, Constants DEF IInv, Reserved, Inflight
<1> QED
  BY <1>5, <1>6, <1>7 DEF IInv

LEMMA StartUpStep ==
  ASSUME IInv, StartUp
  PROVE  IInv'
<1>1. UNCHANGED <<DRAMSim, saRx, nextQueue, routing, saTx, down, mcRx, mcBusy, pending, mcTx,
                  mcUp, swRx, flushing, loads, flush>>
  BY DEF StartUp, memCtrl, ring
<1>2. ~upBusy /\ upBusy' = TRUE /\ Len(swRx) <= QueueSize /\ Await("io_up")
  BY DEF StartUp
<1>3. /\ credit' \in [Task -> Nat] /\ credit["io_up"] > 0 /\ credit'["io_up"] = credit["io_up"] - 1
      /\ \A t \in Task : t # "io_up" => credit'[t] = credit[t]
  BY <1>2, Awaited, Tasks
<1>4. credit["io_up"] = Len(saTx["top"])
  BY <1>2, Counts, CountsOfTasks DEF IInv, Counted
<1>5. Types'
  BY <1>1, <1>2, <1>3 DEF IInv, Types
<1>6. Counted'
  <2>1. credit'["io_up"] + 1 = Len(saTx'["top"])
    BY <1>1, <1>3, <1>4, CountsOfTasks
  <2> QED
    BY <2>1, <1>1, <1>2, <1>3, Tasks DEF IInv, Counted
<1>7. PausesAreSafe'
  <2>1. saTx["top"] # <<>>
    BY <1>3, <1>4, Empty
  <2> QED
    BY <2>1, <1>1 DEF IInv, PausesAreSafe
<1>8. Reserved'
  BY <1>1, <1>2 DEF IInv, Reserved, Inflight
<1> QED
  BY <1>5, <1>6, <1>7, <1>8 DEF IInv

LEMMA FinishUpStep ==
  ASSUME IInv, FinishUp
  PROVE  IInv'
<1> DEFINE p == Head(saTx["top"])
           rest == Tail(saTx["top"])
           s == Append(swRx, p)
<1>1. UNCHANGED <<DRAMSim, saRx, nextQueue, routing, down, mcRx, mcBusy, pending, mcTx,
                  mcUp, flushing, loads, credit, flush>>
  BY DEF FinishUp, memCtrl
<1>2. upBusy /\ upBusy' = FALSE /\ swRx' = s /\ saTx' = [saTx EXCEPT !["top"] = rest]
  BY DEF FinishUp
<1>3. Len(saTx["top"]) > 0
  BY <1>2, Counts, Empty DEF IInv, PausesAreSafe
<1>4. p \in North /\ rest \in Seq(North) /\ Len(rest) = Len(saTx["top"]) - 1
  BY <1>3, HeadFacts DEF IInv, Types
<1>5. s \in Seq(North) /\ Len(s) = Len(swRx) + 1
  BY <1>4, AppendFacts DEF IInv, Types
<1> HIDE DEF p, rest, s
<1>6. /\ saTx' \in [{"top", "bottom"} -> Seq(South \cup North)]
      /\ saTx'["top"] = rest /\ saTx'["bottom"] = saTx["bottom"]
  BY <1>2, <1>4, Wider, Counts
<1>7. Types'
  BY <1>1, <1>2, <1>4, <1>5, <1>6 DEF IInv, Types, Side
<1>8. Counted'
  <2>1. credit["io_up"] + 1 = Len(saTx["top"])
    BY <1>2 DEF IInv, Counted
  <2>2. credit'["io_up"] = Len(saTx'["top"])
    <3>1. credit'["io_up"] = credit["io_up"] /\ Len(saTx'["top"]) = Len(saTx["top"]) - 1
      BY <1>1, <1>4, <1>6
    <3>2. credit["io_up"] = Len(saTx["top"]) - 1
      BY <2>1, Counts, CountsOfTasks, Minus
    <3> QED
      BY <3>1, <3>2
  <2> QED
    BY <2>2, <1>1, <1>2, <1>6 DEF IInv, Counted
<1>9. PausesAreSafe'
  BY <1>1, <1>2 DEF IInv, PausesAreSafe
<1>10. Reserved'
  <2>1. Len(swRx') <= QueueSize + 1
    BY <1>2, <1>5, Counts, Constants DEF IInv, Reserved
  <2>2. \A q \in Side : Len(saTx'[q]) <= QueueSize /\ (routing' # "none" => Len(saTx'[q]) < QueueSize)
    <3>1. Len(saTx'["top"]) = Len(saTx["top"]) - 1 /\ saTx'["bottom"] = saTx["bottom"]
      BY <1>4, <1>6
    <3>2. routing' = routing
      BY <1>1
    <3>3. /\ Len(saTx["top"]) <= QueueSize /\ Len(saTx["bottom"]) <= QueueSize
          /\ routing # "none" => Len(saTx["top"]) < QueueSize /\ Len(saTx["bottom"]) < QueueSize
      BY Sides DEF IInv, Reserved
    <3>4. /\ Len(saTx'["top"]) <= QueueSize /\ Len(saTx'["bottom"]) <= QueueSize
          /\ routing' # "none" => Len(saTx'["top"]) < QueueSize /\ Len(saTx'["bottom"]) < QueueSize
      BY <3>1, <3>2, <3>3, <1>6, Counts, Constants
    <3> QED
      BY <3>4, Sides
  <2> QED
    BY <2>1, <2>2, <1>1, <1>2 DEF IInv, Reserved, Inflight
<1> QED
  BY <1>7, <1>8, <1>9, <1>10 DEF IInv

LEMMA StartDownStep ==
  ASSUME IInv, StartDown
  PROVE  IInv'
<1> DEFINE p == Head(saTx["bottom"])
           rest == Tail(saTx["bottom"])
<1>1. UNCHANGED <<DRAMSim, saRx, nextQueue, routing, upBusy, mcRx, mcBusy, pending, mcTx,
                  mcUp, swRx, flushing, loads, flush>>
  BY DEF StartDown, memCtrl, ring
<1>2. /\ down = <<>> /\ Len(mcRx) < QueueSize /\ Await("io_down")
      /\ down' = <<p>> /\ saTx' = [saTx EXCEPT !["bottom"] = rest]
  BY DEF StartDown
<1>3. /\ credit' \in [Task -> Nat] /\ credit["io_down"] > 0
      /\ credit'["io_down"] = credit["io_down"] - 1
      /\ \A t \in Task : t # "io_down" => credit'[t] = credit[t]
  BY <1>2, Awaited, Tasks
<1>4. Len(saTx["bottom"]) > 0
  BY <1>3 DEF IInv, Counted
<1>5. p \in South /\ rest \in Seq(South) /\ Len(rest) = Len(saTx["bottom"]) - 1
  BY <1>4, HeadFacts DEF IInv, Types
<1> HIDE DEF p, rest
<1>6. down' \in Seq(South) /\ Len(down') = 1
  BY <1>2, <1>5
<1>7. /\ saTx' \in [{"top", "bottom"} -> Seq(South \cup North)]
      /\ saTx'["top"] = saTx["top"] /\ saTx'["bottom"] = rest
  BY <1>2, <1>5, Wider, Counts
<1>8. Types'
  BY <1>1, <1>3, <1>5, <1>6, <1>7 DEF IInv, Types, Side
<1>9. Counted'
  <2>1. credit["io_down"] = Len(saTx["bottom"])
    BY DEF IInv, Counted
  <2>2. credit'["io_down"] = Len(saTx'["bottom"])
    BY <2>1, <1>3, <1>5, <1>7, Counts, CountsOfTasks
  <2> QED
    BY <2>2, <1>1, <1>3, <1>7, Tasks DEF IInv, Counted
<1>10. PausesAreSafe'
  BY <1>1, <1>7 DEF IInv, PausesAreSafe
<1>11. Reserved'
  <2>1. Len(mcRx') + Len(down') <= QueueSize
    BY <1>1, <1>2, <1>6, Counts, Constants
  <2>2. \A q \in Side : Len(saTx'[q]) <= QueueSize /\ (routing' # "none" => Len(saTx'[q]) < QueueSize)
    <3>1. Len(saTx'["bottom"]) = Len(saTx["bottom"]) - 1 /\ saTx'["top"] = saTx["top"]
      BY <1>5, <1>7
    <3>2. routing' = routing
      BY <1>1
    <3>3. /\ Len(saTx["top"]) <= QueueSize /\ Len(saTx["bottom"]) <= QueueSize
          /\ routing # "none" => Len(saTx["top"]) < QueueSize /\ Len(saTx["bottom"]) < QueueSize
      BY Sides DEF IInv, Reserved
    <3>4. /\ Len(saTx'["top"]) <= QueueSize /\ Len(saTx'["bottom"]) <= QueueSize
          /\ routing' # "none" => Len(saTx'["top"]) < QueueSize /\ Len(saTx'["bottom"]) < QueueSize
      BY <3>1, <3>2, <3>3, <1>7, Counts, Constants
    <3> QED
      BY <3>4, Sides
  <2> QED
    BY <2>1, <2>2, <1>1, <1>6 DEF IInv, Reserved, Inflight
<1> QED
  BY <1>8, <1>9, <1>10, <1>11 DEF IInv

LEMMA FinishDownStep ==
  ASSUME IInv, FinishDown
  PROVE  IInv'
<1> DEFINE s == mcRx \o down
<1>1. UNCHANGED <<DRAMSim, saRx, nextQueue, routing, saTx, upBusy, mcBusy, pending, mcTx,
                  mcUp, swRx, flushing, loads, flush>>
  BY DEF FinishDown, ring
<1>2. down # <<>> /\ mcRx' = s /\ down' = <<>> /\ Advance("mc")
  BY DEF FinishDown
<1>3. /\ credit' \in [Task -> Nat] /\ credit'["mc"] = credit["mc"] + 1
      /\ \A t \in Task : t # "mc" => credit'[t] = credit[t]
  BY <1>2, Advanced, Tasks
<1>4. Len(down) = 1
  <2>1. Len(down) <= 1
    BY DEF IInv, Reserved
  <2>2. down \in Seq(South) /\ down # <<>>
    BY <1>2 DEF IInv, Types
  <2>3. Len(down) \in Nat /\ Len(down) # 0
    BY <2>2, LenFacts
  <2> QED
    BY <2>1, <2>3, One
<1>5. s \in Seq(South) /\ Len(s) = Len(mcRx) + 1
  BY <1>4, JoinFacts DEF IInv, Types
<1> HIDE DEF s
<1>6. down' \in Seq(South) /\ Len(down') = 0
  BY <1>2
<1>7. Types'
  BY <1>1, <1>2, <1>3, <1>5, <1>6 DEF IInv, Types
<1>8. Counted'
  <2>1. credit'["mc"] = credit["mc"] + 1 /\ Len(mcRx') = Len(mcRx) + 1 /\ mcBusy' = mcBusy
    BY <1>1, <1>2, <1>3, <1>5
  <2>2. /\ ~mcBusy' => credit'["mc"] = Len(mcRx')
        /\ mcBusy' => credit'["mc"] + 1 = Len(mcRx')
    BY <2>1, Counts, CountsOfTasks DEF IInv, Counted
  <2> QED
    BY <2>2, <1>1, <1>3, Tasks DEF IInv, Counted
<1>9. PausesAreSafe'
  <2>1. mcRx' # <<>>
    BY <1>2, <1>5, Counts, LenFacts
  <2> QED
    BY <2>1, <1>1 DEF IInv, PausesAreSafe
<1>10. Reserved'
  <2>1. Len(mcRx') + Len(down') <= QueueSize
    BY <1>2, <1>4, <1>5, <1>6, Counts, Constants DEF IInv, Reserved
  <2> QED
    BY <2>1, <1>1, <1>6, Counts DEF IInv, Reserved, Inflight
<1> QED
  BY <1>7, <1>8, <1>9, <1>10 DEF IInv

LEMMA StartAccessStep ==
  ASSUME IInv, StartAccess
  PROVE  IInv'
<1>1. UNCHANGED <<DRAMSim, saRx, nextQueue, routing, saTx, upBusy, down, mcRx, pending, mcTx,
                  mcUp, swRx, flushing, loads, flush>>
  BY DEF StartAccess, sysAgent, ring
<1>2. ~mcBusy /\ Inflight < MaxInflight /\ Await("mc") /\ mcBusy' = TRUE
  BY DEF StartAccess
<1>3. /\ credit' \in [Task -> Nat] /\ credit["mc"] > 0 /\ credit'["mc"] = credit["mc"] - 1
      /\ \A t \in Task : t # "mc" => credit'[t] = credit[t]
  BY <1>2, Awaited, Tasks
<1>4. credit["mc"] = Len(mcRx)
  BY <1>2, Counts, CountsOfTasks DEF IInv, Counted
<1>5. Types'
  BY <1>1, <1>2, <1>3 DEF IInv, Types
<1>6. Counted'
  <2>1. credit'["mc"] + 1 = Len(mcRx')
    BY <1>1, <1>3, <1>4, CountsOfTasks
  <2> QED
    BY <2>1, <1>1, <1>2, <1>3, Tasks DEF IInv, Counted
<1>7. PausesAreSafe'
  <2>1. mcRx # <<>>
    BY <1>3, <1>4, Empty
  <2> QED
    BY <2>1, <1>1 DEF IInv, PausesAreSafe
<1>8. Reserved'
  BY <1>1, <1>2 DEF IInv, Reserved, Inflight
<1> QED
  BY <1>5, <1>6, <1>7, <1>8 DEF IInv

\* What every action has in common that ends the memory controller's pause.
LEMMA ServeFacts ==
  ASSUME IInv, NEW p, Serves(p)
  PROVE  /\ p \in South /\ Tail(mcRx) \in Seq(South) /\ Len(Tail(mcRx)) = Len(mcRx) - 1
         /\ Len(mcRx) > 0 /\ Inflight < MaxInflight /\ credit["mc"] + 1 = Len(mcRx)
         /\ credit["mc"] = Len(Tail(mcRx))
<1>1. mcBusy /\ p = Head(mcRx)
  BY DEF Serves
<1>2. Len(mcRx) > 0
  BY <1>1, Counts, Empty DEF IInv, PausesAreSafe
<1>3. p \in South /\ Tail(mcRx) \in Seq(South) /\ Len(Tail(mcRx)) = Len(mcRx) - 1
  BY <1>1, <1>2, HeadFacts DEF IInv, Types
<1>4. Inflight < MaxInflight /\ credit["mc"] + 1 = Len(mcRx)
  BY <1>1 DEF IInv, Reserved, Counted
<1>5. credit["mc"] = Len(Tail(mcRx))
  <2>1. credit["mc"] = Len(mcRx) - 1
    BY <1>4, Counts, CountsOfTasks, Minus
  <2> QED
    BY <1>3, <2>1
<1> QED
  BY <1>2, <1>3, <1>4, <1>5

LEMMA UncountType ==
  ASSUME IInv, NEW c, Uncount(c)
  PROVE  flush' \in [Core -> Int]
<1>1. flush \in [Core -> Int]
  BY DEF IInv, Types
<1>2. flush' = [flush EXCEPT ![c] = @ - 1]
  BY DEF Uncount
<1>3. CASE c \in Core
  BY <1>1, <1>2, <1>3
<1>4. CASE c \notin Core
  BY <1>1, <1>2, <1>4
<1> QED
  BY <1>3, <1>4

LEMMA EndCleanFlushStep ==
  ASSUME IInv, NEW p, EndCleanFlush(p)
  PROVE  IInv'
<1>1. UNCHANGED <<DRAMSim, saRx, nextQueue, routing, saTx, upBusy, down, pending, mcTx, mcUp,
                  swRx, flushing, loads, credit>>
  BY DEF EndCleanFlush, sysAgent, ring
<1>2. Serves(p) /\ mcBusy' = FALSE /\ mcRx' = Tail(mcRx) /\ Uncount(p.core)
  BY DEF EndCleanFlush, Serves
<1>3. mcRx' \in Seq(South) /\ Len(mcRx') = Len(mcRx) - 1 /\ credit["mc"] = Len(mcRx')
  BY <1>2, ServeFacts
<1>4. flush' \in [Core -> Int]
  BY <1>2, UncountType
<1>5. Types'
  BY <1>1, <1>2, <1>3, <1>4 DEF IInv, Types
<1>6. Counted'
  BY <1>1, <1>2, <1>3 DEF IInv, Counted
<1>7. PausesAreSafe'
  BY <1>1, <1>2 DEF IInv, PausesAreSafe
<1>8. Reserved'
  BY <1>1, <1>2, <1>3, Counts, Constants DEF IInv, Reserved, Inflight
<1> QED
  BY <1>5, <1>6, <1>7, <1>8 DEF IInv

LEMMA AddTransactionStep ==
  ASSUME IInv, NEW p, AddTransaction(p)
  PROVE  IInv'
<1>1. UNCHANGED <<DRAMSim, saRx, nextQueue, routing, saTx, upBusy, down, mcTx, mcUp,
                  swRx, flushing, loads, credit, flush>>
  BY DEF AddTransaction, sysAgent, ring
<1>2. /\ Serves(p) /\ mcBusy' = FALSE /\ mcRx' = Tail(mcRx) /\ p \in LoadPacket \cup WritePacket
      /\ pending' = Append(pending, p)
  BY DEF AddTransaction, ToDRAM, Serves
<1>3. mcRx' \in Seq(South) /\ Len(mcRx') = Len(mcRx) - 1 /\ credit["mc"] = Len(mcRx')
  BY <1>2, ServeFacts
<1>4. pending' \in Seq(LoadPacket \cup WritePacket) /\ Len(pending') = Len(pending) + 1
  BY <1>2, Counts, AppendFacts
<1>5. Types'
  BY <1>1, <1>2, <1>3, <1>4 DEF IInv, Types
<1>6. Counted'
  BY <1>1, <1>2, <1>3 DEF IInv, Counted
<1>7. PausesAreSafe'
  BY <1>1, <1>2 DEF IInv, PausesAreSafe
<1>8. Reserved'
  <2>1. Inflight < MaxInflight
    BY <1>2, ServeFacts
  <2>2. Inflight' <= MaxInflight
    BY <2>1, <1>1, <1>4, Counts, Constants DEF Inflight
  <2>3. Len(mcRx') + Len(down') <= QueueSize
    BY <1>1, <1>3, Counts, Constants DEF IInv, Reserved
  <2> QED
    BY <2>2, <2>3, <1>1, <1>2 DEF IInv, Reserved
<1> QED
  BY <1>5, <1>6, <1>7, <1>8 DEF IInv

LEMMA RefuseTransactionStep ==
  ASSUME IInv, NEW p, RefuseTransaction(p)
  PROVE  IInv'
<1>1. UNCHANGED <<DRAMSim, saRx, nextQueue, routing, saTx, upBusy, down, mcRx, pending, mcTx, mcUp,
                  swRx, flushing, loads, flush>>
  BY DEF RefuseTransaction, sysAgent, ring
<1>2. Serves(p) /\ mcBusy' = FALSE /\ Advance("mc")
  BY DEF RefuseTransaction, ToDRAM, Serves
<1>3. /\ credit' \in [Task -> Nat] /\ credit'["mc"] = credit["mc"] + 1
      /\ \A t \in Task : t # "mc" => credit'[t] = credit[t]
  BY <1>2, Advanced, Tasks
<1>4. credit["mc"] + 1 = Len(mcRx)
  BY <1>2, ServeFacts
<1>5. Types'
  BY <1>1, <1>2, <1>3 DEF IInv, Types
<1>6. Counted'
  BY <1>1, <1>2, <1>3, <1>4, Tasks DEF IInv, Counted
<1>7. PausesAreSafe'
  BY <1>1, <1>2 DEF IInv, PausesAreSafe
<1>8. Reserved'
  BY <1>1, <1>2 DEF IInv, Reserved, Inflight
<1> QED
  BY <1>5, <1>6, <1>7, <1>8 DEF IInv

LEMMA RouteStep ==
  ASSUME IInv, Route
  PROVE  IInv'
<1> DEFINE p == Head(saRx[routing])
           rest == Tail(saRx[routing])
           q == SideOf(p)
           s == Append(saTx[q], p)
           t == IF q = "top" THEN "io_up" ELSE "io_down"
<1>1. UNCHANGED <<DRAMSim, nextQueue, upBusy, down, mcRx, mcBusy, pending, mcTx, mcUp, swRx,
                  flushing, loads, flush>>
  BY DEF Route, memCtrl, ring
<1>2. /\ routing # "none" /\ routing' = "none" /\ Advance(t)
      /\ saRx' = [saRx EXCEPT ![routing] = rest] /\ saTx' = [saTx EXCEPT ![q] = s]
  BY DEF Route
<1>3. routing \in Side
  BY <1>2 DEF IInv, Types
<1>4. Len(saRx[routing]) > 0
  BY <1>2, <1>3, Counts, Empty, Sides DEF IInv, PausesAreSafe
<1>5. /\ rest \in Seq(South \cup North) /\ Len(rest) = Len(saRx[routing]) - 1
      /\ routing = "top" => p \in South /\ rest \in Seq(South)
      /\ routing = "bottom" => p \in North /\ rest \in Seq(North)
      /\ p \in South \cup North
  BY <1>3, <1>4, HeadFacts, Sides, Wider DEF IInv, Types
<1>6. /\ q \in Side /\ (q = "top" => p \in North) /\ (q = "bottom" => p \in South)
  BY <1>5 DEF SideOf, Side, South, North, LoadPacket, WritePacket
<1>7. /\ s \in Seq(South \cup North) /\ Len(s) = Len(saTx[q]) + 1
      /\ q = "top" => s \in Seq(North)
      /\ q = "bottom" => s \in Seq(South)
  BY <1>5, <1>6, AppendFacts, Sides, Counts DEF IInv, Types
<1>8. t \in Task
  BY DEF Task
<1>9. /\ credit' \in [Task -> Nat] /\ credit'[t] = credit[t] + 1
      /\ \A u \in Task : u # t => credit'[u] = credit[u]
  BY <1>2, <1>8, Advanced
<1>10. (q = "top" => t = "io_up") /\ (q = "bottom" => t = "io_down")
  OBVIOUS
<1> HIDE DEF p, rest, q, s, t
<1>11. /\ saRx' \in [{"top", "bottom"} -> Seq(South \cup North)]
       /\ saRx'[routing] = rest /\ \A r \in Side : r # routing => saRx'[r] = saRx[r]
  BY <1>2, <1>3, <1>5, Counts DEF Side
<1>12. /\ saTx' \in [{"top", "bottom"} -> Seq(South \cup North)]
       /\ saTx'[q] = s /\ \A r \in Side : r # q => saTx'[r] = saTx[r]
  BY <1>2, <1>6, <1>7, Counts DEF Side
<1>13. saRx'["top"] \in Seq(South) /\ saRx'["bottom"] \in Seq(North)
  BY <1>3, <1>5, <1>11, Sides DEF IInv, Types
<1>14. saTx'["top"] \in Seq(North) /\ saTx'["bottom"] \in Seq(South)
  BY <1>6, <1>7, <1>12, Sides DEF IInv, Types
<1>15. Types'
  BY <1>1, <1>2, <1>9, <1>11, <1>12, <1>13, <1>14 DEF IInv, Types, Side
<1>16. Len(saRx'["top"]) \in Nat /\ Len(saRx'["bottom"]) \in Nat
  BY <1>13, LenFacts
<1>17. Len(saTx'["top"]) \in Nat /\ Len(saTx'["bottom"]) \in Nat
  BY <1>14, LenFacts
<1>18. credit["ctrl"] = Len(saRx'["top"]) + Len(saRx'["bottom"])
  <2>1. credit["ctrl"] + 1 = Len(saRx["top"]) + Len(saRx["bottom"])
    BY <1>2 DEF IInv, Counted
  <2>2. \A a, b, c, d, e \in Nat : c + 1 = a + b /\ ((d = a - 1 /\ e = b) \/ (d = a /\ e = b - 1))
                                   => c = d + e
    OBVIOUS
  <2>3. \/ Len(saRx'["top"]) = Len(saRx["top"]) - 1 /\ Len(saRx'["bottom"]) = Len(saRx["bottom"])
        \/ Len(saRx'["top"]) = Len(saRx["top"]) /\ Len(saRx'["bottom"]) = Len(saRx["bottom"]) - 1
    BY <1>3, <1>5, <1>11, Sides
  <2> DEFINE a == Len(saRx["top"])
             b == Len(saRx["bottom"])
             d == Len(saRx'["top"])
             e == Len(saRx'["bottom"])
             c == credit["ctrl"]
  <2>4. a \in Nat /\ b \in Nat /\ c \in Nat /\ d \in Nat /\ e \in Nat
    BY <1>16, Counts, CountsOfTasks
  <2>5. c + 1 = a + b /\ ((d = a - 1 /\ e = b) \/ (d = a /\ e = b - 1))
    BY <2>1, <2>3
  <2> HIDE DEF a, b, c, d, e
  <2>6. c = d + e
    BY <2>2, <2>4, <2>5
  <2> QED
    BY <2>6 DEF c, d, e
<1>19. Counted'
  <2>1. t # "ctrl" /\ t # "mc" /\ t # "mc_io"
    BY <1>6, <1>10, Sides
  <2>2. /\ routing' = "none" /\ credit'["ctrl"] = Len(saRx'["top"]) + Len(saRx'["bottom"])
        /\ credit'["mc"] = credit["mc"] /\ credit'["mc_io"] = credit["mc_io"]
    BY <2>1, <1>2, <1>9, <1>18, Tasks
  <2>3. CASE q = "top"
    <3>1. credit'["io_up"] = credit["io_up"] + 1 /\ credit'["io_down"] = credit["io_down"]
      BY <2>3, <1>9, <1>10, Tasks
    <3>2. Len(saTx'["top"]) = Len(saTx["top"]) + 1 /\ saTx'["bottom"] = saTx["bottom"]
      BY <2>3, <1>7, <1>12, Sides
    <3>3. /\ ~upBusy' => credit'["io_up"] = Len(saTx'["top"])
          /\ upBusy' => credit'["io_up"] + 1 = Len(saTx'["top"])
      <4>1. /\ ~upBusy => credit["io_up"] = Len(saTx["top"])
            /\ upBusy => credit["io_up"] + 1 = Len(saTx["top"])
        BY DEF IInv, Counted
      <4>2. upBusy' = upBusy
        BY <1>1
      <4> QED
        BY <4>1, <4>2, <3>1, <3>2
    <3> QED
      BY <2>2, <3>1, <3>2, <3>3, <1>1 DEF IInv, Counted
  <2>4. CASE q = "bottom"
    <3>1. credit'["io_down"] = credit["io_down"] + 1 /\ credit'["io_up"] = credit["io_up"]
      BY <2>4, <1>9, <1>10, Tasks
    <3>2. Len(saTx'["bottom"]) = Len(saTx["bottom"]) + 1 /\ saTx'["top"] = saTx["top"]
      BY <2>4, <1>7, <1>12, Sides
    <3>3. credit'["io_down"] = Len(saTx'["bottom"])
      BY <3>1, <3>2 DEF IInv, Counted
    <3> QED
      BY <2>2, <3>1, <3>2, <3>3, <1>1 DEF IInv, Counted
  <2> QED
    BY <2>3, <2>4, <1>6, Sides
<1>20. PausesAreSafe'
  <2>1. upBusy => saTx'["top"] # <<>>
    <3>1. CASE q = "top"
      <4>1. Len(saTx'["top"]) = Len(saTx["top"]) + 1
        BY <3>1, <1>7, <1>12
      <4>2. Len(saTx'["top"]) # 0
        BY <4>1, Counts
      <4> QED
        BY <4>2, <1>14, LenFacts
    <3>2. CASE q # "top"
      BY <3>2, <1>12, Sides DEF IInv, PausesAreSafe
    <3> QED
      BY <3>1, <3>2
  <2> QED
    BY <2>1, <1>1, <1>2 DEF IInv, PausesAreSafe
<1>21. Reserved'
  <2>1. \A r \in Side : Len(saTx'[r]) <= QueueSize
    <3>1. Len(saTx["top"]) < QueueSize /\ Len(saTx["bottom"]) < QueueSize
      BY <1>2, Sides DEF IInv, Reserved
    <3>2. \A m, n \in Nat : m < n => m <= n /\ m + 1 <= n
      OBVIOUS
    <3>3. \A r \in Side : Len(saTx'[r]) = Len(saTx[r]) \/ Len(saTx'[r]) = Len(saTx[r]) + 1
      BY <1>7, <1>12
    <3> QED
      BY <3>1, <3>2, <3>3, Sides, Counts, Constants
  <2>2. Len(saRx'["top"]) <= QueueSize /\ Len(saRx'["bottom"]) + Len(mcUp) <= QueueSize
    <3>1. Len(saRx["top"]) <= QueueSize /\ Len(saRx["bottom"]) + Len(mcUp) <= QueueSize
      BY DEF IInv, Reserved
    <3>2. \A a, b \in Nat : (b = a \/ b = a - 1) => b <= a
      OBVIOUS
    <3>3. \A r \in Side : Len(saRx'[r]) = Len(saRx[r]) \/ Len(saRx'[r]) = Len(saRx[r]) - 1
      BY <1>5, <1>11
    <3>4. Len(saRx'["top"]) <= Len(saRx["top"]) /\ Len(saRx'["bottom"]) <= Len(saRx["bottom"])
      BY <3>2, <3>3, <1>16, Counts, Sides
    <3>5. \A a, b, m, n \in Nat : b <= a => (a <= n => b <= n) /\ (a + m <= n => b + m <= n)
      OBVIOUS
    <3> QED
      BY <3>1, <3>4, <3>5, <1>16, Counts, Constants
  <2> QED
    BY <2>1, <2>2, <1>1, <1>2 DEF IInv, Reserved, Inflight
<1> QED
  BY <1>15, <1>19, <1>20, <1>21 DEF IInv

LEMMA Puts ==
  ASSUME NEW p \in South \cup LoadPacket \cup WritePacket, p.type = "mc_load"
  PROVE  Put(p) \in North
BY DEF South, LoadPacket, WritePacket, North, Put

\* A reply joins mcTx and its task is advanced.
LEMMA ReplyFacts ==
  ASSUME IInv, NEW x \in North, mcTx' = Append(mcTx, x), Advance("mc_io")
  PROVE  /\ mcTx' \in Seq(North) /\ Len(mcTx') = Len(mcTx) + 1
         /\ credit' \in [Task -> Nat] /\ credit'["mc_io"] = Len(mcTx')
         /\ \A u \in Task : u # "mc_io" => credit'[u] = credit[u]
<1>1. mcTx' \in Seq(North) /\ Len(mcTx') = Len(mcTx) + 1
  BY Counts, AppendFacts
<1>2. /\ credit' \in [Task -> Nat] /\ credit'["mc_io"] = credit["mc_io"] + 1
      /\ \A u \in Task : u # "mc_io" => credit'[u] = credit[u]
  BY Advanced, Tasks
<1>3. credit["mc_io"] = Len(mcTx)
  BY DEF IInv, Counted
<1> QED
  BY <1>1, <1>2, <1>3

LEMMA AccessDirectlyStep ==
  ASSUME IInv, NEW p, AccessDirectly(p)
  PROVE  IInv'
<1>1. UNCHANGED <<DRAMSim, saRx, nextQueue, routing, saTx, upBusy, down, pending, mcUp,
                  swRx, flushing, loads>>
  BY DEF AccessDirectly, sysAgent, ring
<1>2. Serves(p) /\ mcBusy' = FALSE /\ mcRx' = Tail(mcRx)
  BY DEF AccessDirectly, Serves
<1>3. /\ mcRx' \in Seq(South) /\ Len(mcRx') = Len(mcRx) - 1 /\ credit["mc"] = Len(mcRx')
      /\ p \in South /\ Inflight < MaxInflight
  BY <1>2, ServeFacts
<1>4. PausesAreSafe'
  BY <1>1, <1>2 DEF IInv, PausesAreSafe
<1>5. Len(mcRx') + Len(down') <= QueueSize
  BY <1>1, <1>3, Counts, Constants DEF IInv, Reserved
<1>6. CASE p.type = "mc_load" /\ mcTx' = Append(mcTx, Put(p)) /\ Advance("mc_io") /\ flush' = flush
  <2>1. /\ mcTx' \in Seq(North) /\ Len(mcTx') = Len(mcTx) + 1
        /\ credit' \in [Task -> Nat] /\ credit'["mc_io"] = Len(mcTx')
        /\ \A u \in Task : u # "mc_io" => credit'[u] = credit[u]
    BY <1>3, <1>6, Puts, ReplyFacts
  <2>2. Types'
    BY <1>1, <1>2, <1>3, <1>6, <2>1 DEF IInv, Types
  <2>3. Counted'
    BY <1>1, <1>2, <1>3, <2>1, Tasks DEF IInv, Counted
  <2>4. Inflight' <= MaxInflight
    BY <1>1, <1>3, <2>1, Counts, Constants DEF Inflight
  <2>5. Reserved'
    BY <1>1, <1>2, <1>5, <2>4 DEF IInv, Reserved
  <2> QED
    BY <1>4, <2>2, <2>3, <2>5 DEF IInv
<1>7. CASE /\ mcTx' = mcTx /\ credit' = credit
           /\ IF p.type = "flush_ack" THEN Uncount(p.core) ELSE UNCHANGED flush
  <2>1. flush' \in [Core -> Int]
    BY <1>7, UncountType DEF IInv, Types
  <2>2. Types'
    BY <1>1, <1>2, <1>3, <1>7, <2>1 DEF IInv, Types
  <2>3. Counted'
    BY <1>1, <1>2, <1>3, <1>7 DEF IInv, Counted
  <2>4. Reserved'
    BY <1>1, <1>2, <1>5, <1>7 DEF IInv, Reserved, Inflight
  <2> QED
    BY <1>4, <2>2, <2>3, <2>4 DEF IInv
<1> QED
  BY <1>6, <1>7 DEF AccessDirectly

LEMMA ReadCompleteStep ==
  ASSUME IInv, NEW i \in DOMAIN pending, ReadComplete(i)
  PROVE  IInv'
<1>1. UNCHANGED <<DRAMSim, saRx, nextQueue, routing, saTx, upBusy, down, mcRx, mcBusy, mcUp,
                  swRx, flushing, loads, flush>>
  BY DEF ReadComplete, sysAgent, ring
<1>2. /\ pending[i].type = "mc_load" /\ mcTx' = Append(mcTx, Put(pending[i]))
      /\ pending' = RemoveAt(pending, i) /\ Advance("mc_io")
  BY DEF ReadComplete
<1>3. pending[i] \in LoadPacket \cup WritePacket
  BY Counts
<1>4. pending' \in Seq(LoadPacket \cup WritePacket) /\ Len(pending') = Len(pending) - 1
  BY <1>2, Counts, RemoveAtFacts
<1>5. Put(pending[i]) \in North
  BY <1>2, <1>3, Puts
<1>6. /\ mcTx' \in Seq(North) /\ Len(mcTx') = Len(mcTx) + 1
      /\ credit' \in [Task -> Nat] /\ credit'["mc_io"] = Len(mcTx')
      /\ \A u \in Task : u # "mc_io" => credit'[u] = credit[u]
  BY <1>2, <1>5, ReplyFacts
<1>7. Types'
  BY <1>1, <1>4, <1>6 DEF IInv, Types
<1>8. Counted'
  BY <1>1, <1>6, Tasks DEF IInv, Counted
<1>9. PausesAreSafe'
  BY <1>1 DEF IInv, PausesAreSafe
<1>10. Inflight' = Inflight
  BY <1>4, <1>6, Counts DEF Inflight
<1>11. Reserved'
  BY <1>1, <1>10 DEF IInv, Reserved
<1> QED
  BY <1>7, <1>8, <1>9, <1>11 DEF IInv

LEMMA WriteCompleteStep ==
  ASSUME IInv, NEW i \in DOMAIN pending, WriteComplete(i)
  PROVE  IInv'
<1>1. UNCHANGED <<DRAMSim, saRx, nextQueue, routing, saTx, upBusy, down, mcRx, mcBusy, mcTx, mcUp,
                  swRx, flushing, loads, credit>>
  BY DEF WriteComplete, sysAgent, ring
<1>2. /\ pending' = RemoveAt(pending, i)
      /\ IF pending[i].type = "flush_ack" THEN Uncount(pending[i].core) ELSE UNCHANGED flush
  BY DEF WriteComplete
<1>3. pending' \in Seq(LoadPacket \cup WritePacket) /\ Len(pending') = Len(pending) - 1
  BY <1>2, Counts, RemoveAtFacts
<1>4. flush' \in [Core -> Int]
  BY <1>2, UncountType DEF IInv, Types
<1>5. Types'
  BY <1>1, <1>3, <1>4 DEF IInv, Types
<1>6. Counted' /\ PausesAreSafe'
  BY <1>1 DEF IInv, Counted, PausesAreSafe
<1>7. Inflight' = Inflight - 1 /\ Inflight \in Nat
  BY <1>1, <1>3, Counts DEF Inflight
<1>8. Inflight' <= MaxInflight /\ (mcBusy' => Inflight' < MaxInflight)
  BY <1>1, <1>7, Constants DEF IInv, Reserved
<1>9. Reserved'
  BY <1>1, <1>8 DEF IInv, Reserved
<1> QED
  BY <1>5, <1>6, <1>9 DEF IInv

LEMMA StartReplyStep ==
  ASSUME IInv, StartReply
  PROVE  IInv'
<1> DEFINE p == Head(mcTx)
           rest == Tail(mcTx)
<1>1. UNCHANGED <<DRAMSim, saRx, nextQueue, routing, saTx, upBusy, down, mcRx, mcBusy, pending,
                  swRx, flushing, loads, flush>>
  BY DEF StartReply, sysAgent, ring
<1>2. /\ mcUp = <<>> /\ Len(saRx["bottom"]) < QueueSize /\ Await("mc_io")
      /\ mcUp' = <<p>> /\ mcTx' = rest
  BY DEF StartReply
<1>3. /\ credit' \in [Task -> Nat] /\ credit["mc_io"] > 0
      /\ credit'["mc_io"] = credit["mc_io"] - 1
      /\ \A t \in Task : t # "mc_io" => credit'[t] = credit[t]
  BY <1>2, Awaited, Tasks
<1>4. credit["mc_io"] = Len(mcTx)
  BY DEF IInv, Counted
<1>5. Len(mcTx) > 0
  BY <1>3, <1>4
<1>6. p \in North /\ rest \in Seq(North) /\ Len(rest) = Len(mcTx) - 1
  BY <1>5, HeadFacts, Counts
<1> HIDE DEF p, rest
<1>7. mcUp' \in Seq(North) /\ Len(mcUp') = 1
  BY <1>2, <1>6
<1>8. Types'
  BY <1>1, <1>2, <1>3, <1>6, <1>7 DEF IInv, Types
<1>9. Counted'
  <2>1. credit'["mc_io"] = Len(mcTx')
    BY <1>2, <1>3, <1>4, <1>6, Counts
  <2> QED
    BY <2>1, <1>1, <1>3, Tasks DEF IInv, Counted
<1>10. PausesAreSafe'
  BY <1>1 DEF IInv, PausesAreSafe
<1>11. Reserved'
  <2>1. Len(saRx'["bottom"]) + Len(mcUp') <= QueueSize
    BY <1>1, <1>2, <1>7, Counts, Constants
  <2>2. Inflight' = Inflight - 1 /\ Inflight \in Nat
    BY <1>1, <1>2, <1>6, Counts DEF Inflight
  <2>3. Inflight' <= MaxInflight /\ (mcBusy' => Inflight' < MaxInflight)
    BY <1>1, <2>2, Constants DEF IInv, Reserved
  <2> QED
    BY <2>1, <2>3, <1>1, <1>7 DEF IInv, Reserved
<1> QED
  BY <1>8, <1>9, <1>10, <1>11 DEF IInv

LEMMA FinishReplyStep ==
  ASSUME IInv, FinishReply
  PROVE  IInv'
<1> DEFINE s == saRx["bottom"] \o mcUp
<1>1. UNCHANGED <<DRAMSim, nextQueue, routing, saTx, upBusy, down, mcRx, mcBusy, pending, mcTx,
                  swRx, flushing, loads, flush>>
  BY DEF FinishReply, ring
<1>2. mcUp # <<>> /\ mcUp' = <<>> /\ saRx' = [saRx EXCEPT !["bottom"] = s] /\ Advance("ctrl")
  BY DEF FinishReply
<1>3. /\ credit' \in [Task -> Nat] /\ credit'["ctrl"] = credit["ctrl"] + 1
      /\ \A t \in Task : t # "ctrl" => credit'[t] = credit[t]
  BY <1>2, Advanced, Tasks
<1>4. Len(mcUp) = 1
  <2>1. Len(mcUp) <= 1
    BY DEF IInv, Reserved
  <2>2. mcUp \in Seq(North) /\ mcUp # <<>>
    BY <1>2 DEF IInv, Types
  <2>3. Len(mcUp) \in Nat /\ Len(mcUp) # 0
    BY <2>2, LenFacts
  <2> QED
    BY <2>1, <2>3, One
<1>5. s \in Seq(North) /\ Len(s) = Len(saRx["bottom"]) + 1
  BY <1>4, JoinFacts DEF IInv, Types
<1> HIDE DEF s
<1>6. mcUp' \in Seq(North) /\ Len(mcUp') = 0
  BY <1>2
<1>7. /\ saRx' \in [{"top", "bottom"} -> Seq(South \cup North)]
      /\ saRx'["bottom"] = s /\ saRx'["top"] = saRx["top"]
  BY <1>2, <1>5, Wider, Counts
<1>8. Types'
  BY <1>1, <1>3, <1>5, <1>6, <1>7 DEF IInv, Types, Side
<1>9. Counted'
  <2>1. Len(saRx'["bottom"]) = Len(saRx["bottom"]) + 1 /\ saRx'["top"] = saRx["top"]
    BY <1>5, <1>7
  <2>2. credit'["ctrl"] = credit["ctrl"] + 1 /\ routing' = routing
    BY <1>1, <1>3
  <2>3. /\ routing' = "none" => credit'["ctrl"] = Len(saRx'["top"]) + Len(saRx'["bottom"])
        /\ routing' # "none" => credit'["ctrl"] + 1 = Len(saRx'["top"]) + Len(saRx'["bottom"])
    <3>1. /\ routing = "none" => credit["ctrl"] = Len(saRx["top"]) + Len(saRx["bottom"])
          /\ routing # "none" => credit["ctrl"] + 1 = Len(saRx["top"]) + Len(saRx["bottom"])
      BY DEF IInv, Counted
    <3> DEFINE a == Len(saRx["top"])
               b == Len(saRx["bottom"])
               c == credit["ctrl"]
    <3>2. a \in Nat /\ b \in Nat /\ c \in Nat
      BY Counts, CountsOfTasks
    <3> HIDE DEF a, b, c
    <3>3. (c = a + b => c + 1 = a + (b + 1)) /\ (c + 1 = a + b => c + 1 + 1 = a + (b + 1))
      BY <3>2
    <3> QED
      BY <2>1, <2>2, <3>1, <3>3 DEF a, b, c
  <2> QED
    BY <2>3, <1>1, <1>3, Tasks DEF IInv, Counted
<1>10. PausesAreSafe'
  <2>1. saRx'["bottom"] # <<>>
    <3>1. Len(saRx'["bottom"]) # 0 /\ saRx'["bottom"] \in Seq(North)
      BY <1>5, <1>7, Counts
    <3> QED
      BY <3>1, LenFacts
  <2>2. routing # "none" => saRx'[routing] # <<>>
    BY <2>1, <1>7, Sides DEF IInv, Types, PausesAreSafe
  <2> QED
    BY <2>2, <1>1 DEF IInv, PausesAreSafe
<1>11. Reserved'
  <2>1. Len(saRx'["bottom"]) + Len(mcUp') <= QueueSize
    BY <1>2, <1>4, <1>5, <1>6, <1>7, Counts, Constants DEF IInv, Reserved
  <2> QED
    BY <2>1, <1>1, <1>6, <1>7 DEF IInv, Reserved, Inflight
<1> QED
  BY <1>8, <1>9, <1>10, <1>11 DEF IInv

LEMMA SendLoadStep ==
  ASSUME IInv, SendLoad
  PROVE  IInv'
<1>1. PICK p \in LoadPacket : Enter(p) /\ loads' = loads \cup {p.id} /\ flushing' = flushing
  BY DEF SendLoad
<1>2. p \in South /\ p.id \in Load
  BY DEF South, LoadPacket
<1>3. loads' \in SUBSET Load /\ flushing' \in [Core -> Nat]
  BY <1>1, <1>2 DEF IInv, Types
<1> QED
  BY <1>1, <1>2, <1>3, EnterStep

LEMMA SendStoreStep ==
  ASSUME IInv, SendStore
  PROVE  IInv'
<1>1. PICK t \in Written : /\ Enter([type |-> "mc_store", tag |-> t])
                           /\ flushing' = flushing /\ loads' = loads
  BY DEF SendStore
<1>2. [type |-> "mc_store", tag |-> t] \in South
  BY MemoryPathAssumption DEF South, WritePacket
<1>3. loads' \in SUBSET Load /\ flushing' \in [Core -> Nat]
  BY <1>1 DEF IInv, Types
<1> QED
  BY <1>1, <1>2, <1>3, EnterStep

LEMMA SendFlushAckStep ==
  ASSUME IInv, SendFlushAck
  PROVE  IInv'
<1>1. PICK c \in Core, t \in Written, d \in BOOLEAN :
        /\ flushing[c] > 0
        /\ Enter([type |-> "flush_ack", tag |-> t, core |-> c, dirty |-> d])
        /\ flushing' = [flushing EXCEPT ![c] = @ - 1] /\ loads' = loads
  BY DEF SendFlushAck
<1>2. [type |-> "flush_ack", tag |-> t, core |-> c, dirty |-> d] \in South
  <2>1. t \in Tag
    BY MemoryPathAssumption
  <2>2. CASE d = TRUE
    BY <2>1, <2>2 DEF South, WritePacket
  <2>3. CASE d = FALSE
    BY <2>1, <2>3 DEF South
  <2> QED
    BY <2>2, <2>3
<1>3. flushing' \in [Core -> Nat]
  <2>1. flushing \in [Core -> Nat]
    BY DEF IInv, Types
  <2>2. flushing[c] \in Nat /\ flushing[c] - 1 \in Nat
    BY <1>1, <2>1
  <2> QED
    BY <1>1, <2>1, <2>2
<1>4. loads' \in SUBSET Load
  BY <1>1 DEF IInv, Types
<1> QED
  BY <1>1, <1>2, <1>3, <1>4, EnterStep

-----------------------------------------------------------------------------
(* The invariant of the specification *)

LEMMA InitIInv == Init => IInv
<1> SUFFICES ASSUME Init PROVE IInv
  OBVIOUS
<1>1. \A S : <<>> \in Seq(S)
  OBVIOUS
<1>2. Types
  <2>1. /\ saRx \in [Side -> Seq(South \cup North)] /\ saTx \in [Side -> Seq(South \cup North)]
        /\ saRx["top"] = <<>> /\ saRx["bottom"] = <<>>
        /\ saTx["top"] = <<>> /\ saTx["bottom"] = <<>>
    BY <1>1 DEF Init, Side
  <2>2. nextQueue \in Side /\ routing \in Side \cup {"none"}
    BY DEF Init, Side
  <2>3. flush \in [Core -> Int] /\ flushing \in [Core -> Nat] /\ credit \in [Task -> Nat]
    BY DEF Init
  <2>4. /\ DRAMSim \in BOOLEAN /\ upBusy = FALSE /\ mcBusy = FALSE /\ loads = {}
        /\ down = <<>> /\ mcRx = <<>> /\ pending = <<>> /\ mcTx = <<>> /\ mcUp = <<>> /\ swRx = <<>>
    BY DEF Init
  <2> QED
    BY <1>1, <2>1, <2>2, <2>3, <2>4 DEF Types
<1>3. Len(<<>>) = 0 /\ \A n \in Nat : 0 <= n /\ 0 + 0 <= n /\ 0 <= n + 1
  OBVIOUS
<1>4. Counted
  BY <1>3 DEF Init, Counted, Side, Task
<1>5. PausesAreSafe
  BY DEF Init, PausesAreSafe
<1>6. Reserved
  BY <1>3, Constants DEF Init, Reserved, Inflight, Side
<1> QED
  BY <1>2, <1>4, <1>5, <1>6 DEF IInv

LEMMA NextIInv == IInv /\ [Next]_vars => IInv'
<1> SUFFICES ASSUME IInv, [Next]_vars PROVE IInv'
  OBVIOUS
<1>1. CASE SendLoad \/ SendStore \/ SendFlushAck
  BY <1>1, SendLoadStep, SendStoreStep, SendFlushAckStep
<1>2. CASE (\E c \in Core : Flush(c)) \/ Deliver
  BY <1>2, FlushStep, DeliverStep
<1>3. CASE SelectMessage \/ Route
  BY <1>3, SelectStep, RouteStep
<1>4. CASE StartUp \/ FinishUp \/ StartDown \/ FinishDown
  BY <1>4, StartUpStep, FinishUpStep, StartDownStep, FinishDownStep
<1>5. CASE StartAccess
  BY <1>5, StartAccessStep
<1>6. CASE Served
  BY <1>6, EndCleanFlushStep, AddTransactionStep, AccessDirectlyStep DEF Served
<1>7. CASE Refused
  BY <1>7, RefuseTransactionStep DEF Refused
<1>8. CASE Completed
  BY <1>8, ReadCompleteStep, WriteCompleteStep DEF Completed
<1>9. CASE StartReply \/ FinishReply
  BY <1>9, StartReplyStep, FinishReplyStep
<1>10. CASE UNCHANGED vars
  <2>1. UNCHANGED <<DRAMSim, saRx, nextQueue, routing, saTx, upBusy, down, mcRx, mcBusy, pending,
                    mcTx, mcUp, swRx, flushing, loads, credit, flush>>
    BY <1>10 DEF vars, sysAgent, memCtrl, ring
  <2>2. Types'
    BY <2>1 DEF IInv, Types
  <2> QED
    BY <2>1, <2>2, QuietStep
<1> QED
  BY <1>1, <1>2, <1>3, <1>4, <1>5, <1>6, <1>7, <1>8, <1>9, <1>10 DEF Next

LEMMA Invariance == Spec => []IInv
BY InitIInv, NextIInv, PTL DEF Spec

\* Every packet in a queue has the advance that wakes its task, and no task is
\* woken for a packet that is not there (the event counts of the five tasks).
THEOREM EveryPacketIsAwaited == Spec => []Credits
<1>1. IInv => Credits
  <2> SUFFICES ASSUME IInv PROVE Credits
    OBVIOUS
  <2>1. /\ credit["ctrl"] + 0 = credit["ctrl"] /\ credit["io_up"] + 0 = credit["io_up"]
        /\ credit["mc"] + 0 = credit["mc"]
    BY CountsOfTasks
  <2>2. credit["ctrl"] + (IF routing = "none" THEN 0 ELSE 1)
          = Len(saRx["top"]) + Len(saRx["bottom"])
    BY <2>1 DEF IInv, Counted
  <2>3. credit["io_up"] + (IF upBusy THEN 1 ELSE 0) = Len(saTx["top"])
    BY <2>1 DEF IInv, Counted
  <2>4. credit["mc"] + (IF mcBusy THEN 1 ELSE 0) = Len(mcRx)
    BY <2>1 DEF IInv, Counted
  <2> QED
    BY <2>2, <2>3, <2>4 DEF IInv, Counted, Credits
<1> QED
  BY <1>1, Invariance, PTL

\* No task finds its queue empty after its pause (the asserted list heads).
THEOREM PausesSafe == Spec => []PausesAreSafe
<1>1. IInv => PausesAreSafe
  BY DEF IInv
<1> QED
  BY <1>1, Invariance, PTL

\* Requests and replies never meet in a queue, nor does a clean flush reach the
\* DRAM (the queues of sys-agent.c and mem-ctrl.c, the list of dram.c), and no
\* queue passes its size: a check before a pause is enough for the move after it,
\* because each queue is filled by one task only (the Tx queue of the system
\* agent by the task that looked at both).
THEOREM PathTypes == Spec => []TypeOK
<1>1. IInv => QueueBounds
  <2> SUFFICES ASSUME IInv PROVE QueueBounds
    OBVIOUS
  <2>1. \A a, b, n \in Nat : a + b <= n => a <= n
    OBVIOUS
  <2>2. Len(saRx["bottom"]) + Len(mcUp) <= QueueSize /\ Len(mcRx) + Len(down) <= QueueSize
    BY DEF IInv, Reserved
  <2>3. Len(saRx["bottom"]) <= QueueSize /\ Len(mcRx) <= QueueSize
    BY <2>1, <2>2, Counts, Constants
  <2> QED
    BY <2>3, Sides DEF IInv, Reserved, QueueBounds
<1>2. IInv => TypeOK
  BY <1>1 DEF IInv, TypeOK
<1> QED
  BY <1>2, Invariance, PTL

-----------------------------------------------------------------------------
(* The packets of a kind *)

GoingSouth(P) == In(mcRx, P) + In(down, P) + In(saTx["bottom"], P) + In(saRx["top"], P)
GoingNorth(P) == In(swRx, P) + In(saTx["top"], P) + In(saRx["bottom"], P) + In(mcUp, P) + In(mcTx, P)
Held(P) == GoingSouth(P) + In(pending, P) + GoingNorth(P)

LEMMA InNats ==
  ASSUME Types, NEW P
  PROVE  /\ In(mcRx, P) \in Nat /\ In(down, P) \in Nat /\ In(saTx["bottom"], P) \in Nat
         /\ In(saRx["top"], P) \in Nat /\ In(pending, P) \in Nat /\ In(swRx, P) \in Nat
         /\ In(saTx["top"], P) \in Nat /\ In(saRx["bottom"], P) \in Nat /\ In(mcUp, P) \in Nat
         /\ In(mcTx, P) \in Nat
<1>1. /\ mcRx \in Seq(South) /\ down \in Seq(South) /\ saTx["bottom"] \in Seq(South)
      /\ saRx["top"] \in Seq(South) /\ pending \in Seq(LoadPacket \cup WritePacket)
      /\ swRx \in Seq(North) /\ saTx["top"] \in Seq(North) /\ saRx["bottom"] \in Seq(North)
      /\ mcUp \in Seq(North) /\ mcTx \in Seq(North)
  BY DEF Types
<1> QED
  BY <1>1, InType

LEMMA HeldAfterEnter ==
  ASSUME IInv, NEW p \in South, Enter(p), NEW P
  PROVE  Held(P)' = Held(P) + Bit(p \in P)
<1>1. saRx' = [saRx EXCEPT !["top"] = Append(saRx["top"], p)]
  BY DEF Enter
<1>2. saRx["top"] \in Seq(South)
  BY DEF IInv, Types
<1>3. In(Append(saRx["top"], p), P) = In(saRx["top"], P) + Bit(p \in P)
  BY <1>2, InAppend
<1>4. saRx'["top"] = Append(saRx["top"], p) /\ saRx'["bottom"] = saRx["bottom"]
  BY <1>1, Counts
<1>5. UNCHANGED <<saTx, down, mcRx, pending, mcTx, mcUp, swRx>>
  BY DEF Enter, memCtrl
<1>6. Bit(p \in P) \in Nat
  BY DEF Bit
<1> DEFINE b == Bit(p \in P)
<1>7. /\ GoingSouth(P)' = In(mcRx, P) + In(down, P) + In(saTx["bottom"], P) + (In(saRx["top"], P) + b)
      /\ GoingNorth(P)' = GoingNorth(P) /\ In(pending, P)' = In(pending, P)
  BY <1>3, <1>4, <1>5 DEF GoingSouth, GoingNorth
<1>8. b \in Nat
  BY DEF Bit
<1> HIDE DEF b
<1>9. GoingSouth(P)' = GoingSouth(P) + b
  BY <1>7, <1>8, InNats DEF GoingSouth, IInv
<1>10. GoingSouth(P) \in Nat /\ GoingNorth(P) \in Nat /\ In(pending, P) \in Nat
  BY InNats DEF GoingSouth, GoingNorth, IInv
<1>11. Held(P)' = Held(P) + b
  BY <1>7, <1>8, <1>9, <1>10 DEF Held
<1> QED
  BY <1>11 DEF b

LEMMA HeldType ==
  ASSUME Types, NEW P
  PROVE  GoingSouth(P) \in Nat /\ GoingNorth(P) \in Nat /\ In(pending, P) \in Nat /\ Held(P) \in Nat
<1>1. GoingSouth(P) \in Nat /\ GoingNorth(P) \in Nat /\ In(pending, P) \in Nat
  BY InNats DEF GoingSouth, GoingNorth
<1> QED
  BY <1>1 DEF Held

LEMMA HeldTypeNext ==
  ASSUME Types', NEW P
  PROVE  Held(P)' \in Nat
<1>1. /\ mcRx' \in Seq(South) /\ down' \in Seq(South) /\ saTx'["bottom"] \in Seq(South)
      /\ saRx'["top"] \in Seq(South) /\ pending' \in Seq(LoadPacket \cup WritePacket)
      /\ swRx' \in Seq(North) /\ saTx'["top"] \in Seq(North) /\ saRx'["bottom"] \in Seq(North)
      /\ mcUp' \in Seq(North) /\ mcTx' \in Seq(North)
  BY DEF Types
<1>2. /\ In(mcRx', P) \in Nat /\ In(down', P) \in Nat /\ In(saTx'["bottom"], P) \in Nat
      /\ In(saRx'["top"], P) \in Nat /\ In(pending', P) \in Nat /\ In(swRx', P) \in Nat
      /\ In(saTx'["top"], P) \in Nat /\ In(saRx'["bottom"], P) \in Nat /\ In(mcUp', P) \in Nat
      /\ In(mcTx', P) \in Nat
  BY <1>1, InType
<1>3. GoingSouth(P)' \in Nat /\ GoingNorth(P)' \in Nat
  BY <1>2 DEF GoingSouth, GoingNorth
<1> QED
  BY <1>2, <1>3 DEF Held

LEMMA HeldQuiet ==
  ASSUME UNCHANGED <<saRx, saTx, down, mcRx, pending, mcTx, mcUp, swRx>>, NEW P
  PROVE  Held(P)' = Held(P)
BY DEF Held, GoingSouth, GoingNorth

LEMMA HeldAfterDeliver ==
  ASSUME IInv, Deliver, NEW P
  PROVE  Held(P) = Held(P)' + Bit(Head(swRx) \in P)
<1> DEFINE b == Bit(Head(swRx) \in P)
           r == In(Tail(swRx), P)
<1>1. swRx \in Seq(North) /\ swRx # <<>> /\ swRx' = Tail(swRx)
  BY DEF IInv, Types, Deliver
<1>2. In(swRx, P) = b + r /\ r \in Nat /\ b \in Nat
  <2>1. Tail(swRx) \in Seq(North)
    BY <1>1
  <2> QED
    BY <1>1, <2>1, InTail, InType DEF Bit
<1>3. UNCHANGED <<saRx, saTx, down, mcRx, pending, mcTx, mcUp>>
  BY DEF Deliver, sysAgent, memCtrl
<1>4. /\ GoingNorth(P)' = r + In(saTx["top"], P) + In(saRx["bottom"], P) + In(mcUp, P) + In(mcTx, P)
      /\ GoingSouth(P)' = GoingSouth(P) /\ In(pending, P)' = In(pending, P)
  BY <1>1, <1>3 DEF GoingSouth, GoingNorth
<1> HIDE DEF b, r
<1>5. GoingNorth(P) = GoingNorth(P)' + b
  BY <1>2, <1>4, InNats DEF GoingNorth, IInv
<1>6. GoingNorth(P)' \in Nat
  BY <1>2, <1>4, InNats DEF IInv
<1>7. Held(P) = Held(P)' + b
  BY <1>2, <1>4, <1>5, <1>6, HeldType DEF Held, IInv
<1> QED
  BY <1>7 DEF b

\* The tasks move packets; none appears or disappears.
LEMMA HeldAfterRoute ==
  ASSUME IInv, Route, NEW P
  PROVE  Held(P)' = Held(P)
<1> DEFINE p == Head(saRx[routing])
           b == Bit(p \in P)
           r == In(Tail(saRx[routing]), P)
<1>1. /\ routing # "none"
      /\ saRx' = [saRx EXCEPT ![routing] = Tail(saRx[routing])]
      /\ saTx' = [saTx EXCEPT ![SideOf(p)] = Append(saTx[SideOf(p)], p)]
      /\ UNCHANGED <<down, mcRx, pending, mcTx, mcUp, swRx>>
  BY DEF Route, memCtrl, ring
<1>2. routing \in Side /\ saRx[routing] # <<>>
  BY <1>1 DEF IInv, Types, PausesAreSafe
<1>3. saRx[routing] \in Seq(South \cup North)
  BY <1>2 DEF IInv, Types
<1>4. In(saRx[routing], P) = b + r /\ r \in Nat /\ b \in Nat
  <2>1. Tail(saRx[routing]) \in Seq(South \cup North)
    BY <1>2, <1>3
  <2> QED
    BY <1>2, <1>3, <2>1, InTail, InType DEF Bit
<1>5. /\ saRx \in [{"top", "bottom"} -> Seq(South \cup North)]
      /\ saTx \in [{"top", "bottom"} -> Seq(South \cup North)]
  BY Counts
<1>6. p \in South \cup North
  BY <1>2, <1>3
<1>7. CASE routing = "top"
  <2>1. p \in South
    <3>1. saRx["top"] \in Seq(South)
      BY DEF IInv, Types
    <3> QED
      BY <1>2, <1>7, <3>1
  <2>2. SideOf(p) = "bottom"
    BY <2>1 DEF SideOf, South, LoadPacket, WritePacket
  <2> HIDE DEF p
  <2>3. /\ saRx'["top"] = Tail(saRx[routing]) /\ saRx'["bottom"] = saRx["bottom"]
        /\ saTx'["bottom"] = Append(saTx["bottom"], p) /\ saTx'["top"] = saTx["top"]
    BY <1>1, <1>5, <1>7, <2>2
  <2>4. In(Append(saTx["bottom"], p), P) = In(saTx["bottom"], P) + b
    <3>1. saTx["bottom"] \in Seq(South \cup North)
      BY <1>5
    <3> QED
      BY <1>6, <3>1, InAppend
  <2>5. /\ GoingSouth(P)' = In(mcRx, P) + In(down, P) + (In(saTx["bottom"], P) + b) + r
        /\ GoingNorth(P)' = GoingNorth(P) /\ In(pending, P)' = In(pending, P)
    BY <1>1, <2>3, <2>4 DEF GoingSouth, GoingNorth
  <2>6. In(saRx["top"], P) = b + r
    BY <1>4, <1>7
  <2> HIDE DEF b, r
  <2>7. GoingSouth(P)' = GoingSouth(P)
    BY <1>4, <2>5, <2>6, InNats DEF GoingSouth, IInv
  <2> QED
    BY <2>5, <2>7 DEF Held
<1>8. CASE routing = "bottom"
  <2>1. p \in North
    <3>1. saRx["bottom"] \in Seq(North)
      BY DEF IInv, Types
    <3> QED
      BY <1>2, <1>8, <3>1
  <2>2. SideOf(p) = "top"
    BY <2>1 DEF SideOf, North
  <2> HIDE DEF p
  <2>3. /\ saRx'["bottom"] = Tail(saRx[routing]) /\ saRx'["top"] = saRx["top"]
        /\ saTx'["top"] = Append(saTx["top"], p) /\ saTx'["bottom"] = saTx["bottom"]
    BY <1>1, <1>5, <1>8, <2>2
  <2>4. In(Append(saTx["top"], p), P) = In(saTx["top"], P) + b
    <3>1. saTx["top"] \in Seq(South \cup North)
      BY <1>5
    <3> QED
      BY <1>6, <3>1, InAppend
  <2>5. /\ GoingNorth(P)' = In(swRx, P) + (In(saTx["top"], P) + b) + r + In(mcUp, P) + In(mcTx, P)
        /\ GoingSouth(P)' = GoingSouth(P) /\ In(pending, P)' = In(pending, P)
    BY <1>1, <2>3, <2>4 DEF GoingSouth, GoingNorth
  <2>6. In(saRx["bottom"], P) = b + r
    BY <1>4, <1>8
  <2> HIDE DEF b, r
  <2>7. GoingNorth(P)' = GoingNorth(P)
    BY <1>4, <2>5, <2>6, InNats DEF GoingNorth, IInv
  <2> QED
    BY <2>5, <2>7 DEF Held
<1> QED
  BY <1>2, <1>7, <1>8, Sides

LEMMA HeldAfterFinishUp ==
  ASSUME IInv, FinishUp, NEW P
  PROVE  Held(P)' = Held(P)
<1> DEFINE q == saTx["top"]
           p == Head(q)
           b == Bit(p \in P)
           r == In(Tail(q), P)
<1>1. /\ upBusy /\ swRx' = Append(swRx, p)
      /\ saTx' = [saTx EXCEPT !["top"] = Tail(q)]
      /\ UNCHANGED <<saRx, down, mcRx, pending, mcTx, mcUp>>
  BY DEF FinishUp, memCtrl
<1>2. q \in Seq(North) /\ q # <<>> /\ swRx \in Seq(North)
  BY <1>1 DEF IInv, Types, PausesAreSafe
<1>3. p \in North /\ Tail(q) \in Seq(North)
  BY <1>2
<1>4. In(q, P) = b + r /\ r \in Nat /\ b \in Nat
  BY <1>2, <1>3, InTail, InType DEF Bit
<1>5. saTx'["top"] = Tail(q) /\ saTx'["bottom"] = saTx["bottom"]
  BY <1>1, Counts
<1>6. In(Append(swRx, p), P) = In(swRx, P) + b
  BY <1>2, <1>3, InAppend
<1>7. /\ GoingNorth(P)' = (In(swRx, P) + b) + r + In(saRx["bottom"], P) + In(mcUp, P) + In(mcTx, P)
      /\ GoingSouth(P)' = GoingSouth(P) /\ In(pending, P)' = In(pending, P)
  BY <1>1, <1>5, <1>6 DEF GoingSouth, GoingNorth
<1>8. In(saTx["top"], P) = b + r
  BY <1>4
<1> HIDE DEF b, r, q
<1>9. GoingNorth(P)' = GoingNorth(P)
  BY <1>4, <1>7, <1>8, InNats DEF GoingNorth, IInv
<1> QED
  BY <1>7, <1>9 DEF Held

LEMMA HeldAfterStartDown ==
  ASSUME IInv, StartDown, NEW P
  PROVE  Held(P)' = Held(P)
<1> DEFINE q == saTx["bottom"]
           b == Bit(Head(q) \in P)
           r == In(Tail(q), P)
<1>1. /\ down = <<>> /\ down' = <<Head(q)>> /\ Await("io_down")
      /\ saTx' = [saTx EXCEPT !["bottom"] = Tail(q)]
      /\ UNCHANGED <<saRx, mcRx, pending, mcTx, mcUp, swRx>>
  BY DEF StartDown, memCtrl, ring
<1>2. q \in Seq(South) /\ q # <<>>
  <2>1. Len(q) > 0 /\ q \in Seq(South)
    BY <1>1, Awaited, Tasks DEF IInv, Types, Counted
  <2> QED
    BY <2>1, LenFacts
<1>3. In(q, P) = b + r /\ r \in Nat /\ b \in Nat
  <2>1. Tail(q) \in Seq(South)
    BY <1>2
  <2> QED
    BY <1>2, <2>1, InTail, InType DEF Bit
<1>4. saTx'["bottom"] = Tail(q) /\ saTx'["top"] = saTx["top"]
  BY <1>1, Counts
<1>5. In(down, P) = 0 /\ In(<<Head(q)>>, P) = b
  BY <1>1, InEmpty, InSingle
<1>6. /\ GoingSouth(P)' = In(mcRx, P) + b + r + In(saRx["top"], P)
      /\ GoingNorth(P)' = GoingNorth(P) /\ In(pending, P)' = In(pending, P)
  BY <1>1, <1>4, <1>5 DEF GoingSouth, GoingNorth
<1>7. In(saTx["bottom"], P) = b + r
  BY <1>3
<1> HIDE DEF b, r, q
<1>8. GoingSouth(P)' = GoingSouth(P)
  BY <1>3, <1>5, <1>6, <1>7, InNats DEF GoingSouth, IInv
<1> QED
  BY <1>6, <1>8 DEF Held

LEMMA HeldAfterFinishDown ==
  ASSUME IInv, FinishDown, NEW P
  PROVE  Held(P)' = Held(P)
<1>1. /\ mcRx' = mcRx \o down /\ down' = <<>>
      /\ UNCHANGED <<saRx, saTx, pending, mcTx, mcUp, swRx>>
  BY DEF FinishDown, ring
<1>2. In(mcRx \o down, P) = In(mcRx, P) + In(down, P)
  BY InConcat DEF IInv, Types
<1>3. In(<<>>, P) = 0
  BY InEmpty
<1>4. /\ GoingSouth(P)' = (In(mcRx, P) + In(down, P)) + 0 + In(saTx["bottom"], P) + In(saRx["top"], P)
      /\ GoingNorth(P)' = GoingNorth(P) /\ In(pending, P)' = In(pending, P)
  BY <1>1, <1>2, <1>3 DEF GoingSouth, GoingNorth
<1>5. GoingSouth(P)' = GoingSouth(P)
  BY <1>4, InNats DEF GoingSouth, IInv
<1> QED
  BY <1>4, <1>5 DEF Held

LEMMA HeldAfterStartReply ==
  ASSUME IInv, StartReply, NEW P
  PROVE  Held(P)' = Held(P)
<1> DEFINE b == Bit(Head(mcTx) \in P)
           r == In(Tail(mcTx), P)
<1>1. /\ mcUp = <<>> /\ mcUp' = <<Head(mcTx)>> /\ Await("mc_io") /\ mcTx' = Tail(mcTx)
      /\ UNCHANGED <<saRx, saTx, down, mcRx, pending, swRx>>
  BY DEF StartReply, sysAgent, ring
<1>2. mcTx \in Seq(North) /\ mcTx # <<>>
  <2>1. Len(mcTx) > 0 /\ mcTx \in Seq(North)
    BY <1>1, Awaited, Tasks DEF IInv, Types, Counted
  <2> QED
    BY <2>1, LenFacts
<1>3. In(mcTx, P) = b + r /\ r \in Nat /\ b \in Nat
  <2>1. Tail(mcTx) \in Seq(North)
    BY <1>2
  <2> QED
    BY <1>2, <2>1, InTail, InType DEF Bit
<1>4. In(mcUp, P) = 0 /\ In(<<Head(mcTx)>>, P) = b
  BY <1>1, InEmpty, InSingle
<1>5. /\ GoingNorth(P)' = In(swRx, P) + In(saTx["top"], P) + In(saRx["bottom"], P) + b + r
      /\ GoingSouth(P)' = GoingSouth(P) /\ In(pending, P)' = In(pending, P)
  BY <1>1, <1>4 DEF GoingSouth, GoingNorth
<1> HIDE DEF b, r
<1>6. GoingNorth(P)' = GoingNorth(P)
  BY <1>3, <1>4, <1>5, InNats DEF GoingNorth, IInv
<1> QED
  BY <1>5, <1>6 DEF Held

LEMMA HeldAfterFinishReply ==
  ASSUME IInv, FinishReply, NEW P
  PROVE  Held(P)' = Held(P)
<1>1. /\ saRx' = [saRx EXCEPT !["bottom"] = saRx["bottom"] \o mcUp] /\ mcUp' = <<>>
      /\ UNCHANGED <<saTx, down, mcRx, pending, mcTx, swRx>>
  BY DEF FinishReply, ring
<1>2. In(saRx["bottom"] \o mcUp, P) = In(saRx["bottom"], P) + In(mcUp, P)
  BY InConcat DEF IInv, Types
<1>3. In(<<>>, P) = 0
  BY InEmpty
<1>4. saRx'["bottom"] = saRx["bottom"] \o mcUp /\ saRx'["top"] = saRx["top"]
  BY <1>1, Counts
<1>5. /\ GoingNorth(P)' = In(swRx, P) + In(saTx["top"], P) + (In(saRx["bottom"], P) + In(mcUp, P)) + 0 + In(mcTx, P)
      /\ GoingSouth(P)' = GoingSouth(P) /\ In(pending, P)' = In(pending, P)
  BY <1>1, <1>2, <1>3, <1>4 DEF GoingSouth, GoingNorth
<1>6. GoingNorth(P)' = GoingNorth(P)
  BY <1>5, InNats DEF GoingNorth, IInv
<1> QED
  BY <1>5, <1>6 DEF Held

\* The memory controller takes the first packet of its queue.
LEMMA Serving ==
  ASSUME IInv, NEW p, Serves(p), NEW P
  PROVE  /\ p \in South /\ In(mcRx, P) = Bit(p \in P) + In(Tail(mcRx), P)
         /\ Bit(p \in P) \in Nat /\ In(Tail(mcRx), P) \in Nat
<1>1. mcRx \in Seq(South) /\ mcRx # <<>> /\ p = Head(mcRx)
  BY DEF IInv, Types, PausesAreSafe, Serves
<1>2. p \in South /\ Tail(mcRx) \in Seq(South)
  BY <1>1
<1>3. In(Tail(mcRx), P) \in Nat
  BY <1>2, InType
<1> QED
  BY <1>1, <1>2, <1>3, InTail DEF Bit

\* A packet that ends in the memory controller.
EndsWith(p) ==
  Serves(p) /\ mcRx' = Tail(mcRx) /\ UNCHANGED <<saRx, saTx, down, pending, mcTx, mcUp, swRx>>

LEMMA HeldAfterServe ==
  ASSUME IInv, NEW p, EndsWith(p), NEW P
  PROVE  Held(P) = Held(P)' + Bit(p \in P)
<1> DEFINE b == Bit(p \in P)
           r == In(Tail(mcRx), P)
<1>1. In(mcRx, P) = b + r /\ b \in Nat /\ r \in Nat
  BY Serving DEF EndsWith
<1>2. /\ GoingSouth(P)' = r + In(down, P) + In(saTx["bottom"], P) + In(saRx["top"], P)
      /\ GoingNorth(P)' = GoingNorth(P) /\ In(pending, P)' = In(pending, P)
  BY DEF EndsWith, GoingSouth, GoingNorth
<1> HIDE DEF b, r
<1> DEFINE south == GoingSouth(P)'
<1>3. /\ south = r + In(down, P) + In(saTx["bottom"], P) + In(saRx["top"], P)
      /\ Held(P)' = south + In(pending, P) + GoingNorth(P)
  BY <1>2 DEF Held
<1> HIDE DEF south
<1>4. GoingSouth(P) = south + b /\ south \in Nat
  BY <1>1, <1>3, InNats DEF GoingSouth, IInv
<1>5. Held(P) = Held(P)' + b
  BY <1>1, <1>3, <1>4, HeldType DEF Held, IInv
<1> QED
  BY <1>5 DEF b

\* It goes on to the DRAM.
LEMMA HeldAfterAddTransaction ==
  ASSUME IInv, NEW p, AddTransaction(p), NEW P
  PROVE  Held(P)' = Held(P)
<1> DEFINE b == Bit(p \in P)
           r == In(Tail(mcRx), P)
<1>1. /\ Serves(p) /\ p \in LoadPacket \cup WritePacket
      /\ mcRx' = Tail(mcRx) /\ pending' = Append(pending, p)
      /\ UNCHANGED <<saRx, saTx, down, mcTx, mcUp, swRx>>
  BY DEF AddTransaction, ToDRAM, sysAgent, ring
<1>2. In(mcRx, P) = b + r /\ b \in Nat /\ r \in Nat
  BY <1>1, Serving
<1>3. In(Append(pending, p), P) = In(pending, P) + b
  BY <1>1, InAppend DEF IInv, Types
<1>4. /\ GoingSouth(P)' = r + In(down, P) + In(saTx["bottom"], P) + In(saRx["top"], P)
      /\ GoingNorth(P)' = GoingNorth(P) /\ In(pending, P)' = In(pending, P) + b
  BY <1>1, <1>3 DEF GoingSouth, GoingNorth
<1> HIDE DEF b, r
<1>5. GoingSouth(P) = GoingSouth(P)' + b /\ GoingSouth(P)' \in Nat
  BY <1>2, <1>4, InNats DEF GoingSouth, IInv
<1> QED
  BY <1>2, <1>4, <1>5, HeldType DEF Held, IInv

\* P holds a request if and only if it holds its reply.
Answering(P) == \A p \in South : p.type = "mc_load" => (p \in P <=> Put(p) \in P)

\* It is answered without the DRAM.
Answers(p) ==
  /\ Serves(p) /\ p.type = "mc_load"
  /\ mcRx' = Tail(mcRx) /\ mcTx' = Append(mcTx, Put(p))
  /\ UNCHANGED <<saRx, saTx, down, pending, mcUp, swRx>>

LEMMA HeldAfterAnswer ==
  ASSUME IInv, NEW p, Answers(p), NEW P, Answering(P)
  PROVE  Held(P)' = Held(P)
<1> DEFINE b == Bit(p \in P)
           r == In(Tail(mcRx), P)
<1>1. p \in South /\ In(mcRx, P) = b + r /\ b \in Nat /\ r \in Nat
  BY Serving DEF Answers
<1>2. In(Append(mcTx, Put(p)), P) = In(mcTx, P) + b
  <2>1. Put(p) \in North /\ mcTx \in Seq(North)
    BY <1>1, Puts DEF IInv, Types, Answers
  <2>2. In(Append(mcTx, Put(p)), P) = In(mcTx, P) + Bit(Put(p) \in P)
    BY <2>1, InAppend
  <2>3. Bit(Put(p) \in P) = b
    BY <1>1 DEF Answers, Answering, Bit
  <2> QED
    BY <2>2, <2>3
<1>3. /\ GoingSouth(P)' = r + In(down, P) + In(saTx["bottom"], P) + In(saRx["top"], P)
      /\ GoingNorth(P)' = In(swRx, P) + In(saTx["top"], P) + In(saRx["bottom"], P) + In(mcUp, P)
                          + (In(mcTx, P) + b)
      /\ In(pending, P)' = In(pending, P)
  BY <1>2 DEF Answers, GoingSouth, GoingNorth
<1> HIDE DEF b, r
<1> DEFINE south == GoingSouth(P)'
           north == GoingNorth(P)'
<1>4. /\ south = r + In(down, P) + In(saTx["bottom"], P) + In(saRx["top"], P)
      /\ north = In(swRx, P) + In(saTx["top"], P) + In(saRx["bottom"], P) + In(mcUp, P) + (In(mcTx, P) + b)
      /\ Held(P)' = south + In(pending, P) + north
  BY <1>3 DEF Held
<1> HIDE DEF south, north
<1>5. GoingSouth(P) = south + b /\ south \in Nat
  BY <1>1, <1>4, InNats DEF GoingSouth, IInv
<1>6. north = GoingNorth(P) + b
  BY <1>1, <1>4, InNats DEF GoingNorth, IInv
<1> QED
  BY <1>1, <1>4, <1>5, <1>6, HeldType DEF Held, IInv

\* The DRAM completes an access.
LEMMA Completing ==
  ASSUME IInv, NEW i \in DOMAIN pending, NEW P
  PROVE  /\ pending[i] \in LoadPacket \cup WritePacket /\ pending[i] \in South
         /\ In(pending, P) = Bit(pending[i] \in P) + In(RemoveAt(pending, i), P)
         /\ Bit(pending[i] \in P) \in Nat /\ In(RemoveAt(pending, i), P) \in Nat
<1>1. pending \in Seq(LoadPacket \cup WritePacket)
  BY DEF IInv, Types
<1>2. pending[i] \in LoadPacket \cup WritePacket
  BY <1>1
<1>3. RemoveAt(pending, i) \in Seq(LoadPacket \cup WritePacket)
  BY <1>1, RemoveAtFacts
<1>4. In(RemoveAt(pending, i), P) \in Nat
  BY <1>3, InType
<1>5. In(pending, P) = Bit(pending[i] \in P) + In(RemoveAt(pending, i), P)
  BY <1>1, InRemoveAt
<1> QED
  BY <1>2, <1>4, <1>5 DEF South, Bit

LEMMA HeldAfterReadComplete ==
  ASSUME IInv, NEW i \in DOMAIN pending, ReadComplete(i), NEW P, Answering(P)
  PROVE  Held(P)' = Held(P)
<1> DEFINE p == pending[i]
           b == Bit(p \in P)
           r == In(RemoveAt(pending, i), P)
<1>1. /\ p.type = "mc_load" /\ mcTx' = Append(mcTx, Put(p)) /\ pending' = RemoveAt(pending, i)
      /\ UNCHANGED <<saRx, saTx, down, mcRx, mcUp, swRx>>
  BY DEF ReadComplete, sysAgent, ring
<1>2. p \in South /\ In(pending, P) = b + r /\ b \in Nat /\ r \in Nat
  BY Completing
<1> HIDE DEF r, p
<1>3. In(Append(mcTx, Put(p)), P) = In(mcTx, P) + b
  <2>1. Put(p) \in North /\ mcTx \in Seq(North)
    BY <1>1, <1>2, Puts DEF IInv, Types
  <2>2. In(Append(mcTx, Put(p)), P) = In(mcTx, P) + Bit(Put(p) \in P)
    BY <2>1, InAppend
  <2>3. Bit(Put(p) \in P) = b
    BY <1>1, <1>2 DEF Answering, Bit
  <2> QED
    BY <2>2, <2>3
<1>4. /\ GoingNorth(P)' = In(swRx, P) + In(saTx["top"], P) + In(saRx["bottom"], P) + In(mcUp, P)
                          + (In(mcTx, P) + b)
      /\ GoingSouth(P)' = GoingSouth(P) /\ In(pending, P)' = r
  BY <1>1, <1>3 DEF GoingSouth, GoingNorth, r
<1> HIDE DEF b
<1>5. GoingNorth(P)' = GoingNorth(P) + b
  BY <1>2, <1>4, InNats DEF GoingNorth, IInv
<1> QED
  BY <1>2, <1>4, <1>5, HeldType DEF Held, IInv

LEMMA HeldAfterWriteComplete ==
  ASSUME IInv, NEW i \in DOMAIN pending, WriteComplete(i), NEW P
  PROVE  Held(P) = Held(P)' + Bit(pending[i] \in P)
<1> DEFINE b == Bit(pending[i] \in P)
           r == In(RemoveAt(pending, i), P)
<1>1. /\ pending' = RemoveAt(pending, i)
      /\ UNCHANGED <<saRx, saTx, down, mcRx, mcTx, mcUp, swRx>>
  BY DEF WriteComplete, sysAgent, ring
<1>2. In(pending, P) = b + r /\ b \in Nat /\ r \in Nat
  BY Completing
<1>3. /\ GoingNorth(P)' = GoingNorth(P) /\ GoingSouth(P)' = GoingSouth(P) /\ In(pending, P)' = r
  BY <1>1 DEF GoingSouth, GoingNorth
<1> HIDE DEF b, r
<1>4. Held(P) = Held(P)' + b
  BY <1>2, <1>3, HeldType DEF Held, IInv
<1> QED
  BY <1>4 DEF b

-----------------------------------------------------------------------------
(* Flushes *)

\* The answers to the flushes of a core.
AcksOf(c) == {p \in South : p.type = "flush_ack" /\ p.core = c}

FlushSum == \A c \in Core : flush[c] = flushing[c] + Held(AcksOf(c))

LEMMA AnsweringAcks == \A c : Answering(AcksOf(c))
BY DEF Answering, AcksOf, South, LoadPacket, WritePacket, Put

\* A flush that is over is counted off.
LEMMA FlushOver ==
  ASSUME IInv, FlushSum, NEW p \in South, flushing' = flushing,
         \A c \in Core : Held(AcksOf(c)) = Held(AcksOf(c))' + Bit(p \in AcksOf(c)),
         IF p.type = "flush_ack" THEN Uncount(p.core) ELSE UNCHANGED flush,
         IInv'
  PROVE  FlushSum'
<1> SUFFICES ASSUME NEW c \in Core
             PROVE  flush'[c] = flushing[c] + Held(AcksOf(c))'
  BY DEF FlushSum
<1>1. Held(AcksOf(c)) \in Nat /\ Held(AcksOf(c))' \in Nat
  <2>1. Types /\ Types'
    BY DEF IInv
  <2> QED
    BY <2>1, HeldType, HeldTypeNext
<1>2. flush \in [Core -> Int] /\ flush[c] \in Int /\ flushing[c] \in Nat
  BY DEF IInv, Types
<1>3. flush[c] = flushing[c] + Held(AcksOf(c)) /\ Held(AcksOf(c)) = Held(AcksOf(c))' + Bit(p \in AcksOf(c))
  BY DEF FlushSum
<1>4. CASE p \in AcksOf(c)
  <2>1. p.type = "flush_ack" /\ p.core = c
    BY <1>4 DEF AcksOf
  <2>2. flush' = [flush EXCEPT ![c] = flush[c] - 1]
    BY <2>1 DEF Uncount
  <2>3. flush'[c] = flush[c] - 1
    BY <1>2, <2>2
  <2>4. Bit(p \in AcksOf(c)) = 1
    BY <1>4 DEF Bit
  <2> QED
    BY <1>1, <1>2, <1>3, <2>3, <2>4
<1>5. CASE p \notin AcksOf(c)
  <2>1. Bit(p \in AcksOf(c)) = 0
    BY <1>5 DEF Bit
  <2>2. flush'[c] = flush[c]
    <3>1. CASE p.type = "flush_ack"
      <4>1. flush' = [flush EXCEPT ![p.core] = flush[p.core] - 1] /\ p.core # c
        BY <1>5, <3>1 DEF Uncount, AcksOf
      <4> QED
        BY <1>2, <4>1
    <3>2. CASE p.type # "flush_ack"
      BY <3>2
    <3> QED
      BY <3>1, <3>2
  <2> QED
    BY <1>1, <1>2, <1>3, <2>1, <2>2
<1> QED
  BY <1>4, <1>5

LEMMA FlushQuiet ==
  ASSUME FlushSum, flush' = flush, flushing' = flushing,
         \A c \in Core : Held(AcksOf(c))' = Held(AcksOf(c))
  PROVE  FlushSum'
BY DEF FlushSum

\* The steps that move packets or leave them alone, for every kind of packet.
Moves ==
  \/ Route \/ FinishUp \/ StartDown \/ FinishDown \/ StartReply \/ FinishReply
  \/ \E p \in South : AddTransaction(p)
  \/ UNCHANGED <<saRx, saTx, down, mcRx, pending, mcTx, mcUp, swRx>>

\* The steps that turn a request into its reply.
Replies == (\E p \in South : Answers(p)) \/ (\E i \in DOMAIN pending : ReadComplete(i))

LEMMA HeldAfterMove ==
  ASSUME IInv, Moves, NEW P
  PROVE  Held(P)' = Held(P)
<1>1. CASE Route \/ FinishUp \/ StartDown
  BY <1>1, HeldAfterRoute, HeldAfterFinishUp, HeldAfterStartDown
<1>2. CASE FinishDown \/ StartReply \/ FinishReply
  BY <1>2, HeldAfterFinishDown, HeldAfterStartReply, HeldAfterFinishReply
<1>3. CASE \E p \in South : AddTransaction(p)
  BY <1>3, HeldAfterAddTransaction
<1>4. CASE UNCHANGED <<saRx, saTx, down, mcRx, pending, mcTx, mcUp, swRx>>
  BY <1>4, HeldQuiet
<1> QED
  BY <1>1, <1>2, <1>3, <1>4 DEF Moves

LEMMA HeldAfterReply ==
  ASSUME IInv, Replies, NEW P, Answering(P)
  PROVE  Held(P)' = Held(P)
BY HeldAfterAnswer, HeldAfterReadComplete DEF Replies

\* A packet that leaves without a reply: a clean flush, a write done without
\* the DRAM, a write the DRAM completes.
Ends(p) ==
  /\ p \in South /\ p.type # "mc_load"
  /\ EndsWith(p) \/ \E i \in DOMAIN pending : p = pending[i] /\ WriteComplete(i)

LEMMA HeldAfterEnd ==
  ASSUME IInv, NEW p, Ends(p), NEW P
  PROVE  Held(P) = Held(P)' + Bit(p \in P)
BY HeldAfterServe, HeldAfterWriteComplete DEF Ends

\* What a step does to the packets, and to the counters of flushes and loads.
Effect ==
  \/ \E p \in LoadPacket : /\ Enter(p) /\ p.id \notin loads /\ loads' = loads \cup {p.id}
                           /\ flush' = flush /\ flushing' = flushing
  \/ \E p \in WritePacket : /\ Enter(p) /\ p.type = "mc_store" /\ loads' = loads
                            /\ flush' = flush /\ flushing' = flushing
  \/ \E c \in Core, p \in South :
       /\ Enter(p) /\ p.type = "flush_ack" /\ p.core = c /\ flushing[c] > 0
       /\ flushing' = [flushing EXCEPT ![c] = flushing[c] - 1]
       /\ loads' = loads /\ flush' = flush
  \/ \E c \in Core : /\ UNCHANGED <<saRx, saTx, down, mcRx, pending, mcTx, mcUp, swRx>>
                     /\ flush' = [flush EXCEPT ![c] = flush[c] + 1]
                     /\ flushing' = [flushing EXCEPT ![c] = flushing[c] + 1] /\ loads' = loads
  \/ Deliver
  \/ (Moves \/ Replies) /\ loads' = loads /\ flush' = flush /\ flushing' = flushing
  \/ \E p : /\ Ends(p) /\ flushing' = flushing /\ loads' = loads
            /\ IF p.type = "flush_ack" THEN Uncount(p.core) ELSE UNCHANGED flush

LEMMA EffectOfSends == IInv /\ (SendLoad \/ SendStore \/ SendFlushAck) => Effect
<1> SUFFICES ASSUME IInv, SendLoad \/ SendStore \/ SendFlushAck PROVE Effect
  OBVIOUS
<1>1. CASE SendLoad
  <2>1. PICK p \in LoadPacket : /\ Enter(p) /\ p.id \notin loads /\ loads' = loads \cup {p.id}
                                /\ flushing' = flushing
    BY <1>1 DEF SendLoad
  <2>2. flush' = flush
    BY <2>1 DEF Enter
  <2> QED
    BY <2>1, <2>2 DEF Effect
<1>2. CASE SendStore
  <2>1. PICK t \in Written : Enter([type |-> "mc_store", tag |-> t]) /\ flushing' = flushing /\ loads' = loads
    BY <1>2 DEF SendStore
  <2> DEFINE p == [type |-> "mc_store", tag |-> t]
  <2>2. p \in WritePacket /\ p.type = "mc_store"
    BY MemoryPathAssumption DEF WritePacket
  <2>3. Enter(p) /\ flushing' = flushing /\ loads' = loads
    BY <2>1
  <2> HIDE DEF p
  <2>4. flush' = flush
    BY <2>3 DEF Enter
  <2> QED
    BY <2>2, <2>3, <2>4 DEF Effect
<1>3. CASE SendFlushAck
  <2>1. PICK c \in Core, t \in Written, d \in BOOLEAN :
          /\ flushing[c] > 0
          /\ Enter([type |-> "flush_ack", tag |-> t, core |-> c, dirty |-> d])
          /\ flushing' = [flushing EXCEPT ![c] = flushing[c] - 1] /\ loads' = loads
    BY <1>3 DEF SendFlushAck
  <2> DEFINE p == [type |-> "flush_ack", tag |-> t, core |-> c, dirty |-> d]
  <2>2. p \in South /\ p.type = "flush_ack" /\ p.core = c
    <3>1. t \in Tag
      BY MemoryPathAssumption
    <3>2. CASE d = TRUE
      BY <3>1, <3>2 DEF South, WritePacket
    <3>3. CASE d = FALSE
      BY <3>1, <3>3 DEF South
    <3> QED
      BY <3>2, <3>3
  <2>3. Enter(p)
    BY <2>1
  <2> HIDE DEF p
  <2>4. flush' = flush
    BY <2>3 DEF Enter
  <2> QED
    BY <2>1, <2>2, <2>3, <2>4 DEF Effect
<1> QED
  BY <1>1, <1>2, <1>3

LEMMA EffectOfServed == IInv /\ Served => Effect
<1> SUFFICES ASSUME IInv, Served PROVE Effect
  OBVIOUS
<1> DEFINE p == Head(mcRx)
<1>1. mcBusy /\ (EndCleanFlush(p) \/ AddTransaction(p) \/ AccessDirectly(p))
  BY DEF Served
<1>2. p \in South
  <2>1. mcRx \in Seq(South) /\ mcRx # <<>>
    BY <1>1 DEF IInv, Types, PausesAreSafe
  <2> QED
    BY <2>1
<1> HIDE DEF p
<1>3. CASE EndCleanFlush(p)
  <2>1. /\ EndsWith(p) /\ p.type = "flush_ack" /\ Uncount(p.core)
        /\ flushing' = flushing /\ loads' = loads
    BY <1>3 DEF EndCleanFlush, EndsWith, sysAgent, ring
  <2>2. Ends(p)
    BY <1>2, <2>1 DEF Ends
  <2> QED
    BY <2>1, <2>2 DEF Effect
<1>4. CASE AddTransaction(p)
  <2>1. flush' = flush /\ flushing' = flushing /\ loads' = loads
    BY <1>4 DEF AddTransaction, ring
  <2>2. Moves
    BY <1>2, <1>4 DEF Moves
  <2> QED
    BY <2>1, <2>2 DEF Effect
<1>5. CASE AccessDirectly(p)
  <2>1. /\ Serves(p) /\ mcRx' = Tail(mcRx)
        /\ UNCHANGED <<saRx, saTx, down, pending, mcUp, swRx, flushing, loads>>
    BY <1>5 DEF AccessDirectly, sysAgent, ring
  <2>2. CASE p.type = "mc_load" /\ mcTx' = Append(mcTx, Put(p)) /\ flush' = flush
    <3>1. Answers(p)
      BY <2>1, <2>2 DEF Answers
    <3>2. Replies
      BY <1>2, <3>1 DEF Replies
    <3> QED
      BY <2>1, <2>2, <3>2 DEF Effect
  <2>3. CASE /\ p \in WritePacket /\ mcTx' = mcTx
             /\ IF p.type = "flush_ack" THEN Uncount(p.core) ELSE UNCHANGED flush
    <3>1. p.type # "mc_load"
      BY <2>3 DEF WritePacket
    <3>2. EndsWith(p)
      BY <2>1, <2>3 DEF EndsWith
    <3>3. Ends(p)
      BY <1>2, <3>1, <3>2 DEF Ends
    <3> QED
      BY <2>1, <2>3, <3>3 DEF Effect
  <2> QED
    BY <1>5, <2>2, <2>3 DEF AccessDirectly
<1> QED
  BY <1>1, <1>3, <1>4, <1>5

LEMMA EffectOfCompleted == IInv /\ Completed => Effect
<1> SUFFICES ASSUME IInv, NEW i \in DOMAIN pending, ReadComplete(i) \/ WriteComplete(i)
             PROVE  Effect
  BY DEF Completed
<1>1. CASE ReadComplete(i)
  <2>1. flush' = flush /\ flushing' = flushing /\ loads' = loads
    BY <1>1 DEF ReadComplete, ring
  <2>2. Replies
    BY <1>1 DEF Replies
  <2> QED
    BY <2>1, <2>2 DEF Effect
<1>2. CASE WriteComplete(i)
  <2>1. /\ flushing' = flushing /\ loads' = loads /\ pending[i].type # "mc_load"
        /\ IF pending[i].type = "flush_ack" THEN Uncount(pending[i].core) ELSE UNCHANGED flush
    BY <1>2 DEF WriteComplete, ring
  <2>2. pending[i] \in South
    BY Completing
  <2>3. Ends(pending[i])
    BY <1>2, <2>1, <2>2 DEF Ends
  <2> QED
    BY <2>1, <2>3 DEF Effect
<1> QED
  BY <1>1, <1>2

LEMMA EffectOfSteps == IInv /\ [Next]_vars => Effect
<1> SUFFICES ASSUME IInv, [Next]_vars PROVE Effect
  OBVIOUS
<1>1. CASE SendLoad \/ SendStore \/ SendFlushAck
  BY <1>1, EffectOfSends
<1>2. CASE \E c \in Core : Flush(c)
  <2>1. PICK c \in Core : Flush(c)
    BY <1>2
  <2>2. /\ UNCHANGED <<saRx, saTx, down, mcRx, pending, mcTx, mcUp, swRx>>
        /\ flush' = [flush EXCEPT ![c] = flush[c] + 1]
        /\ flushing' = [flushing EXCEPT ![c] = flushing[c] + 1] /\ loads' = loads
    BY <2>1 DEF Flush, sysAgent, memCtrl
  <2> QED
    BY <2>2 DEF Effect
<1>3. CASE Deliver
  BY <1>3 DEF Effect
<1>4. CASE SelectMessage \/ StartUp \/ StartAccess \/ Refused \/ UNCHANGED vars
  <2>1. /\ UNCHANGED <<saRx, saTx, down, mcRx, pending, mcTx, mcUp, swRx>>
        /\ loads' = loads /\ flush' = flush /\ flushing' = flushing
    BY <1>4 DEF SelectMessage, StartUp, StartAccess, Refused, RefuseTransaction, vars, sysAgent,
                memCtrl, ring
  <2> QED
    BY <2>1 DEF Effect, Moves
<1>5. CASE Route \/ FinishUp \/ StartDown \/ FinishDown \/ StartReply \/ FinishReply
  <2>1. loads' = loads /\ flush' = flush /\ flushing' = flushing
    BY <1>5 DEF Route, FinishUp, StartDown, FinishDown, StartReply, FinishReply, ring
  <2> QED
    BY <1>5, <2>1 DEF Effect, Moves
<1>6. CASE Served
  BY <1>6, EffectOfServed
<1>7. CASE Completed
  BY <1>7, EffectOfCompleted
<1> QED
  BY <1>1, <1>2, <1>3, <1>4, <1>5, <1>6, <1>7 DEF Next

LEMMA FlushSumSend ==
  ASSUME IInv, FlushSum, NEW d \in Core, NEW p \in South, Enter(p),
         p.type = "flush_ack", p.core = d, flushing[d] > 0,
         flushing' = [flushing EXCEPT ![d] = flushing[d] - 1], flush' = flush
  PROVE  FlushSum'
<1> SUFFICES ASSUME NEW c \in Core
             PROVE  flush[c] = flushing'[c] + Held(AcksOf(c))'
  BY DEF FlushSum
<1> DEFINE h == Held(AcksOf(c))
<1>1. h \in Nat /\ flushing \in [Core -> Nat] /\ flushing[c] \in Nat
  BY HeldType DEF IInv, Types
<1>2. flush[c] = flushing[c] + h /\ Held(AcksOf(c))' = h + Bit(p \in AcksOf(c))
  BY HeldAfterEnter DEF FlushSum
<1>3. p \in AcksOf(c) <=> c = d
  BY DEF AcksOf
<1> HIDE DEF h
<1>4. CASE c = d
  <2>1. Bit(p \in AcksOf(c)) = 1 /\ flushing'[c] = flushing[c] - 1
    BY <1>1, <1>3, <1>4 DEF Bit
  <2> QED
    BY <1>1, <1>2, <2>1
<1>5. CASE c # d
  <2>1. Bit(p \in AcksOf(c)) = 0 /\ flushing'[c] = flushing[c]
    BY <1>1, <1>3, <1>5 DEF Bit
  <2> QED
    BY <1>1, <1>2, <2>1
<1> QED
  BY <1>4, <1>5

LEMMA FlushSumFlush ==
  ASSUME IInv, FlushSum, NEW d \in Core,
         UNCHANGED <<saRx, saTx, down, mcRx, pending, mcTx, mcUp, swRx>>,
         flush' = [flush EXCEPT ![d] = flush[d] + 1],
         flushing' = [flushing EXCEPT ![d] = flushing[d] + 1]
  PROVE  FlushSum'
<1> SUFFICES ASSUME NEW c \in Core
             PROVE  flush'[c] = flushing'[c] + Held(AcksOf(c))'
  BY DEF FlushSum
<1> DEFINE h == Held(AcksOf(c))
<1>1. h \in Nat /\ flushing \in [Core -> Nat] /\ flush \in [Core -> Int]
      /\ flushing[c] \in Nat /\ flush[c] \in Int
  BY HeldType DEF IInv, Types
<1>2. flush[c] = flushing[c] + h /\ Held(AcksOf(c))' = h
  BY HeldQuiet DEF FlushSum
<1> HIDE DEF h
<1>3. \/ flush'[c] = flush[c] + 1 /\ flushing'[c] = flushing[c] + 1
      \/ flush'[c] = flush[c] /\ flushing'[c] = flushing[c]
  BY <1>1
<1> QED
  BY <1>1, <1>2, <1>3

LEMMA NextReply ==
  ASSUME IInv, Deliver
  PROVE  Head(swRx) \in North
<1>1. swRx \in Seq(North) /\ swRx # <<>>
  BY DEF IInv, Types, Deliver
<1> QED
  BY <1>1

LEMMA FlushSumNext == IInv /\ IInv' /\ FlushSum /\ [Next]_vars => FlushSum'
<1> SUFFICES ASSUME IInv, IInv', FlushSum, Effect PROVE FlushSum'
  BY EffectOfSteps
<1>1. ASSUME NEW p \in South, Enter(p), p.type # "flush_ack", flush' = flush, flushing' = flushing
      PROVE  FlushSum'
  <2>1. ASSUME NEW c \in Core PROVE Held(AcksOf(c))' = Held(AcksOf(c))
    <3>1. Held(AcksOf(c))' = Held(AcksOf(c)) + Bit(p \in AcksOf(c))
      BY <1>1, HeldAfterEnter
    <3>2. Bit(p \in AcksOf(c)) = 0 /\ Held(AcksOf(c)) \in Nat
      BY <1>1, HeldType DEF AcksOf, Bit, IInv
    <3> QED
      BY <3>1, <3>2
  <2> QED
    BY <1>1, <2>1, FlushQuiet
<1>2. ASSUME NEW p \in LoadPacket \cup WritePacket, Enter(p), p.type # "flush_ack",
             flush' = flush, flushing' = flushing
      PROVE  FlushSum'
  BY <1>1, <1>2 DEF South
<1>3. \A p \in LoadPacket : p.type = "mc_load"
  BY DEF LoadPacket
<1>4. CASE Deliver
  <2>1. flush' = flush /\ flushing' = flushing
    BY <1>4 DEF Deliver
  <2>2. ASSUME NEW c \in Core PROVE Held(AcksOf(c))' = Held(AcksOf(c))
    <3>1. Held(AcksOf(c)) = Held(AcksOf(c))' + Bit(Head(swRx) \in AcksOf(c))
      BY <1>4, HeldAfterDeliver
    <3>2. Head(swRx) \in North
      BY <1>4, NextReply
    <3>3. Bit(Head(swRx) \in AcksOf(c)) = 0 /\ Held(AcksOf(c))' \in Nat
      BY <3>2, HeldTypeNext DEF AcksOf, North, Bit, IInv
    <3> QED
      BY <3>1, <3>3
  <2> QED
    BY <2>1, <2>2, FlushQuiet
<1>5. CASE (Moves \/ Replies) /\ flush' = flush /\ flushing' = flushing
  <2>1. \A c \in Core : Held(AcksOf(c))' = Held(AcksOf(c))
    BY <1>5, HeldAfterMove, HeldAfterReply, AnsweringAcks
  <2> QED
    BY <1>5, <2>1, FlushQuiet
<1>6. ASSUME NEW p, Ends(p), flushing' = flushing,
             IF p.type = "flush_ack" THEN Uncount(p.core) ELSE UNCHANGED flush
      PROVE  FlushSum'
  <2>1. p \in South
    BY <1>6 DEF Ends
  <2>2. \A c \in Core : Held(AcksOf(c)) = Held(AcksOf(c))' + Bit(p \in AcksOf(c))
    BY <1>6, HeldAfterEnd
  <2> QED
    BY <1>6, <2>1, <2>2, FlushOver
<1>7. ASSUME NEW p \in LoadPacket, Enter(p), flush' = flush, flushing' = flushing
      PROVE  FlushSum'
  BY <1>2, <1>3, <1>7
<1>8. ASSUME NEW p \in WritePacket, Enter(p), p.type = "mc_store", flush' = flush, flushing' = flushing
      PROVE  FlushSum'
  BY <1>2, <1>8
<1> QED
  BY <1>4, <1>5, <1>6, <1>7, <1>8, FlushSumSend, FlushSumFlush DEF Effect

LEMMA HeldInit == Init => \A P : Held(P) = 0
<1> SUFFICES ASSUME Init, NEW P PROVE Held(P) = 0
  OBVIOUS
<1>1. /\ mcRx = <<>> /\ down = <<>> /\ saTx["bottom"] = <<>> /\ saRx["top"] = <<>>
      /\ pending = <<>> /\ swRx = <<>> /\ saTx["top"] = <<>> /\ saRx["bottom"] = <<>>
      /\ mcUp = <<>> /\ mcTx = <<>>
  BY DEF Init, Side
<1>2. Held(P) = (0 + 0 + 0 + 0) + 0 + (0 + 0 + 0 + 0 + 0)
  BY <1>1, InEmpty DEF Held, GoingSouth, GoingNorth
<1> QED
  BY <1>2

LEMMA FlushSumInit == Init => FlushSum
<1> SUFFICES ASSUME Init, NEW c \in Core
             PROVE  flush[c] = flushing[c] + Held(AcksOf(c))
  BY DEF FlushSum
<1>1. Held(AcksOf(c)) = 0 /\ flush[c] = 0 /\ flushing[c] = 0
  BY HeldInit DEF Init
<1> QED
  BY <1>1

-----------------------------------------------------------------------------
(* Loads *)

\* The request of a load and its reply.
LoadOf(l) == {p \in South \cup North : p.type \in {"mc_load", "mc_put"} /\ p.id = l}

LoadSum == \A l \in Load : Held(LoadOf(l)) = Bit(l \in loads)

LEMMA AnsweringLoads == \A l : Answering(LoadOf(l))
<1> SUFFICES ASSUME NEW l, NEW p \in South, p.type = "mc_load"
             PROVE  p \in LoadOf(l) <=> Put(p) \in LoadOf(l)
  BY DEF Answering
<1>1. Put(p) \in North
  BY Puts
<1>2. Put(p).type = "mc_put" /\ Put(p).id = p.id
  BY DEF Put
<1> QED
  BY <1>1, <1>2 DEF LoadOf

LEMMA LoadQuiet ==
  ASSUME LoadSum, loads' = loads, \A l \in Load : Held(LoadOf(l))' = Held(LoadOf(l))
  PROVE  LoadSum'
BY DEF LoadSum

\* Writes are not loads.
LEMMA NotALoad ==
  ASSUME NEW p \in South, p.type # "mc_load", NEW l
  PROVE  Bit(p \in LoadOf(l)) = 0
<1>1. p.type # "mc_put"
  BY DEF South, LoadPacket, WritePacket
<1> QED
  BY <1>1 DEF LoadOf, Bit

LEMMA LoadSumSend ==
  ASSUME IInv, LoadSum, NEW p \in LoadPacket, Enter(p), p.id \notin loads,
         loads' = loads \cup {p.id}
  PROVE  LoadSum'
<1> SUFFICES ASSUME NEW l \in Load PROVE Held(LoadOf(l))' = Bit(l \in loads')
  BY DEF LoadSum
<1>1. p \in South
  BY DEF South
<1>2. Held(LoadOf(l))' = Bit(l \in loads) + Bit(p \in LoadOf(l))
  BY <1>1, HeldAfterEnter DEF LoadSum
<1>3. p \in LoadOf(l) <=> p.id = l
  BY <1>1 DEF LoadOf, LoadPacket
<1>4. (l \in loads' <=> l \in loads \/ p.id = l) /\ (p.id = l => l \notin loads)
  OBVIOUS
<1>5. Bit(l \in loads) + Bit(p \in LoadOf(l)) = Bit(l \in loads')
  BY <1>3, <1>4 DEF Bit
<1> QED
  BY <1>2, <1>5

LEMMA LoadSumDeliver ==
  ASSUME IInv, IInv', LoadSum, Deliver
  PROVE  LoadSum'
<1> SUFFICES ASSUME NEW l \in Load PROVE Held(LoadOf(l))' = Bit(l \in loads')
  BY DEF LoadSum
<1> DEFINE p == Head(swRx)
           h == Held(LoadOf(l))'
<1>1. h \in Nat
  BY HeldTypeNext DEF IInv
<1>2. Bit(l \in loads) = h + Bit(p \in LoadOf(l))
  BY HeldAfterDeliver DEF LoadSum
<1>3. p \in North /\ loads' = loads \ {p.id}
  BY NextReply DEF Deliver
<1>4. p \in LoadOf(l) <=> p.id = l
  BY <1>3 DEF LoadOf, North
<1>5. l \in loads' <=> l \in loads /\ p.id # l
  BY <1>3
<1> HIDE DEF p, h
<1>6. CASE p.id = l
  BY <1>1, <1>2, <1>4, <1>5, <1>6 DEF Bit, h
<1>7. CASE p.id # l
  BY <1>1, <1>2, <1>4, <1>5, <1>7 DEF Bit, h
<1> QED
  BY <1>6, <1>7

LEMMA LoadSumNext == IInv /\ IInv' /\ LoadSum /\ [Next]_vars => LoadSum'
<1> SUFFICES ASSUME IInv, IInv', LoadSum, Effect PROVE LoadSum'
  BY EffectOfSteps
<1>1. ASSUME NEW p \in South, Enter(p), p.type # "mc_load", loads' = loads
      PROVE  LoadSum'
  <2>1. ASSUME NEW l \in Load PROVE Held(LoadOf(l))' = Held(LoadOf(l))
    <3>1. Held(LoadOf(l))' = Held(LoadOf(l)) + Bit(p \in LoadOf(l))
      BY <1>1, HeldAfterEnter
    <3>2. Bit(p \in LoadOf(l)) = 0 /\ Held(LoadOf(l)) \in Nat
      BY <1>1, NotALoad, HeldType DEF IInv
    <3> QED
      BY <3>1, <3>2
  <2> QED
    BY <1>1, <2>1, LoadQuiet
<1>2. ASSUME NEW p \in WritePacket, Enter(p), p.type = "mc_store", loads' = loads
      PROVE  LoadSum'
  BY <1>1, <1>2 DEF South
<1>3. CASE \E c \in Core, p \in South : Enter(p) /\ p.type = "flush_ack" /\ loads' = loads
  BY <1>1, <1>3
<1>4. CASE UNCHANGED <<saRx, saTx, down, mcRx, pending, mcTx, mcUp, swRx>> /\ loads' = loads
  BY <1>4, HeldQuiet, LoadQuiet
<1>5. CASE (Moves \/ Replies) /\ loads' = loads
  <2>1. \A l \in Load : Held(LoadOf(l))' = Held(LoadOf(l))
    BY <1>5, HeldAfterMove, HeldAfterReply, AnsweringLoads
  <2> QED
    BY <1>5, <2>1, LoadQuiet
<1>6. ASSUME NEW p, Ends(p), loads' = loads
      PROVE  LoadSum'
  <2>1. ASSUME NEW l \in Load PROVE Held(LoadOf(l))' = Held(LoadOf(l))
    <3>1. Held(LoadOf(l)) = Held(LoadOf(l))' + Bit(p \in LoadOf(l))
      BY <1>6, HeldAfterEnd
    <3>2. Bit(p \in LoadOf(l)) = 0 /\ Held(LoadOf(l))' \in Nat
      BY <1>6, NotALoad, HeldTypeNext DEF IInv, Ends
    <3> QED
      BY <3>1, <3>2
  <2> QED
    BY <1>6, <2>1, LoadQuiet
<1> QED
  BY <1>2, <1>3, <1>4, <1>5, <1>6, LoadSumSend, LoadSumDeliver DEF Effect

LEMMA LoadSumInit == Init => LoadSum
<1> SUFFICES ASSUME Init, NEW l \in Load PROVE Held(LoadOf(l)) = Bit(l \in loads)
  BY DEF LoadSum
<1>1. Held(LoadOf(l)) = 0 /\ loads = {}
  BY HeldInit DEF Init
<1> QED
  BY <1>1 DEF Bit

-----------------------------------------------------------------------------
(* The whole way south and the whole way north *)

LEMMA InSouthbound ==
  ASSUME Types, NEW P
  PROVE  Southbound \in Seq(South) /\ In(Southbound, P) = GoingSouth(P)
<1>1. /\ mcRx \in Seq(South) /\ down \in Seq(South) /\ saTx["bottom"] \in Seq(South)
      /\ saRx["top"] \in Seq(South)
  BY DEF Types
<1> DEFINE a == mcRx \o down
           b == a \o saTx["bottom"]
           c == b \o saRx["top"]
<1>2. a \in Seq(South) /\ In(a, P) = In(mcRx, P) + In(down, P)
  BY <1>1, JoinFacts, InConcat
<1> HIDE DEF a
<1>3. b \in Seq(South) /\ In(b, P) = In(a, P) + In(saTx["bottom"], P)
  BY <1>1, <1>2, JoinFacts, InConcat
<1> HIDE DEF b
<1>4. c \in Seq(South) /\ In(c, P) = In(b, P) + In(saRx["top"], P)
  BY <1>1, <1>3, JoinFacts, InConcat
<1>5. Southbound = c
  BY DEF Southbound, a, b
<1> HIDE DEF c
<1> QED
  BY <1>2, <1>3, <1>4, <1>5 DEF GoingSouth

LEMMA InNorthbound ==
  ASSUME Types, NEW P
  PROVE  Northbound \in Seq(North) /\ In(Northbound, P) = GoingNorth(P)
<1>1. /\ swRx \in Seq(North) /\ saTx["top"] \in Seq(North) /\ saRx["bottom"] \in Seq(North)
      /\ mcUp \in Seq(North) /\ mcTx \in Seq(North)
  BY DEF Types
<1> DEFINE a == swRx \o saTx["top"]
           b == a \o saRx["bottom"]
           c == b \o mcUp
           d == c \o mcTx
<1>2. a \in Seq(North) /\ In(a, P) = In(swRx, P) + In(saTx["top"], P)
  BY <1>1, JoinFacts, InConcat
<1> HIDE DEF a
<1>3. b \in Seq(North) /\ In(b, P) = In(a, P) + In(saRx["bottom"], P)
  BY <1>1, <1>2, JoinFacts, InConcat
<1> HIDE DEF b
<1>4. c \in Seq(North) /\ In(c, P) = In(b, P) + In(mcUp, P)
  BY <1>1, <1>3, JoinFacts, InConcat
<1> HIDE DEF c
<1>5. d \in Seq(North) /\ In(d, P) = In(c, P) + In(mcTx, P)
  BY <1>1, <1>4, JoinFacts, InConcat
<1>6. Northbound = d
  BY DEF Northbound, a, b, c
<1> HIDE DEF d
<1> QED
  BY <1>2, <1>3, <1>4, <1>5, <1>6 DEF GoingNorth

LEMMA FlushesAreAcks ==
  ASSUME NEW s \in Seq(South), NEW c
  PROVE  Cardinality(Flushes(s, c)) = In(s, AcksOf(c))
<1>1. \A i \in DOMAIN s : s[i] \in South
  OBVIOUS
<1>2. Flushes(s, c) = {i \in DOMAIN s : s[i] \in AcksOf(c)}
  BY <1>1 DEF Flushes, AcksOf
<1> QED
  BY <1>2 DEF In

LEMMA CountsAreLoads ==
  ASSUME NEW s \in Seq(South \cup North), NEW l
  PROVE  Count(s, l) = In(s, LoadOf(l))
<1>1. \A i \in DOMAIN s : s[i] \in South \cup North
  OBVIOUS
<1>2. {i \in DOMAIN s : s[i].type \in {"mc_load", "mc_put"} /\ s[i].id = l}
        = {i \in DOMAIN s : s[i] \in LoadOf(l)}
  BY <1>1 DEF LoadOf
<1> QED
  BY <1>2 DEF In, Count

\* No reply is the answer to a flush.
LEMMA NoFlushGoesNorth == Types => \A c : GoingNorth(AcksOf(c)) = 0
<1> SUFFICES ASSUME Types, NEW c PROVE GoingNorth(AcksOf(c)) = 0
  OBVIOUS
<1> DEFINE s == Northbound
<1>1. s \in Seq(North) /\ In(s, AcksOf(c)) = GoingNorth(AcksOf(c))
  BY InNorthbound
<1> HIDE DEF s
<1>2. \A i \in DOMAIN s : s[i] \in North
  BY <1>1
<1>3. \A p \in North : p \notin AcksOf(c)
  BY DEF North, AcksOf
<1>4. \A i \in DOMAIN s : s[i] \notin AcksOf(c)
  BY <1>2, <1>3
<1> QED
  BY <1>1, <1>4, InType

LEMMA CountedFlushes == Types /\ FlushSum => FlushesCounted
<1> SUFFICES ASSUME Types, FlushSum, NEW c \in Core
             PROVE  flush[c] = flushing[c] + Cardinality(Flushes(Southbound, c))
                               + Cardinality(Flushes(pending, c))
  BY DEF FlushesCounted
<1>1. pending \in Seq(South)
  BY Wider DEF Types, South
<1>2. /\ Cardinality(Flushes(Southbound, c)) = GoingSouth(AcksOf(c))
      /\ Cardinality(Flushes(pending, c)) = In(pending, AcksOf(c))
  BY <1>1, InSouthbound, FlushesAreAcks
<1>3. flush[c] = flushing[c] + (GoingSouth(AcksOf(c)) + In(pending, AcksOf(c)) + 0)
  BY NoFlushGoesNorth DEF FlushSum, Held
<1>4. GoingSouth(AcksOf(c)) \in Nat /\ In(pending, AcksOf(c)) \in Nat /\ flushing[c] \in Nat
  BY HeldType DEF Types
<1> QED
  BY <1>2, <1>3, <1>4

LEMMA AccountedLoads == Types /\ LoadSum => LoadsAccounted
<1> SUFFICES ASSUME Types, LoadSum, NEW l \in Load
             PROVE  Count(Southbound, l) + Count(pending, l) + Count(Northbound, l)
                      = IF l \in loads THEN 1 ELSE 0
  BY DEF LoadsAccounted
<1>1. pending \in Seq(South \cup North)
  <2>1. pending \in Seq(South)
    BY Wider DEF Types, South
  <2> QED
    BY <2>1, Wider
<1>2. Southbound \in Seq(South \cup North) /\ Northbound \in Seq(South \cup North)
  BY InSouthbound, InNorthbound, Wider
<1>3. /\ Count(Southbound, l) = GoingSouth(LoadOf(l))
      /\ Count(pending, l) = In(pending, LoadOf(l))
      /\ Count(Northbound, l) = GoingNorth(LoadOf(l))
  BY <1>1, <1>2, InSouthbound, InNorthbound, CountsAreLoads
<1> QED
  BY <1>3 DEF LoadSum, Held, Bit

\* A core's flush counter is the number of its flushes on their way to memory:
\* a fence that waits for zero leaves none behind (flush_tx_counter).
THEOREM EveryFlushCounted == Spec => []FlushesCounted
<1>1. FlushSum /\ IInv /\ IInv' /\ [Next]_vars => FlushSum'
  BY FlushSumNext
<1>2. IInv /\ FlushSum => FlushesCounted
  BY CountedFlushes DEF IInv
<1> QED
  BY <1>1, <1>2, FlushSumInit, Invariance, PTL DEF Spec

\* A load under way is in one place, as a request or as its reply: no queue of
\* the system agent, the memory controller or the DRAM loses or repeats it.
THEOREM EveryLoadAccounted == Spec => []LoadsAccounted
<1>1. LoadSum /\ IInv /\ IInv' /\ [Next]_vars => LoadSum'
  BY LoadSumNext
<1>2. IInv /\ LoadSum => LoadsAccounted
  BY AccountedLoads DEF IInv
<1> QED
  BY <1>1, <1>2, LoadSumInit, Invariance, PTL DEF Spec

-----------------------------------------------------------------------------
(* The order of the requests *)

\* Concatenation, under a name that the provers leave alone.
Join(s, r) == s \o r

\* The head h of the sequence h \o t moves to the end of the sequence q before it.
LEMMA JoinOfFour ==
  ASSUME NEW S, NEW s \in Seq(S), NEW q \in Seq(S), NEW h \in Seq(S), NEW t \in Seq(S)
  PROVE  Join(Join(s, Join(q, h)), t) = Join(Join(s, q), Join(h, t))
<1>1. s \o q \in Seq(S)
  BY JoinFacts
<1>2. (s \o q) \o h = s \o (q \o h)
  BY ConcatAssociative
<1>3. ((s \o q) \o h) \o t = (s \o q) \o (h \o t)
  BY <1>1, ConcatAssociative
<1> QED
  BY <1>2, <1>3 DEF Join

LEMMA TailOfJoin ==
  ASSUME NEW S, NEW s \in Seq(S), NEW r \in Seq(S), s # <<>>
  PROVE  s \o r # <<>> /\ Tail(s \o r) = Tail(s) \o r
<1> DEFINE x == Head(s)
           h == <<x>>
           t == Tail(s)
<1>1. x \in S /\ t \in Seq(S) /\ h \in Seq(S) /\ s = h \o t
  BY HeadAndTail
<1> HIDE DEF t, x
<1>2. (h \o t) \o r = h \o (t \o r)
  BY <1>1, ConcatAssociative
<1> DEFINE u == t \o r
<1>3. u \in Seq(S)
  BY <1>1, JoinFacts
<1> HIDE DEF u
<1>4. h \o u # <<>> /\ Tail(h \o u) = u
  <2>1. h \o u \in Seq(S) /\ Len(h \o u) = Len(u) + 1 /\ Len(u) \in Nat /\ h \o u # <<>>
    BY <1>1, <1>3, JoinFacts, LenFacts
  <2>2. Tail(h \o u) \in Seq(S) /\ Len(Tail(h \o u)) = Len(u)
    BY <2>1, HeadTailProperties
  <2>3. \A i \in 1..Len(u) : Tail(h \o u)[i] = u[i]
    BY <1>1, <1>3, <2>1, <2>2
  <2> QED
    BY <1>3, <2>1, <2>2, <2>3, SeqEqual
<1> QED
  BY <1>1, <1>2, <1>4 DEF t, u

LEMMA JoinAppend ==
  ASSUME NEW S, NEW s \in Seq(S), NEW r \in Seq(S), NEW x \in S
  PROVE  s \o Append(r, x) = Append(s \o r, x)
<1> DEFINE h == <<x>>
           j == s \o r
<1>1. h \in Seq(S) /\ Append(r, x) = r \o h
  BY AppendIsConcat
<1>2. j \in Seq(S)
  BY JoinFacts
<1>3. Append(j, x) = j \o h
  BY <1>2, AppendIsConcat
<1> HIDE DEF h
<1> QED
  BY <1>1, <1>3, ConcatAssociative

LEMMA FrontOfAppend ==
  ASSUME NEW S, NEW s \in Seq(S), NEW x \in S
  PROVE  Append(s, x) # <<>> /\ Front(Append(s, x)) = s
<1> DEFINE t == Append(s, x)
           n == Len(s)
<1>1. n \in Nat /\ t \in Seq(S) /\ Len(t) = n + 1 /\ (\A i \in 1..n : t[i] = s[i] /\ t[i] \in S)
  OBVIOUS
<1>2. t # <<>>
  BY <1>1, LenFacts
<1> HIDE DEF t
<1>3. Front(t) = SubSeq(t, 1, n)
  BY <1>1 DEF Front
<1> DEFINE f == SubSeq(t, 1, n)
<1>4. f \in Seq(S) /\ Len(f) = n /\ \A i \in 1..n : f[i] = t[i]
  <2>1. (\A i \in 1..n : t[i] \in S) /\ 1 \in Int /\ n \in Int /\ Len(t) \in Nat
    BY <1>1
  <2> HIDE DEF n
  <2>2. 1 .. n \subseteq 1 .. Len(t)
    BY <1>1
  <2>3. f = [i \in 1..n |-> t[i]]
    BY <1>1, <2>1, <2>2
  <2> QED
    BY <1>1, <2>1, <2>3
<1> HIDE DEF f
<1>5. f = s
  <2>1. \A i \in 1..n : f[i] = s[i]
    BY <1>1, <1>4
  <2> QED
    BY <1>4, <2>1, SeqEqual
<1> QED
  BY <1>2, <1>3, <1>5 DEF t, f

OrderKept ==
  \/ Southbound' = Southbound
  \/ Southbound # <<>> /\ Southbound' = Tail(Southbound)
  \/ Southbound' # <<>> /\ Southbound = Front(Southbound')

LEMMA SouthTypes ==
  ASSUME IInv
  PROVE  /\ mcRx \in Seq(South) /\ down \in Seq(South)
         /\ saTx["bottom"] \in Seq(South) /\ saRx["top"] \in Seq(South)
         /\ mcRx \o down \in Seq(South) /\ (mcRx \o down) \o saTx["bottom"] \in Seq(South)
         /\ Southbound = ((mcRx \o down) \o saTx["bottom"]) \o saRx["top"]
<1>1. /\ mcRx \in Seq(South) /\ down \in Seq(South)
      /\ saTx["bottom"] \in Seq(South) /\ saRx["top"] \in Seq(South)
  BY DEF IInv, Types
<1> QED
  BY <1>1, JoinFacts DEF Southbound

LEMMA OrderAfterEnter ==
  ASSUME IInv, NEW p \in South, Enter(p)
  PROVE  OrderKept
<1>1. /\ saRx' = [saRx EXCEPT !["top"] = Append(saRx["top"], p)]
      /\ UNCHANGED <<mcRx, down, saTx>>
  BY DEF Enter, memCtrl
<1>2. saRx'["top"] = Append(saRx["top"], p)
  BY <1>1, Counts
<1> DEFINE a == (mcRx \o down) \o saTx["bottom"]
           r == saRx["top"]
<1>3. a \in Seq(South) /\ r \in Seq(South) /\ Southbound = a \o r
  BY SouthTypes
<1>4. Southbound' = a \o Append(r, p)
  BY <1>1, <1>2 DEF Southbound
<1> HIDE DEF a, r
<1>5. Southbound' = Append(a \o r, p) /\ a \o r \in Seq(South)
  BY <1>3, <1>4, JoinAppend, JoinFacts
<1>6. Southbound' # <<>> /\ Front(Southbound') = Southbound
  BY <1>3, <1>5, FrontOfAppend
<1> QED
  BY <1>6 DEF OrderKept

LEMMA OrderAfterServe ==
  ASSUME IInv, mcRx # <<>>, mcRx' = Tail(mcRx), UNCHANGED <<down, saTx, saRx>>
  PROVE  OrderKept
<1> DEFINE d == down
           q == saTx["bottom"]
           r == saRx["top"]
           m == mcRx
           t == Tail(mcRx)
           a == m \o d
           b == a \o q
<1>1. /\ m \in Seq(South) /\ d \in Seq(South) /\ q \in Seq(South) /\ r \in Seq(South)
      /\ m # <<>> /\ a \in Seq(South) /\ b \in Seq(South)
  BY SouthTypes
<1>2. Southbound = b \o r /\ Southbound' = ((t \o d) \o q) \o r
  BY DEF Southbound
<1>3. a # <<>> /\ Tail(a) = t \o d
  BY <1>1, TailOfJoin
<1> HIDE DEF a, t
<1>4. b # <<>> /\ Tail(b) = Tail(a) \o q
  BY <1>1, <1>3, TailOfJoin
<1> HIDE DEF b
<1>5. b \o r # <<>> /\ Tail(b \o r) = Tail(b) \o r
  BY <1>1, <1>4, TailOfJoin
<1> QED
  BY <1>2, <1>3, <1>4, <1>5 DEF OrderKept

LEMMA OrderAfterRoute ==
  ASSUME IInv, Route
  PROVE  OrderKept
<1> DEFINE p == Head(saRx[routing])
<1>1. /\ routing # "none"
      /\ saRx' = [saRx EXCEPT ![routing] = Tail(saRx[routing])]
      /\ saTx' = [saTx EXCEPT ![SideOf(p)] = Append(saTx[SideOf(p)], p)]
      /\ UNCHANGED <<down, mcRx>>
  BY DEF Route, memCtrl
<1>2. routing \in Side /\ saRx[routing] # <<>>
  BY <1>1 DEF IInv, Types, PausesAreSafe
<1>3. /\ saRx \in [{"top", "bottom"} -> Seq(South \cup North)]
      /\ saTx \in [{"top", "bottom"} -> Seq(South \cup North)]
  BY Counts
<1>4. CASE routing = "top"
  <2>1. saRx["top"] \in Seq(South) /\ saRx["top"] # <<>> /\ p = Head(saRx["top"])
    BY <1>2, <1>4 DEF IInv, Types
  <2>2. p \in South
    BY <2>1
  <2>3. SideOf(p) = "bottom"
    BY <2>2 DEF SideOf, South, LoadPacket, WritePacket
  <2> HIDE DEF p
  <2>4. saRx'["top"] = Tail(saRx["top"]) /\ saTx'["bottom"] = Append(saTx["bottom"], p)
    BY <1>1, <1>3, <1>4, <2>3
  <2> DEFINE a == mcRx \o down
             q == saTx["bottom"]
             r == saRx["top"]
  <2>5. a \in Seq(South) /\ q \in Seq(South) /\ r \in Seq(South) /\ r # <<>>
        /\ Southbound = (a \o q) \o r
    BY <2>1, SouthTypes
  <2>6. Southbound' = (a \o Append(q, Head(r))) \o Tail(r)
    BY <1>1, <2>1, <2>4 DEF Southbound
  <2> HIDE DEF a, q, r
  <2>7. a \in Seq(South) /\ q \in Seq(South) /\ r \in Seq(South) /\ r # <<>>
    BY <2>5
  <2>8. (a \o Append(q, Head(r))) \o Tail(r) = (a \o q) \o r
    <3> DEFINE h == <<Head(r)>>
               t == Tail(r)
    <3>1. h \in Seq(South) /\ t \in Seq(South) /\ r = h \o t /\ Append(q, Head(r)) = q \o h
      BY <2>7, HeadAndTail, AppendIsConcat
    <3> HIDE DEF h, t
    <3>2. Join(Join(a, Join(q, h)), t) = Join(Join(a, q), Join(h, t))
      <4>1. a \in Seq(South) /\ q \in Seq(South) /\ h \in Seq(South) /\ t \in Seq(South)
        BY <2>7, <3>1
      <4> QED
        BY ONLY <4>1, JoinOfFour
    <3> QED
      BY <3>1, <3>2 DEF t, Join
  <2> QED
    BY <2>5, <2>6, <2>8 DEF OrderKept
<1>5. CASE routing = "bottom"
  <2>1. saRx["bottom"] \in Seq(North) /\ saRx["bottom"] # <<>> /\ p = Head(saRx["bottom"])
    BY <1>2, <1>5 DEF IInv, Types
  <2>2. p \in North
    BY <2>1
  <2>3. SideOf(p) = "top"
    BY <2>2 DEF SideOf, North
  <2> HIDE DEF p
  <2>4. saRx'["top"] = saRx["top"] /\ saTx'["bottom"] = saTx["bottom"]
    BY <1>1, <1>3, <1>5, <2>3
  <2>5. Southbound' = Southbound
    BY <1>1, <2>4 DEF Southbound
  <2> QED
    BY <2>5 DEF OrderKept
<1> QED
  BY <1>2, <1>4, <1>5, Sides

LEMMA OrderAfterStartDown ==
  ASSUME IInv, StartDown
  PROVE  OrderKept
<1> DEFINE m == mcRx
           q == saTx["bottom"]
           r == saRx["top"]
           e == <<>>
<1>1. /\ down = <<>> /\ down' = <<Head(q)>> /\ Await("io_down")
      /\ saTx' = [saTx EXCEPT !["bottom"] = Tail(q)] /\ UNCHANGED <<saRx, mcRx>>
  BY DEF StartDown, memCtrl
<1>2. m \in Seq(South) /\ q \in Seq(South) /\ r \in Seq(South) /\ e \in Seq(South)
  BY SouthTypes
<1>3. q # <<>>
  <2>1. Len(q) > 0
    BY <1>1, Awaited, Tasks DEF IInv, Counted
  <2> QED
    BY <1>2, <2>1, LenFacts
<1>4. saTx'["bottom"] = Tail(q)
  BY <1>1, Counts
<1>5. Southbound = ((m \o e) \o q) \o r /\ Southbound' = ((m \o <<Head(q)>>) \o Tail(q)) \o r
  BY <1>1, <1>4 DEF Southbound
<1> DEFINE h == <<Head(q)>>
           t == Tail(q)
<1>6. h \in Seq(South) /\ t \in Seq(South) /\ q = h \o t /\ e \o h = h
  <2>1. h \in Seq(South) /\ t \in Seq(South) /\ q = h \o t
    BY <1>2, <1>3, HeadAndTail
  <2> QED
    BY <2>1, ConcatEmptySeq
<1>7. Southbound = ((m \o e) \o q) \o r /\ Southbound' = ((m \o h) \o t) \o r
  BY <1>5
<1> HIDE DEF m, q, r, e, h, t
<1>8. Join(Join(m, Join(e, h)), t) = Join(Join(m, e), Join(h, t))
  <2>1. m \in Seq(South) /\ e \in Seq(South) /\ h \in Seq(South) /\ t \in Seq(South)
    BY <1>2, <1>6
  <2> QED
    BY ONLY <2>1, JoinOfFour
<1> QED
  BY <1>6, <1>7, <1>8 DEF OrderKept, Join

LEMMA OrderAfterFinishDown ==
  ASSUME IInv, FinishDown
  PROVE  OrderKept
<1>1. mcRx' = mcRx \o down /\ down' = <<>> /\ UNCHANGED <<saTx, saRx>>
  BY DEF FinishDown
<1> DEFINE a == mcRx \o down
<1>2. Southbound' = ((a \o <<>>) \o saTx["bottom"]) \o saRx["top"]
  BY <1>1 DEF Southbound
<1>3. Southbound = (a \o saTx["bottom"]) \o saRx["top"] /\ a \in Seq(South)
  BY SouthTypes
<1> HIDE DEF a
<1>4. a \o <<>> = a
  BY <1>3, ConcatEmptySeq
<1> QED
  BY <1>2, <1>3, <1>4 DEF OrderKept

LEMMA EffectOfEnter ==
  ASSUME SendLoad \/ SendStore \/ SendFlushAck
  PROVE  \E p \in South : Enter(p)
<1>1. CASE SendLoad
  BY <1>1 DEF SendLoad, South
<1>2. CASE SendStore
  <2>1. PICK t \in Written : Enter([type |-> "mc_store", tag |-> t])
    BY <1>2 DEF SendStore
  <2>2. [type |-> "mc_store", tag |-> t] \in South
    BY MemoryPathAssumption DEF South, WritePacket
  <2> QED
    BY <2>1, <2>2
<1>3. CASE SendFlushAck
  <2>1. PICK c \in Core, t \in Written, d \in BOOLEAN :
          Enter([type |-> "flush_ack", tag |-> t, core |-> c, dirty |-> d])
    BY <1>3 DEF SendFlushAck
  <2>2. t \in Tag
    BY MemoryPathAssumption
  <2>3. CASE d = TRUE
    BY <2>1, <2>2, <2>3 DEF South, WritePacket
  <2>4. CASE d = FALSE
    BY <2>1, <2>2, <2>4 DEF South
  <2> QED
    BY <2>3, <2>4
<1> QED
  BY <1>1, <1>2, <1>3

LEMMA OrderAfterSteps == IInv /\ [Next]_vars => OrderKept
<1> SUFFICES ASSUME IInv, [Next]_vars PROVE OrderKept
  OBVIOUS
<1>1. CASE SendLoad \/ SendStore \/ SendFlushAck
  <2>1. PICK p \in South : Enter(p)
    BY <1>1, EffectOfEnter
  <2> QED
    BY <2>1, OrderAfterEnter
<1>2. CASE \/ (\E c \in Core : Flush(c)) \/ Deliver \/ SelectMessage \/ StartUp \/ StartAccess
           \/ Refused \/ Completed \/ StartReply \/ UNCHANGED vars
  <2>1. UNCHANGED <<mcRx, down, saTx, saRx>>
    BY <1>2 DEF Flush, Deliver, SelectMessage, StartUp, StartAccess, Refused, RefuseTransaction,
                Completed, ReadComplete, WriteComplete, StartReply, vars, sysAgent, memCtrl
  <2> QED
    BY <2>1 DEF OrderKept, Southbound
<1>3. CASE FinishUp \/ FinishReply
  <2>1. saTx'["bottom"] = saTx["bottom"] /\ saRx'["top"] = saRx["top"] /\ UNCHANGED <<mcRx, down>>
    BY <1>3, Counts DEF FinishUp, FinishReply, memCtrl
  <2> QED
    BY <2>1 DEF OrderKept, Southbound
<1>4. CASE Route \/ StartDown \/ FinishDown
  BY <1>4, OrderAfterRoute, OrderAfterStartDown, OrderAfterFinishDown
<1>5. CASE Served
  <2>1. mcRx # <<>>
    BY <1>5 DEF Served, IInv, PausesAreSafe
  <2>2. mcRx' = Tail(mcRx) /\ UNCHANGED <<down, saTx, saRx>>
    BY <1>5 DEF Served, EndCleanFlush, AddTransaction, AccessDirectly, sysAgent
  <2> QED
    BY <2>1, <2>2, OrderAfterServe
<1> QED
  BY <1>1, <1>2, <1>3, <1>4, <1>5 DEF Next

\* Requests leave the memory controller's queue in the order in which they come
\* from the ring, so that a load never overtakes an earlier write-back of its
\* block (sys_agent_ctrl_io_down(), memctrl_ctrl()).
THEOREM SouthboundKeepsOrder == Spec => SouthboundInOrder
<1>1. IInv /\ [Next]_vars => [OrderKept]_vars
  BY OrderAfterSteps
<1> QED
  BY <1>1, Invariance, PTL DEF Spec, SouthboundInOrder, OrderKept

=============================================================================
