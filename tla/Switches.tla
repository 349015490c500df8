------------------------------ MODULE Switches ------------------------------
(***************************************************************************)
(* The switches of cgm/switch.c: one for each core's L2 and L3 and one for *)
(* the hub and the system agent, joined in a ring.  Each has four ports, a *)
(* queue into and one out of each port on each of three virtual lanes, a   *)
(* controller task that moves packets across the crossbar, and a task for  *)
(* each port that takes packets out of it.                                 *)
(*                                                                         *)
(* A packet is its flow and its number in the flow.  What a cache puts     *)
(* into a switch and takes out of its own queues is the environment: the   *)
(* queues of an endpoint are the numbers of packets in them.               *)
(***************************************************************************)
EXTENDS Integers, SequencesExt

CONSTANTS
  NumCores,     \* x86_cpu_num_cores
  QueueSize,    \* the packets a queue takes
  Flow,         \* who sends to whom on which lane
  MaxPackets    \* bound on the packets of each flow

Switch == 0 .. NumCores
Node == 0 .. 3 * NumCores + 2
Port == {"north", "east", "south", "west"}
Lane == {"request", "reply", "coherence"}

\* The nodes of a switch: 3i the L2 (or hub), 3i+1 the switch, 3i+2 the L3 (or
\* system agent).
SwitchNode(s) == 3 * s + 1
SwitchOf(n) == n \div 3
Endpoint == {n \in Node : n % 3 # 1}

ASSUME SizesAssumption == NumCores \in Nat \ {0, 1} /\ QueueSize \in Nat \ {0}

\* No endpoint sends to itself ("crashing switch dest_node == src_node").
ASSUME FlowAssumption ==
  Flow \subseteq {f \in [src : Endpoint, dst : Endpoint, lane : Lane] : f.src # f.dst}
ASSUME PacketsAssumption == MaxPackets \in [Flow -> Nat]

Packet == UNION {[flow : {f}, n : 1 .. MaxPackets[f]] : f \in Flow}

VARIABLES
  rx,       \* the queues into each switch, by port and lane
  tx,       \* the queues out of each switch
  ec,       \* switches_ec: the advances of each controller
  step,     \* the count its await waits for
  queue,    \* the port the crossbar begins with
  lane,     \* next_crossbar_lane
  ioEc,     \* the advances of the io task of each port
  ioStep,   \* the count its await waits for
  ioLane,   \* its current_lane
  ioBusy,   \* whether it is in the pause of a transfer
  inbox,    \* how many packets are in each queue of each endpoint
  sent,     \* the packets of each flow that were put into the first switch
  rcvd      \* the number of the last one put into a queue of its destination
vars == <<rx, tx, ec, step, queue, lane, ioEc, ioStep, ioLane, ioBusy, inbox, sent, rcvd>>

-----------------------------------------------------------------------------
(* Routing *)

NextPort == [west |-> "north", north |-> "east", east |-> "south", south |-> "west"]
NextLane == [request |-> "reply", reply |-> "coherence", coherence |-> "request"]

NextEast(s) == IF s = NumCores THEN 0 ELSE s + 1
NextWest(s) == IF s = 0 THEN NumCores ELSE s - 1

\* The hops between two endpoints, not counting round the end of the ring.
Distance(dst, src) ==
  IF dst > src
  THEN IF dst % 3 # 0 /\ src % 3 = 0 THEN (dst - (src + 2)) \div 3 ELSE (dst - src) \div 3
  ELSE IF src % 3 = 0 /\ dst % 3 # 0 THEN ((src + 2) - dst) \div 3 ELSE (src - dst) \div 3

\* switch_median_node is half the number of switches, a float.
UpToMedian(d) == 2 * d <= NumCores + 1

\* Mutant: a packet in the queue from the east is taken for one that goes east.
switch_get_routeBack(s, p, f) ==
  IF f.dst \in {SwitchNode(s) - 1, SwitchNode(s) + 1}
  THEN IF f.dst < SwitchNode(s) THEN "north" ELSE "south"
  ELSE IF p \in {"east", "west"} THEN p
  ELSE IF (f.dst > f.src) <=> UpToMedian(Distance(f.dst, f.src)) THEN "east" ELSE "west"

\* Mutant: the endpoints of a switch the wrong way round.
switch_get_routeSwapped(s, p, f) ==
  IF f.dst \in {SwitchNode(s) - 1, SwitchNode(s) + 1}
  THEN IF f.dst > SwitchNode(s) THEN "north" ELSE "south"
  ELSE CASE p = "east" -> "west"
         [] p = "west" -> "east"
         [] p \in {"north", "south"} ->
              IF (f.dst > f.src) <=> UpToMedian(Distance(f.dst, f.src)) THEN "east" ELSE "west"

\* The port by which switch s sends a packet on that came in by port p.
switch_get_route(s, p, f) ==
  IF f.dst \in {SwitchNode(s) - 1, SwitchNode(s) + 1}
  THEN IF f.dst < SwitchNode(s) THEN "north" ELSE "south"
  ELSE CASE p = "east" -> "west"
         [] p = "west" -> "east"
         [] p \in {"north", "south"} ->
              IF (f.dst > f.src) <=> UpToMedian(Distance(f.dst, f.src)) THEN "east" ELSE "west"

-----------------------------------------------------------------------------
(* The crossbar *)

\* How many ports after the one the crossbar begins with p is looked at.
Rank(s, p) ==
  CASE p = queue[s] -> 0
    [] p = NextPort[queue[s]] -> 1
    [] p = NextPort[NextPort[queue[s]]] -> 2
    [] OTHER -> 3

\* switch_set_link() links a port out while there is room in its queue.
Linkable(s, o) == Len(tx[s][o][lane[s]]) < QueueSize

\* switch_crossbar_link(): each port with a packet on the current lane asks for
\* the port its first one goes out by; of those that ask for the same the first
\* gets it.  As a function from ports out to ports in.
Links(s) ==
  LET l == lane[s]
      asked == [p \in {q \in Port : rx[s][q][l] # <<>>} |-> switch_get_route(s, p, Head(rx[s][p][l]).flow)]
  IN [o \in {q \in Range(asked) : Linkable(s, q)} |->
        CHOOSE p \in DOMAIN asked :
          asked[p] = o /\ \A q \in DOMAIN asked : asked[q] = o => Rank(s, p) <= Rank(s, q)]

\* Mutant: a turn counts for one packet, as when it could move only one.
PairsOfOne(link) == 1

\* crossbar->num_pairs
Pairs(link) == Cardinality(DOMAIN link)

\* Mutant: a turn that links nothing stays on its lane.
LaneAfterLink(s, link) == IF link = <<>> THEN lane[s] ELSE NextLane[lane[s]]

\* switch_get_next_crossbar_lane()
LaneAfter(s, link) == NextLane[lane[s]]

\* One turn of switch_ctrl(): link, move a packet over each link, count the
\* links, and go on to the next lane and the next port.
switch_ctrl(s) ==
  LET link == Links(s)
      l == lane[s]
  IN /\ ec[s] >= step[s]
     /\ rx' = [rx EXCEPT ![s] = [p \in Port |->
                 IF p \in Range(link) THEN [rx[s][p] EXCEPT ![l] = Tail(rx[s][p][l])]
                                      ELSE rx[s][p]]]
     /\ tx' = [tx EXCEPT ![s] = [o \in Port |->
                 IF o \in DOMAIN link
                 THEN [tx[s][o] EXCEPT ![l] = Append(tx[s][o][l], Head(rx[s][link[o]][l]))]
                 ELSE tx[s][o]]]
     /\ ioEc' = [ioEc EXCEPT ![s] = [o \in Port |-> @[o] + IF o \in DOMAIN link THEN 1 ELSE 0]]
     /\ step' = [step EXCEPT ![s] = @ + Pairs(link)]
     /\ lane' = [lane EXCEPT ![s] = LaneAfter(s, link)]
     /\ queue' = [queue EXCEPT ![s] = NextPort[@]]
     /\ UNCHANGED <<ec, ioStep, ioLane, ioBusy, inbox, sent, rcvd>>

-----------------------------------------------------------------------------
(* The io tasks *)

\* The queue of an endpoint that takes the packets of a lane.
Inbox(n, l) ==
  CASE SwitchOf(n) = NumCores -> "rx"
    [] n % 3 = 0 /\ l \in {"request", "reply"} -> "bottom"
    [] n % 3 = 2 /\ l = "request" -> "top"
    [] n % 3 = 2 /\ l = "reply" -> "bottom"
    [] l = "coherence" -> "coherence"

InboxName == {"rx", "top", "bottom", "coherence"}

EndpointAt(s, p) == IF p = "north" THEN SwitchNode(s) - 1 ELSE SwitchNode(s) + 1

\* Mutant: the comparison the system agent uses.
HasRoomForOneMore(s, p, l) ==
  CASE p = "east" -> Len(rx[NextEast(s)]["west"][l]) <= QueueSize
    [] p = "west" -> Len(rx[NextWest(s)]["east"][l]) <= QueueSize
    [] OTHER -> inbox[EndpointAt(s, p)][Inbox(EndpointAt(s, p), l)] <= QueueSize

\* Whether there is room where the io task of port p puts the packets of lane l.
HasRoom(s, p, l) ==
  CASE p = "east" -> Len(rx[NextEast(s)]["west"][l]) < QueueSize
    [] p = "west" -> Len(rx[NextWest(s)]["east"][l]) < QueueSize
    [] OTHER -> inbox[EndpointAt(s, p)][Inbox(EndpointAt(s, p), l)] < QueueSize

\* The lane it finds a packet on, trying them in turn from the current one.
Found(s, p) ==
  LET l == ioLane[s][p]
  IN CASE tx[s][p][l] # <<>> -> l
       [] tx[s][p][l] = <<>> /\ tx[s][p][NextLane[l]] # <<>> -> NextLane[l]
       [] OTHER -> NextLane[NextLane[l]]

\* The io task looks at the first packet of a lane and at the queue it is for.
\* With no room there it pauses for a cycle and tries the next lane.
LookIo(s, p) ==
  LET l == Found(s, p)
  IN /\ ~ioBusy[s][p]
     /\ ioEc[s][p] >= ioStep[s][p]
     /\ tx[s][p][l] # <<>>
     /\ IF HasRoom(s, p, l)
        THEN /\ ioBusy' = [ioBusy EXCEPT ![s][p] = TRUE]
             /\ ioStep' = [ioStep EXCEPT ![s][p] = @ + 1]
             /\ ioLane' = [ioLane EXCEPT ![s][p] = l]
        ELSE /\ ioLane' = [ioLane EXCEPT ![s][p] = NextLane[l]]
             /\ UNCHANGED <<ioBusy, ioStep>>
     /\ UNCHANGED <<rx, tx, ec, step, queue, lane, ioEc, inbox, sent, rcvd>>

\* After the pause it takes the packet out and puts it into the next switch...
TransferIo(s, p) ==
  LET l == ioLane[s][p]
      to == IF p = "east" THEN NextEast(s) ELSE NextWest(s)
      in == IF p = "east" THEN "west" ELSE "east"
  IN /\ p \in {"east", "west"}
     /\ ioBusy[s][p]
     /\ rx' = [rx EXCEPT ![to][in][l] = Append(@, Head(tx[s][p][l]))]
     /\ ec' = [ec EXCEPT ![to] = @ + 1]
     /\ tx' = [tx EXCEPT ![s][p][l] = Tail(@)]
     /\ ioBusy' = [ioBusy EXCEPT ![s][p] = FALSE]
     /\ ioLane' = [ioLane EXCEPT ![s][p] = NextLane[l]]
     /\ UNCHANGED <<step, queue, lane, ioEc, ioStep, inbox, sent, rcvd>>

\* ... or into a queue of the endpoint.
DeliverIo(s, p) ==
  LET l == ioLane[s][p]
      packet == Head(tx[s][p][l])
      n == EndpointAt(s, p)
  IN /\ p \in {"north", "south"}
     /\ ioBusy[s][p]
     /\ inbox' = [inbox EXCEPT ![n][Inbox(n, l)] = @ + 1]
     /\ rcvd' = IF n = packet.flow.dst THEN [rcvd EXCEPT ![packet.flow] = packet.n] ELSE rcvd
     /\ tx' = [tx EXCEPT ![s][p][l] = Tail(@)]
     /\ ioBusy' = [ioBusy EXCEPT ![s][p] = FALSE]
     /\ ioLane' = [ioLane EXCEPT ![s][p] = NextLane[l]]
     /\ UNCHANGED <<rx, ec, step, queue, lane, ioEc, ioStep, sent>>

-----------------------------------------------------------------------------
(* The endpoints *)

PortOf(n) == IF n % 3 = 0 THEN "north" ELSE "south"

\* What may be in the queue into the switch when an endpoint adds to it: the
\* hub leaves a place free on the request lane, the system agent looks for more
\* than QueueSize, the caches for QueueSize.
MayQueue(n, l) ==
  CASE n = 3 * NumCores /\ l = "request" -> QueueSize - 1
    [] n = 3 * NumCores + 2 -> QueueSize + 1
    [] OTHER -> QueueSize

\* An endpoint puts the next packet of a flow into its switch.  It alone fills
\* this queue, so that the room it found before its pause is still there.
Send(f) ==
  LET s == SwitchOf(f.src)
      p == PortOf(f.src)
  IN /\ sent[f] < MaxPackets[f]
     /\ Len(rx[s][p][f.lane]) < MayQueue(f.src, f.lane)
     /\ sent' = [sent EXCEPT ![f] = @ + 1]
     /\ rx' = [rx EXCEPT ![s][p][f.lane] = Append(@, [flow |-> f, n |-> sent[f] + 1])]
     /\ ec' = [ec EXCEPT ![s] = @ + 1]
     /\ UNCHANGED <<tx, step, queue, lane, ioEc, ioStep, ioLane, ioBusy, inbox, rcvd>>

\* An endpoint takes a packet from one of its queues.
Consume(n, q) ==
  /\ inbox[n][q] > 0
  /\ inbox' = [inbox EXCEPT ![n][q] = @ - 1]
  /\ UNCHANGED <<rx, tx, ec, step, queue, lane, ioEc, ioStep, ioLane, ioBusy, sent, rcvd>>

-----------------------------------------------------------------------------
Init ==
  /\ rx = [s \in Switch |-> [p \in Port |-> [l \in Lane |-> <<>>]]]
  /\ tx = rx
  /\ ec = [s \in Switch |-> 0]
  /\ step = [s \in Switch |-> 1]
  /\ queue = [s \in Switch |-> "west"]
  /\ lane = [s \in Switch |-> "request"]
  /\ ioEc = [s \in Switch |-> [p \in Port |-> 0]]
  /\ ioStep = [s \in Switch |-> [p \in Port |-> 1]]
  /\ ioLane = [s \in Switch |-> [p \in Port |-> "request"]]
  /\ ioBusy = [s \in Switch |-> [p \in Port |-> FALSE]]
  /\ inbox = [n \in Endpoint |-> [q \in InboxName |-> 0]]
  /\ sent = [f \in Flow |-> 0]
  /\ rcvd = [f \in Flow |-> 0]

Io(s, p) == LookIo(s, p) \/ TransferIo(s, p) \/ DeliverIo(s, p)

Next ==
  \/ \E f \in Flow : Send(f)
  \/ \E s \in Switch : switch_ctrl(s)
  \/ \E s \in Switch, p \in Port : Io(s, p)
  \/ \E n \in Endpoint, q \in InboxName : Consume(n, q)

Spec == Init /\ [][Next]_vars

\* Every pause ends, and while there are packets in the queues of the endpoints
\* some are taken; nobody has to send.
FairSpec ==
  /\ Spec
  /\ \A s \in Switch : WF_vars(switch_ctrl(s))
  /\ \A s \in Switch, p \in Port : WF_vars(Io(s, p))
  /\ WF_vars(\E n \in Endpoint, q \in InboxName : Consume(n, q))

-----------------------------------------------------------------------------
(* Properties *)

\* No queue grows past its size, also where it is looked at before a pause and
\* filled after it; the system agent's may by one packet.
TypeOK ==
  /\ rx \in [Switch -> [Port -> [Lane -> Seq(Packet)]]]
  /\ tx \in [Switch -> [Port -> [Lane -> Seq(Packet)]]]
  /\ \A s \in Switch, p \in Port, l \in Lane :
       /\ Len(tx[s][p][l]) <= QueueSize
       /\ Len(rx[s][p][l]) <= QueueSize + IF s = NumCores /\ p = "south" THEN 1 ELSE 0
  /\ ec \in [Switch -> Nat] /\ step \in [Switch -> Nat]
  /\ queue \in [Switch -> Port] /\ lane \in [Switch -> Lane]
  /\ ioEc \in [Switch -> [Port -> Nat]] /\ ioStep \in [Switch -> [Port -> Nat]]
  /\ ioLane \in [Switch -> [Port -> Lane]] /\ ioBusy \in [Switch -> [Port -> BOOLEAN]]
  /\ inbox \in [Endpoint -> [InboxName -> 0 .. QueueSize]]
  /\ sent \in [Flow -> Nat] /\ rcvd \in [Flow -> Nat]
  /\ \A f \in Flow : sent[f] <= MaxPackets[f] /\ rcvd[f] <= sent[f]

Waiting(queues) == Len(queues["request"]) + Len(queues["reply"]) + Len(queues["coherence"])

WaitingIn(ports) ==
  Waiting(ports["north"]) + Waiting(ports["east"]) + Waiting(ports["south"]) + Waiting(ports["west"])

\* The advances a task has not used up are the packets it has yet to move, over
\* turns that link none, one or several ports, lanes that are tried and passed
\* over, and transfers that were counted and are not done.  With fewer a packet
\* would stay for ever, with more an io task would look for one for ever.
Credits ==
  \A s \in Switch :
    /\ ec[s] - (step[s] - 1) = WaitingIn(rx[s])
    /\ \A p \in Port :
         ioEc[s][p] - (ioStep[s][p] - 1) = Waiting(tx[s][p]) - IF ioBusy[s][p] THEN 1 ELSE 0

\* The way of a flow: the port it leaves its first switch by, how many switches
\* after that one a switch is, round the ring that way, and how many the last is.
Leaves(f) == switch_get_route(SwitchOf(f.src), PortOf(f.src), f)
Hop(f, s) ==
  LET from == SwitchOf(f.src)
      back == Leaves(f) = "west"
  IN CASE back /\ s <= from -> from - s
       [] back /\ s > from -> from + NumCores + 1 - s
       [] ~back /\ s >= from -> s - from
       [] ~back /\ s < from -> s + NumCores + 1 - from
Hops(f) == Hop(f, SwitchOf(f.dst))

\* The ports by which it goes into and out of a switch.
ComesBy(f, s) ==
  IF s = SwitchOf(f.src) THEN PortOf(f.src) ELSE IF Leaves(f) = "west" THEN "east" ELSE "west"
GoesBy(f, s) == IF s = SwitchOf(f.dst) THEN PortOf(f.dst) ELSE Leaves(f)

\* A packet is in a switch between the first and the last of its flow, on the
\* flow's lane and at the flow's ports: with every hop it comes closer, none
\* goes round the ring or back, and none is sent on by the switch it is for.
OnTheWay ==
  \A s \in Switch, p \in Port, l \in Lane :
    /\ \A packet \in Range(rx[s][p][l]) :
         LET f == packet.flow IN l = f.lane /\ p = ComesBy(f, s) /\ Hop(f, s) <= Hops(f)
    /\ \A packet \in Range(tx[s][p][l]) :
         LET f == packet.flow IN l = f.lane /\ p = GoesBy(f, s) /\ Hop(f, s) <= Hops(f)

\* The packets of a flow that are in the queues of the switches.
UnderWay(f) ==
  {n \in 1 .. MaxPackets[f] :
     \E s \in Switch, p \in Port :
       [flow |-> f, n |-> n] \in Range(rx[s][p][f.lane]) \cup Range(tx[s][p][f.lane])}

\* The ring of switches is an interconnect: whatever way round a packet takes,
\* and however the turns, pauses and full queues of the tasks fall together, it
\* is neither lost, doubled nor sent astray, and it does not overtake another
\* of its flow, which the handlers of the caches rely on.
Abstract == INSTANCE Interconnect WITH chan <- [f \in Flow |-> UnderWay(f)]
ImplementsInterconnect == Abstract!Spec

\* The packets in the switches come out of them, through ports and lanes shared
\* with others and queues that are full, as long as the endpoints take packets.
PacketsArrive == sent # rcvd ~> sent = rcvd
=============================================================================
