--------------------------- MODULE SwitchesProofs ---------------------------
(***************************************************************************)
(* Proofs about the switches of cgm/switch.c, for every number of cores,   *)
(* every size of the queues and whatever traffic the endpoints have: the   *)
(* tasks never fill a queue past its size, every advance they were given   *)
(* stands for a packet they have yet to move, every packet keeps to the    *)
(* way of its flow, and so the switches together are the interconnect of   *)
(* Interconnect.tla, which delivers each packet once and in order.         *)
(***************************************************************************)
EXTENDS Switches, FiniteSetTheorems, SequenceTheorems, TLAPS

(***************************************************************************)
(* Nodes and ports                                                         *)
(***************************************************************************)

\* The quotient of a node by three is its switch.
LEMMA ThreeNodes ==
  ASSUME NEW n \in Nat
  PROVE  n \div 3 \in Nat /\ 3 * (n \div 3) <= n /\ n < 3 * (n \div 3) + 3
OBVIOUS

LEMMA NodesOfSwitch ==
  ASSUME NEW s \in Nat
  PROVE  /\ (3*s) \div 3 = s /\ (3*s) % 3 = 0
         /\ (3*s + 1) \div 3 = s /\ (3*s + 1) % 3 = 1
         /\ (3*s + 2) \div 3 = s /\ (3*s + 2) % 3 = 2
OBVIOUS

\* An endpoint is on the north or on the south of its switch.
LEMMA EndpointPlace ==
  ASSUME NEW n \in Endpoint
  PROVE  /\ SwitchOf(n) \in Switch /\ PortOf(n) \in {"north", "south"}
         /\ \/ n = 3 * SwitchOf(n) /\ n % 3 = 0 /\ PortOf(n) = "north"
            \/ n = 3 * SwitchOf(n) + 2 /\ n % 3 = 2 /\ PortOf(n) = "south"
         /\ n = EndpointAt(SwitchOf(n), PortOf(n))
PROOF
  <1> DEFINE s == n \div 3
  <1>1. n \in Nat /\ n <= 3 * NumCores + 2 /\ n % 3 # 1 /\ NumCores \in Nat
    BY SizesAssumption DEF Endpoint, Node
  <1>2. s \in Nat /\ 3 * s <= n /\ n < 3 * s + 3
    BY <1>1, ThreeNodes
  <1> HIDE DEF s
  <1>3. n = 3 * s \/ n = 3 * s + 1 \/ n = 3 * s + 2
    BY <1>1, <1>2
  <1>4. (n = 3 * s /\ n % 3 = 0) \/ (n = 3 * s + 2 /\ n % 3 = 2)
    BY <1>1, <1>2, <1>3, NodesOfSwitch
  <1>5. s \in Switch
    BY <1>1, <1>2 DEF Switch
  <1>6. SwitchOf(n) = s
    BY DEF s, SwitchOf
  <1>7. CASE n = 3 * s /\ n % 3 = 0
    BY <1>2, <1>5, <1>6, <1>7 DEF PortOf, EndpointAt, SwitchNode
  <1>8. CASE n = 3 * s + 2 /\ n % 3 = 2
    BY <1>2, <1>5, <1>6, <1>8 DEF PortOf, EndpointAt, SwitchNode
  <1> QED BY <1>4, <1>7, <1>8

LEMMA EndpointOfPort ==
  ASSUME NEW s \in Switch, NEW p \in {"north", "south"}
  PROVE  /\ EndpointAt(s, p) \in Endpoint
         /\ SwitchOf(EndpointAt(s, p)) = s /\ PortOf(EndpointAt(s, p)) = p
PROOF
  <1>1. s \in Nat /\ s <= NumCores /\ NumCores \in Nat
    BY SizesAssumption DEF Switch
  <1>2. CASE p = "north"
    <2>1. EndpointAt(s, p) = 3 * s
      BY <1>1, <1>2 DEF EndpointAt, SwitchNode
    <2>2. (3 * s) \div 3 = s /\ (3 * s) % 3 = 0
      BY <1>1, NodesOfSwitch
    <2>3. 3 * s \in 0 .. 3 * NumCores + 2
      BY <1>1
    <2> QED BY <1>2, <2>1, <2>2, <2>3 DEF Endpoint, Node, SwitchOf, PortOf
  <1>3. CASE p = "south"
    <2>1. EndpointAt(s, p) = 3 * s + 2
      BY <1>1, <1>3 DEF EndpointAt, SwitchNode
    <2>2. (3 * s + 2) \div 3 = s /\ (3 * s + 2) % 3 = 2
      BY <1>1, NodesOfSwitch
    <2>3. 3 * s + 2 \in 0 .. 3 * NumCores + 2
      BY <1>1
    <2> QED BY <1>3, <2>1, <2>2, <2>3 DEF Endpoint, Node, SwitchOf, PortOf
  <1> QED BY <1>2, <1>3

\* Every endpoint has a queue for each lane.
LEMMA InboxType ==
  ASSUME NEW n \in Endpoint, NEW l \in Lane
  PROVE  Inbox(n, l) \in InboxName
PROOF
  <1>1. n % 3 = 0 \/ n % 3 = 2
    BY EndpointPlace
  <1> QED BY <1>1 DEF Inbox, InboxName, Lane

\* The ring.
LEMMA Neighbours ==
  ASSUME NEW s \in Switch
  PROVE  /\ NextEast(s) \in Switch /\ NextWest(s) \in Switch
         /\ \A t \in Switch : NextEast(t) = NextEast(s) => t = s
         /\ \A t \in Switch : NextWest(t) = NextWest(s) => t = s
BY SizesAssumption DEF NextEast, NextWest, Switch

\* The number of ports in a set.
One(b) == IF b THEN 1 ELSE 0

LEMMA PortCount ==
  ASSUME NEW S \in SUBSET Port
  PROVE  /\ IsFiniteSet(S)
         /\ Cardinality(S) = One("north" \in S) + One("east" \in S) + One("south" \in S) + One("west" \in S)
PROOF
  <1> DEFINE A == S \ {"north"}
             B == A \ {"east"}
             C == B \ {"south"}
             D == C \ {"west"}
  <1>1. IsFiniteSet(Port)
    <2>1. IsFiniteSet({}) /\ Port = ((({} \cup {"north"}) \cup {"east"}) \cup {"south"}) \cup {"west"}
      BY FS_EmptySet DEF Port
    <2>2. IsFiniteSet({} \cup {"north"})
      BY <2>1, FS_AddElement
    <2>3. IsFiniteSet(({} \cup {"north"}) \cup {"east"})
      BY <2>2, FS_AddElement
    <2>4. IsFiniteSet((({} \cup {"north"}) \cup {"east"}) \cup {"south"})
      BY <2>3, FS_AddElement
    <2> QED BY <2>1, <2>4, FS_AddElement
  <1>2. IsFiniteSet(S)
    BY <1>1, FS_Subset
  <1>3. D = {}
    BY DEF Port
  <1>4. IsFiniteSet(A) /\ IsFiniteSet(B) /\ IsFiniteSet(C) /\ IsFiniteSet(D)
    <2>1. A \subseteq S /\ B \subseteq S /\ C \subseteq S /\ D \subseteq S
      OBVIOUS
    <2> HIDE DEF A, B, C, D
    <2> QED BY <1>2, <2>1, FS_Subset
  <1>5. Cardinality(A) = IF "north" \in S THEN Cardinality(S) - 1 ELSE Cardinality(S)
    BY <1>2, FS_RemoveElement
  <1>6. Cardinality(B) = IF "east" \in A THEN Cardinality(A) - 1 ELSE Cardinality(A)
    <2> HIDE DEF A
    <2> QED BY <1>4, FS_RemoveElement
  <1>7. Cardinality(C) = IF "south" \in B THEN Cardinality(B) - 1 ELSE Cardinality(B)
    <2> HIDE DEF B
    <2> QED BY <1>4, FS_RemoveElement
  <1>8. Cardinality(D) = IF "west" \in C THEN Cardinality(C) - 1 ELSE Cardinality(C)
    <2> HIDE DEF C
    <2> QED BY <1>4, FS_RemoveElement
  <1>9. /\ "east" \in A <=> "east" \in S
        /\ "south" \in B <=> "south" \in S
        /\ "west" \in C <=> "west" \in S
    OBVIOUS
  <1>10. Cardinality(D) = 0 /\ Cardinality(S) \in Nat /\ Cardinality(A) \in Nat
         /\ Cardinality(B) \in Nat /\ Cardinality(C) \in Nat
    BY <1>2, <1>3, <1>4, FS_EmptySet, FS_CardinalityType
  <1> HIDE DEF A, B, C, D
  <1> QED BY <1>2, <1>5, <1>6, <1>7, <1>8, <1>9, <1>10 DEF One

(***************************************************************************)
(* Packets and queues                                                      *)
(***************************************************************************)

LEMMA PacketType ==
  /\ \A packet \in Packet : packet.flow \in Flow /\ packet.n \in 1 .. MaxPackets[packet.flow]
                            /\ packet = [flow |-> packet.flow, n |-> packet.n]
  /\ \A f \in Flow : \A k \in 1 .. MaxPackets[f] : [flow |-> f, n |-> k] \in Packet
BY DEF Packet

LEMMA FlowType ==
  ASSUME NEW f \in Flow
  PROVE  f.src \in Endpoint /\ f.dst \in Endpoint /\ f.lane \in Lane /\ f.src # f.dst /\ MaxPackets[f] \in Nat
BY FlowAssumption, PacketsAssumption

\* The ends of a queue.
LEMMA QueueEnds ==
  ASSUME NEW S, NEW q \in Seq(S)
  PROVE  /\ Len(q) \in Nat
         /\ \A i \in 1..Len(q) : q[i] \in S
         /\ q # << >> <=> Len(q) > 0
         /\ q # << >> => /\ Head(q) \in S /\ Head(q) = q[1] /\ 1 \in 1..Len(q)
                         /\ Tail(q) \in Seq(S) /\ Len(Tail(q)) = Len(q) - 1
                         /\ \A i \in 1..Len(Tail(q)) : i+1 \in 1..Len(q) /\ Tail(q)[i] = q[i+1]
         /\ \A x \in S : /\ Append(q, x) \in Seq(S) /\ Len(Append(q, x)) = Len(q) + 1
                         /\ Append(q, x) # << >>
                         /\ \A i \in 1..Len(Append(q, x)) :
                              Append(q, x)[i] = IF i <= Len(q) THEN q[i] ELSE x
PROOF
  <1>1. /\ Len(q) \in Nat /\ \A i \in 1..Len(q) : q[i] \in S
    BY LenProperties, ElementOfSeq
  <1>2. q # << >> <=> Len(q) > 0
    BY <1>1, EmptySeq
  <1>3. ASSUME q # << >>
        PROVE  /\ Head(q) \in S /\ Head(q) = q[1] /\ 1 \in 1..Len(q)
               /\ Tail(q) \in Seq(S) /\ Len(Tail(q)) = Len(q) - 1
               /\ \A i \in 1..Len(Tail(q)) : i+1 \in 1..Len(q) /\ Tail(q)[i] = q[i+1]
    <2>1. /\ Head(q) \in S /\ Head(q) = q[1]
          /\ Tail(q) \in Seq(S) /\ Len(Tail(q)) = Len(q) - 1
          /\ \A i \in 1..Len(Tail(q)) : Tail(q)[i] = q[i+1]
      BY <1>3, HeadTailProperties
    <2> QED BY <1>1, <1>2, <1>3, <2>1
  <1>4. ASSUME NEW x \in S
        PROVE  /\ Append(q, x) \in Seq(S) /\ Len(Append(q, x)) = Len(q) + 1
               /\ Append(q, x) # << >>
               /\ \A i \in 1..Len(Append(q, x)) :
                    Append(q, x)[i] = IF i <= Len(q) THEN q[i] ELSE x
    <2>1. /\ Append(q, x) \in Seq(S) /\ Len(Append(q, x)) = Len(q) + 1
          /\ Append(q, x) # << >>
          /\ \A i \in 1..Len(q) : Append(q, x)[i] = q[i]
          /\ Append(q, x)[Len(q) + 1] = x
      BY AppendProperties
    <2> QED BY <1>1, <2>1
  <1> QED BY <1>1, <1>2, <1>3, <1>4

\* The packets waiting in the queues of a port.
LEMMA WaitingType ==
  ASSUME NEW q \in [Lane -> Seq(Packet)]
  PROVE  Waiting(q) \in Nat
PROOF
  <1>1. \A l \in Lane : q[l] \in Seq(Packet)
    OBVIOUS
  <1>2. \A l \in Lane : Len(q[l]) \in Nat
    BY <1>1, LenProperties
  <1> QED BY <1>2 DEF Waiting, Lane

LEMMA OneMoreWaiting ==
  ASSUME NEW q \in [Lane -> Seq(Packet)], NEW r, NEW l \in Lane,
         Len(r[l]) = Len(q[l]) + 1, \A m \in Lane : m # l => r[m] = q[m]
  PROVE  Waiting(r) = Waiting(q) + 1
PROOF
  <1>1. \A m \in Lane : q[m] \in Seq(Packet)
    OBVIOUS
  <1>2. \A m \in Lane : Len(q[m]) \in Nat
    BY <1>1, LenProperties
  <1> DEFINE a == Len(q["request"])
             b == Len(q["reply"])
             c == Len(q["coherence"])
  <1>3. a \in Nat /\ b \in Nat /\ c \in Nat /\ Waiting(q) = a + b + c
    BY <1>2 DEF Lane, Waiting
  <1>4. CASE l = "request"
    <2>1. r["reply"] = q["reply"] /\ r["coherence"] = q["coherence"]
      BY <1>4 DEF Lane
    <2>2. Waiting(r) = (a + 1) + b + c
      BY <1>4, <2>1 DEF Waiting
    <2> HIDE DEF a, b, c
    <2> QED BY <1>3, <2>2
  <1>5. CASE l = "reply"
    <2>1. r["request"] = q["request"] /\ r["coherence"] = q["coherence"]
      BY <1>5 DEF Lane
    <2>2. Waiting(r) = a + (b + 1) + c
      BY <1>5, <2>1 DEF Waiting
    <2> HIDE DEF a, b, c
    <2> QED BY <1>3, <2>2
  <1>6. CASE l = "coherence"
    <2>1. r["request"] = q["request"] /\ r["reply"] = q["reply"]
      BY <1>6 DEF Lane
    <2>2. Waiting(r) = a + b + (c + 1)
      BY <1>6, <2>1 DEF Waiting
    <2> HIDE DEF a, b, c
    <2> QED BY <1>3, <2>2
  <1> QED BY <1>4, <1>5, <1>6 DEF Lane

LEMMA OneFewerWaiting ==
  ASSUME NEW q \in [Lane -> Seq(Packet)], NEW r, NEW l \in Lane,
         Len(r[l]) = Len(q[l]) - 1, \A m \in Lane : m # l => r[m] = q[m]
  PROVE  Waiting(r) = Waiting(q) - 1
PROOF
  <1>1. \A m \in Lane : q[m] \in Seq(Packet)
    OBVIOUS
  <1>2. \A m \in Lane : Len(q[m]) \in Nat
    BY <1>1, LenProperties
  <1> DEFINE a == Len(q["request"])
             b == Len(q["reply"])
             c == Len(q["coherence"])
  <1>3. a \in Nat /\ b \in Nat /\ c \in Nat /\ Waiting(q) = a + b + c
    BY <1>2 DEF Lane, Waiting
  <1>4. CASE l = "request"
    <2>1. r["reply"] = q["reply"] /\ r["coherence"] = q["coherence"]
      BY <1>4 DEF Lane
    <2>2. Waiting(r) = (a - 1) + b + c
      BY <1>4, <2>1 DEF Waiting
    <2> HIDE DEF a, b, c
    <2> QED BY <1>3, <2>2
  <1>5. CASE l = "reply"
    <2>1. r["request"] = q["request"] /\ r["coherence"] = q["coherence"]
      BY <1>5 DEF Lane
    <2>2. Waiting(r) = a + (b - 1) + c
      BY <1>5, <2>1 DEF Waiting
    <2> HIDE DEF a, b, c
    <2> QED BY <1>3, <2>2
  <1>6. CASE l = "coherence"
    <2>1. r["request"] = q["request"] /\ r["reply"] = q["reply"]
      BY <1>6 DEF Lane
    <2>2. Waiting(r) = a + b + (c - 1)
      BY <1>6, <2>1 DEF Waiting
    <2> HIDE DEF a, b, c
    <2> QED BY <1>3, <2>2
  <1> QED BY <1>4, <1>5, <1>6 DEF Lane

(***************************************************************************)
(* The crossbar                                                            *)
(***************************************************************************)

LEMMA RouteType ==
  ASSUME NEW s, NEW p \in Port, NEW f
  PROVE  switch_get_route(s, p, f) \in Port
PROOF
  <1>1. CASE p = "east"
    BY <1>1 DEF switch_get_route, Port
  <1>2. CASE p = "west"
    BY <1>2 DEF switch_get_route, Port
  <1>3. CASE p \in {"north", "south"}
    BY <1>3 DEF switch_get_route, Port
  <1> QED BY <1>1, <1>2, <1>3 DEF Port

\* Some port is looked at first.
LEMMA FirstRank ==
  ASSUME NEW s, NEW S \in SUBSET Port, S # {}
  PROVE  \E p \in S : \A q \in S : Rank(s, p) <= Rank(s, q)
PROOF
  <1>1. \A p \in S : Rank(s, p) \in 0..3
    BY DEF Rank
  <1>2. CASE \E p \in S : Rank(s, p) = 0
    BY <1>1, <1>2
  <1>3. CASE (\A p \in S : Rank(s, p) # 0) /\ (\E p \in S : Rank(s, p) = 1)
    BY <1>1, <1>3
  <1>4. CASE (\A p \in S : Rank(s, p) # 0 /\ Rank(s, p) # 1) /\ (\E p \in S : Rank(s, p) = 2)
    BY <1>1, <1>4
  <1>5. CASE \A p \in S : Rank(s, p) # 0 /\ Rank(s, p) # 1 /\ Rank(s, p) # 2
    BY <1>1, <1>5
  <1> QED BY <1>2, <1>3, <1>4, <1>5

\* A link goes from a port with a packet to the port that packet goes out by,
\* which has room, and no port has two.
LEMMA LinksSound ==
  ASSUME TypeOK, NEW s \in Switch
  PROVE  /\ DOMAIN Links(s) \subseteq Port
         /\ \A o \in DOMAIN Links(s) :
              /\ Links(s)[o] \in Port
              /\ rx[s][Links(s)[o]][lane[s]] # << >>
              /\ switch_get_route(s, Links(s)[o], Head(rx[s][Links(s)[o]][lane[s]]).flow) = o
              /\ Len(tx[s][o][lane[s]]) < QueueSize
         /\ \A o, q \in DOMAIN Links(s) : Links(s)[o] = Links(s)[q] => o = q
PROOF
  <1> DEFINE l == lane[s]
             asking == {q \in Port : rx[s][q][l] # <<>>}
             asked == [p \in asking |-> switch_get_route(s, p, Head(rx[s][p][l]).flow)]
             D == {q \in Range(asked) : Linkable(s, q)}
             First(o) == CHOOSE p \in DOMAIN asked :
                           asked[p] = o /\ \A q \in DOMAIN asked : asked[q] = o => Rank(s, p) <= Rank(s, q)
  <1>1. Links(s) = [o \in D |-> First(o)]
    BY DEF Links
  <1>2. DOMAIN asked = asking /\ Range(asked) = {asked[p] : p \in asking}
    BY DEF Range
  <1>3. \A p \in asking : /\ p \in Port /\ rx[s][p][l] # << >> /\ asked[p] \in Port
                          /\ asked[p] = switch_get_route(s, p, Head(rx[s][p][l]).flow)
    BY RouteType
  <1> HIDE DEF asked, asking
  <1>4. ASSUME NEW o \in D
        PROVE  First(o) \in asking /\ asked[First(o)] = o
    <2> DEFINE S == {p \in asking : asked[p] = o}
    <2>1. S # {} /\ S \in SUBSET Port
      BY <1>2, <1>3, <1>4
    <2> HIDE DEF S
    <2>2. PICK p \in S : \A q \in S : Rank(s, p) <= Rank(s, q)
      BY <2>1, FirstRank
    <2>3. p \in DOMAIN asked /\ asked[p] = o /\ \A q \in DOMAIN asked : asked[q] = o => Rank(s, p) <= Rank(s, q)
      BY <1>2, <2>2 DEF S
    <2> QED BY <1>2, <2>3
  <1>5. DOMAIN Links(s) = D /\ \A o \in D : Links(s)[o] = First(o)
    BY <1>1
  <1>6. D \subseteq Port /\ \A o \in D : Len(tx[s][o][l]) < QueueSize
    BY <1>2, <1>3 DEF Linkable
  <1> HIDE DEF First, D
  <1> QED BY <1>3, <1>4, <1>5, <1>6

\* The number of links is the number of ports that lose a packet.
LEMMA PairsCounted ==
  ASSUME TypeOK, NEW s \in Switch
  PROVE  Pairs(Links(s)) = One("north" \in Range(Links(s))) + One("east" \in Range(Links(s)))
                           + One("south" \in Range(Links(s))) + One("west" \in Range(Links(s)))
PROOF
  <1> DEFINE link == Links(s)
             D == DOMAIN link
             R == {link[o] : o \in D}
  <1>1. D \in SUBSET Port /\ R \in SUBSET Port /\ \A o, q \in D : link[o] = link[q] => o = q
    BY LinksSound
  <1>2. Range(link) = R
    BY DEF Range
  <1>3. IsFiniteSet(D) /\ IsFiniteSet(R)
    <2> HIDE DEF D, R
    <2> QED BY <1>1, PortCount
  <1>4. Cardinality(R) = Cardinality(D)
    <2> DEFINE g == [o \in D |-> link[o]]
    <2> HIDE DEF link
    <2>1. g \in Bijection(D, R)
      <3>1. g \in [D -> R]
        OBVIOUS
      <3>2. \A o, q \in D : g[o] = g[q] => o = q
        BY <1>1
      <3>3. \A r \in R : \E o \in D : g[o] = r
        OBVIOUS
      <3> QED BY <3>1, <3>2, <3>3 DEF Bijection, Injection, Surjection, IsInjective
    <2>2. ExistsBijection(D, R)
      BY <2>1 DEF ExistsBijection
    <2> HIDE DEF D, R
    <2> QED BY <1>3, <2>2, FS_Bijection
  <1>5. Pairs(link) = Cardinality(D)
    BY DEF Pairs
  <1>6. Cardinality(R) = One("north" \in R) + One("east" \in R) + One("south" \in R) + One("west" \in R)
    <2> HIDE DEF R
    <2> QED BY <1>1, PortCount
  <1> QED BY <1>2, <1>4, <1>5, <1>6

\* What a turn of the crossbar does to each queue.
LEMMA CrossbarMoves ==
  ASSUME TypeOK, NEW s \in Switch, switch_ctrl(s)
  PROVE  /\ rx' \in [Switch -> [Port -> [Lane -> Seq(Packet)]]]
         /\ tx' \in [Switch -> [Port -> [Lane -> Seq(Packet)]]]
         /\ \A t \in Switch, p \in Port, m \in Lane :
              /\ rx'[t][p][m] = IF t = s /\ m = lane[s] /\ p \in Range(Links(s))
                                THEN Tail(rx[t][p][m]) ELSE rx[t][p][m]
              /\ tx'[t][p][m] = IF t = s /\ m = lane[s] /\ p \in DOMAIN Links(s)
                                THEN Append(tx[t][p][m], Head(rx[s][Links(s)[p]][lane[s]]))
                                ELSE tx[t][p][m]
PROOF
  <1> DEFINE link == Links(s)
             l == lane[s]
             ports == [p \in Port |-> IF p \in Range(link) THEN [rx[s][p] EXCEPT ![l] = Tail(rx[s][p][l])]
                                                           ELSE rx[s][p]]
             outs == [o \in Port |-> IF o \in DOMAIN link
                                     THEN [tx[s][o] EXCEPT ![l] = Append(tx[s][o][l], Head(rx[s][link[o]][l]))]
                                     ELSE tx[s][o]]
  <1>1. rx' = [rx EXCEPT ![s] = ports] /\ tx' = [tx EXCEPT ![s] = outs]
    BY DEF switch_ctrl
  <1>2. /\ rx \in [Switch -> [Port -> [Lane -> Seq(Packet)]]]
        /\ tx \in [Switch -> [Port -> [Lane -> Seq(Packet)]]]
        /\ l \in Lane
    BY DEF TypeOK
  <1>3. /\ \A o \in DOMAIN link : link[o] \in Port /\ rx[s][link[o]][l] # << >>
        /\ \A p \in Range(link) : p \in Port /\ rx[s][p][l] # << >>
    BY LinksSound DEF Range
  <1> HIDE DEF link, l
  <1>4. \A p \in Port, m \in Lane : rx[s][p][m] \in Seq(Packet) /\ tx[s][p][m] \in Seq(Packet)
    BY <1>2
  <1>5. \A p \in Range(link) : Tail(rx[s][p][l]) \in Seq(Packet)
    BY <1>2, <1>3, <1>4, QueueEnds
  <1>6. \A o \in DOMAIN link : Head(rx[s][link[o]][l]) \in Packet
    BY <1>2, <1>3, <1>4, QueueEnds
  <1>7. \A o \in Port : o \in DOMAIN link => Append(tx[s][o][l], Head(rx[s][link[o]][l])) \in Seq(Packet)
    BY <1>2, <1>4, <1>6, QueueEnds
  <1>8. ports \in [Port -> [Lane -> Seq(Packet)]]
    BY <1>2, <1>5
  <1>9. outs \in [Port -> [Lane -> Seq(Packet)]]
    BY <1>2, <1>7
  <1>10. \A p \in Port, m \in Lane :
           ports[p][m] = IF m = l /\ p \in Range(link) THEN Tail(rx[s][p][m]) ELSE rx[s][p][m]
    BY <1>2
  <1>11. \A o \in Port, m \in Lane :
           outs[o][m] = IF m = l /\ o \in DOMAIN link
                        THEN Append(tx[s][o][m], Head(rx[s][link[o]][l])) ELSE tx[s][o][m]
    BY <1>2
  <1> HIDE DEF ports, outs
  <1>12. /\ rx' \in [Switch -> [Port -> [Lane -> Seq(Packet)]]]
         /\ tx' \in [Switch -> [Port -> [Lane -> Seq(Packet)]]]
    BY <1>1, <1>2, <1>8, <1>9
  <1>13. /\ rx'[s] = ports /\ tx'[s] = outs
         /\ \A t \in Switch : t # s => rx'[t] = rx[t] /\ tx'[t] = tx[t]
    BY <1>1, <1>2
  <1> QED BY <1>10, <1>11, <1>12, <1>13 DEF link, l

(***************************************************************************)
(* The invariant                                                           *)
(***************************************************************************)

\* The packets of a queue were sent.
Numbered(q, count) == \A i \in 1..Len(q) : q[i].n <= count[q[i].flow]

SentFirst == \A s \in Switch, p \in Port, l \in Lane : Numbered(rx[s][p][l], sent) /\ Numbered(tx[s][p][l], sent)

\* During the pause of a transfer its packet stays where it is, and so does the
\* room it was given.
TransferStands ==
  \A s \in Switch, p \in Port :
    ioBusy[s][p] => tx[s][p][ioLane[s][p]] # << >> /\ HasRoom(s, p, ioLane[s][p])

SwitchInv == TypeOK /\ SentFirst /\ TransferStands /\ Credits

LEMMA NumberedEnds ==
  ASSUME NEW q \in Seq(Packet), NEW count, Numbered(q, count)
  PROVE  /\ q # << >> => Numbered(Tail(q), count) /\ Head(q).n <= count[Head(q).flow]
         /\ \A x \in Packet : x.n <= count[x.flow] => Numbered(Append(q, x), count)
PROOF
  <1>1. ASSUME q # << >> PROVE Numbered(Tail(q), count) /\ Head(q).n <= count[Head(q).flow]
    <2>1. /\ Head(q) = q[1] /\ 1 \in 1..Len(q)
          /\ \A i \in 1..Len(Tail(q)) : i+1 \in 1..Len(q) /\ Tail(q)[i] = q[i+1]
      BY <1>1, QueueEnds
    <2> QED BY <2>1 DEF Numbered
  <1>2. ASSUME NEW x \in Packet, x.n <= count[x.flow] PROVE Numbered(Append(q, x), count)
    <2>1. /\ Len(q) \in Nat /\ Len(Append(q, x)) = Len(q) + 1
          /\ \A i \in 1..Len(Append(q, x)) : Append(q, x)[i] = IF i <= Len(q) THEN q[i] ELSE x
      BY QueueEnds
    <2>2. \A i \in 1..Len(Append(q, x)) : i <= Len(q) => i \in 1..Len(q)
      BY <2>1
    <2> QED BY <1>2, <2>1, <2>2 DEF Numbered
  <1> QED BY <1>1, <1>2

\* What every case needs.
LEMMA SwitchBasics ==
  ASSUME TypeOK
  PROVE  /\ \A s \in Switch, p \in Port, l \in Lane :
              /\ rx[s][p][l] \in Seq(Packet) /\ Len(rx[s][p][l]) \in Nat
              /\ tx[s][p][l] \in Seq(Packet) /\ Len(tx[s][p][l]) \in Nat
         /\ QueueSize \in Nat /\ QueueSize > 0 /\ NumCores \in Nat
         /\ \A s \in Switch : /\ ec[s] \in Nat /\ step[s] \in Nat
                              /\ rx[s] \in [Port -> [Lane -> Seq(Packet)]]
                              /\ \A p \in Port : /\ Waiting(rx[s][p]) \in Nat /\ Waiting(tx[s][p]) \in Nat
                                                 /\ rx[s][p] \in [Lane -> Seq(Packet)]
                                                 /\ tx[s][p] \in [Lane -> Seq(Packet)]
                                                 /\ ioEc[s][p] \in Nat /\ ioStep[s][p] \in Nat
                                                 /\ ioLane[s][p] \in Lane /\ ioBusy[s][p] \in BOOLEAN
PROOF
  <1>1. /\ rx \in [Switch -> [Port -> [Lane -> Seq(Packet)]]]
        /\ tx \in [Switch -> [Port -> [Lane -> Seq(Packet)]]]
        /\ QueueSize \in Nat /\ QueueSize > 0 /\ NumCores \in Nat
    BY SizesAssumption DEF TypeOK
  <1>2. \A s \in Switch, p \in Port, l \in Lane : rx[s][p][l] \in Seq(Packet) /\ tx[s][p][l] \in Seq(Packet)
    BY <1>1
  <1>3. \A s \in Switch, p \in Port, l \in Lane : Len(rx[s][p][l]) \in Nat /\ Len(tx[s][p][l]) \in Nat
    BY <1>2, LenProperties
  <1>4. \A s \in Switch : \A p \in Port : rx[s][p] \in [Lane -> Seq(Packet)] /\ tx[s][p] \in [Lane -> Seq(Packet)]
    BY <1>1
  <1>5. \A s \in Switch : \A p \in Port : Waiting(rx[s][p]) \in Nat /\ Waiting(tx[s][p]) \in Nat
    BY <1>4, WaitingType
  <1>6. \A s \in Switch : /\ ec[s] \in Nat /\ step[s] \in Nat
                          /\ rx[s] \in [Port -> [Lane -> Seq(Packet)]]
                          /\ \A p \in Port : /\ ioEc[s][p] \in Nat /\ ioStep[s][p] \in Nat
                                             /\ ioLane[s][p] \in Lane /\ ioBusy[s][p] \in BOOLEAN
    BY <1>1 DEF TypeOK
  <1> QED BY <1>1, <1>2, <1>3, <1>4, <1>5, <1>6

\* A turn of the crossbar.
LEMMA CrossbarKeeps ==
  ASSUME SwitchInv, NEW s \in Switch, switch_ctrl(s)
  PROVE  SwitchInv'
PROOF
  <1> DEFINE link == Links(s)
             l == lane[s]
             D == DOMAIN link
             R == Range(link)
  <1>1. TypeOK /\ SentFirst /\ TransferStands /\ Credits /\ l \in Lane
    BY DEF SwitchInv, TypeOK
  <1>2. /\ D \subseteq Port
        /\ \A o \in D : link[o] \in Port /\ rx[s][link[o]][l] # << >> /\ Len(tx[s][o][l]) < QueueSize
        /\ \A p \in R : p \in Port /\ rx[s][p][l] # << >>
    BY <1>1, LinksSound DEF Range
  <1>3. Pairs(link) = One("north" \in R) + One("east" \in R) + One("south" \in R) + One("west" \in R)
    BY <1>1, PairsCounted
  <1>4. /\ rx' \in [Switch -> [Port -> [Lane -> Seq(Packet)]]]
        /\ tx' \in [Switch -> [Port -> [Lane -> Seq(Packet)]]]
        /\ \A t \in Switch, p \in Port, m \in Lane :
             /\ rx'[t][p][m] = IF t = s /\ m = l /\ p \in R THEN Tail(rx[t][p][m]) ELSE rx[t][p][m]
             /\ tx'[t][p][m] = IF t = s /\ m = l /\ p \in D
                               THEN Append(tx[t][p][m], Head(rx[s][link[p]][l])) ELSE tx[t][p][m]
    BY <1>1, CrossbarMoves
  <1>5. /\ ioEc' = [ioEc EXCEPT ![s] = [o \in Port |-> ioEc[s][o] + IF o \in D THEN 1 ELSE 0]]
        /\ step' = [step EXCEPT ![s] = step[s] + Pairs(link)]
        /\ lane' = [lane EXCEPT ![s] = NextLane[lane[s]]]
        /\ queue' = [queue EXCEPT ![s] = NextPort[queue[s]]]
        /\ UNCHANGED <<ec, ioStep, ioLane, ioBusy, inbox, sent, rcvd>>
    BY DEF switch_ctrl, LaneAfter
  <1> HIDE DEF link, l, D, R
  <1>6. \A t \in Switch, p \in Port, m \in Lane :
          /\ rx[t][p][m] \in Seq(Packet) /\ Len(rx[t][p][m]) \in Nat
          /\ tx[t][p][m] \in Seq(Packet) /\ Len(tx[t][p][m]) \in Nat
    BY <1>1, SwitchBasics
  <1>7. \A o \in D : Head(rx[s][link[o]][l]) \in Packet
    BY <1>1, <1>2, <1>6, QueueEnds
  <1>8. ASSUME NEW p \in R
        PROVE  Len(rx'[s][p][l]) = Len(rx[s][p][l]) - 1
    BY <1>1, <1>2, <1>4, <1>6, QueueEnds
  <1>9. ASSUME NEW o \in D
        PROVE  Len(tx'[s][o][l]) = Len(tx[s][o][l]) + 1 /\ tx'[s][o][l] # << >>
    <2>1. o \in Port /\ tx[s][o][l] \in Seq(Packet) /\ Head(rx[s][link[o]][l]) \in Packet
      BY <1>1, <1>2, <1>6, <1>7
    <2>2. tx'[s][o][l] = Append(tx[s][o][l], Head(rx[s][link[o]][l]))
      BY <1>1, <1>4, <2>1
    <2> QED BY <2>1, <2>2, QueueEnds
  <1>10. \A t \in Switch, p \in Port, m \in Lane :
           /\ Len(rx'[t][p][m]) <= Len(rx[t][p][m])
           /\ Len(tx'[t][p][m]) <= QueueSize
           /\ tx[t][p][m] # << >> => tx'[t][p][m] # << >>
    <2> SUFFICES ASSUME NEW t \in Switch, NEW p \in Port, NEW m \in Lane
                 PROVE  /\ Len(rx'[t][p][m]) <= Len(rx[t][p][m])
                        /\ Len(tx'[t][p][m]) <= QueueSize
                        /\ tx[t][p][m] # << >> => tx'[t][p][m] # << >>
      OBVIOUS
    <2>1. Len(rx'[t][p][m]) <= Len(rx[t][p][m])
      <3>1. Len(rx[t][p][m]) \in Nat
        BY <1>6
      <3>2. CASE t = s /\ m = l /\ p \in R
        BY <1>8, <3>1, <3>2
      <3>3. CASE ~(t = s /\ m = l /\ p \in R)
        <4>1. rx'[t][p][m] = rx[t][p][m]
          BY <1>4, <3>3
        <4> QED BY <3>1, <4>1
      <3> QED BY <3>2, <3>3
    <2>2. Len(tx'[t][p][m]) <= QueueSize /\ (tx[t][p][m] # << >> => tx'[t][p][m] # << >>)
      <3>1. CASE t = s /\ m = l /\ p \in D
        <4>1. QueueSize \in Nat /\ Len(tx[s][p][l]) \in Nat /\ Len(tx[s][p][l]) < QueueSize
          BY <1>1, <1>2, <1>6, <3>1, SwitchBasics
        <4> QED BY <1>9, <3>1, <4>1
      <3>2. CASE ~(t = s /\ m = l /\ p \in D)
        <4>1. tx'[t][p][m] = tx[t][p][m]
          BY <1>4, <3>2
        <4>2. Len(tx[t][p][m]) <= QueueSize
          BY <1>1 DEF TypeOK
        <4> QED BY <4>1, <4>2
      <3> QED BY <3>1, <3>2
    <2> QED BY <2>1, <2>2
  <1>11. TypeOK'
    <2>1. \A t \in Switch, p \in Port, m \in Lane :
            /\ Len(tx'[t][p][m]) <= QueueSize
            /\ Len(rx'[t][p][m]) <= QueueSize + IF t = NumCores /\ p = "south" THEN 1 ELSE 0
      <3> SUFFICES ASSUME NEW t \in Switch, NEW p \in Port, NEW m \in Lane
                   PROVE  Len(rx'[t][p][m]) <= QueueSize + IF t = NumCores /\ p = "south" THEN 1 ELSE 0
        BY <1>10
      <3>1. /\ Len(rx'[t][p][m]) \in Nat /\ Len(rx[t][p][m]) \in Nat /\ QueueSize \in Nat
            /\ Len(rx'[t][p][m]) <= Len(rx[t][p][m])
        <4>1. rx'[t][p][m] \in Seq(Packet)
          BY <1>4
        <4> QED BY <1>1, <1>6, <1>10, <4>1, LenProperties, SwitchBasics
      <3> DEFINE bound == QueueSize + IF t = NumCores /\ p = "south" THEN 1 ELSE 0
      <3>2. Len(rx[t][p][m]) <= bound
        BY <1>1 DEF TypeOK
      <3>3. bound \in Nat
        BY <3>1
      <3> HIDE DEF bound
      <3>4. Len(rx'[t][p][m]) <= bound
        BY <3>1, <3>2, <3>3
      <3> QED BY <3>4 DEF bound
    <2>2. ioEc' \in [Switch -> [Port -> Nat]]
      <3> DEFINE counts == [o \in Port |-> ioEc[s][o] + IF o \in D THEN 1 ELSE 0]
      <3>1. \A o \in Port : ioEc[s][o] \in Nat
        BY <1>1, SwitchBasics
      <3>2. counts \in [Port -> Nat]
        BY <3>1
      <3> HIDE DEF counts
      <3>3. ioEc \in [Switch -> [Port -> Nat]] /\ ioEc' = [ioEc EXCEPT ![s] = counts]
        BY <1>1, <1>5 DEF TypeOK, counts
      <3> QED BY <3>2, <3>3
    <2>3. step' \in [Switch -> Nat]
      <3>1. Pairs(link) \in Nat
        BY <1>3 DEF One
      <3> QED BY <1>1, <1>5, <3>1 DEF TypeOK
    <2>4. lane' \in [Switch -> Lane] /\ queue' \in [Switch -> Port]
      <3>1. (\A m \in Lane : NextLane[m] \in Lane) /\ \A p \in Port : NextPort[p] \in Port
        BY DEF NextLane, NextPort, Lane, Port
      <3> QED BY <1>1, <1>5, <3>1 DEF TypeOK
    <2> QED BY <1>1, <1>4, <1>5, <2>1, <2>2, <2>3, <2>4 DEF TypeOK
  <1>12. SentFirst'
    <2> SUFFICES ASSUME NEW t \in Switch, NEW p \in Port, NEW m \in Lane
                 PROVE  Numbered(rx'[t][p][m], sent) /\ Numbered(tx'[t][p][m], sent)
      BY <1>5 DEF SentFirst, Numbered
    <2>1. Numbered(rx[t][p][m], sent) /\ Numbered(tx[t][p][m], sent)
      BY <1>1 DEF SentFirst
    <2>2. Numbered(rx'[t][p][m], sent)
      <3>1. CASE t = s /\ m = l /\ p \in R
        <4>1. rx[t][p][m] \in Seq(Packet) /\ rx[t][p][m] # << >> /\ rx'[t][p][m] = Tail(rx[t][p][m])
          BY <1>2, <1>4, <1>6, <3>1
        <4> QED BY <2>1, <4>1, NumberedEnds
      <3>2. CASE ~(t = s /\ m = l /\ p \in R)
        BY <1>4, <2>1, <3>2
      <3> QED BY <3>1, <3>2
    <2>3. Numbered(tx'[t][p][m], sent)
      <3>1. CASE t = s /\ m = l /\ p \in D
        <4>1. Numbered(rx[s][link[p]][l], sent) /\ rx[s][link[p]][l] # << >> /\ rx[s][link[p]][l] \in Seq(Packet)
          BY <1>1, <1>2, <1>6, <3>1 DEF SentFirst
        <4>2. Head(rx[s][link[p]][l]).n <= sent[Head(rx[s][link[p]][l]).flow]
          BY <4>1, NumberedEnds
        <4>3. tx'[t][p][m] = Append(tx[t][p][m], Head(rx[s][link[p]][l]))
          BY <1>4, <3>1
        <4>4. tx[t][p][m] \in Seq(Packet) /\ Head(rx[s][link[p]][l]) \in Packet
          BY <1>6, <1>7, <3>1
        <4>5. Numbered(Append(tx[t][p][m], Head(rx[s][link[p]][l])), sent)
          BY <2>1, <4>2, <4>4, NumberedEnds
        <4> QED BY <4>3, <4>5
      <3>2. CASE ~(t = s /\ m = l /\ p \in D)
        BY <1>4, <2>1, <3>2
      <3> QED BY <3>1, <3>2
    <2> QED BY <2>2, <2>3
  <1>13. TransferStands'
    <2> SUFFICES ASSUME NEW t \in Switch, NEW p \in Port, ioBusy[t][p]
                 PROVE  tx'[t][p][ioLane[t][p]] # << >> /\ HasRoom(t, p, ioLane[t][p])'
      BY <1>5 DEF TransferStands
    <2>1. ioLane[t][p] \in Lane /\ tx[t][p][ioLane[t][p]] # << >> /\ HasRoom(t, p, ioLane[t][p])
      BY <1>1, SwitchBasics DEF TransferStands
    <2>2. \A u \in Switch, q \in Port : Len(rx'[u][q][ioLane[t][p]]) <= Len(rx[u][q][ioLane[t][p]])
      BY <1>10, <2>1
    <2>3. /\ \A u \in Switch, q \in Port : Len(rx'[u][q][ioLane[t][p]]) \in Nat /\ Len(rx[u][q][ioLane[t][p]]) \in Nat
          /\ QueueSize \in Nat
      <3>1. \A u \in Switch, q \in Port : rx'[u][q][ioLane[t][p]] \in Seq(Packet)
        BY <1>4, <2>1
      <3> QED BY <1>1, <1>6, <2>1, <3>1, LenProperties, SwitchBasics
    <2>4. NextEast(t) \in Switch /\ NextWest(t) \in Switch /\ "east" \in Port /\ "west" \in Port
      BY Neighbours DEF Port
    <2>6. \A a, b \in Nat : a <= b /\ b < QueueSize => a < QueueSize
      BY <2>3
    <2>5. HasRoom(t, p, ioLane[t][p])'
      <3>1. CASE p = "east"
        <4>1. Len(rx[NextEast(t)]["west"][ioLane[t][p]]) < QueueSize
          BY <2>1, <3>1 DEF HasRoom
        <4>2. Len(rx'[NextEast(t)]["west"][ioLane[t][p]]) < QueueSize
          <5>1. Len(rx'[NextEast(t)]["west"][ioLane[t][p]]) <= Len(rx[NextEast(t)]["west"][ioLane[t][p]])
            BY <2>2, <2>4
          <5>2. /\ Len(rx'[NextEast(t)]["west"][ioLane[t][p]]) \in Nat
                /\ Len(rx[NextEast(t)]["west"][ioLane[t][p]]) \in Nat
            BY <2>3, <2>4
          <5> QED BY <2>6, <4>1, <5>1, <5>2
        <4> QED BY <1>5, <3>1, <4>2 DEF HasRoom
      <3>2. CASE p = "west"
        <4>1. Len(rx[NextWest(t)]["east"][ioLane[t][p]]) < QueueSize
          BY <2>1, <3>2 DEF HasRoom
        <4>2. Len(rx'[NextWest(t)]["east"][ioLane[t][p]]) < QueueSize
          <5>1. Len(rx'[NextWest(t)]["east"][ioLane[t][p]]) <= Len(rx[NextWest(t)]["east"][ioLane[t][p]])
            BY <2>2, <2>4
          <5>2. /\ Len(rx'[NextWest(t)]["east"][ioLane[t][p]]) \in Nat
                /\ Len(rx[NextWest(t)]["east"][ioLane[t][p]]) \in Nat
            BY <2>3, <2>4
          <5> QED BY <2>6, <4>1, <5>1, <5>2
        <4> QED BY <1>5, <3>2, <4>2 DEF HasRoom
      <3>3. CASE p # "east" /\ p # "west"
        BY <1>5, <2>1, <3>3 DEF HasRoom
      <3> QED BY <3>1, <3>2, <3>3
    <2> QED BY <1>10, <2>1, <2>5
  <1>14. Credits'
    <2>1. ASSUME NEW p \in Port
          PROVE  Waiting(rx'[s][p]) = Waiting(rx[s][p]) - One(p \in R)
      <3>1. rx[s][p] \in [Lane -> Seq(Packet)] /\ Waiting(rx[s][p]) \in Nat /\ rx'[s][p] \in [Lane -> Seq(Packet)]
        BY <1>1, <1>4, SwitchBasics
      <3>2. CASE p \in R
        <4>1. Len(rx'[s][p][l]) = Len(rx[s][p][l]) - 1 /\ \A m \in Lane : m # l => rx'[s][p][m] = rx[s][p][m]
          BY <1>4, <1>8, <3>2
        <4> QED BY <1>1, <3>1, <3>2, <4>1, OneFewerWaiting DEF One
      <3>3. CASE p \notin R
        <4>1. \A m \in Lane : rx'[s][p][m] = rx[s][p][m]
          BY <1>4, <3>3
        <4>2. rx'[s][p] = rx[s][p]
          BY <3>1, <4>1
        <4> QED BY <3>1, <3>3, <4>2 DEF One
      <3> QED BY <3>2, <3>3
    <2>2. ASSUME NEW p \in Port
          PROVE  Waiting(tx'[s][p]) = Waiting(tx[s][p]) + One(p \in D)
      <3>1. tx[s][p] \in [Lane -> Seq(Packet)] /\ Waiting(tx[s][p]) \in Nat /\ tx'[s][p] \in [Lane -> Seq(Packet)]
        BY <1>1, <1>4, SwitchBasics
      <3>2. CASE p \in D
        <4>1. Len(tx'[s][p][l]) = Len(tx[s][p][l]) + 1 /\ \A m \in Lane : m # l => tx'[s][p][m] = tx[s][p][m]
          BY <1>4, <1>9, <3>2
        <4> QED BY <1>1, <3>1, <3>2, <4>1, OneMoreWaiting DEF One
      <3>3. CASE p \notin D
        <4>1. \A m \in Lane : tx'[s][p][m] = tx[s][p][m]
          BY <1>4, <3>3
        <4>2. tx'[s][p] = tx[s][p]
          BY <3>1, <4>1
        <4> QED BY <3>1, <3>3, <4>2 DEF One
      <3> QED BY <3>2, <3>3
    <2>3. \A t \in Switch : t # s => rx'[t] = rx[t] /\ tx'[t] = tx[t]
      BY <1>1 DEF switch_ctrl, TypeOK
    <2>4. ec'[s] - (step'[s] - 1) = WaitingIn(rx'[s])
      <3>1. ec[s] - (step[s] - 1) = WaitingIn(rx[s]) /\ ec[s] \in Nat /\ step[s] \in Nat
        BY <1>1, SwitchBasics DEF Credits
      <3>2. \A p \in Port : Waiting(rx[s][p]) \in Nat /\ One(p \in R) \in Nat
        BY <1>1, SwitchBasics DEF One
      <3>3. step'[s] = step[s] + Pairs(link) /\ ec'[s] = ec[s]
        BY <1>1, <1>5 DEF TypeOK
      <3>4. "north" \in Port /\ "east" \in Port /\ "south" \in Port /\ "west" \in Port
        BY DEF Port
      <3> QED BY <1>3, <2>1, <3>1, <3>2, <3>3, <3>4 DEF WaitingIn
    <2>5. ASSUME NEW p \in Port
          PROVE  ioEc'[s][p] - (ioStep'[s][p] - 1) = Waiting(tx'[s][p]) - IF ioBusy'[s][p] THEN 1 ELSE 0
      <3>1. /\ ioEc[s][p] - (ioStep[s][p] - 1) = Waiting(tx[s][p]) - IF ioBusy[s][p] THEN 1 ELSE 0
            /\ ioEc[s][p] \in Nat /\ ioStep[s][p] \in Nat /\ Waiting(tx[s][p]) \in Nat
        BY <1>1, SwitchBasics DEF Credits
      <3>2. ioEc'[s][p] = ioEc[s][p] + One(p \in D) /\ One(p \in D) \in Nat
        BY <1>1, <1>5 DEF TypeOK, One
      <3> QED BY <1>5, <2>2, <3>1, <3>2
    <2>6. \A t \in Switch : t # s => step'[t] = step[t] /\ ioEc'[t] = ioEc[t]
      BY <1>1, <1>5 DEF TypeOK
    <2> QED BY <1>1, <1>5, <2>3, <2>4, <2>5, <2>6 DEF Credits
  <1> QED BY <1>11, <1>12, <1>13, <1>14 DEF SwitchInv

(***************************************************************************)
(* The io tasks and the endpoints                                          *)
(***************************************************************************)

\* A change of one queue.
LEMMA OneQueue ==
  ASSUME NEW queues \in [Switch -> [Port -> [Lane -> Seq(Packet)]]],
         NEW s \in Switch, NEW p \in Port, NEW l \in Lane, NEW q \in Seq(Packet),
         NEW new, new = [queues EXCEPT ![s][p][l] = q]
  PROVE  /\ new \in [Switch -> [Port -> [Lane -> Seq(Packet)]]]
         /\ new[s][p][l] = q
         /\ \A t \in Switch, o \in Port, m \in Lane :
              (t # s \/ o # p \/ m # l) => new[t][o][m] = queues[t][o][m]
         /\ \A t \in Switch, o \in Port : (t # s \/ o # p) => new[t][o] = queues[t][o]
         /\ \A t \in Switch : t # s => new[t] = queues[t]
OBVIOUS

\* What it does to the number that wait in the ports of a switch.
LEMMA OnePort ==
  ASSUME NEW ports \in [Port -> [Lane -> Seq(Packet)]], NEW new, NEW p \in Port, NEW d \in Int,
         Waiting(new[p]) = Waiting(ports[p]) + d,
         \A o \in Port : o # p => new[o] = ports[o]
  PROVE  WaitingIn(new) = WaitingIn(ports) + d
PROOF
  <1> DEFINE W(o) == Waiting(ports[o])
             V(o) == Waiting(new[o])
  <1>1. \A o \in Port : W(o) \in Nat
    BY WaitingType
  <1>2. V(p) = W(p) + d /\ \A o \in Port : o # p => V(o) = W(o)
    OBVIOUS
  <1>3. /\ WaitingIn(ports) = W("north") + W("east") + W("south") + W("west")
        /\ WaitingIn(new) = V("north") + V("east") + V("south") + V("west")
    BY DEF WaitingIn
  <1> HIDE DEF W, V
  <1>4. CASE p = "north"
    BY <1>1, <1>2, <1>3, <1>4 DEF Port
  <1>5. CASE p = "east"
    BY <1>1, <1>2, <1>3, <1>5 DEF Port
  <1>6. CASE p = "south"
    BY <1>1, <1>2, <1>3, <1>6 DEF Port
  <1>7. CASE p = "west"
    BY <1>1, <1>2, <1>3, <1>7 DEF Port
  <1> QED BY <1>4, <1>5, <1>6, <1>7 DEF Port

\* An io task that looks at a packet.
LEMMA LookIoKeeps ==
  ASSUME SwitchInv, NEW s \in Switch, NEW p \in Port, LookIo(s, p)
  PROVE  SwitchInv'
PROOF
  <1> DEFINE l == Found(s, p)
  <1>1. TypeOK /\ SentFirst /\ TransferStands /\ Credits
    BY DEF SwitchInv
  <1>2. /\ ~ioBusy[s][p] /\ tx[s][p][l] # <<>>
        /\ UNCHANGED <<rx, tx, ec, step, queue, lane, ioEc, inbox, sent, rcvd>>
    BY DEF LookIo
  <1>3. /\ ioLane[s][p] \in Lane /\ ioStep[s][p] \in Nat /\ ioEc[s][p] \in Nat
        /\ Waiting(tx[s][p]) \in Nat
    BY <1>1, SwitchBasics
  <1>4. (\A m \in Lane : NextLane[m] \in Lane) /\ l \in Lane
    BY <1>3 DEF NextLane, Lane, Found
  <1>5. CASE HasRoom(s, p, l)
    <2>1. /\ ioBusy' = [ioBusy EXCEPT ![s][p] = TRUE]
          /\ ioStep' = [ioStep EXCEPT ![s][p] = ioStep[s][p] + 1]
          /\ ioLane' = [ioLane EXCEPT ![s][p] = l]
      BY <1>5 DEF LookIo
    <2> HIDE DEF l
    <2>2. /\ ioStep' \in [Switch -> [Port -> Nat]]
          /\ ioLane' \in [Switch -> [Port -> Lane]]
          /\ ioBusy' \in [Switch -> [Port -> BOOLEAN]]
      <3>1. /\ ioStep \in [Switch -> [Port -> Nat]] /\ ioLane \in [Switch -> [Port -> Lane]]
            /\ ioBusy \in [Switch -> [Port -> BOOLEAN]]
        BY <1>1 DEF TypeOK
      <3>2. ioStep' \in [Switch -> [Port -> Nat]]
        <4>1. ioStep[s][p] + 1 \in Nat
          BY <1>3
        <4> QED BY <2>1, <3>1, <4>1
      <3>3. ioLane' \in [Switch -> [Port -> Lane]]
        BY <1>4, <2>1, <3>1
      <3>4. ioBusy' \in [Switch -> [Port -> BOOLEAN]]
        BY <2>1, <3>1
      <3> QED BY <3>2, <3>3, <3>4
    <2>3. /\ ioStep'[s][p] = ioStep[s][p] + 1 /\ ioLane'[s][p] = l /\ ioBusy'[s][p] = TRUE
          /\ \A t \in Switch, o \in Port : t # s \/ o # p =>
               /\ ioStep'[t][o] = ioStep[t][o] /\ ioLane'[t][o] = ioLane[t][o]
               /\ ioBusy'[t][o] = ioBusy[t][o]
      BY <1>1, <2>1 DEF TypeOK
    <2>4. TypeOK'
      BY <1>1, <1>2, <2>2 DEF TypeOK
    <2>5. SentFirst'
      BY <1>1, <1>2 DEF SentFirst, Numbered
    <2>6. TransferStands'
      <3> SUFFICES ASSUME NEW t \in Switch, NEW o \in Port, ioBusy'[t][o]
                   PROVE  tx[t][o][ioLane'[t][o]] # <<>> /\ HasRoom(t, o, ioLane'[t][o])
        BY <1>2 DEF TransferStands, HasRoom
      <3>1. CASE t = s /\ o = p
        BY <1>2, <1>5, <2>3, <3>1
      <3>2. CASE t # s \/ o # p
        BY <1>1, <2>3, <3>2 DEF TransferStands
      <3> QED BY <3>1, <3>2
    <2>7. Credits'
      <3>1. ASSUME NEW t \in Switch, NEW o \in Port
            PROVE  ioEc[t][o] - (ioStep'[t][o] - 1) = Waiting(tx[t][o]) - IF ioBusy'[t][o] THEN 1 ELSE 0
        <4>1. ioEc[t][o] - (ioStep[t][o] - 1) = Waiting(tx[t][o]) - IF ioBusy[t][o] THEN 1 ELSE 0
          BY <1>1 DEF Credits
        <4>2. CASE t = s /\ o = p
          <5>1. ioEc[s][p] - (ioStep[s][p] - 1) = Waiting(tx[s][p])
            BY <1>2, <1>3, <4>1, <4>2
          <5>2. ioEc[s][p] - ((ioStep[s][p] + 1) - 1) = Waiting(tx[s][p]) - 1
            BY <1>3, <5>1
          <5> QED BY <2>3, <4>2, <5>2
        <4>3. CASE t # s \/ o # p
          BY <2>3, <4>1, <4>3
        <4> QED BY <4>2, <4>3
      <3> QED BY <1>1, <1>2, <3>1 DEF Credits
    <2> QED BY <2>4, <2>5, <2>6, <2>7 DEF SwitchInv
  <1>6. CASE ~HasRoom(s, p, l)
    <2>1. /\ ioLane' = [ioLane EXCEPT ![s][p] = NextLane[l]]
          /\ UNCHANGED <<ioBusy, ioStep>>
      BY <1>6 DEF LookIo
    <2> HIDE DEF l
    <2>2. /\ ioLane' \in [Switch -> [Port -> Lane]]
          /\ \A t \in Switch, o \in Port : t # s \/ o # p => ioLane'[t][o] = ioLane[t][o]
      BY <1>1, <1>4, <2>1 DEF TypeOK
    <2>3. TypeOK'
      BY <1>1, <1>2, <2>1, <2>2 DEF TypeOK
    <2>4. SentFirst'
      BY <1>1, <1>2 DEF SentFirst, Numbered
    <2>5. TransferStands'
      <3> SUFFICES ASSUME NEW t \in Switch, NEW o \in Port, ioBusy[t][o]
                   PROVE  tx[t][o][ioLane'[t][o]] # <<>> /\ HasRoom(t, o, ioLane'[t][o])
        BY <1>2, <2>1 DEF TransferStands, HasRoom
      <3>1. t # s \/ o # p
        BY <1>2
      <3> QED BY <1>1, <2>2, <3>1 DEF TransferStands
    <2>6. Credits'
      BY <1>1, <1>2, <2>1 DEF Credits
    <2> QED BY <2>3, <2>4, <2>5, <2>6 DEF SwitchInv
  <1> QED BY <1>5, <1>6

\* A packet leaves a queue out at the end of a transfer.
LEMMA TransferLeaves ==
  ASSUME SwitchInv, NEW s \in Switch, NEW p \in Port, ioBusy[s][p],
         tx' = [tx EXCEPT ![s][p][ioLane[s][p]] = Tail(tx[s][p][ioLane[s][p]])],
         ioBusy' = [ioBusy EXCEPT ![s][p] = FALSE],
         ioLane' = [ioLane EXCEPT ![s][p] = NextLane[ioLane[s][p]]],
         UNCHANGED <<ioEc, ioStep, sent>>
  PROVE  /\ Head(tx[s][p][ioLane[s][p]]) \in Packet
         /\ Head(tx[s][p][ioLane[s][p]]).n <= sent[Head(tx[s][p][ioLane[s][p]]).flow]
         /\ tx' \in [Switch -> [Port -> [Lane -> Seq(Packet)]]]
         /\ \A t \in Switch, o \in Port, m \in Lane : Len(tx'[t][o][m]) <= QueueSize /\ Numbered(tx'[t][o][m], sent)
         /\ ioLane' \in [Switch -> [Port -> Lane]] /\ ioBusy' \in [Switch -> [Port -> BOOLEAN]]
         /\ \A t \in Switch, o \in Port : ioBusy'[t][o] =>
              (t # s \/ o # p) /\ ioBusy[t][o] /\ ioLane'[t][o] = ioLane[t][o] /\ tx'[t][o] = tx[t][o]
         /\ \A t \in Switch, o \in Port :
              ioEc'[t][o] - (ioStep'[t][o] - 1) = Waiting(tx'[t][o]) - IF ioBusy'[t][o] THEN 1 ELSE 0
PROOF
  <1> DEFINE l == ioLane[s][p]
             q == tx[s][p][l]
  <1>1. TypeOK /\ SentFirst /\ TransferStands /\ Credits
    BY DEF SwitchInv
  <1>2. /\ l \in Lane /\ q \in Seq(Packet) /\ q # <<>> /\ Numbered(q, sent)
        /\ tx \in [Switch -> [Port -> [Lane -> Seq(Packet)]]]
    BY <1>1, SwitchBasics DEF TransferStands, SentFirst, TypeOK
  <1> HIDE DEF l
  <1>3. Head(q) \in Packet /\ Tail(q) \in Seq(Packet) /\ Len(Tail(q)) = Len(q) - 1 /\ Len(q) \in Nat
    BY <1>2, QueueEnds
  <1>4. Numbered(Tail(q), sent) /\ Head(q).n <= sent[Head(q).flow]
    BY <1>2, NumberedEnds
  <1> HIDE DEF q
  <1>5. tx' = [tx EXCEPT ![s][p][l] = Tail(q)]
    BY DEF l, q
  <1>6. /\ tx' \in [Switch -> [Port -> [Lane -> Seq(Packet)]]]
        /\ tx'[s][p][l] = Tail(q)
        /\ \A t \in Switch, o \in Port, m \in Lane :
             (t # s \/ o # p \/ m # l) => tx'[t][o][m] = tx[t][o][m]
        /\ \A t \in Switch, o \in Port : (t # s \/ o # p) => tx'[t][o] = tx[t][o]
    <2> DEFINE rest == Tail(q)
               new == tx'
    <2>1. rest \in Seq(Packet) /\ l \in Lane /\ new = [tx EXCEPT ![s][p][l] = rest]
      BY <1>2, <1>3, <1>5
    <2>2. tx \in [Switch -> [Port -> [Lane -> Seq(Packet)]]]
      BY <1>2
    <2> HIDE DEF rest, new
    <2>3. /\ new \in [Switch -> [Port -> [Lane -> Seq(Packet)]]]
          /\ new[s][p][l] = rest
          /\ \A t \in Switch, o \in Port, m \in Lane :
               (t # s \/ o # p \/ m # l) => new[t][o][m] = tx[t][o][m]
          /\ \A t \in Switch, o \in Port : (t # s \/ o # p) => new[t][o] = tx[t][o]
      BY <2>1, <2>2, OneQueue
    <2> QED BY <2>3 DEF rest, new
  <1>7. ASSUME NEW t \in Switch, NEW o \in Port, NEW m \in Lane
        PROVE  Len(tx'[t][o][m]) <= QueueSize /\ Numbered(tx[t][o][m], sent) /\ Numbered(tx'[t][o][m], sent)
    <2>1. Len(tx[t][o][m]) <= QueueSize /\ Numbered(tx[t][o][m], sent) /\ QueueSize \in Nat
      BY <1>1, SwitchBasics DEF TypeOK, SentFirst
    <2>2. CASE t = s /\ o = p /\ m = l
      <3>1. Len(q) <= QueueSize
        BY <2>1, <2>2 DEF q
      <3>2. Len(Tail(q)) <= QueueSize
        BY <1>3, <2>1, <3>1
      <3> QED BY <1>4, <1>6, <2>1, <2>2, <3>2
    <2>3. CASE t # s \/ o # p \/ m # l
      BY <1>6, <2>1, <2>3
    <2> QED BY <2>2, <2>3
  <1>8. \A t \in Switch, o \in Port, m \in Lane : Len(tx'[t][o][m]) <= QueueSize /\ Numbered(tx'[t][o][m], sent)
    BY <1>7
  <1>9. NextLane[l] \in Lane
    BY <1>2 DEF NextLane, Lane
  <1>10. ioLane' \in [Switch -> [Port -> Lane]] /\ ioBusy' \in [Switch -> [Port -> BOOLEAN]]
    BY <1>1, <1>9 DEF TypeOK, l
  <1>11. /\ ioBusy'[s][p] = FALSE
         /\ \A t \in Switch, o \in Port : (t # s \/ o # p) =>
              ioBusy'[t][o] = ioBusy[t][o] /\ ioLane'[t][o] = ioLane[t][o]
    BY <1>1 DEF TypeOK
  <1>12. ASSUME NEW t \in Switch, NEW o \in Port
         PROVE  ioEc'[t][o] - (ioStep'[t][o] - 1) = Waiting(tx'[t][o]) - IF ioBusy'[t][o] THEN 1 ELSE 0
    <2>1. /\ ioEc[t][o] - (ioStep[t][o] - 1) = Waiting(tx[t][o]) - IF ioBusy[t][o] THEN 1 ELSE 0
          /\ ioEc[t][o] \in Nat /\ ioStep[t][o] \in Nat /\ Waiting(tx[t][o]) \in Nat
          /\ tx[t][o] \in [Lane -> Seq(Packet)]
      BY <1>1, SwitchBasics DEF Credits
    <2>2. CASE t = s /\ o = p
      <3>1. Len(tx'[t][o][l]) = Len(tx[t][o][l]) - 1 /\ \A m \in Lane : m # l => tx'[t][o][m] = tx[t][o][m]
        <4>1. tx[t][o][l] = q
          BY <2>2 DEF q
        <4>2. Len(tx'[t][o][l]) = Len(tx[t][o][l]) - 1
          BY <1>3, <1>6, <2>2, <4>1
        <4>3. ASSUME NEW m \in Lane, m # l
              PROVE  tx'[t][o][m] = tx[t][o][m]
          <5>1. tx'[s][p][m] = tx[s][p][m]
            BY <1>6, <4>3
          <5> QED BY <2>2, <5>1
        <4> QED BY <4>2, <4>3
      <3>2. Waiting(tx'[t][o]) = Waiting(tx[t][o]) - 1
        BY <1>2, <2>1, <3>1, OneFewerWaiting
      <3> QED BY <1>11, <2>1, <2>2, <3>2
    <2>3. CASE t # s \/ o # p
      BY <1>6, <1>11, <2>1, <2>3
    <2> QED BY <2>2, <2>3
  <1>13. \A t \in Switch, o \in Port : ioBusy'[t][o] =>
           (t # s \/ o # p) /\ ioBusy[t][o] /\ ioLane'[t][o] = ioLane[t][o] /\ tx'[t][o] = tx[t][o]
    BY <1>6, <1>11
  <1> QED BY <1>3, <1>4, <1>6, <1>8, <1>10, <1>12, <1>13 DEF l, q

\* What a queue into a switch takes.
RxBound(s, p) == QueueSize + IF s = NumCores /\ p = "south" THEN 1 ELSE 0

\* A packet comes into a switch.
LEMMA PacketEnters ==
  ASSUME SwitchInv, NEW s \in Switch, NEW p \in Port, NEW l \in Lane, NEW x \in Packet,
         x.n <= sent'[x.flow], sent' \in [Flow -> Nat], \A f \in Flow : sent[f] <= sent'[f],
         Len(rx[s][p][l]) < RxBound(s, p),
         rx' = [rx EXCEPT ![s][p][l] = Append(rx[s][p][l], x)],
         ec' = [ec EXCEPT ![s] = ec[s] + 1],
         step' = step
  PROVE  /\ rx' \in [Switch -> [Port -> [Lane -> Seq(Packet)]]]
         /\ ec' \in [Switch -> Nat]
         /\ \A t \in Switch, o \in Port, m \in Lane :
              /\ Len(rx'[t][o][m]) <= RxBound(t, o)
              /\ Numbered(rx'[t][o][m], sent')
         /\ \A t \in Switch, o \in Port, m \in Lane :
              (t # s \/ o # p \/ m # l) => rx'[t][o][m] = rx[t][o][m]
         /\ \A t \in Switch : ec'[t] - (step'[t] - 1) = WaitingIn(rx'[t])
PROOF
  <1> DEFINE q == rx[s][p][l]
             longer == Append(q, x)
             new == rx'
  <1>1. TypeOK /\ SentFirst /\ Credits
    BY DEF SwitchInv
  <1>2. /\ q \in Seq(Packet) /\ Numbered(q, sent)
        /\ rx \in [Switch -> [Port -> [Lane -> Seq(Packet)]]]
    BY <1>1, SwitchBasics DEF SentFirst, TypeOK
  <1>3. \A t \in Switch, o \in Port : RxBound(t, o) \in Nat
    BY <1>1, SwitchBasics DEF RxBound
  <1>4. \A t \in Switch, o \in Port, m \in Lane : Len(rx[t][o][m]) <= RxBound(t, o)
    BY <1>1 DEF TypeOK, RxBound
  <1>5. Len(q) < RxBound(s, p)
    OBVIOUS
  <1> HIDE DEF q
  <1>6. longer \in Seq(Packet) /\ Len(longer) = Len(q) + 1 /\ Len(q) \in Nat
    BY <1>2, QueueEnds
  <1>7. new = [rx EXCEPT ![s][p][l] = longer]
    BY DEF q
  <1> HIDE DEF longer, new
  <1>8. /\ new \in [Switch -> [Port -> [Lane -> Seq(Packet)]]]
        /\ new[s][p][l] = longer
        /\ \A t \in Switch, o \in Port, m \in Lane :
             (t # s \/ o # p \/ m # l) => new[t][o][m] = rx[t][o][m]
        /\ \A t \in Switch, o \in Port : (t # s \/ o # p) => new[t][o] = rx[t][o]
        /\ \A t \in Switch : t # s => new[t] = rx[t]
    BY <1>2, <1>6, <1>7, OneQueue
  <1>9. ASSUME NEW r \in Seq(Packet), Numbered(r, sent)
        PROVE  Numbered(r, sent')
    <2> SUFFICES ASSUME NEW i \in 1..Len(r)
                 PROVE  r[i].n <= sent'[r[i].flow]
      BY DEF Numbered
    <2>1. r[i] \in Packet
      BY QueueEnds
    <2>2. r[i].flow \in Flow /\ r[i].n \in Nat
      <3>1. r[i].flow \in Flow /\ r[i].n \in 1 .. MaxPackets[r[i].flow]
        BY <2>1, PacketType
      <3> QED BY <3>1, FlowType
    <2>3. r[i].n <= sent[r[i].flow] /\ sent[r[i].flow] <= sent'[r[i].flow]
          /\ sent[r[i].flow] \in Nat /\ sent'[r[i].flow] \in Nat
      BY <1>1, <1>9, <2>2 DEF Numbered, TypeOK
    <2> QED BY <2>2, <2>3
  <1>10. Numbered(longer, sent')
    BY <1>2, <1>9, NumberedEnds DEF longer
  <1>11. ASSUME NEW t \in Switch, NEW o \in Port, NEW m \in Lane
         PROVE  Len(new[t][o][m]) <= RxBound(t, o) /\ Numbered(new[t][o][m], sent')
    <2>1. CASE t = s /\ o = p /\ m = l
      <3>1. Len(longer) <= RxBound(s, p)
        BY <1>3, <1>5, <1>6
      <3> QED BY <1>8, <1>10, <2>1, <3>1
    <2>2. CASE t # s \/ o # p \/ m # l
      <3>1. rx[t][o][m] \in Seq(Packet) /\ Numbered(rx[t][o][m], sent)
        BY <1>1, SwitchBasics DEF SentFirst
      <3> QED BY <1>4, <1>8, <1>9, <2>2, <3>1
    <2> QED BY <2>1, <2>2
  <1>12. ec[s] + 1 \in Nat /\ ec \in [Switch -> Nat]
    <2>1. ec[s] \in Nat
      BY <1>1, SwitchBasics
    <2>2. ec \in [Switch -> Nat]
      BY <1>1 DEF TypeOK
    <2> QED BY <2>1, <2>2
  <1>13. ec' \in [Switch -> Nat] /\ ec'[s] = ec[s] + 1 /\ \A t \in Switch : t # s => ec'[t] = ec[t]
    <2>1. ec' = [ec EXCEPT ![s] = ec[s] + 1]
      OBVIOUS
    <2> QED BY <1>12, <2>1
  <1>14. ASSUME NEW t \in Switch
         PROVE  ec'[t] - (step'[t] - 1) = WaitingIn(new[t])
    <2>1. /\ ec[t] - (step[t] - 1) = WaitingIn(rx[t])
          /\ ec[t] \in Nat /\ step[t] \in Nat
      BY <1>1, SwitchBasics DEF Credits
    <2>2. CASE t = s
      <3>1. rx[s] \in [Port -> [Lane -> Seq(Packet)]] /\ rx[s][p] \in [Lane -> Seq(Packet)]
        BY <1>2
      <3>2. Waiting(new[s][p]) = Waiting(rx[s][p]) + 1
        <4>1. Len(new[s][p][l]) = Len(rx[s][p][l]) + 1
          BY <1>6, <1>8 DEF q
        <4>2. \A m \in Lane : m # l => new[s][p][m] = rx[s][p][m]
          BY <1>8
        <4> QED BY <3>1, <4>1, <4>2, OneMoreWaiting
      <3>3. \A o \in Port : o # p => new[s][o] = rx[s][o]
        BY <1>8
      <3>4. WaitingIn(new[s]) = WaitingIn(rx[s]) + 1
        <4>1. 1 \in Int
          OBVIOUS
        <4> QED BY <3>1, <3>2, <3>3, <4>1, OnePort
      <3> QED BY <1>13, <2>1, <2>2, <3>4
    <2>3. CASE t # s
      BY <1>8, <1>13, <2>1, <2>3
    <2> QED BY <2>2, <2>3
  <1> QED BY <1>8, <1>11, <1>13, <1>14 DEF new

\* A transfer to the next switch.
LEMMA TransferIoKeeps ==
  ASSUME SwitchInv, NEW s \in Switch, NEW p \in Port, TransferIo(s, p)
  PROVE  SwitchInv'
PROOF
  <1> DEFINE l == ioLane[s][p]
             x == Head(tx[s][p][l])
             to == IF p = "east" THEN NextEast(s) ELSE NextWest(s)
             in == IF p = "east" THEN "west" ELSE "east"
  <1>1. TypeOK /\ SentFirst /\ TransferStands /\ Credits
    BY DEF SwitchInv
  <1>2. /\ p \in {"east", "west"} /\ ioBusy[s][p]
        /\ rx' = [rx EXCEPT ![to][in][l] = Append(rx[to][in][l], x)]
        /\ ec' = [ec EXCEPT ![to] = ec[to] + 1]
        /\ UNCHANGED <<step, queue, lane, ioEc, ioStep, inbox, sent, rcvd>>
    BY DEF TransferIo
  <1>3. /\ x \in Packet /\ x.n <= sent[x.flow]
        /\ tx' \in [Switch -> [Port -> [Lane -> Seq(Packet)]]]
        /\ \A t \in Switch, o \in Port, m \in Lane : Len(tx'[t][o][m]) <= QueueSize /\ Numbered(tx'[t][o][m], sent)
        /\ ioLane' \in [Switch -> [Port -> Lane]] /\ ioBusy' \in [Switch -> [Port -> BOOLEAN]]
        /\ \A t \in Switch, o \in Port : ioBusy'[t][o] =>
             (t # s \/ o # p) /\ ioBusy[t][o] /\ ioLane'[t][o] = ioLane[t][o] /\ tx'[t][o] = tx[t][o]
        /\ \A t \in Switch, o \in Port :
             ioEc'[t][o] - (ioStep'[t][o] - 1) = Waiting(tx'[t][o]) - IF ioBusy'[t][o] THEN 1 ELSE 0
    BY <1>2, TransferLeaves DEF TransferIo
  <1>4. to \in Switch /\ in \in Port /\ l \in Lane
    BY <1>1, Neighbours, SwitchBasics DEF Port
  <1>5. Len(rx[to][in][l]) < RxBound(to, in)
    <2>1. HasRoom(s, p, l)
      BY <1>1, <1>2 DEF TransferStands
    <2>2. Len(rx[to][in][l]) < QueueSize
      BY <1>2, <2>1 DEF HasRoom
    <2> QED BY <1>1, <1>2, <2>2, SwitchBasics DEF RxBound
  <1>6. sent' = sent /\ sent \in [Flow -> Nat] /\ step' = step /\ \A f \in Flow : sent[f] <= sent'[f]
    BY <1>1, <1>2 DEF TypeOK
  <1> HIDE DEF l, x, to, in
  <1>7. /\ rx' \in [Switch -> [Port -> [Lane -> Seq(Packet)]]]
        /\ ec' \in [Switch -> Nat]
        /\ \A t \in Switch, o \in Port, m \in Lane :
             /\ Len(rx'[t][o][m]) <= RxBound(t, o)
             /\ Numbered(rx'[t][o][m], sent')
        /\ \A t \in Switch, o \in Port, m \in Lane :
             (t # to \/ o # in \/ m # l) => rx'[t][o][m] = rx[t][o][m]
        /\ \A t \in Switch : ec'[t] - (step'[t] - 1) = WaitingIn(rx'[t])
    <2>1. /\ x.n <= sent'[x.flow] /\ sent' \in [Flow -> Nat] /\ \A f \in Flow : sent[f] <= sent'[f]
          /\ step' = step /\ x \in Packet
      BY <1>3, <1>6
    <2>2. /\ rx' = [rx EXCEPT ![to][in][l] = Append(rx[to][in][l], x)]
          /\ ec' = [ec EXCEPT ![to] = ec[to] + 1]
      BY <1>2
    <2> QED BY <1>4, <1>5, <2>1, <2>2, PacketEnters
  <1>8. TypeOK'
    <2>1. \A t \in Switch, o \in Port, m \in Lane :
            /\ Len(tx'[t][o][m]) <= QueueSize
            /\ Len(rx'[t][o][m]) <= QueueSize + IF t = NumCores /\ o = "south" THEN 1 ELSE 0
      BY <1>3, <1>7 DEF RxBound
    <2> QED BY <1>1, <1>2, <1>3, <1>7, <2>1 DEF TypeOK
  <1>9. SentFirst'
    BY <1>3, <1>6, <1>7 DEF SentFirst
  <1>10. TransferStands'
    <2> SUFFICES ASSUME NEW t \in Switch, NEW o \in Port, ioBusy'[t][o]
                 PROVE  tx'[t][o][ioLane'[t][o]] # <<>> /\ HasRoom(t, o, ioLane[t][o])'
      BY DEF TransferStands
    <2>1. (t # s \/ o # p) /\ ioBusy[t][o] /\ ioLane'[t][o] = ioLane[t][o] /\ tx'[t][o] = tx[t][o]
      BY <1>3
    <2>2. tx[t][o][ioLane[t][o]] # <<>> /\ HasRoom(t, o, ioLane[t][o]) /\ ioLane[t][o] \in Lane
      BY <1>1, <2>1, SwitchBasics DEF TransferStands
    <2>3. NextEast(t) \in Switch /\ NextWest(t) \in Switch /\ "west" \in Port /\ "east" \in Port
      BY Neighbours DEF Port
    <2>4. CASE o = "east"
      <3>1. ~(to = NextEast(t) /\ in = "west")
        BY <1>2, <2>1, <2>4, Neighbours DEF to, in
      <3>2. rx'[NextEast(t)]["west"][ioLane[t][o]] = rx[NextEast(t)]["west"][ioLane[t][o]]
        BY <1>7, <2>2, <2>3, <3>1
      <3> QED BY <2>1, <2>2, <2>4, <3>2 DEF HasRoom
    <2>5. CASE o = "west"
      <3>1. ~(to = NextWest(t) /\ in = "east")
        BY <1>2, <2>1, <2>5, Neighbours DEF to, in
      <3>2. rx'[NextWest(t)]["east"][ioLane[t][o]] = rx[NextWest(t)]["east"][ioLane[t][o]]
        BY <1>7, <2>2, <2>3, <3>1
      <3> QED BY <2>1, <2>2, <2>5, <3>2 DEF HasRoom
    <2>6. CASE o # "east" /\ o # "west"
      BY <1>2, <2>1, <2>2, <2>6 DEF HasRoom
    <2> QED BY <2>4, <2>5, <2>6
  <1>11. Credits'
    BY <1>3, <1>7 DEF Credits
  <1> QED BY <1>8, <1>9, <1>10, <1>11 DEF SwitchInv

\* A transfer to an endpoint.
LEMMA DeliverIoKeeps ==
  ASSUME SwitchInv, NEW s \in Switch, NEW p \in Port, DeliverIo(s, p)
  PROVE  SwitchInv'
PROOF
  <1> DEFINE l == ioLane[s][p]
             x == Head(tx[s][p][l])
             n == EndpointAt(s, p)
             q == Inbox(n, l)
  <1>1. TypeOK /\ SentFirst /\ TransferStands /\ Credits
    BY DEF SwitchInv
  <1>2. /\ p \in {"north", "south"} /\ ioBusy[s][p]
        /\ inbox' = [inbox EXCEPT ![n][q] = inbox[n][q] + 1]
        /\ rcvd' = [rcvd EXCEPT ![x.flow] = x.n] \/ rcvd' = rcvd
        /\ UNCHANGED <<rx, ec, step, queue, lane, ioEc, ioStep, sent>>
    BY DEF DeliverIo
  <1>3. /\ x \in Packet /\ x.n <= sent[x.flow]
        /\ tx' \in [Switch -> [Port -> [Lane -> Seq(Packet)]]]
        /\ \A t \in Switch, o \in Port, m \in Lane : Len(tx'[t][o][m]) <= QueueSize /\ Numbered(tx'[t][o][m], sent)
        /\ ioLane' \in [Switch -> [Port -> Lane]] /\ ioBusy' \in [Switch -> [Port -> BOOLEAN]]
        /\ \A t \in Switch, o \in Port : ioBusy'[t][o] =>
             (t # s \/ o # p) /\ ioBusy[t][o] /\ ioLane'[t][o] = ioLane[t][o] /\ tx'[t][o] = tx[t][o]
        /\ \A t \in Switch, o \in Port :
             ioEc'[t][o] - (ioStep'[t][o] - 1) = Waiting(tx'[t][o]) - IF ioBusy'[t][o] THEN 1 ELSE 0
    BY <1>2, TransferLeaves DEF DeliverIo
  <1>4. l \in Lane /\ n \in Endpoint
    BY <1>1, <1>2, EndpointOfPort, SwitchBasics
  <1>5. q \in InboxName
    <2> HIDE DEF l, n
    <2> QED BY <1>4, InboxType
  <1>6. inbox[n][q] < QueueSize
    <2>1. HasRoom(s, p, l)
      BY <1>1, <1>2 DEF TransferStands
    <2> QED BY <1>2, <2>1 DEF HasRoom
  <1> HIDE DEF l, x, n, q
  <1>7. /\ inbox' \in [Endpoint -> [InboxName -> 0 .. QueueSize]]
        /\ \A e \in Endpoint : e # n => inbox'[e] = inbox[e]
    <2>1. /\ inbox \in [Endpoint -> [InboxName -> 0 .. QueueSize]]
          /\ inbox[n][q] + 1 \in 0 .. QueueSize
      <3>1. inbox \in [Endpoint -> [InboxName -> 0 .. QueueSize]] /\ QueueSize \in Nat
        BY <1>1, SizesAssumption DEF TypeOK
      <3>2. inbox[n][q] \in 0 .. QueueSize
        BY <1>4, <1>5, <3>1
      <3>3. inbox[n][q] + 1 \in 0 .. QueueSize
        BY <1>6, <3>1, <3>2
      <3> QED BY <3>1, <3>3
    <2> QED BY <1>2, <1>4, <1>5, <2>1
  <1>8. x.flow \in Flow /\ x.n \in Nat
    <2>1. x.flow \in Flow /\ x.n \in 1 .. MaxPackets[x.flow]
      BY <1>3, PacketType
    <2> QED BY <2>1, FlowType
  <1>9. rcvd' \in [Flow -> Nat] /\ \A f \in Flow : rcvd'[f] <= sent[f]
    <2>1. rcvd \in [Flow -> Nat] /\ \A f \in Flow : rcvd[f] <= sent[f]
      BY <1>1 DEF TypeOK
    <2>2. CASE rcvd' = rcvd
      BY <2>1, <2>2
    <2>3. CASE rcvd' = [rcvd EXCEPT ![x.flow] = x.n]
      <3>1. x.n <= sent[x.flow]
        BY <1>3
      <3> QED BY <1>8, <2>1, <2>3, <3>1
    <2> QED BY <1>2, <2>2, <2>3
  <1>10. TypeOK'
    <2>1. \A t \in Switch, o \in Port, m \in Lane :
            /\ Len(tx'[t][o][m]) <= QueueSize
            /\ Len(rx'[t][o][m]) <= QueueSize + IF t = NumCores /\ o = "south" THEN 1 ELSE 0
      BY <1>1, <1>2, <1>3 DEF TypeOK
    <2>2. sent' = sent /\ sent \in [Flow -> Nat] /\ \A f \in Flow : sent[f] <= MaxPackets[f]
      BY <1>1, <1>2 DEF TypeOK
    <2>3. /\ rx' \in [Switch -> [Port -> [Lane -> Seq(Packet)]]]
          /\ ec' \in [Switch -> Nat] /\ step' \in [Switch -> Nat]
          /\ queue' \in [Switch -> Port] /\ lane' \in [Switch -> Lane]
          /\ ioEc' \in [Switch -> [Port -> Nat]] /\ ioStep' \in [Switch -> [Port -> Nat]]
      BY <1>1, <1>2 DEF TypeOK
    <2> QED BY <1>3, <1>7, <1>9, <2>1, <2>2, <2>3 DEF TypeOK
  <1>11. SentFirst'
    <2>1. sent' = sent /\ rx' = rx
      BY <1>2
    <2> QED BY <1>1, <1>3, <2>1 DEF SentFirst
  <1>12. TransferStands'
    <2> SUFFICES ASSUME NEW t \in Switch, NEW o \in Port, ioBusy'[t][o]
                 PROVE  tx'[t][o][ioLane'[t][o]] # <<>> /\ HasRoom(t, o, ioLane[t][o])'
      BY DEF TransferStands
    <2>1. (t # s \/ o # p) /\ ioBusy[t][o] /\ ioLane'[t][o] = ioLane[t][o] /\ tx'[t][o] = tx[t][o]
      BY <1>3
    <2>2. tx[t][o][ioLane[t][o]] # <<>> /\ HasRoom(t, o, ioLane[t][o])
      BY <1>1, <2>1 DEF TransferStands
    <2>3. CASE o \in {"east", "west"}
      BY <1>2, <2>1, <2>2, <2>3 DEF HasRoom
    <2>4. CASE o \in {"north", "south"}
      <3>1. EndpointAt(t, o) \in Endpoint /\ EndpointAt(t, o) # n
        BY <1>2, <2>1, <2>4, EndpointOfPort DEF n
      <3>2. inbox'[EndpointAt(t, o)] = inbox[EndpointAt(t, o)]
        BY <1>7, <3>1
      <3> QED BY <2>1, <2>2, <2>4, <3>2 DEF HasRoom
    <2> QED BY <2>3, <2>4 DEF Port
  <1>13. Credits'
    <2>1. ec' = ec /\ step' = step /\ rx' = rx
      BY <1>2
    <2> QED BY <1>1, <1>3, <2>1 DEF Credits
  <1> QED BY <1>10, <1>11, <1>12, <1>13 DEF SwitchInv

\* A packet an endpoint sends.
LEMMA SendKeeps ==
  ASSUME SwitchInv, NEW f \in Flow, Send(f)
  PROVE  SwitchInv'
PROOF
  <1> DEFINE s == SwitchOf(f.src)
             p == PortOf(f.src)
             l == f.lane
             x == [flow |-> f, n |-> sent[f] + 1]
  <1>1. TypeOK /\ SentFirst /\ TransferStands /\ Credits
    BY DEF SwitchInv
  <1>2. /\ sent[f] < MaxPackets[f] /\ Len(rx[s][p][l]) < MayQueue(f.src, l)
        /\ sent' = [sent EXCEPT ![f] = sent[f] + 1]
        /\ rx' = [rx EXCEPT ![s][p][l] = Append(rx[s][p][l], x)]
        /\ ec' = [ec EXCEPT ![s] = ec[s] + 1]
        /\ UNCHANGED <<tx, step, queue, lane, ioEc, ioStep, ioLane, ioBusy, inbox, rcvd>>
    BY DEF Send
  <1>3. /\ s \in Switch /\ p \in {"north", "south"} /\ p \in Port /\ l \in Lane /\ MaxPackets[f] \in Nat
        /\ f.src = 3 * s + 2 => p = "south"
    <2>1. f.src \in Endpoint /\ l \in Lane /\ MaxPackets[f] \in Nat
      BY FlowType
    <2>2. /\ s \in Switch /\ p \in {"north", "south"}
          /\ \/ f.src = 3 * s /\ p = "north"
             \/ f.src = 3 * s + 2 /\ p = "south"
      BY <2>1, EndpointPlace
    <2>3. s \in Nat
      BY <2>2, SizesAssumption DEF Switch
    <2> HIDE DEF s, p
    <2> QED BY <2>1, <2>2, <2>3 DEF Port
  <1>4. sent \in [Flow -> Nat] /\ sent[f] \in Nat /\ rcvd \in [Flow -> Nat]
        /\ \A g \in Flow : sent[g] <= MaxPackets[g] /\ rcvd[g] <= sent[g]
    BY <1>1 DEF TypeOK
  <1>5. /\ sent' \in [Flow -> Nat] /\ sent'[f] = sent[f] + 1
        /\ \A g \in Flow : sent[g] <= sent'[g] /\ sent'[g] <= MaxPackets[g] /\ rcvd[g] <= sent'[g]
    BY <1>2, <1>3, <1>4
  <1>6. x \in Packet /\ x.n <= sent'[x.flow]
    <2>1. sent[f] + 1 \in 1 .. MaxPackets[f]
      BY <1>2, <1>3, <1>4
    <2> QED BY <1>5, <2>1, PacketType
  <1>7. Len(rx[s][p][l]) < RxBound(s, p)
    <2>1. Len(rx[s][p][l]) \in Nat /\ QueueSize \in Nat
      BY <1>1, <1>3, SwitchBasics
    <2>2. MayQueue(f.src, l) \in {QueueSize - 1, QueueSize} \/ (s = NumCores /\ p = "south" /\ MayQueue(f.src, l) = QueueSize + 1)
      <3>1. CASE f.src = 3 * NumCores + 2
        <4>1. f.src \in Endpoint /\ NumCores \in Nat
          BY FlowType, SizesAssumption
        <4>2. s = NumCores /\ p = "south"
          <5>1. SwitchOf(3 * NumCores + 2) = NumCores
            BY <4>1, NodesOfSwitch DEF SwitchOf
          <5> QED BY <1>3, <3>1, <5>1
        <4> QED BY <3>1, <4>1, <4>2 DEF MayQueue
      <3>2. CASE f.src # 3 * NumCores + 2
        BY <3>2 DEF MayQueue
      <3> QED BY <3>1, <3>2
    <2> QED BY <1>2, <2>1, <2>2 DEF RxBound
  <1> HIDE DEF s, p, l, x
  <1>8. /\ rx' \in [Switch -> [Port -> [Lane -> Seq(Packet)]]]
        /\ ec' \in [Switch -> Nat]
        /\ \A t \in Switch, o \in Port, m \in Lane :
             /\ Len(rx'[t][o][m]) <= RxBound(t, o)
             /\ Numbered(rx'[t][o][m], sent')
        /\ \A t \in Switch, o \in Port, m \in Lane :
             (t # s \/ o # p \/ m # l) => rx'[t][o][m] = rx[t][o][m]
        /\ \A t \in Switch : ec'[t] - (step'[t] - 1) = WaitingIn(rx'[t])
    <2>1. /\ rx' = [rx EXCEPT ![s][p][l] = Append(rx[s][p][l], x)]
          /\ ec' = [ec EXCEPT ![s] = ec[s] + 1] /\ step' = step
      BY <1>2
    <2>2. sent' \in [Flow -> Nat] /\ \A g \in Flow : sent[g] <= sent'[g]
      BY <1>5
    <2> QED BY <1>3, <1>6, <1>7, <2>1, <2>2, PacketEnters
  <1>9. TypeOK'
    <2>1. \A t \in Switch, o \in Port, m \in Lane :
            /\ Len(tx'[t][o][m]) <= QueueSize
            /\ Len(rx'[t][o][m]) <= QueueSize + IF t = NumCores /\ o = "south" THEN 1 ELSE 0
      BY <1>1, <1>2, <1>8 DEF TypeOK, RxBound
    <2>2. /\ tx' \in [Switch -> [Port -> [Lane -> Seq(Packet)]]]
          /\ step' \in [Switch -> Nat]
          /\ queue' \in [Switch -> Port] /\ lane' \in [Switch -> Lane]
          /\ ioEc' \in [Switch -> [Port -> Nat]] /\ ioStep' \in [Switch -> [Port -> Nat]]
          /\ ioLane' \in [Switch -> [Port -> Lane]] /\ ioBusy' \in [Switch -> [Port -> BOOLEAN]]
          /\ inbox' \in [Endpoint -> [InboxName -> 0 .. QueueSize]]
          /\ rcvd' = rcvd /\ rcvd \in [Flow -> Nat]
      BY <1>1, <1>2 DEF TypeOK
    <2> QED BY <1>5, <1>8, <2>1, <2>2 DEF TypeOK
  <1>10. SentFirst'
    <2> SUFFICES ASSUME NEW t \in Switch, NEW o \in Port, NEW m \in Lane
                 PROVE  Numbered(tx[t][o][m], sent')
      BY <1>2, <1>8 DEF SentFirst
    <2>1. tx[t][o][m] \in Seq(Packet) /\ Numbered(tx[t][o][m], sent)
      BY <1>1, SwitchBasics DEF SentFirst
    <2> SUFFICES ASSUME NEW i \in 1..Len(tx[t][o][m])
                 PROVE  tx[t][o][m][i].n <= sent'[tx[t][o][m][i].flow]
      BY DEF Numbered
    <2> DEFINE y == tx[t][o][m][i]
    <2>2. y \in Packet /\ y.n <= sent[y.flow]
      BY <2>1, QueueEnds DEF Numbered
    <2> HIDE DEF y
    <2>3. y.flow \in Flow /\ y.n \in Nat
      <3>1. y.flow \in Flow /\ y.n \in 1 .. MaxPackets[y.flow]
        BY <2>2, PacketType
      <3> QED BY <3>1, FlowType
    <2>4. y.n <= sent'[y.flow]
      BY <1>4, <1>5, <2>2, <2>3
    <2> QED BY <2>4 DEF y
  <1>11. TransferStands'
    <2> SUFFICES ASSUME NEW t \in Switch, NEW o \in Port, ioBusy[t][o]
                 PROVE  tx'[t][o][ioLane[t][o]] # <<>> /\ HasRoom(t, o, ioLane[t][o])'
      BY <1>2 DEF TransferStands
    <2>1. tx[t][o][ioLane[t][o]] # <<>> /\ HasRoom(t, o, ioLane[t][o]) /\ ioLane[t][o] \in Lane
      BY <1>1, SwitchBasics DEF TransferStands
    <2>2. NextEast(t) \in Switch /\ NextWest(t) \in Switch /\ "west" \in Port /\ "east" \in Port
      BY Neighbours DEF Port
    <2>3. /\ rx'[NextEast(t)]["west"][ioLane[t][o]] = rx[NextEast(t)]["west"][ioLane[t][o]]
          /\ rx'[NextWest(t)]["east"][ioLane[t][o]] = rx[NextWest(t)]["east"][ioLane[t][o]]
      <3>1. p # "west" /\ p # "east"
        BY <1>3
      <3> QED BY <1>8, <2>1, <2>2, <3>1
    <2>4. HasRoom(t, o, ioLane[t][o])'
      BY <1>2, <2>1, <2>3 DEF HasRoom
    <2> QED BY <1>2, <2>1, <2>4
  <1>12. Credits'
    BY <1>1, <1>2, <1>8 DEF Credits
  <1> QED BY <1>9, <1>10, <1>11, <1>12 DEF SwitchInv

\* A packet an endpoint takes.
LEMMA ConsumeKeeps ==
  ASSUME SwitchInv, NEW n \in Endpoint, NEW q \in InboxName, Consume(n, q)
  PROVE  SwitchInv'
PROOF
  <1>1. TypeOK /\ SentFirst /\ TransferStands /\ Credits
    BY DEF SwitchInv
  <1>2. /\ inbox[n][q] > 0 /\ inbox' = [inbox EXCEPT ![n][q] = inbox[n][q] - 1]
        /\ UNCHANGED <<rx, tx, ec, step, queue, lane, ioEc, ioStep, ioLane, ioBusy, sent, rcvd>>
    BY DEF Consume
  <1>3. /\ inbox' \in [Endpoint -> [InboxName -> 0 .. QueueSize]]
        /\ \A e \in Endpoint, i \in InboxName : inbox'[e][i] <= inbox[e][i] /\ inbox[e][i] \in Nat /\ inbox'[e][i] \in Nat
    <2>1. /\ inbox \in [Endpoint -> [InboxName -> 0 .. QueueSize]] /\ QueueSize \in Nat
          /\ inbox[n][q] \in 0 .. QueueSize
      BY <1>1, SizesAssumption DEF TypeOK
    <2>2. inbox[n][q] - 1 \in 0 .. QueueSize /\ inbox[n][q] - 1 <= inbox[n][q]
      BY <1>2, <2>1
    <2>3. inbox' \in [Endpoint -> [InboxName -> 0 .. QueueSize]]
      BY <1>2, <2>1, <2>2
    <2>4. ASSUME NEW e \in Endpoint, NEW i \in InboxName
          PROVE  inbox'[e][i] <= inbox[e][i] /\ inbox[e][i] \in Nat /\ inbox'[e][i] \in Nat
      <3>1. inbox[e][i] \in 0 .. QueueSize /\ inbox'[e][i] \in 0 .. QueueSize
        BY <2>1, <2>3
      <3>2. inbox'[e][i] = IF e = n /\ i = q THEN inbox[n][q] - 1 ELSE inbox[e][i]
        BY <1>2, <2>1
      <3> QED BY <2>2, <3>1, <3>2
    <2> QED BY <2>3, <2>4
  <1>4. TypeOK'
    BY <1>1, <1>2, <1>3 DEF TypeOK
  <1>5. SentFirst'
    BY <1>1, <1>2 DEF SentFirst
  <1>6. TransferStands'
    <2> SUFFICES ASSUME NEW t \in Switch, NEW o \in Port, ioBusy[t][o]
                 PROVE  tx[t][o][ioLane[t][o]] # <<>> /\ HasRoom(t, o, ioLane[t][o])'
      BY <1>2 DEF TransferStands
    <2>1. tx[t][o][ioLane[t][o]] # <<>> /\ HasRoom(t, o, ioLane[t][o]) /\ ioLane[t][o] \in Lane
      BY <1>1, SwitchBasics DEF TransferStands
    <2>2. CASE o \in {"east", "west"}
      BY <1>2, <2>1, <2>2 DEF HasRoom
    <2>3. CASE o \in {"north", "south"}
      <3> DEFINE e == EndpointAt(t, o)
                 i == Inbox(e, ioLane[t][o])
      <3>1. e \in Endpoint /\ inbox[e][i] < QueueSize
        <4>1. e \in Endpoint
          BY <2>3, EndpointOfPort
        <4>2. o # "east" /\ o # "west"
          BY <2>3
        <4>3. inbox[e][i] < QueueSize
          BY <2>1, <4>2 DEF HasRoom
        <4> QED BY <4>1, <4>3
      <3>2. i \in InboxName
        <4> HIDE DEF e
        <4> QED BY <2>1, <3>1, InboxType
      <3> HIDE DEF e, i
      <3>3. inbox'[e][i] < QueueSize
        <4>1. inbox'[e][i] <= inbox[e][i] /\ inbox[e][i] \in Nat /\ inbox'[e][i] \in Nat /\ QueueSize \in Nat
          BY <1>3, <3>1, <3>2, SizesAssumption
        <4> QED BY <3>1, <4>1
      <3>4. inbox'[EndpointAt(t, o)][Inbox(EndpointAt(t, o), ioLane'[t][o])] < QueueSize
        BY <1>2, <3>3 DEF e, i
      <3>5. o # "east" /\ o # "west"
        BY <2>3
      <3>6. HasRoom(t, o, ioLane[t][o])'
        BY <3>4, <3>5 DEF HasRoom
      <3> QED BY <2>1, <3>6
    <2> QED BY <2>1, <2>2, <2>3 DEF Port
  <1>7. Credits'
    BY <1>1, <1>2 DEF Credits
  <1> QED BY <1>4, <1>5, <1>6, <1>7 DEF SwitchInv

(***************************************************************************)
(* The theorems                                                            *)
(***************************************************************************)

LEMMA SwitchInvInit ==
  ASSUME Init
  PROVE  SwitchInv
PROOF
  <1>1. << >> \in Seq(Packet) /\ Len(<< >>) = 0
    OBVIOUS
  <1> DEFINE empty == [s \in Switch |-> [p \in Port |-> [l \in Lane |-> << >>]]]
  <1>2. rx = empty /\ tx = empty
    BY DEF Init
  <1>3. \A s \in Switch, p \in Port, l \in Lane : rx[s][p][l] = << >> /\ tx[s][p][l] = << >>
    BY <1>2
  <1>4. /\ rx \in [Switch -> [Port -> [Lane -> Seq(Packet)]]]
        /\ tx \in [Switch -> [Port -> [Lane -> Seq(Packet)]]]
    BY <1>1, <1>2
  <1>5. "west" \in Port /\ "request" \in Lane /\ "reply" \in Lane /\ "coherence" \in Lane
        /\ "north" \in Port /\ "east" \in Port /\ "south" \in Port
    BY DEF Port, Lane
  <1>6. TypeOK
    <2>1. \A s \in Switch, p \in Port, l \in Lane :
            /\ Len(tx[s][p][l]) <= QueueSize
            /\ Len(rx[s][p][l]) <= QueueSize + IF s = NumCores /\ p = "south" THEN 1 ELSE 0
      BY <1>1, <1>3, SizesAssumption
    <2>2. /\ ec \in [Switch -> Nat] /\ step \in [Switch -> Nat]
          /\ queue \in [Switch -> Port] /\ lane \in [Switch -> Lane]
      BY <1>5 DEF Init
    <2>3. /\ ioEc \in [Switch -> [Port -> Nat]] /\ ioStep \in [Switch -> [Port -> Nat]]
          /\ ioLane \in [Switch -> [Port -> Lane]] /\ ioBusy \in [Switch -> [Port -> BOOLEAN]]
      BY <1>5 DEF Init
    <2>4. inbox \in [Endpoint -> [InboxName -> 0 .. QueueSize]]
      BY SizesAssumption DEF Init
    <2>5. /\ sent \in [Flow -> Nat] /\ rcvd \in [Flow -> Nat]
          /\ \A f \in Flow : sent[f] <= MaxPackets[f] /\ rcvd[f] <= sent[f]
      BY PacketsAssumption DEF Init
    <2> QED BY <1>4, <2>1, <2>2, <2>3, <2>4, <2>5 DEF TypeOK
  <1>7. SentFirst
    BY <1>1, <1>3 DEF SentFirst, Numbered
  <1>8. TransferStands
    BY DEF TransferStands, Init
  <1>9. Credits
    <2>1. \A s \in Switch, p \in Port : Waiting(rx[s][p]) = 0 /\ Waiting(tx[s][p]) = 0
      <3> SUFFICES ASSUME NEW s \in Switch, NEW p \in Port
                   PROVE  Waiting(rx[s][p]) = 0 /\ Waiting(tx[s][p]) = 0
        OBVIOUS
      <3>1. \A l \in Lane : rx[s][p][l] = << >> /\ tx[s][p][l] = << >>
        BY <1>3
      <3>2. Len(<< >>) = 0
        OBVIOUS
      <3>3. \A l \in Lane : Len(rx[s][p][l]) = 0 /\ Len(tx[s][p][l]) = 0
        BY <3>1, <3>2
      <3>4. /\ Len(rx[s][p]["request"]) = 0 /\ Len(rx[s][p]["reply"]) = 0 /\ Len(rx[s][p]["coherence"]) = 0
            /\ Len(tx[s][p]["request"]) = 0 /\ Len(tx[s][p]["reply"]) = 0 /\ Len(tx[s][p]["coherence"]) = 0
        BY <1>5, <3>3
      <3>5. Waiting(rx[s][p]) = 0 + 0 + 0 /\ Waiting(tx[s][p]) = 0 + 0 + 0
        BY <3>4 DEF Waiting
      <3> QED BY <3>5
    <2>2. \A s \in Switch : WaitingIn(rx[s]) = 0
      BY <1>5, <2>1 DEF WaitingIn
    <2>3. \A s \in Switch : /\ ec[s] = 0 /\ step[s] = 1
                            /\ \A p \in Port : ioEc[s][p] = 0 /\ ioStep[s][p] = 1 /\ ioBusy[s][p] = FALSE
      BY DEF Init
    <2> QED BY <2>1, <2>2, <2>3 DEF Credits
  <1> QED BY <1>6, <1>7, <1>8, <1>9 DEF SwitchInv

LEMMA SwitchInvNext ==
  ASSUME SwitchInv, [Next]_vars
  PROVE  SwitchInv'
PROOF
  <1>1. CASE Next
    <2>1. ASSUME NEW f \in Flow, Send(f) PROVE SwitchInv'
      BY <2>1, SendKeeps
    <2>2. ASSUME NEW s \in Switch, switch_ctrl(s) PROVE SwitchInv'
      BY <2>2, CrossbarKeeps
    <2>3. ASSUME NEW s \in Switch, NEW p \in Port, Io(s, p) PROVE SwitchInv'
      BY <2>3, LookIoKeeps, TransferIoKeeps, DeliverIoKeeps DEF Io
    <2>4. ASSUME NEW n \in Endpoint, NEW q \in InboxName, Consume(n, q) PROVE SwitchInv'
      BY <2>4, ConsumeKeeps
    <2> QED BY <1>1, <2>1, <2>2, <2>3, <2>4 DEF Next
  <1>2. CASE UNCHANGED vars
    BY <1>2 DEF vars, SwitchInv, TypeOK, SentFirst, TransferStands, HasRoom, Credits
  <1> QED BY <1>1, <1>2

\* However the tasks of the switches interleave, the inductive invariant holds.
THEOREM SwitchInvAlways == Spec => []SwitchInv
PROOF
  <1>1. Init => SwitchInv
    BY SwitchInvInit
  <1>2. SwitchInv /\ [Next]_vars => SwitchInv'
    BY SwitchInvNext
  <1> QED BY <1>1, <1>2, PTL DEF Spec

\* switch_ctrl() and switch_io_ctrl(): no queue of the ring grows past its size,
\* although the room in it is looked at a cycle before it is used; the one
\* behind the system agent may by one packet.
THEOREM QueuesBounded == Spec => []TypeOK
PROOF
  <1>1. SwitchInv => TypeOK
    BY DEF SwitchInv
  <1> QED BY <1>1, SwitchInvAlways, PTL

\* The event counts of the switches: what advance() was called for and await()
\* has not used up is what waits in the queues.
THEOREM CreditsMatch == Spec => []Credits
PROOF
  <1>1. SwitchInv => Credits
    BY DEF SwitchInv
  <1> QED BY <1>1, SwitchInvAlways, PTL

(***************************************************************************)
(* The ways of the packets                                                 *)
(***************************************************************************)

\* Where the first and the last switch of a flow are, and by which ports.
LEMMA FlowEnds ==
  ASSUME NEW f \in Flow
  PROVE  /\ SwitchOf(f.src) \in Switch /\ SwitchOf(f.dst) \in Switch /\ f.lane \in Lane
         /\ PortOf(f.src) \in {"north", "south"} /\ PortOf(f.dst) \in {"north", "south"}
         /\ f.dst = EndpointAt(SwitchOf(f.dst), PortOf(f.dst))
         /\ \/ f.dst = 3 * SwitchOf(f.dst) /\ PortOf(f.dst) = "north"
            \/ f.dst = 3 * SwitchOf(f.dst) + 2 /\ PortOf(f.dst) = "south"
BY FlowType, EndpointPlace

\* A switch finds that a packet is for one of its own endpoints.
LEMMA ForThisSwitch ==
  ASSUME NEW f \in Flow, NEW s \in Switch, NEW p \in Port
  PROVE  /\ s = SwitchOf(f.dst) => switch_get_route(s, p, f) = PortOf(f.dst)
         /\ s # SwitchOf(f.dst) => f.dst \notin {SwitchNode(s) - 1, SwitchNode(s) + 1}
PROOF
  <1> DEFINE t == SwitchOf(f.dst)
  <1>1. /\ s \in Nat /\ t \in Nat
        /\ \/ f.dst = 3 * t /\ PortOf(f.dst) = "north"
           \/ f.dst = 3 * t + 2 /\ PortOf(f.dst) = "south"
    BY FlowEnds, SizesAssumption DEF Switch
  <1> HIDE DEF t
  <1>2. SwitchNode(s) = 3 * s + 1
    BY DEF SwitchNode
  <1>3. CASE s = t
    <2>1. f.dst \in {SwitchNode(s) - 1, SwitchNode(s) + 1}
          /\ (f.dst < SwitchNode(s) <=> PortOf(f.dst) = "north")
      BY <1>1, <1>2, <1>3
    <2> QED BY <1>1, <1>3, <2>1 DEF switch_get_route, t
  <1>4. CASE s # t
    <2>1. f.dst \notin {SwitchNode(s) - 1, SwitchNode(s) + 1}
      BY <1>1, <1>2, <1>4
    <2> QED BY <1>4, <2>1 DEF t
  <1> QED BY <1>3, <1>4

\* Round the ring no two switches are equally far from the first of a flow.
LEMMA HopType ==
  ASSUME NEW f \in Flow
  PROVE  /\ \A s \in Switch : Hop(f, s) \in 0 .. NumCores /\ (Hop(f, s) = 0 <=> s = SwitchOf(f.src))
         /\ \A s, t \in Switch : Hop(f, s) = Hop(f, t) => s = t
         /\ Hops(f) \in 0 .. NumCores
PROOF
  <1> DEFINE from == SwitchOf(f.src)
             back == Leaves(f) = "west"
  <1>1. from \in Nat /\ from <= NumCores /\ NumCores \in Nat
        /\ \A s \in Switch : s \in Nat /\ s <= NumCores
    BY FlowEnds, SizesAssumption DEF Switch
  <1>2. \A s : Hop(f, s) = CASE back /\ s <= from -> from - s
                             [] back /\ s > from -> from + NumCores + 1 - s
                             [] ~back /\ s >= from -> s - from
                             [] ~back /\ s < from -> s + NumCores + 1 - from
    BY DEF Hop
  <1> HIDE DEF from, back
  <1>3. CASE back
    <2>1. \A s \in Switch : Hop(f, s) = IF s <= from THEN from - s ELSE from + NumCores + 1 - s
      BY <1>1, <1>2, <1>3
    <2>2. \A s \in Switch : Hop(f, s) \in 0 .. NumCores /\ (Hop(f, s) = 0 <=> s = from)
      BY <1>1, <2>1
    <2>3. \A s, t \in Switch : Hop(f, s) = Hop(f, t) => s = t
      BY <1>1, <2>1
    <2> QED BY <2>2, <2>3, FlowEnds DEF Hops, from
  <1>4. CASE ~back
    <2>1. \A s \in Switch : Hop(f, s) = IF s >= from THEN s - from ELSE s + NumCores + 1 - from
      BY <1>1, <1>2, <1>4
    <2>2. \A s \in Switch : Hop(f, s) \in 0 .. NumCores /\ (Hop(f, s) = 0 <=> s = from)
      BY <1>1, <2>1
    <2>3. \A s, t \in Switch : Hop(f, s) = Hop(f, t) => s = t
      BY <1>1, <2>1
    <2> QED BY <2>2, <2>3, FlowEnds DEF Hops, from
  <1> QED BY <1>3, <1>4

\* The next switch is one hop further, short of the first one.
LEMMA NextHop ==
  ASSUME NEW f \in Flow, NEW s \in Switch, Hop(f, s) < NumCores
  PROVE  /\ Leaves(f) = "west" => Hop(f, NextWest(s)) = Hop(f, s) + 1
         /\ Leaves(f) # "west" => Hop(f, NextEast(s)) = Hop(f, s) + 1
PROOF
  <1> DEFINE from == SwitchOf(f.src)
             back == Leaves(f) = "west"
  <1>1. /\ from \in Nat /\ from <= NumCores /\ NumCores \in Nat
        /\ s \in Nat /\ s <= NumCores
        /\ NextEast(s) = IF s = NumCores THEN 0 ELSE s + 1
        /\ NextWest(s) = IF s = 0 THEN NumCores ELSE s - 1
    BY FlowEnds, SizesAssumption DEF Switch, NextEast, NextWest
  <1>2. \A t : Hop(f, t) = CASE back /\ t <= from -> from - t
                             [] back /\ t > from -> from + NumCores + 1 - t
                             [] ~back /\ t >= from -> t - from
                             [] ~back /\ t < from -> t + NumCores + 1 - from
    BY DEF Hop
  <1> HIDE DEF from, back
  <1>3. CASE back
    <2>1. \A t \in Nat : Hop(f, t) = IF t <= from THEN from - t ELSE from + NumCores + 1 - t
      BY <1>1, <1>2, <1>3
    <2>2. NextWest(s) \in Nat
      BY <1>1
    <2>3. Hop(f, NextWest(s)) = Hop(f, s) + 1
      BY <1>1, <2>1, <2>2
    <2> QED BY <1>3, <2>3 DEF back
  <1>4. CASE ~back
    <2>1. \A t \in Nat : Hop(f, t) = IF t >= from THEN t - from ELSE t + NumCores + 1 - from
      BY <1>1, <1>2, <1>4
    <2>2. NextEast(s) \in Nat
      BY <1>1
    <2>3. Hop(f, NextEast(s)) = Hop(f, s) + 1
      BY <1>1, <2>1, <2>2
    <2> QED BY <1>4, <2>3 DEF back
  <1> QED BY <1>3, <1>4

\* A flow leaves its first switch for the next one exactly if that is not its
\* last.
LEMMA LeavesFor ==
  ASSUME NEW f \in Flow
  PROVE  SwitchOf(f.src) # SwitchOf(f.dst) => Leaves(f) \in {"east", "west"}
PROOF
  <1>1. SwitchOf(f.src) \in Switch /\ PortOf(f.src) \in {"north", "south"}
    BY FlowEnds
  <1>2. SUFFICES ASSUME SwitchOf(f.src) # SwitchOf(f.dst) PROVE Leaves(f) \in {"east", "west"}
    OBVIOUS
  <1>3. f.dst \notin {SwitchNode(SwitchOf(f.src)) - 1, SwitchNode(SwitchOf(f.src)) + 1}
    BY <1>1, <1>2, ForThisSwitch DEF Port
  <1> QED BY <1>1, <1>3 DEF Leaves, switch_get_route

\* Every switch on its way sends a packet to the port it goes by.
LEMMA RouteGoesOn ==
  ASSUME NEW f \in Flow, NEW s \in Switch, Hop(f, s) <= Hops(f)
  PROVE  /\ ComesBy(f, s) \in Port /\ GoesBy(f, s) \in Port
         /\ switch_get_route(s, ComesBy(f, s), f) = GoesBy(f, s)
         /\ s # SwitchOf(f.dst) => GoesBy(f, s) \in {"east", "west"} /\ Hop(f, s) < Hops(f)
         /\ s = SwitchOf(f.dst) => GoesBy(f, s) = PortOf(f.dst)
PROOF
  <1>1. /\ SwitchOf(f.src) \in Switch /\ SwitchOf(f.dst) \in Switch
        /\ PortOf(f.src) \in {"north", "south"} /\ PortOf(f.dst) \in {"north", "south"}
    BY FlowEnds
  <1>2. ComesBy(f, s) \in Port /\ Leaves(f) \in Port
    BY <1>1, RouteType DEF ComesBy, Leaves, Port
  <1>3. CASE s = SwitchOf(f.dst)
    <2>1. GoesBy(f, s) = PortOf(f.dst)
      BY <1>3 DEF GoesBy
    <2>2. switch_get_route(s, ComesBy(f, s), f) = PortOf(f.dst)
      BY <1>2, <1>3, ForThisSwitch
    <2> QED BY <1>1, <1>2, <1>3, <2>1, <2>2 DEF Port
  <1>4. CASE s # SwitchOf(f.dst)
    <2>1. Hop(f, s) < Hops(f) /\ SwitchOf(f.src) # SwitchOf(f.dst)
      <3>1. Hop(f, s) # Hop(f, SwitchOf(f.dst)) /\ Hop(f, s) \in Nat /\ Hop(f, SwitchOf(f.dst)) \in Nat
        BY <1>1, <1>4, HopType
      <3>2. Hop(f, s) < Hop(f, SwitchOf(f.dst))
        BY <3>1 DEF Hops
      <3>3. Hop(f, SwitchOf(f.dst)) # 0
        BY <3>1, <3>2
      <3> QED BY <1>1, <3>2, <3>3, HopType DEF Hops
    <2>2. Leaves(f) \in {"east", "west"} /\ GoesBy(f, s) = Leaves(f)
      BY <1>4, <2>1, LeavesFor DEF GoesBy
    <2>3. f.dst \notin {SwitchNode(s) - 1, SwitchNode(s) + 1}
      BY <1>2, <1>4, ForThisSwitch
    <2>4. CASE s = SwitchOf(f.src)
      <3>1. ComesBy(f, s) = PortOf(f.src)
        BY <2>4 DEF ComesBy
      <3>2. switch_get_route(s, ComesBy(f, s), f) = Leaves(f)
        BY <2>4, <3>1 DEF Leaves
      <3> QED BY <1>2, <1>4, <2>1, <2>2, <3>2
    <2>5. CASE s # SwitchOf(f.src)
      <3>1. ComesBy(f, s) = IF Leaves(f) = "west" THEN "east" ELSE "west"
        BY <2>5 DEF ComesBy
      <3>2. switch_get_route(s, ComesBy(f, s), f) = Leaves(f)
        BY <2>2, <2>3, <3>1 DEF switch_get_route
      <3> QED BY <1>2, <1>4, <2>1, <2>2, <3>2
    <2> QED BY <2>4, <2>5
  <1> QED BY <1>3, <1>4

(***************************************************************************)
(* The packets of a flow in a queue                                        *)
(***************************************************************************)

\* The numbers of the packets of f in a queue.
At(q, f) == {n \in Nat : [flow |-> f, n |-> n] \in Range(q)}

\* The packets of each flow are in a queue in the order they were sent.
InOrder(q) == \A i, j \in 1..Len(q) : i < j /\ q[i].flow = q[j].flow => q[i].n < q[j].n

LEMMA PacketNumber ==
  ASSUME NEW x \in Packet
  PROVE  x.flow \in Flow /\ x.n \in Nat /\ x.n # 0 /\ x = [flow |-> x.flow, n |-> x.n]
PROOF
  <1>1. /\ x.flow \in Flow /\ x.n \in 1 .. MaxPackets[x.flow]
        /\ x = [flow |-> x.flow, n |-> x.n]
    BY PacketType
  <1>2. MaxPackets[x.flow] \in Nat
    BY <1>1, PacketsAssumption
  <1> QED BY <1>1, <1>2

LEMMA RangeType ==
  ASSUME NEW q \in Seq(Packet)
  PROVE  /\ Range(q) = {q[i] : i \in 1..Len(q)} /\ Range(q) \subseteq Packet
         /\ \A f, n : n \in At(q, f) <=> n \in Nat /\ \E i \in 1..Len(q) : q[i] = [flow |-> f, n |-> n]
PROOF
  <1>1. DOMAIN q = 1..Len(q) /\ \A i \in 1..Len(q) : q[i] \in Packet
    BY LenProperties, QueueEnds
  <1>2. Range(q) = {q[i] : i \in 1..Len(q)}
    BY <1>1 DEF Range
  <1> QED BY <1>1, <1>2 DEF At

\* A packet put into a queue behind those of its flow.
LEMMA AtAppend ==
  ASSUME NEW q \in Seq(Packet), NEW x \in Packet
  PROVE  /\ Range(Append(q, x)) = Range(q) \cup {x}
         /\ \A f : At(Append(q, x), f) = IF x.flow = f THEN At(q, f) \cup {x.n} ELSE At(q, f)
         /\ InOrder(q) /\ (\A n \in At(q, x.flow) : n < x.n) => InOrder(Append(q, x))
PROOF
  <1> DEFINE r == Append(q, x)
  <1>1. /\ Len(q) \in Nat /\ r \in Seq(Packet) /\ Len(r) = Len(q) + 1
        /\ \A i \in 1..Len(r) : r[i] = IF i <= Len(q) THEN q[i] ELSE x
        /\ \A i \in 1..Len(q) : q[i] \in Packet
    BY QueueEnds
  <1> HIDE DEF r
  <1>2. Range(q) = {q[i] : i \in 1..Len(q)} /\ Range(r) = {r[i] : i \in 1..Len(r)}
    BY <1>1, RangeType
  <1>3. Range(r) = Range(q) \cup {x}
    <2>1. \A i \in 1..Len(q) : i \in 1..Len(r) /\ r[i] = q[i]
      BY <1>1
    <2>2. Len(q) + 1 \in 1..Len(r) /\ r[Len(q) + 1] = x
      BY <1>1
    <2>3. \A i \in 1..Len(r) : i \in 1..Len(q) \/ i = Len(q) + 1
      BY <1>1
    <2> QED BY <1>2, <2>1, <2>2, <2>3
  <1>4. x.n \in Nat /\ x = [flow |-> x.flow, n |-> x.n]
    BY PacketNumber
  <1>5. ASSUME NEW f
        PROVE  At(r, f) = IF x.flow = f THEN At(q, f) \cup {x.n} ELSE At(q, f)
    <2>1. \A n : n \in At(r, f) <=> n \in At(q, f) \/ (n \in Nat /\ [flow |-> f, n |-> n] = x)
      BY <1>3 DEF At
    <2>2. \A n : [flow |-> f, n |-> n] = x <=> x.flow = f /\ x.n = n
      BY <1>4
    <2> QED BY <1>4, <2>1, <2>2
  <1>6. ASSUME InOrder(q), \A n \in At(q, x.flow) : n < x.n
        PROVE  InOrder(r)
    <2> SUFFICES ASSUME NEW i \in 1..Len(r), NEW j \in 1..Len(r), i < j, r[i].flow = r[j].flow
                 PROVE  r[i].n < r[j].n
      BY DEF InOrder
    <2>1. i \in 1..Len(q) /\ r[i] = q[i] /\ q[i] \in Packet
      BY <1>1
    <2>2. CASE j <= Len(q)
      <3>1. j \in 1..Len(q) /\ r[j] = q[j]
        BY <1>1, <2>2
      <3> QED BY <1>6, <2>1, <3>1 DEF InOrder
    <2>3. CASE ~(j <= Len(q))
      <3>1. r[j] = x
        BY <1>1, <2>3
      <3>2. q[i].n \in Nat /\ q[i] = [flow |-> q[i].flow, n |-> q[i].n]
        BY <2>1, PacketNumber
      <3>3. q[i].n \in At(q, x.flow)
        BY <2>1, <3>1, <3>2, RangeType
      <3> QED BY <1>6, <2>1, <3>1, <3>3
    <2> QED BY <2>2, <2>3
  <1> QED BY <1>3, <1>5, <1>6 DEF r

\* The first packet of a queue is the first of its flow there.
LEMMA AtTail ==
  ASSUME NEW q \in Seq(Packet), q # << >>, InOrder(q)
  PROVE  /\ Head(q) \in Packet /\ Head(q) \in Range(q) /\ Range(Tail(q)) \subseteq Range(q) /\ InOrder(Tail(q))
         /\ Head(q).n \in At(q, Head(q).flow) /\ \A n \in At(q, Head(q).flow) : Head(q).n <= n
         /\ \A f : At(Tail(q), f) = IF Head(q).flow = f THEN At(q, f) \ {Head(q).n} ELSE At(q, f)
PROOF
  <1> DEFINE r == Tail(q)
             x == Head(q)
  <1>1. /\ Len(q) \in Nat /\ x \in Packet /\ x = q[1] /\ 1 \in 1..Len(q)
        /\ r \in Seq(Packet) /\ Len(r) = Len(q) - 1
        /\ \A i \in 1..Len(r) : i+1 \in 1..Len(q) /\ r[i] = q[i+1]
        /\ \A i \in 1..Len(q) : q[i] \in Packet
    BY QueueEnds
  <1> HIDE DEF r, x
  <1>2. /\ Range(q) = {q[i] : i \in 1..Len(q)} /\ Range(r) = {r[i] : i \in 1..Len(r)}
        /\ \A f, n : n \in At(q, f) <=> n \in Nat /\ \E i \in 1..Len(q) : q[i] = [flow |-> f, n |-> n]
        /\ \A f, n : n \in At(r, f) <=> n \in Nat /\ \E i \in 1..Len(r) : r[i] = [flow |-> f, n |-> n]
    BY <1>1, RangeType
  <1>3. x.n \in Nat /\ x = [flow |-> x.flow, n |-> x.n]
    BY <1>1, PacketNumber
  <1>4. \A i \in 1..Len(q) : i # 1 => i - 1 \in 1..Len(r) /\ r[i-1] = q[i] /\ 1 < i
    BY <1>1
  <1>5. x \in Range(q) /\ Range(r) \subseteq Range(q)
    BY <1>1, <1>2
  <1>6. InOrder(r)
    <2> SUFFICES ASSUME NEW i \in 1..Len(r), NEW j \in 1..Len(r), i < j, r[i].flow = r[j].flow
                 PROVE  r[i].n < r[j].n
      BY DEF InOrder
    <2>1. i+1 \in 1..Len(q) /\ j+1 \in 1..Len(q) /\ i+1 < j+1 /\ r[i] = q[i+1] /\ r[j] = q[j+1]
      BY <1>1
    <2> QED BY <2>1 DEF InOrder
  <1>7. x.n \in At(q, x.flow)
    BY <1>1, <1>2, <1>3
  <1>8. ASSUME NEW i \in 1..Len(q), i # 1, q[i].flow = x.flow
        PROVE  x.n < q[i].n
    BY <1>1, <1>4, <1>8 DEF InOrder
  <1>9. ASSUME NEW n \in At(q, x.flow) PROVE x.n <= n
    <2>1. PICK i \in 1..Len(q) : q[i] = [flow |-> x.flow, n |-> n]
      BY <1>2, <1>9
    <2>2. n \in Nat /\ q[i].flow = x.flow /\ q[i].n = n
      BY <1>2, <1>9, <2>1
    <2> QED BY <1>1, <1>3, <1>8, <2>2
  <1>10. ASSUME NEW f
         PROVE  At(r, f) = IF x.flow = f THEN At(q, f) \ {x.n} ELSE At(q, f)
    <2>1. ASSUME NEW n \in At(r, f) PROVE n \in At(q, f) /\ (x.flow = f => n # x.n)
      <3>1. PICK i \in 1..Len(r) : r[i] = [flow |-> f, n |-> n]
        BY <1>2, <2>1
      <3>2. n \in Nat /\ i+1 \in 1..Len(q) /\ q[i+1] = [flow |-> f, n |-> n] /\ i+1 # 1
        BY <1>1, <1>2, <2>1, <3>1
      <3>3. n \in At(q, f) /\ q[i+1].flow = f /\ q[i+1].n = n
        BY <1>2, <3>2
      <3>4. x.flow = f => x.n < n
        BY <1>8, <3>2, <3>3
      <3> QED BY <1>3, <3>2, <3>3, <3>4
    <2>2. ASSUME NEW n \in At(q, f), x.flow # f \/ n # x.n PROVE n \in At(r, f)
      <3>1. PICK i \in 1..Len(q) : q[i] = [flow |-> f, n |-> n]
        BY <1>2, <2>2
      <3>2. q[i].flow = f /\ q[i].n = n /\ n \in Nat
        BY <1>2, <2>2, <3>1
      <3>3. i # 1
        BY <1>1, <2>2, <3>2
      <3>4. i - 1 \in 1..Len(r) /\ r[i-1] = [flow |-> f, n |-> n]
        BY <1>4, <3>1, <3>3
      <3> QED BY <1>2, <3>2, <3>4
    <2> QED BY <2>1, <2>2
  <1> QED BY <1>1, <1>5, <1>6, <1>7, <1>9, <1>10 DEF r, x

(***************************************************************************)
(* The packets of a flow along its way                                     *)
(***************************************************************************)

\* The packets I[s] on their way into and O[s] on their way out of each switch,
\* hop[s] switches from the first: those further on were sent before.
Rowed(I, O, hop) ==
  \A s, t \in Switch :
    /\ \A m \in O[s], n \in I[s] : m < n
    /\ hop[s] < hop[t] => \A m \in I[t] \cup O[t], n \in I[s] \cup O[s] : m < n

\* They are the packets after number a to number b.
Complete(I, O, a, b) ==
  \A n \in Nat : a < n /\ n <= b <=> \E s \in Switch : n \in I[s] \cup O[s]

Rows == [Switch -> SUBSET Nat]

\* A packet that crosses switch s.
LEMMA CrossKeepsRow ==
  ASSUME NEW I \in Rows, NEW O \in Rows, NEW J \in Rows, NEW P \in Rows, NEW hop, NEW a, NEW b,
         Rowed(I, O, hop), Complete(I, O, a, b),
         NEW s \in Switch, NEW x \in I[s], \A n \in I[s] : x <= n,
         J[s] = I[s] \ {x}, P[s] = O[s] \cup {x},
         \A t \in Switch : t # s => J[t] = I[t] /\ P[t] = O[t]
  PROVE  Rowed(J, P, hop) /\ Complete(J, P, a, b)
PROOF
  <1>1. \A t \in Switch : J[t] \cup P[t] = I[t] \cup O[t]
    OBVIOUS
  <1>2. ASSUME NEW t \in Switch, NEW m \in P[t], NEW n \in J[t] PROVE m < n
    <2>1. m \in Nat /\ n \in Nat /\ x \in Nat
      BY DEF Rows
    <2>2. CASE t = s /\ m = x
      BY <2>1, <2>2
    <2>3. CASE t # s \/ m # x
      BY <2>3 DEF Rowed
    <2> QED BY <2>2, <2>3
  <1>3. Rowed(J, P, hop)
    BY <1>1, <1>2 DEF Rowed
  <1>4. Complete(J, P, a, b)
    BY <1>1 DEF Complete
  <1> QED BY <1>3, <1>4

\* A packet that goes from switch s to the next one, t.
LEMMA HopKeepsRow ==
  ASSUME NEW I \in Rows, NEW O \in Rows, NEW J \in Rows, NEW P \in Rows,
         NEW hop \in [Switch -> Nat], \A u, v \in Switch : hop[u] = hop[v] => u = v,
         NEW a, NEW b, Rowed(I, O, hop), Complete(I, O, a, b),
         NEW s \in Switch, NEW t \in Switch, hop[t] = hop[s] + 1,
         NEW x \in O[s], \A n \in O[s] : x <= n,
         P[s] = O[s] \ {x}, J[t] = I[t] \cup {x},
         \A u \in Switch : (u # s => P[u] = O[u]) /\ (u # t => J[u] = I[u])
  PROVE  Rowed(J, P, hop) /\ Complete(J, P, a, b)
PROOF
  <1>1. s # t /\ x \in Nat /\ hop[s] < hop[t] /\ \A u \in Switch : hop[u] \in Nat
    BY DEF Rows
  <1>2. /\ \A u \in Switch : u # s /\ u # t => J[u] = I[u] /\ P[u] = O[u]
        /\ J[s] = I[s] /\ P[s] = O[s] \ {x} /\ J[t] = I[t] \cup {x} /\ P[t] = O[t]
    BY <1>1
  <1>3. /\ \A n \in I[s] : x < n
        /\ \A n \in O[s] \ {x} : x < n
        /\ \A u \in Switch : hop[s] < hop[u] => \A m \in I[u] \cup O[u] : m < x
        /\ \A u \in Switch : hop[u] < hop[s] => \A n \in I[u] \cup O[u] : x < n
    <2>1. \A n \in O[s] \ {x} : x <= n /\ n \in Nat /\ n # x
      BY DEF Rows
    <2> QED BY <1>1, <2>1 DEF Rowed
  <1>4. ASSUME NEW u \in Switch, NEW m \in P[u], NEW n \in J[u] PROVE m < n
    BY <1>1, <1>2, <1>3 DEF Rowed
  <1>5. ASSUME NEW u \in Switch, NEW v \in Switch, hop[u] < hop[v],
               NEW m \in J[v] \cup P[v], NEW n \in J[u] \cup P[u]
        PROVE  m < n
    <2>1. m \in I[v] \cup O[v] \/ (v = t /\ m = x)
      BY <1>2
    <2>2. n \in I[u] \cup O[u] \/ (u = t /\ n = x)
      BY <1>2
    <2>3. CASE m \in I[v] \cup O[v] /\ n \in I[u] \cup O[u]
      BY <1>5, <2>3 DEF Rowed
    <2>4. CASE v = t /\ m = x /\ n \in I[u] \cup O[u]
      <3>1. u = s \/ hop[u] < hop[s]
        BY <1>1, <1>5, <2>4
      <3>2. u = s => n # x
        <4>1. u = s => n \in I[s] \cup (O[s] \ {x})
          BY <1>2
        <4>2. \A k \in I[s] : k # x
          BY <1>1, <1>3 DEF Rows
        <4> QED BY <4>1, <4>2
      <3> QED BY <1>3, <2>4, <3>1, <3>2
    <2>5. CASE u = t /\ n = x /\ m \in I[v] \cup O[v]
      <3>1. hop[s] < hop[v]
        BY <1>1, <1>5, <2>5
      <3> QED BY <1>3, <2>5, <3>1
    <2>6. CASE u = t /\ v = t
      BY <1>1, <1>5, <2>6
    <2> QED BY <2>1, <2>2, <2>3, <2>4, <2>5, <2>6
  <1>6. Rowed(J, P, hop)
    BY <1>4, <1>5 DEF Rowed
  <1>7. \A n : (\E u \in Switch : n \in J[u] \cup P[u]) <=> (\E u \in Switch : n \in I[u] \cup O[u])
    BY <1>2
  <1>8. Complete(J, P, a, b)
    BY <1>7 DEF Complete
  <1> QED BY <1>6, <1>8

\* A packet that leaves the last switch is the next of its flow.
LEMMA LeaveKeepsRow ==
  ASSUME NEW I \in Rows, NEW O \in Rows, NEW P \in Rows,
         NEW hop \in [Switch -> Nat], \A u, v \in Switch : hop[u] = hop[v] => u = v,
         NEW a \in Nat, NEW b \in Nat, Rowed(I, O, hop), Complete(I, O, a, b),
         NEW s \in Switch, \A u \in Switch : I[u] \cup O[u] # {} => hop[u] <= hop[s],
         NEW x \in O[s], \A n \in O[s] : x <= n,
         P[s] = O[s] \ {x}, \A u \in Switch : u # s => P[u] = O[u]
  PROVE  Rowed(I, P, hop) /\ Complete(I, P, x, b) /\ x = a + 1
PROOF
  <1>1. x \in Nat /\ \A u \in Switch : hop[u] \in Nat /\ I[u] \subseteq Nat /\ O[u] \subseteq Nat
    BY DEF Rows
  <1>2. Rowed(I, P, hop)
    <2>1. \A u \in Switch : P[u] \subseteq O[u]
      OBVIOUS
    <2> QED BY <2>1 DEF Rowed
  <1>3. ASSUME NEW u \in Switch, NEW n \in I[u] \cup P[u] PROVE x < n
    <2>1. CASE u = s
      <3>1. n \in I[s] \/ (n \in O[s] /\ n # x)
        BY <2>1
      <3>2. n \in I[s] => x < n
        BY DEF Rowed
      <3>3. n \in O[s] /\ n # x => x < n
        BY <1>1
      <3> QED BY <3>1, <3>2, <3>3
    <2>2. CASE u # s
      <3>1. n \in I[u] \cup O[u]
        BY <2>2
      <3>2. hop[u] < hop[s]
        BY <1>1, <2>2, <3>1
      <3> QED BY <3>1, <3>2 DEF Rowed
    <2> QED BY <2>1, <2>2
  <1>4. \A n : (\E u \in Switch : n \in I[u] \cup O[u])
               <=> n = x \/ (\E u \in Switch : n \in I[u] \cup P[u])
    OBVIOUS
  <1>5. a < x /\ x <= b
    BY <1>1 DEF Complete
  <1>6. x = a + 1
    <2>1. a + 1 \in Nat /\ a < a + 1 /\ a + 1 <= b
      BY <1>1, <1>5
    <2>2. a + 1 = x \/ x < a + 1
      BY <1>3, <1>4, <2>1 DEF Complete
    <2> QED BY <1>1, <1>5, <2>2
  <1>7. Complete(I, P, x, b)
    <2> SUFFICES ASSUME NEW n \in Nat
                 PROVE  x < n /\ n <= b <=> \E u \in Switch : n \in I[u] \cup P[u]
      BY DEF Complete
    <2>1. a < n /\ n <= b <=> n = x \/ \E u \in Switch : n \in I[u] \cup P[u]
      BY <1>4 DEF Complete
    <2>2. (\E u \in Switch : n \in I[u] \cup P[u]) => x < n
      BY <1>3
    <2> QED BY <1>1, <1>6, <2>1, <2>2
  <1> QED BY <1>2, <1>6, <1>7

\* A packet that is put into the first switch.
LEMMA EnterKeepsRow ==
  ASSUME NEW I \in Rows, NEW O \in Rows, NEW J \in Rows, NEW hop \in [Switch -> Nat],
         NEW a \in Nat, NEW b \in Nat, a <= b, Rowed(I, O, hop), Complete(I, O, a, b),
         NEW s \in Switch, hop[s] = 0,
         J[s] = I[s] \cup {b + 1}, \A u \in Switch : u # s => J[u] = I[u]
  PROVE  Rowed(J, O, hop) /\ Complete(J, O, a, b + 1)
PROOF
  <1>1. \A u \in Switch : \A n \in I[u] \cup O[u] : n \in Nat /\ a < n /\ n < b + 1
    <2> SUFFICES ASSUME NEW u \in Switch, NEW n \in I[u] \cup O[u]
                 PROVE  n \in Nat /\ a < n /\ n < b + 1
      OBVIOUS
    <2>1. n \in Nat
      BY DEF Rows
    <2>2. a < n /\ n <= b
      BY <2>1 DEF Complete
    <2> QED BY <2>1, <2>2
  <1>2. ASSUME NEW u \in Switch, NEW m \in O[u], NEW n \in J[u] PROVE m < n
    BY <1>1 DEF Rowed
  <1>3. ASSUME NEW u \in Switch, NEW v \in Switch, hop[u] < hop[v],
               NEW m \in J[v] \cup O[v], NEW n \in J[u] \cup O[u]
        PROVE  m < n
    <2>1. v # s /\ m \in I[v] \cup O[v]
      <3>1. hop[u] \in Nat /\ hop[v] \in Nat
        OBVIOUS
      <3>2. v # s
        BY <1>3, <3>1
      <3> QED BY <3>2
    <2>2. CASE n \in I[u] \cup O[u]
      BY <1>3, <2>1, <2>2 DEF Rowed
    <2>3. CASE n = b + 1
      BY <1>1, <2>1, <2>3
    <2> QED BY <2>2, <2>3
  <1>4. Rowed(J, O, hop)
    BY <1>2, <1>3 DEF Rowed
  <1>5. Complete(J, O, a, b + 1)
    <2> SUFFICES ASSUME NEW n \in Nat
                 PROVE  a < n /\ n <= b + 1 <=> \E u \in Switch : n \in J[u] \cup O[u]
      BY DEF Complete
    <2>1. a < n /\ n <= b <=> \E u \in Switch : n \in I[u] \cup O[u]
      BY DEF Complete
    <2>2. (\E u \in Switch : n \in J[u] \cup O[u]) <=> n = b + 1 \/ \E u \in Switch : n \in I[u] \cup O[u]
      OBVIOUS
    <2> QED BY <2>1, <2>2
  <1> QED BY <1>4, <1>5

(***************************************************************************)
(* Packets arrive once each and in order                                   *)
(***************************************************************************)

Ins(f, s) == At(rx[s][ComesBy(f, s)][f.lane], f)
Outs(f, s) == At(tx[s][GoesBy(f, s)][f.lane], f)

InRow(f) == [s \in Switch |-> Ins(f, s)]
OutRow(f) == [s \in Switch |-> Outs(f, s)]
HopRow(f) == [s \in Switch |-> Hop(f, s)]

QueuesInOrder == \A s \in Switch, p \in Port, l \in Lane : InOrder(rx[s][p][l]) /\ InOrder(tx[s][p][l])

\* On the way of a flow are the packets after the last that arrived to the last
\* that was sent, the earlier further on.
RowsInOrder ==
  \A f \in Flow :
    /\ Rowed(InRow(f), OutRow(f), HopRow(f))
    /\ Complete(InRow(f), OutRow(f), rcvd[f], sent[f])

WayInv == OnTheWay /\ QueuesInOrder /\ RowsInOrder

LEMMA WayPorts ==
  ASSUME NEW f \in Flow, NEW s \in Switch
  PROVE  ComesBy(f, s) \in Port /\ GoesBy(f, s) \in Port /\ f.lane \in Lane
PROOF
  <1>1. PortOf(f.src) \in {"north", "south"} /\ PortOf(f.dst) \in {"north", "south"} /\ f.lane \in Lane
    BY FlowEnds
  <1>2. Leaves(f) \in Port
    BY <1>1, RouteType DEF Leaves, Port
  <1> QED BY <1>1, <1>2 DEF ComesBy, GoesBy, Port

LEMMA RowsType ==
  ASSUME NEW f \in Flow
  PROVE  /\ InRow(f) \in Rows /\ OutRow(f) \in Rows /\ HopRow(f) \in [Switch -> Nat]
         /\ \A u, v \in Switch : HopRow(f)[u] = HopRow(f)[v] => u = v
         /\ \A s \in Switch : InRow(f)[s] = Ins(f, s) /\ OutRow(f)[s] = Outs(f, s) /\ HopRow(f)[s] = Hop(f, s)
PROOF
  <1>1. \A q : At(q, f) \subseteq Nat
    BY DEF At
  <1>2. \A s \in Switch : Hop(f, s) \in Nat
    BY HopType
  <1>3. \A u, v \in Switch : Hop(f, u) = Hop(f, v) => u = v
    BY HopType
  <1>4. InRow(f) \in Rows /\ OutRow(f) \in Rows
    BY <1>1 DEF InRow, OutRow, Ins, Outs, Rows
  <1> QED BY <1>2, <1>3, <1>4 DEF InRow, OutRow, HopRow

\* A packet in a queue of a switch is one of its flow on the way.
LEMMA PacketOnItsWay ==
  ASSUME TypeOK, OnTheWay, NEW s \in Switch, NEW p \in Port, NEW l \in Lane
  PROVE  /\ \A x \in Range(rx[s][p][l]) :
              /\ x \in Packet /\ x.flow \in Flow /\ x.n \in Nat
              /\ l = x.flow.lane /\ p = ComesBy(x.flow, s) /\ Hop(x.flow, s) <= Hops(x.flow)
              /\ x.n \in Ins(x.flow, s)
         /\ \A x \in Range(tx[s][p][l]) :
              /\ x \in Packet /\ x.flow \in Flow /\ x.n \in Nat
              /\ l = x.flow.lane /\ p = GoesBy(x.flow, s) /\ Hop(x.flow, s) <= Hops(x.flow)
              /\ x.n \in Outs(x.flow, s)
PROOF
  <1>1. rx[s][p][l] \in Seq(Packet) /\ tx[s][p][l] \in Seq(Packet)
    BY SwitchBasics
  <1>2. ASSUME NEW x \in Range(rx[s][p][l])
        PROVE  /\ x \in Packet /\ x.flow \in Flow /\ x.n \in Nat
               /\ l = x.flow.lane /\ p = ComesBy(x.flow, s) /\ Hop(x.flow, s) <= Hops(x.flow)
               /\ x.n \in Ins(x.flow, s)
    <2>1. l = x.flow.lane /\ p = ComesBy(x.flow, s) /\ Hop(x.flow, s) <= Hops(x.flow)
      BY <1>2 DEF OnTheWay
    <2>2. x \in Packet
      BY <1>1, <1>2, RangeType
    <2>3. x.flow \in Flow /\ x.n \in Nat /\ x = [flow |-> x.flow, n |-> x.n]
      BY <2>2, PacketNumber
    <2> QED BY <1>2, <2>1, <2>2, <2>3 DEF Ins, At
  <1>3. ASSUME NEW x \in Range(tx[s][p][l])
        PROVE  /\ x \in Packet /\ x.flow \in Flow /\ x.n \in Nat
               /\ l = x.flow.lane /\ p = GoesBy(x.flow, s) /\ Hop(x.flow, s) <= Hops(x.flow)
               /\ x.n \in Outs(x.flow, s)
    <2>1. l = x.flow.lane /\ p = GoesBy(x.flow, s) /\ Hop(x.flow, s) <= Hops(x.flow)
      BY <1>3 DEF OnTheWay
    <2>2. x \in Packet
      BY <1>1, <1>3, RangeType
    <2>3. x.flow \in Flow /\ x.n \in Nat /\ x = [flow |-> x.flow, n |-> x.n]
      BY <2>2, PacketNumber
    <2> QED BY <1>3, <2>1, <2>2, <2>3 DEF Outs, At
  <1> QED BY <1>2, <1>3

\* A turn of the crossbar.
LEMMA CrossbarGoesOn ==
  ASSUME SwitchInv, WayInv, NEW s \in Switch, switch_ctrl(s)
  PROVE  WayInv'
PROOF
  <1> DEFINE link == Links(s)
             l == lane[s]
             D == DOMAIN link
             R == Range(link)
             x(o) == Head(rx[s][link[o]][l])
  <1>1. TypeOK /\ OnTheWay /\ QueuesInOrder /\ RowsInOrder /\ l \in Lane /\ sent' = sent /\ rcvd' = rcvd
    BY DEF SwitchInv, WayInv, TypeOK, switch_ctrl
  <1>2. /\ D \subseteq Port /\ R = {link[o] : o \in D}
        /\ \A o \in D : /\ link[o] \in Port /\ rx[s][link[o]][l] # << >>
                        /\ switch_get_route(s, link[o], x(o).flow) = o
    BY <1>1, LinksSound DEF Range
  <1>3. /\ \A t \in Switch, p \in Port, m \in Lane :
             /\ rx'[t][p][m] = IF t = s /\ m = l /\ p \in R THEN Tail(rx[t][p][m]) ELSE rx[t][p][m]
             /\ tx'[t][p][m] = IF t = s /\ m = l /\ p \in D THEN Append(tx[t][p][m], x(p)) ELSE tx[t][p][m]
    BY <1>1, CrossbarMoves
  <1>4. \A t \in Switch, p \in Port, m \in Lane :
          rx[t][p][m] \in Seq(Packet) /\ tx[t][p][m] \in Seq(Packet)
          /\ InOrder(rx[t][p][m]) /\ InOrder(tx[t][p][m])
    BY <1>1, SwitchBasics DEF QueuesInOrder
  <1> HIDE DEF link, l, D, R, x
  <1>5. ASSUME NEW o \in D
        PROVE  /\ x(o) \in Packet /\ x(o) = Head(rx[s][link[o]][l]) /\ x(o).flow \in Flow /\ x(o).n \in Nat
               /\ l = x(o).flow.lane /\ link[o] = ComesBy(x(o).flow, s) /\ o = GoesBy(x(o).flow, s)
               /\ Hop(x(o).flow, s) <= Hops(x(o).flow)
               /\ x(o).n \in Ins(x(o).flow, s) /\ \A n \in Ins(x(o).flow, s) : x(o).n <= n
    <2>1. link[o] \in Port /\ rx[s][link[o]][l] # << >> /\ rx[s][link[o]][l] \in Seq(Packet) /\ InOrder(rx[s][link[o]][l])
      BY <1>1, <1>2, <1>4
    <2>2. x(o) = Head(rx[s][link[o]][l])
      BY DEF x
    <2>3. /\ x(o) \in Range(rx[s][link[o]][l])
          /\ \A n \in At(rx[s][link[o]][l], x(o).flow) : x(o).n <= n
      BY <2>1, <2>2, AtTail
    <2>4. /\ x(o) \in Packet /\ x(o).flow \in Flow /\ x(o).n \in Nat
          /\ l = x(o).flow.lane /\ link[o] = ComesBy(x(o).flow, s)
          /\ Hop(x(o).flow, s) <= Hops(x(o).flow) /\ x(o).n \in Ins(x(o).flow, s)
      BY <1>1, <2>1, <2>3, PacketOnItsWay
    <2>5. o = GoesBy(x(o).flow, s)
      BY <1>2, <2>4, RouteGoesOn
    <2> QED BY <2>2, <2>3, <2>4, <2>5 DEF Ins
  <1>6. OnTheWay'
    <2>1. ASSUME NEW t \in Switch, NEW p \in Port, NEW m \in Lane, NEW y \in Range(rx'[t][p][m])
          PROVE  m = y.flow.lane /\ p = ComesBy(y.flow, t) /\ Hop(y.flow, t) <= Hops(y.flow)
      <3>1. y \in Range(rx[t][p][m])
        <4>1. CASE t = s /\ m = l /\ p \in R
          <5>1. rx[t][p][m] # << >> /\ rx'[t][p][m] = Tail(rx[t][p][m])
            BY <1>2, <1>3, <4>1
          <5> QED BY <1>4, <2>1, <5>1, AtTail
        <4>2. CASE ~(t = s /\ m = l /\ p \in R)
          BY <1>3, <2>1, <4>2
        <4> QED BY <4>1, <4>2
      <3> QED BY <1>1, <3>1, PacketOnItsWay
    <2>2. ASSUME NEW t \in Switch, NEW p \in Port, NEW m \in Lane, NEW y \in Range(tx'[t][p][m])
          PROVE  m = y.flow.lane /\ p = GoesBy(y.flow, t) /\ Hop(y.flow, t) <= Hops(y.flow)
      <3>1. y \in Range(tx[t][p][m]) \/ (t = s /\ m = l /\ p \in D /\ y = x(p))
        <4>1. CASE t = s /\ m = l /\ p \in D
          <5>1. tx'[t][p][m] = Append(tx[t][p][m], x(p)) /\ x(p) \in Packet
            BY <1>3, <1>5, <4>1
          <5> QED BY <1>4, <2>2, <4>1, <5>1, AtAppend
        <4>2. CASE ~(t = s /\ m = l /\ p \in D)
          BY <1>3, <2>2, <4>2
        <4> QED BY <4>1, <4>2
      <3>2. CASE y \in Range(tx[t][p][m])
        BY <1>1, <3>2, PacketOnItsWay
      <3>3. CASE t = s /\ m = l /\ p \in D /\ y = x(p)
        BY <1>5, <3>3
      <3> QED BY <3>1, <3>2, <3>3
    <2> QED BY <2>1, <2>2 DEF OnTheWay
  <1>7. ASSUME NEW f \in Flow
        PROVE  /\ \A m \in Outs(f, s), n \in Ins(f, s) : m < n
               /\ Rowed(InRow(f), OutRow(f), HopRow(f))
               /\ Complete(InRow(f), OutRow(f), rcvd[f], sent[f])
    BY <1>1, RowsType DEF RowsInOrder, Rowed
  <1>8. QueuesInOrder'
    <2>1. ASSUME NEW t \in Switch, NEW p \in Port, NEW m \in Lane
          PROVE  InOrder(rx'[t][p][m])
      <3>1. CASE t = s /\ m = l /\ p \in R
        <4>1. rx[t][p][m] # << >> /\ rx'[t][p][m] = Tail(rx[t][p][m])
          BY <1>2, <1>3, <3>1
        <4> QED BY <1>4, <4>1, AtTail
      <3>2. CASE ~(t = s /\ m = l /\ p \in R)
        BY <1>3, <1>4, <3>2
      <3> QED BY <3>1, <3>2
    <2>2. ASSUME NEW t \in Switch, NEW p \in Port, NEW m \in Lane
          PROVE  InOrder(tx'[t][p][m])
      <3>1. CASE t = s /\ m = l /\ p \in D
        <4>1. tx'[t][p][m] = Append(tx[t][p][m], x(p)) /\ x(p) \in Packet
          BY <1>3, <1>5, <3>1
        <4>2. \A n \in At(tx[t][p][m], x(p).flow) : n < x(p).n
          <5>1. At(tx[t][p][m], x(p).flow) = Outs(x(p).flow, s)
            BY <1>5, <3>1 DEF Outs
          <5> QED BY <1>5, <1>7, <3>1, <5>1
        <4> QED BY <1>4, <4>1, <4>2, AtAppend
      <3>2. CASE ~(t = s /\ m = l /\ p \in D)
        BY <1>3, <1>4, <3>2
      <3> QED BY <3>1, <3>2
    <2> QED BY <2>1, <2>2 DEF QueuesInOrder
  <1>9. RowsInOrder'
    <2> SUFFICES ASSUME NEW f \in Flow
                 PROVE  /\ Rowed(InRow(f)', OutRow(f)', HopRow(f))
                        /\ Complete(InRow(f)', OutRow(f)', rcvd[f], sent[f])
      BY <1>1 DEF RowsInOrder, HopRow
    <2> DEFINE p == ComesBy(f, s)
               q == GoesBy(f, s)
               J == InRow(f)'
               P == OutRow(f)'
    <2>1. J = [t \in Switch |-> At(rx'[t][ComesBy(f, t)][f.lane], f)]
          /\ P = [t \in Switch |-> At(tx'[t][GoesBy(f, t)][f.lane], f)]
      BY DEF InRow, OutRow, Ins, Outs
    <2>2. p \in Port /\ q \in Port /\ f.lane \in Lane
          /\ \A t \in Switch : ComesBy(f, t) \in Port /\ GoesBy(f, t) \in Port
      BY WayPorts
    <2> HIDE DEF J, P
    <2>3. \A t \in Switch : t # s => J[t] = InRow(f)[t] /\ P[t] = OutRow(f)[t]
      BY <1>3, <2>1, <2>2 DEF InRow, OutRow, Ins, Outs
    <2>4. J \in Rows /\ P \in Rows
      BY <2>1 DEF Rows, At
    <2>5. InRow(f)[s] = At(rx[s][p][f.lane], f) /\ OutRow(f)[s] = At(tx[s][q][f.lane], f)
      BY DEF InRow, OutRow, Ins, Outs
    <2>6. J[s] = At(rx'[s][p][f.lane], f) /\ P[s] = At(tx'[s][q][f.lane], f)
      BY <2>1
    <2>7. /\ InRow(f) \in Rows /\ OutRow(f) \in Rows
          /\ \A t \in Switch : InRow(f)[t] = Ins(f, t) /\ OutRow(f)[t] = Outs(f, t)
      BY RowsType
    <2> HIDE DEF p, q
    <2>8. CASE \E o \in D : x(o).flow = f
      <3>1. PICK o \in D : x(o).flow = f
        BY <2>8
      <3>2. /\ f.lane = l /\ link[o] = p /\ o = q /\ p \in R
            /\ x(o) \in Packet /\ x(o).n \in Ins(f, s) /\ \A n \in Ins(f, s) : x(o).n <= n
            /\ x(o) = Head(rx[s][p][l])
        BY <1>2, <1>5, <3>1 DEF p, q
      <3>3. rx[s][p][l] # << >> /\ rx'[s][p][l] = Tail(rx[s][p][l]) /\ tx'[s][q][l] = Append(tx[s][q][l], x(o))
        BY <1>1, <1>2, <1>3, <2>2, <3>1, <3>2
      <3>4. J[s] = InRow(f)[s] \ {x(o).n}
        <4>1. At(Tail(rx[s][p][l]), f) = At(rx[s][p][l], f) \ {x(o).n}
          BY <1>1, <1>4, <2>2, <3>1, <3>2, <3>3, AtTail
        <4> QED BY <2>5, <2>6, <3>2, <3>3, <4>1
      <3>5. P[s] = OutRow(f)[s] \cup {x(o).n}
        <4>1. At(Append(tx[s][q][l], x(o)), f) = At(tx[s][q][l], f) \cup {x(o).n}
          BY <1>1, <1>4, <2>2, <3>1, <3>2, AtAppend
        <4> QED BY <2>5, <2>6, <3>2, <3>3, <4>1
      <3>6. x(o).n \in InRow(f)[s] /\ \A n \in InRow(f)[s] : x(o).n <= n
        BY <2>7, <3>2
      <3> QED BY <1>7, <2>3, <2>4, <2>7, <3>4, <3>5, <3>6, CrossKeepsRow DEF J, P
    <2>9. CASE \A o \in D : x(o).flow # f
      <3>1. J[s] = InRow(f)[s]
        <4>1. CASE f.lane = l /\ p \in R
          <5>1. PICK o \in D : p = link[o]
            BY <1>2, <4>1
          <5>2. rx[s][p][l] # << >> /\ rx'[s][p][l] = Tail(rx[s][p][l]) /\ Head(rx[s][p][l]).flow # f
            BY <1>1, <1>2, <1>3, <1>5, <2>2, <2>9, <4>1, <5>1
          <5>3. At(Tail(rx[s][p][l]), f) = At(rx[s][p][l], f)
            BY <1>1, <1>4, <2>2, <5>2, AtTail
          <5> QED BY <2>5, <2>6, <4>1, <5>2, <5>3
        <4>2. CASE ~(f.lane = l /\ p \in R)
          BY <1>3, <2>2, <2>5, <2>6, <4>2
        <4> QED BY <4>1, <4>2
      <3>2. P[s] = OutRow(f)[s]
        <4>1. CASE f.lane = l /\ q \in D
          <5>1. tx'[s][q][l] = Append(tx[s][q][l], x(q)) /\ x(q).flow # f /\ x(q) \in Packet
            BY <1>1, <1>3, <1>5, <2>2, <2>9, <4>1
          <5>2. At(Append(tx[s][q][l], x(q)), f) = At(tx[s][q][l], f)
            BY <1>1, <1>4, <2>2, <5>1, AtAppend
          <5> QED BY <2>5, <2>6, <4>1, <5>1, <5>2
        <4>2. CASE ~(f.lane = l /\ q \in D)
          BY <1>3, <2>2, <2>5, <2>6, <4>2
        <4> QED BY <4>1, <4>2
      <3>3. J = InRow(f) /\ P = OutRow(f)
        BY <2>3, <2>4, <2>7, <3>1, <3>2 DEF Rows
      <3> QED BY <1>7, <3>3 DEF J, P
    <2> QED BY <2>8, <2>9
  <1> QED BY <1>6, <1>8, <1>9 DEF WayInv

\* One queue loses its first packet; one gets a packet.
Popped(old, new, s, p, l) ==
  /\ old[s][p][l] # << >> /\ new[s][p][l] = Tail(old[s][p][l])
  /\ \A t \in Switch, o \in Port, m \in Lane :
       (t # s \/ o # p \/ m # l) => new[t][o][m] = old[t][o][m]
Pushed(old, new, s, p, l, x) ==
  /\ new[s][p][l] = Append(old[s][p][l], x)
  /\ \A t \in Switch, o \in Port, m \in Lane :
       (t # s \/ o # p \/ m # l) => new[t][o][m] = old[t][o][m]

\* What that says of the packets on their way.
Left(new, s, p, l, x, f) ==
  /\ x.flow = f /\ x \in Packet /\ x.n \in Nat /\ l = f.lane
  /\ p = GoesBy(f, s) /\ Hop(f, s) <= Hops(f)
  /\ x.n \in Outs(f, s) /\ \A n \in Outs(f, s) : x.n <= n
  /\ \A t \in Switch, o \in Port, m \in Lane :
       InOrder(new[t][o][m]) /\ Range(new[t][o][m]) \subseteq Range(tx[t][o][m])
  /\ At(new[s][p][l], f) = Outs(f, s) \ {x.n}
  /\ \A g \in Flow, t \in Switch :
       (g # f \/ t # s) => At(new[t][GoesBy(g, t)][g.lane], g) = Outs(g, t)
Joined(new, s, p, l, x, f) ==
  /\ \A t \in Switch, o \in Port, m \in Lane :
       InOrder(new[t][o][m]) /\ \A y \in Range(new[t][o][m]) :
         y \in Range(rx[t][o][m]) \/ (t = s /\ o = p /\ m = l /\ y = x)
  /\ At(new[s][p][l], f) = Ins(f, s) \cup {x.n}
  /\ \A g \in Flow, t \in Switch :
       (g # f \/ t # s) => At(new[t][ComesBy(g, t)][g.lane], g) = Ins(g, t)

\* The queue a transfer takes its packet from.
LEMMA OutTail ==
  ASSUME SwitchInv, NEW s \in Switch, NEW p \in Port, ioBusy[s][p],
         tx' = [tx EXCEPT ![s][p][ioLane[s][p]] = Tail(tx[s][p][ioLane[s][p]])]
  PROVE  ioLane[s][p] \in Lane /\ Popped(tx, tx', s, p, ioLane[s][p])
PROOF
  <1> DEFINE l == ioLane[s][p]
             q == Tail(tx[s][p][l])
             new == tx'
  <1>1. TypeOK /\ TransferStands
    BY DEF SwitchInv
  <1>2. l \in Lane /\ tx[s][p][l] \in Seq(Packet) /\ tx[s][p][l] # << >>
    BY <1>1, SwitchBasics DEF TransferStands
  <1>3. q \in Seq(Packet) /\ tx \in [Switch -> [Port -> [Lane -> Seq(Packet)]]]
    BY <1>1, <1>2, QueueEnds DEF TypeOK
  <1>4. new = [tx EXCEPT ![s][p][l] = q]
    OBVIOUS
  <1> HIDE DEF new, l, q
  <1>5. /\ new[s][p][l] = q
        /\ \A t \in Switch, o \in Port, m \in Lane :
             (t # s \/ o # p \/ m # l) => new[t][o][m] = tx[t][o][m]
    BY <1>2, <1>3, <1>4, OneQueue
  <1> QED BY <1>2, <1>5 DEF new, l, q, Popped

\* The queue a packet is put into.
LEMMA IntoAppend ==
  ASSUME TypeOK, NEW s \in Switch, NEW p \in Port, NEW l \in Lane, NEW x \in Packet,
         rx' = [rx EXCEPT ![s][p][l] = Append(rx[s][p][l], x)]
  PROVE  Pushed(rx, rx', s, p, l, x)
PROOF
  <1> DEFINE q == Append(rx[s][p][l], x)
             new == rx'
  <1>1. rx[s][p][l] \in Seq(Packet) /\ rx \in [Switch -> [Port -> [Lane -> Seq(Packet)]]]
    BY SwitchBasics DEF TypeOK
  <1>2. q \in Seq(Packet) /\ new = [rx EXCEPT ![s][p][l] = q]
    BY <1>1, QueueEnds
  <1> HIDE DEF new, q
  <1>3. /\ new[s][p][l] = q
        /\ \A t \in Switch, o \in Port, m \in Lane :
             (t # s \/ o # p \/ m # l) => new[t][o][m] = rx[t][o][m]
    BY <1>1, <1>2, OneQueue
  <1> QED BY <1>3 DEF new, q, Pushed

\* A packet that leaves a queue of a switch for another switch or an endpoint.
LEMMA OutOfQueue ==
  ASSUME TypeOK, WayInv, NEW s \in Switch, NEW p \in Port, NEW l \in Lane,
         NEW new, Popped(tx, new, s, p, l)
  PROVE  \E f \in Flow : Left(new, s, p, l, Head(tx[s][p][l]), f)
PROOF
  <1> DEFINE q == tx[s][p][l]
             x == Head(q)
  <1>1. TypeOK /\ OnTheWay /\ QueuesInOrder
    BY DEF WayInv
  <1>2. /\ q \in Seq(Packet) /\ q # << >> /\ InOrder(q) /\ new[s][p][l] = Tail(q)
        /\ \A t \in Switch, o \in Port, m \in Lane :
             (t # s \/ o # p \/ m # l) => new[t][o][m] = tx[t][o][m]
    BY <1>1, SwitchBasics DEF QueuesInOrder, Popped
  <1> HIDE DEF q
  <1>3. /\ x \in Range(q) /\ Range(Tail(q)) \subseteq Range(q) /\ InOrder(Tail(q))
        /\ \A n \in At(q, x.flow) : x.n <= n
        /\ \A f : At(Tail(q), f) = IF x.flow = f THEN At(q, f) \ {x.n} ELSE At(q, f)
    BY <1>2, AtTail
  <1> HIDE DEF x
  <1>4. /\ x \in Packet /\ x.flow \in Flow /\ x.n \in Nat /\ l = x.flow.lane
        /\ p = GoesBy(x.flow, s) /\ Hop(x.flow, s) <= Hops(x.flow) /\ x.n \in Outs(x.flow, s)
    BY <1>1, <1>3, PacketOnItsWay DEF q
  <1>5. Outs(x.flow, s) = At(q, x.flow)
    BY <1>4 DEF Outs, q
  <1>6. ASSUME NEW t \in Switch, NEW o \in Port, NEW m \in Lane
        PROVE  InOrder(new[t][o][m]) /\ Range(new[t][o][m]) \subseteq Range(tx[t][o][m])
    <2>1. CASE t = s /\ o = p /\ m = l
      BY <1>2, <1>3, <2>1 DEF q
    <2>2. CASE ~(t = s /\ o = p /\ m = l)
      <3>1. new[t][o][m] = tx[t][o][m]
        BY <1>2, <2>2
      <3> QED BY <1>1, <3>1 DEF QueuesInOrder
    <2> QED BY <2>1, <2>2
  <1>7. At(new[s][p][l], x.flow) = Outs(x.flow, s) \ {x.n}
    <2>1. At(Tail(q), x.flow) = At(q, x.flow) \ {x.n}
      BY <1>3
    <2> QED BY <1>2, <1>5, <2>1
  <1>8. ASSUME NEW f \in Flow, NEW t \in Switch, f # x.flow \/ t # s
        PROVE  At(new[t][GoesBy(f, t)][f.lane], f) = Outs(f, t)
    <2>1. GoesBy(f, t) \in Port /\ f.lane \in Lane
      BY WayPorts
    <2>2. CASE t = s /\ GoesBy(f, t) = p /\ f.lane = l
      <3>1. At(Tail(q), f) = At(q, f)
        BY <1>3, <1>8, <2>2
      <3>2. new[t][GoesBy(f, t)][f.lane] = Tail(q) /\ tx[t][GoesBy(f, t)][f.lane] = q
        BY <1>2, <2>2 DEF q
      <3> QED BY <3>1, <3>2 DEF Outs
    <2>3. CASE ~(t = s /\ GoesBy(f, t) = p /\ f.lane = l)
      <3>1. new[t][GoesBy(f, t)][f.lane] = tx[t][GoesBy(f, t)][f.lane]
        BY <1>2, <2>1, <2>3
      <3> QED BY <3>1 DEF Outs
    <2> QED BY <2>2, <2>3
  <1>9. \A n \in Outs(x.flow, s) : x.n <= n
    BY <1>3, <1>5
  <1>10. Left(new, s, p, l, x, x.flow)
    BY <1>4, <1>6, <1>7, <1>8, <1>9 DEF Left
  <1> QED BY <1>4, <1>10 DEF x, q

\* A packet that is put into a queue of a switch on its way, behind those of
\* its flow.
LEMMA IntoQueue ==
  ASSUME TypeOK, OnTheWay, QueuesInOrder, NEW s \in Switch, NEW p \in Port, NEW l \in Lane,
         NEW x \in Packet, NEW new, Pushed(rx, new, s, p, l, x),
         NEW f, f = x.flow, l = f.lane, p = ComesBy(f, s), \A n \in Ins(f, s) : n < x.n
  PROVE  Joined(new, s, p, l, x, f)
PROOF
  <1> DEFINE q == rx[s][p][l]
             r == Append(q, x)
  <1>1. /\ q \in Seq(Packet) /\ InOrder(q) /\ new[s][p][l] = r /\ x.flow = f
        /\ \A t \in Switch, o \in Port, m \in Lane :
             (t # s \/ o # p \/ m # l) => new[t][o][m] = rx[t][o][m]
    BY SwitchBasics DEF QueuesInOrder, Pushed
  <1>2. Ins(f, s) = At(q, f)
    BY DEF Ins
  <1>3. /\ Range(r) = Range(q) \cup {x} /\ InOrder(r)
        /\ \A g : At(r, g) = IF f = g THEN At(q, g) \cup {x.n} ELSE At(q, g)
    <2>1. x \in Packet /\ \A n \in At(q, x.flow) : n < x.n
      BY <1>1, <1>2
    <2> HIDE DEF q
    <2>2. /\ Range(r) = Range(q) \cup {x} /\ InOrder(r)
          /\ \A g : At(r, g) = IF x.flow = g THEN At(q, g) \cup {x.n} ELSE At(q, g)
      BY <1>1, <2>1, AtAppend
    <2> QED BY <1>1, <2>2
  <1> HIDE DEF r, q
  <1>4. ASSUME NEW t \in Switch, NEW o \in Port, NEW m \in Lane
        PROVE  InOrder(new[t][o][m]) /\ \A y \in Range(new[t][o][m]) :
                 y \in Range(rx[t][o][m]) \/ (t = s /\ o = p /\ m = l /\ y = x)
    <2>1. CASE t = s /\ o = p /\ m = l
      BY <1>1, <1>3, <2>1 DEF q
    <2>2. CASE ~(t = s /\ o = p /\ m = l)
      <3>1. new[t][o][m] = rx[t][o][m]
        BY <1>1, <2>2
      <3> QED BY <3>1 DEF QueuesInOrder
    <2> QED BY <2>1, <2>2
  <1>5. At(new[s][p][l], f) = Ins(f, s) \cup {x.n}
    BY <1>1, <1>2, <1>3
  <1>6. ASSUME NEW g \in Flow, NEW t \in Switch, g # f \/ t # s
        PROVE  At(new[t][ComesBy(g, t)][g.lane], g) = Ins(g, t)
    <2>1. ComesBy(g, t) \in Port /\ g.lane \in Lane
      BY WayPorts
    <2>2. CASE t = s /\ ComesBy(g, t) = p /\ g.lane = l
      <3>1. At(r, g) = At(q, g)
        BY <1>3, <1>6, <2>2
      <3>2. new[t][ComesBy(g, t)][g.lane] = r /\ rx[t][ComesBy(g, t)][g.lane] = q
        BY <1>1, <2>2 DEF q
      <3> QED BY <3>1, <3>2 DEF Ins
    <2>3. CASE ~(t = s /\ ComesBy(g, t) = p /\ g.lane = l)
      <3>1. new[t][ComesBy(g, t)][g.lane] = rx[t][ComesBy(g, t)][g.lane]
        BY <1>1, <2>1, <2>3
      <3> QED BY <3>1 DEF Ins
    <2> QED BY <2>2, <2>3
  <1> QED BY <1>4, <1>5, <1>6 DEF Joined

\* What a step leaves in order that touches no packet of a flow.
LEMMA SameRow ==
  ASSUME NEW f \in Flow, RowsInOrder,
         \A t \in Switch : At(rx'[t][ComesBy(f, t)][f.lane], f) = Ins(f, t),
         \A t \in Switch : At(tx'[t][GoesBy(f, t)][f.lane], f) = Outs(f, t),
         sent'[f] = sent[f], rcvd'[f] = rcvd[f]
  PROVE  /\ Rowed(InRow(f)', OutRow(f)', HopRow(f))
         /\ Complete(InRow(f)', OutRow(f)', rcvd'[f], sent'[f])
PROOF
  <1>1. InRow(f)' = [t \in Switch |-> At(rx'[t][ComesBy(f, t)][f.lane], f)]
        /\ OutRow(f)' = [t \in Switch |-> At(tx'[t][GoesBy(f, t)][f.lane], f)]
    BY DEF InRow, OutRow, Ins, Outs
  <1>2. InRow(f) = [t \in Switch |-> Ins(f, t)] /\ OutRow(f) = [t \in Switch |-> Outs(f, t)]
    BY DEF InRow, OutRow
  <1>3. InRow(f)' = InRow(f) /\ OutRow(f)' = OutRow(f)
    BY <1>1, <1>2
  <1> QED BY <1>3 DEF RowsInOrder

\* The order of a flow, for one of its packets.
LEMMA RowFacts ==
  ASSUME RowsInOrder, NEW f \in Flow, NEW s \in Switch
  PROVE  /\ \A m \in Outs(f, s), n \in Ins(f, s) : m < n
         /\ \A t \in Switch : Hop(f, s) < Hop(f, t) =>
              \A m \in Ins(f, t) \cup Outs(f, t), n \in Ins(f, s) \cup Outs(f, s) : m < n
         /\ \A n \in Ins(f, s) \cup Outs(f, s) : n \in Nat /\ rcvd[f] < n /\ n <= sent[f]
PROOF
  <1>1. /\ \A t \in Switch : InRow(f)[t] = Ins(f, t) /\ OutRow(f)[t] = Outs(f, t) /\ HopRow(f)[t] = Hop(f, t)
        /\ InRow(f) \in Rows /\ OutRow(f) \in Rows
    BY RowsType
  <1>2. Rowed(InRow(f), OutRow(f), HopRow(f)) /\ Complete(InRow(f), OutRow(f), rcvd[f], sent[f])
    BY DEF RowsInOrder
  <1>3. \A n \in Ins(f, s) \cup Outs(f, s) : n \in Nat
    BY DEF Ins, Outs, At
  <1>4. \A n \in Ins(f, s) \cup Outs(f, s) : rcvd[f] < n /\ n <= sent[f]
    BY <1>1, <1>2, <1>3 DEF Complete
  <1> QED BY <1>1, <1>2, <1>3, <1>4 DEF Rowed

\* A transfer to the next switch.
LEMMA TransferIoGoesOn ==
  ASSUME SwitchInv, WayInv, NEW s \in Switch, NEW p \in Port, TransferIo(s, p)
  PROVE  WayInv'
PROOF
  <1> DEFINE l == ioLane[s][p]
             x == Head(tx[s][p][l])
             to == IF p = "east" THEN NextEast(s) ELSE NextWest(s)
             in == IF p = "east" THEN "west" ELSE "east"
  <1>1. TypeOK /\ OnTheWay /\ QueuesInOrder /\ RowsInOrder
    BY DEF SwitchInv, WayInv
  <1>2. /\ p \in {"east", "west"} /\ ioBusy[s][p]
        /\ rx' = [rx EXCEPT ![to][in][l] = Append(rx[to][in][l], x)]
        /\ tx' = [tx EXCEPT ![s][p][l] = Tail(tx[s][p][l])]
        /\ sent' = sent /\ rcvd' = rcvd
    BY DEF TransferIo
  <1>3. PICK f \in Flow : Left(tx', s, p, l, x, f)
    <2>1. l \in Lane /\ Popped(tx, tx', s, p, l)
      BY <1>2, OutTail
    <2> HIDE DEF l
    <2>2. TypeOK
      BY <1>1
    <2> QED BY <2>1, <2>2, OutOfQueue
  <1>31. /\ x.flow = f /\ x \in Packet /\ x.n \in Nat /\ l = f.lane
         /\ p = GoesBy(f, s) /\ Hop(f, s) <= Hops(f)
         /\ x.n \in Outs(f, s) /\ \A n \in Outs(f, s) : x.n <= n
         /\ \A t \in Switch, o \in Port, m \in Lane :
              InOrder(tx'[t][o][m]) /\ Range(tx'[t][o][m]) \subseteq Range(tx[t][o][m])
         /\ At(tx'[s][p][f.lane], f) = Outs(f, s) \ {x.n}
         /\ \A g \in Flow, t \in Switch :
              (g # f \/ t # s) => At(tx'[t][GoesBy(g, t)][g.lane], g) = Outs(g, t)
    BY <1>3 DEF Left
  <1>4. to \in Switch /\ in \in Port /\ l \in Lane
    BY <1>1, Neighbours, SwitchBasics DEF Port
  <1> HIDE DEF l, x
  <1>5. s # SwitchOf(f.dst) /\ Hop(f, s) < Hops(f) /\ p = Leaves(f)
    <2>1. PortOf(f.dst) \in {"north", "south"}
      BY <1>31, FlowEnds
    <2>2. s # SwitchOf(f.dst)
      BY <1>2, <1>31, <2>1 DEF GoesBy
    <2> QED BY <1>31, <2>2, RouteGoesOn DEF GoesBy
  <1>6. Hop(f, to) = Hop(f, s) + 1 /\ Hop(f, s) \in Nat /\ Hop(f, to) <= Hops(f) /\ in = ComesBy(f, to)
    <2>1. Hop(f, s) \in Nat /\ Hops(f) \in Nat /\ Hops(f) <= NumCores /\ NumCores \in Nat
      BY <1>31, HopType, SizesAssumption
    <2>2. Hop(f, s) < NumCores
      BY <1>5, <2>1
    <2>3. Hop(f, to) = Hop(f, s) + 1
      BY <1>2, <1>31, <1>5, <2>2, NextHop
    <2>4. to # SwitchOf(f.src)
      <3>1. Hop(f, to) # 0
        BY <2>1, <2>3
      <3> QED BY <1>31, <1>4, <3>1, HopType
    <2>5. in = ComesBy(f, to)
      BY <1>2, <1>5, <2>4 DEF ComesBy
    <2> QED BY <1>5, <2>1, <2>3, <2>5
  <1> HIDE DEF to, in
  <1>7. \A n \in Ins(f, to) : n < x.n
    BY <1>1, <1>31, <1>4, <1>6, RowFacts
  <1>8. /\ \A t \in Switch, o \in Port, m \in Lane :
             InOrder(rx'[t][o][m]) /\ \A y \in Range(rx'[t][o][m]) :
               y \in Range(rx[t][o][m]) \/ (t = to /\ o = in /\ m = l /\ y = x)
        /\ At(rx'[to][in][l], f) = Ins(f, to) \cup {x.n}
        /\ \A g \in Flow, t \in Switch :
             (g # f \/ t # to) => At(rx'[t][ComesBy(g, t)][g.lane], g) = Ins(g, t)
    <2>1. Pushed(rx, rx', to, in, l, x)
      BY <1>1, <1>2, <1>31, <1>4, IntoAppend
    <2>2. x.flow = f /\ l = f.lane /\ x \in Packet
      BY <1>31
    <2>3. Joined(rx', to, in, l, x, f)
      BY <1>1, <1>4, <1>6, <1>7, <2>1, <2>2, IntoQueue
    <2> QED BY <2>3 DEF Joined
  <1>9. OnTheWay'
    <2>1. ASSUME NEW t \in Switch, NEW o \in Port, NEW m \in Lane, NEW y \in Range(rx'[t][o][m])
          PROVE  m = y.flow.lane /\ o = ComesBy(y.flow, t) /\ Hop(y.flow, t) <= Hops(y.flow)
      <3>1. CASE y \in Range(rx[t][o][m])
        BY <1>1, <3>1, PacketOnItsWay
      <3>2. CASE t = to /\ o = in /\ m = l /\ y = x
        BY <1>31, <1>6, <3>2
      <3> QED BY <1>8, <2>1, <3>1, <3>2
    <2>2. ASSUME NEW t \in Switch, NEW o \in Port, NEW m \in Lane, NEW y \in Range(tx'[t][o][m])
          PROVE  m = y.flow.lane /\ o = GoesBy(y.flow, t) /\ Hop(y.flow, t) <= Hops(y.flow)
      <3>1. y \in Range(tx[t][o][m])
        BY <1>31, <2>2
      <3> QED BY <1>1, <3>1, PacketOnItsWay
    <2> QED BY <2>1, <2>2 DEF OnTheWay
  <1>10. QueuesInOrder'
    BY <1>31, <1>8 DEF QueuesInOrder
  <1>11. ASSUME NEW g \in Flow
         PROVE  /\ Rowed(InRow(g)', OutRow(g)', HopRow(g))
                /\ Complete(InRow(g)', OutRow(g)', rcvd'[g], sent'[g])
    <2>1. CASE g # f
      BY <1>1, <1>2, <1>31, <1>8, <2>1, SameRow
    <2>2. CASE g = f
      <3> DEFINE J == InRow(f)'
                 P == OutRow(f)'
      <3>1. J = [t \in Switch |-> At(rx'[t][ComesBy(f, t)][f.lane], f)]
            /\ P = [t \in Switch |-> At(tx'[t][GoesBy(f, t)][f.lane], f)]
        BY DEF InRow, OutRow, Ins, Outs
      <3> HIDE DEF J, P
      <3>2. J \in Rows /\ P \in Rows
        BY <3>1 DEF Rows, At
      <3>3. /\ InRow(f) \in Rows /\ OutRow(f) \in Rows /\ HopRow(f) \in [Switch -> Nat]
            /\ \A u, v \in Switch : HopRow(f)[u] = HopRow(f)[v] => u = v
            /\ \A t \in Switch : InRow(f)[t] = Ins(f, t) /\ OutRow(f)[t] = Outs(f, t) /\ HopRow(f)[t] = Hop(f, t)
        BY <1>31, RowsType
      <3>4. P[s] = OutRow(f)[s] \ {x.n} /\ J[to] = InRow(f)[to] \cup {x.n}
        BY <1>31, <1>4, <1>6, <1>8, <3>1, <3>3
      <3>5. \A u \in Switch : (u # s => P[u] = OutRow(f)[u]) /\ (u # to => J[u] = InRow(f)[u])
        BY <1>31, <1>8, <3>1, <3>3
      <3>6. x.n \in OutRow(f)[s] /\ (\A n \in OutRow(f)[s] : x.n <= n) /\ HopRow(f)[to] = HopRow(f)[s] + 1
        BY <1>31, <1>4, <1>6, <3>3
      <3>7. Rowed(InRow(f), OutRow(f), HopRow(f)) /\ Complete(InRow(f), OutRow(f), rcvd[f], sent[f])
        BY <1>1, <1>31 DEF RowsInOrder
      <3>8. Rowed(J, P, HopRow(f)) /\ Complete(J, P, rcvd[f], sent[f])
        BY <1>4, <3>2, <3>3, <3>4, <3>5, <3>6, <3>7, HopKeepsRow
      <3> QED BY <1>2, <2>2, <3>8 DEF J, P
    <2> QED BY <2>1, <2>2
  <1>12. RowsInOrder'
    BY <1>11 DEF RowsInOrder, HopRow
  <1> QED BY <1>9, <1>10, <1>12 DEF WayInv

\* A packet that arrives is the next of its flow.
LEMMA DeliverIoGoesOn ==
  ASSUME SwitchInv, WayInv, NEW s \in Switch, NEW p \in Port, DeliverIo(s, p)
  PROVE  /\ WayInv'
         /\ sent' = sent /\ \E f \in Flow : rcvd' = [rcvd EXCEPT ![f] = rcvd[f] + 1] /\ rcvd[f] < sent[f]
PROOF
  <1> DEFINE l == ioLane[s][p]
             x == Head(tx[s][p][l])
  <1>1. TypeOK /\ OnTheWay /\ QueuesInOrder /\ RowsInOrder
    BY DEF SwitchInv, WayInv
  <1>2. /\ p \in {"north", "south"} /\ ioBusy[s][p]
        /\ tx' = [tx EXCEPT ![s][p][l] = Tail(tx[s][p][l])]
        /\ rx' = rx /\ sent' = sent
        /\ rcvd' = IF EndpointAt(s, p) = x.flow.dst THEN [rcvd EXCEPT ![x.flow] = x.n] ELSE rcvd
    BY DEF DeliverIo
  <1>3. PICK f \in Flow : Left(tx', s, p, l, x, f)
    <2>1. l \in Lane /\ Popped(tx, tx', s, p, l)
      BY <1>2, OutTail
    <2> HIDE DEF l
    <2>2. TypeOK
      BY <1>1
    <2> QED BY <2>1, <2>2, OutOfQueue
  <1>31. /\ x.flow = f /\ x \in Packet /\ x.n \in Nat /\ l = f.lane
         /\ p = GoesBy(f, s) /\ Hop(f, s) <= Hops(f)
         /\ x.n \in Outs(f, s) /\ \A n \in Outs(f, s) : x.n <= n
         /\ \A t \in Switch, o \in Port, m \in Lane :
              InOrder(tx'[t][o][m]) /\ Range(tx'[t][o][m]) \subseteq Range(tx[t][o][m])
         /\ At(tx'[s][p][f.lane], f) = Outs(f, s) \ {x.n}
         /\ \A g \in Flow, t \in Switch :
              (g # f \/ t # s) => At(tx'[t][GoesBy(g, t)][g.lane], g) = Outs(g, t)
    BY <1>3 DEF Left
  <1> HIDE DEF l, x
  <1>4. s = SwitchOf(f.dst) /\ EndpointAt(s, p) = f.dst
    <2>1. s = SwitchOf(f.dst)
      BY <1>2, <1>31, RouteGoesOn
    <2>2. p = PortOf(f.dst)
      BY <1>31, <2>1, RouteGoesOn
    <2> QED BY <1>31, <2>1, <2>2, FlowEnds
  <1>5. /\ rcvd' = [rcvd EXCEPT ![f] = x.n] /\ rcvd \in [Flow -> Nat] /\ sent \in [Flow -> Nat]
        /\ rcvd'[f] = x.n /\ \A g \in Flow : g # f => rcvd'[g] = rcvd[g]
    BY <1>1, <1>2, <1>31, <1>4 DEF TypeOK
  <1>6. OnTheWay'
    <2>1. ASSUME NEW t \in Switch, NEW o \in Port, NEW m \in Lane, NEW y \in Range(rx'[t][o][m])
          PROVE  m = y.flow.lane /\ o = ComesBy(y.flow, t) /\ Hop(y.flow, t) <= Hops(y.flow)
      <3>1. y \in Range(rx[t][o][m])
        BY <1>2, <2>1
      <3> QED BY <1>1, <3>1, PacketOnItsWay
    <2>2. ASSUME NEW t \in Switch, NEW o \in Port, NEW m \in Lane, NEW y \in Range(tx'[t][o][m])
          PROVE  m = y.flow.lane /\ o = GoesBy(y.flow, t) /\ Hop(y.flow, t) <= Hops(y.flow)
      <3>1. y \in Range(tx[t][o][m])
        BY <1>31, <2>2
      <3> QED BY <1>1, <3>1, PacketOnItsWay
    <2> QED BY <2>1, <2>2 DEF OnTheWay
  <1>7. QueuesInOrder'
    BY <1>1, <1>2, <1>31 DEF QueuesInOrder
  <1>8. /\ Rowed(InRow(f)', OutRow(f)', HopRow(f))
        /\ Complete(InRow(f)', OutRow(f)', rcvd'[f], sent'[f])
        /\ x.n = rcvd[f] + 1
    <2> DEFINE P == OutRow(f)'
    <2>1. P = [t \in Switch |-> At(tx'[t][GoesBy(f, t)][f.lane], f)] /\ InRow(f)' = InRow(f)
      BY <1>2 DEF InRow, OutRow, Ins, Outs
    <2> HIDE DEF P
    <2>2. P \in Rows
      BY <2>1 DEF Rows, At
    <2>3. /\ InRow(f) \in Rows /\ OutRow(f) \in Rows /\ HopRow(f) \in [Switch -> Nat]
          /\ \A u, v \in Switch : HopRow(f)[u] = HopRow(f)[v] => u = v
          /\ \A t \in Switch : InRow(f)[t] = Ins(f, t) /\ OutRow(f)[t] = Outs(f, t) /\ HopRow(f)[t] = Hop(f, t)
      BY <1>31, RowsType
    <2>4. P[s] = OutRow(f)[s] \ {x.n} /\ \A u \in Switch : u # s => P[u] = OutRow(f)[u]
      BY <1>31, <2>1, <2>3
    <2>5. x.n \in OutRow(f)[s] /\ \A n \in OutRow(f)[s] : x.n <= n
      BY <1>31, <2>3
    <2>6. Rowed(InRow(f), OutRow(f), HopRow(f)) /\ Complete(InRow(f), OutRow(f), rcvd[f], sent[f])
      BY <1>1, <1>31 DEF RowsInOrder
    <2>7. \A u \in Switch : InRow(f)[u] \cup OutRow(f)[u] # {} => HopRow(f)[u] <= HopRow(f)[s]
      <3> SUFFICES ASSUME NEW u \in Switch, NEW n \in Ins(f, u) \cup Outs(f, u)
                   PROVE  Hop(f, u) <= Hop(f, s)
        BY <2>3
      <3>1. Hop(f, u) <= Hops(f)
        <4>1. ComesBy(f, u) \in Port /\ GoesBy(f, u) \in Port /\ f.lane \in Lane
          BY <1>31, WayPorts
        <4>2. \/ [flow |-> f, n |-> n] \in Range(rx[u][ComesBy(f, u)][f.lane])
              \/ [flow |-> f, n |-> n] \in Range(tx[u][GoesBy(f, u)][f.lane])
          BY DEF Ins, Outs, At
        <4>3. Hop([flow |-> f, n |-> n].flow, u) <= Hops([flow |-> f, n |-> n].flow)
          BY <1>1, <4>1, <4>2, PacketOnItsWay
        <4> QED BY <4>3
      <3> QED BY <1>4, <3>1 DEF Hops
    <2>8. Rowed(InRow(f), P, HopRow(f)) /\ Complete(InRow(f), P, x.n, sent[f]) /\ x.n = rcvd[f] + 1
      <3>1. rcvd[f] \in Nat /\ sent[f] \in Nat
        BY <1>5
      <3> QED BY <2>2, <2>3, <2>4, <2>5, <2>6, <2>7, <3>1, LeaveKeepsRow
    <2> QED BY <1>2, <1>5, <2>1, <2>8 DEF P
  <1>9. ASSUME NEW g \in Flow
        PROVE  /\ Rowed(InRow(g)', OutRow(g)', HopRow(g))
               /\ Complete(InRow(g)', OutRow(g)', rcvd'[g], sent'[g])
    <2>1. CASE g # f
      <3>1. \A t \in Switch : At(rx'[t][ComesBy(g, t)][g.lane], g) = Ins(g, t)
        BY <1>2 DEF Ins
      <3> QED BY <1>1, <1>2, <1>31, <1>5, <2>1, <3>1, SameRow
    <2>2. CASE g = f
      BY <1>8, <2>2
    <2> QED BY <2>1, <2>2
  <1>10. RowsInOrder'
    BY <1>9 DEF RowsInOrder, HopRow
  <1>11. rcvd' = [rcvd EXCEPT ![f] = rcvd[f] + 1] /\ rcvd[f] < sent[f]
    <2>1. rcvd[f] < x.n /\ x.n <= sent[f]
      BY <1>1, <1>31, RowFacts
    <2> QED BY <1>31, <1>5, <1>8, <2>1
  <1> QED BY <1>2, <1>31, <1>6, <1>7, <1>10, <1>11 DEF WayInv

\* A packet an endpoint sends is the last of its flow.
LEMMA SendGoesOn ==
  ASSUME SwitchInv, WayInv, NEW f \in Flow, Send(f)
  PROVE  WayInv'
PROOF
  <1> DEFINE s == SwitchOf(f.src)
             p == PortOf(f.src)
             l == f.lane
             x == [flow |-> f, n |-> sent[f] + 1]
  <1>1. TypeOK /\ OnTheWay /\ QueuesInOrder /\ RowsInOrder
    BY DEF SwitchInv, WayInv
  <1>2. /\ sent[f] < MaxPackets[f]
        /\ sent' = [sent EXCEPT ![f] = sent[f] + 1]
        /\ rx' = [rx EXCEPT ![s][p][l] = Append(rx[s][p][l], x)]
        /\ tx' = tx /\ rcvd' = rcvd
    BY DEF Send
  <1>3. s \in Switch /\ p \in Port /\ l \in Lane /\ Hop(f, s) = 0 /\ p = ComesBy(f, s) /\ Hops(f) \in Nat
    <2>1. s \in Switch /\ p \in {"north", "south"} /\ l \in Lane
      BY FlowEnds
    <2> QED BY <2>1, HopType DEF Port, ComesBy
  <1>4. sent \in [Flow -> Nat] /\ rcvd \in [Flow -> Nat] /\ rcvd[f] <= sent[f]
        /\ sent'[f] = sent[f] + 1 /\ \A g \in Flow : g # f => sent'[g] = sent[g]
    BY <1>1, <1>2 DEF TypeOK
  <1>5. x \in Packet /\ x.flow = f /\ x.n = sent[f] + 1
    <2>1. sent[f] + 1 \in 1 .. MaxPackets[f]
      BY <1>2, <1>4, PacketsAssumption
    <2> QED BY <2>1, PacketType
  <1>6. \A n \in Ins(f, s) : n < x.n
    <2>1. \A n \in Ins(f, s) : n \in Nat /\ n <= sent[f]
      BY <1>1, <1>3, RowFacts
    <2> QED BY <1>4, <1>5, <2>1
  <1> HIDE DEF s, p, l, x
  <1>7. /\ \A t \in Switch, o \in Port, m \in Lane :
             InOrder(rx'[t][o][m]) /\ \A y \in Range(rx'[t][o][m]) :
               y \in Range(rx[t][o][m]) \/ (t = s /\ o = p /\ m = l /\ y = x)
        /\ At(rx'[s][p][l], f) = Ins(f, s) \cup {x.n}
        /\ \A g \in Flow, t \in Switch :
             (g # f \/ t # s) => At(rx'[t][ComesBy(g, t)][g.lane], g) = Ins(g, t)
    <2>1. Pushed(rx, rx', s, p, l, x)
      BY <1>1, <1>2, <1>3, <1>5, IntoAppend
    <2>2. l = f.lane
      BY DEF l
    <2>3. Joined(rx', s, p, l, x, f)
      BY <1>1, <1>3, <1>5, <1>6, <2>1, <2>2, IntoQueue
    <2> QED BY <2>3 DEF Joined
  <1>8. OnTheWay'
    <2>1. ASSUME NEW t \in Switch, NEW o \in Port, NEW m \in Lane, NEW y \in Range(rx'[t][o][m])
          PROVE  m = y.flow.lane /\ o = ComesBy(y.flow, t) /\ Hop(y.flow, t) <= Hops(y.flow)
      <3>1. CASE y \in Range(rx[t][o][m])
        BY <1>1, <3>1, PacketOnItsWay
      <3>2. CASE t = s /\ o = p /\ m = l /\ y = x
        BY <1>3, <1>5, <3>2 DEF l
      <3> QED BY <1>7, <2>1, <3>1, <3>2
    <2>2. ASSUME NEW t \in Switch, NEW o \in Port, NEW m \in Lane, NEW y \in Range(tx'[t][o][m])
          PROVE  m = y.flow.lane /\ o = GoesBy(y.flow, t) /\ Hop(y.flow, t) <= Hops(y.flow)
      <3>1. y \in Range(tx[t][o][m])
        BY <1>2, <2>2
      <3> QED BY <1>1, <3>1, PacketOnItsWay
    <2> QED BY <2>1, <2>2 DEF OnTheWay
  <1>9. QueuesInOrder'
    BY <1>1, <1>2, <1>7 DEF QueuesInOrder
  <1>10. ASSUME NEW g \in Flow
         PROVE  /\ Rowed(InRow(g)', OutRow(g)', HopRow(g))
                /\ Complete(InRow(g)', OutRow(g)', rcvd'[g], sent'[g])
    <2>1. CASE g # f
      <3>1. \A t \in Switch : At(tx'[t][GoesBy(g, t)][g.lane], g) = Outs(g, t)
        BY <1>2 DEF Outs
      <3> QED BY <1>1, <1>2, <1>4, <1>7, <2>1, <3>1, SameRow
    <2>2. CASE g = f
      <3> DEFINE J == InRow(f)'
      <3>1. J = [t \in Switch |-> At(rx'[t][ComesBy(f, t)][f.lane], f)] /\ OutRow(f)' = OutRow(f)
        BY <1>2 DEF InRow, OutRow, Ins, Outs
      <3> HIDE DEF J
      <3>2. J \in Rows
        BY <3>1 DEF Rows, At
      <3>3. /\ InRow(f) \in Rows /\ OutRow(f) \in Rows /\ HopRow(f) \in [Switch -> Nat]
            /\ \A t \in Switch : InRow(f)[t] = Ins(f, t) /\ OutRow(f)[t] = Outs(f, t) /\ HopRow(f)[t] = Hop(f, t)
        BY RowsType
      <3>4. J[s] = InRow(f)[s] \cup {sent[f] + 1} /\ \A u \in Switch : u # s => J[u] = InRow(f)[u]
        <4>1. At(rx'[s][ComesBy(f, s)][f.lane], f) = Ins(f, s) \cup {sent[f] + 1}
          BY <1>3, <1>5, <1>7 DEF l
        <4> QED BY <1>3, <1>7, <3>1, <3>3, <4>1
      <3>5. Rowed(InRow(f), OutRow(f), HopRow(f)) /\ Complete(InRow(f), OutRow(f), rcvd[f], sent[f])
        BY <1>1 DEF RowsInOrder
      <3>6. Rowed(J, OutRow(f), HopRow(f)) /\ Complete(J, OutRow(f), rcvd[f], sent[f] + 1)
        BY <1>3, <1>4, <3>2, <3>3, <3>4, <3>5, EnterKeepsRow
      <3> QED BY <1>2, <1>4, <2>2, <3>1, <3>6 DEF J
    <2> QED BY <2>1, <2>2
  <1>11. RowsInOrder'
    BY <1>10 DEF RowsInOrder, HopRow
  <1> QED BY <1>8, <1>9, <1>11 DEF WayInv

\* A step that moves no packet.
LEMMA SameQueuesGoOn ==
  ASSUME WayInv, UNCHANGED <<rx, tx, sent, rcvd>>
  PROVE  WayInv'
PROOF
  <1>1. rx' = rx /\ tx' = tx /\ sent' = sent /\ rcvd' = rcvd
    OBVIOUS
  <1>2. OnTheWay'
    BY <1>1 DEF WayInv, OnTheWay
  <1>3. QueuesInOrder'
    BY <1>1 DEF WayInv, QueuesInOrder
  <1>4. RowsInOrder'
    BY <1>1 DEF WayInv, RowsInOrder, InRow, OutRow, HopRow, Ins, Outs
  <1> QED BY <1>2, <1>3, <1>4 DEF WayInv

LEMMA WayInvInit ==
  ASSUME Init
  PROVE  WayInv
PROOF
  <1>1. \A s \in Switch, p \in Port, l \in Lane : rx[s][p][l] = << >> /\ tx[s][p][l] = << >>
    BY DEF Init
  <1>2. Range(<< >>) = {} /\ InOrder(<< >>) /\ \A f : At(<< >>, f) = {}
    <2>1. Len(<< >>) = 0 /\ DOMAIN << >> = {}
      OBVIOUS
    <2> QED BY <2>1 DEF Range, InOrder, At
  <1>3. OnTheWay
    BY <1>1, <1>2 DEF OnTheWay
  <1>4. QueuesInOrder
    BY <1>1, <1>2 DEF QueuesInOrder
  <1>5. RowsInOrder
    <2> SUFFICES ASSUME NEW f \in Flow
                 PROVE  /\ Rowed(InRow(f), OutRow(f), HopRow(f))
                        /\ Complete(InRow(f), OutRow(f), rcvd[f], sent[f])
      BY DEF RowsInOrder
    <2>1. \A s \in Switch : ComesBy(f, s) \in Port /\ GoesBy(f, s) \in Port /\ f.lane \in Lane
      BY WayPorts
    <2>2. \A s \in Switch : InRow(f)[s] = {} /\ OutRow(f)[s] = {}
      BY <1>1, <1>2, <2>1 DEF InRow, OutRow, Ins, Outs
    <2>3. rcvd[f] = 0 /\ sent[f] = 0
      BY DEF Init
    <2> QED BY <2>2, <2>3 DEF Rowed, Complete
  <1> QED BY <1>3, <1>4, <1>5 DEF WayInv

LEMMA WayInvNext ==
  ASSUME SwitchInv, WayInv, [Next]_vars
  PROVE  WayInv'
PROOF
  <1>1. ASSUME NEW f \in Flow, Send(f) PROVE WayInv'
    BY <1>1, SendGoesOn
  <1>2. ASSUME NEW s \in Switch, switch_ctrl(s) PROVE WayInv'
    BY <1>2, CrossbarGoesOn
  <1>3. ASSUME NEW s \in Switch, NEW p \in Port, LookIo(s, p) PROVE WayInv'
    BY <1>3, SameQueuesGoOn DEF LookIo
  <1>4. ASSUME NEW s \in Switch, NEW p \in Port, TransferIo(s, p) PROVE WayInv'
    BY <1>4, TransferIoGoesOn
  <1>5. ASSUME NEW s \in Switch, NEW p \in Port, DeliverIo(s, p) PROVE WayInv'
    BY <1>5, DeliverIoGoesOn
  <1>6. ASSUME NEW n \in Endpoint, NEW q \in InboxName, Consume(n, q) PROVE WayInv'
    BY <1>6, SameQueuesGoOn DEF Consume
  <1>7. ASSUME UNCHANGED vars PROVE WayInv'
    BY <1>7, SameQueuesGoOn DEF vars
  <1> QED BY <1>1, <1>2, <1>3, <1>4, <1>5, <1>6, <1>7 DEF Next, Io

\* However the tasks of the switches interleave, the packets of every flow are
\* on its way and in the order they were sent.
THEOREM WayInvAlways == Spec => []WayInv
PROOF
  <1>1. Init => WayInv
    BY WayInvInit
  <1>2. SwitchInv /\ WayInv /\ [Next]_vars => WayInv'
    BY WayInvNext
  <1> QED BY <1>1, <1>2, SwitchInvAlways, PTL DEF Spec

\* switch_get_route() and the io tasks: a packet goes from the switch of its
\* source to the switch of its destination one way round the ring, and only
\* through the switches between.
THEOREM PacketsKeepTheirWay == Spec => []OnTheWay
PROOF
  <1>1. WayInv => OnTheWay
    BY DEF WayInv
  <1> QED BY <1>1, WayInvAlways, PTL

\* What is under way is what was sent and has not arrived.
LEMMA UnderWayNumbers ==
  ASSUME TypeOK, WayInv, NEW f \in Flow
  PROVE  UnderWay(f) = {n \in Nat : rcvd[f] < n /\ n <= sent[f]}
PROOF
  <1>1. OnTheWay /\ RowsInOrder
    BY DEF WayInv
  <1>2. sent[f] \in Nat /\ rcvd[f] \in Nat /\ MaxPackets[f] \in Nat /\ sent[f] <= MaxPackets[f] /\ f.lane \in Lane
    BY FlowType DEF TypeOK
  <1>3. ASSUME NEW n \in UnderWay(f)
        PROVE  n \in Nat /\ rcvd[f] < n /\ n <= sent[f]
    <2>1. PICK s \in Switch : \E p \in Port :
            [flow |-> f, n |-> n] \in Range(rx[s][p][f.lane]) \cup Range(tx[s][p][f.lane])
      BY DEF UnderWay
    <2>2. PICK p \in Port : [flow |-> f, n |-> n] \in Range(rx[s][p][f.lane]) \cup Range(tx[s][p][f.lane])
      BY <2>1
    <2> DEFINE x == [flow |-> f, n |-> n]
    <2>3. x.flow = f /\ x.n = n
      OBVIOUS
    <2> HIDE DEF x
    <2>4. x \in Range(rx[s][p][f.lane]) \/ x \in Range(tx[s][p][f.lane])
      BY <2>2 DEF x
    <2>5. x.n \in Ins(x.flow, s) \/ x.n \in Outs(x.flow, s)
      BY <1>1, <1>2, <2>4, PacketOnItsWay
    <2>6. n \in Ins(f, s) \cup Outs(f, s)
      BY <2>3, <2>5
    <2> QED BY <1>1, <2>6, RowFacts
  <1>4. ASSUME NEW n \in Nat, rcvd[f] < n, n <= sent[f]
        PROVE  n \in UnderWay(f)
    <2>1. PICK s \in Switch : n \in InRow(f)[s] \cup OutRow(f)[s]
      BY <1>1, <1>4 DEF RowsInOrder, Complete
    <2>2. n \in Ins(f, s) \/ n \in Outs(f, s)
      BY <2>1, RowsType
    <2>3. \/ [flow |-> f, n |-> n] \in Range(rx[s][ComesBy(f, s)][f.lane])
          \/ [flow |-> f, n |-> n] \in Range(tx[s][GoesBy(f, s)][f.lane])
      BY <2>2 DEF Ins, Outs, At
    <2>4. ComesBy(f, s) \in Port /\ GoesBy(f, s) \in Port
      BY WayPorts
    <2>5. n \in 1 .. MaxPackets[f]
      BY <1>2, <1>4
    <2> QED BY <2>3, <2>4, <2>5 DEF UnderWay
  <1> QED BY <1>3, <1>4

\* The numbers of the packets of every flow after those that arrived.
Numbers(s, r) == [f \in Flow |-> {n \in Nat : r[f] < n /\ n <= s[f]}]
Channel == [f \in Flow |-> UnderWay(f)]
ChannelHoldsThem == Channel = Numbers(sent, rcvd)

LEMMA NumbersSent ==
  ASSUME NEW s \in [Flow -> Nat], NEW r \in [Flow -> Nat], NEW f \in Flow, r[f] <= s[f],
         NEW t, t = [s EXCEPT ![f] = s[f] + 1]
  PROVE  Numbers(t, r) = [Numbers(s, r) EXCEPT ![f] = Numbers(s, r)[f] \cup {s[f] + 1}]
PROOF
  <1>1. /\ s[f] \in Nat /\ r[f] \in Nat /\ t[f] = s[f] + 1
        /\ \A g \in Flow : g # f => t[g] = s[g]
    OBVIOUS
  <1>2. {n \in Nat : r[f] < n /\ n <= t[f]} = {n \in Nat : r[f] < n /\ n <= s[f]} \cup {s[f] + 1}
    BY <1>1
  <1>3. \A g \in Flow : g # f => Numbers(t, r)[g] = Numbers(s, r)[g]
    BY <1>1 DEF Numbers
  <1>4. Numbers(t, r)[f] = Numbers(s, r)[f] \cup {s[f] + 1}
    BY <1>2 DEF Numbers
  <1> DEFINE A == Numbers(s, r)
             B == Numbers(t, r)
  <1>5. A = [g \in Flow |-> A[g]] /\ B = [g \in Flow |-> B[g]]
    BY DEF Numbers
  <1> HIDE DEF A, B
  <1>6. [A EXCEPT ![f] = A[f] \cup {s[f] + 1}] = [g \in Flow |-> IF g = f THEN A[f] \cup {s[f] + 1} ELSE A[g]]
    BY <1>5
  <1>7. B[f] = A[f] \cup {s[f] + 1} /\ \A g \in Flow : g # f => B[g] = A[g]
    BY <1>3, <1>4 DEF A, B
  <1>8. B = [A EXCEPT ![f] = A[f] \cup {s[f] + 1}]
    BY <1>5, <1>6, <1>7
  <1> QED BY <1>8 DEF A, B

LEMMA NumbersArrived ==
  ASSUME sent \in [Flow -> Nat], rcvd \in [Flow -> Nat], NEW f \in Flow, rcvd[f] < sent[f],
         rcvd' = [rcvd EXCEPT ![f] = rcvd[f] + 1]
  PROVE  Numbers(sent, rcvd') = [Numbers(sent, rcvd) EXCEPT ![f] = Numbers(sent, rcvd)[f] \ {rcvd[f] + 1}]
PROOF
  <1> DEFINE s == sent
             r == rcvd
             t == rcvd'
  <1>0. s \in [Flow -> Nat] /\ r \in [Flow -> Nat] /\ r[f] < s[f] /\ t = [r EXCEPT ![f] = r[f] + 1]
    OBVIOUS
  <1> HIDE DEF s, r, t
  <1>1. /\ s[f] \in Nat /\ r[f] \in Nat /\ t[f] = r[f] + 1
        /\ \A g \in Flow : g # f => t[g] = r[g]
    BY <1>0
  <1>2. {n \in Nat : t[f] < n /\ n <= s[f]} = {n \in Nat : r[f] < n /\ n <= s[f]} \ {r[f] + 1}
    BY <1>1
  <1>3. \A g \in Flow : g # f => Numbers(s, t)[g] = Numbers(s, r)[g]
    BY <1>1 DEF Numbers
  <1>4. Numbers(s, r)[f] = {n \in Nat : r[f] < n /\ n <= s[f]}
    BY DEF Numbers
  <1>5. Numbers(s, t)[f] = Numbers(s, r)[f] \ {r[f] + 1}
    BY <1>2 DEF Numbers
  <1> DEFINE A == Numbers(s, r)
             B == Numbers(s, t)
  <1>7. A = [g \in Flow |-> A[g]] /\ B = [g \in Flow |-> B[g]]
    BY DEF Numbers
  <1> HIDE DEF A, B
  <1>8. [A EXCEPT ![f] = A[f] \ {r[f] + 1}] = [g \in Flow |-> IF g = f THEN A[f] \ {r[f] + 1} ELSE A[g]]
    BY <1>7
  <1>9. B[f] = A[f] \ {r[f] + 1} /\ \A g \in Flow : g # f => B[g] = A[g]
    BY <1>3, <1>5 DEF A, B
  <1>10. B = [A EXCEPT ![f] = A[f] \ {r[f] + 1}]
    BY <1>7, <1>8, <1>9
  <1> QED BY <1>10 DEF A, B, s, r, t

LEMMA NextNumber ==
  ASSUME NEW s \in [Flow -> Nat], NEW r \in [Flow -> Nat], NEW f \in Flow, r[f] < s[f]
  PROVE  r[f] + 1 \in Numbers(s, r)[f] /\ \A m \in Numbers(s, r)[f] : r[f] + 1 <= m
PROOF
  <1>1. s[f] \in Nat /\ r[f] \in Nat
    OBVIOUS
  <1>2. Numbers(s, r)[f] = {n \in Nat : r[f] < n /\ n <= s[f]}
    BY DEF Numbers
  <1> QED BY <1>1, <1>2

LEMMA StepOfInterconnect ==
  ASSUME SwitchInv, WayInv, ChannelHoldsThem, ChannelHoldsThem', [Next]_vars
  PROVE  [Abstract!Next]_Abstract!vars
PROOF
  <1>1. Channel = Numbers(sent, rcvd) /\ Channel' = Numbers(sent', rcvd')
    BY DEF ChannelHoldsThem, Numbers
  <1>2. sent \in [Flow -> Nat] /\ rcvd \in [Flow -> Nat] /\ \A f \in Flow : rcvd[f] <= sent[f]
    BY DEF SwitchInv, TypeOK
  <1>3. Channel = [f \in Flow |-> UnderWay(f)]
    BY DEF Channel
  <1>5. ASSUME sent' = sent, rcvd' = rcvd PROVE UNCHANGED Abstract!vars
    BY <1>1, <1>5 DEF Abstract!vars, Channel
  <1>6. ASSUME NEW f \in Flow, Send(f) PROVE Abstract!Next
    <2>1. sent[f] < MaxPackets[f] /\ sent' = [sent EXCEPT ![f] = sent[f] + 1] /\ rcvd' = rcvd
      BY <1>6 DEF Send
    <2>2. Numbers(sent', rcvd) = [Numbers(sent, rcvd) EXCEPT ![f] = Numbers(sent, rcvd)[f] \cup {sent[f] + 1}]
      BY <1>2, <2>1, NumbersSent
    <2>3. Channel' = [Channel EXCEPT ![f] = Channel[f] \cup {sent[f] + 1}]
      BY <1>1, <2>1, <2>2
    <2> QED BY <2>1, <2>3 DEF Abstract!Next, Abstract!Send, Channel
  <1>7. ASSUME NEW s \in Switch, NEW p \in Port, DeliverIo(s, p) PROVE Abstract!Next
    <2>1. PICK f \in Flow : rcvd' = [rcvd EXCEPT ![f] = rcvd[f] + 1] /\ rcvd[f] < sent[f] /\ sent' = sent
      BY <1>7, DeliverIoGoesOn
    <2>2. Numbers(sent, rcvd') = [Numbers(sent, rcvd) EXCEPT ![f] = Numbers(sent, rcvd)[f] \ {rcvd[f] + 1}]
      BY <1>2, <2>1, NumbersArrived
    <2>4. rcvd[f] + 1 \in Numbers(sent, rcvd)[f] /\ \A m \in Numbers(sent, rcvd)[f] : rcvd[f] + 1 <= m
      BY <1>2, <2>1, NextNumber
    <2>3. /\ Channel' = [Channel EXCEPT ![f] = Channel[f] \ {rcvd[f] + 1}]
          /\ rcvd[f] + 1 \in Channel[f] /\ \A m \in Channel[f] : rcvd[f] + 1 <= m
      BY <1>1, <2>1, <2>2, <2>4
    <2> QED BY <2>1, <2>3 DEF Abstract!Next, Abstract!Deliver, Channel
  <1>8. ASSUME NEW s \in Switch, switch_ctrl(s) PROVE UNCHANGED Abstract!vars
    BY <1>5, <1>8 DEF switch_ctrl
  <1>9. ASSUME NEW s \in Switch, NEW p \in Port, LookIo(s, p) PROVE UNCHANGED Abstract!vars
    BY <1>5, <1>9 DEF LookIo
  <1>10. ASSUME NEW s \in Switch, NEW p \in Port, TransferIo(s, p) PROVE UNCHANGED Abstract!vars
    BY <1>5, <1>10 DEF TransferIo
  <1>11. ASSUME NEW n \in Endpoint, NEW q \in InboxName, Consume(n, q) PROVE UNCHANGED Abstract!vars
    BY <1>5, <1>11 DEF Consume
  <1>12. ASSUME UNCHANGED vars PROVE UNCHANGED Abstract!vars
    BY <1>5, <1>12 DEF vars
  <1> QED BY <1>6, <1>7, <1>8, <1>9, <1>10, <1>11, <1>12 DEF Next, Io

\* The ring of switches is an interconnect: every packet that a cache sends
\* arrives at most once, at its destination, and behind those of its flow that
\* were sent before, whatever the number of cores, the sizes and the traffic.
THEOREM SwitchesConnect == Spec => ImplementsInterconnect
PROOF
  <1>1. Init => Abstract!Init
    <2> SUFFICES ASSUME Init PROVE Abstract!Init
      OBVIOUS
    <2>1. TypeOK /\ WayInv
      BY SwitchInvInit, WayInvInit DEF SwitchInv
    <2>2. sent = [f \in Flow |-> 0] /\ rcvd = [f \in Flow |-> 0]
      BY DEF Init
    <2>3. \A f \in Flow : UnderWay(f) = {}
      BY <2>1, <2>2, UnderWayNumbers
    <2> QED BY <2>2, <2>3 DEF Abstract!Init
  <1>2. SwitchInv /\ WayInv => ChannelHoldsThem
    BY UnderWayNumbers DEF SwitchInv, ChannelHoldsThem, Channel, Numbers
  <1>3. SwitchInv /\ WayInv /\ ChannelHoldsThem /\ ChannelHoldsThem' /\ [Next]_vars
          => [Abstract!Next]_Abstract!vars
    BY StepOfInterconnect
  <1> QED BY <1>1, <1>2, <1>3, SwitchInvAlways, WayInvAlways, PTL DEF Spec, ImplementsInterconnect, Abstract!Spec
=============================================================================
