---------------------------- MODULE TaskingProofs ----------------------------
(***************************************************************************)
(* Proofs about the tasking kernel, for every set of tasks and event       *)
(* counts and for every bound: its types, and that its list surgery keeps  *)
(* every list in order, loses no task and misses no wake-up.               *)
(***************************************************************************)
EXTENDS Tasking, SequenceTheorems, FiniteSetTheorems, TLAPS

(***************************************************************************)
(* Lists                                                                   *)
(***************************************************************************)

\* A prefix and a suffix of a list, what insertion and release build on.
LEMMA Pieces ==
  ASSUME NEW S, NEW s \in Seq(S), NEW k \in 0..Len(s)
  PROVE  /\ SubSeq(s, 1, k) \in Seq(S)
         /\ Len(SubSeq(s, 1, k)) = k
         /\ \A i \in 1..k : SubSeq(s, 1, k)[i] = s[i]
         /\ SubSeq(s, k+1, Len(s)) \in Seq(S)
         /\ Len(SubSeq(s, k+1, Len(s))) = Len(s) - k
         /\ \A i \in 1..(Len(s) - k) : SubSeq(s, k+1, Len(s))[i] = s[k+i]
PROOF
  <1>1. Len(s) \in Nat /\ \A i \in 1..Len(s) : s[i] \in S
    BY LenProperties, ElementOfSeq
  <1>2. /\ SubSeq(s, 1, k) \in Seq(S)
        /\ Len(SubSeq(s, 1, k)) = k
        /\ \A i \in 1..k : SubSeq(s, 1, k)[i] = s[i]
    <2>1. \A i \in 1..k : s[i] \in S
      BY <1>1
    <2> QED BY <1>1, <2>1, SubSeqProperties
  <1>3. /\ SubSeq(s, k+1, Len(s)) \in Seq(S)
        /\ Len(SubSeq(s, k+1, Len(s))) = Len(s) - k
        /\ \A i \in 1..(Len(s) - k) : SubSeq(s, k+1, Len(s))[i] = s[k+i]
    <2>1. \A i \in (k+1)..Len(s) : s[i] \in S
      BY <1>1
    <2>2. k+1 \in Int /\ Len(s) \in Int
      BY <1>1
    <2> QED BY <1>1, <2>1, <2>2, SubSeqProperties
  <1> QED BY <1>2, <1>3

\* InsertAt puts x at place k and keeps the order of the others.
LEMMA InsertAtProperties ==
  ASSUME NEW S, NEW s \in Seq(S), NEW k \in 1..(Len(s) + 1), NEW x \in S
  PROVE  /\ InsertAt(s, k, x) \in Seq(S)
         /\ Len(InsertAt(s, k, x)) = Len(s) + 1
         /\ \A i \in 1..(Len(s) + 1) : InsertAt(s, k, x)[i] =
              IF i < k THEN s[i] ELSE IF i = k THEN x ELSE s[i-1]
PROOF
  <1> DEFINE p == SubSeq(s, 1, k-1)
             q == SubSeq(s, k, Len(s))
  <1>0. Len(s) \in Nat
    BY LenProperties
  <1>1. k-1 \in 0..Len(s) /\ (k-1)+1 = k
    BY <1>0
  <1>2. /\ p \in Seq(S) /\ Len(p) = k-1
        /\ \A i \in 1..(k-1) : p[i] = s[i]
        /\ q \in Seq(S) /\ Len(q) = Len(s) - (k-1)
        /\ \A i \in 1..(Len(s) - (k-1)) : q[i] = s[(k-1)+i]
    BY <1>1, Pieces
  <1>3. <<x>> \in Seq(S) /\ Len(<<x>>) = 1 /\ <<x>>[1] = x
    OBVIOUS
  <1> HIDE DEF p, q
  <1>4. /\ p \o <<x>> \in Seq(S) /\ Len(p \o <<x>>) = k
        /\ \A i \in 1..k : (p \o <<x>>)[i] = IF i <= k-1 THEN p[i] ELSE <<x>>[i - (k-1)]
    <2> DEFINE e == <<x>>
    <2>1. e \in Seq(S) /\ Len(e) = 1
      BY <1>3
    <2> HIDE DEF e
    <2>2. Len(p) + Len(e) = k
      BY <1>0, <1>2, <2>1
    <2>3. /\ p \o e \in Seq(S)
          /\ Len(p \o e) = Len(p) + Len(e)
          /\ \A i \in 1..(Len(p) + Len(e)) : (p \o e)[i] = IF i <= Len(p) THEN p[i] ELSE e[i - Len(p)]
      BY <1>2, <2>1, ConcatProperties
    <2>4. /\ p \o e \in Seq(S) /\ Len(p \o e) = k
          /\ \A i \in 1..k : (p \o e)[i] = IF i <= k-1 THEN p[i] ELSE e[i - (k-1)]
      BY <2>2, <2>3, <1>2
    <2> QED BY <2>4 DEF e
  <1>5. /\ (p \o <<x>>) \o q \in Seq(S)
        /\ Len((p \o <<x>>) \o q) = Len(s) + 1
        /\ \A i \in 1..(Len(s) + 1) : ((p \o <<x>>) \o q)[i] =
             IF i <= k THEN (p \o <<x>>)[i] ELSE q[i-k]
    <2> DEFINE r == p \o <<x>>
    <2>1. r \in Seq(S) /\ q \in Seq(S) /\ Len(r) = k
      BY <1>2, <1>4
    <2> HIDE DEF r
    <2>2. Len(r) + Len(q) = Len(s) + 1
      <3>1. Len(q) = Len(s) - (k-1)
        BY <1>2
      <3> QED BY <1>0, <3>1, <2>1
    <2>3. /\ r \o q \in Seq(S)
          /\ Len(r \o q) = Len(s) + 1
          /\ \A i \in 1..(Len(s) + 1) : (r \o q)[i] = IF i <= k THEN r[i] ELSE q[i-k]
      BY <2>1, <2>2, ConcatProperties
    <2> QED BY <2>3 DEF r
  <1> DEFINE t == p \o <<x>>
             u == t \o q
  <1>6. InsertAt(s, k, x) = u
    BY DEF InsertAt, p, q
  <1>7. /\ \A i \in 1..k : t[i] = IF i <= k-1 THEN p[i] ELSE <<x>>[i - (k-1)]
        /\ \A i \in 1..(Len(s) + 1) : u[i] = IF i <= k THEN t[i] ELSE q[i-k]
        /\ u \in Seq(S) /\ Len(u) = Len(s) + 1
    BY <1>4, <1>5
  <1> HIDE DEF t, u
  <1>8. ASSUME NEW i \in 1..(Len(s) + 1)
        PROVE  u[i] = IF i < k THEN s[i] ELSE IF i = k THEN x ELSE s[i-1]
    <2>1. CASE i < k
      <3>1. i \in 1..(k-1) /\ i \in 1..k /\ i <= k-1 /\ i <= k
        BY <2>1, <1>0
      <3>2. u[i] = t[i] /\ t[i] = p[i]
        BY <3>1, <1>7
      <3>3. p[i] = s[i]
        BY <3>1, <1>2
      <3> QED BY <2>1, <3>2, <3>3
    <2>2. CASE i = k
      <3>1. t[i] = <<x>>[1]
        BY <2>2, <1>0, <1>7
      <3> QED BY <2>2, <3>1, <1>0, <1>3, <1>7
    <2>3. CASE i > k
      <3>1. i-k \in 1..(Len(s) - (k-1)) /\ (k-1) + (i-k) = i-1
        BY <2>3, <1>0
      <3>2. q[i-k] = s[i-1]
        BY <3>1, <1>2
      <3> QED BY <2>3, <3>2, <1>0, <1>7
    <2> QED BY <2>1, <2>2, <2>3, <1>0
  <1> QED BY <1>6, <1>7, <1>8

\* RemoveAt drops the i-th element.
LEMMA RemoveAtProperties ==
  ASSUME NEW S, NEW s \in Seq(S), NEW k \in 1..Len(s)
  PROVE  /\ RemoveAt(s, k) \in Seq(S)
         /\ Len(RemoveAt(s, k)) = Len(s) - 1
         /\ \A i \in 1..(Len(s) - 1) : RemoveAt(s, k)[i] = IF i < k THEN s[i] ELSE s[i+1]
PROOF
  <1> DEFINE p == SubSeq(s, 1, k-1)
             q == SubSeq(s, k+1, Len(s))
  <1>0. Len(s) \in Nat
    BY LenProperties
  <1>1. k-1 \in 0..Len(s) /\ k \in 0..Len(s)
    BY <1>0
  <1>2. /\ p \in Seq(S) /\ Len(p) = k-1
        /\ \A i \in 1..(k-1) : p[i] = s[i]
    BY <1>1, Pieces
  <1>3. /\ q \in Seq(S) /\ Len(q) = Len(s) - k
        /\ \A i \in 1..(Len(s) - k) : q[i] = s[k+i]
    BY <1>1, Pieces
  <1> HIDE DEF p, q
  <1>4. /\ p \o q \in Seq(S)
        /\ Len(p \o q) = Len(s) - 1
        /\ \A i \in 1..(Len(s) - 1) : (p \o q)[i] = IF i <= k-1 THEN p[i] ELSE q[i - (k-1)]
    <2>1. Len(p) + Len(q) = Len(s) - 1
      BY <1>0, <1>2, <1>3
    <2>2. /\ p \o q \in Seq(S)
          /\ Len(p \o q) = Len(p) + Len(q)
          /\ \A i \in 1..(Len(p) + Len(q)) : (p \o q)[i] = IF i <= Len(p) THEN p[i] ELSE q[i - Len(p)]
      BY <1>2, <1>3, ConcatProperties
    <2> QED BY <2>1, <2>2, <1>2
  <1> DEFINE u == p \o q
  <1>5. RemoveAt(s, k) = u
    BY DEF RemoveAt, p, q
  <1>6. /\ u \in Seq(S) /\ Len(u) = Len(s) - 1
        /\ \A i \in 1..(Len(s) - 1) : u[i] = IF i <= k-1 THEN p[i] ELSE q[i - (k-1)]
    BY <1>4
  <1> HIDE DEF u
  <1>7. ASSUME NEW i \in 1..(Len(s) - 1)
        PROVE  u[i] = IF i < k THEN s[i] ELSE s[i+1]
    <2>1. CASE i < k
      BY <2>1, <1>0, <1>2, <1>6
    <2>2. CASE i >= k
      <3>1. i - (k-1) \in 1..(Len(s) - k) /\ k + (i - (k-1)) = i+1
        BY <2>2, <1>0
      <3>2. q[i - (k-1)] = s[i+1]
        BY <3>1, <1>3
      <3> QED BY <2>2, <3>2, <1>0, <1>6
    <2> QED BY <2>1, <2>2, <1>0
  <1> QED BY <1>5, <1>6, <1>7

(***************************************************************************)
(* Type correctness                                                        *)
(***************************************************************************)

LEMMA NowType == TypeOK => now \in Nat
BY DEF TypeOK, now, Clock

\* The first alarm.
LEMMA HeadAlarm ==
  ASSUME TypeOK, alarms # << >>
  PROVE  Head(alarms).ec \in EC /\ Head(alarms).time \in Nat /\ Tail(alarms) \in Seq(Alarm)
PROOF
  <1>1. Head(alarms) \in Alarm /\ Tail(alarms) \in Seq(Alarm)
    BY HeadTailProperties DEF TypeOK
  <1> QED BY <1>1 DEF Alarm

LEMMA DispatchType ==
  ASSUME TypeOK,
         NEW lists \in [Clock -> Seq(Task)], NEW counts \in [Task -> Nat],
         NEW h \in Task \cup {NoTask},
         Dispatch(lists, counts, h)
  PROVE  /\ count' \in [Clock -> Nat]
         /\ tasklist' \in [Clock -> Seq(Task)]
         /\ curtask' \in Task \cup {NoTask}
         /\ hint' \in Task \cup {NoTask}
         /\ sim' \in {"running"} \cup Outcome
PROOF
  <1>1. CASE lists[Etime] = << >>
    BY <1>1 DEF Dispatch, TypeOK, Outcome
  <1>2. CASE lists[Etime] # << >>
    <2> DEFINE l == lists[Etime]
    <2>1. Etime \in Clock /\ l \in Seq(Task) /\ l # << >>
      BY <1>2 DEF Clock
    <2>2. Head(l) \in Task /\ Tail(l) \in Seq(Task)
      BY <2>1, HeadTailProperties
    <2>3. counts[Head(l)] \in Nat
      BY <2>2
    <2>4. /\ curtask' = Head(l)
          /\ tasklist' = [lists EXCEPT ![Etime] = Tail(l)]
          /\ count' = [count EXCEPT ![Etime] = counts[Head(l)]]
          /\ hint' = IF h = Head(l) THEN NoTask ELSE h
          /\ sim' = sim
      BY <1>2 DEF Dispatch
    <2> HIDE DEF l
    <2> QED BY <2>1, <2>2, <2>3, <2>4 DEF TypeOK
  <1> QED BY <1>1, <1>2

LEMMA AwaitType ==
  ASSUME TypeOK, curtask \in Task, NEW c \in Clock, NEW v \in Nat, await(c, v)
  PROVE  /\ count' \in [Clock -> Nat]
         /\ tasklist' \in [Clock -> Seq(Task)]
         /\ tcount' \in [Task -> Nat]
         /\ curtask' \in Task \cup {NoTask}
         /\ hint' \in Task \cup {NoTask}
         /\ alarms' \in Seq(Alarm)
         /\ want' \in [Task -> [ec : Clock, value : Nat]]
         /\ live' \in SUBSET Task
         /\ sim' \in {"running"} \cup Outcome
PROOF
  <1>1. PICK k \in 0..Len(tasklist[c]) :
          /\ tcount' = [tcount EXCEPT ![curtask] = v]
          /\ Dispatch([tasklist EXCEPT ![c] = InsertAt(@, k+1, curtask)], tcount',
                      IF c = Etime /\ k > 0 THEN curtask ELSE hint)
    BY DEF await, find_next_task
  <1>2. tcount' \in [Task -> Nat]
    BY <1>1 DEF TypeOK
  <1> DEFINE lists == [tasklist EXCEPT ![c] = InsertAt(@, k+1, curtask)]
             h == IF c = Etime /\ k > 0 THEN curtask ELSE hint
  <1>3. lists \in [Clock -> Seq(Task)]
    <2>1. tasklist[c] \in Seq(Task) /\ Len(tasklist[c]) \in Nat
      BY LenProperties DEF TypeOK
    <2>2. k+1 \in 1..(Len(tasklist[c]) + 1)
      BY <2>1
    <2>3. InsertAt(tasklist[c], k+1, curtask) \in Seq(Task)
      BY <2>1, <2>2, InsertAtProperties
    <2> QED BY <2>3 DEF TypeOK
  <1>4. h \in Task \cup {NoTask}
    BY DEF TypeOK
  <1>5. Dispatch(lists, tcount', h)
    BY <1>1
  <1> HIDE DEF lists, h
  <1>6. /\ count' \in [Clock -> Nat]
        /\ tasklist' \in [Clock -> Seq(Task)]
        /\ curtask' \in Task \cup {NoTask}
        /\ hint' \in Task \cup {NoTask}
        /\ sim' \in {"running"} \cup Outcome
    BY <1>2, <1>3, <1>4, <1>5, DispatchType
  <1>7. want' \in [Task -> [ec : Clock, value : Nat]]
    BY DEF await, TypeOK
  <1> QED BY <1>2, <1>6, <1>7 DEF await, TypeOK

LEMMA ReturnType ==
  ASSUME TypeOK, NEW t \in Task, Return(t), UNCHANGED wakepc
  PROVE  TypeOK'
PROOF
  <1>1. Dispatch(tasklist, tcount, hint)
    BY DEF Return
  <1>2. /\ count' \in [Clock -> Nat]
        /\ tasklist' \in [Clock -> Seq(Task)]
        /\ curtask' \in Task \cup {NoTask}
        /\ hint' \in Task \cup {NoTask}
        /\ sim' \in {"running"} \cup Outcome
    BY <1>1, DispatchType DEF TypeOK
  <1> QED BY <1>2 DEF Return, TypeOK

LEMMA AdvanceType ==
  ASSUME TypeOK, NEW c \in EC, advance(c)
  PROVE  /\ count' \in [Clock -> Nat]
         /\ tasklist' \in [Clock -> Seq(Task)]
         /\ tcount' \in [Task -> Nat]
PROOF
  <1> DEFINE l == tasklist[c]
  <1>1. c \in Clock /\ Etime \in Clock /\ l \in Seq(Task) /\ tasklist[Etime] \in Seq(Task)
    BY DEF TypeOK, Clock
  <1>2. count' \in [Clock -> Nat]
    <2>1. count' = [count EXCEPT ![c] = count[c] + 1]
      BY DEF advance
    <2> QED BY <2>1, <1>1 DEF TypeOK
  <1>3. CASE UNCHANGED <<tasklist, tcount>>
    BY <1>2, <1>3 DEF TypeOK
  <1>4. CASE \E k \in 1..Len(l) : Release(c, k)
    <2>1. PICK k \in 1..Len(l) : Release(c, k)
      BY <1>4
    <2>2. tcount' \in [Task -> Nat]
      BY <2>1, NowType DEF Release, TypeOK
    <2>3. k \in 0..Len(l)
      BY <1>1, LenProperties
    <2>4. SubSeq(l, k+1, Len(l)) \in Seq(Task) /\ SubSeq(l, 1, k) \in Seq(Task)
      BY <1>1, <2>3, Pieces
    <2>5. SubSeq(l, 1, k) \o tasklist[Etime] \in Seq(Task)
      BY <1>1, <2>4, ConcatProperties
    <2>6. Etime # c
      BY TaskingAssumption
    <2>7. tasklist' = [tasklist EXCEPT ![c] = SubSeq(l, k+1, Len(l)),
                                       ![Etime] = SubSeq(l, 1, k) \o tasklist[Etime]]
      BY <2>1, <2>6 DEF Release, TypeOK
    <2> HIDE DEF l
    <2>8. tasklist' \in [Clock -> Seq(Task)]
      BY <1>1, <2>4, <2>5, <2>7 DEF TypeOK
    <2> QED BY <1>2, <2>2, <2>8
  <1> QED BY <1>3, <1>4 DEF advance

\* The lists of future_advance(): Wake leaves its place and goes to another.
LEMMA MoveType ==
  ASSUME NEW l \in Seq(Task), NEW i \in 1..Len(l), NEW j \in 1..Len(l)
  PROVE  InsertAt(RemoveAt(l, i), j, Wake) \in Seq(Task)
PROOF
  <1>1. Len(l) \in Nat
    BY LenProperties
  <1>2. RemoveAt(l, i) \in Seq(Task) /\ Len(RemoveAt(l, i)) = Len(l) - 1
    BY RemoveAtProperties
  <1>3. j \in 1..(Len(RemoveAt(l, i)) + 1)
    BY <1>1, <1>2
  <1> QED BY <1>2, <1>3, InsertAtProperties, TaskingAssumption

LEMMA FutureAdvanceType ==
  ASSUME TypeOK, NEW t \in Client, FutureAdvance(t)
  PROVE  TypeOK'
PROOF
  <1> USE DEF TypeOK
  <1>1. PICK c \in EC, w \in (now+1)..TimeBound, k \in 1..(Len(alarms) + 1) :
          /\ alarms' = InsertAt(alarms, k, [ec |-> c, time |-> w])
          /\ IF k > 1
             THEN UNCHANGED <<tasklist, tcount, want, sim>>
             ELSE \/ /\ Wake \notin live
                     /\ sim' = "fatal"
                     /\ UNCHANGED <<tasklist, tcount, want>>
                  \/ \E i \in DOMAIN tasklist[Etime], j \in 1..Len(tasklist[Etime]) :
                       LET l == tasklist[Etime]
                           rest == RemoveAt(l, i)
                       IN /\ l[i] = Wake
                          /\ SortedSlot([m \in DOMAIN rest |-> tcount[rest[m]]], w, j)
                          /\ tasklist' = [tasklist EXCEPT ![Etime] = InsertAt(rest, j, Wake)]
                          /\ tcount' = [tcount EXCEPT ![Wake] = w]
                          /\ want' = [want EXCEPT ![Wake].value = w]
                          /\ UNCHANGED sim
    BY DEF FutureAdvance
  <1>2. w \in Nat
    <2>1. now \in Nat
      BY NowType
    <2> QED BY <2>1, TaskingAssumption
  <1>3. alarms' \in Seq(Alarm)
    <2>1. [ec |-> c, time |-> w] \in Alarm
      BY <1>2 DEF Alarm
    <2> QED BY <1>1, <2>1, InsertAtProperties
  <1>4. UNCHANGED <<count, curtask, hint, wakepc, live>>
    BY DEF FutureAdvance
  <1>5. CASE UNCHANGED <<tasklist, tcount, want>> /\ sim' \in {sim, "fatal"}
    BY <1>3, <1>4, <1>5 DEF Outcome
  <1>6. ASSUME NEW i \in DOMAIN tasklist[Etime], NEW j \in 1..Len(tasklist[Etime]),
               tasklist' = [tasklist EXCEPT ![Etime] = InsertAt(RemoveAt(tasklist[Etime], i), j, Wake)],
               tcount' = [tcount EXCEPT ![Wake] = w],
               want' = [want EXCEPT ![Wake].value = w],
               UNCHANGED sim
        PROVE  TypeOK'
    <2>1. Etime \in Clock /\ tasklist[Etime] \in Seq(Task)
      BY DEF Clock
    <2>2. i \in 1..Len(tasklist[Etime])
      BY <2>1, LenProperties
    <2>3. InsertAt(RemoveAt(tasklist[Etime], i), j, Wake) \in Seq(Task)
      BY <2>1, <2>2, MoveType
    <2>4. tasklist' \in [Clock -> Seq(Task)]
      BY <1>6, <2>3
    <2>5. tcount' \in [Task -> Nat] /\ want' \in [Task -> [ec : Clock, value : Nat]]
      BY <1>2, <1>6, TaskingAssumption
    <2> QED BY <1>3, <1>4, <1>6, <2>4, <2>5
  <1> QED BY <1>1, <1>5, <1>6

LEMMA InitType == Init => TypeOK
PROOF
  <1> SUFFICES ASSUME Init PROVE TypeOK
    OBVIOUS
  <1>1. PICK order \in SetToSeqs(Client) :
          /\ curtask = Head(order)
          /\ tasklist = [c \in Clock |-> IF c = Etime THEN Tail(order) \o <<Wake>> ELSE << >>]
          /\ hint = IF Len(order) = 1 THEN NoTask ELSE Wake
    BY DEF Init
  <1>2. order \in Seq(Client) /\ order # << >>
    <2>1. IsFiniteSet(Client) /\ Client # {}
      BY TaskingAssumption, FS_Subset DEF Client
    <2>2. Cardinality(Client) \in Nat /\ Cardinality(Client) # 0
      BY <2>1, FS_CardinalityType, FS_EmptySet
    <2>3. order \in [1..Cardinality(Client) -> Client]
      BY DEF SetToSeqs
    <2>4. order \in Seq(Client)
      BY <2>2, <2>3, SeqDef
    <2>5. 1 \in DOMAIN order
      BY <2>2, <2>3
    <2> QED BY <2>4, <2>5, EmptySeq, LenProperties
  <1>3. Client \subseteq Task /\ Wake \in Task
    BY TaskingAssumption DEF Client
  <1>4. Head(order) \in Task /\ Tail(order) \o <<Wake>> \in Seq(Task)
    <2>1. Head(order) \in Client /\ Tail(order) \in Seq(Client)
      BY <1>2, HeadTailProperties
    <2>2. Tail(order) \in Seq(Task) /\ <<Wake>> \in Seq(Task)
      BY <2>1, <1>3, SeqMonotonic
    <2> QED BY <2>1, <2>2, <1>3, ConcatProperties
  <1>5. /\ count \in [Clock -> Nat] /\ tcount \in [Task -> Nat]
        /\ want \in [Task -> [ec : Clock, value : Nat]]
        /\ alarms \in Seq(Alarm)
    BY TaskingAssumption DEF Init, Clock
  <1>6. tasklist \in [Clock -> Seq(Task)]
    BY <1>1, <1>4
  <1> QED BY <1>1, <1>3, <1>4, <1>5, <1>6 DEF TypeOK, Init

\* Every step, one case per operation.
LEMMA NextType == TypeOK /\ [Next]_vars => TypeOK'
PROOF
  <1> SUFFICES ASSUME TypeOK, [Next]_vars PROVE TypeOK'
    OBVIOUS
  <1> USE DEF TypeOK
  <1>0. Client \subseteq Task /\ Wake \in Task /\ EC \subseteq Clock /\ Etime \in Clock
    BY TaskingAssumption DEF Client, Clock
  <1>1. ASSUME NEW t \in Client, Await(t) PROVE TypeOK'
    <2>1. PICK c \in EC, v \in 1..(CountBound + 1) : await(c, v)
      BY <1>1 DEF Await
    <2>2. v \in Nat /\ c \in Clock /\ curtask \in Task
      BY <1>0, <1>1, TaskingAssumption DEF Await, Running
    <2> QED BY <1>1, <2>1, <2>2, AwaitType DEF Await
  <1>2. ASSUME NEW t \in Client, Epause(t) PROVE TypeOK'
    <2>1. PICK n \in 1..TimeBound :
            \/ /\ count' = [count EXCEPT ![Etime] = now + n]
               /\ want' = [want EXCEPT ![t] = [ec |-> Etime, value |-> now + n]]
               /\ UNCHANGED <<tasklist, tcount, curtask, hint, alarms, live, sim>>
            \/ await(Etime, now + n)
      BY <1>2 DEF Epause
    <2>2. now + n \in Nat /\ curtask \in Task /\ UNCHANGED wakepc
      <3>1. now \in Nat
        BY NowType
      <3>2. curtask \in Task /\ UNCHANGED wakepc
        BY <1>0, <1>2 DEF Epause, Running
      <3> QED BY <3>1, <3>2, TaskingAssumption
    <2>3. CASE await(Etime, now + n)
      BY <1>0, <2>2, <2>3, AwaitType
    <2>4. CASE /\ count' = [count EXCEPT ![Etime] = now + n]
               /\ want' = [want EXCEPT ![t] = [ec |-> Etime, value |-> now + n]]
               /\ UNCHANGED <<tasklist, tcount, curtask, hint, alarms, live, sim>>
      BY <1>0, <2>2, <2>4
    <2> QED BY <2>1, <2>3, <2>4
  <1>3. ASSUME NEW t \in Client, Advance(t) PROVE TypeOK'
    BY <1>3, AdvanceType DEF Advance
  <1>4. ASSUME NEW t \in Client, FutureAdvance(t) PROVE TypeOK'
    BY <1>4, FutureAdvanceType
  <1>5. ASSUME NEW t \in Client, FinishTask(t) PROVE TypeOK'
    BY <1>0, <1>5, ReturnType DEF FinishTask
  <1>6. CASE WakeNoAlarm
    BY <1>6 DEF WakeNoAlarm, Outcome
  <1>7. CASE WakeAdvance
    <2>1. alarms \in Seq(Alarm) /\ alarms # << >>
      BY <1>7 DEF WakeAdvance
    <2>2. Head(alarms).ec \in EC /\ Tail(alarms) \in Seq(Alarm)
      BY <2>1, HeadAlarm
    <2>3. alarms' \in Seq(Alarm) /\ UNCHANGED <<curtask, hint, want, live>>
      BY <1>7, <2>2 DEF WakeAdvance
    <2>4. CASE now < Head(alarms).time
      BY <1>7, <2>3, <2>4 DEF WakeAdvance, Outcome
    <2>5. CASE ~(now < Head(alarms).time)
      <3>1. advance(Head(alarms).ec) /\ wakepc' \in {"break", "rearm"} /\ UNCHANGED sim
        BY <1>7, <2>5 DEF WakeAdvance
      <3> QED BY <2>2, <2>3, <3>1, AdvanceType
    <2> QED BY <2>4, <2>5
  <1>8. CASE WakeRearm
    <2> DEFINE next == IF alarms = << >> THEN MaxTime ELSE Head(alarms).time
    <2>1. next \in Nat
      BY TaskingAssumption, HeadAlarm
    <2>2. curtask = Wake /\ wakepc' = "woken"
      BY <1>8 DEF WakeRearm, Sleep, Running
    <2>3. \/ await(Etime, next)
          \/ /\ want' = [want EXCEPT ![Wake].value = next]
             /\ UNCHANGED <<count, tasklist, tcount, curtask, hint, alarms, live, sim>>
      BY <1>8 DEF WakeRearm, Sleep
    <2> HIDE DEF next
    <2>4. CASE await(Etime, next)
      BY <1>0, <2>1, <2>2, <2>4, AwaitType
    <2>5. CASE /\ want' = [want EXCEPT ![Wake].value = next]
               /\ UNCHANGED <<count, tasklist, tcount, curtask, hint, alarms, live, sim>>
      BY <1>0, <2>1, <2>2, <2>5
    <2> QED BY <2>3, <2>4, <2>5
  <1>9. CASE WakeBreak
    BY <1>0, <1>9, ReturnType DEF WakeBreak
  <1>10. CASE UNCHANGED vars
    BY <1>10 DEF vars
  <1> QED BY <1>1, <1>2, <1>3, <1>4, <1>5, <1>6, <1>7, <1>8, <1>9, <1>10
          DEF Next, ClientStep, WakeStep, Halted

\* No operation of the kernel leaves the types of its state, whatever the
\* tasks, the event counts and the order of the calls.
THEOREM TypeCorrect == Spec => []TypeOK
PROOF
  <1>1. Init => TypeOK
    BY InitType
  <1>2. TypeOK /\ [Next]_vars => TypeOK'
    BY NextType
  <1> QED BY <1>1, <1>2, PTL DEF Spec

(***************************************************************************)
(* Lists of tasks in the order of what they wait for                       *)
(***************************************************************************)

\* The tasks on a list.
On(l) == {l[i] : i \in 1..Len(l)}

\* No task is on it twice.
Distinct(l) == \A i, j \in 1..Len(l) : l[i] = l[j] => i = j

\* It is ordered by tc.
Sorted(l, tc) == \A i, j \in 1..Len(l) : i < j => tc[l[i]] <= tc[l[j]]

\* The lists depend on the values of their own tasks only.
LEMMA SortedByOwn ==
  ASSUME NEW l \in Seq(Task), NEW tc \in [Task -> Nat], NEW td \in [Task -> Nat],
         Sorted(l, tc), \A t \in On(l) : td[t] = tc[t]
  PROVE  Sorted(l, td)
BY DEF Sorted, On

\* The first task of an ordered list has the least value.
LEMMA HeadIsLeast ==
  ASSUME NEW l \in Seq(Task), NEW tc \in [Task -> Nat], Sorted(l, tc), l # << >>
  PROVE  /\ Head(l) = l[1] /\ Head(l) \in On(l)
         /\ \A t \in On(l) : tc[Head(l)] <= tc[t]
PROOF
  <1>1. Len(l) \in Nat /\ Len(l) # 0 /\ \A i \in 1..Len(l) : l[i] \in Task
    BY LenProperties, EmptySeq, ElementOfSeq
  <1>2. Head(l) = l[1]
    BY <1>1, HeadTailProperties
  <1>3. 1 \in 1..Len(l)
    BY <1>1
  <1>4. ASSUME NEW i \in 1..Len(l) PROVE tc[l[1]] <= tc[l[i]]
    BY <1>1, <1>3 DEF Sorted
  <1> QED BY <1>2, <1>3, <1>4 DEF On

\* Taking the first task away.
LEMMA TailKeeps ==
  ASSUME NEW l \in Seq(Task), NEW tc \in [Task -> Nat], Sorted(l, tc), Distinct(l), l # << >>
  PROVE  /\ Tail(l) \in Seq(Task)
         /\ On(Tail(l)) = On(l) \ {Head(l)}
         /\ Distinct(Tail(l))
         /\ Sorted(Tail(l), tc)
PROOF
  <1>1. Len(l) \in Nat /\ Len(l) # 0
    BY LenProperties, EmptySeq
  <1>2. /\ Head(l) = l[1]
        /\ Tail(l) \in Seq(Task) /\ Len(Tail(l)) = Len(l) - 1
        /\ \A i \in 1..Len(Tail(l)) : Tail(l)[i] = l[i+1]
    BY HeadTailProperties
  <1> DEFINE r == Tail(l)
  <1> HIDE DEF r
  <1>3. /\ Len(r) = Len(l) - 1
        /\ \A i \in 1..Len(r) : r[i] = l[i+1] /\ i+1 \in 1..Len(l)
        /\ 1 \in 1..Len(l)
    BY <1>1, <1>2 DEF r
  <1>4. On(r) \subseteq On(l) \ {l[1]}
    BY <1>3 DEF On, Distinct
  <1>5. ASSUME NEW t \in On(l), t # l[1] PROVE t \in On(r)
    <2>1. PICK i \in 1..Len(l) : t = l[i]
      BY DEF On
    <2>2. i # 1 /\ i-1 \in 1..Len(r) /\ (i-1)+1 = i
      BY <1>1, <1>3, <1>5, <2>1
    <2>3. r[i-1] = l[i]
      BY <1>3, <2>2
    <2> QED BY <2>1, <2>2, <2>3 DEF On
  <1>6. Distinct(r)
    <2> SUFFICES ASSUME NEW i \in 1..Len(r), NEW j \in 1..Len(r), r[i] = r[j] PROVE i = j
      BY DEF Distinct
    <2>1. i+1 \in 1..Len(l) /\ j+1 \in 1..Len(l) /\ l[i+1] = l[j+1]
      BY <1>3
    <2>2. i+1 = j+1
      BY <2>1 DEF Distinct
    <2> QED BY <2>2, <1>1, <1>3
  <1>7. Sorted(r, tc)
    <2> SUFFICES ASSUME NEW i \in 1..Len(r), NEW j \in 1..Len(r), i < j PROVE tc[r[i]] <= tc[r[j]]
      BY DEF Sorted
    <2>1. i+1 < j+1
      BY <1>1, <1>3
    <2> QED BY <1>3, <2>1 DEF Sorted
  <1> QED BY <1>2, <1>4, <1>5, <1>6, <1>7 DEF r

\* Inserting task x, which waits for v, between those that wait for less and
\* those that wait for more.
LEMMA InsertKeeps ==
  ASSUME NEW l \in Seq(Task), NEW tc \in [Task -> Nat], Sorted(l, tc), Distinct(l),
         NEW x \in Task, x \notin On(l), NEW v \in Nat, NEW k \in 1..(Len(l) + 1),
         \A i \in 1..Len(l) : i < k => tc[l[i]] <= v,
         \A i \in 1..Len(l) : i >= k => v <= tc[l[i]]
  PROVE  /\ InsertAt(l, k, x) \in Seq(Task)
         /\ On(InsertAt(l, k, x)) = On(l) \cup {x}
         /\ Distinct(InsertAt(l, k, x))
         /\ Sorted(InsertAt(l, k, x), [tc EXCEPT ![x] = v])
PROOF
  <1> DEFINE r == InsertAt(l, k, x)
             td == [tc EXCEPT ![x] = v]
  <1>1. Len(l) \in Nat /\ \A i \in 1..Len(l) : l[i] \in Task
    BY LenProperties, ElementOfSeq
  <1>2. /\ r \in Seq(Task) /\ Len(r) = Len(l) + 1
        /\ \A i \in 1..(Len(l) + 1) : r[i] = IF i < k THEN l[i] ELSE IF i = k THEN x ELSE l[i-1]
    BY InsertAtProperties
  <1>3. td[x] = v /\ \A t \in Task : t # x => td[t] = tc[t]
    OBVIOUS
  <1> HIDE DEF r, td
  <1>4. ASSUME NEW i \in 1..Len(r), i < k
        PROVE  /\ i \in 1..Len(l) /\ r[i] = l[i] /\ l[i] # x
               /\ td[r[i]] = tc[l[i]] /\ tc[l[i]] \in Nat /\ tc[l[i]] <= v
    <2>1. i \in 1..Len(l) /\ i \in 1..(Len(l) + 1) /\ i < k
      BY <1>1, <1>2, <1>4
    <2>2. r[i] = l[i]
      BY <1>2, <2>1
    <2> QED BY <1>1, <1>3, <1>4, <2>1, <2>2 DEF On
  <1>5. k \in 1..Len(r) /\ r[k] = x /\ td[r[k]] = v
    BY <1>1, <1>2, <1>3
  <1>6. ASSUME NEW i \in 1..Len(r), i > k
        PROVE  /\ i-1 \in 1..Len(l) /\ r[i] = l[i-1] /\ l[i-1] # x
               /\ td[r[i]] = tc[l[i-1]] /\ tc[l[i-1]] \in Nat /\ v <= tc[l[i-1]]
    <2>1. i-1 \in 1..Len(l) /\ i-1 >= k /\ ~(i < k) /\ i # k /\ i \in 1..(Len(l) + 1)
      BY <1>1, <1>2, <1>6
    <2>2. r[i] = l[i-1]
      BY <1>2, <2>1
    <2> QED BY <1>1, <1>3, <1>6, <2>1, <2>2 DEF On
  <1>7. On(r) = On(l) \cup {x}
    <2>1. ASSUME NEW i \in 1..Len(r) PROVE r[i] \in On(l) \cup {x}
      <3>1. CASE i < k
        BY <1>4, <3>1 DEF On
      <3>2. CASE i > k
        BY <1>6, <3>2 DEF On
      <3> QED BY <1>5, <3>1, <3>2
    <2>2. ASSUME NEW i \in 1..Len(l) PROVE l[i] \in On(r)
      <3>1. CASE i < k
        <4>1. i \in 1..(Len(l) + 1) /\ i \in 1..Len(r)
          BY <1>1, <1>2
        <4>2. r[i] = l[i]
          BY <1>2, <3>1, <4>1
        <4> QED BY <4>1, <4>2 DEF On
      <3>2. CASE i >= k
        <4>1. i+1 \in 1..Len(r) /\ i+1 > k /\ (i+1)-1 = i
          BY <1>1, <1>2, <3>2
        <4>2. r[i+1] = l[i]
          BY <1>6, <4>1
        <4> QED BY <4>1, <4>2 DEF On
      <3> QED BY <3>1, <3>2
    <2>3. x \in On(r)
      BY <1>5 DEF On
    <2>4. On(r) \subseteq On(l) \cup {x}
      BY <2>1 DEF On
    <2>5. On(l) \subseteq On(r)
      BY <2>2 DEF On
    <2> QED BY <2>3, <2>4, <2>5
  <1>8. Distinct(r)
    <2> SUFFICES \A i, j \in 1..Len(r) : i < j => r[i] # r[j]
      <3>1. \A i, j \in 1..Len(r) : i = j \/ i < j \/ j < i
        BY <1>1, <1>2
      <3> QED BY <3>1 DEF Distinct
    <2> TAKE i, j \in 1..Len(r)
    <2> HAVE i < j
    <2>1. CASE j <= k
      <3>1. i < k /\ r[i] = l[i] /\ l[i] # x /\ i \in 1..Len(l)
        BY <1>4, <2>1
      <3>2. CASE j = k
        BY <1>5, <3>1, <3>2
      <3>3. CASE j < k
        <4>1. r[j] = l[j] /\ j \in 1..Len(l)
          BY <1>4, <3>3
        <4> QED BY <3>1, <4>1 DEF Distinct
      <3> QED BY <2>1, <3>2, <3>3
    <2>2. CASE j > k
      <3>1. r[j] = l[j-1] /\ l[j-1] # x /\ j-1 \in 1..Len(l)
        BY <1>6, <2>2
      <3>2. CASE i < k
        <4>1. r[i] = l[i] /\ i \in 1..Len(l) /\ i # j-1
          BY <1>4, <2>2, <3>2
        <4> QED BY <3>1, <4>1 DEF Distinct
      <3>3. CASE i = k
        BY <1>5, <3>1, <3>3
      <3>4. CASE i > k
        <4>1. r[i] = l[i-1] /\ i-1 \in 1..Len(l) /\ i-1 # j-1
          BY <1>6, <3>4
        <4> QED BY <3>1, <4>1 DEF Distinct
      <3> QED BY <3>2, <3>3, <3>4
    <2> QED BY <2>1, <2>2
  <1>9. Sorted(r, td)
    <2> SUFFICES ASSUME NEW i \in 1..Len(r), NEW j \in 1..Len(r), i < j PROVE td[r[i]] <= td[r[j]]
      BY DEF Sorted
    <2>1. CASE j < k
      <3>1. i < k
        BY <2>1
      <3>2. /\ i \in 1..Len(l) /\ td[r[i]] = tc[l[i]]
            /\ j \in 1..Len(l) /\ td[r[j]] = tc[l[j]]
        BY <1>4, <2>1, <3>1
      <3> QED BY <3>2 DEF Sorted
    <2>2. CASE j = k
      <3>1. td[r[i]] <= v
        BY <1>4, <2>2
      <3> QED BY <1>5, <2>2, <3>1
    <2>3. CASE j > k
      <3>1. /\ j-1 \in 1..Len(l) /\ td[r[j]] = tc[l[j-1]]
            /\ tc[l[j-1]] \in Nat /\ v <= tc[l[j-1]]
        BY <1>6, <2>3
      <3>2. CASE i < k
        <4>1. td[r[i]] \in Nat /\ td[r[i]] <= v
          BY <1>4, <3>2
        <4>2. td[r[j]] \in Nat /\ v <= td[r[j]]
          BY <3>1
        <4> QED BY <4>1, <4>2
      <3>3. CASE i = k
        BY <1>5, <3>1, <3>3
      <3>4. CASE i > k
        <4>1. i-1 \in 1..Len(l) /\ td[r[i]] = tc[l[i-1]]
          BY <1>6, <3>4
        <4>2. i-1 < j-1
          BY <1>1, <1>2
        <4> QED BY <3>1, <4>1, <4>2 DEF Sorted
      <3> QED BY <3>2, <3>3, <3>4
    <2> QED BY <2>1, <2>2, <2>3
  <1> QED BY <1>2, <1>7, <1>8, <1>9 DEF r, td

\* Taking away the task at place k.
LEMMA RemoveKeeps ==
  ASSUME NEW l \in Seq(Task), NEW tc \in [Task -> Nat], Sorted(l, tc), Distinct(l),
         NEW k \in 1..Len(l)
  PROVE  /\ RemoveAt(l, k) \in Seq(Task)
         /\ Len(RemoveAt(l, k)) = Len(l) - 1
         /\ On(RemoveAt(l, k)) = On(l) \ {l[k]}
         /\ Distinct(RemoveAt(l, k))
         /\ Sorted(RemoveAt(l, k), tc)
PROOF
  <1> DEFINE r == RemoveAt(l, k)
             at(i) == IF i < k THEN i ELSE i+1
  <1>1. Len(l) \in Nat
    BY LenProperties
  <1>2. /\ r \in Seq(Task) /\ Len(r) = Len(l) - 1
        /\ \A i \in 1..(Len(l) - 1) : r[i] = IF i < k THEN l[i] ELSE l[i+1]
    BY RemoveAtProperties
  <1> HIDE DEF r
  <1>3. \A i \in 1..Len(r) : at(i) \in 1..Len(l) /\ at(i) # k /\ r[i] = l[at(i)]
    <2> TAKE i \in 1..Len(r)
    <2>1. i \in 1..(Len(l) - 1)
      BY <1>2
    <2>2. CASE i < k
      <3>1. at(i) = i /\ i \in 1..Len(l) /\ i # k
        BY <1>1, <2>1, <2>2
      <3>2. r[i] = l[i]
        BY <1>2, <2>1, <2>2
      <3> HIDE DEF at
      <3> QED BY <3>1, <3>2
    <2>3. CASE ~(i < k)
      <3>1. at(i) = i+1 /\ i+1 \in 1..Len(l) /\ i+1 # k
        BY <1>1, <2>1, <2>3
      <3>2. r[i] = l[i+1]
        BY <1>2, <2>1, <2>3
      <3> HIDE DEF at
      <3> QED BY <3>1, <3>2
    <2> QED BY <2>2, <2>3
  <1>4. \A i, j \in 1..Len(r) : (i < j => at(i) < at(j)) /\ (at(i) = at(j) => i = j)
    <2>1. k \in Nat /\ Len(r) \in Nat
      BY <1>1, <1>2
    <2> QED BY <2>1
  <1>5. \A i \in 1..Len(l) : i # k => \E j \in 1..Len(r) : at(j) = i
    <2> SUFFICES ASSUME NEW i \in 1..Len(l), i # k PROVE \E j \in 1..Len(r) : at(j) = i
      OBVIOUS
    <2>1. CASE i < k
      <3>1. i \in 1..Len(r) /\ at(i) = i
        BY <1>1, <1>2, <2>1
      <3> QED BY <3>1
    <2>2. CASE i > k
      <3>1. i-1 \in 1..Len(r) /\ at(i-1) = i
        BY <1>1, <1>2, <2>2
      <3> QED BY <3>1
    <2> QED BY <1>1, <2>1, <2>2
  <1> HIDE DEF at
  <1>6. On(r) = On(l) \ {l[k]}
    <2>1. On(r) \subseteq On(l) \ {l[k]}
      <3>1. \A i \in 1..Len(r) : r[i] \in On(l) /\ r[i] # l[k]
        BY <1>3 DEF On, Distinct
      <3> QED BY <3>1 DEF On
    <2>2. ASSUME NEW i \in 1..Len(l), l[i] # l[k] PROVE l[i] \in On(r)
      <3>1. PICK j \in 1..Len(r) : at(j) = i
        BY <1>5, <2>2
      <3> QED BY <1>3, <3>1 DEF On
    <2> QED BY <2>1, <2>2 DEF On
  <1>7. Distinct(r)
    BY <1>3, <1>4 DEF Distinct
  <1>8. Sorted(r, tc)
    <2> SUFFICES ASSUME NEW i \in 1..Len(r), NEW j \in 1..Len(r), i < j PROVE tc[r[i]] <= tc[r[j]]
      BY DEF Sorted
    <2>1. at(i) < at(j) /\ at(i) \in 1..Len(l) /\ at(j) \in 1..Len(l)
      BY <1>3, <1>4
    <2> QED BY <1>3, <2>1 DEF Sorted
  <1> QED BY <1>2, <1>6, <1>7, <1>8 DEF r

\* Cutting a list behind its first k tasks.
LEMMA CutKeeps ==
  ASSUME NEW l \in Seq(Task), NEW tc \in [Task -> Nat], Sorted(l, tc), Distinct(l),
         NEW k \in 0..Len(l)
  PROVE  LET p == SubSeq(l, 1, k)
             q == SubSeq(l, k+1, Len(l))
         IN /\ p \in Seq(Task) /\ q \in Seq(Task)
            /\ On(p) = {l[i] : i \in 1..k}
            /\ On(q) = {l[i] : i \in (k+1)..Len(l)}
            /\ On(p) \cup On(q) = On(l) /\ On(p) \cap On(q) = {}
            /\ Distinct(p) /\ Distinct(q) /\ Sorted(q, tc)
PROOF
  <1> DEFINE p == SubSeq(l, 1, k)
             q == SubSeq(l, k+1, Len(l))
  <1>1. Len(l) \in Nat
    BY LenProperties
  <1>2. /\ p \in Seq(Task) /\ Len(p) = k /\ \A i \in 1..k : p[i] = l[i]
        /\ q \in Seq(Task) /\ Len(q) = Len(l) - k
        /\ \A i \in 1..(Len(l) - k) : q[i] = l[k+i]
    BY Pieces
  <1> HIDE DEF p, q
  <1>3. On(p) = {l[i] : i \in 1..k}
    BY <1>2 DEF On
  <1>4. On(q) = {l[i] : i \in (k+1)..Len(l)}
    <2>1. ASSUME NEW i \in 1..Len(q) PROVE k+i \in (k+1)..Len(l) /\ q[i] = l[k+i]
      BY <1>1, <1>2
    <2>2. ASSUME NEW i \in (k+1)..Len(l) PROVE i-k \in 1..Len(q) /\ q[i-k] = l[i]
      <3>1. i-k \in 1..(Len(l) - k) /\ k+(i-k) = i
        BY <1>1
      <3> QED BY <1>2, <3>1
    <2>3. On(q) \subseteq {l[i] : i \in (k+1)..Len(l)}
      BY <2>1 DEF On
    <2>4. {l[i] : i \in (k+1)..Len(l)} \subseteq On(q)
      BY <2>2 DEF On
    <2> QED BY <2>3, <2>4
  <1>5. /\ 1..k \subseteq 1..Len(l) /\ (k+1)..Len(l) \subseteq 1..Len(l)
        /\ \A i \in 1..Len(l) : i \in 1..k \/ i \in (k+1)..Len(l)
        /\ \A i \in 1..k, j \in (k+1)..Len(l) : i # j
    BY <1>1
  <1>6. On(p) \cup On(q) = On(l)
    BY <1>3, <1>4, <1>5 DEF On
  <1>7. On(p) \cap On(q) = {}
    BY <1>3, <1>4, <1>5 DEF Distinct
  <1>8. Distinct(p)
    <2> SUFFICES ASSUME NEW i \in 1..Len(p), NEW j \in 1..Len(p), p[i] = p[j] PROVE i = j
      BY DEF Distinct
    <2>1. i \in 1..Len(l) /\ j \in 1..Len(l) /\ l[i] = l[j]
      BY <1>2, <1>5
    <2> QED BY <2>1 DEF Distinct
  <1>9. \A i \in 1..Len(q) : k+i \in 1..Len(l) /\ q[i] = l[k+i]
    BY <1>1, <1>2
  <1>10. Distinct(q)
    <2> SUFFICES ASSUME NEW i \in 1..Len(q), NEW j \in 1..Len(q), q[i] = q[j] PROVE i = j
      BY DEF Distinct
    <2>1. k+i = k+j
      BY <1>9 DEF Distinct
    <2> QED BY <1>1, <1>2, <2>1
  <1>11. Sorted(q, tc)
    <2> SUFFICES ASSUME NEW i \in 1..Len(q), NEW j \in 1..Len(q), i < j PROVE tc[q[i]] <= tc[q[j]]
      BY DEF Sorted
    <2>1. k+i < k+j
      BY <1>1, <1>2
    <2> QED BY <1>9, <2>1 DEF Sorted
  <1> QED BY <1>2, <1>3, <1>4, <1>6, <1>7, <1>8, <1>10, <1>11 DEF p, q

\* Putting tasks that wait for n in front of a list of tasks that wait for as
\* much or more.
LEMMA JoinKeeps ==
  ASSUME NEW p \in Seq(Task), NEW q \in Seq(Task), NEW tc \in [Task -> Nat], NEW n \in Nat,
         Distinct(p), Distinct(q), On(p) \cap On(q) = {}, Sorted(q, tc),
         \A t \in On(p) : tc[t] = n, \A t \in On(q) : tc[t] >= n
  PROVE  /\ p \o q \in Seq(Task)
         /\ On(p \o q) = On(p) \cup On(q)
         /\ Distinct(p \o q)
         /\ Sorted(p \o q, tc)
PROOF
  <1> DEFINE r == p \o q
  <1>1. Len(p) \in Nat /\ Len(q) \in Nat
    BY LenProperties
  <1>2. /\ r \in Seq(Task) /\ Len(r) = Len(p) + Len(q)
        /\ \A i \in 1..(Len(p) + Len(q)) : r[i] = IF i <= Len(p) THEN p[i] ELSE q[i - Len(p)]
    BY ConcatProperties
  <1> HIDE DEF r
  <1>3. ASSUME NEW i \in 1..Len(r), i <= Len(p)
        PROVE  i \in 1..Len(p) /\ r[i] = p[i] /\ r[i] \in On(p)
    <2>1. i \in 1..Len(p) /\ r[i] = p[i]
      BY <1>1, <1>2, <1>3
    <2> QED BY <2>1 DEF On
  <1>4. ASSUME NEW i \in 1..Len(r), ~(i <= Len(p))
        PROVE  i - Len(p) \in 1..Len(q) /\ r[i] = q[i - Len(p)] /\ r[i] \in On(q)
    <2>1. i - Len(p) \in 1..Len(q) /\ r[i] = q[i - Len(p)]
      BY <1>1, <1>2, <1>4
    <2> QED BY <2>1 DEF On
  <1>5. On(r) = On(p) \cup On(q)
    <2>1. On(r) \subseteq On(p) \cup On(q)
      BY <1>3, <1>4 DEF On
    <2>2. ASSUME NEW i \in 1..Len(p) PROVE i \in 1..Len(r) /\ r[i] = p[i]
      BY <1>1, <1>2
    <2>3. ASSUME NEW i \in 1..Len(q) PROVE Len(p)+i \in 1..Len(r) /\ r[Len(p)+i] = q[i]
      <3>1. Len(p)+i \in 1..Len(r) /\ ~(Len(p)+i <= Len(p)) /\ (Len(p)+i) - Len(p) = i
        BY <1>1, <1>2
      <3> QED BY <1>4, <3>1
    <2>4. On(p) \subseteq On(r)
      BY <2>2 DEF On
    <2>5. On(q) \subseteq On(r)
      BY <2>3 DEF On
    <2> QED BY <2>1, <2>4, <2>5
  <1>6. Distinct(r)
    <2> SUFFICES ASSUME NEW i \in 1..Len(r), NEW j \in 1..Len(r), r[i] = r[j] PROVE i = j
      BY DEF Distinct
    <2>1. CASE i <= Len(p) /\ j <= Len(p)
      BY <1>3, <2>1 DEF Distinct
    <2>2. CASE ~(i <= Len(p)) /\ ~(j <= Len(p))
      <3>1. i - Len(p) = j - Len(p)
        BY <1>4, <2>2 DEF Distinct
      <3> QED BY <1>1, <1>2, <3>1
    <2>3. CASE i <= Len(p) /\ ~(j <= Len(p))
      <3>1. r[i] \in On(p) /\ r[j] \in On(q)
        BY <1>3, <1>4, <2>3
      <3> QED BY <3>1
    <2>4. CASE ~(i <= Len(p)) /\ j <= Len(p)
      <3>1. r[j] \in On(p) /\ r[i] \in On(q)
        BY <1>3, <1>4, <2>4
      <3> QED BY <3>1
    <2> QED BY <2>1, <2>2, <2>3, <2>4
  <1>7. Sorted(r, tc)
    <2> SUFFICES ASSUME NEW i \in 1..Len(r), NEW j \in 1..Len(r), i < j PROVE tc[r[i]] <= tc[r[j]]
      BY DEF Sorted
    <2>1. CASE i <= Len(p)
      <3>1. tc[r[i]] = n
        BY <1>3, <2>1
      <3>2. tc[r[j]] >= n
        BY <1>3, <1>4
      <3> QED BY <3>1, <3>2
    <2>2. CASE ~(i <= Len(p))
      <3>1. ~(j <= Len(p)) /\ i - Len(p) < j - Len(p)
        BY <1>1, <1>2, <2>2
      <3>2. /\ i - Len(p) \in 1..Len(q) /\ r[i] = q[i - Len(p)]
            /\ j - Len(p) \in 1..Len(q) /\ r[j] = q[j - Len(p)]
        BY <1>4, <2>2, <3>1
      <3> QED BY <3>1, <3>2 DEF Sorted
    <2> QED BY <2>1, <2>2
  <1> QED BY <1>2, <1>5, <1>6, <1>7 DEF r

(***************************************************************************)
(* The lists of the kernel                                                 *)
(***************************************************************************)

\* The tasks waiting are on the lists, each on one and once, in order, and for
\* values that have not been reached.
Queued(lists, tc, waiting, cnt) ==
  /\ \A c \in Clock : /\ Sorted(lists[c], tc)
                      /\ Distinct(lists[c])
                      /\ On(lists[c]) \subseteq waiting
  /\ \A c, d \in Clock : c # d => On(lists[c]) \cap On(lists[d]) = {}
  /\ \A t \in waiting : \E c \in Clock : t \in On(lists[c])
  /\ \A c \in EC : \A t \in On(lists[c]) : tc[t] > cnt[c]
  /\ \A t \in On(lists[Etime]) : tc[t] >= cnt[Etime]

\* The hint is on the time list.
HintOn(lists, h) == h # NoTask => h \in On(lists[Etime])

\* The inductive invariant.
IInv ==
  /\ TypeOK
  /\ Queued(tasklist, tcount, live \ {curtask}, count)
  /\ HintOn(tasklist, hint)
  /\ sim = "running" => curtask \in live

LEMMA DispatchKeeps ==
  ASSUME TypeOK,
         NEW lists \in [Clock -> Seq(Task)], NEW counts \in [Task -> Nat],
         NEW h \in Task \cup {NoTask}, NEW waiting \in SUBSET Task,
         Queued(lists, counts, waiting, count), HintOn(lists, h),
         Dispatch(lists, counts, h)
  PROVE  /\ Queued(tasklist', counts, waiting \ {curtask'}, count')
         /\ HintOn(tasklist', hint')
         /\ sim' = "running" => curtask' \in waiting
PROOF
  <1>1. CASE lists[Etime] = << >>
    <2>1. waiting \ {curtask'} = waiting
      BY <1>1, TaskingAssumption DEF Dispatch
    <2>2. tasklist' = lists /\ hint' = h /\ count' = count /\ sim' = "exit"
      BY <1>1 DEF Dispatch
    <2> QED BY <2>1, <2>2
  <1>2. CASE lists[Etime] # << >>
    <2> DEFINE l == lists[Etime]
               next == Head(l)
    <2>1. Etime \in Clock /\ l \in Seq(Task) /\ l # << >> /\ EC = Clock \ {Etime}
      BY <1>2, TaskingAssumption DEF Clock
    <2>2. Sorted(l, counts) /\ Distinct(l) /\ On(l) \subseteq waiting
      BY <2>1 DEF Queued
    <2>3. /\ next \in On(l) /\ next \in waiting
          /\ \A t \in On(l) : counts[next] <= counts[t]
      BY <2>1, <2>2, HeadIsLeast
    <2>4. /\ Tail(l) \in Seq(Task) /\ On(Tail(l)) = On(l) \ {next}
          /\ Distinct(Tail(l)) /\ Sorted(Tail(l), counts)
      BY <2>1, <2>2, TailKeeps
    <2>5. /\ curtask' = next
          /\ tasklist' = [lists EXCEPT ![Etime] = Tail(l)]
          /\ count' = [count EXCEPT ![Etime] = counts[next]]
          /\ hint' = IF h = next THEN NoTask ELSE h
      BY <1>2 DEF Dispatch
    <2> HIDE DEF l, next
    <2>6. /\ tasklist'[Etime] = Tail(l) /\ count'[Etime] = counts[next]
          /\ \A c \in EC : tasklist'[c] = lists[c] /\ count'[c] = count[c]
      BY <2>1, <2>5 DEF TypeOK
    <2>7. \A c \in EC : On(lists[c]) \cap On(l) = {}
      BY <2>1 DEF Queued, l
    <2>8. ASSUME NEW c \in Clock
          PROVE  /\ Sorted(tasklist'[c], counts) /\ Distinct(tasklist'[c])
                 /\ On(tasklist'[c]) \subseteq waiting \ {next}
      <3>1. CASE c = Etime
        BY <3>1, <2>2, <2>4, <2>6
      <3>2. CASE c \in EC
        BY <3>2, <2>3, <2>6, <2>7 DEF Queued
      <3> QED BY <3>1, <3>2, <2>1
    <2>9. ASSUME NEW c \in Clock, NEW d \in Clock, c # d
          PROVE  On(tasklist'[c]) \cap On(tasklist'[d]) = {}
      <3>1. On(tasklist'[c]) \subseteq On(lists[c]) /\ On(tasklist'[d]) \subseteq On(lists[d])
        BY <2>1, <2>4, <2>6 DEF l
      <3>2. On(lists[c]) \cap On(lists[d]) = {}
        BY <2>9 DEF Queued
      <3> QED BY <3>1, <3>2
    <2>10. ASSUME NEW t \in waiting \ {next} PROVE \E c \in Clock : t \in On(tasklist'[c])
      <3>1. PICK c \in Clock : t \in On(lists[c])
        BY DEF Queued
      <3>2. t \in On(tasklist'[c])
        BY <3>1, <2>1, <2>4, <2>6 DEF l
      <3> QED BY <3>2
    <2>11. \A c \in EC : \A t \in On(tasklist'[c]) : counts[t] > count'[c]
      BY <2>6 DEF Queued
    <2>12. \A t \in On(tasklist'[Etime]) : counts[t] >= count'[Etime]
      <3>1. counts[next] \in Nat /\ \A t \in On(l) : counts[t] \in Nat
        BY <2>2, <2>3
      <3> QED BY <3>1, <2>3, <2>4, <2>6
    <2>13. HintOn(tasklist', hint')
      BY <2>4, <2>5, <2>6 DEF HintOn, l
    <2> QED BY <2>3, <2>5, <2>8, <2>9, <2>10, <2>11, <2>12, <2>13 DEF Queued
  <1> QED BY <1>1, <1>2

\* Where the scan of find_next_task() stops, those in front wait for no more
\* and those behind for more than v; the hint saves it only tasks that wait
\* for no more.
LEMMA ScanFindsPlace ==
  ASSUME IInv, NEW c \in Clock, NEW v \in Nat, NEW k \in 0..Len(tasklist[c]),
         QueuedBehind(c, v, k)
  PROVE  /\ \A i \in 1..Len(tasklist[c]) : i < k+1 => tcount[tasklist[c][i]] <= v
         /\ \A i \in 1..Len(tasklist[c]) : i >= k+1 => v <= tcount[tasklist[c][i]]
PROOF
  <1> DEFINE l == tasklist[c]
             tc(i) == tcount[l[i]]
  <1>1. /\ l \in Seq(Task) /\ Len(l) \in Nat
        /\ \A i \in 1..Len(l) : l[i] \in Task /\ tc(i) \in Nat
    <2>1. l \in Seq(Task)
      BY DEF IInv, TypeOK
    <2> QED BY <2>1, LenProperties, ElementOfSeq DEF IInv, TypeOK
  <1>2. \A i, j \in 1..Len(l) : i < j => tc(i) <= tc(j)
    BY DEF IInv, Queued, Sorted
  <1>3. CASE l = << >>
    BY <1>3, <1>1, EmptySeq
  <1>4. CASE l # << >> /\ v < tcount[Head(l)]
    <2>1. k = 0
      BY <1>4 DEF QueuedBehind
    <2>2. Len(l) # 0 /\ Head(l) = l[1] /\ 1 \in 1..Len(l)
      BY <1>1, <1>4, EmptySeq, HeadTailProperties
    <2>3. \A i \in 1..Len(l) : tc(1) <= tc(i)
      <3> TAKE i \in 1..Len(l)
      <3>1. i = 1 \/ 1 < i
        BY <1>1
      <3> QED BY <3>1, <1>1, <1>2, <2>2
    <2> HIDE DEF tc
    <2>4. v < tc(1)
      BY <1>4, <2>2 DEF tc
    <2>5. \A i \in 1..Len(l) : v <= tc(i)
      BY <2>2, <2>3, <2>4, <1>1
    <2> QED BY <2>1, <2>5 DEF tc
  <1>5. CASE l # << >> /\ ~(v < tcount[Head(l)])
    <2>1. PICK s \in 1..Len(l) :
            /\ IF c = Etime /\ hint # NoTask /\ v >= tcount[hint] THEN l[s] = hint ELSE s = 1
            /\ k \in s..Len(l)
            /\ \A i \in (s+1)..k : v >= tc(i)
            /\ k < Len(l) => v < tc(k+1)
      BY <1>5 DEF QueuedBehind
    <2>2. tc(s) <= v
      <3>1. CASE s = 1
        <4>1. Head(l) = l[1] /\ tc(1) \in Nat
          BY <1>1, <1>5, <2>1, <3>1, HeadTailProperties
        <4> QED BY <3>1, <4>1, <1>5
      <3>2. CASE v >= tcount[hint] /\ l[s] = hint
        <4>1. tc(s) \in Nat
          BY <1>1
        <4> QED BY <3>2, <4>1
      <3> QED BY <2>1, <3>1, <3>2
    <2> HIDE DEF tc
    <2>3. ASSUME NEW i \in 1..Len(l), i < k+1 PROVE tc(i) <= v
      <3>1. CASE i <= s
        <4>1. tc(i) <= tc(s)
          <5>1. i = s \/ i < s
            BY <1>1, <3>1
          <5> QED BY <5>1, <1>1, <1>2
        <4> QED BY <4>1, <2>2, <1>1
      <3>2. CASE i > s
        <4>1. i \in (s+1)..k
          BY <1>1, <2>1, <2>3, <3>2
        <4> QED BY <4>1, <2>1, <1>1
      <3> QED BY <1>1, <3>1, <3>2
    <2>4. ASSUME NEW i \in 1..Len(l), i >= k+1 PROVE v <= tc(i)
      <3>1. k+1 \in 1..Len(l) /\ k < Len(l)
        BY <1>1, <2>1, <2>4
      <3>2. tc(k+1) <= tc(i)
        <4>1. i = k+1 \/ k+1 < i
          BY <1>1, <2>4
        <4> QED BY <3>1, <4>1, <1>1, <1>2
      <3>3. v < tc(k+1) /\ tc(k+1) \in Nat /\ tc(i) \in Nat
        BY <1>1, <2>1, <3>1
      <3> QED BY <3>2, <3>3
    <2> QED BY <2>3, <2>4 DEF tc
  <1> QED BY <1>3, <1>4, <1>5

\* await(): the running task goes to its place on a list before the first one of
\* the time list is taken from there.
LEMMA AwaitQueues ==
  ASSUME IInv, curtask \in live, NEW c \in Clock, NEW v \in Nat, await(c, v)
  PROVE  /\ tcount' \in [Task -> Nat]
         /\ tcount'[curtask] = v /\ \A t \in Task : t # curtask => tcount'[t] = tcount[t]
         /\ \E lists \in [Clock -> Seq(Task)], h \in Task \cup {NoTask} :
              /\ Dispatch(lists, tcount', h)
              /\ On(lists[c]) = On(tasklist[c]) \cup {curtask}
              /\ \A d \in Clock : d # c => lists[d] = tasklist[d]
              /\ Queued(lists, tcount', live, count)
              /\ HintOn(lists, h)
PROOF
  <1>1. PICK k \in 0..Len(tasklist[c]) :
          /\ QueuedBehind(c, v, k)
          /\ tcount' = [tcount EXCEPT ![curtask] = v]
          /\ Dispatch([tasklist EXCEPT ![c] = InsertAt(@, k+1, curtask)], tcount',
                      IF c = Etime /\ k > 0 THEN curtask ELSE hint)
    BY DEF await, find_next_task
  <1> DEFINE l == tasklist[c]
             r == InsertAt(l, k+1, curtask)
             lists == [tasklist EXCEPT ![c] = r]
             h == IF c = Etime /\ k > 0 THEN curtask ELSE hint
  <1>2. /\ TypeOK /\ curtask \in Task /\ l \in Seq(Task) /\ Len(l) \in Nat
        /\ k+1 \in 1..(Len(l) + 1)
        /\ live' = live /\ count[c] < v
        /\ Etime \in Clock /\ EC \subseteq Clock
    <2>1. l \in Seq(Task) /\ TypeOK /\ curtask \in Task
      BY DEF IInv, TypeOK
    <2> QED BY <2>1, LenProperties DEF await, Clock
  <1>3. tcount' \in [Task -> Nat] /\ tcount'[curtask] = v /\ \A t \in Task : t # curtask => tcount'[t] = tcount[t]
    BY <1>1, <1>2 DEF TypeOK
  <1>4. \A d \in Clock : On(tasklist[d]) \subseteq live \ {curtask}
    BY DEF IInv, Queued
  <1>5. /\ r \in Seq(Task) /\ On(r) = On(l) \cup {curtask}
        /\ Distinct(r) /\ Sorted(r, tcount')
    <2>1. Sorted(l, tcount) /\ Distinct(l) /\ curtask \notin On(l)
      BY <1>4 DEF IInv, Queued
    <2>2. /\ \A i \in 1..Len(l) : i < k+1 => tcount[l[i]] <= v
          /\ \A i \in 1..Len(l) : i >= k+1 => v <= tcount[l[i]]
      BY <1>1, ScanFindsPlace
    <2>3. tcount \in [Task -> Nat]
      BY <1>2 DEF TypeOK
    <2> DEFINE m == k+1
               td == [tcount EXCEPT ![curtask] = v]
    <2>4. /\ m \in 1..(Len(l) + 1)
          /\ \A i \in 1..Len(l) : i < m => tcount[l[i]] <= v
          /\ \A i \in 1..Len(l) : i >= m => v <= tcount[l[i]]
      BY <1>2, <2>2
    <2> HIDE DEF l, m
    <2>5. /\ InsertAt(l, m, curtask) \in Seq(Task)
          /\ On(InsertAt(l, m, curtask)) = On(l) \cup {curtask}
          /\ Distinct(InsertAt(l, m, curtask))
          /\ Sorted(InsertAt(l, m, curtask), td)
      BY <1>2, <2>1, <2>3, <2>4, InsertKeeps
    <2> QED BY <1>1, <2>5 DEF m
  <1>6. lists \in [Clock -> Seq(Task)]
    BY <1>2, <1>5 DEF TypeOK
  <1>7. lists[c] = r /\ \A d \in Clock : d # c => lists[d] = tasklist[d]
    BY <1>2 DEF TypeOK
  <1>8. h \in Task \cup {NoTask}
    BY <1>2 DEF TypeOK
  <1>9. HintOn(lists, h)
    <2>1. CASE c = Etime /\ k > 0
      BY <1>5, <1>7, <2>1 DEF HintOn
    <2>2. CASE ~(c = Etime /\ k > 0)
      <3>1. HintOn(tasklist, hint)
        BY DEF IInv
      <3>2. On(tasklist[Etime]) \subseteq On(lists[Etime])
        BY <1>2, <1>5, <1>7
      <3> HIDE DEF lists
      <3> QED BY <2>2, <3>1, <3>2 DEF HintOn
    <2> QED BY <2>1, <2>2
  <1>10. Dispatch(lists, tcount', h)
    BY <1>1
  <1> HIDE DEF lists, r, h
  <1>11. Queued(lists, tcount', live, count)
    <2>1. ASSUME NEW d \in Clock
          PROVE  Sorted(lists[d], tcount') /\ Distinct(lists[d]) /\ On(lists[d]) \subseteq live
      <3>1. CASE d = c
        BY <1>4, <1>5, <1>7, <3>1
      <3>2. CASE d # c
        <4>1. lists[d] = tasklist[d] /\ tasklist[d] \in Seq(Task)
          BY <1>2, <1>7, <3>2 DEF TypeOK
        <4>2. Sorted(tasklist[d], tcount) /\ Distinct(tasklist[d])
          BY DEF IInv, Queued
        <4>3. \A t \in On(tasklist[d]) : tcount'[t] = tcount[t]
          BY <1>2, <1>3, <1>4 DEF TypeOK
        <4>4. Sorted(tasklist[d], tcount')
          BY <1>2, <1>3, <4>1, <4>2, <4>3, SortedByOwn DEF TypeOK
        <4> QED BY <1>4, <4>1, <4>2, <4>4
      <3> QED BY <3>1, <3>2
    <2>2. ASSUME NEW d \in Clock, NEW e \in Clock, d # e
          PROVE  On(lists[d]) \cap On(lists[e]) = {}
      <3>1. On(tasklist[d]) \cap On(tasklist[e]) = {}
        BY <2>2 DEF IInv, Queued
      <3> QED BY <1>4, <1>5, <1>7, <2>2, <3>1
    <2>3. ASSUME NEW t \in live PROVE \E d \in Clock : t \in On(lists[d])
      <3>1. CASE t = curtask
        BY <1>5, <1>7, <3>1
      <3>2. CASE t # curtask
        <4>1. PICK d \in Clock : t \in On(tasklist[d])
          BY <3>2 DEF IInv, Queued
        <4>2. t \in On(lists[d])
          BY <1>5, <1>7, <4>1
        <4> QED BY <4>2
      <3> QED BY <3>1, <3>2
    <2>4. ASSUME NEW d \in EC, NEW t \in On(lists[d]) PROVE tcount'[t] > count[d]
      <3>1. CASE t = curtask
        <4>1. d = c
          BY <1>2, <1>4, <1>7, <3>1, <2>4
        <4>2. count[d] \in Nat
          BY <1>2 DEF TypeOK
        <4> QED BY <1>2, <1>3, <3>1, <4>1, <4>2
      <3>2. CASE t # curtask
        <4>1. t \in On(tasklist[d]) /\ t \in Task
          BY <1>2, <1>4, <1>5, <1>7, <2>4, <3>2 DEF TypeOK
        <4>2. tcount[t] > count[d]
          BY <4>1 DEF IInv, Queued
        <4> QED BY <1>3, <3>2, <4>1, <4>2
      <3> QED BY <3>1, <3>2
    <2>5. ASSUME NEW t \in On(lists[Etime]) PROVE tcount'[t] >= count[Etime]
      <3>1. CASE t = curtask
        <4>1. c = Etime
          BY <1>2, <1>4, <1>7, <3>1, <2>5
        <4>2. count[Etime] \in Nat
          BY <1>2 DEF TypeOK
        <4> QED BY <1>2, <1>3, <3>1, <4>1, <4>2
      <3>2. CASE t # curtask
        <4>1. t \in On(tasklist[Etime]) /\ t \in Task
          BY <1>2, <1>4, <1>5, <1>7, <2>5, <3>2 DEF TypeOK
        <4>2. tcount[t] >= count[Etime]
          BY <4>1 DEF IInv, Queued
        <4> QED BY <1>3, <3>2, <4>1, <4>2
      <3> QED BY <3>1, <3>2
    <2> QED BY <2>1, <2>2, <2>3, <2>4, <2>5 DEF Queued
  <1>12. On(lists[c]) = On(l) \cup {curtask}
    BY <1>5, <1>7
  <1> QED BY <1>3, <1>6, <1>7, <1>8, <1>9, <1>10, <1>11, <1>12

\* After it the first task of the time list runs.
LEMMA AwaitKeeps ==
  ASSUME IInv, curtask \in live, NEW c \in Clock, NEW v \in Nat, await(c, v)
  PROVE  /\ Queued(tasklist', tcount', live' \ {curtask'}, count')
         /\ HintOn(tasklist', hint')
         /\ sim' = "running" => curtask' \in live'
PROOF
  <1>1. PICK lists \in [Clock -> Seq(Task)], h \in Task \cup {NoTask} :
          /\ Dispatch(lists, tcount', h)
          /\ Queued(lists, tcount', live, count)
          /\ HintOn(lists, h)
    BY AwaitQueues
  <1>2. tcount' \in [Task -> Nat]
    BY AwaitQueues
  <1>3. TypeOK /\ live \in SUBSET Task /\ live' = live
    BY DEF IInv, TypeOK, await
  <1> QED BY <1>1, <1>2, <1>3, DispatchKeeps

\* The end of a task's function.
LEMMA ReturnKeeps ==
  ASSUME IInv, NEW t, curtask = t, Return(t)
  PROVE  /\ Queued(tasklist', tcount', live' \ {curtask'}, count')
         /\ HintOn(tasklist', hint')
         /\ sim' = "running" => curtask' \in live'
PROOF
  <1>1. /\ TypeOK /\ live \in SUBSET Task
        /\ tasklist \in [Clock -> Seq(Task)] /\ tcount \in [Task -> Nat] /\ hint \in Task \cup {NoTask}
    BY DEF IInv, TypeOK
  <1>2. live' = live \ {curtask} /\ tcount' = tcount /\ Dispatch(tasklist, tcount, hint)
    BY DEF Return
  <1>3. Queued(tasklist, tcount, live', count) /\ HintOn(tasklist, hint) /\ live' \in SUBSET Task
    BY <1>1, <1>2 DEF IInv
  <1> QED BY <1>1, <1>2, <1>3, DispatchKeeps

\* advance(): the tasks released go to the front of the time list, due now;
\* the others on the list of the event count wait for more than its new count.
LEMMA AdvanceKeeps ==
  ASSUME IInv, NEW c \in EC, advance(c)
  PROVE  Queued(tasklist', tcount', live \ {curtask}, count') /\ HintOn(tasklist', hint)
PROOF
  <1> DEFINE l == tasklist[c]
             e == tasklist[Etime]
             n == count[c] + 1
  <1>1. /\ TypeOK /\ c \in Clock /\ Etime \in Clock /\ c # Etime /\ EC = Clock \ {Etime}
        /\ l \in Seq(Task) /\ e \in Seq(Task) /\ Len(l) \in Nat
        /\ \A i \in 1..Len(l) : l[i] \in Task
        /\ count[c] \in Nat /\ now \in Nat /\ n \in Nat
        /\ tcount \in [Task -> Nat]
    <2>1. l \in Seq(Task) /\ e \in Seq(Task) /\ c \in Clock /\ Etime \in Clock /\ TypeOK
      BY DEF IInv, TypeOK, Clock
    <2>2. now \in Nat /\ count[c] \in Nat
      BY <2>1, NowType DEF TypeOK
    <2>3. c # Etime /\ EC = Clock \ {Etime}
      BY TaskingAssumption DEF Clock
    <2>4. Len(l) \in Nat /\ \A i \in 1..Len(l) : l[i] \in Task
      BY <2>1, LenProperties, ElementOfSeq
    <2>5. tcount \in [Task -> Nat] /\ n \in Nat
      BY <2>1, <2>2 DEF TypeOK
    <2> QED BY <2>1, <2>2, <2>3, <2>4, <2>5
  <1>2. /\ Sorted(l, tcount) /\ Distinct(l) /\ Sorted(e, tcount) /\ Distinct(e)
        /\ On(l) \cap On(e) = {}
        /\ \A t \in On(l) : tcount[t] > count[c]
        /\ \A t \in On(e) : tcount[t] >= now
    BY <1>1 DEF IInv, Queued, now
  <1>3. count'[c] = n /\ \A d \in Clock : d # c => count'[d] = count[d]
    BY <1>1 DEF advance, TypeOK
  <1>4. ASSUME l = << >> \/ tcount[Head(l)] > n
        PROVE  \A t \in On(l) : tcount[t] > n
    <2>1. CASE l = << >>
      <3>1. Len(l) = 0
        BY <2>1, EmptySeq
      <3> QED BY <3>1 DEF On
    <2>2. CASE l # << >> /\ tcount[Head(l)] > n
      <3>1. Head(l) \in On(l) /\ \A t \in On(l) : tcount[Head(l)] <= tcount[t]
        BY <1>1, <1>2, <2>2, HeadIsLeast
      <3>2. \A t \in On(l) : tcount[t] \in Nat
        BY <1>1 DEF On
      <3> HIDE DEF l, n
      <3> QED BY <1>1, <2>2, <3>1, <3>2
    <2> QED BY <1>4, <2>1, <2>2
  <1>5. CASE l = << >> \/ tcount[Head(l)] > n
    <2>1. tasklist' = tasklist /\ tcount' = tcount
      BY <1>5 DEF advance
    <2>2. \A d \in EC : \A t \in On(tasklist[d]) : tcount[t] > count'[d]
      BY <1>1, <1>3, <1>4, <1>5 DEF IInv, Queued
    <2>3. count'[Etime] = count[Etime]
      BY <1>1, <1>3
    <2> QED BY <2>1, <2>2, <2>3 DEF IInv, Queued
  <1>6. CASE ~(l = << >> \/ tcount[Head(l)] > n)
    <2>1. PICK k \in 1..Len(l) :
            /\ \A i \in 2..k : tcount[l[i]] = n
            /\ k < Len(l) => tcount[l[k+1]] # n
            /\ Release(c, k)
      BY <1>6 DEF advance
    <2> DEFINE p == SubSeq(l, 1, k)
               q == SubSeq(l, k+1, Len(l))
               r == p \o e
    <2>2. k \in 0..Len(l)
      BY <1>1
    <2>3. /\ p \in Seq(Task) /\ q \in Seq(Task)
          /\ On(p) = {l[i] : i \in 1..k}
          /\ On(q) = {l[i] : i \in (k+1)..Len(l)}
          /\ On(p) \cup On(q) = On(l) /\ On(p) \cap On(q) = {}
          /\ Distinct(p) /\ Distinct(q) /\ Sorted(q, tcount)
      BY <1>1, <1>2, <2>2, CutKeeps
    <2>4. /\ tasklist' = [tasklist EXCEPT ![c] = q, ![Etime] = r]
          /\ tcount' = [t \in Task |-> IF \E i \in 1..k : l[i] = t THEN now ELSE tcount[t]]
      BY <1>1, <2>1 DEF Release, TypeOK
    <2> HIDE DEF p, q, r, l, e, n
    <2>5. /\ tasklist'[c] = q /\ tasklist'[Etime] = r
          /\ \A d \in Clock : d # c /\ d # Etime => tasklist'[d] = tasklist[d]
      BY <1>1, <2>4 DEF TypeOK
    <2>6. /\ tcount' \in [Task -> Nat]
          /\ \A t \in Task : t \in On(p) => tcount'[t] = now
          /\ \A t \in Task : t \notin On(p) => tcount'[t] = tcount[t]
      BY <1>1, <2>3, <2>4
    <2>7. \A d \in Clock : On(tasklist[d]) \subseteq Task
      BY DEF IInv, Queued, TypeOK
    <2>8. On(l) \subseteq Task /\ On(e) \subseteq Task
      BY <1>1, <2>7 DEF l, e
    <2>9. \A t \in On(q) : tcount[t] > n
      <3>1. Len(l) # 0 /\ 1 \in 1..Len(l)
        BY <1>1, <1>6, EmptySeq
      <3>2. l[1] = Head(l)
        BY <1>1, <1>6, HeadIsLeast, <1>2
      <3>3. tcount[l[1]] = n
        <4>1. tcount[l[1]] > count[c] /\ tcount[l[1]] \in Nat
          BY <1>1, <1>2, <3>1 DEF On
        <4>2. ~(tcount[l[1]] > n)
          BY <1>6, <3>2
        <4> QED BY <1>1, <4>1, <4>2 DEF n
      <3>4. tcount[l[k]] = n
        <4>1. k = 1 \/ k \in 2..k
          BY <1>1
        <4> QED BY <2>1, <3>3, <4>1
      <3>5. ASSUME NEW i \in (k+1)..Len(l) PROVE tcount[l[i]] > n
        <4>1. k+1 \in 1..Len(l) /\ i \in 1..Len(l) /\ k < Len(l) /\ k < k+1
          BY <1>1
        <4>2. tcount[l[k]] <= tcount[l[k+1]] /\ tcount[l[k+1]] # n
          BY <1>2, <2>1, <4>1 DEF Sorted
        <4>3. tcount[l[k+1]] <= tcount[l[i]]
          <5>1. i = k+1 \/ k+1 < i
            BY <1>1
          <5>2. CASE i = k+1
            BY <1>1, <4>1, <5>2
          <5>3. CASE k+1 < i
            BY <1>2, <4>1, <5>3 DEF Sorted
          <5> QED BY <5>1, <5>2, <5>3
        <4>4. tcount[l[k+1]] \in Nat /\ tcount[l[i]] \in Nat
          BY <1>1, <4>1
        <4> QED BY <1>1, <3>4, <4>2, <4>3, <4>4
      <3> QED BY <2>3, <3>5
    <2>10. Sorted(q, tcount') /\ Sorted(e, tcount')
      <3>1. \A t \in On(q) : tcount'[t] = tcount[t]
        BY <2>3, <2>6, <2>8
      <3>2. \A t \in On(e) : tcount'[t] = tcount[t]
        BY <1>2, <2>3, <2>6, <2>8
      <3> QED BY <1>1, <1>2, <2>3, <2>6, <3>1, <3>2, SortedByOwn
    <2>11. On(p) \cap On(e) = {} /\ On(q) \cap On(e) = {}
      BY <1>2, <2>3
    <2>12. \A t \in On(e) : tcount'[t] >= now
      BY <1>2, <2>6, <2>8, <2>11
    <2>13. /\ r \in Seq(Task) /\ On(r) = On(p) \cup On(e)
           /\ Distinct(r) /\ Sorted(r, tcount')
      <3>1. \A t \in On(p) : tcount'[t] = now
        BY <2>3, <2>6, <2>8
      <3> QED BY <1>1, <1>2, <2>3, <2>6, <2>10, <2>11, <2>12, <3>1, JoinKeeps DEF r
    <2>14. \A d \in Clock : d # c /\ d # Etime =>
             On(tasklist[d]) \cap On(l) = {} /\ On(tasklist[d]) \cap On(e) = {}
      BY <1>1 DEF IInv, Queued, l, e
    <2>15. ASSUME NEW d \in Clock
           PROVE  /\ Sorted(tasklist'[d], tcount') /\ Distinct(tasklist'[d])
                  /\ On(tasklist'[d]) \subseteq live \ {curtask}
      <3>1. On(l) \subseteq live \ {curtask} /\ On(e) \subseteq live \ {curtask}
        BY <1>1 DEF IInv, Queued, l, e
      <3>2. CASE d = c
        BY <2>3, <2>5, <2>10, <3>1, <3>2
      <3>3. CASE d = Etime
        BY <2>3, <2>5, <2>13, <3>1, <3>3
      <3>4. CASE d # c /\ d # Etime
        <4>1. tasklist'[d] = tasklist[d] /\ tasklist[d] \in Seq(Task)
          BY <1>1, <2>5, <3>4 DEF TypeOK
        <4>2. /\ Sorted(tasklist[d], tcount) /\ Distinct(tasklist[d])
              /\ On(tasklist[d]) \subseteq live \ {curtask}
          BY DEF IInv, Queued
        <4>3. \A t \in On(tasklist[d]) : tcount'[t] = tcount[t]
          BY <2>3, <2>6, <2>7, <2>14, <3>4
        <4> QED BY <1>1, <2>6, <4>1, <4>2, <4>3, SortedByOwn
      <3> QED BY <3>2, <3>3, <3>4
    <2>16. ASSUME NEW d \in Clock, NEW f \in Clock, d # f
           PROVE  On(tasklist'[d]) \cap On(tasklist'[f]) = {}
      <3>1. On(tasklist[d]) \cap On(tasklist[f]) = {}
        BY <2>16 DEF IInv, Queued
      <3>2. CASE {d, f} = {c, Etime}
        BY <2>3, <2>5, <2>11, <2>13, <3>2, <2>16
      <3>3. CASE d = c /\ f # Etime
        BY <2>3, <2>5, <2>14, <3>3, <2>16
      <3>4. CASE f = c /\ d # Etime
        BY <2>3, <2>5, <2>14, <3>4, <2>16
      <3>5. CASE d = Etime /\ f # c
        BY <2>3, <2>5, <2>13, <2>14, <3>5, <2>16
      <3>6. CASE f = Etime /\ d # c
        BY <2>3, <2>5, <2>13, <2>14, <3>6, <2>16
      <3>7. CASE d \notin {c, Etime} /\ f \notin {c, Etime}
        BY <2>5, <3>1, <3>7
      <3> QED BY <2>16, <3>2, <3>3, <3>4, <3>5, <3>6, <3>7
    <2>17. ASSUME NEW t \in live \ {curtask} PROVE \E d \in Clock : t \in On(tasklist'[d])
      <3>1. PICK d \in Clock : t \in On(tasklist[d])
        BY DEF IInv, Queued
      <3>2. CASE d = c
        <4>1. t \in On(p) \/ t \in On(q)
          BY <2>3, <3>1, <3>2 DEF l
        <4> QED BY <1>1, <2>5, <2>13, <4>1
      <3>3. CASE d = Etime
        <4>1. t \in On(e)
          BY <3>1, <3>3 DEF e
        <4> QED BY <1>1, <2>5, <2>13, <4>1
      <3>4. CASE d # c /\ d # Etime
        BY <2>5, <3>1, <3>4
      <3> QED BY <3>2, <3>3, <3>4
    <2>18. ASSUME NEW d \in EC, NEW t \in On(tasklist'[d]) PROVE tcount'[t] > count'[d]
      <3>1. CASE d = c
        BY <1>3, <2>3, <2>5, <2>6, <2>8, <2>9, <3>1, <2>18
      <3>2. CASE d # c
        <4>1. d \in Clock /\ d # Etime /\ t \in On(tasklist[d])
          BY <1>1, <2>5, <2>18, <3>2
        <4>2. tcount'[t] = tcount[t] /\ tcount[t] > count[d]
          <5>1. t \notin On(p) /\ t \in Task
            BY <2>3, <2>7, <2>14, <3>2, <4>1
          <5>2. tcount[t] > count[d]
            BY <4>1 DEF IInv, Queued
          <5> QED BY <2>6, <5>1, <5>2
        <4> QED BY <1>3, <3>2, <4>1, <4>2
      <3> QED BY <3>1, <3>2
    <2>19. ASSUME NEW t \in On(tasklist'[Etime]) PROVE tcount'[t] >= count'[Etime]
      <3>1. count'[Etime] = now
        BY <1>1, <1>3 DEF now
      <3>2. CASE t \in On(p)
        <4>1. tcount'[t] = now
          BY <2>3, <2>6, <2>8, <3>2
        <4> QED BY <1>1, <3>1, <4>1
      <3>3. CASE t \in On(e)
        BY <2>12, <3>1, <3>3
      <3> QED BY <2>5, <2>13, <2>19, <3>2, <3>3
    <2>20. HintOn(tasklist', hint)
      <3>1. HintOn(tasklist, hint)
        BY DEF IInv
      <3> QED BY <2>5, <2>13, <3>1 DEF HintOn, e
    <2> QED BY <2>15, <2>16, <2>17, <2>18, <2>19, <2>20 DEF Queued
  <1> QED BY <1>5, <1>6

\* The values its tasks wait for.
Keys(l, tc) == [m \in DOMAIN l |-> tc[l[m]]]

\* The slot sorted_insert_cell() finds for key x is between smaller keys and
\* keys that are not smaller.
LEMMA SlotFindsPlace ==
  ASSUME NEW l \in Seq(Task), NEW tc \in [Task -> Nat], Sorted(l, tc),
         NEW x \in Nat, NEW k,
         SortedSlot(Keys(l, tc), x, k)
  PROVE  /\ k \in 1..(Len(l) + 1)
         /\ \A i \in 1..Len(l) : i < k => tc[l[i]] <= x
         /\ \A i \in 1..Len(l) : i >= k => x <= tc[l[i]]
PROOF
  <1> DEFINE keys == Keys(l, tc)
  <1>1. /\ Len(l) \in Nat /\ DOMAIN l = 1..Len(l)
        /\ \A i \in 1..Len(l) : l[i] \in Task /\ tc[l[i]] \in Nat
    BY LenProperties, ElementOfSeq
  <1>2. \A i \in 1..Len(l) : keys[i] = tc[l[i]]
    BY <1>1 DEF Keys
  <1>3. Len(keys) = Len(l)
    <2> DEFINE n == Len(l)
    <2>1. keys \in [1..n -> Nat] /\ n \in Nat
      BY <1>1 DEF Keys
    <2> HIDE DEF keys, n
    <2>2. keys \in Seq(Nat)
      BY <2>1, SeqDef
    <2>3. DOMAIN keys = 1..Len(keys) /\ Len(keys) \in Nat /\ DOMAIN keys = 1..n
      BY <2>1, <2>2, LenProperties
    <2>4. Len(keys) = n
      BY <2>1, <2>3
    <2> QED BY <2>4 DEF n
  <1>4. /\ k \in 1..(Len(keys) + 1)
        /\ \A i \in 1..(k-1) : keys[i] < x
        /\ k <= Len(keys) => keys[k] >= x
    BY DEF SortedSlot
  <1> HIDE DEF keys
  <1>5. ASSUME NEW i \in 1..Len(l), i < k PROVE tc[l[i]] <= x
    <2>1. i \in 1..(k-1)
      BY <1>1, <1>3, <1>4, <1>5
    <2> QED BY <1>1, <1>2, <1>4, <2>1
  <1>6. ASSUME NEW i \in 1..Len(l), i >= k PROVE x <= tc[l[i]]
    <2>1. k \in 1..Len(l)
      BY <1>1, <1>3, <1>4, <1>6
    <2>2. tc[l[k]] >= x
      BY <1>1, <1>2, <1>3, <1>4, <2>1
    <2>3. k = i \/ k < i
      BY <1>1, <1>6, <2>1
    <2>4. tc[l[k]] <= tc[l[i]]
      BY <1>1, <2>1, <2>3 DEF Sorted
    <2> QED BY <1>1, <2>1, <2>2, <2>4
  <1> QED BY <1>3, <1>4, <1>5, <1>6

\* Task x waits for w.
Put(tc, x, w) == [tc EXCEPT ![x] = w]

\* Inserting task x at the slot for time w.
LEMMA SlotKeeps ==
  ASSUME NEW l \in Seq(Task), NEW tc \in [Task -> Nat], Sorted(l, tc), Distinct(l),
         NEW x \in Task, x \notin On(l), NEW w \in Nat, NEW k
  PROVE  SortedSlot(Keys(l, tc), w, k) =>
         /\ InsertAt(l, k, x) \in Seq(Task)
         /\ On(InsertAt(l, k, x)) = On(l) \cup {x}
         /\ Distinct(InsertAt(l, k, x))
         /\ Sorted(InsertAt(l, k, x), Put(tc, x, w))
PROOF
  <1> DEFINE Place == /\ k \in 1..(Len(l) + 1)
                      /\ \A i \in 1..Len(l) : i < k => tc[l[i]] <= w
                      /\ \A i \in 1..Len(l) : i >= k => w <= tc[l[i]]
  <1>1. SortedSlot(Keys(l, tc), w, k) => Place
    BY SlotFindsPlace
  <1>2. Place => /\ InsertAt(l, k, x) \in Seq(Task)
                 /\ On(InsertAt(l, k, x)) = On(l) \cup {x}
                 /\ Distinct(InsertAt(l, k, x))
                 /\ Sorted(InsertAt(l, k, x), Put(tc, x, w))
    BY InsertKeeps DEF Put
  <1> HIDE DEF Place
  <1> QED BY <1>1, <1>2

\* Taking task x away and inserting it at the slot for time w.
LEMMA MoveInList ==
  ASSUME NEW l \in Seq(Task), NEW tc \in [Task -> Nat], Sorted(l, tc), Distinct(l),
         NEW x \in Task, NEW i \in 1..Len(l), l[i] = x, NEW w \in Nat, NEW k
  PROVE  SortedSlot(Keys(RemoveAt(l, i), tc), w, k) =>
         LET n == InsertAt(RemoveAt(l, i), k, x)
         IN /\ n \in Seq(Task) /\ On(n) = On(l) /\ Distinct(n)
            /\ Sorted(n, Put(tc, x, w))
PROOF
  <1>1. /\ RemoveAt(l, i) \in Seq(Task) /\ On(RemoveAt(l, i)) = On(l) \ {x}
        /\ Distinct(RemoveAt(l, i)) /\ Sorted(RemoveAt(l, i), tc)
    BY RemoveKeeps
  <1> SUFFICES ASSUME NEW r \in Seq(Task), r = RemoveAt(l, i), SortedSlot(Keys(r, tc), w, k)
               PROVE  /\ InsertAt(r, k, x) \in Seq(Task)
                      /\ On(InsertAt(r, k, x)) = On(l)
                      /\ Distinct(InsertAt(r, k, x))
                      /\ Sorted(InsertAt(r, k, x), Put(tc, x, w))
    BY <1>1
  <1>2. /\ Sorted(r, tc) /\ Distinct(r) /\ x \notin On(r) /\ On(r) \cup {x} = On(l)
    <2>1. On(r) = On(l) \ {x} /\ Sorted(r, tc) /\ Distinct(r)
      BY <1>1
    <2>2. x \in On(l)
      BY DEF On
    <2> QED BY <2>1, <2>2
  <1>3. /\ InsertAt(r, k, x) \in Seq(Task)
        /\ On(InsertAt(r, k, x)) = On(r) \cup {x}
        /\ Distinct(InsertAt(r, k, x))
        /\ Sorted(InsertAt(r, k, x), Put(tc, x, w))
    BY <1>2, SlotKeeps
  <1> QED BY <1>2, <1>3

\* The same for the alarm task.
LEMMA MoveAlarm ==
  ASSUME NEW s \in Seq(Task), NEW i, NEW j, NEW w \in Nat,
         Wake \in Task, tcount \in [Task -> Nat],
         Sorted(s, tcount), Distinct(s), i \in 1..Len(s), s[i] = Wake,
         SortedSlot(Keys(RemoveAt(s, i), tcount), w, j)
  PROVE  /\ InsertAt(RemoveAt(s, i), j, Wake) \in Seq(Task)
         /\ On(InsertAt(RemoveAt(s, i), j, Wake)) = On(s)
         /\ Distinct(InsertAt(RemoveAt(s, i), j, Wake))
         /\ Sorted(InsertAt(RemoveAt(s, i), j, Wake), Put(tcount, Wake, w))
BY MoveInList

\* future_advance() moves the sleeping alarm task to the place for time w.
LEMMA MoveKeeps ==
  ASSUME IInv, NEW w \in Nat, w > now,
         NEW i \in DOMAIN tasklist[Etime], NEW j,
         tasklist[Etime][i] = Wake,
         SortedSlot([m \in DOMAIN RemoveAt(tasklist[Etime], i) |-> tcount[RemoveAt(tasklist[Etime], i)[m]]], w, j),
         tasklist' = [tasklist EXCEPT ![Etime] = InsertAt(RemoveAt(tasklist[Etime], i), j, Wake)],
         tcount' = [tcount EXCEPT ![Wake] = w]
  PROVE  Queued(tasklist', tcount', live \ {curtask}, count) /\ HintOn(tasklist', hint)
PROOF
  <1> DEFINE l == tasklist[Etime]
             r == RemoveAt(l, i)
             n == InsertAt(r, j, Wake)
  <1>1. /\ TypeOK /\ Etime \in Clock /\ EC = Clock \ {Etime} /\ Wake \in Task
        /\ tcount \in [Task -> Nat] /\ tasklist \in [Clock -> Seq(Task)]
    <2>1. Etime \in Clock /\ EC = Clock \ {Etime} /\ Wake \in Task
      BY TaskingAssumption DEF Clock
    <2> QED BY <2>1 DEF IInv, TypeOK
  <1>2. /\ l \in Seq(Task) /\ i \in 1..Len(l) /\ Wake \in On(l)
        /\ Sorted(l, tcount) /\ Distinct(l)
    <2>1. l \in Seq(Task) /\ Sorted(l, tcount) /\ Distinct(l)
      BY <1>1 DEF IInv, Queued
    <2>2. i \in 1..Len(l)
      BY <2>1, LenProperties
    <2> QED BY <2>1, <2>2 DEF On
  <1>4. SortedSlot(Keys(r, tcount), w, j)
    BY DEF Keys
  <1>5. tasklist' = [tasklist EXCEPT ![Etime] = n]
    OBVIOUS
  <1> HIDE DEF l, r, n
  <1>8. n \in Seq(Task) /\ On(n) = On(l) /\ Distinct(n) /\ Sorted(n, tcount')
    <2>1. l[i] = Wake
      BY DEF l
    <2>2. ASSUME NEW s \in Seq(Task), Sorted(s, tcount), Distinct(s), i \in 1..Len(s), s[i] = Wake,
                 SortedSlot(Keys(RemoveAt(s, i), tcount), w, j)
          PROVE  /\ InsertAt(RemoveAt(s, i), j, Wake) \in Seq(Task)
                 /\ On(InsertAt(RemoveAt(s, i), j, Wake)) = On(s)
                 /\ Distinct(InsertAt(RemoveAt(s, i), j, Wake))
                 /\ Sorted(InsertAt(RemoveAt(s, i), j, Wake), Put(tcount, Wake, w))
      BY <1>1, <2>2, MoveAlarm
    <2> QED BY <1>2, <1>4, <2>1, <2>2 DEF r, n, Put
  <1>9. /\ tasklist'[Etime] = n
        /\ \A d \in EC : tasklist'[d] = tasklist[d]
        /\ \A d \in Clock : On(tasklist'[d]) = On(tasklist[d])
    BY <1>1, <1>5, <1>8 DEF l
  <1>10. /\ tcount' \in [Task -> Nat] /\ tcount'[Wake] = w
         /\ \A t \in Task : t # Wake => tcount'[t] = tcount[t]
    BY <1>1
  <1>11. \A d \in EC : Wake \notin On(tasklist[d]) /\ On(tasklist[d]) \subseteq Task
    BY <1>1, <1>2 DEF IInv, Queued, TypeOK, l
  <1>12. ASSUME NEW d \in Clock PROVE Sorted(tasklist'[d], tcount') /\ Distinct(tasklist'[d])
    <2>1. CASE d = Etime
      BY <1>8, <1>9, <2>1
    <2>2. CASE d \in EC
      <3>1. \A t \in On(tasklist[d]) : tcount'[t] = tcount[t]
        BY <1>10, <1>11, <2>2
      <3>2. tasklist[d] \in Seq(Task) /\ Sorted(tasklist[d], tcount) /\ Distinct(tasklist[d])
        BY <1>1 DEF IInv, Queued
      <3> QED BY <1>1, <1>9, <1>10, <2>2, <3>1, <3>2, SortedByOwn
    <2> QED BY <1>1, <2>1, <2>2
  <1>13. \A d \in EC : \A t \in On(tasklist'[d]) : tcount'[t] > count[d]
    BY <1>1, <1>9, <1>10, <1>11 DEF IInv, Queued
  <1>14. ASSUME NEW t \in On(tasklist'[Etime]) PROVE tcount'[t] >= count[Etime]
    <2>1. t \in On(tasklist[Etime]) /\ t \in Task
      BY <1>1, <1>9 DEF IInv, Queued, TypeOK
    <2>2. CASE t = Wake
      <3>1. now \in Nat /\ now = count[Etime]
        BY <1>1, NowType DEF now
      <3> QED BY <1>10, <2>2, <3>1
    <2>3. CASE t # Wake
      <3>1. tcount[t] >= count[Etime]
        BY <2>1 DEF IInv, Queued
      <3> QED BY <1>10, <2>1, <2>3, <3>1
    <2> QED BY <2>2, <2>3
  <1>15. HintOn(tasklist', hint)
    <2>1. HintOn(tasklist, hint)
      BY DEF IInv
    <2> QED BY <1>1, <1>9, <2>1 DEF HintOn
  <1>16. /\ \A c \in Clock : On(tasklist[c]) \subseteq live \ {curtask}
         /\ \A c, d \in Clock : c # d => On(tasklist[c]) \cap On(tasklist[d]) = {}
         /\ \A t \in live \ {curtask} : \E c \in Clock : t \in On(tasklist[c])
    BY DEF IInv, Queued
  <1> QED BY <1>9, <1>12, <1>13, <1>14, <1>15, <1>16 DEF Queued

LEMMA FutureAdvanceKeeps ==
  ASSUME IInv, NEW t \in Client, FutureAdvance(t)
  PROVE  /\ Queued(tasklist', tcount', live' \ {curtask'}, count')
         /\ HintOn(tasklist', hint')
         /\ sim' = "running" => curtask' \in live'
PROOF
  <1>1. PICK w \in (now+1)..TimeBound, k \in 1..(Len(alarms) + 1) :
          IF k > 1
          THEN UNCHANGED <<tasklist, tcount, want, sim>>
          ELSE \/ /\ Wake \notin live
                  /\ sim' = "fatal"
                  /\ UNCHANGED <<tasklist, tcount, want>>
               \/ \E i \in DOMAIN tasklist[Etime], j \in 1..Len(tasklist[Etime]) :
                    LET l == tasklist[Etime]
                        rest == RemoveAt(l, i)
                    IN /\ l[i] = Wake
                       /\ SortedSlot([m \in DOMAIN rest |-> tcount[rest[m]]], w, j)
                       /\ tasklist' = [tasklist EXCEPT ![Etime] = InsertAt(rest, j, Wake)]
                       /\ tcount' = [tcount EXCEPT ![Wake] = w]
                       /\ want' = [want EXCEPT ![Wake].value = w]
                       /\ UNCHANGED sim
    BY DEF FutureAdvance
  <1>2. UNCHANGED <<count, curtask, hint, live>> /\ sim = "running" /\ curtask \in live
    BY DEF FutureAdvance, Running, IInv
  <1>3. w \in Nat /\ w > now
    <2>1. now \in Nat
      BY NowType DEF IInv
    <2> QED BY <2>1, TaskingAssumption
  <1>4. CASE UNCHANGED <<tasklist, tcount>>
    BY <1>2, <1>4 DEF IInv
  <1>5. ASSUME NEW i \in DOMAIN tasklist[Etime], NEW j \in 1..Len(tasklist[Etime]),
               tasklist[Etime][i] = Wake,
               SortedSlot([m \in DOMAIN RemoveAt(tasklist[Etime], i) |->
                             tcount[RemoveAt(tasklist[Etime], i)[m]]], w, j),
               tasklist' = [tasklist EXCEPT ![Etime] = InsertAt(RemoveAt(tasklist[Etime], i), j, Wake)],
               tcount' = [tcount EXCEPT ![Wake] = w]
        PROVE  Queued(tasklist', tcount', live \ {curtask}, count) /\ HintOn(tasklist', hint)
    BY <1>3, <1>5, MoveKeeps
  <1> QED BY <1>1, <1>2, <1>4, <1>5

LEMMA InitQueued == Init => IInv /\ curtask \in Client
PROOF
  <1> SUFFICES ASSUME Init PROVE IInv /\ curtask \in Client
    OBVIOUS
  <1>1. PICK order \in SetToSeqs(Client) :
          /\ curtask = Head(order)
          /\ tasklist = [c \in Clock |-> IF c = Etime THEN Tail(order) \o <<Wake>> ELSE << >>]
          /\ hint = IF Len(order) = 1 THEN NoTask ELSE Wake
    BY DEF Init
  <1>2. /\ TypeOK /\ live = Task /\ sim = "running" /\ Client = Task \ {Wake} /\ Wake \in Task
        /\ NoTask \notin Task /\ MaxTime \in Nat /\ Etime \in Clock /\ EC = Clock \ {Etime}
        /\ count = [c \in Clock |-> 0]
        /\ tcount = [t \in Task |-> IF t = Wake THEN MaxTime ELSE 0]
        /\ tcount \in [Task -> Nat]
    <2>1. TypeOK
      BY InitType
    <2>2. EC = Clock \ {Etime} /\ Etime \in Clock
      BY TaskingAssumption DEF Clock
    <2>3. tcount \in [Task -> Nat]
      BY <2>1 DEF TypeOK
    <2> QED BY <2>1, <2>2, <2>3, TaskingAssumption DEF Init, Client
  <1>3. order \in Seq(Client) /\ order # << >> /\ Distinct(order) /\ On(order) = Client
    <2>1. IsFiniteSet(Client) /\ Client # {}
      BY TaskingAssumption, FS_Subset DEF Client
    <2>2. Cardinality(Client) \in Nat /\ Cardinality(Client) # 0
      BY <2>1, FS_CardinalityType, FS_EmptySet
    <2> DEFINE D == 1..Cardinality(Client)
    <2>3. order \in [D -> Client] /\ \A i, j \in D : i # j => order[i] # order[j]
      BY DEF SetToSeqs
    <2>4. order \in Seq(Client)
      BY <2>2, <2>3, SeqDef
    <2>5. Len(order) = Cardinality(Client)
      <3>1. DOMAIN order = 1..Len(order) /\ Len(order) \in Nat /\ DOMAIN order = D
        BY <2>3, <2>4, LenProperties
      <3> QED BY <2>2, <3>1
    <2>6. order # << >>
      BY <2>2, <2>5, EmptySeq
    <2>7. Distinct(order)
      BY <2>3, <2>5 DEF Distinct
    <2>8. On(order) = Client
      <3>1. On(order) \subseteq Client
        BY <2>3, <2>5 DEF On
      <3>2. IsFiniteSet(D) /\ Cardinality(D) = Cardinality(Client)
        BY <2>2, FS_Interval
      <3>3. order \in Injection(D, Client)
        BY <2>3 DEF Injection, IsInjective
      <3>4. order \in Surjection(D, Client)
        BY <2>1, <3>2, <3>3, FS_Injection
      <3>5. \A t \in Client : \E i \in D : order[i] = t
        BY <3>4 DEF Surjection
      <3> QED BY <2>5, <3>1, <3>5 DEF On
    <2> QED BY <2>4, <2>6, <2>7, <2>8
  <1> DEFINE p == Tail(order)
             q == <<Wake>>
  <1>4. order \in Seq(Task) /\ Sorted(order, tcount)
    <2>1. order \in Seq(Task)
      BY <1>2, <1>3, SeqMonotonic
    <2>2. \A t \in On(order) : tcount[t] = 0
      BY <1>2, <1>3
    <2> QED BY <2>1, <2>2 DEF Sorted, On
  <1>5. /\ p \in Seq(Task) /\ On(p) = Client \ {curtask} /\ Distinct(p)
        /\ curtask \in Client
    <2>1. Head(order) \in On(order)
      BY <1>2, <1>3, <1>4, HeadIsLeast
    <2> QED BY <1>1, <1>2, <1>3, <1>4, <2>1, TailKeeps
  <1>6. q \in Seq(Task) /\ On(q) = {Wake} /\ Distinct(q) /\ Sorted(q, tcount)
    <2>1. q \in Seq(Task) /\ Len(q) = 1 /\ q[1] = Wake
      BY <1>2
    <2> HIDE DEF q
    <2>2. \A i \in 1..Len(q) : i = 1
      BY <2>1
    <2> QED BY <1>2, <2>1, <2>2 DEF On, Distinct, Sorted
  <1> HIDE DEF p, q
  <1>7. /\ On(p \o q) = (Task \ {curtask}) /\ Distinct(p \o q)
        /\ Sorted(p \o q, tcount)
    <2>1. On(p) \cap On(q) = {}
      BY <1>2, <1>5, <1>6
    <2>2. \A t \in On(p) : tcount[t] = 0
      BY <1>2, <1>5
    <2>3. \A t \in On(q) : tcount[t] >= 0
      BY <1>2, <1>6
    <2>4. On(p \o q) = On(p) \cup On(q) /\ Distinct(p \o q) /\ Sorted(p \o q, tcount)
      BY <1>2, <1>5, <1>6, <2>1, <2>2, <2>3, JoinKeeps
    <2> QED BY <1>2, <1>5, <1>6, <2>4
  <1>8. tasklist[Etime] = p \o q /\ \A c \in EC : tasklist[c] = << >>
    BY <1>1, <1>2 DEF p, q
  <1>9. On(<< >>) = {} /\ Distinct(<< >>) /\ Sorted(<< >>, tcount)
    <2>1. 1..Len(<< >>) = {}
      BY EmptySeq
    <2> QED BY <2>1 DEF On, Distinct, Sorted
  <1>10. Queued(tasklist, tcount, live \ {curtask}, count)
    <2>1. \A c \in Clock : /\ Sorted(tasklist[c], tcount) /\ Distinct(tasklist[c])
                           /\ On(tasklist[c]) \subseteq live \ {curtask}
      BY <1>2, <1>7, <1>8, <1>9
    <2>2. \A c, d \in Clock : c # d => On(tasklist[c]) \cap On(tasklist[d]) = {}
      BY <1>2, <1>8, <1>9
    <2>3. \A t \in live \ {curtask} : \E c \in Clock : t \in On(tasklist[c])
      BY <1>2, <1>7, <1>8
    <2>4. \A c \in EC : \A t \in On(tasklist[c]) : tcount[t] > count[c]
      BY <1>8, <1>9
    <2>5. \A t \in On(tasklist[Etime]) : tcount[t] >= count[Etime]
      BY <1>2, <1>7, <1>8
    <2> QED BY <2>1, <2>2, <2>3, <2>4, <2>5 DEF Queued
  <1>11. HintOn(tasklist, hint)
    BY <1>1, <1>2, <1>5, <1>7, <1>8 DEF HintOn, Client
  <1> QED BY <1>2, <1>5, <1>10, <1>11 DEF IInv, Client

\* A process that asks to wait until a time that nothing precedes moves the
\* time forward itself.
LEMMA JumpKeeps ==
  ASSUME IInv, NEW x \in Nat, NoneDueBefore(x), count' = [count EXCEPT ![Etime] = x]
  PROVE  Queued(tasklist, tcount, live \ {curtask}, count')
PROOF
  <1> DEFINE l == tasklist[Etime]
  <1>1. /\ count \in [Clock -> Nat] /\ tcount \in [Task -> Nat]
        /\ Etime \in Clock /\ EC = Clock \ {Etime} /\ l \in Seq(Task)
    BY TaskingAssumption DEF IInv, TypeOK, Clock
  <1>2. count'[Etime] = x /\ \A c \in EC : count'[c] = count[c]
    BY <1>1
  <1>3. ASSUME NEW t \in On(l) PROVE tcount[t] >= x
    <2>1. l # << >>
      <3>1. 1..Len(<< >>) = {}
        BY EmptySeq
      <3> QED BY <1>3, <3>1 DEF On
    <2>2. Sorted(l, tcount)
      BY <1>1 DEF IInv, Queued
    <2>3. x <= tcount[Head(l)]
      BY <2>1 DEF NoneDueBefore
    <2>4. Head(l) \in On(l) /\ tcount[Head(l)] <= tcount[t]
      BY <1>1, <1>3, <2>1, <2>2, HeadIsLeast
    <2>5. t \in Task /\ Head(l) \in Task
      BY <1>1, <1>3, <2>4, ElementOfSeq DEF On
    <2> QED BY <1>1, <2>3, <2>4, <2>5
  <1> QED BY <1>2, <1>3 DEF IInv, Queued

\* Every step keeps the lists: one case per call into the kernel.
LEMMA NextKeeps == IInv /\ [Next]_vars => IInv'
PROOF
  <1> SUFFICES ASSUME IInv, [Next]_vars PROVE IInv'
    OBVIOUS
  <1> DEFINE Lists == /\ Queued(tasklist, tcount, live \ {curtask}, count)
                      /\ HintOn(tasklist, hint)
                      /\ sim = "running" => curtask \in live
  <1>0. /\ TypeOK' /\ TypeOK /\ now \in Nat
        /\ Wake \in Task /\ EC \subseteq Clock /\ Etime \in Clock
    BY NextType, NowType, TaskingAssumption DEF IInv, Clock
  <1> SUFFICES Lists'
    BY <1>0 DEF IInv
  <1>1. ASSUME NEW t \in Client, Await(t) PROVE Lists'
    <2>1. PICK c \in EC, v \in 1..(CountBound + 1) : await(c, v)
      BY <1>1 DEF Await
    <2>2. v \in Nat /\ c \in Clock /\ curtask \in live
      BY <1>0, <1>1, TaskingAssumption DEF Await, Running, IInv
    <2> QED BY <2>1, <2>2, AwaitKeeps
  <1>2. ASSUME NEW t \in Client, Epause(t) PROVE Lists'
    <2>1. PICK n \in 1..TimeBound :
            \/ /\ NoneDueBefore(now + n)
               /\ count' = [count EXCEPT ![Etime] = now + n]
               /\ UNCHANGED <<tasklist, tcount, curtask, hint, live, sim>>
            \/ await(Etime, now + n)
      BY <1>2 DEF Epause
    <2>2. now + n \in Nat /\ curtask \in live
      BY <1>0, <1>2, TaskingAssumption DEF Epause, Running, IInv
    <2>3. CASE await(Etime, now + n)
      BY <1>0, <2>2, <2>3, AwaitKeeps
    <2>4. CASE /\ NoneDueBefore(now + n)
               /\ count' = [count EXCEPT ![Etime] = now + n]
               /\ UNCHANGED <<tasklist, tcount, curtask, hint, live, sim>>
      <3>1. Queued(tasklist, tcount, live \ {curtask}, count')
        BY <2>2, <2>4, JumpKeeps
      <3> QED BY <2>4, <3>1 DEF IInv
    <2> QED BY <2>1, <2>3, <2>4
  <1>3. ASSUME NEW t \in Client, Advance(t) PROVE Lists'
    <2>1. PICK c \in EC : advance(c)
      BY <1>3 DEF Advance
    <2>2. UNCHANGED <<curtask, hint, live, sim>>
      BY <1>3 DEF Advance
    <2> QED BY <2>1, <2>2, AdvanceKeeps DEF IInv
  <1>4. ASSUME NEW t \in Client, FutureAdvance(t) PROVE Lists'
    BY <1>4, FutureAdvanceKeeps
  <1>5. ASSUME NEW t \in Client, FinishTask(t) PROVE Lists'
    BY <1>5, ReturnKeeps DEF FinishTask, Running
  <1>6. CASE WakeNoAlarm
    BY <1>6 DEF WakeNoAlarm, IInv
  <1>7. CASE WakeAdvance
    <2>1. alarms # << >> /\ UNCHANGED <<curtask, hint, live>> /\ sim = "running"
      BY <1>7 DEF WakeAdvance, Running
    <2>2. CASE now < Head(alarms).time
      BY <1>7, <2>1, <2>2 DEF WakeAdvance, IInv
    <2>3. CASE ~(now < Head(alarms).time)
      <3>1. advance(Head(alarms).ec) /\ UNCHANGED sim
        BY <1>7, <2>3 DEF WakeAdvance
      <3>2. Head(alarms).ec \in EC
        BY <1>0, <2>1, HeadAlarm
      <3> QED BY <2>1, <3>1, <3>2, AdvanceKeeps DEF IInv
    <2> QED BY <2>2, <2>3
  <1>8. CASE WakeRearm
    <2> DEFINE next == IF alarms = << >> THEN MaxTime ELSE Head(alarms).time
    <2>1. next \in Nat /\ curtask \in live
      BY <1>0, <1>8, TaskingAssumption, HeadAlarm DEF WakeRearm, Sleep, Running, IInv
    <2>2. \/ await(Etime, next)
          \/ UNCHANGED <<count, tasklist, tcount, curtask, hint, alarms, live, sim>>
      BY <1>8 DEF WakeRearm, Sleep
    <2> HIDE DEF next
    <2>3. CASE await(Etime, next)
      BY <1>0, <2>1, <2>3, AwaitKeeps
    <2>4. CASE UNCHANGED <<count, tasklist, tcount, curtask, hint, alarms, live, sim>>
      BY <2>4 DEF IInv
    <2> QED BY <2>2, <2>3, <2>4
  <1>9. CASE WakeBreak
    BY <1>9, ReturnKeeps DEF WakeBreak, Running
  <1>10. CASE UNCHANGED vars
    BY <1>10 DEF vars, IInv
  <1> QED BY <1>1, <1>2, <1>3, <1>4, <1>5, <1>6, <1>7, <1>8, <1>9, <1>10
          DEF Next, ClientStep, WakeStep, Halted

LEMMA ListsKept == Spec => []IInv
BY InitQueued, NextKeeps, PTL DEF Spec

(***************************************************************************)
(* What the runs check                                                     *)
(***************************************************************************)

\* The places of a list and what is on it.
LEMMA Places ==
  ASSUME TypeOK, NEW c \in Clock
  PROVE  /\ DOMAIN tasklist[c] = 1..Len(tasklist[c])
         /\ \A t : t \in On(tasklist[c]) <=> \E i \in DOMAIN tasklist[c] : tasklist[c][i] = t
PROOF
  <1>1. tasklist[c] \in Seq(Task)
    BY DEF TypeOK
  <1>2. DOMAIN tasklist[c] = 1..Len(tasklist[c])
    BY <1>1, LenProperties
  <1> QED BY <1>2 DEF On

\* Whatever the tasks call, find_next_task(), advance() and future_advance()
\* leave every list in the order of the values awaited, and the hint that the
\* next scan starts from on the time list.
THEOREM ListsStaySorted == Spec => []ListsSorted
PROOF
  <1>1. IInv => ListsSorted
    <2> SUFFICES ASSUME IInv PROVE ListsSorted
      OBVIOUS
    <2>1. TypeOK /\ Etime \in Clock
      BY DEF IInv, Clock
    <2>2. ASSUME NEW c \in Clock, NEW i \in DOMAIN tasklist[c], NEW j \in DOMAIN tasklist[c], i < j
          PROVE  tcount[tasklist[c][i]] <= tcount[tasklist[c][j]]
      BY <2>1, <2>2, Places DEF IInv, Queued, Sorted
    <2>3. hint # NoTask => \E i \in DOMAIN tasklist[Etime] : tasklist[Etime][i] = hint
      BY <2>1, Places DEF IInv, HintOn
    <2> QED BY <2>2, <2>3 DEF ListsSorted
  <1> QED BY <1>1, ListsKept, PTL

\* Whatever the tasks call, no task stays queued for a value its event count has
\* reached, and no task of the time list is selected after its time.
THEOREM NoWakeupMissed == Spec => []NoMissedWakeup
PROOF
  <1>1. IInv => NoMissedWakeup
    <2> SUFFICES ASSUME IInv PROVE NoMissedWakeup
      OBVIOUS
    <2>1. TypeOK /\ Etime \in Clock /\ EC \subseteq Clock
      BY DEF IInv, Clock
    <2>2. ASSUME NEW c \in EC, NEW i \in DOMAIN tasklist[c] PROVE tcount[tasklist[c][i]] > count[c]
      <3>1. tasklist[c][i] \in On(tasklist[c])
        BY <2>1, Places
      <3> QED BY <3>1 DEF IInv, Queued
    <2>3. ASSUME NEW i \in DOMAIN tasklist[Etime] PROVE tcount[tasklist[Etime][i]] >= now
      <3>1. tasklist[Etime][i] \in On(tasklist[Etime])
        BY <2>1, Places
      <3> QED BY <3>1 DEF IInv, Queued, now
    <2> QED BY <2>2, <2>3 DEF NoMissedWakeup
  <1> QED BY <1>1, ListsKept, PTL

\* Whatever the tasks call, every task whose function has not returned runs or
\* is on exactly one list, once.
THEOREM NoTaskIsLost == Spec => []NoLostTask
PROOF
  <1>1. IInv => NoLostTask
    <2> SUFFICES ASSUME IInv PROVE NoLostTask
      OBVIOUS
    <2>1. TypeOK
      BY DEF IInv
    <2>2. ASSUME NEW t \in live, t # curtask
          PROVE  \E c \in Clock : \E i \in DOMAIN tasklist[c] : tasklist[c][i] = t
      <3>1. PICK c \in Clock : t \in On(tasklist[c])
        BY <2>2 DEF IInv, Queued
      <3> QED BY <2>1, <3>1, Places
    <2>3. ASSUME NEW c \in Clock, NEW d \in Clock,
                 NEW i \in DOMAIN tasklist[c], NEW j \in DOMAIN tasklist[d],
                 tasklist[c][i] = tasklist[d][j]
          PROVE  c = d /\ i = j
      <3>1. tasklist[c][i] \in On(tasklist[c]) /\ tasklist[d][j] \in On(tasklist[d])
        BY <2>1, Places
      <3>2. c = d
        BY <2>3, <3>1 DEF IInv, Queued
      <3>3. i \in 1..Len(tasklist[c]) /\ j \in 1..Len(tasklist[c])
        BY <2>1, <3>2, Places
      <3> QED BY <2>3, <3>2, <3>3 DEF IInv, Queued, Distinct
    <2>4. ASSUME NEW c \in Clock, NEW i \in DOMAIN tasklist[c]
          PROVE  tasklist[c][i] \in live \ {curtask}
      <3>1. tasklist[c][i] \in On(tasklist[c])
        BY <2>1, Places
      <3> QED BY <3>1 DEF IInv, Queued
    <2> QED BY <2>2, <2>3, <2>4 DEF NoLostTask
  <1> QED BY <1>1, ListsKept, PTL
=============================================================================
