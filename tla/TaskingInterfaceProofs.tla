------------------------ MODULE TaskingInterfaceProofs ------------------------
(***************************************************************************)
(* Proofs about the alarm task of cgm/wakeupcall.c, which is always armed  *)
(* for the first alarm and reports a deadlock only when there is one, and  *)
(* that the tasking kernel, with its sorted lists, its scan hint and its   *)
(* alarm task, implements the interface of cgm/tasking.h: the safety part  *)
(* of EventCounts, for every set of tasks and event counts and for every   *)
(* bound.                                                                  *)
(***************************************************************************)
EXTENDS TaskingProofs

(***************************************************************************)
(* The alarm task                                                          *)
(***************************************************************************)

\* What the alarm task sleeps for.
FirstAlarm == IF alarms = << >> THEN MaxTime ELSE Head(alarms).time

\* It waits for time only: no event count ever has it on its list.
WakeOnTime == \A c \in EC : Wake \notin On(tasklist[c])

AlarmInv == IInv /\ WakeOnTime /\ AlarmArmed

\* The task selected is the first one of the time list.
LEMMA DispatchPicks ==
  ASSUME NEW lists \in [Clock -> Seq(Task)], NEW tc, NEW h, count \in [Clock -> Nat],
         Dispatch(lists, tc, h)
  PROVE  /\ \A d \in EC : tasklist'[d] = lists[d]
         /\ On(tasklist'[Etime]) \subseteq On(lists[Etime])
         /\ \/ sim' = "exit" /\ curtask' = NoTask /\ UNCHANGED count
            \/ /\ curtask' \in On(lists[Etime])
               /\ count'[Etime] = tc[curtask']
               /\ \A d \in EC : count'[d] = count[d]
               /\ UNCHANGED sim
PROOF
  <1> DEFINE l == lists[Etime]
  <1>1. Etime \in Clock /\ Etime \notin EC /\ EC \subseteq Clock /\ l \in Seq(Task)
    BY TaskingAssumption DEF Clock
  <1>2. CASE l = << >>
    BY <1>2 DEF Dispatch
  <1>3. CASE l # << >>
    <2>1. /\ curtask' = Head(l)
          /\ tasklist' = [lists EXCEPT ![Etime] = Tail(l)]
          /\ count' = [count EXCEPT ![Etime] = tc[Head(l)]]
          /\ UNCHANGED sim
      BY <1>3 DEF Dispatch
    <2>2. tasklist'[Etime] = Tail(l) /\ \A d \in EC : tasklist'[d] = lists[d]
      BY <1>1, <2>1
    <2>3. count'[Etime] = tc[Head(l)] /\ \A d \in EC : count'[d] = count[d]
      BY <1>1, <2>1
    <2> HIDE DEF l
    <2>4. /\ Len(l) \in Nat /\ Len(l) # 0 /\ Head(l) = l[1]
          /\ Len(Tail(l)) = Len(l) - 1
          /\ \A i \in 1..Len(Tail(l)) : Tail(l)[i] = l[i+1]
      BY <1>1, <1>3, LenProperties, EmptySeq, HeadTailProperties
    <2>5. 1 \in 1..Len(l) /\ \A i \in 1..Len(Tail(l)) : i+1 \in 1..Len(l)
      BY <2>4
    <2>6. Head(l) \in On(l) /\ On(Tail(l)) \subseteq On(l)
      BY <2>4, <2>5 DEF On
    <2> QED BY <2>1, <2>2, <2>3, <2>6 DEF l
  <1> QED BY <1>2, <1>3

\* await() queues the caller, for the value it asks for, on the list it names,
\* and the task that runs next is taken from the time list.
LEMMA AwaitAddsCaller ==
  ASSUME TypeOK, curtask \in Task, NEW c \in Clock, NEW v \in Nat, await(c, v)
  PROVE  /\ tcount'[curtask] = v
         /\ \A t \in Task : t # curtask => tcount'[t] = tcount[t]
         /\ \A d \in Clock : On(tasklist'[d]) \subseteq On(tasklist[d]) \cup (IF d = c THEN {curtask} ELSE {})
         /\ \/ sim' = "exit" /\ curtask' = NoTask /\ UNCHANGED count
            \/ /\ curtask' \in On(tasklist[Etime]) \cup (IF c = Etime THEN {curtask} ELSE {})
               /\ count'[Etime] = tcount'[curtask']
               /\ \A d \in EC : count'[d] = count[d]
               /\ UNCHANGED sim
PROOF
  <1>1. PICK k \in 0..Len(tasklist[c]) :
          /\ tcount' = [tcount EXCEPT ![curtask] = v]
          /\ Dispatch([tasklist EXCEPT ![c] = InsertAt(@, k+1, curtask)], tcount',
                      IF c = Etime /\ k > 0 THEN curtask ELSE hint)
    BY DEF await, find_next_task
  <1> DEFINE r == InsertAt(tasklist[c], k+1, curtask)
             lists == [tasklist EXCEPT ![c] = r]
             h == IF c = Etime /\ k > 0 THEN curtask ELSE hint
  <1>2. Etime \in Clock /\ EC = Clock \ {Etime} /\ tasklist[c] \in Seq(Task) /\ tasklist \in [Clock -> Seq(Task)]
    <2>1. Etime \in Clock /\ EC = Clock \ {Etime}
      BY TaskingAssumption DEF Clock
    <2> QED BY <2>1 DEF TypeOK
  <1>3. r \in Seq(Task) /\ On(r) \subseteq On(tasklist[c]) \cup {curtask}
    <2> DEFINE l == tasklist[c]
               m == k+1
    <2>1. l \in Seq(Task) /\ Len(l) \in Nat /\ m \in 1..(Len(l) + 1)
      BY <1>2, LenProperties
    <2> HIDE DEF l, m
    <2>2. /\ InsertAt(l, m, curtask) \in Seq(Task)
          /\ Len(InsertAt(l, m, curtask)) = Len(l) + 1
          /\ \A i \in 1..(Len(l) + 1) : InsertAt(l, m, curtask)[i] =
               IF i < m THEN l[i] ELSE IF i = m THEN curtask ELSE l[i-1]
      BY <2>1, InsertAtProperties
    <2>3. ASSUME NEW i \in 1..(Len(l) + 1) PROVE InsertAt(l, m, curtask)[i] \in On(l) \cup {curtask}
      <3>1. CASE i < m
        <4>1. i \in 1..Len(l)
          BY <2>1, <3>1
        <4> QED BY <2>2, <3>1, <4>1 DEF On
      <3>2. CASE i = m
        BY <2>2, <3>2
      <3>3. CASE i > m
        <4>1. i-1 \in 1..Len(l) /\ ~(i < m) /\ i # m
          BY <2>1, <3>3
        <4>2. InsertAt(l, m, curtask)[i] = l[i-1]
          BY <2>2, <4>1
        <4> QED BY <4>1, <4>2 DEF On
      <3> QED BY <2>1, <3>1, <3>2, <3>3
    <2>4. On(InsertAt(l, m, curtask)) \subseteq On(l) \cup {curtask}
      BY <2>2, <2>3 DEF On
    <2> QED BY <2>2, <2>4 DEF l, m
  <1> HIDE DEF r
  <1>4. /\ lists \in [Clock -> Seq(Task)]
        /\ \A d \in Clock : lists[d] = IF d = c THEN r ELSE tasklist[d]
        /\ Dispatch(lists, tcount', h)
    BY <1>1, <1>2, <1>3 DEF r
  <1> HIDE DEF lists, h
  <1>5. \A d \in Clock : On(lists[d]) \subseteq On(tasklist[d]) \cup (IF d = c THEN {curtask} ELSE {})
    BY <1>3, <1>4
  <1>6. count \in [Clock -> Nat]
    BY DEF TypeOK
  <1>7. /\ \A d \in EC : tasklist'[d] = lists[d]
        /\ On(tasklist'[Etime]) \subseteq On(lists[Etime])
        /\ \/ sim' = "exit" /\ curtask' = NoTask /\ UNCHANGED count
           \/ /\ curtask' \in On(lists[Etime])
              /\ count'[Etime] = tcount'[curtask']
              /\ \A d \in EC : count'[d] = count[d]
              /\ UNCHANGED sim
    BY <1>4, <1>6, DispatchPicks
  <1>8. ASSUME NEW d \in Clock
        PROVE  On(tasklist'[d]) \subseteq On(tasklist[d]) \cup (IF d = c THEN {curtask} ELSE {})
    BY <1>2, <1>5, <1>7
  <1>9. tcount'[curtask] = v /\ \A t \in Task : t # curtask => tcount'[t] = tcount[t]
    BY <1>1 DEF TypeOK
  <1>10. On(lists[Etime]) \subseteq On(tasklist[Etime]) \cup (IF c = Etime THEN {curtask} ELSE {})
    BY <1>2, <1>5
  <1> QED BY <1>7, <1>8, <1>9, <1>10

\* advance() releases tasks of its own event count only, to run now.
LEMMA AdvanceFrees ==
  ASSUME IInv, NEW c \in EC, advance(c)
  PROVE  /\ count'[Etime] = count[Etime]
         /\ \A d \in EC : \A t \in On(tasklist'[d]) : t \in On(tasklist[d]) /\ tcount'[t] = tcount[t]
         /\ \A t \in On(tasklist'[Etime]) :
              \/ t \in On(tasklist[c]) /\ tcount'[t] = now
              \/ t \in On(tasklist[Etime]) /\ tcount'[t] = tcount[t]
         /\ \A t \in Task : t \notin On(tasklist[c]) => tcount'[t] = tcount[t]
PROOF
  <1> DEFINE l == tasklist[c]
             e == tasklist[Etime]
  <1>1. /\ Etime \in Clock /\ EC = Clock \ {Etime} /\ c \in Clock /\ c # Etime
        /\ l \in Seq(Task) /\ e \in Seq(Task) /\ Len(l) \in Nat
        /\ tasklist \in [Clock -> Seq(Task)] /\ tcount \in [Task -> Nat] /\ count \in [Clock -> Nat]
    BY TaskingAssumption, LenProperties DEF IInv, TypeOK, Clock
  <1>2. /\ Sorted(l, tcount) /\ Distinct(l)
        /\ \A d \in Clock : d # c => On(tasklist[d]) \cap On(l) = {}
        /\ \A d \in Clock : On(tasklist[d]) \subseteq Task
    BY <1>1 DEF IInv, TypeOK, Queued
  <1>3. count'[Etime] = count[Etime]
    BY <1>1 DEF advance
  <1>4. CASE UNCHANGED <<tasklist, tcount>>
    BY <1>3, <1>4
  <1>5. CASE \E k \in 1..Len(l) : Release(c, k)
    <2>1. PICK k \in 1..Len(l) : Release(c, k)
      BY <1>5
    <2> DEFINE p == SubSeq(l, 1, k)
               q == SubSeq(l, k+1, Len(l))
               r == p \o e
    <2>2. /\ p \in Seq(Task) /\ q \in Seq(Task)
          /\ On(p) = {l[i] : i \in 1..k}
          /\ On(p) \cup On(q) = On(l) /\ On(p) \cap On(q) = {}
      <3>1. k \in 0..Len(l)
        BY <1>1
      <3> QED BY <1>1, <1>2, <3>1, CutKeeps
    <2>3. /\ tasklist' = [tasklist EXCEPT ![c] = q, ![Etime] = r]
          /\ tcount' = [t \in Task |-> IF \E i \in 1..k : l[i] = t THEN now ELSE tcount[t]]
      BY <1>1, <2>1 DEF Release
    <2> HIDE DEF p, q, r, l, e
    <2>4. /\ tasklist'[c] = q /\ tasklist'[Etime] = r
          /\ \A d \in EC : d # c => tasklist'[d] = tasklist[d]
      BY <1>1, <2>3
    <2>5. /\ \A t \in Task : t \in On(p) => tcount'[t] = now
          /\ \A t \in Task : t \notin On(p) => tcount'[t] = tcount[t]
      BY <2>2, <2>3
    <2>6. On(r) \subseteq On(p) \cup On(e)
      <3>1. Len(p) \in Nat /\ Len(e) \in Nat
        BY <1>1, <2>2, LenProperties
      <3>2. /\ Len(r) = Len(p) + Len(e)
            /\ \A i \in 1..(Len(p) + Len(e)) : r[i] = IF i <= Len(p) THEN p[i] ELSE e[i - Len(p)]
        BY <1>1, <2>2, ConcatProperties DEF r
      <3>3. ASSUME NEW i \in 1..Len(r) PROVE r[i] \in On(p) \cup On(e)
        <4>1. CASE i <= Len(p)
          BY <3>1, <3>2, <4>1 DEF On
        <4>2. CASE ~(i <= Len(p))
          <5>1. i - Len(p) \in 1..Len(e)
            BY <3>1, <3>2, <4>2
          <5> QED BY <3>2, <4>2, <5>1 DEF On
        <4> QED BY <4>1, <4>2
      <3> QED BY <3>3 DEF On
    <2>7. /\ On(l) \subseteq Task /\ On(e) \subseteq Task /\ On(e) \cap On(l) = {}
          /\ \A d \in EC : d # c => On(tasklist[d]) \cap On(l) = {} /\ On(tasklist[d]) \subseteq Task
      BY <1>1, <1>2 DEF l, e
    <2>8. ASSUME NEW d \in EC, NEW t \in On(tasklist'[d])
          PROVE  t \in On(tasklist[d]) /\ tcount'[t] = tcount[t]
      <3>1. CASE d = c
        <4>1. t \in On(l) /\ t \notin On(p) /\ t \in Task
          BY <2>2, <2>4, <2>7, <2>8, <3>1
        <4> QED BY <2>5, <3>1, <4>1 DEF l
      <3>2. CASE d # c
        <4>1. t \in On(tasklist[d]) /\ t \notin On(p) /\ t \in Task
          BY <2>2, <2>4, <2>7, <2>8, <3>2
        <4> QED BY <2>5, <4>1
      <3> QED BY <3>1, <3>2
    <2>9. ASSUME NEW t \in On(tasklist'[Etime])
          PROVE  \/ t \in On(l) /\ tcount'[t] = now
                 \/ t \in On(e) /\ tcount'[t] = tcount[t]
      <3>1. t \in On(p) \/ t \in On(e)
        BY <2>4, <2>6, <2>9
      <3>2. CASE t \in On(p)
        BY <2>2, <2>5, <2>7, <3>2
      <3>3. CASE t \in On(e)
        BY <2>2, <2>5, <2>7, <3>3
      <3> QED BY <3>1, <3>2, <3>3
    <2>10. \A t \in Task : t \notin On(l) => tcount'[t] = tcount[t]
      BY <2>2, <2>5
    <2> QED BY <1>3, <2>8, <2>9, <2>10 DEF l, e
  <1> QED BY <1>4, <1>5 DEF advance

\* It leaves the alarm task alone.
LEMMA AdvanceSpares ==
  ASSUME IInv, WakeOnTime, NEW c \in EC, advance(c)
  PROVE  WakeOnTime' /\ tcount'[Wake] = tcount[Wake]
PROOF
  <1>1. Wake \in Task /\ Wake \notin On(tasklist[c])
    BY TaskingAssumption DEF WakeOnTime
  <1> QED BY <1>1, AdvanceFrees DEF WakeOnTime

\* The end of a task's function touches no list of an event count.
LEMMA ReturnSpares ==
  ASSUME TypeOK, WakeOnTime, NEW t, Return(t)
  PROVE  WakeOnTime' /\ live' = live \ {t} /\ UNCHANGED <<tcount, alarms>>
PROOF
  <1>1. Etime \in Clock /\ EC = Clock \ {Etime} /\ tasklist \in [Clock -> Seq(Task)]
    BY TaskingAssumption DEF TypeOK, Clock
  <1>2. Dispatch(tasklist, tcount, hint) /\ live' = live \ {t} /\ UNCHANGED <<tcount, alarms>>
    BY DEF Return
  <1>3. \A d \in EC : tasklist'[d] = tasklist[d]
    BY <1>1, <1>2 DEF Dispatch
  <1> QED BY <1>2, <1>3 DEF WakeOnTime

\* A new alarm that is the first one moves the alarm task to its time; another
\* leaves both the first alarm and the alarm task where they are.
LEMMA FutureAdvanceArms ==
  ASSUME TypeOK, WakeOnTime, AlarmArmed, NEW t \in Client, FutureAdvance(t)
  PROVE  WakeOnTime' /\ AlarmArmed'
PROOF
  <1>1. PICK c \in EC, w \in (now+1)..TimeBound, k \in 1..(Len(alarms) + 1) :
          /\ alarms' = InsertAt(alarms, k, [ec |-> c, time |-> w])
          /\ IF k > 1
             THEN UNCHANGED <<tasklist, tcount, want, sim>>
             ELSE \/ /\ Wake \notin live
                     /\ sim' = "fatal"
                     /\ UNCHANGED <<tasklist, tcount, want>>
                  \/ \E i \in DOMAIN tasklist[Etime], j \in 1..Len(tasklist[Etime]) :
                       LET l == tasklist[Etime]
                           rest == RemoveAt(l, i)
                       IN /\ l[i] = Wake
                          /\ SortedSlot([m \in DOMAIN rest |-> tcount[rest[m]]], w, j)
                          /\ tasklist' = [tasklist EXCEPT ![Etime] = InsertAt(rest, j, Wake)]
                          /\ tcount' = [tcount EXCEPT ![Wake] = w]
                          /\ want' = [want EXCEPT ![Wake].value = w]
                          /\ UNCHANGED sim
    BY DEF FutureAdvance
  <1>2. /\ UNCHANGED <<curtask, live>> /\ sim = "running" /\ curtask # Wake
        /\ Wake \in Task /\ Etime \notin EC /\ alarms \in Seq(Alarm) /\ Len(alarms) \in Nat
    BY TaskingAssumption, LenProperties DEF FutureAdvance, Running, Client, TypeOK
  <1> DEFINE a == [ec |-> c, time |-> w]
  <1>3. a \in Alarm /\ a.time = w
    <2>1. w \in Nat
      <3>1. now \in Nat
        BY NowType
      <3> QED BY <3>1, TaskingAssumption
    <2> QED BY <2>1 DEF Alarm
  <1> HIDE DEF a
  <1>4. /\ alarms' \in Seq(Alarm) /\ Len(alarms') = Len(alarms) + 1
        /\ \A i \in 1..(Len(alarms) + 1) : alarms'[i] =
             IF i < k THEN alarms[i] ELSE IF i = k THEN a ELSE alarms[i-1]
    <2>1. alarms' = InsertAt(alarms, k, a)
      BY <1>1 DEF a
    <2>2. /\ InsertAt(alarms, k, a) \in Seq(Alarm) /\ Len(InsertAt(alarms, k, a)) = Len(alarms) + 1
          /\ \A i \in 1..(Len(alarms) + 1) : InsertAt(alarms, k, a)[i] =
               IF i < k THEN alarms[i] ELSE IF i = k THEN a ELSE alarms[i-1]
      BY <1>2, <1>3, InsertAtProperties
    <2> QED BY <2>1, <2>2
  <1>5. alarms' # << >> /\ Head(alarms') = alarms'[1]
    <2>1. Len(alarms') # 0
      BY <1>2, <1>4
    <2>2. alarms' # << >>
      BY <2>1, EmptySeq
    <2> QED BY <1>4, <2>2, HeadTailProperties
  <1>6. CASE k > 1
    <2>1. alarms # << >> /\ Head(alarms) = alarms[1]
      <3>1. Len(alarms) # 0
        BY <1>2, <1>6
      <3>2. alarms # << >>
        BY <3>1, EmptySeq
      <3> QED BY <1>2, <3>2, HeadTailProperties
    <2>2. Head(alarms') = Head(alarms)
      <3>1. 1 \in 1..(Len(alarms) + 1) /\ 1 < k
        BY <1>2, <1>6
      <3> QED BY <1>4, <1>5, <2>1, <3>1
    <2>3. UNCHANGED <<tasklist, tcount, sim>>
      BY <1>1, <1>6
    <2> QED BY <1>2, <1>5, <2>1, <2>2, <2>3 DEF WakeOnTime, AlarmArmed
  <1>7. CASE ~(k > 1)
    <2>1. Head(alarms').time = w
      <3>1. k = 1 /\ 1 \in 1..(Len(alarms) + 1)
        BY <1>2, <1>7
      <3>2. alarms'[1] = a
        BY <1>4, <3>1
      <3> QED BY <1>3, <1>5, <3>2
    <2>2. CASE Wake \notin live /\ UNCHANGED tasklist
      BY <1>2, <2>2 DEF WakeOnTime, AlarmArmed
    <2>3. ASSUME NEW n, tasklist' = [tasklist EXCEPT ![Etime] = n], tcount' = [tcount EXCEPT ![Wake] = w]
          PROVE  WakeOnTime' /\ AlarmArmed'
      <3>1. tcount'[Wake] = w
        BY <1>2, <2>3 DEF TypeOK
      <3>2. \A d \in EC : tasklist'[d] = tasklist[d]
        BY <1>2, <2>3 DEF TypeOK, Clock
      <3> QED BY <1>5, <2>1, <3>1, <3>2 DEF WakeOnTime, AlarmArmed
    <2> QED BY <1>1, <1>7, <2>2, <2>3
  <1> QED BY <1>6, <1>7

\* Every step leaves the alarm task armed.
LEMMA NextArms == AlarmInv /\ [Next]_vars => AlarmInv'
PROOF
  <1> SUFFICES ASSUME AlarmInv, [Next]_vars PROVE WakeOnTime' /\ AlarmArmed'
    BY NextKeeps DEF AlarmInv
  <1>0. /\ IInv /\ TypeOK /\ WakeOnTime /\ AlarmArmed /\ now \in Nat
        /\ Wake \in Task /\ EC \subseteq Clock /\ Etime \in Clock /\ Etime \notin EC
        /\ Client = Task \ {Wake}
    BY NowType, TaskingAssumption DEF AlarmInv, IInv, Clock, Client
  <1>1. ASSUME NEW c \in Clock, NEW v \in Nat, curtask \in Client, sim = "running", await(c, v)
        PROVE  WakeOnTime' /\ AlarmArmed'
    <2>1. curtask \in Task /\ curtask # Wake
      BY <1>0, <1>1
    <2>2. /\ tcount'[Wake] = tcount[Wake]
          /\ \A d \in EC : On(tasklist'[d]) \subseteq On(tasklist[d]) \cup {curtask}
      BY <1>0, <1>1, <2>1, AwaitAddsCaller
    <2>3. UNCHANGED <<alarms, live>>
      BY <1>1 DEF await
    <2> QED BY <1>0, <1>1, <2>1, <2>2, <2>3 DEF WakeOnTime, AlarmArmed
  <1>2. ASSUME NEW t \in Client, Await(t) PROVE WakeOnTime' /\ AlarmArmed'
    <2>1. PICK c \in EC, v \in 1..(CountBound + 1) : await(c, v)
      BY <1>2 DEF Await
    <2>2. v \in Nat /\ c \in Clock /\ curtask \in Client /\ sim = "running"
      BY <1>0, <1>2, TaskingAssumption DEF Await, Running
    <2> QED BY <1>1, <2>1, <2>2
  <1>3. ASSUME NEW t \in Client, Epause(t) PROVE WakeOnTime' /\ AlarmArmed'
    <2>1. PICK n \in 1..TimeBound :
            \/ UNCHANGED <<tasklist, tcount, curtask, alarms, live, sim>>
            \/ await(Etime, now + n)
      BY <1>3 DEF Epause
    <2>2. now + n \in Nat /\ curtask \in Client /\ sim = "running"
      BY <1>0, <1>3, TaskingAssumption DEF Epause, Running
    <2>3. CASE await(Etime, now + n)
      BY <1>0, <1>1, <2>2, <2>3
    <2>4. CASE UNCHANGED <<tasklist, tcount, curtask, alarms, live, sim>>
      BY <1>0, <2>4 DEF WakeOnTime, AlarmArmed
    <2> QED BY <2>1, <2>3, <2>4
  <1>4. ASSUME NEW t \in Client, Advance(t) PROVE WakeOnTime' /\ AlarmArmed'
    <2>1. PICK c \in EC : advance(c)
      BY <1>4 DEF Advance
    <2>2. WakeOnTime' /\ tcount'[Wake] = tcount[Wake]
      BY <1>0, <2>1, AdvanceSpares
    <2>3. UNCHANGED <<curtask, alarms, live, sim>>
      BY <1>4 DEF Advance
    <2> QED BY <1>0, <2>2, <2>3 DEF AlarmArmed
  <1>5. ASSUME NEW t \in Client, FutureAdvance(t) PROVE WakeOnTime' /\ AlarmArmed'
    BY <1>0, <1>5, FutureAdvanceArms
  <1>6. ASSUME NEW t \in Client, FinishTask(t) PROVE WakeOnTime' /\ AlarmArmed'
    <2>1. WakeOnTime' /\ live' = live \ {t} /\ UNCHANGED <<tcount, alarms>>
      BY <1>0, <1>6, ReturnSpares DEF FinishTask
    <2>2. sim = "running" /\ curtask # Wake
      BY <1>0, <1>6 DEF FinishTask, Running
    <2> QED BY <1>0, <2>1, <2>2 DEF AlarmArmed
  <1>7. CASE WakeNoAlarm
    <2>1. sim' # "running" /\ UNCHANGED tasklist
      BY <1>7 DEF WakeNoAlarm
    <2> QED BY <1>0, <2>1 DEF WakeOnTime, AlarmArmed
  <1>8. CASE WakeAdvance
    <2>1. alarms # << >> /\ curtask' = Wake
      BY <1>8 DEF WakeAdvance, Running
    <2>2. Head(alarms).ec \in EC
      BY <1>0, <2>1, HeadAlarm
    <2>3. UNCHANGED tasklist \/ advance(Head(alarms).ec)
      BY <1>8 DEF WakeAdvance
    <2>4. WakeOnTime'
      <3>1. CASE UNCHANGED tasklist
        BY <1>0, <3>1 DEF WakeOnTime
      <3>2. CASE advance(Head(alarms).ec)
        BY <1>0, <2>2, <3>2, AdvanceSpares
      <3> QED BY <2>3, <3>1, <3>2
    <2> QED BY <2>1, <2>4 DEF AlarmArmed
  <1>9. CASE WakeRearm
    <2>1. /\ curtask = Wake
          /\ \/ await(Etime, FirstAlarm)
             \/ UNCHANGED <<tasklist, curtask>>
      BY <1>9 DEF WakeRearm, Sleep, Running, FirstAlarm
    <2>2. FirstAlarm \in Nat
      BY <1>0, TaskingAssumption, HeadAlarm DEF FirstAlarm
    <2>3. CASE UNCHANGED <<tasklist, curtask>>
      BY <1>0, <2>1, <2>3 DEF WakeOnTime, AlarmArmed
    <2>4. CASE await(Etime, FirstAlarm)
      <3>1. /\ tcount'[Wake] = FirstAlarm
            /\ \A d \in EC : On(tasklist'[d]) \subseteq On(tasklist[d])
        BY <1>0, <2>1, <2>2, <2>4, AwaitAddsCaller
      <3>2. UNCHANGED alarms
        BY <2>4 DEF await
      <3> QED BY <1>0, <3>1, <3>2 DEF WakeOnTime, AlarmArmed, FirstAlarm
    <2> QED BY <2>1, <2>3, <2>4
  <1>10. CASE WakeBreak
    <2>1. WakeOnTime' /\ live' = live \ {Wake}
      BY <1>0, <1>10, ReturnSpares DEF WakeBreak
    <2> QED BY <2>1 DEF AlarmArmed
  <1>11. CASE UNCHANGED vars
    BY <1>0, <1>11 DEF vars, WakeOnTime, AlarmArmed
  <1> QED BY <1>2, <1>3, <1>4, <1>5, <1>6, <1>7, <1>8, <1>9, <1>10, <1>11
          DEF Next, ClientStep, WakeStep, Halted

LEMMA InitArmed == Init => WakeOnTime /\ AlarmArmed
PROOF
  <1> SUFFICES ASSUME Init PROVE WakeOnTime /\ AlarmArmed
    OBVIOUS
  <1>1. /\ Wake \in Task /\ EC = Clock \ {Etime} /\ alarms = << >>
        /\ tcount = [t \in Task |-> IF t = Wake THEN MaxTime ELSE 0]
        /\ \A c \in EC : tasklist[c] = << >>
    BY TaskingAssumption DEF Init, Clock
  <1>2. 1..Len(<< >>) = {}
    BY EmptySeq
  <1>3. WakeOnTime
    BY <1>1, <1>2 DEF WakeOnTime, On
  <1>4. AlarmArmed
    BY <1>1 DEF AlarmArmed
  <1> QED BY <1>3, <1>4

\* Whatever the tasks call, the sleeping alarm task is queued for exactly the
\* first alarm: future_advance() never leaves it at a later time, and the loop of
\* wakeupcall() sleeps for no other.
THEOREM AlarmStaysArmed == Spec => []AlarmArmed
PROOF
  <1>1. Init => AlarmInv
    BY InitQueued, InitArmed DEF AlarmInv
  <1>2. AlarmInv => AlarmArmed
    BY DEF AlarmInv
  <1> QED BY <1>1, <1>2, NextArms, PTL DEF Spec

(***************************************************************************)
(* The report of a deadlock                                                *)
(***************************************************************************)

\* No client waits for a time beyond TimeBound and no alarm is set beyond it;
\* time passes it only when the alarm task wakes with no alarm left.
TimesInReach ==
  /\ \A t \in On(tasklist[Etime]) : t # Wake => tcount[t] <= TimeBound
  /\ \A i \in DOMAIN alarms : alarms[i].time <= TimeBound
  /\ \/ now <= TimeBound
     \/ now = MaxTime /\ curtask = Wake /\ wakepc = "woken" /\ alarms = << >>

\* The alarm task wakes at its time, not before.
WakeTimely ==
  sim = "running" =>
    /\ curtask = Wake /\ wakepc = "woken" => now >= FirstAlarm
    /\ curtask # Wake /\ Wake \in live => wakepc = "woken"

\* A task is on the list, and there for the value, that its await() named.
WantsKept == \A c \in EC : \A t \in On(tasklist[c]) : want[t].ec = c /\ want[t].value = tcount[t]

DeadlockInv == AlarmInv /\ TimesInReach /\ WakeTimely /\ WantsKept /\ DeadlockIsReal

\* What every case needs.
LEMMA Basics ==
  ASSUME DeadlockInv
  PROVE  /\ IInv /\ TypeOK /\ WakeOnTime /\ AlarmArmed
         /\ TimesInReach /\ WakeTimely /\ WantsKept /\ DeadlockIsReal
         /\ Wake \in Task /\ Etime \in Clock /\ EC = Clock \ {Etime} /\ Client = Task \ {Wake}
         /\ now \in Nat /\ now = count[Etime] /\ TimeBound \in Nat /\ MaxTime \in Nat /\ TimeBound < MaxTime
         /\ \A c \in Clock : On(tasklist[c]) \subseteq live \ {curtask} /\ On(tasklist[c]) \subseteq Task
         /\ \A t \in live \ {curtask} : \E c \in Clock : t \in On(tasklist[c])
         /\ tcount \in [Task -> Nat] /\ want \in [Task -> [ec : Clock, value : Nat]]
         /\ count \in [Clock -> Nat] /\ alarms \in Seq(Alarm)
         /\ sim = "running" => curtask \in live /\ curtask \in Task
PROOF
  <1>1. IInv /\ TypeOK
    BY DEF DeadlockInv, AlarmInv, IInv
  <1>2. now \in Nat /\ now = count[Etime] /\ Etime \in Clock
    BY <1>1, NowType DEF now, Clock
  <1>3. \A c \in Clock : On(tasklist[c]) \subseteq live \ {curtask} /\ On(tasklist[c]) \subseteq Task
    BY <1>1 DEF IInv, Queued, TypeOK
  <1>4. /\ WakeOnTime /\ AlarmArmed
        /\ TimesInReach /\ WakeTimely /\ WantsKept /\ DeadlockIsReal
    BY DEF DeadlockInv, AlarmInv
  <1>5. /\ Wake \in Task /\ EC = Clock \ {Etime} /\ Client = Task \ {Wake}
        /\ TimeBound \in Nat /\ MaxTime \in Nat /\ TimeBound < MaxTime
    BY TaskingAssumption DEF Clock, Client
  <1>6. \A t \in live \ {curtask} : \E c \in Clock : t \in On(tasklist[c])
    BY <1>1 DEF IInv, Queued
  <1>7. /\ tcount \in [Task -> Nat] /\ want \in [Task -> [ec : Clock, value : Nat]]
        /\ count \in [Clock -> Nat] /\ alarms \in Seq(Alarm)
    BY <1>1 DEF TypeOK
  <1>8. sim = "running" => curtask \in live /\ curtask \in Task
    BY <1>1 DEF IInv, TypeOK
  <1> QED BY <1>1, <1>2, <1>3, <1>4, <1>5, <1>6, <1>7, <1>8

\* The first alarm is a time that can be reached.
LEMMA FirstAlarmInReach ==
  ASSUME DeadlockInv
  PROVE  FirstAlarm \in Nat /\ (FirstAlarm <= TimeBound \/ (FirstAlarm = MaxTime /\ alarms = << >>))
PROOF
  <1>1. CASE alarms = << >>
    BY <1>1, Basics DEF FirstAlarm
  <1>2. CASE alarms # << >>
    <2>1. alarms \in Seq(Alarm) /\ Head(alarms) = alarms[1] /\ 1 \in DOMAIN alarms
      <3>1. alarms \in Seq(Alarm)
        BY Basics
      <3>2. Len(alarms) \in Nat /\ Len(alarms) # 0 /\ DOMAIN alarms = 1..Len(alarms)
        BY <1>2, <3>1, LenProperties, EmptySeq
      <3>3. Head(alarms) = alarms[1]
        BY <1>2, <3>1, HeadTailProperties
      <3> QED BY <3>1, <3>2, <3>3
    <2>2. Head(alarms).time <= TimeBound
      BY <2>1, Basics DEF TimesInReach
    <2>3. Head(alarms).time \in Nat
      BY <1>2, Basics, HeadAlarm
    <2>4. FirstAlarm = Head(alarms).time
      BY <1>2 DEF FirstAlarm
    <2> QED BY <2>2, <2>3, <2>4
  <1> QED BY <1>1, <1>2

\* The task taken from the time list runs at its time.
LEMMA PickTimely ==
  ASSUME DeadlockInv, UNCHANGED alarms, NEW S, now <= TimeBound,
         \A t \in S : t # Wake => tcount'[t] <= TimeBound,
         Wake \in S => tcount'[Wake] = FirstAlarm /\ wakepc' = "woken",
         Wake \in live' => wakepc' = "woken",
         \/ sim' = "exit" /\ UNCHANGED count
         \/ curtask' \in S /\ count'[Etime] = tcount'[curtask'] /\ sim' = "running"
  PROVE  /\ \/ now' <= TimeBound
            \/ now' = MaxTime /\ curtask' = Wake /\ wakepc' = "woken" /\ alarms' = << >>
         /\ WakeTimely'
         /\ DeadlockIsReal'
PROOF
  <1>1. FirstAlarm' = FirstAlarm /\ now' = count'[Etime]
    BY DEF FirstAlarm, now
  <1>2. CASE sim' = "exit" /\ UNCHANGED count
    BY <1>2 DEF now, WakeTimely, DeadlockIsReal
  <1>3. CASE curtask' \in S /\ count'[Etime] = tcount'[curtask'] /\ sim' = "running"
    <2>1. DeadlockIsReal'
      BY <1>3 DEF DeadlockIsReal
    <2>2. CASE curtask' # Wake
      BY <1>1, <1>3, <2>1, <2>2 DEF WakeTimely
    <2>3. CASE curtask' = Wake
      <3>1. now' = FirstAlarm /\ wakepc' = "woken"
        BY <1>1, <1>3, <2>3
      <3>2. FirstAlarm \in Nat /\ (FirstAlarm <= TimeBound \/ (FirstAlarm = MaxTime /\ alarms = << >>))
        BY FirstAlarmInReach
      <3> QED BY <1>1, <2>1, <2>3, <3>1, <3>2 DEF WakeTimely
    <2> QED BY <2>2, <2>3
  <1> QED BY <1>2, <1>3

\* A task that goes to sleep.
LEMMA AwaitTimely ==
  ASSUME DeadlockInv, sim = "running", now <= TimeBound,
         NEW c \in Clock, NEW v \in Nat, await(c, v),
         curtask # Wake => (c = Etime => v <= TimeBound) /\ UNCHANGED wakepc,
         curtask = Wake => c = Etime /\ v = FirstAlarm /\ wakepc' = "woken"
  PROVE  TimesInReach' /\ WakeTimely' /\ WantsKept' /\ DeadlockIsReal'
PROOF
  <1>1. /\ TypeOK /\ curtask \in Task /\ curtask \in live /\ Etime \in Clock /\ EC = Clock \ {Etime}
        /\ \A d \in Clock : On(tasklist[d]) \subseteq live \ {curtask} /\ On(tasklist[d]) \subseteq Task
        /\ TimesInReach /\ WakeTimely /\ WantsKept /\ AlarmArmed
        /\ want \in [Task -> [ec : Clock, value : Nat]]
    BY Basics
  <1>2. want' = [want EXCEPT ![curtask] = [ec |-> c, value |-> v]] /\ UNCHANGED <<alarms, live>>
    BY DEF await
  <1>3. /\ tcount'[curtask] = v
        /\ \A t \in Task : t # curtask => tcount'[t] = tcount[t]
        /\ \A d \in Clock : On(tasklist'[d]) \subseteq On(tasklist[d]) \cup (IF d = c THEN {curtask} ELSE {})
        /\ \/ sim' = "exit" /\ curtask' = NoTask /\ UNCHANGED count
           \/ /\ curtask' \in On(tasklist[Etime]) \cup (IF c = Etime THEN {curtask} ELSE {})
              /\ count'[Etime] = tcount'[curtask']
              /\ \A d \in EC : count'[d] = count[d]
              /\ UNCHANGED sim
    BY <1>1, AwaitAddsCaller
  <1> DEFINE S == On(tasklist[Etime]) \cup (IF c = Etime THEN {curtask} ELSE {})
  <1>4. ASSUME NEW t \in S, t # Wake PROVE tcount'[t] <= TimeBound
    <2>1. CASE t \in On(tasklist[Etime])
      <3>1. t # curtask /\ t \in Task /\ tcount[t] <= TimeBound
        BY <1>1, <1>4, <2>1 DEF TimesInReach
      <3> QED BY <1>3, <3>1
    <2>2. CASE c = Etime /\ t = curtask
      BY <1>3, <1>4, <2>2
    <2> QED BY <1>4, <2>1, <2>2
  <1>5. ASSUME Wake \in S PROVE tcount'[Wake] = FirstAlarm /\ wakepc' = "woken"
    <2>1. CASE curtask = Wake
      BY <1>3, <2>1
    <2>2. CASE curtask # Wake
      <3>1. Wake \in live /\ Wake \in Task
        BY <1>1, <1>5, <2>2
      <3> QED BY <1>1, <1>3, <2>2, <3>1 DEF AlarmArmed, FirstAlarm, WakeTimely
    <2> QED BY <2>1, <2>2
  <1>6. Wake \in live' => wakepc' = "woken"
    BY <1>1, <1>2 DEF WakeTimely
  <1> HIDE DEF S
  <1>7. \/ sim' = "exit" /\ UNCHANGED count
        \/ curtask' \in S /\ count'[Etime] = tcount'[curtask'] /\ sim' = "running"
    BY <1>3 DEF S
  <1>8. /\ \/ now' <= TimeBound
           \/ now' = MaxTime /\ curtask' = Wake /\ wakepc' = "woken" /\ alarms' = << >>
        /\ WakeTimely'
        /\ DeadlockIsReal'
    BY <1>2, <1>4, <1>5, <1>6, <1>7, PickTimely
  <1>9. TimesInReach'
    <2>1. \A t \in On(tasklist'[Etime]) : t # Wake => tcount'[t] <= TimeBound
      BY <1>1, <1>3, <1>4 DEF S
    <2> QED BY <1>1, <1>2, <1>8, <2>1 DEF TimesInReach
  <1>10. ASSUME NEW d \in EC, NEW t \in On(tasklist'[d])
         PROVE  want'[t].ec = d /\ want'[t].value = tcount'[t]
    <2>1. CASE t \in On(tasklist[d])
      <3>1. t # curtask /\ t \in Task
        BY <1>1, <2>1
      <3>2. want'[t] = want[t] /\ tcount'[t] = tcount[t]
        BY <1>1, <1>2, <1>3, <3>1
      <3> QED BY <1>1, <2>1, <3>2 DEF WantsKept
    <2>2. CASE d = c /\ t = curtask
      BY <1>1, <1>2, <1>3, <2>2
    <2>3. d \in Clock
      BY <1>1
    <2> QED BY <1>3, <1>10, <2>1, <2>2, <2>3
  <1> QED BY <1>8, <1>9, <1>10 DEF WantsKept

\* A task that ends.
LEMMA ReturnTimely ==
  ASSUME DeadlockInv, sim = "running", now <= TimeBound, Return(curtask), UNCHANGED wakepc
  PROVE  TimesInReach' /\ WakeTimely' /\ WantsKept' /\ DeadlockIsReal'
PROOF
  <1>1. /\ TypeOK /\ Etime \in Clock /\ EC = Clock \ {Etime} /\ Wake \in Task
        /\ \A d \in Clock : On(tasklist[d]) \subseteq live \ {curtask}
        /\ TimesInReach /\ WakeTimely /\ WantsKept /\ AlarmArmed
        /\ tasklist \in [Clock -> Seq(Task)] /\ count \in [Clock -> Nat]
    BY Basics DEF TypeOK
  <1>2. live' = live \ {curtask} /\ UNCHANGED <<tcount, alarms, want>> /\ Dispatch(tasklist, tcount, hint)
    BY DEF Return
  <1>3. /\ \A d \in EC : tasklist'[d] = tasklist[d]
        /\ On(tasklist'[Etime]) \subseteq On(tasklist[Etime])
        /\ \/ sim' = "exit" /\ curtask' = NoTask /\ UNCHANGED count
           \/ /\ curtask' \in On(tasklist[Etime])
              /\ count'[Etime] = tcount[curtask']
              /\ \A d \in EC : count'[d] = count[d]
              /\ UNCHANGED sim
    BY <1>1, <1>2, DispatchPicks
  <1> DEFINE S == On(tasklist[Etime])
  <1>4. \A t \in S : t # Wake => tcount'[t] <= TimeBound
    BY <1>1, <1>2 DEF TimesInReach
  <1>5. Wake \in S => tcount'[Wake] = FirstAlarm /\ wakepc' = "woken"
    BY <1>1, <1>2 DEF AlarmArmed, FirstAlarm, WakeTimely
  <1>6. Wake \in live' => wakepc' = "woken"
    BY <1>1, <1>2 DEF WakeTimely
  <1> HIDE DEF S
  <1>7. \/ sim' = "exit" /\ UNCHANGED count
        \/ curtask' \in S /\ count'[Etime] = tcount'[curtask'] /\ sim' = "running"
    BY <1>2, <1>3 DEF S
  <1>8. /\ \/ now' <= TimeBound
           \/ now' = MaxTime /\ curtask' = Wake /\ wakepc' = "woken" /\ alarms' = << >>
        /\ WakeTimely'
        /\ DeadlockIsReal'
    BY <1>2, <1>4, <1>5, <1>6, <1>7, PickTimely
  <1>9. TimesInReach'
    BY <1>1, <1>2, <1>3, <1>4, <1>8 DEF TimesInReach, S
  <1>10. WantsKept'
    BY <1>1, <1>2, <1>3 DEF WantsKept
  <1> QED BY <1>8, <1>9, <1>10

\* An advance.
LEMMA AdvanceTimely ==
  ASSUME DeadlockInv, now <= TimeBound, NEW c \in EC, advance(c), UNCHANGED want
  PROVE  /\ now' = now
         /\ \A t \in On(tasklist'[Etime]) : t # Wake => tcount'[t] <= TimeBound
         /\ WantsKept'
PROOF
  <1>1. IInv /\ TimesInReach /\ WantsKept
    BY Basics
  <1>2. /\ count'[Etime] = count[Etime]
        /\ \A d \in EC : \A t \in On(tasklist'[d]) : t \in On(tasklist[d]) /\ tcount'[t] = tcount[t]
        /\ \A t \in On(tasklist'[Etime]) :
             \/ t \in On(tasklist[c]) /\ tcount'[t] = now
             \/ t \in On(tasklist[Etime]) /\ tcount'[t] = tcount[t]
    BY <1>1, AdvanceFrees
  <1>3. now' = now
    BY <1>2 DEF now
  <1>4. \A t \in On(tasklist'[Etime]) : t # Wake => tcount'[t] <= TimeBound
    BY <1>1, <1>2 DEF TimesInReach
  <1>5. WantsKept'
    BY <1>1, <1>2 DEF WantsKept
  <1> QED BY <1>3, <1>4, <1>5

\* A new alarm.
LEMMA FutureAdvanceTimely ==
  ASSUME DeadlockInv, IInv', NEW t \in Client, FutureAdvance(t)
  PROVE  TimesInReach' /\ WakeTimely' /\ WantsKept' /\ DeadlockIsReal'
PROOF
  <1>1. PICK c \in EC, w \in (now+1)..TimeBound, k \in 1..(Len(alarms) + 1) :
          /\ alarms' = InsertAt(alarms, k, [ec |-> c, time |-> w])
          /\ \/ UNCHANGED <<tasklist, tcount, want>> /\ (sim' = "fatal" => Wake \notin live)
                /\ sim' \in {sim, "fatal"}
             \/ \E n : /\ tasklist' = [tasklist EXCEPT ![Etime] = n]
                       /\ tcount' = [tcount EXCEPT ![Wake] = w]
                       /\ want' = [want EXCEPT ![Wake].value = w]
                       /\ UNCHANGED sim
    BY DEF FutureAdvance, Running
  <1>2. /\ UNCHANGED <<count, curtask, wakepc, live>> /\ sim = "running" /\ curtask \in Client
    BY DEF FutureAdvance, Running
  <1>3. /\ TypeOK /\ Etime \in Clock /\ EC = Clock \ {Etime} /\ Wake \in Task /\ Client = Task \ {Wake}
        /\ \A d \in Clock : On(tasklist[d]) \subseteq live \ {curtask} /\ On(tasklist[d]) \subseteq Task
        /\ \A u \in live \ {curtask} : \E d \in Clock : u \in On(tasklist[d])
        /\ TimesInReach /\ WakeTimely /\ WantsKept /\ WakeOnTime
        /\ tcount \in [Task -> Nat] /\ want \in [Task -> [ec : Clock, value : Nat]]
        /\ alarms \in Seq(Alarm) /\ DOMAIN tasklist = Clock
        /\ now \in Nat /\ TimeBound \in Nat /\ TimeBound < MaxTime /\ MaxTime \in Nat
    BY Basics DEF TypeOK
  <1>4. now <= TimeBound /\ now' = now
    BY <1>2, <1>3 DEF TimesInReach, now
  <1>5. \A d \in EC : tasklist'[d] = tasklist[d]
    BY <1>1, <1>3
  <1>6. /\ \A u \in Task : u # Wake => tcount'[u] = tcount[u] /\ want'[u] = want[u]
    BY <1>1, <1>3
  <1>7. ASSUME NEW u \in On(tasklist'[Etime]), u # Wake PROVE tcount'[u] <= TimeBound
    <2>1. u \in live \ {curtask}
      BY <1>2, <1>3 DEF IInv, Queued
    <2>2. PICK d \in Clock : u \in On(tasklist[d])
      BY <1>3, <2>1
    <2>3. d = Etime
      <3>1. d \in EC => u \in On(tasklist'[d])
        BY <1>5, <2>2
      <3>2. d # Etime => On(tasklist'[d]) \cap On(tasklist'[Etime]) = {}
        BY <1>3 DEF IInv, Queued
      <3> QED BY <1>3, <1>7, <3>1, <3>2
    <2>4. tcount[u] <= TimeBound /\ u \in Task
      BY <1>3, <1>7, <2>2, <2>3 DEF TimesInReach
    <2> QED BY <1>6, <1>7, <2>4
  <1>8. \A i \in DOMAIN alarms' : alarms'[i].time <= TimeBound
    <2> DEFINE a == [ec |-> c, time |-> w]
    <2>1. a \in Alarm /\ a.time <= TimeBound
      <3>1. w \in Nat /\ w <= TimeBound
        BY <1>3
      <3> QED BY <3>1 DEF Alarm
    <2> HIDE DEF a
    <2>2. alarms' = InsertAt(alarms, k, a)
      BY <1>1 DEF a
    <2>3. /\ InsertAt(alarms, k, a) \in Seq(Alarm) /\ Len(InsertAt(alarms, k, a)) = Len(alarms) + 1
          /\ \A i \in 1..(Len(alarms) + 1) : InsertAt(alarms, k, a)[i] =
               IF i < k THEN alarms[i] ELSE IF i = k THEN a ELSE alarms[i-1]
      BY <1>3, <2>1, InsertAtProperties
    <2>4. /\ Len(alarms) \in Nat /\ DOMAIN alarms = 1..Len(alarms)
          /\ DOMAIN alarms' = 1..(Len(alarms) + 1)
      BY <1>3, <2>2, <2>3, LenProperties
    <2>5. ASSUME NEW i \in 1..(Len(alarms) + 1) PROVE alarms'[i].time <= TimeBound
      <3>1. CASE i < k
        <4>1. i \in DOMAIN alarms /\ alarms'[i] = alarms[i]
          BY <2>2, <2>3, <2>4, <3>1
        <4> QED BY <1>3, <4>1 DEF TimesInReach
      <3>2. CASE i = k
        BY <2>1, <2>2, <2>3, <3>2
      <3>3. CASE i > k
        <4>1. i-1 \in DOMAIN alarms /\ ~(i < k) /\ i # k
          BY <2>4, <3>3
        <4>2. alarms'[i] = alarms[i-1]
          BY <2>2, <2>3, <4>1
        <4> QED BY <1>3, <4>1, <4>2 DEF TimesInReach
      <3> QED BY <2>4, <3>1, <3>2, <3>3
    <2> QED BY <2>4, <2>5
  <1>9. TimesInReach'
    BY <1>4, <1>7, <1>8 DEF TimesInReach
  <1>10. WakeTimely'
    BY <1>1, <1>2, <1>3 DEF WakeTimely
  <1>11. WantsKept'
    <2> SUFFICES ASSUME NEW d \in EC, NEW u \in On(tasklist'[d])
                 PROVE  want'[u].ec = d /\ want'[u].value = tcount'[u]
      BY DEF WantsKept
    <2>1. u \in On(tasklist[d]) /\ d \in Clock
      BY <1>3, <1>5
    <2>2. u \in Task /\ u # Wake
      BY <1>3, <2>1 DEF WakeOnTime
    <2> QED BY <1>3, <1>6, <2>1, <2>2 DEF WantsKept
  <1>12. DeadlockIsReal'
    BY <1>1, <1>2 DEF DeadlockIsReal
  <1> QED BY <1>9, <1>10, <1>11, <1>12

\* One case per operation.
LEMMA NextTimely == DeadlockInv /\ [Next]_vars => DeadlockInv'
PROOF
  <1> DEFINE Timely == TimesInReach /\ WakeTimely /\ WantsKept /\ DeadlockIsReal
  <1> SUFFICES ASSUME DeadlockInv, [Next]_vars PROVE Timely'
    BY NextArms DEF DeadlockInv
  <1>0. /\ IInv /\ TypeOK /\ WakeOnTime /\ AlarmArmed
        /\ TimesInReach /\ WakeTimely /\ WantsKept /\ DeadlockIsReal
        /\ Wake \in Task /\ Etime \in Clock /\ EC = Clock \ {Etime} /\ Client = Task \ {Wake}
        /\ now \in Nat /\ now = count[Etime] /\ TimeBound \in Nat /\ MaxTime \in Nat /\ TimeBound < MaxTime
        /\ \A c \in Clock : On(tasklist[c]) \subseteq live \ {curtask} /\ On(tasklist[c]) \subseteq Task
        /\ \A t \in live \ {curtask} : \E c \in Clock : t \in On(tasklist[c])
        /\ want \in [Task -> [ec : Clock, value : Nat]]
        /\ count \in [Clock -> Nat] /\ alarms \in Seq(Alarm)
    BY Basics
  <1>a. curtask # Wake \/ wakepc # "woken" \/ alarms # << >> => now <= TimeBound
    BY <1>0 DEF TimesInReach
  <1>1. ASSUME NEW t \in Client, Await(t) PROVE Timely'
    <2>1. PICK c \in EC, v \in 1..(CountBound + 1) : await(c, v)
      BY <1>1 DEF Await
    <2>2. v \in Nat /\ c \in Clock /\ c # Etime /\ curtask # Wake /\ sim = "running" /\ UNCHANGED wakepc
      BY <1>0, <1>1, TaskingAssumption DEF Await, Running
    <2> QED BY <1>a, <2>1, <2>2, AwaitTimely
  <1>2. ASSUME NEW t \in Client, Epause(t) PROVE Timely'
    <2>1. /\ sim = "running" /\ curtask = t /\ t # Wake /\ UNCHANGED wakepc /\ now <= TimeBound
      BY <1>0, <1>2, <1>a DEF Epause, Running
    <2>2. PICK n \in 1..TimeBound :
            /\ now + n <= TimeBound
            /\ \/ /\ count' = [count EXCEPT ![Etime] = now + n]
                  /\ want' = [want EXCEPT ![t] = [ec |-> Etime, value |-> now + n]]
                  /\ UNCHANGED <<tasklist, tcount, curtask, hint, alarms, live, sim>>
               \/ await(Etime, now + n)
      BY <1>2 DEF Epause
    <2>3. CASE await(Etime, now + n)
      <3>1. now + n \in Nat
        BY <1>0
      <3> QED BY <1>0, <2>1, <2>2, <2>3, <3>1, AwaitTimely
    <2>4. CASE /\ count' = [count EXCEPT ![Etime] = now + n]
               /\ want' = [want EXCEPT ![t] = [ec |-> Etime, value |-> now + n]]
               /\ UNCHANGED <<tasklist, tcount, curtask, hint, alarms, live, sim>>
      <3>1. now' = now + n
        BY <1>0, <2>4 DEF now
      <3>2. TimesInReach'
        BY <1>0, <2>2, <2>4, <3>1 DEF TimesInReach
      <3>3. WakeTimely' /\ DeadlockIsReal'
        BY <1>0, <2>1, <2>4 DEF WakeTimely, DeadlockIsReal
      <3>4. \A c \in EC : \A u \in On(tasklist[c]) : want'[u] = want[u]
        BY <1>0, <2>1, <2>4
      <3>5. WantsKept'
        BY <1>0, <2>4, <3>4 DEF WantsKept
      <3> QED BY <3>2, <3>3, <3>5
    <2> QED BY <2>2, <2>3, <2>4
  <1>3. ASSUME NEW t \in Client, Advance(t) PROVE Timely'
    <2>1. PICK c \in EC : advance(c)
      BY <1>3 DEF Advance
    <2>2. /\ UNCHANGED <<curtask, alarms, want, wakepc, live, sim>> /\ sim = "running"
          /\ curtask # Wake
      BY <1>0, <1>3 DEF Advance, Running
    <2>3. /\ now' = now /\ WantsKept'
          /\ \A u \in On(tasklist'[Etime]) : u # Wake => tcount'[u] <= TimeBound
      BY <1>a, <2>1, <2>2, AdvanceTimely
    <2>4. TimesInReach'
      BY <1>0, <1>a, <2>2, <2>3 DEF TimesInReach
    <2>5. WakeTimely' /\ DeadlockIsReal'
      BY <1>0, <2>2 DEF WakeTimely, DeadlockIsReal
    <2> QED BY <2>3, <2>4, <2>5
  <1>4. ASSUME NEW t \in Client, FutureAdvance(t) PROVE Timely'
    <2>1. IInv'
      BY <1>0, NextKeeps
    <2> QED BY <1>4, <2>1, FutureAdvanceTimely
  <1>5. ASSUME NEW t \in Client, FinishTask(t) PROVE Timely'
    <2>1. sim = "running" /\ curtask # Wake /\ Return(curtask) /\ UNCHANGED wakepc
      BY <1>0, <1>5 DEF FinishTask, Running
    <2> QED BY <1>a, <2>1, ReturnTimely
  <1>6. CASE WakeNoAlarm
    <2>1. /\ sim = "running" /\ curtask = Wake /\ wakepc = "woken" /\ alarms = << >>
          /\ sim' = IF now = MaxTime THEN "deadlock" ELSE "fatal"
          /\ UNCHANGED <<count, tasklist, tcount, curtask, hint, alarms, want, wakepc, live>>
      BY <1>6 DEF WakeNoAlarm, Running
    <2>2. now = MaxTime
      <3>1. now >= MaxTime
        BY <1>0, <2>1 DEF WakeTimely, FirstAlarm
      <3>2. now <= TimeBound \/ now = MaxTime
        BY <1>0 DEF TimesInReach
      <3> QED BY <1>0, <3>1, <3>2
    <2>3. ASSUME NEW t \in live \ {Wake} PROVE want[t].ec # Etime /\ count[want[t].ec] < want[t].value
      <3>1. PICK c \in Clock : t \in On(tasklist[c])
        BY <1>0, <2>1
      <3>2. c # Etime
        <4>1. t \in On(tasklist[Etime]) => tcount[t] <= TimeBound /\ tcount[t] >= now /\ tcount[t] \in Nat
          BY <1>0 DEF TimesInReach, IInv, Queued, TypeOK
        <4> QED BY <1>0, <2>2, <3>1, <4>1
      <3>3. want[t].ec = c /\ want[t].value = tcount[t] /\ tcount[t] > count[c]
        BY <1>0, <3>1, <3>2 DEF WantsKept, IInv, Queued
      <3>4. count[c] \in Nat /\ tcount[t] \in Nat
        BY <1>0, <3>1 DEF TypeOK
      <3> QED BY <3>2, <3>3, <3>4
    <2>4. DeadlockIsReal'
      BY <2>1, <2>2, <2>3 DEF DeadlockIsReal
    <2>5. TimesInReach' /\ WakeTimely' /\ WantsKept'
      BY <1>0, <2>1, <2>2 DEF TimesInReach, WakeTimely, WantsKept, now
    <2> QED BY <2>4, <2>5
  <1>7. CASE WakeAdvance
    <2>1. /\ sim = "running" /\ curtask = Wake /\ wakepc = "woken" /\ alarms # << >>
          /\ alarms' = Tail(alarms) /\ UNCHANGED <<curtask, want, live>>
      BY <1>7 DEF WakeAdvance, Running
    <2>2. Head(alarms).ec \in EC /\ Head(alarms).time \in Nat
      BY <1>0, <2>1, HeadAlarm
    <2>3. ~(now < Head(alarms).time)
      BY <1>0, <2>1, <2>2 DEF WakeTimely, FirstAlarm
    <2>4. advance(Head(alarms).ec) /\ wakepc' \in {"break", "rearm"} /\ UNCHANGED sim
      BY <1>7, <2>3 DEF WakeAdvance
    <2>5. /\ now' = now /\ WantsKept'
          /\ \A u \in On(tasklist'[Etime]) : u # Wake => tcount'[u] <= TimeBound
      BY <1>a, <2>1, <2>2, <2>4, AdvanceTimely
    <2>6. \A i \in DOMAIN alarms' : alarms'[i].time <= TimeBound
      <3>1. /\ Len(alarms) \in Nat /\ DOMAIN alarms = 1..Len(alarms)
            /\ Tail(alarms) \in Seq(Alarm) /\ Len(Tail(alarms)) = Len(alarms) - 1
            /\ \A i \in 1..Len(Tail(alarms)) : Tail(alarms)[i] = alarms[i+1]
        BY <1>0, <2>1, LenProperties, HeadTailProperties
      <3>2. DOMAIN Tail(alarms) = 1..Len(Tail(alarms))
        BY <3>1, LenProperties
      <3>3. \A i \in 1..Len(Tail(alarms)) : i+1 \in DOMAIN alarms
        BY <3>1
      <3> QED BY <1>0, <2>1, <3>1, <3>2, <3>3 DEF TimesInReach
    <2>7. TimesInReach'
      BY <1>a, <2>1, <2>5, <2>6 DEF TimesInReach
    <2>8. WakeTimely' /\ DeadlockIsReal'
      BY <2>1, <2>4 DEF WakeTimely, DeadlockIsReal
    <2> QED BY <2>5, <2>7, <2>8
  <1>8. CASE WakeRearm
    <2>1. /\ sim = "running" /\ curtask = Wake /\ wakepc = "rearm" /\ wakepc' = "woken"
          /\ \/ await(Etime, FirstAlarm)
             \/ /\ now >= FirstAlarm
                /\ want' = [want EXCEPT ![Wake].value = FirstAlarm]
                /\ UNCHANGED <<count, tasklist, tcount, curtask, hint, alarms, live, sim>>
      BY <1>8 DEF WakeRearm, Sleep, Running, FirstAlarm
    <2>2. CASE await(Etime, FirstAlarm)
      <3>1. FirstAlarm \in Nat
        BY FirstAlarmInReach
      <3> QED BY <1>0, <1>a, <2>1, <2>2, <3>1, AwaitTimely
    <2>3. CASE /\ now >= FirstAlarm
               /\ want' = [want EXCEPT ![Wake].value = FirstAlarm]
               /\ UNCHANGED <<count, tasklist, tcount, curtask, hint, alarms, live, sim>>
      <3>1. now' = now /\ FirstAlarm' = FirstAlarm
        BY <2>3 DEF now, FirstAlarm
      <3>2. TimesInReach'
        BY <1>0, <1>a, <2>1, <2>3, <3>1 DEF TimesInReach
      <3>3. WakeTimely' /\ DeadlockIsReal'
        BY <2>1, <2>3, <3>1 DEF WakeTimely, DeadlockIsReal
      <3>4. \A c \in EC : \A u \in On(tasklist[c]) : want'[u] = want[u]
        BY <1>0, <2>3 DEF WakeOnTime
      <3>5. WantsKept'
        BY <1>0, <2>3, <3>4 DEF WantsKept
      <3> QED BY <3>2, <3>3, <3>5
    <2> QED BY <2>1, <2>2, <2>3
  <1>9. CASE WakeBreak
    <2>1. sim = "running" /\ wakepc # "woken" /\ Return(curtask) /\ UNCHANGED wakepc
      BY <1>9 DEF WakeBreak, Running
    <2> QED BY <1>a, <2>1, ReturnTimely
  <1>10. CASE UNCHANGED vars
    BY <1>0, <1>10 DEF vars, TimesInReach, WakeTimely, WantsKept, DeadlockIsReal, now, FirstAlarm
  <1> QED BY <1>1, <1>2, <1>3, <1>4, <1>5, <1>6, <1>7, <1>8, <1>9, <1>10
          DEF Next, ClientStep, WakeStep, Halted

LEMMA InitTimely == Init => TimesInReach /\ WakeTimely /\ WantsKept /\ DeadlockIsReal
PROOF
  <1> SUFFICES ASSUME Init PROVE TimesInReach /\ WakeTimely /\ WantsKept /\ DeadlockIsReal
    OBVIOUS
  <1>1. /\ alarms = << >> /\ wakepc = "woken" /\ sim = "running" /\ now = 0
        /\ tcount = [t \in Task |-> IF t = Wake THEN MaxTime ELSE 0]
        /\ TimeBound \in Nat /\ IInv
        /\ \A c \in EC : tasklist[c] = << >>
    BY InitQueued, TaskingAssumption DEF Init, Clock, now
  <1>2. 1..Len(<< >>) = {} /\ DOMAIN << >> = {}
    BY EmptySeq
  <1>3. curtask # Wake
    BY InitQueued DEF Client
  <1>4. TimesInReach
    <2>1. \A t \in On(tasklist[Etime]) : t \in Task
      BY <1>1 DEF IInv, Queued, TypeOK, Clock
    <2> QED BY <1>1, <1>2, <2>1 DEF TimesInReach
  <1>5. WantsKept
    BY <1>1, <1>2 DEF WantsKept, On
  <1> QED BY <1>1, <1>3, <1>4, <1>5 DEF WakeTimely, DeadlockIsReal

\* wakeupcall() reports a deadlock only when every other task sleeps on an event
\* count that has not reached its value and no alarm is left to wake one, and
\* its fatal() calls are reached only once sim_finish has ended it.
THEOREM DeadlockReportedIsReal == Spec => []DeadlockIsReal
PROOF
  <1>1. Init => DeadlockInv
    BY InitQueued, InitArmed, InitTimely DEF DeadlockInv, AlarmInv
  <1>2. DeadlockInv => DeadlockIsReal
    BY DEF DeadlockInv
  <1> QED BY <1>1, <1>2, NextTimely, PTL DEF Spec

(***************************************************************************)
(* What the mapping needs besides the invariants of the lists and alarms   *)
(***************************************************************************)

\* Alarm_List is ordered by time.
AlarmsInOrder == \A i, j \in DOMAIN alarms : i < j => alarms[i].time <= alarms[j].time

\* The alarm task runs no later than the first alarm, and when it is woken not
\* earlier either.
WakeIsPunctual ==
  sim = "running" /\ curtask = Wake =>
    now <= FirstAlarm /\ (wakepc = "woken" => now = FirstAlarm)

\* A task on the time list waits there for the time its await() named, or it
\* was released by an event count that reached its value and is due now.
DueOrTimed(l, tc, w, cnt) ==
  \A t \in On(l) :
    IF w[t].ec = Etime
    THEN w[t].value = tc[t]
    ELSE tc[t] = cnt[Etime] /\ cnt[w[t].ec] >= w[t].value

ReleasedOrTimed == DueOrTimed(tasklist[Etime], tcount, want, count)

\* The alarm task awaits time only.
WakeAwaitsTime == want[Wake].ec = Etime

InterfaceInv ==
  DeadlockInv /\ AlarmsInOrder /\ WakeIsPunctual /\ ReleasedOrTimed /\ WakeAwaitsTime

(***************************************************************************)
(* Bags and minima                                                         *)
(***************************************************************************)

LEMMA EarliestIsLeast ==
  ASSUME NEW S \in SUBSET Nat, NEW m \in S, \A x \in S : m <= x
  PROVE  Interface!Earliest(S) = m
PROOF
  <1>1. \A n \in S : (\A x \in S : n <= x) => n = m
    OBVIOUS
  <1> QED BY <1>1 DEF Interface!Earliest

\* The bag of a list has the elements of the list.
LEMMA BagElements ==
  ASSUME NEW S, NEW s \in Seq(S)
  PROVE  BagToSet(ToBag(s)) = {s[i] : i \in 1..Len(s)}
BY LenProperties DEF BagToSet, ToBag, Range

\* One more element.
LEMMA BagOfInsert ==
  ASSUME NEW S, NEW s \in Seq(S), NEW k \in 1..(Len(s) + 1), NEW x \in S
  PROVE  ToBag(InsertAt(s, k, x)) = ToBag(s) (+) SetToBag({x})
PROOF
  <1>0. /\ InsertAt(s, k, x) \in Seq(S) /\ Len(InsertAt(s, k, x)) = Len(s) + 1
        /\ \A i \in 1..(Len(s) + 1) :
             InsertAt(s, k, x)[i] = IF i < k THEN s[i] ELSE IF i = k THEN x ELSE s[i-1]
    <2>1. InsertAt(s, k, x) \in Seq(S)
      BY InsertAtProperties
    <2>2. Len(InsertAt(s, k, x)) = Len(s) + 1
      BY InsertAtProperties
    <2>3. ASSUME NEW i \in 1..(Len(s) + 1)
          PROVE  InsertAt(s, k, x)[i] = IF i < k THEN s[i] ELSE IF i = k THEN x ELSE s[i-1]
      BY InsertAtProperties
    <2> QED BY <2>1, <2>2, <2>3
  <1> DEFINE r == InsertAt(s, k, x)
  <1>1. /\ r \in Seq(S) /\ Len(r) = Len(s) + 1 /\ Len(s) \in Nat
        /\ \A i \in 1..(Len(s) + 1) : r[i] = IF i < k THEN s[i] ELSE IF i = k THEN x ELSE s[i-1]
    BY <1>0, LenProperties
  <1> HIDE DEF r
  <1> DEFINE At(q, y) == {i \in 1..Len(q) : q[i] = y}
             up == [i \in 1..Len(s) |-> IF i < k THEN i ELSE i+1]
  <1>2. \A q \in Seq(S) : ToBag(q) = [y \in {q[i] : i \in 1..Len(q)} |-> Cardinality(At(q, y))]
    BY LenProperties DEF ToBag, Range
  <1>3. \A q \in Seq(S) : \A y : IsFiniteSet(At(q, y))
    <2> SUFFICES ASSUME NEW q \in Seq(S), NEW y PROVE IsFiniteSet(At(q, y))
      OBVIOUS
    <2>1. IsFiniteSet(1..Len(q))
      BY LenProperties, FS_Interval
    <2> QED BY <2>1, FS_Subset
  <1>4. ASSUME NEW y
        PROVE  Cardinality(At(r, y)) = Cardinality(At(s, y)) + IF y = x THEN 1 ELSE 0
    <2> DEFINE A == At(s, y)
               B == At(r, y) \ {k}
               f == [i \in A |-> up[i]]
    <2>1. \A i \in 1..Len(s) : up[i] \in 1..Len(r) /\ up[i] # k /\ r[up[i]] = s[i]
      <3> TAKE i \in 1..Len(s)
      <3>1. CASE i < k
        BY <1>1, <3>1
      <3>2. CASE i >= k
        <4>1. up[i] = i+1 /\ i+1 \in 1..(Len(s) + 1) /\ ~(i+1 < k) /\ i+1 # k /\ (i+1)-1 = i
          BY <1>1, <3>2
        <4> QED BY <1>1, <4>1
      <3> QED BY <1>1, <3>1, <3>2
    <2>2. \A j \in 1..Len(r) : j # k => \E i \in 1..Len(s) : up[i] = j
      <3> SUFFICES ASSUME NEW j \in 1..Len(r), j # k PROVE \E i \in 1..Len(s) : up[i] = j
        OBVIOUS
      <3>1. CASE j < k
        <4>1. j \in 1..Len(s) /\ up[j] = j
          BY <1>1, <3>1
        <4> QED BY <4>1
      <3>2. CASE j > k
        <4>1. j-1 \in 1..Len(s) /\ ~(j-1 < k) /\ (j-1)+1 = j
          BY <1>1, <3>2
        <4> QED BY <4>1
      <3> QED BY <1>1, <3>1, <3>2
    <2>3. \A i, j \in 1..Len(s) : up[i] = up[j] => i = j
      BY <1>1
    <2> HIDE DEF up
    <2>4. f \in Bijection(A, B)
      <3>1. f \in [A -> B]
        BY <2>1
      <3>2. \A i, j \in A : f[i] = f[j] => i = j
        BY <2>3
      <3>3. \A j \in B : \E i \in A : f[i] = j
        BY <2>1, <2>2
      <3> QED BY <3>1, <3>2, <3>3 DEF Bijection, Injection, Surjection, IsInjective
    <2>5. Cardinality(B) = Cardinality(A)
      <3>1. IsFiniteSet(A) /\ ExistsBijection(A, B)
        BY <1>1, <1>3, <2>4 DEF ExistsBijection
      <3> HIDE DEF A, B
      <3> QED BY <3>1, FS_Bijection
    <2>6. k \in 1..Len(r) /\ r[k] = x
      BY <1>1
    <2>7. /\ IsFiniteSet(At(r, y)) /\ Cardinality(At(r, y)) \in Nat /\ Cardinality(A) \in Nat
          /\ Cardinality(B) = IF k \in At(r, y) THEN Cardinality(At(r, y)) - 1 ELSE Cardinality(At(r, y))
      <3>1. IsFiniteSet(A) /\ IsFiniteSet(At(r, y))
        BY <1>1, <1>3
      <3> HIDE DEF At
      <3>2. Cardinality(At(r, y)) \in Nat /\ Cardinality(A) \in Nat
        BY <3>1, FS_CardinalityType
      <3> QED BY <3>1, <3>2, FS_RemoveElement
    <2>8. k \in At(r, y) <=> y = x
      BY <2>6
    <2> QED BY <2>5, <2>7, <2>8
  <1>5. {r[i] : i \in 1..Len(r)} = {s[i] : i \in 1..Len(s)} \cup {x}
    <2>1. \A i \in 1..Len(r) : r[i] \in {s[j] : j \in 1..Len(s)} \cup {x}
      <3> TAKE i \in 1..Len(r)
      <3>1. CASE i < k
        BY <1>1, <3>1
      <3>2. CASE i > k
        <4>1. i-1 \in 1..Len(s) /\ r[i] = s[i-1]
          BY <1>1, <3>2
        <4> QED BY <4>1
      <3> QED BY <1>1, <3>1, <3>2
    <2>2. \A i \in 1..Len(s) : \E j \in 1..Len(r) : r[j] = s[i]
      <3> TAKE i \in 1..Len(s)
      <3>1. CASE i < k
        <4>1. i \in 1..Len(r) /\ r[i] = s[i]
          BY <1>1, <3>1
        <4> QED BY <4>1
      <3>2. CASE i >= k
        <4>1. i+1 \in 1..Len(r) /\ ~(i+1 < k) /\ i+1 # k /\ (i+1)-1 = i
          BY <1>1, <3>2
        <4>2. r[i+1] = s[i]
          BY <1>1, <4>1
        <4> QED BY <4>1, <4>2
      <3> QED BY <1>1, <3>1, <3>2
    <2>3. k \in 1..Len(r) /\ r[k] = x
      BY <1>1
    <2> QED BY <2>1, <2>2, <2>3
  <1>6. ASSUME NEW y, y \notin {s[i] : i \in 1..Len(s)} PROVE Cardinality(At(s, y)) = 0
    <2>1. At(s, y) = {}
      BY <1>6
    <2> QED BY <2>1, FS_EmptySet
  <1>7. ASSUME NEW y PROVE Cardinality(At(s, y)) \in Nat
    BY <1>3, FS_CardinalityType
  <1> DEFINE E == {s[i] : i \in 1..Len(s)}
             card == [y \in E |-> Cardinality(At(s, y))]
  <1>8. ToBag(r) = [y \in E \cup {x} |-> Cardinality(At(r, y))] /\ ToBag(s) = card
    BY <1>1, <1>2, <1>5
  <1>9. \A y \in E \cup {x} :
          Cardinality(At(r, y)) = (IF y \in E THEN card[y] ELSE 0) + (IF y = x THEN 1 ELSE 0)
    BY <1>4, <1>6, <1>7
  <1> HIDE DEF E, At, card
  <1>10. DOMAIN card = E
    BY DEF card
  <1>11. ToBag(s) (+) SetToBag({x}) =
           [y \in E \cup {x} |-> (IF y \in E THEN card[y] ELSE 0) + (IF y = x THEN 1 ELSE 0)]
    BY <1>8, <1>10 DEF (+), SetToBag
  <1> QED BY <1>8, <1>9, <1>11 DEF r

\* EventCounts has the same bags.
LEMMA BagSum == \A b, c : Interface!(+)(b, Interface!SetToBag(c)) = b (+) SetToBag(c)
BY DEF (+), SetToBag, Interface!(+), Interface!SetToBag

LEMMA BagDifference == \A b, c : Interface!(-)(b, Interface!SetToBag(c)) = b (-) SetToBag(c)
BY DEF (-), SetToBag, Interface!(-), Interface!SetToBag

(***************************************************************************)
(* Selecting the next task                                                 *)
(***************************************************************************)

\* The first task of the time list is the one the interface resumes: a ready
\* task when there is one, else one that waits for the earliest time.
LEMMA DispatchResumes ==
  ASSUME TypeOK,
         NEW lists \in [Clock -> Seq(Task)], NEW tc \in [Task -> Nat], NEW h,
         NEW waiting \in SUBSET Task, NEW w \in [Task -> [ec : Clock, value : Nat]],
         Queued(lists, tc, waiting, count),
         \A c \in EC : \A t \in On(lists[c]) : w[t].ec = c /\ w[t].value = tc[t],
         DueOrTimed(lists[Etime], tc, w, count),
         Dispatch(lists, tc, h)
  PROVE  /\ Interface!Resume(waiting, w)
         /\ DueOrTimed(tasklist'[Etime], tc, w, count')
PROOF
  <1> DEFINE l == lists[Etime]
             ready == {t \in waiting : count[w[t].ec] >= w[t].value}
             timed == {t \in waiting : w[t].ec = Etime}
             due == Interface!Earliest({w[t].value : t \in timed})
  <1>1. /\ Etime \in Clock /\ EC = Clock \ {Etime} /\ l \in Seq(Task)
        /\ count \in [Clock -> Nat] /\ now = count[Etime] /\ now \in Nat
    BY TaskingAssumption, NowType DEF TypeOK, Clock, now
  <1>2. /\ Sorted(l, tc) /\ On(l) \subseteq waiting
        /\ \A t \in On(l) : t \in Task /\ tc[t] \in Nat /\ tc[t] >= now
    BY <1>1 DEF Queued
  <1>3. \A t \in waiting : t \notin On(l) => w[t].ec # Etime /\ ~(count[w[t].ec] >= w[t].value)
    <2> SUFFICES ASSUME NEW t \in waiting, t \notin On(l)
                 PROVE  w[t].ec # Etime /\ ~(count[w[t].ec] >= w[t].value)
      OBVIOUS
    <2>1. PICK c \in EC : t \in On(lists[c])
      BY <1>1 DEF Queued
    <2>2. w[t].ec = c /\ w[t].value = tc[t] /\ tc[t] > count[c]
      BY <2>1 DEF Queued
    <2>3. count[c] \in Nat /\ tc[t] \in Nat
      BY <1>1
    <2> QED BY <1>1, <2>2, <2>3
  <1>4. \A t \in On(l) : t \in ready <=> tc[t] = now
    <2> SUFFICES ASSUME NEW t \in On(l) PROVE t \in ready <=> tc[t] = now
      OBVIOUS
    <2>1. CASE w[t].ec = Etime
      <3>1. w[t].value = tc[t]
        BY <2>1 DEF DueOrTimed
      <3> QED BY <1>1, <1>2, <2>1, <3>1
    <2>2. CASE w[t].ec # Etime
      BY <1>1, <1>2, <2>2 DEF DueOrTimed
    <2> QED BY <2>1, <2>2
  <1>5. ready \subseteq On(l) /\ timed \subseteq On(l)
    BY <1>3
  <1>6. Interface!Resume(waiting, w) <=>
          IF ready # {}
          THEN curtask' \in ready /\ UNCHANGED <<count, sim>>
          ELSE IF timed # {}
          THEN /\ curtask' \in {t \in timed : w[t].value = due}
               /\ count' = [count EXCEPT ![Etime] = due]
               /\ UNCHANGED sim
          ELSE curtask' = NoTask /\ sim' = "exit" /\ UNCHANGED count
    BY DEF Interface!Resume, Interface!Ready
  <1> HIDE DEF ready, due
  <1>7. CASE l = << >>
    <2>1. On(l) = {}
      BY <1>7, EmptySeq DEF On
    <2>2. sim' = "exit" /\ tasklist' = lists /\ curtask' = NoTask /\ UNCHANGED count
      BY <1>7 DEF Dispatch
    <2> QED BY <1>5, <1>6, <2>1, <2>2 DEF DueOrTimed
  <1>8. CASE l # << >>
    <2> DEFINE next == Head(l)
    <2>1. /\ curtask' = next /\ UNCHANGED sim
          /\ count' = [count EXCEPT ![Etime] = tc[next]]
          /\ tasklist' = [lists EXCEPT ![Etime] = Tail(l)]
      BY <1>8 DEF Dispatch
    <2> HIDE DEF l
    <2>2. next \in On(l) /\ \A t \in On(l) : tc[next] <= tc[t]
      BY <1>1, <1>2, <1>8, HeadIsLeast
    <2>3. On(Tail(l)) \subseteq On(l)
      <3>1. /\ Len(l) \in Nat /\ Len(l) # 0
            /\ Len(Tail(l)) = Len(l) - 1
            /\ \A i \in 1..Len(Tail(l)) : Tail(l)[i] = l[i+1]
        BY <1>1, <1>8, LenProperties, EmptySeq, HeadTailProperties
      <3>2. \A i \in 1..Len(Tail(l)) : i+1 \in 1..Len(l)
        BY <3>1
      <3> QED BY <3>1, <3>2 DEF On
    <2>4. DueOrTimed(l, tc, w, count)
      BY DEF l
    <2> HIDE DEF next
    <2>5. CASE ready # {}
      <3>1. PICK t \in ready : TRUE
        BY <2>5
      <3>2. t \in On(l) /\ tc[t] = now /\ tc[next] <= now /\ tc[next] >= now /\ tc[next] \in Nat
        BY <1>2, <1>4, <1>5, <2>2, <3>1
      <3>3. tc[next] = now /\ next \in ready
        BY <1>1, <1>4, <2>2, <3>2
      <3>4. count' = count
        BY <1>1, <2>1, <3>3
      <3>5. Interface!Resume(waiting, w)
        BY <1>6, <2>1, <2>5, <3>3, <3>4
      <3>6. tasklist'[Etime] = Tail(l)
        BY <1>1, <2>1
      <3> QED BY <2>3, <2>4, <3>4, <3>5, <3>6 DEF DueOrTimed
    <2>6. CASE ready = {}
      <3>1. \A t \in On(l) : w[t].ec = Etime /\ w[t].value = tc[t]
        <4> SUFFICES ASSUME NEW t \in On(l), w[t].ec # Etime PROVE FALSE
          BY <2>4 DEF DueOrTimed
        <4>1. tc[t] = count[Etime]
          BY <2>4 DEF DueOrTimed
        <4> QED BY <1>1, <1>4, <2>6, <4>1
      <3>2. timed = On(l)
        BY <1>2, <1>5, <3>1
      <3>3. {w[t].value : t \in timed} = {tc[t] : t \in On(l)}
        BY <3>1, <3>2
      <3>4. {tc[t] : t \in On(l)} \in SUBSET Nat /\ tc[next] \in {tc[t] : t \in On(l)}
        BY <1>2, <2>2
      <3>5. due = tc[next]
        <4> DEFINE S == {tc[t] : t \in On(l)}
        <4>1. S \in SUBSET Nat /\ tc[next] \in S /\ \A x \in S : tc[next] <= x
          BY <2>2, <3>4
        <4>2. due = Interface!Earliest(S)
          BY <3>3 DEF due
        <4> HIDE DEF S
        <4> QED BY <4>1, <4>2, EarliestIsLeast
      <3>6. Interface!Resume(waiting, w)
        <4>1. next \in timed /\ w[next].value = due
          BY <2>2, <3>1, <3>2, <3>5
        <4> QED BY <1>6, <2>1, <2>6, <3>5, <4>1
      <3>7. tasklist'[Etime] = Tail(l)
        BY <1>1, <2>1
      <3> QED BY <2>3, <3>1, <3>6, <3>7 DEF DueOrTimed
    <2> QED BY <2>5, <2>6
  <1> QED BY <1>7, <1>8

\* await() is the Await of the interface.
LEMMA AwaitImplements ==
  ASSUME InterfaceInv, sim = "running", NEW c \in Clock, NEW v \in Nat, await(c, v)
  PROVE  Interface!Await(c, v) /\ ReleasedOrTimed'
PROOF
  <1>1. /\ IInv /\ TypeOK /\ WantsKept /\ curtask \in live /\ curtask \in Task
        /\ Etime \in Clock /\ EC = Clock \ {Etime}
        /\ \A d \in Clock : On(tasklist[d]) \subseteq live \ {curtask} /\ On(tasklist[d]) \subseteq Task
        /\ want \in [Task -> [ec : Clock, value : Nat]]
    BY Basics DEF InterfaceInv
  <1>2. /\ want' = [want EXCEPT ![curtask] = [ec |-> c, value |-> v]]
        /\ UNCHANGED <<alarms, live>>
    BY DEF await
  <1>3. PICK lists \in [Clock -> Seq(Task)], h \in Task \cup {NoTask} :
          /\ Dispatch(lists, tcount', h)
          /\ On(lists[c]) = On(tasklist[c]) \cup {curtask}
          /\ \A d \in Clock : d # c => lists[d] = tasklist[d]
          /\ Queued(lists, tcount', live, count)
    BY <1>1, AwaitQueues
  <1>4. tcount' \in [Task -> Nat] /\ tcount'[curtask] = v /\ \A t \in Task : t # curtask => tcount'[t] = tcount[t]
    BY <1>1, AwaitQueues
  <1>5. want' \in [Task -> [ec : Clock, value : Nat]]
    BY <1>1, <1>2
  <1>6. /\ want'[curtask].ec = c /\ want'[curtask].value = v
        /\ \A t \in Task : t # curtask => want'[t] = want[t]
    BY <1>1, <1>2
  <1>7. \A d \in Clock : \A t \in On(lists[d]) :
          \/ t = curtask /\ d = c
          \/ t \in On(tasklist[d]) /\ t \in Task /\ t # curtask
    BY <1>1, <1>3
  <1>8. \A d \in EC : \A t \in On(lists[d]) : want'[t].ec = d /\ want'[t].value = tcount'[t]
    <2> SUFFICES ASSUME NEW d \in EC, NEW t \in On(lists[d])
                 PROVE  want'[t].ec = d /\ want'[t].value = tcount'[t]
      OBVIOUS
    <2>1. d \in Clock
      BY <1>1
    <2>2. CASE t = curtask /\ d = c
      BY <1>4, <1>6, <2>2
    <2>3. CASE t \in On(tasklist[d]) /\ t \in Task /\ t # curtask
      <3>1. want'[t] = want[t] /\ tcount'[t] = tcount[t]
        BY <1>4, <1>6, <2>3
      <3> QED BY <1>1, <2>3, <3>1 DEF WantsKept
    <2> QED BY <1>7, <2>1, <2>2, <2>3
  <1>9. DueOrTimed(lists[Etime], tcount', want', count)
    <2> SUFFICES ASSUME NEW t \in On(lists[Etime])
                 PROVE  IF want'[t].ec = Etime
                        THEN want'[t].value = tcount'[t]
                        ELSE tcount'[t] = count[Etime] /\ count[want'[t].ec] >= want'[t].value
      BY DEF DueOrTimed
    <2>1. CASE t = curtask /\ Etime = c
      BY <1>4, <1>6, <2>1
    <2>2. CASE t \in On(tasklist[Etime]) /\ t \in Task /\ t # curtask
      <3>1. want'[t] = want[t] /\ tcount'[t] = tcount[t]
        BY <1>4, <1>6, <2>2
      <3> QED BY <2>2, <3>1 DEF InterfaceInv, ReleasedOrTimed, DueOrTimed
    <2> QED BY <1>1, <1>7, <2>1, <2>2
  <1>10. live \in SUBSET Task
    BY <1>1 DEF TypeOK
  <1>11. Interface!Resume(live, want') /\ DueOrTimed(tasklist'[Etime], tcount', want', count')
    BY <1>1, <1>3, <1>4, <1>5, <1>8, <1>9, <1>10, DispatchResumes
  <1> QED BY <1>2, <1>11 DEF Interface!Await, ReleasedOrTimed

\* The end of a task is the Return of the interface.
LEMMA ReturnImplements ==
  ASSUME InterfaceInv, sim = "running", Return(curtask)
  PROVE  Interface!Return /\ ReleasedOrTimed'
PROOF
  <1>1. /\ IInv /\ TypeOK /\ WantsKept /\ live' \in SUBSET Task
        /\ live' = live \ {curtask} /\ UNCHANGED <<tcount, alarms, want>>
        /\ Dispatch(tasklist, tcount, hint)
        /\ tasklist \in [Clock -> Seq(Task)] /\ tcount \in [Task -> Nat]
        /\ want \in [Task -> [ec : Clock, value : Nat]]
    BY Basics DEF InterfaceInv, Return, TypeOK
  <1>2. Queued(tasklist, tcount, live', count)
    BY <1>1 DEF IInv
  <1>3. DueOrTimed(tasklist[Etime], tcount, want, count)
    BY DEF InterfaceInv, ReleasedOrTimed
  <1>4. \A c \in EC : \A t \in On(tasklist[c]) : want[t].ec = c /\ want[t].value = tcount[t]
    BY <1>1 DEF WantsKept
  <1>5. Interface!Resume(live', want) /\ DueOrTimed(tasklist'[Etime], tcount, want, count')
    BY <1>1, <1>2, <1>3, <1>4, DispatchResumes
  <1> QED BY <1>1, <1>5 DEF Interface!Return, ReleasedOrTimed

\* What advance() releases has reached its value.
LEMMA ReleasedReached ==
  ASSUME IInv, NEW c \in EC, advance(c),
         NEW t \in On(tasklist[c]), t \in On(tasklist'[Etime])
  PROVE  tcount[t] <= count[c] + 1
PROOF
  <1> DEFINE l == tasklist[c]
             e == tasklist[Etime]
             n == count[c] + 1
  <1>1. /\ Etime \in Clock /\ c \in Clock /\ c # Etime /\ count[c] \in Nat
        /\ l \in Seq(Task) /\ e \in Seq(Task) /\ Len(l) \in Nat
        /\ \A i \in 1..Len(l) : l[i] \in Task
        /\ tasklist \in [Clock -> Seq(Task)] /\ tcount \in [Task -> Nat]
        /\ t \notin On(e)
    <2>1. /\ Etime \in Clock /\ c \in Clock /\ c # Etime /\ TypeOK
          /\ tasklist \in [Clock -> Seq(Task)] /\ tcount \in [Task -> Nat] /\ count \in [Clock -> Nat]
      BY TaskingAssumption DEF IInv, TypeOK, Clock
    <2>2. On(l) \cap On(e) = {}
      BY <2>1 DEF IInv, Queued
    <2>3. Len(l) \in Nat /\ \A i \in 1..Len(l) : l[i] \in Task
      BY <2>1, LenProperties, ElementOfSeq
    <2> QED BY <2>1, <2>2, <2>3
  <1>2. PICK k \in 1..Len(l) :
          /\ ~(l = << >> \/ tcount[Head(l)] > n)
          /\ \A i \in 2..k : tcount[l[i]] = n
          /\ Release(c, k)
    BY <1>1 DEF advance
  <1>3. tcount[l[1]] <= n
    <2>1. Head(l) = l[1] /\ l[1] \in Task
      BY <1>1, <1>2, HeadTailProperties
    <2> QED BY <1>1, <1>2, <2>1
  <1> DEFINE p == SubSeq(l, 1, k)
  <1>4. p \in Seq(Task) /\ Len(p) = k /\ \A i \in 1..k : p[i] = l[i]
    <2>1. k \in 0..Len(l)
      BY <1>1
    <2> QED BY <1>1, <2>1, Pieces
  <1>5. tasklist'[Etime] = p \o e
    BY <1>1, <1>2 DEF Release
  <1> HIDE DEF p, l, e, n
  <1>6. PICK i \in 1..k : t = l[i]
    <2>1. Len(p) \in Nat /\ Len(e) \in Nat
      BY <1>1, <1>4, LenProperties
    <2>2. /\ Len(p \o e) = Len(p) + Len(e)
          /\ \A i \in 1..(Len(p) + Len(e)) : (p \o e)[i] = IF i <= Len(p) THEN p[i] ELSE e[i - Len(p)]
      BY <1>1, <1>4, ConcatProperties
    <2>3. PICK i \in 1..(Len(p) + Len(e)) : t = (p \o e)[i]
      BY <1>5, <2>2 DEF On
    <2>4. CASE i <= Len(p)
      BY <1>4, <2>1, <2>2, <2>3, <2>4
    <2>5. CASE ~(i <= Len(p))
      <3>1. i - Len(p) \in 1..Len(e) /\ t = e[i - Len(p)]
        BY <2>1, <2>2, <2>3, <2>5
      <3> QED BY <1>1, <3>1 DEF On
    <2> QED BY <2>4, <2>5
  <1>7. CASE i = 1
    BY <1>3, <1>6, <1>7 DEF n
  <1>8. CASE i # 1
    <2>1. i \in 2..k
      BY <1>8
    <2> QED BY <1>1, <1>2, <1>6, <2>1 DEF n
  <1> QED BY <1>7, <1>8

\* For the interface advance() changes the count and nothing else.
LEMMA AdvanceImplements ==
  ASSUME InterfaceInv, NEW c \in EC, advance(c), UNCHANGED want
  PROVE  Interface!Advance(c) /\ ReleasedOrTimed'
PROOF
  <1>1. /\ IInv /\ WantsKept /\ Etime \in Clock /\ EC = Clock \ {Etime}
        /\ count \in [Clock -> Nat] /\ want \in [Task -> [ec : Clock, value : Nat]]
        /\ tcount \in [Task -> Nat] /\ now = count[Etime]
        /\ \A d \in Clock : On(tasklist[d]) \subseteq Task
    BY Basics DEF InterfaceInv
  <1>2. count' = [count EXCEPT ![c] = @ + 1]
    BY DEF advance
  <1>3. /\ count'[c] = count[c] + 1 /\ \A d \in Clock : d # c => count'[d] = count[d]
        /\ \A d \in Clock : count[d] \in Nat /\ count'[d] \in Nat /\ count'[d] >= count[d]
    BY <1>1, <1>2
  <1>4. \A t \in On(tasklist'[Etime]) :
          \/ t \in On(tasklist[c]) /\ tcount'[t] = now
          \/ t \in On(tasklist[Etime]) /\ tcount'[t] = tcount[t]
    BY <1>1, AdvanceFrees
  <1>5. ASSUME NEW t \in On(tasklist'[Etime])
        PROVE  IF want[t].ec = Etime
               THEN want[t].value = tcount'[t]
               ELSE tcount'[t] = count'[Etime] /\ count'[want[t].ec] >= want[t].value
    <2>1. CASE t \in On(tasklist[c]) /\ tcount'[t] = now
      <3>1. want[t].ec = c /\ want[t].value = tcount[t]
        BY <1>1, <2>1 DEF WantsKept
      <3>2. tcount[t] <= count[c] + 1
        BY <1>1, <1>5, <2>1, ReleasedReached
      <3>3. t \in Task /\ tcount[t] \in Nat
        BY <1>1, <2>1
      <3> QED BY <1>1, <1>3, <2>1, <3>1, <3>2, <3>3
    <2>2. CASE t \in On(tasklist[Etime]) /\ tcount'[t] = tcount[t]
      <3>1. IF want[t].ec = Etime
            THEN want[t].value = tcount[t]
            ELSE tcount[t] = count[Etime] /\ count[want[t].ec] >= want[t].value
        BY <2>2 DEF InterfaceInv, ReleasedOrTimed, DueOrTimed
      <3>2. want[t].ec \in Clock /\ want[t].value \in Nat
        BY <1>1, <2>2
      <3> QED BY <1>1, <1>3, <2>2, <3>1, <3>2
    <2> QED BY <1>4, <2>1, <2>2
  <1> QED BY <1>2, <1>5 DEF Interface!Advance, ReleasedOrTimed, DueOrTimed

(***************************************************************************)
(* Alarms                                                                  *)
(***************************************************************************)

\* The times of the interface's alarms are those on Alarm_List.
LEMMA TimesOfAlarms ==
  ASSUME alarms \in Seq(Alarm)
  PROVE  /\ BagToSet(ToBag(alarms)) = {alarms[i] : i \in 1..Len(alarms)}
         /\ Interface!AlarmTimes = {alarms[i].time : i \in 1..Len(alarms)}
         /\ Interface!AlarmTimes \in SUBSET Nat
PROOF
  <1>1. BagToSet(ToBag(alarms)) = {alarms[i] : i \in 1..Len(alarms)}
    BY BagElements
  <1>2. Interface!AlarmTimes = {alarms[i].time : i \in 1..Len(alarms)}
    BY <1>1 DEF Interface!AlarmTimes, Interface!BagToSet, BagToSet
  <1>3. \A i \in 1..Len(alarms) : alarms[i] \in Alarm /\ alarms[i].time \in Nat
    <2>1. \A i \in 1..Len(alarms) : alarms[i] \in Alarm
      BY ElementOfSeq
    <2> QED BY <2>1 DEF Alarm
  <1> QED BY <1>1, <1>2, <1>3

\* The first alarm is the earliest.
LEMMA FirstIsEarliest ==
  ASSUME InterfaceInv
  PROVE  /\ Interface!Earliest(Interface!AlarmTimes \cup {MaxTime}) = FirstAlarm
         /\ alarms # << >> => /\ 1 \in 1..Len(alarms) /\ Head(alarms) = alarms[1]
                              /\ \A x \in Interface!AlarmTimes : Head(alarms).time <= x
PROOF
  <1>1. /\ DeadlockInv /\ AlarmsInOrder /\ TimesInReach /\ alarms \in Seq(Alarm)
        /\ MaxTime \in Nat /\ TimeBound \in Nat /\ TimeBound < MaxTime
    BY Basics DEF InterfaceInv
  <1>2. /\ Len(alarms) \in Nat /\ DOMAIN alarms = 1..Len(alarms)
        /\ \A i \in 1..Len(alarms) : alarms[i].time \in Nat
    <2>1. \A i \in 1..Len(alarms) : alarms[i] \in Alarm
      BY <1>1, ElementOfSeq
    <2> QED BY <1>1, <2>1, LenProperties DEF Alarm
  <1> DEFINE T == Interface!AlarmTimes
             S == T \cup {MaxTime}
  <1>3. T = {alarms[i].time : i \in 1..Len(alarms)} /\ S \in SUBSET Nat
    BY <1>1, TimesOfAlarms
  <1>4. CASE alarms = << >>
    <2>1. Len(alarms) = 0
      BY <1>1, <1>4, EmptySeq
    <2>2. T = {} /\ S = {MaxTime}
      BY <1>3, <2>1
    <2>3. MaxTime \in S /\ (\A x \in S : MaxTime <= x) /\ S \in SUBSET Nat
      BY <1>1, <2>2
    <2> HIDE DEF S, T
    <2>4. Interface!Earliest(S) = MaxTime
      BY <2>3, EarliestIsLeast
    <2> QED BY <1>4, <2>4 DEF FirstAlarm, S, T
  <1>5. CASE alarms # << >>
    <2>1. Len(alarms) # 0 /\ Head(alarms) = alarms[1]
      BY <1>1, <1>5, EmptySeq, HeadTailProperties
    <2>2. 1 \in 1..Len(alarms)
      BY <1>2, <2>1
    <2>3. \A i \in 1..Len(alarms) : alarms[1].time <= alarms[i].time /\ alarms[i].time <= TimeBound
      <3> SUFFICES ASSUME NEW i \in 1..Len(alarms)
                   PROVE  alarms[1].time <= alarms[i].time /\ alarms[i].time <= TimeBound
        OBVIOUS
      <3>1. CASE i = 1
        BY <1>1, <1>2, <3>1 DEF TimesInReach
      <3>2. CASE i # 1
        BY <1>1, <1>2, <2>2, <3>2 DEF TimesInReach, AlarmsInOrder
      <3> QED BY <3>1, <3>2
    <2>4. \A x \in T : alarms[1].time <= x
      BY <1>3, <2>3
    <2>5. alarms[1].time \in S /\ (\A x \in S : alarms[1].time <= x)
      BY <1>1, <1>2, <1>3, <2>2, <2>3
    <2> HIDE DEF S, T
    <2>6. Interface!Earliest(S) = alarms[1].time
      BY <1>3, <2>5, EarliestIsLeast
    <2> QED BY <1>5, <2>1, <2>2, <2>4, <2>6 DEF FirstAlarm, S, T
  <1> QED BY <1>4, <1>5

\* Taking the first alarm out of the list takes it out of the bag.
LEMMA BagOfTail ==
  ASSUME NEW S, NEW s \in Seq(S), s # << >>
  PROVE  ToBag(Tail(s)) = ToBag(s) (-) SetToBag({Head(s)})
PROOF
  <1> DEFINE x == Head(s)
             r == Tail(s)
             C(y) == Cardinality({i \in 1..Len(r) : r[i] = y})
             E == {r[i] : i \in 1..Len(r)}
  <1>1. x \in S /\ r \in Seq(S) /\ Len(r) \in Nat /\ Len(s) \in Nat /\ Len(s) = Len(r) + 1
        /\ s[1] = x /\ \A i \in 1..Len(r) : r[i] = s[i+1]
    <2>1. Len(s) \in Nat /\ Len(s) # 0 /\ x \in S /\ r \in Seq(S) /\ Len(r) = Len(s) - 1
          /\ s[1] = x /\ \A i \in 1..Len(r) : r[i] = s[i+1]
      BY LenProperties, EmptySeq, HeadTailProperties
    <2> QED BY <2>1
  <1> HIDE DEF x, r
  <1>2. InsertAt(r, 1, x) = s
    <2> DEFINE u == InsertAt(r, 1, x)
    <2>1. 1 \in 1..(Len(r) + 1)
      BY <1>1
    <2>2. /\ u \in Seq(S) /\ Len(u) = Len(r) + 1
          /\ \A i \in 1..(Len(r) + 1) : u[i] = IF i < 1 THEN r[i] ELSE IF i = 1 THEN x ELSE r[i-1]
      BY <1>1, <2>1, InsertAtProperties
    <2> HIDE DEF u
    <2>3. ASSUME NEW i \in 1..Len(s) PROVE u[i] = s[i]
      <3>1. CASE i = 1
        BY <1>1, <2>2, <3>1
      <3>2. CASE i # 1
        <4>1. i-1 \in 1..Len(r) /\ (i-1)+1 = i /\ ~(i < 1) /\ i \in 1..(Len(r) + 1)
          BY <1>1, <3>2
        <4>2. u[i] = r[i-1] /\ r[i-1] = s[i]
          BY <1>1, <2>2, <3>2, <4>1
        <4> QED BY <4>2
      <3> QED BY <3>1, <3>2
    <2>4. Len(u) = Len(s)
      BY <1>1, <2>2
    <2>5. u = s
      BY <2>2, <2>3, <2>4, SeqEqual
    <2> QED BY <2>5 DEF u
  <1>3. ToBag(s) = ToBag(r) (+) SetToBag({x})
    <2>1. 1 \in 1..(Len(r) + 1)
      BY <1>1
    <2> QED BY <1>1, <1>2, <2>1, BagOfInsert
  <1>4. ToBag(r) = [y \in E |-> C(y)]
    BY <1>1, LenProperties DEF ToBag, Range
  <1>5. \A y \in E : C(y) \in Nat /\ C(y) > 0
    <2> SUFFICES ASSUME NEW y \in E PROVE C(y) \in Nat /\ C(y) > 0
      OBVIOUS
    <2> DEFINE A == {i \in 1..Len(r) : r[i] = y}
    <2>1. IsFiniteSet(1..Len(r))
      BY <1>1, FS_Interval
    <2>2. IsFiniteSet(A) /\ A # {}
      BY <2>1, FS_Subset
    <2> HIDE DEF A
    <2>3. Cardinality(A) \in Nat /\ Cardinality(A) # 0
      BY <2>2, FS_CardinalityType, FS_EmptySet
    <2> QED BY <2>3 DEF A
  <1> HIDE DEF C, E
  <1> DEFINE f == [y \in E |-> C(y)]
             b == [y \in E \cup {x} |-> (IF y \in E THEN C(y) ELSE 0) + (IF y = x THEN 1 ELSE 0)]
             g == [y \in E \cup {x} |-> IF y = x THEN b[y] - 1 ELSE b[y]]
  <1>6. ToBag(s) = b
    BY <1>3, <1>4 DEF (+), SetToBag
  <1>7. /\ \A y \in E \cup {x} : g[y] > 0 <=> y \in E
        /\ \A y \in E : g[y] = C(y)
    BY <1>5
  <1>8. /\ DOMAIN b = E \cup {x} /\ DOMAIN g = E \cup {x}
        /\ g = [y \in DOMAIN b |-> IF y \in {x} THEN b[y] - 1 ELSE b[y]]
    OBVIOUS
  <1>9. SetToBag({x}) = [y \in {x} |-> 1]
    BY DEF SetToBag
  <1> DEFINE one == [y \in {x} |-> 1]
  <1>10. DOMAIN one = {x} /\ \A y \in {x} : one[y] = 1
    OBVIOUS
  <1> HIDE DEF b, one
  <1>11. g = [y \in DOMAIN b |-> IF y \in DOMAIN one THEN b[y] - one[y] ELSE b[y]]
    BY <1>8, <1>10
  <1>12. b (-) one = [y \in {d \in DOMAIN g : g[d] > 0} |-> g[y]]
    <2>1. b (-) one = [y \in {d \in DOMAIN [e \in DOMAIN b |-> IF e \in DOMAIN one THEN b[e] - one[e] ELSE b[e]] :
                             [e \in DOMAIN b |-> IF e \in DOMAIN one THEN b[e] - one[e] ELSE b[e]][d] > 0} |->
                        [e \in DOMAIN b |-> IF e \in DOMAIN one THEN b[e] - one[e] ELSE b[e]][y]]
      BY DEF (-)
    <2> HIDE DEF g
    <2> QED BY <1>11, <2>1
  <1> HIDE DEF g
  <1>13. {d \in DOMAIN g : g[d] > 0} = E
    BY <1>7, <1>8
  <1>14. b (-) SetToBag({x}) = f
    BY <1>7, <1>9, <1>12, <1>13 DEF one
  <1> QED BY <1>4, <1>6, <1>14 DEF x, r

LEMMA AlarmInserted ==
  ASSUME alarms \in Seq(Alarm), NEW k \in 1..(Len(alarms) + 1), NEW x \in Alarm
  PROVE  /\ InsertAt(alarms, k, x) \in Seq(Alarm) /\ Len(InsertAt(alarms, k, x)) = Len(alarms) + 1
         /\ \A i \in 1..(Len(alarms) + 1) : InsertAt(alarms, k, x)[i] =
              IF i < k THEN alarms[i] ELSE IF i = k THEN x ELSE alarms[i-1]
BY InsertAtProperties

\* A new alarm goes to its place in the list; it is the first one unless it is
\* later than the first.
LEMMA SetsAlarm ==
  ASSUME InterfaceInv, NEW c \in EC, NEW w \in (now+1)..TimeBound, NEW k \in 1..(Len(alarms) + 1),
         SortedSlot([i \in DOMAIN alarms |-> alarms[i].time], w, k),
         alarms' = InsertAt(alarms, k, [ec |-> c, time |-> w])
  PROVE  /\ AlarmsInOrder'
         /\ k > 1 <=> w > FirstAlarm
         /\ ToBag(alarms') = ToBag(alarms) (+) SetToBag({[ec |-> c, time |-> w]})
PROOF
  <1> DEFINE a == [ec |-> c, time |-> w]
             keys == [i \in DOMAIN alarms |-> alarms[i].time]
  <1>1. /\ AlarmsInOrder /\ alarms \in Seq(Alarm) /\ now \in Nat
        /\ TimeBound \in Nat /\ MaxTime \in Nat /\ TimeBound < MaxTime
        /\ Len(alarms) \in Nat /\ DOMAIN alarms = 1..Len(alarms)
    <2>1. alarms \in Seq(Alarm)
      BY Basics DEF InterfaceInv
    <2> QED BY <2>1, LenProperties, Basics DEF InterfaceInv
  <1>2. w \in Nat /\ w < MaxTime /\ a \in Alarm /\ a.time = w
    <2>1. w \in Nat /\ w < MaxTime
      BY <1>1
    <2> QED BY <2>1 DEF Alarm
  <1>3. \A i \in 1..Len(alarms) : alarms[i].time \in Nat
    <2>1. \A i \in 1..Len(alarms) : alarms[i] \in Alarm
      BY <1>1, ElementOfSeq
    <2> QED BY <2>1 DEF Alarm
  <1>4. \A i, j \in 1..Len(alarms) : i < j => alarms[i].time <= alarms[j].time
    BY <1>1 DEF AlarmsInOrder
  <1>5. /\ \A i \in 1..Len(alarms) : i < k => alarms[i].time < w
        /\ k <= Len(alarms) => k \in 1..Len(alarms) /\ alarms[k].time >= w
    <2>1. /\ Len(keys) = Len(alarms) /\ SortedSlot(keys, w, k)
          /\ \A i \in 1..Len(alarms) : keys[i] = alarms[i].time
      BY <1>1
    <2> HIDE DEF keys
    <2>2. /\ \A i \in 1..(k-1) : keys[i] < w
          /\ k <= Len(keys) => keys[k] >= w
      BY <2>1 DEF SortedSlot
    <2> QED BY <1>1, <2>1, <2>2
  <1>6. \A i \in 1..Len(alarms) : i >= k => alarms[i].time >= w
    <2> SUFFICES ASSUME NEW i \in 1..Len(alarms), i >= k PROVE alarms[i].time >= w
      OBVIOUS
    <2>1. k \in 1..Len(alarms) /\ alarms[k].time >= w /\ alarms[k].time \in Nat /\ alarms[i].time \in Nat
      BY <1>1, <1>3, <1>5
    <2>2. CASE i = k
      BY <2>1, <2>2
    <2>3. CASE i > k
      BY <1>2, <1>4, <2>1, <2>3
    <2> QED BY <1>1, <2>2, <2>3
  <1> HIDE DEF a
  <1>7. alarms' = InsertAt(alarms, k, a)
    BY DEF a
  <1>8. /\ alarms' \in Seq(Alarm) /\ Len(alarms') = Len(alarms) + 1
        /\ DOMAIN alarms' = 1..(Len(alarms) + 1)
        /\ \A i \in 1..(Len(alarms) + 1) : alarms'[i] =
             IF i < k THEN alarms[i] ELSE IF i = k THEN a ELSE alarms[i-1]
    <2>1. /\ InsertAt(alarms, k, a) \in Seq(Alarm) /\ Len(InsertAt(alarms, k, a)) = Len(alarms) + 1
          /\ \A i \in 1..(Len(alarms) + 1) : InsertAt(alarms, k, a)[i] =
               IF i < k THEN alarms[i] ELSE IF i = k THEN a ELSE alarms[i-1]
      BY <1>1, <1>2, AlarmInserted
    <2>2. /\ alarms' \in Seq(Alarm) /\ Len(alarms') = Len(alarms) + 1
          /\ \A i \in 1..(Len(alarms) + 1) : alarms'[i] =
               IF i < k THEN alarms[i] ELSE IF i = k THEN a ELSE alarms[i-1]
      BY <1>7, <2>1, Zenon
    <2>3. DOMAIN alarms' = 1..(Len(alarms) + 1)
      BY <2>2, LenProperties
    <2> QED BY <2>2, <2>3
  <1>9. /\ \A i \in 1..(Len(alarms) + 1) : i < k => i \in 1..Len(alarms) /\ alarms'[i] = alarms[i]
        /\ k \in 1..(Len(alarms) + 1) /\ alarms'[k] = a
        /\ \A i \in 1..(Len(alarms) + 1) : i > k => i-1 \in 1..Len(alarms) /\ i-1 >= k /\ alarms'[i] = alarms[i-1]
    BY <1>1, <1>8
  <1>10. AlarmsInOrder'
    <2> SUFFICES ASSUME NEW i \in 1..(Len(alarms) + 1), NEW j \in 1..(Len(alarms) + 1), i < j
                 PROVE  alarms'[i].time <= alarms'[j].time
      BY <1>8 DEF AlarmsInOrder
    <2>1. CASE j < k
      BY <1>1, <1>4, <1>9, <2>1
    <2>2. CASE j = k
      <3>1. i < k /\ i \in 1..Len(alarms) /\ alarms[i].time < w /\ alarms[i].time \in Nat
        BY <1>3, <1>5, <1>9, <2>2
      <3> QED BY <1>2, <1>9, <2>2, <3>1
    <2>3. CASE j > k /\ i < k
      <3>1. alarms[i].time < w /\ alarms[j-1].time >= w /\ alarms[i].time \in Nat /\ alarms[j-1].time \in Nat
        BY <1>3, <1>5, <1>6, <1>9, <2>3
      <3> QED BY <1>2, <1>9, <2>3, <3>1
    <2>4. CASE j > k /\ i = k
      BY <1>2, <1>6, <1>9, <2>4
    <2>5. CASE j > k /\ i > k
      <3>1. i-1 \in 1..Len(alarms) /\ j-1 \in 1..Len(alarms) /\ i-1 < j-1
        BY <1>1, <1>9, <2>5
      <3> QED BY <1>4, <1>9, <2>5, <3>1
    <2> QED BY <1>1, <2>1, <2>2, <2>3, <2>4, <2>5
  <1>11. k > 1 <=> w > FirstAlarm
    <2>1. CASE alarms = << >>
      <3>1. Len(alarms) = 0
        BY <1>1, <2>1, EmptySeq
      <3> QED BY <1>1, <1>2, <2>1, <3>1 DEF FirstAlarm
    <2>2. CASE alarms # << >>
      <3>1. Len(alarms) # 0 /\ Head(alarms) = alarms[1]
        BY <1>1, <2>2, EmptySeq, HeadTailProperties
      <3>2. 1 \in 1..Len(alarms) /\ FirstAlarm = alarms[1].time
        BY <1>1, <2>2, <3>1 DEF FirstAlarm
      <3> QED BY <1>2, <1>3, <1>5, <1>6, <3>2
    <2> QED BY <2>1, <2>2
  <1>12. ToBag(alarms') = ToBag(alarms) (+) SetToBag({a})
    BY <1>1, <1>2, <1>7, BagOfInsert
  <1> QED BY <1>10, <1>11, <1>12 DEF a

\* future_advance() is the FutureAdvance of the interface.
LEMMA FutureAdvanceImplements ==
  ASSUME InterfaceInv, IInv', NEW t \in Client, FutureAdvance(t)
  PROVE  /\ \E c \in EC : \E w \in 1..(MaxTime + CountBound) :
              now < w /\ Interface!FutureAdvance(c, w) /\ UNCHANGED <<count, curtask, live>>
         /\ AlarmsInOrder' /\ WakeIsPunctual' /\ ReleasedOrTimed' /\ WakeAwaitsTime'
PROOF
  <1>1. PICK c \in EC, w \in (now+1)..TimeBound, k \in 1..(Len(alarms) + 1) :
          /\ SortedSlot([i \in DOMAIN alarms |-> alarms[i].time], w, k)
          /\ alarms' = InsertAt(alarms, k, [ec |-> c, time |-> w])
          /\ IF k > 1
             THEN UNCHANGED <<tasklist, tcount, want, sim>>
             ELSE \/ /\ Wake \notin live
                     /\ sim' = "fatal"
                     /\ UNCHANGED <<tasklist, tcount, want>>
                  \/ \E i \in DOMAIN tasklist[Etime] : \E n :
                       /\ tasklist[Etime][i] = Wake
                       /\ tasklist' = [tasklist EXCEPT ![Etime] = n]
                       /\ tcount' = [tcount EXCEPT ![Wake] = w]
                       /\ want' = [want EXCEPT ![Wake].value = w]
                       /\ UNCHANGED sim
    BY DEF FutureAdvance
  <1>2. /\ UNCHANGED <<count, curtask, live>> /\ sim = "running" /\ curtask \in Client
    BY DEF FutureAdvance, Running
  <1>3. /\ IInv /\ Etime \in Clock /\ EC = Clock \ {Etime} /\ Wake \in Task /\ Client = Task \ {Wake}
        /\ \A d \in Clock : On(tasklist[d]) \subseteq live \ {curtask} /\ On(tasklist[d]) \subseteq Task
        /\ \A u \in live \ {curtask} : \E d \in Clock : u \in On(tasklist[d])
        /\ tcount \in [Task -> Nat] /\ want \in [Task -> [ec : Clock, value : Nat]]
        /\ now \in Nat /\ TimeBound \in Nat /\ MaxTime \in Nat /\ TimeBound < MaxTime /\ CountBound \in Nat
        /\ ReleasedOrTimed /\ WakeAwaitsTime
        /\ tasklist \in [Clock -> Seq(Task)]
    BY Basics, TaskingAssumption DEF InterfaceInv, TypeOK
  <1>4. w \in 1..(MaxTime + CountBound) /\ now < w
    BY <1>3
  <1>5. /\ AlarmsInOrder'
        /\ k > 1 <=> w > FirstAlarm
        /\ ToBag(alarms') = ToBag(alarms) (+) SetToBag({[ec |-> c, time |-> w]})
    BY <1>1, SetsAlarm
  <1>6. Interface!Earliest(Interface!AlarmTimes \cup {MaxTime}) = FirstAlarm
    BY FirstIsEarliest
  <1>7. ASSUME NEW i \in DOMAIN tasklist[Etime], tasklist[Etime][i] = Wake
        PROVE  Wake \in live
    <2>1. i \in 1..Len(tasklist[Etime])
      BY <1>3, <1>7, LenProperties
    <2>2. Wake \in On(tasklist[Etime])
      BY <1>7, <2>1 DEF On
    <2> QED BY <1>3, <2>2
  <1>8. IF w > FirstAlarm
        THEN UNCHANGED <<want, sim>>
        ELSE IF Wake \in live
        THEN want' = [want EXCEPT ![Wake].value = w] /\ UNCHANGED sim
        ELSE sim' = "fatal" /\ UNCHANGED want
    BY <1>1, <1>5, <1>7
  <1>9. Interface!FutureAdvance(c, w)
    BY <1>5, <1>6, <1>8, BagSum DEF Interface!FutureAdvance
  <1>10. WakeIsPunctual'
    BY <1>2, <1>3 DEF WakeIsPunctual
  <1>11. want'[Wake].ec = Etime
    BY <1>1, <1>3 DEF WakeAwaitsTime
  <1>12. ReleasedOrTimed'
    <2>1. CASE UNCHANGED <<tasklist, tcount, want>>
      BY <1>2, <1>3, <2>1 DEF ReleasedOrTimed, DueOrTimed
    <2>2. CASE \E n : /\ tasklist' = [tasklist EXCEPT ![Etime] = n]
                      /\ tcount' = [tcount EXCEPT ![Wake] = w]
                      /\ want' = [want EXCEPT ![Wake].value = w]
      <3>1. \A d \in EC : tasklist'[d] = tasklist[d]
        BY <1>3, <2>2
      <3>2. /\ \A u \in Task : u # Wake => tcount'[u] = tcount[u] /\ want'[u] = want[u]
            /\ tcount'[Wake] = w /\ want'[Wake].value = w
        BY <1>3, <2>2
      <3>3. ASSUME NEW u \in On(tasklist'[Etime]), u # Wake PROVE u \in On(tasklist[Etime])
        <4>1. u \in live \ {curtask}
          BY <1>2, <1>3, <3>3 DEF IInv, Queued
        <4>2. PICK d \in Clock : u \in On(tasklist[d])
          BY <1>3, <4>1
        <4>3. d \in EC => u \in On(tasklist'[d])
          BY <3>1, <4>2
        <4>4. d # Etime => On(tasklist'[d]) \cap On(tasklist'[Etime]) = {}
          BY <1>3 DEF IInv, Queued
        <4> QED BY <1>3, <3>3, <4>2, <4>3, <4>4
      <3>4. ASSUME NEW u \in On(tasklist'[Etime])
            PROVE  IF want'[u].ec = Etime
                   THEN want'[u].value = tcount'[u]
                   ELSE tcount'[u] = count'[Etime] /\ count'[want'[u].ec] >= want'[u].value
        <4>1. CASE u = Wake
          BY <1>11, <3>2, <4>1
        <4>2. CASE u # Wake
          <5>1. u \in On(tasklist[Etime]) /\ u \in Task /\ tcount'[u] = tcount[u] /\ want'[u] = want[u]
            BY <1>3, <3>2, <3>3, <3>4, <4>2
          <5> QED BY <1>2, <1>3, <5>1 DEF ReleasedOrTimed, DueOrTimed
        <4> QED BY <4>1, <4>2
      <3> QED BY <3>4 DEF ReleasedOrTimed, DueOrTimed
    <2> QED BY <1>1, <2>1, <2>2
  <1> QED BY <1>2, <1>4, <1>5, <1>9, <1>10, <1>11, <1>12 DEF WakeAwaitsTime

(***************************************************************************)
(* The steps                                                               *)
(***************************************************************************)

\* When the task taken from the time list is the alarm task, it is its time.
LEMMA PickPunctual ==
  ASSUME InterfaceInv, UNCHANGED alarms, NEW S,
         Wake \in S => tcount'[Wake] = FirstAlarm,
         sim' = "exit" \/ (curtask' \in S /\ count'[Etime] = tcount'[curtask'])
  PROVE  AlarmsInOrder' /\ WakeIsPunctual'
PROOF
  <1>1. FirstAlarm' = FirstAlarm /\ now' = count'[Etime] /\ FirstAlarm \in Nat
    BY FirstAlarmInReach DEF InterfaceInv, FirstAlarm, now
  <1>2. AlarmsInOrder'
    BY DEF InterfaceInv, AlarmsInOrder
  <1>3. WakeIsPunctual'
    BY <1>1 DEF WakeIsPunctual
  <1> QED BY <1>2, <1>3

LEMMA AwaitPunctual ==
  ASSUME InterfaceInv, sim = "running", NEW c \in Clock, NEW v \in Nat, await(c, v),
         curtask = Wake => c = Etime /\ v = FirstAlarm
  PROVE  AlarmsInOrder' /\ WakeIsPunctual' /\ WakeAwaitsTime'
PROOF
  <1>1. /\ TypeOK /\ curtask \in Task /\ Etime \in Clock /\ Wake \in Task /\ AlarmArmed
        /\ \A d \in Clock : On(tasklist[d]) \subseteq live \ {curtask}
        /\ want \in [Task -> [ec : Clock, value : Nat]] /\ WakeAwaitsTime
    BY Basics DEF InterfaceInv
  <1>2. /\ want' = [want EXCEPT ![curtask] = [ec |-> c, value |-> v]]
        /\ UNCHANGED alarms
    BY DEF await
  <1> DEFINE S == On(tasklist[Etime]) \cup (IF c = Etime THEN {curtask} ELSE {})
  <1>3. /\ tcount'[curtask] = v
        /\ \A t \in Task : t # curtask => tcount'[t] = tcount[t]
        /\ sim' = "exit" \/ (curtask' \in S /\ count'[Etime] = tcount'[curtask'])
    BY <1>1, AwaitAddsCaller
  <1>4. Wake \in S => tcount'[Wake] = FirstAlarm
    <2>1. CASE curtask = Wake
      BY <1>3, <2>1
    <2>2. CASE curtask # Wake
      BY <1>1, <1>3, <2>2 DEF AlarmArmed, FirstAlarm
    <2> QED BY <2>1, <2>2
  <1> HIDE DEF S
  <1>5. AlarmsInOrder' /\ WakeIsPunctual'
    BY <1>2, <1>3, <1>4, PickPunctual
  <1>6. WakeAwaitsTime'
    BY <1>1, <1>2 DEF WakeAwaitsTime
  <1> QED BY <1>5, <1>6

LEMMA ReturnPunctual ==
  ASSUME InterfaceInv, sim = "running", Return(curtask)
  PROVE  AlarmsInOrder' /\ WakeIsPunctual' /\ WakeAwaitsTime'
PROOF
  <1>1. /\ Etime \in Clock /\ AlarmArmed /\ count \in [Clock -> Nat] /\ tasklist \in [Clock -> Seq(Task)]
        /\ \A d \in Clock : On(tasklist[d]) \subseteq live \ {curtask}
        /\ WakeAwaitsTime
    BY Basics DEF InterfaceInv, TypeOK
  <1>2. UNCHANGED <<tcount, alarms, want>> /\ Dispatch(tasklist, tcount, hint)
    BY DEF Return
  <1> DEFINE S == On(tasklist[Etime])
  <1>3. sim' = "exit" \/ (curtask' \in S /\ count'[Etime] = tcount[curtask'])
    BY <1>1, <1>2, DispatchPicks
  <1>4. Wake \in S => tcount'[Wake] = FirstAlarm
    BY <1>1, <1>2 DEF AlarmArmed, FirstAlarm
  <1> HIDE DEF S
  <1>5. AlarmsInOrder' /\ WakeIsPunctual'
    BY <1>2, <1>3, <1>4, PickPunctual
  <1> QED BY <1>1, <1>2, <1>5 DEF WakeAwaitsTime

\* A pause that lets time jump holds nobody up.
LEMMA JumpImplements ==
  ASSUME InterfaceInv, sim = "running", NEW x \in Nat, now < x, NoneDueBefore(x),
         count' = [count EXCEPT ![Etime] = x],
         want' = [want EXCEPT ![curtask] = [ec |-> Etime, value |-> x]],
         UNCHANGED <<tasklist, tcount, curtask, alarms, live, sim>>
  PROVE  Interface!Epause(x) /\ ReleasedOrTimed'
PROOF
  <1>1. /\ IInv /\ WantsKept /\ Etime \in Clock /\ EC = Clock \ {Etime}
        /\ count \in [Clock -> Nat] /\ want \in [Task -> [ec : Clock, value : Nat]]
        /\ tcount \in [Task -> Nat] /\ now = count[Etime] /\ now \in Nat
        /\ \A d \in Clock : On(tasklist[d]) \subseteq live \ {curtask} /\ On(tasklist[d]) \subseteq Task
        /\ \A t \in live \ {curtask} : \E d \in Clock : t \in On(tasklist[d])
    BY Basics DEF InterfaceInv
  <1>2. Queued(tasklist, tcount, live \ {curtask}, count')
    BY <1>1, JumpKeeps
  <1>3. count'[Etime] = x /\ \A d \in EC : count'[d] = count[d]
    BY <1>1
  <1>4. ASSUME NEW t \in On(tasklist[Etime])
        PROVE  t \in Task /\ want[t].ec = Etime /\ want[t].value = tcount[t] /\ tcount[t] >= x
    <2>1. t \in Task /\ tcount[t] >= x /\ tcount[t] \in Nat
      BY <1>1, <1>2, <1>3, <1>4 DEF Queued
    <2>2. tcount[t] # count[Etime]
      BY <1>1, <2>1
    <2> QED BY <2>1, <2>2 DEF InterfaceInv, ReleasedOrTimed, DueOrTimed
  <1>5. ASSUME NEW t \in live \ {curtask}
        PROVE  ~(count[want[t].ec] >= want[t].value) /\ (want[t].ec = Etime => want[t].value >= x)
    <2>1. PICK d \in Clock : t \in On(tasklist[d])
      BY <1>1
    <2>2. t \in Task /\ count[d] \in Nat /\ tcount[t] \in Nat
      BY <1>1, <2>1
    <2>3. CASE d = Etime
      BY <1>1, <1>4, <2>1, <2>2, <2>3
    <2>4. CASE d # Etime
      <3>1. want[t].ec = d /\ want[t].value = tcount[t] /\ tcount[t] > count[d]
        BY <1>1, <2>1, <2>4 DEF WantsKept, IInv, Queued
      <3> QED BY <2>2, <2>4, <3>1
    <2> QED BY <2>3, <2>4
  <1>6. \A t \in On(tasklist[Etime]) : t # curtask /\ want'[t] = want[t]
    BY <1>1
  <1>7. ReleasedOrTimed'
    BY <1>4, <1>6 DEF ReleasedOrTimed, DueOrTimed
  <1> QED BY <1>5, <1>7 DEF Interface!Epause, Interface!Ready

\* The first alarm is due when the alarm task takes it.
LEMMA WakeAdvanceImplements ==
  ASSUME InterfaceInv, WakeAdvance
  PROVE  /\ Interface!WakeAdvance
         /\ AlarmsInOrder' /\ WakeIsPunctual' /\ ReleasedOrTimed' /\ WakeAwaitsTime'
PROOF
  <1> DEFINE a == Head(alarms)
  <1>1. /\ sim = "running" /\ curtask = Wake /\ wakepc = "woken" /\ alarms # << >>
        /\ alarms' = Tail(alarms) /\ UNCHANGED <<curtask, want, live>>
    BY DEF WakeAdvance, Running
  <1>2. /\ TypeOK /\ IInv /\ alarms \in Seq(Alarm) /\ now \in Nat /\ AlarmsInOrder /\ WakeAwaitsTime
        /\ TimeBound \in Nat /\ MaxTime \in Nat /\ TimeBound < MaxTime /\ TimesInReach
        /\ EC = Clock \ {Etime}
    BY Basics DEF InterfaceInv
  <1>3. a.ec \in EC /\ a.time \in Nat
    BY <1>1, <1>2, HeadAlarm
  <1>4. now = a.time
    BY <1>1 DEF InterfaceInv, WakeIsPunctual, FirstAlarm
  <1>5. /\ advance(a.ec) /\ UNCHANGED sim
        /\ wakepc' = IF a.ec = SimFinish THEN "break" ELSE "rearm"
    BY <1>3, <1>4 DEF WakeAdvance
  <1>6. Interface!Advance(a.ec) /\ ReleasedOrTimed'
    BY <1>1, <1>3, <1>5, AdvanceImplements
  <1>7. /\ 1 \in 1..Len(alarms) /\ a = alarms[1]
        /\ \A x \in Interface!AlarmTimes : a.time <= x
    BY <1>1, FirstIsEarliest
  <1>8. a \in BagToSet(ToBag(alarms))
    BY <1>2, <1>7, TimesOfAlarms
  <1>9. ToBag(alarms') = ToBag(alarms) (-) SetToBag({a})
    BY <1>1, <1>2, BagOfTail
  <1>10. Interface!WakeAdvance
    <2>1. a \in Interface!BagToSet(ToBag(alarms))
      BY <1>8 DEF BagToSet, Interface!BagToSet
    <2> HIDE DEF a
    <2> QED BY <1>1, <1>4, <1>5, <1>6, <1>7, <1>9, <2>1, BagDifference DEF Interface!WakeAdvance, Interface!now, now
  <1>11. /\ Len(alarms) \in Nat /\ DOMAIN alarms = 1..Len(alarms)
         /\ alarms' \in Seq(Alarm) /\ Len(alarms') \in Nat /\ Len(alarms') = Len(alarms) - 1
         /\ DOMAIN alarms' = 1..Len(alarms')
         /\ \A i \in 1..Len(alarms') : alarms'[i] = alarms[i+1] /\ i+1 \in 1..Len(alarms)
    <2>1. /\ Len(alarms) \in Nat /\ DOMAIN alarms = 1..Len(alarms)
          /\ alarms' \in Seq(Alarm) /\ Len(alarms') = Len(alarms) - 1
          /\ \A i \in 1..Len(alarms') : alarms'[i] = alarms[i+1]
      BY <1>1, <1>2, LenProperties, HeadTailProperties
    <2>2. DOMAIN alarms' = 1..Len(alarms') /\ Len(alarms') \in Nat
      BY <2>1, LenProperties
    <2> QED BY <2>1, <2>2
  <1>12. AlarmsInOrder'
    <2> SUFFICES ASSUME NEW i \in 1..Len(alarms'), NEW j \in 1..Len(alarms'), i < j
                 PROVE  alarms'[i].time <= alarms'[j].time
      BY <1>11 DEF AlarmsInOrder
    <2>1. i+1 \in DOMAIN alarms /\ j+1 \in DOMAIN alarms /\ i+1 < j+1
      BY <1>11
    <2> QED BY <1>2, <1>11, <2>1 DEF AlarmsInOrder
  <1>13. a.time <= FirstAlarm'
    <2>1. CASE alarms' = << >>
      <3>1. a.time <= TimeBound
        BY <1>2, <1>7, <1>11 DEF TimesInReach
      <3> QED BY <1>2, <1>3, <2>1, <3>1 DEF FirstAlarm
    <2>2. CASE alarms' # << >>
      <3>1. Len(alarms') # 0 /\ Head(alarms') = alarms'[1]
        BY <1>11, <2>2, EmptySeq, HeadTailProperties
      <3>2. 1 \in 1..Len(alarms') /\ 2 \in DOMAIN alarms /\ alarms'[1] = alarms[2]
        BY <1>11, <3>1
      <3>3. alarms[1].time <= alarms[2].time
        BY <1>2, <1>7, <1>11, <3>2 DEF AlarmsInOrder
      <3> QED BY <1>7, <2>2, <3>1, <3>2, <3>3 DEF FirstAlarm
    <2> QED BY <2>1, <2>2
  <1>14. now' = now
    BY <1>2, <1>3, <1>5, AdvanceFrees DEF now
  <1>15. WakeIsPunctual'
    BY <1>4, <1>5, <1>13, <1>14 DEF WakeIsPunctual
  <1>16. WakeAwaitsTime'
    BY <1>1, <1>2 DEF WakeAwaitsTime
  <1> QED BY <1>6, <1>10, <1>12, <1>15, <1>16

\* No alarm on the list, none in the bag.
LEMMA NoAlarmInBag == ToBag(<< >>) = Interface!EmptyBag
PROOF
  <1>1. BagToSet(ToBag(<< >>)) = {}
    <2>1. << >> \in Seq({}) /\ 1..Len(<< >>) = {}
      BY EmptySeq
    <2>2. BagToSet(ToBag(<< >>)) = {<< >>[i] : i \in 1..Len(<< >>)}
      BY <2>1, BagElements
    <2> QED BY <2>1, <2>2
  <1>2. DOMAIN ToBag(<< >>) = {}
    BY <1>1 DEF BagToSet
  <1>3. ToBag(<< >>) = [e \in {} |-> 1]
    <2>1. ToBag(<< >>) = [y \in DOMAIN ToBag(<< >>) |-> ToBag(<< >>)[y]]
      BY DEF ToBag
    <2> QED BY <1>2, <2>1
  <1> QED BY <1>3 DEF Interface!EmptyBag, Interface!SetToBag

\* The deadlock that wakeupcall() reports is one of the interface.
LEMMA GivesUpImplements ==
  ASSUME InterfaceInv, DeadlockIsReal', WakeNoAlarm
  PROVE  /\ Interface!WakeGivesUp
         /\ AlarmsInOrder' /\ WakeIsPunctual' /\ ReleasedOrTimed' /\ WakeAwaitsTime'
PROOF
  <1>1. /\ sim = "running" /\ curtask = Wake /\ wakepc = "woken" /\ alarms = << >>
        /\ sim' = IF now = MaxTime THEN "deadlock" ELSE "fatal"
        /\ UNCHANGED <<count, tasklist, tcount, curtask, hint, alarms, want, wakepc, live>>
    BY DEF WakeNoAlarm, Running
  <1>2. /\ curtask \in live /\ live \in SUBSET Task /\ count \in [Clock -> Nat]
        /\ want \in [Task -> [ec : Clock, value : Nat]]
    BY <1>1, Basics DEF InterfaceInv, TypeOK
  <1>3. now = MaxTime /\ sim' = "deadlock"
    BY <1>1, <1>2 DEF DeadlockIsReal
  <1>4. \A t \in live \ {Wake} : want[t].ec # Etime /\ ~(count[want[t].ec] >= want[t].value)
    <2> SUFFICES ASSUME NEW t \in live \ {Wake}
                 PROVE  want[t].ec # Etime /\ ~(count[want[t].ec] >= want[t].value)
      OBVIOUS
    <2>1. want[t].ec # Etime /\ count[want[t].ec] < want[t].value
      BY <1>1, <1>3 DEF DeadlockIsReal
    <2>2. want[t].ec \in Clock /\ want[t].value \in Nat
      BY <1>2
    <2>3. count[want[t].ec] \in Nat
      BY <1>2, <2>2
    <2> QED BY <2>1, <2>2, <2>3
  <1>5. ToBag(alarms) = Interface!EmptyBag /\ ToBag(alarms)' = ToBag(alarms)
    BY <1>1, NoAlarmInBag
  <1>6. Interface!WakeGivesUp
    BY <1>1, <1>3, <1>4, <1>5 DEF Interface!WakeGivesUp, Interface!Ready, Interface!now, now
  <1>7. AlarmsInOrder' /\ WakeIsPunctual' /\ ReleasedOrTimed' /\ WakeAwaitsTime'
    BY <1>1, <1>3 DEF InterfaceInv, AlarmsInOrder, WakeIsPunctual, ReleasedOrTimed, DueOrTimed, WakeAwaitsTime
  <1> QED BY <1>6, <1>7

\* So is the next sleep of the alarm task.
LEMMA RearmImplements ==
  ASSUME InterfaceInv, WakeRearm
  PROVE  /\ Interface!WakeRearm
         /\ AlarmsInOrder' /\ WakeIsPunctual' /\ ReleasedOrTimed' /\ WakeAwaitsTime'
PROOF
  <1>1. /\ sim = "running" /\ curtask = Wake /\ wakepc = "rearm" /\ wakepc' = "woken"
        /\ \/ await(Etime, FirstAlarm)
           \/ /\ now >= FirstAlarm
              /\ want' = [want EXCEPT ![Wake].value = FirstAlarm]
              /\ UNCHANGED <<count, tasklist, tcount, curtask, hint, alarms, live, sim>>
    BY DEF WakeRearm, Sleep, Running, FirstAlarm
  <1>2. /\ Etime \in Clock /\ now \in Nat /\ now = count[Etime] /\ Wake \in Task
        /\ want \in [Task -> [ec : Clock, value : Nat]] /\ WakeAwaitsTime
        /\ \A c \in Clock : On(tasklist[c]) \subseteq live \ {curtask}
        /\ FirstAlarm \in Nat /\ now <= FirstAlarm
    BY <1>1, Basics, FirstAlarmInReach DEF InterfaceInv, WakeIsPunctual
  <1>3. Interface!Earliest(Interface!AlarmTimes \cup {MaxTime}) = FirstAlarm
    BY FirstIsEarliest
  <1>4. CASE await(Etime, FirstAlarm)
    <2>1. Interface!Await(Etime, FirstAlarm) /\ ReleasedOrTimed'
      BY <1>1, <1>2, <1>4, AwaitImplements
    <2>2. AlarmsInOrder' /\ WakeIsPunctual' /\ WakeAwaitsTime'
      BY <1>1, <1>2, <1>4, AwaitPunctual
    <2>3. now < FirstAlarm
      BY <1>2, <1>4 DEF await
    <2>4. Interface!WakeRearm
      BY <1>1, <1>3, <2>1, <2>3 DEF Interface!WakeRearm, Interface!now, now
    <2> QED BY <2>1, <2>2, <2>4
  <1>5. CASE /\ now >= FirstAlarm
             /\ want' = [want EXCEPT ![Wake].value = FirstAlarm]
             /\ UNCHANGED <<count, tasklist, tcount, curtask, hint, alarms, live, sim>>
    <2>1. now = FirstAlarm /\ now' = now /\ FirstAlarm' = FirstAlarm
      BY <1>2, <1>5 DEF now, FirstAlarm
    <2>2. Interface!WakeRearm
      BY <1>1, <1>3, <1>5, <2>1 DEF Interface!WakeRearm, Interface!now, now
    <2>3. AlarmsInOrder' /\ WakeIsPunctual'
      BY <1>5, <2>1 DEF InterfaceInv, AlarmsInOrder, WakeIsPunctual
    <2>4. WakeAwaitsTime'
      BY <1>2, <1>5 DEF WakeAwaitsTime
    <2>5. \A t \in On(tasklist[Etime]) : want'[t] = want[t]
      BY <1>1, <1>2, <1>5
    <2>6. ReleasedOrTimed'
      BY <1>5, <2>5 DEF InterfaceInv, ReleasedOrTimed, DueOrTimed
    <2> QED BY <2>2, <2>3, <2>4, <2>6
  <1> QED BY <1>1, <1>4, <1>5

\* One case per operation.
LEMMA StepImplements ==
  ASSUME InterfaceInv, [Next]_vars
  PROVE  InterfaceInv' /\ [Interface!Next]_(Interface!vars)
PROOF
  <1> DEFINE Rest == AlarmsInOrder /\ WakeIsPunctual /\ ReleasedOrTimed /\ WakeAwaitsTime
             Simulated == Rest' /\ [Interface!Next]_(Interface!vars)
  <1>0. /\ DeadlockInv /\ DeadlockInv' /\ IInv' /\ Rest
        /\ Etime \in Clock /\ EC = Clock \ {Etime} /\ Client = Task \ {Wake} /\ Wake \in Task
        /\ now \in Nat /\ now = count[Etime] /\ WakeAwaitsTime
        /\ want \in [Task -> [ec : Clock, value : Nat]]
        /\ TimeBound \in Nat /\ MaxTime \in Nat /\ TimeBound < MaxTime /\ CountBound \in Nat
    <2>1. DeadlockInv /\ DeadlockInv' /\ Rest
      BY NextTimely DEF InterfaceInv
    <2> QED BY <2>1, Basics, TaskingAssumption DEF DeadlockInv, AlarmInv
  <1> SUFFICES Simulated
    BY <1>0 DEF InterfaceInv
  <1>1. ASSUME NEW t \in Client, Await(t) PROVE Simulated
    <2>1. PICK c \in EC, v \in 1..(CountBound + 1) : await(c, v)
      BY <1>1 DEF Await
    <2>2. /\ v \in Nat /\ v \in 1..(MaxTime + CountBound) /\ c \in Clock
          /\ curtask # Wake /\ sim = "running" /\ UNCHANGED wakepc /\ count[c] < v
      BY <1>0, <1>1, <2>1 DEF Await, Running, await
    <2>3. Interface!Await(c, v) /\ ReleasedOrTimed'
      BY <2>1, <2>2, AwaitImplements
    <2>4. AlarmsInOrder' /\ WakeIsPunctual' /\ WakeAwaitsTime'
      BY <2>1, <2>2, AwaitPunctual
    <2>5. Interface!ClientStep
      BY <2>2, <2>3 DEF Interface!ClientStep
    <2> QED BY <2>3, <2>4, <2>5 DEF Interface!Next
  <1>2. ASSUME NEW t \in Client, Epause(t) PROVE Simulated
    <2>1. sim = "running" /\ curtask = t /\ t \in Task /\ t # Wake /\ UNCHANGED wakepc
      BY <1>0, <1>2 DEF Epause, Running
    <2>2. PICK n \in 1..TimeBound :
            /\ now + n <= TimeBound
            /\ \/ /\ NoneDueBefore(now + n)
                  /\ count' = [count EXCEPT ![Etime] = now + n]
                  /\ want' = [want EXCEPT ![t] = [ec |-> Etime, value |-> now + n]]
                  /\ UNCHANGED <<tasklist, tcount, curtask, hint, alarms, live, sim>>
               \/ await(Etime, now + n)
      BY <1>2 DEF Epause
    <2>3. now + n \in Nat /\ now < now + n /\ now + n \in 1..(MaxTime + CountBound)
      BY <1>0, <2>2
    <2>4. Rest' /\ (Interface!Await(Etime, now + n) \/ Interface!Epause(now + n))
      <3>1. CASE await(Etime, now + n)
        <4>1. Interface!Await(Etime, now + n) /\ ReleasedOrTimed'
          BY <1>0, <2>1, <2>3, <3>1, AwaitImplements
        <4>2. AlarmsInOrder' /\ WakeIsPunctual' /\ WakeAwaitsTime'
          BY <1>0, <2>1, <2>3, <3>1, AwaitPunctual
        <4> QED BY <4>1, <4>2
      <3>2. CASE /\ NoneDueBefore(now + n)
                 /\ count' = [count EXCEPT ![Etime] = now + n]
                 /\ want' = [want EXCEPT ![t] = [ec |-> Etime, value |-> now + n]]
                 /\ UNCHANGED <<tasklist, tcount, curtask, hint, alarms, live, sim>>
        <4>1. Interface!Epause(now + n) /\ ReleasedOrTimed'
          BY <2>1, <2>3, <3>2, JumpImplements
        <4>2. AlarmsInOrder' /\ WakeIsPunctual'
          BY <1>0, <2>1, <3>2 DEF AlarmsInOrder, WakeIsPunctual
        <4>3. WakeAwaitsTime'
          BY <1>0, <2>1, <3>2 DEF WakeAwaitsTime
        <4> QED BY <4>1, <4>2, <4>3
      <3> QED BY <2>2, <3>1, <3>2
    <2> HIDE DEF Rest
    <2>5. Interface!ClientStep
      BY <2>1, <2>3, <2>4 DEF Interface!ClientStep, Interface!now, now
    <2> QED BY <2>4, <2>5 DEF Interface!Next
  <1>3. ASSUME NEW t \in Client, Advance(t) PROVE Simulated
    <2>1. PICK c \in EC : advance(c)
      BY <1>3 DEF Advance
    <2>2. /\ UNCHANGED <<curtask, alarms, want, wakepc, live, sim>>
          /\ sim = "running" /\ curtask # Wake
      BY <1>0, <1>3 DEF Advance, Running
    <2>3. Interface!Advance(c) /\ ReleasedOrTimed'
      BY <2>1, <2>2, AdvanceImplements
    <2>4. AlarmsInOrder' /\ WakeIsPunctual' /\ WakeAwaitsTime'
      BY <1>0, <2>2 DEF AlarmsInOrder, WakeIsPunctual, WakeAwaitsTime
    <2>5. Interface!ClientStep
      BY <2>2, <2>3 DEF Interface!ClientStep
    <2> QED BY <2>3, <2>4, <2>5 DEF Interface!Next
  <1>4. ASSUME NEW t \in Client, FutureAdvance(t) PROVE Simulated
    <2>1. /\ \E c \in EC : \E w \in 1..(MaxTime + CountBound) :
                now < w /\ Interface!FutureAdvance(c, w) /\ UNCHANGED <<count, curtask, live>>
          /\ Rest'
      BY <1>0, <1>4, FutureAdvanceImplements
    <2>2. sim = "running" /\ curtask # Wake /\ UNCHANGED wakepc
      BY <1>0, <1>4 DEF FutureAdvance, Running
    <2>3. Interface!ClientStep
      BY <2>1, <2>2 DEF Interface!ClientStep, Interface!now, now
    <2> QED BY <2>1, <2>3 DEF Interface!Next
  <1>5. ASSUME NEW t \in Client, FinishTask(t) PROVE Simulated
    <2>1. sim = "running" /\ curtask # Wake /\ Return(curtask) /\ UNCHANGED wakepc
      BY <1>0, <1>5 DEF FinishTask, Running
    <2>2. Interface!Return /\ ReleasedOrTimed'
      BY <2>1, ReturnImplements
    <2>3. AlarmsInOrder' /\ WakeIsPunctual' /\ WakeAwaitsTime'
      BY <2>1, ReturnPunctual
    <2>4. Interface!ClientStep
      BY <2>1, <2>2 DEF Interface!ClientStep
    <2> QED BY <2>2, <2>3, <2>4 DEF Interface!Next
  <1>6. CASE WakeNoAlarm
    <2>1. Interface!WakeGivesUp /\ Rest'
      BY <1>0, <1>6, GivesUpImplements DEF DeadlockInv
    <2>2. Interface!WakeStep
      BY <1>6, <2>1 DEF Interface!WakeStep, WakeNoAlarm, Running
    <2> QED BY <2>1, <2>2 DEF Interface!Next
  <1>7. CASE WakeAdvance
    <2>1. Interface!WakeAdvance /\ Rest'
      BY <1>7, WakeAdvanceImplements
    <2>2. Interface!WakeStep
      BY <1>7, <2>1 DEF Interface!WakeStep, WakeAdvance, Running
    <2> QED BY <2>1, <2>2 DEF Interface!Next
  <1>8. CASE WakeRearm
    <2>1. Interface!WakeRearm /\ Rest'
      BY <1>8, RearmImplements
    <2>2. Interface!WakeStep
      BY <1>8, <2>1 DEF Interface!WakeStep, WakeRearm, Sleep, Running
    <2> QED BY <2>1, <2>2 DEF Interface!Next
  <1>9. CASE WakeBreak
    <2>1. sim = "running" /\ curtask = Wake /\ wakepc = "break" /\ Return(curtask) /\ UNCHANGED wakepc
      BY <1>9 DEF WakeBreak, Running
    <2>2. Interface!Return /\ ReleasedOrTimed'
      BY <2>1, ReturnImplements
    <2>3. AlarmsInOrder' /\ WakeIsPunctual' /\ WakeAwaitsTime'
      BY <2>1, ReturnPunctual
    <2>4. Interface!WakeStep
      BY <2>1, <2>2 DEF Interface!WakeStep
    <2> QED BY <2>2, <2>3, <2>4 DEF Interface!Next
  <1>10. CASE UNCHANGED vars
    <2>1. UNCHANGED Interface!vars
      BY <1>10 DEF vars, Interface!vars
    <2>2. Rest'
      BY <1>0, <1>10 DEF vars, AlarmsInOrder, WakeIsPunctual, ReleasedOrTimed, DueOrTimed,
                         WakeAwaitsTime, now, FirstAlarm
    <2> QED BY <2>1, <2>2
  <1> QED BY <1>1, <1>2, <1>3, <1>4, <1>5, <1>6, <1>7, <1>8, <1>9, <1>10
          DEF Next, ClientStep, WakeStep, Halted

LEMMA InitImplements == Init => InterfaceInv /\ Interface!Init
PROOF
  <1> SUFFICES ASSUME Init PROVE InterfaceInv /\ Interface!Init
    OBVIOUS
  <1>1. DeadlockInv /\ curtask \in Client
    BY InitQueued, InitArmed, InitTimely DEF DeadlockInv, AlarmInv
  <1>2. /\ count = [c \in Clock |-> 0] /\ alarms = << >> /\ wakepc = "woken" /\ live = Task /\ sim = "running"
        /\ want = [t \in Task |-> [ec |-> Etime, value |-> IF t = Wake THEN MaxTime ELSE 0]]
        /\ tcount = [t \in Task |-> IF t = Wake THEN MaxTime ELSE 0]
    BY DEF Init
  <1>3. Interface!Init
    BY <1>1, <1>2, NoAlarmInBag DEF Interface!Init, Client, Clock
  <1>4. AlarmsInOrder
    BY <1>2, EmptySeq DEF AlarmsInOrder
  <1>5. WakeIsPunctual
    BY <1>1 DEF WakeIsPunctual, Client
  <1>6. Wake \in Task /\ \A t \in On(tasklist[Etime]) : t \in Task
    BY <1>1, Basics
  <1>7. WakeAwaitsTime
    BY <1>2, <1>6 DEF WakeAwaitsTime
  <1>8. ReleasedOrTimed
    BY <1>2, <1>6 DEF ReleasedOrTimed, DueOrTimed
  <1> QED BY <1>1, <1>3, <1>4, <1>5, <1>7, <1>8 DEF InterfaceInv

\* Whatever the tasks call, the kernel with its ordered lists, its scan hint and
\* its moves of the alarm task does what cgm/tasking.h promises: a task is resumed
\* only when what it waits for is reached, time moves only when nobody can run
\* and only to the earliest moment waited for, and an alarm fires at its time.
THEOREM KernelImplementsInterface == Spec => ImplementsInterface
PROOF
  <1>1. Init => InterfaceInv /\ Interface!Init
    BY InitImplements
  <1>2. InterfaceInv /\ [Next]_vars => InterfaceInv' /\ [Interface!Next]_(Interface!vars)
    BY StepImplements
  <1> QED BY <1>1, <1>2, PTL DEF Spec, ImplementsInterface, Interface!Spec
=============================================================================
