------------------------------- MODULE Tasking -------------------------------
(***************************************************************************)
(* The cooperative tasking kernel of m2s-cgm (cgm/tasking.c) with the      *)
(* alarm task of cgm/wakeupcall.c.  Every hardware unit of the simulated   *)
(* machine is a task; tasks synchronise on event counts and simulated time *)
(* is one more event count, "etime".                                       *)
(*                                                                         *)
(* A task runs until it calls await(), so each action below is everything  *)
(* the running task does in one call into the kernel.  The linked lists of *)
(* the code are sequences, in list order.                                  *)
(***************************************************************************)
EXTENDS Naturals, FiniteSets, SequencesExt

CONSTANTS
  Task,        \* the tasks, Wake included
  Wake,        \* the task that runs wakeupcall()
  NoTask,      \* the NULL task pointer
  EC,          \* the event counts other than etime
  Etime,       \* the time event count
  SimFinish,   \* the event count named "sim_finish"
  MaxTime,     \* max_time of wakeupcall(): later than every alarm
  TimeBound,   \* bound: clients ask for no time beyond it
  CountBound,  \* bound: clients advance no event count beyond it
  AlarmBound   \* bound: at most this many alarms are set at a time

Clock == EC \cup {Etime}
Client == Task \ {Wake}

ASSUME TaskingAssumption ==
  /\ IsFiniteSet(Task) /\ Wake \in Task /\ NoTask \notin Task /\ Client # {}
  /\ Etime \notin EC /\ SimFinish \in EC
  /\ TimeBound \in Nat /\ CountBound \in Nat /\ AlarmBound \in Nat
  /\ MaxTime \in Nat /\ TimeBound < MaxTime

VARIABLES
  count,       \* count[c]: eventcount.count
  tasklist,    \* tasklist[c]: eventcount.tasklist, the tasks queued on c
  tcount,      \* tcount[t]: task.count, the value t is queued for
  curtask,     \* the running task
  hint,        \* the last task queued behind another one on etime
  alarms,      \* Alarm_List of wakeupcall.c
  want,        \* want[t]: the arguments of t's last await(), on t's stack
  wakepc,      \* where the alarm task is inside its loop
  live,        \* tasks whose function has not returned
  sim          \* "running", or how the process ended

vars == <<count, tasklist, tcount, curtask, hint, alarms, want, wakepc, live, sim>>

now == count[Etime]

Alarm == [ec : EC, time : Nat]

Outcome == {"exit", "deadlock", "fatal"}

\* After Wake's first await(&etime, max_time): it was created before the
\* other tasks, so it queues behind the clients that have not run yet and
\* becomes the hint.
Init ==
  /\ count = [c \in Clock |-> 0]
  /\ tcount = [t \in Task |-> IF t = Wake THEN MaxTime ELSE 0]
  /\ want = [t \in Task |-> [ec |-> Etime, value |-> IF t = Wake THEN MaxTime ELSE 0]]
  /\ \E order \in SetToSeqs(Client) :
       /\ curtask = Head(order)
       /\ tasklist = [c \in Clock |-> IF c = Etime THEN Tail(order) \o <<Wake>> ELSE << >>]
       /\ hint = IF Len(order) = 1 THEN NoTask ELSE Wake
  /\ alarms = << >>
  /\ wakepc = "woken"
  /\ live = Task
  /\ sim = "running"

(***************************************************************************)
(* find_next_task() and context_select()                                   *)
(***************************************************************************)

\* The scan of find_next_task: the current task goes behind the first k tasks
\* of c's list.  The scan starts at the hint when that is allowed.
QueuedBehind(c, v, k) ==
  LET l == tasklist[c]
      useHint == c = Etime /\ hint # NoTask /\ v >= tcount[hint]
  IN IF l = << >> \/ v < tcount[Head(l)]
     THEN k = 0
     ELSE \E s \in 1..Len(l) :
            /\ IF useHint THEN l[s] = hint ELSE s = 1
            /\ k \in s..Len(l)
            /\ \A i \in (s+1)..k : v >= tcount[l[i]]
            /\ k < Len(l) => v < tcount[l[k+1]]

\* Take the first task of the time list, and with it its time; an empty time
\* list ends the simulation.
Dispatch(lists, counts, h) ==
  IF lists[Etime] = << >>
  THEN /\ sim' = "exit"
       /\ tasklist' = lists
       /\ curtask' = NoTask
       /\ hint' = h
       /\ UNCHANGED count
  ELSE LET next == Head(lists[Etime])
       IN /\ curtask' = next
          /\ tasklist' = [lists EXCEPT ![Etime] = Tail(@)]
          /\ count' = [count EXCEPT ![Etime] = counts[next]]
          /\ hint' = IF h = next THEN NoTask ELSE h
          /\ UNCHANGED sim

\* Queue the running task on c for value v and select the next one.
find_next_task(c, v) ==
  \E k \in 0..Len(tasklist[c]) :
    /\ QueuedBehind(c, v, k)
    /\ tcount' = [tcount EXCEPT ![curtask] = v]
    /\ Dispatch([tasklist EXCEPT ![c] = InsertAt(@, k+1, curtask)], tcount',
                IF c = Etime /\ k > 0 THEN curtask ELSE hint)

\* await(ec, value) that does not return at once.
await(c, v) ==
  /\ count[c] < v
  /\ want' = [want EXCEPT ![curtask] = [ec |-> c, value |-> v]]
  /\ find_next_task(c, v)
  /\ UNCHANGED <<alarms, live>>

\* The first k tasks of c are released and become due now.
Release(c, k) ==
  LET l == tasklist[c]
  IN /\ tasklist' = [tasklist EXCEPT ![c] = SubSeq(l, k+1, Len(l)),
                                     ![Etime] = SubSeq(l, 1, k) \o @]
     /\ tcount' = [t \in Task |-> IF \E i \in 1..k : l[i] = t THEN now ELSE tcount[t]]

\* Mutants of advance(): the count goes down; a task is released one advance
\* early; the time list is dropped; a released task keeps its old value.
advanceDown(c) == count' = [count EXCEPT ![c] = @ - 1] /\ UNCHANGED <<tasklist, tcount>>

advanceEarly(c) ==
  /\ count' = [count EXCEPT ![c] = @ + 1]
  /\ IF tasklist[c] = << >> \/ tcount[Head(tasklist[c])] > count'[c] + 1
     THEN UNCHANGED <<tasklist, tcount>>
     ELSE Release(c, 1)

advanceDropsList(c) ==
  /\ count' = [count EXCEPT ![c] = @ + 1]
  /\ UNCHANGED tcount
  /\ tasklist' = IF tasklist[c] = << >> \/ tcount[Head(tasklist[c])] > count'[c]
                 THEN tasklist
                 ELSE [tasklist EXCEPT ![c] = Tail(@), ![Etime] = <<Head(tasklist[c])>>]

advanceKeepsTime(c) ==
  /\ count' = [count EXCEPT ![c] = @ + 1]
  /\ UNCHANGED tcount
  /\ tasklist' = IF tasklist[c] = << >> \/ tcount[Head(tasklist[c])] > count'[c]
                 THEN tasklist
                 ELSE [tasklist EXCEPT ![c] = Tail(@), ![Etime] = <<Head(tasklist[c])>> \o @]

\* advance(ec): the first task is released when its value is reached, then the
\* tasks behind it that wait for exactly the new count; they go to the front
\* of the time list.
advance(c) ==
  LET l == tasklist[c]
      n == count[c] + 1
  IN /\ count' = [count EXCEPT ![c] = n]
     /\ IF l = << >> \/ tcount[Head(l)] > n
        THEN UNCHANGED <<tasklist, tcount>>
        ELSE \E k \in 1..Len(l) :
               /\ \A i \in 2..k : tcount[l[i]] = n
               /\ k < Len(l) => tcount[l[k+1]] # n
               /\ Release(c, k)

(***************************************************************************)
(* Calls of the client tasks                                               *)
(***************************************************************************)
Running(t) == sim = "running" /\ curtask = t

Await(t) ==
  /\ Running(t)
  /\ \E c \in EC, v \in 1..(CountBound + 1) : await(c, v)
  /\ UNCHANGED wakepc

\* No task is queued for a time before x.
NoneDueBefore(x) == tasklist[Etime] # << >> => x <= tcount[Head(tasklist[Etime])]

\* epause(n): time jumps when no task is due before, otherwise the task queues.
Epause(t) ==
  /\ Running(t)
  /\ \E n \in 1..TimeBound :
       /\ now + n <= TimeBound
       /\ \/ /\ NoneDueBefore(now + n)
             /\ count' = [count EXCEPT ![Etime] = now + n]
             /\ want' = [want EXCEPT ![t] = [ec |-> Etime, value |-> now + n]]
             /\ UNCHANGED <<tasklist, tcount, curtask, hint, alarms, live, sim>>
          \/ /\ ~NoneDueBefore(now + n)
             /\ await(Etime, now + n)
  /\ UNCHANGED wakepc

Advance(t) ==
  /\ Running(t)
  /\ \E c \in EC : count[c] < CountBound /\ advance(c)
  /\ UNCHANGED <<curtask, hint, alarms, want, wakepc, live, sim>>

\* The position at which sorted_insert_cell() puts a key: before equal keys.
SortedSlot(keys, x, k) ==
  /\ k \in 1..(Len(keys) + 1)
  /\ \A i \in 1..(k-1) : keys[i] < x
  /\ k <= Len(keys) => keys[k] >= x

\* Mutant: the alarm task is not moved.
FutureAdvanceNoMove(t) ==
  /\ Running(t)
  /\ Len(alarms) < AlarmBound
  /\ \E c \in EC, w \in (now+1)..TimeBound, k \in 1..(Len(alarms) + 1) :
       /\ SortedSlot([i \in DOMAIN alarms |-> alarms[i].time], w, k)
       /\ alarms' = InsertAt(alarms, k, [ec |-> c, time |-> w])
  /\ UNCHANGED <<count, tasklist, tcount, curtask, hint, want, wakepc, live, sim>>

\* future_advance(ec, wakeup): an alarm that becomes the first one moves Wake
\* on the time list; once Wake has returned, remove_cell() aborts instead.
FutureAdvance(t) ==
  /\ Running(t)
  /\ Len(alarms) < AlarmBound
  /\ \E c \in EC, w \in (now+1)..TimeBound, k \in 1..(Len(alarms) + 1) :
       /\ SortedSlot([i \in DOMAIN alarms |-> alarms[i].time], w, k)
       /\ alarms' = InsertAt(alarms, k, [ec |-> c, time |-> w])
       /\ IF k > 1
          THEN UNCHANGED <<tasklist, tcount, want, sim>>
          ELSE \/ /\ Wake \notin live
                  /\ sim' = "fatal"
                  /\ UNCHANGED <<tasklist, tcount, want>>
               \/ \E i \in DOMAIN tasklist[Etime], j \in 1..Len(tasklist[Etime]) :
                    LET l == tasklist[Etime]
                        rest == RemoveAt(l, i)
                    IN /\ l[i] = Wake
                       /\ SortedSlot([m \in DOMAIN rest |-> tcount[rest[m]]], w, j)
                       /\ tasklist' = [tasklist EXCEPT ![Etime] = InsertAt(rest, j, Wake)]
                       /\ tcount' = [tcount EXCEPT ![Wake] = w]
                       /\ want' = [want EXCEPT ![Wake].value = w]
                       /\ UNCHANGED sim
  /\ UNCHANGED <<count, curtask, hint, wakepc, live>>

\* The task's function returns: context_stub() selects the next task.
Return(t) ==
  /\ live' = live \ {t}
  /\ Dispatch(tasklist, tcount, hint)
  /\ UNCHANGED <<tcount, alarms, want>>

FinishTask(t) == Running(t) /\ Return(t) /\ UNCHANGED wakepc

(***************************************************************************)
(* wakeupcall(), the body of the alarm task                                *)
(***************************************************************************)

\* Woken with no alarm: at max_time nothing can ever happen again.
WakeNoAlarm ==
  /\ Running(Wake) /\ wakepc = "woken" /\ alarms = << >>
  /\ sim' = IF now = MaxTime THEN "deadlock" ELSE "fatal"
  /\ UNCHANGED <<count, tasklist, tcount, curtask, hint, alarms, want, wakepc, live>>

\* Take the first alarm, which must be due, and advance its event count.
WakeAdvance ==
  /\ Running(Wake) /\ wakepc = "woken" /\ alarms # << >>
  /\ alarms' = Tail(alarms)
  /\ IF now < Head(alarms).time
     THEN /\ sim' = "fatal"
          /\ UNCHANGED <<count, tasklist, tcount, wakepc>>
     ELSE /\ advance(Head(alarms).ec)
          /\ wakepc' = IF Head(alarms).ec = SimFinish THEN "break" ELSE "rearm"
          /\ UNCHANGED sim
  /\ UNCHANGED <<curtask, hint, want, live>>

\* Sleep until time next; a time that is reached already does not block.
Sleep(next) ==
  /\ Running(Wake) /\ wakepc = "rearm"
  /\ wakepc' = "woken"
  /\ \/ await(Etime, next)
     \/ /\ now >= next
        /\ want' = [want EXCEPT ![Wake].value = next]
        /\ UNCHANGED <<count, tasklist, tcount, curtask, hint, alarms, live, sim>>

\* Mutant: the alarm task sleeps one unit short of the next alarm.
WakeRearmShort == Sleep(IF alarms = << >> THEN MaxTime ELSE Head(alarms).time - 1)

\* Sleep until the next alarm.
WakeRearm == Sleep(IF alarms = << >> THEN MaxTime ELSE Head(alarms).time)

\* The alarm of sim_finish ends the alarm task.
WakeBreak ==
  /\ Running(Wake) /\ wakepc = "break"
  /\ Return(Wake)
  /\ UNCHANGED wakepc

\* The process has ended.
Halted == sim # "running" /\ UNCHANGED vars

ClientStep(t) == Await(t) \/ Epause(t) \/ Advance(t) \/ FutureAdvance(t) \/ FinishTask(t)

WakeStep == WakeNoAlarm \/ WakeAdvance \/ WakeRearm \/ WakeBreak

Next == (\E t \in Client : ClientStep(t)) \/ WakeStep \/ Halted

Spec == Init /\ [][Next]_vars

\* The simulator's process keeps running: some task always takes its step.
FairSpec == Spec /\ WF_vars(Next)

(***************************************************************************)
(* Properties                                                              *)
(***************************************************************************)

\* The types of the kernel's variables.
TypeOK ==
  /\ count \in [Clock -> Nat]
  /\ tasklist \in [Clock -> Seq(Task)]
  /\ tcount \in [Task -> Nat]
  /\ curtask \in Task \cup {NoTask}
  /\ hint \in Task \cup {NoTask}
  /\ alarms \in Seq(Alarm)
  /\ want \in [Task -> [ec : Clock, value : Nat]]
  /\ wakepc \in {"woken", "rearm", "break"}
  /\ live \in SUBSET Task
  /\ sim \in {"running"} \cup Outcome

\* The insertion scan of find_next_task() and the release loop of advance() stop
\* at the first larger value and would strand tasks in a list out of order, so
\* every list is ordered by the value awaited; and the scan hint, which is
\* followed without a test, points into the time list.
ListsSorted ==
  /\ \A c \in Clock : \A i, j \in DOMAIN tasklist[c] :
       i < j => tcount[tasklist[c][i]] <= tcount[tasklist[c][j]]
  /\ hint # NoTask => \E i \in DOMAIN tasklist[Etime] : tasklist[Etime][i] = hint

\* No wake-up is missed: what is queued on an event count waits for more than its
\* count, and no task of the time list for a time that has passed, as
\* assert(curtask->count >= etime.count) asks of the one selected.
NoMissedWakeup ==
  /\ \A c \in EC : \A i \in DOMAIN tasklist[c] : tcount[tasklist[c][i]] > count[c]
  /\ sim = "running" => \A i \in DOMAIN tasklist[Etime] : tcount[tasklist[Etime][i]] >= now

\* A task is running, or queued on exactly one list once, or has returned; the
\* pointer surgery of advance() and future_advance() neither loses nor
\* duplicates one.
NoLostTask ==
  /\ \A t \in live : t = curtask \/ \E c \in Clock : \E i \in DOMAIN tasklist[c] : tasklist[c][i] = t
  /\ \A c, d \in Clock : \A i \in DOMAIN tasklist[c], j \in DOMAIN tasklist[d] :
       tasklist[c][i] = tasklist[d][j] => c = d /\ i = j
  /\ \A c \in Clock : \A i \in DOMAIN tasklist[c] : tasklist[c][i] \in live \ {curtask}

\* While the alarm task sleeps it is queued for exactly the first alarm, or for
\* max_time when there is none: no alarm is late and none is early.
AlarmArmed ==
  sim = "running" /\ Wake \in live /\ curtask # Wake =>
    tcount[Wake] = IF alarms = << >> THEN MaxTime ELSE Head(alarms).time

\* "DEADLOCK_DETECTED!" of wakeupcall() is printed only when every other task
\* is asleep on an event count, and the aborts of wakeupcall.c only happen
\* after the alarm task was ended by sim_finish.
DeadlockIsReal ==
  /\ sim = "deadlock" =>
       /\ alarms = << >>
       /\ \A t \in live \ {Wake} : want[t].ec # Etime /\ count[want[t].ec] < want[t].value
  /\ sim = "fatal" => Wake \notin live

\* The kernel implements the interface of cgm/tasking.h.
Interface == INSTANCE EventCounts WITH
  alarms <- ToBag(alarms), Value <- 1..(MaxTime + CountBound)
ImplementsInterface == Interface!Spec

\* Every alarm fires, and no end of the process comes before it, unless
\* sim_finish ended the alarm task first.
AlarmFires == alarms # << >> ~> (alarms = << >> \/ Wake \notin live)
=============================================================================
