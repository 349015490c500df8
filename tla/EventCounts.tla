----------------------------- MODULE EventCounts -----------------------------
(***************************************************************************)
(* What the tasking package promises its users, without its lists, its     *)
(* list order or its scan hint: a task that awaits a condition is resumed  *)
(* only when the condition holds, time never moves while somebody could    *)
(* run, and when it moves it moves to the earliest moment anybody waits    *)
(* for.  The comments of cgm/tasking.h state this interface.               *)
(***************************************************************************)
EXTENDS Naturals, Bags

CONSTANTS
  Task, Wake, NoTask, EC, Etime, SimFinish, MaxTime,
  Value        \* the values a task may await and the times it may name

VARIABLES count, curtask, want, alarms, wakepc, live, sim

vars == <<count, curtask, want, alarms, wakepc, live, sim>>

now == count[Etime]

AlarmTimes == {a.time : a \in BagToSet(alarms)}

Earliest(S) == CHOOSE m \in S : \A x \in S : m <= x

\* The condition task t waits for holds.
Ready(t, w) == count[w[t].ec] >= w[t].value

Init ==
  /\ count = [c \in EC \cup {Etime} |-> 0]
  /\ curtask \in Task \ {Wake}
  /\ want = [t \in Task |-> [ec |-> Etime, value |-> IF t = Wake THEN MaxTime ELSE 0]]
  /\ alarms = EmptyBag
  /\ wakepc = "woken"
  /\ live = Task
  /\ sim = "running"

\* Of the tasks in S, which wait with conditions w, resume a ready one, else
\* move time to the earliest time waited for, else end the simulation.
Resume(S, w) ==
  LET ready == {t \in S : Ready(t, w)}
      timed == {t \in S : w[t].ec = Etime}
      due   == Earliest({w[t].value : t \in timed})
  IN IF ready # {}
     THEN curtask' \in ready /\ UNCHANGED <<count, sim>>
     ELSE IF timed # {}
     THEN /\ curtask' \in {t \in timed : w[t].value = due}
          /\ count' = [count EXCEPT ![Etime] = due]
          /\ UNCHANGED sim
     ELSE curtask' = NoTask /\ sim' = "exit" /\ UNCHANGED count

Await(c, v) ==
  /\ want' = [want EXCEPT ![curtask] = [ec |-> c, value |-> v]]
  /\ Resume(live, want')
  /\ UNCHANGED <<alarms, live>>

\* The running task may only let time pass when nobody else is held up by it.
Epause(v) ==
  /\ \A t \in live \ {curtask} :
       /\ ~Ready(t, want)
       /\ want[t].ec = Etime => want[t].value >= v
  /\ want' = [want EXCEPT ![curtask] = [ec |-> Etime, value |-> v]]
  /\ count' = [count EXCEPT ![Etime] = v]
  /\ UNCHANGED <<curtask, alarms, live, sim>>

Advance(c) == count' = [count EXCEPT ![c] = @ + 1]

FutureAdvance(c, w) ==
  /\ alarms' = alarms (+) SetToBag({[ec |-> c, time |-> w]})
  /\ IF w > Earliest(AlarmTimes \cup {MaxTime})
     THEN UNCHANGED <<want, sim>>
     ELSE IF Wake \in live
     THEN want' = [want EXCEPT ![Wake].value = w] /\ UNCHANGED sim
     ELSE sim' = "fatal" /\ UNCHANGED want

Return == live' = live \ {curtask} /\ Resume(live', want) /\ UNCHANGED <<want, alarms>>

ClientStep ==
  /\ sim = "running" /\ curtask # Wake
  /\ UNCHANGED wakepc
  /\ \/ \E c \in EC : \E v \in Value : count[c] < v /\ Await(c, v)
     \/ \E v \in Value : now < v /\ (Await(Etime, v) \/ Epause(v))
     \/ \E c \in EC : Advance(c) /\ UNCHANGED <<curtask, want, alarms, live, sim>>
     \/ \E c \in EC : \E w \in Value :
          now < w /\ FutureAdvance(c, w) /\ UNCHANGED <<count, curtask, live>>
     \/ Return

\* The alarm task is resumed exactly when an alarm is due, and the event count
\* of an earliest alarm is advanced at that moment.
WakeAdvance ==
  \E a \in BagToSet(alarms) :
    /\ wakepc = "woken"
    /\ a.time = now /\ \A x \in AlarmTimes : a.time <= x
    /\ alarms' = alarms (-) SetToBag({a})
    /\ Advance(a.ec)
    /\ wakepc' = IF a.ec = SimFinish THEN "break" ELSE "rearm"
    /\ UNCHANGED <<curtask, want, live, sim>>

WakeRearm ==
  LET next == Earliest(AlarmTimes \cup {MaxTime})
  IN /\ wakepc = "rearm" /\ wakepc' = "woken"
     /\ \/ now < next /\ Await(Etime, next)
        \/ /\ now = next
           /\ want' = [want EXCEPT ![Wake].value = next]
           /\ UNCHANGED <<count, curtask, alarms, live, sim>>

\* Only when nothing else will ever happen does the alarm task give up.
WakeGivesUp ==
  /\ wakepc = "woken" /\ alarms = EmptyBag /\ now = MaxTime
  /\ \A t \in live \ {Wake} : want[t].ec # Etime /\ ~Ready(t, want)
  /\ sim' = "deadlock"
  /\ UNCHANGED <<count, curtask, want, alarms, wakepc, live>>

WakeStep ==
  /\ sim = "running" /\ curtask = Wake
  /\ \/ WakeAdvance
     \/ WakeRearm
     \/ WakeGivesUp
     \/ wakepc = "break" /\ Return /\ UNCHANGED wakepc

Next == ClientStep \/ WakeStep

Spec == Init /\ [][Next]_vars
=============================================================================
