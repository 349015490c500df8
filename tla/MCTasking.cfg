CONSTANTS
  Task = {wake, t1, t2, t3}
  Wake = wake
  NoTask = null
  EC = {e1, sim_finish}
  Etime = etime
  SimFinish = sim_finish
  MaxTime = 3
  TimeBound = 2
  CountBound = 1
  AlarmBound = 2
SPECIFICATION FairSpec
INVARIANTS TypeOK ListsSorted NoMissedWakeup NoLostTask AlarmArmed DeadlockIsReal
PROPERTIES ImplementsInterface AlarmFires
