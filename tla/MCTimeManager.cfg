\* Three tasks compete for two descriptors.
CONSTANTS
  t1 = t1
  t2 = t2
  t3 = t3
  Tasks <- MCTasks
  NoTask = NoTask
  Handlerless <- MCHandlerless
  XTasks <- MCXTasks
  NUM_DESCS = 2
  BootTime = 2
  Horizon = 3
  Delays <- MCFewDelays
SPECIFICATION FairSpec
INVARIANTS NextWakeupExact NoTaskLost
PROPERTIES DueTasksAreCalled
