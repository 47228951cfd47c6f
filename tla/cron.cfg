CONSTANTS
  custom=custom backup=backup restore=restore x1=x1 x2=x2 x3=x3 c1=c1 c2=c2
  NoJob=NoJob Nobody=Nobody
  Job={custom, backup, restore}
  SchedulerOf <- Schedulers
  OneTime={restore}
  Restarting={backup}
  Run={x1, x2}
  Caller={c1, c2}
SPECIFICATION FairSpec
INVARIANTS RunningMeansHeld ScheduleIsCurrent WaitOutlastsRuns
PROPERTIES RunsEnd WaitersReturn
CHECK_DEADLOCK FALSE
