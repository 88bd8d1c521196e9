SPECIFICATION JobSpec
CONSTANTS
  t1 = t1
  t2 = t2
  once = once
  again1 = again1
  again2 = again2
  Ticks = {t1, t2}
  Jobs = {once, again1, again2}
  Interval <- Intervals
  MaxAttempts <- OneRetry
  Delays = {0}
  BatchSize = 2
  BaseDelay = 1
  MaxDelay = 2
  Lag = 1
CHECK_DEADLOCK FALSE
INVARIANT JobTypeOK OneRunner
PROPERTY NoStarvation EventuallyEnds
