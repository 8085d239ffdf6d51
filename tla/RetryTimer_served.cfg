\* Two timers that restart only with their backed-off timeout, polled often.
SPECIFICATION FairSpec
CONSTANTS
  t1 = t1
  t2 = t2
  Timers = {t1, t2}
  Counted = {t1}
  MIN_TIMEOUT = 1
  DEFAULT_MIN_TIMEOUT = 2
  DEFAULT_MAX_TIMEOUT = 4
  Floor = 0
  Ceiling = 0
  MinTimeout <- MCMinTimeout
  MaxTimeout <- MCMaxTimeout
  FixedTimeouts = {1}
  CallbackTimeouts = {1}
  TickMod = 6
  MaxRuntime = 1
  MaxCount = 1
  PollsPerTick = 2
INVARIANT ReferencesBalanced
PROPERTIES NeverEarly EveryTimerServed
