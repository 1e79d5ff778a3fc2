\* One unit of the clock is 500 ms, shortened to 6 s, so that bursts meet every phase of a minute.
SPECIFICATION Spec
CONSTANTS
  MINUTE = 12
  AIRING = 1
  PAUSE = 9
  CACHE_TTL_MS = 4
  TIME_OFFSET = 1000
  MAX_CLOCK = 40
INVARIANT TypeOK
PROPERTY SilenceOutlastsCaches
PROPERTY AirsThisMinute
PROPERTY OnePacketPerBurst
CHECK_DEADLOCK FALSE
