CONSTANTS
  h1 = h1
  h2 = h2
  Handler = {h1, h2}
  Window = {2, 4}
  HourLength = 2
  TTL = 2
  Retention = 4
  MaxKeys = 2
  Lateness <- Late
  MaxSkew = 0
  MaxDelay = 0
  MaxNow = 4
  Digest = {1, 2, 3}
SPECIFICATION Spec
SYMMETRY Symmetric
INVARIANTS AnswerCurrent ReportComplete Readable
PROPERTIES CacheForward
CHECK_DEADLOCK FALSE
