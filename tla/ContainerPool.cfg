SPECIFICATION MCSpec
CONSTANTS
  Hosts = {h1, h2}
  Lines <- MCLines
  Sizes = {4, 6, 8}
  Totals = {0, 9}
  ReuseHosts <- MCBoolean
  RetryFailed = TRUE
INVARIANTS CounterRecordsSpent FreshSelection AppleToApple
PROPERTY ImplementsLedger
CHECK_DEADLOCK FALSE
