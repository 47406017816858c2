SPECIFICATION ScheduleSpec
CONSTANTS
  Hosts = {h1, h2}
  Lines <- MCLines
  Sizes = {}
  Totals = {}
  ReuseHosts = {}
  RetryFailed = TRUE
  initial_expected_concurrent_registrations = 8
  containers_count = 20
INVARIANTS NeverOverdrawn FullBatch OneTurnEach
PROPERTY EndsUnlessRetrying
CHECK_DEADLOCK FALSE
