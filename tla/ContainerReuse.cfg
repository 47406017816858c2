SPECIFICATION MCSpec
CONSTANTS
  Hosts = {h1, h2}
  Lines <- MCLines
  Sizes = {4, 6, 8}
  Totals = {0, 9}
  ReuseHosts <- NoReuse
  RetryFailed = FALSE
PROPERTY NoReuseUnlessAsked
CHECK_DEADLOCK FALSE
