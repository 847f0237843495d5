\* Two requests of one client, a daemon that does not fail and a policy that stays.
SPECIFICATION LinkSpec
CONSTANTS
  Callers = {c1, c2}
  MaxCalls = 1
  MaxReports = 1
  Timeouts = {1}
  Margin = 3
  Transit = 1
  MayReload = FALSE
  MayStall = FALSE
INVARIANT
  AskNeverDecays
\* The callers make a bounded number of calls.
CHECK_DEADLOCK FALSE
