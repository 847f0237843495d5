\* Two clients that read and send, a server that asks, and a hook.
SPECIFICATION TaintSpec
CONSTANTS
  c1 = c1
  c2 = c2
  l1 = l1
  l2 = l2
  Clients = {c1, c2}
  Links = {l1, l2}
  Wirings <- ShimsOrProxy
  Files = {f1, f2}
  Noise = Noise
  Nothing = Nothing
  MaxInflight = 2
  TTL = 1
  MaxTime = 1
  MaxIds = 2
  MaxMade = 3
  MaxAsks = 1
  MaxHooks = 1
SYMMETRY Interchangeable
INVARIANTS
  TaintIsReal
PROPERTIES
  LeakIsSeen
\* The clients make a bounded number of calls.
CHECK_DEADLOCK FALSE
