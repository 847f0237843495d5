\* One session and two screens, which may vanish or fall behind, on a fair executor.
SPECIFICATION FairSpec
CONSTANTS
  c1 = c1
  c2 = c2
  here = here
  fs = fs
  risky = risky
  Callers = {c1}
  KeyOf <- Alone
  ServerOf <- OneServer
  Trusted = {c1}
  UIs = {u1, u2}
  Keys = {here}
  Servers = {fs}
  Tools = {}
  NoTool = NoTool
  Classes = {risky}
  RuleSets <- AskOrBlock
  MaxPrompts = 1
  Capacity = 1
INVARIANTS
  CountedIsListening
  PanelsFollowPending
PROPERTIES
  EveryCallAnswered
