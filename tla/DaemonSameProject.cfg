\* Two sessions of one project, one of them of weak provenance, and one screen.
SPECIFICATION Spec
CONSTANTS
  c1 = c1
  c2 = c2
  here = here
  fs = fs
  risky = risky
  Callers = {c1, c2}
  KeyOf <- SameProject
  ServerOf <- OneServer
  Trusted = {c1}
  UIs = {u1}
  Keys = {here}
  Servers = {fs}
  Tools = {write}
  NoTool = NoTool
  Classes = {risky}
  RuleSets <- Asking
  MaxPrompts = 2
  Capacity = 4
PROPERTY ImplementsConfirmation
INVARIANTS
  AllowIsEarned
  GrantsAreTheUsers
  ForeverNeedsTrust
