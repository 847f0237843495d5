\* The application crashes, its daemon lives on, and a new instance starts others.
SPECIFICATION Spec
CONSTANTS
  Daemons = {d1, d2}
  NoOne = NoOne
  MaxRestarts = 3
INVARIANTS
  OneServes
