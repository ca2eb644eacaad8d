CONSTANTS
  Services = {s1}
  Callers = {g1, g2}
  Clients = {c1, c2}
  Handles = {h1, h2, h3}
  Reregister = FALSE
  StartMayFail = FALSE
  MaxUses = 2
  NoObj = NoObj
SPECIFICATION Spec
SYMMETRY MCSymmetry
INVARIANT SendNeverPanics
