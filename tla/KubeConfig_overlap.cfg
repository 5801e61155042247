SPECIFICATION Spec
CONSTANTS
  g1 = g1  g2 = g2  g3 = g3  c1 = c1  c2 = c2
  None = None
  Proc <- Three
  Context <- Contexts
  Within <- Apart
  Overlap = "any"
  Faults = TRUE
  MaxOps = 4
SYMMETRY Symmetry
INVARIANTS TypeOK CurrentExists CredentialsMatch EnvRestored
PROPERTY OthersKept
CHECK_DEADLOCK FALSE
