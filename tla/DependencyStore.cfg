SPECIFICATION Spec
CONSTANTS
  p1 = p1
  p2 = p2
  t1 = t1
  t2 = t2
  t3 = t3
  i1 = i1
  i2 = i2
  None = None
  Error = Error
  Process <- TwoProcesses
  Thread <- ThreeThreads
  Owner <- Owners
  Id <- TwoIds
  Definition <- Definitions
  MaxCalls <- CallsOf
  MaxEnds = 1
SYMMETRY Symmetric
INVARIANTS PinsStay LookupRight DeleteErases
CHECK_DEADLOCK FALSE
