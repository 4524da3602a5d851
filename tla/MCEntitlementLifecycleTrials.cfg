SPECIFICATION Spec
CONSTANTS
  flat = flat
  cottage = cottage
  ann = ann
  bob = bob
  phone = phone
  None = None
  Plan = {flat, cottage}
  Revision = {"r1"}
  Installation = {ann, bob, phone}
  Handler = {h1, h2}
  AtStart = {ann}
  RosterRequest <- MCTwoPlans
  LicenseRequest = {}
  GateRequest = {}
  Migration <- MCSharedMove
  TrialDuration = 1
  GraceDuration = 1
  MaxTime = 0
SYMMETRY HandlersAlike
INVARIANT TrialOncePerPerson
CHECK_DEADLOCK FALSE
