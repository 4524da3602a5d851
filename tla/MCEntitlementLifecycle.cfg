SPECIFICATION Spec
CONSTANTS
  flat = flat
  cottage = cottage
  ann = ann
  bob = bob
  phone = phone
  None = None
  Plan = {flat}
  Revision = {"r1"}
  Installation = {ann, bob}
  Handler = {h1, h2}
  AtStart = {ann, bob}
  RosterRequest <- MCRoster
  LicenseRequest <- MCLicense
  GateRequest <- MCAsks
  Migration = {}
  TrialDuration = 0
  GraceDuration = 0
  MaxTime = 2
SYMMETRY HandlersAlike
INVARIANTS TypeOK GraceComesFirst
PROPERTIES TrialStartIsStable ReadOnlyHolds
CHECK_DEADLOCK FALSE
