SPECIFICATION FairSpec
CONSTANTS
  flat = flat
  ann = ann
  late = late
  invite = invite
  None = None
  Plan = {flat}
  Recipient = {ann}
  Handler = {h1}
  HousingTarget = {late}
  ClientTarget = {invite}
  PlanOf <- MCPlanOf
  KindOf <- MCKindOf
  RecipientOf <- MCRecipientOf
  Zone <- MCZone
  Terms <- MCTerms
  PlanUpdate <- MCTwoUpdates
  ClientFires <- MCClientFires
  claimBatchSize = 1
  Clock <- MCClock
INVARIANT TypeOK
PROPERTIES FiredIsFinal CancelledStaysSilent RevivalIsClean DueIsFired
CHECK_DEADLOCK FALSE
