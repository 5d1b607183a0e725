SPECIFICATION Spec
CONSTANTS
  Calls = {c1, c2, c3}
  Actors = {alice, bob, carol}
  alice = alice
  bob = bob
  carol = carol
  bigContract = bigContract
  amendable = amendable
  cancelProject = cancelProject
  forceCancel = forceCancel
  newOrder = newOrder
  NoActor = NoActor
  Ops = {cancelProject, forceCancel}
  Kind <- TheKind
  Key <- TheKey
  SodOps <- TheSodOps
  Owner <- TheOwner
  MinTier <- TheMinTier
  ApprovalTier <- TheApprovalTier
  MaxTier = 1
  MaxVersion = 1
  InitialTiers <- TheTiers
  Mode = "enforce"
  Serial = TRUE
  CanThrow = TRUE
  MaxChanges = 0
  MaxCrashes = 1
CHECK_DEADLOCK FALSE
INVARIANTS
  ForwardedAtMostOnce
  StatusTellsEffect
PROPERTIES
  ImplementsApprovalTask
SYMMETRY CallSymmetry
