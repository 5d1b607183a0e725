SPECIFICATION Spec
CONSTANTS
  Calls = {c1, c2, c3}
  Actors = {alice, bob, carol}
  alice = alice
  bob = bob
  carol = carol
  bigContract = bigContract
  amendable = amendable
  cancelProject = cancelProject
  forceCancel = forceCancel
  newOrder = newOrder
  NoActor = NoActor
  Ops = {amendable, cancelProject, forceCancel, newOrder}
  Kind <- TheKind
  Key <- TheKey
  SodOps <- TheSodOps
  Owner <- TheOwner
  MinTier <- TheMinTier
  ApprovalTier <- TheApprovalTier
  MaxTier = 1
  MaxVersion = 1
  InitialTiers <- TheTiers
  Mode = "enforce"
  Serial = FALSE
  CanThrow = FALSE
  MaxChanges = 1
  MaxCrashes = 0
CHECK_DEADLOCK FALSE
INVARIANTS
  PendingUnique
  ForwardedOnlyIfAllowed
  LogSound
SYMMETRY CallSymmetry
