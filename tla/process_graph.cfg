SPECIFICATION FairSpec
CONSTANTS
  Objects = {"requisition", "purchaseOrder", "goodsReceipt", "supplier", "supplierInvoice",
             "apPayment", "quote", "salesOrder", "arInvoice", "arPayment", "journal",
             "fiscalPeriod", "employee", "assignment", "credential", "customer", "shipment",
             "fiscalYear", "project"}
  Requesters <- TheRequesters
  c1 = c1
  c2 = c2
  c3 = c3
  Calls = {c1, c2, c3}
  None = None
  MeshAnswers = {"forwarded", "refused", "parked", "lost"}
  MeshDelegationEnabled = TRUE
  StreamLimit = 7
  CanCrash = TRUE
  MaxMoves = 7
CHECK_DEADLOCK FALSE
INVARIANTS
  RebuiltLagsOnly
  OffersHonoured
  CommandLegalSince
  ApprovalSpentOnce
  EffectsRecorded
PROPERTIES
  GraphCatchesUp
