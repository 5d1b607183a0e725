SPECIFICATION Spec
CONSTANTS
  goods = goods
  services = services
  first = first
  second = second
  Orders = {services}
  Services = {services}
  OrderTotal <- TheTotal
  TaxedTotal <- Untaxed
  RatePercent = 33
  Milestones = {first, second}
  OrderOf <- TheOrder
  BillingAmount <- TheAmount
  ContractValue = 7
  Invoices = {i1, i2, i3}
  NoInvoice = NoInvoice
  NoMilestone = NoMilestone
  Payments = {p1, p2}
  PaymentAmounts = {2}
  LaborCosts = {3}
  MaxLabor = 6
  MaxCuts = 0
INVARIANTS
  ApprovedMilestoneBilled
SYMMETRY FreshNames
