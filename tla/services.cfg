SPECIFICATION ServicesSpec
CONSTANTS
  split = split
  unrated = unrated
  i1 = i1
  i2 = i2
  p1 = p1
  p2 = p2
  agency = agency
  Timesheets = {t1}
  Lines = {split, unrated}
  LineKind <- TheKinds
  LineCost <- TheCosts
  LineSupplier <- TheLineSuppliers
  SupplierInvoices = {i1, i2}
  NoSupplierInvoice = NoSupplierInvoice
  ApPayments = {p1, p2}
  InvoiceSupplier <- TheInvoiceSuppliers
  Amounts = {1, 2}
  a1 = a1
  a2 = a2
  c1 = c1
  Engines = {"authority", "governance"}
  Polls = {q1, q2}
  Assignments = {a1, a2}
  Credentials = {c1}
  Events <- TheEvents
  BatchSize = 2
  MaxEvents = 3
  Methods = {"moving_average", "standard"}
  UnitCosts = {1, 2}
  Keys = {k1}
  NoKey = NoKey
  MaxQuantity = 2
  MaxValue = 4
  Requests = {r1, r2}
  Names = {"p2p_requisition", "requisition"}
  Operators = {o1, o2}
  Tabs = {tab1, tab2}
  Decisions = {d1, d2}
  MaxVersion = 3
  MaxWrites = 2
  Tasks = {task1, task2}
  ChangeRequests = {cr1}
  Resources = {w1, w2}
  Budgets = {1}
  Costs = {1}
  Hours = {1}
  Estimates <- TheEstimates
  DayHours = 1
  MaxCost = 2
  MaxGoods = 1
  Periods = {1, 2}
  CurrentPeriod = 2
  ManualJournals = {m1}
  SystemJournals = {s1, s2}
  Documents = {doc1}
  Accounts = {debited, credited}
  Nets = {1}
  DebitAccount = debited
  CreditAccount = credited
  MaxLines = 3
  NoJournal = NoJournal
  ContractValues = {1, 2}
  Deliverables = {0, 1}
  Skus = {sku1}
  Prices = {1}
  Billings = {1}
  MaxVersions = 2
  MaxQuotes = 1
  MaxQuoteLines = 2
  MaxEngagements = 2
  MaxElements = 2
  MaxPlans = 2
  Staff = {staff1, staff2}
  Asker = asker
  Grades = {2, 3, 4}
  Thresholds = {10, 100}
  AmountRules <- TheAmountRules
  Profiles = {profile1, profile2}
  Emails = {e1, e2}
  Employees = {h1}
  Nobody = Nobody
  Calls = {call1}
  MaxIdentities = 2
  MaxTokens = 2
  Callers = {n1}
  MaxWanted = 2
  Requisitions = {rq1}
  Receipts = {gr1}
  NoRequisition = NoRequisition
  Totals = {1, 2}
  MaxTotal = 2
  MaxPurchases = 2
VIEW Seen
CHECK_DEADLOCK FALSE
INVARIANTS
  ServicesTypeOK
  LabourCosted
  PayablesAgree
  
  StockAgrees
  RequestsSettledOnce
  
  ProjectFiguresAgree
  LedgerFollowsJournals
  BooksBalance
  CommitmentsHold
  ApprovalTierExact
  IdentitiesAgree
  LogTruthful
  PurchasesAgree
