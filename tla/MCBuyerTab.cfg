SPECIFICATION TabSpec
CONSTANTS
  None = None
  a = a
  d1 = d1
  saved0 = saved0
  Details = {a}
  PageDetails = a
  PageIntent = "stated"
  Drafts = {d1}
  PageDraft = saved0
  MaxCalls = 2
  f1 = f1
  f2 = f2
  Filters = {f1, f2}
  DefaultFilters = f1
  MaxPage = 1
  TotalPages <- MCTotalPages
  MaxLoads = 1
  Toggles = {"infrastructure", "transportRoutes"}
  Listings = {}
  MaxPicked = 0
  Gone = {}
  Purposes = {"self"}
  FollowUps = {}
  MaxCompare = 2
  MaxInitialLoads = 0
  Apartments = {}
  Alerts = {}
  Settings = {}
  Agencies = {}
  Clients = {}
  AgencyOf <- MCAgencyOf
  MaxThreads = 0
  Entries = {}
  EditorLoads = {}
  MaxSaves = 0
  Handlers = {}
  DeletionLoads = {}
  MaxCrashes = 0
INVARIANTS
  TabTypeOK
  OneMutation
  GuardsOwned
  ReportOfShown
  ConfirmedIsAnalysed
  MapDrawsFilters
  FramedIsDrawn
PROPERTIES
  OnlyLateAnswersMix
