SPECIFICATION Spec
CONSTANTS
  None = None
  f1 = f1
  f2 = f2
  l1 = l1
  l2 = l2
  l3 = l3
  s1 = s1
  a1 = a1
  a2 = a2
  A = A
  B = B
  c1 = c1
  e1 = e1
  e2 = e2
  h1 = h1
  h2 = h2
  n0 = n0
  n1 = n1
  n2 = n2
  Filters = {f1, f2}
  DefaultFilters = f1
  MaxPage = 2
  TotalPages <- MCTotalPages
  Listings = {l1, l2, l3}
  Gone = {l3}
  Purposes = {"self", "family"}
  FollowUps = {"verdict"}
  MaxPicked = 2
  MaxCompare = 3
  Apartments = {s1}
  Alerts = {a1, a2}
  Settings = {"daily"}
  Agencies = {A, B}
  Clients = {c1}
  AgencyOf <- MCAgencyOf
  Entries = {e1, e2}
  Handlers = {h1, h2}
  EditorLoads = {n1, n2}
  DeletionLoads = {n0}
  MaxLoads = 1
  MaxInitialLoads = 1
  MaxCalls = 2
  MaxSaves = 1
  MaxThreads = 2
  MaxCrashes = 1
  Details = {n0}
  PageDetails = n0
  PageIntent = "unsure"
  Drafts = {}
  PageDraft = s1
  Toggles = {}
SYMMETRY Exchange
INVARIANTS
  TypeOK
  ListIsCurrent
  LinkKeepsSelection
  ShownIsStored
  ControlsReleased
  CrmOfSelected
  EntriesKeepTheirData
  DeletionsAudited
  RejectedKeepsDraft
PROPERTIES
  MapShowsLatest
  ComparisonIsLatest
  OnlyLateAnswersMix
  MemberKeepsSelection
CHECK_DEADLOCK FALSE
