SPECIFICATION ServicesSpec
CONSTANTS
  Updates = {t1, t2, t3}
  MaxFaults = 3
  BodyLines = 2
  MaxMessages = 3
  MessageLimit = 2
  Sources = {"s1", "s2"}
  QuarantineCalls = {"c1", "c2"}
  MaxIds = 2
  Ordinary = 0
  MaxSuffix = 0
  MaxStates = 3
  MaxCommits = 4
  MaxTime = 1
  PimUids = {1}
  MaxTransactions = 4
  Refreshes = {1, 2}
  MailStates <- FourStates
  DocumentLimit = 2
  SchemaVersion = 1
  MaxMishaps = 4
  TagKeywords = {"t", "u"}
  OtherKeywords = {"f"}
  MaxForeignSteps = 2
  TagNames = {"x", "y"}
  SlugOf <- OneSlug
  Shapes <- FourFilters
  Roles <- JunkFolder
  Home = "home"
  MaxTags = 2
  MaxFilters = 2
  MaxBorn = 2
  Tokens = {1, 2, 3}
  TokenLimit = 2
  TrainingMinimum = 1
  MaxTrained = 3
  MockCalls = {"c1", "c2"}
  MaxIssued = 3
INVARIANTS SessionsInStep  RecordsExplained SearchSound 
PROPERTIES TokensKept  
CHECK_DEADLOCK FALSE
