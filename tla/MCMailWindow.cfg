SPECIFICATION MailSpec
CONSTANTS
  work = work
  home = home
  inbox = inbox
  archive = archive
  PaneAccounts = {work, home}
  Paths = {inbox, archive}
  Twos <- TwoOfWork
  Hits <- WorkHit
  MaxOps = 2
  Nowhere = Nowhere
  Mails <- EightMails
  Untitled = "none"
  PrefixLimit = 1
  ReferenceLimit = 1
  MessageLimit = 4
  MaxSetupCalls = 2
  SetupKeys = {}
  FirstRevisions <- ThreeAges
  MaxPaneCalls = 3
  MaxUnderWay = 2
  MaxMailLinks = 3
  MaxReviews = 2
  MaxPendingReviews = 2
  ReviewTtl = 1
  MaxClock = 2
  Screens <- Displays
  Places <- WindowPlaces
  MinWidth = 3
  DefaultWidth = 5
  MinOverlap = 2
  MaxMoves = 2
INVARIANTS ShownIsSelected NothingStaysLoading ConversationsSound  PlaceKept
CHECK_DEADLOCK FALSE
