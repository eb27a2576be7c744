CONSTANTS
  KnownPlayers = {"p", "q"}
  Bot = "bot"
  NoteTexts = {"x"}
  FirstNotes <- OneNote
  NoText = ""
  Tags = {"t"}
  TagLimit = 1
  MaxAsked = 2
  MaxShown = 2
  MaxRefused = 1
  Changes <- SomeChanges
  OldSessions = 1
  IdleTimeout = 1
  MinRanked = 2
  UnknownMmr = UnknownMmr
  MaxGames = 1
  MaxLate = 1
  MaxSaves = 2
  MaxOpened = 1
  Tracked = {"p", "q"}
  Nicknames = {"x"}
  NoNickname = ""
  FirstTracked = {"p"}
  Graphs = {"g", "h"}
  MaxPlotted = 1
  MaxChosen = 1
  NobodyOpen = "nobody"
  MaxReadings = 1
  MaxWorkerJobs = 2
  MaxFound = 1
  MaxDialogs = 2
  CardRules <- CardSettings
  FirstRule <- GoalRule
  Interval = 2
  SummaryLasts = 2
  LastMs = 4
  MaxHappened = 2
  MaxDone = 2
  SavedLayouts <- OldLayouts
  NoLayout = NoLayout
  MaxEdits = 3
  MaxCommits = 1
  SavedBoards <- OldBoards
  MaxArranged = 2
  MaxToggled = 2
  MatchKinds <- SomeKinds
  NoDelta = NoDelta
  PageRows = 2
  MaxMatches = 3
  LastPlayed = 2
  Ports = {1}
  NoPath = NoPath
  NoFile = NoFile
  FirstFiles <- SomeFiles
  SampleLength = 4
  MaxFileEdits = 1
  MaxTroubles = 1
  MaxRepairs = 2
  MaxPathChecks = 1
  FirstSettings <- Settings
  OmniNetAvailable = TRUE
  MaxLaunched = 2
  MaxTaken = 2
  Pc = {"a", "b"}
  Others = {"o"}
  Bots = {}
  NoPlayer = NoPlayer
  NoRecord = NoRecord
  Lobbies <- SomeLobbies
  PruneAfter = 1
  MaxUpdateStates = 3
  MaxHappenings = 1
  MaxLookups = 0
  MaxUnanswered = 1
  Cast = {"me", "foe"}
  Me = "me"
  NameOf <- CastNames
  SideOf <- CastSides
  NoPlayerId = NoPlayerId
  NoGuid = NoGuid
  Guids <- MatchGuids
  Plays <- SomePlays
  JournalLimit = 2
  MaxEvents = 2
  MaxRepeats = 1
  KickoffGoal = 1
  Matches <- TwoMatches
  HotkeyOrder <- CategoryOrder
  Extras = {"hoops"}
  Playlists <- OnePlaylist
  NoId = 0
  Lineups <- Duel
  FirstConfs <- FollowingConfs
  Venues <- SomeVenues
  Picks = {"hoops"}
  MaxUserChoices = 1
  MaxBegun = 1
SPECIFICATION PartSpec
INVARIANTS
  WindowsRight
  FiguresRight
  SetupRight
PROPERTIES
  ShownIsKept
CHECK_DEADLOCK FALSE
