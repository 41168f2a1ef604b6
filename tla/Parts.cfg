SPECIFICATION PartsSpec
CONSTANTS
  Worker = {w1, w2}
  Game = {1}
  Kind = {"youtube_api", "video", "captions", "audio", "whisper", "chat"}
  Units <- UnitsOf
  Limits <- LimitsOf
  Pause <- PauseOf
  Lease = 1
  RefreshAfter = 2
  MaxAttempts = 2
  MaxListens = 2
  MaxLag = 1
  MaxFaults = 1
  Process = {1, 2}
  HeartbeatInterval = 1
  Stale = 2
  MaxHeartbeatFaults = 2
  Writer = {w1, w2}
  CatalogueGame = {1, 2}
  Locator = {"l1", "l2"}
  Platform = {1, 2}
  Related = {"r1"}
  CatalogueScore = {7}
  PageSize = 1
  IndexedGame = {1, 2}
  GameText <- GameTexts
  EmbedBatch = 2
  CheckInterval = 1
  FailurePause = 2
  FullCheck = 3
  MaxSaves = 3
  MaxIndexFaults = 1
  RankedGame = {1, 2, 3}
  Genre = {1, 2}
  FusedScore = {3, 4}
  GenreBonus = 1
  MinScore = 4
  MaxResults = 1
  FetchAttempts = 2
  Pauses <- PauseList
  RequestTimeout = 1
  ResponseDeadline = 1
  MaxOpening = 1
  MaxBody = 2
  ChunkReads = 2
  MaxEntries = 1
  Operator = {"o1", "o2"}
  RequestKey = {1, 2, 3}
  Post = {w1, w2}
  Hour = 3
  Cooldown = 1
  HourlyLimit = 2
  Wait = 1
  MaxTime = 3
  User = {"u1", "u2"}
  Address = {"a1"}
  Caller = {w1, w2}
  Window = 2
  LoginAttempts = 2
  Patience = 1
  Route = {1}
  Content = {1, 2}
  InputOf <- InputOfCorpus
  Contour = {1, 2}
  Day = {1, 2}
  Footage = {"v1", "v2"}
  MaxWrites = 5
  Case = {1, 2}
  KindOf <- KindOfCase
  Dimension = {"GROUND", "FORMAT"}
  Critical = {"GROUND"}
  MaxRetries = 1
  MaxEdits = 2
  ReviewPlatform = {1, 2}
  Identity = {1, 2}
  ReviewWords = {1, 2}
  Side = {"negative", "mixed", "positive"}
  Hashes <- KeyOrders
  MaxSelected = 2
  MinPerSide = 1
  Video = {1, 2}
  Candidate <- Candidates
  Name <- Titles
  Digits = {2}
  Compound <- Compounds
  Tracks <- TrackLists
  Text <- Spoken
  MaxHeard = 2
  SpokenGap = 1
  Items <- Claims
  MaxReviews = 2
  MaxItems = 2
  Raw = {1, 3}
  Guard = 1
  PromptLimit = 2
  Completion = 1
  MaxWait = 3
  Transcripts <- SpokenWords
  MaxWords = 10
  SegmentMin = 2
  SegmentMax = 3
  Overhead = 1
  PerSegment = 4
  MaxRequest = 9
  MaxOpinions = 1
INVARIANTS
  BudgetKept
  StateIsEarned
  OperatorsKept
  ObservationKept
  SimilarKept
  GatewayKept
  SelectionKept
  AnswersKept
  CardsKept
  EvaluationKept
PROPERTIES
  LostClaimOnlyDelays
  CatalogueKept
CHECK_DEADLOCK FALSE
SYMMETRY Names
