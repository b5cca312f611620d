SPECIFICATION Spec
CONSTANTS
    None = None
    u1 = u1
    u2 = u2
    Languages = {"de", "en", "xx"}
    Supported = {"de", "en"}
    Canonical <- MCCanonical
    MinChars <- MCMinChars
    Speakers = {u1}
    Messages <- MCMessages
    HintAt = 2
    GuardChats = {"g1", "g2"}
    Expected <- MCExpected
    Partials <- MCPartials
    Answers <- MCAnswers
    Profiles <- MCProfiles
    Models = {None, "plain-2"}
    Families <- MCFamilies
    NameLength <- MCNameLength
    RepairAttempts = 2
    MaxEntries = 1
    MaxStreams = 4
    SettingsUsers = {u1}
    Slots = {"chat", "code"}
    Inputs = {"a", "b", "f", "?"}
    resolve_alias <- MCAliases
    Family <- MCFamily
    ActiveProvider = "own"
    SlotDefault <- MCSlotDefault
    DEFAULT_MODEL = "m1"
    StoredModels = {"m1", "m2", "other", "old"}
    DebateActive = {"d1", "d2"}
    DebateDefault = {"d1"}
    Profiles4 = {"normal", "power"}
    Flags = {"f1", "f2"}
    FlagsOn = {"f1"}
    Zones = {"Europe/Berlin"}
    TriggerUsers = {u1}
    MAX_PROACTIVE_PER_DAY = 1
    MinForHours = 3
    MinForPattern = 3
    MaxTimestamps = 4
    Questions <- MCQuestions
    SlotPriority <- MCPriority
    FallbackSlot = "chat"
    WordRange <- MCWordRange
    MinKeywords <- MCMinKeywords
    Chains <- MCChains
    DefaultChain <- MCNone
    RouterDefault = "p1"
    ProviderFamily <- MCProviderFamily
    NoticeLevel = 1
    Dates <- MCDates
    MaxRequests = 3
    RouterProviders <- MCRouter
    Configured <- MCNone
    PROVIDER_GROUPS <- MCGroups
    Pooled = {"c1", "c2"}
    JudgeCandidates <- MCJudges
    WeakJudge = "c1"
    MaxDebates = 2
    Keepers = {u1}
    BotMessages = {"b1"}
    NoteIds <- MCNoteIds
    NoteText <- MCNoteText
    Refused = {"secret"}
    LegacyFiles <- MCLegacyFiles
    KeywordsOf <- MCKeywordsOf
    KeywordLength <- MCKeywordLength
    Tokens <- MCTokens
    Parts <- MCParts
    Facts <- MCFacts
    Mentions <- MCMentions
    SkillTexts = {"s1"}
    LanguageOf <- MCLanguageOf
    RecentLimit <- MCRecent
    RecallLimit <- MCRecall
    ListLimit = 2
    BatchSize = 1
    MaxCache = 2
    MaxHistory = 3
    Stabilities = {2, 12, 23, 82}
    Patterns = {"h1"}
    Teacher = u1
    Claims = {"tidy", "pushy"}
    Blocking <- MCBlocking
    Scopes <- MCScopes
    Types = {"negative"}
    Signals <- MCSignals
    Ratings = {1500, 1532, 1564, 1596, 1628, 1660}
    Difficulty <- MCDifficulty
    JudgeDays <- MCJudgeDays
    RecentLimit3 = 3
    MaxRecords = 3
    MaxReviews = 3
    MaxVersion = 2
    MaxAudit = 2
    Absent = Absent
    DatabaseKeys = {"k1"}
    Rows = {"r1", "r2"}
INVARIANTS
    TypeOK
    NothingLost
    
    QueriesLeaveNothing
    
PROPERTIES
    ChosenIsUsed
    EvidenceMovesConfidence
CHECK_DEADLOCK FALSE
