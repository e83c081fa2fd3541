SPECIFICATION Spec

CONSTANTS
    Requests = {r1, r2}
    Targets = {1, 2}
    Slots = 1
    CharacterCeiling = 2
    Asked = {Unset, 3}
    Unset = Unset
    Failing <- MCFailing
    Plans <- MCPlans
    MaxNow = 5
    TotalMs = 4
    SelectionMs = 1
    AssemblyReserveMs = 1
    ManagedSearchCeilingMs = 2
    SearchConcurrency = 1
    MaxBatchTargets = 2
    Inputs <- MCInputs
    RequestLimit = 1
    MaxInFlight = 2
    BodyLimit = 2
    Paths = {"resolve", "wrong_method", "unknown"}
    Bodies = {"query", "junk", "bad_budget"}
    Calls = {c1, c2, c3}
    MaxThreads = 2
    StopWords = {"the", "and", "of"}
    StemOf <- MCStemOf
    StartsWith <- MCStartsWith
    ShortWords = {"of"}
    IntentsOf <- MCIntentsOf
    LogRatio <- MCLogRatio
    BroadVocabulary = 5
    Marks = {"sep", "and", "quote", "escape"}
    FacetLimit = 3
    ChunkLimit = 2
    MaxCards = 2
    MaxItems = 4
    MaxTargets = 3
    MaxSelectedBy = 3
    MaxGuideBytes = 6
    DetailLimit = 2
    TextLength <- MCTextLength
    MaxCharacters = 3
    MaxChunks = 2
    Catalogs <- MCCatalogs
    Queries <- MCQueries
    Contexts <- MCContexts
    Bm25Values = {0, 40, 61, 86}
    NgramValues = {0, 100}
    Similarities = {70, 82, 84, 86, 91}
    FacetScores = {0, 90}
    SemanticTopK = 2
    OversizeCards = {4}
    LongQueries <- MCLongQueries
    Reads <- MCReads
    MaxChunkTokens = 12
    TargetChunkTokens = 8
    OverlapTokens = 3
    MaxUnitTokens = 24
    TargetUnitTokens = 14
    MinUnitTokens = 4
    LexicalWindowBlocks = 2
    Similarity <- MCSimilarity
    Files <- MCFiles
    FirstFiles <- MCFirstFiles
    Profiles = {1, 2}
    BatchSize = 3
    MaxAttempts = 2
    MaxEdits = 2
    MaxFaults = 1

INVARIANTS
    AnsweredIsAudited
    AnsweredInTime
    TransportsAnswerOnce
    NeverRefusesItself
    NothingLost
    AdmittedForAReason
    AnswerIsOneContext
    AcceptsItsOwnOutput
    TakenOverIsTrue

PROPERTIES
    EveryoneAnswered
    PublishesTheFile
    ChangesOnlyWhatChanged

CHECK_DEADLOCK FALSE
