SPECIFICATION ReportSpec

CONSTANTS
    Publications = {1, 2}
    Collections = {1, 2}
    Backups = {b1, b2}
    MaxRestores = 2
    Identities = {own, other}
    Own = own
    Installers = {i1, i2}
    Revisions = {v1, v2}
    AssetFiles = {f1, f2}
    DownloadAttempts = 2
    FirstRoots <- MCFirstRoots
    v1 = v1
    v2 = v2
    Drafts = {d1, d2}
    Ingesters = {g1, g2}
    NoDraft = NoDraft
    LeaseTime = 2
    RetentionPeriod = 1
    MinimumSnapshots = 1
    RetentionBatch = 2
    MaxTime = 3
    Openers = {o1, o2, o3}
    acme = acme
    globex = globex
    Owners = {acme, globex}
    FirstFiles <- MCFirstFiles
    ReportCards = {k1, k2}
    ScopeVersions = {s1, s2}
    k1 = k1
    k2 = k2
    s1 = s1
    s2 = s2
    NoScope = NoScope
    ReadyPlans <- MCReadyPlans
    MaxReady = 2
    MaxJudgements = 2
    StalePending = 2
    UnitRequests <- MCUnitRequests
    ModelAnswers <- MCModelAnswers
    PromptBudget = 6
    DescriptionMax = 4
    QuestionMax = 2
    AliasMax = 2
    KeywordMax = 1
    NameMax = 2
    QuestionCount = 1
    AliasCount = 2
    KeywordCount = 3
    NameCount = 3
    ScopeCount = 1

SYMMETRY Interchangeable

INVARIANTS
    RemovedIsOrphaned

CHECK_DEADLOCK FALSE
