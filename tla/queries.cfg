SPECIFICATION QueriesSpec
CONSTANTS
    p1 = p1
    Proc = {p1}
    NoProc = NoProc
    NoFile = NoFile
    NoHash = NoHash
    m1 = m1
    Model = {m1}
    NoModel = NoModel
    Path = {1, 2}
    Content = {"none", "both"}
    Skipped = {}
    Ident = {"f", "g"}
    Text = {"f1", "g1"}
    SymbolsOf <- MCSymbolsOf
    Specifier = {"a", "b"}
    ImportsOf <- MCImportsOf
    Root = Root
    Candidates <- MCCandidates
    ImplsOf <- MCImplsOf
    InGit = FALSE
    Modes = {"incremental", "full"}
    Embedders = {m1}
    MayFail = FALSE
    MaxRuns = 2
    MaxEdits = 1
    Name = {"f", "g"}
    NoName = NoName
    NameOf <- MCNameOf
    Mentions <- MCMentions
    x = x
    Package = {x}
    PackagesOf <- MCPackagesOf
    Greppable = {1}
    MemoryVec <- MCMemoryVec
    QueryModel = m1
    Asks <- MCAsks
    VecK = 6
    ContentCap = 1
    CandidateCap = 3
    RescueCap = 2
    BlockCap = 3
    MaxQueries = 1
ACTION_CONSTRAINTS
    FirstRunThenQueries
    SearchInOrder
INVARIANTS
    QueryTypeOK
    GraphAnswerCloses
    HitsDoNotOverlap
    SearchIsExact
    ShowIsExact
