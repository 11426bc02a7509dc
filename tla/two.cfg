SPECIFICATION Spec
CONSTANTS
    p1 = p1
    p2 = p2
    Proc = {p1, p2}
    NoProc = NoProc
    NoFile = NoFile
    NoHash = NoHash
    m1 = m1
    Model = {m1}
    NoModel = NoModel
    Path = {1, 2}
    Content = {"one", "both"}
    Skipped = {}
    Ident = {"f", "g"}
    Text = {"f1", "f2", "g1"}
    SymbolsOf <- MCSymbolsOf
    Specifier <- MCSpecifier
    ImportsOf <- MCImportsOf
    Root = Root
    Candidates <- MCCandidates
    ImplsOf <- MCImplsOf
    InGit = FALSE
    Modes = {"incremental", "full"}
    Embedders = {m1}
    MayFail = FALSE
    MaxRuns = 3
    MaxEdits = 1
INVARIANTS
    CatalogConsistent
    MirrorsTree
    GraphComplete
    RewrittenFilesEmbedded
PROPERTIES
    RunsAreAtomic
SYMMETRY
    Processes
ACTION_CONSTRAINT
    ThirdRunStartsAlone
