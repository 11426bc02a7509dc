SPECIFICATION FairSpec
CONSTANTS
    p1 = p1
    p2 = p2
    Proc = {p1, p2}
    NoProc = NoProc
    NoFile = NoFile
    NoHash = NoHash
    m1 = m1
    Model = {m1}
    NoModel = NoModel
    Path = {1}
    Content = {"one", "both"}
    Skipped = {}
    Ident = {"f", "g"}
    Text = {"f1", "f2", "g1"}
    SymbolsOf <- MCSymbolsOf
    Specifier <- MCSpecifier
    ImportsOf <- MCImportsOf
    Root = Root
    Candidates <- MCCandidates
    ImplsOf <- MCImplsOf
    InGit = FALSE
    Modes = {"incremental", "clean"}
    Embedders = {m1, NoModel}
    MayFail = FALSE
    MaxRuns = 2
    MaxEdits = 1
INVARIANTS
    LockHeldByWriter
PROPERTIES
    RunsEnd
