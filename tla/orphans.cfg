SPECIFICATION Spec
CONSTANTS
    p1 = p1
    Proc = {p1}
    NoProc = NoProc
    NoFile = NoFile
    NoHash = NoHash
    m1 = m1
    Model = {m1}
    NoModel = NoModel
    Path = {1, 2}
    Content = {"one", "both"}
    Skipped = {}
    Ident = {"f", "g"}
    Text = {"f1", "f2", "g1"}
    SymbolsOf <- MCSymbolsOf
    Specifier <- MCSpecifier
    ImportsOf <- MCImportsOf
    Root = Root
    Candidates <- MCCandidates
    ImplsOf <- MCImplsOf
    InGit = TRUE
    Modes = {"incremental", "full"}
    Embedders = {m1}
    MayFail = FALSE
    MaxRuns = 2
    MaxEdits = 1
INVARIANTS
    NoOrphanVectors
