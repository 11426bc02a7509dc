SPECIFICATION Spec
CONSTANTS
    p1 = p1
    p2 = p2
    Proc = {p1, p2}
    Text = {"none", "t", "u", "b"}
    Empty = "none"
    Keep = Keep
    Tag = {"x"}
    Target = {"l"}
    Place = {"here"}
    Blob = {"old", "new"}
    NoBlob = NoBlob
    Drafts <- MCDrafts
    Changes <- MCChanges
    Documents <- MCDocuments
    Commands = {"add", "edit", "remove", "export", "import", "restore", "embed"}
    MayFail = TRUE
    MaxCommands = 4
INVARIANTS
    TypeOK
    MemoriesConsistent
    FullTextCurrent
    RemovedVectorsGone
    MemoriesEmbedded
    DocumentsMatchStore
PROPERTIES
    MemoriesAreAtomic
    NewIdsAreFresh
    ImportMergesOnce
    EditsKeepTheRest
SYMMETRY
    Processes
ACTION_CONSTRAINT
    FirstAndLastRunAlone
