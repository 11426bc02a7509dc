SPECIFICATION Spec
CONSTANTS
    p1 = p1
    p2 = p2
    Proc = {p1, p2}
    Text = {"none", "t", "u", "b"}
    Empty = "none"
    Keep = Keep
    Tag = {"x"}
    Target = {"l"}
    Place = {"here"}
    Blob = {"old", "new"}
    NoBlob = NoBlob
    Drafts <- MCDrafts
    Changes <- MCChanges
    Documents <- MCDocuments
    Commands = {"add", "edit"}
    MayFail = FALSE
    MaxCommands = 3
PROPERTIES
    NilMeansUnchanged
SYMMETRY
    Processes
