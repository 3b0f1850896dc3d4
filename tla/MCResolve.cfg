SPECIFICATION Spec
CHECK_DEADLOCK FALSE
CONSTANTS
    URIs <- MCURIs
    Workspaces <- MCWorkspaces
    Words = {"x"}
    NewName = "z"
INVARIANTS RenameKeepsBindings ConnectionsAgree HighlightCovers ReferencesExact JumpsAgree SignatureAgrees
