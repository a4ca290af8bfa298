\* Liveness: a dialog that was closed behind another one.
CONSTANTS
    Dialogs = {A, B}
    Configs <- MCPlain
    Getters = FALSE
    Throws = FALSE
    ApiModal = FALSE
    None = None
    MaxDepth = 4
SPECIFICATION FairSpec
PROPERTY EndingCompletes
