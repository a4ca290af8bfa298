\* The assertions on entry of CreateConfig.
CONSTANTS
    Dialogs = {A}
    Configs <- MCConfigs
    Getters = TRUE
    Throws = FALSE
    ApiModal = FALSE
    None = None
    MaxDepth = 3
SPECIFICATION Spec
INVARIANT RuntimeFree
