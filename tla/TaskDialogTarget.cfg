\* A listener shows another dialog, as msgBox of examples/test.js does.
CONSTANTS
    Dialogs = {A, B}
    Configs <- MCConfigs
    Getters = FALSE
    Throws = FALSE
    ApiModal = FALSE
    None = None
    MaxDepth = 4
SPECIFICATION Spec
INVARIANT EventReachesItsDialog
