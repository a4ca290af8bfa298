\* Two dialogs whose listeners show, navigate and close each other, call other
\* modal functions and throw.
CONSTANTS
    Dialogs = {A, B}
    Configs <- MCConfigs
    Getters = FALSE
    Throws = TRUE
    ApiModal = TRUE
    None = None
    MaxDepth = 4
SPECIFICATION Spec
INVARIANTS TypeOK OneWindow HandleFollowsWindow RuntimeOwned
PROPERTIES RefusedOnlyIfAsked PreventCloseHonoured KeepsPromise
