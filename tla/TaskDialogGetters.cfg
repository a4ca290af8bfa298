\* Reading the argument runs code of the script, which may throw.
CONSTANTS
    Dialogs = {A}
    Configs <- MCRadioConfigs
    Getters = TRUE
    Throws = FALSE
    ApiModal = TRUE
    None = None
    MaxDepth = 4
SPECIFICATION Spec
INVARIANTS OneWindow HandleFollowsWindow WindowHasObject
PROPERTIES RefusedOnlyIfAsked PreventCloseHonoured KeepsPromise
