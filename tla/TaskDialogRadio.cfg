\* A dialog with buttons and radio buttons, as in examples/test.js.
CONSTANTS
    Dialogs = {A}
    Configs <- MCRadioConfigs
    Getters = FALSE
    Throws = FALSE
    ApiModal = FALSE
    None = None
    MaxDepth = 3
SPECIFICATION Spec
INVARIANT ClickReportsIndex
