\* Two events, emissions to one of them or to both, and emissions inside them.
CONSTANTS
    Events = {a, b}
    Listeners = {f, g}
    Regexes <- MCRegexes
    Values = {true, undef}
    DefaultOnce = true
    None = None
    MaxListeners = 1
    MaxDepth = 2
SPECIFICATION Spec
SYMMETRY Symmetry
INVARIANTS TypeOK OwedIsQueued EmissionDelivers
PROPERTY KeepsContract
