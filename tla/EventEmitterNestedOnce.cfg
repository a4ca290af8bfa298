\* "automatically removed after its first execution", with a nested emission.
CONSTANTS
    Events = {a}
    Listeners = {f, g}
    Regexes <- MCRegexes
    Values = {true, undef}
    DefaultOnce = true
    None = None
    MaxListeners = 2
    MaxDepth = 2
    Bulks <- MCBulks
    MaxCredit = 2
SPECIFICATION BulkSpec
INVARIANTS OnceRunsOnce
