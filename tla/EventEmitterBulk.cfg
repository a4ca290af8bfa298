\* Longer arrays, bulk operations, emissions that do not nest, and fairness.
CONSTANTS
    Events = {a}
    Listeners = {f, g}
    Regexes <- MCRegexes
    Values = {true, undef}
    DefaultOnce = true
    None = None
    MaxListeners = 3
    MaxDepth = 1
    Bulks <- MCBulks
    MaxCredit = 2
SPECIFICATION BulkFairSpec
INVARIANTS OnceEntriesCovered OnceRunsOnce PersistentOnce BulkRunsInOrder EmissionDelivers
PROPERTY EmissionEnds
