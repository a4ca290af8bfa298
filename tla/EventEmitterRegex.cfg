\* "every listener attached to that event will be executed", for a regular
\* expression that matches two events.
CONSTANTS
    Events = {a, b}
    Listeners = {f}
    Regexes <- MCRegexes
    Values = {true, undef}
    DefaultOnce = true
    None = None
    MaxListeners = 1
    MaxDepth = 1
SPECIFICATION FairSpec
PROPERTY CallCostsOnlyItself
