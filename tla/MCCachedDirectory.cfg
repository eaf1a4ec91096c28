SPECIFICATION Spec
CONSTANTS
    Files = {f1}
    Shells = {s1, s2}
    Crawlers = {c}
    MaxVersion = 2
    MaxCalls = 4
SYMMETRY Symmetry
\* The calls are bounded.
CHECK_DEADLOCK FALSE
INVARIANTS
    TagHonest
    NoOlderAnswer
    OwnContext
