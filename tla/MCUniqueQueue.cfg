SPECIFICATION UniqueSpec
\* Four values and eight priorities: the renumbering and a wrap in the middle of
\* a full queue both happen.
CONSTANTS
    Values <- MCValues
    Wrap = 8
\* The exploration ends with a move that wraps.
CHECK_DEADLOCK FALSE
INVARIANTS
    ContainersAgree
PROPERTIES
    LastPushLast
