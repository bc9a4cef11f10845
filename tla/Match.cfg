SPECIFICATION MCSpec
CONSTANTS
    MaxId = 3
    NHulls = 2
    Posts = {1, 2}
    Banned = {3}
    MinVotes = 2
    Share = 3
    Whole = 5
    Window = 1
    MaxQueue = 1
INVARIANT CrewsAreReal
INVARIANT SeatsAreManned
INVARIANT CrewIsTheConnected
PROPERTY ThrownOutForAReason
PROPERTY VoteEnds
CHECK_DEADLOCK FALSE
