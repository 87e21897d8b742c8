SPECIFICATION Spec
CONSTANTS
    N = 3
    Trees <- MCTrees
    Bad = bad
    Caps = {none, 0, 1, 2, 3}
    None = none
    Fanout = 2
INVARIANTS
    AnswerIsFirstMatches
    LeasesBracketSearch
    LateReadsBounded
PROPERTY
    SearchEnds
CHECK_DEADLOCK FALSE
