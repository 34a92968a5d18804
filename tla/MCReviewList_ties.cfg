\* One create request at a time, ties in any order (a filesort).
CONSTANTS
    Writers = {w1}
    Limit = 2
    MaxReviews = 4
    MaxTime = 2
    TieOrder = {"any"}
    None = None
SPECIFICATION Spec
INVARIANT WalkListsEachOnce
