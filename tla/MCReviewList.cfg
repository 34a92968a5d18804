\* One create request at a time, ties broken by id: the "latest" walk holds.
CONSTANTS
    Writers = {w1}
    Limit = 2
    MaxReviews = 4
    MaxTime = 2
    TieOrder = {"id"}
    None = None
SPECIFICATION Spec
INVARIANTS TypeOK WalkListsEachOnce
