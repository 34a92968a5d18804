\* Two concurrent create requests, ties broken by id (an index on _created_at).
CONSTANTS
    Writers = {w1, w2}
    Limit = 2
    MaxReviews = 4
    MaxTime = 2
    TieOrder = {"id"}
    None = None
SPECIFICATION Spec
INVARIANT WalkListsEachOnce
