CONSTANTS
    Users = {1, 2}
    Events = {e1}
    Picks = {k1}
    Products = {p1}
    Condition <- MCCondition
    ReviewCount <- MCReviewCount
    Profiled = {1}
    Prices = {g1, g2}
    SeedReviews <- MCSeedReviews
    Workers = {w1}
    MaxRequests = 3
    None = None
SPECIFICATION Spec
INVARIANTS TypeOK EventRowsInDynamo
