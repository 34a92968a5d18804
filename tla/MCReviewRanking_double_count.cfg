CONSTANTS
    Users = {1, 2, 3}
    Products = {1, 2, 3}
    Workers = {w1}
    ReviewPoint = 10
    MultipleBonus = 3
    FirstBonus = 2
    EventPoints <- MCEventPoints
    SeedReviews <- MCSeedReviews
    WeekHelperBuilds = {TRUE}
    MaxRequests = 4
    None = None
SPECIFICATION Spec
INVARIANT ScoreConsistent
