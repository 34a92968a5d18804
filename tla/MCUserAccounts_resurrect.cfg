CONSTANTS
    Users = {1, 2, 3}
    Products = {1, 2}
    Uids = {"u1", "u2"}
    Passwords = {"p1", "p2"}
    SeedRows <- MCSeedRows
    SeedReviews <- MCSeedReviews
    SeedLikes <- MCSeedLikes
    SeedSocial <- MCSeedSocial
    SeedMsgs <- MCSeedMsgs
    Window = 0
    MaxClock = 1
    SocialUidUnique = TRUE
    Workers = {w1, w2}
    MaxRequests = 3
    None = None
SPECIFICATION Spec
INVARIANT SecededStaysInactive
VIEW MCView
