SPECIFICATION Spec
CONSTANTS
    basic = basic
    pro = pro
    seats = seats
    Users = {u1}
    NoUser = NoUser
    Skus = {basic, pro, seats}
    NoSku = NoSku
    Packages = {basic, pro}
    CoinCost <- MCCoinCost
    Rank <- MCRank
    Opening <- MCOpening
    Subs = {s1, s2, s3}
    NoSub = NoSub
    Requests = {r1, r2}
SYMMETRY Symmetry
INVARIANTS
    SwitchEndsOldPlan
    AnnouncedAfterCommit
    ToldAsItIs
PROPERTIES
    ImplementsPaidAccess
CHECK_DEADLOCK FALSE
