CONSTANTS
    Request = {r1}
    NumIds = 3
    Month = 2
    Horizon = 1
    MaxToday = 1
    Value = {v1, v2}
    NoDay = NoDay
SPECIFICATION FairSpec
CONSTRAINT Bounds
INVARIANTS NothingAfterEnd ForecastsFollowModel
PROPERTIES PastKept DeletedForGood SeriesFilled DuePromoted
