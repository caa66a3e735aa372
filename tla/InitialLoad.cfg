CONSTANTS
    Sheets <- MCSheets
    Names <- MCNames
    Initial <- MCInitial
    MaxDay = 1
    MaxEdits = 1
    MaxCrashes = 1
SPECIFICATION FairSpec
INVARIANTS TypeOK Loaded DryRunHonest
PROPERTY LoadEnds
