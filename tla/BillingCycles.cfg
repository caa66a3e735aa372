CONSTANTS
    CreationDates <- MCCreationDates
    Config <- MCConfig
    NumMonths = 2
    Installments = 3
    HorizonMonths = 12
    Prompt = TRUE
SPECIFICATION Spec
INVARIANTS TypeOK StatementsChained CardShowsOpenCycle InstallmentsSpread
PROPERTIES WindowNeverReopens SeriesGrows
