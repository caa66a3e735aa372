CONSTANTS
    CreationDates <- MCCreationDates
    Config <- MCConfig
    NumMonths = 2
    Installments = 3
    HorizonMonths = 12
    Prompt = FALSE
SPECIFICATION Spec
PROPERTY WindowNeverReopens
