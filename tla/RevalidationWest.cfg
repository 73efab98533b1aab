SPECIFICATION Spec
CONSTANTS
    Instants <- Early
    OtherDates <- Dates
    Offset <- EastCoast
PROPERTY ConfirmedIsCurrent
