SPECIFICATION Spec
CONSTANTS
    Instants <- Boundaries
    OtherDates <- Dates
    Offset = 0
PROPERTIES ConfirmedIsCurrent UnchangedIsNotSent DatesJudged
