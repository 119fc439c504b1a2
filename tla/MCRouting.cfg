SPECIFICATION RoutingSpec
CONSTANTS
    DayLength = 8
    Minute = 1
    None = None
    Inputs <- TimesAndChoices
    SegmentPrice = 10
    PriceAbroad = FALSE
    MaxResults = 3
    UnknownPrice = 1000
CHECK_DEADLOCK FALSE
INVARIANTS AnswersBest RefusedDatesAreEmpty SameAfterReimport SearchAnswers
