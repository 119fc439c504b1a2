SPECIFICATION FormSpec
CONSTANTS
    Origins = {"ATL", "A1"}
    Codes = {"ATL"}
    Dates <- MCDates
    Calendar <- MCCalendar
    FormDates <- MCFormDates
    ApiDates <- MCApiDates
    Times = {"06:00"}
    TimeTexts = {"06:00", "25:00"}
    MinConns = {19, 45, 60}
    MaxConns = {60, 240, 361}
    Durations = {59, 720, 1440}
    Prices <- MCPrices
    Connections = {0, 1, 2}
    Sorts = {"PRICE", "DESTINATION", "CHEAPEST"}
    SortModes = {"PRICE", "DESTINATION"}
    Ranges <- MCRanges
    MaxEdits = 2
    NoValue = NoValue
    NoSearch = NoSearch
INVARIANTS FormTypeOK SearchSurvives PostedIsAccepted KeptResultsAreOfTheLink ModifiedCanBeSubmitted
