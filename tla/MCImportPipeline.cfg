SPECIFICATION FairSpec
CONSTANTS
    i1 = i1
    i2 = i2
    Importers = {i1, i2}
    Batches <- MCDatasets
    SourceIds <- Ids
    NoId = NoId
    NoBatch = NoBatch
    Blank = Blank
    Upper <- MCUpper
    ClockOf <- MCClockOf
    Zoned = {10}
    DateOf <- MCDateOf
    OffsetOf <- MCOffsetOf
    DaysOf <- MCDaysOf
    Carriers = {"F9"}
    FlightNumbers = {"1", "2"}
    AirportCodes = {"ATL", "DEN", "XXX"}
    Airports = {"ATL", "DEN"}
    AirportRows = {"ATL", "DEN", "XXX"}
    Equipments = {"320"}
    Range_ <- MCRange
    Files <- MCFiles
    RowsOf <- MCRowsOf
    NameOf <- MCNameOf
INVARIANTS SuccessIsBacked SameScheduleOnce StoredIsWhole GateCoversConstraints
PROPERTY ImportsEnd
