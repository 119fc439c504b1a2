SPECIFICATION FairAirportSpec
CONSTANTS
    i1 = i1
    i2 = i2
    Importers = {i1, i2}
    Codes = {1, 2}
    Columns = {"city", "zone"}
    Values = {1, 2}
    Files <- MCFiles
    NoFile = NoFile
    Rejected = Rejected
    Absent = Absent
    NoImport = NoImport
INVARIANTS AirportTypeOK
PROPERTIES ReportIsTrue SeedsEnd ImplementsAirportTable
