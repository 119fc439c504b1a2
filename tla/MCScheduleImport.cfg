SPECIFICATION Spec
CONSTANTS
    i1 = i1
    i2 = i2
    i3 = i3
    Importers = {i1, i2, i3}
    Batches <- GoodBatches
    SourceIds <- Ids
    NoId = NoId
    NoBatch = NoBatch
SYMMETRY Symmetry
INVARIANTS TypeOK OneActiveSource RoutesFollowSource SourcesDistinct ReplacesWhatItLocked
PROPERTIES ImplementsActiveSchedule
