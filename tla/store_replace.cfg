CONSTANTS
    d1 = d1  d2 = d2
    Empty = Empty  Nil = Nil  TocBase = TocBase  Torn = Torn
    Data <- TwoData
    CreateData <- Just1
    ReplaceData <- Just2
    Roots <- SecondStream
    ReadStreams <- FirstStream
    MaxChanges = 3
    MaxFaults = 0
    MaxIndex = 2
    Gens = 1
    MaxPos = 5
    Media = {TRUE, FALSE}
    Straddling = {1}
    KSizeTocEntry = 5
    KSizeTocDeltaEntry = 8
    KSizeTocDeltaExtra = 2
    KTocDeltaCap = 64
    KTocDeltaMagic = 2
    Careless = {"abandon replace"}
SPECIFICATION Spec
PROPERTIES StoreRefinement
