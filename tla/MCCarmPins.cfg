SPECIFICATION PinSpec
CONSTANTS
    Objects = {o1, o2}
    Frames = {f1, f2, f3}
    Values = {v1}
    Undef = Undef
    NoFrame = NoFrame
    NoObject = NoObject
    Sources = {o2}
    MarkRaces = FALSE
SYMMETRY MCSymmetry
INVARIANTS PinTypeOK DestinationCurrent ChunkStays
PROPERTY CopyArrivesFast
\* Local memory may be full: a thread that finds no frame waits for AIFM.
CHECK_DEADLOCK FALSE
