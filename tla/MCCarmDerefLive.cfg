SPECIFICATION FairSpec
CONSTANTS
    Objects = {o1}
    Frames = {f1, f2}
    Values = {v1}
    Undef = Undef
    NoFrame = NoFrame
    MarkRaces = FALSE
PROPERTY EvacuationCompletes
