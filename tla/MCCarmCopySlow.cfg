SPECIFICATION CopySpec
CONSTANTS
    Objects = {o1, o2}
    Frames = {f1, f2, f3, f4}
    Values = {v1}
    Undef = Undef
    NoFrame = NoFrame
    Sources = {o2}
    MarkRaces = FALSE
SYMMETRY MCSymmetry
PROPERTY CopyArrives
