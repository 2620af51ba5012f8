SPECIFICATION Spec
CONSTANTS
    Objects = {o1, o2}
    Frames = {f1, f2, f3, f4}
    Values = {v1}
    Undef = Undef
    NoFrame = NoFrame
    MarkRaces = TRUE
SYMMETRY MCSymmetry
PROPERTY Transparent
