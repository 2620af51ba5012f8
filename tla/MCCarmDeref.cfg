SPECIFICATION Spec
CONSTANTS
    Objects = {o1, o2}
    Frames = {f1, f2, f3, f4}
    Values = {v1}
    Undef = Undef
    NoFrame = NoFrame
    MarkRaces = FALSE
SYMMETRY MCSymmetry
INVARIANTS TypeOK CacheCoherent AccessCurrent ScopesAlternate
PROPERTY Transparent
