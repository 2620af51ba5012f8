SPECIFICATION Spec
CONSTANTS
    OBJ_SIZE = 4
    MAX_LOOPS = 3
    LOOP_ID_POS = 6
    Pointers <- MCFieldPointers
    Objects <- MCObjects
    MaxPointers = 2
    MaxTrips = 3
    NoRegion = NoRegion
INVARIANT WalkAgrees
