SPECIFICATION Spec
CONSTANTS
    OBJ_SIZE = 4
    CARM_ALLOC_SIZE_MULTIPLE = 2
    NumObjects = 2
    TOTAL_OBJECTS = 6
    MaxObjects = 4
    Sizes = {0, 3, 8}
    CountLive = TRUE
    Null = Null
PROPERTY LiveObjectStays
CHECK_DEADLOCK FALSE
