\* Three far objects of two bytes, two local bytes: every call at every
\* position relative to the object borders.
CONSTANTS
    OBJ_SIZE = 2
    NumObjects = 3
    LocalSize = 2
    ByteMod = 2
    CursorMod = 16
    SizeMod = 32
    Ints <- MCInts
    Fns = {"memcpy", "memset", "memcmp", "strlen", "strcpy", "strdup", "fopen",
           "strcmp", "strtoul", "read", "memchr"}
    CornerCases = FALSE
    ElementSizes = {1, 2, 3}
    Files <- MCFiles
    Formats <- MCFormats
    PrintSizes = {0, 2, 3}
SPECIFICATION StdioSpec
INVARIANTS
    TypeOK AgreesWithLibc OnlyDestinationWritten
    StreamsAgree PrintedText StdioWithinReach
PROPERTY CallsEnd
\* exit(0) ends the program.
CHECK_DEADLOCK FALSE
