SPECIFICATION FairSpec
CONSTANTS
    OBJ_SIZE = 4
    deep_nest = 3
    min_ratio = 2
    depth = 3
    IVs <- MCIVs
    OtherVars = {"x"}
    Profiles <- MCProfiles
    MaxTrips = 2
    Programs <- MCPrograms
INVARIANTS TypeOK ProtectedAccesses StoresMarkDirty ChunksFollowGep SweepsConfluent
PROPERTY PassesEnd
\* The compiler stops.
CHECK_DEADLOCK FALSE
