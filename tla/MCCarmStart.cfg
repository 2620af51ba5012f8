CONSTANTS
    Modules <- MCModules
    Variables = {"p", "q"}
    Argvs <- MCArgvs
SPECIFICATION Spec
INVARIANTS TypeOK CallsFindRuntime AnnotationsHonoured ArgumentsArrive
\* The program ends.
CHECK_DEADLOCK FALSE
