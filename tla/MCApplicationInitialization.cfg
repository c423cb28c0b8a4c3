SPECIFICATION Spec
CONSTANTS
    Policies <- MCPolicies
    Optional <- MCOptional
    MaxMounts = 2
INVARIANTS
    CompletedIsMade
PROPERTIES
    AFailureIsTheEnd
    InitializationEnds
\* A dialog that was closed is not opened again.
CHECK_DEADLOCK FALSE
