SPECIFICATION Spec
CONSTANTS
    Inputs <- MCInputs
    Strategies = {"none", "split", "tls-record"}
INVARIANTS
    PayloadPreserved
    HidesName
    FindsName
CHECK_DEADLOCK FALSE
