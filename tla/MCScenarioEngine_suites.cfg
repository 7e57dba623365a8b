\* Every run of a suite with up to two stories and of another, with errors at any
\* place.
CONSTANTS
    Runs <- MCRuns
    Needs <- MCNeeds
SPECIFICATION Spec
\* The run of the suites ends.
CHECK_DEADLOCK FALSE
INVARIANTS
    PassedAsTold
PROPERTIES
    KeepsPromise
    RunEnds
