SPECIFICATION FairSpec
CONSTANTS
    Names <- MCNames
    Key <- MCKey
    Requests <- MCRequests
    Books <- MCBooks
INVARIANTS
    DependenciesFirst
    ResultIsRight
PROPERTIES
    Terminates
CHECK_DEADLOCK FALSE
