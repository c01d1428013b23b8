SPECIFICATION Spec
CONSTANTS
    Kconfigs <- MCKconfigs
    Values <- MCValues
    ExprValue <- MCExprValue
    ExprItems <- MCExprItems
    Eval <- MCEval
    Fresh <- MCFresh
    Modules = "MODULES"
    NoItem = NoItem
    Unset = Unset
    NotBuilt = NotBuilt
INVARIANTS
    TypeOK
    BackupSurvives
    ObjectsUpToDate
    RoundTrip
    MinConfigIsEnough
    NoSaveMissed
CHECK_DEADLOCK FALSE
