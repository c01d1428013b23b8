SPECIFICATION Spec
CONSTANTS
    Kconfigs <- MCKconfigs
    ExprValue <- MCExprValue
    ExprItems <- MCExprItems
    Eval <- MCEval
    Fresh <- MCFresh
    NoItem = NoItem
    Unset = Unset
    Modules = "MODULES"
INVARIANTS
    CacheCoherent
    ReadsRegistered
    ValuesAreFresh
    AssignableRespected
    OnlyWhatIsAllowed
CHECK_DEADLOCK FALSE
