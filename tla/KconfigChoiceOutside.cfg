SPECIFICATION Spec
CONSTANTS
    Kconfigs <- MCOutside
    ExprValue <- MCExprValue
    ExprItems <- MCExprItems
    Eval <- MCEval
    Fresh <- MCFresh
    NoItem = NoItem
    Unset = Unset
    Modules = "MODULES"
INVARIANT
    CacheCoherent
CHECK_DEADLOCK FALSE
