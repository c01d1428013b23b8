SPECIFICATION LoadSpec
CONSTANTS
 Files = {"root", "sub", "loops", "nest", "leaf", "missed"}
 Roots = {"root", "loops", "nest"}
 Line <- MCLine
 NextLines <- MCNextLines
 MaxPieces = 4
 NoItem = NoItem
 Unset = Unset
 Modules = "MODULES"
INVARIANTS
 TypeOK
 TreeIsRight
 ConditionsAddUp
 AcceptsRightly
 LoopReported
 EvaluationOrder
