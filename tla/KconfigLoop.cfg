SPECIFICATION LoadSpec
CONSTANTS
 Files = {"root", "sub", "loops", "nest", "leaf", "missed"}
 Roots = {"missed"}
 Line <- MCLine
 NextLines <- MCNextLines
 MaxPieces = 4
 NoItem = NoItem
 Unset = Unset
 Modules = "MODULES"
INVARIANT AcceptedEvaluates
