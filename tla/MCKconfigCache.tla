--------------------------- MODULE MCKconfigCache ---------------------------
(***************************************************************************)
(* The cache of KconfigCache with the evaluation of KconfigEval, on four   *)
(* small Kconfig files, and what the values it serves must satisfy.        *)
(***************************************************************************)
EXTENDS KconfigValues, TLC

E == INSTANCE KconfigInstances

MCExprValue(k, e, view) == E!expr_value(k, e, view)
MCExprItems(e) == E!expr_items(e)

MCEval(k, e, view) == Value(k, e, view)

(* The values the user values alone determine, computed from nothing. *)
MCFresh(k, u) == E!Completed(k, u)

(* TLC evaluates these once, and the value of a constant at every use. *)
Parsed ==
    E!Registered([TristateChoice |-> E!TristateChoice, SelectImply |-> E!SelectImply,
                  IntRange |-> E!IntRange, OptionalChoice |-> E!OptionalChoice])
Outside == E!Registered([OutsideChoice |-> E!OutsideChoice])

MCKconfigs == Parsed
MCOutside == Outside

(* What the theorems about the cache take of the instances and of their    *)
(* expressions                                                             *)
ASSUME InstancesRight ==
    \A n \in DOMAIN MCKconfigs : LET k == MCKconfigs[n] IN
        /\ WellFormed(k)
        /\ Finite(E!Depths(k))

ASSUME FreshIsRight == FreshSolves /\ FreshDependenciesMet

(* The values after every assignment, and the entries ranked after those   *)
(* they read                                                               *)
Solutions(k) == {MCFresh(k, w) : w \in UNION {Assignments(k, u) : u \in UserValues(k)}}

Rank(k) == CHOOSE rank \in {E!RankOf(k, all) : all \in {Solutions(k)}} : TRUE

ASSUME AssignmentsAreRight ==
    /\ FreshSelectsRight
    /\ \E ranks \in {[n \in DOMAIN Kconfigs |-> Rank(Kconfigs[n])] @@ <<>>} :
           FreshAssigned(ranks)
=============================================================================
