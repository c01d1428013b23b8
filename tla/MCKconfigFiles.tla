--------------------------- MODULE MCKconfigFiles ---------------------------
(***************************************************************************)
(* KconfigSaved on small Kconfig files, with the evaluation of KconfigEval. *)
(***************************************************************************)
EXTENDS KconfigSaved

E == INSTANCE KconfigInstances

MCExprValue(k, e, view) == E!expr_value(k, e, view)
MCExprItems(e) == E!expr_items(e)
MCEval(k, e, view) == E!Value(k, e, view)
MCFresh(k, u) == E!Completed(k, u)
MCValues(k, u) == ValuesIn(k, MCFresh(k, u))

(* The build and the saves are checked apart: they share nothing but the   *)
(* user values.                                                            *)
Loading(k) == [k EXCEPT !.defconfig = Missing]
Saving(k, next) ==
    [Loading(k) EXCEPT !.backups = {"renames", "copies", "fails"}, !.does = {},
                       !.sources = {}, !.edited = next]

(* TLC evaluates these once, and the value of a constant at every use. *)
Parsed ==
  E!Registered(
    [Before |-> Loading(E!Before), After |-> Loading(E!After),
     SavedBefore |-> [Saving(E!Before, {"SavedBefore", "SavedAfter"})
                         EXCEPT !.defconfig = Whole([A |-> 2])],
     SavedAfter |-> [Saving(E!After, {"SavedAfter"}) EXCEPT !.does = {"min"},
                        !.fragments = {[A |-> 2, N |-> 3]}],
     TristateChoice |-> Loading(E!Filed(E!TristateChoice, <<"MODULES", "A", "X", "Z">>)),
     SelectImply |-> Loading(E!Filed(E!SelectImply, <<"MODULES", "P", "Q", "T", "U">>)),
     IntRange |-> [Loading(E!Filed(E!IntRange, <<"B", "L", "N", "R", "S">>)) EXCEPT
                     !.texts["L"] = {3}, !.texts["N"] = 0..5,
                     !.texts["S"] = {E!Blank, 7, 8}],
     OptionalChoice |-> Loading(E!Filed(E!OptionalChoice, <<"F", "G", "X", "Z">>))])

MCKconfigs == Parsed

ASSUME ValuesAreRight == ValuesValid /\ TypesStay

(* The instances are as the theorems about saving take them, with entries  *)
(* ranked after those they read.                                           *)
Rank(k) ==
    CHOOSE rank \in {E!RankOf(k, all) : all \in {{MCFresh(k, u) : u \in UserValues(k)}}} : TRUE

ASSUME InstancesRight ==
    \A n \in DOMAIN MCKconfigs : \E k \in {MCKconfigs[n]} :
        C!WellFormed(k) /\ C!Finite(E!Depths(k))

ASSUME FreshIsRight ==
    /\ \E ranks \in {[n \in DOMAIN Kconfigs |-> Rank(Kconfigs[n])] @@ <<>>} : FreshSolved(ranks)
    /\ FreshRight /\ FreshSavable
=============================================================================
