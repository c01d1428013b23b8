--------------------------- MODULE MCMenuconfig ---------------------------
(***************************************************************************)
(* Menuconfig with the evaluation of KconfigEval and the lists of          *)
(* MenuShown.                                                              *)
(***************************************************************************)
EXTENDS MenuconfigFits, TLC

E == INSTANCE MenuInstances WITH Modules <- "MODULES", MenuItem <- "menu",
                                 CommentItem <- "comment", NoPrompt <- "no prompt"

Attributes(k, i, view) ==
    [val |-> IF i \in k.choices THEN E!ChoiceTri(k, i, view).v ELSE E!ValueOf(k, i, view),
     asg |-> view[<<"asg", i>>], vis |-> view[<<"vis", i>>],
     sel |-> IF i \in k.choices THEN view[<<"sel", i>>] ELSE NoItem,
     write |-> i \in k.syms /\ E!WriteToConf(k, i, view),
     min |-> i \in k.syms /\ E!InMinConfig(k, i, view),
     check |-> [v \in k.inputs[i] |-> E!CheckValid(k, i, v, view)]]

ValuesIn(k, view, seen) ==
    [of |-> [i \in k.syms \cup k.choices |-> Attributes(k, i, view)],
     seen |-> seen,
     shown |-> [menu \in k.menus, all \in BOOLEAN |-> E!ShownNodes(k, menu, seen, all)]]
ValuesWithNodes(k, view) == ValuesIn(k, view, E!VisibleNodes(k, view))
MCValues(k, u) == ValuesWithNodes(k, E!Completed(k, u))

Disk(config, other) == [config |-> config, other |-> other]

Instances ==
    [Browse |-> [E!Browse EXCEPT !.terms = {8, 11},
                    !.does = {"move", "page", "enter", "help", "all"}],
     Searched |-> [E!Browse EXCEPT !.terms = {8, 11},
                      !.does = {"page", "help", "info", "jump"}],
     Edited |-> [E!Edited EXCEPT !.disk = Disk(Missing, Whole([A |-> 2, B |-> 2])),
                    !.does = {"move", "change", "load", "save", "quit", "all"}],
     Jumped |-> [E!Edited EXCEPT !.disk = Disk(Whole([A |-> 2]), Whole([A |-> 0])),
                    !.does = {"move", "change", "load", "all", "jump"}],
     Chosen |-> [E!Chosen EXCEPT !.disk = Disk(Missing, Whole([A |-> 0])),
                    !.does = {"move", "change", "enter", "load", "all", "jump"}],
     Tristates |-> [E!Tristates EXCEPT !.terms = {8, 10}, !.does = {"move", "change", "all"}],
     Texts |-> [E!Texts EXCEPT !.does = {"move", "change", "savemin", "save", "quit", "fail"}],
     Promptless |-> [E!Promptless EXCEPT !.does = {"move", "change", "all", "save", "quit"}],
     Nothing |-> E!Nothing]
HiddenCommentInstances ==
    [HiddenComment |-> [E!HiddenComment EXCEPT !.does = {"move", "all", "jump"}]]

MCKconfigs == Range(Instances)
MCHiddenComment == Range(HiddenCommentInstances)

(* The instances are what the theorems about menuconfig are for; but for   *)
(* HiddenComment, in which a menu is hidden that has something to show.    *)
ASSUME InstancesFit ==
    /\ ValuesFit /\ ValuesShown /\ ShownInside /\ AllShown
    /\ Kconfigs = MCKconfigs => MenusShown
    /\ ChangesShow /\ ValuesOffered
    /\ SavedLoadsBack /\ MinLoadsBack /\ LoadForgets
=============================================================================
