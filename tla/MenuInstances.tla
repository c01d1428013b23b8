--------------------------- MODULE MenuInstances ---------------------------
(***************************************************************************)
(* Small Kconfig files with their menus, for menuconfig.                   *)
(***************************************************************************)
EXTENDS KconfigInstances, MenuShown

NoSymbols == [s \in {} |-> Plain]

(* A node; that of a symbol or choice has its (only) prompt. *)
Node(item, prompt, isMenu, list) ==
    [item |-> item, prompt |-> prompt, visibility |-> Y, menu |-> isMenu, list |-> list]
Of(item) == Node(item, NoPrompt, FALSE, <<>>)
Comment(prompt) == Node(CommentItem, prompt, FALSE, <<>>)
Menu(prompt, list) == Node(MenuItem, prompt, TRUE, list)

(* The instance with the menu tree T, whose nodes are in this order in the *)
(* file, and its symbols in the order of their names.                      *)
WithTree(S, C, names, order, T) ==
    LET k == Instance(S, C, {})
        prompted(n) == T[n].item \in k.syms \cup k.choices /\ k.prompts[T[n].item] # <<>>
        tree == [nodes |-> DOMAIN T, top |-> "top",
                 item |-> [n \in DOMAIN T |-> T[n].item],
                 list |-> [n \in DOMAIN T |-> T[n].list],
                 menus |-> {n \in DOMAIN T : T[n].menu},
                 visibility |-> [n \in DOMAIN T |-> T[n].visibility],
                 prompt |-> [n \in DOMAIN T |-> IF prompted(n) THEN k.prompts[T[n].item][1]
                                                ELSE T[n].prompt],
                 parent |-> [n \in DOMAIN T \ {"top"} |->
                               CHOOSE p \in DOMAIN T : n \in Range(T[p].list)],
                 nodesOf |-> [i \in k.syms \cup k.choices |->
                               SelectSeq(order, LAMBDA n : T[n].item = i)],
                 order |-> names, byName |-> names,
                 byPrompt |-> SelectSeq(order, LAMBDA n : T[n].item \notin k.syms)]
    IN k @@ tree

(* What the user does: nothing but moving about in a window of 3 rows, if  *)
(* not said otherwise. *)
RECURSIVE Depth(_, _)
Depth(k, n) == IF n = k.top THEN 0 ELSE 1 + Depth(k, ParentMenu(k, n))

Used(k, searches) ==
    k @@ [menuOf |-> [n \in k.nodes \ {k.top} |-> ParentMenu(k, n)],
          depth |-> [n \in k.nodes |-> Depth(k, n)], texts |-> k.inputs,
          searchable |-> Matches(k, k.nodes),
          searches |-> {Matches(k, found) : found \in searches},
          disk |-> [config |-> [there |-> FALSE, lines |-> [s \in {} |-> 0]]],
          terms |-> {10}, does |-> {"move", "enter"}]

Visible1 == [Plain EXCEPT !.prompts = <<Y>>]
DependsOn(s) == [Plain EXCEPT !.prompts = <<I(s)>>, !.direct = I(s)]

(* config A bool "a" / menu "m" / config B bool "b" / comment "c1" /       *)
(* comment "c2" / comment "c3" depends on B / endmenu / comment "c4"       *)
(* depends on A / config D bool / comment "c5"                             *)
Browse ==
    Used(WithTree([A |-> Visible1, B |-> Visible1, D |-> Plain], NoSymbols,
                  <<"A", "B", "D">>, <<"A", "M", "B", "C1", "C2", "C3", "C4", "D", "C5">>,
                  [top |-> Menu(Y, <<"A", "M", "C4", "D", "C5">>), A |-> Of("A"),
                   M |-> Menu(Y, <<"B", "C1", "C2", "C3">>), B |-> Of("B"),
                   C1 |-> Comment(Y), C2 |-> Comment(Y), C3 |-> Comment(I("B")),
                   C4 |-> Comment(I("A")), D |-> Of("D"), C5 |-> Comment(Y)]),
         {{}, {"A", "C2", "M", "D"}})

(* config A bool "a" / menu "m" depends on A / config B bool "b" /         *)
(* comment "c" depends on B / endmenu / config D bool "d" depends on B     *)
Edited ==
    Used(WithTree([A |-> Visible1, B |-> DependsOn("A"), D |-> DependsOn("B")], NoSymbols,
                  <<"A", "B", "D">>, <<"A", "M", "B", "C", "D">>,
                  [top |-> Menu(Y, <<"A", "M", "D">>), A |-> Of("A"),
                   M |-> Menu(I("A"), <<"B", "C">>), B |-> Of("B"),
                   C |-> Comment(I("B")), D |-> Of("D")]),
         {{"B", "C", "D"}})

(* config A bool "a" default y / choice bool "c" depends on A / config X   *)
(* bool "x" / config Z bool "z" / endchoice, with a menuconfig G bool "g"  *)
(* depends on Z inside the choice and a comment "e" below it               *)
Chosen ==
    LET member == [DependsOn("C") EXCEPT !.choiceOf = "C"] IN
    Used(WithTree([A |-> [Visible1 EXCEPT !.defaults = <<<<Y, Y>>>>],
                   G |-> [DependsOn("Z") EXCEPT !.prompts = <<<<"and", I("Z"), I("C")>>>>,
                                                !.direct = <<"and", I("Z"), I("C")>>],
                   X |-> member, Z |-> member],
                  [C |-> [type |-> "bool", prompts |-> <<I("A")>>, defaults |-> <<>>,
                          members |-> <<"X", "Z">>, optional |-> FALSE, inputs |-> {}]],
                  <<"A", "G", "X", "Z">>, <<"A", "C", "X", "Z", "G", "E">>,
                  [top |-> Menu(Y, <<"A", "C">>), A |-> Of("A"),
                   C |-> Node("C", NoPrompt, TRUE, <<"X", "Z">>), X |-> Of("X"),
                   Z |-> Node("Z", NoPrompt, FALSE, <<"G">>),
                   G |-> Node("G", NoPrompt, TRUE, <<"E">>),
                   E |-> Comment(I("G"))]),
         {{"C", "E"}})

(* config MODULES bool default y / config Q tristate "q" if P select T /   *)
(* config P tristate "p" / config T tristate "t"                           *)
Tristates ==
    LET tristate == [Visible1 EXCEPT !.type = "tristate"] IN
    Used(WithTree([MODULES |-> [Plain EXCEPT !.defaults = <<<<Y, Y>>>>],
                   P |-> tristate, Q |-> [tristate EXCEPT !.prompts = <<I("P")>>],
                   T |-> [tristate EXCEPT !.rev = <<"and", I("Q"), Y>>,
                                          !.selectors = <<<<"Q", Y>>>>]],
                  NoSymbols, <<"MODULES", "P", "Q", "T">>, <<"MODULES", "Q", "P", "T">>,
                  [top |-> Menu(Y, <<"MODULES", "Q", "P", "T">>), MODULES |-> Of("MODULES"),
                   P |-> Of("P"), Q |-> Of("Q"), T |-> Of("T")]),
         {})

(* config B bool "b" / config N int "n" range 1 L if B default 2 / config  *)
(* L int default 3                                                         *)
Texts ==
    [Used(WithTree([B |-> Visible1,
                   L |-> [Plain EXCEPT !.type = "int", !.defaults = <<<<<<"const", 3>>, Y>>>>],
                   N |-> [Visible1 EXCEPT !.type = "int", !.inputs = {Blank, 2, 5},
                             !.ranges = <<<<<<"const", 1>>, I("L"), I("B")>>>>,
                             !.defaults = <<<<<<"const", 2>>, Y>>>>]],
                  NoSymbols, <<"B", "L", "N">>, <<"B", "N", "L">>,
                  [top |-> Menu(Y, <<"B", "N", "L">>), B |-> Of("B"), L |-> Of("L"),
                   N |-> Of("N")]),
         {}) EXCEPT !.texts["L"] = {3}, !.texts["N"] = {Blank, 1, 2, 3, 5}]

(* config D bool default y *)
Promptless ==
    Used(WithTree([D |-> [Plain EXCEPT !.defaults = <<<<Y, Y>>>>]], NoSymbols, <<"D">>,
                  <<"D">>, [top |-> Menu(Y, <<"D">>), D |-> Of("D")]), {})

(* mainmenu "nothing" *)
Nothing ==
    Used(WithTree(NoSymbols, NoSymbols, <<>>, <<>>, [top |-> Menu(Y, <<>>)]), {})

(* menu "m" visible if A / comment "c" / endmenu / config A bool "a"       *)
HiddenComment ==
    Used(WithTree([A |-> Visible1], NoSymbols, <<"A">>, <<"M", "C", "A">>,
                  [top |-> Menu(Y, <<"M", "A">>), A |-> Of("A"),
                   M |-> [Menu(Y, <<"C">>) EXCEPT !.visibility = I("A")],
                   C |-> Comment(Y)]),
         {{"C"}})
=============================================================================
