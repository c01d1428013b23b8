------------------------------ MODULE MenuShown ------------------------------
(***************************************************************************)
(* What menuconfig shows: which nodes of the menu tree a menu lists, what  *)
(* the jump-to dialog searches, and which values the text dialog takes.    *)
(*                                                                         *)
(* A Kconfig instance k has, besides what KconfigEval reads,               *)
(*   nodes, top       the menu nodes and the top node                      *)
(*   item             the symbol or choice of a node, or MenuItem or       *)
(*                    CommentItem                                          *)
(*   list, parent     its children in order, and its parent                *)
(*   menus            the nodes with is_menuconfig: menus, choices and     *)
(*                    symbols defined with 'menuconfig'                    *)
(*   prompt           the condition of its prompt, or NoPrompt             *)
(*   visibility       the 'visible if' condition of a menu                 *)
(*   nodesOf          the nodes of a symbol or choice, in order            *)
(*   byName           the symbols sorted by name                           *)
(*   byPrompt         the nodes of choices, menus and comments, sorted by  *)
(*                    prompt                                               *)
(***************************************************************************)
EXTENDS KconfigExpr, Integers, SequencesExt

CONSTANTS MenuItem, CommentItem, NoPrompt

IsSymbol(k, n) == k.item[n] \in k.syms
IsChoice(k, n) == k.item[n] \in k.choices

(* _visible *)
Visible(k, n, view) ==
    /\ k.prompt[n] # NoPrompt
    /\ expr_value(k, k.prompt[n], view).v # 0
    /\ k.item[n] = MenuItem => expr_value(k, k.visibility[n], view).v # 0

VisibleNodes(k, view) == {n \in k.nodes : Visible(k, n, view)}

(* rec in _shown_nodes: the children of what is no menu are listed below   *)
(* it, and an invisible symbol is listed for the sake of visible children. *)
RECURSIVE Listed(_, _, _, _)
ListedAt(k, n, below, shown) ==
    CASE shown -> <<n>> \o (IF n \in k.menus THEN <<>> ELSE below)
      [] ~shown /\ IsSymbol(k, n) /\ below # <<>>
         -> <<n>> \o (IF n \in k.menus THEN <<>> ELSE below)
      [] OTHER -> <<>>

Listed(k, list, seen, all) ==
    FlattenSeq([i \in DOMAIN list |->
        ListedAt(k, list[i], Listed(k, k.list[list[i]], seen, all),
                 all \/ list[i] \in seen)])

(* A choice lists the nodes of all its locations, a symbol that is copied  *)
(* to several of them once, here if it is here.                            *)
Gather(k, menu, choice, listed, got) ==
    FoldLeft(LAMBDA g, n :
                IF k.item[n] \in g.syms /\ choice # menu THEN g
                ELSE [nodes |-> Append(g.nodes, n),
                      syms |-> g.syms \cup ({k.item[n]} \cap k.syms)],
             got, listed)

Gathered(k, menu, seen, all) ==
    FoldLeft(LAMBDA g, choice :
                Gather(k, menu, choice, Listed(k, k.list[choice], seen, all), g),
             [nodes |-> <<>>,
              syms |-> {k.item[n] : n \in Range(Listed(k, k.list[menu], seen, all))}
                       \cap k.syms],
             k.nodesOf[k.item[menu]]).nodes

(* _shown_nodes *)
ShownNodes(k, menu, seen, all) ==
    IF IsChoice(k, menu) THEN Gathered(k, menu, seen, all)
    ELSE Listed(k, k.list[menu], seen, all)

(* _parent_menu *)
RECURSIVE ParentMenu(_, _)
ParentMenu(k, n) ==
    IF k.parent[n] \in k.menus THEN k.parent[n] ELSE ParentMenu(k, k.parent[n])

(* _sorted_sc_nodes and _sorted_menu_comment_nodes, and what of them a     *)
(* search for something found in the nodes S finds                         *)
SortedScNodes(k) ==
    FlattenSeq([i \in DOMAIN k.byName |-> k.nodesOf[k.byName[i]]])
    \o SelectSeq(k.byPrompt, LAMBDA n : IsChoice(k, n))

SortedMenuCommentNodes(k) ==
    SelectSeq(k.byPrompt, LAMBDA n : k.item[n] = MenuItem)
    \o SelectSeq(k.byPrompt, LAMBDA n : k.item[n] = CommentItem)

Matches(k, S) ==
    SelectSeq(SortedScNodes(k) \o SortedMenuCommentNodes(k), LAMBDA n : n \in S)

(* _check_valid: a text that is no number is no int, and a number is held  *)
(* against the active range.  A bound that has no value is none either:    *)
(* int() raises ValueError.                                                *)
InActiveRange(k, s, v, first, view) ==
    LET low == Operand(k, k.ranges[s][first][1], view).v
        high == Operand(k, k.ranges[s][first][2], view).v
    IN CASE Blank \in {low, high} -> "raises"
         [] Blank \notin {low, high} -> IF low <= v /\ v <= high THEN "valid" ELSE "error"

CheckValid(k, s, v, view) ==
    LET first == FirstActive(k, k.ranges[s], view).v.at
    IN CASE k.type[s] # "int" -> "valid"
         [] k.type[s] = "int" /\ v = Blank -> "error"
         [] k.type[s] = "int" /\ v # Blank ->
            IF first = 0 THEN "valid" ELSE InActiveRange(k, s, v, first, view)
=============================================================================
