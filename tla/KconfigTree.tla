----------------------------- MODULE KconfigTree -----------------------------
(***************************************************************************)
(* How kconfiglib turns what it parsed into the menu tree: the pass over   *)
(* the nodes that follows the parser (_finalize_tree).                     *)
(***************************************************************************)
EXTENDS KconfigParse

M == <<"const", 1>>

(* _make_or *)
MakeOr(a, b) == CASE a = N -> b
                  [] a # N /\ b = N -> a
                  [] N \notin {a, b} /\ Y \in {a, b} -> Y
                  [] {Y, N} \cap {a, b} = {} -> <<"or", a, b>>

-----------------------------------------------------------------------------
(* _finalize_tree works on what st holds: the nodes and the definitions.   *)
Conjoin(list, dep) ==
    [i \in DOMAIN list |-> [list[i] EXCEPT ![Len(list[i])] = MakeAnd(@, dep)]]

ConjoinPrompt(prompt, dep) == [i \in DOMAIN prompt |-> MakeAnd(prompt[i], dep)]

(* The nodes from n on *)
RECURSIVE Chain(_, _)
Chain(ns, n) == IF n = None THEN <<>> ELSE <<n>> \o Chain(ns, ns[n].next)

(* _propagate_deps: the dependencies of a node become its children's, and  *)
(* with them conditions of all their properties; a choice stands for its   *)
(* own.  The prompts are also under vis, what makes the menus visible.     *)
WithDep(n, dep, vis) ==
    IF n.kind \in {"symbol", "choice"}
    THEN [n EXCEPT !.dep = dep,
                   !.prompt = ConjoinPrompt(@, MakeAnd(vis, dep)),
                   !.defaults = Conjoin(@, dep), !.ranges = Conjoin(@, dep),
                   !.selects = Conjoin(@, dep), !.implies = Conjoin(@, dep)]
    ELSE [n EXCEPT !.dep = dep, !.prompt = ConjoinPrompt(@, dep)]

\* Mutant of BaseDep: a choice passes on its own dependencies.
BaseDepOwn(n) == n.dep

BaseDep(n) == IF n.kind = "choice" THEN Item(C) ELSE n.dep

PropagateDeps(ns, n, vis) ==
    LET children == ToSet(Chain(ns, ns[n].list)) IN
    [i \in DOMAIN ns |->
        IF i \notin children THEN ns[i]
        ELSE WithDep(ns[i], MakeAnd(ns[i].dep, BaseDep(ns[n])), vis)]

(* _add_props_to_sym: what the node adds to its symbol, and to the symbols *)
(* it selects and implies                                                  *)
\* Mutant of AddSelect: the condition of the select is left out.
AddSelectAlways(ds, s, sel) ==
    LET d == Def(ds, sel[1]) IN
    Defined(ds, sel[1], [d EXCEPT !.rev = MakeOr(@, Item(s)),
                                  !.selectors = Append(@, <<s, sel[2]>>)])

AddSelect(ds, s, sel) ==
    LET d == Def(ds, sel[1]) IN
    Defined(ds, sel[1], [d EXCEPT !.rev = MakeOr(@, MakeAnd(Item(s), sel[2])),
                                  !.selectors = Append(@, <<s, sel[2]>>)])

AddImply(ds, s, imp) ==
    LET d == Def(ds, imp[1]) IN
    Defined(ds, imp[1], [d EXCEPT !.weak = MakeOr(@, MakeAnd(Item(s), imp[2]))])

WithNode(d, n) == [d EXCEPT !.direct = MakeOr(@, n.dep),
                            !.defaults = @ \o n.defaults, !.ranges = @ \o n.ranges]

AddProps(ds, n) ==
    FoldLeft(LAMBDA e, imp : AddImply(e, n.name, imp),
        FoldLeft(LAMBDA e, sel : AddSelect(e, n.name, sel),
                 [ds EXCEPT ![n.name] = WithNode(@, n)], n.selects), n.implies)

(* _expr_depends_on: is the expression n whenever the symbol is?  (It is   *)
(* taken to be so of s != y.)                                              *)
RECURSIVE ExprDependsOn(_, _)
\* Mutant of ExprDependsOn: one side of an "or" is enough.
ExprMentions(e, s) ==
    \/ e = Item(s)
    \/ e[1] \in {"and", "or"} /\ (ExprDependsOn(e[2], s) \/ ExprDependsOn(e[3], s))

ExprDependsOn(e, s) ==
    \/ e = Item(s)
    \/ e[1] = "and" /\ (ExprDependsOn(e[2], s) \/ ExprDependsOn(e[3], s))
    \/ /\ e[1] \in {"=", "!="} /\ Item(s) \in {e[2], e[3]}
       /\ LET right == IF e[3] = Item(s) THEN e[2] ELSE e[3] IN
          \/ e[1] = "=" /\ right = M
          \/ right = Y
          \/ e[1] = "!=" /\ right = N

(* _auto_menu_dep *)
AutoMenuDep(ns, n, other) ==
    ExprDependsOn(IF ns[other].prompt # <<>> THEN ns[other].prompt[1]
                  ELSE ns[other].dep, ns[n].name)

(* _flatten: the children of an if, or of a symbol without a prompt, come  *)
(* after it instead.                                                       *)
Flattened(ns, n) ==
    LET children == Chain(ns, ns[n].list) IN
    [i \in DOMAIN ns |->
        CASE i = n -> [ns[i] EXCEPT !.list = None, !.next = Head(children)]
          [] i = Last(children) -> [ns[i] EXCEPT !.parent = ns[n].parent,
                                                 !.next = ns[n].next]
          [] i \in ToSet(Front(children)) -> [ns[i] EXCEPT !.parent = ns[n].parent]
          [] i \notin {n} \cup ToSet(children) -> ns[i]]

RECURSIVE Flatten(_, _), FlattenAfter(_, _)
FlattenAfter(ns, n) == Flatten(ns, ns[n].next)
Flatten(ns, n) ==
    CASE n = None -> ns
      [] n # None /\ ns[n].list # None /\ ns[n].prompt = <<>> /\ ns[n].kind # "choice"
         -> FlattenAfter(Flattened(ns, n), n)
      [] OTHER -> FlattenAfter(ns, n)

(* _remove_ifs *)
Linked(ns, n, kept) ==
    [i \in DOMAIN ns |->
        IF i = n THEN [ns[i] EXCEPT !.list = IF kept = <<>> THEN None ELSE Head(kept)]
        ELSE IF i \in ToSet(kept)
        THEN [ns[i] EXCEPT !.next = IF i = Last(kept) THEN None
                                    ELSE kept[CHOOSE j \in 2..Len(kept) : kept[j - 1] = i]]
        ELSE ns[i]]

RemoveIfs(ns, n) ==
    Linked(ns, n, SelectSeq(Chain(ns, ns[n].list), LAMBDA i : ns[i].kind # "if"))

(* _finalize_choice, and the properties of the node: the symbols that are  *)
(* its children are those of the choice; a type may come from either side. *)
FirstType(ds, type, syms) ==
    FoldLeft(LAMBDA t, s : IF t = "unknown" THEN ds[s].type ELSE t, type, syms)

Joined(ds, d, syms) ==
    [i \in DOMAIN ds |->
        CASE i = C -> d
          [] i \in ToSet(syms) ->
                [ds[i] EXCEPT !.choice = C,
                              !.type = IF @ = "unknown" THEN d.type ELSE @]
          [] i \notin {C} \cup ToSet(syms) -> ds[i]]

ChoiceWith(ds, n, syms) ==
    Joined(ds, [ds[C] EXCEPT !.direct = MakeOr(@, n.dep), !.defaults = @ \o n.defaults,
                             !.members = @ \o syms,
                             !.type = FirstType(ds, @, ds[C].members \o syms)],
           ds[C].members \o syms)

SymbolsOf(ns, n) ==
    LET syms == SelectSeq(Chain(ns, ns[n].list), LAMBDA i : ns[i].kind = "symbol")
    IN [i \in DOMAIN syms |-> ns[syms[i]].name]

FinalizeChoice(st, n) ==
    IF st.nodes[n].kind # "choice" THEN st
    ELSE [st EXCEPT !.defs = ChoiceWith(@, st.nodes[n], SymbolsOf(st.nodes, n))]

Finished(st, n) ==
    FinalizeChoice(IF st.nodes[n].list = None THEN st
                   ELSE [st EXCEPT !.nodes = RemoveIfs(Flatten(@, @[n].list), n)], n)

\* Mutant of Submenu: the last of the children is not cut off.
SubmenuUncut(ns, n, last) ==
    IF last = n THEN ns
    ELSE [ns EXCEPT ![n].list = ns[n].next, ![n].next = ns[last].next]

(* _finalize_tree.  The nodes after a symbol that depend on it become its  *)
(* children, down to last.                                                 *)
Submenu(ns, n, last) ==
    IF last = n THEN ns
    ELSE [ns EXCEPT ![n].list = ns[n].next, ![n].next = ns[last].next,
                    ![last].next = None]

InSubmenu(st, n, child) == [st EXCEPT !.nodes[child].parent = n]

RECURSIVE FinalizeTree(_, _, _), FinalizeFrom(_, _, _), FinalizeAfter(_, _, _),
          FinalizeSubmenu(_, _, _, _)
FinalizeAfter(st, n, vis) == FinalizeFrom(st, st.nodes[n].next, vis)
FinalizeFrom(st, n, vis) ==
    IF n = None THEN st ELSE FinalizeAfter(FinalizeTree(st, n, vis), n, vis)

FinalizeSubmenu(st, n, last, vis) ==
    LET next == st.nodes[last].next IN
    IF next # None /\ AutoMenuDep(st.nodes, n, next)
    THEN FinalizeSubmenu(InSubmenu(FinalizeTree(st, next, vis), n, next), n, next, vis)
    ELSE [st EXCEPT !.nodes = Submenu(@, n, last)]

FinalizeLevel(st, n, vis) ==
    FinalizeFrom([st EXCEPT !.nodes = PropagateDeps(@, n, vis)], st.nodes[n].list, vis)

FinalizeTree(st, n, vis) ==
    LET node == st.nodes[n] IN
    CASE node.list # None ->
            Finished(FinalizeLevel(st, n, IF node.kind = "menu"
                                          THEN MakeAnd(vis, node.visibility) ELSE vis), n)
      [] node.list = None /\ node.kind = "symbol" ->
            Finished(FinalizeSubmenu([st EXCEPT !.defs = AddProps(@, node)], n, n, vis), n)
      [] node.list = None /\ node.kind # "symbol" -> Finished(st, n)

Finalize ==
    /\ stage = "parsed"
    /\ \E st \in {FinalizeTree([nodes |-> [nodes EXCEPT ![Top].list = nodes[Top].next,
                                                       ![Top].next = None],
                               defs |-> defs], Top, Y)} :
           nodes' = st.nodes /\ defs' = st.defs
    /\ stage' = "tree"
    /\ UNCHANGED <<text, reader, blocks, prop, stream>>

TreeNext == Parse \/ Finalize
TreeSpec == Init /\ [][TreeNext]_treeVars

-----------------------------------------------------------------------------
(* The same, read off the lines of all files in the order they were met:   *)
(* the nth line that makes a node made node n + 1.                         *)
At(n) == CHOOSE i \in DOMAIN stream :
            /\ stream[i].t \in Blocks \cup Entries
            /\ Cardinality({j \in 1..i : stream[j].t \in Blocks \cup Entries}) = n - 1

(* The block that line i opens is open still at line j. *)
Within(i, j) ==
    /\ stream[i].t \in Blocks /\ i < j
    /\ \A e \in (i + 1)..j :
          Cardinality({l \in i..e : stream[l].t \in Blocks})
            > Cardinality({l \in i..e : stream[l].t \in Ends})

(* The property lines that follow line i *)
Own(i) == {j \in DOMAIN stream :
             /\ i < j
             /\ \A l \in (i + 1)..j : stream[l].t \in Properties}

Deps(i) == {stream[j].cond : j \in {l \in Own(i) : stream[l].t = "depends"}}

(* What the node of line i depends on: the choice it is in, what is nearer *)
(* than that, and itself                                                   *)
InChoices(i) == {c \in DOMAIN stream : stream[c].t = "choice" /\ Within(c, i)}
AllDeps(i) ==
    LET near == {b \in DOMAIN stream : /\ Within(b, i)
                                       /\ \A c \in InChoices(i) : c < b}
    IN UNION {Deps(b) : b \in near \cup {i}}
       \cup {stream[b].cond : b \in {l \in near : stream[l].t = "if"}}
       \cup IF InChoices(i) = {} THEN {} ELSE {Item(C)}

AllVisible(i) ==
    {stream[j].cond : j \in {l \in UNION {Own(b) : b \in {l \in DOMAIN stream : Within(l, i)}} :
                                stream[l].t = "visible"}}

(* expr_value, under values for the symbols and the choice *)
RECURSIVE ValueIn(_, _)
ValueIn(e, env) ==
    CASE e[1] = "const" -> e[2]
      [] e[1] = "item" -> env[e[2]]
      [] e[1] = "and" -> Min({ValueIn(e[2], env), ValueIn(e[3], env)})
      [] e[1] = "or" -> Max({ValueIn(e[2], env), ValueIn(e[3], env)})
      [] e[1] = "=" -> IF ValueIn(e[2], env) = ValueIn(e[3], env) THEN 2 ELSE 0
      [] e[1] = "!=" -> IF ValueIn(e[2], env) # ValueIn(e[3], env) THEN 2 ELSE 0

AllOf(exprs, env) == Min({ValueIn(e, env) : e \in exprs} \cup {2})
Envs == [DOMAIN defs \cup {"A", "B", C} -> 0..2]
Nodes(kinds) == {n \in DOMAIN nodes \ {Top} : nodes[n].kind \in kinds}

(* The lines about node n that say the property *)
Said(i, t) == {j \in Own(i) : stream[j].t \in t}
PromptOf(i) ==
    LET said == {j \in Said(i, {"type", "prompt"}) : stream[j].prompt # <<>>}
    IN IF said = {} THEN <<>> ELSE stream[Max(said)].prompt

(* What a prompt is under is what the file says it is: its condition, all  *)
(* it depends on, and for what menus hide, their visibility.               *)
PromptIsUnder(n, prompt, deps, visible) ==
    /\ Len(prompt) = Len(nodes[n].prompt)
    /\ prompt # <<>> =>
          \A env \in Envs : ValueIn(nodes[n].prompt[1], env)
                             = AllOf({prompt[1]} \cup deps \cup visible, env)

PromptsUnderAll ==
    stage = "tree" =>
        \A n \in Nodes({"symbol", "choice"}) :
            \E i \in {At(n)} :
                \E deps \in {AllDeps(i)}, visible \in {AllVisible(i)}, p \in {PromptOf(i)} :
                    PromptIsUnder(n, p, deps, visible)

(* What the definitions of a symbol add up to: a line that selects it      *)
(* raises it under all the line is under, and the defaults are tried in    *)
(* the order of the file, wherever they stand.                             *)
Owner(j) == CHOOSE i \in DOMAIN stream : j \in Own(i) /\ stream[i].t \notin Properties
Saying(t, s) == {j \in DOMAIN stream : stream[j].t = t /\ stream[j].s = s}
DefaultsOf(s) ==
    SetToSortSeq({j \in DOMAIN stream :
                    /\ stream[j].t = "default" /\ stream[Owner(j)].t = "config"
                    /\ stream[Owner(j)].s = s}, <)

(* The conditions of a line, and of all the lines that say a thing of s *)
Under(j) == {Item(stream[Owner(j)].s), stream[j].cond} \cup AllDeps(Owner(j))
Raising(t, s) == {Under(j) : j \in Saying(t, s)}
Defining(s) == {AllDeps(i) : i \in Saying("config", s)}
DefaultUnder(j) == <<stream[j].value, {stream[j].cond} \cup AllDeps(Owner(j))>>

AnyOf(sets, env) == Max({0} \cup {AllOf(exprs, env) : exprs \in sets})

DefAddsUp(d, defining, selected, implied, defaults, env) ==
    /\ ValueIn(d.direct, env) = AnyOf(defining, env)
    /\ ValueIn(d.rev, env) = AnyOf(selected, env)
    /\ ValueIn(d.weak, env) = AnyOf(implied, env)
    /\ \A n \in DOMAIN defaults :
          ValueIn(d.defaults[n][2], env) = AllOf(defaults[n][2], env)

DefsAddUp ==
    stage = "tree" =>
        \A s \in DOMAIN defs \ {C} :
            \E defining \in {Defining(s)}, selected \in {Raising("select", s)},
              implied \in {Raising("imply", s)},
              defaults \in {[n \in DOMAIN DefaultsOf(s) |-> DefaultUnder(DefaultsOf(s)[n])]} :
                /\ Len(defaults) = Len(defs[s].defaults)
                /\ \A n \in DOMAIN defaults : defs[s].defaults[n][1] = defaults[n][1]
                /\ \A env \in Envs :
                      DefAddsUp(defs[s], defining, selected, implied, defaults, env)

(* The tree has the nodes in the order of the file, each once, with its    *)
(* parent above it, and none is an if.                                     *)
RECURSIVE Preorder(_)
Preorder(n) ==
    LET children == Chain(nodes, nodes[n].list) IN
    <<n>> \o FoldLeft(LAMBDA seq, m : seq \o Preorder(m), <<>>, children)

TreeInOrder ==
    stage = "tree" =>
    /\ Preorder(Top) = SelectSeq([i \in DOMAIN nodes |-> i],
                                 LAMBDA i : nodes[i].kind # "if")
    /\ \A n \in Nodes({"symbol", "choice", "menu", "comment"}) :
          n \in ToSet(Chain(nodes, nodes[nodes[n].parent].list))

(* What is put under a symbol is seen only with it: its prompt, or what it *)
(* depends on, is n where the symbol is n (but where it says s != y).      *)
RECURSIVE SaysUnequal(_, _)
SaysUnequal(e, s) ==
    \/ e \in {<<"!=", Item(s), Y>>, <<"!=", Y, Item(s)>>}
    \/ e[1] = "and" /\ (SaysUnequal(e[2], s) \/ SaysUnequal(e[3], s))

SubmenusDepend ==
    stage = "tree" =>
        \A n \in Nodes({"symbol", "choice", "menu", "comment"}) :
            LET p == nodes[nodes[n].parent]
                e == IF nodes[n].prompt = <<>> THEN nodes[n].dep ELSE nodes[n].prompt[1]
            IN p.kind = "symbol" /\ ~SaysUnequal(e, p.name) =>
                 \A env \in Envs : env[p.name] = 0 => ValueIn(e, env) = 0

(* The whole of the tree: every node is where its line says, in the order  *)
(* of the file, and under a symbol only if it depends on it.               *)
TreeIsRight == WhereItSays /\ TreeInOrder /\ SubmenusDepend

(* The whole of the conditions: those of the prompts and of the symbols.   *)
ConditionsAddUp == PromptsUnderAll /\ DefsAddUp
=============================================================================
