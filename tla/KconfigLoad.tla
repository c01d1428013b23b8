----------------------------- MODULE KconfigLoad -----------------------------
(***************************************************************************)
(* Kconfig.__init__: the files are parsed into the menu tree, what each    *)
(* symbol and choice depends on is collected, and the search for loops     *)
(* decides whether the values can be evaluated.                            *)
(***************************************************************************)
EXTENDS KconfigTree, KconfigLoops

CONSTANTS Unset, Modules

vars == <<treeVars, loopVars>>

E == INSTANCE KconfigExpr

NoGraph == [syms |-> {}, choices |-> {}, order |-> <<>>,
            dependents |-> [i \in {} |-> {}], choiceOf |-> [i \in {} |-> NoItem],
            members |-> [i \in {} |-> <<>>]]

LoadInit ==
    /\ Init
    /\ g = NoGraph /\ visited = [i \in {} |-> 0] /\ stack = <<>> /\ loop = <<>>
    /\ next = 1 /\ outcome = "search" /\ finished = <<>>

(* unique_defined_syms *)
OrderOf(ns) ==
    LET entries == SelectSeq(ns, LAMBDA n : n.kind = "symbol") IN
    FoldLeft(LAMBDA seq, n : IF n.name \in ToSet(seq) THEN seq ELSE Append(seq, n.name),
             <<>>, entries)

PromptsOf(ns, i) ==
    LET of == SelectSeq(ns, LAMBDA n : n.kind \in {"symbol", "choice"} /\ n.name = i
                                       /\ n.prompt # <<>>)
    IN [n \in DOMAIN of |-> of[n].prompt[1]]

(* The instance KconfigEval evaluates *)
Kconfig(ns, ds, order) ==
    LET syms == ToSet(order)
        choices == DOMAIN ds \cap {C}
        asked == syms \cup choices
    IN [syms |-> syms, choices |-> choices, order |-> order,
        type |-> [i \in asked |-> ds[i].type],
        prompts |-> [i \in asked |-> PromptsOf(ns, i)],
        defaults |-> [i \in asked |-> ds[i].defaults],
        ranges |-> [s \in syms |-> ds[s].ranges],
        direct |-> [s \in syms |-> ds[s].direct],
        rev |-> [s \in syms |-> ds[s].rev], weak |-> [s \in syms |-> ds[s].weak],
        selectors |-> [s \in syms |-> ds[s].selectors],
        choiceOf |-> [s \in syms |-> IF ds[s].choice = C THEN C ELSE NoItem],
        members |-> [c \in choices |-> ds[c].members],
        optional |-> {c \in choices : ds[c].optional},
        auto |-> {}]

TheKconfig == Kconfig(nodes, defs, OrderOf(nodes))

(* _build_dep: an item is among the dependents of what it mentions. *)
GraphOf(k) ==
    [syms |-> k.syms, choices |-> k.choices, order |-> k.order,
     dependents |-> [s \in k.syms |->
                        {i \in k.syms \cup k.choices : s \in E!Mentions(k, i)}],
     choiceOf |-> k.choiceOf, members |-> k.members]

(* What a list of properties has for a value need not be a symbol, which   *)
(* constants are too, though a choice and a string or number require it.   *)
IsSymbol(e) == e[1] \in {"item", "const"}
Malformed(k) ==
    \E i \in k.choices \cup {s \in k.syms : k.type[s] \in {"string", "int", "hex"}} :
        \E default \in ToSet(k.defaults[i]) : ~IsSymbol(default[1])

(* _check_sym_sanity and _check_choice_sanity, but for their warnings: an  *)
(* error is all they may change.                                           *)
CheckSanity ==
    /\ stage = "tree" /\ outcome = "search" /\ Malformed(TheKconfig)
    /\ outcome' = "malformed"
    /\ UNCHANGED <<treeVars, g, visited, stack, loop, next, finished>>

BuildDep ==
    /\ stage = "tree" /\ ~Malformed(TheKconfig)
    /\ stage' = "search"
    /\ g' = GraphOf(TheKconfig)
    /\ visited' = [i \in Items(g') |-> 0]
    /\ UNCHANGED <<text, reader, blocks, prop, nodes, stream, defs,
                   stack, loop, next, outcome, finished>>

Search == stage = "search" /\ SearchNext /\ UNCHANGED treeVars

(* A loaded tree or an error: that nothing else stops loading is what the  *)
(* search for deadlocks shows.                                             *)
Stop == (stage = "error" \/ outcome # "search") /\ UNCHANGED vars

LoadNext == \/ (Parse \/ Finalize) /\ UNCHANGED loopVars
            \/ CheckSanity
            \/ BuildDep
            \/ Search
            \/ Stop

LoadSpec == LoadInit /\ [][LoadNext]_vars

-----------------------------------------------------------------------------
(* Evaluating the values of an accepted file ends, whatever the user set.  *)
UserEntries(k) == ({"user"} \X k.syms) \cup ({"mode", "pick"} \X k.choices)

Users(k) ==
    LET unset == [r \in UserEntries(k) |-> IF r[1] = "pick" THEN NoItem ELSE Unset] IN
    {unset} \cup {[unset EXCEPT ![<<"user", s>>] = 2] : s \in k.syms}
            \cup {[unset EXCEPT ![<<"pick", c>>] = s, ![<<"user", s>>] = 2] :
                        c \in k.choices, s \in k.syms}

Evaluates(k, user) == E!Attributes(k) \subseteq DOMAIN E!Completed(k, user)

AcceptedEvaluates ==
    outcome = "accepted" =>
        \E k \in {TheKconfig} : \A user \in Users(k) : Evaluates(k, user)
=============================================================================
