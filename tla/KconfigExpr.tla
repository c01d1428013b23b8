----------------------------- MODULE KconfigExpr -----------------------------
(***************************************************************************)
(* KconfigEval with the recursions it leaves open: expr_value and          *)
(* expr_items, and a computation of everything.                            *)
(***************************************************************************)
EXTENDS TLC

CONSTANTS NoItem, Unset, Modules

RECURSIVE expr_value(_, _, _), expr_items(_), Completed(_, _)

INSTANCE KconfigEval WITH ExprValue <- expr_value, ExprItems <- expr_items

expr_value(k, e, view) == ExprStep(k, e, view)
expr_items(e) == ItemsStep(e)

(* Every attribute of every item computed with no cache, from user values. *)
Attributes(k) ==
    ({"vis", "tri", "str", "asg"} \X k.syms) \cup
    ({"vis", "asg", "sel"} \X k.choices)

Completed(k, view) ==
    LET results == [e \in Attributes(k) \ DOMAIN view |-> Value(k, e, view)]
        ready == {e \in DOMAIN results : results[e].r \subseteq DOMAIN view}
    IN IF ready = {} THEN view
       ELSE Completed(k, [e \in ready |-> results[e].v] @@ view)
=============================================================================
