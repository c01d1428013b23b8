----------------------------- MODULE KconfigEval -----------------------------
(***************************************************************************)
(* How kconfiglib computes one value of a symbol or choice: expr_value,    *)
(* _visibility, tri_value, str_value, assignable and selection.            *)
(*                                                                         *)
(* A Kconfig instance is a record k:                                       *)
(*   syms, choices    the defined symbols (unique_defined_syms) and choices*)
(*   order            unique_defined_syms as a sequence                    *)
(*   type             orig_type of each                                    *)
(*   prompts          the prompt conditions of its menu nodes, in order    *)
(*   defaults         <<value, condition>> pairs, in order; the value is   *)
(*                    an expression, a literal, or a choice's symbol       *)
(*   ranges           <<low, high, condition>>                             *)
(*   direct, rev, weak  direct_dep, rev_dep and weak_rev_dep               *)
(*   selectors        the <<symbol, condition>> pairs rev_dep is made of   *)
(*   choiceOf         the choice of a symbol, or NoItem                    *)
(*   members          the symbols of a choice, in order                    *)
(*   optional         the choices with 'optional'                          *)
(*   auto             the symbols of 'option env' and 'defconfig_list'     *)
(*                                                                         *)
(* What a computation can read are entries <<attribute, item>>: the cached *)
(* attributes "vis", "tri", "str", "asg" and "sel", and the user values    *)
(* "user" (a symbol's), "mode" and "pick" (a choice's user_value and       *)
(* user_selection).  A computation takes the entries it can see and        *)
(* returns its value with the set of entries it read, so that the short    *)
(* circuits of the code are visible in the result.                         *)
(*                                                                         *)
(* KconfigExpr ties the recursion of expr_value and expr_items.            *)
(***************************************************************************)
EXTENDS Integers, FiniteSetsExt, Sequences

CONSTANTS
    NoItem,             \* None: no selection, no enclosing choice
    Unset,              \* None: no user value
    Modules,            \* the symbol MODULES
    ExprValue(_, _, _), \* expr_value and expr_items: ExprStep and
    ExprItems(_)        \* ItemsStep are one level of their recursion

Blank == -1     \* the empty string; other texts are numbers, those of int
                \* symbols the ones they spell
Name == -2      \* the text of a symbol that is not defined, its name

Min2(a, b) == IF a < b THEN a ELSE b
Max2(a, b) == IF a > b THEN a ELSE b

(* A result is a value and the entries read on the way to it.  Also(a, b)  *)
(* is b, computed after a.                                                 *)
Ret(v) == [v |-> v, r |-> {}]
Also(a, b) == [v |-> b.v, r |-> a.r \cup b.r]
MinOf(a, b) == [v |-> Min2(a.v, b.v), r |-> a.r \cup b.r]
MaxOf(a, b) == [v |-> Max2(a.v, b.v), r |-> a.r \cup b.r]

(* Reading an entry that is not there yet shows up in r only. *)
Read(view, e) ==
    [v |-> IF e \in DOMAIN view THEN view[e]
           ELSE CASE e[1] \in {"sel", "pick"} -> NoItem
                  [] e[1] \in {"user", "mode"} -> Unset
                  [] OTHER -> 0,
     r |-> {e}]

IsTri(k, s) == k.type[s] \in {"bool", "tristate"}

(* The type of something tristate: bool while MODULES is n. *)
TypeUnder(modules) == Also(modules, Ret(IF modules.v = 0 THEN "bool" ELSE "tristate"))

TypeByModules(k, view) ==
    TypeUnder(IF Modules \in k.syms THEN Read(view, <<"tri", Modules>>) ELSE Ret(0))

(* Choice.type and Choice.tri_value: not cached, they read the mode the    *)
(* user set and the cached visibility.                                     *)
ChoiceType(k, c, view) ==
    IF k.type[c] # "tristate" THEN Ret(k.type[c]) ELSE TypeByModules(k, view)

WithinMode(k, c, mode, vis) ==
    LET least == IF c \in k.optional THEN 0 ELSE 1 IN
    MinOf(vis, Also(mode, Ret(IF mode.v = Unset THEN least
                              ELSE Max2(least, mode.v))))

YesIfBool(type) == Also(type, Ret(IF type.v = "bool" THEN 2 ELSE 1))

PromoteMode(k, c, mode, view) ==
    IF mode.v # 1 THEN mode ELSE Also(mode, YesIfBool(ChoiceType(k, c, view)))

ChoiceTri(k, c, view) ==
    PromoteMode(k, c, WithinMode(k, c, Read(view, <<"mode", c>>),
                                 Read(view, <<"vis", c>>)), view)

(* Symbol.type: tristate symbols are bool in y-mode choices and without    *)
(* modules.                                                                *)
TypeInMode(k, mode, view) ==
    Also(mode, IF mode.v = 2 THEN Ret("bool") ELSE TypeByModules(k, view))

SymType(k, s, view) ==
    IF k.type[s] # "tristate" THEN Ret(k.type[s])
    ELSE TypeInMode(k, IF k.choiceOf[s] = NoItem THEN Ret(0)
                       ELSE ChoiceTri(k, k.choiceOf[s], view), view)

(* The number an operand of a relation stands for: n/m/y count as 0/1/2,   *)
(* and the blank int, which no number is, comes before every number as the *)
(* empty string does.                                                      *)
SymToNum(k, op, view) ==
    CASE op[1] = "const" -> Ret(op[2])
      [] op[1] = "item" /\ op[2] \notin k.syms -> Ret(Name)
      [] op[1] = "item" /\ op[2] \in k.syms ->
         Read(view, <<IF IsTri(k, op[2]) THEN "tri" ELSE "str", op[2]>>)

Holds(rel, a, b) == CASE rel = "="  -> a = b
                      [] rel = "!=" -> a # b
                      [] rel = "<"  -> a < b
                      [] rel = "<=" -> a <= b
                      [] rel = ">"  -> a > b
                      [] rel = ">=" -> a >= b

Compared(rel, a, b) ==
    Also(a, Also(b, Ret(IF Holds(rel, a.v, b.v) THEN 2 ELSE 0)))

(* expr_value: <<"const", 0..2>>, <<"item", i>>, <<"not", e>>,             *)
(* <<"and", e, f>>, <<"or", e, f>> and <<relation, operand, operand>>,     *)
(* with the short circuits of AND and OR.                                  *)
AndValue(k, a, e, view) == IF a.v = 0 THEN a ELSE MinOf(a, ExprValue(k, e, view))
OrValue(k, a, e, view)  == IF a.v = 2 THEN a ELSE MaxOf(a, ExprValue(k, e, view))
NotValue(a)             == Also(a, Ret(2 - a.v))

ExprStep(k, e, view) ==
    CASE e[1] = "const" -> Ret(e[2])
      [] e[1] = "item" /\ e[2] \in k.choices -> ChoiceTri(k, e[2], view)
      [] e[1] = "item" /\ e[2] \in k.syms -> Read(view, <<"tri", e[2]>>)
      [] e[1] = "item" /\ e[2] \notin k.syms \cup k.choices -> Ret(0)
      [] e[1] = "not" -> NotValue(ExprValue(k, e[2], view))
      [] e[1] = "and" -> AndValue(k, ExprValue(k, e[2], view), e[3], view)
      [] e[1] = "or"  -> OrValue(k, ExprValue(k, e[2], view), e[3], view)
      [] OTHER -> Compared(e[1], SymToNum(k, e[2], view), SymToNum(k, e[3], view))

(* The strongest prompt condition; every prompt is evaluated. *)
StrongestPrompt(k, prompts, view) ==
    LET conds == [n \in DOMAIN prompts |-> ExprValue(k, prompts[n], view)]
    IN [v |-> Max({0} \cup {conds[n].v : n \in DOMAIN conds}),
        r |-> UNION {conds[n].r : n \in DOMAIN conds}]

(* A loop that ends at the first result that is not n: where, or 0. *)
FirstOf(results) ==
    LET hits == {n \in DOMAIN results : results[n].v # 0}
        tried == {n \in DOMAIN results : \A h \in hits : n <= h}
    IN [v |-> IF hits = {} THEN 0 ELSE Min(hits),
        r |-> UNION {results[n].r : n \in tried}]

(* The first of a list of <<.., condition>> whose condition is not n, with *)
(* that condition's value: at is 0 if there is none.                       *)
FirstActive(k, list, view) ==
    LET conds == [n \in DOMAIN list |-> ExprValue(k, list[n][Len(list[n])], view)]
        first == FirstOf(conds)
    IN Also(first, Ret([at   |-> first.v,
                        cond |-> IF first.v = 0 THEN 0 ELSE conds[first.v].v]))

(* _visibility, for symbols and choices.  A choice symbol is not visible   *)
(* in a mode its type or condition does not go with; m is promoted to y    *)
(* for what is not tristate.                                               *)
YesUnlessTristate(type) == Also(type, Ret(IF type.v = "tristate" THEN 1 ELSE 2))

PromoteVisibility(k, i, vis, view) ==
    IF vis.v # 1 THEN vis
    ELSE Also(vis, YesUnlessTristate(IF i \in k.choices THEN ChoiceType(k, i, view)
                                     ELSE SymType(k, i, view)))

VisibilityInMode(k, i, vis, mode, view) ==
    Also(mode, IF (k.type[i] = "tristate") = (mode.v = 2) THEN Also(vis, Ret(0))
               ELSE PromoteVisibility(k, i, vis, view))

VisibilityByPrompt(k, i, vis, view) ==
    LET c == IF i \in k.syms THEN k.choiceOf[i] ELSE NoItem
        modeMatters == IF k.type[i] = "tristate" THEN vis.v = 1
                       ELSE k.type[c] = "tristate"
    IN IF c # NoItem /\ modeMatters
       THEN VisibilityInMode(k, i, vis, ChoiceTri(k, c, view), view)
       ELSE PromoteVisibility(k, i, vis, view)

Visibility(k, i, view) ==
    VisibilityByPrompt(k, i, StrongestPrompt(k, k.prompts[i], view), view)

-----------------------------------------------------------------------------
(* Symbol.tri_value.  The value comes with write: is it worth a .config    *)
(* entry?  The user value counts if the symbol is visible.                 *)
UserValue(s, vis, view) ==
    IF vis = 0 THEN Ret(Unset) ELSE Read(view, <<"user", s>>)

(* The first active default, no higher than its condition. *)
DefaultTri(k, s, first, view) ==
    Also(first, IF first.v.at = 0 THEN Ret(0)
                ELSE MinOf(Ret(first.v.cond),
                           ExprValue(k, k.defaults[s][first.v.at][1], view)))

(* What implies the symbol, where its direct dependencies are met. *)
WithImply(vis, def, weak, met) ==
    Also(def, Also(weak, Also(met,
        Ret([val   |-> IF met.v = 0 THEN def.v ELSE Max2(weak.v, def.v),
             write |-> vis # 0 \/ def.v # 0 \/ met.v # 0]))))

\* Mutant of Implied: the direct dependencies need not be met.
ImpliedAnyway(k, s, vis, def, weak, view) == WithImply(vis, def, weak, weak)

Implied(k, s, vis, def, weak, view) ==
    WithImply(vis, def, weak, IF weak.v = 0 THEN Ret(0)
                              ELSE ExprValue(k, k.direct[s], view))

OwnOrUser(k, s, vis, user, view) ==
    Also(user,
         IF user.v # Unset THEN Ret([val |-> Min2(user.v, vis), write |-> TRUE])
         ELSE Implied(k, s, vis,
                      DefaultTri(k, s, FirstActive(k, k.defaults[s], view), view),
                      ExprValue(k, k.weak[s], view), view))

OwnValue(k, s, vis, view) == OwnOrUser(k, s, vis, UserValue(s, vis, view), view)

(* _warn_select_unsatisfied_deps: only a warning, but to word it the code  *)
(* asks for values, which are cached.                                      *)
WarningBy(k, by, v, met, view) ==
    Also(Also(v, met), IF v.v <= met.v THEN Ret(0)
                       ELSE Also(Read(view, <<"str", by>>),
                                 ExprValue(k, k.direct[by], view)))

SelectWarning(k, s, selectors, view) ==
    LET warnings == [n \in DOMAIN selectors |-> LET by == selectors[n] IN
            WarningBy(k, by[1], ExprValue(k, <<"and", <<"item", by[1]>>, by[2]>>, view),
                      ExprValue(k, k.direct[s], view), view)]
    IN [v |-> 0, r |-> UNION {warnings[n].r : n \in DOMAIN warnings}]

UnmetSelect(k, s, rev, met, view) ==
    Also(met, IF met.v < rev.v THEN SelectWarning(k, s, k.selectors[s], view)
              ELSE Ret(0))

(* m becomes y for bools, and under an imply of y. *)
NeverMOfType(k, s, type, view) ==
    IF type.v = "bool" THEN Also(type, Ret(2))
    ELSE Also(type, ExprValue(k, k.weak[s], view))

NeverM(k, s, view) == NeverMOfType(k, s, SymType(k, s, view), view)

Promoted(own, y) == Also(y, Ret([own EXCEPT !.val = IF y.v = 2 THEN 2 ELSE 1]))

WithSelect(k, s, own, rev, view) ==
    LET val == Max2(rev.v, own.v.val)
        result == [val |-> val, write |-> own.v.write \/ rev.v # 0]
    IN Also(Also(Also(own, rev),
                 IF rev.v = 0 THEN Ret(0)
                 ELSE UnmetSelect(k, s, rev, ExprValue(k, k.direct[s], view), view)),
            IF val # 1 THEN Ret(result) ELSE Promoted(result, NeverM(k, s, view)))

PlainTri(k, s, vis, view) ==
    WithSelect(k, s, OwnValue(k, s, vis, view), ExprValue(k, k.rev[s], view), view)

(* A choice symbol follows the selection in y mode and its user value in   *)
(* m mode.                                                                 *)
IfSelected(s, sel) ==
    Also(sel, Ret([val |-> IF sel.v = s THEN 2 ELSE 0, write |-> TRUE]))

IfUser(user, vis) ==
    Also(user, Ret([val   |-> IF user.v \in {Unset, 0} THEN 0 ELSE 1,
                    write |-> vis # 0]))

MemberTri(k, s, vis, view) ==
    IF vis = 2 THEN IfSelected(s, Read(view, <<"sel", k.choiceOf[s]>>))
    ELSE IfUser(UserValue(s, vis, view), vis)

TriOfVisible(k, s, vis, view) ==
    Also(vis, IF k.choiceOf[s] = NoItem THEN PlainTri(k, s, vis.v, view)
              ELSE MemberTri(k, s, vis.v, view))

TriValue(k, s, view) ==
    IF ~IsTri(k, s) THEN Ret([val |-> 0, write |-> FALSE])
    ELSE TriOfVisible(k, s, Read(view, <<"vis", s>>), view)

(* Symbol.str_value of int and string symbols.  An operand of a default or *)
(* a range is a literal <<"const", v>> or a symbol <<"item", s>>.          *)
Operand(k, op, view) ==
    IF op[1] = "const" THEN Ret(op[2]) ELSE Read(view, <<"str", op[2]>>)

Number(v) == IF v = Blank THEN 0 ELSE v

DefaultText(k, s, first, view) ==
    Also(first, IF first.v.at = 0 THEN Ret(Blank)
                ELSE Operand(k, k.defaults[s][first.v.at][1], view))

(* The active range: everything, if there is none. *)
Bounds(lo, hi) ==
    Also(lo, Also(hi, Ret([on |-> TRUE, low |-> Number(lo.v), high |-> Number(hi.v)])))

RangeOf(k, s, first, view) ==
    Also(first, IF first.v.at = 0 THEN Ret([on |-> FALSE, low |-> 0, high |-> 0])
                ELSE Bounds(Operand(k, k.ranges[s][first.v.at][1], view),
                            Operand(k, k.ranges[s][first.v.at][2], view)))

(* The default is clamped to the range, which has been written the wrong   *)
(* way round if low is above high: low wins.                               *)
Clamped(vis, range, first, text) ==
    LET n == Number(text.v) IN
    Also(text, Ret([val   |-> CASE range.on /\ n < range.low -> range.low
                                [] range.on /\ n >= range.low /\ n > range.high
                                   -> range.high
                                [] OTHER -> text.v,
                    write |-> vis # 0 \/ first.v.at # 0]))

(* The user value counts if it is in the range. *)
IntInRange(k, s, vis, range, user, first, view) ==
    LET fits == ~range.v.on
                \/ (range.v.low <= user.v /\ user.v <= range.v.high)
    IN Also(Also(range, user),
            IF user.v # Unset /\ fits THEN Ret([val |-> user.v, write |-> TRUE])
            ELSE Clamped(vis, range.v, first, DefaultText(k, s, first, view)))

IntValue(k, s, vis, view) ==
    IntInRange(k, s, vis, RangeOf(k, s, FirstActive(k, k.ranges[s], view), view),
               UserValue(s, vis, view), FirstActive(k, k.defaults[s], view), view)

TextOrUser(k, s, vis, user, first, view) ==
    Also(user, IF user.v # Unset THEN Ret([val |-> user.v, write |-> TRUE])
               ELSE LET text == DefaultText(k, s, first, view) IN
                    Also(text, Ret([val |-> text.v,
                                    write |-> vis # 0 \/ first.v.at # 0])))

StringValue(k, s, vis, view) ==
    TextOrUser(k, s, vis, UserValue(s, vis, view),
               FirstActive(k, k.defaults[s], view), view)

TextOfVisible(k, s, vis, view) ==
    Also(vis, IF k.type[s] = "int" THEN IntValue(k, s, vis.v, view)
              ELSE StringValue(k, s, vis.v, view))

TextOfTri(tri) == Also(tri, Ret([val |-> tri.v, write |-> FALSE]))

\* Mutant of StrValue: the user value is taken without a look at the visibility.
StrValueBlind(k, s, view) ==
    IF IsTri(k, s) THEN TextOfTri(Read(view, <<"tri", s>>))
    ELSE TextOfVisible(k, s, Ret(2), view)

StrValue(k, s, view) ==
    IF IsTri(k, s) THEN TextOfTri(Read(view, <<"tri", s>>))
    ELSE TextOfVisible(k, s, Read(view, <<"vis", s>>), view)

-----------------------------------------------------------------------------
(* Symbol._assignable: the values a user can give the symbol now. *)
WithoutM(y, values) == Also(y, Ret(IF y.v = 2 THEN values \ {1} ELSE values))

AssignableUnder(k, s, vis, rev, view) ==
    Also(Also(vis, rev),
         CASE vis.v = 2 /\ k.choiceOf[s] # NoItem -> Ret({2})
           [] vis.v = 2 /\ k.choiceOf[s] = NoItem /\ rev.v # 2
              -> WithoutM(NeverM(k, s, view), rev.v..2)
           [] vis.v = 1 /\ rev.v = 0
              -> LET y == ExprValue(k, k.weak[s], view) IN
                 Also(y, Ret({0, IF y.v = 2 THEN 2 ELSE 1}))
           [] vis.v = 1 /\ rev.v = 1 -> Ret({1})
           [] OTHER -> Ret({2}))

IfVisible(k, s, vis, view) ==
    IF vis.v = 0 THEN Also(vis, Ret({}))
    ELSE AssignableUnder(k, s, vis, ExprValue(k, k.rev[s], view), view)

\* Mutant of SymAssignable: what selects the symbol is not looked at.
SymAssignableUnselected(k, s, view) ==
    IF ~IsTri(k, s) \/ Read(view, <<"vis", s>>).v = 0
    THEN Also(Read(view, <<"vis", s>>), Ret({}))
    ELSE AssignableUnder(k, s, Read(view, <<"vis", s>>), Ret(0), view)

SymAssignable(k, s, view) ==
    IF ~IsTri(k, s) THEN Ret({})
    ELSE IfVisible(k, s, Read(view, <<"vis", s>>), view)

(* Choice._assignable: the modes a user can give the choice now. *)
ModesOf(k, c, vis, view) ==
    LET least == IF c \in k.optional THEN {0} ELSE {} IN
    Also(vis, CASE vis.v = 0 -> Ret({})
                [] vis.v = 2 -> LET y == YesIfBool(ChoiceType(k, c, view)) IN
                                Also(y, Ret(least \cup {y.v, 2}))
                [] OTHER -> Ret(least \cup {1}))

ChoiceAssignable(k, c, view) == ModesOf(k, c, Read(view, <<"vis", c>>), view)

(* Choice._selection: the user's pick if visible, else the first default   *)
(* whose symbol is visible, else the first visible symbol.                 *)
IfActive(cond, vis) == Also(cond, IF cond.v = 0 THEN Ret(0) ELSE vis)

DefaultSelection(k, c, view) ==
    FirstOf([n \in DOMAIN k.defaults[c] |->
                IfActive(ExprValue(k, k.defaults[c][n][2], view),
                         Read(view, <<"vis", k.defaults[c][n][1]>>))])

FirstMember(k, c, view) ==
    LET first == FirstOf([n \in DOMAIN k.members[c] |->
                             Read(view, <<"vis", k.members[c][n]>>)])
    IN Also(first, Ret(IF first.v = 0 THEN NoItem ELSE k.members[c][first.v]))

SelectionFromDefaults(k, c, view) ==
    LET first == DefaultSelection(k, c, view)
    IN Also(first, IF first.v # 0 THEN Ret(k.defaults[c][first.v][1])
                   ELSE FirstMember(k, c, view))

PickIfVisible(k, c, pick, vis, view) ==
    Also(Also(pick, vis), IF vis.v # 0 THEN Ret(pick.v)
                          ELSE SelectionFromDefaults(k, c, view))

Picked(k, c, pick, view) ==
    PickIfVisible(k, c, pick, IF pick.v = NoItem THEN Ret(0)
                              ELSE Read(view, <<"vis", pick.v>>), view)

SelectionIn(k, c, mode, view) ==
    Also(mode, IF mode.v # 2 THEN Ret(NoItem)
               ELSE Picked(k, c, Read(view, <<"pick", c>>), view))

Selection(k, c, view) == SelectionIn(k, c, ChoiceTri(k, c, view), view)

-----------------------------------------------------------------------------
(* The value of the cached attribute e = <<attribute, item>>. *)
ValOf(x) == [v |-> x.v.val, r |-> x.r]

Value(k, e, view) ==
    CASE e[1] = "vis" -> Visibility(k, e[2], view)
      [] e[1] = "tri" -> ValOf(TriValue(k, e[2], view))
      [] e[1] = "str" -> ValOf(StrValue(k, e[2], view))
      [] e[1] = "asg" /\ e[2] \in k.syms -> SymAssignable(k, e[2], view)
      [] e[1] = "asg" /\ e[2] \in k.choices -> ChoiceAssignable(k, e[2], view)
      [] e[1] = "sel" -> Selection(k, e[2], view)

(* _write_to_conf, set with the value: does the symbol get a .config line? *)
WriteToConf(k, s, view) ==
    IF IsTri(k, s) THEN TriValue(k, s, view).v.write
    ELSE s \notin k.auto /\ StrValue(k, s, view).v.write

(* Symbol._str_default: the value of a bool or tristate without the user's *)
(* say; choice symbols have none.                                          *)
BoolIfM(val, type) ==
    Also(Also(val, type), Ret(IF val.v = 1 /\ type.v = "bool" THEN 2 ELSE val.v))

TriDefault(k, s, view) ==
    BoolIfM(IF k.choiceOf[s] # NoItem THEN Ret(0)
            ELSE MaxOf(MaxOf(ExprValue(k, k.rev[s], view),
                             ExprValue(k, k.weak[s], view)),
                       DefaultTri(k, s, FirstActive(k, k.defaults[s], view), view)),
            SymType(k, s, view))

StrDefault(k, s, view) ==
    IF IsTri(k, s) THEN TriDefault(k, s, view)
    ELSE DefaultText(k, s, FirstActive(k, k.defaults[s], view), view)

ValueOf(k, s, view) == view[<<IF IsTri(k, s) THEN "tri" ELSE "str", s>>]

\* Mutant of InMinConfig: what is selected is left out of choices as well.
InMinConfigAllDefaults(k, s, view) ==
    /\ ValueOf(k, s, view) # StrDefault(k, s, view).v
    /\ k.choiceOf[s] # NoItem =>
          SelectionFromDefaults(k, k.choiceOf[s], view).v # s

(* _min_config_contents: a symbol whose value differs from its default and *)
(* that is not what its choice selects by default, where it can be changed.*)
InMinConfig(k, s, view) ==
    /\ k.choiceOf[s] = NoItem =>
          view[<<"vis", s>>] > ExprValue(k, k.rev[s], view).v
    /\ ValueOf(k, s, view) # StrDefault(k, s, view).v
    /\ ~ /\ k.choiceOf[s] # NoItem
         /\ k.choiceOf[s] \notin k.optional
         /\ SelectionFromDefaults(k, k.choiceOf[s], view).v = s
         /\ k.type[s] = "bool" /\ view[<<"tri", s>>] = 2

(* The symbols and choices an expression names (expr_items). *)
ItemsStep(e) ==
    CASE e[1] = "const" -> {}
      [] e[1] = "item" -> {e[2]}
      [] e[1] = "not" -> ExprItems(e[2])
      [] OTHER -> ExprItems(e[2]) \cup ExprItems(e[3])

\* Mutant of Mentions: the bounds of ranges are forgotten.
MentionsWithoutRanges(k, i) ==
    LET conds(list) == UNION {ExprItems(list[n][Len(list[n])]) :
                                n \in DOMAIN list}
        ops(list, n) == UNION {ExprItems(list[m][n]) : m \in DOMAIN list}
        prompts == UNION {ExprItems(k.prompts[i][n]) : n \in DOMAIN k.prompts[i]}
    IN IF i \in k.choices THEN prompts \cup conds(k.defaults[i])
       ELSE UNION {prompts, conds(k.defaults[i]), ops(k.defaults[i], 1),
                   ExprItems(k.rev[i]), ExprItems(k.weak[i]),
                   ExprItems(k.direct[i])}

(* _build_dep and _add_choice_deps: the items whose values may depend on   *)
(* an item, and so are recalculated when it changes.                       *)
Mentions(k, i) ==
    LET conds(list) == UNION {ExprItems(list[n][Len(list[n])]) :
                                n \in DOMAIN list}
        ops(list, n) == UNION {ExprItems(list[m][n]) : m \in DOMAIN list}
        prompts == UNION {ExprItems(k.prompts[i][n]) : n \in DOMAIN k.prompts[i]}
    IN IF i \in k.choices THEN prompts \cup conds(k.defaults[i])
       ELSE UNION {prompts, conds(k.defaults[i]), ops(k.defaults[i], 1),
                   ExprItems(k.rev[i]), ExprItems(k.weak[i]),
                   conds(k.ranges[i]), ops(k.ranges[i], 1), ops(k.ranges[i], 2),
                   ExprItems(k.direct[i])}

Dependents(k) ==
    [i \in k.syms \cup k.choices |->
        {j \in k.syms \cup k.choices : i \in Mentions(k, j)}
        \cup {c \in k.choices : i \in {k.members[c][n] : n \in DOMAIN k.members[c]}}]

-----------------------------------------------------------------------------
(* The expressions of an instance, operands and the ones the warning about *)
(* a select evaluates among them                                           *)
Conditions(list) == {list[n][Len(list[n])] : n \in DOMAIN list}

Nth(list, m) == {list[n][m] : n \in DOMAIN list}

SymExpressions(k, s) ==
    Nth(k.defaults[s], 1) \cup Conditions(k.ranges[s]) \cup Nth(k.ranges[s], 1)
    \cup Nth(k.ranges[s], 2) \cup {k.rev[s], k.weak[s], k.direct[s]}
    \cup {<<"and", <<"item", k.selectors[s][n][1]>>, k.selectors[s][n][2]>> :
              n \in DOMAIN k.selectors[s]}

ItemExpressions(k, i) ==
    {k.prompts[i][n] : n \in DOMAIN k.prompts[i]} \cup Conditions(k.defaults[i])
    \cup (IF i \in k.choices THEN {} ELSE SymExpressions(k, i))

Expressions(k) == UNION {ItemExpressions(k, i) : i \in k.syms \cup k.choices}

(* Expressions are finite: depth goes down from each to its parts. *)
Leaf(e) == e[1] \in {"const", "item"}

Finite(depth) ==
    \A e \in DOMAIN depth :
        /\ depth[e] \in Nat
        /\ \/ Leaf(e)
           \/ e[1] = "not" /\ e[2] \in DOMAIN depth /\ depth[e[2]] < depth[e]
           \/ /\ e[1] \in {"and", "or"}
              /\ \A part \in {e[2], e[3]} : part \in DOMAIN depth /\ depth[part] < depth[e]
           \/ /\ e[1] \in {"=", "!=", "<", "<=", ">", ">="}
              /\ \A part \in {e[2], e[3]} : part \in DOMAIN depth /\ Leaf(part)

(* What the parser leaves: dependents are registered and prompts known;    *)
(* the symbols of a choice depend on it, and its defaults are among them   *)
(* (which kconfiglib only warns about); what selects a symbol is part of   *)
(* its reverse dependencies with the dependencies it has there.            *)
Members(k, c) == {k.members[c][n] : n \in DOMAIN k.members[c]}

ChoicesRight(k) ==
    /\ \A s \in k.syms : LET c == k.choiceOf[s] IN
          c # NoItem => c \in k.choices \cap Mentions(k, s) /\ s \in Members(k, c)
    /\ \A c \in k.choices : \A n \in DOMAIN k.defaults[c] :
          Len(k.defaults[c][n]) = 2 /\ k.defaults[c][n][1] \in Members(k, c)

SelectorsRight(k) ==
    \A s \in k.syms : \A n \in DOMAIN k.selectors[s] : LET by == k.selectors[s][n] IN
        /\ by[1] \in k.syms
        /\ {by[1]} \cup ExprItems(by[2]) \cup ExprItems(k.direct[by[1]]) \subseteq Mentions(k, s)

OperandsRight(k) ==
    \A s \in k.syms :
        /\ ~IsTri(k, s) => \A n \in DOMAIN k.defaults[s] : Leaf(k.defaults[s][n][1])
        /\ \A n \in DOMAIN k.ranges[s] : Leaf(k.ranges[s][n][1]) /\ Leaf(k.ranges[s][n][2])

ListsRight(k) ==
    /\ \A i \in k.syms \cup k.choices : DOMAIN k.defaults[i] \subseteq Nat \ {0}
    /\ \A s \in k.syms : DOMAIN k.ranges[s] \subseteq Nat \ {0}
    /\ \A c \in k.choices : DOMAIN k.members[c] \subseteq Nat \ {0}

WellFormed(k) ==
    /\ k.dependents = Dependents(k)
    /\ k.prompted = {s \in k.syms : k.prompts[s] # <<>>}
    /\ NoItem \notin k.syms \cup k.choices /\ k.syms \cap k.choices = {}
    /\ ChoicesRight(k) /\ SelectorsRight(k) /\ OperandsRight(k) /\ ListsRight(k)
=============================================================================
