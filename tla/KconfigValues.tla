---------------------------- MODULE KconfigValues ----------------------------
(***************************************************************************)
(* The cache of KconfigCache with the evaluation of KconfigEval, and what  *)
(* the values computed from user values alone have to satisfy.             *)
(***************************************************************************)
EXTENDS KconfigCache

CONSTANTS
    ExprValue(_, _, _), \* expr_value and expr_items, by their equations
    ExprItems(_)

INSTANCE KconfigEval

(* What the values now of an instance k are like where no symbol is on     *)
(* without leave: of its direct dependencies or a select, and of the       *)
(* choice it is in, which in y mode has only its selection on.             *)
Allowed(k, now) ==
    /\ \A s \in k.syms : now[<<"tri", s>>] # 0 =>
          ExprValue(k, k.direct[s], now).v # 0 \/ ExprValue(k, k.rev[s], now).v # 0
    /\ \A c \in k.choices :
          LET on == {s \in k.syms : k.choiceOf[s] = c /\ now[<<"tri", s>>] # 0}
          IN \A s \in on : now[<<"tri", s>>] = 2 => on = {s}

(* A bool or tristate symbol is on only while its direct dependencies or a *)
(* select allow it, whatever users, defaults and implies say, and at most  *)
(* one symbol of a choice is y, the only one that is not n: "a choice in   *)
(* y-mode" has one selection.  (Every set of user values occurs with an    *)
(* empty cache.)                                                           *)
OnlyWhatIsAllowed ==
    DOMAIN cache = {} => \E now \in {Fresh(K, user)} : Allowed(K, now)

(* What the parser's dependencies come to: direct_dep is met wherever a    *)
(* prompt or a default of the symbol applies, for the dependencies of each *)
(* menu node are part of its conditions and one of the alternatives in     *)
(* direct_dep.  A prompt condition is n, m or y.                           *)
DependenciesMet(k, now) ==
    /\ \A i \in k.syms \cup k.choices : \A n \in DOMAIN k.prompts[i] :
          ExprValue(k, k.prompts[i][n], now).v \in 0..2
    /\ \A s \in k.syms :
          \A e \in {k.prompts[s][n] : n \in DOMAIN k.prompts[s]}
                   \cup Conditions(k.defaults[s]) :
              ExprValue(k, e, now).v # 0 => ExprValue(k, k.direct[s], now).v # 0

FreshDependenciesMet ==
    \A n \in DOMAIN Kconfigs : \A u \in UserValues(Kconfigs[n]) :
        \E now \in {Fresh(Kconfigs[n], u)} : DependenciesMet(Kconfigs[n], now)

-----------------------------------------------------------------------------
(* The user values after Symbol.set_value(v) of s *)
AfterSet(k, u, s, v) ==
    IF k.choiceOf[s] # NoItem /\ v = 2
    THEN [u EXCEPT ![<<"user", s>>] = v, ![<<"pick", k.choiceOf[s]>>] = s]
    ELSE [u EXCEPT ![<<"user", s>>] = v]

TriSyms(k) == {s \in k.syms : IsTri(k, s)}
Levels(k, s) == IF k.type[s] = "bool" THEN {0, 2} ELSE 0..2

Assignments(k, u) == UNION {{AfterSet(k, u, s, v) : v \in Levels(k, s)} : s \in TriSyms(k)}

(* "The tristate user values that can currently be assigned to the symbol  *)
(* (that would be respected)": assigning one gives the symbol that value,  *)
(* through selects, implies, visibility, choices and the mode of MODULES.  *)
(* Assigning anything else to a visible symbol outside of choices does     *)
(* not.  (Every set of user values occurs with an empty cache.)            *)
AssignableRespected ==
    DOMAIN cache = {} =>
    \E now \in {Fresh(K, user)} :
    \A s \in TriSyms(K) : \A v \in Levels(K, s) :
        \E then \in {Fresh(K, AfterSet(K, user, s, v))} :
            IF v \in now[<<"asg", s>>] THEN then[<<"tri", s>>] = v
            ELSE \/ now[<<"vis", s>>] = 0
                 \/ K.choiceOf[s] # NoItem
                 \/ then[<<"tri", s>>] # v

(* What selects and implies come to: n, m or y, and nothing for the        *)
(* symbols of choices (which kconfiglib warns about).  Left out is what    *)
(* _assignable has wrong: a symbol as visible as m, with a select of m and *)
(* an imply of y, goes to y.                                               *)
SelectsRight(k, now) ==
    \A s \in TriSyms(k) :
        LET rev == ExprValue(k, k.rev[s], now).v
            weak == ExprValue(k, k.weak[s], now).v
        IN /\ rev \in 0..2
           /\ k.choiceOf[s] # NoItem => rev = 0 /\ weak = 0
           /\ ~(now[<<"vis", s>>] = 1 /\ rev = 1 /\ weak = 2)

FreshSelectsRight ==
    \A n \in DOMAIN Kconfigs : \A u \in UserValues(Kconfigs[n]) :
        \E now \in {Fresh(Kconfigs[n], u)} : SelectsRight(Kconfigs[n], now)

(* A choice is bool or tristate and in a mode, which the prompts of its    *)
(* symbols depend on.                                                      *)
MembersFollow(k, now) ==
    \A s \in k.syms : LET c == k.choiceOf[s] IN c # NoItem =>
        /\ k.type[c] \in {"bool", "tristate"}
        /\ ChoiceTri(k, c, now).v \in 0..2
        /\ \A n \in DOMAIN k.prompts[s] :
              ExprValue(k, k.prompts[s][n], now).v <= ChoiceTri(k, c, now).v

(* No evaluation comes back to where it started: what it reads has a       *)
(* smaller rank.                                                           *)
Ordered(k, now, rank) ==
    \A e \in CacheEntries(k) :
        /\ rank[e] \in Nat
        /\ \A r \in Eval(k, e, now).r :
              r \in UserEntries(k) \/ (r \in CacheEntries(k) /\ rank[r] < rank[e])

(* What Fresh has to be after an assignment, of one of the inputs or not,  *)
(* where entries are ranked in each instance by the order they can be      *)
(* computed in.                                                            *)
FreshAssigned(rank) ==
    \A n \in DOMAIN Kconfigs : LET k == Kconfigs[n] IN
    \A u \in UserValues(k) : \A w \in Assignments(k, u) :
        \E then \in {Fresh(k, w)} : /\ Solves(k, w, then)
                                    /\ Ordered(k, then, rank[n])
                                    /\ DependenciesMet(k, then)
                                    /\ MembersFollow(k, then)
-----------------------------------------------------------------------------
(* What has to hold of an instance k and of the values now for a file that *)
(* is written to give them back when it is loaded.  The symbols of a       *)
(* choice are in no other, and bool or tristate; what the environment      *)
(* gives has no prompt.                                                    *)
MembersBelong(k) ==
    /\ \A c \in k.choices : \A s \in Members(k, c) :
          s \in k.syms /\ k.choiceOf[s] = c /\ IsTri(k, s)
    /\ \A s \in k.auto : s \notin k.prompted

(* A default does not go beyond what the user may set: y of a symbol that  *)
(* is visible as m is written, and loaded as m.                            *)
DefaultsInReach(k, now) ==
    \A s \in k.syms :
        LET rev == ExprValue(k, k.rev[s], now).v
            weak == ExprValue(k, k.weak[s], now).v
            def == DefaultTri(k, s, FirstActive(k, k.defaults[s], now), now).v
        IN /\ {rev, weak} \subseteq 0..2
           /\ IsTri(k, s) => def \in 0..2
           /\ ~IsTri(k, s) => rev = 0
           /\ IsTri(k, s) /\ k.choiceOf[s] = NoItem /\ now[<<"vis", s>>] = 1 =>
                 def \in 0..1 \/ rev = 2 \/ weak = 2

(* The texts that are compared with the bounds of a range are numbers. *)
IntsRight(k, now) ==
    \A s \in k.syms : k.type[s] = "int" =>
        LET range == RangeOf(k, s, FirstActive(k, k.ranges[s], now), now).v
        IN {range.low, range.high,
            DefaultText(k, s, FirstActive(k, k.defaults[s], now), now).v} \subseteq Int

(* The mode of a choice is not in the file: it is the one a user who says  *)
(* nothing gets, or a symbol of the choice that is not n tells it.         *)
ModeUnset(k, c, view) ==
    PromoteMode(k, c, WithinMode(k, c, Ret(Unset), Read(view, <<"vis", c>>)), view)

ModesShow(k, now) ==
    \A c \in k.choices :
        \/ ChoiceTri(k, c, now).v = ModeUnset(k, c, now).v
        \/ \E s \in Members(k, c) : now[<<"tri", s>>] # 0

=============================================================================
