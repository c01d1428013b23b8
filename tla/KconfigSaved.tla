---------------------------- MODULE KconfigSaved ----------------------------
(***************************************************************************)
(* KconfigFiles with the values of KconfigValues: what loading a file that *)
(* was saved gives back.                                                   *)
(***************************************************************************)
EXTENDS KconfigFiles

CONSTANTS
    Modules,            \* the symbol MODULES
    Eval(_, _, _),      \* the evaluation of one entry,
    Fresh(_, _),        \* the values user values determine by it,
    ExprValue(_, _, _), \* and its recursions, by their equations
    ExprItems(_)

(* The evaluation, with nothing cached, and what is proved of it *)
C == INSTANCE KconfigCache_proofs WITH cache <- Empty

(* What KconfigCache takes of the instances, and of None *)
ASSUME CacheAssumption ==
    /\ \A n \in DOMAIN Kconfigs : LET k == Kconfigs[n] IN
          /\ k.asked \subseteq C!CacheEntries(k)
          /\ \A s \in k.syms : k.choiceOf[s] \in k.choices \cup {NoItem}
    /\ Unset \notin 0..2

(* What the files take of the values now of an instance k *)
ValuesIn(k, now) ==
    [s \in k.syms |-> [val   |-> C!ValueOf(k, s, now),
                       write |-> C!WriteToConf(k, s, now),
                       min   |-> C!InMinConfig(k, s, now)]]

(* They are the only solution of the evaluation, entries being ranked by   *)
(* the order they can be computed in, *)
FreshSolved(rank) ==
    \A n \in DOMAIN Kconfigs : \E k \in {Kconfigs[n]} :
    \A u \in UserValues(k) : \E now \in {Fresh(k, u)} :
        /\ C!Solves(k, u, now) /\ C!Ordered(k, now, rank[n])
        /\ Values(k, u) = ValuesIn(k, now)

(* which is as the parser and the types of the symbols leave it, *)
FreshRight ==
    \A n \in DOMAIN Kconfigs : \E k \in {Kconfigs[n]} :
        /\ C!MembersBelong(k)
        /\ \A u \in UserValues(k) : \E now \in {Fresh(k, u)} :
              C!DependenciesMet(k, now) /\ C!MembersFollow(k, now) /\ C!IntsRight(k, now)

(* and has no value that loading cannot give back. *)
FreshSavable ==
    \A n \in DOMAIN Kconfigs : \E k \in {Kconfigs[n]} :
    \A u \in UserValues(k) : \E now \in {Fresh(k, u)} :
        C!DefaultsInReach(k, now) /\ C!ModesShow(k, now)

-----------------------------------------------------------------------------
(* The following say something of every set of user values; each of them   *)
(* occurs with no file written yet.                                        *)
Resting == at = "idle" /\ \A f \in Files : files[f] = Missing

(* Loading what write_config wrote gives every symbol its value back.  And *)
(* "all existing user values will be cleared before loading": it does so   *)
(* whatever the user values were, although a choice the file sets keeps    *)
(* its old user_selection.                                                 *)
RoundTrip ==
    Resting =>
    \E loaded \in {{Loaded(K, u, ConfigContents, TRUE) :
                        u \in UNION {Edits(K, v) : v \in Edits(K, NoUser(K))}}} :
    \A u \in loaded :
    \E again \in {Values(K, u)} : \A s \in K.syms : again[s].val = vals[s].val

(* "A complete configuration can be derived from it by loading it": the    *)
(* minimal configuration gives every symbol its value back, except that    *)
(* the y mode of a tristate choice is lost with the bool symbol it selects *)
(* by default.                                                             *)
LosesMode ==
    \E s \in K.syms : LET c == K.choiceOf[s] IN
        /\ c # NoItem /\ K.type[c] = "tristate" /\ K.type[s] = "bool"
        /\ vals[s].val = 2

MinConfigIsEnough ==
    Resting /\ ~LosesMode =>
    \E again \in {Values(K, Loaded(K, NoUser(K), MinContents, TRUE))} :
        \A s \in K.syms : again[s].val = vals[s].val
=============================================================================
