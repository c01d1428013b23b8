---------------------------- MODULE KconfigCache ----------------------------
(***************************************************************************)
(* The cache of kconfiglib: the values of symbols and choices are computed *)
(* on demand and kept, and an assignment throws away what may have become  *)
(* stale (Symbol._rec_invalidate and the set_value and unset_value         *)
(* functions that call it).                                                *)
(*                                                                         *)
(* An entry is <<attribute, item>>.  How a value is computed is left to    *)
(* the constant operator Eval(k, e, view): given the entries in view it    *)
(* returns [v |-> value, r |-> the entries read].  KconfigEval gives it    *)
(* the evaluation the code has, and Fresh(k, u) is what that makes of the  *)
(* user values u when nothing is cached.                                   *)
(*                                                                         *)
(* One Fill step is the end of one property's computation.  A property     *)
(* that is not cached is computed after the ones it reads, so asking for   *)
(* one attribute is a sequence of Fill steps, and as every attribute can   *)
(* be asked for by itself (they are public properties), the states between *)
(* the steps are states the program rests in.                              *)
(***************************************************************************)
EXTENDS Naturals

CONSTANTS
    Kconfigs,       \* the Kconfig instances considered, by name
    Eval(_, _, _),  \* the evaluation of one entry
    Fresh(_, _),    \* the values user values alone determine
    NoItem,         \* no user_selection, or no enclosing choice
    Unset,          \* no user_value
    Modules         \* the symbol MODULES

VARIABLES
    kc,             \* the name of the Kconfig instance that was loaded
    user,           \* user values: "user", "mode" and "pick" entries
    cache           \* the cached attributes that are not None, each with
                    \* its value v and, as history, the entries r it read

vars == <<kc, user, cache>>

K == Kconfigs[kc]
Items == K.syms \cup K.choices
AttrOf(e) == e[1]
ItemOf(e) == e[2]

UserEntries(k) == ({"user"} \X k.syms) \cup ({"mode", "pick"} \X k.choices)
CacheEntries(k) == ({"vis", "tri", "str", "asg"} \X k.syms)
                   \cup ({"vis", "asg", "sel"} \X k.choices)

(* What the parser builds: attributes are asked of symbols and choices,    *)
(* the choice of a symbol is one of the choices.                           *)
ASSUME KconfigsAssumption ==
    \A n \in DOMAIN Kconfigs : LET k == Kconfigs[n] IN
        /\ k.asked \subseteq CacheEntries(k)
        /\ \A s \in k.syms : k.choiceOf[s] \in k.choices \cup {NoItem}

(* None is none of the values of a bool or tristate. *)
ASSUME UnsetAssumption == Unset \notin 0..2

(* All the entries a computation can see, and those of R among them. *)
Held(r) == IF r \in DOMAIN cache THEN cache[r].v ELSE user[r]
Visible == DOMAIN cache \cup UserEntries(K)
View(R) == [r \in R |-> Held(r)]

Init ==
    /\ kc \in DOMAIN Kconfigs
    /\ user = [r \in UserEntries(K) |-> IF AttrOf(r) = "pick" THEN NoItem
                                         ELSE Unset]
    /\ cache = [e \in {} |-> [v |-> Unset, r |-> {}]]

(* Symbol.visibility, tri_value, str_value, assignable and Choice.selection*)
(* when the cached value is None: compute it from the entries it needs, all*)
(* of which are there, and keep it.                                        *)
Fill(e) ==
    /\ e \notin DOMAIN cache
    /\ \E R \in {Eval(K, e, View(Visible)).r} :
          /\ R \subseteq Visible
          /\ \E entry \in {[v |-> Eval(K, e, View(R)).v, r |-> R]} :
                cache' = [x \in DOMAIN cache \cup {e} |->
                            IF x = e THEN entry ELSE cache[x]]
    /\ UNCHANGED <<kc, user>>

-----------------------------------------------------------------------------
(* _rec_invalidate from item z: z, and every dependent of an invalidated   *)
(* item whose visibility is cached, for _cached_vis doubles as the flag    *)
(* that the item has cached values.  Reaching MODULES invalidates all.     *)
Cached == {i \in Items : <<"vis", i>> \in DOMAIN cache}

Reached(z) ==
    LET next == [i \in Items |-> K.dependents[i] \cap Cached]
        closed == {S \in SUBSET Cached : \A i \in S \cup {z} : next[i] \subseteq S}
    IN {z} \cup {i \in Cached : \A S \in closed : i \in S}

\* Mutant of Invalidated: MODULES is invalidated like any other symbol.
InvalidatedByReach(z) == Reached(z)

Invalidated(z) == IF Modules \in Reached(z) THEN Items ELSE Reached(z)

RecInvalidate(z) ==
    \E lost \in {Invalidated(z)} :
    cache' = [e \in {x \in DOMAIN cache : ItemOf(x) \notin lost} |-> cache[e]]

(* _rec_invalidate_if_has_prompt: user values do not matter without one. *)
RecInvalidateIfHasPrompt(s) ==
    IF s \in K.prompted THEN RecInvalidate(s) ELSE UNCHANGED cache

-----------------------------------------------------------------------------
(* Symbol.set_value with a value valid for the type.  Setting a choice     *)
(* symbol to y also makes it the user selection of its choice, and then it *)
(* is the choice that is invalidated.                                      *)
SetValue(s, v) ==
    LET c == K.choiceOf[s] IN
    /\ v \in K.inputs[s]
    /\ c # NoItem \/ user[<<"user", s>>] # v
    /\ IF c # NoItem /\ v = 2
       THEN /\ user' = [user EXCEPT ![<<"user", s>>] = v, ![<<"pick", c>>] = s]
            /\ RecInvalidate(c)
       ELSE /\ user' = [user EXCEPT ![<<"user", s>>] = v]
            /\ RecInvalidateIfHasPrompt(s)
    /\ UNCHANGED kc

(* Symbol.unset_value *)
UnsetValue(s) ==
    /\ user[<<"user", s>>] # Unset
    /\ user' = [user EXCEPT ![<<"user", s>>] = Unset]
    /\ RecInvalidateIfHasPrompt(s)
    /\ UNCHANGED kc

\* Mutant of SetMode: what the old mode gave its symbols is kept.
SetModeKeeps(c, v) ==
    /\ v \in K.inputs[c]
    /\ user[<<"mode", c>>] # v
    /\ user' = [user EXCEPT ![<<"mode", c>>] = v]
    /\ UNCHANGED <<kc, cache>>

(* Choice.set_value: the mode of the choice *)
SetMode(c, v) ==
    /\ v \in K.inputs[c]
    /\ user[<<"mode", c>>] # v
    /\ user' = [user EXCEPT ![<<"mode", c>>] = v]
    /\ RecInvalidate(c)
    /\ UNCHANGED kc

(* Choice.unset_value: the mode and the selection *)
UnsetChoice(c) ==
    /\ user[<<"mode", c>>] # Unset \/ user[<<"pick", c>>] # NoItem
    /\ user' = [user EXCEPT ![<<"mode", c>>] = Unset, ![<<"pick", c>>] = NoItem]
    /\ RecInvalidate(c)
    /\ UNCHANGED kc

Next ==
    \/ \E e \in K.asked : Fill(e)
    \/ \E s \in K.syms : \/ \E v \in K.inputs[s] : SetValue(s, v)
                         \/ UnsetValue(s)
    \/ \E c \in K.choices : \/ \E v \in K.inputs[c] : SetMode(c, v)
                            \/ UnsetChoice(c)

Spec == Init /\ [][Next]_vars

-----------------------------------------------------------------------------
(* The variables keep their shape: attributes of this instance are cached, *)
(* computed from entries of this instance.                                 *)
TypeOK ==
    /\ kc \in DOMAIN Kconfigs
    /\ DOMAIN user = UserEntries(K)
    /\ DOMAIN cache \subseteq CacheEntries(K)
    /\ \A e \in DOMAIN cache : cache[e].r \subseteq UserEntries(K) \cup CacheEntries(K)

(* Every cached value is the one its computation would give on the entries *)
(* as they are now, every one of which is still there: no assignment ever  *)
(* leaves a cached value behind that it should have thrown away, although  *)
(* invalidation stops at items without a cached visibility.                *)
CacheCoherent ==
    \A e \in DOMAIN cache :
        /\ cache[e].r \subseteq Visible
        /\ Eval(K, e, View(cache[e].r)).v = cache[e].v

(* What _build_dep and _add_choice_deps promise: an item is registered as  *)
(* dependent on every other item whose entries one of its computations     *)
(* reads (MODULES apart, which invalidates everything), a user value is    *)
(* read only for a symbol with a prompt, and a choice symbol's only where  *)
(* the symbol is registered with its choice.                               *)
DependentsCoverReads ==
    \A e \in DOMAIN cache : \A r \in cache[e].r :
        /\ \/ ItemOf(r) = ItemOf(e)
           \/ ItemOf(r) = Modules
           \/ ItemOf(e) \in K.dependents[ItemOf(r)]
        /\ AttrOf(r) = "user" =>
              /\ ItemOf(r) = ItemOf(e)
              /\ ItemOf(r) \in K.prompted
              /\ K.choiceOf[ItemOf(r)] # NoItem =>
                    ItemOf(r) \in K.dependents[K.choiceOf[ItemOf(r)]]

(* "_cached_vis ... is calculated as a side effect of calculating all      *)
(* other (non-constant) cached values": where a cached value was computed  *)
(* from anything, the visibility that flags its item as cached is there.   *)
VisibilityFirst ==
    \A e \in DOMAIN cache :
        cache[e].r # {} => <<"vis", ItemOf(e)>> \in DOMAIN cache

(* What _rec_invalidate relies on, of every computation.                   *)
ReadsRegistered == DependentsCoverReads /\ VisibilityFirst

(* Whatever was asked and assigned before, and in which order, a cached    *)
(* value is the value computed from the user values alone.                 *)
ValuesAreFresh ==
    \E fresh \in {Fresh(K, user)} : \A e \in DOMAIN cache : cache[e].v = fresh[e]

-----------------------------------------------------------------------------
(* The user values there can be, and what Fresh has to be: it extends them *)
(* to all attributes so that each is the value of its computation.         *)
Assigned(k, S) == {v \in [S -> (UNION {k.inputs[i] : i \in S}) \cup {Unset}] :
                  \A i \in S : v[i] \in k.inputs[i] \cup {Unset}}

Picks(k) == {p \in [k.choices -> k.syms \cup {NoItem}] :
               \A c \in k.choices : p[c] # NoItem => k.choiceOf[p[c]] = c}

Combined(k, values, modes, picks) ==
    [r \in UserEntries(k) |-> CASE AttrOf(r) = "user" -> values[ItemOf(r)]
                                [] AttrOf(r) = "mode" -> modes[ItemOf(r)]
                                [] AttrOf(r) = "pick" -> picks[ItemOf(r)]]

UserValues(k) == {Combined(k, values, modes, picks) :
                    values \in Assigned(k, k.syms), modes \in Assigned(k, k.choices),
                    picks \in Picks(k)}

Solves(k, u, values) ==
    /\ DOMAIN values = UserEntries(k) \cup CacheEntries(k)
    /\ \A r \in UserEntries(k) : values[r] = u[r]
    /\ \A e \in CacheEntries(k) : Eval(k, e, values).v = values[e]

FreshSolves ==
    \A n \in DOMAIN Kconfigs : \A u \in UserValues(Kconfigs[n]) :
        Solves(Kconfigs[n], u, Fresh(Kconfigs[n], u))
=============================================================================
