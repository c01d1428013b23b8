---------------------------- MODULE KconfigUser ----------------------------
(***************************************************************************)
(* User values, and the configuration files they are loaded from.          *)
(*                                                                         *)
(* The user values of a Kconfig instance k are a function from UserEntries *)
(* to values: <<"user", s>> for a symbol, <<"mode", c>> and <<"pick", c>>   *)
(* for the user_value and user_selection of a choice.                      *)
(*                                                                         *)
(* The lines of a file are the function from the symbols they are about to *)
(* their values ("# CONFIG_A is not set" gives A the value 0).             *)
(***************************************************************************)
EXTENDS Integers, SequencesExt

CONSTANTS
    NoItem,         \* no user_selection, or no enclosing choice
    Unset           \* None: no user value, no old value

(* A file that is not there, and one that was written whole *)
Empty == [s \in {} |-> 0]
Missing == [there |-> FALSE, lines |-> Empty]
Whole(lines) == [there |-> TRUE, lines |-> lines]

IsTri(k, s) == k.type[s] \in {"bool", "tristate"}

UserEntries(k) == ({"user"} \X k.syms) \cup ({"mode", "pick"} \X k.choices)
NoUser(k) == [r \in UserEntries(k) |-> IF r[1] = "pick" THEN NoItem ELSE Unset]

(* What is left of a file whose write did not end. *)
LeftOf(k, contents) ==
    {[s \in {k.order[i] : i \in 1..n} \cap DOMAIN contents |-> contents[s]] :
        n \in 0..Len(k.order)}

(* Symbol.set_value with a valid value, *)
Assigned(k, u, s, v) ==
    IF k.choiceOf[s] # NoItem /\ v = 2
    THEN [u EXCEPT ![<<"user", s>>] = v, ![<<"pick", k.choiceOf[s]>>] = s]
    ELSE [u EXCEPT ![<<"user", s>>] = v]

(* and Choice.set_value with a valid mode *)
SetValue(k, u, i, v) ==
    IF i \in k.choices THEN [u EXCEPT ![<<"mode", i>>] = v] ELSE Assigned(k, u, i, v)

(* The values set_value takes for the type *)
ValidFor(type, v) == CASE type = "bool" -> v \in {0, 2}
                       [] type = "tristate" -> v \in 0..2
                       [] OTHER -> TRUE

(* The lines of a file in the order it has them, that of k.order: the last *)
(* one about a symbol of S                                                 *)
LastOf(k, S) == k.order[Max({i \in DOMAIN k.order : k.order[i] \in S})]

(* The symbols of a file that _load_config sets, those of them that set the *)
(* mode of a choice, and those that become its selection.                  *)
Taken(k, file) == {s \in k.syms \cap DOMAIN file : ValidFor(k.type[s], file[s])}
Inferring(k, file, c) ==
    {s \in Taken(k, file) : /\ k.choiceOf[s] = c /\ file[s] # 0
                            /\ ValidFor(k.type[c], file[s])}
Picking(k, file, c) == {s \in Taken(k, file) : k.choiceOf[s] = c /\ file[s] = 2}

\* Mutant of LoadedLines: the mode of a choice is not inferred.
LoadedLinesModeless(k, u, file) ==
    [user |-> [r \in UserEntries(k) |->
        CASE r[1] = "user" -> IF r[2] \in Taken(k, file) THEN file[r[2]] ELSE u[r]
          [] r[1] = "mode" -> u[r]
          [] r[1] = "pick" -> IF Picking(k, file, r[2]) = {} THEN u[r]
                              ELSE LastOf(k, Picking(k, file, r[2]))],
     set |-> Taken(k, file) \cup {c \in k.choices : Picking(k, file, c) # {}}]

(* The lines of _load_config, one after the other: the mode of a choice is *)
(* inferred from the values of its symbols.  set holds what got _was_set.  *)
LoadedLines(k, u, file) ==
    [user |-> [r \in UserEntries(k) |->
        CASE r[1] = "user" -> IF r[2] \in Taken(k, file) THEN file[r[2]] ELSE u[r]
          [] r[1] = "mode" -> IF Inferring(k, file, r[2]) = {} THEN u[r]
                              ELSE file[LastOf(k, Inferring(k, file, r[2]))]
          [] r[1] = "pick" -> IF Picking(k, file, r[2]) = {} THEN u[r]
                              ELSE LastOf(k, Picking(k, file, r[2]))],
     set |-> Taken(k, file)
             \cup {c \in k.choices : Inferring(k, file, c) \cup Picking(k, file, c) # {}}]

(* _load_config: replacing, what the file did not set is unset.  A choice  *)
(* that was set keeps what is left of its mode and selection.              *)
Loaded(k, u, file, replace) ==
    LET st == LoadedLines(k, u, file)
    IN [r \in UserEntries(k) |->
            IF replace /\ r[2] \notin st.set THEN NoUser(k)[r] ELSE st.user[r]]

\* Mutant of NeedsSave: a symbol without a user value is not looked at.
NeedsSaveSetOnly(k, user, vals, missing) ==
    \/ missing # {}
    \/ \E s \in k.syms : LET u == user[<<"user", s>>] IN
          u # Unset /\ vals[s].val # u

(* menuconfig's _needs_save, for a configuration just loaded *)
NeedsSave(k, user, vals, missing) ==
    \/ missing # {}
    \/ \E s \in k.syms : LET u == user[<<"user", s>>] IN
          IF u = Unset THEN vals[s].write ELSE vals[s].val # u

-----------------------------------------------------------------------------
(* The values there can be: what a symbol of another type may have is in   *)
(* k.texts, and the user values are every combination.                     *)
Valued(k, i) == IF IsTri(k, i) THEN {v \in 0..2 : ValidFor(k.type[i], v)} ELSE k.texts[i]

Given(k, S) == {v \in [S -> (UNION {Valued(k, i) : i \in S}) \cup {Unset}] :
                  \A i \in S : v[i] \in Valued(k, i) \cup {Unset}}

Picks(k) == {p \in [k.choices -> k.syms \cup {NoItem}] :
               \A c \in k.choices : p[c] # NoItem => k.choiceOf[p[c]] = c}

Combined(k, values, modes, picks) ==
    [r \in UserEntries(k) |-> CASE r[1] = "user" -> values[r[2]]
                                [] r[1] = "mode" -> modes[r[2]]
                                [] r[1] = "pick" -> picks[r[2]]]

UserValues(k) == {Combined(k, values, modes, picks) :
                    values \in Given(k, k.syms), modes \in Given(k, k.choices),
                    picks \in Picks(k)}

(* What the parser leaves of symbols and choices, and lines that are about *)
(* what they may be about                                                  *)
ItemsRight(k) ==
    /\ k.syms \cap k.choices = {} /\ NoItem \notin k.syms \cup k.choices
    /\ k.order \in Seq(Range(k.order)) /\ k.syms \subseteq Range(k.order)
    /\ \A s \in k.syms : k.choiceOf[s] \in k.choices \cup {NoItem}
    /\ \A c \in k.choices : IsTri(k, c)

LinesFit(k, lines) ==
    \A s \in k.syms \cap DOMAIN lines : ~IsTri(k, s) => lines[s] \in k.texts[s]
=============================================================================
