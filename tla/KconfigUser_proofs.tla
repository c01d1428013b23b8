-------------------------- MODULE KconfigUser_proofs --------------------------
(***************************************************************************)
(* User values fit the symbols and choices they are for: what is entered   *)
(* for them, and what is loaded of a file with fitting lines, is again one *)
(* of the user values there can be.                                        *)
(***************************************************************************)
EXTENDS KconfigUser, WellFoundedInduction, TLAPS

(* The least and the greatest of some numbers *)
LEMMA MinOfNats ==
    ASSUME NEW S, S \subseteq Nat, S # {}
    PROVE  Min(S) \in S /\ \A y \in S : Min(S) <= y
<1>1. PICK x \in S : \A y \in S : ~(<<y, x>> \in OpToRel(<, Nat))
  BY NatLessThanWellFounded, WFMin
<1>2. ASSUME NEW y \in S PROVE x <= y
  <2>1. ~(y < x)
    BY <1>1 DEF OpToRel
  <2> QED BY <2>1
<1> QED BY <1>2 DEF Min

LEMMA MaxOfInts ==
    ASSUME NEW n \in Nat, NEW S, S \subseteq 1..n, S # {}
    PROVE  Max(S) \in S
<1> DEFINE T == {n - i : i \in S}
<1>1. T \subseteq Nat /\ T # {}
  <2>1. \A i \in S : n - i \in Nat
    OBVIOUS
  <2> QED BY <2>1
<1>2. Min(T) \in T /\ \A y \in T : Min(T) <= y
  BY <1>1, MinOfNats
<1>3. PICK x \in S : n - x = Min(T)
  BY <1>2
<1>4. ASSUME NEW y \in S PROVE x >= y
  <2>1. n - x <= n - y
    BY <1>2, <1>3
  <2> QED BY <2>1
<1> QED BY <1>4 DEF Max

-----------------------------------------------------------------------------
(* UserValues, entry by entry *)
UserFits(k, u) ==
    /\ u = [r \in UserEntries(k) |-> u[r]]
    /\ \A s \in k.syms : u[<<"user", s>>] \in Valued(k, s) \cup {Unset}
    /\ \A c \in k.choices : u[<<"mode", c>>] \in Valued(k, c) \cup {Unset}
    /\ \A c \in k.choices : \/ u[<<"pick", c>>] = NoItem
                            \/ /\ u[<<"pick", c>>] \in k.syms
                               /\ k.choiceOf[u[<<"pick", c>>]] = c

LEMMA EntriesAre ==
    ASSUME NEW k, NEW r
    PROVE  r \in UserEntries(k) <=> \/ \E s \in k.syms : r = <<"user", s>>
                                    \/ \E c \in k.choices : r = <<"mode", c>>
                                    \/ \E c \in k.choices : r = <<"pick", c>>
  BY DEF UserEntries

LEMMA FittingValues ==
    ASSUME NEW k, NEW u, UserFits(k, u)
    PROVE  u \in UserValues(k)
<1> DEFINE values == [s \in k.syms |-> u[<<"user", s>>]]
           modes == [c \in k.choices |-> u[<<"mode", c>>]]
           picks == [c \in k.choices |-> u[<<"pick", c>>]]
<1>1. ASSUME NEW S, NEW f, f = [i \in S |-> f[i]],
             \A i \in S : f[i] \in Valued(k, i) \cup {Unset}
      PROVE  f \in Given(k, S)
  <2>1. \A i \in S : f[i] \in (UNION {Valued(k, j) : j \in S}) \cup {Unset}
    BY <1>1
  <2> QED BY <1>1, <2>1 DEF Given
<1>2. values \in Given(k, k.syms) /\ modes \in Given(k, k.choices)
  <2>1. \A i \in k.syms : values[i] \in Valued(k, i) \cup {Unset}
    BY DEF UserFits
  <2>2. \A i \in k.choices : modes[i] \in Valued(k, i) \cup {Unset}
    BY DEF UserFits
  <2>3. values = [i \in k.syms |-> values[i]] /\ modes = [i \in k.choices |-> modes[i]]
    OBVIOUS
  <2> HIDE DEF values, modes
  <2> QED BY <1>1, <2>1, <2>2, <2>3
<1>3. picks \in Picks(k)
  BY DEF Picks, UserFits
<1>4. ASSUME NEW r \in UserEntries(k) PROVE u[r] = Combined(k, values, modes, picks)[r]
  BY EntriesAre DEF Combined
<1>5. u = Combined(k, values, modes, picks)
  <2> HIDE DEF values, modes, picks
  <2> QED BY <1>4, Zenon DEF Combined, UserFits
<1> HIDE DEF values, modes, picks
<1> QED BY <1>2, <1>3, <1>5 DEF UserValues

LEMMA ValuesFitting ==
    ASSUME NEW k, NEW u \in UserValues(k)
    PROVE  UserFits(k, u)
<1>1. PICK values \in Given(k, k.syms), modes \in Given(k, k.choices), picks \in Picks(k) :
           u = Combined(k, values, modes, picks)
  BY DEF UserValues
<1>2. u = [r \in UserEntries(k) |-> u[r]]
  <2> DEFINE e(r) == CASE r[1] = "user" -> values[r[2]]
                       [] r[1] = "mode" -> modes[r[2]]
                       [] r[1] = "pick" -> picks[r[2]]
  <2>1. u = [r \in UserEntries(k) |-> e(r)]
    BY <1>1, Zenon DEF Combined
  <2> HIDE DEF e
  <2> QED BY <2>1
<1>3. \A s \in k.syms : u[<<"user", s>>] = values[s]
  BY <1>1, EntriesAre DEF Combined
<1>4. \A c \in k.choices : u[<<"mode", c>>] = modes[c] /\ u[<<"pick", c>>] = picks[c]
  BY <1>1, EntriesAre DEF Combined
<1>5. \A s \in k.syms : values[s] \in Valued(k, s) \cup {Unset}
  BY DEF Given
<1>6. \A c \in k.choices : modes[c] \in Valued(k, c) \cup {Unset}
  BY DEF Given
<1>7. \A c \in k.choices :
          picks[c] \in k.syms \cup {NoItem} /\ (picks[c] # NoItem => k.choiceOf[picks[c]] = c)
  BY DEF Picks
<1> QED BY <1>2, <1>3, <1>4, <1>5, <1>6, <1>7 DEF UserFits

LEMMA NoUserFits == \A k : UserFits(k, NoUser(k))
<1>1. ASSUME NEW k PROVE UserFits(k, NoUser(k))
  <2>1. NoUser(k) = [r \in UserEntries(k) |-> NoUser(k)[r]]
    BY DEF NoUser
  <2>2. \A s \in k.syms : NoUser(k)[<<"user", s>>] = Unset
    BY EntriesAre DEF NoUser
  <2>3. \A c \in k.choices : NoUser(k)[<<"mode", c>>] = Unset
                             /\ NoUser(k)[<<"pick", c>>] = NoItem
    BY EntriesAre DEF NoUser
  <2> QED BY <2>1, <2>2, <2>3 DEF UserFits
<1> QED BY <1>1

(* Changing a value *)
LEMMA SetFits ==
    ASSUME NEW k, ItemsRight(k), NEW u, UserFits(k, u),
           NEW i \in k.syms \cup k.choices, NEW v \in Valued(k, i)
    PROVE  UserFits(k, SetValue(k, u, i, v))
<1>1. CASE i \in k.choices
  <2>1. SetValue(k, u, i, v) = [u EXCEPT ![<<"mode", i>>] = v]
    BY <1>1 DEF SetValue
  <2> QED BY <1>1, <2>1 DEF UserFits, UserEntries
<1>2. CASE i \notin k.choices
  <2> DEFINE c == k.choiceOf[i]
             set == [u EXCEPT ![<<"user", i>>] = v]
  <2>1. i \in k.syms
    BY <1>2
  <2>2. UserFits(k, set)
    BY <2>1 DEF UserFits, UserEntries
  <2>3. CASE c # NoItem /\ v = 2
    <3>1. SetValue(k, u, i, v) = [set EXCEPT ![<<"pick", c>>] = i]
      BY <1>2, <2>3 DEF SetValue, Assigned, UserFits
    <3>2. c \in k.choices
      BY <2>1, <2>3 DEF ItemsRight
    <3> HIDE DEF set
    <3> DEFINE new == [set EXCEPT ![<<"pick", c>>] = i]
    <3>3. new = [r \in UserEntries(k) |-> new[r]]
      BY <2>2 DEF UserFits
    <3>4. \A s \in k.syms : new[<<"user", s>>] = set[<<"user", s>>]
      BY <2>2 DEF UserFits, UserEntries
    <3>5. \A d \in k.choices : /\ new[<<"mode", d>>] = set[<<"mode", d>>]
                               /\ d # c => new[<<"pick", d>>] = set[<<"pick", d>>]
      BY <2>2 DEF UserFits, UserEntries
    <3>6. new[<<"pick", c>>] = i
      BY <2>2, <3>2 DEF UserFits, UserEntries
    <3> HIDE DEF new
    <3>7. UserFits(k, new)
      BY <2>1, <2>2, <3>3, <3>4, <3>5, <3>6 DEF UserFits
    <3> QED BY <3>1, <3>7 DEF new
  <2>4. CASE ~(c # NoItem /\ v = 2)
    <3>1. SetValue(k, u, i, v) = set
      BY <1>2, <2>4 DEF SetValue, Assigned
    <3> QED BY <2>2, <3>1
  <2> QED BY <2>3, <2>4
<1> QED BY <1>1, <1>2

(* Loading a file *)
LEMMA LastOfIn ==
    ASSUME NEW k, ItemsRight(k), NEW S, S \subseteq k.syms, S # {}
    PROVE  LastOf(k, S) \in S
<1> DEFINE places == {i \in DOMAIN k.order : k.order[i] \in S}
<1>1. /\ k.order \in Seq(Range(k.order)) /\ k.syms \subseteq Range(k.order)
      /\ DOMAIN k.order = 1..Len(k.order) /\ Len(k.order) \in Nat
  BY DEF ItemsRight
<1>2. places # {}
  BY <1>1 DEF Range
<1>3. places \subseteq 1..Len(k.order)
  BY <1>1
<1>4. Max(places) \in places
  BY <1>1, <1>2, <1>3, MaxOfInts
<1> QED BY <1>4 DEF LastOf

LEMMA LoadedFits ==
    ASSUME NEW k, ItemsRight(k), NEW u, UserFits(k, u),
           NEW lines, NEW replace, LinesFit(k, lines)
    PROVE  UserFits(k, Loaded(k, u, lines, replace))
<1> DEFINE taken == Taken(k, lines)
           v == Loaded(k, u, lines, replace)
           read == LoadedLines(k, u, lines)
<1>1. ASSUME NEW s \in taken PROVE s \in k.syms /\ lines[s] \in Valued(k, s)
  <2>1. s \in k.syms \cap DOMAIN lines /\ ValidFor(k.type[s], lines[s])
    BY DEF Taken
  <2>2. CASE IsTri(k, s)
    BY <2>1, <2>2 DEF IsTri, ValidFor, Valued
  <2>3. CASE ~IsTri(k, s)
    BY <2>1, <2>3 DEF LinesFit, Valued
  <2> QED BY <2>1, <2>2, <2>3
<1>2. ASSUME NEW c \in k.choices, Inferring(k, lines, c) # {}
      PROVE  lines[LastOf(k, Inferring(k, lines, c))] \in Valued(k, c)
  <2>1. Inferring(k, lines, c) \subseteq k.syms
    BY <1>1 DEF Inferring
  <2>2. PICK s \in Inferring(k, lines, c) : s = LastOf(k, Inferring(k, lines, c))
    BY <1>2, <2>1, LastOfIn
  <2>3. IsTri(k, c) /\ ValidFor(k.type[c], lines[s])
    BY <2>2 DEF ItemsRight, Inferring
  <2>4. lines[s] \in Valued(k, c)
    BY <2>3 DEF IsTri, ValidFor, Valued
  <2> QED BY <2>2, <2>4
<1>3. ASSUME NEW c \in k.choices, Picking(k, lines, c) # {}
      PROVE  /\ LastOf(k, Picking(k, lines, c)) \in k.syms
             /\ k.choiceOf[LastOf(k, Picking(k, lines, c))] = c
  <2>1. Picking(k, lines, c) \subseteq k.syms
    BY <1>1 DEF Picking
  <2>2. LastOf(k, Picking(k, lines, c)) \in Picking(k, lines, c)
    BY <1>3, <2>1, LastOfIn
  <2> QED BY <2>1, <2>2 DEF Picking
<1>4. v = [r \in UserEntries(k) |->
              IF replace /\ r[2] \notin read.set THEN NoUser(k)[r] ELSE read.user[r]]
  BY DEF Loaded
<1>5. ASSUME NEW s \in k.syms PROVE v[<<"user", s>>] \in Valued(k, s) \cup {Unset}
  <2>1. <<"user", s>> \in UserEntries(k)
    BY EntriesAre
  <2>2. NoUser(k)[<<"user", s>>] = Unset
    BY <2>1 DEF NoUser
  <2>3. read.user[<<"user", s>>] = IF s \in taken THEN lines[s] ELSE u[<<"user", s>>]
    BY <2>1 DEF LoadedLines
  <2>4. v[<<"user", s>>] = IF replace /\ s \notin read.set THEN Unset
                          ELSE read.user[<<"user", s>>]
    BY <1>4, <2>1, <2>2
  <2> HIDE DEF v, read, taken
  <2> QED BY <1>1, <2>3, <2>4 DEF UserFits
<1>6. ASSUME NEW c \in k.choices
      PROVE  /\ v[<<"mode", c>>] \in Valued(k, c) \cup {Unset}
             /\ \/ v[<<"pick", c>>] = NoItem
                \/ v[<<"pick", c>>] \in k.syms /\ k.choiceOf[v[<<"pick", c>>]] = c
  <2>1. <<"mode", c>> \in UserEntries(k) /\ <<"pick", c>> \in UserEntries(k)
    BY EntriesAre
  <2>2. NoUser(k)[<<"mode", c>>] = Unset /\ NoUser(k)[<<"pick", c>>] = NoItem
    BY <2>1 DEF NoUser
  <2>3. read.user[<<"mode", c>>] = IF Inferring(k, lines, c) = {} THEN u[<<"mode", c>>]
                                   ELSE lines[LastOf(k, Inferring(k, lines, c))]
    BY <2>1 DEF LoadedLines
  <2>4. read.user[<<"pick", c>>] = IF Picking(k, lines, c) = {} THEN u[<<"pick", c>>]
                                   ELSE LastOf(k, Picking(k, lines, c))
    BY <2>1 DEF LoadedLines
  <2>5. /\ v[<<"mode", c>>] = IF replace /\ c \notin read.set THEN Unset
                             ELSE read.user[<<"mode", c>>]
        /\ v[<<"pick", c>>] = IF replace /\ c \notin read.set THEN NoItem
                             ELSE read.user[<<"pick", c>>]
    BY <1>4, <2>1, <2>2
  <2> HIDE DEF v, read, taken
  <2> QED BY <1>2, <1>3, <2>3, <2>4, <2>5 DEF UserFits
<1>7. v = [r \in UserEntries(k) |-> v[r]]
  <2> DEFINE e(r) == IF replace /\ r[2] \notin read.set THEN NoUser(k)[r]
                     ELSE read.user[r]
  <2>1. v = [r \in UserEntries(k) |-> e(r)]
    BY <1>4
  <2> HIDE DEF e, v
  <2> QED BY <2>1
<1> HIDE DEF v
<1>8. UserFits(k, v)
  BY <1>5, <1>6, <1>7 DEF UserFits
<1> QED BY <1>8 DEF v
=============================================================================
