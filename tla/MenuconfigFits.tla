---------------------------- MODULE MenuconfigFits ----------------------------
(***************************************************************************)
(* What the properties of Menuconfig ask of the Kconfig files and of the   *)
(* evaluation, each for every user values there can be.  Most of it is so  *)
(* by the way kconfiglib works; MenusShown and ChangesShow are not so for  *)
(* every Kconfig file, and where they are not, menuconfig ends with an     *)
(* exception.                                                              *)
(***************************************************************************)
EXTENDS Menuconfig

(* The lines of the configuration files there can be: those there are at   *)
(* first, those written, and what is left of them.                         *)
FilesFor(k, w) ==
    {ConfigOf(k, w), MinOf(k, w)} \cup LeftOf(k, ConfigOf(k, w)) \cup LeftOf(k, MinOf(k, w))

FilesOf(k) ==
    {Empty} \cup {k.disk[f].lines : f \in DOMAIN k.disk}
    \cup UNION {FilesFor(k, Values(k, u)) : u \in UserValues(k)}

-----------------------------------------------------------------------------
(* Values are valid for their types, and so is what may be assigned with a *)
(* key, which is something for bools and tristates only.                   *)
ValuesFit ==
    \A k \in Kconfigs : \A u \in UserValues(k) : \E w \in {Values(k, u)} :
        /\ \A s \in k.syms : ~IsTri(k, s) => w.of[s].val \in k.texts[s]
        /\ \A i \in Items(k) : w.of[i].asg \subseteq Valued(k, i)
        /\ \A i \in Items(k) : ~IsTri(k, i) => w.of[i].asg = {}
        /\ \A s \in k.syms : k.choiceOf[s] # NoItem /\ w.of[s].vis = 2 /\ IsTri(k, s)
                                => w.of[s].asg # {}

(* A menu shows a list of nodes, and in show-all mode everything it shows  *)
(* otherwise.  The second part is not so for a choice defined in several   *)
(* places that have a symbol in common: with everything shown, the symbol  *)
(* is listed at its first place only.                                      *)
ValuesShown ==
    \A k \in Kconfigs : \A u \in UserValues(k) : \E w \in {Values(k, u)} :
        /\ \A m \in k.menus : \A all \in BOOLEAN : w.shown[<<m, all>>] \in Seq(k.nodes)
        /\ \A m \in k.menus : Range(w.shown[<<m, FALSE>>]) \subseteq Range(w.shown[<<m, TRUE>>])

(* What a menu shows is in it, and in no other menu the interface has: not *)
(* so for a choice defined in several places.                              *)
ShownInside ==
    \A k \in Kconfigs : \A u \in UserValues(k) : \E w \in {Values(k, u)} :
        \A m \in k.menus : \A all \in BOOLEAN : \A n \in Range(w.shown[<<m, all>>]) :
            n # k.top /\ k.menuOf[n] = m

(* Show-all mode lists every node, whatever the values are.                *)
AllShown ==
    \A k \in Kconfigs : \A u \in UserValues(k) : \E w \in {Values(k, u)} :
        \A n \in k.nodes \ {k.top} : n \in Range(w.shown[<<k.menuOf[n], TRUE>>])

(* A menu that has something to show is shown itself: not so for a comment *)
(* in a menu that is hidden by 'visible if'.                               *)
MenusShown ==
    \A k \in Kconfigs : \A u \in UserValues(k) : \E w \in {Values(k, u)} :
        \A m \in k.menus \ {k.top} : w.shown[<<m, FALSE>>] # <<>>
            => m \in Range(w.shown[<<k.menuOf[m], FALSE>>])

(* Changing a node leaves it where it was: no condition reads what it is   *)
(* about.  Not so for a symbol that is shown, without a prompt of its own  *)
(* here, for the sake of nodes below it.                                   *)
Offers(k, w, i) ==
    IF IsTri(k, i) THEN w.of[i].asg ELSE {v \in k.inputs[i] : w.of[i].check[v] = "valid"}

ChangesShow ==
    \A k \in Kconfigs : \A u \in UserValues(k) : \E w \in {Values(k, u)} :
        \A i \in Items(k) : \A v \in Offers(k, w, i) :
            \E x \in {Values(k, SetValue(k, u, i, v))} : \A m \in k.menus :
                \A n \in Range(w.shown[<<m, FALSE>>]) :
                    k.item[n] = i => n \in Range(x.shown[<<m, FALSE>>])

(* The present value of what can be changed is among those it may have,    *)
(* and texts are valid or not.                                             *)
ValuesOffered ==
    \A k \in Kconfigs : \A u \in UserValues(k) : \E w \in {Values(k, u)} :
        \A i \in Items(k) :
            /\ IsTri(k, i) => \/ w.of[i].val \in w.of[i].asg
                              \/ \A v, x \in w.of[i].asg : v = x
            /\ ~IsTri(k, i) =>
                  \A v \in k.inputs[i] : w.of[i].check[v] \in {"valid", "error"}

-----------------------------------------------------------------------------
(* What is saved loads back with every symbol's value, minimal             *)
(* configurations too.                                                     *)
SavedLoadsBack ==
    \A k \in Kconfigs : \A u \in UserValues(k) : \E w \in {Values(k, u)} :
        SameValues(k, Reloaded(k, ConfigOf(k, w)), w)

MinLoadsBack ==
    \A k \in Kconfigs : \A u \in UserValues(k) : \E w \in {Values(k, u)} :
        SameValues(k, Reloaded(k, MinOf(k, w)), w)

(* A file that needs no saving once it is loaded gives the same values     *)
(* whatever the user values were before: what a choice it sets keeps of    *)
(* its old mode and selection does not matter.                             *)
LoadForgets ==
    \A k \in Kconfigs :
        \A lines \in FilesOf(k) : \E x \in {Reloaded(k, lines)} : \A u \in UserValues(k) :
            \E v \in {Loaded(k, u, lines, TRUE)} : \E w \in {Values(k, v)} :
                ~NeedsSave(k, v, w.of, DOMAIN lines \ k.syms) => SameValues(k, x, w)
=============================================================================
