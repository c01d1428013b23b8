--------------------------- MODULE Menuconfig_proofs ---------------------------
(***************************************************************************)
(* menuconfig for every Kconfig instance, every terminal and every         *)
(* sequence of keys: the selected row is on the screen, no change is given *)
(* up unasked, the rows remembered on the way down are those of menus      *)
(* above, and no key ends the program with an exception.  All four build   *)
(* on Inv, that the display lists what is to be shown and selects in it,   *)
(* and on Data, that the user values are such as can be given and the      *)
(* files such as can be written.  The hypotheses on the Kconfig files and  *)
(* their evaluation are those of MenuconfigFits.                           *)
(***************************************************************************)
EXTENDS MenuconfigFits, KconfigUser_proofs

-----------------------------------------------------------------------------
(* The place of a node in a list *)

LEMMA IndexFound ==
    ASSUME NEW T, NEW list \in Seq(T), NEW n \in Range(list)
    PROVE  /\ Index(list, n) \in 0..(Len(list) - 1)
           /\ list[Index(list, n) + 1] = n
<1> DEFINE S == {i \in 0..(Len(list) - 1) : list[i + 1] = n}
<1>1. PICK j \in 1..Len(list) : list[j] = n
  BY DEF Range
<1>2. j - 1 \in S
  BY <1>1
<1>3. S \subseteq Nat
  BY DEF S
<1>4. Min(S) \in S
  BY <1>2, <1>3, MinOfNats
<1>5. Index(list, n) = Min(S)
  BY DEF Index
<1> QED BY <1>4, <1>5

-----------------------------------------------------------------------------
LEMMA RightItems == \A k \in Kconfigs : ItemsRight(k)
BY ItemsAssumption

(* The files there can be have lines about what they may be about. *)
LEMMA FilesFit ==
    ASSUME ValuesFit, NEW k \in Kconfigs, NEW lines \in FilesOf(k)
    PROVE  LinesFit(k, lines)
<1>1. CASE lines = Empty
  BY <1>1 DEF LinesFit, Empty
<1>2. CASE \E f \in DOMAIN k.disk : lines = k.disk[f].lines
  BY <1>2, ItemsAssumption DEF LinesFit
<1>3. ASSUME NEW u \in UserValues(k), NEW w, w = Values(k, u)
      PROVE  LinesFit(k, ConfigOf(k, w)) /\ LinesFit(k, MinOf(k, w))
  <2>1. \A s \in k.syms : ~IsTri(k, s) => w.of[s].val \in k.texts[s]
    BY <1>3 DEF ValuesFit
  <2> QED BY <2>1 DEF LinesFit, ConfigOf, MinOf
<1>4. ASSUME NEW contents, LinesFit(k, contents), NEW left \in LeftOf(k, contents)
      PROVE  LinesFit(k, left)
  <2>1. PICK S : left = [s \in S \cap DOMAIN contents |-> contents[s]]
    BY DEF LeftOf
  <2> QED BY <1>4, <2>1 DEF LinesFit
<1>5. CASE lines \in UNION {FilesFor(k, Values(k, u)) : u \in UserValues(k)}
  <2>1. PICK u \in UserValues(k) : lines \in FilesFor(k, Values(k, u))
    BY <1>5
  <2>2. PICK w : w = Values(k, u)
    OBVIOUS
  <2>3. lines \in {ConfigOf(k, w), MinOf(k, w)} \/ lines \in LeftOf(k, ConfigOf(k, w))
        \/ lines \in LeftOf(k, MinOf(k, w))
    BY <2>1, <2>2 DEF FilesFor
  <2> QED BY <1>3, <1>4, <2>2, <2>3
<1> QED BY <1>1, <1>2, <1>5 DEF FilesOf

-----------------------------------------------------------------------------
(* What a screen is, and a list of matches *)
Screens ==
    [menu : kconf.menus, shown : Seq(kconf.nodes), sel : Nat, scroll : Nat,
     rows : Seq(Nat), all : BOOLEAN, lost : BOOLEAN]
MatchLists ==
    [matches : Seq(kconf.nodes \ {kconf.top}), sel : Nat, scroll : Nat,
     height : Nat \ {0}]

(* The selected row is in a window of height h. *)
InWindow(x, h) == x.scroll <= x.sel /\ x.sel < x.scroll + h

(* x shows what its menu has under the values w; or a lookup has failed. *)
Listing(x, w) ==
    x \in Screens /\ x.shown = w.shown[<<x.menu, x.all>>] /\ x.sel < Len(x.shown)
Sound(x, w, h) == (x \in Screens /\ x.lost) \/ (Listing(x, w) /\ InWindow(x, h))

(* w has the lists of menus ValuesShown speaks of. *)
ListsMenus(w) ==
    /\ \A m \in kconf.menus : \A all \in BOOLEAN : w.shown[<<m, all>>] \in Seq(kconf.nodes)
    /\ \A m \in kconf.menus :
          Range(w.shown[<<m, FALSE>>]) \subseteq Range(w.shown[<<m, TRUE>>])

LEMMA ValuesListMenus ==
    ASSUME ValuesShown, kconf \in Kconfigs, NEW u \in UserValues(kconf)
    PROVE  ListsMenus(Values(kconf, u))
  BY DEF ValuesShown, ListsMenus

LEMMA ShownInType ==
    ASSUME NEW w, ListsMenus(w), NEW m \in kconf.menus, NEW all \in BOOLEAN
    PROVE  ShownIn(m, all, w) \in Seq(kconf.nodes)
  BY DEF ListsMenus, ShownIn

(* The arrow keys keep the selected row in the window. *)
LEMMA NextInWindow ==
    ASSUME NEW x \in Screens \cup MatchLists, NEW T, NEW list \in Seq(T), NEW h \in Nat \ {0},
           x.sel < Len(list), InWindow(x, h)
    PROVE  /\ SelectNext(x, list, h).sel < Len(list)
           /\ InWindow(SelectNext(x, list, h), h)
  BY SizesAssumption DEF Screens, MatchLists, InWindow, SelectNext, MaxScroll, Max2

(* What stays as it is when only the selection moves *)
SameList(x, y) ==
    y.menu = x.menu /\ y.shown = x.shown /\ y.all = x.all /\ y.rows = x.rows /\ y.lost = x.lost
SameMatches(x, y) == y.matches = x.matches /\ y.height = x.height

Moved(x, i, j) == [x EXCEPT !.sel = i, !.scroll = j]

LEMMA MovedScreen ==
    ASSUME NEW x \in Screens, NEW i \in Nat, NEW j \in Nat
    PROVE  /\ Moved(x, i, j) \in Screens /\ SameList(x, Moved(x, i, j))
           /\ Moved(x, i, j).sel = i /\ Moved(x, i, j).scroll = j
  BY DEF Screens, Moved, SameList

LEMMA MovedMatches ==
    ASSUME NEW x \in MatchLists, NEW i \in Nat, NEW j \in Nat
    PROVE  /\ Moved(x, i, j) \in MatchLists /\ SameMatches(x, Moved(x, i, j))
           /\ Moved(x, i, j).sel = i /\ Moved(x, i, j).scroll = j
  BY DEF MatchLists, Moved, SameMatches

LEMMA NextMoves ==
    ASSUME NEW x, x.sel \in Nat, x.scroll \in Nat, NEW list, NEW h
    PROVE  SelectNext(x, list, h) = x
           \/ \E i, j \in Nat : SelectNext(x, list, h) = Moved(x, i, j)
<1> DEFINE j == IF /\ x.sel + 1 >= x.scroll + h - ScrollOffset
                   /\ x.scroll < MaxScroll(list, h) THEN x.scroll + 1 ELSE x.scroll
<1>1. j \in Nat
  OBVIOUS
<1>2. SelectNext(x, list, h) = x \/ SelectNext(x, list, h) = Moved(x, x.sel + 1, j)
  BY Zenon DEF SelectNext, Moved
<1> QED BY <1>1, <1>2

LEMMA NextType ==
    ASSUME NEW list, NEW h
    PROVE  /\ \A x \in MatchLists : /\ SelectNext(x, list, h) \in MatchLists
                                    /\ SameMatches(x, SelectNext(x, list, h))
           /\ \A x \in Screens : /\ SelectNext(x, list, h) \in Screens
                                 /\ SameList(x, SelectNext(x, list, h))
<1>1. ASSUME NEW x \in MatchLists
      PROVE  SelectNext(x, list, h) \in MatchLists /\ SameMatches(x, SelectNext(x, list, h))
  <2>1. x.sel \in Nat /\ x.scroll \in Nat
    BY DEF MatchLists
  <2>2. CASE SelectNext(x, list, h) = x
    BY <2>2 DEF SameMatches
  <2>3. CASE \E i, j \in Nat : SelectNext(x, list, h) = Moved(x, i, j)
    BY <2>3, MovedMatches
  <2> QED BY <2>1, <2>2, <2>3, NextMoves
<1>2. ASSUME NEW x \in Screens
      PROVE  SelectNext(x, list, h) \in Screens /\ SameList(x, SelectNext(x, list, h))
  <2>1. x.sel \in Nat /\ x.scroll \in Nat
    BY DEF Screens
  <2>2. CASE SelectNext(x, list, h) = x
    BY <2>2 DEF SameList
  <2>3. CASE \E i, j \in Nat : SelectNext(x, list, h) = Moved(x, i, j)
    BY <2>3, MovedScreen
  <2> QED BY <2>1, <2>2, <2>3, NextMoves
<1> QED BY <1>1, <1>2

LEMMA PrevInWindow ==
    ASSUME NEW x \in Screens \cup MatchLists, NEW h \in Nat \ {0}, InWindow(x, h)
    PROVE  SelectPrev(x).sel <= x.sel /\ InWindow(SelectPrev(x), h)
  BY SizesAssumption DEF Screens, MatchLists, InWindow, SelectPrev, Max2

LEMMA PrevMoves ==
    ASSUME NEW x, x.sel \in Nat, x.scroll \in Nat
    PROVE  SelectPrev(x) = x \/ \E i, j \in Nat : SelectPrev(x) = Moved(x, i, j)
<1> DEFINE j == IF x.sel - 1 < x.scroll + ScrollOffset THEN Max2(x.scroll - 1, 0) ELSE x.scroll
<1>1. j \in Nat
  BY DEF Max2
<1>2. SelectPrev(x) = x \/ (x.sel - 1 \in Nat /\ SelectPrev(x) = Moved(x, x.sel - 1, j))
  <2>1. CASE x.sel <= 0
    BY <2>1 DEF SelectPrev
  <2>2. CASE ~(x.sel <= 0)
    <3>1. x.sel - 1 \in Nat
      BY <2>2
    <3>2. SelectPrev(x) = Moved(x, x.sel - 1, j)
      BY <2>2, Zenon DEF SelectPrev, Moved
    <3> QED BY <3>1, <3>2
  <2> QED BY <2>1, <2>2
<1> QED BY <1>1, <1>2

LEMMA PrevType ==
    /\ \A x \in MatchLists : SelectPrev(x) \in MatchLists /\ SameMatches(x, SelectPrev(x))
    /\ \A x \in Screens : SelectPrev(x) \in Screens /\ SameList(x, SelectPrev(x))
<1>1. ASSUME NEW x \in MatchLists
      PROVE  SelectPrev(x) \in MatchLists /\ SameMatches(x, SelectPrev(x))
  <2>1. x.sel \in Nat /\ x.scroll \in Nat
    BY DEF MatchLists
  <2>2. CASE SelectPrev(x) = x
    BY <2>2 DEF SameMatches
  <2>3. CASE \E i, j \in Nat : SelectPrev(x) = Moved(x, i, j)
    BY <2>3, MovedMatches
  <2> QED BY <2>1, <2>2, <2>3, PrevMoves
<1>2. ASSUME NEW x \in Screens
      PROVE  SelectPrev(x) \in Screens /\ SameList(x, SelectPrev(x))
  <2>1. x.sel \in Nat /\ x.scroll \in Nat
    BY DEF Screens
  <2>2. CASE SelectPrev(x) = x
    BY <2>2 DEF SameList
  <2>3. CASE \E i, j \in Nat : SelectPrev(x) = Moved(x, i, j)
    BY <2>3, MovedScreen
  <2> QED BY <2>1, <2>2, <2>3, PrevMoves
<1> QED BY <1>1, <1>2

(* End and Home *)
LEMMA EndsInWindow ==
    ASSUME NEW T, NEW list \in Seq(T), NEW h \in Nat \ {0}, Len(list) # 0
    PROVE  /\ \A x \in Screens :
                /\ SelectLast(x, list, h) \in Screens /\ SameList(x, SelectLast(x, list, h))
                /\ SelectLast(x, list, h).sel < Len(list)
                /\ InWindow(SelectLast(x, list, h), h)
           /\ \A x \in MatchLists :
                /\ SelectLast(x, list, h) \in MatchLists
                /\ SameMatches(x, SelectLast(x, list, h))
                /\ SelectLast(x, list, h).sel < Len(list)
                /\ InWindow(SelectLast(x, list, h), h)
           /\ \A x \in Screens :
                /\ SelectFirst(x) \in Screens /\ SameList(x, SelectFirst(x))
                /\ SelectFirst(x).sel < Len(list) /\ InWindow(SelectFirst(x), h)
           /\ \A x \in MatchLists :
                /\ SelectFirst(x) \in MatchLists /\ SameMatches(x, SelectFirst(x))
                /\ SelectFirst(x).sel < Len(list) /\ InWindow(SelectFirst(x), h)
<1>1. Len(list) - 1 \in Nat /\ MaxScroll(list, h) \in Nat
  BY DEF MaxScroll, Max2
<1>2. PICK n \in Nat, m \in Nat : n = Len(list) - 1 /\ m = MaxScroll(list, h)
  BY <1>1
<1>3. m <= n /\ n < m + h /\ n < Len(list) /\ 0 < Len(list)
  BY <1>2 DEF MaxScroll, Max2
<1>4. \A x : SelectLast(x, list, h) = Moved(x, n, m) /\ SelectFirst(x) = Moved(x, 0, 0)
  BY <1>2 DEF SelectLast, SelectFirst, Moved
<1>5. ASSUME NEW x \in Screens
      PROVE  /\ SelectLast(x, list, h) \in Screens /\ SameList(x, SelectLast(x, list, h))
             /\ SelectLast(x, list, h).sel < Len(list)
             /\ InWindow(SelectLast(x, list, h), h)
             /\ SelectFirst(x) \in Screens /\ SameList(x, SelectFirst(x))
             /\ SelectFirst(x).sel < Len(list) /\ InWindow(SelectFirst(x), h)
  <2> DEFINE last == Moved(x, n, m)
             first == Moved(x, 0, 0)
  <2>1. /\ last \in Screens /\ SameList(x, last)
        /\ last.sel = n /\ last.scroll = m
    BY MovedScreen
  <2>2. first \in Screens /\ SameList(x, first) /\ first.sel = 0 /\ first.scroll = 0
    BY MovedScreen
  <2>3. last.sel < Len(list) /\ InWindow(last, h)
    BY <1>3, <2>1 DEF InWindow
  <2>4. first.sel < Len(list) /\ InWindow(first, h)
    BY <1>3, <2>2 DEF InWindow
  <2> HIDE DEF last, first
  <2>5. SelectLast(x, list, h) = last /\ SelectFirst(x) = first
    BY <1>4, Zenon DEF last, first
  <2> QED BY <2>1, <2>2, <2>3, <2>4, <2>5
<1>6. ASSUME NEW x \in MatchLists
      PROVE  /\ SelectLast(x, list, h) \in MatchLists /\ SameMatches(x, SelectLast(x, list, h))
             /\ SelectLast(x, list, h).sel < Len(list)
             /\ InWindow(SelectLast(x, list, h), h)
             /\ SelectFirst(x) \in MatchLists /\ SameMatches(x, SelectFirst(x))
             /\ SelectFirst(x).sel < Len(list) /\ InWindow(SelectFirst(x), h)
  <2> DEFINE last == Moved(x, n, m)
             first == Moved(x, 0, 0)
  <2>1. /\ last \in MatchLists /\ SameMatches(x, last)
        /\ last.sel = n /\ last.scroll = m
    BY MovedMatches
  <2>2. first \in MatchLists /\ SameMatches(x, first) /\ first.sel = 0 /\ first.scroll = 0
    BY MovedMatches
  <2>3. last.sel < Len(list) /\ InWindow(last, h)
    BY <1>3, <2>1 DEF InWindow
  <2>4. first.sel < Len(list) /\ InWindow(first, h)
    BY <1>3, <2>2 DEF InWindow
  <2> HIDE DEF last, first
  <2>5. SelectLast(x, list, h) = last /\ SelectFirst(x) = first
    BY <1>4, Zenon DEF last, first
  <2> QED BY <2>1, <2>2, <2>3, <2>4, <2>5
<1> QED BY <1>5, <1>6

Scrolled(x, j) == [x EXCEPT !.scroll = j]

LEMMA ScrolledType ==
    ASSUME NEW j \in Nat
    PROVE  /\ \A x \in Screens : /\ Scrolled(x, j) \in Screens /\ SameList(x, Scrolled(x, j))
                                 /\ Scrolled(x, j).sel = x.sel /\ Scrolled(x, j).scroll = j
           /\ \A x \in MatchLists :
                /\ Scrolled(x, j) \in MatchLists /\ SameMatches(x, Scrolled(x, j))
                /\ Scrolled(x, j).sel = x.sel /\ Scrolled(x, j).scroll = j
<1>1. ASSUME NEW x \in Screens
      PROVE  /\ Scrolled(x, j) \in Screens /\ SameList(x, Scrolled(x, j))
             /\ Scrolled(x, j).sel = x.sel /\ Scrolled(x, j).scroll = j
  BY DEF Screens, Scrolled, SameList
<1>2. ASSUME NEW x \in MatchLists
      PROVE  /\ Scrolled(x, j) \in MatchLists /\ SameMatches(x, Scrolled(x, j))
             /\ Scrolled(x, j).sel = x.sel /\ Scrolled(x, j).scroll = j
  BY DEF MatchLists, Scrolled, SameMatches
<1> QED BY <1>1, <1>2

(* A resized window has the selected row scrolled into it. *)
LEMMA FitInWindow ==
    ASSUME NEW h \in Nat \ {0}
    PROVE  /\ \A x \in Screens : /\ Fit(x, h) \in Screens /\ SameList(x, Fit(x, h))
                                 /\ Fit(x, h).sel = x.sel
                                 /\ x.scroll <= x.sel => InWindow(Fit(x, h), h)
           /\ \A x \in MatchLists : /\ Fit(x, h) \in MatchLists /\ SameMatches(x, Fit(x, h))
                                    /\ Fit(x, h).sel = x.sel
                                    /\ x.scroll <= x.sel => InWindow(Fit(x, h), h)
<1>1. ASSUME NEW x, x.sel \in Nat, x.scroll \in Nat
      PROVE  \/ Fit(x, h) = x /\ (x.scroll <= x.sel => InWindow(x, h))
             \/ /\ x.sel - h + 1 \in Nat /\ Fit(x, h) = Scrolled(x, x.sel - h + 1)
                /\ x.sel < (x.sel - h + 1) + h /\ x.sel - h + 1 <= x.sel
  <2>1. CASE x.sel - x.scroll >= h
    <3>1. Fit(x, h) = Scrolled(x, x.sel - h + 1)
      BY <2>1, Zenon DEF Fit, Scrolled
    <3>2. x.sel - h + 1 \in Nat /\ x.sel < (x.sel - h + 1) + h /\ x.sel - h + 1 <= x.sel
      BY <1>1, <2>1
    <3> QED BY <3>1, <3>2
  <2>2. CASE ~(x.sel - x.scroll >= h)
    <3>1. Fit(x, h) = x
      BY <2>2, Zenon DEF Fit
    <3>2. x.scroll <= x.sel => InWindow(x, h)
      BY <1>1, <2>2 DEF InWindow
    <3> QED BY <3>1, <3>2
  <2> QED BY <2>1, <2>2
<1>2. ASSUME NEW x \in Screens
      PROVE  /\ Fit(x, h) \in Screens /\ SameList(x, Fit(x, h))
             /\ Fit(x, h).sel = x.sel
             /\ x.scroll <= x.sel => InWindow(Fit(x, h), h)
  <2>1. x.sel \in Nat /\ x.scroll \in Nat
    BY DEF Screens
  <2>2. CASE Fit(x, h) = x /\ (x.scroll <= x.sel => InWindow(x, h))
    BY <2>2 DEF SameList
  <2>3. CASE /\ x.sel - h + 1 \in Nat /\ Fit(x, h) = Scrolled(x, x.sel - h + 1)
             /\ x.sel < (x.sel - h + 1) + h /\ x.sel - h + 1 <= x.sel
    <3>1. /\ Fit(x, h) \in Screens /\ SameList(x, Fit(x, h))
          /\ Fit(x, h).sel = x.sel /\ Fit(x, h).scroll = x.sel - h + 1
      BY <2>3, ScrolledType
    <3> QED BY <2>3, <3>1 DEF InWindow
  <2> QED BY <1>1, <2>1, <2>2, <2>3
<1>3. ASSUME NEW x \in MatchLists
      PROVE  /\ Fit(x, h) \in MatchLists /\ SameMatches(x, Fit(x, h))
             /\ Fit(x, h).sel = x.sel
             /\ x.scroll <= x.sel => InWindow(Fit(x, h), h)
  <2>1. x.sel \in Nat /\ x.scroll \in Nat
    BY DEF MatchLists
  <2>2. CASE Fit(x, h) = x /\ (x.scroll <= x.sel => InWindow(x, h))
    BY <2>2 DEF SameMatches
  <2>3. CASE /\ x.sel - h + 1 \in Nat /\ Fit(x, h) = Scrolled(x, x.sel - h + 1)
             /\ x.sel < (x.sel - h + 1) + h /\ x.sel - h + 1 <= x.sel
    <3>1. /\ Fit(x, h) \in MatchLists /\ SameMatches(x, Fit(x, h))
          /\ Fit(x, h).sel = x.sel /\ Fit(x, h).scroll = x.sel - h + 1
      BY <2>3, ScrolledType
    <3> QED BY <2>3, <3>1 DEF InWindow
  <2> QED BY <1>1, <2>1, <2>2, <2>3
<1> QED BY <1>2, <1>3

LEMMA CenterInWindow ==
    ASSUME NEW x \in Screens, NEW h \in Nat \ {0}
    PROVE  /\ Center(x, h) \in Screens /\ SameList(x, Center(x, h))
           /\ Center(x, h).sel = x.sel
           /\ x.sel < Len(x.shown) => InWindow(Center(x, h), h)
<1> DEFINE j == Min2(Max2(x.sel - h \div 2, 0), MaxScroll(x.shown, h))
<1>1. x.sel \in Nat /\ Len(x.shown) \in Nat
  BY DEF Screens
<1>2. j \in Nat /\ j <= x.sel /\ (x.sel < Len(x.shown) => x.sel < j + h)
  BY <1>1 DEF MaxScroll, Min2, Max2
<1>3. Center(x, h) = Scrolled(x, j)
  BY DEF Center, Scrolled
<1> HIDE DEF j
<1> QED BY <1>2, <1>3, ScrolledType DEF InWindow

LEMMA OnRowInWindow ==
    ASSUME NEW x \in Screens, NEW i \in Nat, NEW row \in Int, NEW h \in Nat \ {0}
    PROVE  /\ SelectOnRow(x, i, row) \in Screens /\ SameList(x, SelectOnRow(x, i, row))
           /\ SelectOnRow(x, i, row).sel = i
           /\ 0 <= row /\ row < h => InWindow(SelectOnRow(x, i, row), h)
<1>1. Max2(i - row, 0) \in Nat
  BY DEF Max2
<1>2. SelectOnRow(x, i, row) = Moved(x, i, Max2(i - row, 0))
  BY DEF SelectOnRow, Moved
<1>3. 0 <= row /\ row < h => Max2(i - row, 0) <= i /\ i < Max2(i - row, 0) + h
  BY DEF Max2
<1>4. /\ Moved(x, i, Max2(i - row, 0)) \in Screens
      /\ SameList(x, Moved(x, i, Max2(i - row, 0)))
      /\ Moved(x, i, Max2(i - row, 0)).sel = i
      /\ Moved(x, i, Max2(i - row, 0)).scroll = Max2(i - row, 0)
  BY <1>1, MovedScreen
<1> QED BY <1>2, <1>3, <1>4 DEF InWindow

-----------------------------------------------------------------------------
(* Menus *)

LEMMA LostSound ==
    ASSUME NEW x \in Screens, NEW w, NEW h
    PROVE  Sound(Lost(x), w, h)
<1>1. Lost(x) \in Screens /\ Lost(x).lost
  BY DEF Screens, Lost
<1> QED BY <1>1 DEF Sound

(* The selected node in a new list of the same menu, on the same row *)
LEMMA ReselectSound ==
    ASSUME NEW w, ListsMenus(w), NEW h \in Nat \ {0},
           NEW y \in Screens, y.shown = w.shown[<<y.menu, y.all>>],
           NEW n \in Range(y.shown), NEW row \in Int
    PROVE  /\ Listing(SelectOnRow(y, Index(y.shown, n), row), w)
           /\ 0 <= row /\ row < h => InWindow(SelectOnRow(y, Index(y.shown, n), row), h)
<1>1. y.shown \in Seq(kconf.nodes)
  BY DEF Screens
<1>2. Index(y.shown, n) \in 0..(Len(y.shown) - 1)
  BY <1>1, IndexFound
<1>3. PICK i \in Nat : i = Index(y.shown, n)
  BY <1>2
<1>4. i < Len(y.shown)
  BY <1>1, <1>2, <1>3
<1> DEFINE z == SelectOnRow(y, i, row)
<1>5. /\ z \in Screens /\ SameList(y, z) /\ z.sel = i
      /\ 0 <= row /\ row < h => InWindow(z, h)
  BY OnRowInWindow
<1>6. Listing(z, w)
  BY <1>4, <1>5 DEF Listing, SameList
<1> QED BY <1>3, <1>5, <1>6

(* A changed value leaves the selected node on the screen, or raises. *)
LEMMA UpdateSound ==
    ASSUME NEW w, ListsMenus(w), NEW h \in Nat \ {0},
           NEW x \in Screens, x.sel < Len(x.shown), InWindow(x, h)
    PROVE  Sound(UpdateMenu(x, w), w, h)
<1> DEFINE shown == ShownIn(x.menu, x.all, w)
           n == x.shown[x.sel + 1]
           y == [x EXCEPT !.shown = shown]
<1>1. x.menu \in kconf.menus /\ x.all \in BOOLEAN
  BY DEF Screens
<1>2. shown \in Seq(kconf.nodes)
  BY <1>1, ShownInType
<1>3. CASE n \notin Range(shown)
  <2>1. UpdateMenu(x, w) = Lost(x)
    BY <1>3 DEF UpdateMenu, UpdateTo
  <2> QED BY <2>1, LostSound
<1>4. CASE n \in Range(shown)
  <2>1. /\ y \in Screens /\ y.shown = shown
        /\ y.menu = x.menu /\ y.all = x.all
    BY <1>2 DEF Screens
  <2>2. y.shown = w.shown[<<y.menu, y.all>>]
    BY <2>1 DEF ShownIn
  <2>3. PICK row \in Int : row = x.sel - x.scroll
    BY DEF Screens
  <2>4. 0 <= row /\ row < h
    BY <2>3 DEF Screens, InWindow
  <2>5. UpdateMenu(x, w) = SelectOnRow(y, Index(y.shown, n), row)
    BY <1>4, <2>1, <2>3 DEF UpdateMenu, UpdateTo
  <2> HIDE DEF y, n
  <2>6. n \in Range(y.shown)
    BY <1>4, <2>1
  <2>7. Listing(UpdateMenu(x, w), w) /\ InWindow(UpdateMenu(x, w), h)
    BY <2>1, <2>2, <2>4, <2>5, <2>6, ReselectSound
  <2> QED BY <2>7 DEF Sound
<1> QED BY <1>3, <1>4

(* Entering a menu; a choice has its selected symbol centered. *)
LEMMA ChoiceSound ==
    ASSUME NEW w, ListsMenus(w), NEW h \in Nat \ {0}, NEW x, Sound(x, w, h)
    PROVE  Sound(IfChoice(x, w, h), w, h)
<1>1. x \in Screens
  BY DEF Sound, Listing
<1> DEFINE sym == w.of[kconf.item[x.menu]].sel
           here == {i \in 1..Len(kconf.nodesOf[sym]) :
                       kconf.nodesOf[sym][i] \in Range(x.shown)}
           n == kconf.nodesOf[sym][Min(here)]
           y == [x EXCEPT !.sel = Index(x.shown, n)]
<1>2. CASE IfChoice(x, w, h) = x
  BY <1>2
<1>3. CASE IfChoice(x, w, h) # x
  <2>1. sym # NoItem /\ here # {} /\ IfChoice(x, w, h) = Center(y, h)
    BY <1>3 DEF IfChoice, SelectSelectedChoiceSym
  <2>2. here \subseteq Nat
    OBVIOUS
  <2>3. Min(here) \in here
    BY <2>1, <2>2, MinOfNats
  <2>4. n \in Range(x.shown)
    BY <2>3
  <2>5. x.shown \in Seq(kconf.nodes)
    BY <1>1 DEF Screens
  <2> HIDE DEF n
  <2>6. Index(x.shown, n) \in 0..(Len(x.shown) - 1)
    BY <2>4, <2>5, IndexFound
  <2>7. PICK i \in Nat : i = Index(x.shown, n)
    BY <2>6
  <2>8. i < Len(x.shown)
    BY <2>5, <2>6, <2>7
  <2>9. y \in Screens /\ SameList(x, y) /\ y.sel = i
    BY <1>1, <2>7 DEF Screens, SameList
  <2> HIDE DEF y
  <2>10. /\ Center(y, h) \in Screens /\ SameList(y, Center(y, h))
         /\ Center(y, h).sel = i
         /\ y.sel < Len(y.shown) => InWindow(Center(y, h), h)
    BY <2>9, CenterInWindow
  <2> QED BY <2>1, <2>8, <2>9, <2>10 DEF Sound, Listing, SameList
<1> QED BY <1>2, <1>3

LEMMA EnterSound ==
    ASSUME NEW w, ListsMenus(w), NEW h \in Nat \ {0},
           NEW x \in Screens, x.scroll <= x.sel, NEW n, CanEnter(x, n, w)
    PROVE  Sound(EnterMenu(x, n, w, h), w, h)
<1> DEFINE shown == ShownIn(n, x.all, w)
           y == [x EXCEPT !.menu = n, !.shown = shown, !.sel = 0, !.scroll = 0,
                          !.rows = <<x.sel - x.scroll>> \o @]
<1>1. n \in kconf.menus /\ x.all \in BOOLEAN /\ shown # <<>>
  BY DEF Screens, CanEnter
<1>2. shown \in Seq(kconf.nodes)
  BY <1>1, ShownInType
<1>3. x.sel - x.scroll \in Nat /\ x.rows \in Seq(Nat)
  BY DEF Screens
<1>4. PICK rows \in Seq(Nat) : rows = <<x.sel - x.scroll>> \o x.rows
  <2>1. PICK d \in Nat : d = x.sel - x.scroll
    BY <1>3
  <2>2. <<d>> \o x.rows \in Seq(Nat)
    BY <1>3
  <2> QED BY <2>1, <2>2
<1>5. /\ y \in Screens /\ y.shown = shown /\ y.menu = n /\ y.all = x.all
      /\ y.sel = 0 /\ y.scroll = 0
  BY <1>1, <1>2, <1>4 DEF Screens
<1>6. 0 < Len(shown)
  BY <1>1, <1>2
<1>7. EnterMenu(x, n, w, h) = IfChoice(y, w, h)
  BY DEF EnterMenu
<1> HIDE DEF y
<1>8. Listing(y, w) /\ InWindow(y, h)
  BY <1>5, <1>6 DEF Listing, InWindow, ShownIn
<1>9. Sound(y, w, h)
  BY <1>8 DEF Sound
<1> QED BY <1>7, <1>9, ChoiceSound

LEMMA LeaveToSound ==
    ASSUME NEW w, ListsMenus(w), NEW h \in Nat \ {0},
           NEW x \in Screens, NEW parent \in kconf.menus
    PROVE  Sound(LeaveTo(x, parent, ShownIn(parent, x.all, w), h), w, h)
<1> DEFINE shown == ShownIn(parent, x.all, w)
           y == [x EXCEPT !.menu = parent, !.shown = shown, !.sel = Index(shown, x.menu)]
           z == [y EXCEPT !.rows = Tail(@)]
<1>1. x.all \in BOOLEAN /\ x.rows \in Seq(Nat)
  BY DEF Screens
<1>2. shown \in Seq(kconf.nodes)
  BY <1>1, ShownInType
<1>3. CASE x.menu \notin Range(shown)
  <2>1. LeaveTo(x, parent, shown, h) = Lost(x)
    BY <1>3 DEF LeaveTo
  <2> QED BY <2>1, LostSound
<1>4. CASE x.menu \in Range(shown)
  <2> HIDE DEF shown
  <2>1. Index(shown, x.menu) \in 0..(Len(shown) - 1)
    BY <1>2, <1>4, IndexFound
  <2>2. PICK i \in Nat : i = Index(shown, x.menu)
    BY <2>1
  <2>3. i < Len(shown)
    BY <1>2, <2>1, <2>2
  <2>4. /\ y \in Screens /\ y.menu = parent /\ y.shown = shown /\ y.all = x.all
        /\ y.sel = i /\ y.rows = x.rows
    BY <1>2, <2>2 DEF Screens
  <2>5. Listing(y, w)
    BY <2>3, <2>4 DEF Listing, shown, ShownIn
  <2>6. CASE x.rows = <<>>
    <3>1. LeaveTo(x, parent, shown, h) = Center(y, h)
      BY <1>4, <2>6 DEF LeaveTo
    <3> HIDE DEF y
    <3>2. /\ Center(y, h) \in Screens /\ SameList(y, Center(y, h))
          /\ Center(y, h).sel = y.sel
          /\ y.sel < Len(y.shown) => InWindow(Center(y, h), h)
      BY <2>4, CenterInWindow
    <3> QED BY <2>5, <3>1, <3>2 DEF Sound, Listing, SameList, shown
  <2>7. CASE x.rows # <<>>
    <3>1. Head(x.rows) \in Nat /\ Tail(x.rows) \in Seq(Nat)
      BY <1>1, <2>7
    <3>2. PICK row \in Int : row = Min2(Head(x.rows), h - 1)
      BY <3>1 DEF Min2
    <3>3. 0 <= row /\ row < h
      BY <3>1, <3>2 DEF Min2
    <3>4. LeaveTo(x, parent, shown, h) = SelectOnRow(z, i, row)
      BY <1>4, <2>4, <2>7, <3>2 DEF LeaveTo
    <3> HIDE DEF y
    <3>5. /\ z \in Screens /\ z.menu = y.menu /\ z.shown = y.shown /\ z.all = y.all
          /\ z.sel = y.sel
      BY <2>4, <3>1 DEF Screens
    <3> HIDE DEF z
    <3>6. /\ SelectOnRow(z, i, row) \in Screens /\ SameList(z, SelectOnRow(z, i, row))
          /\ SelectOnRow(z, i, row).sel = i
          /\ InWindow(SelectOnRow(z, i, row), h)
      BY <3>3, <3>5, OnRowInWindow
    <3>7. Listing(SelectOnRow(z, i, row), w)
      BY <2>4, <2>5, <3>5, <3>6 DEF Listing, SameList
    <3> QED BY <3>4, <3>6, <3>7 DEF Sound, shown
  <2> QED BY <2>6, <2>7
<1> QED BY <1>3, <1>4

LEMMA LeaveSound ==
    ASSUME kconf \in Kconfigs, NEW w, ListsMenus(w), NEW h \in Nat \ {0},
           NEW x, Sound(x, w, h), x \in Screens
    PROVE  Sound(LeaveMenu(x, w, h), w, h)
<1>1. CASE x.menu = kconf.top
  BY <1>1 DEF LeaveMenu
<1>2. CASE x.menu # kconf.top
  <2>1. kconf.menuOf[x.menu] \in kconf.menus
    BY <1>2, KconfigsAssumption DEF Screens
  <2>2. LeaveMenu(x, w, h)
          = LeaveTo(x, kconf.menuOf[x.menu], ShownIn(kconf.menuOf[x.menu], x.all, w), h)
    BY <1>2 DEF LeaveMenu
  <2> QED BY <2>1, <2>2, LeaveToSound
<1> QED BY <1>1, <1>2

(* Show-all mode: what was selected, or is close to it, is still selected. *)
LEMMA ToggleSound ==
    ASSUME NEW w, ListsMenus(w), NEW h \in Nat \ {0}, NEW x, Listing(x, w)
    PROVE  /\ Listing(ToggleShowAll(x, w), w)
           /\ InWindow(x, h) => InWindow(ToggleShowAll(x, w), h)
<1> DEFINE shown == ShownIn(x.menu, ~x.all, w)
           before == {d \in 0..x.sel : x.shown[x.sel - d + 1] \in Range(shown)}
           after == {d \in 1..(Len(x.shown) - 1 - x.sel) :
                        x.shown[x.sel + d + 1] \in Range(shown)}
           y == [x EXCEPT !.all = ~@, !.shown = shown]
           kept == [x EXCEPT !.all = TRUE]
<1>1. /\ x \in Screens /\ x.menu \in kconf.menus /\ x.all \in BOOLEAN
      /\ x.sel \in Nat /\ x.scroll \in Nat /\ x.shown \in Seq(kconf.nodes)
      /\ x.sel < Len(x.shown) /\ x.shown = w.shown[<<x.menu, x.all>>]
  BY DEF Listing, Screens
<1>2. PICK all \in BOOLEAN : all = ~x.all
  OBVIOUS
<1>3. y \in Screens /\ y.shown = shown /\ y.menu = x.menu /\ y.all = all
  <2>1. ShownIn(x.menu, all, w) \in Seq(kconf.nodes)
    BY <1>1, ShownInType
  <2>2. shown = ShownIn(x.menu, all, w)
    BY <1>2, Zenon
  <2>3. y = [x EXCEPT !.all = all, !.shown = shown]
    BY <1>2, Zenon
  <2> HIDE DEF shown, y
  <2> QED BY <1>1, <2>1, <2>2, <2>3 DEF Screens
<1>4. y.shown = w.shown[<<y.menu, y.all>>]
  <2>1. shown = ShownIn(x.menu, all, w)
    BY <1>2, Zenon
  <2> HIDE DEF shown, y
  <2> QED BY <1>3, <2>1 DEF ShownIn
<1>5. PICK row \in Int : row = x.sel - x.scroll
  BY <1>1
<1>6. InWindow(x, h) => 0 <= row /\ row < h
  BY <1>1, <1>5 DEF InWindow
<1>7. ASSUME NEW n \in Range(shown),
             ToggleShowAll(x, w) = SelectOnRow(y, Index(shown, n), x.sel - x.scroll)
      PROVE  /\ Listing(ToggleShowAll(x, w), w)
             /\ InWindow(x, h) => InWindow(ToggleShowAll(x, w), h)
  <2> HIDE DEF y, shown
  <2>1. ToggleShowAll(x, w) = SelectOnRow(y, Index(y.shown, n), row)
    BY <1>3, <1>5, <1>7
  <2>2. /\ Listing(SelectOnRow(y, Index(y.shown, n), row), w)
        /\ 0 <= row /\ row < h => InWindow(SelectOnRow(y, Index(y.shown, n), row), h)
    BY <1>3, <1>4, ReselectSound
  <2> QED BY <1>6, <2>1, <2>2
<1>8. CASE before # {}
  <2>1. before \subseteq Nat /\ Min(before) \in before
    BY <1>8, MinOfNats
  <2>2. ToggleShowAll(x, w)
          = SelectOnRow(y, Index(shown, x.shown[x.sel - Min(before) + 1]), x.sel - x.scroll)
    BY <1>8, Zenon DEF ToggleShowAll, ToggleTo
  <2> QED BY <1>7, <2>1, <2>2
<1>9. CASE before = {} /\ after # {}
  <2>1. after \subseteq Nat /\ Min(after) \in after
    <3>1. after \subseteq Nat
      BY <1>1
    <3> QED BY <1>9, <3>1, MinOfNats
  <2>2. ToggleShowAll(x, w)
          = SelectOnRow(y, Index(shown, x.shown[x.sel + Min(after) + 1]), x.sel - x.scroll)
    BY <1>9, Zenon DEF ToggleShowAll, ToggleTo
  <2> QED BY <1>7, <2>1, <2>2
<1>10. CASE before = {} /\ after = {}
  <2>1. x.shown[x.sel + 1] \notin Range(shown)
    <3>1. 0 \in 0..x.sel /\ x.sel - 0 + 1 = x.sel + 1
      BY <1>1
    <3>2. 0 \notin before
      BY <1>10
    <3> QED BY <3>1, <3>2
  <2>2. x.shown[x.sel + 1] \in Range(x.shown)
    <3>1. x.sel + 1 \in 1..Len(x.shown) /\ DOMAIN x.shown = 1..Len(x.shown)
      BY <1>1
    <3> QED BY <3>1 DEF Range
  <2>3. x.all = TRUE
    <3>1. SUFFICES ASSUME x.all = FALSE PROVE FALSE
      BY <1>1
    <3>2. Range(x.shown) \subseteq Range(shown)
      BY <1>1, <3>1 DEF ListsMenus, ShownIn
    <3> QED BY <2>1, <2>2, <3>2
  <2>4. ToggleShowAll(x, w) = kept
    BY <1>10, Zenon DEF ToggleShowAll, ToggleTo
  <2>5. kept \in Screens /\ SameList(x, kept) /\ kept.sel = x.sel /\ kept.scroll = x.scroll
    BY <1>1, <2>3 DEF Screens, SameList
  <2> HIDE DEF kept
  <2> QED BY <1>1, <2>4, <2>5 DEF Listing, SameList, InWindow
<1> QED BY <1>8, <1>9, <1>10

(* A jump: the node is found in what its menu shows, or it raises; where   *)
(* the window is has still to be seen to. *)
Landing(x, w) == (x \in Screens /\ x.lost) \/ Listing(x, w)

LEMMA NoRows == <<>> \in Seq(Nat)
  OBVIOUS

LEMMA LandInLanding ==
    ASSUME NEW w, ListsMenus(w), NEW x \in Screens, NEW menu \in kconf.menus, NEW n,
           NEW all \in BOOLEAN
    PROVE  Landing(LandIn(x, menu, n, all, w), w)
<1> DEFINE shown == ShownIn(menu, all, w)
           y == [x EXCEPT !.menu = menu, !.shown = shown, !.all = all,
                          !.sel = Index(shown, n), !.rows = <<>>]
<1>1. shown \in Seq(kconf.nodes)
  BY ShownInType
<1>2. CASE n \notin Range(shown)
  <2>1. LandIn(x, menu, n, all, w) = Lost(x)
    BY <1>2 DEF LandIn, LandOn
  <2>2. Lost(x) \in Screens /\ Lost(x).lost
    BY DEF Screens, Lost
  <2> QED BY <2>1, <2>2 DEF Landing
<1>3. CASE n \in Range(shown)
  <2>1. LandIn(x, menu, n, all, w) = y
    BY <1>3 DEF LandIn, LandOn
  <2>2. shown = w.shown[<<menu, all>>]
    BY DEF ShownIn
  <2> HIDE DEF shown
  <2>3. Index(shown, n) \in 0..(Len(shown) - 1)
    BY <1>1, <1>3, IndexFound
  <2>4. PICK i \in Nat : i = Index(shown, n)
    BY <2>3
  <2>5. i < Len(shown)
    BY <1>1, <2>3, <2>4
  <2>6. y \in Screens /\ y.menu = menu /\ y.shown = shown /\ y.all = all /\ y.sel = i
    <3>1. PICK none \in Seq(Nat) : none = <<>>
      BY NoRows, Zenon
    <3>2. y = [x EXCEPT !.menu = menu, !.shown = shown, !.all = all, !.sel = i, !.rows = none]
      BY <2>4, <3>1, Zenon
    <3> HIDE DEF y
    <3> QED BY <1>1, <3>2 DEF Screens
  <2> HIDE DEF y
  <2> QED BY <2>1, <2>2, <2>5, <2>6 DEF Landing, Listing
<1> QED BY <1>2, <1>3

LEMMA LandedLanding ==
    ASSUME kconf \in Kconfigs, NEW w, ListsMenus(w), NEW x \in Screens,
           NEW n \in kconf.nodes \ {kconf.top}
    PROVE  Landing(Landed(x, n, w), w)
<1>1. x.all \in BOOLEAN /\ kconf.menuOf[n] \in kconf.menus
  BY KconfigsAssumption DEF Screens
<1> DEFINE menu == IF JumpInto(n) THEN n ELSE kconf.menuOf[n]
           node == IF JumpInto(n) THEN Head(kconf.list[n]) ELSE n
           all == x.all \/ node \notin Range(ShownIn(menu, FALSE, w))
<1>2. menu \in kconf.menus
  BY <1>1 DEF JumpInto
<1>3. PICK a \in BOOLEAN : a = all
  OBVIOUS
<1>4. Landed(x, n, w) = LandIn(x, menu, node, all, w)
  BY Zenon DEF Landed
<1> HIDE DEF menu, node, all
<1>5. Landed(x, n, w) = LandIn(x, menu, node, a, w)
  BY <1>3, <1>4, Zenon
<1> QED BY <1>2, <1>5, LandInLanding

LEMMA JumpSound ==
    ASSUME kconf \in Kconfigs, NEW w, ListsMenus(w), NEW h \in Nat \ {0}, NEW x \in Screens,
           NEW n \in kconf.nodes \ {kconf.top}
    PROVE  LET z == Center(Settled(Landed(x, n, w), n, w), h)
           IN Sound(z, w, h) /\ Sound(IfChoice(z, w, h), w, h)
<1> DEFINE l == Landed(x, n, w)
           y == Settled(l, n, w)
           z == Center(y, h)
<1>1. Landing(l, w)
  BY LandedLanding
<1> HIDE DEF l
<1>2. Landing(y, w)
  <2>1. CASE y = l
    BY <1>1, <2>1
  <2>2. CASE y # l
    <3>1. y = ToggleShowAll(l, w) /\ ~l.lost
      BY <2>2 DEF Settled
    <3>2. Listing(l, w)
      BY <1>1, <3>1 DEF Landing
    <3>3. Listing(ToggleShowAll(l, w), w)
      BY <3>2, ToggleSound
    <3> QED BY <3>1, <3>3 DEF Landing
  <2> QED BY <2>1, <2>2
<1> HIDE DEF y
<1>3. y \in Screens
  BY <1>2 DEF Landing, Listing
<1>4. /\ z \in Screens /\ SameList(y, z) /\ z.sel = y.sel
      /\ y.sel < Len(y.shown) => InWindow(z, h)
  BY <1>3, CenterInWindow
<1> HIDE DEF z
<1>5. Sound(z, w, h)
  BY <1>2, <1>4 DEF Landing, Sound, Listing, SameList
<1>6. Sound(IfChoice(z, w, h), w, h)
  BY <1>5, ChoiceSound
<1> QED BY <1>5, <1>6 DEF z, y, l

(* A window of another height *)
LEMMA FitSound ==
    ASSUME NEW w, NEW h \in Nat \ {0}, NEW x,
           (Listing(x, w) /\ x.scroll <= x.sel) \/ (x \in Screens /\ x.lost)
    PROVE  Sound(Fit(x, h), w, h)
<1>1. x \in Screens
  BY DEF Listing
<1>2. /\ Fit(x, h) \in Screens /\ SameList(x, Fit(x, h)) /\ Fit(x, h).sel = x.sel
      /\ x.scroll <= x.sel => InWindow(Fit(x, h), h)
  BY <1>1, FitInWindow
<1> QED BY <1>2 DEF Sound, Listing, SameList

(* What is left after a change *)
LEMMA AfterSound ==
    ASSUME kconf \in Kconfigs, NEW w, ListsMenus(w), height \in Nat \ {0},
           NEW x, Sound(x, w, height), NEW i, NEW leaves
    PROVE  Sound(AfterChange(x, i, leaves, w), w, height)
<1>1. x \in Screens
  BY DEF Sound, Listing
<1>2. AfterChange(x, i, leaves, w) \in {x, LeaveMenu(x, w, height)}
  BY DEF AfterChange
<1>3. Sound(LeaveMenu(x, w, height), w, height)
  BY <1>1, LeaveSound
<1> QED BY <1>2, <1>3

-----------------------------------------------------------------------------
(* The invariant.  While a dialog that fills the screen is open, the main  *)
(* window may be too small for the row that is selected; that dialog can   *)
(* then only be left for another one or by ToMain, which scrolls.          *)
Filling == Seq({"info", "jump"}) \ {<<>>}

TopOf(d) == IF d = <<>> THEN "main" ELSE Head(d)

JumpFits(x) ==
    x \in MatchLists /\ InWindow(x, x.height) /\ (x.matches # <<>> => x.sel < Len(x.matches))

MainFits ==
    outcome = "running" =>
        /\ Listing(ui, vals) /\ ui.scroll <= ui.sel
        /\ TopOf(dialogs) \notin {"jump", "info"} => InWindow(ui, height)

Inv ==
    /\ kconf \in Kconfigs /\ ListsMenus(vals)
    /\ term \in Nat \ {0} /\ height \in Nat \ {0}
    /\ dialogs \in Filling \cup Seq(Floating)
    /\ JumpFits(jump)
    /\ MainFits

LEMMA TopFloating ==
    ASSUME NEW d \in Seq(Floating)
    PROVE  TopOf(d) \in Floating \cup {"main"} /\ TopOf(d) \notin {"jump", "info"}
  BY DEF TopOf, Floating

LEMMA TopFilling == \A d \in Filling : TopOf(d) \in {"jump", "info"}
  BY DEF TopOf, Filling

LEMMA TopIs == Top = TopOf(dialogs)
  BY DEF Top, TopOf

LEMMA Heights ==
    ASSUME NEW t \in Nat \ {0}, NEW helping
    PROVE  MainHeight(t, helping) \in Nat \ {0} /\ JumpHeight(t) \in Nat \ {0}
  BY DEF MainHeight, JumpHeight, Max2

LEMMA SameInstance ==
    ASSUME kconf' = kconf
    PROVE  Screens' = Screens /\ MatchLists' = MatchLists
  BY DEF Screens, MatchLists

(* What each kind of step has to show *)
LEMMA MainDisplayed ==
    ASSUME kconf' = kconf, Sound(ui', vals', height'), outcome' = "running" => ~ui'.lost
    PROVE  MainFits'
<1>1. outcome' = "running" => Listing(ui', vals') /\ InWindow(ui', height')
  BY DEF Sound
<1> QED BY <1>1, SameInstance DEF MainFits, Listing, InWindow

LEMMA InvStep ==
    ASSUME Inv, kconf' = kconf, ListsMenus(vals'),
           term' \in Nat \ {0}, height' \in Nat \ {0},
           dialogs' \in Filling \cup Seq(Floating), JumpFits(jump'), MainFits'
    PROVE  Inv'
<1>1. ListsMenus(vals)'
  BY DEF ListsMenus
<1>2. JumpFits(jump)'
  BY SameInstance DEF JumpFits, InWindow
<1> QED BY <1>1, <1>2, SameInstance DEF Inv, Floating

(* Dialogs opened or closed over the same display *)
LEMMA DialogStep ==
    ASSUME Inv, kconf' = kconf, vals' = vals, ui' = ui, term' = term, height' = height,
           JumpFits(jump'), outcome' = outcome \/ outcome' # "running",
           dialogs' \in Filling \cup Seq(Floating),
           TopOf(dialogs') \in {"jump", "info"} \/ Top \notin {"jump", "info"}
    PROVE  Inv'
<1>1. MainFits'
  <2>1. SUFFICES ASSUME outcome' = "running" PROVE MainFits'
    BY DEF MainFits
  <2>2. outcome = "running"
    BY <2>1
  <2>3. /\ Listing(ui, vals) /\ ui.scroll <= ui.sel
        /\ TopOf(dialogs') \notin {"jump", "info"} => InWindow(ui, height)
    BY <2>2, TopIs DEF Inv, MainFits
  <2> QED BY <2>3, SameInstance DEF MainFits, Listing, InWindow
<1> QED BY <1>1, InvStep DEF Inv

(* Keys of the main display that change nothing but the display *)
LEMMA MoveStep ==
    ASSUME Inv, NEW x, Sound(x, vals, height), Display(x), kconf' = kconf, vals' = vals,
           term' = term, height' = height, dialogs' = dialogs, jump' = jump
    PROVE  Inv'
<1>1. ui' = x /\ outcome' = IF ui'.lost THEN "crash" ELSE "running"
  BY DEF Display
<1>2. MainFits'
  BY <1>1, MainDisplayed
<1> QED BY <1>1, <1>2, InvStep DEF Inv

(* Changed values *)
LEMMA SetValStep ==
    ASSUME ListsMenus(vals'), Inv, Listing(ui, vals), InWindow(ui, height),
           NEW i, NEW v, NEW leaves, SetVal(i, v, leaves),
           dialogs' \in Filling \cup Seq(Floating)
    PROVE  Inv'
<1>1. kconf' = kconf /\ term' = term /\ height' = height /\ jump' = jump
  BY DEF SetVal, screen
<1>2. Sound(ui', vals', height) /\ ListsMenus(vals') /\ (outcome' = "running" => ~ui'.lost)
  <2>1. CASE v = vals.of[i].val
    <3>1. /\ ui' = AfterChange(ui, i, leaves, vals) /\ vals' = vals
          /\ outcome' = IF ui'.lost THEN "crash" ELSE "running"
      BY <2>1 DEF SetVal, Display, conf
    <3>2. Sound(ui, vals, height)
      BY DEF Sound
    <3>3. Sound(AfterChange(ui, i, leaves, vals), vals, height)
      BY <3>2, AfterSound DEF Inv
    <3> QED BY <3>1, <3>3 DEF Inv
  <2>2. CASE v # vals.of[i].val
    <3>1. PICK u, w : /\ w = Values(kconf, u) /\ vals' = w
                      /\ Display(AfterChange(UpdateMenu(ui, w), i, leaves, w))
      BY <2>2 DEF SetVal
    <3>2. ListsMenus(w)
      BY <3>1
    <3>3. ui \in Screens /\ ui.sel < Len(ui.shown)
      BY DEF Listing
    <3>4. Sound(UpdateMenu(ui, w), w, height)
      BY <3>2, <3>3, UpdateSound DEF Inv
    <3>5. Sound(AfterChange(UpdateMenu(ui, w), i, leaves, w), w, height)
      BY <3>2, <3>4, AfterSound DEF Inv
    <3> QED BY <3>1, <3>2, <3>5 DEF Display
  <2> QED BY <2>1, <2>2
<1>3. MainFits'
  BY <1>1, <1>2, MainDisplayed
<1> QED BY <1>1, <1>2, <1>3, InvStep DEF Inv

(* Back in the main display *)
LEMMA ToMainStep ==
    ASSUME Inv, NEW x, (Listing(x, vals) /\ x.scroll <= x.sel) \/ (x \in Screens /\ x.lost),
           ToMain(x), jump' = jump
    PROVE  Inv'
<1>1. /\ kconf' = kconf /\ vals' = vals /\ term' = term /\ dialogs' = <<>>
      /\ height' = MainHeight(term, help) /\ ui' = Fit(x, height')
      /\ outcome' = IF ui'.lost THEN "crash" ELSE "running"
  BY DEF ToMain, Display, conf
<1>2. height' \in Nat \ {0}
  BY <1>1, Heights DEF Inv
<1>3. Sound(ui', vals', height')
  BY <1>1, <1>2, FitSound
<1>4. MainFits'
  BY <1>1, <1>3, MainDisplayed
<1>5. dialogs' \in Seq(Floating)
  BY <1>1
<1> QED BY <1>1, <1>2, <1>4, <1>5, InvStep DEF Inv

(* The keys of the main display find the selected row on the screen. *)
LEMMA AtMain ==
    ASSUME Inv, outcome = "running", Top \notin {"jump", "info"}
    PROVE  Listing(ui, vals) /\ InWindow(ui, height) /\ Sound(ui, vals, height)
           /\ ui \in Screens /\ ui.scroll <= ui.sel /\ ui.sel < Len(ui.shown)
  BY TopIs DEF Inv, MainFits, Sound, Listing

LEMMA KeyAtMain ==
    ASSUME NEW group, Key(group)
    PROVE  outcome = "running" /\ Top \notin {"jump", "info"} /\ dialogs = <<>>
  BY DEF Key, Running, Top

LEMMA MoveKeys ==
    ASSUME Inv, Down \/ Up \/ End \/ Home \/ Leave \/ ToggleAll
    PROVE  Inv'
<1>1. Key("move") \/ Key("all")
  BY DEF Down, Up, End, Home, Leave, ToggleAll
<1>2. /\ Listing(ui, vals) /\ InWindow(ui, height) /\ Sound(ui, vals, height)
      /\ ui \in Screens /\ ui.sel < Len(ui.shown)
  BY <1>1, AtMain, KeyAtMain
<1>3. ui.shown \in Seq(kconf.nodes) /\ Len(ui.shown) # 0 /\ ui.sel \in Nat
  BY <1>2 DEF Screens
<1>4. ASSUME NEW x, Sound(x, vals, height), Move(x) PROVE Inv'
  BY <1>4, MoveStep DEF Move, conf, screen
<1>5. ASSUME NEW x, x \in Screens, SameList(ui, x), x.sel < Len(ui.shown), InWindow(x, height)
      PROVE  Sound(x, vals, height)
  BY <1>2, <1>5 DEF Sound, Listing, SameList
<1>6. CASE Down
  <2> DEFINE x == SelectNext(ui, ui.shown, height)
  <2>1. x.sel < Len(ui.shown) /\ InWindow(x, height)
    BY <1>2, <1>3, NextInWindow DEF Inv
  <2>2. x \in Screens /\ SameList(ui, x)
    BY <1>2, NextType
  <2> HIDE DEF x
  <2>3. Sound(x, vals, height)
    BY <2>1, <2>2, <1>5
  <2> QED BY <1>4, <1>6, <2>3 DEF Down, x
<1>7. CASE Up
  <2> DEFINE x == SelectPrev(ui)
  <2>1. x.sel <= ui.sel /\ InWindow(x, height)
    BY <1>2, PrevInWindow DEF Inv
  <2>2. x \in Screens /\ SameList(ui, x)
    BY <1>2, PrevType
  <2> HIDE DEF x
  <2>3. x.sel \in Nat
    BY <2>2 DEF Screens
  <2>4. x.sel < Len(ui.shown)
    BY <1>2, <1>3, <2>1, <2>3
  <2>5. Sound(x, vals, height)
    BY <2>1, <2>2, <2>4, <1>5
  <2> QED BY <1>4, <1>7, <2>5 DEF Up, x
<1>8. CASE End
  <2> DEFINE x == SelectLast(ui, ui.shown, height)
  <2>1. x \in Screens /\ SameList(ui, x) /\ x.sel < Len(ui.shown) /\ InWindow(x, height)
    BY <1>2, <1>3, EndsInWindow DEF Inv
  <2> HIDE DEF x
  <2>2. Sound(x, vals, height)
    BY <2>1, <1>5
  <2> QED BY <1>4, <1>8, <2>2 DEF End, x
<1>9. CASE Home
  <2> DEFINE x == SelectFirst(ui)
  <2>1. x \in Screens /\ SameList(ui, x) /\ x.sel < Len(ui.shown) /\ InWindow(x, height)
    BY <1>2, <1>3, EndsInWindow DEF Inv
  <2> HIDE DEF x
  <2>2. Sound(x, vals, height)
    BY <2>1, <1>5
  <2> QED BY <1>4, <1>9, <2>2 DEF Home, x
<1>10. CASE Leave
  <2>1. Sound(LeaveMenu(ui, vals, height), vals, height)
    BY <1>2, LeaveSound DEF Inv
  <2> QED BY <1>4, <1>10, <2>1 DEF Leave
<1>11. CASE ToggleAll
  <2>1. Listing(ToggleShowAll(ui, vals), vals) /\ InWindow(ToggleShowAll(ui, vals), height)
    BY <1>2, ToggleSound DEF Inv
  <2>2. Sound(ToggleShowAll(ui, vals), vals, height)
    BY <2>1 DEF Sound
  <2> QED BY <1>4, <1>11, <2>2 DEF ToggleAll
<1> QED BY <1>6, <1>7, <1>8, <1>9, <1>10, <1>11

LEMMA HelpKey == ASSUME Inv, ToggleHelp PROVE Inv'
<1>1. Listing(ui, vals) /\ ui.scroll <= ui.sel
  BY AtMain, KeyAtMain DEF ToggleHelp
<1>2. /\ kconf' = kconf /\ vals' = vals /\ term' = term /\ dialogs' = dialogs /\ jump' = jump
      /\ height' = MainHeight(term, ~help) /\ ui' = Fit(ui, height')
      /\ outcome' = IF ui'.lost THEN "crash" ELSE "running"
  BY DEF ToggleHelp, Display, conf
<1>3. height' \in Nat \ {0}
  BY <1>2, Heights, Zenon DEF Inv
<1>4. Sound(Fit(ui, height'), vals, height')
  BY <1>1, <1>3, FitSound
<1>5. Sound(ui', vals', height')
  BY <1>2, <1>4, Zenon
<1>6. MainFits'
  BY <1>2, <1>5, MainDisplayed
<1> QED BY <1>2, <1>3, <1>6, InvStep DEF Inv

LEMMA PageKeys ==
    ASSUME Inv, PageStep \/ \E n \in {PgJump, -PgJump} : Page(n)
    PROVE  Inv'
<1>1. CASE \E n \in {PgJump, -PgJump} : Page(n)
  <2>1. /\ kconf' = kconf /\ vals' = vals /\ ui' = ui /\ term' = term /\ height' = height
        /\ outcome' = outcome /\ jump' = jump /\ dialogs' = dialogs
    BY <1>1 DEF Page, conf, screen
  <2> QED BY <2>1, DialogStep, TopIs DEF Inv
<1>2. CASE PageStep /\ Top = "main"
  <2>1. /\ Listing(ui, vals) /\ InWindow(ui, height) /\ Sound(ui, vals, height)
        /\ ui \in Screens /\ ui.sel < Len(ui.shown)
    BY <1>2, AtMain DEF PageStep
  <2>2. ui.shown \in Seq(kconf.nodes) /\ ui.sel \in Nat
    BY <2>1 DEF Screens
  <2> DEFINE x == Paged(ui, ui.shown, height)
  <2>3. x \in Screens /\ SameList(ui, x) /\ x.sel < Len(ui.shown) /\ InWindow(x, height)
    <3>1. CASE x = SelectNext(ui, ui.shown, height)
      BY <3>1, <2>1, <2>2, NextInWindow, NextType DEF Inv
    <3>2. CASE x = SelectPrev(ui)
      <4>1. x.sel <= ui.sel /\ InWindow(x, height) /\ x \in Screens /\ SameList(ui, x)
        BY <3>2, <2>1, PrevInWindow, PrevType DEF Inv
      <4>2. x.sel \in Nat
        BY <4>1 DEF Screens
      <4> HIDE DEF x
      <4> QED BY <2>1, <2>2, <4>1, <4>2
    <3> QED BY <3>1, <3>2 DEF Paged
  <2>4. Display(x) /\ kconf' = kconf /\ vals' = vals /\ term' = term /\ height' = height
        /\ dialogs' = dialogs /\ jump' = jump
    BY <1>2 DEF PageStep, conf, screen
  <2> HIDE DEF x
  <2>5. Sound(x, vals, height)
    BY <2>1, <2>3 DEF Sound, Listing, SameList
  <2> QED BY <2>4, <2>5, MoveStep
<1>3. CASE PageStep /\ Top # "main"
  <2>1. /\ kconf' = kconf /\ vals' = vals /\ ui' = ui /\ term' = term /\ height' = height
        /\ outcome' = outcome /\ dialogs' = dialogs
        /\ jump' = Paged(jump, jump.matches, jump.height)
    BY <1>3 DEF PageStep, conf, screen
  <2>2. /\ jump \in MatchLists /\ jump.matches \in Seq(kconf.nodes \ {kconf.top})
        /\ jump.height \in Nat \ {0} /\ jump.sel \in Nat /\ InWindow(jump, jump.height)
        /\ jump.matches # <<>> => jump.sel < Len(jump.matches)
    BY DEF Inv, JumpFits, MatchLists
  <2>3. JumpFits(jump')
    <3>1. CASE jump' = SelectNext(jump, jump.matches, jump.height)
      <4>1. CASE jump.matches = <<>>
        <5>1. SelectNext(jump, jump.matches, jump.height) = jump
          BY <2>2, <4>1 DEF SelectNext
        <5> QED BY <3>1, <5>1 DEF Inv
      <4>2. CASE jump.matches # <<>>
        <5>1. jump'.sel < Len(jump.matches) /\ InWindow(jump', jump.height)
          BY <2>2, <3>1, <4>2, NextInWindow
        <5>2. jump' \in MatchLists /\ SameMatches(jump, jump')
          BY <2>2, <3>1, NextType
        <5> QED BY <5>1, <5>2 DEF JumpFits, SameMatches
      <4> QED BY <4>1, <4>2
    <3>2. CASE jump' = SelectPrev(jump)
      <4>1. /\ jump'.sel <= jump.sel /\ InWindow(jump', jump.height)
            /\ jump' \in MatchLists /\ SameMatches(jump, jump')
        BY <2>2, <3>2, PrevInWindow, PrevType
      <4>2. jump'.sel \in Nat
        BY <4>1 DEF MatchLists
      <4>3. Len(jump.matches) \in Nat
        BY <2>2
      <4>4. jump.matches # <<>> => jump'.sel < Len(jump.matches)
        BY <2>2, <4>1, <4>2, <4>3
      <4> QED BY <4>1, <4>4 DEF JumpFits, SameMatches
    <3> QED BY <2>1, <3>1, <3>2 DEF Paged
  <2> QED BY <2>1, <2>3, DialogStep, TopIs DEF Inv
<1> QED BY <1>1, <1>2, <1>3

LEMMA ChangeStep ==
    ASSUME ListsMenus(vals'), Inv, outcome = "running", dialogs = <<>>, NEW n, ChangeNode(n)
    PROVE  Inv'
<1>1. /\ Top \notin {"jump", "info"} /\ Listing(ui, vals) /\ InWindow(ui, height)
      /\ ui \in Screens
  <2>1. Top \notin {"jump", "info"}
    BY DEF Top
  <2> QED BY <2>1, AtMain
<1>2. CASE ~IsTri(kconf, kconf.item[n])
  <2>1. /\ kconf' = kconf /\ vals' = vals /\ ui' = ui /\ term' = term /\ height' = height
        /\ outcome' = outcome /\ jump' = jump /\ dialogs' = <<"input">>
    BY <1>2 DEF ChangeNode, conf, screen
  <2>2. dialogs' \in Seq(Floating)
    BY <2>1 DEF Floating
  <2> QED BY <1>1, <2>1, <2>2, DialogStep DEF Inv
<1>3. CASE IsTri(kconf, kconf.item[n])
  <2>1. dialogs' = dialogs
    BY <1>3 DEF ChangeNode
  <2>2. CASE \E v, leaves : SetVal(kconf.item[n], v, leaves)
    BY <1>1, <2>1, <2>2, SetValStep DEF Inv
  <2>3. CASE Display(Lost(ui)) /\ UNCHANGED <<kconf, conf, screen, session, store, jump, paging>>
    <3>1. Sound(Lost(ui), vals, height)
      BY <1>1, LostSound
    <3>2. /\ Display(Lost(ui)) /\ kconf' = kconf /\ vals' = vals /\ term' = term
          /\ height' = height /\ jump' = jump
      BY <2>3 DEF conf, screen
    <3> QED BY <2>1, <3>1, <3>2, MoveStep
  <2> QED BY <1>3, <2>2, <2>3 DEF ChangeNode
<1> QED BY <1>2, <1>3

LEMMA ChangeKeys ==
    ASSUME ListsMenus(vals'), Inv, Space \/ Enter
    PROVE  Inv'
<1>1. Key("change") \/ Key("enter")
  BY DEF Space, Enter
<1>2. /\ outcome = "running" /\ dialogs = <<>> /\ Sound(ui, vals, height)
      /\ ui \in Screens /\ ui.scroll <= ui.sel
  BY <1>1, KeyAtMain, AtMain
<1>3. ASSUME NEW x, Sound(x, vals, height), Move(x) PROVE Inv'
  BY <1>3, MoveStep DEF Move, conf, screen
<1>4. CASE \E n : ChangeNode(n)
  BY <1>2, <1>4, ChangeStep
<1>5. CASE \E n : CanEnter(ui, n, vals) /\ Move(EnterMenu(ui, n, vals, height))
  <2>1. PICK n : CanEnter(ui, n, vals) /\ Move(EnterMenu(ui, n, vals, height))
    BY <1>5
  <2>2. Sound(EnterMenu(ui, n, vals, height), vals, height)
    BY <1>2, <2>1, EnterSound DEF Inv
  <2> QED BY <1>3, <2>1, <2>2
<1>6. CASE Move(ui)
  BY <1>2, <1>3, <1>6
<1>7. CASE Space
  <2>1. CASE Changeable(Selected)
    BY <1>4, <1>7, <2>1 DEF Space
  <2>2. CASE ~Changeable(Selected) /\ CanEnter(ui, Selected, vals)
    BY <1>5, <1>7, <2>2 DEF Space
  <2>3. CASE ~Changeable(Selected) /\ ~CanEnter(ui, Selected, vals)
    BY <1>6, <1>7, <2>3 DEF Space
  <2> QED BY <2>1, <2>2, <2>3
<1>8. CASE Enter
  <2>1. CASE CanEnter(ui, Selected, vals)
    BY <1>5, <1>8, <2>1 DEF Enter
  <2>2. CASE ~CanEnter(ui, Selected, vals) /\ Changeable(Selected)
    BY <1>4, <1>8, <2>2 DEF Enter
  <2>3. CASE ~Changeable(Selected) /\ ~CanEnter(ui, Selected, vals)
    BY <1>6, <1>8, <2>3 DEF Enter
  <2> QED BY <2>1, <2>2, <2>3
<1> QED BY <1>7, <1>8

LEMMA ValueKeys ==
    ASSUME ListsMenus(vals'), Inv,
           (\E v \in 0..2 : SetTriVal(v)) \/ (\E v \in Typed : InputText(v))
    PROVE  Inv'
<1>1. CASE \E v \in 0..2 : SetTriVal(v)
  <2>1. PICK i, v : Key("change") /\ SetVal(i, v, FALSE) /\ dialogs' = dialogs
    BY <1>1, Zenon DEF SetTriVal
  <2>2. Listing(ui, vals) /\ InWindow(ui, height)
    BY <2>1, KeyAtMain, AtMain
  <2>3. dialogs' \in Filling \cup Seq(Floating)
    BY <2>1 DEF Inv
  <2> HIDE <1>1
  <2> QED BY <2>1, <2>2, <2>3, SetValStep, Zenon
<1>2. CASE \E v \in Typed : InputText(v)
  <2>1. PICK v \in Typed : InputText(v)
    BY <1>2
  <2>2. outcome = "running" /\ Top = "input"
    BY <2>1 DEF InputText, Running, Typed
  <2>3. Listing(ui, vals) /\ InWindow(ui, height)
    BY <2>2, AtMain
  <2> DEFINE i == kconf.item[Selected]
             Rest == UNCHANGED <<kconf, conf, ui, screen, session, store, jump, paging>>
  <2>4. CASE (\E leaves : SetVal(i, v, leaves)) /\ dialogs' = <<>>
    <3>1. dialogs' \in Filling \cup Seq(Floating)
      BY <2>4
    <3> QED BY <2>3, <2>4, <3>1, SetValStep, Zenon
  <2>5. CASE Rest /\ dialogs' \in {<<"message">> \o dialogs, dialogs}
             /\ (outcome' = outcome \/ outcome' = "crash")
    <3>1. dialogs \in Seq(Floating)
      BY <2>2, TopFilling, TopIs DEF Inv
    <3>2. PICK m \in Floating : m = "message"
      BY DEF Floating
    <3>3. dialogs' \in Seq(Floating)
      <4>1. <<m>> \o dialogs \in Seq(Floating)
        BY <3>1
      <4> QED BY <2>5, <3>1, <3>2, <4>1
    <3>4. kconf' = kconf /\ vals' = vals /\ ui' = ui /\ term' = term /\ height' = height
          /\ jump' = jump
      BY <2>5 DEF conf, screen
    <3> QED BY <2>2, <2>5, <3>3, <3>4, DialogStep DEF Inv
  <2>6. CASE vals.of[i].check[v] = "valid"
    BY <2>1, <2>4, <2>6 DEF InputText
  <2>7. CASE vals.of[i].check[v] = "error"
    BY <2>1, <2>5, <2>7 DEF InputText
  <2>8. CASE vals.of[i].check[v] \notin {"valid", "error"}
    BY <2>1, <2>5, <2>8 DEF InputText
  <2> QED BY <2>6, <2>7, <2>8
<1> QED BY <1>1, <1>2

(* Dialogs that float *)
LEMMA FloatStep ==
    ASSUME Inv, dialogs \in Seq(Floating), kconf' = kconf, vals' = vals, ui' = ui,
           term' = term, height' = height, jump' = jump,
           outcome' = outcome \/ outcome' # "running",
           \/ dialogs' = dialogs
           \/ dialogs # <<>> /\ dialogs' = Tail(dialogs)
           \/ \E d \in Floating : dialogs' = <<d>> \/ dialogs' = <<d>> \o dialogs
    PROVE  Inv'
<1>1. dialogs' \in Seq(Floating)
  <2>1. CASE dialogs # <<>> /\ dialogs' = Tail(dialogs)
    BY <2>1
  <2>2. ASSUME NEW d \in Floating, dialogs' = <<d>> \/ dialogs' = <<d>> \o dialogs
        PROVE  dialogs' \in Seq(Floating)
    <3>1. <<d>> \in Seq(Floating) /\ <<d>> \o dialogs \in Seq(Floating)
      OBVIOUS
    <3> QED BY <2>2, <3>1
  <2> QED BY <2>1, <2>2
<1>2. Top \notin {"jump", "info"}
  BY TopFloating, TopIs
<1> QED BY <1>1, <1>2, DialogStep DEF Inv

LEMMA Floats ==
    ASSUME Inv, Top \notin {"jump", "info"}
    PROVE  dialogs \in Seq(Floating)
  BY TopFilling, TopIs DEF Inv

LEMMA OpenStep ==
    ASSUME Inv, Top \notin {"jump", "info"}, NEW d \in Floating, Open(d)
    PROVE  Inv'
<1>1. dialogs \in Seq(Floating)
  BY Floats
<1>2. /\ kconf' = kconf /\ vals' = vals /\ ui' = ui /\ term' = term /\ height' = height
      /\ jump' = jump /\ outcome' = outcome /\ dialogs' = <<d>> \o dialogs
  BY DEF Open, conf, screen
<1> QED BY <1>1, <1>2, FloatStep

LEMMA FailsStep ==
    ASSUME Inv, Top \notin {"jump", "info"}, NEW f, NEW contents, Fails(f, contents)
    PROVE  Inv'
<1>1. dialogs \in Seq(Floating) /\ "message" \in Floating
  BY Floats DEF Floating
<1>2. /\ kconf' = kconf /\ vals' = vals /\ ui' = ui /\ term' = term /\ height' = height
      /\ jump' = jump /\ outcome' = outcome /\ dialogs' = <<"message">> \o dialogs
  BY DEF Fails, conf, screen
<1> QED BY <1>1, <1>2, FloatStep

LEMMA DialogKeys ==
    ASSUME Inv, Load \/ LoadAnyway \/ Save \/ SaveMin \/ Close
                \/ \E f \in DOMAIN disk : LoadFails(f)
    PROVE  Inv'
<1>1. /\ "loadask" \in Floating /\ "loadname" \in Floating /\ "savename" \in Floating
      /\ "savemin" \in Floating /\ "message" \in Floating
  BY DEF Floating
<1>2. CASE Load
  <2>1. Top \notin {"jump", "info"} /\ (Open("loadask") \/ Open("loadname"))
    BY <1>2, KeyAtMain DEF Load
  <2> QED BY <1>1, <2>1, OpenStep
<1>3. CASE Save
  <2>1. Top \notin {"jump", "info"} /\ Open("savename")
    BY <1>3, KeyAtMain DEF Save
  <2> QED BY <1>1, <2>1, OpenStep
<1>4. CASE SaveMin
  <2>1. Top \notin {"jump", "info"} /\ Open("savemin")
    BY <1>4, KeyAtMain DEF SaveMin
  <2> QED BY <1>1, <2>1, OpenStep
<1>5. CASE \E f \in DOMAIN disk : LoadFails(f)
  <2>1. Top \notin {"jump", "info"} /\ Open("message")
    BY <1>5 DEF LoadFails
  <2> QED BY <1>1, <2>1, OpenStep
<1>6. CASE LoadAnyway
  <2>1. Top \notin {"jump", "info"}
    BY <1>6 DEF LoadAnyway
  <2>2. /\ kconf' = kconf /\ vals' = vals /\ ui' = ui /\ term' = term /\ height' = height
        /\ jump' = jump /\ outcome' = outcome /\ dialogs' = <<"loadname">>
    BY <1>6 DEF LoadAnyway, conf, screen
  <2> QED BY <1>1, <2>1, <2>2, Floats, FloatStep
<1>7. CASE Close
  <2>1. Top \notin {"jump", "info"} /\ dialogs # <<>>
    BY <1>7 DEF Close, Floating, Top
  <2>2. /\ kconf' = kconf /\ vals' = vals /\ ui' = ui /\ term' = term /\ height' = height
        /\ jump' = jump /\ outcome' = outcome /\ dialogs' = Tail(dialogs)
    BY <1>7 DEF Close, conf, screen
  <2> QED BY <2>1, <2>2, Floats, FloatStep
<1> QED BY <1>2, <1>3, <1>4, <1>5, <1>6, <1>7

LEMMA SaveKeys ==
    ASSUME Inv, (\E f \in DOMAIN disk : SaveFile(f) \/ SaveMinFile(f))
                \/ Quit \/ QuitSaving \/ QuitDiscarding
    PROVE  Inv'
<1>1. "message" \in Floating /\ "quit" \in Floating
  BY DEF Floating
<1>2. Top \notin {"jump", "info"}
  BY KeyAtMain DEF SaveFile, SaveMinFile, Quit, QuitSaving, QuitDiscarding
<1>3. ASSUME kconf' = kconf /\ vals' = vals /\ ui' = ui /\ term' = term /\ height' = height
             /\ jump' = jump,
             outcome' = outcome \/ outcome' # "running",
             dialogs' = dialogs \/ dialogs' = <<"message">>
      PROVE  Inv'
  BY <1>1, <1>2, <1>3, Floats, FloatStep
<1>4. CASE \E f \in DOMAIN disk : SaveFile(f) \/ SaveMinFile(f)
  BY <1>2, <1>3, <1>4, FailsStep DEF SaveFile, SaveMinFile, conf, screen
<1>5. CASE Quit
  <2>1. CASE changed
    BY <1>1, <1>2, <1>5, <2>1, OpenStep DEF Quit
  <2>2. CASE ~changed
    BY <1>3, <1>5, <2>2 DEF Quit, conf, screen
  <2> QED BY <2>1, <2>2
<1>6. CASE QuitSaving
  BY <1>2, <1>3, <1>6, FailsStep DEF QuitSaving, conf, screen
<1>7. CASE QuitDiscarding
  BY <1>3, <1>7 DEF QuitDiscarding, conf, screen
<1> QED BY <1>4, <1>5, <1>6, <1>7

LEMMA LoadKey ==
    ASSUME ListsMenus(vals'), Inv, NEW f, LoadFile(f)
    PROVE  Inv'
<1>1. /\ Listing(ui, vals) /\ InWindow(ui, height) /\ ui \in Screens
      /\ ui.sel < Len(ui.shown)
  BY AtMain DEF LoadFile, Running
<1>2. PICK u, w : w = Values(kconf, u) /\ vals' = w /\ Display(Loading(ui, w))
  BY DEF LoadFile
<1>3. /\ kconf' = kconf /\ term' = term /\ height' = height /\ jump' = jump
      /\ dialogs' = <<"message">>
  BY DEF LoadFile, screen
<1>4. ListsMenus(w)
  BY <1>2
<1>5. Sound(Loading(ui, w), w, height)
  <2> DEFINE all == ui.all \/ Selected \notin Range(ShownIn(ui.menu, ui.all, w))
             x == [ui EXCEPT !.all = all]
  <2>1. PICK a \in BOOLEAN : a = all
    OBVIOUS
  <2>2. x = [ui EXCEPT !.all = a]
    BY <2>1, Zenon
  <2> HIDE DEF x
  <2>3. /\ x \in Screens /\ x.sel = ui.sel /\ x.scroll = ui.scroll /\ x.shown = ui.shown
    BY <1>1, <2>2 DEF Screens
  <2>4. Sound(UpdateMenu(x, w), w, height)
    BY <1>1, <1>4, <2>3, UpdateSound DEF Inv, InWindow
  <2> QED BY <2>4 DEF Loading, x
<1>6. dialogs' \in Seq(Floating)
  BY <1>3 DEF Floating
<1>7. MainFits'
  BY <1>2, <1>3, <1>5, MainDisplayed DEF Display
<1> QED BY <1>2, <1>3, <1>4, <1>6, <1>7, InvStep DEF Inv

(* Dialogs that fill the screen *)
LEMMA FillingTails == \A d \in Filling : Len(d) = 1 \/ Tail(d) \in Filling
<1>1. ASSUME NEW d \in Filling, Len(d) # 1 PROVE Tail(d) \in Filling
  <2>1. Tail(d) \in Seq({"info", "jump"}) /\ Len(Tail(d)) = Len(d) - 1 /\ Len(d) - 1 # 0
    BY <1>1 DEF Filling
  <2> QED BY <2>1 DEF Filling
<1> QED BY <1>1

LEMMA FillingOpens ==
    ASSUME NEW d, d = <<>> \/ d \in Filling, NEW top \in {"info", "jump"}
    PROVE  <<top>> \o d \in Filling
<1>1. d \in Seq({"info", "jump"})
  <2>1. <<>> \in Seq({"info", "jump"})
    OBVIOUS
  <2> QED BY <2>1, Zenon DEF Filling
<1>2. <<top>> \o d \in Seq({"info", "jump"})
  BY <1>1
<1>3. Len(<<top>> \o d) # 0
  BY <1>1
<1> QED BY <1>2, <1>3 DEF Filling

LEMMA Fills ==
    ASSUME Inv, Top \in {"jump", "info"}
    PROVE  dialogs \in Filling /\ Top = Head(dialogs)
<1>1. dialogs \notin Seq(Floating)
  BY TopFloating, TopIs
<1> QED BY <1>1 DEF Inv, Top

LEMMA FillStep ==
    ASSUME Inv, kconf' = kconf, vals' = vals, ui' = ui, term' = term, height' = height,
           outcome' = outcome, JumpFits(jump'), dialogs' \in Filling
    PROVE  Inv'
  BY TopFilling, DialogStep

(* The list of matches in a window of height h *)
LEMMA MatchesFit ==
    ASSUME NEW x, JumpFits(x), NEW h \in Nat \ {0}
    PROVE  JumpFits([Fit(x, h) EXCEPT !.height = h])
<1> DEFINE y == Fit(x, h)
           z == [y EXCEPT !.height = h]
<1>1. /\ x \in MatchLists /\ x.scroll <= x.sel
      /\ x.matches # <<>> => x.sel < Len(x.matches)
  BY DEF JumpFits, InWindow
<1>2. y \in MatchLists /\ SameMatches(x, y) /\ y.sel = x.sel /\ InWindow(y, h)
  BY <1>1, FitInWindow
<1> HIDE DEF y
<1>3. /\ z \in MatchLists /\ z.matches = y.matches /\ z.sel = y.sel /\ z.scroll = y.scroll
      /\ z.height = h
  BY <1>2 DEF MatchLists
<1> HIDE DEF z
<1>4. JumpFits(z)
  BY <1>1, <1>2, <1>3 DEF JumpFits, SameMatches, InWindow
<1> QED BY <1>4 DEF z, y

LEMMA InfoKey == ASSUME Inv, Info PROVE Inv'
<1>1. dialogs = <<>> \/ (Top = "jump" /\ dialogs \in Filling)
  BY KeyAtMain, Fills DEF Info
<1>2. <<"info">> \o dialogs \in Filling
  BY <1>1, FillingOpens, Fills
<1>3. /\ kconf' = kconf /\ vals' = vals /\ ui' = ui /\ term' = term /\ height' = height
      /\ jump' = jump /\ outcome' = outcome /\ dialogs' = <<"info">> \o dialogs
  BY DEF Info, Open, conf, screen
<1> QED BY <1>2, <1>3, FillStep DEF Inv

LEMMA OpenJumpKey == ASSUME kconf \in Kconfigs, Inv, OpenJump PROVE Inv'
<1>1. dialogs = <<>> \/ dialogs \in Filling
  BY KeyAtMain DEF OpenJump, Filling
<1>2. <<"jump">> \o dialogs \in Filling
  BY <1>1, FillingOpens
<1>3. /\ kconf' = kconf /\ vals' = vals /\ ui' = ui /\ term' = term /\ height' = height
      /\ outcome' = outcome /\ dialogs' = <<"jump">> \o dialogs
      /\ jump' = [matches |-> kconf.searchable, sel |-> 0, scroll |-> 0,
                  height |-> JumpHeight(term)]
  BY DEF OpenJump, conf, screen
<1>4. JumpFits(jump')
  <2>1. kconf.searchable \in Seq(kconf.nodes \ {kconf.top})
    BY KconfigsAssumption
  <2>2. JumpHeight(term) \in Nat \ {0}
    BY Heights DEF Inv
  <2> QED BY <1>3, <2>1, <2>2 DEF JumpFits, MatchLists, InWindow
<1> QED BY <1>2, <1>3, <1>4, FillStep

LEMMA LeaveFilling ==
    ASSUME Inv, LeaveInfo \/ CancelJump
    PROVE  Inv'
<1>1. outcome = "running" /\ Top \in {"jump", "info"}
  BY DEF LeaveInfo, CancelJump, Running
<1>2. dialogs \in Filling
  BY <1>1, Fills
<1>3. Listing(ui, vals) /\ ui.scroll <= ui.sel
  BY <1>1 DEF Inv, MainFits
<1>4. CASE Len(dialogs) = 1
  <2>1. ToMain(ui) /\ jump' = jump
    BY <1>4 DEF LeaveInfo, CancelJump
  <2> QED BY <1>3, <2>1, ToMainStep
<1>5. CASE Len(dialogs) # 1
  <2>1. /\ kconf' = kconf /\ vals' = vals /\ ui' = ui /\ term' = term /\ height' = height
        /\ outcome' = outcome /\ dialogs' = Tail(dialogs)
        /\ \/ jump' = jump
           \/ jump' = [Fit(jump, JumpHeight(term)) EXCEPT !.height = JumpHeight(term)]
    BY <1>5 DEF LeaveInfo, CancelJump, conf, screen
  <2>2. dialogs' \in Filling
    BY <1>2, <1>5, <2>1, FillingTails
  <2>3. JumpFits(jump')
    BY <2>1, Heights, MatchesFit DEF Inv
  <2> QED BY <2>1, <2>2, <2>3, FillStep
<1> QED BY <1>4, <1>5

LEMMA MatchKeys ==
    ASSUME Inv, SelectMatch \/ \E found \in kconf.searches : Search(found)
    PROVE  Inv'
<1>1. /\ kconf' = kconf /\ vals' = vals /\ ui' = ui /\ term' = term /\ height' = height
      /\ outcome' = outcome /\ dialogs' = dialogs /\ Top = "jump"
  BY DEF SelectMatch, Search, Matching, conf, screen
<1>2. dialogs' \in Filling
  BY <1>1, Fills
<1>3. /\ jump \in MatchLists /\ jump.matches \in Seq(kconf.nodes \ {kconf.top})
      /\ jump.height \in Nat \ {0} /\ jump.sel \in Nat /\ InWindow(jump, jump.height)
      /\ jump.matches # <<>> => jump.sel < Len(jump.matches)
  BY DEF Inv, JumpFits, MatchLists
<1>4. CASE \E found \in kconf.searches : Search(found)
  <2>1. PICK found \in kconf.searches :
             jump' = [jump EXCEPT !.matches = found, !.sel = 0, !.scroll = 0]
    BY <1>4 DEF Search, Matching
  <2>2. found \in Seq(kconf.nodes \ {kconf.top})
    BY KconfigsAssumption DEF Inv
  <2>3. /\ jump' \in MatchLists /\ jump'.matches = found /\ jump'.sel = 0 /\ jump'.scroll = 0
        /\ jump'.height = jump.height
    BY <1>3, <2>1, <2>2 DEF MatchLists
  <2>4. JumpFits(jump')
    BY <1>3, <2>2, <2>3 DEF JumpFits, InWindow
  <2> QED BY <1>1, <1>2, <2>4, FillStep
<1>5. CASE SelectMatch
  <2>1. ASSUME jump' \in MatchLists, SameMatches(jump, jump'),
               jump'.sel < Len(jump.matches), InWindow(jump', jump.height)
        PROVE  Inv'
    <3>1. JumpFits(jump')
      BY <2>1 DEF JumpFits, SameMatches
    <3> QED BY <1>1, <1>2, <3>1, FillStep
  <2>2. jump.matches # <<>> /\ jump.sel < Len(jump.matches) /\ Len(jump.matches) # 0
    BY <1>3, <1>5 DEF SelectMatch
  <2>3. CASE jump' = SelectNext(jump, jump.matches, jump.height)
    BY <1>3, <2>1, <2>2, <2>3, NextInWindow, NextType
  <2>4. CASE jump' = SelectPrev(jump)
    <3>1. /\ jump' \in MatchLists /\ SameMatches(jump, jump')
          /\ jump'.sel <= jump.sel /\ InWindow(jump', jump.height)
      BY <1>3, <2>4, PrevInWindow, PrevType
    <3>2. jump'.sel \in Nat /\ Len(jump.matches) \in Nat
      BY <1>3, <3>1 DEF MatchLists
    <3>3. jump'.sel < Len(jump.matches)
      BY <1>3, <2>2, <3>1, <3>2
    <3> QED BY <2>1, <3>1, <3>3
  <2>5. CASE jump' = SelectLast(jump, jump.matches, jump.height)
    BY <1>3, <2>1, <2>2, <2>5, EndsInWindow
  <2>6. CASE jump' = SelectFirst(jump)
    BY <1>3, <2>1, <2>2, <2>6, EndsInWindow
  <2> QED BY <1>5, <2>3, <2>4, <2>5, <2>6 DEF SelectMatch, Matching
<1> QED BY <1>4, <1>5

LEMMA JumpKey == ASSUME Inv, Jump PROVE Inv'
<1> DEFINE n == jump.matches[jump.sel + 1]
           z == Center(Settled(Landed(ui, n, vals), n, vals), height)
<1>1. outcome = "running" /\ jump' = jump /\ jump.matches # <<>>
  BY DEF Jump, Running
<1>2. n \in kconf.nodes \ {kconf.top}
  <2>1. /\ jump.matches \in Seq(kconf.nodes \ {kconf.top}) /\ jump.sel \in Nat
        /\ jump.sel < Len(jump.matches)
    BY <1>1 DEF Inv, JumpFits, MatchLists
  <2>2. jump.sel + 1 \in 1..Len(jump.matches)
    BY <2>1
  <2> QED BY <2>1, <2>2
<1>3. ui \in Screens
  BY <1>1 DEF Inv, MainFits, Listing
<1>4. ToMain(IF JumpInto(n) THEN IfChoice(z, vals, height) ELSE z)
  BY Zenon DEF Jump, JumpTo
<1> HIDE DEF n
<1>5. Sound(z, vals, height) /\ Sound(IfChoice(z, vals, height), vals, height)
  BY <1>2, <1>3, JumpSound, Zenon DEF Inv
<1> HIDE DEF z
<1>6. PICK x : (x = z \/ x = IfChoice(z, vals, height)) /\ ToMain(x)
  BY <1>4
<1>7. Sound(x, vals, height)
  BY <1>5, <1>6
<1>8. (Listing(x, vals) /\ x.scroll <= x.sel) \/ (x \in Screens /\ x.lost)
  BY <1>7 DEF Sound, InWindow
<1> QED BY <1>1, <1>6, <1>8, ToMainStep

LEMMA Resizes ==
    ASSUME Inv, NEW t \in kconf.terms, Resize(t)
    PROVE  Inv'
<1>1. t \in Nat \ {0} /\ outcome = "running"
  BY KconfigsAssumption DEF Inv, Resize, Running
<1>2. kconf' = kconf /\ vals' = vals /\ term' = t /\ dialogs' = dialogs
  BY DEF Resize, conf
<1>3. CASE Top \in {"jump", "info"}
  <2>1. /\ height' \in {height, Min2(height, t)} /\ ui' = ui /\ outcome' = outcome
        /\ \/ jump' = jump
           \/ jump' = [Fit(jump, JumpHeight(t)) EXCEPT !.height = JumpHeight(t)]
    BY <1>3 DEF Resize
  <2>2. height' \in Nat \ {0}
    BY <1>1, <2>1 DEF Inv, Min2
  <2>3. JumpFits(jump')
    BY <1>1, <2>1, Heights, MatchesFit DEF Inv
  <2>4. MainFits'
    <3>1. Listing(ui, vals) /\ ui.scroll <= ui.sel
      BY <1>1 DEF Inv, MainFits
    <3>2. TopOf(dialogs') \in {"jump", "info"}
      BY <1>2, <1>3, TopIs
    <3> QED BY <1>2, <2>1, <3>1, <3>2, SameInstance DEF MainFits, Listing
  <2> QED BY <1>1, <1>2, <2>2, <2>3, <2>4, InvStep DEF Inv
<1>4. CASE Top \notin {"jump", "info"}
  <2>1. /\ height' = MainHeight(t, help) /\ ui' = Fit(ui, height') /\ jump' = jump
        /\ outcome' = IF ui'.lost THEN "crash" ELSE "running"
    BY <1>4 DEF Resize, Display
  <2>2. height' \in Nat \ {0}
    BY <1>1, <2>1, Heights
  <2>3. Listing(ui, vals) /\ ui.scroll <= ui.sel
    BY <1>1, <1>4, AtMain
  <2>4. Sound(Fit(ui, height'), vals, height')
    BY <2>2, <2>3, FitSound
  <2>5. MainFits'
    BY <1>2, <2>1, <2>4, MainDisplayed
  <2> QED BY <1>1, <1>2, <2>1, <2>2, <2>5, InvStep DEF Inv
<1> QED BY <1>3, <1>4

-----------------------------------------------------------------------------
(* The user values are of those there can be, and so are the files; and    *)
(* what the text dialog is about is a symbol with a text.                  *)
Valid == user \in UserValues(kconf) /\ vals = Values(kconf, user)

Stored ==
    /\ DOMAIN disk = DOMAIN kconf.disk /\ file \in DOMAIN disk
    /\ \A f \in DOMAIN disk : disk[f].lines \in FilesOf(kconf)

Asking ==
    "input" \in Range(dialogs) =>
        kconf.item[Selected] \in kconf.syms /\ ~IsTri(kconf, kconf.item[Selected])

Data == Valid /\ Stored /\ Asking

(* The steps that leave values and files alone *)
Looking ==
    \/ Down \/ Up \/ End \/ Home \/ Leave \/ ToggleAll \/ ToggleHelp
    \/ PageStep \/ \E n \in {PgJump, -PgJump} : Page(n)
    \/ Load \/ LoadAnyway \/ Save \/ SaveMin \/ Close \/ \E f \in DOMAIN disk : LoadFails(f)
    \/ Info \/ LeaveInfo \/ OpenJump \/ SelectMatch \/ Jump \/ CancelJump
    \/ \E found \in kconf.searches : Search(found)
    \/ \E t \in kconf.terms : Resize(t)

LEMMA NextCases ==
    ASSUME Next
    PROVE  \/ Looking \/ Space \/ Enter
           \/ \E v \in 0..2 : SetTriVal(v)
           \/ \E v \in Typed : InputText(v)
           \/ \E f \in DOMAIN disk : LoadFile(f) \/ SaveFile(f) \/ SaveMinFile(f)
           \/ Quit \/ QuitSaving \/ QuitDiscarding
  BY DEF Next, Looking

LEMMA LookingOnly ==
    ASSUME Looking
    PROVE  UNCHANGED <<kconf, conf, session, store>>
<1>1. CASE Down \/ Up \/ End \/ Home \/ Leave \/ ToggleAll \/ ToggleHelp
  BY <1>1 DEF Down, Up, End, Home, Leave, ToggleAll, ToggleHelp, Move
<1>2. CASE PageStep \/ \E n \in {PgJump, -PgJump} : Page(n)
  BY <1>2 DEF PageStep, Page
<1>3. CASE Load \/ LoadAnyway \/ Save \/ SaveMin \/ Close
           \/ \E f \in DOMAIN disk : LoadFails(f)
  BY <1>3 DEF Load, LoadAnyway, Save, SaveMin, Close, LoadFails, Open
<1>4. CASE Info \/ LeaveInfo \/ OpenJump \/ CancelJump
  BY <1>4 DEF Info, LeaveInfo, OpenJump, CancelJump, Open, ToMain
<1>5. CASE Jump
  <2>1. \E x : ToMain(x)
    BY <1>5, Zenon DEF Jump, JumpTo
  <2> QED BY <2>1 DEF ToMain
<1>6. CASE SelectMatch \/ \E found \in kconf.searches : Search(found)
  BY <1>6 DEF SelectMatch, Search, Matching
<1>7. CASE \E t \in kconf.terms : Resize(t)
  BY <1>7 DEF Resize
<1> QED BY <1>1, <1>2, <1>3, <1>4, <1>5, <1>6, <1>7 DEF Looking

(* What Space and Enter do, and what is chosen by them *)
LEMMA ChangeCases ==
    ASSUME Space \/ Enter
    PROVE  \/ Move(ui)
           \/ CanEnter(ui, Selected, vals) /\ Move(EnterMenu(ui, Selected, vals, height))
           \/ Changeable(Selected) /\ ChangeNode(Selected)
<1>1. CASE Space
  BY <1>1, Zenon DEF Space
<1>2. CASE Enter
  BY <1>2, Zenon DEF Enter
<1> QED BY <1>1, <1>2

LEMMA NextValOffered ==
    ASSUME ValuesFit, kconf \in Kconfigs, Valid, Changeable(Selected),
           NEW i, i = kconf.item[Selected], IsTri(kconf, i)
    PROVE  i \in Items(kconf) /\ NextVal(i) \in vals.of[i].asg
<1> DEFINE asg == vals.of[i].asg
           above == {v \in asg : v > vals.of[i].val}
<1>1. i \in Items(kconf)
  BY DEF Changeable
<1>2. /\ asg \subseteq Valued(kconf, i)
      /\ \A s \in kconf.syms :
            kconf.choiceOf[s] # NoItem /\ vals.of[s].vis = 2 /\ IsTri(kconf, s)
                => vals.of[s].asg # {}
  BY <1>1 DEF ValuesFit, Valid
<1>3. asg \subseteq Nat
  BY <1>2 DEF Valued
<1>4. asg # {}
  <2>1. (\E v, w \in asg : v # w) \/ IsYModeChoiceSym(i, vals)
    BY DEF Changeable
  <2> QED BY <1>2, <2>1 DEF IsYModeChoiceSym
<1> HIDE DEF asg
<1>5. CASE above # {}
  <2>1. above \subseteq Nat /\ above \subseteq asg
    BY <1>3
  <2>2. Min(above) \in above
    BY <1>5, <2>1, MinOfNats
  <2> QED BY <1>1, <1>5, <2>1, <2>2 DEF NextVal, asg
<1>6. CASE above = {}
  <2>1. Min(asg) \in asg
    BY <1>3, <1>4, MinOfNats
  <2> QED BY <1>1, <1>6, <2>1 DEF NextVal, asg
<1> QED BY <1>5, <1>6

-----------------------------------------------------------------------------
(* A value that is set is one that the selected symbol or choice may have. *)
Chosen(i, v) ==
    i = kconf.item[Selected] /\ i \in Items(kconf) /\ v \in Offers(kconf, vals, i)

LEMMA ChangeNodeCases ==
    ASSUME ValuesFit, kconf \in Kconfigs, Valid, Changeable(Selected), ChangeNode(Selected)
    PROVE  LET i == kconf.item[Selected] IN
           \/ /\ i \in kconf.syms /\ ~IsTri(kconf, i) /\ dialogs' = <<"input">>
              /\ UNCHANGED <<kconf, conf, ui, screen, session, store, jump, paging, outcome>>
           \/ /\ dialogs' = dialogs
              /\ \E v, leaves : Chosen(i, v) /\ SetVal(i, v, leaves)
           \/ /\ dialogs' = dialogs
              /\ i \in Items(kconf) /\ IsTri(kconf, i)
              /\ ~(vals.of[i].val \in vals.of[i].asg \/ \A v, w \in vals.of[i].asg : v = w)
              /\ Display(Lost(ui))
              /\ UNCHANGED <<kconf, conf, screen, session, store, jump, paging>>
<1> DEFINE i == kconf.item[Selected]
<1>1. i \in Items(kconf)
  BY DEF Changeable
<1>2. CASE ~IsTri(kconf, i)
  <2>1. i \in kconf.syms
    BY <1>1, <1>2, RightItems DEF Items, ItemsRight
  <2> QED BY <1>2, <2>1 DEF ChangeNode
<1>3. CASE IsTri(kconf, i) /\ (vals.of[i].val \in vals.of[i].asg
                               \/ \A v, w \in vals.of[i].asg : v = w)
  <2>1. SetVal(i, NextVal(i), kconf.list[Selected] = <<>>) /\ dialogs' = dialogs
    BY <1>3, Zenon DEF ChangeNode
  <2>2. NextVal(i) \in vals.of[i].asg
    BY <1>3, NextValOffered
  <2>3. Chosen(i, NextVal(i))
    BY <1>1, <1>3, <2>2 DEF Chosen, Offers
  <2> QED BY <2>1, <2>3, Zenon
<1>4. CASE IsTri(kconf, i) /\ ~(vals.of[i].val \in vals.of[i].asg
                                \/ \A v, w \in vals.of[i].asg : v = w)
  BY <1>1, <1>4, Zenon DEF ChangeNode
<1> QED BY <1>2, <1>3, <1>4

LEMMA TriChosen ==
    ASSUME ValuesFit, kconf \in Kconfigs, Valid, NEW v \in 0..2, SetTriVal(v)
    PROVE  Chosen(kconf.item[Selected], v) /\ SetVal(kconf.item[Selected], v, FALSE)
<1> DEFINE i == kconf.item[Selected]
<1>1. i \in Items(kconf) /\ v \in vals.of[i].asg /\ SetVal(i, v, FALSE)
  BY Zenon DEF SetTriVal
<1>2. IsTri(kconf, i)
  BY <1>1 DEF ValuesFit, Valid
<1> QED BY <1>1, <1>2 DEF Chosen, Offers

LEMMA TextCases ==
    ASSUME Asking, dialogs \in Seq(Floating) \cup Filling, NEW v \in Typed, InputText(v)
    PROVE  LET i == kconf.item[Selected] IN
           /\ i \in kconf.syms /\ ~IsTri(kconf, i) /\ v \in kconf.inputs[i] /\ Top = "input"
           /\ \/ /\ Chosen(i, v) /\ dialogs' = <<>>
                 /\ \E leaves : SetVal(i, v, leaves)
              \/ /\ vals.of[i].check[v] = "error" /\ dialogs' = <<"message">> \o dialogs
                 /\ UNCHANGED <<kconf, conf, ui, screen, session, store, jump, paging, outcome>>
              \/ /\ vals.of[i].check[v] \notin {"valid", "error"}
                 /\ UNCHANGED <<kconf, conf, ui, screen, session, store, dialogs, jump, paging>>
<1> DEFINE i == kconf.item[Selected]
<1>1. Top = "input" /\ v \in kconf.inputs[i]
  BY DEF Typed
<1>2. dialogs # <<>> /\ Head(dialogs) = "input"
  BY <1>1 DEF Top
<1>3. dialogs[1] = "input" /\ 1 \in DOMAIN dialogs
  BY <1>2 DEF Filling
<1>4. "input" \in Range(dialogs)
  BY <1>3 DEF Range
<1>5. i \in kconf.syms /\ ~IsTri(kconf, i)
  BY <1>4 DEF Asking
<1> HIDE DEF i
<1>6. CASE vals.of[i].check[v] = "valid"
  <2>1. Chosen(i, v)
    BY <1>1, <1>5, <1>6 DEF Chosen, Offers, Items, i
  <2>2. (\E leaves : SetVal(i, v, leaves)) /\ dialogs' = <<>>
    BY <1>6 DEF InputText, i
  <2> QED BY <1>1, <1>5, <2>1, <2>2 DEF i
<1>7. CASE vals.of[i].check[v] = "error"
  BY <1>1, <1>5, <1>7 DEF InputText, i
<1>8. CASE vals.of[i].check[v] \notin {"valid", "error"}
  BY <1>1, <1>5, <1>8 DEF InputText, i
<1> QED BY <1>6, <1>7, <1>8 DEF i

LEMMA OffersValid ==
    ASSUME ValuesFit, kconf \in Kconfigs, Valid, NEW i, NEW v, Chosen(i, v)
    PROVE  v \in Valued(kconf, i)
<1>1. i \in Items(kconf) /\ v \in Offers(kconf, vals, i)
  BY DEF Chosen
<1>2. CASE IsTri(kconf, i)
  BY <1>1, <1>2 DEF Offers, ValuesFit, Valid
<1>3. CASE ~IsTri(kconf, i)
  <2>1. i \in kconf.syms
    BY <1>1, <1>3, RightItems DEF Items, ItemsRight
  <2> QED BY <1>1, <1>3, <2>1, ItemsAssumption DEF Offers, Valued
<1> QED BY <1>2, <1>3

LEMMA SetValCases ==
    ASSUME NEW i, NEW v, NEW leaves, SetVal(i, v, leaves)
    PROVE  /\ UNCHANGED <<kconf, screen, file, store, jump, paging>>
           /\ \/ /\ v = vals.of[i].val /\ UNCHANGED <<conf, changed>>
                 /\ Display(AfterChange(ui, i, leaves, vals))
              \/ /\ v # vals.of[i].val /\ changed' = TRUE
                 /\ user' = SetValue(kconf, user, i, v) /\ vals' = Values(kconf, user')
                 /\ Display(AfterChange(UpdateMenu(ui, vals'), i, leaves, vals'))
<1>1. UNCHANGED <<kconf, screen, file, store, jump, paging>>
  BY DEF SetVal
<1>2. CASE v = vals.of[i].val
  BY <1>1, <1>2 DEF SetVal
<1>3. CASE v # vals.of[i].val
  <2>1. PICK u, w : /\ u = SetValue(kconf, user, i, v) /\ w = Values(kconf, u)
                    /\ user' = u /\ vals' = w /\ changed' = TRUE
                    /\ Display(AfterChange(UpdateMenu(ui, w), i, leaves, w))
    BY <1>3 DEF SetVal
  <2> QED BY <1>1, <1>3, <2>1, Zenon
<1> QED BY <1>2, <1>3

LEMMA SetValValid ==
    ASSUME ValuesFit, kconf \in Kconfigs, Valid, NEW i, NEW v, NEW leaves,
           Chosen(i, v), SetVal(i, v, leaves)
    PROVE  kconf' = kconf /\ Valid'
<1>1. CASE UNCHANGED <<kconf, conf>>
  BY <1>1 DEF Valid, conf
<1>2. CASE /\ kconf' = kconf /\ user' = SetValue(kconf, user, i, v)
           /\ vals' = Values(kconf, user')
  <2>1. UserFits(kconf, user) /\ i \in Items(kconf) /\ v \in Valued(kconf, i)
    BY ValuesFitting, OffersValid DEF Valid, Chosen
  <2>2. user' \in UserValues(kconf)
    BY <1>2, <2>1, RightItems, SetFits, FittingValues DEF Items
  <2> QED BY <1>2, <2>2 DEF Valid
<1> QED BY <1>1, <1>2, SetValCases

LEMMA LoadCases ==
    ASSUME NEW f, LoadFile(f)
    PROVE  /\ f \in DOMAIN disk => disk[f].there
           /\ user' = Loaded(kconf, user, disk[f].lines, TRUE) /\ vals' = Values(kconf, user')
           /\ missing' = DOMAIN disk[f].lines \ kconf.syms
           /\ file' = f /\ changed' = NeedsSave(kconf, user', vals'.of, missing')
           /\ Display(Loading(ui, vals')) /\ dialogs' = <<"message">>
           /\ UNCHANGED <<kconf, screen, store, jump, paging>>
<1>1. PICK u, w : /\ u = Loaded(kconf, user, disk[f].lines, TRUE) /\ w = Values(kconf, u)
                  /\ user' = u /\ vals' = w
                  /\ missing' = DOMAIN disk[f].lines \ kconf.syms
                  /\ file' = f /\ changed' = NeedsSave(kconf, u, w.of, missing')
                  /\ Display(Loading(ui, w))
  BY DEF LoadFile
<1>2. disk[f].there /\ dialogs' = <<"message">> /\ UNCHANGED <<kconf, screen, store, jump, paging>>
  BY DEF LoadFile
<1> QED BY <1>1, <1>2, Zenon

LEMMA LoadValid ==
    ASSUME ValuesFit, kconf \in Kconfigs, Valid, Stored, NEW f \in DOMAIN disk, LoadFile(f)
    PROVE  kconf' = kconf /\ Valid'
<1>1. /\ user' = Loaded(kconf, user, disk[f].lines, TRUE) /\ vals' = Values(kconf, user')
      /\ kconf' = kconf
  BY LoadCases
<1>2. LinesFit(kconf, disk[f].lines)
  BY FilesFit DEF Stored
<1>3. user' \in UserValues(kconf)
  <2>1. UserFits(kconf, user) /\ ItemsRight(kconf)
    BY ValuesFitting, RightItems DEF Valid
  <2>2. UserFits(kconf, user')
    BY <1>1, <1>2, <2>1, LoadedFits
  <2> QED BY <2>2, FittingValues
<1> QED BY <1>1, <1>3 DEF Valid

LEMMA ValidStep ==
    ASSUME ValuesFit, Inv, Data, [Next]_vars
    PROVE  kconf' = kconf /\ Valid'
<1> USE DEF Data
<1>1. ASSUME UNCHANGED <<kconf, conf>> PROVE kconf' = kconf /\ Valid'
  BY <1>1 DEF Valid, conf
<1>2. CASE UNCHANGED vars
  BY <1>1, <1>2 DEF vars
<1>3. CASE Looking
  BY <1>1, <1>3, LookingOnly
<1>4. CASE Space \/ Enter
  <2>1. CASE Changeable(Selected) /\ ChangeNode(Selected)
    <3>1. CASE \E v, leaves : \E i : Chosen(i, v) /\ SetVal(i, v, leaves)
      BY <3>1, SetValValid DEF Inv
    <3> QED BY <1>1, <2>1, <3>1, ChangeNodeCases DEF Inv
  <2>2. CASE \E x : Move(x)
    BY <1>1, <2>2 DEF Move
  <2> QED BY <1>4, <2>1, <2>2, ChangeCases
<1>5. CASE \E v \in 0..2 : SetTriVal(v)
  BY <1>5, TriChosen, SetValValid DEF Inv
<1>6. CASE \E v \in Typed : InputText(v)
  <2>1. PICK v \in Typed : InputText(v)
    BY <1>6
  <2>2. CASE \E i, leaves : Chosen(i, v) /\ SetVal(i, v, leaves)
    BY <2>2, SetValValid DEF Inv
  <2> QED BY <1>1, <2>1, <2>2, TextCases DEF Inv
<1>7. CASE \E f \in DOMAIN disk : LoadFile(f)
  BY <1>7, LoadValid DEF Inv
<1>8. CASE (\E f \in DOMAIN disk : SaveFile(f) \/ SaveMinFile(f)) \/ QuitSaving
  BY <1>1, <1>8 DEF SaveFile, SaveMinFile, QuitSaving, Fails
<1>9. CASE Quit \/ QuitDiscarding
  BY <1>1, <1>9 DEF Quit, QuitDiscarding, Open
<1> QED BY <1>2, <1>3, <1>4, <1>5, <1>6, <1>7, <1>8, <1>9, NextCases

(* Files *)
LEMMA StoredUnder ==
    ASSUME Stored, kconf' = kconf, DOMAIN disk' = DOMAIN disk, file' \in DOMAIN disk,
           \A f \in DOMAIN disk : disk'[f] = disk[f] \/ disk'[f].lines \in FilesOf(kconf)
    PROVE  Stored'
  BY DEF Stored

LEMMA WrittenFits ==
    ASSUME Valid
    PROVE  /\ Empty \in FilesOf(kconf)
           /\ ConfigContents \in FilesOf(kconf) /\ MinContents \in FilesOf(kconf)
           /\ \A l \in LeftOf(kconf, ConfigContents) \cup LeftOf(kconf, MinContents) :
                 l \in FilesOf(kconf)
<1>1. FilesFor(kconf, vals) \in {FilesFor(kconf, Values(kconf, u)) : u \in UserValues(kconf)}
  BY DEF Valid
<1>2. \A l \in FilesFor(kconf, vals) : l \in FilesOf(kconf)
  BY <1>1, Zenon DEF FilesOf
<1> QED BY <1>2 DEF FilesFor, FilesOf, ConfigContents, MinContents

LEMMA SaveStored ==
    ASSUME Valid, Stored, kconf' = kconf, file' \in DOMAIN disk, NEW f,
           NEW contents \in {ConfigContents, MinContents},
           \/ Written(f, contents)
           \/ \E left \in Remains(f, contents) : disk' = [disk EXCEPT ![f] = left]
    PROVE  Stored'
<1>1. PICK r : disk' = [disk EXCEPT ![f] = r] /\ (r = Whole(contents) \/ r \in Remains(f, contents))
  BY DEF Written
<1>2. r = disk[f] \/ r.lines \in FilesOf(kconf)
  <2>1. CASE r = Whole(contents)
    BY <2>1, WrittenFits DEF Whole
  <2>2. CASE r = Missing
    BY <2>2, WrittenFits DEF Missing
  <2>3. CASE \E l \in LeftOf(kconf, contents) : r = Whole(l)
    BY <2>3, WrittenFits DEF Whole
  <2> QED BY <1>1, <2>1, <2>2, <2>3 DEF Remains
<1> QED BY <1>1, <1>2, StoredUnder

LEMMA StoredStep ==
    ASSUME Inv, Data, [Next]_vars, kconf' = kconf
    PROVE  Stored'
<1> USE DEF Data
<1>1. ASSUME UNCHANGED <<file, store>> PROVE Stored'
  BY <1>1 DEF Stored, store
<1>2. CASE UNCHANGED vars
  BY <1>1, <1>2 DEF vars, session
<1>3. CASE Looking
  BY <1>1, <1>3, LookingOnly DEF session
<1>4. ASSUME NEW i, NEW v, NEW leaves, SetVal(i, v, leaves) PROVE Stored'
  BY <1>1, <1>4, SetValCases
<1>5. CASE Space \/ Enter
  <2>1. CASE ChangeNode(Selected)
    BY <1>1, <1>4, <2>1 DEF ChangeNode, session
  <2>2. CASE \E x : Move(x)
    BY <1>1, <2>2 DEF Move, session
  <2> QED BY <1>5, <2>1, <2>2, ChangeCases
<1>6. CASE (\E v \in 0..2 : SetTriVal(v))
  BY <1>4, <1>6, Zenon DEF SetTriVal
<1>7. CASE \E v \in Typed : InputText(v)
  <2>1. PICK v \in Typed : InputText(v)
    BY <1>7
  <2>2. CASE \E i, leaves : SetVal(i, v, leaves)
    BY <1>4, <2>2
  <2>3. CASE UNCHANGED <<kconf, conf, ui, screen, session, store, jump, paging>>
    BY <1>1, <2>3 DEF session
  <2> QED BY <2>1, <2>2, <2>3, TextCases DEF Inv
<1>8. CASE \E f \in DOMAIN disk : LoadFile(f)
  <2>1. PICK f \in DOMAIN disk : LoadFile(f)
    BY <1>8
  <2>2. file' = f /\ disk' = disk
    BY <2>1, LoadCases DEF store
  <2> QED BY <2>2, StoredUnder
<1>9. ASSUME NEW f, NEW contents \in {ConfigContents, MinContents}, Fails(f, contents)
      PROVE  Stored'
  BY <1>9, SaveStored DEF Fails, session, Stored
<1>10. CASE \E f \in DOMAIN disk : SaveFile(f)
  <2>1. PICK f \in DOMAIN disk : \/ Written(f, ConfigContents) /\ file' = f
                                 \/ Fails(f, ConfigContents)
    BY <1>10 DEF SaveFile
  <2> QED BY <1>9, <2>1, SaveStored
<1>11. CASE (\E f \in DOMAIN disk : SaveMinFile(f)) \/ QuitSaving
  <2>1. PICK f \in DOMAIN disk, contents \in {ConfigContents, MinContents} :
             (Written(f, contents) /\ UNCHANGED session) \/ Fails(f, contents)
    <3>1. CASE QuitSaving
      BY <3>1 DEF QuitSaving, Stored
    <3>2. CASE \E f \in DOMAIN disk : SaveMinFile(f)
      BY <3>2 DEF SaveMinFile
    <3> QED BY <1>11, <3>1, <3>2
  <2> QED BY <1>9, <2>1, SaveStored DEF session, Stored
<1>12. CASE Quit \/ QuitDiscarding
  BY <1>1, <1>12 DEF Quit, QuitDiscarding, Open, session
<1> QED BY <1>2, <1>3, <1>5, <1>6, <1>7, <1>8, <1>10, <1>11, <1>12, NextCases

(* The text dialog *)
LEMMA DialogsAre ==
    ASSUME dialogs \in Filling \cup Seq(Floating)
    PROVE  /\ dialogs \in Seq(Floating \cup {"jump", "info"})
           /\ Top = "main" => dialogs = <<>>
<1>1. dialogs \in Seq(Floating \cup {"jump", "info"})
  BY DEF Filling
<1>2. "main" \notin Floating
  BY DEF Floating
<1> QED BY <1>1, <1>2 DEF Top

LEMMA AskStep ==
    ASSUME Asking, kconf' = kconf, dialogs \in Seq(Floating \cup {"jump", "info"}),
           Selected' = Selected \/ dialogs = <<>> \/ "input" \notin Range(dialogs'),
           \/ dialogs' = dialogs \/ dialogs' = <<>>
           \/ dialogs # <<>> /\ dialogs' = Tail(dialogs)
           \/ \E d \in (Floating \cup {"jump", "info"}) \ {"input"} :
                 dialogs' = <<d>> \/ dialogs' = <<d>> \o dialogs
    PROVE  Asking'
<1>1. "input" \in Range(dialogs') => "input" \in Range(dialogs)
  <2>1. CASE dialogs' = <<>>
    BY <2>1 DEF Range
  <2>2. CASE dialogs # <<>> /\ dialogs' = Tail(dialogs)
    <3>1. \A i \in 1..Len(dialogs') :
              i + 1 \in 1..Len(dialogs) /\ dialogs'[i] = dialogs[i + 1]
      BY <2>2
    <3>2. DOMAIN dialogs' = 1..Len(dialogs') /\ DOMAIN dialogs = 1..Len(dialogs)
      BY <2>2
    <3> QED BY <3>1, <3>2 DEF Range
  <2>3. ASSUME NEW d \in (Floating \cup {"jump", "info"}) \ {"input"}, dialogs' = <<d>>
        PROVE  "input" \notin Range(dialogs')
    BY <2>3 DEF Range
  <2>4. ASSUME NEW d \in (Floating \cup {"jump", "info"}) \ {"input"},
               dialogs' = <<d>> \o dialogs, "input" \in Range(dialogs')
        PROVE  "input" \in Range(dialogs)
    <3>1. PICK i \in DOMAIN dialogs' : dialogs'[i] = "input"
      BY <2>4 DEF Range
    <3>2. i - 1 \in 1..Len(dialogs) /\ dialogs[i - 1] = "input"
      BY <2>4, <3>1
    <3> QED BY <3>2 DEF Range
  <2> QED BY <2>1, <2>2, <2>3, <2>4
<1>2. dialogs = <<>> => "input" \notin Range(dialogs)
  BY DEF Range
<1>3. SUFFICES ASSUME "input" \in Range(dialogs')
               PROVE  kconf.item[Selected'] \in kconf.syms /\ ~IsTri(kconf, kconf.item[Selected'])
  BY DEF Asking
<1>4. Selected' = Selected
  BY <1>1, <1>2, <1>3
<1> QED BY <1>1, <1>3, <1>4 DEF Asking

LEMMA LookingAsks ==
    ASSUME Inv, Asking, Looking
    PROVE  Asking'
<1>1. kconf' = kconf
  BY LookingOnly
<1>2. /\ dialogs \in Seq(Floating \cup {"jump", "info"})
      /\ Top = "main" => dialogs = <<>>
  BY DialogsAre DEF Inv
<1>3. ASSUME ui' = ui PROVE Selected' = Selected
  BY <1>3 DEF Selected
<1>4. CASE Down \/ Up \/ End \/ Home \/ Leave \/ ToggleAll \/ ToggleHelp
  <2>1. dialogs = <<>> /\ dialogs' = dialogs
    BY <1>4 DEF Down, Up, End, Home, Leave, ToggleAll, ToggleHelp, Move, Key
  <2> QED BY <1>1, <1>2, <2>1, AskStep
<1>5. CASE PageStep \/ \E n \in {PgJump, -PgJump} : Page(n)
  <2>1. dialogs' = dialogs /\ (ui' = ui \/ Top = "main")
    BY <1>5 DEF PageStep, Page
  <2> QED BY <1>1, <1>2, <1>3, <2>1, AskStep
<1>6. CASE Load \/ LoadAnyway \/ Save \/ SaveMin \/ Close
           \/ \E f \in DOMAIN disk : LoadFails(f)
  <2> DEFINE ds == {"loadask", "loadname", "savename", "savemin", "message"}
  <2>1. ds \subseteq (Floating \cup {"jump", "info"}) \ {"input"} /\ "main" \notin Floating
    BY DEF Floating
  <2>2. /\ ui' = ui
        /\ \/ dialogs # <<>> /\ dialogs' = Tail(dialogs)
           \/ \E d \in ds : dialogs' = <<d>> \/ dialogs' = <<d>> \o dialogs
    BY <1>6, <2>1 DEF Load, LoadAnyway, Save, SaveMin, Close, LoadFails, Open, Top
  <2> HIDE DEF ds
  <2> QED BY <1>1, <1>2, <1>3, <2>1, <2>2, AskStep
<1>7. CASE Info \/ OpenJump
  <2>1. ui' = ui /\ \E d \in {"info", "jump"} : dialogs' = <<d>> \o dialogs
    BY <1>7 DEF Info, OpenJump, Open
  <2> QED BY <1>1, <1>2, <1>3, <2>1, AskStep DEF Floating
<1>8. ASSUME NEW x, ToMain(x) PROVE Asking'
  <2>1. dialogs' = <<>>
    BY <1>8 DEF ToMain
  <2> QED BY <1>1, <1>2, <2>1, AskStep DEF Range
<1>9. CASE LeaveInfo \/ CancelJump
  <2>1. ToMain(ui) \/ (ui' = ui /\ dialogs # <<>> /\ dialogs' = Tail(dialogs))
    BY <1>9 DEF LeaveInfo, CancelJump, Top
  <2> QED BY <1>1, <1>2, <1>3, <1>8, <2>1, AskStep
<1>10. CASE Jump
  <2>1. \E x : ToMain(x)
    BY <1>10, Zenon DEF Jump, JumpTo
  <2> QED BY <1>8, <2>1
<1>11. CASE SelectMatch \/ \E found \in kconf.searches : Search(found)
  <2>1. ui' = ui /\ dialogs' = dialogs
    BY <1>11 DEF SelectMatch, Search, Matching
  <2> QED BY <1>1, <1>2, <1>3, <2>1, AskStep
<1>12. CASE \E t \in kconf.terms : Resize(t)
  <2>1. PICK t \in kconf.terms : Resize(t)
    BY <1>12
  <2>2. dialogs' = dialogs
    BY <2>1 DEF Resize
  <2>3. CASE ui' = ui
    BY <1>1, <1>2, <1>3, <2>2, <2>3, AskStep
  <2>4. CASE ui' # ui
    <3>1. /\ Top \notin {"jump", "info"} /\ height' = MainHeight(t, help) /\ ui' = Fit(ui, height')
          /\ outcome = "running"
      BY <2>1, <2>4 DEF Resize, Display, Running
    <3>2. ui \in Screens
      BY <3>1, AtMain
    <3>3. height' \in Nat \ {0}
      BY <3>1, Heights, KconfigsAssumption DEF Inv
    <3>4. ui'.shown = ui.shown /\ ui'.sel = ui.sel
      BY <3>1, <3>2, <3>3, FitInWindow DEF SameList
    <3>5. Selected' = Selected
      BY <3>4 DEF Selected
    <3> QED BY <1>1, <1>2, <2>2, <3>5, AskStep
  <2> QED BY <2>3, <2>4
<1> QED BY <1>4, <1>5, <1>6, <1>7, <1>9, <1>10, <1>11, <1>12 DEF Looking

LEMMA AskingStep ==
    ASSUME ValuesFit, Inv, Data, [Next]_vars, kconf' = kconf
    PROVE  Asking'
<1> USE DEF Data
<1>1. /\ dialogs \in Seq(Floating \cup {"jump", "info"})
      /\ Top = "main" => dialogs = <<>>
  BY DialogsAre DEF Inv
<1>2. ASSUME ui' = ui PROVE Selected' = Selected
  BY <1>2 DEF Selected
<1>3. ASSUME dialogs' = <<>> \/ \E d \in Floating \ {"input"} : dialogs' = <<d>>
      PROVE  Asking'
  BY <1>1, <1>3, AskStep DEF Range
<1>4. "message" \in Floating \ {"input"} /\ "quit" \in Floating \ {"input"}
  BY DEF Floating
<1>5. CASE UNCHANGED vars
  BY <1>1, <1>2, <1>5, AskStep DEF vars
<1>6. CASE Looking
  BY <1>6, LookingAsks
<1>7. CASE Space \/ Enter
  <2>1. dialogs = <<>>
    BY <1>7 DEF Space, Enter, Key
  <2>2. CASE dialogs' = dialogs
    BY <1>3, <2>1, <2>2
  <2>3. CASE dialogs' # dialogs
    <3>1. Changeable(Selected) /\ ChangeNode(Selected)
      BY <1>7, <2>3, ChangeCases DEF Move
    <3>2. kconf.item[Selected] \in kconf.syms /\ ~IsTri(kconf, kconf.item[Selected]) /\ ui' = ui
      BY <2>3, <3>1, ChangeNodeCases DEF Inv
    <3> QED BY <1>2, <3>2 DEF Asking
  <2> QED BY <2>2, <2>3
<1>8. CASE \E v \in 0..2 : SetTriVal(v)
  BY <1>3, <1>8 DEF SetTriVal, Key
<1>9. CASE \E v \in Typed : InputText(v)
  <2>1. PICK v \in Typed : InputText(v)
    BY <1>9
  <2>2. \/ dialogs' = <<>>
        \/ ui' = ui /\ dialogs' = <<"message">> \o dialogs
        \/ ui' = ui /\ dialogs' = dialogs
    BY <2>1, TextCases DEF Inv
  <2> QED BY <1>1, <1>2, <1>3, <1>4, <2>2, AskStep
<1>10. CASE \E f \in DOMAIN disk : LoadFile(f)
  BY <1>3, <1>4, <1>10, LoadCases
<1>11. CASE (\E f \in DOMAIN disk : SaveFile(f) \/ SaveMinFile(f)) \/ QuitSaving
  <2>1. \/ dialogs' = <<"message">>
        \/ ui' = ui /\ dialogs' = <<"message">> \o dialogs
        \/ ui' = ui /\ dialogs' = dialogs
    <3>1. CASE QuitSaving
      BY <3>1 DEF QuitSaving, Fails
    <3>2. CASE \E f \in DOMAIN disk : SaveFile(f) \/ SaveMinFile(f)
      BY <3>2 DEF SaveFile, SaveMinFile, Fails
    <3> QED BY <1>11, <3>1, <3>2
  <2> QED BY <1>1, <1>2, <1>3, <1>4, <2>1, AskStep
<1>12. CASE Quit \/ QuitDiscarding
  <2>1. ui' = ui /\ (dialogs' = <<"quit">> \o dialogs \/ dialogs' = dialogs)
    BY <1>12 DEF Quit, QuitDiscarding, Open
  <2> QED BY <1>1, <1>2, <1>4, <2>1, AskStep
<1> QED BY <1>5, <1>6, <1>7, <1>8, <1>9, <1>10, <1>11, <1>12, NextCases

LEMMA InitData ==
    ASSUME ValuesFit, Init
    PROVE  kconf \in Kconfigs /\ Data
<1>1. /\ kconf \in Kconfigs /\ disk = kconf.disk /\ file = "config" /\ dialogs = <<>>
      /\ vals = Values(kconf, user)
  BY DEF Init
<1>2. Stored
  BY <1>1, KconfigsAssumption DEF Stored, FilesOf
<1>3. user \in UserValues(kconf)
  <2>1. user = NoUser(kconf) \/ user = Loaded(kconf, NoUser(kconf), disk[file].lines, TRUE)
    BY DEF Init
  <2>2. LinesFit(kconf, disk[file].lines)
    BY <1>1, <1>2, FilesFit DEF Stored
  <2>3. UserFits(kconf, user)
    BY <1>1, <2>1, <2>2, RightItems, NoUserFits, LoadedFits
  <2> QED BY <2>3, FittingValues
<1>4. Asking
  BY <1>1 DEF Asking, Range
<1> QED BY <1>1, <1>2, <1>3, <1>4 DEF Data, Valid

LEMMA DataStep ==
    ASSUME ValuesFit, Inv, Data, [Next]_vars
    PROVE  kconf' = kconf /\ Data'
  BY ValidStep, StoredStep, AskingStep DEF Data

LEMMA InitInv == ASSUME ValuesFit, ValuesShown, Init PROVE Inv
<1>1. kconf \in Kconfigs /\ ListsMenus(vals)
  BY InitData, ValuesListMenus DEF Data, Valid
<1>2. term \in Nat \ {0} /\ height \in Nat \ {0}
  BY <1>1, KconfigsAssumption, Heights DEF Init
<1>3. dialogs \in Seq(Floating)
  BY DEF Init
<1>4. JumpFits(jump)
  BY DEF Init, JumpFits, MatchLists, InWindow
<1>5. MainFits
  <2> DEFINE all == ShownIn(kconf.top, FALSE, vals) = <<>>
  <2>1. SUFFICES ASSUME outcome = "running"
                 PROVE  Listing(ui, vals) /\ InWindow(ui, height)
    BY DEF MainFits, InWindow, Listing, Screens
  <2>2. ui = [menu |-> kconf.top, shown |-> ShownIn(kconf.top, all, vals), sel |-> 0,
              scroll |-> 0, rows |-> <<>>, all |-> all, lost |-> FALSE]
    BY DEF Init
  <2>3. PICK a \in BOOLEAN : a = all
    OBVIOUS
  <2> HIDE DEF all
  <2>4. ui = [menu |-> kconf.top, shown |-> ShownIn(kconf.top, a, vals), sel |-> 0,
              scroll |-> 0, rows |-> <<>>, all |-> a, lost |-> FALSE]
    BY <2>2, <2>3, Zenon
  <2>5. kconf.top \in kconf.menus
    BY <1>1, KconfigsAssumption
  <2>6. ShownIn(kconf.top, a, vals) \in Seq(kconf.nodes)
    BY <1>1, <2>5, ShownInType
  <2>7. ui.shown # <<>>
    BY <2>1 DEF Init
  <2>8. PICK shown \in Seq(kconf.nodes) : shown = ShownIn(kconf.top, a, vals)
    BY <2>6
  <2>9. PICK none \in Seq(Nat) : none = <<>>
    BY NoRows, Zenon
  <2>10. ui = [menu |-> kconf.top, shown |-> shown, sel |-> 0, scroll |-> 0, rows |-> none,
               all |-> a, lost |-> FALSE]
    BY <2>4, <2>8, <2>9, Zenon
  <2>11. ui \in Screens /\ ui.menu = kconf.top /\ ui.shown = shown /\ ui.all = a
         /\ ui.sel = 0 /\ ui.scroll = 0
    BY <2>5, <2>10 DEF Screens
  <2>12. 0 < Len(shown)
    BY <2>7, <2>11
  <2> QED BY <1>2, <2>8, <2>11, <2>12 DEF Listing, InWindow, ShownIn
<1> QED BY <1>1, <1>2, <1>3, <1>4, <1>5 DEF Inv

LEMMA NextInv == ASSUME ListsMenus(vals'), Inv, [Next]_vars PROVE Inv'
<1>1. CASE UNCHANGED vars
  BY <1>1, DialogStep, TopIs DEF vars, conf, screen, Inv
<1>2. CASE Down \/ Up \/ End \/ Home \/ Leave \/ ToggleAll
  BY <1>2, MoveKeys
<1>3. CASE ToggleHelp
  BY <1>3, HelpKey
<1>4. CASE PageStep \/ \E n \in {PgJump, -PgJump} : Page(n)
  BY <1>4, PageKeys
<1>5. CASE Space \/ Enter
  BY <1>5, ChangeKeys
<1>6. CASE (\E v \in 0..2 : SetTriVal(v)) \/ (\E v \in Typed : InputText(v))
  BY <1>6, ValueKeys
<1>7. CASE Load \/ LoadAnyway \/ Save \/ SaveMin \/ Close
           \/ \E f \in DOMAIN disk : LoadFails(f)
  BY <1>7, DialogKeys
<1>8. CASE \E f \in DOMAIN disk : LoadFile(f)
  BY <1>8, LoadKey
<1>9. CASE (\E f \in DOMAIN disk : SaveFile(f) \/ SaveMinFile(f))
           \/ Quit \/ QuitSaving \/ QuitDiscarding
  BY <1>9, SaveKeys
<1>10. CASE Info \/ OpenJump
  BY <1>10, InfoKey, OpenJumpKey DEF Inv
<1>11. CASE LeaveInfo \/ CancelJump
  BY <1>11, LeaveFilling
<1>12. CASE SelectMatch \/ \E found \in kconf.searches : Search(found)
  BY <1>12, MatchKeys
<1>13. CASE Jump
  BY <1>13, JumpKey
<1>14. CASE \E t \in kconf.terms : Resize(t)
  BY <1>14, Resizes
<1> QED
  BY <1>1, <1>2, <1>3, <1>4, <1>5, <1>6, <1>7, <1>8, <1>9, <1>10, <1>11, <1>12, <1>13, <1>14
  DEF Next

LEMMA InvVisible == ASSUME Inv PROVE SelectionVisible
<1>1. SUFFICES ASSUME outcome = "running" PROVE SelectionVisible
  BY DEF SelectionVisible
<1>2. /\ Listing(ui, vals) /\ ui.scroll <= ui.sel
      /\ Top \notin {"jump", "info"} => InWindow(ui, height)
  BY <1>1, TopIs DEF Inv, MainFits
<1>3. ui.shown = ShownIn(ui.menu, ui.all, vals)
  BY <1>2 DEF Listing, ShownIn
<1>4. Top \notin {"jump", "info"} => OnScreen(ui, ui.shown, height)
  BY <1>2 DEF OnScreen, Listing, Screens, InWindow
<1>5. jump.matches # <<>> => OnScreen(jump, jump.matches, jump.height)
  BY DEF Inv, JumpFits, MatchLists, OnScreen, InWindow
<1> QED BY <1>3, <1>4, <1>5 DEF SelectionVisible

LEMMA InvInductive ==
    ASSUME ValuesFit, ValuesShown
    PROVE  /\ Init => Inv /\ Data
           /\ Inv /\ Data /\ [Next]_vars => (Inv /\ Data)'
<1>1. ASSUME Inv, Data, [Next]_vars PROVE (Inv /\ Data)'
  <2>1. kconf' = kconf /\ Data'
    BY <1>1, DataStep
  <2>2. ListsMenus(vals')
    BY <1>1, <2>1, ValuesListMenus DEF Data, Valid, Inv
  <2> QED BY <1>1, <2>1, <2>2, NextInv
<1> QED BY <1>1, InitData, InitInv

(* Whatever the Kconfig files, the values a user gives, the height of the  *)
(* terminal and the order of keys, dialogs and resizes: what menuconfig    *)
(* lists is what is to be shown, and the selected row is in the window.    *)
THEOREM SelectedRowIsVisible ==
    ASSUME ValuesFit, ValuesShown
    PROVE  Spec => []SelectionVisible
<1>1. Init => Inv /\ Data
  BY InvInductive
<1>2. Inv /\ Data /\ [Next]_vars => (Inv /\ Data)'
  BY InvInductive
<1>3. Inv => SelectionVisible
  BY InvVisible
<1> QED BY <1>1, <1>2, <1>3, PTL DEF Spec

-----------------------------------------------------------------------------
(* How a step ends *)
LEMMA Displays ==
    ASSUME outcome = "running", NEW x, Display(x)
    PROVE  outcome' \in {"running", "crash"}
  BY DEF Display

LEMMA LookingGoesOn ==
    ASSUME Looking
    PROVE  outcome = "running" /\ outcome' \in {"running", "crash"}
<1>1. CASE Down \/ Up \/ End \/ Home \/ Leave \/ ToggleAll \/ ToggleHelp
  BY <1>1, Displays
     DEF Down, Up, End, Home, Leave, ToggleAll, ToggleHelp, Move, Key, Running
<1>2. CASE PageStep \/ \E n \in {PgJump, -PgJump} : Page(n)
  BY <1>2, Displays DEF PageStep, Page, Running
<1>3. CASE Load \/ LoadAnyway \/ Save \/ SaveMin \/ Close
           \/ \E f \in DOMAIN disk : LoadFails(f)
  BY <1>3 DEF Load, LoadAnyway, Save, SaveMin, Close, LoadFails, Open, Key, Running
<1>4. ASSUME outcome = "running", NEW x, ToMain(x) PROVE outcome' \in {"running", "crash"}
  BY <1>4 DEF ToMain, Display
<1>5. CASE Info \/ LeaveInfo \/ OpenJump \/ CancelJump
  BY <1>4, <1>5 DEF Info, LeaveInfo, OpenJump, CancelJump, Open, Key, Running
<1>6. CASE Jump
  <2>1. outcome = "running" /\ \E x : ToMain(x)
    BY <1>6, Zenon DEF Jump, JumpTo, Running
  <2> QED BY <1>4, <2>1
<1>7. CASE SelectMatch \/ \E found \in kconf.searches : Search(found)
  BY <1>7 DEF SelectMatch, Search, Matching, Running
<1>8. CASE \E t \in kconf.terms : Resize(t)
  BY <1>8, Displays DEF Resize, Running
<1> QED BY <1>1, <1>2, <1>3, <1>5, <1>6, <1>7, <1>8 DEF Looking

LEMMA GoesOn ==
    ASSUME \/ Looking \/ Space \/ Enter
           \/ \E v \in 0..2 : SetTriVal(v)
           \/ \E v \in Typed : InputText(v)
           \/ \E f \in DOMAIN disk : LoadFile(f) \/ SaveFile(f) \/ SaveMinFile(f)
    PROVE  outcome = "running" /\ outcome' \in {"running", "crash"}
<1>1. CASE Looking
  BY <1>1, LookingGoesOn
<1>2. ASSUME outcome = "running", NEW i, NEW v, NEW leaves, SetVal(i, v, leaves)
      PROVE  outcome' \in {"running", "crash"}
  BY <1>2, SetValCases, Displays
<1>3. CASE Space \/ Enter
  <2>1. outcome = "running"
    BY <1>3 DEF Space, Enter, Key, Running
  <2>2. CASE \E x : Move(x)
    BY <2>1, <2>2, Displays DEF Move
  <2>3. CASE ChangeNode(Selected)
    BY <1>2, <2>1, <2>3, Displays DEF ChangeNode
  <2> QED BY <1>3, <2>1, <2>2, <2>3, ChangeCases
<1>4. CASE \E v \in 0..2 : SetTriVal(v)
  BY <1>2, <1>4, Zenon DEF SetTriVal, Key, Running
<1>5. CASE \E v \in Typed : InputText(v)
  <2>1. PICK v \in Typed : InputText(v)
    BY <1>5
  <2>2. outcome = "running"
    BY <2>1 DEF InputText, Running
  <2>3. \/ \E i, leaves : SetVal(i, v, leaves)
        \/ outcome' = outcome \/ outcome' = "crash"
    BY <2>1 DEF InputText
  <2> QED BY <1>2, <2>2, <2>3
<1>6. CASE \E f \in DOMAIN disk : LoadFile(f)
  BY <1>6, LoadCases, Displays DEF LoadFile, Running
<1>7. CASE \E f \in DOMAIN disk : SaveFile(f) \/ SaveMinFile(f)
  BY <1>7 DEF SaveFile, SaveMinFile, Fails, Running
<1> QED BY <1>1, <1>3, <1>4, <1>5, <1>6, <1>7

-----------------------------------------------------------------------------
(* As long as nothing is to be saved, the file has it. *)
OnDisk == disk[file].there /\ SameValues(kconf, Reloaded(kconf, disk[file].lines), vals)

Kept ==
    /\ (~changed \/ outcome = "saved") /\ file \notin broken => OnDisk
    /\ outcome = "unchanged" => ~changed

LEMMA KeptQuietly ==
    ASSUME Kept, UNCHANGED <<kconf, conf, session, store>>, outcome' \in {"running", "crash"}
    PROVE  Kept'
  BY DEF Kept, OnDisk, conf, session, store, SameValues, Reloaded

(* What is written gives the values back. *)
LEMMA WrittenKeeps ==
    ASSUME SavedLoadsBack, MinLoadsBack, kconf \in Kconfigs, Valid, NEW f \in DOMAIN disk,
           NEW contents \in {ConfigContents, MinContents}, Written(f, contents)
    PROVE  /\ disk'[f].there /\ SameValues(kconf, Reloaded(kconf, disk'[f].lines), vals)
           /\ \A g \in DOMAIN disk : g # f => disk'[g] = disk[g] /\ (g \in broken <=> g \in broken')
<1>1. disk' = [disk EXCEPT ![f] = Whole(contents)] /\ broken' = broken \ {f}
  BY DEF Written
<1>2. disk'[f].there /\ disk'[f].lines = contents
  BY <1>1 DEF Whole
<1>3. SameValues(kconf, Reloaded(kconf, ConfigContents), vals)
  BY DEF SavedLoadsBack, Valid, ConfigContents
<1>4. SameValues(kconf, Reloaded(kconf, MinContents), vals)
  BY DEF MinLoadsBack, Valid, MinContents
<1> QED BY <1>1, <1>2, <1>3, <1>4

LEMMA FailsKeeps ==
    ASSUME Kept, Stored, NEW f, NEW contents, Fails(f, contents), outcome' = "running"
    PROVE  Kept'
<1>1. PICK left : /\ disk' = [disk EXCEPT ![f] = left] /\ broken' = broken \cup {f}
                  /\ UNCHANGED <<kconf, conf, session>>
  BY DEF Fails
<1>2. file' \notin broken' => file \notin broken /\ disk'[file] = disk[file]
  BY <1>1 DEF session, Stored
<1> QED BY <1>1, <1>2 DEF Kept, OnDisk, conf, session, SameValues, Reloaded

LEMMA InitKept == ASSUME Init PROVE Kept
<1>1. CASE ~disk[file].there
  BY <1>1 DEF Init, Kept
<1>2. CASE disk[file].there
  <2>1. vals = Reloaded(kconf, disk[file].lines)
    BY <1>2 DEF Init, Reloaded
  <2>2. OnDisk
    BY <1>2, <2>1 DEF OnDisk, SameValues
  <2> QED BY <2>2 DEF Init, Kept
<1> QED BY <1>1, <1>2

LEMMA LoadKeeps ==
    ASSUME LoadForgets, kconf \in Kconfigs, Data, NEW f \in DOMAIN disk, LoadFile(f),
           outcome' \in {"running", "crash"}
    PROVE  Kept'
<1> DEFINE lines == disk[f].lines
           u == Loaded(kconf, user, lines, TRUE)
           w == Values(kconf, u)
<1>1. /\ disk[f].there /\ file' = f /\ kconf' = kconf /\ disk' = disk /\ vals' = w
      /\ changed' = NeedsSave(kconf, u, w.of, DOMAIN lines \ kconf.syms)
  BY LoadCases, Zenon DEF store
<1>2. lines \in FilesOf(kconf) /\ user \in UserValues(kconf)
  BY DEF Data, Stored, Valid
<1>3. ~NeedsSave(kconf, u, w.of, DOMAIN lines \ kconf.syms)
        => SameValues(kconf, Reloaded(kconf, lines), w)
  BY <1>2 DEF LoadForgets
<1> HIDE DEF u, w
<1>4. ~changed' => OnDisk'
  BY <1>1, <1>3 DEF OnDisk, SameValues, Reloaded
<1> QED BY <1>4 DEF Kept

LEMMA KeptStep ==
    ASSUME ValuesFit, SavedLoadsBack, MinLoadsBack, LoadForgets, Inv, Data, Kept, [Next]_vars
    PROVE  Kept'
<1>1. kconf \in Kconfigs /\ Valid /\ Stored
  BY DEF Inv, Data
<1>2. CASE UNCHANGED vars
  BY <1>2 DEF vars, conf, session, store, Kept, OnDisk, SameValues, Reloaded
<1>3. CASE Looking
  BY <1>3, LookingOnly, LookingGoesOn, KeptQuietly
<1>4. ASSUME NEW i, NEW v, NEW leaves, SetVal(i, v, leaves), outcome' \in {"running", "crash"}
      PROVE  Kept'
  <2>1. CASE changed' = TRUE
    BY <1>4, <2>1 DEF Kept
  <2>2. CASE UNCHANGED <<kconf, conf, session, store>>
    BY <1>4, <2>2, KeptQuietly
  <2> QED BY <1>4, <2>1, <2>2, SetValCases DEF session
<1>5. CASE Space \/ Enter
  <2>1. outcome' \in {"running", "crash"}
    BY <1>5, GoesOn
  <2>2. CASE \E x : Move(x)
    BY <2>1, <2>2, KeptQuietly DEF Move
  <2>3. CASE ChangeNode(Selected)
    BY <1>4, <2>1, <2>3, KeptQuietly DEF ChangeNode
  <2> QED BY <1>5, <2>2, <2>3, ChangeCases
<1>6. CASE \E v \in 0..2 : SetTriVal(v)
  BY <1>1, <1>4, <1>6, TriChosen, GoesOn
<1>7. CASE \E v \in Typed : InputText(v)
  <2>1. PICK v \in Typed : InputText(v)
    BY <1>7
  <2>2. outcome' \in {"running", "crash"}
    BY <1>7, GoesOn
  <2>3. CASE \E i, leaves : SetVal(i, v, leaves)
    BY <1>4, <2>2, <2>3
  <2> QED BY <2>1, <2>2, <2>3, TextCases, KeptQuietly DEF Data, Inv
<1>8. CASE \E f \in DOMAIN disk : LoadFile(f)
  BY <1>1, <1>8, GoesOn, LoadKeeps
<1>9. CASE \E f \in DOMAIN disk : SaveFile(f)
  <2>1. PICK f \in DOMAIN disk : SaveFile(f)
    BY <1>9
  <2>2. CASE Fails(f, ConfigContents)
    <3>1. outcome' = "running"
      BY <2>1, <2>2 DEF SaveFile, Running, Fails
    <3> QED BY <1>1, <2>2, <3>1, FailsKeeps
  <2>3. CASE /\ Written(f, ConfigContents) /\ file' = f
             /\ UNCHANGED <<kconf, conf, ui, screen, jump, paging, outcome>>
    <3>1. disk'[f].there /\ SameValues(kconf, Reloaded(kconf, disk'[f].lines), vals)
      BY <1>1, <2>3, WrittenKeeps
    <3>2. OnDisk' /\ outcome' = "running"
      BY <2>1, <2>3, <3>1 DEF OnDisk, SameValues, Reloaded, conf, SaveFile, Running
    <3> QED BY <3>2 DEF Kept
  <2> QED BY <2>1, <2>2, <2>3 DEF SaveFile
<1>10. ASSUME NEW f \in DOMAIN disk, NEW contents \in {ConfigContents, MinContents},
              Written(f, contents), UNCHANGED <<kconf, conf, session>>,
              f = file \/ outcome' # "saved", outcome = "running", outcome' # "unchanged"
       PROVE  Kept'
  <2>1. /\ disk'[f].there /\ SameValues(kconf, Reloaded(kconf, disk'[f].lines), vals)
        /\ \A g \in DOMAIN disk : g # f => disk'[g] = disk[g] /\ (g \in broken <=> g \in broken')
    BY <1>1, <1>10, WrittenKeeps
  <2>2. file' = file /\ file \in DOMAIN disk /\ changed' = changed
    BY <1>1, <1>10 DEF session, Stored
  <2>3. CASE f = file
    <3>1. OnDisk'
      BY <1>10, <2>1, <2>2, <2>3 DEF OnDisk, SameValues, Reloaded, conf
    <3> QED BY <1>10, <3>1 DEF Kept
  <2>4. CASE f # file /\ outcome' # "saved"
    <3>1. disk'[file] = disk[file] /\ (file \in broken <=> file \in broken')
      BY <2>1, <2>2, <2>4
    <3>2. ~changed' /\ file' \notin broken' => OnDisk
      BY <2>2, <3>1 DEF Kept
    <3>3. OnDisk => OnDisk'
      BY <1>10, <2>2, <3>1 DEF OnDisk, SameValues, Reloaded, conf
    <3> QED BY <1>10, <2>4, <3>2, <3>3 DEF Kept
  <2> QED BY <1>10, <2>3, <2>4
<1>11. CASE \E f \in DOMAIN disk : SaveMinFile(f)
  <2>1. PICK f \in DOMAIN disk : SaveMinFile(f)
    BY <1>11
  <2>2. outcome = "running" /\ outcome' = "running"
    BY <2>1 DEF SaveMinFile, Running, Fails
  <2>3. CASE Fails(f, MinContents)
    BY <1>1, <2>2, <2>3, FailsKeeps
  <2>4. CASE Written(f, MinContents) /\ UNCHANGED <<kconf, conf, session>>
    BY <1>10, <2>2, <2>4
  <2> QED BY <2>1, <2>3, <2>4 DEF SaveMinFile
<1>12. CASE QuitSaving
  <2>1. outcome = "running" /\ file \in DOMAIN disk
    BY <1>1, <1>12 DEF QuitSaving, Running, Stored
  <2>2. CASE Fails(file, ConfigContents)
    <3>1. outcome' = "running"
      BY <2>1, <2>2 DEF Fails
    <3> QED BY <1>1, <2>2, <3>1, FailsKeeps
  <2>3. CASE Written(file, ConfigContents) /\ outcome' = "saved" /\ UNCHANGED <<kconf, conf, session>>
    BY <1>10, <2>1, <2>3
  <2> QED BY <1>12, <2>2, <2>3 DEF QuitSaving
<1>13. CASE Quit
  <2>1. UNCHANGED <<kconf, conf, session, store>>
    BY <1>13 DEF Quit, Open
  <2>2. outcome' = "running" \/ (outcome' = "unchanged" /\ ~changed)
    BY <1>13 DEF Quit, Open, Key, Running
  <2> QED BY <2>1, <2>2 DEF Kept, OnDisk, conf, session, store, SameValues, Reloaded
<1>14. CASE QuitDiscarding
  <2>1. UNCHANGED <<kconf, conf, session, store>> /\ outcome' = "discarded"
    BY <1>14 DEF QuitDiscarding
  <2> QED BY <2>1 DEF Kept, OnDisk, conf, session, store, SameValues, Reloaded
<1> QED
  BY <1>2, <1>3, <1>5, <1>6, <1>7, <1>8, <1>9, <1>11, <1>12, <1>13, <1>14, NextCases

(* Whenever menuconfig ends saying that there was nothing to save, or that *)
(* it saved, the file it names gives every symbol its value back: whatever *)
(* was changed, loaded, saved and saved again, under whatever name, before *)
(* that.                                                                   *)
THEOREM NothingIsLost ==
    ASSUME ValuesFit, ValuesShown, SavedLoadsBack, MinLoadsBack, LoadForgets
    PROVE  Spec => []NothingLost
<1>1. Init => Inv /\ Data /\ Kept
  BY InvInductive, InitKept
<1>2. Inv /\ Data /\ Kept /\ [Next]_vars => (Inv /\ Data /\ Kept)'
  BY InvInductive, KeptStep
<1>3. Kept => NothingLost
  BY DEF Kept, OnDisk, NothingLost
<1> QED BY <1>1, <1>2, <1>3, PTL DEF Spec

-----------------------------------------------------------------------------
(* The rows of the parent menus *)
Rowed(x) == Len(x.rows) <= kconf.depth[x.menu]
SameRows(x, y) == y.menu = x.menu /\ y.rows = x.rows /\ y.lost = x.lost

LEMMA RowsKept ==
    ASSUME NEW x \in Screens
    PROVE  /\ \A list, h : SameRows(x, SelectNext(x, list, h)) /\ SameRows(x, SelectLast(x, list, h))
           /\ SameRows(x, SelectPrev(x)) /\ SameRows(x, SelectFirst(x))
           /\ \A h : SameRows(x, Fit(x, h)) /\ SameRows(x, Center(x, h))
           /\ \A w, h : SameRows(x, IfChoice(x, w, h))
<1>1. \A j : SameRows(x, Scrolled(x, j))
  BY DEF Screens, SameRows, Scrolled
<1>2. \A i, j : SameRows(x, Moved(x, i, j))
  BY DEF Screens, SameRows, Moved
<1>3. SameRows(x, x)
  BY DEF SameRows
<1>4. ASSUME NEW list, NEW h
      PROVE  SameRows(x, SelectNext(x, list, h)) /\ SameRows(x, SelectLast(x, list, h))
  <2>1. SelectLast(x, list, h) = Moved(x, Len(list) - 1, MaxScroll(list, h))
    BY DEF SelectLast, Moved
  <2>2. SelectNext(x, list, h) = x \/ \E i, j : SelectNext(x, list, h) = Moved(x, i, j)
    BY NextMoves DEF Screens
  <2> QED BY <1>2, <1>3, <2>1, <2>2
<1>5. SameRows(x, SelectPrev(x)) /\ SameRows(x, SelectFirst(x))
  <2>1. SelectFirst(x) = Moved(x, 0, 0)
    BY DEF SelectFirst, Moved
  <2>2. SelectPrev(x) = x \/ \E i, j : SelectPrev(x) = Moved(x, i, j)
    BY PrevMoves DEF Screens
  <2> QED BY <1>2, <1>3, <2>1, <2>2
<1>6. ASSUME NEW h PROVE SameRows(x, Fit(x, h)) /\ SameRows(x, Center(x, h))
  <2>1. Fit(x, h) = x \/ Fit(x, h) = Scrolled(x, x.sel - h + 1)
    BY Zenon DEF Fit, Scrolled
  <2>2. Center(x, h) = Scrolled(x, Min2(Max2(x.sel - h \div 2, 0), MaxScroll(x.shown, h)))
    BY Zenon DEF Center, Scrolled
  <2> QED BY <1>1, <1>3, <2>1, <2>2
<1>7. ASSUME NEW w, NEW h PROVE SameRows(x, IfChoice(x, w, h))
  <2>1. IfChoice(x, w, h) = x
        \/ \E i : IfChoice(x, w, h) = Center([x EXCEPT !.sel = i], h)
    BY DEF IfChoice, SelectSelectedChoiceSym
  <2>2. ASSUME NEW i PROVE SameRows(x, Center([x EXCEPT !.sel = i], h))
    <3> DEFINE y == [x EXCEPT !.sel = i]
               j == Min2(Max2(y.sel - h \div 2, 0), MaxScroll(y.shown, h))
    <3>1. Center(y, h) = Moved(x, i, j)
      BY DEF Center, Moved
    <3> QED BY <1>2, <3>1
  <2> QED BY <1>3, <2>1, <2>2
<1> QED BY <1>4, <1>5, <1>6, <1>7

LEMMA UpdateRows ==
    ASSUME NEW x \in Screens, NEW w
    PROVE  UpdateMenu(x, w).menu = x.menu /\ UpdateMenu(x, w).rows = x.rows
<1> DEFINE shown == ShownIn(x.menu, x.all, w)
           i == Index(shown, x.shown[x.sel + 1])
           new(j) == [x EXCEPT !.shown = shown, !.sel = i, !.scroll = j]
<1>1. \/ UpdateMenu(x, w) = Lost(x)
      \/ UpdateMenu(x, w) = SelectOnRow([x EXCEPT !.shown = shown], i, x.sel - x.scroll)
  BY Zenon DEF UpdateMenu, UpdateTo
<1>2. SelectOnRow([x EXCEPT !.shown = shown], i, x.sel - x.scroll)
        = new(Max2(i - (x.sel - x.scroll), 0))
  BY DEF SelectOnRow
<1>3. Lost(x).menu = x.menu /\ Lost(x).rows = x.rows
  BY DEF Lost, Screens
<1>4. \A j : new(j).menu = x.menu /\ new(j).rows = x.rows
  BY DEF Screens
<1> HIDE DEF new
<1> QED BY <1>1, <1>2, <1>3, <1>4

LEMMA ToggleRows ==
    ASSUME NEW x \in Screens, NEW w
    PROVE  SameRows(x, ToggleShowAll(x, w))
<1> DEFINE shown == ShownIn(x.menu, ~x.all, w)
           new(i, j) == [x EXCEPT !.all = ~@, !.shown = shown, !.sel = i, !.scroll = j]
           kept == [x EXCEPT !.all = TRUE]
           before == {d \in 0..x.sel : x.shown[x.sel - d + 1] \in Range(shown)}
           after == {d \in 1..(Len(x.shown) - 1 - x.sel) :
                        x.shown[x.sel + d + 1] \in Range(shown)}
           y == [x EXCEPT !.all = ~@, !.shown = shown]
<1>1. \/ \E i : ToggleShowAll(x, w) = SelectOnRow(y, Index(shown, x.shown[i + 1]), x.sel - x.scroll)
      \/ ToggleShowAll(x, w) = kept
  <2>1. CASE before # {}
    BY <2>1, Zenon DEF ToggleShowAll, ToggleTo
  <2>2. CASE before = {} /\ after # {}
    BY <2>2, Zenon DEF ToggleShowAll, ToggleTo
  <2>3. CASE before = {} /\ after = {}
    BY <2>3, Zenon DEF ToggleShowAll, ToggleTo
  <2> QED BY <2>1, <2>2, <2>3
<1>2. \A i, row : SelectOnRow(y, i, row) = new(i, Max2(i - row, 0))
  BY DEF SelectOnRow
<1>3. \A i, j : SameRows(x, new(i, j))
  BY DEF Screens, SameRows
<1>4. SameRows(x, kept)
  BY DEF Screens, SameRows
<1> HIDE DEF new, kept, y
<1> QED BY <1>1, <1>2, <1>3, <1>4

LEMMA MenuDepth ==
    ASSUME kconf \in Kconfigs, NEW n \in kconf.nodes \ {kconf.top}
    PROVE  /\ kconf.menuOf[n] \in kconf.menus /\ kconf.menus \subseteq kconf.nodes
           /\ kconf.depth[kconf.menuOf[n]] \in Nat
           /\ kconf.depth[n] = kconf.depth[kconf.menuOf[n]] + 1
<1>1. kconf.menuOf[n] \in kconf.menus /\ kconf.menus \subseteq kconf.nodes
  BY KconfigsAssumption
<1>2. kconf.depth \in [kconf.nodes -> Nat]
  BY KconfigsAssumption
<1>3. kconf.depth[n] = kconf.depth[kconf.menuOf[n]] + 1
  BY KconfigsAssumption
<1> QED BY <1>1, <1>2, <1>3

LEMMA LeaveRows ==
    ASSUME kconf \in Kconfigs, NEW x \in Screens, Rowed(x), NEW w, NEW h
    PROVE  Rowed(LeaveMenu(x, w, h))
<1> DEFINE parent == kconf.menuOf[x.menu]
           shown == ShownIn(parent, x.all, w)
           y == [x EXCEPT !.menu = parent, !.shown = shown, !.sel = Index(shown, x.menu)]
           z == [y EXCEPT !.rows = Tail(@)]
<1>1. CASE x.menu = kconf.top
  BY <1>1 DEF LeaveMenu
<1>2. CASE x.menu # kconf.top
  <2>1. LeaveMenu(x, w, h) = LeaveTo(x, parent, shown, h)
    BY <1>2 DEF LeaveMenu
  <2>2. /\ kconf.depth[parent] \in Nat /\ kconf.depth[x.menu] = kconf.depth[parent] + 1
        /\ x.rows \in Seq(Nat)
    <3>1. x.menu \in kconf.nodes \ {kconf.top}
      BY <1>2, KconfigsAssumption DEF Screens
    <3> QED BY <3>1, MenuDepth DEF Screens
  <2>3. CASE x.menu \notin Range(shown)
    <3>1. LeaveMenu(x, w, h) = Lost(x)
      BY <2>1, <2>3 DEF LeaveTo
    <3>2. Lost(x).menu = x.menu /\ Lost(x).rows = x.rows
      BY DEF Lost, Screens
    <3> QED BY <3>1, <3>2 DEF Rowed
  <2>4. CASE x.menu \in Range(shown) /\ x.rows = <<>>
    <3>1. LeaveMenu(x, w, h) = Center(y, h)
      BY <2>1, <2>4 DEF LeaveTo
    <3>2. Center(y, h).menu = parent /\ Center(y, h).rows = <<>>
      BY <2>4 DEF Center, Screens
    <3> QED BY <2>2, <3>1, <3>2 DEF Rowed
  <2>5. CASE x.menu \in Range(shown) /\ x.rows # <<>>
    <3> DEFINE row == Min2(Head(x.rows), h - 1)
    <3>1. LeaveMenu(x, w, h) = SelectOnRow(z, y.sel, row)
      BY <2>1, <2>5 DEF LeaveTo
    <3>2. z.menu = parent /\ z.rows = Tail(x.rows)
      BY DEF Screens
    <3>3. SelectOnRow(z, y.sel, row).menu = parent /\ SelectOnRow(z, y.sel, row).rows = Tail(x.rows)
      BY DEF SelectOnRow, Screens
    <3>4. Len(Tail(x.rows)) = Len(x.rows) - 1 /\ Len(x.rows) \in Nat
      BY <2>2, <2>5
    <3>5. Len(x.rows) <= kconf.depth[parent] + 1
      BY <2>2 DEF Rowed
    <3> HIDE DEF parent, z, y, row
    <3>6. LeaveMenu(x, w, h).menu = parent /\ LeaveMenu(x, w, h).rows = Tail(x.rows)
      BY <3>1, <3>3
    <3>7. Len(Tail(x.rows)) <= kconf.depth[parent]
      BY <2>2, <3>4, <3>5
    <3> QED BY <3>6, <3>7 DEF Rowed
  <2> QED BY <2>3, <2>4, <2>5
<1> QED BY <1>1, <1>2

LEMMA InRange ==
    ASSUME NEW T, NEW list \in Seq(T), NEW i \in 1..Len(list)
    PROVE  list[i] \in Range(list) /\ list[i] \in T
  BY DEF Range

(* The selected node is in the menu the interface is in. *)
LEMMA SelectedInside ==
    ASSUME ShownInside, kconf \in Kconfigs, Valid, Listing(ui, vals)
    PROVE  /\ Selected \in kconf.nodes \ {kconf.top} /\ kconf.menuOf[Selected] = ui.menu
           /\ Selected \in Range(ui.shown) /\ ui.menu \in kconf.menus /\ ui.all \in BOOLEAN
<1>1. /\ ui.menu \in kconf.menus /\ ui.all \in BOOLEAN /\ ui.sel \in Nat
      /\ ui.shown \in Seq(kconf.nodes) /\ ui.sel < Len(ui.shown)
      /\ ui.shown = vals.shown[<<ui.menu, ui.all>>]
  BY DEF Listing, Screens
<1>2. Selected \in Range(ui.shown) /\ Selected \in kconf.nodes
  <2>1. ui.sel + 1 \in 1..Len(ui.shown) /\ DOMAIN ui.shown = 1..Len(ui.shown)
    BY <1>1
  <2> QED BY <1>1, <2>1, InRange DEF Selected
<1>3. \A m \in kconf.menus : \A all \in BOOLEAN : \A n \in Range(vals.shown[<<m, all>>]) :
          n # kconf.top /\ kconf.menuOf[n] = m
  BY DEF ShownInside, Valid
<1> QED BY <1>1, <1>2, <1>3

LEMMA EnterRows ==
    ASSUME ShownInside, kconf \in Kconfigs, Valid, Listing(ui, vals), Rowed(ui), NEW h
    PROVE  Rowed(EnterMenu(ui, Selected, vals, h))
<1> DEFINE shown == ShownIn(Selected, ui.all, vals)
           d == ui.sel - ui.scroll
           y == [ui EXCEPT !.menu = Selected, !.shown = shown, !.sel = 0, !.scroll = 0,
                           !.rows = <<d>> \o @]
<1>1. ui \in Screens /\ ui.rows \in Seq(Nat)
  BY DEF Listing, Screens
<1>2. /\ kconf.depth[Selected] = kconf.depth[ui.menu] + 1 /\ kconf.depth[ui.menu] \in Nat
  BY SelectedInside, MenuDepth
<1>3. y.menu = Selected /\ y.rows = <<d>> \o ui.rows
  BY <1>1 DEF Screens
<1>4. Len(<<d>> \o ui.rows) = Len(ui.rows) + 1 /\ Len(ui.rows) \in Nat
  <2>1. <<d>> \in Seq(Int)
    BY <1>1 DEF Screens
  <2>2. ui.rows \in Seq(Int)
    BY <1>1
  <2> QED BY <2>1, <2>2
<1>5. EnterMenu(ui, Selected, vals, h) = IfChoice(y, vals, h)
  BY DEF EnterMenu
<1>6. IfChoice(y, vals, h).menu = y.menu /\ IfChoice(y, vals, h).rows = y.rows
  <2>1. IfChoice(y, vals, h) = y
        \/ \E i : IfChoice(y, vals, h) = Center([y EXCEPT !.sel = i], h)
    BY Zenon DEF IfChoice, SelectSelectedChoiceSym
  <2>2. DOMAIN y = DOMAIN ui /\ {"menu", "rows"} \subseteq DOMAIN ui
    BY <1>1 DEF Screens
  <2> HIDE DEF y
  <2>3. \A i : Center([y EXCEPT !.sel = i], h).menu = y.menu
               /\ Center([y EXCEPT !.sel = i], h).rows = y.rows
    BY <2>2 DEF Center
  <2> QED BY <2>1, <2>3
<1> QED BY <1>2, <1>3, <1>4, <1>5, <1>6 DEF Rowed

LEMMA JumpTarget ==
    ASSUME Inv, Jump
    PROVE  jump.matches[jump.sel + 1] \in kconf.nodes \ {kconf.top}
<1>1. jump.matches # <<>>
  BY DEF Jump
<1>2. /\ jump.matches \in Seq(kconf.nodes \ {kconf.top}) /\ jump.sel \in Nat
      /\ jump.sel < Len(jump.matches)
  BY <1>1 DEF Inv, JumpFits, MatchLists
<1>3. jump.sel + 1 \in 1..Len(jump.matches)
  BY <1>2
<1> QED BY <1>2, <1>3

LEMMA LandedRows ==
    ASSUME kconf \in Kconfigs, NEW x \in Screens, Rowed(x), NEW w,
           NEW n \in kconf.nodes \ {kconf.top}
    PROVE  Rowed(Landed(x, n, w))
<1> DEFINE menu == IF JumpInto(n) THEN n ELSE kconf.menuOf[n]
           node == IF JumpInto(n) THEN Head(kconf.list[n]) ELSE n
           all == x.all \/ node \notin Range(ShownIn(menu, FALSE, w))
           shown == ShownIn(menu, all, w)
           y == [x EXCEPT !.menu = menu, !.shown = shown, !.all = all,
                          !.sel = Index(shown, node), !.rows = <<>>]
<1>1. kconf.depth[menu] \in Nat
  <2>1. menu \in kconf.nodes
    BY MenuDepth DEF JumpInto
  <2> HIDE DEF menu
  <2> QED BY <2>1, KconfigsAssumption
<1>2. Landed(x, n, w) = Lost(x) \/ Landed(x, n, w) = y
  BY Zenon DEF Landed, LandIn, LandOn
<1>3. Lost(x).menu = x.menu /\ Lost(x).rows = x.rows
  BY DEF Lost, Screens
<1>4. y.menu = menu /\ y.rows = <<>>
  BY DEF Screens
<1> HIDE DEF y, menu
<1>5. Len(y.rows) = 0
  BY <1>4
<1> QED BY <1>1, <1>2, <1>3, <1>4, <1>5 DEF Rowed

LEMMA SameRowed ==
    ASSUME NEW x, NEW y, y.menu = x.menu, y.rows = x.rows, Rowed(x)
    PROVE  Rowed(y)
  BY DEF Rowed

LEMMA JumpRows ==
    ASSUME kconf \in Kconfigs, NEW w, ListsMenus(w), NEW h \in Nat \ {0}, NEW x \in Screens,
           Rowed(x), NEW n \in kconf.nodes \ {kconf.top}
    PROVE  LET z == Center(Settled(Landed(x, n, w), n, w), h)
           IN Rowed(z) /\ Rowed(IfChoice(z, w, h))
<1> DEFINE l == Landed(x, n, w)
           y == Settled(l, n, w)
           z == Center(y, h)
<1>1. Landing(l, w) /\ Rowed(l)
  BY LandedLanding, LandedRows
<1> HIDE DEF l
<1>2. y \in Screens /\ Rowed(y)
  <2>1. l \in Screens
    BY <1>1 DEF Landing, Listing
  <2>2. CASE y = l
    BY <1>1, <2>1, <2>2
  <2>3. CASE y # l
    <3>1. y = ToggleShowAll(l, w) /\ ~l.lost
      BY <2>3 DEF Settled
    <3>2. Listing(ToggleShowAll(l, w), w)
      BY <1>1, <3>1, ToggleSound DEF Landing
    <3>3. SameRows(l, ToggleShowAll(l, w))
      BY <2>1, ToggleRows
    <3> HIDE DEF y
    <3> QED BY <1>1, <3>1, <3>2, <3>3, SameRowed DEF Listing, SameRows
  <2> QED BY <2>2, <2>3
<1> HIDE DEF y
<1>3. SameRows(y, z) /\ z \in Screens
  BY <1>2, RowsKept, CenterInWindow
<1> HIDE DEF z
<1>4. SameRows(z, IfChoice(z, w, h))
  BY <1>3, RowsKept
<1>5. Rowed(z)
  BY <1>2, <1>3, SameRowed DEF SameRows
<1>6. Rowed(IfChoice(z, w, h))
  BY <1>4, <1>5, SameRowed DEF SameRows
<1> QED BY <1>5, <1>6 DEF z, y, l

LEMMA RowsStep ==
    ASSUME ShownInside, Inv, Data, [Next]_vars, kconf' = kconf, ListsMenus(vals'), Rowed(ui)
    PROVE  Rowed(ui')
<1>1. kconf \in Kconfigs /\ Valid /\ height \in Nat \ {0} /\ ListsMenus(vals)
  BY DEF Inv, Data
<1>2. CASE ui' = ui
  BY <1>2
<1>3. CASE Next /\ ui' # ui
  <2>1. outcome = "running"
    BY <1>3, NextCases, GoesOn DEF Quit, QuitSaving, QuitDiscarding, Key, Running
  <2>2. Listing(ui, vals) /\ ui \in Screens
    BY <2>1 DEF Inv, MainFits, Listing
  <2>3. ASSUME NEW x, SameRows(ui, x) PROVE Rowed(x)
    BY <2>3, SameRowed DEF SameRows
  <2>4. ASSUME NEW x, Rowed(x), NEW leaves, NEW i, NEW w, x \in Screens
        PROVE  Rowed(AfterChange(x, i, leaves, w))
    <3>1. AfterChange(x, i, leaves, w) \in {x, LeaveMenu(x, w, height)}
      BY DEF AfterChange
    <3> QED BY <1>1, <2>4, <3>1, LeaveRows
  <2>5. ASSUME NEW i, NEW v, NEW leaves, SetVal(i, v, leaves),
               Top \notin {"jump", "info"}
        PROVE  Rowed(ui')
    <3>1. CASE Display(AfterChange(ui, i, leaves, vals))
      BY <2>2, <2>4, <3>1 DEF Display
    <3>2. CASE Display(AfterChange(UpdateMenu(ui, vals'), i, leaves, vals'))
      <4> DEFINE x == UpdateMenu(ui, vals')
      <4>1. Sound(x, vals', height)
        BY <1>1, <2>1, <2>5, AtMain, UpdateSound
      <4>2. x \in Screens
        BY <4>1 DEF Sound, Listing
      <4>3. Rowed(x)
        BY <2>2, UpdateRows, SameRowed
      <4> HIDE DEF x
      <4>4. Rowed(AfterChange(x, i, leaves, vals'))
        BY <2>4, <4>2, <4>3
      <4> QED BY <3>2, <4>4 DEF Display, x
    <3> QED BY <2>5, <3>1, <3>2, SetValCases
  <2>6. ASSUME NEW x \in Screens, ToMain(x), Rowed(x) PROVE Rowed(ui')
    <3>1. ui' = Fit(x, height')
      BY <2>6 DEF ToMain, Display
    <3>2. SameRows(x, Fit(x, height'))
      BY <2>6, RowsKept
    <3> QED BY <2>6, <3>1, <3>2, SameRowed DEF SameRows
  <2>7. CASE Looking
    <3>1. CASE Down \/ Up \/ End \/ Home \/ ToggleHelp
      BY <2>2, <2>3, <3>1, RowsKept DEF Down, Up, End, Home, ToggleHelp, Move, Display
    <3>2. CASE ToggleAll
      BY <2>2, <2>3, <3>2, ToggleRows DEF ToggleAll, Move, Display
    <3>3. CASE Leave
      BY <1>1, <2>2, <3>3, LeaveRows DEF Leave, Move, Display
    <3>4. CASE PageStep \/ \E n \in {PgJump, -PgJump} : Page(n)
      <4>1. ui' = Paged(ui, ui.shown, height)
        BY <1>3, <3>4 DEF PageStep, Page, Display
      <4> QED BY <2>2, <2>3, <4>1, RowsKept DEF Paged
    <3>5. CASE Load \/ LoadAnyway \/ Save \/ SaveMin \/ Close
               \/ \E f \in DOMAIN disk : LoadFails(f)
      BY <1>3, <3>5 DEF Load, LoadAnyway, Save, SaveMin, Close, LoadFails, Open
    <3>6. CASE Info \/ LeaveInfo \/ OpenJump \/ CancelJump
      BY <1>3, <2>2, <2>6, <3>6 DEF Info, LeaveInfo, OpenJump, CancelJump, Open
    <3>7. CASE SelectMatch \/ \E found \in kconf.searches : Search(found)
      BY <1>3, <3>7 DEF SelectMatch, Search, Matching
    <3>8. CASE \E t \in kconf.terms : Resize(t)
      BY <1>3, <2>2, <2>3, <3>8, RowsKept DEF Resize, Display
    <3>9. CASE Jump
      <4> DEFINE n == jump.matches[jump.sel + 1]
                 z == Center(Settled(Landed(ui, n, vals), n, vals), height)
      <4>1. n \in kconf.nodes \ {kconf.top}
        BY <3>9, JumpTarget
      <4>2. ToMain(IF JumpInto(n) THEN IfChoice(z, vals, height) ELSE z)
        BY <3>9, Zenon DEF Jump, JumpTo
      <4> HIDE DEF n
      <4>3. Rowed(z) /\ Rowed(IfChoice(z, vals, height))
        BY <1>1, <2>2, <4>1, JumpRows, Zenon
      <4>4. Sound(z, vals, height) /\ Sound(IfChoice(z, vals, height), vals, height)
        BY <1>1, <2>2, <4>1, JumpSound, Zenon
      <4>5. z \in Screens /\ IfChoice(z, vals, height) \in Screens
        BY <4>4 DEF Sound, Listing
      <4> HIDE DEF z
      <4> QED BY <2>6, <4>2, <4>3, <4>5
    <3> QED BY <2>7, <3>1, <3>2, <3>3, <3>4, <3>5, <3>6, <3>7, <3>8, <3>9 DEF Looking
  <2>8. CASE Space \/ Enter
    <3>1. Top \notin {"jump", "info"}
      BY <2>8, KeyAtMain DEF Space, Enter
    <3>2. CASE Move(ui)
      BY <1>3, <3>2 DEF Move, Display
    <3>3. CASE Move(EnterMenu(ui, Selected, vals, height))
      BY <1>1, <2>2, <3>3, EnterRows DEF Move, Display
    <3>4. CASE ChangeNode(Selected)
      <4>1. CASE \E i, v, leaves : SetVal(i, v, leaves)
        BY <2>5, <3>1, <4>1
      <4>2. CASE Display(Lost(ui))
        <5>1. Lost(ui).menu = ui.menu /\ Lost(ui).rows = ui.rows
          BY <2>2 DEF Lost, Screens
        <5> QED BY <4>2, <5>1, SameRowed DEF Display
      <4> QED BY <1>3, <3>4, <4>1, <4>2, Zenon DEF ChangeNode
    <3> QED BY <2>8, <3>2, <3>3, <3>4, ChangeCases
  <2>9. CASE \E v \in 0..2 : SetTriVal(v)
    <3>1. PICK i, v : Key("change") /\ SetVal(i, v, FALSE)
      BY <2>9, Zenon DEF SetTriVal
    <3> QED BY <2>5, <3>1, KeyAtMain
  <2>10. CASE \E v \in Typed : InputText(v)
    <3>1. PICK v \in Typed : InputText(v)
      BY <2>10
    <3>2. Top = "input"
      BY <3>1 DEF Typed
    <3>3. \E i, leaves : SetVal(i, v, leaves)
      BY <1>3, <3>1 DEF InputText
    <3> QED BY <2>5, <3>2, <3>3
  <2>11. CASE \E f \in DOMAIN disk : LoadFile(f)
    <3>1. Display(Loading(ui, vals')) /\ Top = "loadname"
      BY <2>11, LoadCases DEF LoadFile
    <3>2. PICK all \in BOOLEAN : ui' = UpdateMenu([ui EXCEPT !.all = all], vals')
      BY <3>1, Zenon DEF Loading, Display
    <3> DEFINE x == [ui EXCEPT !.all = all]
    <3>3. x \in Screens /\ x.menu = ui.menu /\ x.rows = ui.rows
      BY <2>2, <3>2 DEF Screens
    <3> HIDE DEF x
    <3>4. UpdateMenu(x, vals').menu = ui.menu /\ UpdateMenu(x, vals').rows = ui.rows
      BY <3>3, UpdateRows
    <3>5. Rowed(UpdateMenu(x, vals'))
      BY <3>4, SameRowed
    <3> QED BY <3>2, <3>5 DEF x
  <2>12. CASE (\E f \in DOMAIN disk : SaveFile(f) \/ SaveMinFile(f)) \/ QuitSaving
    BY <1>3, <2>12 DEF SaveFile, SaveMinFile, QuitSaving, Fails
  <2>13. CASE Quit \/ QuitDiscarding
    BY <1>3, <2>13 DEF Quit, QuitDiscarding, Open
  <2> QED BY <1>3, <2>7, <2>8, <2>9, <2>10, <2>11, <2>12, <2>13, NextCases
<1> QED BY <1>2, <1>3 DEF vars

(* The rows menuconfig remembers for the menus above are never more than   *)
(* those menus, so that the way up ends with a row for each it came from,  *)
(* wherever the user jumped in between.                                    *)
THEOREM RowsAreOfParents ==
    ASSUME ValuesFit, ValuesShown, ShownInside
    PROVE  Spec => []RowsOfParents
<1>1. Init => Inv /\ Data /\ RowsOfParents
  <2>1. ASSUME Init PROVE RowsOfParents
    <3>1. ui.rows = <<>> /\ ui.menu = kconf.top /\ kconf \in Kconfigs
      BY <2>1 DEF Init
    <3>2. kconf.depth[kconf.top] \in Nat
      BY <3>1, KconfigsAssumption
    <3>3. Len(ui.rows) = 0
      BY <3>1
    <3> QED BY <3>1, <3>2, <3>3 DEF RowsOfParents
  <2> QED BY <2>1, InvInductive
<1>2. Inv /\ Data /\ RowsOfParents /\ [Next]_vars => (Inv /\ Data /\ RowsOfParents)'
  <2>1. ASSUME Inv, Data, RowsOfParents, [Next]_vars PROVE RowsOfParents'
    <3>1. kconf' = kconf
      BY <2>1, DataStep
    <3>2. ListsMenus(vals')
      BY <2>1, <3>1, InvInductive DEF Inv, ListsMenus
    <3>3. Rowed(ui')
      BY <2>1, <3>1, <3>2, RowsStep DEF RowsOfParents, Rowed
    <3> QED BY <3>1, <3>3 DEF RowsOfParents, Rowed
  <2> QED BY <2>1, InvInductive
<1> QED BY <1>1, <1>2, PTL DEF Spec

-----------------------------------------------------------------------------
(* Every lookup finds its node. *)
Found == outcome # "crash" /\ ~ui.lost

LEMMA DisplayFound ==
    ASSUME NEW x, Display(x), ~x.lost
    PROVE  Found'
  BY DEF Display, Found

LEMMA SameFound ==
    ASSUME NEW x, NEW y, SameRows(x, y), ~x.lost
    PROVE  ~y.lost
  BY DEF SameRows

(* What AllShown and MenusShown say of the values there are *)
LEMMA Showing ==
    ASSUME AllShown, MenusShown, kconf \in Kconfigs, NEW u \in UserValues(kconf)
    PROVE  LET w == Values(kconf, u) IN
           /\ \A n \in kconf.nodes \ {kconf.top} :
                  n \in Range(ShownIn(kconf.menuOf[n], TRUE, w))
           /\ \A m \in kconf.menus \ {kconf.top} :
                  ShownIn(m, FALSE, w) # <<>> => m \in Range(ShownIn(kconf.menuOf[m], FALSE, w))
  BY DEF AllShown, MenusShown, ShownIn

LEMMA UpdateFound ==
    ASSUME NEW x \in Screens, ~x.lost, NEW w,
           x.shown[x.sel + 1] \in Range(ShownIn(x.menu, x.all, w))
    PROVE  ~UpdateMenu(x, w).lost
<1> DEFINE shown == ShownIn(x.menu, x.all, w)
           i == Index(shown, x.shown[x.sel + 1])
           new(j) == [x EXCEPT !.shown = shown, !.sel = i, !.scroll = j]
<1>1. UpdateMenu(x, w) = SelectOnRow([x EXCEPT !.shown = shown], i, x.sel - x.scroll)
  BY Zenon DEF UpdateMenu, UpdateTo
<1>2. SelectOnRow([x EXCEPT !.shown = shown], i, x.sel - x.scroll)
        = new(Max2(i - (x.sel - x.scroll), 0))
  BY DEF SelectOnRow
<1>3. \A j : ~new(j).lost
  BY DEF Screens
<1> HIDE DEF new
<1> QED BY <1>1, <1>2, <1>3

(* The menu that is left is listed in the one above it. *)
LEMMA LeaveFound ==
    ASSUME AllShown, MenusShown, kconf \in Kconfigs, NEW u \in UserValues(kconf),
           NEW w, w = Values(kconf, u), NEW x, Listing(x, w), ~x.lost, NEW h
    PROVE  ~LeaveMenu(x, w, h).lost
<1> DEFINE parent == kconf.menuOf[x.menu]
           shown == ShownIn(parent, x.all, w)
           y == [x EXCEPT !.menu = parent, !.shown = shown, !.sel = Index(shown, x.menu)]
           z == [y EXCEPT !.rows = Tail(@)]
<1>1. x \in Screens /\ x.menu \in kconf.menus /\ x.all \in BOOLEAN
  BY DEF Listing, Screens
<1>2. CASE x.menu = kconf.top
  BY <1>2 DEF LeaveMenu
<1>3. CASE x.menu # kconf.top
  <2>1. x.menu \in kconf.nodes \ {kconf.top}
    BY <1>1, <1>3, KconfigsAssumption
  <2>2. ShownIn(x.menu, x.all, w) # <<>>
    BY <1>1 DEF Listing, Screens, ShownIn
  <2>3. x.menu \in Range(shown)
    <3>1. CASE x.all = TRUE
      BY <2>1, <3>1, Showing
    <3>2. CASE x.all = FALSE
      BY <1>1, <1>3, <2>2, <3>2, Showing
    <3> QED BY <1>1, <3>1, <3>2
  <2>4. LeaveMenu(x, w, h)
          = IF x.rows = <<>> THEN Center(y, h) ELSE SelectOnRow(z, y.sel, Min2(Head(x.rows), h - 1))
    BY <1>3, <2>3 DEF LeaveMenu, LeaveTo
  <2>5. ~Center(y, h).lost
    BY <1>1 DEF Center, Screens
  <2>6. \A i, j : ~[z EXCEPT !.sel = i, !.scroll = j].lost
    BY <1>1 DEF Screens
  <2> HIDE DEF y, z
  <2>7. ~SelectOnRow(z, y.sel, Min2(Head(x.rows), h - 1)).lost
    BY <2>6 DEF SelectOnRow
  <2> QED BY <2>4, <2>5, <2>7
<1> QED BY <1>2, <1>3

LEMMA AfterFound ==
    ASSUME AllShown, MenusShown, kconf \in Kconfigs, NEW u \in UserValues(kconf),
           NEW w, w = Values(kconf, u), NEW x, Listing(x, w), ~x.lost, NEW i, NEW leaves
    PROVE  ~AfterChange(x, i, leaves, w).lost
<1>1. AfterChange(x, i, leaves, w) \in {x, LeaveMenu(x, w, height)}
  BY DEF AfterChange
<1> QED BY <1>1, LeaveFound

LEMMA SetValFound ==
    ASSUME ValuesFit, ValuesShown, ShownInside, AllShown, MenusShown, ChangesShow,
           Inv, Data, Found, outcome = "running", Top \notin {"jump", "info"},
           NEW i, NEW v, NEW leaves, Chosen(i, v), SetVal(i, v, leaves)
    PROVE  Found'
<1>1. kconf \in Kconfigs /\ Valid /\ height \in Nat \ {0} /\ ~ui.lost
  BY DEF Inv, Data, Found
<1>2. Listing(ui, vals) /\ ui \in Screens /\ InWindow(ui, height) /\ ui.sel < Len(ui.shown)
  BY AtMain
<1>3. CASE Display(AfterChange(ui, i, leaves, vals))
  <2>1. ~AfterChange(ui, i, leaves, vals).lost
    BY <1>1, <1>2, AfterFound DEF Valid
  <2> QED BY <1>3, <2>1, DisplayFound
<1>4. CASE /\ user' = SetValue(kconf, user, i, v) /\ vals' = Values(kconf, user')
           /\ Display(AfterChange(UpdateMenu(ui, vals'), i, leaves, vals'))
  <2>1. user' \in UserValues(kconf)
    BY <1>1, SetValValid DEF Valid
  <2>2. ListsMenus(vals')
    BY <1>1, <1>4, <2>1, ValuesListMenus
  <2>3. /\ Selected \in kconf.nodes \ {kconf.top} /\ kconf.menuOf[Selected] = ui.menu
        /\ Selected \in Range(ShownIn(ui.menu, ui.all, vals))
        /\ ui.menu \in kconf.menus /\ ui.all \in BOOLEAN
    BY <1>1, <1>2, SelectedInside DEF Listing, ShownIn
  <2>4. Selected \in Range(ShownIn(ui.menu, ui.all, vals'))
    <3>1. CASE ui.all = TRUE
      BY <1>1, <1>4, <2>1, <2>3, <3>1, Showing
    <3>2. CASE ui.all = FALSE
      <4>1. i = kconf.item[Selected] /\ i \in Items(kconf) /\ v \in Offers(kconf, vals, i)
        BY DEF Chosen
      <4>2. \A m \in kconf.menus : \A n \in Range(vals.shown[<<m, FALSE>>]) :
                kconf.item[n] = i => n \in Range(vals'.shown[<<m, FALSE>>])
        <5>1. \E w \in {vals} : \A j \in Items(kconf) : \A a \in Offers(kconf, w, j) :
                \E x \in {Values(kconf, SetValue(kconf, user, j, a))} : \A m \in kconf.menus :
                    \A n \in Range(w.shown[<<m, FALSE>>]) :
                        kconf.item[n] = j => n \in Range(x.shown[<<m, FALSE>>])
          BY <1>1, Zenon DEF ChangesShow, Valid
        <5>2. \E x \in {vals'} : \A m \in kconf.menus :
                  \A n \in Range(vals.shown[<<m, FALSE>>]) :
                      kconf.item[n] = i => n \in Range(x.shown[<<m, FALSE>>])
          BY <1>4, <4>1, <5>1, Zenon
        <5> QED BY <5>2
      <4> QED BY <2>3, <3>2, <4>1, <4>2 DEF ShownIn
    <3> QED BY <2>3, <3>1, <3>2
  <2> DEFINE x == UpdateMenu(ui, vals')
  <2>5. ~x.lost
    BY <1>1, <1>2, <2>4, UpdateFound DEF Selected
  <2>6. Sound(x, vals', height)
    BY <1>1, <1>2, <2>2, UpdateSound
  <2>7. Listing(x, vals')
    BY <2>5, <2>6 DEF Sound
  <2> HIDE DEF x
  <2>8. ~AfterChange(x, i, leaves, vals').lost
    BY <1>1, <1>4, <2>1, <2>5, <2>7, AfterFound
  <2> QED BY <1>4, <2>8, DisplayFound DEF x
<1> QED BY <1>3, <1>4, SetValCases

(* Show-all mode is turned on where the node would not be found. *)
LEMMA LoadFound ==
    ASSUME ShownInside, AllShown, MenusShown, Inv, Data, Found, outcome = "running",
           Top \notin {"jump", "info"}, NEW u \in UserValues(kconf), NEW w, w = Values(kconf, u)
    PROVE  ~Loading(ui, w).lost
<1> DEFINE all == ui.all \/ Selected \notin Range(ShownIn(ui.menu, ui.all, w))
           x == [ui EXCEPT !.all = all]
<1>1. kconf \in Kconfigs /\ Listing(ui, vals) /\ ui \in Screens /\ ~ui.lost /\ Valid
  BY AtMain DEF Inv, Data, Found
<1>2. /\ Selected \in kconf.nodes \ {kconf.top} /\ kconf.menuOf[Selected] = ui.menu
      /\ ui.all \in BOOLEAN
  BY <1>1, SelectedInside
<1>3. Loading(ui, w) = UpdateMenu(x, w)
  BY Zenon DEF Loading
<1>4. PICK a \in BOOLEAN : a = all
  OBVIOUS
<1>5. Selected \in Range(ShownIn(ui.menu, a, w))
  <2>1. CASE a = TRUE
    BY <1>1, <1>2, <2>1, Showing
  <2>2. CASE a = FALSE
    BY <1>2, <1>4, <2>2
  <2> QED BY <2>1, <2>2
<1>6. x = [ui EXCEPT !.all = a]
  BY <1>4, Zenon
<1> HIDE DEF x, all
<1>7. /\ x \in Screens /\ ~x.lost /\ x.menu = ui.menu /\ x.shown = ui.shown /\ x.sel = ui.sel
      /\ x.all = a
  BY <1>1, <1>6 DEF Screens
<1>8. x.shown[x.sel + 1] \in Range(ShownIn(x.menu, x.all, w))
  BY <1>5, <1>7 DEF Selected
<1> QED BY <1>3, <1>7, <1>8, UpdateFound

LEMMA LandedFound ==
    ASSUME AllShown, MenusShown, kconf \in Kconfigs, Valid, NEW x \in Screens, ~x.lost,
           NEW n \in kconf.nodes \ {kconf.top}
    PROVE  ~Landed(x, n, vals).lost
<1> DEFINE menu == IF JumpInto(n) THEN n ELSE kconf.menuOf[n]
           node == IF JumpInto(n) THEN Head(kconf.list[n]) ELSE n
           all == x.all \/ node \notin Range(ShownIn(menu, FALSE, vals))
           y == [x EXCEPT !.menu = menu, !.shown = ShownIn(menu, all, vals), !.all = all,
                          !.sel = Index(ShownIn(menu, all, vals), node), !.rows = <<>>]
<1>1. node \in kconf.nodes \ {kconf.top} /\ kconf.menuOf[node] = menu
  <2>1. CASE JumpInto(n)
    <3>1. n \in kconf.menus /\ kconf.list[n] # <<>>
      BY <2>1 DEF JumpInto
    <3>2. kconf.list[n] \in Seq(kconf.nodes)
      BY KconfigsAssumption
    <3>3. Head(kconf.list[n]) \in kconf.nodes
      BY <3>1, <3>2
    <3>4. Head(kconf.list[n]) # kconf.top /\ kconf.menuOf[Head(kconf.list[n])] = n
      BY <3>1, KconfigsAssumption
    <3> QED BY <2>1, <3>3, <3>4
  <2>2. CASE ~JumpInto(n)
    BY <2>2
  <2> QED BY <2>1, <2>2
<1>2. PICK a \in BOOLEAN : a = all
  OBVIOUS
<1>3. x.all \in BOOLEAN
  BY DEF Screens
<1>4. node \in Range(ShownIn(menu, a, vals))
  <2>1. CASE a = TRUE
    <3> HIDE DEF node, menu
    <3> QED BY <1>1, <2>1, Showing DEF Valid
  <2>2. CASE a = FALSE
    <3>1. node \in Range(ShownIn(menu, FALSE, vals))
      BY <1>2, <2>2
    <3> QED BY <2>2, <3>1
  <2> QED BY <2>1, <2>2
<1>5. Landed(x, n, vals) = LandOn(x, menu, node, all, ShownIn(menu, all, vals))
  BY Zenon DEF Landed, LandIn
<1>6. node \in Range(ShownIn(menu, all, vals))
  BY <1>2, <1>4, Zenon
<1>7. Landed(x, n, vals) = y
  BY <1>5, <1>6, Zenon DEF LandOn
<1>8. ~y.lost
  BY DEF Screens
<1> QED BY <1>7, <1>8

LEMMA JumpFound ==
    ASSUME AllShown, MenusShown, kconf \in Kconfigs, Valid, ListsMenus(vals),
           NEW h \in Nat \ {0}, NEW x \in Screens, ~x.lost,
           NEW n \in kconf.nodes \ {kconf.top}
    PROVE  LET z == Center(Settled(Landed(x, n, vals), n, vals), h)
           IN ~z.lost /\ ~IfChoice(z, vals, h).lost
<1> DEFINE l == Landed(x, n, vals)
           y == Settled(l, n, vals)
           z == Center(y, h)
<1>1. Landing(l, vals) /\ ~l.lost
  BY LandedLanding, LandedFound
<1> HIDE DEF l
<1>2. l \in Screens /\ Listing(l, vals)
  BY <1>1 DEF Landing, Listing
<1>3. y \in Screens /\ ~y.lost
  <2>1. CASE y = l
    BY <1>1, <1>2, <2>1
  <2>2. CASE y # l
    <3>1. y = ToggleShowAll(l, vals)
      BY <2>2 DEF Settled
    <3>2. Listing(ToggleShowAll(l, vals), vals)
      BY <1>2, ToggleSound
    <3>3. SameRows(l, ToggleShowAll(l, vals))
      BY <1>2, ToggleRows
    <3> HIDE DEF y
    <3> QED BY <1>1, <3>1, <3>2, <3>3, SameFound DEF Listing
  <2> QED BY <2>1, <2>2
<1> HIDE DEF y
<1>4. SameRows(y, z) /\ z \in Screens
  BY <1>3, RowsKept, CenterInWindow
<1> HIDE DEF z
<1>5. SameRows(z, IfChoice(z, vals, h))
  BY <1>4, RowsKept
<1>6. ~z.lost
  BY <1>3, <1>4, SameFound
<1> QED BY <1>5, <1>6, SameFound DEF z, y, l

LEMMA EnterFound ==
    ASSUME NEW x \in Screens, ~x.lost, NEW n, NEW w, NEW h
    PROVE  ~EnterMenu(x, n, w, h).lost
<1> DEFINE y == [x EXCEPT !.menu = n, !.shown = ShownIn(n, x.all, w), !.sel = 0,
                          !.scroll = 0, !.rows = <<x.sel - x.scroll>> \o @]
<1>1. EnterMenu(x, n, w, h) = IfChoice(y, w, h)
  BY DEF EnterMenu
<1>2. IfChoice(y, w, h) = y
      \/ \E i : IfChoice(y, w, h) = Center([y EXCEPT !.sel = i], h)
  BY Zenon DEF IfChoice, SelectSelectedChoiceSym
<1>3. ~y.lost /\ "lost" \in DOMAIN y
  BY DEF Screens
<1> HIDE DEF y
<1>4. \A i : ~Center([y EXCEPT !.sel = i], h).lost
  BY <1>3 DEF Center
<1> QED BY <1>1, <1>2, <1>3, <1>4

-----------------------------------------------------------------------------
LEMMA LookingFound ==
    ASSUME AllShown, MenusShown, Inv, Data, Found, Looking
    PROVE  Found'
<1>1. kconf \in Kconfigs /\ Valid /\ ListsMenus(vals) /\ height \in Nat \ {0} /\ ~ui.lost
  BY DEF Inv, Data, Found
<1>2. outcome = "running"
  BY LookingGoesOn
<1>3. Listing(ui, vals) /\ ui \in Screens
  BY <1>2 DEF Inv, MainFits, Listing
<1>4. ASSUME NEW x, SameRows(ui, x), Display(x) PROVE Found'
  BY <1>1, <1>4, SameFound, DisplayFound
<1>5. ASSUME ui' = ui, outcome' = outcome PROVE Found'
  BY <1>5 DEF Found
<1>6. ASSUME NEW x \in Screens, ToMain(x), ~x.lost PROVE Found'
  <2>1. Display(Fit(x, height'))
    BY <1>6 DEF ToMain
  <2>2. SameRows(x, Fit(x, height'))
    BY <1>6, RowsKept
  <2> QED BY <1>6, <2>1, <2>2, SameFound, DisplayFound
<1>7. CASE Down \/ Up \/ End \/ Home \/ ToggleHelp
  BY <1>3, <1>4, <1>7, RowsKept DEF Down, Up, End, Home, ToggleHelp, Move
<1>8. CASE ToggleAll
  BY <1>3, <1>4, <1>8, ToggleRows DEF ToggleAll, Move
<1>9. CASE Leave
  <2>1. ~LeaveMenu(ui, vals, height).lost
    BY <1>1, <1>3, LeaveFound DEF Valid
  <2> QED BY <1>9, <2>1, DisplayFound DEF Leave, Move
<1>10. CASE PageStep \/ \E n \in {PgJump, -PgJump} : Page(n)
  <2>1. CASE PageStep /\ Top = "main"
    <3>1. Display(Paged(ui, ui.shown, height))
      BY <2>1 DEF PageStep
    <3>2. SameRows(ui, Paged(ui, ui.shown, height))
      BY <1>3, RowsKept DEF Paged
    <3> QED BY <1>4, <3>1, <3>2
  <2>2. CASE PageStep /\ Top # "main"
    BY <1>5, <2>2 DEF PageStep
  <2>3. CASE \E n \in {PgJump, -PgJump} : Page(n)
    BY <1>5, <2>3 DEF Page
  <2> QED BY <1>10, <2>1, <2>2, <2>3
<1>11. CASE Load \/ LoadAnyway \/ Save \/ SaveMin \/ Close
             \/ \E f \in DOMAIN disk : LoadFails(f)
  BY <1>5, <1>11 DEF Load, LoadAnyway, Save, SaveMin, Close, LoadFails, Open
<1>12. CASE Info \/ LeaveInfo \/ OpenJump \/ CancelJump
  BY <1>1, <1>3, <1>5, <1>6, <1>12 DEF Info, LeaveInfo, OpenJump, CancelJump, Open
<1>13. CASE SelectMatch \/ \E found \in kconf.searches : Search(found)
  BY <1>5, <1>13 DEF SelectMatch, Search, Matching
<1>14. CASE \E t \in kconf.terms : Resize(t)
  <2>1. (\E h : Display(Fit(ui, h))) \/ (ui' = ui /\ outcome' = outcome)
    BY <1>14 DEF Resize
  <2> QED BY <1>3, <1>4, <1>5, <2>1, RowsKept
<1>15. CASE Jump
  <2> DEFINE n == jump.matches[jump.sel + 1]
             z == Center(Settled(Landed(ui, n, vals), n, vals), height)
  <2>1. n \in kconf.nodes \ {kconf.top}
    BY <1>15, JumpTarget
  <2>2. ToMain(IF JumpInto(n) THEN IfChoice(z, vals, height) ELSE z)
    BY <1>15, Zenon DEF Jump, JumpTo
  <2> HIDE DEF n
  <2>3. ~z.lost /\ ~IfChoice(z, vals, height).lost
    BY <1>1, <1>3, <2>1, JumpFound, Zenon
  <2>4. Sound(z, vals, height) /\ Sound(IfChoice(z, vals, height), vals, height)
    BY <1>1, <1>3, <2>1, JumpSound, Zenon
  <2>5. z \in Screens /\ IfChoice(z, vals, height) \in Screens
    BY <2>4 DEF Sound, Listing
  <2> HIDE DEF z
  <2> QED BY <1>6, <2>2, <2>3, <2>5
<1> QED BY <1>7, <1>8, <1>9, <1>10, <1>11, <1>12, <1>13, <1>14, <1>15 DEF Looking

LEMMA FoundStep ==
    ASSUME ValuesFit, ValuesShown, ShownInside, AllShown, MenusShown, ChangesShow,
           ValuesOffered, Inv, Data, Found, [Next]_vars
    PROVE  Found'
<1>1. kconf \in Kconfigs /\ Valid /\ Asking /\ ~ui.lost
      /\ dialogs \in Seq(Floating) \cup Filling
  BY DEF Inv, Data, Found
<1>2. ASSUME ui' = ui, outcome' # "crash" PROVE Found'
  BY <1>2 DEF Found
<1>3. \A i \in Items(kconf) :
          /\ IsTri(kconf, i) => \/ vals.of[i].val \in vals.of[i].asg
                                \/ \A v, x \in vals.of[i].asg : v = x
          /\ ~IsTri(kconf, i) =>
                \A v \in kconf.inputs[i] : vals.of[i].check[v] \in {"valid", "error"}
  BY <1>1 DEF ValuesOffered, Valid
<1>4. CASE UNCHANGED vars
  BY <1>4 DEF vars, Found
<1>5. CASE Looking
  BY <1>5, LookingFound
<1>6. CASE Space \/ Enter
  <2>1. outcome = "running" /\ Top \notin {"jump", "info"}
    BY <1>6, KeyAtMain DEF Space, Enter
  <2>2. ui \in Screens
    BY <2>1, AtMain
  <2>3. CASE Move(ui)
    BY <1>1, <2>3, DisplayFound DEF Move
  <2>4. CASE Move(EnterMenu(ui, Selected, vals, height))
    BY <1>1, <2>2, <2>4, EnterFound, DisplayFound DEF Move
  <2>5. CASE Changeable(Selected) /\ ChangeNode(Selected)
    <3>1. CASE ui' = ui /\ outcome' = outcome
      BY <1>2, <2>1, <3>1
    <3>2. CASE \E v, leaves : Chosen(kconf.item[Selected], v)
                               /\ SetVal(kconf.item[Selected], v, leaves)
      BY <2>1, <3>2, SetValFound
    <3> QED BY <1>1, <1>3, <2>5, <3>1, <3>2, ChangeNodeCases
  <2> QED BY <1>6, <2>3, <2>4, <2>5, ChangeCases
<1>7. CASE \E v \in 0..2 : SetTriVal(v)
  <2>1. PICK v \in 0..2 : SetTriVal(v)
    BY <1>7
  <2>2. outcome = "running" /\ Top \notin {"jump", "info"}
    BY <2>1, KeyAtMain, Zenon DEF SetTriVal
  <2>3. Chosen(kconf.item[Selected], v) /\ SetVal(kconf.item[Selected], v, FALSE)
    BY <1>1, <2>1, TriChosen
  <2> QED BY <2>2, <2>3, SetValFound
<1>8. CASE \E v \in Typed : InputText(v)
  <2>1. PICK v \in Typed : InputText(v)
    BY <1>8
  <2> DEFINE i == kconf.item[Selected]
  <2>2. outcome = "running"
    BY <2>1 DEF InputText, Running
  <2>3. i \in kconf.syms /\ ~IsTri(kconf, i) /\ v \in kconf.inputs[i] /\ Top = "input"
    BY <1>1, <2>1, TextCases
  <2>4. vals.of[i].check[v] \in {"valid", "error"}
    BY <1>3, <2>3 DEF Items
  <2>5. CASE Chosen(i, v) /\ \E leaves : SetVal(i, v, leaves)
    BY <2>2, <2>3, <2>5, SetValFound
  <2>6. CASE ui' = ui /\ outcome' = outcome
    BY <1>2, <2>2, <2>6
  <2> QED BY <1>1, <2>1, <2>4, <2>5, <2>6, TextCases
<1>9. CASE \E f \in DOMAIN disk : LoadFile(f)
  <2>1. PICK f \in DOMAIN disk : LoadFile(f)
    BY <1>9
  <2>2. outcome = "running" /\ Top = "loadname"
    BY <2>1 DEF LoadFile, Running
  <2>3. vals' = Values(kconf, user') /\ Display(Loading(ui, vals'))
    BY <2>1, LoadCases
  <2>4. user' \in UserValues(kconf)
    BY <1>1, <2>1, LoadValid DEF Data, Valid
  <2>5. ~Loading(ui, vals').lost
    BY <2>2, <2>3, <2>4, LoadFound
  <2> QED BY <2>3, <2>5, DisplayFound
<1>10. CASE (\E f \in DOMAIN disk : SaveFile(f) \/ SaveMinFile(f)) \/ QuitSaving
  BY <1>2, <1>10 DEF SaveFile, SaveMinFile, QuitSaving, Fails, Running
<1>11. CASE Quit \/ QuitDiscarding
  BY <1>2, <1>11 DEF Quit, QuitDiscarding, Open, Key, Running
<1> QED BY <1>4, <1>5, <1>6, <1>7, <1>8, <1>9, <1>10, <1>11, NextCases

(* No order of keys, dialogs, loads and resizes ends menuconfig with an    *)
(* exception: each node a list is searched for is in it.  Of the           *)
(* hypotheses MenusShown and ChangesShow are what a Kconfig file can       *)
(* break.                                                                  *)
THEOREM NoKeyCrashes ==
    ASSUME ValuesFit, ValuesShown, ShownInside, AllShown, MenusShown, ChangesShow,
           ValuesOffered
    PROVE  Spec => []NeverCrashes
<1>1. Init => Inv /\ Data /\ Found
  <2>1. ASSUME Init PROVE Found
    <3>1. outcome # "crash"
      BY <2>1 DEF Init
    <3>2. ui.lost = FALSE
      BY <2>1 DEF Init
    <3> QED BY <3>1, <3>2 DEF Found
  <2> QED BY <2>1, InvInductive
<1>2. Inv /\ Data /\ Found /\ [Next]_vars => (Inv /\ Data /\ Found)'
  BY InvInductive, FoundStep
<1>3. Found => NeverCrashes
  BY DEF Found, NeverCrashes
<1> QED BY <1>1, <1>2, <1>3, PTL DEF Spec
=============================================================================
