------------------------------ MODULE Menuconfig ------------------------------
(***************************************************************************)
(* menuconfig: the keys a user presses, what they do to the screen and to  *)
(* the configuration, and when the program says that nothing is left to    *)
(* save.                                                                   *)
(*                                                                         *)
(* A Kconfig instance k is a record with what KconfigUser reads and        *)
(*   nodes, top, list, item, menus, nodesOf    as in MenuShown             *)
(*   menuOf       the menu of the interface a node is in (_parent_menu)    *)
(*   depth        how many menus the interface has above a node            *)
(*   searchable   all the jump-to dialog lists, and searches, what texts   *)
(*                typed there find                                         *)
(*   texts        the values an int or string symbol may have, and inputs, *)
(*                those that are typed for it                              *)
(*   disk         the configuration files there are                        *)
(*   terms        the heights of the terminal                              *)
(*   does         the groups of keys the user presses                      *)
(*                                                                         *)
(* Values(k, user) is what user values make of the symbols and choices, a  *)
(* record: of[i] with the attributes val, asg             *)
(* (assignable), vis, sel (a choice's selection), write and min, and       *)
(* check (_check_valid of each input); seen, the nodes that are visible;   *)
(* and shown[<<menu, all>>], what a menu shows in or out of show-all mode *)
(* (_shown_nodes).  Widths, wording, drawing and the scrolling of texts    *)
(* are left out.                                                           *)
(***************************************************************************)
EXTENDS KconfigUser

CONSTANTS
    Kconfigs,           \* the Kconfig instances
    Values(_, _),
    ScrollOffset,       \* _SCROLL_OFFSET
    PgJump              \* _PG_JUMP

VARIABLES
    kconf,              \* the Kconfig instance, _kconf
    user, vals, missing,\* its user values, their Values, and missing_syms
    ui,                 \* the main display, a record: menu (_cur_menu), shown,
                        \* sel, scroll, rows (_parent_screen_rows, the last
                        \* first), all (_show_all), lost (a node was not found)
    term, height, help, \* the heights of terminal and menu window, _show_help
    file, changed,      \* _conf_filename and _conf_changed
    disk,               \* the configuration files
    broken,             \* history: the files whose last write failed
    dialogs,            \* the open dialogs, the topmost first
    jump,               \* the list of the jump-to dialog
    paging,             \* what is left of a Page Down (> 0) or Page Up (< 0)
    outcome             \* "running", or how the program ended

conf == <<user, vals, missing>>
session == <<file, changed>>
store == <<disk, broken>>
screen == <<term, height, help>>
vars == <<kconf, conf, ui, screen, session, store, dialogs, jump, paging, outcome>>

Items(k) == k.syms \cup k.choices

Min2(a, b) == IF a < b THEN a ELSE b
Max2(a, b) == IF a > b THEN a ELSE b

(* Everything in k a node is looked up in is there, and the nodes          *)
(* themselves are where the lookups go.                                    *)
ASSUME SizesAssumption == ScrollOffset \in Nat /\ PgJump \in Nat

ASSUME KconfigsAssumption ==
    \A k \in Kconfigs :
        /\ k.top \in k.menus /\ k.menus \subseteq k.nodes
        /\ k.list \in [k.nodes -> Seq(k.nodes)]
        /\ k.menuOf \in [k.nodes \ {k.top} -> k.menus]
        /\ \A n \in k.menus : k.list[n] # <<>> =>
              Head(k.list[n]) # k.top /\ k.menuOf[Head(k.list[n])] = n
        /\ k.depth \in [k.nodes -> Nat]
        /\ \A n \in k.nodes \ {k.top} : k.depth[n] = k.depth[k.menuOf[n]] + 1
        /\ k.nodesOf \in [Items(k) -> Seq(k.nodes)]
        /\ k.searchable \in Seq(k.nodes \ {k.top})
        /\ k.searches \subseteq Seq(k.nodes \ {k.top})
        /\ k.terms \subseteq Nat \ {0}
        /\ "config" \in DOMAIN k.disk

(* Symbols, choices and what is known of them                              *)
ASSUME ItemsAssumption ==
    \A k \in Kconfigs :
        /\ ItemsRight(k)
        /\ \A s \in k.syms : ~IsTri(k, s) =>
              /\ k.inputs[s] \subseteq k.texts[s]
              /\ \A f \in DOMAIN k.disk :
                    s \in DOMAIN k.disk[f].lines => k.disk[f].lines[s] \in k.texts[s]

-----------------------------------------------------------------------------
(* The heights of the menu window and of the list of matches *)
MainHeight(t, helping) == Max2(t - (IF helping THEN 8 ELSE 4) - 3, 1)
JumpHeight(t) == Max2(t - 5 - 4, 1)

ShownIn(menu, all, w) == w.shown[<<menu, all>>]

Init ==
    /\ kconf \in Kconfigs
    /\ disk = kconf.disk /\ broken = {}
    /\ file = "config"
    /\ user = IF disk[file].there THEN Loaded(kconf, NoUser(kconf), disk[file].lines, TRUE)
              ELSE NoUser(kconf)
    /\ vals = Values(kconf, user)
    /\ missing = DOMAIN disk[file].lines \ kconf.syms
    /\ changed = (~disk[file].there \/ NeedsSave(kconf, user, vals.of, missing))
    /\ term \in kconf.terms
    /\ height = MainHeight(term, FALSE)
    /\ help = FALSE
    /\ LET all == ShownIn(kconf.top, FALSE, vals) = <<>> IN
       ui = [menu |-> kconf.top, shown |-> ShownIn(kconf.top, all, vals), sel |-> 0,
             scroll |-> 0, rows |-> <<>>, all |-> all, lost |-> FALSE]
    /\ dialogs = <<>>
    /\ jump = [matches |-> <<>>, sel |-> 0, scroll |-> 0, height |-> 1]
    /\ paging = 0
    /\ outcome = IF ui.shown = <<>> THEN "empty" ELSE "running"

-----------------------------------------------------------------------------
(* Lists: x is a record with sel, the index of the selected row, and       *)
(* scroll, the index of the top row of a window of height h.               *)
Index(list, n) == Min({i \in 0..(Len(list) - 1) : list[i + 1] = n})
MaxScroll(list, h) == Max2(0, Len(list) - h)

SelectNext(x, list, h) ==
    IF x.sel >= Len(list) - 1 THEN x
    ELSE [x EXCEPT !.sel = @ + 1,
                   !.scroll = IF x.sel + 1 >= @ + h - ScrollOffset
                                 /\ @ < MaxScroll(list, h)
                              THEN @ + 1 ELSE @]

SelectPrev(x) ==
    IF x.sel <= 0 THEN x
    ELSE [x EXCEPT !.sel = @ - 1,
                   !.scroll = IF x.sel - 1 < @ + ScrollOffset THEN Max2(@ - 1, 0) ELSE @]

SelectLast(x, list, h) ==
    [x EXCEPT !.sel = Len(list) - 1, !.scroll = MaxScroll(list, h)]

SelectFirst(x) == [x EXCEPT !.sel = 0, !.scroll = 0]

(* The scroll of a resized window *)
Fit(x, h) == IF x.sel - x.scroll >= h THEN [x EXCEPT !.scroll = x.sel - h + 1] ELSE x

Center(x, h) ==
    [x EXCEPT !.scroll = Min2(Max2(x.sel - h \div 2, 0), MaxScroll(x.shown, h))]

(* The selection moves to index i, on the given row of the window if it    *)
(* can.                                                                    *)
SelectOnRow(x, i, row) == [x EXCEPT !.sel = i, !.scroll = Max2(i - row, 0)]

-----------------------------------------------------------------------------
(* Menus *)
Lost(x) == [x EXCEPT !.lost = TRUE]

CanEnter(x, n, w) == n \in kconf.menus /\ ShownIn(n, x.all, w) # <<>>

(* The first node of the selected symbol that is shown *)
SelectSelectedChoiceSym(x, w, h) ==
    LET sym == w.of[kconf.item[x.menu]].sel
        here == IF sym = NoItem THEN {}
                ELSE {i \in 1..Len(kconf.nodesOf[sym]) : kconf.nodesOf[sym][i] \in Range(x.shown)}
    IN IF here = {} THEN x
       ELSE Center([x EXCEPT !.sel = Index(x.shown, kconf.nodesOf[sym][Min(here)])], h)

IfChoice(x, w, h) ==
    IF kconf.item[x.menu] \in kconf.choices THEN SelectSelectedChoiceSym(x, w, h) ELSE x

EnterMenu(x, n, w, h) ==
    IfChoice([x EXCEPT !.menu = n, !.shown = ShownIn(n, x.all, w), !.sel = 0,
                       !.scroll = 0, !.rows = <<x.sel - x.scroll>> \o @], w, h)

LeaveTo(x, parent, shown, h) ==
    IF x.menu \notin Range(shown) THEN Lost(x)
    ELSE LET y == [x EXCEPT !.menu = parent, !.shown = shown,
                            !.sel = Index(shown, x.menu)]
         IN IF x.rows = <<>> THEN Center(y, h)
            ELSE SelectOnRow([y EXCEPT !.rows = Tail(@)], y.sel,
                             Min2(Head(x.rows), h - 1))

LeaveMenu(x, w, h) ==
    IF x.menu = kconf.top THEN x
    ELSE LeaveTo(x, kconf.menuOf[x.menu], ShownIn(kconf.menuOf[x.menu], x.all, w), h)

\* Mutant of UpdateTo: the scroll stays.
UpdateToScrolled(x, shown) ==
    IF x.shown[x.sel + 1] \notin Range(shown) THEN Lost(x)
    ELSE [x EXCEPT !.shown = shown, !.sel = Index(shown, x.shown[x.sel + 1])]

(* _update_menu: the selected node stays selected, on the same row. *)
UpdateTo(x, shown) ==
    IF x.shown[x.sel + 1] \notin Range(shown) THEN Lost(x)
    ELSE SelectOnRow([x EXCEPT !.shown = shown],
                     Index(shown, x.shown[x.sel + 1]), x.sel - x.scroll)

UpdateMenu(x, w) == UpdateTo(x, ShownIn(x.menu, x.all, w))

(* _toggle_show_all: the closest node before the selected one that is      *)
(* still shown is selected, else the closest one after it; with none left, *)
(* show-all is (left) on.                                                  *)
ToggleTo(x, shown) ==
    LET before == {d \in 0..x.sel : x.shown[x.sel - d + 1] \in Range(shown)}
        after == {d \in 1..(Len(x.shown) - 1 - x.sel) :
                     x.shown[x.sel + d + 1] \in Range(shown)}
        select(i) == SelectOnRow([x EXCEPT !.all = ~@, !.shown = shown],
                                 Index(shown, x.shown[i + 1]), x.sel - x.scroll)
    IN CASE before # {} -> select(x.sel - Min(before))
         [] before = {} /\ after # {} -> select(x.sel + Min(after))
         [] before = {} /\ after = {} -> [x EXCEPT !.all = TRUE]

ToggleShowAll(x, w) == ToggleTo(x, ShownIn(x.menu, ~x.all, w))

\* Mutant of LandOn: remembered rows are kept.
LandOnKeeping(x, menu, n, all, shown) ==
    IF n \notin Range(shown) THEN Lost(x)
    ELSE [x EXCEPT !.menu = menu, !.shown = shown, !.all = all, !.sel = Index(shown, n)]

(* _jump_to: into a menu or choice that has nodes, else to the node, in    *)
(* show-all mode where it is hidden.  Rows remembered on the way to the    *)
(* old menu are forgotten.                                                 *)
LandOn(x, menu, n, all, shown) ==
    IF n \notin Range(shown) THEN Lost(x)
    ELSE [x EXCEPT !.menu = menu, !.shown = shown, !.all = all, !.sel = Index(shown, n),
                   !.rows = <<>>]

LandIn(x, menu, n, all, w) == LandOn(x, menu, n, all, ShownIn(menu, all, w))

JumpInto(n) == n \in kconf.menus /\ kconf.item[n] \notin kconf.syms /\ kconf.list[n] # <<>>

Landed(x, n, w) ==
    LET menu == IF JumpInto(n) THEN n ELSE kconf.menuOf[n]
        node == IF JumpInto(n) THEN Head(kconf.list[n]) ELSE n
    IN LandIn(x, menu, node, x.all \/ node \notin Range(ShownIn(menu, FALSE, w)), w)

(* A jump into a menu tries to do without show-all mode after all.         *)
Settled(x, n, w) ==
    IF JumpInto(n) /\ x.all /\ ~ui.all /\ ~x.lost THEN ToggleShowAll(x, w) ELSE x

-----------------------------------------------------------------------------
(* Keys of the main display.  The program waits for one, whatever is done  *)
(* about it ends before the next is read, and an exception ends it all.    *)
Running == outcome = "running" /\ paging = 0
Key(group) == Running /\ dialogs = <<>> /\ group \in kconf.does
Top == IF dialogs = <<>> THEN "main" ELSE Head(dialogs)

Selected == ui.shown[ui.sel + 1]

Display(x) == ui' = x /\ outcome' = IF ui'.lost THEN "crash" ELSE "running"

Move(x) ==
    Display(x) /\ UNCHANGED <<kconf, conf, screen, session, store, dialogs, jump, paging>>

Down == Key("move") /\ Move(SelectNext(ui, ui.shown, height))
Up == Key("move") /\ Move(SelectPrev(ui))
End == Key("move") /\ Move(SelectLast(ui, ui.shown, height))
Home == Key("move") /\ Move(SelectFirst(ui))
Leave == Key("move") /\ Move(LeaveMenu(ui, vals, height))
ToggleAll == Key("all") /\ Move(ToggleShowAll(ui, vals))

ToggleHelp ==
    /\ Key("help")
    /\ help' = ~help /\ height' = MainHeight(term, ~help)
    /\ Display(Fit(ui, height'))
    /\ UNCHANGED <<kconf, conf, term, session, store, dialogs, jump, paging>>

(* Page Down and Page Up step PgJump times, in the main display and among  *)
(* the matches, before the next key is read. *)
Page(n) ==
    /\ Running /\ "page" \in kconf.does
    /\ Top = "main" \/ (Top = "jump" /\ jump.matches # <<>>)
    /\ paging' = n
    /\ UNCHANGED <<kconf, conf, ui, screen, session, store, dialogs, jump, outcome>>

Paged(x, list, h) == IF paging > 0 THEN SelectNext(x, list, h) ELSE SelectPrev(x)

PageStep ==
    /\ outcome = "running" /\ paging # 0
    /\ paging' = IF paging > 0 THEN paging - 1 ELSE paging + 1
    /\ IF Top = "main" THEN Display(Paged(ui, ui.shown, height)) /\ UNCHANGED jump
       ELSE /\ jump' = Paged(jump, jump.matches, jump.height)
            /\ UNCHANGED <<ui, outcome>>
    /\ UNCHANGED <<kconf, conf, screen, session, store, dialogs>>

-----------------------------------------------------------------------------
(* Changing values *)
IsYModeChoiceSym(i, w) ==
    i \in kconf.syms /\ kconf.choiceOf[i] # NoItem /\ w.of[i].vis = 2

(* The end of _change_node: a choice symbol without children, once         *)
(* changed, leaves the choice.                                             *)
AfterChange(x, i, leaves, w) ==
    IF leaves /\ ~x.lost /\ IsYModeChoiceSym(i, w) THEN LeaveMenu(x, w, height) ELSE x

\* Mutant of SetVal: the change is not remembered.
SetValQuietly(i, v, leaves) ==
    /\ IF v = vals.of[i].val THEN Display(AfterChange(ui, i, leaves, vals)) /\ UNCHANGED conf
       ELSE \E u \in {SetValue(kconf, user, i, v)} : \E w \in {Values(kconf, u)} :
            /\ user' = u /\ vals' = w
            /\ \E x \in {UpdateMenu(ui, w)} : Display(AfterChange(x, i, leaves, w))
            /\ UNCHANGED missing
    /\ UNCHANGED <<kconf, screen, session, store, jump, paging>>

(* _set_val, and what _change_node does next *)
SetVal(i, v, leaves) ==
    /\ IF v = vals.of[i].val
       THEN Display(AfterChange(ui, i, leaves, vals)) /\ UNCHANGED <<conf, changed>>
       ELSE \E u \in {SetValue(kconf, user, i, v)} : \E w \in {Values(kconf, u)} :
            /\ user' = u /\ vals' = w
            /\ changed' = TRUE
            /\ \E x \in {UpdateMenu(ui, w)} : Display(AfterChange(x, i, leaves, w))
            /\ UNCHANGED missing
    /\ UNCHANGED <<kconf, screen, file, store, jump, paging>>

Changeable(n) ==
    LET i == kconf.item[n] IN
    /\ i \in Items(kconf)
    /\ n \in vals.seen
    /\ \/ ~IsTri(kconf, i)
       \/ \E v, w \in vals.of[i].asg : v # w
       \/ IsYModeChoiceSym(i, vals)

(* The value after the present one among the assignable ones, in a circle  *)
NextVal(i) ==
    LET asg == vals.of[i].asg
        above == {v \in asg : v > vals.of[i].val}
    IN IF above # {} THEN Min(above) ELSE Min(asg)

(* The node is no longer looked for if the present value cannot be found   *)
(* among several assignable ones: .index() raises.                         *)
ChangeNode(n) ==
    LET i == kconf.item[n] IN
    IF ~IsTri(kconf, i)
    THEN /\ dialogs' = <<"input">>
         /\ UNCHANGED <<kconf, conf, ui, screen, session, store, jump, paging, outcome>>
    ELSE /\ UNCHANGED dialogs
         /\ IF vals.of[i].val \in vals.of[i].asg \/ \A v, w \in vals.of[i].asg : v = w
            THEN SetVal(i, NextVal(i), kconf.list[n] = <<>>)
            ELSE /\ Display(Lost(ui))
                 /\ UNCHANGED <<kconf, conf, screen, session, store, jump, paging>>

(* Space changes the node or else enters it, Enter the other way round. *)
Space ==
    /\ Key("change")
    /\ IF Changeable(Selected) THEN ChangeNode(Selected)
       ELSE Move(IF CanEnter(ui, Selected, vals) THEN EnterMenu(ui, Selected, vals, height)
                 ELSE ui)

Enter ==
    /\ Key("enter")
    /\ IF CanEnter(ui, Selected, vals) THEN Move(EnterMenu(ui, Selected, vals, height))
       ELSE IF Changeable(Selected) THEN ChangeNode(Selected) ELSE Move(ui)

(* _set_sel_node_tri_val: the keys n, m and y *)
SetTriVal(v) ==
    /\ Key("change")
    /\ kconf.item[Selected] \in Items(kconf) /\ v \in vals.of[kconf.item[Selected]].asg
    /\ SetVal(kconf.item[Selected], v, FALSE)
    /\ UNCHANGED dialogs

(* The text dialog is left with a text that is valid; any other gives an   *)
(* error message, and the dialog is back.                                  *)
Typed == IF Top = "input" THEN kconf.inputs[kconf.item[Selected]] ELSE {}

InputText(v) ==
    LET i == kconf.item[Selected] IN
    /\ Running /\ v \in Typed
    /\ CASE vals.of[i].check[v] = "valid" ->
              /\ SetVal(i, v, kconf.list[Selected] = <<>>)
              /\ dialogs' = <<>>
         [] vals.of[i].check[v] = "error" ->
              /\ dialogs' = <<"message">> \o dialogs
              /\ UNCHANGED <<kconf, conf, ui, screen, session, store, jump, paging, outcome>>
         [] OTHER ->    \* "raises"
              /\ outcome' = "crash"
              /\ UNCHANGED <<kconf, conf, ui, screen, session, store, dialogs, jump, paging>>

-----------------------------------------------------------------------------
(* Dialogs.  Those that float leave all else as it is when they are closed *)
(* with ESC or (C)ancel, as do messages.                                   *)
Floating == {"input", "loadask", "loadname", "savename", "savemin", "quit", "message"}

Open(dialog) ==
    /\ dialogs' = <<dialog>> \o dialogs
    /\ UNCHANGED <<kconf, conf, ui, screen, session, store, jump, paging, outcome>>

Close ==
    /\ Running /\ Top \in Floating
    /\ dialogs' = Tail(dialogs)
    /\ UNCHANGED <<kconf, conf, ui, screen, session, store, jump, paging, outcome>>

(* _load_dialog: unsaved changes are given up only when the user says so.  *)
Load == Key("load") /\ Open(IF changed THEN "loadask" ELSE "loadname")

LoadAnyway ==
    /\ Running /\ Top = "loadask"
    /\ dialogs' = <<"loadname">>
    /\ UNCHANGED <<kconf, conf, ui, screen, session, store, jump, paging, outcome>>

\* Mutant of Loading: show-all mode stays as it is.
LoadingHidden(x, w) == UpdateMenu(x, w)

(* Show-all mode is turned on where the selected node is hidden by what    *)
(* was loaded.                                                             *)
Loading(x, w) ==
    UpdateMenu([x EXCEPT !.all = @ \/ Selected \notin Range(ShownIn(x.menu, @, w))], w)

LoadFile(f) ==
    /\ Running /\ Top = "loadname" /\ disk[f].there
    /\ \E u \in {Loaded(kconf, user, disk[f].lines, TRUE)} : \E w \in {Values(kconf, u)} :
        /\ user' = u /\ vals' = w
        /\ missing' = DOMAIN disk[f].lines \ kconf.syms
        /\ file' = f /\ changed' = NeedsSave(kconf, u, w.of, missing')
        /\ Display(Loading(ui, w))
    /\ dialogs' = <<"message">>
    /\ UNCHANGED <<kconf, screen, store, jump, paging>>

(* _try_load reports the error and the dialog is back. *)
LoadFails(f) == Running /\ Top = "loadname" /\ ~disk[f].there /\ Open("message")

(* write_config and write_min_config write what KconfigFiles says, unless  *)
(* the file has it already.  A write that fails, before or after the file  *)
(* was renamed to its backup or in the middle, is reported.                *)
ConfigOf(k, w) == [s \in {x \in k.syms : w.of[x].write} |-> w.of[s].val]
MinOf(k, w) == [s \in {x \in k.syms : w.of[x].write /\ w.of[x].min} |-> w.of[s].val]

ConfigContents == ConfigOf(kconf, vals)
MinContents == MinOf(kconf, vals)

Written(f, contents) ==
    disk' = [disk EXCEPT ![f] = Whole(contents)] /\ broken' = broken \ {f}

Remains(f, contents) == {disk[f], Missing} \cup {Whole(l) : l \in LeftOf(kconf, contents)}

Fails(f, contents) ==
    /\ "fail" \in kconf.does
    /\ disk[f] # Whole(contents)
    /\ \E left \in Remains(f, contents) : disk' = [disk EXCEPT ![f] = left]
    /\ broken' = broken \cup {f}
    /\ dialogs' = <<"message">> \o dialogs
    /\ UNCHANGED <<kconf, conf, ui, screen, session, jump, paging, outcome>>

Save == Key("save") /\ Open("savename")
SaveMin == Key("savemin") /\ Open("savemin")

SaveFile(f) ==
    /\ Running /\ Top = "savename"
    /\ \/ /\ Written(f, ConfigContents)
          /\ file' = f /\ changed' = FALSE
          /\ dialogs' = <<"message">>
          /\ UNCHANGED <<kconf, conf, ui, screen, jump, paging, outcome>>
       \/ Fails(f, ConfigContents)

SaveMinFile(f) ==
    /\ Running /\ Top = "savemin"
    /\ \/ /\ Written(f, MinContents)
          /\ dialogs' = <<"message">>
          /\ UNCHANGED <<kconf, conf, ui, screen, session, jump, paging, outcome>>
       \/ Fails(f, MinContents)

(* _quit_dialog *)
Quit ==
    /\ Key("quit")
    /\ IF changed THEN Open("quit")
       ELSE /\ outcome' = "unchanged"
            /\ UNCHANGED <<kconf, conf, ui, screen, session, store, dialogs, jump, paging>>

QuitSaving ==
    /\ Running /\ Top = "quit"
    /\ \/ /\ Written(file, ConfigContents)
          /\ outcome' = "saved"
          /\ UNCHANGED <<kconf, conf, ui, screen, session, dialogs, jump, paging>>
       \/ Fails(file, ConfigContents)

QuitDiscarding ==
    /\ Running /\ Top = "quit"
    /\ outcome' = "discarded"
    /\ UNCHANGED <<kconf, conf, ui, screen, session, store, dialogs, jump, paging>>

-----------------------------------------------------------------------------
(* The dialogs that fill the screen: information on a node, and jump-to.   *)
(* Back in the main display they have it resized.                          *)
ToMain(x) ==
    /\ height' = MainHeight(term, help)
    /\ \E y \in {x} : Display(Fit(y, height'))
    /\ dialogs' = <<>>
    /\ UNCHANGED <<kconf, conf, term, help, session, store, paging>>

Info ==
    /\ \/ Key("info")
       \/ Running /\ Top = "jump" /\ jump.matches # <<>> /\ "info" \in kconf.does
    /\ Open("info")

(* Back from the information, or with / if it was opened while searching.  *)
LeaveInfo ==
    /\ Running /\ Top = "info"
    /\ IF Len(dialogs) = 1 THEN ToMain(ui) /\ UNCHANGED jump
       ELSE /\ dialogs' = Tail(dialogs)
            /\ jump' = [Fit(jump, JumpHeight(term)) EXCEPT !.height = JumpHeight(term)]
            /\ UNCHANGED <<kconf, conf, ui, screen, session, store, paging, outcome>>

(* The empty text finds everything. *)
OpenJump ==
    /\ Key("jump") \/ (Running /\ dialogs = <<"info">> /\ "jump" \in kconf.does)
    /\ dialogs' = <<"jump">> \o dialogs
    /\ jump' = [matches |-> kconf.searchable, sel |-> 0, scroll |-> 0,
                height |-> JumpHeight(term)]
    /\ UNCHANGED <<kconf, conf, ui, screen, session, store, paging, outcome>>

Matching(x) ==
    /\ Running /\ Top = "jump"
    /\ jump' = x
    /\ UNCHANGED <<kconf, conf, ui, screen, session, store, dialogs, paging, outcome>>

Search(found) == Matching([jump EXCEPT !.matches = found, !.sel = 0, !.scroll = 0])

(* With no matches the selection may wander; nothing looks at it before    *)
(* the next search.                                                        *)
SelectMatch ==
    /\ jump.matches # <<>>
    /\ \/ Matching(SelectNext(jump, jump.matches, jump.height))
       \/ Matching(SelectPrev(jump))
       \/ Matching(SelectLast(jump, jump.matches, jump.height))
       \/ Matching(SelectFirst(jump))

JumpTo(n) ==
    \E x \in {Landed(ui, n, vals)} : \E y \in {Settled(x, n, vals)} :
    \E z \in {Center(y, height)} :
        ToMain(IF JumpInto(n) THEN IfChoice(z, vals, height) ELSE z)

Jump ==
    /\ Running /\ Top = "jump" /\ jump.matches # <<>>
    /\ JumpTo(jump.matches[jump.sel + 1])
    /\ UNCHANGED jump

CancelJump ==
    /\ Running /\ Top = "jump"
    /\ IF Len(dialogs) = 1 THEN ToMain(ui)
       ELSE /\ dialogs' = Tail(dialogs)
            /\ UNCHANGED <<kconf, conf, ui, screen, session, store, paging, outcome>>
    /\ UNCHANGED jump

(* The terminal is resized.  curses may cut the windows below a dialog     *)
(* that fills the screen to the new size; other dialogs have the main      *)
(* display resized.                                                        *)
Resize(t) ==
    /\ Running
    /\ term' = t
    /\ IF Top \in {"jump", "info"}
       THEN /\ height' \in {height, Min2(height, t)}
            /\ jump' = IF Top = "info" THEN jump
                       ELSE [Fit(jump, JumpHeight(t)) EXCEPT !.height = JumpHeight(t)]
            /\ UNCHANGED <<ui, outcome>>
       ELSE /\ height' = MainHeight(t, help)
            /\ Display(Fit(ui, height'))
            /\ UNCHANGED jump
    /\ UNCHANGED <<kconf, conf, help, session, store, dialogs, paging>>

-----------------------------------------------------------------------------
Next ==
    \/ Down \/ Up \/ End \/ Home
    \/ \E n \in {PgJump, -PgJump} : Page(n)
    \/ PageStep
    \/ Space \/ Enter
    \/ \E v \in 0..2 : SetTriVal(v)
    \/ \E v \in Typed : InputText(v)
    \/ Leave
    \/ ToggleAll \/ ToggleHelp
    \/ Load \/ LoadAnyway
    \/ \E f \in DOMAIN disk : LoadFile(f)
    \/ \E f \in DOMAIN disk : LoadFails(f)
    \/ \E f \in DOMAIN disk : SaveFile(f)
    \/ \E f \in DOMAIN disk : SaveMinFile(f)
    \/ Save \/ SaveMin
    \/ Quit \/ QuitSaving \/ QuitDiscarding
    \/ Info \/ LeaveInfo
    \/ OpenJump \/ SelectMatch \/ Jump \/ CancelJump
    \/ \E found \in kconf.searches : Search(found)
    \/ \E t \in kconf.terms : Resize(t)
    \/ Close

Spec == Init /\ [][Next]_vars

-----------------------------------------------------------------------------
(* The program always has a selected node, and the user sees it: the main  *)
(* display lists what is to be shown now, with the selected row inside the *)
(* window, and so does the list of matches while it is on top.             *)
OnScreen(x, list, h) ==
    x.scroll \in 0..x.sel /\ x.sel < Len(list) /\ x.sel < x.scroll + h

SelectionVisible ==
    outcome = "running" =>
        /\ ui.shown = ShownIn(ui.menu, ui.all, vals)
        /\ Top \notin {"jump", "info"} => OnScreen(ui, ui.shown, height)
        /\ Top = "jump" /\ jump.matches # <<>> => OnScreen(jump, jump.matches, jump.height)

(* No key ends the program with an exception, which would lose all that    *)
(* was not saved: what is looked up in a list is always there.             *)
NeverCrashes == outcome # "crash"

SameValues(k, w, x) == \A s \in k.syms : w.of[s].val = x.of[s].val
Reloaded(k, lines) == Values(k, Loaded(k, NoUser(k), lines, TRUE))

(* "We always prompt for saving": when the program ends saying that there  *)
(* was nothing to save, or that it saved, the file it names gives every    *)
(* symbol its value back; unless the last write of that file failed, which *)
(* the user was told.                                                      *)
NothingLost ==
    outcome \in {"unchanged", "saved"} /\ file \notin broken =>
        /\ disk[file].there
        /\ \E w \in {Reloaded(kconf, disk[file].lines)} : SameValues(kconf, w, vals)

(* The rows remembered for the parent menus are those of menus there are   *)
(* to go back to, wherever the user jumped in between.                     *)
RowsOfParents == Len(ui.rows) <= kconf.depth[ui.menu]
=============================================================================
