----------------------------- MODULE DevicePage -----------------------------
(***************************************************************************)
(* The feature-options page between its boot and its end: the store of     *)
(* state.mjs, the boot of show() in webUi-featureOptions.mjs, the sidebar, *)
(* the options table with its cache of views, the search bar, the retry of *)
(* a failed connection, and the status panel.  Several requests for device *)
(* lists may be under way at once and are answered in any order.           *)
(*                                                                         *)
(* What is written to the host is PersistEffect's; the tabs and the flush  *)
(* at the end of a page cycle are FeatureOptionsPage's.                    *)
(***************************************************************************)
EXTENDS OptionRows, StatusPanel

CONSTANT Scenes  \* pages: [mode, panel, sidebars, lists, loads, texts, limits]

\* The controllers of a sidebar have lists of devices, a page without
\* controllers has one list; None is none of what the page tells from it.
ASSUME DevicePageAssumption ==
  \A page \in Scenes :
    /\ page.sidebars \subseteq Seq(DOMAIN page.lists)
    /\ None \notin [controller : DOMAIN page.lists \cup {None}, seq : Nat] \cup page.texts
    /\ \A c \in DOMAIN page.lists : \A l \in page.lists[c] : l \in Seq(Range(l)) /\ None \notin Range(l)
    /\ IF page.mode = "controllers" THEN None \notin DOMAIN page.lists ELSE page.sidebars = {<<>>}
    /\ page.mode \notin {"controllers", "global"} => None \in DOMAIN page.lists

VARIABLES
  scene,     \* the configuration of the page
  s,         \* the state of the store
  table,     \* the table: [key, categories, cache, opened]
  boot,      \* show(): [at, seq, controllers]
  revealed,  \* are the regions of the page in view?
  retry,     \* the retry button of the error block: none, waiting, armed
  stale,     \* has the status moved since the error view looked at it?
  fetches,   \* the device lists clicks have asked for
  write,     \* the configuration on its way to the host
  left       \* the bounds: cycles, clicks, edits, folds, filters, writes, refreshes

mountVars == <<scene, boot, revealed, fetches, write, left>>
vars == <<scene, s, table, boot, revealed, retry, stale, fetches, write, left, panelVars>>

Global == [kind |-> "global", controller |-> None, device |-> None]
AtController(c) == [kind |-> "controller", controller |-> c, device |-> None]
AtDevice(c, d) == [kind |-> "device", controller |-> c, device |-> d]

Spend(what) == left[what] > 0 /\ left' = [left EXCEPT ![what] = @ - 1]

NoFilter == [mode |-> "all", query |-> FALSE]
Filters == [mode : {"all", "modified"}, query : BOOLEAN]

-----------------------------------------------------------------------------
(* The reducer.                                                            *)

InitialState ==
  [armed |-> None, conf |-> <<>>, anchor |-> <<>>, initial |-> <<>>, controllers |-> <<>>, devices |-> <<>>,
   applied |-> 0, owner |-> None, request |-> None, seq |-> 0, filter |-> NoFilter,
   loaded |-> FALSE, scope |-> Global, status |-> "loading"]

ModelLoaded(t, conf, controllers) ==
  [t EXCEPT !.armed = None, !.conf = conf, !.anchor = conf, !.initial = conf,
            !.controllers = controllers, !.loaded = TRUE, !.status = "ready"]

DevicesRequested(t, c) ==
  [t EXCEPT !.seq = @ + 1, !.request = [controller |-> c, seq |-> t.seq + 1]]

\* A bug: any answer for the controller asked for will do.
AnswersForController(t, f) == t.request # None /\ f.controller = t.request.controller

Answers(t, f) == t.request # None /\ f.seq = t.request.seq

\* A bug: a list that failed is taken for an empty one.
DevicesLoadedQuietly(t, f, devices, failed) ==
  IF ~Answers(t, f) THEN t
  ELSE [t EXCEPT !.devices = devices, !.applied = f.seq, !.owner = f.controller, !.request = None]

\* An answer to a request that has been followed by another changes nothing.
DevicesLoaded(t, f, devices, failed) ==
  IF ~Answers(t, f) THEN t
  ELSE [t EXCEPT !.devices = devices, !.applied = f.seq, !.owner = f.controller, !.request = None,
                 !.status = IF failed THEN "connection-error" ELSE @]

ScopeChanged(t, scope) == [t EXCEPT !.armed = None, !.scope = scope]

Edited(t, conf) == [t EXCEPT !.armed = None, !.conf = conf]

-----------------------------------------------------------------------------
(* The options table.                                                      *)

\* Is the list of the controller in view still to come?
IsTableBusy(t) ==
  /\ t.scope.kind = "controller"
  /\ \/ t.owner # t.scope.controller
     \/ t.request # None /\ t.request.controller = t.scope.controller

Inert(row) == [row EXCEPT !.disabled = TRUE, !.locked = TRUE]

ApplyBusyState(categories, t) ==
  IF ~IsTableBusy(t) THEN categories
  ELSE [c \in DOMAIN categories |->
          [categories[c] EXCEPT !.rows = [o \in DOMAIN @ |-> Inert(@[o])]]]

\* Rows are made when a category is first seen open.
EnsureRowsRendered(category, c, t) ==
  IF category.rows # <<>> THEN category
  ELSE [category EXCEPT !.rows = [o \in OfferedIn(View(t), c) |-> ApplyRowState(t, o)]]

Derived(category, c, t) ==
  [EnsureRowsRendered(category, c, t) EXCEPT !.rows =
     [o \in DOMAIN @ |-> IF o \in OfferedIn(View(t), c) THEN ApplyRowState(t, o) ELSE @[o]]]

\* The walk over the categories that are open or were.
DeriveRows(categories, t) ==
  [c \in DOMAIN categories |->
     IF c \in Categories(View(t)) /\ (categories[c].open \/ categories[c].rows # <<>>)
     THEN Derived(categories[c], c, t) ELSE categories[c]]

ApplyProjectionToDom(categories, t) == ApplyBusyState(DeriveRows(categories, t), t)

Openness(categories) == [c \in DOMAIN categories |-> categories[c].open]

Without(cache, keys) == Restrict(cache, DOMAIN cache \ keys)

CategoryShells(t) == [c \in Categories(View(t)) |-> [open |-> FALSE, rows |-> <<>>]]

ApplyCategoryStates(categories, states) ==
  [c \in DOMAIN categories |->
     IF c \in DOMAIN states THEN [categories[c] EXCEPT !.open = states[c]] ELSE categories[c]]

\* The view that was shown goes to the cache and the one to show comes out
\* of it, or is built.
Mount(tab, t) ==
  LET shown  == tab.key # None /\ tab.categories # <<>>
      cache  == IF shown THEN Put(tab.cache, tab.key, tab.categories) ELSE tab.cache
      opened == IF shown THEN Put(tab.opened, tab.key, Openness(tab.categories)) ELSE tab.opened
      found  == IF t.scope \in DOMAIN cache THEN cache[t.scope] ELSE CategoryShells(t)
      states == IF t.scope \in DOMAIN opened THEN opened[t.scope] ELSE <<>>
  IN  [key        |-> t.scope,
       categories |-> ApplyProjectionToDom(ApplyCategoryStates(found, states), t),
       cache      |-> Without(cache, {t.scope}),
       opened     |-> opened]

EmptyTable(opened) == [key |-> None, categories |-> <<>>, cache |-> <<>>, opened |-> opened]

\* The views that inherit from the scope written are dropped.
InvalidateCacheForMutation(cache, t, id) ==
  IF id = None THEN <<>>
  ELSE IF id \in Range(t.controllers)
       THEN Without(cache, {k \in DOMAIN cache : k.kind = "device" /\ k.controller = id})
       ELSE cache

Repainted(tab, t) == [tab EXCEPT !.categories = ApplyProjectionToDom(@, t)]
RepaintedAlone(t) == Repainted([table EXCEPT !.cache = <<>>], t)
RowPainted(t, o) == [table EXCEPT !.categories[Catalog[o].category].rows[o] = ApplyRowState(t, o)]

-----------------------------------------------------------------------------
(* What several views do about one dispatch.                               *)

\* Nothing is shown before the model is there.
PanelShows(t) ==
  IF ~scene.panel \/ t.status = "loading" THEN UNCHANGED panelVars
  ELSE ShowDetails(IF View(t).device = None THEN Nothing ELSE View(t).device)

\* The error block is up for a status that is a new one, and only for that.
ErrorViewSees(t, moved) ==
  /\ retry' = IF ~(moved \/ stale) THEN retry
              ELSE IF t.status = "connection-error" THEN "waiting" ELSE "none"
  /\ stale' = FALSE

Scoped(scope) ==
  /\ s' = ScopeChanged(s, scope) /\ table' = Mount(table, s') /\ PanelShows(s')
  /\ UNCHANGED <<retry, stale>>

\* A device list comes in; if it is the one waited for, the view goes on to
\* its first row.
Outcome(f, devices, failed) ==
  \E t \in {DevicesLoaded(s, f, devices, failed)} :
    LET jumps == /\ t.applied = f.seq /\ ~failed
                 /\ devices # <<>> /\ f.controller # None
        u == IF jumps THEN ScopeChanged(t, AtDevice(f.controller, devices[1])) ELSE t
        mounted == Mount(table, t)
    IN  /\ s' = u
        /\ table' = IF jumps THEN Mount(mounted, u) ELSE mounted
        /\ ErrorViewSees(t, failed /\ Answers(s, f))
        /\ PanelShows(u)

-----------------------------------------------------------------------------
(* The boot of a page cycle.                                               *)

Lists(c) == {l \in (scene.lists[c] \cup {<<>>}) \X BOOLEAN : l[2] => l[1] = <<>>}

SyncResolves ==
  /\ boot.at = "sync" /\ boot' = [boot EXCEPT !.at = "controllers"]
  /\ UNCHANGED <<scene, s, table, revealed, retry, stale, fetches, write, left, panelVars>>

\* An await that is rejected or overdue, or a list of controllers in error.
FailConnection ==
  /\ boot.at \in {"sync", "controllers", "features"} /\ boot' = [boot EXCEPT !.at = "done"]
  /\ s' = [s EXCEPT !.status = "connection-error"] /\ ErrorViewSees(s', TRUE)
  /\ UNCHANGED <<scene, table, revealed, fetches, write, left, panelVars>>

NoControllers ==
  /\ boot.at = "controllers" /\ scene.mode = "controllers" /\ <<>> \in scene.sidebars
  /\ boot' = [boot EXCEPT !.at = "none"]
  /\ UNCHANGED <<scene, s, table, revealed, retry, stale, fetches, write, left, panelVars>>

\* The devices of the first controller are asked for before the model is
\* there.
ControllersResolve(controllers) ==
  /\ boot.at = "controllers" /\ (scene.mode = "controllers" => controllers # <<>>)
  /\ s' = IF scene.mode = "global" THEN s
          ELSE IF controllers = <<>> THEN DevicesRequested(s, None)
          ELSE DevicesRequested(ScopeChanged(s, AtController(controllers[1])), controllers[1])
  /\ boot' = [at |-> "features", seq |-> s'.seq, controllers |-> controllers]
  /\ UNCHANGED <<scene, table, revealed, retry, stale, fetches, write, left, panelVars>>

FeaturesResolve(conf) ==
  /\ boot.at = "features" /\ boot' = [boot EXCEPT !.at = "theme"]
  /\ s' = ModelLoaded(s, conf, boot.controllers)
  /\ table' = Mount(EmptyTable(table.opened), s')
  /\ ErrorViewSees(s', TRUE) /\ PanelShows(s')
  /\ UNCHANGED <<scene, revealed, fetches, write, left>>

ThemeSettles ==
  /\ boot.at = "theme"
  /\ boot' = [boot EXCEPT !.at = IF scene.mode = "global" THEN "done" ELSE "devices"]
  /\ revealed' = (revealed \/ scene.mode = "global")
  /\ UNCHANGED <<scene, s, table, retry, stale, fetches, write, left, panelVars>>

InitialController == IF boot.controllers = <<>> THEN None ELSE boot.controllers[1]

\* The list boot has asked for, or a failure or the deadline in its place.
DevicesResolve ==
  /\ boot.at = "devices" /\ boot' = [boot EXCEPT !.at = "done"]
  /\ \E l \in Lists(InitialController) :
       /\ Outcome([controller |-> InitialController, seq |-> boot.seq], l[1], l[2])
       /\ revealed' = (revealed \/ (s'.applied = boot.seq /\ ~l[2]))
  /\ UNCHANGED <<scene, fetches, write, left>>

\* show() once more, from the retry button or the refresh of the sidebar: it
\* begins with hide(), and what that puts out of view stays so until the boot
\* reveals it again.
Reenter ==
  /\ Spend("cycles")
  /\ s' = InitialState /\ table' = EmptyTable(table.opened)
  /\ boot' = [at |-> "sync", seq |-> 0, controllers |-> <<>>]
  /\ fetches' = {} /\ write' = None /\ retry' = "none" /\ stale' = FALSE
  /\ panel' = MountStatusPanel /\ revealed' = FALSE /\ UNCHANGED <<host, scene>>

RetryArms ==
  /\ retry = "waiting" /\ retry' = "armed"
  /\ UNCHANGED <<mountVars, s, table, stale, panelVars>>

Retry == retry = "armed" /\ Reenter

-----------------------------------------------------------------------------
(* The sidebar.                                                            *)

Ready == revealed /\ s.loaded

RefreshAction == Ready /\ scene.mode # "global" /\ Reenter

ClickGlobal ==
  /\ Ready /\ Spend("clicks") /\ Scoped(Global)
  /\ UNCHANGED <<scene, boot, revealed, fetches, write>>

ClickController(c) ==
  /\ Ready /\ Spend("clicks") /\ scene.mode = "controllers" /\ c \in Range(s.controllers)
  /\ \E t \in {ScopeChanged(s, AtController(c))} :
       /\ s' = DevicesRequested(t, c)
       /\ table' = [Mount(table, t) EXCEPT !.categories = ApplyBusyState(@, s')]
       /\ PanelShows(t)
  /\ fetches' = fetches \cup {s'.request}
  /\ UNCHANGED <<scene, boot, revealed, retry, stale, write>>

ClickDevice(d) ==
  /\ Ready /\ Spend("clicks") /\ d \in Range(s.devices) /\ Scoped(AtDevice(s.owner, d))
  /\ UNCHANGED <<scene, boot, revealed, fetches, write>>

\* An answer, an error or the deadline.
FetchSettles(f) ==
  /\ fetches' = fetches \ {f}
  /\ \E l \in Lists(f.controller) : Outcome(f, l[1], l[2])
  /\ UNCHANGED <<scene, boot, revealed, write, left>>

RefreshControllers(controllers) ==
  /\ Spend("refreshes") /\ scene.mode = "controllers" /\ controllers # <<>>
  /\ s' = [s EXCEPT !.controllers = controllers]
  /\ UNCHANGED <<scene, table, boot, revealed, retry, stale, fetches, write, panelVars>>

-----------------------------------------------------------------------------
(* Gestures on the table and the search bar.  The focus may leave an armed *)
(* row without disarming it, by way of the checkbox of the row.            *)

TableVars == <<scene, boot, revealed, retry, stale, fetches, write, panelVars>>

RowOf(o) == table.categories[Catalog[o].category].rows[o]

Reaches(o) ==
  /\ Ready /\ o \in Offered(View(s)) /\ Catalog[o].category \in DOMAIN table.categories
  /\ LET category == table.categories[Catalog[o].category]
     IN  category.open /\ o \in DOMAIN category.rows /\ ~category.rows[o].hidden

HandleFocusOut(o) ==
  /\ s.armed = o /\ Reaches(o)
  /\ s' = [s EXCEPT !.armed = None] /\ table' = RowPainted(s', o)
  /\ UNCHANGED <<TableVars, left>>

Edit(conf) ==
  /\ s' = Edited(s, conf)
  /\ table' = Repainted([table EXCEPT !.cache = InvalidateCacheForMutation(@, s, View(s).id)], s')

\* A click on a checkbox.  Arming and disarming paint the row clicked, and no
\* other.
Toggle(o) ==
  /\ Spend("edits") /\ Reaches(o) /\ ~RowOf(o).disabled
  /\ \/ /\ s.armed = o
        /\ s' = [s EXCEPT !.armed = None] /\ table' = RowPainted(s', o)
     \/ /\ s.armed # o /\ Arms(o, View(s), RowOf(o))
        /\ s' = [s EXCEPT !.armed = o] /\ table' = RowPainted(s', o)
     \/ /\ s.armed # o /\ ~Arms(o, View(s), RowOf(o))
        /\ Edit(TriStateTransition(s.conf, o, View(s), RowOf(o)))
  /\ UNCHANGED TableVars

\* Does a value that is entered, or taken out, ask for anything?
Commits(o, text) == text # "" \/ (Resolve(s.conf, o, View(s)).enabled /\ <<o, View(s).id>> \in DOMAIN s.conf)

\* A value that is entered stays in its field, which has the focus.
CommitValue(o, text) ==
  /\ Spend("edits") /\ Reaches(o) /\ Catalog[o].valued /\ ~RowOf(o).locked /\ text # RowOf(o).text
  /\ \E conf \in {ValueCommitTransition(s.conf, o, View(s), text)} :
     \E t \in {IF Commits(o, text) THEN Edited(s, conf) ELSE s},
        tab \in {IF Commits(o, text)
                 THEN Repainted([table EXCEPT !.cache = InvalidateCacheForMutation(@, s, View(s).id)],
                                Edited(s, conf))
                 ELSE RowPainted(s, o)} :
       /\ s' = t
       /\ table' = [tab EXCEPT !.categories[Catalog[o].category].rows[o].text = text]
  /\ UNCHANGED TableVars

Folded(category, c, open) ==
  IF open THEN EnsureRowsRendered([category EXCEPT !.open = TRUE], c, s)
  ELSE [category EXCEPT !.open = FALSE]

\* Categories are opened or closed; what is open is kept for the view.
SetCategoriesExpanded(cs, open) ==
  /\ Ready /\ Spend("folds")
  /\ \E folded \in {[c \in DOMAIN table.categories |->
                       IF c \in cs THEN Folded(table.categories[c], c, open)
                       ELSE table.categories[c]]} :
       table' = [table EXCEPT !.categories = ApplyBusyState(folded, s),
                              !.opened = Put(@, table.key, Openness(folded))]
  /\ UNCHANGED <<TableVars, s>>

Fold(c) == SetCategoriesExpanded({c}, ~table.categories[c].open)
ToggleAll(open) == SetCategoriesExpanded(DOMAIN table.categories, open)

ChangeFilter(filter) ==
  /\ Ready /\ filter # s.filter /\ Spend("filters")
  /\ s' = [s EXCEPT !.filter = filter] /\ table' = Repainted(table, s')
  /\ UNCHANGED TableVars

\* Reset to Defaults, Revert to Saved.
Replace(conf) ==
  /\ Ready /\ Spend("edits")
  /\ s' = Edited(s, conf) /\ table' = RepaintedAlone(s')
  /\ UNCHANGED TableVars

-----------------------------------------------------------------------------
(* What the page sees of PersistEffect.                                    *)

PersistStarts ==
  /\ s.loaded /\ write = None /\ s.conf # s.anchor /\ Spend("writes")
  /\ write' = s.conf /\ s' = [s EXCEPT !.status = "persisting"] /\ stale' = TRUE
  /\ UNCHANGED <<scene, table, boot, revealed, retry, fetches, panelVars>>

PersistSettles(failed) ==
  /\ write # None /\ write' = None /\ stale' = TRUE
  /\ IF failed
     THEN s' = [s EXCEPT !.armed = None, !.conf = s.anchor, !.status = "persist-error"]
          /\ table' = RepaintedAlone(s')
     ELSE s' = [s EXCEPT !.anchor = write, !.status = "ready"] /\ UNCHANGED table
  /\ UNCHANGED <<scene, boot, revealed, retry, fetches, left, panelVars>>

-----------------------------------------------------------------------------
Init ==
  /\ scene \in Scenes /\ left = scene.limits
  /\ s = InitialState /\ table = EmptyTable(<<>>)
  /\ boot = [at |-> "sync", seq |-> 0, controllers |-> <<>>]
  /\ revealed = FALSE /\ retry = "none" /\ stale = FALSE /\ fetches = {} /\ write = None
  /\ panel = MountStatusPanel /\ host = NewHelper(1)

Booting ==
  \/ SyncResolves \/ FailConnection \/ NoControllers \/ ThemeSettles \/ DevicesResolve
  \/ \E controllers \in scene.sidebars : ControllersResolve(controllers)
  \/ \E conf \in scene.loads : FeaturesResolve(conf)

Navigating ==
  \/ ClickGlobal \/ RefreshAction \/ Retry
  \/ \E c \in DOMAIN scene.lists : ClickController(c)
  \/ \E d \in Range(s.devices) : ClickDevice(d)
  \/ \E controllers \in scene.sidebars : RefreshControllers(controllers)

Editing ==
  \/ \E o \in Options : HandleFocusOut(o) \/ Toggle(o)
  \/ \E o \in Options, text \in scene.texts : CommitValue(o, text)
  \/ \E c \in DOMAIN table.categories : Fold(c)
  \/ \E open \in BOOLEAN : ToggleAll(open)
  \/ \E filter \in Filters : ChangeFilter(filter)
  \/ Replace(<<>>) \/ Replace(s.initial)

Next ==
  \/ Booting \/ RetryArms \/ Navigating \/ Editing
  \/ \E f \in fetches : FetchSettles(f)
  \/ PersistStarts \/ \E failed \in BOOLEAN : PersistSettles(failed)
  \/ scene.panel /\ PanelNext /\ UNCHANGED <<mountVars, s, table, retry, stale>>

Panels == Trip /\ UNCHANGED <<mountVars, s, table, retry, stale>>
Fetched == \E f \in fetches : FetchSettles(f)

\* Every await of boot and of a click has a deadline, and timers fire.
Spec ==
  /\ Init /\ [][Next]_vars
  /\ WF_vars(Booting) /\ WF_vars(Fetched) /\ WF_vars(RetryArms) /\ WF_vars(Panels)

-----------------------------------------------------------------------------
(* Properties.                                                             *)

TypeOK ==
  /\ s.scope.kind \in {"global", "controller", "device"} /\ s.filter \in Filters
  /\ s.status \in {"loading", "ready", "persisting", "persist-error", "connection-error"}
  /\ s.armed \in Options \cup {None} /\ retry \in {"none", "waiting", "armed"}
  /\ boot.at \in {"sync", "controllers", "features", "theme", "devices", "done", "none"}
  /\ s.applied \in 0..s.seq /\ boot.seq \in 0..s.seq

Painted(t, o) == IF IsTableBusy(t) THEN Inert(ApplyRowState(t, o)) ELSE ApplyRowState(t, o)

SameButText(row, other) == row = [other EXCEPT !.text = row.text]

\* A row that was armed when another one took over from it keeps the look of
\* an armed row until the next walk.  It is off: neither enabled here nor by
\* what is above, unless its device has gone from the list meanwhile.
LeftArmed(t, o, row) ==
  /\ t.armed # o /\ t.scope.kind = "device" /\ Catalog[o].valued
  /\ Painted(t, o).checked \/ Painted(t, o).readOnly => View(t).device = None
  /\ SameButText(row, RowState(t, o, TRUE))

\* The table is that of the view, its open categories have their rows, and
\* each row is what would be painted from the store, but for the field that
\* is typed in, or a row left armed.
RowsAreDerived ==
  table.key # None =>
    /\ table.key = s.scope
    /\ \A c \in DOMAIN table.categories \cap Categories(View(s)) :
         \A category \in {table.categories[c]} :
           /\ category.open => category.rows # <<>>
           /\ \A o \in DOMAIN category.rows \cap OfferedIn(View(s), c) :
                SameButText(category.rows[o], Painted(s, o)) \/ LeftArmed(s, o, category.rows[o])

\* No list but the last one asked for is what the page ends up with.
NewestListStands == s.request = None => s.applied = s.seq

\* The devices of the page, the rows of its table and the cells of its
\* status panel are those the state of the store stands for, whatever order
\* answers, pushes and gestures came in.
DeviceInv == TypeOK /\ NewestListStands /\ RowsAreDerived /\ PanelInv

\* What GesturesTakeEffect asks of a plugin: an option that is configured at
\* controllers and not at devices is offered, of all the devices in a list,
\* to the one that is the controller.  The scopes of an option let its row
\* onto every device, and leave it to the plugin's validOption which of them
\* has it; elsewhere the row could be clicked and its scope not be heard.
OffersKeepLevels ==
  \A page \in Scenes : \A c \in DOMAIN page.lists : \A l \in page.lists[c] :
    \A o \in Options, i \in DOMAIN l :
      /\ l[i] \in Catalog[o].devices
      /\ Declares(o, "controller") /\ ~Declares(o, "device")
      => /\ c # None /\ l[i] \in Controllers
         /\ \A j \in DOMAIN l : l[j] \in Controllers => i <= j

Took(before, after) ==
  IF before.readOnly THEN ~after.checked /\ ~after.readOnly
  ELSE IF before.checked THEN ~after.checked \/ after.readOnly
  ELSE after.checked /\ ~after.readOnly

\* A click on a checkbox is seen to do what it asked for: a mixed row is off
\* here, one that was on is off or shows what is above it, one that was off
\* is on.  A busy table takes none, and what is shown is the global view or
\* a device of the list.
GesturesTakeEffect ==
  [][\A o \in Options :
       Toggle(o) /\ (s.scope = Global \/ View(s).device # None) =>
         ~IsTableBusy(s) /\ Took(RowOf(o), RowOf(o)')]_vars

\* A page that boots or waits for a list comes to show it, offers a retry
\* that can be pressed, or says that there are no controllers.
PageSettles ==
  (boot.at \notin {"done", "none"} \/ s.request # None) ~>
    (Ready /\ s.request = None) \/ retry = "armed" \/ boot.at = "none"
=============================================================================
