----------------------------- MODULE OptionRows -----------------------------
(***************************************************************************)
(* What a row of the options table shows, and what a gesture on it asks    *)
(* for: the projection of selectors.mjs, the row writer and the two        *)
(* transitions of rendering.mjs.  A configuration is what FeatureOptions   *)
(* indexes: <<option, identifier>>, or <<option, None>> at global scope,   *)
(* to [enabled, value].                                                    *)
(***************************************************************************)
EXTENDS Integers, Sequences, Functions

CONSTANTS
  Catalog,      \* option -> [category, default, valued, text, scopes, parent, devices, found]
  Controllers,  \* the devices ui.isController accepts
  None          \* undefined, null

Options == DOMAIN Catalog

\* None is no option, and no text of a field.
ASSUME OptionRowsAssumption ==
  None \notin Options /\ None # "" /\ \A o \in Options : Catalog[o].text # None

\* An option that declares no level has them all.
Declares(o, level) == Catalog[o].scopes = {} \/ level \in Catalog[o].scopes

-----------------------------------------------------------------------------
(* The view a state of the store gives.                                    *)

NavigationId(s) == IF s.scope.kind = "global" THEN None ELSE s.scope.controller

\* The first row of the controller's own list that is a controller.
ScopingControllerId(s) ==
  LET own == {i \in DOMAIN s.devices : s.devices[i] \in Controllers}
  IN  IF s.owner # NavigationId(s) \/ own = {} THEN NavigationId(s)
      ELSE s.devices[CHOOSE i \in own : \A j \in own : i <= j]

View(s) ==
  [kind       |-> s.scope.kind,
   id         |-> s.scope.device,
   device     |-> IF s.scope.device \in Range(s.devices) THEN s.scope.device ELSE None,
   controller |-> IF NavigationId(s) = None THEN None ELSE ScopingControllerId(s)]

ControllerPage(v) == v.id # None /\ v.id = v.controller
ViewScope(v) == IF ControllerPage(v) THEN "controller" ELSE v.kind

Admits(o, kind) == Declares(o, kind) \/ (kind = "device" /\ Declares(o, "controller"))
Offered(v) == {o \in Options : Admits(o, v.kind) /\ v.device \in Catalog[o].devices}
Categories(v) == {Catalog[o].category : o \in Offered(v)}
OfferedIn(v, c) == {o \in Offered(v) : Catalog[o].category = c}

-----------------------------------------------------------------------------
(* Rows.                                                                   *)

\* Is the option declared at a level, and configured there, under id?
ConfiguredAt(conf, o, level, id) ==
  /\ level = "global" \/ id # None
  /\ Declares(o, level)
  /\ <<o, id>> \in DOMAIN conf

\* The most specific of these levels decides.
Resolve(conf, o, v) ==
  LET Says(level, id) == [scope   |-> level,
                          enabled |-> conf[<<o, id>>].enabled,
                          value   |-> conf[<<o, id>>].value]
  IN  IF ConfiguredAt(conf, o, "device", v.id) THEN Says("device", v.id)
      ELSE IF ConfiguredAt(conf, o, "controller", v.controller) THEN Says("controller", v.controller)
      ELSE IF ConfiguredAt(conf, o, "global", None) THEN Says("global", None)
      ELSE [scope |-> "none", enabled |-> Catalog[o].default, value |-> None]

DependencyMet(conf, o, v) ==
  Catalog[o].parent = None \/ Resolve(conf, Catalog[o].parent, v).enabled

\* A filter shows what depends on an option that is off, too.
Visible(conf, o, v, filter) ==
  /\ filter.mode = "modified" => Resolve(conf, o, v).scope # "none"
  /\ filter.query => Catalog[o].found
  /\ DependencyMet(conf, o, v) \/ filter.mode = "modified" \/ filter.query

RequiresParent(conf, o, v, filter) ==
  Visible(conf, o, v, filter) /\ ~DependencyMet(conf, o, v)

\* Does the row show what a higher scope says?
Inheriting(conf, o, v) ==
  LET at == Resolve(conf, o, v).scope
  IN  CASE ViewScope(v) = "controller" -> at = "global"
        [] ViewScope(v) = "device"     -> at \in {"global", "controller"}
        [] OTHER                       -> FALSE

RowState(s, o, armed) ==
  LET v == View(s)
      r == Resolve(s.conf, o, v)
      badge == RequiresParent(s.conf, o, v, s.filter)
      inheriting == Inheriting(s.conf, o, v)
  IN  [hidden   |-> ~Visible(s.conf, o, v, s.filter),
       checked  |-> r.enabled \/ armed,
       readOnly |-> inheriting,
       disabled |-> badge,
       locked   |-> inheriting \/ badge \/ ~(r.enabled \/ armed),
       text     |-> IF armed THEN ""
                    ELSE IF r.enabled /\ r.value # None THEN r.value ELSE Catalog[o].text]

ApplyRowState(s, o) == RowState(s, o, s.armed = o)

-----------------------------------------------------------------------------
(* Gestures.                                                               *)

HasUpstream(conf, o, v) ==
  /\ v.id # None
  /\ \/ v.controller # v.id /\ ConfiguredAt(conf, o, "controller", v.controller)
     \/ ConfiguredAt(conf, o, "global", None)

Cleared(conf, o, id) == Restrict(conf, DOMAIN conf \ {<<o, id>>})

\* An enable of a value option at a scope of its own needs a value.
Configured(conf, o, id, enabled, value) ==
  IF enabled /\ Catalog[o].valued /\ value = None /\ id # None THEN Cleared(conf, o, id)
  ELSE [k \in DOMAIN conf \cup {<<o, id>>} |->
          IF k = <<o, id>> THEN [enabled |-> enabled, value |-> value] ELSE conf[k]]

Deviates(o, enabled, text) ==
  \/ enabled # Catalog[o].default
  \/ enabled /\ Catalog[o].valued /\ text # Catalog[o].text

\* A bug: what is configured above the scope is not looked at.
NeededByItself(conf, o, v, enabled, text) == Deviates(o, enabled, text)

\* An entry is kept only where it says something.
Needed(conf, o, v, enabled, text) == Deviates(o, enabled, text) \/ HasUpstream(conf, o, v)

Write(conf, o, v, enabled, text) ==
  IF Needed(conf, o, v, enabled, text)
  THEN Configured(conf, o, v.id, enabled,
                  IF Catalog[o].valued /\ enabled /\ text # "" THEN text ELSE None)
  ELSE Cleared(conf, o, v.id)

\* Without a value there is nothing to write at a scope of its own.
Arms(o, v, row) ==
  ~row.readOnly /\ ~row.checked /\ v.id # None /\ Catalog[o].valued /\ row.text = ""

\* A click on the checkbox of a row that is not armed.
TriStateTransition(conf, o, v, row) ==
  IF row.readOnly THEN Write(conf, o, v, FALSE, row.text)
  ELSE IF ~row.checked THEN Write(conf, o, v, TRUE, row.text)
  ELSE IF HasUpstream(conf, o, v) THEN Cleared(conf, o, v.id)
  ELSE Write(conf, o, v, FALSE, row.text)

\* A value that is entered: none clears what the scope itself enables.
ValueCommitTransition(conf, o, v, text) ==
  IF text # "" THEN Write(conf, o, v, TRUE, text)
  ELSE IF Resolve(conf, o, v).enabled /\ <<o, v.id>> \in DOMAIN conf THEN Cleared(conf, o, v.id)
  ELSE conf
=============================================================================
