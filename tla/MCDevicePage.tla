---------------------------- MODULE MCDevicePage ----------------------------
(***************************************************************************)
(* Pages for TLC.  The catalog has a flag that is on, a value option that  *)
(* depends on it, a value option for controllers alone, in a category of   *)
(* its own, and one that is not for the global scope.                      *)
(***************************************************************************)
EXTENDS DevicePage, TLC

CONSTANTS c1, c2, h2, d1, d2, row1

AnyDevice == {None, c1, h2, d1, d2}

Entry(category, default, valued, text, scopes, parent, devices, found) ==
  [category |-> category, default |-> default, valued |-> valued, text |-> text,
   scopes |-> scopes, parent |-> parent, devices |-> devices, found |-> found]

McCatalog ==
  [flag  |-> Entry("one", TRUE, FALSE, "", {}, None, AnyDevice, TRUE),
   value |-> Entry("one", FALSE, TRUE, "", {}, "flag", AnyDevice, FALSE),
   own   |-> Entry("two", FALSE, TRUE, "", {"controller"}, None, {None, c1, h2}, TRUE),
   level |-> Entry("two", TRUE, TRUE, "t", {"controller", "device"}, None, AnyDevice, FALSE)]

On(text) == [enabled |-> TRUE, value |-> text]
Off == [enabled |-> FALSE, value |-> None]

Limits(cycles, clicks, edits, folds, filters, writes, refreshes) ==
  [cycles |-> cycles, clicks |-> clicks, edits |-> edits, folds |-> folds,
   filters |-> filters, writes |-> writes, refreshes |-> refreshes]

Page(mode, sidebars, lists, loads, texts, limits) ==
  [mode |-> mode, panel |-> FALSE, sidebars |-> sidebars, lists |-> lists, loads |-> loads,
   texts |-> texts, limits |-> limits]

First == c1 :> {<<c1, d1>>}
Both == First @@ c2 :> {<<h2, d2>>}
Alone == None :> {<<d1, d2>>}

Above == (<<"flag", None>> :> Off) @@ (<<"value", c1>> :> On("v")) @@ (<<"level", c1>> :> Off)

\* One question a page: gestures on the levels of a configuration; rows that
\* are armed one after the other; a view whose host writes fail; lists that
\* come in any order; the two modes without controllers; the status panel.
McScenes ==
  {Page("controllers", {<<c1>>}, First, {Above}, {"", "v"}, Limits(0, 2, 2, 1, 0, 0, 0)),
   Page("controllers", {<<c1>>}, First, {<<>>}, {"w"}, Limits(0, 1, 4, 1, 1, 0, 0)),
   Page("controllers", {<<>>, <<c1>>}, First, {Above}, {"w"}, Limits(0, 1, 2, 1, 1, 1, 0)),
   Page("controllers", {<<c1>>, <<c1, c2>>}, Both, {<<>>}, {}, Limits(1, 3, 0, 0, 0, 0, 1)),
   Page("devices", {<<>>}, Alone, {<<>>}, {}, Limits(1, 2, 1, 1, 0, 0, 0)),
   Page("global", {<<>>}, Alone, {<<>>}, {"v"}, Limits(1, 0, 1, 1, 1, 1, 0)),
   [Page("controllers", {<<c1>>}, c1 :> {<<d1>>}, {<<>>}, {}, Limits(0, 1, 0, 0, 0, 0, 0)) EXCEPT !.panel = TRUE]}

ASSUME McOffers == OffersKeepLevels

McLatch == row1 :> "on"
=============================================================================
