-------------------------- MODULE DevicePageProofs --------------------------
(***************************************************************************)
(* For any catalog of options, any controllers and devices, and answers,   *)
(* pushes and gestures in any order: the options table shows the state of  *)
(* the store, the list that stands is the last one asked for, the status   *)
(* panel shows what the helper that is there has told it, and a click on   *)
(* a row does what it asks for.                                            *)
(*                                                                         *)
(* A row that was armed until another one took over is not painted again   *)
(* before the next walk.  What it shows meanwhile is what an armed row     *)
(* shows, and it is off: hence the invariant of the rows needs the one of  *)
(* the armed row, and the two are proved together.                         *)
(*                                                                         *)
(* The invariant says of every table a step can bring back what DeviceInv  *)
(* says of the one in view: rows in the cache and in closed categories     *)
(* are rows, though not yet those of the store, and a step of the walk     *)
(* repaints them before they are seen.                                     *)
(***************************************************************************)
EXTENDS DevicePage, TLAPS

-----------------------------------------------------------------------------
(* Rows. *)

RowFields == {"hidden", "checked", "readOnly", "disabled", "locked", "text"}

\* A row is a record of these fields.
IsRow(row) == row = [i \in RowFields |-> row[i]]

\* Two rows alike but for their text.
Alike(row, other) ==
  /\ row.hidden = other.hidden /\ row.checked = other.checked /\ row.readOnly = other.readOnly
  /\ row.disabled = other.disabled /\ row.locked = other.locked

LEMMA RowText ==
  ASSUME NEW row, IsRow(row), NEW x
  PROVE  /\ IsRow([row EXCEPT !.text = x]) /\ Alike([row EXCEPT !.text = x], row)
         /\ [row EXCEPT !.text = x].text = x
<1> DEFINE new == [row EXCEPT !.text = x]
<1>1. /\ DOMAIN row = RowFields
      /\ new = [i \in RowFields |-> IF i = "text" THEN x ELSE row[i]]
  BY DEF IsRow
<1>2. new = [i \in RowFields |-> new[i]] /\ Alike(new, row) /\ new.text = x
  BY <1>1 DEF Alike, RowFields
<1> QED
  BY <1>2 DEF IsRow

LEMMA AlikeRows ==
  ASSUME NEW row, NEW other, IsRow(row), IsRow(other)
  PROVE  Alike(row, other) <=> SameButText(row, other)
<1> DEFINE new == [other EXCEPT !.text = row.text]
<1>1. IsRow(new) /\ Alike(new, other) /\ new.text = row.text
  BY RowText
<1> HIDE DEF new
<1>2. ASSUME Alike(row, other) PROVE row = new
  <2>1. \A i \in RowFields : row[i] = new[i]
    BY <1>1, <1>2 DEF Alike, RowFields
  <2> QED
    BY <1>1, <2>1 DEF IsRow
<1> QED
  BY <1>1, <1>2 DEF new, SameButText

LEMMA InertDoes ==
  ASSUME NEW row, IsRow(row)
  PROVE  /\ IsRow(Inert(row)) /\ Inert(row).hidden = row.hidden
         /\ Inert(row).checked = row.checked /\ Inert(row).readOnly = row.readOnly
         /\ Inert(row).text = row.text
         /\ Inert(row).disabled = TRUE /\ Inert(row).locked = TRUE
<1> DEFINE half == [row EXCEPT !.disabled = TRUE]
           new  == [half EXCEPT !.locked = TRUE]
<1>1. /\ DOMAIN row = RowFields
      /\ half = [i \in RowFields |-> IF i = "disabled" THEN TRUE ELSE row[i]]
  BY DEF IsRow
<1>2. DOMAIN half = RowFields /\ new = [i \in RowFields |-> IF i = "locked" THEN TRUE ELSE half[i]]
  BY <1>1
<1>3. new = [i \in RowFields |-> IF i = "locked" THEN TRUE ELSE IF i = "disabled" THEN TRUE ELSE row[i]]
  BY <1>1, <1>2
<1>4. Inert(row) = new
  BY DEF Inert
<1> HIDE DEF new, half
<1> QED
  BY <1>3, <1>4 DEF IsRow, RowFields

LEMMA RecordIsRow ==
  ASSUME NEW h, NEW c, NEW r, NEW d, NEW l, NEW x
  PROVE  IsRow([hidden |-> h, checked |-> c, readOnly |-> r, disabled |-> d, locked |-> l, text |-> x])
BY DEF IsRow, RowFields

LEMMA RowIsRow ==
  ASSUME NEW t, NEW o
  PROVE  /\ \A armed : IsRow(RowState(t, o, armed)) /\ (o \in Options => RowState(t, o, armed).text # None)
         /\ IsRow(ApplyRowState(t, o)) /\ (o \in Options => ApplyRowState(t, o).text # None)
<1>1. ASSUME NEW armed
      PROVE  IsRow(RowState(t, o, armed)) /\ (o \in Options => RowState(t, o, armed).text # None)
  <2>1. IsRow(RowState(t, o, armed))
    BY RecordIsRow DEF RowState
  <2> DEFINE res == Resolve(t.conf, o, View(t))
  <2>2. RowState(t, o, armed).text = IF armed THEN ""
                                     ELSE IF res.enabled /\ res.value # None THEN res.value
                                     ELSE Catalog[o].text
    BY DEF RowState
  <2> HIDE DEF res
  <2> QED
    BY <2>1, <2>2, OptionRowsAssumption
<1> QED
  BY <1>1 DEF ApplyRowState

\* A row that was armed is off, and its own device's.
LeftIn(t, o) ==
  /\ t.armed # o /\ t.scope.kind = "device" /\ Catalog[o].valued
  /\ ApplyRowState(t, o).checked \/ ApplyRowState(t, o).readOnly => View(t).device = None

\* A row shows the store when it is what would be painted, or was left armed,
\* but for its text, which is some text.
RowShows(row, t, o) ==
  /\ IsRow(row) /\ (o \in Options => row.text # None)
  /\ Alike(row, Painted(t, o)) \/ (LeftIn(t, o) /\ Alike(row, RowState(t, o, TRUE)))

\* What is typed into a row does not change what the row shows.
LEMMA TextLeavesShown ==
  ASSUME NEW row, NEW t, NEW o, RowShows(row, t, o), NEW x, x # None
  PROVE  RowShows([row EXCEPT !.text = x], t, o)
<1> DEFINE new == [row EXCEPT !.text = x]
<1>1. IsRow(row)
  BY DEF RowShows
<1>2. IsRow(new) /\ Alike(new, row) /\ new.text = x
  BY <1>1, RowText
<1> HIDE DEF new
<1>3. ASSUME NEW other, Alike(row, other) PROVE Alike(new, other)
  BY <1>2, <1>3, Zenon DEF Alike
<1>4. Alike(new, Painted(t, o)) \/ (LeftIn(t, o) /\ Alike(new, RowState(t, o, TRUE)))
  BY <1>3, Zenon DEF RowShows
<1>5. RowShows(new, t, o)
  BY <1>2, <1>4 DEF RowShows
<1> QED
  BY <1>5 DEF new

LEMMA BusyKind ==
  ASSUME NEW t, IsTableBusy(t)
  PROVE  t.scope.kind = "controller"
BY DEF IsTableBusy

LEMMA ShownIs ==
  ASSUME NEW row, NEW t, NEW o, RowShows(row, t, o)
  PROVE  SameButText(row, Painted(t, o)) \/ LeftArmed(t, o, row)
<1>1. IsRow(Painted(t, o)) /\ IsRow(RowState(t, o, TRUE))
  BY RowIsRow, InertDoes DEF Painted
<1>2. IsRow(row)
  BY DEF RowShows
<1>3. CASE Alike(row, Painted(t, o))
  BY <1>1, <1>2, <1>3, AlikeRows
<1>4. CASE LeftIn(t, o) /\ Alike(row, RowState(t, o, TRUE))
  <2>1. SameButText(row, RowState(t, o, TRUE))
    BY <1>1, <1>2, <1>4, AlikeRows
  <2>2. Painted(t, o) = ApplyRowState(t, o)
    BY <1>4, BusyKind DEF LeftIn, Painted
  <2> QED
    BY <1>4, <2>1, <2>2 DEF LeftIn, LeftArmed
<1> QED
  BY <1>3, <1>4 DEF RowShows

LEMMA RowPaints ==
  ASSUME NEW t, NEW o
  PROVE  /\ IsRow(Painted(t, o)) /\ RowShows(Painted(t, o), t, o)
<1>1. IsRow(Painted(t, o)) /\ (o \in Options => Painted(t, o).text # None)
  BY RowIsRow, InertDoes DEF Painted
<1> QED
  BY <1>1 DEF RowShows, Alike

-----------------------------------------------------------------------------
(* Categories. *)

\* A category with or without rows.
IsCategory(cat) ==
  DOMAIN cat = {"open", "rows"} /\ cat.rows = [o \in DOMAIN cat.rows |-> cat.rows[o]]

AreCategories(cs) == \A c \in DOMAIN cs : IsCategory(cs[c])

RowsShow(rows, c, t) == \A o \in DOMAIN rows \cap OfferedIn(View(t), c) : RowShows(rows[o], t, o)

CategoryShows(cat, c, t) == (cat.open => cat.rows # <<>>) /\ RowsShow(cat.rows, c, t)

\* The categories of the view show the store t.
CategoriesShow(cs, t) == \A c \in DOMAIN cs \cap Categories(View(t)) : CategoryShows(cs[c], c, t)

LEMMA SomeRows ==
  ASSUME NEW rows, rows = [o \in DOMAIN rows |-> rows[o]]
  PROVE  rows # <<>> <=> DOMAIN rows # {}
<1>1. DOMAIN rows = {} => rows = <<>>
  OBVIOUS
<1>2. DOMAIN << >> = {}
  OBVIOUS
<1> QED
  BY <1>1, <1>2

LEMMA SomethingOffered ==
  ASSUME NEW v, NEW c \in Categories(v)
  PROVE  OfferedIn(v, c) # {}
BY DEF Categories, OfferedIn

LEMMA WithRows ==
  ASSUME NEW cat, IsCategory(cat), NEW rows, rows = [o \in DOMAIN rows |-> rows[o]]
  PROVE  LET new == [cat EXCEPT !.rows = rows]
         IN  IsCategory(new) /\ new.open = cat.open /\ new.rows = rows
BY DEF IsCategory

LEMMA WithOpen ==
  ASSUME NEW cat, IsCategory(cat), NEW open
  PROVE  LET new == [cat EXCEPT !.open = open]
         IN  IsCategory(new) /\ new.open = open /\ new.rows = cat.rows
BY DEF IsCategory

\* Are the rows of a category in view those of the store, whether busy or not?
RowsDerived(rows, c, t) ==
  \A o \in DOMAIN rows \cap OfferedIn(View(t), c) : rows[o] = ApplyRowState(t, o)

LEMMA EnsureDoes ==
  ASSUME NEW cat, IsCategory(cat), NEW c, NEW t
  PROVE  /\ IsCategory(EnsureRowsRendered(cat, c, t))
         /\ EnsureRowsRendered(cat, c, t).open = cat.open
         /\ c \in Categories(View(t)) => EnsureRowsRendered(cat, c, t).rows # <<>>
         /\ cat.rows # <<>> => EnsureRowsRendered(cat, c, t) = cat
         /\ cat.rows = <<>> => RowsDerived(EnsureRowsRendered(cat, c, t).rows, c, t)
<1> DEFINE new == [o \in OfferedIn(View(t), c) |-> ApplyRowState(t, o)]
<1>1. DOMAIN new = OfferedIn(View(t), c) /\ new = [o \in DOMAIN new |-> new[o]]
  OBVIOUS
<1>2. c \in Categories(View(t)) => new # <<>>
  BY <1>1, SomethingOffered, SomeRows
<1>3. cat.rows = <<>> => EnsureRowsRendered(cat, c, t) = [cat EXCEPT !.rows = new]
  BY DEF EnsureRowsRendered
<1>4. cat.rows # <<>> => EnsureRowsRendered(cat, c, t) = cat
  BY DEF EnsureRowsRendered
<1>5. IsCategory([cat EXCEPT !.rows = new]) /\ [cat EXCEPT !.rows = new].open = cat.open
        /\ [cat EXCEPT !.rows = new].rows = new
  BY <1>1, WithRows
<1> HIDE DEF new
<1>a. RowsDerived(new, c, t)
  BY DEF RowsDerived, new
<1>6. CASE cat.rows = <<>>
  BY <1>2, <1>3, <1>5, <1>6, <1>a
<1>7. CASE cat.rows # <<>>
  BY <1>4, <1>7
<1> QED
  BY <1>6, <1>7

LEMMA DerivedDoes ==
  ASSUME NEW cat, IsCategory(cat), NEW c, NEW t, c \in Categories(View(t))
  PROVE  /\ IsCategory(Derived(cat, c, t)) /\ Derived(cat, c, t).rows # <<>>
         /\ \A o \in DOMAIN Derived(cat, c, t).rows \cap OfferedIn(View(t), c) :
              Derived(cat, c, t).rows[o] = ApplyRowState(t, o)
<1> DEFINE f == EnsureRowsRendered(cat, c, t)
           new == [o \in DOMAIN f.rows |->
                     IF o \in OfferedIn(View(t), c) THEN ApplyRowState(t, o) ELSE f.rows[o]]
<1>1. IsCategory(f) /\ f.rows # <<>>
  BY EnsureDoes
<1>2. Derived(cat, c, t) = [f EXCEPT !.rows = new]
  BY DEF Derived
<1> HIDE DEF f
<1>3. DOMAIN new = DOMAIN f.rows /\ new = [o \in DOMAIN new |-> new[o]]
  OBVIOUS
<1>4. new # <<>>
  BY <1>1, <1>3, SomeRows DEF IsCategory
<1>5. \A o \in DOMAIN new \cap OfferedIn(View(t), c) : new[o] = ApplyRowState(t, o)
  OBVIOUS
<1> HIDE DEF new
<1>6. IsCategory(Derived(cat, c, t)) /\ Derived(cat, c, t).rows = new
  BY <1>1, <1>2, <1>3, WithRows
<1> QED
  BY <1>4, <1>5, <1>6

LEMMA DeriveRowsDoes ==
  ASSUME NEW cs, AreCategories(cs), NEW t
  PROVE  /\ DOMAIN DeriveRows(cs, t) = DOMAIN cs
         /\ AreCategories(DeriveRows(cs, t))
         /\ \A c \in DOMAIN cs \cap Categories(View(t)) :
              /\ DeriveRows(cs, t)[c].open => DeriveRows(cs, t)[c].rows # <<>>
              /\ RowsDerived(DeriveRows(cs, t)[c].rows, c, t)
<1>1. DOMAIN DeriveRows(cs, t) = DOMAIN cs
  BY DEF DeriveRows
<1>2. ASSUME NEW c \in DOMAIN cs
      PROVE  /\ IsCategory(DeriveRows(cs, t)[c])
             /\ c \in Categories(View(t)) =>
                  /\ DeriveRows(cs, t)[c].open => DeriveRows(cs, t)[c].rows # <<>>
                  /\ RowsDerived(DeriveRows(cs, t)[c].rows, c, t)
  <2>1. CASE c \in Categories(View(t)) /\ (cs[c].open \/ cs[c].rows # <<>>)
    <3>1. DeriveRows(cs, t)[c] = Derived(cs[c], c, t)
      BY <2>1 DEF DeriveRows
    <3> QED
      BY <2>1, <3>1, DerivedDoes DEF AreCategories, RowsDerived
  <2>2. CASE ~(c \in Categories(View(t)) /\ (cs[c].open \/ cs[c].rows # <<>>))
    <3>1. DeriveRows(cs, t)[c] = cs[c]
      BY <2>2 DEF DeriveRows
    <3>2. c \in Categories(View(t)) => ~cs[c].open /\ DOMAIN cs[c].rows = {}
      BY <2>2
    <3> QED
      BY <3>1, <3>2 DEF AreCategories, RowsDerived
  <2> QED
    BY <2>1, <2>2
<1> QED
  BY <1>1, <1>2 DEF AreCategories

LEMMA BusyDoes ==
  ASSUME NEW cs, AreCategories(cs), NEW t
  PROVE  /\ DOMAIN ApplyBusyState(cs, t) = DOMAIN cs
         /\ AreCategories(ApplyBusyState(cs, t))
         /\ ~IsTableBusy(t) => ApplyBusyState(cs, t) = cs
         /\ IsTableBusy(t) => \A c \in DOMAIN cs :
              /\ ApplyBusyState(cs, t)[c].open = cs[c].open
              /\ ApplyBusyState(cs, t)[c].rows = [o \in DOMAIN cs[c].rows |-> Inert(cs[c].rows[o])]
<1> DEFINE inert(c) == [o \in DOMAIN cs[c].rows |-> Inert(cs[c].rows[o])]
<1>1. CASE ~IsTableBusy(t)
  BY <1>1 DEF ApplyBusyState
<1>2. CASE IsTableBusy(t)
  <2>1. ApplyBusyState(cs, t) = [c \in DOMAIN cs |-> [cs[c] EXCEPT !.rows = inert(c)]]
    <3>1. ApplyBusyState(cs, t) = [c \in DOMAIN cs |->
              [cs[c] EXCEPT !.rows = [o \in DOMAIN cs[c].rows |-> Inert(cs[c].rows[o])]]]
      BY <1>2 DEF ApplyBusyState
    <3> QED
      BY <3>1
  <2>2. ASSUME NEW c \in DOMAIN cs
        PROVE  /\ IsCategory(ApplyBusyState(cs, t)[c])
               /\ ApplyBusyState(cs, t)[c].open = cs[c].open
               /\ ApplyBusyState(cs, t)[c].rows = inert(c)
    <3>1. ApplyBusyState(cs, t)[c] = [cs[c] EXCEPT !.rows = inert(c)]
      BY <2>1
    <3>2. inert(c) = [o \in DOMAIN inert(c) |-> inert(c)[o]]
      OBVIOUS
    <3> HIDE DEF inert
    <3> QED
      BY <3>1, <3>2, WithRows DEF AreCategories
  <2> QED
    BY <1>2, <2>1, <2>2 DEF AreCategories
<1> QED
  BY <1>1, <1>2

-----------------------------------------------------------------------------
(* Painting. *)

\* A row made inert need only have been right in what a busy table leaves.
Loosely(row, t, o) ==
  /\ IsRow(row)
  /\ row.hidden = ApplyRowState(t, o).hidden /\ row.checked = ApplyRowState(t, o).checked
  /\ row.readOnly = ApplyRowState(t, o).readOnly /\ (o \in Options => row.text # None)

LEMMA ShowsLoosely ==
  ASSUME NEW t, NEW o
  PROVE  /\ Loosely(ApplyRowState(t, o), t, o)
         /\ t.scope.kind # "device" => \A row : RowShows(row, t, o) => Loosely(row, t, o)
         /\ ~IsTableBusy(t) => RowShows(ApplyRowState(t, o), t, o)
<1>1. IsRow(ApplyRowState(t, o)) /\ (o \in Options => ApplyRowState(t, o).text # None)
  BY RowIsRow
<1>2. Painted(t, o) \in {ApplyRowState(t, o), Inert(ApplyRowState(t, o))}
  BY DEF Painted
<1>3. ASSUME t.scope.kind # "device", NEW row, RowShows(row, t, o) PROVE Loosely(row, t, o)
  BY <1>1, <1>2, <1>3, InertDoes DEF RowShows, LeftIn, Alike, Loosely
<1>4. ~IsTableBusy(t) => RowShows(ApplyRowState(t, o), t, o)
  BY <1>1 DEF Painted, RowShows, Alike
<1> QED
  BY <1>1, <1>3, <1>4 DEF Loosely

LEMMA InertShows ==
  ASSUME NEW t, NEW u, NEW o, ApplyRowState(t, o) = ApplyRowState(u, o), IsTableBusy(u),
         NEW row, Loosely(row, t, o)
  PROVE  RowShows(Inert(row), u, o)
<1> DEFINE full == ApplyRowState(t, o)
<1>1. Painted(u, o) = Inert(full) /\ IsRow(full)
  BY RowIsRow DEF Painted
<1>2. /\ IsRow(row) /\ (o \in Options => row.text # None)
      /\ row.hidden = full.hidden /\ row.checked = full.checked /\ row.readOnly = full.readOnly
  BY Zenon DEF Loosely
<1> HIDE DEF full
<1>3. IsRow(Inert(row)) /\ Inert(row).text = row.text
  BY <1>2, InertDoes
<1>4. Inert(row).hidden = Inert(full).hidden
  BY <1>1, <1>2, InertDoes, Zenon
<1>5. Inert(row).checked = Inert(full).checked /\ Inert(row).readOnly = Inert(full).readOnly
  BY <1>1, <1>2, InertDoes, Zenon
<1>6. Inert(row).disabled = Inert(full).disabled /\ Inert(row).locked = Inert(full).locked
  BY <1>1, <1>2, InertDoes, Zenon
<1>7. Alike(Inert(row), Painted(u, o))
  BY <1>1, <1>4, <1>5, <1>6, Zenon DEF Alike
<1> QED
  BY <1>2, <1>3, <1>7 DEF RowShows

LEMMA BusyShows ==
  ASSUME NEW cs, AreCategories(cs), NEW t, NEW u, View(t) = View(u),
         \A o \in Offered(View(t)) : ApplyRowState(t, o) = ApplyRowState(u, o),
         \A c \in DOMAIN cs \cap Categories(View(t)) :
           /\ cs[c].open => cs[c].rows # <<>>
           /\ \A o \in DOMAIN cs[c].rows \cap OfferedIn(View(t), c) : Loosely(cs[c].rows[o], t, o),
         IsTableBusy(u)
  PROVE  CategoriesShow(ApplyBusyState(cs, u), u)
<1> SUFFICES ASSUME NEW c \in DOMAIN cs, c \in Categories(View(t))
             PROVE  CategoryShows(ApplyBusyState(cs, u)[c], c, u)
  BY BusyDoes DEF CategoriesShow
<1> DEFINE new == [o \in DOMAIN cs[c].rows |-> Inert(cs[c].rows[o])]
<1>1. ApplyBusyState(cs, u)[c].open = cs[c].open /\ ApplyBusyState(cs, u)[c].rows = new
  BY BusyDoes
<1>2. DOMAIN new = DOMAIN cs[c].rows /\ \A o \in DOMAIN new : new[o] = Inert(cs[c].rows[o])
  OBVIOUS
<1>3. IsCategory(cs[c]) /\ new = [o \in DOMAIN new |-> new[o]]
  BY <1>2 DEF AreCategories
<1> HIDE DEF new
<1>4. cs[c].rows # <<>> <=> new # <<>>
  BY <1>2, <1>3, SomeRows DEF IsCategory
<1>5. \A o \in DOMAIN new \cap OfferedIn(View(u), c) : RowShows(new[o], u, o)
  <2> TAKE o \in DOMAIN new \cap OfferedIn(View(u), c)
  <2>1. Loosely(cs[c].rows[o], t, o) /\ ApplyRowState(t, o) = ApplyRowState(u, o)
    BY <1>2 DEF OfferedIn
  <2> QED
    BY <1>2, <2>1, InertShows
<1> QED
  BY <1>1, <1>4, <1>5 DEF CategoryShows, RowsShow

\* What the effects paint is what is to be seen.
LEMMA ProjectionDoes ==
  ASSUME NEW cs, AreCategories(cs), NEW t
  PROVE  /\ AreCategories(ApplyProjectionToDom(cs, t))
         /\ CategoriesShow(ApplyProjectionToDom(cs, t), t)
         /\ ~IsTableBusy(t) => \A c \in DOMAIN cs \cap Categories(View(t)) :
              RowsDerived(ApplyProjectionToDom(cs, t)[c].rows, c, t)
<1> DEFINE ds == DeriveRows(cs, t)
<1>1. /\ AreCategories(ds) /\ DOMAIN ds = DOMAIN cs
      /\ \A c \in DOMAIN ds \cap Categories(View(t)) :
           /\ ds[c].open => ds[c].rows # <<>>
           /\ RowsDerived(ds[c].rows, c, t)
  BY DeriveRowsDoes
<1>2. ApplyProjectionToDom(cs, t) = ApplyBusyState(ds, t)
  BY DEF ApplyProjectionToDom
<1> HIDE DEF ds
<1>3. AreCategories(ApplyBusyState(ds, t))
  BY <1>1, BusyDoes
<1>4. CASE IsTableBusy(t)
  <2>1. \A c \in DOMAIN ds \cap Categories(View(t)) :
          \A o \in DOMAIN ds[c].rows \cap OfferedIn(View(t), c) : Loosely(ds[c].rows[o], t, o)
    BY <1>1, ShowsLoosely DEF RowsDerived
  <2>2. CategoriesShow(ApplyBusyState(ds, t), t)
    BY <1>1, <1>4, <2>1, BusyShows
  <2> QED
    BY <1>2, <1>3, <1>4, <2>2
<1>5. CASE ~IsTableBusy(t)
  <2>1. ApplyBusyState(ds, t) = ds
    BY <1>1, <1>5, BusyDoes
  <2>2. ASSUME NEW c \in DOMAIN ds \cap Categories(View(t)) PROVE RowsShow(ds[c].rows, c, t)
    BY <1>1, <1>5, ShowsLoosely DEF RowsDerived, RowsShow
  <2> QED
    BY <1>1, <1>2, <1>3, <2>1, <2>2 DEF CategoriesShow, CategoryShows
<1> QED
  BY <1>4, <1>5

-----------------------------------------------------------------------------
(* Tables. *)

\* A table and the tables of its cache.
IsTable(tab) ==
  /\ DOMAIN tab = {"key", "categories", "cache", "opened"}
  /\ AreCategories(tab.categories)
  /\ \A k \in DOMAIN tab.cache : AreCategories(tab.cache[k])

\* The table in view is that of the scope, and shows the store.
TableShows(tab, t) == tab.key = t.scope /\ CategoriesShow(tab.categories, t)

LEMMA MountDoes ==
  ASSUME NEW tab, IsTable(tab), NEW t
  PROVE  IsTable(Mount(tab, t)) /\ TableShows(Mount(tab, t), t) /\ Mount(tab, t).key = t.scope
<1> DEFINE shown  == tab.key # None /\ tab.categories # <<>>
           cache  == IF shown THEN Put(tab.cache, tab.key, tab.categories) ELSE tab.cache
           opened == IF shown THEN Put(tab.opened, tab.key, Openness(tab.categories)) ELSE tab.opened
           found  == IF t.scope \in DOMAIN cache THEN cache[t.scope] ELSE CategoryShells(t)
           states == IF t.scope \in DOMAIN opened THEN opened[t.scope] ELSE <<>>
           cs     == ApplyCategoryStates(found, states)
           rest   == Without(cache, {t.scope})
           new    == [key |-> t.scope, categories |-> ApplyProjectionToDom(cs, t),
                      cache |-> rest, opened |-> opened]
<1>1. Mount(tab, t) = new
  BY DEF Mount
<1>2. \A k \in DOMAIN cache : AreCategories(cache[k])
  <2> DEFINE put == Put(tab.cache, tab.key, tab.categories)
  <2>1. /\ DOMAIN put = DOMAIN tab.cache \cup {tab.key} /\ put[tab.key] = tab.categories
        /\ \A j \in DOMAIN tab.cache : j # tab.key => put[j] = tab.cache[j]
    BY DEF Put
  <2>2. cache = put \/ cache = tab.cache
    OBVIOUS
  <2> HIDE DEF put, cache
  <2> QED
    BY <2>1, <2>2 DEF IsTable
<1>3. AreCategories(CategoryShells(t))
  BY DEF AreCategories, IsCategory, CategoryShells
<1>4. AreCategories(found)
  BY <1>2, <1>3
<1> HIDE DEF cache, opened, found, states
<1>5. AreCategories(cs)
  <2>1. DOMAIN cs = DOMAIN found
    BY DEF ApplyCategoryStates
  <2>2. ASSUME NEW c \in DOMAIN found PROVE IsCategory(cs[c])
    BY <1>4, WithOpen DEF ApplyCategoryStates, AreCategories
  <2> QED
    BY <2>1, <2>2 DEF AreCategories
<1>6. \A k \in DOMAIN rest : AreCategories(rest[k])
  BY <1>2 DEF Without, Restrict
<1> HIDE DEF cs, rest
<1>7. AreCategories(ApplyProjectionToDom(cs, t)) /\ CategoriesShow(ApplyProjectionToDom(cs, t), t)
  BY <1>5, ProjectionDoes
<1> QED
  BY <1>1, <1>6, <1>7 DEF IsTable, TableShows

LEMMA WithCategories ==
  ASSUME NEW tab, IsTable(tab), NEW cs, AreCategories(cs)
  PROVE  LET new == [tab EXCEPT !.categories = cs]
         IN  /\ IsTable(new) /\ new.key = tab.key /\ new.categories = cs
             /\ new.cache = tab.cache /\ new.opened = tab.opened
BY DEF IsTable

LEMMA WithCache ==
  ASSUME NEW tab, IsTable(tab), NEW cache, \A k \in DOMAIN cache : AreCategories(cache[k])
  PROVE  LET new == [tab EXCEPT !.cache = cache]
         IN  IsTable(new) /\ new.key = tab.key /\ new.categories = tab.categories
BY DEF IsTable

LEMMA WithOpened ==
  ASSUME NEW tab, IsTable(tab), NEW opened
  PROVE  LET new == [tab EXCEPT !.opened = opened]
         IN  IsTable(new) /\ new.key = tab.key /\ new.categories = tab.categories
BY DEF IsTable

LEMMA RepaintedDoes ==
  ASSUME NEW tab, IsTable(tab), NEW t, tab.key = t.scope
  PROVE  IsTable(Repainted(tab, t)) /\ TableShows(Repainted(tab, t), t) /\ Repainted(tab, t).key = tab.key
<1> DEFINE cs == ApplyProjectionToDom(tab.categories, t)
<1>1. AreCategories(cs) /\ CategoriesShow(cs, t)
  BY ProjectionDoes DEF IsTable
<1>2. Repainted(tab, t) = [tab EXCEPT !.categories = cs]
  BY DEF Repainted
<1> HIDE DEF cs
<1> QED
  BY <1>1, <1>2, WithCategories DEF TableShows

\* One row written, in the category it belongs to.
LEMMA OneRow ==
  ASSUME NEW tab, IsTable(tab), NEW o, NEW row, NEW t, NEW u, TableShows(tab, t),
         t.scope = u.scope, View(t) = View(u),
         \A p \in Offered(View(u)) : \A other : p # o /\ RowShows(other, t, p) => RowShows(other, u, p),
         LET c == Catalog[o].category
         IN  (/\ c \in DOMAIN tab.categories \cap Categories(View(u))
              /\ o \in DOMAIN tab.categories[c].rows \cap OfferedIn(View(u), c)) => RowShows(row, u, o)
  PROVE  LET new == [tab EXCEPT !.categories[Catalog[o].category].rows[o] = row]
         IN  IsTable(new) /\ new.key = tab.key /\ TableShows(new, u)
<1> DEFINE c    == Catalog[o].category
           old  == tab.categories
           rows == [old[c].rows EXCEPT ![o] = row]
           cat  == [old[c] EXCEPT !.rows = rows]
           cs   == [old EXCEPT ![c] = cat]
           new  == [tab EXCEPT !.categories = cs]
<1>1. [tab EXCEPT !.categories[Catalog[o].category].rows[o] = row] = new
  OBVIOUS
<1>2. AreCategories(old)
  BY DEF IsTable
<1>3. /\ rows = [p \in DOMAIN rows |-> rows[p]] /\ DOMAIN rows = DOMAIN old[c].rows
      /\ o \in DOMAIN rows => rows[o] = row
      /\ \A p \in DOMAIN rows : p # o => rows[p] = old[c].rows[p]
  OBVIOUS
<1>4. DOMAIN cs = DOMAIN old /\ (c \in DOMAIN old => cs[c] = cat) /\ \A d \in DOMAIN old : d # c => cs[d] = old[d]
  OBVIOUS
<1>a. c \in DOMAIN old \cap Categories(View(u)) /\ o \in DOMAIN rows \cap OfferedIn(View(u), c)
        => RowShows(row, u, o)
  BY <1>3
<1> HIDE DEF rows
<1>5. c \in DOMAIN old => IsCategory(cat) /\ cat.open = old[c].open /\ cat.rows = rows
  BY <1>2, <1>3, WithRows DEF AreCategories
<1> HIDE DEF cat
<1>6. AreCategories(cs)
  BY <1>2, <1>4, <1>5 DEF AreCategories
<1> HIDE DEF cs
<1>7. IsTable(new) /\ new.key = tab.key /\ new.categories = cs
  BY <1>6, WithCategories
<1>8. CategoriesShow(cs, u)
  <2>1. tab.key = t.scope /\ CategoriesShow(old, t)
    BY DEF TableShows
  <2>2. ASSUME NEW d \in DOMAIN old \cap Categories(View(u)) PROVE CategoryShows(cs[d], d, u)
    <3>1. CategoryShows(old[d], d, t)
      BY <2>1 DEF CategoriesShow
    <3>2. \A p \in DOMAIN old[d].rows \cap OfferedIn(View(u), d) : p # o => RowShows(old[d].rows[p], u, p)
      BY <3>1 DEF CategoryShows, RowsShow, OfferedIn
    <3>3. CASE d = c
      <4>1. old[c].rows # <<>> => rows # <<>>
        BY <1>2, <1>3, <3>3, SomeRows DEF AreCategories, IsCategory
      <4>2. cat.open => cat.rows # <<>>
        BY <1>5, <3>1, <3>3, <4>1 DEF CategoryShows
      <4>3. RowsShow(rows, d, u)
        BY <1>3, <1>a, <3>2, <3>3 DEF RowsShow
      <4> QED
        BY <1>4, <1>5, <3>3, <4>2, <4>3 DEF CategoryShows
    <3>4. CASE d # c
      <4>1. o \notin OfferedIn(View(u), d)
        BY <3>4 DEF OfferedIn
      <4>2. RowsShow(old[d].rows, d, u)
        BY <3>2, <4>1 DEF RowsShow
      <4>3. cs[d] = old[d]
        BY <1>4, <3>4
      <4> QED
        BY <3>1, <4>2, <4>3 DEF CategoryShows
    <3> QED
      BY <3>3, <3>4
  <2> QED
    BY <1>4, <2>2 DEF CategoriesShow
<1> HIDE DEF new
<1>9. TableShows(new, u)
  BY <1>7, <1>8 DEF TableShows
<1> QED
  BY <1>1, <1>7, <1>9

LEMMA FoldedDoes ==
  ASSUME NEW cat, IsCategory(cat), NEW c, NEW open
  PROVE  /\ IsCategory(Folded(cat, c, open))
         /\ c \in Categories(View(s)) /\ CategoryShows(cat, c, s) =>
              /\ Folded(cat, c, open).open => Folded(cat, c, open).rows # <<>>
              /\ \A o \in DOMAIN Folded(cat, c, open).rows \cap OfferedIn(View(s), c) :
                   \/ RowShows(Folded(cat, c, open).rows[o], s, o)
                   \/ Folded(cat, c, open).rows[o] = ApplyRowState(s, o)
<1>1. CASE open
  <2> DEFINE old == [cat EXCEPT !.open = TRUE]
             new == EnsureRowsRendered(old, c, s)
  <2>1. IsCategory(old) /\ old.rows = cat.rows
    BY WithOpen
  <2>2. Folded(cat, c, open) = new
    BY <1>1 DEF Folded
  <2> HIDE DEF old
  <2>3. /\ IsCategory(new) /\ c \in Categories(View(s)) => new.rows # <<>>
        /\ old.rows # <<>> => new = old
        /\ old.rows = <<>> => RowsDerived(new.rows, c, s)
    BY <2>1, EnsureDoes
  <2>5. IsCategory(new)
    BY <2>1, EnsureDoes
  <2> HIDE DEF new
  <2>4. CASE old.rows = <<>>
    BY <2>2, <2>3, <2>4, <2>5 DEF RowsDerived
  <2>6. CASE old.rows # <<>>
    BY <2>1, <2>2, <2>3, <2>5, <2>6 DEF CategoryShows, RowsShow
  <2> QED
    BY <2>4, <2>6
<1>2. CASE ~open
  <2> DEFINE new == [cat EXCEPT !.open = FALSE]
  <2>1. IsCategory(new) /\ new.open = FALSE /\ new.rows = cat.rows
    BY WithOpen
  <2>2. Folded(cat, c, open) = new
    BY <1>2 DEF Folded
  <2> HIDE DEF new
  <2> QED
    BY <2>1, <2>2 DEF CategoryShows, RowsShow
<1> QED
  BY <1>1, <1>2

LEMMA FoldingDoes ==
  ASSUME IsTable(table), TableShows(table, s), NEW cs, NEW open
  PROVE  LET folded == [c \in DOMAIN table.categories |->
                          IF c \in cs THEN Folded(table.categories[c], c, open) ELSE table.categories[c]]
         IN  /\ AreCategories(ApplyBusyState(folded, s))
             /\ CategoriesShow(ApplyBusyState(folded, s), s)
<1> DEFINE folded == [c \in DOMAIN table.categories |->
                        IF c \in cs THEN Folded(table.categories[c], c, open) ELSE table.categories[c]]
<1>1. ASSUME NEW c \in DOMAIN table.categories
      PROVE  /\ IsCategory(folded[c])
             /\ c \in Categories(View(s)) =>
                  /\ folded[c].open => folded[c].rows # <<>>
                  /\ \A o \in DOMAIN folded[c].rows \cap OfferedIn(View(s), c) :
                       RowShows(folded[c].rows[o], s, o) \/ folded[c].rows[o] = ApplyRowState(s, o)
  <2> DEFINE cat == table.categories[c]
  <2>1. IsCategory(cat)
    BY DEF IsTable, AreCategories
  <2>2. c \in Categories(View(s)) => CategoryShows(cat, c, s)
    BY DEF TableShows, CategoriesShow
  <2>3. CASE c \in cs
    <3>1. folded[c] = Folded(cat, c, open)
      BY <2>3
    <3> HIDE DEF cat, folded
    <3> QED
      BY <2>1, <2>2, <3>1, FoldedDoes
  <2>4. CASE c \notin cs
    <3>1. folded[c] = cat
      BY <2>4
    <3> HIDE DEF cat, folded
    <3> QED
      BY <2>1, <2>2, <3>1 DEF CategoryShows, RowsShow
  <2> QED
    BY <2>3, <2>4
<1>2. DOMAIN folded = DOMAIN table.categories
  OBVIOUS
<1> HIDE DEF folded
<1>3. AreCategories(folded)
  BY <1>1, <1>2 DEF AreCategories
<1>4. AreCategories(ApplyBusyState(folded, s))
  BY <1>3, BusyDoes
<1>5. CategoriesShow(ApplyBusyState(folded, s), s)
  <2>1. CASE IsTableBusy(s)
    <3>1. \A c \in DOMAIN folded \cap Categories(View(s)) :
            /\ folded[c].open => folded[c].rows # <<>>
            /\ \A o \in DOMAIN folded[c].rows \cap OfferedIn(View(s), c) : Loosely(folded[c].rows[o], s, o)
      BY <1>1, <1>2, <2>1, BusyKind, ShowsLoosely
    <3> QED
      BY <1>3, <2>1, <3>1, BusyShows
  <2>2. CASE ~IsTableBusy(s)
    <3>1. ApplyBusyState(folded, s) = folded
      BY <1>3, <2>2, BusyDoes
    <3>2. \A c \in DOMAIN folded \cap Categories(View(s)) : CategoryShows(folded[c], c, s)
      BY <1>1, <1>2, <2>2, ShowsLoosely DEF CategoryShows, RowsShow
    <3> QED
      BY <3>1, <3>2 DEF CategoriesShow
  <2> QED
    BY <2>1, <2>2
<1> QED
  BY <1>4, <1>5 DEF folded

-----------------------------------------------------------------------------
(* The store. *)

StoreFields ==
  {"armed", "conf", "anchor", "initial", "controllers", "devices", "applied", "owner", "request",
   "seq", "filter", "loaded", "scope", "status"}

Statuses == {"loading", "ready", "persisting", "persist-error", "connection-error"}

\* A list that is waited for is the last one asked for, and that of the
\* controller in view if there is one; while it is, no row is armed.
StoreOK(t) ==
  /\ DOMAIN t = StoreFields
  /\ t.scope.kind \in {"global", "controller", "device"} /\ t.filter \in Filters
  /\ t.status \in Statuses /\ t.armed \in Options \cup {None}
  /\ t.seq \in Nat /\ t.applied \in 0..t.seq
  /\ t.request = None => t.applied = t.seq
  /\ t.request # None => t.request.seq = t.seq
  /\ t.scope.kind = "controller" /\ t.request # None => t.request.controller = t.scope.controller
  /\ t.armed # None => ~IsTableBusy(t)

\* A row that is armed stays off by itself, as long as its device is there.
ArmedOK(t) ==
  t.armed # None =>
    /\ t.scope.kind = "device" /\ Catalog[t.armed].valued
    /\ View(t).device # None =>
         ~Resolve(t.conf, t.armed, View(t)).enabled /\ ~Inheriting(t.conf, t.armed, View(t))

LEMMA ScopeFacts ==
  ASSUME NEW c, NEW d
  PROVE  /\ Global.kind = "global" /\ AtController(c).kind = "controller"
         /\ AtController(c).controller = c /\ AtDevice(c, d).kind = "device"
BY DEF Global, AtController, AtDevice

LEMMA ScopeChangedDoes ==
  ASSUME NEW t, DOMAIN t = StoreFields, NEW scope
  PROVE  LET u == ScopeChanged(t, scope)
         IN  /\ DOMAIN u = StoreFields /\ u.scope = scope /\ u.armed = None
             /\ u.filter = t.filter /\ u.status = t.status /\ u.seq = t.seq /\ u.applied = t.applied
             /\ u.request = t.request /\ u.loaded = t.loaded /\ u.conf = t.conf
             /\ u.devices = t.devices /\ u.owner = t.owner
BY DEF ScopeChanged, StoreFields

LEMMA RequestedDoes ==
  ASSUME NEW t, DOMAIN t = StoreFields, NEW c
  PROVE  LET u == DevicesRequested(t, c)
         IN  /\ DOMAIN u = StoreFields /\ u.scope = t.scope /\ u.armed = t.armed
             /\ u.filter = t.filter /\ u.status = t.status /\ u.seq = t.seq + 1 /\ u.applied = t.applied
             /\ u.request = [controller |-> c, seq |-> t.seq + 1] /\ u.loaded = t.loaded
             /\ u.conf = t.conf /\ u.devices = t.devices /\ u.owner = t.owner
BY DEF DevicesRequested, StoreFields

LEMMA LoadedDoes ==
  ASSUME NEW t, DOMAIN t = StoreFields, NEW conf, NEW controllers
  PROVE  LET u == ModelLoaded(t, conf, controllers)
         IN  /\ DOMAIN u = StoreFields /\ u.scope = t.scope /\ u.armed = None
             /\ u.filter = t.filter /\ u.status = "ready" /\ u.seq = t.seq /\ u.applied = t.applied
             /\ u.request = t.request /\ u.owner = t.owner
BY DEF ModelLoaded, StoreFields

LEMMA AnsweredDoes ==
  ASSUME NEW t, DOMAIN t = StoreFields, NEW f, NEW devices, NEW failed
  PROVE  LET u == DevicesLoaded(t, f, devices, failed)
         IN  /\ DOMAIN u = StoreFields /\ u.scope = t.scope /\ u.armed = t.armed
             /\ u.filter = t.filter /\ u.seq = t.seq /\ u.loaded = t.loaded
             /\ u.status \in {t.status, "connection-error"}
             /\ ~Answers(t, f) => u = t
             /\ Answers(t, f) => u.applied = f.seq /\ u.owner = f.controller /\ u.request = None
<1>1. CASE ~Answers(t, f)
  BY <1>1 DEF DevicesLoaded
<1>2. CASE Answers(t, f)
  BY <1>2 DEF DevicesLoaded, StoreFields
<1> QED
  BY <1>1, <1>2

LEMMA EditedDoes ==
  ASSUME NEW t, DOMAIN t = StoreFields, NEW conf
  PROVE  LET u == Edited(t, conf)
         IN  /\ DOMAIN u = StoreFields /\ u.scope = t.scope /\ u.armed = None
             /\ u.filter = t.filter /\ u.status = t.status /\ u.seq = t.seq /\ u.applied = t.applied
             /\ u.request = t.request /\ u.loaded = t.loaded /\ u.conf = conf
             /\ u.devices = t.devices /\ u.owner = t.owner
BY DEF Edited, StoreFields

LEMMA ScopeChangedOK ==
  ASSUME NEW t, StoreOK(t), NEW scope, scope.kind \in {"global", "device"}
  PROVE  StoreOK(ScopeChanged(t, scope))
BY ScopeChangedDoes DEF StoreOK

LEMMA RequestedOK ==
  ASSUME NEW t, StoreOK(t), NEW c, t.armed = None, [controller |-> c, seq |-> t.seq + 1] # None,
         t.scope.kind = "controller" => c = t.scope.controller
  PROVE  StoreOK(DevicesRequested(t, c))
<1> DEFINE u == DevicesRequested(t, c)
<1>1. /\ DOMAIN u = StoreFields /\ u.scope = t.scope /\ u.armed = t.armed
      /\ u.filter = t.filter /\ u.status = t.status /\ u.seq = t.seq + 1 /\ u.applied = t.applied
      /\ u.request = [controller |-> c, seq |-> t.seq + 1]
  BY RequestedDoes DEF StoreOK
<1>2. u.request.controller = c /\ u.request.seq = t.seq + 1
  BY <1>1
<1> HIDE DEF u
<1> QED
  BY <1>1, <1>2 DEF StoreOK, u

\* A controller that is clicked is the one in view and the one asked for.
LEMMA ClickedOK ==
  ASSUME NEW t, StoreOK(t), NEW c, [controller |-> c, seq |-> t.seq + 1] # None
  PROVE  /\ StoreOK(DevicesRequested(ScopeChanged(t, AtController(c)), c))
         /\ IsTableBusy(DevicesRequested(ScopeChanged(t, AtController(c)), c))
<1> DEFINE u == ScopeChanged(t, AtController(c))
           v == DevicesRequested(u, c)
<1>1. /\ DOMAIN u = StoreFields /\ u.scope = AtController(c) /\ u.armed = None
      /\ u.filter = t.filter /\ u.status = t.status /\ u.seq = t.seq /\ u.applied = t.applied
  BY ScopeChangedDoes DEF StoreOK
<1> HIDE DEF u
<1>2. /\ DOMAIN v = StoreFields /\ v.scope = AtController(c) /\ v.armed = None
      /\ v.filter = t.filter /\ v.status = t.status /\ v.seq = t.seq + 1 /\ v.applied = t.applied
      /\ v.request = [controller |-> c, seq |-> t.seq + 1]
  BY <1>1, RequestedDoes
<1>3. v.request.controller = c /\ v.request.seq = t.seq + 1
  BY <1>2
<1> HIDE DEF v
<1>4. IsTableBusy(v)
  BY <1>2, <1>3, ScopeFacts DEF IsTableBusy
<1>5. StoreOK(v)
  BY <1>2, <1>3, ScopeFacts DEF StoreOK
<1> QED
  BY <1>4, <1>5 DEF u, v

LEMMA LoadedOK ==
  ASSUME NEW t, StoreOK(t), NEW conf, NEW controllers
  PROVE  StoreOK(ModelLoaded(t, conf, controllers))
<1> DEFINE u == ModelLoaded(t, conf, controllers)
<1>1. /\ DOMAIN u = StoreFields /\ u.scope = t.scope /\ u.armed = None
      /\ u.filter = t.filter /\ u.status = "ready" /\ u.seq = t.seq /\ u.applied = t.applied
      /\ u.request = t.request
  BY LoadedDoes DEF StoreOK
<1> HIDE DEF u
<1> QED
  BY <1>1 DEF StoreOK, Statuses, u

LEMMA AnsweredOK ==
  ASSUME NEW t, StoreOK(t), NEW f, NEW devices, NEW failed
  PROVE  StoreOK(DevicesLoaded(t, f, devices, failed))
<1> DEFINE u == DevicesLoaded(t, f, devices, failed)
<1>1. CASE ~Answers(t, f)
  BY <1>1, AnsweredDoes DEF StoreOK
<1>2. CASE Answers(t, f)
  <2>1. /\ DOMAIN u = StoreFields /\ u.scope = t.scope /\ u.armed = t.armed
        /\ u.filter = t.filter /\ u.seq = t.seq /\ u.status \in {t.status, "connection-error"}
        /\ u.applied = f.seq /\ u.request = None
    BY <1>2, AnsweredDoes DEF StoreOK
  <2>2. f.seq = t.seq /\ t.request # None
    BY <1>2 DEF Answers, StoreOK
  <2>3. t.armed # None => t.scope.kind # "controller"
    BY <2>2 DEF StoreOK, IsTableBusy
  <2> HIDE DEF u
  <2>4. u.armed # None => ~IsTableBusy(u)
    BY <2>1, <2>3 DEF IsTableBusy
  <2>5. u.status \in Statuses
    BY <2>1 DEF StoreOK, Statuses
  <2> QED
    BY <2>1, <2>2, <2>4, <2>5 DEF StoreOK, u
<1> QED
  BY <1>1, <1>2

LEMMA EditedOK ==
  ASSUME NEW t, StoreOK(t), NEW conf
  PROVE  StoreOK(Edited(t, conf))
BY EditedDoes DEF StoreOK

-----------------------------------------------------------------------------
(* What rows depend on. *)

LEMMA SameView ==
  ASSUME NEW t, NEW u, t.scope = u.scope, t.devices = u.devices, t.owner = u.owner
  PROVE  View(t) = View(u)
BY DEF View, ScopingControllerId, NavigationId

LEMMA SameRow ==
  ASSUME NEW t, NEW u, NEW o, View(t) = View(u), t.conf = u.conf, t.filter = u.filter
  PROVE  /\ RowState(t, o, TRUE) = RowState(u, o, TRUE)
         /\ (t.armed = o <=> u.armed = o) => ApplyRowState(t, o) = ApplyRowState(u, o)
BY DEF RowState, ApplyRowState

\* A row that is not the one armed goes on showing the store.
LEMMA RowGoesOn ==
  ASSUME NEW t, NEW u, NEW o, View(t) = View(u), t.conf = u.conf, t.filter = u.filter, t.scope = u.scope,
         IsTableBusy(t) = IsTableBusy(u), t.armed = o <=> u.armed = o, NEW row, RowShows(row, t, o)
  PROVE  RowShows(row, u, o)
<1>1. ApplyRowState(t, o) = ApplyRowState(u, o) /\ RowState(t, o, TRUE) = RowState(u, o, TRUE)
  BY SameRow
<1>2. Painted(t, o) = Painted(u, o)
  BY <1>1 DEF Painted
<1> QED
  BY <1>1, <1>2 DEF RowShows, LeftIn

\* No effect of the table sees these.
LEMMA SameTable ==
  ASSUME NEW tab, NEW t, NEW u, TableShows(tab, t), View(t) = View(u), t.scope = u.scope,
         t.conf = u.conf, t.filter = u.filter, t.armed = u.armed, t.owner = u.owner, t.request = u.request
  PROVE  TableShows(tab, u)
<1>1. IsTableBusy(t) = IsTableBusy(u)
  BY DEF IsTableBusy
<1>2. \A o, row : RowShows(row, t, o) => RowShows(row, u, o)
  BY <1>1, RowGoesOn
<1>3. CategoriesShow(tab.categories, t) => CategoriesShow(tab.categories, u)
  BY <1>2 DEF CategoriesShow, CategoryShows, RowsShow
<1> QED
  BY <1>3 DEF TableShows

-----------------------------------------------------------------------------
(* The invariant of the table. *)

BootPhases == {"sync", "controllers", "features", "theme", "devices", "done", "none"}

\* Before the model is there nothing is shown, waited for or written.
NotLoadedOK ==
  ~s.loaded =>
    /\ table.key = None /\ fetches = {} /\ write = None /\ s.armed = None
    /\ boot.at \notin {"theme", "devices"}
    /\ boot.at \in {"sync", "controllers"} => s.scope = Global

\* The store is well formed, and from the moment the model is loaded the
\* table shows it.
DevicesIInv ==
  /\ scene \in Scenes
  /\ StoreOK(s) /\ IsTable(table) /\ (s.loaded => TableShows(table, s)) /\ NotLoadedOK
  /\ DOMAIN boot = {"at", "seq", "controllers"}
  /\ boot.at \in BootPhases /\ boot.seq \in 0..s.seq
  /\ boot.at \in {"sync", "controllers", "features"} => ~s.loaded
  /\ retry \in {"none", "waiting", "armed"}

LEMMA EmptyTableDoes ==
  ASSUME NEW opened
  PROVE  IsTable(EmptyTable(opened)) /\ EmptyTable(opened).key = None
BY DEF EmptyTable, IsTable, AreCategories

LEMMA InvalidateDoes ==
  ASSUME NEW cache, \A k \in DOMAIN cache : AreCategories(cache[k]), NEW t, NEW id
  PROVE  LET new == InvalidateCacheForMutation(cache, t, id)
         IN  \A k \in DOMAIN new : AreCategories(new[k])
<1>1. InvalidateCacheForMutation(cache, t, id) \in
        {<<>>, cache, Without(cache, {k \in DOMAIN cache : k.kind = "device" /\ k.controller = id})}
  BY DEF InvalidateCacheForMutation
<1>2. ASSUME NEW keys PROVE \A k \in DOMAIN Without(cache, keys) : AreCategories(Without(cache, keys)[k])
  BY DEF Without, Restrict
<1> QED
  BY <1>1, <1>2

\* The table after an edit.
LEMMA EditDoes ==
  ASSUME IsTable(table), NEW t, table.key = t.scope, NEW id,
         NEW tab \in {Repainted([table EXCEPT !.cache = InvalidateCacheForMutation(@, s, id)], t),
                      RepaintedAlone(t)}
  PROVE  IsTable(tab) /\ TableShows(tab, t)
<1>1. ASSUME NEW cache, \A k \in DOMAIN cache : AreCategories(cache[k])
      PROVE  LET new == Repainted([table EXCEPT !.cache = cache], t) IN IsTable(new) /\ TableShows(new, t)
  BY <1>1, WithCache, RepaintedDoes
<1>2. tab = Repainted([table EXCEPT !.cache = InvalidateCacheForMutation(table.cache, s, id)], t)
        \/ tab = Repainted([table EXCEPT !.cache = <<>>], t)
  BY DEF RepaintedAlone
<1>3. \A k \in DOMAIN InvalidateCacheForMutation(table.cache, s, id) :
        AreCategories(InvalidateCacheForMutation(table.cache, s, id)[k])
  BY InvalidateDoes DEF IsTable
<1> QED
  BY <1>1, <1>2, <1>3

\* A row that is in reach and not inert is that of a table that is not busy.
LEMMA LiveRow ==
  ASSUME TableShows(table, s), NEW o, Reaches(o), ~RowOf(o).disabled \/ ~RowOf(o).locked
  PROVE  ~IsTableBusy(s)
<1> DEFINE c == Catalog[o].category
<1>1. c \in DOMAIN table.categories \cap Categories(View(s)) /\ o \in OfferedIn(View(s), c)
  BY DEF Reaches, Categories, OfferedIn
<1>2. o \in DOMAIN table.categories[c].rows
  BY DEF Reaches
<1>3. RowShows(RowOf(o), s, o)
  BY <1>1, <1>2 DEF TableShows, CategoriesShow, CategoryShows, RowsShow, RowOf
<1>4. SUFFICES ASSUME IsTableBusy(s) PROVE FALSE
  OBVIOUS
<1>5. RowOf(o).disabled = TRUE /\ RowOf(o).locked = TRUE
  BY <1>3, <1>4, RowIsRow, InertDoes, BusyKind DEF RowShows, LeftIn, Alike, Painted
<1> QED
  BY <1>5

LEMMA AppliedRow ==
  ASSUME NEW t, NEW o
  PROVE  /\ ApplyRowState(t, o).checked = (Resolve(t.conf, o, View(t)).enabled \/ t.armed = o)
         /\ ApplyRowState(t, o).readOnly = Inheriting(t.conf, o, View(t))
         /\ RowState(t, o, TRUE).readOnly = Inheriting(t.conf, o, View(t))
         /\ RowState(t, o, TRUE).checked = TRUE
         /\ t.armed = o => ApplyRowState(t, o) = RowState(t, o, TRUE)
BY DEF RowState, ApplyRowState

\* A row that another one takes over from is left armed.
LEMMA TakenOver ==
  ASSUME ArmedOK(s), ~IsTableBusy(s), NEW p \in Options, s.armed = p, NEW t, View(s) = View(t),
         t.scope = s.scope, t.conf = s.conf, t.filter = s.filter, t.armed # p,
         NEW row, RowShows(row, s, p)
  PROVE  RowShows(row, t, p)
<1>1. Painted(s, p) = RowState(s, p, TRUE) /\ RowState(s, p, TRUE) = RowState(t, p, TRUE)
  BY AppliedRow, SameRow DEF Painted
<1>2. IsRow(row) /\ row.text # None /\ Alike(row, RowState(t, p, TRUE))
  BY <1>1 DEF RowShows, LeftIn
<1>3. /\ t.scope.kind = "device" /\ Catalog[p].valued
      /\ View(t).device # None => ~Resolve(t.conf, p, View(t)).enabled /\ ~Inheriting(t.conf, p, View(t))
  BY OptionRowsAssumption DEF ArmedOK
<1>4. /\ ApplyRowState(t, p).checked = (Resolve(t.conf, p, View(t)).enabled \/ t.armed = p)
      /\ ApplyRowState(t, p).readOnly = Inheriting(t.conf, p, View(t))
  BY AppliedRow
<1>5. ApplyRowState(t, p).checked \/ ApplyRowState(t, p).readOnly => View(t).device = None
  BY <1>3, <1>4
<1> QED
  BY <1>2, <1>3, <1>5 DEF RowShows, LeftIn

\* A row is armed, or no longer.
LEMMA ArmingDoes ==
  ASSUME StoreOK(s), ArmedOK(s), IsTable(table), TableShows(table, s), ~IsTableBusy(s),
         NEW o \in Options, NEW a, a = o \/ (a = None /\ s.armed = o)
  PROVE  LET t == [s EXCEPT !.armed = a]
         IN  /\ StoreOK(t) /\ t.loaded = s.loaded /\ t.seq = s.seq
             /\ IsTable(RowPainted(t, o)) /\ TableShows(RowPainted(t, o), t)
<1> DEFINE t == [s EXCEPT !.armed = a]
<1>1. /\ DOMAIN t = StoreFields /\ t.scope = s.scope /\ t.armed = a
      /\ t.filter = s.filter /\ t.status = s.status /\ t.seq = s.seq /\ t.applied = s.applied
      /\ t.request = s.request /\ t.loaded = s.loaded /\ t.conf = s.conf
      /\ t.devices = s.devices /\ t.owner = s.owner
  BY DEF StoreOK, StoreFields
<1> HIDE DEF t
<1>2. IsTableBusy(t) = IsTableBusy(s)
  BY <1>1 DEF IsTableBusy
<1>3. StoreOK(t)
  BY <1>1, <1>2 DEF StoreOK
<1>4. View(s) = View(t)
  BY <1>1, SameView
<1>5. \A p \in Offered(View(t)) : \A other : p # o /\ RowShows(other, s, p) => RowShows(other, t, p)
  <2> SUFFICES ASSUME NEW p \in Offered(View(t)), NEW other, p # o, RowShows(other, s, p)
               PROVE  RowShows(other, t, p)
    OBVIOUS
  <2>1. p \in Options /\ p # None /\ t.armed # p
    BY <1>1, OptionRowsAssumption DEF Offered
  <2>2. CASE s.armed = p
    BY <1>1, <1>4, <2>1, <2>2, TakenOver
  <2>3. CASE s.armed # p
    BY <1>1, <1>2, <1>4, <2>1, <2>3, RowGoesOn
  <2> QED
    BY <2>2, <2>3
<1>6. RowShows(ApplyRowState(t, o), t, o)
  BY <1>2, ShowsLoosely
<1>7. IsTable(RowPainted(t, o)) /\ TableShows(RowPainted(t, o), t)
  BY <1>1, <1>4, <1>5, <1>6, OneRow DEF RowPainted
<1> QED
  BY <1>1, <1>3, <1>7 DEF t

LEMMA RowAgain ==
  ASSUME IsTable(table), TableShows(table, s), ~IsTableBusy(s), NEW o
  PROVE  IsTable(RowPainted(s, o)) /\ TableShows(RowPainted(s, o), s)
<1>1. RowShows(ApplyRowState(s, o), s, o)
  BY ShowsLoosely
<1> QED
  BY <1>1, OneRow DEF RowPainted

\* What is typed stays in its field.
LEMMA TypingDoes ==
  ASSUME NEW tab, IsTable(tab), NEW t, TableShows(tab, t), NEW o, NEW x, x # None
  PROVE  LET new == [tab EXCEPT !.categories[Catalog[o].category].rows[o].text = x]
         IN  IsTable(new) /\ TableShows(new, t)
<1> DEFINE c   == Catalog[o].category
           old == tab.categories[c].rows[o]
           row == [old EXCEPT !.text = x]
<1>1. [tab EXCEPT !.categories[Catalog[o].category].rows[o].text = x]
        = [tab EXCEPT !.categories[Catalog[o].category].rows[o] = row]
  OBVIOUS
<1>2. ASSUME c \in DOMAIN tab.categories \cap Categories(View(t)),
             o \in DOMAIN tab.categories[c].rows \cap OfferedIn(View(t), c)
      PROVE  RowShows(row, t, o)
  <2>1. RowShows(old, t, o)
    BY <1>2 DEF TableShows, CategoriesShow, CategoryShows, RowsShow
  <2> HIDE DEF old
  <2> QED
    BY <2>1, TextLeavesShown
<1> HIDE DEF row
<1>3. LET new == [tab EXCEPT !.categories[Catalog[o].category].rows[o] = row]
      IN  IsTable(new) /\ TableShows(new, t)
  BY <1>2, OneRow
<1> QED
  BY <1>1, <1>3

-----------------------------------------------------------------------------
(* The steps. *)

LEMMA DevicesStart == Init => DevicesIInv
<1> SUFFICES ASSUME Init PROVE DevicesIInv
  OBVIOUS
<1>1. /\ DOMAIN InitialState = StoreFields /\ InitialState.armed = None /\ InitialState.scope = Global
      /\ InitialState.request = None /\ InitialState.seq = 0 /\ InitialState.applied = 0
      /\ InitialState.filter = NoFilter /\ InitialState.status = "loading" /\ ~InitialState.loaded
  BY DEF InitialState, StoreFields
<1>2. NoFilter \in Filters
  BY DEF NoFilter, Filters
<1>3. StoreOK(InitialState)
  BY <1>1, <1>2, ScopeFacts DEF StoreOK, Statuses
<1>4. IsTable(table) /\ table.key = None
  BY EmptyTableDoes DEF Init
<1>5. DOMAIN boot = {"at", "seq", "controllers"} /\ boot.at = "sync" /\ boot.seq = 0
  BY DEF Init
<1>6. NotLoadedOK
  BY <1>1, <1>4, <1>5 DEF Init, NotLoadedOK
<1> QED
  BY <1>1, <1>3, <1>4, <1>5, <1>6 DEF Init, DevicesIInv, BootPhases

LEMMA RetrySees ==
  ASSUME retry \in {"none", "waiting", "armed"}, NEW t, NEW moved, ErrorViewSees(t, moved)
  PROVE  retry' \in {"none", "waiting", "armed"}
BY DEF ErrorViewSees

\* A step of a page whose model is there.
LEMMA LoadedStep ==
  ASSUME DevicesIInv, s.loaded, s'.loaded = s.loaded, scene' = scene,
         StoreOK(s'), IsTable(table'), TableShows(table', s'), s'.seq \in {s.seq, s.seq + 1},
         \/ boot' = boot
         \/ \E at \in {"devices", "done"} : boot' = [boot EXCEPT !.at = at],
         retry' \in {"none", "waiting", "armed"}
  PROVE  DevicesIInv'
<1>1. /\ DOMAIN boot' = {"at", "seq", "controllers"} /\ boot'.seq = boot.seq
      /\ boot'.at \in BootPhases \ {"sync", "controllers", "features"}
  BY DEF DevicesIInv, BootPhases
<1>2. boot.seq \in 0..s.seq /\ s.seq \in Nat /\ s'.seq \in Nat /\ scene' \in Scenes
  BY DEF DevicesIInv, StoreOK
<1>3. NotLoadedOK'
  BY DEF NotLoadedOK
<1> QED
  BY <1>1, <1>2, <1>3 DEF DevicesIInv

\* Nothing the table or the store are about.
LEMMA SameStoreStep ==
  ASSUME DevicesIInv, scene' = scene, s' = s, table' = table, fetches' = fetches, write' = write,
         boot' = boot, retry' \in {"none", "waiting", "armed"}
  PROVE  DevicesIInv'
BY DEF DevicesIInv, NotLoadedOK

LEMMA SyncResolvesOK ==
  ASSUME DevicesIInv, SyncResolves
  PROVE  DevicesIInv'
<1>1. DOMAIN boot' = {"at", "seq", "controllers"} /\ boot'.seq = boot.seq /\ boot'.at = "controllers"
  BY DEF DevicesIInv, SyncResolves
<1> QED
  BY <1>1 DEF DevicesIInv, SyncResolves, NotLoadedOK, BootPhases

LEMMA NoControllersOK ==
  ASSUME DevicesIInv, NoControllers
  PROVE  DevicesIInv'
<1>1. DOMAIN boot' = {"at", "seq", "controllers"} /\ boot'.seq = boot.seq /\ boot'.at = "none"
  BY DEF DevicesIInv, NoControllers
<1> QED
  BY <1>1 DEF DevicesIInv, NoControllers, NotLoadedOK, BootPhases

LEMMA StatusOK ==
  ASSUME StoreOK(s), NEW status \in Statuses
  PROVE  LET t == [s EXCEPT !.status = status]
         IN  /\ StoreOK(t) /\ t.loaded = s.loaded /\ t.seq = s.seq /\ t.armed = s.armed /\ t.scope = s.scope
             /\ \A tab : TableShows(tab, s) => TableShows(tab, t)
<1> DEFINE t == [s EXCEPT !.status = status]
<1>1. /\ DOMAIN t = StoreFields /\ t.scope = s.scope /\ t.armed = s.armed
      /\ t.filter = s.filter /\ t.status = status /\ t.seq = s.seq /\ t.applied = s.applied
      /\ t.request = s.request /\ t.loaded = s.loaded /\ t.conf = s.conf
      /\ t.devices = s.devices /\ t.owner = s.owner
  BY DEF StoreOK, StoreFields
<1> HIDE DEF t
<1>2. StoreOK(t)
  BY <1>1 DEF StoreOK, IsTableBusy
<1>3. \A tab : TableShows(tab, s) => TableShows(tab, t)
  BY <1>1, SameView, SameTable
<1> QED
  BY <1>1, <1>2, <1>3 DEF t

LEMMA FailConnectionOK ==
  ASSUME DevicesIInv, FailConnection
  PROVE  DevicesIInv'
<1>1. DOMAIN boot' = {"at", "seq", "controllers"} /\ boot'.seq = boot.seq /\ boot'.at = "done"
  BY DEF DevicesIInv, FailConnection
<1>2. StoreOK(s') /\ s'.loaded = s.loaded /\ s'.seq = s.seq /\ s'.armed = s.armed /\ ~s.loaded
  BY StatusOK DEF DevicesIInv, FailConnection, Statuses
<1>3. retry' \in {"none", "waiting", "armed"}
  BY RetrySees DEF DevicesIInv, FailConnection
<1> QED
  BY <1>1, <1>2, <1>3 DEF DevicesIInv, FailConnection, NotLoadedOK, BootPhases

LEMMA NoneIsNoRequest ==
  ASSUME scene \in Scenes, NEW c \in DOMAIN scene.lists \cup {None}, NEW n \in Nat
  PROVE  [controller |-> c, seq |-> n] # None
BY DevicePageAssumption

LEMMA ControllersResolveOK ==
  ASSUME DevicesIInv, NEW controllers \in scene.sidebars, ControllersResolve(controllers)
  PROVE  DevicesIInv'
<1>1. /\ StoreOK(s) /\ s.seq \in Nat /\ scene \in Scenes /\ ~s.loaded /\ s.armed = None /\ s.scope = Global
      /\ DOMAIN s = StoreFields
  BY DEF DevicesIInv, ControllersResolve, StoreOK, NotLoadedOK
<1>2. /\ StoreOK(s') /\ s'.seq \in {s.seq, s.seq + 1} /\ s'.loaded = s.loaded /\ s'.armed = None
  <2>1. CASE scene.mode = "global"
    BY <1>1, <2>1 DEF ControllersResolve
  <2>2. CASE scene.mode # "global" /\ controllers = <<>>
    <3>1. s' = DevicesRequested(s, None)
      BY <2>2 DEF ControllersResolve
    <3>2. [controller |-> None, seq |-> s.seq + 1] # None
      BY <1>1, NoneIsNoRequest
    <3>3. s.scope.kind # "controller"
      BY <1>1, ScopeFacts
    <3> QED
      BY <1>1, <3>1, <3>2, <3>3, RequestedOK, RequestedDoes
  <2>3. CASE scene.mode # "global" /\ controllers # <<>>
    <3> DEFINE c == controllers[1]
    <3>1. s' = DevicesRequested(ScopeChanged(s, AtController(c)), c)
      BY <2>3 DEF ControllersResolve
    <3>2. controllers \in Seq(DOMAIN scene.lists)
      BY <1>1, DevicePageAssumption
    <3>3. c \in DOMAIN scene.lists
      BY <2>3, <3>2
    <3>4. [controller |-> c, seq |-> s.seq + 1] # None
      BY <1>1, <3>3, NoneIsNoRequest
    <3> HIDE DEF c
    <3>5. StoreOK(s')
      BY <1>1, <3>1, <3>4, ClickedOK
    <3> DEFINE u == ScopeChanged(s, AtController(c))
    <3>6. DOMAIN u = StoreFields /\ u.armed = None /\ u.seq = s.seq /\ u.loaded = s.loaded
      BY <1>1, ScopeChangedDoes
    <3>7. s' = DevicesRequested(u, c)
      BY <3>1
    <3> HIDE DEF u
    <3> DEFINE v == DevicesRequested(u, c)
    <3>8. v.armed = u.armed /\ v.seq = u.seq + 1 /\ v.loaded = u.loaded
      BY <3>6, RequestedDoes
    <3> HIDE DEF v
    <3>9. s' = v
      BY <3>7 DEF v
    <3> QED
      BY <3>5, <3>6, <3>8, <3>9
  <2> QED
    BY <2>1, <2>2, <2>3
<1>3. DOMAIN boot' = {"at", "seq", "controllers"} /\ boot'.seq = s'.seq /\ boot'.at = "features"
  BY DEF ControllersResolve
<1>4. s'.seq \in Nat
  BY <1>1, <1>2
<1>5. NotLoadedOK'
  BY <1>1, <1>2, <1>3 DEF DevicesIInv, ControllersResolve, NotLoadedOK
<1>6. IsTable(table') /\ scene' \in Scenes /\ retry' \in {"none", "waiting", "armed"}
  BY DEF DevicesIInv, ControllersResolve
<1>7. boot'.seq \in 0..s'.seq
  BY <1>3, <1>4
<1> QED
  BY <1>1, <1>2, <1>3, <1>5, <1>6, <1>7 DEF DevicesIInv, BootPhases

LEMMA FeaturesResolveOK ==
  ASSUME DevicesIInv, NEW conf, FeaturesResolve(conf)
  PROVE  DevicesIInv'
<1>1. StoreOK(s) /\ DOMAIN s = StoreFields /\ s' = ModelLoaded(s, conf, boot.controllers)
  BY DEF DevicesIInv, StoreOK, FeaturesResolve
<1>2. StoreOK(s')
  BY <1>1, LoadedOK
<1>3. s'.loaded
  BY <1>1 DEF ModelLoaded, StoreFields
<1>4. s'.seq = s.seq
  BY <1>1, LoadedDoes
<1>5. IsTable(table') /\ TableShows(table', s')
  BY EmptyTableDoes, MountDoes DEF FeaturesResolve
<1>6. DOMAIN boot' = {"at", "seq", "controllers"} /\ boot'.seq = boot.seq /\ boot'.at = "theme"
  BY DEF DevicesIInv, FeaturesResolve
<1>7. retry' \in {"none", "waiting", "armed"} /\ scene' \in Scenes /\ boot.seq \in 0..s.seq
  BY RetrySees DEF DevicesIInv, FeaturesResolve
<1>8. NotLoadedOK'
  BY <1>3 DEF NotLoadedOK
<1> QED
  BY <1>2, <1>3, <1>4, <1>5, <1>6, <1>7, <1>8 DEF DevicesIInv, BootPhases

LEMMA ThemeSettlesOK ==
  ASSUME DevicesIInv, ThemeSettles
  PROVE  DevicesIInv'
<1>1. s.loaded
  BY DEF DevicesIInv, NotLoadedOK, ThemeSettles
<1>2. \E at \in {"devices", "done"} : boot' = [boot EXCEPT !.at = at]
  BY DEF ThemeSettles
<1>3. /\ s' = s /\ table' = table /\ scene' = scene /\ retry' = retry /\ StoreOK(s) /\ IsTable(table)
      /\ TableShows(table, s) /\ retry \in {"none", "waiting", "armed"}
  BY <1>1 DEF DevicesIInv, ThemeSettles
<1> QED
  BY <1>1, <1>2, <1>3, LoadedStep

LEMMA OutcomeDoes ==
  ASSUME DevicesIInv, NEW f, NEW devices, NEW failed, Outcome(f, devices, failed)
  PROVE  /\ StoreOK(s') /\ s'.loaded = s.loaded /\ s'.seq = s.seq
         /\ IsTable(table') /\ TableShows(table', s')
         /\ retry' \in {"none", "waiting", "armed"}
<1>1. StoreOK(s) /\ DOMAIN s = StoreFields /\ IsTable(table)
  BY DEF DevicesIInv, StoreOK
<1> DEFINE t == DevicesLoaded(s, f, devices, failed)
           jumps == t.applied = f.seq /\ ~failed /\ devices # <<>> /\ f.controller # None
           u == IF jumps THEN ScopeChanged(t, AtDevice(f.controller, devices[1])) ELSE t
           mounted == Mount(table, t)
<1>2. /\ s' = u /\ table' = (IF jumps THEN Mount(mounted, u) ELSE mounted)
      /\ ErrorViewSees(t, failed /\ Answers(s, f))
  BY DEF Outcome
<1>3. StoreOK(t) /\ DOMAIN t = StoreFields /\ t.seq = s.seq /\ t.loaded = s.loaded
  BY <1>1, AnsweredOK, AnsweredDoes
<1>4. retry' \in {"none", "waiting", "armed"}
  BY <1>2, RetrySees DEF DevicesIInv
<1> HIDE DEF t
<1>5. IsTable(mounted) /\ TableShows(mounted, t)
  BY <1>1, MountDoes
<1>6. CASE jumps
  <2> DEFINE v == ScopeChanged(t, AtDevice(f.controller, devices[1]))
  <2>1. AtDevice(f.controller, devices[1]).kind = "device"
    BY ScopeFacts
  <2>2. StoreOK(v) /\ v.seq = t.seq /\ v.loaded = t.loaded
    BY <1>3, <2>1, ScopeChangedOK, ScopeChangedDoes
  <2>3. s' = v /\ table' = Mount(mounted, v)
    BY <1>2, <1>6
  <2> HIDE DEF v, mounted
  <2> QED
    BY <1>3, <1>4, <1>5, <2>2, <2>3, MountDoes
<1>7. CASE ~jumps
  <2>1. s' = t /\ table' = mounted
    BY <1>2, <1>7
  <2> HIDE DEF mounted
  <2> QED
    BY <1>3, <1>4, <1>5, <2>1
<1> QED
  BY <1>6, <1>7

LEMMA DevicesResolveOK ==
  ASSUME DevicesIInv, DevicesResolve
  PROVE  DevicesIInv'
<1>1. s.loaded
  BY DEF DevicesIInv, NotLoadedOK, DevicesResolve
<1>2. PICK f, devices, failed : Outcome(f, devices, failed)
  BY DEF DevicesResolve
<1>3. boot' = [boot EXCEPT !.at = "done"] /\ scene' = scene
  BY DEF DevicesResolve
<1> QED
  BY <1>1, <1>2, <1>3, OutcomeDoes, LoadedStep

LEMMA FetchSettlesOK ==
  ASSUME DevicesIInv, NEW f \in fetches, FetchSettles(f)
  PROVE  DevicesIInv'
<1>1. s.loaded
  BY DEF DevicesIInv, NotLoadedOK
<1>2. PICK devices, failed : Outcome(f, devices, failed)
  BY DEF FetchSettles
<1>3. boot' = boot /\ scene' = scene
  BY DEF FetchSettles
<1> QED
  BY <1>1, <1>2, <1>3, OutcomeDoes, LoadedStep

LEMMA ReenterOK ==
  ASSUME DevicesIInv, Reenter
  PROVE  DevicesIInv'
<1>1. /\ DOMAIN InitialState = StoreFields /\ InitialState.armed = None /\ InitialState.scope = Global
      /\ InitialState.request = None /\ InitialState.seq = 0 /\ InitialState.applied = 0
      /\ InitialState.filter = NoFilter /\ InitialState.status = "loading" /\ ~InitialState.loaded
  BY DEF InitialState, StoreFields
<1>2. NoFilter \in Filters
  BY DEF NoFilter, Filters
<1>3. StoreOK(InitialState)
  BY <1>1, <1>2, ScopeFacts DEF StoreOK, Statuses
<1>4. s' = InitialState /\ IsTable(table') /\ table'.key = None
  BY EmptyTableDoes DEF Reenter
<1>5. DOMAIN boot' = {"at", "seq", "controllers"} /\ boot'.at = "sync" /\ boot'.seq = 0
  BY DEF Reenter
<1>6. /\ fetches' = {} /\ write' = None /\ retry' = "none" /\ scene' = scene
  BY DEF Reenter
<1>7. NotLoadedOK'
  BY <1>1, <1>4, <1>5, <1>6 DEF NotLoadedOK
<1>8. scene' \in Scenes
  BY <1>6 DEF DevicesIInv
<1> QED
  BY <1>1, <1>3, <1>4, <1>5, <1>6, <1>7, <1>8 DEF DevicesIInv, BootPhases

\* What a step of a loaded page may rely on.
LEMMA WhenLoaded ==
  ASSUME DevicesIInv, s.loaded
  PROVE  /\ StoreOK(s) /\ DOMAIN s = StoreFields /\ s.seq \in Nat /\ IsTable(table)
         /\ TableShows(table, s) /\ table.key = s.scope /\ retry \in {"none", "waiting", "armed"}
BY DEF DevicesIInv, StoreOK, TableShows

LEMMA ScopedOK ==
  ASSUME DevicesIInv, s.loaded, NEW scope, scope.kind \in {"global", "device"}, Scoped(scope),
         scene' = scene, boot' = boot
  PROVE  DevicesIInv'
<1>1. StoreOK(s) /\ DOMAIN s = StoreFields /\ IsTable(table) /\ retry \in {"none", "waiting", "armed"}
  BY WhenLoaded
<1>2. s' = ScopeChanged(s, scope) /\ table' = Mount(table, s') /\ retry' = retry
  BY DEF Scoped
<1>3. StoreOK(s')
  BY <1>1, <1>2, ScopeChangedOK
<1>4. s'.loaded = s.loaded /\ s'.seq = s.seq
  BY <1>1, <1>2, ScopeChangedDoes
<1>5. IsTable(table') /\ TableShows(table', s')
  BY <1>1, <1>2, MountDoes
<1> QED
  BY <1>1, <1>2, <1>3, <1>4, <1>5, LoadedStep

LEMMA ClickControllerOK ==
  ASSUME DevicesIInv, NEW c \in DOMAIN scene.lists, ClickController(c)
  PROVE  DevicesIInv'
<1>1. s.loaded /\ scene' = scene /\ boot' = boot /\ retry' = retry /\ scene \in Scenes
  BY DEF ClickController, Ready, DevicesIInv
<1>2. StoreOK(s) /\ DOMAIN s = StoreFields /\ s.seq \in Nat /\ IsTable(table) /\ retry \in {"none", "waiting", "armed"}
  BY <1>1, WhenLoaded
<1> DEFINE t == ScopeChanged(s, AtController(c))
           u == DevicesRequested(t, c)
           mounted == Mount(table, t)
<1>3. s' = u /\ table' = [mounted EXCEPT !.categories = ApplyBusyState(mounted.categories, u)]
  BY DEF ClickController
<1>4. [controller |-> c, seq |-> s.seq + 1] # None
  BY <1>1, <1>2, NoneIsNoRequest
<1>5. StoreOK(u) /\ IsTableBusy(u)
  BY <1>2, <1>4, ClickedOK
<1>6. DOMAIN t = StoreFields /\ t.seq = s.seq /\ t.loaded = s.loaded /\ t.scope = AtController(c)
  BY <1>2, ScopeChangedDoes
<1>7. IsTable(mounted) /\ TableShows(mounted, t)
  BY <1>2, MountDoes
<1> HIDE DEF t
<1>8. /\ u.scope = t.scope /\ u.armed = t.armed /\ u.filter = t.filter /\ u.seq = t.seq + 1
      /\ u.loaded = t.loaded /\ u.conf = t.conf /\ u.devices = t.devices /\ u.owner = t.owner
  BY <1>6, RequestedDoes
<1> HIDE DEF u, mounted
<1>9. View(t) = View(u)
  BY <1>8, SameView
<1>10. \A o : ApplyRowState(t, o) = ApplyRowState(u, o)
  BY <1>8, <1>9, SameRow
<1> DEFINE cs == mounted.categories
<1>c. t.scope.kind # "device"
  BY <1>6, ScopeFacts
<1>11. \A d \in DOMAIN cs \cap Categories(View(t)) :
         /\ cs[d].open => cs[d].rows # <<>>
         /\ \A o \in DOMAIN cs[d].rows \cap OfferedIn(View(t), d) : Loosely(cs[d].rows[o], t, o)
  BY <1>7, <1>c, ShowsLoosely DEF TableShows, CategoriesShow, CategoryShows, RowsShow
<1>12. AreCategories(cs)
  BY <1>7 DEF IsTable
<1>a. mounted.key = t.scope
  BY <1>7 DEF TableShows
<1>b. table' = [mounted EXCEPT !.categories = ApplyBusyState(cs, u)]
  BY <1>3
<1> HIDE DEF cs
<1>13. CategoriesShow(ApplyBusyState(cs, u), u)
  BY <1>5, <1>9, <1>10, <1>11, <1>12, BusyShows
<1>14. AreCategories(ApplyBusyState(cs, u))
  BY <1>12, BusyDoes
<1>15. IsTable(table') /\ table'.key = t.scope /\ table'.categories = ApplyBusyState(cs, u)
  BY <1>7, <1>14, <1>a, <1>b, WithCategories
<1>16. TableShows(table', s')
  BY <1>3, <1>8, <1>13, <1>15 DEF TableShows
<1> QED
  BY <1>1, <1>2, <1>3, <1>5, <1>6, <1>8, <1>15, <1>16, LoadedStep

LEMMA RefreshControllersOK ==
  ASSUME DevicesIInv, NEW controllers, RefreshControllers(controllers)
  PROVE  DevicesIInv'
<1>1. /\ s' = [s EXCEPT !.controllers = controllers] /\ DOMAIN s = StoreFields /\ StoreOK(s)
      /\ scene' = scene /\ table' = table /\ boot' = boot /\ retry' = retry
      /\ fetches' = fetches /\ write' = write
  BY DEF RefreshControllers, DevicesIInv, StoreOK
<1>2. /\ DOMAIN s' = StoreFields /\ s'.scope = s.scope /\ s'.armed = s.armed
      /\ s'.filter = s.filter /\ s'.status = s.status /\ s'.seq = s.seq /\ s'.applied = s.applied
      /\ s'.request = s.request /\ s'.loaded = s.loaded /\ s'.conf = s.conf
      /\ s'.devices = s.devices /\ s'.owner = s.owner
  BY <1>1 DEF StoreFields
<1>3. StoreOK(s')
  BY <1>1, <1>2 DEF StoreOK, IsTableBusy
<1>4. TableShows(table, s) => TableShows(table, s')
  BY <1>2, SameView, SameTable
<1> QED
  BY <1>1, <1>2, <1>3, <1>4 DEF DevicesIInv, NotLoadedOK

LEMMA HandleFocusOutOK ==
  ASSUME DevicesIInv, ArmedOK(s), NEW o \in Options, HandleFocusOut(o)
  PROVE  DevicesIInv'
<1>1. s.loaded /\ s.armed = o /\ scene' = scene /\ boot' = boot /\ retry' = retry
      /\ s' = [s EXCEPT !.armed = None] /\ table' = RowPainted(s', o)
  BY DEF HandleFocusOut, Reaches, Ready, TableVars
<1>2. /\ StoreOK(s) /\ s.seq \in Nat /\ IsTable(table) /\ TableShows(table, s)
      /\ retry \in {"none", "waiting", "armed"} /\ o # None
  BY <1>1, WhenLoaded, OptionRowsAssumption
<1>3. ~IsTableBusy(s)
  BY <1>1, <1>2 DEF StoreOK
<1>4. StoreOK(s') /\ s'.loaded = s.loaded /\ s'.seq = s.seq /\ IsTable(table') /\ TableShows(table', s')
  BY <1>1, <1>2, <1>3, ArmingDoes
<1> QED
  BY <1>1, <1>2, <1>4, LoadedStep

LEMMA EditStepOK ==
  ASSUME DevicesIInv, s.loaded, NEW conf, s' = Edited(s, conf), NEW id,
         table' \in {Repainted([table EXCEPT !.cache = InvalidateCacheForMutation(@, s, id)], s'),
                     RepaintedAlone(s')},
         scene' = scene, boot' = boot, retry' = retry
  PROVE  DevicesIInv'
<1>1. /\ StoreOK(s) /\ DOMAIN s = StoreFields /\ IsTable(table) /\ table.key = s.scope
      /\ retry \in {"none", "waiting", "armed"}
  BY WhenLoaded
<1>2. StoreOK(s')
  BY <1>1, EditedOK
<1>3. s'.loaded = s.loaded /\ s'.seq = s.seq /\ s'.scope = s.scope
  BY <1>1, EditedDoes
<1>4. IsTable(table') /\ TableShows(table', s')
  BY <1>1, <1>3, EditDoes
<1> QED
  BY <1>1, <1>2, <1>3, <1>4, LoadedStep

LEMMA ToggleOK ==
  ASSUME DevicesIInv, ArmedOK(s), NEW o \in Options, Toggle(o)
  PROVE  DevicesIInv'
<1>1. /\ s.loaded /\ Reaches(o) /\ ~RowOf(o).disabled
      /\ scene' = scene /\ boot' = boot /\ retry' = retry
  BY DEF Toggle, Reaches, Ready, TableVars
<1>2. /\ StoreOK(s) /\ s.seq \in Nat /\ IsTable(table) /\ TableShows(table, s)
      /\ retry \in {"none", "waiting", "armed"}
  BY <1>1, WhenLoaded
<1>3. ASSUME NEW a, a = o \/ (a = None /\ s.armed = o), s' = [s EXCEPT !.armed = a], table' = RowPainted(s', o)
      PROVE  DevicesIInv'
  <2>1. ~IsTableBusy(s)
    BY <1>1, <1>2, LiveRow
  <2>2. StoreOK(s') /\ s'.loaded = s.loaded /\ s'.seq = s.seq /\ IsTable(table') /\ TableShows(table', s')
    BY <1>1, <1>2, <1>3, <2>1, ArmingDoes
  <2> QED
    BY <1>1, <1>2, <2>2, LoadedStep
<1>4. ASSUME NEW conf, Edit(conf) PROVE DevicesIInv'
  <2>1. /\ s' = Edited(s, conf)
        /\ table' = Repainted([table EXCEPT !.cache = InvalidateCacheForMutation(@, s, View(s).id)], s')
    BY <1>4 DEF Edit
  <2> QED
    BY <1>1, <2>1, EditStepOK
<1> QED
  BY <1>3, <1>4 DEF Toggle

LEMMA CommitValueOK ==
  ASSUME DevicesIInv, NEW o \in Options, NEW text \in scene.texts, CommitValue(o, text)
  PROVE  DevicesIInv'
<1>1. /\ s.loaded /\ Reaches(o) /\ ~RowOf(o).locked
      /\ scene' = scene /\ boot' = boot /\ retry' = retry
  BY DEF CommitValue, Reaches, Ready, TableVars
<1>2. /\ StoreOK(s) /\ DOMAIN s = StoreFields /\ s.seq \in Nat /\ IsTable(table) /\ TableShows(table, s)
      /\ table.key = s.scope /\ retry \in {"none", "waiting", "armed"}
  BY <1>1, WhenLoaded
<1> DEFINE conf == ValueCommitTransition(s.conf, o, View(s), text)
           commits == Commits(o, text)
           tab == IF commits
                  THEN Repainted([table EXCEPT !.cache = InvalidateCacheForMutation(@, s, View(s).id)],
                                 Edited(s, conf))
                  ELSE RowPainted(s, o)
<1>3. /\ s' = (IF commits THEN Edited(s, conf) ELSE s)
      /\ table' = [tab EXCEPT !.categories[Catalog[o].category].rows[o].text = text]
  BY DEF CommitValue
<1> HIDE DEF conf, commits
<1>4. StoreOK(s') /\ s'.loaded = s.loaded /\ s'.seq = s.seq
  BY <1>2, <1>3, EditedOK, EditedDoes
<1>5. IsTable(tab) /\ TableShows(tab, s')
  <2>1. CASE ~commits
    <3>1. ~IsTableBusy(s)
      BY <1>1, <1>2, LiveRow
    <3> QED
      BY <1>2, <1>3, <2>1, <3>1, RowAgain
  <2>2. CASE commits
    <3>1. s' = Edited(s, conf) /\ s'.scope = s.scope
      BY <1>2, <1>3, <2>2, EditedDoes
    <3>2. tab = Repainted([table EXCEPT !.cache = InvalidateCacheForMutation(@, s, View(s).id)], s')
      BY <2>2, <3>1
    <3> HIDE DEF tab
    <3> QED
      BY <1>2, <3>1, <3>2, EditDoes
  <2> QED
    BY <2>1, <2>2
<1> HIDE DEF tab
<1>6. text # None
  BY DevicePageAssumption DEF DevicesIInv
<1>7. IsTable(table') /\ TableShows(table', s')
  BY <1>3, <1>5, <1>6, TypingDoes
<1> QED
  BY <1>1, <1>2, <1>4, <1>7, LoadedStep

LEMMA SetCategoriesExpandedOK ==
  ASSUME DevicesIInv, NEW cs, NEW open, SetCategoriesExpanded(cs, open)
  PROVE  DevicesIInv'
<1>1. s.loaded /\ s' = s /\ scene' = scene /\ boot' = boot /\ retry' = retry
  BY DEF SetCategoriesExpanded, Ready, TableVars
<1>2. /\ StoreOK(s) /\ s.seq \in Nat /\ IsTable(table) /\ TableShows(table, s)
      /\ table.key = s.scope /\ retry \in {"none", "waiting", "armed"}
  BY <1>1, WhenLoaded
<1> DEFINE folded == [c \in DOMAIN table.categories |->
                        IF c \in cs THEN Folded(table.categories[c], c, open) ELSE table.categories[c]]
           new == ApplyBusyState(folded, s)
           opened == Put(table.opened, table.key, Openness(folded))
           half == [table EXCEPT !.categories = new]
<1>3. table' = [half EXCEPT !.opened = opened]
  BY DEF SetCategoriesExpanded
<1>4. AreCategories(new) /\ CategoriesShow(new, s)
  BY <1>2, FoldingDoes
<1> HIDE DEF new, opened
<1>5. IsTable(half) /\ half.key = s.scope /\ half.categories = new
  BY <1>2, <1>4, WithCategories
<1> HIDE DEF half
<1>6. IsTable(table') /\ table'.key = s.scope /\ table'.categories = new
  BY <1>3, <1>5, WithOpened
<1>7. TableShows(table', s')
  BY <1>1, <1>4, <1>6 DEF TableShows
<1> QED
  BY <1>1, <1>2, <1>6, <1>7, LoadedStep

LEMMA ChangeFilterOK ==
  ASSUME DevicesIInv, NEW filter \in Filters, ChangeFilter(filter)
  PROVE  DevicesIInv'
<1>1. /\ s.loaded /\ s' = [s EXCEPT !.filter = filter] /\ table' = Repainted(table, s')
      /\ scene' = scene /\ boot' = boot /\ retry' = retry
  BY DEF ChangeFilter, Ready, TableVars
<1>2. /\ StoreOK(s) /\ DOMAIN s = StoreFields /\ s.seq \in Nat /\ IsTable(table)
      /\ table.key = s.scope /\ retry \in {"none", "waiting", "armed"}
  BY <1>1, WhenLoaded
<1>3. /\ DOMAIN s' = StoreFields /\ s'.scope = s.scope /\ s'.armed = s.armed
      /\ s'.filter = filter /\ s'.status = s.status /\ s'.seq = s.seq /\ s'.applied = s.applied
      /\ s'.request = s.request /\ s'.loaded = s.loaded
  BY <1>1, <1>2 DEF StoreFields
<1>4. StoreOK(s')
  <2>1. s'.owner = s.owner
    BY <1>1, <1>2 DEF StoreFields
  <2> QED
    BY <1>1, <1>2, <1>3, <2>1 DEF StoreOK, IsTableBusy
<1>5. IsTable(table') /\ TableShows(table', s')
  BY <1>1, <1>2, <1>3, RepaintedDoes
<1> QED
  BY <1>1, <1>2, <1>3, <1>4, <1>5, LoadedStep

LEMMA ReplaceOK ==
  ASSUME DevicesIInv, NEW conf, Replace(conf)
  PROVE  DevicesIInv'
<1>1. /\ s.loaded /\ s' = Edited(s, conf) /\ table' = RepaintedAlone(s')
      /\ scene' = scene /\ boot' = boot /\ retry' = retry
  BY DEF Replace, Ready, TableVars
<1> QED
  BY <1>1, EditStepOK

LEMMA PersistStartsOK ==
  ASSUME DevicesIInv, PersistStarts
  PROVE  DevicesIInv'
<1>1. /\ s.loaded /\ s' = [s EXCEPT !.status = "persisting"] /\ table' = table
      /\ scene' = scene /\ boot' = boot /\ retry' = retry
  BY DEF PersistStarts
<1>2. StoreOK(s) /\ IsTable(table) /\ TableShows(table, s) /\ retry \in {"none", "waiting", "armed"}
  BY <1>1, WhenLoaded
<1>3. StoreOK(s') /\ s'.loaded = s.loaded /\ s'.seq = s.seq /\ TableShows(table', s')
  BY <1>1, <1>2, StatusOK DEF Statuses
<1> QED
  BY <1>1, <1>2, <1>3, LoadedStep

LEMMA PersistSettlesOK ==
  ASSUME DevicesIInv, NEW failed, PersistSettles(failed)
  PROVE  DevicesIInv'
<1>1. s.loaded /\ scene' = scene /\ boot' = boot /\ retry' = retry
  BY DEF PersistSettles, DevicesIInv, NotLoadedOK
<1>2. /\ StoreOK(s) /\ DOMAIN s = StoreFields /\ s.seq \in Nat /\ IsTable(table) /\ TableShows(table, s)
      /\ table.key = s.scope /\ retry \in {"none", "waiting", "armed"}
  BY <1>1, WhenLoaded
<1>3. CASE failed
  <2>1. /\ s' = [s EXCEPT !.armed = None, !.conf = s.anchor, !.status = "persist-error"]
        /\ table' = RepaintedAlone(s')
    BY <1>3 DEF PersistSettles
  <2>2. /\ DOMAIN s' = StoreFields /\ s'.scope = s.scope /\ s'.armed = None
        /\ s'.filter = s.filter /\ s'.status = "persist-error" /\ s'.seq = s.seq /\ s'.applied = s.applied
        /\ s'.request = s.request /\ s'.loaded = s.loaded
    BY <1>2, <2>1 DEF StoreFields
  <2>3. StoreOK(s')
    BY <1>2, <2>2 DEF StoreOK, Statuses
  <2>4. IsTable(table') /\ TableShows(table', s')
    BY <1>2, <2>1, <2>2, EditDoes
  <2> QED
    BY <1>1, <1>2, <2>2, <2>3, <2>4, LoadedStep
<1>4. CASE ~failed
  <2>1. s' = [s EXCEPT !.anchor = write, !.status = "ready"] /\ table' = table
    BY <1>4 DEF PersistSettles
  <2>2. /\ DOMAIN s' = StoreFields /\ s'.scope = s.scope /\ s'.armed = s.armed
        /\ s'.filter = s.filter /\ s'.status = "ready" /\ s'.seq = s.seq /\ s'.applied = s.applied
        /\ s'.request = s.request /\ s'.loaded = s.loaded /\ s'.conf = s.conf
        /\ s'.devices = s.devices /\ s'.owner = s.owner
    BY <1>2, <2>1 DEF StoreFields
  <2>3. StoreOK(s')
    BY <1>2, <2>2 DEF StoreOK, Statuses, IsTableBusy
  <2>4. TableShows(table', s')
    BY <1>2, <2>1, <2>2, SameView, SameTable
  <2> QED
    BY <1>1, <1>2, <2>1, <2>2, <2>3, <2>4, LoadedStep
<1> QED
  BY <1>3, <1>4

-----------------------------------------------------------------------------
(* The status panel. *)

PanelFields == {"viewed", "linkLost", "pending", "deviceState", "highestToken", "generation", "shown"}

\* A momentary value is that of its row, and only such rows have timers.
IsEntry(e) ==
  /\ DOMAIN e = {"status", "message", "rows", "values", "latched"}
  /\ \A r \in e.latched : Latch[r] # Nothing /\ (r \in e.rows => Value(e, r) = Latch[r])

EntriesOK(p) == \A d \in DOMAIN p.deviceState : IsEntry(p.deviceState[d])

\* What is shown is what the panel would build for the device in view.
ShownOK(p) == p.shown = IF p.viewed = Nothing THEN Nothing ELSE BuildPanel(p, p.viewed)

PanelOK(p) == DOMAIN p = PanelFields /\ EntriesOK(p) /\ ShownOK(p)

\* What the watchdog, the overlay and the grid leave alone.
SameTokens(p, q) == q.generation = p.generation /\ q.highestToken = p.highestToken

LEMMA ConnectingIsEntry == IsEntry(Connecting)
BY DEF IsEntry, Connecting

LEMMA EntryForOK ==
  ASSUME NEW p, EntriesOK(p), NEW d
  PROVE  IsEntry(EntryFor(p, d))
BY ConnectingIsEntry DEF EntriesOK, EntryFor

LEMMA SameBuild ==
  ASSUME NEW p, NEW q, NEW d, p.linkLost = q.linkLost, EntryFor(p, d) = EntryFor(q, d)
  PROVE  BuildPanel(p, d) = BuildPanel(q, d)
BY DEF BuildPanel

LEMMA SameEntry ==
  ASSUME NEW p, NEW q, NEW d, p.deviceState = q.deviceState
  PROVE  EntryFor(p, d) = EntryFor(q, d)
BY DEF EntryFor

LEMMA RefreshDoes ==
  ASSUME NEW p, DOMAIN p = PanelFields, EntriesOK(p), p.viewed = Nothing => p.shown = Nothing
  PROVE  PanelOK(RefreshPanel(p)) /\ SameTokens(p, RefreshPanel(p))
<1>1. CASE p.viewed = Nothing
  BY <1>1 DEF RefreshPanel, PanelOK, ShownOK, SameTokens
<1>2. CASE p.viewed # Nothing
  <2> DEFINE b == BuildPanel(p, p.viewed)
             q == [p EXCEPT !.shown = b]
  <2>1. RefreshPanel(p) = q
    BY <1>2 DEF RefreshPanel
  <2>2. DOMAIN q = PanelFields /\ q.viewed = p.viewed /\ q.linkLost = p.linkLost /\ q.shown = b
          /\ q.deviceState = p.deviceState /\ q.generation = p.generation /\ q.highestToken = p.highestToken
    BY DEF PanelFields
  <2> HIDE DEF q
  <2>3. BuildPanel(q, q.viewed) = b
    BY <2>2, SameEntry, SameBuild
  <2> HIDE DEF b
  <2> QED
    BY <1>2, <2>1, <2>2, <2>3 DEF PanelOK, ShownOK, EntriesOK, SameTokens
<1> QED
  BY <1>1, <1>2

LEMMA RenderDoes ==
  ASSUME NEW p, DOMAIN p = PanelFields, EntriesOK(p), p.viewed = Nothing => p.shown = Nothing
  PROVE  PanelOK(RenderPanel(p)) /\ SameTokens(p, RenderPanel(p))
<1> DEFINE q == [p EXCEPT !.linkLost = FALSE]
<1>1. DOMAIN q = PanelFields /\ q.viewed = p.viewed /\ q.shown = p.shown
        /\ q.deviceState = p.deviceState /\ q.generation = p.generation /\ q.highestToken = p.highestToken
  BY DEF PanelFields
<1>2. RenderPanel(p) = RefreshPanel(q)
  BY DEF RenderPanel
<1> HIDE DEF q
<1>3. EntriesOK(q)
  BY <1>1 DEF EntriesOK
<1> QED
  BY <1>1, <1>2, <1>3, RefreshDoes DEF SameTokens

LEMMA WithPending ==
  ASSUME NEW p, PanelOK(p), NEW b
  PROVE  LET q == [p EXCEPT !.pending = b]
         IN  PanelOK(q) /\ SameTokens(p, q) /\ q.viewed = p.viewed
<1> DEFINE q == [p EXCEPT !.pending = b]
<1>1. DOMAIN q = PanelFields /\ q.viewed = p.viewed /\ q.linkLost = p.linkLost /\ q.shown = p.shown
        /\ q.deviceState = p.deviceState /\ q.generation = p.generation /\ q.highestToken = p.highestToken
  BY DEF PanelFields, PanelOK
<1> HIDE DEF q
<1>2. BuildPanel(q, q.viewed) = BuildPanel(p, p.viewed)
  BY <1>1, SameEntry, SameBuild
<1> QED
  BY <1>1, <1>2 DEF PanelOK, ShownOK, EntriesOK, SameTokens, q

-----------------------------------------------------------------------------
(* What an event does to its device. *)

LEMMA KindFacts ==
  ASSUME NEW what \in Kinds
  PROVE  /\ what.kind \in {"connecting", "error", "availability", "row", "snapshot"}
         /\ what.kind = "row" => what.row \in Rows /\ what.value \in Values
         /\ what.kind = "snapshot" => what.values \in [DOMAIN what.values -> Values]
BY DEF Kinds

LEMMA StatusKeeps ==
  ASSUME NEW e, IsEntry(e), NEW x
  PROVE  LET n == [e EXCEPT !.status = x]
         IN  IsEntry(n) /\ n.status = x /\ n.message = e.message /\ n.rows = e.rows
             /\ n.values = e.values /\ n.latched = e.latched
BY DEF IsEntry, Value

LEMMA RowEventDoes ==
  ASSUME NEW e, IsEntry(e), NEW r, NEW v \in Values
  PROVE  LET n == ApplyLatch([e EXCEPT !.values = Put(@, r, v)], r, v)
         IN  IsEntry(n) /\ n.status = e.status /\ n.message = e.message /\ n.rows = e.rows
             /\ n.values = Put(e.values, r, v)
<1> DEFINE h == [e EXCEPT !.values = Put(e.values, r, v)]
           n == ApplyLatch(h, r, v)
<1>1. DOMAIN h = DOMAIN e /\ h.status = e.status /\ h.message = e.message /\ h.rows = e.rows
        /\ h.latched = e.latched /\ h.values = Put(e.values, r, v)
  BY DEF IsEntry
<1>2. h = [e EXCEPT !.values = Put(@, r, v)]
  OBVIOUS
<1> HIDE DEF h
<1> DEFINE latched == IF v = Latch[r] THEN h.latched \cup {r} ELSE h.latched \ {r}
<1>3. n = IF r \notin h.rows \/ Latch[r] = Nothing THEN h ELSE [h EXCEPT !.latched = latched]
  BY DEF ApplyLatch
<1>4. /\ DOMAIN n = DOMAIN e /\ n.status = e.status /\ n.message = e.message /\ n.rows = e.rows
      /\ n.values = h.values
      /\ n.latched = IF r \notin h.rows \/ Latch[r] = Nothing THEN h.latched ELSE latched
  BY <1>1, <1>3 DEF IsEntry
<1> HIDE DEF n
<1>5. Value(n, r) = v /\ \A j : j # r => Value(n, j) = Value(e, j)
  BY <1>1, <1>4 DEF Value, Put
<1>6. IsEntry(n)
  BY <1>1, <1>4, <1>5 DEF IsEntry
<1> QED
  BY <1>1, <1>2, <1>4, <1>6 DEF n

LEMMA SnapshotIsEntry ==
  ASSUME NEW e, IsEntry(e), NEW ev, ev.values \in [DOMAIN ev.values -> Values]
  PROVE  IsEntry([status  |-> "connected", message |-> Nothing,
                  rows    |-> DOMAIN ev.values, values |-> ev.values,
                  latched |-> {r \in e.latched : r \notin DOMAIN ev.values \/ Latch[r] = Nothing}
                                \cup {r \in DOMAIN ev.values : ev.values[r] = Latch[r]}])
<1> DEFINE kept == {r \in e.latched : r \notin DOMAIN ev.values \/ Latch[r] = Nothing}
           set  == {r \in DOMAIN ev.values : ev.values[r] = Latch[r]}
           n    == [status |-> "connected", message |-> Nothing, rows |-> DOMAIN ev.values,
                    values |-> ev.values, latched |-> kept \cup set]
<1>1. /\ DOMAIN n = {"status", "message", "rows", "values", "latched"}
      /\ n.rows = DOMAIN ev.values /\ n.values = ev.values /\ n.latched = kept \cup set
  OBVIOUS
<1>2. \A r \in kept : Latch[r] # Nothing /\ r \notin DOMAIN ev.values
  BY DEF IsEntry
<1>3. \A r \in set : Latch[r] # Nothing /\ ev.values[r] = Latch[r]
  BY StatusPanelAssumption
<1> HIDE DEF n, kept, set
<1>4. IsEntry(n)
  BY <1>1, <1>2, <1>3 DEF IsEntry, Value
<1> QED
  BY <1>4 DEF n, kept, set

LEMMA ReducedIsEntry ==
  ASSUME NEW e, IsEntry(e), NEW what \in Kinds
  PROVE  IsEntry(Reduced(e, what))
<1>1. CASE what.kind = "connecting"
  BY <1>1, StatusKeeps DEF Reduced
<1>2. CASE what.kind = "availability"
  BY <1>2, StatusKeeps DEF Reduced
<1>3. CASE what.kind = "error"
  BY <1>3 DEF Reduced, IsEntry, Value
<1>4. CASE what.kind = "row"
  <2>1. Reduced(e, what) = ApplyLatch([e EXCEPT !.values = Put(@, what.row, what.value)], what.row, what.value)
    BY <1>4 DEF Reduced
  <2> QED
    BY <1>4, <2>1, KindFacts, RowEventDoes
<1>5. CASE what.kind = "snapshot"
  <2>1. what.values \in [DOMAIN what.values -> Values]
    BY <1>5, KindFacts
  <2> QED
    BY <1>5, <2>1, SnapshotIsEntry DEF Reduced
<1> QED
  BY <1>1, <1>2, <1>3, <1>4, <1>5, KindFacts

-----------------------------------------------------------------------------
(* What an event renders. *)

Grid(a, b, c) == [status |-> a, message |-> b, cells |-> c]

LEMMA GridStatus ==
  ASSUME NEW a, NEW b, NEW c, NEW x
  PROVE  [Grid(a, b, c) EXCEPT !.status = x] = Grid(x, b, c)
BY DEF Grid

LEMMA GridCells ==
  ASSUME NEW a, NEW b, NEW c, NEW x
  PROVE  [Grid(a, b, c) EXCEPT !.cells = x] = Grid(a, b, x) /\ Grid(a, b, c).cells = c
BY DEF Grid

\* The span of the status alone.
LEMMA RenderStatusDoes ==
  ASSUME NEW p, NEW q, PanelOK(p), DOMAIN q = PanelFields, EntriesOK(q), p.viewed # Nothing,
         q.viewed = p.viewed, q.linkLost = p.linkLost, q.shown = p.shown,
         LET e == EntryFor(p, p.viewed)
             n == EntryFor(q, p.viewed)
         IN  n.message = e.message /\ n.rows = e.rows /\ n.values = e.values
  PROVE  PanelOK(RenderStatus(q)) /\ SameTokens(q, RenderStatus(q))
<1> DEFINE d == p.viewed
           e == EntryFor(p, d)
           n == EntryFor(q, d)
<1>1. CASE q.linkLost
  <2>1. RenderStatus(q) = RenderPanel(q)
    BY <1>1 DEF RenderStatus
  <2> QED
    BY <2>1, RenderDoes
<1>2. CASE ~q.linkLost
  <2> DEFINE cells == [r \in e.rows |-> Value(e, r)]
             new == [q.shown EXCEPT !.status = n.status]
             w == [q EXCEPT !.shown = new]
  <2>1. q.shown = Grid(e.status, e.message, cells)
    BY <1>2 DEF PanelOK, ShownOK, BuildPanel, Grid
  <2>2. BuildPanel(q, d) = Grid(n.status, n.message, [r \in n.rows |-> Value(n, r)])
    BY <1>2 DEF BuildPanel, Grid
  <2>3. [r \in n.rows |-> Value(n, r)] = cells
    BY DEF Value
  <2>4. BuildPanel(q, d) = new
    <3> HIDE DEF cells, e, n
    <3>1. n.message = e.message
      BY DEF e, n
    <3>2. new = Grid(n.status, e.message, cells)
      BY <2>1, GridStatus
    <3> QED
      BY <2>2, <2>3, <3>1, <3>2
  <2>5. RenderStatus(q) = w
    BY <1>2 DEF RenderStatus
  <2> HIDE DEF new, cells, e, n
  <2>6. DOMAIN w = PanelFields /\ w.viewed = d /\ w.linkLost = q.linkLost /\ w.shown = new
          /\ w.deviceState = q.deviceState /\ w.generation = q.generation /\ w.highestToken = q.highestToken
    BY DEF PanelFields
  <2> HIDE DEF w
  <2>7. BuildPanel(w, d) = BuildPanel(q, d)
    BY <2>6, SameEntry, SameBuild
  <2> QED
    BY <2>4, <2>5, <2>6, <2>7 DEF PanelOK, ShownOK, EntriesOK, SameTokens
<1> QED
  BY <1>1, <1>2

\* The cell of one row alone.
LEMMA RenderRowDoes ==
  ASSUME NEW p, NEW q, PanelOK(p), DOMAIN q = PanelFields, EntriesOK(q), p.viewed # Nothing,
         q.viewed = p.viewed, q.linkLost = p.linkLost, q.shown = p.shown, NEW r,
         LET e == EntryFor(p, p.viewed)
             n == EntryFor(q, p.viewed)
         IN  /\ n.message = e.message /\ n.rows = e.rows /\ n.status = e.status
             /\ \A j \in e.rows : j # r => Value(n, j) = Value(e, j),
         NEW w, w = IF r \in DOMAIN q.shown.cells
                    THEN [q EXCEPT !.shown.cells[r] = Value(EntryFor(q, q.viewed), r)] ELSE q
  PROVE  PanelOK(w) /\ SameTokens(q, w)
<1> DEFINE d == p.viewed
           e == EntryFor(p, d)
           n == EntryFor(q, d)
           a == IF q.linkLost THEN "link lost" ELSE e.status
           b == IF q.linkLost THEN "link lost" ELSE e.message
           old == [j \in e.rows |-> Value(e, j)]
           cells == [j \in n.rows |-> Value(n, j)]
<1>1. q.shown = Grid(a, b, old)
  BY DEF PanelOK, ShownOK, BuildPanel, Grid
<1>2. BuildPanel(q, d) = Grid(a, b, cells)
  BY DEF BuildPanel, Grid
<1>3. r \in DOMAIN old => cells = [old EXCEPT ![r] = Value(n, r)]
  <2> SUFFICES ASSUME r \in e.rows PROVE cells = [old EXCEPT ![r] = Value(n, r)]
    OBVIOUS
  <2> DEFINE new == [old EXCEPT ![r] = Value(n, r)]
  <2>1. \A j \in e.rows : j # r => Value(n, j) = Value(e, j)
    OBVIOUS
  <2>2. n.rows = e.rows
    OBVIOUS
  <2> HIDE DEF n, e
  <2>3. new = [j \in e.rows |-> IF j = r THEN Value(n, r) ELSE Value(e, j)]
    OBVIOUS
  <2> QED
    BY <2>1, <2>2, <2>3
<1>4. r \notin DOMAIN old => cells = old
  <2>1. \A j \in e.rows : j # r => Value(n, j) = Value(e, j)
    OBVIOUS
  <2>2. n.rows = e.rows
    OBVIOUS
  <2> HIDE DEF n, e
  <2> QED
    BY <2>1, <2>2
<1> HIDE DEF a, b, old, cells
<1>5. q.shown.cells = old
  BY <1>1, GridCells
<1>6. CASE r \in DOMAIN old
  <2> DEFINE v == Value(n, r)
             c == [old EXCEPT ![r] = v]
             new == [q.shown EXCEPT !.cells = c]
             x == [q EXCEPT !.shown = new]
  <2>1. w = [q EXCEPT !.shown.cells[r] = v]
    BY <1>5, <1>6
  <2> HIDE DEF n
  <2>2. w = [q EXCEPT !.shown = [q.shown EXCEPT !.cells = [q.shown.cells EXCEPT ![r] = v]]]
    BY <2>1
  <2>3. w = x
    BY <1>5, <2>2
  <2>4. new = BuildPanel(q, d)
    <3>1. new = Grid(a, b, c)
      BY <1>1, GridCells
    <3> QED
      BY <1>2, <1>3, <1>6, <3>1
  <2> HIDE DEF new, c, v
  <2>6. DOMAIN x = PanelFields /\ x.viewed = d /\ x.linkLost = q.linkLost /\ x.shown = new
          /\ x.deviceState = q.deviceState /\ x.generation = q.generation /\ x.highestToken = q.highestToken
    BY DEF PanelFields
  <2> HIDE DEF x
  <2>7. BuildPanel(x, d) = BuildPanel(q, d)
    BY <2>6, SameEntry, SameBuild
  <2> QED
    BY <2>3, <2>4, <2>6, <2>7 DEF PanelOK, ShownOK, EntriesOK, SameTokens
<1>7. CASE r \notin DOMAIN old
  <2>1. w = q
    BY <1>5, <1>7
  <2>2. q.shown = BuildPanel(q, d)
    BY <1>1, <1>2, <1>4, <1>7
  <2> QED
    BY <2>1, <2>2 DEF PanelOK, ShownOK, SameTokens
<1> QED
  BY <1>6, <1>7

-----------------------------------------------------------------------------
(* Messages. *)

HostFields == {"alive", "generation", "session", "wire", "pushed", "requests", "asked", "owed"}

Message ==
  [kind : {"hello"}, generation : Nat]
    \cup [kind : {"device"}, device : Devices, session : Nat, what : Kinds]

\* A message on the wire is of the helper that is there, and of a session it
\* has come to.
MessageOK(m, h) ==
  IF m.kind = "hello" THEN m.generation = h.generation ELSE m.session <= h.session[m.device]

HostOK(h) ==
  /\ DOMAIN h = HostFields
  /\ h.generation \in Nat /\ h.session \in [Devices -> Nat] /\ h.wire \in Seq(Message)
  /\ \A i \in 1..Len(h.wire) : MessageOK(h.wire[i], h)

\* No token the panel keeps is ahead of the helper it came from.
TokensOK(p, h) ==
  /\ p.generation \in Nat /\ p.generation <= h.generation
  /\ \A d \in DOMAIN p.highestToken : d \in Devices /\ p.highestToken[d] \in Nat
  /\ p.generation = h.generation =>
       \A d \in DOMAIN p.highestToken : p.highestToken[d] <= h.session[d]

LEMMA MessageFacts ==
  ASSUME NEW m \in Message
  PROVE  /\ m.kind = "hello" => m.generation \in Nat
         /\ m.kind # "hello" => m.device \in Devices /\ m.session \in Nat /\ m.what \in Kinds
BY DEF Message

LEMMA TokensStay ==
  ASSUME NEW p, NEW h, TokensOK(p, h), NEW q, SameTokens(p, q)
  PROVE  TokensOK(q, h)
BY DEF TokensOK, SameTokens

LEMMA ReducedKeeps ==
  ASSUME NEW e, IsEntry(e), NEW what \in Kinds
  PROVE  /\ what.kind \in {"connecting", "availability"} =>
              /\ Reduced(e, what).message = e.message /\ Reduced(e, what).rows = e.rows
              /\ Reduced(e, what).values = e.values
         /\ what.kind = "row" =>
              /\ Reduced(e, what).message = e.message /\ Reduced(e, what).rows = e.rows
              /\ Reduced(e, what).status = e.status
              /\ \A j : j # what.row => Value(Reduced(e, what), j) = Value(e, j)
<1>1. CASE what.kind \in {"connecting", "availability"}
  BY <1>1, StatusKeeps DEF Reduced
<1>2. CASE what.kind = "row"
  <2> DEFINE n == Reduced(e, what)
  <2>1. n = ApplyLatch([e EXCEPT !.values = Put(@, what.row, what.value)], what.row, what.value)
    BY <1>2 DEF Reduced
  <2>2. /\ n.status = e.status /\ n.message = e.message /\ n.rows = e.rows
        /\ n.values = Put(e.values, what.row, what.value)
    BY <1>2, <2>1, KindFacts, RowEventDoes
  <2> HIDE DEF n
  <2>3. \A j : j # what.row => Value(n, j) = Value(e, j)
    BY <2>2 DEF Value, Put
  <2> QED
    BY <1>2, <2>2, <2>3 DEF n
<1> QED
  BY <1>1, <1>2

LEMMA DeviceEventDoes ==
  ASSUME NEW p, PanelOK(p), NEW h, HostOK(h), TokensOK(p, h),
         NEW m \in Message, m.kind # "hello", MessageOK(m, h)
  PROVE  PanelOK(HandleDeviceEvent(p, m)) /\ TokensOK(HandleDeviceEvent(p, m), h)
<1> DEFINE d == m.device
           e == EntryFor(p, d)
           n == Reduced(e, m.what)
           q == [p EXCEPT !.highestToken = Put(@, d, m.session), !.deviceState = Put(@, d, n)]
<1>1. d \in Devices /\ m.session \in Nat /\ m.what \in Kinds /\ d # Nothing
  BY MessageFacts, StatusPanelAssumption
<1>2. CASE d \in DOMAIN p.highestToken /\ m.session < p.highestToken[d]
  <2>1. HandleDeviceEvent(p, m) = p
    BY <1>2 DEF HandleDeviceEvent
  <2> QED
    BY <2>1
<1>3. CASE ~(d \in DOMAIN p.highestToken /\ m.session < p.highestToken[d])
  <2>1. HandleDeviceEvent(p, m) = Rendered(q, m)
    BY <1>3 DEF HandleDeviceEvent
  <2>2. IsEntry(e) /\ IsEntry(n)
    BY <1>1, EntryForOK, ReducedIsEntry DEF PanelOK
  <2>3. /\ m.what.kind \in {"connecting", "availability"} =>
             n.message = e.message /\ n.rows = e.rows /\ n.values = e.values
        /\ m.what.kind = "row" =>
             /\ n.message = e.message /\ n.rows = e.rows /\ n.status = e.status
             /\ \A j : j # m.what.row => Value(n, j) = Value(e, j)
    BY <1>1, <2>2, ReducedKeeps
  <2> HIDE DEF n
  <2>4. /\ DOMAIN q = PanelFields /\ q.viewed = p.viewed /\ q.linkLost = p.linkLost /\ q.shown = p.shown
        /\ q.deviceState = Put(p.deviceState, d, n) /\ q.generation = p.generation
        /\ q.highestToken = Put(p.highestToken, d, m.session)
    BY DEF PanelOK, PanelFields
  <2> HIDE DEF q
  <2>5. EntriesOK(q)
    BY <2>2, <2>4 DEF EntriesOK, PanelOK, Put
  <2>6. EntryFor(q, d) = n /\ \A j : j # d => EntryFor(q, j) = EntryFor(p, j)
    BY <2>4 DEF EntryFor, Put
  <2>7. TokensOK(q, h)
    <3>1. m.session <= h.session[d] /\ h.session[d] \in Nat
      BY <1>1 DEF MessageOK, HostOK
    <3> QED
      BY <1>1, <2>4, <3>1 DEF TokensOK, Put
  <2>8. CASE q.viewed # d
    <3>1. Rendered(q, m) = q
      BY <2>8 DEF Rendered
    <3>2. BuildPanel(q, q.viewed) = BuildPanel(p, p.viewed)
      BY <2>4, <2>6, <2>8, SameBuild
    <3> QED
      BY <2>1, <2>4, <2>5, <2>7, <3>1, <3>2 DEF PanelOK, ShownOK
  <2>9. CASE q.viewed = d
    <3>1. q.viewed = Nothing => q.shown = Nothing
      BY <1>1, <2>9
    <3>2. PanelOK(Rendered(q, m)) /\ SameTokens(q, Rendered(q, m))
      <4>1. CASE m.what.kind \in {"connecting", "availability"}
        <5>1. Rendered(q, m) = RenderStatus(q)
          BY <2>9, <4>1 DEF Rendered
        <5>2. LET a == EntryFor(p, p.viewed)
                  b == EntryFor(q, p.viewed)
              IN  b.message = a.message /\ b.rows = a.rows /\ b.values = a.values
          BY <2>3, <2>4, <2>6, <2>9, <4>1
        <5> QED
          BY <1>1, <2>4, <2>5, <2>9, <5>1, <5>2, RenderStatusDoes
      <4>2. CASE m.what.kind = "row"
        <5>1. Rendered(q, m) = RenderRow(q, m.what.row)
          BY <2>9, <4>2 DEF Rendered
        <5>2. LET a == EntryFor(p, p.viewed)
                  b == EntryFor(q, p.viewed)
              IN  /\ b.message = a.message /\ b.rows = a.rows /\ b.status = a.status
                  /\ \A j \in a.rows : j # m.what.row => Value(b, j) = Value(a, j)
          BY <2>3, <2>4, <2>6, <2>9, <4>2
        <5>3. CASE q.linkLost
          BY <2>4, <2>5, <3>1, <5>1, <5>3, RenderDoes DEF RenderRow
        <5>4. CASE ~q.linkLost
          <6> DEFINE r == m.what.row
                     w == RenderRow(q, r)
          <6>1. w = IF r \in DOMAIN q.shown.cells
                    THEN [q EXCEPT !.shown.cells[r] = Value(EntryFor(q, q.viewed), r)] ELSE q
            BY <5>4 DEF RenderRow
          <6>2. LET a == EntryFor(p, p.viewed)
                    b == EntryFor(q, p.viewed)
                IN  /\ b.message = a.message /\ b.rows = a.rows /\ b.status = a.status
                    /\ \A j \in a.rows : j # r => Value(b, j) = Value(a, j)
            BY <5>2
          <6> HIDE DEF w, r
          <6>3. PanelOK(w) /\ SameTokens(q, w)
            BY <1>1, <2>4, <2>5, <2>9, <6>1, <6>2, RenderRowDoes
          <6> QED
            BY <5>1, <6>3 DEF w, r
        <5> QED
          BY <5>3, <5>4
      <4>3. CASE m.what.kind \notin {"connecting", "availability", "row"}
        <5>1. Rendered(q, m) = RenderPanel(q)
          BY <2>9, <4>3 DEF Rendered
        <5> QED
          BY <2>4, <2>5, <3>1, <5>1, RenderDoes
      <4> QED
        BY <4>1, <4>2, <4>3
    <3> QED
      BY <2>1, <2>7, <3>2, TokensStay
  <2> QED
    BY <2>8, <2>9
<1> QED
  BY <1>2, <1>3

LEMMA RestoreDoes ==
  ASSUME NEW p, PanelOK(p)
  PROVE  PanelOK(RestoreFromLinkLost(p)) /\ SameTokens(p, RestoreFromLinkLost(p))
<1>1. CASE ~p.linkLost
  BY <1>1 DEF RestoreFromLinkLost, SameTokens
<1>2. CASE p.linkLost
  <2> DEFINE quiet(e) == [e EXCEPT !.message = Nothing, !.status = "connecting"]
             state == [d \in DOMAIN p.deviceState |->
                         IF d = p.viewed THEN quiet(p.deviceState[d]) ELSE p.deviceState[d]]
             q == [p EXCEPT !.deviceState = state]
  <2>1. RestoreFromLinkLost(p) = RenderPanel(q)
    BY <1>2 DEF RestoreFromLinkLost
  <2>2. \A e : IsEntry(e) => IsEntry(quiet(e))
    BY DEF IsEntry, Value
  <2> HIDE DEF quiet
  <2>3. \A d \in DOMAIN state : IsEntry(state[d])
    BY <2>2 DEF PanelOK, EntriesOK
  <2> HIDE DEF state
  <2>4. /\ DOMAIN q = PanelFields /\ q.viewed = p.viewed /\ q.shown = p.shown /\ q.deviceState = state
        /\ q.generation = p.generation /\ q.highestToken = p.highestToken
    BY DEF PanelOK, PanelFields
  <2> HIDE DEF q
  <2>5. EntriesOK(q) /\ (q.viewed = Nothing => q.shown = Nothing)
    BY <2>3, <2>4 DEF EntriesOK, PanelOK, ShownOK
  <2> QED
    BY <2>1, <2>4, <2>5, RenderDoes DEF SameTokens
<1> QED
  BY <1>1, <1>2

LEMMA HelloDoes ==
  ASSUME NEW p, PanelOK(p), NEW h, HostOK(h), TokensOK(p, h)
  PROVE  PanelOK(HandleHello(p, h.generation)) /\ TokensOK(HandleHello(p, h.generation), h)
<1>1. CASE h.generation = p.generation
  BY <1>1 DEF HandleHello
<1>2. CASE h.generation # p.generation
  <2> DEFINE q == [p EXCEPT !.generation = h.generation, !.highestToken = <<>>]
  <2>1. HandleHello(p, h.generation) = RestoreFromLinkLost(q)
    BY <1>2 DEF HandleHello
  <2>2. /\ DOMAIN q = PanelFields /\ q.viewed = p.viewed /\ q.shown = p.shown /\ q.linkLost = p.linkLost
        /\ q.deviceState = p.deviceState /\ q.generation = h.generation /\ q.highestToken = <<>>
    BY DEF PanelOK, PanelFields
  <2> HIDE DEF q
  <2>3. BuildPanel(q, q.viewed) = BuildPanel(p, p.viewed)
    BY <2>2, SameEntry, SameBuild
  <2>4. PanelOK(q)
    BY <2>2, <2>3 DEF PanelOK, ShownOK, EntriesOK
  <2>5. TokensOK(q, h)
    BY <2>2 DEF TokensOK, HostOK
  <2> QED
    BY <2>1, <2>4, <2>5, RestoreDoes, TokensStay
<1> QED
  BY <1>1, <1>2

LEMMA StatusEventDoes ==
  ASSUME PanelOK(panel), HostOK(host), TokensOK(panel, host), NEW m \in Message, MessageOK(m, host)
  PROVE  PanelOK(HandleStatusEvent(m)) /\ TokensOK(HandleStatusEvent(m), host)
<1> DEFINE p == Cancel(panel)
<1>1. PanelOK(p) /\ TokensOK(p, host)
  BY WithPending, TokensStay DEF Cancel
<1>2. CASE m.kind = "hello"
  <2>1. HandleStatusEvent(m) = HandleHello(p, host.generation)
    BY <1>2 DEF HandleStatusEvent, MessageOK
  <2> HIDE DEF p
  <2> QED
    BY <1>1, <2>1, HelloDoes
<1>3. CASE m.kind # "hello"
  <2>1. HandleStatusEvent(m) = HandleDeviceEvent(p, m)
    BY <1>3 DEF HandleStatusEvent
  <2> HIDE DEF p
  <2> QED
    BY <1>1, <1>3, <2>1, DeviceEventDoes
<1> QED
  BY <1>2, <1>3

-----------------------------------------------------------------------------
(* The steps of the panel. *)

\* The panel, the helper and the messages between them.
PanelIInv == PanelOK(panel) /\ HostOK(host) /\ TokensOK(panel, host)

LEMMA HostKeeps ==
  ASSUME NEW h, HostOK(h), NEW k, DOMAIN k = HostFields, k.generation = h.generation,
         k.session = h.session, k.wire \in {h.wire, <<>>}
  PROVE  HostOK(k) /\ \A p : TokensOK(p, h) => TokensOK(p, k)
<1>1. /\ h.generation \in Nat /\ h.session \in [Devices -> Nat] /\ h.wire \in Seq(Message)
      /\ \A i \in 1..Len(h.wire) : MessageOK(h.wire[i], h)
  BY DEF HostOK
<1>2. k.wire \in Seq(Message)
  <2>1. << >> \in Seq(Message)
    OBVIOUS
  <2> QED
    BY <1>1, <2>1
<1>3. \A i \in 1..Len(k.wire) : MessageOK(k.wire[i], k)
  BY <1>1 DEF MessageOK
<1>4. HostOK(k)
  BY <1>1, <1>2, <1>3 DEF HostOK
<1>5. \A p : TokensOK(p, h) => TokensOK(p, k)
  BY DEF TokensOK
<1> QED
  BY <1>4, <1>5

LEMMA AskedDoes ==
  ASSUME NEW h, HostOK(h)
  PROVE  HostOK(Asked(h)) /\ \A p : TokensOK(p, h) => TokensOK(p, Asked(h))
<1> DEFINE k == Asked(h)
<1>1. DOMAIN k = HostFields /\ k.generation = h.generation /\ k.session = h.session /\ k.wire = h.wire
  BY DEF Asked, HostOK, HostFields
<1> HIDE DEF k
<1> QED
  BY <1>1, HostKeeps DEF k

LEMMA NewHelperDoes ==
  ASSUME NEW g \in Nat
  PROVE  /\ HostOK(NewHelper(g)) /\ NewHelper(g).generation = g
         /\ DOMAIN NewHelper(g) = HostFields
<1> DEFINE h == NewHelper(g)
           hello == [kind |-> "hello", generation |-> g]
<1>1. DOMAIN h = HostFields /\ h.generation = g /\ h.session = [d \in Devices |-> 1] /\ h.wire = <<hello>>
  BY DEF NewHelper, HostFields
<1>2. hello \in Message /\ hello.kind = "hello" /\ hello.generation = g
  BY DEF Message
<1> HIDE DEF h, hello
<1>3. h.wire \in Seq(Message) /\ \A i \in 1..Len(h.wire) : h.wire[i] = hello
  BY <1>1, <1>2
<1>4. HostOK(h)
  BY <1>1, <1>2, <1>3 DEF HostOK, MessageOK
<1> QED
  BY <1>1, <1>4 DEF h

LEMMA MountedPanelOK == PanelOK(MountStatusPanel) /\ \A h : HostOK(h) => TokensOK(MountStatusPanel, h)
<1> DEFINE p == MountStatusPanel
<1>1. /\ DOMAIN p = PanelFields /\ p.viewed = Nothing /\ p.shown = Nothing /\ p.deviceState = <<>>
      /\ p.highestToken = <<>> /\ p.generation = 0
  BY DEF MountStatusPanel, PanelFields
<1> HIDE DEF p
<1>2. PanelOK(p) /\ \A h : HostOK(h) => TokensOK(p, h)
  BY <1>1 DEF PanelOK, EntriesOK, ShownOK, TokensOK, HostOK
<1> QED
  BY <1>2 DEF p

LEMMA PanelStart == Init => PanelIInv
BY NewHelperDoes, MountedPanelOK DEF Init, PanelIInv


LEMMA ShowDetailsOK ==
  ASSUME PanelIInv, NEW d, ShowDetails(d)
  PROVE  PanelIInv'
<1>1. PanelOK(panel) /\ HostOK(host) /\ TokensOK(panel, host) /\ DOMAIN panel = PanelFields
  BY DEF PanelIInv, PanelOK
<1>2. CASE /\ panel' = [Cancel(panel) EXCEPT !.viewed = Nothing, !.linkLost = FALSE, !.shown = Nothing]
           /\ UNCHANGED host
  <2> DEFINE q == [Cancel(panel) EXCEPT !.viewed = Nothing, !.linkLost = FALSE, !.shown = Nothing]
  <2>1. /\ DOMAIN q = PanelFields /\ q.viewed = Nothing /\ q.shown = Nothing
        /\ q.deviceState = panel.deviceState /\ q.generation = panel.generation
        /\ q.highestToken = panel.highestToken
    BY <1>1 DEF Cancel, PanelFields
  <2> HIDE DEF q
  <2>2. PanelOK(q) /\ SameTokens(panel, q)
    BY <1>1, <2>1 DEF PanelOK, ShownOK, EntriesOK, SameTokens
  <2>3. panel' = q /\ host' = host
    BY <1>2 DEF q
  <2> QED
    BY <1>1, <2>2, <2>3, TokensStay DEF PanelIInv
<1>3. CASE panel' = RefreshPanel(panel) /\ UNCHANGED host
  <2>1. PanelOK(RefreshPanel(panel)) /\ SameTokens(panel, RefreshPanel(panel))
    BY <1>1, RefreshDoes DEF PanelOK, ShownOK
  <2> QED
    BY <1>1, <1>3, <2>1, TokensStay DEF PanelIInv
<1>4. CASE d # Nothing /\ panel' = RefreshPanel(ViewAnother(panel, d)) /\ host' = Asked(host)
  <2> DEFINE q == ViewAnother(panel, d)
  <2>1. /\ DOMAIN q = PanelFields /\ q.viewed = d
        /\ q.deviceState = panel.deviceState /\ q.generation = panel.generation
        /\ q.highestToken = panel.highestToken
    BY <1>1 DEF ViewAnother, Watch, Cancel, PanelFields
  <2> HIDE DEF q
  <2>2. EntriesOK(q)
    BY <1>1, <2>1 DEF EntriesOK, PanelOK
  <2>3. PanelOK(RefreshPanel(q)) /\ SameTokens(q, RefreshPanel(q))
    BY <1>4, <2>1, <2>2, RefreshDoes
  <2>4. TokensOK(RefreshPanel(q), host)
    BY <1>1, <2>1, <2>3, TokensStay DEF SameTokens
  <2> QED
    BY <1>1, <1>4, <2>3, <2>4, AskedDoes DEF PanelIInv, q
<1> QED
  BY <1>2, <1>3, <1>4 DEF ShowDetails

LEMMA PanelShowsOK ==
  ASSUME PanelIInv, NEW t, PanelShows(t)
  PROVE  PanelIInv'
<1>1. CASE UNCHANGED panelVars
  BY <1>1 DEF PanelIInv, panelVars
<1>2. CASE ShowDetails(IF View(t).device = None THEN Nothing ELSE View(t).device)
  BY <1>2, ShowDetailsOK
<1> QED
  BY <1>1, <1>2 DEF PanelShows

LEMMA PushOK ==
  ASSUME PanelIInv, NEW d \in Devices, NEW what \in Kinds, NEW late \in 0..1, Push(d, what, late)
  PROVE  PanelIInv'
<1> DEFINE m == [kind |-> "device", device |-> d, session |-> host.session[d] - late, what |-> what]
           wire == Append(host.wire, m)
<1>1. /\ HostOK(host) /\ panel' = panel
      /\ host' = [host EXCEPT !.pushed = @ + 1, !.wire = Append(@, m)]
  BY DEF Push, PanelIInv
<1>2. host.session[d] \in Nat /\ host.session[d] - late \in Nat /\ host.session[d] - late <= host.session[d]
  BY <1>1 DEF Push, HostOK
<1>3. m \in Message /\ m.kind # "hello" /\ m.device = d /\ m.session <= host.session[d]
  BY <1>2 DEF Message
<1>4. /\ DOMAIN host' = HostFields /\ host'.generation = host.generation
      /\ host'.session = host.session /\ host'.wire = wire
  BY <1>1 DEF HostOK, HostFields
<1>5. MessageOK(m, host')
  BY <1>3, <1>4 DEF MessageOK
<1> HIDE DEF m
<1>6. host.wire \in Seq(Message) /\ \A i \in 1..Len(host.wire) : MessageOK(host.wire[i], host)
  BY <1>1 DEF HostOK
<1>7. /\ wire \in Seq(Message) /\ Len(wire) = Len(host.wire) + 1 /\ wire[Len(wire)] = m
      /\ \A i \in 1..Len(host.wire) : wire[i] = host.wire[i]
  BY <1>3, <1>6
<1>8. \A i \in 1..Len(host.wire) : MessageOK(host.wire[i], host')
  BY <1>4, <1>6 DEF MessageOK
<1> HIDE DEF wire
<1>9. \A i \in 1..Len(wire) : MessageOK(wire[i], host')
  <2>1. Len(host.wire) \in Nat
    BY <1>6
  <2> SUFFICES ASSUME NEW i \in 1..Len(wire) PROVE MessageOK(wire[i], host')
    OBVIOUS
  <2>2. i \in 1..Len(host.wire) \/ i = Len(wire)
    BY <1>7, <2>1
  <2> QED
    BY <1>5, <1>7, <1>8, <2>2
<1>10. HostOK(host')
  BY <1>1, <1>4, <1>7, <1>9 DEF HostOK
<1>11. TokensOK(panel, host')
  BY <1>4 DEF PanelIInv, TokensOK
<1> QED
  BY <1>1, <1>10, <1>11 DEF PanelIInv

LEMMA NextSessionOK ==
  ASSUME PanelIInv, NEW d \in Devices, NextSession(d)
  PROVE  PanelIInv'
<1>1. HostOK(host) /\ panel' = panel /\ host' = [host EXCEPT !.session[d] = @ + 1]
  BY DEF NextSession, PanelIInv
<1> DEFINE session == [host.session EXCEPT ![d] = host.session[d] + 1]
<1>2. /\ DOMAIN host' = HostFields /\ host'.generation = host.generation
      /\ host'.session = session /\ host'.wire = host.wire
  BY <1>1 DEF HostOK, HostFields
<1>3. session \in [Devices -> Nat] /\ \A e \in Devices : host.session[e] <= session[e] /\ host.session[e] \in Nat
  BY <1>1 DEF HostOK
<1> HIDE DEF session
<1>4. host.wire \in Seq(Message) /\ \A i \in 1..Len(host.wire) : MessageOK(host.wire[i], host)
  BY <1>1 DEF HostOK
<1>5. \A i \in 1..Len(host.wire) : MessageOK(host.wire[i], host')
  <2> SUFFICES ASSUME NEW i \in 1..Len(host.wire) PROVE MessageOK(host.wire[i], host')
    OBVIOUS
  <2>1. host.wire[i] \in Message /\ MessageOK(host.wire[i], host)
    BY <1>4
  <2>2. CASE host.wire[i].kind = "hello"
    BY <1>2, <2>1, <2>2 DEF MessageOK
  <2>3. CASE host.wire[i].kind # "hello"
    <3> DEFINE n == host.wire[i].session
               e == host.wire[i].device
    <3>1. n \in Nat /\ e \in Devices
      BY <2>1, <2>3, MessageFacts
    <3>2. n <= host.session[e]
      BY <2>1, <2>3 DEF MessageOK
    <3>3. session[e] \in Nat
      BY <1>3, <3>1
    <3>4. n <= session[e]
      BY <1>3, <3>1, <3>2, <3>3
    <3> QED
      BY <1>2, <2>3, <3>4 DEF MessageOK
  <2> QED
    BY <2>2, <2>3
<1>6. HostOK(host')
  BY <1>1, <1>2, <1>3, <1>4, <1>5 DEF HostOK
<1>7. TokensOK(panel, host')
  <2>1. ASSUME panel.generation = host.generation, NEW e \in DOMAIN panel.highestToken
        PROVE  panel.highestToken[e] <= session[e]
    <3>1. e \in Devices /\ panel.highestToken[e] \in Nat /\ panel.highestToken[e] <= host.session[e]
      BY <2>1 DEF PanelIInv, TokensOK
    <3>2. session[e] \in Nat
      BY <1>3, <3>1
    <3> QED
      BY <1>3, <3>1, <3>2
  <2> QED
    BY <1>2, <2>1 DEF PanelIInv, TokensOK
<1> QED
  BY <1>1, <1>6, <1>7 DEF PanelIInv

LEMMA DeliverOK ==
  ASSUME PanelIInv, Deliver
  PROVE  PanelIInv'
<1> DEFINE wire == host.wire
           m == Head(wire)
<1>1. /\ PanelOK(panel) /\ HostOK(host) /\ TokensOK(panel, host) /\ wire # <<>>
      /\ panel' = HandleStatusEvent(m) /\ host' = [host EXCEPT !.wire = Tail(@), !.owed = FALSE]
  BY DEF Deliver, PanelIInv
<1>2. /\ DOMAIN host' = HostFields /\ host'.generation = host.generation
      /\ host'.session = host.session /\ host'.wire = Tail(wire)
  BY <1>1 DEF HostOK, HostFields
<1>3. wire \in Seq(Message) /\ \A i \in 1..Len(wire) : MessageOK(wire[i], host)
  BY <1>1 DEF HostOK
<1> HIDE DEF wire
<1>4. m \in Message /\ m = wire[1] /\ 1 \in 1..Len(wire)
  BY <1>1, <1>3
<1>5. MessageOK(m, host)
  BY <1>3, <1>4
<1>6. /\ Tail(wire) \in Seq(Message) /\ Len(Tail(wire)) = Len(wire) - 1
      /\ \A i \in 1..Len(Tail(wire)) : Tail(wire)[i] = wire[i + 1] /\ i + 1 \in 1..Len(wire)
  BY <1>1, <1>3
<1>7. \A i \in 1..Len(Tail(wire)) : MessageOK(Tail(wire)[i], host')
  <2> SUFFICES ASSUME NEW i \in 1..Len(Tail(wire)) PROVE MessageOK(Tail(wire)[i], host')
    OBVIOUS
  <2>1. MessageOK(wire[i + 1], host) /\ Tail(wire)[i] = wire[i + 1]
    BY <1>3, <1>6
  <2> QED
    BY <1>2, <2>1 DEF MessageOK
<1>8. HostOK(host')
  BY <1>1, <1>2, <1>6, <1>7 DEF HostOK
<1> HIDE DEF m
<1>9. PanelOK(panel') /\ TokensOK(panel', host)
  BY <1>1, <1>4, <1>5, StatusEventDoes
<1>10. TokensOK(panel', host')
  BY <1>2, <1>9 DEF TokensOK
<1> QED
  BY <1>8, <1>9, <1>10 DEF PanelIInv

LEMMA SettlesOK ==
  ASSUME PanelIInv, Settles
  PROVE  PanelIInv'
<1>1. /\ PanelOK(panel) /\ HostOK(host) /\ TokensOK(panel, host)
      /\ panel' = Cancel(panel) /\ host' = [host EXCEPT !.requests = @ - 1]
  BY DEF Settles, PanelIInv
<1>2. /\ DOMAIN host' = HostFields /\ host'.generation = host.generation
      /\ host'.session = host.session /\ host'.wire = host.wire
  BY <1>1 DEF HostOK, HostFields
<1>3. PanelOK(panel') /\ TokensOK(panel', host)
  BY <1>1, WithPending, TokensStay DEF Cancel
<1> QED
  BY <1>1, <1>2, <1>3, HostKeeps DEF PanelIInv

LEMMA DiesOK ==
  ASSUME PanelIInv, Dies
  PROVE  PanelIInv'
<1>1. /\ PanelOK(panel) /\ HostOK(host) /\ TokensOK(panel, host) /\ panel' = panel
      /\ host' = [host EXCEPT !.alive = FALSE, !.wire = <<>>, !.requests = 0]
  BY DEF Dies, PanelIInv
<1>2. /\ DOMAIN host' = HostFields /\ host'.generation = host.generation
      /\ host'.session = host.session /\ host'.wire = <<>>
  BY <1>1 DEF HostOK, HostFields
<1> QED
  BY <1>1, <1>2, HostKeeps DEF PanelIInv

\* A helper that counts from the start again is a new one.
LEMMA ReturnsOK ==
  ASSUME PanelIInv, Returns
  PROVE  PanelIInv'
<1> DEFINE k == NewHelper(host.generation + 1)
<1>1. /\ PanelOK(panel) /\ HostOK(host) /\ TokensOK(panel, host) /\ panel' = panel
      /\ host' = [k EXCEPT !.pushed = host.pushed, !.asked = host.asked]
      /\ host.generation \in Nat /\ host.generation + 1 \in Nat
  BY DEF Returns, PanelIInv, HostOK
<1>2. HostOK(k) /\ k.generation = host.generation + 1 /\ DOMAIN k = HostFields
  BY <1>1, NewHelperDoes
<1> HIDE DEF k
<1>3. /\ DOMAIN host' = HostFields /\ host'.generation = k.generation
      /\ host'.session = k.session /\ host'.wire = k.wire
  BY <1>1, <1>2 DEF HostFields
<1>4. HostOK(host')
  BY <1>2, <1>3, HostKeeps
<1>5. TokensOK(panel, host')
  BY <1>1, <1>2, <1>3 DEF TokensOK
<1> QED
  BY <1>1, <1>4, <1>5 DEF PanelIInv

LEMMA TripOK ==
  ASSUME PanelIInv, Trip
  PROVE  PanelIInv'
<1> DEFINE q == [panel EXCEPT !.pending = FALSE, !.linkLost = TRUE]
<1>1. /\ PanelOK(panel) /\ HostOK(host) /\ TokensOK(panel, host) /\ DOMAIN panel = PanelFields
      /\ panel' = RefreshPanel(q) /\ host' = host
  BY DEF Trip, PanelIInv, PanelOK
<1>2. /\ DOMAIN q = PanelFields /\ q.viewed = panel.viewed /\ q.shown = panel.shown
      /\ q.deviceState = panel.deviceState /\ q.generation = panel.generation
      /\ q.highestToken = panel.highestToken
  BY <1>1 DEF PanelFields
<1> HIDE DEF q
<1>3. EntriesOK(q) /\ (q.viewed = Nothing => q.shown = Nothing)
  BY <1>1, <1>2 DEF PanelOK, EntriesOK, ShownOK
<1>4. PanelOK(panel') /\ SameTokens(q, panel')
  BY <1>1, <1>2, <1>3, RefreshDoes
<1> QED
  BY <1>1, <1>2, <1>4, TokensStay DEF PanelIInv, SameTokens

LEMMA ResumeOK ==
  ASSUME PanelIInv, Resume
  PROVE  PanelIInv'
<1>1. /\ PanelOK(panel) /\ HostOK(host) /\ TokensOK(panel, host)
      /\ panel' = Watch(panel) /\ host' = Asked(host)
  BY DEF Resume, PanelIInv
<1>2. PanelOK(panel') /\ TokensOK(panel', host)
  BY <1>1, WithPending, TokensStay DEF Watch
<1> QED
  BY <1>1, <1>2, AskedDoes DEF PanelIInv

LEMMA LatchClearsOK ==
  ASSUME PanelIInv, NEW d \in Devices, NEW r \in Rows, LatchClears(d, r)
  PROVE  PanelIInv'
<1> DEFINE e == panel.deviceState[d]
           n == [[e EXCEPT !.latched = e.latched \ {r}] EXCEPT !.values = Put(e.values, r, "")]
           state == [panel.deviceState EXCEPT ![d] = n]
           q == [panel EXCEPT !.deviceState = state]
<1>1. /\ PanelOK(panel) /\ HostOK(host) /\ TokensOK(panel, host) /\ DOMAIN panel = PanelFields
      /\ d \in DOMAIN panel.deviceState /\ host' = host
  BY DEF LatchClears, PanelIInv, PanelOK
<1>2. q = [panel EXCEPT !.deviceState[d].latched = @ \ {r}, !.deviceState[d].values = Put(@, r, "")]
  <2>1. DOMAIN panel.deviceState[d] = {"status", "message", "rows", "values", "latched"}
    BY <1>1 DEF PanelOK, EntriesOK, IsEntry
  <2> QED
    BY <1>1, <2>1 DEF PanelFields
<1>3. panel' = IF d = q.viewed /\ r \in DOMAIN q.shown.cells THEN [q EXCEPT !.shown.cells[r] = ""] ELSE q
  BY <1>2 DEF LatchClears
<1>4. IsEntry(e) /\ d # Nothing
  BY <1>1, StatusPanelAssumption DEF PanelOK, EntriesOK
<1>5. /\ DOMAIN n = {"status", "message", "rows", "values", "latched"}
      /\ n.status = e.status /\ n.message = e.message /\ n.rows = e.rows
      /\ n.values = Put(e.values, r, "") /\ n.latched = e.latched \ {r}
  BY <1>4 DEF IsEntry
<1> HIDE DEF n
<1>6. Value(n, r) = "" /\ \A j : j # r => Value(n, j) = Value(e, j)
  BY <1>5 DEF Value, Put
<1>7. IsEntry(n)
  BY <1>4, <1>5, <1>6 DEF IsEntry
<1>8. /\ DOMAIN q = PanelFields /\ q.viewed = panel.viewed /\ q.linkLost = panel.linkLost
      /\ q.shown = panel.shown /\ q.deviceState = state /\ q.generation = panel.generation
      /\ q.highestToken = panel.highestToken
  BY <1>1 DEF PanelFields
<1> HIDE DEF q
<1>9. EntryFor(panel, d) = e /\ EntryFor(q, d) = n /\ \A j : j # d => EntryFor(q, j) = EntryFor(panel, j)
  BY <1>1, <1>8 DEF EntryFor
<1>10. EntriesOK(q)
  BY <1>1, <1>7, <1>8 DEF EntriesOK, PanelOK
<1>11. SameTokens(panel, q)
  BY <1>8 DEF SameTokens
<1> HIDE DEF e, state
<1>12. CASE d = q.viewed
  <2>1. LET a == EntryFor(panel, panel.viewed)
            b == EntryFor(q, panel.viewed)
        IN  /\ b.message = a.message /\ b.rows = a.rows /\ b.status = a.status
            /\ \A j \in a.rows : j # r => Value(b, j) = Value(a, j)
    BY <1>5, <1>6, <1>8, <1>9, <1>12
  <2>2. panel' = IF r \in DOMAIN q.shown.cells
                 THEN [q EXCEPT !.shown.cells[r] = Value(EntryFor(q, q.viewed), r)] ELSE q
    BY <1>3, <1>6, <1>9, <1>12
  <2>3. panel.viewed # Nothing
    BY <1>4, <1>8, <1>12
  <2>4. PanelOK(panel') /\ SameTokens(q, panel')
    BY <1>1, <1>8, <1>10, <2>1, <2>2, <2>3, RenderRowDoes
  <2> QED
    BY <1>1, <1>11, <2>4, TokensStay DEF PanelIInv
<1>13. CASE d # q.viewed
  <2>1. panel' = q
    BY <1>3, <1>13
  <2>2. BuildPanel(q, q.viewed) = BuildPanel(panel, panel.viewed)
    BY <1>8, <1>9, <1>13, SameBuild
  <2>3. PanelOK(q)
    BY <1>1, <1>8, <1>10, <2>2 DEF PanelOK, ShownOK
  <2> QED
    BY <1>1, <1>11, <2>1, <2>3, TokensStay DEF PanelIInv
<1> QED
  BY <1>12, <1>13

LEMMA PanelNextOK ==
  ASSUME PanelIInv, PanelNext
  PROVE  PanelIInv'
BY PushOK, NextSessionOK, DeliverOK, SettlesOK, DiesOK, ReturnsOK, TripOK, ResumeOK, LatchClearsOK
   DEF PanelNext

-----------------------------------------------------------------------------
(* The page. *)

\* The inductive invariant of the page.
PageIInv == DevicesIInv /\ PanelIInv

LEMMA QuietPanel ==
  ASSUME PanelIInv, UNCHANGED panelVars
  PROVE  PanelIInv'
BY DEF PanelIInv, panelVars

LEMMA ReenterPanel ==
  ASSUME PanelIInv, Reenter
  PROVE  PanelIInv'
BY MountedPanelOK DEF Reenter, PanelIInv

LEMMA OutcomePanel ==
  ASSUME PanelIInv, NEW f, NEW devices, NEW failed, Outcome(f, devices, failed)
  PROVE  PanelIInv'
<1>1. \E u : PanelShows(u)
  BY DEF Outcome
<1> QED
  BY <1>1, PanelShowsOK

LEMMA BootingOK ==
  ASSUME PageIInv, Booting
  PROVE  PageIInv'
<1> USE DEF PageIInv
<1>1. CASE SyncResolves
  BY <1>1, SyncResolvesOK, QuietPanel DEF SyncResolves
<1>2. CASE FailConnection
  BY <1>2, FailConnectionOK, QuietPanel DEF FailConnection
<1>3. CASE NoControllers
  BY <1>3, NoControllersOK, QuietPanel DEF NoControllers
<1>4. CASE ThemeSettles
  BY <1>4, ThemeSettlesOK, QuietPanel DEF ThemeSettles
<1>5. CASE DevicesResolve
  <2>1. \E f, devices, failed : Outcome(f, devices, failed)
    BY <1>5 DEF DevicesResolve
  <2> QED
    BY <1>5, <2>1, DevicesResolveOK, OutcomePanel
<1>6. ASSUME NEW controllers \in scene.sidebars, ControllersResolve(controllers) PROVE PageIInv'
  BY <1>6, ControllersResolveOK, QuietPanel DEF ControllersResolve
<1>7. ASSUME NEW conf, FeaturesResolve(conf) PROVE PageIInv'
  <2>1. PanelShows(s')
    BY <1>7 DEF FeaturesResolve
  <2> QED
    BY <1>7, <2>1, FeaturesResolveOK, PanelShowsOK
<1> QED
  BY <1>1, <1>2, <1>3, <1>4, <1>5, <1>6, <1>7 DEF Booting

LEMMA NavigatingOK ==
  ASSUME PageIInv, Navigating
  PROVE  PageIInv'
<1> USE DEF PageIInv
<1>1. ASSUME NEW scope, scope.kind \in {"global", "device"}, s.loaded, Scoped(scope),
             scene' = scene, boot' = boot
      PROVE  PageIInv'
  <2>1. PanelShows(s')
    BY <1>1 DEF Scoped
  <2> QED
    BY <1>1, <2>1, ScopedOK, PanelShowsOK
<1>2. CASE ClickGlobal
  <2>1. s.loaded /\ Scoped(Global) /\ scene' = scene /\ boot' = boot
    BY <1>2 DEF ClickGlobal, Ready
  <2> QED
    BY <1>1, <2>1, ScopeFacts
<1>3. ASSUME NEW d, ClickDevice(d) PROVE PageIInv'
  <2>1. s.loaded /\ Scoped(AtDevice(s.owner, d)) /\ scene' = scene /\ boot' = boot
    BY <1>3 DEF ClickDevice, Ready
  <2> QED
    BY <1>1, <2>1, ScopeFacts
<1>4. CASE Reenter
  BY <1>4, ReenterOK, ReenterPanel
<1>5. ASSUME NEW c \in DOMAIN scene.lists, ClickController(c) PROVE PageIInv'
  <2>1. \E t : PanelShows(t)
    BY <1>5 DEF ClickController
  <2> QED
    BY <1>5, <2>1, ClickControllerOK, PanelShowsOK
<1>6. ASSUME NEW controllers, RefreshControllers(controllers) PROVE PageIInv'
  BY <1>6, RefreshControllersOK, QuietPanel DEF RefreshControllers
<1> QED
  BY <1>2, <1>3, <1>4, <1>5, <1>6 DEF Navigating, RefreshAction, Retry

LEMMA EditingOK ==
  ASSUME PageIInv, ArmedOK(s), Editing
  PROVE  PageIInv'
<1> USE DEF PageIInv
<1>1. ASSUME NEW o \in Options, HandleFocusOut(o) PROVE PageIInv'
  BY <1>1, HandleFocusOutOK, QuietPanel DEF HandleFocusOut, TableVars, panelVars
<1>2. ASSUME NEW o \in Options, Toggle(o) PROVE PageIInv'
  BY <1>2, ToggleOK, QuietPanel DEF Toggle, TableVars, panelVars
<1>3. ASSUME NEW o \in Options, NEW text \in scene.texts, CommitValue(o, text) PROVE PageIInv'
  BY <1>3, CommitValueOK, QuietPanel DEF CommitValue, TableVars, panelVars
<1>4. ASSUME NEW cs, NEW open, SetCategoriesExpanded(cs, open) PROVE PageIInv'
  <2>1. UNCHANGED panelVars
    BY <1>4 DEF SetCategoriesExpanded, TableVars, panelVars
  <2>2. PanelIInv'
    BY <2>1, QuietPanel
  <2> QED
    BY <1>4, <2>2, SetCategoriesExpandedOK
<1>5. ASSUME NEW filter \in Filters, ChangeFilter(filter) PROVE PageIInv'
  BY <1>5, ChangeFilterOK, QuietPanel DEF ChangeFilter, TableVars, panelVars
<1>6. ASSUME NEW conf, Replace(conf) PROVE PageIInv'
  BY <1>6, ReplaceOK, QuietPanel DEF Replace, TableVars, panelVars
<1> QED
  BY <1>1, <1>2, <1>3, <1>4, <1>5, <1>6 DEF Editing, Fold, ToggleAll

\* Every step keeps what the page shows, as long as what is armed is off.
LEMMA PageStep ==
  ASSUME PageIInv, ArmedOK(s), [Next]_vars
  PROVE  PageIInv'
<1>1. CASE Booting
  BY <1>1, BootingOK
<1>2. CASE Navigating
  BY <1>2, NavigatingOK
<1>3. CASE Editing
  BY <1>3, EditingOK
<1> USE DEF PageIInv
<1>4. ASSUME scene' = scene, s' = s, table' = table, fetches' = fetches, write' = write,
             boot' = boot, retry' \in {"none", "waiting", "armed"}, PanelIInv'
      PROVE  PageIInv'
  BY <1>4, SameStoreStep
<1>5. retry \in {"none", "waiting", "armed"}
  BY DEF DevicesIInv
<1>6. CASE RetryArms
  <2>1. PanelIInv'
    BY <1>6, QuietPanel DEF RetryArms
  <2> QED
    BY <1>4, <1>6, <2>1 DEF RetryArms, mountVars
<1>7. ASSUME NEW f \in fetches, FetchSettles(f) PROVE PageIInv'
  <2>1. \E devices, failed : Outcome(f, devices, failed)
    BY <1>7 DEF FetchSettles
  <2> QED
    BY <1>7, <2>1, FetchSettlesOK, OutcomePanel
<1>8. CASE PersistStarts
  BY <1>8, PersistStartsOK, QuietPanel DEF PersistStarts
<1>9. ASSUME NEW failed, PersistSettles(failed) PROVE PageIInv'
  BY <1>9, PersistSettlesOK, QuietPanel DEF PersistSettles
<1>10. CASE PanelNext /\ UNCHANGED <<mountVars, s, table, retry, stale>>
  <2>1. PanelIInv'
    BY <1>10, PanelNextOK
  <2> QED
    BY <1>4, <1>5, <1>10, <2>1 DEF mountVars
<1>11. CASE UNCHANGED vars
  <2>1. PanelIInv'
    BY <1>11, QuietPanel DEF vars
  <2> QED
    BY <1>4, <1>5, <1>11, <2>1 DEF vars
<1> QED
  BY <1>1, <1>2, <1>3, <1>6, <1>7, <1>8, <1>9, <1>10, <1>11 DEF Next

LEMMA RowsShown ==
  ASSUME DevicesIInv
  PROVE  RowsAreDerived
<1> SUFFICES ASSUME table.key # None PROVE table.key = s.scope /\ CategoriesShow(table.categories, s)
  <2>1. ASSUME CategoriesShow(table.categories, s), NEW c \in DOMAIN table.categories \cap Categories(View(s))
        PROVE  \A category \in {table.categories[c]} :
                 /\ category.open => category.rows # <<>>
                 /\ \A o \in DOMAIN category.rows \cap OfferedIn(View(s), c) :
                      SameButText(category.rows[o], Painted(s, o)) \/ LeftArmed(s, o, category.rows[o])
    <3> DEFINE cat == table.categories[c]
    <3>1. CategoryShows(cat, c, s)
      BY <2>1 DEF CategoriesShow
    <3>2. \A o \in DOMAIN cat.rows \cap OfferedIn(View(s), c) :
            SameButText(cat.rows[o], Painted(s, o)) \/ LeftArmed(s, o, cat.rows[o])
      BY <3>1, ShownIs DEF CategoryShows, RowsShow
    <3>3. cat.open => cat.rows # <<>>
      BY <3>1 DEF CategoryShows
    <3> QED
      BY <3>2, <3>3
  <2> QED
    BY <2>1 DEF RowsAreDerived
<1>1. s.loaded
  BY DEF DevicesIInv, NotLoadedOK
<1> QED
  BY <1>1 DEF DevicesIInv, TableShows

\* The panel's own.
LEMMA PanelShown ==
  ASSUME PanelIInv
  PROVE  PanelInv
<1>1. ShowsItsState
  BY DEF PanelIInv, PanelOK, ShownOK, ShowsItsState
<1>2. TokensAreReachable
  BY DEF PanelIInv, TokensOK, TokensAreReachable
<1>3. LatchesAreMomentary
  BY DEF PanelIInv, PanelOK, EntriesOK, IsEntry, LatchesAreMomentary
<1> QED
  BY <1>1, <1>2, <1>3 DEF PanelInv

\* The invariant is as strong as what is asked of the page.
LEMMA PageIInvSuffices ==
  ASSUME PageIInv
  PROVE  DeviceInv
<1>1. TypeOK
  BY DEF PageIInv, DevicesIInv, StoreOK, Statuses, BootPhases, TypeOK
<1>2. NewestListStands
  BY DEF PageIInv, DevicesIInv, StoreOK, NewestListStands
<1> QED
  BY <1>1, <1>2, RowsShown, PanelShown DEF PageIInv, DeviceInv

-----------------------------------------------------------------------------
(* What a click writes. *)

\* The scope of the view is one at which the option is heard.
HeardAt(o, v) ==
  \/ v.kind = "global" /\ v.id = None /\ v.controller = None /\ Declares(o, "global")
  \/ /\ v.kind = "device" /\ v.id # None
     /\ Declares(o, "device") \/ (v.id = v.controller /\ Declares(o, "controller"))

LEMMA ResolveScope ==
  ASSUME NEW conf, NEW o, NEW v
  PROVE  /\ ConfiguredAt(conf, o, "device", v.id) =>
              /\ Resolve(conf, o, v).scope = "device"
              /\ Resolve(conf, o, v).enabled = conf[<<o, v.id>>].enabled
         /\ ~ConfiguredAt(conf, o, "device", v.id) /\ ConfiguredAt(conf, o, "controller", v.controller) =>
              /\ Resolve(conf, o, v).scope = "controller"
              /\ Resolve(conf, o, v).enabled = conf[<<o, v.controller>>].enabled
         /\ ~ConfiguredAt(conf, o, "device", v.id) /\ ~ConfiguredAt(conf, o, "controller", v.controller) =>
              IF ConfiguredAt(conf, o, "global", None)
              THEN /\ Resolve(conf, o, v).scope = "global"
                   /\ Resolve(conf, o, v).enabled = conf[<<o, None>>].enabled
              ELSE /\ Resolve(conf, o, v).scope = "none"
                   /\ Resolve(conf, o, v).enabled = Catalog[o].default
<1>1. CASE ConfiguredAt(conf, o, "device", v.id)
  BY <1>1 DEF Resolve
<1>2. CASE ~ConfiguredAt(conf, o, "device", v.id) /\ ConfiguredAt(conf, o, "controller", v.controller)
  BY <1>2 DEF Resolve
<1>3. CASE /\ ~ConfiguredAt(conf, o, "device", v.id) /\ ~ConfiguredAt(conf, o, "controller", v.controller)
           /\ ConfiguredAt(conf, o, "global", None)
  BY <1>3 DEF Resolve
<1>4. CASE /\ ~ConfiguredAt(conf, o, "device", v.id) /\ ~ConfiguredAt(conf, o, "controller", v.controller)
           /\ ~ConfiguredAt(conf, o, "global", None)
  BY <1>4 DEF Resolve
<1> QED
  BY <1>1, <1>2, <1>3, <1>4

\* Whether a row shows what is above its scope.
LEMMA InheritsWhat ==
  ASSUME NEW conf, NEW o, NEW v, HeardAt(o, v)
  PROVE  Inheriting(conf, o, v) <=>
           /\ v.id # None
           /\ \/ Resolve(conf, o, v).scope = "global"
              \/ Resolve(conf, o, v).scope = "controller" /\ v.id # v.controller
<1> DEFINE at == Resolve(conf, o, v).scope
<1>1. Inheriting(conf, o, v) = (CASE ViewScope(v) = "controller" -> at = "global"
                                  [] ViewScope(v) = "device"     -> at \in {"global", "controller"}
                                  [] OTHER                       -> FALSE)
  BY DEF Inheriting
<1> HIDE DEF at
<1>2. CASE v.id = None
  <2>1. ViewScope(v) = "global"
    BY <1>2 DEF HeardAt, ViewScope, ControllerPage
  <2> QED
    BY <1>1, <1>2, <2>1
<1>3. CASE v.id # None /\ v.id = v.controller
  <2>1. ViewScope(v) = "controller"
    BY <1>3 DEF ViewScope, ControllerPage
  <2> QED
    BY <1>1, <1>3, <2>1 DEF at
<1>4. CASE v.id # None /\ v.id # v.controller
  <2>1. ViewScope(v) = "device"
    BY <1>4 DEF HeardAt, ViewScope, ControllerPage
  <2> QED
    BY <1>1, <1>4, <2>1 DEF at
<1> QED
  BY <1>2, <1>3, <1>4

\* An entry at the scope of the view is what its row shows.
LEMMA WrittenIsHeard ==
  ASSUME NEW conf, NEW o, NEW v, HeardAt(o, v), <<o, v.id>> \in DOMAIN conf
  PROVE  Resolve(conf, o, v).enabled = conf[<<o, v.id>>].enabled /\ ~Inheriting(conf, o, v)
<1>1. CASE v.id = None
  <2>1. /\ ~ConfiguredAt(conf, o, "device", v.id) /\ ~ConfiguredAt(conf, o, "controller", v.controller)
        /\ ConfiguredAt(conf, o, "global", None)
    BY <1>1 DEF HeardAt, ConfiguredAt
  <2> QED
    BY <1>1, <2>1, ResolveScope, InheritsWhat
<1>2. CASE v.id # None /\ Declares(o, "device")
  <2>1. ConfiguredAt(conf, o, "device", v.id)
    BY <1>2 DEF ConfiguredAt
  <2> QED
    BY <2>1, ResolveScope, InheritsWhat
<1>3. CASE v.id # None /\ ~Declares(o, "device")
  <2>1. v.id = v.controller /\ Declares(o, "controller")
    BY <1>3 DEF HeardAt
  <2>2. ~ConfiguredAt(conf, o, "device", v.id) /\ ConfiguredAt(conf, o, "controller", v.controller)
    BY <1>3, <2>1 DEF ConfiguredAt
  <2>3. /\ Resolve(conf, o, v).scope = "controller"
        /\ Resolve(conf, o, v).enabled = conf[<<o, v.controller>>].enabled
    BY <2>2, ResolveScope
  <2>4. <<o, v.controller>> = <<o, v.id>>
    BY <2>1
  <2>5. ~Inheriting(conf, o, v)
    BY <2>1, <2>3, InheritsWhat
  <2> QED
    BY <2>3, <2>4, <2>5
<1> QED
  BY <1>1, <1>2, <1>3

\* Without one it shows what is above, or the default.
LEMMA ClearedFallsBack ==
  ASSUME NEW conf, NEW o, NEW v, HeardAt(o, v)
  PROVE  LET new == Cleared(conf, o, v.id)
         IN  /\ HasUpstream(conf, o, v) => Inheriting(new, o, v)
             /\ ~HasUpstream(conf, o, v) =>
                  Resolve(new, o, v).enabled = Catalog[o].default /\ ~Inheriting(new, o, v)
<1> DEFINE new == Cleared(conf, o, v.id)
<1>1. DOMAIN new = DOMAIN conf \ {<<o, v.id>>}
  BY DEF Cleared, Restrict
<1> HIDE DEF new
<1>2. \A id : <<o, id>> \in DOMAIN new <=> <<o, id>> \in DOMAIN conf /\ id # v.id
  BY <1>1
<1>3. ~ConfiguredAt(new, o, "device", v.id)
  BY <1>2 DEF ConfiguredAt
<1>4. ConfiguredAt(new, o, "controller", v.controller) <=>
        v.controller # v.id /\ ConfiguredAt(conf, o, "controller", v.controller)
  BY <1>2 DEF ConfiguredAt
<1>5. ConfiguredAt(new, o, "global", None) <=> v.id # None /\ ConfiguredAt(conf, o, "global", None)
  BY <1>2 DEF ConfiguredAt
<1>6. CASE HasUpstream(conf, o, v)
  <2>1. /\ v.id # None
        /\ ConfiguredAt(new, o, "controller", v.controller) \/ ConfiguredAt(new, o, "global", None)
    BY <1>4, <1>5, <1>6 DEF HasUpstream
  <2>2. CASE ConfiguredAt(new, o, "controller", v.controller)
    <3>1. Resolve(new, o, v).scope = "controller"
      BY <1>3, <2>2, ResolveScope
    <3> QED
      BY <1>4, <1>6, <2>1, <2>2, <3>1, InheritsWhat DEF new
  <2>3. CASE ~ConfiguredAt(new, o, "controller", v.controller)
    <3>1. Resolve(new, o, v).scope = "global"
      BY <1>3, <2>1, <2>3, ResolveScope
    <3> QED
      BY <1>6, <2>1, <3>1, InheritsWhat DEF new
  <2> QED
    BY <2>2, <2>3
<1>7. CASE ~HasUpstream(conf, o, v)
  <2>1. ~ConfiguredAt(new, o, "global", None)
    BY <1>5, <1>7 DEF HasUpstream
  <2>2. ~ConfiguredAt(new, o, "controller", v.controller)
    BY <1>4, <1>7 DEF HasUpstream, HeardAt, ConfiguredAt
  <2>3. Resolve(new, o, v).scope = "none" /\ Resolve(new, o, v).enabled = Catalog[o].default
    BY <1>3, <2>1, <2>2, ResolveScope
  <2> QED
    BY <1>7, <2>3, InheritsWhat DEF new
<1> QED
  BY <1>6, <1>7

\* What is written is shown, be it by an entry or because none is needed.
LEMMA WriteDoes ==
  ASSUME NEW conf, NEW o, NEW v, HeardAt(o, v), NEW on \in BOOLEAN, NEW text, text # None,
         on /\ Catalog[o].valued /\ v.id # None => text # ""
  PROVE  LET new == Write(conf, o, v, on, text)
         IN  Resolve(new, o, v).enabled = on /\ ~Inheriting(new, o, v)
<1> DEFINE value == IF Catalog[o].valued /\ on /\ text # "" THEN text ELSE None
           key == <<o, v.id>>
           put == [k \in DOMAIN conf \cup {key} |->
                     IF k = key THEN [enabled |-> on, value |-> value] ELSE conf[k]]
<1>1. CASE Needed(conf, o, v, on, text)
  <2>1. ~(on /\ Catalog[o].valued /\ value = None /\ v.id # None)
    OBVIOUS
  <2>2. Write(conf, o, v, on, text) = Configured(conf, o, v.id, on, value)
    BY <1>1 DEF Write
  <2> HIDE DEF value
  <2>3. Configured(conf, o, v.id, on, value) = put
    BY <2>1 DEF Configured
  <2>4. key \in DOMAIN put /\ put[key].enabled = on
    OBVIOUS
  <2> HIDE DEF put
  <2>5. Resolve(put, o, v).enabled = on /\ ~Inheriting(put, o, v)
    BY <2>4, WrittenIsHeard
  <2> QED
    BY <2>2, <2>3, <2>5
<1>2. CASE ~Needed(conf, o, v, on, text)
  <2>1. Write(conf, o, v, on, text) = Cleared(conf, o, v.id)
    BY <1>2 DEF Write
  <2>2. on = Catalog[o].default /\ ~HasUpstream(conf, o, v)
    BY <1>2 DEF Needed, Deviates
  <2>3. Resolve(Cleared(conf, o, v.id), o, v).enabled = Catalog[o].default
        /\ ~Inheriting(Cleared(conf, o, v.id), o, v)
    BY <2>2, ClearedFallsBack
  <2> QED
    BY <2>1, <2>2, <2>3
<1> QED
  BY <1>1, <1>2

\* A click that edits is heard.
LEMMA TransitionTakes ==
  ASSUME NEW conf, NEW o, NEW v, HeardAt(o, v), NEW row, row.text # None, ~Arms(o, v, row)
  PROVE  LET new == TriStateTransition(conf, o, v, row)
         IN  IF row.readOnly THEN ~Resolve(new, o, v).enabled /\ ~Inheriting(new, o, v)
             ELSE IF row.checked THEN ~Resolve(new, o, v).enabled \/ Inheriting(new, o, v)
             ELSE Resolve(new, o, v).enabled /\ ~Inheriting(new, o, v)
<1>1. LET new == Write(conf, o, v, FALSE, row.text)
      IN  Resolve(new, o, v).enabled = FALSE /\ ~Inheriting(new, o, v)
  BY WriteDoes
<1>2. CASE row.readOnly
  BY <1>1, <1>2 DEF TriStateTransition
<1>3. CASE ~row.readOnly /\ ~row.checked
  <2>1. LET new == Write(conf, o, v, TRUE, row.text)
        IN  Resolve(new, o, v).enabled = TRUE /\ ~Inheriting(new, o, v)
    BY <1>3, WriteDoes DEF Arms
  <2> QED
    BY <1>3, <2>1 DEF TriStateTransition
<1>4. CASE ~row.readOnly /\ row.checked
  <2>1. CASE HasUpstream(conf, o, v)
    BY <1>4, <2>1, ClearedFallsBack DEF TriStateTransition
  <2>2. CASE ~HasUpstream(conf, o, v)
    BY <1>1, <1>4, <2>2 DEF TriStateTransition
  <2> QED
    BY <2>1, <2>2
<1> QED
  BY <1>2, <1>3, <1>4

-----------------------------------------------------------------------------
(* Where gestures are made. *)

\* What is known of the view: a device in view is one of the list of the
\* controller it stands under, and without controllers the list comes once,
\* before a device can be chosen.
PlaceOK(page, t) ==
  /\ t.scope.kind = "global" => t.scope.controller = None /\ t.scope.device = None
  /\ t.scope.kind = "controller" => t.scope.device = None
  /\ t.scope.kind = "device" => t.scope.device # None
  /\ t.devices = <<>> \/ (t.owner \in DOMAIN page.lists /\ t.devices \in page.lists[t.owner])
  /\ t.scope.kind = "device" /\ t.scope.device \in Range(t.devices) => t.scope.controller = t.owner
  /\ page.mode # "controllers" /\ t.request # None => t.devices = <<>> /\ t.scope.kind # "device"
  /\ ~t.loaded => t.devices = <<>>

Asking == {"features", "theme", "devices"}

BootListOK ==
  /\ boot.at \in Asking => IF scene.mode = "controllers"
                           THEN boot.controllers \in Seq(DOMAIN scene.lists) \ {<<>>}
                           ELSE boot.controllers = <<>>
  /\ boot.at = "devices" => scene.mode # "global"

\* Each request is answered once: none that is open is the one applied.
TicketsOK ==
  /\ \A f \in fetches : /\ scene.mode = "controllers" /\ f.controller \in DOMAIN scene.lists
                        /\ f.seq \in 1..s.seq /\ f.seq # s.applied
  /\ \A f, g \in fetches : f.seq = g.seq => f = g
  /\ boot.at \in Asking /\ scene.mode # "global" =>
       boot.seq # s.applied /\ \A f \in fetches : f.seq # boot.seq

GesturesIInv == PlaceOK(scene, s) /\ ArmedOK(s) /\ BootListOK /\ TicketsOK

LEMMA ViewFields ==
  ASSUME NEW t
  PROVE  /\ View(t).kind = t.scope.kind /\ View(t).id = t.scope.device
         /\ View(t).device = IF t.scope.device \in Range(t.devices) THEN t.scope.device ELSE None
         /\ t.scope.kind = "global" => View(t).controller = None
         /\ NavigationId(t) # None => View(t).controller = ScopingControllerId(t)
BY DEF View, NavigationId

\* The row of an option is offered where the option is heard.
LEMMA OfferedIsHeard ==
  ASSUME OffersKeepLevels, scene \in Scenes, PlaceOK(scene, s),
         s.scope.kind \in {"global", "controller", "device"},
         s.scope = Global \/ View(s).device # None, NEW o \in Offered(View(s))
  PROVE  HeardAt(o, View(s))
<1>1. /\ o \in Options /\ View(s).device \in Catalog[o].devices
      /\ Declares(o, s.scope.kind) \/ (s.scope.kind = "device" /\ Declares(o, "controller"))
  BY ViewFields DEF Offered, Admits
<1>2. CASE s.scope = Global
  <2>1. s.scope.kind = "global" /\ s.scope.device = None
    BY <1>2 DEF Global
  <2> QED
    BY <1>1, <2>1, ViewFields DEF HeardAt
<1>3. CASE View(s).device # None
  <2> DEFINE l == s.devices
  <2>1. s.scope.device \in Range(l) /\ View(s).device = s.scope.device /\ View(s).id # None
    BY <1>3, ViewFields
  <2>2. s.scope.kind = "device" /\ s.scope.controller = s.owner
    BY <1>3, <2>1 DEF PlaceOK
  <2>3. CASE Declares(o, "device")
    BY <2>1, <2>2, <2>3, ViewFields DEF HeardAt
  <2>4. CASE ~Declares(o, "device")
    <3>1. PICK i \in DOMAIN l : l[i] = s.scope.device
      BY <2>1 DEF Range
    <3>2. s.owner \in DOMAIN scene.lists /\ l \in scene.lists[s.owner]
      BY <3>1 DEF PlaceOK
    <3>3. Declares(o, "controller") /\ l[i] \in Catalog[o].devices
      BY <1>1, <2>1, <2>2, <2>4, <3>1
    <3>4. s.owner # None /\ l[i] \in Controllers /\ \A j \in DOMAIN l : l[j] \in Controllers => i <= j
      BY <1>1, <2>4, <3>2, <3>3 DEF OffersKeepLevels
    <3>5. DOMAIN l \subseteq Nat
      BY <3>2, DevicePageAssumption
    <3>6. NavigationId(s) = s.owner
      BY <2>2 DEF NavigationId
    <3> DEFINE own == {j \in DOMAIN s.devices : s.devices[j] \in Controllers}
               first == CHOOSE k \in own : \A j \in own : k <= j
    <3>7. i \in own /\ \A j \in own : i <= j
      BY <3>4
    <3>8. first \in own /\ \A j \in own : first <= j
      BY <3>7
    <3>9. first = i
      BY <3>5, <3>7, <3>8
    <3>10. ScopingControllerId(s) = s.devices[first]
      BY <3>6, <3>7 DEF ScopingControllerId
    <3> HIDE DEF first, own
    <3>11. View(s).controller = s.scope.device
      BY <3>1, <3>4, <3>6, <3>9, <3>10, ViewFields
    <3> QED
      BY <2>1, <2>2, <3>3, <3>11, ViewFields DEF HeardAt
  <2> QED
    BY <2>3, <2>4
<1> QED
  BY <1>2, <1>3

\* A row in reach is that of the store.
LEMMA RowInReach ==
  ASSUME TableShows(table, s), NEW o \in Options, Reaches(o)
  PROVE  /\ RowShows(RowOf(o), s, o)
         /\ Catalog[o].category \in DOMAIN table.categories \cap Categories(View(s))
         /\ o \in OfferedIn(View(s), Catalog[o].category)
         /\ o \in DOMAIN table.categories[Catalog[o].category].rows
<1> DEFINE c == Catalog[o].category
<1>1. c \in DOMAIN table.categories \cap Categories(View(s)) /\ o \in OfferedIn(View(s), c)
  BY DEF Reaches, Categories, OfferedIn
<1>2. o \in DOMAIN table.categories[c].rows
  BY DEF Reaches
<1>3. RowShows(RowOf(o), s, o)
  BY <1>1, <1>2 DEF TableShows, CategoriesShow, CategoryShows, RowsShow, RowOf
<1> QED
  BY <1>1, <1>2, <1>3

LEMMA ShownRow ==
  ASSUME NEW t, NEW o \in Options, NEW row, RowShows(row, t, o)
  PROVE  /\ Resolve(t.conf, o, View(t)).enabled \/ t.armed = o => row.checked
         /\ row.readOnly = Inheriting(t.conf, o, View(t))
         /\ row.text # None
<1>1. IsRow(ApplyRowState(t, o)) /\ Painted(t, o) \in {ApplyRowState(t, o), Inert(ApplyRowState(t, o))}
  BY RowIsRow DEF Painted
<1>2. /\ Painted(t, o).checked = ApplyRowState(t, o).checked
      /\ Painted(t, o).readOnly = ApplyRowState(t, o).readOnly
  BY <1>1, InertDoes
<1>3. CASE Alike(row, Painted(t, o))
  <2>1. row.checked = ApplyRowState(t, o).checked
    BY <1>2, <1>3 DEF Alike
  <2>2. row.readOnly = ApplyRowState(t, o).readOnly
    BY <1>2, <1>3 DEF Alike
  <2> QED
    BY <2>1, <2>2, AppliedRow DEF RowShows
<1>4. CASE Alike(row, RowState(t, o, TRUE))
  <2>1. row.checked = RowState(t, o, TRUE).checked
    BY <1>4 DEF Alike
  <2>2. row.readOnly = RowState(t, o, TRUE).readOnly
    BY <1>4 DEF Alike
  <2> QED
    BY <2>1, <2>2, AppliedRow DEF RowShows
<1> QED
  BY <1>3, <1>4 DEF RowShows

\* No paint takes a row away.
LEMMA ProjectionKeeps ==
  ASSUME NEW cs, AreCategories(cs), NEW t, NEW c \in DOMAIN cs, NEW o \in DOMAIN cs[c].rows
  PROVE  /\ c \in DOMAIN ApplyProjectionToDom(cs, t)
         /\ o \in DOMAIN ApplyProjectionToDom(cs, t)[c].rows
<1> DEFINE ds == DeriveRows(cs, t)
           rows == [p \in DOMAIN cs[c].rows |->
                      IF p \in OfferedIn(View(t), c) THEN ApplyRowState(t, p) ELSE cs[c].rows[p]]
<1>1. DOMAIN ds = DOMAIN cs /\ AreCategories(ds)
  BY DeriveRowsDoes
<1>2. cs[c].rows # <<>> /\ IsCategory(cs[c])
  BY DEF AreCategories
<1>3. EnsureRowsRendered(cs[c], c, t) = cs[c]
  BY <1>2, EnsureDoes
<1>4. o \in DOMAIN ds[c].rows
  <2>1. CASE c \in Categories(View(t))
    <3>1. ds[c] = Derived(cs[c], c, t)
      BY <1>2, <2>1 DEF DeriveRows
    <3>2. Derived(cs[c], c, t) = [cs[c] EXCEPT !.rows = rows]
      BY <1>3 DEF Derived
    <3>3. rows = [p \in DOMAIN rows |-> rows[p]] /\ o \in DOMAIN rows
      OBVIOUS
    <3> HIDE DEF rows
    <3> QED
      BY <1>2, <3>1, <3>2, <3>3, WithRows
  <2>2. CASE c \notin Categories(View(t))
    BY <2>2 DEF DeriveRows
  <2> QED
    BY <2>1, <2>2
<1>5. ApplyProjectionToDom(cs, t) = ApplyBusyState(ds, t)
  BY DEF ApplyProjectionToDom
<1> HIDE DEF ds
<1>6. DOMAIN ApplyBusyState(ds, t) = DOMAIN cs
  BY <1>1, BusyDoes
<1>7. o \in DOMAIN ApplyBusyState(ds, t)[c].rows
  <2>1. CASE IsTableBusy(t)
    <3>1. ApplyBusyState(ds, t)[c].rows = [p \in DOMAIN ds[c].rows |-> Inert(ds[c].rows[p])]
      BY <1>1, <2>1, BusyDoes
    <3> QED
      BY <1>4, <3>1
  <2>2. CASE ~IsTableBusy(t)
    BY <1>1, <1>4, <2>2, BusyDoes
  <2> QED
    BY <2>1, <2>2
<1> QED
  BY <1>5, <1>6, <1>7

\* The row painted is that of the store.
LEMMA PaintingDoes ==
  ASSUME NEW o, IsTable(table), NEW t, ~IsTableBusy(t), NEW cache,
         Catalog[o].category \in DOMAIN table.categories \cap Categories(View(t)),
         o \in DOMAIN table.categories[Catalog[o].category].rows \cap OfferedIn(View(t), Catalog[o].category),
         NEW tab \in {RowPainted(t, o), Repainted([table EXCEPT !.cache = cache], t)}
  PROVE  tab.categories[Catalog[o].category].rows[o] = ApplyRowState(t, o)
<1> DEFINE c == Catalog[o].category
           old == table.categories
<1>1. /\ DOMAIN table = {"key", "categories", "cache", "opened"} /\ AreCategories(old)
      /\ IsCategory(old[c])
  BY DEF IsTable, AreCategories
<1>2. CASE tab = RowPainted(t, o)
  <2> DEFINE rows == [old[c].rows EXCEPT ![o] = ApplyRowState(t, o)]
             cat  == [old[c] EXCEPT !.rows = rows]
             cs   == [old EXCEPT ![c] = cat]
  <2>1. tab = [table EXCEPT !.categories = cs]
    BY <1>2 DEF RowPainted
  <2>2. rows = [p \in DOMAIN rows |-> rows[p]] /\ rows[o] = ApplyRowState(t, o)
    OBVIOUS
  <2> HIDE DEF rows
  <2>3. cat.rows = rows
    BY <1>1, <2>2, WithRows
  <2> HIDE DEF cat
  <2>4. cs[c] = cat
    OBVIOUS
  <2> HIDE DEF cs
  <2>5. tab.categories = cs
    BY <1>1, <2>1
  <2> QED
    BY <2>2, <2>3, <2>4, <2>5
<1>3. CASE tab = Repainted([table EXCEPT !.cache = cache], t)
  <2> DEFINE half == [table EXCEPT !.cache = cache]
             cs == ApplyProjectionToDom(old, t)
  <2>1. DOMAIN half = DOMAIN table /\ half.categories = old
    BY <1>1
  <2> HIDE DEF half
  <2>2. Repainted(half, t) = [half EXCEPT !.categories = cs]
    BY <2>1 DEF Repainted
  <2>3. o \in DOMAIN cs[c].rows
    BY <1>1, ProjectionKeeps
  <2>4. RowsDerived(cs[c].rows, c, t)
    BY <1>1, ProjectionDoes
  <2>5. cs[c].rows[o] = ApplyRowState(t, o)
    BY <2>3, <2>4 DEF RowsDerived
  <2> HIDE DEF cs
  <2>6. tab = Repainted(half, t)
    BY <1>3 DEF half
  <2>7. tab.categories = cs
    BY <1>1, <2>1, <2>2, <2>6
  <2> QED
    BY <2>5, <2>7
<1> QED
  BY <1>2, <1>3

\* What a click does to the store.
LEMMA ToggleDoes ==
  ASSUME DevicesIInv, NEW o \in Options, Toggle(o)
  PROVE  /\ s.loaded /\ Reaches(o) /\ ~IsTableBusy(s) /\ TableShows(table, s) /\ IsTable(table)
         /\ DOMAIN s = StoreFields /\ DOMAIN s' = StoreFields
         /\ s'.scope = s.scope /\ s'.devices = s.devices /\ s'.owner = s.owner /\ s'.request = s.request
         /\ s'.seq = s.seq /\ s'.applied = s.applied /\ s'.loaded = s.loaded
         /\ \/ s.armed = o /\ s'.armed = None /\ s'.conf = s.conf /\ table' = RowPainted(s', o)
            \/ /\ s.armed # o /\ Arms(o, View(s), RowOf(o))
               /\ s'.armed = o /\ s'.conf = s.conf /\ table' = RowPainted(s', o)
            \/ /\ s.armed # o /\ ~Arms(o, View(s), RowOf(o)) /\ s'.armed = None
               /\ s'.conf = TriStateTransition(s.conf, o, View(s), RowOf(o))
               /\ \E cache : table' = Repainted([table EXCEPT !.cache = cache], s')
<1>1. s.loaded /\ Reaches(o) /\ ~RowOf(o).disabled
  BY DEF Toggle, Reaches, Ready
<1>2. DOMAIN s = StoreFields /\ IsTable(table) /\ TableShows(table, s)
  BY <1>1, WhenLoaded
<1>3. ~IsTableBusy(s)
  BY <1>1, <1>2, LiveRow
<1>4. ASSUME NEW a, s' = [s EXCEPT !.armed = a]
      PROVE  /\ DOMAIN s' = StoreFields /\ s'.armed = a /\ s'.conf = s.conf
             /\ s'.scope = s.scope /\ s'.devices = s.devices /\ s'.owner = s.owner /\ s'.request = s.request
             /\ s'.seq = s.seq /\ s'.applied = s.applied /\ s'.loaded = s.loaded
  BY <1>2, <1>4 DEF StoreFields
<1>5. CASE s.armed = o /\ s' = [s EXCEPT !.armed = None] /\ table' = RowPainted(s', o)
  BY <1>1, <1>2, <1>3, <1>4, <1>5
<1>6. CASE s.armed # o /\ Arms(o, View(s), RowOf(o)) /\ s' = [s EXCEPT !.armed = o] /\ table' = RowPainted(s', o)
  BY <1>1, <1>2, <1>3, <1>4, <1>6
<1>7. CASE s.armed # o /\ ~Arms(o, View(s), RowOf(o)) /\ Edit(TriStateTransition(s.conf, o, View(s), RowOf(o)))
  <2> DEFINE conf == TriStateTransition(s.conf, o, View(s), RowOf(o))
  <2>1. /\ s' = Edited(s, conf)
        /\ table' = Repainted([table EXCEPT !.cache = InvalidateCacheForMutation(table.cache, s, View(s).id)], s')
    BY <1>7 DEF Edit
  <2>2. \E cache : table' = Repainted([table EXCEPT !.cache = cache], s')
    BY <2>1
  <2> HIDE DEF conf
  <2>3. /\ DOMAIN s' = StoreFields /\ s'.armed = None /\ s'.conf = conf
        /\ s'.scope = s.scope /\ s'.devices = s.devices /\ s'.owner = s.owner /\ s'.request = s.request
        /\ s'.seq = s.seq /\ s'.applied = s.applied /\ s'.loaded = s.loaded
    BY <1>2, <2>1, EditedDoes
  <2> QED
    BY <1>1, <1>2, <1>3, <1>7, <2>2, <2>3 DEF conf
<1> QED
  BY <1>5, <1>6, <1>7 DEF Toggle

\* The row clicked shows the store, and is then painted from it.
LEMMA ToggledRow ==
  ASSUME DevicesIInv, NEW o \in Options, Toggle(o)
  PROVE  /\ View(s') = View(s)
         /\ RowShows(RowOf(o), s, o) /\ RowOf(o)' = ApplyRowState(s', o)
<1> DEFINE c == Catalog[o].category
<1>1. /\ Reaches(o) /\ TableShows(table, s) /\ IsTable(table) /\ ~IsTableBusy(s)
      /\ s'.scope = s.scope /\ s'.owner = s.owner /\ s'.request = s.request
      /\ View(s') = View(s)
      /\ \/ table' = RowPainted(s', o)
         \/ \E cache : table' = Repainted([table EXCEPT !.cache = cache], s')
  BY ToggleDoes, SameView
<1>2. /\ RowShows(RowOf(o), s, o)
      /\ c \in DOMAIN table.categories \cap Categories(View(s))
      /\ o \in OfferedIn(View(s), c) /\ o \in DOMAIN table.categories[c].rows
  BY <1>1, RowInReach
<1>3. ~IsTableBusy(s')
  BY <1>1 DEF IsTableBusy
<1>4. table'.categories[c].rows[o] = ApplyRowState(s', o)
  <2>1. PICK cache : table' \in {RowPainted(s', o), Repainted([table EXCEPT !.cache = cache], s')}
    BY <1>1
  <2> QED
    BY <1>1, <1>2, <1>3, <2>1, PaintingDoes
<1> QED
  BY <1>1, <1>2, <1>4 DEF RowOf

LEMMA ToggleTakes ==
  ASSUME OffersKeepLevels, DevicesIInv, GesturesIInv, NEW o \in Options, Toggle(o),
         s.scope = Global \/ View(s).device # None
  PROVE  ~IsTableBusy(s) /\ Took(RowOf(o), RowOf(o)')
<1> DEFINE v == View(s)
           row == RowOf(o)
           new == RowOf(o)'
<1>1. /\ ~IsTableBusy(s) /\ Reaches(o) /\ s'.scope = s.scope
      /\ \/ s.armed = o /\ s'.armed = None /\ s'.conf = s.conf
         \/ s.armed # o /\ Arms(o, v, row) /\ s'.armed = o /\ s'.conf = s.conf
         \/ /\ s.armed # o /\ ~Arms(o, v, row) /\ s'.armed = None
            /\ s'.conf = TriStateTransition(s.conf, o, v, row)
  BY ToggleDoes
<1>2. View(s') = v /\ RowShows(row, s, o) /\ new = ApplyRowState(s', o)
  BY ToggledRow
<1> HIDE DEF row, new
<1>3. /\ Resolve(s.conf, o, v).enabled \/ s.armed = o => row.checked
      /\ row.readOnly = Inheriting(s.conf, o, v) /\ row.text # None
  BY <1>2, ShownRow
<1>4. /\ new.checked = (Resolve(s'.conf, o, View(s')).enabled \/ s'.armed = o)
      /\ new.readOnly = Inheriting(s'.conf, o, View(s'))
  BY <1>2, AppliedRow
<1>5. o # None
  BY OptionRowsAssumption
<1>6. CASE s.armed = o /\ s'.armed = None /\ s'.conf = s.conf
  <2>1. v.device # None
    BY <1>5, <1>6 DEF GesturesIInv, ArmedOK, Global
  <2>2. ~Resolve(s.conf, o, v).enabled /\ ~Inheriting(s.conf, o, v)
    BY <1>5, <1>6, <2>1 DEF GesturesIInv, ArmedOK
  <2>3. Took(row, new)
    BY <1>2, <1>3, <1>4, <1>5, <1>6, <2>2 DEF Took
  <2> QED
    BY <1>1, <2>3 DEF row, new
<1>7. CASE s.armed # o /\ Arms(o, v, row) /\ s'.armed = o /\ s'.conf = s.conf
  <2>1. ~row.readOnly /\ ~row.checked
    BY <1>7 DEF Arms
  <2>2. Took(row, new)
    BY <1>2, <1>3, <1>4, <1>7, <2>1 DEF Took
  <2> QED
    BY <1>1, <2>2 DEF row, new
<1>8. CASE /\ s.armed # o /\ ~Arms(o, v, row) /\ s'.armed = None
           /\ s'.conf = TriStateTransition(s.conf, o, v, row)
  <2>1. /\ scene \in Scenes /\ s.scope.kind \in {"global", "controller", "device"}
        /\ PlaceOK(scene, s) /\ o \in Offered(v)
    BY <1>1 DEF DevicesIInv, StoreOK, GesturesIInv, Reaches
  <2>2. HeardAt(o, v)
    BY <2>1, OfferedIsHeard
  <2> DEFINE conf == TriStateTransition(s.conf, o, v, row)
  <2> HIDE DEF v
  <2>3. IF row.readOnly THEN ~Resolve(conf, o, v).enabled /\ ~Inheriting(conf, o, v)
        ELSE IF row.checked THEN ~Resolve(conf, o, v).enabled \/ Inheriting(conf, o, v)
        ELSE Resolve(conf, o, v).enabled /\ ~Inheriting(conf, o, v)
    BY <1>3, <1>8, <2>2, TransitionTakes
  <2> HIDE DEF conf
  <2>4. /\ new.checked = (Resolve(conf, o, v).enabled \/ None = o)
        /\ new.readOnly = Inheriting(conf, o, v)
    BY <1>2, <1>4, <1>8 DEF conf
  <2>5. Took(row, new)
    BY <1>5, <2>3, <2>4 DEF Took
  <2> QED
    BY <1>1, <2>5 DEF row, new
<1> QED
  BY <1>1, <1>6, <1>7, <1>8

-----------------------------------------------------------------------------
(* The steps keep the places of gestures. *)

\* Of the store the places of gestures are said of a few fields only.
LEMMA PlaceStays ==
  ASSUME NEW page, NEW t, PlaceOK(page, t), NEW u, u.scope = t.scope, u.devices = t.devices,
         u.owner = t.owner, u.request = t.request, u.loaded = t.loaded
  PROVE  PlaceOK(page, u)
BY DEF PlaceOK

LEMMA ArmedStays ==
  ASSUME NEW t, ArmedOK(t), NEW u, u.scope = t.scope, u.devices = t.devices, u.owner = t.owner,
         u.armed = None \/ (u.armed = t.armed /\ u.conf = t.conf)
  PROVE  ArmedOK(u)
<1>1. View(u) = View(t)
  BY SameView
<1> QED
  BY <1>1 DEF ArmedOK

\* A step of the store alone.
LEMMA StoreStep ==
  ASSUME GesturesIInv, scene' = scene, fetches' = fetches, s'.seq = s.seq, s'.applied = s.applied,
         PlaceOK(scene, s'), ArmedOK(s'),
         \/ boot' = boot
         \/ boot'.at \notin Asking
         \/ /\ boot'.controllers = boot.controllers /\ boot'.seq = boot.seq
            /\ boot.at \in Asking /\ (boot'.at = "devices" => scene.mode # "global")
  PROVE  GesturesIInv'
<1>1. BootListOK'
  BY DEF GesturesIInv, BootListOK, Asking
<1>2. TicketsOK'
  BY DEF GesturesIInv, TicketsOK
<1> QED
  BY <1>1, <1>2 DEF GesturesIInv

\* The same, when the view stays.
LEMMA ViewStep ==
  ASSUME GesturesIInv, scene' = scene, fetches' = fetches, s'.seq = s.seq, s'.applied = s.applied,
         s'.scope = s.scope, s'.devices = s.devices, s'.owner = s.owner, s'.request = s.request,
         s'.loaded = s.loaded,
         s'.armed = None \/ (s'.armed = s.armed /\ s'.conf = s.conf) \/ ArmedOK(s'),
         \/ boot' = boot
         \/ boot'.at \notin Asking
         \/ /\ boot'.controllers = boot.controllers /\ boot'.seq = boot.seq
            /\ boot.at \in Asking /\ (boot'.at = "devices" => scene.mode # "global")
  PROVE  GesturesIInv'
<1>1. PlaceOK(scene, s')
  BY PlaceStays DEF GesturesIInv
<1>2. ArmedOK(s')
  BY ArmedStays DEF GesturesIInv
<1> QED
  BY <1>1, <1>2, StoreStep

\* A page that begins.
LEMMA FreshPage ==
  ASSUME NEW page
  PROVE  /\ PlaceOK(page, InitialState) /\ ArmedOK(InitialState)
         /\ InitialState.seq = 0 /\ InitialState.applied = 0
<1>1. /\ InitialState.scope = Global /\ InitialState.devices = <<>> /\ InitialState.request = None
      /\ InitialState.armed = None /\ InitialState.seq = 0 /\ InitialState.applied = 0
  BY DEF InitialState
<1>2. PlaceOK(page, InitialState)
  BY <1>1 DEF PlaceOK, Global
<1>3. ArmedOK(InitialState)
  BY <1>1 DEF ArmedOK
<1> QED
  BY <1>1, <1>2, <1>3

LEMMA GesturesStart == Init => GesturesIInv
<1> SUFFICES ASSUME Init PROVE GesturesIInv
  OBVIOUS
<1>1. PlaceOK(scene, s) /\ ArmedOK(s)
  BY FreshPage DEF Init
<1>2. BootListOK /\ TicketsOK
  BY DEF Init, BootListOK, TicketsOK, Asking
<1> QED
  BY <1>1, <1>2 DEF GesturesIInv

LEMMA ReenterGestures ==
  ASSUME Reenter
  PROVE  GesturesIInv'
<1>1. s' = InitialState /\ fetches' = {} /\ boot'.at = "sync"
  BY DEF Reenter
<1>2. PlaceOK(scene', s') /\ ArmedOK(s')
  BY <1>1, FreshPage
<1>3. BootListOK' /\ TicketsOK'
  BY <1>1 DEF BootListOK, TicketsOK, Asking
<1> QED
  BY <1>2, <1>3 DEF GesturesIInv

LEMMA LoadedDoesToo ==
  ASSUME NEW t, DOMAIN t = StoreFields, NEW conf, NEW controllers
  PROVE  ModelLoaded(t, conf, controllers).devices = t.devices
BY DEF ModelLoaded, StoreFields

LEMMA StatusDoes ==
  ASSUME NEW t, DOMAIN t = StoreFields, NEW status
  PROVE  LET u == [t EXCEPT !.status = status]
         IN  /\ u.scope = t.scope /\ u.armed = t.armed /\ u.seq = t.seq /\ u.applied = t.applied
             /\ u.request = t.request /\ u.loaded = t.loaded /\ u.conf = t.conf
             /\ u.devices = t.devices /\ u.owner = t.owner
BY DEF StoreFields

LEMMA BootGestures ==
  ASSUME DevicesIInv, GesturesIInv, SyncResolves \/ FailConnection \/ NoControllers \/ ThemeSettles
  PROVE  GesturesIInv'
<1>1. DOMAIN boot = {"at", "seq", "controllers"} /\ DOMAIN s = StoreFields
  BY DEF DevicesIInv, StoreOK
<1>2. CASE SyncResolves
  <2>1. boot'.at = "controllers" /\ s' = s /\ scene' = scene /\ fetches' = fetches
    BY <1>1, <1>2 DEF SyncResolves
  <2> QED
    BY <2>1, ViewStep DEF Asking
<1>3. CASE FailConnection
  <2>1. boot'.at = "done" /\ s' = [s EXCEPT !.status = "connection-error"] /\ scene' = scene /\ fetches' = fetches
    BY <1>1, <1>3 DEF FailConnection
  <2> QED
    BY <1>1, <2>1, StatusDoes, ViewStep DEF Asking
<1>4. CASE NoControllers
  <2>1. boot'.at = "none" /\ s' = s /\ scene' = scene /\ fetches' = fetches
    BY <1>1, <1>4 DEF NoControllers
  <2> QED
    BY <2>1, ViewStep DEF Asking
<1>5. CASE ThemeSettles
  <2>1. /\ boot.at = "theme" /\ boot'.controllers = boot.controllers /\ boot'.seq = boot.seq
        /\ boot'.at = (IF scene.mode = "global" THEN "done" ELSE "devices")
        /\ s' = s /\ scene' = scene /\ fetches' = fetches
    BY <1>1, <1>5 DEF ThemeSettles
  <2> QED
    BY <2>1, ViewStep DEF Asking
<1> QED
  BY <1>2, <1>3, <1>4, <1>5

LEMMA ControllersGestures ==
  ASSUME DevicesIInv, GesturesIInv, NEW controllers \in scene.sidebars, ControllersResolve(controllers)
  PROVE  GesturesIInv'
<1>1. /\ scene \in Scenes /\ DOMAIN s = StoreFields /\ s.seq \in Nat /\ s.applied \in 0..s.seq
      /\ ~s.loaded /\ s.scope = Global /\ fetches = {} /\ s.armed = None /\ s.devices = <<>>
  BY DEF DevicesIInv, StoreOK, NotLoadedOK, ControllersResolve, GesturesIInv, PlaceOK
<1>2. /\ scene' = scene /\ fetches' = fetches /\ boot'.at = "features" /\ boot'.seq = s'.seq
      /\ boot'.controllers = controllers
  BY DEF ControllersResolve
<1>3. IF scene.mode = "controllers" THEN controllers \in Seq(DOMAIN scene.lists) \ {<<>>}
      ELSE controllers = <<>>
  BY <1>1, DevicePageAssumption DEF ControllersResolve
<1>4. BootListOK'
  BY <1>2, <1>3 DEF BootListOK
<1>5. CASE scene.mode = "global"
  <2>1. s' = s
    BY <1>5 DEF ControllersResolve
  <2>2. TicketsOK'
    BY <1>1, <1>2, <1>5 DEF TicketsOK
  <2> QED
    BY <1>2, <1>4, <2>1, <2>2 DEF GesturesIInv
<1>6. CASE scene.mode # "global"
  <2>1. /\ s'.scope \in {Global, AtController(controllers[1])} /\ s'.armed = None
        /\ s'.seq = s.seq + 1 /\ s'.applied = s.applied /\ s'.devices = <<>>
        /\ scene.mode # "controllers" => s'.scope = Global
    <3>1. CASE controllers = <<>>
      <4>1. s' = DevicesRequested(s, None) /\ scene.mode # "controllers"
        BY <1>6, <3>1 DEF ControllersResolve
      <4> QED
        BY <1>1, <4>1, RequestedDoes
    <3>2. CASE controllers # <<>>
      <4> DEFINE t == ScopeChanged(s, AtController(controllers[1]))
      <4>1. s' = DevicesRequested(t, controllers[1]) /\ scene.mode = "controllers"
        BY <1>3, <1>6, <3>2 DEF ControllersResolve
      <4>2. /\ DOMAIN t = StoreFields /\ t.scope = AtController(controllers[1]) /\ t.armed = None
            /\ t.seq = s.seq /\ t.applied = s.applied /\ t.devices = s.devices
        BY <1>1, ScopeChangedDoes
      <4> HIDE DEF t
      <4> DEFINE u == DevicesRequested(t, controllers[1])
      <4>3. /\ u.scope = t.scope /\ u.armed = t.armed /\ u.seq = t.seq + 1
            /\ u.applied = t.applied /\ u.devices = t.devices
        BY <4>2, RequestedDoes
      <4> HIDE DEF u
      <4>4. s' = u
        BY <4>1 DEF u
      <4> QED
        BY <1>1, <4>1, <4>2, <4>3, <4>4
    <3> QED
      BY <3>1, <3>2
  <2>2. PlaceOK(scene, s')
    BY <2>1 DEF PlaceOK, Global, AtController
  <2>3. ArmedOK(s')
    BY <2>1 DEF ArmedOK
  <2>4. TicketsOK'
    BY <1>1, <1>2, <2>1 DEF TicketsOK
  <2> QED
    BY <1>2, <1>4, <2>2, <2>3, <2>4 DEF GesturesIInv
<1> QED
  BY <1>5, <1>6

LEMMA FeaturesGestures ==
  ASSUME DevicesIInv, GesturesIInv, NEW conf, FeaturesResolve(conf)
  PROVE  GesturesIInv'
<1>1. /\ DOMAIN s = StoreFields /\ DOMAIN boot = {"at", "seq", "controllers"}
      /\ ~s.loaded /\ s.devices = <<>>
  BY DEF DevicesIInv, StoreOK, FeaturesResolve, GesturesIInv, PlaceOK
<1>2. /\ scene' = scene /\ fetches' = fetches /\ boot.at = "features" /\ boot'.at = "theme"
      /\ boot'.seq = boot.seq /\ boot'.controllers = boot.controllers
      /\ s' = ModelLoaded(s, conf, boot.controllers)
  BY <1>1 DEF FeaturesResolve
<1>3. /\ s'.scope = s.scope /\ s'.armed = None /\ s'.seq = s.seq /\ s'.applied = s.applied
      /\ s'.request = s.request /\ s'.owner = s.owner /\ s'.devices = <<>>
  BY <1>1, <1>2, LoadedDoes, LoadedDoesToo
<1>4. PlaceOK(scene, s') /\ ArmedOK(s')
  BY <1>1, <1>3 DEF GesturesIInv, PlaceOK, ArmedOK
<1> QED
  BY <1>2, <1>3, <1>4, StoreStep DEF Asking

\* An answer moves the view only if it is the one waited for, and then to a
\* device of the list it brings.
LEMMA OutcomeGestures ==
  ASSUME DevicesIInv, GesturesIInv, s.loaded, NEW f, NEW devices, NEW failed, Outcome(f, devices, failed),
         devices = <<>> \/ (f.controller \in DOMAIN scene.lists /\ devices \in scene.lists[f.controller]),
         failed => devices = <<>>, f.seq # s.applied,
         f.controller = None => scene.mode # "controllers"
  PROVE  /\ PlaceOK(scene, s') /\ ArmedOK(s')
         /\ s'.seq = s.seq /\ s'.applied \in {s.applied, f.seq}
<1>1. StoreOK(s) /\ DOMAIN s = StoreFields /\ scene \in Scenes
  BY DEF DevicesIInv, StoreOK
<1> DEFINE t == DevicesLoaded(s, f, devices, failed)
           jumps == t.applied = f.seq /\ ~failed /\ devices # <<>> /\ f.controller # None
           place == AtDevice(f.controller, devices[1])
<1>2. s' = IF jumps THEN ScopeChanged(t, place) ELSE t
  BY DEF Outcome
<1>3. CASE ~Answers(s, f)
  <2>1. t = s
    BY <1>3 DEF DevicesLoaded
  <2>2. s' = s
    BY <1>2, <2>1
  <2> QED
    BY <2>2 DEF GesturesIInv
<1>4. CASE Answers(s, f)
  <2>1. /\ DOMAIN t = StoreFields /\ t.scope = s.scope /\ t.armed = s.armed /\ t.seq = s.seq
        /\ t.applied = f.seq /\ t.owner = f.controller /\ t.request = None
    BY <1>1, <1>4, AnsweredDoes
  <2>a. t.loaded
    BY <1>1, AnsweredDoes, Zenon
  <2>2. t.devices = devices
    BY <1>1, <1>4 DEF DevicesLoaded, StoreFields
  <2>3. s.request # None
    BY <1>4 DEF Answers
  <2>4. jumps <=> devices # <<>> /\ f.controller # None
    BY <2>1
  <2> HIDE DEF t, jumps
  <2>5. CASE jumps
    <3>1. PICK l : l = devices /\ l \in scene.lists[f.controller] /\ f.controller \in DOMAIN scene.lists /\ l # <<>>
      BY <2>4, <2>5
    <3>2. l \in Seq(Range(l)) /\ None \notin Range(l)
      BY <1>1, <3>1, DevicePageAssumption
    <3>3. l[1] \in Range(l)
      BY <3>1, <3>2
    <3>4. place.kind = "device" /\ place.controller = f.controller /\ place.device = devices[1]
      BY DEF AtDevice
    <3> HIDE DEF place
    <3>5. /\ s'.scope = place /\ s'.armed = None /\ s'.seq = s.seq /\ s'.applied = f.seq
          /\ s'.owner = f.controller /\ s'.request = None /\ s'.devices = devices /\ s'.loaded
      <4>1. s' = ScopeChanged(t, place)
        BY <1>2, <2>5
      <4> DEFINE u == ScopeChanged(t, place)
      <4>2. /\ u.scope = place /\ u.armed = None /\ u.seq = t.seq /\ u.applied = t.applied
            /\ u.request = t.request /\ u.owner = t.owner /\ u.devices = t.devices
        BY <2>1, ScopeChangedDoes
      <4>3. u.loaded
        BY <2>1, <2>a, ScopeChangedDoes, Zenon
      <4> HIDE DEF u
      <4>4. s' = u
        BY <4>1 DEF u
      <4> QED
        BY <2>1, <2>2, <4>2, <4>3, <4>4
    <3>6. PlaceOK(scene, s')
      BY <3>1, <3>2, <3>3, <3>4, <3>5 DEF PlaceOK
    <3>7. ArmedOK(s')
      BY <3>5 DEF ArmedOK
    <3> QED
      BY <3>5, <3>6, <3>7
  <2>6. CASE ~jumps
    <3>1. s' = t
      BY <1>2, <2>6
    <3>2. CASE devices = <<>>
      <4>1. Range(devices) = {}
        BY <3>2 DEF Range
      <4>2. View(s').device = None
        BY <2>2, <3>1, <4>1, ViewFields
      <4>3. PlaceOK(scene, s')
        BY <2>1, <2>2, <2>a, <3>1, <3>2, <4>1 DEF GesturesIInv, PlaceOK
      <4>4. ArmedOK(s')
        BY <2>1, <3>1, <4>2 DEF GesturesIInv, ArmedOK
      <4> QED
        BY <2>1, <3>1, <4>3, <4>4
    <3>3. CASE devices # <<>>
      <4>1. f.controller = None /\ scene.mode # "controllers"
        BY <2>4, <2>6, <3>3
      <4>2. s.scope.kind # "device" /\ s.armed = None
        BY <2>3, <4>1 DEF GesturesIInv, PlaceOK, ArmedOK
      <4>3. PlaceOK(scene, s')
        BY <2>1, <2>2, <2>a, <3>1, <3>3, <4>2 DEF GesturesIInv, PlaceOK
      <4>4. ArmedOK(s')
        BY <2>1, <3>1, <4>2 DEF ArmedOK
      <4> QED
        BY <2>1, <3>1, <4>3, <4>4
    <3> QED
      BY <3>2, <3>3
  <2> QED
    BY <2>5, <2>6
<1> QED
  BY <1>3, <1>4

LEMMA ListAnswered ==
  ASSUME NEW c, NEW l \in Lists(c)
  PROVE  (l[1] = <<>> \/ l[1] \in scene.lists[c]) /\ (l[2] => l[1] = <<>>)
BY DEF Lists

LEMMA DevicesGestures ==
  ASSUME DevicesIInv, GesturesIInv, DevicesResolve
  PROVE  GesturesIInv'
<1>1. /\ boot.at = "devices" /\ s.loaded /\ DOMAIN boot = {"at", "seq", "controllers"}
      /\ scene \in Scenes /\ scene.mode # "global"
  BY DEF DevicesIInv, NotLoadedOK, DevicesResolve, GesturesIInv, BootListOK
<1>2. boot'.at = "done" /\ scene' = scene /\ fetches' = fetches
  BY <1>1 DEF DevicesResolve
<1> DEFINE f == [controller |-> InitialController, seq |-> boot.seq]
<1>3. PICK l \in Lists(InitialController) : Outcome(f, l[1], l[2])
  BY DEF DevicesResolve
<1>4. f.controller = InitialController /\ f.seq = boot.seq
  OBVIOUS
<1> HIDE DEF f
<1>5. boot.seq # s.applied /\ \A g \in fetches : g.seq # boot.seq
  BY <1>1 DEF GesturesIInv, TicketsOK, Asking
<1>6. InitialController \in DOMAIN scene.lists /\ (InitialController = None => scene.mode # "controllers")
  <2>1. CASE scene.mode = "controllers"
    <3>1. boot.controllers \in Seq(DOMAIN scene.lists) /\ boot.controllers # <<>>
      BY <1>1, <2>1 DEF GesturesIInv, BootListOK, Asking
    <3>2. boot.controllers[1] \in DOMAIN scene.lists
      BY <3>1
    <3> QED
      BY <1>1, <2>1, <3>1, <3>2, DevicePageAssumption DEF InitialController
  <2>2. CASE scene.mode # "controllers"
    <3>1. boot.controllers = <<>>
      BY <1>1, <2>2 DEF GesturesIInv, BootListOK, Asking
    <3> QED
      BY <1>1, <2>2, <3>1, DevicePageAssumption DEF InitialController
  <2> QED
    BY <2>1, <2>2
<1>7. /\ PlaceOK(scene, s') /\ ArmedOK(s')
      /\ s'.seq = s.seq /\ s'.applied \in {s.applied, boot.seq}
  BY <1>1, <1>3, <1>4, <1>5, <1>6, ListAnswered, OutcomeGestures
<1>8. BootListOK'
  BY <1>2 DEF BootListOK, Asking
<1>9. TicketsOK'
  BY <1>2, <1>5, <1>7 DEF GesturesIInv, TicketsOK, Asking
<1> QED
  BY <1>2, <1>7, <1>8, <1>9 DEF GesturesIInv

LEMMA FetchGestures ==
  ASSUME DevicesIInv, GesturesIInv, NEW f \in fetches, FetchSettles(f)
  PROVE  GesturesIInv'
<1>1. s.loaded /\ scene \in Scenes
  BY DEF DevicesIInv, NotLoadedOK
<1>2. boot' = boot /\ scene' = scene /\ fetches' = fetches \ {f}
  BY DEF FetchSettles
<1>3. PICK l \in Lists(f.controller) : Outcome(f, l[1], l[2])
  BY DEF FetchSettles
<1>4. /\ scene.mode = "controllers" /\ f.controller \in DOMAIN scene.lists /\ f.seq # s.applied
      /\ \A g \in fetches' : g.seq # f.seq
      /\ boot.at \in Asking => f.seq # boot.seq
  BY <1>2 DEF GesturesIInv, TicketsOK
<1>5. f.controller # None
  BY <1>1, <1>4, DevicePageAssumption
<1>6. /\ PlaceOK(scene, s') /\ ArmedOK(s')
      /\ s'.seq = s.seq /\ s'.applied \in {s.applied, f.seq}
  BY <1>1, <1>3, <1>4, <1>5, ListAnswered, OutcomeGestures
<1>7. BootListOK'
  BY <1>2 DEF GesturesIInv, BootListOK
<1>8. TicketsOK'
  BY <1>2, <1>4, <1>6 DEF GesturesIInv, TicketsOK
<1> QED
  BY <1>2, <1>6, <1>7, <1>8 DEF GesturesIInv

\* A step of the store that chooses a view.
LEMMA ScopedGestures ==
  ASSUME DevicesIInv, GesturesIInv, NEW scope, Scoped(scope),
         \/ scope = Global
         \/ \E d \in Range(s.devices) : scope = AtDevice(s.owner, d),
         scene' = scene, boot' = boot, fetches' = fetches
  PROVE  GesturesIInv'
<1>1. DOMAIN s = StoreFields /\ scene \in Scenes
  BY DEF DevicesIInv, StoreOK
<1>2. /\ s'.scope = scope /\ s'.armed = None /\ s'.seq = s.seq /\ s'.applied = s.applied
      /\ s'.request = s.request /\ s'.owner = s.owner /\ s'.devices = s.devices /\ s'.loaded = s.loaded
  BY <1>1, ScopeChangedDoes DEF Scoped
<1>3. ArmedOK(s')
  BY <1>2 DEF ArmedOK
<1>4. CASE scope = Global
  <2>1. PlaceOK(scene, s')
    BY <1>2, <1>4 DEF GesturesIInv, PlaceOK, Global
  <2> QED
    BY <1>2, <1>3, <2>1, StoreStep
<1>5. ASSUME NEW d \in Range(s.devices), scope = AtDevice(s.owner, d) PROVE GesturesIInv'
  <2>1. scope.kind = "device" /\ scope.controller = s.owner /\ scope.device = d
    BY <1>5 DEF AtDevice
  <2>2. s.devices # <<>>
    BY DEF Range
  <2>3. d # None
    BY <1>1, <2>2, DevicePageAssumption DEF GesturesIInv, PlaceOK
  <2>4. PlaceOK(scene, s')
    BY <1>2, <2>1, <2>2, <2>3 DEF GesturesIInv, PlaceOK
  <2> QED
    BY <1>2, <1>3, <2>4, StoreStep
<1> QED
  BY <1>4, <1>5

LEMMA ClickControllerGestures ==
  ASSUME DevicesIInv, GesturesIInv, NEW c \in DOMAIN scene.lists, ClickController(c)
  PROVE  GesturesIInv'
<1>1. /\ DOMAIN s = StoreFields /\ s.seq \in Nat /\ s.applied \in 0..s.seq /\ boot.seq \in 0..s.seq
  BY DEF DevicesIInv, StoreOK
<1> DEFINE t == ScopeChanged(s, AtController(c))
           u == DevicesRequested(t, c)
<1>2. /\ scene.mode = "controllers" /\ scene' = scene /\ boot' = boot
      /\ s' = u /\ fetches' = fetches \cup {s'.request}
  BY DEF ClickController
<1>3. /\ DOMAIN t = StoreFields /\ t.scope = AtController(c) /\ t.armed = None /\ t.seq = s.seq
      /\ t.applied = s.applied /\ t.owner = s.owner /\ t.devices = s.devices /\ t.loaded = s.loaded
  BY <1>1, ScopeChangedDoes
<1> HIDE DEF t
<1>4. /\ u.scope = t.scope /\ u.armed = t.armed /\ u.seq = t.seq + 1 /\ u.applied = t.applied
      /\ u.owner = t.owner /\ u.devices = t.devices /\ u.loaded = t.loaded
      /\ u.request = [controller |-> c, seq |-> t.seq + 1]
  BY <1>3, RequestedDoes
<1> HIDE DEF u
<1>5. PlaceOK(scene, s')
  BY <1>2, <1>3, <1>4 DEF GesturesIInv, PlaceOK, AtController
<1>6. ArmedOK(s')
  BY <1>2, <1>3, <1>4 DEF ArmedOK
<1>7. s'.seq = s.seq + 1 /\ s'.applied = s.applied /\ s'.request.controller = c /\ s'.request.seq = s.seq + 1
  BY <1>2, <1>3, <1>4
<1>8. TicketsOK'
  <2>1. ASSUME NEW f \in fetches
        PROVE  /\ f.controller \in DOMAIN scene.lists /\ f.seq \in 1..s.seq /\ f.seq # s.applied
               /\ f.seq # s.seq + 1
    BY <1>1 DEF GesturesIInv, TicketsOK
  <2>2. \A f \in fetches' : f.controller \in DOMAIN scene.lists /\ f.seq \in 1..s'.seq /\ f.seq # s'.applied
    BY <1>1, <1>2, <1>7, <2>1
  <2>3. \A f, g \in fetches' : f.seq = g.seq => f = g
    BY <1>2, <1>7, <2>1 DEF GesturesIInv, TicketsOK
  <2>4. boot.at \in Asking /\ scene.mode # "global" =>
          boot.seq # s'.applied /\ \A f \in fetches' : f.seq # boot.seq
    BY <1>1, <1>2, <1>7 DEF GesturesIInv, TicketsOK
  <2> QED
    BY <1>2, <2>2, <2>3, <2>4 DEF TicketsOK
<1>9. BootListOK'
  BY <1>2 DEF GesturesIInv, BootListOK
<1> QED
  BY <1>2, <1>5, <1>6, <1>8, <1>9 DEF GesturesIInv

LEMMA RefreshGestures ==
  ASSUME DevicesIInv, GesturesIInv, NEW controllers, RefreshControllers(controllers)
  PROVE  GesturesIInv'
<1>1. /\ s' = [s EXCEPT !.controllers = controllers] /\ DOMAIN s = StoreFields
      /\ scene' = scene /\ boot' = boot /\ fetches' = fetches
  BY DEF RefreshControllers, DevicesIInv, StoreOK
<1>2. /\ s'.scope = s.scope /\ s'.armed = s.armed /\ s'.seq = s.seq /\ s'.applied = s.applied
      /\ s'.request = s.request /\ s'.loaded = s.loaded /\ s'.conf = s.conf
      /\ s'.devices = s.devices /\ s'.owner = s.owner
  BY <1>1 DEF StoreFields
<1> QED
  BY <1>1, <1>2, ViewStep

LEMMA ToggleGestures ==
  ASSUME DevicesIInv, GesturesIInv, NEW o \in Options, Toggle(o)
  PROVE  GesturesIInv'
<1>1. scene' = scene /\ boot' = boot /\ fetches' = fetches
  BY DEF Toggle, TableVars
<1>2. /\ s'.scope = s.scope /\ s'.devices = s.devices /\ s'.owner = s.owner /\ s'.request = s.request
      /\ s'.seq = s.seq /\ s'.applied = s.applied /\ s'.loaded = s.loaded
      /\ \/ s'.armed = None
         \/ s.armed # o /\ Arms(o, View(s), RowOf(o)) /\ s'.armed = o /\ s'.conf = s.conf
  BY ToggleDoes
<1>3. View(s') = View(s) /\ RowShows(RowOf(o), s, o)
  BY ToggledRow
<1>4. s'.armed = None \/ ArmedOK(s')
  <2>1. ASSUME s.armed # o, Arms(o, View(s), RowOf(o)), s'.armed = o, s'.conf = s.conf
        PROVE  ArmedOK(s')
    <3>1. ~RowOf(o).checked /\ ~RowOf(o).readOnly /\ s.scope.device # None /\ Catalog[o].valued
      BY <2>1, ViewFields DEF Arms
    <3>2. /\ Resolve(s.conf, o, View(s)).enabled => RowOf(o).checked
          /\ RowOf(o).readOnly = Inheriting(s.conf, o, View(s))
      BY <1>3, ShownRow
    <3>3. ~Resolve(s.conf, o, View(s)).enabled /\ ~Inheriting(s.conf, o, View(s))
      BY <3>1, <3>2
    <3>4. s.scope.kind = "device"
      BY <3>1 DEF GesturesIInv, PlaceOK, DevicesIInv, StoreOK
    <3> QED
      BY <1>2, <1>3, <2>1, <3>1, <3>3, <3>4 DEF ArmedOK
  <2> QED
    BY <1>2, <2>1
<1> QED
  BY <1>1, <1>2, <1>4, ViewStep

\* The steps that edit or repaint and keep the view, with no row armed behind
\* them or the same row as before.
LEMMA EditingGestures ==
  ASSUME DevicesIInv, GesturesIInv, Editing
  PROVE  GesturesIInv'
<1>1. DOMAIN s = StoreFields
  BY DEF DevicesIInv, StoreOK
<1>2. ASSUME NEW conf, s' = Edited(s, conf), scene' = scene, boot' = boot, fetches' = fetches
      PROVE  GesturesIInv'
  <2>1. /\ s'.scope = s.scope /\ s'.armed = None /\ s'.seq = s.seq /\ s'.applied = s.applied
        /\ s'.request = s.request /\ s'.loaded = s.loaded /\ s'.devices = s.devices /\ s'.owner = s.owner
    BY <1>1, <1>2, EditedDoes
  <2> QED
    BY <1>2, <2>1, ViewStep
<1>3. ASSUME NEW o \in Options, HandleFocusOut(o) PROVE GesturesIInv'
  <2>1. s' = [s EXCEPT !.armed = None] /\ scene' = scene /\ boot' = boot /\ fetches' = fetches
    BY <1>3 DEF HandleFocusOut, TableVars
  <2>2. /\ s'.scope = s.scope /\ s'.armed = None /\ s'.seq = s.seq /\ s'.applied = s.applied
        /\ s'.request = s.request /\ s'.loaded = s.loaded /\ s'.devices = s.devices /\ s'.owner = s.owner
    BY <1>1, <2>1 DEF StoreFields
  <2> QED
    BY <2>1, <2>2, ViewStep
<1>4. ASSUME NEW o \in Options, Toggle(o) PROVE GesturesIInv'
  BY <1>4, ToggleGestures
<1>5. ASSUME NEW o \in Options, NEW text, CommitValue(o, text) PROVE GesturesIInv'
  <2>1. (s' = s \/ \E conf : s' = Edited(s, conf)) /\ scene' = scene /\ boot' = boot /\ fetches' = fetches
    BY <1>5 DEF CommitValue, TableVars
  <2> QED
    BY <1>2, <2>1, ViewStep
<1>6. ASSUME NEW cs, NEW open, SetCategoriesExpanded(cs, open) PROVE GesturesIInv'
  <2>1. s' = s /\ scene' = scene /\ boot' = boot /\ fetches' = fetches
    BY <1>6 DEF SetCategoriesExpanded, TableVars
  <2> QED
    BY <2>1, ViewStep
<1>7. ASSUME NEW filter, ChangeFilter(filter) PROVE GesturesIInv'
  <2>1. s' = [s EXCEPT !.filter = filter] /\ scene' = scene /\ boot' = boot /\ fetches' = fetches
    BY <1>7 DEF ChangeFilter, TableVars
  <2>2. /\ s'.scope = s.scope /\ s'.armed = s.armed /\ s'.seq = s.seq /\ s'.applied = s.applied
        /\ s'.request = s.request /\ s'.loaded = s.loaded /\ s'.conf = s.conf
        /\ s'.devices = s.devices /\ s'.owner = s.owner
    BY <1>1, <2>1 DEF StoreFields
  <2> QED
    BY <2>1, <2>2, ViewStep
<1>8. ASSUME NEW conf, Replace(conf) PROVE GesturesIInv'
  BY <1>2, <1>8 DEF Replace, TableVars
<1> QED
  BY <1>3, <1>4, <1>5, <1>6, <1>7, <1>8 DEF Editing, Fold, ToggleAll

LEMMA PersistGestures ==
  ASSUME DevicesIInv, GesturesIInv, PersistStarts \/ \E failed : PersistSettles(failed)
  PROVE  GesturesIInv'
<1>1. DOMAIN s = StoreFields
  BY DEF DevicesIInv, StoreOK
<1>2. scene' = scene /\ boot' = boot /\ fetches' = fetches
  BY DEF PersistStarts, PersistSettles
<1>3. \/ s' = [s EXCEPT !.status = "persisting"]
      \/ s' = [s EXCEPT !.armed = None, !.conf = s.anchor, !.status = "persist-error"]
      \/ s' = [s EXCEPT !.anchor = write, !.status = "ready"]
  BY DEF PersistStarts, PersistSettles
<1>4. /\ s'.scope = s.scope /\ s'.seq = s.seq /\ s'.applied = s.applied
      /\ s'.request = s.request /\ s'.loaded = s.loaded /\ s'.devices = s.devices /\ s'.owner = s.owner
      /\ s'.armed = None \/ (s'.armed = s.armed /\ s'.conf = s.conf)
  <2>1. CASE s' = [s EXCEPT !.status = "persisting"]
    BY <1>1, <2>1 DEF StoreFields
  <2>2. CASE s' = [s EXCEPT !.armed = None, !.conf = s.anchor, !.status = "persist-error"]
    BY <1>1, <2>2 DEF StoreFields
  <2>3. CASE s' = [s EXCEPT !.anchor = write, !.status = "ready"]
    BY <1>1, <2>3 DEF StoreFields
  <2> QED
    BY <1>3, <2>1, <2>2, <2>3
<1> QED
  BY <1>2, <1>4, ViewStep

LEMMA QuietGestures ==
  ASSUME GesturesIInv, UNCHANGED <<scene, s, boot, fetches>>
  PROVE  GesturesIInv'
BY ViewStep

\* Every step of the page.
LEMMA GesturesStep ==
  ASSUME DevicesIInv, GesturesIInv, [Next]_vars
  PROVE  GesturesIInv'
<1>1. CASE Booting
  BY <1>1, BootGestures, DevicesGestures, ControllersGestures, FeaturesGestures DEF Booting
<1>2. CASE Navigating
  <2>1. ASSUME ClickGlobal PROVE GesturesIInv'
    BY <2>1, ScopedGestures DEF ClickGlobal
  <2>2. ASSUME NEW d \in Range(s.devices), ClickDevice(d) PROVE GesturesIInv'
    BY <2>2, ScopedGestures DEF ClickDevice
  <2> QED
    BY <1>2, <2>1, <2>2, ReenterGestures, ClickControllerGestures, RefreshGestures
       DEF Navigating, RefreshAction, Retry
<1>3. CASE Editing
  BY <1>3, EditingGestures
<1>4. ASSUME NEW f \in fetches, FetchSettles(f) PROVE GesturesIInv'
  BY <1>4, FetchGestures
<1>5. CASE PersistStarts \/ \E failed \in BOOLEAN : PersistSettles(failed)
  BY <1>5, PersistGestures
<1>6. CASE RetryArms
  BY <1>6, QuietGestures DEF RetryArms, mountVars
<1>7. CASE scene.panel /\ PanelNext /\ UNCHANGED <<mountVars, s, table, retry, stale>>
  BY <1>7, QuietGestures DEF mountVars
<1>8. CASE UNCHANGED vars
  BY <1>8, QuietGestures DEF vars
<1> QED
  BY <1>1, <1>2, <1>3, <1>4, <1>5, <1>6, <1>7, <1>8 DEF Next

\* For any catalog, controllers and devices: the store is well formed, a row
\* that is armed is off, the table that is loaded shows the store, whatever
\* comes out of the cache and in whatever order rows are armed, each request
\* is answered once, and no token of the panel is ahead of the helper
\* (state.mjs, views/options.mjs and views/statusPanel.mjs).
THEOREM InductivePage == Spec => [](PageIInv /\ GesturesIInv)
<1>1. Init => PageIInv /\ GesturesIInv
  BY GesturesStart, DevicesStart, PanelStart DEF PageIInv
<1>2. PageIInv /\ GesturesIInv /\ [Next]_vars => (PageIInv /\ GesturesIInv)'
  BY PageStep, GesturesStep DEF PageIInv, GesturesIInv
<1> QED
  BY <1>1, <1>2, PTL DEF Spec

\* The devices of the page, the rows of its table and the cells of its status
\* panel are those the store stands for, whatever order answers, pushes and
\* gestures came in; a row that is not, is one another row has taken over
\* from, and off (DevicesLoaded, handleChange and the views on one dispatch).
THEOREM PageShowsItsState == Spec => []DeviceInv
<1>1. PageIInv => DeviceInv
  BY PageIInvSuffices
<1> QED
  BY <1>1, InductivePage, PTL

\* For every catalog whose offers keep to their levels: a click on a checkbox
\* leaves its row showing what the click asked for, whatever has answered,
\* failed or been edited before, and whichever row is armed (handleChange,
\* triStateTransition and the resolution of an option through its levels).
THEOREM ClicksWork == OffersKeepLevels => (Spec => GesturesTakeEffect)
<1> SUFFICES ASSUME OffersKeepLevels PROVE Spec => GesturesTakeEffect
  OBVIOUS
<1>1. PageIInv /\ GesturesIInv /\ [Next]_vars =>
        [\A o \in Options :
           Toggle(o) /\ (s.scope = Global \/ View(s).device # None) =>
             ~IsTableBusy(s) /\ Took(RowOf(o), RowOf(o)')]_vars
  BY ToggleTakes DEF PageIInv
<1> QED
  BY <1>1, InductivePage, PTL DEF Spec, GesturesTakeEffect

=============================================================================
