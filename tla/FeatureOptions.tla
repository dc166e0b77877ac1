--------------------------- MODULE FeatureOptions ---------------------------
(***************************************************************************)
(* The feature-options engine of src/src/featureOptions.ts: how a          *)
(* configured entry is read, how a configuration is indexed, edited and    *)
(* rewritten, and the FeatureOptions class that keeps all three together.  *)
(*                                                                         *)
(* A text is a sequence of characters.  An entry is its action and the     *)
(* text behind it; what may be absent is a sequence of at most one.        *)
(***************************************************************************)
EXTENDS Integers, Sequences, FiniteSets, SequencesExt, FiniteSetsExt

CONSTANTS
  Categories,  \* the category lists a plugin may give
  OptionMaps,  \* the option maps it may give: category -> set of options
  Loads,       \* the configurations it may load
  Sets,        \* the arguments of setOption()
  Clears,      \* the arguments of clearOption()
  Ids,         \* device and controller identifiers, in lower case
  LowerCase,   \* upper-case character -> its lower case
  MaxCalls     \* bound: entries loaded, plus calls made

VARIABLES
  categories,  \* #catalog.categories
  options,     \* #catalog.options
  catalog,     \* what is derived from these two in #catalog
  configured,  \* #configuredOptions
  index,       \* #configIndex
  calls,       \* bound: see MaxCalls
  last         \* history: the last edit, when the last call was one

vars == <<categories, options, catalog, configured, index, calls, last>>

-----------------------------------------------------------------------------
(* Texts. *)

Lower(t) == [i \in DOMAIN t |-> IF t[i] \in DOMAIN LowerCase THEN LowerCase[t[i]] ELSE t[i]]

From(t, i) == SubSeq(t, i, Len(t))

\* The place of the first c in t, or 0.
IndexOf(t, c) ==
  LET at == {i \in DOMAIN t : t[i] = c} IN IF at = {} THEN 0 ELSE Min(at)

Ink(t) == {i \in DOMAIN t : t[i] # " "}
TrimEnd(t) == SubSeq(t, 1, Max({0} \cup Ink(t)))
Trim(t) == SubSeq(t, Min({Len(t) + 1} \cup Ink(t)), Max({0} \cup Ink(t)))

HasValueContent(t) == \E u \in {Trim(t)} : \E i \in DOMAIN u : u[i] # "="

ComposeEntry(action, option, id, value) ==
  [action |-> action,
   tail   |-> option \o (IF id = <<>> THEN <<>> ELSE <<".">> \o id)
                     \o (IF value = <<>> THEN <<>> ELSE <<"=">> \o Trim(value[1]))]

TargetKey(option, id) == Lower(option) \o (IF id = <<>> THEN <<>> ELSE <<".">> \o Lower(id))

-----------------------------------------------------------------------------
(* parseEntry: what a value option n reads out of the tail of an Enable. *)

Reading(n, key, value, canonical) ==
  [by |-> n, key |-> key, value |-> value, canonical |-> canonical]

NoReading(n) == Reading(n, <<>>, <<>>, <<>>)

\* The value option's own name as the entry spells it, at id, with value.
Spelt(n, tail, id, value) ==
  <<ComposeEntry("enable", SubSeq(tail, 1, Len(n)), id, <<value>>)>>

\* The dot form, from before the payload had a delimiter.
GlobalDotForm(n, tail, extra) ==
  Reading(n, n, <<extra>>,
          IF IndexOf(extra, "=") # 0 THEN Spelt(n, tail, <<>>, extra) ELSE <<>>)

\* A bug: a value without content is spelt behind "=" as well.
ModernizeAlways(n, tail, id, value) ==
  Reading(n, n \o <<".">> \o Lower(id), <<value>>, Spelt(n, tail, id, value))

ScopedDotForm(n, tail, id, value) ==
  Reading(n, n \o <<".">> \o Lower(id), <<value>>,
          IF HasValueContent(value) THEN Spelt(n, tail, id, value) ELSE <<>>)

DotForm(n, tail, extra, dot) ==
  IF dot = 0 THEN GlobalDotForm(n, tail, extra)
  ELSE ScopedDotForm(n, tail, SubSeq(extra, 1, dot - 1), From(extra, dot + 1))

\* Does "=" claim an entry with this address behind the option's name?
ClaimsScope(address, value) ==
  /\ Len(address) > 1 /\ address[1] = "." /\ IndexOf(Tail(address), ".") = 0
  /\ HasValueContent(value)

\* What is behind the option's name, cut at the first "=".
Cut(rest) ==
  LET equals == IndexOf(rest, "=")
  IN  [rest    |-> rest, cut |-> equals # 0,
       address |-> TrimEnd(SubSeq(rest, 1, equals - 1)),
       value   |-> Trim(From(rest, equals + 1)),
       extra   |-> From(rest, 2)]

\* At most one reading: none when n is but a prefix of some longer word.
Readings(n, tail) ==
  UNION {
    CASE s.rest = <<>> -> {NoReading(n)}
      [] s.cut /\ s.address = <<>> ->
           {Reading(n, n, <<s.value>>, Spelt(n, tail, <<>>, s.value))}
      [] s.cut /\ ClaimsScope(s.address, s.value) ->
           {Reading(n, TargetKey(n, Tail(s.address)), <<s.value>>,
                    Spelt(n, tail, Tail(s.address), s.value))}
      [] OTHER -> IF s.rest # <<>> /\ s.rest[1] = "."
                  THEN {DotForm(n, tail, s.extra, IndexOf(s.extra, "."))} ELSE {}
    : s \in {Cut(From(tail, Len(n) + 1))}}

\* The longest value option that can read an Enable has it.
Parse(c, e) ==
  LET reads == UNION {Readings(n, e.tail) : n \in {n \in c.valued : IsPrefix(n, Lower(e.tail))}}
  IN  IF e.action # "enable" \/ reads = {} THEN NoReading(<<>>)
      ELSE CHOOSE r \in reads : \A q \in reads : Len(q.by) <= Len(r.by)

\* What an entry registers: its tail, and the value read out of it.
Registrations(c, e) ==
  LET p == Parse(c, e)
  IN  CASE e.action = "none" -> <<>>
        [] OTHER ->
             <<[key |-> Lower(e.tail), enabled |-> e.action = "enable", value |-> <<>>]>>
             \o IF p.key = <<>> THEN <<>>
                ELSE <<[key |-> p.key, enabled |-> TRUE, value |-> p.value]>>

Keys(c, e) == {r.key : r \in ToSet(Registrations(c, e))}

\* A bug: an entry is known by its raw tail alone.
TailAddressesScope(c, e, target) == e.action # "none" /\ target = Lower(e.tail)

\* A bug: an option's scopes go with it.
AddressesBelow(c, e, target) == \E k \in Keys(c, e) : IsPrefix(target, k)

EntryAddressesScope(c, e, target) == target \in Keys(c, e)

NormalizeEntry(c, e) == LET p == Parse(c, e) IN IF p.canonical = <<>> THEN e ELSE p.canonical[1]

Normalize(c, entries) == [i \in DOMAIN entries |-> NormalizeEntry(c, entries[i])]

-----------------------------------------------------------------------------
(* The two indexes. *)

ExpandOption(category, name) ==
  CASE category = <<>> -> <<>>
    [] name = <<>>     -> category
    [] OTHER           -> category \o <<".">> \o name

\* Every listed category of the map, under the names the options expand to.
BuildCatalogIndex(cats, opts) ==
  LET entries == UNION {{[key |-> Lower(ExpandOption(g, o.name)), option |-> o, category |-> g]
                            : o \in opts[g]} : g \in cats \cap DOMAIN opts}
      keys == {e.key : e \in entries}
      of(k) == (CHOOSE e \in entries : e.key = k).option
  IN  [defaults |-> [k \in keys |-> of(k).default],
       valued   |-> {k \in keys : of(k).valued},
       fallback |-> [k \in {k \in keys : of(k).valued} |-> of(k).defaultValue],
       scopes   |-> [k \in keys |-> of(k).scopes],
       \* by the name as it is spelt
       parents  |-> [n \in {ExpandOption(e.category, e.option.name) :
                              e \in {e \in entries : e.option.group # <<>>}} |->
                      LET e == CHOOSE e \in entries : ExpandOption(e.category, e.option.name) = n
                      IN  ExpandOption(e.category, e.option.group[1])]]

\* The first entry to register a key has it.
BuildConfigIndex(c, entries) ==
  LET regs  == FlattenSeq([i \in DOMAIN entries |-> Registrations(c, entries[i])])
      first(k) == regs[Min({i \in DOMAIN regs : regs[i].key = k})]
  IN  [k \in {regs[i].key : i \in DOMAIN regs} |->
         [enabled |-> first(k).enabled, value |-> first(k).value]]

-----------------------------------------------------------------------------
(* Edits. *)

ApplyClearOption(c, entries, a) ==
  Normalize(c, SelectSeq(entries, LAMBDA e : ~EntryAddressesScope(c, e, TargetKey(a.option, a.id))))

Valued(c, a) == a.enabled /\ Lower(a.option) \in c.valued

\* The value an edit persists.
Persisted(c, a) ==
  IF Valued(c, a) /\ a.value # <<>> /\ HasValueContent(a.value[1])
  THEN <<Trim(a.value[1])>> ELSE <<>>

\* An enable of a value option at a scope without a value clears the scope.
Clearing(c, a) == Valued(c, a) /\ Persisted(c, a) = <<>> /\ a.id # <<>>

ApplySetOption(c, entries, a) ==
  ApplyClearOption(c, entries, a)
    \o IF Clearing(c, a) THEN <<>>
       ELSE <<ComposeEntry(IF a.enabled THEN "enable" ELSE "disable",
                           a.option, a.id, Persisted(c, a))>>

-----------------------------------------------------------------------------
(* Queries. *)

\* Does a key address option k: the option itself, or it at an identifier?
KeyAddressesOption(c, key, k) ==
  \/ key = k
  \/ /\ IsPrefix(k \o <<".">>, key) /\ key \notin DOMAIN c.defaults
     /\ Len(key) > Len(k) + 1 /\ IndexOf(From(key, Len(k) + 2), ".") = 0

\* What an entry says of option k: its value reading when that is of k.
RecordsOf(c, e, k) ==
  LET p == Parse(c, e)
      record(key, enabled, value) ==
        [enabled |-> enabled, id |-> SubSeq(e.tail, Len(k) + 2, Len(key)), value |-> value]
  IN  CASE e.action = "none" -> <<>>
        [] p.key # <<>> /\ KeyAddressesOption(c, p.key, k) -> <<record(p.key, TRUE, p.value)>>
        [] OTHER -> IF KeyAddressesOption(c, Lower(e.tail), k)
                    THEN <<record(Lower(e.tail), e.action = "enable", <<>>)>> ELSE <<>>

EnumerateConfiguredEntries(c, entries, option) ==
  FlattenSeq([i \in DOMAIN entries |-> RecordsOf(c, entries[i], Lower(option))])

\* The most specific of the declared levels at which the option is set; an
\* option that declares no level has them all.
ResolveScope(c, idx, option, device, controller) ==
  LET k       == Lower(option)
      level(s, id) == [scope |-> s, key |-> TargetKey(option, id), given |-> s = "global" \/ id # <<>>]
      declared(s) == k \notin DOMAIN c.scopes \/ c.scopes[k] = {} \/ s \in c.scopes[k]
      found   == SelectSeq(<<level("device", device), level("controller", controller),
                             level("global", <<>>)>>,
                           LAMBDA l : l.given /\ declared(l.scope) /\ l.key \in DOMAIN idx)
  IN  IF found = <<>>
      THEN [scope |-> "none", value |-> <<>>,
            enabled |-> IF k \in DOMAIN c.defaults THEN c.defaults[k] ELSE FALSE]
      ELSE [scope |-> found[1].scope] @@ idx[found[1].key]

\* What value() answers: nothing when off or no value option, else a text.
ValueOf(c, idx, option, device, controller) ==
  LET k == Lower(option)
      r == ResolveScope(c, idx, option, device, controller)
  IN  IF k \notin c.valued \/ ~r.enabled THEN <<>>
      ELSE IF r.value # <<>> /\ r.value # <<<<>>>> THEN r.value
      ELSE IF r.scope = "none" THEN c.fallback[k] ELSE <<>>

\* Is the group's parent enabled?
IsDependencyMet(c, idx, option, device, controller) ==
  option \in DOMAIN c.parents =>
    ResolveScope(c, idx, c.parents[option], device, controller).enabled

-----------------------------------------------------------------------------
(* The class. *)

Nothing == [op |-> "none"]

Init ==
  /\ categories \in Categories
  /\ options \in OptionMaps
  /\ catalog = BuildCatalogIndex(categories, options)
  /\ configured \in Loads
  /\ index = BuildConfigIndex(catalog, configured)
  /\ calls = Len(configured) /\ last = Nothing

Cost(n) == calls + n <= MaxCalls /\ calls' = calls + n
Call == Cost(1)

SetOptions(opts) ==
  /\ Call /\ options' = opts
  /\ catalog' = BuildCatalogIndex(categories, opts)
  /\ index' = BuildConfigIndex(catalog', configured)
  /\ last' = Nothing
  /\ UNCHANGED <<categories, configured>>

SetCategories(cats) ==
  /\ Call /\ categories' = cats
  /\ catalog' = BuildCatalogIndex(cats, options)
  /\ index' = BuildConfigIndex(catalog', configured)
  /\ last' = Nothing
  /\ UNCHANGED <<options, configured>>

SetConfiguredOptions(entries) ==
  /\ Cost(1 + Len(entries)) /\ configured' = entries
  /\ index' = BuildConfigIndex(catalog, entries)
  /\ last' = Nothing
  /\ UNCHANGED <<categories, options, catalog>>

\* An edit that changes nothing leaves list and index alone.
Edit(op, a, entries) ==
  /\ Call /\ configured' = entries
  /\ index' = IF configured' = configured THEN index ELSE BuildConfigIndex(catalog, configured')
  /\ last' = [op |-> op, args |-> a]
  /\ UNCHANGED <<categories, options, catalog>>

SetOption(a) == Edit("set", a, ApplySetOption(catalog, configured, a))
ClearOption(a) == Edit("clear", a, ApplyClearOption(catalog, configured, a))

Next ==
  \/ \E opts \in OptionMaps : SetOptions(opts)
  \/ \E cats \in Categories : SetCategories(cats)
  \/ \E entries \in Loads : SetConfiguredOptions(entries)
  \/ \E a \in Sets : SetOption(a)
  \/ \E a \in Clears : ClearOption(a)

Spec == Init /\ [][Next]_vars

-----------------------------------------------------------------------------
(* Properties. *)

\* The addresses a query can ask for.
Addresses == {[option |-> k, id |-> i] : k \in DOMAIN catalog.defaults, i \in Ids \cup {<<>>}}
Key(a) == TargetKey(a.option, a.id)

\* What the index says at a key, edge blanks of a value aside: nothing, or
\* one record.
Said(idx, k) ==
  IF k \notin DOMAIN idx THEN {}
  ELSE {[enabled |-> idx[k].enabled,
         value   |-> [i \in DOMAIN idx[k].value |-> Trim(idx[k].value[i])]]}

TypeOK ==
  /\ categories \in Categories /\ options \in OptionMaps
  /\ \A i \in DOMAIN configured : configured[i].action \in {"enable", "disable", "none"}
  /\ catalog.valued \subseteq DOMAIN catalog.defaults
  /\ \A k \in DOMAIN index : index[k].enabled \in BOOLEAN /\ Len(index[k].value) <= 1
  /\ calls \in 0..MaxCalls

\* Both indexes are those of what they were derived from.
IndexesCoherent ==
  /\ catalog = BuildCatalogIndex(categories, options)
  /\ index = BuildConfigIndex(catalog, configured)

\* Rewriting the configuration changes no answer, and done twice is done
\* once.
RewriteKeepsMeaning ==
  \A rewritten \in {Normalize(catalog, configured)} :
    /\ \A idx \in {BuildConfigIndex(catalog, rewritten)}, a \in Addresses :
         Said(idx, Key(a)) = Said(index, Key(a))
    /\ Normalize(catalog, rewritten) = rewritten

\* The addresses of option k that an entry registers beside a value of its own.
Twofold(k) ==
  {TargetKey(k, From(e.tail, Len(k) + 2)) :
     e \in {e \in ToSet(configured) : /\ Parse(catalog, e).key = k
                                      /\ KeyAddressesOption(catalog, Lower(e.tail), k)}}

\* What enumeration reports the index knows, and the first report of an
\* address is its answer, unless some entry has two readings that count.
EnumerationAgrees ==
  \A k \in DOMAIN catalog.defaults :
    \A records \in {EnumerateConfiguredEntries(catalog, configured, k)} :
      /\ \A j \in DOMAIN records : TargetKey(k, records[j].id) \in DOMAIN index
      /\ \A i \in Ids \cup {<<>>} : TargetKey(k, i) \notin Twofold(k) =>
           \A at \in {SelectSeq(records, LAMBDA r : Lower(r.id) = i)} :
             Said(index, TargetKey(k, i)) =
               IF at = <<>> THEN {}
               ELSE Said(<<[enabled |-> at[1].enabled, value |-> at[1].value]>>, 1)

\* The readers of a configuration - index, rewriter, enumeration - agree on
\* what its entries mean, whatever calls led to it (featureOptions.ts 412-413:
\* "no reader or writer of the storage format can disagree").
FeatureInv == TypeOK /\ IndexesCoherent /\ RewriteKeepsMeaning /\ EnumerationAgrees

MayBeSetOnDevices(k) ==
  k \in DOMAIN catalog.scopes /\ (catalog.scopes[k] = {} \/ "device" \in catalog.scopes[k])

Edited(op) == calls' # calls /\ last'.op = op

\* An edit takes effect at once, whatever entries spelt the same address
\* before.  A set is what its address then answers: with its value, if the
\* option may be set on devices, and for the options grouped below it.  A
\* clear, or a set that amounts to one, makes the address inherit what is
\* above it.
EditsTakeEffect ==
  [][LET a == last'.args
         k == Lower(a.option)
     IN
     /\ Edited("set") /\ ~Clearing(catalog, a) =>
          /\ Said(index', Key(a)) = {[enabled |-> a.enabled, value |-> Persisted(catalog, a)]}
          /\ a.id # <<>> /\ MayBeSetOnDevices(k) =>
               /\ ValueOf(catalog, index', a.option, a.id, <<>>) = Persisted(catalog, a)
               /\ \A n \in DOMAIN catalog.parents : Lower(catalog.parents[n]) = k =>
                    IsDependencyMet(catalog, index', n, a.id, <<>>) = a.enabled
     /\ Edited("clear") \/ (Edited("set") /\ Clearing(catalog, a)) =>
          /\ Key(a) \notin DOMAIN index'
          /\ a.id # <<>> => \A other \in (Ids \ {Lower(a.id)}) \cup {<<>>} :
               ResolveScope(catalog, index', a.option, a.id, other)
                 = ResolveScope(catalog, index', a.option, <<>>, other)]_vars

\* An edit of an option of the catalog changes the answer at no other
\* address, unless an entry it drops had a reading there as well.
EditsAreLocal ==
  [][(Edited("set") \/ Edited("clear")) /\ Lower(last'.args.option) \in DOMAIN catalog.defaults =>
     \A b \in Addresses :
       \/ Key(b) = Key(last'.args)
       \/ \E i \in DOMAIN configured : {Key(b), Key(last'.args)} \subseteq Keys(catalog, configured[i])
       \/ Said(index', Key(b)) = Said(index, Key(b))]_vars

=============================================================================
