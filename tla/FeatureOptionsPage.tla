------------------------- MODULE FeatureOptionsPage -------------------------
(***************************************************************************)
(* The feature-options page of a plugin's settings UI: the tabs of         *)
(* src/ui/webUi.mjs, the show()/hide() cycles of                           *)
(* src/ui/webUi-featureOptions.mjs, the persist effect each cycle          *)
(* registers, and the configuration session all cycles share.              *)
(*                                                                         *)
(* A click on a tab first hides the page: it flushes the pending edit and  *)
(* waits for the drain, or for two seconds, and only then tears down and   *)
(* goes on.  Clicks that wait for one drain resume together: all of them   *)
(* tear down before any of them goes on, for the microtask queue runs      *)
(* their continuations in lockstep.  Nothing else happens in that turn.    *)
(***************************************************************************)
EXTENDS PersistEffect

CONSTANTS
  MaxEdits,      \* bound: user edits of the options, reverts included
  MaxSettings,   \* bound: edits in the Settings tab
  MaxAway,       \* bound: clicks on the other tabs
  ShowsOverlap   \* may the options tab be clicked while a click on it waits?

ASSUME PageAssumption ==
  MaxEdits \in Nat /\ MaxSettings \in Nat /\ MaxAway \in Nat
  /\ ShowsOverlap \in BOOLEAN

VARIABLES
  stage,         \* cycle -> how far its show() has come
  current,       \* the cycle #pageAbort belongs to, or 0
  theStore,      \* #store
  flushOf,       \* the cycle #flushPersist belongs to, or 0
  savedOptions,  \* content of #initialOptions, <<>> before the first load
  visible,       \* the tab on display
  clicks,        \* the tab clicks that wait in hide(), those on other tabs
                 \* numbered in their order
  edits,         \* number of edits so far
  away,          \* number of clicks on other tabs so far
  gaveUp         \* history: some hide() stopped waiting for the host

pageVars == <<stage, current, theStore, flushOf, savedOptions, visible, clicks>>
effectVars == <<storeVars, onStore, aborted, drainVars>>
vars == <<sessionVars, effectVars, pageVars, edits, away, gaveUp>>

Tabs == {"options", "settings", "support"}

PageTypeOK ==
  /\ SessionTypeOK /\ EffectTypeOK
  /\ stage \in [Cycles -> {"unborn", "hiding", "opening", "loading", "ready", "failed"}]
  /\ {current, theStore, flushOf} \subseteq 0..MaxCycles
  /\ savedOptions \in {<<>>} \cup {<<n>> : n \in 0..MaxEdits}
  /\ visible \in Tabs
  /\ clicks \subseteq
       [cycle : 0..MaxCycles, tab : Tabs, nth : 0..MaxAway, on : 0..MaxCycles]
  /\ edits \in 0..MaxEdits /\ away \in 0..MaxAway /\ gaveUp \in BOOLEAN

Init ==
  /\ SessionInit /\ EffectInit
  /\ stage = [c \in Cycles |-> "unborn"]
  /\ current = 0 /\ theStore = 0 /\ flushOf = 0
  /\ savedOptions = <<>>
  /\ visible = "support"
  /\ clicks = {}
  /\ edits = 0 /\ away = 0 /\ gaveUp = FALSE

-----------------------------------------------------------------------------
\* A bug: hide() does not wait for its flush.
FlushedAtOnce(k) == k \in clicks

\* A click whose flush has ended.
Flushed(k) == k.on = 0 \/ drain[k.on] = "idle"

\* No continuation is due: the event loop may take the next task.
NextTask == \A k \in clicks : ~Flushed(k)

\* cleanup(): abort the current cycle, forget its flush handle.
Cleanup ==
  IF current # 0 THEN AbortEffect(current)
  ELSE UNCHANGED <<aborted, drain, flushing>>

\* The clicks done resume: each tears down, then each goes on.  A show()
\* makes its cycle the current one and syncs; another tab shows itself.
Resume(done) ==
  LET shows == {k.cycle : k \in done} \ {0}
      tabs  == {k \in done : k.cycle = 0}
  IN  /\ clicks' = clicks \ done
      /\ Cleanup
      /\ Sync(shows)
      /\ stage' = [c \in Cycles |-> IF c \in shows THEN "opening" ELSE stage[c]]
      /\ current' = Max(shows \cup {0})
      /\ theStore' = IF shows = {} THEN theStore ELSE Max(shows)
      /\ flushOf' = 0
      /\ IF tabs = {} THEN visible' = visible
         ELSE \E last \in tabs :
                (\A k \in tabs : k.nth <= last.nth) /\ visible' = last.tab
      /\ UNCHANGED <<host, held, writes, storeVars, onStore, pending, snapshot,
                     savedOptions, edits, away>>

HidesReturn ==
  /\ ~NextTask
  /\ Resume({k \in clicks : Flushed(k)})
  /\ UNCHANGED gaveUp

\* A bug: hide() has no timer.
HideWaits == clicks = {} /\ UNCHANGED vars

\* Two seconds are up; only the host's silence makes a flush last that long.
HideTimesOut ==
  /\ NextTask
  /\ \E k \in clicks : drain[k.on] = "commit" /\ Resume({k})
  /\ gaveUp' = TRUE

\* hide() up to its wait.
Hide(c, tab, nth) ==
  /\ NextTask
  /\ clicks' = clicks \cup {[cycle |-> c, tab |-> tab, nth |-> nth, on |-> flushOf]}
  /\ IF flushOf = 0 THEN UNCHANGED <<drainVars, writes>> ELSE Flush(flushOf)
  /\ UNCHANGED <<host, held, generation, reads, storeVars, onStore, aborted,
                 current, theStore, flushOf, savedOptions, edits, gaveUp>>

\* show() up to its wait for hide(): the page's container appears at once.
ClickOptions ==
  /\ \E c \in Cycles :
    /\ stage[c] = "unborn" /\ \A d \in 1..(c - 1) : stage[d] # "unborn"
    /\ ShowsOverlap \/ \A d \in Cycles : stage[d] # "hiding"
    /\ stage' = [stage EXCEPT ![c] = "hiding"]
    /\ visible' = "options"
    /\ Hide(c, "options", 0)
  /\ UNCHANGED away

\* #showSettings and #showSupport show their tab after hide() returns.
ClickAway ==
  /\ away < MaxAway
  /\ away' = away + 1
  /\ \E tab \in Tabs \ {"options"} : Hide(0, tab, away + 1)
  /\ UNCHANGED <<stage, visible>>

-----------------------------------------------------------------------------
\* The sync of a cycle's show() resolves.  A superseded cycle stops there;
\* otherwise the persist effect is registered on the store that is current.
SyncResolves(c) ==
  /\ NextTask
  /\ SyncReturns(c)
  /\ IF stage[c] = "opening" /\ c \notin aborted
     THEN /\ stage' = [stage EXCEPT ![c] = "loading"]
          /\ onStore' = [onStore EXCEPT ![c] = theStore]
          /\ flushOf' = c
          /\ drain' = IF Dirty(theStore) THEN [drain EXCEPT ![c] = "debounce"] ELSE drain
     ELSE UNCHANGED <<stage, onStore, flushOf, drain>>
  /\ UNCHANGED <<host, generation, writes, storeVars, aborted, pending, flushing,
                 snapshot, current, theStore, savedOptions, visible, clicks,
                 edits, away, gaveUp>>

\* The sync misses its deadline (its read stays out), or a later fetch of the
\* boot fails: the page shows the retry view.
BootFails(c) ==
  /\ NextTask
  /\ stage[c] \in {"opening", "loading"} /\ c \notin aborted
  /\ stage' = [stage EXCEPT ![c] = "failed"]
  /\ UNCHANGED <<sessionVars, effectVars, current, theStore, flushOf,
                 savedOptions, visible, clicks, edits, away, gaveUp>>

\* model:loaded, with the options the session holds.  The revert snapshot is
\* copied anew unless the last one has the same options.
ModelLoads(c) ==
  /\ NextTask
  /\ stage[c] = "loading" /\ c \notin aborted
  /\ stage' = [stage EXCEPT ![c] = "ready"]
  /\ LET s == theStore
     IN  /\ configured' = [configured EXCEPT ![s] = <<held.options, "loaded">>]
         /\ anchor' = [anchor EXCEPT ![s] = <<held.options, "loaded">>]
         /\ initial' = [initial EXCEPT ![s] = <<held.options, "copied">>]
         /\ loaded' = loaded \cup {s}
         /\ savedOptions' = <<held.options>>
  /\ UNCHANGED <<sessionVars, onStore, aborted, drainVars, current, theStore,
                 flushOf, visible, clicks, edits, away, gaveUp>>

-----------------------------------------------------------------------------
Editable == current # 0 /\ theStore \in loaded /\ visible = "options"

\* Set, clear or reset an option.  Clearing one that is not set returns the
\* array it was given.
EditOption ==
  /\ NextTask /\ Editable /\ edits < MaxEdits
  /\ edits' = edits + 1
  /\ \E options \in {<<edits + 1, "edited">>, configured[theStore]} :
       Mutate(theStore, options)
  /\ UNCHANGED <<pageVars, away, gaveUp>>

Revert ==
  /\ NextTask /\ Editable /\ edits < MaxEdits
  /\ edits' = edits + 1
  /\ Mutate(theStore, initial[theStore])
  /\ UNCHANGED <<pageVars, away, gaveUp>>

\* The window loses focus or is hidden.
Blur ==
  /\ NextTask /\ flushOf # 0
  /\ Flush(flushOf)
  /\ UNCHANGED <<host, held, generation, reads, storeVars, onStore, aborted,
                 pageVars, edits, away, gaveUp>>

EditSettings ==
  /\ NextTask /\ visible = "settings" /\ host.other < MaxSettings
  /\ SettingsEdited(host.other + 1)
  /\ UNCHANGED <<effectVars, pageVars, edits, away, gaveUp>>

Debounced == NextTask /\ (\E c \in Cycles : DebounceFires(c))
             /\ UNCHANGED <<pageVars, edits, away, gaveUp>>

Committed == NextTask /\ (\E c \in Cycles : CommitSucceeds(c) \/ CommitFails(c))
             /\ UNCHANGED <<pageVars, edits, away, gaveUp>>

HostAnswers == NextTask /\ (HostTakesWrite \/ \E c \in Cycles : HostReads(c))
               /\ UNCHANGED <<effectVars, pageVars, edits, away, gaveUp>>

Next ==
  \/ HidesReturn \/ HideTimesOut
  \/ ClickOptions \/ ClickAway
  \/ \E c \in Cycles : SyncResolves(c) \/ BootFails(c) \/ ModelLoads(c)
  \/ EditOption \/ Revert \/ Blur \/ EditSettings
  \/ Debounced \/ Committed \/ HostAnswers

\* The browser runs reactions and timers; the host owes nothing.
Fairness ==
  /\ WF_vars(HidesReturn) /\ WF_vars(HideTimesOut)
  /\ WF_vars(Debounced) /\ WF_vars(Committed)

Spec == Init /\ [][Next]_vars /\ Fairness

-----------------------------------------------------------------------------
\* What an idle drain of persist.mjs leaves behind: a clean store, or one that
\* shows the options it was asked to revert to.  (A revert to the very array
\* the anchor is does not set pending, so a write that was under way leaves
\* something else on disk.)
IdleIsSettled ==
  \A c \in Cycles \ aborted :
    onStore[c] # 0 /\ drain[c] = "idle" =>
      \/ ~Dirty(onStore[c])
      \/ configured[onStore[c]] = initial[onStore[c]]

\* Each drain awaits exactly the write it sent.
DrainOwnsWrite ==
  \A c \in Cycles :
    Cardinality({i \in DOMAIN writes : writes[i].by = c}) =
      IF drain[c] = "commit" THEN 1 ELSE 0

\* With no write out, persistedAnchor of the page on display is what the host
\* holds; once it has booted, so is the whole replica of the session, however
\* late the reads of earlier cycles come back.
NothingStale ==
  ~gaveUp /\ NextTask /\ current # 0 /\ writes = <<>> =>
    /\ theStore \in loaded => anchor[theStore][1] = host.options
    /\ stage[current] = "ready" /\ visible = "options" => held = host

\* "No two persist calls can be in flight against the host at the same time"
\* (persist.mjs), across page cycles too, unless a hide() timed out.
OneWriter == ~gaveUp => Len(writes) <= 1

\* What the page, its effects and the session promise in every state.
PageInv == PageTypeOK /\ IdleIsSettled /\ DrainOwnsWrite /\ NothingStale /\ OneWriter

\* persist:failed never takes back an edit the refused write did not carry:
\* a drain that ends its write changes what is shown only if that was exactly
\* what it wrote.
RollbackIsHonest ==
  [][\A c \in Cycles :
       /\ c \notin aborted /\ drain[c] = "commit" /\ drain'[c] # "commit"
       /\ configured'[onStore[c]] # configured[onStore[c]]
       => configured[onStore[c]] = snapshot[c]]_vars

\* commit() writes the whole configuration from a replica, and yet no write
\* takes back what the user did on the Settings tab, for hide() drains before
\* that tab opens and show() syncs after it; unless a hide() timed out.
SettingsKept ==
  [][~gaveUp => host'.other >= host.other]_vars

\* Every click on a tab gets past hide(), although the host owes no answer.
ClicksReturn ==
  /\ clicks # {} ~> clicks = {}
  /\ \A c \in Cycles : stage[c] = "hiding" ~> stage[c] = "opening"

\* While the host keeps answering, every drain comes to its end.
DrainsEnd ==
  []<>(\A i \in DOMAIN writes : writes[i].answer # "none") =>
    \A c \in Cycles : drain[c] # "idle" ~> drain[c] = "idle"

\* Neither the user nor an edit waits for ever: a silent host holds up
\* writes, never a click, and a host that answers holds up nothing.
PageMovesOn == ClicksReturn /\ DrainsEnd
=============================================================================
