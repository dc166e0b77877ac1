--------------------------- MODULE PersistEffect ---------------------------
(***************************************************************************)
(* registerPersistEffect of                                                *)
(* src/ui/webUi-featureOptions/effects/persist.mjs, with the slices of the *)
(* page's store it works on (state.mjs): the debounced, single-writer      *)
(* drain that takes the options shown to the host and rolls them back when *)
(* the host refuses.                                                       *)
(*                                                                         *)
(* "Dirty" is a comparison of references, so the model keeps references:   *)
(* an options array is its content and the place it came from, and every   *)
(* edit makes a new content.  One effect is registered per page cycle, on  *)
(* the store that is current when it registers.  An await and what follows *)
(* it up to the next await is one step.                                    *)
(***************************************************************************)
EXTENDS PluginConfigSession

VARIABLES
  configured,    \* store -> state.configuredOptions
  anchor,        \* store -> state.persistedAnchor
  initial,       \* store -> state.initialOptions
  loaded,        \* the stores whose model is loaded
  onStore,       \* cycle -> the store its effect is registered on, or 0
  aborted,       \* the cycles whose signal has aborted
  pending,       \* cycle -> pending
  flushing,      \* cycle -> flushing
  drain,         \* cycle -> where its drain is: "idle" when inFlight is null
  snapshot       \* cycle -> what its drain is writing

storeVars == <<configured, anchor, initial, loaded>>
drainVars == <<pending, flushing, drain, snapshot>>

Empty == <<0, "none">>
Refs  == Nat \X {"none", "edited", "loaded", "copied"}

EffectTypeOK ==
  /\ configured \in [Cycles -> Refs] /\ anchor \in [Cycles -> Refs]
  /\ initial \in [Cycles -> Refs] /\ snapshot \in [Cycles -> Refs]
  /\ loaded \subseteq Cycles /\ aborted \subseteq Cycles
  /\ onStore \in [Cycles -> 0..MaxCycles]
  /\ pending \in [Cycles -> BOOLEAN] /\ flushing \in [Cycles -> BOOLEAN]
  /\ drain \in [Cycles -> {"idle", "debounce", "commit"}]

EffectInit ==
  /\ configured = [s \in Cycles |-> Empty] /\ anchor = configured
  /\ initial = configured /\ snapshot = configured
  /\ loaded = {} /\ aborted = {}
  /\ onStore = [c \in Cycles |-> 0]
  /\ pending = [c \in Cycles |-> FALSE] /\ flushing = pending
  /\ drain = [c \in Cycles |-> "idle"]

Dirty(s) == configured[s] # anchor[s]

-----------------------------------------------------------------------------
\* The drain returns; its finally clears inFlight and flushing.
Stops(c, pends, sent) ==
  /\ drain' = [drain EXCEPT ![c] = "idle"]
  /\ flushing' = [flushing EXCEPT ![c] = FALSE]
  /\ pending' = [pending EXCEPT ![c] = pends]
  /\ snapshot' = [snapshot EXCEPT ![c] = Empty]
  /\ writes' = sent

\* The second half of an iteration: leave if clean, or write what is shown.
WritesIfDirty(c, pends, flush, shown, saved, sent, from) ==
  \/ /\ shown = saved
     /\ Stops(c, pends, sent)
  \/ /\ shown # saved
     /\ drain' = [drain EXCEPT ![c] = "commit"]
     /\ flushing' = [flushing EXCEPT ![c] = flush]
     /\ pending' = [pending EXCEPT ![c] = pends]
     /\ snapshot' = [snapshot EXCEPT ![c] = shown]
     /\ writes' = Append(sent, Commit(c, shown[1], from))

\* The loop's test and the first half of an iteration.
Iterates(c, shown, saved, sent, from) ==
  \/ /\ c \in aborted \/ ~(pending[c] \/ flushing[c])
     /\ Stops(c, pending[c], sent)
  \/ /\ c \notin aborted /\ flushing[c]
     /\ WritesIfDirty(c, FALSE, TRUE, shown, saved, sent, from)
  \/ /\ c \notin aborted /\ ~flushing[c] /\ pending[c]
     /\ drain' = [drain EXCEPT ![c] = "debounce"]
     /\ pending' = [pending EXCEPT ![c] = FALSE]
     /\ snapshot' = [snapshot EXCEPT ![c] = Empty]
     /\ writes' = sent
     /\ UNCHANGED flushing

\* The effect's handler, for every effect still registered on store s: dirty
\* sets pending, and starts a drain (which takes pending) if none is running.
Notified(s, dirty) ==
  LET woken == {c \in Cycles \ aborted : dirty /\ onStore[c] = s}
  IN  /\ pending' = [c \in Cycles |->
           IF c \in woken THEN drain[c] # "idle" ELSE pending[c]]
      /\ drain' = [c \in Cycles |->
           IF c \in woken /\ drain[c] = "idle" THEN "debounce" ELSE drain[c]]
      /\ UNCHANGED <<flushing, snapshot>>

\* "option:set", "option:cleared", "options:reset" and "model:reverted".
Mutate(s, options) ==
  /\ configured' = [configured EXCEPT ![s] = options]
  /\ Notified(s, options # anchor[s])
  /\ UNCHANGED <<anchor, initial, loaded, onStore, aborted, sessionVars>>

DebounceFires(c) ==
  /\ drain[c] = "debounce"
  /\ LET s == onStore[c]
     IN  WritesIfDirty(c, pending[c], flushing[c], configured[s], anchor[s], writes, held)
  /\ UNCHANGED <<storeVars, onStore, aborted, host, held, generation, reads>>

-----------------------------------------------------------------------------
CommitSucceeds(c) ==
  \E i \in Answered(c, "stored") :
    LET s    == onStore[c]
        rest == RemoveAt(writes, i)
    IN  /\ CommitStored(i)
        /\ anchor' = IF c \in aborted THEN anchor
                     ELSE [anchor EXCEPT ![s] = snapshot[c]]
        /\ Iterates(c, configured[s], anchor'[s], rest, held')
        /\ UNCHANGED <<configured, initial, loaded, onStore, aborted, host, reads>>

\* A bug: a refused write rolls back although a newer edit is waiting.
CommitFailsHard(c) ==
  \E i \in Answered(c, "refused") :
    LET s    == onStore[c]
        rest == RemoveAt(writes, i)
    IN  /\ configured' = IF c \in aborted THEN configured
                         ELSE [configured EXCEPT ![s] = anchor[s]]
        /\ Stops(c, pending[c], rest)
        /\ UNCHANGED <<anchor, initial, loaded, onStore, aborted, host, held,
                       generation, reads>>

\* A refused write: a newer edit retries with itself, otherwise roll back.
CommitFails(c) ==
  \E i \in Answered(c, "refused") :
    LET s    == onStore[c]
        rest == RemoveAt(writes, i)
    IN  /\ \/ /\ pending[c] \/ c \in aborted
              /\ UNCHANGED configured
              /\ IF pending[c]
                 THEN Iterates(c, configured[s], anchor[s], rest, held)
                 ELSE Stops(c, FALSE, rest)
           \/ /\ ~pending[c] /\ c \notin aborted
              /\ configured' = [configured EXCEPT ![s] = anchor[s]]
              /\ Stops(c, FALSE, rest)
        /\ UNCHANGED <<anchor, initial, loaded, onStore, aborted, host, held,
                       generation, reads>>

\* flush(): start a drain if dirty, cut a debounce short, or nudge a writing
\* drain into one more iteration.
Flush(c) ==
  LET s == onStore[c]
  IN  \/ /\ drain[c] = "debounce" \/ (drain[c] = "idle" /\ Dirty(s))
         /\ WritesIfDirty(c, FALSE, TRUE, configured[s], anchor[s], writes, held)
      \/ /\ drain[c] = "idle" /\ ~Dirty(s)
         /\ UNCHANGED <<drainVars, writes>>
      \/ /\ drain[c] = "commit"
         /\ flushing' = [flushing EXCEPT ![c] = TRUE]
         /\ UNCHANGED <<pending, drain, snapshot, writes>>

\* The signal of cycle c aborts; a drain waiting out its debounce returns.
AbortEffect(c) ==
  /\ aborted' = aborted \cup {c}
  /\ drain' = IF drain[c] = "debounce" THEN [drain EXCEPT ![c] = "idle"] ELSE drain
  /\ flushing' = IF drain[c] = "debounce" THEN [flushing EXCEPT ![c] = FALSE] ELSE flushing
=============================================================================
