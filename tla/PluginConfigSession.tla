------------------------ MODULE PluginConfigSession ------------------------
(***************************************************************************)
(* PluginConfigSession of src/ui/pluginConfigSession.mjs: the one replica  *)
(* of the plugin configuration a settings page works from, between the     *)
(* page and the Homebridge host.  A configuration is the feature options   *)
(* together with everything the Settings tab edits ("other"); both are     *)
(* numbers that name versions.                                             *)
(*                                                                         *)
(* The host takes writes in the order they were sent and answers any call  *)
(* in its own time, or never.  The actions leave the page's state alone;   *)
(* the page that makes the calls says what changes with them.              *)
(***************************************************************************)
EXTENDS Integers, Sequences, FiniteSets, SequencesExt

CONSTANT MaxCycles                    \* page cycles, each with one sync

Cycles == 1..MaxCycles

ASSUME CyclesAssumption == MaxCycles \in Nat \ {0}

VARIABLES
  host,          \* what the host holds
  held,          \* #config
  generation,    \* #generation
  reads,         \* the cycles' outstanding getPluginConfig calls
  writes         \* the outstanding updatePluginConfig calls, oldest first

sessionVars == <<host, held, generation, reads, writes>>

Config == [options : Nat, other : Nat]

NoRead == [gen |-> 0, got |-> <<>>]

Reads  == [gen : Nat, got : {<<>>} \cup [{1} -> Config]]
Writes == [by : Cycles, next : Config, answer : {"none", "stored", "refused"}]

SessionTypeOK ==
  /\ host \in Config /\ held \in Config
  /\ generation \in Nat
  /\ reads \in [Cycles -> Reads]
  /\ writes \in Seq(Writes)

\* open() has read the host once.
SessionInit ==
  /\ host = [options |-> 0, other |-> 0]
  /\ held = host
  /\ generation = 1
  /\ reads = [c \in Cycles |-> NoRead]
  /\ writes = <<>>

-----------------------------------------------------------------------------
\* commit builds the next configuration from the one held now.
Commit(c, options, from) ==
  [by |-> c, next |-> [from EXCEPT !.options = options], answer |-> "none"]

\* The write the drain of cycle c waits for, if it has been answered.
Answered(c, answer) ==
  {i \in DOMAIN writes : writes[i].by = c /\ writes[i].answer = answer}

\* The tail of commit: only a stored write moves the replica.
CommitStored(i) ==
  /\ generation' = generation + 1
  /\ held' = writes[i].next

\* sync mints its generation before it reads; several syncs of one turn
\* mint theirs in the order of their cycles.
Sync(cs) ==
  /\ generation' = generation + Cardinality(cs)
  /\ reads' = [c \in Cycles |->
       IF c \in cs
       THEN [gen |-> generation + Cardinality({d \in cs : d <= c}), got |-> <<>>]
       ELSE reads[c]]

\* A bug: a read is applied whatever has happened since it was sent.
SyncReturnsAlways(c) ==
  /\ reads[c].got # <<>>
  /\ held' = reads[c].got[1]
  /\ reads' = [reads EXCEPT ![c] = NoRead]

\* The tail of sync: the read is applied only if nothing moved meanwhile.
SyncReturns(c) ==
  /\ reads[c].got # <<>>
  /\ held' = IF generation = reads[c].gen THEN reads[c].got[1] ELSE held
  /\ reads' = [reads EXCEPT ![c] = NoRead]

-----------------------------------------------------------------------------
\* The host takes the oldest write it has not answered.
HostTakesWrite ==
  \E i \in DOMAIN writes, answer \in {"stored", "refused"} :
    /\ writes[i].answer = "none"
    /\ \A j \in 1..(i - 1) : writes[j].answer # "none"
    /\ writes' = [writes EXCEPT ![i].answer = answer]
    /\ host' = IF answer = "stored" THEN writes[i].next ELSE host
    /\ UNCHANGED <<held, generation, reads>>

HostReads(c) ==
  /\ reads[c].gen # 0 /\ reads[c].got = <<>>
  /\ reads' = [reads EXCEPT ![c].got = <<host>>]
  /\ UNCHANGED <<host, held, generation, writes>>

\* The Settings tab edits the model the host holds.
SettingsEdited(other) ==
  /\ host' = [host EXCEPT !.other = other]
  /\ UNCHANGED <<held, generation, reads, writes>>
=============================================================================
