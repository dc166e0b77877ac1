---------------------- MODULE FeatureOptionsPageProofs ----------------------
(***************************************************************************)
(* For any number of page cycles, edits and clicks, and whatever the host  *)
(* answers and when: a drain has one write out at most and comes to rest   *)
(* in order, the page and the session's replica hold what the host holds,  *)
(* a rollback takes back no newer edit, and no write takes back what the   *)
(* Settings tab did.  All of it while the options tab is not clicked again *)
(* as a click on it waits: there the code itself lets two cycles share a   *)
(* store (OneWriter of the overlapping instance).                          *)
(*                                                                         *)
(* The invariant has two halves.  The first holds always: how far a cycle  *)
(* has come is what it has left on the page, and a write in the queue      *)
(* belongs to a drain that awaits it.  The second (Honest) holds until a   *)
(* hide() gives up: only the page on display writes, and only while its    *)
(* tab is shown, so that neither its replica nor its anchor can be older   *)
(* than what the host holds.                                               *)
(***************************************************************************)
EXTENDS FeatureOptionsPage, SequenceTheorems, FiniteSetTheorems, TLAPS

\* The generation of a read was minted before.
Types ==
  /\ PageTypeOK
  /\ \A c \in Cycles : reads[c].gen <= generation

\* How far a show() has come, and what it has left on the page.
Stages ==
  /\ \A c \in Cycles :
       stage[c] \in {"opening", "loading", "ready", "failed"} <=> c = current \/ c \in aborted
  /\ current \notin aborted
  /\ current # 0 => theStore = current
  /\ \A c \in Cycles :
       /\ onStore[c] \in {0, c}
       /\ onStore[c] # 0 => stage[c] \in {"loading", "ready", "failed"}
       /\ stage[c] \in {"loading", "ready"} => onStore[c] = c
       /\ c \in loaded <=> stage[c] = "ready"
       /\ stage[c] \notin {"opening", "failed"} => reads[c] = NoRead
  /\ flushOf = IF current # 0 /\ onStore[current] # 0 THEN current ELSE 0

\* Of the clicks that wait one at most is to show the page.
Clicks ==
  /\ \A c, d \in Cycles : stage[c] = "hiding" /\ stage[d] = "hiding" => c = d
  /\ \A k \in clicks : k.cycle # 0 => stage[k.cycle] = "hiding"
  /\ \A j, k \in clicks : j.cycle # 0 /\ j.cycle = k.cycle => j = k
  /\ \A k \in clicks : k.on # 0 => onStore[k.on] = k.on

\* Every edit makes a content no one has seen.
Contents ==
  /\ host.options <= edits /\ held.options <= edits
  /\ \A c \in Cycles :
       /\ reads[c].got # <<>> => reads[c].got[1].options <= edits
       /\ configured[c][1] <= edits /\ anchor[c][1] <= edits
       /\ initial[c][1] <= edits /\ snapshot[c][1] <= edits
  /\ \A i \in DOMAIN writes : writes[i].next.options <= edits

\* The writes ws are those that drains d await, one each, and say what was sent.
Owned(ws, d, sent) ==
  /\ \A i \in DOMAIN ws :
       d[ws[i].by] = "commit" /\ ws[i].next.options = sent[ws[i].by][1]
  /\ \A i, j \in DOMAIN ws : ws[i].by = ws[j].by => i = j
  /\ \A c \in Cycles : d[c] = "commit" => \E i \in DOMAIN ws : ws[i].by = c

\* A page that has not loaded has nothing to write.  A drain at rest has settled;
\* one that writes knows of every edit made since, a revert to what is on disk
\* apart, which needs no write unless this one succeeds.
Drains ==
  /\ Owned(writes, drain, snapshot)
  /\ \A c \in Cycles :
       /\ c \notin loaded => drain[c] = "idle" /\ configured[c] = Empty /\ anchor[c] = Empty
       /\ c \notin aborted /\ drain[c] = "idle" =>
            ~Dirty(c) \/ configured[c] = initial[c]
       /\ c \notin aborted /\ drain[c] = "commit" =>
            \/ configured[c] = snapshot[c]
            \/ pending[c]
            \/ ~Dirty(c) /\ anchor[c] = initial[c]

\* A page that is gone writes no more, every click waits for the page on display,
\* and that page has nothing to write while another tab is shown.
Quiet ==
  /\ \A c \in aborted : drain[c] = "idle"
  /\ \A k \in clicks : k.on = flushOf
  /\ current # 0 /\ visible # "options" => drain[current] = "idle" /\ ~Dirty(current)

NoneStored == \A i \in DOMAIN writes : writes[i].answer # "stored"

\* The replica and the anchor have the options the host holds, unless it has
\* taken a write whose answer is on its way; no late read can undo that.
FreshOptions ==
  current # 0 =>
    /\ stage[current] = "opening" =>
         /\ reads[current].gen = generation
         /\ reads[current].got # <<>> => reads[current].got[1].options = host.options
    /\ stage[current] \in {"loading", "ready"} /\ NoneStored => held.options = host.options
    /\ stage[current] = "ready" /\ NoneStored => anchor[current][1] = host.options
    /\ \A c \in Cycles \ {current} : reads[c].gen < generation

\* What the Settings tab edits is in the replica too, once the click that leads
\* back from that tab has torn the page down, and in every write under way.
FreshRest ==
  /\ current # 0 /\ visible = "options" /\ NextTask =>
    /\ stage[current] = "opening" /\ reads[current].got # <<>> => reads[current].got[1] = host
    /\ stage[current] \in {"loading", "ready"} => held.other = host.other
  /\ \A i \in DOMAIN writes :
       /\ writes[i].next.other = host.other
       /\ writes[i].answer = "stored" => host = writes[i].next

\* All that is lost when a hide() gives up.
Honest == ~gaveUp => Quiet /\ FreshOptions /\ FreshRest

IInv == Types /\ Stages /\ Clicks /\ Contents /\ Drains /\ Honest

-----------------------------------------------------------------------------
(* The writes that are out. *)

\* Taking one element out of a sequence leaves the others, in their order.
LEMMA Removed ==
  ASSUME NEW S, NEW s \in Seq(S), NEW i \in DOMAIN s
  PROVE  /\ RemoveAt(s, i) \in Seq(S)
         /\ DOMAIN RemoveAt(s, i) = 1..(Len(s) - 1)
         /\ \A j \in 1..(Len(s) - 1) :
              RemoveAt(s, i)[j] = IF j < i THEN s[j] ELSE s[j + 1]
<1> DEFINE a == SubSeq(s, 1, i - 1)
           b == SubSeq(s, i + 1, Len(s))
<1>1. i \in Nat /\ 1 <= i /\ i <= Len(s) /\ DOMAIN s = 1..Len(s) /\ Len(s) \in Nat
  OBVIOUS
<1>2. a \in Seq(S) /\ Len(a) = i - 1 /\ \A j \in 1..(i - 1) : a[j] = s[j]
  BY <1>1
<1>3. b \in Seq(S) /\ Len(b) = Len(s) - i /\ \A j \in 1..(Len(s) - i) : b[j] = s[i + j]
  BY <1>1
<1> HIDE DEF a, b
<1>4. RemoveAt(s, i) = a \o b
  BY DEF RemoveAt, a, b
<1>5. /\ a \o b \in Seq(S) /\ Len(a \o b) = Len(s) - 1
      /\ \A j \in 1..(Len(s) - 1) :
           (a \o b)[j] = IF j <= i - 1 THEN a[j] ELSE b[j - (i - 1)]
  <2>1. Len(a) + Len(b) = Len(s) - 1
    BY <1>1, <1>2, <1>3
  <2>2. /\ a \o b \in Seq(S) /\ Len(a \o b) = Len(a) + Len(b)
        /\ \A j \in 1..(Len(a) + Len(b)) :
             (a \o b)[j] = IF j <= Len(a) THEN a[j] ELSE b[j - Len(a)]
    BY <1>2, <1>3, ConcatProperties
  <2> QED
    BY <1>2, <2>1, <2>2
<1>6. ASSUME NEW j \in 1..(Len(s) - 1)
      PROVE  (a \o b)[j] = IF j < i THEN s[j] ELSE s[j + 1]
  <2>1. CASE j < i
    BY <2>1, <1>1, <1>2, <1>5
  <2>2. CASE ~(j < i)
    <3>1. j - (i - 1) \in 1..(Len(s) - i) /\ i + (j - (i - 1)) = j + 1 /\ ~(j <= i - 1)
      BY <2>2, <1>1
    <3>2. b[j - (i - 1)] = s[i + (j - (i - 1))]
      BY <3>1, <1>3
    <3>3. (a \o b)[j] = b[j - (i - 1)]
      BY <3>1, <1>5
    <3> QED
      BY <2>2, <3>1, <3>2, <3>3
  <2> QED
    BY <2>1, <2>2
<1>7. DOMAIN (a \o b) = 1..(Len(s) - 1)
  BY <1>5
<1> QED
  BY <1>4, <1>5, <1>6, <1>7

\* What the queue of the writes holds.
LEMMA Elements ==
  ASSUME NEW ws \in Seq(Writes), NEW i \in DOMAIN ws
  PROVE  /\ ws[i] \in Writes /\ ws[i].by \in Cycles /\ ws[i].next \in Config
         /\ ws[i].answer \in {"none", "stored", "refused"}
<1>1. ws[i] \in Writes
  OBVIOUS
<1> QED
  BY <1>1 DEF Writes

Phases == {"idle", "debounce", "commit"}

\* Once the write of cycle c is taken out, none of its is left.
LEMMA TakenOut ==
  ASSUME writes \in Seq(Writes), drain \in [Cycles -> Phases],
         Owned(writes, drain, snapshot),
         NEW i \in DOMAIN writes, NEW c \in Cycles, writes[i].by = c
  PROVE  Owned(RemoveAt(writes, i), [drain EXCEPT ![c] = "idle"], snapshot)
<1> DEFINE rest == RemoveAt(writes, i)
           from(j) == IF j < i THEN j ELSE j + 1
<1>1. \A k \in DOMAIN writes : writes[k] \in Writes /\ writes[k].by \in Cycles
  BY Elements
<1>2. i \in 1..Len(writes) /\ Len(writes) \in Nat /\ DOMAIN writes = 1..Len(writes)
  OBVIOUS
<1>3. /\ DOMAIN rest = 1..(Len(writes) - 1)
      /\ \A j \in DOMAIN rest :
           from(j) \in DOMAIN writes /\ from(j) # i /\ rest[j] = writes[from(j)]
  <2>1. DOMAIN rest = 1..(Len(writes) - 1)
    BY <1>2, Removed
  <2>2. ASSUME NEW j \in DOMAIN rest
        PROVE  from(j) \in DOMAIN writes /\ from(j) # i /\ rest[j] = writes[from(j)]
    <3>1. rest[j] = writes[from(j)]
      BY <2>1, Removed
    <3> QED
      BY <3>1, <2>1, <1>2
  <2> QED
    BY <2>1, <2>2
<1>4. \A j, k \in DOMAIN rest : from(j) = from(k) => j = k
  BY <1>2, <1>3
<1>5. ASSUME NEW k \in DOMAIN writes, k # i
      PROVE  \E j \in DOMAIN rest : rest[j] = writes[k]
  <2>1. CASE k < i
    BY <2>1, <1>2, <1>3
  <2>2. CASE k > i
    <3>1. k - 1 \in DOMAIN rest /\ from(k - 1) = k
      BY <2>2, <1>2, <1>3
    <3> QED
      BY <3>1, <1>3
  <2> QED
    BY <2>1, <2>2, <1>2, <1>5
<1> HIDE DEF rest, from
<1>6. ASSUME NEW j \in DOMAIN rest
      PROVE  /\ [drain EXCEPT ![c] = "idle"][rest[j].by] = "commit"
             /\ rest[j].next.options = snapshot[rest[j].by][1]
  <2>1. rest[j].by # c
    BY <1>3 DEF Owned
  <2> QED
    BY <2>1, <1>1, <1>3 DEF Owned
<1>7. \A j, k \in DOMAIN rest : rest[j].by = rest[k].by => j = k
  BY <1>3, <1>4 DEF Owned
<1>8. ASSUME NEW d \in Cycles, [drain EXCEPT ![c] = "idle"][d] = "commit"
      PROVE  \E j \in DOMAIN rest : rest[j].by = d
  <2>1. d # c /\ drain[d] = "commit"
    BY <1>8
  <2>2. PICK k \in DOMAIN writes : writes[k].by = d
    BY <2>1 DEF Owned
  <2> QED
    BY <2>1, <2>2, <1>5
<1> QED
  BY <1>6, <1>7, <1>8 DEF Owned, rest

\* A drain that is not writing has no write out.
LEMMA NotWriting ==
  ASSUME writes \in Seq(Writes), drain \in [Cycles -> Phases],
         Owned(writes, drain, snapshot),
         NEW c \in Cycles, drain[c] # "commit"
  PROVE  Owned(writes, [drain EXCEPT ![c] = "idle"], snapshot)
<1>1. \A k \in DOMAIN writes : writes[k].by \in Cycles /\ writes[k].by # c
  BY Elements DEF Owned
<1>2. \A d \in Cycles : [drain EXCEPT ![c] = "idle"][d] = IF d = c THEN "idle" ELSE drain[d]
  OBVIOUS
<1> QED
  BY <1>1, <1>2 DEF Owned

\* It may stop or wait ...
LEMMA StaysOut ==
  ASSUME NEW sent \in Seq(Writes), drain \in [Cycles -> Phases],
         snapshot \in [Cycles -> Refs],
         NEW c \in Cycles, Owned(sent, [drain EXCEPT ![c] = "idle"], snapshot),
         NEW y \in {"idle", "debounce"}, NEW x
  PROVE  Owned(sent, [drain EXCEPT ![c] = y], [snapshot EXCEPT ![c] = x])
<1>1. \A i \in DOMAIN sent : sent[i].by \in Cycles /\ sent[i].by # c
  BY Elements DEF Owned
<1> QED
  BY <1>1 DEF Owned

\* ... or send one, which is then the only one of its.
LEMMA SentOne ==
  ASSUME NEW sent \in Seq(Writes), drain \in [Cycles -> Phases],
         snapshot \in [Cycles -> Refs],
         NEW c \in Cycles, Owned(sent, [drain EXCEPT ![c] = "idle"], snapshot),
         NEW w \in Writes, NEW x \in Refs, w.by = c, w.next.options = x[1]
  PROVE  Owned(Append(sent, w), [drain EXCEPT ![c] = "commit"], [snapshot EXCEPT ![c] = x])
<1>1. /\ DOMAIN Append(sent, w) = DOMAIN sent \cup {Len(sent) + 1}
      /\ \A i \in DOMAIN sent : Append(sent, w)[i] = sent[i]
      /\ Append(sent, w)[Len(sent) + 1] = w
      /\ Len(sent) + 1 \in DOMAIN Append(sent, w)
  OBVIOUS
<1>2. \A i \in DOMAIN sent : sent[i].by \in Cycles /\ sent[i].by # c
  BY Elements DEF Owned
<1> QED
  BY <1>1, <1>2 DEF Owned

\* The host's answer changes neither whose a write is nor what it says.
LEMMA AnsweredOne ==
  ASSUME writes \in Seq(Writes), NEW d, NEW sn, Owned(writes, d, sn),
         NEW i \in DOMAIN writes, NEW answer \in {"stored", "refused"}
  PROVE  /\ [writes EXCEPT ![i].answer = answer] \in Seq(Writes)
         /\ Owned([writes EXCEPT ![i].answer = answer], d, sn)
<1> DEFINE ws == [writes EXCEPT ![i].answer = answer]
<1>1. /\ DOMAIN ws = DOMAIN writes
      /\ \A j \in DOMAIN writes : ws[j].by = writes[j].by /\ ws[j].next = writes[j].next /\ ws[j] \in Writes
  <2>1. \A j \in DOMAIN writes : writes[j] \in Writes
    OBVIOUS
  <2>2. [writes[i] EXCEPT !.answer = answer] \in Writes
    BY <2>1 DEF Writes
  <2> QED
    BY <2>1, <2>2 DEF Writes
<1>2. ws \in Seq(Writes)
  BY <1>1
<1> HIDE DEF ws
<1>3. Owned(ws, d, sn)
  BY <1>1 DEF Owned
<1> QED
  BY <1>2, <1>3 DEF ws

-----------------------------------------------------------------------------
(* What a step of a drain does. *)

\* The drain of c comes to rest, waits, or sends what is shown.
Moves(c, sent) ==
  /\ pending' \in [Cycles -> BOOLEAN] /\ flushing' \in [Cycles -> BOOLEAN]
  /\ \A d \in Cycles \ {c} : pending'[d] = pending[d]
  /\ \/ /\ c \in aborted \/ ~Dirty(c)' \/ configured'[c] = initial[c]
        /\ drain' = [drain EXCEPT ![c] = "idle"]
        /\ snapshot' = [snapshot EXCEPT ![c] = Empty]
        /\ writes' = sent
     \/ /\ c \notin aborted
        /\ drain' = [drain EXCEPT ![c] = "debounce"]
        /\ snapshot' = [snapshot EXCEPT ![c] = Empty]
        /\ writes' = sent
     \/ /\ drain' = [drain EXCEPT ![c] = "commit"]
        /\ snapshot' = [snapshot EXCEPT ![c] = configured'[c]]
        /\ writes' = Append(sent, Commit(c, configured'[c][1], held'))

\* A drain that has no write out begins one, or finds nothing to do.
Starts(c) ==
  /\ c \in loaded /\ drain[c] # "commit" /\ (drain[c] = "debounce" \/ (c = current /\ Dirty(c)))
  /\ Moves(c, writes)
  /\ UNCHANGED <<configured, anchor, held, generation>>

\* A drain takes the answer to its write.
Stored(c) ==
  \E i \in DOMAIN writes :
    /\ writes[i].by = c /\ writes[i].answer = "stored"
    /\ Moves(c, RemoveAt(writes, i))
    /\ held' = writes[i].next /\ generation' = generation + 1
    /\ anchor' = IF c \in aborted THEN anchor ELSE [anchor EXCEPT ![c] = snapshot[c]]
    /\ UNCHANGED configured

Refused(c) ==
  \E i \in DOMAIN writes :
    /\ writes[i].by = c /\ writes[i].answer = "refused"
    /\ Moves(c, RemoveAt(writes, i))
    /\ \/ UNCHANGED configured
       \/ c \notin aborted /\ ~pending[c] /\ configured' = [configured EXCEPT ![c] = anchor[c]]
    /\ UNCHANGED <<anchor, held, generation>>

\* A flush asks a writing drain for one more round, or has nothing to do.
Nudged ==
  /\ flushing' \in [Cycles -> BOOLEAN]
  /\ UNCHANGED <<pending, drain, snapshot, writes, configured, anchor, held, generation>>

DrainSteps(c) ==
  /\ Starts(c) \/ Stored(c) \/ Refused(c) \/ Nudged
  /\ UNCHANGED <<host, reads, initial, loaded, onStore, aborted>>

\* The second half of an iteration is such a move ...
LEMMA WritesMove ==
  ASSUME NEW c \in Cycles, NEW p \in BOOLEAN, NEW f \in BOOLEAN, NEW sent,
         pending \in [Cycles -> BOOLEAN], flushing \in [Cycles -> BOOLEAN],
         WritesIfDirty(c, p, f, configured'[c], anchor'[c], sent, held')
  PROVE  Moves(c, sent)
<1>1. CASE configured'[c] = anchor'[c] /\ Stops(c, p, sent)
  BY <1>1 DEF Stops, Moves, Dirty
<1>2. CASE /\ drain' = [drain EXCEPT ![c] = "commit"]
           /\ flushing' = [flushing EXCEPT ![c] = f]
           /\ pending' = [pending EXCEPT ![c] = p]
           /\ snapshot' = [snapshot EXCEPT ![c] = configured'[c]]
           /\ writes' = Append(sent, Commit(c, configured'[c][1], held'))
  BY <1>2 DEF Moves
<1> QED
  BY <1>1, <1>2 DEF WritesIfDirty

\* ... and so is a whole one, if a drain that leaves the loop has settled.
LEMMA IterationMoves ==
  ASSUME NEW c \in Cycles, NEW sent,
         pending \in [Cycles -> BOOLEAN], flushing \in [Cycles -> BOOLEAN],
         c \notin aborted /\ ~pending[c] => ~Dirty(c)' \/ configured'[c] = initial[c],
         Iterates(c, configured'[c], anchor'[c], sent, held')
  PROVE  Moves(c, sent)
<1>1. CASE /\ c \in aborted \/ ~(pending[c] \/ flushing[c])
           /\ Stops(c, pending[c], sent)
  BY <1>1 DEF Stops, Moves
<1>2. CASE WritesIfDirty(c, FALSE, TRUE, configured'[c], anchor'[c], sent, held')
  BY <1>2, WritesMove
<1>3. CASE /\ c \notin aborted
           /\ drain' = [drain EXCEPT ![c] = "debounce"]
           /\ pending' = [pending EXCEPT ![c] = FALSE]
           /\ snapshot' = [snapshot EXCEPT ![c] = Empty]
           /\ writes' = sent
           /\ UNCHANGED flushing
  BY <1>3 DEF Moves
<1> QED
  BY <1>1, <1>2, <1>3 DEF Iterates

\* A drain that runs belongs to a cycle whose model is loaded, on its own store.
LEMMA RunningOnItsStore ==
  ASSUME Stages, Drains, NEW c \in Cycles, c \in loaded
  PROVE  onStore[c] = c
BY DEF Stages

\* flush() is a step of the drain it is called on.
LEMMA FlushSteps ==
  ASSUME Types, Stages, Drains, NEW c \in Cycles, c = flushOf, Flush(c),
         UNCHANGED <<host, held, generation, reads, storeVars, onStore, aborted>>
  PROVE  DrainSteps(c)
<1>1. c = current /\ onStore[c] = c
  BY DEF Stages, Cycles
<1>2. /\ pending \in [Cycles -> BOOLEAN] /\ flushing \in [Cycles -> BOOLEAN]
      /\ configured' = configured /\ anchor' = anchor /\ held' = held
      /\ UNCHANGED <<host, generation, reads, initial, loaded, onStore, aborted>>
  BY DEF Types, PageTypeOK, EffectTypeOK, storeVars
<1>3. CASE /\ drain[c] = "debounce" \/ (drain[c] = "idle" /\ Dirty(c))
           /\ WritesIfDirty(c, FALSE, TRUE, configured[c], anchor[c], writes, held)
  <2>1. Moves(c, writes)
    BY <1>1, <1>2, <1>3, WritesMove
  <2>2. c \in loaded
    BY <1>1, <1>3 DEF Drains, Dirty
  <2> QED
    BY <1>1, <1>2, <1>3, <2>1, <2>2 DEF Starts, DrainSteps
<1>4. CASE drain[c] = "idle" /\ UNCHANGED <<drainVars, writes>>
  BY <1>2, <1>4 DEF Nudged, DrainSteps, drainVars
<1>5. CASE /\ flushing' = [flushing EXCEPT ![c] = TRUE]
           /\ UNCHANGED <<pending, drain, snapshot, writes>>
  BY <1>1, <1>2, <1>5 DEF Nudged, DrainSteps
<1> QED
  BY <1>1, <1>3, <1>4, <1>5 DEF Flush

\* The end of a debounce is a step of its drain.
LEMMA DebounceSteps ==
  ASSUME Types, Stages, Drains, NEW c \in Cycles, DebounceFires(c)
  PROVE  DrainSteps(c)
<1>1. drain[c] = "debounce" /\ c \in loaded
  BY DEF DebounceFires, Drains
<1>2. onStore[c] = c
  BY <1>1, RunningOnItsStore
<1>3. /\ pending \in [Cycles -> BOOLEAN] /\ flushing \in [Cycles -> BOOLEAN]
      /\ pending[c] \in BOOLEAN /\ flushing[c] \in BOOLEAN
  BY DEF Types, PageTypeOK, EffectTypeOK
<1>4. /\ WritesIfDirty(c, pending[c], flushing[c], configured'[c], anchor'[c], writes, held')
      /\ UNCHANGED <<configured, anchor, initial, loaded, onStore, aborted, host,
                     held, generation, reads>>
  BY <1>2 DEF DebounceFires, storeVars
<1>5. Moves(c, writes)
  BY <1>3, <1>4, WritesMove
<1> QED
  BY <1>1, <1>4, <1>5 DEF DrainSteps, Starts

\* A stored write is a step of its drain; what leaves the loop has settled, for
\* every edit that matters has set pending.
LEMMA SuccessSteps ==
  ASSUME Types, Stages, Drains, NEW c \in Cycles, CommitSucceeds(c)
  PROVE  DrainSteps(c) /\ Stored(c)
<1>1. PICK i \in Answered(c, "stored") :
        LET s    == onStore[c]
            rest == RemoveAt(writes, i)
        IN  /\ CommitStored(i)
            /\ anchor' = IF c \in aborted THEN anchor
                         ELSE [anchor EXCEPT ![s] = snapshot[c]]
            /\ Iterates(c, configured[s], anchor'[s], rest, held')
            /\ UNCHANGED <<configured, initial, loaded, onStore, aborted, host, reads>>
  BY DEF CommitSucceeds
<1>2. i \in DOMAIN writes /\ writes[i].by = c /\ writes[i].answer = "stored"
  BY DEF Answered
<1>3. drain[c] = "commit" /\ c \in loaded
  BY <1>2 DEF Drains, Owned
<1>4. onStore[c] = c
  BY <1>3, RunningOnItsStore
<1>5. /\ pending \in [Cycles -> BOOLEAN] /\ flushing \in [Cycles -> BOOLEAN]
      /\ anchor \in [Cycles -> Refs]
  BY DEF Types, PageTypeOK, EffectTypeOK
<1>6. c \notin aborted /\ ~pending[c] => ~Dirty(c)' \/ configured'[c] = initial[c]
  BY <1>1, <1>3, <1>4, <1>5 DEF Drains, Dirty
<1>7. Iterates(c, configured'[c], anchor'[c], RemoveAt(writes, i), held')
  BY <1>1, <1>4
<1>8. Moves(c, RemoveAt(writes, i))
  BY <1>5, <1>6, <1>7, IterationMoves
<1>9. Stored(c)
  BY <1>1, <1>2, <1>4, <1>8 DEF Stored, CommitStored
<1> QED
  BY <1>1, <1>9 DEF DrainSteps

\* A refused write is a step of its drain, and rolls back only a drain that has
\* nothing pending.
LEMMA FailureSteps ==
  ASSUME Types, Stages, Drains, NEW c \in Cycles, CommitFails(c)
  PROVE  DrainSteps(c) /\ Refused(c)
<1>1. PICK i \in Answered(c, "refused") :
        LET s    == onStore[c]
            rest == RemoveAt(writes, i)
        IN  /\ \/ /\ pending[c] \/ c \in aborted
                  /\ UNCHANGED configured
                  /\ IF pending[c]
                     THEN Iterates(c, configured[s], anchor[s], rest, held)
                     ELSE Stops(c, FALSE, rest)
               \/ /\ ~pending[c] /\ c \notin aborted
                  /\ configured' = [configured EXCEPT ![s] = anchor[s]]
                  /\ Stops(c, FALSE, rest)
            /\ UNCHANGED <<anchor, initial, loaded, onStore, aborted, host, held,
                           generation, reads>>
  BY DEF CommitFails
<1> DEFINE rest == RemoveAt(writes, i)
<1>2. i \in DOMAIN writes /\ writes[i].by = c /\ writes[i].answer = "refused"
  BY DEF Answered
<1>3. drain[c] = "commit" /\ c \in loaded
  BY <1>2 DEF Drains, Owned
<1>4. onStore[c] = c
  BY <1>3, RunningOnItsStore
<1>5. /\ pending \in [Cycles -> BOOLEAN] /\ flushing \in [Cycles -> BOOLEAN]
      /\ anchor \in [Cycles -> Refs] /\ configured \in [Cycles -> Refs]
  BY DEF Types, PageTypeOK, EffectTypeOK
<1> HIDE DEF rest
<1>6. /\ Moves(c, rest)
      /\ \/ UNCHANGED configured
         \/ c \notin aborted /\ ~pending[c] /\ configured' = [configured EXCEPT ![c] = anchor[c]]
  <2>1. CASE pending[c] /\ UNCHANGED configured /\ Iterates(c, configured[c], anchor[c], rest, held)
    <3>1. Iterates(c, configured'[c], anchor'[c], rest, held')
      BY <1>1, <2>1
    <3> QED
      BY <1>5, <2>1, <3>1, IterationMoves
  <2>2. CASE c \in aborted /\ UNCHANGED configured /\ Stops(c, FALSE, rest)
    BY <1>5, <2>2 DEF Stops, Moves
  <2>3. CASE /\ ~pending[c] /\ c \notin aborted
             /\ configured' = [configured EXCEPT ![c] = anchor[c]]
             /\ Stops(c, FALSE, rest)
    <3>1. ~Dirty(c)'
      BY <1>1, <1>5, <2>3 DEF Dirty
    <3> QED
      BY <1>5, <2>3, <3>1 DEF Stops, Moves
  <2> QED
    BY <1>1, <1>4, <2>1, <2>2, <2>3 DEF rest
<1>7. Refused(c)
  BY <1>1, <1>2, <1>6 DEF Refused, rest
<1> QED
  BY <1>1, <1>7 DEF DrainSteps

-----------------------------------------------------------------------------
(* What the steps of the drains keep. *)

\* What commit() sends.
LEMMA CommitIsWrite ==
  ASSUME NEW c \in Cycles, NEW x \in Refs, NEW from \in Config
  PROVE  /\ Commit(c, x[1], from) \in Writes
         /\ Commit(c, x[1], from).by = c
         /\ Commit(c, x[1], from).answer = "none"
         /\ Commit(c, x[1], from).next.options = x[1]
         /\ Commit(c, x[1], from).next.other = from.other
<1>1. x[1] \in Nat
  BY DEF Refs
<1> QED
  BY <1>1 DEF Commit, Writes, Config

\* A move keeps the queue what the drains await.
LEMMA MovesKeepsWrites ==
  ASSUME NEW c \in Cycles, NEW sent \in Seq(Writes),
         drain \in [Cycles -> Phases], snapshot \in [Cycles -> Refs],
         configured' \in [Cycles -> Refs], held' \in Config,
         Owned(sent, [drain EXCEPT ![c] = "idle"], snapshot),
         Moves(c, sent)
  PROVE  /\ writes' \in Seq(Writes)
         /\ drain' \in [Cycles -> Phases]
         /\ snapshot' \in [Cycles -> Refs]
         /\ Owned(writes', drain', snapshot')
         /\ pending' \in [Cycles -> BOOLEAN] /\ flushing' \in [Cycles -> BOOLEAN]
<1>1. Empty \in Refs
  BY DEF Empty, Refs
<1>2. ASSUME NEW y \in {"idle", "debounce"},
             drain' = [drain EXCEPT ![c] = y], snapshot' = [snapshot EXCEPT ![c] = Empty],
             writes' = sent
      PROVE  /\ writes' \in Seq(Writes) /\ drain' \in [Cycles -> Phases]
             /\ snapshot' \in [Cycles -> Refs] /\ Owned(writes', drain', snapshot')
  <2>1. Owned(sent, [drain EXCEPT ![c] = y], [snapshot EXCEPT ![c] = Empty])
    BY StaysOut
  <2> QED
    BY <1>1, <1>2, <2>1 DEF Phases
<1>3. ASSUME drain' = [drain EXCEPT ![c] = "commit"],
             snapshot' = [snapshot EXCEPT ![c] = configured'[c]],
             writes' = Append(sent, Commit(c, configured'[c][1], held'))
      PROVE  /\ writes' \in Seq(Writes) /\ drain' \in [Cycles -> Phases]
             /\ snapshot' \in [Cycles -> Refs] /\ Owned(writes', drain', snapshot')
  <2> DEFINE x == configured'[c]
             w == Commit(c, x[1], held')
  <2>1. x \in Refs
    OBVIOUS
  <2>2. w \in Writes /\ w.by = c /\ w.next.options = x[1]
    BY <2>1, CommitIsWrite
  <2> HIDE DEF x, w
  <2>3. Owned(Append(sent, w), [drain EXCEPT ![c] = "commit"], [snapshot EXCEPT ![c] = x])
    BY <2>1, <2>2, SentOne
  <2>4. writes' = Append(sent, w) /\ snapshot' = [snapshot EXCEPT ![c] = x]
    BY <1>3 DEF x, w
  <2> QED
    BY <1>3, <2>1, <2>2, <2>3, <2>4 DEF Phases
<1> QED
  BY <1>2, <1>3 DEF Moves

\* The variables of the drains and the session keep their types.
LEMMA DrainTypes ==
  ASSUME Types, Stages, Drains, NEW c \in Cycles, DrainSteps(c)
  PROVE  /\ SessionTypeOK' /\ EffectTypeOK'
         /\ \A d \in Cycles : reads'[d].gen <= generation'
         /\ Owned(writes', drain', snapshot')
<1>1. /\ SessionTypeOK /\ EffectTypeOK /\ Owned(writes, drain, snapshot)
      /\ \A d \in Cycles : reads[d].gen <= generation
  BY DEF Types, PageTypeOK, Drains
<1>2. /\ writes \in Seq(Writes) /\ drain \in [Cycles -> Phases]
      /\ snapshot \in [Cycles -> Refs] /\ configured \in [Cycles -> Refs]
      /\ anchor \in [Cycles -> Refs] /\ held \in Config /\ generation \in Nat
      /\ pending \in [Cycles -> BOOLEAN]
  BY <1>1 DEF SessionTypeOK, EffectTypeOK, Phases
<1>3. ASSUME NEW sent \in Seq(Writes), Owned(sent, [drain EXCEPT ![c] = "idle"], snapshot),
             Moves(c, sent),
             configured' \in [Cycles -> Refs], anchor' \in [Cycles -> Refs],
             held' \in Config, generation' \in Nat, generation <= generation'
      PROVE  /\ SessionTypeOK' /\ EffectTypeOK'
             /\ \A d \in Cycles : reads'[d].gen <= generation'
             /\ Owned(writes', drain', snapshot')
  <2>1. /\ writes' \in Seq(Writes) /\ drain' \in [Cycles -> Phases]
        /\ snapshot' \in [Cycles -> Refs] /\ Owned(writes', drain', snapshot')
        /\ pending' \in [Cycles -> BOOLEAN] /\ flushing' \in [Cycles -> BOOLEAN]
    BY <1>2, <1>3, MovesKeepsWrites
  <2>2. \A d \in Cycles : reads[d].gen \in Nat
    BY <1>1 DEF SessionTypeOK, Reads
  <2>3. UNCHANGED <<host, reads, initial, loaded, onStore, aborted>>
    BY DEF DrainSteps
  <2>4. \A d \in Cycles : reads'[d].gen <= generation'
    BY <1>1, <1>2, <1>3, <2>2, <2>3
  <2> QED
    BY <1>1, <1>3, <2>1, <2>3, <2>4 DEF SessionTypeOK, EffectTypeOK, Phases
<1>4. CASE Starts(c)
  <2>1. Owned(writes, [drain EXCEPT ![c] = "idle"], snapshot)
    BY <1>1, <1>2, <1>4, NotWriting DEF Starts
  <2> QED
    BY <1>2, <1>3, <1>4, <2>1 DEF Starts
<1>5. ASSUME NEW i \in DOMAIN writes, writes[i].by = c
      PROVE  /\ RemoveAt(writes, i) \in Seq(Writes)
             /\ Owned(RemoveAt(writes, i), [drain EXCEPT ![c] = "idle"], snapshot)
  BY <1>1, <1>2, <1>5, Removed, TakenOut
<1>6. CASE Stored(c)
  <2>1. PICK i \in DOMAIN writes :
          /\ writes[i].by = c /\ Moves(c, RemoveAt(writes, i))
          /\ held' = writes[i].next /\ generation' = generation + 1
          /\ anchor' = IF c \in aborted THEN anchor ELSE [anchor EXCEPT ![c] = snapshot[c]]
          /\ UNCHANGED configured
    BY <1>6 DEF Stored
  <2>2. held' \in Config /\ anchor' \in [Cycles -> Refs] /\ configured' \in [Cycles -> Refs]
        /\ generation' \in Nat /\ generation <= generation'
    BY <1>2, <2>1, Elements
  <2> QED
    BY <1>3, <1>5, <2>1, <2>2
<1>7. CASE Refused(c)
  <2>1. PICK i \in DOMAIN writes :
          /\ writes[i].by = c /\ Moves(c, RemoveAt(writes, i))
          /\ \/ UNCHANGED configured
             \/ configured' = [configured EXCEPT ![c] = anchor[c]]
          /\ UNCHANGED <<anchor, held, generation>>
    BY <1>7 DEF Refused
  <2>2. held' \in Config /\ anchor' \in [Cycles -> Refs] /\ configured' \in [Cycles -> Refs]
        /\ generation' \in Nat /\ generation <= generation'
    BY <1>2, <2>1
  <2> QED
    BY <1>3, <1>5, <2>1, <2>2
<1>8. CASE Nudged
  BY <1>1, <1>8 DEF Nudged, DrainSteps, SessionTypeOK, EffectTypeOK
<1> QED
  BY <1>4, <1>6, <1>7, <1>8 DEF DrainSteps

\* What a step of the drain of c does to the others, and where it leaves c.
LEMMA DrainFrame ==
  ASSUME Types, Drains, NEW c \in Cycles, DrainSteps(c)
  PROVE  /\ \A d \in Cycles \ {c} :
              /\ drain'[d] = drain[d] /\ snapshot'[d] = snapshot[d]
              /\ pending'[d] = pending[d]
              /\ configured'[d] = configured[d] /\ anchor'[d] = anchor[d]
         /\ \/ UNCHANGED <<pending, drain, snapshot, writes, configured, anchor>>
            \/ /\ c \in loaded
               /\ \/ drain'[c] = "idle" /\ (c \in aborted \/ ~Dirty(c)' \/ configured'[c] = initial[c])
                  \/ drain'[c] = "debounce"
                  \/ drain'[c] = "commit" /\ configured'[c] = snapshot'[c]
<1>1. /\ drain \in [Cycles -> Phases] /\ snapshot \in [Cycles -> Refs]
      /\ configured \in [Cycles -> Refs] /\ anchor \in [Cycles -> Refs]
  BY DEF Types, PageTypeOK, EffectTypeOK, Phases
<1>2. ASSUME NEW sent, Moves(c, sent)
      PROVE  /\ \A d \in Cycles \ {c} :
                  /\ drain'[d] = drain[d] /\ snapshot'[d] = snapshot[d]
                  /\ pending'[d] = pending[d]
             /\ \/ drain'[c] = "idle" /\ (c \in aborted \/ ~Dirty(c)' \/ configured'[c] = initial[c])
                \/ drain'[c] = "debounce"
                \/ drain'[c] = "commit" /\ configured'[c] = snapshot'[c]
  BY <1>1, <1>2 DEF Moves
<1>3. CASE Starts(c)
  BY <1>2, <1>3 DEF Starts
<1>4. CASE Stored(c)
  <2>1. PICK i \in DOMAIN writes :
          /\ writes[i].by = c /\ Moves(c, RemoveAt(writes, i))
          /\ anchor' = IF c \in aborted THEN anchor ELSE [anchor EXCEPT ![c] = snapshot[c]]
          /\ UNCHANGED configured
    BY <1>4 DEF Stored
  <2>2. c \in loaded
    BY <2>1 DEF Drains, Owned
  <2>3. \A d \in Cycles \ {c} : configured'[d] = configured[d] /\ anchor'[d] = anchor[d]
    BY <1>1, <2>1
  <2> QED
    BY <1>2, <2>1, <2>2, <2>3
<1>5. CASE Refused(c)
  <2>1. PICK i \in DOMAIN writes :
          /\ writes[i].by = c /\ Moves(c, RemoveAt(writes, i))
          /\ \/ UNCHANGED configured
             \/ configured' = [configured EXCEPT ![c] = anchor[c]]
          /\ UNCHANGED anchor
    BY <1>5 DEF Refused
  <2>2. c \in loaded
    BY <2>1 DEF Drains, Owned
  <2>3. \A d \in Cycles \ {c} : configured'[d] = configured[d] /\ anchor'[d] = anchor[d]
    BY <1>1, <2>1
  <2> QED
    BY <1>2, <2>1, <2>2, <2>3
<1>6. CASE Nudged
  BY <1>6 DEF Nudged
<1> QED
  BY <1>3, <1>4, <1>5, <1>6 DEF DrainSteps

\* What a drain step owes the drains.
LEMMA DrainKeepsDrains ==
  ASSUME Types, Stages, Drains, NEW c \in Cycles, DrainSteps(c)
  PROVE  Drains'
<1>1. Owned(writes', drain', snapshot')
  BY DrainTypes
<1>2. UNCHANGED <<initial, loaded, aborted>>
  BY DEF DrainSteps
<1>3. ASSUME NEW d \in Cycles \ {c}
      PROVE  /\ d \notin loaded' => drain'[d] = "idle" /\ configured'[d] = Empty /\ anchor'[d] = Empty
             /\ d \notin aborted' /\ drain'[d] = "idle" => ~Dirty(d)' \/ configured'[d] = initial'[d]
             /\ d \notin aborted' /\ drain'[d] = "commit" =>
                  \/ configured'[d] = snapshot'[d]
                  \/ pending'[d]
                  \/ ~Dirty(d)' /\ anchor'[d] = initial'[d]
  <2>1. /\ drain'[d] = drain[d] /\ snapshot'[d] = snapshot[d] /\ pending'[d] = pending[d]
        /\ configured'[d] = configured[d] /\ anchor'[d] = anchor[d]
    BY DrainFrame
  <2> QED
    BY <1>2, <2>1 DEF Drains, Dirty
<1>4. /\ c \notin loaded' => drain'[c] = "idle" /\ configured'[c] = Empty /\ anchor'[c] = Empty
      /\ c \notin aborted' /\ drain'[c] = "idle" => ~Dirty(c)' \/ configured'[c] = initial'[c]
      /\ c \notin aborted' /\ drain'[c] = "commit" =>
           \/ configured'[c] = snapshot'[c]
           \/ pending'[c]
           \/ ~Dirty(c)' /\ anchor'[c] = initial'[c]
  <2>1. CASE UNCHANGED <<pending, drain, snapshot, writes, configured, anchor>>
    BY <1>2, <2>1 DEF Drains, Dirty
  <2>2. CASE ~UNCHANGED <<pending, drain, snapshot, writes, configured, anchor>>
    BY <1>2, <2>2, DrainFrame
  <2> QED
    BY <2>1, <2>2
<1> QED
  BY <1>1, <1>3, <1>4 DEF Drains

\* No drain invents a content.
LEMMA DrainKeepsContents ==
  ASSUME Types, Stages, Drains, Contents, NEW c \in Cycles, DrainSteps(c), edits' = edits
  PROVE  Contents'
<1>1. /\ drain \in [Cycles -> Phases] /\ snapshot \in [Cycles -> Refs]
      /\ configured \in [Cycles -> Refs] /\ anchor \in [Cycles -> Refs]
      /\ held \in Config /\ writes \in Seq(Writes) /\ edits \in Nat
  BY DEF Types, PageTypeOK, SessionTypeOK, EffectTypeOK, Phases
<1>2. UNCHANGED <<host, reads, initial>>
  BY DEF DrainSteps
<1>3. ASSUME NEW sent \in Seq(Writes), Moves(c, sent),
             \A i \in DOMAIN sent : sent[i].next.options <= edits,
             configured' \in [Cycles -> Refs], \A d \in Cycles : configured'[d][1] <= edits,
             \A d \in Cycles : anchor'[d][1] <= edits,
             held' \in Config, held'.options <= edits
      PROVE  Contents'
  <2>1. \A d \in Cycles : snapshot'[d][1] <= edits
    <3>1. Empty[1] = 0
      BY DEF Empty
    <3> QED
      BY <1>1, <1>3, <3>1 DEF Moves, Contents
  <2>2. \A i \in DOMAIN writes' : writes'[i].next.options <= edits
    <3> DEFINE w == Commit(c, configured'[c][1], held')
    <3>1. w.next.options <= edits
      BY <1>3, CommitIsWrite
    <3> HIDE DEF w
    <3>2. writes' = sent \/ writes' = Append(sent, w)
      BY <1>3 DEF Moves, w
    <3>3. \A i \in DOMAIN Append(sent, w) : Append(sent, w)[i] = w \/ (i \in DOMAIN sent /\ Append(sent, w)[i] = sent[i])
      OBVIOUS
    <3> QED
      BY <1>3, <3>1, <3>2, <3>3
  <2> QED
    BY <1>2, <1>3, <2>1, <2>2 DEF Contents
<1>4. ASSUME NEW i \in DOMAIN writes
      PROVE  /\ RemoveAt(writes, i) \in Seq(Writes)
             /\ \A j \in DOMAIN RemoveAt(writes, i) : RemoveAt(writes, i)[j].next.options <= edits
  <2>1. i \in 1..Len(writes) /\ DOMAIN writes = 1..Len(writes) /\ Len(writes) \in Nat
    BY <1>1
  <2>2. \A j \in 1..(Len(writes) - 1) : j \in DOMAIN writes /\ j + 1 \in DOMAIN writes
    BY <2>1
  <2>3. /\ RemoveAt(writes, i) \in Seq(Writes) /\ DOMAIN RemoveAt(writes, i) = 1..(Len(writes) - 1)
        /\ \A j \in 1..(Len(writes) - 1) :
             RemoveAt(writes, i)[j] = IF j < i THEN writes[j] ELSE writes[j + 1]
    BY <1>1, Removed
  <2> QED
    BY <2>2, <2>3 DEF Contents
<1>5. CASE Starts(c)
  BY <1>1, <1>3, <1>5 DEF Starts, Contents
<1>6. CASE Stored(c)
  <2>1. PICK i \in DOMAIN writes :
          /\ Moves(c, RemoveAt(writes, i))
          /\ held' = writes[i].next
          /\ anchor' = IF c \in aborted THEN anchor ELSE [anchor EXCEPT ![c] = snapshot[c]]
          /\ UNCHANGED configured
    BY <1>6 DEF Stored
  <2>2. \A d \in Cycles : anchor'[d][1] <= edits
    BY <1>1, <2>1 DEF Contents
  <2>3. held' \in Config /\ held'.options <= edits
    BY <1>1, <2>1, Elements DEF Contents
  <2>4. configured' \in [Cycles -> Refs] /\ \A d \in Cycles : configured'[d][1] <= edits
    BY <1>1, <2>1 DEF Contents
  <2> QED
    BY <1>3, <1>4, <2>1, <2>2, <2>3, <2>4
<1>7. CASE Refused(c)
  <2>1. PICK i \in DOMAIN writes :
          /\ Moves(c, RemoveAt(writes, i))
          /\ \/ UNCHANGED configured
             \/ configured' = [configured EXCEPT ![c] = anchor[c]]
          /\ UNCHANGED <<anchor, held>>
    BY <1>7 DEF Refused
  <2>2. configured' \in [Cycles -> Refs] /\ \A d \in Cycles : configured'[d][1] <= edits
    BY <1>1, <2>1 DEF Contents
  <2>3. held' \in Config /\ held'.options <= edits /\ \A d \in Cycles : anchor'[d][1] <= edits
    BY <1>1, <2>1 DEF Contents
  <2> QED
    BY <1>3, <1>4, <2>1, <2>2, <2>3
<1>8. CASE Nudged
  BY <1>2, <1>8 DEF Nudged, Contents
<1> QED
  BY <1>5, <1>6, <1>7, <1>8 DEF DrainSteps

\* While no hide() has given up, only the page on display writes, one write at
\* a time, and only while its tab is shown.
LEMMA OneAtATime ==
  ASSUME Types, Stages, Drains, Quiet
  PROVE  /\ \A i \in DOMAIN writes : writes[i].by = current /\ current # 0
         /\ \A i, j \in DOMAIN writes : i = j
         /\ \A i \in DOMAIN writes : RemoveAt(writes, i) = <<>>
         /\ Len(writes) <= 1
<1>1. writes \in Seq(Writes)
  BY DEF Types, PageTypeOK, SessionTypeOK
<1>2. ASSUME NEW i \in DOMAIN writes
      PROVE  writes[i].by = current /\ current # 0
  <2>1. writes[i].by \in Cycles /\ drain[writes[i].by] = "commit"
    BY <1>1, Elements DEF Drains, Owned
  <2>2. writes[i].by \in loaded /\ writes[i].by \notin aborted
    BY <2>1 DEF Drains, Quiet
  <2> QED
    BY <2>1, <2>2 DEF Stages, Cycles
<1>3. \A i, j \in DOMAIN writes : i = j
  BY <1>2 DEF Drains, Owned
<1>4. Len(writes) <= 1
  <2>1. DOMAIN writes = 1..Len(writes) /\ Len(writes) \in Nat
    BY <1>1
  <2>2. SUFFICES ASSUME Len(writes) > 1 PROVE FALSE
    BY <2>1
  <2>3. 1 \in DOMAIN writes /\ 2 \in DOMAIN writes
    BY <2>1, <2>2
  <2> QED
    BY <1>3, <2>3
<1>5. ASSUME NEW i \in DOMAIN writes
      PROVE  RemoveAt(writes, i) = <<>>
  <2>1. Len(writes) = 1
    <3>1. i \in 1..Len(writes) /\ Len(writes) \in Nat
      BY <1>1
    <3> QED
      BY <1>4, <3>1
  <2>2. RemoveAt(writes, i) \in Seq(Writes) /\ DOMAIN RemoveAt(writes, i) = 1..0
    BY <1>1, <2>1, Removed
  <2> QED
    BY <2>2
<1> QED
  BY <1>2, <1>3, <1>4, <1>5

\* The page is on display, its model is loaded, and replica and anchor are what
\* the host holds: its drain may send what is shown.
LEMMA SendsFresh ==
  ASSUME Types, Stages, Quiet, NEW c \in Cycles, c = current, stage[c] = "ready",
         Moves(c, <<>>),
         configured' \in [Cycles -> Refs],
         UNCHANGED <<host, reads, aborted, current, flushOf, gaveUp>>,
         stage'[c] = stage[c], visible' = "options",
         held' = host, anchor'[c][1] = host.options,
         generation' \in Nat, generation <= generation',
         \A d \in Cycles \ {c} : reads[d].gen < generation,
         \A k \in clicks' : k.on = flushOf
  PROVE  Honest'
<1>1. /\ drain \in [Cycles -> Phases] /\ held' \in Config /\ generation \in Nat
      /\ \A d \in Cycles : reads[d].gen \in Nat
  BY DEF Types, PageTypeOK, SessionTypeOK, EffectTypeOK, Phases, Reads
<1> DEFINE w == Commit(c, configured'[c][1], held')
<1>2. w.answer = "none" /\ w.next.other = host.other
  BY <1>1, CommitIsWrite
<1> HIDE DEF w
<1>3. writes' = <<>> \/ writes' = Append(<<>>, w)
  BY DEF Moves, w
<1>4. \A i \in DOMAIN writes' : writes'[i] = w
  BY <1>3
<1>5. \A d \in Cycles \ {c} : drain'[d] = drain[d]
  BY <1>1 DEF Moves
<1>6. Quiet'
  <2>1. c \notin aborted
    BY DEF Stages
  <2>2. \A d \in aborted : d \in Cycles
    BY DEF Types, PageTypeOK, EffectTypeOK
  <2> QED
    BY <1>5, <2>1, <2>2 DEF Quiet
<1>7. FreshOptions'
  BY <1>1 DEF FreshOptions
<1>8. FreshRest'
  BY <1>2, <1>4 DEF FreshRest
<1> QED
  BY <1>6, <1>7, <1>8 DEF Honest

\* A drain step keeps the replica fresh, for it is the step of the page on
\* display, and the one write there may be is the one it settles.
LEMMA DrainKeepsHonest ==
  ASSUME Types, Stages, Drains, Honest, NEW c \in Cycles, DrainSteps(c), NextTask,
         UNCHANGED <<current, flushOf, gaveUp>>,
         current # 0 => stage'[current] = stage[current],
         visible' = visible \/ (visible' = "options" /\ \E k \in clicks' : k.on = flushOf),
         \A k \in clicks' : k \in clicks \/ k.on = flushOf
  PROVE  Honest'
<1> SUFFICES ASSUME ~gaveUp PROVE Honest'
  BY DEF Honest
<1>1. Quiet /\ FreshOptions /\ FreshRest
  BY DEF Honest
<1>2. UNCHANGED <<host, reads, aborted>> /\ \A k \in clicks' : k.on = flushOf
  BY <1>1 DEF DrainSteps, Quiet
<1>3. /\ writes \in Seq(Writes) /\ held \in Config /\ host \in Config /\ generation \in Nat
      /\ drain \in [Cycles -> Phases] /\ current \in 0..MaxCycles
      /\ anchor \in [Cycles -> Refs] /\ configured' \in [Cycles -> Refs]
  BY DrainTypes DEF Types, PageTypeOK, SessionTypeOK, EffectTypeOK, Phases
<1>4. \A x, y \in Config : x.options = y.options /\ x.other = y.other => x = y
  BY DEF Config
<1>5. ASSUME c \in loaded, c \notin aborted, drain[c] # "idle" \/ Dirty(c)
      PROVE  /\ c = current /\ stage[c] = "ready"
             /\ visible' = "options" /\ stage'[c] = stage[c]
             /\ held.other = host.other
             /\ \A d \in Cycles \ {c} : reads[d].gen < generation
             /\ NoneStored => held = host /\ anchor[c][1] = host.options
  <2>1. c = current /\ stage[c] = "ready" /\ c # 0
    BY <1>5 DEF Stages, Cycles
  <2>2. visible = "options"
    BY <1>1, <1>5, <2>1 DEF Quiet
  <2>3. held.other = host.other
    BY <1>1, <2>1, <2>2 DEF FreshRest
  <2>4. \A d \in Cycles \ {c} : reads[d].gen < generation
    BY <1>1, <2>1 DEF FreshOptions
  <2>5. NoneStored => held.options = host.options /\ anchor[c][1] = host.options
    BY <1>1, <2>1 DEF FreshOptions
  <2> QED
    BY <1>3, <1>4, <2>1, <2>2, <2>3, <2>4, <2>5
<1>6. CASE Starts(c)
  <2>1. c \in loaded /\ c \notin aborted /\ (drain[c] # "idle" \/ Dirty(c))
    BY <1>1, <1>6 DEF Starts, Quiet, Stages
  <2>2. writes = <<>>
    <3>1. \A i \in DOMAIN writes : FALSE
      BY <1>1, <1>5, <1>6, <2>1, OneAtATime DEF Starts, Drains, Owned
    <3>2. DOMAIN writes = 1..Len(writes) /\ Len(writes) \in Nat
      BY <1>3
    <3>3. Len(writes) = 0
      BY <3>1, <3>2
    <3> QED
      BY <1>3, <3>3
  <2>3. NoneStored
    BY <2>2 DEF NoneStored
  <2>4. /\ Moves(c, <<>>) /\ held' = host /\ anchor'[c][1] = host.options
        /\ generation' = generation
    BY <1>5, <1>6, <2>1, <2>2, <2>3 DEF Starts
  <2> QED
    BY <1>1, <1>2, <1>3, <1>5, <2>1, <2>4, SendsFresh
<1>7. CASE Stored(c)
  <2>1. PICK i \in DOMAIN writes :
          /\ writes[i].by = c /\ writes[i].answer = "stored"
          /\ Moves(c, RemoveAt(writes, i))
          /\ held' = writes[i].next /\ generation' = generation + 1
          /\ anchor' = IF c \in aborted THEN anchor ELSE [anchor EXCEPT ![c] = snapshot[c]]
    BY <1>7 DEF Stored
  <2>2. drain[c] = "commit" /\ c \in loaded /\ c \notin aborted
        /\ writes[i].next.options = snapshot[c][1]
    BY <1>1, <2>1 DEF Drains, Owned, Quiet
  <2>3. RemoveAt(writes, i) = <<>>
    BY <1>1, OneAtATime
  <2>4. held' = host
    BY <1>1, <2>1 DEF FreshRest
  <2>5. anchor'[c][1] = host.options
    BY <1>3, <2>1, <2>2, <2>4
  <2>6. Moves(c, <<>>) /\ generation' \in Nat /\ generation <= generation'
    BY <1>3, <2>1, <2>3
  <2> QED
    BY <1>1, <1>2, <1>3, <1>5, <2>2, <2>4, <2>5, <2>6, SendsFresh
<1>8. CASE Refused(c)
  <2>1. PICK i \in DOMAIN writes :
          /\ writes[i].by = c /\ writes[i].answer = "refused"
          /\ Moves(c, RemoveAt(writes, i))
          /\ UNCHANGED <<anchor, held, generation>>
    BY <1>8 DEF Refused
  <2>2. drain[c] = "commit" /\ c \in loaded /\ c \notin aborted
    BY <1>1, <2>1 DEF Drains, Owned, Quiet
  <2>3. RemoveAt(writes, i) = <<>> /\ NoneStored
    BY <1>1, <2>1, OneAtATime DEF NoneStored
  <2>4. /\ Moves(c, <<>>) /\ held' = host /\ anchor'[c][1] = host.options
        /\ generation' = generation
    BY <1>5, <2>1, <2>2, <2>3
  <2> QED
    BY <1>1, <1>2, <1>3, <1>5, <2>2, <2>4, SendsFresh
<1>9. CASE Nudged
  <2>1. UNCHANGED <<drain, writes, configured, anchor, held, generation>>
    BY <1>9 DEF Nudged
  <2>2. Quiet'
    BY <1>1, <1>2, <2>1 DEF Quiet, Dirty
  <2>3. FreshOptions'
    BY <1>1, <1>2, <2>1 DEF FreshOptions, NoneStored
  <2>4. current # 0 /\ visible' = "options" /\ NextTask' => visible = "options"
    BY <1>1, <2>1 DEF Quiet, NextTask, Flushed, Stages
  <2>5. FreshRest'
    BY <1>1, <1>2, <2>1, <2>4 DEF FreshRest
  <2> QED
    BY <2>2, <2>3, <2>5 DEF Honest
<1> QED
  BY <1>6, <1>7, <1>8, <1>9 DEF DrainSteps

-----------------------------------------------------------------------------
(* Clicks that resume. *)

\* The clicks done tear the page down; the cycle s, if any, begins its show().
Resumed(s, done) ==
  /\ s # 0 => stage[s] = "hiding" /\ \E k \in done : k.cycle = s
  /\ \A k \in done : k.cycle \in {0, s}
  /\ clicks' = clicks \ done
  /\ aborted' = IF current # 0 THEN aborted \cup {current} ELSE aborted
  /\ drain' = [c \in Cycles |->
       IF c = current /\ drain[c] = "debounce" THEN "idle" ELSE drain[c]]
  /\ flushing' \in [Cycles -> BOOLEAN]
  /\ generation' = IF s = 0 THEN generation ELSE generation + 1
  /\ reads' = [c \in Cycles |->
       IF c = s THEN [gen |-> generation + 1, got |-> <<>>] ELSE reads[c]]
  /\ stage' = [c \in Cycles |-> IF c = s THEN "opening" ELSE stage[c]]
  /\ current' = s /\ theStore' = (IF s = 0 THEN theStore ELSE s) /\ flushOf' = 0
  /\ visible' \in Tabs
  /\ UNCHANGED <<host, held, writes, configured, anchor, initial, loaded, onStore,
                 pending, snapshot, savedOptions, edits, away>>

\* Cleanup stops a debounce and leaves a write alone.
LEMMA CleanupDoes ==
  ASSUME Types, Cleanup
  PROVE  /\ aborted' = IF current # 0 THEN aborted \cup {current} ELSE aborted
         /\ drain' = [c \in Cycles |->
              IF c = current /\ drain[c] = "debounce" THEN "idle" ELSE drain[c]]
         /\ flushing' \in [Cycles -> BOOLEAN]
<1>1. /\ drain \in [Cycles -> Phases] /\ flushing \in [Cycles -> BOOLEAN]
      /\ current \in 0..MaxCycles /\ \A c \in Cycles : c # 0
  BY DEF Types, PageTypeOK, EffectTypeOK, Phases, Cycles
<1>2. CASE current = 0
  BY <1>1, <1>2 DEF Cleanup
<1>3. CASE current # 0
  BY <1>1, <1>3 DEF Cleanup, AbortEffect, Cycles
<1> QED
  BY <1>2, <1>3

\* A show() mints the newest generation.
LEMMA SyncOfOne ==
  ASSUME Types, NEW s \in Cycles, Sync({s})
  PROVE  /\ generation' = generation + 1
         /\ reads' = [c \in Cycles |->
              IF c = s THEN [gen |-> generation + 1, got |-> <<>>] ELSE reads[c]]
<1>1. {d \in {s} : d <= s} = {s}
  BY DEF Cycles
<1>2. Cardinality({s}) = 1
  BY FS_Singleton
<1> QED
  BY <1>1, <1>2 DEF Sync

\* Without a show() nothing is read.
LEMMA SyncOfNone ==
  ASSUME Types, Sync({})
  PROVE  generation' = generation /\ reads' = reads
<1>1. Cardinality({}) = 0
  BY FS_EmptySet
<1> QED
  BY <1>1 DEF Sync, Types, PageTypeOK, SessionTypeOK

\* As one click at most is to show the page, what resumes is some Resumed.
LEMMA ResumeAs ==
  ASSUME Types, Clicks, NEW done \in SUBSET clicks, Resume(done)
  PROVE  \E s \in 0..MaxCycles : Resumed(s, done)
<1> DEFINE shows == {k.cycle : k \in done} \ {0}
           tabs  == {k \in done : k.cycle = 0}
<1>1. \A k \in clicks : k.cycle \in 0..MaxCycles /\ k.tab \in Tabs
  BY DEF Types, PageTypeOK
<1>2. /\ stage \in [Cycles -> {"unborn", "hiding", "opening", "loading", "ready", "failed"}]
      /\ reads \in [Cycles -> Reads] /\ generation \in Nat /\ visible \in Tabs
  BY DEF Types, PageTypeOK, SessionTypeOK
<1>3. /\ clicks' = clicks \ done
      /\ Cleanup
      /\ Sync(shows)
      /\ stage' = [c \in Cycles |-> IF c \in shows THEN "opening" ELSE stage[c]]
      /\ current' = Max(shows \cup {0})
      /\ theStore' = IF shows = {} THEN theStore ELSE Max(shows)
      /\ flushOf' = 0
      /\ IF tabs = {} THEN visible' = visible
         ELSE \E last \in tabs :
                (\A k \in tabs : k.nth <= last.nth) /\ visible' = last.tab
      /\ UNCHANGED <<host, held, writes, storeVars, onStore, pending, snapshot,
                     savedOptions, edits, away>>
  BY DEF Resume
<1>4. visible' \in Tabs
  BY <1>1, <1>2, <1>3
<1>5. UNCHANGED <<host, held, writes, configured, anchor, initial, loaded, onStore,
                  pending, snapshot, savedOptions, edits, away>>
  BY <1>3 DEF storeVars
<1>6. /\ aborted' = IF current # 0 THEN aborted \cup {current} ELSE aborted
      /\ drain' = [c \in Cycles |->
           IF c = current /\ drain[c] = "debounce" THEN "idle" ELSE drain[c]]
      /\ flushing' \in [Cycles -> BOOLEAN]
  BY <1>3, CleanupDoes
<1>7. \A k \in done : k.cycle \in shows \cup {0}
  OBVIOUS
<1>8. shows \subseteq Cycles /\ \A c \in shows : stage[c] = "hiding" /\ \E k \in done : k.cycle = c
  BY <1>1 DEF Clicks, Cycles
<1>9. 0 \in 0..MaxCycles /\ 0 \notin Cycles /\ Cycles \subseteq 0..MaxCycles
  BY CyclesAssumption DEF Cycles
<1> HIDE DEF shows, tabs
<1>10. CASE shows = {}
  <2>1. Max({0}) = 0
    BY DEF Max
  <2>2. generation' = generation /\ reads' = reads
    BY <1>3, <1>10, SyncOfNone
  <2>3. /\ current' = 0 /\ theStore' = theStore
        /\ stage' = [c \in Cycles |-> IF c = 0 THEN "opening" ELSE stage[c]]
        /\ reads' = [c \in Cycles |->
             IF c = 0 THEN [gen |-> generation + 1, got |-> <<>>] ELSE reads[c]]
    BY <1>2, <1>3, <1>9, <1>10, <2>1, <2>2
  <2>4. Resumed(0, done)
    BY <1>3, <1>4, <1>5, <1>6, <1>7, <1>10, <2>2, <2>3 DEF Resumed
  <2> QED
    BY <1>9, <2>4
<1>11. CASE shows # {}
  <2>1. PICK s \in shows : TRUE
    BY <1>11
  <2>2. s \in Cycles /\ shows = {s} /\ s # 0
    BY <1>8, <1>9, <2>1 DEF Clicks
  <2>3. Max({s}) = s
    BY <2>2 DEF Max, Cycles
  <2>4. Max({s} \cup {0}) = s
    <3>1. s \in Nat /\ s > 0
      BY <2>2 DEF Cycles
    <3>2. \A x \in {s} \cup {0} : s >= x
      BY <3>1
    <3>3. \A x \in {s} \cup {0} : x >= s => x = s
      BY <3>1
    <3> QED
      BY <3>2, <3>3 DEF Max
  <2>5. /\ generation' = generation + 1
        /\ reads' = [c \in Cycles |->
             IF c = s THEN [gen |-> generation + 1, got |-> <<>>] ELSE reads[c]]
    BY <1>3, <2>2, SyncOfOne
  <2>6. Resumed(s, done)
    BY <1>3, <1>4, <1>5, <1>6, <1>7, <1>8, <2>2, <2>3, <2>4, <2>5 DEF Resumed
  <2> QED
    BY <1>9, <2>2, <2>6
<1> QED
  BY <1>10, <1>11

\* Tearing down and going on keeps the first half of the invariant, a hide()
\* that gave up included.
LEMMA ResumedKeeps ==
  ASSUME Types, Stages, Clicks, Contents, Drains,
         NEW s \in 0..MaxCycles, NEW done \in SUBSET clicks, Resumed(s, done),
         gaveUp' \in BOOLEAN
  PROVE  Types' /\ Stages' /\ Clicks' /\ Contents' /\ Drains'
<1>1. /\ s # 0 => s \in Cycles
      /\ \A c \in Cycles : c # 0
      /\ current # 0 => current \in Cycles
  BY DEF Cycles, Types, PageTypeOK
<1>2. /\ generation \in Nat /\ \A c \in Cycles : reads[c] \in Reads
      /\ reads \in [Cycles -> Reads]
      /\ drain \in [Cycles -> Phases] /\ aborted \subseteq Cycles
      /\ stage \in [Cycles -> {"unborn", "hiding", "opening", "loading", "ready", "failed"}]
  BY DEF Types, PageTypeOK, SessionTypeOK, EffectTypeOK, Phases
<1>3. Types'
  <2>1. [gen |-> generation + 1, got |-> <<>>] \in Reads
    BY <1>2 DEF Reads
  <2>2. SessionTypeOK'
    BY <1>2, <2>1 DEF Resumed, SessionTypeOK, Types, PageTypeOK
  <2>3. EffectTypeOK'
    BY <1>1, <1>2 DEF Resumed, EffectTypeOK, Types, PageTypeOK, Phases
  <2>4. \A c \in Cycles : reads'[c].gen <= generation'
    <3> SUFFICES ASSUME NEW c \in Cycles PROVE reads'[c].gen <= generation'
      OBVIOUS
    <3>1. reads[c].gen \in Nat /\ reads[c].gen <= generation
      BY <1>2 DEF Reads, Types
    <3>2. CASE c = s
      <4>1. reads'[c].gen = generation + 1 /\ generation' = generation + 1
        BY <1>1, <3>2 DEF Resumed
      <4> QED
        BY <1>2, <4>1
    <3>3. CASE c # s
      <4>1. reads'[c] = reads[c] /\ generation' \in {generation, generation + 1}
        BY <3>3 DEF Resumed
      <4> QED
        BY <1>2, <3>1, <4>1
    <3> QED
      BY <3>2, <3>3
  <2>5. /\ stage' \in [Cycles -> {"unborn", "hiding", "opening", "loading", "ready", "failed"}]
        /\ {current', theStore', flushOf'} \subseteq 0..MaxCycles
        /\ visible' \in Tabs /\ clicks' \subseteq clicks
        /\ UNCHANGED <<savedOptions, edits, away>>
    BY <1>2, CyclesAssumption DEF Resumed, Types, PageTypeOK
  <2> QED
    BY <2>2, <2>3, <2>4, <2>5 DEF Types, PageTypeOK
<1>4. Stages'
  <2>1. \A c \in Cycles : stage'[c] = IF c = s THEN "opening" ELSE stage[c]
    BY DEF Resumed
  <2>2. \A c \in Cycles : c # s => reads'[c] = reads[c]
    BY DEF Resumed
  <2>3. aborted' = IF current # 0 THEN aborted \cup {current} ELSE aborted
    BY DEF Resumed
  <2>4. s # 0 => stage[s] = "hiding" /\ s \notin aborted /\ s # current
    BY <1>1 DEF Resumed, Stages
  <2>5. /\ current' = s /\ (s # 0 => theStore' = s) /\ flushOf' = 0
        /\ UNCHANGED <<onStore, loaded>>
    BY DEF Resumed
  <2>6. \A c \in Cycles :
          stage'[c] \in {"opening", "loading", "ready", "failed"} <=> c = current' \/ c \in aborted'
    BY <1>1, <2>1, <2>3, <2>4, <2>5 DEF Stages
  <2>7. \A c \in Cycles :
          /\ onStore'[c] \in {0, c}
          /\ onStore'[c] # 0 => stage'[c] \in {"loading", "ready", "failed"}
          /\ stage'[c] \in {"loading", "ready"} => onStore'[c] = c
          /\ c \in loaded' <=> stage'[c] = "ready"
          /\ stage'[c] \notin {"opening", "failed"} => reads'[c] = NoRead
    BY <1>1, <2>1, <2>2, <2>4, <2>5 DEF Stages
  <2>8. s # 0 => onStore'[s] = 0
    BY <1>1, <2>4, <2>5 DEF Stages
  <2>9. current' \notin aborted'
    BY <1>1, <1>2, <2>3, <2>4, <2>5
  <2> QED
    BY <2>5, <2>6, <2>7, <2>8, <2>9 DEF Stages
<1>5. Clicks'
  <2>1. \A k \in clicks' : k \in clicks /\ k \notin done
    BY DEF Resumed
  <2>2. \A c \in Cycles : stage'[c] = "hiding" => stage[c] = "hiding" /\ c # s
    BY DEF Resumed
  <2>3. \A k \in clicks' : k.cycle # 0 => k.cycle # s
    BY <2>1 DEF Resumed, Clicks
  <2>4. \A k \in clicks : k.cycle # 0 => k.cycle \in Cycles
    BY DEF Types, PageTypeOK, Cycles
  <2>5. \A k \in clicks' : k.cycle # 0 => stage'[k.cycle] = "hiding"
    BY <2>1, <2>3, <2>4 DEF Resumed, Clicks
  <2>6. UNCHANGED onStore
    BY DEF Resumed
  <2> QED
    BY <2>1, <2>2, <2>5, <2>6 DEF Clicks
<1>6. Contents'
  <2>1. \A c \in Cycles : reads'[c].got # <<>> => reads'[c] = reads[c]
    BY DEF Resumed
  <2>2. UNCHANGED <<host, held, configured, anchor, initial, snapshot, writes, edits>>
    BY DEF Resumed
  <2> QED
    BY <2>1, <2>2 DEF Contents
<1>7. Drains'
  <2>1. UNCHANGED <<writes, configured, anchor, initial, loaded, pending, snapshot>>
    BY DEF Resumed
  <2>2. \A c \in Cycles : drain'[c] = "commit" <=> drain[c] = "commit"
    BY <1>2 DEF Resumed
  <2>3. \A c \in Cycles : drain'[c] = drain[c] \/ (drain'[c] = "idle" /\ c \in aborted')
    BY <1>1, <1>2 DEF Resumed
  <2>4. aborted \subseteq aborted'
    BY DEF Resumed
  <2>5. \A i \in DOMAIN writes : writes[i].by \in Cycles
    BY Elements DEF Types, PageTypeOK, SessionTypeOK
  <2>6. Owned(writes', drain', snapshot')
    BY <2>1, <2>2, <2>5 DEF Drains, Owned
  <2> QED
    BY <2>1, <2>2, <2>3, <2>4, <2>6 DEF Drains, Dirty
<1> QED
  BY <1>3, <1>4, <1>5, <1>6, <1>7

\* A hide() that returns does so after the last write has settled.
LEMMA ReturnsKeep ==
  ASSUME IInv, HidesReturn
  PROVE  IInv'
<1> DEFINE done == {k \in clicks : Flushed(k)}
<1>1. PICK s \in 0..MaxCycles : Resumed(s, done)
  BY ResumeAs DEF IInv, HidesReturn
<1>2. gaveUp' = gaveUp /\ gaveUp \in BOOLEAN
  BY DEF HidesReturn, IInv, Types, PageTypeOK
<1>3. Types' /\ Stages' /\ Clicks' /\ Contents' /\ Drains'
  BY <1>1, <1>2, ResumedKeeps DEF IInv
<1>4. ASSUME ~gaveUp
      PROVE  Quiet' /\ FreshOptions' /\ FreshRest'
  <2>1. Quiet
    BY <1>4 DEF IInv, Honest
  <2>2. done = clicks /\ (flushOf # 0 => drain[flushOf] = "idle")
    BY <2>1 DEF HidesReturn, NextTask, Flushed, Quiet
  <2>3. current # 0 => drain[current] = "idle" /\ current \in Cycles
    BY <2>2 DEF IInv, Stages, Drains, Types, PageTypeOK, Cycles
  <2>4. writes = <<>>
    <3>1. \A i \in DOMAIN writes : FALSE
      BY <2>1, <2>3, OneAtATime DEF IInv, Drains, Owned
    <3>2. writes \in Seq(Writes)
      BY DEF IInv, Types, PageTypeOK, SessionTypeOK
    <3>3. DOMAIN writes = 1..Len(writes) /\ Len(writes) \in Nat
      BY <3>2
    <3>4. Len(writes) = 0
      BY <3>1, <3>3
    <3> QED
      BY <3>2, <3>4
  <2>5. drain \in [Cycles -> Phases] /\ aborted \subseteq Cycles
    BY DEF IInv, Types, PageTypeOK, EffectTypeOK, Phases
  <2>6. \A c \in Cycles : drain[c] = "idle" => drain'[c] = "idle"
    BY <1>1, <2>5 DEF Resumed
  <2>7. s # 0 => s \in Cycles /\ s \notin loaded
    BY <1>1 DEF Resumed, IInv, Stages, Cycles
  <2>8. Quiet'
    <3>1. \A c \in aborted' : drain'[c] = "idle"
      BY <1>1, <2>1, <2>3, <2>5, <2>6 DEF Resumed, Quiet
    <3>2. clicks' = {} /\ current' = s
      BY <1>1, <2>2 DEF Resumed
    <3>3. s # 0 => drain'[s] = "idle" /\ ~Dirty(s)'
      BY <1>1, <2>6, <2>7 DEF Resumed, IInv, Drains, Dirty
    <3> QED
      BY <3>1, <3>2, <3>3 DEF Quiet
  <2>9. FreshOptions'
    <3> SUFFICES ASSUME s # 0 PROVE FreshOptions'
      BY <1>1 DEF FreshOptions, Resumed
    <3>1. /\ current' = s /\ stage'[s] = "opening" /\ generation' = generation + 1
          /\ reads'[s] = [gen |-> generation + 1, got |-> <<>>]
          /\ \A c \in Cycles \ {s} : reads'[c] = reads[c]
      BY <1>1, <2>7 DEF Resumed
    <3>2. \A c \in Cycles : reads[c].gen \in Nat /\ reads[c].gen <= generation
      BY DEF IInv, Types, PageTypeOK, SessionTypeOK, Reads
    <3>3. generation \in Nat
      BY DEF IInv, Types, PageTypeOK, SessionTypeOK
    <3>4. \A c \in Cycles \ {s} : reads'[c].gen < generation'
      BY <3>1, <3>2, <3>3
    <3> QED
      BY <3>1, <3>4 DEF FreshOptions
  <2>10. FreshRest'
    <3>1. writes' = <<>>
      BY <1>1, <2>4 DEF Resumed
    <3>2. s # 0 => stage'[s] = "opening" /\ reads'[s].got = <<>>
      BY <1>1, <2>7 DEF Resumed
    <3>3. current' = s
      BY <1>1 DEF Resumed
    <3> QED
      BY <3>1, <3>2, <3>3 DEF FreshRest
  <2> QED
    BY <2>8, <2>9, <2>10
<1> QED
  BY <1>2, <1>3, <1>4 DEF IInv, Honest

\* A hide() that gives up gives up the second half.
LEMMA TimesOutKeeps ==
  ASSUME IInv, HideTimesOut
  PROVE  IInv'
<1>1. PICK k \in clicks : Resume({k})
  BY DEF HideTimesOut
<1>2. PICK s \in 0..MaxCycles : Resumed(s, {k})
  BY <1>1, ResumeAs DEF IInv
<1>3. gaveUp' = TRUE
  BY DEF HideTimesOut
<1> QED
  BY <1>2, <1>3, ResumedKeeps DEF IInv, Honest

\* A step of a drain, whatever it does to the tabs and the clicks.
LEMMA DrainStepKeeps ==
  ASSUME IInv, NEW c \in Cycles, DrainSteps(c), NextTask,
         UNCHANGED <<current, theStore, flushOf, savedOptions, edits, gaveUp>>,
         current # 0 => stage'[current] = stage[current],
         visible' = visible \/ (visible' = "options" /\ \E k \in clicks' : k.on = flushOf),
         \A k \in clicks' : k \in clicks \/ k.on = flushOf,
         PageTypeOK', Stages', Clicks'
  PROVE  IInv'
<1>1. /\ \A d \in Cycles : reads'[d].gen <= generation'
  BY DrainTypes DEF IInv
<1>2. Drains'
  BY DrainKeepsDrains DEF IInv
<1>3. Contents'
  BY DrainKeepsContents DEF IInv
<1>4. Honest'
  BY DrainKeepsHonest DEF IInv
<1> QED
  BY <1>1, <1>2, <1>3, <1>4 DEF IInv, Types

\* The flush of a click is a drain step, or nothing.
LEMMA HideSteps ==
  ASSUME IInv, NEW c, NEW tab, NEW nth, Hide(c, tab, nth)
  PROVE  \E d \in Cycles : DrainSteps(d)
<1>1. UNCHANGED <<host, held, generation, reads, storeVars, onStore, aborted>>
  BY DEF Hide
<1>2. CASE flushOf = 0
  <2>1. UNCHANGED <<drainVars, writes>>
    BY <1>2 DEF Hide
  <2>2. 1 \in Cycles /\ flushing \in [Cycles -> BOOLEAN]
    BY CyclesAssumption DEF Cycles, IInv, Types, PageTypeOK, EffectTypeOK
  <2>3. DrainSteps(1)
    BY <1>1, <2>1, <2>2 DEF DrainSteps, Nudged, drainVars, storeVars
  <2> QED
    BY <2>2, <2>3
<1>3. CASE flushOf # 0
  <2>1. flushOf \in Cycles
    BY <1>3 DEF IInv, Types, PageTypeOK, Cycles
  <2>2. Flush(flushOf)
    BY <1>3 DEF Hide
  <2>3. DrainSteps(flushOf)
    BY <1>1, <2>1, <2>2, FlushSteps DEF IInv
  <2> QED
    BY <2>1, <2>3
<1> QED
  BY <1>2, <1>3

\* A click on the options tab: the tab is shown before the page is new, but
\* then the old page is clean and no task runs before the click resumes.
LEMMA ClickOptionsKeeps ==
  ASSUME IInv, ~ShowsOverlap, ClickOptions
  PROVE  IInv'
<1>1. PICK c \in Cycles :
        /\ stage[c] = "unborn" /\ \A d \in Cycles : stage[d] # "hiding"
        /\ stage' = [stage EXCEPT ![c] = "hiding"]
        /\ visible' = "options"
        /\ Hide(c, "options", 0)
  BY DEF ClickOptions
<1>2. PICK e \in Cycles : DrainSteps(e)
  BY <1>1, HideSteps
<1> DEFINE new == [cycle |-> c, tab |-> "options", nth |-> 0, on |-> flushOf]
<1>3. /\ NextTask /\ clicks' = clicks \cup {new}
      /\ UNCHANGED <<current, theStore, flushOf, savedOptions, edits, gaveUp, away>>
      /\ UNCHANGED <<host, held, generation, reads, storeVars, onStore, aborted>>
  BY <1>1 DEF Hide, ClickOptions
<1>4. SessionTypeOK' /\ EffectTypeOK'
  BY <1>2, DrainTypes DEF IInv
<1>5. stage \in [Cycles -> {"unborn", "hiding", "opening", "loading", "ready", "failed"}]
  BY DEF IInv, Types, PageTypeOK
<1>6. c # 0 /\ c \in 0..MaxCycles
  BY DEF Cycles
<1>7. PageTypeOK'
  <2>1. new \in [cycle : 0..MaxCycles, tab : Tabs, nth : 0..MaxAway, on : 0..MaxCycles]
    BY <1>6, PageAssumption DEF Tabs, IInv, Types, PageTypeOK
  <2>2. clicks' \subseteq [cycle : 0..MaxCycles, tab : Tabs, nth : 0..MaxAway, on : 0..MaxCycles]
    BY <1>3, <2>1 DEF IInv, Types, PageTypeOK
  <2>3. stage' \in [Cycles -> {"unborn", "hiding", "opening", "loading", "ready", "failed"}]
    BY <1>1, <1>5
  <2> QED
    BY <1>1, <1>3, <1>4, <2>2, <2>3 DEF IInv, Types, PageTypeOK, Tabs
<1>8. \A d \in Cycles : stage'[d] = IF d = c THEN "hiding" ELSE stage[d]
  BY <1>1, <1>5
<1>9. c # current /\ c \notin aborted /\ onStore[c] = 0 /\ c \notin loaded /\ reads[c] = NoRead
  BY <1>1 DEF IInv, Stages
<1>10. Stages'
  BY <1>3, <1>8, <1>9 DEF IInv, Stages, storeVars
<1>11. Clicks'
  <2>1. \A k \in clicks : k.cycle # 0 => k.cycle \in Cycles
    BY DEF IInv, Types, PageTypeOK, Cycles
  <2>2. \A k \in clicks : k.cycle = 0
    BY <1>1, <2>1 DEF IInv, Clicks
  <2>3. new.cycle = c /\ new.on = flushOf
    OBVIOUS
  <2>4. flushOf # 0 => onStore[flushOf] = flushOf
    BY DEF IInv, Stages, Types, PageTypeOK, Cycles
  <2> HIDE DEF new
  <2> QED
    BY <1>1, <1>3, <1>6, <1>8, <2>2, <2>3, <2>4 DEF IInv, Clicks
<1>12. new.on = flushOf /\ new \in clicks'
  BY <1>3
<1> HIDE DEF new
<1>13. current # 0 => stage'[current] = stage[current]
  BY <1>8, <1>9 DEF IInv, Types, PageTypeOK, Cycles
<1> QED
  BY <1>1, <1>2, <1>3, <1>7, <1>10, <1>11, <1>12, <1>13, DrainStepKeeps

\* A click on another tab.
LEMMA ClickAwayKeeps ==
  ASSUME IInv, ClickAway
  PROVE  IInv'
<1>1. PICK tab \in Tabs : Hide(0, tab, away + 1)
  BY DEF ClickAway
<1>2. PICK e \in Cycles : DrainSteps(e)
  BY <1>1, HideSteps
<1> DEFINE new == [cycle |-> 0, tab |-> tab, nth |-> away + 1, on |-> flushOf]
<1>3. /\ NextTask /\ clicks' = clicks \cup {new}
      /\ UNCHANGED <<current, theStore, flushOf, savedOptions, edits, gaveUp, stage, visible>>
      /\ UNCHANGED <<host, held, generation, reads, storeVars, onStore, aborted>>
      /\ away < MaxAway /\ away' = away + 1
  BY <1>1 DEF Hide, ClickAway
<1>4. SessionTypeOK' /\ EffectTypeOK'
  BY <1>2, DrainTypes DEF IInv
<1>5. away + 1 \in 0..MaxAway
  BY <1>3, PageAssumption DEF IInv, Types, PageTypeOK
<1>6. PageTypeOK'
  <2>1. new \in [cycle : 0..MaxCycles, tab : Tabs, nth : 0..MaxAway, on : 0..MaxCycles]
    BY <1>5, CyclesAssumption DEF IInv, Types, PageTypeOK
  <2>2. clicks' \subseteq [cycle : 0..MaxCycles, tab : Tabs, nth : 0..MaxAway, on : 0..MaxCycles]
    BY <1>3, <2>1 DEF IInv, Types, PageTypeOK
  <2> QED
    BY <1>3, <1>4, <1>5, <2>2 DEF IInv, Types, PageTypeOK
<1>7. Stages'
  BY <1>3 DEF IInv, Stages, storeVars
<1>8. Clicks'
  <2>1. new.cycle = 0 /\ new.on = flushOf
    OBVIOUS
  <2>2. flushOf # 0 => onStore[flushOf] = flushOf
    BY DEF IInv, Stages, Types, PageTypeOK, Cycles
  <2> HIDE DEF new
  <2> QED
    BY <1>3, <2>1, <2>2 DEF IInv, Clicks
<1>9. \A k \in clicks' : k \in clicks \/ k.on = flushOf
  BY <1>3
<1> HIDE DEF new
<1> QED
  BY <1>2, <1>3, <1>6, <1>7, <1>8, <1>9, DrainStepKeeps

\* A blur, a debounce and the end of a commit leave the tabs alone.
LEMMA DrainAloneKeeps ==
  ASSUME IInv, NEW c \in Cycles, DrainSteps(c), NextTask,
         UNCHANGED <<pageVars, edits, away, gaveUp>>
  PROVE  IInv'
<1>1. UNCHANGED <<stage, current, theStore, flushOf, savedOptions, visible, clicks>>
  BY DEF pageVars
<1>2. UNCHANGED <<reads, loaded, onStore, aborted>>
  BY DEF DrainSteps
<1>3. SessionTypeOK' /\ EffectTypeOK'
  BY DrainTypes DEF IInv
<1>4. PageTypeOK'
  BY <1>1, <1>3 DEF IInv, Types, PageTypeOK
<1>5. Stages' /\ Clicks'
  BY <1>1, <1>2 DEF IInv, Stages, Clicks
<1> QED
  BY <1>1, <1>4, <1>5, DrainStepKeeps

\* A flush when the window loses focus.
LEMMA BlurKeeps ==
  ASSUME IInv, Blur
  PROVE  IInv'
<1>1. flushOf \in Cycles /\ Flush(flushOf) /\ NextTask
      /\ UNCHANGED <<host, held, generation, reads, storeVars, onStore, aborted>>
      /\ UNCHANGED <<pageVars, edits, away, gaveUp>>
  BY DEF Blur, IInv, Types, PageTypeOK, Cycles
<1>2. DrainSteps(flushOf)
  BY <1>1, FlushSteps DEF IInv
<1> QED
  BY <1>1, <1>2, DrainAloneKeeps

\* The end of a debounce.
LEMMA DebouncedKeeps ==
  ASSUME IInv, Debounced
  PROVE  IInv'
<1>1. PICK c \in Cycles : DebounceFires(c)
  BY DEF Debounced
<1>2. DrainSteps(c)
  BY <1>1, DebounceSteps DEF IInv
<1> QED
  BY <1>2, DrainAloneKeeps DEF Debounced

\* The end of a commit.
LEMMA CommittedKeeps ==
  ASSUME IInv, Committed
  PROVE  IInv'
<1>1. PICK c \in Cycles : CommitSucceeds(c) \/ CommitFails(c)
  BY DEF Committed
<1>2. DrainSteps(c)
  BY <1>1, SuccessSteps, FailureSteps DEF IInv
<1> QED
  BY <1>2, DrainAloneKeeps DEF Committed

-----------------------------------------------------------------------------
(* The boot of a page. *)

\* The sync of the page on display is the newest and is applied; a late one of a
\* page that is gone is not.
LEMMA SyncResolvesKeeps ==
  ASSUME IInv, NEW c \in Cycles, SyncResolves(c)
  PROVE  IInv'
<1> USE DEF IInv
<1>1. /\ NextTask /\ reads[c].got # <<>>
      /\ held' = IF generation = reads[c].gen THEN reads[c].got[1] ELSE held
      /\ reads' = [reads EXCEPT ![c] = NoRead]
      /\ UNCHANGED <<host, generation, writes, configured, anchor, initial, loaded,
                     aborted, pending, flushing, snapshot, current, theStore,
                     savedOptions, visible, clicks, edits, away, gaveUp>>
  BY DEF SyncResolves, SyncReturns, storeVars
<1>2. /\ reads \in [Cycles -> Reads] /\ generation \in Nat /\ held \in Config
      /\ drain \in [Cycles -> Phases] /\ onStore \in [Cycles -> 0..MaxCycles]
      /\ stage \in [Cycles -> {"unborn", "hiding", "opening", "loading", "ready", "failed"}]
      /\ c # 0 /\ c \in 0..MaxCycles
  BY DEF Types, PageTypeOK, SessionTypeOK, EffectTypeOK, Phases, Cycles
<1>3. reads[c].got[1] \in Config /\ reads[c].got[1].options <= edits
  BY <1>1, <1>2 DEF Reads, Contents
<1>4. held' \in Config /\ held'.options <= edits
  BY <1>1, <1>2, <1>3 DEF Contents
<1>5. NoRead \in Reads /\ NoRead.gen = 0 /\ NoRead.got = <<>>
  BY DEF NoRead, Reads
<1>6. \A d \in Cycles : reads'[d] = IF d = c THEN NoRead ELSE reads[d]
  BY <1>1, <1>2
<1>7. \A d \in Cycles : reads[d].gen \in Nat /\ reads[d].gen <= generation
  BY <1>2 DEF Reads, Types
<1>8. SessionTypeOK' /\ \A d \in Cycles : reads'[d].gen <= generation'
  <2>1. \A d \in Cycles : reads'[d].gen <= generation
    BY <1>2, <1>5, <1>6, <1>7
  <2> QED
    BY <1>1, <1>2, <1>4, <1>5, <2>1 DEF Types, PageTypeOK, SessionTypeOK
<1>9. stage[c] \in {"opening", "failed"}
  BY <1>1, <1>5 DEF Stages
<1>10. Contents'
  BY <1>1, <1>4, <1>5, <1>6 DEF Contents
<1>11. CASE stage[c] = "opening" /\ c \notin aborted
  <2>1. c = current /\ theStore = c /\ onStore[c] = 0 /\ c \notin loaded
    BY <1>2, <1>11 DEF Stages
  <2>2. ~Dirty(c)
    BY <2>1 DEF Drains, Dirty
  <2>3. /\ stage' = [stage EXCEPT ![c] = "loading"]
        /\ onStore' = [onStore EXCEPT ![c] = c]
        /\ flushOf' = c /\ drain' = drain
    BY <1>11, <2>1, <2>2 DEF SyncResolves
  <2>4. Types'
    BY <1>1, <1>2, <1>8, <2>3 DEF Types, PageTypeOK, EffectTypeOK
  <2>5. \A d \in Cycles : /\ stage'[d] = IF d = c THEN "loading" ELSE stage[d]
                          /\ onStore'[d] = IF d = c THEN c ELSE onStore[d]
    BY <1>2, <2>3
  <2>6. Stages'
    <3>1. \A d \in Cycles :
            stage'[d] \in {"opening", "loading", "ready", "failed"} <=> d = current' \/ d \in aborted'
      BY <1>1, <1>11, <2>5 DEF Stages
    <3>2. \A d \in Cycles :
            /\ onStore'[d] \in {0, d}
            /\ onStore'[d] # 0 => stage'[d] \in {"loading", "ready", "failed"}
            /\ stage'[d] \in {"loading", "ready"} => onStore'[d] = d
            /\ d \in loaded' <=> stage'[d] = "ready"
            /\ stage'[d] \notin {"opening", "failed"} => reads'[d] = NoRead
      BY <1>1, <1>6, <2>1, <2>5 DEF Stages
    <3>3. current' # 0 /\ onStore'[current'] # 0 /\ flushOf' = current'
      BY <1>1, <1>2, <2>1, <2>3, <2>5
    <3> QED
      BY <1>1, <3>1, <3>2, <3>3 DEF Stages
  <2>7. clicks = {} \/ gaveUp
    <3> SUFFICES ASSUME ~gaveUp, NEW k \in clicks PROVE FALSE
      OBVIOUS
    <3>1. k.on = 0
      BY <2>1 DEF Honest, Quiet, Stages
    <3> QED
      BY <1>1, <3>1 DEF NextTask, Flushed
  <2>8. Clicks'
    <3>1. \A k \in clicks : k.cycle # 0 => k.cycle \in Cycles
      BY DEF Types, PageTypeOK, Cycles
    <3>2. \A k \in clicks : k.on # 0 => k.on \in Cycles
      BY DEF Types, PageTypeOK, Cycles
    <3>3. \A k \in clicks : k.cycle # 0 => k.cycle # c
      BY <1>11 DEF Clicks
    <3> QED
      BY <1>1, <2>5, <3>1, <3>2, <3>3 DEF Clicks
  <2>9. Drains'
    BY <1>1, <2>3 DEF Drains, Dirty
  <2>10. ASSUME ~gaveUp PROVE Quiet' /\ FreshOptions' /\ FreshRest'
    <3>1. Quiet /\ FreshOptions /\ FreshRest
      BY <2>10 DEF Honest
    <3>2. held' = reads[c].got[1] /\ held'.options = host.options
      BY <1>1, <1>2, <1>11, <2>1, <3>1 DEF FreshOptions
    <3>3. Quiet'
      BY <1>1, <2>3, <2>7, <2>10, <3>1 DEF Quiet, Dirty
    <3>4. FreshOptions'
      BY <1>1, <1>2, <1>6, <2>1, <2>5, <3>1, <3>2 DEF FreshOptions
    <3>5. NextTask' => NextTask
      BY <1>1
    <3>6. FreshRest'
      BY <1>1, <1>11, <2>1, <2>5, <3>1, <3>2, <3>5 DEF FreshRest
    <3> QED
      BY <3>3, <3>4, <3>6
  <2> QED
    BY <1>1, <1>10, <2>4, <2>6, <2>8, <2>9, <2>10 DEF Honest
<1>12. CASE ~(stage[c] = "opening" /\ c \notin aborted)
  <2>1. UNCHANGED <<stage, onStore, flushOf, drain>>
    BY <1>12 DEF SyncResolves
  <2>2. Types'
    BY <1>1, <1>8, <2>1 DEF Types, PageTypeOK, EffectTypeOK
  <2>3. Stages'
    BY <1>1, <1>6, <2>1 DEF Stages
  <2>4. Clicks'
    BY <1>1, <2>1 DEF Clicks
  <2>5. Drains'
    BY <1>1, <2>1 DEF Drains, Dirty
  <2>6. ASSUME ~gaveUp PROVE Quiet' /\ FreshOptions' /\ FreshRest'
    <3>1. Quiet /\ FreshOptions /\ FreshRest
      BY <2>6 DEF Honest
    <3>2. Quiet'
      BY <1>1, <2>1, <3>1 DEF Quiet, Dirty
    <3>3. NextTask' => NextTask
      BY <1>1, <2>1 DEF NextTask, Flushed
    <3>4. CASE c = current
      <4>1. stage[c] = "failed"
        BY <1>9, <1>12, <3>4 DEF Stages
      <4>2. \A d \in Cycles \ {c} : reads'[d] = reads[d]
        BY <1>6
      <4> QED
        BY <1>1, <2>1, <3>1, <3>2, <3>4, <4>1, <4>2 DEF FreshOptions, FreshRest
    <3>5. CASE c # current /\ current # 0
      <4>1. current \in Cycles
        BY <3>5 DEF Types, PageTypeOK, Cycles
      <4>2. reads'[current] = reads[current] /\ held' = held
        BY <1>1, <1>2, <1>6, <1>7, <3>1, <3>5, <4>1 DEF FreshOptions
      <4>3. \A d \in Cycles \ {current} : reads'[d].gen < generation
        BY <1>2, <1>5, <1>6, <1>7, <3>1, <3>5 DEF FreshOptions
      <4>4. FreshOptions'
        BY <1>1, <2>1, <3>1, <4>2, <4>3 DEF FreshOptions, NoneStored
      <4>5. FreshRest'
        BY <1>1, <2>1, <3>1, <3>3, <4>2 DEF FreshRest
      <4> QED
        BY <3>2, <4>4, <4>5
    <3>6. CASE current = 0
      BY <1>1, <3>1, <3>2, <3>6 DEF FreshOptions, FreshRest
    <3> QED
      BY <3>4, <3>5, <3>6
  <2> QED
    BY <1>1, <1>10, <2>2, <2>3, <2>4, <2>5, <2>6 DEF Honest
<1> QED
  BY <1>11, <1>12

\* A failed boot leaves nothing to write.
LEMMA BootFailsKeeps ==
  ASSUME IInv, NEW c \in Cycles, BootFails(c)
  PROVE  IInv'
<1> USE DEF IInv
<1>1. /\ NextTask /\ stage[c] \in {"opening", "loading"} /\ c \notin aborted
      /\ stage' = [stage EXCEPT ![c] = "failed"]
      /\ UNCHANGED <<host, held, generation, reads, writes,
                     configured, anchor, initial, loaded, onStore, aborted,
                     pending, flushing, drain, snapshot, current, theStore, flushOf,
                     savedOptions, visible, clicks, edits, away, gaveUp>>
  BY DEF BootFails, sessionVars, effectVars, storeVars, drainVars
<1>2. stage \in [Cycles -> {"unborn", "hiding", "opening", "loading", "ready", "failed"}]
  BY DEF Types, PageTypeOK
<1>3. c = current
  BY <1>1 DEF Stages
<1>4. \A d \in Cycles : stage'[d] = IF d = c THEN "failed" ELSE stage[d]
  BY <1>1, <1>2
<1>5. Types'
  BY <1>1, <1>2 DEF Types, PageTypeOK, SessionTypeOK, EffectTypeOK
<1>6. Stages'
  BY <1>1, <1>3, <1>4 DEF Stages
<1>7. Clicks'
  <2>1. \A k \in clicks : k.cycle # 0 => k.cycle \in Cycles /\ k.cycle # c
    BY <1>1 DEF Types, PageTypeOK, Cycles, Clicks
  <2> QED
    BY <1>1, <1>4, <2>1 DEF Clicks
<1>8. Contents' /\ Drains'
  BY <1>1 DEF Contents, Drains, Dirty
<1>9. Honest'
  <2>1. NextTask' => NextTask
    BY <1>1
  <2>2. c \in Cycles /\ stage'[current] = "failed"
    BY <1>3, <1>4
  <2>3. Honest => (~gaveUp => Quiet /\ FreshOptions /\ FreshRest)
    BY DEF Honest
  <2>4. ASSUME ~gaveUp PROVE Quiet' /\ FreshOptions' /\ FreshRest'
    BY <1>1, <2>2, <2>3, <2>4 DEF Quiet, FreshOptions, FreshRest, Dirty
  <2> QED
    BY <1>1, <2>4 DEF Honest
<1> QED
  BY <1>5, <1>6, <1>7, <1>8, <1>9

\* The page begins with what the replica holds.
LEMMA ModelLoadsKeeps ==
  ASSUME IInv, NEW c \in Cycles, ModelLoads(c)
  PROVE  IInv'
<1> USE DEF IInv
<1>1. c = current /\ theStore = c /\ c # 0
  BY DEF ModelLoads, Stages, Cycles
<1>2. /\ NextTask /\ stage[c] = "loading" /\ c \notin aborted
      /\ stage' = [stage EXCEPT ![c] = "ready"]
      /\ configured' = [configured EXCEPT ![c] = <<held.options, "loaded">>]
      /\ anchor' = [anchor EXCEPT ![c] = <<held.options, "loaded">>]
      /\ initial' = [initial EXCEPT ![c] = <<held.options, "copied">>]
      /\ loaded' = loaded \cup {c}
      /\ savedOptions' = <<held.options>>
      /\ UNCHANGED <<host, held, generation, reads, writes, onStore, aborted,
                     pending, flushing, drain, snapshot, current, theStore, flushOf,
                     visible, clicks, edits, away, gaveUp>>
  BY <1>1 DEF ModelLoads, sessionVars, drainVars
<1>3. /\ stage \in [Cycles -> {"unborn", "hiding", "opening", "loading", "ready", "failed"}]
      /\ configured \in [Cycles -> Refs] /\ anchor \in [Cycles -> Refs]
      /\ initial \in [Cycles -> Refs] /\ held \in Config /\ loaded \subseteq Cycles
      /\ held.options \in Nat /\ held.options <= edits /\ edits \in 0..MaxEdits
  BY DEF Types, PageTypeOK, SessionTypeOK, EffectTypeOK, Config, Contents
<1>4. <<held.options, "loaded">> \in Refs /\ <<held.options, "copied">> \in Refs
  BY <1>3 DEF Refs
<1>5. held.options \in 0..MaxEdits
  BY <1>3, PageAssumption
<1>6. \A d \in Cycles : stage'[d] = IF d = c THEN "ready" ELSE stage[d]
  BY <1>2, <1>3
<1>7. \A d \in Cycles :
        /\ configured'[d] = IF d = c THEN <<held.options, "loaded">> ELSE configured[d]
        /\ anchor'[d] = IF d = c THEN <<held.options, "loaded">> ELSE anchor[d]
        /\ initial'[d] = IF d = c THEN <<held.options, "copied">> ELSE initial[d]
  BY <1>2, <1>3
<1>8. Types'
  BY <1>2, <1>3, <1>4, <1>5 DEF Types, PageTypeOK, SessionTypeOK, EffectTypeOK
<1>9. Stages'
  BY <1>1, <1>2, <1>6 DEF Stages
<1>10. Clicks'
  <2>1. \A k \in clicks : k.cycle # 0 => k.cycle \in Cycles /\ k.cycle # c
    BY <1>2 DEF Types, PageTypeOK, Cycles, Clicks
  <2> QED
    BY <1>2, <1>6, <2>1 DEF Clicks
<1>11. Contents'
  BY <1>2, <1>3, <1>7 DEF Contents
<1>12. Drains'
  <2>1. drain[c] = "idle" /\ ~Dirty(c)'
    BY <1>2, <1>7 DEF Drains, Stages, Dirty
  <2>2. \A d \in Cycles \ {c} : Dirty(d)' <=> Dirty(d)
    BY <1>7 DEF Dirty
  <2> QED
    BY <1>2, <1>7, <2>1, <2>2 DEF Drains
<1>13. Honest'
  <2> SUFFICES ASSUME ~gaveUp PROVE Quiet' /\ FreshOptions' /\ FreshRest'
    BY <1>2 DEF Honest
  <2>1. Quiet /\ FreshOptions /\ FreshRest
    BY DEF Honest
  <2>2. Quiet'
    BY <1>1, <1>2, <1>7, <2>1 DEF Quiet, Dirty, Drains, Stages
  <2>3. FreshOptions'
    BY <1>1, <1>2, <1>6, <1>7, <2>1 DEF FreshOptions, NoneStored
  <2>4. FreshRest'
    BY <1>1, <1>2, <1>6, <2>1 DEF FreshRest, NextTask, Flushed
  <2> QED
    BY <2>2, <2>3, <2>4
<1> QED
  BY <1>8, <1>9, <1>10, <1>11, <1>12, <1>13

-----------------------------------------------------------------------------
(* The user and the host. *)

\* An edit wakes the drain of its own page only.
LEMMA MutateDoes ==
  ASSUME IInv, Editable, NEW options \in Refs, Mutate(theStore, options)
  PROVE  LET dirty == options # anchor[current]
         IN  /\ current \in loaded /\ current \in Cycles /\ current \notin aborted
             /\ configured' = [configured EXCEPT ![current] = options]
             /\ \A d \in Cycles \ {current} : drain'[d] = drain[d] /\ pending'[d] = pending[d]
             /\ drain'[current] = IF dirty /\ drain[current] = "idle"
                                  THEN "debounce" ELSE drain[current]
             /\ pending'[current] = IF dirty THEN drain[current] # "idle"
                                    ELSE pending[current]
             /\ pending' \in [Cycles -> BOOLEAN] /\ drain' \in [Cycles -> Phases]
             /\ UNCHANGED <<flushing, snapshot, anchor, initial, loaded, onStore, aborted,
                            host, held, generation, reads, writes>>
<1> USE DEF IInv
<1>1. current # 0 /\ theStore = current /\ current \in loaded
  BY DEF Editable, Stages
<1>2. current \in Cycles /\ current \notin aborted
  BY <1>1 DEF Types, PageTypeOK, EffectTypeOK, Stages
<1>3. \A d \in Cycles : onStore[d] = current <=> d = current
  BY <1>1, <1>2 DEF Stages, Cycles
<1>4. pending \in [Cycles -> BOOLEAN] /\ drain \in [Cycles -> Phases]
  BY DEF Types, PageTypeOK, EffectTypeOK, Phases
<1> DEFINE dirty == options # anchor[current]
           woken == {d \in Cycles \ aborted : dirty /\ onStore[d] = current}
<1>5. \A d \in Cycles : d \in woken <=> dirty /\ d = current
  BY <1>2, <1>3
<1>6. /\ configured' = [configured EXCEPT ![current] = options]
      /\ pending' = [d \in Cycles |-> IF d \in woken THEN drain[d] # "idle" ELSE pending[d]]
      /\ drain' = [d \in Cycles |->
           IF d \in woken /\ drain[d] = "idle" THEN "debounce" ELSE drain[d]]
      /\ UNCHANGED <<flushing, snapshot, anchor, initial, loaded, onStore, aborted,
                     host, held, generation, reads, writes>>
  BY <1>1 DEF Mutate, Notified, sessionVars
<1> HIDE DEF woken
<1>7. pending' \in [Cycles -> BOOLEAN]
  BY <1>4, <1>6
<1>8. drain' \in [Cycles -> Phases]
  BY <1>4, <1>6 DEF Phases
<1>9. \A d \in Cycles \ {current} : drain'[d] = drain[d] /\ pending'[d] = pending[d]
  BY <1>5, <1>6
<1>10. /\ drain'[current] = IF dirty /\ drain[current] = "idle" THEN "debounce" ELSE drain[current]
       /\ pending'[current] = IF dirty THEN drain[current] # "idle" ELSE pending[current]
  BY <1>2, <1>5, <1>6
<1> QED
  BY <1>1, <1>2, <1>6, <1>7, <1>8, <1>9, <1>10

\* An edit is something new, what is shown, or what the page began with.
LEMMA MutateKeeps ==
  ASSUME IInv, NextTask, Editable, NEW options \in Refs, Mutate(theStore, options),
         edits' \in 0..MaxEdits, edits <= edits', options[1] <= edits',
         \/ options # anchor[current]
         \/ options \in {configured[current], initial[current]},
         UNCHANGED <<pageVars, away, gaveUp>>
  PROVE  IInv'
<1> USE DEF IInv
<1> DEFINE dirty == options # anchor[current]
<1>1. /\ current \in loaded /\ current \in Cycles /\ current \notin aborted
      /\ configured' = [configured EXCEPT ![current] = options]
      /\ \A d \in Cycles \ {current} : drain'[d] = drain[d] /\ pending'[d] = pending[d]
      /\ drain'[current] = IF dirty /\ drain[current] = "idle"
                           THEN "debounce" ELSE drain[current]
      /\ pending'[current] = IF dirty THEN drain[current] # "idle"
                             ELSE pending[current]
      /\ pending' \in [Cycles -> BOOLEAN] /\ drain' \in [Cycles -> Phases]
      /\ UNCHANGED <<flushing, snapshot, anchor, initial, loaded, onStore, aborted,
                     host, held, generation, reads, writes>>
  BY MutateDoes
<1>2. UNCHANGED <<stage, current, theStore, flushOf, savedOptions, visible, clicks,
                  away, gaveUp>>
  BY DEF pageVars
<1>3. /\ configured \in [Cycles -> Refs] /\ drain \in [Cycles -> Phases]
      /\ edits \in 0..MaxEdits /\ aborted \subseteq Cycles
  BY DEF Types, PageTypeOK, EffectTypeOK, Phases
<1>4. \A d \in Cycles : configured'[d] = IF d = current THEN options ELSE configured[d]
  BY <1>1, <1>3
<1>5. Types'
  <2>1. savedOptions' \in {<<>>} \cup {<<n>> : n \in 0..MaxEdits}
    BY <1>2 DEF Types, PageTypeOK
  <2> QED
    BY <1>1, <1>2, <1>3, <2>1 DEF Types, PageTypeOK, SessionTypeOK, EffectTypeOK, Phases
<1>6. Stages' /\ Clicks'
  BY <1>1, <1>2 DEF Stages, Clicks
<1>7. Contents'
  <2>1. edits \in Nat /\ edits' \in Nat
    BY PageAssumption, <1>3
  <2>2. \A n \in Nat : n <= edits => n <= edits'
    BY <2>1
  <2>3. /\ host \in Config /\ held \in Config /\ reads \in [Cycles -> Reads]
        /\ anchor \in [Cycles -> Refs] /\ initial \in [Cycles -> Refs]
        /\ snapshot \in [Cycles -> Refs] /\ writes \in Seq(Writes)
    BY DEF Types, PageTypeOK, SessionTypeOK, EffectTypeOK
  <2>4. /\ host.options \in Nat /\ held.options \in Nat
        /\ \A d \in Cycles :
             /\ configured[d][1] \in Nat /\ anchor[d][1] \in Nat
             /\ initial[d][1] \in Nat /\ snapshot[d][1] \in Nat
    BY <1>3, <2>3 DEF Config, Refs
  <2>5. \A d \in Cycles : reads[d].got # <<>> => reads[d].got[1].options \in Nat
    BY <2>3 DEF Reads, Config
  <2>6. \A i \in DOMAIN writes : writes[i].next.options \in Nat
    BY <2>3, Elements DEF Config
  <2>7. /\ host.options <= edits' /\ held.options <= edits'
        /\ \A d \in Cycles :
             /\ configured[d][1] <= edits' /\ anchor[d][1] <= edits'
             /\ initial[d][1] <= edits' /\ snapshot[d][1] <= edits'
    BY <2>2, <2>4 DEF Contents
  <2>8. \A d \in Cycles : reads[d].got # <<>> => reads[d].got[1].options <= edits'
    BY <2>2, <2>5 DEF Contents
  <2>9. \A i \in DOMAIN writes : writes[i].next.options <= edits'
    BY <2>2, <2>6 DEF Contents
  <2> QED
    BY <1>1, <1>4, <2>7, <2>8, <2>9 DEF Contents
<1>8. Drains'
  <2>1. \A d \in Cycles : drain'[d] = "commit" <=> drain[d] = "commit"
    BY <1>1
  <2>2. \A i \in DOMAIN writes : writes[i].by \in Cycles
    BY Elements DEF Types, PageTypeOK, SessionTypeOK
  <2>3. Owned(writes', drain', snapshot')
    BY <1>1, <2>1, <2>2 DEF Drains, Owned
  <2>4. ASSUME NEW d \in Cycles, d # current
        PROVE  /\ d \notin loaded' => drain'[d] = "idle" /\ configured'[d] = Empty /\ anchor'[d] = Empty
               /\ d \notin aborted' /\ drain'[d] = "idle" => ~Dirty(d)' \/ configured'[d] = initial'[d]
               /\ d \notin aborted' /\ drain'[d] = "commit" =>
                    configured'[d] = snapshot'[d] \/ pending'[d] \/ (~Dirty(d)' /\ anchor'[d] = initial'[d])
    BY <1>1, <1>4, <2>4 DEF Drains, Dirty
  <2>5. /\ drain'[current] = "idle" => ~Dirty(current)'
        /\ drain'[current] = "commit" =>
             \/ configured'[current] = snapshot'[current] \/ pending'[current]
             \/ ~Dirty(current)' /\ anchor'[current] = initial'[current]
    <3>1. CASE dirty
      BY <1>1, <3>1 DEF Dirty
    <3>2. CASE ~dirty
      <4>1. configured'[current] = anchor'[current]
        BY <1>1, <1>4, <3>2
      <4>2. CASE options = initial[current]
        BY <1>1, <1>2, <4>1, <4>2, <3>2 DEF Dirty
      <4>3. CASE options = configured[current]
        BY <1>1, <1>2, <1>4, <3>2, <4>1, <4>3 DEF Dirty, Drains
      <4> QED
        BY <3>2, <4>2, <4>3
    <3> QED
      BY <3>1, <3>2
  <2>6. \A d \in Cycles :
          /\ d \notin loaded' => drain'[d] = "idle" /\ configured'[d] = Empty /\ anchor'[d] = Empty
          /\ d \notin aborted' /\ drain'[d] = "idle" => ~Dirty(d)' \/ configured'[d] = initial'[d]
          /\ d \notin aborted' /\ drain'[d] = "commit" =>
               configured'[d] = snapshot'[d] \/ pending'[d] \/ (~Dirty(d)' /\ anchor'[d] = initial'[d])
    BY <1>1, <1>2, <2>4, <2>5
  <2> QED
    BY <2>3, <2>6 DEF Drains
<1>9. Honest'
  <2> SUFFICES ASSUME ~gaveUp PROVE Quiet' /\ FreshOptions' /\ FreshRest'
    BY <1>2 DEF Honest
  <2>1. Quiet /\ FreshOptions /\ FreshRest
    BY DEF Honest
  <2>2. visible = "options"
    BY DEF Editable
  <2>3. Quiet'
    BY <1>1, <1>2, <1>3, <2>1, <2>2 DEF Quiet
  <2>4. FreshOptions'
    BY <1>1, <1>2, <2>1 DEF FreshOptions, NoneStored
  <2>5. FreshRest'
    BY <1>1, <1>2, <2>1 DEF FreshRest
  <2> QED
    BY <2>3, <2>4, <2>5
<1> QED
  BY <1>5, <1>6, <1>7, <1>8, <1>9

\* A user's edit, or a revert.
LEMMA EditsKeep ==
  ASSUME IInv, EditOption \/ Revert
  PROVE  IInv'
<1>1. /\ NextTask /\ Editable /\ edits < MaxEdits /\ edits' = edits + 1
      /\ UNCHANGED <<pageVars, away, gaveUp>>
  BY DEF EditOption, Revert
<1>2. /\ edits \in 0..MaxEdits /\ configured \in [Cycles -> Refs]
      /\ initial \in [Cycles -> Refs] /\ anchor \in [Cycles -> Refs]
  BY DEF IInv, Types, PageTypeOK, EffectTypeOK
<1>3. edits \in Nat /\ edits' \in 0..MaxEdits /\ edits <= edits'
  BY <1>1, <1>2, PageAssumption
<1>4. current \in Cycles /\ theStore = current
  BY <1>1 DEF Editable, IInv, Stages, Types, PageTypeOK, Cycles
<1>5. PICK options \in {<<edits + 1, "edited">>, configured[current], initial[current]} :
        Mutate(theStore, options)
  BY <1>4 DEF EditOption, Revert
<1>6. options \in Refs /\ options[1] <= edits'
  <2>1. <<edits + 1, "edited">> \in Refs /\ <<edits + 1, "edited">>[1] = edits'
    BY <1>1, <1>3 DEF Refs
  <2>2. /\ configured[current] \in Refs /\ initial[current] \in Refs
        /\ configured[current][1] <= edits /\ initial[current][1] <= edits
    BY <1>2, <1>4 DEF IInv, Contents
  <2>3. configured[current][1] \in Nat /\ initial[current][1] \in Nat
    BY <2>2 DEF Refs
  <2>4. configured[current][1] <= edits' /\ initial[current][1] <= edits'
    BY <1>1, <1>3, <2>2, <2>3
  <2> QED
    BY <1>3, <1>5, <2>1, <2>2, <2>4
<1>7. options # anchor[current] \/ options \in {configured[current], initial[current]}
  <2>1. anchor[current][1] <= edits /\ anchor[current][1] \in Nat
    BY <1>2, <1>4 DEF IInv, Contents, Refs
  <2>2. <<edits + 1, "edited">>[1] # anchor[current][1]
    BY <1>3, <2>1
  <2> QED
    BY <1>5, <2>2
<1> QED
  BY <1>1, <1>3, <1>5, <1>6, <1>7, MutateKeeps

\* The Settings tab is edited while no write is out.
LEMMA EditSettingsKeeps ==
  ASSUME IInv, EditSettings
  PROVE  IInv'
<1> USE DEF IInv
<1>1. /\ NextTask /\ visible = "settings"
      /\ host' = [host EXCEPT !.other = host.other + 1]
      /\ UNCHANGED <<held, generation, reads, writes, configured, anchor, initial,
                     loaded, onStore, aborted, pending, flushing, drain, snapshot,
                     stage, current, theStore, flushOf, savedOptions, visible, clicks,
                     edits, away, gaveUp>>
  BY DEF EditSettings, SettingsEdited, effectVars, storeVars, drainVars, pageVars
<1>2. host \in Config
  BY DEF Types, PageTypeOK, SessionTypeOK
<1>3. host' \in Config /\ host'.options = host.options
  BY <1>1, <1>2 DEF Config
<1>4. Types'
  BY <1>1, <1>3 DEF Types, PageTypeOK, SessionTypeOK, EffectTypeOK
<1>5. Stages' /\ Clicks' /\ Drains' /\ Contents'
  BY <1>1, <1>3 DEF Stages, Clicks, Drains, Dirty, Contents
<1>6. Honest'
  <2> SUFFICES ASSUME ~gaveUp PROVE Quiet' /\ FreshOptions' /\ FreshRest'
    BY <1>1 DEF Honest
  <2>1. Quiet /\ FreshOptions /\ FreshRest
    BY DEF Honest
  <2>2. \A i \in DOMAIN writes : FALSE
    BY <1>1, <2>1, OneAtATime DEF Quiet, Drains, Owned
  <2>3. Quiet'
    BY <1>1, <2>1 DEF Quiet, Dirty
  <2>4. FreshOptions'
    BY <1>1, <1>3, <2>1 DEF FreshOptions, NoneStored
  <2>5. FreshRest'
    BY <1>1, <2>2 DEF FreshRest
  <2> QED
    BY <2>3, <2>4, <2>5
<1> QED
  BY <1>4, <1>5, <1>6

\* The host takes the one write there is.
LEMMA HostTakesKeeps ==
  ASSUME IInv, NextTask, HostTakesWrite, UNCHANGED <<effectVars, pageVars, edits, away, gaveUp>>
  PROVE  IInv'
<1> USE DEF IInv
<1>1. PICK i \in DOMAIN writes, answer \in {"stored", "refused"} :
        /\ writes[i].answer = "none"
        /\ writes' = [writes EXCEPT ![i].answer = answer]
        /\ host' = IF answer = "stored" THEN writes[i].next ELSE host
        /\ UNCHANGED <<held, generation, reads>>
  BY DEF HostTakesWrite
<1>2. UNCHANGED <<configured, anchor, initial, loaded, onStore, aborted, pending,
                  flushing, drain, snapshot, stage, current, theStore, flushOf,
                  savedOptions, visible, clicks, edits, away, gaveUp>>
  BY DEF effectVars, storeVars, drainVars, pageVars
<1>3. writes \in Seq(Writes) /\ host \in Config
  BY DEF Types, PageTypeOK, SessionTypeOK
<1>4. writes' \in Seq(Writes) /\ Owned(writes', drain, snapshot)
  BY <1>1, <1>3, AnsweredOne DEF Drains
<1>5. /\ DOMAIN writes' = DOMAIN writes
      /\ \A j \in DOMAIN writes :
           writes'[j].next = writes[j].next /\ (j # i => writes'[j] = writes[j])
      /\ writes'[i].answer = answer
  <2>1. \A j \in DOMAIN writes : writes[j] \in Writes
    BY <1>3, Elements
  <2> QED
    BY <1>1, <2>1 DEF Writes
<1>6. host' \in Config /\ host'.options <= edits
  BY <1>1, <1>3, Elements DEF Contents
<1>7. Types'
  BY <1>1, <1>2, <1>4, <1>6 DEF Types, PageTypeOK, SessionTypeOK, EffectTypeOK
<1>8. Stages' /\ Clicks'
  BY <1>1, <1>2 DEF Stages, Clicks
<1>9. Drains'
  BY <1>2, <1>4 DEF Drains, Dirty
<1>10. Contents'
  BY <1>1, <1>2, <1>5, <1>6 DEF Contents
<1>11. Honest'
  <2> SUFFICES ASSUME ~gaveUp PROVE Quiet' /\ FreshOptions' /\ FreshRest'
    BY <1>2 DEF Honest
  <2>1. Quiet /\ FreshOptions /\ FreshRest
    BY DEF Honest
  <2>2. /\ \A j \in DOMAIN writes : j = i
        /\ writes[i].by = current /\ current # 0
    BY <2>1, OneAtATime
  <2>3. stage[current] = "ready" /\ visible = "options"
    <3>1. current \in Cycles /\ drain[current] = "commit"
      BY <1>3, <2>2, Elements DEF Drains, Owned
    <3> QED
      BY <2>1, <2>2, <3>1 DEF Drains, Stages, Quiet
  <2>4. Quiet'
    BY <1>2, <2>1 DEF Quiet, Dirty
  <2>5. NoneStored
    BY <1>1, <2>2 DEF NoneStored
  <2>6. writes[i].next.other = host.other /\ host'.other = host.other /\ held.other = host.other
    BY <1>1, <2>1, <2>2, <2>3 DEF FreshRest
  <2>7. FreshOptions'
    <3>1. NoneStored' => answer # "stored" /\ host' = host
      BY <1>1, <1>5 DEF NoneStored
    <3> QED
      BY <1>1, <1>2, <2>1, <2>3, <2>5, <3>1 DEF FreshOptions
  <2>8. FreshRest'
    <3>1. answer = "stored" => host' = writes[i].next
      BY <1>1
    <3> QED
      BY <1>1, <1>2, <1>5, <2>2, <2>3, <2>6, <3>1 DEF FreshRest
  <2> QED
    BY <2>4, <2>7, <2>8
<1> QED
  BY <1>7, <1>8, <1>9, <1>10, <1>11

\* A read gets what the host holds.
LEMMA HostReadsKeeps ==
  ASSUME IInv, NextTask, NEW c \in Cycles, HostReads(c),
         UNCHANGED <<effectVars, pageVars, edits, away, gaveUp>>
  PROVE  IInv'
<1> USE DEF IInv
<1>1. /\ reads[c].gen # 0 /\ reads[c].got = <<>>
      /\ reads' = [reads EXCEPT ![c].got = <<host>>]
      /\ UNCHANGED <<host, held, generation, writes>>
  BY DEF HostReads
<1>2. UNCHANGED <<configured, anchor, initial, loaded, onStore, aborted, pending,
                  flushing, drain, snapshot, stage, current, theStore, flushOf,
                  savedOptions, visible, clicks, edits, away, gaveUp>>
  BY DEF effectVars, storeVars, drainVars, pageVars
<1>3. reads \in [Cycles -> Reads] /\ host \in Config
  BY DEF Types, PageTypeOK, SessionTypeOK
<1>4. <<host>> \in [{1} -> Config] /\ <<host>>[1] = host
  <2>1. DOMAIN <<host>> = {1}
    OBVIOUS
  <2> QED
    BY <1>3, <2>1
<1>5. /\ \A d \in Cycles \ {c} : reads'[d] = reads[d]
      /\ reads'[c].gen = reads[c].gen /\ reads'[c].got = <<host>>
      /\ reads' \in [Cycles -> Reads]
  BY <1>1, <1>3, <1>4 DEF Reads
<1>6. \A d \in Cycles : reads'[d].gen = reads[d].gen
  BY <1>5
<1>7. Types'
  BY <1>1, <1>2, <1>5, <1>6 DEF Types, PageTypeOK, SessionTypeOK, EffectTypeOK
<1>8. stage[c] \in {"opening", "failed"}
  BY <1>1 DEF Stages, NoRead
<1>9. Stages' /\ Clicks'
  BY <1>2, <1>5, <1>8 DEF Stages, Clicks
<1>10. Contents'
  BY <1>1, <1>2, <1>4, <1>5 DEF Contents
<1>11. Drains'
  BY <1>1, <1>2 DEF Drains, Dirty
<1>12. Honest'
  <2> SUFFICES ASSUME ~gaveUp PROVE Quiet' /\ FreshOptions' /\ FreshRest'
    BY <1>2 DEF Honest
  <2>1. Quiet /\ FreshOptions /\ FreshRest
    BY DEF Honest
  <2>2. Quiet'
    BY <1>2, <2>1 DEF Quiet, Dirty
  <2>3. current # 0 /\ reads'[current].got # <<>> =>
        reads'[current].got[1] = host \/ reads'[current] = reads[current]
    BY <1>4, <1>5 DEF Types, PageTypeOK, Cycles
  <2>4. FreshOptions'
    <3>1. current # 0 => current \in Cycles
      BY DEF Types, PageTypeOK, Cycles
    <3> QED
      BY <1>1, <1>2, <1>6, <2>1, <2>3, <3>1 DEF FreshOptions, NoneStored
  <2>5. FreshRest'
    BY <1>1, <1>2, <2>1, <2>3 DEF FreshRest, NextTask, Flushed
  <2> QED
    BY <2>2, <2>4, <2>5
<1> QED
  BY <1>7, <1>9, <1>10, <1>11, <1>12

-----------------------------------------------------------------------------
(* The theorems. *)

\* A page that was never shown.
LEMMA InitIInv == Init => IInv
<1> SUFFICES ASSUME Init PROVE IInv
  OBVIOUS
<1> USE DEF Init, SessionInit, EffectInit
<1>1. NoRead \in Reads /\ NoRead.gen = 0 /\ NoRead.got = <<>>
  BY DEF NoRead, Reads
<1>2. [options |-> 0, other |-> 0] \in Config /\ Empty \in Refs /\ Empty[1] = 0
  BY DEF Config, Empty, Refs
<1>3. Types
  <2>1. SessionTypeOK
    BY <1>1, <1>2 DEF SessionTypeOK
  <2>2. EffectTypeOK
    BY <1>2, CyclesAssumption DEF EffectTypeOK, Cycles
  <2>3. 0 \in 0..MaxCycles /\ 0 \in 0..MaxEdits /\ 0 \in 0..MaxAway
    BY PageAssumption, CyclesAssumption
  <2>4. PageTypeOK
    BY <2>1, <2>2, <2>3 DEF PageTypeOK, Tabs
  <2>5. \A c \in Cycles : reads[c].gen <= generation
    BY <1>1
  <2> QED
    BY <2>4, <2>5 DEF Types
<1>4. Stages /\ Clicks
  BY DEF Stages, Clicks
<1>5. Contents
  BY <1>1, <1>2 DEF Contents
<1>6. Drains
  BY DEF Drains, Owned, Dirty
<1>7. Honest
  BY DEF Honest, Quiet, FreshOptions, FreshRest
<1> QED
  BY <1>3, <1>4, <1>5, <1>6, <1>7 DEF IInv

\* Every step keeps the invariant.
LEMMA StepIInv ==
  ASSUME IInv, ~ShowsOverlap, [Next]_vars
  PROVE  IInv'
<1>1. CASE HidesReturn
  BY <1>1, ReturnsKeep
<1>2. CASE HideTimesOut
  BY <1>2, TimesOutKeeps
<1>3. CASE ClickOptions
  BY <1>3, ClickOptionsKeeps
<1>4. CASE ClickAway
  BY <1>4, ClickAwayKeeps
<1>5. CASE \E c \in Cycles : SyncResolves(c) \/ BootFails(c) \/ ModelLoads(c)
  BY <1>5, SyncResolvesKeeps, BootFailsKeeps, ModelLoadsKeeps
<1>6. CASE EditOption \/ Revert
  BY <1>6, EditsKeep
<1>7. CASE Blur
  BY <1>7, BlurKeeps
<1>8. CASE EditSettings
  BY <1>8, EditSettingsKeeps
<1>9. CASE Debounced
  BY <1>9, DebouncedKeeps
<1>10. CASE Committed
  BY <1>10, CommittedKeeps
<1>11. CASE HostAnswers
  BY <1>11, HostTakesKeeps, HostReadsKeeps DEF HostAnswers
<1>12. CASE UNCHANGED vars
  <2>1. UNCHANGED <<host, held, generation, reads, writes, configured, anchor, initial,
                    loaded, onStore, aborted, pending, flushing, drain, snapshot,
                    stage, current, theStore, flushOf, savedOptions, visible, clicks,
                    edits, away, gaveUp>>
    BY <1>12 DEF vars, sessionVars, effectVars, storeVars, drainVars, pageVars
  <2>2. Types'
    BY <2>1 DEF IInv, Types, PageTypeOK, SessionTypeOK, EffectTypeOK
  <2>3. Stages' /\ Clicks'
    BY <2>1 DEF IInv, Stages, Clicks
  <2>4. Contents' /\ Drains'
    BY <2>1 DEF IInv, Contents, Drains, Dirty
  <2>5. Honest'
    BY <2>1 DEF IInv, Honest, Quiet, FreshOptions, FreshRest, NoneStored, NextTask, Flushed, Dirty
  <2> QED
    BY <2>2, <2>3, <2>4, <2>5 DEF IInv
<1> QED
  BY <1>1, <1>2, <1>3, <1>4, <1>5, <1>6, <1>7, <1>8, <1>9, <1>10, <1>11, <1>12 DEF Next

\* The invariant says all the run checks.
LEMMA IInvSays ==
  ASSUME IInv
  PROVE  PageInv
<1> USE DEF IInv
<1>1. PageTypeOK
  BY DEF Types
<1>2. IdleIsSettled
  <2> SUFFICES ASSUME NEW c \in Cycles \ aborted, onStore[c] # 0, drain[c] = "idle"
               PROVE  ~Dirty(onStore[c]) \/ configured[onStore[c]] = initial[onStore[c]]
    BY DEF IdleIsSettled
  <2>1. onStore[c] = c
    BY DEF Stages
  <2> QED
    BY <2>1 DEF Drains
<1>3. DrainOwnsWrite
  <2> SUFFICES ASSUME NEW c \in Cycles
               PROVE  Cardinality({i \in DOMAIN writes : writes[i].by = c}) =
                        IF drain[c] = "commit" THEN 1 ELSE 0
    BY DEF DrainOwnsWrite
  <2>1. CASE drain[c] = "commit"
    <3>1. PICK i \in DOMAIN writes : writes[i].by = c
      BY <2>1 DEF Drains, Owned
    <3>2. {j \in DOMAIN writes : writes[j].by = c} = {i}
      BY <3>1 DEF Drains, Owned
    <3>3. Cardinality({i}) = 1
      BY FS_Singleton
    <3> QED
      BY <2>1, <3>2, <3>3
  <2>2. CASE drain[c] # "commit"
    <3>1. {j \in DOMAIN writes : writes[j].by = c} = {}
      BY <2>2 DEF Drains, Owned
    <3>2. Cardinality({}) = 0
      BY FS_EmptySet
    <3> QED
      BY <2>2, <3>1, <3>2
  <2> QED
    BY <2>1, <2>2
<1>4. NothingStale
  <2> SUFFICES ASSUME ~gaveUp, NextTask, current # 0, writes = <<>>
               PROVE  /\ theStore \in loaded => anchor[theStore][1] = host.options
                      /\ stage[current] = "ready" /\ visible = "options" => held = host
    BY DEF NothingStale
  <2>1. FreshOptions /\ FreshRest /\ NoneStored
    BY DEF Honest, NoneStored
  <2>2. theStore = current /\ current \in Cycles
    BY DEF Stages, Types, PageTypeOK, Cycles
  <2>3. current \in loaded => stage[current] = "ready"
    BY <2>2 DEF Stages
  <2>4. held \in Config /\ host \in Config
    BY DEF Types, PageTypeOK, SessionTypeOK
  <2>5. held.options = host.options /\ held.other = host.other => held = host
    BY <2>4 DEF Config
  <2>6. stage[current] = "ready" => held.options = host.options /\ anchor[current][1] = host.options
    BY <2>1 DEF FreshOptions
  <2>7. stage[current] = "ready" /\ visible = "options" => held.other = host.other
    BY <2>1 DEF FreshRest
  <2> QED
    BY <2>2, <2>3, <2>5, <2>6, <2>7
<1>5. OneWriter
  BY OneAtATime DEF OneWriter, Honest
<1> QED
  BY <1>1, <1>2, <1>3, <1>4, <1>5 DEF PageInv

\* A rollback shows again what was on disk, and only where nothing newer is
\* shown than what was refused.
LEMMA RollbackStep ==
  ASSUME IInv, [Next]_vars, NEW c \in Cycles,
         c \notin aborted, drain[c] = "commit", drain'[c] # "commit",
         configured'[onStore[c]] # configured[onStore[c]]
  PROVE  configured[onStore[c]] = snapshot[c]
<1> USE DEF IInv
<1>1. onStore[c] = c
  BY DEF Drains, Stages
<1>2. configured'[c] # configured[c]
  BY <1>1
<1>3. CASE EditOption \/ Revert
  BY <1>3 DEF EditOption, Revert, Mutate, Notified
<1>4. CASE \E d \in Cycles : ModelLoads(d)
  BY <1>4 DEF ModelLoads, drainVars
<1>5. CASE Committed
  <2>1. PICK d \in Cycles : CommitSucceeds(d) \/ CommitFails(d)
    BY <1>5 DEF Committed
  <2>2. Stored(d) \/ Refused(d)
    BY <2>1, SuccessSteps, FailureSteps
  <2>3. PICK i \in DOMAIN writes :
          /\ writes[i].by = d /\ Moves(d, RemoveAt(writes, i))
          /\ d \notin aborted /\ ~pending[d] /\ configured' = [configured EXCEPT ![d] = anchor[d]]
    BY <1>2, <2>2 DEF Stored, Refused
  <2>4. configured \in [Cycles -> Refs]
    BY DEF Types, PageTypeOK, EffectTypeOK
  <2>5. d = c
    BY <1>2, <2>3, <2>4
  <2> QED
    BY <1>1, <1>2, <2>3, <2>4, <2>5 DEF Drains, Dirty
<1>6. CASE \/ HidesReturn \/ HideTimesOut \/ ClickOptions \/ ClickAway \/ Blur
           \/ EditSettings \/ Debounced \/ HostAnswers \/ UNCHANGED vars
           \/ \E d \in Cycles : SyncResolves(d) \/ BootFails(d)
  <2>1. UNCHANGED configured
    BY <1>6 DEF HidesReturn, HideTimesOut, Resume, ClickOptions, ClickAway, Hide, Blur,
      EditSettings, Debounced, DebounceFires, HostAnswers, SyncResolves, BootFails,
      vars, effectVars, storeVars
  <2> QED
    BY <1>2, <2>1
<1> QED
  BY <1>3, <1>4, <1>5, <1>6 DEF Next

\* What the host takes carries what it holds of the Settings tab.
LEMMA SettingsStep ==
  ASSUME IInv, [Next]_vars, ~gaveUp
  PROVE  host'.other >= host.other
<1> USE DEF IInv
<1>1. host \in Config /\ host.other \in Nat /\ writes \in Seq(Writes)
  BY DEF Types, PageTypeOK, SessionTypeOK, Config
<1>2. CASE HostAnswers
  <2>1. FreshRest
    BY DEF Honest
  <2>2. CASE HostTakesWrite
    <3>1. PICK i \in DOMAIN writes : host' = writes[i].next \/ host' = host
      BY <2>2 DEF HostTakesWrite
    <3>2. host'.other = host.other
      BY <2>1, <3>1 DEF FreshRest
    <3> QED
      BY <1>1, <3>2
  <2>3. CASE \E c \in Cycles : HostReads(c)
    BY <1>1, <2>3 DEF HostReads
  <2> QED
    BY <1>2, <2>2, <2>3 DEF HostAnswers
<1>3. CASE EditSettings
  <2>1. host'.other = host.other + 1
    BY <1>1, <1>3 DEF EditSettings, SettingsEdited, Config
  <2> QED
    BY <1>1, <2>1
<1>4. CASE UNCHANGED host
  BY <1>1, <1>4
<1>5. CASE \/ HidesReturn \/ HideTimesOut \/ ClickOptions \/ ClickAway \/ Blur
           \/ EditOption \/ Revert \/ Debounced \/ Committed \/ UNCHANGED vars
           \/ \E c \in Cycles : SyncResolves(c) \/ BootFails(c) \/ ModelLoads(c)
  <2>1. UNCHANGED host
    BY <1>5 DEF HidesReturn, HideTimesOut, Resume, ClickOptions, ClickAway, Hide, Blur,
      EditOption, Revert, Mutate, Debounced, DebounceFires, Committed, CommitSucceeds,
      CommitFails, SyncResolves, BootFails, ModelLoads, vars, sessionVars
  <2> QED
    BY <1>4, <2>1
<1> QED
  BY <1>2, <1>3, <1>5 DEF Next

\* Whatever the host answers and whenever, whoever clicks, edits and fails to
\* boot: a drain has one write out at most, comes to rest with what it shows on
\* disk or reverted, and the page and its replica hold what the host holds;
\* provided the options tab is not clicked again while a click on it waits.
THEOREM PageCorrect ==
  ASSUME ~ShowsOverlap
  PROVE  Spec => []PageInv
<1>1. IInv /\ [Next]_vars => IInv'
  BY StepIInv
<1>2. IInv => PageInv
  BY IInvSays
<1> QED
  BY InitIInv, <1>1, <1>2, PTL DEF Spec

\* persist:failed of persist.mjs never takes back an edit that the refused
\* write did not carry.
THEOREM RollbackHonest ==
  ASSUME ~ShowsOverlap
  PROVE  Spec => RollbackIsHonest
<1>1. IInv /\ [Next]_vars => IInv'
  BY StepIInv
<1>2. IInv /\ [Next]_vars =>
        [\A c \in Cycles :
           /\ c \notin aborted /\ drain[c] = "commit" /\ drain'[c] # "commit"
           /\ configured'[onStore[c]] # configured[onStore[c]]
           => configured[onStore[c]] = snapshot[c]]_vars
  BY RollbackStep
<1> QED
  BY InitIInv, <1>1, <1>2, PTL DEF Spec, RollbackIsHonest

\* commit() writes the whole configuration from a replica, and yet no write
\* takes back what the user did on the Settings tab.
THEOREM SettingsSafe ==
  ASSUME ~ShowsOverlap
  PROVE  Spec => SettingsKept
<1>1. IInv /\ [Next]_vars => IInv'
  BY StepIInv
<1>2. IInv /\ [Next]_vars => [~gaveUp => host'.other >= host.other]_vars
  BY SettingsStep
<1> QED
  BY InitIInv, <1>1, <1>2, PTL DEF Spec, SettingsKept
=============================================================================
