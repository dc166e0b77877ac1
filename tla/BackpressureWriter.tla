------------------------- MODULE BackpressureWriter -------------------------
(***************************************************************************)
(* The write queue of src/src/backpressure.ts.  write() enqueues and, when *)
(* no drain loop is active, starts one; the loop peeks the head, writes it *)
(* to whatever stream the provider returns now, and parks on the stream's  *)
(* "drain" event when write() returned false.                              *)
(*                                                                         *)
(* JavaScript runs to completion: while the loop is "running" nothing else *)
(* does.  An event that ends the loop's wait only schedules it ("woken",   *)
(* "broken", "cancelled"), and other code may run before it resumes.       *)
(***************************************************************************)
EXTENDS Integers, Sequences

CONSTANTS
  Writes,         \* the write() calls, one chunk each
  Streams,        \* the streams the provider may return
  None,           \* the provider's null, and no entry
  HighWaterMark   \* ceiling on the pending depth

ASSUME WriterAssumption == HighWaterMark \in Nat /\ None \notin Streams \cup Writes

VARIABLES
  queue,      \* #queue: pending writes, the in-flight one in front
  outcome,    \* the promise write() returned
  drain,      \* what #drain is doing
  entry,      \* the loop's local entry, the write in flight
  target,     \* the stream the loop is parked on
  current,    \* what the stream provider returns now
  writable,   \* the streams' writable flags
  full,       \* streams that owe a "drain" event
  aborted,    \* signal.aborted
  disposal,   \* asyncDispose: not called, awaiting the drain task, returned
  sent        \* history: chunks passed to stream.write()

vars == <<queue, outcome, drain, entry, target, current, writable, full,
          aborted, disposal, sent>>

Drain    == {"idle", "running", "parked", "woken", "broken", "cancelled"}
Success  == {"flushed", "dropped"}
Failure  == {"aborted", "overflow", "closed", "error"}
Outcome  == {"none", "pending"} \cup Success \cup Failure
Disposal == {"no", "awaiting", "done"}

TypeOK ==
  /\ queue \in Seq(Writes)
  /\ outcome \in [Writes -> Outcome]
  /\ drain \in Drain
  /\ entry \in Writes \cup {None}
  /\ target \in Streams \cup {None}
  /\ current \in Streams \cup {None}
  /\ writable \in SUBSET Streams
  /\ full \in SUBSET Streams
  /\ aborted \in BOOLEAN
  /\ disposal \in Disposal
  /\ sent \in Seq(Writes)

Init ==
  /\ queue = <<>>
  /\ outcome = [w \in Writes |-> "none"]
  /\ drain = "idle"
  /\ entry = None
  /\ target = None
  /\ current \in Streams \cup {None}
  /\ writable = Streams
  /\ full = {}
  /\ aborted = FALSE
  /\ disposal = "no"
  /\ sent = <<>>

-----------------------------------------------------------------------------
(* The helpers the operations share. *)

\* Promise resolvers are inert after the first settlement.
SettleAll(S, v) == [w \in Writes |-> IF w \in S /\ outcome[w] = "pending"
                                    THEN v ELSE outcome[w]]

\* Array shift: dropping the head of an empty queue is no error.
Shift == IF queue = <<>> THEN <<>> ELSE Tail(queue)

Elements(q) == {q[i] : i \in 1..Len(q)}

\* #teardown rejects everything still in the queue, in flight or not.
Teardown(q) == Elements(q)

\* A bug: the wait for "drain" is not tied to the signal.
WaitIgnoresSignal == drain

\* Where an abort leaves the loop: its wait for "drain" is rejected.
WaitAborted == IF drain = "parked" THEN "cancelled" ELSE drain

\* The JavaScript thread is free.
Free == drain # "running"

-----------------------------------------------------------------------------
(* What callers and owners do. *)

\* A bug: the loop is spawned by every write, not only by the first.
WriteRespawns(w) ==
  /\ Free
  /\ outcome[w] = "none"
  /\ ~aborted
  /\ Len(queue) < HighWaterMark
  /\ queue' = Append(queue, w)
  /\ outcome' = [outcome EXCEPT ![w] = "pending"]
  /\ drain' = "running"
  /\ UNCHANGED <<entry, target, current, writable, full, aborted, disposal,
                 sent>>

\* write(): enqueue, and start the loop when none is active.
Write(w) ==
  /\ Free
  /\ outcome[w] = "none"
  /\ ~aborted
  /\ Len(queue) < HighWaterMark
  /\ queue' = Append(queue, w)
  /\ outcome' = [outcome EXCEPT ![w] = "pending"]
  /\ drain' = IF drain = "idle" THEN "running" ELSE drain
  /\ UNCHANGED <<entry, target, current, writable, full, aborted, disposal,
                 sent>>

\* write() on an aborted writer, or on a queue at its ceiling.
WriteRefused(w) ==
  /\ Free
  /\ outcome[w] = "none"
  /\ \/ aborted /\ outcome' = [outcome EXCEPT ![w] = "aborted"]
     \/ /\ ~aborted /\ Len(queue) >= HighWaterMark
        /\ outcome' = [outcome EXCEPT ![w] = "overflow"]
  /\ UNCHANGED <<queue, drain, entry, target, current, writable, full,
                 aborted, disposal, sent>>

\* The signal fires: #teardown runs at once, and a wait for "drain" is
\* rejected.
Fire ==
  /\ aborted' = TRUE
  /\ outcome' = SettleAll(Teardown(queue), "aborted")
  /\ queue' = <<>>
  /\ drain' = WaitAborted

\* abort(), or the parent signal.
Abort ==
  /\ Free
  /\ ~aborted
  /\ Fire
  /\ UNCHANGED <<entry, target, current, writable, full, disposal, sent>>

\* asyncDispose(): abort, then await the drain task.
Dispose ==
  /\ Free
  /\ disposal = "no"
  /\ disposal' = "awaiting"
  /\ \/ aborted /\ UNCHANGED <<aborted, outcome, queue, drain>>
     \/ ~aborted /\ Fire
  /\ UNCHANGED <<entry, target, current, writable, full, sent>>

DisposeReturns ==
  /\ disposal = "awaiting"
  /\ drain = "idle"
  /\ disposal' = "done"
  /\ UNCHANGED <<queue, outcome, drain, entry, target, current, writable,
                 full, aborted, sent>>

-----------------------------------------------------------------------------
(* The drain loop. *)

\* The loop's condition fails: the finally clause clears #processing.
LoopExits ==
  /\ drain = "running"
  /\ queue = <<>> \/ aborted
  /\ drain' = "idle"
  /\ UNCHANGED <<queue, outcome, entry, target, current, writable, full,
                 aborted, disposal, sent>>

Looping == drain = "running" /\ queue # <<>> /\ ~aborted

\* No stream: drop the chunk and call it a success.
LoopDrops ==
  /\ Looping
  /\ current = None
  /\ outcome' = SettleAll({Head(queue)}, "dropped")
  /\ queue' = Shift
  /\ UNCHANGED <<drain, entry, target, current, writable, full, aborted,
                 disposal, sent>>

\* A dead stream: this write fails, the writer lives.
LoopMeetsClosed ==
  /\ Looping
  /\ current # None /\ current \notin writable
  /\ outcome' = SettleAll({Head(queue)}, "closed")
  /\ queue' = Shift
  /\ UNCHANGED <<drain, entry, target, current, writable, full, aborted,
                 disposal, sent>>

\* stream.write() returns true: answer the write and go on.
LoopFlushes ==
  /\ Looping
  /\ current \in writable
  /\ sent' = Append(sent, Head(queue))
  /\ outcome' = SettleAll({Head(queue)}, "flushed")
  /\ queue' = Shift
  /\ UNCHANGED <<drain, entry, target, current, writable, full, aborted,
                 disposal>>

\* stream.write() returns false: the chunk is with the stream, the write
\* stays at the head until the stream drains.
LoopParks ==
  /\ Looping
  /\ current \in writable
  /\ sent' = Append(sent, Head(queue))
  /\ entry' = Head(queue)
  /\ target' = current
  /\ full' = full \cup {current}
  /\ drain' = "parked"
  /\ UNCHANGED <<queue, outcome, current, writable, aborted, disposal>>

\* A bug: the entry is shifted off before the wait, and again after it.
ResumeDrainedTwice ==
  /\ drain = "woken"
  /\ queue' = IF Shift = <<>> THEN <<>> ELSE Tail(Shift)
  /\ outcome' = SettleAll({entry}, "flushed")
  /\ drain' = "running"
  /\ entry' = None /\ target' = None
  /\ UNCHANGED <<current, writable, full, aborted, disposal, sent>>

\* The loop resumes after "drain".
ResumeDrained ==
  /\ drain = "woken"
  /\ queue' = Shift
  /\ outcome' = SettleAll({entry}, "flushed")
  /\ drain' = "running"
  /\ entry' = None /\ target' = None
  /\ UNCHANGED <<current, writable, full, aborted, disposal, sent>>

\* The loop's catch, when the signal aborted.
ResumeAborted ==
  /\ \/ drain = "cancelled"
     \/ drain = "broken" /\ aborted
  /\ queue' = Shift
  /\ outcome' = SettleAll({entry}, "aborted")
  /\ drain' = "idle"
  /\ entry' = None /\ target' = None
  /\ UNCHANGED <<current, writable, full, aborted, disposal, sent>>

\* The loop's catch, when the stream failed: this write gets the error, the
\* writer aborts, and teardown rejects the rest.
ResumeBroken ==
  /\ drain = "broken" /\ ~aborted
  /\ aborted' = TRUE
  /\ outcome' = [w \in Writes |->
                   IF w = entry THEN "error"
                   ELSE SettleAll(Teardown(Shift), "aborted")[w]]
  /\ queue' = <<>>
  /\ drain' = "idle"
  /\ entry' = None /\ target' = None
  /\ UNCHANGED <<current, writable, full, disposal, sent>>

-----------------------------------------------------------------------------
(* The streams and their owner. *)

\* The provider starts returning another stream, or none.
Replace ==
  /\ Free
  /\ current' \in (Streams \cup {None}) \ {current}
  /\ UNCHANGED <<queue, outcome, drain, entry, target, writable, full,
                 aborted, disposal, sent>>

\* "drain": only a stream that is still open emits it.
StreamDrains(s) ==
  /\ Free
  /\ s \in full \cap writable
  /\ full' = full \ {s}
  /\ drain' = IF drain = "parked" /\ target = s THEN "woken" ELSE drain
  /\ UNCHANGED <<queue, outcome, entry, target, current, writable, aborted,
                 disposal, sent>>

\* "error": the wait for "drain" rejects with it.
StreamFails(s) ==
  /\ Free
  /\ s \in writable
  /\ writable' = writable \ {s}
  /\ full' = full \ {s}
  /\ drain' = IF drain = "parked" /\ target = s THEN "broken" ELSE drain
  /\ UNCHANGED <<queue, outcome, entry, target, current, aborted, disposal,
                 sent>>

\* "close" without "error", as a stream destroyed by its owner closes: the
\* loop listens for neither.
StreamCloses(s) ==
  /\ Free
  /\ s \in writable
  /\ writable' = writable \ {s}
  /\ full' = full \ {s}
  /\ UNCHANGED <<queue, outcome, drain, entry, target, current, aborted,
                 disposal, sent>>

-----------------------------------------------------------------------------
\* What the event loop drives by itself.
Loop == \/ LoopExits \/ LoopDrops \/ LoopMeetsClosed \/ LoopFlushes
        \/ LoopParks \/ ResumeDrained \/ ResumeAborted \/ ResumeBroken

Next == \/ Loop
        \/ \E w \in Writes : Write(w) \/ WriteRefused(w)
        \/ Abort \/ Dispose \/ DisposeReturns \/ Replace
        \/ \E s \in Streams : \/ StreamDrains(s) \/ StreamFails(s)
                             \/ StreamCloses(s)

Spec == Init /\ [][Next]_vars

\* The event loop runs what is ready, and a reader that keeps its stream
\* open reads on: an open full stream drains.
FairSpec == /\ Spec
            /\ WF_vars(Loop)
            /\ WF_vars(DisposeReturns)
            /\ \A s \in Streams : WF_vars(StreamDrains(s))
-----------------------------------------------------------------------------
(* The inductive invariant, in named parts. *)

NoRepeats(q) == \A i, j \in 1..Len(q) : q[i] = q[j] => i = j

\* The queue holds exactly the pending writes, each once, never more than
\* the ceiling, and nothing after an abort.
QueueIsPending ==
  /\ \A w \in Writes : outcome[w] = "pending" <=> w \in Elements(queue)
  /\ NoRepeats(queue)
  /\ Len(queue) <= HighWaterMark
  /\ aborted => queue = <<>>

\* No write is stranded: while no loop is active nothing is queued.  The
\* loop's local entry stays the head for as long as the writer lives.
LoopOwnsHead ==
  /\ drain = "idle" => queue = <<>>
  /\ drain \in {"parked", "woken", "broken"} /\ ~aborted
       => queue # <<>> /\ entry = Head(queue)
  /\ drain \in {"parked", "woken", "broken", "cancelled"} <=> entry # None
  /\ drain = "parked" => ~aborted /\ target \in Streams
  /\ drain = "cancelled" => aborted

\* A chunk went out only if its write was accepted; the only pending write
\* whose chunk is out already is the one the loop waits for.
SentOnce ==
  /\ NoRepeats(sent)
  /\ \A w \in Elements(sent) : /\ outcome[w] # "none"
                               /\ outcome[w] = "pending" => w = entry

WriterInv == TypeOK /\ QueueIsPending /\ LoopOwnsHead /\ SentOnce

-----------------------------------------------------------------------------
(* What the queue promises. *)

Fate == [w \in Writes |->
           CASE outcome[w] = "none"     -> "new"
             [] outcome[w] = "pending"  -> "waiting"
             [] outcome[w] \in Success  -> "ok"
             [] outcome[w] \in Failure  -> "failed"]

OW == INSTANCE OrderedWriter WITH line <- queue, fate <- Fate,
                                  closed <- aborted

\* Concurrent writes serialize: chunks go out and are answered in the order
\* of the calls, none twice, none after an abort.
ImplementsOrderedWriter == OW!Spec

\* The loop waits for a "drain" that will never come, because the stream it
\* wrote to closed without an error.
Stuck == drain = "parked" /\ target \notin writable

\* Every accepted write is answered, unless its stream closes silently
\* under the wait.
EveryWriteSettlesOrStuck ==
  \A w \in Writes : outcome[w] = "pending"
                      ~> outcome[w] # "pending" \/ Stuck

\* asyncDispose returns, stuck or not, and then nothing is pending.
DisposeCompletes ==
  disposal = "awaiting" ~>
    disposal = "done" /\ \A w \in Writes : outcome[w] # "pending"

\* Whoever waits for the writer, with a write or with a disposal, is answered.
EveryoneAnswered == EveryWriteSettlesOrStuck /\ DisposeCompletes
=============================================================================
