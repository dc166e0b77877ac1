------------------------- MODULE Mp4SegmentAssembler -------------------------
(***************************************************************************)
(* The fMP4 segment assembler of src/src/ffmpeg/mp4-assembler.ts and its   *)
(* box parser (mp4-parser.ts).  A drain loop takes the chunks events.on    *)
(* has buffered, cuts them into boxes and boxes into an init segment and   *)
(* media segments; a generator (segments() or stream()) hands the segments *)
(* to one reader at a time.                                                *)
(*                                                                         *)
(* The source's bytes are a fixed script of boxes, each two units long, so *)
(* that a chunk may end on a box boundary or inside a box.  JavaScript     *)
(* runs to completion: the boxes of one chunk are handled with nothing in  *)
(* between (Free).                                                         *)
(***************************************************************************)
EXTENDS Integers, Sequences, FiniteSets

CONSTANTS
  Boxes,      \* kinds of the source's boxes: "moof", "mdat" or "other"
  Readers,    \* the calls of segments() or stream()
  Watched,    \* was a segmentTimeout given?
  MaxInbox    \* bound: chunks events.on may hold

ASSUME AssemblerAssumption ==
  /\ Boxes \in Seq({"moof", "mdat", "other"})
  /\ Watched \in BOOLEAN
  /\ MaxInbox \in Nat \ {0}

VARIABLES
  life,          \* signal.reason of the composed signal, or "live"
  header,        \* the initSegment promise
  collecting,    \* #initResolved: boxes now make media segments
  initParts,     \* #initParts: the boxes of the init segment
  segmentParts,  \* #segmentParts: the boxes of the segment being built
  segmentQueue,  \* #segmentQueue: segments nobody has taken yet
  watchdog,      \* is the inter-segment timer running?
  drain,         \* the drain loop: "running" or "done"
  fed,           \* units the source has emitted
  inbox,         \* chunks emitted and not yet taken, each by where it ends
  parsed,        \* units given to the parser
  handled,       \* boxes given to #handleBox
  broken,        \* has the source emitted "error"?
  phase,         \* where each reader's generator stands
  own,           \* has the per-call signal aborted?
  batch,         \* the generator's local drained array, not yet yielded
  got            \* history: media segments yielded, over all readers

sourceVars == <<fed, broken>>
boxVars    == <<collecting, initParts, segmentParts>>
loopVars   == <<drain, inbox, parsed, handled>>
readerVars == <<phase, own, batch, got>>
vars == <<life, header, boxVars, segmentQueue, watchdog, loopVars,
          sourceVars, readerVars>>

Reasons == {"closed", "failed", "timeout", "shutdown", "parent"}
InWait  == {"opening", "waiting"}
InLoop  == {"admitted", "yielding", "parked", "woken"}
Over    == {"returned", "broke"}
Phase   == {"idle", "opened", "header"} \cup InWait \cup InLoop \cup Over

BoxSeq == Seq(1..Len(Boxes))

TypeOK ==
  /\ life \in {"live"} \cup Reasons
  /\ header \in {"pending", "resolved", "rejected"}
  /\ collecting \in BOOLEAN
  /\ initParts \in BoxSeq
  /\ segmentParts \in BoxSeq
  /\ segmentQueue \in Seq(BoxSeq)
  /\ watchdog \in BOOLEAN
  /\ drain \in {"running", "done"}
  /\ fed \in 0..2 * Len(Boxes)
  /\ inbox \in Seq(1..2 * Len(Boxes))
  /\ parsed \in 0..2 * Len(Boxes)
  /\ handled \in 0..Len(Boxes)
  /\ broken \in BOOLEAN
  /\ phase \in [Readers -> Phase]
  /\ own \in [Readers -> BOOLEAN]
  /\ batch \in Seq(BoxSeq)
  /\ got \in Seq(BoxSeq)

\* The constructor, given the state of the parent signal.  On an aborted
\* one it rejects initSegment and starts no drain loop.
Construct(parent) ==
  /\ life = parent
  /\ header = IF parent = "live" THEN "pending" ELSE "rejected"
  /\ collecting = FALSE
  /\ initParts = <<>>
  /\ segmentParts = <<>>
  /\ segmentQueue = <<>>
  /\ watchdog = FALSE
  /\ drain = IF parent = "live" THEN "running" ELSE "done"
  /\ fed = 0
  /\ inbox = <<>>
  /\ parsed = 0
  /\ handled = 0
  /\ broken = FALSE
  /\ phase = [r \in Readers |-> "idle"]
  /\ own = [r \in Readers |-> FALSE]
  /\ batch = <<>>
  /\ got = <<>>

Init == \E parent \in {"live", "parent"} : Construct(parent)

-----------------------------------------------------------------------------
(* The helpers the operations share. *)

Live == life = "live"

\* The boxes the parser can cut from what it was given.
Cut == parsed \div 2

\* The JavaScript thread is free: no chunk is half handled.
Free == handled = Cut

\* What an abort does to the generators: a wait for the init segment is
\* refused, a parked one is woken, any other looks at the signal later.
Interrupt == [r \in Readers |->
  CASE phase[r] \in InWait -> "returned"
    [] phase[r] = "parked" -> "woken"
    [] OTHER -> phase[r]]

\* #teardown, and the watchdog's own listener.
Fire(reason) ==
  /\ life' = reason
  /\ header' = IF header = "pending" THEN "rejected" ELSE header
  /\ watchdog' = FALSE
  /\ phase' = Interrupt
  /\ UNCHANGED <<boxVars, segmentQueue, fed, inbox, parsed, handled, own,
                 batch, got>>

-----------------------------------------------------------------------------
(* The source, as the drain loop's listeners see it. *)

\* events.on listens until the signal aborts or the source fails.
Listening == Live /\ ~broken

SourceData(end) ==
  /\ Free /\ Listening
  /\ Len(inbox) < MaxInbox
  /\ end \in fed + 1..2 * Len(Boxes)
  /\ fed' = end
  /\ inbox' = Append(inbox, end)
  /\ UNCHANGED <<life, header, boxVars, segmentQueue, watchdog, drain, parsed,
                 handled, broken, readerVars>>

\* "end": the assembler closes at once, chunks buffered or not.
SourceEnds ==
  /\ Free /\ Listening
  /\ Fire("closed")
  /\ UNCHANGED <<drain, broken>>

\* "error": queued behind the chunks already buffered.
SourceFails ==
  /\ Free /\ Listening
  /\ broken' = TRUE
  /\ UNCHANGED <<life, header, boxVars, segmentQueue, watchdog, loopVars, fed,
                 readerVars>>

-----------------------------------------------------------------------------
(* The drain loop. *)

\* The iterator yields the oldest buffered chunk, after an abort too.
TakeChunk ==
  /\ Free
  /\ drain = "running"
  /\ inbox # <<>>
  /\ parsed' = Head(inbox)
  /\ inbox' = Tail(inbox)
  /\ UNCHANGED <<life, header, boxVars, segmentQueue, watchdog, drain, handled,
                 sourceVars, readerVars>>

\* A box of the init segment.
HandleInitBox ==
  /\ handled < Cut
  /\ ~collecting
  /\ Boxes[handled + 1] # "moof"
  /\ handled' = handled + 1
  /\ initParts' = Append(initParts, handled + 1)
  /\ UNCHANGED <<life, header, collecting, segmentParts, segmentQueue,
                 watchdog, drain, inbox, parsed, sourceVars, readerVars>>

\* A bug: the timer waits for the first complete segment.
HandleFirstMoofUnarmed ==
  /\ handled < Cut
  /\ ~collecting
  /\ Boxes[handled + 1] = "moof"
  /\ handled' = handled + 1
  /\ collecting' = TRUE
  /\ header' = IF header = "pending" THEN "resolved" ELSE header
  /\ segmentParts' = Append(segmentParts, handled + 1)
  /\ phase' = [r \in Readers |->
                 CASE header = "pending" /\ phase[r] = "opening" -> "opened"
                   [] header = "pending" /\ phase[r] = "waiting" -> "admitted"
                   [] OTHER -> phase[r]]
  /\ UNCHANGED <<life, initParts, segmentQueue, watchdog, drain, inbox, parsed,
                 sourceVars, own, batch, got>>

\* The first moof ends the init segment and starts the first media segment.
HandleFirstMoof ==
  /\ handled < Cut
  /\ ~collecting
  /\ Boxes[handled + 1] = "moof"
  /\ handled' = handled + 1
  /\ collecting' = TRUE
  /\ header' = IF header = "pending" THEN "resolved" ELSE header
  /\ segmentParts' = Append(segmentParts, handled + 1)
  /\ watchdog' = (watchdog \/ (Watched /\ Live))
  /\ phase' = [r \in Readers |->
                 CASE header = "pending" /\ phase[r] = "opening" -> "opened"
                   [] header = "pending" /\ phase[r] = "waiting" -> "admitted"
                   [] OTHER -> phase[r]]
  /\ UNCHANGED <<life, initParts, segmentQueue, drain, inbox, parsed,
                 sourceVars, own, batch, got>>

\* A bug: the parts of the finished segment are not reset.
HandleMediaBoxNoReset ==
  /\ handled < Cut
  /\ collecting
  /\ handled' = handled + 1
  /\ \/ /\ Boxes[handled + 1] # "mdat"
        /\ segmentParts' = Append(segmentParts, handled + 1)
        /\ UNCHANGED <<segmentQueue, watchdog, phase>>
     \/ /\ Boxes[handled + 1] = "mdat"
        /\ segmentQueue' = Append(segmentQueue,
                                  Append(segmentParts, handled + 1))
        /\ UNCHANGED segmentParts
        /\ watchdog' = (watchdog \/ (Watched /\ Live))
        /\ phase' = [r \in Readers |-> IF phase[r] = "parked" THEN "woken"
                                       ELSE phase[r]]
  /\ UNCHANGED <<life, header, collecting, initParts, drain, inbox, parsed,
                 sourceVars, own, batch, got>>

\* Any later box joins the current segment; an mdat completes it.
HandleMediaBox ==
  /\ handled < Cut
  /\ collecting
  /\ handled' = handled + 1
  /\ \/ /\ Boxes[handled + 1] # "mdat"
        /\ segmentParts' = Append(segmentParts, handled + 1)
        /\ UNCHANGED <<segmentQueue, watchdog, phase>>
     \/ /\ Boxes[handled + 1] = "mdat"
        /\ segmentQueue' = Append(segmentQueue,
                                  Append(segmentParts, handled + 1))
        /\ segmentParts' = <<>>
        /\ watchdog' = (watchdog \/ (Watched /\ Live))
        /\ phase' = [r \in Readers |-> IF phase[r] = "parked" THEN "woken"
                                       ELSE phase[r]]
  /\ UNCHANGED <<life, header, collecting, initParts, drain, inbox, parsed,
                 sourceVars, own, batch, got>>

\* The iterator rejects once nothing is buffered any more.  When the signal
\* is not the cause the source is, and the assembler fails.
DrainEnds ==
  /\ Free
  /\ drain = "running"
  /\ inbox = <<>>
  /\ drain' = "done"
  /\ \/ /\ ~Live
        /\ UNCHANGED <<life, header, boxVars, segmentQueue, watchdog, inbox,
                       parsed, handled, sourceVars, readerVars>>
     \/ /\ Live /\ broken
        /\ Fire("failed")
        /\ UNCHANGED broken

WatchdogFires ==
  /\ Free
  /\ watchdog
  /\ Fire("timeout")
  /\ UNCHANGED <<drain, broken>>

\* abort() or asyncDispose(), or the parent signal.
Abort(reason) ==
  /\ Free
  /\ Live
  /\ Fire(reason)
  /\ UNCHANGED <<drain, broken>>
-----------------------------------------------------------------------------
(* The reader's side.  One reader at a time, as the class requires. *)

Aborted(r) == ~Live \/ own[r]

\* waitWithSignal(initSegment, composed): an aborted signal wins over an
\* init segment that is there already.
AwaitInit(r, waiting, ready) ==
  phase' = [phase EXCEPT ![r] = IF Aborted(r) THEN "returned"
                                ELSE IF header = "resolved" THEN ready
                                ELSE waiting]

\* A bug: the generator looks at the signal before it drains the queue.
NextSegmentAbortFirst(r) ==
  \/ /\ ~Aborted(r)
     /\ segmentQueue # <<>>
     /\ got' = Append(got, Head(segmentQueue))
     /\ batch' = Tail(segmentQueue)
     /\ segmentQueue' = <<>>
     /\ phase' = [phase EXCEPT ![r] = "yielding"]
  \/ /\ Aborted(r) \/ segmentQueue = <<>>
     /\ phase' = [phase EXCEPT ![r] = IF Aborted(r) THEN "returned"
                                      ELSE "parked"]
     /\ UNCHANGED <<segmentQueue, batch, got>>

\* A bug: the batch is copied, not swapped out.
NextSegmentCopied(r) ==
  \/ /\ segmentQueue # <<>>
     /\ got' = Append(got, Head(segmentQueue))
     /\ batch' = Tail(segmentQueue)
     /\ phase' = [phase EXCEPT ![r] = "yielding"]
     /\ UNCHANGED segmentQueue
  \/ /\ segmentQueue = <<>>
     /\ phase' = [phase EXCEPT ![r] = IF Aborted(r) THEN "returned"
                                      ELSE "parked"]
     /\ UNCHANGED <<segmentQueue, batch, got>>

\* One pass of the generator's loop: take the whole queue and yield its
\* first segment, or end, or park.
NextSegment(r) ==
  \/ /\ segmentQueue # <<>>
     /\ got' = Append(got, Head(segmentQueue))
     /\ batch' = Tail(segmentQueue)
     /\ segmentQueue' = <<>>
     /\ phase' = [phase EXCEPT ![r] = "yielding"]
  \/ /\ segmentQueue = <<>>
     /\ phase' = [phase EXCEPT ![r] = IF Aborted(r) THEN "returned"
                                      ELSE "parked"]
     /\ UNCHANGED <<segmentQueue, batch, got>>

\* The first next() of segments() or stream().
Start(r, generator) ==
  /\ Free
  /\ phase[r] = "idle"
  /\ \A q \in Readers \ {r} : phase[q] \in {"idle"} \cup Over
  /\ IF generator = "stream" THEN AwaitInit(r, "opening", "opened")
                             ELSE AwaitInit(r, "waiting", "admitted")
  /\ UNCHANGED <<life, header, boxVars, segmentQueue, watchdog, loopVars,
                 sourceVars, own, batch, got>>

\* stream() yields the init segment.
YieldInit(r) ==
  /\ Free
  /\ phase[r] = "opened"
  /\ phase' = [phase EXCEPT ![r] = "header"]
  /\ UNCHANGED <<life, header, boxVars, segmentQueue, watchdog, loopVars,
                 sourceVars, own, batch, got>>

\* The next() after it: stream() calls segments(), which waits again.
StreamGoesOn(r) ==
  /\ Free
  /\ phase[r] = "header"
  /\ AwaitInit(r, "waiting", "admitted")
  /\ UNCHANGED <<life, header, boxVars, segmentQueue, watchdog, loopVars,
                 sourceVars, own, batch, got>>

\* The generator runs on after its wait for the init segment or after the
\* park.
Resume(r) ==
  /\ Free
  /\ phase[r] \in {"admitted", "woken"}
  /\ NextSegment(r)
  /\ UNCHANGED <<life, header, boxVars, watchdog, loopVars, sourceVars, own>>

\* The next() after a segment: the rest of the batch, then the loop.
Pull(r) ==
  /\ Free
  /\ phase[r] = "yielding"
  /\ \/ /\ batch # <<>>
        /\ got' = Append(got, Head(batch))
        /\ batch' = Tail(batch)
        /\ UNCHANGED <<segmentQueue, phase>>
     \/ /\ batch = <<>>
        /\ NextSegment(r)
  /\ UNCHANGED <<life, header, boxVars, watchdog, loopVars, sourceVars, own>>

\* The reader leaves its loop between two items: what the generator had
\* taken from the queue goes with it.
Break(r) ==
  /\ Free
  /\ phase[r] \in {"header", "yielding"}
  /\ phase' = [phase EXCEPT ![r] = "broke"]
  /\ batch' = <<>>
  /\ UNCHANGED <<life, header, boxVars, segmentQueue, watchdog, loopVars,
                 sourceVars, own, got>>

\* The per-call signal aborts.
AbortReader(r) ==
  /\ Free
  /\ ~own[r]
  /\ phase[r] \notin Over
  /\ own' = [own EXCEPT ![r] = TRUE]
  /\ phase' = [phase EXCEPT ![r] = Interrupt[r]]
  /\ UNCHANGED <<life, header, boxVars, segmentQueue, watchdog, loopVars,
                 sourceVars, batch, got>>

-----------------------------------------------------------------------------
\* What the event loop drives by itself.
Handle == HandleInitBox \/ HandleFirstMoof \/ HandleMediaBox

Drain == TakeChunk \/ Handle \/ DrainEnds

\* What a reader that keeps pulling drives.
Read(r) == \/ \E generator \in {"segments", "stream"} : Start(r, generator)
           \/ YieldInit(r) \/ StreamGoesOn(r) \/ Resume(r) \/ Pull(r)

Source == \/ \E end \in 1..2 * Len(Boxes) : SourceData(end)
          \/ SourceEnds \/ SourceFails

Internal == \/ Drain \/ Source \/ WatchdogFires
            \/ \E r \in Readers : Read(r) \/ Break(r) \/ AbortReader(r)

Next == Internal \/ \E reason \in {"shutdown", "parent"} : Abort(reason)

Spec == Init /\ [][Next]_vars

\* The event loop runs the drain loop, the generators' continuations and
\* expired timers, and a reader asks for the next item until it leaves.
\* Nothing obliges the source to emit, to end or to fail.
Fairness == /\ WF_vars(Drain)
            /\ WF_vars(WatchdogFires)
            /\ \A r \in Readers : WF_vars(Read(r))

FairSpec == Spec /\ Fairness

-----------------------------------------------------------------------------
(* What the boxes spell out, written without the assembler's state. *)

FirstMoof == LET moofs == {i \in 1..Len(Boxes) : Boxes[i] = "moof"}
             IN  IF moofs = {} THEN Len(Boxes) + 1
                 ELSE CHOOSE i \in moofs : \A j \in moofs : i <= j

Interval(a, b) == [i \in 1..(b + 1 - a) |-> a + i - 1]

\* Positions of the mdats that complete a segment.
Ends == {i \in FirstMoof + 1..Len(Boxes) : Boxes[i] = "mdat"}

\* Segment k runs from the end of segment k - 1 to the k-th mdat.
Script ==
  [k \in 1..Cardinality(Ends) |->
     LET end == CHOOSE e \in Ends : Cardinality({d \in Ends : d <= e}) = k
         cut == {d + 1 : d \in {x \in Ends : x < end}} \cup {FirstMoof}
     IN  Interval(CHOOSE s \in cut : \A c \in cut : c <= s, end)]

Made == Cardinality({e \in Ends : e <= handled})

-----------------------------------------------------------------------------
(* Safety. *)

\* No box is lost, repeated or moved: the init segment is everything before
\* the first moof, and what is being built starts where the last completed
\* segment ended and reaches up to the last box handled.
BoxesAccountedFor ==
  LET last == {e \in Ends : e <= handled} \cup {FirstMoof - 1}
      open == CHOOSE e \in last : \A d \in last : d <= e
  IN  /\ collecting <=> handled >= FirstMoof
      /\ initParts = Interval(1, IF collecting THEN FirstMoof - 1 ELSE handled)
      /\ segmentParts = IF collecting THEN Interval(open + 1, handled) ELSE <<>>

\* The promise, the phase flag, the timer and the generators agree: the init
\* segment counts as there only once collected, nothing is taken before it,
\* the timer runs only on a live assembler, a parked generator has nothing
\* to take and nothing that would have woken it.
PhasesAgree ==
  /\ header = "resolved" => collecting
  /\ header = "pending" => Live /\ ~collecting
  /\ header = "rejected" => ~Live
  /\ segmentQueue # <<>> \/ batch # <<>> => collecting
  /\ watchdog => Watched /\ Live /\ collecting
  /\ Watched /\ Live /\ collecting => watchdog
  /\ got # <<>> => header = "resolved"
  /\ \A r \in Readers :
       /\ phase[r] \in InWait => header = "pending" /\ ~own[r]
       /\ phase[r] \in InLoop \cup {"opened", "header"} => header = "resolved"
       /\ phase[r] = "parked" => /\ segmentQueue = <<>> /\ batch = <<>>
                                 /\ ~Aborted(r)
  /\ batch # <<>> => \E r \in Readers : phase[r] = "yielding"
  /\ \A r, q \in Readers : phase[r] \notin {"idle"} \cup Over
                            /\ phase[q] \notin {"idle"} \cup Over => r = q

AssemblerInv == TypeOK /\ BoxesAccountedFor /\ PhasesAgree

\* The queue and the generator's local batch are one line of segments.
Feed == INSTANCE SegmentFeed WITH made <- Made, line <- batch \o segmentQueue

\* Each segment the boxes spell out is delivered at most once, whole and in
\* order, over all readers.
ImplementsSegmentFeed == Feed!Spec

-----------------------------------------------------------------------------
(* Progress. *)

\* "A consumer never loses a segment that was already assembled": one that
\* has reached the delivery loop gets every queued segment, after an abort
\* too, unless it walks away.
SegmentsReachReader ==
  \A r \in Readers :
    phase[r] \in InLoop /\ segmentQueue # <<>>
      ~> (segmentQueue = <<>> /\ batch = <<>>) \/ phase[r] = "broke"

\* An aborted assembler comes to rest: the drain loop, which asyncDispose
\* awaits, is over, and so is every generator.
ComesToRest ==
  ~Live ~> /\ drain = "done"
           /\ \A r \in Readers : phase[r] \in Over

\* A source that goes quiet after the init segment is given up on.
QuietSourceReaped == Watched /\ collecting ~> ~Live

\* However a source ends, or stops without an end, nothing of the assembler
\* is left waiting for it.
NobodyLeftWaiting == ComesToRest /\ QuietSourceReaped
=============================================================================
