--------------------------- MODULE HblogRunProofs ---------------------------
(***************************************************************************)
(* The log client, for every command line, every log, every credential and *)
(* all bounds: connections, sessions and downloads may end in any order.   *)
(* What is shown as a whole log is the whole log, no text arrives while    *)
(* nobody listens, and no WebSocket outlives the loop or an abort.         *)
(***************************************************************************)
EXTENDS HblogRun, FiniteSetTheorems, SequenceTheorems, WellFoundedInduction, TLAPS

-----------------------------------------------------------------------------
(* The splitter, the seed and the tail of a download, as text.               *)
Text == Seq(Int)

\* Every non-empty set of naturals has a least element.
LEMMA LeastNat ==
  ASSUME NEW T \in SUBSET Nat, T # {}
  PROVE  \E x \in T : \A y \in T : x <= y
<1> DEFINE R == OpToRel(<, Nat)
<1>1. \E x \in T : \A y \in T : ~ (<<y, x>> \in R)
  BY NatLessThanWellFounded, WFMin
<1>2. PICK x \in T : \A y \in T : ~ (<<y, x>> \in R)
  BY <1>1
<1>3. \A y \in T : ~ (y < x)
  BY <1>2 DEF OpToRel
<1>4. QED
  BY <1>3

\* Counted upwards, a finite set of numbers has a k-th element.
LEMMA NthIn ==
  ASSUME NEW n \in Nat, NEW S \in SUBSET (1..n), NEW k \in 1..Cardinality(S)
  PROVE  Nth(S, k) \in S
<1> DEFINE Upto(i) == {j \in S : j <= i}
           F == {i \in Nat : Cardinality(Upto(i)) >= k}
<1>0. \A j \in S : j \in Nat /\ 1 <= j /\ j <= n
  OBVIOUS
<1>1. IsFiniteSet(S) /\ Cardinality(S) \in Nat
  <2>1. 1 \in Int /\ n \in Int
    OBVIOUS
  <2>2. IsFiniteSet(1..n)
    BY <2>1, FS_Interval
  <2>3. QED
    BY <2>2, FS_Subset, FS_CardinalityType
<1>2. \A i \in Nat : IsFiniteSet(Upto(i)) /\ Cardinality(Upto(i)) \in Nat
  <2> TAKE i \in Nat
  <2>1. Upto(i) \in SUBSET S
    OBVIOUS
  <2>2. QED
    BY <1>1, <2>1, FS_Subset, FS_CardinalityType
<1>3. Upto(n) = S
  BY <1>0
<1>4. n \in F
  BY <1>1, <1>3
<1>5. F \in SUBSET Nat /\ F # {}
  BY <1>4
<1> HIDE DEF F
<1>6. PICK i \in F : \A y \in F : i <= y
  BY <1>5, LeastNat
<1>7. i \in Nat /\ Cardinality(Upto(i)) >= k
  BY <1>6 DEF F
<1>8. i # 0
  <2>1. \A j \in S : ~(j <= 0)
    BY <1>0
  <2>2. Upto(0) = {}
    BY <2>1, Zenon
  <2>3. QED
    BY <1>7, <2>2, FS_EmptySet
<1>9. i - 1 \in Nat /\ i - 1 \notin F
  BY <1>6, <1>7, <1>8
<1>10. Cardinality(Upto(i - 1)) < k
  <2>1. ~(Cardinality(Upto(i - 1)) >= k)
    BY <1>9 DEF F
  <2>2. Cardinality(Upto(i - 1)) \in Nat
    BY <1>2, <1>9
  <2> HIDE DEF Upto
  <2>3. QED
    BY <1>1, <2>1, <2>2
<1>11. i \in S
  <2>1. SUFFICES ASSUME i \notin S PROVE FALSE
    OBVIOUS
  <2>2. Upto(i) = Upto(i - 1)
    <3>1. \A j \in S : j <= i <=> j <= i - 1
      BY <1>0, <2>1, <1>7
    <3>2. QED
      BY <3>1, Zenon
  <2>3. Cardinality(Upto(i)) \in Nat
    BY <1>2, <1>7
  <2> HIDE DEF Upto
  <2>4. QED
    BY <1>1, <2>2, <2>3, <1>7, <1>10
<1>12. Upto(i) = Upto(i - 1) \cup {i}
  <2>1. \A j \in S : j <= i <=> (j <= i - 1 \/ j = i)
    BY <1>0, <1>7
  <2>2. QED
    BY <2>1, <1>11, Zenon
<1>13. i \notin Upto(i - 1)
  BY <1>7
<1>14. Cardinality(Upto(i)) = Cardinality(Upto(i - 1)) + 1
  BY <1>2, <1>9, <1>12, <1>13, FS_AddElement
<1>15. Cardinality(Upto(i)) = k
  <2>1. Cardinality(Upto(i)) \in Nat /\ Cardinality(Upto(i - 1)) \in Nat
    BY <1>2, <1>7, <1>9
  <2> HIDE DEF Upto
  <2>2. QED
    BY <1>1, <1>7, <1>10, <1>14, <2>1
<1>16. QED
  BY <1>11, <1>15 DEF Nth

\* The newlines that end a line lie in the text, and so do the lines.
LEMMA Broken ==
  ASSUME NEW b \in Text
  PROVE  /\ Breaks(b) \in SUBSET (1..(Len(b) - 1))
         /\ Cardinality(Breaks(b)) \in Nat
         /\ \A k \in 0..Cardinality(Breaks(b)) : From(b, Breaks(b), k) \in 1..(Len(b) + 1)
         /\ \A k \in 1..Cardinality(Breaks(b)) : Nth(Breaks(b), k) \in 1..(Len(b) - 1)
<1> DEFINE B == Breaks(b)
<1>1. Len(b) \in Nat
  BY DEF Text
<1>2. B \in SUBSET (1..(Len(b) - 1))
  BY DEF Breaks
<1>3. Cardinality(B) \in Nat
  BY <1>1, <1>2, FS_Interval, FS_Subset, FS_CardinalityType, 1 \in Int, Len(b) - 1 \in Int
<1> HIDE DEF B
<1>4. \A k \in 1..Cardinality(B) : Nth(B, k) \in 1..(Len(b) - 1)
  <2> TAKE k \in 1..Cardinality(B)
  <2>1. CASE Len(b) = 0
    <3>1. B = {}
      BY <1>2, <2>1
    <3>2. QED
      BY <3>1, FS_EmptySet
  <2>2. CASE Len(b) # 0
    <3>1. Len(b) - 1 \in Nat
      BY <1>1, <2>2
    <3>2. QED
      BY <3>1, <1>2, NthIn
  <2>3. QED
    BY <2>1, <2>2
<1>5. \A k \in 0..Cardinality(B) : From(b, B, k) \in 1..(Len(b) + 1)
  <2> TAKE k \in 0..Cardinality(B)
  <2>1. CASE k = 0
    BY <1>1, <2>1 DEF From
  <2>2. CASE k # 0
    <3>1. k \in 1..Cardinality(B)
      BY <1>3, <2>2
    <3>2. Nth(B, k) \in 1..(Len(b) - 1)
      BY <3>1, <1>4
    <3>3. QED
      BY <1>1, <2>2, <3>2 DEF From, After
  <2>3. QED
    BY <2>1, <2>2
<1>6. QED
  BY <1>2, <1>3, <1>4, <1>5 DEF B

\* What comes out of the splitter is lines, what stays behind is text.
LEMMA Split ==
  ASSUME NEW b \in Text
  PROVE  LinesAt(b, Breaks(b)) \in Seq(Text) /\ RestAt(b, Breaks(b)) \in Text
<1> DEFINE B == Breaks(b)
           n == Cardinality(B)
           line(k) == SubSeq(b, From(b, B, k - 1), Nth(B, k) - 1)
<1>1. Len(b) \in Nat /\ \A i \in 1..Len(b) : b[i] \in Int
  BY DEF Text
<1>2. /\ n \in Nat
      /\ \A k \in 0..n : From(b, B, k) \in 1..(Len(b) + 1)
      /\ \A k \in 1..n : Nth(B, k) \in 1..(Len(b) - 1)
  BY Broken
<1> HIDE DEF B, n
<1>3. \A k \in 1..n : line(k) \in Text
  <2> TAKE k \in 1..n
  <2>1. k - 1 \in 0..n
    BY <1>2
  <2>2. From(b, B, k - 1) \in 1..(Len(b) + 1) /\ Nth(B, k) \in 1..(Len(b) - 1)
    BY <1>2, <2>1
  <2> DEFINE lo == From(b, B, k - 1)
             hi == Nth(B, k) - 1
  <2>3. lo \in Int /\ hi \in Int /\ \A i \in lo..hi : b[i] \in Int
    BY <1>1, <2>2
  <2> HIDE DEF lo, hi
  <2>4. SubSeq(b, lo, hi) \in Seq(Int)
    BY <2>3, SubSeqProperties
  <2>5. QED
    BY <2>4 DEF lo, hi, Text
<1>4. [k \in 1..n |-> line(k)] \in [1..n -> Text]
  BY <1>3
<1>5. [k \in 1..n |-> line(k)] \in Seq(Text)
  BY <1>2, <1>4, SeqDef
<1>6. LinesAt(b, B) = [k \in 1..n |-> line(k)]
  BY DEF LinesAt, n
<1>7. From(b, B, n) \in 1..(Len(b) + 1)
  BY <1>2
<1>8. SubSeq(b, From(b, B, n), Len(b)) \in Text
  <2>1. /\ From(b, B, n) \in Int /\ Len(b) \in Int
        /\ \A i \in From(b, B, n)..Len(b) : b[i] \in Int
    BY <1>1, <1>7
  <2>2. QED
    BY <2>1, SubSeqProperties DEF Text
<1>9. RestAt(b, B) = SubSeq(b, From(b, B, n), Len(b))
  BY DEF RestAt, n
<1>10. QED
  BY <1>5, <1>6, <1>8, <1>9 DEF B

\* What the splitter gives out at the end of a session.
LEMMA Flushed == ASSUME NEW c \in Text PROVE Flush(c) \in Seq(Text)
<1>1. CASE c = <<>>
  <2>1. <<>> \in Seq(Text)
    OBVIOUS
  <2>2. QED
    BY <1>1, <2>1 DEF Flush
<1>2. CASE c # <<>>
  <2>1. Front(c) \in Text
    <3>1. Len(c) \in Nat /\ \A i \in 1..Len(c) : c[i] \in Int
      BY DEF Text
    <3>2. \A i \in 1..(Len(c) - 1) : c[i] \in Int
      BY <3>1
    <3>3. 1 \in Int /\ Len(c) - 1 \in Int
      BY <3>1
    <3>4. SubSeq(c, 1, Len(c) - 1) \in Seq(Int)
      BY <3>2, <3>3, SubSeqProperties
    <3>5. QED
      BY <3>4 DEF Front, Text
  <2>2. <<Front(c)>> \in Seq(Text) /\ <<c>> \in Seq(Text)
    BY <2>1
  <2>3. QED
    BY <1>2, <2>2 DEF Flush
<1>3. QED
  BY <1>1, <1>2

\* takeLast: no more than was asked for.
LEMMA LastOnes ==
  ASSUME NEW S, NEW s \in Seq(S), NEW n \in Nat
  PROVE  /\ TakeLast(s, n) \in Seq(S)
         /\ Len(TakeLast(s, n)) = IF n >= Len(s) THEN Len(s) ELSE n
<1>1. Len(s) \in Nat /\ \A i \in 1..Len(s) : s[i] \in S
  BY LenProperties, ElementOfSeq
<1>2. CASE n >= Len(s)
  BY <1>2 DEF TakeLast
<1>3. CASE ~(n >= Len(s))
  <2> DEFINE lo == Len(s) - n + 1
             hi == Len(s)
  <2>1. lo \in Int /\ hi \in Int /\ lo <= hi + 1 /\ \A i \in lo..hi : s[i] \in S
    BY <1>1, <1>3
  <2>2. hi - lo + 1 = n
    BY <1>1
  <2> HIDE DEF lo, hi
  <2>3. /\ SubSeq(s, lo, hi) \in Seq(S)
        /\ Len(SubSeq(s, lo, hi)) = IF lo <= hi THEN hi - lo + 1 ELSE 0
    BY <2>1, SubSeqProperties
  <2>4. TakeLast(s, n) = SubSeq(s, lo, hi)
    BY <1>3 DEF TakeLast, lo, hi
  <2>5. QED
    BY <1>3, <2>1, <2>2, <2>3, <2>4
<1>4. QED
  BY <1>2, <1>3

\* What the server makes of the lines of its log.
LEMMA Written ==
  ASSUME NEW lines \in Seq(Int)
  PROVE  TextOf(lines) \in Text
<1> DEFINE n == 3 * Len(lines)
           char(i) == NewLine(lines[(i + 2) \div 3])[((i - 1) % 3) + 1]
<1>1. Len(lines) \in Nat /\ n \in Nat
  OBVIOUS
<1>2. \A i \in 1..n : char(i) \in Int
  <2> TAKE i \in 1..n
  <2>1. (i + 2) \div 3 \in 1..Len(lines)
    BY <1>1
  <2>2. ((i - 1) % 3) + 1 \in 1..3
    BY <1>1
  <2>3. lines[(i + 2) \div 3] \in Int
    BY <2>1, <1>1
  <2>4. \A x \in Int, j \in 1..3 : <<x, LF, CR>>[j] \in Int
    BY DEF LF, CR
  <2>5. QED
    BY <2>2, <2>3, <2>4 DEF NewLine
<1>3. [i \in 1..n |-> char(i)] \in [1..n -> Int]
  BY <1>2
<1>4. [i \in 1..n |-> char(i)] \in Seq(Int)
  BY <1>1, <1>3, SeqDef
<1>5. QED
  BY <1>4 DEF TextOf, Text

-----------------------------------------------------------------------------
(* The socket.  Beside the types, its invariant says which frames may be on  *)
(* the way at each point of the handshake: that is why none with text is     *)
(* there before the loop has come to its session.                            *)
Kinds == {"open", "connect", "refuse", "ping", "stdout"}
Frames == [kind : Kinds, text : Text]

FlagsTyped ==
  /\ log \in Seq(Nat) /\ wall \in 1..MaxWall /\ refreshable \in BOOLEAN
  /\ loop \in {"token", "connecting", "backoff", "streaming", "done"}
  /\ aborted \in {"no", "shutdown", "parent", "failed", "timeout"}
  /\ conns \in 0..MaxConns /\ ws \in {"none", "open", "closed"}
  /\ link \in {"up", "cut", "wedged"}
  /\ srv \in {"hello", "greeted", "joining", "joined", "asked", "tailing"}
  /\ handshake \in {"pending", "ok", "failed", "denied"}
  /\ sessionOver \in BOOLEAN /\ watchdog \in BOOLEAN /\ deaf \in BOOLEAN
  /\ pinged \in {"none", "sent", "answered", "missed"}

WireTyped ==
  /\ wire \in Seq(Frames) /\ Len(wire) <= MaxWire /\ tx \in Text /\ turn \in 0..MaxWire

OutputTyped ==
  /\ carry \in Text /\ queue \in Seq(Text) /\ Len(queue) <= HighWater /\ dropped \in Nat
  /\ drained \in Seq(Text) /\ slot \in Seq(Text) /\ Len(slot) <= 1
  /\ gen \in {"idle", "pulled", "waiting", "done"}

\* Nothing but frames of these kinds is on the way.
Only(K) == \A i \in 1..Len(wire) : wire[i].kind \in K

\* The server has sent what it owes at this point, and no more; it is asked for
\* the log by the very frame that ends the handshake.
Protocol ==
  /\ loop = "connecting" => srv # "tailing" /\ (srv = "asked" => handshake # "pending")
  /\ srv # "tailing" => tx = <<>>
  /\ srv \in {"hello", "joining"} => Len(wire) = 0
  /\ srv = "greeted" => Len(wire) <= 1 /\ Only({"open"})
  /\ srv = "joined" => /\ Only({"connect", "refuse", "ping"})
                       /\ \A i \in 2..Len(wire) : wire[i].kind = "ping"
  /\ srv = "asked" => Only({"ping"})
  /\ srv = "tailing" => Only({"ping", "stdout"})

SocketIInv == FlagsTyped /\ WireTyped /\ OutputTyped /\ SocketsClosed /\ Protocol /\ NothingUnheard

\* Every step of the socket and of what is around it: no continuation is due
\* when the environment moves.
SocketMoves ==
  \/ SocketContinues \/ SocketEvent \/ Tick
  \/ ~SocketBusy /\ (Environment \/ ServerPings)

\* All that the client does to its socket: take a line, ask for one, abort.
HandsOff ==
  /\ UNCHANGED quietSock /\ slot' \in {slot, <<>>}
  /\ \/ UNCHANGED abortable /\ gen' \in {gen, "pulled"}
     \/ \E reason \in {"shutdown", "parent", "timeout"} : Abort(reason)

\* The three parts are the types of the module.
LEMMA SocketTypes == FlagsTyped /\ WireTyped /\ OutputTyped => SocketTypeOK
  BY DEF FlagsTyped, WireTyped, OutputTyped, SocketTypeOK

\* The fields that hold no text.
LEMMA MoveKeepsFlags ==
  ASSUME FlagsTyped, WireTyped, SocketMoves PROVE FlagsTyped'
<1>1. CASE OpenWebSocket
  <2>1. conns' \in 0..MaxConns
    BY <1>1, SocketAssumption DEF FlagsTyped, OpenWebSocket
  <2>2. sessionOver' \in BOOLEAN /\ watchdog' \in BOOLEAN
    BY <1>1 DEF OpenWebSocket
  <2>3. QED
    BY <1>1, <2>1, <2>2 DEF FlagsTyped, OpenWebSocket
<1>2. CASE TokenRefused
  BY <1>2 DEF FlagsTyped, TokenRefused, GiveUp, server, session
<1>3. CASE BackoffEnds
  BY <1>3 DEF FlagsTyped, BackoffEnds, server, session
<1>4. CASE ConnectSettled
  <2>1. sessionOver' \in BOOLEAN /\ watchdog' \in BOOLEAN
    BY <1>4 DEF FlagsTyped, ConnectSettled, StreamBegins
  <2>2. ws' \in {"none", "open", "closed"}
    BY <1>4 DEF FlagsTyped, ConnectSettled
  <2>3. /\ aborted' \in {"no", "shutdown", "parent", "failed", "timeout"}
        /\ loop' \in {"token", "connecting", "backoff", "streaming", "done"}
    BY <1>4 DEF FlagsTyped, ConnectSettled, StreamBegins, GiveUp
  <2>4. QED
    BY <1>4, <2>1, <2>2, <2>3 DEF FlagsTyped, ConnectSettled, server
<1>5. CASE OnMessage
  <2>1. /\ srv' \in {"hello", "greeted", "joining", "joined", "asked", "tailing"}
        /\ handshake' \in {"pending", "ok", "failed", "denied"}
    BY <1>5 DEF FlagsTyped, OnMessage, OnHandshakeFrame
  <2>2. /\ watchdog' \in BOOLEAN /\ deaf' \in BOOLEAN
        /\ pinged' \in {"none", "sent", "answered", "missed"}
    BY <1>5 DEF FlagsTyped, OnMessage, OnStreamFrame, OnUnheardFrame
  <2>3. QED
    BY <1>5, <2>1, <2>2 DEF FlagsTyped, OnMessage
<1>6. CASE OnClose
  BY <1>6 DEF FlagsTyped, OnClose
<1>7. CASE WatchdogFires
  <2>1. sessionOver' \in BOOLEAN /\ watchdog' \in BOOLEAN
    BY <1>7 DEF WatchdogFires
  <2>2. QED
    BY <1>7, <2>1 DEF FlagsTyped, WatchdogFires, server
<1>8. CASE StreamEnds
  BY <1>8 DEF FlagsTyped, StreamEnds
<1>9. CASE StdoutStep
  BY <1>9 DEF FlagsTyped, StdoutStep, server, session
<1>10. CASE ServerAnswers \/ ServerTails \/ ServerSends \/ ServerPings
  BY <1>10 DEF FlagsTyped, ServerAnswers, ServerTails, ServerSends, ServerPings, session
<1>11. CASE LinkFails
  BY <1>11 DEF FlagsTyped, LinkFails, session
<1>12. CASE LogGrows
  <2>1. Entries \subseteq Nat
    BY DEF FlagsTyped, Entries
  <2>2. log' \in Seq(Nat)
    BY <1>12, <2>1 DEF FlagsTyped, LogGrows
  <2>3. QED
    BY <1>12, <2>2 DEF FlagsTyped, LogGrows, session
<1>13. CASE Tick
  BY <1>13, SocketAssumption DEF FlagsTyped, Tick, server, session
<1>14. QED
  BY <1>1, <1>2, <1>3, <1>4, <1>5, <1>6, <1>7, <1>8, <1>9, <1>10, <1>11, <1>12, <1>13
  DEF SocketMoves, SocketContinues, SocketEvent, Environment

\* What the server sends when it is asked for the log is text.
LEMMA SeedIsText == FlagsTyped => SeedText \in Text
<1> SUFFICES ASSUME FlagsTyped PROVE SeedText \in Text
  OBVIOUS
<1>1. log \in Seq(Nat) /\ SeedLen \in Nat
  BY SocketAssumption DEF FlagsTyped
<1>2. TakeLast(log, SeedLen) \in Seq(Nat)
  BY <1>1, LastOnes
<1>3. TakeLast(log, SeedLen) \in Seq(Int)
  BY <1>2, SeqMonotonic, Nat \subseteq Int
<1>4. TextOf(TakeLast(log, SeedLen)) \in Text
  BY <1>3, Written
<1>5. NewLine(Preamble) \in Text /\ NewLine(Fragment) \in Text
  BY DEF NewLine, Preamble, Fragment, LF, CR, Text
<1>6. (IF Len(log) > SeedLen THEN NewLine(Fragment) ELSE <<>>) \in Text
  BY <1>5 DEF Text
<1>7. QED
  BY <1>4, <1>5, <1>6 DEF SeedText, Text

\* The frames of the handshake are frames.
LEMMA FrameIsFrame ==
  /\ Frame("open") \in Frames /\ Frame("connect") \in Frames
  /\ Frame("refuse") \in Frames /\ Frame("ping") \in Frames
<1>1. <<>> \in Text
  BY DEF Text
<1>2. QED
  BY <1>1 DEF Frame, Frames, Kinds

\* The frame at the head of the wire, and what is left behind it.
LEMMA Delivered ==
  ASSUME WireTyped, wire # <<>>
  PROVE  /\ Head(wire) \in Frames /\ Head(wire) = wire[1]
         /\ Len(wire) \in Nat \ {0}
         /\ Tail(wire) \in Seq(Frames) /\ Len(Tail(wire)) = Len(wire) - 1
         /\ \A i \in 1..Len(Tail(wire)) : Tail(wire)[i] = wire[i + 1]
  BY DEF WireTyped

\* One more frame at its end.
LEMMA Sent ==
  ASSUME WireTyped, NEW f \in Frames
  PROVE  /\ Append(wire, f) \in Seq(Frames)
         /\ Len(Append(wire, f)) = Len(wire) + 1
         /\ \A i \in 1..Len(wire) : Append(wire, f)[i] = wire[i]
         /\ Append(wire, f)[Len(wire) + 1] = f
  BY DEF WireTyped

\* What is on the way.
LEMMA MoveKeepsWire ==
  ASSUME FlagsTyped, WireTyped, SocketMoves PROVE WireTyped'
<1>0. <<>> \in Text /\ <<>> \in Seq(Frames) /\ Len(<<>>) = 0 /\ MaxWire \in Nat
  BY SocketAssumption DEF Text
<1>1. CASE OpenWebSocket \/ LinkFails \/ StreamEnds
  <2>1. wire' = <<>> /\ tx' = <<>> /\ turn' = turn
    BY <1>1 DEF OpenWebSocket, LinkFails, StreamEnds
  <2>2. QED
    BY <1>0, <2>1 DEF WireTyped
<1>2. CASE TokenRefused \/ BackoffEnds \/ ConnectSettled \/ WatchdogFires \/ StdoutStep \/ Tick
  BY <1>2 DEF WireTyped, TokenRefused, BackoffEnds, ConnectSettled, WatchdogFires, StdoutStep,
    Tick, server, session
<1>3. CASE OnClose
  BY <1>3 DEF WireTyped, OnClose
<1>4. CASE OnMessage
  <2>1. wire # <<>>
    BY <1>4 DEF OnMessage
  <2>2. turn' \in 0..MaxWire
    BY <1>0, <1>4, <2>1, Delivered DEF WireTyped, OnMessage
  <2>3. wire' \in Seq(Frames) /\ Len(wire') <= MaxWire
    BY <1>0, <1>4, <2>1, Delivered DEF WireTyped, OnMessage
  <2>4. QED
    BY <1>4, <2>2, <2>3 DEF WireTyped, OnMessage
<1>5. CASE ServerAnswers \/ ServerPings
  <2>1. \E kind \in Kinds : Frame(kind) \in Frames /\ wire' = Append(wire, Frame(kind))
    BY <1>5, FrameIsFrame DEF ServerAnswers, ServerPings, Kinds
  <2>2. wire' \in Seq(Frames) /\ Len(wire') = Len(wire) + 1
    BY <2>1, Sent
  <2>3. Len(wire) < MaxWire /\ tx' = tx /\ turn' = turn
    BY <1>5 DEF ServerAnswers, ServerPings, CanSend
  <2>4. QED
    BY <1>0, <2>2, <2>3 DEF WireTyped
<1>6. CASE ServerTails
  BY <1>6, SeedIsText DEF WireTyped, ServerTails
<1>7. CASE ServerSends
  <2>1. PICK short \in Cuts :
          /\ short < Len(tx)
          /\ wire' = Append(wire, [kind |-> "stdout", text |-> SubSeq(tx, 1, Len(tx) - short)])
          /\ tx' = SubSeq(tx, Len(tx) - short + 1, Len(tx))
    BY <1>7 DEF ServerSends
  <2> DEFINE n == Len(tx) - short
  <2>2. Len(tx) \in Nat /\ \A i \in 1..Len(tx) : tx[i] \in Int
    BY DEF WireTyped, Text
  <2>3. n \in 1..Len(tx)
    BY <2>1, <2>2, SocketAssumption
  <2>4. SubSeq(tx, 1, n) \in Text
    <3>1. 1 \in Int /\ n \in Int /\ \A i \in 1..n : tx[i] \in Int
      BY <2>2, <2>3
    <3> HIDE DEF n
    <3>2. QED
      BY <3>1, SubSeqProperties DEF Text
  <2>5. SubSeq(tx, n + 1, Len(tx)) \in Text
    <3>1. n + 1 \in Int /\ Len(tx) \in Int /\ \A i \in (n + 1)..Len(tx) : tx[i] \in Int
      BY <2>2, <2>3
    <3> HIDE DEF n
    <3>2. QED
      BY <3>1, SubSeqProperties DEF Text
  <2>6. [kind |-> "stdout", text |-> SubSeq(tx, 1, n)] \in Frames
    BY <2>4 DEF Frames, Kinds
  <2>7. wire' \in Seq(Frames) /\ Len(wire') = Len(wire) + 1
    BY <2>1, <2>6, Sent
  <2>8. Len(wire) < MaxWire /\ turn' = turn
    BY <1>7 DEF ServerSends, CanSend
  <2>9. tx' \in Text
    BY <2>1, <2>5
  <2>10. QED
    BY <1>0, <2>7, <2>8, <2>9 DEF WireTyped
<1>8. CASE LogGrows
  <2>1. Entries \subseteq Int
    BY DEF FlagsTyped, Entries
  <2>2. \A l \in Entries : NewLine(l) \in Text
    BY <2>1 DEF NewLine, LF, CR, Text
  <2>3. \A l \in Entries : tx \o NewLine(l) \in Text
    BY <2>2 DEF WireTyped, Text
  <2>4. QED
    BY <1>8, <2>3 DEF WireTyped, LogGrows, session
<1>9. QED
  BY <1>1, <1>2, <1>3, <1>4, <1>5, <1>6, <1>7, <1>8
  DEF SocketMoves, SocketContinues, SocketEvent, Environment

\* The queue keeps to its mark, and what it drops is counted.
LEMMA Enqueued ==
  ASSUME OutputTyped, NEW lines \in Seq(Text), Enqueue(lines)
  PROVE  /\ queue' \in Seq(Text) /\ Len(queue') <= HighWater /\ dropped' \in Nat
         /\ gen' \in {"idle", "pulled", "waiting", "done"}
<1> DEFINE all == queue \o lines
<1>1. HighWater \in Nat
  BY SocketAssumption
<1>2. all \in Seq(Text) /\ Len(all) \in Nat
  BY DEF OutputTyped
<1> HIDE DEF all
<1>3. /\ TakeLast(all, HighWater) \in Seq(Text)
      /\ Len(TakeLast(all, HighWater)) = IF HighWater >= Len(all) THEN Len(all) ELSE HighWater
  BY <1>1, <1>2, LastOnes
<1>4. queue' = TakeLast(all, HighWater) /\ dropped' = dropped + (Len(all) - Len(queue'))
  BY DEF Enqueue, all
<1>5. gen' \in {"idle", "pulled", "waiting", "done"}
  BY DEF Enqueue, OutputTyped
<1>6. dropped \in Nat
  BY DEF OutputTyped
<1>7. QED
  BY <1>1, <1>2, <1>3, <1>4, <1>5, <1>6

\* The lines on their way to the caller.
LEMMA MoveKeepsOutput ==
  ASSUME FlagsTyped, WireTyped, OutputTyped, SocketMoves PROVE OutputTyped'
<1>1. CASE OpenWebSocket \/ BackoffEnds \/ WatchdogFires \/ Tick \/ LinkFails \/ OnClose
           \/ LogGrows \/ ServerTails \/ ServerSends \/ ServerAnswers \/ ServerPings
  <2>1. UNCHANGED <<carry, output>>
    BY <1>1 DEF OpenWebSocket, BackoffEnds, WatchdogFires, Tick, LinkFails, OnClose, LogGrows,
      ServerTails, ServerSends, ServerAnswers, ServerPings, session
  <2>2. QED
    BY <2>1 DEF OutputTyped, output
<1>2. CASE TokenRefused \/ ConnectSettled
  <2>1. UNCHANGED <<carry, queue, dropped, drained, slot>>
    BY <1>2 DEF TokenRefused, ConnectSettled, session
  <2>2. gen' \in {"idle", "pulled", "waiting", "done"}
    BY <1>2 DEF FlagsTyped, OutputTyped, TokenRefused, ConnectSettled, StreamBegins, GiveUp
  <2>3. QED
    BY <2>1, <2>2 DEF OutputTyped
<1>3. CASE OnMessage
  <2>1. drained' = drained /\ slot' = slot
    BY <1>3 DEF OnMessage
  <2>2. CASE loop = "streaming" /\ Head(wire).kind = "stdout"
    <3> DEFINE buffer == carry \o Head(wire).text
    <3>1. Head(wire).text \in Text
      BY <1>3, Delivered DEF OnMessage, Frames
    <3>2. buffer \in Text
      BY <3>1 DEF OutputTyped, Text
    <3>3. OnStreamFrame(Head(wire))
      BY <1>3, <2>2 DEF OnMessage
    <3>4. carry' = RestAt(buffer, Breaks(buffer)) /\ Enqueue(LinesAt(buffer, Breaks(buffer)))
      BY <3>3, <2>2 DEF OnStreamFrame
    <3> HIDE DEF buffer
    <3>5. LinesAt(buffer, Breaks(buffer)) \in Seq(Text) /\ RestAt(buffer, Breaks(buffer)) \in Text
      BY <3>2, Split
    <3>6. QED
      BY <3>4, <3>5, <2>1, Enqueued DEF OutputTyped
  <2>3. CASE ~(loop = "streaming" /\ Head(wire).kind = "stdout")
    <3>1. UNCHANGED <<carry, queue, dropped, gen>>
      BY <1>3, <2>3 DEF OnMessage, OnStreamFrame, OnUnheardFrame
    <3>2. QED
      BY <2>1, <3>1 DEF OutputTyped
  <2>4. QED
    BY <2>2, <2>3
<1>4. CASE StreamEnds
  <2>1. Flush(carry) \in Seq(Text)
    BY Flushed DEF OutputTyped
  <2>2. Enqueue(Flush(carry)) /\ carry' = <<>> /\ drained' = drained /\ slot' = slot
    BY <1>4 DEF StreamEnds
  <2>3. <<>> \in Text
    BY DEF Text
  <2>4. QED
    BY <2>1, <2>2, <2>3, Enqueued DEF OutputTyped
<1>5. CASE StdoutStep
  <2> DEFINE source == IF drained # <<>> THEN drained ELSE queue
  <2>1. source \in Seq(Text) /\ <<>> \in Seq(Text) /\ Len(<<>>) = 0
    BY DEF OutputTyped
  <2>2. carry' = carry /\ dropped' = dropped
    BY <1>5 DEF StdoutStep, session
  <2>3. CASE source # <<>>
    <3>1. /\ slot' = <<Head(source)>> /\ drained' = Tail(source)
          /\ queue' = (IF drained # <<>> THEN queue ELSE <<>>) /\ gen' = "idle"
      BY <1>5, <2>3 DEF StdoutStep
    <3> HIDE DEF source
    <3>2. Head(source) \in Text /\ Tail(source) \in Seq(Text)
      BY <2>1, <2>3
    <3>3. <<Head(source)>> \in Seq(Text) /\ Len(<<Head(source)>>) = 1
      BY <3>2
    <3>4. Len(queue') <= HighWater
      BY <2>1, <3>1, SocketAssumption DEF OutputTyped
    <3>5. QED
      BY <2>1, <2>2, <3>1, <3>2, <3>3, <3>4 DEF OutputTyped
  <2>4. CASE ~(source # <<>>)
    <3>1. /\ gen' = (IF aborted = "no" THEN "waiting" ELSE "done")
          /\ UNCHANGED <<slot, drained, queue>>
      BY <1>5, <2>4 DEF StdoutStep
    <3>2. QED
      BY <2>2, <3>1 DEF OutputTyped
  <2>5. QED
    BY <2>3, <2>4
<1>6. QED
  BY <1>1, <1>2, <1>3, <1>4, <1>5 DEF SocketMoves, SocketContinues, SocketEvent, Environment

\* No WebSocket is left open behind the loop.
LEMMA MoveKeepsClosed ==
  ASSUME FlagsTyped, SocketsClosed, SocketMoves PROVE SocketsClosed'
<1>1. CASE OpenWebSocket
  BY <1>1 DEF SocketsClosed, OpenWebSocket, FlagsTyped
<1>2. CASE TokenRefused \/ BackoffEnds
  BY <1>2 DEF SocketsClosed, TokenRefused, BackoffEnds, GiveUp, FlagsTyped
<1>3. CASE ConnectSettled
  BY <1>3 DEF SocketsClosed, ConnectSettled, StreamBegins, GiveUp, FlagsTyped
<1>4. CASE OnClose \/ StreamEnds
  BY <1>4 DEF SocketsClosed, OnClose, StreamEnds
<1>5. CASE OnMessage \/ WatchdogFires \/ StdoutStep \/ Tick \/ ServerAnswers \/ ServerTails
           \/ ServerSends \/ ServerPings \/ LinkFails \/ LogGrows
  <2>1. UNCHANGED <<loop, aborted, ws>>
    BY <1>5 DEF OnMessage, WatchdogFires, StdoutStep, Tick, ServerAnswers, ServerTails,
      ServerSends, ServerPings, LinkFails, LogGrows
  <2>2. QED
    BY <2>1 DEF SocketsClosed
<1>6. QED
  BY <1>1, <1>2, <1>3, <1>4, <1>5 DEF SocketMoves, SocketContinues, SocketEvent, Environment

\* With nothing on the way, the handshake is where the loop says it is.
LEMMA SilentWire ==
  ASSUME Len(wire') = 0, tx' = <<>>,
         loop' = "connecting" => srv' # "tailing" /\ (srv' = "asked" => handshake' # "pending")
  PROVE  Protocol'
<1>1. Only({"open"})' /\ Only({"ping"})' /\ Only({"ping", "stdout"})'
      /\ Only({"connect", "refuse", "ping"})' /\ \A i \in 2..Len(wire') : wire'[i].kind = "ping"
  BY DEF Only
<1>2. QED
  BY <1>1 DEF Protocol

\* Frames come and go in the order of the handshake.
LEMMA MoveKeepsProtocol ==
  ASSUME SocketIInv, SocketMoves PROVE Protocol'
<1> USE DEF SocketIInv
<1>0. Len(<<>>) = 0
  OBVIOUS
<1>1. CASE OpenWebSocket
  <2>1. wire' = <<>> /\ tx' = <<>> /\ srv' = "hello"
    BY <1>1 DEF OpenWebSocket
  <2>2. QED
    BY <1>0, <2>1, SilentWire
<1>2. CASE LinkFails
  <2>1. wire' = <<>> /\ tx' = <<>> /\ UNCHANGED <<loop, srv, handshake>>
    BY <1>2 DEF LinkFails, session
  <2>2. QED
    BY <1>0, <2>1, SilentWire DEF Protocol
<1>3. CASE StreamEnds
  <2>1. wire' = <<>> /\ tx' = <<>> /\ loop' # "connecting"
    BY <1>3 DEF StreamEnds
  <2>2. QED
    BY <1>0, <2>1, SilentWire
<1>4. CASE \/ TokenRefused \/ BackoffEnds \/ ConnectSettled \/ WatchdogFires \/ StdoutStep \/ Tick
           \/ OnClose
  <2>1. UNCHANGED <<wire, tx, srv>>
    BY <1>4 DEF TokenRefused, BackoffEnds, ConnectSettled, WatchdogFires, StdoutStep, Tick,
      OnClose, server
  <2>2. /\ loop' = "connecting" => loop = "connecting"
        /\ handshake' = "pending" => handshake = "pending"
    BY <1>4 DEF TokenRefused, BackoffEnds, ConnectSettled, StreamBegins, GiveUp, WatchdogFires,
      StdoutStep, Tick, OnClose, session
  <2>3. UNCHANGED wire
    BY <2>1
  <2>4. /\ Only({"open"})' = Only({"open"}) /\ Only({"ping"})' = Only({"ping"})
        /\ Only({"ping", "stdout"})' = Only({"ping", "stdout"})
        /\ Only({"connect", "refuse", "ping"})' = Only({"connect", "refuse", "ping"})
    BY <2>3 DEF Only
  <2>5. QED
    BY <2>1, <2>2, <2>4 DEF Protocol
<1>5. CASE OnMessage
  <2>1. /\ Head(wire) = wire[1] /\ Len(wire) \in Nat \ {0} /\ wire' = Tail(wire)
        /\ Len(wire') = Len(wire) - 1
        /\ \A i \in 1..Len(wire') : wire'[i] = wire[i + 1]
    BY <1>5, Delivered DEF OnMessage
  <2>2. UNCHANGED <<loop, tx>>
    BY <1>5 DEF OnMessage
  <2>3. OnHandshakeFrame(wire[1])
    BY <1>5, <2>1 DEF OnMessage
  <2>4. srv \notin {"hello", "joining"}
    BY <2>1 DEF Protocol
  <2>5. CASE srv = "greeted"
    <3>1. wire[1].kind = "open" /\ Len(wire') = 0 /\ tx = <<>>
      BY <2>1, <2>5 DEF Protocol, Only
    <3>2. srv' = "joining"
      BY <2>3, <3>1 DEF OnHandshakeFrame
    <3>3. QED
      BY <2>2, <3>1, <3>2, SilentWire
  <2>6. CASE srv = "joined"
    <3>1. /\ wire[1].kind \in {"connect", "refuse", "ping"} /\ tx = <<>>
          /\ \A i \in 1..Len(wire') : wire'[i].kind = "ping"
      BY <2>1, <2>6 DEF Protocol, Only
    <3>2. srv' = IF wire[1].kind = "connect" THEN "asked" ELSE "joined"
      BY <2>3, <2>6, <3>1 DEF OnHandshakeFrame
    <3>3. srv' = "asked" => handshake' # "pending"
      BY <2>3, <3>1, <3>2 DEF OnHandshakeFrame
    <3>4. Only({"ping"})' /\ Only({"connect", "refuse", "ping"})'
          /\ \A i \in 2..Len(wire') : wire'[i].kind = "ping"
      BY <2>1, <3>1 DEF Only
    <3>5. QED
      BY <2>2, <3>1, <3>2, <3>3, <3>4 DEF Protocol
  <2>7. CASE srv \in {"asked", "tailing"}
    <3>1. wire[1].kind \in {"ping", "stdout"}
      BY <2>1, <2>7 DEF Protocol, Only
    <3>2. srv' = srv /\ (handshake' = "pending" => handshake = "pending")
      BY <2>3, <3>1 DEF OnHandshakeFrame
    <3>3. /\ Only({"ping"}) => Only({"ping"})'
          /\ Only({"ping", "stdout"}) => Only({"ping", "stdout"})'
      BY <2>1 DEF Only
    <3>4. QED
      BY <2>2, <2>7, <3>2, <3>3 DEF Protocol
  <2>8. QED
    BY <2>4, <2>5, <2>6, <2>7 DEF FlagsTyped
<1>6. CASE ServerAnswers
  <2>1. \/ srv = "hello" /\ srv' = "greeted" /\ wire' = Append(wire, Frame("open"))
        \/ srv = "joining" /\ srv' = "joined"
           /\ \E kind \in {"connect", "refuse"} : wire' = Append(wire, Frame(kind))
    BY <1>6 DEF ServerAnswers
  <2>2. UNCHANGED <<loop, handshake, tx>> /\ tx = <<>> /\ Len(wire) = 0
    BY <1>6, <2>1 DEF ServerAnswers, session, Protocol
  <2>3. CASE srv' = "greeted"
    <3>1. wire' = Append(wire, Frame("open"))
      BY <2>1, <2>3
    <3>2. Len(wire') = 1 /\ wire'[1] = Frame("open")
      BY <3>1, <2>2, Sent, FrameIsFrame
    <3>3. Only({"open"})'
      BY <3>2 DEF Only, Frame
    <3>4. QED
      BY <2>2, <2>3, <3>2, <3>3 DEF Protocol
  <2>4. CASE srv' = "joined"
    <3>1. PICK kind \in {"connect", "refuse"} : wire' = Append(wire, Frame(kind))
      BY <2>1, <2>4
    <3>2. Len(wire') = 1 /\ wire'[1] = Frame(kind)
      BY <3>1, <2>2, Sent, FrameIsFrame
    <3>3. Only({"connect", "refuse", "ping"})' /\ \A i \in 2..Len(wire') : wire'[i].kind = "ping"
      BY <3>2 DEF Only, Frame
    <3>4. QED
      BY <2>2, <2>4, <3>2, <3>3 DEF Protocol
  <2>5. QED
    BY <2>1, <2>3, <2>4
<1>7. CASE ServerPings
  <2>1. srv = "joined" /\ srv' = "joined" /\ wire' = Append(wire, Frame("ping"))
        /\ UNCHANGED <<loop, handshake, tx>>
    BY <1>7 DEF ServerPings
  <2>2. /\ Len(wire') = Len(wire) + 1 /\ wire'[Len(wire) + 1] = Frame("ping")
        /\ \A i \in 1..Len(wire) : wire'[i] = wire[i]
    BY <2>1, Sent, FrameIsFrame
  <2>3. Len(wire) \in Nat
    BY DEF WireTyped
  <2>4. Frame("ping").kind = "ping"
    BY DEF Frame
  <2>5. Only({"connect", "refuse", "ping"})
        /\ \A i \in 2..Len(wire) : wire[i].kind = "ping"
    BY <2>1 DEF Protocol
  <2>6. Only({"connect", "refuse", "ping"})'
    BY <2>2, <2>3, <2>4, <2>5 DEF Only
  <2>7. \A i \in 2..Len(wire') : wire'[i].kind = "ping"
    BY <2>2, <2>3, <2>4, <2>5
  <2>8. QED
    BY <2>1, <2>6, <2>7 DEF Protocol
<1>8. CASE ServerTails /\ ~SocketBusy
  <2>1. srv = "asked" /\ srv' = "tailing" /\ UNCHANGED <<loop, wire, handshake>> /\ ws = "open"
    BY <1>8 DEF ServerTails, session
  <2>2. loop # "connecting"
    BY <1>8, <2>1 DEF SocketBusy, Protocol
  <2>3. Only({"ping"})
    BY <2>1 DEF Protocol
  <2>4. Only({"ping", "stdout"})'
    BY <2>1, <2>3 DEF Only
  <2>5. QED
    BY <2>1, <2>2, <2>4 DEF Protocol
<1>9. CASE ServerSends
  <2>1. tx # <<>> /\ UNCHANGED <<loop, srv, handshake>>
    BY <1>9 DEF ServerSends, session
  <2>2. PICK n \in Int : wire' = Append(wire, [kind |-> "stdout", text |-> SubSeq(tx, 1, n)])
    <3>1. PICK short \in Cuts :
            wire' = Append(wire, [kind |-> "stdout", text |-> SubSeq(tx, 1, Len(tx) - short)])
      BY <1>9 DEF ServerSends
    <3>2. Len(tx) - short \in Int
      BY SocketAssumption DEF WireTyped, Text
    <3>3. QED
      BY <3>1, <3>2
  <2> DEFINE f == [kind |-> "stdout", text |-> SubSeq(tx, 1, n)]
  <2>3. f.kind = "stdout"
    OBVIOUS
  <2>4. srv = "tailing" /\ Only({"ping", "stdout"})
    BY <2>1 DEF Protocol
  <2>5. wire' = Append(wire, f)
    BY <2>2
  <2> HIDE DEF f
  <2>6. Only({"ping", "stdout"})'
    <3>1. wire \in Seq(Frames) /\ Len(wire) \in Nat
      BY DEF WireTyped
    <3>2. /\ Len(wire') = Len(wire) + 1 /\ wire'[Len(wire) + 1] = f
          /\ \A i \in 1..Len(wire) : wire'[i] = wire[i]
      BY <3>1, <2>5
    <3>3. QED
      BY <2>3, <2>4, <3>1, <3>2 DEF Only
  <2>7. QED
    BY <2>1, <2>4, <2>6 DEF Protocol
<1>10. CASE LogGrows
  <2>1. UNCHANGED <<loop, srv, handshake, wire>> /\ (srv # "tailing" => tx' = tx)
    BY <1>10 DEF LogGrows, session
  <2>2. /\ Only({"open"})' = Only({"open"}) /\ Only({"ping"})' = Only({"ping"})
        /\ Only({"ping", "stdout"})' = Only({"ping", "stdout"})
        /\ Only({"connect", "refuse", "ping"})' = Only({"connect", "refuse", "ping"})
    BY <2>1 DEF Only
  <2>3. QED
    BY <2>1, <2>2 DEF Protocol
<1>11. QED
  BY <1>1, <1>2, <1>3, <1>4, <1>5, <1>6, <1>7, <1>8, <1>9, <1>10
  DEF SocketMoves, SocketContinues, SocketEvent, Environment

\* No text of the log is on the way while nobody listens for it.
LEMMA MoveIsHeard ==
  ASSUME SocketIInv, SocketMoves PROVE NothingUnheard'
<1>1. CASE OnMessage
  <2>1. CASE loop = "streaming"
    BY <1>1, <2>1 DEF SocketIInv, OnMessage, OnStreamFrame, NothingUnheard
  <2>2. CASE loop # "streaming"
    <3>1. loop = "connecting" /\ srv # "tailing"
      BY <1>1, <2>2 DEF SocketIInv, OnMessage, SocketsClosed, FlagsTyped, Protocol
    <3>2. Head(wire) = wire[1] /\ Len(wire) \in Nat \ {0}
      BY <1>1, Delivered DEF SocketIInv, OnMessage
    <3>3. wire[1].kind # "stdout"
      <4>1. /\ Only({"open"}) => wire[1].kind # "stdout"
            /\ Only({"ping"}) => wire[1].kind # "stdout"
            /\ Only({"connect", "refuse", "ping"}) => wire[1].kind # "stdout"
        BY <3>2 DEF Only
      <4>2. QED
        BY <3>1, <3>2, <4>1 DEF SocketIInv, Protocol, FlagsTyped
    <3>4. QED
      BY <1>1, <2>2, <3>2, <3>3 DEF SocketIInv, OnMessage, OnUnheardFrame, NothingUnheard
  <2>3. QED
    BY <2>1, <2>2
<1>2. CASE ~OnMessage
  <2>1. deaf' = deaf
    BY <1>2 DEF SocketMoves, SocketContinues, SocketEvent, Environment, OpenWebSocket,
      TokenRefused, BackoffEnds, ConnectSettled, OnClose, WatchdogFires, StreamEnds, StdoutStep,
      Tick, ServerAnswers, ServerTails, ServerSends, ServerPings, LinkFails, LogGrows, session
  <2>2. QED
    BY <2>1 DEF SocketIInv, NothingUnheard
<1>3. QED
  BY <1>1, <1>2

\* All of the above.
LEMMA MoveKeepsSocket ==
  ASSUME SocketIInv, SocketMoves PROVE SocketIInv'
  BY MoveKeepsFlags, MoveKeepsWire, MoveKeepsOutput, MoveKeepsClosed, MoveKeepsProtocol,
     MoveIsHeard
  DEF SocketIInv

\* What the client does to the socket leaves its invariant alone.
LEMMA HandsOffSocket ==
  ASSUME SocketIInv, HandsOff PROVE SocketIInv'
<1> USE DEF SocketIInv
<1>0. <<>> \in Text /\ <<>> \in Seq(Frames) /\ <<>> \in Seq(Text) /\ Len(<<>>) = 0
      /\ MaxWire \in Nat
  BY SocketAssumption DEF Text
<1>1. UNCHANGED quietSock /\ slot' \in {slot, <<>>}
  BY DEF HandsOff
<1>2. OutputTyped'
  <2>1. gen' \in {"idle", "pulled", "waiting", "done"}
    BY DEF HandsOff, Abort, abortable, OutputTyped
  <2>2. slot' \in Seq(Text) /\ Len(slot') <= 1
    <3>1. CASE slot' = slot
      BY <3>1 DEF OutputTyped
    <3>2. CASE slot' = <<>>
      BY <1>0, <3>2
    <3>3. QED
      BY <1>1, <3>1, <3>2
  <2>3. QED
    BY <1>1, <2>1, <2>2 DEF quietSock, OutputTyped
<1>3. NothingUnheard'
  BY <1>1 DEF quietSock, NothingUnheard
<1>4. CASE UNCHANGED abortable
  <2>1. FlagsTyped' /\ WireTyped' /\ SocketsClosed'
    BY <1>1, <1>4 DEF quietSock, abortable, FlagsTyped, WireTyped, SocketsClosed
  <2>2. Protocol'
    BY <1>1, <1>4 DEF quietSock, abortable, Protocol, Only
  <2>3. QED
    BY <1>2, <1>3, <2>1, <2>2
<1>5. CASE ~UNCHANGED abortable
  <2>1. PICK reason \in {"shutdown", "parent", "timeout"} : Abort(reason)
    BY <1>5 DEF HandsOff
  <2>2. CASE aborted # "no"
    <3>1. UNCHANGED abortable
      BY <2>1, <2>2 DEF Abort, abortable
    <3>2. QED
      BY <3>1, <1>5
  <2>3. CASE aborted = "no"
    <3>1. /\ aborted' = reason
          /\ ws' = (IF ws = "open" THEN "closed" ELSE ws) /\ tx' = <<>> /\ wire' = <<>>
          /\ handshake' = IF loop = "connecting" /\ handshake = "pending" THEN "failed" ELSE handshake
          /\ sessionOver' = (sessionOver \/ loop = "streaming")
          /\ watchdog' = FALSE
      BY <2>1, <2>3 DEF Abort
    <3>2. sessionOver' \in BOOLEAN /\ watchdog' \in BOOLEAN
      BY <3>1
    <3>3. FlagsTyped'
      BY <1>1, <3>1, <3>2 DEF quietSock, FlagsTyped
    <3>4. WireTyped'
      BY <1>0, <1>1, <3>1 DEF quietSock, WireTyped
    <3>5. SocketsClosed'
      BY <1>1, <3>1 DEF quietSock, SocketsClosed, FlagsTyped
    <3>6. Protocol'
      BY <1>0, <1>1, <3>1, SilentWire DEF quietSock, Protocol
    <3>7. QED
      BY <1>2, <1>3, <3>3, <3>4, <3>5, <3>6
  <2>4. QED
    BY <2>2, <2>3
<1>6. QED
  BY <1>4, <1>5

-----------------------------------------------------------------------------
(* The client and the command line.  A whole download is followed from the   *)
(* body to the exit code: what has been shown and what is still to be served *)
(* are the log as it was, until a run that lost some of it says so.          *)
ClientTyped ==
  /\ phase \in {"collect", "buffer", "gate", "serve", "relay", "closing", "closed"}
  /\ download \in {"off", "asked", "body", "done", "failed", "aborted"}
  /\ gate \in [open : BOOLEAN, skipped : 0..MaxSkip]
  /\ covers \in BOOLEAN /\ decided \in BOOLEAN /\ thrown \in BOOLEAN /\ callAborted \in BOOLEAN
  /\ caller \in {"ready", "busy"}
  /\ req.quantity \in Nat /\ snap \in 0..Len(log)

\* A run for the log as it is: all of it is served, or the run has failed.
WholeLog ==
  req.mode = "history" =>
    /\ ~req.follow /\ ~covers
    /\ out \in Seq(Text) /\ shown \in Seq(Text)
    /\ phase \in {"collect", "serve", "closing", "closed"}
    /\ phase = "collect" => shown = <<>>
    /\ phase = "serve" => download # "asked" /\ shown \o out = History
    /\ phase \in {"closing", "closed"} /\ ~thrown => download = "done" /\ shown = History

\* Success means that the stream ended by itself, or that the user stopped it.
Ended ==
  /\ exit \in {Running, ExitSuccess, ExitFailure, ExitUsage}
  /\ cleanStop \in BOOLEAN /\ stdoutError \in BOOLEAN
  /\ callAborted => cleanStop \/ stdoutError
  /\ exit = ExitSuccess => phase = "closed" /\ (thrown => cleanStop)

IInv == SocketIInv /\ ClientTyped /\ WholeLog /\ Ended

\* The inductive invariant is as strong as the one the run checks.
LEMMA IInvGivesLogInv == IInv => LogInv
<1> SUFFICES ASSUME IInv PROVE LogInv
  OBVIOUS
<1>1. SocketTypeOK
  BY SocketTypes DEF IInv, SocketIInv
<1>2. gate.skipped \in 0..MaxSkip
  BY DEF IInv, ClientTyped
<1>3. TypeOK
  BY <1>1, <1>2 DEF IInv, ClientTyped, ClientTypeOK, Ended, TypeOK
<1>4. NoTruncatedSuccess
  BY DEF IInv, WholeLog, Ended, NoTruncatedSuccess
<1>5. QED
  BY <1>3, <1>4 DEF IInv, SocketIInv, LogInv

\* The log only grows, so a download stays what it was.
LEMMA HistoryStays ==
  ASSUME FlagsTyped, ClientTyped, UNCHANGED <<snap, req>>,
         log' = log \/ \E l \in Nat : log' = Append(log, l)
  PROVE  History' = History /\ snap' \in 0..Len(log')
<1>0. log \in Seq(Nat) /\ Len(log) \in Nat /\ snap \in 0..Len(log)
  BY DEF FlagsTyped, ClientTyped
<1>1. /\ \A i \in 1..snap : log'[i] = log[i]
      /\ Len(log') >= Len(log) /\ Len(log') \in Nat
  <2>1. CASE log' = log
    BY <1>0, <2>1
  <2>2. CASE \E l \in Nat : log' = Append(log, l)
    BY <1>0, <2>2
  <2>3. QED
    BY <2>1, <2>2
<1>2. [i \in 1..snap |-> <<log'[i]>>] = [i \in 1..snap |-> <<log[i]>>]
  BY <1>1
<1>3. History' = History
  BY <1>2 DEF History
<1>4. snap' \in 0..Len(log')
  BY <1>0, <1>1
<1>5. QED
  BY <1>3, <1>4

\* A download is a sequence of lines.
LEMMA HistoryIsText == FlagsTyped /\ ClientTyped => History \in Seq(Text)
<1> SUFFICES ASSUME FlagsTyped, ClientTyped PROVE History \in Seq(Text)
  OBVIOUS
<1> DEFINE lines == [i \in 1..snap |-> <<log[i]>>]
<1>1. \A i \in 1..snap : log[i] \in Int
  BY DEF FlagsTyped, ClientTyped
<1>2. \A i \in 1..snap : <<log[i]>> \in Text
  BY <1>1 DEF Text
<1>3. lines \in [1..snap -> Text] /\ snap \in Nat
  BY <1>2 DEF FlagsTyped, ClientTyped
<1>4. lines \in Seq(Text)
  BY <1>3, SeqDef
<1> HIDE DEF lines
<1>5. TakeLast(lines, req.quantity) \in Seq(Text)
  BY <1>4, LastOnes DEF ClientTyped
<1>6. History = IF req.mode = "window" \/ req.quantity = 0 THEN lines ELSE TakeLast(lines, req.quantity)
  BY DEF History, lines
<1>7. QED
  BY <1>4, <1>5, <1>6

\* The gate counts to its limit and no further.
LEMMA Gated ==
  ASSUME ClientTyped, NEW line
  PROVE  GateAfter(gate, line, MaxSkip) \in [open : BOOLEAN, skipped : 0..MaxSkip]
<1>1. MaxSkip \in Nat
  BY SkipAssumption
<1>2. CASE Admits(gate, line, MaxSkip)
  BY <1>2 DEF GateAfter, ClientTyped
<1>3. CASE ~Admits(gate, line, MaxSkip)
  BY <1>1, <1>3 DEF GateAfter, Admits, ClientTyped
<1>4. QED
  BY <1>2, <1>3

ClientMoves == ClientContinues \/ ClientEvent

\* What the client does to its socket, step by step.
LEMMA SockStill == UNCHANGED sockVars => HandsOff
  BY DEF sockVars, server, session, output, HandsOff, quietSock, abortable

LEMMA CallAbortedHandsOff == CallAborted => HandsOff
  BY DEF CallAborted, HandsOff

LEMMA ClientHandsOff == ClientMoves => HandsOff
<1>1. DownloadProceeds \/ DownloadDone \/ LiveEnds \/ HistoryReady \/ ServeRecord \/ Close
      => HandsOff
  BY SockStill DEF DownloadProceeds, DownloadDone, LiveEnds, HistoryReady, ServeRecord, Close
<1>2. GateDrops \/ BufferLine => HandsOff
  BY DEF GateDrops, BufferLine, Taken, HandsOff
<1>3. AskForLine => HandsOff
  BY DEF AskForLine, Pull, HandsOff
<1>4. RelayLine => HandsOff
  BY DEF RelayLine, Taken, Finish, HandsOff
<1>5. DownloadLost \/ GateEnds \/ GateDeadline \/ HistoryBreaks \/ Served => HandsOff
  BY DEF DownloadLost, GateEnds, GateDeadline, GateGivesUp, HistoryBreaks, Served, Finish, HandsOff
<1>6. GateLine => HandsOff
  BY DEF GateLine, Taken, Finish, HandsOff
<1>7. QuiescenceFires \/ CapFires => HandsOff
  BY DEF QuiescenceFires, CapFires, Terminate, HandsOff
<1>8. QED
  BY <1>1, <1>2, <1>3, <1>4, <1>5, <1>6, <1>7 DEF ClientMoves, ClientContinues, ClientEvent

\* It never touches the log, and nothing takes a line out of it.
LEMMA HandsOffLog == HandsOff => log' = log
  BY DEF HandsOff, quietSock

LEMMA MoveGrowsLog ==
  FlagsTyped /\ SocketMoves => log' = log \/ \E l \in Nat : log' = Append(log, l)
<1> SUFFICES ASSUME FlagsTyped, SocketMoves
             PROVE  log' = log \/ \E l \in Nat : log' = Append(log, l)
  OBVIOUS
<1>1. CASE LogGrows
  <2>1. Entries \subseteq Nat
    BY DEF FlagsTyped, Entries
  <2>2. QED
    BY <1>1, <2>1 DEF LogGrows
<1>2. CASE ~LogGrows
  BY <1>2 DEF SocketMoves, SocketContinues, SocketEvent, Environment, OpenWebSocket,
    TokenRefused, BackoffEnds, ConnectSettled, OnClose, WatchdogFires, StreamEnds, StdoutStep,
    Tick, ServerAnswers, ServerTails, ServerSends, ServerPings, LinkFails, OnMessage
<1>3. QED
  BY <1>1, <1>2

\* What the client never changes, or in one of its steps only.
LEMMA ClientChanges ==
  ClientMoves => /\ req' = req /\ callAborted' = callAborted
                 /\ snap' = snap \/ (download = "asked" /\ snap' = Len(log))
                 /\ gate' = gate \/ \E line : gate' = GateAfter(gate, line, MaxSkip)
                 /\ BufferLine \/ GateLine \/ (covers' = covers /\ decided' = decided)
                 /\ phase = "closed" => phase' = "closed" /\ thrown' = thrown
  BY DEF ClientMoves, ClientContinues, ClientEvent, DownloadProceeds, DownloadDone, LiveEnds,
      HistoryReady, ServeRecord, Close, GateDrops, BufferLine, AskForLine, RelayLine,
      DownloadLost, GateEnds, GateDeadline, GateGivesUp, HistoryBreaks, Served, GateLine,
      QuiescenceFires, CapFires, Terminate, clientVars, Taken

\* The fields of the client.
LEMMA ClientKeepsTypes ==
  ASSUME FlagsTyped, ClientTyped, ClientMoves PROVE ClientTyped'
<1>1. log' = log /\ req' = req
  BY ClientHandsOff, HandsOffLog, ClientChanges
<1>2. snap' \in 0..Len(log')
  BY <1>1, ClientChanges DEF ClientTyped, FlagsTyped
<1>3. gate' \in [open : BOOLEAN, skipped : 0..MaxSkip]
  BY Gated, ClientChanges DEF ClientTyped
<1>4. /\ phase' \in {"collect", "buffer", "gate", "serve", "relay", "closing", "closed"}
      /\ download' \in {"off", "asked", "body", "done", "failed", "aborted"}
      /\ caller' \in {"ready", "busy"}
  BY DEF ClientTyped, ClientMoves, ClientContinues, ClientEvent, DownloadProceeds, DownloadDone, LiveEnds,
      HistoryReady, ServeRecord, Close, GateDrops, BufferLine, AskForLine, RelayLine,
      DownloadLost, GateEnds, GateDeadline, GateGivesUp, HistoryBreaks, Served, GateLine,
      QuiescenceFires, CapFires, Terminate, clientVars,
      ServeNext, Finish, Yield
<1>5. thrown' \in BOOLEAN
  BY DEF ClientTyped, ClientMoves, ClientContinues, ClientEvent, DownloadProceeds, DownloadDone, LiveEnds,
      HistoryReady, ServeRecord, Close, GateDrops, BufferLine, AskForLine, RelayLine,
      DownloadLost, GateEnds, GateDeadline, GateGivesUp, HistoryBreaks, Served, GateLine,
      QuiescenceFires, CapFires, Terminate, clientVars,
      Finish
<1>6. covers' \in BOOLEAN /\ decided' \in BOOLEAN
  <2>1. CASE BufferLine
    BY <2>1 DEF ClientTyped, BufferLine
  <2>2. CASE GateLine
    <3>1. decided' = decided
      BY <2>2 DEF GateLine
    <3>2. covers' = covers \/ covers' = (TimeOf(slot[1]) > 0)
      BY <2>2 DEF GateLine
    <3>3. (TimeOf(slot[1]) > 0) \in BOOLEAN
      OBVIOUS
    <3>4. QED
      BY <3>1, <3>2, <3>3 DEF ClientTyped
  <2>3. QED
    BY <2>1, <2>2, ClientChanges DEF ClientTyped
<1>7. callAborted' \in BOOLEAN
  BY ClientChanges DEF ClientTyped
<1>8. QED
  BY <1>1, <1>2, <1>3, <1>4, <1>5, <1>6, <1>7 DEF ClientTyped

\* A whole download is served as it came, and in its order.
LEMMA ClientKeepsWholeLog ==
  ASSUME FlagsTyped, ClientTyped, WholeLog, ClientMoves PROVE WholeLog'
<1>1. req' = req /\ log' = log
  BY ClientHandsOff, HandsOffLog, ClientChanges
<1> SUFFICES ASSUME req.mode = "history" PROVE WholeLog'
  BY <1>1 DEF WholeLog
<1>2. /\ ~req.follow /\ ~covers
      /\ out \in Seq(Text) /\ shown \in Seq(Text)
      /\ phase \in {"collect", "serve", "closing", "closed"}
      /\ phase = "collect" => shown = <<>>
      /\ phase = "serve" => download # "asked" /\ shown \o out = History
      /\ phase \in {"closing", "closed"} /\ ~thrown => download = "done" /\ shown = History
  BY DEF WholeLog
<1>3. History' = History \/ download = "asked"
  BY <1>1, ClientChanges, HistoryStays
<1>4. ~req'.follow /\ ~covers'
  <2>1. ~BufferLine /\ ~GateLine
    BY <1>2 DEF BufferLine, GateLine
  <2>2. QED
    BY <1>1, <1>2, <2>1, ClientChanges DEF ClientTyped
<1>5. CASE DownloadProceeds
  <2>1. UNCHANGED <<out, shown, phase, thrown>>
    BY <1>5 DEF DownloadProceeds
  <2>2. download' # "asked" /\ download # "done"
    BY <1>5 DEF DownloadProceeds
  <2>3. QED
    BY <1>4, <1>1, <1>2, <1>3, <2>1, <2>2 DEF WholeLog
<1>6. CASE HistoryReady
  <2>1. /\ phase = "collect" /\ phase' = "serve" /\ out' = History
        /\ UNCHANGED <<shown, download, thrown>> /\ download # "asked"
    BY <1>6 DEF HistoryReady, ServeNext
  <2>2. History \in Seq(Text) /\ History' = History
    BY <1>3, <2>1, HistoryIsText
  <2>3. shown \o out' = History
    BY <1>2, <2>1, <2>2
  <2>4. QED
    BY <1>4, <1>1, <1>2, <2>1, <2>2, <2>3 DEF WholeLog
<1>7. CASE ServeRecord
  <2>1. /\ phase = "serve" /\ out # <<>> /\ out' = Tail(out) /\ shown' = Append(shown, Head(out))
        /\ UNCHANGED <<phase, download, thrown>>
    BY <1>7 DEF ServeRecord, Yield
  <2>2. /\ Tail(out) \in Seq(Text) /\ Append(shown, Head(out)) \in Seq(Text)
        /\ Append(shown, Head(out)) \o Tail(out) = shown \o out
    BY <1>2, <2>1
  <2>3. QED
    BY <1>4, <1>1, <1>2, <1>3, <2>1, <2>2 DEF WholeLog
<1>8. CASE Served
  <2>1. /\ phase = "serve" /\ out = <<>> /\ download = "done"
        /\ UNCHANGED <<out, shown, download>>
        /\ phase' = "closing" /\ thrown' = FALSE
    BY <1>2, <1>8 DEF Served, Finish
  <2>2. shown = History
    BY <1>2, <2>1
  <2>3. QED
    BY <1>4, <1>1, <1>2, <1>3, <2>1, <2>2 DEF WholeLog
<1>9. CASE HistoryBreaks \/ DownloadLost
  <2>1. phase' = "closing" /\ thrown' = TRUE /\ shown' = shown /\ out' \in {out, <<>>}
    BY <1>2, <1>9 DEF HistoryBreaks, DownloadLost, Finish
  <2>2. <<>> \in Seq(Text)
    OBVIOUS
  <2>3. QED
    BY <1>4, <1>1, <1>2, <2>1, <2>2 DEF WholeLog
<1>10. CASE Close
  <2>1. /\ phase = "closing" /\ phase' = "closed" /\ UNCHANGED <<out, shown, thrown>>
        /\ download = "done" => download' = "done"
    BY <1>10 DEF Close
  <2>2. QED
    BY <1>4, <1>1, <1>2, <1>3, <2>1 DEF WholeLog
<1>11. CASE GateDrops \/ QuiescenceFires \/ CapFires \/ AskForLine
  <2>1. UNCHANGED <<out, shown, phase, thrown, download>>
    BY <1>11 DEF GateDrops, QuiescenceFires, CapFires, Terminate, AskForLine, clientVars
  <2>2. QED
    BY <1>4, <1>1, <1>2, <1>3, <2>1 DEF WholeLog
<1>12. ~(RelayLine \/ BufferLine \/ DownloadDone \/ LiveEnds \/ GateLine \/ GateEnds \/ GateDeadline)
  BY <1>2 DEF RelayLine, BufferLine, DownloadDone, LiveEnds, GateLine, GateEnds, GateDeadline,
    GateGivesUp
<1>13. QED
  BY <1>5, <1>6, <1>7, <1>8, <1>9, <1>10, <1>11, <1>12
  DEF ClientMoves, ClientContinues, ClientEvent

\* The client never takes back what the exit code says.
LEMMA ClientKeepsEnded ==
  ASSUME Ended, ClientMoves, UNCHANGED cliVars PROVE Ended'
  BY ClientChanges DEF Ended, cliVars

-----------------------------------------------------------------------------
(* Every step of the run.                                                    *)
LEMMA ClientStep ==
  ASSUME IInv, ClientMoves, UNCHANGED cliVars PROVE IInv'
  BY ClientHandsOff, HandsOffSocket, ClientKeepsTypes, ClientKeepsWholeLog, ClientKeepsEnded
  DEF IInv, SocketIInv

LEMMA SocketStep ==
  ASSUME IInv, SocketMoves, UNCHANGED <<clientVars, cliVars>> PROVE IInv'
<1>1. SocketIInv'
  BY MoveKeepsSocket DEF IInv
<1>2. log' = log \/ \E l \in Nat : log' = Append(log, l)
  BY MoveGrowsLog DEF IInv, SocketIInv
<1>3. FlagsTyped /\ ClientTyped /\ WholeLog /\ Ended
  BY DEF IInv, SocketIInv
<1>4. History' = History /\ snap' \in 0..Len(log')
  BY <1>2, <1>3, HistoryStays DEF clientVars
<1>5. ClientTyped'
  BY <1>3, <1>4 DEF ClientTyped, clientVars
<1>6. WholeLog'
  BY <1>3, <1>4 DEF WholeLog, clientVars
<1>7. Ended'
  BY <1>3 DEF Ended, clientVars, cliVars
<1>8. QED
  BY <1>1, <1>5, <1>6, <1>7 DEF IInv

LEMMA StoppedStep == ASSUME IInv, Stopped PROVE IInv'
<1>1. /\ callAborted' = TRUE /\ CallAborted /\ caller' = "ready" /\ exit = Running
      /\ UNCHANGED <<flags, exit>>
      /\ cleanStop' \in BOOLEAN /\ stdoutError' \in BOOLEAN /\ (cleanStop' \/ stdoutError')
  BY DEF Stopped, CallAborted, IInv, Ended
<1>2. SocketIInv' /\ log' = log
  BY <1>1, CallAbortedHandsOff, HandsOffSocket, HandsOffLog DEF IInv
<1>3. /\ UNCHANGED <<req, phase, gate, snap, covers, decided, out, thrown, shown>>
      /\ download' \in {download, "aborted"}
      /\ download = "done" => download' = "done"
      /\ download # "asked" => download' # "asked"
  BY <1>1 DEF CallAborted
<1>4. FlagsTyped /\ ClientTyped /\ WholeLog
  BY DEF IInv, SocketIInv
<1>5. History' = History /\ snap' \in 0..Len(log')
  BY <1>2, <1>3, <1>4, HistoryStays
<1>6. ClientTyped'
  BY <1>1, <1>3, <1>4, <1>5 DEF ClientTyped
<1>7. WholeLog'
  BY <1>3, <1>4, <1>5 DEF WholeLog
<1>8. Ended'
  BY <1>1 DEF Ended, Running, ExitSuccess, ExitFailure, ExitUsage
<1>9. QED
  BY <1>2, <1>6, <1>7, <1>8 DEF IInv

LEMMA OutputStep == ASSUME IInv, Drained \/ Exit PROVE IInv'
<1>1. /\ UNCHANGED sockVars /\ caller' \in {caller, "ready"}
      /\ UNCHANGED <<req, phase, gate, download, snap, covers, decided, out, thrown, callAborted,
                     shown, cleanStop, stdoutError>>
  BY DEF Drained, Exit, clientVars, cliVars
<1>2. SocketIInv' /\ log' = log
  BY <1>1, SockStill, HandsOffSocket, HandsOffLog DEF IInv
<1>3. FlagsTyped /\ ClientTyped /\ WholeLog /\ Ended
  BY DEF IInv, SocketIInv
<1>4. History' = History /\ snap' \in 0..Len(log')
  BY <1>1, <1>2, <1>3, HistoryStays
<1>5. ClientTyped'
  BY <1>1, <1>3, <1>4 DEF ClientTyped
<1>6. WholeLog'
  BY <1>1, <1>3, <1>4 DEF WholeLog
<1>7. Ended'
  <2>1. CASE Drained
    BY <1>1, <1>3, <2>1 DEF Drained, cliVars, Ended
  <2>2. CASE Exit
    BY <1>1, <1>3, <2>2 DEF Exit, Ended, Running, ExitSuccess, ExitFailure, ExitUsage
  <2>3. QED
    BY <2>1, <2>2
<1>8. QED
  BY <1>2, <1>5, <1>6, <1>7 DEF IInv

LEMMA StillStep == ASSUME IInv, UNCHANGED vars PROVE IInv'
<1>1. UNCHANGED <<sockVars, clientVars, cliVars>>
  BY DEF vars
<1>2. SocketIInv' /\ log' = log
  BY <1>1, SockStill, HandsOffSocket, HandsOffLog DEF IInv
<1>3. FlagsTyped /\ ClientTyped /\ WholeLog /\ Ended
  BY DEF IInv, SocketIInv
<1>4. History' = History /\ snap' \in 0..Len(log')
  BY <1>1, <1>2, <1>3, HistoryStays DEF clientVars
<1>5. ClientTyped' /\ WholeLog' /\ Ended'
  BY <1>1, <1>3, <1>4 DEF ClientTyped, WholeLog, Ended, clientVars, cliVars
<1>6. QED
  BY <1>2, <1>5 DEF IInv

LEMMA IInvKept == IInv /\ [Next]_vars => IInv'
<1> SUFFICES ASSUME IInv, [Next]_vars PROVE IInv'
  OBVIOUS
<1>1. CASE turn > 0 /\ OnMessage /\ UNCHANGED <<clientVars, cliVars>>
  BY <1>1, SocketStep DEF SocketMoves, SocketEvent
<1>2. CASE SocketContinues /\ UNCHANGED <<clientVars, cliVars>>
  BY <1>2, SocketStep DEF SocketMoves
<1>3. CASE ClientContinues /\ UNCHANGED cliVars
  BY <1>3, ClientStep DEF ClientMoves
<1>4. CASE SocketEvent /\ UNCHANGED <<clientVars, cliVars>>
  BY <1>4, SocketStep DEF SocketMoves
<1>5. CASE ClientEvent /\ UNCHANGED cliVars
  BY <1>5, ClientStep DEF ClientMoves
<1>6. CASE Idle /\ (Environment \/ PingComes) /\ UNCHANGED <<clientVars, cliVars>>
  BY <1>6, SocketStep DEF SocketMoves, Idle, PingComes
<1>7. CASE TimePasses /\ UNCHANGED <<clientVars, cliVars>>
  BY <1>7, SocketStep DEF SocketMoves, TimePasses
<1>8. CASE Stopped
  BY <1>8, StoppedStep
<1>9. CASE Drained \/ Exit
  BY <1>9, OutputStep
<1>10. CASE UNCHANGED vars
  BY <1>10, StillStep
<1>11. QED
  BY <1>1, <1>2, <1>3, <1>4, <1>5, <1>6, <1>7, <1>8, <1>9, <1>10 DEF Next

LEMMA IInvBegins == Init => IInv
<1> SUFFICES ASSUME Init PROVE IInv
  OBVIOUS
<1>1. PICK scene \in Scenes :
        /\ flags = scene.flags
        /\ ClientInit(DeriveRequest(flags), DeriveCredentials(flags), scene.log)
  BY DEF Init
<1>2. scene.log \in Seq(Nat) /\ flags.lines \in Nat
  BY <1>1, ScenesAssumption
<1>3. SocketInit(scene.log, Live(req), DeriveCredentials(flags) # "token") /\ req = DeriveRequest(flags)
  BY <1>1 DEF ClientInit
<1>4. <<>> \in Text /\ <<>> \in Seq(Frames) /\ <<>> \in Seq(Text) /\ Len(<<>>) = 0
  BY DEF Text
<1>5. FlagsTyped
  <2>1. log = scene.log /\ wall = 2 /\ refreshable = (DeriveCredentials(flags) # "token")
    BY <1>3 DEF SocketInit
  <2>2. refreshable \in BOOLEAN
    BY <2>1
  <2>3. conns \in 0..MaxConns /\ wall \in 1..MaxWall
    BY <1>3, SocketAssumption DEF SocketInit
  <2>4. QED
    BY <1>2, <1>3, <2>1, <2>2, <2>3 DEF SocketInit, FlagsTyped
<1>6. WireTyped /\ OutputTyped
  BY <1>3, <1>4, SocketAssumption DEF SocketInit, WireTyped, OutputTyped
<1>7. SocketsClosed /\ Protocol /\ NothingUnheard
  BY <1>3, <1>4 DEF SocketInit, SocketsClosed, Protocol, NothingUnheard
<1>8. req.quantity \in Nat /\ (req.mode = "history" => ~req.follow)
  BY <1>2, <1>3 DEF DeriveRequest
<1>9. ClientTyped
  <2>1. MaxSkip \in Nat /\ Len(log) \in Nat
    BY <1>5, SkipAssumption DEF FlagsTyped
  <2>2. gate \in [open : BOOLEAN, skipped : 0..MaxSkip] /\ snap \in 0..Len(log)
    BY <1>1, <2>1 DEF ClientInit
  <2>3. decided \in BOOLEAN
    BY <1>1 DEF ClientInit
  <2>4. phase \in {"collect", "buffer", "relay"} /\ download \in {"off", "asked"}
    BY <1>1 DEF ClientInit
  <2>5. QED
    BY <1>1, <1>8, <2>2, <2>3, <2>4 DEF ClientInit, ClientTyped
<1>10. WholeLog
  BY <1>1, <1>4, <1>8 DEF ClientInit, WholeLog
<1>11. Ended
  <2>1. exit \in {Running, ExitFailure, ExitUsage}
    BY DEF Init
  <2>2. ~callAborted /\ cleanStop \in BOOLEAN /\ stdoutError \in BOOLEAN
    BY <1>1 DEF Init, ClientInit
  <2>3. QED
    BY <2>1, <2>2 DEF Ended, Running, ExitSuccess, ExitFailure, ExitUsage
<1>12. QED
  BY <1>5, <1>6, <1>7, <1>9, <1>10, <1>11 DEF IInv, SocketIInv

\* The invariant of the run (cli-run.ts on client.ts and socket.ts): types, no
\* WebSocket open behind a loop that is over or an abort, no text of the log
\* before there is a listener for it, and no truncated download taken for the
\* whole log.
THEOREM RunCorrect == Spec => []LogInv
<1>1. Spec => []IInv
  BY IInvBegins, IInvKept, PTL DEF Spec
<1>2. QED
  BY <1>1, IInvGivesLogInv, PTL
=============================================================================
