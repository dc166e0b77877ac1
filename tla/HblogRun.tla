-------------------------------- MODULE HblogRun --------------------------------
(* runHblog (logclient/cli-run.ts): the command line of the log client.  The   *)
(* flags become a request, a client is made and its stream written to stdout   *)
(* record by record; signals and errors of stdout abort the run; what comes of *)
(* it is the exit code.                                                        *)
EXTENDS LogClient

CONSTANT Scenes      \* the command lines considered, each with the log file it finds

ASSUME ScenesAssumption ==
  \A scene \in Scenes : scene.log \in Seq(Nat) /\ scene.flags.lines \in Nat

VARIABLES
  flags, cleanStop, stdoutError,
  exit                 \* the exit code, -1 while the program runs

cliVars == <<flags, cleanStop, stdoutError, exit>>
vars == <<sockVars, clientVars, cliVars>>

ExitSuccess == 0
ExitFailure == 1
ExitUsage == 2
Running == -1

(* loadConfigFile, and resolveConnection over the three sources: what a flag   *)
(* leaves out the environment fills in, and then the file, name by name.       *)
ConfigError(f) == f.config = "broken"
Connection(f) == f.flag \cup f.env \cup (IF f.config = "read" THEN f.file ELSE {})

(* The contradictions deriveWindow, deriveRequest and deriveCredentials report. *)
(* "lines" is 0 without -n, a time 0 without its flag.                         *)
UsageError(f) ==
  \/ f.since # 0 /\ f.until # 0 /\ f.since > f.until
  \/ f.all /\ f.lines # 0
  \/ (f.since # 0 \/ f.until # 0) /\ f.lines # 0
  \/ f.until # 0 /\ f.follow
  \/ Cardinality(Connection(f)) = 1 /\ "token" \notin Connection(f)

(* deriveCredentials: a token wins, wherever it comes from. *)
DeriveCredentials(f) ==
  IF "token" \in Connection(f) THEN "token" ELSE IF Connection(f) = {} THEN "noauth" ELSE "password"

DeriveRequest(f) ==
  [mode |-> IF f.since # 0 \/ f.until # 0 THEN "window"
            ELSE IF ~f.all /\ f.lines = 0 THEN "follow"
            ELSE IF f.follow THEN "follow-history" ELSE "history",
   quantity |-> IF f.all THEN 0 ELSE f.lines,
   follow |-> f.follow, since |-> f.since, until |-> f.until]

Init ==
  /\ cleanStop = FALSE /\ stdoutError = FALSE
  /\ \E scene \in Scenes :
       /\ flags = scene.flags
       /\ ClientInit(DeriveRequest(flags), DeriveCredentials(flags), scene.log)
  /\ exit = (CASE ConfigError(flags) -> ExitFailure
               [] ~ConfigError(flags) /\ UsageError(flags) -> ExitUsage
               [] OTHER -> Running)

TypeOK ==
  /\ SocketTypeOK /\ ClientTypeOK
  /\ exit \in {Running, ExitSuccess, ExitFailure, ExitUsage}
  /\ {cleanStop, stdoutError} \subseteq BOOLEAN

-------------------------------------------------------------------------------
\* A bug: the wait for "drain" does not listen to the abort.
StoppedUnheard ==
  /\ exit = Running
  /\ cleanStop' = TRUE /\ UNCHANGED stdoutError
  /\ ~callAborted /\ CallAborted
  /\ UNCHANGED <<caller, flags, exit>>

(* SIGINT or SIGTERM, a broken pipe, or another error of stdout.  An abort     *)
(* also releases a writer that waits for "drain".                              *)
Stopped ==
  /\ exit = Running
  /\ \/ cleanStop' = TRUE /\ UNCHANGED stdoutError
     \/ shown # <<>> /\ stdoutError' = TRUE /\ UNCHANGED cleanStop
  /\ ~callAborted /\ CallAborted
  /\ caller' = "ready"
  /\ UNCHANGED <<flags, exit>>

(* awaitWritable ends with the "drain" of stdout. *)
Drained ==
  /\ exit = Running /\ caller = "busy"
  /\ caller' = "ready"
  /\ UNCHANGED <<sockVars, req, phase, gate, download, snap, buffered, covers, decided, out, carried,
                 thrown, callAborted, shown, cliVars>>

(* The loop over the stream is over. *)
Exit ==
  /\ exit = Running /\ phase = "closed"
  /\ exit' = IF stdoutError \/ (thrown /\ ~cleanStop /\ ~callAborted) THEN ExitFailure
             ELSE ExitSuccess
  /\ UNCHANGED <<sockVars, clientVars, flags, cleanStop, stdoutError>>

(* One turn of the event loop at a time: the frames of a read, the promise     *)
(* continuations these cause, and only then the next event.                    *)
Idle == turn = 0 /\ ~SocketBusy /\ ~ClientBusy

(* Bounds: a ping is answered and a second connection followed in follow mode  *)
(* only, and the clock moves only when a deadline of the call is armed.        *)
Reconnects == req.mode = "follow" \/ conns' <= 1 \/ conns' = conns
PingComes == req.mode = "follow" /\ ServerPings
TimePasses == (phase = "gate" \/ (covers /\ ~req.follow)) /\ Tick

Next ==
  \/ turn > 0 /\ OnMessage /\ UNCHANGED <<clientVars, cliVars>>
  \/ SocketContinues /\ UNCHANGED <<clientVars, cliVars>>
  \/ turn = 0 /\ ClientContinues /\ UNCHANGED cliVars
  \/ exit = Running /\ Idle /\ SocketEvent /\ Reconnects /\ UNCHANGED <<clientVars, cliVars>>
  \/ exit = Running /\ Idle /\ ClientEvent /\ UNCHANGED cliVars
  \/ exit = Running /\ Idle /\ (Environment \/ PingComes) /\ UNCHANGED <<clientVars, cliVars>>
  \/ exit = Running /\ Idle /\ TimePasses /\ UNCHANGED <<clientVars, cliVars>>
  \/ Idle /\ (Stopped \/ Drained \/ Exit)

SocketTurn(A) == exit = Running /\ Idle /\ A /\ UNCHANGED <<clientVars, cliVars>>
ClientTurn(A) == exit = Running /\ Idle /\ A /\ UNCHANGED cliVars

(* Promise continuations and timers run, what has been read is handled, time   *)
(* passes, and a request ends, in an answer or a failure (the platform's fetch *)
(* times out).  Nothing is assumed of the server of the socket, the log, the   *)
(* user or whoever reads stdout.                                               *)
Fairness ==
  /\ WF_turn(turn > 0 /\ turn' = turn - 1)
  /\ WF_vars(SocketContinues /\ UNCHANGED <<clientVars, cliVars>>)
  /\ WF_vars(turn = 0 /\ ClientContinues /\ UNCHANGED cliVars)
  /\ WF_vars(SocketTurn(OpenWebSocket \/ TokenRefused)) /\ WF_vars(SocketTurn(BackoffEnds))
  /\ WF_wire(exit = Running /\ Idle /\ ws = "open" /\ wire # <<>> /\ wire' = Tail(wire))
  /\ WF_vars(SocketTurn(OnClose))
  /\ WF_vars(SocketTurn(WatchdogFires)) /\ WF_vars(SocketTurn(TimePasses))
  /\ WF_vars(ClientTurn(DownloadProceeds)) /\ WF_vars(ClientTurn(GateDeadline))
  /\ WF_vars(ClientTurn(CapFires))
  /\ WF_vars(Idle /\ Exit)

Spec == Init /\ [][Next]_vars
FairSpec == Spec /\ Fairness

-------------------------------------------------------------------------------
(* Where a line of the log stands in it; the lines of an entry logged twice    *)
(* cannot be told apart.                                                       *)
Distinct == \A i, j \in 1..Len(log) : i # j => log[i] # log[j]
At(line) == CHOOSE i \in 1..Len(log) : <<log[i]>> = line
Logged(line) == \E i \in 1..Len(log) : <<log[i]>> = line

(* A whole download ends the run well only when the user has all of it: a body *)
(* that breaks off is never taken for a complete log (#historyChannel).        *)
NoTruncatedSuccess ==
  exit = ExitSuccess /\ req.mode = "history" /\ ~cleanStop => shown = History

(* No text of the log arrives before #stream has installed the listener that   *)
(* reads it, though #connect resolves some promise turns before (socket.ts).   *)
NothingUnheard == ~deaf

(* The types, the connections and the two facts above. *)
LogInv == TypeOK /\ SocketsClosed /\ NothingUnheard /\ NoTruncatedSuccess

(* The line of the log that dates the i-th: itself or the last one before it   *)
(* that has a time, 0 without one.  To the client a line of the core has none. *)
Dates(i) ==
  LET dated == {j \in 1..i : TimeOf(<<log[j]>>) > 0} IN IF dated = {} THEN 0 ELSE Max(dated)

(* Is the line asked for?  A window asks for those its bounds hold, and what    *)
(* comes ahead of all dates is older than any bound.                           *)
AskedFor(i) ==
  req.mode = "window" =>
    IF Dates(i) = 0 THEN req.since = 0
    ELSE LET time == TimeOf(<<log[Dates(i)]>>)
         IN  time >= req.since /\ (UntilOf(req) = 0 \/ time <= UntilOf(req))

(* On one connection that never lost a line to the high-water mark, what is    *)
(* shown may repeat lines of the log and never skips one that is asked for,    *)
(* unless a gap marker says so, wherever the download, the seed and the live   *)
(* lines are joined.                                                           *)
(* (A seed that begins behind the end of the download cannot be joined.)       *)
NoHole ==
  Distinct /\ conns <= 1 /\ dropped = 0 /\ (seedFrom = 0 \/ snap = 0 \/ seedFrom <= snap + 1)
  => \A i \in 2..Len(shown) :
       Logged(shown[i - 1]) /\ Logged(shown[i]) =>
         \A skipped \in (At(shown[i - 1]) + 1)..(At(shown[i]) - 1) : ~AskedFor(skipped)

(* A window begins with the first line of the log that is asked for, be it     *)
(* read from the seed alone: the seed is used only when it reaches back behind *)
(* the beginning of the window (#windowRecords, #windowGatePhase2).            *)
WindowStartsRight ==
  Distinct /\ req.mode = "window" /\ shown # <<>> /\ conns <= 1 /\ dropped = 0
  => shown[1] = <<log[Min({i \in 1..Len(log) : AskedFor(i)})]>>

(* A run that is not to follow the log comes to an end, whatever the servers   *)
(* do, as long as its output is read: the gate has a deadline, the quiet wait  *)
(* a hard cap, and the download answers or fails.                              *)
OneShotEnds == []<>(caller = "ready") => (OneShot(req) ~> exit # Running)

(* A signal or an error of stdout ends the run from wherever it is: from a     *)
(* delay between two attempts, a handshake, a wait for the next line, and the  *)
(* wait for a reader of stdout that has stopped reading.                       *)
StopHonoured == callAborted ~> exit # Running

(* A run ends when it should: by itself if it is not to follow, and whenever   *)
(* it is told to.                                                              *)
RunsEnd == OneShotEnds /\ StopHonoured

(* A session whose server has fallen silent is given up, also when it falls    *)
(* silent before its first ping.                                               *)
WedgedSessionReplaced ==
  (loop = "streaming" /\ link = "wedged") ~> (loop # "streaming" \/ exit # Running)
===============================================================================
