--------------------------- MODULE TimerRegistry ---------------------------
(***************************************************************************)
(* TimerRegistry of src/src/timer-registry.ts: keyed one-shots and         *)
(* intervals, anonymous one-shots, and one disposal for all.  The registry *)
(* and the timers that are really pending in the runtime are one record,   *)
(* and each operation a function on it, because a callback runs inside the *)
(* step that fires its timer and may call any operation.                   *)
(***************************************************************************)
EXTENDS Naturals

CONSTANTS
  Keys,
  MaxTimers,  \* bound: timers pending in the runtime at a time
  None

VARIABLE timers   \* the registry, and what the runtime has pending

Timer == [id : 1..MaxTimers, key : Keys \cup {None}, every : BOOLEAN]

RegistryTypeOK ==
  timers \in [keyed : [Keys -> Timer \cup {None}], anonymous : SUBSET Timer,
              pending : SUBSET Timer, disposed : BOOLEAN]

Empty == [keyed |-> [k \in Keys |-> None], anonymous |-> {}, pending |-> {},
          disposed |-> FALSE]

\* The runtime names a new timer.
Started(r, key, every) ==
  LET free == {i \in 1..MaxTimers : \A t \in r.pending : t.id # i}
  IN [id |-> CHOOSE i \in free : TRUE, key |-> key, every |-> every]

\* clear()
Clear(r, k) ==
  IF r.keyed[k] = None THEN r
  ELSE [r EXCEPT !.keyed[k] = None, !.pending = @ \ {r.keyed[k]}]

Keep(r, k, t) == [r EXCEPT !.keyed[k] = t, !.pending = @ \cup {t}]

\* setTimeout() and setInterval(): the newest registration of a key wins.
Register(r, k, every) ==
  IF r.disposed THEN r
  ELSE Keep(Clear(r, k), k, Started(Clear(r, k), k, every))

\* schedule()
Schedule(r) ==
  IF r.disposed THEN r
  ELSE LET t == Started(r, None, FALSE)
       IN [r EXCEPT !.anonymous = @ \cup {t}, !.pending = @ \cup {t}]

\* clearAll(): the registry stays armed.
ClearAll(r) == [Empty EXCEPT !.disposed = r.disposed,
                             !.pending = r.pending \ (r.anonymous \cup {r.keyed[k] : k \in Keys})]

\* dispose(), by hand or by the signal.
Retire(r) == ClearAll([r EXCEPT !.disposed = TRUE])

Operations ==
  [do : {"register"}, key : Keys, every : BOOLEAN] \cup [do : {"clear"}, key : Keys]
  \cup [do : {"schedule", "clearAll", "dispose", "nothing"}]

Perform(r, op) ==
  CASE op.do = "register" -> Register(r, op.key, op.every)
    [] op.do = "clear"    -> Clear(r, op.key)
    [] op.do = "schedule" -> Schedule(r)
    [] op.do = "clearAll" -> ClearAll(r)
    [] op.do = "dispose"  -> Retire(r)
    [] OTHER              -> r

\* The runtime has run a one-shot; an interval goes on.
Elapsed(r, t) == IF t.every THEN r ELSE [r EXCEPT !.pending = @ \ {t}]

\* The wrapper of a one-shot takes its own entry out.
Forget(r, t) ==
  IF t.every THEN r
  ELSE IF t.key = None THEN [r EXCEPT !.anonymous = @ \ {t}]
  ELSE [r EXCEPT !.keyed[t.key] = None]

\* A timer fires: its entry goes, then the callback runs.
Fired(r, t, op) == Perform(Forget(Elapsed(r, t), t), op)

\* The bound: no step starts a timer when MaxTimers are pending.
Room(r, op) == \/ op.do \notin {"register", "schedule"}
               \/ \E i \in 1..MaxTimers : \A t \in r.pending : t.id # i

Call(op) == /\ Room(timers, op)
            /\ timers' = Perform(timers, op)

Fire(t, op) == /\ t \in timers.pending
               /\ Room(Elapsed(timers, t), op)
               /\ timers' = Fired(timers, t, op)

-----------------------------------------------------------------------------
\* What the runtime has pending and what the registry can still cancel are
\* the same timers, each under its own key; a retired registry has none.
\* A timer outside the registry would fire after its owner is gone, or
\* beside a newer one of its key.
NoTimerEscapes ==
  /\ timers.pending = timers.anonymous \cup {timers.keyed[k] : k \in {j \in Keys : timers.keyed[j] # None}}
  /\ \A k \in Keys : timers.keyed[k] # None => timers.keyed[k].key = k
  /\ \A t \in timers.anonymous : t.key = None
  /\ timers.disposed => timers.pending = {}

RegistryInv == RegistryTypeOK /\ NoTimerEscapes
=============================================================================
