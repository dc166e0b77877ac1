----------------------------- MODULE MqttClient -----------------------------
(***************************************************************************)
(* The MQTT client of src/src/mqttClient.ts over mqtt.js.  Calls on the    *)
(* client may come from anywhere, from inside a handler that a message is  *)
(* being dispatched to as well; events of the library and of timers come   *)
(* between turns only.                                                     *)
(***************************************************************************)
EXTENDS Integers, Sequences, FiniteSets, SequencesExt

CONSTANTS
  Topics,
  Handlers,   \* handler functions
  Kind,       \* handler -> raw, get or set: made by which subscribe call
  Signals,    \* per-subscription signals
  None,       \* no signal, no handler
  Publishes,  \* the publish() calls
  Setters,    \* invocations of set handlers
  Reuse       \* may one function be subscribed more than once?

ASSUME MqttAssumption ==
  /\ Kind \in [Handlers -> {"raw", "get", "set"}]
  /\ None \notin Signals \cup Handlers /\ Reuse \in BOOLEAN

VARIABLES
  aborted,  \* this.signal
  link,     \* mqtt.js: connecting, up, down or ended
  wanted,   \* mqtt.js: the topics it keeps subscribed across reconnects
  subs,     \* #subscriptions: topic -> its handlers in order; <<>>: no entry
  hooks,    \* abort listeners in place, one per subscribe() with a signal
  fired,    \* the signals that have aborted
  rest,     \* what is left of the snapshot of the dispatch under way
  running,  \* the handler that is running, or None
  payload,  \* does the message say "true"?
  outcome,  \* the promise of each publish()
  setter,   \* the state of each set-handler invocation
  regs      \* history: subscriptions nothing should have ended

tableVars == <<wanted, subs, hooks, regs>>
passVars == <<rest, running, payload>>
vars == <<aborted, link, tableVars, fired, passVars, outcome, setter>>

Registration == [topic : Topics, handler : Handlers, signal : Signals \cup {None}]
Hook == {r \in Registration : r.signal # None}

Elements(q) == {q[i] : i \in DOMAIN q}

TypeOK ==
  /\ aborted \in BOOLEAN
  /\ link \in {"connecting", "up", "down", "ended"}
  /\ wanted \subseteq Topics
  /\ subs \in [Topics -> Seq(Handlers)]
  /\ hooks \subseteq Hook
  /\ fired \subseteq Signals
  /\ rest \in Seq(Handlers)
  /\ running \in Handlers \cup {None}
  /\ payload \in BOOLEAN
  /\ outcome \in [Publishes -> {"none", "pending", "resolved", "failed", "aborted"}]
  /\ setter \in [Setters -> {"none", "running", "late", "done", "warned", "error"}]
  /\ regs \subseteq Registration

\* The constructor; a parent signal aborted before it tears the client down
\* at once.
Init ==
  /\ aborted \in BOOLEAN
  /\ link = IF aborted THEN "ended" ELSE "connecting"
  /\ wanted = {} /\ hooks = {} /\ fired = {} /\ regs = {}
  /\ subs = [t \in Topics |-> <<>>]
  /\ rest = <<>> /\ running = None /\ payload = FALSE
  /\ outcome = [p \in Publishes |-> "none"]
  /\ setter = [i \in Setters |-> "none"]

\* No dispatch is under way.
Free == running = None

-----------------------------------------------------------------------------
(* The table of subscriptions. *)

\* mqtt.js subscribes and unsubscribes until end().
WireSubscribe(t) == wanted' = IF link = "ended" THEN wanted ELSE wanted \cup {t}
WireUnsubscribe(T) == wanted' = IF link = "ended" THEN wanted ELSE wanted \ T

\* subscribe(), and what subscribeGet() and subscribeSet() come down to.
Subscribe(t, h, s) ==
  /\ ~aborted /\ s \notin fired
  /\ Reuse \/ \A r \in regs \cup hooks : r.handler # h
  /\ Reuse \/ \A u \in Topics : h \notin Elements(subs[u])
  /\ IF subs[t] = <<>> THEN WireSubscribe(t) ELSE UNCHANGED wanted
  /\ subs' = IF h \in Elements(subs[t]) THEN subs
             ELSE [subs EXCEPT ![t] = Append(@, h)]
  /\ LET r == [topic |-> t, handler |-> h, signal |-> s]
     IN  /\ hooks' = IF s = None THEN hooks ELSE hooks \cup {r}
         /\ regs' = regs \cup {r}
  /\ UNCHANGED <<aborted, link, fired, passVars, outcome, setter>>

\* The handlers in q that are not in gone, in their order.
Without(q, gone) ==
  LET kept[i \in 0..Len(q)] ==
        IF i = 0 THEN <<>>
        ELSE IF q[i] \in gone THEN kept[i - 1] ELSE Append(kept[i - 1], q[i])
  IN kept[Len(q)]

\* The handlers the hooks R registered for topic t.
Registered(R, t) == {r.handler : r \in {q \in R : q.topic = t}}

\* A bug: the topic is dropped on the wire with any of its handlers.
RemovalsDropTopic(R) ==
  /\ subs' = [t \in Topics |-> Without(subs[t], Registered(R, t))]
  /\ WireUnsubscribe({r.topic : r \in R})

\* #removeHandler for the hooks R of one signal.
RemoveHandlers(R) ==
  /\ subs' = [t \in Topics |-> Without(subs[t], Registered(R, t))]
  /\ WireUnsubscribe({t \in Topics : subs[t] # <<>> /\ subs'[t] = <<>>})

\* A per-subscription signal aborts; its listeners run in the same turn.
SignalAborts(s) ==
  /\ s \notin fired
  /\ fired' = fired \cup {s}
  /\ RemoveHandlers({r \in hooks : r.signal = s})
  /\ hooks' = {r \in hooks : r.signal # s}
  /\ regs' = {r \in regs : r.signal # s}
  /\ UNCHANGED <<aborted, link, passVars, outcome, setter>>

\* unsubscribe(): the topic's entry goes, the hooks of its handlers stay.
Unsubscribe(t) ==
  /\ ~aborted
  /\ subs' = [subs EXCEPT ![t] = <<>>]
  /\ WireUnsubscribe({t})
  /\ regs' = {r \in regs : r.topic # t}
  /\ UNCHANGED <<aborted, link, hooks, fired, passVars, outcome, setter>>

\* abort(), asyncDispose or the parent signal: #teardown, and the waits of all
\* publishes.  The hooks of all subscriptions fire too and find nothing.
Abort ==
  /\ ~aborted
  /\ aborted' = TRUE
  /\ link' = "ended"
  /\ subs' = [t \in Topics |-> <<>>]
  /\ hooks' = {} /\ regs' = {}
  /\ outcome' = [p \in Publishes |-> IF outcome[p] = "pending" THEN "aborted"
                                     ELSE outcome[p]]
  /\ UNCHANGED <<wanted, fired, passVars, setter>>

-----------------------------------------------------------------------------
(* publish() and the events of mqtt.js. *)

\* A bug: publish() does not look at its signal first.
HandOverBlindly(p) ==
  outcome' = [outcome EXCEPT ![p] = "pending"]

\* publish() throws on an aborted signal; mqtt.js refuses after end().
HandOver(p) ==
  outcome' = [outcome EXCEPT ![p] =
                CASE aborted                     -> "aborted"
                  [] ~aborted /\ link = "ended"  -> "failed"
                  [] OTHER                       -> "pending"]

\* publish(), whose own signal may have aborted before.
Publish(p) ==
  /\ outcome[p] = "none"
  /\ HandOver(p) \/ outcome' = [outcome EXCEPT ![p] = "aborted"]
  /\ UNCHANGED <<aborted, link, tableVars, fired, passVars, setter>>

\* The signal of one publish() aborts.
PublishAborts(p) ==
  /\ outcome[p] = "pending"
  /\ outcome' = [outcome EXCEPT ![p] = "aborted"]
  /\ UNCHANGED <<aborted, link, tableVars, fired, passVars, setter>>

\* The library's callback, with or without an error.
PublishReturns(p) ==
  /\ Free /\ outcome[p] = "pending"
  /\ \/ link = "up" /\ outcome' = [outcome EXCEPT ![p] = "resolved"]
     \/ outcome' = [outcome EXCEPT ![p] = "failed"]
  /\ UNCHANGED <<aborted, link, tableVars, fired, passVars, setter>>

Connect ==
  /\ Free /\ link \in {"connecting", "down"}
  /\ link' = "up"
  /\ UNCHANGED <<aborted, tableVars, fired, passVars, outcome, setter>>

Disconnect ==
  /\ Free /\ link = "up"
  /\ link' = "down"
  /\ UNCHANGED <<aborted, tableVars, fired, passVars, outcome, setter>>

\* "error" with ENOTFOUND ends the transport; every other error is logged.
HostNotFound ==
  /\ Free /\ link \in {"connecting", "down"}
  /\ link' = "ended"
  /\ UNCHANGED <<aborted, tableVars, fired, passVars, outcome, setter>>

-----------------------------------------------------------------------------
(* Dispatch. *)

\* A bug: a handler that was removed in the meantime is skipped.
StillSubscribed(q) ==
  Without(q, Handlers \ UNION {Elements(subs'[t]) : t \in Topics})

\* The snapshot is walked to its end.
Remaining(q) == q

\* A bug: the setter is called without a look at the signal.
StartsAnyhow(i) == setter' = [setter EXCEPT ![i] = "running"]

\* runWithAbort calls the setter unless the signal has aborted already.
StartSetter(i) ==
  setter' = [setter EXCEPT ![i] = IF aborted THEN "warned" ELSE "running"]

\* The call of handler h for a message: a raw handler runs, a get handler
\* publishes if the message says "true" and its getter does not throw, a set
\* handler starts an invocation.
Invoke(h, message) ==
  CASE Kind[h] = "raw" -> UNCHANGED <<outcome, setter>>
    [] Kind[h] = "get" ->
         /\ \/ message /\ \E p \in Publishes : outcome[p] = "none" /\ HandOver(p)
            \/ UNCHANGED outcome
         /\ UNCHANGED setter
    [] Kind[h] = "set" ->
         /\ \E i \in Setters : setter[i] = "none" /\ StartSetter(i)
         /\ UNCHANGED outcome

\* "message": the snapshot is taken and its first handler called.
Message(t) ==
  /\ Free /\ link = "up" /\ t \in wanted /\ subs[t] # <<>>
  /\ payload' \in BOOLEAN
  /\ running' = subs[t][1]
  /\ rest' = Tail(subs[t])
  /\ Invoke(running', payload')
  /\ UNCHANGED <<aborted, link, tableVars, fired>>

\* The handler returns or throws; the next one of the snapshot is called.
HandlerReturns ==
  /\ ~Free
  /\ UNCHANGED <<aborted, link, tableVars, fired, payload>>
  /\ LET q == Remaining(rest)
     IN  IF q = <<>>
         THEN running' = None /\ rest' = <<>> /\ UNCHANGED <<outcome, setter>>
         ELSE running' = q[1] /\ rest' = Tail(q) /\ Invoke(q[1], payload)

-----------------------------------------------------------------------------
(* Set-handler invocations, which outlive the dispatch. *)

SetterTimesOut(i) ==
  /\ Free /\ setter[i] = "running"
  /\ setter' = [setter EXCEPT ![i] = "late"]
  /\ UNCHANGED <<aborted, link, tableVars, fired, passVars, outcome>>

\* A setter that throws under an aborted signal counts as cancelled; one that
\* returns counts as done whatever its signal says.
SetterEnds(i) ==
  /\ Free /\ setter[i] \in {"running", "late"}
  /\ \E how \in {"done", IF aborted \/ setter[i] = "late" THEN "warned" ELSE "error"} :
       setter' = [setter EXCEPT ![i] = how]
  /\ UNCHANGED <<aborted, link, tableVars, fired, passVars, outcome>>

Next ==
  \/ \E t \in Topics, h \in Handlers, s \in Signals \cup {None} : Subscribe(t, h, s)
  \/ \E s \in Signals : SignalAborts(s)
  \/ \E t \in Topics : Unsubscribe(t) \/ Message(t)
  \/ \E p \in Publishes : Publish(p) \/ PublishAborts(p) \/ PublishReturns(p)
  \/ \E i \in Setters : SetterTimesOut(i) \/ SetterEnds(i)
  \/ Abort \/ Connect \/ Disconnect \/ HostNotFound \/ HandlerReturns

Spec == Init /\ [][Next]_vars

-----------------------------------------------------------------------------
\* While the transport lives, mqtt.js keeps exactly the topics that have
\* handlers, each handler is listed once, and nothing outlives the client.
TableOnWire ==
  /\ link # "ended" => wanted = {t \in Topics : subs[t] # <<>>}
  /\ \A t \in Topics : IsInjective(subs[t])
  /\ aborted => /\ link = "ended"
                /\ \A t \in Topics : subs[t] = <<>>
                /\ \A p \in Publishes : outcome[p] # "pending"

\* The table holds the handlers of the subscriptions that stand, no more and
\* no less: "multiple subscribers to the same topic are independent"
\* (src/src/mqttClient.test.ts:873).
SubscriptionsStand ==
  \A t \in Topics :
    Elements(subs[t]) = Registered(regs, t)

\* A subscription with a signal that has not aborted has its hook in place,
\* and none stands under a signal that has.
HooksInPlace ==
  /\ \A r \in regs : r.signal # None => r \in hooks
  /\ \A r \in hooks : r.signal \notin fired

\* No function was handed in twice, the only case in which an abort listener
\* takes out what another subscription put in.
OneEach == \A r, q \in regs \cup hooks : r.handler = q.handler => r = q

\* A snapshot tells nobody twice and is dropped with the last one told.
SnapshotOnce ==
  /\ running = None => rest = <<>>
  /\ running \notin Elements(rest)
  /\ IsInjective(rest)

\* The table, the wire, the hooks, the dispatch and the contract agree.
MqttInv ==
  /\ TypeOK /\ TableOnWire /\ HooksInPlace /\ SnapshotOnce
  /\ Reuse \/ (OneEach /\ SubscriptionsStand)

\* No setter starts and no publish reaches the library once the client is
\* aborted, although the handlers left in a snapshot are still called.
NothingStartsAfterAbort ==
  [][aborted => /\ \A p \in Publishes : outcome'[p] = "pending" => outcome[p] = "pending"
                /\ \A i \in Setters : setter'[i] = "running" => setter[i] = "running"]_vars

\* Each message reaches those who stood subscribed when it came, once each.
Contract == INSTANCE TopicSubscriptions
              WITH Signals <- Signals \cup {None}, dead <- fired, open <- ~aborted,
                   due <- Elements(rest) \cup ({running} \ {None})

ImplementsTopicSubscriptions == Contract!Spec
=============================================================================
