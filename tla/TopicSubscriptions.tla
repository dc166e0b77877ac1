------------------------- MODULE TopicSubscriptions -------------------------
(***************************************************************************)
(* What an MQTT client promises those who subscribe: a subscription stands *)
(* until its own signal aborts, its topic is unsubscribed or the client is *)
(* closed, and nothing else ends it; a message is told to everyone who     *)
(* stood subscribed to its topic when it arrived, once each, whatever they *)
(* do to the subscriptions while they are told.                            *)
(***************************************************************************)
CONSTANTS Topics, Handlers, Signals

VARIABLES
  regs,  \* standing subscriptions
  dead,  \* the signals that have aborted
  open,  \* is the client open?
  due    \* who must still be told of the message at hand

vars == <<regs, dead, open, due>>

Subscription == [topic : Topics, handler : Handlers, signal : Signals]

Told(t) == {r.handler : r \in {q \in regs : q.topic = t}}

Init == /\ regs = {} /\ dead = {} /\ due = {}
        /\ open \in BOOLEAN

Subscribe(r) == /\ open /\ r.signal \notin dead
                /\ regs' = regs \cup {r}
                /\ UNCHANGED <<dead, open, due>>

Unsubscribe(t) == /\ open
                  /\ regs' = {r \in regs : r.topic # t}
                  /\ UNCHANGED <<dead, open, due>>

SignalAborts(s) == /\ dead' = dead \cup {s}
                   /\ regs' = {r \in regs : r.signal # s}
                   /\ UNCHANGED <<open, due>>

Close == /\ open' = FALSE
         /\ regs' = {}
         /\ UNCHANGED <<dead, due>>

Message(t) == /\ open /\ due = {}
              /\ due' = Told(t)
              /\ UNCHANGED <<regs, dead, open>>

Tell(h) == /\ h \in due
           /\ due' = due \ {h}
           /\ UNCHANGED <<regs, dead, open>>

Next == \/ \E r \in Subscription : Subscribe(r)
        \/ \E t \in Topics : Unsubscribe(t) \/ Message(t)
        \/ \E s \in Signals : SignalAborts(s)
        \/ \E h \in Handlers : Tell(h)
        \/ Close

Spec == Init /\ [][Next]_vars
=============================================================================
