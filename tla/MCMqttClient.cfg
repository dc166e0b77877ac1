CONSTANTS
  h1 = h1
  h2 = h2
  h3 = h3
  Topics = {t1, t2}
  Handlers = {h1, h2, h3}
  Kind <- MCKind
  Signals = {s1}
  None = None
  Publishes = {p1}
  Setters = {i1}
  Reuse = FALSE
SPECIFICATION Spec
INVARIANTS MqttInv
PROPERTIES NothingStartsAfterAbort ImplementsTopicSubscriptions
CHECK_DEADLOCK FALSE
