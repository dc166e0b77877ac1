---------------------------- MODULE MCMqttClient ----------------------------
EXTENDS MqttClient, TLC

CONSTANTS h1, h2, h3

\* One handler of each kind.
MCKind == h1 :> "raw" @@ h2 :> "get" @@ h3 :> "set"
=============================================================================
