--------------------------- MODULE MCRealtimeSession ---------------------------
(* Instances of RealtimeSession for TLC. *)
EXTENDS RealtimeSession, TLC

CONSTANTS r1, r2, r3, i1, c1, s1, s2

SessionSymmetry == Permutations(Responses) \cup Permutations(Senders)

MCEventBytes ==
    [t \in EventTypes |-> IF t = "OutputAudio" THEN 2 ELSE 1]

LifecycleTraffic ==
    {"ack", "created", "done", "failed", "error", "malformed", "expiring",
     "relayFailed", "relayClosed", "closeAck", "eof", "recvError"}
OrderTraffic ==
    {"ack", "created", "item", "content", "itemDone", "contentDone", "output",
     "done", "failed", "speech", "relayFailed", "eof"}
CloseTraffic == {"ack", "created", "closeAck", "eof"}

ValidReasons == {"client_hangup"}
RefusedReasons == {"other"}

=============================================================================
