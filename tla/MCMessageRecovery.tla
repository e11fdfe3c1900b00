-------------------------- MODULE MCMessageRecovery --------------------------
(* Small instances of MessageRecovery for TLC. *)
EXTENDS MessageRecovery

CONSTANTS k1, k2, d1, d2, t1, t2

AllUser == [d \in Digests |-> "user"]
UserAndSystem == [d \in Digests |-> IF d = d2 THEN "system" ELSE "user"]
Triggers == [d \in Digests |-> d = d1]

=============================================================================
