----------------------------- MODULE RealtimeStream -----------------------------
(***************************************************************************)
(* What a realtime session promises about its end (ARCHITECTURE.md, 5.4    *)
(* and 6.7): one initiator claims the terminal, the claim never changes    *)
(* hands, exactly one terminal event that agrees with the claim enters the *)
(* event stream and stays in it, and every claim leads to one.             *)
(***************************************************************************)
EXTENDS Naturals

CONSTANTS None, Initiators, TerminalTypes

VARIABLES owner,      \* who claimed the terminal
          terminals   \* how many terminal events of each type are in the stream

vars == <<owner, terminals>>

NoTerminal == [t \in TerminalTypes |-> 0]

Init == owner = None /\ terminals = NoTerminal

Agrees(initiator, type) ==
    /\ initiator = "client" => type = "SessionClosed"
    /\ initiator = "provider" => type = "SessionFailed"

Claim == owner = None /\ owner' \in Initiators /\ UNCHANGED terminals

Publish(type) ==
    /\ terminals = NoTerminal
    /\ owner' \in Initiators /\ (owner # None => owner' = owner)
    /\ Agrees(owner', type)
    /\ terminals' = [NoTerminal EXCEPT ![type] = 1]

Next == Claim \/ \E type \in TerminalTypes : Publish(type)

Safety == Init /\ [][Next]_vars

Spec ==
    /\ Safety
    /\ WF_vars(owner # None /\ \E type \in TerminalTypes : Publish(type))

=============================================================================
