-------------------------- MODULE MCDeliveryDrive --------------------------
(* Two callers: the operator who repeats a full drive, and another that    *)
(* makes any of the calls below.                                           *)
EXTENDS DeliveryDrive

CONSTANTS operator, other, p1, p2

Unattended == [drive |-> TRUE, attended |-> FALSE, acts |-> {"publish"}]
EveryAct == [drive |-> FALSE, attended |-> TRUE, acts |-> Acts]
MCCalls == {Unattended, EveryAct}
============================================================================
