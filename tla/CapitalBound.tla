---------------------------- MODULE CapitalBound ----------------------------
(***************************************************************************)
(* What the live order path promises of one session (execution/clob.py,    *)
(* the comment on the reservation in place_order): whatever the exchange   *)
(* has taken from it adds up to no more than MAX_CAPITAL_USDC.             *)
(***************************************************************************)
EXTENDS Integers

CONSTANT Cap

VARIABLE exposure

Init == exposure = 0

Take == exposure' \in exposure..Cap

NewSession == exposure' = 0

Next == Take \/ NewSession

Spec == Init /\ [][Next]_exposure
=============================================================================
