--------------------------- MODULE MCRiskGovernor ---------------------------
(***************************************************************************)
(* The governor with the keeper alone or with one web thread beside it.    *)
(* Limits are one to three, two days give one midnight, and two crashes let *)
(* a line be torn, another be written onto it, and that be replayed.        *)
(***************************************************************************)
EXTENDS RiskGovernor
=============================================================================
