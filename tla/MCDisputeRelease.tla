-------------------------- MODULE MCDisputeRelease --------------------------
(* A dispute in the window; one at its end, in a NegRisk market that        *)
(* market_data has no row of; one asked for in the window, disputed after.  *)
EXTENDS DisputeRelease

MCHistory ==
  << [cid |-> 1, negrisk |-> FALSE, asked |-> 1, at |-> 2],
     [cid |-> 2, negrisk |-> TRUE, asked |-> 2, at |-> 3],
     [cid |-> 1, negrisk |-> FALSE, asked |-> 3, at |-> 4] >>
MCCategoryOf == [c \in {1} |-> "politics"]
MCResolvedIn == [k \in {"politics", "other"} |-> 2]
=============================================================================
