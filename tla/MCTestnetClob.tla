--------------------------- MODULE MCTestnetClob ---------------------------
(***************************************************************************)
(* One market, one user, prices in sixths.  The market is deployed with    *)
(* two units of collateral; a tick asks for a larger size, or for one side *)
(* only: with its dead bid that quote is within the debounce of the first. *)
(***************************************************************************)
EXTENDS TestnetClob

CONSTANTS EngineFunds, UserFunds

MCInitialUSDC == [a \in Users \cup {Engine} |-> IF a = Engine THEN EngineFunds ELSE UserFunds]

MCFirstQuote == [bid |-> 2, ask |-> 4, size |-> 1]

MCSides == {[buy |-> 2, sell |-> 4, size |-> 2], [buy |-> None, sell |-> 5, size |-> 1]}
=============================================================================
