------------------------------ MODULE PaperClob ------------------------------
(***************************************************************************)
(* The synthetic adapter of execution/paper.py: PaperClob over one          *)
(* SyntheticBook, whose random walk also sends the taker prints that fill   *)
(* the orders.                                                             *)
(*                                                                         *)
(* The orders, and placing and cancelling them, are those of PaperLive; no  *)
(* depth is ahead of a synthetic order.  The walk is left out: how many     *)
(* prints a step has, their sides and sizes, and which orders their prices  *)
(* reach are chosen.                                                       *)
(***************************************************************************)
EXTENDS PaperLive

\* A step sends up to two prints; batch holds those still to come.
taker_prints == {1..n : n \in 0..2}

SyntheticStep ==
  /\ batch' \in taker_prints
  /\ full' = {}
  /\ UNCHANGED <<market, last_ts, orders, reads>>

\* What a print of this size fills of order o: every order that it reaches is compared
\* with the whole of it.
Taken(o, size) == Smaller(o.size, size)

PaperFill(o, size) ==
  [o EXCEPT !.size = @ - Taken(o, size), !.volume = @ + size, !.filled = @ + Taken(o, size)]

\* The next print fills the orders hit, and drops those it fills entirely.
TakerPrint(size, hit) ==
  LET after == {PaperFill(o, size) : o \in hit}
  IN  /\ batch # {} /\ batch' = batch \ {Max(batch)}
      /\ orders' = (orders \ hit) \cup {o \in after : o.size # 0}
      /\ full' = full \cup {o \in after : o.size = 0}
      /\ UNCHANGED <<market, last_ts, reads>>
=============================================================================
