-------------------------- MODULE MCTokenMonitoring --------------------------
(***************************************************************************)
(* Small instances of TokenMonitoring.  The metrics sit at the boundaries  *)
(* of the conditions: just enough to enter, one cent short of it, a sale   *)
(* that moved the price too much, and a creator who holds too much.  The   *)
(* price stays the same, which keeps the instance small.                   *)
(***************************************************************************)
EXTENDS TokenMonitoring

Entering ==
    [buys |-> 12, sells |-> 4, buyVolume |-> 900, sellVolume |-> 300, volumeCents |-> 300000,
     marketCap |-> [n |-> 6000, d |-> 1], age |-> 300, topHolders |-> 2000, totalHolders |-> 300,
     price |-> [n |-> 3, d |-> 10], devHolding |-> [n |-> 80, d |-> 1], sellImpact |-> 5]

MCMetrics ==
    {Entering,
     [Entering EXCEPT !.volumeCents = 299999],
     [Entering EXCEPT !.sellImpact = 6, !.marketCap.n = 8001],
     [Entering EXCEPT !.devHolding.n = 81, !.topHolders = 8100]}
=============================================================================
