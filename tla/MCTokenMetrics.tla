--------------------------- MODULE MCTokenMetrics ---------------------------
(***************************************************************************)
(* An instance of TokenMetrics for TLC.  The token has a supply of 100 and *)
(* lives through worlds at the boundaries of the conditions: all entry     *)
(* conditions met but that of the holders; a price 45% higher, with an     *)
(* account gone and one frozen; no trade, and a last transaction that      *)
(* moved nothing; and no curve and no transaction at all.                  *)
(***************************************************************************)
EXTENDS TokenMetrics

Entering ==
    [trades |-> [buys |-> 12, sells |-> 4, buyVolume |-> 990, sellVolume |-> 330],
     curve |-> [sol |-> 309, token |-> 1009], last |-> [sol |-> 30, token |-> 100],
     supply |-> 100, largest |-> 1 .. 20, balance |-> [a \in 1 .. 20 |-> 2],
     frozen |-> {}, creatorHolding |-> 80, age |-> 300, sellImpact |-> 5]

Risen ==
    [Entering EXCEPT !.last = [sol |-> 87, token |-> 200], !.curve.sol = 700, !.largest = 2 .. 4,
                     !.balance = [a \in 2 .. 20 |-> 2], !.frozen = {3}]

Untraded ==
    [Entering EXCEPT !.trades = None, !.last = [sol |-> 0, token |-> 0], !.largest = {1}]

Missing == [Entering EXCEPT !.curve = None, !.last = None]

MCFacts ==
    [entering |-> Entering, risen |-> Risen, untraded |-> Untraded, missing |-> Missing]
=============================================================================
