---------------------------- MODULE TokenSignals ----------------------------
(***************************************************************************)
(* The entry and exit conditions of TokenMonitoringService, as functions   *)
(* of what getTokenMetrics returns.                                        *)
(*                                                                         *)
(* A JavaScript number that is the result of a division is a ratio n / d;  *)
(* d = 0 stands for Infinity (or NaN when n = 0), with which a range test  *)
(* fails.  Volumes are in hundredths of SOL, volumeCents in US cents, the  *)
(* percentage of the top holders in hundredths; the creator's, devHolding, *)
(* is a ratio.  A price is never 0.                                        *)
(***************************************************************************)
EXTENDS Integers

Zero == [n |-> 0, d |-> 1]

\* What JSON makes of an entry price: Infinity is written as null, which counts as 0.
StoredPrice(p) == IF p.d = 0 THEN Zero ELSE p

-----------------------------------------------------------------------------
\* buys / sells >= 3; when there are no sells, the buys alone (in units of `one').
IsHealthyRatio(buys, sells, one) == buys >= 3 * (IF sells = 0 THEN one ELSE sells)

HasValidMarketCap(m) ==
    /\ m.marketCap.d # 0
    /\ 6000 * m.marketCap.d <= m.marketCap.n /\ m.marketCap.n <= 8000 * m.marketCap.d

\* Mutant: a position of a thousand dollars is healthy.
HasSomeHolders(m) == m.totalHolders >= m.volumeCents \div 100000
HasHealthyHolderCount(m) == m.totalHolders >= m.volumeCents \div 1000

EntryConditions(m) ==
    /\ m.buys >= 10
    /\ IsHealthyRatio(m.buys, m.sells, 1)
    /\ IsHealthyRatio(m.buyVolume, m.sellVolume, 100)
    /\ HasValidMarketCap(m)
    /\ m.volumeCents >= 300000
    /\ m.age <= 300
    /\ m.topHolders <= 2000
    /\ HasHealthyHolderCount(m)

-----------------------------------------------------------------------------
\* priceChangePercent >= 45.  An entry price of 0 makes the percentage Infinity.
HasReachedProfitTarget(p, entry) == entry.d # 0 /\ 20 * p.n * entry.d >= 29 * entry.n * p.d

\* priceChangePercent <= -20
HasReachedStopLoss(p, entry) == entry.d # 0 /\ 5 * p.n * entry.d <= 4 * entry.n * p.d

ExitConditions(m, entry) ==
    \/ HasReachedProfitTarget(m.price, entry)
    \/ HasReachedStopLoss(m.price, entry)
    \/ m.sellImpact > 5
    \/ 2 * m.sells > 3 * m.buys
    \/ m.devHolding.n > 80 * m.devHolding.d
    \/ m.volumeCents < 5
=============================================================================
