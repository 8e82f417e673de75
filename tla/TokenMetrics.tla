---------------------------- MODULE TokenMetrics ----------------------------
(***************************************************************************)
(* TokenMetricsService.getTokenMetrics and the checks that use it, for one *)
(* token: checkEntryConditions, startPositionMonitoring and                *)
(* checkExitConditions of TokenMonitoringService.                          *)
(*                                                                         *)
(* The metrics are put together from a dozen answers, one await after the  *)
(* other, while the token is traded: `world' is what MongoDB and the RPC   *)
(* node would answer now, and a call keeps what they answered then.  Each  *)
(* of them may fail.  The price of SOL comes from module SolPrice, whose   *)
(* cache is shared with the checks of all other tokens.                    *)
(***************************************************************************)
EXTENDS TokenSignals, SolPrice, FiniteSets, FiniteSetsExt

CONSTANTS
    Tasks,             \* checks of this token in progress at the same time
    Worlds, Facts,     \* Facts[w]: what the sources say of the token in world w
    MaxMoves,          \* bound: how often the world changes
    LAMPORTS, UNITS,   \* LAMPORTS_PER_SOL; units per token, 10^decimals
    None               \* nothing: null, undefined or an empty answer

Trades == [buys : Nat, sells : Nat, buyVolume : Nat, sellVolume : Nat]

ASSUME MetricsAssumption ==
    /\ Tasks \subseteq Callers
    /\ MaxMoves \in Nat /\ LAMPORTS \in Nat \ {0} /\ UNITS \in Nat \ {0}
    /\ \A w \in Worlds :
         /\ Facts[w].trades \in Trades \cup {None}
         /\ Facts[w].curve \in [sol : Nat, token : Nat] \cup {None}
         /\ Facts[w].last \in [sol : Nat, token : Nat] \cup {None}
         /\ Facts[w].supply \in Nat \ {0} /\ Facts[w].creatorHolding \in Int
         /\ Facts[w].age \in Nat /\ Facts[w].sellImpact \in Nat
         \* getTokenLargestAccounts answers the twenty largest accounts.
         /\ IsFiniteSet(Facts[w].largest) /\ Cardinality(Facts[w].largest) <= 20
         /\ Facts[w].largest \cup Facts[w].frozen \subseteq DOMAIN Facts[w].balance
         /\ DOMAIN Facts[w].balance \subseteq Nat
         /\ \A a \in DOMAIN Facts[w].balance : Facts[w].balance[a] \in Nat

VARIABLES
    world, moves,
    task,       \* what each check has learnt
    position    \* the data of the position job: its entry price, and what that is from

vars == <<solPriceVars, world, moves, task, position>>

Now == Facts[world]

\* The answers a call has kept; those it has no more use for are dropped.
NoAnswers ==
    [age |-> None, solPrice |-> None, trades |-> None, curve |-> None, last |-> None,
     price |-> None, supply |-> None, largest |-> None, holders |-> None,
     devHolding |-> None, sellImpact |-> 0]

Idle == [call |-> "none", pc |-> "idle", entry |-> None, got |-> NoAnswers, met |-> FALSE]

Init ==
    /\ SolPriceInit
    /\ world \in Worlds /\ moves = 0
    /\ task = [t \in Tasks |-> Idle]
    /\ position = None

-----------------------------------------------------------------------------
(* Prices                                                                  *)

gcd[p \in Nat \X Nat] == IF p[2] = 0 THEN p[1] ELSE gcd[<<p[2], p[1] % p[2]>>]

\* n / d in lowest terms
Ratio(n, d) == LET g == gcd[<<n, d>>] IN [n |-> n \div g, d |-> d \div g]

\* The reserves in whole SOL and whole tokens; getBondingCurveState makes a
\* curve that does not exist zero.
AdjustedState(curve) ==
    IF curve = None THEN [sol |-> 0, token |-> 0]
    ELSE [sol |-> curve.sol \div LAMPORTS, token |-> curve.token \div UNITS]

\* calculatePriceWithSlippage(0.1, ...): with reserves of S SOL and T tokens,
\* 0.1 / (0.99 * (T*S / (30 + S) - T*S / (30.1 + S))).
PriceWithSlippage(a) ==
    [n |-> 10 * (30 + a.sol) * (301 + 10 * a.sol), d |-> 99 * a.token * a.sol]

\* The transaction moved SOL and tokens.
IsTrade(last) == last # None /\ last.sol > 0 /\ last.token > 0

\* Mutant: the ratio the other way round.
TokensPerSol(last) == [n |-> last.token, d |-> last.sol]
SolPerToken(last) == [n |-> last.sol, d |-> last.token]

PriceInSol(last, curve) ==
    IF IsTrade(last) THEN SolPerToken(last)
    ELSE PriceWithSlippage(AdjustedState(curve))

PriceInUSD(p, solPrice) == Ratio(p.n * solPrice, p.d)

-----------------------------------------------------------------------------
(* Holders                                                                 *)

NoHolders == [topHolders |-> 0, circulatingSupply |-> 0, totalHolders |-> 0]

\* (balance / totalSupply) * 100, to two digits
Percentage(b, supply) == (20000 * b + supply) \div (2 * supply)

\* The first ten by percentage, earlier accounts first.
TopTen(largest, pct) ==
    {a \in largest :
        Cardinality({b \in largest : pct[b] > pct[a] \/ (pct[b] = pct[a] /\ b < a)}) < 10}

\* An account that is gone by now has no info.
Holders(asked, supply) ==
    LET largest == asked \cap DOMAIN Now.balance
        pct == [a \in largest |-> Percentage(Now.balance[a], supply)]
        frozen == MapThenSumSet(LAMBDA a : Now.balance[a], largest \cap Now.frozen)
    IN [topHolders |-> MapThenSumSet(LAMBDA a : pct[a], TopTen(largest, pct)),
        circulatingSupply |-> IF frozen > supply THEN 0 ELSE supply - frozen,
        totalHolders |-> Cardinality({a \in largest : Now.balance[a] > 0})]

\* (creatorHolding / totalSupply) * 100; getTokenSupply answers 0 when it fails.
DevHolding(holding, supply) == IF supply = 0 THEN Zero ELSE [n |-> 100 * holding, d |-> supply]

-----------------------------------------------------------------------------
At(t, pc) == task[t].pc = pc

\* t's next await, and what it has learnt by then
Await(t, pc, got) == task' = [task EXCEPT ![t].pc = pc, ![t].got = got]

\* The call throws, or is done.
Return(t) == task' = [task EXCEPT ![t] = Idle]

OnlyTask == UNCHANGED <<solPriceVars, world, moves, position>>

\* checkEntryConditions and startPositionMonitoring (bound: one position), and
\* checkExitConditions with the job's entry price.  The age is taken at once.
Call(t, call) ==
    /\ At(t, "idle")
    /\ call = "start" => position = None /\ \A u \in Tasks : task[u].call # "start"
    /\ call = "exit" => position # None
    /\ task' = [task EXCEPT ![t] =
                  [call |-> call, pc |-> "solPrice",
                   entry |-> IF call = "exit" THEN position ELSE None,
                   got |-> [NoAnswers EXCEPT !.age = Now.age], met |-> FALSE]]
    /\ GetSolPrice(t)
    /\ UNCHANGED <<world, moves, position>>

SolPriceKnown(t) ==
    /\ At(t, "solPrice")
    /\ SolPriceReturns(t)
    /\ Await(t, "trades", [task[t].got EXCEPT !.solPrice = ask[t].price])
    /\ UNCHANGED <<world, moves, position>>

\* aggregate(...).toArray(): no document when there are no trades
TradesCounted(t) ==
    /\ At(t, "trades")
    /\ Await(t, "event", [task[t].got EXCEPT !.trades = Now.trades])
    /\ OnlyTask

CreateEventFound(t) ==
    /\ At(t, "event")
    /\ Await(t, "curve", task[t].got)
    /\ OnlyTask

\* getBondingCurveState, beside the mint's decimals
CurveRead(t) ==
    /\ At(t, "curve")
    /\ Await(t, "signature", [task[t].got EXCEPT !.curve = Now.curve])
    /\ OnlyTask

\* getLatestTradePrice returns.
Priced(t, last) ==
    LET got == task[t].got IN
    Await(t, "mint", [got EXCEPT
        !.last = last, !.curve = None,
        !.price = LET p == PriceInSol(last, got.curve) IN PriceInUSD(p, got.solPrice)])

\* getSignaturesForAddress with limit 1, and then getTransaction; a failure of
\* either leaves the estimate.
SignatureRead(t) ==
    /\ At(t, "signature")
    /\ \/ /\ Now.last # None
          /\ Await(t, "transaction", [task[t].got EXCEPT !.last = Now.last])
       \/ Priced(t, None)
    /\ OnlyTask

TransactionRead(t) ==
    /\ At(t, "transaction")
    /\ Priced(t, task[t].got.last) \/ Priced(t, None)
    /\ OnlyTask

-----------------------------------------------------------------------------
(* getTopHolders; a failure of any of its calls is answered with zeros.    *)

\* Mutant: a token without trades is not told apart.
HoldersOfUntraded(t, holders) ==
    Await(t, "dev", [task[t].got EXCEPT !.holders = holders, !.supply = None, !.largest = None])

\* It returns; without trades totalVolume is then read of undefined.
HoldersKnown(t, holders) ==
    IF task[t].got.trades = None THEN Return(t)
    ELSE Await(t, "dev", [task[t].got EXCEPT
             !.holders = holders, !.supply = None, !.largest = None])

MintRead(t) ==
    /\ At(t, "mint")
    /\ \/ Await(t, "largest", [task[t].got EXCEPT !.supply = Now.supply])
       \/ HoldersKnown(t, NoHolders)
    /\ OnlyTask

LargestAccountsRead(t) ==
    /\ At(t, "largest")
    /\ \/ /\ Now.largest # {}
          /\ Await(t, "accounts", [task[t].got EXCEPT !.largest = Now.largest])
       \/ HoldersKnown(t, NoHolders)
    /\ OnlyTask

AccountsRead(t) ==
    /\ At(t, "accounts")
    /\ \/ HoldersKnown(t, Holders(task[t].got.largest, task[t].got.supply))
       \/ HoldersKnown(t, NoHolders)
    /\ OnlyTask

-----------------------------------------------------------------------------
\* What getTokenMetrics returns, and the largest impact of a sell
Metrics(got) ==
    [buys |-> got.trades.buys, sells |-> got.trades.sells,
     buyVolume |-> got.trades.buyVolume, sellVolume |-> got.trades.sellVolume,
     volumeCents |-> (got.trades.buyVolume + got.trades.sellVolume) * got.solPrice,
     price |-> got.price,
     marketCap |-> [n |-> got.price.n * got.holders.circulatingSupply, d |-> got.price.d],
     age |-> got.age,
     topHolders |-> got.holders.topHolders, totalHolders |-> got.holders.totalHolders,
     devHolding |-> got.devHolding, sellImpact |-> got.sellImpact]

Decided(t, got, met) ==
    task' = [task EXCEPT ![t].pc = "decided", ![t].got = got, ![t].met = met]

\* getCreatorHolding and getTokenSupply: the metrics are complete.
CreatorHoldingRead(t) ==
    /\ At(t, "dev")
    /\ \E supply \in {Now.supply, 0} :
         LET got == [task[t].got EXCEPT !.devHolding = DevHolding(Now.creatorHolding, supply)] IN
         \/ task[t].call = "entry" /\ Decided(t, got, EntryConditions(Metrics(got)))
         \/ task[t].call = "start" /\ Await(t, "add", got)
         \/ task[t].call = "exit" /\ Await(t, "sells", got)
    /\ OnlyTask

\* Mutant: the queue keeps the number as it is.
StoredAsIs(p) == p
EntryPrice(p) == StoredPrice(p)

\* The position job is added, and notify returns.
PositionAdded(t) ==
    LET got == task[t].got IN
    /\ At(t, "add")
    /\ position' = [entryPrice |-> EntryPrice(got.price), last |-> got.last,
                    solPrice |-> got.solPrice, known |-> got.price.d # 0]
    /\ Return(t)
    /\ UNCHANGED <<solPriceVars, world, moves>>

\* The query for sells with an impact of more than 5%
SellsRead(t) ==
    LET got == [task[t].got EXCEPT !.sellImpact = Now.sellImpact] IN
    /\ At(t, "sells")
    /\ Decided(t, got, ExitConditions(Metrics(got), task[t].entry.entryPrice))
    /\ OnlyTask

\* The handler of the job; a position is over when its key is removed.
Handled(t) ==
    /\ At(t, "decided")
    /\ position' = IF task[t].call = "exit" /\ task[t].met THEN None ELSE position
    /\ Return(t)
    /\ UNCHANGED <<solPriceVars, world, moves>>

\* MongoDB or Redis fails, there is no create event, or the mint is unknown.
CheckFails(t) ==
    /\ task[t].pc \in {"trades", "event", "curve", "dev", "add", "sells"}
    /\ Return(t)
    /\ OnlyTask

Step(t) ==
    \/ SolPriceKnown(t) \/ TradesCounted(t) \/ CreateEventFound(t) \/ CurveRead(t)
    \/ SignatureRead(t) \/ TransactionRead(t)
    \/ MintRead(t) \/ LargestAccountsRead(t) \/ AccountsRead(t)
    \/ CreatorHoldingRead(t) \/ PositionAdded(t) \/ SellsRead(t) \/ Handled(t) \/ CheckFails(t)

\* The token is traded; the rest is as it was.
WorldMoves ==
    /\ moves < MaxMoves /\ moves' = moves + 1
    /\ world' \in Worlds \ {world}
    /\ UNCHANGED <<solPriceVars, task, position>>

\* getSolPrice for this token and for others, and what happens around it
SolPriceMoves ==
    /\ \/ \E c \in Callers : SolPriceStep(c)
       \/ \E c \in Callers \ Tasks : GetSolPrice(c) \/ SolPriceReturns(c)
       \/ SolMoves
       \/ Tick
    /\ UNCHANGED <<world, moves, task, position>>

Next ==
    \/ \E t \in Tasks : Step(t) \/ \E call \in {"entry", "start", "exit"} : Call(t, call)
    \/ WorldMoves
    \/ SolPriceMoves

Spec == Init /\ [][Next]_vars

-----------------------------------------------------------------------------
PCs == {"idle", "solPrice", "trades", "event", "curve", "signature", "transaction",
        "mint", "largest", "accounts", "dev", "add", "sells", "decided"}

TypeOK ==
    /\ SolPriceTypeOK
    /\ world \in Worlds /\ moves \in 0 .. MaxMoves
    /\ \A t \in Tasks :
         /\ task[t].pc \in PCs /\ task[t].met \in BOOLEAN
         /\ task[t].call \in {"none", "entry", "start", "exit"}
         /\ At(t, "solPrice") <=> ask[t].at # "idle"
         /\ task[t].call = "exit" <=> task[t].entry # None
         /\ task[t].pc \in {"dev", "add", "sells", "decided"} => task[t].got.trades \in Trades

(***************************************************************************)
(* The entry conditions are never met, whatever the token and however the  *)
(* answers of the calls are torn: they ask for a volume of 3000 dollars    *)
(* and a holder for every 10 dollars of it, and totalHolders counts the    *)
(* twenty accounts that getTokenLargestAccounts answers at most.           *)
(***************************************************************************)
NoEntrySignal == \A t \in Tasks : task[t].call = "entry" => ~task[t].met

(***************************************************************************)
(* A position whose entry price could not be computed (the curve was       *)
(* missing and no trade was found: Infinity, stored as null) is closed by  *)
(* the first check that is completed, whatever that finds.                 *)
(***************************************************************************)
UnknownEntryClosesAtOnce ==
    \A t \in Tasks :
        At(t, "decided") /\ task[t].call = "exit" /\ ~task[t].entry.known => task[t].met

(***************************************************************************)
(* When both prices are of a trade and SOL was quoted the same, the profit *)
(* target is reached exactly when SOL per token rose by 45% from the trade *)
(* that the entry price is of to the trade the check found: a signal       *)
(* without a rise is due to an estimate or to another quote of SOL, never  *)
(* to answers of different times.                                          *)
(***************************************************************************)
ProfitForCause ==
    \A t \in Tasks :
        LET from == task[t].entry
            to == task[t].got IN
        /\ At(t, "decided") /\ task[t].call = "exit"
        /\ IsTrade(from.last) /\ IsTrade(to.last) /\ from.solPrice = to.solPrice
        => HasReachedProfitTarget(to.price, from.entryPrice)
             <=> 100 * to.last.sol * from.last.token >= 145 * from.last.sol * to.last.token
=============================================================================
