------------------------------ MODULE SolPrice ------------------------------
(***************************************************************************)
(* TokenMetricsService.getSolPrice: the price of SOL in dollars, cached in *)
(* Redis under one key for all tokens and all processes, fetched from      *)
(* CoinGecko by whoever misses it, and a constant when anything fails.     *)
(* Time passes in ticks; a tick stands for any unit of CACHE_DURATION.     *)
(***************************************************************************)
EXTENDS Integers

CONSTANTS
    Callers,           \* calls of getSolPrice in progress at the same time
    SolPrices,         \* what CoinGecko may say
    CACHE_DURATION,
    MaxTrip            \* bound: ticks from CoinGecko's answer to the write in Redis

ASSUME SolPriceAssumption ==
    /\ SolPrices \subseteq Nat \ {0}
    /\ CACHE_DURATION \in Nat \ {0} /\ MaxTrip \in Nat

VARIABLES
    usd,     \* the price of SOL now
    cache,   \* Redis, sol_price: the price, its age, the ticks it has left
    ask      \* what each caller waits for, and the price it carries

solPriceVars == <<usd, cache, ask>>

\* What the catch block returns.
FALLBACK == 243

NoQuote == [price |-> FALLBACK, age |-> 0, left |-> 0]

NotAsking == [at |-> "idle", price |-> FALLBACK, age |-> 0]

SolPriceInit ==
    /\ usd \in SolPrices
    /\ cache = NoQuote
    /\ ask = [c \in Callers |-> NotAsking]

-----------------------------------------------------------------------------
IsCached == cache.left > 0

Ask(c, a) == ask' = [ask EXCEPT ![c] = a]
Got(c, p) == Ask(c, [at |-> "got", price |-> p, age |-> 0])

\* Mutant: RedisService.set takes milliseconds, and is given them twice over.
ExpiryTwiceOver == CACHE_DURATION * 1000
Expiry == CACHE_DURATION

\* The value and its expiration are written by one command.
Written(a) == [price |-> a.price, age |-> a.age, left |-> Expiry]

GetSolPrice(c) ==
    /\ ask[c].at = "idle"
    /\ Ask(c, [NotAsking EXCEPT !.at = "cache"])
    /\ UNCHANGED <<usd, cache>>

CacheAnswers(c) ==
    /\ ask[c].at = "cache"
    /\ \/ IsCached /\ Got(c, cache.price)
       \/ ~IsCached /\ Ask(c, [ask[c] EXCEPT !.at = "fetch"])
    /\ UNCHANGED <<usd, cache>>

\* Nobody is kept from fetching it too.
CoinGeckoAnswers(c) ==
    /\ ask[c].at = "fetch"
    /\ Ask(c, [at |-> "write", price |-> usd, age |-> 0])
    /\ UNCHANGED <<usd, cache>>

CacheWritten(c) ==
    /\ ask[c].at = "write"
    /\ cache' = Written(ask[c])
    /\ Got(c, ask[c].price)
    /\ UNCHANGED usd

\* Redis or CoinGecko fails; a failed write may have been applied.
SolPriceFails(c) ==
    /\ ask[c].at \in {"cache", "fetch", "write"}
    /\ \/ UNCHANGED cache
       \/ ask[c].at = "write" /\ cache' = Written(ask[c])
    /\ Got(c, FALLBACK)
    /\ UNCHANGED usd

\* The caller goes on with its price.
SolPriceReturns(c) ==
    /\ ask[c].at = "got"
    /\ Ask(c, NotAsking)
    /\ UNCHANGED <<usd, cache>>

SolMoves == usd' \in SolPrices \ {usd} /\ UNCHANGED <<cache, ask>>

Tick ==
    /\ \A c \in Callers : ask[c].at = "write" => ask[c].age < MaxTrip
    /\ cache' = IF cache.left > 1 THEN [cache EXCEPT !.age = @ + 1, !.left = @ - 1] ELSE NoQuote
    /\ ask' = [c \in Callers |->
                 IF ask[c].at = "write" THEN [ask[c] EXCEPT !.age = @ + 1] ELSE ask[c]]
    /\ UNCHANGED usd

SolPriceStep(c) ==
    CacheAnswers(c) \/ CoinGeckoAnswers(c) \/ CacheWritten(c) \/ SolPriceFails(c)

SolPriceNext ==
    \/ \E c \in Callers : GetSolPrice(c) \/ SolPriceStep(c) \/ SolPriceReturns(c)
    \/ SolMoves
    \/ Tick

SolPriceSpec == SolPriceInit /\ [][SolPriceNext]_solPriceVars

-----------------------------------------------------------------------------
SolPriceTypeOK ==
    /\ usd \in SolPrices
    /\ cache \in [price : SolPrices \cup {FALLBACK}, age : Nat, left : Nat]
    /\ ask \in [Callers -> [at : {"idle", "cache", "fetch", "write", "got"},
                            price : SolPrices \cup {FALLBACK}, age : 0 .. MaxTrip]]

(***************************************************************************)
(* A cached price was asked for at most CACHE_DURATION and one trip ago,   *)
(* however many callers miss the key at the same time and write their      *)
(* answers over one another, late or out of order.                         *)
(***************************************************************************)
QuoteFresh == IsCached => cache.age <= CACHE_DURATION + MaxTrip
=============================================================================
