------------------------- MODULE TokenMetricsProofs -------------------------
(***************************************************************************)
(* What TokenMetrics guarantees for any tokens, any answers of its sources *)
(* and any number of concurrent checks.                                    *)
(***************************************************************************)
EXTENDS TokenMetrics, FiniteSetTheorems, WellFoundedInduction, TLAPS

\* What a cached price may still age adds up, whoever wrote it.
AgesTogether == cache.age + cache.left <= CACHE_DURATION + MaxTrip

SolInv == SolPriceTypeOK /\ AgesTogether

-----------------------------------------------------------------------------
(* The price of SOL.                                                       *)

LEMMA SolPriceStepKeepsInv ==
    ASSUME SolInv, NEW c \in Callers,
           GetSolPrice(c) \/ SolPriceStep(c) \/ SolPriceReturns(c)
    PROVE  SolInv'
<1> USE SolPriceAssumption
<1> DEFINE Prices == SolPrices \cup {FALLBACK}
<1> DEFINE Asks == [at : {"idle", "cache", "fetch", "write", "got"},
                    price : Prices, age : 0 .. MaxTrip]
<1>1. ask \in [Callers -> Asks] /\ cache \in [price : Prices, age : Nat, left : Nat]
      /\ usd \in Prices /\ ask[c] \in Asks
  BY DEF SolInv, SolPriceTypeOK
<1>2. ASSUME NEW a \in Asks, ask' = [ask EXCEPT ![c] = a], UNCHANGED <<usd, cache>>
      PROVE  SolInv'
  BY <1>1, <1>2 DEF SolInv, SolPriceTypeOK, AgesTogether
<1>3. ASSUME NEW a \in Asks, ask' = [ask EXCEPT ![c] = a], cache' = Written(ask[c]),
             UNCHANGED usd
      PROVE  SolInv'
  <2>1. cache' = [price |-> ask[c].price, age |-> ask[c].age, left |-> CACHE_DURATION]
    BY <1>3 DEF Written, Expiry
  <2>2. cache' \in [price : Prices, age : Nat, left : Nat]
        /\ cache'.age + cache'.left <= CACHE_DURATION + MaxTrip
    BY <1>1, <2>1
  <2> QED
    BY <1>1, <1>3, <2>2 DEF SolInv, SolPriceTypeOK, AgesTogether
<1>4. ASSUME NEW p \in Prices PROVE [at |-> "got", price |-> p, age |-> 0] \in Asks
  OBVIOUS
<1>5. CASE GetSolPrice(c)
  <2>1. [NotAsking EXCEPT !.at = "cache"] \in Asks
    BY DEF NotAsking
  <2> QED
    BY <1>2, <1>5, <2>1 DEF GetSolPrice, Ask
<1>6. CASE CacheAnswers(c)
  <2>1. [ask[c] EXCEPT !.at = "fetch"] \in Asks /\ cache.price \in Prices
    BY <1>1
  <2> QED
    BY <1>2, <1>4, <1>6, <2>1 DEF CacheAnswers, Ask, Got
<1>7. CASE CoinGeckoAnswers(c)
  <2>1. [at |-> "write", price |-> usd, age |-> 0] \in Asks
    BY <1>1
  <2> QED
    BY <1>2, <1>7, <2>1 DEF CoinGeckoAnswers, Ask
<1>8. CASE CacheWritten(c)
  BY <1>1, <1>3, <1>4, <1>8 DEF CacheWritten, Ask, Got
<1>9. CASE SolPriceFails(c)
  <2>1. [at |-> "got", price |-> FALLBACK, age |-> 0] \in Asks
    OBVIOUS
  <2> QED
    BY <1>2, <1>3, <1>9, <2>1 DEF SolPriceFails, Ask, Got
<1>10. CASE SolPriceReturns(c)
  <2>1. NotAsking \in Asks
    BY DEF NotAsking
  <2> QED
    BY <1>2, <1>10, <2>1 DEF SolPriceReturns, Ask
<1> QED
  BY <1>5, <1>6, <1>7, <1>8, <1>9, <1>10 DEF SolPriceStep

LEMMA SolMovesKeepsInv ==
    ASSUME SolInv, SolMoves
    PROVE  SolInv'
BY DEF SolInv, SolPriceTypeOK, AgesTogether, SolMoves

LEMMA TickKeepsInv ==
    ASSUME SolInv, Tick
    PROVE  SolInv'
<1> USE SolPriceAssumption
<1>1. cache \in [price : SolPrices \cup {FALLBACK}, age : Nat, left : Nat]
  BY DEF SolInv, SolPriceTypeOK
<1>2. /\ cache' \in [price : SolPrices \cup {FALLBACK}, age : Nat, left : Nat]
      /\ AgesTogether'
  <2>1. CASE cache.left > 1
    <3>1. cache' = [cache EXCEPT !.age = @ + 1, !.left = @ - 1]
      BY <2>1 DEF Tick
    <3>2. cache'.age = cache.age + 1 /\ cache'.left = cache.left - 1
      BY <1>1, <3>1
    <3>3. cache.age \in Nat /\ cache.left \in Nat
      BY <1>1
    <3>4. cache.age + 1 \in Nat /\ cache.left - 1 \in Nat
      BY <2>1, <3>3
    <3>5. cache' \in [price : SolPrices \cup {FALLBACK}, age : Nat, left : Nat]
      BY <1>1, <3>1, <3>4
    <3>6. AgesTogether'
      BY <3>2, <3>3 DEF SolInv, AgesTogether
    <3> QED
      BY <3>5, <3>6
  <2>2. CASE ~(cache.left > 1)
    BY <2>2 DEF Tick, NoQuote, AgesTogether
  <2> QED
    BY <2>1, <2>2
<1>3. ask' \in [Callers -> [at : {"idle", "cache", "fetch", "write", "got"},
                            price : SolPrices \cup {FALLBACK}, age : 0 .. MaxTrip]]
  BY DEF SolInv, SolPriceTypeOK, Tick
<1> QED
  BY <1>2, <1>3 DEF SolInv, SolPriceTypeOK, Tick

-----------------------------------------------------------------------------
(* The checks.                                                             *)

\* A record has the fields it is made of.
IsCheck(r) ==
    r = [call |-> r.call, pc |-> r.pc, entry |-> r.entry, got |-> r.got, met |-> r.met]

IsAnswers(g) ==
    g = [age |-> g.age, solPrice |-> g.solPrice, trades |-> g.trades, curve |-> g.curve,
         last |-> g.last, price |-> g.price, supply |-> g.supply, largest |-> g.largest,
         holders |-> g.holders, devHolding |-> g.devHolding, sellImpact |-> g.sellImpact]

\* What a check knows by then, as far as the entry conditions depend on it.
Learnt(r) ==
    /\ r.pc \notin {"idle", "solPrice"} => r.got.solPrice \in Nat
    /\ r.pc \notin {"idle", "solPrice", "trades"} => r.got.trades \in Trades \cup {None}
    /\ r.pc = "accounts" => IsFiniteSet(r.got.largest) /\ Cardinality(r.got.largest) <= 20
    /\ r.pc = "dev" => r.got.holders.totalHolders \in 0 .. 20
    /\ r.pc \in {"dev", "add", "sells", "decided"} => r.got.trades \in Trades
    /\ r.pc = "sells" => r.call = "exit"

Check(r) ==
    /\ IsCheck(r) /\ IsAnswers(r.got)
    /\ r.pc \in PCs /\ r.met \in BOOLEAN /\ r.call \in {"none", "entry", "start", "exit"}
    /\ r.call = "exit" <=> r.entry # None
    /\ Learnt(r)
    /\ r.call = "entry" => ~r.met

Inv ==
    /\ SolInv
    /\ world \in Worlds /\ moves \in 0 .. MaxMoves
    /\ task = [t \in Tasks |-> task[t]]
    /\ \A t \in Tasks : Check(task[t])
    /\ \A t \in Tasks : At(t, "solPrice") <=> ask[t].at # "idle"

-----------------------------------------------------------------------------
(***************************************************************************)
(* The twenty largest accounts are at most twenty holders.                 *)
(***************************************************************************)
LEMMA FewHolders ==
    ASSUME NEW asked, IsFiniteSet(asked), Cardinality(asked) <= 20, NEW supply
    PROVE  Holders(asked, supply).totalHolders \in 0 .. 20
<1> DEFINE held == {a \in asked \cap DOMAIN Now.balance : Now.balance[a] > 0}
<1>1. Holders(asked, supply).totalHolders = Cardinality(held)
  BY DEF Holders
<1>2. held \subseteq asked
  OBVIOUS
<1>3. IsFiniteSet(held) /\ Cardinality(held) <= Cardinality(asked)
  BY <1>2, FS_Subset
<1>4. Cardinality(held) \in Nat /\ Cardinality(asked) \in Nat
  BY <1>3, FS_CardinalityType
<1> HIDE DEF held
<1> QED
  BY <1>1, <1>3, <1>4

(***************************************************************************)
(* A volume of 3000 dollars asks for more than 20 holders.                 *)
(***************************************************************************)
LEMMA TooFewHolders ==
    ASSUME NEW got, IsAnswers(got), got.trades \in Trades, got.solPrice \in Nat,
           got.holders.totalHolders \in 0 .. 20
    PROVE  ~EntryConditions(Metrics(got))
<1> DEFINE v == (got.trades.buyVolume + got.trades.sellVolume) * got.solPrice
<1> DEFINE h == got.holders.totalHolders
<1>1. Metrics(got).volumeCents = v /\ Metrics(got).totalHolders = h
  BY DEF Metrics
<1>2. v \in Nat
  BY DEF Trades
<1> SUFFICES ASSUME v >= 300000, h >= v \div 1000 PROVE FALSE
  BY <1>1 DEF EntryConditions, HasHealthyHolderCount
<1> HIDE DEF v, h
<1>3. v \div 1000 >= 300
  BY <1>2
<1> QED
  BY <1>2, <1>3 DEF h

-----------------------------------------------------------------------------
(***************************************************************************)
(* A step of one check: it is enough to show what holds of the check, and  *)
(* that it waits for the price of SOL exactly if it has asked.             *)
(***************************************************************************)
LEMMA TaskKeepsInv ==
    ASSUME Inv, NEW t \in Tasks, NEW r, task' = [task EXCEPT ![t] = r], Check(r),
           SolInv', UNCHANGED <<world, moves>>,
           r.pc = "solPrice" <=> ask'[t].at # "idle",
           \A u \in Tasks : u # t => ask'[u] = ask[u]
    PROVE  Inv'
<1>1. task' = [u \in Tasks |-> task'[u]] /\ task'[t] = r
      /\ \A u \in Tasks : u # t => task'[u] = task[u]
  BY DEF Inv
<1>2. \A u \in Tasks : (At(u, "solPrice") <=> ask[u].at # "idle")'
  BY <1>1 DEF Inv, At
<1> QED
  BY <1>1, <1>2 DEF Inv

LEMMA CheckKeepsInv ==
    ASSUME Inv, NEW t \in Tasks, NEW r, task' = [task EXCEPT ![t] = r], Check(r),
           r.pc # "solPrice", ~At(t, "solPrice"),
           UNCHANGED <<solPriceVars, world, moves>>
    PROVE  Inv'
<1>1. SolInv'
  BY DEF Inv, SolInv, SolPriceTypeOK, AgesTogether, solPriceVars
<1>2. ask' = ask /\ ask[t].at = "idle"
  BY DEF Inv, solPriceVars
<1> QED
  BY <1>1, <1>2, TaskKeepsInv

LEMMA IdleIsCheck == Check(Idle)
BY DEF Check, Idle, IsCheck, IsAnswers, NoAnswers, Learnt, PCs

LEMMA ReturnKeepsInv ==
    ASSUME Inv, NEW t \in Tasks, Return(t), ~At(t, "solPrice"),
           UNCHANGED <<solPriceVars, world, moves>>
    PROVE  Inv'
BY CheckKeepsInv, IdleIsCheck DEF Return, Idle

(***************************************************************************)
(* The record of a check that goes on to another await.                    *)
(***************************************************************************)
LEMMA AwaitRecord ==
    ASSUME Inv, NEW t \in Tasks, NEW pc \in PCs \ {"idle", "solPrice"}, NEW got,
           Await(t, pc, got), IsAnswers(got),
           got.solPrice \in Nat,
           pc # "trades" => got.trades \in Trades \cup {None},
           pc = "accounts" => IsFiniteSet(got.largest) /\ Cardinality(got.largest) <= 20,
           pc = "dev" => got.holders.totalHolders \in 0 .. 20,
           pc \in {"dev", "add", "sells", "decided"} => got.trades \in Trades,
           pc = "sells" => task[t].call = "exit"
    PROVE  \E r : task' = [task EXCEPT ![t] = r] /\ Check(r) /\ r.pc = pc
<1> DEFINE r == [call |-> task[t].call, pc |-> pc, entry |-> task[t].entry,
                 got |-> got, met |-> task[t].met]
<1>1. Check(task[t])
  BY DEF Inv
<1>2. [task[t] EXCEPT !.pc = pc, !.got = got] = r
  <2>1. PICK x, y : x = task[t] /\ y = [x EXCEPT !.pc = pc]
    OBVIOUS
  <2>2. x = [call |-> x.call, pc |-> x.pc, entry |-> x.entry, got |-> x.got, met |-> x.met]
    BY <1>1, <2>1 DEF Check, IsCheck
  <2>3. y = [call |-> x.call, pc |-> pc, entry |-> x.entry, got |-> x.got, met |-> x.met]
    BY <2>1, <2>2
  <2>4. [y EXCEPT !.got = got]
          = [call |-> x.call, pc |-> pc, entry |-> x.entry, got |-> got, met |-> x.met]
    BY <2>3
  <2>5. [x EXCEPT !.pc = pc, !.got = got] = [y EXCEPT !.got = got]
    BY <2>1
  <2> QED
    BY <2>1, <2>4, <2>5
<1>3. task' = [task EXCEPT ![t] = r]
  BY <1>2 DEF Await, Inv
<1>4. Check(r) /\ r.pc = pc
  BY <1>1 DEF Check, IsCheck, Learnt
<1> HIDE DEF r
<1> QED
  BY <1>3, <1>4

LEMMA AwaitKeepsInv ==
    ASSUME Inv, NEW t \in Tasks, NEW pc \in PCs \ {"idle", "solPrice"}, NEW got,
           Await(t, pc, got), ~At(t, "solPrice"), IsAnswers(got),
           got.solPrice \in Nat,
           pc # "trades" => got.trades \in Trades \cup {None},
           pc = "accounts" => IsFiniteSet(got.largest) /\ Cardinality(got.largest) <= 20,
           pc = "dev" => got.holders.totalHolders \in 0 .. 20,
           pc \in {"dev", "add", "sells", "decided"} => got.trades \in Trades,
           pc = "sells" => task[t].call = "exit",
           UNCHANGED <<solPriceVars, world, moves>>
    PROVE  Inv'
<1>1. PICK r : task' = [task EXCEPT ![t] = r] /\ Check(r) /\ r.pc = pc
  BY AwaitRecord
<1> QED
  BY <1>1, CheckKeepsInv

(***************************************************************************)
(* The record of a check that has come to its decision.                    *)
(***************************************************************************)
LEMMA DecidedKeepsInv ==
    ASSUME Inv, NEW t \in Tasks, NEW got, NEW met \in BOOLEAN,
           Decided(t, got, met), ~At(t, "solPrice"), IsAnswers(got),
           got.solPrice \in Nat, got.trades \in Trades,
           task[t].call = "entry" => ~met,
           UNCHANGED <<solPriceVars, world, moves>>
    PROVE  Inv'
<1> DEFINE r == [call |-> task[t].call, pc |-> "decided", entry |-> task[t].entry,
                 got |-> got, met |-> met]
<1>1. Check(task[t])
  BY DEF Inv
<1>2. [task[t] EXCEPT !.pc = "decided", !.got = got, !.met = met] = r
  <2>1. PICK x, y, z : x = task[t] /\ y = [x EXCEPT !.pc = "decided"] /\ z = [y EXCEPT !.got = got]
    OBVIOUS
  <2>2. x = [call |-> x.call, pc |-> x.pc, entry |-> x.entry, got |-> x.got, met |-> x.met]
    BY <1>1, <2>1 DEF Check, IsCheck
  <2>3. y = [call |-> x.call, pc |-> "decided", entry |-> x.entry, got |-> x.got, met |-> x.met]
    BY <2>1, <2>2
  <2>4. z = [call |-> x.call, pc |-> "decided", entry |-> x.entry, got |-> got, met |-> x.met]
    BY <2>1, <2>3
  <2>5. [z EXCEPT !.met = met]
          = [call |-> x.call, pc |-> "decided", entry |-> x.entry, got |-> got, met |-> met]
    BY <2>4
  <2>6. [x EXCEPT !.pc = "decided", !.got = got, !.met = met] = [z EXCEPT !.met = met]
    BY <2>1
  <2> QED
    BY <2>1, <2>5, <2>6
<1>3. task' = [task EXCEPT ![t] = r]
  BY <1>2 DEF Decided, Inv
<1>4. Check(r) /\ r.pc = "decided"
  BY <1>1 DEF Check, IsCheck, Learnt, PCs
<1> HIDE DEF r
<1> QED
  BY <1>3, <1>4, CheckKeepsInv

-----------------------------------------------------------------------------
(* The actions of a check.                                                 *)

LEMMA SourceFacts ==
    ASSUME Inv
    PROVE  /\ Now.trades \in Trades \cup {None}
           /\ IsFiniteSet(Now.largest) /\ Cardinality(Now.largest) <= 20
BY MetricsAssumption DEF Inv, Now

\* What a check that waits for a source has learnt.
LEMMA AtSource ==
    ASSUME Inv, NEW t \in Tasks, ~At(t, "idle"), ~At(t, "solPrice")
    PROVE  /\ IsAnswers(task[t].got) /\ task[t].got.solPrice \in Nat
           /\ ~At(t, "trades") => task[t].got.trades \in Trades \cup {None}
           /\ At(t, "accounts") => /\ IsFiniteSet(task[t].got.largest)
                                   /\ Cardinality(task[t].got.largest) <= 20
           /\ At(t, "dev") => task[t].got.holders.totalHolders \in 0 .. 20
           /\ task[t].pc \in {"dev", "add", "sells", "decided"} => task[t].got.trades \in Trades
BY DEF Inv, Check, Learnt, At

LEMMA CallKeepsInv ==
    ASSUME Inv, NEW t \in Tasks, NEW call \in {"entry", "start", "exit"}, Call(t, call)
    PROVE  Inv'
<1> DEFINE entry == IF call = "exit" THEN position ELSE None
<1> DEFINE r == [call |-> call, pc |-> "solPrice", entry |-> entry,
                 got |-> [NoAnswers EXCEPT !.age = Now.age], met |-> FALSE]
<1>1. SolInv /\ t \in Callers /\ GetSolPrice(t)
  BY MetricsAssumption DEF Inv, Call
<1>2. SolInv'
  BY <1>1, SolPriceStepKeepsInv
<1>3. ask'[t].at = "cache" /\ \A u \in Tasks : u # t => ask'[u] = ask[u]
  BY <1>1, MetricsAssumption DEF GetSolPrice, Ask, NotAsking, SolInv, SolPriceTypeOK
<1>5. IsAnswers([NoAnswers EXCEPT !.age = Now.age])
  BY DEF IsAnswers, NoAnswers
<1>6. call = "exit" <=> entry # None
  BY DEF Call
<1>7. Check(r) /\ r.pc = "solPrice"
  BY <1>5, <1>6 DEF Check, IsCheck, Learnt, PCs
<1>8. task' = [task EXCEPT ![t] = r] /\ UNCHANGED <<world, moves>>
  BY DEF Call
<1> HIDE DEF r
<1> QED
  BY <1>2, <1>3, <1>7, <1>8, TaskKeepsInv

LEMMA SolPriceKnownKeepsInv ==
    ASSUME Inv, NEW t \in Tasks, SolPriceKnown(t)
    PROVE  Inv'
<1>1. SolInv /\ t \in Callers /\ SolPriceReturns(t) /\ At(t, "solPrice")
  BY MetricsAssumption DEF Inv, SolPriceKnown
<1>2. SolInv'
  BY <1>1, SolPriceStepKeepsInv
<1>3. ask'[t].at = "idle" /\ \A u \in Tasks : u # t => ask'[u] = ask[u]
  BY <1>1, MetricsAssumption DEF SolPriceReturns, Ask, NotAsking, SolInv, SolPriceTypeOK
<1>4. ask[t].price \in Nat
  <2>1. ask[t].price \in SolPrices \cup {FALLBACK}
    BY <1>1 DEF SolInv, SolPriceTypeOK
  <2>2. CASE ask[t].price \in SolPrices
    BY <2>2, SolPriceAssumption
  <2>3. CASE ask[t].price = FALLBACK
    BY <2>3 DEF FALLBACK
  <2> QED
    BY <2>1, <2>2, <2>3
<1>5. PICK g : g = [task[t].got EXCEPT !.solPrice = ask[t].price]
  OBVIOUS
<1>6. IsAnswers(task[t].got)
  BY DEF Inv, Check
<1>7. IsAnswers(g) /\ g.solPrice \in Nat
  BY <1>4, <1>5, <1>6 DEF IsAnswers
<1>8. Await(t, "trades", g)
  BY <1>5 DEF SolPriceKnown
<1>9. PICK r : task' = [task EXCEPT ![t] = r] /\ Check(r) /\ r.pc = "trades"
  BY <1>7, <1>8, AwaitRecord DEF PCs
<1> QED
  BY <1>2, <1>3, <1>9, TaskKeepsInv DEF SolPriceKnown

(***************************************************************************)
(* getTopHolders returns at most twenty holders.                           *)
(***************************************************************************)
LEMMA HoldersKnownKeepsInv ==
    ASSUME Inv, NEW t \in Tasks, task[t].pc \in {"mint", "largest", "accounts"}, NEW holders,
           holders.totalHolders \in 0 .. 20, HoldersKnown(t, holders),
           UNCHANGED <<solPriceVars, world, moves>>
    PROVE  Inv'
<1>1. ~At(t, "solPrice") /\ ~At(t, "idle") /\ ~At(t, "trades")
  BY DEF At
<1>2. CASE task[t].got.trades = None
  BY <1>1, <1>2, ReturnKeepsInv DEF HoldersKnown
<1>3. CASE task[t].got.trades # None
  <2>1. PICK g : g = [task[t].got EXCEPT !.holders = holders, !.supply = None, !.largest = None]
    OBVIOUS
  <2>2. IsAnswers(task[t].got) /\ task[t].got.solPrice \in Nat /\ task[t].got.trades \in Trades
    BY <1>1, <1>3, AtSource
  <2>3. PICK f : f = task[t].got
    OBVIOUS
  <2>4. IsAnswers(g) /\ g.solPrice = f.solPrice /\ g.trades = f.trades /\ g.holders = holders
    <3>1. PICK x, y : x = [f EXCEPT !.holders = holders] /\ y = [x EXCEPT !.supply = None]
      OBVIOUS
    <3>2. g = [y EXCEPT !.largest = None]
      BY <2>1, <2>3, <3>1
    <3>3. IsAnswers(x) /\ x.solPrice = f.solPrice /\ x.trades = f.trades /\ x.holders = holders
      BY <2>2, <2>3, <3>1 DEF IsAnswers
    <3>4. IsAnswers(y) /\ y.solPrice = f.solPrice /\ y.trades = f.trades /\ y.holders = holders
      BY <3>1, <3>3 DEF IsAnswers
    <3> QED
      BY <3>2, <3>4 DEF IsAnswers
  <2>5. Await(t, "dev", g)
    BY <1>3, <2>1 DEF HoldersKnown
  <2> QED
    BY <1>1, <2>2, <2>3, <2>4, <2>5, AwaitKeepsInv DEF PCs
<1> QED
  BY <1>2, <1>3

LEMMA PricedKeepsInv ==
    ASSUME Inv, NEW t \in Tasks, task[t].pc \in {"signature", "transaction"}, NEW last,
           Priced(t, last), UNCHANGED <<solPriceVars, world, moves>>
    PROVE  Inv'
<1>1. ~At(t, "solPrice") /\ ~At(t, "idle") /\ ~At(t, "trades")
  BY DEF At
<1>2. PICK f : f = task[t].got
  OBVIOUS
<1>3. IsAnswers(f) /\ f.solPrice \in Nat /\ f.trades \in Trades \cup {None}
  BY <1>1, <1>2, AtSource
<1>4. PICK p : p = PriceInUSD(PriceInSol(last, f.curve), f.solPrice)
  OBVIOUS
<1>5. PICK g : g = [f EXCEPT !.last = last, !.curve = None, !.price = p]
  OBVIOUS
<1>6. IsAnswers(g) /\ g.solPrice = f.solPrice /\ g.trades = f.trades
  <2>1. PICK x, y : x = [f EXCEPT !.last = last] /\ y = [x EXCEPT !.curve = None]
    OBVIOUS
  <2>2. g = [y EXCEPT !.price = p]
    BY <1>5, <2>1
  <2>3. IsAnswers(x) /\ x.solPrice = f.solPrice /\ x.trades = f.trades
    BY <1>3, <2>1 DEF IsAnswers
  <2>4. IsAnswers(y) /\ y.solPrice = f.solPrice /\ y.trades = f.trades
    BY <2>1, <2>3 DEF IsAnswers
  <2> QED
    BY <2>2, <2>4 DEF IsAnswers
<1>7. Await(t, "mint", g)
  BY <1>2, <1>4, <1>5 DEF Priced
<1> QED
  BY <1>1, <1>3, <1>6, <1>7, AwaitKeepsInv DEF PCs

(***************************************************************************)
(* The awaits of getTokenMetrics before getTopHolders.                     *)
(***************************************************************************)
LEMMA ReadsKeepInv ==
    ASSUME Inv, NEW t \in Tasks,
           TradesCounted(t) \/ CreateEventFound(t) \/ CurveRead(t)
             \/ SignatureRead(t) \/ TransactionRead(t)
    PROVE  Inv'
<1>1. PICK f : f = task[t].got
  OBVIOUS
<1>2. PICK now : now = Now
  OBVIOUS
<1>3. now.trades \in Trades \cup {None}
  BY <1>2, SourceFacts
<1>4. CASE TradesCounted(t)
  <2>1. PICK g : g = [f EXCEPT !.trades = now.trades]
    OBVIOUS
  <2>2. IsAnswers(f) /\ f.solPrice \in Nat /\ ~At(t, "solPrice")
    BY <1>1, <1>4, AtSource DEF TradesCounted, At
  <2>3. IsAnswers(g) /\ g.solPrice \in Nat /\ g.trades = now.trades
    BY <2>1, <2>2 DEF IsAnswers
  <2>4. Await(t, "event", g) /\ UNCHANGED <<solPriceVars, world, moves>>
    BY <1>1, <1>2, <1>4, <2>1 DEF TradesCounted, OnlyTask
  <2> QED
    BY <1>3, <2>2, <2>3, <2>4, AwaitKeepsInv DEF PCs
<1>5. CASE CreateEventFound(t)
  <2>1. IsAnswers(f) /\ f.solPrice \in Nat /\ f.trades \in Trades \cup {None} /\ ~At(t, "solPrice")
    BY <1>1, <1>5, AtSource DEF CreateEventFound, At
  <2>2. Await(t, "curve", f) /\ UNCHANGED <<solPriceVars, world, moves>>
    BY <1>1, <1>5 DEF CreateEventFound, OnlyTask
  <2> QED
    BY <2>1, <2>2, AwaitKeepsInv DEF PCs
<1>6. CASE CurveRead(t)
  <2>1. PICK g : g = [f EXCEPT !.curve = now.curve]
    OBVIOUS
  <2>2. IsAnswers(f) /\ f.solPrice \in Nat /\ f.trades \in Trades \cup {None} /\ ~At(t, "solPrice")
    BY <1>1, <1>6, AtSource DEF CurveRead, At
  <2>3. IsAnswers(g) /\ g.solPrice = f.solPrice /\ g.trades = f.trades
    BY <2>1, <2>2 DEF IsAnswers
  <2>4. Await(t, "signature", g) /\ UNCHANGED <<solPriceVars, world, moves>>
    BY <1>1, <1>2, <1>6, <2>1 DEF CurveRead, OnlyTask
  <2> QED
    BY <2>2, <2>3, <2>4, AwaitKeepsInv DEF PCs
<1>7. CASE SignatureRead(t)
  <2>1. CASE Priced(t, None)
    BY <1>7, <2>1, PricedKeepsInv DEF SignatureRead, OnlyTask, At
  <2>2. CASE Await(t, "transaction", [task[t].got EXCEPT !.last = Now.last])
    <3>1. PICK g : g = [f EXCEPT !.last = now.last]
      OBVIOUS
    <3>2. IsAnswers(f) /\ f.solPrice \in Nat /\ f.trades \in Trades \cup {None} /\ ~At(t, "solPrice")
      BY <1>1, <1>7, AtSource DEF SignatureRead, At
    <3>3. IsAnswers(g) /\ g.solPrice = f.solPrice /\ g.trades = f.trades
      BY <3>1, <3>2 DEF IsAnswers
    <3>4. Await(t, "transaction", g) /\ UNCHANGED <<solPriceVars, world, moves>>
      BY <1>1, <1>2, <1>7, <2>2, <3>1 DEF SignatureRead, OnlyTask
    <3> QED
      BY <3>2, <3>3, <3>4, AwaitKeepsInv DEF PCs
  <2> QED
    BY <1>7, <2>1, <2>2 DEF SignatureRead
<1>8. CASE TransactionRead(t)
  BY <1>8, PricedKeepsInv DEF TransactionRead, OnlyTask, At
<1> QED
  BY <1>4, <1>5, <1>6, <1>7, <1>8

(***************************************************************************)
(* getTopHolders, whichever of its calls fails.                            *)
(***************************************************************************)
LEMMA TopHoldersKeepInv ==
    ASSUME Inv, NEW t \in Tasks, MintRead(t) \/ LargestAccountsRead(t) \/ AccountsRead(t)
    PROVE  Inv'
<1>1. task[t].pc \in {"mint", "largest", "accounts"} /\ UNCHANGED <<solPriceVars, world, moves>>
  BY DEF MintRead, LargestAccountsRead, AccountsRead, OnlyTask, At
<1>2. ~At(t, "solPrice") /\ ~At(t, "idle") /\ ~At(t, "trades")
  BY <1>1 DEF At
<1>3. PICK f : f = task[t].got
  OBVIOUS
<1>4. IsAnswers(f) /\ f.solPrice \in Nat /\ f.trades \in Trades \cup {None}
  BY <1>2, <1>3, AtSource
<1>5. PICK now : now = Now
  OBVIOUS
<1>6. IsFiniteSet(now.largest) /\ Cardinality(now.largest) <= 20
  BY <1>5, SourceFacts
<1>7. CASE HoldersKnown(t, NoHolders)
  BY <1>1, <1>7, HoldersKnownKeepsInv DEF NoHolders
<1>8. CASE Await(t, "largest", [task[t].got EXCEPT !.supply = Now.supply])
  <2>1. PICK g : g = [f EXCEPT !.supply = now.supply]
    OBVIOUS
  <2>2. IsAnswers(g) /\ g.solPrice = f.solPrice /\ g.trades = f.trades
    BY <1>4, <2>1 DEF IsAnswers
  <2>3. Await(t, "largest", g)
    BY <1>3, <1>5, <1>8, <2>1
  <2> QED
    BY <1>1, <1>2, <1>4, <2>2, <2>3, AwaitKeepsInv DEF PCs
<1>9. CASE Await(t, "accounts", [task[t].got EXCEPT !.largest = Now.largest])
  <2>1. PICK g : g = [f EXCEPT !.largest = now.largest]
    OBVIOUS
  <2>2. IsAnswers(g) /\ g.solPrice = f.solPrice /\ g.trades = f.trades /\ g.largest = now.largest
    BY <1>4, <2>1 DEF IsAnswers
  <2>3. Await(t, "accounts", g)
    BY <1>3, <1>5, <1>9, <2>1
  <2> QED
    BY <1>1, <1>2, <1>4, <1>6, <2>2, <2>3, AwaitKeepsInv DEF PCs
<1>10. CASE At(t, "accounts") /\ HoldersKnown(t, Holders(task[t].got.largest, task[t].got.supply))
  <2>1. PICK h : h = Holders(f.largest, f.supply)
    OBVIOUS
  <2>2. IsFiniteSet(f.largest) /\ Cardinality(f.largest) <= 20
    BY <1>2, <1>3, <1>10, AtSource
  <2>3. h.totalHolders \in 0 .. 20
    BY <2>1, <2>2, FewHolders
  <2>4. HoldersKnown(t, h)
    BY <1>3, <1>10, <2>1
  <2> QED
    BY <1>1, <2>3, <2>4, HoldersKnownKeepsInv
<1> QED
  BY <1>7, <1>8, <1>9, <1>10 DEF MintRead, LargestAccountsRead, AccountsRead

(***************************************************************************)
(* The metrics are complete: the entry conditions are not met.             *)
(***************************************************************************)
LEMMA CreatorHoldingReadKeepsInv ==
    ASSUME Inv, NEW t \in Tasks, CreatorHoldingRead(t)
    PROVE  Inv'
<1>1. At(t, "dev") /\ ~At(t, "solPrice") /\ ~At(t, "idle") /\ ~At(t, "trades")
      /\ UNCHANGED <<solPriceVars, world, moves>>
  BY DEF CreatorHoldingRead, OnlyTask, At
<1>2. PICK f : f = task[t].got
  OBVIOUS
<1>3. /\ IsAnswers(f) /\ f.solPrice \in Nat /\ f.trades \in Trades
      /\ f.holders.totalHolders \in 0 .. 20
  BY <1>1, <1>2, AtSource DEF At
<1>4. PICK supply :
        LET got == [task[t].got EXCEPT !.devHolding = DevHolding(Now.creatorHolding, supply)] IN
        \/ task[t].call = "entry" /\ Decided(t, got, EntryConditions(Metrics(got)))
        \/ task[t].call = "start" /\ Await(t, "add", got)
        \/ task[t].call = "exit" /\ Await(t, "sells", got)
  BY DEF CreatorHoldingRead
<1>5. PICK g : g = [f EXCEPT !.devHolding = DevHolding(Now.creatorHolding, supply)]
  OBVIOUS
<1>6. /\ IsAnswers(g) /\ g.solPrice = f.solPrice /\ g.trades = f.trades
      /\ g.holders = f.holders
  BY <1>3, <1>5 DEF IsAnswers
<1>7. \/ task[t].call = "entry" /\ Decided(t, g, EntryConditions(Metrics(g)))
      \/ Await(t, "add", g)
      \/ task[t].call = "exit" /\ Await(t, "sells", g)
  BY <1>2, <1>4, <1>5
<1>8. CASE Decided(t, g, EntryConditions(Metrics(g)))
  <2>1. PICK met : met = EntryConditions(Metrics(g))
    OBVIOUS
  <2>2. met = FALSE
    <3>1. EntryConditions(Metrics(g)) \in BOOLEAN
      BY DEF EntryConditions
    <3> QED
      BY <1>3, <1>6, <2>1, <3>1, TooFewHolders
  <2>3. Decided(t, g, FALSE)
    BY <1>8, <2>1, <2>2
  <2> QED
    BY <1>1, <1>3, <1>6, <2>3, DecidedKeepsInv
<1>9. CASE Await(t, "add", g)
  BY <1>1, <1>3, <1>6, <1>9, AwaitKeepsInv DEF PCs
<1>10. CASE task[t].call = "exit" /\ Await(t, "sells", g)
  BY <1>1, <1>3, <1>6, <1>10, AwaitKeepsInv DEF PCs
<1> QED
  BY <1>7, <1>8, <1>9, <1>10

LEMMA SellsReadKeepsInv ==
    ASSUME Inv, NEW t \in Tasks, SellsRead(t)
    PROVE  Inv'
<1>1. At(t, "sells") /\ ~At(t, "solPrice") /\ ~At(t, "idle") /\ ~At(t, "trades")
      /\ UNCHANGED <<solPriceVars, world, moves>>
  BY DEF SellsRead, OnlyTask, At
<1>2. PICK f : f = task[t].got
  OBVIOUS
<1>3. IsAnswers(f) /\ f.solPrice \in Nat /\ f.trades \in Trades
  BY <1>1, <1>2, AtSource DEF At
<1>4. PICK g : g = [f EXCEPT !.sellImpact = Now.sellImpact]
  OBVIOUS
<1>5. IsAnswers(g) /\ g.solPrice = f.solPrice /\ g.trades = f.trades
  BY <1>3, <1>4 DEF IsAnswers
<1>6. PICK met : met = ExitConditions(Metrics(g), task[t].entry.entryPrice)
  OBVIOUS
<1>7. met \in BOOLEAN
  BY <1>6 DEF ExitConditions
<1>8. Decided(t, g, met)
  BY <1>2, <1>4, <1>6 DEF SellsRead
<1>9. task[t].call = "exit"
  BY <1>1 DEF Inv, Check, Learnt, At
<1> QED
  BY <1>1, <1>3, <1>5, <1>7, <1>8, <1>9, DecidedKeepsInv

LEMMA StepKeepsInv ==
    ASSUME Inv, NEW t \in Tasks, Step(t)
    PROVE  Inv'
<1>1. CASE SolPriceKnown(t)
  BY <1>1, SolPriceKnownKeepsInv
<1>2. CASE TradesCounted(t) \/ CreateEventFound(t) \/ CurveRead(t)
             \/ SignatureRead(t) \/ TransactionRead(t)
  BY <1>2, ReadsKeepInv
<1>3. CASE MintRead(t) \/ LargestAccountsRead(t) \/ AccountsRead(t)
  BY <1>3, TopHoldersKeepInv
<1>4. CASE CreatorHoldingRead(t)
  BY <1>4, CreatorHoldingReadKeepsInv
<1>5. CASE SellsRead(t)
  BY <1>5, SellsReadKeepsInv
<1>6. CASE PositionAdded(t)
  BY <1>6, ReturnKeepsInv DEF PositionAdded, At
<1>7. CASE Handled(t)
  BY <1>7, ReturnKeepsInv DEF Handled, At
<1>8. CASE CheckFails(t)
  BY <1>8, ReturnKeepsInv DEF CheckFails, OnlyTask, At
<1> QED
  BY <1>1, <1>2, <1>3, <1>4, <1>5, <1>6, <1>7, <1>8 DEF Step

(***************************************************************************)
(* Steps of getSolPrice take a caller from one of its awaits to another;   *)
(* time and the price of SOL leave the callers where they are.             *)
(***************************************************************************)
LEMMA SolPriceMovesKeepsInv ==
    ASSUME Inv, SolPriceMoves
    PROVE  Inv'
<1>1. SolInv
  BY DEF Inv
<1>2. SolInv'
  BY <1>1, SolPriceStepKeepsInv, SolMovesKeepsInv, TickKeepsInv DEF SolPriceMoves
<1>3. DOMAIN ask = Callers /\ ask = [c \in Callers |-> ask[c]]
  BY <1>1 DEF SolInv, SolPriceTypeOK
<1>4. \A t \in Tasks : ask'[t].at # "idle" <=> ask[t].at # "idle"
  <2> SUFFICES ASSUME NEW t \in Tasks
               PROVE  ask'[t].at # "idle" <=> ask[t].at # "idle"
    OBVIOUS
  <2>1. t \in Callers
    BY MetricsAssumption
  <2>2. ASSUME NEW c \in Callers, SolPriceStep(c)
        PROVE  ask'[t].at # "idle" <=> ask[t].at # "idle"
    <3>1. ASSUME NEW a, Ask(c, a), a.at # "idle", ask[c].at # "idle"
          PROVE  ask'[t].at # "idle" <=> ask[t].at # "idle"
      BY <1>3, <2>1, <3>1 DEF Ask
    <3>2. CASE CacheAnswers(c)
      <4>1. ask[c] \in [at : {"idle", "cache", "fetch", "write", "got"},
                        price : SolPrices \cup {FALLBACK}, age : 0 .. MaxTrip]
        BY <1>1 DEF SolInv, SolPriceTypeOK
      <4>2. PICK b, g : /\ b = [ask[c] EXCEPT !.at = "fetch"]
                        /\ g = [at |-> "got", price |-> cache.price, age |-> 0]
        OBVIOUS
      <4>3. b.at # "idle" /\ g.at # "idle"
        BY <4>1, <4>2
      <4>4. ask[c].at # "idle" /\ (Ask(c, b) \/ Ask(c, g))
        BY <3>2, <4>2 DEF CacheAnswers, Got
      <4> QED
        BY <3>1, <4>3, <4>4
    <3>3. CASE CoinGeckoAnswers(c)
      <4>1. PICK b : b = [at |-> "write", price |-> usd, age |-> 0]
        OBVIOUS
      <4>2. b.at # "idle" /\ ask[c].at # "idle" /\ Ask(c, b)
        BY <3>3, <4>1 DEF CoinGeckoAnswers
      <4> QED
        BY <3>1, <4>2
    <3>4. CASE CacheWritten(c) \/ SolPriceFails(c)
      <4>1. PICK p : ask[c].at # "idle" /\ Got(c, p)
        BY <3>4 DEF CacheWritten, SolPriceFails
      <4>2. PICK b : b = [at |-> "got", price |-> p, age |-> 0]
        OBVIOUS
      <4>3. b.at # "idle" /\ Ask(c, b)
        BY <4>1, <4>2 DEF Got
      <4> QED
        BY <3>1, <4>1, <4>3
    <3> QED
      BY <2>2, <3>2, <3>3, <3>4 DEF SolPriceStep
  <2>3. ASSUME NEW c \in Callers \ Tasks, GetSolPrice(c) \/ SolPriceReturns(c)
        PROVE  ask'[t] = ask[t]
    BY <1>3, <2>1, <2>3 DEF GetSolPrice, SolPriceReturns, Ask
  <2>4. CASE SolMoves
    BY <2>4 DEF SolMoves
  <2>5. CASE Tick
    <3>1. ask'[t] = IF ask[t].at = "write" THEN [ask[t] EXCEPT !.age = @ + 1] ELSE ask[t]
      BY <2>1, <2>5 DEF Tick
    <3>2. ask[t] \in [at : {"idle", "cache", "fetch", "write", "got"},
                      price : SolPrices \cup {FALLBACK}, age : 0 .. MaxTrip]
      BY <1>1, <2>1 DEF SolInv, SolPriceTypeOK
    <3> QED
      BY <3>1, <3>2
  <2> QED
    BY <2>2, <2>3, <2>4, <2>5 DEF SolPriceMoves
<1> QED
  BY <1>2, <1>4 DEF Inv, SolPriceMoves, At

(***************************************************************************)
(* What holds of the cache and of every check holds always.                *)
(***************************************************************************)
LEMMA Invariance == Spec => []Inv
<1>1. Init => Inv
  <2> SUFFICES ASSUME Init PROVE Inv
    OBVIOUS
  <2>1. SolInv
    BY SolPriceAssumption
    DEF Init, SolPriceInit, SolInv, SolPriceTypeOK, AgesTogether, NoQuote, NotAsking
  <2>2. \A t \in Tasks : task[t] = Idle
    BY DEF Init
  <2>3. \A t \in Tasks : ask[t].at = "idle"
    BY MetricsAssumption DEF Init, SolPriceInit, NotAsking
  <2>4. Idle.pc = "idle"
    BY DEF Idle
  <2> QED
    BY <2>1, <2>2, <2>3, <2>4, IdleIsCheck, MetricsAssumption DEF Init, Inv, At
<1>2. Inv /\ [Next]_vars => Inv'
  <2> SUFFICES ASSUME Inv, [Next]_vars PROVE Inv'
    OBVIOUS
  <2>1. ASSUME NEW t \in Tasks, Step(t) PROVE Inv'
    BY <2>1, StepKeepsInv
  <2>2. ASSUME NEW t \in Tasks, NEW call \in {"entry", "start", "exit"}, Call(t, call)
        PROVE  Inv'
    BY <2>2, CallKeepsInv
  <2>3. CASE WorldMoves
    BY <2>3, MetricsAssumption
    DEF WorldMoves, Inv, SolInv, SolPriceTypeOK, AgesTogether, solPriceVars, At
  <2>4. CASE SolPriceMoves
    BY <2>4, SolPriceMovesKeepsInv
  <2>5. CASE UNCHANGED vars
    BY <2>5 DEF vars, Inv, SolInv, SolPriceTypeOK, AgesTogether, solPriceVars, At
  <2> QED
    BY <2>1, <2>2, <2>3, <2>4, <2>5 DEF Next
<1> QED
  BY <1>1, <1>2, PTL DEF Spec

(***************************************************************************)
(* The types of the state; a check has asked for the price of SOL exactly  *)
(* if it waits for it, and decides on nothing but complete trades.         *)
(***************************************************************************)
THEOREM TypeCorrect == Spec => []TypeOK
<1>1. Inv => TypeOK
  BY DEF Inv, SolInv, TypeOK, Check, Learnt, At
<1> QED
  BY <1>1, Invariance, PTL

(***************************************************************************)
(* No cached price of SOL is older than CACHE_DURATION and one trip.       *)
(***************************************************************************)
THEOREM QuoteStaysFresh == Spec => []QuoteFresh
<1>1. Inv => QuoteFresh
  BY SolPriceAssumption DEF Inv, SolInv, SolPriceTypeOK, AgesTogether, QuoteFresh, IsCached
<1> QED
  BY <1>1, Invariance, PTL

(***************************************************************************)
(* No token is ever entered, whatever its sources answer and whenever.     *)
(***************************************************************************)
THEOREM NeverEnters == Spec => []NoEntrySignal
<1>1. Inv => NoEntrySignal
  BY DEF Inv, Check, NoEntrySignal
<1> QED
  BY <1>1, Invariance, PTL

(***************************************************************************)
(* While there are at most 150 SOL in a curve, the estimate that stands in *)
(* for the price of a trade that was not found reaches the profit target   *)
(* over the reserves' own ratio, when nothing has changed.                 *)
(***************************************************************************)
THEOREM EstimateSignalsProfit ==
    ASSUME NEW S \in 1 .. 150, NEW T \in Nat \ {0}
    PROVE  LET a == [sol |-> S, token |-> T]
           IN HasReachedProfitTarget(PriceWithSlippage(a), SolPerToken(a))
<1>1. 200 * ((30 + S) * (301 + 10 * S)) >= 2871 * (S * S)
  OBVIOUS
<1> QED
  BY <1>1 DEF HasReachedProfitTarget, PriceWithSlippage, SolPerToken

-----------------------------------------------------------------------------
(* Ratios in lowest terms.                                                 *)

\* What fails for some number fails for a least one: induction, for the provers.
LEMMA LeastNatural ==
    ASSUME NEW S, S \subseteq Nat, S # {}
    PROVE  \E m \in S : \A n \in S : m <= n
<1>1. PICK R : IsWellFoundedOn(R, Nat) /\ \A m, n \in Nat : m < n => <<m, n>> \in R
  <2>1. \A m, n \in Nat : m < n => <<m, n>> \in OpToRel(<, Nat)
    BY DEF OpToRel
  <2> QED
    BY <2>1, NatLessThanWellFounded
<1>2. PICK m \in S : \A n \in S : ~(<<n, m>> \in R)
  <2>1. IsWellFoundedOn(R, Nat) /\ S \subseteq Nat /\ S # {}
    BY <1>1
  <2>2. \A Q, N, T : IsWellFoundedOn(Q, N) /\ T \subseteq N /\ T # {}
          => \E x \in T : \A y \in T : ~(<<y, x>> \in Q)
    BY WFMin
  <2>3. \E x \in S : \A y \in S : ~(<<y, x>> \in R)
    BY <2>1, <2>2
  <2> QED
    BY <2>3
<1>3. \A n \in S : ~(n < m)
  BY <1>1, <1>2
<1> QED
  BY <1>3

Divides(k, a) == \E i \in Nat : a = i * k
Divisors(a, b) == {k \in Nat \ {0} : Divides(k, a) /\ Divides(k, b)}

LEMMA DividesSum ==
    ASSUME NEW k \in Nat, NEW a \in Nat, NEW b \in Nat, Divides(k, a), Divides(k, b)
    PROVE  Divides(k, a + b)
<1>1. PICK i, j \in Nat : a = i * k /\ b = j * k
  BY DEF Divides
<1>2. a + b = (i + j) * k /\ i + j \in Nat
  BY <1>1
<1> QED
  BY <1>2 DEF Divides

LEMMA DividesDifference ==
    ASSUME NEW k \in Nat \ {0}, NEW a \in Nat, NEW b \in Nat, Divides(k, a + b), Divides(k, b)
    PROVE  Divides(k, a)
<1>1. PICK i, j \in Nat : a + b = i * k /\ b = j * k
  BY DEF Divides
<1>2. a = (i - j) * k
  BY <1>1
<1>3. i - j >= 0
  <2> SUFFICES ASSUME i - j <= -1 PROVE FALSE
    OBVIOUS
  <2>1. PICK m \in Nat : i - j = -1 - m
    <3>1. -1 - (i - j) \in Nat
      OBVIOUS
    <3>2. i - j = -1 - (-1 - (i - j))
      OBVIOUS
    <3> QED
      BY <3>1, <3>2
  <2>2. a = (-1 - m) * k
    BY <1>2, <2>1
  <2>3. (-1 - m) * k = -k - m * k /\ m * k \in Nat
    OBVIOUS
  <2> QED
    BY <2>2, <2>3
<1>4. i - j \in Nat
  BY <1>3
<1> QED
  BY <1>2, <1>4 DEF Divides

LEMMA DividesMultiple ==
    ASSUME NEW k \in Nat, NEW a \in Nat, NEW m \in Nat, Divides(k, a)
    PROVE  Divides(k, m * a)
<1>1. PICK i \in Nat : a = i * k
  BY DEF Divides
<1>2. m * a = (m * i) * k /\ m * i \in Nat
  BY <1>1
<1> QED
  BY <1>2 DEF Divides

LEMMA Division ==
    ASSUME NEW a \in Nat, NEW b \in Nat \ {0}
    PROVE  a \div b \in Nat /\ a % b \in Nat /\ a % b < b /\ a = (a % b) + (a \div b) * b
OBVIOUS

LEMMA DivisorsOfRemainder ==
    ASSUME NEW a \in Nat, NEW b \in Nat \ {0}
    PROVE  Divisors(a, b) = Divisors(b, a % b)
<1>1. PICK q, r \in Nat : q = a \div b /\ r = a % b /\ a = r + q * b
  BY Division
<1>2. q * b \in Nat
  OBVIOUS
<1>3. ASSUME NEW k \in Nat \ {0}, Divides(k, b)
      PROVE  Divides(k, a) <=> Divides(k, r)
  <2>1. Divides(k, q * b)
    BY <1>3, DividesMultiple
  <2>2. Divides(k, r) => Divides(k, r + q * b)
    BY <1>2, <2>1, DividesSum
  <2>3. Divides(k, r + q * b) => Divides(k, r)
    BY <1>2, <2>1, DividesDifference
  <2> QED
    BY <1>1, <2>2, <2>3
<1> QED
  BY <1>1, <1>3 DEF Divisors

LEMMA DividesBounds ==
    ASSUME NEW k \in Nat, NEW a \in Nat \ {0}, Divides(k, a)
    PROVE  k <= a
<1>1. PICK i \in Nat : a = i * k
  BY DEF Divides
<1>2. i # 0
  BY <1>1
<1>3. PICK j \in Nat : i = j + 1
  <2>1. i - 1 \in Nat /\ i = (i - 1) + 1
    BY <1>2
  <2> QED
    BY <2>1
<1>4. a = j * k + k /\ j * k \in Nat
  BY <1>1, <1>3
<1> QED
  BY <1>4

\* A number is known by its divisors.
LEMMA DivisorsTell ==
    ASSUME NEW a \in Nat, NEW c \in Nat, Divisors(a, 0) = Divisors(c, 0)
    PROVE  a = c
<1>1. \A k \in Nat : Divides(k, 0)
  BY DEF Divides
<1>2. \A k \in Nat : Divides(k, k)
  BY DEF Divides
<1>3. \A k \in Nat \ {0} : Divides(k, a) <=> Divides(k, c)
  BY <1>1 DEF Divisors
<1>4. CASE a # 0 /\ c # 0
  <2>1. Divides(a, c) /\ Divides(c, a)
    BY <1>2, <1>3, <1>4
  <2> QED
    BY <1>4, <2>1, DividesBounds
<1>5. ASSUME NEW m \in Nat \ {0} PROVE ~Divides(m + 1, m)
  BY DividesBounds
<1>6. CASE a = 0 /\ c # 0
  <2>1. Divides(c + 1, c)
    BY <1>1, <1>3, <1>6
  <2> QED
    BY <1>5, <1>6, <2>1
<1>7. CASE c = 0 /\ a # 0
  <2>1. Divides(a + 1, a)
    BY <1>1, <1>3, <1>7
  <2> QED
    BY <1>5, <1>7, <2>1
<1> QED
  BY <1>4, <1>6, <1>7

(***************************************************************************)
(* Euclid's equations have a solution, so that gcd satisfies them: a pair  *)
(* has the divisors of the pair it is reduced to.                          *)
(***************************************************************************)
LEMMA Euclid ==
    \A a, b \in Nat : gcd[<<a, b>>] = IF b = 0 THEN a ELSE gcd[<<b, a % b>>]
<1> DEFINE Once(f, p) == IF p[2] = 0 THEN p[1] ELSE f[<<p[2], p[1] % p[2]>>]
<1> DEFINE G == [p \in Nat \X Nat |-> CHOOSE a \in Nat : Divisors(a, 0) = Divisors(p[1], p[2])]
<1>1. \A p \in Nat \X Nat : G[p] = Once(G, p)
  <2> SUFFICES \A a, b \in Nat : G[<<a, b>>] = Once(G, <<a, b>>)
    <3> HIDE DEF G, Once
    <3> QED
      OBVIOUS
  <2> TAKE a, b \in Nat
  <2>1. CASE b = 0
    <3>1. PICK c : c = G[<<a, b>>]
      OBVIOUS
    <3>2. c = CHOOSE x \in Nat : Divisors(x, 0) = Divisors(a, b)
      BY <3>1
    <3>3. c \in Nat /\ Divisors(c, 0) = Divisors(a, 0)
      BY <2>1, <3>2
    <3>4. c = a
      BY <3>3, DivisorsTell
    <3> QED
      BY <2>1, <3>1, <3>4
  <2>2. CASE b # 0
    <3>1. a % b \in Nat /\ Divisors(a, b) = Divisors(b, a % b)
      BY <2>2, DivisorsOfRemainder
    <3>2. PICK r \in Nat : r = a % b
      BY <3>1
    <3>3. G[<<a, b>>] = (CHOOSE x \in Nat : Divisors(x, 0) = Divisors(a, b))
          /\ G[<<b, r>>] = (CHOOSE x \in Nat : Divisors(x, 0) = Divisors(b, r))
      OBVIOUS
    <3>4. G[<<a, b>>] = G[<<b, r>>]
      BY <3>1, <3>2, <3>3
    <3> HIDE DEF G
    <3> QED
      BY <2>2, <3>2, <3>4
  <2> QED
    BY <2>1, <2>2
<1>2. G = [p \in Nat \X Nat |-> Once(G, p)]
  <2>1. G = [p \in Nat \X Nat |-> G[p]]
    OBVIOUS
  <2> HIDE DEF G, Once
  <2> QED
    BY <1>1, <2>1
<1> HIDE DEF G
<1>3. gcd = CHOOSE f : f = [p \in Nat \X Nat |-> Once(f, p)]
  BY DEF gcd
<1>4. gcd = [p \in Nat \X Nat |-> Once(gcd, p)]
  <2> HIDE DEF Once
  <2> QED
    BY <1>2, <1>3
<1> QED
  BY <1>4

(***************************************************************************)
(* What gcd computes divides both numbers: by induction on the second.     *)
(***************************************************************************)
LEMMA GcdDivides ==
    \A b, a \in Nat :
        /\ gcd[<<a, b>>] \in Nat /\ Divides(gcd[<<a, b>>], a) /\ Divides(gcd[<<a, b>>], b)
        /\ a # 0 \/ b # 0 => gcd[<<a, b>>] # 0
<1> DEFINE P(b) == \A a \in Nat :
        /\ gcd[<<a, b>>] \in Nat /\ Divides(gcd[<<a, b>>], a) /\ Divides(gcd[<<a, b>>], b)
        /\ a # 0 \/ b # 0 => gcd[<<a, b>>] # 0
<1> SUFFICES ASSUME {b \in Nat : ~P(b)} # {} PROVE FALSE
  OBVIOUS
<1>1. PICK b \in {c \in Nat : ~P(c)} : \A c \in {d \in Nat : ~P(d)} : b <= c
  <2> HIDE DEF P
  <2>1. {c \in Nat : ~P(c)} \subseteq Nat
    OBVIOUS
  <2> QED
    BY <2>1, LeastNatural
<1>2. \A c \in Nat : c < b => P(c)
  <2> HIDE DEF P
  <2> QED
    BY <1>1
<1>3. P(b)
  <2> SUFFICES ASSUME NEW a \in Nat
               PROVE  /\ gcd[<<a, b>>] \in Nat
                      /\ Divides(gcd[<<a, b>>], a) /\ Divides(gcd[<<a, b>>], b)
                      /\ a # 0 \/ b # 0 => gcd[<<a, b>>] # 0
    OBVIOUS
  <2>1. CASE b = 0
    <3>1. gcd[<<a, b>>] = a
      BY <2>1, Euclid
    <3>2. Divides(a, a) /\ Divides(a, 0)
      BY DEF Divides
    <3> QED
      BY <2>1, <3>1, <3>2
  <2>2. CASE b # 0
    <3>1. PICK q, r \in Nat : r = a % b /\ r < b /\ a = r + q * b
      BY <2>2, Division
    <3>2. PICK g : g = gcd[<<b, r>>]
      OBVIOUS
    <3>3. gcd[<<a, b>>] = g
      BY <2>2, <3>1, <3>2, Euclid
    <3>4. g \in Nat /\ Divides(g, b) /\ Divides(g, r) /\ g # 0
      BY <1>2, <2>2, <3>1, <3>2
    <3>5. Divides(g, q * b) /\ q * b \in Nat
      BY <3>4, DividesMultiple
    <3>6. Divides(g, a)
      BY <3>1, <3>4, <3>5, DividesSum
    <3> QED
      BY <3>3, <3>4, <3>6
  <2> QED
    BY <2>1, <2>2
<1> QED
  BY <1>1, <1>3

(***************************************************************************)
(* A ratio in lowest terms is the ratio, and infinite only if that was.    *)
(***************************************************************************)
LEMMA RatioFacts ==
    ASSUME NEW n \in Nat, NEW d \in Nat, n # 0 \/ d # 0
    PROVE  /\ Ratio(n, d).n \in Nat /\ Ratio(n, d).d \in Nat
           /\ Ratio(n, d).d = 0 <=> d = 0
           /\ Ratio(n, d).n * d = n * Ratio(n, d).d
<1>1. PICK g \in Nat : g = gcd[<<n, d>>] /\ g # 0 /\ Divides(g, n) /\ Divides(g, d)
  BY GcdDivides
<1>2. PICK i, j \in Nat : n = i * g /\ d = j * g
  BY <1>1 DEF Divides
<1>3. n \div g = i /\ d \div g = j
  BY <1>1, <1>2
<1>4. Ratio(n, d) = [n |-> i, d |-> j]
  BY <1>1, <1>3 DEF Ratio
<1>5. i * d = n * j
  BY <1>2
<1>6. j = 0 <=> d = 0
  BY <1>1, <1>2
<1> QED
  BY <1>4, <1>5, <1>6

-----------------------------------------------------------------------------
(* Where the price of a check comes from.                                  *)

Amounts == [sol : Nat, token : Nat]

\* The awaits of a check that has its price.
PricedPCs == {"mint", "largest", "accounts", "dev", "add", "sells", "decided"}

\* p is the price of the trade, in the dollars that s is in.
PriceIsOf(p, last, s) ==
    /\ p.n \in Nat /\ p.d \in Nat
    /\ IsTrade(last) => p.d # 0 /\ p.n * last.token = last.sol * s * p.d

\* What has been answered by then, as far as the price depends on it.
Known(pc, got) ==
    /\ pc \notin {"idle", "solPrice"} => got.solPrice \in Nat \ {0}
    /\ pc \in {"signature", "transaction"} => got.curve \in Amounts \cup {None}
    /\ pc \in PricedPCs \cup {"transaction"} => got.last \in Amounts \cup {None}
    /\ pc \in PricedPCs => PriceIsOf(got.price, got.last, got.solPrice)

\* The entry price is the one of its trade, and never Infinity.
PositionIs(q) ==
    /\ q.last \in Amounts \cup {None} /\ q.solPrice \in Nat \ {0}
    /\ PriceIsOf(q.entryPrice, q.last, q.solPrice) /\ q.entryPrice.d # 0
    /\ ~q.known => q.entryPrice = Zero

Quotes(r) ==
    /\ Known(r.pc, r.got)
    /\ r.call = "exit" => PositionIs(r.entry)
    /\ r.call = "exit" /\ r.pc = "decided" =>
         (HasReachedProfitTarget(r.got.price, r.entry.entryPrice) => r.met)

PriceInv ==
    /\ position # None => PositionIs(position)
    /\ \A t \in Tasks : Quotes(task[t])

(***************************************************************************)
(* calculatePriceWithSlippage and getLatestTradePrice, in dollars.         *)
(***************************************************************************)
LEMMA PriceIsOfItsTrade ==
    ASSUME NEW last \in Amounts \cup {None}, NEW curve \in Amounts \cup {None},
           NEW s \in Nat \ {0}
    PROVE  PriceIsOf(PriceInUSD(PriceInSol(last, curve), s), last, s)
<1>1. PICK p : p = PriceInSol(last, curve)
  OBVIOUS
<1>2. PICK q : q = Ratio(p.n * s, p.d)
  OBVIOUS
<1>3. CASE IsTrade(last)
  <2>1. p = [n |-> last.sol, d |-> last.token]
    BY <1>1, <1>3 DEF PriceInSol, SolPerToken
  <2>2. last.sol \in Nat /\ last.token \in Nat /\ last.token # 0
    BY <1>3 DEF IsTrade, Amounts
  <2>3. PICK n, d \in Nat : n = last.sol * s /\ d = last.token /\ d # 0
    BY <2>2
  <2>4. q = Ratio(n, d)
    BY <1>2, <2>1, <2>3
  <2>5. q.n \in Nat /\ q.d \in Nat /\ q.d # 0 /\ q.n * d = n * q.d
    BY <2>3, <2>4, RatioFacts
  <2> QED
    BY <1>1, <1>2, <2>3, <2>5 DEF PriceIsOf, PriceInUSD
<1>4. CASE ~IsTrade(last)
  <2>1. PICK a : a = AdjustedState(curve)
    OBVIOUS
  <2>2. a.sol \in Nat /\ a.token \in Nat
    <3>1. CASE curve = None
      BY <2>1, <3>1 DEF AdjustedState
    <3>2. CASE curve # None
      <4>1. curve.sol \in Nat /\ curve.token \in Nat
        BY <3>2 DEF Amounts
      <4>2. curve.sol \div LAMPORTS \in Nat /\ curve.token \div UNITS \in Nat
        BY <4>1, MetricsAssumption
      <4> QED
        BY <2>1, <3>2, <4>2 DEF AdjustedState
    <3> QED
      BY <3>1, <3>2
  <2>3. PICK x, y \in Nat : x = a.sol /\ y = a.token
    BY <2>2
  <2>4. p = [n |-> 10 * (30 + x) * (301 + 10 * x), d |-> 99 * y * x]
    BY <1>1, <1>4, <2>1, <2>3 DEF PriceInSol, PriceWithSlippage
  <2>5. PICK u, v \in Nat \ {0} : u = 10 * (30 + x) /\ v = 301 + 10 * x
    <3>1. 10 * (30 + x) \in Nat \ {0} /\ 301 + 10 * x \in Nat \ {0}
      OBVIOUS
    <3> QED
      BY <3>1
  <2>6. u * v \in Nat \ {0}
    OBVIOUS
  <2>7. u * v * s \in Nat \ {0}
    BY <2>6
  <2>8. 99 * y * x \in Nat
    OBVIOUS
  <2>9. PICK n \in Nat \ {0}, d \in Nat : n = u * v * s /\ d = 99 * y * x
    BY <2>7, <2>8
  <2>10. q = Ratio(n, d)
    BY <1>2, <2>4, <2>5, <2>9
  <2>11. q.n \in Nat /\ q.d \in Nat
    BY <2>10, RatioFacts
  <2> QED
    BY <1>1, <1>2, <1>4, <2>11 DEF PriceIsOf, PriceInUSD
<1> QED
  BY <1>3, <1>4

(***************************************************************************)
(* A step of one check: it is enough to show what holds of the check.      *)
(***************************************************************************)
LEMMA TaskKeepsPrices ==
    ASSUME Inv, PriceInv, NEW t \in Tasks, NEW r, task' = [task EXCEPT ![t] = r], Quotes(r),
           position' # None => PositionIs(position')
    PROVE  PriceInv'
<1>1. task'[t] = r /\ \A u \in Tasks : u # t => task'[u] = task[u]
  BY DEF Inv
<1>2. \A u \in Tasks : Quotes(task'[u])
  BY <1>1 DEF PriceInv
<1> QED
  BY <1>2 DEF PriceInv

LEMMA ReturnKeepsPrices ==
    ASSUME Inv, PriceInv, NEW t \in Tasks, Return(t),
           position' # None => PositionIs(position')
    PROVE  PriceInv'
<1>1. Quotes(Idle)
  BY DEF Quotes, Idle, Known, PricedPCs
<1> QED
  BY <1>1, TaskKeepsPrices DEF Return

LEMMA AwaitKeepsPrices ==
    ASSUME Inv, PriceInv, NEW t \in Tasks, NEW pc, pc # "decided", NEW got,
           Await(t, pc, got), Known(pc, got), UNCHANGED position
    PROVE  PriceInv'
<1>1. PICK x, y, r : x = task[t] /\ y = [x EXCEPT !.pc = pc] /\ r = [y EXCEPT !.got = got]
  OBVIOUS
<1>2. x = [call |-> x.call, pc |-> x.pc, entry |-> x.entry, got |-> x.got, met |-> x.met]
  BY <1>1 DEF Inv, Check, IsCheck
<1>3. y = [call |-> x.call, pc |-> pc, entry |-> x.entry, got |-> x.got, met |-> x.met]
  BY <1>1, <1>2
<1>4. r = [call |-> x.call, pc |-> pc, entry |-> x.entry, got |-> got, met |-> x.met]
  BY <1>1, <1>3
<1>5. task' = [task EXCEPT ![t] = r]
  BY <1>1 DEF Await, Inv
<1>6. Quotes(x)
  BY <1>1 DEF PriceInv
<1>7. Quotes(r)
  BY <1>4, <1>6 DEF Quotes
<1> QED
  BY <1>5, <1>7, TaskKeepsPrices DEF PriceInv

LEMMA DecidedKeepsPrices ==
    ASSUME Inv, PriceInv, NEW t \in Tasks, NEW got, NEW met,
           Decided(t, got, met), Known("decided", got), UNCHANGED position,
           task[t].call = "exit" =>
             (HasReachedProfitTarget(got.price, task[t].entry.entryPrice) => met)
    PROVE  PriceInv'
<1>1. PICK x, y, z, r : /\ x = task[t] /\ y = [x EXCEPT !.pc = "decided"]
                        /\ z = [y EXCEPT !.got = got] /\ r = [z EXCEPT !.met = met]
  OBVIOUS
<1>2. x = [call |-> x.call, pc |-> x.pc, entry |-> x.entry, got |-> x.got, met |-> x.met]
  BY <1>1 DEF Inv, Check, IsCheck
<1>3. y = [call |-> x.call, pc |-> "decided", entry |-> x.entry, got |-> x.got, met |-> x.met]
  BY <1>1, <1>2
<1>4. z = [call |-> x.call, pc |-> "decided", entry |-> x.entry, got |-> got, met |-> x.met]
  BY <1>1, <1>3
<1>5. r = [call |-> x.call, pc |-> "decided", entry |-> x.entry, got |-> got, met |-> met]
  BY <1>1, <1>4
<1>6. task' = [task EXCEPT ![t] = r]
  BY <1>1 DEF Decided, Inv
<1>7. Quotes(x)
  BY <1>1 DEF PriceInv
<1>8. Quotes(r)
  BY <1>1, <1>5, <1>7 DEF Quotes
<1> QED
  BY <1>6, <1>8, TaskKeepsPrices DEF PriceInv

(***************************************************************************)
(* What a check knows of the price it keeps until it returns.              *)
(***************************************************************************)
LEMMA KnownStays ==
    ASSUME NEW from, NEW pc, NEW f, NEW g, Known(from, f), from \in PricedPCs,
           g.solPrice = f.solPrice, g.last = f.last, g.price = f.price, pc \in PricedPCs
    PROVE  Known(pc, g)
BY DEF Known, PricedPCs, PriceIsOf

LEMMA CallKeepsPrices ==
    ASSUME Inv, PriceInv, NEW t \in Tasks, NEW call \in {"entry", "start", "exit"}, Call(t, call)
    PROVE  PriceInv'
<1>1. PICK r : r = [call |-> call, pc |-> "solPrice",
                    entry |-> IF call = "exit" THEN position ELSE None,
                    got |-> [NoAnswers EXCEPT !.age = Now.age], met |-> FALSE]
  OBVIOUS
<1>2. task' = [task EXCEPT ![t] = r] /\ UNCHANGED position
  BY <1>1 DEF Call
<1>3. r.call = "exit" => PositionIs(r.entry)
  BY <1>1 DEF Call, PriceInv
<1>4. Known(r.pc, r.got) /\ r.pc # "decided"
  BY <1>1 DEF Known, PricedPCs
<1>5. Quotes(r)
  BY <1>3, <1>4 DEF Quotes
<1> QED
  BY <1>2, <1>5, TaskKeepsPrices DEF PriceInv

LEMMA SolPriceKnownKeepsPrices ==
    ASSUME Inv, PriceInv, NEW t \in Tasks, SolPriceKnown(t)
    PROVE  PriceInv'
<1>1. ask[t].price \in SolPrices \cup {FALLBACK}
  BY MetricsAssumption DEF Inv, SolInv, SolPriceTypeOK
<1>2. ask[t].price \in Nat \ {0}
  <2>1. FALLBACK \in Nat \ {0}
    BY DEF FALLBACK
  <2> QED
    BY <1>1, <2>1, SolPriceAssumption
<1>3. PICK g : g = [task[t].got EXCEPT !.solPrice = ask[t].price]
  OBVIOUS
<1>4. IsAnswers(task[t].got)
  BY DEF Inv, Check
<1>5. g.solPrice = ask[t].price
  BY <1>3, <1>4 DEF IsAnswers
<1>6. Await(t, "trades", g) /\ UNCHANGED position
  BY <1>3 DEF SolPriceKnown
<1>7. Known("trades", g)
  BY <1>2, <1>5 DEF Known, PricedPCs
<1> QED
  BY <1>6, <1>7, AwaitKeepsPrices

LEMMA PricedKeepsPrices ==
    ASSUME Inv, PriceInv, NEW t \in Tasks, NEW last \in Amounts \cup {None},
           task[t].got.curve \in Amounts \cup {None}, task[t].got.solPrice \in Nat \ {0},
           Priced(t, last), UNCHANGED position
    PROVE  PriceInv'
<1>1. PICK f : f = task[t].got
  OBVIOUS
<1>2. PICK p : p = PriceInUSD(PriceInSol(last, f.curve), f.solPrice)
  OBVIOUS
<1>3. PICK x, y, g : /\ x = [f EXCEPT !.last = last] /\ y = [x EXCEPT !.curve = None]
                     /\ g = [y EXCEPT !.price = p]
  OBVIOUS
<1>4. IsAnswers(f)
  BY <1>1 DEF Inv, Check
<1>5. IsAnswers(x) /\ x.solPrice = f.solPrice /\ x.last = last
  BY <1>3, <1>4 DEF IsAnswers
<1>6. IsAnswers(y) /\ y.solPrice = f.solPrice /\ y.last = last
  BY <1>3, <1>5 DEF IsAnswers
<1>7. g.solPrice = f.solPrice /\ g.last = last /\ g.price = p
  BY <1>3, <1>6 DEF IsAnswers
<1>8. g = [f EXCEPT !.last = last, !.curve = None, !.price = p]
  BY <1>3
<1>9. Await(t, "mint", g)
  BY <1>1, <1>2, <1>8 DEF Priced
<1>10. PriceIsOf(p, last, f.solPrice)
  BY <1>1, <1>2, PriceIsOfItsTrade
<1>11. Known("mint", g)
  BY <1>1, <1>7, <1>10 DEF Known, PriceIsOf
<1> QED
  BY <1>9, <1>11, AwaitKeepsPrices

LEMMA ReadsKeepPrices ==
    ASSUME Inv, PriceInv, NEW t \in Tasks,
           TradesCounted(t) \/ CreateEventFound(t) \/ CurveRead(t)
             \/ SignatureRead(t) \/ TransactionRead(t)
    PROVE  PriceInv'
<1>1. PICK f : f = task[t].got
  OBVIOUS
<1>2. IsAnswers(f) /\ Known(task[t].pc, f)
  BY <1>1 DEF Inv, Check, PriceInv, Quotes
<1>3. PICK now : now = Now
  OBVIOUS
<1>4. now.curve \in Amounts \cup {None} /\ now.last \in Amounts \cup {None}
  BY <1>3, MetricsAssumption DEF Inv, Now, Amounts
<1>5. task[t].pc \notin {"idle", "solPrice"} /\ UNCHANGED position
  BY DEF TradesCounted, CreateEventFound, CurveRead, SignatureRead, TransactionRead,
         OnlyTask, At
<1>6. f.solPrice \in Nat \ {0}
  BY <1>2, <1>5 DEF Known
<1>7. ASSUME NEW pc \in {"event", "curve"}, NEW g, Await(t, pc, g), g.solPrice = f.solPrice
      PROVE  PriceInv'
  <2>1. Known(pc, g)
    BY <1>6, <1>7 DEF Known, PricedPCs
  <2> QED
    BY <1>5, <1>7, <2>1, AwaitKeepsPrices
<1>8. CASE TradesCounted(t)
  <2>1. PICK g : g = [f EXCEPT !.trades = now.trades]
    OBVIOUS
  <2>2. Await(t, "event", g)
    BY <1>1, <1>3, <1>8, <2>1 DEF TradesCounted
  <2>3. g.solPrice = f.solPrice
    BY <1>2, <2>1 DEF IsAnswers
  <2> QED
    BY <1>7, <2>2, <2>3
<1>9. CASE CreateEventFound(t)
  BY <1>1, <1>7, <1>9 DEF CreateEventFound
<1>10. CASE CurveRead(t)
  <2>1. PICK g : g = [f EXCEPT !.curve = now.curve]
    OBVIOUS
  <2>2. Await(t, "signature", g)
    BY <1>1, <1>3, <1>10, <2>1 DEF CurveRead
  <2>3. g.solPrice = f.solPrice /\ g.curve = now.curve
    BY <1>2, <2>1 DEF IsAnswers
  <2>4. Known("signature", g)
    BY <1>4, <1>6, <2>3 DEF Known, PricedPCs
  <2> QED
    BY <1>5, <2>2, <2>4, AwaitKeepsPrices
<1>11. CASE SignatureRead(t)
  <2>1. f.curve \in Amounts \cup {None}
    BY <1>1, <1>2, <1>11 DEF SignatureRead, At, Known
  <2>2. CASE Priced(t, None)
    BY <1>1, <1>5, <1>6, <2>1, <2>2, PricedKeepsPrices
  <2>3. CASE Await(t, "transaction", [task[t].got EXCEPT !.last = Now.last])
    <3>1. PICK g : g = [f EXCEPT !.last = now.last]
      OBVIOUS
    <3>2. Await(t, "transaction", g)
      BY <1>1, <1>3, <2>3, <3>1
    <3>3. g.solPrice = f.solPrice /\ g.curve = f.curve /\ g.last = now.last
      BY <1>2, <3>1 DEF IsAnswers
    <3>4. Known("transaction", g)
      BY <1>4, <1>6, <2>1, <3>3 DEF Known, PricedPCs
    <3> QED
      BY <1>5, <3>2, <3>4, AwaitKeepsPrices
  <2> QED
    BY <1>11, <2>2, <2>3 DEF SignatureRead
<1>12. CASE TransactionRead(t)
  <2>1. f.curve \in Amounts \cup {None} /\ f.last \in Amounts \cup {None}
    BY <1>1, <1>2, <1>12 DEF TransactionRead, At, Known
  <2>2. PICK last \in Amounts \cup {None} : Priced(t, last)
    BY <1>1, <1>12, <2>1 DEF TransactionRead
  <2> QED
    BY <1>1, <1>5, <1>6, <2>1, <2>2, PricedKeepsPrices
<1> QED
  BY <1>8, <1>9, <1>10, <1>11, <1>12

LEMMA TopHoldersKeepPrices ==
    ASSUME Inv, PriceInv, NEW t \in Tasks, MintRead(t) \/ LargestAccountsRead(t) \/ AccountsRead(t)
    PROVE  PriceInv'
<1>1. task[t].pc \in {"mint", "largest", "accounts"} /\ UNCHANGED position
  BY DEF MintRead, LargestAccountsRead, AccountsRead, OnlyTask, At
<1>2. PICK f, from : f = task[t].got /\ from = task[t].pc
  OBVIOUS
<1>3. IsAnswers(f) /\ Known(from, f) /\ from \in PricedPCs
  BY <1>1, <1>2 DEF Inv, Check, PriceInv, Quotes, PricedPCs
<1>4. ASSUME NEW pc \in {"largest", "accounts", "dev"}, NEW g, Await(t, pc, g),
             g.solPrice = f.solPrice, g.last = f.last, g.price = f.price
      PROVE  PriceInv'
  <2>1. pc \in PricedPCs /\ pc # "decided"
    BY DEF PricedPCs
  <2>2. Known(pc, g)
    BY <1>3, <1>4, <2>1, KnownStays
  <2> QED
    BY <1>1, <1>4, <2>1, <2>2, AwaitKeepsPrices
<1>5. ASSUME NEW holders, HoldersKnown(t, holders)
      PROVE  PriceInv'
  <2>1. CASE Return(t)
    BY <1>1, <2>1, ReturnKeepsPrices DEF PriceInv
  <2>2. CASE ~Return(t)
    <3>1. PICK x, y, g : /\ x = [f EXCEPT !.holders = holders] /\ y = [x EXCEPT !.supply = None]
                         /\ g = [y EXCEPT !.largest = None]
      OBVIOUS
    <3>2. IsAnswers(x) /\ x.solPrice = f.solPrice /\ x.last = f.last /\ x.price = f.price
      BY <1>3, <3>1 DEF IsAnswers
    <3>3. IsAnswers(y) /\ y.solPrice = f.solPrice /\ y.last = f.last /\ y.price = f.price
      BY <3>1, <3>2 DEF IsAnswers
    <3>4. g.solPrice = f.solPrice /\ g.last = f.last /\ g.price = f.price
      BY <3>1, <3>3 DEF IsAnswers
    <3>5. g = [f EXCEPT !.holders = holders, !.supply = None, !.largest = None]
      BY <3>1
    <3>6. Await(t, "dev", g)
      BY <1>2, <1>5, <2>2, <3>5 DEF HoldersKnown
    <3> QED
      BY <1>4, <3>4, <3>6
  <2> QED
    BY <2>1, <2>2
<1>6. CASE Await(t, "largest", [task[t].got EXCEPT !.supply = Now.supply])
  <2>1. PICK now, g : now = Now /\ g = [f EXCEPT !.supply = now.supply]
    OBVIOUS
  <2>2. g.solPrice = f.solPrice /\ g.last = f.last /\ g.price = f.price
    BY <1>3, <2>1 DEF IsAnswers
  <2>3. Await(t, "largest", g)
    BY <1>2, <1>6, <2>1
  <2> QED
    BY <1>4, <2>2, <2>3
<1>7. CASE Await(t, "accounts", [task[t].got EXCEPT !.largest = Now.largest])
  <2>1. PICK now, g : now = Now /\ g = [f EXCEPT !.largest = now.largest]
    OBVIOUS
  <2>2. g.solPrice = f.solPrice /\ g.last = f.last /\ g.price = f.price
    BY <1>3, <2>1 DEF IsAnswers
  <2>3. Await(t, "accounts", g)
    BY <1>2, <1>7, <2>1
  <2> QED
    BY <1>4, <2>2, <2>3
<1> QED
  BY <1>5, <1>6, <1>7 DEF MintRead, LargestAccountsRead, AccountsRead

LEMMA DecisionsKeepPrices ==
    ASSUME Inv, PriceInv, NEW t \in Tasks, CreatorHoldingRead(t) \/ SellsRead(t)
    PROVE  PriceInv'
<1>1. task[t].pc \in {"dev", "sells"} /\ UNCHANGED position
  BY DEF CreatorHoldingRead, SellsRead, OnlyTask, At
<1>2. PICK f, from : f = task[t].got /\ from = task[t].pc
  OBVIOUS
<1>3. IsAnswers(f) /\ Known(from, f) /\ from \in PricedPCs
  BY <1>1, <1>2 DEF Inv, Check, PriceInv, Quotes, PricedPCs
<1>4. CASE CreatorHoldingRead(t)
  <2>1. PICK supply :
          LET got == [task[t].got EXCEPT !.devHolding = DevHolding(Now.creatorHolding, supply)] IN
          \/ task[t].call = "entry" /\ Decided(t, got, EntryConditions(Metrics(got)))
          \/ task[t].call = "start" /\ Await(t, "add", got)
          \/ task[t].call = "exit" /\ Await(t, "sells", got)
    BY <1>4 DEF CreatorHoldingRead
  <2>2. PICK g : g = [f EXCEPT !.devHolding = DevHolding(Now.creatorHolding, supply)]
    OBVIOUS
  <2>3. g.solPrice = f.solPrice /\ g.last = f.last /\ g.price = f.price
    BY <1>3, <2>2 DEF IsAnswers
  <2>4. \A pc \in PricedPCs : Known(pc, g)
    BY <1>3, <2>3, KnownStays
  <2>5. \/ task[t].call = "entry" /\ Decided(t, g, EntryConditions(Metrics(g)))
        \/ Await(t, "add", g)
        \/ Await(t, "sells", g)
    BY <1>2, <2>1, <2>2
  <2>6. CASE task[t].call = "entry" /\ Decided(t, g, EntryConditions(Metrics(g)))
    <3>1. PICK met : met = EntryConditions(Metrics(g))
      OBVIOUS
    <3>2. Decided(t, g, met)
      BY <2>6, <3>1
    <3>3. Known("decided", g)
      BY <2>4 DEF PricedPCs
    <3> QED
      BY <1>1, <2>6, <3>2, <3>3, DecidedKeepsPrices
  <2>7. CASE Await(t, "add", g) \/ Await(t, "sells", g)
    <3>1. Known("add", g) /\ Known("sells", g)
      BY <2>4 DEF PricedPCs
    <3> QED
      BY <1>1, <2>7, <3>1, AwaitKeepsPrices
  <2> QED
    BY <2>5, <2>6, <2>7
<1>5. CASE SellsRead(t)
  <2>1. PICK now, g : now = Now /\ g = [f EXCEPT !.sellImpact = now.sellImpact]
    OBVIOUS
  <2>2. g.solPrice = f.solPrice /\ g.last = f.last /\ g.price = f.price
    BY <1>3, <2>1 DEF IsAnswers
  <2>3. PICK e, met : e = task[t].entry.entryPrice /\ met = ExitConditions(Metrics(g), e)
    OBVIOUS
  <2>4. Decided(t, g, met)
    BY <1>2, <1>5, <2>1, <2>3 DEF SellsRead
  <2>5. Metrics(g).price = g.price
    BY DEF Metrics
  <2>6. HasReachedProfitTarget(g.price, e) => met
    BY <2>3, <2>5 DEF ExitConditions
  <2>7. Known("decided", g)
    BY <1>3, <2>2, KnownStays DEF PricedPCs
  <2> QED
    BY <1>1, <2>3, <2>4, <2>6, <2>7, DecidedKeepsPrices
<1> QED
  BY <1>4, <1>5

(***************************************************************************)
(* The job keeps the price of its trade; Infinity becomes zero.            *)
(***************************************************************************)
LEMMA PositionAddedKeepsPrices ==
    ASSUME Inv, PriceInv, NEW t \in Tasks, PositionAdded(t)
    PROVE  PriceInv'
<1>1. PICK g, q : /\ g = task[t].got
                  /\ q = [entryPrice |-> EntryPrice(g.price), last |-> g.last,
                          solPrice |-> g.solPrice, known |-> g.price.d # 0]
  OBVIOUS
<1>2. At(t, "add") /\ position' = q /\ Return(t)
  BY <1>1 DEF PositionAdded
<1>3. Known("add", g)
  BY <1>1, <1>2 DEF PriceInv, Quotes, At
<1>4. /\ g.solPrice \in Nat \ {0} /\ g.last \in Amounts \cup {None}
      /\ PriceIsOf(g.price, g.last, g.solPrice)
  BY <1>3 DEF Known, PricedPCs
<1>5. q.entryPrice = IF g.price.d = 0 THEN Zero ELSE g.price
  BY <1>1 DEF EntryPrice, StoredPrice
<1>6. PriceIsOf(q.entryPrice, g.last, g.solPrice) /\ q.entryPrice.d # 0
  BY <1>4, <1>5 DEF PriceIsOf, Zero
<1>7. q.last = g.last /\ q.solPrice = g.solPrice /\ (~q.known => g.price.d = 0)
  BY <1>1
<1>8. PositionIs(q)
  BY <1>4, <1>5, <1>6, <1>7 DEF PositionIs
<1> QED
  BY <1>2, <1>8, ReturnKeepsPrices

LEMMA StepKeepsPrices ==
    ASSUME Inv, PriceInv, NEW t \in Tasks, Step(t)
    PROVE  PriceInv'
<1>1. CASE SolPriceKnown(t)
  BY <1>1, SolPriceKnownKeepsPrices
<1>2. CASE TradesCounted(t) \/ CreateEventFound(t) \/ CurveRead(t)
             \/ SignatureRead(t) \/ TransactionRead(t)
  BY <1>2, ReadsKeepPrices
<1>3. CASE MintRead(t) \/ LargestAccountsRead(t) \/ AccountsRead(t)
  BY <1>3, TopHoldersKeepPrices
<1>4. CASE CreatorHoldingRead(t) \/ SellsRead(t)
  BY <1>4, DecisionsKeepPrices
<1>5. CASE PositionAdded(t)
  BY <1>5, PositionAddedKeepsPrices
<1>6. CASE Handled(t) \/ CheckFails(t)
  BY <1>6, ReturnKeepsPrices DEF Handled, CheckFails, OnlyTask, PriceInv
<1> QED
  BY <1>1, <1>2, <1>3, <1>4, <1>5, <1>6 DEF Step

LEMMA PriceInvariance == Spec => []PriceInv
<1>1. Init => PriceInv
  BY DEF Init, PriceInv, Quotes, Idle, Known, PricedPCs
<1>2. Inv /\ PriceInv /\ [Next]_vars => PriceInv'
  <2> SUFFICES ASSUME Inv, PriceInv, [Next]_vars PROVE PriceInv'
    OBVIOUS
  <2>1. ASSUME NEW t \in Tasks, Step(t) PROVE PriceInv'
    BY <2>1, StepKeepsPrices
  <2>2. ASSUME NEW t \in Tasks, NEW call \in {"entry", "start", "exit"}, Call(t, call)
        PROVE  PriceInv'
    BY <2>2, CallKeepsPrices
  <2>3. CASE WorldMoves \/ SolPriceMoves \/ UNCHANGED vars
    BY <2>3 DEF WorldMoves, SolPriceMoves, vars, PriceInv
  <2> QED
    BY <2>1, <2>2, <2>3 DEF Next
<1> QED
  BY <1>1, <1>2, Invariance, PTL DEF Spec

(***************************************************************************)
(* A position whose entry price was Infinity is closed by the first check  *)
(* that is completed: the job has it as 0, over which any price is a       *)
(* profit, since no price is negative.                                     *)
(***************************************************************************)
THEOREM UnknownEntryIsClosed == Spec => []UnknownEntryClosesAtOnce
<1>1. Inv /\ PriceInv => UnknownEntryClosesAtOnce
  <2> SUFFICES ASSUME Inv, PriceInv, NEW t \in Tasks, At(t, "decided"),
                      task[t].call = "exit", ~task[t].entry.known
               PROVE  task[t].met
    BY DEF UnknownEntryClosesAtOnce
  <2>1. PICK p, e : p = task[t].got.price /\ e = task[t].entry.entryPrice
    OBVIOUS
  <2>2. Quotes(task[t])
    BY DEF PriceInv
  <2>3. e = Zero /\ p.n \in Nat /\ p.d \in Nat
    BY <2>1, <2>2 DEF Quotes, PositionIs, Known, PricedPCs, PriceIsOf, At
  <2>4. HasReachedProfitTarget(p, e)
    BY <2>3 DEF HasReachedProfitTarget, Zero
  <2> QED
    BY <2>1, <2>2, <2>4 DEF Quotes, At
<1> QED
  BY <1>1, Invariance, PriceInvariance, PTL

\* Comparing multiples compares the numbers.
LEMMA CancelFactor ==
    ASSUME NEW k \in Nat \ {0}, NEW a \in Nat, NEW b \in Nat
    PROVE  a >= b <=> k * a >= k * b
<1>1. ASSUME NEW x \in Nat, NEW y \in Nat, x >= y PROVE k * x >= k * y
  <2>1. PICK z \in Nat : x = y + z
    <3>1. x - y \in Nat /\ x = y + (x - y)
      BY <1>1
    <3> QED
      BY <3>1
  <2>2. k * x = k * y + k * z /\ k * z \in Nat /\ k * y \in Nat
    BY <2>1
  <2> QED
    BY <2>2
<1>2. ASSUME b >= a + 1 PROVE ~(k * a >= k * b)
  <2>1. k * b >= k * (a + 1)
    BY <1>1, <1>2
  <2>2. k * (a + 1) = k * a + k /\ k * a \in Nat /\ k * b \in Nat /\ k * (a + 1) \in Nat
    OBVIOUS
  <2> QED
    BY <2>1, <2>2
<1> QED
  BY <1>1, <1>2

(***************************************************************************)
(* p and e are the prices S / T and U / V in the same dollars: comparing   *)
(* them compares the trades.                                               *)
(***************************************************************************)
LEMMA ComparesTrades ==
    ASSUME NEW pn \in Nat, NEW pd \in Nat \ {0}, NEW en \in Nat, NEW ed \in Nat \ {0},
           NEW S \in Nat, NEW T \in Nat \ {0}, NEW U \in Nat, NEW V \in Nat \ {0},
           NEW s \in Nat \ {0},
           pn * T = S * s * pd, en * V = U * s * ed
    PROVE  20 * pn * ed >= 29 * en * pd <=> 100 * S * V >= 145 * U * T
<1>1. PICK k \in Nat \ {0} : k = s * pd * ed
  <2>1. s * pd \in Nat \ {0}
    OBVIOUS
  <2>2. s * pd * ed \in Nat \ {0}
    BY <2>1
  <2> QED
    BY <2>2
<1>2. PICK w \in Nat \ {0} : w = T * V
  <2>1. T * V \in Nat \ {0}
    OBVIOUS
  <2> QED
    BY <2>1
<1>3. PICK x, y, a, b \in Nat :
        x = 20 * pn * ed /\ y = 29 * en * pd /\ a = 20 * S * V /\ b = 29 * U * T
  <2>1. 20 * pn * ed \in Nat /\ 29 * en * pd \in Nat /\ 20 * S * V \in Nat /\ 29 * U * T \in Nat
    OBVIOUS
  <2> QED
    BY <2>1
<1>4. w * x = k * a
  <2>1. w * x = (pn * T) * (20 * ed * V)
    BY <1>2, <1>3
  <2>2. k * a = (S * s * pd) * (20 * ed * V)
    BY <1>1, <1>3
  <2> QED
    BY <2>1, <2>2
<1>5. w * y = k * b
  <2>1. w * y = (en * V) * (29 * pd * T)
    BY <1>2, <1>3
  <2>2. k * b = (U * s * ed) * (29 * pd * T)
    BY <1>1, <1>3
  <2> QED
    BY <2>1, <2>2
<1>6. x >= y <=> w * x >= w * y
  BY CancelFactor
<1>7. a >= b <=> k * a >= k * b
  BY CancelFactor
<1>8. 100 * S * V = 5 * a /\ 145 * U * T = 5 * b
  BY <1>3
<1> QED
  BY <1>3, <1>4, <1>5, <1>6, <1>7, <1>8

(***************************************************************************)
(* With both prices of a trade and SOL quoted the same, the profit target  *)
(* is reached exactly when the trades themselves are 45% apart, however    *)
(* long a check took and whatever was traded while it waited.              *)
(***************************************************************************)
THEOREM ProfitIsForCause == Spec => []ProfitForCause
<1>1. Inv /\ PriceInv => ProfitForCause
  <2> SUFFICES ASSUME Inv, PriceInv, NEW t \in Tasks, At(t, "decided"),
                      task[t].call = "exit", IsTrade(task[t].entry.last),
                      IsTrade(task[t].got.last),
                      task[t].entry.solPrice = task[t].got.solPrice
               PROVE  HasReachedProfitTarget(task[t].got.price, task[t].entry.entryPrice)
                        <=> 100 * task[t].got.last.sol * task[t].entry.last.token
                              >= 145 * task[t].entry.last.sol * task[t].got.last.token
    BY DEF ProfitForCause
  <2>1. PICK from, to : from = task[t].entry /\ to = task[t].got
    OBVIOUS
  <2>2. PICK p, e, s : p = to.price /\ e = from.entryPrice /\ s = to.solPrice
    OBVIOUS
  <2>3. PositionIs(from) /\ Known("decided", to)
    BY <2>1 DEF PriceInv, Quotes, At
  <2>4. /\ from.last \in Amounts /\ to.last \in Amounts /\ s \in Nat \ {0}
        /\ from.last.token # 0 /\ to.last.token # 0
    BY <2>1, <2>2, <2>3 DEF PositionIs, Known, PricedPCs, IsTrade, Amounts
  <2>5. PICK S, T, U, V \in Nat : /\ S = to.last.sol /\ T = to.last.token
                                  /\ U = from.last.sol /\ V = from.last.token
    BY <2>4 DEF Amounts
  <2>6. p.n \in Nat /\ p.d \in Nat \ {0} /\ p.n * T = S * s * p.d
    BY <2>1, <2>2, <2>3, <2>5 DEF Known, PricedPCs, PriceIsOf
  <2>7. e.n \in Nat /\ e.d \in Nat \ {0} /\ e.n * V = U * s * e.d
    BY <2>1, <2>2, <2>3, <2>5 DEF PositionIs, PriceIsOf
  <2>8. T # 0 /\ V # 0
    BY <2>4, <2>5
  <2>9. 20 * p.n * e.d >= 29 * e.n * p.d <=> 100 * S * V >= 145 * U * T
    <3>1. PICK pn, en \in Nat, pd, ed \in Nat \ {0} :
            pn = p.n /\ en = e.n /\ pd = p.d /\ ed = e.d
      BY <2>6, <2>7
    <3>2. pn * T = S * s * pd /\ en * V = U * s * ed
      BY <2>6, <2>7, <3>1
    <3>3. 20 * pn * ed >= 29 * en * pd <=> 100 * S * V >= 145 * U * T
      BY <2>4, <2>8, <3>2, ComparesTrades
    <3> QED
      BY <3>1, <3>3
  <2>10. HasReachedProfitTarget(p, e) <=> 20 * p.n * e.d >= 29 * e.n * p.d
    BY <2>7 DEF HasReachedProfitTarget
  <2> QED
    BY <2>1, <2>2, <2>5, <2>9, <2>10
<1> QED
  BY <1>1, Invariance, PriceInvariance, PTL
=============================================================================
