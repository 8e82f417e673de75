---------------------------- MODULE TokenHolders ----------------------------
(***************************************************************************)
(* The collection token_holders of one token: how DatabaseService sets it  *)
(* up at the start of the process, and how the handlers of trades, running *)
(* at the same time, move the balances in it.                              *)
(*                                                                         *)
(* The database outlives a crash.  A process that dies, or cannot set up   *)
(* the database, is started again.  Balances are in the smallest unit that *)
(* a wrong number of decimals leaves: SCALE of them make a unit of the     *)
(* token.                                                                  *)
(***************************************************************************)
EXTENDS Integers, SequencesExt

CONSTANTS
    Handlers,       \* bound: trades handled at the same time
    Users,
    Trades,         \* records [user, isBuy, tokenAmount]
    SCALE,          \* 10^9 over 10^decimals
    MAX_RETRIES,    \* attempts of processTransaction
    MaxTrades,      \* bound: trades handled in all
    MaxCrashes,     \* bound: the process dies
    MaxFailures     \* bound: failed set-ups, look-ups and updates

ASSUME HoldersAssumption ==
    /\ Trades \subseteq [user : Users, isBuy : BOOLEAN, tokenAmount : Nat]
    /\ IsFiniteSet(Handlers)
    /\ SCALE \in Nat \ {0} /\ MAX_RETRIES \in Nat \ {0}
    /\ MaxTrades \in Nat /\ MaxCrashes \in Nat /\ MaxFailures \in Nat

Collections == {"create_events", "trade_events", "token_holders"}

VARIABLES
    init,          \* the await the start of the process is at, or "serving"
    services,      \* instances of DatabaseService that are set up
    found,         \* what this instance's listCollections answered
    collections, indexed,   \* the database: collections, the unique index
    docs,          \* docs[u]: balances of the documents of holder u
    op,            \* what each handler does
    traded,        \* history: traded[isBuy][u], the tokens u bought and sold
    marred,        \* history: users one of whose trades was not counted once, in full
    interrupted,   \* history: a set-up ended before its index
    trades, crashes, failures

startUp == <<init, services, found>>
history == <<traded, marred, interrupted>>
budgets == <<trades, crashes, failures>>
vars == <<startUp, collections, indexed, docs, op, history, budgets>>

Idle == [at |-> "idle"]

Init ==
    /\ init = "list" /\ services = 0 /\ found = {}
    /\ collections = {} /\ indexed = FALSE
    /\ docs = [u \in Users |-> <<>>]
    /\ op = [h \in Handlers |-> Idle]
    /\ traded = [isBuy \in BOOLEAN |-> [u \in Users |-> 0]]
    /\ marred = {} /\ interrupted = FALSE
    /\ trades = 0 /\ crashes = 0 /\ failures = 0

-----------------------------------------------------------------------------
(* DatabaseService.onModuleInit, of the instance of QueueModule and then   *)
(* of the one of AppModule: Nest runs the hooks of one module at a time.   *)

Instances == 2

ListCollections ==
    /\ init = "list"
    /\ init' = "create_events" /\ found' = collections
    /\ UNCHANGED <<services, collections, indexed, docs, op, history, budgets>>

\* Mutant: the indexes come before their collection.
IndexFirst(c) == IF c = "create_events" THEN "trade_events" ELSE "index"

After(c) == CASE c = "create_events" -> "trade_events"
              [] c = "trade_events" -> "token_holders"
              [] c = "token_holders" -> "index"

\* All collections are there: the next instance starts, or requests are served.
Done ==
    /\ services' = services + 1 /\ found' = {}
    /\ init' = IF services + 1 = Instances THEN "serving" ELSE "list"

\* Mutant: nobody looks whether the collection exists.
MissingAnyway(c) == TRUE
IsMissing(c) == c \notin found

\* createCollection would fail.
NameExists == init \in collections /\ IsMissing(init)

\* createCollection, or nothing.
CreateCollection(c) ==
    /\ init = c
    /\ \/ /\ IsMissing(c) /\ c \notin collections
          /\ collections' = collections \cup {c}
          /\ init' = After(c)
          /\ UNCHANGED <<services, found>>
       \/ /\ ~IsMissing(c)
          /\ IF c = "token_holders" THEN Done ELSE init' = After(c) /\ UNCHANGED <<services, found>>
          /\ UNCHANGED collections
    /\ UNCHANGED <<indexed, docs, op, history, budgets>>

\* Mutant: the index is not unique.
PlainIndex == FALSE
UniqueIndex == TRUE

CreateIndexes ==
    /\ init = "index"
    /\ indexed' = UniqueIndex
    /\ Done
    /\ UNCHANGED <<collections, docs, op, history, budgets>>

\* The user of the trade that h works on
TradedFor(h) == IF op[h] = Idle THEN {} ELSE {op[h].trade.user}

\* The process is gone; whatever it was doing may have got so far.
Die ==
    /\ init' = "list" /\ services' = 0 /\ found' = {}
    /\ op' = [h \in Handlers |-> Idle]
    /\ interrupted' = (interrupted \/ init = "index")
    /\ marred' = marred \cup UNION {TradedFor(h) : h \in Handlers}
    /\ UNCHANGED <<collections, indexed, docs, traded, trades>>

Crash == crashes < MaxCrashes /\ crashes' = crashes + 1 /\ Die /\ UNCHANGED failures

Fails == failures < MaxFailures /\ failures' = failures + 1 /\ UNCHANGED <<trades, crashes>>

\* A step of the set-up is rejected: the hook throws and the process exits.
SetUpFails ==
    /\ init # "serving"
    /\ NameExists \/ failures < MaxFailures
    /\ failures' = IF NameExists THEN failures ELSE failures + 1
    /\ Die
    /\ UNCHANGED crashes

-----------------------------------------------------------------------------
(* A trade: formatTradeEvent, and updateTokenHolder after the insert of    *)
(* the trade, which module StreamIngest is about.                          *)

At(h, l) == op[h].at = l
Goto(h, o) == op' = [op EXCEPT ![h] = o]

\* The log handler makes one attempt, processTransaction MAX_RETRIES, of which
\* some may be used up before there is a trade.
StartTrade(h) ==
    /\ init = "serving" /\ At(h, "idle") /\ trades < MaxTrades
    /\ trades' = trades + 1
    /\ \E t \in Trades, left \in 1 .. MAX_RETRIES :
         /\ Goto(h, [at |-> "decimals", trade |-> t, left |-> left])
         /\ traded' = [traded EXCEPT ![t.isBuy][t.user] = @ + t.tokenAmount]
    /\ UNCHANGED <<startUp, collections, indexed, docs, marred, interrupted, crashes, failures>>

\* Mutant: a sale is added like a purchase.
Unsigned(t) == t.tokenAmount
Signed(t) == IF t.isBuy THEN t.tokenAmount ELSE -t.tokenAmount

Marred(h, isMarred) == marred' = IF isMarred THEN marred \cup TradedFor(h) ELSE marred

\* getTokenDecimals; when it fails it answers 9.
DecimalsKnown(h) ==
    LET update(scale) == Goto(h, [at |-> "update", trade |-> op[h].trade, left |-> op[h].left,
                                  amount |-> scale * Signed(op[h].trade)])
    IN
    /\ At(h, "decimals")
    /\ \/ update(SCALE) /\ Marred(h, FALSE) /\ UNCHANGED budgets
       \/ update(1) /\ Marred(h, TRUE) /\ Fails
    /\ UNCHANGED <<startUp, collections, indexed, docs, traded, interrupted>>

\* Mutant: the attempts are not counted.
AsManyLeft(left) == left
FewerLeft(left) == left - 1

\* An insert or an update is rejected, made or not.  processTransaction starts
\* over while it has attempts left, unless it finds no connection or a node that
\* does not have the transaction.
Rejected(h, made) ==
    /\ Fails
    /\ \/ /\ op[h].left > 1
          /\ Goto(h, [at |-> "decimals", trade |-> op[h].trade, left |-> FewerLeft(op[h].left)])
          /\ Marred(h, made)
       \/ /\ Goto(h, Idle)
          /\ Marred(h, ~made)

\* The update is made, and answered or rejected.
Updated(h) ==
    \/ Goto(h, Idle) /\ Marred(h, FALSE) /\ UNCHANGED budgets
    \/ Rejected(h, TRUE)

\* updateOne with upsert: MongoDB matches one document and moves it by $inc, at once...
Match(h) ==
    LET o == op[h] IN
    /\ At(h, "update") /\ docs[o.trade.user] # <<>>
    /\ \E i \in DOMAIN docs[o.trade.user] : docs' = [docs EXCEPT ![o.trade.user][i] = @ + o.amount]
    /\ Updated(h)
    /\ UNCHANGED <<startUp, collections, indexed, traded, interrupted>>

\* ... or finds none and goes on to insert one,
NoMatch(h) ==
    /\ At(h, "update") /\ docs[op[h].trade.user] = <<>>
    /\ Goto(h, [op[h] EXCEPT !.at = "insert"])
    /\ UNCHANGED <<startUp, collections, indexed, docs, history, budgets>>

\* which the unique index refuses if another upsert was faster: it matches again.
Insert(h) ==
    LET o == op[h] IN
    /\ At(h, "insert")
    /\ \/ /\ indexed => docs[o.trade.user] = <<>>
          /\ docs' = [docs EXCEPT ![o.trade.user] = Append(@, o.amount)]
          /\ Updated(h)
       \/ /\ indexed /\ docs[o.trade.user] # <<>>
          /\ Goto(h, [o EXCEPT !.at = "update"])
          /\ UNCHANGED <<docs, marred, budgets>>
    /\ UNCHANGED <<startUp, collections, indexed, traded, interrupted>>

UpdateFails(h) ==
    /\ op[h].at \in {"update", "insert"}
    /\ Rejected(h, FALSE)
    /\ UNCHANGED <<startUp, collections, indexed, docs, traded, interrupted>>

SetUp ==
    \/ ListCollections \/ CreateIndexes \/ SetUpFails
    \/ \E c \in Collections : CreateCollection(c)

Handle(h) == DecimalsKnown(h) \/ Match(h) \/ NoMatch(h) \/ Insert(h) \/ UpdateFails(h)

Next == SetUp \/ Crash \/ \E h \in Handlers : StartTrade(h) \/ Handle(h)

Spec == Init /\ [][Next]_vars

\* MongoDB answers or rejects, and the process is started again.
FairSpec == Spec /\ WF_vars(SetUp) /\ \A h \in Handlers : WF_vars(Handle(h))

-----------------------------------------------------------------------------
\* getCreatorHolding: the balance of the document that findOne comes upon
CreatorHoldings(u) == IF docs[u] = <<>> THEN {0} ELSE {docs[u][i] : i \in DOMAIN docs[u]}

Calls ==
    {Idle} \cup [at : {"decimals"}, trade : Trades, left : 1 .. MAX_RETRIES]
           \cup [at : {"update", "insert"}, trade : Trades, left : 1 .. MAX_RETRIES, amount : Int]

TypeOK ==
    /\ init \in {"list", "index", "serving"} \cup Collections
    /\ services \in 0 .. Instances /\ (init = "serving" <=> services = Instances)
    /\ found \subseteq collections /\ collections \subseteq Collections
    /\ indexed \in BOOLEAN /\ (indexed => "token_holders" \in collections)
    /\ docs \in [Users -> Seq(Int)]
    /\ op \in [Handlers -> Calls]
    /\ traded \in [BOOLEAN -> [Users -> Nat]]
    /\ marred \subseteq Users /\ interrupted \in BOOLEAN
    /\ trades \in 0 .. MaxTrades /\ crashes \in 0 .. MaxCrashes /\ failures \in 0 .. MaxFailures

(***************************************************************************)
(* However upserts for a new holder race, the holder has one document,     *)
(* unless a set-up was interrupted after createCollection and before       *)
(* createIndexes: no later start makes up for the index.                   *)
(***************************************************************************)
OneDocumentPerHolder == ~interrupted => \A u \in Users : Len(docs[u]) <= 1

(***************************************************************************)
(* While no trade of a user is being handled, the documents of the user    *)
(* add up to what the user bought less what the user sold, and unless the  *)
(* set-up was interrupted getCreatorHolding answers just that: races of    *)
(* upserts and updates that are rejected and repeated lose and double      *)
(* nothing.  Only a user is excepted one of whose trades met unknown       *)
(* decimals, was given up before it was counted, was counted and then      *)
(* repeated since the answer was lost, or was cut off by a crash.          *)
(***************************************************************************)
HoldingIsNetOfTrades ==
    \A u \in Users \ marred :
        LET net == SCALE * (traded[TRUE][u] - traded[FALSE][u]) IN
        (\A h \in Handlers : u \notin TradedFor(h)) =>
            /\ FoldSeq(+, 0, docs[u]) = net
            /\ ~interrupted => CreatorHoldings(u) = {net}

(***************************************************************************)
(* Whatever fails and is repeated, and at any time: a trade moves the      *)
(* balance of its user one way only, and at most MAX_RETRIES times.        *)
(***************************************************************************)
HoldingWithinAttempts ==
    \A u \in Users :
        LET most(isBuy) == MAX_RETRIES * (SCALE * traded[isBuy][u])
            holding == FoldSeq(+, 0, docs[u])
        IN  -most(FALSE) <= holding /\ holding <= most(TRUE)

(***************************************************************************)
(* Whatever a start that died left behind, a later one completes: the      *)
(* process comes to serve, and stays so once it no longer dies.            *)
(***************************************************************************)
StartCompletes == <>[](init = "serving")
=============================================================================
