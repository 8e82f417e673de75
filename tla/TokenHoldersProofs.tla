------------------------- MODULE TokenHoldersProofs -------------------------
(***************************************************************************)
(* What TokenHolders guarantees for any handlers, users and trades, and    *)
(* any number of crashes and failures.                                     *)
(***************************************************************************)
EXTENDS TokenHolders, FiniteSetTheorems, SequenceTheorems, WellFoundedInduction, TLAPS

\* The collection is there as soon as its index is due, and is indexed from
\* then on, unless a set-up ended in between.
SetUpInOrder ==
    /\ init \in {"index", "serving"} => "token_holders" \in collections
    /\ ~interrupted /\ "token_holders" \in collections => indexed \/ init = "index"

\* No trade is handled before the database is set up.
HandlesWhileServing == \A h \in Handlers : op[h] # Idle => init = "serving"

Inv == TypeOK /\ SetUpInOrder /\ HandlesWhileServing /\ OneDocumentPerHolder

-----------------------------------------------------------------------------
(***************************************************************************)
(* What the constants are, for the provers.                                *)
(***************************************************************************)
LEMMA TradeFacts ==
    ASSUME NEW t \in Trades
    PROVE  t.user \in Users /\ t.isBuy \in BOOLEAN /\ t.tokenAmount \in Nat /\ Signed(t) \in Int
<1>1. t \in [user : Users, isBuy : BOOLEAN, tokenAmount : Nat]
  BY HoldersAssumption
<1> QED
  BY <1>1 DEF Signed

LEMMA CallFacts ==
    ASSUME TypeOK, NEW h \in Handlers
    PROVE  /\ op[h] \in Calls /\ Idle \in Calls
           /\ op[h].at # "idle" => op[h] # Idle
           /\ op[h] # Idle => /\ op[h].trade \in Trades /\ op[h].left \in 1 .. MAX_RETRIES
                              /\ TradedFor(h) = {op[h].trade.user}
           /\ op[h].at \in {"update", "insert"} =>
                /\ op[h].amount \in Int
                /\ [op[h] EXCEPT !.at = "insert"] \in Calls
                /\ [op[h] EXCEPT !.at = "update"] \in Calls
           /\ TradedFor(h) \subseteq Users
<1>1. op[h] \in Calls
  BY DEF TypeOK
<1>2. op[h] # Idle => op[h].trade \in Trades /\ op[h].left \in 1 .. MAX_RETRIES
  BY <1>1 DEF Calls
<1>3. TradedFor(h) \subseteq Users
  BY <1>2, TradeFacts DEF TradedFor
<1> QED
  BY <1>1, <1>2, <1>3 DEF Calls, Idle, TradedFor

-----------------------------------------------------------------------------
(* The set-up.                                                             *)

LEMMA DieKeepsInv ==
    ASSUME Inv, Die, crashes' \in 0 .. MaxCrashes, failures' \in 0 .. MaxFailures
    PROVE  Inv'
<1>1. TypeOK'
  <2>1. marred' \subseteq Users
    <3>1. \A h \in Handlers : TradedFor(h) \subseteq Users
      BY CallFacts DEF Inv
    <3>2. marred \subseteq Users /\ marred' = marred \cup UNION {TradedFor(h) : h \in Handlers}
      BY DEF Inv, TypeOK, Die
    <3> QED
      BY <3>1, <3>2
  <2> QED
    BY <2>1 DEF Inv, TypeOK, Die, Calls, Instances
<1>2. SetUpInOrder' /\ HandlesWhileServing' /\ OneDocumentPerHolder'
  BY DEF Inv, SetUpInOrder, HandlesWhileServing, OneDocumentPerHolder, Die
<1> QED
  BY <1>1, <1>2 DEF Inv

LEMMA SetUpKeepsInv ==
    ASSUME Inv, SetUp
    PROVE  Inv'
<1> USE DEF Instances
<1>1. CASE ListCollections
  <2>1. TypeOK'
    BY <1>1 DEF Inv, TypeOK, ListCollections, Collections, history, budgets
  <2> QED
    BY <1>1, <2>1 DEF Inv, SetUpInOrder, HandlesWhileServing, OneDocumentPerHolder,
                      ListCollections, history
<1>2. CASE CreateIndexes
  <2>1. TypeOK'
    BY <1>2 DEF Inv, TypeOK, SetUpInOrder, CreateIndexes, Done, UniqueIndex, history, budgets
  <2> QED
    BY <1>2, <2>1 DEF Inv, SetUpInOrder, HandlesWhileServing, OneDocumentPerHolder,
                      CreateIndexes, Done, UniqueIndex, history
<1>3. CASE SetUpFails
  <2>1. crashes' \in 0 .. MaxCrashes /\ failures' \in 0 .. MaxFailures
    BY <1>3, HoldersAssumption DEF Inv, TypeOK, SetUpFails
  <2> QED
    BY <1>3, <2>1, DieKeepsInv DEF SetUpFails
<1>4. ASSUME NEW c \in Collections, CreateCollection(c)
      PROVE  Inv'
  <2> USE DEF Collections
  <2>1. CASE IsMissing(c)
    <3>1. /\ collections' = collections \cup {c} /\ init' = After(c) /\ init = c
          /\ UNCHANGED <<services, found, indexed, docs, op, traded, marred, interrupted,
                         trades, crashes, failures>>
      BY <1>4, <2>1 DEF CreateCollection, history, budgets
    <3>2. init' \in {"trade_events", "token_holders", "index"} /\ (init' = "index" <=> c = "token_holders")
      BY <3>1 DEF After
    <3>3. TypeOK'
      BY <3>1, <3>2 DEF Inv, TypeOK
    <3> QED
      BY <3>1, <3>2, <3>3 DEF Inv, SetUpInOrder, HandlesWhileServing, OneDocumentPerHolder
  <2>2. CASE ~IsMissing(c) /\ c = "token_holders"
    <3>1. /\ Done /\ init = c /\ c \in collections
          /\ UNCHANGED <<collections, indexed, docs, op, traded, marred, interrupted,
                         trades, crashes, failures>>
      BY <1>4, <2>2 DEF CreateCollection, IsMissing, Inv, TypeOK, history, budgets
    <3>2. TypeOK'
      BY <3>1 DEF Inv, TypeOK, Done
    <3> QED
      BY <2>2, <3>1, <3>2 DEF Inv, SetUpInOrder, HandlesWhileServing, OneDocumentPerHolder, Done
  <2>3. CASE ~IsMissing(c) /\ c # "token_holders"
    <3>1. /\ init' = After(c) /\ init = c
          /\ UNCHANGED <<services, found, collections, indexed, docs, op, traded, marred,
                         interrupted, trades, crashes, failures>>
      BY <1>4, <2>3 DEF CreateCollection, IsMissing, history, budgets
    <3>2. init' \in {"trade_events", "token_holders"}
      BY <2>3, <3>1 DEF After
    <3>3. TypeOK'
      BY <3>1, <3>2 DEF Inv, TypeOK
    <3> QED
      BY <2>3, <3>1, <3>2, <3>3 DEF Inv, SetUpInOrder, HandlesWhileServing, OneDocumentPerHolder
  <2> QED
    BY <2>1, <2>2, <2>3
<1> QED
  BY <1>1, <1>2, <1>3, <1>4 DEF SetUp

-----------------------------------------------------------------------------
(* The trades.                                                             *)

(***************************************************************************)
(* A step of a handler that leaves the set-up alone: it is enough to show  *)
(* that what it writes has its type, and that a holder who gets a second   *)
(* document had an interrupted set-up.                                     *)
(***************************************************************************)
LEMMA HandlerKeepsInv ==
    ASSUME Inv, NEW h \in Handlers, NEW o \in Calls, init = "serving",
           op' = [op EXCEPT ![h] = o],
           UNCHANGED <<startUp, collections, indexed, interrupted>>,
           docs' \in [Users -> Seq(Int)],
           traded' \in [BOOLEAN -> [Users -> Nat]], marred' \subseteq Users,
           trades' \in 0 .. MaxTrades, crashes' = crashes, failures' \in 0 .. MaxFailures,
           OneDocumentPerHolder'
    PROVE  Inv'
<1>1. TypeOK'
  BY DEF Inv, TypeOK, startUp
<1>2. SetUpInOrder' /\ HandlesWhileServing'
  BY DEF Inv, SetUpInOrder, HandlesWhileServing, startUp
<1> QED
  BY <1>1, <1>2 DEF Inv

(***************************************************************************)
(* What a handler does after an update that was made, or that was rejected *)
(* and not made: a user who is not marred has it repeated exactly if it    *)
(* was not made.                                                           *)
(***************************************************************************)
LEMMA UpdateEnds ==
    ASSUME TypeOK, NEW h \in Handlers, op[h].at \in {"update", "insert"}, NEW made \in BOOLEAN,
           IF made THEN Updated(h) ELSE Rejected(h, FALSE)
    PROVE  \E o \in Calls :
             /\ op' = [op EXCEPT ![h] = o]
             /\ \/ o = Idle
                \/ /\ o = [at |-> "decimals", trade |-> op[h].trade, left |-> op[h].left - 1]
                   /\ op[h].left > 1
             /\ marred \subseteq marred' /\ marred' \subseteq Users
             /\ op[h].trade.user \notin marred' => (made <=> o = Idle)
             /\ trades' \in 0 .. MaxTrades /\ crashes' = crashes /\ failures' \in 0 .. MaxFailures
<1> DEFINE again == [at |-> "decimals", trade |-> op[h].trade, left |-> op[h].left - 1]
<1>1. /\ op[h].trade \in Trades /\ op[h].left \in 1 .. MAX_RETRIES
      /\ TradedFor(h) = {op[h].trade.user} /\ TradedFor(h) \subseteq Users /\ Idle \in Calls
  BY CallFacts
<1>2. op[h].left > 1 => again \in Calls
  BY <1>1, HoldersAssumption DEF Calls
<1>3. again # Idle
  <2>1. again.at # Idle.at
    BY DEF Idle
  <2> QED
    BY <2>1
<1> HIDE DEF again
<1>4. ASSUME NEW b, Marred(h, b)
      PROVE  /\ marred \subseteq marred' /\ marred' \subseteq Users
             /\ op[h].trade.user \notin marred' => ~b
  BY <1>1, <1>4 DEF Marred, TypeOK
<1>5. Fails => trades' \in 0 .. MaxTrades /\ crashes' = crashes /\ failures' \in 0 .. MaxFailures
  BY HoldersAssumption DEF Fails, TypeOK
<1>6. CASE Rejected(h, made)
  <2>1. CASE op[h].left > 1 /\ Goto(h, again) /\ Marred(h, made)
    BY <1>2, <1>3, <1>4, <1>5, <1>6, <2>1 DEF Goto, Rejected, again
  <2>2. CASE Goto(h, Idle) /\ Marred(h, ~made)
    BY <1>1, <1>4, <1>5, <1>6, <2>2 DEF Goto, Rejected
  <2> QED
    BY <1>6, <2>1, <2>2 DEF Rejected, FewerLeft, again
<1>7. CASE made /\ Goto(h, Idle) /\ Marred(h, FALSE) /\ UNCHANGED budgets
  BY <1>1, <1>4, <1>7 DEF Goto, budgets, TypeOK
<1> QED
  BY <1>6, <1>7 DEF Updated

LEMMA HandleKeepsInv ==
    ASSUME Inv, NEW h \in Handlers, StartTrade(h) \/ Handle(h)
    PROVE  Inv'
<1> DEFINE o == op[h]
<1>1. TypeOK /\ Idle \in Calls
  BY DEF Inv, Calls
<1>2. CASE StartTrade(h)
  <2>1. PICK t \in Trades, left \in 1 .. MAX_RETRIES :
          /\ op' = [op EXCEPT ![h] = [at |-> "decimals", trade |-> t, left |-> left]]
          /\ traded' = [traded EXCEPT ![t.isBuy][t.user] = @ + t.tokenAmount]
    BY <1>2 DEF StartTrade, Goto
  <2>2. [at |-> "decimals", trade |-> t, left |-> left] \in Calls
    BY DEF Calls
  <2>3. trades' \in 0 .. MaxTrades
    BY <1>1, <1>2, HoldersAssumption DEF StartTrade, TypeOK
  <2>4. /\ UNCHANGED <<startUp, collections, indexed, docs, marred, interrupted>>
        /\ crashes' = crashes /\ failures' = failures /\ init = "serving"
    BY <1>2 DEF StartTrade
  <2>5. traded' \in [BOOLEAN -> [Users -> Nat]]
    <3>1. /\ t.isBuy \in BOOLEAN /\ t.user \in Users /\ t.tokenAmount \in Nat
          /\ traded[t.isBuy] \in [Users -> Nat]
      BY <1>1, TradeFacts DEF TypeOK
    <3>2. [traded[t.isBuy] EXCEPT ![t.user] = @ + t.tokenAmount] \in [Users -> Nat]
      BY <3>1
    <3> QED
      BY <1>1, <2>1, <3>1, <3>2 DEF TypeOK
  <2> QED
    BY <1>1, <2>1, <2>2, <2>3, <2>4, <2>5, HandlerKeepsInv DEF Inv, TypeOK, OneDocumentPerHolder
<1>3. CASE DecimalsKnown(h)
  <2>1. o # Idle /\ o.trade \in Trades /\ o.left \in 1 .. MAX_RETRIES /\ TradedFor(h) \subseteq Users
    BY <1>1, <1>3, CallFacts DEF DecimalsKnown, At
  <2>2. PICK scale \in {SCALE, 1} :
          op' = [op EXCEPT ![h] = [at |-> "update", trade |-> o.trade, left |-> o.left,
                                   amount |-> scale * Signed(o.trade)]]
    BY <1>3 DEF DecimalsKnown, Goto
  <2>3. scale * Signed(o.trade) \in Int
    BY <2>1, TradeFacts, HoldersAssumption
  <2>4. [at |-> "update", trade |-> o.trade, left |-> o.left,
         amount |-> scale * Signed(o.trade)] \in Calls
    BY <2>1, <2>3 DEF Calls
  <2>5. /\ UNCHANGED <<startUp, collections, indexed, docs, traded, interrupted>>
        /\ marred' \subseteq Users
    BY <1>1, <1>3, <2>1 DEF DecimalsKnown, Marred, TypeOK
  <2>6. trades' \in 0 .. MaxTrades /\ crashes' = crashes /\ failures' \in 0 .. MaxFailures
    <3>1. CASE UNCHANGED budgets
      BY <1>1, <3>1 DEF TypeOK, budgets
    <3>2. CASE Fails
      BY <1>1, <3>2, HoldersAssumption DEF Fails, TypeOK
    <3> QED
      BY <1>3, <3>1, <3>2 DEF DecimalsKnown
  <2>7. init = "serving"
    BY <2>1 DEF Inv, HandlesWhileServing
  <2> QED
    BY <1>1, <2>2, <2>4, <2>5, <2>6, <2>7, HandlerKeepsInv DEF Inv, TypeOK, OneDocumentPerHolder
<1>4. ASSUME o.at \in {"update", "insert"}
      PROVE  o.trade \in Trades /\ o.amount \in Int /\ o.trade.user \in Users /\ init = "serving"
  <2>1. o.trade \in Trades /\ o.amount \in Int /\ o # Idle
    BY <1>1, <1>4, CallFacts
  <2> QED
    BY <2>1, TradeFacts DEF Inv, HandlesWhileServing
<1>5. ASSUME NEW made \in BOOLEAN, o.at \in {"update", "insert"},
             IF made THEN Updated(h) ELSE Rejected(h, FALSE),
             UNCHANGED <<startUp, collections, indexed, traded, interrupted>>,
             docs' \in [Users -> Seq(Int)], OneDocumentPerHolder'
      PROVE  Inv'
  <2>1. PICK q \in Calls :
          /\ op' = [op EXCEPT ![h] = q] /\ marred' \subseteq Users
          /\ trades' \in 0 .. MaxTrades /\ crashes' = crashes /\ failures' \in 0 .. MaxFailures
    BY <1>1, <1>5, UpdateEnds
  <2>2. init = "serving" /\ traded' \in [BOOLEAN -> [Users -> Nat]] /\ interrupted' = interrupted
    BY <1>1, <1>4, <1>5 DEF TypeOK
  <2> QED
    BY <1>5, <2>1, <2>2, HandlerKeepsInv
<1>6. CASE Match(h)
  <2> DEFINE u == o.trade.user
  <2>1. /\ o.at = "update" /\ Updated(h)
        /\ UNCHANGED <<startUp, collections, indexed, traded, interrupted>>
    BY <1>6 DEF Match, At
  <2>2. o.amount \in Int /\ u \in Users
    BY <1>4, <2>1
  <2>3. PICK i \in DOMAIN docs[u] : docs' = [docs EXCEPT ![u][i] = @ + o.amount]
    BY <1>6 DEF Match
  <2>4. /\ docs' \in [Users -> Seq(Int)]
        /\ \A v \in Users : Len(docs'[v]) = Len(docs[v])
    <3>1. docs \in [Users -> Seq(Int)] /\ docs[u] \in Seq(Int) /\ docs[u][i] + o.amount \in Int
      BY <1>1, <2>2, <2>3 DEF TypeOK
    <3>2. [docs[u] EXCEPT ![i] = @ + o.amount] \in Seq(Int)
          /\ Len([docs[u] EXCEPT ![i] = @ + o.amount]) = Len(docs[u])
      BY <2>3, <3>1
    <3>3. docs' = [docs EXCEPT ![u] = [docs[u] EXCEPT ![i] = @ + o.amount]]
      BY <2>3
    <3> QED
      BY <3>1, <3>2, <3>3
  <2>5. OneDocumentPerHolder'
    BY <2>1, <2>4 DEF Inv, OneDocumentPerHolder
  <2> QED
    BY <1>5, <2>1, <2>4, <2>5
<1>7. CASE NoMatch(h)
  <2>1. /\ o.at = "update" /\ op' = [op EXCEPT ![h] = [o EXCEPT !.at = "insert"]]
        /\ UNCHANGED <<startUp, collections, indexed, docs, traded, marred, interrupted,
                       trades, crashes, failures>>
    BY <1>7 DEF NoMatch, At, Goto, history, budgets
  <2>2. init = "serving" /\ [o EXCEPT !.at = "insert"] \in Calls
    BY <1>1, <1>4, <2>1, CallFacts
  <2> QED
    BY <1>1, <2>1, <2>2, HandlerKeepsInv DEF Inv, TypeOK, OneDocumentPerHolder
<1>8. CASE Insert(h)
  <2> DEFINE u == o.trade.user
  <2>1. o.at = "insert" /\ UNCHANGED <<startUp, collections, indexed, traded, interrupted>>
    BY <1>8 DEF Insert, At
  <2>2. o.trade \in Trades /\ o.amount \in Int /\ u \in Users /\ init = "serving"
    BY <1>4, <2>1
  <2>3. CASE /\ indexed => docs[u] = <<>>
             /\ docs' = [docs EXCEPT ![u] = Append(@, o.amount)]
             /\ Updated(h)
    <3>1. docs' \in [Users -> Seq(Int)]
      BY <1>1, <2>2, <2>3 DEF TypeOK
    <3>2. OneDocumentPerHolder'
      <4> SUFFICES ASSUME ~interrupted, NEW v \in Users
                   PROVE  Len(docs'[v]) <= 1
        BY <2>1 DEF OneDocumentPerHolder
      <4>1. docs[u] = <<>>
        BY <2>2, <2>3 DEF Inv, SetUpInOrder
      <4>2. docs'[u] = <<o.amount>>
        BY <1>1, <2>2, <2>3, <4>1 DEF TypeOK
      <4>3. v # u => docs'[v] = docs[v]
        BY <1>1, <2>3 DEF TypeOK
      <4>4. Len(docs'[u]) <= 1
        BY <4>2
      <4>5. Len(docs[v]) <= 1
        BY DEF Inv, OneDocumentPerHolder
      <4>6. CASE v = u
        BY <4>4, <4>6
      <4>7. CASE v # u
        BY <4>3, <4>5, <4>7
      <4> QED
        BY <4>6, <4>7
    <3> QED
      BY <1>5, <2>1, <2>3, <3>1, <3>2
  <2>4. CASE Goto(h, [o EXCEPT !.at = "update"]) /\ UNCHANGED <<docs, marred, budgets>>
    <3>1. [o EXCEPT !.at = "update"] \in Calls
      BY <1>1, <2>1, CallFacts
    <3>2. /\ op' = [op EXCEPT ![h] = [o EXCEPT !.at = "update"]]
          /\ UNCHANGED <<docs, traded, marred, interrupted, trades, crashes, failures>>
      BY <2>1, <2>4 DEF Goto, budgets
    <3>3. /\ docs' \in [Users -> Seq(Int)] /\ traded' \in [BOOLEAN -> [Users -> Nat]]
          /\ marred' \subseteq Users /\ OneDocumentPerHolder'
          /\ trades' \in 0 .. MaxTrades /\ crashes' = crashes /\ failures' \in 0 .. MaxFailures
      BY <1>1, <3>2 DEF Inv, TypeOK, OneDocumentPerHolder
    <3> QED
      BY <2>1, <2>2, <3>1, <3>2, <3>3, HandlerKeepsInv
  <2> QED
    BY <1>8, <2>3, <2>4 DEF Insert
<1>9. CASE UpdateFails(h)
  <2>1. /\ o.at \in {"update", "insert"} /\ Rejected(h, FALSE)
        /\ UNCHANGED <<startUp, collections, indexed, docs, traded, interrupted>>
    BY <1>9 DEF UpdateFails
  <2>2. docs' \in [Users -> Seq(Int)] /\ OneDocumentPerHolder'
    BY <1>1, <2>1 DEF Inv, TypeOK, OneDocumentPerHolder
  <2> QED
    BY <1>5, <2>1, <2>2
<1> QED
  BY <1>2, <1>3, <1>6, <1>7, <1>8, <1>9 DEF Handle

-----------------------------------------------------------------------------
(***************************************************************************)
(* The invariant holds in every state.                                     *)
(***************************************************************************)
LEMMA Invariance == Spec => []Inv
<1>1. Init => Inv
  <2> SUFFICES ASSUME Init PROVE Inv
    OBVIOUS
  <2>1. TypeOK
    <3>1. docs \in [Users -> Seq(Int)]
      BY DEF Init
    <3>2. op \in [Handlers -> Calls]
      BY DEF Init, Calls
    <3>3. traded \in [BOOLEAN -> [Users -> Nat]] /\ marred \subseteq Users
      BY DEF Init
    <3>4. /\ init = "list" /\ services = 0 /\ found = {} /\ collections = {} /\ indexed = FALSE
          /\ interrupted = FALSE /\ trades = 0 /\ crashes = 0 /\ failures = 0
      BY DEF Init
    <3>5. 0 \in 0 .. MaxTrades /\ 0 \in 0 .. MaxCrashes /\ 0 \in 0 .. MaxFailures
      BY HoldersAssumption
    <3>6. interrupted \in BOOLEAN /\ indexed \in BOOLEAN /\ ~indexed
      BY <3>4
    <3>7. /\ init \in {"list", "index", "serving"} \cup Collections
          /\ services \in 0 .. Instances /\ (init = "serving" <=> services = Instances)
          /\ found \subseteq collections /\ collections \subseteq Collections
      BY <3>4 DEF Instances
    <3> QED
      BY <3>1, <3>2, <3>3, <3>4, <3>5, <3>6, <3>7 DEF TypeOK
  <2>2. SetUpInOrder /\ HandlesWhileServing /\ OneDocumentPerHolder
    BY DEF Init, SetUpInOrder, HandlesWhileServing, OneDocumentPerHolder
  <2> QED
    BY <2>1, <2>2 DEF Inv
<1>2. Inv /\ [Next]_vars => Inv'
  <2> SUFFICES ASSUME Inv, [Next]_vars PROVE Inv'
    OBVIOUS
  <2>1. CASE SetUp
    BY <2>1, SetUpKeepsInv
  <2>2. CASE Crash
    <3>1. crashes' \in 0 .. MaxCrashes /\ failures' \in 0 .. MaxFailures
      BY <2>2, HoldersAssumption DEF Crash, Inv, TypeOK
    <3> QED
      BY <2>2, <3>1, DieKeepsInv DEF Crash
  <2>3. ASSUME NEW h \in Handlers, StartTrade(h) \/ Handle(h) PROVE Inv'
    BY <2>3, HandleKeepsInv
  <2>4. CASE UNCHANGED vars
    <3>1. UNCHANGED <<init, services, found, collections, indexed, docs, op, traded, marred,
                      interrupted, trades, crashes, failures>>
      BY <2>4 DEF vars, startUp, history, budgets
    <3>2. TypeOK'
      BY <3>1 DEF Inv, TypeOK, Instances
    <3> QED
      BY <3>1, <3>2 DEF Inv, SetUpInOrder, HandlesWhileServing, OneDocumentPerHolder
  <2> QED
    BY <2>1, <2>2, <2>3, <2>4 DEF Next
<1> QED
  BY <1>1, <1>2, PTL DEF Spec

(***************************************************************************)
(* Every variable has its type, for any constants.                         *)
(***************************************************************************)
THEOREM TypeCorrect == Spec => []TypeOK
BY Invariance, PTL DEF Inv

(***************************************************************************)
(* One document per holder for any number of handlers, crashes and failed  *)
(* set-ups, unless one of them fell between createCollection and           *)
(* createIndexes.  Not inductive alone: it needs that the index is there   *)
(* when trades are handled, which is SetUpInOrder, and that no trade is    *)
(* handled while the set-up is going on.                                   *)
(***************************************************************************)
THEOREM HolderIsUnique == Spec => []OneDocumentPerHolder
BY Invariance, PTL DEF Inv

-----------------------------------------------------------------------------
(* Sums over sequences.                                                    *)

\* What fails for some number fails for a least one: induction, for the provers.
LEMMA LeastNatural ==
    ASSUME NEW S, S \subseteq Nat, S # {}
    PROVE  \E m \in S : \A n \in S : m <= n
<1>1. PICK R : IsWellFoundedOn(R, Nat) /\ \A m, n \in Nat : m < n => <<m, n>> \in R
  <2>1. \A m, n \in Nat : m < n => <<m, n>> \in OpToRel(<, Nat)
    BY DEF OpToRel
  <2> QED
    BY <2>1, NatLessThanWellFounded
<1>2. PICK m \in S : \A n \in S : ~(<<n, m>> \in R)
  <2>1. IsWellFoundedOn(R, Nat) /\ S \subseteq Nat /\ S # {}
    BY <1>1
  <2>2. \A Q, N, T : IsWellFoundedOn(Q, N) /\ T \subseteq N /\ T # {}
          => \E x \in T : \A y \in T : ~(<<y, x>> \in Q)
    BY WFMin
  <2>3. \E x \in S : \A y \in S : ~(<<y, x>> \in R)
    BY <2>1, <2>2
  <2> QED
    BY <2>3
<1>3. \A n \in S : ~(n < m)
  BY <1>1, <1>2
<1> QED
  BY <1>3

(***************************************************************************)
(* What fails for some part of a finite set fails for one none of whose    *)
(* parts, one element smaller, it fails for.                               *)
(***************************************************************************)
LEMMA LeastSubset ==
    ASSUME NEW D, IsFiniteSet(D), NEW Q, Q \subseteq SUBSET D, Q # {}
    PROVE  \E s \in Q : \A x \in s : s \ {x} \notin Q
<1>1. \A s \in SUBSET D : IsFiniteSet(s) /\ Cardinality(s) \in Nat
  BY FS_Subset, FS_CardinalityType
<1>2. PICK N : N = {Cardinality(s) : s \in Q}
  OBVIOUS
<1>3. N \subseteq Nat /\ N # {}
  BY <1>1, <1>2
<1>4. PICK m \in N : \A n \in N : m <= n
  BY <1>3, LeastNatural
<1>5. PICK s \in Q : m = Cardinality(s)
  BY <1>2, <1>4
<1>6. ASSUME NEW x \in s, s \ {x} \in Q PROVE FALSE
  <2>1. IsFiniteSet(s) /\ m \in Nat
    BY <1>1, <1>5
  <2>2. Cardinality(s \ {x}) = m - 1
    BY <1>5, <2>1, FS_RemoveElement
  <2>3. m <= m - 1
    BY <1>2, <1>4, <1>6, <2>2
  <2> QED
    BY <2>1, <2>3
<1> QED
  BY <1>6

Pick(s) == CHOOSE x \in s : TRUE

Summed(f, g) ==
    [s \in SUBSET DOMAIN f |-> IF s = {} THEN 0 ELSE f[Pick(s)] + g[s \ {Pick(s)}]]

Sums(f) == CHOOSE g : g = Summed(f, g)

(***************************************************************************)
(* FoldSeq takes the elements in the order that CHOOSE picks their places. *)
(***************************************************************************)
LEMMA FoldSeqIsSum == ASSUME NEW f PROVE FoldSeq(+, 0, f) = Sums(f)[DOMAIN f]
BY DEF FoldSeq, FoldFunction, FoldFunctionOnSet, MapThenFoldSet, Sums, Summed, Pick

(***************************************************************************)
(* The recursion has a solution: it is found for the parts of one size     *)
(* after the other.                                                        *)
(***************************************************************************)
LEMMA SumsExist ==
    ASSUME NEW f, IsFiniteSet(DOMAIN f)
    PROVE  Sums(f) = Summed(f, Sums(f))
<1> DEFINE D == DOMAIN f
<1> DEFINE Solved(n) == \E g : \A s \in SUBSET D : Cardinality(s) <= n => g[s] = Summed(f, g)[s]
<1>1. \A s \in SUBSET D : IsFiniteSet(s) /\ Cardinality(s) \in Nat /\ Cardinality(s) <= Cardinality(D)
  BY FS_Subset, FS_CardinalityType
<1>2. \A s \in SUBSET D : s # {} => /\ Pick(s) \in s /\ s \ {Pick(s)} \in SUBSET D
                                    /\ Cardinality(s \ {Pick(s)}) = Cardinality(s) - 1
  BY <1>1, FS_RemoveElement DEF Pick
<1>3. Solved(0)
  <2>1. \A s \in SUBSET D : Cardinality(s) <= 0 => s = {}
    BY <1>1, FS_EmptySet
  <2>2. PICK g : g = [s \in SUBSET D |-> 0]
    OBVIOUS
  <2>3. \A s \in SUBSET D : Cardinality(s) <= 0 => g[s] = Summed(f, g)[s]
    BY <2>1, <2>2 DEF Summed
  <2> QED
    BY <2>3
<1>4. ASSUME NEW n \in Nat, Solved(n) PROVE Solved(n + 1)
  <2>1. PICK g : \A s \in SUBSET D : Cardinality(s) <= n => g[s] = Summed(f, g)[s]
    BY <1>4
  <2>2. PICK h : h = [s \in SUBSET D |-> IF Cardinality(s) <= n THEN g[s] ELSE Summed(f, g)[s]]
    OBVIOUS
  <2>3. ASSUME NEW s \in SUBSET D, Cardinality(s) <= n + 1 PROVE h[s] = Summed(f, h)[s]
    <3>1. h[s] = Summed(f, g)[s]
      BY <2>1, <2>2
    <3>2. CASE s = {}
      BY <3>1, <3>2 DEF Summed
    <3>3. CASE s # {}
      <4>1. PICK t \in SUBSET D : t = s \ {Pick(s)} /\ Cardinality(t) = Cardinality(s) - 1
        BY <1>2, <3>3
      <4>2. Cardinality(t) <= n
        BY <1>1, <2>3, <4>1
      <4>3. h[t] = g[t]
        BY <2>2, <4>2
      <4>4. Summed(f, g)[s] = f[Pick(s)] + g[t] /\ Summed(f, h)[s] = f[Pick(s)] + h[t]
        BY <3>3, <4>1 DEF Summed
      <4> QED
        BY <3>1, <4>3, <4>4
    <3> QED
      BY <3>2, <3>3
  <2> QED
    BY <2>3
<1> HIDE DEF Solved
<1>5. \A n \in Nat : Solved(n)
  <2> SUFFICES ASSUME {n \in Nat : ~Solved(n)} # {} PROVE FALSE
    OBVIOUS
  <2>1. PICK B : B = {n \in Nat : ~Solved(n)}
    OBVIOUS
  <2>2. B \subseteq Nat /\ B # {}
    BY <2>1
  <2>3. PICK m \in B : \A n \in B : m <= n
    BY <2>2, LeastNatural
  <2>4. m \in Nat /\ ~Solved(m) /\ m # 0
    BY <1>3, <2>1, <2>3
  <2>5. PICK n \in Nat : m = n + 1
    <3>1. m - 1 \in Nat /\ m = (m - 1) + 1
      BY <2>4
    <3> QED
      BY <3>1
  <2>6. Solved(n)
    BY <2>1, <2>3, <2>5
  <2> QED
    BY <1>4, <2>4, <2>5, <2>6
<1>6. PICK g : \A s \in SUBSET D : Cardinality(s) <= Cardinality(D) => g[s] = Summed(f, g)[s]
  BY <1>1, <1>5 DEF Solved
<1>7. PICK h : h = [s \in SUBSET D |-> g[s]]
  OBVIOUS
<1>8. h = Summed(f, h)
  <2>1. ASSUME NEW s \in SUBSET D PROVE h[s] = Summed(f, h)[s]
    <3>1. h[s] = Summed(f, g)[s]
      BY <1>1, <1>6, <1>7
    <3>2. Summed(f, g)[s] = Summed(f, h)[s]
      <4>1. s # {} => s \ {Pick(s)} \in SUBSET D
        OBVIOUS
      <4> QED
        BY <1>7, <4>1 DEF Summed
    <3> QED
      BY <3>1, <3>2
  <2>2. Summed(f, h) = [s \in SUBSET D |-> Summed(f, h)[s]]
    BY DEF Summed
  <2>3. h = [s \in SUBSET D |-> h[s]]
    BY <1>7
  <2> QED
    BY <2>1, <2>2, <2>3
<1> QED
  BY <1>8 DEF Sums

LEMMA SumFacts ==
    ASSUME NEW f, IsFiniteSet(DOMAIN f)
    PROVE  /\ Sums(f)[{}] = 0
           /\ \A s \in SUBSET DOMAIN f : s # {} =>
                Pick(s) \in s /\ Sums(f)[s] = f[Pick(s)] + Sums(f)[s \ {Pick(s)}]
<1>1. PICK g : g = Sums(f)
  OBVIOUS
<1>2. g = Summed(f, g)
  BY <1>1, SumsExist
<1>3. \A s \in SUBSET DOMAIN f :
        g[s] = IF s = {} THEN 0 ELSE f[Pick(s)] + g[s \ {Pick(s)}]
  BY <1>2 DEF Summed
<1>4. \A s : s # {} => Pick(s) \in s
  BY DEF Pick
<1> QED
  BY <1>1, <1>3, <1>4

LEMMA SumIsInt ==
    ASSUME NEW D, IsFiniteSet(D), NEW f \in [D -> Int]
    PROVE  \A s \in SUBSET D : Sums(f)[s] \in Int
<1>1. PICK Q : Q = {s \in SUBSET D : Sums(f)[s] \notin Int}
  OBVIOUS
<1> SUFFICES ASSUME Q # {} PROVE FALSE
  BY <1>1
<1>2. PICK s \in Q : \A x \in s : s \ {x} \notin Q
  BY <1>1, LeastSubset
<1>3. s # {}
  <2>1. DOMAIN f = D /\ Sums(f)[{}] = 0
    BY SumFacts
  <2>2. Sums(f)[s] # 0
    BY <1>1
  <2> QED
    BY <2>1, <2>2
<1>4. PICK x \in s : Sums(f)[s] = f[x] + Sums(f)[s \ {x}]
  BY <1>1, <1>3, SumFacts
<1>5. Sums(f)[s \ {x}] \in Int /\ f[x] \in Int
  BY <1>1, <1>2
<1> QED
  BY <1>1, <1>4, <1>5

\* x can be taken first.
AddsUp(f, s, x) == Sums(f)[s] = f[x] + Sums(f)[s \ {x}]

LEMMA SumWithout ==
    ASSUME NEW D, IsFiniteSet(D), NEW f \in [D -> Int]
    PROVE  \A s \in SUBSET D : \A x \in s : AddsUp(f, s, x)
<1>1. PICK Q : Q = {s \in SUBSET D : \E x \in s : ~AddsUp(f, s, x)}
  OBVIOUS
<1> SUFFICES ASSUME Q # {} PROVE FALSE
  BY <1>1
<1>2. PICK s \in Q : \A x \in s : s \ {x} \notin Q
  BY <1>1, LeastSubset
<1>3. PICK x \in s : Sums(f)[s] # f[x] + Sums(f)[s \ {x}]
  BY <1>1 DEF AddsUp
<1>4. PICK y \in s : Sums(f)[s] = f[y] + Sums(f)[s \ {y}]
  BY <1>1, <1>3, SumFacts
<1>5. x # y /\ s \in SUBSET D
  BY <1>1, <1>3, <1>4
<1>6. PICK a, b, c \in SUBSET D : a = s \ {x} /\ b = s \ {y} /\ c = s \ {x, y}
  BY <1>5
<1>7. Sums(f)[b] = f[x] + Sums(f)[c]
  <2>1. c = b \ {x} /\ x \in b /\ b \notin Q
    BY <1>2, <1>5, <1>6
  <2> QED
    BY <1>1, <2>1 DEF AddsUp
<1>8. Sums(f)[a] = f[y] + Sums(f)[c]
  <2>1. c = a \ {y} /\ y \in a /\ a \notin Q
    BY <1>2, <1>5, <1>6
  <2> QED
    BY <1>1, <2>1 DEF AddsUp
<1>9. Sums(f)[c] \in Int /\ f[x] \in Int /\ f[y] \in Int
  BY <1>5, <1>6, SumIsInt
<1> QED
  BY <1>3, <1>4, <1>6, <1>7, <1>8, <1>9

(***************************************************************************)
(* Equal elements have equal sums, whatever else the sequences hold.       *)
(***************************************************************************)
LEMMA SumsAgree ==
    ASSUME NEW D, IsFiniteSet(D), NEW f \in [D -> Int], NEW E, IsFiniteSet(E), NEW g \in [E -> Int]
    PROVE  \A s \in SUBSET (D \cap E) : (\A x \in s : f[x] = g[x]) => Sums(f)[s] = Sums(g)[s]
<1>1. PICK Q : Q = {s \in SUBSET (D \cap E) : (\A x \in s : f[x] = g[x]) /\ Sums(f)[s] # Sums(g)[s]}
  OBVIOUS
<1> SUFFICES ASSUME Q # {} PROVE FALSE
  BY <1>1
<1>2. PICK s \in Q : \A x \in s : s \ {x} \notin Q
  <2>1. Q \subseteq SUBSET D
    BY <1>1
  <2> QED
    BY <2>1, LeastSubset
<1>3. s # {}
  BY <1>1, SumFacts
<1>4. PICK x \in s : TRUE
  BY <1>3
<1>5. AddsUp(f, s, x) /\ AddsUp(g, s, x)
  BY <1>1, SumWithout
<1>6. Sums(f)[s \ {x}] = Sums(g)[s \ {x}] /\ f[x] = g[x]
  BY <1>1, <1>2
<1> QED
  BY <1>1, <1>5, <1>6 DEF AddsUp

(***************************************************************************)
(* One element that changes moves the sum by as much.                      *)
(***************************************************************************)
LEMMA SumMoved ==
    ASSUME NEW D, IsFiniteSet(D), NEW f \in [D -> Int], NEW g \in [D -> Int], NEW h \in D,
           \A x \in D : x # h => g[x] = f[x]
    PROVE  /\ Sums(f)[D] \in Int /\ Sums(g)[D] \in Int
           /\ Sums(g)[D] = Sums(f)[D] - f[h] + g[h]
<1>1. PICK E : E = D \ {h} /\ E \in SUBSET D
  OBVIOUS
<1>2. Sums(f)[D] = f[h] + Sums(f)[E] /\ Sums(g)[D] = g[h] + Sums(g)[E]
  <2>1. D \in SUBSET D /\ AddsUp(f, D, h) /\ AddsUp(g, D, h)
    BY SumWithout
  <2> QED
    BY <1>1, <2>1 DEF AddsUp
<1>3. Sums(f)[E] = Sums(g)[E]
  <2>1. \A F \in SUBSET (D \cap D) : (\A x \in F : f[x] = g[x]) => Sums(f)[F] = Sums(g)[F]
    BY SumsAgree
  <2>2. E \in SUBSET (D \cap D) /\ \A x \in E : f[x] = g[x]
    BY <1>1
  <2> QED
    BY <2>1, <2>2
<1>4. f[h] \in Int /\ g[h] \in Int /\ Sums(f)[E] \in Int
  BY <1>1, SumIsInt
<1> QED
  BY <1>2, <1>3, <1>4

(***************************************************************************)
(* Nothing below zero adds up to nothing below zero, and nothing to zero.  *)
(***************************************************************************)
LEMMA SumIsNat ==
    ASSUME NEW D, IsFiniteSet(D), NEW f \in [D -> Nat]
    PROVE  Sums(f)[D] \in Nat /\ ((\A x \in D : f[x] = 0) => Sums(f)[D] = 0)
<1>1. PICK Good : Good = IF \A x \in D : f[x] = 0 THEN {0} ELSE Nat
  OBVIOUS
<1>2. PICK Q : Q = {s \in SUBSET D : Sums(f)[s] \notin Good}
  OBVIOUS
<1>3. Q = {}
  <2> SUFFICES ASSUME Q # {} PROVE FALSE
    OBVIOUS
  <2>1. PICK s \in Q : \A x \in s : s \ {x} \notin Q
    BY <1>2, LeastSubset
  <2>2. DOMAIN f = D /\ Sums(f)[{}] = 0
    BY SumFacts
  <2>3. s # {} /\ s \in SUBSET D
    <3>1. 0 \in Good
      BY <1>1
    <3>2. Sums(f)[s] # Sums(f)[{}]
      BY <1>2, <2>2, <3>1
    <3> QED
      BY <1>2, <3>2
  <2>4. PICK x \in s : Sums(f)[s] = f[x] + Sums(f)[s \ {x}]
    BY <2>2, <2>3, SumFacts
  <2>5. Sums(f)[s \ {x}] \in Good /\ f[x] \in Good
    BY <1>1, <1>2, <2>1, <2>3
  <2>6. Sums(f)[s] \in Good
    <3>1. PICK a, b : a = f[x] /\ b = Sums(f)[s \ {x}] /\ a \in Good /\ b \in Good
      BY <2>5
    <3>2. a + b \in Good
      BY <1>1, <3>1
    <3> QED
      BY <2>4, <3>1, <3>2
  <2> QED
    BY <1>2, <2>6
<1>4. Sums(f)[D] \in Good
  BY <1>2, <1>3
<1> QED
  BY <1>1, <1>4

-----------------------------------------------------------------------------
(* The documents of a holder.                                              *)

Total(s) == FoldSeq(+, 0, s)

LEMMA SequenceFacts ==
    ASSUME NEW s \in Seq(Int)
    PROVE  /\ DOMAIN s = 1 .. Len(s) /\ Len(s) \in Nat /\ s \in [1 .. Len(s) -> Int]
           /\ IsFiniteSet(1 .. Len(s)) /\ Total(s) = Sums(s)[1 .. Len(s)]
<1>1. DOMAIN s = 1 .. Len(s) /\ Len(s) \in Nat /\ s \in [1 .. Len(s) -> Int]
  OBVIOUS
<1>2. IsFiniteSet(1 .. Len(s))
  BY <1>1, FS_Interval
<1> QED
  BY <1>1, <1>2, FoldSeqIsSum DEF Total

LEMMA TotalOfNone == Total(<<>>) = 0
<1>1. DOMAIN <<>> = {}
  OBVIOUS
<1>2. IsFiniteSet({})
  BY FS_EmptySet
<1> QED
  BY <1>1, <1>2, SumFacts, FoldSeqIsSum DEF Total

(***************************************************************************)
(* $inc of one document moves the sum by as much.                          *)
(***************************************************************************)
LEMMA TotalOfUpdated ==
    ASSUME NEW s \in Seq(Int), NEW i \in DOMAIN s, NEW a \in Int
    PROVE  Total([s EXCEPT ![i] = @ + a]) = Total(s) + a
<1>1. PICK D : D = 1 .. Len(s)
  OBVIOUS
<1>2. PICK t : t = [s EXCEPT ![i] = @ + a]
  OBVIOUS
<1>3. s \in [D -> Int] /\ IsFiniteSet(D) /\ Total(s) = Sums(s)[D] /\ i \in D
  BY <1>1, SequenceFacts
<1>4. t \in Seq(Int) /\ Len(t) = Len(s)
  BY <1>2
<1>5. t \in [D -> Int] /\ Total(t) = Sums(t)[D]
  BY <1>1, <1>4, SequenceFacts
<1>6. Sums(s)[D] \in Int /\ Sums(t)[D] = Sums(s)[D] - s[i] + t[i]
  <2>1. \A j \in D : j # i => t[j] = s[j]
    BY <1>2, <1>3
  <2> QED
    BY <1>3, <1>5, <2>1, SumMoved
<1>7. t[i] = s[i] + a /\ s[i] \in Int
  BY <1>2, <1>3
<1> QED
  BY <1>2, <1>3, <1>5, <1>6, <1>7

(***************************************************************************)
(* A document that is inserted adds its balance.                           *)
(***************************************************************************)
LEMMA TotalOfAppended ==
    ASSUME NEW s \in Seq(Int), NEW a \in Int
    PROVE  Total(Append(s, a)) = Total(s) + a
<1>1. PICK D, n : D = 1 .. Len(s) /\ n = Len(s) + 1
  OBVIOUS
<1>2. PICK t : t = Append(s, a)
  OBVIOUS
<1>3. s \in [D -> Int] /\ IsFiniteSet(D) /\ Total(s) = Sums(s)[D] /\ Len(s) \in Nat
  BY <1>1, SequenceFacts
<1>4. t \in Seq(Int) /\ Len(t) = n /\ t[n] = a /\ \A j \in D : t[j] = s[j]
  BY <1>1, <1>2
<1>5. PICK E : E = 1 .. n
  OBVIOUS
<1>6. t \in [E -> Int] /\ IsFiniteSet(E) /\ Total(t) = Sums(t)[E]
  BY <1>4, <1>5, SequenceFacts
<1>7. n \in E /\ E \ {n} = D /\ D \subseteq E
  BY <1>1, <1>3, <1>5
<1>8. Sums(t)[E] = a + Sums(t)[D]
  <2>1. Sums(t)[E] = t[n] + Sums(t)[E \ {n}]
    <3>1. AddsUp(t, E, n)
      BY <1>6, <1>7, SumWithout
    <3> QED
      BY <3>1 DEF AddsUp
  <2> QED
    BY <1>4, <1>7, <2>1
<1>9. Sums(t)[D] = Sums(s)[D]
  <2>1. \A F \in SUBSET (E \cap D) : (\A x \in F : t[x] = s[x]) => Sums(t)[F] = Sums(s)[F]
    BY <1>3, <1>6, SumsAgree
  <2>2. D \in SUBSET (E \cap D)
    BY <1>7
  <2> QED
    BY <1>4, <2>1, <2>2
<1>10. Sums(s)[D] \in Int
  BY <1>3, SumIsInt
<1> QED
  BY <1>2, <1>3, <1>6, <1>8, <1>9, <1>10

LEMMA TotalOfOne ==
    ASSUME NEW s \in Seq(Int), Len(s) = 1
    PROVE  Total(s) = s[1]
<1>1. PICK a \in Int : a = s[1]
  <2>1. s \in [1 .. 1 -> Int]
    BY SequenceFacts
  <2>2. s[1] \in Int
    BY <2>1
  <2> QED
    BY <2>2
<1>2. s = Append(<<>>, a)
  BY <1>1
<1>3. <<>> \in Seq(Int)
  OBVIOUS
<1>4. Total(Append(<<>>, a)) = 0 + a
  BY <1>3, TotalOfNone, TotalOfAppended
<1> QED
  BY <1>1, <1>2, <1>4

LEMMA TotalIsInt ==
    ASSUME NEW s \in Seq(Int)
    PROVE  Total(s) \in Int
BY SequenceFacts, SumIsInt

-----------------------------------------------------------------------------
(* The trades in the documents, and those that the handlers still hold.    *)

\* What the trade of a handler still has to add to the documents of u
Hand(o, u) == IF o # Idle /\ o.trade.user = u THEN SCALE * Signed(o.trade) ELSE 0

\* The most that the attempts left to a handler can buy, or sell, for u
Owing(o, isBuy, u) ==
    IF o # Idle /\ o.trade.user = u /\ o.trade.isBuy = isBuy
    THEN o.left * (SCALE * o.trade.tokenAmount) ELSE 0

Hands(u) == [h \in Handlers |-> Hand(op[h], u)]
Owings(isBuy, u) == [h \in Handlers |-> Owing(op[h], isBuy, u)]

Held(u) == Sums(Hands(u))[Handlers]
Owed(isBuy, u) == Sums(Owings(isBuy, u))[Handlers]

\* How far n goes the way of a purchase, or of a sale
Gain(isBuy, n) == IF isBuy THEN n ELSE -n

\* What a handler is about to add is its trade, or less of it.
FitsTrade(o, wrong) ==
    /\ 0 <= Gain(o.trade.isBuy, o.amount)
    /\ Gain(o.trade.isBuy, o.amount) <= SCALE * o.trade.tokenAmount
    /\ o.trade.user \notin wrong => o.amount = SCALE * Signed(o.trade)

AmountsFit == \A h \in Handlers : op[h].at \in {"update", "insert"} => FitsTrade(op[h], marred)

NetOf(u) == SCALE * (traded[TRUE][u] - traded[FALSE][u])
Most(isBuy, u) == MAX_RETRIES * (SCALE * traded[isBuy][u])

\* Documents and trades in hand add up to the trades that there were.
AddUp == \A u \in Users \ marred : Total(docs[u]) + Held(u) = NetOf(u)

\* The documents and the attempts left stay within the attempts there were.
Within == \A u \in Users, b \in BOOLEAN : Gain(b, Total(docs[u])) + Owed(b, u) <= Most(b, u)

NetInv == AmountsFit /\ AddUp /\ Within

LEMMA StakeTypes ==
    ASSUME NEW o \in Calls, NEW u \in Users, NEW b \in BOOLEAN
    PROVE  Hand(o, u) \in Int /\ Owing(o, b, u) \in Nat
<1>1. o # Idle => o.trade \in Trades /\ o.left \in Nat
  BY HoldersAssumption DEF Calls
<1>2. CASE o # Idle
  <2>1. o.trade.tokenAmount \in Nat /\ Signed(o.trade) \in Int
    BY <1>1, <1>2, TradeFacts
  <2>2. SCALE * o.trade.tokenAmount \in Nat /\ SCALE * Signed(o.trade) \in Int
    BY <2>1, HoldersAssumption
  <2>3. o.left * (SCALE * o.trade.tokenAmount) \in Nat
    BY <1>1, <1>2, <2>2
  <2> QED
    BY <2>2, <2>3 DEF Hand, Owing
<1> QED
  BY <1>2 DEF Hand, Owing

LEMMA StakeSums ==
    ASSUME TypeOK, NEW u \in Users, NEW b \in BOOLEAN
    PROVE  /\ Held(u) \in Int /\ Owed(b, u) \in Nat
           /\ (\A h \in Handlers : u \notin TradedFor(h)) => Held(u) = 0 /\ Owed(b, u) = 0
<1>1. \A h \in Handlers : op[h] \in Calls
  BY DEF TypeOK
<1>2. Hands(u) \in [Handlers -> Int] /\ Owings(b, u) \in [Handlers -> Nat]
  BY <1>1, StakeTypes DEF Hands, Owings
<1>3. IsFiniteSet(Handlers)
  BY HoldersAssumption
<1>4. Held(u) \in Int /\ Owed(b, u) \in Nat
  BY <1>2, <1>3, SumIsInt, SumIsNat DEF Held, Owed
<1>5. ASSUME \A h \in Handlers : u \notin TradedFor(h)
      PROVE  Held(u) = 0 /\ Owed(b, u) = 0
  <2>1. \A h \in Handlers : Hand(op[h], u) = 0 /\ Owing(op[h], b, u) = 0
    BY <1>5 DEF TradedFor, Hand, Owing
  <2>2. \A h \in Handlers : Hands(u)[h] = 0 /\ Owings(b, u)[h] = 0
    BY <2>1 DEF Hands, Owings
  <2>3. Hands(u) \in [Handlers -> Nat]
    BY <2>1 DEF Hands
  <2> QED
    BY <1>2, <1>3, <2>2, <2>3, SumIsNat DEF Held, Owed
<1> QED
  BY <1>4, <1>5

(***************************************************************************)
(* A handler that goes on to o moves the stakes of a user by its own.      *)
(***************************************************************************)
LEMMA StakesMove ==
    ASSUME TypeOK, NEW h \in Handlers, NEW o \in Calls, op' = [op EXCEPT ![h] = o],
           NEW u \in Users, NEW b \in BOOLEAN
    PROVE  /\ Held(u)' = Held(u) - Hand(op[h], u) + Hand(o, u)
           /\ Owed(b, u)' = Owed(b, u) - Owing(op[h], b, u) + Owing(o, b, u)
<1>1. op \in [Handlers -> Calls] /\ op' \in [Handlers -> Calls] /\ op'[h] = o
      /\ \A g \in Handlers : g # h => op'[g] = op[g]
  BY DEF TypeOK
<1>2. IsFiniteSet(Handlers)
  BY HoldersAssumption
<1>3. PICK f, g : /\ f = [x \in Handlers |-> Hand(op[x], u)]
                  /\ g = [x \in Handlers |-> Hand(op'[x], u)]
  OBVIOUS
<1>4. f \in [Handlers -> Int] /\ g \in [Handlers -> Int] /\ f[h] = Hand(op[h], u)
      /\ g[h] = Hand(o, u) /\ \A x \in Handlers : x # h => g[x] = f[x]
  BY <1>1, <1>3, StakeTypes
<1>5. PICK p, q : /\ p = [x \in Handlers |-> Owing(op[x], b, u)]
                  /\ q = [x \in Handlers |-> Owing(op'[x], b, u)]
  OBVIOUS
<1>6. p \in [Handlers -> Int] /\ q \in [Handlers -> Int] /\ p[h] = Owing(op[h], b, u)
      /\ q[h] = Owing(o, b, u) /\ \A x \in Handlers : x # h => q[x] = p[x]
  BY <1>1, <1>5, StakeTypes
<1>7. Held(u) = Sums(f)[Handlers] /\ Held(u)' = Sums(g)[Handlers]
  BY <1>3 DEF Held, Hands
<1>8. Owed(b, u) = Sums(p)[Handlers] /\ Owed(b, u)' = Sums(q)[Handlers]
  BY <1>5 DEF Owed, Owings
<1>9. Sums(g)[Handlers] = Sums(f)[Handlers] - f[h] + g[h]
  BY <1>2, <1>4, SumMoved
<1>10. Sums(q)[Handlers] = Sums(p)[Handlers] - p[h] + q[h]
  BY <1>2, <1>6, SumMoved
<1> QED
  BY <1>4, <1>6, <1>7, <1>8, <1>9, <1>10

(***************************************************************************)
(* A step of a handler h on a trade of v that it goes on with, or is done  *)
(* with, and that moves the documents of v by a: what the documents get is *)
(* no longer in hand, unless v is marred, and takes an attempt.            *)
(***************************************************************************)
LEMMA HandlerKeepsNet ==
    ASSUME Inv, NetInv, NEW h \in Handlers, NEW o \in Calls, op' = [op EXCEPT ![h] = o],
           NEW v \in Users, NEW a \in Int, op[h] # Idle, op[h].trade.user = v,
           o # Idle => o.trade = op[h].trade,
           o.at \in {"update", "insert"} => FitsTrade(o, marred'),
           \A u \in Users : Total(docs'[u]) = Total(docs[u]) + (IF u = v THEN a ELSE 0),
           v \notin marred' => a + Hand(o, v) = Hand(op[h], v),
           \A b \in BOOLEAN : Gain(b, a) + Owing(o, b, v) <= Owing(op[h], b, v),
           marred \subseteq marred', traded' = traded
    PROVE  NetInv'
<1>1. TypeOK /\ \A g \in Handlers : op'[g] = IF g = h THEN o ELSE op[g]
  BY DEF Inv, TypeOK
<1>2. AmountsFit'
  <2> SUFFICES ASSUME NEW g \in Handlers, op'[g].at \in {"update", "insert"}
               PROVE  FitsTrade(op'[g], marred')
    BY DEF AmountsFit
  <2>1. CASE g = h
    BY <1>1, <2>1
  <2>2. CASE g # h
    BY <1>1, <2>2 DEF NetInv, AmountsFit, FitsTrade
  <2> QED
    BY <2>1, <2>2
<1>3. ASSUME NEW u \in Users, NEW b \in BOOLEAN
      PROVE  /\ Total(docs[u]) \in Int /\ Held(u) \in Int /\ Owed(b, u) \in Int
             /\ Hand(op[h], u) \in Int /\ Hand(o, u) \in Int
             /\ Owing(op[h], b, u) \in Int /\ Owing(o, b, u) \in Int
             /\ Held(u)' = Held(u) - Hand(op[h], u) + Hand(o, u)
             /\ Owed(b, u)' = Owed(b, u) - Owing(op[h], b, u) + Owing(o, b, u)
             /\ u # v => /\ Hand(op[h], u) = 0 /\ Hand(o, u) = 0
                         /\ Owing(op[h], b, u) = 0 /\ Owing(o, b, u) = 0
  <2>1. docs[u] \in Seq(Int) /\ op[h] \in Calls
    BY <1>1 DEF TypeOK
  <2>2. u # v => /\ Hand(op[h], u) = 0 /\ Hand(o, u) = 0
                 /\ Owing(op[h], b, u) = 0 /\ Owing(o, b, u) = 0
    BY DEF Hand, Owing
  <2>3. Held(u) \in Int /\ Owed(b, u) \in Int /\ Total(docs[u]) \in Int
    BY <1>1, <2>1, StakeSums, TotalIsInt
  <2>4. Hand(op[h], u) \in Int /\ Owing(op[h], b, u) \in Int
    BY <2>1, StakeTypes
  <2>5. Hand(o, u) \in Int /\ Owing(o, b, u) \in Int
    BY StakeTypes
  <2>6. /\ Held(u)' = Held(u) - Hand(op[h], u) + Hand(o, u)
        /\ Owed(b, u)' = Owed(b, u) - Owing(op[h], b, u) + Owing(o, b, u)
    BY <1>1, StakesMove
  <2> QED
    BY <2>2, <2>3, <2>4, <2>5, <2>6
<1>4. AddUp'
  <2> SUFFICES ASSUME NEW u \in Users, u \notin marred'
               PROVE  Total(docs'[u]) + Held(u)' = NetOf(u)'
    BY DEF AddUp
  <2>1. NetOf(u)' = NetOf(u) /\ Total(docs[u]) + Held(u) = NetOf(u)
    BY DEF NetOf, NetInv, AddUp
  <2> PICK b \in BOOLEAN : b = TRUE
    OBVIOUS
  <2>2. /\ Total(docs[u]) \in Int /\ Held(u) \in Int
        /\ Hand(op[h], u) \in Int /\ Hand(o, u) \in Int
        /\ Held(u)' = Held(u) - Hand(op[h], u) + Hand(o, u)
        /\ u # v => Hand(op[h], u) = 0 /\ Hand(o, u) = 0
    BY <1>3
  <2>3. Total(docs'[u]) = Total(docs[u]) + (IF u = v THEN a ELSE 0)
    OBVIOUS
  <2>4. CASE u = v
    BY <2>1, <2>2, <2>3, <2>4
  <2>5. CASE u # v
    BY <2>1, <2>2, <2>3, <2>5
  <2> QED
    BY <2>4, <2>5
<1>5. Within'
  <2> SUFFICES ASSUME NEW u \in Users, NEW b \in BOOLEAN
               PROVE  Gain(b, Total(docs'[u])) + Owed(b, u)' <= Most(b, u)'
    BY DEF Within
  <2>1. Most(b, u)' = Most(b, u) /\ Gain(b, Total(docs[u])) + Owed(b, u) <= Most(b, u)
    BY DEF Most, NetInv, Within
  <2>2. Most(b, u) \in Int
    <3>1. traded[b][u] \in Nat
      BY <1>1 DEF TypeOK
    <3>2. SCALE * traded[b][u] \in Nat
      BY <3>1, HoldersAssumption
    <3> QED
      BY <3>2, HoldersAssumption DEF Most
  <2>3. CASE u = v
    <3>1. Gain(b, Total(docs'[u])) = Gain(b, Total(docs[u])) + Gain(b, a)
      BY <1>3, <2>3 DEF Gain
    <3>2. Gain(b, a) + Owing(o, b, u) <= Owing(op[h], b, u)
      BY <2>3
    <3>3. Gain(b, Total(docs[u])) \in Int /\ Gain(b, a) \in Int
      BY <1>3 DEF Gain
    <3> QED
      BY <1>3, <2>1, <2>2, <3>1, <3>2, <3>3
  <2>4. CASE u # v
    <3>1. Total(docs'[u]) = Total(docs[u])
      BY <1>3, <2>4
    <3>2. Owed(b, u)' = Owed(b, u)
      BY <1>3, <2>4
    <3> QED
      BY <2>1, <3>1, <3>2
  <2> QED
    BY <2>3, <2>4
<1> QED
  BY <1>2, <1>4, <1>5 DEF NetInv

(***************************************************************************)
(* A new trade is in hand with all that it may add.                        *)
(***************************************************************************)
LEMMA StartKeepsNet ==
    ASSUME Inv, NetInv, NEW h \in Handlers, StartTrade(h)
    PROVE  NetInv'
<1>1. PICK t \in Trades, left \in 1 .. MAX_RETRIES :
        /\ op' = [op EXCEPT ![h] = [at |-> "decimals", trade |-> t, left |-> left]]
        /\ traded' = [traded EXCEPT ![t.isBuy][t.user] = @ + t.tokenAmount]
  BY DEF StartTrade, Goto
<1>2. PICK o : o = [at |-> "decimals", trade |-> t, left |-> left]
  OBVIOUS
<1>3. o \in Calls /\ o # Idle
  <2>1. o.at # Idle.at
    BY <1>2 DEF Idle
  <2> QED
    BY <1>2, <2>1 DEF Calls
<1>4. docs' = docs /\ marred' = marred /\ TypeOK /\ op[h] \in Calls /\ op[h] = Idle
  <2>1. op[h] \in Calls /\ op[h].at = "idle"
    BY DEF StartTrade, At, Inv, TypeOK
  <2>2. op[h] = Idle
    BY <2>1 DEF Calls
  <2> QED
    BY <2>1, <2>2 DEF StartTrade, Inv
<1>5. t.user \in Users /\ t.isBuy \in BOOLEAN /\ t.tokenAmount \in Nat
  BY TradeFacts
<1>6. PICK n \in Nat : n = SCALE * t.tokenAmount
  BY <1>5, HoldersAssumption
<1>7. AmountsFit'
  <2>1. \A g \in Handlers : op'[g] = IF g = h THEN o ELSE op[g]
    BY <1>1, <1>2, <1>4 DEF TypeOK
  <2>2. o.at \notin {"update", "insert"}
    BY <1>2
  <2> QED
    BY <1>4, <2>1, <2>2 DEF NetInv, AmountsFit, FitsTrade
<1>8. ASSUME NEW u \in Users, NEW b \in BOOLEAN
      PROVE  /\ Total(docs[u]) \in Int /\ Held(u) \in Int /\ Owed(b, u) \in Int
             /\ Held(u)' = Held(u) + Hand(o, u) /\ Hand(o, u) \in Int
             /\ Owed(b, u)' = Owed(b, u) + Owing(o, b, u) /\ Owing(o, b, u) \in Int
             /\ traded[b][u] \in Nat
             /\ traded'[b][u] = traded[b][u] + (IF u = t.user /\ b = t.isBuy THEN t.tokenAmount ELSE 0)
  <2>1. docs[u] \in Seq(Int) /\ traded[b][u] \in Nat
    BY <1>4 DEF TypeOK
  <2>2. Hand(op[h], u) = 0 /\ Owing(op[h], b, u) = 0
    BY <1>4 DEF Hand, Owing
  <2>3. Held(u) \in Int /\ Owed(b, u) \in Int
    BY <1>4, StakeSums
  <2>4. /\ Held(u)' = Held(u) - Hand(op[h], u) + Hand(o, u)
        /\ Owed(b, u)' = Owed(b, u) - Owing(op[h], b, u) + Owing(o, b, u)
    BY <1>1, <1>2, <1>3, <1>4, StakesMove
  <2>5. Hand(o, u) \in Int /\ Owing(o, b, u) \in Int
    BY <1>3, StakeTypes
  <2>6. traded'[b][u] = traded[b][u] + (IF u = t.user /\ b = t.isBuy THEN t.tokenAmount ELSE 0)
    BY <1>1, <1>4, <1>5 DEF TypeOK
  <2> QED
    BY <2>1, <2>2, <2>3, <2>4, <2>5, <2>6, TotalIsInt
<1>9. AddUp'
  <2> SUFFICES ASSUME NEW u \in Users, u \notin marred
               PROVE  Total(docs[u]) + Held(u)' = NetOf(u)'
    BY <1>4 DEF AddUp
  <2>1. Total(docs[u]) + Held(u) = NetOf(u)
    BY DEF NetInv, AddUp
  <2> PICK b \in BOOLEAN : b = TRUE
    OBVIOUS
  <2>2. /\ Total(docs[u]) \in Int /\ Held(u) \in Int /\ Hand(o, u) \in Int
        /\ Held(u)' = Held(u) + Hand(o, u)
    BY <1>8
  <2>3. NetOf(u)' = NetOf(u) + Hand(o, u)
    <3>1. PICK x, y, x1, y1 : /\ x = traded[TRUE][u] /\ y = traded[FALSE][u]
                              /\ x1 = traded'[TRUE][u] /\ y1 = traded'[FALSE][u]
      OBVIOUS
    <3>2. NetOf(u) = SCALE * (x - y) /\ NetOf(u)' = SCALE * (x1 - y1)
      BY <3>1 DEF NetOf
    <3>3. PICK yes, no \in BOOLEAN : yes = TRUE /\ no = FALSE
      OBVIOUS
    <3>4. /\ x \in Nat /\ x1 = x + (IF u = t.user /\ yes = t.isBuy THEN t.tokenAmount ELSE 0)
          /\ y \in Nat /\ y1 = y + (IF u = t.user /\ no = t.isBuy THEN t.tokenAmount ELSE 0)
      BY <1>8, <3>1, <3>3
    <3>5. CASE t.user = u
      <4>1. x1 - y1 = (x - y) + Signed(t)
        <5>1. CASE t.isBuy = yes
          <6>1. no # t.isBuy /\ Signed(t) = t.tokenAmount
            BY <3>3, <5>1 DEF Signed
          <6> QED
            BY <1>5, <3>4, <3>5, <5>1, <6>1
        <5>2. CASE t.isBuy = no
          <6>1. yes # t.isBuy /\ Signed(t) = -t.tokenAmount
            BY <3>3, <5>2 DEF Signed
          <6> QED
            BY <1>5, <3>4, <3>5, <5>2, <6>1
        <5> QED
          BY <1>5, <3>3, <5>1, <5>2
      <4>2. Hand(o, u) = SCALE * Signed(t)
        BY <1>2, <1>3, <3>5 DEF Hand
      <4>3. \A S, p, q \in Int : S * (p + q) = S * p + S * q
        OBVIOUS
      <4>4. SCALE * ((x - y) + Signed(t)) = SCALE * (x - y) + SCALE * Signed(t)
        BY <3>4, <4>3, TradeFacts, HoldersAssumption
      <4> QED
        BY <3>2, <4>1, <4>2, <4>4
    <3>6. CASE t.user # u
      <4>1. x \in Nat /\ y \in Nat /\ x1 = x /\ y1 = y
        BY <3>4, <3>6
      <4>2. Hand(o, u) = 0
        BY <1>2, <3>6 DEF Hand
      <4>3. SCALE * (x - y) \in Int
        BY <4>1, HoldersAssumption
      <4> QED
        BY <3>2, <4>1, <4>2, <4>3
    <3> QED
      BY <3>5, <3>6
  <2> QED
    BY <2>1, <2>2, <2>3
<1>10. Within'
  <2> SUFFICES ASSUME NEW u \in Users, NEW b \in BOOLEAN
               PROVE  Gain(b, Total(docs[u])) + Owed(b, u)' <= Most(b, u)'
    BY <1>4 DEF Within
  <2>1. Gain(b, Total(docs[u])) + Owed(b, u) <= Most(b, u)
    BY DEF NetInv, Within
  <2>2. Gain(b, Total(docs[u])) \in Int
    BY <1>8 DEF Gain
  <2>3. PICK x : x = traded[b][u]
    OBVIOUS
  <2>4. x \in Nat /\ SCALE * x \in Nat /\ MAX_RETRIES \in Nat /\ Most(b, u) = MAX_RETRIES * (SCALE * x)
        /\ Most(b, u) \in Nat
    <3>1. x \in Nat
      BY <1>8, <2>3
    <3>2. SCALE * x \in Nat
      BY <3>1, HoldersAssumption
    <3>3. Most(b, u) = MAX_RETRIES * (SCALE * x)
      BY <2>3 DEF Most
    <3>4. MAX_RETRIES * (SCALE * x) \in Nat
      BY <3>2, HoldersAssumption
    <3> QED
      BY <3>1, <3>2, <3>3, <3>4, HoldersAssumption
  <2>5. CASE u = t.user /\ b = t.isBuy
    <3>1. Owing(o, b, u) = left * n
      BY <1>2, <1>3, <1>6, <2>5 DEF Owing
    <3>2. SCALE * (x + t.tokenAmount) = SCALE * x + n
      BY <1>5, <1>6, <2>4, HoldersAssumption
    <3>3. Most(b, u)' = MAX_RETRIES * (SCALE * x + n)
      BY <1>8, <2>3, <2>5, <3>2 DEF Most
    <3>4. MAX_RETRIES * (SCALE * x + n) = MAX_RETRIES * (SCALE * x) + MAX_RETRIES * n
      BY <1>6, <2>4
    <3>5. left * n <= MAX_RETRIES * n /\ left * n \in Int /\ MAX_RETRIES * n \in Int
      <4>1. \A i, k, m \in Nat : i <= k => i * m <= k * m /\ i * m \in Int /\ k * m \in Int
        OBVIOUS
      <4> QED
        BY <2>4, <4>1
    <3> QED
      BY <1>8, <2>1, <2>2, <2>4, <3>1, <3>3, <3>4, <3>5
  <2>6. CASE ~(u = t.user /\ b = t.isBuy)
    <3>1. Owing(o, b, u) = 0 /\ Most(b, u)' = Most(b, u)
      BY <1>2, <1>8, <2>6 DEF Owing, Most
    <3> QED
      BY <1>8, <2>1, <2>4, <3>1
  <2> QED
    BY <2>5, <2>6
<1> QED
  BY <1>7, <1>9, <1>10 DEF NetInv

(***************************************************************************)
(* A process that dies takes nothing from the documents; whose trade it    *)
(* was working on is marred.                                               *)
(***************************************************************************)
LEMMA DieKeepsNet ==
    ASSUME Inv, NetInv, Die
    PROVE  NetInv'
<1>1. TypeOK /\ docs' = docs /\ traded' = traded /\ op' = [h \in Handlers |-> Idle]
  BY DEF Inv, Die
<1>2. ASSUME NEW u \in Users, NEW b \in BOOLEAN
      PROVE  Held(u)' = 0 /\ Owed(b, u)' = 0
  <2>1. PICK f : f = [h \in Handlers |-> 0]
    OBVIOUS
  <2>2. f \in [Handlers -> Nat] /\ \A h \in Handlers : f[h] = 0
    BY <2>1
  <2>3. Sums(f)[Handlers] = 0
    BY <2>2, SumIsNat, HoldersAssumption
  <2>4. [h \in Handlers |-> Hand(op'[h], u)] = f /\ [h \in Handlers |-> Owing(op'[h], b, u)] = f
    BY <1>1, <2>1 DEF Hand, Owing
  <2> QED
    BY <2>3, <2>4 DEF Held, Hands, Owed, Owings
<1>3. AmountsFit'
  BY <1>1 DEF AmountsFit, Idle
<1>4. AddUp'
  <2> SUFFICES ASSUME NEW u \in Users, u \notin marred'
               PROVE  Total(docs[u]) + Held(u)' = NetOf(u)
    BY <1>1 DEF AddUp, NetOf
  <2>1. u \notin marred /\ \A h \in Handlers : u \notin TradedFor(h)
    BY DEF Die
  <2> PICK b \in BOOLEAN : b = TRUE
    OBVIOUS
  <2>2. Held(u) = 0 /\ Held(u)' = 0
    BY <1>1, <1>2, <2>1, StakeSums
  <2>3. Total(docs[u]) + Held(u) = NetOf(u)
    BY <2>1 DEF NetInv, AddUp
  <2> QED
    BY <2>2, <2>3
<1>5. Within'
  <2> SUFFICES ASSUME NEW u \in Users, NEW b \in BOOLEAN
               PROVE  Gain(b, Total(docs[u])) + Owed(b, u)' <= Most(b, u)
    BY <1>1 DEF Within, Most
  <2>1. Gain(b, Total(docs[u])) + Owed(b, u) <= Most(b, u) /\ Owed(b, u)' = 0
    BY <1>2 DEF NetInv, Within
  <2>2. Gain(b, Total(docs[u])) \in Int /\ Owed(b, u) \in Nat
    <3>1. docs[u] \in Seq(Int)
      BY <1>1 DEF TypeOK
    <3> QED
      BY <1>1, <3>1, StakeSums, TotalIsInt DEF Gain
  <2>3. Most(b, u) \in Int
    <3>1. traded[b][u] \in Nat
      BY <1>1 DEF TypeOK
    <3>2. SCALE * traded[b][u] \in Nat
      BY <3>1, HoldersAssumption
    <3> QED
      BY <3>2, HoldersAssumption DEF Most
  <2> QED
    BY <2>1, <2>2, <2>3
<1> QED
  BY <1>3, <1>4, <1>5 DEF NetInv

(***************************************************************************)
(* A handler that is done with its trade, or starts it over with an        *)
(* attempt less, has moved the documents by a made update or by nothing.   *)
(***************************************************************************)
LEMMA UpdateKeepsNet ==
    ASSUME Inv, NetInv, NEW h \in Handlers, op[h].at \in {"update", "insert"},
           NEW made \in BOOLEAN, IF made THEN Updated(h) ELSE Rejected(h, FALSE),
           traded' = traded,
           \A u \in Users : Total(docs'[u]) = Total(docs[u])
               + (IF u = op[h].trade.user THEN IF made THEN op[h].amount ELSE 0 ELSE 0)
    PROVE  NetInv'
<1>1. TypeOK /\ op[h] # Idle /\ op[h].trade \in Trades /\ op[h].left \in 1 .. MAX_RETRIES
      /\ op[h].amount \in Int
  BY CallFacts DEF Inv
<1>2. PICK o \in Calls :
        /\ op' = [op EXCEPT ![h] = o]
        /\ \/ o = Idle
           \/ /\ o = [at |-> "decimals", trade |-> op[h].trade, left |-> op[h].left - 1]
              /\ op[h].left > 1
        /\ marred \subseteq marred'
        /\ op[h].trade.user \notin marred' => (made <=> o = Idle)
  BY <1>1, UpdateEnds
<1>3. PICK v, n, t, k : /\ v = op[h].trade.user /\ n = SCALE * op[h].trade.tokenAmount
                        /\ t = op[h].trade /\ k = op[h].left
  OBVIOUS
<1>4. v \in Users /\ t.isBuy \in BOOLEAN /\ n \in Nat /\ k \in 1 .. MAX_RETRIES
  BY <1>1, <1>3, TradeFacts, HoldersAssumption
<1>5. PICK a \in Int : a = IF made THEN op[h].amount ELSE 0
  BY <1>1
<1>6. /\ 0 <= Gain(t.isBuy, a) /\ Gain(t.isBuy, a) <= n
      /\ made /\ v \notin marred => a = SCALE * Signed(t)
  <2>1. FitsTrade(op[h], marred)
    BY DEF NetInv, AmountsFit
  <2>2. CASE made
    BY <1>3, <1>5, <2>1, <2>2 DEF FitsTrade
  <2>3. CASE ~made
    BY <1>4, <1>5, <2>3 DEF Gain
  <2> QED
    BY <2>2, <2>3
<1>7. Idle.at = "idle"
  BY DEF Idle
<1>8. /\ o.at \notin {"update", "insert"}
      /\ o # Idle => o.trade = op[h].trade
  BY <1>2, <1>7
<1>9. Hand(op[h], v) = SCALE * Signed(t) /\ (o # Idle => Hand(o, v) = SCALE * Signed(t))
      /\ (o = Idle => Hand(o, v) = 0) /\ Hand(op[h], v) \in Int
  <2>1. Hand(op[h], v) = SCALE * Signed(t) /\ (o # Idle => Hand(o, v) = SCALE * Signed(t))
        /\ (o = Idle => Hand(o, v) = 0)
    BY <1>1, <1>3, <1>8 DEF Hand
  <2>2. op[h] \in Calls /\ TRUE \in BOOLEAN
    BY <1>1 DEF TypeOK
  <2>3. Hand(op[h], v) \in Int
    BY <1>4, <2>2, StakeTypes
  <2> QED
    BY <2>1, <2>3
<1>10. ASSUME v \notin marred' PROVE a + Hand(o, v) = Hand(op[h], v)
  <2>1. CASE made
    BY <1>2, <1>3, <1>6, <1>9, <1>10, <2>1
  <2>2. CASE ~made
    BY <1>2, <1>3, <1>5, <1>9, <1>10, <2>2
  <2> QED
    BY <2>1, <2>2
<1>11. ASSUME NEW b \in BOOLEAN
       PROVE  Gain(b, a) + Owing(o, b, v) <= Owing(op[h], b, v)
  <2>1. CASE b = t.isBuy
    <3>1. Owing(op[h], b, v) = k * n
      BY <1>1, <1>3, <2>1 DEF Owing
    <3>2. k * n = (k - 1) * n + n /\ (k - 1) * n \in Nat
      <4>1. k - 1 \in Nat
        BY <1>4, HoldersAssumption
      <4>2. \A i, m \in Nat : i * m \in Nat /\ (i + 1) * m = i * m + m
        OBVIOUS
      <4>3. k = (k - 1) + 1
        BY <1>4, HoldersAssumption
      <4> QED
        BY <1>4, <4>1, <4>2, <4>3
    <3>3. Owing(o, b, v) = 0 \/ Owing(o, b, v) = (k - 1) * n
      BY <1>2, <1>3 DEF Owing
    <3>4. Gain(b, a) \in Int /\ Gain(b, a) <= n
      BY <1>6, <2>1 DEF Gain
    <3> QED
      BY <1>4, <3>1, <3>2, <3>3, <3>4
  <2>2. CASE b # t.isBuy
    <3>1. Owing(op[h], b, v) = 0 /\ Owing(o, b, v) = 0
      BY <1>3, <1>8, <2>2 DEF Owing
    <3>2. Gain(b, a) <= 0 /\ Gain(b, a) \in Int
      BY <1>4, <1>6, <2>2 DEF Gain
    <3> QED
      BY <3>1, <3>2
  <2> QED
    BY <2>1, <2>2
<1>12. \A u \in Users : Total(docs'[u]) = Total(docs[u]) + (IF u = v THEN a ELSE 0)
  BY <1>3, <1>5
<1> QED
  BY <1>1, <1>2, <1>3, <1>4, <1>8, <1>10, <1>11, <1>12, HandlerKeepsNet

LEMMA HandleKeepsNet ==
    ASSUME Inv, NetInv, NEW h \in Handlers, Handle(h)
    PROVE  NetInv'
<1>1. TypeOK
  BY DEF Inv
<1>2. ASSUME op[h] # Idle
      PROVE  /\ op[h].trade \in Trades /\ op[h].left \in 1 .. MAX_RETRIES
             /\ op[h].trade.user \in Users
  BY <1>1, <1>2, CallFacts, TradeFacts
<1>3. ASSUME docs' = docs
      PROVE  \A u \in Users : Total(docs'[u]) = Total(docs[u]) + 0
  <2>1. \A u \in Users : docs[u] \in Seq(Int)
    BY <1>1 DEF TypeOK
  <2> QED
    BY <1>3, <2>1, TotalIsInt
<1>4. ASSUME NEW o \in Calls, op' = [op EXCEPT ![h] = o], o # Idle, op[h] # Idle,
             o.trade = op[h].trade, o.left = op[h].left,
             o.at \in {"update", "insert"} => FitsTrade(o, marred'),
             marred \subseteq marred', UNCHANGED <<docs, traded>>
      PROVE  NetInv'
  <2>1. PICK v \in Users, a \in Int : v = op[h].trade.user /\ a = 0
    BY <1>2, <1>4
  <2>2. Hand(o, v) = Hand(op[h], v) /\ \A b \in BOOLEAN : Owing(o, b, v) = Owing(op[h], b, v)
    BY <1>4 DEF Hand, Owing
  <2>3. op[h] \in Calls
    BY <1>1 DEF TypeOK
  <2>4. a + Hand(o, v) = Hand(op[h], v)
    <3>1. PICK b \in BOOLEAN : TRUE
      OBVIOUS
    <3>2. Hand(op[h], v) \in Int
      BY <2>3, <3>1, StakeTypes
    <3> QED
      BY <2>1, <2>2, <3>2
  <2>5. ASSUME NEW b \in BOOLEAN
        PROVE  Gain(b, a) + Owing(o, b, v) <= Owing(op[h], b, v)
    <3>1. Owing(op[h], b, v) \in Nat
      BY <2>3, StakeTypes
    <3> QED
      BY <2>1, <2>2, <3>1 DEF Gain
  <2>6. \A u \in Users : Total(docs'[u]) = Total(docs[u]) + (IF u = v THEN a ELSE 0)
    BY <1>3, <1>4, <2>1
  <2> QED
    BY <1>4, <2>1, <2>4, <2>5, <2>6, HandlerKeepsNet
<1>5. CASE DecimalsKnown(h)
  <2>1. op[h] # Idle
    BY <1>1, <1>5, CallFacts DEF DecimalsKnown, At
  <2>2. PICK t, b : t = op[h].trade /\ b = t.isBuy
    OBVIOUS
  <2>3. /\ t.user \in Users /\ b \in BOOLEAN /\ t.tokenAmount \in Nat /\ Signed(t) \in Int
        /\ Signed(t) = IF b THEN t.tokenAmount ELSE -t.tokenAmount
        /\ TradedFor(h) = {t.user}
    BY <1>2, <2>1, <2>2, TradeFacts DEF Signed, TradedFor
  <2>4. PICK scale \in {SCALE, 1} :
          /\ op' = [op EXCEPT ![h] = [at |-> "update", trade |-> t, left |-> op[h].left,
                                      amount |-> scale * Signed(t)]]
          /\ IF scale = SCALE THEN marred \subseteq marred' ELSE marred' = marred \cup TradedFor(h)
    BY <1>5, <2>2 DEF DecimalsKnown, Goto, Marred
  <2>5. PICK o : o = [at |-> "update", trade |-> t, left |-> op[h].left, amount |-> scale * Signed(t)]
    OBVIOUS
  <2>6. scale \in Nat /\ 1 <= scale /\ scale <= SCALE
    BY HoldersAssumption
  <2>7. o \in Calls /\ o # Idle
    <3>1. scale * Signed(t) \in Int
      BY <2>3, <2>6
    <3>2. o \in Calls
      BY <1>2, <2>1, <2>2, <2>5, <3>1 DEF Calls
    <3>3. o.at # Idle.at
      BY <2>5 DEF Idle
    <3> QED
      BY <3>2, <3>3
  <2>8. FitsTrade(o, marred')
    <3>1. PICK n \in Nat : n = t.tokenAmount
      BY <2>3
    <3>2. 0 <= scale * n /\ scale * n <= SCALE * n
      <4>1. \A i, k, m \in Nat : i <= k => i * m <= k * m /\ 0 <= i * m
        OBVIOUS
      <4> QED
        BY <2>6, <4>1, HoldersAssumption
    <3>3. Gain(b, scale * Signed(t)) = scale * n
      <4>1. CASE b
        BY <2>3, <3>1, <4>1 DEF Gain
      <4>2. CASE ~b
        <5>1. \A i, m \in Nat : -(i * (-m)) = i * m
          OBVIOUS
        <5> QED
          BY <2>3, <2>6, <3>1, <4>2, <5>1 DEF Gain
      <4> QED
        BY <4>1, <4>2
    <3>4. t.user \notin marred' => scale = SCALE
      BY <2>3, <2>4
    <3> QED
      BY <2>2, <2>5, <3>1, <3>2, <3>3, <3>4 DEF FitsTrade
  <2>9. marred \subseteq marred' /\ UNCHANGED <<docs, traded>>
    BY <1>5, <2>4 DEF DecimalsKnown
  <2> QED
    BY <1>4, <2>1, <2>2, <2>4, <2>5, <2>7, <2>8, <2>9
<1>6. ASSUME NEW l \in {"update", "insert"}, op[h].at \in {"update", "insert"},
             op' = [op EXCEPT ![h] = [op[h] EXCEPT !.at = l]],
             UNCHANGED <<docs, traded, marred>>
      PROVE  NetInv'
  <2>1. PICK o : o = [op[h] EXCEPT !.at = l]
    OBVIOUS
  <2>2. op[h] \in [at : {"update", "insert"}, trade : Trades, left : 1 .. MAX_RETRIES, amount : Int]
    BY <1>1, <1>6 DEF TypeOK, Calls, Idle
  <2>3. /\ o \in Calls /\ o.at # Idle.at /\ op[h] # Idle
        /\ o.trade = op[h].trade /\ o.left = op[h].left /\ o.amount = op[h].amount
    BY <1>6, <2>1, <2>2 DEF Calls, Idle
  <2>4. FitsTrade(op[h], marred)
    BY <1>6 DEF NetInv, AmountsFit
  <2>5. FitsTrade(o, marred')
    BY <1>6, <2>3, <2>4 DEF FitsTrade
  <2> QED
    BY <1>4, <1>6, <2>1, <2>3, <2>5
<1>7. CASE NoMatch(h)
  BY <1>6, <1>7 DEF NoMatch, At, Goto, history
<1>8. CASE UpdateFails(h)
  <2>1. /\ op[h].at \in {"update", "insert"} /\ Rejected(h, FALSE) /\ UNCHANGED <<docs, traded>>
    BY <1>8 DEF UpdateFails
  <2> QED
    BY <1>3, <2>1, UpdateKeepsNet
<1>9. ASSUME op[h].at \in {"update", "insert"}
      PROVE  op[h].amount \in Int /\ op[h].trade.user \in Users
  BY <1>1, <1>2, <1>9, CallFacts
<1>10. CASE Match(h)
  <2>1. op[h].at \in {"update", "insert"} /\ Updated(h) /\ traded' = traded
    BY <1>10 DEF Match, At
  <2>2. PICK u \in Users, a \in Int : u = op[h].trade.user /\ a = op[h].amount
    BY <1>9, <2>1
  <2>3. PICK s : s = docs[u]
    OBVIOUS
  <2>4. PICK i \in DOMAIN s : docs' = [docs EXCEPT ![u][i] = @ + a]
    BY <1>10, <2>2, <2>3 DEF Match
  <2>5. s \in Seq(Int) /\ docs'[u] = [s EXCEPT ![i] = @ + a]
        /\ \A v \in Users : docs[v] \in Seq(Int) /\ (v # u => docs'[v] = docs[v])
    BY <1>1, <2>3, <2>4 DEF TypeOK
  <2>6. Total(docs'[u]) = Total(s) + a
    BY <2>5, TotalOfUpdated
  <2>7. \A v \in Users : Total(docs'[v]) = Total(docs[v]) + (IF v = u THEN a ELSE 0)
    BY <2>3, <2>5, <2>6, TotalIsInt
  <2> QED
    BY <2>1, <2>2, <2>7, UpdateKeepsNet
<1>11. CASE Insert(h)
  <2>1. op[h].at \in {"update", "insert"} /\ traded' = traded
    BY <1>11 DEF Insert, At
  <2>2. PICK u \in Users, a \in Int : u = op[h].trade.user /\ a = op[h].amount
    BY <1>9, <2>1
  <2>3. CASE docs' = [docs EXCEPT ![u] = Append(@, a)] /\ Updated(h)
    <3>1. PICK s : s = docs[u]
      OBVIOUS
    <3>2. s \in Seq(Int) /\ docs'[u] = Append(s, a)
          /\ \A v \in Users : docs[v] \in Seq(Int) /\ (v # u => docs'[v] = docs[v])
      BY <1>1, <2>3, <3>1 DEF TypeOK
    <3>3. Total(docs'[u]) = Total(s) + a
      BY <3>2, TotalOfAppended
    <3>4. \A v \in Users : Total(docs[v]) \in Int
      BY <3>2, TotalIsInt
    <3>5. \A v \in Users : Total(docs'[v]) = Total(docs[v]) + (IF v = u THEN a ELSE 0)
      <4> SUFFICES ASSUME NEW v \in Users
                   PROVE  Total(docs'[v]) = Total(docs[v]) + (IF v = u THEN a ELSE 0)
        OBVIOUS
      <4>1. CASE v = u
        BY <3>1, <3>3, <4>1
      <4>2. CASE v # u
        BY <3>2, <3>4, <4>2
      <4> QED
        BY <4>1, <4>2
    <3> QED
      BY <2>1, <2>2, <2>3, <3>5, UpdateKeepsNet
  <2>4. CASE Goto(h, [op[h] EXCEPT !.at = "update"]) /\ UNCHANGED <<docs, marred, budgets>>
    BY <1>6, <2>1, <2>4 DEF Goto
  <2> QED
    BY <1>11, <2>2, <2>3, <2>4 DEF Insert
<1> QED
  BY <1>5, <1>7, <1>8, <1>10, <1>11 DEF Handle

LEMMA NetInvariance == Spec => []NetInv
<1>1. Init => NetInv
  <2> SUFFICES ASSUME Init PROVE NetInv
    OBVIOUS
  <2>1. AmountsFit
    BY DEF Init, Idle, AmountsFit
  <2>2. PICK f : f = [h \in Handlers |-> 0]
    OBVIOUS
  <2>3. Sums(f)[Handlers] = 0
    <3>1. f \in [Handlers -> Nat] /\ \A h \in Handlers : f[h] = 0
      BY <2>2
    <3> QED
      BY <3>1, SumIsNat, HoldersAssumption
  <2>4. ASSUME NEW u \in Users, NEW b \in BOOLEAN
        PROVE  Held(u) = 0 /\ Owed(b, u) = 0 /\ Total(docs[u]) = 0 /\ traded[b][u] = 0
    <3>1. [h \in Handlers |-> Hand(op[h], u)] = f /\ [h \in Handlers |-> Owing(op[h], b, u)] = f
      BY <2>2 DEF Init, Hand, Owing
    <3>2. docs[u] = <<>> /\ traded[b][u] = 0
      BY DEF Init
    <3> QED
      BY <2>3, <3>1, <3>2, TotalOfNone DEF Held, Hands, Owed, Owings
  <2>5. SCALE * (0 - 0) = 0 /\ SCALE * 0 = 0 /\ MAX_RETRIES * 0 = 0
    BY HoldersAssumption
  <2>6. AddUp
    <3>1. PICK yes, no \in BOOLEAN : yes = TRUE /\ no = FALSE
      OBVIOUS
    <3>2. \A u \in Users : Held(u) = 0 /\ Total(docs[u]) = 0 /\ traded[yes][u] = 0 /\ traded[no][u] = 0
      BY <2>4
    <3>3. \A u \in Users : NetOf(u) = SCALE * (0 - 0)
      BY <3>1, <3>2 DEF NetOf
    <3> QED
      BY <2>5, <3>2, <3>3 DEF AddUp
  <2>7. Within
    BY <2>4, <2>5 DEF Within, Most, Gain
  <2> QED
    BY <2>1, <2>6, <2>7 DEF NetInv
<1>2. Inv /\ NetInv /\ [Next]_vars => NetInv'
  <2> SUFFICES ASSUME Inv, NetInv, [Next]_vars PROVE NetInv'
    OBVIOUS
  <2>1. ASSUME UNCHANGED <<docs, traded, marred, op>> PROVE NetInv'
    <3>1. \A u \in Users, b \in BOOLEAN : Held(u)' = Held(u) /\ Owed(b, u)' = Owed(b, u)
      BY <2>1 DEF Held, Hands, Owed, Owings
    <3>2. AmountsFit'
      BY <2>1 DEF NetInv, AmountsFit
    <3>3. AddUp'
      <4> PICK b \in BOOLEAN : TRUE
        OBVIOUS
      <4>1. \A u \in Users : Held(u)' = Held(u)
        BY <3>1
      <4> QED
        BY <2>1, <4>1 DEF NetInv, AddUp, NetOf
    <3>4. Within'
      BY <2>1, <3>1 DEF NetInv, Within, Most
    <3> QED
      BY <3>2, <3>3, <3>4 DEF NetInv
  <2>2. CASE SetUp
    <3>1. CASE ListCollections \/ CreateIndexes
      BY <2>1, <3>1 DEF ListCollections, CreateIndexes, history
    <3>2. CASE SetUpFails
      BY <3>2, DieKeepsNet DEF SetUpFails
    <3>3. ASSUME NEW c \in Collections, CreateCollection(c) PROVE NetInv'
      BY <2>1, <3>3 DEF CreateCollection, history
    <3> QED
      BY <2>2, <3>1, <3>2, <3>3 DEF SetUp
  <2>3. CASE Crash
    BY <2>3, DieKeepsNet DEF Crash
  <2>4. ASSUME NEW h \in Handlers, StartTrade(h) \/ Handle(h) PROVE NetInv'
    BY <2>4, StartKeepsNet, HandleKeepsNet
  <2>5. CASE UNCHANGED vars
    BY <2>1, <2>5 DEF vars, history
  <2> QED
    BY <2>2, <2>3, <2>4, <2>5 DEF Next
<1> QED
  BY <1>1, <1>2, Invariance, PTL DEF Spec

(***************************************************************************)
(* The documents of a user whose trades are all done with add up to what   *)
(* the user bought less what the user sold, for any number of handlers,    *)
(* attempts, crashes and failures, unless one of the trades is of those    *)
(* the model marks; and getCreatorHolding answers that sum unless a set-up *)
(* was interrupted.  Not inductive alone: while trades are in hand, it is  *)
(* the documents and the trades in hand that add up, each of the right     *)
(* amount.                                                                 *)
(***************************************************************************)
THEOREM HoldingIsExact == Spec => []HoldingIsNetOfTrades
<1>1. Inv /\ NetInv => HoldingIsNetOfTrades
  <2> SUFFICES ASSUME Inv, NetInv, NEW u \in Users, u \notin marred,
                      \A h \in Handlers : u \notin TradedFor(h)
               PROVE  /\ FoldSeq(+, 0, docs[u]) = NetOf(u)
                      /\ ~interrupted => CreatorHoldings(u) = {NetOf(u)}
    BY DEF HoldingIsNetOfTrades, NetOf
  <2>1. PICK s, n : s = docs[u] /\ n = NetOf(u)
    OBVIOUS
  <2>2. s \in Seq(Int) /\ Total(s) = n
    <3> PICK b \in BOOLEAN : TRUE
      OBVIOUS
    <3>1. Held(u) = 0
      BY StakeSums DEF Inv
    <3>2. s \in Seq(Int) /\ Total(s) + Held(u) = n
      BY <2>1 DEF Inv, TypeOK, NetInv, AddUp
    <3> QED
      BY <3>1, <3>2, TotalIsInt
  <2>3. ASSUME ~interrupted PROVE CreatorHoldings(u) = {n}
    <3>1. Len(s) <= 1 /\ Len(s) \in Nat
      BY <2>1, <2>2, <2>3 DEF Inv, OneDocumentPerHolder
    <3>2. CASE s = <<>>
      BY <2>1, <2>2, <3>2, TotalOfNone DEF CreatorHoldings
    <3>3. CASE s # <<>>
      <4>1. Len(s) = 1
        <5>1. PICK k : k = Len(s)
          OBVIOUS
        <5>2. k # 0
          BY <2>2, <3>3, <5>1, EmptySeq
        <5>3. k \in Nat /\ k <= 1
          BY <3>1, <5>1
        <5>4. k = 1
          BY <5>2, <5>3
        <5> QED
          BY <5>1, <5>4
      <4>2. s[1] = n
        BY <2>2, <4>1, TotalOfOne
      <4>3. DOMAIN s = {1}
        BY <2>2, <4>1
      <4>4. CreatorHoldings(u) = {s[i] : i \in DOMAIN s}
        BY <2>1, <3>3 DEF CreatorHoldings
      <4> QED
        BY <4>2, <4>3, <4>4
    <3> QED
      BY <3>2, <3>3
  <2> QED
    BY <2>1, <2>2, <2>3 DEF Total
<1> QED
  BY <1>1, Invariance, NetInvariance, PTL

(***************************************************************************)
(* At most MAX_RETRIES times what was traded each way, at any time and     *)
(* whatever fails and is repeated: the attempts that a handler has left    *)
(* are an upper bound of what it may still add.                            *)
(***************************************************************************)
THEOREM HoldingBounded == Spec => []HoldingWithinAttempts
<1>1. Inv /\ NetInv => HoldingWithinAttempts
  <2> SUFFICES ASSUME Inv, NetInv, NEW u \in Users
               PROVE  -Most(FALSE, u) <= Total(docs[u]) /\ Total(docs[u]) <= Most(TRUE, u)
    BY DEF HoldingWithinAttempts, Most, Total
  <2>1. ASSUME NEW b \in BOOLEAN PROVE Gain(b, Total(docs[u])) <= Most(b, u) /\ Most(b, u) \in Int
    <3>1. docs[u] \in Seq(Int) /\ traded[b][u] \in Nat
      BY DEF Inv, TypeOK
    <3>2. Gain(b, Total(docs[u])) \in Int
      BY <3>1, TotalIsInt DEF Gain
    <3>3. Owed(b, u) \in Nat
      BY StakeSums DEF Inv
    <3>4. SCALE * traded[b][u] \in Nat
      BY <3>1, HoldersAssumption
    <3>5. Most(b, u) \in Int
      BY <3>4, HoldersAssumption DEF Most
    <3>6. Gain(b, Total(docs[u])) + Owed(b, u) <= Most(b, u)
      BY DEF NetInv, Within
    <3> QED
      BY <3>2, <3>3, <3>5, <3>6
  <2>2. PICK yes, no \in BOOLEAN : yes = TRUE /\ no = FALSE
    OBVIOUS
  <2>3. /\ Gain(yes, Total(docs[u])) <= Most(yes, u)
        /\ Gain(no, Total(docs[u])) <= Most(no, u) /\ Most(no, u) \in Int
    BY <2>1
  <2>4. Total(docs[u]) \in Int
    BY TotalIsInt DEF Inv, TypeOK
  <2>5. Total(docs[u]) <= Most(TRUE, u)
    BY <2>2, <2>3 DEF Gain
  <2>6. -Total(docs[u]) <= Most(FALSE, u) /\ Most(FALSE, u) \in Int
    BY <2>2, <2>3 DEF Gain
  <2>7. \A m, n \in Int : -n <= m => -m <= n
    OBVIOUS
  <2> QED
    BY <2>4, <2>5, <2>6, <2>7
<1> QED
  BY <1>1, Invariance, NetInvariance, PTL
=============================================================================
