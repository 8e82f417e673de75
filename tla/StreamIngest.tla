---------------------------- MODULE StreamIngest ----------------------------
(***************************************************************************)
(* POST /monitoring/stream: the batches of QuickNode's requests, processed *)
(* concurrently, each transaction in turn, into create_events,             *)
(* trade_events and token_holders.                                         *)
(*                                                                         *)
(* `stored' and `counted' are the documents inserted and the $inc applied  *)
(* on behalf of one position of one batch.  The database outlives a crash; *)
(* the same transactions may be in several batches (QuickNode sends again  *)
(* what was not answered).  An RPC or database call may fail each time; a  *)
(* failed write may have been applied.                                     *)
(***************************************************************************)
EXTENDS Integers

CONSTANTS
    Batches,      \* the batches of every request
    Requests,
    RequestOf,    \* the request a batch came in
    N,            \* length of a batch, padded with irrelevant transactions
    Mints,
    Tx,           \* Tx[b][i]: the i-th transaction of batch b
    MAX_RETRIES,
    Lagging       \* batches whose retries may ask a node that lags behind

Positions == 1 .. N

\* "other" does not invoke the pump program; "malformed" does, and fails the
\* checks of isQuickNodeStreamData.
TxKinds == {"create", "trade", "other", "malformed"}

ASSUME StreamAssumption ==
    /\ N \in Nat /\ MAX_RETRIES \in Nat \ {0}
    /\ RequestOf \in [Batches -> Requests]
    /\ Tx \in [Batches -> [Positions -> [kind : TxKinds, mint : Mints]]]
    /\ Lagging \subseteq Batches

VARIABLES
    pc,        \* the await a batch is at
    pos,       \* the transaction it works on
    retries,   \* retries[b][i]: failed attempts at transaction i
    stored, counted,
    reply      \* what each request was answered

db == <<stored, counted>>
vars == <<pc, pos, retries, db, reply>>

Init ==
    /\ pc = [b \in Batches |-> "new"]
    /\ pos = [b \in Batches |-> 1]
    /\ retries = [b \in Batches |-> [i \in Positions |-> 0]]
    /\ stored = [b \in Batches |-> [i \in Positions |-> 0]]
    /\ counted = [b \in Batches |-> [i \in Positions |-> 0]]
    /\ reply = [r \in Requests |-> "none"]

-----------------------------------------------------------------------------
At(b, l) == pc[b] = l
Goto(b, l) == pc' = [pc EXCEPT ![b] = l]

Kind(b) == Tx[b][pos[b]].kind

\* The loop goes on with the next transaction.
Continue(b) ==
    /\ Goto(b, "next")
    /\ pos' = [pos EXCEPT ![b] = @ + 1]

\* isQuickNodeStreamData
IsQuickNodeStreamData(b) == \A i \in Positions : Tx[b][i].kind # "malformed"

Started(b) == IF IsQuickNodeStreamData(b) THEN "next" ELSE "failure"

\* Promise.all starts every batch of the body; a malformed one fails at once.
HandleQuicknodeStream(r) ==
    /\ reply[r] = "none"
    /\ reply' = [reply EXCEPT ![r] = "pending"]
    /\ pc' = [b \in Batches |-> IF RequestOf[b] = r THEN Started(b) ELSE pc[b]]
    /\ UNCHANGED <<pos, retries, db>>

\* The head of the loop; what it does before an await is local to the batch.
NextTransaction(b) ==
    /\ At(b, "next")
    /\ \/ /\ pos[b] > N
          /\ Goto(b, "success")
          /\ UNCHANGED pos
       \/ /\ pos[b] <= N /\ Kind(b) = "other"
          /\ Continue(b)
       \/ /\ pos[b] <= N /\ Kind(b) = "create"
          /\ Goto(b, "fetch")
          /\ UNCHANGED pos
       \/ /\ pos[b] <= N /\ Kind(b) = "trade"
          /\ Goto(b, "lookup")
          /\ UNCHANGED pos
    /\ UNCHANGED <<retries, db, reply>>

\* create_events has the mint, whichever batch or request stored it.
Tracked(m) ==
    \E b \in Batches, i \in Positions :
        Tx[b][i] = [kind |-> "create", mint |-> m] /\ stored[b][i] > 0

\* Mutant: the token is not looked up.
AnyToken(b) == TRUE

CreateEventFound(b) == Tracked(Tx[b][pos[b]].mint)

\* db.collection('create_events').findOne; a rejection fails the batch.
LookUp(b) ==
    /\ At(b, "lookup")
    /\ \/ /\ CreateEventFound(b)
          /\ Goto(b, "fetch")
          /\ UNCHANGED pos
       \/ /\ ~CreateEventFound(b)
          /\ Continue(b)
       \/ /\ Goto(b, "failure")
          /\ UNCHANGED pos
    /\ UNCHANGED <<retries, db, reply>>

-----------------------------------------------------------------------------
\* Mutant: one attempt too many.
RetriesLeftOrNone(n) == n <= MAX_RETRIES
RetriesLeft(n) == n < MAX_RETRIES

\* The catch block of processTransaction: try again, or give the batch up,
\* after the last attempt or because updateConnection throws.
Catch(b) ==
    LET n == retries[b][pos[b]] + 1 IN
    /\ retries' = [retries EXCEPT ![b][pos[b]] = n]
    /\ \/ RetriesLeft(n) /\ Goto(b, "fetch")
       \/ Goto(b, "failure")
    /\ UNCHANGED pos

\* Mutant: a trade goes to the holders first, and that ends it.
HoldersFirst(kind) == IF kind = "trade" THEN "count" ELSE "store"
FirstWrite(kind) == "store"

(***************************************************************************)
(* getTransaction, and everything up to the first write: the node does not *)
(* have the transaction, or it failed on chain, or its event cannot be     *)
(* decoded (all three are passed over in silence); or there is an event.   *)
(***************************************************************************)
Fetch(b) ==
    /\ At(b, "fetch")
    /\ \/ /\ b \in Lagging \/ stored[b][pos[b]] = 0
          /\ Continue(b)
          /\ UNCHANGED retries
       \/ /\ Goto(b, FirstWrite(Kind(b)))
          /\ UNCHANGED <<pos, retries>>
       \/ Catch(b)
    /\ UNCHANGED <<db, reply>>

\* storeCreateEvent or storeTradeEvent
Store(b) ==
    /\ At(b, "store")
    /\ \/ /\ stored' = [stored EXCEPT ![b][pos[b]] = @ + 1]
          /\ \/ Kind(b) = "create" /\ Continue(b)
             \/ Kind(b) = "trade" /\ Goto(b, "count") /\ UNCHANGED pos
          /\ UNCHANGED retries
       \/ /\ \/ UNCHANGED stored
             \/ stored' = [stored EXCEPT ![b][pos[b]] = @ + 1]
          /\ Catch(b)
    /\ UNCHANGED <<counted, reply>>

\* updateTokenHolder
Count(b) ==
    /\ At(b, "count")
    /\ \/ /\ counted' = [counted EXCEPT ![b][pos[b]] = @ + 1]
          /\ Continue(b)
          /\ UNCHANGED retries
       \/ /\ \/ UNCHANGED counted
             \/ counted' = [counted EXCEPT ![b][pos[b]] = @ + 1]
          /\ Catch(b)
    /\ UNCHANGED <<stored, reply>>

-----------------------------------------------------------------------------
BatchesOf(r) == {b \in Batches : RequestOf[b] = r}

\* Mutant: a batch that failed never settles.
SettledIfSuccess(b) == At(b, "success")
Settled(b) == pc[b] \in {"success", "failure"}

\* Mutant: one batch that succeeds is enough.
AnySucceeds(r) == \E b \in BatchesOf(r) : At(b, "success")
AllSucceed(r) == \A b \in BatchesOf(r) : At(b, "success")

\* Promise.all is done: success, or the errors of the batches that failed.
Reply(r) ==
    /\ reply[r] = "pending"
    /\ \A b \in BatchesOf(r) : Settled(b)
    /\ \/ AllSucceed(r) /\ reply' = [reply EXCEPT ![r] = "ok"]
       \/ ~AllSucceed(r) /\ reply' = [reply EXCEPT ![r] = "errors"]
    /\ UNCHANGED <<pc, pos, retries, db>>

\* The process dies and starts again: requests in progress are lost.
Crash ==
    /\ \E r \in Requests : reply[r] = "pending"
    /\ reply' = [r \in Requests |-> IF reply[r] = "pending" THEN "lost" ELSE reply[r]]
    /\ pc' = [b \in Batches |-> IF reply[RequestOf[b]] = "pending" THEN "lost" ELSE pc[b]]
    /\ UNCHANGED <<pos, retries, db>>

Process(b) == NextTransaction(b) \/ LookUp(b) \/ Fetch(b) \/ Store(b) \/ Count(b)

Next ==
    \/ \E r \in Requests : HandleQuicknodeStream(r) \/ Reply(r)
    \/ \E b \in Batches : Process(b)
    \/ Crash

Spec == Init /\ [][Next]_vars

\* Every RPC and database call is answered or rejected in the end.
FairSpec ==
    /\ Spec
    /\ \A b \in Batches : WF_vars(Process(b))
    /\ \A r \in Requests : WF_vars(Reply(r))

-----------------------------------------------------------------------------
PCs == {"new", "next", "lookup", "fetch", "store", "count", "success", "failure", "lost"}

Working == {"lookup", "fetch", "store", "count"}

TypeOK ==
    /\ pc \in [Batches -> PCs]
    /\ pos \in [Batches -> 1 .. N + 1]
    /\ \A b \in Batches : pc[b] \in Working => pos[b] \in Positions
    /\ retries \in [Batches -> [Positions -> 0 .. MAX_RETRIES]]
    /\ stored \in [Batches -> [Positions -> Nat]]
    /\ counted \in [Batches -> [Positions -> Nat]]
    /\ reply \in [Requests -> {"none", "pending", "ok", "errors", "lost"}]

(***************************************************************************)
(* token_holders never gets ahead of trade_events: whatever fails, retries *)
(* or crashes, every $inc is preceded by an insert of its trade.           *)
(***************************************************************************)
HoldersFollowTrades ==
    \A b \in Batches, i \in Positions : counted[b][i] <= stored[b][i]

(***************************************************************************)
(* One delivery of a transaction stores it at most once per attempt, the   *)
(* attempts whose answer was lost included, and never more than            *)
(* MAX_RETRIES times; without a failure, at most once.                     *)
(***************************************************************************)
StoredOncePerAttempt ==
    \A b \in Batches, i \in Positions :
        stored[b][i] <= retries[b][i] + 1 /\ stored[b][i] <= MAX_RETRIES

(***************************************************************************)
(* A trade is stored only for a token whose creation is stored, by any     *)
(* batch, and this is never undone.                                        *)
(***************************************************************************)
NoOrphanTrade ==
    \A b \in Batches, i \in Positions :
        Tx[b][i].kind = "trade" /\ stored[b][i] > 0 => Tracked(Tx[b][i].mint)

(***************************************************************************)
(* A request answered with success has moved the balance of the holder of  *)
(* every trade it stored, the retried ones too, provided the nodes that    *)
(* the retries switch to know the transaction as well.                     *)
(***************************************************************************)
SuccessCountsTrades ==
    \A b \in Batches \ Lagging, i \in Positions :
        reply[RequestOf[b]] = "ok" /\ Tx[b][i].kind = "trade" /\ stored[b][i] > 0
            => counted[b][i] > 0

(***************************************************************************)
(* Every request is answered, whatever its batches run into, unless the    *)
(* process dies: no retry loop goes on for ever and Promise.all never      *)
(* waits for a batch that gave up.                                         *)
(***************************************************************************)
EveryRequestIsAnswered ==
    \A r \in Requests : reply[r] = "pending" ~> reply[r] \in {"ok", "errors", "lost"}

-----------------------------------------------------------------------------
Deliveries == Batches \X Positions

Ledger ==
    INSTANCE EventLedger WITH
        Limit <- MAX_RETRIES,
        Event <- [d \in Deliveries |-> Tx[d[1]][d[2]]],
        stored <- [d \in Deliveries |-> stored[d[1]][d[2]]],
        counted <- [d \in Deliveries |-> counted[d[1]][d[2]]]

(***************************************************************************)
(* The ingestion implements the ledger: whatever its batches interleave,   *)
(* retry, lose or crash in, each step writes one document that the ledger  *)
(* admits at that moment, or none.                                         *)
(***************************************************************************)
ImplementsLedger == Ledger!Spec
=============================================================================
