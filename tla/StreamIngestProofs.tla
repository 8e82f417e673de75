------------------------- MODULE StreamIngestProofs -------------------------
(***************************************************************************)
(* What StreamIngest guarantees for any requests, batches, mints, length   *)
(* of a batch and number of retries, with crashes at any point.            *)
(***************************************************************************)
EXTENDS StreamIngest, TLAPS

\* A request that has not come has no batch in progress.
NotStarted == \A b \in Batches : reply[RequestOf[b]] = "none" => pc[b] = "new"

\* What is known of the transaction a batch works on, and of those after it.
Untouched(b, i) == retries[b][i] = 0 /\ stored[b][i] = 0 /\ counted[b][i] = 0

Ahead(b) ==
    /\ \A i \in Positions : i > pos[b] => Untouched(b, i)
    /\ pos[b] \in Positions /\ pc[b] \in {"new", "next", "lookup"} => Untouched(b, pos[b])

Attempt(b) ==
    /\ pc[b] \in {"fetch", "store"} =>
         /\ retries[b][pos[b]] < MAX_RETRIES
         /\ stored[b][pos[b]] <= retries[b][pos[b]]
    /\ pc[b] = "count" =>
         /\ retries[b][pos[b]] < MAX_RETRIES
         /\ counted[b][pos[b]] < stored[b][pos[b]]

Cleared(b) ==
    pc[b] \in {"fetch", "store", "count"} /\ Kind(b) = "trade" => Tracked(Tx[b][pos[b]].mint)

Inv ==
    /\ TypeOK
    /\ NotStarted
    /\ \A b \in Batches : Ahead(b) /\ Attempt(b) /\ Cleared(b)
    /\ HoldersFollowTrades
    /\ StoredOncePerAttempt
    /\ NoOrphanTrade

-----------------------------------------------------------------------------
(***************************************************************************)
(* A creation that is stored stays stored.                                 *)
(***************************************************************************)
LEMMA TrackedForGood ==
    ASSUME TypeOK, NEW m,
           \A b \in Batches, i \in Positions : stored'[b][i] >= stored[b][i],
           stored' \in [Batches -> [Positions -> Nat]], Tracked(m)
    PROVE  Tracked(m)'
<1>1. PICK b \in Batches, i \in Positions :
        Tx[b][i] = [kind |-> "create", mint |-> m] /\ stored[b][i] > 0
  BY DEF Tracked
<1>2. stored[b][i] \in Nat /\ stored'[b][i] \in Nat /\ stored'[b][i] >= stored[b][i]
  BY DEF TypeOK
<1>3. stored'[b][i] > 0
  BY <1>1, <1>2
<1> QED
  BY <1>1, <1>3 DEF Tracked

(***************************************************************************)
(* The catch block: one more failed attempt, and on to the next or to the  *)
(* end of the batch.                                                       *)
(***************************************************************************)
LEMMA CatchCounts ==
    ASSUME TypeOK, NEW b \in Batches, pos[b] \in Positions,
           retries[b][pos[b]] < MAX_RETRIES, Catch(b)
    PROVE  /\ pc' = [pc EXCEPT ![b] = "fetch"] \/ pc' = [pc EXCEPT ![b] = "failure"]
           /\ pos' = pos
           /\ retries' = [retries EXCEPT ![b][pos[b]] = retries[b][pos[b]] + 1]
           /\ retries' \in [Batches -> [Positions -> 0 .. MAX_RETRIES]]
           /\ pc'[b] = "fetch" => retries[b][pos[b]] + 1 < MAX_RETRIES
<1>1. retries' = [retries EXCEPT ![b][pos[b]] = retries[b][pos[b]] + 1] /\ pos' = pos
  BY DEF Catch
<1>2. retries[b][pos[b]] + 1 \in 0 .. MAX_RETRIES
  BY StreamAssumption DEF TypeOK
<1>3. retries' \in [Batches -> [Positions -> 0 .. MAX_RETRIES]]
  BY <1>1, <1>2 DEF TypeOK
<1>4. CASE RetriesLeft(retries[b][pos[b]] + 1) /\ Goto(b, "fetch")
  BY <1>1, <1>3, <1>4 DEF Goto, RetriesLeft
<1>5. CASE Goto(b, "failure")
  <2>1. pc'[b] # "fetch"
    BY <1>5 DEF Goto, TypeOK
  <2> QED
    BY <1>1, <1>3, <1>5, <2>1 DEF Goto
<1> QED
  BY <1>4, <1>5 DEF Catch

(***************************************************************************)
(* A step of one batch that writes nothing, seen from that batch: it is    *)
(* enough to show what holds of the batch afterwards.                      *)
(***************************************************************************)
LEMMA LocalStepKeepsInv ==
    ASSUME Inv, NEW b \in Batches, NEW l \in PCs, NEW p \in 1 .. N + 1,
           pc[b] # "new",
           pc' = [pc EXCEPT ![b] = l], pos' = [pos EXCEPT ![b] = p],
           UNCHANGED <<retries, db, reply>>,
           l \in Working => p \in Positions,
           Ahead(b)', Attempt(b)', Cleared(b)'
    PROVE  Inv'
<1>1. TypeOK'
  BY DEF Inv, TypeOK, db
<1>2. NotStarted'
  BY DEF Inv, NotStarted, TypeOK
<1>3. ASSUME NEW c \in Batches PROVE (Ahead(c) /\ Attempt(c) /\ Cleared(c))'
  <2>1. CASE c = b
    BY <2>1
  <2>2. CASE c # b
    <3>1. pc'[c] = pc[c] /\ pos'[c] = pos[c]
      BY <2>2 DEF Inv, TypeOK
    <3> QED
      BY <3>1 DEF Inv, Ahead, Attempt, Cleared, Untouched, Kind, Tracked, db
  <2> QED
    BY <2>1, <2>2
<1>4. HoldersFollowTrades' /\ StoredOncePerAttempt' /\ NoOrphanTrade'
  BY DEF Inv, HoldersFollowTrades, StoredOncePerAttempt, NoOrphanTrade, Tracked, db
<1> QED
  BY <1>1, <1>2, <1>3, <1>4 DEF Inv

(***************************************************************************)
(* Going on to the next transaction, which nobody has touched.             *)
(***************************************************************************)
LEMMA ContinueKeepsInv ==
    ASSUME Inv, NEW b \in Batches, pos[b] \in Positions, pc[b] # "new", Continue(b),
           UNCHANGED <<retries, db, reply>>
    PROVE  Inv'
<1>1. /\ pc' = [pc EXCEPT ![b] = "next"]
      /\ pos' = [pos EXCEPT ![b] = pos[b] + 1]
  BY DEF Continue, Goto
<1>2. pos[b] + 1 \in 1 .. N + 1 /\ pos[b] \in Nat
  BY StreamAssumption DEF Positions
<1>3. pc'[b] = "next" /\ pos'[b] = pos[b] + 1
  BY <1>1 DEF Inv, TypeOK
<1>4. Ahead(b)'
  <2>1. \A i \in Positions : i > pos[b] => Untouched(b, i)'
    BY DEF Inv, Ahead, Untouched, db
  <2> QED
    BY <1>2, <1>3, <2>1 DEF Ahead, Positions
<1>5. Attempt(b)' /\ Cleared(b)'
  BY <1>3 DEF Attempt, Cleared
<1> QED
  BY <1>1, <1>2, <1>4, <1>5, LocalStepKeepsInv DEF PCs, Working

(***************************************************************************)
(* Moving to another await with the same transaction.                      *)
(***************************************************************************)
LEMMA MoveKeepsInv ==
    ASSUME Inv, NEW b \in Batches, NEW l \in PCs, pc[b] # "new", Goto(b, l),
           UNCHANGED <<pos, retries, db, reply>>,
           l \in Working => pos[b] \in Positions,
           Ahead(b)', Attempt(b)', Cleared(b)'
    PROVE  Inv'
<1>1. pos' = [pos EXCEPT ![b] = pos[b]] /\ pos[b] \in 1 .. N + 1
  BY DEF Inv, TypeOK
<1> QED
  BY <1>1, LocalStepKeepsInv DEF Goto

LEMMA FailureKeepsInv ==
    ASSUME Inv, NEW b \in Batches, pc[b] # "new", NEW l \in {"success", "failure"},
           Goto(b, l), UNCHANGED <<pos, retries, db, reply>>
    PROVE  Inv'
<1>1. pc'[b] = l
  BY DEF Goto, Inv, TypeOK
<1>2. Ahead(b)'
  BY <1>1 DEF Inv, Ahead, Untouched, db
<1>3. Attempt(b)' /\ Cleared(b)'
  BY <1>1 DEF Attempt, Cleared
<1> QED
  BY <1>2, <1>3, MoveKeepsInv DEF PCs, Working

-----------------------------------------------------------------------------
(***************************************************************************)
(* A step of one batch that may write for the transaction it works on.     *)
(***************************************************************************)
LEMMA WriteKeepsInv ==
    ASSUME Inv, NEW b \in Batches, pos[b] \in Positions,
           pc[b] \in {"fetch", "store", "count"},
           NEW n \in 0 .. MAX_RETRIES, NEW s \in Nat, NEW c \in Nat,
           NEW l \in PCs, NEW p \in 1 .. N + 1,
           retries' = [retries EXCEPT ![b][pos[b]] = n],
           stored' = [stored EXCEPT ![b][pos[b]] = s],
           counted' = [counted EXCEPT ![b][pos[b]] = c],
           pc' = [pc EXCEPT ![b] = l], pos' = [pos EXCEPT ![b] = p], reply' = reply,
           l \in Working => p \in Positions,
           s >= stored[b][pos[b]], c <= s, s <= n + 1, s <= MAX_RETRIES,
           Ahead(b)', Attempt(b)',
           l \in Working => l # "lookup" /\ p = pos[b]
    PROVE  Inv'
<1>1. TypeOK'
  BY DEF Inv, TypeOK
<1>2. /\ retries'[b][pos[b]] = n /\ stored'[b][pos[b]] = s /\ counted'[b][pos[b]] = c
      /\ pc'[b] = l /\ pos'[b] = p
  BY DEF Inv, TypeOK
<1>3. ASSUME NEW d \in Batches, NEW i \in Positions, d # b \/ i # pos[b]
      PROVE  /\ retries'[d][i] = retries[d][i]
             /\ stored'[d][i] = stored[d][i]
             /\ counted'[d][i] = counted[d][i]
  BY <1>3 DEF Inv, TypeOK
<1>4. \A d \in Batches, i \in Positions : stored'[d][i] >= stored[d][i]
  <2> SUFFICES ASSUME NEW d \in Batches, NEW i \in Positions
               PROVE  stored'[d][i] >= stored[d][i]
    OBVIOUS
  <2>1. stored[d][i] \in Nat
    BY DEF Inv, TypeOK
  <2>2. CASE d = b /\ i = pos[b]
    BY <1>2, <2>2
  <2>3. CASE d # b \/ i # pos[b]
    BY <1>3, <2>1, <2>3
  <2> QED
    BY <2>2, <2>3
<1>5. \A m : Tracked(m) => Tracked(m)'
  BY <1>1, <1>4, TrackedForGood DEF Inv, TypeOK
<1>6. NotStarted'
  BY DEF Inv, NotStarted, TypeOK
<1>7. Cleared(b)'
  <2> SUFFICES ASSUME l \in Working, p = pos[b], Tx[b][pos[b]].kind = "trade"
               PROVE  Tracked(Tx[b][pos[b]].mint)'
    BY <1>2 DEF Cleared, Working, Kind
  <2>1. Tracked(Tx[b][pos[b]].mint)
    BY DEF Inv, Cleared, Kind
  <2> QED
    BY <1>5, <2>1
<1>8. ASSUME NEW d \in Batches PROVE (Ahead(d) /\ Attempt(d) /\ Cleared(d))'
  <2>1. CASE d = b
    BY <1>7, <2>1
  <2>2. CASE d # b
    <3>1. /\ pc'[d] = pc[d] /\ pos'[d] = pos[d]
          /\ \A i \in Positions : /\ retries'[d][i] = retries[d][i]
                                  /\ stored'[d][i] = stored[d][i]
                                  /\ counted'[d][i] = counted[d][i]
      BY <1>3, <2>2 DEF Inv, TypeOK
    <3>2. Ahead(d)'
      BY <3>1 DEF Inv, Ahead, Untouched
    <3>3. Attempt(d)'
      BY <3>1 DEF Inv, TypeOK, Attempt, Working
    <3>4. Cleared(d)'
      BY <1>5, <3>1 DEF Inv, Cleared, Kind
    <3> QED
      BY <3>2, <3>3, <3>4
  <2> QED
    BY <2>1, <2>2
<1>9. HoldersFollowTrades' /\ StoredOncePerAttempt'
  <2> SUFFICES ASSUME NEW d \in Batches, NEW i \in Positions
               PROVE  /\ counted'[d][i] <= stored'[d][i]
                      /\ stored'[d][i] <= retries'[d][i] + 1
                      /\ stored'[d][i] <= MAX_RETRIES
    BY DEF HoldersFollowTrades, StoredOncePerAttempt
  <2>1. CASE d = b /\ i = pos[b]
    BY <1>2, <2>1
  <2>2. CASE d # b \/ i # pos[b]
    BY <1>3, <2>2 DEF Inv, HoldersFollowTrades, StoredOncePerAttempt
  <2> QED
    BY <2>1, <2>2
<1>10. NoOrphanTrade'
  <2> SUFFICES ASSUME NEW d \in Batches, NEW i \in Positions,
                      Tx[d][i].kind = "trade", stored'[d][i] > 0
               PROVE  Tracked(Tx[d][i].mint)'
    BY DEF NoOrphanTrade
  <2>1. CASE d = b /\ i = pos[b]
    BY <1>5, <2>1 DEF Inv, Cleared, Kind
  <2>2. CASE d # b \/ i # pos[b]
    BY <1>3, <1>5, <2>2 DEF Inv, NoOrphanTrade
  <2> QED
    BY <2>1, <2>2
<1> QED
  BY <1>1, <1>6, <1>8, <1>9, <1>10 DEF Inv

(***************************************************************************)
(* An attempt that fails after having written or not.                      *)
(***************************************************************************)
LEMMA CatchKeepsInv ==
    ASSUME Inv, NEW b \in Batches, pos[b] \in Positions,
           pc[b] \in {"fetch", "store", "count"}, Catch(b), reply' = reply,
           NEW s \in Nat, NEW c \in Nat,
           stored' = [stored EXCEPT ![b][pos[b]] = s],
           counted' = [counted EXCEPT ![b][pos[b]] = c],
           s >= stored[b][pos[b]], c <= s, s <= retries[b][pos[b]] + 1, s <= MAX_RETRIES
    PROVE  Inv'
<1> DEFINE n == retries[b][pos[b]] + 1
<1>1. retries[b][pos[b]] < MAX_RETRIES /\ retries[b][pos[b]] \in Nat
  BY StreamAssumption DEF Inv, Attempt, TypeOK
<1>2. /\ pc' = [pc EXCEPT ![b] = "fetch"] \/ pc' = [pc EXCEPT ![b] = "failure"]
      /\ pos' = pos
      /\ retries' = [retries EXCEPT ![b][pos[b]] = n]
      /\ pc'[b] = "fetch" => n < MAX_RETRIES
  BY <1>1, CatchCounts DEF Inv
<1>3. PICK l \in {"fetch", "failure"} : pc' = [pc EXCEPT ![b] = l]
  BY <1>2
<1>4. n \in 0 .. MAX_RETRIES /\ s <= n + 1 /\ s <= n
  BY <1>1, StreamAssumption
<1>5. pos' = [pos EXCEPT ![b] = pos[b]] /\ pos[b] \in 1 .. N + 1
  BY <1>2 DEF Inv, TypeOK
<1>6. /\ pc'[b] = l /\ pos'[b] = pos[b]
      /\ retries'[b][pos[b]] = n /\ stored'[b][pos[b]] = s
  BY <1>2, <1>3, <1>5 DEF Inv, TypeOK
<1>7. Ahead(b)'
  <2>1. \A i \in Positions : i > pos[b] => Untouched(b, i)'
    <3> SUFFICES ASSUME NEW i \in Positions, i > pos[b] PROVE Untouched(b, i)'
      OBVIOUS
    <3>1. i # pos[b]
      BY DEF Positions
    <3>2. Untouched(b, i)
      BY DEF Inv, Ahead
    <3>3. /\ retries'[b][i] = retries[b][i]
          /\ stored'[b][i] = stored[b][i] /\ counted'[b][i] = counted[b][i]
      BY <1>2, <3>1 DEF Inv, TypeOK
    <3> QED
      BY <3>2, <3>3 DEF Untouched
  <2> QED
    BY <1>6, <2>1 DEF Ahead
<1>8. Attempt(b)'
  BY <1>2, <1>4, <1>6 DEF Attempt
<1>9. l \in PCs /\ l # "lookup"
  BY DEF PCs
<1> HIDE DEF n
<1> QED
  BY <1>2, <1>3, <1>4, <1>5, <1>7, <1>8, <1>9, WriteKeepsInv

(***************************************************************************)
(* The last write of a transaction, and on to the next one.                *)
(***************************************************************************)
LEMMA LastWriteKeepsInv ==
    ASSUME Inv, NEW b \in Batches, pos[b] \in Positions,
           pc[b] \in {"store", "count"}, Continue(b), reply' = reply, retries' = retries,
           NEW s \in Nat, NEW c \in Nat,
           stored' = [stored EXCEPT ![b][pos[b]] = s],
           counted' = [counted EXCEPT ![b][pos[b]] = c],
           s >= stored[b][pos[b]], c <= s, s <= retries[b][pos[b]] + 1, s <= MAX_RETRIES
    PROVE  Inv'
<1>1. /\ pc' = [pc EXCEPT ![b] = "next"]
      /\ pos' = [pos EXCEPT ![b] = pos[b] + 1]
  BY DEF Continue, Goto
<1>2. pos[b] + 1 \in 1 .. N + 1 /\ pos[b] \in Nat
  BY StreamAssumption DEF Positions
<1>3. pc'[b] = "next" /\ pos'[b] = pos[b] + 1
  BY <1>1 DEF Inv, TypeOK
<1>4. retries' = [retries EXCEPT ![b][pos[b]] = retries[b][pos[b]]]
      /\ retries[b][pos[b]] \in 0 .. MAX_RETRIES
  BY DEF Inv, TypeOK
<1>5. Ahead(b)'
  <2>1. \A i \in Positions : i > pos[b] => Untouched(b, i)'
    <3> SUFFICES ASSUME NEW i \in Positions, i > pos[b] PROVE Untouched(b, i)'
      OBVIOUS
    <3>1. i # pos[b]
      BY DEF Positions
    <3>2. Untouched(b, i)
      BY DEF Inv, Ahead
    <3>3. /\ retries'[b][i] = retries[b][i]
          /\ stored'[b][i] = stored[b][i] /\ counted'[b][i] = counted[b][i]
      BY <3>1 DEF Inv, TypeOK
    <3> QED
      BY <3>2, <3>3 DEF Untouched
  <2> QED
    BY <1>2, <1>3, <2>1 DEF Ahead, Positions
<1>6. Attempt(b)'
  BY <1>3 DEF Attempt
<1> QED
  BY <1>1, <1>2, <1>4, <1>5, <1>6, WriteKeepsInv DEF PCs, Working

-----------------------------------------------------------------------------
(***************************************************************************)
(* One lemma per action.                                                   *)
(***************************************************************************)
LEMMA HandleKeepsInv ==
    ASSUME Inv, NEW r \in Requests, HandleQuicknodeStream(r)
    PROVE  Inv'
<1>1. /\ reply[r] = "none" /\ reply' = [reply EXCEPT ![r] = "pending"]
      /\ UNCHANGED <<pos, retries, stored, counted>>
  BY DEF HandleQuicknodeStream, db
<1>2. ASSUME NEW b \in Batches
      PROVE  /\ RequestOf[b] # r => pc'[b] = pc[b]
             /\ RequestOf[b] = r => pc[b] = "new" /\ pc'[b] \in {"next", "failure"}
  <2>1. pc'[b] = IF RequestOf[b] = r THEN Started(b) ELSE pc[b]
    BY DEF HandleQuicknodeStream
  <2>2. RequestOf[b] = r => pc[b] = "new"
    BY <1>1 DEF Inv, NotStarted
  <2>3. Started(b) \in {"next", "failure"}
    BY DEF Started
  <2> QED
    BY <2>1, <2>2, <2>3
<1>3. pc' \in [Batches -> PCs]
  BY DEF HandleQuicknodeStream, Started, Inv, TypeOK, PCs
<1>4. TypeOK'
  <2>1. \A b \in Batches : pc'[b] \in Working => pos'[b] \in Positions
    BY <1>1, <1>2 DEF Inv, TypeOK, Working
  <2> QED
    BY <1>1, <1>3, <2>1 DEF Inv, TypeOK
<1>5. NotStarted'
  BY <1>1, <1>2 DEF Inv, NotStarted, TypeOK
<1>6. ASSUME NEW b \in Batches PROVE (Ahead(b) /\ Attempt(b) /\ Cleared(b))'
  <2>1. Ahead(b)'
    BY <1>1, <1>2 DEF Inv, Ahead, Untouched
  <2>2. Attempt(b)'
    BY <1>1, <1>2 DEF Inv, Attempt
  <2>3. Cleared(b)'
    BY <1>1, <1>2 DEF Inv, Cleared, Kind, Tracked
  <2> QED
    BY <2>1, <2>2, <2>3
<1>7. HoldersFollowTrades' /\ StoredOncePerAttempt' /\ NoOrphanTrade'
  BY <1>1 DEF Inv, HoldersFollowTrades, StoredOncePerAttempt, NoOrphanTrade, Tracked
<1> QED
  BY <1>4, <1>5, <1>6, <1>7 DEF Inv

LEMMA NextTransactionKeepsInv ==
    ASSUME Inv, NEW b \in Batches, NextTransaction(b)
    PROVE  Inv'
<1>1. /\ pc[b] = "next" /\ UNCHANGED <<retries, db, reply>>
      /\ pos[b] \in 1 .. N + 1
  BY DEF NextTransaction, At, Inv, TypeOK
<1>2. CASE Goto(b, "success") /\ UNCHANGED pos
  BY <1>1, <1>2, FailureKeepsInv
<1>3. CASE pos[b] <= N /\ Continue(b)
  <2>1. pos[b] \in Positions
    BY <1>1, <1>3, StreamAssumption DEF Positions
  <2> QED
    BY <1>1, <1>3, <2>1, ContinueKeepsInv
<1>4. ASSUME NEW l \in {"fetch", "lookup"}, pos[b] <= N, Goto(b, l), UNCHANGED pos,
             l = "fetch" => Kind(b) = "create"
      PROVE  Inv'
  <2>1. pos[b] \in Positions
    BY <1>1, <1>4, StreamAssumption DEF Positions
  <2>2. pc'[b] = l
    BY <1>4 DEF Goto, Inv, TypeOK
  <2>3. Untouched(b, pos[b]) /\ Untouched(b, pos[b])'
    BY <1>1, <1>4, <2>1 DEF Inv, Ahead, Untouched, db
  <2>4. Ahead(b)'
    BY <1>1, <1>4, <2>3 DEF Inv, Ahead, Untouched, db
  <2>5. Attempt(b)'
    BY <1>4, <2>2, <2>3, StreamAssumption DEF Attempt, Untouched
  <2>6. Cleared(b)'
    BY <1>4, <2>2 DEF Cleared, Kind
  <2> QED
    BY <1>1, <1>4, <2>1, <2>4, <2>5, <2>6, MoveKeepsInv DEF PCs
<1> QED
  BY <1>2, <1>3, <1>4 DEF NextTransaction

LEMMA LookUpKeepsInv ==
    ASSUME Inv, NEW b \in Batches, LookUp(b)
    PROVE  Inv'
<1>1. /\ pc[b] = "lookup" /\ UNCHANGED <<retries, db, reply>>
      /\ pos[b] \in Positions
  BY DEF LookUp, At, Inv, TypeOK, Working
<1>2. CASE Goto(b, "failure") /\ UNCHANGED pos
  BY <1>1, <1>2, FailureKeepsInv
<1>3. CASE Continue(b)
  BY <1>1, <1>3, ContinueKeepsInv
<1>4. CASE Tracked(Tx[b][pos[b]].mint) /\ Goto(b, "fetch") /\ UNCHANGED pos
  <2>1. pc'[b] = "fetch"
    BY <1>4 DEF Goto, Inv, TypeOK
  <2>2. Untouched(b, pos[b]) /\ Untouched(b, pos[b])'
    BY <1>1, <1>4 DEF Inv, Ahead, Untouched, db
  <2>3. Ahead(b)'
    BY <1>1, <1>4, <2>2 DEF Inv, Ahead, Untouched, db
  <2>4. Attempt(b)'
    BY <1>4, <2>1, <2>2, StreamAssumption DEF Attempt, Untouched
  <2>5. Cleared(b)'
    BY <1>1, <1>4 DEF Cleared, Tracked, db
  <2> QED
    BY <1>1, <1>4, <2>3, <2>4, <2>5, MoveKeepsInv DEF PCs
<1> QED
  BY <1>2, <1>3, <1>4 DEF LookUp, CreateEventFound

\* What holds of the transaction a batch is working on.
LEMMA AtWork ==
    ASSUME Inv, NEW b \in Batches, pc[b] \in {"fetch", "store", "count"}
    PROVE  /\ pos[b] \in Positions
           /\ stored[b][pos[b]] \in Nat /\ counted[b][pos[b]] \in Nat
           /\ retries[b][pos[b]] \in Nat /\ MAX_RETRIES \in Nat
           /\ counted[b][pos[b]] <= stored[b][pos[b]]
           /\ stored[b][pos[b]] <= retries[b][pos[b]] + 1
           /\ stored[b][pos[b]] <= MAX_RETRIES
           /\ stored = [stored EXCEPT ![b][pos[b]] = stored[b][pos[b]]]
           /\ counted = [counted EXCEPT ![b][pos[b]] = counted[b][pos[b]]]
<1>1. pos[b] \in Positions
  BY DEF Inv, TypeOK, Working
<1> QED
  BY <1>1, StreamAssumption DEF Inv, TypeOK, HoldersFollowTrades, StoredOncePerAttempt

LEMMA FetchKeepsInv ==
    ASSUME Inv, NEW b \in Batches, Fetch(b)
    PROVE  Inv'
<1>1. pc[b] = "fetch" /\ UNCHANGED <<db, reply>>
  BY DEF Fetch, At
<1>2. pos[b] \in Positions
  BY <1>1, AtWork
<1>3. CASE Continue(b) /\ UNCHANGED retries
  BY <1>1, <1>2, <1>3, ContinueKeepsInv
<1>4. CASE Goto(b, FirstWrite(Kind(b))) /\ UNCHANGED <<pos, retries>>
  <2>1. Goto(b, "store") /\ pc'[b] = "store"
    BY <1>4 DEF Goto, FirstWrite, Inv, TypeOK
  <2>2. Ahead(b)'
    BY <1>1, <1>4, <2>1 DEF Inv, Ahead, Untouched, db
  <2>3. Attempt(b)'
    BY <1>1, <1>4, <2>1 DEF Inv, Attempt, db
  <2>4. Cleared(b)'
    BY <1>1, <1>4 DEF Inv, Cleared, Kind, Tracked, db
  <2> QED
    BY <1>1, <1>2, <1>4, <2>1, <2>2, <2>3, <2>4, MoveKeepsInv DEF PCs
<1>5. CASE Catch(b)
  <2> DEFINE s == stored[b][pos[b]]
  <2> DEFINE c == counted[b][pos[b]]
  <2>1. /\ s \in Nat /\ c \in Nat /\ s >= stored[b][pos[b]]
        /\ c <= s /\ s <= retries[b][pos[b]] + 1 /\ s <= MAX_RETRIES
        /\ stored = [stored EXCEPT ![b][pos[b]] = s]
        /\ counted = [counted EXCEPT ![b][pos[b]] = c]
    BY <1>1, AtWork
  <2>2. /\ stored' = [stored EXCEPT ![b][pos[b]] = s]
        /\ counted' = [counted EXCEPT ![b][pos[b]] = c]
    BY <1>1, <2>1 DEF db
  <2>3. pc[b] \in {"fetch", "store", "count"} /\ reply' = reply
    BY <1>1
  <2> HIDE DEF s, c
  <2> QED
    BY <1>2, <1>5, <2>1, <2>2, <2>3, CatchKeepsInv
<1> QED
  BY <1>3, <1>4, <1>5 DEF Fetch

LEMMA StoreKeepsInv ==
    ASSUME Inv, NEW b \in Batches, Store(b)
    PROVE  Inv'
<1> DEFINE s == stored[b][pos[b]]
<1> DEFINE c == counted[b][pos[b]]
<1>1. pc[b] = "store" /\ reply' = reply /\ counted' = counted
  BY DEF Store, At
<1>2. /\ pos[b] \in Positions
      /\ s \in Nat /\ c \in Nat /\ retries[b][pos[b]] \in Nat /\ MAX_RETRIES \in Nat
      /\ c <= s /\ s <= retries[b][pos[b]] + 1 /\ s <= MAX_RETRIES
      /\ stored = [stored EXCEPT ![b][pos[b]] = s]
      /\ counted' = [counted EXCEPT ![b][pos[b]] = c]
  BY <1>1, AtWork
<1>3. retries[b][pos[b]] < MAX_RETRIES /\ s <= retries[b][pos[b]]
  BY <1>1 DEF Inv, Attempt
<1>4. /\ s + 1 \in Nat /\ s + 1 >= s /\ c <= s + 1
      /\ s + 1 <= retries[b][pos[b]] + 1 /\ s + 1 <= MAX_RETRIES /\ c < s + 1
  BY <1>2, <1>3
<1> HIDE DEF s, c
<1>5. CASE /\ stored' = [stored EXCEPT ![b][pos[b]] = s + 1]
           /\ Continue(b) /\ UNCHANGED retries
  BY <1>1, <1>2, <1>4, <1>5, LastWriteKeepsInv DEF s, c
<1>6. CASE /\ stored' = [stored EXCEPT ![b][pos[b]] = s + 1]
           /\ Goto(b, "count") /\ UNCHANGED <<pos, retries>>
  <2>1. /\ pc' = [pc EXCEPT ![b] = "count"]
        /\ pos' = [pos EXCEPT ![b] = pos[b]] /\ pos[b] \in 1 .. N + 1
        /\ retries' = [retries EXCEPT ![b][pos[b]] = retries[b][pos[b]]]
        /\ retries[b][pos[b]] \in 0 .. MAX_RETRIES
    <3>1. retries[b][pos[b]] \in 0 .. MAX_RETRIES /\ pos[b] \in 1 .. N + 1
      BY <1>2 DEF Inv, TypeOK
    <3>2. retries = [retries EXCEPT ![b][pos[b]] = retries[b][pos[b]]]
      BY <1>2 DEF Inv, TypeOK
    <3>3. pos = [pos EXCEPT ![b] = pos[b]]
      BY DEF Inv, TypeOK
    <3> QED
      BY <1>6, <3>1, <3>2, <3>3 DEF Goto
  <2>2. /\ pc'[b] = "count" /\ pos'[b] = pos[b]
        /\ stored'[b][pos[b]] = s + 1 /\ counted'[b][pos[b]] = c
        /\ retries'[b][pos[b]] = retries[b][pos[b]]
    <3>1. pc'[b] = "count" /\ pos'[b] = pos[b]
      BY <1>6, <2>1 DEF Inv, TypeOK
    <3>2. stored'[b][pos[b]] = s + 1
      BY <1>2, <1>6 DEF Inv, TypeOK
    <3> QED
      BY <1>1, <1>6, <3>1, <3>2 DEF c
  <2>3. Ahead(b)'
    <3>1. \A i \in Positions : i > pos[b] => Untouched(b, i)'
      <4> SUFFICES ASSUME NEW i \in Positions, i > pos[b] PROVE Untouched(b, i)'
        OBVIOUS
      <4>1. i # pos[b]
        BY <1>2 DEF Positions
      <4>2. Untouched(b, i)
        BY DEF Inv, Ahead
      <4>3. stored'[b][i] = stored[b][i]
        BY <1>6, <4>1 DEF Inv, TypeOK
      <4> QED
        BY <1>1, <1>6, <4>2, <4>3 DEF Untouched
    <3> QED
      BY <2>2, <3>1 DEF Ahead
  <2>4. Attempt(b)'
    BY <1>3, <1>4, <2>2 DEF Attempt
  <2> QED
    BY <1>1, <1>2, <1>4, <1>6, <2>1, <2>3, <2>4, WriteKeepsInv DEF PCs, s
<1>7. CASE UNCHANGED stored /\ Catch(b)
  <2>1. stored' = [stored EXCEPT ![b][pos[b]] = s] /\ s >= stored[b][pos[b]]
    BY <1>2, <1>7 DEF s
  <2>2. pc[b] \in {"fetch", "store", "count"}
    BY <1>1
  <2> QED
    BY <1>1, <1>2, <1>7, <2>1, <2>2, CatchKeepsInv
<1>8. CASE stored' = [stored EXCEPT ![b][pos[b]] = s + 1] /\ Catch(b)
  BY <1>1, <1>2, <1>4, <1>8, CatchKeepsInv DEF s
<1> QED
  BY <1>5, <1>6, <1>7, <1>8 DEF Store, s

LEMMA CountKeepsInv ==
    ASSUME Inv, NEW b \in Batches, Count(b)
    PROVE  Inv'
<1> DEFINE s == stored[b][pos[b]]
<1> DEFINE c == counted[b][pos[b]]
<1>1. pc[b] = "count" /\ reply' = reply /\ stored' = stored
  BY DEF Count, At
<1>2. /\ pos[b] \in Positions
      /\ s \in Nat /\ c \in Nat /\ MAX_RETRIES \in Nat
      /\ s <= retries[b][pos[b]] + 1 /\ s <= MAX_RETRIES
      /\ stored' = [stored EXCEPT ![b][pos[b]] = s]
      /\ counted = [counted EXCEPT ![b][pos[b]] = c]
  BY <1>1, AtWork
<1>3. c < s
  BY <1>1 DEF Inv, Attempt
<1>4. c + 1 \in Nat /\ c + 1 <= s /\ c <= s /\ s >= s
  BY <1>2, <1>3
<1> HIDE DEF s, c
<1>5. CASE /\ counted' = [counted EXCEPT ![b][pos[b]] = c + 1]
           /\ Continue(b) /\ UNCHANGED retries
  BY <1>1, <1>2, <1>4, <1>5, LastWriteKeepsInv DEF s
<1>6. CASE UNCHANGED counted /\ Catch(b)
  BY <1>1, <1>2, <1>4, <1>6, CatchKeepsInv DEF s
<1>7. CASE counted' = [counted EXCEPT ![b][pos[b]] = c + 1] /\ Catch(b)
  BY <1>1, <1>2, <1>4, <1>7, CatchKeepsInv DEF s
<1> QED
  BY <1>5, <1>6, <1>7 DEF Count, c

LEMMA ReplyKeepsInv ==
    ASSUME Inv, NEW r \in Requests, Reply(r)
    PROVE  Inv'
<1>1. /\ reply[r] = "pending" /\ UNCHANGED <<pc, pos, retries, stored, counted>>
      /\ reply' = [reply EXCEPT ![r] = "ok"] \/ reply' = [reply EXCEPT ![r] = "errors"]
  BY DEF Reply, db
<1>2. TypeOK' /\ NotStarted'
  BY <1>1, StreamAssumption DEF Inv, TypeOK, NotStarted
<1>3. \A b \in Batches : (Ahead(b) /\ Attempt(b) /\ Cleared(b))'
  BY <1>1 DEF Inv, Ahead, Attempt, Cleared, Untouched, Kind, Tracked
<1>4. HoldersFollowTrades' /\ StoredOncePerAttempt' /\ NoOrphanTrade'
  BY <1>1 DEF Inv, HoldersFollowTrades, StoredOncePerAttempt, NoOrphanTrade, Tracked
<1> QED
  BY <1>2, <1>3, <1>4 DEF Inv

LEMMA CrashKeepsInv ==
    ASSUME Inv, Crash
    PROVE  Inv'
<1>1. UNCHANGED <<pos, retries, stored, counted>>
  BY DEF Crash, db
<1>2. /\ pc' \in [Batches -> PCs]
      /\ \A b \in Batches : pc'[b] = pc[b] \/ pc'[b] = "lost"
  BY DEF Crash, Inv, TypeOK, PCs
<1>3. reply' \in [Requests -> {"none", "pending", "ok", "errors", "lost"}]
  BY DEF Crash, Inv, TypeOK
<1>4. TypeOK'
  BY <1>1, <1>2, <1>3 DEF Inv, TypeOK, Working
<1>5. NotStarted'
  BY StreamAssumption DEF Crash, Inv, NotStarted, TypeOK
<1>6. ASSUME NEW b \in Batches PROVE (Ahead(b) /\ Attempt(b) /\ Cleared(b))'
  <2>1. CASE pc'[b] = pc[b]
    BY <1>1, <2>1 DEF Inv, Ahead, Attempt, Cleared, Untouched, Kind, Tracked
  <2>2. CASE pc'[b] = "lost"
    BY <1>1, <2>2 DEF Inv, Ahead, Attempt, Cleared, Untouched
  <2> QED
    BY <1>2, <2>1, <2>2
<1>7. HoldersFollowTrades' /\ StoredOncePerAttempt' /\ NoOrphanTrade'
  BY <1>1 DEF Inv, HoldersFollowTrades, StoredOncePerAttempt, NoOrphanTrade, Tracked
<1> QED
  BY <1>4, <1>5, <1>6, <1>7 DEF Inv

(***************************************************************************)
(* The invariant holds in every state.                                     *)
(***************************************************************************)
THEOREM Invariance == Spec => []Inv
<1>1. Init => Inv
  <2> SUFFICES ASSUME Init PROVE Inv
    OBVIOUS
  <2>1. TypeOK
    BY StreamAssumption DEF Init, TypeOK, PCs, Working
  <2>2. NotStarted /\ NoOrphanTrade
    BY DEF Init, NotStarted, NoOrphanTrade
  <2>3. \A b \in Batches : Ahead(b) /\ Attempt(b) /\ Cleared(b)
    BY DEF Init, Ahead, Untouched, Attempt, Cleared
  <2>4. HoldersFollowTrades /\ StoredOncePerAttempt
    BY StreamAssumption DEF Init, HoldersFollowTrades, StoredOncePerAttempt
  <2> QED
    BY <2>1, <2>2, <2>3, <2>4 DEF Inv
<1>2. Inv /\ [Next]_vars => Inv'
  <2> SUFFICES ASSUME Inv, [Next]_vars PROVE Inv'
    OBVIOUS
  <2>1. ASSUME NEW r \in Requests, HandleQuicknodeStream(r) \/ Reply(r) PROVE Inv'
    BY <2>1, HandleKeepsInv, ReplyKeepsInv
  <2>2. ASSUME NEW b \in Batches, Process(b) PROVE Inv'
    BY <2>2, NextTransactionKeepsInv, LookUpKeepsInv, FetchKeepsInv, StoreKeepsInv,
       CountKeepsInv DEF Process
  <2>3. CASE Crash
    BY <2>3, CrashKeepsInv
  <2>4. CASE UNCHANGED vars
    <3>1. UNCHANGED <<pc, pos, retries, stored, counted, reply>>
      BY <2>4 DEF vars, db
    <3>2. TypeOK' /\ NotStarted'
      BY <3>1 DEF Inv, TypeOK, NotStarted
    <3>3. \A b \in Batches : (Ahead(b) /\ Attempt(b) /\ Cleared(b))'
      BY <3>1 DEF Inv, Ahead, Attempt, Cleared, Untouched, Kind, Tracked
    <3>4. HoldersFollowTrades' /\ StoredOncePerAttempt' /\ NoOrphanTrade'
      BY <3>1 DEF Inv, HoldersFollowTrades, StoredOncePerAttempt, NoOrphanTrade, Tracked
    <3> QED
      BY <3>2, <3>3, <3>4 DEF Inv
  <2> QED
    BY <2>1, <2>2, <2>3, <2>4 DEF Next
<1> QED
  BY <1>1, <1>2, PTL DEF Spec

(***************************************************************************)
(* The types of the batches, the two collections and the replies.          *)
(***************************************************************************)
THEOREM TypeCorrect == Spec => []TypeOK
BY Invariance, PTL DEF Inv

(***************************************************************************)
(* token_holders never gets ahead of trade_events.  Not inductive alone: a *)
(* batch about to update a holder must have stored once more than it has   *)
(* counted, which is Attempt.                                              *)
(***************************************************************************)
THEOREM HoldersNeverAhead == Spec => []HoldersFollowTrades
BY Invariance, PTL DEF Inv

(***************************************************************************)
(* Once per attempt at most, and MAX_RETRIES times at most.  It needs      *)
(* Attempt, and Ahead: the transactions a batch has not come to are        *)
(* untouched.                                                              *)
(***************************************************************************)
THEOREM BoundedDuplicates == Spec => []StoredOncePerAttempt
BY Invariance, PTL DEF Inv

(***************************************************************************)
(* No trade without its token: a batch past the lookup works on a token    *)
(* that was tracked, and tracked tokens stay so (TrackedForGood).          *)
(***************************************************************************)
THEOREM TradesHaveTheirToken == Spec => []NoOrphanTrade
BY Invariance, PTL DEF Inv

-----------------------------------------------------------------------------
(* What a successful reply means.                                          *)

\* Where a retry finds the transaction again, a batch leaves no trade behind
\* whose holder it has not updated, unless it gives up.
Past(b) ==
    b \notin Lagging /\ pc[b] \notin {"failure", "lost"} =>
        \A i \in Positions :
            i < pos[b] /\ Tx[b][i].kind = "trade" /\ stored[b][i] > 0 => counted[b][i] > 0

AtEnd(b) == pc[b] = "success" => pos[b] > N

Replied(b) == reply[RequestOf[b]] = "ok" => pc[b] = "success"

Answered == \A b \in Batches : Past(b) /\ AtEnd(b) /\ Replied(b)

(***************************************************************************)
(* A step of a batch leaves the others, and what requests were answered.   *)
(***************************************************************************)
LEMMA OthersStay ==
    ASSUME Inv, NEW b \in Batches, Process(b)
    PROVE  /\ reply' = reply
           /\ pc[b] \notin {"new", "success", "failure", "lost"}
           /\ \A c \in Batches : c # b =>
                /\ pc'[c] = pc[c] /\ pos'[c] = pos[c]
                /\ stored'[c] = stored[c] /\ counted'[c] = counted[c]
<1> USE DEF Goto, Continue, Catch, At
<1>1. CASE NextTransaction(b)
  BY <1>1 DEF Inv, TypeOK, NextTransaction, db
<1>2. CASE LookUp(b)
  BY <1>2 DEF Inv, TypeOK, LookUp, db
<1>3. CASE Fetch(b)
  BY <1>3 DEF Inv, TypeOK, Fetch, db
<1>4. CASE Store(b)
  BY <1>4 DEF Inv, TypeOK, Store
<1>5. CASE Count(b)
  BY <1>5 DEF Inv, TypeOK, Count
<1> QED
  BY <1>1, <1>2, <1>3, <1>4, <1>5 DEF Process

(***************************************************************************)
(* A batch goes on from a trade it has stored only after its holder is     *)
(* updated, and succeeds only at the end.                                  *)
(***************************************************************************)
LEMMA GoesOnCounted ==
    ASSUME Inv, NEW b \in Batches, Process(b)
    PROVE  /\ \/ pos'[b] = pos[b]
              \/ /\ pos[b] \in Positions /\ pos'[b] = pos[b] + 1
                 /\ b \notin Lagging /\ Kind(b) = "trade" /\ stored'[b][pos[b]] > 0
                      => counted'[b][pos[b]] > 0
           /\ \A i \in Positions : i # pos[b] =>
                stored'[b][i] = stored[b][i] /\ counted'[b][i] = counted[b][i]
           /\ pc'[b] = "success" => pos'[b] > N
<1>1. pos[b] \in 1 .. N + 1 /\ (pos[b] <= N => pos[b] \in Positions)
  BY StreamAssumption DEF Inv, TypeOK, Positions
<1>2. CASE NextTransaction(b)
  <2>1. UNCHANGED <<stored, counted>>
    BY <1>2 DEF NextTransaction, db
  <2> QED
    BY <1>1, <1>2, <2>1 DEF NextTransaction, Goto, Continue, Inv, TypeOK
<1>3. CASE LookUp(b)
  <2>1. UNCHANGED <<stored, counted>> /\ pos[b] \in Positions /\ stored[b][pos[b]] = 0
    BY <1>3 DEF LookUp, At, db, Inv, TypeOK, Working, Ahead, Untouched
  <2> QED
    BY <1>3, <2>1 DEF LookUp, Goto, Continue, Inv, TypeOK
<1>4. CASE Fetch(b)
  <2>1. UNCHANGED <<stored, counted>> /\ pos[b] \in Positions
    BY <1>4, AtWork DEF Fetch, At, db
  <2> QED
    BY <1>4, <2>1 DEF Fetch, FirstWrite, Goto, Continue, Catch, Inv, TypeOK
<1>5. CASE Store(b)
  <2>1. UNCHANGED counted /\ pos[b] \in Positions
    BY <1>5, AtWork DEF Store, At
  <2>2. \A i \in Positions : i # pos[b] => stored'[b][i] = stored[b][i]
    BY <1>5 DEF Store, Inv, TypeOK
  <2>3. \/ pos'[b] = pos[b]
        \/ pos'[b] = pos[b] + 1 /\ Kind(b) # "trade"
    BY <1>5 DEF Store, Goto, Continue, Catch, Inv, TypeOK
  <2>4. pc'[b] # "success"
    BY <1>5 DEF Store, Goto, Continue, Catch, Inv, TypeOK
  <2> QED
    BY <2>1, <2>2, <2>3, <2>4
<1>6. CASE Count(b)
  <2>1. UNCHANGED stored /\ pos[b] \in Positions /\ counted[b][pos[b]] \in Nat
    BY <1>6, AtWork DEF Count, At
  <2>2. \A i \in Positions : i # pos[b] => counted'[b][i] = counted[b][i]
    BY <1>6 DEF Count, Inv, TypeOK
  <2>3. \/ pos'[b] = pos[b]
        \/ pos'[b] = pos[b] + 1 /\ counted'[b][pos[b]] = counted[b][pos[b]] + 1
    BY <1>6, <2>1 DEF Count, Goto, Continue, Catch, Inv, TypeOK
  <2>4. pc'[b] # "success"
    BY <1>6 DEF Count, Goto, Continue, Catch, Inv, TypeOK
  <2> QED
    BY <2>1, <2>2, <2>3, <2>4
<1> QED
  BY <1>2, <1>3, <1>4, <1>5, <1>6 DEF Process

LEMMA ProcessKeepsAnswered ==
    ASSUME Inv, Answered, NEW b \in Batches, Process(b)
    PROVE  Answered'
<1>1. /\ reply' = reply
      /\ pc[b] \notin {"new", "success", "failure", "lost"}
      /\ \A c \in Batches : c # b =>
           /\ pc'[c] = pc[c] /\ pos'[c] = pos[c]
           /\ stored'[c] = stored[c] /\ counted'[c] = counted[c]
  BY OthersStay
<1>2. ASSUME NEW c \in Batches, c # b PROVE (Past(c) /\ AtEnd(c) /\ Replied(c))'
  BY <1>1, <1>2 DEF Answered, Past, AtEnd, Replied
<1>3. Past(b)'
  <2> SUFFICES ASSUME b \notin Lagging, NEW i \in Positions, i < pos'[b],
                      Tx[b][i].kind = "trade", stored'[b][i] > 0
               PROVE  counted'[b][i] > 0
    BY DEF Past
  <2>1. CASE i = pos[b]
    BY <2>1, GoesOnCounted DEF Kind, Positions
  <2>2. CASE i # pos[b]
    <3>1. i < pos[b]
      BY <2>2, GoesOnCounted DEF Positions, Inv, TypeOK
    <3>2. stored'[b][i] = stored[b][i] /\ counted'[b][i] = counted[b][i]
      BY <2>2, GoesOnCounted
    <3> QED
      BY <1>1, <3>1, <3>2 DEF Answered, Past
  <2> QED
    BY <2>1, <2>2
<1>4. AtEnd(b)' /\ Replied(b)'
  <2>1. AtEnd(b)'
    BY GoesOnCounted DEF AtEnd
  <2>2. reply[RequestOf[b]] # "ok"
    BY <1>1 DEF Answered, Replied
  <2>3. Replied(b)'
    BY <1>1, <2>2 DEF Replied
  <2> QED
    BY <2>1, <2>3
<1> QED
  BY <1>2, <1>3, <1>4 DEF Answered

(***************************************************************************)
(* A request is answered with success when all its batches have come to    *)
(* their end, and then none of them has left a trade uncounted.            *)
(***************************************************************************)
THEOREM SuccessMeansCounted == Spec => []SuccessCountsTrades
<1>1. Init => Answered
  BY StreamAssumption DEF Init, Answered, Past, AtEnd, Replied, Positions
<1>2. Inv /\ Answered /\ [Next]_vars => Answered'
  <2> SUFFICES ASSUME Inv, Answered, [Next]_vars PROVE Answered'
    OBVIOUS
  <2>1. ASSUME NEW r \in Requests, HandleQuicknodeStream(r) PROVE Answered'
    <3>1. UNCHANGED <<pos, stored, counted>> /\ reply' = [reply EXCEPT ![r] = "pending"]
      BY <2>1 DEF HandleQuicknodeStream, db
    <3>2. ASSUME NEW b \in Batches PROVE (Past(b) /\ AtEnd(b) /\ Replied(b))'
      <4>1. pc'[b] = IF RequestOf[b] = r THEN Started(b) ELSE pc[b]
        BY <2>1 DEF HandleQuicknodeStream
      <4>2. RequestOf[b] = r => pc[b] = "new" /\ reply'[RequestOf[b]] = "pending"
        BY <2>1, <3>1 DEF HandleQuicknodeStream, Inv, NotStarted, TypeOK
      <4>3. RequestOf[b] # r => reply'[RequestOf[b]] = reply[RequestOf[b]]
        BY <3>1, StreamAssumption DEF Inv, TypeOK
      <4> QED
        BY <3>1, <4>1, <4>2, <4>3 DEF Answered, Past, AtEnd, Replied, Started
    <3> QED
      BY <3>2 DEF Answered
  <2>2. ASSUME NEW r \in Requests, Reply(r) PROVE Answered'
    <3>1. UNCHANGED <<pc, pos, stored, counted>>
      BY <2>2 DEF Reply, db
    <3>2. ASSUME NEW b \in Batches PROVE Replied(b)'
      <4>1. CASE RequestOf[b] = r
        BY <2>2, <3>1, <4>1 DEF Reply, AllSucceed, BatchesOf, At, Replied, Inv, TypeOK
      <4>2. CASE RequestOf[b] # r
        BY <2>2, <3>1, <4>2, StreamAssumption DEF Reply, Replied, Answered, Inv, TypeOK
      <4> QED
        BY <4>1, <4>2
    <3> QED
      BY <3>1, <3>2 DEF Answered, Past, AtEnd
  <2>3. ASSUME NEW b \in Batches, Process(b) PROVE Answered'
    BY <2>3, ProcessKeepsAnswered
  <2>4. CASE Crash
    <3>1. UNCHANGED <<pos, stored, counted>>
      BY <2>4 DEF Crash, db
    <3>2. ASSUME NEW b \in Batches PROVE (Past(b) /\ AtEnd(b) /\ Replied(b))'
      <4>1. pc'[b] = IF reply[RequestOf[b]] = "pending" THEN "lost" ELSE pc[b]
        BY <2>4 DEF Crash
      <4>2. reply'[RequestOf[b]]
              = IF reply[RequestOf[b]] = "pending" THEN "lost" ELSE reply[RequestOf[b]]
        BY <2>4, StreamAssumption DEF Crash
      <4> QED
        BY <3>1, <4>1, <4>2 DEF Answered, Past, AtEnd, Replied
    <3> QED
      BY <3>2 DEF Answered
  <2>5. CASE UNCHANGED vars
    BY <2>5 DEF vars, db, Answered, Past, AtEnd, Replied
  <2> QED
    BY <2>1, <2>2, <2>3, <2>4, <2>5 DEF Next
<1>3. Inv /\ Answered => SuccessCountsTrades
  <2> SUFFICES ASSUME Inv, Answered, NEW b \in Batches \ Lagging, NEW i \in Positions,
                      reply[RequestOf[b]] = "ok", Tx[b][i].kind = "trade", stored[b][i] > 0
               PROVE  counted[b][i] > 0
    BY DEF SuccessCountsTrades
  <2>1. pc[b] = "success" /\ pos[b] > N /\ pos[b] \in 1 .. N + 1
    BY DEF Answered, AtEnd, Replied, Inv, TypeOK
  <2>2. i < pos[b]
    BY <2>1, StreamAssumption DEF Positions
  <2> QED
    BY <2>1, <2>2 DEF Answered, Past
<1> QED
  BY <1>1, <1>2, <1>3, Invariance, PTL DEF Spec
=============================================================================
