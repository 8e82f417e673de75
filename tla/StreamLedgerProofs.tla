------------------------- MODULE StreamLedgerProofs -------------------------
(***************************************************************************)
(* StreamIngest implements EventLedger, for any deliveries and crashes.    *)
(***************************************************************************)
EXTENDS StreamIngestProofs

\* A batch that is about to write works on an event of the pump program.
Relevant(b) ==
    /\ pc[b] \in {"fetch", "store"} => Kind(b) \in {"create", "trade"}
    /\ pc[b] \in {"lookup", "count"} => Kind(b) = "trade"

WorksOnEvents == \A b \in Batches : Relevant(b)

-----------------------------------------------------------------------------
LEMMA RelevantStep ==
    ASSUME Inv, WorksOnEvents, NEW b \in Batches, Process(b)
    PROVE  WorksOnEvents'
<1>1. ASSUME NEW c \in Batches, c # b PROVE Relevant(c)'
  <2>1. pc'[c] = pc[c] /\ pos'[c] = pos[c]
    BY <1>1 DEF Process, NextTransaction, LookUp, Fetch, Store, Count, Catch, Continue,
                Goto, Inv, TypeOK
  <2> QED
    BY <2>1 DEF WorksOnEvents, Relevant, Kind
<1>2. CASE Continue(b)
  <2>1. pc'[b] = "next"
    BY <1>2 DEF Continue, Goto, Inv, TypeOK
  <2> QED
    BY <1>1, <2>1 DEF WorksOnEvents, Relevant
<1>3. CASE Goto(b, "success") \/ Goto(b, "failure")
  <2>1. pc'[b] \in {"success", "failure"}
    BY <1>3 DEF Goto, Inv, TypeOK
  <2> QED
    BY <1>1, <2>1 DEF WorksOnEvents, Relevant
<1>4. ASSUME UNCHANGED pos, NEW l \in {"fetch", "store"}, Goto(b, l),
             Kind(b) \in {"create", "trade"}
      PROVE  WorksOnEvents'
  <2>1. pc'[b] = l /\ Kind(b)' = Kind(b)
    BY <1>4 DEF Goto, Kind, Inv, TypeOK
  <2> QED
    BY <1>1, <1>4, <2>1 DEF WorksOnEvents, Relevant
<1>5. ASSUME UNCHANGED pos, NEW l \in {"lookup", "count"}, Goto(b, l), Kind(b) = "trade"
      PROVE  WorksOnEvents'
  <2>1. pc'[b] = l /\ Kind(b)' = Kind(b)
    BY <1>5 DEF Goto, Kind, Inv, TypeOK
  <2> QED
    BY <1>1, <1>5, <2>1 DEF WorksOnEvents, Relevant
<1>6. CASE NextTransaction(b)
  BY <1>2, <1>3, <1>4, <1>5, <1>6 DEF NextTransaction
<1>7. CASE LookUp(b)
  BY <1>2, <1>3, <1>4, <1>7 DEF LookUp, At, WorksOnEvents, Relevant
<1>8. CASE pc[b] \in {"fetch", "store", "count"} /\ Catch(b)
  <2>1. Kind(b) \in {"create", "trade"}
    BY <1>8 DEF WorksOnEvents, Relevant
  <2> QED
    BY <1>3, <1>4, <1>8, <2>1 DEF Catch
<1>9. CASE Fetch(b)
  BY <1>2, <1>4, <1>8, <1>9 DEF Fetch, At, FirstWrite, WorksOnEvents, Relevant
<1>10. CASE Store(b)
  BY <1>2, <1>5, <1>8, <1>10 DEF Store, At
<1>11. CASE Count(b)
  BY <1>2, <1>8, <1>11 DEF Count, At
<1> QED
  BY <1>6, <1>7, <1>9, <1>10, <1>11 DEF Process

LEMMA AlwaysOnEvents == Spec => []WorksOnEvents
<1>1. Init => WorksOnEvents
  BY DEF Init, WorksOnEvents, Relevant
<1>2. Inv /\ WorksOnEvents /\ [Next]_vars => WorksOnEvents'
  <2> SUFFICES ASSUME Inv, WorksOnEvents, [Next]_vars PROVE WorksOnEvents'
    OBVIOUS
  <2>1. ASSUME NEW r \in Requests, HandleQuicknodeStream(r) PROVE WorksOnEvents'
    <3>1. pos' = pos /\ \A b \in Batches : pc'[b] \in {"next", "failure", pc[b]}
      BY <2>1 DEF HandleQuicknodeStream, Started
    <3> QED
      BY <3>1 DEF WorksOnEvents, Relevant, Kind
  <2>2. ASSUME NEW r \in Requests, Reply(r) PROVE WorksOnEvents'
    BY <2>2 DEF Reply, WorksOnEvents, Relevant, Kind
  <2>3. ASSUME NEW b \in Batches, Process(b) PROVE WorksOnEvents'
    BY <2>3, RelevantStep
  <2>4. CASE Crash
    <3>1. pos' = pos /\ \A b \in Batches : pc'[b] \in {"lost", pc[b]}
      BY <2>4 DEF Crash
    <3> QED
      BY <3>1 DEF WorksOnEvents, Relevant, Kind
  <2>5. CASE UNCHANGED vars
    BY <2>5 DEF vars, WorksOnEvents, Relevant, Kind
  <2> QED
    BY <2>1, <2>2, <2>3, <2>4, <2>5 DEF Next
<1> QED
  BY <1>1, <1>2, Invariance, PTL DEF Spec

-----------------------------------------------------------------------------
(* The documents as the ledger sees them, one function over deliveries.    *)

Flat(f) == [d \in Deliveries |-> f[d[1]][d[2]]]

LEMMA FlatPoint ==
    ASSUME NEW f, NEW b \in Batches, NEW i \in Positions
    PROVE  <<b, i>> \in Deliveries /\ Flat(f)[<<b, i>>] = f[b][i]
BY DEF Deliveries, Flat

LEMMA OtherDelivery ==
    ASSUME NEW b \in Batches, NEW i \in Positions, NEW d \in Deliveries, d # <<b, i>>
    PROVE  d[1] \in Batches /\ d[2] \in Positions /\ (d[1] # b \/ d[2] # i)
<1>1. d[1] \in Batches /\ d[2] \in Positions /\ d = <<d[1], d[2]>>
  BY DEF Deliveries
<1> QED
  BY <1>1

LEMMA TrackedIsKnown ==
    ASSUME NEW m, Tracked(m)
    PROVE  Ledger!Known(m)
<1>1. PICK b \in Batches, i \in Positions :
        Tx[b][i] = [kind |-> "create", mint |-> m] /\ stored[b][i] > 0
  BY DEF Tracked
<1>2. <<b, i>> \in Deliveries
  BY DEF Deliveries
<1> QED
  BY <1>1, <1>2 DEF Ledger!Known

(***************************************************************************)
(* An insert, or an $inc, is the ledger's.                                 *)
(***************************************************************************)
LEMMA StoreRefines ==
    ASSUME Inv, WorksOnEvents, NEW b \in Batches, pc[b] = "store",
           stored' = [stored EXCEPT ![b][pos[b]] = @ + 1], UNCHANGED counted
    PROVE  Ledger!Next
<1>1. pos[b] \in Positions /\ stored[b][pos[b]] < MAX_RETRIES
  <2>1. stored[b][pos[b]] <= retries[b][pos[b]] /\ retries[b][pos[b]] < MAX_RETRIES
    BY DEF Inv, Attempt
  <2> QED
    BY <2>1, AtWork
<1>2. PICK i \in Positions : i = pos[b]
  BY <1>1
<1>3. stored \in [Batches -> [Positions -> Nat]]
  BY DEF Inv, TypeOK
<1>4. /\ <<b, i>> \in Deliveries /\ Flat(stored)[<<b, i>>] < MAX_RETRIES
      /\ Flat(stored') = [Flat(stored) EXCEPT ![<<b, i>>] = @ + 1]
  <2>1. stored' = [stored EXCEPT ![b][i] = @ + 1]
    BY <1>2
  <2>2. <<b, i>> \in Deliveries /\ Flat(stored)[<<b, i>>] = stored[b][i]
    BY FlatPoint
  <2>3. Flat(stored')[<<b, i>>] = Flat(stored)[<<b, i>>] + 1
    BY <1>3, <2>1, <2>2 DEF Flat
  <2>4. \A c \in Batches, j \in Positions : c # b \/ j # i => stored'[c][j] = stored[c][j]
    BY <1>3, <2>1
  <2>5. \A d \in Deliveries : d # <<b, i>> => Flat(stored')[d] = Flat(stored)[d]
    BY <2>4, OtherDelivery DEF Flat
  <2> QED
    BY <1>1, <1>2, <2>2, <2>3, <2>5 DEF Flat
<1>5. Ledger!Storable(<<b, i>>)
  <2>1. Kind(b) \in {"create", "trade"} /\ (Kind(b) = "trade" => Tracked(Tx[b][pos[b]].mint))
    BY DEF Inv, WorksOnEvents, Relevant, Cleared
  <2>2. Kind(b) = "trade" => Ledger!Known(Tx[b][i].mint)
    BY <1>2, <2>1, TrackedIsKnown
  <2> QED
    BY <1>2, <1>4, <2>1, <2>2 DEF Ledger!Storable, Kind
<1>6. Ledger!StoreEvent(<<b, i>>)
  BY <1>4, <1>5 DEF Ledger!StoreEvent, Flat
<1> QED
  BY <1>4, <1>6 DEF Ledger!Next

LEMMA CountRefines ==
    ASSUME Inv, WorksOnEvents, NEW b \in Batches, pc[b] = "count",
           counted' = [counted EXCEPT ![b][pos[b]] = @ + 1], UNCHANGED stored
    PROVE  Ledger!Next
<1>1. pos[b] \in Positions /\ counted[b][pos[b]] < stored[b][pos[b]]
  BY AtWork DEF Inv, Attempt
<1>2. PICK i \in Positions : i = pos[b]
  BY <1>1
<1>3. counted \in [Batches -> [Positions -> Nat]] /\ stored \in [Batches -> [Positions -> Nat]]
  BY DEF Inv, TypeOK
<1>4. /\ <<b, i>> \in Deliveries
      /\ Flat(counted)[<<b, i>>] < Flat(stored)[<<b, i>>]
      /\ Flat(counted') = [Flat(counted) EXCEPT ![<<b, i>>] = @ + 1]
  <2>1. counted' = [counted EXCEPT ![b][i] = @ + 1]
    BY <1>2
  <2>2. <<b, i>> \in Deliveries /\ Flat(counted)[<<b, i>>] = counted[b][i]
    BY FlatPoint
  <2>3. Flat(counted')[<<b, i>>] = Flat(counted)[<<b, i>>] + 1
    BY <1>3, <2>1, <2>2 DEF Flat
  <2>4. \A c \in Batches, j \in Positions : c # b \/ j # i => counted'[c][j] = counted[c][j]
    BY <1>3, <2>1
  <2>5. \A d \in Deliveries : d # <<b, i>> => Flat(counted')[d] = Flat(counted)[d]
    BY <2>4, OtherDelivery DEF Flat
  <2>6. Flat(stored)[<<b, i>>] = stored[b][i]
    BY FlatPoint
  <2> QED
    BY <1>1, <1>2, <2>2, <2>3, <2>5, <2>6 DEF Flat
<1>5. Tx[b][i].kind = "trade"
  BY <1>2 DEF WorksOnEvents, Relevant, Kind
<1>6. Ledger!CountTrade(<<b, i>>)
  BY <1>4, <1>5 DEF Ledger!CountTrade, Flat
<1> QED
  BY <1>4, <1>6 DEF Ledger!Next

(***************************************************************************)
(* Every step of the ingestion writes what the ledger admits, or nothing.  *)
(***************************************************************************)
LEMMA StepRefines ==
    ASSUME Inv, WorksOnEvents, [Next]_vars
    PROVE  Ledger!Next \/ UNCHANGED <<stored, counted>>
<1>1. ASSUME NEW b \in Batches, Process(b)
      PROVE  Ledger!Next \/ UNCHANGED <<stored, counted>>
  <2>1. CASE NextTransaction(b) \/ LookUp(b) \/ Fetch(b)
    BY <2>1 DEF NextTransaction, LookUp, Fetch, db
  <2>2. CASE Store(b)
    BY <2>2, StoreRefines DEF Store, At
  <2>3. CASE Count(b)
    BY <2>3, CountRefines DEF Count, At
  <2> QED
    BY <1>1, <2>1, <2>2, <2>3 DEF Process
<1>2. ASSUME NEW r \in Requests, HandleQuicknodeStream(r) \/ Reply(r)
      PROVE  UNCHANGED <<stored, counted>>
  BY <1>2 DEF HandleQuicknodeStream, Reply, db
<1>3. CASE Crash
  BY <1>3 DEF Crash, db
<1>4. CASE UNCHANGED vars
  BY <1>4 DEF vars, db
<1> QED
  BY <1>1, <1>2, <1>3, <1>4 DEF Next

(***************************************************************************)
(* The ingestion implements the ledger, for every number of requests,      *)
(* batches, transactions and retries.  A step needs the invariant of       *)
(* StreamIngestProofs, for the bounds at "store" and "count", and          *)
(* WorksOnEvents, since a failed write does not look at the kind again.    *)
(***************************************************************************)
THEOREM IngestionImplementsLedger == Spec => ImplementsLedger
<1>1. Init => Ledger!Init
  <2> SUFFICES ASSUME Init PROVE Ledger!Init
    OBVIOUS
  <2>1. \A d \in Deliveries : stored[d[1]][d[2]] = 0 /\ counted[d[1]][d[2]] = 0
    BY DEF Init, Deliveries
  <2> QED
    BY <2>1 DEF Ledger!Init
<1>2. Inv /\ WorksOnEvents /\ [Next]_vars
        => [Ledger!Next]_<<Flat(stored), Flat(counted)>>
  <2>1. UNCHANGED <<stored, counted>> => UNCHANGED <<Flat(stored), Flat(counted)>>
    BY DEF Flat
  <2> QED
    BY <2>1, StepRefines
<1> QED
  BY <1>1, <1>2, Invariance, AlwaysOnEvents, PTL
     DEF Spec, ImplementsLedger, Ledger!Spec, Flat
=============================================================================
