------------------------ MODULE ConnectionPoolProofs ------------------------
(***************************************************************************)
(* What ConnectionPool guarantees for any number of connections, any       *)
(* limits, window and cooldown, and any number of overlapping timers.      *)
(***************************************************************************)
EXTENDS ConnectionPool, SequenceTheorems, TLAPS

(***************************************************************************)
(* The ring: every position reached from an index of the ring is one.      *)
(***************************************************************************)
LEMMA WrapInRing ==
    ASSUME NEW i \in Conns, NEW k \in 0 .. N
    PROVE  Wrap(i + k) \in Conns
BY PoolAssumption DEF Wrap, Conns

(***************************************************************************)
(* Looking at connections keeps counts and ages in range and never raises  *)
(* a count.                                                                *)
(***************************************************************************)
LEMMA RefreshLowers ==
    ASSUME TypeOK, NEW S, Refresh(S)
    PROVE  /\ requestCount' \in [Conns -> Nat]
           /\ sinceRequest' \in [Conns -> 0 .. REQUEST_WINDOW]
           /\ \A c \in Conns : requestCount'[c] <= requestCount[c]
BY PoolAssumption DEF TypeOK, Refresh, CountNow, Stale

(***************************************************************************)
(* Selecting the next connection, or failing to.                           *)
(***************************************************************************)
LEMMA UpdateKeepsType ==
    ASSUME TypeOK, UpdateConnection
    PROVE  TypeOK'
<1>1. CASE NextHealthyThrows
  BY <1>1, RefreshLowers DEF NextHealthyThrows, TypeOK
<1>2. CASE NextHealthyFound
  <2>1. PICK k \in Conns : /\ Refresh(Visited(k))
                           /\ current' = At(k)
                           /\ currentIndex' = IndexAfter(k)
                           /\ UNCHANGED <<status, timers>>
    BY <1>2 DEF NextHealthyFound
  <2>2. At(k) \in Conns
    BY WrapInRing, PoolAssumption DEF At, TypeOK, Conns
  <2>3. IndexAfter(k) \in Conns
    BY <2>2, WrapInRing, PoolAssumption DEF IndexAfter, Conns
  <2> QED
    BY <2>1, <2>2, <2>3, RefreshLowers DEF TypeOK
<1> QED
  BY <1>1, <1>2 DEF UpdateConnection

(***************************************************************************)
(* Every state of the pool is well typed.                                  *)
(***************************************************************************)
THEOREM TypeCorrect == Spec => []TypeOK
<1>1. Init => TypeOK
  BY PoolAssumption DEF Init, TypeOK, Conns, Wrap
<1>2. TypeOK /\ [Next]_vars => TypeOK'
  <2> SUFFICES ASSUME TypeOK, [Next]_vars PROVE TypeOK'
    OBVIOUS
  <2>1. CASE UpdateConnection
    BY <2>1, UpdateKeepsType
  <2>2. CASE EnsureConnection
    <3>1. CASE UpdateConnection
      BY <3>1, UpdateKeepsType
    <3>2. CASE Refresh({current}) /\ UNCHANGED <<status, timers, currentIndex, current>>
      BY <3>2, RefreshLowers DEF TypeOK
    <3> QED
      BY <2>2, <3>1, <3>2 DEF EnsureConnection
  <2>3. CASE HandleRequest
    <3> USE <2>3, PoolAssumption DEF HandleRequest, TypeOK
    <3>1. requestCount' \in [Conns -> Nat] /\ sinceRequest' \in [Conns -> 0 .. REQUEST_WINDOW]
      OBVIOUS
    <3>2. status' \in [Conns -> {"ACTIVE", "COOLING"}]
      OBVIOUS
    <3>3. timers' \in [Conns -> Seq(0 .. CooldownPeriod)]
      <4>1. Append(timers[current], CooldownPeriod) \in Seq(0 .. CooldownPeriod)
        OBVIOUS
      <4> QED
        BY <4>1
    <3> QED
      BY <3>1, <3>2, <3>3
  <2>4. ASSUME NEW c \in Conns, CooldownOver(c) PROVE TypeOK'
    <3>1. Tail(timers[c]) \in Seq(0 .. CooldownPeriod)
      BY <2>4 DEF CooldownOver, TypeOK
    <3> QED
      BY <2>4, <3>1 DEF CooldownOver, TypeOK, Revived
  <2>5. CASE Tick
    <3>1. sinceRequest' \in [Conns -> 0 .. REQUEST_WINDOW]
      BY <2>5, PoolAssumption DEF Tick, TypeOK, Stale
    <3>2. timers' \in [Conns -> Seq(0 .. CooldownPeriod)]
      <4>1. ASSUME NEW c \in Conns
            PROVE  [i \in 1 .. Len(timers[c]) |->
                      IF timers[c][i] > 0 THEN timers[c][i] - 1 ELSE 0]
                   \in Seq(0 .. CooldownPeriod)
        <5>1. timers[c] \in Seq(0 .. CooldownPeriod)
          BY DEF TypeOK
        <5>2. Len(timers[c]) \in Nat
          BY <5>1
        <5>3. \A i \in 1 .. Len(timers[c]) : timers[c][i] \in 0 .. CooldownPeriod
          BY <5>1, ElementOfSeq
        <5> QED
          BY <5>2, <5>3, PoolAssumption
      <4> QED
        BY <2>5, <4>1 DEF Tick
    <3> QED
      BY <2>5, <3>1, <3>2 DEF Tick, TypeOK
  <2>6. CASE UNCHANGED vars
    BY <2>6 DEF vars, TypeOK
  <2> QED
    BY <2>1, <2>2, <2>3, <2>4, <2>5, <2>6 DEF Next
<1> QED
  BY <1>1, <1>2, PTL DEF Spec

-----------------------------------------------------------------------------
Inv == ActiveBelowLimit /\ CoolingHasTimer

(***************************************************************************)
(* Selecting a connection only ever lowers counts.                         *)
(***************************************************************************)
LEMMA UpdateKeepsInv ==
    ASSUME TypeOK, Inv, UpdateConnection
    PROVE  Inv'
<1>1. UNCHANGED <<status, timers>>
  BY DEF UpdateConnection, NextHealthyFound, NextHealthyThrows
<1>2. PICK S : Refresh(S)
  BY DEF UpdateConnection, NextHealthyFound, NextHealthyThrows
<1>3. \A c \in Conns : requestCount'[c] <= requestCount[c] /\ requestCount'[c] \in Nat
  BY <1>2, RefreshLowers
<1> QED
  BY <1>1, <1>3, PoolAssumption DEF Inv, ActiveBelowLimit, CoolingHasTimer, TypeOK

(***************************************************************************)
(* An ACTIVE connection is below its limit, and a COOLING one has a timer  *)
(* that will revive it.  The two are inductive together with the types:    *)
(* the limit is reached only in the step that starts a cooldown, and a     *)
(* timer that fires clears the count and the status at once.               *)
(***************************************************************************)
THEOREM PoolInvariant == Spec => [](ActiveBelowLimit /\ CoolingHasTimer)
<1>1. Init => Inv
  BY PoolAssumption DEF Init, Inv, ActiveBelowLimit, CoolingHasTimer
<1>2. TypeOK /\ Inv /\ [Next]_vars => Inv'
  <2> SUFFICES ASSUME TypeOK, Inv, [Next]_vars PROVE Inv'
    OBVIOUS
  <2> USE DEF Inv, ActiveBelowLimit, CoolingHasTimer
  <2>1. CASE UpdateConnection
    BY <2>1, UpdateKeepsInv
  <2>2. CASE EnsureConnection
    <3>1. CASE UpdateConnection
      BY <3>1, UpdateKeepsInv
    <3>2. CASE Refresh({current}) /\ UNCHANGED <<status, timers, currentIndex, current>>
      <4>1. \A c \in Conns : requestCount'[c] <= requestCount[c] /\ requestCount'[c] \in Nat
        BY <3>2, RefreshLowers
      <4> QED
        BY <3>2, <4>1, PoolAssumption DEF TypeOK
    <3> QED
      BY <2>2, <3>1, <3>2 DEF EnsureConnection
  <2>3. CASE HandleRequest
    <3> DEFINE count == requestCount[current] + 1
    <3>1. ActiveBelowLimit'
      <4>1. CASE ~ReachesLimit(count)
        <5>1. requestCount' = [requestCount EXCEPT ![current] = count]
              /\ status' = status
          BY <2>3, <4>1 DEF HandleRequest
        <5>2. count < RateLimit[current]
          <6>1. requestCount[current] \in Nat /\ RateLimit[current] \in Nat
            BY PoolAssumption DEF TypeOK
          <6> QED
            BY <4>1, <6>1 DEF ReachesLimit
        <5> QED
          BY <5>1, <5>2 DEF TypeOK
      <4>2. CASE ReachesLimit(count)
        <5>1. requestCount' = [requestCount EXCEPT ![current] = count]
              /\ status' = [status EXCEPT ![current] = "COOLING"]
          BY <2>3, <4>2 DEF HandleRequest
        <5> QED
          BY <5>1 DEF TypeOK
      <4> QED
        BY <4>1, <4>2
    <3>2. CoolingHasTimer'
      <4>1. CASE ~ReachesLimit(count)
        BY <2>3, <4>1 DEF HandleRequest
      <4>2. CASE ReachesLimit(count)
        <5>1. timers' = [timers EXCEPT ![current] = Append(timers[current], CooldownPeriod)]
              /\ status' = [status EXCEPT ![current] = "COOLING"]
          BY <2>3, <4>2 DEF HandleRequest
        <5>2. Append(timers[current], CooldownPeriod) # <<>>
          <6>1. timers[current] \in Seq(0 .. CooldownPeriod)
                /\ CooldownPeriod \in 0 .. CooldownPeriod
            BY PoolAssumption DEF TypeOK
          <6>2. Len(Append(timers[current], CooldownPeriod)) # 0
            BY <6>1, AppendProperties, LenProperties
          <6> QED
            BY <6>2, EmptySeq
        <5> QED
          BY <5>1, <5>2 DEF TypeOK
      <4> QED
        BY <4>1, <4>2
    <3> QED
      BY <3>1, <3>2
  <2>4. ASSUME NEW c \in Conns, CooldownOver(c) PROVE Inv'
    <3>1. /\ status' = [status EXCEPT ![c] = "ACTIVE"]
          /\ requestCount' = [requestCount EXCEPT ![c] = 0]
          /\ timers' = [timers EXCEPT ![c] = Tail(timers[c])]
      BY <2>4 DEF CooldownOver, Revived
    <3>2. ActiveBelowLimit'
      <4> SUFFICES ASSUME NEW d \in Conns, status'[d] = "ACTIVE"
                   PROVE  requestCount'[d] < RateLimit[d]
        OBVIOUS
      <4>1. CASE d = c
        <5>1. requestCount'[d] = 0 /\ RateLimit[d] \in Nat \ {0}
          BY <3>1, <4>1, PoolAssumption DEF TypeOK
        <5> QED
          BY <5>1
      <4>2. CASE d # c
        BY <3>1, <4>2 DEF TypeOK
      <4> QED
        BY <4>1, <4>2
    <3>3. CoolingHasTimer'
      BY <3>1 DEF TypeOK
    <3> QED
      BY <3>2, <3>3
  <2>5. CASE Tick
    <3>1. ActiveBelowLimit'
      BY <2>5 DEF Tick
    <3>2. ASSUME NEW c \in Conns, timers[c] # <<>> PROVE timers'[c] # <<>>
      <4>1. timers[c] \in Seq(0 .. CooldownPeriod) /\ Len(timers[c]) # 0
        BY <3>2, EmptySeq DEF TypeOK
      <4>2. DOMAIN timers'[c] = 1 .. Len(timers[c])
        BY <2>5 DEF Tick
      <4>3. 1 \in DOMAIN timers'[c]
        BY <4>1, <4>2
      <4> QED
        BY <4>3
    <3> QED
      BY <2>5, <3>1, <3>2 DEF Tick
  <2>6. CASE UNCHANGED vars
    BY <2>6 DEF vars
  <2> QED
    BY <2>1, <2>2, <2>3, <2>4, <2>5, <2>6 DEF Next
<1>3. Inv => ActiveBelowLimit /\ CoolingHasTimer
  BY DEF Inv
<1> QED
  BY <1>1, <1>2, <1>3, TypeCorrect, PTL DEF Spec

(***************************************************************************)
(* A connection that may be selected has requests left.                    *)
(***************************************************************************)
THEOREM SelectableBelowLimit == Spec => []ActiveBelowLimit
BY PoolInvariant, PTL

(***************************************************************************)
(* No connection cools down for good.                                      *)
(***************************************************************************)
THEOREM TimerIsPending == Spec => []CoolingHasTimer
BY PoolInvariant, PTL

(***************************************************************************)
(* getNextHealthyConnection throws only when every connection is COOLING.  *)
(***************************************************************************)
THEOREM ThrowMeansAllCooling == Spec => []ThrowsOnlyWhenAllCooling
<1>1. TypeOK /\ ActiveBelowLimit => ThrowsOnlyWhenAllCooling
  BY PoolAssumption DEF TypeOK, ActiveBelowLimit, ThrowsOnlyWhenAllCooling,
     NoHealthyConnection, IsConnectionHealthy, CountNow
<1> QED
  BY <1>1, TypeCorrect, PoolInvariant, PTL

(***************************************************************************)
(* The index of the round robin is always the one after the connection     *)
(* that was handed out last.                                               *)
(***************************************************************************)
Follows == currentIndex = Wrap(current + 1)

THEOREM IndexFollowsCurrent == Spec => []Follows
<1>1. Init => Follows
  BY DEF Init, Follows
<1>2. TypeOK /\ Follows /\ [Next]_vars => Follows'
  <2> SUFFICES ASSUME TypeOK, Follows, [Next]_vars PROVE Follows'
    OBVIOUS
  <2>1. CASE UNCHANGED <<currentIndex, current>>
    BY <2>1 DEF Follows
  <2>2. CASE NextHealthyFound
    BY <2>2 DEF NextHealthyFound, IndexAfter, Follows
  <2> QED
    BY <2>1, <2>2 DEF Next, UpdateConnection, NextHealthyThrows, EnsureConnection,
       HandleRequest, CooldownOver, Tick, vars
<1> QED
  BY <1>1, <1>2, TypeCorrect, PTL DEF Spec

(***************************************************************************)
(* From the index after the current connection, the ring meets every other *)
(* connection before it meets the current one again, so a switch leaves    *)
(* the current connection whenever another one is healthy.                 *)
(***************************************************************************)
THEOREM SwitchRotatesAway == Spec => RotatesAway
<1>1. ASSUME TypeOK, Follows, UpdateConnection,
             NEW c \in Conns \ {current}, IsConnectionHealthy(c)
      PROVE  current' # current
  <2>1. NextHealthyFound
    BY <1>1 DEF UpdateConnection, NextHealthyThrows, NoHealthyConnection
  <2>2. PICK k \in Conns : IsFirstHealthy(k) /\ current' = At(k)
    BY <2>1 DEF NextHealthyFound
  <2>3. PICK j \in 0 .. N - 2 : At(j) = c
    <3>1. current \in 0 .. N - 1 /\ c \in 0 .. N - 1 /\ c # current
      BY <1>1 DEF TypeOK, Conns
    <3> DEFINE j == IF c > current THEN c - current - 1 ELSE c + N - current - 1
    <3>2. j \in 0 .. N - 2 /\ At(j) = c
      BY <1>1, <3>1, PoolAssumption DEF At, Follows, Wrap
    <3> QED
      BY <3>2
  <2>4. k <= j
    <3>1. \A i \in 0 .. k - 1 : ~IsConnectionHealthy(At(i))
      BY <2>2 DEF IsFirstHealthy
    <3> QED
      BY <1>1, <2>3, <3>1, PoolAssumption DEF Conns
  <2>5. k \in 0 .. N - 2
    BY <2>3, <2>4, PoolAssumption DEF Conns
  <2>6. At(k) # current
    <3>1. current \in 0 .. N - 1 /\ N \in Nat /\ N >= 2
      BY <1>1, PoolAssumption DEF TypeOK, Conns
    <3>2. At(k) = Wrap(Wrap(current + 1) + k)
      BY <1>1 DEF At, Follows
    <3> QED
      BY <3>1, <3>2, <2>5 DEF Wrap
  <2> QED
    BY <2>2, <2>6
<1>2. TypeOK /\ Follows /\ [Next]_vars
        => [UpdateConnection /\ (\E c \in Conns \ {current} : IsConnectionHealthy(c))
              => current' # current]_vars
  BY <1>1
<1> QED
  BY <1>2, TypeCorrect, IndexFollowsCurrent, PTL DEF Spec, RotatesAway
=============================================================================
