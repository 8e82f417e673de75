-------------------------- MODULE MonitoringProofs --------------------------
(***************************************************************************)
(* What Monitoring guarantees for any number of concurrent calls, of       *)
(* connections, of nested restarts, of crashes and of failures.            *)
(***************************************************************************)
EXTENDS Monitoring, TLAPS

MemoryState == [isMonitoring |-> isMonitoring, subscriptionId |-> monitoringSubscription]

\* What a call knows across its await: the id it is about to track, and that
\* a rejection it is about to handle has been counted.
CallsCarry ==
    \A t \in Tasks : /\ At(t, "subscribed") => task[t].id \in Nat
                     /\ task[t].failed => failures > 0

\* Memory and Redis differ only between a restart's clearing of the fields
\* and the assignments that follow it, while the restarting call is at
\* "subscribed".
Agreement ==
    up /\ failures = 0 =>
        saved = MemoryState \/ \E t \in Tasks : At(t, "subscribed")

\* The flag says whether something is tracked, be it undefined.
FlagMeansTracked ==
    /\ isMonitoring <=> monitoringSubscription # Null
    /\ saved.isMonitoring <=> saved.subscriptionId # Null

Inv == ServiceTypeOK /\ FlagMeansTracked /\ CallsCarry /\ Agreement

-----------------------------------------------------------------------------
(***************************************************************************)
(* A task that moves on leaves the others where they are.                  *)
(***************************************************************************)
LEMMA GotoMovesOne ==
    ASSUME ServiceTypeOK, NEW t \in Tasks, NEW r \in Calls, Goto(t, r)
    PROVE  /\ task' \in [Tasks -> Calls]
           /\ task'[t] = r
           /\ \A u \in Tasks \ {t} : task'[u] = task[u]
BY DEF ServiceTypeOK, Goto

(***************************************************************************)
(* The records tasks go to.                                                *)
(***************************************************************************)
LEMMA IdleIsCall == Idle \in Calls /\ Idle.pc = "idle" /\ ~Idle.failed
BY MonitoringAssumption DEF Idle, Calls, SubIds

(***************************************************************************)
(* A task that moves without touching the shared state, and not from the   *)
(* registration of a callback, keeps the invariant.                        *)
(***************************************************************************)
LEMMA MoveKeepsInv ==
    ASSUME Inv, NEW t \in Tasks, NEW r \in Calls, Goto(t, r),
           UNCHANGED <<up, mem, current, saved, nextId, budgets>>,
           subs' \subseteq subs,
           ~At(t, "subscribed"), r.pc # "subscribed", r.failed => failures > 0
    PROVE  Inv'
<1>1. /\ task' \in [Tasks -> Calls] /\ task'[t] = r
      /\ \A u \in Tasks \ {t} : task'[u] = task[u]
  BY GotoMovesOne DEF Inv
<1>2. ServiceTypeOK'
  BY <1>1 DEF Inv, ServiceTypeOK, mem, budgets
<1>3. FlagMeansTracked'
  BY DEF Inv, FlagMeansTracked, mem
<1>4. CallsCarry'
  BY <1>1 DEF Inv, CallsCarry, At, budgets
<1>5. Agreement'
  BY <1>1 DEF Inv, Agreement, MemoryState, At, mem, budgets
<1> QED
  BY <1>2, <1>3, <1>4, <1>5 DEF Inv

(***************************************************************************)
(* What registering a callback does.                                       *)
(***************************************************************************)
LEMMA RegisterCarriesId ==
    ASSUME ServiceTypeOK, NEW t \in Tasks, NEW r \in Calls, NEW c \in Conns, Register(t, r, c)
    PROVE  /\ subs' \subseteq [conn : Conns, id : Nat]
           /\ nextId' \in [Conns -> Nat]
           /\ task' \in [Tasks -> Calls]
           /\ task'[t].pc = "subscribed" /\ task'[t].id \in Nat
           /\ task'[t].failed = r.failed
           /\ \A u \in Tasks \ {t} : task'[u] = task[u]
<1>1. nextId[c] \in Nat
  BY DEF ServiceTypeOK
<1>2. [r EXCEPT !.pc = "subscribed", !.conn = c, !.id = nextId[c]] \in Calls
  BY <1>1 DEF Calls, SubIds
<1>3. Goto(t, [r EXCEPT !.pc = "subscribed", !.conn = c, !.id = nextId[c]])
  BY DEF Register, IdOf
<1>4. /\ task' \in [Tasks -> Calls]
      /\ task'[t] = [r EXCEPT !.pc = "subscribed", !.conn = c, !.id = nextId[c]]
      /\ \A u \in Tasks \ {t} : task'[u] = task[u]
  BY <1>2, <1>3, GotoMovesOne
<1>5. task'[t].pc = "subscribed" /\ task'[t].id = nextId[c] /\ task'[t].failed = r.failed
  BY <1>4 DEF Calls
<1> QED
  BY <1>1, <1>4, <1>5 DEF ServiceTypeOK, Register, IdOf

(***************************************************************************)
(* A start that subscribes: the fields keep their values for now.          *)
(***************************************************************************)
LEMMA RegisterKeepsInv ==
    ASSUME Inv, NEW t \in Tasks, NEW r \in Calls, NEW c \in Conns, Register(t, r, c),
           r.failed => failures > 0,
           UNCHANGED <<up, mem, saved, budgets>>, current' \in Conns
    PROVE  Inv'
<1>1. ServiceTypeOK'
  BY RegisterCarriesId DEF Inv, ServiceTypeOK, mem, budgets
<1>2. FlagMeansTracked'
  BY DEF Inv, FlagMeansTracked, mem
<1>3. CallsCarry'
  BY RegisterCarriesId DEF Inv, CallsCarry, At, budgets
<1>4. Agreement'
  BY RegisterCarriesId DEF Inv, Agreement, At
<1> QED
  BY <1>1, <1>2, <1>3, <1>4 DEF Inv

(***************************************************************************)
(* The second half of a restart clears both fields and leaves its call at  *)
(* "subscribed".                                                           *)
(***************************************************************************)
LEMMA ResubscribeKeepsInv ==
    ASSUME Inv, NEW t \in Tasks, NEW r \in Calls, r.failed => failures > 0,
           Resubscribe(t, r)
    PROVE  Inv'
<1>1. PICK c \in Conns, depth \in r.depth .. MaxNear :
        current' = c /\ Register(t, [r EXCEPT !.depth = depth], c)
  BY DEF Resubscribe
<1> DEFINE q == [r EXCEPT !.depth = depth]
<1>2. q \in Calls /\ q.failed = r.failed
  BY <1>1, MonitoringAssumption DEF Calls
<1>3. /\ isMonitoring' = FALSE /\ monitoringSubscription' = Null
      /\ UNCHANGED <<up, saved, budgets>>
  BY DEF Resubscribe
<1>4. /\ subs' \subseteq [conn : Conns, id : Nat]
      /\ nextId' \in [Conns -> Nat]
      /\ task' \in [Tasks -> Calls]
      /\ task'[t].pc = "subscribed" /\ task'[t].id \in Nat
      /\ task'[t].failed = r.failed
      /\ \A u \in Tasks \ {t} : task'[u] = task[u]
  BY <1>1, <1>2, RegisterCarriesId DEF Inv
<1>5. ServiceTypeOK'
  BY <1>1, <1>3, <1>4 DEF Inv, ServiceTypeOK, budgets, SubIds
<1>6. FlagMeansTracked'
  BY <1>3 DEF Inv, FlagMeansTracked
<1>7. CallsCarry'
  BY <1>3, <1>4 DEF Inv, CallsCarry, At, budgets
<1>8. Agreement'
  BY <1>4 DEF Agreement, At
<1> QED
  BY <1>5, <1>6, <1>7, <1>8 DEF Inv

(***************************************************************************)
(* The process dies: memory is lost, Redis is not.                         *)
(***************************************************************************)
LEMMA DieKeepsInv ==
    ASSUME Inv, Die, crashes' \in 0 .. MaxCrashes, failures' \in 0 .. MaxFailures
    PROVE  Inv'
<1>1. task' \in [Tasks -> Calls] /\ \A t \in Tasks : task'[t] = Idle
  BY IdleIsCall DEF Die
<1>2. ServiceTypeOK'
  BY <1>1, MonitoringAssumption DEF Inv, ServiceTypeOK, Die, SubIds
<1>3. FlagMeansTracked'
  BY DEF Inv, FlagMeansTracked, Die
<1>4. CallsCarry'
  BY <1>1 DEF CallsCarry, At, Idle
<1>5. Agreement'
  BY DEF Agreement, Die
<1> QED
  BY <1>2, <1>3, <1>4, <1>5 DEF Inv

(***************************************************************************)
(* A selection that throws is counted as a failure.                        *)
(***************************************************************************)
LEMMA NoneHealthyKeepsInv ==
    ASSUME Inv, NEW t \in Tasks, NEW r \in Calls, NoneHealthy(t, r)
    PROVE  Inv'
<1>1. /\ failures' \in 0 .. MaxFailures /\ failures' > 0
      /\ crashes' = crashes
  BY MonitoringAssumption DEF NoneHealthy, Fails, Inv, ServiceTypeOK
<1>2. CASE Die
  BY <1>1, <1>2, DieKeepsInv DEF Inv, ServiceTypeOK
<1>3. CASE /\ isMonitoring' = FALSE /\ monitoringSubscription' = Null
           /\ Finish(t)
           /\ UNCHANGED <<up, current, saved, web3>>
  <2>1. /\ task' \in [Tasks -> Calls] /\ task'[t] = Idle
        /\ \A u \in Tasks \ {t} : task'[u] = task[u]
    BY <1>3, GotoMovesOne, IdleIsCall DEF Inv, Finish
  <2>2. ServiceTypeOK'
    BY <1>1, <1>3, <2>1 DEF Inv, ServiceTypeOK, web3, SubIds
  <2>3. FlagMeansTracked'
    BY <1>3 DEF Inv, FlagMeansTracked
  <2>4. CallsCarry'
    BY <1>1, <2>1 DEF Inv, CallsCarry, At, Idle
  <2>5. Agreement'
    BY <1>1 DEF Agreement
  <2> QED
    BY <2>2, <2>3, <2>4, <2>5 DEF Inv
<1> QED
  BY <1>2, <1>3 DEF NoneHealthy

(***************************************************************************)
(* restartMonitoring, whoever calls it.                                    *)
(***************************************************************************)
LEMMA RestartKeepsInv ==
    ASSUME Inv, NEW t \in Tasks, NEW r \in Calls, ~At(t, "subscribed"),
           r.failed => failures > 0, Restart(t, r)
    PROVE  Inv'
<1>1. CASE Resubscribe(t, r)
  BY <1>1, ResubscribeKeepsInv
<1>2. CASE NoneHealthy(t, r)
  BY <1>2, NoneHealthyKeepsInv
<1>3. CASE /\ subs' = Dispose(current, monitoringSubscription)
           /\ Goto(t, [r EXCEPT !.pc = "removing"])
           /\ UNCHANGED <<up, mem, current, saved, nextId, budgets>>
  <2>1. /\ [r EXCEPT !.pc = "removing"] \in Calls
        /\ [r EXCEPT !.pc = "removing"].pc = "removing"
        /\ [r EXCEPT !.pc = "removing"].failed = r.failed
    BY DEF Calls
  <2>2. subs' \subseteq subs
    BY <1>3 DEF Dispose
  <2> QED
    BY <1>3, <2>1, <2>2, MoveKeepsInv
<1> QED
  BY <1>1, <1>2, <1>3 DEF Restart

(***************************************************************************)
(* The assignments of startMonitoring and the write that follows them.     *)
(***************************************************************************)
LEMMA WriteCounts ==
    ASSUME ServiceTypeOK, NEW state, NEW failed \in BOOLEAN, Write(state, failed)
    PROVE  /\ failures' \in 0 .. MaxFailures /\ crashes' = crashes
           /\ failures' >= failures
           /\ failed => failures' > 0
           /\ ~failed => saved' = state
           /\ saved' \in {saved, state}
BY MonitoringAssumption DEF Write, Fails, ServiceTypeOK, budgets

LEMMA TrackKeepsInv ==
    ASSUME Inv, NEW t \in Tasks, NEW i \in Nat \cup {Undef}, NEW d \in 0 .. MaxNear,
           Track(t, i, d)
    PROVE  Inv'
<1>1. PICK failed \in BOOLEAN :
        /\ Write(MonitoringState(i), failed)
        /\ Goto(t, [task[t] EXCEPT !.pc = "saving", !.depth = d, !.failed = failed])
  BY DEF Track
<1> DEFINE q == [task[t] EXCEPT !.pc = "saving", !.depth = d, !.failed = failed]
<1>2. task[t] \in Calls
  BY DEF Inv, ServiceTypeOK
<1>3. q \in Calls /\ q.pc = "saving" /\ q.failed = failed
  BY <1>2 DEF Calls
<1>4. /\ task' \in [Tasks -> Calls] /\ task'[t] = q
      /\ \A u \in Tasks \ {t} : task'[u] = task[u]
  BY <1>1, <1>3, GotoMovesOne DEF Inv
<1>5. /\ failures' \in 0 .. MaxFailures /\ crashes' = crashes
      /\ failures' >= failures
      /\ failed => failures' > 0
      /\ ~failed => saved' = MonitoringState(i)
      /\ saved' \in {saved, MonitoringState(i)}
  BY <1>1, WriteCounts DEF Inv
<1>6. /\ isMonitoring' = TRUE /\ monitoringSubscription' = i
      /\ UNCHANGED <<up, current, web3>>
  BY DEF Track
<1>7. i \in SubIds /\ i # Null
  BY MonitoringAssumption DEF SubIds
<1>8. MonitoringState(i) \in [isMonitoring : BOOLEAN, subscriptionId : SubIds]
  BY <1>7 DEF MonitoringState
<1>9. ServiceTypeOK'
  BY <1>4, <1>5, <1>6, <1>7, <1>8 DEF Inv, ServiceTypeOK, web3
<1>10. FlagMeansTracked'
  <2>1. isMonitoring' <=> monitoringSubscription' # Null
    BY <1>6, <1>7
  <2>2. CASE saved' = saved
    BY <2>1, <2>2 DEF Inv, FlagMeansTracked
  <2>3. CASE saved' = MonitoringState(i)
    BY <1>7, <2>1, <2>3 DEF FlagMeansTracked, MonitoringState
  <2> QED
    BY <1>5, <2>2, <2>3
<1>11. CallsCarry'
  <2> SUFFICES ASSUME NEW u \in Tasks
               PROVE  /\ task'[u].pc = "subscribed" => task'[u].id \in Nat
                      /\ task'[u].failed => failures' > 0
    BY DEF CallsCarry, At
  <2>1. CASE u = t
    BY <1>3, <1>4, <1>5, <2>1
  <2>2. CASE u # t
    <3>1. failures \in Nat /\ failures' \in Nat
      BY <1>5, MonitoringAssumption DEF Inv, ServiceTypeOK
    <3>2. task'[u] = task[u]
      BY <1>4, <2>2
    <3> QED
      BY <1>5, <3>1, <3>2 DEF Inv, CallsCarry, At
  <2> QED
    BY <2>1, <2>2
<1>12. Agreement'
  <2>1. MemoryState' = MonitoringState(i)
    BY <1>6 DEF MemoryState, MonitoringState
  <2>2. CASE failed
    <3>1. failures' # 0
      BY <1>5, <2>2
    <3> QED
      BY <3>1 DEF Agreement
  <2>3. CASE ~failed
    BY <1>5, <2>1, <2>3 DEF Agreement
  <2> QED
    BY <2>2, <2>3
<1> QED
  BY <1>9, <1>10, <1>11, <1>12 DEF Inv

-----------------------------------------------------------------------------
(***************************************************************************)
(* One lemma per call: its steps keep the invariant.                       *)
(***************************************************************************)
LEMMA TaskIsCall ==
    ASSUME Inv, NEW t \in Tasks
    PROVE  /\ task[t] \in Calls
           /\ task[t].failed => failures > 0
           /\ At(t, "subscribed") => task[t].id \in Nat
           /\ task[t].depth \in 0 .. MaxNear
           /\ current \in Conns
BY DEF Inv, ServiceTypeOK, CallsCarry, Calls

LEMMA FinishKeepsInv ==
    ASSUME Inv, NEW t \in Tasks, ~At(t, "subscribed"), Finish(t),
           UNCHANGED <<up, mem, current, saved, web3, budgets>>
    PROVE  Inv'
<1>1. Idle \in Calls /\ Idle.pc # "subscribed" /\ ~Idle.failed
  BY IdleIsCall
<1>2. subs' \subseteq subs /\ nextId' = nextId
  BY DEF web3
<1> QED
  BY <1>1, <1>2, MoveKeepsInv DEF Finish

LEMMA StartKeepsInv ==
    ASSUME Inv, NEW t \in Tasks, StartMonitoring(t)
    PROVE  Inv'
<1>1. ~At(t, "subscribed")
  BY DEF StartMonitoring, At
<1>2. CASE Finish(t) /\ UNCHANGED <<up, mem, current, saved, web3, budgets>>
  BY <1>1, <1>2, FinishKeepsInv
<1>3. CASE /\ Register(t, task[t], current)
           /\ UNCHANGED <<up, mem, current, saved, budgets>>
  BY <1>3, TaskIsCall, RegisterKeepsInv
<1>4. CASE MaxNear > 0 /\ Restart(t, [task[t] EXCEPT !.depth = 1])
  <2>1. [task[t] EXCEPT !.depth = 1] \in Calls
        /\ [task[t] EXCEPT !.depth = 1].failed = task[t].failed
    BY <1>4, TaskIsCall, MonitoringAssumption DEF Calls
  <2> QED
    BY <1>1, <1>4, <2>1, TaskIsCall, RestartKeepsInv
<1> QED
  BY <1>2, <1>3, <1>4 DEF StartMonitoring

LEMMA RemovedKeepsInv ==
    ASSUME Inv, NEW t \in Tasks, OldListenerRemoved(t)
    PROVE  Inv'
BY TaskIsCall, ResubscribeKeepsInv, NoneHealthyKeepsInv DEF OldListenerRemoved

LEMMA SubscribedKeepsInv ==
    ASSUME Inv, NEW t \in Tasks, Subscribed(t)
    PROVE  Inv'
BY TaskIsCall, TrackKeepsInv DEF Subscribed

LEMMA StateSavedKeepsInv ==
    ASSUME Inv, NEW t \in Tasks, StateSaved(t)
    PROVE  Inv'
<1>1. ~At(t, "subscribed")
  BY DEF StateSaved, At
<1>2. CASE Finish(t) /\ UNCHANGED <<up, mem, current, saved, web3, budgets>>
  BY <1>1, <1>2, FinishKeepsInv
<1>3. CASE task[t].depth > 0 /\ RestartedInstead(t)
  <2>1. task[t].depth - 1 \in 0 .. MaxNear
    BY <1>3, TaskIsCall, MonitoringAssumption
  <2> QED
    BY <1>3, <2>1, TrackKeepsInv DEF RestartedInstead
<1>4. CASE Restart(t, [task[t] EXCEPT !.failed = FALSE])
  <2>1. [task[t] EXCEPT !.failed = FALSE] \in Calls
        /\ ~[task[t] EXCEPT !.failed = FALSE].failed
    BY TaskIsCall DEF Calls
  <2> QED
    BY <1>1, <1>4, <2>1, RestartKeepsInv
<1> QED
  BY <1>2, <1>3, <1>4 DEF StateSaved

LEMMA HandlerKeepsInv ==
    ASSUME Inv, NEW t \in Tasks, Deliver(t) \/ Handled(t)
    PROVE  Inv'
<1> DEFINE r == [Idle EXCEPT !.op = "log", !.pc = "handling"]
<1>1. ~At(t, "subscribed")
  BY DEF Deliver, Handled, At
<1>2. r \in Calls /\ r.pc # "subscribed" /\ ~r.failed
  BY IdleIsCall DEF Calls
<1>3. CASE Restart(t, r)
  BY <1>1, <1>2, <1>3, RestartKeepsInv
<1>4. CASE Goto(t, r) /\ UNCHANGED <<up, mem, current, saved, web3, budgets>>
  <2>1. subs' \subseteq subs /\ nextId' = nextId
    BY <1>4 DEF web3
  <2> QED
    BY <1>1, <1>2, <1>4, <2>1, MoveKeepsInv
<1>5. CASE Finish(t) /\ UNCHANGED <<up, mem, current, saved, web3, budgets>>
  BY <1>1, <1>5, FinishKeepsInv
<1>6. CASE Restart(t, task[t])
  BY <1>1, <1>6, TaskIsCall, RestartKeepsInv
<1> QED
  BY <1>3, <1>4, <1>5, <1>6 DEF Deliver, Handled

LEMMA CallKeepsInv ==
    ASSUME Inv, NEW t \in Tasks, Call(t, "start") \/ StopMonitoring(t)
    PROVE  Inv'
<1>1. PICK r \in Calls : /\ r.pc # "subscribed" /\ ~r.failed
                         /\ Goto(t, r)
  <2>1. CASE Call(t, "start")
    <3>1. [Idle EXCEPT !.op = "start", !.pc = "call"] \in Calls
          /\ [Idle EXCEPT !.op = "start", !.pc = "call"].pc # "subscribed"
          /\ ~[Idle EXCEPT !.op = "start", !.pc = "call"].failed
      BY IdleIsCall DEF Calls
    <3> QED
      BY <2>1, <3>1 DEF Call
  <2>2. CASE StopMonitoring(t)
    <3> DEFINE q == [Idle EXCEPT !.op = "stop", !.pc = "reading", !.id = saved.subscriptionId]
    <3>1. saved.subscriptionId \in SubIds
      BY DEF Inv, ServiceTypeOK
    <3>2. q \in Calls /\ q.pc # "subscribed" /\ ~q.failed
      BY <3>1, IdleIsCall DEF Calls
    <3> QED
      BY <2>2, <3>2 DEF StopMonitoring
  <2> QED
    BY <2>1, <2>2
<1>2. /\ ~At(t, "subscribed")
      /\ UNCHANGED <<up, mem, current, saved, nextId, budgets>> /\ subs' \subseteq subs
  BY DEF Call, StopMonitoring, At, web3
<1> QED
  BY <1>1, <1>2, MoveKeepsInv

(***************************************************************************)
(* stopMonitoring: reading, removing, saving.                              *)
(***************************************************************************)
LEMMA StoredStateReadKeepsInv ==
    ASSUME Inv, NEW t \in Tasks, StoredStateRead(t)
    PROVE  Inv'
<1>1. ~At(t, "subscribed")
  BY DEF StoredStateRead, At
<1>2. CASE Finish(t) /\ UNCHANGED <<up, mem, current, saved, web3, budgets>>
  BY <1>1, <1>2, FinishKeepsInv
<1>3. CASE /\ subs' = Dispose(current, task[t].id)
           /\ Goto(t, [task[t] EXCEPT !.pc = "stopping"])
           /\ UNCHANGED <<up, mem, current, saved, nextId, budgets>>
  <2>1. /\ [task[t] EXCEPT !.pc = "stopping"] \in Calls
        /\ [task[t] EXCEPT !.pc = "stopping"].pc # "subscribed"
        /\ [task[t] EXCEPT !.pc = "stopping"].failed = task[t].failed
    BY TaskIsCall DEF Calls
  <2>2. subs' \subseteq subs
    BY <1>3 DEF Dispose
  <2> QED
    BY <1>1, <1>3, <2>1, <2>2, TaskIsCall, MoveKeepsInv
<1>4. CASE Fails /\ Finish(t) /\ UNCHANGED <<up, mem, current, saved, web3>>
  <2>1. /\ failures' \in 0 .. MaxFailures /\ failures' > 0 /\ crashes' = crashes
    BY <1>4, MonitoringAssumption DEF Fails, Inv, ServiceTypeOK
  <2>2. /\ task' \in [Tasks -> Calls] /\ task'[t] = Idle
        /\ \A u \in Tasks \ {t} : task'[u] = task[u]
    BY <1>4, GotoMovesOne, IdleIsCall DEF Inv, Finish
  <2>3. ServiceTypeOK'
    BY <1>4, <2>1, <2>2 DEF Inv, ServiceTypeOK, web3, mem
  <2>4. FlagMeansTracked'
    BY <1>4 DEF Inv, FlagMeansTracked, mem
  <2>5. CallsCarry'
    BY <2>1, <2>2, IdleIsCall DEF Inv, CallsCarry, At
  <2>6. Agreement'
    BY <2>1 DEF Agreement
  <2> QED
    BY <2>3, <2>4, <2>5, <2>6 DEF Inv
<1> QED
  BY <1>2, <1>3, <1>4 DEF StoredStateRead

LEMMA StopWriteKeepsInv ==
    ASSUME Inv, NEW t \in Tasks, NEW failed \in BOOLEAN, NEW r \in Calls,
           ~At(t, "subscribed"), r.pc # "subscribed",
           Write(NotMonitoring, failed), Goto(t, r),
           r.failed => failures' > 0,
           UNCHANGED <<up, current, web3>>,
           isMonitoring' \in BOOLEAN /\ monitoringSubscription' \in SubIds,
           isMonitoring' <=> monitoringSubscription' # Null,
           failures' = 0 => ~isMonitoring' /\ ~failed
    PROVE  Inv'
<1>1. /\ task' \in [Tasks -> Calls] /\ task'[t] = r
      /\ \A u \in Tasks \ {t} : task'[u] = task[u]
  BY GotoMovesOne DEF Inv
<1>2. /\ failures' \in 0 .. MaxFailures /\ crashes' = crashes
      /\ failures' >= failures
      /\ ~failed => saved' = NotMonitoring
      /\ saved' \in {saved, NotMonitoring}
  BY WriteCounts DEF Inv
<1>3. NotMonitoring \in [isMonitoring : BOOLEAN, subscriptionId : SubIds]
  BY DEF NotMonitoring, SubIds
<1>4. ServiceTypeOK'
  BY <1>1, <1>2, <1>3 DEF Inv, ServiceTypeOK, web3
<1>5. FlagMeansTracked'
  <2>1. CASE saved' = saved
    BY <2>1 DEF Inv, FlagMeansTracked
  <2>2. CASE saved' = NotMonitoring
    BY <2>2 DEF FlagMeansTracked, NotMonitoring
  <2> QED
    BY <1>2, <2>1, <2>2
<1>6. CallsCarry'
  <2> SUFFICES ASSUME NEW u \in Tasks
               PROVE  /\ task'[u].pc = "subscribed" => task'[u].id \in Nat
                      /\ task'[u].failed => failures' > 0
    BY DEF CallsCarry, At
  <2>1. CASE u = t
    BY <1>1, <2>1
  <2>2. CASE u # t
    <3>1. failures \in Nat /\ failures' \in Nat
      BY <1>2, MonitoringAssumption DEF Inv, ServiceTypeOK
    <3>2. task'[u] = task[u]
      BY <1>1, <2>2
    <3> QED
      BY <1>2, <3>1, <3>2 DEF Inv, CallsCarry, At
  <2> QED
    BY <2>1, <2>2
<1>7. Agreement'
  <2> SUFFICES ASSUME failures' = 0 PROVE saved' = MemoryState'
    BY DEF Agreement
  <2>1. isMonitoring' = FALSE /\ monitoringSubscription' = Null /\ saved' = NotMonitoring
    BY <1>2
  <2> QED
    BY <2>1 DEF MemoryState, NotMonitoring
<1> QED
  BY <1>4, <1>5, <1>6, <1>7 DEF Inv

LEMMA ListenerRemovedKeepsInv ==
    ASSUME Inv, NEW t \in Tasks, ListenerRemoved(t)
    PROVE  Inv'
<1>1. ~At(t, "subscribed") /\ UNCHANGED <<up, current, web3>>
  BY DEF ListenerRemoved, At
<1>2. ASSUME NEW failed \in BOOLEAN,
             isMonitoring' = FlagStopped, monitoringSubscription' = Null,
             Write(NotMonitoring, failed),
             Goto(t, [task[t] EXCEPT !.pc = "stopSaving", !.failed = failed])
      PROVE  Inv'
  <2> DEFINE r == [task[t] EXCEPT !.pc = "stopSaving", !.failed = failed]
  <2>1. r \in Calls /\ r.pc # "subscribed" /\ r.failed = failed
    BY TaskIsCall DEF Calls
  <2>2. failed => failures' > 0
    BY <1>2, WriteCounts DEF Inv
  <2>3. r.failed => failures' > 0
    BY <2>1, <2>2
  <2>4. /\ isMonitoring' \in BOOLEAN /\ monitoringSubscription' \in SubIds
        /\ isMonitoring' <=> monitoringSubscription' # Null
    BY <1>2 DEF FlagStopped, SubIds
  <2>5. failures' = 0 => ~isMonitoring' /\ ~failed
    BY <1>2, <2>2 DEF FlagStopped
  <2> HIDE DEF r
  <2> QED
    BY <1>1, <1>2, <2>1, <2>3, <2>4, <2>5, StopWriteKeepsInv DEF r
<1>3. CASE /\ Fails
           /\ saved' \in {saved, NotMonitoring}
           /\ Goto(t, [task[t] EXCEPT !.pc = "stopFailed"])
           /\ UNCHANGED mem
  <2> DEFINE r == [task[t] EXCEPT !.pc = "stopFailed"]
  <2>1. r \in Calls /\ r.pc # "subscribed" /\ r.failed = task[t].failed
    BY TaskIsCall DEF Calls
  <2>2. /\ failures' \in 0 .. MaxFailures /\ failures' > 0 /\ crashes' = crashes
    BY <1>3, MonitoringAssumption DEF Fails, Inv, ServiceTypeOK
  <2>3. /\ task' \in [Tasks -> Calls] /\ task'[t] = r
        /\ \A u \in Tasks \ {t} : task'[u] = task[u]
    BY <1>3, <2>1, GotoMovesOne DEF Inv
  <2>4. ServiceTypeOK'
    <3>1. NotMonitoring \in [isMonitoring : BOOLEAN, subscriptionId : SubIds]
      BY DEF NotMonitoring, SubIds
    <3>2. saved' \in [isMonitoring : BOOLEAN, subscriptionId : SubIds]
      BY <1>3, <3>1 DEF Inv, ServiceTypeOK
    <3> QED
      BY <1>1, <1>3, <2>2, <2>3, <3>2 DEF Inv, ServiceTypeOK, web3, mem
  <2>5. FlagMeansTracked'
    <3>1. isMonitoring' <=> monitoringSubscription' # Null
      BY <1>3 DEF Inv, FlagMeansTracked, mem
    <3>2. saved'.isMonitoring <=> saved'.subscriptionId # Null
      <4>1. CASE saved' = saved
        BY <4>1 DEF Inv, FlagMeansTracked
      <4>2. CASE saved' = NotMonitoring
        BY <4>2 DEF NotMonitoring
      <4> QED
        BY <1>3, <4>1, <4>2
    <3> QED
      BY <3>1, <3>2 DEF FlagMeansTracked
  <2>6. CallsCarry'
    BY <2>1, <2>2, <2>3 DEF Inv, CallsCarry, At
  <2>7. Agreement'
    BY <2>2 DEF Agreement
  <2> QED
    BY <2>4, <2>5, <2>6, <2>7 DEF Inv
<1> QED
  BY <1>2, <1>3 DEF ListenerRemoved

LEMMA StopReturnsKeepsInv ==
    ASSUME Inv, NEW t \in Tasks, StopSaved(t) \/ StopFailed(t)
    PROVE  Inv'
<1>1. ~At(t, "subscribed")
  BY DEF StopSaved, StopFailed, At
<1>2. CASE Finish(t) /\ UNCHANGED <<up, mem, current, saved, web3, budgets>>
  BY <1>1, <1>2, FinishKeepsInv
<1>3. ASSUME NEW failed \in BOOLEAN, task[t].failed, Write(NotMonitoring, failed),
             Goto(t, [task[t] EXCEPT !.pc = "stopFailed"]),
             UNCHANGED <<up, mem, current, web3>>
      PROVE  Inv'
  <2> DEFINE r == [task[t] EXCEPT !.pc = "stopFailed"]
  <2>1. r \in Calls /\ r.pc # "subscribed"
    BY TaskIsCall DEF Calls
  <2>2. failures' > 0
    <3>1. failures > 0 /\ failures \in Nat /\ failures' \in Nat /\ failures' >= failures
      BY <1>3, TaskIsCall, WriteCounts, MonitoringAssumption DEF Inv, ServiceTypeOK
    <3> QED
      BY <3>1
  <2>3. /\ isMonitoring' \in BOOLEAN /\ monitoringSubscription' \in SubIds
        /\ isMonitoring' <=> monitoringSubscription' # Null
    BY <1>3 DEF Inv, ServiceTypeOK, FlagMeansTracked, mem
  <2>4. failures' # 0
    BY <2>2
  <2> QED
    BY <1>1, <1>3, <2>1, <2>2, <2>3, <2>4, StopWriteKeepsInv
<1> QED
  BY <1>2, <1>3 DEF StopSaved, StopFailed

-----------------------------------------------------------------------------
(***************************************************************************)
(* Crashes, boots and switches.                                            *)
(***************************************************************************)
LEMMA CrashKeepsInv ==
    ASSUME Inv, Crash
    PROVE  Inv'
<1>1. crashes' \in 0 .. MaxCrashes /\ failures' \in 0 .. MaxFailures
  BY MonitoringAssumption DEF Crash, Inv, ServiceTypeOK
<1> QED
  BY <1>1, DieKeepsInv DEF Crash

LEMMA BootKeepsInv ==
    ASSUME Inv, NEW t \in Tasks, Boot(t)
    PROVE  Inv'
<1>1. /\ task' \in [Tasks -> Calls]
      /\ task'[t] = task[t] \/ (task'[t].pc = "call" /\ ~task'[t].failed)
      /\ \A u \in Tasks \ {t} : task'[u] = task[u]
  <2>1. CASE UNCHANGED task
    BY <2>1 DEF Inv, ServiceTypeOK
  <2>2. CASE Goto(t, [Idle EXCEPT !.op = "boot", !.pc = "call"])
    <3>1. /\ [Idle EXCEPT !.op = "boot", !.pc = "call"] \in Calls
          /\ [Idle EXCEPT !.op = "boot", !.pc = "call"].pc = "call"
          /\ ~[Idle EXCEPT !.op = "boot", !.pc = "call"].failed
      BY IdleIsCall DEF Calls
    <3> QED
      BY <2>2, <3>1, GotoMovesOne DEF Inv
  <2> QED
    BY <2>1, <2>2 DEF Boot
<1>2. /\ isMonitoring' = saved.isMonitoring
      /\ monitoringSubscription' = saved.subscriptionId
      /\ up' = TRUE
      /\ UNCHANGED <<current, saved, web3, budgets>>
  BY DEF Boot
<1>3. ServiceTypeOK'
  BY <1>1, <1>2 DEF Inv, ServiceTypeOK, web3, budgets
<1>4. FlagMeansTracked'
  BY <1>2 DEF Inv, FlagMeansTracked
<1>5. CallsCarry'
  BY <1>1, <1>2 DEF Inv, CallsCarry, At, budgets
<1>6. Agreement'
  <2>1. saved = [isMonitoring |-> saved.isMonitoring,
                 subscriptionId |-> saved.subscriptionId]
    BY DEF Inv, ServiceTypeOK
  <2> QED
    BY <1>2, <2>1 DEF Agreement, MemoryState
<1> QED
  BY <1>3, <1>4, <1>5, <1>6 DEF Inv

LEMMA SwitchKeepsInv ==
    ASSUME Inv, SwitchConnection
    PROVE  Inv'
BY DEF SwitchConnection, Inv, ServiceTypeOK, FlagMeansTracked, CallsCarry, Agreement,
       MemoryState, At, mem, web3, budgets

(***************************************************************************)
(* The invariant holds in every state.                                     *)
(***************************************************************************)
THEOREM Invariance == Spec => []Inv
<1>1. Init => Inv
  <2> SUFFICES ASSUME Init PROVE Inv
    OBVIOUS
  <2>1. ServiceTypeOK
    <3>1. task \in [Tasks -> Calls]
      BY IdleIsCall DEF Init
    <3>2. NotMonitoring \in [isMonitoring : BOOLEAN, subscriptionId : SubIds]
      BY DEF NotMonitoring, SubIds
    <3>3. Null \in SubIds /\ 0 \in 0 .. MaxCrashes /\ 0 \in 0 .. MaxFailures
      BY MonitoringAssumption DEF SubIds
    <3> QED
      BY <3>1, <3>2, <3>3, MonitoringAssumption DEF Init, ServiceTypeOK
  <2>2. FlagMeansTracked
    BY DEF Init, FlagMeansTracked, NotMonitoring
  <2>3. CallsCarry
    BY IdleIsCall DEF Init, CallsCarry, At
  <2>4. Agreement
    BY DEF Init, Agreement, MemoryState, NotMonitoring
  <2> QED
    BY <2>1, <2>2, <2>3, <2>4 DEF Inv
<1>2. Inv /\ [Next]_vars => Inv'
  <2> SUFFICES ASSUME Inv, [Next]_vars PROVE Inv'
    OBVIOUS
  <2>1. ASSUME NEW t \in Tasks, Call(t, "start") \/ StopMonitoring(t) PROVE Inv'
    BY <2>1, CallKeepsInv
  <2>2. ASSUME NEW t \in Tasks, Deliver(t) \/ Handled(t) PROVE Inv'
    BY <2>2, HandlerKeepsInv
  <2>3. ASSUME NEW t \in Tasks, Step(t) PROVE Inv'
    BY <2>2, <2>3, StartKeepsInv, RemovedKeepsInv, SubscribedKeepsInv, StateSavedKeepsInv,
       StoredStateReadKeepsInv, ListenerRemovedKeepsInv, StopReturnsKeepsInv DEF Step
  <2>4. ASSUME NEW t \in Tasks, Boot(t) PROVE Inv'
    BY <2>4, BootKeepsInv
  <2>5. CASE SwitchConnection
    BY <2>5, SwitchKeepsInv
  <2>6. CASE Crash
    BY <2>6, CrashKeepsInv
  <2>7. CASE UNCHANGED vars
    <3>1. ServiceTypeOK' /\ FlagMeansTracked'
      BY <2>7 DEF vars, mem, web3, budgets, Inv, ServiceTypeOK, FlagMeansTracked
    <3>2. CallsCarry' /\ Agreement'
      BY <2>7 DEF vars, mem, budgets, Inv, CallsCarry, Agreement, MemoryState, At
    <3> QED
      BY <3>1, <3>2 DEF Inv
  <2> QED
    BY <2>1, <2>2, <2>3, <2>4, <2>5, <2>6, <2>7 DEF Next
<1> QED
  BY <1>1, <1>2, PTL DEF Spec

(***************************************************************************)
(* Every state of the service is well typed: in particular what is tracked *)
(* is an id, null or undefined.                                            *)
(***************************************************************************)
THEOREM MonitoringTypeCorrect == Spec => []TypeOK
<1> DEFINE Bounded == calls \in 0 .. MaxCalls
<1>1. Init => Bounded
  BY MonitoringAssumption DEF Init
<1>2. Bounded /\ [Next]_vars => Bounded'
  <2> SUFFICES ASSUME Bounded, [Next]_vars PROVE Bounded'
    OBVIOUS
  <2>1. ASSUME NEW t \in Tasks, Call(t, "start") \/ Deliver(t) PROVE Bounded'
    BY <2>1, MonitoringAssumption DEF Call, Deliver, Begins
  <2>2. CASE UNCHANGED calls
    BY <2>2
  <2> QED
    BY <2>1, <2>2
       DEF Next, Step, StopMonitoring, Boot, SwitchConnection, Crash, vars
<1>3. Inv /\ Bounded => TypeOK
  BY DEF Inv, TypeOK
<1> HIDE DEF Bounded
<1> QED
  BY <1>1, <1>2, <1>3, Invariance, PTL DEF Spec

-----------------------------------------------------------------------------
\* No start has restarted instead and returned undefined.
NothingUndefined == monitoringSubscription # Undef /\ saved.subscriptionId # Undef

\* Where the fields and Redis get their values from, if no restart is nested
LEMMA TrackedComesFrom ==
    ASSUME MaxNear = 0, Inv, [Next]_vars
    PROVE  /\ \/ UNCHANGED mem
              \/ monitoringSubscription' = saved.subscriptionId
              \/ monitoringSubscription' \in Nat \cup {Null}
           /\ saved'.subscriptionId \in Nat \cup {Null} \/ UNCHANGED saved
<1> DEFINE Goal == /\ \/ UNCHANGED mem
                      \/ monitoringSubscription' = saved.subscriptionId
                      \/ monitoringSubscription' \in Nat \cup {Null}
                   /\ saved'.subscriptionId \in Nat \cup {Null} \/ UNCHANGED saved
<1>1. ASSUME NEW t \in Tasks, NEW r, Restart(t, r) PROVE Goal
  BY <1>1 DEF Restart, Resubscribe, NoneHealthy, Die
<1>2. ASSUME NEW t \in Tasks, OldListenerRemoved(t) PROVE Goal
  BY <1>2 DEF OldListenerRemoved, Resubscribe, NoneHealthy, Die
<1>3. ASSUME NEW state, NEW failed, Write(state, failed),
             state.subscriptionId \in Nat \cup {Null}
      PROVE  saved'.subscriptionId \in Nat \cup {Null} \/ UNCHANGED saved
  BY <1>3 DEF Write
<1>4. ASSUME NEW t \in Tasks, Subscribed(t) PROVE Goal
  <2>1. task[t].id \in Nat
    BY <1>4 DEF Inv, CallsCarry, Subscribed
  <2>2. MonitoringState(task[t].id).subscriptionId \in Nat
    BY <2>1 DEF MonitoringState
  <2> QED
    BY <1>3, <1>4, <2>1, <2>2 DEF Subscribed, Track
<1>5. ASSUME NEW t \in Tasks, StateSaved(t) PROVE Goal
  <2>1. ~(task[t].depth > 0)
    BY TaskIsCall
  <2> QED
    BY <1>1, <1>5, <2>1 DEF StateSaved
<1>6. ASSUME NEW t \in Tasks, ListenerRemoved(t) \/ StopSaved(t) PROVE Goal
  <2>1. NotMonitoring.subscriptionId = Null
    BY DEF NotMonitoring
  <2> QED
    BY <1>3, <1>6, <2>1 DEF ListenerRemoved, StopSaved
<1>7. ASSUME NEW t \in Tasks, StartMonitoring(t) \/ Deliver(t) \/ Handled(t) PROVE Goal
  BY <1>1, <1>7 DEF StartMonitoring, Deliver, Handled
<1>8. ASSUME NEW t \in Tasks, Boot(t) PROVE Goal
  BY <1>8 DEF Boot
<1>9. ASSUME Crash PROVE Goal
  BY <1>9 DEF Crash, Die
<1>10. ASSUME NEW t \in Tasks,
             Call(t, "start") \/ StopMonitoring(t) \/ StoredStateRead(t) \/ StopFailed(t)
      PROVE  Goal
  <2>1. UNCHANGED mem /\ UNCHANGED saved
    BY <1>10 DEF Call, StopMonitoring, StoredStateRead, StopFailed
  <2> QED
    BY <2>1
<1>11. ASSUME SwitchConnection \/ UNCHANGED vars PROVE Goal
  <2>1. UNCHANGED mem /\ UNCHANGED saved
    BY <1>11 DEF SwitchConnection, vars
  <2> QED
    BY <2>1
<1> HIDE DEF Goal
<1>12. Goal
  <2>1. ASSUME NEW t \in Tasks, Step(t) PROVE Goal
    BY <1>2, <1>4, <1>5, <1>6, <1>7, <1>10, <2>1 DEF Step
  <2> QED
    BY <1>7, <1>8, <1>9, <1>10, <1>11, <2>1 DEF Next
<1> QED
  BY <1>12 DEF Goal

(***************************************************************************)
(* If no connection is near its limit, the flag says whether an id is      *)
(* tracked, in memory and in Redis, for any number of concurrent calls,    *)
(* failures and crashes.  Inductive is that it says whether anything is;   *)
(* a call about to track its subscription must hold an id, which is what   *)
(* CallsCarry adds; and without nested restarts nothing is undefined.      *)
(***************************************************************************)
THEOREM FlagMatches ==
    ASSUME MaxNear = 0
    PROVE  Spec => []FlagMatchesSubscription
<1>1. Init => NothingUndefined
  BY MonitoringAssumption DEF Init, NothingUndefined, NotMonitoring
<1>2. Inv /\ NothingUndefined /\ [Next]_vars => NothingUndefined'
  BY TrackedComesFrom, MonitoringAssumption DEF NothingUndefined, mem
<1>3. Inv /\ NothingUndefined => FlagMatchesSubscription
  BY MonitoringAssumption
     DEF Inv, ServiceTypeOK, FlagMeansTracked, NothingUndefined, FlagMatchesSubscription, SubIds
<1> QED
  BY <1>1, <1>2, <1>3, Invariance, PTL DEF Spec

(***************************************************************************)
(* At rest, and as long as nothing failed, memory and Redis agree.  It     *)
(* needs Agreement, which says where they may differ in between, and       *)
(* CallsCarry: a call that handles a rejection was counted as a failure.   *)
(***************************************************************************)
THEOREM SavedAgrees == Spec => []SavedAgreesAtRest
<1>1. Inv => SavedAgreesAtRest
  BY DEF Inv, Agreement, SavedAgreesAtRest, MemoryState, Quiet, At
<1> QED
  BY <1>1, Invariance, PTL

-----------------------------------------------------------------------------
(* The conditions of OneTrackedSubscription: one call at a time, nothing   *)
(* near its limit, nothing that fails, and no other code that switches the *)
(* connection.  Crashes remain, and any number of connections.             *)

Calm ==
    /\ \A t, u \in Tasks : t = u
    /\ MaxNear = 0 /\ MaxFailures = 0 /\ ~Switching

\* The callback that is tracked
Tracked ==
    IF isMonitoring THEN {[conn |-> current, id |-> monitoringSubscription]} ELSE {}

\* Between calls the tracked callback is the only one, or a crash has lost it.
Settled ==
    saved = MemoryState /\ (subs = Tracked \/ (crashes > 0 /\ subs = {}))

\* What a call in progress has done so far, at each of its awaits
CalmCall(r) ==
    /\ r.depth = 0 /\ ~r.failed
    /\ \/ r.pc = "call" /\ r.op \in {"start", "boot"} /\ Settled
       \/ r.pc = "reading" /\ r.op = "stop" /\ r.id = saved.subscriptionId /\ Settled
       \/ /\ r.pc \in {"handling", "saving"} /\ (r.pc = "handling" => r.op = "log")
          /\ isMonitoring /\ saved = MemoryState /\ subs = Tracked
       \/ /\ r.pc \in {"removing", "stopping"} /\ (r.pc = "removing" => r.op = "log")
          /\ isMonitoring /\ saved = MemoryState /\ subs = {}
       \/ r.pc = "stopSaving" /\ ~isMonitoring /\ saved = MemoryState /\ subs = {}
       \/ /\ r.pc = "subscribed" /\ r.op \in {"start", "boot", "log"} /\ ~isMonitoring
          /\ subs = {[conn |-> r.conn, id |-> r.id]} /\ r.conn = current
          /\ saved.isMonitoring <=> r.op = "log"

CalmInv ==
    /\ ~up => subs = {} /\ crashes > 0 /\ Quiet
    /\ up /\ Quiet => Settled
    /\ \A t \in Tasks : up /\ ~At(t, "idle") => CalmCall(task[t])

\* What each step is shown to do: to keep CalmInv, and to be a step of the
\* session or none.
CalmStep == CalmInv' /\ (Session!Next \/ UNCHANGED <<SessionState, crashes>>)

\* With one task, what the tasks do is what it does.
LEMMA OneTask ==
    ASSUME Calm, NEW t \in Tasks
    PROVE  /\ Quiet <=> task[t].pc = "idle"
           /\ Stopping <=> task[t].pc = "stopping"
           /\ Replacing <=> task[t].pc = "removing"
           /\ Quiet' <=> task'[t].pc = "idle"
           /\ Stopping' <=> task'[t].pc = "stopping"
           /\ Replacing' <=> task'[t].pc = "removing"
BY DEF Calm, Quiet, Stopping, Replacing, At

\* The step of the one task, to a record that CalmCall describes
LEMMA CalmAfter ==
    ASSUME Calm, NEW t \in Tasks, up', NEW r, task'[t] = r,
           r.pc = "idle" => Settled', r.pc # "idle" => CalmCall(r)'
    PROVE  CalmInv'
<1>1. up' /\ Quiet' => Settled'
  BY OneTask
<1>2. \A u \in Tasks : u = t
  BY DEF Calm
<1>3. \A u \in Tasks : ~At(u, "idle")' => CalmCall(task[u])'
  <2> SUFFICES ASSUME NEW u \in Tasks, ~At(u, "idle")' PROVE CalmCall(task[u])'
    OBVIOUS
  <2>1. task'[u] = r /\ r.pc # "idle"
    BY <1>2 DEF At
  <2>2. CalmCall(r)'
    BY <2>1
  <2> QED
    BY <2>1, <2>2 DEF CalmCall
<1> QED
  BY <1>1, <1>3 DEF CalmInv

\* The session of a state
LEMMA SessionOf ==
    /\ subs # {} /\ saved.isMonitoring => SessionState = "on"
    /\ subs # {} /\ ~saved.isMonitoring => SessionState = "opening"
    /\ subs = {} /\ ~saved.isMonitoring => SessionState = "off"
    /\ subs = {} /\ saved.isMonitoring /\ Stopping => SessionState = "closing"
    /\ subs = {} /\ saved.isMonitoring /\ ~Stopping /\ Replacing => SessionState = "reopening"
    /\ subs = {} /\ saved.isMonitoring /\ ~Stopping /\ ~Replacing => SessionState = "deaf"
<1>1. ASSUME subs # {} /\ saved.isMonitoring PROVE SessionState = "on"
  BY <1>1 DEF SessionState, Reported, Listening
<1>2. ASSUME subs # {} /\ ~saved.isMonitoring PROVE SessionState = "opening"
  BY <1>2 DEF SessionState, Reported, Listening
<1>3. ASSUME subs = {} /\ ~saved.isMonitoring PROVE SessionState = "off"
  BY <1>3 DEF SessionState, Reported, Listening
<1>4. ASSUME subs = {} /\ saved.isMonitoring /\ Stopping PROVE SessionState = "closing"
  BY <1>4 DEF SessionState, Reported, Listening
<1>5. ASSUME subs = {} /\ saved.isMonitoring /\ ~Stopping /\ Replacing PROVE SessionState = "reopening"
  BY <1>5 DEF SessionState, Reported, Listening
<1>6. ASSUME subs = {} /\ saved.isMonitoring /\ ~Stopping /\ ~Replacing PROVE SessionState = "deaf"
  BY <1>6 DEF SessionState, Reported, Listening
<1> QED
  BY <1>1, <1>2, <1>3, <1>4, <1>5, <1>6

LEMMA SessionAfter ==
    /\ subs' # {} /\ saved'.isMonitoring => SessionState' = "on"
    /\ subs' # {} /\ ~saved'.isMonitoring => SessionState' = "opening"
    /\ subs' = {} /\ ~saved'.isMonitoring => SessionState' = "off"
    /\ subs' = {} /\ saved'.isMonitoring /\ Stopping' => SessionState' = "closing"
    /\ subs' = {} /\ saved'.isMonitoring /\ ~Stopping' /\ Replacing' => SessionState' = "reopening"
    /\ subs' = {} /\ saved'.isMonitoring /\ ~Stopping' /\ ~Replacing' => SessionState' = "deaf"
<1>1. ASSUME subs' # {} /\ saved'.isMonitoring PROVE SessionState' = "on"
  BY <1>1 DEF SessionState, Reported, Listening
<1>2. ASSUME subs' # {} /\ ~saved'.isMonitoring PROVE SessionState' = "opening"
  BY <1>2 DEF SessionState, Reported, Listening
<1>3. ASSUME subs' = {} /\ ~saved'.isMonitoring PROVE SessionState' = "off"
  BY <1>3 DEF SessionState, Reported, Listening
<1>4. ASSUME subs' = {} /\ saved'.isMonitoring /\ Stopping' PROVE SessionState' = "closing"
  BY <1>4 DEF SessionState, Reported, Listening
<1>5. ASSUME subs' = {} /\ saved'.isMonitoring /\ ~Stopping' /\ Replacing' PROVE SessionState' = "reopening"
  BY <1>5 DEF SessionState, Reported, Listening
<1>6. ASSUME subs' = {} /\ saved'.isMonitoring /\ ~Stopping' /\ ~Replacing' PROVE SessionState' = "deaf"
  BY <1>6 DEF SessionState, Reported, Listening
<1> QED
  BY <1>1, <1>2, <1>3, <1>4, <1>5, <1>6

\* Nothing fails.
LEMMA NothingFails ==
    ASSUME Calm, Inv
    PROVE  /\ ~Fails
           /\ \A state, failed : Write(state, failed) =>
                saved' = state /\ ~failed /\ UNCHANGED budgets
BY DEF Calm, Inv, ServiceTypeOK, Fails, Write

\* A step that leaves the fields, Redis and the callbacks alone, between awaits
\* of which none is a removal
LEMMA CalmStutter ==
    ASSUME Calm, NEW t \in Tasks, up, task[t].pc \notin {"stopping", "removing"},
           UNCHANGED <<up, mem, current, saved, subs, budgets>>,
           NEW r, task'[t] = r, r.pc \notin {"stopping", "removing"},
           r.pc = "idle" => Settled, r.pc # "idle" => CalmCall(r)
    PROVE  CalmStep
<1>1. UNCHANGED <<isMonitoring, monitoringSubscription, crashes>>
  BY DEF mem, budgets
<1>2. UNCHANGED <<MemoryState, Tracked>>
  BY <1>1 DEF MemoryState, Tracked
<1>3. (Settled => Settled') /\ (CalmCall(r) => CalmCall(r)')
  BY <1>1, <1>2 DEF Settled, CalmCall
<1>4. CalmInv'
  BY <1>3, CalmAfter
<1>5. ~Stopping /\ ~Replacing /\ ~Stopping' /\ ~Replacing'
  BY OneTask
<1>6. SessionState' = SessionState
  BY <1>5, SessionOf, SessionAfter
<1> QED
  BY <1>1, <1>4, <1>6 DEF CalmStep

\* The first half of a restart, from a handler that has its callback
LEMMA CalmRestart ==
    ASSUME Calm, Inv, NEW t \in Tasks, up, NEW r \in Calls, Restart(t, r),
           r.op = "log", r.depth = 0, ~r.failed,
           isMonitoring, saved = MemoryState, subs = Tracked
    PROVE  CalmStep
<1>1. monitoringSubscription # Null
  BY DEF Inv, FlagMeansTracked
<1>2. /\ subs' = Dispose(current, monitoringSubscription)
      /\ Goto(t, [r EXCEPT !.pc = "removing"])
      /\ UNCHANGED <<up, mem, current, saved, nextId, budgets>>
  BY <1>1 DEF Restart
<1>3. subs' = {} /\ subs # {}
  BY <1>2 DEF Dispose, Tracked
<1> DEFINE q == [r EXCEPT !.pc = "removing"]
<1>4. q \in Calls /\ q.pc = "removing" /\ q.op = "log" /\ q.depth = 0 /\ ~q.failed
  BY DEF Calls
<1>5. task'[t] = q
  BY <1>2, <1>4, GotoMovesOne DEF Inv
<1> HIDE DEF q
<1>6. /\ UNCHANGED <<isMonitoring, monitoringSubscription, crashes, saved, MemoryState>> /\ up'
  BY <1>2 DEF mem, budgets, MemoryState
<1>7. CalmCall(q)'
  BY <1>3, <1>4, <1>6 DEF CalmCall
<1>8. CalmInv'
  BY <1>4, <1>5, <1>6, <1>7, CalmAfter
<1>9. saved.isMonitoring
  BY DEF MemoryState
<1>10. SessionState = "on"
  BY <1>3, <1>9, SessionOf
<1>11. SessionState' = "reopening"
  <2>1. ~Stopping' /\ Replacing'
    BY <1>4, <1>5, OneTask
  <2> QED
    BY <1>3, <1>6, <1>9, <2>1, SessionAfter
<1>12. Session!Next
  BY <1>6, <1>10, <1>11 DEF Session!Next, Session!Reopen, Session!Move
<1> QED
  BY <1>8, <1>12 DEF CalmStep

LEMMA CalmFinish ==
    ASSUME Calm, Inv, NEW t \in Tasks, up, task[t].pc \notin {"stopping", "removing"}, Finish(t),
           UNCHANGED <<up, mem, current, saved, web3, budgets>>, Settled
    PROVE  CalmStep
<1>1. task'[t] = Idle /\ Idle.pc = "idle" /\ subs' = subs
  BY GotoMovesOne, IdleIsCall DEF Inv, Finish, web3
<1> QED
  BY <1>1, CalmStutter

\* What CalmInv says of the task that takes a step
LEMMA CalmTask ==
    ASSUME Calm, Inv, CalmInv, NEW t \in Tasks, task[t].pc # "idle"
    PROVE  up /\ CalmCall(task[t]) /\ task[t] \in Calls
BY OneTask DEF CalmInv, At, Inv, ServiceTypeOK

LEMMA CalmCalls ==
    ASSUME Calm, Inv, CalmInv, NEW t \in Tasks, Call(t, "start") \/ StopMonitoring(t)
    PROVE  CalmStep
<1>1. /\ up /\ task[t].pc = "idle" /\ Settled
      /\ UNCHANGED <<up, mem, current, saved, web3, budgets>>
  BY OneTask DEF Call, Begins, StopMonitoring, Serving, At, CalmInv
<1>2. CASE Call(t, "start")
  <2> DEFINE r == [Idle EXCEPT !.op = "start", !.pc = "call"]
  <2>1. r \in Calls /\ r.op = "start" /\ r.pc = "call" /\ r.depth = 0 /\ ~r.failed
    BY IdleIsCall DEF Calls, Idle
  <2>2. task'[t] = r
    BY <1>2, <2>1, GotoMovesOne DEF Call, Inv
  <2> HIDE DEF r
  <2>3. CalmCall(r)
    BY <1>1, <2>1 DEF CalmCall
  <2> QED
    BY <1>1, <2>1, <2>2, <2>3, CalmStutter DEF web3
<1>3. CASE StopMonitoring(t)
  <2> DEFINE r == [Idle EXCEPT !.op = "stop", !.pc = "reading", !.id = saved.subscriptionId]
  <2>1. saved.subscriptionId \in SubIds
    BY DEF Inv, ServiceTypeOK
  <2>2. /\ r \in Calls /\ r.op = "stop" /\ r.pc = "reading" /\ r.depth = 0 /\ ~r.failed
        /\ r.id = saved.subscriptionId
    BY <2>1, IdleIsCall DEF Calls, Idle
  <2>3. task'[t] = r
    BY <1>3, <2>2, GotoMovesOne DEF StopMonitoring, Inv
  <2> HIDE DEF r
  <2>4. CalmCall(r)
    BY <1>1, <2>2 DEF CalmCall
  <2> QED
    BY <1>1, <2>2, <2>3, <2>4, CalmStutter DEF web3
<1> QED
  BY <1>2, <1>3

LEMMA CalmHandler ==
    ASSUME Calm, Inv, CalmInv, NEW t \in Tasks, Deliver(t) \/ Handled(t)
    PROVE  CalmStep
<1> DEFINE r == [Idle EXCEPT !.op = "log", !.pc = "handling"]
<1>1. r \in Calls /\ r.op = "log" /\ r.pc = "handling" /\ r.depth = 0 /\ ~r.failed
  BY IdleIsCall DEF Calls, Idle
<1> HIDE DEF r
<1>2. CASE Deliver(t)
  <2>1. up /\ task[t].pc = "idle" /\ Settled /\ subs # {}
    BY <1>2, OneTask DEF Deliver, Serving, At, CalmInv
  <2>2. isMonitoring /\ saved = MemoryState /\ subs = Tracked
    BY <2>1 DEF Settled, Tracked
  <2>3. CASE Restart(t, r)
    BY <1>1, <2>1, <2>2, <2>3, CalmRestart
  <2>4. CASE Goto(t, r) /\ UNCHANGED <<up, mem, current, saved, web3, budgets>>
    <3>1. task'[t] = r
      BY <1>1, <2>4, GotoMovesOne DEF Inv
    <3>2. CalmCall(r)
      BY <1>1, <2>2 DEF CalmCall
    <3> QED
      BY <1>1, <2>1, <2>4, <3>1, <3>2, CalmStutter DEF web3
  <2> QED
    BY <1>2, <2>3, <2>4 DEF Deliver, r
<1>3. CASE Handled(t)
  <2>1. task[t].pc = "handling"
    BY <1>3 DEF Handled, At
  <2>2. /\ up /\ task[t] \in Calls /\ task[t].op = "log" /\ task[t].depth = 0 /\ ~task[t].failed
        /\ isMonitoring /\ saved = MemoryState /\ subs = Tracked
    BY <2>1, CalmTask DEF CalmCall
  <2>3. CASE Restart(t, task[t])
    BY <2>2, <2>3, CalmRestart
  <2>4. CASE Finish(t) /\ UNCHANGED <<up, mem, current, saved, web3, budgets>>
    BY <2>1, <2>2, <2>4, CalmFinish DEF Settled
  <2> QED
    BY <1>3, <2>3, <2>4 DEF Handled
<1> QED
  BY <1>2, <1>3

\* A callback is registered where there was none, for a start or for the second
\* half of a restart.
LEMMA CalmRegister ==
    ASSUME Calm, Inv, NEW t \in Tasks, up, NEW r \in Calls, NEW c \in Conns,
           Register(t, r, c), current' = c,
           r.depth = 0, ~r.failed, subs = {}, ~isMonitoring',
           UNCHANGED <<up, saved, budgets>>,
           \/ /\ r.op \in {"start", "boot"} /\ ~saved.isMonitoring
           \/ /\ r.op = "log" /\ saved.isMonitoring /\ task[t].pc = "removing"
    PROVE  CalmStep
<1>0. PICK q : q = [r EXCEPT !.pc = "subscribed", !.conn = c, !.id = IdOf(c)]
  OBVIOUS
<1>1. nextId[c] \in Nat
  BY DEF Inv, ServiceTypeOK
<1>2. /\ q \in Calls /\ q.pc = "subscribed" /\ q.conn = c /\ q.id = IdOf(c)
      /\ q.depth = 0 /\ ~q.failed /\ q.op = r.op
  BY <1>1, <1>0 DEF Calls, SubIds, IdOf
<1>3. task'[t] = q /\ subs' = {[conn |-> q.conn, id |-> q.id]}
  <2>1. Goto(t, q)
    BY <1>0 DEF Register
  <2> QED
    BY <1>2, <2>1, GotoMovesOne DEF Register, Inv
<1>4. UNCHANGED crashes /\ up'
  BY DEF budgets
<1>5. CalmCall(q)'
  BY <1>2, <1>3, <1>4 DEF CalmCall
<1>6. CalmInv'
  BY <1>2, <1>3, <1>4, <1>5, CalmAfter
<1>7. ~Stopping' /\ ~Replacing' /\ subs' # {}
  BY <1>2, <1>3, OneTask
<1>8. CASE ~saved.isMonitoring
  <2>1. SessionState = "off" /\ SessionState' = "opening"
    BY <1>7, <1>8, SessionOf, SessionAfter
  <2> QED
    BY <1>4, <1>6, <2>1 DEF CalmStep, Session!Next, Session!Open, Session!Move
<1>9. CASE saved.isMonitoring /\ task[t].pc = "removing"
  <2>1. ~Stopping /\ Replacing
    BY <1>9, OneTask
  <2>2. SessionState = "reopening" /\ SessionState' = "on"
    BY <1>7, <1>9, <2>1, SessionOf, SessionAfter
  <2> QED
    BY <1>4, <1>6, <2>2
       DEF CalmStep, Session!Next, Session!Complete, Session!Reopened, Session!Move
<1> QED
  BY <1>8, <1>9

LEMMA CalmStart ==
    ASSUME Calm, Inv, CalmInv, NEW t \in Tasks, StartMonitoring(t)
    PROVE  CalmStep
<1>1. task[t].pc = "call"
  BY DEF StartMonitoring, At
<1>2. /\ up /\ task[t] \in Calls /\ task[t].op \in {"start", "boot"} /\ Settled
      /\ task[t].depth = 0 /\ ~task[t].failed
  BY <1>1, CalmTask DEF CalmCall
<1>3. CASE Finish(t) /\ UNCHANGED <<up, mem, current, saved, web3, budgets>>
  BY <1>1, <1>2, <1>3, CalmFinish
<1>4. CASE /\ ~isMonitoring /\ Register(t, task[t], current)
           /\ UNCHANGED <<up, mem, current, saved, budgets>>
  <2>1. subs = {} /\ ~saved.isMonitoring /\ ~isMonitoring'
    BY <1>2, <1>4 DEF Settled, Tracked, MemoryState, mem
  <2>2. current \in Conns /\ current' = current
    BY <1>4 DEF Inv, ServiceTypeOK
  <2> QED
    BY <1>2, <1>4, <2>1, <2>2, CalmRegister
<1> QED
  BY <1>3, <1>4 DEF StartMonitoring, Calm

LEMMA CalmRemoved ==
    ASSUME Calm, Inv, CalmInv, NEW t \in Tasks, OldListenerRemoved(t)
    PROVE  CalmStep
<1>1. task[t].pc = "removing"
  BY DEF OldListenerRemoved, At
<1>2. /\ up /\ task[t] \in Calls /\ task[t].op = "log" /\ subs = {}
      /\ task[t].depth = 0 /\ ~task[t].failed
      /\ saved.isMonitoring
  BY <1>1, CalmTask DEF CalmCall, MemoryState
<1>3. Resubscribe(t, task[t])
  BY NothingFails DEF OldListenerRemoved, NoneHealthy
<1>4. PICK c \in Conns, depth \in task[t].depth .. MaxNear :
        current' = c /\ Register(t, [task[t] EXCEPT !.depth = depth], c)
  BY <1>3 DEF Resubscribe
<1> DEFINE r == [task[t] EXCEPT !.depth = depth]
<1>5. depth = 0
  BY <1>2, <1>4 DEF Calm
<1>6. r \in Calls /\ r.depth = 0 /\ ~r.failed /\ r.op = "log"
  BY <1>2, <1>5 DEF Calls, Calm
<1>7. Register(t, r, c) /\ ~isMonitoring' /\ UNCHANGED <<up, saved, budgets>>
  BY <1>3, <1>4 DEF Resubscribe
<1> HIDE DEF r
<1> QED
  BY <1>1, <1>2, <1>4, <1>6, <1>7, CalmRegister

LEMMA CalmSubscribed ==
    ASSUME Calm, Inv, CalmInv, NEW t \in Tasks, Subscribed(t)
    PROVE  CalmStep
<1>1. task[t].pc = "subscribed"
  BY DEF Subscribed, At
<1>2. /\ up /\ task[t] \in Calls /\ task[t].depth = 0
      /\ subs = {[conn |-> task[t].conn, id |-> task[t].id]} /\ task[t].conn = current
  BY <1>1, CalmTask DEF CalmCall
<1>3. PICK failed \in BOOLEAN :
        /\ Write(MonitoringState(task[t].id), failed)
        /\ Goto(t, [task[t] EXCEPT !.pc = "saving", !.depth = task[t].depth, !.failed = failed])
  BY DEF Subscribed, Track
<1>4. ~failed /\ saved' = MonitoringState(task[t].id) /\ UNCHANGED budgets
  BY <1>3, NothingFails
<1>0. PICK q : q = [task[t] EXCEPT !.pc = "saving", !.depth = task[t].depth, !.failed = failed]
  OBVIOUS
<1>5. q \in Calls /\ q.pc = "saving" /\ q.depth = 0 /\ ~q.failed
  BY <1>2, <1>4, <1>0 DEF Calls
<1>6. task'[t] = q
  BY <1>3, <1>5, <1>0, GotoMovesOne DEF Inv
<1>7. /\ isMonitoring' = TRUE /\ monitoringSubscription' = task[t].id
      /\ UNCHANGED <<up, current, subs, crashes>>
  BY <1>4 DEF Subscribed, Track, web3, budgets
<1>8. saved' = MemoryState' /\ subs' = Tracked'
  BY <1>2, <1>4, <1>7 DEF MemoryState, MonitoringState, Tracked
<1>9. CalmCall(q)'
  BY <1>5, <1>7, <1>8 DEF CalmCall
<1>10. CalmInv'
  BY <1>2, <1>5, <1>6, <1>7, <1>9, CalmAfter
<1>11. SessionState' = "on" /\ SessionState \in {"opening", "on"}
  <2>1. saved'.isMonitoring /\ subs # {} /\ subs' # {}
    BY <1>2, <1>4, <1>7 DEF MonitoringState
  <2> QED
    BY <2>1, SessionOf, SessionAfter
<1> QED
  BY <1>7, <1>10, <1>11
     DEF CalmStep, Session!Next, Session!Complete, Session!Opened, Session!Move

LEMMA CalmSaved ==
    ASSUME Calm, Inv, CalmInv, NEW t \in Tasks, StateSaved(t)
    PROVE  CalmStep
<1>1. task[t].pc = "saving"
  BY DEF StateSaved, At
<1>2. up /\ Settled /\ task[t].depth = 0 /\ ~task[t].failed
  BY <1>1, CalmTask DEF CalmCall, Settled
<1>3. Finish(t) /\ UNCHANGED <<up, mem, current, saved, web3, budgets>>
  <2>1. ~(task[t].depth > 0)
    BY <1>2
  <2> QED
    BY <1>2, <2>1, Zenon DEF StateSaved
<1> QED
  BY <1>1, <1>2, <1>3, CalmFinish

\* The stop removes the callback that is tracked, or the one a crash has lost.
LEMMA CalmRead ==
    ASSUME Calm, Inv, CalmInv, NEW t \in Tasks, StoredStateRead(t)
    PROVE  CalmStep
<1>1. task[t].pc = "reading"
  BY DEF StoredStateRead, At
<1>2. /\ up /\ task[t] \in Calls /\ task[t].id = saved.subscriptionId /\ Settled
      /\ task[t].depth = 0 /\ ~task[t].failed
  BY <1>1, CalmTask DEF CalmCall
<1>3. CASE Finish(t) /\ UNCHANGED <<up, mem, current, saved, web3, budgets>>
  BY <1>1, <1>2, <1>3, CalmFinish
<1>4. CASE /\ task[t].id \notin {Null, Undef}
           /\ subs' = Dispose(current, task[t].id)
           /\ Goto(t, [task[t] EXCEPT !.pc = "stopping"])
           /\ UNCHANGED <<up, mem, current, saved, nextId, budgets>>
  <2>0. PICK q : q = [task[t] EXCEPT !.pc = "stopping"]
    OBVIOUS
  <2>1. q \in Calls /\ q.pc = "stopping" /\ q.depth = 0 /\ ~q.failed
    BY <1>2, <2>0 DEF Calls
  <2>2. task'[t] = q
    BY <1>4, <2>1, <2>0, GotoMovesOne DEF Inv
  <2>3. /\ UNCHANGED <<isMonitoring, monitoringSubscription, saved, crashes, MemoryState>> /\ up'
    BY <1>2, <1>4 DEF mem, budgets, MemoryState
  <2>4. saved.isMonitoring /\ isMonitoring /\ saved = MemoryState
        /\ monitoringSubscription = task[t].id
    BY <1>2, <1>4 DEF Inv, FlagMeansTracked, Settled, MemoryState
  <2>5. subs' = {}
    BY <1>2, <1>4, <2>4 DEF Settled, Tracked, Dispose
  <2>6. CalmCall(q)'
    BY <2>1, <2>3, <2>4, <2>5 DEF CalmCall
  <2>7. CalmInv'
    BY <2>1, <2>2, <2>3, <2>6, CalmAfter
  <2>8. SessionState \in {"on", "deaf"}
    <3>1. ~Stopping /\ ~Replacing
      BY <1>1, OneTask
    <3> QED
      BY <2>4, <3>1, SessionOf
  <2>9. SessionState' = "closing"
    <3>1. Stopping'
      BY <2>1, <2>2, OneTask
    <3> QED
      BY <2>3, <2>4, <2>5, <3>1, SessionAfter
  <2> QED
    BY <2>3, <2>7, <2>8, <2>9 DEF CalmStep, Session!Next, Session!Close, Session!Move
<1> QED
  BY <1>3, <1>4, NothingFails DEF StoredStateRead

LEMMA CalmListenerRemoved ==
    ASSUME Calm, Inv, CalmInv, NEW t \in Tasks, ListenerRemoved(t)
    PROVE  CalmStep
<1>1. task[t].pc = "stopping"
  BY DEF ListenerRemoved, At
<1>2. /\ up /\ task[t] \in Calls /\ subs = {} /\ saved.isMonitoring
      /\ task[t].depth = 0 /\ ~task[t].failed
  BY <1>1, CalmTask DEF CalmCall, MemoryState
<1>3. PICK failed \in BOOLEAN :
        /\ Write(NotMonitoring, failed)
        /\ Goto(t, [task[t] EXCEPT !.pc = "stopSaving", !.failed = failed])
  BY NothingFails DEF ListenerRemoved
<1>4. ~failed /\ saved' = NotMonitoring /\ UNCHANGED budgets
  BY <1>3, NothingFails
<1>0. PICK q : q = [task[t] EXCEPT !.pc = "stopSaving", !.failed = failed]
  OBVIOUS
<1>5. q \in Calls /\ q.pc = "stopSaving" /\ q.depth = 0 /\ ~q.failed
  BY <1>2, <1>4, <1>0 DEF Calls
<1>6. task'[t] = q
  BY <1>3, <1>5, <1>0, GotoMovesOne DEF Inv
<1>7. /\ isMonitoring' = FALSE /\ monitoringSubscription' = Null
      /\ UNCHANGED <<up, subs, crashes>>
  BY <1>4, NothingFails DEF ListenerRemoved, FlagStopped, web3, budgets
<1>8. CalmCall(q)'
  BY <1>2, <1>4, <1>5, <1>7 DEF CalmCall, MemoryState, NotMonitoring
<1>9. CalmInv'
  BY <1>2, <1>5, <1>6, <1>7, <1>8, CalmAfter
<1>10. SessionState = "closing" /\ SessionState' = "off"
  <2>1. Stopping
    BY <1>1, OneTask
  <2>2. subs' = {} /\ ~saved'.isMonitoring
    BY <1>2, <1>4, <1>7 DEF NotMonitoring
  <2> QED
    BY <1>2, <2>1, <2>2, SessionOf, SessionAfter
<1> QED
  BY <1>7, <1>9, <1>10
     DEF CalmStep, Session!Next, Session!Complete, Session!Closed, Session!Move

LEMMA CalmStopReturns ==
    ASSUME Calm, Inv, CalmInv, NEW t \in Tasks, StopSaved(t) \/ StopFailed(t)
    PROVE  CalmStep
<1>1. task[t].pc \in {"stopSaving", "stopFailed"}
  BY DEF StopSaved, StopFailed, At
<1>2. task[t].pc = "stopSaving"
  BY <1>1, CalmTask DEF CalmCall
<1>3. up /\ ~task[t].failed /\ Settled
  BY <1>2, CalmTask DEF CalmCall, Settled, Tracked
<1>4. Finish(t) /\ UNCHANGED <<up, mem, current, saved, web3, budgets>>
  BY <1>2, <1>3 DEF StopSaved, StopFailed, At
<1> QED
  BY <1>2, <1>3, <1>4, CalmFinish

LEMMA CalmCrash ==
    ASSUME Calm, Inv, CalmInv, Crash
    PROVE  CalmStep
<1>1. /\ ~up' /\ subs' = {} /\ saved' = saved /\ crashes' = crashes + 1 /\ crashes \in Nat
      /\ \A t \in Tasks : task'[t] = Idle
  BY DEF Crash, Die, Inv, ServiceTypeOK
<1>2. Quiet' /\ ~Stopping' /\ ~Replacing' /\ crashes' > 0
  BY <1>1 DEF Quiet, Stopping, Replacing, At, Idle
<1>3. CalmInv'
  BY <1>1, <1>2 DEF CalmInv
<1>4. SessionState' = IF saved.isMonitoring THEN "deaf" ELSE "off"
  BY <1>1, <1>2, SessionAfter
<1>5. saved.isMonitoring <=> SessionState \notin {"off", "opening"}
  BY SessionOf
<1> QED
  BY <1>1, <1>3, <1>4, <1>5 DEF CalmStep, Session!Next, Session!Die

LEMMA CalmBoot ==
    ASSUME Calm, Inv, CalmInv, NEW t \in Tasks, Boot(t)
    PROVE  CalmStep
<1>1. /\ subs = {} /\ crashes > 0 /\ task[t].pc = "idle"
      /\ UNCHANGED <<saved, subs, crashes>> /\ up'
      /\ isMonitoring' = saved.isMonitoring /\ monitoringSubscription' = saved.subscriptionId
  BY OneTask DEF Boot, CalmInv, web3, budgets
<1>2. saved' = MemoryState'
  BY <1>1 DEF MemoryState, Inv, ServiceTypeOK
<1>3. Settled'
  BY <1>1, <1>2 DEF Settled
<1> DEFINE q == [Idle EXCEPT !.op = "boot", !.pc = "call"]
<1>4. q \in Calls /\ q.op = "boot" /\ q.pc = "call" /\ q.depth = 0 /\ ~q.failed
  BY IdleIsCall DEF Calls, Idle
<1>5. task'[t] = q \/ task'[t] = task[t]
  BY <1>4, GotoMovesOne DEF Boot, Inv
<1> HIDE DEF q
<1>6. CalmInv' /\ task'[t].pc \in {"idle", "call"}
  <2>1. CASE task'[t] = q
    <3>1. CalmCall(q)'
      BY <1>3, <1>4 DEF CalmCall
    <3> QED
      BY <1>1, <1>4, <2>1, <3>1, CalmAfter
  <2>2. CASE task'[t] = task[t]
    <3>1. PICK r : r = task[t]
      OBVIOUS
    <3> QED
      BY <1>1, <1>3, <2>2, <3>1, CalmAfter
  <2> QED
    BY <1>5, <2>1, <2>2
<1>7. ~Stopping /\ ~Replacing /\ ~Stopping' /\ ~Replacing'
  BY <1>1, <1>6, OneTask
<1>8. SessionState' = SessionState
  BY <1>1, <1>7, SessionOf, SessionAfter
<1> QED
  BY <1>1, <1>6, <1>8 DEF CalmStep

LEMMA CalmInit ==
    ASSUME Calm, Init
    PROVE  CalmInv /\ Session!Init
<1>1. /\ up /\ subs = {} /\ ~isMonitoring /\ saved = MemoryState /\ crashes = 0
      /\ \A t \in Tasks : At(t, "idle")
  BY DEF Init, NotMonitoring, MemoryState, Idle, At
<1>2. CalmInv
  BY <1>1 DEF CalmInv, Settled, Tracked
<1>3. SessionState = "off"
  BY <1>1, SessionOf DEF MemoryState
<1> QED
  BY <1>1, <1>2, <1>3 DEF Session!Init

LEMMA CalmNext ==
    ASSUME Calm, Inv, CalmInv, [Next]_vars
    PROVE  CalmStep
<1>1. ASSUME NEW t \in Tasks, Call(t, "start") \/ StopMonitoring(t) PROVE CalmStep
  BY <1>1, CalmCalls
<1>2. ASSUME NEW t \in Tasks, Deliver(t) \/ Handled(t) PROVE CalmStep
  BY <1>2, CalmHandler
<1>3. ASSUME NEW t \in Tasks, Step(t) PROVE CalmStep
  BY <1>2, <1>3, CalmStart, CalmRemoved, CalmSubscribed, CalmSaved, CalmRead,
     CalmListenerRemoved, CalmStopReturns DEF Step
<1>4. ASSUME NEW t \in Tasks, Boot(t) PROVE CalmStep
  BY <1>4, CalmBoot
<1>5. CASE Crash
  BY <1>5, CalmCrash
<1>6. CASE UNCHANGED vars
  <2>1. /\ UNCHANGED <<up, isMonitoring, monitoringSubscription, current, saved, subs, task, crashes>>
    BY <1>6 DEF vars, mem, web3, budgets
  <2>2. CalmInv'
    BY <2>1 DEF CalmInv, Quiet, At, Settled, Tracked, MemoryState, CalmCall
  <2>3. (Stopping' <=> Stopping) /\ (Replacing' <=> Replacing)
    BY <2>1 DEF Stopping, Replacing, At
  <2>4. SessionState' = SessionState
    BY <2>1, <2>3, SessionOf, SessionAfter
  <2> QED
    BY <2>1, <2>2, <2>4 DEF CalmStep
<1> QED
  BY <1>1, <1>2, <1>3, <1>4, <1>5, <1>6 DEF Next, SwitchConnection, Calm

LEMMA CalmHolds ==
    ASSUME Calm
    PROVE  Spec => []CalmInv
<1>1. Init => CalmInv
  BY CalmInit
<1>2. Inv /\ CalmInv /\ [Next]_vars => CalmInv'
  BY CalmNext DEF CalmStep
<1> QED
  BY <1>1, <1>2, Invariance, PTL DEF Spec

(***************************************************************************)
(* One call at a time, nothing near its limit, nothing that fails and no   *)
(* other switches: for any number of connections, crashes and callbacks,   *)
(* the tracked callback is the only one between calls, unless a crash has  *)
(* lost it.  It needs CalmInv, which says where each call in progress has  *)
(* brought the fields, Redis and the callbacks.                            *)
(***************************************************************************)
THEOREM OneIsTracked ==
    ASSUME Calm
    PROVE  Spec => []OneTrackedSubscription
<1>1. CalmInv => OneTrackedSubscription
  BY DEF CalmInv, Settled, Tracked, OneTrackedSubscription
<1> QED
  BY <1>1, CalmHolds, PTL

(***************************************************************************)
(* Under the same conditions every step of the service is a step of the    *)
(* session its caller sees, or none: the safety part of ImplementsSession. *)
(***************************************************************************)
THEOREM ImplementsSessionSafely ==
    ASSUME Calm
    PROVE  Spec => Session!Spec
<1>1. Init => Session!Init
  BY CalmInit
<1>2. Inv /\ CalmInv /\ [Next]_vars => [Session!Next]_<<SessionState, crashes>>
  BY CalmNext DEF CalmStep
<1>3. Spec => []Inv /\ []CalmInv
  BY Invariance, CalmHolds, PTL
<1> QED
  BY <1>1, <1>2, <1>3, PTL DEF Spec, Session!Spec, Session!vars
=============================================================================
