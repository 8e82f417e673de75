----------------------------- MODULE Monitoring -----------------------------
(***************************************************************************)
(* The life of the log subscription: BlockchainService's start, stop,      *)
(* restart and boot, its log handler, and the state it saves in Redis.     *)
(*                                                                         *)
(* A task is one call in progress: an HTTP request, the start-up hook or   *)
(* one invocation of the log handler.  The code between two awaits runs    *)
(* alone, so it is one step; `pc' names the await a task is at.  Whether a *)
(* connection is near its limit or healthy is a choice here: the pool that *)
(* decides it is module ConnectionPool.                                    *)
(***************************************************************************)
EXTENDS Integers, FiniteSetsExt

CONSTANTS
    Tasks,         \* bound: calls in progress at the same time
    Conns,         \* the pooled connections, each a web3.js Connection
    First,         \* the connection BlockchainService's constructor gets
    Null, Undef,   \* JavaScript's null and undefined
    MaxNear,       \* bound: restarts nested by connections near their limit
    Switching,     \* do calls outside this module switch the connection?
    MaxCalls,      \* bound: starts asked for and logs heard
    MaxCrashes,    \* bound: crashes of the process
    MaxFailures    \* bound: failed Redis calls, removals and selections

SubIds == Nat \cup {Null, Undef}

ASSUME MonitoringAssumption ==
    /\ First \in Conns
    /\ Null # Undef /\ Null \notin Nat /\ Undef \notin Nat
    /\ MaxNear \in Nat /\ MaxCalls \in Nat /\ MaxCrashes \in Nat /\ MaxFailures \in Nat
    /\ Switching \in BOOLEAN

VARIABLES
    up,                      \* the process runs
    isMonitoring,
    monitoringSubscription,
    current,                 \* currentConnection
    saved,                   \* Redis, REDIS_MONITORING_KEY
    subs,                    \* callbacks registered by onLogs and not removed
    nextId,                  \* the id each Connection gives next, from 0
    task,                    \* what each task does
    calls,                   \* history: starts asked for and logs heard
    crashes, failures        \* used up so far

mem == <<isMonitoring, monitoringSubscription>>
web3 == <<subs, nextId>>
budgets == <<crashes, failures>>
vars == <<up, mem, current, saved, web3, task, calls, budgets>>

\* A call is a record.  depth: calls of startMonitoring that wait for a nested
\* restart to return; conn, id: the subscription it carries over its await;
\* failed: what it waits for is rejected.
Idle == [op |-> "none", pc |-> "idle", depth |-> 0,
         conn |-> First, id |-> Null, failed |-> FALSE]

\* A missing key is read like this value: it leaves both fields as they were.
NotMonitoring == [isMonitoring |-> FALSE, subscriptionId |-> Null]

Init ==
    /\ up = TRUE
    /\ isMonitoring = FALSE /\ monitoringSubscription = Null
    /\ current = First
    /\ saved = NotMonitoring
    /\ subs = {}
    /\ nextId = [c \in Conns |-> 0]
    /\ task = [t \in Tasks |-> Idle]
    /\ calls = 0 /\ crashes = 0 /\ failures = 0

-----------------------------------------------------------------------------
At(t, pc) == task[t].pc = pc

Goto(t, r) == task' = [task EXCEPT ![t] = r]

Finish(t) == Goto(t, Idle)

Fails == failures < MaxFailures /\ failures' = failures + 1 /\ UNCHANGED crashes

\* Requests and logs are served once onModuleInit is done.
Serving == up /\ \A t \in Tasks : task[t].op # "boot"

\* A call that may subscribe begins.
Begins == Serving /\ calls < MaxCalls /\ calls' = calls + 1

\* Mutant: the listener is never removed.
KeepListener(c, i) == subs

\* removeAccountChangeListener and removeOnLogsListener drop the callback at
\* the call, before they wait for the unsubscription; an id the connection
\* does not know, or undefined, is only warned about.
Dispose(c, i) == subs \ {[conn |-> c, id |-> i]}

\* Mutant: the id of the subscription before.
IdBefore(c) == nextId[c] - 1
IdOf(c) == nextId[c]

\* onLogs registers a callback and returns its id.
Register(t, r, c) ==
    /\ subs' = subs \cup {[conn |-> c, id |-> IdOf(c)]}
    /\ nextId' = [nextId EXCEPT ![c] = @ + 1]
    /\ Goto(t, [r EXCEPT !.pc = "subscribed", !.conn = c, !.id = IdOf(c)])

\* The process dies: every call in progress and every callback with it.
Die ==
    /\ up' = FALSE
    /\ isMonitoring' = FALSE /\ monitoringSubscription' = Null
    /\ current' = First
    /\ subs' = {}
    /\ nextId' = [c \in Conns |-> 0]
    /\ task' = [t \in Tasks |-> Idle]
    /\ UNCHANGED saved

-----------------------------------------------------------------------------
\* Mutant: restartMonitoring does not clear the flag, so startMonitoring
\* returns at once.
FlagNotCleared(t, r) ==
    /\ monitoringSubscription' = Null
    /\ current' \in Conns
    /\ Finish(t)
    /\ UNCHANGED <<up, isMonitoring, saved, web3, budgets>>

(***************************************************************************)
(* The rest of restartMonitoring once the old listener is gone: clear the  *)
(* state, select a connection, and startMonitoring on it.  A connection    *)
(* near its limit makes monitorProgram restart again, with nothing to      *)
(* remove and so no await in between: that only adds to the depth.         *)
(***************************************************************************)
Resubscribe(t, r) ==
    /\ isMonitoring' = FALSE /\ monitoringSubscription' = Null
    /\ \E c \in Conns, depth \in r.depth .. MaxNear :
         /\ current' = c
         /\ Register(t, [r EXCEPT !.depth = depth], c)
    /\ UNCHANGED <<up, saved, budgets>>

(***************************************************************************)
(* 'No healthy connections available'.  The catch blocks on the way out    *)
(* call restartMonitoring again, which throws again at once: POST start    *)
(* answers 500, and in the log handler the rejection is unhandled and ends *)
(* the process.  (A task at "subscribed" would give those retries a        *)
(* listener to remove; that coincidence is left out.)                      *)
(***************************************************************************)
NoneHealthy(t, r) ==
    /\ \A u \in Tasks \ {t} : ~At(u, "subscribed")
    /\ Fails
    /\ \/ /\ r.op = "log"
          /\ Die
       \/ /\ r.op # "log"
          /\ isMonitoring' = FALSE /\ monitoringSubscription' = Null
          /\ Finish(t)
          /\ UNCHANGED <<up, current, saved, web3>>

\* restartMonitoring, called by t's call r.  The removal's failure is ignored.
Restart(t, r) ==
    \/ /\ monitoringSubscription # Null
       /\ subs' = Dispose(current, monitoringSubscription)
       /\ Goto(t, [r EXCEPT !.pc = "removing"])
       /\ UNCHANGED <<up, mem, current, saved, nextId, budgets>>
    \/ /\ monitoringSubscription = Null
       /\ Resubscribe(t, r) \/ NoneHealthy(t, r)

OldListenerRemoved(t) ==
    /\ At(t, "removing")
    /\ Resubscribe(t, task[t]) \/ NoneHealthy(t, task[t])

-----------------------------------------------------------------------------
(* startMonitoring                                                         *)

Call(t, op) ==
    /\ Begins /\ At(t, "idle")
    /\ Goto(t, [Idle EXCEPT !.op = op, !.pc = "call"])
    /\ UNCHANGED <<up, mem, current, saved, web3, budgets>>

StartMonitoring(t) ==
    /\ At(t, "call")
    /\ \/ /\ isMonitoring
          /\ Finish(t)
          /\ UNCHANGED <<up, mem, current, saved, web3, budgets>>
       \/ /\ ~isMonitoring
          /\ Register(t, task[t], current)
          /\ UNCHANGED <<up, mem, current, saved, budgets>>
       \/ /\ ~isMonitoring /\ MaxNear > 0  \* current is near its limit
          /\ Restart(t, [task[t] EXCEPT !.depth = 1])

\* Mutant: the state is saved before the fields are assigned.
SavesOldState(i) ==
    [isMonitoring |-> isMonitoring, subscriptionId |-> monitoringSubscription]
MonitoringState(i) == [isMonitoring |-> TRUE, subscriptionId |-> i]

\* A write takes effect at the call (one Redis client, in order); a failed
\* one may have taken effect.
Write(state, failed) ==
    \/ /\ saved' = state /\ ~failed
       /\ UNCHANGED budgets
    \/ /\ saved' \in {saved, state} /\ failed
       /\ Fails

\* The assignment of monitorProgram's result, and updateMonitoringState.
Track(t, i, depth) ==
    /\ isMonitoring' = TRUE /\ monitoringSubscription' = i
    /\ \E failed \in BOOLEAN :
         /\ Write(MonitoringState(i), failed)
         /\ Goto(t, [task[t] EXCEPT !.pc = "saving", !.depth = depth, !.failed = failed])
    /\ UNCHANGED <<up, current, web3>>

Subscribed(t) ==
    /\ At(t, "subscribed")
    /\ Track(t, task[t].id, task[t].depth)

\* Mutant: monitorProgram goes on to onLogs when its restart has returned.
SubscribesToo(t) ==
    /\ Register(t, [task[t] EXCEPT !.depth = @ - 1], current)
    /\ UNCHANGED <<up, mem, current, saved, budgets>>

\* monitorProgram returns undefined to the startMonitoring that waits for it.
RestartedInstead(t) == Track(t, Undef, task[t].depth - 1)

\* updateMonitoringState has returned; so does a restart that waited for it.
StateSaved(t) ==
    /\ At(t, "saving")
    /\ \/ /\ ~task[t].failed /\ task[t].depth = 0
          /\ Finish(t)
          /\ UNCHANGED <<up, mem, current, saved, web3, budgets>>
       \/ /\ ~task[t].failed /\ task[t].depth > 0
          /\ RestartedInstead(t)
       \/ /\ task[t].failed
          /\ Restart(t, [task[t] EXCEPT !.failed = FALSE])

-----------------------------------------------------------------------------
(* The callback given to onLogs.  It never asks which subscription called. *)

\* onLogs returned this one to a task that has not run since: the server has
\* not even been asked for it.
JustRegistered(s) ==
    \E t \in Tasks : At(t, "subscribed") /\ s = [conn |-> task[t].conn, id |-> task[t].id]

\* logs.err restarts at once; otherwise the events are stored, in awaits.
Deliver(t) ==
    LET r == [Idle EXCEPT !.op = "log", !.pc = "handling"] IN
    /\ Begins /\ At(t, "idle")
    /\ \E s \in subs : ~JustRegistered(s)
    /\ \/ Restart(t, r)
       \/ /\ Goto(t, r)
          /\ UNCHANGED <<up, mem, current, saved, web3, budgets>>

\* The handler is done, or restarts: near its limit, or after an error.
Handled(t) ==
    /\ At(t, "handling")
    /\ \/ /\ Finish(t)
          /\ UNCHANGED <<up, mem, current, saved, web3, budgets>>
       \/ Restart(t, task[t])

-----------------------------------------------------------------------------
(* stopMonitoring                                                          *)

StopMonitoring(t) ==
    /\ Serving /\ At(t, "idle")
    /\ Goto(t, [Idle EXCEPT !.op = "stop", !.pc = "reading", !.id = saved.subscriptionId])
    /\ UNCHANGED <<up, mem, current, saved, web3, calls, budgets>>

StoredStateRead(t) ==
    /\ At(t, "reading")
    /\ \/ /\ task[t].id \in {Null, Undef}
          /\ Finish(t)
          /\ UNCHANGED <<up, mem, current, saved, web3, budgets>>
       \/ /\ task[t].id \notin {Null, Undef}
          /\ subs' = Dispose(current, task[t].id)
          /\ Goto(t, [task[t] EXCEPT !.pc = "stopping"])
          /\ UNCHANGED <<up, mem, current, saved, nextId, budgets>>
       \/ /\ Fails  \* the read
          /\ Finish(t)
          /\ UNCHANGED <<up, mem, current, saved, web3>>

\* Mutant: the flag is not cleared.
FlagAsItWas == isMonitoring
FlagStopped == FALSE

\* The listener is removed; or that failed, and only Redis is told, which may
\* fail in turn (bound: the two count as one).
ListenerRemoved(t) ==
    /\ At(t, "stopping")
    /\ \/ /\ isMonitoring' = FlagStopped /\ monitoringSubscription' = Null
          /\ \E failed \in BOOLEAN :
               /\ Write(NotMonitoring, failed)
               /\ Goto(t, [task[t] EXCEPT !.pc = "stopSaving", !.failed = failed])
       \/ /\ Fails
          /\ saved' \in {saved, NotMonitoring}
          /\ Goto(t, [task[t] EXCEPT !.pc = "stopFailed"])
          /\ UNCHANGED mem
    /\ UNCHANGED <<up, current, web3>>

\* stopMonitoring returns true, or its catch block writes once more.
StopSaved(t) ==
    /\ At(t, "stopSaving")
    /\ \/ /\ ~task[t].failed
          /\ Finish(t)
          /\ UNCHANGED <<saved, budgets>>
       \/ /\ task[t].failed
          /\ \E failed \in BOOLEAN : Write(NotMonitoring, failed)
          /\ Goto(t, [task[t] EXCEPT !.pc = "stopFailed"])
    /\ UNCHANGED <<up, mem, current, web3>>

\* stopMonitoring returns false, or throws.
StopFailed(t) ==
    /\ At(t, "stopFailed")
    /\ Finish(t)
    /\ UNCHANGED <<up, mem, current, saved, web3, budgets>>

-----------------------------------------------------------------------------
\* processTransaction and the guarded RPC calls switch the connection too.
SwitchConnection ==
    /\ Switching /\ Serving
    /\ current' \in Conns \ {current}
    /\ UNCHANGED <<up, mem, saved, web3, task, calls, budgets>>

Crash ==
    /\ up /\ crashes < MaxCrashes
    /\ crashes' = crashes + 1
    /\ Die
    /\ UNCHANGED <<calls, failures>>

\* 0 is an id, and it is falsy.
Lost(i) == i \in {Null, Undef, 0}

\* A new process: syncMonitoringState, which may call startMonitoring.
Boot(t) ==
    /\ ~up /\ up' = TRUE
    /\ isMonitoring' = saved.isMonitoring
    /\ monitoringSubscription' = saved.subscriptionId
    /\ \/ /\ saved.isMonitoring /\ Lost(saved.subscriptionId)
          /\ Goto(t, [Idle EXCEPT !.op = "boot", !.pc = "call"])
       \/ /\ ~(saved.isMonitoring /\ Lost(saved.subscriptionId))
          /\ UNCHANGED task
    /\ UNCHANGED <<current, saved, web3, calls, budgets>>

Step(t) ==
    /\ \/ StartMonitoring(t) \/ OldListenerRemoved(t) \/ Subscribed(t) \/ StateSaved(t)
       \/ Handled(t) \/ StoredStateRead(t) \/ ListenerRemoved(t) \/ StopSaved(t) \/ StopFailed(t)
    /\ UNCHANGED calls

Next ==
    \/ \E t \in Tasks : \/ Call(t, "start") \/ StopMonitoring(t) \/ Deliver(t)
                        \/ Step(t) \/ Boot(t)
    \/ SwitchConnection
    \/ Crash

Spec == Init /\ [][Next]_vars

\* What a call waits for comes, as an answer or as an error.
FairSpec == Spec /\ \A t \in Tasks : WF_vars(Step(t))

-----------------------------------------------------------------------------
Calls ==
    [op : {"none", "start", "stop", "log", "boot"},
     pc : {"idle", "call", "removing", "subscribed", "saving", "handling",
           "reading", "stopping", "stopSaving", "stopFailed"},
     depth : 0 .. MaxNear, conn : Conns, id : SubIds, failed : BOOLEAN]

ServiceTypeOK ==
    /\ up \in BOOLEAN
    /\ isMonitoring \in BOOLEAN /\ monitoringSubscription \in SubIds
    /\ current \in Conns
    /\ saved \in [isMonitoring : BOOLEAN, subscriptionId : SubIds]
    /\ subs \subseteq [conn : Conns, id : Nat]
    /\ nextId \in [Conns -> Nat]
    /\ task \in [Tasks -> Calls]
    /\ crashes \in 0 .. MaxCrashes /\ failures \in 0 .. MaxFailures

TypeOK == ServiceTypeOK /\ calls \in 0 .. MaxCalls

Quiet == \A t \in Tasks : At(t, "idle")

(***************************************************************************)
(* The flag says whether there is a listener to remove, in memory and in   *)
(* Redis, however starts, stops, restarts, failures and crashes            *)
(* interleave: while POST start is refused because monitoring is on, the   *)
(* service tracks an id, and while GET status reports monitoring, POST     *)
(* stop finds one.  It takes connections that are never near their limit   *)
(* (MaxNear = 0): RestartedInstead leaves undefined in both, so that start *)
(* is refused and stop finds nothing.                                      *)
(***************************************************************************)
FlagMatchesSubscription ==
    /\ isMonitoring <=> monitoringSubscription \in Nat
    /\ saved.isMonitoring <=> saved.subscriptionId \in Nat

(***************************************************************************)
(* GET status and POST stop read Redis, POST start reads the field.  When  *)
(* no call is in progress, and no Redis call, removal or selection has     *)
(* failed, the two agree, whatever the calls that interleaved before.      *)
(***************************************************************************)
SavedAgreesAtRest ==
    up /\ Quiet /\ failures = 0 =>
        saved = [isMonitoring |-> isMonitoring, subscriptionId |-> monitoringSubscription]

(***************************************************************************)
(* With one call at a time, no connection near its limit and none switched *)
(* by other code, the callback the service tracks is the only one there    *)
(* is: restarts leak none, and stop leaves none.  Only a crash loses the   *)
(* one that is tracked.                                                    *)
(***************************************************************************)
OneTrackedSubscription ==
    up /\ Quiet =>
        \/ subs = IF isMonitoring THEN {[conn |-> current, id |-> monitoringSubscription]}
                                 ELSE {}
        \/ crashes > 0 /\ subs = {}

(***************************************************************************)
(* A subscription has a cause: this process has asked its connections for  *)
(* no more of them than there were starts, logs, and failures or deaths to *)
(* recover from.  Restarts that are nested in starts, and starts in        *)
(* restarts, add none by themselves; when Redis keeps rejecting, each      *)
(* round takes a rejection.                                                *)
(***************************************************************************)
SubscriptionsHaveCauses ==
    MapThenSumSet(LAMBDA c : nextId[c], Conns) <= calls + failures + crashes

(***************************************************************************)
(* A restart that has removed the old listener comes to report monitoring  *)
(* with a callback registered, whatever starts and restarts race with it.  *)
(* A stop may prevent it, and so may a failure or the end of the process.  *)
(***************************************************************************)
Excused == failures > 0 \/ crashes > 0 \/ \E t \in Tasks : task[t].op = "stop"

RestartResumes ==
    \A t \in Tasks : At(t, "removing") ~> (isMonitoring /\ subs # {}) \/ Excused

-----------------------------------------------------------------------------
\* What GET status reports, and whether a callback can hear a log.
Reported == saved.isMonitoring
Listening == subs # {}

Stopping == \E t \in Tasks : At(t, "stopping")
Replacing == \E t \in Tasks : At(t, "removing")

SessionState ==
    CASE ~Reported /\ ~Listening -> "off"
      [] ~Reported /\ Listening -> "opening"
      [] Reported /\ Listening -> "on"
      [] Reported /\ ~Listening /\ Stopping -> "closing"
      [] Reported /\ ~Listening /\ ~Stopping /\ Replacing -> "reopening"
      [] OTHER -> "deaf"

Session == INSTANCE MonitorSession WITH session <- SessionState, deaths <- crashes

(***************************************************************************)
(* Under the conditions of OneTrackedSubscription the service implements   *)
(* the session: from start to stop something listens, except while a log   *)
(* handler replaces the listener, and a crash leaves the session deaf      *)
(* until it is stopped.                                                    *)
(***************************************************************************)
ImplementsSession == Session!FairSpec

-----------------------------------------------------------------------------
\* What the source says of the service and the code does not do.

(***************************************************************************)
(* 'Monitoring stopped': once POST stop has succeeded no callback is left. *)
(***************************************************************************)
StopRemovesListener ==
    [][\A t \in Tasks : At(t, "stopSaving") /\ task'[t] = Idle => subs' = {}]_vars
=============================================================================
