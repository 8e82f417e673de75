--------------------------- MODULE TokenMonitoring ---------------------------
(***************************************************************************)
(* TokenMonitoringService and its processor: a token is checked at every   *)
(* interval until it meets the entry conditions, and from then on until it *)
(* meets an exit condition, by repeatable jobs of a Bull queue.            *)
(*                                                                         *)
(* Bull aligns repeatable jobs with the interval and identifies them by    *)
(* the name of the process and the interval: there is one key and at most  *)
(* one job to come per process, whatever the token.  A job is succeeded by *)
(* its next run when a worker takes it.  Slack's notify swallows its       *)
(* errors; its wait is part of the await before it.                        *)
(***************************************************************************)
EXTENDS TokenSignals, Sequences

CONSTANTS
    Tokens,
    INTERVAL, DURATION,   \* MONITORING_INTERVAL, *_MONITORING_DURATION, in ticks
    Workers,              \* what Bull runs at the same time
    Metrics               \* what getTokenMetrics and trade_events may say

Processes == {"initial", "position"}

\* The options of both repeatable jobs
LIMIT == DURATION \div INTERVAL

Ratios == [n : Nat, d : Nat]

ASSUME MonitoringAssumption ==
    /\ INTERVAL \in Nat \ {0} /\ DURATION \in Nat /\ LIMIT > 0
    /\ Metrics \subseteq [buys : Nat, sells : Nat, buyVolume : Nat, sellVolume : Nat,
                          volumeCents : Nat, marketCap : Ratios, age : Nat, topHolders : Nat,
                          totalHolders : Nat, price : Ratios, devHolding : Ratios, sellImpact : Nat]

\* The data of a job; a job of the initial process has no entry price.
EntryPrices == {StoredPrice(m.price) : m \in Metrics} \cup {Zero}
Jobs == [process : Processes, mint : Tokens, age : 0 .. DURATION,
         entryPrice : EntryPrices, count : 1 .. LIMIT]
NoJob == [process |-> "none"]

\* What a handler keeps of its job
Kept(j) == [process |-> j.process, mint |-> j.mint, entryPrice |-> j.entryPrice]

VARIABLES
    phase,             \* ticks since the last multiple of the interval
    keys, next, wait,  \* the queue: repeatable keys, jobs to come, jobs that are due
    at, job,           \* the await a worker is at, and its job
    adds, checks,      \* per process and token: jobs added, checks begun
    ended, crowded     \* removals decided; chains that another one ran into

queue == <<keys, next, wait>>
history == <<adds, checks, ended, crowded>>
vars == <<phase, queue, at, job, history>>

Init ==
    /\ phase = 0
    /\ keys = {} /\ next = [p \in Processes |-> NoJob] /\ wait = <<>>
    /\ at = [w \in Workers |-> "idle"] /\ job = [w \in Workers |-> NoJob]
    /\ adds = [p \in Processes |-> [t \in Tokens |-> 0]]
    /\ checks = [p \in Processes |-> [t \in Tokens |-> 0]]
    /\ ended = {} /\ crowded = {}

-----------------------------------------------------------------------------
\* A worker that may still remove the key of its process
Deciding(w) == at[w] \in {"entry", "found", "expired", "exit", "close"}

\* Process p has a job to come or due, or one that may still remove its key.
Pending(p) ==
    \/ next[p] # NoJob
    \/ \E i \in DOMAIN wait : wait[i].process = p
    \/ \E w \in Workers : Deciding(w) /\ job[w].process = p

\* queue.add: the key is written; a job with the same key and time exists already,
\* or the new one is put there.
Add(j) ==
    /\ keys' = keys \cup {j.process}
    /\ next' = IF next[j.process] = NoJob THEN [next EXCEPT ![j.process] = j] ELSE next
    /\ adds' = [adds EXCEPT ![j.process][j.mint] = @ + 1]
    /\ crowded' = IF Pending(j.process) THEN crowded \cup {j.process} ELSE crowded
    /\ UNCHANGED <<wait, checks, ended>>

\* removeRepeatableByKey
RemoveRepeatable(p) ==
    /\ keys' = keys \ {p}
    /\ next' = IF p \in keys THEN [next EXCEPT ![p] = NoJob] ELSE next
    /\ UNCHANGED wait

Goto(w, l) == at' = [at EXCEPT ![w] = l] /\ UNCHANGED job
Return(w) ==
    /\ at' = [at EXCEPT ![w] = "idle"]
    /\ job' = [job EXCEPT ![w] = NoJob]

\* startInitialMonitoring (bound: once per token)
StartInitialMonitoring(t) ==
    /\ adds["initial"][t] = 0
    /\ Add([process |-> "initial", mint |-> t, age |-> 0, entryPrice |-> Zero, count |-> 1])
    /\ UNCHANGED <<phase, at, job>>

\* Mutant: one run too many.
WithinOneMore(n) == n <= LIMIT + 1
WithinLimit(n) == n <= LIMIT

\* Mutant: the runs are not counted.
CountAsBefore(n) == n
NextCount(n) == n + 1

Repeats(j) ==
    WithinLimit(NextCount(j.count)) /\ j.process \in keys /\ next[j.process] = NoJob

\* The first decision of the handlers
IsExpired(j) == j.age >= DURATION

Handler(j) ==
    IF j.process = "initial" THEN IF IsExpired(j) THEN "expired" ELSE "entry"
    ELSE IF IsExpired(j) THEN "close" ELSE "exit"

\* Mutant: a job stays in the queue when a worker takes it.
StillWaiting(q) == q
StillToTake(q) == Tail(q)

\* A worker takes the job that has waited longest; Bull schedules its next run.
Take(w) ==
    /\ at[w] = "idle" /\ wait # <<>>
    /\ LET j == Head(wait) IN
       /\ next' = IF Repeats(j)
                  THEN [next EXCEPT ![j.process] = [j EXCEPT !.count = NextCount(@)]] ELSE next
       /\ at' = [at EXCEPT ![w] = Handler(j)]
       /\ job' = [job EXCEPT ![w] = Kept(j)]
       /\ checks' = IF IsExpired(j) THEN checks ELSE [checks EXCEPT ![j.process][j.mint] = @ + 1]
       /\ ended' = IF IsExpired(j) THEN ended \cup {<<j.process, j.mint>>} ELSE ended
    /\ wait' = StillToTake(wait)
    /\ UNCHANGED <<phase, keys, adds, crowded>>

-----------------------------------------------------------------------------
\* Mutant: the job is removed whatever the check says.
RemovedAnyway(met) == "found"
AfterEntryCheck(met) == IF met THEN "found" ELSE "idle"

Decide(w, met) == ended' = IF met THEN ended \cup {<<job[w].process, job[w].mint>>} ELSE ended

\* checkEntryConditions
CheckEntryConditions(w) ==
    /\ at[w] = "entry"
    /\ \E m \in Metrics :
         /\ Decide(w, EntryConditions(m))
         /\ IF AfterEntryCheck(EntryConditions(m)) = "idle" THEN Return(w) ELSE Goto(w, "found")
    /\ UNCHANGED <<phase, queue, adds, checks, crowded>>

\* The key goes first, when the conditions are met or the time is over.
RemoveInitial(w) ==
    /\ RemoveRepeatable("initial")
    /\ \/ at[w] = "found" /\ Goto(w, "start")
       \/ at[w] = "expired" /\ Return(w)
    /\ UNCHANGED <<phase, history>>

\* startPositionMonitoring: the metrics are asked once more, for the entry price.
StartPositionMonitoring(w) ==
    /\ at[w] = "start"
    /\ \E m \in Metrics :
         Add([process |-> "position", mint |-> job[w].mint, age |-> 0,
              entryPrice |-> StoredPrice(m.price), count |-> 1])
    /\ Return(w)
    /\ UNCHANGED phase

\* checkExitConditions; notify comes before the removal and never throws.
CheckExitConditions(w) ==
    /\ at[w] = "exit"
    /\ \E m \in Metrics :
         LET met == ExitConditions(m, job[w].entryPrice) IN
         /\ Decide(w, met)
         /\ IF met THEN Goto(w, "close") ELSE Return(w)
    /\ UNCHANGED <<phase, queue, adds, checks, crowded>>

RemovePosition(w) ==
    /\ at[w] = "close"
    /\ RemoveRepeatable("position")
    /\ Return(w)
    /\ UNCHANGED <<phase, history>>

\* The metrics, the database or Redis fail: the job is marked failed, no more.
JobFails(w) ==
    /\ at[w] \in {"entry", "found", "expired", "start", "exit", "close"}
    /\ Return(w)
    /\ UNCHANGED <<phase, queue, history>>

Step(w) ==
    \/ Take(w) \/ CheckEntryConditions(w) \/ RemoveInitial(w) \/ StartPositionMonitoring(w)
    \/ CheckExitConditions(w) \/ RemovePosition(w) \/ JobFails(w)

-----------------------------------------------------------------------------
Older(j) == IF j = NoJob \/ j.age = DURATION THEN j ELSE [j EXCEPT !.age = @ + 1]

\* The jobs to come, in either order.
Due == LET due(p) == IF next[p] = NoJob THEN <<>> ELSE <<Older(next[p])>> IN
       {due("initial") \o due("position"), due("position") \o due("initial")}

\* The clock; at a multiple of the interval the jobs to come are due.
Tick ==
    LET older == [i \in DOMAIN wait |-> Older(wait[i])] IN
    /\ phase' = (phase + 1) % INTERVAL
    /\ IF phase' = 0
       THEN /\ \E due \in Due : wait' = older \o due
            /\ next' = [p \in Processes |-> NoJob]
       ELSE /\ wait' = older
            /\ next' = [p \in Processes |-> Older(next[p])]
    /\ UNCHANGED <<keys, at, job, history>>

Next ==
    \/ \E t \in Tokens : StartInitialMonitoring(t)
    \/ \E w \in Workers : Step(w)
    \/ Tick

Spec == Init /\ [][Next]_vars

\* Time passes, workers take jobs, and every call is answered or rejected.
FairSpec == Spec /\ WF_vars(Tick) /\ \A w \in Workers : WF_vars(Step(w))

-----------------------------------------------------------------------------
TypeOK ==
    /\ phase \in 0 .. INTERVAL - 1
    /\ keys \subseteq Processes
    /\ next \in [Processes -> Jobs \cup {NoJob}]
    /\ wait \in Seq(Jobs)
    /\ at \in [Workers -> {"idle", "entry", "found", "expired", "start", "exit", "close"}]
    /\ job \in [Workers -> {Kept(j) : j \in Jobs} \cup {NoJob}]
    /\ adds \in [Processes -> [Tokens -> Nat]]
    /\ checks \in [Processes -> [Tokens -> Nat]]
    /\ ended \subseteq Processes \X Tokens
    /\ crowded \subseteq Processes

(***************************************************************************)
(* However late the workers are and however runs overlap, a job is checked *)
(* at most as often as its limit says (the options of repeat).             *)
(***************************************************************************)
ChecksWithinLimit ==
    \A p \in Processes, t \in Tokens :
        checks[p][t] <= adds[p][t] * (DURATION \div INTERVAL)

\* Nothing of the chain of t in process p is left.
AtRest(p, t) ==
    /\ \A w \in Workers : job[w] = NoJob
    /\ next[p] = NoJob \/ next[p].mint # t
    /\ \A i \in DOMAIN wait : <<wait[i].process, wait[i].mint>> # <<p, t>>

(***************************************************************************)
(* As long as jobs of a process are added one after the other, each token  *)
(* is checked up to the limit unless its own checks end it: failed checks, *)
(* late workers and what earlier tokens left in the queue (a key that was  *)
(* not removed) do not cut it short.                                       *)
(***************************************************************************)
CheckedToTheEnd ==
    \A p \in Processes \ crowded, t \in Tokens :
        adds[p][t] > 0 /\ AtRest(p, t) =>
            <<p, t>> \in ended \/ checks[p][t] = adds[p][t] * (DURATION \div INTERVAL)

(***************************************************************************)
(* The queue runs empty, even if no key can ever be removed: the limit     *)
(* bounds every chain, and a chain starts only one other.                  *)
(***************************************************************************)
QueueDrains == <>[](wait = <<>> /\ \A p \in Processes : next[p] = NoJob)
=============================================================================
