------------------------ MODULE TokenMonitoringProofs ------------------------
(***************************************************************************)
(* What TokenMonitoring guarantees for any tokens, workers and metrics and *)
(* any interval and duration: how often a token is checked at most, and    *)
(* when it is checked that often.                                          *)
(***************************************************************************)
EXTENDS TokenMonitoring, SequenceTheorems, TLAPS

\* A job to come is filed under its own process.
FiledByProcess == \A p \in Processes : next[p] # NoJob => next[p].process = p

\* A worker has a job of the process whose handler it runs, and once it may
\* remove the key the end of the checks is decided.
HandlersHoldJobs ==
    \A w \in Workers :
        /\ at[w] # "idle" => job[w] # NoJob
        /\ at[w] \in {"entry", "found", "expired", "start"} => job[w].process = "initial"
        /\ at[w] \in {"exit", "close"} => job[w].process = "position"
        /\ at[w] \in {"found", "expired", "close"} =>
             <<job[w].process, job[w].mint>> \in ended

Shape == TypeOK /\ FiledByProcess /\ HandlersHoldJobs

-----------------------------------------------------------------------------
(* Jobs                                                                    *)

LEMMA LimitIsPositive == LIMIT \in Nat /\ LIMIT >= 1
BY MonitoringAssumption DEF LIMIT

LEMMA OneLimitMore ==
    ASSUME NEW n \in Nat
    PROVE  n * LIMIT \in Nat /\ (n + 1) * LIMIT = n * LIMIT + LIMIT
<1>1. \A m, l \in Nat : m * l \in Nat /\ (m + 1) * l = m * l + l
  OBVIOUS
<1> QED
  BY <1>1, LimitIsPositive

LEMMA JobFacts ==
    ASSUME NEW j \in Jobs
    PROVE  /\ j # NoJob /\ j.process \in Processes /\ j.mint \in Tokens
           /\ j.age \in 0 .. DURATION /\ j.entryPrice \in EntryPrices
           /\ j.count \in 1 .. LIMIT
           /\ Kept(j) \in {Kept(k) : k \in Jobs}
           /\ Kept(j) # NoJob /\ Kept(j).process = j.process /\ Kept(j).mint = j.mint
BY DEF Jobs, NoJob, Processes, Kept

\* The clock changes the age of a job and nothing else.
LEMMA OlderJob ==
    ASSUME NEW j \in Jobs
    PROVE  /\ Older(j) \in Jobs
           /\ Older(j).process = j.process /\ Older(j).mint = j.mint
           /\ Older(j).count = j.count
BY MonitoringAssumption, JobFacts DEF Jobs, Older

\* The next run of a job, if it has one
LEMMA NextRun ==
    ASSUME NEW j \in Jobs, WithinLimit(NextCount(j.count))
    PROVE  LET k == [j EXCEPT !.count = NextCount(@)] IN
           /\ k \in Jobs /\ k.process = j.process /\ k.mint = j.mint
           /\ k.count = j.count + 1 /\ j.count < LIMIT
BY LimitIsPositive, JobFacts DEF Jobs, WithinLimit, NextCount

\* A job that is added, with the price that some metrics give
LEMMA NewJob ==
    ASSUME NEW p \in Processes, NEW t \in Tokens, NEW e \in EntryPrices
    PROVE  [process |-> p, mint |-> t, age |-> 0, entryPrice |-> e, count |-> 1] \in Jobs
BY LimitIsPositive, MonitoringAssumption DEF Jobs

\* A job that is held, in either form
LEMMA HeldJob ==
    ASSUME TypeOK, NEW w \in Workers, job[w] # NoJob
    PROVE  job[w].process \in Processes /\ job[w].mint \in Tokens
BY DEF TypeOK, Kept, Jobs

LEMMA PairOfJobs ==
    ASSUME NEW j \in Jobs, NEW k \in Jobs
    PROVE  <<j>> \o <<k>> = <<j, k>>
<1>1. <<j>> \in Seq(Jobs) /\ <<k>> \in Seq(Jobs) /\ <<j, k>> \in Seq(Jobs)
  OBVIOUS
<1>2. Len(<<j>>) = 1 /\ Len(<<k>>) = 1 /\ Len(<<j, k>>) = 2
  OBVIOUS
<1>3. /\ <<j>> \o <<k>> \in Seq(Jobs) /\ Len(<<j>> \o <<k>>) = 2
      /\ \A i \in 1 .. 2 : (<<j>> \o <<k>>)[i] = <<j, k>>[i]
  BY <1>1, <1>2, ConcatProperties
<1> QED
  BY <1>1, <1>2, <1>3, SeqEqual

\* The jobs that fall due: each process's job to come, once.
LEMMA DueJobs ==
    ASSUME TypeOK, FiledByProcess, NEW due \in Due
    PROVE  /\ due \in Seq(Jobs)
           /\ \A i \in DOMAIN due : /\ next[due[i].process] # NoJob
                                    /\ due[i] = Older(next[due[i].process])
           /\ \A i, k \in DOMAIN due : due[i].process = due[k].process => i = k
           /\ \A p \in Processes : next[p] # NoJob => \E i \in DOMAIN due : due[i].process = p
<1> DEFINE a == Older(next["initial"])
           b == Older(next["position"])
<1>1. /\ next["initial"] # NoJob => a \in Jobs /\ a.process = "initial"
      /\ next["position"] # NoJob => b \in Jobs /\ b.process = "position"
  BY OlderJob DEF TypeOK, FiledByProcess, Processes
<1> HIDE DEF a, b
<1>2. due \in {(IF next["initial"] = NoJob THEN <<>> ELSE <<a>>)
                 \o (IF next["position"] = NoJob THEN <<>> ELSE <<b>>),
               (IF next["position"] = NoJob THEN <<>> ELSE <<b>>)
                 \o (IF next["initial"] = NoJob THEN <<>> ELSE <<a>>)}
  BY DEF Due, a, b
<1>3. CASE next["initial"] = NoJob /\ next["position"] = NoJob
  <2>1. due = <<>>
    BY <1>2, <1>3
  <2> QED
    BY <1>3, <2>1 DEF Processes
<1>4. CASE next["initial"] # NoJob /\ next["position"] = NoJob
  <2>1. due = <<a>>
    BY <1>2, <1>4
  <2> QED
    BY <1>1, <1>4, <2>1 DEF Processes, a
<1>5. CASE next["initial"] = NoJob /\ next["position"] # NoJob
  <2>1. due = <<b>>
    BY <1>2, <1>5
  <2> QED
    BY <1>1, <1>5, <2>1 DEF Processes, b
<1>6. CASE next["initial"] # NoJob /\ next["position"] # NoJob
  <2>1. due = <<a>> \o <<b>> \/ due = <<b>> \o <<a>>
    BY <1>2, <1>6
  <2>2. <<a>> \o <<b>> = <<a, b>> /\ <<b>> \o <<a>> = <<b, a>>
    BY <1>1, <1>6, PairOfJobs
  <2>3. due = <<a, b>> \/ due = <<b, a>>
    BY <2>1, <2>2
  <2> QED
    BY <1>1, <1>6, <2>3 DEF Processes, a, b
<1> QED
  BY <1>3, <1>4, <1>5, <1>6

-----------------------------------------------------------------------------
(* The shape of the state                                                  *)

\* The steps of a worker that leave the queue alone
LEMMA WorkerKeepsShape ==
    ASSUME Shape, NEW w \in Workers, NEW l, NEW k, ended \subseteq ended',
           ended' \subseteq Processes \X Tokens,
           at' = [at EXCEPT ![w] = l], job' = [job EXCEPT ![w] = k],
           \/ l = "idle" /\ k = NoJob
           \/ /\ l \in {"entry", "found", "expired", "start", "exit", "close"}
              /\ k \in {Kept(j) : j \in Jobs} /\ k # NoJob
              /\ k.process = IF l \in {"exit", "close"} THEN "position" ELSE "initial"
              /\ l \in {"found", "expired", "close"} => <<k.process, k.mint>> \in ended'
    PROVE  /\ at' \in [Workers -> {"idle", "entry", "found", "expired", "start", "exit", "close"}]
           /\ job' \in [Workers -> {Kept(j) : j \in Jobs} \cup {NoJob}]
           /\ HandlersHoldJobs'
<1>1. /\ at' \in [Workers -> {"idle", "entry", "found", "expired", "start", "exit", "close"}]
      /\ job' \in [Workers -> {Kept(j) : j \in Jobs} \cup {NoJob}]
  BY DEF Shape, TypeOK
<1>2. ASSUME NEW v \in Workers
      PROVE  /\ at'[v] # "idle" => job'[v] # NoJob
             /\ at'[v] \in {"entry", "found", "expired", "start"} => job'[v].process = "initial"
             /\ at'[v] \in {"exit", "close"} => job'[v].process = "position"
             /\ at'[v] \in {"found", "expired", "close"} =>
                  <<job'[v].process, job'[v].mint>> \in ended'
  <2>1. CASE v = w
    <3>1. at'[v] = l /\ job'[v] = k
      BY <2>1 DEF Shape, TypeOK
    <3> QED
      BY <3>1
  <2>2. CASE v # w
    <3>1. at'[v] = at[v] /\ job'[v] = job[v]
      BY <2>2 DEF Shape, TypeOK
    <3> QED
      BY <3>1 DEF Shape, HandlersHoldJobs
  <2> QED
    BY <2>1, <2>2
<1> QED
  BY <1>1, <1>2 DEF HandlersHoldJobs

\* What add writes
LEMMA AddKeepsShape ==
    ASSUME Shape, NEW j \in Jobs, Add(j)
    PROVE  /\ keys' \subseteq Processes /\ crowded' \subseteq Processes
           /\ next' \in [Processes -> Jobs \cup {NoJob}]
           /\ FiledByProcess'
           /\ adds' \in [Processes -> [Tokens -> Nat]]
           /\ adds' = [adds EXCEPT ![j.process] =
                         [adds[j.process] EXCEPT ![j.mint] = adds[j.process][j.mint] + 1]]
<1>1. j.process \in Processes /\ j.mint \in Tokens
  BY JobFacts
<1>2. keys' \subseteq Processes /\ crowded' \subseteq Processes
  BY <1>1 DEF Add, Shape, TypeOK
<1>3. next' \in [Processes -> Jobs \cup {NoJob}]
      /\ \A p \in Processes : next'[p] # next[p] => p = j.process /\ next'[p] = j
  BY <1>1 DEF Add, Shape, TypeOK
<1>4. FiledByProcess'
  BY <1>3 DEF FiledByProcess, Shape
<1>5. adds' = [adds EXCEPT ![j.process] =
                 [adds[j.process] EXCEPT ![j.mint] = adds[j.process][j.mint] + 1]]
  BY <1>1 DEF Add
<1>6. adds \in [Processes -> [Tokens -> Nat]]
  BY DEF Shape, TypeOK
<1>7. adds[j.process] \in [Tokens -> Nat] /\ adds[j.process][j.mint] + 1 \in Nat
  BY <1>1, <1>6
<1>8. adds' \in [Processes -> [Tokens -> Nat]]
  BY <1>1, <1>5, <1>6, <1>7
<1> QED
  BY <1>2, <1>3, <1>4, <1>5, <1>8

LEMMA RemoveKeepsShape ==
    ASSUME Shape, NEW p \in Processes, RemoveRepeatable(p)
    PROVE  /\ keys' \subseteq Processes
           /\ next' \in [Processes -> Jobs \cup {NoJob}]
           /\ \A q \in Processes : next'[q] = next[q] \/ (q = p /\ next'[q] = NoJob)
           /\ FiledByProcess'
<1>1. keys' \subseteq Processes
  BY DEF RemoveRepeatable, Shape, TypeOK
<1>2. /\ next' \in [Processes -> Jobs \cup {NoJob}]
      /\ \A q \in Processes : next'[q] = next[q] \/ (q = p /\ next'[q] = NoJob)
  BY DEF RemoveRepeatable, Shape, TypeOK
<1> QED
  BY <1>1, <1>2 DEF FiledByProcess, Shape

\* What a worker takes, and what is left
LEMMA TakenJob ==
    ASSUME TypeOK, wait # <<>>
    PROVE  /\ Head(wait) \in Jobs /\ Head(wait) = wait[1] /\ 1 \in DOMAIN wait
           /\ Tail(wait) \in Seq(Jobs)
           /\ Len(wait) \in Nat /\ Len(wait) >= 1 /\ Len(Tail(wait)) = Len(wait) - 1
           /\ \A i \in 1 .. Len(wait) - 1 : Tail(wait)[i] = wait[i + 1]
BY HeadTailProperties, LenProperties, EmptySeq DEF TypeOK

LEMMA TakeKeepsShape ==
    ASSUME Shape, NEW w \in Workers, Take(w)
    PROVE  Shape'
<1> DEFINE j == Head(wait)
           k == [j EXCEPT !.count = NextCount(@)]
<1>1. /\ j \in Jobs /\ wait' \in Seq(Jobs)
      /\ j.process \in Processes /\ j.mint \in Tokens
      /\ Kept(j) \in {Kept(i) : i \in Jobs} /\ Kept(j) # NoJob
      /\ Kept(j).process = j.process /\ Kept(j).mint = j.mint
  BY TakenJob, JobFacts DEF Take, StillToTake, Shape
<1>2. \/ next' = [next EXCEPT ![j.process] = k] /\ k \in Jobs /\ k.process = j.process
      \/ next' = next
  BY <1>1, NextRun DEF Take, Repeats
<1> HIDE DEF k
<1>3. next' \in [Processes -> Jobs \cup {NoJob}] /\ FiledByProcess'
  BY <1>1, <1>2 DEF Shape, TypeOK, FiledByProcess
<1>4. /\ at' = [at EXCEPT ![w] = Handler(j)] /\ job' = [job EXCEPT ![w] = Kept(j)]
      /\ ended' = IF IsExpired(j) THEN ended \cup {<<j.process, j.mint>>} ELSE ended
      /\ checks' = IF IsExpired(j) THEN checks
                   ELSE [checks EXCEPT ![j.process][j.mint] = @ + 1]
      /\ UNCHANGED <<phase, keys, adds, crowded>>
  BY DEF Take
<1>5. ended \subseteq ended' /\ ended' \subseteq Processes \X Tokens
  <2>1. ended \subseteq Processes \X Tokens /\ <<j.process, j.mint>> \in Processes \X Tokens
    BY <1>1 DEF Shape, TypeOK
  <2> HIDE DEF j
  <2> QED
    BY <1>4, <2>1
<1>6. checks' \in [Processes -> [Tokens -> Nat]]
  <2>1. checks[j.process] \in [Tokens -> Nat]
    BY <1>1 DEF Shape, TypeOK
  <2>2. [checks[j.process] EXCEPT ![j.mint] = checks[j.process][j.mint] + 1] \in [Tokens -> Nat]
    BY <1>1, <2>1
  <2> QED
    BY <1>1, <1>4, <2>2 DEF Shape, TypeOK
<1>7. /\ Handler(j) \in {"entry", "expired", "exit", "close"}
      /\ j.process = IF Handler(j) \in {"exit", "close"} THEN "position" ELSE "initial"
      /\ Handler(j) \in {"expired", "close"} => IsExpired(j)
  BY <1>1 DEF Handler, Processes
<1>8. /\ at' \in [Workers -> {"idle", "entry", "found", "expired", "start", "exit", "close"}]
      /\ job' \in [Workers -> {Kept(i) : i \in Jobs} \cup {NoJob}]
      /\ HandlersHoldJobs'
  <2>1. /\ Handler(j) \in {"entry", "found", "expired", "start", "exit", "close"}
        /\ Kept(j).process = IF Handler(j) \in {"exit", "close"} THEN "position" ELSE "initial"
        /\ Handler(j) \in {"found", "expired", "close"} =>
             <<Kept(j).process, Kept(j).mint>> \in ended'
    BY <1>1, <1>4, <1>7
  <2> HIDE DEF j
  <2> QED
    BY <1>1, <1>4, <1>5, <2>1, WorkerKeepsShape
<1> QED
  BY <1>1, <1>3, <1>4, <1>5, <1>6, <1>8 DEF Shape, TypeOK

\* The decision of a check, and the return of its handler
LEMMA DecideKeepsShape ==
    ASSUME Shape, NEW w \in Workers, NEW met \in BOOLEAN, Decide(w, met), at[w] # "idle",
           UNCHANGED <<phase, queue, adds, checks, crowded>>,
           \/ Return(w)
           \/ at[w] = "entry" /\ met /\ Goto(w, "found")
           \/ at[w] = "exit" /\ met /\ Goto(w, "close")
    PROVE  Shape'
<1>1. /\ job[w] # NoJob /\ job[w] \in {Kept(j) : j \in Jobs}
      /\ job[w].process \in Processes /\ job[w].mint \in Tokens
  BY HeldJob DEF Shape, TypeOK, HandlersHoldJobs
<1>2. ended \subseteq ended' /\ ended' \subseteq Processes \X Tokens
      /\ (met => <<job[w].process, job[w].mint>> \in ended')
  BY <1>1 DEF Decide, Shape, TypeOK
<1>3. /\ at' \in [Workers -> {"idle", "entry", "found", "expired", "start", "exit", "close"}]
      /\ job' \in [Workers -> {Kept(i) : i \in Jobs} \cup {NoJob}]
      /\ HandlersHoldJobs'
  <2>1. CASE Return(w)
    BY <1>2, <2>1, WorkerKeepsShape DEF Return
  <2>2. ASSUME NEW l \in {"found", "close"}, met, Goto(w, l),
               at[w] = IF l = "found" THEN "entry" ELSE "exit"
        PROVE  /\ at' \in [Workers -> {"idle", "entry", "found", "expired", "start", "exit", "close"}]
               /\ job' \in [Workers -> {Kept(i) : i \in Jobs} \cup {NoJob}]
               /\ HandlersHoldJobs'
    <3>1. job[w].process = IF l \in {"exit", "close"} THEN "position" ELSE "initial"
      BY <2>2 DEF Shape, HandlersHoldJobs
    <3>2. at' = [at EXCEPT ![w] = l] /\ job' = [job EXCEPT ![w] = job[w]]
      BY <2>2 DEF Goto, Shape, TypeOK
    <3> QED
      BY <1>1, <1>2, <2>2, <3>1, <3>2, WorkerKeepsShape
  <2> QED
    BY <2>1, <2>2
<1> QED
  BY <1>2, <1>3 DEF Shape, TypeOK, FiledByProcess, queue

LEMMA StepKeepsShape ==
    ASSUME Shape, NEW w \in Workers, Step(w)
    PROVE  Shape'
<1>1. CASE Take(w)
  BY <1>1, TakeKeepsShape
<1>2. CASE CheckEntryConditions(w)
  <2>1. PICK m \in Metrics :
          /\ Decide(w, EntryConditions(m))
          /\ \/ Return(w)
             \/ EntryConditions(m) /\ Goto(w, "found")
    BY <1>2 DEF CheckEntryConditions, AfterEntryCheck
  <2>2. EntryConditions(m) \in BOOLEAN
    BY DEF EntryConditions
  <2> QED
    BY <1>2, <2>1, <2>2, DecideKeepsShape DEF CheckEntryConditions
<1>3. CASE RemoveInitial(w)
  <2>1. /\ keys' \subseteq Processes /\ next' \in [Processes -> Jobs \cup {NoJob}]
        /\ FiledByProcess'
    BY <1>3, RemoveKeepsShape DEF RemoveInitial, Processes
  <2>2. /\ at' \in [Workers -> {"idle", "entry", "found", "expired", "start", "exit", "close"}]
        /\ job' \in [Workers -> {Kept(i) : i \in Jobs} \cup {NoJob}]
        /\ HandlersHoldJobs'
    <3>1. ended' = ended /\ ended \subseteq Processes \X Tokens
      BY <1>3 DEF RemoveInitial, history, Shape, TypeOK
    <3>2. CASE Return(w)
      BY <3>1, <3>2, WorkerKeepsShape DEF Return
    <3>3. CASE at[w] = "found" /\ Goto(w, "start")
      <4>1. /\ job[w] # NoJob /\ job[w].process = "initial"
            /\ job[w] \in {Kept(i) : i \in Jobs}
            /\ at' = [at EXCEPT ![w] = "start"] /\ job' = [job EXCEPT ![w] = job[w]]
        BY <3>3 DEF Shape, TypeOK, HandlersHoldJobs, Goto
      <4> QED
        BY <3>1, <4>1, WorkerKeepsShape
    <3> QED
      BY <1>3, <3>2, <3>3 DEF RemoveInitial
  <2> QED
    BY <1>3, <2>1, <2>2 DEF RemoveInitial, RemoveRepeatable, history, Shape, TypeOK
<1>4. CASE StartPositionMonitoring(w)
  <2>1. PICK m \in Metrics :
          Add([process |-> "position", mint |-> job[w].mint, age |-> 0,
               entryPrice |-> StoredPrice(m.price), count |-> 1])
    BY <1>4 DEF StartPositionMonitoring
  <2> DEFINE j == [process |-> "position", mint |-> job[w].mint, age |-> 0,
                   entryPrice |-> StoredPrice(m.price), count |-> 1]
  <2>2. j \in Jobs
    <3>1. job[w].mint \in Tokens
      BY <1>4, HeldJob DEF StartPositionMonitoring, Shape, HandlersHoldJobs
    <3>2. StoredPrice(m.price) \in EntryPrices
      BY DEF EntryPrices
    <3> QED
      BY <3>1, <3>2, NewJob DEF Processes
  <2> HIDE DEF j
  <2>3. Add(j)
    BY <2>1 DEF j
  <2>4. /\ keys' \subseteq Processes /\ crowded' \subseteq Processes
        /\ next' \in [Processes -> Jobs \cup {NoJob}]
        /\ FiledByProcess' /\ adds' \in [Processes -> [Tokens -> Nat]]
    BY <2>2, <2>3, AddKeepsShape
  <2>5. UNCHANGED <<wait, checks, ended>> /\ ended \subseteq Processes \X Tokens
    BY <2>3 DEF Add, Shape, TypeOK
  <2>6. /\ at' \in [Workers -> {"idle", "entry", "found", "expired", "start", "exit", "close"}]
        /\ job' \in [Workers -> {Kept(i) : i \in Jobs} \cup {NoJob}]
        /\ HandlersHoldJobs'
    BY <1>4, <2>5, WorkerKeepsShape DEF StartPositionMonitoring, Return
  <2> QED
    BY <1>4, <2>4, <2>5, <2>6 DEF StartPositionMonitoring, Shape, TypeOK
<1>5. CASE CheckExitConditions(w)
  <2>1. PICK m \in Metrics :
          /\ Decide(w, ExitConditions(m, job[w].entryPrice))
          /\ \/ Return(w)
             \/ ExitConditions(m, job[w].entryPrice) /\ Goto(w, "close")
    BY <1>5 DEF CheckExitConditions
  <2>2. ExitConditions(m, job[w].entryPrice) \in BOOLEAN
    BY DEF ExitConditions
  <2> QED
    BY <1>5, <2>1, <2>2, DecideKeepsShape DEF CheckExitConditions
<1>6. CASE RemovePosition(w)
  <2>1. /\ keys' \subseteq Processes /\ next' \in [Processes -> Jobs \cup {NoJob}]
        /\ FiledByProcess'
    BY <1>6, RemoveKeepsShape DEF RemovePosition, Processes
  <2>2. /\ at' \in [Workers -> {"idle", "entry", "found", "expired", "start", "exit", "close"}]
        /\ job' \in [Workers -> {Kept(i) : i \in Jobs} \cup {NoJob}]
        /\ HandlersHoldJobs'
    BY <1>6, WorkerKeepsShape DEF RemovePosition, Return, history, Shape, TypeOK
  <2> QED
    BY <1>6, <2>1, <2>2 DEF RemovePosition, RemoveRepeatable, history, Shape, TypeOK
<1>7. CASE JobFails(w)
  <2>1. /\ at' \in [Workers -> {"idle", "entry", "found", "expired", "start", "exit", "close"}]
        /\ job' \in [Workers -> {Kept(i) : i \in Jobs} \cup {NoJob}]
        /\ HandlersHoldJobs'
    BY <1>7, WorkerKeepsShape DEF JobFails, Return, history, Shape, TypeOK
  <2> QED
    BY <1>7, <2>1 DEF JobFails, queue, history, Shape, TypeOK, FiledByProcess
<1> QED
  BY <1>1, <1>2, <1>3, <1>4, <1>5, <1>6, <1>7 DEF Step

LEMMA TickKeepsShape ==
    ASSUME Shape, Tick
    PROVE  Shape'
<1>1. phase' \in 0 .. INTERVAL - 1
  BY MonitoringAssumption DEF Tick, Shape, TypeOK
<1>2. /\ Len(wait) \in Nat /\ DOMAIN wait = 1 .. Len(wait)
      /\ \A i \in DOMAIN wait : wait[i] \in Jobs
  BY LenProperties, ElementOfSeq DEF Shape, TypeOK
<1> DEFINE older == [i \in DOMAIN wait |-> Older(wait[i])]
<1>3. older \in Seq(Jobs)
  BY <1>2, OlderJob
<1>4. wait' \in Seq(Jobs) /\ next' \in [Processes -> Jobs \cup {NoJob}] /\ FiledByProcess'
  <2>1. CASE phase' = 0
    <3>1. PICK due \in Due : wait' = older \o due
      BY <2>1 DEF Tick
    <3>2. due \in Seq(Jobs)
      BY DueJobs DEF Shape
    <3> HIDE DEF older
    <3>3. wait' \in Seq(Jobs)
      BY <1>3, <3>1, <3>2, ConcatProperties
    <3> QED
      BY <2>1, <3>3 DEF Tick, FiledByProcess
  <2>2. CASE phase' # 0
    <3>1. wait' = older /\ next' = [p \in Processes |-> Older(next[p])]
      BY <2>2 DEF Tick
    <3>2. \A p \in Processes :
            \/ next[p] = NoJob /\ next'[p] = NoJob
            \/ next[p] \in Jobs /\ next'[p] \in Jobs /\ next'[p].process = next[p].process
      BY <3>1, OlderJob DEF Shape, TypeOK, Older
    <3> HIDE DEF older
    <3>3. next' \in [Processes -> Jobs \cup {NoJob}]
      BY <3>1, <3>2
    <3>4. FiledByProcess'
      BY <3>2, JobFacts DEF FiledByProcess, Shape
    <3> QED
      BY <1>3, <3>1, <3>3, <3>4
  <2> QED
    BY <2>1, <2>2
<1>5. UNCHANGED <<keys, at, job, history>>
  BY DEF Tick
<1> QED
  BY <1>1, <1>4, <1>5 DEF Shape, TypeOK, HandlersHoldJobs, history

LEMMA ShapeHolds == Spec => []Shape
<1>1. Init => Shape
  BY MonitoringAssumption, EmptySeq DEF Init, Shape, TypeOK, FiledByProcess, HandlersHoldJobs
<1>2. Shape /\ [Next]_vars => Shape'
  <2> SUFFICES ASSUME Shape, [Next]_vars PROVE Shape'
    OBVIOUS
  <2>1. ASSUME NEW t \in Tokens, StartInitialMonitoring(t) PROVE Shape'
    <3> DEFINE j == [process |-> "initial", mint |-> t, age |-> 0, entryPrice |-> Zero, count |-> 1]
    <3>1. j \in Jobs
      BY NewJob DEF Processes, EntryPrices
    <3>2. Add(j)
      BY <2>1 DEF StartInitialMonitoring
    <3> HIDE DEF j
    <3>3. /\ keys' \subseteq Processes /\ crowded' \subseteq Processes
          /\ next' \in [Processes -> Jobs \cup {NoJob}]
          /\ FiledByProcess' /\ adds' \in [Processes -> [Tokens -> Nat]]
      BY <3>1, <3>2, AddKeepsShape
    <3> QED
      BY <2>1, <3>2, <3>3 DEF StartInitialMonitoring, Add, Shape, TypeOK, HandlersHoldJobs
  <2>2. ASSUME NEW w \in Workers, Step(w) PROVE Shape'
    BY <2>2, StepKeepsShape
  <2>3. CASE Tick
    BY <2>3, TickKeepsShape
  <2>4. CASE UNCHANGED vars
    BY <2>4 DEF vars, queue, history, Shape, TypeOK, FiledByProcess, HandlersHoldJobs
  <2> QED
    BY <2>1, <2>2, <2>3, <2>4 DEF Next
<1> QED
  BY <1>1, <1>2, PTL DEF Spec

(***************************************************************************)
(* The queue, the workers and the counters keep their types.               *)
(***************************************************************************)
THEOREM TypeCorrect == Spec => []TypeOK
<1>1. Shape => TypeOK
  BY DEF Shape
<1> QED
  BY <1>1, ShapeHolds, PTL

-----------------------------------------------------------------------------
(* How often a token is checked at most.  A job in the queue may still be  *)
(* run as often as its count leaves.  That the checks so far and all these *)
(* runs stay within the limits of the jobs added is a statement about a    *)
(* sum over the jobs that wait; it is made with the sums up to each of     *)
(* them, of which any upper bounds will do.                                *)

Left(p, t, j) ==
    IF j # NoJob /\ j.process = p /\ j.mint = t THEN LIMIT - j.count + 1 ELSE 0

Sums(p, t, f) ==
    /\ \A i \in 0 .. Len(wait) : checks[p][t] <= f[i]
    /\ \A i, k \in 0 .. Len(wait) : i < k => f[i] + Left(p, t, wait[i + 1]) <= f[k]
    /\ f[Len(wait)] + Left(p, t, next[p]) <= adds[p][t] * LIMIT

RunsWithinLimit ==
    \A p \in Processes, t \in Tokens : \E f \in [0 .. Len(wait) -> Int] : Sums(p, t, f)

LEMMA LeftFacts ==
    ASSUME NEW p \in Processes, NEW t \in Tokens
    PROVE  /\ Left(p, t, NoJob) = 0
           /\ \A j \in Jobs :
                /\ Left(p, t, j) \in 0 .. LIMIT
                /\ Left(p, t, Older(j)) = Left(p, t, j)
                /\ j.process = p /\ j.mint = t => Left(p, t, j) = LIMIT - j.count + 1
                /\ ~(j.process = p /\ j.mint = t) => Left(p, t, j) = 0
<1>1. Left(p, t, NoJob) = 0
  BY DEF Left
<1>2. ASSUME NEW j \in Jobs
      PROVE  /\ Left(p, t, j) \in 0 .. LIMIT
             /\ Left(p, t, Older(j)) = Left(p, t, j)
             /\ j.process = p /\ j.mint = t => Left(p, t, j) = LIMIT - j.count + 1
             /\ ~(j.process = p /\ j.mint = t) => Left(p, t, j) = 0
  <2>1. /\ j # NoJob /\ j.count \in 1 .. LIMIT /\ LIMIT \in Nat
        /\ Older(j) # NoJob /\ Older(j).process = j.process
        /\ Older(j).mint = j.mint /\ Older(j).count = j.count
    BY LimitIsPositive, JobFacts, OlderJob
  <2> QED
    BY <2>1 DEF Left
<1> QED
  BY <1>1, <1>2

\* The state the sums are about, in numbers
LEMMA QueueTypes ==
    ASSUME TypeOK, NEW p \in Processes, NEW t \in Tokens
    PROVE  /\ Len(wait) \in Nat /\ DOMAIN wait = 1 .. Len(wait)
           /\ \A i \in 1 .. Len(wait) : wait[i] \in Jobs
           /\ next[p] \in Jobs \cup {NoJob}
           /\ checks[p][t] \in Nat /\ adds[p][t] \in Nat
           /\ Left(p, t, next[p]) \in 0 .. LIMIT
           /\ \A i \in 1 .. Len(wait) : Left(p, t, wait[i]) \in 0 .. LIMIT
<1>1. /\ Len(wait) \in Nat /\ DOMAIN wait = 1 .. Len(wait)
      /\ \A i \in 1 .. Len(wait) : wait[i] \in Jobs
  BY LenProperties, ElementOfSeq DEF TypeOK
<1>2. /\ next[p] \in Jobs \cup {NoJob}
      /\ checks[p][t] \in Nat /\ adds[p][t] \in Nat
  BY DEF TypeOK
<1> QED
  BY <1>1, <1>2, LeftFacts, LimitIsPositive

\* Jobs are added, or dropped, behind those that wait.
LEMMA SameWaitKeepsRuns ==
    ASSUME Shape, Shape', RunsWithinLimit, UNCHANGED <<wait, checks>>,
           \A p \in Processes, t \in Tokens :
               \/ adds'[p][t] = adds[p][t] /\ next'[p] \in {next[p], NoJob}
               \/ adds'[p][t] = adds[p][t] + 1
               \/ adds'[p][t] = adds[p][t] /\ next'[p] \in Jobs /\ next'[p].mint # t
    PROVE  RunsWithinLimit'
<1> SUFFICES ASSUME NEW p \in Processes, NEW t \in Tokens
             PROVE  \E f \in [0 .. Len(wait') -> Int] : Sums(p, t, f)'
  BY DEF RunsWithinLimit
<1>1. PICK f \in [0 .. Len(wait) -> Int] : Sums(p, t, f)
  BY DEF RunsWithinLimit
<1>2. /\ Len(wait) \in Nat /\ adds[p][t] \in Nat /\ LIMIT \in Nat
      /\ Left(p, t, next[p]) \in 0 .. LIMIT /\ Left(p, t, next'[p]) \in 0 .. LIMIT
  <2>1. next'[p] \in Jobs \cup {NoJob}
    BY DEF Shape, TypeOK
  <2> QED
    BY <2>1, QueueTypes, LeftFacts, LimitIsPositive DEF Shape
<1>3. f[Len(wait)] \in Int /\ f[Len(wait)] + Left(p, t, next[p]) <= adds[p][t] * LIMIT
  BY <1>1, <1>2 DEF Sums
<1>4. f[Len(wait)] + Left(p, t, next'[p]) <= adds'[p][t] * LIMIT
  <2>1. CASE adds'[p][t] = adds[p][t] /\ next'[p] \in {next[p], NoJob}
    <3>1. Left(p, t, next'[p]) \in {Left(p, t, next[p]), 0}
      BY <2>1, LeftFacts
    <3>2. adds[p][t] * LIMIT \in Int
      BY <1>2
    <3> QED
      BY <1>2, <1>3, <2>1, <3>1, <3>2
  <2>2. CASE adds'[p][t] = adds[p][t] + 1
    <3>1. (adds[p][t] + 1) * LIMIT = adds[p][t] * LIMIT + LIMIT /\ adds[p][t] * LIMIT \in Int
      BY <1>2, OneLimitMore
    <3>2. PICK x, a, b, c : /\ x = f[Len(wait)] /\ a = Left(p, t, next[p])
                            /\ b = Left(p, t, next'[p]) /\ c = adds[p][t] * LIMIT
      OBVIOUS
    <3>3. /\ x \in Int /\ a \in Nat /\ b \in Nat /\ c \in Int /\ LIMIT \in Nat
          /\ b <= LIMIT /\ x + a <= c
      BY <1>2, <1>3, <3>1, <3>2
    <3>4. x + b <= c + LIMIT
      BY <3>3
    <3> QED
      BY <2>2, <3>1, <3>2, <3>4
  <2>3. CASE adds'[p][t] = adds[p][t] /\ next'[p] \in Jobs /\ next'[p].mint # t
    <3>1. Left(p, t, next'[p]) = 0 /\ adds[p][t] * LIMIT \in Int
      BY <1>2, <2>3, LeftFacts
    <3> QED
      BY <1>2, <1>3, <2>3, <3>1
  <2> QED
    BY <2>1, <2>2, <2>3
<1>5. Sums(p, t, f)'
  BY <1>1, <1>4 DEF Sums
<1> QED
  BY <1>1, <1>5

\* A run is one check at most, and leaves one run less to its successor.
LEMMA TakeKeepsRuns ==
    ASSUME Shape, Shape', RunsWithinLimit, NEW w \in Workers, Take(w)
    PROVE  RunsWithinLimit'
<1> DEFINE j == Head(wait)
           k == [j EXCEPT !.count = NextCount(@)]
<1>1. /\ j \in Jobs /\ j = wait[1] /\ Len(wait) >= 1 /\ Len(wait) \in Nat
      /\ wait' = Tail(wait) /\ Len(wait') = Len(wait) - 1
      /\ \A i \in 1 .. Len(wait) - 1 : wait'[i] = wait[i + 1]
      /\ j.process \in Processes /\ j.mint \in Tokens
      /\ adds' = adds
  BY TakenJob, JobFacts DEF Take, StillToTake, Shape
<1>2. \/ /\ next[j.process] = NoJob /\ next' = [next EXCEPT ![j.process] = k] /\ k \in Jobs
         /\ k.process = j.process /\ k.mint = j.mint /\ k.count = j.count + 1
      \/ next' = next
  BY <1>1, NextRun DEF Take, Repeats
<1>3. checks' = checks
      \/ checks' = [checks EXCEPT ![j.process] =
                      [checks[j.process] EXCEPT ![j.mint] = checks[j.process][j.mint] + 1]]
  BY DEF Take
<1> HIDE DEF j, k
<1> SUFFICES ASSUME NEW p \in Processes, NEW t \in Tokens
             PROVE  \E f \in [0 .. Len(wait') -> Int] : Sums(p, t, f)'
  BY DEF RunsWithinLimit
<1>4. PICK f \in [0 .. Len(wait) -> Int] : Sums(p, t, f)
  BY DEF RunsWithinLimit
<1>5. /\ checks[p][t] \in Nat /\ LIMIT \in Nat /\ adds[p][t] * LIMIT \in Int
      /\ Left(p, t, next[p]) \in 0 .. LIMIT
      /\ \A i \in 1 .. Len(wait) : Left(p, t, wait[i]) \in 0 .. LIMIT
  <2>1. adds[p][t] \in Nat /\ LIMIT \in Nat
    BY QueueTypes, LimitIsPositive DEF Shape
  <2> QED
    BY <2>1, QueueTypes DEF Shape
<1>6. \/ checks'[p][t] = checks[p][t]
      \/ j.process = p /\ j.mint = t /\ checks'[p][t] = checks[p][t] + 1
  <2>1. checks \in [Processes -> [Tokens -> Nat]] /\ checks[p] \in [Tokens -> Nat]
    BY DEF Shape, TypeOK
  <2>2. CASE p = j.process /\ t = j.mint
    BY <1>1, <1>3, <2>1, <2>2
  <2>3. CASE p = j.process /\ t # j.mint
    BY <1>1, <1>3, <2>1, <2>3
  <2>4. CASE p # j.process
    BY <1>1, <1>3, <2>1, <2>4
  <2> QED
    BY <2>2, <2>3, <2>4
\* What the run adds to the checks and to what the job to come leaves
<1>7. PICK d : d = Left(p, t, next'[p]) - Left(p, t, next[p])
  OBVIOUS
<1>8. /\ d \in Int /\ Left(p, t, next'[p]) \in Int
      /\ checks'[p][t] + d <= checks[p][t] + Left(p, t, j)
  <2>0. Left(p, t, next'[p]) \in Int
    <3>1. next'[p] \in Jobs \cup {NoJob}
      BY DEF Shape, TypeOK
    <3> QED
      BY <1>5, <3>1, LeftFacts
  <2>1. CASE j.process = p /\ j.mint = t
    <3>1. Left(p, t, j) = LIMIT - j.count + 1 /\ j.count \in 1 .. LIMIT
      BY <1>1, <2>1, LeftFacts, JobFacts
    <3>2. CASE next' = next
      BY <1>1, <1>5, <1>6, <1>7, <3>1, <3>2
    <3>3. CASE next' # next
      <4>1. next'[p] = k /\ next[p] = NoJob /\ k \in Jobs /\ k.process = p /\ k.mint = t
            /\ k.count = j.count + 1
        BY <1>2, <2>1, <3>3 DEF Shape, TypeOK
      <4>2. Left(p, t, next[p]) = 0 /\ Left(p, t, next'[p]) = LIMIT - k.count + 1
        BY <4>1, LeftFacts
      <4>3. d = LIMIT - j.count /\ LIMIT \in Int /\ j.count \in Int
        BY <1>1, <1>5, <1>7, <4>1, <4>2, JobFacts
      <4>4. checks'[p][t] <= checks[p][t] + 1 /\ checks'[p][t] \in Int /\ checks[p][t] \in Int
        BY <1>5, <1>6
      <4>5. d \in Int /\ Left(p, t, j) = d + 1
        BY <3>1, <4>3
      <4>6. checks'[p][t] + d <= checks[p][t] + (d + 1)
        BY <4>4, <4>5
      <4> QED
        BY <2>0, <4>5, <4>6
    <3> QED
      BY <3>2, <3>3
  <2>2. CASE ~(j.process = p /\ j.mint = t)
    <3>1. Left(p, t, j) = 0 /\ checks'[p][t] = checks[p][t]
      BY <1>1, <1>6, <2>2, LeftFacts
    <3>2. Left(p, t, next'[p]) = Left(p, t, next[p])
      <4>1. CASE next'[p] = next[p]
        BY <4>1
      <4>2. CASE next'[p] # next[p]
        <5>1. next'[p] = k /\ next[p] = NoJob /\ k \in Jobs /\ ~(k.process = p /\ k.mint = t)
          BY <1>1, <1>2, <2>2, <4>2 DEF Shape, TypeOK
        <5> QED
          BY <5>1, LeftFacts
      <4> QED
        BY <4>1, <4>2
    <3> QED
      BY <1>5, <1>7, <3>1, <3>2
  <2> QED
    BY <1>5, <1>7, <2>0, <2>1, <2>2
<1>9. /\ \A i \in 0 .. Len(wait) : f[i] \in Int /\ checks[p][t] <= f[i]
      /\ \A i, l \in 0 .. Len(wait) : i < l => f[i] + Left(p, t, wait[i + 1]) <= f[l]
      /\ f[Len(wait)] + Left(p, t, next[p]) <= adds[p][t] * LIMIT
  BY <1>1, <1>4 DEF Sums
<1>10. PICK g \in [0 .. Len(wait') -> Int] : \A i \in 0 .. Len(wait') : g[i] = f[i + 1] - d
  <2>1. [i \in 0 .. Len(wait') |-> f[i + 1] - d] \in [0 .. Len(wait') -> Int]
    BY <1>1, <1>8, <1>9
  <2> QED
    BY <2>1
<1>11. \A i \in 0 .. Len(wait') : checks'[p][t] <= g[i]
  <2>1. \A i \in 0 .. Len(wait') : checks[p][t] + Left(p, t, j) <= f[i + 1]
    <3> TAKE i \in 0 .. Len(wait')
    <3>1. 0 \in 0 .. Len(wait) /\ i + 1 \in 0 .. Len(wait) /\ 0 < i + 1 /\ wait[0 + 1] = j
      BY <1>1
    <3>2. f[0] + Left(p, t, j) <= f[i + 1] /\ checks[p][t] <= f[0]
      BY <1>9, <3>1
    <3>3. PICK x, y, z, l :
            x = f[i + 1] /\ y = f[0] /\ z = checks[p][t] /\ l = Left(p, t, j)
      OBVIOUS
    <3>4. x \in Int /\ y \in Int /\ z \in Int /\ l \in Int
      BY <1>1, <1>5, <1>9, <3>1, <3>3
    <3>5. z + l <= x
      BY <3>2, <3>3, <3>4
    <3> QED
      BY <3>3, <3>5
  <2>2. checks'[p][t] \in Nat /\ Left(p, t, j) \in Int
    BY <1>1, <1>5, <1>6
  <2> TAKE i \in 0 .. Len(wait')
  <2>3. g[i] = f[i + 1] - d /\ f[i + 1] \in Int /\ checks[p][t] + Left(p, t, j) <= f[i + 1]
    BY <1>1, <1>9, <1>10, <2>1
  <2>4. checks'[p][t] + d <= checks[p][t] + Left(p, t, j)
    BY <1>8
  <2>5. checks[p][t] \in Int /\ d \in Int
    BY <1>5, <1>8
  <2>6. checks'[p][t] + d <= f[i + 1]
    <3>1. PICK x, y, z, l :
            x = f[i + 1] /\ y = checks'[p][t] /\ z = checks[p][t] /\ l = Left(p, t, j)
      OBVIOUS
    <3>2. x \in Int /\ y \in Int /\ z \in Int /\ l \in Int /\ d \in Int
      BY <2>2, <2>3, <2>5, <3>1
    <3>3. y + d <= z + l /\ z + l <= x
      BY <2>3, <2>4, <3>1
    <3>4. y + d <= x
      BY <3>2, <3>3
    <3> QED
      BY <3>1, <3>4
  <2> QED
    BY <2>2, <2>3, <2>5, <2>6
<1>12. \A i, l \in 0 .. Len(wait') : i < l => g[i] + Left(p, t, wait'[i + 1]) <= g[l]
  <2> TAKE i, l \in 0 .. Len(wait')
  <2> HAVE i < l
  <2>1. /\ i + 1 \in 1 .. Len(wait) - 1 /\ i + 1 \in 0 .. Len(wait) /\ l + 1 \in 0 .. Len(wait)
        /\ wait'[i + 1] = wait[(i + 1) + 1]
    BY <1>1
  <2>2. f[i + 1] + Left(p, t, wait'[i + 1]) <= f[l + 1]
    BY <1>9, <2>1
  <2>3. Left(p, t, wait'[i + 1]) \in Int /\ f[i + 1] \in Int /\ f[l + 1] \in Int
    BY <1>5, <1>9, <2>1
  <2>4. g[i] = f[i + 1] - d /\ g[l] = f[l + 1] - d
    BY <1>10
  <2>5. d \in Int
    BY <1>8
  <2> QED
    BY <2>2, <2>3, <2>4, <2>5
<1>13. g[Len(wait')] + Left(p, t, next'[p]) <= adds'[p][t] * LIMIT
  <2>1. g[Len(wait')] = f[Len(wait)] - d /\ f[Len(wait)] \in Int
    BY <1>1, <1>9, <1>10
  <2>2. Left(p, t, next'[p]) = Left(p, t, next[p]) + d
    BY <1>5, <1>7, <1>8
  <2> QED
    BY <1>1, <1>5, <1>8, <1>9, <2>1, <2>2
<1>14. Sums(p, t, g)'
  BY <1>11, <1>12, <1>13 DEF Sums
<1> QED
  BY <1>10, <1>14

\* What a tick makes of the queue: the jobs that wait are older, and the jobs to
\* come follow them, or go on to wait for their time.
LEMMA TickedQueue ==
    ASSUME Shape, Tick
    PROVE  \/ /\ Len(wait') = Len(wait)
              /\ \A i \in 1 .. Len(wait) : wait'[i] = Older(wait[i])
              /\ \A p \in Processes :
                   \/ next[p] = NoJob /\ next'[p] = NoJob
                   \/ next[p] \in Jobs /\ next'[p] = Older(next[p])
           \/ \E due \in Seq(Jobs) :
                /\ Len(wait') = Len(wait) + Len(due)
                /\ \A i \in 1 .. Len(wait) : wait'[i] = Older(wait[i])
                /\ \A i \in 1 .. Len(due) : wait'[Len(wait) + i] = due[i]
                /\ \A p \in Processes : next'[p] = NoJob
                /\ \A i \in 1 .. Len(due) : /\ next[due[i].process] \in Jobs
                                            /\ due[i] = Older(next[due[i].process])
                /\ \A i, k \in 1 .. Len(due) : due[i].process = due[k].process => i = k
                /\ \A p \in Processes :
                     next[p] # NoJob => \E i \in 1 .. Len(due) : due[i].process = p
<1>1. /\ Len(wait) \in Nat /\ DOMAIN wait = 1 .. Len(wait)
      /\ \A i \in 1 .. Len(wait) : wait[i] \in Jobs
  BY LenProperties, ElementOfSeq DEF Shape, TypeOK
<1> DEFINE older == [i \in DOMAIN wait |-> Older(wait[i])]
<1>2. /\ older \in Seq(Jobs) /\ Len(older) = Len(wait)
      /\ \A i \in 1 .. Len(wait) : older[i] = Older(wait[i])
  BY <1>1, OlderJob
<1>3. CASE phase' = 0
  <2>1. PICK due \in Due : wait' = older \o due
    BY <1>3 DEF Tick
  <2>2. /\ due \in Seq(Jobs)
        /\ \A i \in DOMAIN due : /\ next[due[i].process] # NoJob
                                 /\ due[i] = Older(next[due[i].process])
        /\ \A i, k \in DOMAIN due : due[i].process = due[k].process => i = k
        /\ \A p \in Processes : next[p] # NoJob => \E i \in DOMAIN due : due[i].process = p
    BY DueJobs DEF Shape
  <2>3. Len(due) \in Nat /\ DOMAIN due = 1 .. Len(due)
        /\ \A i \in 1 .. Len(due) : due[i] \in Jobs
    BY <2>2, LenProperties, ElementOfSeq
  <2>4. \A p \in Processes : next'[p] = NoJob
    BY <1>3 DEF Tick
  <2>5. \A i \in 1 .. Len(due) : next[due[i].process] \in Jobs
    BY <2>2, <2>3, JobFacts DEF Shape, TypeOK
  <2> HIDE DEF older
  <2>6. /\ Len(wait') = Len(wait) + Len(due)
        /\ \A i \in 1 .. Len(wait) + Len(due) :
             wait'[i] = IF i <= Len(wait) THEN older[i] ELSE due[i - Len(wait)]
    <3>1. /\ Len(older \o due) = Len(older) + Len(due)
          /\ \A i \in 1 .. Len(older) + Len(due) :
               (older \o due)[i] = IF i <= Len(older) THEN older[i] ELSE due[i - Len(older)]
      <4>1. older \in Seq(Jobs) /\ due \in Seq(Jobs)
        BY <1>2, <2>2
      <4> QED
        BY <4>1, ConcatProperties, Zenon
    <3> QED
      BY <1>2, <2>1, <3>1
  <2>7. \A i \in 1 .. Len(wait) : wait'[i] = Older(wait[i])
    BY <1>1, <1>2, <2>3, <2>6
  <2>8. \A i \in 1 .. Len(due) : wait'[Len(wait) + i] = due[i]
    BY <1>1, <2>3, <2>6
  <2>9. /\ \A i \in 1 .. Len(due) : /\ next[due[i].process] \in Jobs
                                    /\ due[i] = Older(next[due[i].process])
        /\ \A i, k \in 1 .. Len(due) : due[i].process = due[k].process => i = k
        /\ \A p \in Processes :
             next[p] # NoJob => \E i \in 1 .. Len(due) : due[i].process = p
    BY <2>2, <2>3, <2>5
  <2> QED
    BY <2>2, <2>4, <2>6, <2>7, <2>8, <2>9, Zenon
<1>4. CASE phase' # 0
  <2>1. wait' = older /\ next' = [p \in Processes |-> Older(next[p])]
    BY <1>4 DEF Tick
  <2>2. \A p \in Processes :
          \/ next[p] = NoJob /\ next'[p] = NoJob
          \/ next[p] \in Jobs /\ next'[p] = Older(next[p])
    BY <2>1 DEF Shape, TypeOK, Older
  <2> HIDE DEF older
  <2> QED
    BY <1>2, <2>1, <2>2
<1> QED
  BY <1>3, <1>4

\* Jobs that fall due are the jobs that were to come.
LEMMA TickKeepsRuns ==
    ASSUME Shape, Shape', RunsWithinLimit, Tick
    PROVE  RunsWithinLimit'
<1> SUFFICES ASSUME NEW p \in Processes, NEW t \in Tokens
             PROVE  \E f \in [0 .. Len(wait') -> Int] : Sums(p, t, f)'
  BY DEF RunsWithinLimit
<1>1. PICK f \in [0 .. Len(wait) -> Int] : Sums(p, t, f)
  BY DEF RunsWithinLimit
<1>2. /\ Len(wait) \in Nat /\ UNCHANGED <<checks, adds>>
      /\ \A i \in 1 .. Len(wait) : wait[i] \in Jobs /\ Left(p, t, wait[i]) \in 0 .. LIMIT
      /\ Left(p, t, next[p]) \in 0 .. LIMIT /\ LIMIT \in Nat
      /\ checks[p][t] \in Nat /\ adds[p][t] * LIMIT \in Int
  <2>1. UNCHANGED <<checks, adds>>
    BY DEF Tick, history
  <2>2. adds[p][t] \in Nat /\ LIMIT \in Nat
    BY QueueTypes, LimitIsPositive DEF Shape
  <2> QED
    BY <2>1, <2>2, QueueTypes DEF Shape
<1>3. /\ \A i \in 0 .. Len(wait) : f[i] \in Int /\ checks[p][t] <= f[i]
      /\ \A i, l \in 0 .. Len(wait) : i < l => f[i] + Left(p, t, wait[i + 1]) <= f[l]
      /\ f[Len(wait)] + Left(p, t, next[p]) <= adds[p][t] * LIMIT
  BY <1>1, <1>2 DEF Sums
<1>4. CASE /\ Len(wait') = Len(wait)
           /\ \A i \in 1 .. Len(wait) : wait'[i] = Older(wait[i])
           /\ \A q \in Processes : \/ next[q] = NoJob /\ next'[q] = NoJob
                                   \/ next[q] \in Jobs /\ next'[q] = Older(next[q])
  <2>1. /\ \A i \in 1 .. Len(wait) : Left(p, t, wait'[i]) = Left(p, t, wait[i])
        /\ Left(p, t, next'[p]) = Left(p, t, next[p])
    BY <1>2, <1>4, LeftFacts
  <2>2. \A i, l \in 0 .. Len(wait) : i < l => i + 1 \in 1 .. Len(wait)
    BY <1>2
  <2>3. Sums(p, t, f)'
    BY <1>2, <1>3, <1>4, <2>1, <2>2 DEF Sums
  <2> QED
    BY <1>4, <2>3
<1>5. ASSUME NEW due \in Seq(Jobs),
             Len(wait') = Len(wait) + Len(due),
             \A i \in 1 .. Len(wait) : wait'[i] = Older(wait[i]),
             \A i \in 1 .. Len(due) : wait'[Len(wait) + i] = due[i],
             \A q \in Processes : next'[q] = NoJob,
             \A i \in 1 .. Len(due) : /\ next[due[i].process] \in Jobs
                                      /\ due[i] = Older(next[due[i].process]),
             \A i, k \in 1 .. Len(due) : due[i].process = due[k].process => i = k
      PROVE  \E g \in [0 .. Len(wait') -> Int] : Sums(p, t, g)'
  <2>1. /\ Len(due) \in Nat
        /\ \A i \in 1 .. Len(due) : due[i] \in Jobs
    BY LenProperties, ElementOfSeq
\* The sums go on behind the last job that waited: by what the due job of p
\* leaves from where it is.
  <2> DEFINE Passed(i) == \E k \in 1 .. Len(due) : k <= i - Len(wait) /\ due[k].process = p
             h(i) == IF i <= Len(wait) THEN f[i]
                     ELSE IF Passed(i) THEN f[Len(wait)] + Left(p, t, next[p]) ELSE f[Len(wait)]
  <2>2. \A i \in 0 .. Len(wait') : h(i) \in Int /\ checks[p][t] <= h(i)
    <3> TAKE i \in 0 .. Len(wait')
    <3>1. f[Len(wait)] \in Int /\ checks[p][t] <= f[Len(wait)]
      BY <1>2, <1>3
    <3>2. CASE i <= Len(wait)
      BY <1>2, <1>3, <3>2
    <3>3. CASE ~(i <= Len(wait))
      BY <1>2, <3>1, <3>3
    <3> QED
      BY <3>2, <3>3
  <2>3. \A i, l \in 0 .. Len(wait') : i < l => h(i) + Left(p, t, wait'[i + 1]) <= h(l)
    <3> SUFFICES ASSUME NEW i \in 0 .. Len(wait'), NEW l \in 0 .. Len(wait'), i < l
                 PROVE  h(i) + Left(p, t, wait'[i + 1]) <= h(l)
      OBVIOUS
    <3>1. f[Len(wait)] \in Int /\ Left(p, t, next[p]) \in Nat
      BY <1>2, <1>3
    <3>2. CASE l <= Len(wait)
      <4>1. /\ i \in 0 .. Len(wait) /\ l \in 0 .. Len(wait) /\ i + 1 \in 1 .. Len(wait)
        BY <1>2, <3>2
      <4>2. Left(p, t, wait'[i + 1]) = Left(p, t, wait[i + 1])
        BY <1>2, <1>5, <4>1, LeftFacts
      <4>3. h(i) = f[i] /\ h(l) = f[l]
        BY <4>1
      <4> QED
        BY <1>3, <4>1, <4>2, <4>3
    <3>3. CASE i < Len(wait) /\ ~(l <= Len(wait))
      <4>1. /\ i \in 0 .. Len(wait) /\ Len(wait) \in 0 .. Len(wait) /\ i + 1 \in 1 .. Len(wait)
        BY <1>2, <3>3
      <4>2. Left(p, t, wait'[i + 1]) = Left(p, t, wait[i + 1])
        BY <1>2, <1>5, <4>1, LeftFacts
      <4>3. f[i] + Left(p, t, wait[i + 1]) <= f[Len(wait)]
        BY <1>3, <3>3, <4>1
      <4>4. f[i] \in Int /\ Left(p, t, wait[i + 1]) \in Int
        BY <1>2, <1>3, <4>1
      <4>5. h(i) = f[i] /\ f[Len(wait)] <= h(l)
        BY <3>1, <3>3, <4>1
      <4>6. h(l) \in Int
        BY <2>2
      <4> QED
        BY <3>1, <4>2, <4>3, <4>4, <4>5, <4>6
    <3>4. CASE ~(i < Len(wait)) /\ ~(l <= Len(wait))
      <4> DEFINE k == i + 1 - Len(wait)
      <4>1. k \in 1 .. Len(due) /\ k <= l - Len(wait) /\ i + 1 = Len(wait) + k
            /\ l - Len(wait) \in Int /\ k - 1 = i - Len(wait)
        BY <1>2, <1>5, <2>1, <3>4
      <4>2. wait'[i + 1] = due[k] /\ due[k] = Older(next[due[k].process])
            /\ next[due[k].process] \in Jobs /\ due[k] \in Jobs
        BY <1>5, <2>1, <4>1
      <4>3. h(i) \in {f[Len(wait)], f[Len(wait)] + Left(p, t, next[p])}
            /\ (~Passed(i) => h(i) = f[Len(wait)])
        BY <1>2, <3>4
      <4>4. h(l) = IF Passed(l) THEN f[Len(wait)] + Left(p, t, next[p]) ELSE f[Len(wait)]
        BY <3>4
      <4>5. Passed(i) => Passed(l)
        BY <1>2, <2>1, <4>1
      <4>6. CASE due[k].process = p
        <5>1. Passed(l)
          BY <4>1, <4>6
        <5>2. ~Passed(i)
          <6> SUFFICES ASSUME NEW m \in 1 .. Len(due), m <= i - Len(wait), due[m].process = p
                       PROVE  FALSE
            OBVIOUS
          <6>1. m = k
            BY <1>5, <4>1, <4>6
          <6> QED
            BY <1>2, <4>1, <6>1
        <5>3. Left(p, t, wait'[i + 1]) = Left(p, t, next[p])
          BY <4>2, <4>6, LeftFacts
        <5> QED
          BY <3>1, <4>3, <4>4, <5>1, <5>2, <5>3
      <4>7. CASE due[k].process # p
        <5>1. Left(p, t, wait'[i + 1]) = 0
          BY <4>2, <4>7, LeftFacts
        <5>2. h(i) <= h(l) /\ h(i) \in Int
          <6> HIDE DEF Passed
          <6>1. h(i) = IF Passed(i) THEN f[Len(wait)] + Left(p, t, next[p]) ELSE f[Len(wait)]
            <7>1. CASE i = Len(wait)
              <8>1. ~Passed(i)
                BY <1>2, <2>1, <7>1 DEF Passed
              <8> QED
                BY <1>2, <7>1, <8>1
            <7>2. CASE i # Len(wait)
              <8>1. ~(i <= Len(wait))
                BY <1>2, <3>4, <7>2
              <8> QED
                BY <8>1
            <7> QED
              BY <7>1, <7>2
          <6> QED
            BY <3>1, <4>4, <4>5, <6>1
        <5> QED
          BY <5>1, <5>2
      <4> QED
        BY <4>6, <4>7
    <3> QED
      BY <1>2, <2>1, <3>2, <3>3, <3>4
  <2>4. h(Len(wait')) + Left(p, t, next'[p]) <= adds'[p][t] * LIMIT
    <3>1. Left(p, t, next'[p]) = 0
      BY <1>5, LeftFacts
    <3>2. f[Len(wait)] \in Int /\ Left(p, t, next[p]) \in Nat
      BY <1>2, <1>3
    <3>3. h(Len(wait')) \in {f[Len(wait)], f[Len(wait)] + Left(p, t, next[p])}
      BY <1>2, <1>5, <2>1
    <3>4. PICK x, y, z, c : /\ x = f[Len(wait)] /\ y = Left(p, t, next[p])
                            /\ z = h(Len(wait')) /\ c = adds[p][t] * LIMIT
      OBVIOUS
    <3>5. x \in Int /\ y \in Nat /\ c \in Int /\ z \in {x, x + y} /\ x + y <= c
      BY <1>2, <1>3, <3>2, <3>3, <3>4
    <3>6. z + 0 <= c
      BY <3>5
    <3> QED
      BY <1>2, <3>1, <3>4, <3>6
  <2> HIDE DEF h
  <2>5. PICK g \in [0 .. Len(wait') -> Int] : \A i \in 0 .. Len(wait') : g[i] = h(i)
    <3>1. [i \in 0 .. Len(wait') |-> h(i)] \in [0 .. Len(wait') -> Int]
      BY <2>2
    <3> QED
      BY <3>1
  <2>6. Len(wait') \in Nat
    BY <1>2, <1>5, <2>1
  <2>7. Sums(p, t, g)'
    BY <1>2, <2>2, <2>3, <2>4, <2>5, <2>6 DEF Sums
  <2> QED
    BY <2>5, <2>7
<1> QED
  BY <1>4, <1>5, TickedQueue

\* What add changes of the counters, for every chain
LEMMA AddOfJob ==
    ASSUME Shape, NEW j \in Jobs, Add(j), NEW p \in Processes, NEW t \in Tokens
    PROVE  /\ p = j.process /\ t = j.mint => adds'[p][t] = adds[p][t] + 1
           /\ ~(p = j.process /\ t = j.mint) => adds'[p][t] = adds[p][t]
           /\ next'[p] = IF p = j.process /\ next[p] = NoJob THEN j ELSE next[p]
<1>1. j.process \in Processes /\ j.mint \in Tokens
  BY JobFacts
<1>2. adds \in [Processes -> [Tokens -> Nat]] /\ next \in [Processes -> Jobs \cup {NoJob}]
  BY DEF Shape, TypeOK
<1>3. adds[p] \in [Tokens -> Nat] /\ adds[j.process] \in [Tokens -> Nat]
  BY <1>1, <1>2
<1>4. adds' = [adds EXCEPT ![j.process] =
                 [adds[j.process] EXCEPT ![j.mint] = adds[j.process][j.mint] + 1]]
  BY AddKeepsShape
<1>5. next'[p] = IF p = j.process /\ next[p] = NoJob THEN j ELSE next[p]
  BY <1>1, <1>2 DEF Add
<1>6. adds'[p] = IF p = j.process
                 THEN [adds[p] EXCEPT ![j.mint] = adds[p][j.mint] + 1] ELSE adds[p]
  BY <1>1, <1>2, <1>4
<1> QED
  BY <1>1, <1>3, <1>5, <1>6

LEMMA AddKeepsRuns ==
    ASSUME Shape, Shape', RunsWithinLimit, NEW j \in Jobs, Add(j)
    PROVE  RunsWithinLimit'
<1>1. UNCHANGED <<wait, checks>>
  BY DEF Add
<1>2. ASSUME NEW p \in Processes, NEW t \in Tokens
      PROVE  \/ adds'[p][t] = adds[p][t] /\ next'[p] \in {next[p], NoJob}
             \/ adds'[p][t] = adds[p][t] + 1
             \/ adds'[p][t] = adds[p][t] /\ next'[p] \in Jobs /\ next'[p].mint # t
  BY <1>2, AddOfJob
<1> QED
  BY <1>1, <1>2, SameWaitKeepsRuns

\* The job that startPositionMonitoring adds
LEMMA AddedPosition ==
    ASSUME Shape, NEW w \in Workers, StartPositionMonitoring(w)
    PROVE  \E j \in Jobs : /\ j.process = "position" /\ j.mint = job[w].mint /\ j.count = 1
                           /\ Add(j)
<1>1. PICK m \in Metrics :
        Add([process |-> "position", mint |-> job[w].mint, age |-> 0,
             entryPrice |-> StoredPrice(m.price), count |-> 1])
  BY DEF StartPositionMonitoring
<1>2. job[w].mint \in Tokens
  BY HeldJob DEF StartPositionMonitoring, Shape, HandlersHoldJobs
<1>3. StoredPrice(m.price) \in EntryPrices
  BY DEF EntryPrices
<1>4. [process |-> "position", mint |-> job[w].mint, age |-> 0,
       entryPrice |-> StoredPrice(m.price), count |-> 1] \in Jobs
  BY <1>2, <1>3, NewJob DEF Processes
<1> QED
  BY <1>1, <1>4

\* The steps of a worker that add no job and take none: they leave what waits and
\* what was counted alone, and remove the job to come of a process at most.
OtherStep(w) ==
    \/ CheckEntryConditions(w) \/ RemoveInitial(w) \/ CheckExitConditions(w)
    \/ RemovePosition(w) \/ JobFails(w)

LEMMA OtherSteps ==
    ASSUME Shape, NEW w \in Workers, OtherStep(w)
    PROVE  /\ UNCHANGED <<wait, adds, checks, crowded>>
           /\ \A p \in Processes : next'[p] \in {next[p], NoJob}
<1>1. CASE RemoveInitial(w)
  BY <1>1, RemoveKeepsShape DEF RemoveInitial, RemoveRepeatable, history, Processes
<1>2. CASE RemovePosition(w)
  BY <1>2, RemoveKeepsShape DEF RemovePosition, RemoveRepeatable, history, Processes
<1>3. CASE CheckEntryConditions(w)
  BY <1>3 DEF CheckEntryConditions, queue
<1>4. CASE CheckExitConditions(w)
  BY <1>4 DEF CheckExitConditions, queue
<1>5. CASE JobFails(w)
  BY <1>5 DEF JobFails, queue, history
<1> QED
  BY <1>1, <1>2, <1>3, <1>4, <1>5 DEF OtherStep

LEMMA RunsHold == Spec => []RunsWithinLimit
<1>1. Init => RunsWithinLimit
  <2> SUFFICES ASSUME Init, NEW p \in Processes, NEW t \in Tokens
               PROVE  \E f \in [0 .. Len(wait) -> Int] : Sums(p, t, f)
    BY DEF RunsWithinLimit
  <2>1. /\ wait = <<>> /\ Len(wait) = 0 /\ checks[p][t] = 0 /\ adds[p][t] = 0
        /\ next[p] = NoJob
    BY DEF Init
  <2>2. Left(p, t, next[p]) = 0 /\ 0 * LIMIT = 0
    BY <2>1, LeftFacts, LimitIsPositive
  <2>3. Sums(p, t, [i \in 0 .. Len(wait) |-> 0])
    BY <2>1, <2>2 DEF Sums
  <2>4. [i \in 0 .. Len(wait) |-> 0] \in [0 .. Len(wait) -> Int]
    OBVIOUS
  <2> QED
    BY <2>3, <2>4
<1>2. Shape /\ Shape' /\ RunsWithinLimit /\ [Next]_vars => RunsWithinLimit'
  <2> SUFFICES ASSUME Shape, Shape', RunsWithinLimit, [Next]_vars PROVE RunsWithinLimit'
    OBVIOUS
  <2>1. ASSUME NEW t \in Tokens, StartInitialMonitoring(t) PROVE RunsWithinLimit'
    <3>1. [process |-> "initial", mint |-> t, age |-> 0, entryPrice |-> Zero, count |-> 1] \in Jobs
      BY NewJob DEF Processes, EntryPrices
    <3> QED
      BY <2>1, <3>1, AddKeepsRuns DEF StartInitialMonitoring
  <2>2. ASSUME NEW w \in Workers, Step(w) PROVE RunsWithinLimit'
    <3>1. CASE Take(w)
      BY <3>1, TakeKeepsRuns
    <3>2. CASE StartPositionMonitoring(w)
      BY <3>2, AddedPosition, AddKeepsRuns
    <3>3. CASE OtherStep(w)
      BY <3>3, OtherSteps, SameWaitKeepsRuns
    <3> QED
      BY <2>2, <3>1, <3>2, <3>3 DEF Step, OtherStep
  <2>3. CASE Tick
    BY <2>3, TickKeepsRuns
  <2>4. CASE UNCHANGED vars
    BY <2>4, SameWaitKeepsRuns DEF vars, queue, history
  <2> QED
    BY <2>1, <2>2, <2>3, <2>4 DEF Next
<1> QED
  BY <1>1, <1>2, ShapeHolds, PTL DEF Spec

(***************************************************************************)
(* For any tokens, workers and metrics and any limit, a job is checked at  *)
(* most as often as the limit of its repetition says: runs that overlap,   *)
(* keys that were removed too late and jobs lost to another token of the   *)
(* same process never add a check.                                         *)
(***************************************************************************)
THEOREM ChecksAreLimited == Spec => []ChecksWithinLimit
<1>1. Shape /\ RunsWithinLimit => ChecksWithinLimit
  <2> SUFFICES ASSUME Shape, RunsWithinLimit, NEW p \in Processes, NEW t \in Tokens
               PROVE  checks[p][t] <= adds[p][t] * LIMIT
    BY DEF ChecksWithinLimit, LIMIT
  <2>1. PICK f \in [0 .. Len(wait) -> Int] : Sums(p, t, f)
    BY DEF RunsWithinLimit
  <2>2. /\ Len(wait) \in 0 .. Len(wait) /\ Left(p, t, next[p]) \in Nat
        /\ checks[p][t] \in Int /\ LIMIT \in Nat /\ adds[p][t] \in Nat
    BY QueueTypes, LimitIsPositive DEF Shape
  <2>3. adds[p][t] * LIMIT \in Int /\ f[Len(wait)] \in Int
    BY <2>2
  <2> QED
    BY <2>1, <2>2, <2>3 DEF Sums
<1> QED
  BY <1>1, ShapeHolds, RunsHold, PTL

-----------------------------------------------------------------------------
(* When a token is checked that often.  A process whose jobs were added    *)
(* one after the other has one job at most, to come or due, and only the   *)
(* handlers of its token can end it: the job stands where the checks so    *)
(* far have brought it, and the tokens before it have had all of theirs.   *)

\* j is the only job of process p in the queue, NoJob when it has none.
Only(p, j) ==
    \/ /\ next[p] = j
       /\ \A i \in 1 .. Len(wait) : wait[i].process # p
    \/ /\ next[p] = NoJob
       /\ \E i \in 1 .. Len(wait) :
            /\ wait[i] = j /\ j.process = p
            /\ \A k \in 1 .. Len(wait) : wait[k].process = p => k = i

GoesOn(p, j) ==
    /\ \/ <<p, j.mint>> \in ended
       \/ p \in keys /\ checks[p][j.mint] = (adds[p][j.mint] - 1) * LIMIT + (j.count - 1)
    /\ \A w \in Workers : Deciding(w) /\ job[w].process = p => job[w].mint = j.mint

IsOver(p, t) == <<p, t>> \in ended \/ checks[p][t] = adds[p][t] * LIMIT

ChainOf(p, j) ==
    /\ Only(p, j)
    /\ j # NoJob => GoesOn(p, j)
    /\ \A t \in Tokens : (j # NoJob /\ j.mint = t) \/ IsOver(p, t)

OneAfterTheOther ==
    \A p \in Processes \ crowded : \E j \in Jobs \cup {NoJob} : ChainOf(p, j)

\* What a step leaves of a chain that it neither extends nor checks
LEMMA ChainStays ==
    ASSUME NEW p \in Processes, NEW j \in Jobs \cup {NoJob}, ChainOf(p, j),
           NEW k \in Jobs \cup {NoJob}, Only(p, k)',
           \/ k = NoJob /\ (j # NoJob => <<p, j.mint>> \in ended')
           \/ /\ j # NoJob /\ k # NoJob /\ k.mint = j.mint /\ k.count = j.count
              /\ p \in keys => p \in keys' \/ <<p, j.mint>> \in ended',
           ended \subseteq ended', checks'[p] = checks[p], adds'[p] = adds[p],
           \A w \in Workers : Deciding(w)' /\ job'[w].process = p =>
               Deciding(w) /\ job[w].process = p /\ job'[w].mint = job[w].mint
    PROVE  ChainOf(p, k)'
<1>1. \A t \in Tokens : IsOver(p, t) => IsOver(p, t)'
  BY DEF IsOver
<1>2. CASE k = NoJob /\ (j # NoJob => <<p, j.mint>> \in ended')
  BY <1>1, <1>2 DEF ChainOf, IsOver
<1>3. CASE /\ j # NoJob /\ k # NoJob /\ k.mint = j.mint /\ k.count = j.count
           /\ p \in keys => p \in keys' \/ <<p, j.mint>> \in ended'
  <2>1. GoesOn(p, j)
    BY <1>3 DEF ChainOf
  <2>2. \/ <<p, k.mint>> \in ended'
        \/ p \in keys' /\ checks'[p][k.mint] = (adds'[p][k.mint] - 1) * LIMIT + (k.count - 1)
    BY <1>3, <2>1 DEF GoesOn
  <2>3. \A w \in Workers : Deciding(w)' /\ job'[w].process = p => job'[w].mint = k.mint
    BY <1>3, <2>1 DEF GoesOn
  <2>4. GoesOn(p, k)'
    BY <2>2, <2>3 DEF GoesOn
  <2> QED
    BY <1>1, <1>3, <2>4 DEF ChainOf
<1> QED
  BY <1>2, <1>3

\* The job to come is dropped or stays.
LEMMA OnlyWhenDropped ==
    ASSUME NEW p \in Processes, NEW j, Only(p, j), UNCHANGED wait,
           next'[p] \in {next[p], NoJob}
    PROVE  Only(p, j)' \/ (next'[p] = NoJob /\ Only(p, NoJob)')
BY DEF Only

\* A job is taken: its own chain has the next run or none, the others stay.
LEMMA OnlyWhenTaken ==
    ASSUME Shape, NEW p \in Processes, NEW j, Only(p, j), NEW w \in Workers, Take(w)
    PROVE  /\ Head(wait).process # p => Only(p, j)'
           /\ Head(wait).process = p => j = Head(wait) /\ next[p] = NoJob /\ Only(p, next[p])'
<1> DEFINE h == Head(wait)
<1>1. /\ h \in Jobs /\ h = wait[1] /\ Len(wait) \in Nat /\ Len(wait) >= 1
      /\ Len(wait') = Len(wait) - 1
      /\ \A i \in 1 .. Len(wait) - 1 : wait'[i] = wait[i + 1]
      /\ h.process \in Processes
  BY TakenJob, JobFacts DEF Take, StillToTake, Shape
<1>2. \A q \in Processes : q # h.process => next'[q] = next[q]
  BY <1>1 DEF Take, Shape, TypeOK
<1> HIDE DEF h
<1>3. ASSUME h.process # p PROVE Only(p, j)'
  <2>1. next'[p] = next[p]
    BY <1>2, <1>3
  <2>2. CASE next[p] = j /\ \A i \in 1 .. Len(wait) : wait[i].process # p
    <3>1. \A i \in 1 .. Len(wait') : wait'[i].process # p
      BY <1>1, <2>2
    <3> QED
      BY <2>1, <2>2, <3>1 DEF Only
  <2>3. CASE /\ next[p] = NoJob
             /\ \E i \in 1 .. Len(wait) :
                  /\ wait[i] = j /\ j.process = p
                  /\ \A k \in 1 .. Len(wait) : wait[k].process = p => k = i
    <3>1. PICK i \in 1 .. Len(wait) :
            /\ wait[i] = j /\ j.process = p
            /\ \A k \in 1 .. Len(wait) : wait[k].process = p => k = i
      BY <2>3
    <3>2. i # 1 /\ i - 1 \in 1 .. Len(wait') /\ (i - 1) + 1 = i
      BY <1>1, <1>3, <3>1
    <3>3. wait'[i - 1] = j
      BY <1>1, <3>1, <3>2
    <3>4. \A k \in 1 .. Len(wait') : wait'[k].process = p => k = i - 1
      <4> SUFFICES ASSUME NEW k \in 1 .. Len(wait'), wait'[k].process = p PROVE k = i - 1
        OBVIOUS
      <4>1. k + 1 \in 1 .. Len(wait) /\ wait'[k] = wait[k + 1]
        BY <1>1
      <4>2. k + 1 = i
        BY <3>1, <4>1
      <4> QED
        BY <1>1, <4>2
    <3> QED
      BY <2>1, <2>3, <3>1, <3>2, <3>3, <3>4 DEF Only
  <2> QED
    BY <2>2, <2>3 DEF Only
<1>4. ASSUME h.process = p PROVE j = h /\ next[p] = NoJob /\ Only(p, next[p])'
  <2>1. 1 \in 1 .. Len(wait)
    BY <1>1
  <2>2. PICK i \in 1 .. Len(wait) :
          /\ wait[i] = j /\ j.process = p /\ next[p] = NoJob
          /\ \A k \in 1 .. Len(wait) : wait[k].process = p => k = i
    BY <1>1, <1>4, <2>1 DEF Only
  <2>3. i = 1
    BY <1>1, <1>4, <2>1, <2>2
  <2>4. \A k \in 1 .. Len(wait') : wait'[k].process # p
    <3> SUFFICES ASSUME NEW k \in 1 .. Len(wait'), wait'[k].process = p PROVE FALSE
      OBVIOUS
    <3>1. k + 1 \in 1 .. Len(wait) /\ wait'[k] = wait[k + 1]
      BY <1>1
    <3>2. k + 1 = 1
      BY <2>2, <2>3, <3>1
    <3> QED
      BY <1>1, <3>2
  <2> QED
    BY <1>1, <2>2, <2>3, <2>4 DEF Only
<1> QED
  BY <1>3, <1>4 DEF h

\* The clock moves every chain alike.
LEMMA OnlyWhenTicked ==
    ASSUME Shape, NEW p \in Processes, NEW j \in Jobs \cup {NoJob}, Only(p, j), Tick
    PROVE  Only(p, Older(j))'
<1>1. /\ Len(wait) \in Nat
      /\ \A i \in 1 .. Len(wait) : wait[i] \in Jobs
      /\ \A i \in 1 .. Len(wait) : Older(wait[i]).process = wait[i].process
      /\ Older(NoJob) = NoJob
      /\ j # NoJob => j \in Jobs /\ Older(j).process = j.process
  <2>1. /\ Len(wait) \in Nat /\ \A i \in 1 .. Len(wait) : wait[i] \in Jobs
    BY LenProperties, ElementOfSeq DEF Shape, TypeOK
  <2>2. Older(NoJob) = NoJob
    BY DEF Older
  <2>3. \A i \in Jobs : Older(i).process = i.process
    BY OlderJob
  <2> QED
    BY <2>1, <2>2, <2>3
<1> DEFINE k == Older(j)
<1>2. k = Older(j)
  OBVIOUS
<1> HIDE DEF k
<1> SUFFICES Only(p, k)'
  BY DEF k
<1>3. CASE /\ Len(wait') = Len(wait)
           /\ \A i \in 1 .. Len(wait) : wait'[i] = Older(wait[i])
           /\ \A q \in Processes : \/ next[q] = NoJob /\ next'[q] = NoJob
                                   \/ next[q] \in Jobs /\ next'[q] = Older(next[q])
  <2>1. \A i \in 1 .. Len(wait) : wait'[i].process = wait[i].process
    BY <1>1, <1>3
  <2>2. next'[p] = Older(next[p]) /\ (next[p] = NoJob => next'[p] = NoJob)
    BY <1>1, <1>3
  <2>3. CASE next[p] = j /\ \A i \in 1 .. Len(wait) : wait[i].process # p
    BY <1>2, <1>3, <2>1, <2>2, <2>3 DEF Only
  <2>4. ASSUME next[p] = NoJob, NEW i \in 1 .. Len(wait), wait[i] = j, j.process = p,
               \A m \in 1 .. Len(wait) : wait[m].process = p => m = i
        PROVE  Only(p, k)'
    <3>1. wait'[i] = k /\ k.process = p
      BY <1>1, <1>2, <1>3, <2>4
    <3> QED
      BY <1>3, <2>1, <2>2, <2>4, <3>1 DEF Only
  <2> QED
    BY <2>3, <2>4 DEF Only
<1>4. ASSUME NEW due \in Seq(Jobs),
             Len(wait') = Len(wait) + Len(due),
             \A i \in 1 .. Len(wait) : wait'[i] = Older(wait[i]),
             \A i \in 1 .. Len(due) : wait'[Len(wait) + i] = due[i],
             \A q \in Processes : next'[q] = NoJob,
             \A i \in 1 .. Len(due) : /\ next[due[i].process] \in Jobs
                                      /\ due[i] = Older(next[due[i].process]),
             \A i, m \in 1 .. Len(due) : due[i].process = due[m].process => i = m,
             \A q \in Processes :
                 next[q] # NoJob => \E i \in 1 .. Len(due) : due[i].process = q
      PROVE  Only(p, k)'
  <2>1. Len(due) \in Nat
    BY LenProperties
  <2>2. \A i \in 1 .. Len(wait) : wait'[i].process = wait[i].process
    BY <1>1, <1>4
  <2>3. ASSUME NEW i \in 1 .. Len(wait')
        PROVE  \/ i \in 1 .. Len(wait) /\ wait'[i].process = wait[i].process
               \/ /\ i - Len(wait) \in 1 .. Len(due)
                  /\ wait'[i] = due[i - Len(wait)]
    <3>1. CASE i <= Len(wait)
      BY <1>1, <2>2, <3>1
    <3>2. CASE ~(i <= Len(wait))
      <4>1. i - Len(wait) \in 1 .. Len(due) /\ Len(wait) + (i - Len(wait)) = i
        BY <1>1, <1>4, <2>1, <3>2
      <4> QED
        BY <1>4, <4>1
    <3> QED
      BY <3>1, <3>2
  <2>4. \A i \in 1 .. Len(due) : due[i].process = p => next[p] # NoJob
    BY <1>4, JobFacts
  <2>5. CASE next[p] = NoJob /\ j = NoJob /\ \A i \in 1 .. Len(wait) : wait[i].process # p
    <3>1. \A i \in 1 .. Len(wait') : wait'[i].process # p
      BY <2>3, <2>4, <2>5
    <3> QED
      BY <1>1, <1>2, <1>4, <2>5, <3>1 DEF Only
  <2>6. CASE next[p] # NoJob /\ next[p] = j /\ \A i \in 1 .. Len(wait) : wait[i].process # p
    <3>1. PICK d \in 1 .. Len(due) : due[d].process = p
      BY <1>4, <2>6
    <3>2. /\ Len(wait) + d \in 1 .. Len(wait') /\ wait'[Len(wait) + d] = due[d]
      BY <1>1, <1>4, <2>1
    <3>3. due[d] = k /\ k.process = p
      BY <1>2, <1>4, <2>6, <3>1
    <3>4. \A i \in 1 .. Len(wait') : wait'[i].process = p => i = Len(wait) + d
      <4> SUFFICES ASSUME NEW i \in 1 .. Len(wait'), wait'[i].process = p
                   PROVE  i = Len(wait) + d
        OBVIOUS
      <4>1. i - Len(wait) \in 1 .. Len(due) /\ due[i - Len(wait)].process = p
        BY <2>3, <2>6
      <4>2. i - Len(wait) = d
        BY <1>4, <3>1, <4>1
      <4> QED
        BY <1>1, <1>4, <2>1, <4>2
    <3> QED
      BY <1>4, <3>2, <3>3, <3>4 DEF Only
  <2>7. ASSUME next[p] = NoJob, NEW i \in 1 .. Len(wait), wait[i] = j, j.process = p,
               \A m \in 1 .. Len(wait) : wait[m].process = p => m = i
        PROVE  Only(p, k)'
    <3>1. wait'[i] = k /\ k.process = p /\ i \in 1 .. Len(wait')
      BY <1>1, <1>2, <1>4, <2>1, <2>7
    <3>2. \A m \in 1 .. Len(wait') : wait'[m].process = p => m = i
      BY <2>3, <2>4, <2>7
    <3> QED
      BY <1>4, <3>1, <3>2 DEF Only
  <2> QED
    BY <2>5, <2>6, <2>7 DEF Only
<1> QED
  BY <1>3, <1>4, TickedQueue

\* What a chain says of the handlers and of the numbers, typed
LEMMA ChainTypes ==
    ASSUME Shape, NEW p \in Processes, NEW j \in Jobs \cup {NoJob}, Only(p, j)
    PROVE  /\ j # NoJob => j \in Jobs /\ j.process = p /\ j.mint \in Tokens /\ j.count \in 1 .. LIMIT
           /\ \A t \in Tokens : checks[p][t] \in Nat /\ adds[p][t] \in Nat
           /\ LIMIT \in Nat
<1>1. j # NoJob => j \in Jobs /\ j.mint \in Tokens /\ j.count \in 1 .. LIMIT
  BY JobFacts
<1>2. j # NoJob => j.process = p
  BY DEF Only, Shape, FiledByProcess
<1>3. \A t \in Tokens : checks[p][t] \in Nat /\ adds[p][t] \in Nat
  BY DEF Shape, TypeOK
<1> QED
  BY <1>1, <1>2, <1>3, LimitIsPositive

\* What a take does to the handlers and the counters
LEMMA TakeFacts ==
    ASSUME Shape, NEW w \in Workers, Take(w)
    PROVE  LET h == Head(wait) IN
           /\ h \in Jobs /\ h.process \in Processes /\ h.mint \in Tokens
           /\ UNCHANGED <<keys, adds, crowded>> /\ ended \subseteq ended'
           /\ \A v \in Workers : v # w => at'[v] = at[v] /\ job'[v] = job[v]
           /\ job'[w].process = h.process /\ job'[w].mint = h.mint
           /\ IsExpired(h) => checks' = checks /\ <<h.process, h.mint>> \in ended'
           /\ ~IsExpired(h) => checks'[h.process][h.mint] = checks[h.process][h.mint] + 1
           /\ \A p \in Processes, t \in Tokens :
                ~(p = h.process /\ t = h.mint) => checks'[p][t] = checks[p][t]
           /\ \A p \in Processes : p # h.process => checks'[p] = checks[p]
<1> DEFINE h == Head(wait)
<1>1. h \in Jobs /\ h.process \in Processes /\ h.mint \in Tokens
      /\ Kept(h).process = h.process /\ Kept(h).mint = h.mint
  BY TakenJob, JobFacts DEF Take, Shape
<1>2. /\ at' = [at EXCEPT ![w] = Handler(h)]
      /\ job' = [job EXCEPT ![w] = Kept(h)]
      /\ checks' = IF IsExpired(h) THEN checks ELSE [checks EXCEPT ![h.process][h.mint] = @ + 1]
      /\ ended' = IF IsExpired(h) THEN ended \cup {<<h.process, h.mint>>} ELSE ended
      /\ UNCHANGED <<keys, adds, crowded>>
  BY DEF Take
<1> HIDE DEF h
<1>3. /\ \A v \in Workers : v # w => at'[v] = at[v] /\ job'[v] = job[v]
      /\ job'[w].process = h.process /\ job'[w].mint = h.mint
  BY <1>1, <1>2 DEF Shape, TypeOK
<1>4. checks \in [Processes -> [Tokens -> Nat]]
  BY DEF Shape, TypeOK
<1>5. ~IsExpired(h) =>
        checks' = [checks EXCEPT ![h.process] =
                     [checks[h.process] EXCEPT ![h.mint] = checks[h.process][h.mint] + 1]]
  BY <1>2
<1>6. ~IsExpired(h) => checks'[h.process][h.mint] = checks[h.process][h.mint] + 1
  BY <1>1, <1>4, <1>5
<1>7. \A p \in Processes : p # h.process => checks'[p] = checks[p]
  BY <1>1, <1>2, <1>4, <1>5
<1>8. \A t \in Tokens : t # h.mint => checks'[h.process][t] = checks[h.process][t]
  <2> TAKE t \in Tokens
  <2>1. checks[h.process] \in [Tokens -> Nat]
    BY <1>1, <1>4
  <2>2. CASE IsExpired(h)
    BY <1>2, <2>2
  <2>3. CASE ~IsExpired(h)
    <3>1. checks'[h.process] =
            [checks[h.process] EXCEPT ![h.mint] = checks[h.process][h.mint] + 1]
      BY <1>1, <1>4, <1>5, <2>3
    <3> QED
      BY <2>1, <3>1
  <2> QED
    BY <2>2, <2>3
<1>9. /\ IsExpired(h) => checks' = checks /\ <<h.process, h.mint>> \in ended'
      /\ ended \subseteq ended'
  BY <1>2
<1>10. \A p \in Processes, t \in Tokens :
         ~(p = h.process /\ t = h.mint) => checks'[p][t] = checks[p][t]
  BY <1>7, <1>8
<1> QED
  BY <1>1, <1>2, <1>3, <1>6, <1>7, <1>9, <1>10 DEF h

\* A run of the chain: its check moves the job on, or brings it to its end.
LEMMA ChainRuns ==
    ASSUME Shape, Shape', NEW p \in Processes, NEW j \in Jobs \cup {NoJob}, ChainOf(p, j),
           NEW w \in Workers, Take(w), Head(wait).process = p
    PROVE  \E k \in Jobs \cup {NoJob} : ChainOf(p, k)'
<1>1. j = Head(wait) /\ next[p] = NoJob /\ Only(p, next[p])'
  BY OnlyWhenTaken DEF ChainOf
<1>2. /\ j \in Jobs /\ j # NoJob /\ j.process = p /\ j.mint \in Tokens
      /\ UNCHANGED <<keys, adds, crowded>> /\ ended \subseteq ended'
      /\ \A v \in Workers : v # w => at'[v] = at[v] /\ job'[v] = job[v]
      /\ job'[w].process = p /\ job'[w].mint = j.mint
      /\ IsExpired(j) => checks' = checks /\ <<p, j.mint>> \in ended'
      /\ ~IsExpired(j) => checks'[p][j.mint] = checks[p][j.mint] + 1
      /\ \A t \in Tokens : t # j.mint => checks'[p][t] = checks[p][t]
  BY <1>1, TakeFacts, JobFacts
<1>3. PICK k : k = next'[p]
  OBVIOUS
<1>4. Only(p, k)' /\ k \in Jobs \cup {NoJob}
  BY <1>1, <1>3 DEF Only, Shape, TypeOK
<1>5. GoesOn(p, j)
  BY <1>2 DEF ChainOf
<1>6. \A t \in Tokens : t # j.mint => IsOver(p, t)'
  BY <1>2 DEF ChainOf, IsOver
<1>7. /\ j.count \in 1 .. LIMIT /\ LIMIT \in Nat
      /\ checks[p][j.mint] \in Nat /\ adds[p][j.mint] \in Nat
  BY <1>2, ChainTypes, JobFacts, LimitIsPositive DEF ChainOf
<1>8. CASE Repeats(j)
  <2>1. k = [j EXCEPT !.count = NextCount(@)] /\ WithinLimit(NextCount(j.count))
    BY <1>1, <1>2, <1>3, <1>8 DEF Take, Repeats, Shape, TypeOK
  <2>2. k \in Jobs /\ k # NoJob /\ k.mint = j.mint /\ k.count = j.count + 1
    BY <1>2, <2>1, NextRun, JobFacts
  <2>3. \/ <<p, k.mint>> \in ended'
        \/ /\ p \in keys'
           /\ checks'[p][k.mint] = (adds'[p][k.mint] - 1) * LIMIT + (k.count - 1)
    <3>1. CASE IsExpired(j) \/ <<p, j.mint>> \in ended
      BY <1>2, <2>2, <3>1
    <3>2. CASE ~(IsExpired(j) \/ <<p, j.mint>> \in ended)
      <4>1. p \in keys'
            /\ checks'[p][j.mint] = (adds[p][j.mint] - 1) * LIMIT + (j.count - 1) + 1
        BY <1>2, <1>5, <3>2 DEF GoesOn
      <4>2. (adds[p][j.mint] - 1) * LIMIT \in Int
        BY <1>7
      <4>3. (adds[p][j.mint] - 1) * LIMIT + (j.count - 1) + 1
              = (adds[p][j.mint] - 1) * LIMIT + (k.count - 1)
        BY <1>7, <2>2, <4>2
      <4> QED
        BY <1>2, <2>2, <4>1, <4>3
    <3> QED
      BY <3>1, <3>2
  <2>4. \A v \in Workers : Deciding(v)' /\ job'[v].process = p => job'[v].mint = k.mint
    BY <1>2, <1>5, <2>2 DEF GoesOn, Deciding
  <2>5. GoesOn(p, k)'
    BY <2>3, <2>4 DEF GoesOn
  <2> QED
    BY <1>4, <1>6, <2>2, <2>5 DEF ChainOf
<1>9. CASE ~Repeats(j)
  <2>1. k = NoJob
    BY <1>1, <1>3, <1>9 DEF Take
  <2>2. IsOver(p, j.mint)'
    <3>1. CASE IsExpired(j) \/ <<p, j.mint>> \in ended
      BY <1>2, <3>1 DEF IsOver
    <3>2. CASE ~(IsExpired(j) \/ <<p, j.mint>> \in ended)
      <4>1. /\ p \in keys
            /\ checks[p][j.mint] = (adds[p][j.mint] - 1) * LIMIT + (j.count - 1)
            /\ checks'[p][j.mint] = checks[p][j.mint] + 1
        BY <1>2, <1>5, <3>2 DEF GoesOn
      <4>2. j.count = LIMIT
        <5>1. ~(j.count + 1 <= LIMIT)
          BY <1>1, <1>2, <1>9, <4>1 DEF Repeats, WithinLimit, NextCount
        <5> QED
          BY <1>7, <5>1
      <4>3. (adds[p][j.mint] - 1) * LIMIT = adds[p][j.mint] * LIMIT - LIMIT
            /\ adds[p][j.mint] * LIMIT \in Int
        BY <1>7
      <4>4. checks'[p][j.mint] = adds'[p][j.mint] * LIMIT
        BY <1>2, <1>7, <4>1, <4>2, <4>3
      <4> QED
        BY <4>4 DEF IsOver
    <3> QED
      BY <3>1, <3>2
  <2> QED
    BY <1>4, <1>6, <2>1, <2>2 DEF ChainOf
<1> QED
  BY <1>8, <1>9

\* A job that is added to a process with nothing pending starts a chain.
LEMMA ChainStarts ==
    ASSUME Shape, Shape', NEW j \in Jobs, Add(j), j.count = 1, ~Pending(j.process),
           NEW i \in Jobs \cup {NoJob}, ChainOf(j.process, i),
           \A w \in Workers : Deciding(w)' => Deciding(w) /\ job'[w] = job[w]
    PROVE  ChainOf(j.process, j)'
<1> DEFINE p == j.process
<1>1. /\ p \in Processes /\ j.mint \in Tokens /\ j # NoJob
      /\ next[p] = NoJob /\ Len(wait) \in Nat
      /\ \A m \in 1 .. Len(wait) : wait[m].process # p
      /\ \A w \in Workers : ~(Deciding(w) /\ job[w].process = p)
  <2>1. DOMAIN wait = 1 .. Len(wait) /\ Len(wait) \in Nat
    BY LenProperties DEF Shape, TypeOK
  <2> QED
    BY <2>1, JobFacts DEF Pending
<1>2. i = NoJob
  BY <1>1 DEF ChainOf, Only
<1>3. \A t \in Tokens : IsOver(p, t)
  BY <1>2 DEF ChainOf
<1>4. /\ wait' = wait /\ next'[p] = j /\ ended' = ended /\ p \in keys' /\ checks' = checks
      /\ adds'[p][j.mint] = adds[p][j.mint] + 1
      /\ \A t \in Tokens : t # j.mint => adds'[p][t] = adds[p][t]
  <2>1. /\ wait' = wait /\ ended' = ended /\ p \in keys' /\ checks' = checks
    BY DEF Add
  <2>2. next'[p] = j
    BY <1>1, AddOfJob
  <2>3. adds'[p][j.mint] = adds[p][j.mint] + 1
    BY <1>1, AddOfJob
  <2>4. \A t \in Tokens : t # j.mint => adds'[p][t] = adds[p][t]
    BY <1>1, AddOfJob
  <2> QED
    BY <2>1, <2>2, <2>3, <2>4
<1>5. Only(p, j)'
  BY <1>1, <1>4 DEF Only
<1>6. \/ <<p, j.mint>> \in ended'
      \/ p \in keys' /\ checks'[p][j.mint] = (adds'[p][j.mint] - 1) * LIMIT + (j.count - 1)
  <2>1. /\ adds[p][j.mint] \in Nat /\ LIMIT \in Nat
    BY <1>1, LimitIsPositive DEF Shape, TypeOK
  <2>2. ((adds[p][j.mint] + 1) - 1) * LIMIT + (1 - 1) = adds[p][j.mint] * LIMIT
    BY <2>1
  <2>3. \/ <<p, j.mint>> \in ended
        \/ checks[p][j.mint] = adds[p][j.mint] * LIMIT
    BY <1>1, <1>3 DEF IsOver
  <2> QED
    BY <1>4, <2>2, <2>3
<1>7. \A w \in Workers : Deciding(w)' /\ job'[w].process = p => job'[w].mint = j.mint
  BY <1>1
<1>8. GoesOn(p, j)'
  BY <1>6, <1>7 DEF GoesOn
<1>9. \A t \in Tokens : t # j.mint => IsOver(p, t)'
  BY <1>3, <1>4 DEF IsOver
<1> QED
  BY <1>1, <1>5, <1>8, <1>9 DEF ChainOf

\* The chain of a process that add leaves alone, or starts
LEMMA AddKeepsChains ==
    ASSUME Shape, Shape', OneAfterTheOther, NEW j \in Jobs, Add(j), j.count = 1,
           \A w \in Workers : Deciding(w)' => Deciding(w) /\ job'[w] = job[w]
    PROVE  OneAfterTheOther'
<1> SUFFICES ASSUME NEW p \in Processes \ crowded'
             PROVE  \E k \in Jobs \cup {NoJob} : ChainOf(p, k)'
  BY DEF OneAfterTheOther
<1>1. p \in Processes \ crowded /\ (p = j.process => ~Pending(p)) /\ ended' = ended
      /\ checks' = checks /\ wait' = wait /\ keys \subseteq keys'
  BY DEF Add
<1>2. PICK i \in Jobs \cup {NoJob} : ChainOf(p, i)
  BY <1>1 DEF OneAfterTheOther
<1>3. CASE p = j.process
  BY <1>1, <1>2, <1>3, ChainStarts
<1>4. CASE p # j.process
  <2>1. next'[p] = next[p] /\ adds'[p] = adds[p]
    BY <1>1, <1>4, JobFacts DEF Add, Shape, TypeOK
  <2>2. Only(p, i)'
    BY <1>1, <1>2, <2>1 DEF ChainOf, Only
  <2>3. \A w \in Workers : Deciding(w)' /\ job'[w].process = p =>
          Deciding(w) /\ job[w].process = p /\ job'[w].mint = job[w].mint
    OBVIOUS
  <2>4. ended \subseteq ended' /\ checks'[p] = checks[p] /\ (p \in keys => p \in keys')
    BY <1>1
  <2>5. CASE i = NoJob
    BY <1>2, <2>1, <2>2, <2>3, <2>4, <2>5, ChainStays
  <2>6. CASE i # NoJob
    BY <1>2, <2>1, <2>2, <2>3, <2>4, <2>6, ChainStays
  <2> QED
    BY <2>5, <2>6
<1> QED
  BY <1>3, <1>4

\* A handler that goes on removes at most the key of its own, ended chain.
LEMMA OtherStepsKeepChains ==
    ASSUME Shape, Shape', OneAfterTheOther, NEW w \in Workers, OtherStep(w)
    PROVE  OneAfterTheOther'
<1> SUFFICES ASSUME NEW p \in Processes \ crowded'
             PROVE  \E k \in Jobs \cup {NoJob} : ChainOf(p, k)'
  BY DEF OneAfterTheOther
<1>1. /\ UNCHANGED <<wait, adds, checks, crowded>>
      /\ next'[p] \in {next[p], NoJob}
  BY OtherSteps
<1>2. PICK j \in Jobs \cup {NoJob} : ChainOf(p, j)
  BY <1>1 DEF OneAfterTheOther
<1>3. ended \subseteq ended'
  BY DEF OtherStep, CheckEntryConditions, RemoveInitial, CheckExitConditions, RemovePosition,
         JobFails, Decide, history
<1>4. \A v \in Workers : Deciding(v)' /\ job'[v].process = p =>
          Deciding(v) /\ job[v].process = p /\ job'[v].mint = job[v].mint
  <2>1. \/ /\ Deciding(w) /\ at' = [at EXCEPT ![w] = at'[w]] /\ job' = job
        \/ at' = [at EXCEPT ![w] = "idle"] /\ job' = [job EXCEPT ![w] = NoJob]
    BY DEF OtherStep, CheckEntryConditions, RemoveInitial, CheckExitConditions,
           RemovePosition, JobFails, Goto, Return, Deciding, Shape, TypeOK
  <2> QED
    BY <2>1 DEF Deciding, Shape, TypeOK
\* What removes the key of p is the handler of a token that has ended.
<1>5. \/ Deciding(w) /\ job[w].process = p /\ <<p, job[w].mint>> \in ended
      \/ next'[p] = next[p] /\ (p \in keys => p \in keys')
  <2>1. CASE RemoveInitial(w)
    <3>1. /\ Deciding(w) /\ job[w].process = "initial" /\ <<job[w].process, job[w].mint>> \in ended
      BY <2>1 DEF RemoveInitial, Shape, HandlersHoldJobs, Deciding
    <3>2. p # "initial" => next'[p] = next[p] /\ (p \in keys => p \in keys')
      BY <2>1 DEF RemoveInitial, RemoveRepeatable, Shape, TypeOK
    <3> QED
      BY <3>1, <3>2
  <2>2. CASE RemovePosition(w)
    <3>1. /\ Deciding(w) /\ job[w].process = "position" /\ <<job[w].process, job[w].mint>> \in ended
      BY <2>2 DEF RemovePosition, Shape, HandlersHoldJobs, Deciding
    <3>2. p # "position" => next'[p] = next[p] /\ (p \in keys => p \in keys')
      BY <2>2 DEF RemovePosition, RemoveRepeatable, Shape, TypeOK
    <3> QED
      BY <3>1, <3>2
  <2>3. CASE CheckEntryConditions(w) \/ CheckExitConditions(w) \/ JobFails(w)
    BY <2>3 DEF CheckEntryConditions, CheckExitConditions, JobFails, queue
  <2> QED
    BY <2>1, <2>2, <2>3 DEF OtherStep
<1>6. j # NoJob => GoesOn(p, j)
  BY <1>2 DEF ChainOf
<1>7. CASE next'[p] = next[p] /\ (p \in keys => p \in keys')
  <2>1. Only(p, j)'
    BY <1>1, <1>2, <1>7 DEF ChainOf, Only
  <2> QED
    BY <1>1, <1>2, <1>3, <1>4, <1>7, <2>1, ChainStays
<1>8. CASE Deciding(w) /\ job[w].process = p /\ <<p, job[w].mint>> \in ended
  <2>1. j # NoJob => <<p, j.mint>> \in ended'
    BY <1>3, <1>6, <1>8 DEF GoesOn
  <2>2. Only(p, j)' \/ (next'[p] = NoJob /\ Only(p, NoJob)')
    BY <1>1, <1>2, OnlyWhenDropped DEF ChainOf
  <2>3. CASE Only(p, j)'
    BY <1>1, <1>2, <1>3, <1>4, <2>1, <2>3, ChainStays
  <2>4. CASE Only(p, NoJob)'
    BY <1>1, <1>2, <1>3, <1>4, <2>1, <2>4, ChainStays
  <2> QED
    BY <2>2, <2>3, <2>4
<1> QED
  BY <1>5, <1>7, <1>8

LEMMA TakeKeepsChains ==
    ASSUME Shape, Shape', OneAfterTheOther, NEW w \in Workers, Take(w)
    PROVE  OneAfterTheOther'
<1> SUFFICES ASSUME NEW p \in Processes \ crowded'
             PROVE  \E k \in Jobs \cup {NoJob} : ChainOf(p, k)'
  BY DEF OneAfterTheOther
<1>1. PICK j \in Jobs \cup {NoJob} : ChainOf(p, j)
  BY TakeFacts DEF OneAfterTheOther
<1>2. CASE Head(wait).process = p
  BY <1>1, <1>2, ChainRuns
<1>3. CASE Head(wait).process # p
  <2>1. Only(p, j)'
    BY <1>1, <1>3, OnlyWhenTaken DEF ChainOf
  <2>2. /\ keys' = keys /\ adds' = adds /\ ended \subseteq ended' /\ checks'[p] = checks[p]
        /\ \A v \in Workers : v # w => at'[v] = at[v] /\ job'[v] = job[v]
        /\ job'[w].process # p
    BY <1>3, TakeFacts
  <2>3. \A v \in Workers : Deciding(v)' /\ job'[v].process = p =>
          Deciding(v) /\ job[v].process = p /\ job'[v].mint = job[v].mint
    BY <2>2 DEF Deciding
  <2> QED
    BY <1>1, <2>1, <2>2, <2>3, ChainStays
<1> QED
  BY <1>2, <1>3

LEMMA TickKeepsChains ==
    ASSUME Shape, Shape', OneAfterTheOther, Tick
    PROVE  OneAfterTheOther'
<1> SUFFICES ASSUME NEW p \in Processes \ crowded'
             PROVE  \E k \in Jobs \cup {NoJob} : ChainOf(p, k)'
  BY DEF OneAfterTheOther
<1>1. UNCHANGED <<keys, at, job, adds, checks, ended, crowded>>
  BY DEF Tick, history
<1>2. PICK j \in Jobs \cup {NoJob} : ChainOf(p, j)
  BY <1>1 DEF OneAfterTheOther
<1>3. PICK k : k = Older(j)
  OBVIOUS
<1>4. Only(p, k)'
  BY <1>2, <1>3, OnlyWhenTicked DEF ChainOf
<1>5. CASE j = NoJob
  <2>1. k = NoJob
    BY <1>3, <1>5 DEF Older
  <2> QED
    BY <1>1, <1>2, <1>4, <1>5, <2>1, ChainStays DEF Deciding
<1>6. CASE j # NoJob
  <2>1. k \in Jobs /\ k # NoJob /\ k.mint = j.mint /\ k.count = j.count
    BY <1>3, <1>6, OlderJob, JobFacts
  <2> QED
    BY <1>1, <1>2, <1>4, <1>6, <2>1, ChainStays DEF Deciding
<1> QED
  BY <1>5, <1>6

LEMMA ChainsHold == Spec => []OneAfterTheOther
<1>1. Init => OneAfterTheOther
  <2> SUFFICES ASSUME Init, NEW p \in Processes PROVE ChainOf(p, NoJob)
    BY DEF OneAfterTheOther
  <2>1. wait = <<>> /\ Len(wait) = 0 /\ next[p] = NoJob
    BY DEF Init
  <2>2. \A t \in Tokens : checks[p][t] = 0 /\ adds[p][t] = 0 /\ 0 * LIMIT = 0
    BY LimitIsPositive DEF Init
  <2> QED
    BY <2>1, <2>2 DEF ChainOf, Only, IsOver
<1>2. Shape /\ Shape' /\ OneAfterTheOther /\ [Next]_vars => OneAfterTheOther'
  <2> SUFFICES ASSUME Shape, Shape', OneAfterTheOther, [Next]_vars PROVE OneAfterTheOther'
    OBVIOUS
  <2>1. ASSUME NEW t \in Tokens, StartInitialMonitoring(t) PROVE OneAfterTheOther'
    <3>1. PICK j \in Jobs : Add(j) /\ j.count = 1
      <4>1. [process |-> "initial", mint |-> t, age |-> 0, entryPrice |-> Zero, count |-> 1] \in Jobs
        BY NewJob DEF Processes, EntryPrices
      <4> QED
        BY <2>1, <4>1 DEF StartInitialMonitoring
    <3>2. \A w \in Workers : Deciding(w)' => Deciding(w) /\ job'[w] = job[w]
      BY <2>1 DEF StartInitialMonitoring, Deciding
    <3> QED
      BY <3>1, <3>2, AddKeepsChains
  <2>2. ASSUME NEW w \in Workers, Step(w) PROVE OneAfterTheOther'
    <3>1. CASE Take(w)
      BY <3>1, TakeKeepsChains
    <3>2. CASE StartPositionMonitoring(w)
      <4>1. PICK j \in Jobs : Add(j) /\ j.count = 1
        BY <3>2, AddedPosition
      <4>2. \A v \in Workers : Deciding(v)' => Deciding(v) /\ job'[v] = job[v]
        BY <3>2 DEF StartPositionMonitoring, Return, Deciding, Shape, TypeOK
      <4> QED
        BY <4>1, <4>2, AddKeepsChains
    <3>3. CASE OtherStep(w)
      BY <3>3, OtherStepsKeepChains
    <3> QED
      BY <2>2, <3>1, <3>2, <3>3 DEF Step, OtherStep
  <2>3. CASE Tick
    BY <2>3, TickKeepsChains
  <2>4. CASE UNCHANGED vars
    BY <2>4 DEF vars, queue, history, OneAfterTheOther, ChainOf, Only, GoesOn, IsOver, Deciding
  <2> QED
    BY <2>1, <2>2, <2>3, <2>4 DEF Next
<1> QED
  BY <1>1, <1>2, ShapeHolds, PTL DEF Spec

(***************************************************************************)
(* For any tokens, workers and metrics and any limit: a token whose jobs   *)
(* were added one after the other is checked up to the limit unless its    *)
(* own checks end it, whatever fails, however late the workers are and     *)
(* whatever key an earlier token left behind.                              *)
(***************************************************************************)
THEOREM ChecksGoToTheEnd == Spec => []CheckedToTheEnd
<1>1. Shape /\ OneAfterTheOther => CheckedToTheEnd
  <2> SUFFICES ASSUME Shape, OneAfterTheOther, NEW p \in Processes \ crowded,
                      NEW t \in Tokens, AtRest(p, t)
               PROVE  IsOver(p, t)
    BY DEF CheckedToTheEnd, IsOver, LIMIT
  <2>1. PICK j \in Jobs \cup {NoJob} : ChainOf(p, j)
    BY DEF OneAfterTheOther
  <2>2. ~(j # NoJob /\ j.mint = t)
    <3> SUFFICES ASSUME j # NoJob, j.mint = t PROVE FALSE
      OBVIOUS
    <3>1. next[p] # j
      BY DEF AtRest
    <3>2. PICK i \in 1 .. Len(wait) : wait[i] = j /\ j.process = p
      BY <2>1, <3>1 DEF ChainOf, Only
    <3>3. i \in DOMAIN wait
      BY <3>2, LenProperties DEF Shape, TypeOK
    <3> QED
      BY <3>2, <3>3 DEF AtRest
  <2> QED
    BY <2>1, <2>2 DEF ChainOf
<1> QED
  BY <1>1, ShapeHolds, ChainsHold, PTL
=============================================================================
