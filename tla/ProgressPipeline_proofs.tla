----------------------- MODULE ProgressPipeline_proofs ----------------------
(***************************************************************************)
(* Proofs about ProgressPipeline, for every set of problems, verdicts and  *)
(* handlers and every bound.                                               *)
(***************************************************************************)
EXTENDS ProgressPipeline, FiniteSetTheorems, TLAPS

-----------------------------------------------------------------------------
(* How the counts of ExecutionHistory grow with the history *)

\* The executions of a problem up to n are finitely many, and so are the
\* failures among them: their counts are natural numbers.
LEMMA CountsAreNatural ==
    ASSUME NEW h, NEW p, NEW n \in Nat
    PROVE  /\ IsFiniteSet(ExecutionsOf(h, p, n))
           /\ IsFiniteSet(FailuresOf(h, p, n))
           /\ Cardinality(ExecutionsOf(h, p, n)) \in Nat
           /\ Cardinality(FailuresOf(h, p, n)) \in Nat
<1>1. IsFiniteSet(1..n)
    BY FS_Interval
<1>2. ExecutionsOf(h, p, n) \subseteq 1..n /\ FailuresOf(h, p, n) \subseteq 1..n
    BY DEF ExecutionsOf, FailuresOf
<1>3. IsFiniteSet(ExecutionsOf(h, p, n)) /\ IsFiniteSet(FailuresOf(h, p, n))
    BY <1>1, <1>2, FS_Subset
<1>4. QED BY <1>3, FS_CardinalityType

\* Recording an execution does not change what the earlier ones say.
LEMMA AppendKeepsPrefix ==
    ASSUME NEW S, NEW h \in Seq(S), NEW e \in S, NEW p, NEW n \in Nat, n <= Len(h)
    PROVE  /\ ExecutionsOf(Append(h, e), p, n) = ExecutionsOf(h, p, n)
           /\ FailuresOf(Append(h, e), p, n) = FailuresOf(h, p, n)
           /\ SolvedBy(Append(h, e), p, n) <=> SolvedBy(h, p, n)
           /\ \A status : LastStatusOf(Append(h, e), p, n, status)
                              <=> LastStatusOf(h, p, n, status)
<1>1. \A s \in 1..n : Append(h, e)[s] = h[s]
    OBVIOUS
<1>2. ExecutionsOf(Append(h, e), p, n) = ExecutionsOf(h, p, n)
    BY <1>1 DEF ExecutionsOf
<1>3. \A s \in ExecutionsOf(h, p, n) : Append(h, e)[s] = h[s]
    BY <1>1 DEF ExecutionsOf
<1>4. FailuresOf(Append(h, e), p, n) = FailuresOf(h, p, n)
    BY <1>2, <1>3 DEF FailuresOf
<1>5. SolvedBy(Append(h, e), p, n) <=> SolvedBy(h, p, n)
    BY <1>2, <1>3 DEF SolvedBy
<1>6. ASSUME NEW status
      PROVE  LastStatusOf(Append(h, e), p, n, status) <=> LastStatusOf(h, p, n, status)
    BY <1>2, <1>3 DEF LastStatusOf
<1>7. QED BY <1>2, <1>4, <1>5, <1>6

\* Extending the prefix from k to a later n adds at least execution n.
LEMMA LongerPrefixCountsMore ==
    ASSUME NEW h, NEW p, NEW k \in Nat, NEW n \in Nat, k < n
    PROVE  /\ h[n].problem = p =>
                Cardinality(ExecutionsOf(h, p, k)) + 1 <= Cardinality(ExecutionsOf(h, p, n))
           /\ h[n].problem = p /\ h[n].status # "AC" =>
                Cardinality(FailuresOf(h, p, k)) + 1 <= Cardinality(FailuresOf(h, p, n))
           /\ Cardinality(ExecutionsOf(h, p, k)) <= Cardinality(ExecutionsOf(h, p, n))
           /\ Cardinality(FailuresOf(h, p, k)) <= Cardinality(FailuresOf(h, p, n))
           /\ SolvedBy(h, p, k) => SolvedBy(h, p, n)
<1> DEFINE E(m) == ExecutionsOf(h, p, m)
           F(m) == FailuresOf(h, p, m)
<1>1. E(k) \subseteq E(n) /\ F(k) \subseteq F(n) /\ n \notin E(k) /\ n \notin F(k)
    BY DEF ExecutionsOf, FailuresOf
<1>2. /\ IsFiniteSet(E(k)) /\ IsFiniteSet(E(n)) /\ IsFiniteSet(F(k)) /\ IsFiniteSet(F(n))
      /\ Cardinality(E(k)) \in Nat /\ Cardinality(F(k)) \in Nat
      /\ Cardinality(E(n)) \in Nat /\ Cardinality(F(n)) \in Nat
    BY CountsAreNatural
<1>3. Cardinality(E(k)) <= Cardinality(E(n)) /\ Cardinality(F(k)) <= Cardinality(F(n))
    BY <1>1, <1>2, FS_Subset
<1>4. ASSUME h[n].problem = p
      PROVE  Cardinality(E(k)) + 1 <= Cardinality(E(n))
  <2>1. E(k) \cup {n} \subseteq E(n)
      BY <1>1, <1>4 DEF ExecutionsOf
  <2>2. Cardinality(E(k) \cup {n}) = Cardinality(E(k)) + 1
      BY <1>1, <1>2, FS_AddElement
  <2>3. Cardinality(E(k) \cup {n}) <= Cardinality(E(n))
      BY <1>2, <2>1, FS_Subset
  <2>4. QED BY <2>2, <2>3
<1>5. ASSUME h[n].problem = p, h[n].status # "AC"
      PROVE  Cardinality(F(k)) + 1 <= Cardinality(F(n))
  <2>1. F(k) \cup {n} \subseteq F(n)
      BY <1>1, <1>5 DEF ExecutionsOf, FailuresOf
  <2>2. Cardinality(F(k) \cup {n}) = Cardinality(F(k)) + 1
      BY <1>1, <1>2, FS_AddElement
  <2>3. Cardinality(F(k) \cup {n}) <= Cardinality(F(n))
      BY <1>2, <2>1, FS_Subset
  <2>4. QED BY <2>2, <2>3
<1>6. SolvedBy(h, p, k) => SolvedBy(h, p, n)
    BY <1>1 DEF SolvedBy
<1>7. QED BY <1>3, <1>4, <1>5, <1>6

\* The next execution adds exactly itself.
LEMMA NextExecutionCounts ==
    ASSUME NEW h, NEW p, NEW k \in Nat
    PROVE  /\ Cardinality(ExecutionsOf(h, p, k + 1)) =
                Cardinality(ExecutionsOf(h, p, k)) + (IF h[k + 1].problem = p THEN 1 ELSE 0)
           /\ Cardinality(FailuresOf(h, p, k + 1)) =
                Cardinality(FailuresOf(h, p, k))
                  + (IF h[k + 1].problem = p /\ h[k + 1].status # "AC" THEN 1 ELSE 0)
           /\ SolvedBy(h, p, k + 1) <=>
                SolvedBy(h, p, k) \/ (h[k + 1].problem = p /\ Solves(h[k + 1]))
           /\ h[k + 1].problem = p => LastStatusOf(h, p, k + 1, h[k + 1].status)
           /\ h[k + 1].problem # p =>
                \A status : LastStatusOf(h, p, k, status) => LastStatusOf(h, p, k + 1, status)
<1> DEFINE E(m) == ExecutionsOf(h, p, m)
           F(m) == FailuresOf(h, p, m)
<1>1. 1 .. k + 1 = (1..k) \cup {k + 1}
    OBVIOUS
<1>2. /\ E(k + 1) = IF h[k + 1].problem = p THEN E(k) \cup {k + 1} ELSE E(k)
      /\ k + 1 \notin E(k) /\ k + 1 \notin F(k)
    BY <1>1 DEF ExecutionsOf, FailuresOf
<1>3. F(k + 1) = IF h[k + 1].problem = p /\ h[k + 1].status # "AC"
                   THEN F(k) \cup {k + 1} ELSE F(k)
    BY <1>2 DEF FailuresOf
<1>4. IsFiniteSet(E(k)) /\ IsFiniteSet(F(k))
      /\ Cardinality(E(k)) \in Nat /\ Cardinality(F(k)) \in Nat
    BY CountsAreNatural
<1>5. Cardinality(E(k) \cup {k + 1}) = Cardinality(E(k)) + 1
    BY <1>2, <1>4, FS_AddElement
<1>6. Cardinality(F(k) \cup {k + 1}) = Cardinality(F(k)) + 1
    BY <1>2, <1>4, FS_AddElement
<1>7. SolvedBy(h, p, k + 1) <=>
        SolvedBy(h, p, k) \/ (h[k + 1].problem = p /\ Solves(h[k + 1]))
    BY <1>2 DEF SolvedBy
<1>8. ASSUME h[k + 1].problem = p
      PROVE  LastStatusOf(h, p, k + 1, h[k + 1].status)
  <2>1. k + 1 \in E(k + 1) /\ \A t \in E(k + 1) : t <= k + 1
      BY <1>2, <1>8 DEF ExecutionsOf
  <2>2. QED BY <2>1 DEF LastStatusOf
<1>9. ASSUME h[k + 1].problem # p, NEW status, LastStatusOf(h, p, k, status)
      PROVE  LastStatusOf(h, p, k + 1, status)
    BY <1>2, <1>9 DEF LastStatusOf
<1>10. QED BY <1>2, <1>3, <1>4, <1>5, <1>6, <1>7, <1>8, <1>9

\* Before the first execution there is nothing to count.
LEMMA EmptyPrefix ==
    ASSUME NEW h, NEW p
    PROVE  /\ ExecutionsOf(h, p, 0) = {} /\ FailuresOf(h, p, 0) = {}
           /\ Cardinality(ExecutionsOf(h, p, 0)) = 0
           /\ Cardinality(FailuresOf(h, p, 0)) = 0
           /\ ~SolvedBy(h, p, 0)
           /\ LastStatusOf(h, p, 0, None)
<1>1. ExecutionsOf(h, p, 0) = {} /\ FailuresOf(h, p, 0) = {}
    BY DEF ExecutionsOf, FailuresOf
<1>2. QED BY <1>1, FS_EmptySet DEF SolvedBy, LastStatusOf

-----------------------------------------------------------------------------
(* What holds whatever calls overlap *)

Reconciling == {"load", "prune", "read", "fold", "save", "acknowledge"}

\* What a call that has reached a step has done before.
CallsOK ==
    \A l \in Lanes :
        /\ pc[l] \in Reconciling => l \in Submitters \cup {"boot"}
        /\ pc[l] \in {"judge", "record"} => l \in Submitters
        /\ pc[l] \notin {"idle", "ensure"} /\ l # "boot" => job[l].problem \in Problems
        /\ pc[l] = "record" => job[l].status \in Verdicts
        /\ pc[l] = "fold" <=> todo[l] # {}

\* An event row, in the table or in memory, is that of a recorded execution.
RowsOK ==
    /\ pending \subseteq 1..Len(executions)
    /\ \A l \in Lanes : todo[l] \subseteq 1..Len(executions)

WellFormed == TypeOK /\ CallsOK /\ RowsOK

-----------------------------------------------------------------------------

LEMMA EmptyLogType == EmptyLog \in LearningLog
BY DEF EmptyLog, LearningLog, Progress

\* Folding an event keeps the type of the log, and changes the progress of
\* the event's problem only.
LEMMA UpdatedLogType ==
    ASSUME NEW g \in LearningLog, NEW e \in Execution, NEW n \in Nat
    PROVE  UpdatedLog(g, e, n) \in LearningLog
<1>1. g.progress \in [Problems -> Progress] /\ e.problem \in Problems /\ e.status \in Verdicts
    BY DEF LearningLog, Execution
<1>2. (g.progress[e.problem].solved \/ Solves(e)) \in BOOLEAN
    OBVIOUS
<1>3. UpdatedProgress(g.progress[e.problem], e) \in Progress
    BY <1>1, <1>2 DEF Progress, UpdatedProgress
<1>4. QED BY <1>1, <1>3 DEF LearningLog, UpdatedLog

LEMMA UpdatedLogFields ==
    ASSUME NEW g \in LearningLog, NEW e, NEW n, NEW p \in Problems
    PROVE  /\ UpdatedLog(g, e, n).lastApplied = n
           /\ UpdatedLog(g, e, n).progress[p] =
                IF p = e.problem THEN UpdatedProgress(g.progress[p], e) ELSE g.progress[p]
BY DEF LearningLog, UpdatedLog

\* One more hint on q, or a surrender of q, changes that field only.
LEMMA HintFields ==
    ASSUME NEW g \in LearningLog, NEW q \in Problems
    PROVE  LET new == [g EXCEPT !.progress[q].hints = @ + 1] IN
           /\ new \in LearningLog
           /\ new.lastApplied = g.lastApplied
           /\ \A p \in Problems :
                /\ new.progress[p].hints = g.progress[p].hints + (IF p = q THEN 1 ELSE 0)
                /\ new.progress[p].attempts = g.progress[p].attempts
                /\ new.progress[p].failed = g.progress[p].failed
                /\ new.progress[p].solved = g.progress[p].solved
                /\ new.progress[p].gaveUp = g.progress[p].gaveUp
                /\ new.progress[p].lastStatus = g.progress[p].lastStatus
BY DEF LearningLog, Progress

LEMMA SurrenderFields ==
    ASSUME NEW g \in LearningLog, NEW q \in Problems
    PROVE  LET new == [g EXCEPT !.progress[q].gaveUp = TRUE] IN
           /\ new \in LearningLog
           /\ new.lastApplied = g.lastApplied
           /\ \A p \in Problems :
                /\ new.progress[p].hints = g.progress[p].hints
                /\ new.progress[p].attempts = g.progress[p].attempts
                /\ new.progress[p].failed = g.progress[p].failed
                /\ new.progress[p].solved = g.progress[p].solved
                /\ new.progress[p].gaveUp = (g.progress[p].gaveUp \/ p = q)
                /\ new.progress[p].lastStatus = g.progress[p].lastStatus
BY DEF LearningLog, Progress

-----------------------------------------------------------------------------
(* Type correctness *)

LEMMA NoJobType == NoJob \in Job
BY DEF NoJob, Job

\* A call that ends leaves no claim behind.
LEMMA DropKeepsWellFormed ==
    ASSUME WellFormed, NEW l \in Lanes, Drop(l)
    PROVE  /\ pc' \in [Lanes -> Steps]
           /\ job' \in [Lanes -> Job]
           /\ copy' \in [Lanes -> LearningLog]
           /\ todo' \in [Lanes -> SUBSET Nat]
           /\ CallsOK'
           /\ \A m \in Lanes : todo'[m] \subseteq todo[m]
BY EmptyLogType, NoJobType DEF WellFormed, TypeOK, CallsOK, Drop, Steps, Reconciling

LEMMA ReturnKeepsWellFormed ==
    ASSUME WellFormed, NEW l \in Lanes, pc[l] \in {"read", "acknowledge"}, ReconcileReturns(l)
    PROVE  /\ pc' \in [Lanes -> Steps]
           /\ job' \in [Lanes -> Job]
           /\ copy' \in [Lanes -> LearningLog]
           /\ todo' \in [Lanes -> SUBSET Nat]
           /\ celebrated' \in [Problems -> Nat]
           /\ server' \in {"down", "booting", "serving"}
           /\ CallsOK'
           /\ \A m \in Lanes : todo'[m] \subseteq todo[m]
<1>1. CASE /\ l # "boot"
           /\ ~job[l].recorded
           /\ pc' = [pc EXCEPT ![l] = "judge"]
           /\ copy' = [copy EXCEPT ![l] = EmptyLog]
           /\ UNCHANGED <<server, job, todo, celebrated>>
  <2>1. l \in Submitters /\ job[l].problem \in Problems
      BY <1>1 DEF WellFormed, CallsOK, Reconciling
  <2>2. CallsOK'
      BY <1>1, <2>1 DEF WellFormed, TypeOK, CallsOK, Reconciling
  <2>3. QED
      BY <1>1, <2>2, EmptyLogType DEF WellFormed, TypeOK, Steps
<1>2. CASE /\ l # "boot"
           /\ job[l].recorded
           /\ celebrated' = [celebrated EXCEPT ![job[l].problem] =
                                IF job[l].newly THEN @ + 1 ELSE @]
           /\ Drop(l)
           /\ UNCHANGED server
  <2>0. job[l].problem \in Problems
      BY <1>2 DEF WellFormed, CallsOK, Reconciling
  <2>1. celebrated' \in [Problems -> Nat]
      BY <1>2, <2>0 DEF WellFormed, TypeOK
  <2>2. QED
      BY <1>2, <2>1, DropKeepsWellFormed DEF WellFormed, TypeOK
<1>3. CASE /\ l = "boot"
           /\ server' = "serving"
           /\ Drop(l)
           /\ UNCHANGED celebrated
    BY <1>3, DropKeepsWellFormed DEF WellFormed, TypeOK
<1>4. QED BY <1>1, <1>2, <1>3 DEF ReconcileReturns

\* A call that starts with a load.
LEMMA LoadForKeepsWellFormed ==
    ASSUME WellFormed, NEW l, NEW p \in Problems \cup {None},
           NEW step \in {"generate", "surrender", "ensure"},
           p \in Problems \/ step = "ensure", LoadFor(l, p, step)
    PROVE  WellFormed'
<1>0. l \in Lanes /\ [NoJob EXCEPT !.problem = p] \in Job
    BY NoJobType DEF LoadFor, MayStart, Lanes, NoJob, Job
<1>1. TypeOK'
    BY <1>0 DEF WellFormed, LoadFor, Goto, durable, TypeOK, Steps
<1>2. CallsOK'
    BY <1>0 DEF WellFormed, LoadFor, Goto, TypeOK, CallsOK, Reconciling, NoJob
<1>3. RowsOK'
    BY DEF WellFormed, LoadFor, durable, RowsOK
<1>4. QED BY <1>1, <1>2, <1>3 DEF WellFormed

LEMMA WellFormedInit == Init => WellFormed
<1> SUFFICES ASSUME Init PROVE WellFormed
    OBVIOUS
<1>1. TypeOK
    BY EmptyLogType, NoJobType, ConstantsAssumption DEF Init, TypeOK, Steps
<1>2. CallsOK /\ RowsOK
    BY DEF Init, CallsOK, RowsOK, Reconciling
<1>3. QED BY <1>1, <1>2 DEF WellFormed

LEMMA WellFormedStep == WellFormed /\ [Next]_vars => WellFormed'
<1> SUFFICES ASSUME WellFormed, [Next]_vars PROVE WellFormed'
    OBVIOUS
<1> USE DEF WellFormed
<1>1. ASSUME NEW l \in Lanes, LoadLog(l) PROVE WellFormed'
    BY <1>1 DEF LoadLog, Goto, durable, TypeOK, CallsOK, RowsOK, Steps, Reconciling
<1>2. ASSUME NEW l \in Lanes, AcknowledgeApplied(l) PROVE WellFormed'
  <2>1. TypeOK'
      BY <1>2 DEF AcknowledgeApplied, Goto, TypeOK, Steps
  <2>2. CallsOK'
      BY <1>2 DEF AcknowledgeApplied, Goto, TypeOK, CallsOK, Reconciling
  <2>3. RowsOK'
      BY <1>2 DEF AcknowledgeApplied, RowsOK
  <2>4. QED BY <2>1, <2>2, <2>3
<1>3. ASSUME NEW l \in Lanes, ReadPending(l) PROVE WellFormed'
  <2>1. Unapplied(l) \subseteq pending
      BY DEF Unapplied
  <2>2. TypeOK'
      BY <1>3, <2>1 DEF ReadPending, durable, TypeOK, Steps
  <2>3. CallsOK'
      BY <1>3 DEF ReadPending, TypeOK, CallsOK, Reconciling
  <2>4. RowsOK'
      BY <1>3, <2>1 DEF ReadPending, durable, TypeOK, RowsOK
  <2>5. QED BY <2>2, <2>3, <2>4
<1>4. ASSUME NEW l \in Lanes, NothingPending(l) PROVE WellFormed'
  <2>1. pc[l] \in {"read", "acknowledge"} /\ ReconcileReturns(l)
      BY <1>4 DEF NothingPending
  <2>2. UNCHANGED <<log, executions, pending, hintsGiven, faults>>
      BY <1>4 DEF NothingPending, durable
  <2>3. QED BY <2>1, <2>2, ReturnKeepsWellFormed DEF TypeOK, RowsOK
<1>5. ASSUME NEW l \in Lanes, FoldNext(l) PROVE WellFormed'
  <2>1. PICK n \in todo[l] :
           /\ copy' = [copy EXCEPT ![l] = UpdatedLog(@, executions[n], n)]
           /\ todo' = [todo EXCEPT ![l] = @ \ {n}]
           /\ pc' = [pc EXCEPT ![l] = IF todo[l] = {n} THEN "save" ELSE "fold"]
      BY <1>5 DEF FoldNext
  <2>2. pc[l] = "fold" /\ UNCHANGED <<durable, server, job, hintsGiven, celebrated, faults>>
      BY <1>5 DEF FoldNext
  <2>3. n \in Nat /\ executions[n] \in Execution
      BY DEF RowsOK, TypeOK
  <2>4. UpdatedLog(copy[l], executions[n], n) \in LearningLog
      BY <2>3, UpdatedLogType DEF TypeOK
  <2>5. TypeOK'
      BY <2>1, <2>2, <2>4 DEF TypeOK, durable, Steps
  <2>6. CallsOK'
      BY <2>1, <2>2 DEF TypeOK, CallsOK, Reconciling
  <2>7. RowsOK'
      BY <2>1, <2>2 DEF TypeOK, RowsOK, durable
  <2>8. QED BY <2>5, <2>6, <2>7
<1>6. ASSUME NEW l \in Lanes, SaveLog(l) PROVE WellFormed'
    BY <1>6 DEF SaveLog, Goto, TypeOK, CallsOK, RowsOK, Steps, Reconciling
<1>7. ASSUME NEW l \in Lanes, AcknowledgeSaved(l) PROVE WellFormed'
  <2>1. pc[l] \in {"read", "acknowledge"} /\ ReconcileReturns(l)
      BY <1>7 DEF AcknowledgeSaved
  <2>2. pending' \subseteq pending /\ UNCHANGED <<log, executions, hintsGiven, faults>>
      BY <1>7 DEF AcknowledgeSaved
  <2>3. QED BY <2>1, <2>2, ReturnKeepsWellFormed DEF TypeOK, RowsOK
<1>8. ASSUME NEW l \in Lanes, Judge(l) PROVE WellFormed'
  <2>1. PICK status \in Verdicts, newly \in BOOLEAN :
           job' = [job EXCEPT ![l] = [@ EXCEPT !.status = status, !.newly = newly]]
      BY <1>8 DEF Judge, Solves
  <2>2. job[l] \in Job
      BY DEF TypeOK
  <2>3. /\ [job[l] EXCEPT !.status = status, !.newly = newly] \in Job
        /\ [job[l] EXCEPT !.status = status, !.newly = newly].problem = job[l].problem
        /\ [job[l] EXCEPT !.status = status, !.newly = newly].status = status
      BY <2>2 DEF Job
  <2>4. TypeOK'
      BY <1>8, <2>1, <2>3 DEF Judge, Goto, durable, TypeOK, Steps
  <2>5. CallsOK'
      BY <1>8, <2>1, <2>3 DEF Judge, Goto, TypeOK, CallsOK, Reconciling
  <2>6. RowsOK'
      BY <1>8 DEF Judge, durable, RowsOK
  <2>7. QED BY <2>4, <2>5, <2>6
<1>9. ASSUME NEW l \in Lanes, RecordExecution(l) PROVE WellFormed'
  <2> DEFINE e == [problem |-> job[l].problem, mode |-> l, status |-> job[l].status]
  <2>1. e \in Execution
      BY <1>9 DEF RecordExecution, Goto, CallsOK, Execution, Submitters
  <2>2. executions' = Append(executions, e) /\ executions' \in Seq(Execution)
        /\ Len(executions') = Len(executions) + 1
      BY <1>9, <2>1 DEF RecordExecution, TypeOK
  <2>3. job' \in [Lanes -> Job]
      BY <1>9 DEF RecordExecution, TypeOK, Job
  <2>4. TypeOK'
      BY <1>9, <2>2, <2>3 DEF RecordExecution, Goto, TypeOK, Steps
  <2>5. CallsOK'
      BY <1>9 DEF RecordExecution, Goto, TypeOK, CallsOK, Job, Reconciling
  <2>6. RowsOK'
      BY <1>9, <2>2 DEF RecordExecution, TypeOK, RowsOK
  <2>7. QED BY <2>4, <2>5, <2>6
<1>10. ASSUME NEW l \in Handlers, NEW p \in Problems, StartSubmit(l, p) PROVE WellFormed'
  <2>0. l \in Lanes /\ l \in Submitters /\ [NoJob EXCEPT !.problem = p] \in Job
      BY <1>10, NoJobType DEF StartSubmit, Lanes, NoJob, Job
  <2>1. TypeOK'
      BY <1>10, <2>0 DEF StartSubmit, Goto, durable, TypeOK, Steps
  <2>2. CallsOK'
      BY <1>10, <2>0 DEF StartSubmit, Goto, TypeOK, CallsOK, Reconciling, NoJob
  <2>3. RowsOK'
      BY <1>10 DEF StartSubmit, durable, RowsOK
  <2>4. QED BY <2>1, <2>2, <2>3
<1>11. ASSUME NEW p \in Problems, StartHint(p) PROVE WellFormed'
    BY <1>11, LoadForKeepsWellFormed DEF StartHint
<1>12. ASSUME NEW p \in Problems, StartGiveUp(p) PROVE WellFormed'
    BY <1>12, LoadForKeepsWellFormed DEF StartGiveUp
<1>13. CASE StartEnsureLog
    BY <1>13, LoadForKeepsWellFormed DEF StartEnsureLog
<1>14. CASE Boot
    BY <1>14 DEF Boot, Goto, durable, Lanes, TypeOK, CallsOK, RowsOK, Steps, Reconciling
<1>15. CASE FinishHint
  <2> DEFINE p == job["hint"].problem
  <2>1. "hint" \in Lanes /\ p \in Problems
      BY <1>15 DEF FinishHint, CallsOK, Lanes
  <2>2. log' \in LearningLog
      BY <1>15, <2>1, HintFields DEF FinishHint, TypeOK
  <2>3. hintsGiven' \in [Problems -> Nat]
      BY <1>15, <2>1 DEF FinishHint, TypeOK
  <2>4. QED
      BY <1>15, <2>1, <2>2, <2>3, DropKeepsWellFormed DEF FinishHint, TypeOK, RowsOK
<1>16. CASE FinishGiveUp
  <2> DEFINE p == job["give_up"].problem
  <2>1. "give_up" \in Lanes /\ p \in Problems
      BY <1>16 DEF FinishGiveUp, CallsOK, Lanes
  <2>2. log' \in LearningLog
      BY <1>16, <2>1, SurrenderFields DEF FinishGiveUp, TypeOK
  <2>3. QED
      BY <1>16, <2>1, <2>2, DropKeepsWellFormed DEF FinishGiveUp, TypeOK, RowsOK
<1>17. CASE FinishEnsureLog
  <2>1. "create" \in Lanes
      BY <1>17 DEF FinishEnsureLog, Lanes
  <2>2. QED
      BY <1>17, <2>1, DropKeepsWellFormed DEF FinishEnsureLog, TypeOK, RowsOK
<1>18. CASE Crash
    BY <1>18, EmptyLogType, NoJobType
       DEF Crash, durable, TypeOK, CallsOK, RowsOK, Steps, Reconciling
<1>19. ASSUME NEW l \in Lanes, Fail(l) PROVE WellFormed'
    BY <1>19, DropKeepsWellFormed DEF Fail, durable, TypeOK, RowsOK
<1>20. CASE UNCHANGED vars
    BY <1>20 DEF vars, TypeOK, CallsOK, RowsOK
<1>21. QED
    BY <1>1, <1>2, <1>3, <1>4, <1>5, <1>6, <1>7, <1>8, <1>9, <1>10, <1>11, <1>12, <1>13,
       <1>14, <1>15, <1>16, <1>17, <1>18, <1>19, <1>20 DEF Next, Proceed, Start

\* Type correctness of every reachable state.
THEOREM TypeCorrect == Spec => []TypeOK
<1>1. WellFormed => TypeOK
    BY DEF WellFormed
<1>2. QED BY <1>1, WellFormedInit, WellFormedStep, PTL DEF Spec

-----------------------------------------------------------------------------
(* At most once, whatever overlaps *)

\* Every log, on disk or in the memory of a call, is supported; a call only
\* ever folds rows beyond the last sequence of its own copy.
AllSupported ==
    /\ \A p \in Problems : Supported(executions, hintsGiven[p], log, p)
    /\ \A l \in Lanes, p \in Problems : Supported(executions, hintsGiven[p], copy[l], p)
    /\ \A l \in Lanes : \A n \in todo[l] : copy[l].lastApplied < n

LEMMA EmptyLogSupported ==
    ASSUME NEW h \in Seq(Execution), NEW c \in Nat, NEW p \in Problems
    PROVE  Supported(h, c, EmptyLog, p)
BY EmptyPrefix DEF Supported, EmptyLog

LEMMA SupportedAfterAppend ==
    ASSUME NEW h \in Seq(Execution), NEW e \in Execution, NEW c,
           NEW g \in LearningLog, NEW p \in Problems, Supported(h, c, g, p)
    PROVE  Supported(Append(h, e), c, g, p)
<1>1. g.lastApplied \in Nat /\ g.lastApplied <= Len(h)
    BY DEF Supported, LearningLog
<1>2. g.lastApplied <= Len(Append(h, e))
    BY <1>1
<1>3. QED BY <1>1, <1>2, AppendKeepsPrefix DEF Supported

LEMMA SupportedAfterFold ==
    ASSUME NEW h \in Seq(Execution), NEW c \in Nat, NEW g \in LearningLog, NEW p \in Problems,
           NEW n \in 1..Len(h), g.lastApplied < n, Supported(h, c, g, p)
    PROVE  Supported(h, c, UpdatedLog(g, h[n], n), p)
<1> DEFINE new == UpdatedLog(g, h[n], n)
           k == g.lastApplied
<1> SUFFICES Supported(h, c, new, p)
    OBVIOUS
<1>1. h[n] \in Execution /\ n \in Nat /\ k \in Nat /\ k < n
    BY DEF LearningLog
<1>2. /\ g.progress[p].attempts \in Nat /\ g.progress[p].failed \in Nat
      /\ g.progress[p].attempts <= Cardinality(ExecutionsOf(h, p, k))
      /\ g.progress[p].failed <= Cardinality(FailuresOf(h, p, k))
      /\ g.progress[p].solved => SolvedBy(h, p, k)
      /\ g.progress[p].hints <= c
    BY DEF LearningLog, Progress, Supported
<1>3. /\ Cardinality(ExecutionsOf(h, p, k)) \in Nat /\ Cardinality(FailuresOf(h, p, k)) \in Nat
      /\ Cardinality(ExecutionsOf(h, p, n)) \in Nat /\ Cardinality(FailuresOf(h, p, n)) \in Nat
    BY <1>1, CountsAreNatural
<1>4. /\ new.lastApplied = n
      /\ new.progress[p] = IF p = h[n].problem THEN UpdatedProgress(g.progress[p], h[n])
                                                ELSE g.progress[p]
    BY <1>1, UpdatedLogFields
<1> HIDE DEF new
<1>5. CASE p # h[n].problem
  <2>1. new.progress[p] = g.progress[p]
      BY <1>4, <1>5
  <2>2. /\ Cardinality(ExecutionsOf(h, p, k)) <= Cardinality(ExecutionsOf(h, p, n))
        /\ Cardinality(FailuresOf(h, p, k)) <= Cardinality(FailuresOf(h, p, n))
        /\ SolvedBy(h, p, k) => SolvedBy(h, p, n)
      BY <1>1, LongerPrefixCountsMore
  <2>3. /\ new.progress[p].attempts <= Cardinality(ExecutionsOf(h, p, n))
        /\ new.progress[p].failed <= Cardinality(FailuresOf(h, p, n))
      BY <1>2, <1>3, <2>1, <2>2
  <2>4. QED BY <1>1, <1>2, <1>4, <2>1, <2>2, <2>3 DEF Supported
<1>6. CASE p = h[n].problem
  <2>0. /\ new.progress[p].attempts = g.progress[p].attempts + 1
        /\ h[n].status = "AC" => new.progress[p].failed = g.progress[p].failed
        /\ h[n].status # "AC" => new.progress[p].failed = g.progress[p].failed + 1
        /\ new.progress[p].solved = (g.progress[p].solved \/ Solves(h[n]))
        /\ new.progress[p].hints = g.progress[p].hints
      BY <1>4, <1>6 DEF UpdatedProgress
  <2>1. /\ Cardinality(ExecutionsOf(h, p, k)) + 1 <= Cardinality(ExecutionsOf(h, p, n))
        /\ h[n].status # "AC" =>
             Cardinality(FailuresOf(h, p, k)) + 1 <= Cardinality(FailuresOf(h, p, n))
        /\ Cardinality(FailuresOf(h, p, k)) <= Cardinality(FailuresOf(h, p, n))
        /\ SolvedBy(h, p, k) => SolvedBy(h, p, n)
      BY <1>1, <1>6, LongerPrefixCountsMore
  <2>2. Solves(h[n]) => SolvedBy(h, p, n)
      BY <1>1, <1>6 DEF SolvedBy, ExecutionsOf
  <2>3. new.progress[p].attempts <= Cardinality(ExecutionsOf(h, p, n))
      BY <1>2, <1>3, <2>0, <2>1
  <2>4. new.progress[p].failed <= Cardinality(FailuresOf(h, p, n))
    <3>1. CASE h[n].status = "AC"
      <4>1. new.progress[p].failed = g.progress[p].failed
          BY <2>0, <3>1
      <4>2. Cardinality(FailuresOf(h, p, k)) <= Cardinality(FailuresOf(h, p, n))
          BY <2>1
      <4>3. QED BY <1>2, <1>3, <4>1, <4>2
    <3>2. CASE h[n].status # "AC"
      <4>1. new.progress[p].failed = g.progress[p].failed + 1
          BY <2>0, <3>2
      <4>2. Cardinality(FailuresOf(h, p, k)) + 1 <= Cardinality(FailuresOf(h, p, n))
          BY <2>1, <3>2
      <4>3. QED BY <1>2, <1>3, <4>1, <4>2
    <3>3. QED BY <3>1, <3>2
  <2>5. new.progress[p].solved => SolvedBy(h, p, n)
      BY <1>2, <2>0, <2>1, <2>2
  <2>6. QED BY <1>1, <1>2, <1>4, <2>0, <2>3, <2>4, <2>5 DEF Supported
<1>7. QED BY <1>5, <1>6

LEMMA AllSupportedInit == Init => AllSupported
<1> SUFFICES ASSUME Init PROVE AllSupported
    OBVIOUS
<1>1. /\ log = EmptyLog /\ \A l \in Lanes : copy[l] = EmptyLog /\ todo[l] = {}
      /\ executions \in Seq(Execution) /\ \A p \in Problems : hintsGiven[p] = 0
    BY DEF Init
<1>2. \A p \in Problems : Supported(executions, 0, EmptyLog, p)
    BY <1>1, EmptyLogSupported
<1>3. QED BY <1>1, <1>2 DEF AllSupported

\* Loads, drops and rows that are only read or deleted keep the invariant.
LEMMA CopyOrDropKeepsSupport ==
    ASSUME WellFormed, AllSupported, NEW l \in Lanes,
           log' = log, executions' = executions, hintsGiven' = hintsGiven,
           \/ copy' = copy
           \/ copy' = [copy EXCEPT ![l] = EmptyLog]
           \/ copy' = [copy EXCEPT ![l] = log],
           \A m \in Lanes : todo'[m] \subseteq todo[m],
           copy' # copy => todo'[l] = {}
    PROVE  AllSupported'
<1>1. executions \in Seq(Execution) /\ \A p \in Problems : hintsGiven[p] \in Nat
    BY DEF WellFormed, TypeOK
<1>2. \A p \in Problems : Supported(executions, hintsGiven[p], EmptyLog, p)
    BY <1>1, EmptyLogSupported
<1>3. \A m \in Lanes : copy'[m] \in {copy[m], EmptyLog, log}
    BY DEF WellFormed, TypeOK
<1>4. \A m \in Lanes, p \in Problems : Supported(executions, hintsGiven[p], copy'[m], p)
    BY <1>2, <1>3 DEF AllSupported
<1>5. \A m \in Lanes : \A n \in todo'[m] : copy'[m].lastApplied < n
    BY DEF AllSupported, WellFormed, TypeOK
<1>6. QED BY <1>4, <1>5 DEF AllSupported

\* A hint, a surrender or a log that is written back claims no new execution.
LEMMA SupportedAfterHint ==
    ASSUME NEW h, NEW c \in Nat, NEW q \in Problems, NEW p \in Problems,
           NEW g \in LearningLog, Supported(h, c, g, p)
    PROVE  /\ Supported(h, c + (IF p = q THEN 1 ELSE 0),
                        [g EXCEPT !.progress[q].hints = @ + 1], p)
           /\ Supported(h, c + 1, g, p)
<1> DEFINE new == [g EXCEPT !.progress[q].hints = @ + 1]
<1>1. /\ new.lastApplied = g.lastApplied
      /\ new.progress[p].hints = g.progress[p].hints + (IF p = q THEN 1 ELSE 0)
      /\ new.progress[p].attempts = g.progress[p].attempts
      /\ new.progress[p].failed = g.progress[p].failed
      /\ new.progress[p].solved = g.progress[p].solved
    BY HintFields
<1>2. g.progress[p].hints \in Nat /\ g.progress[p].hints <= c
    BY DEF Supported, LearningLog, Progress
<1> HIDE DEF new
<1>3. Supported(h, c + (IF p = q THEN 1 ELSE 0), new, p)
    BY <1>1, <1>2 DEF Supported
<1>4. Supported(h, c + 1, g, p)
    BY <1>2 DEF Supported
<1>5. QED BY <1>3, <1>4 DEF new

LEMMA SupportedAfterSurrender ==
    ASSUME NEW h, NEW c, NEW q \in Problems, NEW p \in Problems,
           NEW g \in LearningLog, Supported(h, c, g, p)
    PROVE  Supported(h, c, [g EXCEPT !.progress[q].gaveUp = TRUE], p)
<1> DEFINE new == [g EXCEPT !.progress[q].gaveUp = TRUE]
<1>1. /\ new.lastApplied = g.lastApplied
      /\ new.progress[p].hints = g.progress[p].hints
      /\ new.progress[p].attempts = g.progress[p].attempts
      /\ new.progress[p].failed = g.progress[p].failed
      /\ new.progress[p].solved = g.progress[p].solved
    BY SurrenderFields
<1> HIDE DEF new
<1>2. Supported(h, c, new, p)
    BY <1>1 DEF Supported
<1>3. QED BY <1>2 DEF new

LEMMA AllSupportedStep == WellFormed /\ AllSupported /\ [Next]_vars => AllSupported'
<1> SUFFICES ASSUME WellFormed, AllSupported, [Next]_vars PROVE AllSupported'
    OBVIOUS
<1> DEFINE StillThere == log' = log /\ executions' = executions /\ hintsGiven' = hintsGiven
<1>0. /\ log \in LearningLog /\ executions \in Seq(Execution)
      /\ \A l \in Lanes : copy[l] \in LearningLog /\ todo[l] \subseteq 1..Len(executions)
      /\ \A p \in Problems : hintsGiven[p] \in Nat
    BY DEF WellFormed, TypeOK, RowsOK
<1>1. ASSUME NEW l \in Lanes, LoadLog(l) PROVE AllSupported'
  <2>1. StillThere /\ todo' = todo /\ todo[l] = {} /\ copy' = [copy EXCEPT ![l] = log]
      BY <1>1 DEF LoadLog, Goto, durable, WellFormed, CallsOK
  <2>2. QED BY <2>1, CopyOrDropKeepsSupport
<1>2. ASSUME NEW l \in Lanes, AcknowledgeApplied(l) PROVE AllSupported'
  <2>1. StillThere /\ todo' = todo /\ copy' = copy
      BY <1>2 DEF AcknowledgeApplied
  <2>2. QED BY <2>1 DEF AllSupported
<1>3. ASSUME NEW l \in Lanes, ReadPending(l) PROVE AllSupported'
  <2>1. StillThere /\ copy' = copy /\ todo' = [todo EXCEPT ![l] = Unapplied(l)]
      BY <1>3 DEF ReadPending, durable
  <2>2. \A n \in Unapplied(l) : copy[l].lastApplied < n
      BY DEF Unapplied, WellFormed, TypeOK, LearningLog
  <2>3. \A m \in Lanes : \A n \in todo'[m] : copy'[m].lastApplied < n
      BY <2>1, <2>2 DEF AllSupported, WellFormed, TypeOK
  <2>4. QED BY <2>1, <2>3 DEF AllSupported
<1>4. ASSUME NEW l \in Lanes, pc[l] \in {"read", "acknowledge"}, ReconcileReturns(l), StillThere
      PROVE  AllSupported'
  <2>1. todo[l] = {}
      BY <1>4 DEF WellFormed, CallsOK
  <2>2. /\ copy' = [copy EXCEPT ![l] = EmptyLog]
        /\ todo' = todo \/ todo' = [todo EXCEPT ![l] = {}]
      BY <1>4 DEF ReconcileReturns, Drop
  <2>3. todo' = todo
      BY <2>1, <2>2 DEF WellFormed, TypeOK
  <2>4. QED BY <1>4, <2>1, <2>2, <2>3, CopyOrDropKeepsSupport
<1>5. ASSUME NEW l \in Lanes, Drop(l), StillThere PROVE AllSupported'
  <2>1. /\ copy' = [copy EXCEPT ![l] = EmptyLog] /\ todo' = [todo EXCEPT ![l] = {}]
      BY <1>5 DEF Drop
  <2>2. todo'[l] = {} /\ \A m \in Lanes : todo'[m] \subseteq todo[m]
      BY <2>1 DEF WellFormed, TypeOK
  <2>3. QED BY <1>5, <2>1, <2>2, CopyOrDropKeepsSupport
<1>6. ASSUME NEW l \in Lanes, FoldNext(l) PROVE AllSupported'
  <2>1. PICK n \in todo[l] :
           /\ \A m \in todo[l] : n <= m
           /\ copy' = [copy EXCEPT ![l] = UpdatedLog(@, executions[n], n)]
           /\ todo' = [todo EXCEPT ![l] = @ \ {n}]
      BY <1>6 DEF FoldNext
  <2>2. StillThere
      BY <1>6 DEF FoldNext, durable
  <2>3. n \in 1..Len(executions) /\ copy[l].lastApplied < n /\ executions[n] \in Execution
      BY <1>0, <2>1 DEF AllSupported
  <2>4. \A p \in Problems :
           Supported(executions, hintsGiven[p], UpdatedLog(copy[l], executions[n], n), p)
      BY <1>0, <2>3, SupportedAfterFold DEF AllSupported
  <2>5. \A m \in Lanes, p \in Problems : Supported(executions, hintsGiven[p], copy'[m], p)
      BY <2>1, <2>4 DEF AllSupported, WellFormed, TypeOK
  <2>6. copy'[l].lastApplied = n
      BY <2>1 DEF UpdatedLog, WellFormed, TypeOK
  <2>7. \A k \in todo'[l] : n < k
      BY <1>0, <2>1 DEF WellFormed, TypeOK
  <2>8. \A m \in Lanes \ {l} : copy'[m] = copy[m] /\ todo'[m] = todo[m]
      BY <2>1 DEF WellFormed, TypeOK
  <2>9. \A m \in Lanes : \A k \in todo'[m] : copy'[m].lastApplied < k
      BY <2>6, <2>7, <2>8 DEF AllSupported
  <2>10. QED BY <2>2, <2>5, <2>9 DEF AllSupported
<1>7. ASSUME NEW l \in Lanes, SaveLog(l) PROVE AllSupported'
    BY <1>7 DEF SaveLog, AllSupported
<1>8. ASSUME NEW l \in Lanes, RecordExecution(l) PROVE AllSupported'
  <2> DEFINE e == [problem |-> job[l].problem, mode |-> l, status |-> job[l].status]
  <2>1. e \in Execution
      BY <1>8 DEF RecordExecution, Goto, WellFormed, CallsOK, Execution, Submitters
  <2>2. executions' = Append(executions, e) /\ UNCHANGED <<log, copy, todo, hintsGiven>>
      BY <1>8 DEF RecordExecution
  <2> HIDE DEF e
  <2>3. QED BY <1>0, <2>1, <2>2, SupportedAfterAppend DEF AllSupported
<1>9. CASE FinishHint
  <2> DEFINE q == job["hint"].problem
  <2>1. "hint" \in Lanes /\ q \in Problems
      BY <1>9 DEF FinishHint, Lanes, WellFormed, CallsOK
  <2>2. /\ log' = [copy["hint"] EXCEPT !.progress[q].hints = @ + 1]
        /\ hintsGiven' = [hintsGiven EXCEPT ![q] = @ + 1]
        /\ executions' = executions /\ Drop("hint")
      BY <1>9 DEF FinishHint
  <2> HIDE DEF q
  <2>3. \A p \in Problems : hintsGiven'[p] = hintsGiven[p] + (IF p = q THEN 1 ELSE 0)
      BY <1>0, <2>1, <2>2 DEF WellFormed, TypeOK
  <2>4. \A p \in Problems : Supported(executions', hintsGiven'[p], log', p)
    <3> SUFFICES ASSUME NEW p \in Problems PROVE Supported(executions', hintsGiven'[p], log', p)
        OBVIOUS
    <3>1. copy["hint"] \in LearningLog /\ hintsGiven[p] \in Nat
        BY <1>0, <2>1
    <3>2. Supported(executions, hintsGiven[p], copy["hint"], p)
        BY <2>1 DEF AllSupported
    <3>3. Supported(executions, hintsGiven[p] + (IF p = q THEN 1 ELSE 0), log', p)
        BY <2>1, <2>2, <3>1, <3>2, SupportedAfterHint
    <3>4. QED BY <2>2, <2>3, <3>3
  <2>5. \A m \in Lanes : copy'[m] \in {copy[m], EmptyLog} /\ todo'[m] \in {todo[m], {}}
      BY <2>2 DEF Drop, WellFormed, TypeOK
  <2>6. \A m \in Lanes, p \in Problems : Supported(executions, hintsGiven[p], copy'[m], p)
      BY <1>0, <2>5, EmptyLogSupported DEF AllSupported
  <2>7. \A m \in Lanes : copy'[m] \in LearningLog
      BY <1>0, <2>5, EmptyLogType
  <2>8. \A m \in Lanes, p \in Problems : Supported(executions', hintsGiven'[p], copy'[m], p)
    <3> SUFFICES ASSUME NEW m \in Lanes, NEW p \in Problems
                 PROVE  Supported(executions', hintsGiven'[p], copy'[m], p)
        OBVIOUS
    <3>1. CASE p = q
      <4>1. hintsGiven'[p] = hintsGiven[p] + 1
          BY <2>3, <3>1
      <4>2. Supported(executions, hintsGiven[p] + 1, copy'[m], p)
          BY <1>0, <2>1, <2>6, <2>7, SupportedAfterHint
      <4>3. QED BY <2>2, <4>1, <4>2
    <3>2. CASE p # q
      <4>1. hintsGiven'[p] = hintsGiven[p]
          BY <1>0, <2>3, <3>2
      <4>2. QED BY <2>2, <2>6, <4>1
    <3>3. QED BY <3>1, <3>2
  <2>9. \A m \in Lanes : \A n \in todo'[m] : copy'[m].lastApplied < n
      BY <2>1, <2>2 DEF Drop, AllSupported, WellFormed, TypeOK
  <2>10. QED BY <2>4, <2>8, <2>9 DEF AllSupported
<1>10. ASSUME NEW l \in Lanes, Drop(l), executions' = executions, hintsGiven' = hintsGiven,
              \A p \in Problems : Supported(executions, hintsGiven[p], log', p)
       PROVE  AllSupported'
  <2>1. \A m \in Lanes : copy'[m] \in {copy[m], EmptyLog}
      BY <1>10 DEF Drop, WellFormed, TypeOK
  <2>2. \A m \in Lanes, p \in Problems : Supported(executions, hintsGiven[p], copy'[m], p)
      BY <1>0, <2>1, EmptyLogSupported DEF AllSupported
  <2>3. \A m \in Lanes : \A n \in todo'[m] : copy'[m].lastApplied < n
      BY <1>10 DEF Drop, AllSupported, WellFormed, TypeOK
  <2>4. QED BY <1>10, <2>2, <2>3 DEF AllSupported
<1>11. CASE FinishGiveUp
  <2>1. "give_up" \in Lanes /\ job["give_up"].problem \in Problems
      BY <1>11 DEF FinishGiveUp, Lanes, WellFormed, CallsOK
  <2>2. \A p \in Problems : Supported(executions, hintsGiven[p], log', p)
      BY <1>0, <1>11, <2>1, SupportedAfterSurrender DEF FinishGiveUp, AllSupported
  <2>3. QED BY <1>10, <1>11, <2>1, <2>2 DEF FinishGiveUp
<1>12. CASE FinishEnsureLog
  <2>1. "create" \in Lanes
      BY <1>12 DEF FinishEnsureLog, Lanes
  <2>2. QED BY <1>10, <1>12, <2>1 DEF FinishEnsureLog, AllSupported
<1>13. ASSUME NEW l, NEW p, NEW step, LoadFor(l, p, step) PROVE AllSupported'
  <2>1. /\ l \in Lanes /\ StillThere /\ todo' = todo /\ todo[l] = {}
        /\ copy' = [copy EXCEPT ![l] = log]
      BY <1>13 DEF LoadFor, MayStart, Lanes, Goto, durable, WellFormed, CallsOK
  <2>2. QED BY <2>1, CopyOrDropKeepsSupport
<1>14. CASE UNCHANGED <<log, executions, hintsGiven, copy, todo>>
    BY <1>14 DEF AllSupported
<1>15. CASE Crash
  <2>1. /\ StillThere /\ copy' = [l \in Lanes |-> EmptyLog] /\ todo' = [l \in Lanes |-> {}]
      BY <1>15 DEF Crash, durable
  <2>2. \A p \in Problems : Supported(executions, hintsGiven[p], EmptyLog, p)
      BY <1>0, EmptyLogSupported
  <2>3. QED BY <2>1, <2>2 DEF AllSupported
<1>16. ASSUME NEW l \in Lanes, Proceed(l) PROVE AllSupported'
  <2>1. CASE NothingPending(l)
      BY <1>4, <2>1 DEF NothingPending, durable
  <2>2. CASE AcknowledgeSaved(l)
      BY <1>4, <2>2 DEF AcknowledgeSaved
  <2>3. CASE Judge(l)
      BY <1>14, <2>3 DEF Judge, durable
  <2>4. QED
      BY <1>1, <1>2, <1>3, <1>6, <1>7, <1>8, <1>16, <2>1, <2>2, <2>3 DEF Proceed
<1>17. CASE Start
  <2>1. ASSUME NEW p, NEW l, StartSubmit(l, p) PROVE AllSupported'
      BY <1>14, <2>1 DEF StartSubmit, durable
  <2>2. CASE Boot
      BY <1>14, <2>2 DEF Boot, durable
  <2>3. QED
      BY <1>13, <1>17, <2>1, <2>2 DEF Start, StartHint, StartGiveUp, StartEnsureLog
<1>18. ASSUME NEW l \in Lanes, Fail(l) PROVE AllSupported'
    BY <1>5, <1>18 DEF Fail, durable
<1>19. CASE UNCHANGED vars
    BY <1>14, <1>19 DEF vars
<1>20. QED BY <1>9, <1>11, <1>12, <1>15, <1>16, <1>17, <1>18, <1>19 DEF Next

\* The log never counts an execution twice and never holds an attempt, a
\* failure, a solution or a hint that did not happen, whichever handlers
\* overlap and wherever the process dies: the sequence check of reconcile.
THEOREM AtMostOnce == Spec => []NeverCountedTwice
<1> DEFINE IInv == WellFormed /\ AllSupported
<1>1. Init => IInv
    BY WellFormedInit, AllSupportedInit
<1>2. IInv /\ [Next]_vars => IInv'
    BY WellFormedStep, AllSupportedStep
<1>3. IInv => NeverCountedTwice
    BY DEF AllSupported, NeverCountedTwice
<1>4. QED BY <1>1, <1>2, <1>3, PTL DEF Spec

-----------------------------------------------------------------------------
(* Exactly once, for a learner who waits *)

\* At most one call is in progress, and none while the process is down.
OneAtATime ==
    /\ \A l, m \in Lanes : pc[l] # "idle" /\ pc[m] # "idle" => l = m
    /\ server = "down" => \A l \in Lanes : pc[l] = "idle"

\* A log that is saved over the present one takes no achievement back.
AtLeast(g) ==
    /\ log.lastApplied <= g.lastApplied
    /\ \A p \in Problems :
         /\ log.progress[p].solved => g.progress[p].solved
         /\ log.progress[p].gaveUp => g.progress[p].gaveUp
         /\ log.progress[p].attempts <= g.progress[p].attempts
         /\ log.progress[p].hints <= g.progress[p].hints

\* A call that folds has counted the rows before those it still has to fold.
FoldsNext(l) ==
    /\ \A p \in Problems : Exact(executions, copy[l], p)
    /\ AtLeast(copy[l])
    /\ copy[l].lastApplied <= Len(executions)
    /\ \A s \in 1..Len(executions) : s > copy[l].lastApplied <=> s \in todo[l]
    /\ pc[l] = "save" => log.lastApplied < copy[l].lastApplied

\* A submission whose answer will celebrate is the first that solves its problem.
CelebratesFirst(l) ==
    /\ pc[l] \notin {"idle", "ensure"} /\ l # "boot"
    /\ celebrated[job[l].problem] = 0
    /\ pc[l] = "record" => Solves([mode |-> l, status |-> job[l].status])
    /\ job[l].recorded => SolvedBy(executions, job[l].problem, Len(executions))

\* What the call in progress knows of the stores.
LaneOK(l) ==
    /\ pc[l] \in {"prune", "read", "acknowledge", "generate", "surrender", "ensure"} =>
         copy[l] = log
    /\ pc[l] \in {"fold", "save"} => FoldsNext(l)
    /\ pc[l] = "acknowledge" => log.lastApplied = Len(executions)
    /\ pc[l] \in {"judge", "record"} => ~job[l].recorded
    /\ job[l].newly => CelebratesFirst(l)

Celebrations ==
    \A p \in Problems : /\ celebrated[p] <= 1
                        /\ celebrated[p] = 1 => log.progress[p].solved

SerialInv ==
    /\ OneAtATime
    /\ CountedExactlyOnce
    /\ log.lastApplied <= Len(executions)
    /\ Celebrations
    /\ \A l \in Lanes : LaneOK(l)

LEMMA ExactAfterAppend ==
    ASSUME NEW h \in Seq(Execution), NEW e \in Execution,
           NEW g \in LearningLog, NEW p \in Problems, g.lastApplied <= Len(h), Exact(h, g, p)
    PROVE  Exact(Append(h, e), g, p)
<1>1. g.lastApplied \in Nat
    BY DEF LearningLog
<1>2. QED BY <1>1, AppendKeepsPrefix DEF Exact

\* Folding the row that comes next keeps the aggregates exact.
LEMMA ExactAfterFold ==
    ASSUME NEW h, NEW g \in LearningLog, NEW p \in Problems, Exact(h, g, p)
    PROVE  LET n == g.lastApplied + 1 IN Exact(h, UpdatedLog(g, h[n], n), p)
<1> DEFINE k == g.lastApplied
           e == h[k + 1]
           new == UpdatedLog(g, e, k + 1)
<1>1. k \in Nat /\ g.progress[p].attempts \in Nat /\ g.progress[p].failed \in Nat
    BY DEF LearningLog, Progress
<1>2. /\ new.lastApplied = k + 1
      /\ new.progress[p] = IF p = e.problem THEN UpdatedProgress(g.progress[p], e)
                                            ELSE g.progress[p]
    BY UpdatedLogFields
<1>3. /\ g.progress[p].attempts = Cardinality(ExecutionsOf(h, p, k))
      /\ g.progress[p].failed = Cardinality(FailuresOf(h, p, k))
      /\ g.progress[p].solved <=> SolvedBy(h, p, k)
      /\ LastStatusOf(h, p, k, g.progress[p].lastStatus)
    BY DEF Exact
<1>4. /\ Cardinality(ExecutionsOf(h, p, k + 1)) =
           Cardinality(ExecutionsOf(h, p, k)) + (IF e.problem = p THEN 1 ELSE 0)
      /\ Cardinality(FailuresOf(h, p, k + 1)) =
           Cardinality(FailuresOf(h, p, k)) + (IF e.problem = p /\ e.status # "AC" THEN 1 ELSE 0)
      /\ SolvedBy(h, p, k + 1) <=> SolvedBy(h, p, k) \/ (e.problem = p /\ Solves(e))
      /\ e.problem = p => LastStatusOf(h, p, k + 1, e.status)
      /\ e.problem # p =>
           \A status : LastStatusOf(h, p, k, status) => LastStatusOf(h, p, k + 1, status)
    BY <1>1, NextExecutionCounts
<1> HIDE DEF e, new
<1>5. CASE p = e.problem
  <2>1. /\ new.progress[p].attempts = g.progress[p].attempts + 1
        /\ new.progress[p].failed =
             IF e.status = "AC" THEN g.progress[p].failed ELSE g.progress[p].failed + 1
        /\ new.progress[p].solved = (g.progress[p].solved \/ Solves(e))
        /\ new.progress[p].lastStatus = e.status
      BY <1>2, <1>5 DEF UpdatedProgress
  <2>2. new.progress[p].failed = Cardinality(FailuresOf(h, p, k + 1))
      BY <1>1, <1>3, <1>4, <1>5, <2>1
  <2>3. new.progress[p].attempts = Cardinality(ExecutionsOf(h, p, k + 1))
      BY <1>1, <1>3, <1>4, <1>5, <2>1
  <2>4. new.progress[p].solved <=> SolvedBy(h, p, k + 1)
      BY <1>3, <1>4, <1>5, <2>1
  <2>5. LastStatusOf(h, p, k + 1, new.progress[p].lastStatus)
      BY <1>4, <1>5, <2>1
  <2>6. Exact(h, new, p)
      BY <1>2, <2>2, <2>3, <2>4, <2>5 DEF Exact
  <2>7. QED BY <2>6 DEF new, e
<1>6. CASE p # e.problem
  <2>1. new.progress[p] = g.progress[p]
      BY <1>2, <1>6
  <2>2. Exact(h, new, p)
      BY <1>1, <1>2, <1>3, <1>4, <1>6, <2>1 DEF Exact
  <2>3. QED BY <2>2 DEF new, e
<1>7. QED BY <1>5, <1>6

\* A fold takes nothing back either.
LEMMA AtLeastAfterFold ==
    ASSUME log \in LearningLog, NEW g \in LearningLog, NEW e \in Execution, NEW n \in Nat,
           g.lastApplied < n, AtLeast(g)
    PROVE  AtLeast(UpdatedLog(g, e, n)) /\ log.lastApplied < n
<1> DEFINE new == UpdatedLog(g, e, n)
<1>1. \A p \in Problems :
        /\ new.lastApplied = n
        /\ new.progress[p] = IF p = e.problem THEN UpdatedProgress(g.progress[p], e)
                                              ELSE g.progress[p]
    BY UpdatedLogFields
<1>2. new.lastApplied = n /\ log.lastApplied < n /\ log.lastApplied <= n
    BY DEF UpdatedLog, AtLeast, LearningLog
<1> HIDE DEF new
<1>3. ASSUME NEW p \in Problems
      PROVE  /\ g.progress[p].solved => new.progress[p].solved
             /\ new.progress[p].gaveUp = g.progress[p].gaveUp
             /\ new.progress[p].attempts \in {g.progress[p].attempts, g.progress[p].attempts + 1}
             /\ new.progress[p].hints = g.progress[p].hints
  <2>1. CASE p = e.problem
    <3>1. new.progress[p] = UpdatedProgress(g.progress[p], e)
        BY <1>1, <2>1
    <3>2. /\ new.progress[p].solved = (g.progress[p].solved \/ Solves(e))
          /\ new.progress[p].gaveUp = g.progress[p].gaveUp
          /\ new.progress[p].attempts = g.progress[p].attempts + 1
          /\ new.progress[p].hints = g.progress[p].hints
        BY <3>1 DEF UpdatedProgress
    <3>3. QED BY <3>2
  <2>2. CASE p # e.problem
    <3>1. new.progress[p] = g.progress[p]
        BY <1>1, <2>2
    <3>2. QED BY <3>1
  <2>3. QED BY <2>1, <2>2
<1>4. ASSUME NEW p \in Problems
      PROVE  log.progress[p].attempts \in Nat /\ g.progress[p].attempts \in Nat
    BY DEF LearningLog, Progress
<1>5. AtLeast(new)
    BY <1>2, <1>3, <1>4 DEF AtLeast
<1>6. QED BY <1>2, <1>5 DEF new

LEMMA AtLeastItself ==
    ASSUME log \in LearningLog
    PROVE  AtLeast(log)
BY DEF AtLeast, LearningLog, Progress

LEMMA SerialInit == Init => SerialInv
<1> SUFFICES ASSUME Init PROVE SerialInv
    OBVIOUS
<1>1. /\ log = EmptyLog /\ executions = <<>> /\ Len(executions) = 0
      /\ EmptyLog.lastApplied = 0
      /\ \A p \in Problems : /\ EmptyLog.progress[p].attempts = 0
                             /\ EmptyLog.progress[p].failed = 0
                             /\ EmptyLog.progress[p].solved = FALSE
                             /\ EmptyLog.progress[p].lastStatus = None
    BY DEF Init, EmptyLog
<1>2. \A p \in Problems : Exact(executions, log, p)
    BY <1>1, EmptyPrefix DEF Exact
<1>3. CountedExactlyOnce
    BY <1>1, <1>2 DEF CountedExactlyOnce
<1>4. OneAtATime /\ Celebrations /\ \A l \in Lanes : LaneOK(l)
    BY DEF Init, NoJob, OneAtATime, Celebrations, LaneOK
<1>5. QED BY <1>1, <1>3, <1>4 DEF SerialInv

\* A step of one call, while no other is in progress.
LEMMA OneLaneMoves ==
    ASSUME OneAtATime, NEW l \in Lanes,
           \A m \in Lanes : LaneOK(m),
           \A m \in Lanes \ {l} : pc[m] = "idle" /\ pc'[m] = "idle" /\ job'[m] \in {job[m], NoJob},
           pc'[l] # "idle" => server' # "down",
           LaneOK(l)'
    PROVE  OneAtATime' /\ \A m \in Lanes : LaneOK(m)'
<1>1. OneAtATime'
    BY DEF OneAtATime
<1>2. ASSUME NEW m \in Lanes \ {l} PROVE LaneOK(m)'
  <2>1. ~job[m].newly
      BY DEF LaneOK, CelebratesFirst
  <2>2. ~job'[m].newly
    <3>1. CASE job'[m] = job[m]
        BY <2>1, <3>1
    <3>2. CASE job'[m] = NoJob
        BY <3>2 DEF NoJob
    <3>3. QED BY <3>1, <3>2
  <2>3. QED BY <2>2 DEF LaneOK
<1>3. QED BY <1>1, <1>2

\* A call in progress takes a step of its own.
LEMMA LaneSteps ==
    ASSUME WellFormed, SerialInv, NEW l \in Lanes, pc[l] # "idle",
           NEW step, pc' = [pc EXCEPT ![l] = step],
           job' = job \/ \E j : job' = [job EXCEPT ![l] = j],
           server' # "down" \/ server' = server,
           LaneOK(l)'
    PROVE  OneAtATime' /\ \A m \in Lanes : LaneOK(m)'
<1>1. \A m \in Lanes \ {l} : pc[m] = "idle" /\ pc'[m] = "idle" /\ job'[m] = job[m]
    BY DEF SerialInv, OneAtATime, WellFormed, TypeOK
<1>2. server' # "down"
    BY DEF SerialInv, OneAtATime
<1>3. QED BY <1>1, <1>2, OneLaneMoves DEF SerialInv

\* A call that ends leaves every call idle.
LEMMA LaneEnds ==
    ASSUME WellFormed, SerialInv, NEW l \in Lanes, pc[l] # "idle", Drop(l),
           server' # "down" \/ server' = server
    PROVE  OneAtATime' /\ \A m \in Lanes : LaneOK(m)'
<1>1. /\ pc' = [pc EXCEPT ![l] = "idle"] /\ job' = [job EXCEPT ![l] = NoJob]
      /\ pc'[l] = "idle" /\ job'[l] = NoJob
    BY DEF Drop, WellFormed, TypeOK
<1>2. LaneOK(l)'
    BY <1>1 DEF LaneOK, NoJob
<1>3. QED BY <1>1, <1>2, LaneSteps

\* A learner who waits starts a call when there is none.
LEMMA LaneStarts ==
    ASSUME WellFormed, SerialInv, \A m \in Lanes : pc[m] = "idle",
           NEW l \in Lanes, NEW step, pc' = [pc EXCEPT ![l] = step],
           job' = job \/ \E j : job' = [job EXCEPT ![l] = j],
           server' # "down",
           LaneOK(l)'
    PROVE  OneAtATime' /\ \A m \in Lanes : LaneOK(m)'
<1>1. \A m \in Lanes \ {l} : pc[m] = "idle" /\ pc'[m] = "idle" /\ job'[m] = job[m]
    BY DEF WellFormed, TypeOK
<1>2. QED BY <1>1, OneLaneMoves DEF SerialInv

\* What the stores say is untouched, or rows that have been counted go.
LEMMA StoresKept ==
    ASSUME SerialInv, log' = log, executions' = executions, celebrated' = celebrated,
           \A s \in pending : s > log.lastApplied => s \in pending',
           OneAtATime', \A m \in Lanes : LaneOK(m)'
    PROVE  SerialInv'
BY DEF SerialInv, CountedExactlyOnce, Celebrations, Exact

LEMMA StillCelebratesFirst ==
    ASSUME NEW l \in Lanes, LaneOK(l), job' = job, executions' = executions,
           celebrated' = celebrated, pc'[l] \notin {"idle", "ensure", "record"}
    PROVE  job'[l].newly => CelebratesFirst(l)'
BY DEF LaneOK, CelebratesFirst

\* Every row has been counted: the first call of submit goes on to the judge,
\* and the answer of the second may celebrate.
LEMMA ReturnKeepsSerial ==
    ASSUME WellFormed, SerialInv, NEW l \in Lanes, pc[l] \in {"read", "acknowledge"},
           ReconcileReturns(l), log.lastApplied = Len(executions),
           log' = log, executions' = executions,
           \A s \in pending : s > log.lastApplied => s \in pending'
    PROVE  SerialInv'
<1>0. LaneOK(l)
    BY DEF SerialInv
<1>1. CASE /\ l # "boot"
           /\ ~job[l].recorded
           /\ pc' = [pc EXCEPT ![l] = "judge"]
           /\ copy' = [copy EXCEPT ![l] = EmptyLog]
           /\ UNCHANGED <<server, job, todo, celebrated>>
  <2>1. pc'[l] = "judge" /\ ~job'[l].recorded
      BY <1>1 DEF WellFormed, TypeOK
  <2>2. job'[l].newly => CelebratesFirst(l)'
      BY <1>0, <1>1, <2>1, StillCelebratesFirst
  <2>3. LaneOK(l)'
      BY <2>1, <2>2 DEF LaneOK
  <2>4. QED BY <1>1, <2>3, LaneSteps, StoresKept
<1>2. CASE /\ l # "boot"
           /\ job[l].recorded
           /\ celebrated' = [celebrated EXCEPT ![job[l].problem] =
                                IF job[l].newly THEN @ + 1 ELSE @]
           /\ Drop(l)
           /\ UNCHANGED server
  <2> DEFINE q == job[l].problem
  <2>1. q \in Problems
      BY <1>2 DEF WellFormed, CallsOK
  <2>2. OneAtATime' /\ \A m \in Lanes : LaneOK(m)'
      BY <1>2, LaneEnds
  <2>3. CountedExactlyOnce' /\ log'.lastApplied <= Len(executions')
      BY DEF SerialInv, CountedExactlyOnce, Exact
  <2>4. ASSUME job[l].newly PROVE celebrated[q] = 0 /\ log.progress[q].solved
    <3>1. celebrated[q] = 0 /\ SolvedBy(executions, q, Len(executions))
        BY <1>0, <1>2, <2>4 DEF LaneOK, CelebratesFirst
    <3>2. log.progress[q].solved <=> SolvedBy(executions, q, log.lastApplied)
        BY <2>1 DEF SerialInv, CountedExactlyOnce, Exact
    <3>3. QED BY <3>1, <3>2
  <2> HIDE DEF q
  <2>5. /\ celebrated'[q] = IF job[l].newly THEN celebrated[q] + 1 ELSE celebrated[q]
        /\ \A p \in Problems \ {q} : celebrated'[p] = celebrated[p]
      BY <1>2, <2>1 DEF q, WellFormed, TypeOK
  <2>6. Celebrations'
      BY <2>1, <2>4, <2>5 DEF SerialInv, Celebrations
  <2>7. QED BY <2>2, <2>3, <2>6 DEF SerialInv
<1>3. CASE /\ l = "boot"
           /\ server' = "serving"
           /\ Drop(l)
           /\ UNCHANGED celebrated
    BY <1>3, LaneEnds, StoresKept
<1>4. QED BY <1>1, <1>2, <1>3 DEF ReconcileReturns

\* A call that loaded the log writes back what it loaded, with a hint or a
\* surrender added, and ends.
LEMMA WriteKeepsSerial ==
    ASSUME WellFormed, SerialInv, NEW l \in Lanes, pc[l] # "idle", Drop(l),
           UNCHANGED <<executions, pending, server, celebrated>>,
           log'.lastApplied = log.lastApplied,
           \A p \in Problems :
               /\ log'.progress[p].attempts = log.progress[p].attempts
               /\ log'.progress[p].failed = log.progress[p].failed
               /\ log'.progress[p].solved = log.progress[p].solved
               /\ log'.progress[p].lastStatus = log.progress[p].lastStatus
    PROVE  SerialInv'
<1>1. OneAtATime' /\ \A m \in Lanes : LaneOK(m)'
    BY LaneEnds
<1>2. \A p \in Problems : Exact(executions', log', p)
    BY DEF SerialInv, CountedExactlyOnce, Exact
<1>3. CountedExactlyOnce'
    BY <1>2 DEF SerialInv, CountedExactlyOnce
<1>4. Celebrations'
    BY DEF SerialInv, Celebrations
<1>5. QED BY <1>1, <1>3, <1>4 DEF SerialInv

\* One iteration of the loop of reconcile.
LEMMA FoldKeepsSerial ==
    ASSUME WellFormed, SerialInv, NEW l \in Lanes, FoldNext(l)
    PROVE  SerialInv'
<1> DEFINE g == copy[l]
           k == g.lastApplied + 1
           new == UpdatedLog(g, executions[k], k)
<1>1. /\ pc[l] = "fold" /\ LaneOK(l) /\ FoldsNext(l)
      /\ UNCHANGED <<durable, server, job, hintsGiven, celebrated, faults>>
    BY DEF FoldNext, SerialInv, LaneOK
<1>2. PICK n \in todo[l] :
         /\ \A m \in todo[l] : n <= m
         /\ copy' = [copy EXCEPT ![l] = UpdatedLog(@, executions[n], n)]
         /\ todo' = [todo EXCEPT ![l] = @ \ {n}]
         /\ pc' = [pc EXCEPT ![l] = IF todo[l] = {n} THEN "save" ELSE "fold"]
    BY DEF FoldNext
<1>3. /\ g \in LearningLog /\ g.lastApplied \in Nat /\ Len(executions) \in Nat
      /\ log \in LearningLog /\ n \in 1..Len(executions)
    BY DEF WellFormed, TypeOK, RowsOK, LearningLog
<1>4. n = k
  <2>1. g.lastApplied < n
      BY <1>1, <1>2, <1>3 DEF FoldsNext
  <2>2. k \in 1..Len(executions) /\ k > g.lastApplied
      BY <1>3, <2>1
  <2>3. k \in todo[l]
      BY <1>1, <2>2 DEF FoldsNext
  <2>4. QED BY <1>2, <1>3, <2>1, <2>3
<1>5. executions[k] \in Execution /\ k \in Nat /\ g.lastApplied < k /\ k <= Len(executions)
    BY <1>3, <1>4 DEF WellFormed, TypeOK
<1>6. /\ copy'[l] = new /\ todo'[l] = todo[l] \ {k}
      /\ pc'[l] \in {"fold", "save"}
      /\ log' = log /\ executions' = executions /\ pending' = pending
    BY <1>1, <1>2, <1>4 DEF WellFormed, TypeOK, durable
<1>7. new.lastApplied = k
    BY DEF UpdatedLog
<1>8. \A p \in Problems : Exact(executions, new, p)
    BY <1>1, <1>3, ExactAfterFold DEF FoldsNext
<1>9. AtLeast(new) /\ log.lastApplied < k
    BY <1>1, <1>3, <1>5, AtLeastAfterFold DEF FoldsNext
<1> HIDE DEF new
<1>10. \A s \in 1..Len(executions) : s > k <=> s \in todo[l] \ {k}
    BY <1>1, <1>3 DEF FoldsNext
<1>11. AtLeast(copy[l])'
    BY <1>6, <1>9 DEF AtLeast
<1>12. FoldsNext(l)'
    BY <1>5, <1>6, <1>7, <1>8, <1>9, <1>10, <1>11 DEF FoldsNext
<1>13. job'[l].newly => CelebratesFirst(l)'
    BY <1>1, <1>6, StillCelebratesFirst
<1>14. LaneOK(l)'
    BY <1>6, <1>12, <1>13 DEF LaneOK
<1>15. OneAtATime' /\ \A m \in Lanes : LaneOK(m)'
    BY <1>1, <1>2, <1>14, LaneSteps
<1>16. QED BY <1>1, <1>6, <1>15, StoresKept

\* The log that replaces the present one counts every row recorded so far.
LEMMA SaveKeepsSerial ==
    ASSUME WellFormed, SerialInv, NEW l \in Lanes, SaveLog(l)
    PROVE  SerialInv'
<1>1. /\ pc[l] = "save" /\ LaneOK(l) /\ FoldsNext(l) /\ todo[l] = {}
      /\ log' = copy[l] /\ copy' = copy /\ pc'[l] = "acknowledge"
      /\ pc' = [pc EXCEPT ![l] = "acknowledge"]
      /\ UNCHANGED <<executions, pending, server, job, celebrated>>
    BY DEF SaveLog, Goto, SerialInv, LaneOK, WellFormed, CallsOK, TypeOK
<1>2. copy[l].lastApplied \in Nat /\ Len(executions) \in Nat
    BY DEF WellFormed, TypeOK, LearningLog
<1>3. copy[l].lastApplied = Len(executions)
  <2>1. copy[l].lastApplied <= Len(executions)
      BY <1>1 DEF FoldsNext
  <2>2. \A s \in 1..Len(executions) : ~(s > copy[l].lastApplied)
      BY <1>1 DEF FoldsNext
  <2>3. QED BY <1>2, <2>1, <2>2
<1>4. job'[l].newly => CelebratesFirst(l)'
    BY <1>1, StillCelebratesFirst
<1>5. LaneOK(l)'
    BY <1>1, <1>3, <1>4 DEF LaneOK
<1>6. OneAtATime' /\ \A m \in Lanes : LaneOK(m)'
    BY <1>1, <1>5, LaneSteps
<1>7. \A p \in Problems : Exact(executions', log', p)
    BY <1>1 DEF FoldsNext
<1>8. CountedExactlyOnce'
    BY <1>1, <1>2, <1>3, <1>7 DEF CountedExactlyOnce
<1>9. Celebrations'
    BY <1>1 DEF SerialInv, Celebrations, FoldsNext, AtLeast
<1>10. QED BY <1>1, <1>2, <1>3, <1>6, <1>8, <1>9 DEF SerialInv

\* One transaction: the execution and the row that is still to be counted.
LEMMA RecordKeepsSerial ==
    ASSUME WellFormed, SerialInv, NEW l \in Lanes, RecordExecution(l)
    PROVE  SerialInv'
<1> DEFINE q == job[l].problem
           e == [problem |-> q, mode |-> l, status |-> job[l].status]
           n == Len(executions) + 1
<1>1. /\ pc[l] = "record" /\ LaneOK(l)
      /\ pc' = [pc EXCEPT ![l] = "load"] /\ pc'[l] = "load"
      /\ executions' = Append(executions, e)
      /\ pending' = pending \cup {n}
      /\ job' = [job EXCEPT ![l] = [@ EXCEPT !.recorded = TRUE]]
      /\ UNCHANGED <<log, server, copy, todo, hintsGiven, celebrated, faults>>
    BY DEF RecordExecution, Goto, SerialInv, WellFormed, TypeOK
<1>2. /\ e \in Execution /\ executions \in Seq(Execution) /\ log \in LearningLog
      /\ job[l] \in Job /\ q \in Problems /\ l # "boot"
    BY <1>1 DEF WellFormed, TypeOK, CallsOK, Execution, Submitters
<1>3. job'[l].problem = q /\ job'[l].newly = job[l].newly
    BY <1>1, <1>2 DEF WellFormed, TypeOK, Job
<1>4. e.problem = q /\ e.mode = l /\ e.status = job[l].status
    OBVIOUS
<1>5. log.lastApplied \in Nat /\ log.lastApplied <= Len(executions)
    BY <1>2 DEF SerialInv, LearningLog
<1> HIDE DEF e, q
<1>6. Len(executions') = n /\ n \in Nat /\ executions'[n] = e
    BY <1>1, <1>2
<1>7. job[l].newly => Solves(e) /\ celebrated[q] = 0
    BY <1>1, <1>4 DEF LaneOK, CelebratesFirst, Solves, q
<1>8. job[l].newly => SolvedBy(executions', q, n)
    BY <1>4, <1>6, <1>7 DEF SolvedBy, ExecutionsOf
<1>9. LaneOK(l)'
    BY <1>1, <1>2, <1>3, <1>6, <1>7, <1>8 DEF LaneOK, CelebratesFirst
<1>10. OneAtATime' /\ \A m \in Lanes : LaneOK(m)'
    BY <1>1, <1>9, LaneSteps
<1>11. \A p \in Problems : Exact(executions', log', p)
    BY <1>1, <1>2, <1>5, ExactAfterAppend DEF SerialInv, CountedExactlyOnce
<1>12. \A s \in 1..n : s > log.lastApplied => s \in pending'
    BY <1>1, <1>2 DEF SerialInv, CountedExactlyOnce
<1>13. CountedExactlyOnce'
    BY <1>1, <1>6, <1>11, <1>12 DEF CountedExactlyOnce
<1>14. Celebrations'
    BY <1>1 DEF SerialInv, Celebrations
<1>15. log'.lastApplied <= Len(executions')
    BY <1>1, <1>2, <1>5, <1>6
<1>16. QED BY <1>10, <1>13, <1>14, <1>15 DEF SerialInv

LEMMA LoadForKeepsSerial ==
    ASSUME ~Overlap, WellFormed, SerialInv, NEW l, NEW p,
           NEW step \in {"generate", "surrender", "ensure"}, LoadFor(l, p, step)
    PROVE  SerialInv'
<1>1. /\ l \in Lanes /\ \A m \in Lanes : pc[m] = "idle"
      /\ pc' = [pc EXCEPT ![l] = step] /\ server' = "serving"
      /\ copy' = [copy EXCEPT ![l] = log]
      /\ job' = [job EXCEPT ![l] = [NoJob EXCEPT !.problem = p]]
      /\ UNCHANGED <<log, executions, pending, celebrated>>
    BY DEF LoadFor, MayStart, Goto, Lanes, durable
<1>2. pc'[l] = step /\ copy'[l] = log' /\ job'[l].newly = FALSE
    BY <1>1 DEF WellFormed, TypeOK, NoJob
<1>3. LaneOK(l)'
    BY <1>2 DEF LaneOK
<1>4. OneAtATime' /\ \A m \in Lanes : LaneOK(m)'
    BY <1>1, <1>3, LaneStarts
<1>5. QED BY <1>1, <1>4, StoresKept

LEMMA SerialStep ==
    ASSUME ~Overlap, WellFormed, SerialInv, [Next]_vars
    PROVE  SerialInv'
<1>0. /\ \A l \in Lanes : LaneOK(l) /\ copy[l] \in LearningLog
      /\ log \in LearningLog /\ Len(executions) \in Nat
    BY DEF SerialInv, WellFormed, TypeOK
<1>1. ASSUME NEW l \in Lanes, LoadLog(l) PROVE SerialInv'
  <2>1. /\ pc[l] = "load" /\ pc' = [pc EXCEPT ![l] = "prune"] /\ pc'[l] = "prune"
        /\ copy'[l] = log
        /\ UNCHANGED <<log, executions, pending, server, job, celebrated>>
      BY <1>1 DEF LoadLog, Goto, durable, WellFormed, TypeOK
  <2>2. job'[l].newly => CelebratesFirst(l)'
      BY <1>0, <2>1, StillCelebratesFirst
  <2>3. LaneOK(l)'
      BY <2>1, <2>2 DEF LaneOK
  <2>4. QED BY <2>1, <2>3, LaneSteps, StoresKept
<1>2. ASSUME NEW l \in Lanes, AcknowledgeApplied(l) PROVE SerialInv'
  <2>1. /\ pc[l] = "prune" /\ pc' = [pc EXCEPT ![l] = "read"] /\ pc'[l] = "read"
        /\ pending' = {s \in pending : s > copy[l].lastApplied}
        /\ UNCHANGED <<log, executions, server, job, copy, celebrated>>
      BY <1>2 DEF AcknowledgeApplied, Goto, WellFormed, TypeOK
  <2>2. copy[l] = log
      BY <1>0, <2>1 DEF LaneOK
  <2>3. job'[l].newly => CelebratesFirst(l)'
      BY <1>0, <2>1, StillCelebratesFirst
  <2>4. LaneOK(l)'
      BY <2>1, <2>2, <2>3 DEF LaneOK
  <2>5. QED BY <2>1, <2>2, <2>4, LaneSteps, StoresKept
<1>3. ASSUME NEW l \in Lanes, ReadPending(l) PROVE SerialInv'
  <2>1. /\ pc[l] = "read" /\ pc' = [pc EXCEPT ![l] = "fold"] /\ pc'[l] = "fold"
        /\ todo'[l] = Unapplied(l)
        /\ UNCHANGED <<log, executions, pending, server, job, copy, celebrated>>
      BY <1>3 DEF ReadPending, durable, WellFormed, TypeOK
  <2>2. copy[l] = log
      BY <1>0, <2>1 DEF LaneOK
  <2>3. \A s \in 1..Len(executions) : s > log.lastApplied <=> s \in todo'[l]
      BY <2>1, <2>2 DEF Unapplied, SerialInv, CountedExactlyOnce
  <2>4. AtLeast(copy[l])'
      BY <1>0, <2>1, <2>2, AtLeastItself DEF AtLeast
  <2>5. FoldsNext(l)'
      BY <2>1, <2>2, <2>3, <2>4 DEF FoldsNext, SerialInv, CountedExactlyOnce
  <2>6. job'[l].newly => CelebratesFirst(l)'
      BY <1>0, <2>1, StillCelebratesFirst
  <2>7. LaneOK(l)'
      BY <2>1, <2>5, <2>6 DEF LaneOK
  <2>8. QED BY <2>1, <2>7, LaneSteps, StoresKept
<1>4. ASSUME NEW l \in Lanes, NothingPending(l) PROVE SerialInv'
  <2>1. /\ pc[l] = "read" /\ Unapplied(l) = {} /\ ReconcileReturns(l)
        /\ UNCHANGED <<log, executions, pending>>
      BY <1>4 DEF NothingPending, durable
  <2>2. copy[l] = log
      BY <1>0, <2>1 DEF LaneOK
  <2>3. \A s \in 1..Len(executions) : ~(s > log.lastApplied)
      BY <2>1, <2>2 DEF Unapplied, SerialInv, CountedExactlyOnce
  <2>4. log.lastApplied \in Nat /\ log.lastApplied <= Len(executions)
      BY <1>0 DEF SerialInv, LearningLog
  <2>5. log.lastApplied = Len(executions)
      BY <1>0, <2>3, <2>4
  <2>6. QED BY <2>1, <2>5, ReturnKeepsSerial
<1>5. ASSUME NEW l \in Lanes, AcknowledgeSaved(l) PROVE SerialInv'
  <2>1. /\ pc[l] = "acknowledge" /\ ReconcileReturns(l)
        /\ pending' = {s \in pending : s > copy[l].lastApplied}
        /\ UNCHANGED <<log, executions>>
      BY <1>5 DEF AcknowledgeSaved
  <2>2. copy[l] = log /\ log.lastApplied = Len(executions)
      BY <1>0, <2>1 DEF LaneOK
  <2>3. QED BY <2>1, <2>2, ReturnKeepsSerial
<1>6. ASSUME NEW l \in Lanes, Judge(l) PROVE SerialInv'
  <2> DEFINE q == job[l].problem
  <2>1. /\ pc[l] = "judge" /\ pc' = [pc EXCEPT ![l] = "record"] /\ pc'[l] = "record"
        /\ UNCHANGED <<log, executions, pending, server, copy, celebrated>>
      BY <1>6 DEF Judge, Goto, durable, WellFormed, TypeOK
  <2>2. l \in Submitters /\ q \in Problems /\ job[l] \in Job /\ ~job[l].recorded
      BY <1>0, <2>1 DEF LaneOK, WellFormed, TypeOK, CallsOK, Submitters
  <2>3. PICK status \in Verdicts :
           job' = [job EXCEPT ![l] =
                     [@ EXCEPT !.status = status,
                               !.newly = /\ Solves([mode |-> l, status |-> status])
                                         /\ ~log.progress[q].solved]]
      BY <1>6 DEF Judge
  <2>4. /\ job'[l].problem = q /\ job'[l].recorded = job[l].recorded
        /\ job'[l].status = status
        /\ job'[l].newly = (/\ Solves([mode |-> l, status |-> status])
                            /\ ~log.progress[q].solved)
      BY <2>2, <2>3 DEF WellFormed, TypeOK, Job
  <2>5. job'[l].newly => celebrated[q] = 0
    <3>1. celebrated[q] \in Nat /\ celebrated[q] <= 1
        BY <2>2 DEF WellFormed, TypeOK, SerialInv, Celebrations
    <3>2. job'[l].newly => celebrated[q] # 1
        BY <2>2, <2>4 DEF SerialInv, Celebrations
    <3>3. QED BY <3>1, <3>2
  <2>6. job'[l].newly => CelebratesFirst(l)'
      BY <2>1, <2>2, <2>4, <2>5 DEF CelebratesFirst, Submitters
  <2>7. LaneOK(l)'
      BY <2>1, <2>2, <2>4, <2>6 DEF LaneOK
  <2>8. QED BY <2>1, <2>3, <2>7, LaneSteps, StoresKept
<1>7. ASSUME NEW l \in Lanes, Proceed(l) PROVE SerialInv'
    BY <1>1, <1>2, <1>3, <1>4, <1>5, <1>6, <1>7, FoldKeepsSerial, SaveKeepsSerial,
       RecordKeepsSerial DEF Proceed
<1>8. ASSUME NEW l, NEW p, StartSubmit(l, p) PROVE SerialInv'
  <2>1. /\ l \in Lanes /\ \A m \in Lanes : pc[m] = "idle"
        /\ pc' = [pc EXCEPT ![l] = "load"] /\ server' = "serving"
        /\ job' = [job EXCEPT ![l] = [NoJob EXCEPT !.problem = p]]
        /\ UNCHANGED <<log, executions, pending, celebrated>>
      BY <1>8 DEF StartSubmit, MayStart, Goto, Lanes, durable
  <2>2. pc'[l] = "load" /\ job'[l].newly = FALSE
      BY <2>1 DEF WellFormed, TypeOK, NoJob
  <2>3. LaneOK(l)'
      BY <2>2 DEF LaneOK
  <2>4. OneAtATime' /\ \A m \in Lanes : LaneOK(m)'
      BY <2>1, <2>3, LaneStarts
  <2>5. QED BY <2>1, <2>4, StoresKept
<1>9. CASE Boot
  <2>1. /\ "boot" \in Lanes /\ \A m \in Lanes : pc[m] = "idle"
        /\ pc' = [pc EXCEPT !["boot"] = "load"] /\ server' = "booting"
        /\ UNCHANGED <<log, executions, pending, job, celebrated>>
      BY <1>9 DEF Boot, Goto, Lanes, durable, SerialInv, OneAtATime
  <2>2. pc'["boot"] = "load" /\ ~job'["boot"].newly
    <3>1. ~job["boot"].newly
        BY <1>0, <2>1 DEF LaneOK, CelebratesFirst
    <3>2. QED BY <2>1, <3>1 DEF WellFormed, TypeOK
  <2>3. LaneOK("boot")'
      BY <2>2 DEF LaneOK
  <2>4. OneAtATime' /\ \A m \in Lanes : LaneOK(m)'
      BY <2>1, <2>3, LaneStarts
  <2>5. QED BY <2>1, <2>4, StoresKept
<1>10. CASE Start
    BY <1>8, <1>9, <1>10, LoadForKeepsSerial DEF Start, StartHint, StartGiveUp, StartEnsureLog
<1>11. CASE FinishHint
  <2>1. /\ "hint" \in Lanes /\ pc["hint"] = "generate" /\ copy["hint"] = log
        /\ job["hint"].problem \in Problems
      BY <1>0, <1>11 DEF FinishHint, Lanes, LaneOK, WellFormed, CallsOK
  <2>2. QED
      BY <1>0, <1>11, <2>1, HintFields, WriteKeepsSerial DEF FinishHint
<1>12. CASE FinishGiveUp
  <2>1. /\ "give_up" \in Lanes /\ pc["give_up"] = "surrender" /\ copy["give_up"] = log
        /\ job["give_up"].problem \in Problems
      BY <1>0, <1>12 DEF FinishGiveUp, Lanes, LaneOK, WellFormed, CallsOK
  <2>2. QED
      BY <1>0, <1>12, <2>1, SurrenderFields, WriteKeepsSerial DEF FinishGiveUp
<1>13. CASE FinishEnsureLog
  <2>1. /\ "create" \in Lanes /\ pc["create"] = "ensure" /\ copy["create"] = log
      BY <1>0, <1>13 DEF FinishEnsureLog, Lanes, LaneOK
  <2>2. QED BY <1>13, <2>1, WriteKeepsSerial DEF FinishEnsureLog
<1>14. CASE Crash
  <2>1. /\ \A m \in Lanes : pc'[m] = "idle" /\ job'[m] = NoJob
        /\ UNCHANGED <<log, executions, pending, celebrated>>
      BY <1>14 DEF Crash, durable
  <2>2. OneAtATime' /\ \A m \in Lanes : LaneOK(m)'
      BY <2>1 DEF OneAtATime, LaneOK, NoJob
  <2>3. QED BY <2>1, <2>2, StoresKept
<1>15. ASSUME NEW l \in Lanes, Fail(l) PROVE SerialInv'
    BY <1>15, LaneEnds, StoresKept DEF Fail, durable
<1>16. CASE UNCHANGED vars
  <2>1. OneAtATime' /\ \A m \in Lanes : LaneOK(m)'
      BY <1>16 DEF vars, SerialInv, OneAtATime, LaneOK, FoldsNext, AtLeast,
                   CelebratesFirst, Exact
  <2>2. QED BY <1>16, <2>1, StoresKept DEF vars
<1>17. QED
    BY <1>7, <1>10, <1>11, <1>12, <1>13, <1>14, <1>15, <1>16 DEF Next

LEMMA SerialReachable ==
    ASSUME ~Overlap
    PROVE  Spec => [](WellFormed /\ SerialInv)
<1>1. Init => WellFormed /\ SerialInv
    BY WellFormedInit, SerialInit
<1>2. WellFormed /\ SerialInv /\ [Next]_vars => (WellFormed /\ SerialInv)'
    BY WellFormedStep, SerialStep
<1>3. QED BY <1>1, <1>2, PTL DEF Spec

\* For a learner who waits for each answer, the aggregates are always those of
\* a prefix of the executions and every later row is still there, wherever
\* the process dies or a call fails: the order of the two stores in reconcile.
THEOREM ExactlyOnce ==
    ASSUME ~Overlap
    PROVE  Spec => []CountedExactlyOnce
<1>1. WellFormed /\ SerialInv => CountedExactlyOnce
    BY DEF SerialInv
<1>2. QED BY <1>1, SerialReachable, PTL

\* Every step of such a learner that changes the log keeps what it had: the
\* only log that is not the present one with something added is the one that
\* reconcile saves.
LEMMA LogGrows ==
    ASSUME WellFormed, SerialInv, [Next]_vars
    PROVE  log' = log \/ AtLeast(log')
<1>0. log \in LearningLog /\ \A l \in Lanes : LaneOK(l)
    BY DEF SerialInv, WellFormed, TypeOK
<1>1. ASSUME NEW l \in Lanes, Proceed(l) PROVE log' = log \/ AtLeast(log')
  <2>1. CASE SaveLog(l)
    <3>1. pc[l] = "save" /\ log' = copy[l]
        BY <2>1 DEF SaveLog, Goto
    <3>2. AtLeast(copy[l])
        BY <1>0, <3>1 DEF LaneOK, FoldsNext
    <3>3. QED BY <3>1, <3>2
  <2>2. QED
      BY <1>1, <2>1 DEF Proceed, LoadLog, AcknowledgeApplied, ReadPending, NothingPending,
                        FoldNext, AcknowledgeSaved, Judge, RecordExecution, durable
<1>2. CASE FinishHint
  <2>1. /\ copy["hint"] = log /\ job["hint"].problem \in Problems
        /\ log' = [copy["hint"] EXCEPT !.progress[job["hint"].problem].hints = @ + 1]
      BY <1>0, <1>2 DEF FinishHint, Lanes, LaneOK, WellFormed, CallsOK
  <2>2. log.lastApplied \in Nat
        /\ \A p \in Problems : log.progress[p].attempts \in Nat /\ log.progress[p].hints \in Nat
      BY <1>0 DEF LearningLog, Progress
  <2>3. /\ log'.lastApplied = log.lastApplied
        /\ \A p \in Problems :
             /\ log'.progress[p].hints \in {log.progress[p].hints, log.progress[p].hints + 1}
             /\ log'.progress[p].attempts = log.progress[p].attempts
             /\ log'.progress[p].solved = log.progress[p].solved
             /\ log'.progress[p].gaveUp = log.progress[p].gaveUp
    <3>1. \A p \in Problems :
             log'.progress[p].hints
                 = log.progress[p].hints + (IF p = job["hint"].problem THEN 1 ELSE 0)
        BY <1>0, <2>1, HintFields
    <3>2. \A p \in Problems :
             log'.progress[p].hints \in {log.progress[p].hints, log.progress[p].hints + 1}
        BY <2>2, <3>1
    <3>3. QED BY <1>0, <2>1, <3>2, HintFields
  <2>4. AtLeast(log')
      BY <2>2, <2>3 DEF AtLeast
  <2>5. QED BY <2>4
<1>3. CASE FinishGiveUp
  <2>1. /\ copy["give_up"] = log /\ job["give_up"].problem \in Problems
        /\ log' = [copy["give_up"] EXCEPT !.progress[job["give_up"].problem].gaveUp = TRUE]
      BY <1>0, <1>3 DEF FinishGiveUp, Lanes, LaneOK, WellFormed, CallsOK
  <2>2. log.lastApplied \in Nat
        /\ \A p \in Problems : log.progress[p].attempts \in Nat /\ log.progress[p].hints \in Nat
      BY <1>0 DEF LearningLog, Progress
  <2>3. /\ log'.lastApplied = log.lastApplied
        /\ \A p \in Problems :
             /\ log'.progress[p].hints = log.progress[p].hints
             /\ log'.progress[p].attempts = log.progress[p].attempts
             /\ log'.progress[p].solved = log.progress[p].solved
             /\ log.progress[p].gaveUp => log'.progress[p].gaveUp
    <3> DEFINE q == job["give_up"].problem
    <3> HIDE DEF q
    <3>1. log' = [log EXCEPT !.progress[q].gaveUp = TRUE] /\ q \in Problems
        BY <2>1 DEF q
    <3>2. QED BY <1>0, <3>1, SurrenderFields
  <2>4. AtLeast(log')
      BY <2>2, <2>3 DEF AtLeast
  <2>5. QED BY <2>4
<1>4. CASE FinishEnsureLog
  <2>1. pc["create"] = "ensure" /\ copy["create"] = log /\ log' = copy["create"]
      BY <1>0, <1>4 DEF FinishEnsureLog, Lanes, LaneOK
  <2>2. QED BY <2>1
<1>5. CASE Start
    BY <1>5 DEF Start, StartSubmit, StartHint, StartGiveUp, StartEnsureLog, LoadFor, Boot, durable
<1>6. QED
    BY <1>1, <1>2, <1>3, <1>4, <1>5 DEF Next, Crash, Fail, durable, vars

\* What a learner who waits has achieved is never taken back by a later write,
\* and a problem is announced as newly completed at most once: the whole-log
\* saves of reconcile, request_hint, give_up and _ensure_log, one at a time.
THEOREM AchievementsSurvive ==
    ASSUME ~Overlap
    PROVE  Spec => AchievementsKept
<1> DEFINE Kept == /\ log'.lastApplied >= log.lastApplied
                   /\ \A p \in Problems :
                        /\ log.progress[p].solved => log'.progress[p].solved
                        /\ log.progress[p].gaveUp => log'.progress[p].gaveUp
                        /\ log'.progress[p].attempts >= log.progress[p].attempts
                        /\ log'.progress[p].hints >= log.progress[p].hints
<1>1. WellFormed /\ SerialInv => CelebratedOnce
    BY DEF SerialInv, Celebrations, CelebratedOnce
<1>2. ASSUME WellFormed, SerialInv, [Next]_vars PROVE [Kept]_log
  <2>1. CASE log' = log
      BY <2>1
  <2>2. CASE AtLeast(log')
      BY <2>2 DEF AtLeast
  <2>3. QED BY <1>2, <2>1, <2>2, LogGrows
<1>3. WellFormed /\ SerialInv /\ [Next]_vars => [Kept]_log
    BY <1>2
<1>4. Spec => []CelebratedOnce
    BY <1>1, SerialReachable, PTL
<1>5. Spec => [][Kept]_log
    BY <1>3, SerialReachable, PTL DEF Spec
<1>6. QED BY <1>4, <1>5 DEF AchievementsKept

-----------------------------------------------------------------------------
(* The log implements the ledger *)

\* A step that leaves the executions and the tally of each problem alone.
LEMMA TallyKept ==
    ASSUME executions' = executions, log'.lastApplied = log.lastApplied,
           \A p \in Problems :
               /\ log'.progress[p].attempts = log.progress[p].attempts
               /\ log'.progress[p].failed = log.progress[p].failed
               /\ log'.progress[p].solved = log.progress[p].solved
    PROVE  UNCHANGED Ledger!ledger
<1>1. Tally' = Tally
    BY DEF Tally
<1>2. QED BY <1>1 DEF Ledger!ledger

LEMMA LedgerInit == Init => Ledger!Init
<1> SUFFICES ASSUME Init PROVE Ledger!Init
    OBVIOUS
<1>1. /\ executions = <<>> /\ log = EmptyLog /\ EmptyLog.lastApplied = 0
      /\ \A p \in Problems : /\ EmptyLog.progress[p].attempts = 0
                             /\ EmptyLog.progress[p].failed = 0
                             /\ EmptyLog.progress[p].solved = FALSE
    BY DEF Init, EmptyLog
<1>2. Tally = [p \in Problems |-> [attempts |-> 0, failed |-> 0, solved |-> FALSE]]
    BY <1>1 DEF Tally
<1>3. QED BY <1>1, <1>2 DEF Ledger!Init

\* reconcile's save is the step of the ledger that counts.
LEMMA SaveCounts ==
    ASSUME WellFormed, SerialInv, NEW l \in Lanes, SaveLog(l)
    PROVE  Ledger!Next
<1> DEFINE n == copy[l].lastApplied
<1>1. /\ pc[l] = "save" /\ log' = copy[l] /\ executions' = executions
    BY DEF SaveLog, Goto
<1>2. FoldsNext(l)
    BY <1>1 DEF SerialInv, LaneOK
<1>3. n \in Nat /\ log.lastApplied \in Nat /\ Len(executions) \in Nat
    BY DEF WellFormed, TypeOK, LearningLog
<1>4. n \in log.lastApplied + 1 .. Len(executions)
    BY <1>1, <1>2, <1>3 DEF FoldsNext
<1>5. \A p \in Problems : Exact(executions, copy[l], p)
    BY <1>2 DEF FoldsNext
<1>6. \A p \in Problems :
        /\ copy[l].progress[p].attempts = Cardinality(ExecutionsOf(executions, p, n))
        /\ copy[l].progress[p].failed = Cardinality(FailuresOf(executions, p, n))
        /\ copy[l].progress[p].solved = SolvedBy(executions, p, n)
  <2>1. \A p \in Problems : copy[l].progress[p].solved \in BOOLEAN
      BY DEF WellFormed, TypeOK, LearningLog, Progress
  <2>2. \A p \in Problems : SolvedBy(executions, p, n) \in BOOLEAN
      BY DEF SolvedBy
  <2>3. QED BY <1>5, <2>1, <2>2 DEF Exact
<1> HIDE DEF n
<1>7. ASSUME NEW p \in Problems
      PROVE  /\ Ledger!Cardinality(Ledger!ExecutionsOf(executions, p, n))
                  = Cardinality(ExecutionsOf(executions, p, n))
             /\ Ledger!Cardinality(Ledger!FailuresOf(executions, p, n))
                  = Cardinality(FailuresOf(executions, p, n))
             /\ Ledger!SolvedBy(executions, p, n) = SolvedBy(executions, p, n)
  <2>1. \A S : Ledger!Cardinality(S) = Cardinality(S)
      BY DEF Ledger!Cardinality, Cardinality
  <2>2. Ledger!ExecutionsOf(executions, p, n) = ExecutionsOf(executions, p, n)
      BY DEF Ledger!ExecutionsOf, ExecutionsOf
  <2>3. Ledger!FailuresOf(executions, p, n) = FailuresOf(executions, p, n)
      BY <2>2 DEF Ledger!FailuresOf, FailuresOf
  <2>4. Ledger!SolvedBy(executions, p, n) = SolvedBy(executions, p, n)
      BY <2>2 DEF Ledger!SolvedBy, Ledger!Solves, SolvedBy, Solves
  <2>5. QED BY <2>1, <2>2, <2>3, <2>4
<1>8. Tally' = Ledger!Summary(n)
  <2>1. Tally' = [p \in Problems |-> [attempts |-> copy[l].progress[p].attempts,
                                      failed |-> copy[l].progress[p].failed,
                                      solved |-> copy[l].progress[p].solved]]
      BY <1>1 DEF Tally
  <2>2. QED BY <1>6, <1>7, <2>1 DEF Ledger!Summary
<1>9. Ledger!CountUpTo(n)
    BY <1>1, <1>8 DEF Ledger!CountUpTo, n
<1>10. QED BY <1>4, <1>9 DEF Ledger!Next

\* Every other step records an execution or leaves the ledger as it is.
LEMMA LedgerStep ==
    ASSUME WellFormed, SerialInv, [Next]_vars
    PROVE  [Ledger!Next]_(Ledger!ledger)
<1>0. log \in LearningLog /\ \A l \in Lanes : LaneOK(l)
    BY DEF SerialInv, WellFormed, TypeOK
<1>1. ASSUME log' = log, executions' = executions PROVE UNCHANGED Ledger!ledger
    BY <1>1, TallyKept
<1>2. ASSUME NEW l \in Lanes, RecordExecution(l) PROVE Ledger!Next
  <2> DEFINE e == [problem |-> job[l].problem, mode |-> l, status |-> job[l].status]
  <2>1. /\ pc[l] = "record" /\ executions' = Append(executions, e) /\ log' = log
      BY <1>2 DEF RecordExecution, Goto
  <2>2. e \in Ledger!Recordable
      BY <2>1 DEF WellFormed, CallsOK, Submitters, Ledger!Recordable, Ledger!Submitters
  <2>3. Tally' = Tally
      BY <2>1 DEF Tally
  <2>4. Ledger!Record(e)
      BY <2>1, <2>3 DEF Ledger!Record
  <2>5. QED BY <2>2, <2>4 DEF Ledger!Next
<1>3. ASSUME NEW l \in Lanes, Proceed(l) PROVE [Ledger!Next]_(Ledger!ledger)
  <2>1. CASE RecordExecution(l)
      BY <1>2, <2>1
  <2>2. CASE SaveLog(l)
      BY <2>2, SaveCounts
  <2>3. CASE log' = log /\ executions' = executions
      BY <1>1, <2>3
  <2>4. QED
      BY <1>3, <2>1, <2>2, <2>3
         DEF Proceed, LoadLog, AcknowledgeApplied, ReadPending, NothingPending, FoldNext,
             AcknowledgeSaved, Judge, durable
<1>4. CASE FinishHint
  <2> DEFINE q == job["hint"].problem
  <2> HIDE DEF q
  <2>1. /\ log' = [log EXCEPT !.progress[q].hints = @ + 1] /\ q \in Problems
        /\ executions' = executions
      BY <1>0, <1>4 DEF FinishHint, Lanes, LaneOK, WellFormed, CallsOK, q
  <2>2. QED BY <1>0, <2>1, HintFields, TallyKept
<1>5. CASE FinishGiveUp
  <2> DEFINE q == job["give_up"].problem
  <2> HIDE DEF q
  <2>1. /\ log' = [log EXCEPT !.progress[q].gaveUp = TRUE] /\ q \in Problems
        /\ executions' = executions
      BY <1>0, <1>5 DEF FinishGiveUp, Lanes, LaneOK, WellFormed, CallsOK, q
  <2>2. QED BY <1>0, <2>1, SurrenderFields, TallyKept
<1>6. CASE FinishEnsureLog
    BY <1>0, <1>1, <1>6 DEF FinishEnsureLog, Lanes, LaneOK
<1>7. CASE Start
    BY <1>1, <1>7
       DEF Start, StartSubmit, StartHint, StartGiveUp, StartEnsureLog, LoadFor, Boot, durable
<1>8. QED
    BY <1>1, <1>3, <1>4, <1>5, <1>6, <1>7 DEF Next, Crash, Fail, durable, vars

\* The two stores, the rows between them and a process that may die anywhere
\* implement the ledger, for a learner who waits for each answer.
THEOREM LedgerImplemented ==
    ASSUME ~Overlap
    PROVE  Spec => ImplementsLedger
<1>1. WellFormed /\ SerialInv /\ [Next]_vars => [Ledger!Next]_(Ledger!ledger)
    BY LedgerStep
<1>2. Spec => Ledger!Init /\ [][Ledger!Next]_(Ledger!ledger)
    BY <1>1, LedgerInit, SerialReachable, PTL DEF Spec
<1>3. QED BY <1>2 DEF ImplementsLedger, Ledger!Spec

=============================================================================
