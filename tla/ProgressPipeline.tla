-------------------------- MODULE ProgressPipeline --------------------------
(***************************************************************************)
(* The learning log of one profile, and every handler that writes it.      *)
(*                                                                         *)
(* A submission is recorded in two stores that share no transaction: an    *)
(* event row in the profile's SQLite database (record_execution), and the  *)
(* aggregates of the JSON learning log, into which reconcile() folds the   *)
(* event rows it has not applied yet.  request_hint, give_up and           *)
(* _ensure_log load the same JSON file, change a copy and write the whole  *)
(* copy back.  No lock spans a load and its save.                          *)
(*                                                                         *)
(* A lane is one event function of the web application: the queue runs at  *)
(* most one call of each at a time and different ones concurrently.  The   *)
(* lane "boot" is the loop at the end of cli.main that reconciles the      *)
(* profile before the application serves requests.                         *)
(*                                                                         *)
(* A definition marked Deviation is not the code: it is the mistake whose  *)
(* effect a run must notice (PROJECT.json, "mutants").                     *)
(***************************************************************************)
EXTENDS ExecutionHistory

CONSTANTS
    Problems,       \* problem ids of the catalogue
    Verdicts,       \* judge verdicts that are told apart
    Handlers,       \* the event functions that may run
    Overlap,        \* TRUE: handlers run concurrently; FALSE: a learner who
                    \* waits for each answer before the next click
    MaxExecutions,  \* bound: no submission starts after so many executions
    MaxHints,       \* bound: no hint starts after so many on a problem
    MaxFaults       \* bound: crashes and failed persistence calls

ASSUME ConstantsAssumption ==
    /\ "AC" \in Verdicts
    /\ Handlers \subseteq Submitters \cup {"hint", "give_up", "create"}
    /\ Overlap \in BOOLEAN
    /\ MaxExecutions \in Nat
    /\ MaxHints \in Nat
    /\ MaxFaults \in Nat

VARIABLES
    log,         \* <profile>.json, what load_log returns
    executions,  \* executions recorded so far; the index is the sequence that
                 \* AUTOINCREMENT gave the event row, which is never reused
    pending,     \* sequences of the rows left in pending_progress_updates
    server,      \* "down", "booting" or "serving"
    pc,          \* per lane, the next step of its call
    job,         \* per lane, the arguments and results of its call
    copy,        \* per lane, the LearningLog object it holds
    todo,        \* per lane, the event rows it has read and not folded yet
    hintsGiven,  \* history: hints whose request saved the log
    celebrated,  \* history: submissions that answered newly_completed
    faults       \* crashes and failed calls so far

durable == <<log, executions, pending>>
vars == <<log, executions, pending, server, pc, job, copy, todo,
          hintsGiven, celebrated, faults>>

-----------------------------------------------------------------------------

Lanes == Handlers \cup {"boot"}

Progress == [attempts: Nat, failed: Nat, hints: Nat, solved: BOOLEAN,
             gaveUp: BOOLEAN, lastStatus: Verdicts \cup {None}]
LearningLog == [progress: [Problems -> Progress], lastApplied: Nat]
Execution == [problem: Problems, mode: Submitters, status: Verdicts]
Job == [problem: Problems \cup {None}, status: Verdicts \cup {None},
        newly: BOOLEAN, recorded: BOOLEAN]
Steps == {"idle",
          "load", "prune", "read", "fold", "save", "acknowledge",
          "judge", "record",
          "generate", "surrender", "ensure"}

\* A log file that does not exist yet loads as this value.
EmptyLog ==
    [progress |-> [p \in Problems |->
                     [attempts |-> 0, failed |-> 0, hints |-> 0, solved |-> FALSE,
                      gaveUp |-> FALSE, lastStatus |-> None]],
     lastApplied |-> 0]
NoJob == [problem |-> None, status |-> None, newly |-> FALSE, recorded |-> FALSE]

\* Deviation: a later failed submission takes the solution back.
UpdatedProgressForgetsSolution(current, e) ==
    [attempts |-> current.attempts + 1,
     failed |-> IF e.status = "AC" THEN current.failed ELSE current.failed + 1,
     hints |-> current.hints,
     solved |-> Solves(e),
     gaveUp |-> current.gaveUp,
     lastStatus |-> e.status]

\* The progress of a problem after one more of its executions.
UpdatedProgress(current, e) ==
    [attempts |-> current.attempts + 1,
     failed |-> IF e.status = "AC" THEN current.failed ELSE current.failed + 1,
     hints |-> current.hints,
     solved |-> current.solved \/ Solves(e),
     gaveUp |-> current.gaveUp,
     lastStatus |-> e.status]

\* One event folded into the log.  The code stores the new
\* last_applied_submission_sequence once, after its loop; the object is private
\* until it is saved, so advancing it event by event ends in the same object.
UpdatedLog(g, e, sequence) ==
    [progress |-> [g.progress EXCEPT ![e.problem] = UpdatedProgress(@, e)],
     lastApplied |-> sequence]

-----------------------------------------------------------------------------

Init ==
    /\ log = EmptyLog
    /\ executions = <<>>
    /\ pending = {}
    /\ server = "down"
    /\ pc = [l \in Lanes |-> "idle"]
    /\ job = [l \in Lanes |-> NoJob]
    /\ copy = [l \in Lanes |-> EmptyLog]
    /\ todo = [l \in Lanes |-> {}]
    /\ hintsGiven = [p \in Problems |-> 0]
    /\ celebrated = [p \in Problems |-> 0]
    /\ faults = 0

Goto(l, from, to) == pc[l] = from /\ pc' = [pc EXCEPT ![l] = to]

\* A call that starts: the learner clicks, and the queue has a free slot.
MayStart(l) ==
    /\ server = "serving"
    /\ l \in Handlers
    /\ Overlap \/ \A m \in Lanes : pc[m] = "idle"

\* A call that ends: its objects are garbage.
Drop(l) ==
    /\ pc' = [pc EXCEPT ![l] = "idle"]
    /\ job' = [job EXCEPT ![l] = NoJob]
    /\ copy' = [copy EXCEPT ![l] = EmptyLog]
    /\ todo' = [todo EXCEPT ![l] = {}]

\* Deviation: submit records the execution before it is judged.
ReconcileReturnsUnjudged(l) ==
    \/ /\ l # "boot"
       /\ ~job[l].recorded
       /\ pc' = [pc EXCEPT ![l] = "record"]
       /\ copy' = [copy EXCEPT ![l] = EmptyLog]
       /\ UNCHANGED <<server, job, todo, celebrated>>
    \/ /\ l = "boot"
       /\ server' = "serving"
       /\ Drop(l)
       /\ UNCHANGED celebrated

\* What follows reconcile: the judge on the first call of submit, the answer
\* on the second, and the opening of the application after the boot loop.
ReconcileReturns(l) ==
    \/ /\ l # "boot"
       /\ ~job[l].recorded
       /\ pc' = [pc EXCEPT ![l] = "judge"]
       /\ copy' = [copy EXCEPT ![l] = EmptyLog]
       /\ UNCHANGED <<server, job, todo, celebrated>>
    \/ /\ l # "boot"
       /\ job[l].recorded
       /\ celebrated' = [celebrated EXCEPT ![job[l].problem] =
                            IF job[l].newly THEN @ + 1 ELSE @]
       /\ Drop(l)
       /\ UNCHANGED server
    \/ /\ l = "boot"
       /\ server' = "serving"
       /\ Drop(l)
       /\ UNCHANGED celebrated

-----------------------------------------------------------------------------
(* reconcile *)

LoadLog(l) ==
    /\ Goto(l, "load", "prune")
    /\ copy' = [copy EXCEPT ![l] = log]
    /\ UNCHANGED <<durable, server, job, todo, hintsGiven, celebrated, faults>>

\* Deviation: one row too many is deleted.
AcknowledgeOneTooMany(l) ==
    /\ Goto(l, "prune", "read")
    /\ pending' = {s \in pending : s > copy[l].lastApplied + 1}
    /\ UNCHANGED <<log, executions, server, job, copy, todo,
                   hintsGiven, celebrated, faults>>

\* acknowledge_progress before reading: rows a crash left behind are dropped.
AcknowledgeApplied(l) ==
    /\ Goto(l, "prune", "read")
    /\ pending' = {s \in pending : s > copy[l].lastApplied}
    /\ UNCHANGED <<log, executions, server, job, copy, todo,
                   hintsGiven, celebrated, faults>>

\* Deviation: the first row that is not applied is skipped.
UnappliedSkipsFirst(l) == {s \in pending : s > copy[l].lastApplied + 1}

Unapplied(l) == {s \in pending : s > copy[l].lastApplied}

ReadPending(l) ==
    /\ pc[l] = "read"
    /\ Unapplied(l) # {}
    /\ todo' = [todo EXCEPT ![l] = Unapplied(l)]
    /\ pc' = [pc EXCEPT ![l] = "fold"]
    /\ UNCHANGED <<durable, server, job, copy, hintsGiven, celebrated, faults>>

NothingPending(l) ==
    /\ pc[l] = "read"
    /\ Unapplied(l) = {}
    /\ ReconcileReturns(l)
    /\ UNCHANGED <<durable, hintsGiven, faults>>

\* One iteration of the loop over pending, in the order of the sequences.
FoldNext(l) ==
    /\ pc[l] = "fold"
    /\ \E n \in todo[l] :
         /\ \A m \in todo[l] : n <= m
         /\ copy' = [copy EXCEPT ![l] = UpdatedLog(@, executions[n], n)]
         /\ todo' = [todo EXCEPT ![l] = @ \ {n}]
         /\ pc' = [pc EXCEPT ![l] = IF todo[l] = {n} THEN "save" ELSE "fold"]
    /\ UNCHANGED <<durable, server, job, hintsGiven, celebrated, faults>>

\* Deviation: the counts are saved without the sequence they go up to, which is
\* what makes it harmless to read a row again after a crash.
SaveLogWithoutSequence(l) ==
    /\ Goto(l, "save", "acknowledge")
    /\ log' = [copy[l] EXCEPT !.lastApplied = log.lastApplied]
    /\ UNCHANGED <<executions, pending, server, job, copy, todo,
                   hintsGiven, celebrated, faults>>

SaveLog(l) ==
    /\ Goto(l, "save", "acknowledge")
    /\ log' = copy[l]
    /\ UNCHANGED <<executions, pending, server, job, copy, todo,
                   hintsGiven, celebrated, faults>>

AcknowledgeSaved(l) ==
    /\ pc[l] = "acknowledge"
    /\ pending' = {s \in pending : s > copy[l].lastApplied}
    /\ ReconcileReturns(l)
    /\ UNCHANGED <<log, executions, hintsGiven, faults>>

-----------------------------------------------------------------------------
(* submit *)

StartSubmit(l, p) ==
    /\ MayStart(l)
    /\ l \in Submitters
    /\ Len(executions) < MaxExecutions
    /\ Goto(l, "idle", "load")
    /\ job' = [job EXCEPT ![l] = [NoJob EXCEPT !.problem = p]]
    /\ UNCHANGED <<durable, server, copy, todo, hintsGiven, celebrated, faults>>

\* The verdict, and newly_completed from the log as it is at that moment.
Judge(l) ==
    /\ Goto(l, "judge", "record")
    /\ \E status \in Verdicts :
         job' = [job EXCEPT ![l] =
                   [@ EXCEPT !.status = status,
                             !.newly = /\ Solves([mode |-> l, status |-> status])
                                       /\ ~log.progress[job[l].problem].solved]]
    /\ UNCHANGED <<durable, server, copy, todo, hintsGiven, celebrated, faults>>

\* One SQLite transaction: the event row and its sequence become durable
\* together (the code snapshot of the same transaction is another module's).
RecordExecution(l) ==
    /\ Goto(l, "record", "load")
    /\ executions' = Append(executions, [problem |-> job[l].problem, mode |-> l,
                                         status |-> job[l].status])
    /\ pending' = pending \cup {Len(executions) + 1}
    /\ job' = [job EXCEPT ![l] = [@ EXCEPT !.recorded = TRUE]]
    /\ UNCHANGED <<log, server, copy, todo, hintsGiven, celebrated, faults>>

-----------------------------------------------------------------------------
(* The other writers of the log *)

\* Load the log, then go on to the step that saves the changed copy.
LoadFor(l, p, step) ==
    /\ MayStart(l)
    /\ Goto(l, "idle", step)
    /\ copy' = [copy EXCEPT ![l] = log]
    /\ job' = [job EXCEPT ![l] = [NoJob EXCEPT !.problem = p]]
    /\ UNCHANGED <<durable, server, todo, hintsGiven, celebrated, faults>>

\* request_hint loads the log before the provider generates the hint ...
StartHint(p) ==
    /\ hintsGiven[p] < MaxHints
    /\ LoadFor("hint", p, "generate")

\* ... and saves that same object, one hint richer, when the hint is there.
FinishHint ==
    LET p == job["hint"].problem IN
    /\ "hint" \in Handlers
    /\ pc["hint"] = "generate"
    /\ log' = [copy["hint"] EXCEPT !.progress[p].hints = @ + 1]
    /\ hintsGiven' = [hintsGiven EXCEPT ![p] = @ + 1]
    /\ Drop("hint")
    /\ UNCHANGED <<executions, pending, server, celebrated, faults>>

StartGiveUp(p) ==
    /\ ~log.progress[p].solved
    /\ ~log.progress[p].gaveUp
    /\ LoadFor("give_up", p, "surrender")

FinishGiveUp ==
    /\ "give_up" \in Handlers
    /\ pc["give_up"] = "surrender"
    /\ log' = [copy["give_up"] EXCEPT !.progress[job["give_up"].problem].gaveUp = TRUE]
    /\ Drop("give_up")
    /\ UNCHANGED <<executions, pending, server, hintsGiven, celebrated, faults>>

\* create_profile with the name of an existing profile returns that profile,
\* and _ensure_log writes its log back as it was loaded.
StartEnsureLog == LoadFor("create", None, "ensure")

FinishEnsureLog ==
    /\ "create" \in Handlers
    /\ pc["create"] = "ensure"
    /\ log' = copy["create"]
    /\ Drop("create")
    /\ UNCHANGED <<executions, pending, server, hintsGiven, celebrated, faults>>

-----------------------------------------------------------------------------
(* The process *)

Boot ==
    /\ server = "down"
    /\ server' = "booting"
    /\ Goto("boot", "idle", "load")
    /\ UNCHANGED <<durable, job, copy, todo, hintsGiven, celebrated, faults>>

\* The process dies between any two steps: what is in memory is gone.
Crash ==
    /\ server # "down"
    /\ faults < MaxFaults
    /\ server' = "down"
    /\ pc' = [l \in Lanes |-> "idle"]
    /\ job' = [l \in Lanes |-> NoJob]
    /\ copy' = [l \in Lanes |-> EmptyLog]
    /\ todo' = [l \in Lanes |-> {}]
    /\ faults' = faults + 1
    /\ UNCHANGED <<durable, hintsGiven, celebrated>>

\* A persistence call raises (busy database, full disk, a snapshot deleted
\* before record_execution reads it back): the exception ends the call.  In
\* the boot loop it ends the process, which is Crash.
Fail(l) ==
    /\ l # "boot"
    /\ pc[l] # "idle"
    /\ faults < MaxFaults
    /\ faults' = faults + 1
    /\ Drop(l)
    /\ UNCHANGED <<durable, server, hintsGiven, celebrated>>

-----------------------------------------------------------------------------

\* The next step of a call that has started, given that nothing fails.
Proceed(l) ==
    \/ LoadLog(l) \/ AcknowledgeApplied(l) \/ ReadPending(l) \/ NothingPending(l)
    \/ FoldNext(l) \/ SaveLog(l) \/ AcknowledgeSaved(l)
    \/ Judge(l) \/ RecordExecution(l)

Start ==
    \/ \E p \in Problems : \/ \E l \in Handlers : StartSubmit(l, p)
                           \/ StartHint(p)
                           \/ StartGiveUp(p)
    \/ StartEnsureLog
    \/ Boot

Next ==
    \/ \E l \in Lanes : Proceed(l)
    \/ FinishHint
    \/ FinishGiveUp
    \/ FinishEnsureLog
    \/ Start
    \/ Crash
    \/ \E l \in Lanes : Fail(l)

Spec == Init /\ [][Next]_vars

\* A call that runs goes on: its thread is scheduled.  Nothing obliges the
\* learner to click, and nothing obliges a call to fail.
Fairness == \A l \in Lanes : WF_vars(Proceed(l))

FairSpec == Spec /\ Fairness

-----------------------------------------------------------------------------
(* Properties *)

\* Type invariant of the durable and the in-memory state.
TypeOK ==
    /\ log \in LearningLog
    /\ executions \in Seq(Execution)
    /\ pending \in SUBSET Nat
    /\ server \in {"down", "booting", "serving"}
    /\ pc \in [Lanes -> Steps]
    /\ job \in [Lanes -> Job]
    /\ copy \in [Lanes -> LearningLog]
    /\ todo \in [Lanes -> SUBSET Nat]
    /\ hintsGiven \in [Problems -> Nat]
    /\ celebrated \in [Problems -> Nat]
    /\ faults \in Nat

\* The aggregates of log g for p claim no more than the executions h up to
\* its last applied sequence, and the hints given, support.
Supported(h, given, g, p) ==
    /\ g.lastApplied <= Len(h)
    /\ g.progress[p].attempts <= Cardinality(ExecutionsOf(h, p, g.lastApplied))
    /\ g.progress[p].failed <= Cardinality(FailuresOf(h, p, g.lastApplied))
    /\ g.progress[p].solved => SolvedBy(h, p, g.lastApplied)
    /\ g.progress[p].hints <= given

\* At most once: whatever handlers overlap and wherever the process dies, the
\* log counts no execution twice, and holds no attempt, failure, solution or
\* hint that did not happen (reconcile's sequence check, submission_service.py).
NeverCountedTwice == \A p \in Problems : Supported(executions, hintsGiven[p], log, p)

\* The aggregates of g for p are those of exactly the executions h up to its
\* last applied sequence.
Exact(h, g, p) ==
    /\ g.progress[p].attempts = Cardinality(ExecutionsOf(h, p, g.lastApplied))
    /\ g.progress[p].failed = Cardinality(FailuresOf(h, p, g.lastApplied))
    /\ g.progress[p].solved <=> SolvedBy(h, p, g.lastApplied)
    /\ LastStatusOf(h, p, g.lastApplied, g.progress[p].lastStatus)

\* Exactly once: the aggregates are those of a prefix of the executions, and
\* the row of every later execution is still there to be applied.
CountedExactlyOnce ==
    /\ \A p \in Problems : Exact(executions, log, p)
    /\ \A s \in 1..Len(executions) : s > log.lastApplied => s \in pending

\* The tally that the ledger keeps, read off the log.
Tally == [p \in Problems |-> [attempts |-> log.progress[p].attempts,
                              failed |-> log.progress[p].failed,
                              solved |-> log.progress[p].solved]]

Ledger == INSTANCE ExecutionLedger WITH
              recorded <- executions, counted <- log.lastApplied, tally <- Tally

\* The learning log of a learner who waits for each answer is the ledger: a
\* save adds a run of new executions to the tally, or leaves it as it is.
ImplementsLedger == Ledger!Spec

\* When no call runs and no event row is left to apply, every recorded
\* execution has been counted.
ReflectedOnce ==
    ((\A l \in Lanes : pc[l] = "idle") /\ (\A s \in pending : s <= log.lastApplied)) =>
        \A p \in Problems :
            log.progress[p].attempts = Cardinality(ExecutionsOf(executions, p, Len(executions)))

\* newly_completed, which starts the personalised quiz of a problem, is
\* answered for the first accepted full submission only.
CelebratedOnce == \A p \in Problems : celebrated[p] <= 1

\* What a learner has achieved is never taken back by a later write, and is
\* announced as new only once.
AchievementsKept ==
    /\ []CelebratedOnce
    /\ [][/\ log'.lastApplied >= log.lastApplied
          /\ \A p \in Problems :
               /\ log.progress[p].solved => log'.progress[p].solved
               /\ log.progress[p].gaveUp => log'.progress[p].gaveUp
               /\ log'.progress[p].attempts >= log.progress[p].attempts
               /\ log'.progress[p].hints >= log.progress[p].hints]_log

\* A reconcile that starts counts every execution recorded by then, unless
\* a fault interrupts it: the row of a submission that died is not stuck.
ReconcileCatchesUp ==
    \A n \in 1..MaxExecutions, f \in 0..MaxFaults :
        (Len(executions) >= n /\ faults = f /\ \E l \in Lanes : pc[l] = "load")
            ~> (log.lastApplied >= n \/ faults > f)

=============================================================================
