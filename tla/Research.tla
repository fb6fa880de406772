------------------------------ MODULE Research ------------------------------
(***************************************************************************)
(* Grounded research: a learner's web search for a hint, and the operator's*)
(* live evaluation of the fixed cases.                                     *)
(*                                                                         *)
(* Both ask the same server, which charges for a search, and append what   *)
(* it answered to an SQLite table of their own that is pruned to a quota:  *)
(* research_history of the profile, written by the application, and        *)
(* research_evaluation_runs, written by the command line.  Opening a       *)
(* research_history that an earlier version wrote adds the column of the   *)
(* sizes first; the command line opens it too, for its report.  Each       *)
(* commit is a step, and either process may die between two of them.       *)
(*                                                                         *)
(* A definition marked Deviation is a mistake whose effect a run must      *)
(* notice.                                                                 *)
(***************************************************************************)
EXTENDS Naturals, Sequences, Functions

CONSTANTS
    Problems,
    NumCases,     \* fixed evaluation cases, in the order of the file
    Quota,        \* MAX_PROFILE_BYTES, MAX_EVALUATION_BYTES
    Batch,        \* rows that _prune deletes at a time
    OldSizes,     \* sizes of the rows that research_history may have at first
    MaxSize,      \* bound: size of an answer
    MaxSearches,  \* bound: requests to the server
    MaxMoves,     \* bound: actions of the learner and of the operator
    MaxFaults     \* bound: failed writes, crashes and restarts

Total(numbers) ==
    LET sum[i \in 0..Len(numbers)] == IF i = 0 THEN 0 ELSE sum[i - 1] + numbers[i]
    IN sum[Len(numbers)]

\* An answer is so much smaller than the quota that the rows of a batch do not
\* reach it.
ASSUME ResearchAssumption ==
    /\ {NumCases, Quota, Batch, MaxSize, MaxSearches, MaxMoves, MaxFaults} \subseteq Nat
    /\ Batch > 0
    /\ Batch * MaxSize < Quota
    /\ OldSizes \subseteq Seq(1..MaxSize)
    /\ \A sizes \in OldSizes : Total(sizes) <= Quota

VARIABLES
    table,     \* per table, its rows in the order of their ids
    schema,    \* of research_history: "legacy" has no payload_bytes
    page,      \* a browser tab: problem selector, research_consent,
               \* research_result, resets not yet handled
    proc,      \* the research in progress in the application, and the
               \* evaluation in progress on the command line
    report,    \* the searches behind the last report of the fixed runs
    asked,     \* history: the requests that the learner sent
    kept,      \* history: the consents that an error left on
    paid,      \* history: the searches of the evaluation, per case
    wasted,    \* history: those whose answer was lost
    pruned,    \* history: the searches whose rows were pruned
    reran,     \* history: the cases selected with --rerun
    overdue,   \* history: tables whose last pruning was not done, or was done
               \* while the other process had not counted the old rows yet
    botched,   \* history: the migration was cut short
    searches, moves, faults

learner == <<page, asked, kept>>
operator == <<report, paid, wasted, reran>>
stores == <<table, schema, pruned, overdue, botched>>
bounds == <<searches, moves, faults>>
vars == <<table, schema, page, proc, report, asked, kept, paid, wasted, pruned,
          reran, overdue, botched, searches, moves, faults>>

-----------------------------------------------------------------------------
(* The tables *)

Cases == 1..NumCases
StoreOf(a) == IF a = "app" THEN "history" ELSE "runs"

\* search identifies the answer (0 for rows of earlier days); counted is
\* whether payload_bytes is its size (otherwise it is 0).
Row == [search: Nat, of: Problems \cup Cases, size: 1..MaxSize, counted: BOOLEAN]

SizeOf(rows) == Total([i \in DOMAIN rows |-> rows[i].size])
Used(rows) == Total([i \in DOMAIN rows |-> IF rows[i].counted THEN rows[i].size ELSE 0])
SearchesIn(rows) == {r.search : r \in Range(rows)}

\* list_latest: the newest run of each case.
Latest(rows) ==
    {r \in Range(rows) : \A q \in Range(rows) : q.of = r.of => q.search <= r.search}

-----------------------------------------------------------------------------

NoConsent == [tick |-> 0, problem |-> "none"]
Idle == [at |-> "idle"]

\* clicked: the request with the inputs of the click; selected: the cases are
\* chosen; answered: an answer is in hand; looked, altered, opened: inside
\* _connect and after it; inserted: the row is committed.
AppCall ==
    {Idle} \cup
    [at: {"clicked", "answered", "looked", "altered", "opened", "inserted"},
     problem: Problems, consent: [tick: Nat, problem: Problems \cup {"none"}],
     early: BOOLEAN, left: BOOLEAN, search: Nat, size: 0..MaxSize]
CliCall ==
    {Idle} \cup
    [at: {"selected", "answered", "inserted", "reporting", "looked", "altered", "opened"},
     todo: Seq(Cases), search: Nat, size: 0..MaxSize]

OldRows(p, sizes, counted) ==
    [i \in DOMAIN sizes |-> [search |-> 0, of |-> p, size |-> sizes[i], counted |-> counted]]

Init ==
    /\ \E p \in Problems, sizes \in OldSizes, v \in {"legacy", "current"} :
        /\ table = [history |-> OldRows(p, sizes, v = "current"), runs |-> <<>>]
        /\ schema = v
        /\ page = [problem |-> p, consent |-> NoConsent, result |-> "none", resets |-> 0,
                   stale |-> FALSE]
    /\ proc = [app |-> Idle, cli |-> Idle]
    /\ report = {}
    /\ asked = {}
    /\ kept = {}
    /\ paid = {}
    /\ wasted = {}
    /\ pruned = {}
    /\ reran = {}
    /\ overdue = {}
    /\ botched = FALSE
    /\ searches = 0
    /\ moves = 0
    /\ faults = 0

Goto(a, r) == proc' = [proc EXCEPT ![a] = r]
Bounded(n, max) == n < max /\ n' = n + 1

-----------------------------------------------------------------------------
(* The learner *)

\* The event of the selector ends in a function that empties the section; left
\* marks a request that its learner does not wait for.
Select(p) ==
    /\ Bounded(moves, MaxMoves)
    /\ p # page.problem
    /\ page' = [page EXCEPT !.problem = p, !.resets = @ + 1]
    /\ IF proc.app = Idle THEN UNCHANGED proc
       ELSE Goto("app", [proc.app EXCEPT !.left = TRUE])
    /\ UNCHANGED <<stores, operator, asked, kept, searches, faults>>

Reset ==
    /\ page.resets > 0
    /\ page' = [page EXCEPT !.consent = NoConsent, !.result = "none",
                            !.resets = @ - 1, !.stale = FALSE]
    /\ UNCHANGED <<stores, operator, proc, asked, kept, bounds>>

ToggleConsent ==
    /\ Bounded(moves, MaxMoves)
    /\ page' = [page EXCEPT !.consent =
                IF @ = NoConsent THEN [tick |-> moves + 1, problem |-> page.problem]
                ELSE NoConsent]
    /\ UNCHANGED <<stores, operator, proc, asked, kept, searches, faults>>

\* trigger_mode="once" and concurrency_limit=1: one request at a time.
Click ==
    /\ Bounded(moves, MaxMoves)
    /\ proc.app = Idle
    /\ Goto("app", [at |-> "clicked", problem |-> page.problem, consent |-> page.consent,
                    early |-> page.resets > 0, left |-> FALSE, search |-> 0, size |-> 0])
    /\ UNCHANGED <<stores, operator, learner, searches, faults>>

\* Deviation: a request that failed leaves the consent on.
ShownKeeping(result) ==
    page' = [page EXCEPT !.result = result, !.stale = proc.app.left,
                         !.consent = IF result = "none" THEN @ ELSE NoConsent]

\* The outputs of request_grounded_research: the result or an empty text, and
\* the consent off.
Shown(result) ==
    page' = [page EXCEPT !.result = result, !.stale = proc.app.left, !.consent = NoConsent]

\* The service refuses a request without consent before it reads anything.
Withhold ==
    /\ proc.app.at = "clicked"
    /\ proc.app.consent = NoConsent
    /\ Shown("none")
    /\ Goto("app", Idle)
    /\ UNCHANGED <<stores, operator, asked, kept, bounds>>

\* research: the public request of the problem goes to the server, which
\* answers, or refuses, is not reached or answers too late: these are caught.
Ask ==
    LET r == proc.app IN
    /\ r.at = "clicked"
    /\ r.consent # NoConsent
    /\ Bounded(searches, MaxSearches)
    /\ asked' = asked \cup {[tick |-> r.consent.tick, mark |-> r.consent.problem,
                             problem |-> r.problem, early |-> r.early, search |-> searches + 1]}
    /\ \/ /\ \E size \in 1..MaxSize :
                Goto("app", [r EXCEPT !.at = "answered", !.search = searches + 1, !.size = size])
          /\ UNCHANGED page
       \/ /\ Shown("none")
          /\ Goto("app", Idle)
    /\ UNCHANGED <<stores, operator, kept, moves, faults>>

-----------------------------------------------------------------------------
(* The operator *)

\* The first n members of ids, in the order of the cases.
FirstOf(n, ids) ==
    LET first[c \in 0..NumCases] ==
            IF c = 0 THEN <<>>
            ELSE IF c \in ids /\ Len(first[c - 1]) < n THEN Append(first[c - 1], c)
            ELSE first[c - 1]
    IN first[NumCases]

\* Deviation: what was measured before is not looked at.
SelectedAnyway(n, ids, rerun) == FirstOf(n, ids)

\* run_live: the cases that are asked for and not measured yet, at most n.
Selected(n, ids, rerun) ==
    FirstOf(n, {c \in ids : rerun \/ c \notin {r.of : r \in Latest(table.runs)}})

\* algohint evaluate --run-live: if the server says that its budget is spent
\* nothing is started.  Without --run-live, or with nothing to do, only the
\* report is made.
Evaluate(n, ids, rerun) ==
    /\ Bounded(moves, MaxMoves)
    /\ proc.cli = Idle
    /\ LET todo == Selected(n, ids, rerun) IN
        /\ Goto("cli", [at |-> IF todo = <<>> THEN "reporting" ELSE "selected",
                        todo |-> todo, search |-> 0, size |-> 0])
        /\ reran' = IF rerun THEN reran \cup Range(todo) ELSE reran
    /\ UNCHANGED <<stores, learner, report, paid, wasted, searches, faults>>

\* One case is asked for.  An error ends the command; the server may have
\* searched all the same.
AskCase ==
    LET r == proc.cli
        n == searches + 1
    IN
    /\ r.at = "selected"
    /\ Bounded(searches, MaxSearches)
    /\ \/ /\ \E size \in 1..MaxSize :
                Goto("cli", [r EXCEPT !.at = "answered", !.search = n, !.size = size])
          /\ paid' = paid \cup {<<n, Head(r.todo)>>}
          /\ UNCHANGED wasted
       \/ /\ Goto("cli", Idle)
          /\ \/ UNCHANGED <<paid, wasted>>
             \/ /\ paid' = paid \cup {<<n, Head(r.todo)>>}
                /\ wasted' = wasted \cup {n}
    /\ UNCHANGED <<stores, learner, report, reran, moves, faults>>

\* evaluate: the latest run of each case, and the entries of a profile apart.
Report ==
    /\ proc.cli.at = "opened"
    /\ report' = {r.search : r \in Latest(table.runs)}
    /\ Goto("cli", Idle)
    /\ UNCHANGED <<stores, learner, paid, wasted, reran, bounds>>

-----------------------------------------------------------------------------
(* The repositories *)

\* An exception that nobody catches, or the death of the process: the consent
\* stays as it is, an answer in hand is lost.
Abort(a) ==
    LET r == proc[a] IN
    /\ Goto(a, Idle)
    /\ overdue' = IF r.at = "inserted" THEN overdue \cup {StoreOf(a)} ELSE overdue
    /\ botched' = (botched \/ r.at = "altered")
    /\ wasted' = IF a = "cli" /\ r.at = "answered" THEN wasted \cup {r.search} ELSE wasted
    /\ kept' = IF a = "app" THEN kept \cup {r.consent.tick} ELSE kept
    /\ UNCHANGED <<table, schema, pruned, report, asked, paid, reran, searches, moves>>

\* _connect to research_history, by save and by list.
Look(a) ==
    /\ proc[a].at = IF a = "app" THEN "answered" ELSE "reporting"
    /\ Goto(a, [proc[a] EXCEPT !.at = IF schema = "legacy" THEN "looked" ELSE "opened"])
    /\ UNCHANGED <<stores, learner, operator, bounds>>

\* ALTER TABLE commits by itself; it fails if the other process was faster.
Alter(a) ==
    /\ proc[a].at = "looked"
    /\ IF schema = "legacy"
       THEN /\ schema' = "current"
            /\ Goto(a, [proc[a] EXCEPT !.at = "altered"])
            /\ UNCHANGED <<table, pruned, overdue, botched, operator, kept>>
       ELSE Abort(a)
    /\ UNCHANGED <<page, asked, bounds>>

\* The UPDATE that counts the old rows, and commit.
Fill(a) ==
    /\ proc[a].at = "altered"
    /\ LET rows == [i \in DOMAIN table.history |->
                    [table.history[i] EXCEPT !.counted = TRUE]] IN
        /\ table' = [table EXCEPT !.history = rows]
        /\ overdue' = IF Used(rows) > Quota THEN overdue \cup {"history"} ELSE overdue
    /\ Goto(a, [proc[a] EXCEPT !.at = "opened"])
    /\ UNCHANGED <<schema, pruned, botched, learner, operator, bounds>>

\* Deviation: the position of the case is stored instead of its name.
InsertPosition(a) ==
    LET r == proc[a] IN
    /\ r.at = IF a = "app" THEN "opened" ELSE "answered"
    /\ table' = [table EXCEPT ![StoreOf(a)] = Append(@,
                 [search |-> r.search, size |-> r.size, counted |-> TRUE,
                  of |-> IF a = "app" THEN r.problem ELSE Head(r.todo) - 1])]
    /\ Goto(a, [r EXCEPT !.at = "inserted"])
    /\ UNCHANGED <<schema, pruned, overdue, botched, learner, operator, bounds>>

\* save: INSERT and commit.
Insert(a) ==
    LET r == proc[a] IN
    /\ r.at = IF a = "app" THEN "opened" ELSE "answered"
    /\ table' = [table EXCEPT ![StoreOf(a)] = Append(@,
                 [search |-> r.search, size |-> r.size, counted |-> TRUE,
                  of |-> IF a = "app" THEN r.problem ELSE Head(r.todo)])]
    /\ Goto(a, [r EXCEPT !.at = "inserted"])
    /\ UNCHANGED <<schema, pruned, overdue, botched, learner, operator, bounds>>

\* _prune: a round of its loop, committed.
Prune(a) ==
    LET rows == table[StoreOf(a)] IN
    /\ proc[a].at = "inserted"
    /\ Used(rows) > Quota
    /\ table' = [table EXCEPT ![StoreOf(a)] = SubSeq(rows, Batch + 1, Len(rows))]
    /\ pruned' = pruned \cup SearchesIn(SubSeq(rows, 1, Batch))
    /\ UNCHANGED <<schema, overdue, botched, learner, operator, proc, bounds>>

\* The row is read back, and what follows save: the result and the history are
\* shown, or the next case is asked for.
Saved(a) ==
    LET r == proc[a] IN
    /\ r.at = "inserted"
    /\ overdue' = overdue \ {StoreOf(a)}
    /\ IF a = "app"
       THEN Shown(r.problem) /\ Goto(a, Idle)
       ELSE /\ Goto(a, [r EXCEPT !.at = IF Len(r.todo) = 1 THEN "reporting" ELSE "selected",
                                 !.todo = Tail(@)])
            /\ UNCHANGED page
    /\ UNCHANGED <<table, schema, pruned, botched, asked, kept, operator, bounds>>

\* Deviation: the loop is a single round.
FinishAfterOne(a) == Saved(a)

\* _prune is over.
Finish(a) ==
    /\ Used(table[StoreOf(a)]) <= Quota
    /\ Saved(a)

Fail(a) ==
    /\ Bounded(faults, MaxFaults)
    /\ proc[a].at \in {"answered", "looked", "altered", "opened", "inserted"}
    /\ Abort(a)
    /\ UNCHANGED page

\* The application dies and the page is opened again.
Restart ==
    /\ Bounded(faults, MaxFaults)
    /\ proc.app # Idle
    /\ Abort("app")
    /\ page' = [page EXCEPT !.consent = NoConsent, !.result = "none", !.resets = 0,
                            !.stale = FALSE]

Store(a) == Look(a) \/ Alter(a) \/ Fill(a) \/ Insert(a) \/ Prune(a) \/ Finish(a) \/ Fail(a)

Next ==
    \/ \E p \in Problems : Select(p)
    \/ Reset
    \/ ToggleConsent
    \/ Click
    \/ Withhold
    \/ Ask
    \/ \E n \in 1..NumCases, ids \in SUBSET Cases, rerun \in BOOLEAN : Evaluate(n, ids, rerun)
    \/ AskCase
    \/ Report
    \/ \E a \in {"app", "cli"} : Store(a)
    \/ Restart

Spec == Init /\ [][Next]_vars

-----------------------------------------------------------------------------
(* Properties *)

TypeOK ==
    /\ table \in [history: Seq(Row), runs: Seq(Row)]
    /\ schema \in {"legacy", "current"}
    /\ page \in [problem: Problems, consent: [tick: Nat, problem: Problems \cup {"none"}],
                 result: Problems \cup {"none"}, resets: Nat, stale: BOOLEAN]
    /\ proc \in [app: AppCall, cli: CliCall]
    /\ asked \subseteq [tick: Nat, mark: Problems, problem: Problems, early: BOOLEAN,
                        search: Nat]
    /\ report \cup kept \cup wasted \cup pruned \subseteq Nat
    /\ paid \subseteq Nat \X Cases
    /\ reran \subseteq Cases
    /\ overdue \subseteq {"history", "runs"}
    /\ botched \in BOOLEAN
    /\ {searches, moves, faults} \subseteq Nat

\* A search has a consent of its own, given for its problem, and the result
\* that is shown is of the selected problem.  An error that nobody catches leaves
\* the consent on; a learner who clicks before the section was emptied takes the
\* consent of the last problem along, and one who goes on during a search is
\* shown its result.
ConsentIsSpentOnce ==
    /\ \A s, r \in asked :
        /\ s.tick = r.tick => s = r \/ s.tick \in kept
        /\ s.mark = s.problem \/ s.early
    /\ \/ page.result \in {"none", page.problem}
       \/ page.resets > 0 \/ page.stale

\* An answer that was paid for is a run, unless it is in hand, was lost by a
\* failure of that one case, or was pruned; a case that has a run is not paid
\* for again without --rerun; and the report has one run of a case, the latest.
PaidAnswersAreKept ==
    LET rows == Range(table.runs) IN
    /\ \A s \in paid :
        \/ \E r \in rows : r.search = s[1] /\ r.of = s[2]
        \/ s[1] \in wasted \cup pruned
        \/ proc.cli.at = "answered" /\ proc.cli.search = s[1]
    /\ \A r, q \in rows : r.of = q.of => r = q \/ r.of \in reran
    /\ \A s, r \in paid : {s[1], r[1]} \subseteq report /\ s[2] = r[2] => s = r

\* Between two saves a table holds no more than its quota, rows of an earlier
\* version included, and what is being saved is not deleted again.  A death
\* before the pruning, or a migration by the other process meanwhile, defers it
\* to the next save; a death inside the migration leaves the old rows uncounted
\* for ever.
QuotaIsKept ==
    \A a \in {"app", "cli"} :
        LET rows == table[StoreOf(a)] IN
        IF proc[a].at = "inserted" THEN proc[a].search \in SearchesIn(rows)
        ELSE \/ StoreOf(a) \in overdue
             \/ a = "app" /\ (botched \/ proc.cli.at = "altered")
             \/ SizeOf(rows) <= Quota
=============================================================================
