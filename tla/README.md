# AlgoHint: models, model checking and proofs

AlgoHint is a local web application for learning Python algorithms: a learner
picks a profile and a problem, edits code in the browser, runs it against sample
or hidden tests, asks a tutor for hints, and after completing a problem takes
quizzes and receives code reviews.  Everything it knows is kept in files under
`data/runtime`: JSON files replaced atomically, and one SQLite database per
profile and purpose.  The event functions of the Gradio interface run in threads
of one process.  This directory holds TLA+ models of the parts of that system
whose correctness depends on the order in which things happen, the TLC runs that
check them, and TLAPS proofs of all the safety properties that the passing runs check.

Paths below are relative to the repository (`src/` here is the checkout, so the
package is `src/src/algohint`).  `PROJECT.json` maps every definition to the
lines it models.

## 1. Inventory

| Part | State it keeps | Operations | What makes it correct |
|---|---|---|---|
| Submissions and progress (`application/submission_service.py`, `infrastructure/sqlite_code_history_repository.py`, `infrastructure/json_learning_log_repository.py`) | event rows `pending_progress_updates` in SQLite; per profile one JSON learning log with aggregates and `last_applied_submission_sequence` | `submit`, `record_execution`, `reconcile`, `acknowledge_progress`, the boot loop of `cli.main` | every judged execution is counted exactly once, across a crash between the two stores |
| Other writers of the log (`completion_service.py`, `tutor_service.py`, `profile_service.py`) | none of their own | `give_up`, `request_hint`, `_ensure_log` | an achievement, once saved, is not taken back |
| Drafts and snapshots (`code_workspace_service.py`, the same SQLite file, `ui/gradio_workspace.py`) | per problem one source with a revision; executed snapshots; per browser tab `draft_revision`, `editor_problem_id` and the code box | `load_draft`, `save_draft`, apply and delete a snapshot, navigation, reload | no tab overwrites what another tab wrote and it has not shown; no text goes to the wrong problem |
| Review history (`completion_review_service.py`, `sqlite_review_history_repository.py`) | records with a date and a size, a cached sum, durable unlocks | four kinds of save, pruning to a quota, gates | the sum is exact, the oldest go first, an unlock is never lost, answers to a replaced quiz are refused |
| Tutor sessions (`tutor_service.py`, `json_tutor_session_repository.py`, `request_tutor_hint`) | per problem the last 40 messages; per browser tab the chat and the question box | ask for a hint (three buttons, one place in the queue), append under a lock, count, clear | turns are whole and in order, a stored hint is counted, a question is not lost, a page that waited is right |
| Profiles (`profile_service.py`, `json_profile_repository.py`) | `profiles.json`: a list of profiles with their preferences (provider, quiz mode, last problem) | create, set a preference, the development profile | no profile is lost or doubled |
| Exercise selection (`exercise_selection_service.py`, `problem_service.py`) | `last_problem_id` in the preferences | restore, select | the restored problem exists |
| Research (`research_service.py`, `research_evaluation_service.py`, two SQLite repositories) | research results with a quota; recorded evaluation runs; on the page the consent and the result | research with consent, migrate, save, prune, resumable evaluation | a consent pays for one search; a recorded case is not paid twice; bounded size |
| Judge (`local_judge_runner.py`, `subprocess_executor.py`, `learner_diagnostic_policy.py`) | per submission the case in hand and how many passed | compile, run, compare, diagnose | first failure decides; hidden tests are not shown |
| Providers (`*_hint_provider.py`, `hint_provider_factory.py`, `gemma_endpoint.py`) and the doctor of `cli.py` | a client per call; the preference, the selector and the consent of a tab | generate hints, reviews, quizzes; classify a failure; diagnose | nothing leaves the device without consent; unsafe or failed answers fall back; the doctor and the application agree |
| Completion tab (`ui/gradio_workspace.py`) | the result, the quizzes, the explanation and the review of one problem; `accepted_source` and `personalized_quiz_trigger` in the session | the functions that follow a submission, a give-up and a selection; generate, grade, explain, review | the tab comes to rest and is that of the selected problem; a first acceptance gets its AI quiz |
| Launchers (`scripts/run-*.sh`, `scripts/lib/*.sh`) | processes, a claimed remote server | start, wait, monitor, clean up | what was started is stopped, what was not is left alone |
| Report, command line, configuration, catalogue | none, or read-only | format, parse, load | |

How they interact.  `submit` calls the judge and then writes two stores one
after the other; `reconcile` carries rows from SQLite to JSON and is also called
at the start of `submit` and by the boot loop.  `request_hint`, `give_up` and
`_ensure_log` share the JSON log with it, without a lock across load and save.
`view` in the review service reads the log, so that completion in one store gates
writes in another.  The web interface holds the revision of a draft in a
per-session state which is read when a call starts to run and written when it ends.

What is hard.  Gradio's queue runs one call at a time of each event function
(`default_concurrency_limit=1`, see `app.queue()` in `gradio_workspace.py:2773`)
but different functions concurrently, and `submit` (sample run), `submit_full`
and `request_tutor_hint` are different functions.  The process can die between
any two file operations.  Values that come from the browser are those of the
click, values that come from the session those of the start of the call.  Dates
are taken before the transaction that stores them.  The list of hazards, each at
its line with the properties that cover it, is in `PROJECT.json`.

## 2. Modules

### ExecutionHistory, ExecutionLedger, ProgressPipeline

`ExecutionHistory` defines what a sequence of executions says about a problem
(attempts, failures, solved, last status); it is the reference against which the
log is compared.  `ExecutionLedger` is the abstract specification: executions
are recorded, and now and then the tally moves forward to a longer prefix of
them.  `ProgressPipeline` is the code: the log, the event rows, and for every
lane (one event function, or the boot loop) the position of its call, the log
object it holds and the rows it has read.

| Code | Action |
|---|---|
| `reconcile`: `load_log`; first `acknowledge_progress`; `pending_progress`; early return; loop; `save_log`; second `acknowledge_progress` | `LoadLog`, `AcknowledgeApplied`, `ReadPending`, `NothingPending`, `FoldNext`, `SaveLog`, `AcknowledgeSaved` |
| `submit` before, between and after its two calls of `reconcile` | `StartSubmit`, `Judge`, `RecordExecution`, `ReconcileReturns` |
| `request_hint` before and after the provider | `StartHint`, `FinishHint` |
| `give_up`, `_ensure_log`: load, save | `StartGiveUp`, `FinishGiveUp`, `StartEnsureLog`, `FinishEnsureLog` |
| `cli.main` | `Boot` |
| the process dies; an exception ends a call | `Crash`, `Fail` |

One file operation or one SQLite transaction is one step.  `write_json_atomic`
(`atomic_json.py`) replaces the file by a rename, so a crash leaves the old or
the new content.  The verdict of the judge is chosen freely.  Snapshots, which
`record_execution` writes in the same transaction, belong to `CodeWorkspace`;
that it may fail to read its snapshot back after the commit is `Fail` at the step
that follows `RecordExecution`.  `submit` without a history repository (the
`_history is None` branches) is used by tests only and is left out.

`Overlap` chooses between a learner who waits for each answer (FALSE) and the
concurrency that the queue allows (TRUE).

### CodeWorkspace

The drafts table is modelled as, per problem, the sequence of accepted writes:
the last one is the row, the length is the revision.  A tab has a session
(`editor_problem_id`, `draft_revision`), a selector, a code box, and up to one
call of each of three functions: autosave, apply a snapshot, load.  A call is
queued at the click with the text of the box, runs (`Run` reads the session),
answers (`Replace`, `Keep`, `Refuse` are the branches of `save_draft`; `Load` is
`load_draft`), settles (`Settle` writes the session) and arrives in the box
(`Arrive`).  `Reload` and `Restart` show the draft that `build_app` read when the
process started.  `Patient` restricts the learner to tabs with no call in
progress.  The ghost parts (`from` of a call, `tab` of a write, `harm`)
record what a text stems from, so that "overwrites what it has not shown" can be
said.

### ReviewHistory

`history_records` is a set of records with id, date, size and kind; `used` is the
cached sum of `history_meta`; `unlocks` is `review_unlocks`.  A call checks its
`Gate` (`Begin`), works, is dated (`Stamp`) and saves (`Save`: one `BEGIN
IMMEDIATE` transaction that inserts, unlocks, counts and prunes; `TooLarge`: the
refusal before it).  `Pruned` says in one set expression which rows the loop of
`_prune` deletes.  `Initialize` is the first connection of a process, with the
migration that unlocks what earlier versions recorded.  The learning log is
represented by `progress`, which other calls complete at any time; that a
completion can be taken back (section 4) is outside this module.

### ProfileStore

`profiles.json` is the sequence `file`.  Each lane is one event function, and
`call[l].at` the file operation that comes next: `lookup` (the repository's
`create_profile`), `default` (`default_profile`), `restore`
(`ExerciseSelectionService.restore`), `fetch` (the `get_profile` of a setter),
`list` and `write` (the two halves of `save_profile`).  `Fail` is the `OSError`
that `_persist` survives and the others do not.  `Boot` chooses the mode of the
process and the catalogue, which may have lost the problem of a stored pointer.
`overtaken` records of a call that another write has changed what it had read,
and `lossy` that such a call has written.  The properties are stated with
them: with `lossy` in the premise they say what overlapping costs, and that
nothing else costs anything.

### TutorSession, Conversation

`Conversation` is the abstract specification: per problem whole turns, in the
order in which they were answered, the last twenty of them since the last
clearing.  `TutorSession` is the code, from the click to the chat.

| Code | Action |
|---|---|
| a click on one of the hint buttons | `Click`; the text of the box goes with it |
| `request_tutor_hint` up to its first `yield`: refusals, or the question is shown | `Refuse`, inside `Validate` |
| the validation of `TutorService.request_hint` in the worker | `RefuseLater`, `LoadRequest` |
| `append` (locked: read again, add a pair, truncate, write) | `StoreTurn` |
| `save_log` with the count | `CountHint`; failing: `FailToStore` |
| the `yield` of every second, the last `yield` | `Tick`, `ShowAnswer` |
| `selected_problem`, `clear_tutor_history` | `SelectedProblem`, `ClearTutorHistory` |
| the process dies and the pages are loaded again | `Restart` |

A turn is a number; the box holds 0 or the turn its text would become.  `owed`
and `hurried` remember which question its learner may rely on and in which tab
the learner went on before an answer was there.  A write that fails
(`FailToStore`) ends both claims, since the code then neither gives the question
back nor loads the conversation again, although `docs/architecture.md` says so of every
failure (section 4).  The log is here only its `hint_count`: that other writers share
it is in `ProgressPipeline`.

### ProviderCall

One call of a model: `Click` takes the provider of the preference and the
checkbox of the tab, `Check` is `validate_request` and the availability of the
adapter, `Send` and `Collect` are the request and the response inside the client
(`ClientOutlivesResponse` is about their order), `Finish` the safety policy, the
fallback, or the refusal.  `service` is what the outside is like; `Answers` says
what a service in such a state may answer and `ReasonOf` is each adapter's
classification of it, in which an exception of the client library counts as the
failure that its adapter classifies it as (a token error of Gemini's library as a
403, an operation that timed out as a timeout).  A provider that is not available is
not called; `WhyNotCalled` is the reason that is recorded, which a hint names
otherwise than a review or a quiz does.  `Doctor` is another process that asks the
same service.  `crossed` marks the tabs whose checkbox another tab's change of the
model has left behind, and `risky` the calls that were clicked in such a tab or
while the tab's own change was not handled: `ConsentIsForSelectedModel` excuses
them (section 4).
`installed` is the environment, fixed when the process starts.

### Research

`table` holds the rows of both databases in the order of their ids.  The
application and the command line are two processes with one research each:
`Ask` and `AskCase` are the paid requests, then `Look`, `Alter`, `Fill` (the
migration of `research_history`, two statements with a commit of their own),
`Insert` and `Prune` (the insert is committed before the pruning begins), and
`Finish`.  `Fail` and `Restart` may come between any two.  `Evaluate` selects the
cases that have no run yet (`Selected`), or those named with `--rerun`; `Report`
takes the latest run of each case.  `Total` (the sums of sizes) and `FirstOf` (the
selection) are recursive functions, which TLAPS can reason about.  The page has
the consent, the result and the resets that a selection has queued.

### CompletionPanel

A click captures the components of the page, a session value is read when a
function starts, the outputs are written when it is over, and what follows it
(`.then`) is sent with the page as it is by then.  Each function is a FIFO queue
of one place.  `SubmitFull`, `GiveUp`, `Selected` send on to `LoadCompletion`,
`LoadQuiz`, `StartGenerate` and `Reset`; `StartGenerate` decides whether a quiz
is made, `Tick` is the `yield` of every second, `FinishGenerate` shows the quiz.
`pace` classifies how the learner went on: `patient` waits, or only answers and
reads while a quiz is generated; `busy` goes on meanwhile with something else;
`rash` goes on while other calls are under way.  `QuizIsOfItsCode` and
`FirstAcceptanceIsFollowedUp` speak of the first, `PanelIsOfSelected` in part of
the first two.

`SubmitFails` is a `submit_full` that raises (an unreadable log, a busy database):
the trigger and the accepted source stay as they are, what follows with `.then` runs
all the same, and the call may have got as far as the row in SQLite (`unfolded`) or as
the log.  The next submission reflects such a row before it looks whether the
problem was solved, so the acceptance counts and no AI quiz is ever generated for it
of its own accord: `first` holds the acceptances that `submit_full` reported, and
`FirstAcceptanceIsFollowedUp` is about those.  A sample run or a restart would reflect
the row too; neither is an event of this module.

### JudgeRun

A submission is a program, chosen at the start: the size of its source, what it
compiles to, and what it does with each case.  `Receive` is `validate_source`, which
refuses a source above 1 MiB.  `Compile` and `Run` are the two halves of
`SubprocessExecutor.run`, for one case after the other; the first refuses a source
above 65,536 bytes.  `Accept` is the end of the loop of `LocalJudgeRunner.judge`;
`Submit` makes the view (`LearnerDiagnosticPolicy`) and stores it.  `MachineFails` is
an `OSError` (status IE) or an error that nobody catches.  The comparison is
`OutputsMatch` over the ways in which two outputs may differ.

Of stderr the model keeps what the diagnostic makes of it (`Stderr`): nothing, a
traceback into the submission that ends with the exception, such a traceback with a
further line of the program's own that begins like a name, or only such a line.
`Summary` is `_exception_summary` (the name of the exception, a word of the program's
text, or the fallback), `Located` is `_source_line`, and the `excerpt` among the
parts in `Shown` is `_safe_excerpt`.  `py_compile` reports an `IndentationError` in one
line that begins with "Sorry:", so that the summary of such a source is that word and
it has no line (`misindented`).

## 3. Runs

| Run | Question and bounds |
|---|---|
| `pipeline_serial` | Two problems, every handler, one call at a time, two executions, one hint per problem, two crashes or failures, with fairness. Exactly-once, achievements and their one celebration, refinement of the ledger, a reconcile that starts catches up unless a fault stops it, and at most once, whatever rows a crash left behind. |
| `workspace_patient` | Two tabs, two problems, two accepted writes, one fault. No misplaced and no overwriting write, and a quiet tab's session agrees with its page. |
| `review_quota` | Four functions, two problems, quota 5, records of size 2 and 6, three dates, one crash. Exact usage and pruning, unlocks, replaced quizzes. |
| `profiles` | Five functions overlapping freely, two names, two providers, two modes, two problems of which one is of level 0, three clicks, one crash or failed write. |
| `tutor` | One tab with two buttons, two problems, a conversation of two turns, three questions, a selection or clearing, a fault, with fairness. Whole turns, counts, the page, refinement of `Conversation`, every request ends. |
| `providers` | Two tabs, three providers, a hint and a quiz of which one is asked for, four installations, three events (a change of the provider or the consent, of a service, or a doctor); 2.9 million states, about two minutes. |
| `research` | Two problems, two cases, three searches, a quota of 3 with answers of size 1 or 2, an old table that is empty or full, three moves, one fault. |
| `completion` | Two problems, three actions of the learner, every function of the tab, submissions that fail, with fairness. The tab comes to rest as that of the selected problem, a quiz is of its code, a first acceptance is followed up. |
| `judge` | Three cases of which any number are samples, both modes, every program, one failure of the machine. |
| `pipeline_lost_event`, `completion_skipped`, `judge_large_source` | Expected violations, section 4. |

Why the bounds are enough.  Two executions suffice for one call to have read its
log before, and saved it after, another call's save; two faults allow a crash
during the recovery from a crash, which leaves a row older than the one that is
recorded next.  Two tabs and two accepted writes let each tab's write be the
stale one; two problems are needed for a misplaced write.  With quota 5 the third
record of size 2 prunes one and keeps two, and size 6 does not fit.  Three clicks
are a creation and two changes that overtake each other, on a profile that exists
from the start of the process in development mode.  Three questions overflow a
conversation of two turns, or let a clearing come between two.  Two buttons of
one tab already compete for the place in the queue; two tabs with one problem, two
questions and a fault (11,356 states), where four buttons compete, pass as well.
In `providers` one call suffices since nothing but the preference and the consent
is carried from one to the next; three events select Gemini or the model server,
give the consent and run the doctor, or change the service between the doctor and
the call.  Three searches overrun the quota, and let an evaluation of two cases be
resumed after it lost one.  Three actions are
two problems and what is done with one of them while the other is under way.
Three cases give a sample before, at and after the first failure.

`NeverCountedTwice` is checked in `pipeline_serial`, where rows that a crash left
behind are the danger and `CountedExactlyOnce` implies it.  With `Overlap = TRUE`, one problem, one fault, and a sample
run, a full submission and a hint at the same time it passes too (534,331 states);
no run repeats that, since `AtMostOnce` proves it for every `Overlap`.

Symmetry is used over tabs (`workspace_patient`, `providers`) and over problems
(`review_quota`, `research`), whose properties are invariants or, in
`review_quota`, an action property that does not name a problem.

`CHECK_DEADLOCK FALSE` is in every configuration: each model stops when its
bounds are used up, and the program waits for ever if the learner does nothing.

Fairness.  `pipeline_serial`: weak fairness of `Proceed(l)`, the next step of a
call that has started, per lane; a call is a thread that runs straight through
`submit`, and nothing it waits for depends on another lane.  `tutor`: weak
fairness of the two functions that have a place of their own, and strong
fairness of `Proceed` per request, because the requests share one place: Gradio
serves a queue in order, so that a waiting request comes to its turn, and a
request ends because every provider has a timeout and the fallback computes.
`completion`: weak fairness of every event function.  No fairness is assumed of
clicks, of the boot, of the judge's verdict, of the yields in between, or of faults.

Every property has a mutant: a definition marked "Deviation" in its module, put
in place of the mapped definition, that makes TLC report the property violated.

## 4. What the code does not keep

Three runs show statements of the repository that the code does not keep; the
exact quotations are under `findings` in `PROJECT.json`.

* `pipeline_lost_event`.  A sample run and a full submission overlap.  Both load
  the log; one saves and deletes its row; the other saves its older copy.  The
  row is gone and the aggregates never contain it.  (`docs/architecture.md:112`
  says rows are reflected exactly once.)
* `completion_skipped`.  A problem is accepted while the AI quiz of the last one
  is generated.  The running generation writes FALSE to the trigger every second,
  so the second problem gets no quiz.  (`docs/acceptance-test.md:69`.)
* `judge_large_source`.  A sound source between 65,536 bytes and 1 MiB gets CE.
  (`docs/acceptance-test.md:49` says that up to 1 MiB is judged.)  The message that
  would say why is dropped by `_safe_excerpt`, so the learner sees the verdict only.

The following also came up while modelling.  The models contain them: the
properties exclude them by their premises, or say what remains true.

* Progress: a hint that loads the log before an accepted submission and saves it
  afterwards takes the completion back, and the next acceptance is "newly
  completed" again (`gradio_workspace.py:1277`: "only for the first").
* Drafts: a single tab that saves and is reloaded is told that another tab
  updated its draft.  A save waits for another tab's while its learner selects
  another problem and comes back: it runs with its old text and the revision that
  the load has put into the session, and replaces the other tab's draft
  (`save_draft_ui`: "without allowing an older browser tab to overwrite a draft").
  The run's model with `Patient = FALSE` and no fault has a trace of 18 states.
* Reviews: of two overlapping saves the one dated first and stored last is the
  oldest row, and its own transaction prunes it.  `PruningIsExact` says which rows
  go, and that is one of them.
* Profiles: a profile is created while another call, which has read the list
  before, changes a preference; its write removes the new profile
  (`json_profile_repository.py:49`: "preserving all unrelated local identities").
* Tutor: when the conversation or the count cannot be written, the exception leaves
  `request_tutor_hint` and the question stays pending in the chat, and out of the
  box, until the problem is selected again (`docs/architecture.md:90`: the stored
  history is loaded again and the question goes back).  A yield of a running
  request overwrites the chat of the problem selected meanwhile, and what was
  typed into the box meanwhile.
* Research: an error that nobody catches leaves the consent on
  (`docs/research-and-evaluation.md:38`).  A process that dies between the two
  statements of the migration leaves the old rows uncounted for ever.
* Completion: the AI quiz that is generated while the fixed quiz is graded is
  stored and not shown.  A selection does not empty the result of the AI quiz, and
  a grading that lacks an answer closes buttons that were open.  A submission
  that is judged after another problem was selected writes its result on that
  problem's page (`gradio_workspace.py:2298`).  An acceptance whose submission
  failed after its row was committed is counted later and gets no AI quiz.
* Consent: the model is changed in one tab; the checkbox of another tab of the
  profile stays ticked, for the old model (`docs/security-and-operation.md:48`,
  `docs/acceptance-test.md:21`).
* Judge: a program fails on a hidden case, and the last line of stderr that begins
  like a name is one of its own (the suffix in `_exception_line` is optional): the
  summary is a word of that line, not the type of an exception
  (`docs/architecture.md:184-185`).  `LearnerSeesTheFirstFailure` says exactly when.
  An `IndentationError` is shown with the summary "Sorry" and no line.

What does hold with overlap (`NeverCountedTwice`, that no identity is stored twice,
`PruningIsExact`, `ConsentIsSpentOnce`, `NearerToRest`, ...) is proved with
overlap; what needs a learner who waits is proved for such a learner (section 5).

## 5. Proofs

| Module | Theorem | Statement |
|---|---|---|
| `ProgressPipeline_proofs` | `TypeCorrect` | `Spec => []TypeOK` |
| | `AtMostOnce` | `Spec => []NeverCountedTwice` |
| | `ExactlyOnce` | `~Overlap` implies `Spec => []CountedExactlyOnce` |
| | `AchievementsSurvive` | `~Overlap` implies `Spec => AchievementsKept` |
| | `LedgerImplemented` | `~Overlap` implies `Spec => ImplementsLedger` |
| `CodeWorkspace_proofs` | `TypeCorrect` | `Spec => []TypeOK` |
| | `PatientlyPlaced` | `Patient` implies `Spec => []NeverMisplaced` |
| | `NothingIsOverwritten` | `Patient` implies `Spec => []NeverOverwritten` |
| | `QuietTabsAgree` | `Patient` implies `Spec => []QuietTabKnowsItsDraft` |
| `ReviewHistory_proofs` | `TypeCorrect` | `Spec => []TypeOK` |
| | `QuotaIsPaidByTheOldest` | `Spec => PruningIsExact` |
| | `UnlocksSurvivePruning` | `Spec => []UnlockFollowsQuiz` |
| | `ReplacedQuizRefused` | `Spec => []StaleQuizIsRefused` |
| `ProfileStore_proofs` | `TypeCorrect` | `Spec => []TypeOK` |
| | `IdentitiesUnique` | `Spec => []IdsUnique` |
| | `ProfilesSurvive`, `NamesStayDistinct` | `Spec => []ProfilesKept`, `Spec => []NamesDistinct` |
| | `FirstPageIsReal` | `Spec => []FirstPageExists` |
| | `OthersAreLeftAlone` | `Spec => UnrelatedKept` |
| `TutorSession_proofs` | `TypeCorrect` | `Spec => []TypeOK` |
| | `HintsAreCounted` | `Spec => []CountedUnlessFailed` |
| | `PatientPagesAreTrue` | `Spec => []PatientPageIsTrue` |
| | `QuestionsAreKept` | `Spec => []QuestionNotLost` |
| | `ConversationImplemented` | `Spec => ImplementsConversation` |
| `ProviderCall_proofs` | `TypeCorrect` | `Spec => []TypeOK` |
| | `ConsentIsAsked` | `Spec => []NothingLeavesWithoutConsent` |
| | `ConsentIsSpecific` | `Spec => []ConsentIsForSelectedModel` |
| | `ClientsOutlive` | `Spec => []ClientOutlivesResponse` |
| | `SafeTextOnly` | `Spec => []OnlySafeTextIsKept` |
| | `DoctorAndUIAgree` | `Spec => []DoctorAgrees` |
| `Research_proofs` | `TypeCorrect` | `Spec => []TypeOK` |
| | `ConsentBuysOneSearch` | `Spec => []ConsentIsSpentOnce` |
| | `PaidAnswersStay` | `Spec => []PaidAnswersAreKept` |
| | `QuotaStaysKept` | `Spec => []QuotaIsKept` |
| `Submission_proofs` | `FirstFailureDecides` | `JudgeSpec => []LearnerSeesTheFirstFailure` |
| | `PanelTypeCorrect` | `Spec => []TypeOK` (of `CompletionPanel`) |
| | `PanelFollowsSelection` | `Spec => []PanelIsOfSelected` |
| | `QuizHasItsCode` | `Spec => []QuizIsOfItsCode` |
| | `NoSecondFollowUp` | `Spec => []OnlyFirstIsFollowedUp` |
| | `TabComesToRest` | `Spec => [](Work \in Nat /\ (Work = 0 => Quiet)) /\ NearerToRest` |

They hold for all problems, tabs, verdicts, handlers, bounds, sizes, quotas and
numbers of cases that the named assumptions of the modules
(`ConstantsAssumption`, `WorkspaceAssumption`, `ReviewAssumption`,
`ProfileAssumption`, `TutorAssumption`, `ProviderAssumption`,
`ResearchAssumption`, `PanelAssumption`, `JudgeAssumption`) allow.  Six theorems
have a hypothesis besides: `~Overlap` and `Patient` are the values that the runs
`pipeline_serial` and `workspace_patient` give to these constants, and section 4
and the run `pipeline_lost_event` show what happens otherwise.  `NamesDistinct`
is proved and no run's property; `OnlyFirstIsFollowedUp` is the safety half of
`FirstAcceptanceIsFollowedUp`, whose other half is liveness.
`Submission_proofs` extends two modules, those of a submission's verdict and of
the tab that follows it; the specification of `JudgeRun` is called `JudgeSpec`.

Each theorem rests on an inductive invariant that is stronger than what it
states; the proof modules have one lemma per action or group of actions that
the invariant can be disturbed by, and one that says that the other steps leave
it alone.

### Submissions and progress

`AtMostOnce`.  `NeverCountedTwice` speaks of the log on disk only; a step that
saves puts the copy of a call there.  The invariant therefore says the same of
every copy in memory, and, for a call that folds, that the rows it still has to
fold are beyond the sequence its copy has reached and are executions that exist.
The lemmas about `ExecutionHistory` say what happens to the counts when an
execution is appended (prefixes do not change) and when the prefix grows (by at
most the one execution folded).  That rows are folded in the order of their
sequences is essential: in another order a copy ends with the sequence of a row
that is not the last of those it has counted.

`ExactlyOnce`, `AchievementsSurvive`, `LedgerImplemented` share `SerialInv`: at
most one call is in progress, so that the copy of a call equals the log until it
folds; while it folds, the copy is exact for the sequence it has reached, takes
nothing back, and the rows that are left are those of all later executions; and a
submission whose answer will celebrate is the first that solves its problem.
For the refinement every step either appends to the history, or moves the tally
to a longer prefix of it (`SaveLog`), or leaves both as they are; `Exact` of the
copy at the moment of the save is what makes the tally that of the prefix.

### Drafts

`PatientInv`: in a tab with no call in progress session, box and draft agree on
problem and revision; in one with a call (there is one at most) the position of
the call says which two of the three agree, and no revision that a session, a box
or a call knows of is beyond the one that the store has reached.  Then the
revision in the guard of `Replace` can only be that of the draft that the tab
shows.

### Review history

`QuotaIsPaidByTheOldest`.  `Bytes` is a fold over a set of records.  That the sum
of a set with one element more is larger by that element, and does not depend on
the order, is proved by a minimal counterexample among the subsets of a finite
set (`SmallestSet`), since induction over sets cannot be used here.  The
invariant says that the rows are finitely many, have ids of their own below the
next one, that the counter is their sum, and that the quota bounds it; what
`Save` keeps is then the longest run of the newest rows that fits.

`UnlocksSurvivePruning`.  Between a crash and the first connection the unlocks of
an earlier version's records are still missing, so the invariant is: unlocks are
contained in the problems ever attempted, and each attempted problem is unlocked
or its attempt is still recorded.  Pruning is only possible once initialised,
when nothing depends on the records any more.

`ReplacedQuizRefused`.  A call that grades a quiz holds the set that was latest
when it began; the invariant says that every set record of the problem inserted
before that moment is not later than it.  The steps that matter are `Begin`
(where the gate compares with the latest set) and `Save` (whose new set gets an
id that is not smaller than the one noted at the beginning).

### Profiles

`IdentitiesUnique`, `ProfilesSurvive`, `NamesStayDistinct` share one invariant.
For every call: the list that it is about to write has unique ids, and is the
file itself if no one has overtaken the call; while nothing was lost, the name of
a new profile is still free, and an altered profile is still in the file under its
name.  Every step but one reads the file as it is (`QuietStep`), so it establishes
these facts for the one lane it moves and leaves the others alone.  In the step
that writes, every other call either is overtaken or has read a profile that the
write does not change.  That only `create` makes normal profiles, and the queue
runs one call of it at a time, is what keeps a name free.

`OthersAreLeftAlone` needs of a call also that the row it will write is the one it
has read with one preference altered, or is new; `FirstPageIsReal`, that the call of
the boot repairs a stored pointer only with a problem of the catalogue.

### Tutor sessions

`HintsAreCounted`.  A request counts from a log that it read before the hint was
generated; `CallsOK` says that the number it read is still the one on disk,
because the queue runs one request at a time (`OneRuns`) and nobody else counts a
hint.  Then the stored and the counted hints differ by what failed, and by one
while a request is between its two writes.

`PatientPagesAreTrue` and `QuestionsAreKept` share `PagesOK`: in the tab of a
learner who waited, at most one thing is in progress and it is about the selected
problem; a question that is owed is in the box while nothing is in progress, or
is the text that came with the one request that is.

`ConversationImplemented`.  `FilesWhole` says that every file consists of pairs,
a question followed by its answer, at most as many as are kept.  The turns that
the refinement reads off such a file are those of its pairs; `append` adds a
pair at the end and drops whole pairs at the front.

### Providers

All but `DoctorAndUIAgree` follow from `CallInv`, which says of a call at each
position which provider it was checked for, that the check still permits it
with the mark of the click, whether it has a client, and of what answer its
reason was made; and of a tab that nobody disturbed, that it shows the
preference.  `installed` is fixed, so what was checked stays true.

`DoctorAndUIAgree` relates a diagnosis and a call that met the same state of a
service, which may have changed since.  The invariant `PastInv` says that there is
a history of the service's states that agrees with everything that was observed;
a step that changes a service extends it.  The rest is a comparison of the two
classifications, of each adapter and of the doctor, state by state.

### Research

`ConsentBuysOneSearch`.  Every consent has a number of its own.  `TicketInv` says
that the one on the page, and the one of a request that has not been sent, is not
spent, unless an error left it on or its own request is under way; `ProblemInv`,
that consent, request and result are of one problem until the selector moves.

`PaidAnswersStay`.  `RunsInv`: a run is stored as the case it was paid for, and a
number of a search is used once.  `TodoInv`: the cases still to be asked for are
distinct and have no run, unless they are measured again; that the selection
establishes it needs that every measured case is among the latest runs
(`LatestCovers`), whose proof picks the run with the highest number.

`QuotaStaysKept`.  `CountInv` says when the sizes of the old rows are known: before
the migration they are not, but the rows fit; afterwards they are, unless a
migration is under way or was cut short.  What `_prune` sums is then the size
of the table.  `LastInv`: the row that is being saved is the last; a round deletes
`Batch` rows at the front, and since the batch is smaller than the quota and the
sum is larger, it does not reach the last one (`MoreThanABatch`, with `TotalBound`:
a sum is at most the number of terms times their bound).  That the recursive
functions `Total` and `FirstOf` exist, and what they compute as far as it is
needed, is proved by a smallest counterexample (`SmallestNumber`, `Recursion`).

### Judge

`FirstFailureDecides`.  The property speaks of a submission that has been shown.
The invariant says before that: while a case is in hand, as many passed as come
before it, and no failing case comes before it; once accepted, none fails; once
judged, the result names the least failing case with the status it deserves, or
a failure of the machine.  A large source stops the invariant before the first case,
and a huge one before the judge.  `FirstFailure` turns the first into the third, and the
step of `Run` that passes a case moves the bound up by one because that case is
not a failing one.  That nothing else of a hidden case is shown, and that a traceback's
exception is, are read off `View` from the status and the kind of stderr in the
result, which is the one of the failing case.

### Completion tab

The five theorems about `CompletionPanel` share `PanelInv`.  What makes the tab
right in the end is not a fact about the page but about the queues: `Newest` is
the last call that waits for a function, and

* `PanelFollows`: a selection, a submission or a give-up is pending (each of them
  sends a load after it), or the newest load is of the selected problem, or none
  waits and the fixed quiz is that of the selected problem.  `SetFollows` says the
  same of the AI quiz, with the selection and the reset before it, and needs
  `SetsOfProblem`: a set keeps its problem, and the newest set of a problem is its
  own, however many are made.  Both hold for every learner;
* `Unhurried`, unless the learner was `rash`: what is not loaded again by a later
  call (the result, the explanation, the review, the open buttons) is right
  because no call but the generation was sent for another problem (`OwnCalls`);
* `Patient`, for a learner who was: between a selection and the reset that it
  sends no submission or generation is waiting, and none is asked for by a load
  (`NothingAsked`); otherwise the code and the trigger of the session are of the
  selected problem and a set trigger means a first acceptance (`SessionIsOwn`), and
  a generation under way has the code of its problem (`GenerationIsOwn`).

`Queued` says what one function that returns does to all the queues: its own loses
its first call and keeps its newest, those that follow it get a newest call of the
selected problem, the others stay.  With it each event function is one lemma, in
which only the parts that it touches need an argument; the lemmas that end in
`Kept` say that the rest stays.

That the tab comes to rest at all is the one liveness argument that can be made
without liveness: `Work` weighs the calls that wait with all that may follow them
(a selection with the load, the reset, the quiz and the generation that its
followers may send), and adds what a running generation still has to take back.
`WeighedChange` says what the return of a function does to the sum, `LessWork` that
the marks of a step do not outweigh its calls, and one lemma for each function that
both apply.  So the number of steps that the server can take between two actions of
the learner is bounded, for any state of the queues; that it takes them is the
fairness of `completion`.  Then `PanelFollowsSelection` says what the tab shows.

### Only model-checked

Liveness (`ReconcileCatchesUp`, `EveryRequestEnds`, `FirstAcceptanceIsFollowedUp`
beyond its safety half) is out of the prover's reach, and so are the three expected
violations.

## 6. Plan

Done: 1. ExecutionHistory, ExecutionLedger, ProgressPipeline.  2. CodeWorkspace.
3. ReviewHistory.  4. ProfileStore.  5. TutorSession and its abstract
Conversation.  6. ProviderCall with the doctor.  7. Research.  8. CompletionPanel.
9. JudgeRun.  10. The proofs of all safety properties of 1 to 9, with both
refinements.

## 7. Not modelled

* Stack launchers and health monitor (`scripts/`): shell scripts around another
  program, the Gemma Server, whose process, signals and port are outside this
  repository; a model would consist mostly of assumptions about it.
* The learning report: reads the log and formats it, no state of its own.
* Parsing of the catalogue, of arguments and of the knowledge files; layout.
* Paging; the 1 MiB limit of a draft (that of a submission is); grading arithmetic.
* Prompts and the JSON of answers: abstracted to whether an answer is valid and
  safe.  The text of stderr: abstracted to what the diagnostic finds in it; that it is
  cut at the output limit is left out.
* A page that is reloaded while a hint is generated (a restart of the process is).
* The submission result box, except through the completion tab.
* Loss of power: `atomic_json.py` does not flush to disk; the models let the
  process die, not the machine.
