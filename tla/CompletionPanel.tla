--------------------------- MODULE CompletionPanel ---------------------------
(***************************************************************************)
(* The completion tab of one browser page: what a full submission, a       *)
(* give-up, a change of the problem and the buttons of the tab make of it. *)
(*                                                                         *)
(* A click captures the components of the page; when its function is over, *)
(* its outputs are written and the functions that follow it (.then) are    *)
(* sent with the components as they are by then.  gr.State values live on  *)
(* the server and are read when a function starts.  Each function has one  *)
(* place in the queue, so its calls are served in order, but the calls of  *)
(* different functions overlap: a generated quiz takes long on purpose, so *)
(* that the fixed quiz can be answered meanwhile.                          *)
(*                                                                         *)
(* A definition marked Deviation is a mistake whose effect a run must      *)
(* notice.                                                                 *)
(***************************************************************************)
EXTENDS Naturals, Sequences

CONSTANTS
    Problems,
    MaxActions  \* bound: what the learner does

ASSUME PanelAssumption == Problems # {} /\ MaxActions \in Nat

VARIABLES
    solved, gaveUp,  \* the learning log
    unfolded,        \* problems accepted by executions that are recorded but not
                     \* yet reflected in the log
    graded,          \* problems whose authored quiz is in the review history
    latest,          \* per problem, its newest AI quiz set (0: none)
    page,            \* the components of the page
    session,         \* accepted_source and personalized_quiz_trigger
    queue,           \* per function, its calls
    made,            \* history: per AI quiz set, its problem and its code
    first,           \* history: problems accepted for the first time here
    followed,        \* history: those for which a generation was started
    pace,            \* history: how the learner went on while calls were under
                     \* way: "patient" if only to answer and to read while a quiz
                     \* was generated, "busy" if with something else meanwhile,
                     \* "rash" if other calls were under way
    actions

stores == <<solved, gaveUp, unfolded, graded, latest>>
history == <<made, first, followed, pace>>
vars == <<solved, gaveUp, unfolded, graded, latest, page, session, queue, made,
          first, followed, pace, actions>>

-----------------------------------------------------------------------------

None == "none"

\* The functions of the events; "generate" also serves the button that
\* generates again, with which it shares a concurrency_id.
Functions ==
    {"select", "submit", "give_up", "load_completion", "reset", "load_quiz",
     "generate", "grade", "explain", "review"}

\* by is the event that a call belongs to; started and code are for generate.
Call ==
    [problem: Problems, by: {"select", "submit", "give_up", "click"},
     started: BOOLEAN, code: Problems \cup {None}]

NewCall(p, by) == [problem |-> p, by |-> by, started |-> FALSE, code |-> None]

Done == solved \cup gaveUp
Quiet == \A f \in Functions : queue[f] = <<>>
OnlyGenerating == \A f \in Functions \ {"generate"} : queue[f] = <<>>

\* Code is told apart by the problem for which it was accepted.
Page ==
    [problem: Problems, panel: Problems \cup {None}, open: BOOLEAN, set: Nat,
     again: BOOLEAN, explanation: Problems \cup {None}, review: Problems \cup {None},
     result: Problems \cup {None}]

Init ==
    /\ solved \in SUBSET Problems
    /\ gaveUp = {}
    /\ unfolded = {}
    /\ graded \in SUBSET solved
    /\ latest = [p \in Problems |-> 0]
    /\ \E p \in Problems :
        page = [problem |-> p, panel |-> IF p \in solved THEN p ELSE None,
                open |-> p \in graded, set |-> 0, again |-> FALSE,
                explanation |-> None, review |-> None, result |-> None]
    /\ session = [accepted |-> None, trigger |-> FALSE]
    /\ queue = [f \in Functions |-> <<>>]
    /\ made = <<>>
    /\ first = {}
    /\ followed = {}
    /\ pace = "patient"
    /\ actions = 0

-----------------------------------------------------------------------------
(* The learner *)

\* A click on a button whose last call is not over has no effect.
Click(f) ==
    /\ actions < MaxActions
    /\ actions' = actions + 1
    /\ \A i \in DOMAIN queue[f] : queue[f][i].by # "click"
    /\ queue' = [queue EXCEPT ![f] = Append(@, NewCall(page.problem, "click"))]
    /\ UNCHANGED <<stores, session, made, first, followed>>

GoOn ==
    pace' = IF Quiet THEN pace
            ELSE IF OnlyGenerating /\ pace # "rash" THEN "busy" ELSE "rash"

Select(p) ==
    /\ p # page.problem
    /\ actions < MaxActions
    /\ actions' = actions + 1
    /\ page' = [page EXCEPT !.problem = p]
    /\ queue' = [queue EXCEPT !["select"] = Append(@, NewCall(p, "click"))]
    /\ GoOn
    /\ UNCHANGED <<stores, session, made, first, followed>>

ClickSubmit == Click("submit") /\ GoOn /\ UNCHANGED page
ClickGiveUp == Click("give_up") /\ GoOn /\ UNCHANGED page
ClickAgain == page.again /\ Click("generate") /\ GoOn /\ UNCHANGED page

\* What the tab offers while a quiz is generated.
Read(f) ==
    /\ f \in {"grade", "explain", "review"}
    /\ IF f = "grade" THEN page.panel # None ELSE page.open
    /\ Click(f)
    /\ pace' = IF OnlyGenerating THEN pace ELSE "rash"
    /\ UNCHANGED page

-----------------------------------------------------------------------------
(* The event functions *)

First(f) == Head(queue[f])

\* The call of f at the head is over; the functions that follow are sent with
\* the problem that is selected now.
Follow(f, next, by) ==
    queue' = [g \in Functions |->
              LET q == IF g = f THEN Tail(queue[g]) ELSE queue[g] IN
              IF g \in next THEN Append(q, NewCall(page.problem, by)) ELSE q]

\* Deviation: a function of the selection writes the selector, whose change is
\* the event that it follows.
SelectedAgain ==
    /\ queue["select"] # <<>>
    /\ Follow("select", {"select", "load_completion", "reset"}, "select")
    /\ UNCHANGED <<stores, page, session, history, actions>>

\* selected_problem
Selected ==
    /\ queue["select"] # <<>>
    /\ Follow("select", {"load_completion", "reset"}, "select")
    /\ UNCHANGED <<stores, page, session, history, actions>>

\* Deviation: the buttons keep the state that they have.
LoadCompletionOnly ==
    /\ queue["load_completion"] # <<>>
    /\ LET c == First("load_completion") IN
        /\ page' = [page EXCEPT !.panel = IF c.problem \in Done THEN c.problem ELSE None,
                                !.result = None]
        /\ Follow("load_completion", IF c.by = "submit" THEN {"generate"} ELSE {}, c.by)
    /\ UNCHANGED <<stores, session, history, actions>>

\* load_completion; after a submission the generation follows it.
LoadCompletion ==
    /\ queue["load_completion"] # <<>>
    /\ LET c == First("load_completion") IN
        /\ page' = [page EXCEPT !.panel = IF c.problem \in Done THEN c.problem ELSE None,
                                !.open = c.problem \in Done /\ c.problem \in graded,
                                !.result = None]
        /\ Follow("load_completion", IF c.by = "submit" THEN {"generate"} ELSE {}, c.by)
    /\ UNCHANGED <<stores, session, history, actions>>

\* Deviation: the accepted code stays.
ResetPageOnly ==
    /\ queue["reset"] # <<>>
    /\ session' = [session EXCEPT !.trigger = FALSE]
    /\ page' = [page EXCEPT !.explanation = None, !.review = None]
    /\ Follow("reset", {"load_quiz"}, "select")
    /\ UNCHANGED <<stores, history, actions>>

\* The function that empties the session of the last problem.
Reset ==
    /\ queue["reset"] # <<>>
    /\ session' = [accepted |-> None, trigger |-> FALSE]
    /\ page' = [page EXCEPT !.explanation = None, !.review = None]
    /\ Follow("reset", {"load_quiz"}, "select")
    /\ UNCHANGED <<stores, history, actions>>

\* load_personalized_quiz
LoadQuiz ==
    /\ queue["load_quiz"] # <<>>
    /\ LET p == First("load_quiz").problem IN
        page' = [page EXCEPT !.set = IF p \in Done /\ p \in graded THEN latest[p] ELSE 0,
                             !.again = session.accepted # None]
    /\ Follow("load_quiz", {}, "click")
    /\ UNCHANGED <<stores, session, history, actions>>

\* The log when every execution is reflected, this one of p with them.
Reflected(p, accepted) == solved \cup unfolded \cup (IF accepted THEN {p} ELSE {})

\* Deviation: whether the problem is newly completed is read off the log after
\* the submission is in it.
SubmitFullLate(accepted) ==
    /\ queue["submit"] # <<>>
    /\ LET p == First("submit").problem IN
        /\ solved' = Reflected(p, accepted)
        /\ session' = [accepted |-> IF accepted THEN p ELSE None, trigger |-> FALSE]
        /\ first' = IF accepted /\ p \notin solved \cup unfolded
                    THEN first \cup {p} ELSE first
    /\ unfolded' = {}
    /\ Follow("submit", {"load_completion"}, "submit")
    /\ UNCHANGED <<gaveUp, graded, latest, page, made, followed, pace, actions>>

\* submit_full: older executions are reflected before the judge, this one after
\* it; the first accepted submission asks for a generation.
SubmitFull(accepted) ==
    /\ queue["submit"] # <<>>
    /\ LET p == First("submit").problem
           newly == accepted /\ p \notin solved \cup unfolded IN
        /\ solved' = Reflected(p, accepted)
        /\ session' = [accepted |-> IF accepted THEN p ELSE None, trigger |-> newly]
        /\ first' = IF newly THEN first \cup {p} ELSE first
    /\ unfolded' = {}
    /\ Follow("submit", {"load_completion"}, "submit")
    /\ UNCHANGED <<gaveUp, graded, latest, page, made, followed, pace, actions>>

\* submit_full raises: its outputs are not written, but what follows it runs.  It
\* got as far as nothing; the older executions, with or without a row of its own;
\* or the log, and only the rows could not be deleted.
SubmitFails(accepted) ==
    /\ queue["submit"] # <<>>
    /\ LET p == First("submit").problem IN
        \/ UNCHANGED <<solved, unfolded>>
        \/ /\ solved' = solved \cup unfolded
           /\ unfolded' \in {{}, IF accepted THEN {p} ELSE {}}
        \/ solved' = Reflected(p, accepted) /\ unfolded' = {}
    /\ Follow("submit", {"load_completion"}, "submit")
    /\ UNCHANGED <<gaveUp, graded, latest, page, session, history, actions>>

\* give_up_and_explain: a solved problem is left as it is.
GiveUp ==
    /\ queue["give_up"] # <<>>
    /\ LET p == First("give_up").problem IN
        gaveUp' = IF p \in solved THEN gaveUp ELSE gaveUp \cup {p}
    /\ session' = [session EXCEPT !.accepted = None]
    /\ Follow("give_up", {"load_completion"}, "give_up")
    /\ UNCHANGED <<solved, unfolded, graded, latest, page, history, actions>>

\* generate_personalized_quiz_ui and retry_personalized_quiz_ui, up to the first
\* yield: the trigger is taken back.
StartGenerate ==
    /\ queue["generate"] # <<>>
    /\ LET c == First("generate") IN
        /\ ~c.started
        /\ session' = [session EXCEPT !.trigger = FALSE]
        /\ IF c.by = "submit" /\ ~session.trigger
           THEN /\ Follow("generate", {}, "click")
                /\ UNCHANGED <<page, followed>>
           ELSE /\ queue' = [queue EXCEPT !["generate"][1] =
                             [@ EXCEPT !.started = TRUE, !.code = session.accepted]]
                /\ page' = [page EXCEPT !.again = FALSE]
                /\ followed' = IF c.by = "submit" THEN followed \cup {c.problem} ELSE followed
    /\ UNCHANGED <<stores, made, first, pace, actions>>

\* Every second the function yields again.
Tick ==
    /\ queue["generate"] # <<>>
    /\ First("generate").started
    /\ session.trigger \/ page.again
    /\ session' = [session EXCEPT !.trigger = FALSE]
    /\ page' = [page EXCEPT !.again = FALSE]
    /\ UNCHANGED <<stores, queue, history, actions>>

\* Deviation: that there is code is not checked.
FinishGenerateUnchecked(succeeds) ==
    /\ queue["generate"] # <<>>
    /\ LET c == First("generate") IN
        /\ c.started
        /\ succeeds => c.problem \in solved
        /\ IF succeeds
           THEN /\ made' = Append(made, [problem |-> c.problem, code |-> c.code])
                /\ latest' = [latest EXCEPT ![c.problem] = Len(made) + 1]
           ELSE UNCHANGED <<made, latest>>
        /\ session' = [session EXCEPT !.trigger = FALSE]
        /\ page' = [page EXCEPT !.again = c.code # None]
        /\ Follow("generate", IF c.by = "click" THEN {"load_quiz"} ELSE {}, "click")
    /\ UNCHANGED <<solved, gaveUp, unfolded, graded, first, followed, pace, actions>>

\* The set is saved or the generation fails (it does for a problem that is not
\* solved, and without code); the last yield, and for the button the new set.
FinishGenerate(succeeds) ==
    /\ queue["generate"] # <<>>
    /\ LET c == First("generate") IN
        /\ c.started
        /\ succeeds => c.problem \in solved /\ c.code # None
        /\ IF succeeds
           THEN /\ made' = Append(made, [problem |-> c.problem, code |-> c.code])
                /\ latest' = [latest EXCEPT ![c.problem] = Len(made) + 1]
           ELSE UNCHANGED <<made, latest>>
        /\ session' = [session EXCEPT !.trigger = FALSE]
        /\ page' = [page EXCEPT !.again = c.code # None]
        /\ Follow("generate", IF c.by = "click" THEN {"load_quiz"} ELSE {}, "click")
    /\ UNCHANGED <<solved, gaveUp, unfolded, graded, first, followed, pace, actions>>

\* grade_quiz: with an answer missing the buttons are closed.
Grade(complete) ==
    /\ queue["grade"] # <<>>
    /\ LET p == First("grade").problem
           accepted == complete /\ p \in Done IN
        /\ graded' = IF accepted THEN graded \cup {p} ELSE graded
        /\ page' = [page EXCEPT !.result = IF accepted THEN p ELSE None, !.open = accepted]
    /\ Follow("grade", {"load_quiz"}, "click")
    /\ UNCHANGED <<solved, gaveUp, unfolded, latest, session, history, actions>>

\* show_explanation, load_code_review_state and generate_code_review_ui: what
\* is released only after the authored quiz.
Explain ==
    /\ queue["explain"] # <<>>
    /\ LET p == First("explain").problem IN
        page' = [page EXCEPT !.explanation = IF p \in Done /\ p \in graded THEN p ELSE None]
    /\ Follow("explain", {}, "click")
    /\ UNCHANGED <<stores, session, history, actions>>

Review ==
    /\ queue["review"] # <<>>
    /\ LET p == First("review").problem IN
        page' = [page EXCEPT !.review = IF p \in Done /\ p \in graded THEN p ELSE None]
    /\ Follow("review", {}, "click")
    /\ UNCHANGED <<stores, session, history, actions>>

Learner ==
    \/ \E p \in Problems : Select(p)
    \/ ClickSubmit
    \/ ClickGiveUp
    \/ ClickAgain
    \/ \E f \in Functions : Read(f)

Server ==
    \/ Selected
    \/ LoadCompletion
    \/ Reset
    \/ LoadQuiz
    \/ \E accepted \in BOOLEAN : SubmitFull(accepted) \/ SubmitFails(accepted)
    \/ GiveUp
    \/ StartGenerate
    \/ Tick
    \/ \E succeeds \in BOOLEAN : FinishGenerate(succeeds)
    \/ \E complete \in BOOLEAN : Grade(complete)
    \/ Explain
    \/ Review

Next == Learner \/ Server

Spec == Init /\ [][Next]_vars

\* Every queued call is served, and every function returns.
Fairness ==
    /\ WF_vars(Selected)
    /\ WF_vars(LoadCompletion)
    /\ WF_vars(Reset)
    /\ WF_vars(LoadQuiz)
    /\ WF_vars(\E accepted \in BOOLEAN : SubmitFull(accepted) \/ SubmitFails(accepted))
    /\ WF_vars(GiveUp)
    /\ WF_vars(StartGenerate)
    /\ WF_vars(\E succeeds \in BOOLEAN : FinishGenerate(succeeds))
    /\ WF_vars(\E complete \in BOOLEAN : Grade(complete))
    /\ WF_vars(Explain)
    /\ WF_vars(Review)

FairSpec == Spec /\ Fairness

-----------------------------------------------------------------------------
(* Properties *)

TypeOK ==
    /\ {solved, gaveUp, unfolded, graded, first, followed} \subseteq SUBSET Problems
    /\ latest \in [Problems -> Nat]
    /\ page \in Page
    /\ session \in [accepted: Problems \cup {None}, trigger: BOOLEAN]
    /\ queue \in [Functions -> Seq(Call)]
    /\ made \in Seq([problem: Problems, code: Problems])
    /\ pace \in {"patient", "busy", "rash"}
    /\ actions \in Nat

\* When nothing is under way the tab is that of the selected problem: its fixed
\* quiz, and an AI quiz of it, however the learner hurried from one problem to
\* another; and, if the learner did not hurry, its result, its explanation, its
\* review, and buttons that are open only after its own fixed quiz (the events
\* that follow selected_problem, submit_full and give_up_and_explain).
PanelIsOfSelected ==
    Quiet =>
        /\ page.panel = IF page.problem \in Done THEN page.problem ELSE None
        /\ page.set # 0 => made[page.set].problem = page.problem
        /\ pace # "rash" =>
            /\ {page.result, page.explanation, page.review} \subseteq {None, page.problem}
            /\ page.open => page.problem \in graded

\* An AI quiz is made from code that was accepted for its problem ("only code
\* that passed all tests", docs/llm-hint-design.md:33): accepted_source does not
\* outlive the selection.  For a learner who does nothing but answer and read while
\* calls are under way (pace "patient"): one who selects or submits meanwhile may
\* get a quiz of the code of another problem.
QuizIsOfItsCode ==
    \A i \in DOMAIN made : made[i].code = made[i].problem \/ pace # "patient"

\* A generation is started of its own accord only for a problem that was accepted
\* for the first time, in a tab of a patient learner: not for an accepted problem
\* that is submitted again (newly_completed, personalized_quiz_trigger), nor after
\* a submission that failed.
OnlyFirstIsFollowedUp == pace = "patient" => followed \subseteq first

\* The first accepted submission of a problem, and no other, is followed by the
\* generation of an AI quiz, if the learner waits for it or only answers and
\* reads meanwhile (docs/acceptance-test.md:69).  A submission whose call failed is
\* none of them, even if its acceptance was recorded: the page got no answer, and
\* the next submission finds the problem solved.  A learner who goes on to another
\* problem meanwhile is the subject of FirstAcceptanceIsNeverForgotten.
FirstAcceptanceIsFollowedUp ==
    /\ []OnlyFirstIsFollowedUp
    /\ \A p \in Problems : p \in first ~> p \in followed \/ pace # "patient"

\* What the server has still to do: for each function its calls, weighed with all
\* that may follow one of them, and the writes that a running generation repeats.
Calls(f) == Len(queue[f])
Started == queue["generate"] # <<>> /\ First("generate").started
One(b) == IF b THEN 1 ELSE 0

Weighed ==
    10 * Calls("select") + 8 * Calls("submit") + 7 * Calls("give_up")
    + 6 * Calls("load_completion") + 5 * Calls("generate") + 3 * Calls("reset")
    + 3 * Calls("grade") + 2 * Calls("load_quiz") + Calls("explain") + Calls("review")

Work == Weighed - One(Started) + One(session.trigger) + One(page.again)

\* Left alone, the tab comes to rest: no function, by what it sends or by what it
\* writes, starts a circle of calls, and every step of the server leaves less to
\* do.  Together with PanelIsOfSelected: whatever the learner did, after a bounded
\* number of steps the tab is that of the selected problem.
NearerToRest == [][Server => Work' < Work]_vars

\* What docs/acceptance-test.md:69 says, for a learner who goes on to the next
\* problem while the quiz of the last one is generated ("generation does not
\* block", docs/llm-hint-design.md:130).
FirstAcceptanceIsNeverForgotten ==
    \A p \in Problems : p \in first ~> p \in followed \/ pace = "rash"
=============================================================================
