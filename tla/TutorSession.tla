---------------------------- MODULE TutorSession ----------------------------
(***************************************************************************)
(* The hints of one profile, asked for from several browser tabs.          *)
(*                                                                         *)
(* request_tutor_hint is a generator: it validates the request, shows the  *)
(* question at once (in the browser only), runs TutorService.request_hint  *)
(* in a worker, shows the question again every second, and at last the     *)
(* conversation that append returned.  Its three buttons share one place   *)
(* in the queue.  Selecting a problem and clearing a conversation are      *)
(* other event functions, which run meanwhile.  Each of them writes the    *)
(* chat, and the generator writes the question box too.                    *)
(*                                                                         *)
(* A turn is a number: the question box holds 0 or the turn that its text  *)
(* would become.  A definition marked Deviation is a mistake whose effect  *)
(* a run must notice.                                                      *)
(***************************************************************************)
EXTENDS Naturals, Sequences, FiniteSets

CONSTANTS
    Problems,
    Tabs,       \* browser tabs of the profile
    Limit,      \* MAX_MESSAGES
    MaxTurns,   \* bound: questions typed and hints asked for
    MaxMoves,   \* bound: selections and clicks on clear_history
    MaxFaults   \* bound: failed writes and restarts

ASSUME TutorAssumption ==
    /\ Problems # {}
    /\ Limit \in Nat \ {0}
    /\ Limit % 2 = 0
    /\ {MaxTurns, MaxMoves, MaxFaults} \subseteq Nat

VARIABLES
    file,       \* per problem, the messages of the conversation file
    hints,      \* per problem, hint_count in the learning log
    selected,   \* per tab, the problem selector
    chat,       \* per tab, what tutor_chat shows
    question,   \* per tab, the text in the question box
    call,       \* per tab and button, the request in progress
    nav,        \* per tab, the selections not yet shown
    clearing,   \* per tab, the problem of the click on clear_history, if any
    answered,   \* history: per problem, the turns that append stored
    uncounted,  \* history: per problem, stored turns whose count was not saved
    owed,       \* history: per tab, the question that its learner wrote and
                \* has neither abandoned nor put at risk
    hurried,    \* history: tabs in which the learner did not wait
    fresh, moves, faults

stores == <<file, hints>>
history == <<answered, uncounted>>
bounds == <<moves, faults>>
vars == <<file, hints, selected, chat, question, call, nav, clearing,
          answered, uncounted, owed, hurried, fresh, moves, faults>>

-----------------------------------------------------------------------------

\* request_question; request_stuck_hint and request_result_hint differ only in
\* what they tell the model.
Buttons == {"question", "stuck"}

Turns == 1..MaxTurns
Message == [turn: Turns, role: {"user", "assistant"}]
Pair(n) == <<[turn |-> n, role |-> "user"], [turn |-> n, role |-> "assistant"]>>

NoCall == [at |-> "idle"]
NoProblem == "none"

\* text is the question box at the click, turn what the request asks, base the
\* hint_count that was loaded, shown the conversation to display.
Call == {NoCall} \cup
        [at: {"queued", "validated", "generating", "appended", "saved"},
         problem: Problems, text: 0..MaxTurns, turn: 0..MaxTurns,
         base: Nat, shown: Seq(Message)]

Running(c) == c.at \notin {"idle", "queued"}
Quiet(t) ==
    /\ \A b \in Buttons : call[t][b] = NoCall
    /\ nav[t] = <<>>
    /\ clearing[t] = NoProblem

\* append: (*current.messages, *messages)[-limit:]
Trimmed(s, new) ==
    LET all == s \o new IN
    IF Len(all) <= Limit THEN all ELSE SubSeq(all, Len(all) - Limit + 1, Len(all))

\* What the chat shows; a pending question is 0 or a turn.
Chat(p, messages, pending) ==
    [problem |-> p, messages |-> messages, pending |-> pending]

Init ==
    /\ file = [p \in Problems |-> <<>>]
    /\ hints = [p \in Problems |-> 0]
    /\ \E p \in Problems :
        /\ selected = [t \in Tabs |-> p]
        /\ chat = [t \in Tabs |-> Chat(p, <<>>, 0)]
    /\ question = [t \in Tabs |-> 0]
    /\ call = [t \in Tabs |-> [b \in Buttons |-> NoCall]]
    /\ nav = [t \in Tabs |-> <<>>]
    /\ clearing = [t \in Tabs |-> NoProblem]
    /\ answered = [p \in Problems |-> <<>>]
    /\ uncounted = [p \in Problems |-> 0]
    /\ owed = [t \in Tabs |-> 0]
    /\ hurried = {}
    /\ fresh = 0
    /\ moves = 0
    /\ faults = 0

-----------------------------------------------------------------------------
(* The learner *)

\* A learner who does not wait for the page risks what it shows.
Act(t) ==
    /\ hurried' = IF Quiet(t) THEN hurried ELSE hurried \cup {t}

Type(t) ==
    /\ fresh < MaxTurns
    /\ Act(t)
    /\ fresh' = fresh + 1
    /\ question' = [question EXCEPT ![t] = fresh']
    /\ owed' = [owed EXCEPT ![t] = IF Quiet(t) THEN fresh' ELSE 0]
    /\ UNCHANGED <<stores, selected, chat, call, nav, clearing, history, bounds>>

\* trigger_mode "once": no second click on a button while its call is on.
\* The inputs are those of the browser at the click.
Click(t, b) ==
    LET turn == IF b = "question" THEN question[t] ELSE fresh' IN
    /\ call[t][b] = NoCall
    /\ Act(t)
    /\ IF b = "question" THEN fresh' = fresh
                         ELSE fresh < MaxTurns /\ fresh' = fresh + 1
    /\ owed' = [owed EXCEPT ![t] = IF Quiet(t) THEN @ ELSE 0]
    /\ call' = [call EXCEPT ![t][b] =
            [at |-> "queued", problem |-> selected[t], text |-> question[t],
             turn |-> turn, base |-> 0, shown |-> <<>>]]
    /\ UNCHANGED <<stores, selected, chat, question, nav, clearing, history, bounds>>

\* trigger_mode "always_last" of the change event: the first selection and the
\* last one are shown.
Select(t, p) ==
    /\ p # selected[t]
    /\ moves < MaxMoves
    /\ moves' = moves + 1
    /\ hurried' = IF Quiet(t) THEN hurried \ {t} ELSE hurried \cup {t}
    /\ selected' = [selected EXCEPT ![t] = p]
    /\ nav' = [nav EXCEPT ![t] = IF @ = <<>> THEN <<p>> ELSE <<Head(@), p>>]
    /\ UNCHANGED <<stores, chat, question, call, clearing, history, owed, fresh, faults>>

ClickClear(t) ==
    /\ clearing[t] = NoProblem
    /\ moves < MaxMoves
    /\ Act(t)
    /\ clearing' = [clearing EXCEPT ![t] = selected[t]]
    /\ moves' = moves + 1
    /\ UNCHANGED <<stores, selected, chat, question, call, nav, history, owed,
                   fresh, faults>>

-----------------------------------------------------------------------------
(* The other event functions *)

\* Deviation: the conversation of the problem that was shown before.
SelectedProblemOfChat(t) ==
    /\ nav[t] # <<>>
    /\ chat' = [chat EXCEPT ![t] = Chat(@.problem, file[@.problem], 0)]
    /\ nav' = [nav EXCEPT ![t] = Tail(@)]
    /\ UNCHANGED <<stores, selected, question, call, clearing, history, owed,
                   hurried, fresh, bounds>>

SelectedProblem(t) ==
    /\ nav[t] # <<>>
    /\ LET p == Head(nav[t]) IN chat' = [chat EXCEPT ![t] = Chat(p, file[p], 0)]
    /\ nav' = [nav EXCEPT ![t] = Tail(@)]
    /\ UNCHANGED <<stores, selected, question, call, clearing, history, owed,
                   hurried, fresh, bounds>>

ClearTutorHistory(t) ==
    LET p == clearing[t] IN
    /\ p # NoProblem
    /\ file' = [file EXCEPT ![p] = <<>>]
    /\ chat' = [chat EXCEPT ![t] = Chat(p, <<>>, 0)]
    /\ clearing' = [clearing EXCEPT ![t] = NoProblem]
    /\ UNCHANGED <<hints, selected, question, call, nav, history, owed, hurried,
                   fresh, bounds>>

-----------------------------------------------------------------------------
(* request_tutor_hint *)

\* Deviation: one request waits for the other even while that one waits.
SlotFreeIfAlone == Cardinality({x \in Tabs \X Buttons : call[x[1]][x[2]] # NoCall}) = 1

\* concurrency_id "tutor-generation", concurrency_limit 1
SlotFree == \A t \in Tabs, b \in Buttons : ~Running(call[t][b])

Goto(t, b, c) == call' = [call EXCEPT ![t][b] = c]

\* The question box that goes with the pending display and the answer.
BoxAfter(b, c) == IF b = "question" THEN 0 ELSE c.text

\* Deviation: a refused question is not given back.
RefuseSilently(t, b) ==
    LET c == call[t][b] IN
    /\ chat' = [chat EXCEPT ![t] = Chat(c.problem, file[c.problem], 0)]
    /\ question' = [question EXCEPT ![t] = BoxAfter(b, c)]
    /\ Goto(t, b, NoCall)

\* CloudConsentRequiredError and ValueError: the stored conversation is shown
\* again and the question is given back.
Refuse(t, b) ==
    LET c == call[t][b] IN
    /\ chat' = [chat EXCEPT ![t] = Chat(c.problem, file[c.problem], 0)]
    /\ question' = [question EXCEPT ![t] = c.text]
    /\ Goto(t, b, NoCall)

\* The validated request is shown before anything is stored.  Consent may be
\* missing, and a blank question is refused.
Validate(t, b) ==
    LET c == call[t][b] IN
    /\ c.at = "queued"
    /\ SlotFree
    /\ \/ Refuse(t, b)
       \/ /\ c.turn # 0
          /\ chat' = [chat EXCEPT ![t] = Chat(c.problem, file[c.problem], c.turn)]
          /\ question' = [question EXCEPT ![t] = BoxAfter(b, c)]
          /\ Goto(t, b, [c EXCEPT !.at = "validated", !.shown = file[c.problem]])
    /\ UNCHANGED <<stores, selected, nav, clearing, history, owed, hurried,
                   fresh, bounds>>

\* The provider was changed since, to one that needs a consent not given.
RefuseLater(t, b) ==
    /\ call[t][b].at = "validated"
    /\ Refuse(t, b)
    /\ UNCHANGED <<stores, selected, nav, clearing, history, owed, hurried,
                   fresh, bounds>>

\* request_hint: the log and the conversation are read.
LoadRequest(t, b) ==
    LET c == call[t][b] IN
    /\ c.at = "validated"
    /\ Goto(t, b, [c EXCEPT !.at = "generating", !.base = hints[c.problem]])
    /\ UNCHANGED <<stores, selected, chat, question, nav, clearing, history,
                   owed, hurried, fresh, bounds>>

\* Deviation: the conversation that was shown is extended and saved.
StoreShownTurn(t, b) ==
    LET c == call[t][b]
        updated == Trimmed(c.shown, Pair(c.turn)) IN
    /\ c.at = "generating"
    /\ file' = [file EXCEPT ![c.problem] = updated]
    /\ answered' = [answered EXCEPT ![c.problem] = Append(@, c.turn)]
    /\ uncounted' = [uncounted EXCEPT ![c.problem] = @ + 1]
    /\ Goto(t, b, [c EXCEPT !.at = "appended", !.shown = updated])
    /\ UNCHANGED <<hints, selected, chat, question, nav, clearing, owed,
                   hurried, fresh, bounds>>

\* A hint was generated, by the provider or by the fallback; append reads the
\* conversation again and stores question and answer under its lock.
StoreTurn(t, b) ==
    LET c == call[t][b]
        updated == Trimmed(file[c.problem], Pair(c.turn)) IN
    /\ c.at = "generating"
    /\ file' = [file EXCEPT ![c.problem] = updated]
    /\ answered' = [answered EXCEPT ![c.problem] = Append(@, c.turn)]
    /\ uncounted' = [uncounted EXCEPT ![c.problem] = @ + 1]
    /\ Goto(t, b, [c EXCEPT !.at = "appended", !.shown = updated])
    /\ UNCHANGED <<hints, selected, chat, question, nav, clearing, owed,
                   hurried, fresh, bounds>>

\* Deviation: every hint is counted as the first one.
CountHintOnce(t, b) ==
    LET c == call[t][b] IN
    /\ c.at = "appended"
    /\ hints' = [hints EXCEPT ![c.problem] = 1]
    /\ uncounted' = [uncounted EXCEPT ![c.problem] = @ - 1]
    /\ Goto(t, b, [c EXCEPT !.at = "saved"])
    /\ UNCHANGED <<file, selected, chat, question, nav, clearing, answered,
                   owed, hurried, fresh, bounds>>

\* Deviation: the count goes down.
CountHintDown(t, b) ==
    LET c == call[t][b] IN
    /\ c.at = "appended"
    /\ hints' = [hints EXCEPT ![c.problem] = c.base - 1]
    /\ uncounted' = [uncounted EXCEPT ![c.problem] = @ - 1]
    /\ Goto(t, b, [c EXCEPT !.at = "saved"])
    /\ UNCHANGED <<file, selected, chat, question, nav, clearing, answered,
                   owed, hurried, fresh, bounds>>

\* save_log of the log that was loaded, with one hint more.
CountHint(t, b) ==
    LET c == call[t][b] IN
    /\ c.at = "appended"
    /\ hints' = [hints EXCEPT ![c.problem] = c.base + 1]
    /\ uncounted' = [uncounted EXCEPT ![c.problem] = @ - 1]
    /\ Goto(t, b, [c EXCEPT !.at = "saved"])
    /\ UNCHANGED <<file, selected, chat, question, nav, clearing, answered,
                   owed, hurried, fresh, bounds>>

\* Every second the question is shown again, whatever the page shows now.
Tick(t, b) ==
    LET c == call[t][b] IN
    /\ c.at \in {"validated", "generating", "appended"}
    /\ chat' = [chat EXCEPT ![t] = Chat(c.problem, c.shown, c.turn)]
    /\ question' = [question EXCEPT ![t] = BoxAfter(b, c)]
    /\ UNCHANGED <<stores, selected, call, nav, clearing, history, owed,
                   hurried, fresh, bounds>>

ShowAnswer(t, b) ==
    LET c == call[t][b] IN
    /\ c.at = "saved"
    /\ chat' = [chat EXCEPT ![t] = Chat(c.problem, c.shown, 0)]
    /\ question' = [question EXCEPT ![t] = BoxAfter(b, c)]
    /\ Goto(t, b, NoCall)
    /\ UNCHANGED <<stores, selected, nav, clearing, history, owed, hurried,
                   fresh, bounds>>

\* A file cannot be written: append or save_log raises an OSError, which the
\* generator does not catch.
FailToStore(t, b) ==
    /\ call[t][b].at \in {"generating", "appended"}
    /\ faults < MaxFaults
    /\ faults' = faults + 1
    /\ Goto(t, b, NoCall)
    /\ hurried' = hurried \cup {t}
    /\ owed' = [owed EXCEPT ![t] = 0]
    /\ UNCHANGED <<stores, selected, chat, question, nav, clearing, history,
                   fresh, moves>>

\* The process dies; each page is loaded again and shows the restored problem.
Restart ==
    /\ faults < MaxFaults
    /\ faults' = faults + 1
    /\ \E p \in Problems :
        /\ selected' = [t \in Tabs |-> p]
        /\ chat' = [t \in Tabs |-> Chat(p, file[p], 0)]
    /\ question' = [t \in Tabs |-> 0]
    /\ call' = [t \in Tabs |-> [b \in Buttons |-> NoCall]]
    /\ nav' = [t \in Tabs |-> <<>>]
    /\ clearing' = [t \in Tabs |-> NoProblem]
    /\ owed' = [t \in Tabs |-> 0]
    /\ hurried' = {}
    /\ UNCHANGED <<stores, history, fresh, moves>>

Proceed(t, b) ==
    \/ Validate(t, b) \/ RefuseLater(t, b) \/ LoadRequest(t, b)
    \/ StoreTurn(t, b) \/ CountHint(t, b) \/ ShowAnswer(t, b)

Learner(t) ==
    \/ Type(t) \/ ClickClear(t)
    \/ \E b \in Buttons : Click(t, b)
    \/ \E p \in Problems : Select(t, p)

Next ==
    \/ \E t \in Tabs :
        \/ Learner(t) \/ SelectedProblem(t) \/ ClearTutorHistory(t)
        \/ \E b \in Buttons : Proceed(t, b) \/ Tick(t, b) \/ FailToStore(t, b)
    \/ Restart

\* The queue serves every click and a request ends: each provider has a
\* timeout and the fallback computes.  The place in the queue is given to the
\* calls in turn (SF).  Nobody has to click.
Fairness ==
    \A t \in Tabs :
        /\ WF_vars(SelectedProblem(t))
        /\ WF_vars(ClearTutorHistory(t))
        /\ \A b \in Buttons : SF_vars(Proceed(t, b))

Spec == Init /\ [][Next]_vars /\ Fairness

-----------------------------------------------------------------------------
(* Properties *)

TypeOK ==
    /\ file \in [Problems -> Seq(Message)]
    /\ hints \in [Problems -> Nat]
    /\ selected \in [Tabs -> Problems]
    /\ chat \in [Tabs -> [problem: Problems, messages: Seq(Message),
                          pending: 0..MaxTurns]]
    /\ question \in [Tabs -> 0..MaxTurns]
    /\ call \in [Tabs -> [Buttons -> Call]]
    /\ nav \in [Tabs -> Seq(Problems)]
    /\ clearing \in [Tabs -> Problems \cup {NoProblem}]
    /\ answered \in [Problems -> Seq(Turns)]
    /\ uncounted \in [Problems -> Nat]
    /\ owed \in [Tabs -> 0..MaxTurns]
    /\ hurried \subseteq Tabs
    /\ {fresh, moves, faults} \subseteq Nat

\* A hint that was stored is counted unless its log could not be saved, and
\* none is counted that the conversation never had (request_hint, whose count
\* starts from a log that was read before the hint was generated).
CountedUnlessFailed ==
    \A p \in Problems :
        /\ hints[p] + uncounted[p] = Len(answered[p])
        /\ uncounted[p] <= faults +
            Cardinality({x \in Tabs \X Buttons :
                            /\ call[x[1]][x[2]].at = "appended"
                            /\ call[x[1]][x[2]].problem = p})

\* A page on which the learner waited for each answer shows, when nothing is in
\* progress, the problem that is selected, and no question that is still
\* waiting (the chat is an output of five event functions).  A tab whose request
\* could not be stored is excused until the next selection (FailToStore counts it
\* as hurried): the exception that ends it leaves the question pending.
PatientPageIsTrue ==
    \A t \in Tabs :
        Quiet(t) /\ t \notin hurried =>
            /\ chat[t].problem = selected[t]
            /\ chat[t].pending = 0

\* A question that was written on a quiet page is in the box, in a request or
\* answered: a refusal, at either validation, gives it back.  A question whose
\* turn or count could not be written is excused (FailToStore sets owed to 0), since
\* it is not given back, although docs/architecture.md:90 says so of every failure.
QuestionNotLost ==
    \A t \in Tabs :
        \/ owed[t] \in {0, question[t]}
        \/ \E b \in Buttons : call[t][b] # NoCall /\ owed[t] \in {call[t][b].turn, call[t][b].text}
        \/ \E p \in Problems : owed[t] \in {answered[p][i] : i \in DOMAIN answered[p]}

\* The conversations are what a learner may rely on, whatever failed: question
\* and answer enter and leave together, the oldest first, and nothing that was
\* cleared comes back with a hint that was being generated meanwhile (append,
\* which reads the conversation again).
Kept == INSTANCE Conversation WITH
    Keep <- Limit \div 2,
    turns <- [p \in Problems |->
                [i \in 1..((Len(file[p]) + 1) \div 2) |->
                    IF /\ 2 * i <= Len(file[p])
                       /\ SubSeq(file[p], 2 * i - 1, 2 * i) = Pair(file[p][2 * i].turn)
                    THEN file[p][2 * i].turn ELSE 0]]

ImplementsConversation == Kept!Spec

\* Every click on a button ends: with an answer, a refusal or an error, also
\* when several requests wait for the one place in the queue
\* (concurrency_limit 1).
EveryRequestEnds ==
    \A t \in Tabs, b \in Buttons :
        (call[t][b] # NoCall) ~> (call[t][b] = NoCall)

=============================================================================
