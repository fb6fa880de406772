------------------------- MODULE TutorSession_proofs -------------------------
(***************************************************************************)
(* Proofs about TutorSession, for every set of problems and tabs, every    *)
(* even limit of the conversation and every bound.                         *)
(***************************************************************************)
EXTENDS TutorSession, FiniteSetTheorems, SequenceTheorems, TLAPS

\* The place in the queue is one: at most one request runs.
OneRuns ==
    \A t, u \in Tabs, a, b \in Buttons :
        Running(call[t][a]) /\ Running(call[u][b]) => t = u /\ a = b

TurnsAnswered(p) == {answered[p][i] : i \in DOMAIN answered[p]}

\* What a request that has come to a step has done before, and what it still
\* knows: nobody else counts a hint between its load and its save.
CallOK(b, c) ==
    c # NoCall =>
        /\ b = "question" => c.turn = c.text
        /\ Running(c) => c.turn # 0
        /\ c.at \in {"generating", "appended"} => c.base = hints[c.problem]
        /\ c.at \in {"appended", "saved"} => c.turn \in TurnsAnswered(c.problem)
        /\ c.at = "appended" => uncounted[c.problem] > 0

CallsOK == \A t \in Tabs, b \in Buttons : CallOK(b, call[t][b])

\* A request for p stored its turn and has not counted it yet.
AwaitsCount(p) ==
    \E t \in Tabs, b \in Buttons : call[t][b].at = "appended" /\ call[t][b].problem = p

Counting ==
    \A p \in Problems :
        /\ hints[p] + uncounted[p] = Len(answered[p])
        /\ uncounted[p] <= faults + (IF AwaitsCount(p) THEN 1 ELSE 0)

WellFormed == TypeOK /\ OneRuns /\ CallsOK

-----------------------------------------------------------------------------
(* Requests and their updates *)

LEMMA BoundsType ==
    /\ MaxTurns \in Nat /\ Limit \in Nat \ {0} /\ 0 \in 0..MaxTurns
    /\ TypeOK => fresh \in Nat /\ moves \in Nat /\ faults \in Nat
    /\ fresh' \in Nat /\ moves' \in Nat /\ faults' \in Nat =>
         {fresh', moves', faults'} \subseteq Nat
BY TutorAssumption DEF TypeOK

LEMMA NoCallType == NoCall \in Call /\ ~Running(NoCall) /\ NoCall.at = "idle"
BY DEF NoCall, Call, Running

\* A request, once clicked, has all its fields.
LEMMA CallFields ==
    ASSUME NEW c \in Call, c # NoCall
    PROVE  /\ c.at \in {"queued", "validated", "generating", "appended", "saved"}
           /\ c.problem \in Problems /\ c.text \in 0..MaxTurns /\ c.turn \in 0..MaxTurns
           /\ c.base \in Nat /\ c.shown \in Seq(Message)
BY DEF Call, NoCall

\* The request of one button changes, every other stays.
LEMMA OneCallChanges ==
    ASSUME call \in [Tabs -> [Buttons -> Call]], NEW t \in Tabs, NEW b \in Buttons,
           NEW d \in Call, call' = [call EXCEPT ![t][b] = d]
    PROVE  /\ call' \in [Tabs -> [Buttons -> Call]]
           /\ call'[t][b] = d
           /\ \A u \in Tabs, a \in Buttons : u # t \/ a # b => call'[u][a] = call[u][a]
<1>1. call' = [call EXCEPT ![t] = [call[t] EXCEPT ![b] = d]]
    OBVIOUS
<1>2. call'[t] = [call[t] EXCEPT ![b] = d] /\ \A u \in Tabs \ {t} : call'[u] = call[u]
    BY <1>1
<1>3. call'[t][b] = d /\ \A a \in Buttons \ {b} : call'[t][a] = call[t][a]
    BY <1>2
<1>4. [call[t] EXCEPT ![b] = d] \in [Buttons -> Call]
    OBVIOUS
<1>5. QED BY <1>1, <1>2, <1>3, <1>4

-----------------------------------------------------------------------------
(* Type correctness *)

LEMMA PairType ==
    ASSUME NEW n \in Turns
    PROVE  Pair(n) \in Seq(Message) /\ Len(Pair(n)) = 2
BY DEF Pair, Message

\* What is left after the oldest turns went is a conversation.
LEMMA TrimmedType ==
    ASSUME NEW s \in Seq(Message), NEW n \in Turns
    PROVE  Trimmed(s, Pair(n)) \in Seq(Message)
<1> DEFINE all == s \o Pair(n)
<1>1. all \in Seq(Message) /\ Len(all) \in Nat /\ Limit \in Nat \ {0}
    BY PairType, TutorAssumption
<1> HIDE DEF all
<1>2. Len(all) > Limit => SubSeq(all, Len(all) - Limit + 1, Len(all)) \in Seq(Message)
    BY <1>1
<1>3. QED BY <1>1, <1>2 DEF Trimmed, all

\* A request moves on, and no other request runs meanwhile, or it ends and
\* leaves the counts alone.
LEMMA RequestMoves ==
    ASSUME WellFormed, NEW t \in Tabs, NEW b \in Buttons, NEW d \in Call,
           Goto(t, b, d),
           \/ Running(call[t][b]) \/ SlotFree
           \/ ~Running(d) /\ UNCHANGED <<hints, answered, uncounted>>,
           CallOK(b, d)'
    PROVE  OneRuns' /\ CallsOK'
<1>1. /\ call'[t][b] = d
      /\ \A u \in Tabs, a \in Buttons : u # t \/ a # b => call'[u][a] = call[u][a]
    BY OneCallChanges DEF Goto, WellFormed, TypeOK
<1>2. CASE Running(call[t][b]) \/ SlotFree
  <2>1. \A u \in Tabs, a \in Buttons : u # t \/ a # b => ~Running(call'[u][a])
      BY <1>1, <1>2 DEF WellFormed, OneRuns, SlotFree
  <2>2. OneRuns'
      BY <2>1 DEF OneRuns
  <2>3. ASSUME NEW u \in Tabs, NEW a \in Buttons, u # t \/ a # b
        PROVE  CallOK(a, call[u][a])'
      BY <1>1, <2>1, <2>3 DEF WellFormed, CallsOK, CallOK, Running, NoCall
  <2>4. QED BY <1>1, <2>2, <2>3 DEF CallsOK
<1>3. CASE ~Running(d) /\ UNCHANGED <<hints, answered, uncounted>>
  <2>1. OneRuns'
      BY <1>1, <1>3 DEF WellFormed, OneRuns
  <2>2. ASSUME NEW u \in Tabs, NEW a \in Buttons, u # t \/ a # b
        PROVE  CallOK(a, call[u][a])'
      BY <1>1, <1>3, <2>2 DEF WellFormed, CallsOK, CallOK, TurnsAnswered
  <2>3. QED BY <1>1, <2>1, <2>2 DEF CallsOK
<1>4. QED BY <1>2, <1>3

LEMMA NothingMoves ==
    ASSUME WellFormed, UNCHANGED <<call, hints, answered, uncounted>>
    PROVE  OneRuns' /\ CallsOK'
BY DEF WellFormed, OneRuns, CallsOK, CallOK, TurnsAnswered

LEMMA ChatType ==
    ASSUME NEW p \in Problems, NEW s \in Seq(Message), NEW n \in 0..MaxTurns
    PROVE  Chat(p, s, n) \in [problem: Problems, messages: Seq(Message), pending: 0..MaxTurns]
BY DEF Chat

LEMMA WellFormedInit == Init => WellFormed
<1> SUFFICES ASSUME Init PROVE WellFormed
    OBVIOUS
<1>0. 0 \in 0..MaxTurns /\ <<>> \in Seq(Message)
    BY TutorAssumption
<1>1. chat \in [Tabs -> [problem: Problems, messages: Seq(Message), pending: 0..MaxTurns]]
      /\ selected \in [Tabs -> Problems]
  <2>1. PICK p \in Problems : /\ selected = [t \in Tabs |-> p]
                              /\ chat = [t \in Tabs |-> Chat(p, <<>>, 0)]
      BY DEF Init
  <2>2. Chat(p, <<>>, 0)
           \in [problem: Problems, messages: Seq(Message), pending: 0..MaxTurns]
      BY <1>0, ChatType
  <2>3. QED BY <2>1, <2>2
<1>2. TypeOK
    BY <1>0, <1>1, NoCallType DEF Init, TypeOK
<1>3. OneRuns /\ CallsOK
    BY NoCallType DEF Init, OneRuns, CallsOK, CallOK
<1>4. QED BY <1>2, <1>3 DEF WellFormed

\* What the learner does starts nothing that runs at once.
LEMMA LearnerKeepsWellFormed ==
    ASSUME WellFormed, NEW t \in Tabs, Learner(t)
    PROVE  WellFormed'
<1> USE DEF WellFormed
<1>1. CASE Type(t)
  <2>1. fresh' \in Nat /\ fresh' \in 0..MaxTurns
      BY <1>1, BoundsType DEF Type
  <2>2. TypeOK'
      BY <1>1, <2>1, BoundsType DEF Type, Act, stores, history, bounds, TypeOK
  <2>3. QED BY <1>1, <2>2, NothingMoves DEF Type, stores, history
<1>2. CASE ClickClear(t)
  <2>1. /\ {fresh', moves', faults'} \subseteq Nat
        /\ hurried' \subseteq Tabs
        /\ clearing' \in [Tabs -> Problems \cup {NoProblem}]
    <3>1. fresh' \in Nat /\ moves' \in Nat /\ faults' \in Nat
        BY <1>2, BoundsType DEF ClickClear
    <3>2. hurried' \subseteq Tabs
        BY <1>2 DEF ClickClear, Act, TypeOK
    <3>3. clearing' \in [Tabs -> Problems \cup {NoProblem}]
        BY <1>2 DEF ClickClear, TypeOK
    <3>4. QED BY <3>1, <3>2, <3>3
  <2>2. TypeOK'
      BY <1>2, <2>1 DEF ClickClear, stores, history, TypeOK
  <2>3. QED BY <1>2, <2>2, NothingMoves DEF ClickClear, stores, history
<1>3. ASSUME NEW b \in Buttons, Click(t, b) PROVE WellFormed'
  <2>1. PICK d : d = [at |-> "queued", problem |-> selected[t], text |-> question[t],
                      turn |-> IF b = "question" THEN question[t] ELSE fresh',
                      base |-> 0, shown |-> <<>>]
      OBVIOUS
  <2>2. fresh' \in Nat /\ (b # "question" => fresh' \in 0..MaxTurns)
      BY <1>3, BoundsType DEF Click
  <2>3. d \in Call /\ ~Running(d) /\ d.at = "queued"
      BY <2>1, <2>2 DEF Call, Running, TypeOK
  <2>4. Goto(t, b, d) /\ UNCHANGED <<hints, answered, uncounted>>
      BY <1>3, <2>1 DEF Click, Goto, stores, history
  <2>5. CallOK(b, d)'
      BY <2>1, <2>3 DEF CallOK
  <2>6. call' \in [Tabs -> [Buttons -> Call]]
      BY <2>3, <2>4, OneCallChanges DEF Goto, TypeOK
  <2>7. TypeOK'
      BY <1>3, <2>2, <2>6, BoundsType DEF Click, Act, stores, history, bounds, TypeOK
  <2>8. QED BY <2>3, <2>4, <2>5, <2>7, RequestMoves
<1>4. ASSUME NEW p \in Problems, Select(t, p) PROVE WellFormed'
  <2>1. /\ {fresh', moves', faults'} \subseteq Nat
        /\ hurried' \subseteq Tabs
        /\ nav' \in [Tabs -> Seq(Problems)]
    <3>1. fresh' \in Nat /\ moves' \in Nat /\ faults' \in Nat
        BY <1>4, BoundsType DEF Select
    <3>2. hurried' \subseteq Tabs
        BY <1>4 DEF Select, TypeOK
    <3>3. nav[t] \in Seq(Problems) /\ nav \in [Tabs -> Seq(Problems)]
        BY DEF TypeOK
    <3>4. nav[t] # <<>> => Head(nav[t]) \in Problems /\ <<Head(nav[t]), p>> \in Seq(Problems)
        BY <3>3
    <3>5. <<p>> \in Seq(Problems)
        OBVIOUS
    <3>6. nav' \in [Tabs -> Seq(Problems)]
        BY <1>4, <3>3, <3>4, <3>5 DEF Select
    <3>7. QED BY <3>1, <3>2, <3>6
  <2>2. TypeOK'
      BY <1>4, <2>1 DEF Select, stores, history, TypeOK
  <2>3. QED BY <1>4, <2>2, NothingMoves DEF Select, stores, history
<1>5. QED BY <1>1, <1>2, <1>3, <1>4 DEF Learner

\* A refusal writes the page and ends the request.
LEMMA RefuseKeepsWellFormed ==
    ASSUME WellFormed, NEW t \in Tabs, NEW b \in Buttons, call[t][b] # NoCall, Refuse(t, b),
           UNCHANGED <<stores, selected, nav, clearing, history, owed, hurried, fresh, bounds>>
    PROVE  WellFormed'
<1> USE DEF WellFormed
<1>1. call[t][b] \in Call
    BY DEF TypeOK
<1>2. /\ call[t][b].problem \in Problems /\ call[t][b].text \in 0..MaxTurns
    BY <1>1, CallFields
<1>3. Goto(t, b, NoCall) /\ CallOK(b, NoCall)' /\ UNCHANGED <<hints, answered, uncounted>>
    BY DEF Refuse, CallOK, stores, history
<1>4. call' \in [Tabs -> [Buttons -> Call]] /\ OneRuns' /\ CallsOK'
    BY <1>3, NoCallType, OneCallChanges, RequestMoves DEF Goto, TypeOK
<1>5. PICK v : v = Chat(call[t][b].problem, file[call[t][b].problem], 0)
    OBVIOUS
<1>6. chat' = [chat EXCEPT ![t] = v] /\ question' = [question EXCEPT ![t] = call[t][b].text]
    BY <1>5 DEF Refuse
<1>7. v \in [problem: Problems, messages: Seq(Message), pending: 0..MaxTurns]
    BY <1>2, <1>5, ChatType, BoundsType DEF TypeOK
<1>8. TypeOK'
    BY <1>2, <1>4, <1>6, <1>7, BoundsType DEF TypeOK, stores, history, bounds
<1>9. QED BY <1>4, <1>8

\* Storing a turn adds it to those answered.
LEMMA StoreAnswers ==
    ASSUME WellFormed, NEW p \in Problems, NEW n \in Turns,
           answered' = [answered EXCEPT ![p] = Append(@, n)]
    PROVE  /\ answered' \in [Problems -> Seq(Turns)]
           /\ Len(answered'[p]) = Len(answered[p]) + 1
           /\ n \in {answered'[p][i] : i \in DOMAIN answered'[p]}
           /\ TurnsAnswered(p) \subseteq {answered'[p][i] : i \in DOMAIN answered'[p]}
           /\ \A q \in Problems \ {p} : answered'[q] = answered[q]
<1>1. answered \in [Problems -> Seq(Turns)] /\ answered[p] \in Seq(Turns)
    BY DEF WellFormed, TypeOK
<1>2. answered'[p] = Append(answered[p], n) /\ \A q \in Problems \ {p} : answered'[q] = answered[q]
    BY <1>1
<1>3. /\ Len(Append(answered[p], n)) = Len(answered[p]) + 1
      /\ Append(answered[p], n)[Len(answered[p]) + 1] = n
      /\ \A i \in 1..Len(answered[p]) : Append(answered[p], n)[i] = answered[p][i]
      /\ DOMAIN answered[p] = 1..Len(answered[p])
      /\ DOMAIN Append(answered[p], n) = 1..(Len(answered[p]) + 1)
      /\ Append(answered[p], n) \in Seq(Turns)
      /\ Len(answered[p]) \in Nat
    BY <1>1
<1>4. /\ n \in {answered'[p][i] : i \in DOMAIN answered'[p]}
      /\ TurnsAnswered(p) \subseteq {answered'[p][i] : i \in DOMAIN answered'[p]}
    BY <1>2, <1>3 DEF TurnsAnswered
<1>5. answered' \in [Problems -> Seq(Turns)]
    BY <1>1, <1>3
<1>6. QED BY <1>2, <1>3, <1>4, <1>5

\* The request that runs goes on, whatever the page shows.
LEMMA ProceedKeepsWellFormed ==
    ASSUME WellFormed, NEW t \in Tabs, NEW b \in Buttons, Proceed(t, b)
    PROVE  WellFormed'
<1> USE DEF WellFormed
<1>0. PICK c : c = call[t][b]
    OBVIOUS
<1>1. c \in Call /\ c # NoCall
  <2>1. c \in Call
      BY <1>0 DEF TypeOK
  <2>2. CASE Validate(t, b)
      BY <1>0, <2>1, <2>2, NoCallType DEF Validate
  <2>3. CASE RefuseLater(t, b) \/ LoadRequest(t, b)
      BY <1>0, <2>1, <2>3, NoCallType DEF RefuseLater, LoadRequest
  <2>4. CASE StoreTurn(t, b)
      BY <1>0, <2>1, <2>4, NoCallType DEF StoreTurn
  <2>5. CASE CountHint(t, b)
      BY <1>0, <2>1, <2>5, NoCallType DEF CountHint
  <2>6. CASE ShowAnswer(t, b)
      BY <1>0, <2>1, <2>6, NoCallType DEF ShowAnswer
  <2>7. QED BY <2>1, <2>2, <2>3, <2>4, <2>5, <2>6 DEF Proceed
<1>2. /\ c.problem \in Problems /\ c.text \in 0..MaxTurns /\ c.turn \in 0..MaxTurns
      /\ c.base \in Nat /\ c.shown \in Seq(Message) /\ CallOK(b, c)
    BY <1>0, <1>1, CallFields DEF CallsOK
<1>3. BoxAfter(b, c) \in 0..MaxTurns
    BY <1>2, BoundsType DEF BoxAfter
<1>4. /\ file[c.problem] \in Seq(Message) /\ hints[c.problem] \in Nat
      /\ uncounted[c.problem] \in Nat
      /\ hints \in [Problems -> Nat] /\ uncounted \in [Problems -> Nat]
    BY <1>2 DEF TypeOK
<1> USE <1>0
<1>5. CASE Validate(t, b)
  <2>1. SlotFree
      BY <1>5 DEF Validate
  <2>2. CASE Refuse(t, b)
      BY <1>1, <1>5, <2>2, RefuseKeepsWellFormed DEF Validate
  <2>3. CASE /\ c.turn # 0
             /\ chat' = [chat EXCEPT ![t] = Chat(c.problem, file[c.problem], c.turn)]
             /\ question' = [question EXCEPT ![t] = BoxAfter(b, c)]
             /\ Goto(t, b, [c EXCEPT !.at = "validated", !.shown = file[c.problem]])
    <3>1. PICK d : d = [c EXCEPT !.at = "validated", !.shown = file[c.problem]]
        OBVIOUS
    <3>2. /\ d \in Call /\ d.at = "validated"
          /\ d.problem = c.problem /\ d.text = c.text /\ d.turn = c.turn
        BY <1>1, <1>4, <3>1 DEF Call, NoCall
    <3>3. CallOK(b, d)'
        BY <1>1, <1>2, <2>3, <3>2 DEF CallOK
    <3>4. call' \in [Tabs -> [Buttons -> Call]] /\ OneRuns' /\ CallsOK'
        BY <2>1, <2>3, <3>1, <3>2, <3>3, OneCallChanges, RequestMoves DEF Goto, TypeOK
    <3>5. PICK v : v = Chat(c.problem, file[c.problem], c.turn)
        OBVIOUS
    <3>6. v \in [problem: Problems, messages: Seq(Message), pending: 0..MaxTurns]
        BY <1>2, <1>4, <3>5, ChatType
    <3>7. chat' = [chat EXCEPT ![t] = v] /\ question' = [question EXCEPT ![t] = BoxAfter(b, c)]
          /\ UNCHANGED <<stores, selected, nav, clearing, history, owed, hurried, fresh, bounds>>
        BY <1>5, <2>3, <3>5 DEF Validate
    <3>8. TypeOK'
        BY <1>3, <3>4, <3>6, <3>7 DEF TypeOK, stores, history, bounds
    <3>9. QED BY <3>4, <3>8
  <2>4. QED BY <1>5, <2>2, <2>3 DEF Validate
<1>6. CASE RefuseLater(t, b)
    BY <1>1, <1>6, RefuseKeepsWellFormed DEF RefuseLater
<1>7. CASE LoadRequest(t, b)
  <2>1. PICK d : d = [c EXCEPT !.at = "generating", !.base = hints[c.problem]]
      OBVIOUS
  <2>2. /\ d \in Call /\ d.at = "generating" /\ d.base = hints[c.problem]
        /\ d.problem = c.problem /\ d.text = c.text /\ d.turn = c.turn
      BY <1>1, <1>4, <2>1 DEF Call, NoCall
  <2>3. /\ Running(c) /\ Goto(t, b, d)
        /\ UNCHANGED <<stores, selected, chat, question, nav, clearing, history,
                       owed, hurried, fresh, bounds>>
      BY <1>7, <2>1 DEF LoadRequest, Running
  <2>4. CallOK(b, d)'
      BY <1>1, <1>2, <2>2, <2>3 DEF CallOK, stores
  <2>5. call' \in [Tabs -> [Buttons -> Call]] /\ OneRuns' /\ CallsOK'
      BY <2>2, <2>3, <2>4, OneCallChanges, RequestMoves DEF Goto, TypeOK
  <2>6. TypeOK'
      BY <2>3, <2>5 DEF TypeOK, stores, history, bounds
  <2>7. QED BY <2>5, <2>6
<1>8. CASE StoreTurn(t, b)
  <2>1. Running(c) /\ c.at = "generating"
      BY <1>8 DEF StoreTurn, Running
  <2>2. c.turn \in Turns /\ c.base = hints[c.problem]
      BY <1>1, <1>2, <2>1, BoundsType DEF CallOK, Turns
  <2>3. PICK updated : updated = Trimmed(file[c.problem], Pair(c.turn))
      OBVIOUS
  <2>4. updated \in Seq(Message)
      BY <1>4, <2>2, <2>3, TrimmedType
  <2>5. PICK d : d = [c EXCEPT !.at = "appended", !.shown = updated]
      OBVIOUS
  <2>6. /\ d \in Call /\ d.at = "appended" /\ d.base = c.base
        /\ d.problem = c.problem /\ d.text = c.text /\ d.turn = c.turn
      BY <1>1, <2>4, <2>5 DEF Call, NoCall
  <2>7. /\ file' = [file EXCEPT ![c.problem] = updated]
        /\ answered' = [answered EXCEPT ![c.problem] = Append(@, c.turn)]
        /\ uncounted' = [uncounted EXCEPT ![c.problem] = @ + 1]
        /\ Goto(t, b, d)
        /\ UNCHANGED <<hints, selected, chat, question, nav, clearing, owed,
                       hurried, fresh, bounds>>
      BY <1>8, <2>3, <2>5 DEF StoreTurn
  <2>8. answered' \in [Problems -> Seq(Turns)] /\ c.turn \in TurnsAnswered(c.problem)'
    <3>1. PICK p \in Problems, n \in Turns : p = c.problem /\ n = c.turn
        BY <1>2, <2>2
    <3>2. answered' = [answered EXCEPT ![p] = Append(@, n)]
        BY <2>7, <3>1
    <3>3. /\ answered' \in [Problems -> Seq(Turns)]
          /\ n \in {answered'[p][i] : i \in DOMAIN answered'[p]}
        BY <3>2, StoreAnswers
    <3>4. QED BY <3>1, <3>3 DEF TurnsAnswered
  <2>9. uncounted' \in [Problems -> Nat] /\ uncounted'[c.problem] > 0
      BY <1>2, <1>4, <2>7
  <2>10. CallOK(b, d)'
    <3>1. b = "question" => d.turn = d.text
        BY <1>1, <1>2, <2>6 DEF CallOK
    <3>2. d.turn # 0
        BY <2>2, <2>6 DEF Turns
    <3>3. d.base = hints'[d.problem]
        BY <2>2, <2>6, <2>7
    <3>4. d.turn \in TurnsAnswered(d.problem)' /\ uncounted'[d.problem] > 0
        BY <2>6, <2>8, <2>9 DEF TurnsAnswered
    <3>5. QED BY <3>1, <3>2, <3>3, <3>4 DEF CallOK
  <2>11. call' \in [Tabs -> [Buttons -> Call]] /\ OneRuns' /\ CallsOK'
      BY <2>1, <2>6, <2>7, <2>10, OneCallChanges, RequestMoves DEF Goto, TypeOK
  <2>12. TypeOK'
      BY <1>2, <2>4, <2>7, <2>8, <2>9, <2>11 DEF TypeOK, bounds
  <2>13. QED BY <2>11, <2>12
<1>9. CASE CountHint(t, b)
  <2>1. Running(c) /\ c.at = "appended"
      BY <1>9 DEF CountHint, Running
  <2>2. uncounted[c.problem] > 0 /\ c.turn \in TurnsAnswered(c.problem)
      BY <1>1, <1>2, <2>1 DEF CallOK
  <2>3. PICK d : d = [c EXCEPT !.at = "saved"]
      OBVIOUS
  <2>4. /\ d \in Call /\ d.at = "saved"
        /\ d.problem = c.problem /\ d.text = c.text /\ d.turn = c.turn
      BY <1>1, <2>3 DEF Call, NoCall
  <2>5. /\ hints' = [hints EXCEPT ![c.problem] = c.base + 1]
        /\ uncounted' = [uncounted EXCEPT ![c.problem] = @ - 1]
        /\ Goto(t, b, d)
        /\ UNCHANGED <<file, selected, chat, question, nav, clearing, answered,
                       owed, hurried, fresh, bounds>>
      BY <1>9, <2>3 DEF CountHint
  <2>6. hints' \in [Problems -> Nat] /\ uncounted' \in [Problems -> Nat]
      BY <1>2, <1>4, <2>2, <2>5, SMTT(30)
  <2>7. CallOK(b, d)'
      BY <1>1, <1>2, <2>1, <2>2, <2>4, <2>5 DEF CallOK, TurnsAnswered
  <2>8. call' \in [Tabs -> [Buttons -> Call]] /\ OneRuns' /\ CallsOK'
      BY <2>1, <2>4, <2>5, <2>7, OneCallChanges, RequestMoves DEF Goto, TypeOK
  <2>9. TypeOK'
      BY <2>5, <2>6, <2>8 DEF TypeOK, bounds
  <2>10. QED BY <2>8, <2>9
<1>10. CASE ShowAnswer(t, b)
  <2>1. /\ Goto(t, b, NoCall)
        /\ question' = [question EXCEPT ![t] = BoxAfter(b, c)]
        /\ UNCHANGED <<stores, selected, nav, clearing, history, owed, hurried,
                       fresh, bounds>>
      BY <1>10 DEF ShowAnswer
  <2>2. PICK v : v = Chat(c.problem, c.shown, 0)
      OBVIOUS
  <2>3. /\ chat' = [chat EXCEPT ![t] = v]
        /\ v \in [problem: Problems, messages: Seq(Message), pending: 0..MaxTurns]
      BY <1>2, <1>10, <2>2, ChatType, BoundsType DEF ShowAnswer
  <2>4. CallOK(b, NoCall)' /\ UNCHANGED <<hints, answered, uncounted>>
      BY <2>1 DEF CallOK, stores, history
  <2>5. call' \in [Tabs -> [Buttons -> Call]] /\ OneRuns' /\ CallsOK'
      BY <2>1, <2>4, NoCallType, OneCallChanges, RequestMoves DEF Goto, TypeOK
  <2>6. TypeOK'
      BY <1>3, <2>1, <2>3, <2>5 DEF TypeOK, stores, history, bounds
  <2>7. QED BY <2>5, <2>6
<1>11. QED BY <1>5, <1>6, <1>7, <1>8, <1>9, <1>10 DEF Proceed

\* A request that fails to store is gone, and so is everything at a restart.
LEMMA FaultKeepsWellFormed ==
    ASSUME WellFormed,
           Restart \/ \E t \in Tabs, b \in Buttons : FailToStore(t, b)
    PROVE  WellFormed'
<1> USE DEF WellFormed
<1>1. ASSUME NEW t \in Tabs, NEW b \in Buttons, FailToStore(t, b) PROVE WellFormed'
  <2>1. /\ Goto(t, b, NoCall) /\ faults' = faults + 1
        /\ hurried' = hurried \cup {t} /\ owed' = [owed EXCEPT ![t] = 0]
        /\ UNCHANGED <<file, hints, selected, chat, question, nav, clearing, answered,
                       uncounted, fresh, moves>>
      BY <1>1 DEF FailToStore, stores, history
  <2>2. CallOK(b, NoCall)'
      BY DEF CallOK
  <2>3. call' \in [Tabs -> [Buttons -> Call]] /\ OneRuns' /\ CallsOK'
      BY <2>1, <2>2, NoCallType, OneCallChanges, RequestMoves DEF Goto, TypeOK
  <2>4. /\ {fresh', moves', faults'} \subseteq Nat
        /\ hurried' \subseteq Tabs /\ owed' \in [Tabs -> 0..MaxTurns]
    <3>1. fresh' \in Nat /\ moves' \in Nat /\ faults' \in Nat
        BY <2>1, BoundsType
    <3>2. hurried' \subseteq Tabs /\ owed' \in [Tabs -> 0..MaxTurns]
        BY <2>1, BoundsType DEF TypeOK
    <3>3. QED BY <3>1, <3>2
  <2>5. TypeOK'
      BY <2>1, <2>3, <2>4 DEF TypeOK
  <2>6. QED BY <2>3, <2>5
<1>2. ASSUME Restart PROVE WellFormed'
  <2>1. PICK p \in Problems : /\ selected' = [t \in Tabs |-> p]
                              /\ chat' = [t \in Tabs |-> Chat(p, file[p], 0)]
      BY <1>2 DEF Restart
  <2>2. /\ question' = [t \in Tabs |-> 0]
        /\ call' = [t \in Tabs |-> [b \in Buttons |-> NoCall]]
        /\ nav' = [t \in Tabs |-> <<>>]
        /\ clearing' = [t \in Tabs |-> NoProblem]
        /\ owed' = [t \in Tabs |-> 0] /\ hurried' = {} /\ faults' = faults + 1
        /\ UNCHANGED <<file, hints, answered, uncounted, fresh, moves>>
      BY <1>2 DEF Restart, stores, history
  <2>3. Chat(p, file[p], 0)
           \in [problem: Problems, messages: Seq(Message), pending: 0..MaxTurns]
      BY ChatType, BoundsType DEF TypeOK
  <2>4. OneRuns' /\ CallsOK'
      BY <2>2, NoCallType DEF OneRuns, CallsOK, CallOK
  <2>5. {fresh', moves', faults'} \subseteq Nat
    <3>1. fresh' \in Nat /\ moves' \in Nat /\ faults' \in Nat
        BY <2>2, BoundsType
    <3>2. QED BY <3>1
  <2>6. TypeOK'
      BY <2>1, <2>2, <2>3, <2>5, NoCallType, BoundsType DEF TypeOK
  <2>7. QED BY <2>4, <2>6
<1>3. QED BY <1>1, <1>2

\* The other event functions write the page and, when they clear, the file.
LEMMA PageKeepsWellFormed ==
    ASSUME WellFormed, NEW t \in Tabs,
           \/ SelectedProblem(t)
           \/ ClearTutorHistory(t)
           \/ \E b \in Buttons : Tick(t, b)
    PROVE  WellFormed'
<1> USE DEF WellFormed
<1>1. CASE SelectedProblem(t)
  <2>1. PICK p : p = Head(nav[t])
      OBVIOUS
  <2>2. nav[t] \in Seq(Problems) /\ nav[t] # <<>> /\ p \in Problems /\ Tail(nav[t]) \in Seq(Problems)
      BY <1>1, <2>1 DEF SelectedProblem, TypeOK
  <2>3. PICK v : v = Chat(p, file[p], 0)
      OBVIOUS
  <2>4. v \in [problem: Problems, messages: Seq(Message), pending: 0..MaxTurns]
      BY <2>2, <2>3, ChatType, BoundsType DEF TypeOK
  <2>5. chat' = [chat EXCEPT ![t] = v] /\ nav' = [nav EXCEPT ![t] = Tail(@)]
      BY <1>1, <2>1, <2>3 DEF SelectedProblem
  <2>6. TypeOK'
      BY <1>1, <2>2, <2>4, <2>5 DEF SelectedProblem, TypeOK, stores, history, bounds
  <2>7. QED BY <1>1, <2>6, NothingMoves DEF SelectedProblem, stores, history
<1>2. CASE ClearTutorHistory(t)
  <2>1. PICK p : p = clearing[t]
      OBVIOUS
  <2>2. p \in Problems
      BY <1>2, <2>1 DEF ClearTutorHistory, TypeOK
  <2>3. PICK v : v = Chat(p, <<>>, 0)
      OBVIOUS
  <2>4. v \in [problem: Problems, messages: Seq(Message), pending: 0..MaxTurns]
    <3>1. <<>> \in Seq(Message)
        OBVIOUS
    <3>2. QED BY <2>2, <2>3, <3>1, ChatType, BoundsType
  <2>5. /\ file' = [file EXCEPT ![p] = <<>>] /\ chat' = [chat EXCEPT ![t] = v]
        /\ clearing' = [clearing EXCEPT ![t] = NoProblem]
        /\ UNCHANGED <<hints, selected, question, call, nav, answered, uncounted,
                       owed, hurried, fresh, moves, faults>>
      BY <1>2, <2>1, <2>3 DEF ClearTutorHistory, history, bounds
  <2>6. file' \in [Problems -> Seq(Message)]
    <3>1. <<>> \in Seq(Message)
        OBVIOUS
    <3>2. QED BY <2>5, <3>1 DEF TypeOK
  <2>7. TypeOK'
      BY <2>4, <2>5, <2>6 DEF TypeOK
  <2>8. QED BY <2>5, <2>7, NothingMoves
<1>3. ASSUME NEW b \in Buttons, Tick(t, b) PROVE WellFormed'
  <2>1. PICK c : c = call[t][b]
      OBVIOUS
  <2>2. c \in Call /\ c # NoCall
      BY <1>3, <2>1, NoCallType DEF Tick, TypeOK
  <2>3. /\ c.problem \in Problems /\ c.turn \in 0..MaxTurns /\ c.shown \in Seq(Message)
        /\ BoxAfter(b, c) \in 0..MaxTurns
      BY <2>2, CallFields, BoundsType DEF BoxAfter
  <2>4. PICK v : v = Chat(c.problem, c.shown, c.turn)
      OBVIOUS
  <2>5. v \in [problem: Problems, messages: Seq(Message), pending: 0..MaxTurns]
      BY <2>3, <2>4, ChatType
  <2>6. /\ chat' = [chat EXCEPT ![t] = v] /\ question' = [question EXCEPT ![t] = BoxAfter(b, c)]
        /\ UNCHANGED <<file, hints, selected, call, nav, clearing, answered, uncounted,
                       owed, hurried, fresh, moves, faults>>
      BY <1>3, <2>1, <2>4 DEF Tick, stores, history, bounds
  <2>7. TypeOK'
      BY <2>3, <2>5, <2>6 DEF TypeOK
  <2>8. QED BY <2>6, <2>7, NothingMoves
<1>4. QED BY <1>1, <1>2, <1>3

LEMMA WellFormedStep == WellFormed /\ [Next]_vars => WellFormed'
<1> SUFFICES ASSUME WellFormed, [Next]_vars PROVE WellFormed'
    OBVIOUS
<1>1. CASE UNCHANGED vars
  <2>1. TypeOK'
      BY <1>1 DEF WellFormed, TypeOK, vars
  <2>2. QED BY <1>1, <2>1, NothingMoves DEF WellFormed, vars
<1>2. QED
    BY <1>1, LearnerKeepsWellFormed, ProceedKeepsWellFormed, PageKeepsWellFormed,
       FaultKeepsWellFormed DEF Next

\* Type correctness of every reachable state.
THEOREM TypeCorrect == Spec => []TypeOK
<1>1. WellFormed => TypeOK
    BY DEF WellFormed
<1>2. QED BY <1>1, WellFormedInit, WellFormedStep, PTL DEF Spec

-----------------------------------------------------------------------------
(* Every hint is counted, unless its log could not be saved *)

LEMMA CountTypes ==
    ASSUME WellFormed
    PROVE  /\ call \in [Tabs -> [Buttons -> Call]]
           /\ \A t \in Tabs, b \in Buttons : CallOK(b, call[t][b]) /\ call[t][b] \in Call
           /\ hints \in [Problems -> Nat] /\ uncounted \in [Problems -> Nat]
           /\ answered \in [Problems -> Seq(Turns)]
           /\ \A p \in Problems : Len(answered[p]) \in Nat
           /\ faults \in Nat
BY BoundsType DEF WellFormed, TypeOK, CallsOK

\* A step that stores or counts nothing.
LEMMA CountsKept ==
    ASSUME WellFormed, Counting, UNCHANGED <<hints, answered, uncounted, faults>>,
           \A p \in Problems : AwaitsCount(p) => AwaitsCount(p)'
    PROVE  Counting'
<1>1. ASSUME NEW p \in Problems
      PROVE  uncounted'[p] <= faults' + (IF AwaitsCount(p)' THEN 1 ELSE 0)
  <2>1. CASE AwaitsCount(p)
      BY <2>1 DEF Counting
  <2>2. CASE ~AwaitsCount(p) /\ ~AwaitsCount(p)'
      BY <2>2 DEF Counting
  <2>3. CASE ~AwaitsCount(p) /\ AwaitsCount(p)'
    <3>1. uncounted[p] <= faults
        BY <2>3, CountTypes DEF Counting
    <3>2. QED BY <2>3, <3>1, CountTypes
  <2>4. QED BY <2>1, <2>2, <2>3
<1>2. QED BY <1>1 DEF Counting

\* A request moves between two steps neither of which awaits the count.
LEMMA OthersStillAwait ==
    ASSUME WellFormed, NEW t \in Tabs, NEW b \in Buttons, NEW d \in Call, Goto(t, b, d),
           call[t][b].at # "appended"
    PROVE  \A p \in Problems : AwaitsCount(p) => AwaitsCount(p)'
<1>1. \A u \in Tabs, a \in Buttons : u # t \/ a # b => call'[u][a] = call[u][a]
    BY OneCallChanges DEF Goto, WellFormed, TypeOK
<1>2. QED BY <1>1 DEF AwaitsCount

LEMMA CountingStep ==
    ASSUME WellFormed, Counting, [Next]_vars
    PROVE  Counting'
<1>1. ASSUME UNCHANGED <<call, hints, answered, uncounted, faults>> PROVE Counting'
  <2>1. \A p \in Problems : AwaitsCount(p) => AwaitsCount(p)'
      BY <1>1 DEF AwaitsCount
  <2>2. QED BY <1>1, <2>1, CountsKept
<1>2. ASSUME NEW t \in Tabs, NEW b \in Buttons, NEW d \in Call, Goto(t, b, d),
             call[t][b].at # "appended", UNCHANGED <<hints, answered, uncounted, faults>>
      PROVE  Counting'
    BY <1>2, OthersStillAwait, CountsKept
<1>3. ASSUME NEW t \in Tabs, Learner(t) PROVE Counting'
  <2>1. ASSUME NEW b \in Buttons, Click(t, b) PROVE Counting'
    <3>1. PICK d : d = [at |-> "queued", problem |-> selected[t], text |-> question[t],
                        turn |-> IF b = "question" THEN question[t] ELSE fresh',
                        base |-> 0, shown |-> <<>>]
        OBVIOUS
    <3>2. /\ Goto(t, b, d) /\ UNCHANGED <<hints, answered, uncounted, faults>>
          /\ call[t][b].at # "appended"
        BY <2>1, <3>1, NoCallType DEF Click, Goto, stores, history, bounds
    <3>3. fresh' \in Nat /\ (b # "question" => fresh' \in 0..MaxTurns)
        BY <2>1, BoundsType DEF Click, WellFormed
    <3>4. d \in Call
        BY <3>1, <3>3 DEF Call, WellFormed, TypeOK
    <3>5. QED BY <1>2, <3>2, <3>4
  <2>2. QED
      BY <1>1, <1>3, <2>1 DEF Learner, Type, ClickClear, Select, stores, history, bounds
<1>4. ASSUME NEW t \in Tabs, SelectedProblem(t) \/ ClearTutorHistory(t) \/ \E b \in Buttons : Tick(t, b)
      PROVE  Counting'
    BY <1>1, <1>4 DEF SelectedProblem, ClearTutorHistory, Tick, stores, history, bounds
<1>5. ASSUME NEW t \in Tabs, NEW b \in Buttons, Proceed(t, b),
             ~StoreTurn(t, b), ~CountHint(t, b)
      PROVE  Counting'
  <2>1. PICK d : Goto(t, b, d)
      BY <1>5 DEF Proceed, Validate, Refuse, RefuseLater, LoadRequest, ShowAnswer
  <2>2. /\ call[t][b].at # "appended" /\ UNCHANGED <<hints, answered, uncounted, faults>>
      BY <1>5 DEF Proceed, Validate, RefuseLater, LoadRequest, ShowAnswer, stores, history, bounds
  <2>3. \A u \in Tabs, a \in Buttons : u # t \/ a # b => call'[u][a] = call[u][a]
      BY <2>1, CountTypes DEF Goto
  <2>4. \A p \in Problems : AwaitsCount(p) => AwaitsCount(p)'
      BY <2>2, <2>3 DEF AwaitsCount
  <2>5. QED BY <2>2, <2>4, CountsKept
<1>6. ASSUME NEW t \in Tabs, NEW b \in Buttons, StoreTurn(t, b) PROVE Counting'
  <2>1. PICK c : c = call[t][b]
      OBVIOUS
  <2>2. /\ c \in Call /\ c # NoCall /\ Running(c) /\ c.at = "generating"
        /\ c.problem \in Problems /\ c.turn \in Turns
    <3>1. c \in Call /\ c # NoCall /\ Running(c) /\ c.at = "generating" /\ CallOK(b, c)
        BY <1>6, <2>1, CountTypes, NoCallType DEF StoreTurn, Running
    <3>2. QED BY <3>1, CallFields, BoundsType DEF CallOK, Turns
  <2>3. PICK p \in Problems, n \in Turns : p = c.problem /\ n = c.turn
      BY <2>2
  <2>4. \A q \in Problems : ~AwaitsCount(q)
      BY <2>1, <2>2 DEF AwaitsCount, WellFormed, OneRuns, Running
  <2>5. /\ answered' = [answered EXCEPT ![p] = Append(@, n)]
        /\ uncounted' = [uncounted EXCEPT ![p] = @ + 1]
        /\ UNCHANGED <<hints, faults>>
      BY <1>6, <2>1, <2>3 DEF StoreTurn, bounds
  <2>6. AwaitsCount(p)'
    <3>1. PICK d : d = [c EXCEPT !.at = "appended",
                                 !.shown = Trimmed(file[c.problem], Pair(c.turn))]
        OBVIOUS
    <3>2. Goto(t, b, d) /\ d.at = "appended" /\ d.problem = p
        BY <1>6, <2>1, <2>2, <2>3, <3>1 DEF StoreTurn, Call, NoCall
    <3>3. call'[t][b] = d
        BY <3>2, CountTypes DEF Goto
    <3>4. QED BY <3>2, <3>3 DEF AwaitsCount
  <2>7. /\ Len(answered'[p]) = Len(answered[p]) + 1
        /\ uncounted'[p] = uncounted[p] + 1
        /\ \A q \in Problems \ {p} : answered'[q] = answered[q] /\ uncounted'[q] = uncounted[q]
      BY <2>5, StoreAnswers, CountTypes
  <2>8. ASSUME NEW q \in Problems
        PROVE  /\ hints'[q] + uncounted'[q] = Len(answered'[q])
               /\ uncounted'[q] <= faults' + (IF AwaitsCount(q)' THEN 1 ELSE 0)
    <3>1. /\ hints[q] + uncounted[q] = Len(answered[q]) /\ uncounted[q] <= faults
          /\ hints[q] \in Nat /\ uncounted[q] \in Nat /\ faults \in Nat
          /\ Len(answered[q]) \in Nat
        BY <2>4, CountTypes DEF Counting
    <3>2. QED BY <2>5, <2>6, <2>7, <3>1, SMTT(30)
  <2>9. QED BY <2>8 DEF Counting
<1>7. ASSUME NEW t \in Tabs, NEW b \in Buttons, CountHint(t, b) PROVE Counting'
  <2>1. PICK c : c = call[t][b]
      OBVIOUS
  <2>2. /\ c \in Call /\ c # NoCall /\ Running(c) /\ c.at = "appended"
        /\ c.problem \in Problems /\ c.base = hints[c.problem] /\ uncounted[c.problem] > 0
    <3>1. c \in Call /\ c # NoCall /\ Running(c) /\ c.at = "appended" /\ CallOK(b, c)
        BY <1>7, <2>1, CountTypes, NoCallType DEF CountHint, Running
    <3>2. QED BY <3>1, CallFields DEF CallOK
  <2>3. PICK p \in Problems : p = c.problem
      BY <2>2
  <2>4. AwaitsCount(p) /\ \A q \in Problems \ {p} : ~AwaitsCount(q)
      BY <2>1, <2>2, <2>3 DEF AwaitsCount, WellFormed, OneRuns, Running
  <2>5. /\ hints' = [hints EXCEPT ![p] = c.base + 1]
        /\ uncounted' = [uncounted EXCEPT ![p] = @ - 1]
        /\ UNCHANGED <<answered, faults>>
      BY <1>7, <2>1, <2>3 DEF CountHint, bounds
  <2>6. /\ hints'[p] = hints[p] + 1 /\ uncounted'[p] = uncounted[p] - 1
        /\ \A q \in Problems \ {p} : hints'[q] = hints[q] /\ uncounted'[q] = uncounted[q]
      BY <2>2, <2>3, <2>5, CountTypes
  <2>7. ASSUME NEW q \in Problems
        PROVE  /\ hints'[q] + uncounted'[q] = Len(answered'[q])
               /\ uncounted'[q] <= faults'
    <3>1. /\ hints[q] + uncounted[q] = Len(answered[q])
          /\ uncounted[q] <= faults + (IF q = p THEN 1 ELSE 0)
          /\ hints[q] \in Nat /\ uncounted[q] \in Nat /\ faults \in Nat
          /\ Len(answered[q]) \in Nat
        BY <2>4, CountTypes DEF Counting
    <3>2. QED BY <2>5, <2>6, <3>1
  <2>8. \A q \in Problems : uncounted'[q] <= faults' + (IF AwaitsCount(q)' THEN 1 ELSE 0)
    <3>1. \A q \in Problems : uncounted'[q] \in Nat /\ faults' \in Nat
        BY <2>2, <2>3, <2>5, CountTypes
    <3>2. QED BY <2>7, <3>1
  <2>9. QED BY <2>7, <2>8 DEF Counting
<1>8. ASSUME Restart \/ \E t \in Tabs, b \in Buttons : FailToStore(t, b) PROVE Counting'
  <2>1. faults' = faults + 1 /\ UNCHANGED <<hints, answered, uncounted>>
      BY <1>8 DEF Restart, FailToStore, stores, history
  <2>2. ASSUME NEW p \in Problems
        PROVE  uncounted'[p] <= faults' + (IF AwaitsCount(p)' THEN 1 ELSE 0)
    <3>1. uncounted[p] <= faults + 1 /\ uncounted[p] \in Nat /\ faults \in Nat
        BY CountTypes DEF Counting
    <3>2. QED BY <2>1, <3>1
  <2>3. QED BY <2>1, <2>2 DEF Counting
<1>9. QED
    BY <1>1, <1>3, <1>4, <1>5, <1>6, <1>7, <1>8 DEF Next, vars

\* A hint that was stored is counted unless its log could not be saved, and
\* none is counted that the conversation never had, however many tabs ask: the
\* one place in the queue is what keeps the loaded count true (request_hint).
THEOREM HintsAreCounted == Spec => []CountedUnlessFailed
<1> DEFINE IInv == WellFormed /\ Counting
<1>1. Init => IInv
  <2>1. Init => Counting
      BY TutorAssumption DEF Init, Counting
  <2>2. QED BY <2>1, WellFormedInit
<1>2. IInv /\ [Next]_vars => IInv'
    BY WellFormedStep, CountingStep
<1>3. IInv => CountedUnlessFailed
  <2> SUFFICES ASSUME WellFormed, Counting, NEW p \in Problems
               PROVE  /\ hints[p] + uncounted[p] = Len(answered[p])
                      /\ uncounted[p] <= faults +
                           Cardinality({x \in Tabs \X Buttons :
                                           /\ call[x[1]][x[2]].at = "appended"
                                           /\ call[x[1]][x[2]].problem = p})
      BY DEF CountedUnlessFailed
  <2> DEFINE S == {x \in Tabs \X Buttons : /\ call[x[1]][x[2]].at = "appended"
                                           /\ call[x[1]][x[2]].problem = p}
  <2>1. CASE AwaitsCount(p)
    <3>1. PICK t \in Tabs, b \in Buttons :
             call[t][b].at = "appended" /\ call[t][b].problem = p
        BY <2>1 DEF AwaitsCount
    <3>2. S = {<<t, b>>}
        BY <3>1 DEF WellFormed, OneRuns, Running
    <3>3. Cardinality(S) = 1
        BY <3>2, FS_Singleton
    <3>4. QED BY <2>1, <3>3 DEF Counting
  <2>2. CASE ~AwaitsCount(p)
    <3>1. S = {}
        BY <2>2 DEF AwaitsCount
    <3>2. Cardinality(S) = 0
        BY <3>1, FS_EmptySet
    <3>3. QED BY <2>2, <3>2 DEF Counting
  <2>3. QED BY <2>1, <2>2
<1>4. QED BY <1>1, <1>2, <1>3, PTL DEF Spec

-----------------------------------------------------------------------------
(* What a learner who waits sees, and the question that was written *)

\* No two requests of one tab are in progress.
OneRequest(t) ==
    \A a, b \in Buttons : call[t][a] # NoCall /\ call[t][b] # NoCall => a = b

\* In the tab of a learner who waits at most one thing is in progress, and it
\* is about the problem that is selected.
PatientTab(t) ==
    t \notin hurried =>
        /\ nav[t] \in {<<>>, <<selected[t]>>}
        /\ clearing[t] \in {NoProblem, selected[t]}
        /\ \A b \in Buttons : call[t][b] # NoCall => call[t][b].problem = selected[t]
        /\ OneRequest(t)
        /\ nav[t] # <<>> => clearing[t] = NoProblem
        /\ nav[t] # <<>> \/ clearing[t] # NoProblem => \A b \in Buttons : call[t][b] = NoCall
        /\ Quiet(t) => chat[t].problem = selected[t] /\ chat[t].pending = 0

\* The question that is owed is in the box while no request is in progress, or
\* it is the text that came with the one request that is.
OwedKept(t) ==
    owed[t] # 0 =>
        /\ OneRequest(t)
        /\ \/ \E p \in Problems : owed[t] \in TurnsAnswered(p)
           \/ owed[t] = question[t] /\ \A b \in Buttons : call[t][b] = NoCall
           \/ \E b \in Buttons : call[t][b] # NoCall /\ owed[t] = call[t][b].text

PagesOK == \A t \in Tabs : PatientTab(t) /\ OwedKept(t)

\* A step in one tab leaves the other tabs alone.
LEMMA OtherTabsKept ==
    ASSUME PagesOK, NEW t \in Tabs,
           \A u \in Tabs \ {t} :
               /\ call'[u] = call[u] /\ nav'[u] = nav[u] /\ clearing'[u] = clearing[u]
               /\ selected'[u] = selected[u] /\ chat'[u] = chat[u]
               /\ question'[u] = question[u] /\ owed'[u] = owed[u]
               /\ u \in hurried' <=> u \in hurried,
           \A p \in Problems : TurnsAnswered(p) \subseteq TurnsAnswered(p)',
           PatientTab(t)', OwedKept(t)'
    PROVE  PagesOK'
<1>1. ASSUME NEW u \in Tabs \ {t} PROVE PatientTab(u)' /\ OwedKept(u)'
  <2>1. PatientTab(u)'
      BY DEF PagesOK, PatientTab, OneRequest, Quiet
  <2>2. OwedKept(u)'
      BY DEF PagesOK, OwedKept, OneRequest
  <2>3. QED BY <2>1, <2>2
<1>2. QED BY <1>1 DEF PagesOK

\* A step of a request: it goes on with the same text about the same problem, or
\* it ends and shows the conversation, with the text given back unless it was
\* answered.
LEMMA RequestStep ==
    ASSUME WellFormed, NEW t \in Tabs, NEW b \in Buttons, Proceed(t, b)
    PROVE  \E c \in Call, d \in Call :
             /\ c = call[t][b] /\ c # NoCall
             /\ Goto(t, b, d)
             /\ \/ d # NoCall /\ d.problem = c.problem /\ d.text = c.text
                \/ /\ d = NoCall
                   /\ chat'[t].problem = c.problem /\ chat'[t].pending = 0
                   /\ \/ question'[t] = c.text
                      \/ c.text \in TurnsAnswered(c.problem)
             /\ UNCHANGED <<selected, nav, clearing, owed, hurried>>
             /\ \A u \in Tabs \ {t} : chat'[u] = chat[u] /\ question'[u] = question[u]
             /\ \A p \in Problems : TurnsAnswered(p) \subseteq TurnsAnswered(p)'
<1>1. PICK c \in Call : c = call[t][b]
    BY CountTypes
<1>2. c # NoCall /\ c.problem \in Problems /\ CallOK(b, c)
  <2>1. c # NoCall /\ CallOK(b, c)
      BY <1>1, CountTypes, NoCallType
         DEF Proceed, Validate, RefuseLater, LoadRequest, StoreTurn, CountHint, ShowAnswer
  <2>2. QED BY <2>1, CallFields
<1>3. chat \in [Tabs -> [problem: Problems, messages: Seq(Message), pending: 0..MaxTurns]]
      /\ question \in [Tabs -> 0..MaxTurns]
    BY DEF WellFormed, TypeOK
<1> DEFINE Framed == /\ UNCHANGED <<selected, nav, clearing, owed, hurried>>
                     /\ \A u \in Tabs \ {t} : chat'[u] = chat[u] /\ question'[u] = question[u]
                     /\ \A p \in Problems : TurnsAnswered(p) \subseteq TurnsAnswered(p)'
           Ends == /\ Goto(t, b, NoCall)
                   /\ chat'[t].problem = c.problem /\ chat'[t].pending = 0
                   /\ \/ question'[t] = c.text
                      \/ c.text \in TurnsAnswered(c.problem)
           GoesOn(d) == Goto(t, b, d) /\ d # NoCall /\ d.problem = c.problem /\ d.text = c.text
<1>4. Framed
  <2>1. UNCHANGED <<selected, nav, clearing, owed, hurried>>
        /\ \A u \in Tabs \ {t} : chat'[u] = chat[u] /\ question'[u] = question[u]
      BY <1>3 DEF Proceed, Validate, Refuse, RefuseLater, LoadRequest, StoreTurn, CountHint,
                  ShowAnswer
  <2>2. \A p \in Problems : TurnsAnswered(p) \subseteq TurnsAnswered(p)'
    <3>1. CASE StoreTurn(t, b)
      <4>1. c.turn \in Turns /\ answered' = [answered EXCEPT ![c.problem] = Append(@, c.turn)]
        <5>1. Running(c) /\ c.turn # 0
            BY <1>1, <1>2, <3>1 DEF StoreTurn, Running, CallOK
        <5>2. QED BY <1>1, <1>2, <3>1, <5>1, CallFields, BoundsType DEF StoreTurn, Turns
      <4>2. PICK p \in Problems, n \in Turns : p = c.problem /\ n = c.turn
          BY <1>2, <4>1
      <4>3. answered' = [answered EXCEPT ![p] = Append(@, n)]
          BY <4>1, <4>2
      <4>4. QED BY <4>3, StoreAnswers DEF TurnsAnswered
    <3>2. CASE answered' = answered
        BY <3>2 DEF TurnsAnswered
    <3>3. QED
        BY <3>1, <3>2 DEF Proceed, Validate, RefuseLater, LoadRequest, CountHint, ShowAnswer,
                          history
  <2>3. QED BY <2>1, <2>2
<1>5. ASSUME Refuse(t, b) PROVE Ends
    BY <1>1, <1>3, <1>5 DEF Refuse, Chat
<1>6. CASE Validate(t, b)
  <2>1. CASE Refuse(t, b)
      BY <1>1, <1>2, <1>4, <1>5, <2>1, NoCallType
  <2>2. CASE Goto(t, b, [c EXCEPT !.at = "validated", !.shown = file[c.problem]])
    <3>1. PICK d : d = [c EXCEPT !.at = "validated", !.shown = file[c.problem]]
        OBVIOUS
    <3>2. d \in Call /\ GoesOn(d)
        BY <1>2, <2>2, <3>1 DEF Call, NoCall, WellFormed, TypeOK
    <3>3. QED BY <1>1, <1>2, <1>4, <3>2
  <2>3. QED BY <1>1, <1>6, <2>1, <2>2 DEF Validate
<1>7. CASE RefuseLater(t, b)
    BY <1>1, <1>2, <1>4, <1>5, <1>7, NoCallType DEF RefuseLater
<1>8. CASE LoadRequest(t, b)
  <2>1. PICK d : d = [c EXCEPT !.at = "generating", !.base = hints[c.problem]]
      OBVIOUS
  <2>2. d \in Call /\ GoesOn(d)
      BY <1>1, <1>2, <1>8, <2>1 DEF LoadRequest, Call, NoCall, WellFormed, TypeOK
  <2>3. QED BY <1>1, <1>2, <1>4, <2>2
<1>9. CASE StoreTurn(t, b)
  <2>1. PICK s \in Seq(Message) : s = Trimmed(file[c.problem], Pair(c.turn))
    <3>1. c.turn # 0
        BY <1>1, <1>2, <1>9 DEF StoreTurn, Running, CallOK
    <3>2. c.turn \in Turns
        BY <1>2, <3>1, CallFields, BoundsType DEF Turns
    <3>3. QED BY <1>2, <3>2, TrimmedType DEF WellFormed, TypeOK
  <2>2. PICK d : d = [c EXCEPT !.at = "appended", !.shown = s]
      OBVIOUS
  <2>3. d \in Call /\ GoesOn(d)
      BY <1>1, <1>2, <1>9, <2>1, <2>2 DEF StoreTurn, Call, NoCall
  <2>4. QED BY <1>1, <1>2, <1>4, <2>3
<1>10. CASE CountHint(t, b)
  <2>1. PICK d : d = [c EXCEPT !.at = "saved"]
      OBVIOUS
  <2>2. d \in Call /\ GoesOn(d)
      BY <1>1, <1>2, <1>10, <2>1 DEF CountHint, Call, NoCall
  <2>3. QED BY <1>1, <1>2, <1>4, <2>2
<1>11. CASE ShowAnswer(t, b)
  <2>1. c.at = "saved" /\ Goto(t, b, NoCall) /\ question'[t] = BoxAfter(b, c)
        /\ chat'[t].problem = c.problem /\ chat'[t].pending = 0
      BY <1>1, <1>3, <1>11 DEF ShowAnswer, Chat
  <2>2. question'[t] = c.text \/ c.text \in TurnsAnswered(c.problem)
      BY <1>2, <2>1 DEF BoxAfter, CallOK
  <2>3. QED BY <1>1, <1>2, <1>4, <2>1, <2>2, NoCallType
<1>12. QED BY <1>6, <1>7, <1>8, <1>9, <1>10, <1>11 DEF Proceed

LEMMA TabTypes ==
    ASSUME WellFormed
    PROVE  /\ selected \in [Tabs -> Problems] /\ question \in [Tabs -> 0..MaxTurns]
           /\ chat \in [Tabs -> [problem: Problems, messages: Seq(Message),
                                 pending: 0..MaxTurns]]
           /\ nav \in [Tabs -> Seq(Problems)]
           /\ clearing \in [Tabs -> Problems \cup {NoProblem}]
           /\ owed \in [Tabs -> 0..MaxTurns]
           /\ call \in [Tabs -> [Buttons -> Call]]
BY DEF WellFormed, TypeOK

LEMMA LearnerKeepsPages ==
    ASSUME WellFormed, PagesOK, NEW t \in Tabs, Learner(t)
    PROVE  PagesOK'
<1> USE TabTypes
<1>0. PatientTab(t) /\ OwedKept(t)
    BY DEF PagesOK
<1>1. CASE Type(t)
  <2>1. /\ UNCHANGED <<selected, chat, call, nav, clearing, answered>>
        /\ hurried' = IF Quiet(t) THEN hurried ELSE hurried \cup {t}
        /\ question'[t] = fresh' /\ owed'[t] = IF Quiet(t) THEN fresh' ELSE 0
        /\ \A u \in Tabs \ {t} : question'[u] = question[u] /\ owed'[u] = owed[u]
      BY <1>1, BoundsType DEF Type, Act, history
  <2>2. PatientTab(t)'
      BY <1>0, <2>1 DEF PatientTab, OneRequest, Quiet
  <2>3. OwedKept(t)'
      BY <2>1 DEF OwedKept, OneRequest, Quiet
  <2>4. QED BY <2>1, <2>2, <2>3, OtherTabsKept DEF TurnsAnswered
<1>2. CASE ClickClear(t)
  <2>1. /\ UNCHANGED <<selected, chat, question, call, nav, answered, owed>>
        /\ hurried' = IF Quiet(t) THEN hurried ELSE hurried \cup {t}
        /\ clearing'[t] = selected[t]
        /\ \A u \in Tabs \ {t} : clearing'[u] = clearing[u]
      BY <1>2 DEF ClickClear, Act, history
  <2>2. PatientTab(t)'
      BY <1>0, <2>1 DEF PatientTab, OneRequest, Quiet
  <2>3. OwedKept(t)'
      BY <1>0, <2>1 DEF OwedKept, OneRequest, TurnsAnswered
  <2>4. QED BY <2>1, <2>2, <2>3, OtherTabsKept DEF TurnsAnswered
<1>3. ASSUME NEW b \in Buttons, Click(t, b) PROVE PagesOK'
  <2>1. PICK d : d = [at |-> "queued", problem |-> selected[t], text |-> question[t],
                      turn |-> IF b = "question" THEN question[t] ELSE fresh',
                      base |-> 0, shown |-> <<>>]
      OBVIOUS
  <2>2. /\ UNCHANGED <<selected, chat, question, nav, clearing, answered>>
        /\ hurried' = IF Quiet(t) THEN hurried ELSE hurried \cup {t}
        /\ owed'[t] = IF Quiet(t) THEN owed[t] ELSE 0
        /\ \A u \in Tabs \ {t} : owed'[u] = owed[u]
        /\ call' = [call EXCEPT ![t][b] = d]
      BY <1>3, <2>1 DEF Click, Act, history
  <2>3. /\ call'[t][b] = d /\ \A a \in Buttons \ {b} : call'[t][a] = call[t][a]
        /\ \A u \in Tabs \ {t} : call'[u] = call[u]
      BY <2>2
  <2>4. d # NoCall /\ d.problem = selected[t] /\ d.text = question[t]
      BY <2>1 DEF NoCall
  <2>5. PatientTab(t)'
      BY <1>0, <2>2, <2>3, <2>4 DEF PatientTab, OneRequest, Quiet
  <2>6. OwedKept(t)'
    <3>1. CASE ~Quiet(t)
        BY <2>2, <3>1 DEF OwedKept
    <3>2. CASE Quiet(t)
      <4>1. \A a \in Buttons \ {b} : call'[t][a] = NoCall
          BY <2>3, <3>2 DEF Quiet
      <4>2. OneRequest(t)'
          BY <4>1 DEF OneRequest
      <4>3. owed[t] # 0 =>
              \/ \E p \in Problems : owed[t] \in TurnsAnswered(p)
              \/ owed[t] = question[t]
          BY <1>0, <3>2 DEF OwedKept, Quiet
      <4>4. QED BY <2>2, <2>3, <2>4, <3>2, <4>2, <4>3 DEF OwedKept, TurnsAnswered
    <3>3. QED BY <3>1, <3>2
  <2>7. /\ \A u \in Tabs \ {t} : u \in hurried' <=> u \in hurried
        /\ \A p \in Problems : TurnsAnswered(p) \subseteq TurnsAnswered(p)'
      BY <2>2 DEF TurnsAnswered
  <2>8. /\ UNCHANGED <<selected, chat, question, nav, clearing>>
        /\ \A u \in Tabs \ {t} : owed'[u] = owed[u]
      BY <2>2
  <2>9. QED BY <2>3, <2>5, <2>6, <2>7, <2>8, OtherTabsKept
<1>4. ASSUME NEW p \in Problems, Select(t, p) PROVE PagesOK'
  <2>1. /\ UNCHANGED <<chat, question, call, clearing, answered, owed>>
        /\ hurried' = IF Quiet(t) THEN hurried \ {t} ELSE hurried \cup {t}
        /\ selected'[t] = p
        /\ nav'[t] = IF nav[t] = <<>> THEN <<p>> ELSE <<Head(nav[t]), p>>
        /\ \A u \in Tabs \ {t} : selected'[u] = selected[u] /\ nav'[u] = nav[u]
      BY <1>4 DEF Select, history
  <2>2. PatientTab(t)'
    <3>1. CASE Quiet(t)
      <4>1. nav'[t] = <<p>> /\ nav'[t] # <<>>
          BY <2>1, <3>1 DEF Quiet
      <4>2. QED BY <2>1, <3>1, <4>1 DEF PatientTab, OneRequest, Quiet
    <3>2. CASE ~Quiet(t)
        BY <2>1, <3>2 DEF PatientTab
    <3>3. QED BY <3>1, <3>2
  <2>3. OwedKept(t)'
      BY <1>0, <2>1 DEF OwedKept, OneRequest, TurnsAnswered
  <2>4. QED BY <2>1, <2>2, <2>3, OtherTabsKept DEF TurnsAnswered
<1>5. QED BY <1>1, <1>2, <1>3, <1>4 DEF Learner

LEMMA PageEventsKeepPages ==
    ASSUME WellFormed, PagesOK, NEW t \in Tabs,
           \/ SelectedProblem(t)
           \/ ClearTutorHistory(t)
           \/ \E b \in Buttons : Tick(t, b)
    PROVE  PagesOK'
<1> USE TabTypes
<1>0. PatientTab(t) /\ OwedKept(t)
    BY DEF PagesOK
<1>1. CASE SelectedProblem(t)
  <2>1. /\ nav[t] # <<>>
        /\ UNCHANGED <<selected, question, call, clearing, answered, owed, hurried>>
        /\ chat'[t].problem = Head(nav[t]) /\ chat'[t].pending = 0
        /\ nav'[t] = Tail(nav[t])
        /\ \A u \in Tabs \ {t} : chat'[u] = chat[u] /\ nav'[u] = nav[u]
      BY <1>1 DEF SelectedProblem, Chat, history
  <2>2. ASSUME t \notin hurried
        PROVE  nav'[t] = <<>> /\ chat'[t].problem = selected[t]
    <3>1. nav[t] = <<selected[t]>>
        BY <1>0, <2>1, <2>2 DEF PatientTab
    <3>2. QED BY <2>1, <3>1
  <2>3. PatientTab(t)'
      BY <1>0, <2>1, <2>2 DEF PatientTab, OneRequest, Quiet
  <2>4. OwedKept(t)'
      BY <1>0, <2>1 DEF OwedKept, OneRequest, TurnsAnswered
  <2>5. QED BY <2>1, <2>3, <2>4, OtherTabsKept DEF TurnsAnswered
<1>2. CASE ClearTutorHistory(t)
  <2>1. /\ clearing[t] # NoProblem
        /\ UNCHANGED <<selected, question, call, nav, answered, owed, hurried>>
        /\ chat'[t].problem = clearing[t] /\ chat'[t].pending = 0
        /\ clearing'[t] = NoProblem
        /\ \A u \in Tabs \ {t} : chat'[u] = chat[u] /\ clearing'[u] = clearing[u]
      BY <1>2 DEF ClearTutorHistory, Chat, history
  <2>2. PatientTab(t)'
      BY <1>0, <2>1 DEF PatientTab, OneRequest, Quiet
  <2>3. OwedKept(t)'
      BY <1>0, <2>1 DEF OwedKept, OneRequest, TurnsAnswered
  <2>4. QED BY <2>1, <2>2, <2>3, OtherTabsKept DEF TurnsAnswered
<1>3. ASSUME NEW b \in Buttons, Tick(t, b) PROVE PagesOK'
  <2>1. /\ call[t][b] # NoCall
        /\ UNCHANGED <<selected, call, nav, clearing, answered, owed, hurried>>
        /\ \A u \in Tabs \ {t} : chat'[u] = chat[u] /\ question'[u] = question[u]
      BY <1>3, NoCallType DEF Tick, history
  <2>2. PatientTab(t)'
      BY <1>0, <2>1 DEF PatientTab, OneRequest, Quiet
  <2>3. OwedKept(t)'
      BY <1>0, <2>1 DEF OwedKept, OneRequest, TurnsAnswered
  <2>4. QED BY <2>1, <2>2, <2>3, OtherTabsKept DEF TurnsAnswered
<1>4. QED BY <1>1, <1>2, <1>3

LEMMA RequestKeepsPages ==
    ASSUME WellFormed, PagesOK, NEW t \in Tabs, NEW b \in Buttons, Proceed(t, b)
    PROVE  PagesOK'
<1> USE TabTypes
<1>0. PatientTab(t) /\ OwedKept(t)
    BY DEF PagesOK
<1>1. PICK c \in Call, d \in Call :
        /\ c = call[t][b] /\ c # NoCall
        /\ Goto(t, b, d)
        /\ \/ d # NoCall /\ d.problem = c.problem /\ d.text = c.text
           \/ /\ d = NoCall
              /\ chat'[t].problem = c.problem /\ chat'[t].pending = 0
              /\ \/ question'[t] = c.text
                 \/ c.text \in TurnsAnswered(c.problem)
        /\ UNCHANGED <<selected, nav, clearing, owed, hurried>>
        /\ \A u \in Tabs \ {t} : chat'[u] = chat[u] /\ question'[u] = question[u]
        /\ \A p \in Problems : TurnsAnswered(p) \subseteq TurnsAnswered(p)'
    BY RequestStep
<1>2. /\ call'[t][b] = d /\ \A a \in Buttons \ {b} : call'[t][a] = call[t][a]
      /\ \A u \in Tabs \ {t} : call'[u] = call[u]
      /\ c.problem \in Problems
    BY <1>1, CallFields DEF Goto
<1>3. PatientTab(t)'
  <2> SUFFICES ASSUME t \notin hurried PROVE PatientTab(t)'
      BY <1>1 DEF PatientTab
  <2>1. /\ nav[t] = <<>> /\ clearing[t] = NoProblem /\ c.problem = selected[t]
        /\ \A a \in Buttons \ {b} : call[t][a] = NoCall
      BY <1>0, <1>1 DEF PatientTab, OneRequest
  <2>2. \A a \in Buttons \ {b} : call'[t][a] = NoCall
      BY <1>2, <2>1
  <2>3. OneRequest(t)'
      BY <2>2 DEF OneRequest
  <2>4. \A a \in Buttons : call'[t][a] # NoCall => call'[t][a].problem = selected[t]
      BY <1>1, <1>2, <2>1, <2>2
  <2>5. Quiet(t)' => chat'[t].problem = selected[t] /\ chat'[t].pending = 0
      BY <1>1, <1>2, <2>1 DEF Quiet
  <2>6. QED BY <1>1, <2>1, <2>3, <2>4, <2>5 DEF PatientTab
<1>4. OwedKept(t)'
  <2> SUFFICES ASSUME owed[t] # 0 PROVE OwedKept(t)'
      BY <1>1 DEF OwedKept
  <2>1. OneRequest(t) /\ OneRequest(t)'
    <3>1. OneRequest(t)
        BY <1>0 DEF OwedKept
    <3>2. \A a \in Buttons \ {b} : call'[t][a] = NoCall
        BY <1>1, <1>2, <3>1 DEF OneRequest
    <3>3. QED BY <3>1, <3>2 DEF OneRequest
  <2>2. \/ \E p \in Problems : owed[t] \in TurnsAnswered(p)
        \/ owed[t] = c.text
      BY <1>0, <1>1, <2>1 DEF OwedKept, OneRequest
  <2>3. CASE \E p \in Problems : owed[t] \in TurnsAnswered(p)
      BY <1>1, <2>1, <2>3 DEF OwedKept
  <2>4. CASE owed[t] = c.text
    <3>1. CASE d # NoCall /\ d.text = c.text
        BY <1>1, <1>2, <2>1, <2>4, <3>1 DEF OwedKept
    <3>2. CASE d = NoCall /\ question'[t] = c.text
      <4>1. \A a \in Buttons : call'[t][a] = NoCall
          BY <1>1, <1>2, <2>1, <3>2 DEF OneRequest
      <4>2. QED BY <1>1, <2>1, <2>4, <3>2, <4>1 DEF OwedKept
    <3>3. CASE c.text \in TurnsAnswered(c.problem)
        BY <1>1, <1>2, <2>1, <2>4, <3>3 DEF OwedKept
    <3>4. QED BY <1>1, <3>1, <3>2, <3>3
  <2>5. QED BY <2>2, <2>3, <2>4
<1>5. QED BY <1>1, <1>2, <1>3, <1>4, OtherTabsKept

LEMMA FaultKeepsPages ==
    ASSUME WellFormed, PagesOK,
           Restart \/ \E t \in Tabs, b \in Buttons : FailToStore(t, b)
    PROVE  PagesOK'
<1> USE TabTypes
<1>1. ASSUME NEW t \in Tabs, NEW b \in Buttons, FailToStore(t, b) PROVE PagesOK'
  <2>1. /\ UNCHANGED <<selected, chat, question, nav, clearing, answered>>
        /\ hurried' = hurried \cup {t} /\ owed'[t] = 0
        /\ \A u \in Tabs \ {t} : call'[u] = call[u] /\ owed'[u] = owed[u]
      BY <1>1, BoundsType DEF FailToStore, Goto, history
  <2>2. PatientTab(t)' /\ OwedKept(t)'
      BY <2>1 DEF PatientTab, OwedKept
  <2>3. QED BY <2>1, <2>2, OtherTabsKept DEF TurnsAnswered
<1>2. ASSUME Restart PROVE PagesOK'
  <2>1. \A t \in Tabs :
          /\ chat'[t].problem = selected'[t] /\ chat'[t].pending = 0
          /\ owed'[t] = 0 /\ nav'[t] = <<>> /\ clearing'[t] = NoProblem
          /\ \A b \in Buttons : call'[t][b] = NoCall
      BY <1>2, BoundsType DEF Restart, Chat
  <2>2. QED BY <2>1 DEF PagesOK, PatientTab, OwedKept, OneRequest
<1>3. QED BY <1>1, <1>2

LEMMA PagesReachable == Spec => [](WellFormed /\ PagesOK)
<1>1. Init => PagesOK
  <2> SUFFICES ASSUME Init PROVE PagesOK
      OBVIOUS
  <2>1. \A t \in Tabs :
          /\ chat[t].problem = selected[t] /\ chat[t].pending = 0
          /\ owed[t] = 0 /\ nav[t] = <<>> /\ clearing[t] = NoProblem
          /\ \A b \in Buttons : call[t][b] = NoCall
      BY DEF Init, Chat
  <2>2. QED BY <2>1 DEF PagesOK, PatientTab, OwedKept, OneRequest
<1>2. ASSUME WellFormed, PagesOK, [Next]_vars PROVE PagesOK'
  <2>1. CASE UNCHANGED vars
      BY <1>2, <2>1 DEF vars, PagesOK, PatientTab, OwedKept, OneRequest, Quiet, TurnsAnswered
  <2>2. QED
      BY <1>2, <2>1, LearnerKeepsPages, PageEventsKeepPages, RequestKeepsPages,
         FaultKeepsPages DEF Next
<1>3. WellFormed /\ PagesOK /\ [Next]_vars => PagesOK'
    BY <1>2
<1>4. QED BY <1>1, <1>3, WellFormedInit, WellFormedStep, PTL DEF Spec

\* A page on which the learner waited shows, when nothing is in progress, the
\* problem that is selected and no question that waits (the chat as an output
\* of request_tutor_hint, selected_problem and clear_tutor_history).
THEOREM PatientPagesAreTrue == Spec => []PatientPageIsTrue
<1>1. PagesOK => PatientPageIsTrue
    BY DEF PagesOK, PatientTab, PatientPageIsTrue
<1>2. QED BY <1>1, PagesReachable, PTL

\* A question that was written on a quiet page is in the box, in a request or
\* answered: request_tutor_hint gives it back at every refusal.
THEOREM QuestionsAreKept == Spec => []QuestionNotLost
<1>1. PagesOK => QuestionNotLost
    BY DEF PagesOK, OwedKept, QuestionNotLost, TurnsAnswered
<1>2. QED BY <1>1, PagesReachable, PTL

-----------------------------------------------------------------------------
(* The conversations are whole turns, the last of them, since the clearing *)

\* The turns read off a conversation file (the argument of Kept).
TurnsIn(s) ==
    [i \in 1..((Len(s) + 1) \div 2) |->
        IF /\ 2 * i <= Len(s)
           /\ SubSeq(s, 2 * i - 1, 2 * i) = Pair(s[2 * i].turn)
        THEN s[2 * i].turn ELSE 0]

\* s is m pairs of a question and its answer.
PairsUpTo(s, m) ==
    /\ s \in Seq(Message)
    /\ Len(s) = 2 * m
    /\ \A i \in 1..m : /\ s[2 * i - 1].turn = s[2 * i].turn
                       /\ s[2 * i - 1].role = "user"
                       /\ s[2 * i].role = "assistant"

FilesWhole == \A p \in Problems : \E m \in 0..(Limit \div 2) : PairsUpTo(file[p], m)

LEMMA EvenLimit ==
    /\ Limit \div 2 \in Nat /\ Limit = 2 * (Limit \div 2)
    /\ Limit \div 2 >= 1
BY TutorAssumption

\* A file of m whole pairs reads as its m turns.
LEMMA TurnsOfPairs ==
    ASSUME NEW s, NEW m \in Nat, PairsUpTo(s, m)
    PROVE  TurnsIn(s) = [i \in 1..m |-> s[2 * i].turn]
<1>1. (Len(s) + 1) \div 2 = m
    BY DEF PairsUpTo
<1>2. ASSUME NEW i \in 1..m
      PROVE  2 * i <= Len(s) /\ SubSeq(s, 2 * i - 1, 2 * i) = Pair(s[2 * i].turn)
  <2> DEFINE a == 2 * i - 1
             b == 2 * i
  <2>1. /\ s \in Seq(Message) /\ Len(s) = 2 * m /\ a \in 1..Len(s) /\ b \in 1..Len(s)
        /\ b = a + 1 /\ a \in Nat /\ b \in Nat
      BY DEF PairsUpTo
  <2>2. s[a] \in Message /\ s[b] \in Message
      BY <2>1
  <2>3. s[a] = [turn |-> s[b].turn, role |-> "user"] /\ s[b] = [turn |-> s[b].turn, role |-> "assistant"]
      BY <2>2 DEF PairsUpTo, Message
  <2> HIDE DEF a, b
  <2>4. SubSeq(s, a, b) = <<s[a], s[b]>>
    <3>1. \A j \in a..b : s[j] \in Message
        BY <2>1
    <3>2. /\ SubSeq(s, a, b) \in Seq(Message) /\ Len(SubSeq(s, a, b)) = 2
          /\ \A j \in 1..2 : SubSeq(s, a, b)[j] = s[a + j - 1]
        BY <2>1, <3>1, SubSeqProperties
    <3>3. /\ <<s[a], s[b]>> \in Seq(Message) /\ Len(<<s[a], s[b]>>) = 2
          /\ \A j \in 1..2 : <<s[a], s[b]>>[j] = s[a + j - 1]
        BY <2>1, <2>2
    <3>4. QED BY <3>2, <3>3, SeqEqual
  <2>5. QED BY <2>1, <2>3, <2>4 DEF Pair, a, b
<1>3. QED BY <1>1, <1>2 DEF TurnsIn

LEMMA TurnsType ==
    ASSUME NEW s, NEW m \in Nat, PairsUpTo(s, m)
    PROVE  /\ TurnsIn(s) \in Seq(Turns) /\ Len(TurnsIn(s)) = m
           /\ \A i \in 1..m : TurnsIn(s)[i] = s[2 * i].turn
<1>1. TurnsIn(s) = [i \in 1..m |-> s[2 * i].turn]
    BY TurnsOfPairs
<1>2. \A i \in 1..m : s[2 * i].turn \in Turns
  <2> SUFFICES ASSUME NEW i \in 1..m PROVE s[2 * i].turn \in Turns
      OBVIOUS
  <2>1. s \in Seq(Message) /\ 2 * i \in 1..Len(s)
      BY DEF PairsUpTo
  <2>2. s[2 * i] \in Message
      BY <2>1
  <2>3. QED BY <2>2 DEF Message
<1>3. QED BY <1>1, <1>2

\* One more turn, and the oldest leaves when the limit is passed: what is stored
\* is what Kept keeps.
LEMMA TrimmedPairs ==
    ASSUME NEW s, NEW m \in 0..(Limit \div 2), PairsUpTo(s, m), NEW n \in Turns,
           NEW u, u = Trimmed(s, Pair(n))
    PROVE  /\ \E k \in 0..(Limit \div 2) : PairsUpTo(u, k)
           /\ TurnsIn(u) = Kept!LastOf(Append(TurnsIn(s), n))
<1>1. PICK K \in Nat : K = Limit \div 2 /\ Limit = 2 * K /\ K >= 1
    BY EvenLimit
<1>2. m \in Nat /\ m <= K
    BY <1>1
<1>3. PICK all : all = s \o Pair(n)
    OBVIOUS
<1>4. PICK new : new = Append(TurnsIn(s), n)
    OBVIOUS
<1>5. /\ s \in Seq(Message) /\ Len(s) = 2 * m
      /\ Pair(n) \in Seq(Message) /\ Len(Pair(n)) = 2
    BY PairType DEF PairsUpTo
<1>6. /\ all \in Seq(Message) /\ Len(all) = 2 * m + 2
      /\ \A i \in 1 .. 2 * m : all[i] = s[i]
      /\ all[2 * m + 1] = Pair(n)[1] /\ all[2 * m + 2] = Pair(n)[2]
  <2>1. /\ s \o Pair(n) \in Seq(Message)
        /\ Len(s \o Pair(n)) = Len(s) + Len(Pair(n))
        /\ \A i \in 1 .. Len(s) + Len(Pair(n)) :
             (s \o Pair(n))[i] = IF i <= Len(s) THEN s[i] ELSE Pair(n)[i - Len(s)]
      BY <1>5, ConcatProperties
  <2>2. /\ all \in Seq(Message) /\ Len(all) = 2 * m + 2
        /\ \A i \in 1 .. 2 * m + 2 :
             all[i] = IF i <= 2 * m THEN s[i] ELSE Pair(n)[i - 2 * m]
      BY <1>3, <1>5, <2>1
  <2>3. \A i \in 1 .. 2 * m : i \in 1 .. 2 * m + 2 /\ i <= 2 * m
      BY <1>2
  <2>4. \A i \in 1 .. 2 * m : all[i] = s[i]
      BY <2>2, <2>3
  <2>5. /\ 2 * m + 1 \in 1 .. 2 * m + 2 /\ ~(2 * m + 1 <= 2 * m) /\ 2 * m + 1 - 2 * m = 1
        /\ 2 * m + 2 \in 1 .. 2 * m + 2 /\ ~(2 * m + 2 <= 2 * m) /\ 2 * m + 2 - 2 * m = 2
      BY <1>2
  <2>6. all[2 * m + 1] = Pair(n)[1] /\ all[2 * m + 2] = Pair(n)[2]
      BY <2>2, <2>5
  <2>7. QED BY <2>2, <2>4, <2>6
<1>7. PairsUpTo(all, m + 1)
  <2>1. ASSUME NEW i \in 1 .. m + 1
        PROVE  /\ all[2 * i - 1].turn = all[2 * i].turn
               /\ all[2 * i - 1].role = "user" /\ all[2 * i].role = "assistant"
    <3>1. CASE i \in 1..m
      <4>1. 2 * i \in 1 .. 2 * m /\ 2 * i - 1 \in 1 .. 2 * m
          BY <1>2, <3>1
      <4>2. all[2 * i] = s[2 * i] /\ all[2 * i - 1] = s[2 * i - 1]
          BY <1>6, <4>1
      <4>3. QED BY <3>1, <4>2 DEF PairsUpTo
    <3>2. CASE i = m + 1
      <4>1. 2 * i = 2 * m + 2 /\ 2 * i - 1 = 2 * m + 1
          BY <1>2, <3>2
      <4>2. all[2 * i - 1] = Pair(n)[1] /\ all[2 * i] = Pair(n)[2]
          BY <1>6, <4>1
      <4>3. QED BY <4>2 DEF Pair
    <3>3. QED BY <1>2, <3>1, <3>2
  <2>2. Len(all) = 2 * (m + 1)
      BY <1>2, <1>6
  <2>3. QED BY <1>6, <2>1, <2>2 DEF PairsUpTo
<1>8. /\ TurnsIn(all) \in Seq(Turns) /\ Len(TurnsIn(all)) = m + 1
      /\ \A i \in 1 .. m + 1 : TurnsIn(all)[i] = all[2 * i].turn
    BY <1>2, <1>7, TurnsType
<1>9. /\ new \in Seq(Turns) /\ Len(new) = m + 1 /\ new[m + 1] = n
      /\ \A i \in 1..m : new[i] = s[2 * i].turn
  <2>1. /\ TurnsIn(s) \in Seq(Turns) /\ Len(TurnsIn(s)) = m
        /\ \A i \in 1..m : TurnsIn(s)[i] = s[2 * i].turn
      BY <1>2, TurnsType
  <2>2. QED BY <1>2, <1>4, <2>1, AppendProperties
<1>10. \A i \in 1 .. m + 1 : new[i] = all[2 * i].turn
  <2> SUFFICES ASSUME NEW i \in 1 .. m + 1 PROVE new[i] = all[2 * i].turn
      OBVIOUS
  <2>1. CASE i \in 1..m
    <3>1. 2 * i \in 1 .. 2 * m
        BY <1>2, <2>1
    <3>2. QED BY <1>6, <1>9, <2>1, <3>1
  <2>2. CASE i = m + 1
    <3>1. 2 * i = 2 * m + 2
        BY <1>2, <2>2
    <3>2. all[2 * i].turn = n
        BY <1>6, <3>1 DEF Pair
    <3>3. QED BY <1>9, <2>2, <3>2
  <2>3. QED BY <1>2, <2>1, <2>2
<1>11. CASE m + 1 <= K
  <2>1. u = all
      BY <1>1, <1>2, <1>3, <1>6, <1>11 DEF Trimmed
  <2>2. TurnsIn(all) = new
      BY <1>8, <1>9, <1>10, SeqEqual
  <2>3. Kept!LastOf(new) = new
      BY <1>1, <1>2, <1>9, <1>11 DEF Kept!LastOf
  <2>4. QED BY <1>1, <1>2, <1>4, <1>7, <1>11, <2>1, <2>2, <2>3
<1>12. CASE m = K
  <2>1. u = SubSeq(all, 3, 2 * K + 2)
    <3>1. Len(all) > Limit /\ Len(all) - Limit + 1 = 3 /\ Len(all) = 2 * K + 2
        BY <1>1, <1>2, <1>6, <1>12
    <3>2. u = IF Len(all) <= Limit THEN all
              ELSE SubSeq(all, Len(all) - Limit + 1, Len(all))
        BY <1>3 DEF Trimmed
    <3>3. ~(Len(all) <= Limit)
        BY <1>1, <3>1
    <3>4. u = SubSeq(all, Len(all) - Limit + 1, Len(all))
        BY <3>2, <3>3
    <3>5. QED BY <3>1, <3>4
  <2>2. /\ u \in Seq(Message) /\ Len(u) = 2 * K
        /\ \A j \in 1 .. 2 * K : u[j] = all[j + 2]
    <3>1. \A j \in 3 .. 2 * K + 2 : all[j] \in Message
        BY <1>1, <1>6, <1>12
    <3>2. /\ SubSeq(all, 3, 2 * K + 2) \in Seq(Message)
          /\ Len(SubSeq(all, 3, 2 * K + 2)) = 2 * K
          /\ \A j \in 1 .. (2 * K + 2) - 3 + 1 : SubSeq(all, 3, 2 * K + 2)[j] = all[3 + j - 1]
        BY <1>1, <3>1, SubSeqProperties
    <3>3. \A j \in 1 .. 2 * K : 3 + j - 1 = j + 2 /\ j \in 1 .. (2 * K + 2) - 3 + 1
        BY <1>1
    <3>4. QED BY <2>1, <3>2, <3>3
  <2>3. PairsUpTo(u, K)
    <3>1. ASSUME NEW i \in 1..K
          PROVE  /\ u[2 * i - 1].turn = u[2 * i].turn
                 /\ u[2 * i - 1].role = "user" /\ u[2 * i].role = "assistant"
      <4>1. /\ 2 * i \in 1 .. 2 * K /\ 2 * i - 1 \in 1 .. 2 * K /\ i + 1 \in 1 .. m + 1
            /\ 2 * i + 2 = 2 * (i + 1) /\ (2 * i - 1) + 2 = 2 * (i + 1) - 1
          BY <1>1, <1>12
      <4>2. u[2 * i] = all[2 * (i + 1)] /\ u[2 * i - 1] = all[2 * (i + 1) - 1]
          BY <2>2, <4>1
      <4>3. QED BY <1>7, <4>1, <4>2 DEF PairsUpTo
    <3>2. QED BY <2>2, <3>1 DEF PairsUpTo
  <2>4. /\ TurnsIn(u) \in Seq(Turns) /\ Len(TurnsIn(u)) = K
        /\ \A i \in 1..K : TurnsIn(u)[i] = u[2 * i].turn
      BY <2>3, TurnsType
  <2>5. \A i \in 1..K : TurnsIn(u)[i] = new[i + 1]
    <3> SUFFICES ASSUME NEW i \in 1..K PROVE TurnsIn(u)[i] = new[i + 1]
        OBVIOUS
    <3>1. 2 * i \in 1 .. 2 * K /\ i + 1 \in 1 .. m + 1 /\ 2 * i + 2 = 2 * (i + 1)
        BY <1>1, <1>12
    <3>2. u[2 * i] = all[2 * (i + 1)]
        BY <2>2, <3>1
    <3>3. QED BY <1>10, <2>4, <3>1, <3>2
  <2>6. Kept!LastOf(new) = SubSeq(new, 2, K + 1)
    <3>1. Len(new) = K + 1 /\ ~(Len(new) <= K) /\ Len(new) - K + 1 = 2
        BY <1>1, <1>9, <1>12
    <3>2. QED BY <1>1, <3>1 DEF Kept!LastOf
  <2>7. /\ SubSeq(new, 2, K + 1) \in Seq(Turns) /\ Len(SubSeq(new, 2, K + 1)) = K
        /\ \A i \in 1..K : SubSeq(new, 2, K + 1)[i] = new[i + 1]
    <3>1. \A j \in 2 .. K + 1 : new[j] \in Turns
        BY <1>1, <1>9, <1>12
    <3>2. /\ SubSeq(new, 2, K + 1) \in Seq(Turns)
          /\ Len(SubSeq(new, 2, K + 1)) = K
          /\ \A i \in 1 .. (K + 1) - 2 + 1 : SubSeq(new, 2, K + 1)[i] = new[2 + i - 1]
        BY <1>1, <3>1, SubSeqProperties
    <3>3. \A i \in 1..K : 2 + i - 1 = i + 1 /\ i \in 1 .. (K + 1) - 2 + 1
        BY <1>1
    <3>4. QED BY <3>2, <3>3
  <2>8. TurnsIn(u) = SubSeq(new, 2, K + 1)
      BY <2>4, <2>5, <2>7, SeqEqual
  <2>9. QED BY <1>1, <1>4, <2>3, <2>6, <2>8
<1>13. QED BY <1>2, <1>11, <1>12

\* The turns that Kept reads off every file.
TurnsRead == [p \in Problems |-> TurnsIn(file[p])]

LEMMA WholeInit ==
    ASSUME Init
    PROVE  FilesWhole /\ Kept!Init
<1>1. \A p \in Problems : file[p] = <<>>
    BY DEF Init
<1>2. PairsUpTo(<<>>, 0)
    BY DEF PairsUpTo
<1>3. TurnsIn(<<>>) = <<>>
    BY <1>2, TurnsType
<1>4. 0 \in 0..(Limit \div 2)
    BY EvenLimit
<1>5. FilesWhole
    BY <1>1, <1>2, <1>4 DEF FilesWhole
<1>6. TurnsRead = [p \in Problems |-> <<>>]
    BY <1>1, <1>3 DEF TurnsRead
<1>7. Kept!Init
    BY <1>6 DEF TurnsRead, TurnsIn, Kept!Init
<1>8. QED BY <1>5, <1>7

\* The file of one problem changes: the files stay whole and Kept changes the
\* turns of that problem.
LEMMA OneFileChanges ==
    ASSUME TypeOK, FilesWhole, NEW q \in Problems, NEW u,
           NEW k \in 0..(Limit \div 2), PairsUpTo(u, k),
           file' = [file EXCEPT ![q] = u]
    PROVE  FilesWhole' /\ TurnsRead' = [TurnsRead EXCEPT ![q] = TurnsIn(u)]
<1>1. \A p \in Problems : file'[p] = IF p = q THEN u ELSE file[p]
    BY DEF TypeOK
<1>2. \A p \in Problems : \E m \in 0..(Limit \div 2) : PairsUpTo(file'[p], m)
    BY <1>1 DEF FilesWhole
<1>3. FilesWhole'
    BY <1>2 DEF FilesWhole
<1>4. TurnsRead' = [p \in Problems |-> TurnsIn(file'[p])]
    BY DEF TurnsRead
<1>5. \A p \in Problems : TurnsIn(file'[p]) = IF p = q THEN TurnsIn(u) ELSE TurnsIn(file[p])
    BY <1>1
<1>6. TurnsRead' = [p \in Problems |-> IF p = q THEN TurnsIn(u) ELSE TurnsIn(file[p])]
    BY <1>4, <1>5
<1>7. QED BY <1>3, <1>6 DEF TurnsRead

\* append stores one turn, also after the conversation was cleared meanwhile.
LEMMA StoreIsAnswer ==
    ASSUME WellFormed, FilesWhole, NEW t \in Tabs, NEW b \in Buttons, StoreTurn(t, b)
    PROVE  FilesWhole' /\ \E p \in Problems : Kept!Answer(p)
<1>1. PICK c : c = call[t][b]
    OBVIOUS
<1>2. c \in Call /\ c.at = "generating"
    BY <1>1 DEF WellFormed, TypeOK, StoreTurn
<1>3. c # NoCall /\ Running(c)
    BY <1>2 DEF NoCall, Running
<1>4. c.problem \in Problems /\ c.turn \in Turns
  <2>1. c.problem \in Problems /\ c.turn \in 0..MaxTurns
      BY <1>2, <1>3, CallFields
  <2>2. c.turn # 0
      BY <1>1, <1>3 DEF WellFormed, CallsOK, CallOK
  <2>3. QED BY <2>1, <2>2, BoundsType DEF Turns
<1>5. PICK u : u = Trimmed(file[c.problem], Pair(c.turn))
    OBVIOUS
<1>6. file' = [file EXCEPT ![c.problem] = u]
    BY <1>1, <1>5 DEF StoreTurn
<1>7. PICK m \in 0..(Limit \div 2) : PairsUpTo(file[c.problem], m)
    BY <1>4 DEF FilesWhole
<1>8. /\ \E k \in 0..(Limit \div 2) : PairsUpTo(u, k)
      /\ TurnsIn(u) = Kept!LastOf(Append(TurnsIn(file[c.problem]), c.turn))
    BY <1>4, <1>5, <1>7, TrimmedPairs
<1>9. FilesWhole' /\ TurnsRead' = [TurnsRead EXCEPT ![c.problem] = TurnsIn(u)]
    BY <1>4, <1>6, <1>8, OneFileChanges DEF WellFormed
<1>10. TurnsRead[c.problem] = TurnsIn(file[c.problem])
    BY <1>4 DEF TurnsRead
<1>11. TurnsRead' = [TurnsRead EXCEPT ![c.problem] =
                        Kept!LastOf(Append(TurnsRead[c.problem], c.turn))]
    BY <1>8, <1>9, <1>10
<1>12. Kept!Answer(c.problem)
    BY <1>4, <1>11 DEF Kept!Answer, TurnsRead, TurnsIn
<1>13. QED BY <1>4, <1>9, <1>12

LEMMA ClearIsClear ==
    ASSUME WellFormed, FilesWhole, NEW t \in Tabs, ClearTutorHistory(t)
    PROVE  FilesWhole' /\ \E p \in Problems : Kept!Clear(p)
<1>1. PICK p \in Problems : p = clearing[t]
    BY DEF WellFormed, TypeOK, ClearTutorHistory
<1>2. file' = [file EXCEPT ![p] = <<>>]
    BY <1>1 DEF ClearTutorHistory
<1>3. PairsUpTo(<<>>, 0) /\ 0 \in 0..(Limit \div 2)
    BY EvenLimit DEF PairsUpTo
<1>4. TurnsIn(<<>>) = <<>>
    BY <1>3, TurnsType
<1>5. FilesWhole' /\ TurnsRead' = [TurnsRead EXCEPT ![p] = <<>>]
    BY <1>2, <1>3, <1>4, OneFileChanges DEF WellFormed
<1>6. Kept!Clear(p)
    BY <1>5 DEF Kept!Clear, TurnsRead, TurnsIn
<1>7. QED BY <1>5, <1>6

LEMMA SameFile ==
    ASSUME FilesWhole, file' = file
    PROVE  FilesWhole' /\ UNCHANGED TurnsRead
BY DEF FilesWhole, TurnsRead

LEMMA KeptStep ==
    ASSUME WellFormed, FilesWhole, [Next]_vars
    PROVE  FilesWhole' /\ [Kept!Next]_TurnsRead
<1>1. CASE UNCHANGED vars
    BY <1>1, SameFile DEF vars
<1>2. CASE Restart
    BY <1>2, SameFile DEF Restart, stores
<1>3. ASSUME NEW t \in Tabs, Learner(t) \/ SelectedProblem(t) \/ ClearTutorHistory(t)
      PROVE  FilesWhole' /\ [Kept!Next]_TurnsRead
  <2>1. CASE ClearTutorHistory(t)
      BY <2>1, ClearIsClear DEF Kept!Next
  <2>2. CASE Learner(t)
    <3>1. file' = file
        BY <2>2 DEF Learner, Type, ClickClear, Click, Select, stores
    <3>2. QED BY <3>1, SameFile
  <2>3. CASE SelectedProblem(t)
    <3>1. file' = file
        BY <2>3 DEF SelectedProblem, stores
    <3>2. QED BY <3>1, SameFile
  <2>4. QED BY <1>3, <2>1, <2>2, <2>3
<1>4. ASSUME NEW t \in Tabs, NEW b \in Buttons,
             Proceed(t, b) \/ Tick(t, b) \/ FailToStore(t, b)
      PROVE  FilesWhole' /\ [Kept!Next]_TurnsRead
  <2>1. CASE StoreTurn(t, b)
      BY <2>1, StoreIsAnswer DEF Kept!Next
  <2>2. CASE ~StoreTurn(t, b)
    <3>1. file' = file
        BY <1>4, <2>2 DEF Proceed, Tick, FailToStore, Validate, RefuseLater,
           LoadRequest, CountHint, ShowAnswer, stores
    <3>2. QED BY <3>1, SameFile
  <2>3. QED BY <2>1, <2>2
<1>5. QED BY <1>1, <1>2, <1>3, <1>4 DEF Next

\* The conversations are what a learner may rely on: question and answer enter
\* and leave together, the oldest first, and nothing that was cleared comes
\* back with a hint that was being generated meanwhile (append, which reads the
\* conversation again under its lock).
THEOREM ConversationImplemented == Spec => ImplementsConversation
<1>1. Init => FilesWhole /\ Kept!Init
    BY WholeInit
<1>2. WellFormed /\ FilesWhole /\ [Next]_vars => FilesWhole' /\ [Kept!Next]_TurnsRead
    BY KeptStep
<1>3. [Kept!Next]_TurnsRead =>
        [Kept!Next]_([p \in Problems |->
                [i \in 1..((Len(file[p]) + 1) \div 2) |->
                    IF /\ 2 * i <= Len(file[p])
                       /\ SubSeq(file[p], 2 * i - 1, 2 * i) = Pair(file[p][2 * i].turn)
                    THEN file[p][2 * i].turn ELSE 0]])
    BY DEF TurnsRead, TurnsIn
<1>4. QED BY <1>1, <1>2, <1>3, WellFormedInit, WellFormedStep, PTL
          DEF Spec, ImplementsConversation, Kept!Spec

=============================================================================
