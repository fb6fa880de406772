------------------------- MODULE ProviderCall_proofs -------------------------
(***************************************************************************)
(* Proofs about ProviderCall, for every set of tabs, every choice of       *)
(* providers, operations and installations, and every bound.               *)
(***************************************************************************)
EXTENDS ProviderCall, TLAPS

Adapters == {"openai", "gemini", "gemma", "transformers_http"}

\* Adapter, of an installation that is given.
AdapterIn(i, p) ==
    IF p # "gemma" THEN p
    ELSE IF i.backend = "transformers_http" THEN "transformers_http" ELSE "gemma"

Anything == Texts \cup Failures

\* p may be asked with the mark of the consent m.
Permitted(i, p, m) ==
    /\ Availability(i, p).available
    /\ Availability(i, p).off => m # "off"

\* A consent is for the provider p, or its learner did not wait.
ForModel(c, p) == c.mark \in {"off", p} \/ c.risky

\* What a call that has come to a step has done before: which provider it was
\* checked for, whether it has a client, and what its reason was made of.
CallOK(op, c, i, selected) ==
    c # NoCall =>
        /\ c.at \in {"clicked", "shown"} => ForModel(c, selected)
        /\ c.at \in {"checked", "received", "closed"} => ForModel(c, c.provider)
        /\ c.at \in {"checked", "received"} =>
            c.checked = c.provider /\ Permitted(i, c.provider, c.mark)
        /\ c.at \in {"clicked", "shown", "checked"} =>
            c.client = "none" /\ c.answer = "" /\ c.reason = ""
        /\ c.at = "received" => c.client = "open" /\ c.answer \in Anything
        /\ c.at = "closed" =>
            /\ c.provider # "openai" => c.client # "open"
            /\ \/ /\ c.answer = "" /\ c.reason = WhyNotCalled(op)
                  /\ ~Availability(i, c.provider).available
               \/ /\ c.answer \in Anything
                  /\ c.reason = ReasonOf(AdapterIn(i, c.provider), op, c.answer)
                  /\ Availability(i, c.provider).available

CallsOK == \A op \in Operations : CallOK(op, call[op], installed, preference)

\* A tab that nobody disturbed shows the preference, and its consent is for it.
TabsOK ==
    \A t \in Tabs :
        t \notin changing \cup crossed =>
            dropdown[t] = preference /\ consent[t] \in {"off", preference}

RequestOK(r, i) ==
    /\ r.to = r.checked
    /\ Permitted(i, r.to, r.mark)
    /\ ForModel(r, r.to)

SentOK == \A r \in sent : RequestOK(r, installed)

\* What the reason of an outcome was made of.
ReasonOK(o, i) ==
    \/ o.answer = "" /\ o.reason = "consent_required"
    \/ /\ o.answer = "" /\ o.reason = WhyNotCalled(o.op)
       /\ ~Availability(i, o.provider).available
    \/ /\ o.answer \in Anything
       /\ LET why == ReasonOf(AdapterIn(i, o.provider), o.op, o.answer) IN
            o.reason = why \/ (why = "" /\ o.reason = "unsafe_output")
       /\ Availability(i, o.provider).available

OutcomeOK(o, i) ==
    /\ o.safe
    /\ o.answer = "safe" => o.author = o.provider
    /\ o.provider # "openai" => o.client # "open"
    /\ o.author \in Providers => o.author = o.provider /\ o.answer \in Texts
    /\ o.author \in {"rule_based", "safe_default"} => o.op = "hint"
    /\ o.op = "hint" /\ o.author = "nothing" => o.reason = "consent_required"
    /\ ReasonOK(o, i)

OutcomesOK == \A o \in outcomes : OutcomeOK(o, installed)

CallInv == TypeOK /\ CallsOK /\ TabsOK /\ SentOK /\ OutcomesOK

-----------------------------------------------------------------------------
(* The operators that name a failure *)

LEMMA BoundsType ==
    /\ TypeOK => changes \in Nat /\ calls \in Nat /\ events \in Nat
    /\ changes' \in Nat /\ calls' \in Nat /\ events' \in Nat =>
         {changes', calls', events'} \subseteq Nat
BY DEF TypeOK

\* Each part of the type invariant that a step can disturb.
LEMMA TypeStays ==
    ASSUME TypeOK, installed' = installed, preference' \in Providers,
           dropdown' \in [Tabs -> Providers],
           consent' \in [Tabs -> Providers \cup {"off"}],
           changing' \subseteq Tabs, crossed' \subseteq Tabs,
           call' \in [Operations -> Call], service' = service,
           diagnosis' = diagnosis,
           sent' \subseteq [mark: Providers \cup {"off"}, to: Providers,
                            checked: Providers, risky: BOOLEAN],
           outcomes' \subseteq Outcome,
           changes' = changes, calls' \in Nat, events' \in Nat
    PROVE  TypeOK'
<1>1. {changes', calls', events'} \subseteq Nat
    BY BoundsType
<1>2. QED BY <1>1 DEF TypeOK

LEMMA AdapterType ==
    ASSUME TypeOK, NEW p \in Providers
    PROVE  Adapter(p) = AdapterIn(installed, p) /\ Adapter(p) \in Adapters
BY ProviderAssumption DEF Adapter, AdapterIn, Adapters

\* A failure has a reason, that of the adapter or that of the status.
LEMMA FailureReason ==
    ASSUME NEW a \in Adapters, NEW f \in Failures
    PROVE  /\ ReasonOfFailure(a, f) \in Reasons \ {""}
           /\ StatusReason(a, f) \in Reasons \ {""}
<1>1. StatusReason(a, f) \in Reasons \ {""}
    BY DEF StatusReason, Reasons, Configuration
<1>2. QED BY <1>1 DEF ReasonOfFailure, Reasons, Configuration

LEMMA TextReason ==
    ASSUME NEW a \in Adapters, NEW op, NEW x \in Texts
    PROVE  ReasonOfText(a, op, x) \in Reasons \ {""}
BY DEF ReasonOfText, Reasons, Configuration

\* Only a valid text has no reason, and a safe one is valid.
LEMMA AnswerReason ==
    ASSUME NEW a \in Adapters, NEW op, NEW x \in Anything
    PROVE  /\ ReasonOf(a, op, x) \in Reasons
           /\ ReasonOf(a, op, x) = "" => x \in Texts
           /\ x = "safe" => ReasonOf(a, op, x) = ""
<1>1. CASE x \in Failures
  <2>1. ReasonOf(a, op, x) = ReasonOfFailure(a, x)
      BY <1>1 DEF ReasonOf
  <2>2. x # "safe"
      BY <1>1 DEF Failures
  <2>3. QED BY <1>1, <2>1, <2>2, FailureReason
<1>2. CASE x \notin Failures
  <2>1. x \in Texts
      BY <1>2 DEF Anything
  <2>2. ReasonOf(a, op, x) = IF Valid(a, x) THEN "" ELSE ReasonOfText(a, op, x)
      BY <1>2 DEF ReasonOf
  <2>3. x = "safe" => Valid(a, x)
      BY DEF Valid
  <2>4. ReasonOfText(a, op, x) \in Reasons /\ "" \in Reasons
      BY <2>1, TextReason DEF Reasons
  <2>5. QED BY <2>1, <2>2, <2>3, <2>4
<1>3. QED BY <1>1, <1>2

\* What is not called has a reason of its own.
LEMMA WhyReason == ASSUME NEW op PROVE WhyNotCalled(op) \in Reasons \ {""}
BY DEF WhyNotCalled, Reasons, Configuration

LEMMA NoAnswer == "" \notin Anything /\ "safe" \notin Failures /\ "" # "safe"
BY DEF Anything, Texts, Failures

LEMMA NotProviders ==
    /\ "nothing" \notin Providers /\ "off" \notin Providers
    /\ "rule_based" \notin Providers /\ "safe_default" \notin Providers
BY ProviderAssumption

LEMMA NoCallType == NoCall \in Call /\ NoCall.at = "idle"
BY DEF NoCall, Call

\* A call, once clicked, has all its fields.
LEMMA CallFields ==
    ASSUME NEW c \in Call, c # NoCall
    PROVE  /\ c.at \in {"clicked", "shown", "checked", "received", "closed"}
           /\ c.tab \in Tabs /\ c.mark \in Providers \cup {"off"}
           /\ c.provider \in Providers /\ c.checked \in Providers
           /\ c.client \in {"none", "open", "closed"}
           /\ c.answer \in {""} \cup Anything
           /\ c.reason \in Reasons /\ c.seen \in Nat /\ c.risky \in BOOLEAN
BY DEF Call, NoCall, Anything

\* The call of one operation changes, every other stays.
LEMMA OneCallChanges ==
    ASSUME TypeOK, NEW op \in Operations, NEW c \in Call, Goto(op, c)
    PROVE  /\ call' \in [Operations -> Call]
           /\ \A q \in Operations : call'[q] = IF q = op THEN c ELSE call[q]
BY DEF TypeOK, Goto

LEMMA OneCallKeepsOthers ==
    ASSUME TypeOK, CallsOK, NEW op \in Operations, NEW c \in Call, Goto(op, c),
           CallOK(op, c, installed, preference),
           installed' = installed, preference' = preference
    PROVE  CallsOK'
<1>1. \A q \in Operations : CallOK(q, call'[q], installed, preference)
    BY OneCallChanges DEF CallsOK
<1>2. QED BY <1>1 DEF CallsOK

-----------------------------------------------------------------------------
(* The learner *)

LEMMA InitOK == Init => CallInv
<1> SUFFICES ASSUME Init PROVE CallInv
    OBVIOUS
<1>1. installed \in Installations /\ preference \in Providers
    BY DEF Init
<1>2. \A p \in Providers : NoDiagnosis \in
        [healthy: BOOLEAN, reason: Reasons, seen: Nat,
         detail: {"", "generation_probe_unsupported"}]
    BY DEF NoDiagnosis, Reasons
<1>3. TypeOK
  <2>1. /\ changes = 1 /\ calls = 0 /\ events = 0
        /\ sent = {} /\ crossed = {} /\ outcomes = {} /\ changing = {}
      BY DEF Init
  <2>2. {changes, calls, events} \subseteq Nat
      BY <2>1
  <2>3. call \in [Operations -> Call] /\ service \in [Providers -> States]
      BY NoCallType DEF Init, States
  <2>4. diagnosis \in [Providers -> [healthy: BOOLEAN, reason: Reasons, seen: Nat,
                                     detail: {"", "generation_probe_unsupported"}]]
      BY <1>2 DEF Init
  <2>5. dropdown \in [Tabs -> Providers] /\ consent \in [Tabs -> Providers \cup {"off"}]
      BY DEF Init
  <2>6. QED BY <1>1, <2>1, <2>2, <2>3, <2>4, <2>5 DEF TypeOK
<1>4. CallsOK
    BY DEF Init, CallsOK, CallOK
<1>5. TabsOK /\ SentOK /\ OutcomesOK
    BY DEF Init, TabsOK, SentOK, OutcomesOK
<1>6. QED BY <1>3, <1>4, <1>5 DEF CallInv

\* What the histories hold stays right, whatever else changes.
LEMMA HistoryStays ==
    ASSUME SentOK, OutcomesOK, installed' = installed
    PROVE  /\ sent' = sent => SentOK'
           /\ outcomes' = outcomes => OutcomesOK'
BY DEF SentOK, OutcomesOK

LEMMA SelectKeeps ==
    ASSUME CallInv, NEW t \in Tabs, NEW p \in Providers, SelectProvider(t, p)
    PROVE  CallInv'
<1>1. TypeOK'
  <2>1. events' \in Nat /\ calls' \in Nat /\ changes' = changes
      BY BoundsType DEF CallInv, SelectProvider, Bounded
  <2>2. dropdown' \in [Tabs -> Providers]
      BY DEF CallInv, TypeOK, SelectProvider
  <2>3. consent' \in [Tabs -> Providers \cup {"off"}]
      BY DEF CallInv, TypeOK, SelectProvider
  <2>4. /\ installed' = installed /\ preference' = preference /\ call' = call
        /\ service' = service /\ diagnosis' = diagnosis /\ sent' = sent
        /\ crossed' = crossed /\ outcomes' = outcomes
        /\ changing' \in {changing, changing \cup {t}}
      BY DEF SelectProvider, history
  <2>5. /\ preference \in Providers /\ call \in [Operations -> Call]
        /\ crossed \subseteq Tabs /\ changing' \subseteq Tabs
        /\ sent \subseteq [mark: Providers \cup {"off"}, to: Providers,
                           checked: Providers, risky: BOOLEAN]
        /\ outcomes \subseteq Outcome
      BY <2>4 DEF CallInv, TypeOK
  <2>6. QED BY <2>1, <2>2, <2>3, <2>4, <2>5, TypeStays DEF CallInv
<1>2. CallsOK' /\ SentOK' /\ OutcomesOK'
    BY DEF CallInv, CallsOK, SentOK, OutcomesOK, SelectProvider, history
<1>3. TabsOK'
    BY DEF CallInv, TypeOK, TabsOK, SelectProvider, history
<1>4. QED BY <1>1, <1>2, <1>3 DEF CallInv

LEMMA ToggleKeeps ==
    ASSUME CallInv, NEW t \in Tabs, ToggleConsent(t)
    PROVE  CallInv'
<1>1. TypeOK'
  <2>1. events' \in Nat /\ calls' \in Nat /\ changes' = changes
      BY BoundsType DEF CallInv, ToggleConsent, Bounded
  <2>2. dropdown' \in [Tabs -> Providers]
      BY DEF CallInv, TypeOK, ToggleConsent
  <2>3. consent' \in [Tabs -> Providers \cup {"off"}]
      BY DEF CallInv, TypeOK, ToggleConsent
  <2>4. /\ installed' = installed /\ preference' = preference /\ call' = call
        /\ service' = service /\ diagnosis' = diagnosis /\ sent' = sent
        /\ crossed' = crossed /\ outcomes' = outcomes
        /\ changing' \in {changing, changing \cup {t}}
      BY DEF ToggleConsent, history
  <2>5. /\ preference \in Providers /\ call \in [Operations -> Call]
        /\ crossed \subseteq Tabs /\ changing' \subseteq Tabs
        /\ sent \subseteq [mark: Providers \cup {"off"}, to: Providers,
                           checked: Providers, risky: BOOLEAN]
        /\ outcomes \subseteq Outcome
      BY <2>4 DEF CallInv, TypeOK
  <2>6. QED BY <2>1, <2>2, <2>3, <2>4, <2>5, TypeStays DEF CallInv
<1>2. CallsOK' /\ SentOK' /\ OutcomesOK'
    BY DEF CallInv, CallsOK, SentOK, OutcomesOK, ToggleConsent, history
<1>3. TabsOK'
    BY DEF CallInv, TypeOK, TabsOK, ToggleConsent, history
<1>4. QED BY <1>1, <1>2, <1>3 DEF CallInv

\* The change of the provider: calls that have not read the preference yet are
\* at risk, and so are the other tabs.
LEMMA ChangeKeeps ==
    ASSUME CallInv, NEW t \in Tabs, SelectedProvider(t)
    PROVE  CallInv'
<1>1. installed' = installed /\ preference' = dropdown[t] /\ dropdown' = dropdown
    BY DEF SelectedProvider
<1>2. /\ preference' \in Providers /\ changing' = changing \ {t}
      /\ crossed' = (crossed \ {t}) \cup (Tabs \ {t})
      /\ consent' = [consent EXCEPT ![t] = "off"]
  <2>1. dropdown[t] \in Providers
      BY DEF CallInv, TypeOK
  <2>2. QED BY <1>1, <2>1 DEF SelectedProvider, Cross
<1>3. /\ call' \in [Operations -> Call]
      /\ \A op \in Operations : CallOK(op, call'[op], installed, preference')
  <2>1. call' = [op \in Operations |->
                    IF call[op].at \in {"clicked", "shown"}
                    THEN [call[op] EXCEPT !.risky = TRUE] ELSE call[op]]
      BY DEF SelectedProvider, Cross
  <2>2. ASSUME NEW op \in Operations
        PROVE  call'[op] \in Call /\ CallOK(op, call'[op], installed, preference')
    <3>1. PICK c : c = call[op]
        OBVIOUS
    <3>2. PICK d : d = [c EXCEPT !.risky = TRUE]
        OBVIOUS
    <3>3. c \in Call /\ CallOK(op, c, installed, preference)
        BY <3>1 DEF CallInv, TypeOK, CallsOK
    <3>4. call'[op] = IF c.at \in {"clicked", "shown"} THEN d ELSE c
        BY <2>1, <3>1, <3>2
    <3>5. CASE c.at \in {"clicked", "shown"}
      <4>1. c # NoCall
          BY <3>5, NoCallType
      <4>2. d \in Call /\ d.at = c.at /\ d.client = c.client /\ d.answer = c.answer
            /\ d.reason = c.reason /\ d.risky = TRUE
          BY <3>2, <3>3, <4>1 DEF Call, NoCall
      <4>3. CallOK(op, d, installed, preference')
          BY <3>3, <3>5, <4>1, <4>2 DEF CallOK, ForModel
      <4>4. QED BY <3>4, <3>5, <4>2, <4>3
    <3>6. CASE c.at \notin {"clicked", "shown"}
        BY <3>3, <3>4, <3>6 DEF CallOK
    <3>7. QED BY <3>5, <3>6
  <2>3. QED BY <2>1, <2>2
<1>4. TypeOK'
    BY <1>1, <1>2, <1>3, BoundsType DEF CallInv, TypeOK, SelectedProvider, bounds
<1>5. CallsOK'
    BY <1>1, <1>3 DEF CallsOK
<1>6. TabsOK'
    BY <1>1, <1>2 DEF CallInv, TypeOK, TabsOK
<1>7. SentOK' /\ OutcomesOK'
    BY <1>1, HistoryStays DEF CallInv, SelectedProvider
<1>8. QED BY <1>4, <1>5, <1>6, <1>7 DEF CallInv

LEMMA NewCallType ==
    ASSUME TypeOK, NEW t \in Tabs
    PROVE  /\ NewCall(t) \in Call
           /\ NewCall(t).at = "clicked" /\ NewCall(t).client = "none"
           /\ NewCall(t).answer = "" /\ NewCall(t).reason = ""
           /\ NewCall(t).mark = consent[t]
           /\ NewCall(t).risky = (t \in changing \cup crossed)
           /\ NewCall(t).seen = 0
<1>1. /\ consent[t] \in Providers \cup {"off"} /\ preference \in Providers
      /\ (t \in changing \cup crossed) \in BOOLEAN /\ "" \in Reasons /\ 0 \in Nat
  <2>1. consent[t] \in Providers \cup {"off"} /\ preference \in Providers
      BY DEF TypeOK
  <2>2. QED BY <2>1 DEF Reasons
<1>2. NewCall(t) \in Call
    BY <1>1 DEF NewCall, Call
<1>3. NewCall(t).seen = 0
    BY DEF NewCall
<1>4. QED BY <1>2, <1>3 DEF NewCall

LEMMA ClickKeeps ==
    ASSUME CallInv, NEW t \in Tabs, NEW op \in Operations, Click(t, op)
    PROVE  CallInv'
<1>1. PICK c : c = NewCall(t)
    OBVIOUS
<1>2. /\ c \in Call
      /\ c.at = "clicked" /\ c.client = "none" /\ c.answer = "" /\ c.reason = ""
      /\ c.mark = consent[t] /\ c.risky = (t \in changing \cup crossed)
    BY <1>1, NewCallType DEF CallInv
<1>3. CallOK(op, c, installed, preference)
    BY <1>2 DEF CallInv, TabsOK, CallOK, ForModel
<1>4. Goto(op, c)
    BY <1>1 DEF Click
<1>5. TypeOK'
  <2>1. events' \in Nat /\ calls' \in Nat /\ changes' = changes
      BY BoundsType DEF CallInv, Click
  <2>2. call' \in [Operations -> Call]
      BY <1>2, <1>4, OneCallChanges DEF CallInv
  <2>3. UNCHANGED <<installed, preference, dropdown, consent, changing, service,
                    diagnosis, sent, crossed, outcomes>>
      BY DEF Click, history, tab
  <2>4. QED BY <2>1, <2>2, <2>3, TypeStays DEF CallInv, TypeOK
<1>6. CallsOK'
    BY <1>2, <1>3, <1>4, OneCallKeepsOthers DEF CallInv, Click
<1>7. TabsOK' /\ SentOK' /\ OutcomesOK'
    BY HistoryStays DEF CallInv, TabsOK, Click, history, tab
<1>8. QED BY <1>5, <1>6, <1>7 DEF CallInv

-----------------------------------------------------------------------------
(* The services of the application *)

\* A call ends with an outcome.
LEMMA EndKeeps ==
    ASSUME CallInv, NEW op \in Operations, NEW c \in Call, c # NoCall,
           NEW author \in Providers \cup {"rule_based", "safe_default", "nothing"},
           NEW why \in Reasons, End(op, c, author, TRUE, why),
           UNCHANGED <<installed, preference, tab, service, diagnosis, sent,
                       crossed, bounds>>,
           \A o : /\ o.op = op /\ o.provider = c.provider /\ o.answer = c.answer
                  /\ o.author = author /\ o.safe = TRUE /\ o.reason = why
                  /\ o.client = c.client
                  => OutcomeOK(o, installed)
    PROVE  CallInv'
<1>1. PICK o : o = [op |-> op, provider |-> c.provider, answer |-> c.answer,
                    author |-> author, safe |-> TRUE, reason |-> why, seen |-> c.seen,
                    client |-> c.client]
    OBVIOUS
<1>2. o \in Outcome /\ OutcomeOK(o, installed)
  <2>1. /\ c.provider \in Providers /\ c.answer \in {""} \cup Texts \cup Failures
        /\ c.seen \in Nat /\ c.client \in {"none", "open", "closed"}
      BY CallFields DEF Anything
  <2>2. o \in Outcome
      BY <1>1, <2>1 DEF Outcome
  <2>3. /\ o.op = op /\ o.provider = c.provider /\ o.answer = c.answer
        /\ o.author = author /\ o.safe = TRUE /\ o.reason = why /\ o.client = c.client
      BY <1>1
  <2>4. QED BY <2>2, <2>3
<1>3. outcomes' = outcomes \cup {o}
    BY <1>1 DEF End
<1>4. Goto(op, NoCall)
    BY DEF End
<1>5. UNCHANGED <<installed, preference, dropdown, consent, changing, service,
                  diagnosis, sent, crossed, changes, calls, events>>
    BY DEF tab, bounds
<1>6. TypeOK'
  <2>1. events' \in Nat /\ calls' \in Nat /\ changes' = changes
      BY <1>5, BoundsType DEF CallInv
  <2>2. call' \in [Operations -> Call]
      BY <1>4, NoCallType, OneCallChanges DEF CallInv
  <2>3. outcomes' \subseteq Outcome
      BY <1>2, <1>3 DEF CallInv, TypeOK
  <2>4. QED BY <1>5, <2>1, <2>2, <2>3, TypeStays DEF CallInv, TypeOK
<1>7. CallsOK'
  <2>1. CallOK(op, NoCall, installed, preference)
      BY DEF CallOK
  <2>2. QED BY <1>4, <1>5, <2>1, NoCallType, OneCallKeepsOthers DEF CallInv
<1>8. TabsOK' /\ SentOK'
    BY <1>5, HistoryStays DEF CallInv, TabsOK
<1>9. OutcomesOK'
    BY <1>2, <1>3, <1>5 DEF CallInv, OutcomesOK
<1>10. QED BY <1>6, <1>7, <1>8, <1>9 DEF CallInv

\* A call goes on.
LEMMA GoOnKeeps ==
    ASSUME CallInv, NEW op \in Operations, NEW c \in Call, Goto(op, c),
           CallOK(op, c, installed, preference),
           UNCHANGED <<installed, preference, tab, service, diagnosis, crossed,
                       outcomes, bounds>>,
           NEW r, sent' \in {sent, sent \cup {r}},
           r \in [mark: Providers \cup {"off"}, to: Providers,
                  checked: Providers, risky: BOOLEAN],
           RequestOK(r, installed)
    PROVE  CallInv'
<1>1. UNCHANGED <<installed, preference, dropdown, consent, changing, service,
                  diagnosis, crossed, outcomes, changes, calls, events>>
    BY DEF tab, bounds
<1>2. TypeOK'
  <2>1. events' \in Nat /\ calls' \in Nat /\ changes' = changes
      BY <1>1, BoundsType DEF CallInv
  <2>2. call' \in [Operations -> Call]
      BY OneCallChanges DEF CallInv
  <2>3. sent' \subseteq [mark: Providers \cup {"off"}, to: Providers,
                         checked: Providers, risky: BOOLEAN]
      BY DEF CallInv, TypeOK
  <2>4. QED BY <1>1, <2>1, <2>2, <2>3, TypeStays DEF CallInv, TypeOK
<1>3. CallsOK'
    BY <1>1, OneCallKeepsOthers DEF CallInv
<1>4. TabsOK' /\ OutcomesOK'
    BY <1>1, HistoryStays DEF CallInv, TabsOK
<1>5. SentOK'
    BY <1>1 DEF CallInv, SentOK
<1>6. QED BY <1>2, <1>3, <1>4, <1>5 DEF CallInv

\* The same, when nothing is sent.
LEMMA QuietlyGoOn ==
    ASSUME CallInv, NEW op \in Operations, NEW c \in Call, Goto(op, c),
           CallOK(op, c, installed, preference),
           UNCHANGED <<installed, preference, tab, service, diagnosis, sent,
                       crossed, outcomes, bounds>>
    PROVE  CallInv'
<1>1. UNCHANGED <<installed, preference, dropdown, consent, changing, service,
                  diagnosis, sent, crossed, outcomes, changes, calls, events>>
    BY DEF tab, bounds
<1>2. TypeOK'
  <2>1. events' \in Nat /\ calls' \in Nat /\ changes' = changes
      BY <1>1, BoundsType DEF CallInv
  <2>2. call' \in [Operations -> Call]
      BY OneCallChanges DEF CallInv
  <2>3. QED BY <1>1, <2>1, <2>2, TypeStays DEF CallInv, TypeOK
<1>3. CallsOK'
    BY <1>1, OneCallKeepsOthers DEF CallInv
<1>4. TabsOK' /\ OutcomesOK' /\ SentOK'
    BY <1>1, HistoryStays DEF CallInv, TabsOK
<1>5. QED BY <1>2, <1>3, <1>4 DEF CallInv

LEMMA ConsentRequired ==
    ASSUME NEW o, NEW i, o.answer = "", o.author = "nothing", o.safe = TRUE,
           o.reason = "consent_required", o.client = "none"
    PROVE  OutcomeOK(o, i)
BY NotProviders, NoAnswer DEF OutcomeOK, ReasonOK

LEMMA PendingKeeps ==
    ASSUME CallInv, ShowPending
    PROVE  CallInv'
<1>1. PICK op \in Operations : op = "hint"
    BY DEF ShowPending
<1>2. PICK c : c = call[op]
    OBVIOUS
<1>3. c \in Call /\ c.at = "clicked" /\ c # NoCall /\ CallOK(op, c, installed, preference)
    BY <1>1, <1>2, NoCallType DEF CallInv, TypeOK, CallsOK, ShowPending
<1>4. UNCHANGED <<installed, preference, tab, service, diagnosis, sent, crossed, bounds>>
    BY DEF ShowPending
<1>5. CASE MissingConsent(c, preference)
  <2>1. End(op, c, "nothing", TRUE, "consent_required")
      BY <1>1, <1>2, <1>5 DEF ShowPending
  <2>2. c.client = "none" /\ c.answer = ""
      BY <1>3 DEF CallOK
  <2>3. "consent_required" \in Reasons
      BY DEF Reasons
  <2>4. QED BY <1>3, <1>4, <2>1, <2>2, <2>3, EndKeeps, ConsentRequired
<1>6. CASE ~MissingConsent(c, preference)
  <2>1. PICK d : d = [c EXCEPT !.at = "shown"]
      OBVIOUS
  <2>2. d \in Call /\ d.at = "shown" /\ d.client = c.client /\ d.answer = c.answer
        /\ d.reason = c.reason /\ d.mark = c.mark /\ d.risky = c.risky
      BY <1>3, <2>1 DEF Call, NoCall
  <2>3. CallOK(op, d, installed, preference)
      BY <1>3, <2>2 DEF CallOK, ForModel
  <2>4. Goto(op, d) /\ UNCHANGED outcomes
      BY <1>1, <1>2, <1>6, <2>1 DEF ShowPending
  <2>5. QED BY <1>4, <2>2, <2>3, <2>4, QuietlyGoOn
<1>7. QED BY <1>5, <1>6

\* One reading of the profile decides which provider is asked for its
\* availability, and for which the consent is looked at.
LEMMA CheckKeeps ==
    ASSUME CallInv, NEW op \in Operations, Check(op)
    PROVE  CallInv'
<1>1. PICK b : b = call[op]
    OBVIOUS
<1>2. /\ b \in Call /\ b.at \in {"clicked", "shown"} /\ b # NoCall
      /\ CallOK(op, b, installed, preference)
    BY <1>1, NoCallType DEF CallInv, TypeOK, CallsOK, Check
<1>3. PICK c : c = [b EXCEPT !.provider = preference, !.checked = preference, !.seen = changes]
    OBVIOUS
<1>4. /\ c \in Call /\ c.at = b.at /\ c.provider = preference /\ c.checked = preference
      /\ c.client = b.client /\ c.answer = b.answer /\ c.reason = b.reason
      /\ c.mark = b.mark /\ c.risky = b.risky
  <2>1. preference \in Providers /\ changes \in Nat
      BY BoundsType DEF CallInv, TypeOK
  <2>2. QED BY <1>2, <1>3, <2>1 DEF Call, NoCall
<1>5. c # NoCall
    BY <1>2, <1>4, NoCallType
<1>6. b.client = "none" /\ b.answer = "" /\ b.reason = "" /\ ForModel(b, preference)
    BY <1>2 DEF CallOK
<1>7. UNCHANGED <<installed, preference, tab, service, diagnosis, sent, crossed, bounds>>
    BY DEF Check
<1>8. CASE MissingConsent(c, preference)
  <2>1. End(op, c, "nothing", TRUE, "consent_required")
      BY <1>1, <1>3, <1>8 DEF Check
  <2>2. "consent_required" \in Reasons
      BY DEF Reasons
  <2>3. QED BY <1>4, <1>5, <1>6, <1>7, <2>1, <2>2, EndKeeps, ConsentRequired
<1>9. CASE ~MissingConsent(c, preference)
  <2>1. PICK d : d = IF Availability(installed, preference).available
                     THEN [c EXCEPT !.at = "checked"]
                     ELSE [c EXCEPT !.at = "closed", !.reason = WhyNotCalled(op)]
      OBVIOUS
  <2>2. Goto(op, d) /\ UNCHANGED outcomes
      BY <1>1, <1>3, <1>9, <2>1 DEF Check
  <2>3. CASE Availability(installed, preference).available
    <3>1. d \in Call /\ d.at = "checked" /\ d.provider = c.provider
          /\ d.checked = c.checked /\ d.client = c.client /\ d.answer = c.answer
          /\ d.reason = c.reason /\ d.mark = c.mark /\ d.risky = c.risky
        BY <1>4, <1>5, <2>1, <2>3 DEF Call, NoCall
    <3>2. ForModel(d, d.provider)
        BY <1>4, <1>6, <3>1 DEF ForModel
    <3>3. Permitted(installed, d.provider, d.mark)
        BY <1>4, <1>9, <2>3, <3>1 DEF Permitted, MissingConsent
    <3>4. CallOK(op, d, installed, preference)
        BY <1>4, <1>6, <3>1, <3>2, <3>3 DEF CallOK
    <3>5. QED BY <1>7, <2>2, <3>1, <3>4, QuietlyGoOn
  <2>4. CASE ~Availability(installed, preference).available
    <3>1. d \in Call /\ d.at = "closed" /\ d.provider = c.provider
          /\ d.client = c.client /\ d.answer = c.answer
          /\ d.reason = WhyNotCalled(op) /\ d.mark = c.mark /\ d.risky = c.risky
      <4>1. WhyNotCalled(op) \in Reasons
          BY WhyReason
      <4>2. QED BY <1>4, <1>5, <2>1, <2>4, <4>1 DEF Call, NoCall
    <3>2. ForModel(d, d.provider)
        BY <1>4, <1>6, <3>1 DEF ForModel
    <3>3. CallOK(op, d, installed, preference)
        BY <1>4, <1>6, <2>4, <3>1, <3>2 DEF CallOK
    <3>4. QED BY <1>7, <2>2, <3>1, <3>3, QuietlyGoOn
  <2>5. QED BY <2>3, <2>4
<1>10. QED BY <1>8, <1>9

\* The end of a call: only a text without a reason that is safe is kept.
LEMMA FinishKeeps ==
    ASSUME CallInv, NEW op \in Operations, Finish(op)
    PROVE  CallInv'
<1>1. PICK c : c = call[op]
    OBVIOUS
<1>2. /\ c \in Call /\ c.at = "closed" /\ c # NoCall
      /\ CallOK(op, c, installed, preference)
    BY <1>1, NoCallType DEF CallInv, TypeOK, CallsOK, Finish
<1>3. /\ c.provider \in Providers /\ c.reason \in Reasons
    BY <1>2, CallFields
<1>4. UNCHANGED <<installed, preference, tab, service, diagnosis, sent, crossed, bounds>>
    BY DEF Finish
<1>5. PICK why : why = ReasonOf(AdapterIn(installed, c.provider), op, c.answer)
    OBVIOUS
<1>6. /\ c.provider # "openai" => c.client # "open"
      /\ \/ /\ c.answer = "" /\ c.reason = WhyNotCalled(op)
            /\ ~Availability(installed, c.provider).available
         \/ /\ c.answer \in Anything /\ c.reason = why
            /\ Availability(installed, c.provider).available
    BY <1>2, <1>5 DEF CallOK
<1>7. /\ c.answer \in Anything =>
            /\ why = "" => c.answer \in Texts
            /\ c.answer = "safe" => why = ""
  <2>1. AdapterIn(installed, c.provider) \in Adapters
      BY <1>3, AdapterType DEF CallInv
  <2>2. QED BY <1>5, <2>1, AnswerReason
<1>8. CASE c.reason = "" /\ IsSafe(c.answer)
  <2>1. End(op, c, c.provider, TRUE, "")
      BY <1>1, <1>8 DEF Finish
  <2>2. c.answer \in Anything /\ c.answer \in Texts /\ why = ""
        /\ Availability(installed, c.provider).available
      BY <1>6, <1>7, <1>8, WhyReason
  <2>3. ASSUME NEW o, o.op = op, o.provider = c.provider, o.answer = c.answer,
               o.author = c.provider, o.safe = TRUE, o.reason = "", o.client = c.client
        PROVE  OutcomeOK(o, installed)
    <3>1. ReasonOK(o, installed)
        BY <1>5, <2>2, <2>3 DEF ReasonOK
    <3>2. QED BY <1>3, <1>6, <2>2, <2>3, <3>1, NotProviders DEF OutcomeOK
  <2>4. "" \in Reasons
      BY DEF Reasons
  <2>5. QED BY <1>2, <1>3, <1>4, <2>1, <2>3, <2>4, EndKeeps
<1>9. CASE ~(c.reason = "" /\ IsSafe(c.answer))
  <2>1. PICK fate : fate = IF c.reason = "" THEN "unsafe_output" ELSE c.reason
      OBVIOUS
  <2>2. fate \in Reasons
      BY <1>3, <2>1 DEF Reasons
  <2>3. c.answer # "safe"
    <3>1. c.answer = "safe" => c.answer \in Anything /\ why = ""
        BY <1>6, <1>7, NoAnswer
    <3>2. c.answer = "safe" => c.reason = ""
        BY <1>6, <3>1, NoAnswer
    <3>3. c.answer = "safe" => IsSafe(c.answer)
        BY DEF IsSafe
    <3>4. QED BY <1>9, <3>2, <3>3
  <2>4. PICK author \in {"rule_based", "safe_default", "nothing"} :
            /\ End(op, c, author, TRUE, fate)
            /\ author \in {"rule_based", "safe_default"} <=> op = "hint"
    <3>1. CASE op = "hint"
      <4>1. PICK x \in {"rule_based", "safe_default"} : End(op, c, x, TRUE, fate)
          BY <1>1, <1>9, <2>1, <3>1 DEF Finish
      <4>2. QED BY <3>1, <4>1
    <3>2. CASE op # "hint"
      <4>1. End(op, c, "nothing", TRUE, fate)
          BY <1>1, <1>9, <2>1, <3>2 DEF Finish
      <4>2. QED BY <3>2, <4>1
    <3>3. QED BY <3>1, <3>2
  <2>5. ASSUME NEW o, o.op = op, o.provider = c.provider, o.answer = c.answer,
               o.author = author, o.safe = TRUE, o.reason = fate, o.client = c.client
        PROVE  OutcomeOK(o, installed)
    <3>1. ReasonOK(o, installed)
      <4>1. CASE c.answer \in Anything
          BY <1>5, <1>6, <2>1, <2>5, <4>1, NoAnswer DEF ReasonOK
      <4>2. CASE c.answer = "" /\ c.reason = WhyNotCalled(op)
          BY <1>6, <2>1, <2>5, <4>2, NoAnswer, WhyReason DEF ReasonOK
      <4>3. QED BY <1>6, <4>1, <4>2
    <3>2. author \notin Providers
        BY <2>4, NotProviders
    <3>3. QED BY <1>6, <2>3, <2>4, <2>5, <3>1, <3>2 DEF OutcomeOK
  <2>6. author \in Providers \cup {"rule_based", "safe_default", "nothing"}
      OBVIOUS
  <2>7. QED BY <1>2, <1>4, <2>2, <2>4, <2>5, <2>6, EndKeeps
<1>10. QED BY <1>8, <1>9

-----------------------------------------------------------------------------
(* The adapters, the services and the doctor *)

LEMMA AnswersType ==
    ASSUME NEW s \in States
    PROVE  Answers(s) \subseteq Anything
BY DEF Answers, States, Anything, Texts, Failures

LEMMA SendKeeps ==
    ASSUME CallInv, NEW op \in Operations, Send(op)
    PROVE  CallInv'
<1>1. PICK c : c = call[op]
    OBVIOUS
<1>2. /\ c \in Call /\ c.at = "checked" /\ c # NoCall
      /\ CallOK(op, c, installed, preference)
    BY <1>1, NoCallType DEF CallInv, TypeOK, CallsOK, Send
<1>3. /\ c.provider \in Providers /\ c.checked \in Providers
      /\ c.mark \in Providers \cup {"off"} /\ c.risky \in BOOLEAN
    BY <1>2, CallFields
<1>4. PICK x \in Answers(service[c.provider]) : Goto(op, Answered(c, x))
    BY <1>1 DEF Send
<1>5. x \in Anything
    BY <1>3, AnswersType DEF CallInv, TypeOK
<1>6. PICK d : d = Answered(c, x)
    OBVIOUS
<1>7. /\ d \in Call /\ d.at = "received" /\ d.client = "open" /\ d.answer = x
      /\ d.provider = c.provider /\ d.checked = c.checked /\ d.mark = c.mark
      /\ d.risky = c.risky
  <2>1. d = [c EXCEPT !.at = "received", !.client = "open", !.answer = x, !.seen = changes]
      BY <1>6 DEF Answered
  <2>2. changes \in Nat
      BY BoundsType DEF CallInv
  <2>3. QED BY <1>2, <1>5, <2>1, <2>2 DEF Call, NoCall, Anything
<1>8. /\ ForModel(c, c.provider) /\ c.checked = c.provider
      /\ Permitted(installed, c.provider, c.mark)
    BY <1>2 DEF CallOK
<1>9. CallOK(op, d, installed, preference)
    BY <1>5, <1>7, <1>8 DEF CallOK, ForModel
<1>10. PICK r : r = Request(c)
    OBVIOUS
<1>11. /\ r \in [mark: Providers \cup {"off"}, to: Providers,
                 checked: Providers, risky: BOOLEAN]
       /\ RequestOK(r, installed)
    BY <1>3, <1>8, <1>10 DEF Request, RequestOK, ForModel
<1>12. sent' \in {sent, sent \cup {r}} /\ Goto(op, d)
    BY <1>1, <1>4, <1>6, <1>10 DEF Send
<1>13. UNCHANGED <<installed, preference, tab, service, diagnosis, crossed,
                   outcomes, bounds>>
    BY DEF Send, elsewhere
<1>14. QED BY <1>7, <1>9, <1>11, <1>12, <1>13, GoOnKeeps

LEMMA CollectKeeps ==
    ASSUME CallInv, NEW op \in Operations, Collect(op)
    PROVE  CallInv'
<1>1. PICK c : c = call[op]
    OBVIOUS
<1>2. /\ c \in Call /\ c.at = "received" /\ c # NoCall
      /\ CallOK(op, c, installed, preference)
    BY <1>1, NoCallType DEF CallInv, TypeOK, CallsOK, Collect
<1>3. c.provider \in Providers /\ c.client \in {"none", "open", "closed"}
    BY <1>2, CallFields
<1>4. /\ c.answer \in Anything /\ ForModel(c, c.provider)
      /\ Availability(installed, c.provider).available
    BY <1>2 DEF CallOK, Permitted
<1>5. PICK why : why = ReasonOf(Adapter(c.provider), op, c.answer)
    OBVIOUS
<1>6. PICK k : k = IF c.provider = "openai" THEN c.client ELSE "closed"
    OBVIOUS
<1>7. PICK d : d = [c EXCEPT !.at = "closed", !.reason = why, !.client = k]
    OBVIOUS
<1>8. Goto(op, d)
    BY <1>1, <1>5, <1>6, <1>7 DEF Collect
<1>9. why \in Reasons /\ why = ReasonOf(AdapterIn(installed, c.provider), op, c.answer)
    BY <1>3, <1>4, <1>5, AdapterType, AnswerReason DEF CallInv
<1>10. /\ d \in Call /\ d.at = "closed" /\ d.reason = why /\ d.client = k
       /\ d.answer = c.answer /\ d.provider = c.provider /\ d.mark = c.mark
       /\ d.risky = c.risky
    BY <1>2, <1>3, <1>6, <1>7, <1>9 DEF Call, NoCall
<1>11. CallOK(op, d, installed, preference)
    BY <1>4, <1>6, <1>9, <1>10 DEF CallOK, ForModel
<1>12. UNCHANGED <<installed, preference, tab, service, diagnosis, sent,
                   crossed, outcomes, bounds>>
    BY DEF Collect, elsewhere
<1>13. QED BY <1>8, <1>10, <1>11, <1>12, QuietlyGoOn

Diagnosis == [healthy: BOOLEAN, reason: Reasons, seen: Nat,
              detail: {"", "generation_probe_unsupported"}]

LEMMA DiagnosedType ==
    ASSUME TypeOK, NEW why \in Reasons, NEW detail \in {"", "generation_probe_unsupported"}
    PROVE  /\ Diagnosed(why, detail) \in Diagnosis
           /\ Diagnosed(why, detail).reason = why
           /\ Diagnosed(why, detail).detail = detail
           /\ Diagnosed(why, detail).seen = changes
BY BoundsType DEF Diagnosed, Diagnosis

LEMMA OnlyNoReasonIsHealthy ==
    ASSUME NEW why, NEW detail
    PROVE  /\ Diagnosed(why, detail).healthy <=> why = ""
           /\ Diagnosed(why, detail).seen = changes
<1>1. Diagnosed(why, detail).healthy = (why = "")
    BY DEF Diagnosed
<1>2. Diagnosed(why, detail).seen = changes
    BY DEF Diagnosed
<1>3. QED BY <1>1, <1>2, Zenon

LEMMA ListedType ==
    ASSUME NEW a \in Adapters, NEW s \in States, NEW x \in Listings(a, s)
    PROVE  /\ Listed(a, x) \in Reasons
           /\ x \in Failures \cup {"ready", "absent", "not_ready"}
<1>1. x \in Failures \cup {"ready", "absent", "not_ready"}
    BY DEF Listings, States, Failures, Adapters
<1>2. CASE x \in Failures
    BY <1>1, <1>2, FailureReason DEF Listed
<1>3. CASE x \notin Failures
    BY <1>1, <1>3 DEF Listed, Reasons, Configuration
<1>4. QED BY <1>1, <1>2, <1>3

LEMMA ProbeType ==
    ASSUME TypeOK, NEW s \in States, NEW y \in ProbeAnswers(s)
    PROVE  Probed(y) \in Diagnosis
<1>1. "transformers_http" \in Adapters
    BY DEF Adapters
<1>2. CASE y = "404"
  <2>1. "provider_unavailable" \in Reasons
      BY DEF Reasons
  <2>2. QED BY <1>2, <2>1, DiagnosedType DEF Probed
<1>3. CASE y # "404" /\ y \in Failures
    BY <1>1, <1>3, FailureReason, DiagnosedType DEF Probed
<1>4. CASE y # "404" /\ y \notin Failures
  <2>1. (IF y = "safe" THEN "" ELSE "invalid_structured_response") \in Reasons
      BY DEF Reasons
  <2>2. QED BY <1>4, <2>1, DiagnosedType DEF Probed
<1>5. QED BY <1>2, <1>3, <1>4

LEMMA DiagnosesType ==
    ASSUME TypeOK, NEW p \in Providers, NEW probe \in BOOLEAN, NEW d \in Diagnoses(p, probe)
    PROVE  d \in Diagnosis
<1>1. Adapter(p) \in Adapters /\ service[p] \in States
    BY AdapterType DEF TypeOK
<1>2. CASE ~Availability(installed, p).available
  <2>1. d = Diagnosed("not_configured", "")
      BY <1>2 DEF Diagnoses
  <2>2. "not_configured" \in Reasons
      BY DEF Reasons, Configuration
  <2>3. QED BY <2>1, <2>2, DiagnosedType
<1>3. CASE Availability(installed, p).available
  <2>1. PICK x \in Listings(Adapter(p), service[p]) :
            \/ \E y \in ProbeAnswers(service[p]) : d = Probed(y)
            \/ d = Diagnosed(Listed(Adapter(p), x), "")
      BY <1>3 DEF Diagnoses
  <2>2. Listed(Adapter(p), x) \in Reasons
      BY <1>1, ListedType
  <2>3. QED BY <1>1, <2>1, <2>2, ProbeType, DiagnosedType, ZenonT(60)
<1>4. QED BY <1>2, <1>3

\* A service or what is known of it changes; no call is concerned.
LEMMA ServiceKeeps ==
    ASSUME CallInv,
           UNCHANGED <<installed, preference, dropdown, consent, changing, call,
                       sent, crossed, outcomes>>,
           service' \in [Providers -> States], diagnosis' \in [Providers -> Diagnosis],
           {changes', calls', events'} \subseteq Nat
    PROVE  CallInv'
<1>1. TypeOK'
    BY DEF CallInv, TypeOK, Diagnosis
<1>2. CallsOK' /\ TabsOK' /\ SentOK' /\ OutcomesOK'
    BY DEF CallInv, CallsOK, TabsOK, SentOK, OutcomesOK
<1>3. QED BY <1>1, <1>2 DEF CallInv

LEMMA ServiceChangeKeeps ==
    ASSUME CallInv, NEW p \in Providers, NEW s \in States, Change(p, s)
    PROVE  CallInv'
<1>1. {changes', calls', events'} \subseteq Nat
  <2>1. changes' \in Nat /\ calls' \in Nat /\ events' \in Nat
      BY BoundsType DEF CallInv, Change, Bounded
  <2>2. QED BY <2>1, BoundsType
<1>2. service' \in [Providers -> States] /\ diagnosis' \in [Providers -> Diagnosis]
    BY DEF CallInv, TypeOK, Diagnosis, Change
<1>3. UNCHANGED <<installed, preference, dropdown, consent, changing, call,
                  sent, crossed, outcomes>>
    BY DEF Change, tab, history
<1>4. QED BY <1>1, <1>2, <1>3, ServiceKeeps

LEMMA DoctorKeeps ==
    ASSUME CallInv, NEW p \in Providers, Doctor(p)
    PROVE  CallInv'
<1>1. {changes', calls', events'} \subseteq Nat
  <2>1. changes' \in Nat /\ calls' \in Nat /\ events' \in Nat
      BY BoundsType DEF CallInv, Doctor, Bounded
  <2>2. QED BY <2>1, BoundsType
<1>2. PICK probe \in BOOLEAN :
          \E d \in Diagnoses(p, probe) : diagnosis' = [diagnosis EXCEPT ![p] = d]
    BY DEF Doctor
<1>3. PICK d \in Diagnosis : diagnosis' = [diagnosis EXCEPT ![p] = d]
    BY <1>2, DiagnosesType DEF CallInv
<1>4. service' \in [Providers -> States] /\ diagnosis' \in [Providers -> Diagnosis]
    BY <1>3 DEF CallInv, TypeOK, Diagnosis, Doctor
<1>5. UNCHANGED <<installed, preference, dropdown, consent, changing, call,
                  sent, crossed, outcomes>>
    BY DEF Doctor, tab, history
<1>6. QED BY <1>1, <1>4, <1>5, ServiceKeeps

LEMMA CallInvStep == CallInv /\ [Next]_vars => CallInv'
<1> SUFFICES ASSUME CallInv, [Next]_vars PROVE CallInv'
    OBVIOUS
<1>1. CASE UNCHANGED vars
    BY <1>1 DEF vars, CallInv, TypeOK, CallsOK, TabsOK, SentOK, OutcomesOK
<1>2. CASE Next
    BY <1>2, SelectKeeps, ToggleKeeps, ChangeKeeps, ClickKeeps, PendingKeeps,
       CheckKeeps, SendKeeps, CollectKeeps, FinishKeeps, ServiceChangeKeeps,
       DoctorKeeps DEF Next, Proceed
<1>3. QED BY <1>1, <1>2

LEMMA CallInvReachable == Spec => []CallInv
BY InitOK, CallInvStep, PTL DEF Spec

-----------------------------------------------------------------------------
(* The theorems *)

\* Every variable keeps its type.
THEOREM TypeCorrect == Spec => []TypeOK
<1>1. CallInv => TypeOK
    BY DEF CallInv
<1>2. QED BY <1>1, CallInvReachable, PTL

\* An endpoint that may be asked and leads off the device says so, also behind
\* a tunnel (gemma_endpoint_availability).
LEMMA OffDevice ==
    ASSUME NEW i \in Installations, NEW p, Availability(i, p).available, LeavesDevice(i, p)
    PROVE  Availability(i, p).off
<1>1. CASE p # "gemma"
    BY <1>1 DEF Availability, CloudAvailability
<1>2. CASE p = "gemma"
  <2>1. i.tunnel => i.deployment = "remote"
      BY ProviderAssumption
  <2>2. QED BY <1>2, <2>1 DEF Availability, GemmaAvailability, LeavesDevice, Loopback
<1>3. QED BY <1>1, <1>2

\* Nothing that the learner wrote leaves the device unless the checkbox was on
\* at the click, also through a tunnel whose URL looks local, and a request
\* goes to the provider whose availability was asked for
\* (gemma_endpoint_availability, validate_request, _generate).
THEOREM ConsentIsAsked == Spec => []NothingLeavesWithoutConsent
<1>1. CallInv => NothingLeavesWithoutConsent
    BY OffDevice DEF CallInv, TypeOK, SentOK, RequestOK, Permitted,
       NothingLeavesWithoutConsent
<1>2. QED BY <1>1, CallInvReachable, PTL

\* A consent is used for the model for which it was given, as long as no other
\* tab changes the model and the learner waits for the change: selected_provider
\* takes back the consent of its own tab.
THEOREM ConsentIsSpecific == Spec => []ConsentIsForSelectedModel
<1>1. CallInv => ConsentIsForSelectedModel
    BY DEF CallInv, SentOK, RequestOK, ForModel, ConsentIsForSelectedModel
<1>2. QED BY <1>1, CallInvReachable, PTL

\* A usable answer is used: its text is taken before the client is closed, and
\* no adapter with a managed client leaves it open (_managed_client).
THEOREM ClientsOutlive == Spec => []ClientOutlivesResponse
<1>1. CallInv => ClientOutlivesResponse
    BY DEF CallInv, OutcomesOK, OutcomeOK, ClientOutlivesResponse
<1>2. QED BY <1>1, CallInvReachable, PTL

\* No text that is unsafe or not valid is shown or stored, and a learner who
\* asks for a hint gets one whatever happens to the provider (_generate,
\* generate_code_review, generate_personalized_quiz).
THEOREM SafeTextOnly == Spec => []OnlySafeTextIsKept
<1>1. CallInv => OnlySafeTextIsKept
    BY DEF CallInv, OutcomesOK, OutcomeOK, OnlySafeTextIsKept
<1>2. QED BY <1>1, CallInvReachable, PTL

-----------------------------------------------------------------------------
(* The doctor and the application                                          *)
(*                                                                         *)
(* What either of them found is numbered by the changes of the services.   *)
(* A past gives the states that the services had then: what was found must *)
(* be possible in them.                                                    *)

Past == [Nat -> [Providers -> States]]

\* The one answer of a service that is not up, and how an adapter names it.
FailureOf(s) ==
    CASE s = "down" -> "refused"
      [] s = "denied" -> "403"
      [] s = "missing" -> "404"
      [] s = "loading" -> "503"
      [] s = "overloaded" -> "429"

Cause(a, s) == ReasonOfFailure(a, FailureOf(s))

\* The doctor can have found d of p in an installation i, where p had state s.
FoundIn(p, d, i, s) ==
    /\ d.healthy \/ d.reason # "" => p # "openai"
    /\ d.healthy => Availability(i, p).available /\ s \in {"up", "overloaded"}
    /\ d.reason # "" /\ d.detail = "" /\ s # "up" =>
        ~Availability(i, p).available \/ d.reason = Cause(AdapterIn(i, p), s)

AnsweredIn(x, s) == x # "" => x \in Answers(s)

DiagnosesFit(h) ==
    \A p \in Providers :
        /\ diagnosis[p].seen <= changes
        /\ FoundIn(p, diagnosis[p], installed, h[diagnosis[p].seen][p])

OutcomesFit(h) ==
    \A o \in outcomes :
        /\ o.seen <= changes
        /\ AnsweredIn(o.answer, h[o.seen][o.provider])

CallsFit(h) ==
    \A op \in Operations :
        call[op] # NoCall =>
            /\ call[op].seen <= changes
            /\ AnsweredIn(call[op].answer, h[call[op].seen][call[op].provider])

Fits(h) == h[changes] = service /\ DiagnosesFit(h) /\ OutcomesFit(h) /\ CallsFit(h)

PastInv == \E h \in Past : Fits(h)

\* No answer of a service that is up or overloaded is for the operator.
LEMMA UsableAnswer ==
    ASSUME NEW a \in Adapters \ {"openai"}, NEW op, NEW s \in {"up", "overloaded"},
           NEW x \in Answers(s)
    PROVE  ReasonOf(a, op, x) \notin Configuration
<1>1. CASE s = "overloaded"
  <2>1. x = "429"
      BY <1>1 DEF Answers
  <2>2. ReasonOf(a, op, x) = "rate_or_quota_exceeded"
      BY <2>1 DEF ReasonOf, ReasonOfFailure, StatusReason, Failures, Statuses, Adapters
  <2>3. QED BY <2>2 DEF Configuration
<1>2. CASE s = "up"
  <2>1. CASE x \in Texts
    <3>1. x \notin Failures
        BY <2>1 DEF Texts, Failures
    <3>2. ReasonOf(a, op, x) \in {"", ReasonOfText(a, op, x)}
        BY <3>1 DEF ReasonOf
    <3>3. ReasonOfText(a, op, x) \notin Configuration
        BY DEF ReasonOfText, Configuration
    <3>4. QED BY <3>2, <3>3 DEF Configuration
  <2>2. CASE x \in {"400", "413", "418", "499", "503", "503_parsing", "504"}
    <3>1. x \in Failures /\ x \in Statuses
        BY <2>2 DEF Failures, Statuses
    <3>2. ReasonOf(a, op, x) \in {"invalid_structured_response", StatusReason(a, x)}
        BY <3>1 DEF ReasonOf, ReasonOfFailure, Adapters
    <3>3. StatusReason(a, x) \in {"invalid_request", "unknown_provider_error", "timeout",
                                  "provider_unavailable"}
        BY <2>2 DEF StatusReason
    <3>4. QED BY <3>2, <3>3 DEF Configuration
  <2>3. CASE x \in {"timeout", "broken", "closed", "runtime"}
    <3>1. x \in Failures /\ x \notin Statuses /\ x # "503_parsing" /\ x # "refused"
        BY <2>3 DEF Failures, Statuses
    <3>2. ReasonOf(a, op, x) \in {"timeout", "client_lifecycle_error",
                                  "unknown_provider_error", "provider_unavailable"}
        BY <3>1 DEF ReasonOf, ReasonOfFailure
    <3>3. QED BY <3>2 DEF Configuration
  <2>4. QED BY <1>2, <2>1, <2>2, <2>3 DEF Answers
<1>3. QED BY <1>1, <1>2

\* A service that is not up answers each adapter in one way.
LEMMA OneCause ==
    ASSUME NEW a \in Adapters, NEW op, NEW s \in States \ {"up"}, NEW x \in Answers(s)
    PROVE  ReasonOf(a, op, x) = Cause(a, s) /\ Cause(a, s) # ""
<1>1. x = FailureOf(s) /\ x \in Failures
    BY DEF Answers, FailureOf, States, Failures
<1>2. ReasonOf(a, op, x) = ReasonOfFailure(a, x)
    BY <1>1 DEF ReasonOf
<1>3. QED BY <1>1, <1>2, FailureReason DEF Cause

\* What the doctor sees in the list of the models.
LEMMA ListedCause ==
    ASSUME NEW a \in Adapters \ {"openai"}, NEW s \in States, NEW x \in Listings(a, s)
    PROVE  /\ Listed(a, x) = "" => s \in {"up", "overloaded"}
           /\ Listed(a, x) # "" /\ s # "up" => Listed(a, x) = Cause(a, s)
<1>1. a \in {"gemini", "gemma", "transformers_http"}
    BY DEF Adapters
<1>2. CASE s = "up"
    BY <1>2
<1>3. CASE s = "down"
  <2>1. x = "refused"
      BY <1>3 DEF Listings
  <2>2. Listed(a, x) = ReasonOfFailure(a, "refused")
      BY <2>1 DEF Listed, Failures
  <2>3. QED BY <1>3, <2>2, FailureReason DEF Cause, FailureOf, Failures
<1>4. CASE s = "denied"
  <2>1. x = "403"
      BY <1>4 DEF Listings
  <2>2. Listed(a, x) = ReasonOfFailure(a, "403")
      BY <2>1 DEF Listed, Failures
  <2>3. QED BY <1>4, <2>2, FailureReason DEF Cause, FailureOf, Failures
<1>5. CASE s = "missing"
  <2>1. x = IF a = "gemini" THEN "404" ELSE "absent"
      BY <1>5 DEF Listings
  <2>2. ReasonOfFailure(a, "404") = "model_not_found"
      BY <1>1 DEF ReasonOfFailure, StatusReason, Statuses, Failures
  <2>3. Listed(a, x) = "model_not_found"
      BY <2>1, <2>2 DEF Listed, Failures
  <2>4. Cause(a, s) = "model_not_found"
      BY <1>5, <2>2 DEF Cause, FailureOf
  <2>5. QED BY <2>3, <2>4
<1>6. CASE s = "loading"
  <2>1. x = IF a = "transformers_http" THEN "not_ready" ELSE "503"
      BY <1>6 DEF Listings
  <2>2. ReasonOfFailure(a, "503") = "provider_unavailable"
      BY <1>1 DEF ReasonOfFailure, StatusReason, Statuses, Failures
  <2>3. Listed(a, x) = "provider_unavailable"
      BY <2>1, <2>2 DEF Listed, Failures
  <2>4. Cause(a, s) = "provider_unavailable"
      BY <1>6, <2>2 DEF Cause, FailureOf
  <2>5. QED BY <2>3, <2>4
<1>7. CASE s = "overloaded"
  <2>1. x \in {"ready", "429"}
      BY <1>7 DEF Listings
  <2>2. x = "ready" => Listed(a, x) = ""
      BY DEF Listed, Failures
  <2>3. x = "429" => Listed(a, x) = ReasonOfFailure(a, "429")
      BY DEF Listed, Failures
  <2>4. QED BY <1>7, <2>1, <2>2, <2>3 DEF Cause, FailureOf
<1>8. QED BY <1>2, <1>3, <1>4, <1>5, <1>6, <1>7 DEF States

\* What the generation probe of an overloaded server finds.
LEMMA ProbeCause ==
    ASSUME TypeOK, NEW y \in ProbeAnswers("overloaded")
    PROVE  /\ ~Probed(y).healthy /\ Probed(y).seen = changes
           /\ Probed(y).detail = "" =>
                Probed(y).reason = Cause("transformers_http", "overloaded")
<1>1. y \in {"429", "404"}
    BY DEF ProbeAnswers, Answers
<1>2. CASE y = "404"
  <2>1. Probed(y) = Diagnosed("provider_unavailable", "generation_probe_unsupported")
      BY <1>2 DEF Probed
  <2>2. "provider_unavailable" \in Reasons
      BY DEF Reasons
  <2>3. /\ Probed(y).seen = changes
        /\ Probed(y).detail = "generation_probe_unsupported"
      BY <2>1 DEF Diagnosed
  <2>4. ~Probed(y).healthy
    <3>1. "provider_unavailable" # ""
        OBVIOUS
    <3>2. QED BY <2>1, <3>1, OnlyNoReasonIsHealthy, Zenon
  <2>5. QED BY <2>3, <2>4
<1>3. CASE y = "429"
  <2>1. ReasonOfFailure("transformers_http", "429") # ""
      BY FailureReason DEF Adapters, Failures
  <2>2. Probed(y) = Diagnosed(ReasonOfFailure("transformers_http", "429"), "")
      BY <1>3 DEF Probed, Failures
  <2>3. ReasonOfFailure("transformers_http", "429") \in Reasons
      BY FailureReason DEF Adapters, Failures
  <2>4. Probed(y).seen = changes
      BY <2>2, OnlyNoReasonIsHealthy, Zenon
  <2>5. Probed(y).reason = ReasonOfFailure("transformers_http", "429")
      BY <2>2, <2>3, DiagnosedType
  <2>6. ~Probed(y).healthy
      BY <2>1, <2>2, OnlyNoReasonIsHealthy
  <2>7. QED BY <2>4, <2>5, <2>6 DEF Cause, FailureOf
<1>4. QED BY <1>1, <1>2, <1>3

LEMMA DoctorFinds ==
    ASSUME TypeOK, NEW p \in Providers, p # "openai", NEW probe \in BOOLEAN,
           probe => Adapter(p) = "transformers_http", NEW d \in Diagnoses(p, probe)
    PROVE  d.seen = changes /\ FoundIn(p, d, installed, service[p])
<1>1. PICK a : a = Adapter(p)
    OBVIOUS
<1>2. PICK s : s = service[p]
    OBVIOUS
<1>3. a = AdapterIn(installed, p) /\ a \in Adapters \ {"openai"} /\ s \in States
  <2>1. a # "openai"
      BY <1>1 DEF Adapter
  <2>2. QED BY <1>1, <1>2, <2>1, AdapterType DEF TypeOK
<1>4. CASE ~Availability(installed, p).available
  <2>1. d = Diagnosed("not_configured", "")
      BY <1>4 DEF Diagnoses
  <2>2. QED BY <1>4, <2>1 DEF Diagnosed, FoundIn
<1>5. CASE Availability(installed, p).available
  <2>1. PICK x \in Listings(a, s) :
            d \in IF probe /\ Listed(a, x) = ""
                  THEN {Probed(y) : y \in ProbeAnswers(s)}
                  ELSE {Diagnosed(Listed(a, x), "")}
      BY <1>1, <1>2, <1>5 DEF Diagnoses
  <2>2. /\ Listed(a, x) = "" => s \in {"up", "overloaded"}
        /\ Listed(a, x) # "" /\ s # "up" => Listed(a, x) = Cause(a, s)
      BY <1>3, ListedCause
  <2>3. CASE probe /\ Listed(a, x) = ""
    <3>1. PICK y \in ProbeAnswers(s) : d = Probed(y)
        BY <2>1, <2>3
    <3>2. d.seen = changes
        BY <3>1 DEF Probed, Diagnosed
    <3>3. CASE s = "up"
        BY <1>2, <1>5, <3>2, <3>3, <2>3 DEF FoundIn
    <3>4. CASE s = "overloaded"
      <4>1. ~d.healthy /\ (d.detail = "" => d.reason = Cause("transformers_http", "overloaded"))
          BY <3>1, <3>4, ProbeCause
      <4>2. a = "transformers_http"
          BY <1>1, <2>3
      <4>3. QED BY <1>2, <1>3, <3>2, <3>4, <4>1, <4>2 DEF FoundIn
    <3>5. QED BY <2>2, <2>3, <3>3, <3>4
  <2>4. CASE ~(probe /\ Listed(a, x) = "")
    <3>1. d = Diagnosed(Listed(a, x), "")
        BY <2>1, <2>4
    <3>2. /\ d.seen = changes /\ d.reason = Listed(a, x) /\ d.detail = ""
          /\ d.healthy = (Listed(a, x) = "")
        BY <3>1 DEF Diagnosed
    <3>3. QED BY <1>2, <1>3, <1>5, <2>2, <3>2 DEF FoundIn
  <2>5. QED BY <2>3, <2>4
<1>6. QED BY <1>4, <1>5

LEMMA PastInit == Init => PastInv
<1> SUFFICES ASSUME Init PROVE PastInv
    OBVIOUS
<1>1. PICK h : h = [n \in Nat |-> [p \in Providers |-> "up"]]
    OBVIOUS
<1>2. h \in Past
    BY <1>1 DEF Past, States
<1>3. changes = 1 /\ service = [p \in Providers |-> "up"]
    BY DEF Init
<1>4. h[changes] = service
    BY <1>1, <1>3
<1>5. DiagnosesFit(h)
  <2>1. \A p \in Providers : diagnosis[p] = NoDiagnosis
      BY DEF Init
  <2>2. ~NoDiagnosis.healthy
      BY Zenon DEF NoDiagnosis
  <2>3. NoDiagnosis.reason = ""
      BY DEF NoDiagnosis
  <2>4. NoDiagnosis.seen = 0
      BY DEF NoDiagnosis
  <2>5. \A p \in Providers : diagnosis[p].seen <= changes
      BY <1>3, <2>1, <2>4
  <2>6. \A p \in Providers : FoundIn(p, diagnosis[p], installed, h[diagnosis[p].seen][p])
      BY <2>1, <2>2, <2>3, Zenon DEF FoundIn
  <2>7. QED BY <2>5, <2>6 DEF DiagnosesFit
<1>6. OutcomesFit(h) /\ CallsFit(h)
    BY DEF Init, OutcomesFit, CallsFit
<1>7. QED BY <1>2, <1>4, <1>5, <1>6 DEF PastInv, Fits

LEMMA SameDiagnoses ==
    ASSUME NEW h, DiagnosesFit(h), UNCHANGED <<installed, diagnosis, changes>>
    PROVE  DiagnosesFit(h)'
BY DEF DiagnosesFit

LEMMA SameOutcomes ==
    ASSUME NEW h, OutcomesFit(h), UNCHANGED <<outcomes, changes>>
    PROVE  OutcomesFit(h)'
BY DEF OutcomesFit

LEMMA SameCalls ==
    ASSUME NEW h, CallsFit(h), UNCHANGED <<call, changes>>
    PROVE  CallsFit(h)'
BY DEF CallsFit

\* A call of one operation that fits takes its place.
LEMMA NewCallFits ==
    ASSUME TypeOK, NEW h, CallsFit(h), NEW op \in Operations, NEW c \in Call, Goto(op, c),
           c # NoCall => c.seen <= changes /\ AnsweredIn(c.answer, h[c.seen][c.provider]),
           changes' = changes
    PROVE  CallsFit(h)'
<1>1. \A q \in Operations : call'[q] = IF q = op THEN c ELSE call[q]
    BY OneCallChanges
<1>2. QED BY <1>1 DEF CallsFit

\* An outcome of a call that fits, fits.
LEMMA EndFits ==
    ASSUME TypeOK, NEW h, Fits(h), NEW op \in Operations, NEW c \in Call, c # NoCall,
           c.seen <= changes, AnsweredIn(c.answer, h[c.seen][c.provider]),
           NEW author, NEW why, End(op, c, author, TRUE, why),
           UNCHANGED <<installed, service, diagnosis, changes>>
    PROVE  Fits(h)'
<1>1. Goto(op, NoCall)
    BY DEF End
<1>2. CallsFit(h)'
    BY <1>1, NewCallFits, NoCallType DEF Fits
<1>3. DiagnosesFit(h)'
    BY SameDiagnoses DEF Fits
<1>4. PICK o : o = [op |-> op, provider |-> c.provider, answer |-> c.answer,
                    author |-> author, safe |-> TRUE, reason |-> why, seen |-> c.seen,
                    client |-> c.client]
    OBVIOUS
<1>5. outcomes' = outcomes \cup {o} /\ o.seen = c.seen /\ o.answer = c.answer
      /\ o.provider = c.provider
    BY <1>4 DEF End
<1>6. OutcomesFit(h)'
    BY <1>5 DEF Fits, OutcomesFit
<1>7. QED BY <1>2, <1>3, <1>6 DEF Fits

\* A call that goes on and fits.
LEMMA GoOnFits ==
    ASSUME TypeOK, NEW h, Fits(h), NEW op \in Operations, NEW c \in Call, Goto(op, c),
           c.seen <= changes, AnsweredIn(c.answer, h[c.seen][c.provider]),
           UNCHANGED <<installed, service, diagnosis, changes, outcomes>>
    PROVE  Fits(h)'
BY NewCallFits, SameDiagnoses, SameOutcomes DEF Fits

\* A call that is in progress, and how it fits.
LEMMA CallThatFits ==
    ASSUME CallInv, NEW h, Fits(h), NEW op \in Operations, NEW c, c = call[op], c # NoCall
    PROVE  /\ c \in Call /\ CallOK(op, c, installed, preference)
           /\ c.seen <= changes /\ AnsweredIn(c.answer, h[c.seen][c.provider])
BY DEF CallInv, TypeOK, CallsOK, Fits, CallsFit

LEMMA LearnerFits ==
    ASSUME CallInv, NEW h, Fits(h), NEW t \in Tabs,
           \/ \E p \in Providers : SelectProvider(t, p)
           \/ ToggleConsent(t)
           \/ SelectedProvider(t)
           \/ \E op \in Operations : Click(t, op)
    PROVE  Fits(h)'
<1>1. UNCHANGED <<installed, service, diagnosis, outcomes, changes>>
    BY DEF SelectProvider, ToggleConsent, SelectedProvider, Click, history, bounds
<1>2. DiagnosesFit(h)' /\ OutcomesFit(h)'
    BY <1>1, SameDiagnoses, SameOutcomes DEF Fits
<1>3. CallsFit(h)'
  <2>1. CASE \/ \E p \in Providers : SelectProvider(t, p)
             \/ ToggleConsent(t)
    <3>1. call' = call
        BY <2>1 DEF SelectProvider, ToggleConsent
    <3>2. QED BY <1>1, <3>1, SameCalls DEF Fits
  <2>2. CASE SelectedProvider(t)
    <3>1. ASSUME NEW op \in Operations, call'[op] # NoCall
          PROVE  /\ call'[op].seen <= changes
                 /\ AnsweredIn(call'[op].answer, h[call'[op].seen][call'[op].provider])
      <4>1. PICK c : c = call[op]
          OBVIOUS
      <4>2. PICK d : d = call'[op]
          OBVIOUS
      <4>3. d = IF c.at \in {"clicked", "shown"} THEN [c EXCEPT !.risky = TRUE] ELSE c
          BY <2>2, <4>1, <4>2 DEF SelectedProvider, Cross
      <4>4. c \in Call /\ c # NoCall
          BY <3>1, <4>1, <4>2, <4>3, NoCallType DEF CallInv, TypeOK
      <4>5. d.seen = c.seen /\ d.answer = c.answer /\ d.provider = c.provider
          BY <4>3, <4>4 DEF Call, NoCall
      <4>6. c.seen <= changes /\ AnsweredIn(c.answer, h[c.seen][c.provider])
          BY <4>1, <4>4, CallThatFits
      <4>7. QED BY <4>2, <4>5, <4>6
    <3>2. QED BY <1>1, <3>1 DEF CallsFit
  <2>3. ASSUME NEW op \in Operations, Click(t, op) PROVE CallsFit(h)'
    <3>1. PICK c : c = NewCall(t)
        OBVIOUS
    <3>2. c.seen = 0 /\ c.answer = ""
        BY <3>1, NewCallType DEF CallInv
    <3>3. c \in Call
        BY <3>1, NewCallType DEF CallInv
    <3>4. Goto(op, c)
        BY <2>3, <3>1 DEF Click
    <3>5. 0 <= changes
        BY BoundsType DEF CallInv
    <3>6. AnsweredIn(c.answer, h[c.seen][c.provider])
        BY <3>2 DEF AnsweredIn
    <3>7. QED BY <1>1, <3>2, <3>3, <3>4, <3>5, <3>6, NewCallFits DEF CallInv, Fits
  <2>4. QED BY <2>1, <2>2, <2>3
<1>4. QED BY <1>1, <1>2, <1>3 DEF Fits

LEMMA PendingFits ==
    ASSUME CallInv, NEW h, Fits(h), ShowPending
    PROVE  Fits(h)'
<1>1. PICK op \in Operations : op = "hint"
    BY DEF ShowPending
<1>2. PICK c : c = call[op]
    OBVIOUS
<1>3. c # NoCall
    BY <1>1, <1>2, NoCallType DEF ShowPending
<1>4. c \in Call /\ c.seen <= changes /\ AnsweredIn(c.answer, h[c.seen][c.provider])
    BY <1>2, <1>3, CallThatFits
<1>5. UNCHANGED <<installed, service, diagnosis, changes>>
    BY DEF ShowPending, bounds
<1>6. CASE End(op, c, "nothing", TRUE, "consent_required")
    BY <1>3, <1>4, <1>5, <1>6, EndFits DEF CallInv
<1>7. CASE Goto(op, [c EXCEPT !.at = "shown"]) /\ UNCHANGED outcomes
  <2>1. PICK d : d = [c EXCEPT !.at = "shown"]
      OBVIOUS
  <2>2. d \in Call /\ d.seen = c.seen /\ d.answer = c.answer /\ d.provider = c.provider
      BY <1>3, <1>4, <2>1 DEF Call, NoCall
  <2>3. QED BY <1>4, <1>5, <1>7, <2>1, <2>2, GoOnFits DEF CallInv
<1>8. QED BY <1>1, <1>2, <1>6, <1>7 DEF ShowPending

LEMMA CheckFits ==
    ASSUME CallInv, NEW h, Fits(h), NEW op \in Operations, Check(op)
    PROVE  Fits(h)'
<1>1. PICK b : b = call[op]
    OBVIOUS
<1>2. b # NoCall /\ b.at \in {"clicked", "shown"}
    BY <1>1, NoCallType DEF Check
<1>3. b \in Call /\ b.answer = ""
    BY <1>1, <1>2, CallThatFits DEF CallOK
<1>4. PICK c : c = [b EXCEPT !.provider = preference, !.checked = preference, !.seen = changes]
    OBVIOUS
<1>5. preference \in Providers /\ changes \in Nat
    BY BoundsType DEF CallInv, TypeOK
<1>6. c \in Call /\ c.at = b.at /\ c.seen = changes /\ c.answer = ""
    BY <1>2, <1>3, <1>4, <1>5 DEF Call, NoCall
<1>7. c # NoCall
    BY <1>2, <1>6, NoCallType
<1>8. UNCHANGED <<installed, service, diagnosis, changes>>
    BY DEF Check, bounds
<1>9. c.seen <= changes /\ AnsweredIn(c.answer, h[c.seen][c.provider])
  <2>1. c.seen = changes
      BY <1>6
  <2>2. c.seen <= changes
      BY <1>5, <2>1
  <2>3. AnsweredIn(c.answer, h[c.seen][c.provider])
      BY <1>6 DEF AnsweredIn
  <2>4. QED BY <2>2, <2>3
<1>10. CASE End(op, c, "nothing", TRUE, "consent_required")
    BY <1>6, <1>7, <1>8, <1>9, <1>10, EndFits DEF CallInv
<1>11. ASSUME NEW d \in {[c EXCEPT !.at = "checked"],
                         [c EXCEPT !.at = "closed", !.reason = WhyNotCalled(op)]},
              Goto(op, d), UNCHANGED outcomes
       PROVE  Fits(h)'
  <2>1. WhyNotCalled(op) \in Reasons
      BY WhyReason
  <2>2. d \in Call /\ d.seen = c.seen /\ d.answer = c.answer
      BY <1>6, <1>7, <1>11, <2>1 DEF Call, NoCall
  <2>3. AnsweredIn(d.answer, h[d.seen][d.provider])
      BY <1>6, <2>2 DEF AnsweredIn
  <2>4. QED BY <1>8, <1>9, <1>11, <2>2, <2>3, GoOnFits DEF CallInv
<1>12. QED BY <1>1, <1>4, <1>10, <1>11 DEF Check

LEMMA SendFits ==
    ASSUME CallInv, NEW h, Fits(h), NEW op \in Operations, Send(op)
    PROVE  Fits(h)'
<1>1. PICK c : c = call[op]
    OBVIOUS
<1>2. c # NoCall
    BY <1>1, NoCallType DEF Send
<1>3. c \in Call /\ c.provider \in Providers
    BY <1>1, <1>2, CallThatFits, CallFields
<1>4. PICK x \in Answers(service[c.provider]) : Goto(op, Answered(c, x))
    BY <1>1 DEF Send
<1>5. x \in Anything /\ changes \in Nat
    BY <1>3, AnswersType, BoundsType DEF CallInv, TypeOK
<1>6. PICK d : d = Answered(c, x)
    OBVIOUS
<1>7. d \in Call /\ d.seen = changes /\ d.answer = x /\ d.provider = c.provider
    BY <1>2, <1>3, <1>5, <1>6 DEF Answered, Call, NoCall, Anything
<1>8. h[d.seen][d.provider] = service[c.provider]
    BY <1>7 DEF Fits
<1>9. d.seen <= changes
    BY <1>5, <1>7
<1>10. AnsweredIn(d.answer, h[d.seen][d.provider])
    BY <1>4, <1>7, <1>8 DEF AnsweredIn
<1>11. UNCHANGED <<installed, service, diagnosis, changes, outcomes>>
    BY DEF Send, elsewhere, bounds
<1>12. QED BY <1>4, <1>6, <1>7, <1>9, <1>10, <1>11, GoOnFits DEF CallInv

LEMMA CollectFits ==
    ASSUME CallInv, NEW h, Fits(h), NEW op \in Operations, Collect(op)
    PROVE  Fits(h)'
<1>1. PICK c : c = call[op]
    OBVIOUS
<1>2. c # NoCall /\ c.at = "received"
    BY <1>1, NoCallType DEF Collect
<1>3. /\ c \in Call /\ CallOK(op, c, installed, preference)
      /\ c.seen <= changes /\ AnsweredIn(c.answer, h[c.seen][c.provider])
    BY <1>1, <1>2, CallThatFits
<1>4. c.provider \in Providers /\ c.client \in {"none", "open", "closed"} /\ c.answer \in Anything
    BY <1>2, <1>3, CallFields DEF CallOK
<1>5. PICK why \in Reasons : why = ReasonOf(Adapter(c.provider), op, c.answer)
    BY <1>4, AdapterType, AnswerReason DEF CallInv
<1>6. PICK k \in {"none", "open", "closed"} :
          k = IF c.provider = "openai" THEN c.client ELSE "closed"
    BY <1>4
<1>7. PICK d : d = [c EXCEPT !.at = "closed", !.reason = why, !.client = k]
    OBVIOUS
<1>8. Goto(op, d)
    BY <1>1, <1>5, <1>6, <1>7 DEF Collect
<1>9. d \in Call /\ d.seen = c.seen /\ d.answer = c.answer /\ d.provider = c.provider
    BY <1>2, <1>3, <1>7 DEF Call, NoCall
<1>10. UNCHANGED <<installed, service, diagnosis, changes, outcomes>>
    BY DEF Collect, elsewhere, bounds
<1>11. QED BY <1>3, <1>8, <1>9, <1>10, GoOnFits DEF CallInv

LEMMA FinishFits ==
    ASSUME CallInv, NEW h, Fits(h), NEW op \in Operations, Finish(op)
    PROVE  Fits(h)'
<1>1. PICK c : c = call[op]
    OBVIOUS
<1>2. c # NoCall
    BY <1>1, NoCallType DEF Finish
<1>3. c \in Call /\ c.seen <= changes /\ AnsweredIn(c.answer, h[c.seen][c.provider])
    BY <1>1, <1>2, CallThatFits
<1>4. \E author, why : End(op, c, author, TRUE, why)
    BY <1>1 DEF Finish
<1>5. UNCHANGED <<installed, service, diagnosis, changes>>
    BY DEF Finish, bounds
<1>6. QED BY <1>2, <1>3, <1>4, <1>5, EndFits DEF CallInv

\* A service changes: the past is longer by one.
LEMMA ChangeFits ==
    ASSUME CallInv, NEW h \in Past, Fits(h), NEW p \in Providers, NEW s \in States,
           Change(p, s)
    PROVE  PastInv'
<1>1. PICK g : g = [h EXCEPT ![changes + 1] = service']
    OBVIOUS
<1>2. changes \in Nat /\ changes' = changes + 1 /\ service' \in [Providers -> States]
    BY BoundsType DEF CallInv, TypeOK, Change
<1>3. g \in Past
    BY <1>1, <1>2 DEF Past
<1>4. g[changes'] = service'
    BY <1>1, <1>2 DEF Past
<1>5. \A n \in Nat : n <= changes => g[n] = h[n]
    BY <1>1, <1>2 DEF Past
<1>6. UNCHANGED <<installed, diagnosis, outcomes, call>>
    BY DEF Change, history
<1>7. DiagnosesFit(g)'
  <2>1. ASSUME NEW q \in Providers
        PROVE  /\ diagnosis[q].seen <= changes'
               /\ FoundIn(q, diagnosis[q], installed, g[diagnosis[q].seen][q])
    <3>1. PICK n \in Nat : n = diagnosis[q].seen
        BY DEF CallInv, TypeOK
    <3>2. n <= changes /\ FoundIn(q, diagnosis[q], installed, h[n][q])
        BY <3>1 DEF Fits, DiagnosesFit
    <3>3. n <= changes' /\ g[n] = h[n]
        BY <1>2, <1>5, <3>2
    <3>4. QED BY <3>1, <3>2, <3>3
  <2>2. QED BY <1>6, <2>1 DEF DiagnosesFit
<1>8. OutcomesFit(g)'
  <2>1. ASSUME NEW o \in outcomes
        PROVE  o.seen <= changes' /\ AnsweredIn(o.answer, g[o.seen][o.provider])
    <3>1. PICK n \in Nat : n = o.seen
        BY DEF CallInv, TypeOK, Outcome
    <3>2. n <= changes /\ AnsweredIn(o.answer, h[n][o.provider])
        BY <3>1 DEF Fits, OutcomesFit
    <3>3. n <= changes' /\ g[n] = h[n]
        BY <1>2, <1>5, <3>2
    <3>4. QED BY <3>1, <3>2, <3>3
  <2>2. QED BY <1>6, <2>1 DEF OutcomesFit
<1>9. CallsFit(g)'
  <2>1. ASSUME NEW op \in Operations, call[op] # NoCall
        PROVE  /\ call[op].seen <= changes'
               /\ AnsweredIn(call[op].answer, g[call[op].seen][call[op].provider])
    <3>1. PICK c \in Call : c = call[op]
        BY DEF CallInv, TypeOK
    <3>2. PICK n \in Nat : n = c.seen
        BY <2>1, <3>1, CallFields
    <3>3. n <= changes /\ AnsweredIn(c.answer, h[n][c.provider])
        BY <2>1, <3>1, <3>2 DEF Fits, CallsFit
    <3>4. n <= changes' /\ g[n] = h[n]
        BY <1>2, <1>5, <3>3
    <3>5. QED BY <3>1, <3>2, <3>3, <3>4
  <2>2. QED BY <1>6, <2>1 DEF CallsFit
<1>10. QED BY <1>3, <1>4, <1>7, <1>8, <1>9 DEF PastInv, Fits

\* The doctor finds what the service is now.
LEMMA DoctorFits ==
    ASSUME CallInv, NEW h, Fits(h), NEW p \in Providers, Doctor(p)
    PROVE  Fits(h)'
<1>1. PICK probe \in BOOLEAN :
          /\ probe => Adapter(p) = "transformers_http"
          /\ \E d \in Diagnoses(p, probe) : diagnosis' = [diagnosis EXCEPT ![p] = d]
    BY DEF Doctor
<1>2. PICK d \in Diagnoses(p, probe) : diagnosis' = [diagnosis EXCEPT ![p] = d]
    BY <1>1
<1>3. p # "openai"
    BY DEF Doctor
<1>4. d.seen = changes /\ FoundIn(p, d, installed, service[p])
    BY <1>1, <1>3, DoctorFinds DEF CallInv
<1>5. UNCHANGED <<installed, service, outcomes, call, changes>>
    BY DEF Doctor, history
<1>6. h[changes] = service
    BY DEF Fits
<1>7. ASSUME NEW q \in Providers
      PROVE  /\ diagnosis'[q].seen <= changes
             /\ FoundIn(q, diagnosis'[q], installed, h[diagnosis'[q].seen][q])
  <2>1. CASE q = p
    <3>1. diagnosis'[q] = d
        BY <1>2, <2>1 DEF CallInv, TypeOK
    <3>2. changes <= changes
        BY BoundsType DEF CallInv
    <3>3. QED BY <1>4, <1>6, <2>1, <3>1, <3>2
  <2>2. CASE q # p
    <3>1. diagnosis'[q] = diagnosis[q]
        BY <1>2, <2>2 DEF CallInv, TypeOK
    <3>2. QED BY <3>1 DEF Fits, DiagnosesFit
  <2>3. QED BY <2>1, <2>2
<1>8. DiagnosesFit(h)'
    BY <1>5, <1>7 DEF DiagnosesFit
<1>9. OutcomesFit(h)' /\ CallsFit(h)'
    BY <1>5, SameOutcomes, SameCalls DEF Fits
<1>10. QED BY <1>5, <1>6, <1>8, <1>9 DEF Fits

LEMMA PastStep == CallInv /\ PastInv /\ [Next]_vars => PastInv'
<1> SUFFICES ASSUME CallInv, PastInv, [Next]_vars PROVE PastInv'
    OBVIOUS
<1>1. PICK h \in Past : Fits(h)
    BY DEF PastInv
<1>2. Fits(h)' => PastInv'
    BY DEF PastInv
<1>3. CASE UNCHANGED vars
  <2>1. DiagnosesFit(h)' /\ OutcomesFit(h)' /\ CallsFit(h)'
      BY <1>1, <1>3, SameDiagnoses, SameOutcomes, SameCalls DEF vars, Fits
  <2>2. QED BY <1>1, <1>2, <1>3, <2>1 DEF vars, Fits
<1>4. ASSUME NEW t \in Tabs,
             \/ \E p \in Providers : SelectProvider(t, p)
             \/ ToggleConsent(t)
             \/ SelectedProvider(t)
             \/ \E op \in Operations : Click(t, op)
      PROVE  PastInv'
    BY <1>1, <1>2, <1>4, LearnerFits
<1>5. CASE ShowPending
    BY <1>1, <1>2, <1>5, PendingFits
<1>6. ASSUME NEW op \in Operations, Proceed(op)
      PROVE  PastInv'
    BY <1>1, <1>2, <1>6, CheckFits, SendFits, CollectFits, FinishFits DEF Proceed
<1>7. ASSUME NEW p \in Providers, Doctor(p) \/ \E s \in States : Change(p, s)
      PROVE  PastInv'
    BY <1>1, <1>2, <1>7, ChangeFits, DoctorFits
<1>8. QED BY <1>3, <1>4, <1>5, <1>6, <1>7 DEF Next

LEMMA PastReachable == Spec => [](CallInv /\ PastInv)
BY InitOK, CallInvStep, PastInit, PastStep, PTL DEF Spec

\* What the doctor found healthy does not fail for a reason of the operator.
LEMMA HealthyIsUsable == CallInv /\ PastInv => HealthyMeansUsable
<1> SUFFICES ASSUME CallInv, PastInv, NEW o \in outcomes,
                    diagnosis[o.provider].healthy,
                    diagnosis[o.provider].seen = o.seen
             PROVE  o.reason \notin Configuration
    BY DEF HealthyMeansUsable
<1>1. PICK h \in Past : Fits(h)
    BY DEF PastInv
<1>2. PICK p \in Providers : p = o.provider
    BY DEF CallInv, TypeOK, Outcome
<1>3. PICK s : s = h[o.seen][p]
    OBVIOUS
<1>4. FoundIn(p, diagnosis[p], installed, s)
    BY <1>1, <1>2, <1>3 DEF Fits, DiagnosesFit
<1>5. p # "openai" /\ Availability(installed, p).available /\ s \in {"up", "overloaded"}
    BY <1>2, <1>4 DEF FoundIn
<1>6. ReasonOK(o, installed)
    BY DEF CallInv, OutcomesOK, OutcomeOK
<1>7. CASE o.answer = ""
  <2>1. o.reason = "consent_required"
      BY <1>2, <1>5, <1>6, <1>7, NoAnswer DEF ReasonOK
  <2>2. QED BY <2>1 DEF Configuration
<1>8. CASE o.answer \in Anything
  <2>1. o.answer \in Answers(s)
      BY <1>1, <1>2, <1>3, <1>8, NoAnswer DEF Fits, OutcomesFit, AnsweredIn
  <2>2. PICK a : a = AdapterIn(installed, p)
      OBVIOUS
  <2>3. a \in Adapters \ {"openai"}
      BY <1>5, <2>2, ProviderAssumption DEF AdapterIn, Adapters
  <2>4. ReasonOf(a, o.op, o.answer) \notin Configuration
      BY <1>5, <2>1, <2>3, UsableAnswer
  <2>5. o.reason \in {ReasonOf(a, o.op, o.answer), "unsafe_output"}
      BY <1>2, <1>6, <1>8, <2>2, NoAnswer DEF ReasonOK
  <2>6. QED BY <2>4, <2>5 DEF Configuration
<1>9. QED BY <1>6, <1>7, <1>8 DEF ReasonOK

\* The doctor and the application name the same cause.
LEMMA CauseIsNamed == CallInv /\ PastInv => DoctorNamesTheCause
<1> SUFFICES ASSUME CallInv, PastInv, NEW o \in outcomes,
                    diagnosis[o.provider].reason # "", diagnosis[o.provider].detail = "",
                    diagnosis[o.provider].seen = o.seen, o.seen = changes,
                    service[o.provider] # "up", o.answer # ""
             PROVE  o.reason = diagnosis[o.provider].reason
    BY DEF DoctorNamesTheCause
<1>1. PICK h \in Past : Fits(h)
    BY DEF PastInv
<1>2. PICK p \in Providers : p = o.provider
    BY DEF CallInv, TypeOK, Outcome
<1>3. PICK s \in States \ {"up"} : s = service[p]
    BY <1>2 DEF CallInv, TypeOK
<1>4. h[o.seen][p] = s
    BY <1>1, <1>3 DEF Fits
<1>5. PICK a : a = AdapterIn(installed, p)
    OBVIOUS
<1>6. FoundIn(p, diagnosis[p], installed, s)
    BY <1>1, <1>2, <1>4 DEF Fits, DiagnosesFit
<1>7. /\ o.answer \in Anything /\ Availability(installed, p).available
      /\ LET why == ReasonOf(a, o.op, o.answer) IN
            o.reason = why \/ (why = "" /\ o.reason = "unsafe_output")
    BY <1>2, <1>5 DEF CallInv, OutcomesOK, OutcomeOK, ReasonOK
<1>8. diagnosis[p].reason = Cause(a, s)
    BY <1>2, <1>3, <1>5, <1>6, <1>7 DEF FoundIn
<1>9. a \in Adapters
    BY <1>5, ProviderAssumption DEF AdapterIn, Adapters
<1>10. o.answer \in Answers(s)
    BY <1>1, <1>2, <1>4 DEF Fits, OutcomesFit, AnsweredIn
<1>11. ReasonOf(a, o.op, o.answer) = Cause(a, s) /\ Cause(a, s) # ""
    BY <1>3, <1>9, <1>10, OneCause
<1>12. QED BY <1>2, <1>7, <1>8, <1>11

\* The doctor calls no service healthy that the application cannot use, and the
\* two name the same cause of a service that is down, refuses the key, lacks the
\* model or is loading it (diagnose and _classified_error of each adapter).
THEOREM DoctorAndUIAgree == Spec => []DoctorAgrees
<1>1. CallInv /\ PastInv => DoctorAgrees
    BY HealthyIsUsable, CauseIsNamed DEF DoctorAgrees
<1>2. QED BY <1>1, PastReachable, PTL

=============================================================================
