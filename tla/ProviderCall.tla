---------------------------- MODULE ProviderCall ----------------------------
(***************************************************************************)
(* One call of a language model: a hint, a code review or a quiz, from the *)
(* click to what is shown or stored, and the doctor command that examines  *)
(* the same service from another process.                                  *)
(*                                                                         *)
(* The provider is a preference of the profile, the consent to send the    *)
(* learner's text off the device a checkbox of one browser tab.  Each      *)
(* adapter opens a client for a call, sends the request, takes the text    *)
(* out of the response, closes the client, and maps every failure to a     *)
(* reason.  The services are outside this repository: what they answer is  *)
(* chosen, within what the state they are in allows.                       *)
(*                                                                         *)
(* A definition marked Deviation is a mistake whose effect a run must      *)
(* notice.                                                                 *)
(***************************************************************************)
EXTENDS Naturals, FiniteSets

CONSTANTS
    Tabs,
    Providers,      \* a subset of HintProviderId
    Operations,     \* a subset of {"hint", "review", "quiz"}
    Installations,  \* the configurations in which the program is started
    MaxCalls,       \* bound: requests
    MaxEvents       \* bound: clicks on the provider selector and on the
                    \* consent, changes of a service and doctor commands

\* host is the hostname of ALGOHINT_GEMMA_BASE_URL, tunnel whether it leads to
\* another machine: the operator declares a tunnel as a remote deployment.
Installation ==
    [keys: SUBSET {"openai", "gemma", "gemini"},
     backend: {"vllm", "llama_cpp", "transformers_http"},
     host: {"invalid", "loopback", "elsewhere"},
     deployment: {"auto", "local", "remote"}, tunnel: BOOLEAN]

ASSUME ProviderAssumption ==
    /\ Providers \subseteq {"openai", "gemma", "gemini"}
    /\ Operations \subseteq {"hint", "review", "quiz"}
    /\ Installations \subseteq Installation
    /\ \A i \in Installations : i.tunnel => i.deployment = "remote"
    /\ {MaxCalls, MaxEvents} \subseteq Nat

VARIABLES
    installed,  \* the environment variables of the process
    preference, \* hint_provider in the profile
    dropdown,   \* per tab, provider_selector
    consent,    \* per tab, cloud_consent, as the provider for which the
                \* learner ticked it, or "off"
    changing,   \* tabs whose change of the provider has not been handled
    call,       \* per operation, the call in progress
    service,    \* per provider, the state of its service
    diagnosis,  \* per provider, the last result of the doctor
    sent,       \* history: the requests that left for a service
    crossed,    \* history: tabs whose selector and consent another tab's change
                \* of the provider has made out of date
    outcomes,   \* history: how the calls ended
    changes, calls, events

tab == <<dropdown, consent, changing>>
history == <<sent, crossed, outcomes>>
bounds == <<changes, calls, events>>
vars == <<installed, preference, dropdown, consent, changing, call, service,
          diagnosis, sent, crossed, outcomes, changes, calls, events>>

-----------------------------------------------------------------------------
(* Availability *)

Loopback(i) == i.host = "loopback"

\* Deviation: only the hostname tells whether data leaves the device.
GemmaAvailabilityByHost(i) ==
    [available |-> i.host # "invalid" /\ (i.deployment = "local" => Loopback(i)),
     off |-> ~Loopback(i)]

\* gemma_endpoint_availability
GemmaAvailability(i) ==
    LET valid == i.host # "invalid" /\ (i.deployment = "local" => Loopback(i))
        missing == i.backend = "transformers_http" /\ "gemma" \notin i.keys
    IN
    [available |-> valid /\ ~missing,
     off |-> valid /\ (i.deployment = "remote" \/ ~Loopback(i))]

\* availability of OpenAIHintProvider and GeminiHintProvider
CloudAvailability(i, p) == [available |-> p \in i.keys, off |-> TRUE]

Availability(i, p) ==
    IF p = "gemma" THEN GemmaAvailability(i) ELSE CloudAvailability(i, p)

\* Where a request to p really goes.
LeavesDevice(i, p) == p # "gemma" \/ i.tunnel \/ ~Loopback(i)

\* The class that serves p.
Adapter(p) ==
    IF p # "gemma" THEN p
    ELSE IF installed.backend = "transformers_http" THEN "transformers_http" ELSE "gemma"

-----------------------------------------------------------------------------
(* What a service answers, and how an adapter names it *)

States == {"up", "down", "denied", "missing", "loading", "overloaded"}

\* Texts of an answer that came with status 200.  blank stands for a response
\* without text, raising for one whose text cannot be read.
Texts == {"safe", "unsafe", "malformed", "other_model", "blank", "raising"}

\* The detail of a 503: the server's own code, or a body that is not its.  closed is
\* a client that has been closed, runtime any other exception; what the Gemini SDK
\* says of a token that it lacks is like 403, of an operation that took too long
\* like timeout.
Failures ==
    {"400", "403", "404", "413", "418", "429", "499", "503", "503_parsing", "504",
     "timeout", "refused", "broken", "closed", "runtime"}

\* What the service may answer to a request that generates.
Answers(s) ==
    CASE s = "up" -> Texts \cup {"400", "413", "418", "499", "503", "503_parsing",
                                 "504", "timeout", "broken", "closed", "runtime"}
      [] s = "down" -> {"refused"}
      [] s = "denied" -> {"403"}
      [] s = "missing" -> {"404"}
      [] s = "loading" -> {"503"}
      [] s = "overloaded" -> {"429"}

\* What it may answer when it is asked for its models: the model is among
\* them and ready, or not.
Listings(a, s) ==
    CASE s = "up" -> {"ready"}
      [] s = "down" -> {"refused"}
      [] s = "denied" -> {"403"}
      [] s = "missing" -> {IF a = "gemini" THEN "404" ELSE "absent"}
      [] s = "loading" -> {IF a = "transformers_http" THEN "not_ready" ELSE "503"}
      [] s = "overloaded" -> {"ready", "429"}

\* Deviation: the status is passed on as it came.
StatusReasonRaw(a, f) == f

\* _classify_http_status; 401 is treated like 403, 408 like 504, 422 like 413,
\* 500 and 502 like 503, and what is not listed like 418.
StatusReason(a, f) ==
    CASE f = "403" -> "authentication_or_permission"
      [] f = "404" -> "model_not_found"
      [] f = "429" -> "rate_or_quota_exceeded"
      [] f = "504" -> "timeout"
      [] f = "499" /\ a = "gemini" -> "timeout"
      [] f = "400" -> "invalid_request"
      [] f = "413" /\ a # "gemini" -> "invalid_request"
      [] f \in {"503", "503_parsing"} -> "provider_unavailable"
      [] OTHER -> "unknown_provider_error"

Statuses == Failures \ {"timeout", "refused", "broken", "closed", "runtime"}

\* _classified_error: TransformersHttpHintProvider tells a refused connection
\* and an answer that its server could not parse from an outage, the Gemini
\* adapter knows its SDK's exceptions only, the OpenAI adapter none.
ReasonOfFailure(a, f) ==
    IF a = "openai" THEN "unknown_provider_error"
    ELSE IF f = "503_parsing" /\ a = "transformers_http" THEN "invalid_structured_response"
    ELSE IF f \in Statuses THEN StatusReason(a, f)
    ELSE IF f = "timeout" THEN "timeout"
    ELSE IF f = "closed" THEN "client_lifecycle_error"
    ELSE IF a = "gemini" \/ f = "runtime" THEN "unknown_provider_error"
    ELSE IF f = "refused" /\ a = "transformers_http" THEN "endpoint_unreachable"
    ELSE "provider_unavailable"

\* A text that is not what was asked for, or a response whose reading raises.
ReasonOfText(a, op, x) ==
    IF a = "openai" \/ (a = "gemma" /\ x = "raising") THEN "unknown_provider_error"
    ELSE IF a = "gemini" /\ x = "blank" THEN "empty_or_blocked_response"
    ELSE IF a = "gemini" /\ x = "raising" THEN
        IF op = "hint" THEN "empty_or_blocked_response" ELSE "unknown_provider_error"
    ELSE "invalid_structured_response"

\* Texts that pass the adapter's validation: only one server names its model.
Valid(a, x) ==
    x \in {"safe", "unsafe"} \/ (x = "other_model" /\ a # "transformers_http")

\* HintSafetyPolicy.is_safe, and that no line of the source is repeated.
IsSafe(x) == x # "unsafe"

Configuration ==
    {"not_configured", "authentication_or_permission", "model_not_found",
     "endpoint_unreachable"}

-----------------------------------------------------------------------------

NoCall == [at |-> "idle"]

\* checked is the provider that was asked for its availability, client the SDK
\* client, answer what the service answered, reason why there is no usable text
\* ("" if there is), seen the number of changes of the services when it was
\* sent; risky is history.
NewCall(t) ==
    [at |-> "clicked", tab |-> t, mark |-> consent[t], provider |-> preference,
     checked |-> preference, client |-> "none", answer |-> "", reason |-> "",
     seen |-> 0, risky |-> t \in changing \cup crossed]

Reasons ==
    Configuration \cup
    {"", "invalid_request", "rate_or_quota_exceeded", "timeout",
     "provider_unavailable", "empty_or_blocked_response",
     "invalid_structured_response", "client_lifecycle_error",
     "unknown_provider_error", "unsafe_output", "consent_required"}

Call == {NoCall} \cup
    [at: {"clicked", "shown", "checked", "received", "closed"},
     tab: Tabs, mark: Providers \cup {"off"}, provider: Providers, checked: Providers,
     client: {"none", "open", "closed"},
     answer: {""} \cup Texts \cup Failures, reason: Reasons,
     seen: Nat, risky: BOOLEAN]

NoDiagnosis == [healthy |-> FALSE, reason |-> "", seen |-> 0, detail |-> ""]

Init ==
    /\ installed \in Installations
    /\ preference \in Providers
    /\ dropdown = [t \in Tabs |-> preference]
    /\ consent = [t \in Tabs |-> "off"]
    /\ changing = {}
    /\ call = [op \in Operations |-> NoCall]
    /\ service = [p \in Providers |-> "up"]
    /\ diagnosis = [p \in Providers |-> NoDiagnosis]
    /\ sent = {}
    /\ crossed = {}
    /\ outcomes = {}
    /\ changes = 1
    /\ calls = 0
    /\ events = 0

Bounded == events < MaxEvents /\ events' = events + 1

Goto(op, c) == call' = [call EXCEPT ![op] = c]

\* How a call ended: shown is the author of the text that the learner sees or
\* that is stored, "nothing" if there is none.
End(op, c, author, safe, why) ==
    /\ Goto(op, NoCall)
    /\ outcomes' = outcomes \cup
        {[op |-> op, provider |-> c.provider, answer |-> c.answer,
          author |-> author, safe |-> safe, reason |-> why, seen |-> c.seen,
          client |-> c.client]}

-----------------------------------------------------------------------------
(* The learner and the preferences *)

\* provider_selector.change: the browser shows the choice at once, the
\* preference and the checkbox follow when the event is handled.
SelectProvider(t, p) ==
    /\ Bounded
    /\ p # dropdown[t]
    /\ dropdown' = [dropdown EXCEPT ![t] = p]
    /\ changing' = changing \cup {t}
    /\ UNCHANGED <<installed, preference, consent, call, service, diagnosis,
                   history, changes, calls>>

ToggleConsent(t) ==
    /\ Bounded
    /\ consent' = [consent EXCEPT ![t] = IF @ = "off" THEN dropdown[t] ELSE "off"]
    /\ UNCHANGED <<installed, preference, dropdown, changing, call, service,
                   diagnosis, history, changes, calls>>

\* What a saved preference does to consents that it does not take back: those
\* of other tabs, and of the calls that have not read the preference yet.
Cross(t) ==
    /\ crossed' = (crossed \ {t}) \cup (Tabs \ {t})
    /\ call' = [op \in Operations |->
                IF call[op].at \in {"clicked", "shown"}
                THEN [call[op] EXCEPT !.risky = TRUE] ELSE call[op]]

\* Deviation: the consent given for the last provider is kept.
SelectedProviderKeepsConsent(t) ==
    /\ t \in changing
    /\ preference' = dropdown[t]
    /\ changing' = changing \ {t}
    /\ Cross(t)
    /\ UNCHANGED <<installed, dropdown, consent, service, diagnosis, sent,
                   outcomes, bounds>>

\* selected_provider: the preference is saved and the consent taken back.
SelectedProvider(t) ==
    /\ t \in changing
    /\ preference' = dropdown[t]
    /\ changing' = changing \ {t}
    /\ consent' = [consent EXCEPT ![t] = "off"]
    /\ Cross(t)
    /\ UNCHANGED <<installed, dropdown, service, diagnosis, sent, outcomes, bounds>>

\* The inputs of the event are those of the browser at the click.
Click(t, op) ==
    /\ call[op] = NoCall
    /\ calls < MaxCalls
    /\ calls' = calls + 1
    /\ Goto(op, NewCall(t))
    /\ UNCHANGED <<installed, preference, tab, service, diagnosis, history,
                   changes, events>>

-----------------------------------------------------------------------------
(* The services of the application *)

MissingConsent(c, p) == Availability(installed, p).off /\ c.mark = "off"

\* request_tutor_hint calls validate_request before it shows the question.
ShowPending ==
    /\ "hint" \in Operations
    /\ LET c == call["hint"] IN
        /\ c.at = "clicked"
        /\ IF MissingConsent(c, preference)
           THEN End("hint", c, "nothing", TRUE, "consent_required")
           ELSE Goto("hint", [c EXCEPT !.at = "shown"]) /\ UNCHANGED outcomes
    /\ UNCHANGED <<installed, preference, tab, service, diagnosis, sent, crossed,
                   bounds>>

WhyNotCalled(op) == IF op = "hint" THEN "provider_unavailable" ELSE "not_configured"

\* validate_request inside request_hint, and the checks of generate_code_review
\* and generate_personalized_quiz: one reading of the profile decides which
\* provider is asked for its availability, and it alone is called.  A provider
\* that is not available is not called: the hint falls back, and gives the reason
\* another name.
Check(op) ==
    /\ call[op].at = IF op = "hint" THEN "shown" ELSE "clicked"
    /\ LET p == preference
           c == [call[op] EXCEPT !.provider = p, !.checked = p, !.seen = changes] IN
        IF MissingConsent(c, p) THEN End(op, c, "nothing", TRUE, "consent_required")
        ELSE /\ Goto(op, IF Availability(installed, p).available
                         THEN [c EXCEPT !.at = "checked"]
                         ELSE [c EXCEPT !.at = "closed", !.reason = WhyNotCalled(op)])
             /\ UNCHANGED outcomes
    /\ UNCHANGED <<installed, preference, tab, service, diagnosis, sent, crossed,
                   bounds>>

\* Deviation: what passed the adapter's validation is taken to be safe.
FinishUnchecked(op) ==
    LET c == call[op] IN
    /\ c.at = "closed"
    /\ IF c.reason = "" THEN End(op, c, c.provider, IsSafe(c.answer), "")
       ELSE End(op, c, IF op = "hint" THEN "rule_based" ELSE "nothing", TRUE, c.reason)
    /\ UNCHANGED <<installed, preference, tab, service, diagnosis, sent, crossed,
                   bounds>>

\* _generate, and the end of generate_code_review and
\* generate_personalized_quiz: a valid and safe text is shown or stored.
\* Otherwise a review or a quiz is not; a hint is the authored one, or the
\* fixed text if that is not safe either.
Finish(op) ==
    LET c == call[op]
        why == IF c.reason = "" THEN "unsafe_output" ELSE c.reason IN
    /\ c.at = "closed"
    /\ IF c.reason = "" /\ IsSafe(c.answer)
       THEN End(op, c, c.provider, TRUE, "")
       ELSE IF op = "hint"
       THEN \E authored \in {"rule_based", "safe_default"} : End(op, c, authored, TRUE, why)
       ELSE End(op, c, "nothing", TRUE, why)
    /\ UNCHANGED <<installed, preference, tab, service, diagnosis, sent, crossed,
                   bounds>>

-----------------------------------------------------------------------------
(* The adapters *)

elsewhere == <<installed, preference, tab, service, diagnosis, crossed, outcomes, bounds>>

Request(c) ==
    [mark |-> c.mark, to |-> c.provider, checked |-> c.checked, risky |-> c.risky]

Answered(c, x) ==
    [c EXCEPT !.at = "received", !.client = "open", !.answer = x, !.seen = changes]

\* A client of its own and the one request of generate, generate_review and
\* generate_quiz (the OpenAI SDK may repeat it, to the same service).
Send(op) ==
    LET c == call[op] IN
    /\ c.at = "checked"
    /\ sent' = sent \cup {Request(c)}
    /\ \E x \in Answers(service[c.provider]) : Goto(op, Answered(c, x))
    /\ UNCHANGED elsewhere

\* What the adapter makes of an answer: "" if it is a valid text.
ReasonOf(a, op, x) ==
    IF x \in Failures THEN ReasonOfFailure(a, x)
    ELSE IF Valid(a, x) THEN "" ELSE ReasonOfText(a, op, x)

\* Deviation: the client is closed before the text is taken out of the
\* response.
CollectAfterClose(op) ==
    LET c == call[op] IN
    /\ c.at = "received"
    /\ Goto(op, [c EXCEPT !.at = "closed", !.client = "closed",
            !.reason = IF c.answer \in Texts THEN "client_lifecycle_error"
                       ELSE ReasonOf(Adapter(c.provider), op, c.answer)])
    /\ UNCHANGED <<elsewhere, sent>>

\* The text is read, or the failure caught and named, and then the client is
\* closed (_managed_client): that closing fails is only logged.
\* OpenAIHintProvider leaves its client to the garbage collector.
Collect(op) ==
    LET c == call[op] IN
    /\ c.at = "received"
    /\ Goto(op, [c EXCEPT !.at = "closed",
            !.reason = ReasonOf(Adapter(c.provider), op, c.answer),
            !.client = IF c.provider = "openai" THEN @ ELSE "closed"])
    /\ UNCHANGED <<elsewhere, sent>>

-----------------------------------------------------------------------------
(* The services outside, and the doctor *)

Change(p, s) ==
    /\ Bounded
    /\ s # service[p]
    /\ changes' = changes + 1
    /\ service' = [service EXCEPT ![p] = s]
    /\ UNCHANGED <<installed, preference, tab, call, diagnosis, history, calls>>

Diagnosed(why, detail) ==
    [healthy |-> why = "", reason |-> why, seen |-> changes, detail |-> detail]

\* What the generation probe of the server finds: the same model writes a fixed
\* text, or the server is too old to have a probe.
ProbeAnswers(s) == (Answers(s) \ {"400", "413", "unsafe", "blank", "raising"}) \cup {"404"}

Probed(x) ==
    IF x = "404" THEN Diagnosed("provider_unavailable", "generation_probe_unsupported")
    ELSE IF x \in Failures THEN Diagnosed(ReasonOfFailure("transformers_http", x), "")
    ELSE Diagnosed(IF x = "safe" THEN "" ELSE "invalid_structured_response", "")

\* Deviation: that the service lists some model is enough.
ListedAny(a, x) ==
    IF x \in Failures THEN ReasonOfFailure(a, x) ELSE ""

\* The model that is configured must be among those listed, and ready.
Listed(a, x) ==
    IF x \in Failures THEN ReasonOfFailure(a, x)
    ELSE CASE x = "absent" -> "model_not_found"
           [] x = "not_ready" -> "provider_unavailable"
           [] OTHER -> ""

\* diagnose
Diagnoses(p, probe) ==
    LET a == Adapter(p) IN
    IF ~Availability(installed, p).available THEN {Diagnosed("not_configured", "")}
    ELSE UNION {IF probe /\ Listed(a, x) = ""
                THEN {Probed(y) : y \in ProbeAnswers(service[p])}
                ELSE {Diagnosed(Listed(a, x), "")} :
                x \in Listings(a, service[p])}

\* algohint doctor; a probe can only be asked of the Transformers server.
Doctor(p) ==
    /\ Bounded
    /\ p # "openai"
    /\ \E probe \in IF Adapter(p) = "transformers_http" THEN BOOLEAN ELSE {FALSE} :
        \E d \in Diagnoses(p, probe) : diagnosis' = [diagnosis EXCEPT ![p] = d]
    /\ UNCHANGED <<installed, preference, tab, call, service, history, changes,
                   calls>>

Proceed(op) == Check(op) \/ Send(op) \/ Collect(op) \/ Finish(op)

Next ==
    \/ \E t \in Tabs :
        \/ \E p \in Providers : SelectProvider(t, p)
        \/ ToggleConsent(t)
        \/ SelectedProvider(t)
        \/ \E op \in Operations : Click(t, op)
    \/ ShowPending
    \/ \E op \in Operations : Proceed(op)
    \/ \E p \in Providers : Doctor(p) \/ \E s \in States : Change(p, s)

Spec == Init /\ [][Next]_vars

-----------------------------------------------------------------------------
(* Properties *)

Outcome ==
    [op: Operations, provider: Providers, answer: {""} \cup Texts \cup Failures,
     author: Providers \cup {"rule_based", "safe_default", "nothing"},
     safe: BOOLEAN, reason: Reasons, seen: Nat, client: {"none", "open", "closed"}]

TypeOK ==
    /\ installed \in Installations
    /\ preference \in Providers
    /\ dropdown \in [Tabs -> Providers]
    /\ consent \in [Tabs -> Providers \cup {"off"}]
    /\ changing \subseteq Tabs
    /\ call \in [Operations -> Call]
    /\ service \in [Providers -> States]
    /\ diagnosis \in [Providers -> [healthy: BOOLEAN, reason: Reasons, seen: Nat,
                                    detail: {"", "generation_probe_unsupported"}]]
    /\ sent \subseteq [mark: Providers \cup {"off"}, to: Providers,
                       checked: Providers, risky: BOOLEAN]
    /\ crossed \subseteq Tabs
    /\ outcomes \subseteq Outcome
    /\ {changes, calls, events} \subseteq Nat

\* Nothing that the learner wrote leaves the device unless the checkbox was on
\* at the click, also through a tunnel whose URL looks local; and a request goes
\* to the provider whose availability was asked for, whatever was selected
\* meanwhile and whatever failed (gemma_endpoint_availability, validate_request,
\* _generate, generate_code_review, generate_personalized_quiz).
NothingLeavesWithoutConsent ==
    \A r \in sent :
        /\ LeavesDevice(installed, r.to) => r.mark # "off"
        /\ r.to = r.checked
        /\ Availability(installed, r.to).available

\* A consent is used for the model for which it was given, as long as no other
\* tab changes the model and the learner waits for the change (the checkbox is
\* an output of selected_provider).  A tab whose model another tab has changed is
\* excused (crossed): its box stays ticked, although every change of the model should
\* take the consent back (docs/security-and-operation.md:48).
ConsentIsForSelectedModel ==
    \A r \in sent : r.mark = "off" \/ r.mark = r.to \/ r.risky

\* A usable answer is used: its text is taken before the client is closed, and
\* a client that cannot be closed does not turn it into a failure.  No adapter
\* with a managed client leaves it open, however the call ended.
ClientOutlivesResponse ==
    \A o \in outcomes :
        /\ o.answer = "safe" => o.author = o.provider
        /\ o.provider # "openai" => o.client # "open"

\* No text that is unsafe or not valid is shown or stored; a review or a quiz
\* has no substitute, but a learner who asks for a hint gets one, whatever
\* happens to the provider, unless the consent is missing (_generate,
\* generate_code_review, generate_personalized_quiz).
OnlySafeTextIsKept ==
    \A o \in outcomes :
        /\ o.safe
        /\ o.author \in Providers => o.author = o.provider /\ o.answer \in Texts
        /\ o.author \in {"rule_based", "safe_default"} => o.op = "hint"
        /\ o.op = "hint" /\ o.author = "nothing" => o.reason = "consent_required"

\* What the doctor found healthy does not fail, while the service stays as it
\* is, for a reason that the operator would have to repair.
HealthyMeansUsable ==
    \A o \in outcomes :
        LET d == diagnosis[o.provider] IN
        d.healthy /\ d.seen = o.seen => o.reason \notin Configuration

\* The doctor and the application name the same cause of a service that is
\* down, refuses the key, lacks the model or is loading it ("so UI and
\* diagnostics cannot disagree", gemini_hint_provider.py:382).
DoctorNamesTheCause ==
    \A o \in outcomes :
        LET d == diagnosis[o.provider] IN
        /\ d.reason # "" /\ d.detail = "" /\ d.seen = o.seen /\ o.seen = changes
        /\ service[o.provider] # "up"
        /\ o.answer # ""
        => o.reason = d.reason

\* Neither does the doctor call a service healthy that the application cannot
\* use, nor do the two name different causes.
DoctorAgrees == HealthyMeansUsable /\ DoctorNamesTheCause
=============================================================================
