---------------------------- MODULE ReviewHistory ----------------------------
(***************************************************************************)
(* What a profile keeps of its work after completion: quiz attempts, code  *)
(* reviews and generated quizzes, in one SQLite file with a quota, and the *)
(* unlocks that outlive the pruned records.  CompletionReviewService       *)
(* checks its gates, works (a provider may take minutes) and saves: the    *)
(* gates, the provider and the save are not one transaction.               *)
(*                                                                         *)
(* A lane is one of the event functions that save; the queue runs one call *)
(* of each at a time and different ones concurrently.  A definition marked *)
(* Deviation is a mistake whose effect a run must notice.                  *)
(***************************************************************************)
EXTENDS Naturals, FiniteSets, FiniteSetsExt

CONSTANTS
    Problems,
    Lanes,          \* which of the event functions may run
    Sizes,          \* payload sizes
    Quota,          \* quota_bytes
    MaxStamps,      \* bound: records ever completed and dated
    MaxCrashes      \* bound

ASSUME ReviewAssumption ==
    /\ Lanes \subseteq {"quiz_attempt", "code_review", "ai_quiz_set", "ai_quiz_attempt"}
    /\ Sizes \subseteq Nat \ {0}
    /\ Quota \in Nat \ {0}
    /\ MaxStamps \in Nat
    /\ MaxCrashes \in Nat

VARIABLES
    progress,   \* per problem, what the learning log says of its completion
    records,    \* history_records
    used,       \* the cached used_bytes of history_meta
    unlocks,    \* review_unlocks
    nextId,     \* the id that AUTOINCREMENT gives next
    ready,      \* this process has initialised the database
    clock,      \* the time: each stamp is taken at a time of its own
    call,       \* per lane, the call in progress
    page,       \* per problem, the quiz set on the learner's page
    attempted,  \* history: problems of which a quiz attempt was ever saved
    outdated,   \* history: sets attempted although a later one was saved before
                \* the call began
    crashes

history == <<attempted, outdated>>
tables == <<records, used, unlocks, nextId>>
vars == <<progress, records, used, unlocks, nextId, ready, clock, call, page,
          attempted, outdated, crashes>>

-----------------------------------------------------------------------------

NoSet == 0
Kinds == {"quiz_attempt", "code_review", "ai_quiz_set", "ai_quiz_attempt"}

\* set: the quiz set that a set record is, or an attempt is at, named by the
\* time it was generated.
Record == [id: Nat, problem: Problems, kind: Kinds, created: Nat, bytes: Nat, set: Nat]

NoCall == [at |-> "idle"]
Call == {NoCall} \cup
        [at: {"working"}, problem: Problems, set: Nat, since: Nat] \cup
        [at: {"saving"}, problem: Problems, set: Nat, since: Nat, created: Nat, bytes: Nat]

Older(r, s) == r.created < s.created \/ (r.created = s.created /\ r.id < s.id)
Bytes(R) == MapThenSumSet(LAMBDA r : r.bytes, R)

\* Deviation: a record goes although the quota is not exceeded.
PrunedAtQuota(R, shown) == {r \in R : shown - Bytes({s \in R : Older(s, r)}) >= Quota}

\* _prune: from the oldest on, a record goes as long as what the counter still
\* shows exceeds the quota.
Pruned(R, shown) == {r \in R : shown - Bytes({s \in R : Older(s, r)}) > Quota}

SetsOf(p) == {r \in records : r.problem = p /\ r.kind = "ai_quiz_set"}

\* list_records of one kind, newest first, limit 1.
LatestSet(p) == {r.set : r \in {s \in SetsOf(p) : \A o \in SetsOf(p) : ~Older(s, o)}}

\* r is a later set than the one attempt a is at, and was saved before id n.
Replaces(r, a, n) ==
    /\ r.kind = "ai_quiz_set" /\ r.problem = a.problem
    /\ r.set > a.set /\ r.id < n

Completed(p) == progress[p] # "open"
Unlocked(p) == Completed(p) /\ p \in unlocks

\* A history file of an earlier version holds attempts but no unlocks.
Legacy(p) == [id |-> 1, problem |-> p, kind |-> "quiz_attempt", created |-> 0,
              bytes |-> 1, set |-> NoSet]

Init ==
    /\ progress \in [Problems -> {"open", "solved"}]
    /\ records \in {{}} \cup {{Legacy(p)} : p \in {q \in Problems : progress[q] = "solved"}}
    /\ used = Bytes(records)
    /\ unlocks = {}
    /\ nextId = Cardinality(records) + 1
    /\ ready = FALSE
    /\ clock = 1
    /\ call = [l \in Lanes |-> NoCall]
    /\ page = [p \in Problems |-> NoSet]
    /\ attempted = {r.problem : r \in records}
    /\ outdated = {}
    /\ crashes = 0

-----------------------------------------------------------------------------

\* Deviation: the unlocks are computed afresh from the recorded attempts.
InitializeFromRecords ==
    /\ ~ready
    /\ ready' = TRUE
    /\ unlocks' = {r.problem : r \in {s \in records : s.kind = "quiz_attempt"}}
    /\ UNCHANGED <<progress, records, used, nextId, clock, call, page, history, crashes>>

\* The first connection of a process: an unlock for every recorded attempt.
Initialize ==
    /\ ~ready
    /\ ready' = TRUE
    /\ unlocks' = unlocks \cup {r.problem : r \in {s \in records : s.kind = "quiz_attempt"}}
    /\ UNCHANGED <<progress, records, used, nextId, clock, call, page, history, crashes>>

\* The learning log, elsewhere: a full AC or a surrender completes a problem.
Complete(p) ==
    /\ \/ progress[p] \in {"open", "gave_up"} /\ progress' = [progress EXCEPT ![p] = "solved"]
       \/ progress[p] = "open" /\ progress' = [progress EXCEPT ![p] = "gave_up"]
    /\ UNCHANGED <<tables, ready, clock, call, page, history, crashes>>

\* load_personalized_quiz: the page shows the latest set.
ShowQuiz(p) ==
    /\ ready
    /\ Unlocked(p)
    /\ \E n \in LatestSet(p) \cup {m \in {NoSet} : SetsOf(p) = {}} :
         page' = [page EXCEPT ![p] = n]
    /\ UNCHANGED <<progress, tables, ready, clock, call, history, crashes>>

\* Deviation: answers to any quiz on the page are graded.
GateAnyQuiz(l, p) ==
    \/ l = "quiz_attempt" /\ Completed(p)
    \/ l = "code_review" /\ Unlocked(p)
    \/ l = "ai_quiz_set" /\ progress[p] = "solved"
    \/ l = "ai_quiz_attempt" /\ Unlocked(p) /\ page[p] # NoSet

\* The gate of each operation, checked when its call starts: grade (140-152),
\* generate_code_review (251-254), generate_personalized_quiz (338-342) and
\* grade_personalized_quiz (490-493).
Gate(l, p) ==
    \/ l = "quiz_attempt" /\ Completed(p)
    \/ l = "code_review" /\ Unlocked(p)
    \/ l = "ai_quiz_set" /\ progress[p] = "solved"
    \/ l = "ai_quiz_attempt" /\ Unlocked(p) /\ page[p] \in LatestSet(p)

Begin(l, p) ==
    /\ ready \/ l = "ai_quiz_set"     \* whose gate reads the log only
    /\ call[l] = NoCall
    /\ Gate(l, p)
    /\ call' = [call EXCEPT ![l] = [at |-> "working", problem |-> p,
                                    set |-> IF l = "ai_quiz_attempt" THEN page[p] ELSE NoSet,
                                    since |-> nextId]]
    /\ UNCHANGED <<progress, tables, ready, clock, page, history, crashes>>

\* The provider fails (generate_code_review 292-299, generate_personalized_quiz
\* 377-384), its text is unsafe (300-319, 385-401), or an answer is missing.
Abandon(l) ==
    /\ call[l].at = "working"
    /\ call' = [call EXCEPT ![l] = NoCall]
    /\ UNCHANGED <<progress, tables, ready, clock, page, history, crashes>>

\* The record is complete, with the time of this moment as its date.
Stamp(l, n) ==
    /\ call[l].at = "working"
    /\ clock <= MaxStamps
    /\ call' = [call EXCEPT ![l] =
                  [at |-> "saving", problem |-> call[l].problem, since |-> call[l].since,
                   set |-> IF l = "ai_quiz_set" THEN clock ELSE call[l].set,
                   created |-> clock, bytes |-> n]]
    /\ clock' = clock + 1
    /\ UNCHANGED <<progress, tables, ready, page, history, crashes>>

\* _save: a record larger than the whole quota is refused ...
TooLarge(l) ==
    /\ call[l].at = "saving"
    /\ call[l].bytes > Quota
    /\ call' = [call EXCEPT ![l] = NoCall]
    /\ UNCHANGED <<progress, tables, ready, clock, page, history, crashes>>

\* Deviation: the unlock is stored under the row's id.
SaveUnlocksRow(l) ==
    LET new == [id |-> nextId, problem |-> call[l].problem, kind |-> l,
                created |-> call[l].created, bytes |-> call[l].bytes, set |-> call[l].set]
        all == records \cup {new}
        gone == Pruned(all, used + new.bytes)
    IN
    /\ ready
    /\ call[l].at = "saving"
    /\ new.bytes <= Quota
    /\ records' = all \ gone
    /\ used' = used + new.bytes - Bytes(gone)
    /\ unlocks' = IF l = "quiz_attempt" THEN unlocks \cup {new.id} ELSE unlocks
    /\ nextId' = nextId + 1
    /\ call' = [call EXCEPT ![l] = NoCall]
    /\ attempted' = IF l = "quiz_attempt" THEN attempted \cup {new.problem} ELSE attempted
    /\ outdated' = IF l = "ai_quiz_attempt" /\ \E r \in records : Replaces(r, new, call[l].since)
                   THEN outdated \cup {new.set} ELSE outdated
    /\ UNCHANGED <<progress, ready, clock, page, crashes>>

\* ... and any other is inserted, counted and paid for by the oldest records,
\* in one transaction.
Save(l) ==
    LET new == [id |-> nextId, problem |-> call[l].problem, kind |-> l,
                created |-> call[l].created, bytes |-> call[l].bytes, set |-> call[l].set]
        all == records \cup {new}
        gone == Pruned(all, used + new.bytes)
    IN
    /\ ready
    /\ call[l].at = "saving"
    /\ new.bytes <= Quota
    /\ records' = all \ gone
    /\ used' = used + new.bytes - Bytes(gone)
    /\ unlocks' = IF l = "quiz_attempt" THEN unlocks \cup {new.problem} ELSE unlocks
    /\ nextId' = nextId + 1
    /\ call' = [call EXCEPT ![l] = NoCall]
    /\ attempted' = IF l = "quiz_attempt" THEN attempted \cup {new.problem} ELSE attempted
    /\ outdated' = IF l = "ai_quiz_attempt" /\ \E r \in records : Replaces(r, new, call[l].since)
                   THEN outdated \cup {new.set} ELSE outdated
    /\ UNCHANGED <<progress, ready, clock, page, crashes>>

Crash ==
    /\ crashes < MaxCrashes
    /\ crashes' = crashes + 1
    /\ ready' = FALSE
    /\ call' = [l \in Lanes |-> NoCall]
    /\ page' = [p \in Problems |-> NoSet]
    /\ UNCHANGED <<progress, tables, clock, history>>

Next ==
    \/ Initialize
    \/ \E p \in Problems : \/ Complete(p)
                           \/ ShowQuiz(p)
                           \/ \E l \in Lanes : Begin(l, p)
    \/ \E l \in Lanes : \/ Abandon(l)
                        \/ \E n \in Sizes : Stamp(l, n)
                        \/ TooLarge(l)
                        \/ Save(l)
    \/ Crash

Spec == Init /\ [][Next]_vars

-----------------------------------------------------------------------------
(* Properties *)

\* Type invariant.
TypeOK ==
    /\ progress \in [Problems -> {"open", "solved", "gave_up"}]
    /\ records \subseteq Record
    /\ used \in Nat
    /\ unlocks \subseteq Problems
    /\ nextId \in Nat
    /\ ready \in BOOLEAN
    /\ clock \in Nat
    /\ call \in [Lanes -> Call]
    /\ page \in [Problems -> Nat]
    /\ attempted \subseteq Problems
    /\ outdated \subseteq Nat
    /\ crashes \in Nat

\* A quiz that was once submitted stays unlocked although its attempts may be
\* pruned, and nothing else unlocks a problem; a database of an earlier version
\* is unlocked by its attempts.
UnlockFollowsQuiz == ready => unlocks = attempted

\* The cached counter is the sum of the rows, and within the quota, whatever
\* saves overlap (_usage, _set_usage and _prune of one transaction).
UsageIsExact == used = Bytes(records) /\ used <= Quota

\* A save gives up the oldest records of all problems, and, when what it saves
\* stays, none whose removal the quota does not require.
OldestGoFirst ==
    [][\A r \in records \ records' :
         /\ \A s \in records' : Older(r, s)
         /\ records' \ records # {} =>
              Bytes({s \in records \cup records' : ~Older(s, r)}) > Quota]_records

\* At the quota the history is paid for by its oldest records and the counter
\* follows, whatever saves overlap.
PruningIsExact == []UsageIsExact /\ OldestGoFirst

\* A page that shows a quiz that was replaced before the answers were sent is
\* refused: no attempt at it is recorded (grade_personalized_quiz).
StaleQuizIsRefused == outdated = {}

=============================================================================
