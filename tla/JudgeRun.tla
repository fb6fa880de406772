------------------------------ MODULE JudgeRun ------------------------------
(***************************************************************************)
(* One submission through the local judge: its cases in order, for each of *)
(* them a compilation and a run of the learner's program in a directory of *)
(* its own, the first case that does not pass, and what the learner and    *)
(* the history may know of it.                                             *)
(*                                                                         *)
(* A program is what it does with each case, chosen before the judge sees  *)
(* it.  A definition marked Deviation is a mistake whose effect the run    *)
(* must notice.                                                            *)
(***************************************************************************)
EXTENDS Naturals, Sequences, FiniteSets

CONSTANTS
    NumCases,  \* test cases of the problem
    MaxFaults  \* bound: steps at which the machine fails the judge

ASSUME JudgeAssumption == {NumCases, MaxFaults} \subseteq Nat

VARIABLES
    samples,  \* how many of the cases, the first ones, are public samples
    mode,     \* SubmissionMode
    program,  \* the source: its size, what it compiles to and does with each case
    at,       \* the position in the judge
    case,     \* the case in hand
    passed,   \* passed_count
    result,   \* JudgeResult
    view,     \* SubmissionView
    stored,   \* the results in the code history
    faults

submission == <<samples, mode, program>>
judgeVars == <<samples, mode, program, at, case, passed, result, view, stored, faults>>

-----------------------------------------------------------------------------

Cases == 1..NumCases
Hidden(c) == c > samples

\* get_tests: the samples first, the hidden cases for a full submission only.
Total == IF mode = "full" THEN NumCases ELSE samples

\* What an output has in common with the expected one: it may differ in blanks
\* at the ends of lines and in empty lines at its end, or in its content, its
\* leading blanks or its inner lines.
Outputs == {"equal", "trailing_blanks", "leading_blanks", "other"}

\* How the process ends: by itself with status 0 or with another one (a raised
\* exception, too much memory or output, the CPU limit), or not within the time
\* limit.
Endings == {"exits", "raises", "hangs"}

\* What the diagnostic finds in stderr: nothing; a traceback into the submission
\* whose last line names the exception; a traceback after whose exception the
\* program wrote a line of its own that begins like a name (a message of several
\* lines); only such a line (the text with which a program exits).
Stderr == {"silent", "traceback", "multiline", "message"}

\* What a process writes to stderr is looked at only if it fails.
Behaviours ==
    [ends: {"exits"}, output: Outputs, stderr: {"silent"}]
    \cup [ends: {"raises"}, output: Outputs, stderr: Stderr]
    \cup [ends: {"hangs"}, output: {"other"}, stderr: {"silent"}]

\* A large source is above the limit of the executor (65,536 bytes), a huge one
\* above that of the workspace (1 MiB).
Program == [size: {"small", "large", "huge"},
            source: {"malformed", "misindented", "slow_to_compile", "sound"},
            does: [Cases -> Behaviours]]

\* outputs_match: normalize_trim drops what the eye cannot see, at the end.
OutputsMatch(output) == output \in {"equal", "trailing_blanks"}

\* failed is the case that did not pass, 0 if there is none.
NoResult == [status |-> "", passed |-> 0, total |-> 0, failed |-> 0, stderr |-> "silent"]

\* shown: the parts of a case, or of what the program said of it, that the
\* learner gets to see.  summary, located (source_line) and redacted are of the
\* diagnostic.
NoView == [status |-> "", passed |-> 0, total |-> 0, case |-> 0, shown |-> {},
           summary |-> "", located |-> FALSE, redacted |-> FALSE]

\* A program whose source is not compiled does nothing.
JudgeInit ==
    /\ samples \in 0..NumCases
    /\ mode \in {"sample", "full"}
    /\ program \in Program
    /\ program.source # "sound" \/ program.size # "small" =>
        \A c \in Cases :
            program.does[c] = [ends |-> "exits", output |-> "equal", stderr |-> "silent"]
    /\ at = "received"
    /\ case = 1
    /\ passed = 0
    /\ result = NoResult
    /\ view = NoView
    /\ stored = <<>>
    /\ faults = 0

-----------------------------------------------------------------------------
(* LocalJudgeRunner and SubprocessExecutor *)

\* validate_source: a huge source is refused with a message (ValueError).
Receive ==
    /\ at = "received"
    /\ at' = IF program.size = "huge" THEN "refused" ELSE "compile"
    /\ UNCHANGED <<submission, case, passed, result, view, stored, faults>>

JudgeResult(status, failed, stderr) ==
    /\ result' = [status |-> status, passed |-> passed, total |-> Total,
                  failed |-> failed, stderr |-> stderr]
    /\ at' = "judged"
    /\ UNCHANGED <<submission, case, passed, view, stored>>

NoCases ==
    /\ at = "compile"
    /\ Total = 0
    /\ JudgeResult("IE", 0, "silent")
    /\ UNCHANGED faults

\* The source is compiled again for every case, unless it is large, which counts as
\* an error of compilation; a compilation that does not end in time is reported
\* like a run that does not.  py_compile reports a SyntaxError with its line, and
\* any other error (an IndentationError) in one line after the word "Sorry".
Compile ==
    /\ at = "compile"
    /\ case <= Total
    /\ \/ program.size # "small" /\ JudgeResult("CE", case, "silent")
       \/ /\ program.size = "small"
          /\ \/ program.source = "malformed" /\ JudgeResult("CE", case, "traceback")
             \/ program.source = "misindented" /\ JudgeResult("CE", case, "message")
             \/ program.source = "slow_to_compile" /\ JudgeResult("TLE", case, "silent")
       \/ /\ program.size = "small" /\ program.source = "sound"
          /\ at' = "run"
          /\ UNCHANGED <<submission, case, passed, result, view, stored>>
    /\ UNCHANGED faults

PassCase ==
    /\ passed' = passed + 1
    /\ case' = case + 1
    /\ at' = IF case = Total THEN "accepted" ELSE "compile"
    /\ UNCHANGED <<submission, result, view, stored>>

\* Deviation: the output decides, whatever the process answered at its end.
RunByOutput ==
    LET does == program.does[case]
        matches == OutputsMatch(does.output)
    IN  /\ at = "run"
        /\ \/ does.ends = "hangs" /\ JudgeResult("TLE", case, "silent")
           \/ does.ends # "hangs" /\ ~matches /\ JudgeResult("WA", case, "silent")
           \/ does.ends # "hangs" /\ matches /\ PassCase
        /\ UNCHANGED faults

\* The child is killed at the time limit; a status other than 0 comes before
\* the comparison of the outputs.
Run ==
    LET does == program.does[case]
        matches == OutputsMatch(does.output)
    IN  /\ at = "run"
        /\ \/ does.ends = "hangs" /\ JudgeResult("TLE", case, "silent")
           \/ does.ends = "raises" /\ JudgeResult("RE", case, does.stderr)
           \/ does.ends = "exits" /\ ~matches /\ JudgeResult("WA", case, "silent")
           \/ does.ends = "exits" /\ matches /\ PassCase
        /\ UNCHANGED faults

Accept ==
    /\ at = "accepted"
    /\ JudgeResult("AC", 0, "silent")
    /\ UNCHANGED faults

\* A process cannot be started or its output not be read (OSError), and the
\* status is IE; or the source cannot be written, or a resource limit not be set
\* (SubprocessError), which nobody catches, and the call ends.
MachineFails ==
    /\ at \in {"compile", "run"}
    /\ case <= Total
    /\ program.size = "small"
    /\ faults < MaxFaults
    /\ faults' = faults + 1
    /\ \/ JudgeResult("IE", case, "silent")
       \/ at' = "raised" /\ UNCHANGED <<submission, case, passed, result, view, stored>>

-----------------------------------------------------------------------------
(* SubmissionService.submit and LearnerDiagnosticPolicy.create *)

Diagnosed(status) == status \notin {"AC", "WA"}

\* _exception_summary: the last line that begins like a name, be it that of an
\* exception or a word of the program ("text").
Summary(r) ==
    CASE ~Diagnosed(r.status) -> ""
      [] r.status = "TLE" -> "time_limit"
      [] r.status = "IE" -> "internal"
      [] r.status \in {"CE", "RE"} ->
            CASE r.stderr = "silent" -> "unnamed"
              [] r.stderr = "traceback" -> "exception"
              [] r.stderr \in {"multiline", "message"} -> "text"

\* _source_line
Located(r) == r.status \in {"CE", "RE"} /\ r.stderr \in {"traceback", "multiline"}

\* What the view tells of the failed case; the excerpt is that of _safe_excerpt.
Shown(r) ==
    LET sample == r.failed # 0 /\ ~Hidden(r.failed) IN
    {part \in {"input", "expected", "actual", "excerpt"} :
        \/ part = "input" /\ sample
        \/ /\ part = "excerpt" /\ r.stderr # "silent"
           /\ r.status = "CE" \/ (r.status = "RE" /\ sample)
        \/ part \in {"expected", "actual"} /\ sample /\ r.status = "WA"}

View(r) ==
    [status |-> r.status, passed |-> r.passed, total |-> r.total, case |-> r.failed,
     shown |-> Shown(r), summary |-> Summary(r), located |-> Located(r),
     redacted |-> \/ r.status = "IE"
                  \/ Diagnosed(r.status) /\ r.failed # 0 /\ Hidden(r.failed)]

\* The result that is stored is the view.
Submit ==
    /\ at = "judged"
    /\ view' = View(result)
    /\ stored' = Append(stored, View(result))
    /\ at' = "shown"
    /\ UNCHANGED <<submission, case, passed, result, faults>>

JudgeNext == Receive \/ NoCases \/ Compile \/ Run \/ Accept \/ MachineFails \/ Submit

JudgeSpec == JudgeInit /\ [][JudgeNext]_judgeVars

-----------------------------------------------------------------------------
(* Properties *)

\* The verdict that program p deserves on a case, whatever its size.
Deserved(p, c) ==
    IF p.source \in {"malformed", "misindented"} THEN "CE"
    ELSE IF p.source = "slow_to_compile" \/ p.does[c].ends = "hangs" THEN "TLE"
    ELSE IF p.does[c].ends = "raises" THEN "RE"
    ELSE IF p.does[c].output \in {"leading_blanks", "other"} THEN "WA"
    ELSE "AC"

Failing == {c \in 1..Total : Deserved(program, c) # "AC"}

\* A submission that ends is judged by the first case in order that its program
\* does not pass, the samples before the hidden cases; it is accepted only if
\* the program passes all of them; a failure of the machine is never taken for
\* one of the program.  Of a large source it says only that nothing of it was run
\* (see SourceUpToOneMebibyteIsJudged).  Neither input nor outputs are shown of a
\* hidden case, and no excerpt but that of the compiler.  An exception that a
\* traceback names is named with its line, on a hidden case too.  A word of the
\* program's own text is shown of such a case as the summary, instead of the type of
\* an exception (docs/architecture.md:184-185), if and only if the last line of stderr
\* that begins like a name is the program's.  The history holds what was shown.
LearnerSeesTheFirstFailure ==
    at = "shown" =>
        /\ CASE view.status = "IE" -> faults > 0 \/ Total = 0
             [] view.status # "IE" /\ program.size # "small" ->
                    program.size = "large" /\ view.status = "CE" /\ view.passed = 0
             [] view.status # "IE" /\ program.size = "small" ->
                    IF Failing = {} THEN view.status = "AC" /\ view.passed = Total
                    ELSE /\ view.case \in Failing
                         /\ \A c \in Failing : view.case <= c
                         /\ view.status = Deserved(program, view.case)
                         /\ view.passed = view.case - 1
        /\ view.case # 0 /\ Hidden(view.case) =>
             view.shown \subseteq IF view.status = "CE" THEN {"excerpt"} ELSE {}
        /\ view.status = "RE" /\ program.does[view.case].stderr = "traceback" =>
             view.summary = "exception" /\ view.located
        /\ view.case # 0 /\ Hidden(view.case) /\ view.status # "CE" =>
             (view.summary = "text" <=>
                /\ view.status = "RE"
                /\ program.does[view.case].stderr \in {"multiline", "message"})
        /\ stored = <<view>>

\* What docs/acceptance-test.md:49 says: a source of up to 1 MiB is judged, so that
\* the verdict CE is left to sources that do not compile.
SourceUpToOneMebibyteIsJudged ==
    at = "shown" /\ view.status = "CE" => program.source \in {"malformed", "misindented"}
=============================================================================
