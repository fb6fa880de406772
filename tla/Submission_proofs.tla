-------------------------- MODULE Submission_proofs --------------------------
(***************************************************************************)
(* The two ends of a submission.  Its verdict: the learner sees the first  *)
(* failure, for any number of cases, of samples among them, and of         *)
(* failures of the machine (JudgeRun).  And the completion tab that        *)
(* follows it: when nothing is under way it is that of the selected        *)
(* problem, for any number of problems and of calls under way before       *)
(* (CompletionPanel).                                                      *)
(***************************************************************************)
EXTENDS JudgeRun, CompletionPanel, SequenceTheorems, TLAPS

-----------------------------------------------------------------------------
(* The verdict *)

\* What the judge has in hand: a submission, and a case that comes after the
\* ones that passed.
InHand ==
    /\ samples \in 0..NumCases
    /\ mode \in {"sample", "full"}
    /\ program \in Program
    /\ case \in Nat \ {0}
    /\ passed \in Nat
    /\ faults \in Nat
    /\ at \in {"received", "refused", "compile", "run", "accepted", "judged", "shown", "raised"}

\* Every case before the one in hand was passed.
PassedSoFar ==
    at \in {"received", "compile", "run"} =>
        /\ passed = case - 1
        /\ \A c \in Failing : case <= c
        /\ at = "run" => program.source = "sound" /\ program.size = "small" /\ case <= Total

\* A huge source does not get as far as the judge, and no case of a large one passes.
Sized ==
    /\ at \notin {"received", "refused"} => program.size # "huge"
    /\ program.size # "small" => at \notin {"run", "accepted"} /\ passed = 0

AllPassed == at = "accepted" => Failing = {} /\ passed = Total

\* The result names the first failure, or the machine's.
IsFirstFailure(r) ==
    IF r.status = "IE" THEN faults > 0 \/ Total = 0
    ELSE IF program.size # "small" THEN r.status = "CE" /\ r.passed = 0
    ELSE IF Failing = {} THEN r.status = "AC" /\ r.passed = Total
    ELSE /\ r.failed \in Failing
         /\ \A c \in Failing : r.failed <= c
         /\ r.status = Deserved(program, r.failed)
         /\ r.passed = r.failed - 1

\* What a failed run left in stderr is what the program wrote on the failed case.
IsWhatItWrote(r) == r.status = "RE" => r.stderr = program.does[r.failed].stderr

Judged == at \in {"judged", "shown"} => IsFirstFailure(result) /\ IsWhatItWrote(result)

StoredOnce ==
    IF at = "shown" THEN view = View(result) /\ stored = <<view>> ELSE stored = <<>>

JudgeInv == InHand /\ PassedSoFar /\ Sized /\ AllPassed /\ Judged /\ StoredOnce

-----------------------------------------------------------------------------

LEMMA TotalIsNat == InHand => Total \in Nat
  BY JudgeAssumption DEF InHand, Total, JudgeAssumption

LEMMA JudgeInitInv == JudgeInit => JudgeInv
<1> SUFFICES ASSUME JudgeInit PROVE JudgeInv
  OBVIOUS
<1>1. InHand
  BY DEF JudgeInit, InHand
<1>2. PassedSoFar
  <2>1. Total \in Nat
    BY <1>1, TotalIsNat
  <2> QED BY <2>1 DEF JudgeInit, PassedSoFar, Failing
<1> QED BY <1>1, <1>2 DEF JudgeInit, JudgeInv, Sized, AllPassed, Judged, StoredOnce

\* What a verdict on the case in hand comes to: the case before it passed, so
\* it is the first failure.
LEMMA FirstFailure ==
  ASSUME InHand, PassedSoFar, NEW status, NEW stderr,
         at \in {"compile", "run"}, case <= Total, program.size = "small",
         status = Deserved(program, case), status # "AC", status # "IE"
  PROVE  IsFirstFailure([status |-> status, passed |-> passed, total |-> Total,
                         failed |-> case, stderr |-> stderr])
<1>1. case \in 1..Total
  BY TotalIsNat DEF InHand
<1>2. case \in Failing
  BY <1>1 DEF Failing
<1> QED BY <1>2 DEF PassedSoFar, IsFirstFailure, IsWhatItWrote

\* A step that leaves the submission alone leaves what it deserves alone.
LEMMA SameSubmission ==
  ASSUME UNCHANGED submission
  PROVE  Total' = Total /\ Failing' = Failing
<1>1. Total' = Total
  BY DEF submission, Total
<1> QED BY <1>1 DEF submission, Failing, Deserved

\* A judged submission that was not stored yet.
LEMMA JudgedInv ==
  ASSUME JudgeInv, NEW status, NEW failed, NEW stderr,
         at # "shown", JudgeResult(status, failed, stderr), faults' \in Nat,
         IsFirstFailure(result)', IsWhatItWrote(result)', at \notin {"received", "refused"}
  PROVE  JudgeInv'
BY SameSubmission DEF JudgeResult, submission, JudgeInv, InHand, PassedSoFar, Sized, AllPassed,
                       Judged, StoredOnce

LEMMA JudgeNextInv == JudgeInv /\ [JudgeNext]_judgeVars => JudgeInv'
<1> SUFFICES ASSUME JudgeInv, [JudgeNext]_judgeVars PROVE JudgeInv'
  OBVIOUS
<1> USE DEF JudgeInv
<1>0. Total \in Nat
  BY TotalIsNat
<1>1. CASE NoCases
  <2> DEFINE r == [status |-> "IE", passed |-> passed, total |-> Total,
                   failed |-> 0, stderr |-> "silent"]
  <2>1. result' = r /\ at # "shown" /\ faults' \in Nat
    BY <1>1 DEF NoCases, JudgeResult, InHand
  <2>2. IsFirstFailure(result)' /\ IsWhatItWrote(result)'
    BY <1>1, <2>1, SameSubmission DEF NoCases, JudgeResult, IsFirstFailure, IsWhatItWrote
  <2> QED BY <1>1, <2>1, <2>2, JudgedInv DEF NoCases
<1>2. CASE Compile
  <2>1. at = "compile" /\ case <= Total /\ faults' = faults
    BY <1>2 DEF Compile
  <2>2. CASE program.size = "small" /\ program.source = "sound"
    <3>1. at' = "run" /\ UNCHANGED <<submission, case, passed, result, view, stored>>
      BY <1>2, <2>2 DEF Compile
    <3> QED BY <2>1, <2>2, <3>1, SameSubmission
            DEF submission, InHand, PassedSoFar, Sized, AllPassed, Judged, StoredOnce
  <2>3. CASE program.size = "small" /\ program.source # "sound"
    <3>1. PICK status \in {"CE", "TLE"}, stderr \in Stderr :
              /\ JudgeResult(status, case, stderr)
              /\ status = Deserved(program, case)
      <4>1. program.source \in {"malformed", "misindented", "slow_to_compile"}
        BY <2>3 DEF InHand, Program
      <4> USE DEF Stderr
      <4>2. CASE program.source = "malformed"
        <5>1. JudgeResult("CE", case, "traceback")
          BY <1>2, <2>3, <4>2 DEF Compile
        <5>2. Deserved(program, case) = "CE"
          BY <4>2 DEF Deserved
        <5> WITNESS "CE" \in {"CE", "TLE"}, "traceback" \in Stderr
        <5> QED BY <5>1, <5>2
      <4>3. CASE program.source = "misindented"
        <5>1. JudgeResult("CE", case, "message")
          BY <1>2, <2>3, <4>3 DEF Compile
        <5>2. Deserved(program, case) = "CE"
          BY <4>3 DEF Deserved
        <5> WITNESS "CE" \in {"CE", "TLE"}, "message" \in Stderr
        <5> QED BY <5>1, <5>2
      <4>4. CASE program.source = "slow_to_compile"
        <5>1. JudgeResult("TLE", case, "silent")
          BY <1>2, <2>3, <4>4 DEF Compile
        <5>2. Deserved(program, case) = "TLE"
          BY <4>4 DEF Deserved
        <5> WITNESS "TLE" \in {"CE", "TLE"}, "silent" \in Stderr
        <5> QED BY <5>1, <5>2
      <4> QED BY <4>1, <4>2, <4>3, <4>4
    <3>2. IsFirstFailure([status |-> status, passed |-> passed, total |-> Total,
                          failed |-> case, stderr |-> stderr])
      BY <2>1, <2>3, <3>1, FirstFailure
    <3>3. IsFirstFailure(result)' /\ IsWhatItWrote(result)'
      BY <2>1, <3>1, <3>2, SameSubmission DEF JudgeResult, submission, IsFirstFailure, IsWhatItWrote
    <3> QED BY <2>1, <3>1, <3>3, JudgedInv DEF InHand
  <2>4. CASE program.size # "small"
    <3>1. JudgeResult("CE", case, "silent") /\ passed = 0
      BY <1>2, <2>4 DEF Compile, Sized
    <3>2. IsFirstFailure(result)' /\ IsWhatItWrote(result)'
      BY <2>4, <3>1 DEF JudgeResult, submission, IsFirstFailure, IsWhatItWrote
    <3> QED BY <2>1, <3>1, <3>2, JudgedInv DEF InHand
  <2> QED BY <2>2, <2>3, <2>4
<1>3. CASE Run
  <2> DEFINE does == program.does[case]
  <2>1. /\ at = "run" /\ case <= Total /\ faults' = faults
        /\ program.source = "sound" /\ program.size = "small"
        /\ does.ends \in Endings /\ does.output \in Outputs /\ does.stderr \in Stderr
    <3>1. case \in Cases
      BY <1>3, JudgeAssumption DEF Run, PassedSoFar, InHand, Cases, Total, JudgeAssumption
    <3>2. does \in Behaviours
      BY <3>1 DEF InHand, Program
    <3>3. does.ends \in Endings /\ does.output \in Outputs /\ does.stderr \in Stderr
      BY <3>2 DEF Behaviours, Endings, Outputs, Stderr
    <3> QED BY <1>3, <3>3 DEF Run, PassedSoFar
  <2>2. CASE does.ends = "exits" /\ OutputsMatch(does.output)
    <3>1. /\ passed' = passed + 1
          /\ case' = case + 1
          /\ at' = IF case = Total THEN "accepted" ELSE "compile"
          /\ UNCHANGED <<submission, result, view, stored>>
      BY <1>3, <2>2 DEF Run, PassCase
    <3>2. case \notin Failing
      BY <2>1, <2>2 DEF Failing, Deserved, OutputsMatch
    <3>3. /\ \A c \in Failing : case + 1 <= c
          /\ passed = case - 1
      BY <1>0, <2>1, <3>2 DEF PassedSoFar, InHand, Failing
    <3>4. case = Total => Failing = {}
      BY <1>0, <3>3 DEF Failing, InHand
    <3> QED BY <1>0, <2>1, <3>1, <3>3, <3>4, SameSubmission
            DEF submission, InHand, PassedSoFar, Sized, AllPassed, Judged, StoredOnce
  <2>3. CASE ~(does.ends = "exits" /\ OutputsMatch(does.output))
    <3>1. PICK status \in {"TLE", "RE", "WA"}, stderr \in Stderr :
              /\ JudgeResult(status, case, stderr)
              /\ status = Deserved(program, case)
              /\ status = "RE" => stderr = does.stderr
      <4>0. "silent" \in Stderr
        BY DEF Stderr
      <4>1. CASE does.ends = "hangs"
        <5>1. JudgeResult("TLE", case, "silent")
          BY <1>3, <2>1, <4>1 DEF Run
        <5>2. Deserved(program, case) = "TLE"
          BY <2>1, <4>1 DEF Deserved
        <5> QED BY <4>0, <5>1, <5>2
      <4>2. CASE does.ends = "raises"
        <5>1. JudgeResult("RE", case, does.stderr)
          BY <1>3, <2>1, <4>2 DEF Run
        <5>2. Deserved(program, case) = "RE"
          BY <2>1, <4>2 DEF Deserved
        <5> QED BY <2>1, <5>1, <5>2
      <4>3. CASE does.ends = "exits"
        <5>1. JudgeResult("WA", case, "silent")
          BY <1>3, <2>3, <4>3 DEF Run, JudgeResult
        <5>2. Deserved(program, case) = "WA"
          BY <2>1, <2>3, <4>3 DEF Deserved, OutputsMatch, Outputs
        <5> QED BY <4>0, <5>1, <5>2
      <4> QED BY <2>1, <4>1, <4>2, <4>3 DEF Endings
    <3>2. IsFirstFailure([status |-> status, passed |-> passed, total |-> Total,
                          failed |-> case, stderr |-> stderr])
      BY <2>1, <3>1, FirstFailure
    <3>3. IsFirstFailure(result)' /\ IsWhatItWrote(result)'
      BY <2>1, <3>1, <3>2, SameSubmission DEF JudgeResult, submission, IsFirstFailure, IsWhatItWrote
    <3> QED BY <2>1, <3>1, <3>3, JudgedInv DEF InHand
  <2> QED BY <2>2, <2>3
<1>4. CASE Accept
  <2>1. at = "accepted" /\ JudgeResult("AC", 0, "silent") /\ faults' = faults
    BY <1>4 DEF Accept
  <2>2. /\ result' = [status |-> "AC", passed |-> passed, total |-> Total,
                     failed |-> 0, stderr |-> "silent"]
        /\ UNCHANGED submission
    BY <2>1 DEF JudgeResult
  <2>3. Failing = {} /\ passed = Total /\ program.size = "small"
    BY <2>1 DEF AllPassed, Sized
  <2>4. IsFirstFailure(result)' /\ IsWhatItWrote(result)'
    BY <2>2, <2>3, SameSubmission DEF submission, IsFirstFailure, IsWhatItWrote
  <2> QED BY <2>1, <2>4, JudgedInv DEF InHand
<1>5. CASE MachineFails
  <2>1. at \in {"compile", "run"} /\ faults' = faults + 1
    BY <1>5 DEF MachineFails
  <2>2. CASE JudgeResult("IE", case, "silent")
    <3>1. IsFirstFailure(result)' /\ IsWhatItWrote(result)'
      <4>1. result'.status = "IE" /\ faults' > 0
        BY <2>1, <2>2 DEF JudgeResult, InHand
      <4> QED BY <4>1 DEF IsFirstFailure, IsWhatItWrote
    <3>2. at \notin {"shown", "received", "refused"} /\ faults' \in Nat
      BY <2>1 DEF InHand
    <3> QED BY <2>2, <3>1, <3>2, JudgedInv
  <2>3. CASE at' = "raised" /\ UNCHANGED <<submission, case, passed, result, view, stored>>
    BY <2>1, <2>3 DEF submission, InHand, PassedSoFar, Sized, AllPassed, Judged, StoredOnce
  <2> QED BY <1>5, <2>2, <2>3 DEF MachineFails
<1>6. CASE Submit
  <2>1. /\ at = "judged" /\ at' = "shown"
        /\ view' = View(result)
        /\ stored' = <<view'>>
        /\ UNCHANGED <<submission, case, passed, result, faults>>
    BY <1>6 DEF Submit, StoredOnce
  <2>2. View(result)' = View(result)
    BY <2>1 DEF submission, View, Shown, Summary, Located, Diagnosed, Hidden
  <2>3. IsFirstFailure(result)' /\ IsWhatItWrote(result)'
    BY <2>1, SameSubmission DEF Judged, IsFirstFailure, IsWhatItWrote, submission
  <2> QED BY <2>1, <2>2, <2>3
          DEF submission, InHand, PassedSoFar, Sized, AllPassed, Judged, StoredOnce
<1>8. CASE Receive
  <2>1. /\ at = "received" /\ at' = IF program.size = "huge" THEN "refused" ELSE "compile"
        /\ UNCHANGED <<submission, case, passed, result, view, stored, faults>>
    BY <1>8 DEF Receive
  <2> QED BY <2>1, SameSubmission
          DEF submission, InHand, PassedSoFar, Sized, AllPassed, Judged, StoredOnce
<1>7. CASE UNCHANGED judgeVars
  <2>1. UNCHANGED submission
    BY <1>7 DEF judgeVars, submission
  <2>2. View(result)' = View(result)
    BY <1>7 DEF judgeVars, View, Shown, Summary, Located, Diagnosed, Hidden
  <2> QED BY <1>7, <2>1, <2>2, SameSubmission
          DEF judgeVars, InHand, PassedSoFar, Sized, AllPassed, Judged, StoredOnce, IsFirstFailure, IsWhatItWrote
<1> QED BY <1>1, <1>2, <1>3, <1>4, <1>5, <1>6, <1>7, <1>8 DEF JudgeNext

\* A view of a result that is the first failure shows it; of a hidden case no part,
\* and no excerpt but the compiler's; and its summary is the exception of a traceback,
\* or a word of the program exactly when the program wrote the last such line.
LEMMA JudgeInvShows == JudgeInv => LearnerSeesTheFirstFailure
<1> SUFFICES ASSUME JudgeInv, at = "shown" PROVE LearnerSeesTheFirstFailure
  BY DEF LearnerSeesTheFirstFailure
<1>1. /\ view = View(result) /\ stored = <<view>>
      /\ IsFirstFailure(result) /\ IsWhatItWrote(result)
  BY DEF JudgeInv, StoredOnce, Judged
<1>2. /\ view.status = result.status /\ view.passed = result.passed
      /\ view.case = result.failed /\ view.shown = Shown(result)
      /\ view.summary = Summary(result) /\ view.located = Located(result)
  BY <1>1 DEF View
<1>3. view.case # 0 /\ Hidden(view.case) =>
          view.shown \subseteq IF view.status = "CE" THEN {"excerpt"} ELSE {}
  BY <1>2 DEF Shown
<1>4. view.status = "RE" /\ program.does[view.case].stderr = "traceback" =>
          view.summary = "exception" /\ view.located
  <2> SUFFICES ASSUME result.status = "RE", result.stderr = "traceback"
               PROVE  Summary(result) = "exception" /\ Located(result)
    BY <1>1, <1>2 DEF IsWhatItWrote
  <2> QED BY DEF Summary, Located, Diagnosed
<1>5. program.size \in {"small", "large"}
  BY DEF JudgeInv, InHand, Program, Sized
<1>6. result.status \in {"AC", "WA", "RE", "TLE", "CE", "IE"}
  BY <1>1 DEF IsFirstFailure, Deserved
<1>7. result.status = "RE" => result.stderr \in Stderr
  <2> SUFFICES ASSUME result.status = "RE" PROVE result.stderr \in Stderr
    OBVIOUS
  <2>1. result.failed \in Failing
    BY <1>1 DEF IsFirstFailure
  <2>2. result.failed \in Cases
    BY <2>1, JudgeAssumption DEF Failing, Total, Cases, JudgeInv, InHand, JudgeAssumption
  <2>3. program.does[result.failed] \in Behaviours
    BY <2>2 DEF JudgeInv, InHand, Program
  <2>4. program.does[result.failed].stderr \in Stderr
    BY <2>3 DEF Behaviours, Stderr
  <2> QED BY <1>1, <2>4 DEF IsWhatItWrote
<1>8. result.status # "CE" =>
          (Summary(result) = "text" <=> /\ result.status = "RE"
                                        /\ result.stderr \in {"multiline", "message"})
  <2>1. CASE result.status = "RE"
    BY <1>7, <2>1 DEF Summary, Diagnosed, Stderr
  <2>2. CASE result.status \in {"AC", "WA", "TLE", "IE"}
    BY <2>2 DEF Summary, Diagnosed
  <2> QED BY <1>6, <2>1, <2>2
<1>9. view.status # "CE" =>
          (view.summary = "text" <=>
             /\ view.status = "RE"
             /\ program.does[view.case].stderr \in {"multiline", "message"})
  BY <1>1, <1>2, <1>8 DEF IsWhatItWrote
<1> QED BY <1>1, <1>2, <1>3, <1>4, <1>5, <1>9 DEF LearnerSeesTheFirstFailure, IsFirstFailure

\* The first case that a program does not pass decides what its learner sees and
\* what is stored, for every number of cases and samples: no part of a hidden case
\* and no excerpt of what was written on it, but the exception of a traceback by its
\* name and line, or a word of the program that stands where an exception would
\* (LocalJudgeRunner.judge, LearnerDiagnosticPolicy.create).
THEOREM FirstFailureDecides == JudgeSpec => []LearnerSeesTheFirstFailure
<1>1. JudgeSpec => []JudgeInv
  BY JudgeInitInv, JudgeNextInv, PTL DEF JudgeSpec
<1> QED BY <1>1, JudgeInvShows, PTL

-----------------------------------------------------------------------------
(* The completion tab *)

\* The last call that waits for f: what the page will hold when all are served.
Newest(f) == queue[f][Len(queue[f])]

Pending(F) == \E f \in F : queue[f] # <<>>

\* The calls of the functions F were sent for the selected problem.
OwnCalls(F) == \A f \in F : \A c \in Range(queue[f]) : c.problem = page.problem

Own == {None, page.problem}

\* A set keeps the problem it was made for, however many are made after it.
SetsOfProblem ==
    /\ \A p \in Problems :
        latest[p] # 0 => latest[p] \in DOMAIN made /\ made[latest[p]].problem = p
    /\ page.set \in 0..Len(made)

\* The fixed quiz is that of the selected problem, or the call that comes last
\* will make it so.
PanelFollows ==
    \/ Pending({"select", "submit", "give_up"})
    \/ /\ queue["load_completion"] = <<>>
       /\ page.panel = IF page.problem \in Done THEN page.problem ELSE None
    \/ /\ queue["load_completion"] # <<>>
       /\ Newest("load_completion").problem = page.problem

SetFollows ==
    \/ Pending({"select", "reset"})
    \/ /\ queue["load_quiz"] = <<>>
       /\ page.set # 0 => made[page.set].problem = page.problem
    \/ /\ queue["load_quiz"] # <<>>
       /\ Newest("load_quiz").problem = page.problem

\* What is not loaded again by a later call can only be right when nothing was
\* under way for another problem.
ResultIsOwn ==
    \/ Pending({"select", "load_completion"})
    \/ page.result \in Own /\ (page.open => page.problem \in graded)

ReadingIsOwn ==
    \/ Pending({"select", "reset"})
    \/ page.explanation \in Own /\ page.review \in Own

Unhurried ==
    pace # "rash" => OwnCalls(Functions \ {"generate"}) /\ ResultIsOwn /\ ReadingIsOwn

\* Between a selection and its reset no generation is asked for or under way;
\* after it the code and the trigger are those of the selected problem.
NothingAsked ==
    Pending({"select", "reset"}) =>
        /\ ~Pending({"submit", "generate"})
        /\ \A c \in Range(queue["load_completion"]) : c.by # "submit"

SessionIsOwn ==
    \/ Pending({"select", "reset"})
    \/ session.accepted \in Own /\ (session.trigger => page.problem \in first)

GenerationIsOwn ==
    /\ OwnCalls({"generate"})
    /\ \A c \in Range(queue["generate"]) : c.code \in Own

MadeOfItsCode == \A i \in DOMAIN made : made[i].code = made[i].problem

Patient ==
    pace = "patient" =>
        /\ NothingAsked /\ SessionIsOwn /\ GenerationIsOwn
        /\ MadeOfItsCode
        /\ followed \subseteq first

PanelInv ==
    TypeOK /\ SetsOfProblem /\ PanelFollows /\ SetFollows /\ Unhurried /\ Patient

-----------------------------------------------------------------------------
(* The queue of a function *)

LEMMA NewCallIsCall ==
  ASSUME NEW p \in Problems, NEW by \in {"select", "submit", "give_up", "click"}
  PROVE  /\ NewCall(p, by) \in Call
         /\ NewCall(p, by).problem = p
         /\ NewCall(p, by).by = by
         /\ NewCall(p, by).code = None
BY DEF NewCall, Call

LEMMA AppendFacts ==
  ASSUME NEW s \in Seq(Call), NEW c \in Call
  PROVE  /\ Append(s, c) \in Seq(Call)
         /\ Append(s, c) # <<>>
         /\ Append(s, c)[Len(Append(s, c))] = c
         /\ Range(Append(s, c)) = Range(s) \cup {c}
<1>1. /\ Append(s, c) \in Seq(Call)
      /\ Append(s, c) # <<>>
      /\ Append(s, c)[Len(Append(s, c))] = c
  OBVIOUS
<1>2. /\ DOMAIN Append(s, c) = DOMAIN s \cup {Len(s) + 1}
      /\ \A i \in DOMAIN s : Append(s, c)[i] = s[i]
      /\ Append(s, c)[Len(s) + 1] = c
  OBVIOUS
<1> QED BY <1>1, <1>2 DEF Range

LEMMA TailFacts ==
  ASSUME NEW s \in Seq(Call), s # <<>>
  PROVE  /\ Head(s) \in Range(s)
         /\ Range(s) \subseteq Call
         /\ Tail(s) \in Seq(Call)
         /\ Range(Tail(s)) \subseteq Range(s)
         /\ Tail(s) = <<>> => s[Len(s)] = Head(s)
         /\ Tail(s) # <<>> => Tail(s)[Len(Tail(s))] = s[Len(s)]
<1>1. /\ Head(s) = s[1]
      /\ 1 \in DOMAIN s
      /\ \A i \in DOMAIN s : s[i] \in Call
      /\ Tail(s) \in Seq(Call)
  OBVIOUS
<1>2. \A i \in DOMAIN Tail(s) : i + 1 \in DOMAIN s /\ Tail(s)[i] = s[i + 1]
  OBVIOUS
<1>3. Len(Tail(s)) = Len(s) - 1 /\ Len(s) \in Nat \ {0}
  OBVIOUS
<1>4. Tail(s) = <<>> => s[Len(s)] = Head(s)
  <2>1. Tail(s) = <<>> => Len(s) = 1
    BY <1>1, <1>3, EmptySeq
  <2> QED BY <1>1, <2>1
<1>5. Tail(s) # <<>> => Tail(s)[Len(Tail(s))] = s[Len(s)]
  <2> SUFFICES ASSUME Tail(s) # <<>> PROVE Tail(s)[Len(Tail(s))] = s[Len(s)]
    OBVIOUS
  <2>1. Len(Tail(s)) \in DOMAIN Tail(s)
    BY <1>1
  <2> QED BY <1>2, <1>3, <2>1
<1> QED BY <1>1, <1>2, <1>4, <1>5 DEF Range

\* f returns and the functions of next follow it: what became of the queues.
Queued(f, next, by) ==
    /\ queue' \in [Functions -> Seq(Call)]
    /\ First(f) \in Range(queue[f]) /\ First(f) \in Call
    /\ Range(queue'[f]) \subseteq Range(queue[f])
    /\ queue'[f] = <<>> => Newest(f) = First(f)
    /\ queue'[f] # <<>> => queue'[f][Len(queue'[f])] = Newest(f)
    /\ \A g \in next :
        /\ queue'[g] # <<>>
        /\ queue'[g][Len(queue'[g])] = NewCall(page.problem, by)
        /\ Range(queue'[g]) = Range(queue[g]) \cup {NewCall(page.problem, by)}
    /\ \A g \in Functions \ (next \cup {f}) : queue'[g] = queue[g]

LEMMA Served ==
  ASSUME TypeOK, NEW f \in Functions, queue[f] # <<>>,
         NEW next, next \subseteq Functions \ {f},
         NEW by \in {"select", "submit", "give_up", "click"},
         Follow(f, next, by)
  PROVE  Queued(f, next, by)
<1> DEFINE c == NewCall(page.problem, by)
<1>1. page.problem \in Problems /\ queue \in [Functions -> Seq(Call)]
  BY DEF TypeOK, Page
<1>2. c \in Call
  BY <1>1, NewCallIsCall
<1> HIDE DEF c
<1>3. /\ \A g \in next : queue'[g] = Append(queue[g], c)
      /\ queue'[f] = Tail(queue[f])
      /\ \A g \in Functions \ (next \cup {f}) : queue'[g] = queue[g]
  BY DEF Follow, c
<1>4. \A g \in Functions : queue[g] \in Seq(Call)
  BY <1>1
<1>5. \A g \in Functions : queue'[g] \in Seq(Call)
  <2> TAKE g \in Functions
  <2>1. CASE g \in next
    <3>1. queue'[g] = Append(queue[g], c) /\ queue[g] \in Seq(Call)
      BY <1>3, <1>4, <2>1
    <3> QED BY <1>2, <3>1, AppendFacts
  <2>2. CASE g = f
    BY <1>3, <1>4, <2>2, TailFacts
  <2>3. CASE g \notin next /\ g # f
    BY <1>3, <1>4, <2>3
  <2> QED BY <2>1, <2>2, <2>3
<1>6. queue' = [g \in Functions |-> queue'[g]]
  BY DEF Follow
<1>7. queue' \in [Functions -> Seq(Call)]
  BY <1>5, <1>6
<1>8. /\ First(f) \in Range(queue[f]) /\ First(f) \in Call
      /\ Range(queue'[f]) \subseteq Range(queue[f])
      /\ queue'[f] = <<>> => Newest(f) = First(f)
      /\ queue'[f] # <<>> => queue'[f][Len(queue'[f])] = Newest(f)
  BY <1>3, <1>4, TailFacts DEF First, Newest
<1>9. \A g \in next :
        /\ queue'[g] # <<>>
        /\ queue'[g][Len(queue'[g])] = c
        /\ Range(queue'[g]) = Range(queue[g]) \cup {c}
  <2> TAKE g \in next
  <2>1. queue'[g] = Append(queue[g], c) /\ queue[g] \in Seq(Call)
    BY <1>3, <1>4
  <2> QED BY <1>2, <2>1, AppendFacts
<1> QED BY <1>3, <1>7, <1>8, <1>9 DEF c, Queued

\* The learner's click is the last call of its function.
LEMMA Clicked ==
  ASSUME TypeOK, NEW f \in Functions, NEW p \in Problems,
         queue' = [queue EXCEPT ![f] = Append(@, NewCall(p, "click"))]
  PROVE  /\ queue' \in [Functions -> Seq(Call)]
         /\ queue'[f] # <<>>
         /\ queue'[f][Len(queue'[f])] = NewCall(p, "click")
         /\ Range(queue'[f]) = Range(queue[f]) \cup {NewCall(p, "click")}
         /\ \A g \in Functions \ {f} : queue'[g] = queue[g]
<1> DEFINE c == NewCall(p, "click")
<1>1. queue \in [Functions -> Seq(Call)] /\ c \in Call
  BY NewCallIsCall DEF TypeOK
<1> HIDE DEF c
<1>2. queue'[f] = Append(queue[f], c) /\ queue[f] \in Seq(Call)
  BY <1>1 DEF c
<1>3. \A g \in Functions \ {f} : queue'[g] = queue[g]
  BY <1>1
<1>4. queue' \in [Functions -> Seq(Call)]
  BY <1>1, <1>2, AppendFacts DEF c
<1> QED BY <1>1, <1>2, <1>3, <1>4, AppendFacts DEF c

-----------------------------------------------------------------------------
(* What does not change *)

LEMMA PanelKept ==
  ASSUME PanelFollows, page'.problem = page.problem, page'.panel = page.panel,
         UNCHANGED <<solved, gaveUp>>,
         \A f \in {"select", "submit", "give_up", "load_completion"} : queue'[f] = queue[f]
  PROVE  PanelFollows'
BY DEF PanelFollows, Pending, Newest, Done

LEMMA SetKept ==
  ASSUME SetFollows, page'.problem = page.problem, page'.set = page.set,
         UNCHANGED made,
         \A f \in {"select", "reset", "load_quiz"} : queue'[f] = queue[f]
  PROVE  SetFollows'
BY DEF SetFollows, Pending, Newest

LEMMA MadeKept ==
  ASSUME SetsOfProblem, page'.set = page.set, UNCHANGED <<latest, made>>
  PROVE  SetsOfProblem'
BY DEF SetsOfProblem

LEMMA ResultKept ==
  ASSUME ResultIsOwn, page'.problem = page.problem, page'.result = page.result,
         page'.open = page.open, UNCHANGED graded,
         \A f \in {"select", "load_completion"} : queue'[f] = queue[f]
  PROVE  ResultIsOwn'
BY DEF ResultIsOwn, Pending, Own

LEMMA ReadingKept ==
  ASSUME ReadingIsOwn, page'.problem = page.problem,
         page'.explanation = page.explanation, page'.review = page.review,
         \A f \in {"select", "reset"} : queue'[f] = queue[f]
  PROVE  ReadingIsOwn'
BY DEF ReadingIsOwn, Pending, Own

LEMMA PatientKept ==
  ASSUME Patient, page'.problem = page.problem,
         pace' = "patient" => pace = "patient",
         UNCHANGED <<session, made, first, followed>>,
         \A f \in {"select", "reset", "submit", "generate", "load_completion"} :
             queue'[f] = queue[f]
  PROVE  Patient'
BY DEF Patient, NothingAsked, SessionIsOwn, GenerationIsOwn, MadeOfItsCode, OwnCalls,
       Pending, Own

-----------------------------------------------------------------------------

LEMMA PanelInit == Init => PanelInv
<1> SUFFICES ASSUME Init PROVE PanelInv
  OBVIOUS
<1>1. PICK p \in Problems :
        page = [problem |-> p, panel |-> IF p \in solved THEN p ELSE None,
                open |-> p \in graded, set |-> 0, again |-> FALSE,
                explanation |-> None, review |-> None, result |-> None]
  BY DEF Init
<1>2. page \in Page
  BY <1>1 DEF Page
<1>3. \A f \in Functions : queue[f] = <<>>
  BY DEF Init
<1>4. TypeOK
  <2>1. queue \in [Functions -> Seq(Call)]
    BY <1>3 DEF Init
  <2>2. session \in [accepted: Problems \cup {None}, trigger: BOOLEAN]
    BY DEF Init
  <2> QED BY <1>2, <2>1, <2>2 DEF Init, TypeOK
<1>5. page.set = 0 /\ page.problem = p
  BY <1>1
<1>6. SetsOfProblem
  BY <1>5 DEF Init, SetsOfProblem
<1>7. PanelFollows
  BY <1>1, <1>3, <1>5 DEF Init, PanelFollows, Done, Functions
<1>8. SetFollows
  BY <1>3, <1>5 DEF SetFollows, Functions
<1>9. Unhurried
  <2>1. ResultIsOwn
    BY <1>1 DEF ResultIsOwn, Own
  <2>2. ReadingIsOwn
    BY <1>1 DEF ReadingIsOwn, Own
  <2>3. OwnCalls(Functions \ {"generate"})
    BY <1>3 DEF OwnCalls, Range
  <2> QED BY <2>1, <2>2, <2>3 DEF Unhurried
<1>10. Patient
  <2>1. NothingAsked
    BY <1>3 DEF NothingAsked, Pending, Functions
  <2>2. SessionIsOwn
    BY DEF Init, SessionIsOwn, Own
  <2>3. GenerationIsOwn
    BY <1>3 DEF GenerationIsOwn, OwnCalls, Range, Functions
  <2>4. MadeOfItsCode /\ followed \subseteq first
    BY DEF Init, MadeOfItsCode
  <2> QED BY <2>1, <2>2, <2>3, <2>4 DEF Patient
<1> QED BY <1>4, <1>6, <1>7, <1>8, <1>9, <1>10 DEF PanelInv

-----------------------------------------------------------------------------
(* The learner *)

LEMMA Pace ==
  ASSUME TypeOK, GoOn
  PROVE  /\ pace' \in {"patient", "busy", "rash"}
         /\ pace' # "rash" => pace # "rash" /\ OnlyGenerating
         /\ pace' = "patient" => pace = "patient" /\ Quiet
BY DEF GoOn, TypeOK, Quiet, OnlyGenerating

LEMMA SelectInv ==
  ASSUME PanelInv, NEW p \in Problems, Select(p)
  PROVE  PanelInv'
<1> USE DEF PanelInv
<1>1. /\ page' = [page EXCEPT !.problem = p]
      /\ queue' = [queue EXCEPT !["select"] = Append(@, NewCall(p, "click"))]
      /\ UNCHANGED <<stores, session, made, first, followed>>
      /\ actions' = actions + 1
  BY DEF Select
<1>2. page \in Page
  BY DEF TypeOK
<1>3. page' \in Page /\ page'.problem = p /\ page'.set = page.set
  BY <1>1, <1>2 DEF Page
<1>4. /\ queue' \in [Functions -> Seq(Call)]
      /\ queue'["select"] # <<>>
      /\ Range(queue'["select"]) = Range(queue["select"]) \cup {NewCall(p, "click")}
      /\ \A g \in Functions \ {"select"} : queue'[g] = queue[g]
  BY <1>1, Clicked DEF Functions
<1>5. Pending({"select"})' /\ queue'["select"] # <<>>
  BY <1>4 DEF Pending
<1>6. GoOn
  BY DEF Select
<1>7. TypeOK'
  BY <1>1, <1>3, <1>4, <1>6, Pace DEF TypeOK, stores
<1>8. SetsOfProblem'
  BY <1>1, <1>3, MadeKept DEF stores
<1>9. PanelFollows' /\ SetFollows'
  BY <1>5 DEF PanelFollows, SetFollows, Pending
<1>10. Unhurried'
  <2> SUFFICES ASSUME pace' # "rash" PROVE Unhurried'
    BY DEF Unhurried
  <2>1. \A f \in Functions \ {"generate"} : queue[f] = <<>>
    BY <1>6, Pace DEF OnlyGenerating
  <2>2. NewCall(p, "click").problem = p
    BY NewCallIsCall
  <2>3. \A f \in Functions \ {"generate"} : \A c \in Range(queue[f]) : FALSE
    BY <2>1 DEF Range
  <2>4. OwnCalls(Functions \ {"generate"})'
    BY <1>3, <1>4, <2>2, <2>3 DEF OwnCalls, Functions
  <2>5. ResultIsOwn' /\ ReadingIsOwn'
    BY <1>5 DEF ResultIsOwn, ReadingIsOwn, Pending
  <2> QED BY <2>4, <2>5 DEF Unhurried
<1>11. Patient'
  <2> SUFFICES ASSUME pace' = "patient" PROVE Patient'
    BY DEF Patient
  <2>1. pace = "patient" /\ \A f \in Functions : queue[f] = <<>>
    BY <1>6, Pace DEF Quiet
  <2>2. \A f \in {"submit", "generate", "load_completion"} : queue'[f] = <<>>
    BY <1>4, <2>1 DEF Functions
  <2>3. \A f \in {"submit", "generate", "load_completion"} :
            \A c \in Range(queue'[f]) : FALSE
    BY <2>2 DEF Range
  <2>4. NothingAsked' /\ GenerationIsOwn'
    BY <2>2, <2>3 DEF NothingAsked, GenerationIsOwn, OwnCalls, Pending
  <2>5. SessionIsOwn'
    BY <1>5 DEF SessionIsOwn, Pending
  <2>6. MadeOfItsCode' /\ followed' \subseteq first'
    BY <1>1, <2>1 DEF Patient, MadeOfItsCode
  <2> QED BY <2>4, <2>5, <2>6 DEF Patient
<1> QED BY <1>7, <1>8, <1>9, <1>10, <1>11

\* A button; page' is page.
LEMMA ClickTypes ==
  ASSUME TypeOK, NEW f \in Functions, Click(f), UNCHANGED page,
         pace' \in {"patient", "busy", "rash"}
  PROVE  /\ TypeOK'
         /\ queue'[f] # <<>>
         /\ Range(queue'[f]) = Range(queue[f]) \cup {NewCall(page.problem, "click")}
         /\ \A g \in Functions \ {f} : queue'[g] = queue[g]
<1>1. page.problem \in Problems
  BY DEF TypeOK, Page
<1>2. /\ queue' = [queue EXCEPT ![f] = Append(@, NewCall(page.problem, "click"))]
      /\ UNCHANGED <<stores, session, made, first, followed>>
      /\ actions' = actions + 1
  BY DEF Click
<1>3. /\ queue' \in [Functions -> Seq(Call)]
      /\ queue'[f] # <<>>
      /\ Range(queue'[f]) = Range(queue[f]) \cup {NewCall(page.problem, "click")}
      /\ \A g \in Functions \ {f} : queue'[g] = queue[g]
  BY <1>1, <1>2, Clicked
<1>4. TypeOK'
  BY <1>2, <1>3 DEF TypeOK, stores
<1> QED BY <1>3, <1>4

LEMMA ClickOwn ==
  ASSUME TypeOK, NEW f \in Functions, Click(f), UNCHANGED page,
         pace' \in {"patient", "busy", "rash"},
         NEW F \in SUBSET Functions, OwnCalls(F)
  PROVE  OwnCalls(F)'
<1>1. NewCall(page.problem, "click").problem = page.problem
  BY NewCallIsCall DEF TypeOK, Page
<1> QED BY <1>1, ClickTypes DEF OwnCalls

LEMMA ButtonInv ==
  ASSUME PanelInv, NEW f \in {"submit", "give_up", "generate"},
         Click(f), GoOn, UNCHANGED page
  PROVE  PanelInv'
<1> USE DEF PanelInv
<1>1. f \in Functions /\ UNCHANGED <<stores, session, made, first, followed>>
  BY DEF Click, Functions
<1>2. pace' \in {"patient", "busy", "rash"}
  BY Pace
<1>3. /\ TypeOK'
      /\ queue'[f] # <<>>
      /\ Range(queue'[f]) = Range(queue[f]) \cup {NewCall(page.problem, "click")}
      /\ \A g \in Functions \ {f} : queue'[g] = queue[g]
  BY <1>1, <1>2, ClickTypes
<1>4. SetsOfProblem'
  BY <1>1, MadeKept DEF stores
<1>5. SetFollows'
  BY <1>1, <1>3, SetKept DEF Functions
<1>6. PanelFollows'
  <2>1. CASE f = "generate"
    BY <1>1, <1>3, <2>1, PanelKept DEF stores, Functions
  <2>2. CASE f # "generate"
    BY <1>3, <2>2 DEF PanelFollows, Pending
  <2> QED BY <2>1, <2>2
<1>7. Unhurried'
  <2> SUFFICES ASSUME pace' # "rash" PROVE Unhurried'
    BY DEF Unhurried
  <2>1. pace # "rash"
    BY Pace
  <2>2. OwnCalls(Functions \ {"generate"})'
    BY <1>1, <1>2, <2>1, ClickOwn DEF Unhurried
  <2>3. ResultIsOwn' /\ ReadingIsOwn'
    BY <1>1, <1>3, <2>1, ResultKept, ReadingKept DEF Unhurried, stores, Functions
  <2> QED BY <2>2, <2>3 DEF Unhurried
<1>8. Patient'
  <2> SUFFICES ASSUME pace' = "patient" PROVE Patient'
    BY DEF Patient
  <2>1. pace = "patient" /\ \A g \in Functions : queue[g] = <<>>
    BY Pace DEF Quiet
  <2>2. /\ NewCall(page.problem, "click").problem = page.problem
        /\ NewCall(page.problem, "click").code = None
    BY NewCallIsCall DEF TypeOK, Page
  <2>3. ~Pending({"select", "reset"})'
    BY <1>3, <2>1 DEF Pending, Functions
  <2>4. NothingAsked'
    BY <2>3 DEF NothingAsked
  <2>5. SessionIsOwn'
    BY <1>1, <2>1 DEF Patient, SessionIsOwn, Pending, Own, Functions
  <2>6. \A g \in Functions : \A c \in Range(queue[g]) : FALSE
    BY <2>1 DEF Range
  <2>7. \A c \in Range(queue'["generate"]) : c = NewCall(page.problem, "click")
    BY <1>3, <2>6 DEF Functions
  <2>8. GenerationIsOwn'
    BY <2>2, <2>7 DEF GenerationIsOwn, OwnCalls, Own
  <2>9. MadeOfItsCode' /\ followed' \subseteq first'
    BY <1>1, <2>1 DEF Patient, MadeOfItsCode
  <2> QED BY <2>4, <2>5, <2>8, <2>9 DEF Patient
<1> QED BY <1>3, <1>4, <1>5, <1>6, <1>7, <1>8

LEMMA ReadInv ==
  ASSUME PanelInv, NEW f, Read(f)
  PROVE  PanelInv'
<1> USE DEF PanelInv
<1>1. /\ f \in {"grade", "explain", "review"} /\ Click(f) /\ UNCHANGED page
      /\ pace' = IF OnlyGenerating THEN pace ELSE "rash"
      /\ UNCHANGED <<stores, session, made, first, followed>>
  BY DEF Read, Click
<1>2. f \in Functions /\ pace' \in {"patient", "busy", "rash"}
  BY <1>1 DEF Functions, TypeOK
<1>3. TypeOK' /\ \A g \in Functions \ {f} : queue'[g] = queue[g]
  BY <1>1, <1>2, ClickTypes
<1>4. \A g \in Functions \ {"grade", "explain", "review"} : queue'[g] = queue[g]
  BY <1>1, <1>3
<1>5. SetsOfProblem'
  BY <1>1, MadeKept DEF stores
<1>6. PanelFollows'
  BY <1>1, <1>4, PanelKept DEF stores, Functions
<1>7. SetFollows'
  BY <1>1, <1>4, SetKept DEF Functions
<1>8. Unhurried'
  <2> SUFFICES ASSUME pace' # "rash" PROVE Unhurried'
    BY DEF Unhurried
  <2>1. pace # "rash"
    BY <1>1
  <2>2. OwnCalls(Functions \ {"generate"})'
    BY <1>1, <1>2, <2>1, ClickOwn DEF Unhurried
  <2>3. ResultIsOwn' /\ ReadingIsOwn'
    BY <1>1, <1>4, <2>1, ResultKept, ReadingKept DEF Unhurried, stores, Functions
  <2> QED BY <2>2, <2>3 DEF Unhurried
<1>9. Patient'
  BY <1>1, <1>4, PatientKept DEF Functions
<1> QED BY <1>3, <1>5, <1>6, <1>7, <1>8, <1>9

-----------------------------------------------------------------------------
(* The event functions *)

LEMMA FollowOwn ==
  ASSUME TypeOK, NEW f \in Functions, queue[f] # <<>>,
         NEW next, next \subseteq Functions \ {f},
         NEW by \in {"select", "submit", "give_up", "click"},
         Follow(f, next, by), page'.problem = page.problem,
         NEW F \in SUBSET Functions, OwnCalls(F)
  PROVE  OwnCalls(F)'
<1>1. NewCall(page.problem, by).problem = page.problem
  BY NewCallIsCall DEF TypeOK, Page
<1>2. SUFFICES ASSUME NEW g \in F, NEW c \in Range(queue'[g])
               PROVE  c.problem = page.problem
  BY DEF OwnCalls
<1>3. \/ c \in Range(queue[g])
      \/ c = NewCall(page.problem, by)
  <2>0. Queued(f, next, by)
    BY Served
  <2>1. CASE g = f
    BY <1>2, <2>0, <2>1 DEF Queued
  <2>2. CASE g \in next
    <3>1. Range(queue'[g]) = Range(queue[g]) \cup {NewCall(page.problem, by)}
      BY <2>0, <2>2 DEF Queued
    <3> QED BY <1>2, <3>1
  <2>3. CASE g \notin next \cup {f}
    BY <1>2, <2>0, <2>3 DEF Queued
  <2> QED BY <2>1, <2>2, <2>3
<1> QED BY <1>1, <1>2, <1>3 DEF OwnCalls

LEMMA SelectedInv == PanelInv /\ Selected => PanelInv'
<1> SUFFICES ASSUME PanelInv, Selected PROVE PanelInv'
  OBVIOUS
<1> USE DEF PanelInv
<1> DEFINE next == {"load_completion", "reset"}
<1>1. /\ queue["select"] # <<>> /\ Follow("select", next, "select")
      /\ UNCHANGED <<stores, page, session, history, actions>>
  BY DEF Selected
<1>2. "select" \in Functions /\ next \subseteq Functions \ {"select"}
  BY DEF Functions
<1>3. Queued("select", next, "select")
  BY <1>1, <1>2, Served
<1>4. /\ NewCall(page.problem, "select").problem = page.problem
      /\ NewCall(page.problem, "select").by = "select"
  BY NewCallIsCall DEF TypeOK, Page
<1>5. TypeOK'
  BY <1>1, <1>3 DEF Queued, TypeOK, stores, history
<1>6. SetsOfProblem'
  BY <1>1, MadeKept DEF stores, history
<1>7. PanelFollows'
  BY <1>1, <1>3, <1>4 DEF Queued, PanelFollows, Newest
<1>8. Pending({"reset"})' /\ queue'["reset"] # <<>> /\ queue'["load_completion"] # <<>>
  BY <1>3 DEF Queued, Pending
<1>9. SetFollows'
  BY <1>8 DEF SetFollows, Pending
<1>10. Unhurried'
  <2> SUFFICES ASSUME pace' # "rash" PROVE Unhurried'
    BY DEF Unhurried
  <2>1. OwnCalls(Functions \ {"generate"})'
    BY <1>1, <1>2, FollowOwn DEF Unhurried, history
  <2>2. ResultIsOwn' /\ ReadingIsOwn'
    BY <1>8 DEF ResultIsOwn, ReadingIsOwn, Pending
  <2> QED BY <2>1, <2>2 DEF Unhurried
<1>11. Patient'
  <2> SUFFICES ASSUME pace' = "patient" PROVE Patient'
    BY DEF Patient
  <2>1. pace = "patient" /\ UNCHANGED <<page, made, first, followed>>
    BY <1>1 DEF history
  <2>2. Pending({"select", "reset"})
    BY <1>1 DEF Pending
  <2>3. ~Pending({"submit", "generate"})'
    BY <1>3, <2>1, <2>2 DEF Queued, Patient, NothingAsked, Pending, Functions
  <2>4. \A c \in Range(queue'["load_completion"]) : c.by # "submit"
    BY <1>3, <1>4, <2>1, <2>2 DEF Queued, Patient, NothingAsked
  <2>5. NothingAsked'
    BY <2>3, <2>4 DEF NothingAsked
  <2>6. SessionIsOwn'
    BY <1>8 DEF SessionIsOwn, Pending
  <2>7. queue'["generate"] = queue["generate"]
    BY <1>3 DEF Queued, Functions
  <2>8. GenerationIsOwn' /\ MadeOfItsCode' /\ followed' \subseteq first'
    BY <2>1, <2>7 DEF Patient, GenerationIsOwn, OwnCalls, MadeOfItsCode, Own
  <2> QED BY <2>5, <2>6, <2>8 DEF Patient
<1> QED BY <1>5, <1>6, <1>7, <1>9, <1>10, <1>11

LEMMA LoadCompletionInv == PanelInv /\ LoadCompletion => PanelInv'
<1> SUFFICES ASSUME PanelInv, LoadCompletion PROVE PanelInv'
  OBVIOUS
<1> USE DEF PanelInv
<1> DEFINE f == "load_completion"
           c == First(f)
           next == IF c.by = "submit" THEN {"generate"} ELSE {}
<1>1. /\ queue[f] # <<>> /\ Follow(f, next, c.by)
      /\ page' = [page EXCEPT !.panel = IF c.problem \in Done THEN c.problem ELSE None,
                              !.open = c.problem \in Done /\ c.problem \in graded,
                              !.result = None]
      /\ UNCHANGED <<stores, session, history, actions>>
  BY DEF LoadCompletion
<1>2. f \in Functions /\ next \subseteq Functions \ {f}
  BY DEF Functions
<1>3. c \in Range(queue[f]) /\ c \in Call
  BY <1>1, <1>2, TailFacts DEF TypeOK, First
<1>4. c.by \in {"select", "submit", "give_up", "click"} /\ c.problem \in Problems
  BY <1>3 DEF Call
<1>5. page \in Page /\ c = First(f)
  BY DEF TypeOK
<1> HIDE DEF next, c
<1>6. /\ page' \in Page /\ page'.problem = page.problem /\ page'.set = page.set
      /\ page'.panel = IF c.problem \in Done THEN c.problem ELSE None
      /\ page'.open = (c.problem \in Done /\ c.problem \in graded)
      /\ page'.result = None
      /\ page'.explanation = page.explanation /\ page'.review = page.review
  BY <1>1, <1>4, <1>5 DEF Page
<1>7. Queued(f, next, c.by)
  BY <1>1, <1>2, <1>4, Served
<1>8. \A g \in Functions \ {"generate", "load_completion"} : queue'[g] = queue[g]
  BY <1>7 DEF Queued, next
<1>9. TypeOK'
  BY <1>1, <1>6, <1>7 DEF Queued, TypeOK, stores, history
<1>10. SetsOfProblem'
  BY <1>1, <1>6, MadeKept DEF stores, history
<1>11. SetFollows'
  BY <1>1, <1>6, <1>8, SetKept DEF history, Functions
<1>12. PanelFollows'
  <2>1. CASE Pending({"select", "submit", "give_up"})
    BY <1>8, <2>1 DEF PanelFollows, Pending, Functions
  <2>2. CASE Newest(f).problem = page.problem /\ queue'[f] # <<>>
    BY <1>6, <1>7, <2>2 DEF Queued, PanelFollows, Newest
  <2>3. CASE Newest(f).problem = page.problem /\ queue'[f] = <<>>
    <3>1. c.problem = page.problem
      BY <1>5, <1>7, <2>3 DEF Queued
    <3> QED BY <1>1, <1>6, <2>3, <3>1 DEF PanelFollows, Done, stores
  <2> QED BY <1>1, <2>1, <2>2, <2>3 DEF PanelFollows
<1>13. Unhurried'
  <2> SUFFICES ASSUME pace' # "rash" PROVE Unhurried'
    BY DEF Unhurried
  <2>1. pace # "rash"
    BY <1>1 DEF history
  <2>2. OwnCalls(Functions \ {"generate"})'
    BY <1>1, <1>2, <1>4, <1>6, <2>1, FollowOwn DEF Unhurried
  <2>3. c.problem = page.problem
    BY <1>3, <2>1 DEF Unhurried, OwnCalls, Functions
  <2>4. ResultIsOwn'
    <3>0. page'.open => c.problem \in graded
      BY <1>6, Zenon
    <3>1. page'.open => page'.problem \in graded'
      BY <1>1, <1>6, <2>3, <3>0 DEF stores
    <3>2. page'.result = None
      BY <1>6
    <3> QED BY <3>1, <3>2 DEF ResultIsOwn, Own
  <2>5. ReadingIsOwn'
    BY <1>6, <1>8, <2>1, ReadingKept DEF Unhurried, Functions
  <2> QED BY <2>2, <2>4, <2>5 DEF Unhurried
<1>14. Patient'
  <2> SUFFICES ASSUME pace' = "patient" PROVE Patient'
    BY DEF Patient
  <2>1. pace = "patient" /\ UNCHANGED <<session, made, first, followed>>
    BY <1>1 DEF history
  <2>2. Pending({"select", "reset"})' <=> Pending({"select", "reset"})
    BY <1>8 DEF Pending, Functions
  <2>3. Pending({"select", "reset"}) => c.by # "submit"
    BY <1>3, <2>1 DEF Patient, NothingAsked
  <2>4. NothingAsked'
    <3> SUFFICES ASSUME Pending({"select", "reset"})
                 PROVE  /\ ~Pending({"submit", "generate"})'
                        /\ \A d \in Range(queue'[f]) : d.by # "submit"
      BY <2>2 DEF NothingAsked
    <3>1. next = {}
      BY <2>3 DEF next
    <3> QED BY <1>7, <2>1, <3>1 DEF Queued, Patient, NothingAsked, Pending, Functions
  <2>5. SessionIsOwn'
    BY <1>6, <2>1, <2>2 DEF Patient, SessionIsOwn, Own
  <2>6. OwnCalls({"generate"})'
    BY <1>1, <1>2, <1>4, <1>6, <2>1, FollowOwn DEF Patient, GenerationIsOwn, Functions
  <2>7. NewCall(page.problem, c.by).code = None
    BY <1>4, NewCallIsCall DEF TypeOK, Page
  <2>8. Range(queue'["generate"]) \subseteq Range(queue["generate"]) \cup {NewCall(page.problem, c.by)}
    BY <1>7 DEF Queued, Functions
  <2>9. GenerationIsOwn'
    BY <1>6, <2>1, <2>6, <2>7, <2>8 DEF Patient, GenerationIsOwn, Own
  <2>10. MadeOfItsCode' /\ followed' \subseteq first'
    BY <2>1 DEF Patient, MadeOfItsCode
  <2> QED BY <2>4, <2>5, <2>9, <2>10 DEF Patient
<1> QED BY <1>9, <1>10, <1>11, <1>12, <1>13, <1>14

LEMMA ResetInv == PanelInv /\ Reset => PanelInv'
<1> SUFFICES ASSUME PanelInv, Reset PROVE PanelInv'
  OBVIOUS
<1> USE DEF PanelInv
<1>1. /\ queue["reset"] # <<>> /\ Follow("reset", {"load_quiz"}, "select")
      /\ session' = [accepted |-> None, trigger |-> FALSE]
      /\ page' = [page EXCEPT !.explanation = None, !.review = None]
      /\ UNCHANGED <<stores, history, actions>>
  BY DEF Reset
<1>2. "reset" \in Functions /\ {"load_quiz"} \subseteq Functions \ {"reset"}
  BY DEF Functions
<1>3. Queued("reset", {"load_quiz"}, "select")
  BY <1>1, <1>2, Served
<1>4. page \in Page
  BY DEF TypeOK
<1>5. /\ page' \in Page /\ page'.problem = page.problem /\ page'.set = page.set
      /\ page'.panel = page.panel /\ page'.open = page.open
      /\ page'.result = page.result
      /\ page'.explanation = None /\ page'.review = None
  BY <1>1, <1>4 DEF Page
<1>6. /\ \A g \in Functions \ {"reset", "load_quiz"} : queue'[g] = queue[g]
      /\ queue'["load_quiz"] # <<>>
      /\ queue'["load_quiz"][Len(queue'["load_quiz"])] = NewCall(page.problem, "select")
  BY <1>3 DEF Queued
<1>7. NewCall(page.problem, "select").problem = page.problem
  BY NewCallIsCall DEF TypeOK, Page
<1>8. TypeOK'
  BY <1>1, <1>3, <1>5 DEF Queued, TypeOK, stores, history
<1>9. SetsOfProblem'
  BY <1>1, <1>5, MadeKept DEF stores, history
<1>10. PanelFollows'
  BY <1>1, <1>5, <1>6, PanelKept DEF stores, Functions
<1>11. SetFollows'
  BY <1>5, <1>6, <1>7 DEF SetFollows, Newest
<1>12. Unhurried'
  <2> SUFFICES ASSUME pace' # "rash" PROVE Unhurried'
    BY DEF Unhurried
  <2>1. pace # "rash"
    BY <1>1 DEF history
  <2>2. OwnCalls(Functions \ {"generate"})'
    BY <1>1, <1>2, <1>5, <2>1, FollowOwn DEF Unhurried
  <2>3. ResultIsOwn'
    BY <1>1, <1>5, <1>6, <2>1, ResultKept DEF Unhurried, stores, Functions
  <2>4. ReadingIsOwn'
    BY <1>5 DEF ReadingIsOwn, Own
  <2> QED BY <2>2, <2>3, <2>4 DEF Unhurried
<1>13. Patient'
  <2> SUFFICES ASSUME pace' = "patient" PROVE Patient'
    BY DEF Patient
  <2>1. pace = "patient" /\ UNCHANGED <<made, first, followed>>
    BY <1>1 DEF history
  <2>2. Pending({"select", "reset"})
    BY <1>1 DEF Pending
  <2>3. \A g \in {"submit", "generate", "load_completion"} : queue'[g] = queue[g]
    BY <1>6 DEF Functions
  <2>4. NothingAsked'
    BY <2>1, <2>2, <2>3 DEF Patient, NothingAsked, Pending
  <2>5. SessionIsOwn'
    BY <1>1 DEF SessionIsOwn, Own
  <2>6. GenerationIsOwn' /\ MadeOfItsCode' /\ followed' \subseteq first'
    BY <1>5, <2>1, <2>3 DEF Patient, GenerationIsOwn, OwnCalls, MadeOfItsCode, Own
  <2> QED BY <2>4, <2>5, <2>6 DEF Patient
<1> QED BY <1>8, <1>9, <1>10, <1>11, <1>12, <1>13

LEMMA LoadQuizInv == PanelInv /\ LoadQuiz => PanelInv'
<1> SUFFICES ASSUME PanelInv, LoadQuiz PROVE PanelInv'
  OBVIOUS
<1> USE DEF PanelInv
<1> DEFINE f == "load_quiz"
           p == First(f).problem
           set == IF p \in Done /\ p \in graded THEN latest[p] ELSE 0
           again == session.accepted # None
<1>1. /\ queue[f] # <<>> /\ Follow(f, {}, "click")
      /\ page' = [page EXCEPT !.set = set, !.again = again]
      /\ UNCHANGED <<stores, session, history, actions>>
  BY DEF LoadQuiz
<1>2. f \in Functions /\ {} \subseteq Functions \ {f}
  BY DEF Functions
<1>3. Queued(f, {}, "click")
  BY <1>1, <1>2, Served
<1>4. page \in Page /\ p \in Problems
  BY <1>3 DEF TypeOK, Queued, Call
<1>5. set \in Nat /\ again \in BOOLEAN
  BY <1>4 DEF TypeOK
<1>6. set # 0 => set \in DOMAIN made /\ made[set].problem = p
  BY <1>4 DEF SetsOfProblem
<1> HIDE DEF p, set, again
<1>7. /\ page' \in Page /\ page'.problem = page.problem /\ page'.set = set
      /\ page'.panel = page.panel /\ page'.open = page.open
      /\ page'.result = page.result
      /\ page'.explanation = page.explanation /\ page'.review = page.review
  BY <1>1, <1>4, <1>5 DEF Page
<1>8. \A g \in Functions \ {f} : queue'[g] = queue[g]
  BY <1>3 DEF Queued
<1>9. TypeOK'
  BY <1>1, <1>3, <1>7 DEF Queued, TypeOK, stores, history
<1>10. SetsOfProblem'
  <2>1. made \in Seq([problem: Problems, code: Problems])
    BY DEF TypeOK
  <2>2. set \in 0..Len(made)
    BY <1>5, <1>6, <2>1
  <2> QED BY <1>1, <1>7, <2>2 DEF SetsOfProblem, stores, history
<1>11. PanelFollows'
  BY <1>1, <1>7, <1>8, PanelKept DEF stores, Functions
<1>12. SetFollows'
  <2>1. CASE Pending({"select", "reset"})
    BY <1>8, <2>1 DEF SetFollows, Pending, Functions
  <2>2. CASE Newest(f).problem = page.problem /\ queue'[f] # <<>>
    BY <1>3, <1>7, <2>2 DEF Queued, SetFollows, Newest
  <2>3. CASE Newest(f).problem = page.problem /\ queue'[f] = <<>>
    <3>1. p = page.problem
      BY <1>3, <2>3 DEF Queued, p
    <3> QED BY <1>1, <1>6, <1>7, <2>3, <3>1 DEF SetFollows, history
  <2> QED BY <1>1, <2>1, <2>2, <2>3 DEF SetFollows
<1>13. Unhurried'
  <2> SUFFICES ASSUME pace' # "rash" PROVE Unhurried'
    BY DEF Unhurried
  <2>1. pace # "rash"
    BY <1>1 DEF history
  <2>2. OwnCalls(Functions \ {"generate"})'
    BY <1>1, <1>2, <1>7, <2>1, FollowOwn DEF Unhurried
  <2>3. ResultIsOwn' /\ ReadingIsOwn'
    BY <1>1, <1>7, <1>8, <2>1, ResultKept, ReadingKept DEF Unhurried, stores, Functions
  <2> QED BY <2>2, <2>3 DEF Unhurried
<1>14. Patient'
  BY <1>1, <1>7, <1>8, PatientKept DEF history, Functions
<1> QED BY <1>9, <1>10, <1>11, <1>12, <1>13, <1>14

LEMMA SubmitFullInv ==
  ASSUME PanelInv, NEW accepted \in BOOLEAN, SubmitFull(accepted)
  PROVE  PanelInv'
<1> USE DEF PanelInv
<1> DEFINE f == "submit"
           p == First(f).problem
           newly == accepted /\ p \notin solved \cup unfolded
<1>1. /\ queue[f] # <<>> /\ Follow(f, {"load_completion"}, "submit")
      /\ solved' = Reflected(p, accepted) /\ unfolded' = {}
      /\ session' = [accepted |-> IF accepted THEN p ELSE None, trigger |-> newly]
      /\ first' = IF newly THEN first \cup {p} ELSE first
      /\ UNCHANGED <<gaveUp, graded, latest, page, made, followed, pace, actions>>
  BY DEF SubmitFull
<1>2. f \in Functions /\ {"load_completion"} \subseteq Functions \ {f}
  BY DEF Functions
<1>3. Queued(f, {"load_completion"}, "submit")
  BY <1>1, <1>2, Served
<1>4. p \in Problems /\ newly \in BOOLEAN
  BY <1>3 DEF Queued, Call
<1> HIDE DEF p, newly
<1>5. /\ \A g \in Functions \ {f, "load_completion"} : queue'[g] = queue[g]
      /\ queue'["load_completion"] # <<>>
      /\ queue'["load_completion"][Len(queue'["load_completion"])]
             = NewCall(page.problem, "submit")
  BY <1>3 DEF Queued
<1>6. NewCall(page.problem, "submit").problem = page.problem
  BY NewCallIsCall DEF TypeOK, Page
<1>7. TypeOK'
  <2>1. session' \in [accepted: Problems \cup {None}, trigger: BOOLEAN]
    BY <1>1, <1>4
  <2>2. {solved', unfolded', first'} \subseteq SUBSET Problems
    BY <1>1, <1>4 DEF TypeOK, Reflected
  <2> QED BY <1>1, <1>3, <2>1, <2>2 DEF Queued, TypeOK
<1>8. SetsOfProblem'
  BY <1>1, MadeKept
<1>9. PanelFollows'
  BY <1>1, <1>5, <1>6 DEF PanelFollows, Newest
<1>10. SetFollows'
  BY <1>1, <1>5, SetKept DEF Functions
<1>11. Unhurried'
  <2> SUFFICES ASSUME pace' # "rash" PROVE Unhurried'
    BY DEF Unhurried
  <2>1. pace # "rash"
    BY <1>1
  <2>2. OwnCalls(Functions \ {"generate"})'
    BY <1>1, <1>2, <2>1, FollowOwn DEF Unhurried
  <2>3. ResultIsOwn'
    BY <1>5 DEF ResultIsOwn, Pending
  <2>4. ReadingIsOwn'
    BY <1>1, <1>5, <2>1, ReadingKept DEF Unhurried, Functions
  <2> QED BY <2>2, <2>3, <2>4 DEF Unhurried
<1>12. Patient'
  <2> SUFFICES ASSUME pace' = "patient" PROVE Patient'
    BY DEF Patient
  <2>1. pace = "patient" /\ UNCHANGED <<page, made, followed>>
    BY <1>1
  <2>2. ~Pending({"select", "reset"})
    BY <1>1, <2>1 DEF Patient, NothingAsked, Pending
  <2>3. NothingAsked'
    BY <1>5, <2>2 DEF NothingAsked, Pending, Functions
  <2>4. p = page.problem
    <3>1. pace # "rash" /\ First(f) \in Range(queue[f])
      BY <1>3, <2>1 DEF Queued
    <3> QED BY <3>1 DEF Unhurried, OwnCalls, Functions, p
  <2>5. SessionIsOwn'
    <3>1. session'.accepted \in Own'
      BY <1>1, <2>4 DEF Own
    <3>2. session'.trigger => newly
      BY <1>1, <1>4
    <3>3. newly => page'.problem \in first'
      BY <1>1, <2>4
    <3> QED BY <3>1, <3>2, <3>3 DEF SessionIsOwn
  <2>6. queue'["generate"] = queue["generate"]
    BY <1>5 DEF Functions
  <2>7. GenerationIsOwn' /\ MadeOfItsCode' /\ followed' \subseteq first'
    BY <1>1, <2>1, <2>6 DEF Patient, GenerationIsOwn, OwnCalls, MadeOfItsCode, Own
  <2> QED BY <2>3, <2>5, <2>7 DEF Patient
<1> QED BY <1>7, <1>8, <1>9, <1>10, <1>11, <1>12

LEMMA SubmitFailsInv ==
  ASSUME PanelInv, NEW accepted \in BOOLEAN, SubmitFails(accepted)
  PROVE  PanelInv'
<1> USE DEF PanelInv
<1> DEFINE f == "submit"
           p == First(f).problem
<1>1. /\ queue[f] # <<>> /\ Follow(f, {"load_completion"}, "submit")
      /\ solved' \subseteq Reflected(p, accepted)
      /\ unfolded' \in {unfolded, {}, {p}}
      /\ UNCHANGED <<gaveUp, graded, latest, page, session, history, actions>>
  BY DEF SubmitFails, Reflected
<1>2. f \in Functions /\ {"load_completion"} \subseteq Functions \ {f}
  BY DEF Functions
<1>3. Queued(f, {"load_completion"}, "submit")
  BY <1>1, <1>2, Served
<1>4. p \in Problems
  BY <1>3 DEF Queued, Call
<1> HIDE DEF p
<1>5. /\ \A g \in Functions \ {f, "load_completion"} : queue'[g] = queue[g]
      /\ queue'["load_completion"] # <<>>
      /\ queue'["load_completion"][Len(queue'["load_completion"])]
             = NewCall(page.problem, "submit")
  BY <1>3 DEF Queued
<1>6. NewCall(page.problem, "submit").problem = page.problem
  BY NewCallIsCall DEF TypeOK, Page
<1>7. TypeOK'
  <2>1. {solved', unfolded'} \subseteq SUBSET Problems
    BY <1>1, <1>4 DEF TypeOK, Reflected
  <2> QED BY <1>1, <1>3, <2>1 DEF Queued, TypeOK, history
<1>8. SetsOfProblem'
  BY <1>1, MadeKept DEF history
<1>9. PanelFollows'
  BY <1>1, <1>5, <1>6 DEF PanelFollows, Newest
<1>10. SetFollows'
  BY <1>1, <1>5, SetKept DEF history, Functions
<1>11. Unhurried'
  <2> SUFFICES ASSUME pace' # "rash" PROVE Unhurried'
    BY DEF Unhurried
  <2>1. pace # "rash"
    BY <1>1 DEF history
  <2>2. OwnCalls(Functions \ {"generate"})'
    BY <1>1, <1>2, <2>1, FollowOwn DEF Unhurried
  <2>3. ResultIsOwn'
    BY <1>5 DEF ResultIsOwn, Pending
  <2>4. ReadingIsOwn'
    BY <1>1, <1>5, <2>1, ReadingKept DEF Unhurried, Functions
  <2> QED BY <2>2, <2>3, <2>4 DEF Unhurried
<1>12. Patient'
  <2> SUFFICES ASSUME pace' = "patient" PROVE Patient'
    BY DEF Patient
  <2>1. pace = "patient" /\ UNCHANGED <<page, session, made, first, followed>>
    BY <1>1 DEF history
  <2>2. ~Pending({"select", "reset"})
    BY <1>1, <2>1 DEF Patient, NothingAsked, Pending
  <2>3. NothingAsked'
    BY <1>5, <2>2 DEF NothingAsked, Pending, Functions
  <2>4. SessionIsOwn'
    BY <2>1, <2>2 DEF Patient, SessionIsOwn, Own
  <2>5. queue'["generate"] = queue["generate"]
    BY <1>5 DEF Functions
  <2>6. GenerationIsOwn' /\ MadeOfItsCode' /\ followed' \subseteq first'
    BY <2>1, <2>5 DEF Patient, GenerationIsOwn, OwnCalls, MadeOfItsCode, Own
  <2> QED BY <2>3, <2>4, <2>6 DEF Patient
<1> QED BY <1>7, <1>8, <1>9, <1>10, <1>11, <1>12

LEMMA GiveUpInv == PanelInv /\ GiveUp => PanelInv'
<1> SUFFICES ASSUME PanelInv, GiveUp PROVE PanelInv'
  OBVIOUS
<1> USE DEF PanelInv
<1> DEFINE f == "give_up"
           p == First(f).problem
<1>1. /\ queue[f] # <<>> /\ Follow(f, {"load_completion"}, "give_up")
      /\ gaveUp' = IF p \in solved THEN gaveUp ELSE gaveUp \cup {p}
      /\ session' = [session EXCEPT !.accepted = None]
      /\ UNCHANGED <<solved, unfolded, graded, latest, page, history, actions>>
  BY DEF GiveUp
<1>2. f \in Functions /\ {"load_completion"} \subseteq Functions \ {f}
  BY DEF Functions
<1>3. Queued(f, {"load_completion"}, "give_up")
  BY <1>1, <1>2, Served
<1>4. p \in Problems
  BY <1>3 DEF Queued, Call
<1> HIDE DEF p
<1>5. /\ \A g \in Functions \ {f, "load_completion"} : queue'[g] = queue[g]
      /\ queue'["load_completion"] # <<>>
      /\ queue'["load_completion"][Len(queue'["load_completion"])]
             = NewCall(page.problem, "give_up")
      /\ Range(queue'["load_completion"])
             = Range(queue["load_completion"]) \cup {NewCall(page.problem, "give_up")}
  BY <1>3 DEF Queued
<1>6. /\ NewCall(page.problem, "give_up").problem = page.problem
      /\ NewCall(page.problem, "give_up").by = "give_up"
  BY NewCallIsCall DEF TypeOK, Page
<1>7. /\ session' \in [accepted: Problems \cup {None}, trigger: BOOLEAN]
      /\ session'.accepted = None /\ session'.trigger = session.trigger
  BY <1>1 DEF TypeOK
<1>8. TypeOK'
  BY <1>1, <1>3, <1>4, <1>7 DEF Queued, TypeOK, history
<1>9. SetsOfProblem'
  BY <1>1, MadeKept DEF history
<1>10. PanelFollows'
  BY <1>1, <1>5, <1>6 DEF PanelFollows, Newest
<1>11. SetFollows'
  BY <1>1, <1>5, SetKept DEF history, Functions
<1>12. Unhurried'
  <2> SUFFICES ASSUME pace' # "rash" PROVE Unhurried'
    BY DEF Unhurried
  <2>1. pace # "rash"
    BY <1>1 DEF history
  <2>2. OwnCalls(Functions \ {"generate"})'
    BY <1>1, <1>2, <2>1, FollowOwn DEF Unhurried
  <2>3. ResultIsOwn'
    BY <1>5 DEF ResultIsOwn, Pending
  <2>4. ReadingIsOwn'
    BY <1>1, <1>5, <2>1, ReadingKept DEF Unhurried, Functions
  <2> QED BY <2>2, <2>3, <2>4 DEF Unhurried
<1>13. Patient'
  <2> SUFFICES ASSUME pace' = "patient" PROVE Patient'
    BY DEF Patient
  <2>1. pace = "patient" /\ UNCHANGED <<page, made, first, followed>>
    BY <1>1 DEF history
  <2>2. \A g \in {"select", "reset", "submit", "generate"} : queue'[g] = queue[g]
    BY <1>5 DEF Functions
  <2>3. NothingAsked'
    BY <1>5, <1>6, <2>1, <2>2 DEF Patient, NothingAsked, Pending
  <2>4. SessionIsOwn'
    <3>1. session'.accepted \in Own'
      BY <1>7 DEF Own
    <3>2. \/ Pending({"select", "reset"})'
          \/ session'.trigger => page'.problem \in first'
      BY <1>7, <2>1, <2>2 DEF Patient, SessionIsOwn, Pending
    <3> QED BY <3>1, <3>2 DEF SessionIsOwn
  <2>5. GenerationIsOwn' /\ MadeOfItsCode' /\ followed' \subseteq first'
    BY <2>1, <2>2 DEF Patient, GenerationIsOwn, OwnCalls, MadeOfItsCode, Own
  <2> QED BY <2>3, <2>4, <2>5 DEF Patient
<1> QED BY <1>8, <1>9, <1>10, <1>11, <1>12, <1>13

\* The first call of a queue is replaced.
LEMMA FirstReplaced ==
  ASSUME NEW s \in Seq(Call), s # <<>>, NEW d \in Call
  PROVE  /\ [s EXCEPT ![1] = d] \in Seq(Call)
         /\ Range([s EXCEPT ![1] = d]) \subseteq Range(s) \cup {d}
<1>1. 1 \in DOMAIN s /\ [s EXCEPT ![1] = d] \in Seq(Call)
  OBVIOUS
<1> QED BY <1>1 DEF Range

\* Nothing of what was asked for waits for another problem.
LEMMA GenerateAlone ==
  ASSUME Patient, pace = "patient", queue["generate"] # <<>>
  PROVE  ~Pending({"select", "reset"}) /\ SessionIsOwn
BY DEF Patient, NothingAsked, Pending

LEMMA StartGenerateInv == PanelInv /\ StartGenerate => PanelInv'
<1> SUFFICES ASSUME PanelInv, StartGenerate PROVE PanelInv'
  OBVIOUS
<1> USE DEF PanelInv
<1> DEFINE f == "generate"
           c == First(f)
           d == [c EXCEPT !.started = TRUE, !.code = session.accepted]
<1>1. /\ queue[f] # <<>>
      /\ session' = [session EXCEPT !.trigger = FALSE]
      /\ UNCHANGED <<stores, made, first, pace, actions>>
  BY DEF StartGenerate
<1>2. /\ session' \in [accepted: Problems \cup {None}, trigger: BOOLEAN]
      /\ session'.accepted = session.accepted /\ session'.trigger = FALSE
      /\ session.accepted \in Problems \cup {None}
  BY <1>1 DEF TypeOK
<1>3. f \in Functions /\ queue[f] \in Seq(Call) /\ queue \in [Functions -> Seq(Call)]
  BY DEF TypeOK, Functions
<1>4. c \in Call /\ c \in Range(queue[f]) /\ c = queue[f][1]
  BY <1>1, <1>3, TailFacts DEF First
<1>5. page \in Page
  BY DEF TypeOK
\* The trigger was taken back: the call ends.
<1>6. CASE c.by = "submit" /\ ~session.trigger
  <2>1. Follow(f, {}, "click") /\ UNCHANGED <<page, followed>>
    BY <1>6 DEF StartGenerate
  <2>2. Queued(f, {}, "click")
    BY <1>1, <1>3, <2>1, Served
  <2>3. /\ \A g \in Functions \ {f} : queue'[g] = queue[g]
        /\ Range(queue'[f]) \subseteq Range(queue[f])
        /\ queue' \in [Functions -> Seq(Call)]
    BY <2>2 DEF Queued
  <2>4. TypeOK'
    BY <1>1, <1>2, <2>1, <2>3 DEF TypeOK, stores
  <2>5. SetsOfProblem' /\ PanelFollows' /\ SetFollows'
    BY <1>1, <2>1, <2>3, MadeKept, PanelKept, SetKept DEF stores, Functions
  <2>6. Unhurried'
    <3>1. pace # "rash" => OwnCalls(Functions \ {"generate"})'
      BY <2>1, <2>3 DEF Unhurried, OwnCalls
    <3>2. pace # "rash" => ResultIsOwn' /\ ReadingIsOwn'
      BY <1>1, <2>1, <2>3, ResultKept, ReadingKept DEF Unhurried, stores, Functions
    <3> QED BY <1>1, <3>1, <3>2 DEF Unhurried
  <2>7. Patient'
    <3> SUFFICES ASSUME pace' = "patient" PROVE Patient'
      BY DEF Patient
    <3>1. pace = "patient"
      BY <1>1
    <3>2. ~Pending({"select", "reset"})' /\ SessionIsOwn
      BY <1>1, <2>3, <3>1, GenerateAlone DEF Pending, Functions
    <3>3. NothingAsked'
      BY <3>2 DEF NothingAsked
    <3>4. SessionIsOwn'
      BY <1>1, <1>2, <2>1, <3>1, GenerateAlone DEF SessionIsOwn, Own
    <3>5. GenerationIsOwn' /\ MadeOfItsCode' /\ followed' \subseteq first'
      BY <1>1, <2>1, <2>3, <3>1 DEF Patient, GenerationIsOwn, OwnCalls, MadeOfItsCode, Own
    <3> QED BY <3>3, <3>4, <3>5 DEF Patient
  <2> QED BY <2>4, <2>5, <2>6, <2>7
\* The first yield: the code is taken.
<1>7. CASE ~(c.by = "submit" /\ ~session.trigger)
  <2>1. /\ queue' = [queue EXCEPT ![f] = [queue[f] EXCEPT ![1] = d]]
        /\ page' = [page EXCEPT !.again = FALSE]
        /\ followed' = IF c.by = "submit" THEN followed \cup {c.problem} ELSE followed
    BY <1>4, <1>7 DEF StartGenerate
  <2>2. d \in Call /\ d.problem = c.problem /\ d.code = session.accepted
    BY <1>2, <1>4 DEF Call
  <2> HIDE DEF d
  <2>3. /\ queue'[f] = [queue[f] EXCEPT ![1] = d]
        /\ \A g \in Functions \ {f} : queue'[g] = queue[g]
    BY <1>3, <2>1
  <2>4. queue' \in [Functions -> Seq(Call)]
    BY <1>1, <1>3, <2>1, <2>2, FirstReplaced
  <2>5. Range(queue'[f]) \subseteq Range(queue[f]) \cup {d}
    BY <1>1, <1>3, <2>2, <2>3, FirstReplaced
  <2>6. /\ page' \in Page /\ page'.problem = page.problem /\ page'.set = page.set
        /\ page'.panel = page.panel /\ page'.open = page.open
        /\ page'.result = page.result
        /\ page'.explanation = page.explanation /\ page'.review = page.review
    BY <1>5, <2>1 DEF Page
  <2>7. c.problem \in Problems
    BY <1>4 DEF Call
  <2>8. TypeOK'
    <3>1. followed' \subseteq Problems
      BY <2>1, <2>7 DEF TypeOK
    <3> QED BY <1>1, <1>2, <2>4, <2>6, <3>1 DEF TypeOK, stores
  <2>9. SetsOfProblem' /\ PanelFollows' /\ SetFollows'
    BY <1>1, <2>3, <2>6, MadeKept, PanelKept, SetKept DEF stores, Functions
  <2>10. Unhurried'
    <3>1. pace # "rash" => OwnCalls(Functions \ {"generate"})'
      BY <2>3, <2>6 DEF Unhurried, OwnCalls
    <3>2. pace # "rash" => ResultIsOwn' /\ ReadingIsOwn'
      BY <1>1, <2>3, <2>6, ResultKept, ReadingKept DEF Unhurried, stores, Functions
    <3> QED BY <1>1, <3>1, <3>2 DEF Unhurried
  <2>11. Patient'
    <3> SUFFICES ASSUME pace' = "patient" PROVE Patient'
      BY DEF Patient
    <3>1. pace = "patient"
      BY <1>1
    <3>2. ~Pending({"select", "reset"}) /\ SessionIsOwn
      BY <1>1, <3>1, GenerateAlone
    <3>3. session.accepted \in Own /\ (session.trigger => page.problem \in first)
      BY <3>2 DEF SessionIsOwn
    <3>4. ~Pending({"select", "reset"})'
      BY <2>3, <3>2 DEF Pending, Functions
    <3>5. NothingAsked'
      BY <3>4 DEF NothingAsked
    <3>6. SessionIsOwn'
      BY <1>2, <2>6, <3>3 DEF SessionIsOwn, Own
    <3>7. c.problem = page.problem
      BY <1>4, <3>1 DEF Patient, GenerationIsOwn, OwnCalls
    <3>8. GenerationIsOwn'
      <4>1. OwnCalls({f})'
        BY <2>2, <2>5, <2>6, <3>1, <3>7 DEF Patient, GenerationIsOwn, OwnCalls
      <4>2. \A x \in Range(queue'[f]) : x.code \in Own'
        BY <2>2, <2>5, <2>6, <3>1, <3>3 DEF Patient, GenerationIsOwn, Own
      <4> QED BY <4>1, <4>2 DEF GenerationIsOwn
    <3>9. c.by = "submit" => session.trigger
      BY <1>7
    <3>10. followed' \subseteq first'
      BY <1>1, <2>1, <3>1, <3>3, <3>7, <3>9 DEF Patient
    <3>11. MadeOfItsCode'
      BY <1>1, <3>1 DEF Patient, MadeOfItsCode
    <3> QED BY <3>5, <3>6, <3>8, <3>10, <3>11 DEF Patient
  <2> QED BY <2>8, <2>9, <2>10, <2>11
<1> QED BY <1>6, <1>7

LEMMA TickInv == PanelInv /\ Tick => PanelInv'
<1> SUFFICES ASSUME PanelInv, Tick PROVE PanelInv'
  OBVIOUS
<1> USE DEF PanelInv
<1>1. /\ queue["generate"] # <<>>
      /\ session' = [session EXCEPT !.trigger = FALSE]
      /\ page' = [page EXCEPT !.again = FALSE]
      /\ UNCHANGED <<stores, queue, history, actions>>
  BY DEF Tick
<1>2. /\ session' \in [accepted: Problems \cup {None}, trigger: BOOLEAN]
      /\ session'.accepted = session.accepted /\ session'.trigger = FALSE
  BY <1>1 DEF TypeOK
<1>3. page \in Page
  BY DEF TypeOK
<1>4. /\ page' \in Page /\ page'.problem = page.problem /\ page'.set = page.set
      /\ page'.panel = page.panel /\ page'.open = page.open
      /\ page'.result = page.result
      /\ page'.explanation = page.explanation /\ page'.review = page.review
  BY <1>1, <1>3 DEF Page
<1>5. TypeOK'
  BY <1>1, <1>2, <1>4 DEF TypeOK, stores, history
<1>6. SetsOfProblem' /\ PanelFollows' /\ SetFollows'
  BY <1>1, <1>4, MadeKept, PanelKept, SetKept DEF stores, history
<1>7. Unhurried'
  <2>1. pace # "rash" => OwnCalls(Functions \ {"generate"})'
    BY <1>1, <1>4 DEF Unhurried, OwnCalls
  <2>2. pace # "rash" => ResultIsOwn' /\ ReadingIsOwn'
    BY <1>1, <1>4, ResultKept, ReadingKept DEF Unhurried, stores
  <2> QED BY <1>1, <2>1, <2>2 DEF Unhurried, history
<1>8. Patient'
  <2> SUFFICES ASSUME pace' = "patient" PROVE Patient'
    BY DEF Patient
  <2>1. pace = "patient" /\ UNCHANGED <<made, first, followed, queue>>
    BY <1>1 DEF history
  <2>2. SessionIsOwn'
    BY <1>1, <1>2, <1>4, <2>1, GenerateAlone DEF SessionIsOwn, Own
  <2>3. NothingAsked' /\ GenerationIsOwn' /\ MadeOfItsCode' /\ followed' \subseteq first'
    BY <1>4, <2>1
       DEF Patient, NothingAsked, Pending, GenerationIsOwn, OwnCalls, MadeOfItsCode, Own
  <2> QED BY <2>2, <2>3 DEF Patient
<1> QED BY <1>5, <1>6, <1>7, <1>8

LEMMA FinishGenerateInv ==
  ASSUME PanelInv, NEW succeeds \in BOOLEAN, FinishGenerate(succeeds)
  PROVE  PanelInv'
<1> USE DEF PanelInv
<1> DEFINE f == "generate"
           c == First(f)
           next == IF c.by = "click" THEN {"load_quiz"} ELSE {}
           new == [problem |-> c.problem, code |-> c.code]
           again == c.code # None
<1>1. /\ queue[f] # <<>> /\ Follow(f, next, "click")
      /\ session' = [session EXCEPT !.trigger = FALSE]
      /\ page' = [page EXCEPT !.again = again]
      /\ UNCHANGED <<solved, gaveUp, unfolded, graded, first, followed, pace, actions>>
      /\ succeeds => c.code # None
      /\ IF succeeds
         THEN /\ made' = Append(made, new)
              /\ latest' = [latest EXCEPT ![c.problem] = Len(made) + 1]
         ELSE UNCHANGED <<made, latest>>
  BY DEF FinishGenerate
<1>2. f \in Functions /\ next \subseteq Functions \ {f}
  BY DEF Functions
<1>3. Queued(f, next, "click")
  BY <1>1, <1>2, Served
<1>4. c \in Range(queue[f]) /\ c.problem \in Problems /\ c.code \in Problems \cup {None}
  BY <1>3 DEF Queued, Call
<1>5. again \in BOOLEAN /\ new.problem = c.problem /\ new.code = c.code
  OBVIOUS
<1>6. succeeds => new \in [problem: Problems, code: Problems]
  BY <1>1, <1>4
<1> HIDE DEF c, new, again
<1>7. \A g \in Functions \ {f, "load_quiz"} : queue'[g] = queue[g]
  BY <1>3 DEF Queued
<1> HIDE DEF next
<1>8. /\ session' \in [accepted: Problems \cup {None}, trigger: BOOLEAN]
      /\ session'.accepted = session.accepted /\ session'.trigger = FALSE
  BY <1>1 DEF TypeOK
<1>9. page \in Page /\ made \in Seq([problem: Problems, code: Problems])
      /\ latest \in [Problems -> Nat]
  BY DEF TypeOK
<1>10. /\ page' \in Page /\ page'.problem = page.problem /\ page'.set = page.set
       /\ page'.panel = page.panel /\ page'.open = page.open
       /\ page'.result = page.result
       /\ page'.explanation = page.explanation /\ page'.review = page.review
  BY <1>1, <1>5, <1>9 DEF Page
\* The sets that there were are kept, and the new one is that of its problem.
<1>11. /\ made' \in Seq([problem: Problems, code: Problems])
       /\ latest' \in [Problems -> Nat]
       /\ \A i \in DOMAIN made : i \in DOMAIN made' /\ made'[i] = made[i]
       /\ Len(made') >= Len(made)
  <2>1. CASE succeeds
    <3>1. /\ made' = Append(made, new) /\ new \in [problem: Problems, code: Problems]
          /\ latest' = [latest EXCEPT ![c.problem] = Len(made) + 1]
      BY <1>1, <1>6, <2>1
    <3>2. /\ made' \in Seq([problem: Problems, code: Problems])
          /\ Len(made') = Len(made) + 1
      BY <1>9, <3>1
    <3>3. latest' \in [Problems -> Nat]
      BY <1>4, <1>9, <3>1
    <3>4. \A i \in DOMAIN made : i \in DOMAIN made' /\ made'[i] = made[i]
      BY <1>9, <3>1
    <3> QED BY <1>9, <3>2, <3>3, <3>4
  <2>2. CASE ~succeeds
    BY <1>1, <1>9, <2>2
  <2> QED BY <2>1, <2>2
<1>12. succeeds => /\ DOMAIN made' = DOMAIN made \cup {Len(made) + 1}
                   /\ made'[Len(made) + 1] = new
  BY <1>1, <1>6, <1>9
<1>13. \A p \in Problems :
          latest'[p] = IF succeeds /\ p = c.problem THEN Len(made) + 1 ELSE latest[p]
  BY <1>1, <1>4, <1>9
<1>14. TypeOK'
  BY <1>1, <1>3, <1>8, <1>10, <1>11 DEF Queued, TypeOK
<1>15. SetsOfProblem'
  <2>1. ASSUME NEW p \in Problems, latest'[p] # 0
        PROVE  latest'[p] \in DOMAIN made' /\ made'[latest'[p]].problem = p
    <3>1. CASE succeeds /\ p = c.problem
      BY <1>5, <1>12, <1>13, <3>1
    <3>2. CASE ~(succeeds /\ p = c.problem)
      BY <1>11, <1>13, <2>1, <3>2 DEF SetsOfProblem
    <3> QED BY <3>1, <3>2
  <2>2. page'.set \in 0..Len(made')
    BY <1>9, <1>10, <1>11 DEF SetsOfProblem
  <2> QED BY <2>1, <2>2 DEF SetsOfProblem
<1>16. PanelFollows'
  BY <1>1, <1>7, <1>10, PanelKept DEF Functions
<1>17. SetFollows'
  <2>1. CASE "load_quiz" \in next
    <3>1. /\ queue'["load_quiz"] # <<>>
          /\ queue'["load_quiz"][Len(queue'["load_quiz"])] = NewCall(page.problem, "click")
      BY <1>3, <2>1 DEF Queued
    <3>2. NewCall(page.problem, "click").problem = page.problem
      BY <1>9, NewCallIsCall DEF Page
    <3> QED BY <1>10, <3>1, <3>2 DEF SetFollows, Newest
  <2>2. CASE "load_quiz" \notin next
    <3>1. \A g \in {"select", "reset", "load_quiz"} : queue'[g] = queue[g]
      BY <1>3, <1>7, <2>2 DEF Queued, Functions
    <3>2. page.set # 0 => page.set \in DOMAIN made
      BY <1>9 DEF SetsOfProblem
    <3>3. page.set # 0 => made'[page.set] = made[page.set]
      BY <1>11, <3>2
    <3> QED BY <1>10, <3>1, <3>3 DEF SetFollows, Pending, Newest
  <2> QED BY <2>1, <2>2
<1>18. Unhurried'
  <2> SUFFICES ASSUME pace' # "rash" PROVE Unhurried'
    BY DEF Unhurried
  <2>1. pace # "rash"
    BY <1>1
  <2>2. OwnCalls(Functions \ {"generate"})'
    BY <1>1, <1>2, <1>10, <2>1, FollowOwn DEF Unhurried
  <2>3. ResultIsOwn' /\ ReadingIsOwn'
    BY <1>1, <1>7, <1>10, <2>1, ResultKept, ReadingKept DEF Unhurried, Functions
  <2> QED BY <2>2, <2>3 DEF Unhurried
<1>19. Patient'
  <2> SUFFICES ASSUME pace' = "patient" PROVE Patient'
    BY DEF Patient
  <2>1. pace = "patient" /\ ~Pending({"select", "reset"}) /\ SessionIsOwn
    BY <1>1, GenerateAlone
  <2>2. NothingAsked'
    BY <1>7, <2>1 DEF NothingAsked, Pending, Functions
  <2>3. SessionIsOwn'
    BY <1>8, <1>10, <2>1 DEF SessionIsOwn, Own
  <2>4. Range(queue'[f]) \subseteq Range(queue[f])
    BY <1>3 DEF Queued
  <2>5. GenerationIsOwn'
    BY <1>10, <2>1, <2>4 DEF Patient, GenerationIsOwn, OwnCalls, Own
  <2>6. c.problem = page.problem /\ c.code \in Own
    BY <1>4, <2>1 DEF Patient, GenerationIsOwn, OwnCalls
  <2>7. succeeds => new.code = new.problem
    BY <1>1, <1>5, <2>6 DEF Own
  <2>8. MadeOfItsCode'
    <3>1. CASE succeeds
      BY <1>11, <1>12, <2>1, <2>7, <3>1 DEF Patient, MadeOfItsCode
    <3>2. CASE ~succeeds
      BY <1>1, <2>1, <3>2 DEF Patient, MadeOfItsCode
    <3> QED BY <3>1, <3>2
  <2>9. followed' \subseteq first'
    BY <1>1, <2>1 DEF Patient
  <2> QED BY <2>2, <2>3, <2>5, <2>8, <2>9 DEF Patient
<1> QED BY <1>14, <1>15, <1>16, <1>17, <1>18, <1>19

LEMMA GradeInv ==
  ASSUME PanelInv, NEW complete \in BOOLEAN, Grade(complete)
  PROVE  PanelInv'
<1> USE DEF PanelInv
<1> DEFINE f == "grade"
           p == First(f).problem
           accepted == complete /\ p \in Done
           outcome == IF accepted THEN p ELSE None
<1>1. /\ queue[f] # <<>> /\ Follow(f, {"load_quiz"}, "click")
      /\ graded' = IF accepted THEN graded \cup {p} ELSE graded
      /\ page' = [page EXCEPT !.result = outcome, !.open = accepted]
      /\ UNCHANGED <<solved, gaveUp, unfolded, latest, session, history, actions>>
  BY DEF Grade
<1>2. f \in Functions /\ {"load_quiz"} \subseteq Functions \ {f}
  BY DEF Functions
<1>3. Queued(f, {"load_quiz"}, "click")
  BY <1>1, <1>2, Served
<1>4. p \in Problems /\ First(f) \in Range(queue[f])
  BY <1>3 DEF Queued, Call
<1>5. accepted \in BOOLEAN /\ outcome \in Problems \cup {None}
  BY <1>4
<1>6. outcome \in {None, p}
  OBVIOUS
<1> HIDE DEF p, accepted, outcome
<1>7. page \in Page
  BY DEF TypeOK
<1>8. /\ page' \in Page /\ page'.problem = page.problem /\ page'.set = page.set
      /\ page'.panel = page.panel /\ page'.result = outcome
      /\ page'.explanation = page.explanation /\ page'.review = page.review
  BY <1>1, <1>5, <1>7 DEF Page
<1>9. page'.open = accepted
  BY <1>1, <1>5, <1>7 DEF Page
<1>10. /\ \A g \in Functions \ {f, "load_quiz"} : queue'[g] = queue[g]
       /\ queue'["load_quiz"] # <<>>
       /\ queue'["load_quiz"][Len(queue'["load_quiz"])] = NewCall(page.problem, "click")
  BY <1>3 DEF Queued
<1>11. TypeOK'
  <2>1. graded' \subseteq Problems
    BY <1>1, <1>4 DEF TypeOK
  <2> QED BY <1>1, <1>3, <1>8, <2>1 DEF Queued, TypeOK, history
<1>12. SetsOfProblem'
  BY <1>1, <1>8, MadeKept DEF history
<1>13. PanelFollows'
  BY <1>1, <1>8, <1>10, PanelKept DEF Functions
<1>14. SetFollows'
  <2>1. NewCall(page.problem, "click").problem = page.problem
    BY <1>7, NewCallIsCall DEF Page
  <2> QED BY <1>8, <1>10, <2>1 DEF SetFollows, Newest
<1>15. Unhurried'
  <2> SUFFICES ASSUME pace' # "rash" PROVE Unhurried'
    BY DEF Unhurried
  <2>1. pace # "rash"
    BY <1>1 DEF history
  <2>2. OwnCalls(Functions \ {"generate"})'
    BY <1>1, <1>2, <1>8, <2>1, FollowOwn DEF Unhurried
  <2>3. p = page.problem
    BY <1>4, <2>1 DEF Unhurried, OwnCalls, Functions, p
  <2>4. ResultIsOwn'
    <3>1. accepted => p \in graded'
      BY <1>1
    <3>2. page'.open => page'.problem \in graded'
      BY <1>8, <1>9, <2>3, <3>1, Zenon
    <3>3. page'.result \in Own'
      BY <1>6, <1>8, <2>3 DEF Own
    <3> QED BY <3>2, <3>3 DEF ResultIsOwn
  <2>5. ReadingIsOwn'
    BY <1>8, <1>10, <2>1, ReadingKept DEF Unhurried, Functions
  <2> QED BY <2>2, <2>4, <2>5 DEF Unhurried
<1>16. Patient'
  BY <1>1, <1>8, <1>10, PatientKept DEF history, Functions
<1> QED BY <1>11, <1>12, <1>13, <1>14, <1>15, <1>16

\* What is shown of a problem after its fixed quiz: nothing is sent after it.
LEMMA ShowInv ==
  ASSUME PanelInv, NEW f \in {"explain", "review"}, queue[f] # <<>>,
         Follow(f, {}, "click"), UNCHANGED <<stores, session, history, actions>>,
         NEW shown, shown \in {None, First(f).problem},
         \/ f = "explain" /\ page' = [page EXCEPT !.explanation = shown]
         \/ f = "review" /\ page' = [page EXCEPT !.review = shown]
  PROVE  PanelInv'
<1> USE DEF PanelInv
<1>1. f \in Functions /\ {} \subseteq Functions \ {f}
  BY DEF Functions
<1>2. Queued(f, {}, "click")
  BY <1>1, Served
<1>3. First(f).problem \in Problems /\ First(f) \in Range(queue[f])
  BY <1>2 DEF Queued, Call
<1>4. page \in Page /\ shown \in Problems \cup {None}
  BY <1>3 DEF TypeOK
<1>5. /\ page' \in Page /\ page'.problem = page.problem /\ page'.set = page.set
      /\ page'.panel = page.panel /\ page'.open = page.open
      /\ page'.result = page.result
      /\ page'.explanation \in {page.explanation, shown}
      /\ page'.review \in {page.review, shown}
  <2>1. CASE f = "explain" /\ page' = [page EXCEPT !.explanation = shown]
    BY <1>4, <2>1 DEF Page
  <2>2. CASE f = "review" /\ page' = [page EXCEPT !.review = shown]
    BY <1>4, <2>2 DEF Page
  <2> QED BY <2>1, <2>2
<1>6. \A g \in Functions \ {"explain", "review"} : queue'[g] = queue[g]
  BY <1>2 DEF Queued
<1>7. TypeOK'
  BY <1>2, <1>5 DEF Queued, TypeOK, stores, history
<1>8. SetsOfProblem' /\ PanelFollows' /\ SetFollows'
  BY <1>5, <1>6, MadeKept, PanelKept, SetKept DEF stores, history, Functions
<1>9. Unhurried'
  <2> SUFFICES ASSUME pace' # "rash" PROVE Unhurried'
    BY DEF Unhurried
  <2>1. pace # "rash"
    BY DEF history
  <2>2. OwnCalls(Functions \ {"generate"})'
    BY <1>1, <1>5, <2>1, FollowOwn DEF Unhurried
  <2>3. ResultIsOwn'
    BY <1>5, <1>6, <2>1, ResultKept DEF Unhurried, stores, Functions
  <2>4. shown \in Own
    <3>1. First(f).problem = page.problem
      BY <1>3, <2>1 DEF Unhurried, OwnCalls, Functions
    <3> QED BY <3>1 DEF Own
  <2>5. ReadingIsOwn'
    BY <1>5, <1>6, <2>1, <2>4 DEF Unhurried, ReadingIsOwn, Pending, Own, Functions
  <2> QED BY <2>2, <2>3, <2>5 DEF Unhurried
<1>10. Patient'
  BY <1>5, <1>6, PatientKept DEF history, Functions
<1> QED BY <1>7, <1>8, <1>9, <1>10

LEMMA ExplainInv == PanelInv /\ Explain => PanelInv'
<1> DEFINE p == First("explain").problem
           shown == IF p \in Done /\ p \in graded THEN p ELSE None
<1> SUFFICES ASSUME PanelInv, Explain PROVE PanelInv'
  OBVIOUS
<1>1. /\ queue["explain"] # <<>> /\ Follow("explain", {}, "click")
      /\ UNCHANGED <<stores, session, history, actions>>
      /\ page' = [page EXCEPT !.explanation = shown]
  BY DEF Explain
<1>2. shown \in {None, First("explain").problem}
  OBVIOUS
<1> HIDE DEF shown
<1> QED BY <1>1, <1>2, ShowInv

LEMMA ReviewInv == PanelInv /\ Review => PanelInv'
<1> DEFINE p == First("review").problem
           shown == IF p \in Done /\ p \in graded THEN p ELSE None
<1> SUFFICES ASSUME PanelInv, Review PROVE PanelInv'
  OBVIOUS
<1>1. /\ queue["review"] # <<>> /\ Follow("review", {}, "click")
      /\ UNCHANGED <<stores, session, history, actions>>
      /\ page' = [page EXCEPT !.review = shown]
  BY DEF Review
<1>2. shown \in {None, First("review").problem}
  OBVIOUS
<1> HIDE DEF shown
<1> QED BY <1>1, <1>2, ShowInv

-----------------------------------------------------------------------------

LEMMA PanelStutter == PanelInv /\ UNCHANGED vars => PanelInv'
<1> SUFFICES ASSUME PanelInv, UNCHANGED vars PROVE PanelInv'
  OBVIOUS
<1> USE DEF PanelInv, vars
<1>1. TypeOK'
  BY DEF TypeOK
<1>2. SetsOfProblem' /\ PanelFollows' /\ SetFollows' /\ Patient'
  BY MadeKept, PanelKept, SetKept, PatientKept
<1>3. Unhurried'
  <2>1. pace # "rash" => OwnCalls(Functions \ {"generate"})'
    BY DEF Unhurried, OwnCalls
  <2>2. pace # "rash" => ResultIsOwn' /\ ReadingIsOwn'
    BY ResultKept, ReadingKept DEF Unhurried
  <2> QED BY <2>1, <2>2 DEF Unhurried
<1> QED BY <1>1, <1>2, <1>3

LEMMA PanelNext == PanelInv /\ [Next]_vars => PanelInv'
<1> SUFFICES ASSUME PanelInv, [Next]_vars PROVE PanelInv'
  OBVIOUS
<1>1. CASE Learner
  <2>1. CASE \E p \in Problems : Select(p)
    BY <2>1, SelectInv
  <2>2. CASE ClickSubmit
    BY <2>2, ButtonInv DEF ClickSubmit
  <2>3. CASE ClickGiveUp
    BY <2>3, ButtonInv DEF ClickGiveUp
  <2>4. CASE ClickAgain
    BY <2>4, ButtonInv DEF ClickAgain
  <2>5. CASE \E f \in Functions : Read(f)
    BY <2>5, ReadInv
  <2> QED BY <1>1, <2>1, <2>2, <2>3, <2>4, <2>5 DEF Learner
<1>2. CASE Server
  <2>1. CASE \E accepted \in BOOLEAN : SubmitFull(accepted) \/ SubmitFails(accepted)
    BY <2>1, SubmitFullInv, SubmitFailsInv
  <2>2. CASE \E succeeds \in BOOLEAN : FinishGenerate(succeeds)
    BY <2>2, FinishGenerateInv
  <2>3. CASE \E complete \in BOOLEAN : Grade(complete)
    BY <2>3, GradeInv
  <2> QED BY <1>2, <2>1, <2>2, <2>3, SelectedInv, LoadCompletionInv, ResetInv, LoadQuizInv,
             GiveUpInv, StartGenerateInv, TickInv, ExplainInv, ReviewInv DEF Server
<1>3. CASE UNCHANGED vars
  BY <1>3, PanelStutter
<1> QED BY <1>1, <1>2, <1>3 DEF Next

LEMMA PanelAlways == Spec => []PanelInv
BY PanelInit, PanelNext, PTL DEF Spec

\* The components of the tab and the calls that wait are what their functions
\* expect (gr.State and the outputs of the events of the completion tab).
THEOREM PanelTypeCorrect == Spec => []TypeOK
<1>1. PanelInv => TypeOK
  BY DEF PanelInv
<1> QED BY <1>1, PanelAlways, PTL

LEMMA PanelShows == PanelInv => PanelIsOfSelected
<1> SUFFICES ASSUME PanelInv, Quiet PROVE PanelIsOfSelected
  BY DEF PanelIsOfSelected
<1> USE DEF PanelInv
<1>1. \A f \in {"select", "submit", "give_up", "load_completion", "reset", "load_quiz"} :
          queue[f] = <<>>
  BY DEF Quiet, Functions
<1>2. page.panel = IF page.problem \in Done THEN page.problem ELSE None
  BY <1>1 DEF PanelFollows, Pending
<1>3. page.set # 0 => made[page.set].problem = page.problem
  BY <1>1 DEF SetFollows, Pending
<1>4. pace # "rash" =>
        /\ {page.result, page.explanation, page.review} \subseteq {None, page.problem}
        /\ page.open => page.problem \in graded
  BY <1>1 DEF Unhurried, ResultIsOwn, ReadingIsOwn, Pending, Own
<1> QED BY <1>2, <1>3, <1>4 DEF PanelIsOfSelected

\* When nothing is under way the tab is that of the selected problem, for any
\* number of problems and any number of calls of the functions under way before.
THEOREM PanelFollowsSelection == Spec => []PanelIsOfSelected
BY PanelAlways, PanelShows, PTL

\* An AI quiz is made from the code of its own problem, however often the patient
\* learner goes from one problem to another (accepted_source).
THEOREM QuizHasItsCode == Spec => []QuizIsOfItsCode
<1>1. PanelInv => QuizIsOfItsCode
  BY DEF PanelInv, Patient, MadeOfItsCode, QuizIsOfItsCode
<1> QED BY <1>1, PanelAlways, PTL

\* No generation starts of its own accord for a problem that was solved before
\* (personalized_quiz_trigger).
THEOREM NoSecondFollowUp == Spec => []OnlyFirstIsFollowedUp
<1>1. PanelInv => OnlyFirstIsFollowedUp
  BY DEF PanelInv, Patient, OnlyFirstIsFollowedUp
<1> QED BY <1>1, PanelAlways, PTL

-----------------------------------------------------------------------------
(* The tab comes to rest *)

LEMMA CallsAreCounted ==
  TypeOK => \A f \in Functions : Calls(f) \in Nat /\ (Calls(f) = 0 <=> queue[f] = <<>>)
<1> SUFFICES ASSUME TypeOK, NEW f \in Functions
             PROVE  Calls(f) \in Nat /\ (Calls(f) = 0 <=> queue[f] = <<>>)
  OBVIOUS
<1>1. queue[f] \in Seq(Call)
  BY DEF TypeOK
<1> QED BY <1>1, EmptySeq DEF Calls

LEMMA OneIsOne ==
  /\ \A b : One(b) \in 0..1
  /\ One(FALSE) = 0 /\ One(TRUE) = 1
BY DEF One

\* There is work as long as a call waits, and then it can become less only so often.
LEMMA WorkIsLeft == TypeOK => Work \in Nat /\ (Work = 0 => Quiet)
<1> SUFFICES ASSUME TypeOK PROVE Work \in Nat /\ (Work = 0 => Quiet)
  OBVIOUS
<1>1. \A f \in Functions : Calls(f) \in Nat /\ (Calls(f) = 0 => queue[f] = <<>>)
  BY CallsAreCounted
<1>2. /\ Calls("select") \in Nat /\ Calls("submit") \in Nat /\ Calls("give_up") \in Nat
      /\ Calls("load_completion") \in Nat /\ Calls("generate") \in Nat
      /\ Calls("reset") \in Nat /\ Calls("grade") \in Nat /\ Calls("load_quiz") \in Nat
      /\ Calls("explain") \in Nat /\ Calls("review") \in Nat
  BY <1>1 DEF Functions
<1>3. One(Started) <= Calls("generate") /\ One(Started) \in 0..1
  <2>1. CASE Started
    <3>1. Calls("generate") # 0
      BY <1>1, <2>1 DEF Started, Functions
    <3> QED BY <1>2, <2>1, <3>1 DEF One
  <2>2. CASE ~Started
    BY <1>2, <2>2 DEF One
  <2> QED BY <2>1, <2>2
<1>4. One(session.trigger) \in 0..1 /\ One(page.again) \in 0..1
  BY OneIsOne
<1>5. Work \in Nat
  BY <1>2, <1>3, <1>4 DEF Work, Weighed
<1>6. Work = 0 => \A f \in Functions : Calls(f) = 0
  <2> SUFFICES ASSUME Work = 0 PROVE \A f \in Functions : Calls(f) = 0
    OBVIOUS
  <2> DEFINE a == Calls("select")           b == Calls("submit")
             c == Calls("give_up")          d == Calls("load_completion")
             e == Calls("generate")         g == Calls("reset")
             h == Calls("grade")            i == Calls("load_quiz")
             j == Calls("explain")          k == Calls("review")
             s == One(Started)              t == One(session.trigger)
             u == One(page.again)
  <2>1. /\ 10 * a + 8 * b + 7 * c + 6 * d + 5 * e - s + 3 * g + 3 * h + 2 * i + j + k + t + u = 0
        /\ a \in Nat /\ b \in Nat /\ c \in Nat /\ d \in Nat /\ e \in Nat
        /\ g \in Nat /\ h \in Nat /\ i \in Nat /\ j \in Nat /\ k \in Nat
        /\ s <= e /\ s \in 0..1 /\ t \in 0..1 /\ u \in 0..1
    BY <1>2, <1>3, <1>4 DEF Work, Weighed
  <2> HIDE DEF a, b, c, d, e, g, h, i, j, k, s, t, u
  <2>2. 5 * e - s >= 0 /\ (e # 0 => 5 * e - s > 0)
    BY <2>1
  <2>3. a = 0 /\ b = 0 /\ c = 0 /\ d = 0 /\ e = 0 /\ g = 0 /\ h = 0 /\ i = 0 /\ j = 0 /\ k = 0
    BY <2>1, <2>2
  <2> QED BY <2>3 DEF Functions, a, b, c, d, e, g, h, i, j, k
<1> QED BY <1>1, <1>5, <1>6 DEF Quiet

\* What a function that returns does to the number of calls.
LEMMA Counted ==
  ASSUME TypeOK, NEW f \in Functions, queue[f] # <<>>,
         NEW next, next \subseteq Functions \ {f},
         NEW by \in {"select", "submit", "give_up", "click"},
         Follow(f, next, by)
  PROVE  /\ Calls(f)' = Calls(f) - 1
         /\ \A g \in next : Calls(g)' = Calls(g) + 1
         /\ \A g \in Functions \ (next \cup {f}) : Calls(g)' = Calls(g)
<1> DEFINE c == NewCall(page.problem, by)
<1>1. c \in Call /\ queue \in [Functions -> Seq(Call)]
  BY NewCallIsCall DEF TypeOK, Page
<1> HIDE DEF c
<1>2. /\ \A g \in next : queue'[g] = Append(queue[g], c)
      /\ queue'[f] = Tail(queue[f])
      /\ \A g \in Functions \ (next \cup {f}) : queue'[g] = queue[g]
  BY DEF Follow, c
<1>3. Calls(f)' = Calls(f) - 1
  <2>1. queue[f] \in Seq(Call)
    BY <1>1
  <2>2. Len(Tail(queue[f])) = Len(queue[f]) - 1
    BY <2>1, HeadTailProperties
  <2> QED BY <1>2, <2>2 DEF Calls
<1>4. ASSUME NEW g \in next PROVE Calls(g)' = Calls(g) + 1
  <2>1. queue[g] \in Seq(Call) /\ queue'[g] = Append(queue[g], c)
    BY <1>1, <1>2, <1>4
  <2> QED BY <1>1, <2>1 DEF Calls
<1>5. \A g \in Functions \ (next \cup {f}) : Calls(g)' = Calls(g)
  BY <1>2 DEF Calls
<1> QED BY <1>3, <1>4, <1>5

\* What becomes of the calls of g when f returns and next follow it.
Change(f, next, g) == IF g = f THEN -1 ELSE IF g \in next THEN 1 ELSE 0

LEMMA WeighedChange ==
  ASSUME TypeOK, NEW f \in Functions, queue[f] # <<>>,
         NEW next, next \subseteq Functions \ {f},
         NEW by \in {"select", "submit", "give_up", "click"},
         Follow(f, next, by)
  PROVE  /\ Weighed \in Nat /\ Weighed' \in Int
         /\ Weighed' = Weighed + 10 * Change(f, next, "select") + 8 * Change(f, next, "submit")
              + 7 * Change(f, next, "give_up") + 6 * Change(f, next, "load_completion")
              + 5 * Change(f, next, "generate") + 3 * Change(f, next, "reset")
              + 3 * Change(f, next, "grade") + 2 * Change(f, next, "load_quiz")
              + Change(f, next, "explain") + Change(f, next, "review")
<1>1. \A g \in Functions : Change(f, next, g) \in -1..1 /\ Calls(g) \in Nat
  BY CallsAreCounted DEF Change
<1>2. \A g \in Functions : Calls(g)' = Calls(g) + Change(f, next, g)
  <2> SUFFICES ASSUME NEW g \in Functions
               PROVE  Calls(g)' = Calls(g) + Change(f, next, g)
    OBVIOUS
  <2>1. Calls(g) \in Nat
    BY <1>1
  <2>2. CASE g = f
    BY <2>1, <2>2, Counted DEF Change
  <2>3. CASE g # f /\ g \in next
    BY <2>1, <2>3, Counted DEF Change
  <2>4. CASE g # f /\ g \notin next
    BY <2>1, <2>4, Counted DEF Change
  <2> QED BY <2>2, <2>3, <2>4
<1> DEFINE a == Calls("select")           da == Change(f, next, "select")
           b == Calls("submit")           db == Change(f, next, "submit")
           c == Calls("give_up")          dc == Change(f, next, "give_up")
           d == Calls("load_completion")  dd == Change(f, next, "load_completion")
           e == Calls("generate")         de == Change(f, next, "generate")
           g == Calls("reset")            dg == Change(f, next, "reset")
           h == Calls("grade")            dh == Change(f, next, "grade")
           i == Calls("load_quiz")        di == Change(f, next, "load_quiz")
           j == Calls("explain")          dj == Change(f, next, "explain")
           k == Calls("review")           dk == Change(f, next, "review")
<1>3. /\ a' = a + da /\ b' = b + db /\ c' = c + dc /\ d' = d + dd /\ e' = e + de
      /\ g' = g + dg /\ h' = h + dh /\ i' = i + di /\ j' = j + dj /\ k' = k + dk
  BY <1>2 DEF Functions
<1>4. /\ a \in Nat /\ b \in Nat /\ c \in Nat /\ d \in Nat /\ e \in Nat
      /\ g \in Nat /\ h \in Nat /\ i \in Nat /\ j \in Nat /\ k \in Nat
      /\ da \in Int /\ db \in Int /\ dc \in Int /\ dd \in Int /\ de \in Int
      /\ dg \in Int /\ dh \in Int /\ di \in Int /\ dj \in Int /\ dk \in Int
  BY <1>1 DEF Functions
<1>5. /\ Weighed = 10 * a + 8 * b + 7 * c + 6 * d + 5 * e + 3 * g + 3 * h + 2 * i + j + k
      /\ Weighed' = 10 * a' + 8 * b' + 7 * c' + 6 * d' + 5 * e' + 3 * g' + 3 * h'
                   + 2 * i' + j' + k'
  BY DEF Weighed
<1> SUFFICES
      /\ Weighed \in Nat /\ Weighed' \in Int
      /\ Weighed' = Weighed + 10 * da + 8 * db + 7 * dc + 6 * dd + 5 * de + 3 * dg + 3 * dh
                   + 2 * di + dj + dk
  OBVIOUS
<1> HIDE DEF a, b, c, d, e, g, h, i, j, k, da, db, dc, dd, de, dg, dh, di, dj, dk
<1> QED BY <1>3, <1>4, <1>5
\* A generation that runs goes on while another function returns.
LEMMA StartedStays ==
  ASSUME TypeOK, NEW f \in Functions \ {"generate"},
         NEW next, next \subseteq Functions \ {f},
         NEW by \in {"select", "submit", "give_up", "click"},
         Follow(f, next, by)
  PROVE  Started => Started'
<1> SUFFICES ASSUME Started PROVE Started'
  OBVIOUS
<1> DEFINE c == NewCall(page.problem, by)
<1>1. queue["generate"] \in Seq(Call) /\ queue["generate"] # <<>> /\ c \in Call
  BY NewCallIsCall DEF TypeOK, Page, Functions, Started
<1> HIDE DEF c
<1>2. queue'["generate"] = queue["generate"] \/ queue'["generate"] = Append(queue["generate"], c)
  BY DEF Follow, Functions, c
<1>3. CASE queue'["generate"] = queue["generate"]
  BY <1>3 DEF Started, First
<1>4. CASE queue'["generate"] = Append(queue["generate"], c)
  <2>1. /\ Append(queue["generate"], c) # <<>>
        /\ Head(Append(queue["generate"], c)) = Head(queue["generate"])
    BY <1>1
  <2> QED BY <1>4, <2>1 DEF Started, First
<1> QED BY <1>2, <1>3, <1>4

\* The marks of a state and of the next one.
LEMMA Marks ==
  /\ One(Started) \in 0..1 /\ One(session.trigger) \in 0..1 /\ One(page.again) \in 0..1
  /\ One(Started)' \in 0..1 /\ One(session.trigger)' \in 0..1 /\ One(page.again)' \in 0..1
BY DEF One

LEMMA LessSum ==
  ASSUME NEW n \in Int, NEW w1 \in Int, NEW w2 \in Int, NEW s1 \in Int, NEW s2 \in Int,
         NEW t1 \in Int, NEW t2 \in Int, NEW u1 \in Int, NEW u2 \in Int,
         w2 <= w1 - n, t2 + u2 + s1 < t1 + u1 + s2 + n
  PROVE  w2 - s2 + t2 + u2 < w1 - s1 + t1 + u1
OBVIOUS

\* A step leaves less to do if its marks do not outweigh its calls.
LEMMA LessWork ==
  ASSUME NEW n \in Nat, Weighed \in Nat, Weighed' \in Int, Weighed' <= Weighed - n,
         One(session.trigger)' + One(page.again)' + One(Started)
           < One(session.trigger) + One(page.again) + One(Started)' + n
  PROVE  Work' < Work
<1>1. {n, Weighed, Weighed', One(Started), One(Started)', One(session.trigger),
       One(session.trigger)', One(page.again), One(page.again)'} \subseteq Int
  BY Marks
<1> QED BY <1>1, LessSum DEF Work

\* A function that sends less than its own weight leaves less to do.
LEMMA LighterCalls ==
  ASSUME TypeOK, NEW f \in Functions \ {"generate"}, queue[f] # <<>>,
         NEW next, next \subseteq Functions \ {f},
         NEW by \in {"select", "submit", "give_up", "click"},
         Follow(f, next, by),
         NEW n \in Nat, Weighed' <= Weighed - n,
         One(session.trigger)' + One(page.again)' < One(session.trigger) + One(page.again) + n
  PROVE  Work' < Work
<1>1. Weighed \in Nat /\ Weighed' \in Int
  BY WeighedChange
<1>2. One(Started) <= One(Started)'
  BY StartedStays DEF One
<1>3. One(session.trigger)' + One(page.again)' + One(Started)
        < One(session.trigger) + One(page.again) + One(Started)' + n
  BY <1>2, Marks
<1> QED BY <1>1, <1>3, LessWork

LEMMA SelectedLess == TypeOK /\ Selected => Work' < Work
<1> SUFFICES ASSUME TypeOK, Selected PROVE Work' < Work
  OBVIOUS
<1> DEFINE f == "select"
           next == {"load_completion", "reset"}
<1>1. /\ queue[f] # <<>> /\ Follow(f, next, "select")
      /\ UNCHANGED <<page, session>>
      /\ f \in Functions \ {"generate"} /\ next \subseteq Functions \ {f}
  BY DEF Selected, Functions
<1>2. Weighed \in Nat /\ Weighed' = Weighed - 1
  <2>1. /\ Change(f, next, "select") = -1
        /\ Change(f, next, "load_completion") = 1 /\ Change(f, next, "reset") = 1
        /\ \A g \in Functions \ {f, "load_completion", "reset"} : Change(f, next, g) = 0
    BY DEF Change
  <2> QED BY <1>1, <2>1, WeighedChange DEF Functions
<1>3. One(session.trigger)' + One(page.again)' < One(session.trigger) + One(page.again) + 1
  BY <1>1, Marks
<1> QED BY <1>1, <1>2, <1>3, LighterCalls
LEMMA ResetLess == TypeOK /\ Reset => Work' < Work
<1> SUFFICES ASSUME TypeOK, Reset PROVE Work' < Work
  OBVIOUS
<1> DEFINE f == "reset"   next == {"load_quiz"}
<1>1. /\ queue[f] # <<>> /\ Follow(f, next, "select")
      /\ session'.trigger = FALSE
      /\ page'.again = page.again
      /\ f \in Functions \ {"generate"} /\ next \subseteq Functions \ {f}
  BY DEF Reset, TypeOK, Page, Functions
<1>2. Weighed \in Nat /\ Weighed' = Weighed - 1
  <2>1. /\ Change(f, next, "reset") = -1
        /\ Change(f, next, "load_quiz") = 1
        /\ \A g \in Functions \ {f, "load_quiz"} : Change(f, next, g) = 0
    BY DEF Change
  <2> QED BY <1>1, <2>1, WeighedChange DEF Functions
<1>3. One(session.trigger)' + One(page.again)' < One(session.trigger) + One(page.again) + 1
  BY <1>1, Marks DEF One
<1> QED BY <1>1, <1>2, <1>3, LighterCalls

LEMMA LoadQuizLess == TypeOK /\ LoadQuiz => Work' < Work
<1> SUFFICES ASSUME TypeOK, LoadQuiz PROVE Work' < Work
  OBVIOUS
<1> DEFINE f == "load_quiz"   next == {}
<1>1. /\ queue[f] # <<>> /\ Follow(f, next, "click")
      /\ UNCHANGED session
      /\ f \in Functions \ {"generate"} /\ next \subseteq Functions \ {f}
  BY DEF LoadQuiz, TypeOK, Page, Functions
<1>2. Weighed \in Nat /\ Weighed' = Weighed - 2
  <2>1. /\ Change(f, next, "load_quiz") = -1
        /\ \A g \in Functions \ {f} : Change(f, next, g) = 0
    BY DEF Change
  <2> QED BY <1>1, <2>1, WeighedChange DEF Functions
<1>3. One(session.trigger)' + One(page.again)' < One(session.trigger) + One(page.again) + 2
  BY <1>1, Marks
<1> QED BY <1>1, <1>2, <1>3, LighterCalls

LEMMA SubmitFullLess ==
  ASSUME NEW b \in BOOLEAN, TypeOK, SubmitFull(b) PROVE Work' < Work
<1> DEFINE f == "submit"   next == {"load_completion"}
<1>1. /\ queue[f] # <<>> /\ Follow(f, next, "submit")
      /\ page'.again = page.again
      /\ f \in Functions \ {"generate"} /\ next \subseteq Functions \ {f}
  BY DEF SubmitFull, TypeOK, Page, Functions
<1>2. Weighed \in Nat /\ Weighed' = Weighed - 2
  <2>1. /\ Change(f, next, "submit") = -1
        /\ Change(f, next, "load_completion") = 1
        /\ \A g \in Functions \ {f, "load_completion"} : Change(f, next, g) = 0
    BY DEF Change
  <2> QED BY <1>1, <2>1, WeighedChange DEF Functions
<1>3. One(session.trigger)' + One(page.again)' < One(session.trigger) + One(page.again) + 2
  BY <1>1, Marks
<1> QED BY <1>1, <1>2, <1>3, LighterCalls

LEMMA SubmitFailsLess ==
  ASSUME NEW b \in BOOLEAN, TypeOK, SubmitFails(b) PROVE Work' < Work
<1> DEFINE f == "submit"   next == {"load_completion"}
<1>1. /\ queue[f] # <<>> /\ Follow(f, next, "submit")
      /\ UNCHANGED <<page, session>>
      /\ f \in Functions \ {"generate"} /\ next \subseteq Functions \ {f}
  BY DEF SubmitFails, Functions
<1>2. Weighed \in Nat /\ Weighed' = Weighed - 2
  <2>1. /\ Change(f, next, "submit") = -1
        /\ Change(f, next, "load_completion") = 1
        /\ \A g \in Functions \ {f, "load_completion"} : Change(f, next, g) = 0
    BY DEF Change
  <2> QED BY <1>1, <2>1, WeighedChange DEF Functions
<1>3. One(session.trigger)' + One(page.again)' < One(session.trigger) + One(page.again) + 2
  BY <1>1, Marks
<1> QED BY <1>1, <1>2, <1>3, LighterCalls

LEMMA GiveUpLess == TypeOK /\ GiveUp => Work' < Work
<1> SUFFICES ASSUME TypeOK, GiveUp PROVE Work' < Work
  OBVIOUS
<1> DEFINE f == "give_up"   next == {"load_completion"}
<1>1. /\ queue[f] # <<>> /\ Follow(f, next, "give_up")
      /\ session'.trigger = session.trigger
      /\ page'.again = page.again
      /\ f \in Functions \ {"generate"} /\ next \subseteq Functions \ {f}
  BY DEF GiveUp, TypeOK, Page, Functions
<1>2. Weighed \in Nat /\ Weighed' = Weighed - 1
  <2>1. /\ Change(f, next, "give_up") = -1
        /\ Change(f, next, "load_completion") = 1
        /\ \A g \in Functions \ {f, "load_completion"} : Change(f, next, g) = 0
    BY DEF Change
  <2> QED BY <1>1, <2>1, WeighedChange DEF Functions
<1>3. One(session.trigger)' + One(page.again)' < One(session.trigger) + One(page.again) + 1
  BY <1>1, Marks
<1> QED BY <1>1, <1>2, <1>3, LighterCalls

LEMMA GradeLess ==
  ASSUME NEW b \in BOOLEAN, TypeOK, Grade(b) PROVE Work' < Work
<1> DEFINE f == "grade"   next == {"load_quiz"}
<1>1. /\ queue[f] # <<>> /\ Follow(f, next, "click")
      /\ UNCHANGED session
      /\ page'.again = page.again
      /\ f \in Functions \ {"generate"} /\ next \subseteq Functions \ {f}
  BY DEF Grade, TypeOK, Page, Functions
<1>2. Weighed \in Nat /\ Weighed' = Weighed - 1
  <2>1. /\ Change(f, next, "grade") = -1
        /\ Change(f, next, "load_quiz") = 1
        /\ \A g \in Functions \ {f, "load_quiz"} : Change(f, next, g) = 0
    BY DEF Change
  <2> QED BY <1>1, <2>1, WeighedChange DEF Functions
<1>3. One(session.trigger)' + One(page.again)' < One(session.trigger) + One(page.again) + 1
  BY <1>1, Marks
<1> QED BY <1>1, <1>2, <1>3, LighterCalls

LEMMA ExplainLess == TypeOK /\ Explain => Work' < Work
<1> SUFFICES ASSUME TypeOK, Explain PROVE Work' < Work
  OBVIOUS
<1> DEFINE f == "explain"   next == {}
<1>1. /\ queue[f] # <<>> /\ Follow(f, next, "click")
      /\ UNCHANGED session
      /\ page'.again = page.again
      /\ f \in Functions \ {"generate"} /\ next \subseteq Functions \ {f}
  BY DEF Explain, TypeOK, Page, Functions
<1>2. Weighed \in Nat /\ Weighed' = Weighed - 1
  <2>1. /\ Change(f, next, "explain") = -1
        /\ \A g \in Functions \ {f} : Change(f, next, g) = 0
    BY DEF Change
  <2> QED BY <1>1, <2>1, WeighedChange DEF Functions
<1>3. One(session.trigger)' + One(page.again)' < One(session.trigger) + One(page.again) + 1
  BY <1>1, Marks
<1> QED BY <1>1, <1>2, <1>3, LighterCalls

LEMMA ReviewLess == TypeOK /\ Review => Work' < Work
<1> SUFFICES ASSUME TypeOK, Review PROVE Work' < Work
  OBVIOUS
<1> DEFINE f == "review"   next == {}
<1>1. /\ queue[f] # <<>> /\ Follow(f, next, "click")
      /\ UNCHANGED session
      /\ page'.again = page.again
      /\ f \in Functions \ {"generate"} /\ next \subseteq Functions \ {f}
  BY DEF Review, TypeOK, Page, Functions
<1>2. Weighed \in Nat /\ Weighed' = Weighed - 1
  <2>1. /\ Change(f, next, "review") = -1
        /\ \A g \in Functions \ {f} : Change(f, next, g) = 0
    BY DEF Change
  <2> QED BY <1>1, <2>1, WeighedChange DEF Functions
<1>3. One(session.trigger)' + One(page.again)' < One(session.trigger) + One(page.again) + 1
  BY <1>1, Marks
<1> QED BY <1>1, <1>2, <1>3, LighterCalls
LEMMA LoadCompletionLess == TypeOK /\ LoadCompletion => Work' < Work
<1> SUFFICES ASSUME TypeOK, LoadCompletion PROVE Work' < Work
  OBVIOUS
<1> DEFINE f == "load_completion"
           c == First(f)
           next == IF c.by = "submit" THEN {"generate"} ELSE {}
<1>1. /\ queue[f] # <<>> /\ Follow(f, next, c.by)
      /\ UNCHANGED session /\ page'.again = page.again
      /\ f \in Functions \ {"generate"} /\ next \subseteq Functions \ {f}
  BY DEF LoadCompletion, TypeOK, Page, Functions
<1>2. c.by \in {"select", "submit", "give_up", "click"}
  <2>1. c \in Call
    BY <1>1, TailFacts DEF First, TypeOK
  <2> QED BY <2>1 DEF Call
<1> HIDE DEF c
<1>3. Weighed \in Nat /\ Weighed' <= Weighed - 1 /\ Weighed' \in Int
  <2>1. CASE c.by = "submit"
    <3>1. /\ Change(f, next, "load_completion") = -1 /\ Change(f, next, "generate") = 1
          /\ \A g \in Functions \ {f, "generate"} : Change(f, next, g) = 0
      BY <2>1 DEF Change
    <3> QED BY <1>1, <1>2, <3>1, WeighedChange DEF Functions
  <2>2. CASE c.by # "submit"
    <3>1. /\ Change(f, next, "load_completion") = -1
          /\ \A g \in Functions \ {f} : Change(f, next, g) = 0
      BY <2>2 DEF Change
    <3> QED BY <1>1, <1>2, <3>1, WeighedChange DEF Functions
  <2> QED BY <2>1, <2>2
<1>4. One(session.trigger)' + One(page.again)' < One(session.trigger) + One(page.again) + 1
  BY <1>1, Marks
<1> QED BY <1>1, <1>2, <1>3, <1>4, LighterCalls

\* A call that finds no trigger is over; another begins, and what it wrote it need
\* not write again.
LEMMA StartGenerateLess == TypeOK /\ StartGenerate => Work' < Work
<1> SUFFICES ASSUME TypeOK, StartGenerate PROVE Work' < Work
  OBVIOUS
<1> DEFINE f == "generate"
           c == First(f)
           d == [c EXCEPT !.started = TRUE, !.code = session.accepted]
<1>1. /\ queue[f] # <<>> /\ ~c.started
      /\ session'.trigger = FALSE
  BY DEF StartGenerate, TypeOK
<1>2. f \in Functions /\ queue \in [Functions -> Seq(Call)] /\ queue[f] \in Seq(Call)
  BY DEF TypeOK, Functions
<1>3. c \in Call /\ c = queue[f][1]
  BY <1>1, <1>2, TailFacts DEF First
<1>4. One(Started) = 0 /\ One(session.trigger)' = 0
  BY <1>1 DEF One, Started
<1>5. CASE Follow(f, {}, "click") /\ UNCHANGED page
  <2>1. /\ Change(f, {}, "generate") = -1
        /\ \A g \in Functions \ {f} : Change(f, {}, g) = 0
    BY DEF Change
  <2>2. /\ queue[f] # <<>> /\ Follow(f, {}, "click") /\ f \in Functions
        /\ {} \subseteq Functions \ {f} /\ "click" \in {"select", "submit", "give_up", "click"}
    BY <1>1, <1>2, <1>5
  <2> HIDE DEF f, c, d
  <2>3. /\ Weighed \in Nat
        /\ Weighed' = Weighed + 10 * Change(f, {}, "select") + 8 * Change(f, {}, "submit")
              + 7 * Change(f, {}, "give_up") + 6 * Change(f, {}, "load_completion")
              + 5 * Change(f, {}, "generate") + 3 * Change(f, {}, "reset")
              + 3 * Change(f, {}, "grade") + 2 * Change(f, {}, "load_quiz")
              + Change(f, {}, "explain") + Change(f, {}, "review")
    BY <2>2, WeighedChange
  <2>4. Weighed' = Weighed - 5
    BY <2>1, <2>3 DEF Functions, f
  <2>5. One(session.trigger)' + One(page.again)' + One(Started)
          < One(session.trigger) + One(page.again) + One(Started)' + 5
    BY <1>4, Marks
  <2> QED BY <2>3, <2>4, <2>5, LessWork
<1>6. CASE /\ queue' = [queue EXCEPT ![f] = [@ EXCEPT ![1] = d]]
           /\ page'.again = FALSE
  <2>1. /\ d \in Call /\ d.started = TRUE
        /\ queue'[f] = [queue[f] EXCEPT ![1] = d]
        /\ \A g \in Functions \ {f} : queue'[g] = queue[g]
    BY <1>2, <1>3, <1>6 DEF Call, TypeOK
  <2> HIDE DEF d
  <2>2. /\ queue'[f] \in Seq(Call) /\ Len(queue'[f]) = Len(queue[f])
        /\ queue'[f] # <<>> /\ Head(queue'[f]) = d
    BY <1>1, <1>2, <2>1
  <2>3. \A g \in Functions : Calls(g)' = Calls(g)
    BY <2>1, <2>2 DEF Calls
  <2>4. Weighed \in Nat /\ Weighed' = Weighed
    <3>1. \A g \in Functions : Calls(g) \in Nat
      BY CallsAreCounted
    <3> QED BY <2>3, <3>1 DEF Weighed, Functions
  <2>5. One(Started)' = 1 /\ One(page.again)' = 0
    BY <1>6, <2>1, <2>2 DEF One, Started, First
  <2>6. One(session.trigger)' + One(page.again)' + One(Started)
          < One(session.trigger) + One(page.again) + One(Started)' + 0
    BY <1>4, <2>5, Marks
  <2> QED BY <2>4, <2>6, LessWork
<1>7. CASE ~(c.by = "submit" /\ ~session.trigger)
  <2>1. /\ queue' = [queue EXCEPT !["generate"][1] =
                     [@ EXCEPT !.started = TRUE, !.code = session.accepted]]
        /\ page' = [page EXCEPT !.again = FALSE]
    BY <1>7 DEF StartGenerate
  <2>2. queue' = [queue EXCEPT ![f] = [@ EXCEPT ![1] = d]]
    BY <2>1, <1>3
  <2>3. page'.again = FALSE
    BY <2>1 DEF TypeOK, Page
  <2> QED BY <1>6, <2>2, <2>3
<1>8. CASE c.by = "submit" /\ ~session.trigger
  <2>1. Follow(f, {}, "click") /\ UNCHANGED page
    BY <1>8 DEF StartGenerate
  <2> QED BY <1>5, <2>1
<1> QED BY <1>7, <1>8

LEMMA TickLess == TypeOK /\ Tick => Work' < Work
<1> SUFFICES ASSUME TypeOK, Tick PROVE Work' < Work
  OBVIOUS
<1>1. /\ session.trigger \/ page.again
      /\ session'.trigger = FALSE /\ page'.again = FALSE
      /\ UNCHANGED queue
  BY DEF Tick, TypeOK, Page
<1>2. Weighed \in Nat /\ Weighed' = Weighed /\ One(Started)' = One(Started)
  <2>1. \A g \in Functions : Calls(g) \in Nat
    BY CallsAreCounted
  <2>2. Weighed \in Nat
    BY <2>1 DEF Weighed, Functions
  <2>3. Weighed' = Weighed /\ Started' = Started
    BY <1>1 DEF Weighed, Calls, Started, First
  <2> QED BY <2>2, <2>3
<1>3. /\ One(session.trigger)' = 0 /\ One(page.again)' = 0
      /\ One(session.trigger) = 1 \/ One(page.again) = 1
  BY <1>1 DEF One
<1>4. One(session.trigger)' + One(page.again)' + One(Started)
        < One(session.trigger) + One(page.again) + One(Started)' + 0
  BY <1>2, <1>3, Marks
<1> QED BY <1>2, <1>4, LessWork

LEMMA FinishGenerateLess ==
  ASSUME NEW b \in BOOLEAN, TypeOK, FinishGenerate(b) PROVE Work' < Work
<1> DEFINE f == "generate"
           c == First(f)
           next == IF c.by = "click" THEN {"load_quiz"} ELSE {}
<1>1. /\ queue[f] # <<>> /\ Follow(f, next, "click")
      /\ f \in Functions /\ next \subseteq Functions \ {f}
  BY DEF FinishGenerate, Functions
<1> HIDE DEF c
<1>2. Weighed \in Nat /\ Weighed' <= Weighed - 3 /\ Weighed' \in Int
  <2>1. CASE c.by = "click"
    <3>1. /\ Change(f, next, "generate") = -1 /\ Change(f, next, "load_quiz") = 1
          /\ \A g \in Functions \ {f, "load_quiz"} : Change(f, next, g) = 0
      BY <2>1 DEF Change
    <3> QED BY <1>1, <3>1, WeighedChange DEF Functions
  <2>2. CASE c.by # "click"
    <3>1. /\ Change(f, next, "generate") = -1
          /\ \A g \in Functions \ {f} : Change(f, next, g) = 0
      BY <2>2 DEF Change
    <3> QED BY <1>1, <3>1, WeighedChange DEF Functions
  <2> QED BY <2>1, <2>2
<1>3. One(session.trigger)' = 0
  BY DEF FinishGenerate, TypeOK, One
<1>4. One(session.trigger)' + One(page.again)' + One(Started)
        < One(session.trigger) + One(page.again) + One(Started)' + 3
  BY <1>3, Marks
<1> QED BY <1>2, <1>4, LessWork

\* Left alone, the tab comes to rest: the work of the server is a natural number
\* that every one of its steps makes less, and when none is left nothing waits
\* (the events of the completion tab and the functions that follow them by .then).
THEOREM TabComesToRest ==
  Spec => [](Work \in Nat /\ (Work = 0 => Quiet)) /\ NearerToRest
<1>1. PanelInv => Work \in Nat /\ (Work = 0 => Quiet)
  BY WorkIsLeft DEF PanelInv
<1>2. PanelInv /\ [Next]_vars => [Server => Work' < Work]_vars
  <2> SUFFICES ASSUME PanelInv, Server PROVE Work' < Work
    OBVIOUS
  <2>1. TypeOK
    BY DEF PanelInv
  <2> QED BY <2>1, SelectedLess, LoadCompletionLess, ResetLess, LoadQuizLess,
             SubmitFullLess, SubmitFailsLess, GiveUpLess, StartGenerateLess,
             TickLess, FinishGenerateLess, GradeLess, ExplainLess, ReviewLess DEF Server
<1> QED BY <1>1, <1>2, PanelAlways, PTL DEF Spec, NearerToRest

=============================================================================
