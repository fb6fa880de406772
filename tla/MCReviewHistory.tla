-------------------------- MODULE MCReviewHistory ---------------------------
(* Instances of ReviewHistory for TLC: few problems and a tiny quota.      *)
EXTENDS ReviewHistory, TLC

CONSTANTS sum, sort

TwoProblems == {sum, sort}
Symmetry == Permutations(TwoProblems)

FourLanes == {"quiz_attempt", "code_review", "ai_quiz_set", "ai_quiz_attempt"}

\* The last does not fit a quota of five.
SizesOfFive == {2, 6}
=============================================================================
