------------------------- MODULE MCProgressPipeline -------------------------
(* Instances of ProgressPipeline for TLC: one profile, few executions.     *)
EXTENDS ProgressPipeline

OneProblem == {"sum"}
TwoProblems == {"sum", "sort"}
Accepted == {"AC", "WA"}

AllHandlers == {"sample", "full", "hint", "give_up", "create"}
SubmitHandlers == {"sample", "full"}
SubmitAndHint == {"sample", "full", "hint"}
=============================================================================
