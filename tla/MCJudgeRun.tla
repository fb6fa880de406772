----------------------------- MODULE MCJudgeRun -----------------------------
(* A small instance of JudgeRun.                                            *)
EXTENDS JudgeRun
=============================================================================
