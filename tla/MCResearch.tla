----------------------------- MODULE MCResearch -----------------------------
(* A small instance of Research.                                            *)
EXTENDS Research, TLC

\* No file yet, or one that is as full as it may be.
EmptyOrFull == {<<>>, <<1, 2>>}

ProblemSymmetry == Permutations(Problems)
=============================================================================
