-------------------------- MODULE MCCodeWorkspace ---------------------------
(* Instances of CodeWorkspace for TLC: few tabs, problems and sources.     *)
EXTENDS CodeWorkspace, TLC

CONSTANTS left, right

TwoTabs == {left, right}
TwoProblems == {"sum", "sort"}
OneText == {"loop"}

Symmetry == Permutations(TwoTabs)
=============================================================================
