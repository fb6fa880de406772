-------------------------- MODULE MCCompletionPanel --------------------------
(* A small instance of CompletionPanel.                                     *)
EXTENDS CompletionPanel
=============================================================================
