--------------------------- MODULE MCTutorSession ---------------------------
(* Small instances of TutorSession. *)
EXTENDS TutorSession
=============================================================================
