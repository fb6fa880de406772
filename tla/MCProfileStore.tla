--------------------------- MODULE MCProfileStore ----------------------------
(* Instances of ProfileStore for TLC: few names, problems and clicks.      *)
EXTENDS ProfileStore

TwoNames == {"aki", "yu"}
TwoProviders == {"openai", "gemma"}
TwoModes == {"adaptive", "fixed"}
TwoProblems == {1, 2}
SecondIsL0 == {2}

AllHandlers == {"create", "profile", "problem", "provider", "mode"}
=============================================================================
