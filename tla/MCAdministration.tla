--------------------------- MODULE MCAdministration ---------------------------
(***************************************************************************)
(* Administration with two administrators, two providers, three models and *)
(* one task besides the default.                                           *)
(***************************************************************************)
EXTENDS Administration, TLC

CONSTANTS ann, bob, claude, gemini, haiku, sonnet, flash, chat, dflt, c1

Two == {ann, bob}
Both == {claude, gemini}
Three == {haiku, sonnet, flash}
Offered == [m \in Three |-> IF m = flash THEN gemini ELSE claude]
TheTasks == {chat, dflt}

\* The rows of one provider: what is left once the others are deleted.
OneProvider == [k \in Both \X TheTasks |-> IF k[1] = claude THEN haiku ELSE None]
=============================================================================
