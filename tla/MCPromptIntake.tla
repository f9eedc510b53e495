--------------------------- MODULE MCPromptIntake ---------------------------
(* An instance of PromptIntake for TLC: one prompt. *)
EXTENDS PromptIntake
=============================================================================
