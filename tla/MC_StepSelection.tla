-------------------------- MODULE MC_StepSelection --------------------------
(* TLC instance of StepSelection: two base names, so "step-a", "a",        *)
(* "step-b" and "b"; one init container, two containers, allow-lists of    *)
(* one name.                                                               *)
EXTENDS StepSelection

MC_Base == {"a", "b"}
=============================================================================
