--------------------------- MODULE MC_LiveReader ---------------------------
(* TLC instance of LiveReader: a TaskRun with up to two retries, pods of    *)
(* one step, or of two for the ordering run.                                *)
EXTENDS LiveReader

MC_Retries == 2
MC_NSteps == 1

\* Two steps, so that a pod's records can come in the wrong order.
MC_NStepsOrder == 2
=============================================================================
