--------------------------- MODULE MC_TaskReader ---------------------------
(* TaskReader on a small instance: two pod names, so one retry and the     *)
(* current pod; two steps per pod, two lines and one error per container.  *)
EXTENDS TaskReader

CONSTANTS p1, p2, none

MC_Pod == {p1, p2}

=============================================================================
