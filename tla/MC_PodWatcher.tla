--------------------------- MODULE MC_PodWatcher ---------------------------
(* PodWatcher with a small number of pod notifications for TLC.            *)
EXTENDS PodWatcher

\* Three notifications: a verdict, one more notification racing the return
\* of Wait, and one before them.
MC_MaxEvents == 3
=============================================================================
