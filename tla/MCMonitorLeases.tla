---------------------------- MODULE MCMonitorLeases ----------------------------
(* Instances of MonitorLeases small enough for TLC.                         *)
EXTENDS MonitorLeases, TLC

CONSTANTS w1, w2, c1, s1, s2, s3

\* Workers and the sessions of one kind are interchangeable (safety runs only).
Symmetry ==
    Permutations(Workers) \cup Permutations(LiveSessions)
===============================================================================
