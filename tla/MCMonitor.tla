------------------------------ MODULE MCMonitor ------------------------------
(***************************************************************************)
(* Monitor for TLC: two monitor tasks at a time, and one login.            *)
(***************************************************************************)
EXTENDS Monitor, TLC

CONSTANTS m1, m2, l1, p1, p2

MCMonitors  == {m1, m2}
MCLogins    == {l1}
MCProcesses == {p1, p2}
MCProcess   == {p1}
MCSymmetry  == Permutations(MCMonitors) \cup Permutations(MCProcesses)
=============================================================================
