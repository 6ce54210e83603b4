------------------------------- MODULE MCPrefs -------------------------------
(***************************************************************************)
(* Prefs for TLC: a check box and two dialogs, one of which writes the     *)
(* field of the other.                                                     *)
(***************************************************************************)
EXTENDS Prefs

CONSTANTS w1, w2, o1, o2, o3

MCItems   == {"run_on_batteries", "disk_max_used_gb", "disk_min_free_gb"}
MCBoxes   == {"run_on_batteries"}
MCValues  == {0, 1}
MCZero    == [field \in Fields |-> 0]
MCWriters == {w1, w2}
\* One with ClientStatus, one with the refresh, and an older one that a task
\* or the activity still has.
MCObjects == {o1, o2, o3}
=============================================================================
