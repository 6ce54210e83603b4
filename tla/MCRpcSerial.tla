----------------------------- MODULE MCRpcSerial -----------------------------
(***************************************************************************)
(* RpcClient used by one thread at a time, as in BOINC_Manager, whose      *)
(* AsyncTasks run on the serial executor (targetSdkVersion 15).            *)
(***************************************************************************)
EXTENDS RpcClient

CONSTANTS t1, c1, c2

MCThreads  == {t1}
MCConns    == {c1, c2}
MCQueries  == {"get_cc_status", "get_state", "set_run_mode"}
MCLenient  == {"get_state"}
MCCommands == {"lookup_account", "set_global_prefs_override"}
MCSimple   == {"set_run_mode", "lookup_account"}
MCUnread   == {"set_global_prefs_override"}
MCCalls    == [t \in MCThreads |-> Ops]
=============================================================================
