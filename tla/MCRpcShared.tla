----------------------------- MODULE MCRpcShared -----------------------------
(***************************************************************************)
(* RpcClient shared by two tasks, as in BOINC_Client-Manager_Bundle, whose *)
(* AsyncTasks run on a thread pool: a monitor task, which connects, and a  *)
(* task of the user's.                                                     *)
(***************************************************************************)
EXTENDS RpcClient

CONSTANTS monitor, user, c1, c2

MCThreads  == {monitor, user}
MCConns    == {c1, c2}
MCQueries  == {"get_cc_status", "get_state"}
MCLenient  == {"get_state"}
MCCommands == {"lookup_account"}
MCSimple   == {"lookup_account"}
MCUnread   == {}

CallsOf(m, u) == [t \in MCThreads |-> IF t = monitor THEN m ELSE u]

\* The monitor connects while a task of the user's makes a query.
MCConnect  == CallsOf({"open", "authorize"}, {"get_cc_status"})
\* The monitor connects, the user logs in.
MCLogin    == CallsOf({"open", "authorize"}, {"lookup_account"})
\* The monitor refreshes its data while the user logs in.
MCRefresh  == CallsOf({"open", "connectionAlive", "get_state"}, {"lookup_account"})
=============================================================================
