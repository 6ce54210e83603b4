------------------------------ MODULE RpcService ------------------------------
(***************************************************************************)
(* What a caller of the GUI RPC methods may rely on: the request is        *)
(* answered at most once, while the call is in progress, and the call      *)
(* succeeds only if it was answered, or is one of those that do not look   *)
(* (Unread).  Once a call has timed out its answer may come late, and any  *)
(* later call succeed with it, until the connection is closed.             *)
(* RpcClient implements it for one thread.                                 *)
(***************************************************************************)
CONSTANTS Threads, Requests, Unread, None

VARIABLES
  pending,   \* per thread: the request in progress, or None
  answered,  \* per thread: the core client has answered it
  late,      \* an answer that was given up may still come
  result     \* per thread: the request of the last method that succeeded

vars == <<pending, answered, late, result>>

NoResult == [req |-> "none", ok |-> FALSE]

Init ==
  /\ pending = [t \in Threads |-> None]
  /\ answered = [t \in Threads |-> FALSE]
  /\ late = FALSE
  /\ result = [t \in Threads |-> NoResult]

Invoke(t) ==
  /\ pending[t] = None
  /\ \E req \in Requests : pending' = [pending EXCEPT ![t] = req]
  /\ result' = [result EXCEPT ![t] = NoResult]
  /\ UNCHANGED <<answered, late>>

Answer(t) ==
  /\ pending[t] # None /\ ~answered[t]
  /\ answered' = [answered EXCEPT ![t] = TRUE]
  /\ UNCHANGED <<pending, late, result>>

\* The first phase of authorize: its answer is used, nothing is returned yet.
Proceed(t) ==
  /\ pending[t] = "auth1"
  /\ answered[t] \/ late
  /\ pending' = [pending EXCEPT ![t] = None]
  /\ answered' = [answered EXCEPT ![t] = FALSE]
  /\ UNCHANGED <<late, result>>

Return(t) ==
  /\ pending[t] # None
  /\ \E ok \in BOOLEAN :
       /\ ok => answered[t] \/ pending[t] \in Unread \/ late
       /\ result' = [result EXCEPT ![t] =
            IF ok THEN [req |-> pending[t], ok |-> TRUE] ELSE NoResult]
  /\ pending' = [pending EXCEPT ![t] = None]
  /\ answered' = [answered EXCEPT ![t] = FALSE]
  /\ UNCHANGED late

\* The call fails, and its answer is given up before it has come.
TimeOut(t) ==
  /\ pending[t] # None /\ ~answered[t]
  /\ result' = [result EXCEPT ![t] = NoResult]
  /\ pending' = [pending EXCEPT ![t] = None]
  /\ late' = TRUE
  /\ UNCHANGED answered

\* A method that exchanges nothing: open, close, and those that find no
\* connection.  It succeeds without an answer only if it has no request.
ReturnAtOnce(t) ==
  /\ pending[t] = None
  /\ \E ok \in BOOLEAN :
       result' = [result EXCEPT ![t] = [req |-> "none", ok |-> ok]]
  /\ UNCHANGED <<pending, answered, late>>

\* Closing the connection: what was given up does not come any more.
Disconnect(t) ==
  /\ pending[t] = None
  /\ late' = FALSE
  /\ UNCHANGED <<pending, answered, result>>

Next == \E t \in Threads : Invoke(t) \/ Answer(t) \/ Proceed(t) \/ Return(t)
                             \/ TimeOut(t) \/ ReturnAtOnce(t) \/ Disconnect(t)

Spec == Init /\ [][Next]_vars
=============================================================================
