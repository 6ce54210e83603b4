------------------------------- MODULE Monitor -------------------------------
(***************************************************************************)
(* The monitor service of BOINC_Client-Manager_Bundle (client/Monitor.java)*)
(* with the setup status it publishes (client/ClientStatus.java) and the   *)
(* part of StatusActivity that shows it and lets the user react.           *)
(*                                                                         *)
(* The service runs AsyncTasks: ClientMonitorAsync (Monitors), which finds *)
(* or launches the native client, connects, and then refreshes the status  *)
(* in a loop; ProjectAttachAsync (Logins); ShutdownClientAsync.  Their     *)
(* background parts run in parallel on a thread pool, onPreExecute and     *)
(* onPostExecute on the main thread, like the activity.  They share the    *)
(* service's fields, the RpcClient, and the ClientStatus singleton.        *)
(*                                                                         *)
(* An RPC is one step here: it may succeed when the connection leads to a  *)
(* client that is there and has authorized it, and may always fail (module *)
(* RpcClient has the steps).  What the task does with the outcome is a     *)
(* later step: by then another task may have replaced the connection or    *)
(* written the status.  Setting setupStatus and firing the broadcast are   *)
(* one step, as the receiver reads the status when it runs.  An uncaught   *)
(* exception ends the app's process, as the system may at any time; the    *)
(* native client survives that.  The activity is the last layout it has    *)
(* loaded; that it loads another whenever there is one is module           *)
(* StatusView's subject, here it just may.                                 *)
(***************************************************************************)
EXTENDS Naturals, FiniteSets

CONSTANTS
  Monitors,     \* ClientMonitorAsync instances at a time (bound)
  Logins,       \* ProjectAttachAsync instances at a time (bound)
  Processes,    \* native processes at a time (bound)
  MaxAttempts,  \* max in startUp
  MaxPolls,     \* maxLoops in lookupCredentials and attachProject
  Autostart,    \* the user's autostart preference
  DebugTab,     \* whether the app is built with the debug tab
  None

ASSUME MonitorAssumption ==
  /\ IsFiniteSet(Monitors) /\ IsFiniteSet(Logins)
  /\ MaxAttempts \in Nat /\ MaxPolls \in Nat \ {0}
  /\ Autostart \in BOOLEAN /\ DebugTab \in BOOLEAN
  /\ None \notin Processes

VARIABLES
  booting,       \* the intent of the BootReceiver is still to come
  started,       \* the service has started a monitor since it was created
  monitorActive,
  setupStatus,
  mpc,           \* per monitor task: its next step
  attempt,       \* ... the connection attempt of startUp, 0 before setupClient
  clientStarted, \* ... whether it has launched a client
  lpc,           \* per login task: its next step
  poll,          \* ... polls made
  quitter,       \* the ShutdownClientAsync
  conn,          \* the process the RpcClient's socket leads to
  authorized,    \* and whether it is authorized there
  clientProcess, \* the Process last launched by this service
  view,          \* the setup status whose layout StatusActivity has loaded
  process,       \* state of each native process
  attaching,     \* the client has accepted a project_attach
  attached       \* the client is attached to the project (kept on disk)

mVars    == <<mpc, attempt, clientStarted>>
lVars    == <<lpc, poll>>
connVars == <<conn, authorized>>
uiVars   == <<setupStatus, view>>
service  == <<started, monitorActive>>
native   == <<process, attaching, attached>>
vars     == <<booting, service, uiVars, mVars, lVars, quitter, connVars,
              clientProcess, native>>

\* Setup status values (ClientStatus.java:52-56).
Launching == 0
Available == 1
Failed    == 2
LoggedOut == 3

MonitorSteps == {"loop", "startUp", "connect", "authorize", "shutdown", "destroy",
                 "install", "run", "checkLogin", "available", "loggedOut",
                 "giveUp", "refresh", "post"}
LoginSteps   == {"lookup", "lookupPoll", "attach", "attachPoll", "attached",
                 "succeeded", "failed"}

\* Type invariant: the fields of the service, its tasks and the native
\* processes stay in their ranges.
TypeOK ==
  /\ booting \in BOOLEAN /\ started \in BOOLEAN /\ monitorActive \in BOOLEAN
  /\ setupStatus \in Launching .. LoggedOut
  /\ mpc \in [Monitors -> MonitorSteps \cup {"none"}]
  /\ attempt \in [Monitors -> 0 .. MaxAttempts + 1]
  /\ clientStarted \in [Monitors -> BOOLEAN]
  /\ lpc \in [Logins -> LoginSteps \cup {"none"}]
  /\ poll \in [Logins -> 0 .. MaxPolls]
  /\ quitter \in {"none", "quit", "destroy"}
  /\ conn \in Processes \cup {None} /\ authorized \in BOOLEAN
  /\ clientProcess \in Processes \cup {None}
  /\ view \in Launching .. LoggedOut
  /\ process \in [Processes -> {"none", "starting", "serving", "leaving"}]
  /\ attaching \in BOOLEAN /\ attached \in BOOLEAN

Init ==
  /\ started = FALSE /\ monitorActive = FALSE
  /\ setupStatus = Launching /\ view = Launching
  /\ mpc = [m \in Monitors |-> "none"]
  /\ attempt = [m \in Monitors |-> 0]
  /\ clientStarted = [m \in Monitors |-> FALSE]
  /\ lpc = [l \in Logins |-> "none"]
  /\ poll = [l \in Logins |-> 0]
  /\ quitter = "none"
  /\ conn = None /\ authorized = FALSE /\ clientProcess = None
  /\ booting = TRUE
  /\ process = [p \in Processes |-> "none"]
  /\ attaching = FALSE /\ attached \in BOOLEAN

-----------------------------------------------------------------------------
(* The app's process and its entry points *)

\* The system kills the app's process, or an exception does.
AppDies ==
  /\ started' = FALSE /\ monitorActive' = FALSE
  /\ setupStatus' = Launching /\ view' = Launching
  /\ mpc' = [m \in Monitors |-> "none"]
  /\ attempt' = [m \in Monitors |-> 0]
  /\ clientStarted' = [m \in Monitors |-> FALSE]
  /\ lpc' = [l \in Logins |-> "none"]
  /\ poll' = [l \in Logins |-> 0]
  /\ quitter' = "none"
  /\ conn' = None /\ authorized' = FALSE /\ clientProcess' = None
  /\ UNCHANGED <<booting, native>>

\* Bound: a login, when it succeeds, finds a monitor task that is not in use.
HasRoom ==
  Cardinality({l \in Logins : lpc[l] # "none"}) <
    Cardinality({m \in Monitors : mpc[m] = "none"})

\* (new ClientMonitorAsync()).execute()
ExecuteMonitor ==
  \E m \in Monitors :
    /\ mpc[m] = "none"
    /\ mpc' = [mpc EXCEPT ![m] = "loop"]
    /\ UNCHANGED <<attempt, clientStarted>>

onStartCommand(autostart) ==
  /\ HasRoom
  /\ (~autostart /\ ~started) \/ (autostart /\ Autostart)
  /\ started' = TRUE
  /\ ExecuteMonitor
  /\ UNCHANGED <<monitorActive, uiVars, lVars, quitter, connVars, clientProcess,
                 native>>

\* The user opens the app (AndroidBOINCActivity starts the service).
OpenApp == onStartCommand(FALSE) /\ UNCHANGED booting

Boot == booting /\ booting' = FALSE /\ onStartCommand(TRUE)

restartMonitor == IF monitorActive THEN UNCHANGED mVars ELSE ExecuteMonitor

-----------------------------------------------------------------------------
(* StatusActivity: what it shows, and what the user can do then *)

Publish(status) == setupStatus' = status /\ UNCHANGED view

loadLayout ==
  /\ started /\ view # setupStatus
  /\ view' = setupStatus
  /\ UNCHANGED <<booting, service, setupStatus, mVars, lVars, quitter, connVars,
                 clientProcess, native>>

\* The retry button of the error layout.
reinitClient ==
  /\ view = Failed /\ HasRoom
  /\ restartMonitor
  /\ UNCHANGED <<booting, service, uiVars, lVars, quitter, connVars,
                 clientProcess, native>>

\* The login button; onPreExecute runs within execute().
attachProject(l) ==
  /\ view = LoggedOut /\ HasRoom /\ lpc[l] = "none"
  /\ Publish(Launching)
  /\ lpc' = [lpc EXCEPT ![l] = "lookup"]
  /\ UNCHANGED <<booting, service, mVars, poll, quitter, connVars, clientProcess, native>>

\* The kill button of the debug tab.
quitClient ==
  /\ DebugTab /\ started /\ quitter = "none"
  /\ quitter' = "quit"
  /\ UNCHANGED <<booting, service, uiVars, mVars, lVars, connVars, clientProcess,
                 native>>

-----------------------------------------------------------------------------
(* The native client and the RPCs *)

Listening(p) == process[p] \in {"serving", "leaving"}

\* An RPC without, and one with authorization can be answered.
Reachable == conn # None
Answered  == Reachable /\ authorized

\* rpc.quit() has been granted.
Quitting == Answered /\ process' = [process EXCEPT ![conn] = "leaving"]

\* A socket whose other end is gone is as good as none, and an attach
\* operation is lost.
ProcessEnds(p) ==
  /\ process' = [process EXCEPT ![p] = "none"]
  /\ attaching' = (attaching /\ ~Listening(p))
  /\ conn' = IF conn = p THEN None ELSE conn
  /\ authorized' = (authorized /\ conn # p)

\* A second client on the same data directory does not get to listen.
ClientListens(p) ==
  /\ process[p] = "starting" /\ \A q \in Processes : ~Listening(q)
  /\ process' = [process EXCEPT ![p] = "serving"]
  /\ UNCHANGED <<booting, service, uiVars, mVars, lVars, quitter, connVars,
                 clientProcess, attaching, attached>>

ClientExits(p) ==
  /\ process[p] # "none"
  /\ ProcessEnds(p)
  /\ UNCHANGED <<booting, service, uiVars, mVars, lVars, quitter, clientProcess,
                 attached>>

\* The client's attach operation has come to its end.
ClientAttaches ==
  /\ attaching
  /\ attaching' = FALSE
  /\ attached' = TRUE
  /\ UNCHANGED <<booting, service, uiVars, mVars, lVars, quitter, connVars,
                 clientProcess, process>>

-----------------------------------------------------------------------------
(* ClientMonitorAsync *)

At(m, label)   == mpc[m] = label
Goto(m, label) == mpc' = [mpc EXCEPT ![m] = label]

\* Mutant of CheckConnection: the last status instead of connectionAlive().
TrustsLastStatus(m) ==
  /\ At(m, "loop")
  /\ Goto(m, IF setupStatus = Available THEN "refresh" ELSE "startUp")
  /\ UNCHANGED <<booting, service, uiVars, attempt, clientStarted, lVars, quitter,
                 connVars, clientProcess, native>>

CheckConnection(m) ==
  /\ At(m, "loop")
  /\ \/ Reachable /\ Goto(m, "refresh")
     \/ Goto(m, "startUp")
  /\ UNCHANGED <<booting, service, uiVars, attempt, clientStarted, lVars, quitter,
                 connVars, clientProcess, native>>

StartUp(m) ==
  /\ At(m, "startUp")
  /\ Publish(Launching)
  /\ Goto(m, "connect")
  /\ UNCHANGED <<booting, service, attempt, clientStarted, lVars, quitter, connVars,
                 clientProcess, native>>

\* Mutant of ConnectFailed: one attempt more (counter <= max).
OneMoreAttempt(m) ==
  \/ attempt[m] = 0 /\ Goto(m, "shutdown") /\ UNCHANGED attempt
  \/ /\ attempt[m] \in 1 .. MaxAttempts + 1
     /\ Goto(m, "connect")
     /\ attempt' = [attempt EXCEPT ![m] = @ + 1]
  \/ /\ attempt[m] > MaxAttempts + 1
     /\ Goto(m, "giveUp")
     /\ attempt' = [attempt EXCEPT ![m] = 0]

\* connectClient() returned false.
ConnectFailed(m) ==
  \/ attempt[m] = 0 /\ Goto(m, "shutdown") /\ UNCHANGED attempt
  \/ /\ attempt[m] \in 1 .. MaxAttempts
     /\ Goto(m, "connect")
     /\ attempt' = [attempt EXCEPT ![m] = @ + 1]
  \/ /\ attempt[m] > MaxAttempts
     /\ Goto(m, "giveUp")
     /\ attempt' = [attempt EXCEPT ![m] = 0]

\* open closes the connection there is, whoever uses it.
Connect(m) ==
  /\ At(m, "connect")
  /\ authorized' = FALSE
  /\ \/ \E p \in Processes :
          /\ Listening(p)
          /\ conn' = p
          /\ Goto(m, "authorize")
          /\ UNCHANGED attempt
     \/ conn' = None /\ ConnectFailed(m)
  /\ UNCHANGED <<booting, service, uiVars, clientStarted, lVars, quitter,
                 clientProcess, native>>

Authorize(m) ==
  /\ At(m, "authorize")
  /\ \/ /\ Reachable
        /\ authorized' = TRUE
        /\ Goto(m, "checkLogin")
        /\ attempt' = [attempt EXCEPT ![m] = 0]
     \/ ConnectFailed(m) /\ UNCHANGED authorized
  /\ UNCHANGED <<booting, service, uiVars, clientStarted, lVars, quitter, conn,
                 clientProcess, native>>

\* Only a client this very task has launched.
shutdownExisitingClient(m) ==
  /\ At(m, "shutdown")
  /\ \/ ~clientStarted[m] /\ Goto(m, "install") /\ UNCHANGED process
     \/ clientStarted[m] /\ Quitting /\ Goto(m, "install")
     \/ clientStarted[m] /\ Goto(m, "destroy") /\ UNCHANGED process
  /\ UNCHANGED <<booting, service, uiVars, attempt, clientStarted, lVars, quitter,
                 connVars, clientProcess, attaching, attached>>

Destroy(m) ==
  /\ At(m, "destroy")
  /\ IF clientProcess = None
       THEN AppDies
       ELSE /\ ProcessEnds(clientProcess)
            /\ Goto(m, "install")
            /\ UNCHANGED <<booting, service, uiVars, attempt, clientStarted, lVars,
                           quitter, clientProcess, attached>>

\* setupClient() failed: the status says so, the connection attempts follow.
SetupFailed(m) ==
  /\ Publish(Failed)
  /\ Goto(m, "connect")
  /\ attempt' = [attempt EXCEPT ![m] = 1]

installClient(m) ==
  /\ At(m, "install")
  /\ \/ Goto(m, "run") /\ UNCHANGED <<uiVars, attempt>>
     \/ SetupFailed(m)
  /\ UNCHANGED <<booting, service, clientStarted, lVars, quitter, connVars,
                 clientProcess, native>>

runClient(m) ==
  /\ At(m, "run")
  /\ \/ /\ \E p \in Processes :
             /\ process[p] = "none"
             /\ process' = [process EXCEPT ![p] = "starting"]
             /\ clientProcess' = p
        /\ clientStarted' = [clientStarted EXCEPT ![m] = TRUE]
        /\ Goto(m, "connect")
        /\ attempt' = [attempt EXCEPT ![m] = 1]
        /\ UNCHANGED uiVars
     \/ SetupFailed(m) /\ UNCHANGED <<clientStarted, clientProcess, process>>
  /\ UNCHANGED <<booting, service, lVars, quitter, connVars, attaching, attached>>

\* Another task uses the connection, so that its replies can be mistaken for
\* those to m.
Shared(m) ==
  (\E n \in Monitors \ {m} : mpc[n] # "none") \/ (\E l \in Logins : lpc[l] # "none")

\* verifyProjectAttach: the list of projects is empty, too, in a refusal and in
\* the reply to another task; without a reply there is null to dereference.
checkLogin(m) ==
  /\ At(m, "checkLogin")
  /\ \/ AppDies
     \/ /\ \/ Answered /\ attached /\ Goto(m, "available")
           \/ Reachable /\ (Answered => ~attached \/ Shared(m)) /\ Goto(m, "loggedOut")
        /\ UNCHANGED <<booting, service, uiVars, attempt, clientStarted, lVars,
                       quitter, connVars, clientProcess, native>>

\* What startUp says when it has come to its end.
StartUpEnds(m) ==
  /\ \/ At(m, "available") /\ Publish(Available) /\ Goto(m, "refresh")
     \/ At(m, "loggedOut") /\ Publish(LoggedOut) /\ Goto(m, "post")
     \/ At(m, "giveUp") /\ Publish(Failed) /\ Goto(m, "post")
  /\ UNCHANGED <<booting, service, attempt, clientStarted, lVars, quitter, connVars,
                 clientProcess, native>>

\* The status RPCs; what they return does not change the setup status.
Refresh(m) ==
  /\ At(m, "refresh")
  /\ Goto(m, "loop")
  /\ UNCHANGED <<booting, service, uiVars, attempt, clientStarted, lVars, quitter,
                 connVars, clientProcess, native>>

MonitorEnds(m) ==
  /\ At(m, "post")
  /\ monitorActive' = FALSE
  /\ Goto(m, "none")
  /\ clientStarted' = [clientStarted EXCEPT ![m] = FALSE]
  /\ UNCHANGED <<booting, started, uiVars, attempt, lVars, quitter, connVars,
                 clientProcess, native>>

-----------------------------------------------------------------------------
(* ProjectAttachAsync *)

LGoto(l, label) == lpc' = [lpc EXCEPT ![l] = label]

LookupAccount(l) ==
  /\ lpc[l] = "lookup"
  /\ \/ Answered /\ LGoto(l, "lookupPoll")
     \/ LGoto(l, "failed")
  /\ UNCHANGED <<booting, service, uiVars, mVars, poll, quitter, connVars,
                 clientProcess, native>>

\* error_num 0; -204, not yet; or an error, as is a null reply.
LookupPoll(l) ==
  /\ lpc[l] = "lookupPoll"
  /\ \/ Answered /\ LGoto(l, "attach") /\ poll' = [poll EXCEPT ![l] = 0]
     \/ /\ Answered /\ poll[l] + 1 < MaxPolls
        /\ poll' = [poll EXCEPT ![l] = @ + 1]
        /\ UNCHANGED lpc
     \/ LGoto(l, "failed") /\ UNCHANGED poll
  /\ UNCHANGED <<booting, service, uiVars, mVars, quitter, connVars, clientProcess,
                 native>>

\* The client may have accepted what the app takes for a failure.
ProjectAttach(l) ==
  /\ lpc[l] = "attach"
  /\ \/ Answered /\ LGoto(l, "attachPoll") /\ attaching' = TRUE
     \/ /\ LGoto(l, "failed")
        /\ attaching' \in {attaching, attaching \/ Answered}
  /\ UNCHANGED <<booting, service, uiVars, mVars, poll, quitter, connVars,
                 clientProcess, process, attached>>

\* Here a null reply is dereferenced.
AttachPoll(l) ==
  /\ lpc[l] = "attachPoll"
  /\ \/ AppDies
     \/ /\ Answered
        /\ \/ attached /\ LGoto(l, "attached") /\ UNCHANGED poll
           \/ /\ ~attached /\ poll[l] + 1 < MaxPolls
              /\ poll' = [poll EXCEPT ![l] = @ + 1]
              /\ UNCHANGED lpc
           \/ /\ ~attached /\ poll[l] + 1 >= MaxPolls
              /\ LGoto(l, "failed")
              /\ UNCHANGED poll
        /\ UNCHANGED <<booting, service, uiVars, mVars, quitter, connVars,
                       clientProcess, native>>

PublishAttached(l) ==
  /\ lpc[l] = "attached"
  /\ Publish(Available)
  /\ LGoto(l, "succeeded")
  /\ UNCHANGED <<booting, service, mVars, poll, quitter, connVars, clientProcess,
                 native>>

\* Mutants of LoginEnds: no monitor after a successful login, and no word to
\* the user after a failed one.
NoMonitorAfterLogin(l) ==
  /\ \/ lpc[l] = "succeeded" /\ UNCHANGED <<mVars, uiVars>>
     \/ lpc[l] = "failed" /\ Publish(LoggedOut) /\ UNCHANGED mVars
  /\ LGoto(l, "none")
  /\ poll' = [poll EXCEPT ![l] = 0]
  /\ UNCHANGED <<booting, service, quitter, connVars, clientProcess, native>>

SilentFailure(l) ==
  /\ \/ lpc[l] = "succeeded" /\ restartMonitor /\ UNCHANGED uiVars
     \/ lpc[l] = "failed" /\ UNCHANGED <<mVars, uiVars>>
  /\ LGoto(l, "none")
  /\ poll' = [poll EXCEPT ![l] = 0]
  /\ UNCHANGED <<booting, service, quitter, connVars, clientProcess, native>>

\* onPostExecute
LoginEnds(l) ==
  /\ \/ lpc[l] = "succeeded" /\ restartMonitor /\ UNCHANGED uiVars
     \/ lpc[l] = "failed" /\ Publish(LoggedOut) /\ UNCHANGED mVars
  /\ LGoto(l, "none")
  /\ poll' = [poll EXCEPT ![l] = 0]
  /\ UNCHANGED <<booting, service, quitter, connVars, clientProcess, native>>

-----------------------------------------------------------------------------
(* ShutdownClientAsync *)

Quit ==
  /\ quitter = "quit"
  /\ \/ Quitting /\ quitter' = "none"
     \/ quitter' = "destroy" /\ UNCHANGED process
  /\ UNCHANGED <<booting, service, uiVars, mVars, lVars, connVars, clientProcess,
                 attaching, attached>>

\* Mutant of QuitDestroy: the Process is dropped when it has been killed.
DropsProcess ==
  /\ quitter = "destroy"
  /\ IF clientProcess = None
       THEN AppDies
       ELSE /\ ProcessEnds(clientProcess)
            /\ quitter' = "none"
            /\ clientProcess' = None
            /\ UNCHANGED <<booting, service, uiVars, mVars, lVars, attached>>

QuitDestroy ==
  /\ quitter = "destroy"
  /\ IF clientProcess = None
       THEN AppDies
       ELSE /\ ProcessEnds(clientProcess)
            /\ quitter' = "none"
            /\ UNCHANGED <<booting, service, uiVars, mVars, lVars, clientProcess,
                           attached>>

-----------------------------------------------------------------------------
MonitorStep(m) ==
  \/ CheckConnection(m) \/ StartUp(m) \/ Connect(m) \/ Authorize(m)
  \/ shutdownExisitingClient(m) \/ Destroy(m) \/ installClient(m) \/ runClient(m)
  \/ checkLogin(m) \/ StartUpEnds(m) \/ Refresh(m) \/ MonitorEnds(m)

LoginStep(l) ==
  \/ LookupAccount(l) \/ LookupPoll(l) \/ ProjectAttach(l) \/ AttachPoll(l)
  \/ PublishAttached(l) \/ LoginEnds(l)

User ==
  \/ OpenApp \/ reinitClient \/ quitClient
  \/ \E l \in Logins : attachProject(l)

Next ==
  \/ \E m \in Monitors : MonitorStep(m)
  \/ \E l \in Logins : LoginStep(l)
  \/ Quit \/ QuitDestroy
  \/ User \/ Boot \/ loadLayout
  \/ AppDies
  \/ ClientAttaches
  \/ \E p \in Processes : ClientListens(p) \/ ClientExits(p)

\* Every task has a thread, every RPC a timeout, and the main thread delivers
\* what is sent to it.  Nothing is assumed of the user and the native client.
Fairness ==
  /\ \A m \in Monitors : WF_vars(MonitorStep(m))
  /\ \A l \in Logins : WF_vars(LoginStep(l))
  /\ WF_vars(Quit \/ QuitDestroy)
  /\ WF_vars(loadLayout)

Spec == Init /\ [][Next]_vars /\ Fairness

-----------------------------------------------------------------------------
(* Properties *)

Active(m)    == mpc[m] # "none"
Working(m)   == mpc[m] \notin {"none", "post"}
LoggingIn(l) == lpc[l] # "none"

\* What the user is shown as the state of the setup is somebody's business:
\* while it says "launching", a task is at work that will say something else;
\* while it says "available", a monitor task watches the client, or a login
\* that is about to start one.  Each task's last word must come after its
\* first, in whatever order the tasks write.
StatusIsAttended ==
  /\ started /\ setupStatus = Launching =>
       \/ \E m \in Monitors : Working(m)
       \/ \E l \in Logins : LoggingIn(l)
  /\ setupStatus = Available =>
       \/ \E m \in Monitors : Working(m)
       \/ \E l \in Logins : lpc[l] = "succeeded"

\* A task that believes it has launched a client has its Process to destroy:
\* the only null dereference in startUp is that of checkLogin.
LaunchedHasProcess ==
  \A m \in Monitors : Active(m) /\ clientStarted[m] => clientProcess # None

\* The user does not look at "launching" forever, as long as the app lives.
LaunchingEnds ==
  started /\ setupStatus = Launching ~> setupStatus # Launching \/ ~started

\* A client that has gone is noticed: "if connection is not working, either
\* client has not been set up yet, ... or client crashed.  in all cases
\* trigger startUp again" (Monitor.java:254).
LostClientIsNoticed ==
  setupStatus = Available /\ (\A p \in Processes : ~Listening(p))
    ~> \/ setupStatus # Available
       \/ \E p \in Processes : Listening(p)

\* "monitor is already active, launch cancelled" (Monitor.java:200).
OneMonitor == Cardinality({m \in Monitors : Active(m)}) <= 1
=============================================================================
