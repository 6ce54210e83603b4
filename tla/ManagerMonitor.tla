--------------------------- MODULE ManagerMonitor ---------------------------
(***************************************************************************)
(* The Manager package (BOINC_Manager, ClientStatusMonitor.java): its      *)
(* service installs the client package if it is missing, binds to the      *)
(* ClientService of that package, takes the RPC key from it, connects to   *)
(* the native client and watches it.  The module composes the service with *)
(* ClientService: the binding, the binder and its death, the key file and  *)
(* the native process are shared.                                          *)
(*                                                                         *)
(* Callbacks run on the main thread of the Manager.  The package targets   *)
(* SDK 15, where AsyncTask.execute hands tasks to one serial executor:     *)
(* `tasks' is its queue, the head is the task that runs in the background. *)
(* An exchange with the native client is one step that may fail at any     *)
(* time; module RpcClient has its parts.                                   *)
(*                                                                         *)
(* initRemoteClientService publishes status 4 and replaces it by 0 within  *)
(* one callback, before a receiver on the main thread can read it, so 4 is *)
(* not a state of its own.                                                 *)
(***************************************************************************)
EXTENDS ClientService, Sequences

CONSTANTS
    MaxAttempts,    \* setup_connection_attempts
    MaxTasks        \* bound: tasks and results there are when an activity
                    \* adds a task

ASSUME AttemptsAssumption == MaxAttempts \in Nat
ASSUME TasksAssumption == MaxTasks \in Nat \ {0}

VARIABLES
    created,         \* the service of the Manager exists
    setupStatus,     \* clientStatus.setupStatus
    mIClientService, \* null, the live binder, or one whose process has ended
    monitorStarted,  \* field
    tasks,           \* queue of the serial executor
    pc,              \* where the task at the head is
    attempts,        \* counter of connectClient
    loginResults,    \* onPostExecutes of ProjectAttachAsync that are to run
    rpc,             \* the connection: none, open, authorized
    receiver,        \* clientInstalledReceiver is registered
    added,           \* PACKAGE_ADDED is on its way to it
    installer,       \* the system's installer asks the user
    attached         \* the native client is attached to the project

monitorVars ==
    <<created, setupStatus, mIClientService, monitorStarted, tasks, pc,
      attempts, loginResults, rpc, receiver, added>>
vars == <<serviceVars, monitorVars, installer, attached>>

Tasks == {"Monitor", "Download", "Attach", "Call"}
Results == {"success", "failure"}
MonitorPlaces == {"start", "connect", "giveUp", "authorize", "login",
                  "available", "loggedOut", "refresh"}
AttachPlaces == {"start", "attach", "poll", "attached"}

TypeOK ==
    /\ ServiceTypeOK
    /\ created \in BOOLEAN
    /\ setupStatus \in 0 .. 3
    /\ mIClientService \in {"null", "live", "dead"}
    /\ monitorStarted \in BOOLEAN
    /\ tasks \in Seq(Tasks)
    /\ pc \in MonitorPlaces \cup AttachPlaces
    /\ attempts \in 0 .. MaxAttempts
    /\ loginResults \in Seq(Results)
    /\ rpc \in {"none", "open", "authorized"}
    /\ receiver \in BOOLEAN
    /\ added \in BOOLEAN
    /\ installer \in BOOLEAN
    /\ attached \in BOOLEAN

Head_is(task) == created /\ tasks # <<>> /\ Head(tasks) = task

-----------------------------------------------------------------------------
(* The service of the Manager *)

MonitorReset ==
    /\ mIClientService' = "null"
    /\ monitorStarted' = FALSE
    /\ pc' = "start"
    /\ attempts' = 0
    /\ loginResults' = <<>>
    /\ rpc' = "none"
    /\ receiver' = FALSE
    /\ added' = FALSE

Init ==
    /\ ServiceInit
    /\ created = FALSE
    /\ setupStatus = 0
    /\ mIClientService = "null"
    /\ monitorStarted = FALSE
    /\ tasks = <<>>
    /\ pc = "start"
    /\ attempts = 0
    /\ loginResults = <<>>
    /\ rpc = "none"
    /\ receiver = FALSE
    /\ added = FALSE
    /\ installer = FALSE
    /\ attached = FALSE

(* Binds if the package is there (bindService does nothing more to a       *)
(* connection that is bound), downloads it otherwise.                      *)
initRemoteClientService(queue) ==
    /\ setupStatus' = 0
    /\ \/ /\ Bind
          /\ tasks' = queue
       \/ /\ ~installed
          /\ tasks' = Append(queue, "Download")
          /\ UNCHANGED bound

(* InitialActivity starts the service and binds to it, or the system       *)
(* starts it again (START_STICKY): onCreate.                               *)
bindMonitorService ==
    /\ ~created
    /\ created' = TRUE
    /\ MonitorReset
    /\ initRemoteClientService(<<>>)
    /\ UNCHANGED <<installed, svc, fields, files, native, installer, attached>>

(* The process of the Manager ends: fields, static ones, tasks and         *)
(* registered receivers are lost, and its binding with them.               *)
ProcessEnds ==
    /\ created' = FALSE
    /\ setupStatus' = 0
    /\ tasks' = <<>>
    /\ MonitorReset
    /\ Unbind
    /\ UNCHANGED <<installed, svc, fields, files, native, installer, attached>>

ManagerDies == created /\ ProcessEnds

(* The remote ClientService has answered the binding with its interface.   *)
onServiceConnected ==
    /\ created /\ bound
    /\ binder = "given"
    /\ mIClientService = "null"
    /\ mIClientService' = "live"
    /\ monitorStarted' = TRUE
    /\ tasks' = IF monitorStarted THEN tasks ELSE Append(tasks, "Monitor")
    /\ UNCHANGED <<serviceVars, created, setupStatus, pc, attempts,
                   loginResults, rpc, receiver, added, installer, attached>>

(* The same callback with null, as ClientService.onBind expects it to be   *)
(* called; Android may leave the callback out.                             *)
NullConnected ==
    /\ created /\ bound
    /\ binder = "null"
    /\ mIClientService = "null"
    /\ setupStatus' = 2
    /\ UNCHANGED <<serviceVars, created, mIClientService, monitorStarted,
                   tasks, pc, attempts, loginResults, rpc, receiver, added,
                   installer, attached>>

onServiceDisconnected ==
    /\ created
    /\ mIClientService = "dead"
    /\ mIClientService' = "null"
    /\ UNCHANGED <<serviceVars, created, setupStatus, monitorStarted, tasks,
                   pc, attempts, loginResults, rpc, receiver, added,
                   installer, attached>>

(* PACKAGE_ADDED for the client's package starts the initialization anew. *)
clientInstalledReceiver ==
    /\ created /\ added
    /\ added' = FALSE
    /\ initRemoteClientService(tasks)
    /\ UNCHANGED <<installed, svc, fields, files, native, created,
                   mIClientService, monitorStarted, pc, attempts, loginResults,
                   rpc, receiver, installer, attached>>

-----------------------------------------------------------------------------
(* Operations of LocalBinder.getService for a bound activity *)

Execute(task) ==
    /\ created
    /\ Len(tasks) + Len(loginResults) < MaxTasks
    /\ tasks' = Append(tasks, task)
    /\ UNCHANGED <<serviceVars, created, mIClientService, monitorStarted, pc,
                   attempts, loginResults, rpc, receiver, added, installer,
                   attached>>

(* onPreExecute of ProjectAttachAsync runs at once. *)
attachProject ==
    /\ Execute("Attach")
    /\ setupStatus' = 0

(* It never cancels, since monitorActive is never set. *)
restartMonitor ==
    /\ Execute("Monitor")
    /\ UNCHANGED setupStatus

downloadAndInstallClient ==
    /\ Execute("Download")
    /\ setupStatus' = 0

(* quitClient, setRunMode and setPrefs *)
clientCall ==
    /\ Execute("Call")
    /\ UNCHANGED setupStatus

-----------------------------------------------------------------------------
(* The serial executor *)

StepTo(place) ==
    /\ pc' = place
    /\ UNCHANGED <<serviceVars, created, mIClientService, monitorStarted,
                   tasks, receiver, added, installer>>

(* The task returns and the executor takes the next one. *)
TaskReturns ==
    /\ tasks' = Tail(tasks)
    /\ pc' = "start"
    /\ attempts' = 0
    /\ UNCHANGED <<serviceVars, created, mIClientService, monitorStarted,
                   added, attached>>

Returns == TaskReturns /\ UNCHANGED loginResults

(* A login's result goes to onPostExecute. *)
LoginReturns(result) ==
    /\ TaskReturns
    /\ loginResults' = Append(loginResults, result)

(* A null result is dereferenced in the background: the process ends. *)
NullPointerException == ProcessEnds

(* DownloadAndInstallClientApp without storage or network *)
DownloadFails ==
    /\ Head_is("Download")
    /\ Returns
    /\ UNCHANGED <<setupStatus, rpc, receiver, installer>>

(* It registers the receiver and opens the installer. *)
Downloaded ==
    /\ Head_is("Download")
    /\ receiver' = TRUE
    /\ installer' = TRUE
    /\ Returns
    /\ UNCHANGED <<setupStatus, rpc>>

(* Writing the run mode or the preferences, or quitting: one exchange.     *)
(* The native client may exit at any time anyway.                          *)
CallReturns ==
    /\ Head_is("Call")
    /\ Returns
    /\ UNCHANGED <<setupStatus, rpc, receiver, installer>>

-----------------------------------------------------------------------------
(* ClientMonitorAsync *)

Monitoring(place) == Head_is("Monitor") /\ pc = place

(* Faulty variant: an available client is not asked. *)
TrustsLastStatus ==
    /\ Monitoring("start")
    /\ \/ (rpc # "none" \/ setupStatus = 1) /\ StepTo("refresh")
       \/ setupStatus # 1 /\ StepTo("connect")
    /\ UNCHANGED <<setupStatus, attempts, loginResults, rpc, attached>>

(* The loop asks connectionAlive; false may also be a lost reply. *)
CheckConnection ==
    /\ Monitoring("start")
    /\ \/ rpc # "none" /\ StepTo("refresh")
       \/ StepTo("connect")
    /\ UNCHANGED <<setupStatus, attempts, loginResults, rpc, attached>>

(* rpc.open drops the old connection before it makes a new one. *)
Connected ==
    /\ Monitoring("connect")
    /\ listening
    /\ rpc' = "open"
    /\ attempts' = 0
    /\ StepTo("authorize")
    /\ UNCHANGED <<setupStatus, loginResults, attached>>

(* Faulty variant: the attempt after the last one is counted too. *)
OneMoreAttempt ==
    /\ Monitoring("connect")
    /\ attempts <= MaxAttempts
    /\ rpc' = "none"
    /\ attempts' = attempts + 1
    /\ StepTo("connect")
    /\ UNCHANGED <<setupStatus, loginResults, attached>>

ConnectFails ==
    /\ Monitoring("connect")
    /\ attempts < MaxAttempts
    /\ rpc' = "none"
    /\ attempts' = attempts + 1
    /\ StepTo("connect")
    /\ UNCHANGED <<setupStatus, loginResults, attached>>

LastConnectFails ==
    /\ Monitoring("connect")
    /\ attempts = MaxAttempts
    /\ rpc' = "none"
    /\ StepTo("giveUp")
    /\ UNCHANGED <<setupStatus, attempts, loginResults, attached>>

(* The key comes from the remote service: null if there is none, and empty *)
(* if the binder is null or its process has ended.                         *)
AuthKey == IF mIClientService = "live" THEN readAuthKey ELSE "empty"

Authorized ==
    /\ Monitoring("authorize")
    /\ rpc = "open"
    /\ AuthKey = "written"
    /\ rpc' = "authorized"
    /\ StepTo("login")
    /\ UNCHANGED <<setupStatus, attempts, loginResults, attached>>

AuthorizeFails ==
    /\ Monitoring("authorize")
    /\ StepTo("giveUp")
    /\ UNCHANGED <<setupStatus, attempts, loginResults, rpc, attached>>

(* checkLogin asks for the projects.  What it says of the client may have  *)
(* been overtaken, by the user or by another start of the set-up, before   *)
(* startUp publishes it.                                                   *)
checkLogin ==
    /\ Monitoring("login")
    /\ rpc = "authorized"
    /\ StepTo(IF attached THEN "available" ELSE "loggedOut")
    /\ UNCHANGED <<setupStatus, attempts, loginResults, rpc, attached>>

PublishAvailable ==
    /\ Monitoring("available")
    /\ setupStatus' = 1
    /\ StepTo("refresh")
    /\ UNCHANGED <<attempts, loginResults, rpc, attached>>

(* Faulty variant: the monitor gives up without a word. *)
GivesUpSilently ==
    /\ Monitoring("giveUp") \/ Monitoring("loggedOut")
    /\ setupStatus' = IF pc = "giveUp" THEN setupStatus ELSE 3
    /\ Returns
    /\ UNCHANGED <<rpc, receiver, installer>>

(* startUp publishes a status that is the user's business, and the monitor *)
(* ends.                                                                   *)
StartUpFails ==
    /\ Monitoring("giveUp") \/ Monitoring("loggedOut")
    /\ setupStatus' = IF pc = "giveUp" THEN 2 ELSE 3
    /\ Returns
    /\ UNCHANGED <<rpc, receiver, installer>>

NoProjectList ==
    /\ Monitoring("login")
    /\ NullPointerException

(* The queries, and setClientStatus or nothing; then the loop sleeps. *)
Refresh ==
    /\ Monitoring("refresh")
    /\ StepTo("start")
    /\ UNCHANGED <<setupStatus, attempts, loginResults, rpc, attached>>

-----------------------------------------------------------------------------
(* ProjectAttachAsync *)

Attaching(place) == Head_is("Attach") /\ pc = place

(* lookupCredentials has got the authenticator, or no usable reply. *)
LookupAccount ==
    /\ Attaching("start")
    /\ \/ /\ rpc = "authorized"
          /\ StepTo("attach")
          /\ UNCHANGED <<attempts, loginResults, attached>>
       \/ /\ LoginReturns("failure")
          /\ UNCHANGED <<receiver, installer>>
    /\ UNCHANGED <<setupStatus, rpc>>

ProjectAttach ==
    /\ Attaching("attach")
    /\ \/ /\ rpc = "authorized"
          /\ StepTo("poll")
          /\ UNCHANGED <<attempts, loginResults, attached>>
       \/ /\ LoginReturns("failure")
          /\ UNCHANGED <<receiver, installer>>
    /\ UNCHANGED <<setupStatus, rpc>>

(* A poll says that the client is attached. *)
Attached ==
    /\ Attaching("poll")
    /\ rpc = "authorized" /\ attached
    /\ StepTo("attached")
    /\ UNCHANGED <<setupStatus, attempts, loginResults, rpc, attached>>

PublishAttached ==
    /\ Attaching("attached")
    /\ setupStatus' = 1
    /\ LoginReturns("success")
    /\ UNCHANGED <<rpc, receiver, installer>>

(* Every poll has said something else. *)
PollsGivenUp ==
    /\ Attaching("poll")
    /\ rpc = "authorized"
    /\ LoginReturns("failure")
    /\ UNCHANGED <<setupStatus, rpc, receiver, installer>>

NoPollReply ==
    /\ Attaching("poll")
    /\ NullPointerException

(* Faulty variants: a login that succeeds does not restart the monitor, or   *)
(* one that fails is not told of.                                          *)
NoMonitorAfterLogin ==
    /\ created
    /\ loginResults # <<>>
    /\ loginResults' = Tail(loginResults)
    /\ IF Head(loginResults) = "success"
         THEN UNCHANGED <<tasks, setupStatus>>
         ELSE setupStatus' = 3 /\ UNCHANGED tasks
    /\ UNCHANGED <<serviceVars, created, mIClientService, monitorStarted, pc,
                   attempts, rpc, receiver, added, installer, attached>>

SilentFailure ==
    /\ created
    /\ loginResults # <<>>
    /\ loginResults' = Tail(loginResults)
    /\ IF Head(loginResults) = "success"
         THEN tasks' = Append(tasks, "Monitor") /\ UNCHANGED setupStatus
         ELSE UNCHANGED <<tasks, setupStatus>>
    /\ UNCHANGED <<serviceVars, created, mIClientService, monitorStarted, pc,
                   attempts, rpc, receiver, added, installer, attached>>

(* onPostExecute, on the main thread: restartMonitor, or the status that    *)
(* asks the user to log in.                                                *)
LoginEnds ==
    /\ created
    /\ loginResults # <<>>
    /\ loginResults' = Tail(loginResults)
    /\ IF Head(loginResults) = "success"
         THEN tasks' = Append(tasks, "Monitor") /\ UNCHANGED setupStatus
         ELSE setupStatus' = 3 /\ UNCHANGED tasks
    /\ UNCHANGED <<serviceVars, created, mIClientService, monitorStarted, pc,
                   attempts, rpc, receiver, added, installer, attached>>

-----------------------------------------------------------------------------
(* The other side *)

Remote ==
    UNCHANGED <<created, setupStatus, monitorStarted, tasks, pc, attempts,
                loginResults, receiver>>

BinderDies ==
    mIClientService' =
        IF mIClientService = "live" THEN "dead" ELSE mIClientService

RemoteStep ==
    /\ ServiceStep \/ NativeStep
    /\ Remote
    /\ UNCHANGED <<mIClientService, rpc, added, installer, attached>>

(* A connection ends with the process at its other end. *)
ClientExits ==
    /\ ListeningExits
    /\ rpc' = "none"
    /\ Remote
    /\ UNCHANGED <<mIClientService, added, installer, attached>>

(* The client completes an attach that has been asked for. *)
ClientAttaches ==
    /\ Attaching("poll")
    /\ listening
    /\ attached' = TRUE
    /\ UNCHANGED <<serviceVars, monitorVars, installer>>

RemoteDies ==
    /\ KillService
    /\ BinderDies
    /\ Remote
    /\ UNCHANGED <<rpc, added, installer, attached>>

(* The user accepts the installation, or the package is updated otherwise. *)
PackageAdded ==
    /\ installer \/ installed
    /\ InstallPackage
    /\ installer' = FALSE
    /\ added' = (created /\ receiver)
    /\ BinderDies
    /\ Remote
    /\ UNCHANGED <<rpc, attached>>

UserCancels ==
    /\ installer
    /\ installer' = FALSE
    /\ UNCHANGED <<serviceVars, monitorVars, attached>>

DeviceRestarts ==
    /\ Boot
    /\ created' = FALSE
    /\ setupStatus' = 0
    /\ tasks' = <<>>
    /\ MonitorReset
    /\ installer' = FALSE
    /\ UNCHANGED attached

-----------------------------------------------------------------------------
MonitorTask ==
    \/ CheckConnection
    \/ Connected \/ ConnectFails \/ LastConnectFails
    \/ Authorized \/ AuthorizeFails
    \/ checkLogin \/ NoProjectList
    \/ PublishAvailable \/ StartUpFails
    \/ Refresh

AttachTask ==
    \/ LookupAccount \/ ProjectAttach
    \/ Attached \/ PollsGivenUp \/ NoPollReply
    \/ PublishAttached

RunTask ==
    \/ DownloadFails \/ Downloaded
    \/ CallReturns
    \/ MonitorTask
    \/ AttachTask

Callbacks ==
    \/ onServiceConnected \/ NullConnected \/ onServiceDisconnected
    \/ clientInstalledReceiver
    \/ LoginEnds

Environment ==
    \/ ManagerDies \/ RemoteDies
    \/ PackageAdded \/ UserCancels \/ DeviceRestarts
    \/ ClientExits \/ ClientAttaches

Next ==
    \/ bindMonitorService
    \/ attachProject \/ restartMonitor
    \/ downloadAndInstallClient \/ clientCall
    \/ RunTask
    \/ Callbacks
    \/ RemoteStep
    \/ Environment

(* A started thread runs on, and the main thread handles its messages;     *)
(* nothing is assumed of the remote side and of the user.                  *)
Fairness ==
    /\ WF_vars(RunTask)
    /\ WF_vars(LoginEnds)

Spec == Init /\ [][Next]_vars /\ Fairness

-----------------------------------------------------------------------------
Monitors ==
    { i \in DOMAIN tasks : tasks[i] = "Monitor" }

(* Status 1 is never shown without a monitor that will notice the end of   *)
(* it: one runs, waits for the executor, or is about to be started by a    *)
(* login that has succeeded, in whatever order the monitors, the logins    *)
(* and the main thread write the status.                                   *)
AvailableIsWatched ==
    setupStatus = 1 =>
        \/ Monitors # {}
        \/ \E i \in DOMAIN loginResults : loginResults[i] = "success"

(* A login that has got the background thread is answered: the user is     *)
(* asked again, or a monitor follows, whatever becomes of the connection   *)
(* and the client.  (One behind the loop of a monitor need never get it.)  *)
LoginIsAnswered ==
    Head_is("Attach") ~> setupStatus = 3 \/ Monitors # {} \/ ~created

(* Every start-up ends with a status other than 0, however the client, the *)
(* binding and the package behave; or the process has ended.               *)
StartUpPublishes ==
    Monitoring("connect") ~> setupStatus # 0 \/ ~created

(* A client that is lost after it was available is noticed: status 1       *)
(* without a connection does not stay, as another status is published or a *)
(* client can be reached again.                                            *)
LostClientIsNoticed ==
    []<>(setupStatus # 1 \/ rpc # "none")

=============================================================================
