------------------------ MODULE ManagerMonitor_proofs ------------------------
(***************************************************************************)
(* Proofs about the Manager's part of ManagerMonitor: its types, and that  *)
(* an available client is watched.  The part of the ClientService is in    *)
(* ClientService_proofs.                                                   *)
(*                                                                         *)
(* Nothing in the code relates the status to the monitor tasks, of which   *)
(* there can be several.  What keeps a monitor, or the result that starts  *)
(* one, behind every "available" is that a monitor's last word is another  *)
(* status, and that the executor hands a login's success to the main       *)
(* thread after the login has published it.                                *)
(***************************************************************************)
EXTENDS ClientService_proofs, SequenceTheorems

Queued(queue, task) == \E i \in DOMAIN queue : queue[i] = task

(* AvailableIsWatched, in the terms of the lemmas about queues. *)
Watched ==
    setupStatus = 1 => Queued(tasks, "Monitor") \/ Queued(loginResults, "success")

LEMMA WatchedTerms ==
    (AvailableIsWatched <=> Watched) /\ (AvailableIsWatched' <=> Watched')
BY DEF AvailableIsWatched, Watched, Monitors, Queued

-----------------------------------------------------------------------------
(* The queue of the serial executor, and that of the main thread *)

(* AsyncTask.execute adds a task, and the end of a login its result, at    *)
(* the end of a queue.                                                     *)
LEMMA AppendQueued ==
    ASSUME NEW S, NEW queue \in Seq(S), NEW last \in S, NEW entry
    PROVE  /\ Append(queue, last) \in Seq(S)
           /\ Queued(Append(queue, last), entry)
                <=> (Queued(queue, entry) \/ entry = last)
<1> DEFINE longer == Append(queue, last)
<1>1. /\ longer \in Seq(S)
      /\ Len(longer) = Len(queue) + 1 /\ Len(queue) \in Nat
      /\ \A i \in 1 .. Len(queue) : longer[i] = queue[i]
      /\ longer[Len(queue) + 1] = last
  OBVIOUS
<1>2. /\ DOMAIN longer = 1 .. Len(queue) + 1
      /\ DOMAIN queue = 1 .. Len(queue)
  BY <1>1
<1> HIDE DEF longer
<1> QED
  BY <1>1, <1>2 DEF Queued, longer

(* The executor, or the main thread, takes the entry at the head away.     *)
LEMMA TailQueued ==
    ASSUME NEW S, NEW queue \in Seq(S), queue # <<>>, NEW entry
    PROVE  /\ Tail(queue) \in Seq(S)
           /\ Queued(queue, entry)
                <=> (Queued(Tail(queue), entry) \/ Head(queue) = entry)
<1> DEFINE rest == Tail(queue)
<1>1. /\ rest \in Seq(S)
      /\ Len(rest) = Len(queue) - 1 /\ Len(queue) \in Nat \ {0}
      /\ \A i \in 1 .. Len(rest) : rest[i] = queue[i + 1]
      /\ Head(queue) = queue[1]
  OBVIOUS
<1>2. /\ DOMAIN rest = 1 .. Len(queue) - 1
      /\ DOMAIN queue = 1 .. Len(queue)
  BY <1>1
<1> HIDE DEF rest
<1>3. ASSUME NEW i \in DOMAIN queue
      PROVE  i = 1 \/ (i - 1 \in DOMAIN rest /\ queue[i] = rest[i - 1])
  BY <1>1, <1>2
<1>4. ASSUME NEW i \in DOMAIN rest
      PROVE  i + 1 \in DOMAIN queue /\ rest[i] = queue[i + 1] /\ i + 1 # 1
  BY <1>1, <1>2
<1>5. Queued(queue, entry) <=> (Queued(rest, entry) \/ Head(queue) = entry)
  BY <1>1, <1>2, <1>3, <1>4 DEF Queued
<1> QED
  BY <1>1, <1>5 DEF rest

-----------------------------------------------------------------------------
(* Types *)

(* TypeOK without the part of the service, which ClientService_proofs has. *)
ManagerTypeOK ==
    /\ created \in BOOLEAN
    /\ setupStatus \in 0 .. 3
    /\ mIClientService \in {"null", "live", "dead"}
    /\ monitorStarted \in BOOLEAN
    /\ tasks \in Seq(Tasks)
    /\ pc \in MonitorPlaces \cup AttachPlaces
    /\ attempts \in 0 .. MaxAttempts
    /\ loginResults \in Seq(Results)
    /\ rpc \in {"none", "open", "authorized"}
    /\ receiver \in BOOLEAN
    /\ added \in BOOLEAN
    /\ installer \in BOOLEAN
    /\ attached \in BOOLEAN

(* The start of the Manager's service, of its process or of the device.    *)
LEMMA ResetTyped ==
    ASSUME ManagerTypeOK, MonitorReset, created' \in BOOLEAN, setupStatus' = 0,
           tasks' \in Seq(Tasks), installer' \in BOOLEAN, attached' = attached
    PROVE  ManagerTypeOK'
<1>1. setupStatus' \in 0 .. 3 /\ attempts' \in 0 .. MaxAttempts
  BY AttemptsAssumption DEF MonitorReset
<1>2. loginResults' \in Seq(Results)
  BY DEF MonitorReset
<1>3. pc' \in MonitorPlaces \cup AttachPlaces
  BY DEF MonitorReset, MonitorPlaces
<1> QED
  BY <1>1, <1>2, <1>3, Zenon DEF ManagerTypeOK, MonitorReset

(* Binding or downloading leaves a queue of tasks. *)
LEMMA InitRemoteTyped ==
    ASSUME NEW queue \in Seq(Tasks), initRemoteClientService(queue)
    PROVE  setupStatus' = 0 /\ tasks' \in Seq(Tasks)
BY AppendQueued DEF initRemoteClientService, Tasks

(* The end of the task at the head. *)
LEMMA ReturnTyped ==
    ASSUME ManagerTypeOK, tasks # <<>>, TaskReturns,
           loginResults' \in Seq(Results),
           setupStatus' \in 0 .. 3, rpc' \in {"none", "open", "authorized"},
           receiver' \in BOOLEAN, installer' \in BOOLEAN
    PROVE  ManagerTypeOK'
<1>1. tasks' \in Seq(Tasks)
  BY TailQueued DEF ManagerTypeOK, TaskReturns
<1>2. pc' \in MonitorPlaces \cup AttachPlaces
  BY DEF TaskReturns, MonitorPlaces
<1> QED
  BY <1>1, <1>2, AttemptsAssumption DEF ManagerTypeOK, TaskReturns

LEMMA LoginReturnTyped ==
    ASSUME ManagerTypeOK, tasks # <<>>,
           NEW result \in Results, LoginReturns(result),
           setupStatus' \in 0 .. 3, rpc' \in {"none", "open", "authorized"},
           receiver' \in BOOLEAN, installer' \in BOOLEAN
    PROVE  ManagerTypeOK'
<1>1. loginResults' \in Seq(Results)
  BY AppendQueued DEF LoginReturns, ManagerTypeOK
<1> QED
  BY <1>1, ReturnTyped DEF LoginReturns

(* The task at the head goes on. *)
LEMMA StepTyped ==
    ASSUME ManagerTypeOK, NEW place \in MonitorPlaces \cup AttachPlaces,
           StepTo(place), UNCHANGED <<loginResults, attached>>,
           setupStatus' \in 0 .. 3, rpc' \in {"none", "open", "authorized"},
           attempts' \in 0 .. MaxAttempts
    PROVE  ManagerTypeOK'
BY DEF ManagerTypeOK, StepTo

(* Tasks on the executor's thread keep the types. *)
LEMMA TaskTyped ==
    ASSUME ManagerTypeOK, RunTask
    PROVE  ManagerTypeOK'
<1> tasks # <<>>
  BY DEF RunTask, DownloadFails, Downloaded, CallReturns, MonitorTask, AttachTask,
         CheckConnection, Connected, ConnectFails, LastConnectFails, Authorized,
         AuthorizeFails, checkLogin, NoProjectList, PublishAvailable, StartUpFails,
         Refresh, LookupAccount, ProjectAttach, Attached, PollsGivenUp, NoPollReply,
         PublishAttached, Monitoring, Attaching, Head_is
<1>0. 0 \in 0 .. MaxAttempts /\ "success" \in Results /\ "failure" \in Results
  BY AttemptsAssumption DEF Results
<1>1. CASE DownloadFails \/ Downloaded \/ CallReturns
  BY <1>1, ReturnTyped
  DEF DownloadFails, Downloaded, CallReturns, Returns, ManagerTypeOK
<1>2. CASE CheckConnection \/ Refresh \/ checkLogin
  <2>1. \E place \in MonitorPlaces : StepTo(place)
    BY <1>2 DEF CheckConnection, Refresh, checkLogin, MonitorPlaces
  <2> QED
    BY <1>2, <2>1, StepTyped DEF CheckConnection, Refresh, checkLogin, ManagerTypeOK
<1>3. CASE Connected
  BY <1>0, <1>3, StepTyped DEF Connected, MonitorPlaces, ManagerTypeOK
<1>4. CASE ConnectFails
  <2>1. attempts' \in 0 .. MaxAttempts
    BY <1>4, AttemptsAssumption DEF ConnectFails, ManagerTypeOK
  <2> QED
    BY <1>4, <2>1, StepTyped DEF ConnectFails, MonitorPlaces, ManagerTypeOK
<1>5. CASE LastConnectFails \/ AuthorizeFails
  BY <1>5, StepTyped DEF LastConnectFails, AuthorizeFails, MonitorPlaces, ManagerTypeOK
<1>6. CASE Authorized \/ PublishAvailable
  BY <1>6, StepTyped DEF Authorized, PublishAvailable, MonitorPlaces, ManagerTypeOK
<1>7. CASE StartUpFails
  BY <1>7, ReturnTyped DEF StartUpFails, Returns, ManagerTypeOK
<1>8. CASE NoProjectList \/ NoPollReply
  <2>1. <<>> \in Seq(Tasks)
    OBVIOUS
  <2> QED
    BY <1>8, <2>1, ResetTyped
    DEF NoProjectList, NoPollReply, NullPointerException, ProcessEnds, ManagerTypeOK
<1>9. CASE LookupAccount
  BY <1>0, <1>9, LoginReturnTyped, StepTyped
  DEF LookupAccount, AttachPlaces, ManagerTypeOK
<1>10. CASE ProjectAttach
  BY <1>0, <1>10, LoginReturnTyped, StepTyped
  DEF ProjectAttach, AttachPlaces, ManagerTypeOK
<1>11. CASE PublishAttached \/ PollsGivenUp
  BY <1>0, <1>11, LoginReturnTyped DEF PublishAttached, PollsGivenUp, ManagerTypeOK
<1>12. CASE Attached
  BY <1>12, StepTyped DEF Attached, AttachPlaces, ManagerTypeOK
<1> QED
  BY <1>1, <1>2, <1>3, <1>4, <1>5, <1>6, <1>7, <1>8, <1>9, <1>10, <1>11, <1>12
  DEF RunTask, MonitorTask, AttachTask

(* So do the callbacks, the calls of activities, and the other side.       *)
LEMMA OtherTyped ==
    ASSUME ManagerTypeOK,
           \/ bindMonitorService
           \/ attachProject \/ restartMonitor
           \/ downloadAndInstallClient \/ clientCall
           \/ Callbacks \/ RemoteStep \/ Environment
    PROVE  ManagerTypeOK'
<1>1. CASE bindMonitorService
  <2>1. <<>> \in Seq(Tasks)
    OBVIOUS
  <2> QED
    BY <1>1, <2>1, ResetTyped, InitRemoteTyped DEF bindMonitorService, ManagerTypeOK
<1>2. CASE attachProject \/ restartMonitor \/ downloadAndInstallClient \/ clientCall
  <2>1. PICK task \in Tasks : Execute(task)
    BY <1>2 DEF attachProject, restartMonitor, downloadAndInstallClient, clientCall, Tasks
  <2>2. tasks' \in Seq(Tasks)
    BY <2>1, AppendQueued DEF Execute, ManagerTypeOK
  <2>3. setupStatus' \in 0 .. 3
    BY <1>2 DEF attachProject, restartMonitor, downloadAndInstallClient, clientCall,
                ManagerTypeOK
  <2> QED
    BY <2>1, <2>2, <2>3 DEF Execute, ManagerTypeOK
<1>3. CASE onServiceConnected
  <2>1. tasks' \in Seq(Tasks)
    BY <1>3, AppendQueued DEF onServiceConnected, ManagerTypeOK, Tasks
  <2> QED
    BY <1>3, <2>1 DEF onServiceConnected, ManagerTypeOK
<1>4. CASE NullConnected \/ onServiceDisconnected
  BY <1>4 DEF NullConnected, onServiceDisconnected, ManagerTypeOK
<1>5. CASE clientInstalledReceiver
  <2>1. setupStatus' \in 0 .. 3 /\ tasks' \in Seq(Tasks)
    BY <1>5, InitRemoteTyped DEF clientInstalledReceiver, ManagerTypeOK
  <2> QED
    BY <1>5, <2>1, Zenon DEF clientInstalledReceiver, ManagerTypeOK
<1>6. CASE LoginEnds
  <2>0. tasks' = tasks \/ tasks' = Append(tasks, "Monitor")
    BY <1>6 DEF LoginEnds
  <2>1. tasks' \in Seq(Tasks)
    BY <2>0, AppendQueued DEF ManagerTypeOK, Tasks
  <2>2. loginResults' \in Seq(Results)
    BY <1>6, TailQueued DEF LoginEnds, ManagerTypeOK
  <2>3. setupStatus' \in 0 .. 3
    BY <1>6 DEF LoginEnds, ManagerTypeOK
  <2> QED
    BY <1>6, <2>1, <2>2, <2>3 DEF LoginEnds, ManagerTypeOK
<1>7. CASE RemoteStep
  BY <1>7 DEF RemoteStep, Remote, ManagerTypeOK
<1>8. CASE ManagerDies \/ DeviceRestarts
  <2>1. installer' \in BOOLEAN /\ created' \in BOOLEAN
    BY <1>8, Zenon DEF ManagerDies, ProcessEnds, DeviceRestarts, ManagerTypeOK
  <2>2. setupStatus' = 0 /\ tasks' = <<>> /\ MonitorReset /\ attached' = attached
    BY <1>8 DEF ManagerDies, ProcessEnds, DeviceRestarts
  <2> QED
    BY <2>1, <2>2, ResetTyped
<1>9. CASE RemoteDies \/ ClientExits
  BY <1>9 DEF RemoteDies, ClientExits, Remote, BinderDies, ManagerTypeOK
<1>10. CASE UserCancels \/ ClientAttaches
  <2>1. installer' \in BOOLEAN /\ attached' \in BOOLEAN
    <3>1. UNCHANGED attached \/ attached' = TRUE
      BY <1>10 DEF UserCancels, ClientAttaches
    <3>2. UNCHANGED installer \/ installer' = FALSE
      BY <1>10 DEF UserCancels, ClientAttaches
    <3> QED
      BY <3>1, <3>2, Zenon DEF ManagerTypeOK
  <2>2. UNCHANGED monitorVars
    BY <1>10 DEF UserCancels, ClientAttaches
  <2> QED
    BY <2>1, <2>2 DEF monitorVars, ManagerTypeOK
<1>11. CASE PackageAdded
  BY <1>11, Zenon DEF PackageAdded, Remote, BinderDies, ManagerTypeOK
<1> QED
  BY <1>1, <1>2, <1>3, <1>4, <1>5, <1>6, <1>7, <1>8, <1>9, <1>10, <1>11
  DEF Callbacks, Environment

LEMMA TypeStep ==
    ASSUME ManagerTypeOK, [Next]_vars
    PROVE  ManagerTypeOK'
<1>1. CASE UNCHANGED vars
  BY <1>1 DEF vars, monitorVars, ManagerTypeOK
<1> QED
  BY <1>1, TaskTyped, OtherTyped DEF Next

LEMMA ManagerTyped == Spec => []ManagerTypeOK
<1>1. Init => ManagerTypeOK
  <2> SUFFICES ASSUME Init PROVE ManagerTypeOK
    OBVIOUS
  <2>1. /\ setupStatus \in 0 .. 3 /\ attempts \in 0 .. MaxAttempts
        /\ tasks \in Seq(Tasks) /\ loginResults \in Seq(Results)
        /\ pc \in MonitorPlaces
    BY AttemptsAssumption DEF Init, MonitorPlaces
  <2> QED
    BY <2>1, Zenon DEF Init, ManagerTypeOK
<1>2. ManagerTypeOK /\ [Next]_vars => ManagerTypeOK'
  BY TypeStep
<1> QED
  BY <1>1, <1>2, PTL DEF Spec

(* Fields, queue and counters of the Manager, and the files and fields of  *)
(* the ClientService, stay in their ranges; the connection attempts stay   *)
(* within setup_connection_attempts.                                       *)
THEOREM TypeCorrect == Spec => []TypeOK
<1>1. ServiceInv /\ ManagerTypeOK => TypeOK
  BY DEF ServiceInv, ManagerTypeOK, TypeOK
<1> QED
  BY <1>1, ManagerTyped, ImplementsClientService, ServiceInvariant, PTL

-----------------------------------------------------------------------------
(* A watched client *)

(* A start of the process says "launching".                                *)
LEMMA ResetWatched ==
    ASSUME setupStatus' # 1
    PROVE  Watched'
BY DEF Watched

(* A step that publishes nothing and starts or ends no monitor.            *)
LEMMA KeptWatched ==
    ASSUME Watched, UNCHANGED <<setupStatus, tasks, loginResults>>
    PROVE  Watched'
BY DEF Watched

(* A task is queued. *)
LEMMA AddedWatched ==
    ASSUME ManagerTypeOK, Watched, NEW task \in Tasks,
           tasks' = Append(tasks, task),
           UNCHANGED <<setupStatus, loginResults>>
    PROVE  Watched'
<1>1. Queued(tasks', "Monitor") <=> (Queued(tasks, "Monitor") \/ task = "Monitor")
  BY AppendQueued DEF ManagerTypeOK
<1> QED
  BY <1>1 DEF Watched

(* Another task than a monitor has returned. *)
LEMMA ReturnWatched ==
    ASSUME ManagerTypeOK, Watched, tasks # <<>>, Head(tasks) # "Monitor",
           tasks' = Tail(tasks), UNCHANGED setupStatus,
           Queued(loginResults, "success") => Queued(loginResults', "success")
    PROVE  Watched'
<1>1. Queued(tasks, "Monitor") <=> (Queued(tasks', "Monitor") \/ Head(tasks) = "Monitor")
  BY TailQueued DEF ManagerTypeOK
<1> QED
  BY <1>1 DEF Watched

(* Downloads and calls return. *)
LEMMA OtherTaskWatched ==
    ASSUME ManagerTypeOK, Watched, DownloadFails \/ Downloaded \/ CallReturns
    PROVE  Watched'
<1>1. /\ tasks # <<>> /\ Head(tasks) # "Monitor"
      /\ tasks' = Tail(tasks) /\ UNCHANGED <<setupStatus, loginResults>>
  BY DEF DownloadFails, Downloaded, CallReturns, Head_is, Returns, TaskReturns
<1> QED
  BY <1>1, ReturnWatched

(* The monitor publishes "available" while it goes on, and everything else *)
(* as its last word.                                                       *)
LEMMA MonitorTaskWatched ==
    ASSUME ManagerTypeOK, Watched, MonitorTask
    PROVE  Watched'
<1>1. Queued(tasks, "Monitor")
  <2>1. tasks # <<>> /\ Head(tasks) = "Monitor"
    BY DEF MonitorTask, CheckConnection, Connected, ConnectFails, LastConnectFails,
           Authorized, AuthorizeFails, checkLogin, NoProjectList, PublishAvailable,
           StartUpFails, Refresh, Monitoring, Head_is
  <2> QED
    BY <2>1, TailQueued DEF ManagerTypeOK
<1>2. CASE \/ CheckConnection \/ Connected \/ ConnectFails \/ LastConnectFails
           \/ Authorized \/ AuthorizeFails \/ checkLogin \/ Refresh
  BY <1>2, KeptWatched
  DEF CheckConnection, Connected, ConnectFails, LastConnectFails, Authorized,
      AuthorizeFails, checkLogin, Refresh, StepTo
<1>3. CASE PublishAvailable
  BY <1>1, <1>3 DEF PublishAvailable, StepTo, Watched
<1>4. CASE StartUpFails
  <2>1. setupStatus' # 1
    BY <1>4 DEF StartUpFails
  <2> QED
    BY <2>1, ResetWatched
<1>5. CASE NoProjectList
  BY <1>5, ResetWatched DEF NoProjectList, NullPointerException, ProcessEnds
<1> QED
  BY <1>2, <1>3, <1>4, <1>5 DEF MonitorTask

(* A login hands its result to the main thread; "available" comes with a   *)
(* success.                                                                *)
LEMMA AttachTaskWatched ==
    ASSUME ManagerTypeOK, Watched, AttachTask
    PROVE  Watched'
<1>1. tasks # <<>> /\ Head(tasks) # "Monitor"
  BY DEF AttachTask, LookupAccount, ProjectAttach, Attached, PollsGivenUp,
         NoPollReply, PublishAttached, Attaching, Head_is
<1>2. ASSUME NEW place, StepTo(place), UNCHANGED <<setupStatus, loginResults>>
      PROVE  Watched'
  BY <1>2, KeptWatched DEF StepTo
<1>3. ASSUME NEW result \in Results, LoginReturns(result)
      PROVE  Queued(loginResults', "success")
               <=> (Queued(loginResults, "success") \/ "success" = result)
  BY <1>3, AppendQueued DEF LoginReturns, ManagerTypeOK
<1>4. ASSUME LoginReturns("failure"), UNCHANGED setupStatus
      PROVE  Watched'
  <2>1. "failure" \in Results /\ tasks' = Tail(tasks)
    BY <1>4 DEF Results, LoginReturns, TaskReturns
  <2> QED
    BY <1>1, <1>3, <1>4, <2>1, ReturnWatched
<1>5. CASE LookupAccount
  BY <1>2, <1>4, <1>5 DEF LookupAccount
<1>6. CASE ProjectAttach
  BY <1>2, <1>4, <1>6 DEF ProjectAttach
<1>7. CASE PollsGivenUp
  BY <1>4, <1>7 DEF PollsGivenUp
<1>8. CASE Attached
  BY <1>2, <1>8 DEF Attached
<1>9. CASE PublishAttached
  <2>1. "success" \in Results
    BY DEF Results
  <2> QED
    BY <1>3, <1>9, <2>1 DEF PublishAttached, Watched
<1>10. CASE NoPollReply
  BY <1>10, ResetWatched DEF NoPollReply, NullPointerException, ProcessEnds
<1> QED
  BY <1>5, <1>6, <1>7, <1>8, <1>9, <1>10 DEF AttachTask

(* The main thread: a success that is taken becomes a monitor.             *)
LEMMA CallbackWatched ==
    ASSUME ManagerTypeOK, Watched, Callbacks
    PROVE  Watched'
<1> tasks \in Seq(Tasks) /\ "Monitor" \in Tasks
  BY DEF ManagerTypeOK, Tasks
<1>1. CASE onServiceConnected
  <2>1. tasks' = tasks \/ tasks' = Append(tasks, "Monitor")
    BY <1>1 DEF onServiceConnected
  <2> QED
    BY <1>1, <2>1, KeptWatched, AddedWatched DEF onServiceConnected
<1>2. CASE onServiceDisconnected
  BY <1>2, KeptWatched DEF onServiceDisconnected
<1>3. CASE NullConnected \/ clientInstalledReceiver
  BY <1>3, ResetWatched
  DEF NullConnected, clientInstalledReceiver, initRemoteClientService
<1>4. CASE LoginEnds
  <2>1. CASE Head(loginResults) = "success"
    <3>1. tasks' = Append(tasks, "Monitor")
      BY <1>4, <2>1 DEF LoginEnds
    <3>2. Queued(tasks', "Monitor")
      BY <3>1, AppendQueued
    <3> QED
      BY <3>2 DEF Watched
  <2>2. CASE Head(loginResults) # "success"
    BY <1>4, <2>2, ResetWatched DEF LoginEnds
  <2> QED
    BY <2>1, <2>2
<1> QED
  BY <1>1, <1>2, <1>3, <1>4 DEF Callbacks

(* Activities, the other side, and every start of the process. *)
LEMMA OutsideWatched ==
    ASSUME ManagerTypeOK, Watched,
           \/ bindMonitorService
           \/ attachProject \/ restartMonitor
           \/ downloadAndInstallClient \/ clientCall
           \/ RemoteStep \/ Environment
    PROVE  Watched'
<1>1. CASE \/ bindMonitorService \/ attachProject \/ downloadAndInstallClient
           \/ ManagerDies \/ DeviceRestarts
  <2>1. setupStatus' = 0
    BY <1>1 DEF bindMonitorService, initRemoteClientService, attachProject,
                downloadAndInstallClient, ManagerDies, ProcessEnds, DeviceRestarts
  <2> QED
    BY <2>1, ResetWatched
<1>2. CASE restartMonitor \/ clientCall
  BY <1>2, AddedWatched DEF restartMonitor, clientCall, Execute, Tasks
<1>3. CASE RemoteStep
  BY <1>3, KeptWatched DEF RemoteStep, Remote
<1>4. CASE RemoteDies \/ PackageAdded \/ UserCancels \/ ClientExits \/ ClientAttaches
  BY <1>4, KeptWatched
  DEF RemoteDies, PackageAdded, UserCancels, ClientExits, ClientAttaches,
      Remote, monitorVars
<1> QED
  BY <1>1, <1>2, <1>3, <1>4 DEF Environment

(* "available" is not shown without a monitor that will notice its end,    *)
(* however many monitors and logins the activities ask for and in whatever *)
(* order they, the binding and the package manager write the status.       *)
THEOREM AvailableHasMonitor == Spec => []AvailableIsWatched
<1>1. Init => Watched
  BY DEF Init, Watched
<1>2. ManagerTypeOK /\ Watched /\ [Next]_vars => Watched'
  <2> SUFFICES ASSUME ManagerTypeOK, Watched, [Next]_vars
               PROVE  Watched'
    OBVIOUS
  <2>1. CASE UNCHANGED vars
    BY <2>1, KeptWatched DEF vars, monitorVars
  <2>2. CASE RunTask
    BY <2>2, OtherTaskWatched, MonitorTaskWatched, AttachTaskWatched DEF RunTask
  <2> QED
    BY <2>1, <2>2, CallbackWatched, OutsideWatched DEF Next
<1>3. Watched => AvailableIsWatched
  BY WatchedTerms
<1> QED
  BY <1>1, <1>2, <1>3, ManagerTyped, PTL DEF Spec

=============================================================================
