---------------------------- MODULE Monitor_proofs ----------------------------
(* Theorems about Monitor, for every number of monitor tasks, logins and   *)
(* native processes at a time, of attempts and of polls.                   *)
EXTENDS Monitor, TLAPS

(***************************************************************************)
(* What holds of the tasks and what they have said.  StatusIsAttended      *)
(* rests on NeverActive: the flag that restartMonitor looks at is never    *)
(* set, so a successful login does start the monitor it has promised.      *)
(* LaunchedHasProcess rests on FreshTasks: a new task has launched nothing.*)
(***************************************************************************)
NeverActive == ~monitorActive

FreshTasks == \A m \in Monitors : ~Active(m) => ~clientStarted[m]

AttendedInv ==
  /\ NeverActive
  /\ FreshTasks
  /\ LaunchedHasProcess
  /\ StatusIsAttended

(***************************************************************************)
(* Types                                                                   *)
(***************************************************************************)

\* What an action leaves alone keeps its type: the fields of the service and
\* of the screen, the tasks, the connection and the native client.
FieldsOK  == booting \in BOOLEAN /\ started \in BOOLEAN /\ monitorActive \in BOOLEAN
ScreenOK  == setupStatus \in Launching .. LoggedOut /\ view \in Launching .. LoggedOut
TasksOK   == /\ mpc \in [Monitors -> MonitorSteps \cup {"none"}]
             /\ attempt \in [Monitors -> 0 .. MaxAttempts + 1]
             /\ clientStarted \in [Monitors -> BOOLEAN]
LoginsOK  == /\ lpc \in [Logins -> LoginSteps \cup {"none"}]
             /\ poll \in [Logins -> 0 .. MaxPolls]
QuitterOK == quitter \in {"none", "quit", "destroy"}
ConnOK    == conn \in Processes \cup {None} /\ authorized \in BOOLEAN
LaunchOK  == clientProcess \in Processes \cup {None}
ProcessOK == process \in [Processes -> {"none", "starting", "serving", "leaving"}]
AttachOK  == attaching \in BOOLEAN /\ attached \in BOOLEAN

LEMMA TypeParts ==
  TypeOK <=> /\ FieldsOK /\ ScreenOK /\ TasksOK /\ LoginsOK /\ QuitterOK
             /\ ConnOK /\ LaunchOK /\ ProcessOK /\ AttachOK
BY DEF TypeOK, FieldsOK, ScreenOK, TasksOK, LoginsOK, QuitterOK, ConnOK, LaunchOK,
       ProcessOK, AttachOK

LEMMA TypePartsNext ==
  ASSUME FieldsOK', ScreenOK', TasksOK', LoginsOK', QuitterOK', ConnOK', LaunchOK',
         ProcessOK', AttachOK'
  PROVE  TypeOK'
BY DEF TypeOK, FieldsOK, ScreenOK, TasksOK, LoginsOK, QuitterOK, ConnOK, LaunchOK,
       ProcessOK, AttachOK

LEMMA Unchanged ==
  ASSUME TypeOK
  PROVE  /\ UNCHANGED <<booting, service>> => FieldsOK'
         /\ UNCHANGED uiVars => ScreenOK'
         /\ UNCHANGED mVars => TasksOK'
         /\ UNCHANGED lVars => LoginsOK'
         /\ UNCHANGED quitter => QuitterOK'
         /\ UNCHANGED connVars => ConnOK'
         /\ UNCHANGED clientProcess => LaunchOK'
         /\ UNCHANGED process => ProcessOK'
         /\ UNCHANGED <<attaching, attached>> => AttachOK'
BY DEF TypeOK, FieldsOK, ScreenOK, TasksOK, LoginsOK, QuitterOK, ConnOK, LaunchOK,
       ProcessOK, AttachOK, service, uiVars, mVars, lVars, connVars

LEMMA PublishTyped ==
  ASSUME TypeOK, NEW status \in Launching .. LoggedOut, Publish(status)
  PROVE  ScreenOK'
BY DEF TypeOK, Publish, ScreenOK

LEMMA GotoTyped ==
  ASSUME TypeOK, NEW m \in Monitors, NEW label \in MonitorSteps \cup {"none"},
         Goto(m, label)
  PROVE  mpc' \in [Monitors -> MonitorSteps \cup {"none"}]
BY DEF TypeOK, Goto

LEMMA ExecuteTyped ==
  ASSUME TypeOK, ExecuteMonitor
  PROVE  TasksOK'
BY DEF TypeOK, ExecuteMonitor, TasksOK, MonitorSteps

LEMMA RestartTyped ==
  ASSUME TypeOK, restartMonitor
  PROVE  TasksOK'
BY ExecuteTyped, Unchanged DEF restartMonitor

LEMMA AppDiesTyped ==
  ASSUME TypeOK, AppDies
  PROVE  TypeOK'
<1>1. FieldsOK' /\ ConnOK' /\ LaunchOK' /\ AttachOK'
  <2>1. started' \in BOOLEAN /\ monitorActive' \in BOOLEAN /\ authorized' \in BOOLEAN
    BY Zenon DEF AppDies
  <2> QED
    BY <2>1 DEF TypeOK, AppDies, native, FieldsOK, ConnOK, LaunchOK, AttachOK
<1>2. ScreenOK' /\ QuitterOK' /\ ProcessOK'
  BY DEF TypeOK, AppDies, native, ScreenOK, QuitterOK, ProcessOK, Launching, LoggedOut
<1>3. TasksOK' /\ LoginsOK'
  <2>1. clientStarted' \in [Monitors -> BOOLEAN]
    BY Zenon DEF AppDies
  <2>2. attempt' \in [Monitors -> 0 .. MaxAttempts + 1] /\ poll' \in [Logins -> 0 .. MaxPolls]
    BY MonitorAssumption DEF AppDies
  <2> QED
    BY <2>1, <2>2 DEF AppDies, TasksOK, LoginsOK
<1> QED
  BY <1>1, <1>2, <1>3, TypePartsNext

LEMMA ProcessEndsTyped ==
  ASSUME TypeOK, NEW p \in Processes, ProcessEnds(p)
  PROVE  ProcessOK' /\ ConnOK' /\ attaching' \in BOOLEAN
<1>1. attaching' \in BOOLEAN /\ authorized' \in BOOLEAN
  BY Zenon DEF ProcessEnds
<1> QED
  BY <1>1 DEF TypeOK, ProcessEnds, ProcessOK, ConnOK

LEMMA QuittingTyped ==
  ASSUME TypeOK, Quitting
  PROVE  ProcessOK'
BY DEF TypeOK, Quitting, Answered, Reachable, ProcessOK

\* One of the alternatives of ConnectFailed, and what each does to the types.
LEMMA ConnectFailedTyped ==
  ASSUME TypeOK, NEW m \in Monitors, ConnectFailed(m), UNCHANGED clientStarted
  PROVE  TasksOK'
<1>1. mpc' \in [Monitors -> MonitorSteps \cup {"none"}]
  <2>1. \/ Goto(m, "shutdown") \/ Goto(m, "connect") \/ Goto(m, "giveUp")
    BY DEF ConnectFailed
  <2> QED
    BY <2>1, GotoTyped DEF MonitorSteps
<1>2. attempt' \in [Monitors -> 0 .. MaxAttempts + 1]
  BY MonitorAssumption DEF TypeOK, ConnectFailed
<1> QED
  BY <1>1, <1>2 DEF TypeOK, TasksOK

LEMMA SetupFailedTyped ==
  ASSUME TypeOK, NEW m \in Monitors, SetupFailed(m)
  PROVE  /\ ScreenOK'
         /\ mpc' \in [Monitors -> MonitorSteps \cup {"none"}]
         /\ attempt' \in [Monitors -> 0 .. MaxAttempts + 1]
<1>1. Failed \in Launching .. LoggedOut
  BY DEF Failed, Launching, LoggedOut
<1>2. attempt' \in [Monitors -> 0 .. MaxAttempts + 1]
  BY MonitorAssumption DEF TypeOK, SetupFailed
<1>3. "connect" \in MonitorSteps \cup {"none"}
  BY DEF MonitorSteps
<1> QED
  BY <1>1, <1>2, <1>3, PublishTyped, GotoTyped DEF SetupFailed

\* ClientMonitorAsync.
LEMMA TypeMonitor ==
  ASSUME TypeOK, NEW m \in Monitors, MonitorStep(m)
  PROVE  TypeOK'
<1> USE DEF native
<1>0. \A s \in {Launching, Available, Failed, LoggedOut} : s \in Launching .. LoggedOut
  BY DEF Launching, Available, Failed, LoggedOut
<1>1. CASE CheckConnection(m)
  <2>1. Goto(m, "refresh") \/ Goto(m, "startUp")
    BY <1>1 DEF CheckConnection
  <2>2. TasksOK'
    BY <1>1, <2>1, GotoTyped DEF CheckConnection, TypeOK, TasksOK, MonitorSteps
  <2> QED
    BY <1>1, <2>2, Unchanged, TypePartsNext DEF CheckConnection
<1>2. CASE StartUp(m)
  <2>1. TasksOK'
    BY <1>2, GotoTyped DEF StartUp, TypeOK, TasksOK, MonitorSteps
  <2> QED
    BY <1>0, <1>2, <2>1, PublishTyped, Unchanged, TypePartsNext DEF StartUp
<1>3. CASE Connect(m)
  <2>1. CASE \E p \in Processes :
               conn' = p /\ Goto(m, "authorize") /\ UNCHANGED attempt
    <3>1. ConnOK'
      BY <1>3, <2>1 DEF Connect, ConnOK
    <3>2. TasksOK'
      BY <1>3, <2>1, GotoTyped DEF Connect, TypeOK, TasksOK, MonitorSteps
    <3> QED
      BY <1>3, <2>1, <3>1, <3>2, Unchanged, TypePartsNext DEF Connect
  <2>2. CASE conn' = None /\ ConnectFailed(m)
    <3>1. ConnOK'
      BY <1>3, <2>2 DEF Connect, ConnOK
    <3>2. UNCHANGED clientStarted
      BY <1>3 DEF Connect
    <3> QED
      BY <1>3, <2>2, <3>1, <3>2, ConnectFailedTyped, Unchanged, TypePartsNext DEF Connect
  <2> QED
    BY <1>3, <2>1, <2>2 DEF Connect
<1>4. CASE Authorize(m)
  <2>0. UNCHANGED clientStarted
    BY <1>4 DEF Authorize
  <2>1. CASE authorized' = TRUE /\ Goto(m, "checkLogin")
             /\ attempt' = [attempt EXCEPT ![m] = 0]
    <3>1. attempt' \in [Monitors -> 0 .. MaxAttempts + 1]
      BY <2>1, MonitorAssumption DEF TypeOK
    <3>2. TasksOK'
      BY <2>0, <2>1, <3>1, GotoTyped DEF TypeOK, TasksOK, MonitorSteps
    <3>3. ConnOK'
      BY <1>4, <2>1 DEF Authorize, TypeOK, ConnOK
    <3> QED
      BY <1>4, <2>1, <3>2, <3>3, Unchanged, TypePartsNext DEF Authorize
  <2>2. CASE ConnectFailed(m) /\ UNCHANGED authorized
    <3>1. ConnOK'
      BY <1>4, <2>2 DEF Authorize, TypeOK, ConnOK
    <3> QED
      BY <1>4, <2>0, <2>2, <3>1, ConnectFailedTyped, Unchanged, TypePartsNext
      DEF Authorize
  <2> QED
    BY <1>4, <2>1, <2>2 DEF Authorize
<1>5. CASE shutdownExisitingClient(m)
  <2>1. Goto(m, "install") \/ Goto(m, "destroy")
    BY <1>5 DEF shutdownExisitingClient
  <2>2. TasksOK'
    BY <1>5, <2>1, GotoTyped DEF shutdownExisitingClient, TypeOK, TasksOK, MonitorSteps
  <2>3. ProcessOK'
    BY <1>5, QuittingTyped, Unchanged DEF shutdownExisitingClient
  <2> QED
    BY <1>5, <2>2, <2>3, Unchanged, TypePartsNext DEF shutdownExisitingClient
<1>6. CASE Destroy(m)
  <2>1. CASE AppDies
    BY <2>1, AppDiesTyped
  <2>2. CASE ~AppDies
    <3>1. clientProcess \in Processes /\ ProcessEnds(clientProcess)
      BY <1>6, <2>2 DEF Destroy, TypeOK
    <3>2. ProcessOK' /\ ConnOK' /\ attaching' \in BOOLEAN
      BY <3>1, ProcessEndsTyped
    <3>3. Goto(m, "install") /\ UNCHANGED <<booting, service, uiVars, attempt,
            clientStarted, lVars, quitter, clientProcess, attached>>
      BY <1>6, <2>2 DEF Destroy
    <3>4. TasksOK'
      BY <3>3, GotoTyped DEF TypeOK, TasksOK, MonitorSteps
    <3>5. AttachOK'
      BY <3>2, <3>3 DEF TypeOK, AttachOK
    <3> QED
      BY <3>2, <3>3, <3>4, <3>5, Unchanged, TypePartsNext
  <2> QED
    BY <2>1, <2>2
<1>7. CASE installClient(m)
  <2>1. ScreenOK'
    BY <1>7, SetupFailedTyped, Unchanged DEF installClient
  <2>2. attempt' \in [Monitors -> 0 .. MaxAttempts + 1]
    BY <1>7, SetupFailedTyped DEF installClient, TypeOK
  <2>3. mpc' \in [Monitors -> MonitorSteps \cup {"none"}]
    BY <1>7, SetupFailedTyped, GotoTyped DEF installClient, MonitorSteps
  <2>4. TasksOK'
    BY <1>7, <2>2, <2>3 DEF installClient, TypeOK, TasksOK
  <2> QED
    BY <1>7, <2>1, <2>4, Unchanged, TypePartsNext DEF installClient
<1>8. CASE runClient(m)
  <2>1. CASE SetupFailed(m) /\ UNCHANGED <<clientStarted, clientProcess, process>>
    <3>1. TasksOK'
      BY <2>1, SetupFailedTyped DEF TypeOK, TasksOK
    <3> QED
      BY <1>8, <2>1, <3>1, SetupFailedTyped, Unchanged, TypePartsNext DEF runClient
  <2>2. CASE ~(SetupFailed(m) /\ UNCHANGED <<clientStarted, clientProcess, process>>)
    <3>1. PICK p \in Processes : /\ process' = [process EXCEPT ![p] = "starting"]
                                 /\ clientProcess' = p
      BY <1>8, <2>2 DEF runClient
    <3>2. ProcessOK' /\ LaunchOK'
      BY <3>1 DEF TypeOK, ProcessOK, LaunchOK
    <3>3. /\ clientStarted' = [clientStarted EXCEPT ![m] = TRUE]
          /\ Goto(m, "connect")
          /\ attempt' = [attempt EXCEPT ![m] = 1]
          /\ UNCHANGED uiVars
      BY <1>8, <2>2 DEF runClient
    <3>4. attempt' \in [Monitors -> 0 .. MaxAttempts + 1]
      BY <3>3, MonitorAssumption DEF TypeOK
    <3>5. TasksOK'
      BY <3>3, <3>4, GotoTyped DEF TypeOK, TasksOK, MonitorSteps
    <3> QED
      BY <1>8, <3>2, <3>3, <3>5, Unchanged, TypePartsNext DEF runClient
  <2> QED
    BY <2>1, <2>2
<1>9. CASE checkLogin(m)
  <2>1. CASE AppDies
    BY <2>1, AppDiesTyped
  <2>2. CASE ~AppDies
    <3>1. /\ Goto(m, "available") \/ Goto(m, "loggedOut")
          /\ UNCHANGED <<booting, service, uiVars, attempt, clientStarted, lVars,
                         quitter, connVars, clientProcess, native>>
      BY <1>9, <2>2 DEF checkLogin
    <3>2. TasksOK'
      BY <3>1, GotoTyped DEF TypeOK, TasksOK, MonitorSteps
    <3> QED
      BY <3>1, <3>2, Unchanged, TypePartsNext
  <2> QED
    BY <2>1, <2>2
<1>10. CASE Refresh(m)
  <2>1. TasksOK'
    BY <1>10, GotoTyped DEF Refresh, TypeOK, TasksOK, MonitorSteps
  <2> QED
    BY <1>10, <2>1, Unchanged, TypePartsNext DEF Refresh
<1>11. CASE MonitorEnds(m)
  <2>1. TasksOK'
    BY <1>11, GotoTyped DEF MonitorEnds, TypeOK, TasksOK, MonitorSteps
  <2>2. FieldsOK'
    BY <1>11 DEF MonitorEnds, TypeOK, FieldsOK
  <2> QED
    BY <1>11, <2>1, <2>2, Unchanged, TypePartsNext DEF MonitorEnds
<1>12. CASE StartUpEnds(m)
  <2>1. PICK status \in {Available, LoggedOut, Failed} : Publish(status)
    BY <1>12 DEF StartUpEnds
  <2>2. ScreenOK'
    BY <1>0, <2>1, PublishTyped
  <2>3. Goto(m, "refresh") \/ Goto(m, "post")
    BY <1>12 DEF StartUpEnds
  <2>4. TasksOK'
    BY <1>12, <2>3, GotoTyped DEF StartUpEnds, TypeOK, TasksOK, MonitorSteps
  <2> QED
    BY <1>12, <2>2, <2>4, Unchanged, TypePartsNext DEF StartUpEnds
<1> QED
  BY <1>1, <1>2, <1>3, <1>4, <1>5, <1>6, <1>7, <1>8, <1>9, <1>10, <1>11, <1>12
  DEF MonitorStep

\* ProjectAttachAsync.
LEMMA TypeLogin ==
  ASSUME TypeOK, NEW l \in Logins, LoginStep(l)
  PROVE  TypeOK'
<1> USE DEF native
<1>0. \A s \in {Launching, Available, Failed, LoggedOut} : s \in Launching .. LoggedOut
  BY DEF Launching, Available, Failed, LoggedOut
<1>1. CASE LookupAccount(l)
  <2>1. LoginsOK'
    BY <1>1 DEF LookupAccount, LGoto, TypeOK, LoginsOK, LoginSteps
  <2> QED
    BY <1>1, <2>1, Unchanged, TypePartsNext DEF LookupAccount
<1>2. CASE LookupPoll(l)
  <2>1. LoginsOK'
    BY <1>2, MonitorAssumption DEF LookupPoll, LGoto, TypeOK, LoginsOK, LoginSteps
  <2> QED
    BY <1>2, <2>1, Unchanged, TypePartsNext DEF LookupPoll
<1>3. CASE ProjectAttach(l)
  <2>1. LoginsOK'
    BY <1>3 DEF ProjectAttach, LGoto, TypeOK, LoginsOK, LoginSteps
  <2>2. attaching' = TRUE \/ attaching' = attaching \/ attaching' = (attaching \/ Answered)
    BY <1>3 DEF ProjectAttach
  <2>3. attaching' \in BOOLEAN
    BY <2>2, Zenon DEF TypeOK
  <2>4. AttachOK'
    BY <1>3, <2>3 DEF ProjectAttach, TypeOK, AttachOK
  <2> QED
    BY <1>3, <2>1, <2>4, Unchanged, TypePartsNext DEF ProjectAttach
<1>4. CASE AttachPoll(l)
  <2>1. CASE AppDies
    BY <2>1, AppDiesTyped
  <2>2. CASE ~AppDies
    <3>1. LoginsOK'
      BY <1>4, <2>2, MonitorAssumption DEF AttachPoll, LGoto, TypeOK, LoginsOK, LoginSteps
    <3> QED
      BY <1>4, <2>2, <3>1, Unchanged, TypePartsNext DEF AttachPoll
  <2> QED
    BY <2>1, <2>2
<1>5. CASE LoginEnds(l)
  <2>1. LoginsOK'
    BY <1>5, MonitorAssumption DEF LoginEnds, LGoto, TypeOK, LoginsOK, LoginSteps
  <2>2. ScreenOK'
    BY <1>0, <1>5, PublishTyped, Unchanged DEF LoginEnds
  <2>3. TasksOK'
    BY <1>5, RestartTyped, Unchanged DEF LoginEnds
  <2> QED
    BY <1>5, <2>1, <2>2, <2>3, Unchanged, TypePartsNext DEF LoginEnds
<1>6. CASE PublishAttached(l)
  <2>1. LoginsOK'
    BY <1>6 DEF PublishAttached, LGoto, TypeOK, LoginsOK, LoginSteps
  <2>2. ScreenOK'
    BY <1>0, <1>6, PublishTyped DEF PublishAttached
  <2> QED
    BY <1>6, <2>1, <2>2, Unchanged, TypePartsNext DEF PublishAttached
<1> QED
  BY <1>1, <1>2, <1>3, <1>4, <1>5, <1>6 DEF LoginStep

\* The user, the system, the other tasks and the native client.
LEMMA TypeElse ==
  ASSUME TypeOK,
         \/ Quit \/ QuitDestroy \/ User \/ Boot \/ loadLayout \/ AppDies
         \/ ClientAttaches
         \/ \E p \in Processes : ClientListens(p) \/ ClientExits(p)
  PROVE  TypeOK'
<1> USE DEF native
<1>1. CASE Quit
  <2>1. QuitterOK' /\ ProcessOK'
    BY <1>1, QuittingTyped, Unchanged DEF Quit, QuitterOK
  <2> QED
    BY <1>1, <2>1, Unchanged, TypePartsNext DEF Quit
<1>2. CASE QuitDestroy
  <2>1. CASE AppDies
    BY <2>1, AppDiesTyped
  <2>2. CASE ~AppDies
    <3>1. clientProcess \in Processes /\ ProcessEnds(clientProcess)
      BY <1>2, <2>2 DEF QuitDestroy, TypeOK
    <3>2. ProcessOK' /\ ConnOK' /\ attaching' \in BOOLEAN
      BY <3>1, ProcessEndsTyped
    <3>3. /\ quitter' = "none"
          /\ UNCHANGED <<booting, service, uiVars, mVars, lVars, clientProcess, attached>>
      BY <1>2, <2>2 DEF QuitDestroy
    <3>4. AttachOK' /\ QuitterOK'
      BY <3>2, <3>3 DEF TypeOK, AttachOK, QuitterOK
    <3> QED
      BY <3>2, <3>3, <3>4, Unchanged, TypePartsNext
  <2> QED
    BY <2>1, <2>2
<1>3. ASSUME NEW autostart, onStartCommand(autostart), booting' \in BOOLEAN
      PROVE  TypeOK'
  <2>1. FieldsOK' /\ TasksOK'
    BY <1>3, ExecuteTyped DEF onStartCommand, TypeOK, FieldsOK
  <2> QED
    BY <1>3, <2>1, Unchanged, TypePartsNext DEF onStartCommand
<1>4. CASE OpenApp
  BY <1>3, <1>4 DEF OpenApp, TypeOK
<1>5. CASE Boot
  BY <1>3, <1>5 DEF Boot
<1>6. CASE reinitClient
  BY <1>6, RestartTyped, Unchanged, TypePartsNext DEF reinitClient
<1>7. CASE quitClient
  <2>1. QuitterOK'
    BY <1>7 DEF quitClient, QuitterOK
  <2> QED
    BY <1>7, <2>1, Unchanged, TypePartsNext DEF quitClient
<1>8. ASSUME NEW l \in Logins, attachProject(l)
      PROVE  TypeOK'
  <2>1. LoginsOK'
    BY <1>8 DEF attachProject, TypeOK, LoginsOK, LoginSteps
  <2>2. ScreenOK'
    BY <1>8 DEF attachProject, Publish, TypeOK, ScreenOK, Launching, LoggedOut
  <2> QED
    BY <1>8, <2>1, <2>2, Unchanged, TypePartsNext DEF attachProject
<1>9. CASE loadLayout
  <2>1. ScreenOK'
    BY <1>9 DEF loadLayout, TypeOK, ScreenOK
  <2> QED
    BY <1>9, <2>1, Unchanged, TypePartsNext DEF loadLayout
<1>10. CASE AppDies
  BY <1>10, AppDiesTyped
<1>11. CASE ClientAttaches
  <2>1. AttachOK'
    BY <1>11 DEF ClientAttaches, AttachOK
  <2> QED
    BY <1>11, <2>1, Unchanged, TypePartsNext DEF ClientAttaches
<1>12. ASSUME NEW p \in Processes, ClientListens(p)
       PROVE  TypeOK'
  <2>1. ProcessOK'
    BY <1>12 DEF ClientListens, TypeOK, ProcessOK
  <2> QED
    BY <1>12, <2>1, Unchanged, TypePartsNext DEF ClientListens
<1>13. ASSUME NEW p \in Processes, ClientExits(p)
       PROVE  TypeOK'
  <2>1. ProcessOK' /\ ConnOK' /\ attaching' \in BOOLEAN
    BY <1>13, ProcessEndsTyped DEF ClientExits
  <2>2. AttachOK'
    BY <1>13, <2>1 DEF ClientExits, TypeOK, AttachOK
  <2> QED
    BY <1>13, <2>1, <2>2, Unchanged, TypePartsNext DEF ClientExits
<1> QED
  BY <1>1, <1>2, <1>4, <1>5, <1>6, <1>7, <1>8, <1>9, <1>10, <1>11, <1>12, <1>13
  DEF User

\* The fields of the service, its tasks and the native processes stay in
\* their ranges: no task tries or polls more often than its bound, and the
\* status is one of the four.
THEOREM TypeCorrect == Spec => []TypeOK
<1>1. Init => TypeOK
  <2> SUFFICES ASSUME Init
               PROVE  TypeOK
    OBVIOUS
  <2>1. /\ booting \in BOOLEAN /\ started \in BOOLEAN /\ monitorActive \in BOOLEAN
        /\ authorized \in BOOLEAN /\ attaching \in BOOLEAN
        /\ clientStarted \in [Monitors -> BOOLEAN]
    BY Zenon DEF Init
  <2>2. attempt \in [Monitors -> 0 .. MaxAttempts + 1] /\ poll \in [Logins -> 0 .. MaxPolls]
    BY MonitorAssumption DEF Init
  <2> QED
    BY <2>1, <2>2 DEF Init, TypeOK, Launching, LoggedOut
<1>2. TypeOK /\ [Next]_vars => TypeOK'
  <2> SUFFICES ASSUME TypeOK, [Next]_vars
               PROVE  TypeOK'
    OBVIOUS
  <2>1. CASE Next
    BY <2>1, TypeMonitor, TypeLogin, TypeElse DEF Next
  <2>2. CASE UNCHANGED vars
    BY <2>2 DEF vars, service, uiVars, mVars, lVars, connVars, native, TypeOK
  <2> QED
    BY <2>1, <2>2
<1> QED
  BY <1>1, <1>2, PTL DEF Spec

(***************************************************************************)
(* The tasks and what they have said                                       *)
(***************************************************************************)

Attended == \E m \in Monitors : Working(m)
Promised == \E l \in Logins : lpc[l] = "succeeded"

\* What the invariant depends on; a step that leaves it alone preserves it.
LEMMA UntouchedAttended ==
  ASSUME AttendedInv,
         UNCHANGED <<started, monitorActive, setupStatus, mpc, clientStarted, lpc,
                     clientProcess>>
  PROVE  AttendedInv'
BY DEF AttendedInv, NeverActive, FreshTasks, LaunchedHasProcess,
       StatusIsAttended, Active, Working, LoggingIn

LEMMA AppDiesAttended ==
  ASSUME AppDies
  PROVE  AttendedInv'
BY DEF AppDies, AttendedInv, NeverActive, FreshTasks, LaunchedHasProcess,
       StatusIsAttended, Active, Working, Launching, Available

\* A new monitor task has launched nothing, and whatever the status is, the
\* task attends to it.
LEMMA ExecuteAttended ==
  ASSUME TypeOK, AttendedInv, ExecuteMonitor,
         UNCHANGED <<monitorActive, setupStatus, clientProcess>>
  PROVE  AttendedInv'
<1>1. PICK m \in Monitors : /\ mpc[m] = "none"
                            /\ mpc' = [mpc EXCEPT ![m] = "loop"]
                            /\ UNCHANGED clientStarted
  BY DEF ExecuteMonitor
<1>2. FreshTasks' /\ LaunchedHasProcess'
  BY <1>1 DEF TypeOK, AttendedInv, FreshTasks, LaunchedHasProcess, Active
<1>3. Working(m)'
  BY <1>1 DEF TypeOK, Working
<1>4. StatusIsAttended'
  BY <1>3 DEF StatusIsAttended
<1>5. NeverActive'
  BY DEF AttendedInv, NeverActive
<1> QED
  BY <1>2, <1>4, <1>5 DEF AttendedInv

\* A monitor task that goes on leaves the other tasks as they are; only the
\* launch of a client touches what it knows of its clients.
LEMMA WorkingAttended ==
  ASSUME TypeOK, AttendedInv,
         NEW m \in Monitors, NEW label \in MonitorSteps \ {"post"},
         Active(m), Goto(m, label),
         UNCHANGED <<monitorActive, clientStarted, clientProcess>>
  PROVE  AttendedInv'
<1>1. FreshTasks' /\ LaunchedHasProcess'
  BY DEF TypeOK, AttendedInv, FreshTasks, LaunchedHasProcess, Active, Goto, MonitorSteps
<1>2. Working(m)'
  BY DEF TypeOK, Working, Goto, MonitorSteps
<1>3. StatusIsAttended'
  BY <1>2 DEF StatusIsAttended
<1>4. NeverActive'
  BY DEF AttendedInv, NeverActive
<1> QED
  BY <1>1, <1>3, <1>4 DEF AttendedInv

\* One that has come to its end has said that the user is to do something.
LEMMA GivingUpAttended ==
  ASSUME TypeOK, AttendedInv, NEW m \in Monitors, NEW status \in {Failed, LoggedOut},
         Active(m), Goto(m, "post"), Publish(status),
         UNCHANGED <<monitorActive, clientStarted, clientProcess>>
  PROVE  AttendedInv'
<1>1. FreshTasks' /\ LaunchedHasProcess'
  BY DEF TypeOK, AttendedInv, FreshTasks, LaunchedHasProcess, Active, Goto
<1>2. StatusIsAttended'
  BY DEF StatusIsAttended, Publish, Launching, Available, Failed, LoggedOut
<1> QED
  BY <1>1, <1>2 DEF AttendedInv, NeverActive

LEMMA ConnectFailedAttended ==
  ASSUME TypeOK, AttendedInv, NEW m \in Monitors, Active(m), ConnectFailed(m),
         UNCHANGED <<monitorActive, clientStarted, clientProcess>>
  PROVE  AttendedInv'
<1>1. Goto(m, "shutdown") \/ Goto(m, "connect") \/ Goto(m, "giveUp")
  BY DEF ConnectFailed
<1> QED
  BY <1>1, WorkingAttended DEF MonitorSteps

LEMMA SetupFailedAttended ==
  ASSUME TypeOK, AttendedInv, NEW m \in Monitors, Active(m), SetupFailed(m),
         UNCHANGED <<monitorActive, clientStarted, clientProcess>>
  PROVE  AttendedInv'
BY WorkingAttended DEF SetupFailed, Publish, Failed, Available, MonitorSteps

\* ClientMonitorAsync.
LEMMA MonitorAttended ==
  ASSUME TypeOK, AttendedInv, NEW m \in Monitors, MonitorStep(m)
  PROVE  AttendedInv'
<1> USE DEF service, uiVars, native
<1>0. Active(m) \/ AppDies
  BY DEF MonitorStep, CheckConnection, StartUp, Connect, Authorize,
         shutdownExisitingClient, Destroy, installClient, runClient, checkLogin, StartUpEnds,
         Refresh, MonitorEnds, At, Active
<1>1. CASE AppDies
  BY <1>1, AppDiesAttended
<1>2. CASE ~AppDies
  <2>0. Active(m)
    BY <1>0, <1>2
  <2>1. CASE CheckConnection(m)
    BY <2>0, <2>1, WorkingAttended DEF CheckConnection, MonitorSteps
  <2>2. CASE StartUp(m)
    BY <2>0, <2>2, WorkingAttended DEF StartUp, Publish, MonitorSteps, Launching, Available
  <2>3. CASE Connect(m)
    BY <2>0, <2>3, WorkingAttended, ConnectFailedAttended DEF Connect, MonitorSteps
  <2>4. CASE Authorize(m)
    BY <2>0, <2>4, WorkingAttended, ConnectFailedAttended DEF Authorize, MonitorSteps
  <2>5. CASE shutdownExisitingClient(m)
    BY <2>0, <2>5, WorkingAttended DEF shutdownExisitingClient, MonitorSteps
  <2>6. CASE Destroy(m)
    BY <1>2, <2>0, <2>6, WorkingAttended DEF Destroy, MonitorSteps
  <2>7. CASE installClient(m)
    BY <2>0, <2>7, WorkingAttended, SetupFailedAttended DEF installClient, MonitorSteps
  <2>8. CASE runClient(m)
    <3>1. CASE SetupFailed(m) /\ UNCHANGED <<clientStarted, clientProcess, process>>
      BY <2>0, <2>8, <3>1, SetupFailedAttended DEF runClient
    <3>2. CASE ~(SetupFailed(m) /\ UNCHANGED <<clientStarted, clientProcess, process>>)
      <4>1. clientProcess' \in Processes
        BY <2>8, <3>2 DEF runClient
      <4>2. clientProcess' # None
        BY <4>1, MonitorAssumption
      <4>3. /\ clientStarted' = [clientStarted EXCEPT ![m] = TRUE]
            /\ Goto(m, "connect")
            /\ UNCHANGED <<monitorActive, setupStatus>>
        BY <2>8, <3>2 DEF runClient
      <4>4. FreshTasks' /\ LaunchedHasProcess'
        BY <4>2, <4>3 DEF TypeOK, AttendedInv, FreshTasks, LaunchedHasProcess, Active,
                          Goto, MonitorSteps
      <4>5. Working(m)'
        BY <4>3 DEF TypeOK, Working, Goto
      <4>6. StatusIsAttended'
        BY <4>5 DEF StatusIsAttended
      <4> QED
        BY <4>3, <4>4, <4>6 DEF AttendedInv, NeverActive
    <3> QED
      BY <3>1, <3>2
  <2>9. CASE checkLogin(m)
    <3>1. Goto(m, "available") \/ Goto(m, "loggedOut")
      BY <1>2, <2>9 DEF checkLogin
    <3> QED
      BY <1>2, <2>0, <2>9, <3>1, WorkingAttended DEF checkLogin, MonitorSteps
  <2>10. CASE Refresh(m)
    BY <2>0, <2>10, WorkingAttended DEF Refresh, MonitorSteps
  <2>11. CASE MonitorEnds(m)
    <3>1. /\ At(m, "post") /\ Goto(m, "none") /\ ~monitorActive'
          /\ clientStarted' = [clientStarted EXCEPT ![m] = FALSE]
          /\ UNCHANGED <<started, setupStatus, lpc, clientProcess>>
      BY <2>11 DEF MonitorEnds, lVars
    <3>2. FreshTasks' /\ LaunchedHasProcess'
      BY <3>1 DEF TypeOK, AttendedInv, FreshTasks, LaunchedHasProcess, Active, At, Goto
    <3>3. \A n \in Monitors : Working(n) => Working(n)'
      BY <3>1 DEF TypeOK, Working, At, Goto
    <3>4. StatusIsAttended'
      BY <3>1, <3>3 DEF AttendedInv, StatusIsAttended, LoggingIn
    <3> QED
      BY <3>1, <3>2, <3>4 DEF AttendedInv, NeverActive
  <2>12. CASE StartUpEnds(m)
    <3>1. CASE Goto(m, "refresh")
      BY <2>0, <2>12, <3>1, WorkingAttended DEF StartUpEnds, MonitorSteps
    <3>2. CASE Goto(m, "post") /\ (Publish(LoggedOut) \/ Publish(Failed))
      BY <2>0, <2>12, <3>2, GivingUpAttended DEF StartUpEnds
    <3> QED
      BY <2>12, <3>1, <3>2 DEF StartUpEnds
  <2> QED
    BY <2>1, <2>2, <2>3, <2>4, <2>5, <2>6, <2>7, <2>8, <2>9, <2>10, <2>11, <2>12
    DEF MonitorStep
<1> QED
  BY <1>1, <1>2

\* A login at work attends to a status that says "launching".
LEMMA LoginGoesOn ==
  ASSUME TypeOK, AttendedInv, NEW l \in Logins, NEW label \in LoginSteps,
         lpc[l] # "succeeded", LGoto(l, label) \/ UNCHANGED lpc,
         LoggingIn(l),
         UNCHANGED <<started, monitorActive, setupStatus, mpc, clientStarted,
                     clientProcess>>
  PROVE  AttendedInv'
<1>1. LoggingIn(l)'
  BY DEF TypeOK, LGoto, LoggingIn, LoginSteps
<1>2. Promised => Promised'
  BY DEF TypeOK, LGoto, Promised
<1>3. Attended => Attended'
  BY DEF Attended, Working
<1>4. StatusIsAttended'
  BY <1>1, <1>2, <1>3 DEF AttendedInv, StatusIsAttended, Promised, Attended
<1> QED
  BY <1>4 DEF AttendedInv, NeverActive, FreshTasks, LaunchedHasProcess, Active

\* ProjectAttachAsync.
LEMMA LoginAttended ==
  ASSUME TypeOK, AttendedInv, NEW l \in Logins, LoginStep(l)
  PROVE  AttendedInv'
<1> USE DEF service, uiVars, mVars, native
<1>1. CASE LookupAccount(l)
  BY <1>1, LoginGoesOn DEF LookupAccount, LoggingIn, LoginSteps
<1>2. CASE LookupPoll(l)
  BY <1>2, LoginGoesOn DEF LookupPoll, LoggingIn, LoginSteps
<1>3. CASE ProjectAttach(l)
  BY <1>3, LoginGoesOn DEF ProjectAttach, LoggingIn, LoginSteps
<1>4. CASE AttachPoll(l)
  <2>1. CASE AppDies
    BY <2>1, AppDiesAttended
  <2>2. CASE ~AppDies
    BY <1>4, <2>2, LoginGoesOn DEF AttachPoll, LoggingIn, LoginSteps
  <2> QED
    BY <2>1, <2>2
<1>5. CASE LoginEnds(l)
  <2>1. CASE lpc[l] = "succeeded" /\ restartMonitor /\ UNCHANGED uiVars
    \* What was promised is kept, as monitorActive is never set.
    <3>1. ExecuteMonitor
      BY <2>1 DEF restartMonitor, AttendedInv, NeverActive
    <3> QED
      BY <1>5, <2>1, <3>1, ExecuteAttended DEF LoginEnds
  <2>2. CASE Publish(LoggedOut) /\ UNCHANGED mVars
    BY <1>5, <2>2 DEF LoginEnds, Publish, AttendedInv, NeverActive, FreshTasks,
                      LaunchedHasProcess, StatusIsAttended, Active,
                      Launching, Available, LoggedOut
  <2> QED
    BY <1>5, <2>1, <2>2 DEF LoginEnds
\* The word of success is followed by the monitor in the task's next step.
<1>6. CASE PublishAttached(l)
  <2>1. setupStatus' = Available /\ LGoto(l, "succeeded")
        /\ UNCHANGED <<monitorActive, mpc, clientStarted, clientProcess>>
    BY <1>6 DEF PublishAttached, Publish
  <2>2. Promised'
    BY <2>1 DEF TypeOK, LGoto, Promised
  <2>3. StatusIsAttended'
    BY <2>1, <2>2 DEF StatusIsAttended, Promised, Launching, Available
  <2> QED
    BY <2>1, <2>3 DEF AttendedInv, NeverActive, FreshTasks, LaunchedHasProcess, Active
<1> QED
  BY <1>1, <1>2, <1>3, <1>4, <1>5, <1>6 DEF LoginStep

LEMMA ElseAttended ==
  ASSUME TypeOK, AttendedInv,
         \/ Quit \/ QuitDestroy \/ User \/ Boot \/ loadLayout \/ AppDies
         \/ ClientAttaches
         \/ \E p \in Processes : ClientListens(p) \/ ClientExits(p)
  PROVE  AttendedInv'
<1> USE DEF service, uiVars, mVars, lVars, native
<1>1. CASE AppDies
  BY <1>1, AppDiesAttended
<1>2. CASE ~AppDies /\ (Quit \/ QuitDestroy)
  BY <1>2, UntouchedAttended DEF Quit, QuitDestroy
<1>3. CASE OpenApp \/ Boot
  BY <1>3, ExecuteAttended DEF OpenApp, Boot, onStartCommand
<1>4. CASE reinitClient
  BY <1>4, ExecuteAttended DEF reinitClient, restartMonitor, AttendedInv, NeverActive
<1>5. CASE quitClient \/ loadLayout
  BY <1>5, UntouchedAttended DEF quitClient, loadLayout
<1>6. ASSUME NEW l \in Logins, attachProject(l)
      PROVE  AttendedInv'
  <2>1. lpc' = [lpc EXCEPT ![l] = "lookup"] /\ setupStatus' = Launching
        /\ UNCHANGED <<monitorActive, mpc, clientStarted, clientProcess>>
    BY <1>6 DEF attachProject, Publish
  <2>2. LoggingIn(l)'
    BY <2>1 DEF TypeOK, LoggingIn
  <2>3. StatusIsAttended'
    BY <2>1, <2>2 DEF StatusIsAttended, Launching, Available
  <2> QED
    BY <2>1, <2>3 DEF AttendedInv, NeverActive, FreshTasks, LaunchedHasProcess, Active
<1>7. CASE ClientAttaches
  BY <1>7, UntouchedAttended DEF ClientAttaches
<1>8. ASSUME NEW p \in Processes, ClientListens(p) \/ ClientExits(p)
      PROVE  AttendedInv'
  BY <1>8, UntouchedAttended DEF ClientListens, ClientExits
<1> QED
  BY <1>1, <1>2, <1>3, <1>4, <1>5, <1>6, <1>7, <1>8 DEF User

LEMMA AttendedInvariant == Spec => []AttendedInv
<1>1. Init => AttendedInv
  BY DEF Init, AttendedInv, NeverActive, FreshTasks, LaunchedHasProcess,
         StatusIsAttended, Active, Launching, Available
<1>2. TypeOK /\ AttendedInv /\ [Next]_vars => AttendedInv'
  <2> SUFFICES ASSUME TypeOK, AttendedInv, [Next]_vars
               PROVE  AttendedInv'
    OBVIOUS
  <2>1. CASE Next
    BY <2>1, MonitorAttended, LoginAttended, ElseAttended DEF Next
  <2>2. CASE UNCHANGED vars
    BY <2>2, UntouchedAttended DEF vars, service, uiVars, mVars, lVars, native
  <2> QED
    BY <2>1, <2>2
<1> QED
  BY <1>1, <1>2, TypeCorrect, PTL DEF Spec

\* While the status says "launching", a monitor task or a login is at work
\* that will say something else; while it says "available", a monitor task
\* watches the client or a successful login is about to start one.  However
\* many tasks there are, and in whatever order they write the status, none of
\* them leaves the user with a status nobody attends to.
THEOREM StatusAttended == Spec => []StatusIsAttended
<1>1. AttendedInv => StatusIsAttended
  BY DEF AttendedInv
<1> QED
  BY <1>1, AttendedInvariant, PTL

\* A task that believes it has launched a client has its Process to destroy,
\* whichever tasks have launched clients since.
THEOREM LaunchedProcess == Spec => []LaunchedHasProcess
<1>1. AttendedInv => LaunchedHasProcess
  BY DEF AttendedInv
<1> QED
  BY <1>1, AttendedInvariant, PTL
===============================================================================
