------------------------ MODULE ClientService_proofs ------------------------
(***************************************************************************)
(* Proofs about ClientService: what runs is a complete binary, the binder  *)
(* stands for a client that has been executed, and one life of the service *)
(* executes it once.  All three rest on ServiceInv.  ManagerMonitor        *)
(* composes the service with the Manager; its steps are steps of the       *)
(* service or leave it alone, so the results hold there too.               *)
(***************************************************************************)
EXTENDS ManagerMonitor, TLAPS

(* The permission is given to a complete file only, also by the life of    *)
(* the service that finds a file another one has left.                     *)
PermissionIsWhole ==
    /\ executable => binary = "whole"
    /\ svc = "chmod" => binary = "whole"

(* Both fields say whether this life has executed the client, and the main *)
(* thread runs no setup after it has.                                      *)
FlagsAgree ==
    /\ setupSuccess = nativeProcessStarted
    /\ nativeProcessStarted => svc = "ready"

ServiceInv ==
    /\ ServiceTypeOK
    /\ PermissionIsWhole
    /\ FlagsAgree
    /\ OnlyWholeIsRun
    /\ BinderMeansStarted

-----------------------------------------------------------------------------
(* A device without the client satisfies the invariant. *)
LEMMA InitInv == ServiceInit => ServiceInv
<1> SUFFICES ASSUME ServiceInit
             PROVE  ServiceInv
  OBVIOUS
<1>1. ServiceTypeOK
  <2>1. starting \in 0 .. MaxStarting
    BY MaxStartingAssumption DEF ServiceInit
  <2> QED
    BY <2>1, Zenon DEF ServiceInit, ServiceTypeOK, SvcStates, FileStates
<1>2. PermissionIsWhole /\ FlagsAgree /\ BinderMeansStarted
  BY Zenon DEF ServiceInit, PermissionIsWhole, FlagsAgree, BinderMeansStarted
<1>3. ~(starting > 0)
  BY DEF ServiceInit
<1>4. OnlyWholeIsRun
  BY <1>3, Zenon DEF ServiceInit, OnlyWholeIsRun
<1> QED
  BY <1>1, <1>2, <1>4 DEF ServiceInv

(* The steps of the service itself preserve the invariant. *)
LEMMA ServiceStepInv ==
    ASSUME ServiceInv, ServiceStep
    PROVE  ServiceInv'
<1> USE MaxStartingAssumption
    DEF ServiceInv, ServiceTypeOK, SvcStates, FileStates, PermissionIsWhole,
        FlagsAgree, OnlyWholeIsRun, BinderMeansStarted, fields, files, native
<1>1. CASE AlreadyInstalled
  BY <1>1 DEF AlreadyInstalled
<1>2. CASE StartCopy
  BY <1>2 DEF StartCopy
<1>3. CASE Copied
  BY <1>3 DEF Copied
<1>4. CASE CopyFails
  BY <1>4 DEF CopyFails, SetupFails, SetupReturns
<1>5. CASE SetExecutable
  <2>1. CASE executable' = TRUE /\ UNCHANGED fields
    <3>1. binary = "whole" /\ svc' \in {"exec", "ready"} /\ UNCHANGED binary
      BY <1>5 DEF SetExecutable, SetupFails, SetupReturns
    <3>2. UNCHANGED <<installed, bound, authFile, starting, listening>>
      BY <1>5 DEF SetExecutable
    <3> QED
      BY <1>5, <2>1, <3>1, <3>2 DEF SetExecutable
  <2>2. CASE SetupFails /\ UNCHANGED executable
    BY <1>5, <2>2 DEF SetExecutable, SetupFails, SetupReturns
  <2> QED
    BY <1>5, <2>1, <2>2 DEF SetExecutable
<1>6. CASE RunClient
  BY <1>6 DEF RunClient, SetupReturns
<1>7. CASE RunFails
  BY <1>7 DEF RunFails, SetupFails, SetupReturns
<1>8. CASE onBind
  BY <1>8 DEF onBind
<1>9. CASE AutoCreate
  BY <1>9 DEF AutoCreate, onCreate, FieldsReset
<1> QED
  BY <1>1, <1>2, <1>3, <1>4, <1>5, <1>6, <1>7, <1>8, <1>9 DEF ServiceStep

(* So do the steps of the native client and of the system around it. *)
LEMMA OutsideStepInv ==
    ASSUME ServiceInv,
           NativeStep \/ ListeningExits \/ Binding
             \/ KillService \/ InstallPackage \/ Boot
    PROVE  ServiceInv'
<1> USE MaxStartingAssumption
    DEF ServiceInv, ServiceTypeOK, SvcStates, FileStates, PermissionIsWhole,
        FlagsAgree, OnlyWholeIsRun, BinderMeansStarted, fields, files, native
<1>1. CASE WriteAuthFile
  BY <1>1 DEF WriteAuthFile
<1>2. CASE Listen
  <2>1. starting' \in 0 .. MaxStarting /\ starting > 0
    BY <1>2 DEF Listen
  <2>2. binary = "whole" /\ listening' \in BOOLEAN
    BY <1>2, <2>1, Zenon DEF Listen
  <2>3. UNCHANGED <<installed, bound, svc, fields, files>>
    BY <1>2 DEF Listen
  <2> QED
    BY <2>1, <2>2, <2>3
<1>3. CASE StartingExits
  BY <1>3 DEF StartingExits
<1>4. CASE ListeningExits
  BY <1>4 DEF ListeningExits
<1>5. CASE Binding
  BY <1>5 DEF Binding, Bind, Unbind
<1>6. CASE KillService
  BY <1>6 DEF KillService, FieldsReset
<1>7. CASE InstallPackage
  BY <1>7 DEF InstallPackage, FieldsReset
<1>8. CASE Boot
  <2>1. starting' \in 0 .. MaxStarting /\ ~(starting' > 0)
    BY <1>8 DEF Boot
  <2>2. UNCHANGED <<installed, binary, executable, authFile>>
    BY <1>8 DEF Boot
  <2>3. svc' \in {"install", "down"}
    BY <1>8 DEF Boot
  <2>4. bound' = FALSE /\ listening' = FALSE /\ FieldsReset
    BY <1>8, Zenon DEF Boot
  <2>5. ServiceTypeOK'
    BY <2>1, <2>2, <2>3, <2>4, Zenon DEF FieldsReset
  <2>6. PermissionIsWhole' /\ FlagsAgree' /\ BinderMeansStarted'
    BY <2>2, <2>3, <2>4, Zenon DEF FieldsReset
  <2>7. OnlyWholeIsRun'
    BY <2>1, <2>4, Zenon DEF FieldsReset
  <2> QED
    BY <2>5, <2>6, <2>7
<1> QED
  BY <1>1, <1>2, <1>3, <1>4, <1>5, <1>6, <1>7, <1>8 DEF NativeStep

(* Every step of the service preserves the invariant. *)
LEMMA StepInv ==
    ASSUME ServiceInv, [ServiceNext]_serviceVars
    PROVE  ServiceInv'
<1>1. CASE ServiceStep
  BY <1>1, ServiceStepInv
<1>2. CASE NativeStep \/ ListeningExits \/ Binding
             \/ KillService \/ InstallPackage \/ Boot
  BY <1>2, OutsideStepInv
<1>3. CASE UNCHANGED serviceVars
  BY <1>3
  DEF serviceVars, fields, files, native, ServiceInv, ServiceTypeOK,
      PermissionIsWhole, FlagsAgree, OnlyWholeIsRun, BinderMeansStarted
<1> QED
  BY <1>1, <1>2, <1>3 DEF ServiceNext

(* The invariant holds in every behaviour of the service. *)
THEOREM ServiceInvariant == ServiceSpec => []ServiceInv
<1>1. ServiceInv /\ [ServiceNext]_serviceVars => ServiceInv'
  BY StepInv
<1> QED
  BY InitInv, <1>1, PTL DEF ServiceSpec

(* The starts of a native process come from exec alone, and exec is        *)
(* reached only in a life that has not executed the client.                *)
LEMMA ExecOnce ==
    ASSUME ServiceInv, [ServiceNext]_serviceVars
    PROVE  [starting' > starting => ~nativeProcessStarted /\ ~setupSuccess]_serviceVars
<1> SUFFICES ASSUME ServiceNext, starting' > starting
             PROVE  ~nativeProcessStarted /\ ~setupSuccess
  OBVIOUS
<1> starting \in Nat
  BY MaxStartingAssumption DEF ServiceInv, ServiceTypeOK
<1>1. CASE RunClient
  BY <1>1 DEF RunClient, ServiceInv, FlagsAgree
<1>2. CASE Listen \/ StartingExits \/ Boot
  BY <1>2, starting' <= starting DEF Listen, StartingExits, Boot
<1>3. CASE starting' = starting
  BY <1>3
<1> QED
  BY <1>1, <1>2, <1>3
  DEF ServiceNext, ServiceStep, NativeStep, Binding, AlreadyInstalled,
      StartCopy, Copied, CopyFails, SetExecutable, RunFails, onBind,
      AutoCreate, WriteAuthFile, ListeningExits, KillService,
      InstallPackage, fields, files, native

-----------------------------------------------------------------------------
(* The composition *)

(* Every step of the Manager's module is a step of the service or leaves   *)
(* its variables alone: binding and unbinding is all the Manager does.     *)
LEMMA ManagerStep ==
    ASSUME [Next]_vars
    PROVE  [ServiceNext]_serviceVars
<1> USE DEF serviceVars, fields, files, native
<1>1. CASE bindMonitorService
  BY <1>1 DEF bindMonitorService, initRemoteClientService, ServiceNext, Binding
<1>2. CASE attachProject \/ restartMonitor \/ downloadAndInstallClient \/ clientCall
  BY <1>2
  DEF attachProject, restartMonitor, downloadAndInstallClient, clientCall, Execute
<1>3. CASE RunTask
  <2>1. CASE DownloadFails \/ Downloaded \/ CallReturns
    BY <2>1 DEF DownloadFails, Downloaded, CallReturns, Returns, TaskReturns
  <2>2. CASE MonitorTask
    BY <2>2
    DEF MonitorTask, CheckConnection, Connected, ConnectFails, LastConnectFails,
        Authorized, AuthorizeFails, checkLogin, NoProjectList, PublishAvailable,
        StartUpFails, Refresh, StepTo, Returns, TaskReturns, NullPointerException,
        ProcessEnds, ServiceNext, Binding
  <2>3. CASE AttachTask
    BY <2>3
    DEF AttachTask, LookupAccount, ProjectAttach, Attached, PollsGivenUp,
        NoPollReply, PublishAttached, StepTo, LoginReturns, TaskReturns,
        NullPointerException, ProcessEnds, ServiceNext, Binding
  <2> QED
    BY <1>3, <2>1, <2>2, <2>3 DEF RunTask
<1>4. CASE Callbacks
  BY <1>4
  DEF Callbacks, onServiceConnected, NullConnected, onServiceDisconnected,
      clientInstalledReceiver, initRemoteClientService, LoginEnds,
      ServiceNext, Binding
<1>5. CASE RemoteStep
  BY <1>5 DEF RemoteStep, ServiceNext
<1>6. CASE Environment
  BY <1>6
  DEF Environment, ManagerDies, ProcessEnds, RemoteDies, PackageAdded,
      UserCancels, DeviceRestarts, ClientExits, ClientAttaches,
      ServiceNext, Binding
<1>7. CASE UNCHANGED vars
  BY <1>7 DEF vars
<1> QED
  BY <1>1, <1>2, <1>3, <1>4, <1>5, <1>6, <1>7 DEF Next

(* The Manager with the service behaves, on the variables of the service,  *)
(* as the service does by itself.                                          *)
THEOREM ImplementsClientService == Spec => ServiceSpec
<1>1. Init => ServiceInit
  BY DEF Init
<1>2. [Next]_vars => [ServiceNext]_serviceVars
  BY ManagerStep
<1> QED
  BY <1>1, <1>2, PTL DEF Spec, ServiceSpec

(* In the composed system no process is made from a torn copy of the       *)
(* binary, whatever life of the service was cut off where (installClient). *)
THEOREM OnlyWholeBinaries == Spec => []OnlyWholeIsRun
<1>1. ServiceInv => OnlyWholeIsRun
  BY DEF ServiceInv
<1> QED
  BY <1>1, ImplementsClientService, ServiceInvariant, PTL

(* In the composed system the interface that onBind hands out belongs to a *)
(* life of the service that has executed the client.                       *)
THEOREM BinderIsEarned == Spec => []BinderMeansStarted
<1>1. ServiceInv => BinderMeansStarted
  BY DEF ServiceInv
<1> QED
  BY <1>1, ImplementsClientService, ServiceInvariant, PTL

(* In the composed system one life of the service executes the client at   *)
(* most once (setupClient, from onCreate and onBind).                      *)
THEOREM ExecutedOnce == Spec => OneExecPerLife
<1>1. ServiceInv /\ [ServiceNext]_serviceVars
        => [starting' > starting => ~nativeProcessStarted /\ ~setupSuccess]_serviceVars
  BY ExecOnce
<1>2. Spec => [][ServiceNext]_serviceVars
  BY ImplementsClientService, PTL DEF ServiceSpec
<1>3. Spec => []ServiceInv
  BY ImplementsClientService, ServiceInvariant, PTL
<1> QED
  BY <1>1, <1>2, <1>3, PTL DEF OneExecPerLife

=============================================================================
