---------------------------- MODULE ClientService ----------------------------
(***************************************************************************)
(* The Android service of package edu.berkeley.boinc (BOINC_Client,        *)
(* ClientService.java): it copies the native BOINC client out of its       *)
(* assets, executes it, and hands the GUI RPC key to packages that bind.   *)
(*                                                                         *)
(* All the callbacks of a service run on the main thread of its process,   *)
(* one after the other, so a setup is never interrupted by another one.    *)
(* It can be cut off: the system may end the process between any two of    *)
(* its steps, and what is on the flash memory and the native processes     *)
(* stay as they are.  One life of the service is one object, with fields   *)
(* that start from their initial values.                                   *)
(*                                                                         *)
(* The system asks onBind once in a life and keeps the answer, null too.   *)
(***************************************************************************)
EXTENDS Naturals

CONSTANT MaxStarting    \* bound: native processes that have not yet opened the RPC port

ASSUME MaxStartingAssumption == MaxStarting \in Nat \ {0}

VARIABLES
    installed,             \* the package is on the device
    bound,                 \* some package holds a BIND_AUTO_CREATE binding
    svc,                   \* what the main thread of the service is doing
    caller,                \* the callback that runs setupClient
    setupSuccess,          \* field
    nativeProcessStarted,  \* field
    binder,                \* what onBind has answered in this life
    binary,                \* the content of the file clientPath + clientName
    executable,            \* its execute permission
    authFile,              \* the file clientPath + authFileName
    starting,              \* native processes that do not listen yet
    listening              \* a native process holds the lock file and listens

fields == <<setupSuccess, nativeProcessStarted, binder, caller>>
files == <<binary, executable, authFile>>
native == <<starting, listening>>
serviceVars == <<installed, bound, svc, fields, files, native>>

SvcStates == {"down", "install", "copy", "chmod", "exec", "ready"}
FileStates == {"absent", "partial", "whole"}

ServiceTypeOK ==
    /\ installed \in BOOLEAN
    /\ bound \in BOOLEAN
    /\ svc \in SvcStates
    /\ caller \in {"onCreate", "onBind"}
    /\ setupSuccess \in BOOLEAN
    /\ nativeProcessStarted \in BOOLEAN
    /\ binder \in {"unasked", "null", "given"}
    /\ binary \in FileStates
    /\ executable \in BOOLEAN
    /\ authFile \in {"absent", "partial", "written"}
    /\ starting \in 0 .. MaxStarting
    /\ listening \in BOOLEAN

(* A device that has never run the client, with or without the package. *)
ServiceInit ==
    /\ installed \in BOOLEAN
    /\ bound = FALSE
    /\ svc = "down"
    /\ caller = "onCreate"
    /\ setupSuccess = FALSE
    /\ nativeProcessStarted = FALSE
    /\ binder = "unasked"
    /\ binary = "absent"
    /\ executable = FALSE
    /\ authFile = "absent"
    /\ starting = 0
    /\ listening = FALSE

-----------------------------------------------------------------------------
(* setupClient, on behalf of onCreate or onBind *)

FieldsReset ==
    /\ caller' = "onCreate"
    /\ setupSuccess' = FALSE
    /\ nativeProcessStarted' = FALSE
    /\ binder' = "unasked"

(* setupClient returns: onCreate forgets the result, onBind answers it. *)
SetupReturns(success) ==
    /\ svc' = "ready"
    /\ binder' = IF caller = "onCreate" THEN binder
                 ELSE IF success THEN "given"
                 ELSE "null"
    /\ UNCHANGED caller

SetupFails ==
    /\ SetupReturns(FALSE)
    /\ UNCHANGED <<setupSuccess, nativeProcessStarted>>

(* The life of the service begins; nativeProcessStarted is false, so       *)
(* setupClient goes on to installClient(false).                            *)
onCreate ==
    /\ svc = "down"
    /\ svc' = "install"
    /\ FieldsReset

(* Any file of that name counts as an installed client. *)
AlreadyInstalled ==
    /\ svc = "install"
    /\ binary # "absent"
    /\ svc' = "exec"
    /\ UNCHANGED <<installed, bound, fields, files, native>>

(* Faulty variant: the permission is set when the file is created. *)
ExecutableFirst ==
    /\ svc = "install"
    /\ binary = "absent"
    /\ svc' = "copy"
    /\ binary' = "partial"
    /\ executable' = TRUE
    /\ UNCHANGED <<installed, bound, fields, authFile, native>>

(* The output file exists from here on; the copy has begun. *)
StartCopy ==
    /\ svc = "install"
    /\ binary = "absent"
    /\ svc' = "copy"
    /\ binary' = "partial"
    /\ UNCHANGED <<installed, bound, fields, executable, authFile, native>>

(* The loop has written the whole file. *)
Copied ==
    /\ svc = "copy"
    /\ svc' = "chmod"
    /\ binary' = "whole"
    /\ UNCHANGED <<installed, bound, fields, executable, authFile, native>>

(* An IOException while opening or copying; the file stays as it is. *)
CopyFails ==
    /\ \/ svc = "install" /\ binary = "absent"
       \/ svc = "copy"
    /\ SetupFails
    /\ UNCHANGED <<installed, bound, files, native>>

(* setExecutable, whose effect canExecute reads back *)
SetExecutable ==
    /\ svc = "chmod"
    /\ \/ /\ svc' = "exec"
          /\ executable' = TRUE
          /\ UNCHANGED fields
       \/ /\ SetupFails
          /\ UNCHANGED executable
    /\ UNCHANGED <<installed, bound, binary, authFile, native>>

(* Runtime.exec has made a process of the file. *)
RunClient ==
    /\ svc = "exec"
    /\ executable
    /\ starting < MaxStarting
    /\ starting' = starting + 1
    /\ nativeProcessStarted' = TRUE
    /\ setupSuccess' = TRUE
    /\ SetupReturns(TRUE)
    /\ UNCHANGED <<installed, bound, files, listening>>

(* exec throws: always if the file may not be executed, otherwise if the   *)
(* system has no process to spare.                                         *)
RunFails ==
    /\ svc = "exec"
    /\ SetupFails
    /\ UNCHANGED <<installed, bound, files, native>>

(* Faulty variant: the binder is answered whatever onCreate has achieved. *)
BinderAnyway ==
    /\ svc = "ready"
    /\ bound
    /\ binder = "unasked"
    /\ binder' = "given"
    /\ UNCHANGED <<installed, bound, svc, caller, setupSuccess,
                   nativeProcessStarted, files, native>>

(* Faulty variant: every binding runs the setup. *)
SetupAgain ==
    /\ svc = "ready"
    /\ bound
    /\ binder = "unasked"
    /\ svc' = "install"
    /\ caller' = "onBind"
    /\ UNCHANGED <<installed, bound, setupSuccess, nativeProcessStarted, binder,
                   files, native>>

(* The binding is answered: by the setup of onCreate, or by a second one.  *)
onBind ==
    /\ svc = "ready"
    /\ bound
    /\ binder = "unasked"
    /\ \/ /\ setupSuccess \/ nativeProcessStarted
          /\ binder' = "given"
          /\ UNCHANGED <<svc, caller>>
       \/ /\ ~setupSuccess /\ ~nativeProcessStarted
          /\ svc' = "install"
          /\ caller' = "onBind"
          /\ UNCHANGED binder
    /\ UNCHANGED <<installed, bound, setupSuccess, nativeProcessStarted, files, native>>

(* getAuthToken: the content of the key file as it is now, null without.   *)
readAuthKey == IF authFile = "absent" THEN "null" ELSE authFile

-----------------------------------------------------------------------------
(* The Android system *)

(* A binding with BIND_AUTO_CREATE keeps the service alive: the system     *)
(* creates it, and again after its process has ended.                      *)
AutoCreate ==
    /\ bound /\ installed
    /\ onCreate
    /\ UNCHANGED <<installed, bound, files, native>>

(* Another package binds to the service, and its binding ends. *)
Bind ==
    /\ installed
    /\ bound' = TRUE
Unbind == bound' = FALSE

(* The process ends; the native processes and the files do not. *)
KillService ==
    /\ svc # "down"
    /\ svc' = "down"
    /\ FieldsReset
    /\ UNCHANGED <<installed, bound, files, native>>

(* The package is installed, or replaced by a newer one, which ends its    *)
(* process and keeps its files.                                            *)
InstallPackage ==
    /\ installed' = TRUE
    /\ svc' = "down"
    /\ FieldsReset
    /\ UNCHANGED <<bound, files, native>>

(* The device restarts: every process ends, then BootReceiver starts the   *)
(* service, whose onStartCommand does nothing.                             *)
Boot ==
    /\ bound' = FALSE
    /\ starting' = 0
    /\ listening' = FALSE
    /\ svc' = IF installed THEN "install" ELSE "down"
    /\ FieldsReset
    /\ UNCHANGED <<installed, files>>

-----------------------------------------------------------------------------
(* The native client *)

(* It writes the key file if there is none, before it opens its port. *)
WriteAuthFile ==
    /\ starting > 0
    /\ ~listening
    /\ \/ authFile = "absent" /\ authFile' = "partial"
       \/ authFile = "partial" /\ authFile' = "written"
    /\ UNCHANGED <<installed, bound, svc, fields, binary, executable, native>>

(* It takes the lock file and listens; it ends if another one holds the    *)
(* lock.                                                                   *)
Listen ==
    /\ starting > 0
    /\ starting' = starting - 1
    /\ \/ listening /\ UNCHANGED listening
       \/ ~listening /\ authFile = "written" /\ listening' = TRUE
    /\ UNCHANGED <<installed, bound, svc, fields, files>>

StartingExits ==
    /\ starting > 0
    /\ starting' = starting - 1
    /\ UNCHANGED <<installed, bound, svc, fields, files, listening>>

ListeningExits ==
    /\ listening
    /\ listening' = FALSE
    /\ UNCHANGED <<installed, bound, svc, fields, files, starting>>

-----------------------------------------------------------------------------
ServiceStep ==
    \/ AlreadyInstalled \/ StartCopy \/ Copied \/ CopyFails \/ SetExecutable
    \/ RunClient \/ RunFails
    \/ onBind
    \/ AutoCreate

NativeStep == WriteAuthFile \/ Listen \/ StartingExits

Binding ==
    /\ Bind \/ Unbind
    /\ UNCHANGED <<installed, svc, fields, files, native>>

ServiceNext ==
    \/ ServiceStep
    \/ NativeStep \/ ListeningExits
    \/ Binding
    \/ KillService \/ InstallPackage \/ Boot

ServiceSpec == ServiceInit /\ [][ServiceNext]_serviceVars

-----------------------------------------------------------------------------
(* Native processes are made from a complete binary only, although every   *)
(* file of its name counts as installed and the copy may be cut off at any *)
(* point of it: the execute permission, given last, tells a complete file  *)
(* from a torn one.                                                        *)
OnlyWholeIsRun ==
    starting > 0 \/ listening \/ nativeProcessStarted => binary = "whole"

(* A package that holds the binder has a service that has executed the     *)
(* native client in this life: onBind does not hand out the interface of a *)
(* setup that has failed, whichever of its two attempts it was.            *)
BinderMeansStarted ==
    binder = "given" => svc = "ready" /\ setupSuccess /\ nativeProcessStarted

(* A life of the service executes the native client at most once, although *)
(* onCreate and onBind both run the setup.                                 *)
OneExecPerLife ==
    [][starting' > starting => ~nativeProcessStarted /\ ~setupSuccess]_serviceVars

=============================================================================
