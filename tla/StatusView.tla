----------------------------- MODULE StatusView -----------------------------
(***************************************************************************)
(* What the status tab shows of the native client's computing and network  *)
(* status (ClientStatus.java and StatusActivity.java of the Bundle).       *)
(*                                                                         *)
(* The monitor thread polls the client with several RPCs, then             *)
(* ClientStatus.setClientStatus parses the objects into public fields and  *)
(* broadcasts that they have changed, unless a mode could not be parsed.   *)
(* The tab reads the fields, one by one and without a lock, on the main    *)
(* thread when a broadcast arrives, when it comes to the front and when    *)
(* the service is bound.  Setup statuses are published by module Monitor's *)
(* tasks; here they may change at any time.                                *)
(*                                                                         *)
(* Broadcasts carry nothing and reload the layout, so any number of them   *)
(* under way counts as one: only the last to arrive matters.               *)
(***************************************************************************)
EXTENDS Integers

CONSTANTS
    ClientStates,    \* [mode, reason, active, net] the native client can be in
    NoStatus,        \* no poll is under way
    NotSuspended,    \* SUSPEND_NOT_SUSPENDED
    Published        \* bound: setup statuses that are published

Modes == {"always", "auto", "never"}
NetModes == Modes

ASSUME ClientStatesAssumption ==
    \A c \in ClientStates :
        /\ c.mode \in Modes
        /\ c.net \in NetModes
        /\ c.active \in BOOLEAN
ASSUME PublishedAssumption == Published \subseteq 0 .. 3

VARIABLES
    client,              \* the native client
    status,              \* CcStatus of the poll that is under way, until its last use
    activeTask,          \* getState has an active result, until its last use
    mon,                 \* where the monitor thread is
    setupStatus,
    computingStatus, computingSuspendReason, computingParseError,
    networkSuspendReason, networkParseError,
    publishing,          \* a new setupStatus is set and not yet fired
    broadcast,           \* clientstatuschange is on its way
    mIsBound,            \* the tab is bound to the service
    resumed,             \* the tab is in front, its receiver registered
    reading,             \* what loadLayout reads next
    layout               \* what the tab shows

parsed == <<computingStatus, computingSuspendReason, computingParseError,
            networkSuspendReason, networkParseError>>
tab == <<mIsBound, resumed, reading, layout>>
vars == <<client, status, activeTask, mon, setupStatus, parsed, publishing,
          broadcast, tab>>

Reasons == { c.reason : c \in ClientStates } \cup {NotSuspended}
NetReasons == { c.netReason : c \in ClientStates } \cup {NotSuspended}

(* The layouts that loadLayout chooses between; computing and detail       *)
(* matter for setup status 1 only, and detail for a suspended or an idle   *)
(* client.                                                                 *)
Blank == [setup |-> -1, computing |-> -1, detail |-> NotSuspended]

LayoutOf(setup, computing, reason, netReason) ==
    [setup |-> setup,
     computing |-> IF setup = 1 THEN computing ELSE -1,
     detail |-> CASE setup = 1 /\ computing = 1 -> reason
                  [] setup = 1 /\ computing = 2 -> netReason
                  [] OTHER                      -> NotSuspended]

TypeOK ==
    /\ client \in ClientStates
    /\ status \in ClientStates \cup {NoStatus}
    /\ activeTask \in BOOLEAN
    /\ mon \in {"sleep", "getState", "computing", "reason", "network", "fire"}
    /\ setupStatus \in 0 .. 3
    /\ computingStatus \in 0 .. 3
    /\ computingSuspendReason \in Reasons
    /\ networkSuspendReason \in NetReasons
    /\ computingParseError \in BOOLEAN /\ networkParseError \in BOOLEAN
    /\ publishing \in BOOLEAN /\ broadcast \in BOOLEAN
    /\ mIsBound \in BOOLEAN /\ resumed \in BOOLEAN
    /\ reading \in {"none", "computing", "reason", "network"}
    /\ layout \in [setup : -1 .. 3, computing : -1 .. 3,
                   detail : Reasons \cup NetReasons]

(* The fields of ClientStatus with their initial values *)
Init ==
    /\ client \in ClientStates
    /\ status = NoStatus
    /\ activeTask = FALSE
    /\ mon = "sleep"
    /\ setupStatus = 0
    /\ computingStatus = 2
    /\ computingSuspendReason = NotSuspended
    /\ computingParseError = FALSE
    /\ networkSuspendReason = NotSuspended
    /\ networkParseError = FALSE
    /\ publishing = FALSE
    /\ broadcast = FALSE
    /\ mIsBound = FALSE
    /\ resumed = FALSE
    /\ reading = "none"
    /\ layout = Blank

-----------------------------------------------------------------------------
(* The monitor thread *)

(* getCcStatus, which the loop reaches with a connection only *)
getCcStatus ==
    /\ mon = "sleep"
    /\ setupStatus = 1
    /\ mon' = "getState"
    /\ status' = client
    /\ UNCHANGED <<client, activeTask, setupStatus, parsed, publishing,
                   broadcast, tab>>

(* getState and the other queries; a null result drops the poll.  The      *)
(* client may have changed since getCcStatus.                              *)
getState ==
    /\ mon = "getState"
    /\ \/ mon' = "computing" /\ activeTask' = client.active /\ UNCHANGED status
       \/ mon' = "sleep" /\ status' = NoStatus /\ UNCHANGED activeTask
    /\ UNCHANGED <<client, setupStatus, parsed, publishing, broadcast,
                   tab>>

ComputingStatus ==
    IF status.mode = "never" THEN 0
    ELSE IF status.reason # NotSuspended THEN 1
    ELSE IF activeTask THEN 3
    ELSE 2

(* parseComputingStatus writes the status, then the reason; a mode it does *)
(* not know leaves both as they are.                                       *)
parseComputingStatus ==
    /\ mon = "computing"
    /\ mon' = "reason"
    /\ computingParseError' = TRUE
    /\ computingStatus' =
          IF status.mode = "always" THEN computingStatus ELSE ComputingStatus
    /\ activeTask' = FALSE
    /\ UNCHANGED <<client, status, setupStatus, computingSuspendReason,
                   networkSuspendReason, networkParseError, publishing, broadcast, tab>>

(* Faulty variants: the reason of the network, and an error that stays. *)
NetworkReason ==
    /\ mon = "reason"
    /\ mon' = "network"
    /\ \/ /\ status.mode # "always"
          /\ computingSuspendReason' = status.netReason
          /\ computingParseError' = FALSE
       \/ /\ status.mode = "always"
          /\ UNCHANGED <<computingSuspendReason, computingParseError>>
    /\ UNCHANGED <<client, status, activeTask, setupStatus, computingStatus,
                   networkSuspendReason, networkParseError, publishing,
                   broadcast, tab>>
ErrorStays ==
    /\ mon = "reason"
    /\ mon' = "network"
    /\ computingSuspendReason' =
          IF status.mode = "always" THEN computingSuspendReason ELSE status.reason
    /\ UNCHANGED <<client, status, activeTask, setupStatus, computingStatus,
                   computingParseError, networkSuspendReason,
                   networkParseError, publishing, broadcast, tab>>

parseSuspendReason ==
    /\ mon = "reason"
    /\ mon' = "network"
    /\ \/ /\ status.mode # "always"
          /\ computingSuspendReason' = status.reason
          /\ computingParseError' = FALSE
       \/ /\ status.mode = "always"
          /\ UNCHANGED <<computingSuspendReason, computingParseError>>
    /\ UNCHANGED <<client, status, activeTask, setupStatus, computingStatus,
                   networkSuspendReason, networkParseError, publishing,
                   broadcast, tab>>

(* The tab reads no more of the network status than its reason. *)
parseNetworkStatus ==
    /\ mon = "network"
    /\ mon' = "fire"
    /\ networkParseError' = (status.net = "always")
    /\ networkSuspendReason' =
          IF status.net = "always" THEN networkSuspendReason ELSE status.netReason
    /\ status' = NoStatus
    /\ UNCHANGED <<client, activeTask, setupStatus, computingStatus,
                   computingSuspendReason, computingParseError, publishing,
                   broadcast, tab>>

(* setClientStatus ends with the broadcast, or discards the change. *)
fire ==
    /\ mon = "fire"
    /\ mon' = "sleep"
    /\ broadcast' = (broadcast \/ ~(computingParseError \/ networkParseError))
    /\ UNCHANGED <<client, status, activeTask, setupStatus, parsed, publishing, tab>>

(* A task of the service sets a setup status and fires. *)
Publish ==
    /\ ~publishing
    /\ setupStatus' \in Published
    /\ publishing' = TRUE
    /\ UNCHANGED <<client, status, activeTask, mon, parsed, broadcast, tab>>

FirePublished ==
    /\ publishing
    /\ publishing' = FALSE
    /\ broadcast' = TRUE
    /\ UNCHANGED <<client, status, activeTask, mon, setupStatus, parsed, tab>>

-----------------------------------------------------------------------------
(* The tab, on the main thread *)

MainThreadFree == reading = "none"

(* loadLayout begins: nothing without the service, otherwise the setup     *)
(* status chooses the layout or whether to read on.  The screen is drawn   *)
(* after the callback, so the layout changes at the last read.             *)
loadLayout(bound) ==
    \/ /\ ~bound
       /\ UNCHANGED <<reading, layout>>
    \/ /\ bound /\ setupStatus = 1
       /\ reading' = "computing"
       /\ UNCHANGED layout
    \/ /\ bound /\ setupStatus # 1
       /\ layout' = LayoutOf(setupStatus, -1, NotSuspended, NotSuspended)
       /\ UNCHANGED reading

TabStep ==
    UNCHANGED <<client, status, activeTask, mon, setupStatus, parsed, publishing>>

ReadComputingStatus ==
    /\ reading = "computing"
    /\ CASE computingStatus = 1 -> reading' = "reason" /\ UNCHANGED layout
         [] computingStatus = 2 -> reading' = "network" /\ UNCHANGED layout
         [] OTHER ->
              /\ reading' = "none"
              /\ layout' = LayoutOf(1, computingStatus, NotSuspended, NotSuspended)
    /\ TabStep /\ UNCHANGED <<broadcast, mIsBound, resumed>>

(* The reason why computing is suspended, or, for an idle client, why the  *)
(* network is.                                                             *)
ReadReason ==
    /\ reading \in {"reason", "network"}
    /\ layout' = LayoutOf(1, IF reading = "reason" THEN 1 ELSE 2,
                          computingSuspendReason, networkSuspendReason)
    /\ reading' = "none"
    /\ TabStep /\ UNCHANGED <<broadcast, mIsBound, resumed>>

onServiceConnected ==
    /\ MainThreadFree
    /\ ~mIsBound
    /\ mIsBound' = TRUE
    /\ loadLayout(TRUE)
    /\ TabStep /\ UNCHANGED <<broadcast, resumed>>

(* Faulty variant: coming to the front only registers the receiver. *)
OnlyRegisters ==
    /\ MainThreadFree
    /\ ~resumed
    /\ resumed' = TRUE
    /\ UNCHANGED <<reading, layout>>
    /\ TabStep /\ UNCHANGED <<broadcast, mIsBound>>

onResume ==
    /\ MainThreadFree
    /\ ~resumed
    /\ resumed' = TRUE
    /\ loadLayout(mIsBound)
    /\ TabStep /\ UNCHANGED <<broadcast, mIsBound>>

onPause ==
    /\ MainThreadFree
    /\ resumed
    /\ resumed' = FALSE
    /\ TabStep /\ UNCHANGED <<broadcast, mIsBound, reading, layout>>

(* The broadcast arrives; without a registered receiver it is lost. *)
onReceive ==
    /\ MainThreadFree
    /\ broadcast
    /\ broadcast' = FALSE
    /\ loadLayout(mIsBound /\ resumed)
    /\ TabStep /\ UNCHANGED <<mIsBound, resumed>>

(* The two buttons of the computing layouts start a task that writes the   *)
(* run mode, or fails to.  A write that is late is a ClientChanges.        *)
setRunMode(mode) ==
    /\ MainThreadFree
    /\ resumed /\ mIsBound
    /\ client' \in {client} \cup { c \in ClientStates : c.mode = mode }
    /\ UNCHANGED <<status, activeTask, mon, setupStatus, parsed, publishing,
                   broadcast, tab>>

mEnableClickListener ==
    /\ layout.setup = 1 /\ layout.computing = 0
    /\ setRunMode("auto")

mDisableClickListener ==
    /\ layout.setup = 1 /\ layout.computing \in 1 .. 3
    /\ setRunMode("never")

-----------------------------------------------------------------------------
(* The client changes by itself or for another user interface. *)
ClientChanges ==
    /\ client' \in ClientStates
    /\ UNCHANGED <<status, activeTask, mon, setupStatus, parsed, publishing,
                   broadcast, tab>>

-----------------------------------------------------------------------------
setClientStatus ==
    parseComputingStatus \/ parseSuspendReason \/ parseNetworkStatus \/ fire
MonitorThread == getCcStatus \/ getState \/ setClientStatus
Reading == ReadComputingStatus \/ ReadReason
MainThread == Reading \/ onReceive

Next ==
    \/ MonitorThread
    \/ Publish \/ FirePublished
    \/ MainThread
    \/ onServiceConnected \/ onResume \/ onPause
    \/ mEnableClickListener \/ mDisableClickListener
    \/ ClientChanges

(* Both threads go on, and a poll does not fail every time. *)
Fairness ==
    /\ WF_vars(MonitorThread)
    /\ SF_vars(getState /\ mon' = "computing")
    /\ WF_vars(FirePublished)
    /\ WF_vars(MainThread)

Spec == Init /\ [][Next]_vars /\ Fairness

-----------------------------------------------------------------------------
(* Once every broadcast has arrived, the tab shows what the fields of      *)
(* ClientStatus say together: the unlocked reads of loadLayout, broadcasts *)
(* lost while the tab is behind, and discarded ones leave no mixture of    *)
(* two statuses and no old one, unless the last poll could not be parsed.  *)
QuietLayoutIsCurrent ==
    /\ mIsBound /\ resumed
    /\ mon = "sleep" /\ ~publishing /\ ~broadcast /\ reading = "none"
    /\ ~computingParseError /\ ~networkParseError
    => layout = LayoutOf(setupStatus, computingStatus, computingSuspendReason,
                         networkSuspendReason)

(* With both modes known to the parser, the tab in front and the setup     *)
(* complete, it comes to show the state the client stays in, although      *)
(* status and tasks are polled apart and earlier changes were discarded.   *)
Parseable(c) == c.mode # "always" /\ c.net # "always"

Shows(c) ==
    LET computing == IF c.mode = "never" THEN 0
                     ELSE IF c.reason # NotSuspended THEN 1
                     ELSE IF c.active THEN 3
                     ELSE 2
    IN layout = LayoutOf(1, computing, c.reason, c.netReason)

LayoutConverges ==
    \A c \in ClientStates :
        Parseable(c) =>
            (<>[](client = c /\ mIsBound /\ resumed /\ setupStatus = 1)
                => <>[]Shows(c))

=============================================================================
