-------------------------- MODULE StatusView_proofs --------------------------
(* Theorems about StatusView, for every set of states the native client   *)
(* can be in and every set of setup statuses that are published.           *)
EXTENDS StatusView, TLAPS

(***************************************************************************)
(* QuietLayoutIsCurrent says what holds when all is quiet.  To be kept by  *)
(* every step it has to say what holds before: loadLayout, once it reads   *)
(* on, has seen a setup status that still holds unless another broadcast   *)
(* comes (ReadingSetup); as long as setClientStatus has not begun to       *)
(* write, what has been read so far is what the fields say                 *)
(* (ReadingCurrent).  A parse error counts as a write that goes on: it is  *)
(* taken back only by a setClientStatus that ends with a broadcast.        *)
(***************************************************************************)
PollHasStatus ==
  mon \in {"getState", "computing", "reason", "network"} => status \in ClientStates

Shown == LayoutOf(setupStatus, computingStatus, computingSuspendReason,
                  networkSuspendReason)

NothingToCome ==
  /\ mIsBound /\ resumed
  /\ mon \in {"sleep", "getState", "computing"}
  /\ ~publishing /\ ~broadcast
  /\ ~computingParseError /\ ~networkParseError

ReadingSetup == reading # "none" => setupStatus = 1 \/ publishing \/ broadcast

ReadingCurrent ==
  NothingToCome =>
    /\ reading = "none"    => layout = Shown
    /\ reading = "reason"  => computingStatus = 1
    /\ reading = "network" => computingStatus = 2

LayoutInv == ReadingSetup /\ ReadingCurrent

(***************************************************************************)
(* Types                                                                   *)
(***************************************************************************)
Details == Reasons \cup NetReasons
Layouts == [setup : -1 .. 3, computing : -1 .. 3, detail : Details]

\* What loadLayout chooses between are layouts.
LEMMA LayoutOfTyped ==
  ASSUME NEW setup \in 0 .. 3, NEW computing \in -1 .. 3,
         NEW reason \in Details, NEW netReason \in Details
  PROVE  LayoutOf(setup, computing, reason, netReason) \in Layouts
<1> DEFINE detail == CASE setup = 1 /\ computing = 1 -> reason
                       [] setup = 1 /\ computing = 2 -> netReason
                       [] OTHER                      -> NotSuspended
           shownAs == IF setup = 1 THEN computing ELSE -1
<1>1. NotSuspended \in Details
  BY DEF Details, Reasons
<1>2. detail \in Details
  BY <1>1
<1>3. shownAs \in -1 .. 3
  OBVIOUS
<1>4. setup \in -1 .. 3
  OBVIOUS
<1>5. LayoutOf(setup, computing, reason, netReason)
        = [setup |-> setup, computing |-> shownAs, detail |-> detail]
  BY DEF LayoutOf
<1> HIDE DEF detail, shownAs
<1> QED
  BY <1>2, <1>3, <1>4, <1>5 DEF Layouts

LEMMA ReasonsTyped ==
  ASSUME NEW c \in ClientStates
  PROVE  c.reason \in Reasons /\ c.netReason \in NetReasons
BY DEF Reasons, NetReasons

LEMMA LoadTyped ==
  ASSUME TypeOK, NEW bound, loadLayout(bound)
  PROVE  /\ reading' \in {"none", "computing", "reason", "network"}
         /\ layout' \in Layouts
<1>1. NotSuspended \in Details
  BY DEF Details, Reasons
<1>2. LayoutOf(setupStatus, -1, NotSuspended, NotSuspended) \in Layouts
  BY <1>1, LayoutOfTyped DEF TypeOK
<1> QED
  BY <1>2 DEF TypeOK, loadLayout, Layouts, Details

\* The monitor thread.
LEMMA TypeMonitorThread ==
  ASSUME TypeOK, PollHasStatus, MonitorThread
  PROVE  TypeOK' /\ PollHasStatus'
<1> USE DEF TypeOK, PollHasStatus, parsed, tab
<1>1. CASE getCcStatus
  BY <1>1 DEF getCcStatus
<1>2. CASE getState
  <2>1. CASE activeTask' = client.active
    <3>1. activeTask' \in BOOLEAN
      BY <2>1, ClientStatesAssumption
    <3> QED
      BY <1>2, <3>1 DEF getState
  <2>2. CASE UNCHANGED activeTask
    BY <1>2, <2>2 DEF getState
  <2> QED
    BY <1>2, <2>1, <2>2 DEF getState
<1>3. CASE parseComputingStatus
  <2>1. ComputingStatus \in 0 .. 3
    BY DEF ComputingStatus
  <2>2. computingStatus' \in 0 .. 3
    BY <1>3, <2>1 DEF parseComputingStatus
  <2>3. computingParseError' \in BOOLEAN /\ activeTask' \in BOOLEAN
    BY <1>3, Zenon DEF parseComputingStatus
  <2> QED
    BY <1>3, <2>2, <2>3 DEF parseComputingStatus
<1>4. CASE parseSuspendReason
  <2>1. computingSuspendReason' \in Reasons
    BY <1>4, ReasonsTyped DEF parseSuspendReason
  <2>2. computingParseError' = FALSE \/ computingParseError' = computingParseError
    BY <1>4 DEF parseSuspendReason
  <2>3. computingParseError' \in BOOLEAN
    BY <2>2, Zenon
  <2> QED
    BY <1>4, <2>1, <2>3 DEF parseSuspendReason
<1>5. CASE parseNetworkStatus
  <2>1. networkSuspendReason' \in NetReasons
    BY <1>5, ReasonsTyped DEF parseNetworkStatus
  <2>2. networkParseError' \in BOOLEAN
    BY <1>5, Zenon DEF parseNetworkStatus
  <2> QED
    BY <1>5, <2>1, <2>2 DEF parseNetworkStatus
<1>6. CASE fire
  <2>1. broadcast' \in BOOLEAN
    BY <1>6, Zenon DEF fire
  <2> QED
    BY <1>6, <2>1 DEF fire
<1> QED
  BY <1>1, <1>2, <1>3, <1>4, <1>5, <1>6 DEF MonitorThread, setClientStatus

\* The tab and the tasks that publish.
LEMMA TypeElse ==
  ASSUME TypeOK, PollHasStatus,
         \/ Publish \/ FirePublished \/ MainThread
         \/ onServiceConnected \/ onResume \/ onPause
         \/ mEnableClickListener \/ mDisableClickListener
         \/ ClientChanges
  PROVE  TypeOK' /\ PollHasStatus'
<1> USE DEF TypeOK, PollHasStatus, parsed, tab, TabStep
<1>0. NotSuspended \in Details /\ Reasons \subseteq Details /\ NetReasons \subseteq Details
  BY DEF Details, Reasons
<1>1. CASE Publish
  <2>1. publishing' \in BOOLEAN
    BY <1>1, Zenon DEF Publish
  <2>2. setupStatus' \in 0 .. 3
    BY <1>1, PublishedAssumption DEF Publish
  <2> QED
    BY <1>1, <2>1, <2>2 DEF Publish
<1>2. CASE FirePublished
  <2>1. publishing' \in BOOLEAN /\ broadcast' \in BOOLEAN
    BY <1>2, Zenon DEF FirePublished
  <2> QED
    BY <1>2, <2>1 DEF FirePublished
<1>3. CASE ReadComputingStatus
  <2>1. LayoutOf(1, computingStatus, NotSuspended, NotSuspended) \in Layouts
    BY <1>0, LayoutOfTyped
  <2>2. layout' \in Layouts
    BY <1>3, <2>1 DEF ReadComputingStatus, Layouts, Details
  <2>3. reading' \in {"none", "computing", "reason", "network"}
    BY <1>3 DEF ReadComputingStatus
  <2> QED
    BY <1>3, <2>2, <2>3 DEF ReadComputingStatus, Layouts, Details
<1>4. CASE ReadReason
  <2>1. \A k \in 1 .. 2 :
          LayoutOf(1, k, computingSuspendReason, networkSuspendReason) \in Layouts
    BY <1>0, LayoutOfTyped
  <2>2. layout' \in Layouts
    BY <1>4, <2>1 DEF ReadReason
  <2> QED
    BY <1>4, <2>2 DEF ReadReason, Layouts, Details
<1>5. CASE onReceive
  <2>1. broadcast' \in BOOLEAN
    BY <1>5, Zenon DEF onReceive
  <2> QED
    BY <1>5, <2>1, LoadTyped DEF onReceive, Layouts, Details
<1>6. CASE onServiceConnected
  <2>1. mIsBound' \in BOOLEAN
    BY <1>6, Zenon DEF onServiceConnected
  <2> QED
    BY <1>6, <2>1, LoadTyped DEF onServiceConnected, Layouts, Details
<1>7. CASE onResume
  <2>1. resumed' \in BOOLEAN
    BY <1>7, Zenon DEF onResume
  <2> QED
    BY <1>7, <2>1, LoadTyped DEF onResume, Layouts, Details
<1>8. CASE onPause
  <2>1. resumed' \in BOOLEAN
    BY <1>8, Zenon DEF onPause
  <2> QED
    BY <1>8, <2>1 DEF onPause
<1>9. CASE mEnableClickListener \/ mDisableClickListener
  BY <1>9 DEF mEnableClickListener, mDisableClickListener, setRunMode
<1>10. CASE ClientChanges
  BY <1>10 DEF ClientChanges
<1> QED
  BY <1>1, <1>2, <1>3, <1>4, <1>5, <1>6, <1>7, <1>8, <1>9, <1>10 DEF MainThread, Reading

LEMMA TypeInvariant == Spec => [](TypeOK /\ PollHasStatus)
<1>1. Init => TypeOK /\ PollHasStatus
  <2> SUFFICES ASSUME Init
               PROVE  TypeOK /\ PollHasStatus
    OBVIOUS
  <2>1. /\ activeTask \in BOOLEAN /\ computingParseError \in BOOLEAN
        /\ networkParseError \in BOOLEAN /\ publishing \in BOOLEAN
        /\ broadcast \in BOOLEAN /\ mIsBound \in BOOLEAN /\ resumed \in BOOLEAN
    BY Zenon DEF Init
  <2>2. NotSuspended \in Reasons /\ NotSuspended \in NetReasons
    BY DEF Reasons, NetReasons
  <2> QED
    BY <2>1, <2>2 DEF Init, TypeOK, PollHasStatus, Blank
<1>2. TypeOK /\ PollHasStatus /\ [Next]_vars => (TypeOK /\ PollHasStatus)'
  <2> SUFFICES ASSUME TypeOK, PollHasStatus, [Next]_vars
               PROVE  TypeOK' /\ PollHasStatus'
    OBVIOUS
  <2>1. CASE Next
    BY <2>1, TypeMonitorThread, TypeElse DEF Next
  <2>2. CASE UNCHANGED vars
    BY <2>2 DEF vars, parsed, tab, TypeOK, PollHasStatus
  <2> QED
    BY <2>1, <2>2
<1> QED
  BY <1>1, <1>2, PTL DEF Spec

\* The fields of ClientStatus, the monitor thread and the tab stay in their
\* ranges; a status or a reason that is shown is one the client has had.
THEOREM TypeCorrect == Spec => []TypeOK
BY TypeInvariant, PTL

(***************************************************************************)
(* The layout                                                              *)
(***************************************************************************)

\* loadLayout shows the fields, or begins to read them.
LEMMA LoadShows ==
  ASSUME loadLayout(TRUE), reading = "none", UNCHANGED <<setupStatus, parsed>>
  PROVE  /\ reading' # "none" => setupStatus' = 1
         /\ reading' \in {"none", "computing"}
         /\ reading' = "none" => layout' = Shown'
BY DEF loadLayout, parsed, Shown, LayoutOf

LEMMA LayoutMonitorThread ==
  ASSUME TypeOK, LayoutInv, MonitorThread
  PROVE  LayoutInv'
<1> USE DEF LayoutInv, parsed, tab
<1>1. ReadingSetup'
  BY DEF MonitorThread, setClientStatus, getCcStatus, getState, parseComputingStatus,
         parseSuspendReason, parseNetworkStatus, fire, ReadingSetup
<1>2. CASE getCcStatus \/ getState
  <2>1. NothingToCome' => NothingToCome
    BY <1>2 DEF NothingToCome, getCcStatus, getState
  <2> QED
    BY <1>1, <1>2, <2>1 DEF ReadingCurrent, Shown, getCcStatus, getState
<1>3. CASE parseComputingStatus \/ parseSuspendReason \/ parseNetworkStatus
  <2>1. ~NothingToCome'
    BY <1>3 DEF NothingToCome, parseComputingStatus, parseSuspendReason, parseNetworkStatus
  <2> QED
    BY <1>1, <2>1 DEF ReadingCurrent
<1>4. CASE fire
  \* Either the broadcast comes, or a mode could not be parsed.
  <2>1. ~NothingToCome'
    BY <1>4 DEF NothingToCome, fire
  <2> QED
    BY <1>1, <2>1 DEF ReadingCurrent
<1> QED
  BY <1>2, <1>3, <1>4 DEF MonitorThread, setClientStatus

LEMMA LayoutMainThread ==
  ASSUME TypeOK, LayoutInv,
         MainThread \/ onServiceConnected \/ onResume \/ onPause
  PROVE  LayoutInv'
<1> USE DEF LayoutInv, TabStep, parsed, MainThreadFree
<1>1. CASE ReadComputingStatus
  <2>1. ReadingSetup'
    BY <1>1 DEF ReadComputingStatus, ReadingSetup
  <2>2. ASSUME NothingToCome'
        PROVE  /\ reading' = "none"    => layout' = Shown'
               /\ reading' = "reason"  => computingStatus' = 1
               /\ reading' = "network" => computingStatus' = 2
    <3>1. setupStatus = 1
      BY <1>1, <2>2 DEF ReadComputingStatus, ReadingSetup, NothingToCome
    <3> QED
      BY <1>1, <3>1 DEF ReadComputingStatus, Shown, LayoutOf
  <2> QED
    BY <2>1, <2>2 DEF ReadingCurrent
<1>2. CASE ReadReason
  <2>1. ReadingSetup'
    BY <1>2 DEF ReadReason, ReadingSetup
  <2>2. ASSUME NothingToCome'
        PROVE  layout' = Shown' /\ reading' = "none"
    <3>1. NothingToCome /\ setupStatus = 1
      BY <1>2, <2>2 DEF ReadReason, ReadingSetup, NothingToCome
    <3>2. computingStatus = IF reading = "reason" THEN 1 ELSE 2
      BY <1>2, <3>1 DEF ReadReason, ReadingCurrent
    <3> QED
      BY <1>2, <3>1, <3>2 DEF ReadReason, Shown
  <2> QED
    BY <2>1, <2>2 DEF ReadingCurrent
<1>3. CASE onReceive
  <2>1. CASE mIsBound /\ resumed
    <3>1. loadLayout(TRUE) /\ reading = "none"
      BY <1>3, <2>1 DEF onReceive, loadLayout
    <3> QED
      BY <1>3, <3>1, LoadShows DEF onReceive, ReadingSetup, ReadingCurrent
  <2>2. CASE ~(mIsBound /\ resumed)
    <3>1. UNCHANGED reading /\ ~NothingToCome'
      BY <1>3, <2>2 DEF onReceive, loadLayout, NothingToCome
    <3> QED
      BY <1>3, <3>1 DEF onReceive, ReadingSetup, ReadingCurrent
  <2> QED
    BY <2>1, <2>2
<1>4. CASE onServiceConnected
  BY <1>4, LoadShows DEF onServiceConnected, ReadingSetup, ReadingCurrent
<1>5. CASE onResume
  <2>1. CASE mIsBound
    <3>1. loadLayout(TRUE) /\ reading = "none"
      BY <1>5, <2>1 DEF onResume, loadLayout
    <3> QED
      BY <1>5, <3>1, LoadShows DEF onResume, ReadingSetup, ReadingCurrent
  <2>2. CASE ~mIsBound
    <3>1. UNCHANGED reading /\ ~NothingToCome'
      BY <1>5, <2>2 DEF onResume, loadLayout, NothingToCome
    <3> QED
      BY <1>5, <3>1 DEF onResume, ReadingSetup, ReadingCurrent
  <2> QED
    BY <2>1, <2>2
<1>6. CASE onPause
  <2>1. ~NothingToCome'
    BY <1>6 DEF onPause, NothingToCome
  <2> QED
    BY <1>6, <2>1 DEF onPause, ReadingSetup, ReadingCurrent
<1> QED
  BY <1>1, <1>2, <1>3, <1>4, <1>5, <1>6 DEF MainThread, Reading

LEMMA LayoutElse ==
  ASSUME LayoutInv,
         \/ Publish \/ FirePublished
         \/ mEnableClickListener \/ mDisableClickListener \/ ClientChanges
  PROVE  LayoutInv'
<1> USE DEF LayoutInv, ReadingSetup, ReadingCurrent, parsed, tab
<1>1. CASE Publish \/ FirePublished
  <2>1. ~NothingToCome'
    BY <1>1 DEF NothingToCome, Publish, FirePublished
  <2> QED
    BY <1>1, <2>1 DEF Publish, FirePublished
<1>2. CASE mEnableClickListener \/ mDisableClickListener \/ ClientChanges
  BY <1>2 DEF mEnableClickListener, mDisableClickListener, setRunMode, ClientChanges,
              NothingToCome, Shown
<1> QED
  BY <1>1, <1>2

LEMMA LayoutInvariant == Spec => []LayoutInv
<1>1. Init => LayoutInv
  BY DEF Init, LayoutInv, ReadingSetup, ReadingCurrent, NothingToCome
<1>2. TypeOK /\ LayoutInv /\ [Next]_vars => LayoutInv'
  <2> SUFFICES ASSUME TypeOK, LayoutInv, [Next]_vars
               PROVE  LayoutInv'
    OBVIOUS
  <2>1. CASE Next
    BY <2>1, LayoutMonitorThread, LayoutMainThread, LayoutElse DEF Next
  <2>2. CASE UNCHANGED vars
    BY <2>2 DEF vars, parsed, tab, LayoutInv, ReadingSetup, ReadingCurrent,
                NothingToCome, Shown
  <2> QED
    BY <2>1, <2>2
<1> QED
  BY <1>1, <1>2, TypeCorrect, PTL DEF Spec

\* Once every broadcast has arrived, the tab shows what the fields of
\* ClientStatus say together, whatever the client did and whenever it was
\* polled, whenever the tab was read, hidden or shown: no unlocked read, lost
\* or discarded broadcast leaves a mixture of two statuses or an old one.
THEOREM QuietLayout == Spec => []QuietLayoutIsCurrent
<1>1. LayoutInv => QuietLayoutIsCurrent
  BY DEF LayoutInv, ReadingCurrent, NothingToCome, QuietLayoutIsCurrent, Shown
<1> QED
  BY <1>1, LayoutInvariant, PTL
==============================================================================
