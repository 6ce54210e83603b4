-------------------------------- MODULE Prefs --------------------------------
(***************************************************************************)
(* Changing the client's preferences in BOINC_Client-Manager_Bundle:       *)
(* PrefsActivity, WriteClientPrefsAsync of the monitor service, the        *)
(* refresh of the monitor loop, and the GlobalPreferences of ClientStatus. *)
(*                                                                         *)
(* The activity changes the GlobalPreferences object that ClientStatus     *)
(* holds, hands it to a task that writes it to the client, shows a loading *)
(* layout, and goes back to the list at the next broadcast of any kind.    *)
(* Meanwhile the refresh replaces the object by what it has read from the  *)
(* client.  Activity and receiver run on the main thread, one handler at a *)
(* time; the write tasks and the refresh run beside it and each other.     *)
(*                                                                         *)
(* An RPC is one step here.  A write whose RPC fails changes nothing or    *)
(* has been executed all the same; the task goes on in either case.        *)
(***************************************************************************)
EXTENDS Naturals

CONSTANTS
  Fields,         \* of a GlobalPreferences
  Items,          \* the fields in the list
  CheckBoxes,     \* the Boolean ones: a click always changes the value
  Values,
  Initial,        \* the client's preferences at first
  Objects,        \* GlobalPreferences objects (bound); used again when
                  \* unreferenced, and the refresh waits for one
  Writers,        \* WriteClientPrefsAsync tasks at a time (bound)
  MaxChanges,     \* changes the user makes (bound)
  MaxBroadcasts,  \* broadcasts waiting for the main thread (bound)
  None

ASSUME PrefsAssumption ==
  /\ MaxChanges \in Nat /\ MaxBroadcasts \in Nat \ {0}
  /\ None \notin Objects
  /\ CheckBoxes \subseteq Items /\ Items \subseteq Fields
  /\ Initial \in [Fields -> Values]

VARIABLES
  override,      \* the client's override file
  working,       \* the preferences the client works with
  heap,          \* the fields of each GlobalPreferences object
  prefs,         \* the object ClientStatus holds
  fresh,         \* the object the refresh has read and not published yet
  step,          \* per write task: the RPC it makes next
  object,        \* ... and the object it was given
  broadcasts,    \* clientstatuschange broadcasts on their way to the receiver
  bound,         \* the service is connected: monitor and appPrefs are set
  resumed,       \* the receiver is registered
  initialSetup, dataOutdated,
  clientPrefs,   \* the activity's reference
  view,          \* the layout: "none", "loading" or "list"
  shown,         \* the values in the list
  dialogs,       \* the items whose dialog has been created: it is shown again
  dialog,        \* the item of the dialog in the field: the one created last
  open,          \* the item of the dialog on display
  changes        \* number of changes so far

client   == <<override, working>>
tasks    == <<step, object>>
dialogVars == <<dialogs, dialog, open>>
screen   == <<bound, resumed, initialSetup, dataOutdated, clientPrefs, view, shown>>
activity == <<screen, dialogVars>>
vars     == <<client, heap, prefs, fresh, tasks, broadcasts, activity, changes>>

Struct == [Fields -> Values]

\* What the list shows of a struct.
Listed(struct) == [item \in Items |-> struct[item]]

\* Type invariant: references lead to objects, and objects hold values.
TypeOK ==
  /\ override \in Struct /\ working \in Struct
  /\ heap \in [Objects -> Struct]
  /\ prefs \in Objects \cup {None} /\ fresh \in Objects \cup {None}
  /\ clientPrefs \in Objects \cup {None}
  /\ step \in [Writers -> {"none", "set", "read"}]
  /\ object \in [Writers -> Objects \cup {None}]
  /\ \A w \in Writers : step[w] = "set" => object[w] # None
  /\ broadcasts \in 0 .. MaxBroadcasts
  /\ bound \in BOOLEAN /\ resumed \in BOOLEAN
  /\ initialSetup \in BOOLEAN /\ dataOutdated \in BOOLEAN
  /\ view \in {"none", "loading", "list"}
  /\ shown \in [Items -> Values]
  /\ dialogs \subseteq Items
  /\ dialog \in Items \cup {None} /\ open \in Items \cup {None}
  /\ changes \in 0 .. MaxChanges

Init ==
  /\ override = Initial /\ working = Initial /\ shown = Listed(Initial)
  /\ heap = [o \in Objects |-> Initial]
  /\ prefs = None /\ fresh = None /\ clientPrefs = None
  /\ step = [w \in Writers |-> "none"]
  /\ object = [w \in Writers |-> None]
  /\ broadcasts = 0
  /\ bound = FALSE /\ resumed = FALSE
  /\ initialSetup = TRUE /\ dataOutdated = FALSE
  /\ view = "none"
  /\ dialogs = {} /\ dialog = None /\ open = None
  /\ changes = 0

-----------------------------------------------------------------------------
(* The core client (external), the write tasks and the refresh *)

\* The RPC that stores a struct, and the one that makes the client read it.
Stores(struct) == override' \in {override, struct} /\ UNCHANGED working
Reloads        == working' \in {working, override} /\ UNCHANGED override

\* setGlobalPrefsOverrideStruct: the fields are read when the task runs.
SetOverride(w) ==
  /\ step[w] = "set"
  /\ Stores(heap[object[w]])
  /\ step' = [step EXCEPT ![w] = "read"]
  /\ object' = [object EXCEPT ![w] = None]
  /\ UNCHANGED <<heap, prefs, fresh, broadcasts, activity, changes>>

\* readGlobalPrefsOverride; the results of neither RPC are looked at.
ReadOverride(w) ==
  /\ step[w] = "read"
  /\ Reloads
  /\ step' = [step EXCEPT ![w] = "none"]
  /\ UNCHANGED <<heap, prefs, fresh, object, broadcasts, activity, changes>>

Unreferenced ==
  {o \in Objects : /\ o \notin {prefs, fresh, clientPrefs}
                   /\ \A w \in Writers : object[w] # o}

\* getGlobalPrefsWorkingStruct returns a new object; if it returns null, the
\* refresh does nothing.
Refresh ==
  /\ fresh = None /\ Unreferenced # {}
  /\ LET o == CHOOSE o \in Unreferenced : TRUE IN
       /\ fresh' = o
       /\ heap' = [heap EXCEPT ![o] = working]
  /\ UNCHANGED <<client, prefs, tasks, broadcasts, activity, changes>>

\* Only a registered receiver gets a broadcast.
Fire ==
  /\ broadcasts < MaxBroadcasts
  /\ broadcasts' = IF resumed THEN broadcasts + 1 ELSE broadcasts

\* setClientStatus stores the object, and fires if the modes could be parsed.
Replace == fresh # None /\ prefs' = fresh /\ fresh' = None

setClientStatus ==
  Replace /\ Fire /\ UNCHANGED <<client, heap, tasks, activity, changes>>

DiscardStatusChange ==
  Replace /\ UNCHANGED <<client, heap, tasks, broadcasts, activity, changes>>

\* A task of the service publishes a setup status.
PublishSetupStatus ==
  /\ resumed
  /\ Fire
  /\ UNCHANGED <<client, heap, prefs, fresh, tasks, activity, changes>>

-----------------------------------------------------------------------------
(* PrefsActivity *)

\* readPrefs and the rest of loadSettings, which starts from this layout and
\* with these values of bound and dataOutdated.
loadSettings(layout, isBound, outdated) ==
  /\ clientPrefs' = prefs
  /\ IF prefs = None \/ ~isBound
       THEN view' = layout /\ UNCHANGED <<initialSetup, shown>>
       ELSE /\ initialSetup' = FALSE
            /\ IF outdated /\ ~initialSetup
                 THEN view' = "loading" /\ UNCHANGED shown
                 ELSE /\ view' = IF initialSetup THEN "list" ELSE layout
                      /\ shown' = Listed(heap[prefs])

onServiceConnected ==
  /\ ~bound /\ view # "none"
  /\ bound' = TRUE
  /\ loadSettings(view, TRUE, dataOutdated)
  /\ UNCHANGED <<client, heap, prefs, fresh, tasks, broadcasts, resumed, dataOutdated,
                 dialogVars, changes>>

\* Mutant: the list is there before its data.
ListAtOnce ==
  /\ ~resumed
  /\ resumed' = TRUE
  /\ loadSettings("list", bound, dataOutdated)
  /\ UNCHANGED <<client, heap, prefs, fresh, tasks, broadcasts, bound, dataOutdated,
                 dialogVars, changes>>

onResume ==
  /\ ~resumed
  /\ resumed' = TRUE
  /\ loadSettings(IF initialSetup THEN "loading" ELSE view, bound, dataOutdated)
  /\ UNCHANGED <<client, heap, prefs, fresh, tasks, broadcasts, bound, dataOutdated,
                 dialogVars, changes>>

\* What was on its way to the receiver is not delivered any more.
onPause ==
  /\ resumed
  /\ resumed' = FALSE
  /\ broadcasts' = 0
  /\ UNCHANGED <<client, heap, prefs, fresh, tasks, bound, initialSetup, dataOutdated,
                 clientPrefs, view, shown, dialogVars, changes>>

\* Mutants of onReceive: dataOutdated is not reset, or is reset without a new
\* layout, or nothing is loaded unless the data was outdated.
StaysOutdated ==
  /\ broadcasts > 0
  /\ broadcasts' = broadcasts - 1
  /\ loadSettings(IF dataOutdated THEN "list" ELSE view, bound, dataOutdated)
  /\ UNCHANGED <<client, heap, prefs, fresh, tasks, bound, resumed, dataOutdated,
                 dialogVars, changes>>

NoNewLayout ==
  /\ broadcasts > 0
  /\ broadcasts' = broadcasts - 1
  /\ dataOutdated' = FALSE
  /\ loadSettings(view, bound, FALSE)
  /\ UNCHANGED <<client, heap, prefs, fresh, tasks, bound, resumed, dialogVars, changes>>

OnlyOutdated ==
  /\ broadcasts > 0
  /\ broadcasts' = broadcasts - 1
  /\ dataOutdated' = FALSE
  /\ IF dataOutdated THEN loadSettings("list", bound, FALSE)
                     ELSE UNCHANGED <<initialSetup, clientPrefs, view, shown>>
  /\ UNCHANGED <<client, heap, prefs, fresh, tasks, bound, resumed, dialogVars, changes>>

\* The receiver: reinitPrefsLayout if the data was outdated, and loadSettings.
onReceive ==
  /\ broadcasts > 0
  /\ broadcasts' = broadcasts - 1
  /\ dataOutdated' = FALSE
  /\ loadSettings(IF dataOutdated THEN "list" ELSE view, bound, FALSE)
  /\ UNCHANGED <<client, heap, prefs, fresh, tasks, bound, resumed, dialogVars, changes>>

\* The field a list item writes: the dialog for disk_min_free_gb writes
\* disk_max_used_gb.
Written(item) == IF item = "disk_min_free_gb" THEN "disk_max_used_gb" ELSE item

\* Mutant: loadSettings before dataOutdated is set.
FlagTooLate(item, value, w) ==
  /\ changes < MaxChanges /\ step[w] = "none"
  /\ heap' = [heap EXCEPT ![clientPrefs][Written(item)] = value]
  /\ step' = [step EXCEPT ![w] = "set"]
  /\ object' = [object EXCEPT ![w] = clientPrefs]
  /\ dataOutdated' = TRUE
  /\ loadSettings(view, bound, FALSE)
  /\ changes' = changes + 1
  /\ UNCHANGED <<client, prefs, fresh, broadcasts, bound, resumed>>

\* The object is changed in place and handed to a task (monitor.setPrefs).
Change(item, value, w) ==
  /\ changes < MaxChanges /\ step[w] = "none"
  /\ heap' = [heap EXCEPT ![clientPrefs][Written(item)] = value]
  /\ step' = [step EXCEPT ![w] = "set"]
  /\ object' = [object EXCEPT ![w] = clientPrefs]
  /\ dataOutdated' = TRUE
  /\ loadSettings(view, bound, TRUE)
  /\ changes' = changes + 1
  /\ UNCHANGED <<client, prefs, fresh, broadcasts, bound, resumed>>

\* What is below a dialog cannot be clicked.
ListClicked == resumed /\ view = "list" /\ open = None

onCbClick(item, value, w) ==
  /\ ListClicked /\ item \in CheckBoxes /\ value # shown[item]
  /\ Change(item, value, w)
  /\ UNCHANGED dialogVars

\* showDialog, which calls onCreateDialog the first time only.
onItemClick(item) ==
  /\ ListClicked /\ item \notin CheckBoxes
  /\ open' = item
  /\ dialogs' = dialogs \cup {item}
  /\ dialog' = IF item \in dialogs THEN dialog ELSE item
  /\ UNCHANGED <<client, heap, prefs, fresh, tasks, broadcasts, screen, changes>>

\* The button of the dialog on display; its text is read from, and dismissed
\* is, the dialog in the field.  Another one stays where it is, above the
\* loading layout.
onClick(value, w) ==
  /\ resumed /\ open # None
  /\ Change(open, value, w)
  /\ open' = IF open = dialog THEN None ELSE open
  /\ UNCHANGED <<dialogs, dialog>>

\* The back key.
CancelDialog ==
  /\ resumed /\ open # None
  /\ open' = None
  /\ UNCHANGED <<client, heap, prefs, fresh, tasks, broadcasts, screen, dialogs, dialog,
                 changes>>

-----------------------------------------------------------------------------
WriterStep(w) == SetOverride(w) \/ ReadOverride(w)

Next ==
  \/ \E w \in Writers : WriterStep(w)
  \/ Refresh \/ setClientStatus \/ DiscardStatusChange \/ PublishSetupStatus
  \/ onServiceConnected \/ onResume \/ onPause \/ onReceive
  \/ \E item \in Items, value \in Values, w \in Writers : onCbClick(item, value, w)
  \/ \E item \in Items : onItemClick(item)
  \/ \E value \in Values, w \in Writers : onClick(value, w)
  \/ CancelDialog

\* Tasks and main thread run.  The client keeps answering the refresh, and
\* does not stay in a mode ClientStatus cannot parse (RUN_MODE_ALWAYS).
Fairness ==
  /\ \A w \in Writers : WF_vars(WriterStep(w))
  /\ WF_vars(Refresh) /\ SF_vars(setClientStatus)
  /\ WF_vars(onServiceConnected) /\ WF_vars(onReceive)

Spec == Init /\ [][Next]_vars /\ Fairness

-----------------------------------------------------------------------------
(* Properties *)

\* Nothing in the list, and no button of a dialog that is still up, can be
\* clicked before there is an object to change and a service to hand it to,
\* and no element is read before the list is filled
\* ("prevent loadLayout from reading elements out of bounds",
\* PrefsActivity.java:68).
ClickIsSafe ==
  view = "list" \/ open # None => ~initialSetup /\ bound /\ clientPrefs # None

\* The loading layout is left by the next broadcast: it is on display only
\* before the first data or while dataOutdated is set, as loadSettings itself
\* never brings the list back.
LoadingIsOutdated == view = "loading" /\ ~initialSetup => dataOutdated

\* Outdated data is not on display.
OutdatedIsHidden == dataOutdated => view = "loading"

\* The loading layout is not for ever: while the activity stays in front, the
\* list comes back.
LoadingEnds == []<>(view = "list" \/ ~resumed)

\* When the user has stopped changing things and stays, the list comes to show
\* what the client works with, whatever was lost or overtaken on the way.
ShownConverges ==
  <>[]resumed => <>[](view = "list" /\ shown = Listed(working))
=============================================================================
