---------------------------- MODULE Prefs_proofs ----------------------------
(* Theorems about Prefs, for every list of items, every number of objects, *)
(* write tasks, changes and broadcasts.                                    *)
EXTENDS Prefs, TLAPS

(***************************************************************************)
(* What holds of the layouts of PrefsActivity.  The three properties are   *)
(* not inductive by themselves: loadSettings leaves the layout alone when  *)
(* the service or the data is missing, so one has to know that neither is  *)
(* missing any more once the first data has been there (SetUpForGood), and *)
(* that nothing was changed before (NothingOutdatedAtFirst).               *)
(***************************************************************************)
SetUpForGood ==
  ~initialSetup => prefs # None /\ bound /\ view # "none"

NothingOutdatedAtFirst == initialSetup => ~dataOutdated

LayoutInv ==
  /\ SetUpForGood
  /\ NothingOutdatedAtFirst
  /\ ClickIsSafe
  /\ LoadingIsOutdated
  /\ OutdatedIsHidden

(***************************************************************************)
(* Types                                                                   *)
(***************************************************************************)

\* What the list shows of an object are values.
LEMMA ListedTyped ==
  ASSUME NEW struct \in Struct
  PROVE  Listed(struct) \in [Items -> Values]
BY PrefsAssumption DEF Struct, Listed

\* loadSettings takes the object of ClientStatus and one of the layouts.
LEMMA LoadTyped ==
  ASSUME TypeOK, NEW layout \in {"none", "loading", "list"}, NEW isBound, NEW outdated,
         loadSettings(layout, isBound, outdated)
  PROVE  /\ clientPrefs' \in Objects \cup {None}
         /\ view' \in {"none", "loading", "list"}
         /\ initialSetup' \in BOOLEAN
         /\ shown' \in [Items -> Values]
<1>1. clientPrefs' \in Objects \cup {None}
  BY DEF TypeOK, loadSettings
<1>2. initialSetup' = initialSetup \/ initialSetup' = FALSE
  BY DEF loadSettings
<1>3. initialSetup' \in BOOLEAN
  BY <1>2, Zenon DEF TypeOK
<1>4. view' \in {"none", "loading", "list"}
  BY DEF loadSettings, TypeOK
<1>5. shown' = shown \/ (prefs # None /\ shown' = Listed(heap[prefs]))
  BY DEF loadSettings
<1>6. prefs # None => heap[prefs] \in Struct
  BY DEF TypeOK
<1>7. shown' \in [Items -> Values]
  BY <1>5, <1>6, ListedTyped DEF TypeOK
<1> QED
  BY <1>1, <1>3, <1>4, <1>7

\* The write tasks and the refresh read and write whole objects.
LEMMA TypeBackground ==
  ASSUME TypeOK,
         \/ \E w \in Writers : WriterStep(w)
         \/ Refresh \/ setClientStatus \/ DiscardStatusChange \/ PublishSetupStatus
  PROVE  TypeOK'
<1> USE PrefsAssumption DEF client, tasks, activity, screen, dialogVars
<1>1. ASSUME NEW w \in Writers, SetOverride(w)
      PROVE  TypeOK'
  <2>1. object[w] \in Objects /\ heap[object[w]] \in Struct
    BY <1>1 DEF SetOverride, TypeOK
  <2>2. override' \in Struct /\ working' \in Struct
    BY <1>1, <2>1 DEF SetOverride, Stores, TypeOK
  <2>3. /\ step' \in [Writers -> {"none", "set", "read"}]
        /\ object' \in [Writers -> Objects \cup {None}]
        /\ \A u \in Writers : step'[u] = "set" => object'[u] # None
    BY <1>1 DEF SetOverride, TypeOK
  <2> QED
    BY <1>1, <2>2, <2>3 DEF SetOverride, TypeOK, Struct
<1>2. ASSUME NEW w \in Writers, ReadOverride(w)
      PROVE  TypeOK'
  <2>1. override' \in Struct /\ working' \in Struct
    BY <1>2 DEF ReadOverride, Reloads, TypeOK
  <2>2. /\ step' \in [Writers -> {"none", "set", "read"}]
        /\ \A u \in Writers : step'[u] = "set" => object[u] # None
    BY <1>2 DEF ReadOverride, TypeOK
  <2> QED
    BY <1>2, <2>1, <2>2 DEF ReadOverride, TypeOK
<1>3. CASE Refresh
  <2>1. PICK o \in Objects : fresh' = o /\ heap' = [heap EXCEPT ![o] = working]
    BY <1>3 DEF Refresh, Unreferenced
  <2>2. heap' \in [Objects -> Struct]
    BY <2>1 DEF TypeOK
  <2> QED
    BY <1>3, <2>1, <2>2 DEF Refresh, TypeOK
<1>4. ASSUME Fire PROVE broadcasts' \in 0 .. MaxBroadcasts
  BY <1>4 DEF Fire, TypeOK
<1>5. CASE setClientStatus
  BY <1>4, <1>5 DEF setClientStatus, Replace, TypeOK
<1>6. CASE DiscardStatusChange
  BY <1>6 DEF DiscardStatusChange, Replace, TypeOK
<1>7. CASE PublishSetupStatus
  BY <1>4, <1>7 DEF PublishSetupStatus, TypeOK
<1> QED
  BY <1>1, <1>2, <1>3, <1>5, <1>6, <1>7 DEF WriterStep

\* A change has an object to write to.
LEMMA TypeChange ==
  ASSUME TypeOK, ClickIsSafe, view = "list" \/ open # None,
         NEW item \in Items, NEW value \in Values, NEW w \in Writers,
         Change(item, value, w),
         dialogs' \subseteq Items, dialog' \in Items \cup {None},
         open' \in Items \cup {None}
  PROVE  TypeOK'
<1> USE PrefsAssumption DEF client
<1> view \in {"none", "loading", "list"}
  BY DEF TypeOK
<1>1. clientPrefs \in Objects
  BY DEF ClickIsSafe, TypeOK
<1>2. heap' \in [Objects -> Struct]
  <2>1. heap' = [heap EXCEPT ![clientPrefs] =
                   [heap[clientPrefs] EXCEPT ![Written(item)] = value]]
    BY DEF Change
  <2>2. [heap[clientPrefs] EXCEPT ![Written(item)] = value] \in Struct
    BY <1>1 DEF TypeOK, Struct
  <2> QED
    BY <1>1, <2>1, <2>2 DEF TypeOK
<1>3. /\ step' \in [Writers -> {"none", "set", "read"}]
      /\ object' \in [Writers -> Objects \cup {None}]
      /\ \A u \in Writers : step'[u] = "set" => object'[u] # None
  BY <1>1 DEF Change, TypeOK, ClickIsSafe
<1>4. dataOutdated' \in BOOLEAN
  BY Zenon DEF Change
<1>5. changes' \in 0 .. MaxChanges
  BY DEF Change, TypeOK
<1>6. /\ clientPrefs' \in Objects \cup {None}
      /\ view' \in {"none", "loading", "list"}
      /\ initialSetup' \in BOOLEAN
      /\ shown' \in [Items -> Values]
  BY LoadTyped DEF Change
<1> QED
  BY <1>2, <1>3, <1>4, <1>5, <1>6 DEF Change, TypeOK

\* The handlers of the activity read and write whole objects too.
LEMMA TypeActivity ==
  ASSUME TypeOK, ClickIsSafe,
         \/ onServiceConnected \/ onResume \/ onPause \/ onReceive
         \/ \E item \in Items, value \in Values, w \in Writers : onCbClick(item, value, w)
         \/ \E item \in Items : onItemClick(item)
         \/ \E value \in Values, w \in Writers : onClick(value, w)
         \/ CancelDialog
  PROVE  TypeOK'
<1> USE PrefsAssumption DEF client, tasks, activity, screen, dialogVars
<1> view \in {"none", "loading", "list"} /\ broadcasts \in 0 .. MaxBroadcasts
  BY DEF TypeOK
<1>1. CASE onServiceConnected
  <2>1. bound' \in BOOLEAN
    BY <1>1, Zenon DEF onServiceConnected
  <2> QED
    BY <1>1, <2>1, LoadTyped DEF onServiceConnected, TypeOK
<1>2. CASE onResume
  <2> DEFINE layout == IF initialSetup THEN "loading" ELSE view
  <2>1. layout \in {"none", "loading", "list"}
    OBVIOUS
  <2>2. resumed' \in BOOLEAN
    BY <1>2, Zenon DEF onResume
  <2>3. loadSettings(layout, bound, dataOutdated)
    BY <1>2 DEF onResume
  <2> HIDE DEF layout
  <2> QED
    BY <1>2, <2>1, <2>2, <2>3, LoadTyped DEF onResume, TypeOK
<1>3. CASE onPause
  <2>1. resumed' \in BOOLEAN
    BY <1>3, Zenon DEF onPause
  <2>2. broadcasts' \in 0 .. MaxBroadcasts
    BY <1>3 DEF onPause
  <2> QED
    BY <1>3, <2>1, <2>2 DEF onPause, TypeOK
<1>4. CASE onReceive
  <2> DEFINE layout == IF dataOutdated THEN "list" ELSE view
  <2>1. layout \in {"none", "loading", "list"}
    OBVIOUS
  <2>2. dataOutdated' \in BOOLEAN
    BY <1>4, Zenon DEF onReceive
  <2>3. broadcasts' \in 0 .. MaxBroadcasts
    BY <1>4 DEF onReceive
  <2>4. loadSettings(layout, bound, FALSE)
    BY <1>4 DEF onReceive
  <2> HIDE DEF layout
  <2> QED
    BY <1>4, <2>1, <2>2, <2>3, <2>4, LoadTyped DEF onReceive, TypeOK
<1>5. ASSUME NEW item \in Items, NEW value \in Values, NEW w \in Writers,
             onCbClick(item, value, w)
      PROVE  TypeOK'
  <2>1. Change(item, value, w) /\ view = "list"
    BY <1>5 DEF onCbClick, ListClicked
  <2>2. /\ dialogs' \subseteq Items /\ dialog' \in Items \cup {None}
        /\ open' \in Items \cup {None}
    BY <1>5 DEF onCbClick, TypeOK
  <2> QED
    BY <2>1, <2>2, TypeChange
<1>6. ASSUME NEW item \in Items, onItemClick(item)
      PROVE  TypeOK'
  <2>1. /\ dialogs' \subseteq Items /\ dialog' \in Items \cup {None}
        /\ open' \in Items \cup {None}
    BY <1>6 DEF onItemClick, TypeOK
  <2> QED
    BY <1>6, <2>1 DEF onItemClick, TypeOK
<1>7. ASSUME NEW value \in Values, NEW w \in Writers, onClick(value, w)
      PROVE  TypeOK'
  <2>1. open \in Items /\ open # None /\ Change(open, value, w)
    BY <1>7 DEF onClick, TypeOK
  <2>2. /\ dialogs' \subseteq Items /\ dialog' \in Items \cup {None}
        /\ open' \in Items \cup {None}
    BY <1>7 DEF onClick, TypeOK
  <2> QED
    BY <2>1, <2>2, TypeChange
<1>8. CASE CancelDialog
  BY <1>8 DEF CancelDialog, TypeOK
<1> QED
  BY <1>1, <1>2, <1>3, <1>4, <1>5, <1>6, <1>7, <1>8

(***************************************************************************)
(* The layouts                                                             *)
(***************************************************************************)

\* A layout is kept as long as nothing it depends on changes; the object of
\* ClientStatus may be replaced by another one.
LEMMA LayoutKept ==
  ASSUME LayoutInv, UNCHANGED <<bound, initialSetup, dataOutdated, clientPrefs, view>>,
         prefs # None => prefs' # None, open' # None => open # None \/ view = "list"
  PROVE  LayoutInv'
BY DEF LayoutInv, SetUpForGood, NothingOutdatedAtFirst, ClickIsSafe,
       LoadingIsOutdated, OutdatedIsHidden

\* The layout that a handler loads follows from what it starts with.
LEMMA LayoutLoaded ==
  ASSUME TypeOK, LayoutInv, view # "none" \/ ~bound \/ initialSetup,
         onServiceConnected \/ onResume \/ onReceive
  PROVE  LayoutInv'
<1> USE DEF LayoutInv, SetUpForGood, NothingOutdatedAtFirst, ClickIsSafe,
            LoadingIsOutdated, OutdatedIsHidden, loadSettings, dialogVars
<1>1. CASE onServiceConnected
  BY <1>1 DEF onServiceConnected, TypeOK
<1>2. CASE onResume
  BY <1>2 DEF onResume, TypeOK
<1>3. CASE onReceive
  BY <1>3 DEF onReceive, TypeOK
<1> QED
  BY <1>1, <1>2, <1>3

\* A change is made in the list or a dialog, and ends in the loading layout.
LEMMA LayoutChanged ==
  ASSUME TypeOK, LayoutInv, view = "list" \/ open # None, NEW item \in Items, NEW value \in Values, NEW w \in Writers,
         Change(item, value, w)
  PROVE  LayoutInv'
<1>1. /\ ~initialSetup /\ bound /\ prefs # None /\ prefs' = prefs /\ bound' = bound
      /\ loadSettings(view, bound, TRUE)
  BY DEF Change, LayoutInv, SetUpForGood, ClickIsSafe
<1>2. /\ initialSetup' = FALSE /\ view' = "loading" /\ dataOutdated'
      /\ clientPrefs' # None
  BY <1>1 DEF loadSettings, Change
<1> QED
  BY <1>1, <1>2
  DEF LayoutInv, SetUpForGood, NothingOutdatedAtFirst, ClickIsSafe,
      LoadingIsOutdated, OutdatedIsHidden

LEMMA PrefsStep == TypeOK /\ LayoutInv /\ [Next]_vars => TypeOK' /\ LayoutInv'
<1> SUFFICES ASSUME TypeOK, LayoutInv, [Next]_vars
             PROVE  TypeOK' /\ LayoutInv'
  OBVIOUS
<1> USE DEF client, tasks, activity, screen, dialogVars
<1>1. CASE UNCHANGED vars
  BY <1>1, LayoutKept DEF vars, TypeOK
<1>2. CASE \/ \E w \in Writers : WriterStep(w)
           \/ Refresh \/ setClientStatus \/ DiscardStatusChange \/ PublishSetupStatus
  <2>1. /\ UNCHANGED <<bound, initialSetup, dataOutdated, clientPrefs, view>>
        /\ prefs # None => prefs' # None
        /\ open' = open
    BY <1>2
    DEF WriterStep, SetOverride, ReadOverride, Refresh, setClientStatus, Replace,
        DiscardStatusChange, PublishSetupStatus
  <2> QED
    BY <1>2, <2>1, TypeBackground, LayoutKept
<1>3. CASE onPause
  BY <1>3, TypeActivity, LayoutKept DEF onPause, LayoutInv
<1>4. CASE onServiceConnected \/ onResume \/ onReceive
  BY <1>4, TypeActivity, LayoutLoaded DEF LayoutInv, SetUpForGood
<1>5. ASSUME NEW item \in Items, NEW value \in Values, NEW w \in Writers,
             onCbClick(item, value, w)
      PROVE  TypeOK' /\ LayoutInv'
  <2>1. Change(item, value, w) /\ view = "list"
    BY <1>5 DEF onCbClick, ListClicked
  <2> QED
    BY <1>5, <2>1, TypeActivity, LayoutChanged DEF LayoutInv
<1>6. ASSUME NEW item \in Items, onItemClick(item)
      PROVE  TypeOK' /\ LayoutInv'
  <2>1. /\ UNCHANGED <<bound, initialSetup, dataOutdated, clientPrefs, view, prefs>>
        /\ view = "list"
    BY <1>6 DEF onItemClick, ListClicked
  <2> QED
    BY <1>6, <2>1, TypeActivity, LayoutKept DEF LayoutInv
<1>7. ASSUME NEW value \in Values, NEW w \in Writers, onClick(value, w)
      PROVE  TypeOK' /\ LayoutInv'
  <2>1. open \in Items /\ open # None /\ Change(open, value, w)
    BY <1>7 DEF onClick, TypeOK
  <2> QED
    BY <1>7, <2>1, TypeActivity, LayoutChanged DEF LayoutInv
<1>8. CASE CancelDialog
  BY <1>8, TypeActivity, LayoutKept DEF CancelDialog, LayoutInv
<1> QED
  BY <1>1, <1>2, <1>3, <1>4, <1>5, <1>6, <1>7, <1>8 DEF Next

LEMMA PrefsInvariant == Spec => [](TypeOK /\ LayoutInv)
<1>1. Init => TypeOK /\ LayoutInv
  <2> SUFFICES ASSUME Init PROVE TypeOK /\ LayoutInv
    OBVIOUS
  <2>1. /\ shown \in [Items -> Values] /\ override \in Struct /\ working \in Struct
        /\ broadcasts \in 0 .. MaxBroadcasts /\ changes \in 0 .. MaxChanges
    BY PrefsAssumption, ListedTyped DEF Init, Struct
  <2>2. heap \in [Objects -> Struct]
    BY PrefsAssumption DEF Init, Struct
  <2>3. /\ step \in [Writers -> {"none", "set", "read"}]
        /\ object \in [Writers -> Objects \cup {None}]
        /\ \A w \in Writers : step[w] = "set" => object[w] # None
    BY DEF Init
  <2>4. TypeOK
    BY <2>1, <2>2, <2>3, Zenon DEF Init, TypeOK
  <2>5. LayoutInv
    BY DEF Init, LayoutInv, SetUpForGood, NothingOutdatedAtFirst, ClickIsSafe,
           LoadingIsOutdated, OutdatedIsHidden
  <2> QED
    BY <2>4, <2>5
<1> QED
  BY <1>1, PrefsStep, PTL DEF Spec

\* References of activity, tasks and refresh lead to objects, whose fields hold
\* values, whoever changes them in place.
THEOREM TypeCorrect == Spec => []TypeOK
BY PrefsInvariant, PTL

\* onCbClick and onClick find a service, an object and a filled list.
THEOREM ClicksAreSafe == Spec => []ClickIsSafe
<1>1. LayoutInv => ClickIsSafe
  BY DEF LayoutInv
<1> QED
  BY <1>1, PrefsInvariant, PTL

\* The loading layout is one that the next broadcast ends.
THEOREM LoadingMeansOutdated == Spec => []LoadingIsOutdated
<1>1. LayoutInv => LoadingIsOutdated
  BY DEF LayoutInv
<1> QED
  BY <1>1, PrefsInvariant, PTL

\* While dataOutdated is set, no list is on display.
THEOREM OutdatedNeverShown == Spec => []OutdatedIsHidden
<1>1. LayoutInv => OutdatedIsHidden
  BY DEF LayoutInv
<1> QED
  BY <1>1, PrefsInvariant, PTL

=============================================================================
