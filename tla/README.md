# AndroidBOINC in TLA+

The Android apps of this repository (`src/android`) put a user interface around
the native BOINC client: they install and launch it, talk to it over its GUI RPC
port, show its status and pass on the user's wishes. This directory models that
code in TLA+, checks it with TLC and proves most of its safety properties with TLAPS.

Paths: **B** is `src/android/BOINC_Client-Manager_Bundle/src/edu/berkeley/boinc`,
**M** is `src/android/BOINC_Manager/src/edu/berkeley/boinc`, **C** is
`src/android/BOINC_Client/src/edu/berkeley/boinc`.

## 1. Inventory

| Component | State | Operations | Interacts with | Correct if |
|---|---|---|---|---|
| `B/rpc/RpcClient` (same file in M) | `mSocket`, `mInput`, `mOutput`, two shared StringBuilders | `open`, `close`, `authorize`, `connectionAlive`, some thirty request/reply methods | every AsyncTask of the monitor service calls the one object; the core client at the other end | a result was made of the reply to its own request; a successful `authorize` means what it says; a closed other side is noticed; no null field is used and no empty buffer is cut; every call returns |
| `B/client/Monitor` | `started`, `monitorActive`, `clientProcess`, the task's `clientStarted` | `onStartCommand`, `restartMonitor`, `attachProject`, `quitClient`, `setRunMode`, `setPrefs`, four AsyncTasks | RpcClient, ClientStatus, AppPreferences, native processes; activities call it | one monitor at a time; at most one client of ours; the status it publishes is true and somebody will change it when it has to change |
| `B/client/ClientStatus` (singleton) | last RPC objects, `setupStatus`, computing and network status, parse errors | `setClientStatus`, `fire`, getters | written by the tasks, read by the activities on the main thread | what is shown is what was read last |
| `B/StatusActivity` | bound service, loaded layout | receiver, `loadLayout`, retry, login, enable, disable | ClientStatus, Monitor | shows the current status whenever visible; offers only what fits it |
| `B/PrefsActivity`, `WriteClientPrefsAsync` | the shared GlobalPreferences object, `dataOutdated` | check boxes, dialog, receiver | ClientStatus, Monitor, RpcClient | a change reaches the client, and old values are never shown as new |
| `B/AppPreferences` | e-mail, password, authenticator, autostart, on disk | `readPrefs`, setters | Monitor, PrefsActivity | the authenticator belongs to the e-mail |
| `C/ClientService` | `nativeProcessStarted`, `setupSuccess`, the installed binary and its permission | `onCreate`, `onBind`, `setupClient`, `getAuthToken` | bound by the Manager, executes the native client | at most one launch per life, no launch of a partial binary, a binder only after a launch |
| `M/client/ClientStatusMonitor`, `M/manager/InitialActivity` | `monitorStarted`, `mIClientService`, setup status, AsyncTasks on one serial executor | bind, download, install, monitor, login | ClientService over a binder, RpcClient | one monitor; a shown "available" is watched; a login is answered |
| `B/rpc/*Parser` | per parser `mElementStarted`, `mCurrentElement`, the item being read | SAX callbacks to an object or null | RpcClient | the object holds what the reply says, however the XML library cuts the text |
| remaining tabs, adapters, `LogReceiver` | lists copied from ClientStatus | refresh, clear, kill | Monitor, ClientStatus | presentation |
| `src/native` | - | tool chain, curl, openssl, patches | - | build only, not modelled |

What is hard here: AsyncTasks of the Bundle run in parallel (its manifest names no
target SDK) and share one connection without any lock; replies are matched to
requests by order alone; reads time out; the core client and the app die
independently of each other; the setup status is one variable written by several
tasks and by the main thread; the Manager (target SDK 15) has the opposite
problem, one endless task on a serial executor. `PROJECT.json` lists the hazards,
each at its line.

## 2. Plan

| Module | Subject | State |
|---|---|---|
| `RpcService`, `RpcClient` | the connection and its abstract promise | done, proved but for liveness |
| `RpcClient_proofs` | type invariant, no uncaught exception, soundness of `authorize` | done |
| `RpcSerial_proofs` | one thread, with read timeouts: replies answer calls, refinement of `RpcService` | done |
| `Monitor` | the Bundle's service: monitor, login and shutdown tasks, native processes | done, proved but for liveness |
| `Monitor_proofs` | its three invariants, for any number of tasks and processes | done |
| `Prefs` | the `dataOutdated` protocol between PrefsActivity, the write task and the refresh | done, proved but for liveness |
| `Prefs_proofs` | its four invariants, for any items, objects and tasks | done |
| `StatusView` | `setClientStatus`/`fire` and the status tab's unlocked reads | done, proved but for liveness |
| `StatusView_proofs` | its two invariants, for any states of the client | done |
| `ClientService` | install, run, bind, with the process ended at any point | done, proved |
| `ManagerMonitor` | serial executor, remote binding; composes `ClientService` | done, proved but for liveness |
| `ClientService_proofs` | invariant of the service; the composition implements the service | done |
| `ManagerMonitor_proofs` | `TypeOK`, `AvailableIsWatched` for any queue and number of attempts | done |
| `ReplyParsers` | SAX callbacks of the reply parsers against the reply they are called for | done, proved |
| `ReplyParsers_proofs` | its four invariants, for replies of any size and texts cut at any place | done |

`ManagerMonitor` EXTENDS `ClientService` and adds its own variables; every action of
it is an action of the service joined with what the Manager sees of it, or leaves
the service's variables alone. `RpcClient` implements `RpcService`. The other modules
meet in variables of the same name: the setup status of `Monitor` is what
`StatusView` may see published at any time, and one exchange of `RpcClient` is one
step of the modules above it.

## 3. RpcClient

### State and actions

The variables `mSocket`, `mInput`, `mOutput`, `mRequest`, `mReadBuffer` and `mResult` are
the fields of the class; `pc`, `call` and `ret` are, per thread, the position, the
local variables and the last result of the method it executes. `local`, `peer`,
`requests`, `replies` and `authed` are the sockets: our end, the other end, what is
on its way in each direction, and what the core client has granted. `crashed` says that an
uncaught exception has ended the process. `timedOut`, and `by` in a message, are history:
no guard depends on them.

| Actions | Code |
|---|---|
| `StartOpen`, `CloseStreams`, `CloseSocket`, `NewSocket`, `Connect`, `Streams` | `open` and `close` |
| `StartAuthorize`, `StartConnectionAlive`, `StartCall` | entry of the methods; the first two look at `isConnected()` |
| `Build`, `Compose` | composing a request in `mRequest` |
| `SendRequest` | `sendRequest` |
| `StartReceive` | `receiveReply` up to the read: `mResult.setLength(0)` |
| `ReadReply`, `AppendReply`, `TrimReply` | one turn of its loop: read into `mReadBuffer`; append to `mResult` and look at the last byte; `setLength(length - 1)` |
| `ReadEnd`, `ReadFails`, `ReadTimeout` | the other ends of the loop |
| `ReturnReply` | `mResult.toString()` and what the method makes of it (`Parse`, `Accepts`, `Return`) |
| `RuntimeException` | a null field, or `setLength(-1)`: nothing catches it, the process ends |
| `CoreAnswers`, `CoreExits`, `CoreStarts` | external: the core client |

Every step may be separated from the next by steps of other threads, as no method is
synchronized. `Calls` says which methods a thread calls. The request methods are one definition
each for what some thirty methods do alike, so that `map` names long ranges for
`StartCall`, `Build`, `Compose` and `Accepts`. They differ in two ways, and constants say which is
which: `Queries` send a string of their own, `Commands` compose theirs in the shared
buffer; the reply is parsed by a parser for its kind, by one that makes an object
of anything well-formed (`Lenient`: `getState` and the lists), by
`SimpleReplyParser`, to which every `<success/>` is the same (`Simple`), or is not
looked at (`Unread`: the two preference override calls).

### Abstractions

- A reply arrives whole, alone or with others, and is not split between two readers. Its
  characters are not told apart but for the `\003` at its end (`End`). A text that is a
  mixture of two is `Broken`.
- A call of a StringBuilder method is one step; what two threads inside the same
  method of one StringBuilder may do to it is left out.
- The three writes and the flush of `sendRequest` are one step.
- Requests of a connection we have closed are forgotten, as no reply to them can
  be read; replies still unread when the other end leaves stay readable.
- The first write after the other side has left may succeed, and any connect may fail.
- `mRequest`, `mReadBuffer` and `mResult` are reset to a fixed value when no other thread can
  still see their content, since their next user overwrites them.
- The core client answers the requests of one connection in order and never grants
  `auth2` to a wrong hash. Whether it answers other requests without
  authorization is left open.
- A socket is used again once nothing refers to it; `Conns` need only be large
  enough for that.

### Properties

| Property | Says | Run |
|---|---|---|
| `TypeOK` | ranges of all fields and locals, every exchange has a request | `rpc_serial`, proved |
| `ReplyAnswersCall` | a result was made of exactly the reply to this call, unless a read has timed out on the connection | `rpc_serial`, proved for one task |
| `AliveUnlessLate` | on a connection without a timeout so far, `connectionAlive` says true only if the other side is there or has answered this call | `rpc_serial`, proved for one task |
| `ImplementsService` | refinement of `RpcService`: a call succeeds only with its answer or, from a timeout to the end of the connection, with a late one | `rpc_serial`, proved for one task |
| `AppSurvives` | no uncaught exception | `rpc_serial`, proved for one task; violated for two in `rpc_trim` |
| `AuthorizeSound` | a successful `authorize` is one of the connection in use | `rpc_shared`, proved for one task |
| `CallReturns` | every method returns | `rpc_shared` |
| `QueryAnswersCall` | a query returns the result of its own RPC or null | violated for two tasks in `rpc_crosstalk` |

`rpc_serial` is the Manager's use: one task at a time, all kinds of calls, core client exits,
restarts and late answers at any point (24,591 states). The others have two tasks, as in
the Bundle. `rpc_shared`: a monitor opens and authorizes, a task of the user queries, answers may
be late (459,235 states). Its property `AuthorizeSound` has one task that opens. With two that do, an
authorized connection may be replaced by the other's before the caller looks, which is
no error of `authorize`; what goes wrong then is in section 9. `rpc_crosstalk` and `rpc_trim` need no
timeout at all: a reply is taken by the other task, or the buffer emptied by it.

Bounds: two sockets (one in use and one being replaced), one or two threads,
`MaxQueue` messages on a connection when a call starts: 2 with one thread, which
is a late reply and a new request, and 1 with two threads, where the second
message is the other thread's.

Fairness: weak fairness of each thread's step inside a method. The scheduler runs
runnable threads and READ_TIMEOUT ends every read, so `ReadTimeout` is a step of
the method, enabled when there is nothing to read. Strong fairness of `NotOvertaken`: between
its read and its append, a few instructions, a thread is not overtaken by another one's read at
every one of its reads. Without it two tasks could spoil each other's buffer for ever and
neither find the end of its reply. Nothing is assumed of the core client or of when methods
are called.

### Proofs (`RpcClient_proofs`)

- `TypeCorrect`: `Spec => []TypeOK`, for any number of threads.

The other theorems are about one task at a time (`OneThread`), and about nothing else: any calls in
any order, any number of sockets and pending messages, failures and read timeouts. One
task at a time is what BOINC_Manager guarantees: it calls the RpcClient from the AsyncTasks of
its ClientStatusMonitor only, and with `targetSdkVersion` 15 they share a serial executor.
For the Bundle, whose tasks run in parallel, `AppSurvives` is false (`rpc_trim`).

- `NoRuntimeException`: `Spec => []AppSurvives`. `SocketInv` says which fields are
  set at each step of `open`, that `mInput = mOutput` always, and that outside `open` there is either
  no socket or one connection all three fields agree on. `BufferInv` says that `mResult` holds, at
  each step of `receiveReply`, what this call has put there, so that there is a last character to
  cut. `AppSurvives` alone is not inductive: it does not say that the streams are there when
  `isConnected()` is true.
- `AuthorizeIsSound`: `Spec => []AuthorizeSound`. `AuthInv` adds that a
  granted `auth2` reply is only found on an authorized connection, also when it is in the
  hands of the reader, be it the reply to a call that was given up long ago. For two tasks this is only
  model-checked (`rpc_shared`).

### Proofs (`RpcSerial_proofs`)

- `ReplyAnswers`: `Spec => []ReplyAnswersCall`. It says nothing of what is on the way, so it is
  not inductive. `QuietInv` says that, on a connection without a timeout, an exchange finds all
  queues empty, that while it waits its own request or the reply to it is the only message,
  that reads, buffers and the trimmed text hold that reply, and that the queues are empty again at its
  end; and that there is nothing on any other connection, so that `open` is enough to be
  rid of late replies. `SerialInv` adds that a peer that has left has no requests
  (`NobodyNoRequests`), so a read that ends early leaves nothing behind to be answered by the
  next core client, that nothing is collected without a stream, and that a method sends the request it
  is named for (`OwnRequest`).
- `AliveNoticesClosed`: `Spec => AliveUnlessLate`, an action property. The
  reply `connectionAlive` takes for its answer can only be the one to its own request.
- `ImplementsRpcService`: `Spec => ImplementsService`. Initial states map to initial
  states and every step to one of the service: entering a method is `Invoke` (`ServiceInvoke`),
  `CoreAnswers` the answer (`ServiceAnswer`), a read timeout the step that makes the service late
  (`ServiceTimeOut`), closing the connection the one that ends this (`ServiceDisconnect`), the last
  step of a method its return, and a method that fails its first guard invokes and returns at
  once. The mapping takes "answered" from the queues, the bytes read and `mResult`; `MineInv` says
  that a request is on its way or answered, never both, and only while its call lasts.

Here and in the refinement it matters that null is no request, which `ConstantsAssumption`
says. Only model-checked: `CallReturns`, which is liveness.

## 4. Monitor

### State and actions

`started` and `monitorActive` are the service's flags, `setupStatus` that of
ClientStatus, `mpc`/`attempt`/`clientStarted` the monitor tasks, `lpc`/`poll` the
login tasks, `quitter` the shutdown task, `conn`/`authorized` the RpcClient's
connection, `clientProcess` the service's Process object, `view` the layout
StatusActivity has loaded, `process`, `attaching`, `attached` the native side.

| Actions | Code |
|---|---|
| `OpenApp`, `Boot`, `onStartCommand`, `restartMonitor` | service start and restart |
| `CheckConnection` ... `Refresh`, `MonitorEnds` | `ClientMonitorAsync`: loop, `startUp`, `connectClient`, `setupClient`, `checkLogin`, `onPostExecute` |
| `attachProject`, `LookupAccount` ... `LoginEnds` | login button and `ProjectAttachAsync` |
| `quitClient`, `Quit`, `QuitDestroy` | kill button and `ShutdownClientAsync` |
| `loadLayout`, `reinitClient` | StatusActivity |
| `AppDies` | external: the system, or an uncaught exception (null replies in `verifyProjectAttach` and `attachProject`, a missing Process) |
| `ClientListens`, `ClientExits`, `ClientAttaches` | external: the native client |

### Abstractions

- An RPC is one step that may fail at any time and may be answered when the
  connection leads to a client that is there (and has authorized it, where needed).
  `RpcClient` has the steps. A command may have been executed although its
  reply was lost (`ProjectAttach`).
- What a task does with the outcome of an RPC is a later step: `checkLogin` and the publication of
  the status (`StartUpEnds`), `AttachPoll` and `PublishAttached`. In between another task may have
  replaced the connection or written the status.
- While another task is at work (`Shared`), `checkLogin` may take that one's reply for its own
  and find no project.
- A late reply that `connectionAlive` takes for life is left out: each is read once, which
  puts the next look off by one turn of the loop.
- Writing the setup status and firing the broadcast are one step; the layout may be
  loaded at any time later.
- Every task has a thread; the limit of the thread pool is not modelled.
- A connection whose other end is gone is as good as none.
- The native client's lock file is `ClientListens`: a second process never listens
  while one does.
- A restart of the device, preferences and credentials are not modelled here.

### Properties

| Property | Says | Run |
|---|---|---|
| `TypeOK` | ranges, attempts and polls within the loops' limits | `monitor`, proved |
| `StatusIsAttended` | "launching" has a task at work, "available" a monitor or a login about to start one | `monitor`, proved |
| `LaunchedHasProcess` | a task that has launched a client finds a Process to destroy | `monitor`, proved |
| `LaunchingEnds` | "launching" does not last while the app lives | `monitor_live` |
| `LostClientIsNoticed` | the loss of an available client changes the status or a client is back | `monitor_live` |
| `OneMonitor` | at most one monitor task | violated in `monitor_twice` |

`monitor` has two monitor tasks, one login, two native processes, autostart and the
kill button (2,788,595 states up to symmetry of tasks and of processes);
`monitor_live` the same with one process and neither autostart nor the button
(212,653 states, no symmetry, as it checks liveness). Bounds: `MaxAttempts` 1 for
the code's 5 and `MaxPolls` 2 for its 6: a loop that is left on success, on its
limit and after at least one more round. Two monitor tasks, because two are
enough to overlap; `HasRoom` keeps a task free for the login that will start one.

Fairness: weak fairness of each task, of the shutdown task and of the activity's
reload. Every task has a thread, every RPC and sleep a limit, and the main thread
delivers broadcasts. Nothing is assumed of the user, the system and the native
client, which may never start to listen.

### Proofs (`Monitor_proofs`)

The three invariants hold for any finite sets of monitor tasks and logins, any set of
native processes, any number of attempts and polls, with and without autostart and the
debug tab (`MonitorAssumption`). The inductive invariant `AttendedInv` adds two facts to them:

- `NeverActive`: `monitorActive` is false at all times. `StatusIsAttended` lets a
  login that has succeeded stand for the monitor it is about to start, and
  `restartMonitor` starts one only if the flag is down. The flaw that `monitor_twice`
  shows is also what keeps the status attended.
- `FreshTasks`: a task that does not run has launched nothing, so a new one begins
  with `clientStarted` false; else it could believe in a process that is not there.

`TypeOK` is proved action by action from a lemma per group of variables. Only model-checked:
`LaunchingEnds` and `LostClientIsNoticed`, which are liveness.

## 5. Prefs

### State and actions

`override` and `working` are the client's override file and the preferences it works
with; `heap` the fields of the GlobalPreferences objects, which `prefs` (ClientStatus),
`fresh` (the refresh, before `setClientStatus`), `clientPrefs` (the activity) and
`object` (per write task) refer to; `step` what a write task does next; `broadcasts`
the clientstatuschange broadcasts on their way. `bound` is "`monitor` and `appPrefs`
are set", `resumed` "the receiver is registered"; `initialSetup` and `dataOutdated`
are the activity's fields, `view` its layout and `shown` the values in the list. `dialogs` are the
items whose dialog Android has created and will show again, `dialog` the one in the field of
that name, `open` the one on display.

| Actions | Code |
|---|---|
| `onServiceConnected`, `onResume`, `onPause`, `onReceive` | PrefsActivity, with `loadSettings` (`readPrefs`, `reinitPrefsLayout`) |
| `onCbClick` | a check box of the list |
| `onItemClick` | a list item with a dialog: `showDialog`, and `onCreateDialog` the first time |
| `onClick` | the button of a dialog |
| `Change` | what `onCbClick` and `onClick` have in common: change the object, `monitor.setPrefs`, `loadSettings` |
| `CancelDialog` | external: the back key |
| `SetOverride`, `ReadOverride` | the two RPCs of WriteClientPrefsAsync |
| `Refresh`, `setClientStatus`, `DiscardStatusChange` | the monitor loop and `ClientStatus.setClientStatus`, with and without `fire` |
| `PublishSetupStatus` | any other `fire` |

The object is shared by reference, as in the code: a change is visible to
ClientStatus at once, a write task reads the fields when it runs, and a refresh in
between takes the object away from both.

### Abstractions

- An RPC is one step that may have been executed or not; its result is not looked at.
- One value stands for a preference; the text of a dialog that cannot be parsed
  changes nothing and is left out. A dialog may be submitted unchanged, a check box
  not.
- The application preferences, which need no write task, are left out.
- A refresh that fails, or whose data is thrown away, is no refresh.
- The service stays connected: activity and service share a process.

### Properties

| Property | Says | Run |
|---|---|---|
| `TypeOK` | ranges; a write task was given an object | `prefs`, proved |
| `ClickIsSafe` | there is a list to click, or a dialog with a button, only with data, service and object | `prefs`, proved |
| `LoadingIsOutdated` | the loading layout after the first data means that the next broadcast ends it | `prefs`, proved |
| `OutdatedIsHidden` | no list while `dataOutdated` | `prefs`, proved |
| `LoadingEnds` | the loading layout ends, or the tab is left | `prefs` |
| `ShownConverges` | if the user stays and changes no more, the list comes to show what the client works with | `prefs` |

971,304 states: a check box and two dialogs over three fields with two values, one of the dialogs
writing the field of the other. Bounds:
two changes and two write tasks, so that a second change meets a first that is
anywhere on its way; two dialogs, as the one created first is not dismissed when it is shown again;
three objects, enough for the current, the next and one that
only a task or the activity still has; one broadcast on its way, as they carry
nothing and the receiver does the same for each.

Fairness: weak fairness of the write tasks, the refresh, the binding and the
receiver, which all run on threads of their own or on the main thread; strong
fairness of `setClientStatus`, the one assumption about the environment: the client
keeps answering and is time and again in a mode `parseClientStatus` knows. Without
it a discarded status can keep the loading layout for ever, as the code has no
other way out of it.

### Proofs (`Prefs_proofs`)

The four invariants hold for any fields, values, check boxes, dialogs, objects, tasks and any number
of changes and broadcasts (`PrefsAssumption`). They are proved together, as
each needs the others; `LayoutInv` adds that setting up is for good (`SetUpForGood`: once
`initialSetup` is false there are data, a service and a layout) and that nothing is outdated before
(`NothingOutdatedAtFirst`). `loadSettings` leaves the
layout alone when the service or the data is missing, so it has to be known that neither
is missing any more once the first data have been there. Only model-checked: `LoadingEnds` and
`ShownConverges`, which are liveness.

## 6. StatusView

### State and actions

`client` is what the native client does, a record of mode, suspend reason, active task,
network mode and network suspend reason. `status` and `activeTask` are the objects of
one poll, `mon` the place of the monitor thread; `computingStatus`, the two reasons and the
two parse errors are the fields of ClientStatus; `broadcast` a clientstatuschange on its
way; `mIsBound`, `resumed`, `reading` and `layout` the tab.

| Actions | Code |
|---|---|
| `getCcStatus`, `getState` | the monitor loop's two queries that matter here |
| `parseComputingStatus`, `parseSuspendReason`, `parseNetworkStatus`, `fire` | `ClientStatus.setClientStatus`, in the order in which it writes the fields |
| `Publish`, `FirePublished` | a task sets a setup status, then fires |
| `onServiceConnected`, `onResume`, `onPause`, `onReceive` | StatusActivity |
| `loadLayout`, `ReadComputingStatus`, `ReadReason` | `loadLayout`, one read of ClientStatus per step |
| `mEnableClickListener`, `mDisableClickListener` | the buttons that write the run mode |
| `ClientChanges` | external: the native client, or another user interface of it |

Nothing is locked in the code, so every write of the monitor thread may fall between two
reads of the main thread. The screen is drawn when a callback has returned, which is
why the mixture that `loadLayout` may have read is only seen with its last read. Broadcasts
carry nothing and are merged: `broadcast` says that at least one is to come.

### Properties

| Property | Says | Run |
|---|---|---|
| `TypeOK` | ranges; each reason is one the client has given in that place | `status_view`, proved |
| `QuietLayoutIsCurrent` | with no broadcast on its way and the last poll parsed, the tab shows what the fields say together | `status_view`, proved |
| `LayoutConverges` | if the client stays in a state the parser knows, the tab comes to show it | `status_view` |

259,236 states. Bounds: four client states: stopped, suspended without network, and computing with a
network mode or with a run mode that is not parsed; two of them polled together give an
idle one. Setup statuses 0 and 1, as all the others are shown without a further read.

Fairness: weak fairness of the monitor thread, of a fire that is due and of the main
thread; strong fairness of a `getState` that succeeds, since a client that never answers
the second query is never shown. `LayoutConverges` is about states the parser knows
because a poll with `RUN_MODE_ALWAYS` is thrown away (section 9).

### Proofs (`StatusView_proofs`)

- `TypeCorrect`: `Spec => []TypeOK`; `PollHasStatus` adds that the monitor thread works on
  a status it has polled.
- `QuietLayout`: `Spec => []QuietLayoutIsCurrent`. The property speaks of the tab
  between two layouts and is not inductive. `ReadingCurrent` says what the reads
  that are done must have found if nothing is to come any more, where "to come" covers a
  broadcast on its way, one the monitor thread will fire, a status not yet fired and a
  parse error, which means that the fields have changed without a fire (`NothingToCome`);
  `ReadingSetup` says that the setup status a tab has read before it reads further is still the
  current one, or the tab is about to be told.

They hold for any states of the client and any set of published statuses. Only
model-checked: `LayoutConverges`, which is liveness.

## 7. ClientService and ManagerMonitor

### State and actions

`svc` is what the main thread of ClientService does, `caller` whether `onCreate` or
`onBind` runs the setup; `setupSuccess` and `nativeProcessStarted` are its fields, `binder`
what `onBind` has answered, `binary`, `executable` and `authFile` the files, `starting` and
`listening` the native processes. The Manager adds `setupStatus`, `mIClientService`,
`monitorStarted`, its queue of `tasks` with the place `pc` of the one that runs, the results of logins
that wait for the main thread (`loginResults`), the connection, and the installation (`receiver`, `added`, `installer`).

| Actions | Code |
|---|---|
| `onCreate`, `AlreadyInstalled` ... `RunFails` | `setupClient`: `installClient(false)` with its copy and permission, `runClient` |
| `onBind` | `onBind`, with the second setup |
| `AutoCreate`, `Bind`, `Unbind`, `KillService`, `InstallPackage`, `Boot` | external: the Android system |
| `WriteAuthFile`, `Listen`, `StartingExits`, `ListeningExits` | external: the native client |
| `bindMonitorService`, `initRemoteClientService`, `clientInstalledReceiver` | start of the Manager's service; bind or download |
| `onServiceConnected`, `NullConnected`, `onServiceDisconnected` | its connection to ClientService |
| `DownloadFails`, `Downloaded` | `DownloadAndInstallClientApp` |
| `CheckConnection` ... `Refresh` | `ClientMonitorAsync` |
| `LookupAccount` ... `LoginEnds` | `ProjectAttachAsync` |
| `attachProject`, `restartMonitor`, `downloadAndInstallClient`, `clientCall`, `CallReturns` | operations of the service for a bound activity, queued on the serial executor |

A life of ClientService can end at every step of its setup, and the files stay as they are.
The Manager targets SDK 15, where `AsyncTask.execute` hands every task to one serial
executor, so only the head of `tasks` has steps. The tasks take the steps
from the code; `onPostExecute` comes later, on the main thread.

### Abstractions

- An exchange with the native client is one step that may fail at any time.
- Status 4, which `initRemoteClientService` sets and replaces within one callback, cannot
  be seen on the main thread and is left out.
- The activities of the Manager are mostly empty at this commit. What the service offers to a bound
  activity may be asked for at any time, in any status and any number of times, as nothing in
  the service tests for it.
- Android asks `onBind` once per life of a service and keeps the answer. A null answer may
  be delivered as a callback or not at all; the model has both.
- The key file is written before the native client listens; it may be read half written.
- The download is one step, and what it downloads is a whole package.

### Properties

| Property | Says | Run |
|---|---|---|
| `TypeOK` | ranges, attempts within the loop's limit | `manager`, proved |
| `OnlyWholeIsRun` | no process is made of a torn binary, whatever life of the service was cut off where | `manager`, proved |
| `BinderMeansStarted` | who holds the binder has a service that has executed the client | `manager`, proved |
| `OneExecPerLife` | `onCreate` and `onBind` together execute the client at most once in a life | `manager`, proved |
| `AvailableIsWatched` | "available" is not shown without a monitor that runs, is queued, or is about to be | `manager`, proved |
| `LoginIsAnswered` | a login that is carried out ends with status 3 or is followed by a monitor, or the process ends | `manager` |
| `StartUpPublishes` | every start of the monitor ends with a status, or with the process | `manager` |
| `LostClientIsNoticed` | the loss of an available client is published, or a client can be reached again | `manager` |

`manager` has 355,899 states. Bounds: `MaxAttempts` 1, which is the code's own
`setup_connection_attempts`; `MaxStarting` 2 native processes that do not listen yet, so that two
lives of the service may each have left one; `MaxTasks` 1: an activity adds a task only when none is
there. The tasks that callbacks and results add (monitors, the download) have no such bound and do queue
behind others. A task of an activity that queues behind the loop of a monitor, where it waits as long as the
monitor lives, is in the model with a larger `MaxTasks`, which the theorems cover;
`LoginIsAnswered` is therefore about a login that has got the thread.

Fairness: weak fairness of the task that runs and of `LoginEnds`: a thread that has been
started runs on, every exchange has a limit (READ_TIMEOUT), and the main thread handles its
messages. Nothing is assumed of the remote service, the native client and the user. No
property with a leads-to needs a callback of the remote service: `StartUpPublishes` holds also if
the binder never arrives, because the key is then empty and the monitor gives up.

### Proofs (`ClientService_proofs`)

- `ServiceInvariant`: `ServiceSpec => []ServiceInv`. `OnlyWholeIsRun` is not
  inductive: the setup executes any file of the right name, and it is the execute
  permission, given as the last step of the copy, that tells a whole one.
  `PermissionIsWhole` says so, and that the file is whole when the copy has ended.
  `FlagsAgree` adds that the two fields are set together, and that no setup runs
  after they are; `BinderMeansStarted` and `OneExecPerLife` rest on it.
- `ImplementsClientService`: `Spec => ServiceSpec`. Every step of the composition is a step of
  the service or leaves its variables alone, so what is proved of the service alone is
  true of the service with the Manager around it.
- `OnlyWholeBinaries`, `BinderIsEarned` and `ExecutedOnce` carry the three properties over to
  `Spec`.

They hold for any number of starting processes, attempts and queued tasks, under
`MaxStartingAssumption` and without any use of fairness.

### Proofs (`ManagerMonitor_proofs`)

- `TypeCorrect`: `Spec => []TypeOK`, from the type invariant of the service, which the
  composition implements, and one for the Manager's variables.
- `AvailableHasMonitor`: `Spec => []AvailableIsWatched`. There may be any number of monitors, and
  nothing relates the status to them. Given the types the property is inductive, in the form `Watched`:
  status 1 is set by a monitor, which stays in the queue until it has set another status, or
  by a login, which leaves the result that starts a monitor in the same step.
- Lemmas about the queues (`AppendQueued`, `TailQueued`) say what adding
  a task, and ending the one at the head, do to the others in it.

They hold for any length of the queue and any number of attempts
(`AttemptsAssumption`, `TasksAssumption`). Only model-checked: `LoginIsAnswered`, `StartUpPublishes` and
`LostClientIsNoticed`, which are liveness.

## 8. ReplyParsers

### State and actions

`open` is the path of open elements, `text` what has been said of the innermost one so far,
`mIn` the flags of CcStateParser, `parser` the fields of each parser
(`mElementStarted`, `mCurrentElement`, the item, the list, `mInActiveTask`), `said` what the reply has said,
the reference the result is compared with.

| Definitions | Code |
|---|---|
| `Characters`, `TrimStart`, `TrimEnd`, `CollectText` | `BaseParser.characters`, `trimEnd`, the default of every `startElement` |
| `SubStart`, `SubEnd`, `CloseItem`, `Decode` | the parsers of projects, applications, work units, results |
| `StateStart`, `StateCharacters`, `StateEnd`, `ReleaseEnd` | CcStateParser, which hands each callback to the parsers of the items it is in |
| `AccountStart`, `AccountEnd` | AccountOutParser |
| `OpenItem` ... `endDocument` | external: a reply of the client, and the XML library, which may cut a text into pieces at any place |

### Abstractions

- An account reply has its three fields, of which `error_num` is a number: a text that is none throws
  (`IsDecoded`).
- A field is `name` (an item without one is thrown away), `value` (any other the parser
  keeps), `slot` (one it keeps inside an active task) or `other` (one it does not know).
  Texts are sequences of white space and letters. Numbers in the items are not converted; the release
  of the client is, and an empty one throws as in the code.
- AppVersionsParser collects texts in its own way, which is not modelled: only its
  `endElement` would read them, and that is never called (`parse_versions`).
- Well-formed replies only. What the methods do with a reply that is none is in `RpcClient`.

### Properties

| Property | Says | Run |
|---|---|---|
| `TypeOK` | ranges, texts no longer than what was said, and `mIn` says exactly which items are open | `parsers`, proved |
| `StateIsReply` | the lists hold the named items of the reply, in its order, with the fields it says | `parsers`, proved |
| `ReleaseIsReply` | the release is the one the reply says, whatever comes before or after it | `parsers`, proved |
| `FirstFieldIsRead` | the first field of an account reply gets its own text | `parsers`, proved |
| `EveryItemIsListed` | as `StateIsReply`, with the application versions | violated in `parse_versions` |

1,469,691 states. Bounds: two items, so that one may follow another of its own or of
another kind; three fields, so that one comes before, inside and after an active task;
three characters in the fields of a reply, which is a piece of white space before, and
after, a letter, in one to three pieces. Replies end, so deadlock is not checked.

### Proofs (`ReplyParsers_proofs`)

- `TypeCorrect`: `Spec => []TypeOK`.
- `StateParsed`: `Spec => []StateIsReply`, `ReleaseParsed`: `Spec => []ReleaseIsReply`,
  `FirstFieldParsed`: `Spec => []FirstFieldIsRead`.

The four properties speak of a reply that has ended, so none of them is inductive. `IInv` says what
holds in the middle of one:

- `PathOK`, `FlagsOK`: which elements may be open, and that exactly the flag of the open item is set.
  A closing tag goes to the parser of that item because of it, or to none.
- `StartedOK`, `Collected`: a parser collects a text only in a field of its item, and what
  it has collected is the text so far without the white space before it. The text is said in
  pieces, and `TrimStartPieces` is the lemma this rests on: to trim the first piece that
  is not blank, and append the others, is to trim the whole. White space between elements (`TextOK`)
  collects nothing. Only a parser that has thrown at an empty release goes on collecting, until
  the next closing tag.
- `ItemInv`: the parser of the open item holds the last item said, but for `active`, which is
  set where the active task closes; its list is that of the items before. The lists of
  the other parsers are those of all items.
- `ReleaseInv`: one release at most has been said, and it is the one kept. `AccountInv`: the first
  field of an account has its text, and no later one of another name changes it.
- `SaidOK`, `ParsersOK`, `ResultInv`: the open item and field are the last ones said, types,
  and what `parse` returns is what the parsers hold.

Each action is first brought to the place it happens in (`At`) and to what it does to all the parsers
(`OpensAnItem`, `ClosesAStateField`, ...); then there is one lemma for each kind of step and
each part of the invariant. `Listed` is a recursive function; what it is for a reply that grows by an
item (`ListedLast`) is shown of the least counterexample (`LeastNumber`), without the
induction theorems of the library.

The theorems hold for any number of items and fields and any length of texts
(`BoundsAssumption`, `SpaceAssumption`), and no fairness is stated or needed.
`AppVersionsParser` is left out of `ItemInv`, as it is of `StateIsReply`.

## 9. What the disagreements mean

Four of them have a run that finds the code to do something else than a comment of it says; the comments
are quoted in `PROJECT.json`.

- `rpc_crosstalk`: `getState` returns an empty state made of the reply to a
  login's request; the login misses its reply.
- `rpc_trim`: a second task empties `mResult` between another one's append and
  `setLength(length - 1)`, which throws and ends the app.
- `monitor_twice`: `monitorActive` is never set, so the check in `restartMonitor`
  has no effect, and a second monitor runs beside the first.
- `parse_versions`: inside an application version the closing tags go to the parser of the
  applications, so the list of versions stays empty.

Others disagree with a comment as well, and are in the models as the code has them; the properties
say what is true instead.

- After one read timeout every later call on the connection takes the reply to the call before, until the
  connection is opened anew (`RpcClient.java:348`), and `connectionAlive` takes it for life of a client
  that has closed the connection, which "will be detected" (`RpcClient.java:286`).
  `ReplyAnswersCall` and `AliveUnlessLate` stop at the timeout for this reason, and `RpcService` has
  `late` for it.
- The `open` of a second monitor may close a socket that is connected and has no
  streams yet: null is dereferenced (`RpcClient.java:205`, `CloseStreams`).
- In the Manager, too, `monitorActive` is never set; there the second monitor waits behind the first
  (`ClientStatusMonitor.java:209`).
- Status 2 is "permanent", without attempts to fix it (`ClientStatus.java:55`); after a failed
  installation it is published and the attempts to connect go on (`Monitor.java:326`).
- Status 3 is "launched but not attached" (`ClientStatus.java:56`). It stays when a login has been given up
  and the client completes the attach (`Monitor.java:660`), and when the client ends, as no task
  watches it then (`Monitor.java:357`).
- The loading layout is to stay "until monitor read new results" (`PrefsActivity.java:71`); any broadcast
  clears `dataOutdated`, so the preferences of before come back until the next refresh.
- Computing status 0 is run mode "never" (`ClientStatus.java:61`); a client that was stopped and is
  then set to `RUN_MODE_ALWAYS`, which `parseComputingStatus` does not know, stays "stopped by user".
- Status 0 is "in setup routine" (`ClientStatus.java:52`); in the Manager a download that fails, or an
  installation the user does not accept, leaves it for ever, because the task has no `onPostExecute`
  (`ClientStatusMonitor.java:685`).

For the rest no comment promises the contrary:

- `clientStarted` belongs to the task and not to the service, so a second monitor
  task leaves the first one's client running (`Monitor.java:447`).
- A dialog that is shown again is not the one in the field `dialog`: it is not dismissed, and can be
  submitted a second time above the loading layout (`PrefsActivity.java:340`).
- The dialog for the minimum free space writes `disk_max_used_gb` (`PrefsActivity.java:325`).
- A task of the Manager that is queued behind the loop of a monitor waits as long as the monitor
  lives (`ClientStatusMonitor.java:233`).
- A torn binary stays on the device and is never executed nor replaced, and neither is an
  outdated one: `installClient` is never called with overwrite (`ClientService.java:173`).
- The later fields of an account reply get the text of the first (`AccountOutParser.java:61`).
- CcStatusParser takes the flag "0" for set, since it reads only texts longer than one character
  (`CcStatusParser.java:118`), and GlobalPreferencesParser keeps the day of the `<day_prefs>` before
  (`GlobalPreferencesParser.java:87`). Nothing shows either.

## 10. Not modelled

- `AppPreferences`: four values with one editor commit each. Autostart is a choice of
  `Monitor`'s environment; credentials are not told apart.
- The limit of the Bundle's thread pool: `Monitor` gives every task a thread.
- MessagesParser, `day_prefs`, `host_info` and `gui_url`: the same handlers on `BaseParser` as the
  modelled parsers, for data that no decision depends on.
- LogReceiver, the lists of tasks, transfers and messages, their adapters, notifications and
  layouts: presentation of what ClientStatus holds.
- `src/native`: tool chain headers, curl and openssl, which are third-party and make up nearly
  all of the repository's lines. The core client they are linked into is not in the
  repository; it is the external environment of every module. The apps' own code is the
  Java under `src/android`, where the modelled classes are.

Only model-checked are the nine liveness properties: `CallReturns`, `LaunchingEnds`,
`LostClientIsNoticed` (in two modules), `LoadingEnds`, `ShownConverges`, `LayoutConverges`,
`LoginIsAnswered` and `StartUpPublishes`, and `AuthorizeSound` for two tasks. Liveness under fairness is outside this prover's reach. Every other property of a passing run, each invariant and action
property and both refinements, is also a theorem.
