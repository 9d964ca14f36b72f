# TLA+ specifications of IonLauncher

IonLauncher is a modified client and server for Titanfall 2: a proxy DLL that
hooks a closed game engine, and around the hooks a body of original, heavily
threaded code. The engine cannot be modelled (its state is not in the
repository); the original code can: it installs mods, downloads what a server
requires, connects to servers, talks to the master server and to a
peer-to-peer transport. These specifications are about that code.

Contents: [the system](#the-system), [modules](#modules),
[runs](#what-the-runs-check), [proofs](#what-is-proved),
[limits](#what-is-not-modelled), [plan](#plan).

## The system

| Component | State | Operations | What makes it correct |
| --- | --- | --- | --- |
| **Mod install service** `modsystem/modinstaller.cpp` | request slot, busy flag and generation; cancel flag; migration question and answer; the published snapshot; one worker thread | `Request*`, `Cancel`, `DecideMigration`, `GetSnapshot`; `RunWorker` | one operation at a time, in order; no package is replaced without consent; a timely cancel is honoured; the snapshot never says "ended" too early |
| **Commit and rollback** (same file) | folders on disk, the job directory with backups, records of what was moved | `CommitPlans`, `ExecuteInstalledRemove` and the tasks they queue for the main thread | nothing is lost before the commit decision; all or nothing; memory and disk agree afterwards; enabled flags survive |
| **Mod manager** `modsystem/modmanager.cpp` | `m_LoadedMods`, `enabledmods.json`, "unloaded for a filesystem change" | `LoadMods`, `UnloadMods`, `ReloadModsWithEnabledStates`, `UnloadModsForFilesystemMutation`, `NSSetModEnabled` | the configuration follows the user; two versions of one mod are never both enabled |
| **Dependency resolution** (`ResolveModWorkshop`, `ResolveThunderstore`) | visited and resolved sets, plans | depth-first resolution | dependencies before dependents, no cycle accepted, one version per package |
| **Mod downloader** `modsystem/moddownloader.cpp` | `modState` (read and written by five kinds of threads), the verified catalogue, "thread running" | `FetchModsListFromAPI`, `DownloadMod`, `DownloadServerMod`, `DownloadModWorkshop`, `CancelDownload` | one download at a time, the UI in step with it; DONE only over a whole folder; a failed download leaves no partial folder; it always ends |
| **Server mod info** (same file) | listening flag, received indices, total | request, count, packet, stop, clear | a list is of one total and without repeats, complete when listening ends by itself (unless an invalid count ends it), and fixed once closed; no request leaves the client listening |
| **Connection manager** `engine/client/connection_manager.cpp` | `m_bConnecting`, mode, answer to the download prompt, pending map | `Connect`, `Interrupt`, `Finalise`, `ResetState`; detached threads; a main-thread task | a cancelled attempt never joins; consent belongs to the attempt |
| **Master server client** `masterserver/masterserver.cpp` | a dozen flags, server list, tokens | detached request threads | one writer at a time; a result belongs to the latest request; no wait for ever |
| **Server authentication** `engine/server/serverauthentication.cpp`, `sv_client.cpp` | players the master server announced, entries of connected players, the flag of the saves | handle a connect request; connect, activate, disconnect; save | who was told to come gets in; data stays with its owner, is saved on leave and never goes back |
| **Server presence** `engine/server/serverpresence.cpp`, `MasterServerPresenceReporter` | registration id, attempts, cooldown, two futures | create, report, destroy; register, send a heartbeat, remove | attempts of a game are bounded; an id is not lost without a reason; a game that lasts gets listed, and its changes are sent |
| **EOS transport** `eos/eos.cpp` | packet queues, reassemblies, byte counters; login state, requests under way | send, receive, tick; set up, log in, shut down | counters equal contents; a message is delivered whole, to the user logged in, or not at all; requests do not overlap; nothing survives shutdown |
| **Mod save files** `modsystem/modsavefiles.cpp` | files, a thread per call | save, load, delete | calls on one file take effect in order |
| **Frame task queue** `tier0/frametask.cpp` | list of delayed tasks | `Dispatch`, `RunFrame` | tasks of equal delay run in order, once |

How they interact:

* Threads hand work to the main thread with `RunInMainThread`, which queues a
  task in `g_TaskQueue`; the installer waits for the task, 90 seconds at most.
* The downloader's ModWorkshop path is a client of the install service: it
  calls `Request`, remembers the generation of the snapshot and polls.
* The connection thread starts the server mod info request, fetches the
  verified catalogue, asks the player, downloads mod after mod while polling
  `modState`, and then queues the task that reloads the mods and connects.
* The master server announces a player to the game server in a packet that it
  repeats; a thread per packet fetches the data and answers, the engine's
  client hooks consume and save it.
* UI scripts read snapshots and states with polling functions and answer
  questions with global setters (`NSDecideModDownload`, `DecideMigration`).

What is hard here is concurrency with few locks, cancellation of what can no
longer be stopped, waits that time out while the awaited work still runs, and
filesystem changes that can fail or be cut off half-way. `PROJECT.json` lists
each hazard with its line and the properties that guard against it.

The rest of the repository (hooks, SDK classes, parsers, renderers, the
launcher's window, vendored libraries) is listed in `PROJECT.json` with the
reason it is left out.

## Modules

| Module | What it models |
| --- | --- |
| `ModInstallService` | `CModInstallService`: callers and worker, one critical section, atomic access or condition-variable operation per step |
| `ModInstallServiceProofs` | invariants of that module, proved |
| `MCModInstallService` | symmetry of the callers for TLC |
| `ModRuntime` | the mod manager as the installer drives it |
| `ModInstallCommit` | commit, rollback and removal, main-thread tasks, the user's acts; extends `ModRuntime` |
| `PackageChange` | what an operation promises about the packages it finds; `ModInstallCommit` implements it |
| `ModInstallCommitProofs` | invariants of the commit, the refinement and that the loaded mods are those on disk, proved |
| `ServerModInfo` | how a client collects the list of mods a server asks for: packets, connection threads, scripts |
| `ServerModInfoProofs` | invariants of that module, proved |
| `MCServerModInfo` | symmetry of the attempts for TLC |
| `ModDownloader` | the threads that share `modState`: manifests, the download, attempts that poll, the script |
| `ModDownloaderProofs` | invariants of that module, proved |
| `ConnectionManager` | joining a server: attempts, their threads, commands, tasks, the player, the engine's callbacks |
| `ConnectionManagerProofs` | invariants of that module, proved |
| `MCConnectionManager` | symmetry of the servers for TLC |
| `EosTransport` | packets cut into frames, reassembled and queued |
| `EosSession` | setup, login, registration and shutdown around it; extends `EosTransport` |
| `EosSessionProofs` | invariants of both, proved |
| `MCEosSession` | symmetry of the users for TLC |
| `ServerSessions` | how a game server admits players and saves their data |
| `ServerSessionsProofs` | invariants of that module, proved |
| `MCServerSessions` | an instance with the owner of each token, and its symmetry |
| `ServerPresence` | how a game server registers with the master server and stays listed, over several games |
| `ServerPresenceProofs` | invariants of that module, proved |

### ModInstallService

State and code correspond one to one: `busy`, `pending`, `nextGeneration` are
guarded by `m_RequestMutex`; `migGeneration`, `migDecision` by
`m_MigrationMutex`; `cancelRequested` is the atomic; `snapshot` is what
`m_Snapshot` points to. A caller's program point `cpc` runs through `Request`
(`RequestAccept`, `RequestClear`, `RequestPublish`, `RequestNotify`) or
`Cancel` (`CancelRead`, `CancelStore`, `CancelNotify`, `CancelPublish`). The
worker's `wpc` names the phase it is in. `Transition` is two steps, `Draft`
(copy the snapshot) and `Publish`, because the code reads and writes
`m_Snapshot` in two critical sections and another thread can publish in
between. A phase that downloads, extracts or renames ends in any outcome.
The three `Request...` functions differ in what they validate, not in
what they share; they are one action. Whether a request installs or removes is
decided when the worker takes it: nothing looks at it earlier.
`m_MigrationChanged.wait` is `wait` (the predicate is evaluated), `blocking`
(it was false, the thread does not sleep yet, the mutex is held), `asleep`.
`Cancel` notifies without the mutex, so its notification is lost in
`blocking`; `DecideMigration` cannot run there. Spurious wakeups are possible.

The history variables `prompted`, `accepted` and `timely` record, for the
operation under way, that the player was asked, agreed, or cancelled in time.

### ModRuntime and ModInstallCommit

A slot is a mod name; each slot has two folders, the one the mod browser
manages and another one. A folder holds a version (the number of the operation
that installed it), nothing, or the remains of a failed deletion. The
configuration maps a folder and version to a flag. In the code the key is the
mod's name and version; packages in different folders are assumed to have
different versions, as two installations with equal name and version share
their flag and raise no question the model could answer.

The worker's steps are the single renames and deletions of `CommitPlans`, in
its order (old package, replaced packages, new package, plan after plan; the
rollback in reverse), so each state between two steps is one that a killed
process leaves behind. `Ask` queues a task, `RunTask` is the main thread,
`Captured`, `Unloaded`, `Verified` and `Restored` take the answer or time out.
The two waits before the commit (`CaptureRuntimeState` and the scan of
`ResolveUnmanagedReplacements`) change nothing and are one. `MaxFaults` counts
failed renames, deletions, unloads and timed-out waits; `MaxActs` counts what
the user does (`Toggle`, `ReloadMods`, `Cancel`).

### ServerModInfo

`total`, `list`, `received` and `listening` are the fields of `ModDownloader`
of those meanings; the first three are guarded by `m_ServerModInfoMutex`,
`listening` is atomic. Each connection attempt has a thread
(`RequestServerModInfo`) and a program point: it opens the collection, resends
the request, waits and stops the collection. A cancelled thread does not die;
it goes on to its next look at `m_bConnecting`, which the next attempt has
raised again, and so works on the next attempt's collection. The network is the
set of answers a server has ever given (`replies`, by the number of mods, or
the invalid count): any packet of any answer may arrive at any time, any number
of times, or never. A packet is its index and total. The client passes a count
packet's total on as it is (`clientstate.cpp:234`), and a negative one closes
the collection (`moddownloader.cpp:1351`): the attempt takes the list as short
as it is and is not told. `Invalid` stands for all negative counts.
`RecvModInfo` is two steps, because the flag and the index are checked before
the lock is taken. Resends, retry intervals and the two timeouts are choices.
`owner` and `refused` are history: the attempt whose collection is undisturbed,
and whether an invalid count has closed it. `CompleteWhenAnswered` says that
the second, a script or another thread are the only ways to a short list; it
does not say that there is none.

### ModDownloader

`state` is `modState.state`, a plain field without a lock, with one value for
all errors; `running` and `shown` are the atomics `m_bDownloadThreadRunning`
and `m_bDownloadCallbacksActive`; `verified` is the catalogue; `disk` says of
each mod's folder whether it is absent, partial or whole. `fetcher`, `thread`
and `pc` are the program points of the manifest threads, the download threads
(there is room for two, so that a wrong claim can show) and the callers of
`DownloadMod`: connection attempts and the script. A step is one access of a
shared variable. The main thread does one thing at a time, so `Connect` and the
script's calls need `pc[Script] = "idle"`; an attempt's thread runs beside it.

The path of an attempt: `FetchList`, `AwaitList` (ended by any write of the
state), `CheckRequired`, then per mod `ChooseMod`, the call (`CheckVerified`,
`LookUpVersion`, `StartModDownload`, `ClaimThread`, `StartDownloadThread`),
`Poll`, `PollRunning`, `Decide`; `RETURN_IF_CANCELLED` in between. A refused or
failed call is followed by `Interrupt`, two steps, which lower the one flag and
abort the one download of all attempts. `verifiedMods.at` throws when another
thread emptied the catalogue after the check; nothing catches it, so the
process ends there (`Thrown`). `doneBy` is history: whose DONE the state is.

What is abstracted: the transfer, the hash and the archive are outcomes (a
transfer succeeds, fails or is aborted; an archive has one or more files, any
of which may fail). Reading the catalogue while it changes is undefined in C++;
the model has the outcomes of a search before or after each change.

### ConnectionManager

`cm` is the record of the `ConnectionManager`'s fields, `ms` that of the
`MasterServerManager` fields which attempts wait for. Each attempt has a
detached thread with a program point in `thread`; it runs from `CheckAgreed`
over the master server, the authentication, the server's mods, the prompt and
the download to a task in `tasks` (`ReloadModsAndConnect`) or a command in
`cbuf`, which the main thread runs later (`RunTask`, `FinishTask`, `Exec...`).
A step is what a thread does between two waits or tests of `m_bConnecting`;
`Interrupt` is one step. Master server answers (`OriginAuthDone`,
`AuthResult`) and the server's CLIENTNOTIFY (`NotifyArrives`) come at any
time, for any attempt that asked. The player types commands, picks servers,
cancels and answers the prompt; the engine reports a connection or a
disconnect. The mod exchange and the download, which `ServerModInfo` and
`ModDownloader` are about, are one choice each here. So is the look into
`vMapList` with which `Host_Map_f` refuses an unknown map before anything else
(`MapNotFound`): the list follows the directories and the loaded mods and is
refreshed every ten seconds at most, so a map found once may be missed later. A
map command with the plaque flag is not looked up; the model has it as one that
is not refused. The command that `FinaliseJoiningLocalServer` queues has no flag
and is looked up.

An attempt is **clean** (`AtRest`) when it starts with no thread, request,
task, command, dialog or connection of an earlier one left. `CleanJoin`,
`ConsentedDownload` and `LoadAuthenticated` are about clean attempts, because
the code gives no more: attempts share all fields, and a thread learns that its
attempt is over from `m_bConnecting` alone. What an attempt that is not clean
can meet, all of it reachable in the model:

* a thread of a cancelled attempt finds `m_bConnecting` set again by the next
  one and goes on, downloads without a prompt of its own or joins its server;
* a `connect`, `map` or `retry` queued before a cancel starts an attempt after
  it, and the `disconnect` that an `Interrupt` queued ends the next one;
* when a second authentication is under way the request is dropped, and the
  attempt uses the `m_pendingConnectionInfo` of another server, or what it
  first held;
* a late CLIENTNOTIFY replaces `serverfilter`, so another server's token is
  presented;
* an earlier request that ends clears `m_bScriptRequestingServerList`, so a
  retry searches an old list;
* the flag of a localhost retry is taken by the first `connect` that comes,
  whoever typed it.

A clean attempt, too, can be left by its authorised map command when the map is
not in the list (one that was swallowed with the plaque flag was never looked
up): the token and `m_bConnecting` stay set, commands for other maps are
swallowed, and it ends with a cancel or the same command with the flag.
`TokenKeepsItsMap` says that nothing but this refusal parts a token from its
command, and that no later attempt inherits such a token.

A retry without an address leaves the attempt connecting for ever; `connect`
during an attempt goes straight to the engine; a failed origin authentication
is not repeated.

### EosTransport and EosSession

`queue`, `queuedBytes`, `reassemblies` and `reassemblyBytes` are the variables
of `eos.cpp`. A peer's packet is a message; the network may deliver any frame
of any message at any time, repeatedly or never (`ProcessFrame`). The content
of a packet is, for each fragment, the message it came from. Ids wrap, so two
messages may share one. `EosSession` adds the process thread (`Setup`,
`ProcessAuthentication`, callbacks, `ShutdownLocked`), the main thread
(`StartThread`, `SetupAwaited`, `Shutdown`) and the engine. A step is what a
thread does under `sdkMutex`; the stores of `EOS_ShutdownNetworking`, which
takes no lock, are a step each. Two messages with the same sender, socket, size
and id cannot be told apart by a receiver: `SameHeader` says so.

### ServerSessions

`table` is `m_RemoteAuthenticationData`, `handled` is
`m_handledServerConnections`, `needWrite` the entries of
`m_PlayerAuthenticationData`, `saving` the flag `m_bSavingPersistentData`;
`work` and `save` are the detached threads. A connect request is
`ReceiveRequest`, `Mark`, `Fetch`, `AddRemotePlayer` and `Answer`, one access
of shared state each; the hooks of the main thread (`Connect`,
`ActivatePlayer`, `Disconnect`, ...) are a step each. `HostLeaves` is what
`NSTryAuthWithServer` and `ns_try_join_serverid` (`masterserver.cpp:1056`) do:
save everybody. Data is an owner and a version that `Play` raises.

`newest`, `shared`, `used` and `muddled` are history. A player is **muddled**
when a request for a new token of his was taken up while a session, an entry,
a request or a save of his was still there, or when a save of his overtook an
older one. `AcceptedCanJoin`, `LaterLoadsAreSaved` and `ProgressIsKept` except
muddled players, because the code does: an entry is erased by platform id, so a
leftover token is taken for the first load and suppresses a save (the comment
at `sv_client.cpp:286` assumes there is none); saves are not ordered; two
threads that handle the same packet both pass the unlocked look into
`m_handledServerConnections`. Two more limits show in the properties: a
disconnect with the reason "Connection closing" leaves the slot's entry, which
`AddPlayer` does not replace, so a later player of the slot may leave unsaved
(`fresh` in `SavedOnLeave`); and `m_bSavingPersistentData` is cleared by the
first of several saves to end (`shared` in `FlagFollowsSaves`), so the comment
at `masterserver.cpp:676` holds only for a single save.

### ServerPresence

`hasPresence`, `firstUpdate` and `info` are the fields of
`ServerPresenceManager`; `reporter` is the `MasterServerPresenceReporter` with
its two futures, and the id it writes, `m_sOwnServerId`. A future is a record:
none, pending, or a result. The main thread's frame is `Collected` (the
reporter's `RunFrame`), and when the update rate has passed also
`CreateReport`, in the first update of a game, and `ReportPresence`; `Frame`
and `FrameReports` are whole frames, because the main thread alone touches the
reporter. `AddServer` and `UpdateServer` are the ends of the two asynchronous
requests with any answer, `RemoveServer` that of the detached removal.
`NewGame` and `GameShutdown` are the hooks of `host_state.cpp`.

Futures outlive the game that began them, since `DestroyPresence` clears the id
alone (its comment at `masterserver.cpp:1172` takes it for the end of the
process, but it runs after every game). So the next game takes the results of
the last one's requests. `KeepsRegistration` says what that can do to an id:
only the late answer to an earlier game's heartbeat (`update.of < game`), with
the id that was removed or a new one, may replace the id of a server that is
listed. A registration under way when the last game ends is removed by nobody.
`m_fNextAddServerAttemptTime` has no initial value; before the first duplicate
the cooldown may be `"garbage"`, which may lie in the future for ever, and
`GetsListed` excludes it. The model's master server never grants an empty id,
which the code would take for none. Left out: the token that comes with each id,
`m_bSuccessfullyConnected`, and the second reporter of a dedicated server,
which writes the console's title.

## What the runs check

| Run | Instance | States | Shows |
| --- | --- | --- | --- |
| `install_service` | 2 callers, 2 requests, 2 packages, symmetric callers | 2.35 million | `ConsentedReplacement`, `TimelyCancelHonoured`, `TerminalMeansFinished`, `NoRequestSkipped` |
| `install_service_live` | 1 caller, 3 requests | 74 thousand | `EveryRequestFinishes` under `FairSpec` |
| `commit_faults` | 1 mod, 2 operations, 3 faults, 1 act of the user | 592 thousand | `LoadedMatchesDisk`, `UserChoiceKept` |
| `commit_plans` | 2 mods, 1 operation, 2 faults | 384 thousand | `NothingLost`, `AllOrNothing`, refinement of `PackageChange` |
| `rollback_reload` | 1 mod, 1 operation, 1 fault | until violated | finding: `RolledBackMeansReloaded` fails |
| `server_mod_info` | 3 attempts, answers of up to 2 mods and an invalid count, symmetric attempts | 1.93 million | `WellFormedLists`, `CompleteWhenAnswered`, `NoOrphanListening`, `ClosedListFrozen` |
| `mod_downloader` | 1 attempt and the script, 1 mod, 1 manifest thread at a time, room for 2 downloads | 365 thousand | `DownloadsInTurn`, `DownloadedMeansWhole`, `KeepsOnlyWhole`; `DownloadEnds`, `PollEnds` under `FairSpec` |
| `mod_downloader_done` | the same, the mod advertised by nobody | until violated | finding: `DoneMeansInstalled` fails |
| `client_connection` | 2 servers, the lobby and a map, 2 attempts, 2 typed commands, symmetric servers | 2.51 million | `TokenKeepsItsMap`, `AuthenticationNotStuck`, `CleanJoin`, `ConsentedDownload`, `LoadAuthenticated` |
| `eos_session` | 1 peer, 2 users, packets of 1, 2 and 2 fragments, 2 ids, 2 messages, queues of 5 bytes or 2 packets, reassemblies of 7 bytes or 2, lifetime of 1 tick | 2.13 million | `TypeOK`, `MemoryAccounted`, `DeliveredAsSent`, `OnlyForLocalUser`, `LoginInOrder`, `ShutdownLeavesNothing` |
| `server_sessions` | 2 players with 2 tokens and 1, 2 slots, 1 handler, 2 saves at a time, 2 changes of the data of a player | 3.33 million | `OwnData`, `AcceptedCanJoin`, `LaterLoadsAreSaved`, `FlagFollowsSaves`, `ProgressIsKept`, `SavedOnLeave` |
| `server_presence` | 3 games, 2 registrations a game, 3 ids, 2 values of the presence | 309 thousand | `RegistrationsBounded`, `KeepsRegistration`; `GetsListed`, `ChangesAreSent` under `FairSpec` |

The type invariant of each component is a theorem, and that of `eos_session` an
invariant of its run too. `OneOperation`, `WakeupsArrive`, `LateTasksAreOver`
and `WaitHasItsTask` are theorems only.

Why these bounds suffice to show something:

* Two requests and two callers are the least with which a late cancel, a late
  answer or a late publication of one operation meets the next, and two
  packages the least with which the staging loop goes round. The safety
  properties are proved for every number; the run found the wrong versions of
  them first.
* Three faults are the least with which a wait times out in the operation,
  again in its rollback, and in the operation after it.
* Two mods make a chain: the second plan fails after the first was placed, and
  the rollback itself fails on the way back.
* Three attempts let two threads of cancelled attempts disturb the collection
  of the third, one by stopping and one by opening it; answers of no, one and
  two mods have lists that are empty, complete at once, and completed in any
  order, and the invalid count closes any of them.
* An attempt and a script are two callers that race for the claim; a script
  starts any number of manifests and downloads one after the other, so a
  second download follows the first with all that is still under way. One mod
  makes both callers want the same folder. The safety properties are proved
  for any number of all of these.
* Two attempts at two servers are the least with which an old thread, request,
  answer, task or command meets another attempt, and two typed commands the
  least with which one is queued behind the other. The attempt numbers are
  never reused; the properties are proved for every bound.
* Two messages of up to two fragments with two ids meet in these ways: the same
  id and size, the same id and another size, duplicates, evictions by bytes
  and by age, and queues that are full by bytes and by packets. An eviction by
  count needs a third message, which the run does not have; the theorems hold
  for any number.
  Two users let a login change the user while frames are being put together.
* Two tokens of a player and one of another give a second visit and a stranger
  who takes the slot; one handler at a time suffices since repeated packets
  come again after it ended, two saves overlap. The theorems hold for any
  number of handlers, slots and players.
* Three games let the futures of two earlier ones meet a third; two attempts
  instead of five are the least with which one failure is retried and the next
  is the last; three ids give a server a new one, another by a heartbeat, and
  one in the next game.

**Fairness.** The worker and a caller inside a call are scheduled (weak
fairness: they are threads that hold no lock while they wait). The answer to a
migration prompt gets strong fairness: a player who is shown the question
again and again answers some time. Without an answer the worker waits, as it
should. A caller need not make a request.
The threads of `ModDownloader` are scheduled likewise. A transfer ends because
curl gives up below 30 bytes a second, a manifest request after 30 seconds;
that an archive has finitely many files is the strong fairness of the last
one. `PollEnds` asks only that polling ends once no download is left: a script
that starts a download after every other may hold an attempt up. Its other
exception is real too: an archive that cannot be walked to its end
(`moddownloader.cpp:882`) leaves the state at EXTRACTING with no thread, and
the attempt polls until the user interrupts it.
In `ServerPresence` frames come while a server is active, requests end because
`SetCommonHttpClientOptions` sets a limit of 30 seconds, and the update rate and
the cooldown pass. A game need not last and nobody need start one.

**Deadlock** is checked for `ModInstallService`: the worker can always park.
It is checked for `ServerModInfo` and `ModDownloader` too, but there says
little, since a script can always act.
`ModInstallCommit`, `ConnectionManager`, `EosSession`, `ServerSessions` and
`ServerPresence` stop when their operations, attempts, sessions, tokens or games
are used up, hence `CHECK_DEADLOCK FALSE`. All but the last of these state
safety only and no fairness.

**Findings.** Two properties do not hold, each shown by a run of its own:

* `RolledBackMeansReloaded`: `ReloadAfterRollback` reports success although
  `LoadMods` gave up (`modinstaller.cpp:1520`).
* `DoneMeansInstalled`: a manifest request that ends during a download writes
  DONE (`moddownloader.cpp:309`), which hides the download's failure from the
  attempt that polls and from the cleanup. `KeepsOnlyWhole` shows that nothing
  else can hide it from the cleanup.

One more shows in the model without a run: `Request` publishes `Queued` after
it let go of the mutex (`modinstaller.cpp:1988`); if the worker has ended by
then, `Queued` stays in the snapshot until the next request.
`TerminalMeansFinished` states the direction that does hold.

Every property of a passing run has a mutant, an operator beside the
definition it changes, that breaks it in the way a slip in the code would.

## What is proved

`ModInstallServiceProofs`, for any set of callers and any bounds
`MaxGen \in Nat`, `MaxPlans \in Nat \ {0}`:

| Theorem | Statement |
| --- | --- |
| `TypeCorrect` | `Spec => []TypeOK` |
| `OneOperationAtATime` | `Spec => []OneOperation` |
| `RequestsInOrder` | `Spec => NoRequestSkipped` |
| `NoReplacementWithoutConsent` | `Spec => []ConsentedReplacement` |
| `TimelyCancelIsHonoured` | `Spec => []TimelyCancelHonoured` |
| `TerminalSnapshotIsFinal` | `Spec => []TerminalMeansFinished` |
| `NoRequestIsMissed` | `Spec => []WakeupsArrive` |

The argument is a tower of inductive invariants, each proved with those below
it as known facts:

1. `TypeInv`: `TypeOK` and what `wpc` says about the worker's own variables.
2. `OrderInv`: the request slot, `m_Busy` and the worker agree about which
   generation is under way; copies that callers hold have generations that
   were handed out. `OneOperation` and `NoRequestSkipped` follow.
3. `ConsentInv`: a pending migration carries the generation of the operation
   that asked, and an answer recorded for it is in `accepted`. The property
   alone is not inductive, for it says nothing about the time between the
   answer and the commit.
4. `CancelInv`: while an operation is in `timely` and a check is ahead, the
   cancel flag is set; only `RequestClear` of a newer request could erase it,
   and `OrderInv` excludes that one.
5. `TerminalInv`: a copy of the snapshot that some thread holds is terminal
   only if it is of an operation that has ended.
6. `WakeInv`: whoever filled the request slot of a parked worker has still to
   notify it, and no decision falls between the worker's check and its sleep.
   It is what safety can say of `EveryRequestFinishes`: the one wakeup that can
   be lost is that of `Cancel`, and the answer to the prompt makes up for it.

`ServerModInfoProofs`, for any set of attempts and any `MaxMods \in Nat`:

| Theorem | Statement |
| --- | --- |
| `TypeInvariant` | `Spec => []TypeOK` |
| `ListsAreOfOneTotal` | `Spec => []OneTotal` |
| `ListsHaveNoRepeats` | `Spec => []OncePerIndex` |
| `ListsAreWellFormed` | `Spec => []WellFormedLists`, the two together |
| `ClosedListIsFrozen` | `Spec => ClosedListFrozen` |
| `ListeningHasAnOwner` | `Spec => []NoOrphanListening` |
| `AnswersAreComplete` | `Spec => []CompleteWhenAnswered` |

Three layers: types and the packet in hand; `ListInv`, by which the list has
as many elements as there are indices received, so that a full count means a
complete list (this is where the finite-set theorems come in); and
`RequestInv`, what each phase of the request that owns the collection says
about it. `CompleteWhenAnswered` alone is not inductive: it says nothing of
a collection that has closed while its attempt still asks or waits.

`ModDownloaderProofs`, for any sets of mods, attempts and threads:

| Theorem | Statement |
| --- | --- |
| `TypeInvariant` | `Spec => []TypeOK` |
| `OneDownloadAtATime` | `Spec => []OneDownload` |
| `UIIsInStep` | `Spec => []UIFollowsDownload` |
| `DownloadsTakeTurns` | `Spec => []DownloadsInTurn`, the two together |
| `DownloadedIsWhole` | `Spec => []DownloadedMeansWhole` |
| `KeptFolderIsWhole` | `Spec => KeepsOnlyWhole` |

`ClaimInv` says that the flag covers the time from the exchange to the end of
the thread and has one holder; `ShownInv` that the notification is over when
the claim is given back; `DoneInv` that no thread short of its `Finish` is
the author of DONE, which needs the one thread of `ClaimInv`, for a second one
could finish while the first still writes. `StepCases` splits the steps into
those of the download thread, the claim, the start, and quiet ones, which
leave threads and disk alone; each layer then treats these four. The only
assumptions are that the script is not an attempt and that no mod is named
like the two values of the history variable.

`ModInstallCommitProofs`, for any number of mods, operations, faults and acts:

| Theorem | Statement |
| --- | --- |
| `TypeCorrect` | `Spec => []TypeOK` |
| `LateTasksOver` | `Spec => []LateTasksAreOver` |
| `NothingIsLost` | `Spec => []NothingLost` |
| `Atomic` | `Spec => []AllOrNothing` |
| `Refinement` | `Spec => ChangeSpec`, the specification of `PackageChange` |
| `LoadedIsDisk` | `Spec => []LoadedMatchesDisk` |
| `WaitsAreAnswered` | `Spec => []WaitHasItsTask` |
| `UserChoiceIsKept` | `Spec => []UserChoiceKept` |

`TypeInv` adds the range in which the loop over the plans stays; `QueueInv`
says that only the youngest task is awaited, and which one. `JobInv` says how
far the operation has come: a folder's old content is on disk or in the backup
according to the phase and the plan's index (`Progress`), and the outcome says
which of the two states the disk is in (`Outcomes`). `NothingLost` alone is not
inductive, for it does not say which folders the rollback has still to visit.
The refinement maps every step to a stutter except the commit decision, the
report of an operation and its start. `LoadedIsDisk` needs three more: the
answer waited for is of the phase that waits (`AskedInv`), a package that
`LoadMods` rejects can still be taken away (`SoundInv`), and outside the phases
that change folders memory is in step or a reload is queued (`LoadedInv`).

`UserChoiceIsKept` follows one flag through an operation. The user's choice is
at first what is saved for the package; from the capture on it is in
`captured`, while the unload saves the package as disabled; then it is in the
states of the reload that is queued last; that reload saves it again. So
`ChoiceInv` says of every slot that is tracked: either what is saved is what
the user wanted (`Heeded`), or the last reload to come carries it (`Carried`);
all flags on their way are right (`StatesInv`); and a slot without a package
counts as enabled, in the configuration too (`BareInv`). It needs that a slot
has one package at a time (`Lone`), for two enabled versions disable each
other, and two invariants more: `ShapeInv`, what memory, configuration and
queue look like in each phase (versions of this operation are unknown to the
configuration until they are loaded), and `PlanInv`, by which the packages to be
replaced are all those of the slots that the operation fills, and exactly their
flags were captured. The property alone is far from inductive, since it speaks
only of states in which the worker is idle. `ChoiceInv` holds only while no
unload outlived its wait, no `LoadMods` gave up and no rollback failed
(`OnTrack`), as the property does. TLC checked the three on the instance of
`commit_faults` and with two mods before they were proved.

`ConnectionManagerProofs`, for any servers, maps and bounds:

| Theorem | Statement |
| --- | --- |
| `TypeCorrectness` | `Spec => []TypeOK` |
| `FlagIsReleased` | `Spec => []AuthenticationNotStuck` |
| `TokenHasItsMap` | `Spec => TokenKeepsItsMap` |
| `CleanAttemptJoinsItsServer` | `Spec => CleanJoin` |
| `CleanAttemptAsksFirst` | `Spec => ConsentedDownload` |
| `CleanAttemptLoadsWhenAuthenticated` | `Spec => LoadAuthenticated` |

`CleanInv` is about the current attempt when it is clean: requests, tasks,
dialog and queued commands are its own (`Own`), each program point says what
has been established and what may be queued (`Phase`), and the filter is that
of its server (`Presented`). The join, the download and the map load are each
the end of a chain of such points. `TokenHasItsMap` goes by the steps: every one
but the refusal keeps the token's command queued (`StepQueued`), and the one that
begins an attempt leaves no token without one (`NewAttemptQueues`).

`EosSessionProofs`, for any peers, users, sizes and limits:

| Theorem | Statement |
| --- | --- |
| `RegisteredWhenReady` | `Spec => []ReadyIsRegistered` |
| `RequestsDoNotOverlap` | `Spec => []OneRequest` |
| `LoginStaysInOrder` | `Spec => []LoginInOrder`, the two together |
| `ShutdownIsClean` | `Spec => []ShutdownLeavesNothing` |
| `PacketsAreDeliveredAsSent` | `Spec => []DeliveredAsSent` |
| `PacketsAreForLocalUser` | `Spec => []OnlyForLocalUser` |
| `TypesKept` | `Spec => []TypeOK` |
| `MemoryIsAccounted` | `Spec => []MemoryAccounted` |

`SessionInv` ties the program points of the two threads to the fields of the
session; `PacketsInv` says that what is queued or being put together has parts
of one header, all for the local user. A sum of sizes is written as the number
of pairs of a packet and one of its bytes, so that the theorems about finite
sets apply to it: what is added or taken away changes the counter by the size
of the set. That no counter goes below zero, where a `size_t` would wrap, is a
part of `TypesKept` and follows from the same equations.

`ServerSessionsProofs`, for any players, tokens, slots, handlers and saves:

| Theorem | Statement |
| --- | --- |
| `TypeCorrect` | `Spec => []TypeOK` |
| `PlayersHaveOwnData` | `Spec => []OwnData` |
| `FlagIsReleased` | `Spec => []FlagFollowsSaves` |
| `LeaversAreSaved` | `Spec => SavedOnLeave` |
| `AcceptedPlayersCanJoin` | `Spec => []AcceptedCanJoin` |
| `LoadsAfterTheFirstAreSaved` | `Spec => []LaterLoadsAreSaved` |
| `ProgressIsNeverLost` | `Spec => ProgressIsKept` |

Lemmas state the effect of each action on the tables; the invariants use those
instead of the actions. `OwnedInv` says that data is its owner's wherever it
travels. `AdmitInv` says of a player who is not muddled that he has at most one
entry, that it is there from before the answer until he has used it, and that
nothing else of his runs meanwhile. `KeptInv` orders the versions: the master
server's copy, that of a save, that of the session and that of an entry or a
fetch. `ProgressIsKept` needs all of them, since any of these copies may be the
next to be saved.

`ServerPresenceProofs`, for any values of the presence, any number of attempts,
games and ids:

| Theorem | Statement |
| --- | --- |
| `TypeCorrect` | `Spec => []TypeOK` |
| `RegistrationsAreBounded` | `Spec => []RegistrationsBounded` |
| `RegistrationIsKept` | `Spec => KeepsRegistration` |

`Good` says of the reporter in any state that a registration under way means no
id and attempts left; `Fresh` that a heartbeat of this game is for the id the
server has; `Counted` that a registration begun is counted already, under way,
or has brought the id. `RegistrationsBounded` needs the last, since a game
counts its attempts when it takes the results, and those of an earlier game
count too.

Every safety and action property of a passing run is so proved for every value
of the constants. Model-checked only are the liveness properties
(`EveryRequestFinishes`, `DownloadEnds`, `PollEnds`, `GetsListed`,
`ChangesAreSent`): they rest on fairness and `ENABLED`, for which the prover has
no rule. `NoRequestIsMissed` and `WaitsAreAnswered` are what safety can say of
the first.

## What is not modelled

* `Shutdown` of the install service: no code calls it.
* Downloads, archives, marker files, the dependency graph: outcomes.
* Restart after a crash: no code looks at the job directory at start-up; the
  states between steps are what a crash leaves, and `NothingLost` is about
  them.
* `DownloadModWorkshop`, the player's consent and the choice of a download
  source: later in the plan. In `ModDownloader` the player accepts.
* A late packet of another server that announced the same total: the code has
  nothing to tell it by, and it is in `ServerModInfo` like any other.
* In `ConnectionManager`: matchmaking, `connectWithKey`, how addresses are
  parsed, and of `Host_Map_f` the dedicated server's branch and the refusals for
  a wrong number of arguments, which change nothing.
* In `ServerSessions`: the entry the host makes for itself
  (`AuthenticateWithOwnServer`), bots and insecure mode, names and bans other
  than as outcomes, `m_bForceResetLocalPlayerPersistence`, the limits per
  player, the signature of packets, the early return on empty data. The maps
  are read without a lock, which is undefined; the model has the outcomes
  before and after each write. A slot the engine closed is free again.
* In `ServerPresence`: a game loaded from a save (`State_LoadGame` creates no
  presence), and a change of map, which is one more `SetInfo`.
* Mod save files: a thread per call, whose order is not that of the calls.
  Studied, not modelled.
* The engine, hooks, SDK headers, vendored libraries (`mathlib`, Recast and
  Detour, curl, protobuf) and the particle editor, nine tenths of the lines: no
  shared state of their own, or none whose code is here.
* Core packages, which every operation refuses; folders the user deletes by
  hand while an operation runs.
* Main-thread tasks of other components in the same queue: they only delay.

## Plan

In this order, each with its runs and mutants:

1. Liveness of `ConnectionManager` (an attempt ends) and of `EosSession` (a
   session becomes ready) under the fairness of their threads.
2. Server authentication: the host's own entry and the wait of
   `AuthenticateWithOwnServer` for the flag of the saves.
3. The rest of the downloader: `DownloadModWorkshop` with an abstract install
   service, the choice of a source, the removal of older versions.
4. Dependency resolution: a pure function against its definition.
5. Mod save files.
