---------------------------- MODULE ConnectionManager ----------------------------
(***************************************************************************)
(* Joining a server from the client                                        *)
(* (src/src/engine/client/connection_manager.cpp and .h), with the parts   *)
(* of the master server client it waits for, the map command of            *)
(* util/printmaps.cpp and CL_Retry of engine/client/cl_main.cpp.           *)
(*                                                                         *)
(* Connect starts a detached thread per attempt; the thread authenticates, *)
(* asks the server for its mods, asks the player, downloads, and leaves a  *)
(* task for the main thread or a console command behind.  Attempts share   *)
(* one ConnectionManager: a thread learns that its attempt is over only    *)
(* from m_bConnecting, which a later Connect sets again.  The main thread  *)
(* runs commands and tasks, the player's cancel, answers and new attempts, *)
(* and the engine's callbacks.                                             *)
(*                                                                         *)
(* A step is what a thread does between two waits or tests of m_bConnecting*)
(* and Interrupt is one step.  Direct stands for P2P too, which differs in *)
(* how the address is parsed.  What a request or a prompt answers is a     *)
(* choice; the mod info exchange and the download are in ServerModInfo and *)
(* ModDownloader.  Matchmaking is left out.                                *)
(***************************************************************************)
EXTENDS Naturals, Sequences, FiniteSets

CONSTANTS
  Servers,      \* the servers the player may join
  Maps,         \* the maps the player may load
  Lobby,        \* mp_lobby, loaded when no map was named
  MaxAttempts,  \* bound: attempts of a behaviour
  MaxTyped      \* bound: commands of the player

ASSUME ConstantsAssumption ==
  /\ Lobby \in Maps
  /\ MaxAttempts \in Nat \ {0} /\ MaxTyped \in Nat
  /\ {"none", "own", "nowhere"} \cap Servers = {} /\ "none" \notin Maps
  /\ Servers \cap Maps = {}

VARIABLES
  cm,          \* the fields of the ConnectionManager
  ms,          \* the fields of the MasterServerManager that attempts wait for
  thread,      \* program point, mode, target and address of each attempt's thread
  request,     \* the attempts whose authentication request is under way
  asked,       \* servers that may still send a CLIENTNOTIFY
  filter,      \* serverfilter: whose token the engine presents
  cbuf,        \* the command buffer
  tasks,       \* g_TaskQueue: ReloadModsAndConnect tasks
  main,        \* the task the main thread is in the middle of, or 0
  joining,     \* the connection the engine is setting up
  lastAddress, \* the engine's m_szServerAddress
  server,      \* whether a listen server runs
  dialog,      \* the attempt whose consent dialog is on screen, or 0
  typed,       \* bound: commands of the player so far
  current,     \* history: number of the latest attempt
  clean,       \* history: attempts that started when nothing of an earlier one was left
  consent,     \* history: attempts whose own dialog the player accepted
  unloaded     \* history: attempts whose downloads no reload has picked up

external == <<joining, lastAddress, server>>
history  == <<current, clean, consent, unloaded>>
vars == <<cm, ms, thread, request, asked, filter, cbuf, tasks, main, external, dialog, typed, history>>

-----------------------------------------------------------------------------
Attempts == 1 .. MaxAttempts
Modes    == {"Remote", "Direct", "Local"}
Places   == Servers \cup {"none", "own", "nowhere"}   \* nowhere: what m_pendingConnectionInfo first holds
Choices  == {"NOT_DECIDED", "ACCEPTED", "DENIED", "SKIP_OPTIONAL"}
Points   == {"over", "agreed", "origin", "origin!", "list", "auth", "request", "authWait", "prepare",
             "ask", "askMods", "answer", "answerMods", "answer!", "answerMods!", "mods", "mods!",
             "prompt", "consent", "download!", "download", "poll", "reload", "join", "final", "finalise"}

Command(cmd, arg, by) == [cmd |-> cmd, arg |-> arg, by |-> by]
Commands ==
  [cmd : {"connect"}, arg : Places, by : 0 .. MaxAttempts] \cup [cmd : {"map"}, arg : Maps, by : 0 .. MaxAttempts]
    \cup [cmd : {"disconnect", "retry"}, arg : {"none"}, by : 0 .. MaxAttempts]

\* The fields of cm, ms and a thread.
Fields ==
  [connecting : BOOLEAN, retrying : BOOLEAN, localRetry : BOOLEAN, plaque : BOOLEAN,
   accept : Choices, downloadedMods : BOOLEAN, authSuccessful : BOOLEAN, mode : Modes, lastMode : Modes,
   map : Maps \cup {"none"}, authorized : BOOLEAN, lastServer : Servers \cup {"none"}]
MasterFields ==
  [origin : {"none", "pending", "ok", "failed"}, authenticating : BOOLEAN, success : BOOLEAN,
   pending : Servers \cup {"nowhere"}, notified : BOOLEAN]
ThreadFields == [pc : Points, mode : Modes, to : Places, addr : Places]

Init ==
  /\ cm = [connecting |-> FALSE, retrying |-> FALSE, localRetry |-> FALSE, plaque |-> FALSE,
           accept |-> "NOT_DECIDED", downloadedMods |-> FALSE, authSuccessful |-> FALSE,
           mode |-> "Direct", lastMode |-> "Direct", map |-> "none", authorized |-> FALSE,
           lastServer |-> "none"]
  /\ ms = [origin |-> "none", authenticating |-> FALSE, success |-> FALSE,
           pending |-> "nowhere", notified |-> FALSE]
  /\ thread = [a \in Attempts |-> [pc |-> "over", mode |-> "Direct", to |-> "none", addr |-> "none"]]
  /\ request = {} /\ asked = {} /\ filter = "none"
  /\ cbuf = <<>> /\ tasks = <<>> /\ main = 0
  /\ joining = "none" /\ lastAddress = "none" /\ server = FALSE
  /\ dialog = 0 /\ typed = 0
  /\ current = 0 /\ clean = {} /\ consent = {} /\ unloaded = {}

-----------------------------------------------------------------------------
(***************************************************************************)
(* The fields after ResetState, Interrupt and Connect.                     *)
(***************************************************************************)
\* Mutant: the answer to the download prompt survives.
ResetState_KeepsAnswer(c) ==
  [c EXCEPT !.connecting = FALSE, !.authSuccessful = FALSE, !.retrying = FALSE,
            !.downloadedMods = FALSE, !.map = "none", !.authorized = FALSE]

ResetState(c) ==
  [c EXCEPT !.connecting = FALSE, !.authSuccessful = FALSE, !.retrying = FALSE,
            !.downloadedMods = FALSE, !.accept = "NOT_DECIDED", !.map = "none", !.authorized = FALSE]

Interrupt ==
  /\ cm' = [ResetState(cm) EXCEPT !.mode = cm.lastMode]
  /\ cbuf' = IF cm.plaque THEN Append(cbuf, Command("disconnect", "none", 0)) ELSE cbuf

\* Nothing of an earlier attempt is left that could act on the next one.
AtRest(commands) ==
  /\ \A a \in Attempts : thread[a].pc = "over"
  /\ request = {} /\ asked = {} /\ dialog = 0
  /\ commands = <<>> /\ tasks = <<>> /\ main = 0 /\ joining = "none"

\* FinaliseJoiningLocalServer, on the fields c and behind the commands q.
JoinLocal(c, q) ==
  LET map == IF c.map = "none" THEN Lobby ELSE c.map
  IN  IF c.retrying
      THEN cm' = [c EXCEPT !.retrying = FALSE] /\ cbuf' = Append(q, Command("retry", "none", 0))
      ELSE cm' = [c EXCEPT !.map = map, !.authorized = TRUE] /\ cbuf' = Append(q, Command("map", map, 0))

(***************************************************************************)
(* Connect, with the commands left after the one that called it.           *)
(***************************************************************************)
Connect(mode, to, map, commands) ==
  LET a == current + 1
      Begun(p) == [ResetState(cm) EXCEPT
        !.connecting = TRUE, !.mode = mode, !.lastMode = cm.mode, !.map = map, !.plaque = p,
        !.lastServer = IF mode = "Remote" THEN to ELSE @]
  IN  /\ ~cm.connecting /\ a \in Attempts
      /\ current' = a
      /\ clean' = IF AtRest(commands) THEN clean \cup {a} ELSE clean
      /\ \E p \in BOOLEAN :
           \/ /\ cm' = Begun(p) /\ cbuf' = commands
              /\ thread' = [thread EXCEPT ![a] = [pc |-> "agreed", mode |-> mode, to |-> to, addr |-> to]]
           \/ \* ns_auth_allow_insecure: a local server starts without a thread
              /\ mode = "Local"
              /\ JoinLocal([Begun(p) EXCEPT !.authSuccessful = TRUE], commands)
              /\ thread' = [thread EXCEPT ![a] = [pc |-> "over", mode |-> mode, to |-> to, addr |-> to]]
      /\ UNCHANGED <<consent, unloaded>>

-----------------------------------------------------------------------------
(***************************************************************************)
(* The thread of attempt a.                                                *)
(***************************************************************************)
IsCancelled == ~cm.connecting
At(a, p)    == thread[a].pc = p
To(a, p)    == thread' = [thread EXCEPT ![a].pc = p]

threadOnly == <<ms, request, asked, filter, tasks, main, external, dialog, typed, current, clean, consent>>

\* The thread interrupts and goes on to p.
InterruptAnd(a, p) ==
  /\ Interrupt /\ To(a, p)
  /\ UNCHANGED <<threadOnly, unloaded>>

\* The thread goes on to p and touches nothing.
GoOn(a, p) == To(a, p) /\ UNCHANGED <<threadOnly, unloaded, cm, cbuf>>

\* Where RETURN_IF_CANCELLED ends the thread: at its waits and after them.
ReturnIfCancelled(a) ==
  /\ thread[a].pc \in {"origin", "origin!", "list", "authWait", "answer", "answerMods", "answer!", "answerMods!",
                       "mods", "mods!", "consent", "download!", "poll", "final"}
  /\ IsCancelled
  /\ At(a, "consent") => cm.accept # "DENIED"
  /\ GoOn(a, "over")

Authenticated(a) ==
  CASE thread[a].mode = "Remote" -> "list"
    [] thread[a].mode = "Direct" -> "prepare"
    [] OTHER                     -> "auth"

\* Whether the player agreed to send the token is the first thing looked at.
CheckAgreed(a) ==
  /\ At(a, "agreed")
  /\ \/ GoOn(a, "origin")
     \/ ms.origin \in {"none", "pending"} /\ InterruptAnd(a, "origin!")

StartOriginAuth(a) ==
  /\ At(a, "origin") /\ ~IsCancelled /\ ms.origin = "none"
  /\ ms' = [ms EXCEPT !.origin = "pending"]
  /\ UNCHANGED <<cm, thread, request, asked, filter, cbuf, tasks, main, external, dialog, typed, history>>

AuthenticateToMasterServer(a) ==
  /\ At(a, "origin") /\ ~IsCancelled
  /\ \/ ms.origin = "ok" /\ GoOn(a, Authenticated(a))
     \/ \* refused, or timed out
        ms.origin # "ok" /\ InterruptAnd(a, "origin!")

RequestServerList(a) ==
  /\ At(a, "list") /\ ~IsCancelled
  /\ GoOn(a, "auth") \/ InterruptAnd(a, "over")   \* the target may not be in the list

\* AuthenticateWithServer and AuthenticateWithOwnServer first test the flag ...
TestAuthenticating(a) ==
  /\ At(a, "auth")
  /\ GoOn(a, IF ms.authenticating THEN "authWait" ELSE "request")

\* ... and then set it and start the request.
SendAuthentication(a) ==
  /\ At(a, "request")
  /\ ms' = [ms EXCEPT !.authenticating = TRUE, !.success = FALSE]
  /\ request' = request \cup {a} /\ To(a, "authWait")
  /\ UNCHANGED <<cm, asked, filter, cbuf, tasks, main, external, dialog, typed, history>>

UseAuthentication(a) ==
  /\ At(a, "authWait") /\ ~IsCancelled /\ ms.success
  /\ cm' = [cm EXCEPT !.authSuccessful = TRUE]
  /\ \/ /\ thread[a].mode = "Remote" /\ filter' = ms.pending
        /\ thread' = [thread EXCEPT ![a].pc = "prepare", ![a].addr = ms.pending]
     \/ thread[a].mode # "Remote" /\ filter' = "own" /\ To(a, "final")
  /\ UNCHANGED <<ms, request, asked, cbuf, tasks, main, external, dialog, typed, history>>

AuthenticationFailed(a) ==
  At(a, "authWait") /\ ~IsCancelled /\ ~ms.success /\ InterruptAnd(a, "over")

\* PrepareServerModsAndConnect: with allow_mod_auto_download or without; Direct has the server authenticate us.
PrepareServerModsAndConnect(a) ==
  /\ At(a, "prepare")
  /\ \E auto \in BOOLEAN :
       GoOn(a, IF thread[a].mode = "Remote" THEN (IF auto THEN "mods" ELSE "join")
                                            ELSE (IF auto THEN "askMods" ELSE "ask"))

SendInfoRequestPacket(a) ==
  /\ At(a, "ask") \/ At(a, "askMods")
  /\ ms' = [ms EXCEPT !.notified = FALSE]
  /\ asked' = asked \cup ({thread[a].addr} \cap Servers)
  /\ To(a, IF At(a, "ask") THEN "answer" ELSE "answerMods")
  /\ UNCHANGED <<cm, request, filter, cbuf, tasks, main, external, dialog, typed, history>>

AwaitNotify(a) ==
  /\ ~IsCancelled
  /\ \/ At(a, "answer") /\ (IF ms.notified THEN GoOn(a, "join") ELSE InterruptAnd(a, "answer!"))
     \/ At(a, "answerMods") /\ (IF ms.notified THEN GoOn(a, "mods") ELSE InterruptAnd(a, "answerMods!"))
     \/ At(a, "answer!") /\ GoOn(a, "join")
     \/ At(a, "answerMods!") /\ GoOn(a, "mods")
     \/ At(a, "origin!") /\ GoOn(a, Authenticated(a))

\* The list of mods has come: all are there, some have to be downloaded, or one cannot be had.
CheckRequiredMods(a) ==
  /\ At(a, "mods") /\ ~IsCancelled
  /\ GoOn(a, "reload") \/ GoOn(a, "prompt") \/ InterruptAnd(a, "mods!")

NotifyConfirmDownloadMods(a) ==
  /\ At(a, "prompt") /\ dialog' = a /\ To(a, "consent")
  /\ UNCHANGED <<cm, ms, request, asked, filter, cbuf, tasks, main, external, typed, history>>

\* There is no UI to ask.
CannotConfirm(a) == At(a, "prompt") /\ InterruptAnd(a, "mods!")

AwaitConsent(a) ==
  /\ At(a, "consent")
  /\ \/ cm.accept = "DENIED" /\ InterruptAnd(a, "download!")
     \/ ~IsCancelled /\ cm.accept \in {"ACCEPTED", "SKIP_OPTIONAL"} /\ GoOn(a, "download")

DownloadMods(a) ==
  /\ At(a, "download") /\ To(a, "poll")
  /\ cm' = [cm EXCEPT !.downloadedMods = TRUE]
  /\ unloaded' = unloaded \cup {a}
  /\ UNCHANGED <<threadOnly, cbuf>>

\* The source of a mod is asked for, which the player may cancel, or its download does not start.
CannotDownload(a) == At(a, "download") /\ (InterruptAnd(a, "download!") \/ InterruptAnd(a, "mods!"))

AwaitDownload(a) ==
  /\ At(a, "poll") /\ ~IsCancelled
  /\ GoOn(a, "reload") \/ InterruptAnd(a, "mods!")

\* RETURN_IF_CANCELLED after an Interrupt of the thread itself: the attempt may have been succeeded by then.
PastInterrupt(a) ==
  /\ ~IsCancelled
  /\ \/ At(a, "mods!") /\ GoOn(a, "reload")
     \/ At(a, "download!") /\ GoOn(a, "download")

\* Mutant: only a mod that is enabled or disabled asks for a reload.
ReloadTask_IgnoresDownload(a) == [by |-> a, reload |-> FALSE]

\* ReloadModsAndConnect captures m_bDownloadedMods and leaves the rest to the main thread.
ReloadTask(a) == [by |-> a, reload |-> cm.downloadedMods]

ReloadModsAndConnect(a) ==
  /\ At(a, "reload") /\ To(a, "over")
  /\ tasks' = Append(tasks, ReloadTask(a))
  /\ UNCHANGED <<cm, ms, request, asked, filter, cbuf, main, external, dialog, typed, history>>

\* FinaliseJoiningServer for attempt a.
FinaliseJoiningServer(a) ==
  IF cm.retrying
  THEN cm' = [cm EXCEPT !.retrying = FALSE] /\ cbuf' = Append(cbuf, Command("retry", "none", a))
  ELSE cm' = cm /\ cbuf' = Append(cbuf, Command("connect", thread[a].addr, a))

JoinFromThread(a) ==
  /\ At(a, "join") /\ FinaliseJoiningServer(a) /\ To(a, "over")
  /\ UNCHANGED <<threadOnly, unloaded>>

PrepareLocal(a) == At(a, "final") /\ ~IsCancelled /\ GoOn(a, "finalise")

FinaliseJoiningLocalServer(a) ==
  /\ At(a, "finalise") /\ JoinLocal(cm, cbuf) /\ To(a, "over")
  /\ UNCHANGED <<threadOnly, unloaded>>

\* The thread tests, waits and decides, or it does something that others see.
ThreadWaits(a) ==
  \/ ReturnIfCancelled(a) \/ CheckAgreed(a) \/ AuthenticateToMasterServer(a) \/ RequestServerList(a)
  \/ TestAuthenticating(a) \/ AuthenticationFailed(a) \/ PrepareServerModsAndConnect(a) \/ AwaitNotify(a) \/ CheckRequiredMods(a)
  \/ CannotConfirm(a) \/ AwaitConsent(a) \/ CannotDownload(a) \/ AwaitDownload(a) \/ PastInterrupt(a)
  \/ PrepareLocal(a)

ThreadActs(a) ==
  \/ StartOriginAuth(a) \/ SendAuthentication(a) \/ UseAuthentication(a) \/ SendInfoRequestPacket(a)
  \/ NotifyConfirmDownloadMods(a) \/ DownloadMods(a)
  \/ ReloadModsAndConnect(a) \/ JoinFromThread(a) \/ FinaliseJoiningLocalServer(a)

ThreadStep(a) == ThreadWaits(a) \/ ThreadActs(a)

-----------------------------------------------------------------------------
(***************************************************************************)
(* What comes in from the master server and the game servers.              *)
(***************************************************************************)
OriginAuthDone ==
  /\ ms.origin = "pending"
  /\ \E result \in {"ok", "failed"} : ms' = [ms EXCEPT !.origin = result]
  /\ UNCHANGED <<cm, thread, request, asked, filter, cbuf, tasks, main, external, dialog, typed, history>>

AuthSucceeded(a) ==
  [ms EXCEPT !.authenticating = FALSE, !.success = TRUE,
             !.pending = IF thread[a].mode = "Remote" THEN thread[a].to ELSE @]

\* Mutant: a refusal returns before the flag is cleared.
AuthFailed_Returns == {[ms EXCEPT !.authenticating = FALSE, !.success = FALSE], ms}

\* No answer, or one that is refused.
AuthFailed == {[ms EXCEPT !.authenticating = FALSE, !.success = FALSE], [ms EXCEPT !.authenticating = FALSE]}

\* The end of the request of AuthenticateWithServer or AuthenticateWithOwnServer, cleanup included.
AuthResult(a) ==
  /\ a \in request /\ request' = request \ {a}
  /\ ms' \in {AuthSucceeded(a)} \cup AuthFailed
  /\ UNCHANGED <<cm, thread, asked, filter, cbuf, tasks, main, external, dialog, typed, history>>

\* A CLIENTNOTIFY arrives, however late and however often, or no more come.
NotifyArrives(s) ==
  /\ s \in asked
  /\ \/ ms' = [ms EXCEPT !.notified = TRUE] /\ filter' = s /\ UNCHANGED asked
     \/ asked' = asked \ {s} /\ UNCHANGED <<ms, filter>>
  /\ UNCHANGED <<cm, thread, request, cbuf, tasks, main, external, dialog, typed, history>>

-----------------------------------------------------------------------------
(***************************************************************************)
(* The main thread: the task of ReloadModsAndConnect, which runs the       *)
(* command buffer after a reload, and the commands.                        *)
(***************************************************************************)
taskOnly == <<thread, ms, request, asked, filter, external, dialog, typed, current, clean, consent>>

RunTask ==
  /\ main = 0 /\ tasks # <<>> /\ tasks' = Tail(tasks)
  /\ \/ IsCancelled /\ UNCHANGED <<cm, cbuf, main, unloaded>>
     \/ \* mods were downloaded, or one has to be enabled or disabled
        /\ ~IsCancelled
        /\ main' = Head(tasks).by /\ unloaded' = {}
        /\ UNCHANGED <<cm, cbuf>>
     \/ /\ ~IsCancelled /\ ~Head(tasks).reload
        /\ FinaliseJoiningServer(Head(tasks).by)
        /\ UNCHANGED <<main, unloaded>>
  /\ UNCHANGED taskOnly

FinishTask ==
  /\ main # 0 /\ main' = 0
  /\ \/ IsCancelled /\ UNCHANGED <<cm, cbuf>>
     \/ ~IsCancelled /\ FinaliseJoiningServer(main)
  /\ UNCHANGED <<taskOnly, tasks, unloaded>>

IsNext(cmd) == cbuf # <<>> /\ Head(cbuf).cmd = cmd

\* What the engine goes on to connect to.
Joins(s) == joining' = s /\ lastAddress' = s

commandOnly == <<ms, request, asked, filter, tasks, main, dialog, typed>>

ExecDisconnect ==
  /\ IsNext("disconnect") /\ cbuf' = Tail(cbuf)
  /\ cm' = ResetState(cm)
  /\ joining' = "none" /\ server' = FALSE
  /\ UNCHANGED <<commandOnly, thread, lastAddress, history>>

ExecConnect ==
  /\ IsNext("connect")
  /\ LET to   == Head(cbuf).arg
         mode == IF cm.retrying THEN cm.mode ELSE IF to = "own" THEN "Local" ELSE "Direct"
     IN  \/ /\ cm.localRetry \/ cm.connecting
            /\ cm' = [cm EXCEPT !.localRetry = FALSE]
            /\ cbuf' = Tail(cbuf) /\ Joins(to)
            /\ UNCHANGED <<thread, server, history>>
         \/ /\ ~cm.localRetry
            /\ Connect(mode, IF mode = "Remote" THEN cm.lastServer ELSE to, "none", Tail(cbuf))
            /\ UNCHANGED external
  /\ UNCHANGED commandOnly

\* A listen server, started or told to change its level, has the client connect to it.
LoadMap == server' = TRUE /\ Joins("own")

\* Mutant: a deferred map replaces one that is authorised.
DeferMapLoad_Replaces(m) ==
  /\ cm.connecting
  /\ \/ /\ cm.authorized /\ m = cm.map
        /\ cm' = [cm EXCEPT !.authorized = FALSE] /\ LoadMap
     \/ /\ ~cm.authorized \/ m # cm.map
        /\ cm' = [cm EXCEPT !.map = m] /\ UNCHANGED external

\* Mutant: the pending map is let through, authorised or not.
DeferMapLoad_IgnoresToken(m) ==
  /\ cm.connecting
  /\ \/ m = cm.map /\ cm' = [cm EXCEPT !.authorized = FALSE] /\ LoadMap
     \/ m # cm.map /\ cm' = [cm EXCEPT !.map = m] /\ UNCHANGED external

\* DeferMapLoad swallows the command, or lets the authorised one through once.
DeferMapLoad(m) ==
  /\ cm.connecting
  /\ \/ /\ cm.authorized /\ m = cm.map
        /\ cm' = [cm EXCEPT !.authorized = FALSE] /\ LoadMap
     \/ /\ cm.authorized /\ m # cm.map
        /\ UNCHANGED <<cm, external>>
     \/ /\ ~cm.authorized
        /\ cm' = [cm EXCEPT !.map = m] /\ UNCHANGED external

\* Host_Map_f looks a map up in vMapList, which follows the directories and the mods loaded, so that
\* a command may miss where one before it did not.  A command with the plaque flag is not looked up:
\* it is one that is not refused.  Those queued by FinaliseJoiningLocalServer have no flag.
MapNotFound ==
  /\ IsNext("map") /\ cbuf' = Tail(cbuf)
  /\ UNCHANGED <<commandOnly, cm, thread, external, history>>

LoadOrDefer ==
  /\ IsNext("map")
  /\ LET m == Head(cbuf).arg
     IN  \/ /\ server /\ LoadMap /\ cbuf' = Tail(cbuf)
            /\ UNCHANGED <<cm, thread, history>>
         \/ /\ ~server /\ DeferMapLoad(m) /\ cbuf' = Tail(cbuf)
            /\ UNCHANGED <<thread, history>>
         \/ /\ ~server /\ Connect("Local", "own", m, Tail(cbuf))
            /\ UNCHANGED external
  /\ UNCHANGED commandOnly

ExecMap == MapNotFound \/ LoadOrDefer

\* CL_Retry; the engine's own command asks for a connect to the last address.
ExecRetry ==
  /\ IsNext("retry")
  /\ cm' = IF lastAddress = "own" THEN [cm EXCEPT !.localRetry = TRUE] ELSE [cm EXCEPT !.retrying = TRUE]
  /\ cbuf' = IF lastAddress = "none" THEN Tail(cbuf)
             ELSE Append(Tail(cbuf), Command("connect", lastAddress, 0))
  /\ UNCHANGED <<commandOnly, thread, external, history>>

ExecuteCommand == ExecDisconnect \/ ExecConnect \/ ExecMap \/ ExecRetry

-----------------------------------------------------------------------------
(***************************************************************************)
(* The player.  A command waits in the buffer, one at a time; a callback of *)
(* the UI script does not wait.                                            *)
(***************************************************************************)
Type(command) ==
  /\ typed < MaxTyped /\ typed' = typed + 1
  /\ cbuf = <<>> /\ main = 0 /\ cbuf' = <<command>>
  /\ UNCHANGED <<cm, thread, ms, request, asked, filter, tasks, main, external, dialog, history>>

TypeCommand ==
  \/ \E s \in Servers : Type(Command("connect", s, 0))
  \/ \E m \in Maps : Type(Command("map", m, 0))
  \/ Type(Command("retry", "none", 0))

ConnectWithRemoteId(s) ==
  /\ typed < MaxTyped /\ typed' = typed + 1
  /\ main = 0 /\ Connect("Remote", s, "none", cbuf)
  /\ UNCHANGED <<ms, request, asked, filter, tasks, main, dialog, external>>

NSCancelConnection ==
  /\ main = 0 /\ cm.connecting /\ Interrupt
  /\ UNCHANGED <<commandOnly, thread, external, history>>

NSDecideModDownload(choice) ==
  /\ main = 0 /\ dialog # 0 /\ dialog' = 0
  /\ cm' = [cm EXCEPT !.accept = choice]
  /\ consent' = IF choice = "DENIED" THEN consent ELSE consent \cup {dialog}
  /\ UNCHANGED <<ms, thread, request, asked, filter, cbuf, tasks, main, external, typed, current, clean, unloaded>>

-----------------------------------------------------------------------------
(***************************************************************************)
(* The engine calls back: CL_FullyConnected and Host_Disconnect.           *)
(***************************************************************************)
EngineConnected ==
  /\ main = 0 /\ joining # "none" /\ joining' = "none"
  /\ cm' = ResetState(cm)
  /\ UNCHANGED <<commandOnly, thread, cbuf, lastAddress, server, history>>

HostDisconnect ==
  /\ main = 0 /\ (joining # "none" \/ server)
  /\ joining' = "none" /\ server' = FALSE
  /\ cm' = ResetState(cm)
  /\ UNCHANGED <<commandOnly, thread, cbuf, lastAddress, history>>

Player ==
  \/ TypeCommand
  \/ \E s \in Servers : ConnectWithRemoteId(s)
  \/ NSCancelConnection

Answer == \E choice \in Choices \ {"NOT_DECIDED"} : NSDecideModDownload(choice)

Next ==
  \/ \E a \in Attempts : ThreadStep(a) \/ AuthResult(a)
  \/ OriginAuthDone
  \/ \E s \in Servers : NotifyArrives(s)
  \/ RunTask \/ FinishTask \/ ExecuteCommand
  \/ Player \/ Answer
  \/ EngineConnected \/ HostDisconnect

Spec == Init /\ [][Next]_vars

-----------------------------------------------------------------------------
(***************************************************************************)
(* Properties.                                                             *)
(***************************************************************************)

\* Types of the state.
TypeOK ==
  /\ cm \in Fields /\ ms \in MasterFields /\ thread \in [Attempts -> ThreadFields]
  /\ request \subseteq Attempts /\ asked \subseteq Servers /\ filter \in Places
  /\ cbuf \in Seq(Commands) /\ tasks \in Seq([by : Attempts, reload : BOOLEAN])
  /\ {main, dialog, current} \subseteq 0 .. MaxAttempts
  /\ joining \in Places /\ lastAddress \in Places /\ server \in BOOLEAN
  /\ typed \in 0 .. MaxTyped
  /\ clean \cup consent \cup unloaded \subseteq Attempts

\* The token that lets one map command through DeferMapLoad has that command still to come.
AuthorisedMapQueued ==
  cm.authorized /\ ~server => \E i \in DOMAIN cbuf : cbuf[i].cmd = "map" /\ cbuf[i].arg = cm.map

\* The token does not outlive the command it was made for, unless that command itself is refused for
\* a map that is not in the list, after which the token and m_bConnecting stay; and a token left so
\* dies with its attempt: whatever starts the next one leaves none without a command.
TokenKeepsItsMap ==
  [][ AuthorisedMapQueued \/ current' # current => AuthorisedMapQueued' \/ MapNotFound ]_vars

\* m_bAuthenticatingWithGameServer, which makes every other authentication return at once, never
\* stays set when no request is under way, though two may have started and either may end first.
AuthenticationNotStuck == ms.authenticating => request # {}

\* During an attempt that no earlier one reaches into, no thread but its own has the engine join a
\* server: at the address the player chose, presenting the token of that server, and with the
\* mods that were downloaded loaded.
CleanJoin ==
  [][ joining' # joining /\ joining' \in Servers /\ current \in clean /\ Head(cbuf).by # 0 =>
        /\ Head(cbuf).by = current
        /\ joining' = thread[current].to
        /\ filter = joining'
        /\ current \notin unloaded ]_vars

\* Such an attempt starts a download only when the player accepted its own prompt.
ConsentedDownload ==
  [][ (unloaded' \ unloaded) \cap clean \cap {current} \subseteq consent ]_vars

\* The listen server starts under such an attempt only after it was authenticated, or needed not be.
LoadAuthenticated ==
  [][ ~server /\ server' /\ current \in clean => cm.authSuccessful /\ cm.mode = "Local" ]_vars
=============================================================================
