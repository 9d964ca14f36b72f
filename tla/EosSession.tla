------------------------------- MODULE EosSession -------------------------------
(***************************************************************************)
(* The EOS session of the process (src/src/eos/eos.cpp): setup and         *)
(* shutdown, the device id and login requests with their retries, and the  *)
(* P2P registration.  Packets arrive for the user that is logged in.       *)
(*                                                                         *)
(* Three threads meet: the process thread, which sets up the SDK, runs its *)
(* callbacks in EOS_Platform_Tick and shuts it down; the main thread in    *)
(* EOS_Init and EOS_ShutdownNetworking; and the engine, which sends,       *)
(* receives and resets the queues.  A step is what a thread does under     *)
(* sdkMutex, or one store outside it.                                      *)
(***************************************************************************)
EXTENDS EosTransport

VARIABLES
  main,          \* where the main thread is in EOS_Init and EOS_ShutdownNetworking
  process,       \* where the process thread is
  initialized, running, ready, authState,
  localUser,     \* the user logged in, or "none"
  notification,  \* the user the connection request notification is for, or "none"
  calls,         \* requests the SDK has yet to answer
  due            \* nextAuthAttempt has passed

session == <<main, process, initialized, running, ready, authState, localUser, notification, calls, due>>
vars == <<sent, packets, session>>

States == {"IDLE", "NEED_DEVICE_ID", "CREATING_DEVICE_ID", "NEED_LOGIN", "LOGGING_IN", "NEED_NOTIFICATION", "READY"}

ASSUME UsersAssumption == "none" \notin Users

Init ==
  /\ InitTransport
  /\ main = "idle" /\ process = "none"
  /\ initialized = FALSE /\ running = FALSE /\ ready = FALSE
  /\ authState = "IDLE" /\ localUser = "none" /\ notification = "none"
  /\ calls = {} /\ due = FALSE

-----------------------------------------------------------------------------
(***************************************************************************)
(* The main thread.                                                        *)
(***************************************************************************)
threads == <<process, authState, localUser, notification, calls, due>>

\* EOS_Init: no process thread exists before it and its wait may end before the setup does.
StartThread ==
  /\ main = "idle" /\ main' = "init"
  /\ running' = TRUE /\ process' = "setup"
  /\ UNCHANGED <<sent, packets, initialized, ready, authState, localUser, notification, calls, due>>

SetupAwaited ==
  /\ main = "init"
  /\ main' \in IF process = "loop" THEN {"up", "stop"} ELSE {"stop"}
  /\ UNCHANGED <<sent, packets, initialized, running, ready, threads>>

\* EOS_ShutdownNetworking: three stores, each seen by the process thread at once, and the join.
Shutdown ==
  /\ \/ main \in {"up", "stop"} /\ main' = "stop1" /\ initialized' = FALSE /\ UNCHANGED <<running, ready>>
     \/ main = "stop1" /\ main' = "stop2" /\ ready' = FALSE /\ UNCHANGED <<initialized, running>>
     \/ main = "stop2" /\ main' = "join" /\ running' = FALSE /\ UNCHANGED <<initialized, ready>>
     \/ main = "join" /\ process = "over" /\ main' = "over" /\ UNCHANGED <<initialized, running, ready>>
  /\ UNCHANGED <<sent, packets, threads>>

-----------------------------------------------------------------------------
(***************************************************************************)
(* The process thread: setup, and the end of its loop.                     *)
(***************************************************************************)
Setup ==
  /\ process = "setup"
  /\ \/ /\ process' = "loop" /\ initialized' = TRUE
        /\ authState' = "NEED_DEVICE_ID" /\ due' = TRUE
        /\ UNCHANGED running
     \/ /\ process' = "over" /\ running' = FALSE
        /\ UNCHANGED <<initialized, authState, due>>
  /\ UNCHANGED <<sent, packets, main, ready, localUser, notification, calls>>

\* Mutant: EOS_ShutdownNetworking has stored it already.
Uninitialise_LeftToMain == UNCHANGED initialized

Uninitialise == initialized' = FALSE

\* EOS_ShutdownLocked, when the loop finds running false.
ShutdownLocked ==
  /\ process = "loop" /\ ~running /\ process' = "over"
  /\ authState' = "IDLE" /\ localUser' = "none" /\ notification' = "none" /\ calls' = {}
  /\ ready' = FALSE /\ Uninitialise
  /\ ResetPacketQueue
  /\ UNCHANGED <<sent, main, running, due>>

-----------------------------------------------------------------------------
(***************************************************************************)
(* Authentication, in an iteration of the loop that has begun.             *)
(***************************************************************************)
sessionOnly == <<main, process, initialized, running>>

\* Mutant: a login that is under way is not waited for.
CanRequestLogin_Always == TRUE

CanRequestLogin == authState # "LOGGING_IN"

RequestLogin(invalid) ==
  /\ ready' = IF invalid THEN FALSE ELSE ready
  /\ IF CanRequestLogin
     THEN authState' = "NEED_LOGIN" /\ due' = TRUE
     ELSE UNCHANGED <<authState, due>>
  /\ UNCHANGED <<sent, packets, sessionOnly, localUser, notification, calls>>

\* ScheduleRetry, with its delay of at most 30 seconds.
ScheduleRetry(state) == authState' = state /\ due' = FALSE

DelayPasses ==
  /\ ~due /\ due' = TRUE
  /\ UNCHANGED <<sent, packets, sessionOnly, ready, authState, localUser, notification, calls>>

BeginRequest(from, to, call) ==
  /\ authState = from /\ authState' = to /\ calls' = calls \cup {call}
  /\ UNCHANGED <<ready, localUser, notification, due>>

\* Adding the notification removes the one there was.
AddConnectionNotification ==
  /\ authState = "NEED_NOTIFICATION"
  /\ \/ /\ notification' = localUser
        /\ authState' = "READY" /\ ready' = TRUE /\ UNCHANGED due
     \/ /\ notification' = "none" /\ ScheduleRetry("NEED_NOTIFICATION")
        /\ UNCHANGED ready
  /\ UNCHANGED <<localUser, calls>>

ProcessAuthentication ==
  /\ process = "loop" /\ due
  /\ \/ BeginRequest("NEED_DEVICE_ID", "CREATING_DEVICE_ID", "device")
     \/ BeginRequest("NEED_LOGIN", "LOGGING_IN", "login")
     \/ AddConnectionNotification
  /\ UNCHANGED <<sent, packets, sessionOnly>>

\* The SDK answers a request for good; a shutdown that has begun ignores the answer.
Answered(call) ==
  /\ process = "loop" /\ call \in calls /\ calls' = calls \ {call}
  /\ UNCHANGED <<sent, sessionOnly>>

CreateDeviceIdComplete ==
  /\ Answered("device")
  /\ \/ running /\ authState' = "NEED_LOGIN" /\ due' = TRUE
     \/ running /\ ScheduleRetry("NEED_DEVICE_ID")
     \/ ~running /\ UNCHANGED <<authState, due>>
  /\ UNCHANGED <<packets, ready, localUser, notification>>

KeepsSession(u) == u = localUser /\ notification # "none"

LoginComplete ==
  /\ Answered("login")
  /\ \/ /\ running
        /\ \E u \in Users :
             /\ localUser' = u
             /\ \/ /\ KeepsSession(u)
                   /\ authState' = "READY" /\ ready' = TRUE
                   /\ UNCHANGED <<packets, notification, due>>
                \/ /\ ~KeepsSession(u)
                   /\ notification' = "none" /\ ResetPacketQueue
                   /\ authState' = "NEED_NOTIFICATION" /\ due' = TRUE
                   /\ UNCHANGED ready
     \/ running /\ ScheduleRetry("NEED_LOGIN") /\ UNCHANGED <<packets, ready, localUser, notification>>
     \/ ~running /\ UNCHANGED <<packets, ready, authState, localUser, notification, due>>

AuthExpiration == process = "loop" /\ running /\ localUser # "none" /\ RequestLogin(FALSE)

\* LoginStatusChanged, or a receive the SDK refuses.
AuthLost == process = "loop" /\ localUser # "none" /\ RequestLogin(TRUE)

-----------------------------------------------------------------------------
(***************************************************************************)
(* Packets.                                                                *)
(***************************************************************************)
ProcessIncoming ==
  /\ process = "loop"
  /\ \E n \in DOMAIN sent : \E i \in 1 .. FragmentCount(sent[n].size) :
       sent[n].to = localUser /\ ProcessFrame(n, i)
  /\ UNCHANGED <<sent, session>>

\* The engine sends, and the SDK refuses for lack of a login.
SendRefused == initialized /\ ready /\ localUser # "none" /\ RequestLogin(TRUE)

\* CHostState::State_GameShutdown.
GameShutdown == main = "up" /\ ResetPacketQueue /\ UNCHANGED <<sent, session>>

EngineReceives == main = "up" /\ (\E s \in Sockets : ReceivePacket(s)) /\ UNCHANGED session

PeerStep ==
  /\ localUser # "none"
  /\ \E p \in Peers, s \in Sockets, size \in Sizes : PeerSends(p, localUser, s, size)
  /\ UNCHANGED session

CleanupReassemblies == process = "loop" /\ Cleanup /\ UNCHANGED session

Clock == Tick /\ UNCHANGED session

Next ==
  \/ StartThread \/ SetupAwaited \/ Shutdown
  \/ Setup \/ ShutdownLocked
  \/ ProcessAuthentication \/ DelayPasses \/ CreateDeviceIdComplete \/ LoginComplete
  \/ AuthExpiration \/ AuthLost
  \/ ProcessIncoming \/ SendRefused \/ GameShutdown \/ EngineReceives
  \/ PeerStep \/ CleanupReassemblies \/ Clock

Spec == Init /\ [][Next]_vars

-----------------------------------------------------------------------------
(***************************************************************************)
(* Properties.                                                             *)
(***************************************************************************)

\* Types of the state.
TypeOK ==
  /\ sent \in Seq(Message) /\ Len(sent) <= MaxMessages
  /\ queue \in [Sockets -> Seq(Packet)] /\ queuedBytes \in [Sockets -> Nat]
  /\ reassemblies \subseteq Reassembly /\ reassemblyBytes \in Nat
  /\ main \in {"idle", "init", "up", "stop", "stop1", "stop2", "join", "over"}
  /\ process \in {"none", "setup", "loop", "over"}
  /\ {initialized, running, ready, due} \subseteq BOOLEAN
  /\ authState \in States /\ calls \subseteq {"device", "login"}
  /\ {localUser, notification} \subseteq Users \cup {"none"}

\* Whatever waits for the engine or to be completed was sent to the user that is logged in now,
\* although a login may change the user while frames are being put together.
OnlyForLocalUser ==
  /\ \A s \in Sockets : \A i \in DOMAIN queue[s] : \A n \in Parts(queue[s][i]) : sent[n].to = localUser
  /\ \A r \in reassemblies : \A n \in Parts(r) : sent[n].to = localUser

\* A session that counts as ready accepts connections for the very user it is logged in as: a
\* registration never survives a change of the user.
ReadyIsRegistered == authState = "READY" => localUser # "none" /\ notification = localUser

\* At most one request is open, and the state says which: expiry, a lost login and refused packets
\* that come while a login is under way neither start a second one nor forget the first.
OneRequest ==
  running => calls =
    CASE authState = "CREATING_DEVICE_ID" -> {"device"}
      [] authState = "LOGGING_IN"         -> {"login"}
      [] OTHER                            -> {}

\* Both: the state, the open request, the user and the registration never part, in whatever order
\* refreshes, losses, refusals and retries come.
LoginInOrder == ReadyIsRegistered /\ OneRequest

\* Once EOS_ShutdownNetworking has returned nothing of the session is left, also when the setup ended
\* only after EOS_Init gave up waiting for it.
ShutdownLeavesNothing ==
  main = "over" =>
    /\ ~initialized /\ ~running /\ ~ready
    /\ localUser = "none" /\ notification = "none" /\ calls = {}
    /\ reassemblies = {} /\ \A s \in Sockets : queue[s] = <<>>
=============================================================================
