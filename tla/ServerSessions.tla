----------------------------- MODULE ServerSessions -----------------------------
(***************************************************************************)
(* How a game server admits players and keeps their persistent data        *)
(* (src/src/engine/server/serverauthentication.cpp, the CClient hooks of   *)
(* sv_client.cpp, and the connect request and WritePlayerPersistentData of *)
(* masterserver.cpp).                                                      *)
(*                                                                         *)
(* The master server gives a player a token and announces it to the game   *)
(* server in a signed packet, which it repeats.  A detached thread per     *)
(* packet fetches the player's data into m_RemoteAuthenticationData and    *)
(* tells the master server, which tells the player to come.  The main      *)
(* thread admits players by that table, erases what they used, and saves   *)
(* their data with detached threads that share one flag.                   *)
(*                                                                         *)
(* Several threads take these steps; a step of the main thread is a whole  *)
(* hook, a step of another thread one access of shared state.              *)
(***************************************************************************)
EXTENDS Naturals, FiniteSets

CONSTANTS
  Players,     \* platform ids
  Tokens,      \* connection tokens of the master server
  Owner,       \* whom a token was given to
  Clients,     \* slots of g_pClientArray
  Handlers,    \* bound: threads that handle connect requests at a time
  Savers,      \* bound: saves under way at a time
  MaxVersion   \* bound: how often a player's data changes

ASSUME SessionsAssumption ==
  /\ Owner \in [Tokens -> Players]
  /\ MaxVersion \in Nat

VARIABLES
  stored,    \* the master server's copy of each player's data
  handled,   \* m_handledServerConnections
  work,      \* the request each busy handler has, its program point and the data it fetched
  accepted,  \* tokens whose player was told to come
  table,     \* m_RemoteAuthenticationData: data by token
  session,   \* connected clients: the player and m_PersistenceBuffer
  needWrite, \* m_PlayerAuthenticationData: needPersistenceWriteOnLeave by client
  save,      \* the saves under way
  saving,    \* m_bSavingPersistentData
  newest,    \* history: the latest version of a player's data
  shared,    \* history: saves during which another one ended
  used,      \* history: tokens with which a player came in
  muddled    \* history: players whose sessions or saves overlapped

vars == <<stored, handled, work, accepted, table, session, needWrite, save, saving,
          newest, shared, used, muddled>>

-----------------------------------------------------------------------------
(* Data is told apart by its player and its age. *)
Data == [of : Players, version : Nat]
Work == [token : Tokens, at : {"mark", "fetch", "add", "accept"}, data : Data]

(* early and fresh are history: the script has written the data for a leave; *)
(* the slot had no entry in m_PlayerAuthenticationData.                      *)
Session == [player : Players, data : Data, active : BOOLEAN, early : BOOLEAN, fresh : BOOLEAN]
Save == [player : Players, data : Data]

IsPartial(f, S, T) == DOMAIN f \subseteq S /\ f \in [DOMAIN f -> T]
Put(f, x, v) == [y \in DOMAIN f \cup {x} |-> IF y = x THEN v ELSE f[y]]
Drop(f, x) == [y \in DOMAIN f \ {x} |-> f[y]]

TypeOK ==
  /\ stored \in [Players -> Data] /\ newest \in [Players -> Nat]
  /\ handled \subseteq Tokens /\ accepted \subseteq Tokens /\ used \subseteq Tokens
  /\ IsPartial(work, Handlers, Work)
  /\ IsPartial(table, Tokens, Data)
  /\ IsPartial(session, Clients, Session)
  /\ IsPartial(needWrite, Clients, BOOLEAN)
  /\ IsPartial(save, Savers, Save)
  /\ saving \in BOOLEAN /\ shared \subseteq Savers /\ muddled \subseteq Players

Empty == [x \in {} |-> x]

Init ==
  /\ stored = [p \in Players |-> [of |-> p, version |-> 0]]
  /\ newest = [p \in Players |-> 0]
  /\ handled = {} /\ accepted = {} /\ used = {} /\ shared = {} /\ muddled = {}
  /\ work = Empty /\ table = Empty /\ session = Empty /\ needWrite = Empty /\ save = Empty
  /\ saving = FALSE

-----------------------------------------------------------------------------
(* ProcessConnectionlessPacketSigreq1, on a thread of its own per packet.   *)

EntriesOf(p) == {t \in DOMAIN table : Owner[t] = p}
InSession(p) == \E c \in DOMAIN session : session[c].player = p
BeingSaved(p) == \E s \in DOMAIN save : save[s].player = p
BeingHandled(p) == \E h \in DOMAIN work : Owner[work[h].token] = p

(* Nothing of an earlier session of the player is left or under way. *)
Settled(p) == EntriesOf(p) = {} /\ ~InSession(p) /\ ~BeingSaved(p) /\ ~BeingHandled(p)

\* Mutant: a repeated packet is taken for a new one.
AlreadyHandled_Never(t) == FALSE

AlreadyHandled(t) == t \in handled

(* The look into m_handledServerConnections; a thread that finds its token  *)
(* there ends.                                                              *)
ReceiveRequest(h, t) ==
  /\ h \notin DOMAIN work /\ ~AlreadyHandled(t)
  /\ work' = Put(work, h, [token |-> t, at |-> "mark", data |-> [of |-> Owner[t], version |-> 0]])
  /\ muddled' = IF t \in handled \/ Settled(Owner[t]) THEN muddled ELSE muddled \cup {Owner[t]}
  /\ UNCHANGED <<stored, handled, accepted, table, session, needWrite, save, saving,
                 newest, shared, used>>

At(h, pc) == h \in DOMAIN work /\ work[h].at = pc
Goto(h, pc) == work' = [work EXCEPT ![h].at = pc]

Mark(h) ==
  /\ At(h, "mark")
  /\ handled' = handled \cup {work[h].token}
  /\ Goto(h, "fetch")
  /\ UNCHANGED <<stored, accepted, table, session, needWrite, save, saving,
                 newest, shared, used, muddled>>

(* The player is banned, the request fails, or the data arrives. *)
Fetch(h) ==
  /\ At(h, "fetch")
  /\ \/ work' = Drop(work, h)
     \/ work' = [work EXCEPT ![h].at = "add", ![h].data = stored[Owner[work[h].token]]]
  /\ UNCHANGED <<stored, handled, accepted, table, session, needWrite, save, saving,
                 newest, shared, used, muddled>>

AddRemotePlayer(h) ==
  /\ At(h, "add")
  /\ table' = Put(table, work[h].token, work[h].data)
  /\ Goto(h, "accept")
  /\ UNCHANGED <<stored, handled, accepted, session, needWrite, save, saving,
                 newest, shared, used, muddled>>

(* The answer to the master server; it may not get there. *)
Answer(h) ==
  /\ At(h, "accept")
  /\ accepted' = accepted \cup {work[h].token} \/ UNCHANGED accepted
  /\ work' = Drop(work, h)
  /\ UNCHANGED <<stored, handled, table, session, needWrite, save, saving,
                 newest, shared, used, muddled>>

-----------------------------------------------------------------------------
(* The hooks of CClient, on the main thread.                                *)

IsDuplicateAccount(c, p) == \E d \in DOMAIN session \ {c} : session[d].player = p

\* Mutant: anybody's token does.
CheckAuthentication_AnyUid(c, p, t) == ~IsDuplicateAccount(c, p) /\ t \in DOMAIN table

CheckAuthentication(c, p, t) ==
  ~IsDuplicateAccount(c, p) /\ t \in DOMAIN table /\ Owner[t] = p

\* Mutant: nothing is saved at a leave unless a script asks for it.
AddPlayer_NoWrite(c) ==
  needWrite' = IF c \in DOMAIN needWrite THEN needWrite ELSE Put(needWrite, c, FALSE)

(* insert leaves an entry that is there alone. *)
AddPlayer(c) == needWrite' = IF c \in DOMAIN needWrite THEN needWrite ELSE Put(needWrite, c, TRUE)

Connect(c, p, t) ==
  /\ c \notin DOMAIN session /\ t \in accepted
  /\ CheckAuthentication(c, p, t)
  /\ session' = Put(session, c, [player |-> p, data |-> table[t], active |-> FALSE,
                                 early |-> FALSE, fresh |-> c \notin DOMAIN needWrite])
  /\ AddPlayer(c)
  /\ used' = used \cup {t}
  /\ UNCHANGED <<stored, handled, work, accepted, table, save, saving, newest, shared, muddled>>

\* Mutant: the first entry of the table, whoever it belongs to.
RemovePlayerAuthData_FirstEntry(p) ==
  IF DOMAIN table = {} THEN UNCHANGED table ELSE \E t \in DOMAIN table : table' = Drop(table, t)

(* Erases one entry of the player: the first one in the order of the map. *)
RemovePlayerAuthData(p) ==
  IF EntriesOf(p) = {} THEN UNCHANGED table ELSE \E t \in EntriesOf(p) : table' = Drop(table, t)

(* WritePersistentData of the clients in C, a thread for each. *)
WritePersistentData(C) ==
  /\ \E thread \in [C -> Savers \ DOMAIN save] :
       /\ \A c, d \in C : thread[c] = thread[d] => c = d
       /\ save' = [s \in DOMAIN save \cup {thread[c] : c \in C} |->
                     IF s \in DOMAIN save THEN save[s]
                     ELSE LET c == CHOOSE c \in C : thread[c] = s
                          IN  [player |-> session[c].player, data |-> session[c].data]]
  /\ saving' = (saving \/ C # {})

NoWrite == UNCHANGED <<save, saving>>

(* A player who comes in uses up the entry; at every later map load the     *)
(* data is saved.                                                           *)
ActivatePlayer(c) ==
  /\ c \in DOMAIN session
  /\ LET p == session[c].player IN
       /\ RemovePlayerAuthData(p)
       /\ IF EntriesOf(p) = {} THEN WritePersistentData({c}) ELSE NoWrite
  /\ session' = [session EXCEPT ![c].active = TRUE]
  /\ UNCHANGED <<stored, handled, work, accepted, needWrite, newest, shared, used, muddled>>

(* The game changes the data of a player on the map. *)
Play(c) ==
  /\ c \in DOMAIN session /\ session[c].active
  /\ LET p == session[c].player IN
       /\ newest[p] < MaxVersion
       /\ newest' = [newest EXCEPT ![p] = @ + 1]
       /\ session' = [session EXCEPT ![c].data.version = newest[p] + 1]
  /\ UNCHANGED <<stored, handled, work, accepted, table, needWrite, save, saving,
                 shared, used, muddled>>

NSEarlyWritePlayerPersistenceForLeave(c) ==
  /\ c \in DOMAIN session /\ session[c].active
  /\ needWrite' = [needWrite EXCEPT ![c] = FALSE]
  /\ WritePersistentData({c})
  /\ session' = [session EXCEPT ![c].early = TRUE]
  /\ UNCHANGED <<stored, handled, work, accepted, table, newest, shared, used, muddled>>

\* Mutant: the buffer is cleared before it is written.
Disconnect_ClearsFirst(c) ==
  /\ c \in DOMAIN session
  /\ \E s \in Savers \ DOMAIN save :
       save' = Put(save, s, [player |-> session[c].player,
                             data |-> [of |-> session[c].player, version |-> 0]])
  /\ saving' = TRUE
  /\ RemovePlayerAuthData(session[c].player)
  /\ needWrite' = Drop(needWrite, c)
  /\ session' = Drop(session, c)
  /\ UNCHANGED <<stored, handled, work, accepted, newest, shared, used, muddled>>

Disconnect(c) ==
  /\ c \in DOMAIN session
  /\ IF needWrite[c] THEN WritePersistentData({c}) ELSE NoWrite
  /\ RemovePlayerAuthData(session[c].player)
  /\ needWrite' = Drop(needWrite, c)
  /\ session' = Drop(session, c)
  /\ UNCHANGED <<stored, handled, work, accepted, newest, shared, used, muddled>>

(* With the reason "Connection closing" the hook leaves everything alone. *)
CloseConnection(c) ==
  /\ c \in DOMAIN session
  /\ session' = Drop(session, c)
  /\ UNCHANGED <<stored, handled, work, accepted, table, needWrite, save, saving,
                 newest, shared, used, muddled>>

(* The host is about to join another server: NSTryAuthWithServer saves all. *)
HostLeaves ==
  /\ WritePersistentData(DOMAIN session \cap DOMAIN needWrite)
  /\ UNCHANGED <<stored, handled, work, accepted, table, session, needWrite,
                 newest, shared, used, muddled>>

-----------------------------------------------------------------------------
(* The thread of WritePlayerPersistentData. *)

Older(s) == {r \in DOMAIN save : /\ save[r].player = save[s].player
                                 /\ save[r].data.version < save[s].data.version}

\* Mutant: a save that fails leaves the flag.
SaveEnds_OnlyIfSaved(s) ==
  /\ s \in DOMAIN save
  /\ \/ /\ stored' = [stored EXCEPT ![save[s].player] = save[s].data]
        /\ saving' = FALSE
     \/ UNCHANGED <<stored, saving>>
  /\ save' = Drop(save, s)
  /\ shared' = (shared \cup DOMAIN save) \ {s}
  /\ muddled' = IF Older(s) = {} THEN muddled ELSE muddled \cup {save[s].player}
  /\ UNCHANGED <<handled, work, accepted, table, session, needWrite, newest, used>>

SaveEnds(s) ==
  /\ s \in DOMAIN save
  /\ \/ stored' = [stored EXCEPT ![save[s].player] = save[s].data]
     \/ UNCHANGED stored
  /\ save' = Drop(save, s)
  /\ saving' = FALSE
  /\ shared' = (shared \cup DOMAIN save) \ {s}
  /\ muddled' = IF Older(s) = {} THEN muddled ELSE muddled \cup {save[s].player}
  /\ UNCHANGED <<handled, work, accepted, table, session, needWrite, newest, used>>

Next ==
  \/ \E h \in Handlers :
       \/ \E t \in Tokens : ReceiveRequest(h, t)
       \/ Mark(h) \/ Fetch(h) \/ AddRemotePlayer(h) \/ Answer(h)
  \/ \E c \in Clients :
       \/ \E p \in Players, t \in Tokens : Connect(c, p, t)
       \/ ActivatePlayer(c) \/ Play(c) \/ NSEarlyWritePlayerPersistenceForLeave(c)
       \/ Disconnect(c) \/ CloseConnection(c)
  \/ HostLeaves
  \/ \E s \in Savers : SaveEnds(s)

Spec == Init /\ [][Next]_vars

-----------------------------------------------------------------------------
(* Properties.  A player is muddled when a request for a new token of his   *)
(* was taken up while an earlier session, entry, request or save of his was *)
(* still there, or when a save of his overtook an older one.  The code does *)
(* not keep these apart: tokens of one player share the erasing by platform *)
(* id, and saves are not ordered.                                           *)

(* A player is in the game once, with the data of his own account, and the  *)
(* master server never gets anybody else's for it, although any client may  *)
(* present any token and data is copied from threads to tables to clients.  *)
OwnData ==
  /\ \A c, d \in DOMAIN session : session[c].player = session[d].player => c = d
  /\ \A c \in DOMAIN session : session[c].data.of = session[c].player
  /\ \A p \in Players : stored[p].of = p

(* Who was told to come is let in: his entry is there before the answer,    *)
(* and nothing that happens to other players, no repeated packet and no     *)
(* leaving takes it away until he has used it.                              *)
AcceptedCanJoin ==
  \A t \in accepted : t \notin used /\ Owner[t] \notin muddled => t \in DOMAIN table

(* "RemovePlayerAuthData returns true if it removed successfully, i.e. on    *)
(* first call only" (sv_client.cpp:286): once a player has been on a map, no *)
(* entry of his turns up again, which would suppress a save.                *)
LaterLoadsAreSaved ==
  \A c \in DOMAIN session : session[c].active /\ session[c].player \notin muddled =>
                              EntriesOf(session[c].player) = {}

(* The one flag of all saves never outlives them, or whoever waits for it   *)
(* would wait for ever; and it is down during a save only because another   *)
(* save ended meanwhile.                                                    *)
FlagFollowsSaves ==
  /\ saving => DOMAIN save # {}
  /\ ~saving => DOMAIN save \subseteq shared

(* The master server's copy of a player's data never goes back to an older  *)
(* one, over any number of sessions.                                        *)
ProgressIsKept ==
  [][\A p \in Players : p \notin muddled' => stored'[p].version >= stored[p].version]_vars

(* A player who leaves is saved with the latest data, unless the script did *)
(* that for the leave, or his slot still had the entry of somebody before   *)
(* him ("Connection closing" leaves it, and AddPlayer does not replace it). *)
SavedOnLeave ==
  [][\A c \in DOMAIN needWrite \ DOMAIN needWrite' :
       session[c].fresh /\ ~session[c].early =>
         \E s \in DOMAIN save' \ DOMAIN save :
           save'[s] = [player |-> session[c].player, data |-> session[c].data]]_vars
=============================================================================
