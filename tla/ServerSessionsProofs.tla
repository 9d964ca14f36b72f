-------------------------- MODULE ServerSessionsProofs --------------------------
(***************************************************************************)
(* Proofs about ServerSessions, for any players, tokens, slots, threads    *)
(* and number of changes.                                                  *)
(*                                                                         *)
(* TypeOK, OwnedInv (whose data is where) and the flag come first; each of *)
(* them is inductive or nearly so.  The rest is about players who are not  *)
(* muddled: AdmitInv says how far one is between the request and the map,  *)
(* and KeptInv orders the versions of his data along the way, from the     *)
(* master server's copy through saves and sessions to the newest.          *)
(***************************************************************************)
EXTENDS ServerSessions, TLAPS

-----------------------------------------------------------------------------
(* What the helpers of the hooks do. *)

(* A save starts with what a connected client has at that moment. *)
SaveOf(c) == [player |-> session[c].player, data |-> session[c].data]

LEMMA SaveOfType == TypeOK => \A c \in DOMAIN session : SaveOf(c) \in Save
BY DEF TypeOK, IsPartial, SaveOf, Save, Session

LEMMA WriteFacts ==
  ASSUME TypeOK, NEW C, C \subseteq DOMAIN session, WritePersistentData(C)
  PROVE  /\ IsPartial(save', Savers, Save) /\ saving' \in BOOLEAN
         /\ DOMAIN save \subseteq DOMAIN save'
         /\ \A s \in DOMAIN save : save'[s] = save[s]
         /\ \A s \in DOMAIN save' \ DOMAIN save : \E c \in C : save'[s] = SaveOf(c)
         /\ \A c \in C : \E s \in DOMAIN save' \ DOMAIN save : save'[s] = SaveOf(c)
         /\ saving' = (saving \/ C # {})
<1>1. PICK thread \in [C -> Savers \ DOMAIN save] :
         /\ \A c, d \in C : thread[c] = thread[d] => c = d
         /\ save' = [s \in DOMAIN save \cup {thread[c] : c \in C} |->
                       IF s \in DOMAIN save THEN save[s]
                       ELSE LET c == CHOOSE c \in C : thread[c] = s IN SaveOf(c)]
  BY DEF WritePersistentData, SaveOf
<1>2. saving' = (saving \/ C # {}) /\ saving \in BOOLEAN
  BY DEF WritePersistentData, TypeOK
<1>3. DOMAIN save' = DOMAIN save \cup {thread[c] : c \in C}
  BY <1>1
<1>4. \A s \in DOMAIN save : save'[s] = save[s]
  BY <1>1
<1>5. ASSUME NEW c \in C
      PROVE  thread[c] \in DOMAIN save' \ DOMAIN save /\ save'[thread[c]] = SaveOf(c)
  <2>1. (CHOOSE d \in C : thread[d] = thread[c]) = c
    BY <1>1
  <2> QED
    BY <1>1, <1>3, <2>1
<1>6. \A s \in DOMAIN save' \ DOMAIN save : \E c \in C : save'[s] = SaveOf(c)
  BY <1>3, <1>5
<1>7. \A s \in DOMAIN save' : save'[s] \in Save
  BY <1>4, <1>6, SaveOfType DEF TypeOK, IsPartial
<1>8. DOMAIN save' \subseteq Savers
  BY <1>1, <1>3 DEF TypeOK, IsPartial
<1>9. IsPartial(save', Savers, Save)
  <2>1. save' = [s \in DOMAIN save' |-> save'[s]]
    BY <1>1
  <2> QED
    BY <2>1, <1>7, <1>8 DEF IsPartial
<1> QED
  BY <1>2, <1>3, <1>4, <1>5, <1>6, <1>9

LEMMA NoWriteFacts ==
  ASSUME TypeOK, NoWrite
  PROVE  IsPartial(save', Savers, Save) /\ saving' \in BOOLEAN /\ save' = save /\ saving' = saving
BY DEF NoWrite, TypeOK

LEMMA RemoveFacts ==
  ASSUME TypeOK, NEW p, RemovePlayerAuthData(p)
  PROVE  /\ IsPartial(table', Tokens, Data)
         /\ DOMAIN table' \subseteq DOMAIN table
         /\ \A t \in DOMAIN table' : table'[t] = table[t]
         /\ \A t \in DOMAIN table : Owner[t] # p => t \in DOMAIN table'
         /\ EntriesOf(p) # {} => \E t \in EntriesOf(p) : t \notin DOMAIN table'
<1>1. IsPartial(table, Tokens, Data)
  BY DEF TypeOK
<1>2. CASE EntriesOf(p) = {}
  BY <1>1, <1>2 DEF RemovePlayerAuthData
<1>3. CASE EntriesOf(p) # {}
  <2>1. PICK t \in EntriesOf(p) : table' = Drop(table, t)
    BY <1>3 DEF RemovePlayerAuthData
  <2>2. Owner[t] = p /\ t \in DOMAIN table
    BY DEF EntriesOf
  <2>3. /\ IsPartial(table', Tokens, Data)
        /\ DOMAIN table' = DOMAIN table \ {t}
        /\ \A u \in DOMAIN table : u # t => table'[u] = table[u]
    BY <1>1, <2>1 DEF IsPartial, Drop
  <2>4. t \notin DOMAIN table' /\ (\E u \in EntriesOf(p) : u \notin DOMAIN table')
    BY <2>1, <2>3
  <2>5. \A u \in DOMAIN table : Owner[u] # p => u \in DOMAIN table'
    BY <2>2, <2>3
  <2>6. DOMAIN table' \subseteq DOMAIN table /\ (\A u \in DOMAIN table' : table'[u] = table[u])
    BY <2>3
  <2> QED
    BY <2>3, <2>4, <2>5, <2>6
<1> QED
  BY <1>2, <1>3

-----------------------------------------------------------------------------
(* Types. *)

LEMMA InitTypeOK == Init => TypeOK
<1> SUFFICES ASSUME Init PROVE TypeOK
  OBVIOUS
<1>1. \A S, T : IsPartial(Empty, S, T)
  BY DEF IsPartial, Empty
<1>2. stored \in [Players -> Data] /\ newest \in [Players -> Nat]
  BY DEF Init, Data
<1> QED
  BY <1>1, <1>2 DEF Init, TypeOK

LEMMA StepTypeOK == TypeOK /\ [Next]_vars => TypeOK'
<1> SUFFICES ASSUME TypeOK, [Next]_vars PROVE TypeOK'
  OBVIOUS
<1>o. Owner \in [Tokens -> Players]
  BY SessionsAssumption
<1>1. ASSUME NEW h \in Handlers, NEW t \in Tokens, ReceiveRequest(h, t) PROVE TypeOK'
  <2>1. [token |-> t, at |-> "mark", data |-> [of |-> Owner[t], version |-> 0]] \in Work
    BY <1>o DEF Work, Data
  <2>2. IsPartial(work', Handlers, Work)
    BY <1>1, <2>1 DEF ReceiveRequest, TypeOK, IsPartial, Put
  <2>3. muddled' \subseteq Players
    BY <1>1, <1>o DEF ReceiveRequest, TypeOK
  <2> QED
    BY <1>1, <2>2, <2>3 DEF ReceiveRequest, TypeOK
<1>2. ASSUME NEW h \in Handlers, Mark(h) \/ Fetch(h) \/ AddRemotePlayer(h) \/ Answer(h)
      PROVE  TypeOK'
  <2>1. h \in DOMAIN work /\ work[h] \in Work
    BY <1>2 DEF TypeOK, IsPartial, Mark, Fetch, AddRemotePlayer, Answer, At
  <2>2. work[h].token \in Tokens /\ work[h].data \in Data
    BY <2>1 DEF Work
  <2>3. stored[Owner[work[h].token]] \in Data
    BY <2>2, <1>o DEF TypeOK
  <2>4. CASE Mark(h)
    <3>1. IsPartial(work', Handlers, Work)
      BY <2>1, <2>4 DEF Mark, Goto, TypeOK, IsPartial, Work
    <3> QED
      BY <3>1, <2>2, <2>4 DEF Mark, TypeOK
  <2>5. CASE Fetch(h)
    <3>1. IsPartial(work', Handlers, Work)
      BY <2>1, <2>3, <2>5 DEF Fetch, TypeOK, IsPartial, Work, Drop
    <3> QED
      BY <3>1, <2>5 DEF Fetch, TypeOK
  <2>6. CASE AddRemotePlayer(h)
    <3>1. IsPartial(work', Handlers, Work)
      BY <2>1, <2>6 DEF AddRemotePlayer, Goto, TypeOK, IsPartial, Work
    <3>2. IsPartial(table', Tokens, Data)
      BY <2>2, <2>6 DEF AddRemotePlayer, TypeOK, IsPartial, Put
    <3> QED
      BY <3>1, <3>2, <2>6 DEF AddRemotePlayer, TypeOK
  <2>7. CASE Answer(h)
    <3>1. IsPartial(work', Handlers, Work)
      BY <2>7 DEF Answer, TypeOK, IsPartial, Drop
    <3> QED
      BY <3>1, <2>2, <2>7 DEF Answer, TypeOK
  <2> QED
    BY <1>2, <2>4, <2>5, <2>6, <2>7
<1>3. ASSUME NEW c \in Clients, NEW p \in Players, NEW t \in Tokens, Connect(c, p, t)
      PROVE  TypeOK'
  <2>1. table[t] \in Data
    BY <1>3 DEF Connect, CheckAuthentication, TypeOK, IsPartial
  <2>2. [player |-> p, data |-> table[t], active |-> FALSE, early |-> FALSE,
         fresh |-> c \notin DOMAIN needWrite] \in Session
    BY <2>1 DEF Session
  <2>3. IsPartial(session', Clients, Session)
    BY <1>3, <2>2 DEF Connect, TypeOK, IsPartial, Put
  <2>4. IsPartial(needWrite', Clients, BOOLEAN)
    BY <1>3 DEF Connect, AddPlayer, TypeOK, IsPartial, Put
  <2> QED
    BY <1>3, <2>3, <2>4 DEF Connect, TypeOK
<1>4. ASSUME NEW c \in Clients, c \in DOMAIN session PROVE session[c] \in Session
  BY <1>4 DEF TypeOK, IsPartial
<1>5. ASSUME NEW c \in Clients, ActivatePlayer(c) PROVE TypeOK'
  <2>1. IsPartial(table', Tokens, Data)
    BY <1>5, RemoveFacts DEF ActivatePlayer
  <2>2. IsPartial(save', Savers, Save) /\ saving' \in BOOLEAN
    BY <1>5, WriteFacts, NoWriteFacts DEF ActivatePlayer
  <2>3. IsPartial(session', Clients, Session)
    BY <1>4, <1>5 DEF ActivatePlayer, TypeOK, IsPartial, Session
  <2> QED
    BY <1>5, <2>1, <2>2, <2>3 DEF ActivatePlayer, TypeOK
<1>6. ASSUME NEW c \in Clients, Play(c) PROVE TypeOK'
  <2>1. session[c] \in Session /\ newest[session[c].player] \in Nat
    BY <1>4, <1>6 DEF Play, TypeOK, Session
  <2>2. newest' \in [Players -> Nat]
    <3>1. newest' = [newest EXCEPT ![session[c].player] = newest[session[c].player] + 1]
      BY <1>6 DEF Play
    <3>2. newest[session[c].player] + 1 \in Nat /\ newest \in [Players -> Nat]
      BY <2>1 DEF TypeOK
    <3> QED
      BY <3>1, <3>2
  <2>3. IsPartial(session', Clients, Session)
    <3> DEFINE v == [session[c] EXCEPT !.data.version = newest[session[c].player] + 1]
    <3>1. v \in Session
      BY <2>1 DEF Session, Data
    <3>2. session' = [session EXCEPT ![c] = v]
      BY <1>6 DEF Play
    <3> HIDE DEF v
    <3> QED
      BY <1>6, <3>1, <3>2 DEF Play, TypeOK, IsPartial
  <2> QED
    BY <1>6, <2>2, <2>3 DEF Play, TypeOK
<1>7. ASSUME NEW c \in Clients, NSEarlyWritePlayerPersistenceForLeave(c) PROVE TypeOK'
  <2>1. IsPartial(save', Savers, Save) /\ saving' \in BOOLEAN
    BY <1>7, WriteFacts DEF NSEarlyWritePlayerPersistenceForLeave
  <2>2. IsPartial(session', Clients, Session)
    BY <1>4, <1>7 DEF NSEarlyWritePlayerPersistenceForLeave, TypeOK, IsPartial, Session
  <2>3. IsPartial(needWrite', Clients, BOOLEAN)
    BY <1>7 DEF NSEarlyWritePlayerPersistenceForLeave, TypeOK, IsPartial
  <2> QED
    BY <1>7, <2>1, <2>2, <2>3 DEF NSEarlyWritePlayerPersistenceForLeave, TypeOK
<1>8. ASSUME NEW c \in Clients, Disconnect(c) PROVE TypeOK'
  <2>1. IsPartial(table', Tokens, Data)
    BY <1>8, RemoveFacts DEF Disconnect
  <2>2. IsPartial(save', Savers, Save) /\ saving' \in BOOLEAN
    BY <1>8, WriteFacts, NoWriteFacts DEF Disconnect
  <2>3. IsPartial(session', Clients, Session) /\ IsPartial(needWrite', Clients, BOOLEAN)
    BY <1>8 DEF Disconnect, TypeOK, IsPartial, Drop
  <2> QED
    BY <1>8, <2>1, <2>2, <2>3 DEF Disconnect, TypeOK
<1>9. ASSUME NEW c \in Clients, CloseConnection(c) PROVE TypeOK'
  <2>1. IsPartial(session', Clients, Session)
    BY <1>9 DEF CloseConnection, TypeOK, IsPartial, Drop
  <2> QED
    BY <1>9, <2>1 DEF CloseConnection, TypeOK
<1>10. CASE HostLeaves
  <2>1. IsPartial(save', Savers, Save) /\ saving' \in BOOLEAN
    BY <1>10, WriteFacts DEF HostLeaves
  <2> QED
    BY <1>10, <2>1 DEF HostLeaves, TypeOK
<1>11. ASSUME NEW s \in Savers, SaveEnds(s) PROVE TypeOK'
  <2>1. save[s].player \in Players /\ save[s].data \in Data
    BY <1>11 DEF SaveEnds, TypeOK, IsPartial, Save
  <2>2. IsPartial(save', Savers, Save)
    BY <1>11 DEF SaveEnds, TypeOK, IsPartial, Drop
  <2>3. stored' \in [Players -> Data]
    BY <1>11, <2>1 DEF SaveEnds, TypeOK
  <2>4. shared' \subseteq Savers /\ muddled' \subseteq Players
    BY <1>11, <2>1 DEF SaveEnds, TypeOK, IsPartial
  <2> QED
    BY <1>11, <2>2, <2>3, <2>4 DEF SaveEnds, TypeOK
<1>12. CASE UNCHANGED vars
  BY <1>12 DEF vars, TypeOK
<1> QED
  BY <1>1, <1>2, <1>3, <1>5, <1>6, <1>7, <1>8, <1>9, <1>10, <1>11, <1>12 DEF Next

(* Every variable keeps its type: stored data, table, sessions and saves   *)
(* are data of the form the others expect, whatever threads interleave.    *)
THEOREM TypeCorrect == Spec => []TypeOK
BY InitTypeOK, StepTypeOK, PTL DEF Spec

-----------------------------------------------------------------------------
(* What each action does, point by point: the invariants below use these    *)
(* facts instead of the definitions.                                        *)

Kept(S, f, g) == \A x \in S : g[x] = f[x]

SavesGrow ==
  /\ DOMAIN save \subseteq DOMAIN save' /\ Kept(DOMAIN save, save, save')
  /\ \A s \in DOMAIN save' \ DOMAIN save : \E c \in DOMAIN session : save'[s] = SaveOf(c)

EntriesShrink(p) ==
  /\ DOMAIN table' \subseteq DOMAIN table /\ Kept(DOMAIN table', table, table')
  /\ \A t \in DOMAIN table : Owner[t] # p => t \in DOMAIN table'

LEMMA ReceiveEffect ==
  ASSUME TypeOK, NEW h \in Handlers, NEW t \in Tokens, ReceiveRequest(h, t)
  PROVE  /\ h \notin DOMAIN work /\ DOMAIN work' = DOMAIN work \cup {h}
         /\ work'[h].token = t /\ work'[h].at = "mark" /\ work'[h].data.of = Owner[t]
         /\ work'[h].data.version = 0
         /\ Kept(DOMAIN work, work, work')
         /\ t \notin handled /\ muddled \subseteq muddled'
         /\ Owner[t] \notin muddled' => Settled(Owner[t])
BY DEF ReceiveRequest, AlreadyHandled, Put, TypeOK, IsPartial, Kept

LEMMA MarkEffect ==
  ASSUME TypeOK, NEW h \in Handlers, Mark(h)
  PROVE  /\ h \in DOMAIN work /\ DOMAIN work' = DOMAIN work
         /\ work'[h].token = work[h].token /\ work'[h].at = "fetch" /\ work'[h].data = work[h].data
         /\ work[h].at = "mark" /\ Kept(DOMAIN work \ {h}, work, work')
         /\ handled' = handled \cup {work[h].token}
BY DEF Mark, At, Goto, TypeOK, IsPartial, Kept, Work

LEMMA FetchEffect ==
  ASSUME TypeOK, NEW h \in Handlers, Fetch(h)
  PROVE  /\ h \in DOMAIN work /\ work[h].at = "fetch"
         /\ DOMAIN work \ {h} \subseteq DOMAIN work' /\ DOMAIN work' \subseteq DOMAIN work
         /\ Kept(DOMAIN work \ {h}, work, work')
         /\ h \in DOMAIN work' => /\ work'[h].token = work[h].token /\ work'[h].at = "add"
                                  /\ work'[h].data = stored[Owner[work[h].token]]
<1>1. h \in DOMAIN work /\ work[h].at = "fetch" /\ work[h] \in Work
  BY DEF Fetch, At, TypeOK, IsPartial
<1>2. CASE work' = Drop(work, h)
  BY <1>1, <1>2 DEF Drop, Kept
<1>3. CASE work' = [work EXCEPT ![h].at = "add", ![h].data = stored[Owner[work[h].token]]]
  BY <1>1, <1>3 DEF TypeOK, IsPartial, Kept, Work
<1> QED
  BY <1>2, <1>3 DEF Fetch

LEMMA AddEffect ==
  ASSUME TypeOK, NEW h \in Handlers, AddRemotePlayer(h)
  PROVE  /\ h \in DOMAIN work /\ work[h].at = "add" /\ DOMAIN work' = DOMAIN work
         /\ work'[h].token = work[h].token /\ work'[h].at = "accept" /\ work'[h].data = work[h].data
         /\ Kept(DOMAIN work \ {h}, work, work')
         /\ DOMAIN table' = DOMAIN table \cup {work[h].token}
         /\ table'[work[h].token] = work[h].data
         /\ Kept(DOMAIN table \ {work[h].token}, table, table')
BY DEF AddRemotePlayer, At, Goto, Put, TypeOK, IsPartial, Kept, Work

LEMMA AnswerEffect ==
  ASSUME TypeOK, NEW h \in Handlers, Answer(h)
  PROVE  /\ h \in DOMAIN work /\ work[h].at = "accept" /\ DOMAIN work' = DOMAIN work \ {h}
         /\ Kept(DOMAIN work \ {h}, work, work')
         /\ accepted \subseteq accepted' /\ accepted' \subseteq accepted \cup {work[h].token}
BY DEF Answer, At, Drop, TypeOK, IsPartial, Kept

LEMMA ConnectEffect ==
  ASSUME TypeOK, NEW c \in Clients, NEW p \in Players, NEW t \in Tokens, Connect(c, p, t)
  PROVE  /\ c \notin DOMAIN session /\ DOMAIN session' = DOMAIN session \cup {c}
         /\ session'[c].player = p /\ session'[c].data = table[t]
         /\ session'[c].active = FALSE /\ session'[c].early = FALSE
         /\ session'[c].fresh = (c \notin DOMAIN needWrite)
         /\ Kept(DOMAIN session, session, session')
         /\ DOMAIN needWrite' = DOMAIN needWrite \cup {c}
         /\ Kept(DOMAIN needWrite, needWrite, needWrite')
         /\ c \notin DOMAIN needWrite => needWrite'[c]
         /\ t \in accepted /\ t \in DOMAIN table /\ Owner[t] = p /\ used' = used \cup {t}
         /\ \A d \in DOMAIN session : session[d].player # p
<1>1. /\ c \notin DOMAIN session /\ t \in accepted /\ t \in DOMAIN table /\ Owner[t] = p
      /\ used' = used \cup {t} /\ \A d \in DOMAIN session : session[d].player # p
  BY DEF Connect, CheckAuthentication, IsDuplicateAccount
<1>2. /\ DOMAIN session' = DOMAIN session \cup {c}
      /\ session'[c].player = p /\ session'[c].data = table[t]
      /\ session'[c].active = FALSE /\ session'[c].early = FALSE
      /\ session'[c].fresh = (c \notin DOMAIN needWrite)
      /\ Kept(DOMAIN session, session, session')
  BY <1>1 DEF Connect, Put, Kept
<1>3. /\ DOMAIN needWrite' = DOMAIN needWrite \cup {c}
      /\ Kept(DOMAIN needWrite, needWrite, needWrite')
      /\ c \notin DOMAIN needWrite => needWrite'[c]
  BY DEF Connect, AddPlayer, Put, Kept
<1> QED
  BY <1>1, <1>2, <1>3

LEMMA ActivateEffect ==
  ASSUME TypeOK, NEW c \in Clients, ActivatePlayer(c)
  PROVE  /\ c \in DOMAIN session /\ DOMAIN session' = DOMAIN session
         /\ session'[c].player = session[c].player /\ session'[c].data = session[c].data
         /\ session'[c].early = session[c].early /\ session'[c].fresh = session[c].fresh
         /\ Kept(DOMAIN session \ {c}, session, session')
         /\ EntriesShrink(session[c].player)
         /\ EntriesOf(session[c].player) # {} =>
              \E t \in EntriesOf(session[c].player) : t \notin DOMAIN table'
         /\ SavesGrow
<1>1. c \in DOMAIN session /\ session[c] \in Session
  BY DEF ActivatePlayer, TypeOK, IsPartial
<1>2. /\ DOMAIN session' = DOMAIN session
      /\ session'[c].player = session[c].player /\ session'[c].data = session[c].data
      /\ session'[c].early = session[c].early /\ session'[c].fresh = session[c].fresh
      /\ Kept(DOMAIN session \ {c}, session, session')
  BY <1>1 DEF ActivatePlayer, TypeOK, IsPartial, Kept, Session
<1>3. /\ EntriesShrink(session[c].player)
      /\ EntriesOf(session[c].player) # {} =>
           \E t \in EntriesOf(session[c].player) : t \notin DOMAIN table'
  BY RemoveFacts DEF ActivatePlayer, EntriesShrink, Kept
<1>4. SavesGrow
  <2>1. CASE NoWrite
    BY <2>1, NoWriteFacts DEF SavesGrow, Kept
  <2>2. CASE WritePersistentData({c})
    BY <1>1, <2>2, WriteFacts DEF SavesGrow, Kept
  <2> QED
    BY <2>1, <2>2 DEF ActivatePlayer
<1> QED
  BY <1>1, <1>2, <1>3, <1>4

LEMMA PlayEffect ==
  ASSUME TypeOK, NEW c \in Clients, Play(c)
  PROVE  /\ c \in DOMAIN session /\ session[c].active /\ DOMAIN session' = DOMAIN session
         /\ session'[c].player = session[c].player /\ session'[c].data.of = session[c].data.of
         /\ session'[c].active = session[c].active
         /\ session'[c].early = session[c].early /\ session'[c].fresh = session[c].fresh
         /\ session'[c].data.version = newest[session[c].player] + 1
         /\ Kept(DOMAIN session \ {c}, session, session')
         /\ newest'[session[c].player] = newest[session[c].player] + 1
         /\ \A p \in Players : p # session[c].player => newest'[p] = newest[p]
<1>1. c \in DOMAIN session /\ session[c] \in Session /\ session[c].active
  BY DEF Play, TypeOK, IsPartial
<1> DEFINE v == [session[c] EXCEPT !.data.version = newest[session[c].player] + 1]
<1>2. session' = [session EXCEPT ![c] = v]
  BY DEF Play
<1>3. /\ v.player = session[c].player /\ v.data.of = session[c].data.of
      /\ v.active = session[c].active /\ v.early = session[c].early /\ v.fresh = session[c].fresh
      /\ v.data.version = newest[session[c].player] + 1
  BY <1>1 DEF Session, Data
<1>4. /\ newest'[session[c].player] = newest[session[c].player] + 1
      /\ \A p \in Players : p # session[c].player => newest'[p] = newest[p]
  BY <1>1 DEF Play, TypeOK, Session
<1> HIDE DEF v
<1>5. DOMAIN session' = DOMAIN session /\ session'[c] = v /\ Kept(DOMAIN session \ {c}, session, session')
  BY <1>1, <1>2 DEF TypeOK, IsPartial, Kept
<1> QED
  BY <1>1, <1>3, <1>4, <1>5

LEMMA EarlyEffect ==
  ASSUME TypeOK, NEW c \in Clients, NSEarlyWritePlayerPersistenceForLeave(c)
  PROVE  /\ c \in DOMAIN session /\ DOMAIN session' = DOMAIN session
         /\ session'[c].player = session[c].player /\ session'[c].data = session[c].data
         /\ session'[c].active = session[c].active /\ session'[c].early
         /\ Kept(DOMAIN session \ {c}, session, session')
         /\ DOMAIN needWrite' = DOMAIN needWrite
         /\ Kept(DOMAIN needWrite \ {c}, needWrite, needWrite')
         /\ SavesGrow
<1>1. c \in DOMAIN session /\ session[c] \in Session
  BY DEF NSEarlyWritePlayerPersistenceForLeave, TypeOK, IsPartial
<1>2. /\ DOMAIN session' = DOMAIN session
      /\ session'[c].player = session[c].player /\ session'[c].data = session[c].data
      /\ session'[c].active = session[c].active /\ session'[c].early
      /\ Kept(DOMAIN session \ {c}, session, session')
  BY <1>1 DEF NSEarlyWritePlayerPersistenceForLeave, TypeOK, IsPartial, Kept, Session
<1>3. DOMAIN needWrite' = DOMAIN needWrite /\ Kept(DOMAIN needWrite \ {c}, needWrite, needWrite')
  BY DEF NSEarlyWritePlayerPersistenceForLeave, TypeOK, IsPartial, Kept
<1>4. SavesGrow
  BY <1>1, WriteFacts DEF NSEarlyWritePlayerPersistenceForLeave, SavesGrow, Kept
<1> QED
  BY <1>1, <1>2, <1>3, <1>4

LEMMA DisconnectEffect ==
  ASSUME TypeOK, NEW c \in Clients, Disconnect(c)
  PROVE  /\ c \in DOMAIN session /\ DOMAIN session' = DOMAIN session \ {c}
         /\ Kept(DOMAIN session \ {c}, session, session')
         /\ DOMAIN needWrite' = DOMAIN needWrite \ {c}
         /\ Kept(DOMAIN needWrite \ {c}, needWrite, needWrite')
         /\ EntriesShrink(session[c].player)
         /\ SavesGrow
         /\ needWrite[c] => \E s \in DOMAIN save' \ DOMAIN save : save'[s] = SaveOf(c)
<1>1. c \in DOMAIN session
  BY DEF Disconnect
<1>2. /\ DOMAIN session' = DOMAIN session \ {c} /\ Kept(DOMAIN session \ {c}, session, session')
      /\ DOMAIN needWrite' = DOMAIN needWrite \ {c}
      /\ Kept(DOMAIN needWrite \ {c}, needWrite, needWrite')
  BY DEF Disconnect, Drop, Kept
<1>3. EntriesShrink(session[c].player)
  BY RemoveFacts DEF Disconnect, EntriesShrink, Kept
<1>4. SavesGrow /\ (needWrite[c] => \E s \in DOMAIN save' \ DOMAIN save : save'[s] = SaveOf(c))
  <2>1. CASE needWrite[c]
    BY <1>1, <2>1, WriteFacts DEF Disconnect, SavesGrow, Kept
  <2>2. CASE ~needWrite[c]
    BY <2>2, NoWriteFacts DEF Disconnect, SavesGrow, Kept
  <2> QED
    BY <2>1, <2>2
<1> QED
  BY <1>1, <1>2, <1>3, <1>4

LEMMA CloseEffect ==
  ASSUME TypeOK, NEW c \in Clients, CloseConnection(c)
  PROVE  DOMAIN session' = DOMAIN session \ {c} /\ Kept(DOMAIN session \ {c}, session, session')
BY DEF CloseConnection, Drop, Kept

LEMMA HostLeavesEffect ==
  ASSUME TypeOK, HostLeaves
  PROVE  SavesGrow
BY WriteFacts DEF HostLeaves, SavesGrow, Kept

LEMMA SaveEndsEffect ==
  ASSUME TypeOK, NEW s \in Savers, SaveEnds(s)
  PROVE  /\ s \in DOMAIN save /\ DOMAIN save' = DOMAIN save \ {s}
         /\ Kept(DOMAIN save \ {s}, save, save')
         /\ stored' = stored \/ /\ stored'[save[s].player] = save[s].data
                                /\ Kept(Players \ {save[s].player}, stored, stored')
         /\ muddled \subseteq muddled'
         /\ save[s].player \notin muddled' =>
              \A r \in DOMAIN save : save[r].player = save[s].player =>
                                       ~(save[r].data.version < save[s].data.version)
<1>1. s \in DOMAIN save /\ save[s] \in Save
  BY DEF SaveEnds, TypeOK, IsPartial
<1>2. DOMAIN save' = DOMAIN save \ {s} /\ Kept(DOMAIN save \ {s}, save, save')
  BY DEF SaveEnds, Drop, Kept
<1>3. stored' = stored \/ /\ stored'[save[s].player] = save[s].data
                          /\ Kept(Players \ {save[s].player}, stored, stored')
  BY <1>1 DEF SaveEnds, TypeOK, Kept, Save
<1>4. muddled \subseteq muddled' /\ (save[s].player \notin muddled' => Older(s) = {})
  BY DEF SaveEnds
<1> QED
  BY <1>1, <1>2, <1>3, <1>4 DEF Older

-----------------------------------------------------------------------------
(* Whose data is where: a token or a platform id and the data it is kept   *)
(* under agree at every stop, also while other threads write the table.    *)

StoredOwned == \A p \in Players : stored[p].of = p
WorkOwned == \A h \in DOMAIN work : work[h].data.of = Owner[work[h].token]
TableOwned == \A t \in DOMAIN table : table[t].of = Owner[t]
SaveOwned == \A s \in DOMAIN save : save[s].data.of = save[s].player
SessionOwned ==
  /\ \A c, d \in DOMAIN session : session[c].player = session[d].player => c = d
  /\ \A c \in DOMAIN session : session[c].data.of = session[c].player

OwnedInv == StoredOwned /\ WorkOwned /\ TableOwned /\ SaveOwned /\ SessionOwned

LEMMA InitOwnedInv == Init => OwnedInv
BY DEF Init, OwnedInv, StoredOwned, WorkOwned, TableOwned, SaveOwned, SessionOwned, Empty

LEMMA StepOwnedInv == TypeOK /\ OwnedInv /\ [Next]_vars => OwnedInv'
<1> SUFFICES ASSUME TypeOK, OwnedInv, [Next]_vars PROVE OwnedInv'
  OBVIOUS
<1> USE DEF OwnedInv
<1>a. UNCHANGED stored => StoredOwned'
  BY DEF StoredOwned
<1>b. UNCHANGED work => WorkOwned'
  BY DEF WorkOwned
<1>c. UNCHANGED table => TableOwned'
  BY DEF TableOwned
<1>d. UNCHANGED save => SaveOwned'
  BY DEF SaveOwned
<1>e. UNCHANGED session => SessionOwned'
  BY DEF SessionOwned
<1>f. ASSUME SavesGrow PROVE SaveOwned'
  <2> SUFFICES ASSUME NEW s \in DOMAIN save' PROVE save'[s].data.of = save'[s].player
    BY DEF SaveOwned
  <2>1. CASE s \in DOMAIN save
    BY <1>f, <2>1 DEF SavesGrow, Kept, SaveOwned
  <2>2. CASE s \notin DOMAIN save
    <3>1. PICK c \in DOMAIN session : save'[s] = SaveOf(c)
      BY <1>f, <2>2 DEF SavesGrow
    <3> QED
      BY <3>1 DEF SaveOf, SessionOwned
  <2> QED
    BY <2>1, <2>2
<1>g. ASSUME NEW p, EntriesShrink(p) PROVE TableOwned'
  BY <1>g DEF EntriesShrink, Kept, TableOwned
<1>1. ASSUME NEW h \in Handlers, NEW t \in Tokens, ReceiveRequest(h, t) PROVE OwnedInv'
  <2>1. WorkOwned'
    <3>1. DOMAIN work' = DOMAIN work \cup {h} /\ (\A k \in DOMAIN work : work'[k] = work[k])
      BY <1>1, ReceiveEffect DEF Kept
    <3>2. work'[h].token = t /\ work'[h].data.of = Owner[t]
      BY <1>1, ReceiveEffect
    <3> QED
      BY <3>1, <3>2 DEF WorkOwned
  <2> QED
    BY <1>1, <2>1, <1>a, <1>c, <1>d, <1>e DEF ReceiveRequest
<1>2. ASSUME NEW h \in Handlers, Mark(h) PROVE OwnedInv'
  <2>1. WorkOwned'
    BY <1>2, MarkEffect DEF WorkOwned, Kept
  <2> QED
    BY <1>2, <2>1, <1>a, <1>c, <1>d, <1>e DEF Mark
<1>3. ASSUME NEW h \in Handlers, Fetch(h) PROVE OwnedInv'
  <2>1. \A k \in DOMAIN work : Owner[work[k].token] \in Players
    BY SessionsAssumption DEF TypeOK, IsPartial, Work
  <2>2. WorkOwned'
    BY <1>3, <2>1, FetchEffect DEF WorkOwned, StoredOwned, Kept
  <2> QED
    BY <1>3, <2>2, <1>a, <1>c, <1>d, <1>e DEF Fetch
<1>4. ASSUME NEW h \in Handlers, AddRemotePlayer(h) PROVE OwnedInv'
  <2>w. /\ h \in DOMAIN work /\ DOMAIN work' = DOMAIN work
        /\ work'[h].token = work[h].token /\ work'[h].data = work[h].data
        /\ \A k \in DOMAIN work \ {h} : work'[k] = work[k]
    BY <1>4, AddEffect DEF Kept
  <2>t. /\ DOMAIN table' = DOMAIN table \cup {work[h].token}
        /\ table'[work[h].token] = work[h].data
        /\ \A t \in DOMAIN table \ {work[h].token} : table'[t] = table[t]
    BY <1>4, AddEffect DEF Kept
  <2>1. WorkOwned'
    BY <2>w DEF WorkOwned
  <2>2. TableOwned'
    BY <2>w, <2>t DEF WorkOwned, TableOwned
  <2> QED
    BY <1>4, <2>1, <2>2, <1>a, <1>d, <1>e DEF AddRemotePlayer
<1>5. ASSUME NEW h \in Handlers, Answer(h) PROVE OwnedInv'
  <2>1. WorkOwned'
    BY <1>5, AnswerEffect DEF WorkOwned, Kept
  <2> QED
    BY <1>5, <2>1, <1>a, <1>c, <1>d, <1>e DEF Answer
<1>6. ASSUME NEW c \in Clients, NEW p \in Players, NEW t \in Tokens, Connect(c, p, t)
      PROVE  OwnedInv'
  <2>1. SessionOwned'
    <3>0. /\ c \notin DOMAIN session /\ DOMAIN session' = DOMAIN session \cup {c}
          /\ session'[c].player = p /\ session'[c].data = table[t]
          /\ Kept(DOMAIN session, session, session')
          /\ \A d \in DOMAIN session : session[d].player # p
      BY <1>6, ConnectEffect
    <3>1. /\ c \notin DOMAIN session /\ DOMAIN session' = DOMAIN session \cup {c}
          /\ session'[c].player = p /\ session'[c].data = table[t]
          /\ \A d \in DOMAIN session : session'[d] = session[d] /\ session[d].player # p
      BY ONLY <3>0 DEF Kept
    <3>2. t \in DOMAIN table /\ Owner[t] = p
      BY <1>6, ConnectEffect
    <3>3. ASSUME NEW a \in DOMAIN session', NEW b \in DOMAIN session', session'[a].player = session'[b].player
          PROVE  a = b
      <4>1. CASE a \in DOMAIN session /\ b \in DOMAIN session
        BY <3>1, <3>3, <4>1 DEF SessionOwned
      <4>2. CASE a = c \/ b = c
        BY <3>1, <3>3, <4>2
      <4> QED
        BY <3>1, <4>1, <4>2
    <3>4. \A a \in DOMAIN session' : session'[a].data.of = session'[a].player
      BY <3>1, <3>2 DEF SessionOwned, TableOwned
    <3> QED
      BY <3>3, <3>4 DEF SessionOwned
  <2> QED
    BY <1>6, <2>1, <1>a, <1>b, <1>c, <1>d DEF Connect
<1>7. ASSUME NEW c \in Clients, ActivatePlayer(c) PROVE OwnedInv'
  <2>1. SessionOwned'
    BY <1>7, ActivateEffect DEF SessionOwned, Kept
  <2> QED
    BY <1>7, <2>1, <1>a, <1>b, <1>f, <1>g, ActivateEffect DEF ActivatePlayer
<1>8. ASSUME NEW c \in Clients, Play(c) PROVE OwnedInv'
  <2>1. SessionOwned'
    BY <1>8, PlayEffect DEF SessionOwned, Kept
  <2> QED
    BY <1>8, <2>1, <1>a, <1>b, <1>c, <1>d DEF Play
<1>9. ASSUME NEW c \in Clients, NSEarlyWritePlayerPersistenceForLeave(c) PROVE OwnedInv'
  <2>1. SessionOwned'
    BY <1>9, EarlyEffect DEF SessionOwned, Kept
  <2> QED
    BY <1>9, <2>1, <1>a, <1>b, <1>c, <1>f, EarlyEffect DEF NSEarlyWritePlayerPersistenceForLeave
<1>10. ASSUME NEW c \in Clients, Disconnect(c) PROVE OwnedInv'
  <2>1. SessionOwned'
    <3>1. /\ DOMAIN session' = DOMAIN session \ {c}
          /\ \A d \in DOMAIN session \ {c} : session'[d] = session[d]
      BY <1>10, DisconnectEffect DEF Kept
    <3> QED
      BY <3>1 DEF SessionOwned
  <2> QED
    BY <1>10, <2>1, <1>a, <1>b, <1>f, <1>g, DisconnectEffect DEF Disconnect
<1>11. ASSUME NEW c \in Clients, CloseConnection(c) PROVE OwnedInv'
  <2>1. SessionOwned'
    <3>1. /\ DOMAIN session' = DOMAIN session \ {c}
          /\ \A d \in DOMAIN session \ {c} : session'[d] = session[d]
      BY <1>11, CloseEffect DEF Kept
    <3> QED
      BY <3>1 DEF SessionOwned
  <2> QED
    BY <1>11, <2>1, <1>a, <1>b, <1>c, <1>d DEF CloseConnection
<1>12. CASE HostLeaves
  BY <1>12, <1>a, <1>b, <1>c, <1>e, <1>f, HostLeavesEffect DEF HostLeaves
<1>13. ASSUME NEW s \in Savers, SaveEnds(s) PROVE OwnedInv'
  <2>1. SaveOwned'
    BY <1>13, SaveEndsEffect DEF SaveOwned, Kept
  <2>2. StoredOwned'
    <3>1. CASE stored' = stored
      BY <3>1 DEF StoredOwned
    <3>2. CASE stored' # stored
      <4>1. /\ s \in DOMAIN save /\ stored'[save[s].player] = save[s].data
            /\ \A p \in Players \ {save[s].player} : stored'[p] = stored[p]
        BY <1>13, <3>2, SaveEndsEffect DEF Kept
      <4> QED
        BY <4>1 DEF StoredOwned, SaveOwned
    <3> QED
      BY <3>1, <3>2
  <2> QED
    BY <1>13, <2>1, <2>2, <1>b, <1>c, <1>e DEF SaveEnds
<1>14. CASE UNCHANGED vars
  BY <1>14, <1>a, <1>b, <1>c, <1>d, <1>e DEF vars
<1> QED
  BY <1>1, <1>2, <1>3, <1>4, <1>5, <1>6, <1>7, <1>8, <1>9, <1>10, <1>11, <1>12, <1>13, <1>14 DEF Next

(* A player is in the game once and with the data of his own account, and   *)
(* the master server gets nobody else's for it, whichever tokens clients    *)
(* present.                                                                 *)
THEOREM PlayersHaveOwnData == Spec => []OwnData
<1>1. Init => TypeOK /\ OwnedInv
  BY InitTypeOK, InitOwnedInv
<1>2. TypeOK /\ OwnedInv /\ [Next]_vars => (TypeOK /\ OwnedInv)'
  BY StepTypeOK, StepOwnedInv
<1>3. OwnedInv => OwnData
  BY DEF OwnedInv, OwnData, SessionOwned, StoredOwned
<1> QED
  BY <1>1, <1>2, <1>3, PTL DEF Spec

-----------------------------------------------------------------------------
(* The flag of all saves. *)

LEMMA InitFlag == Init => FlagFollowsSaves
BY DEF Init, FlagFollowsSaves, Empty

LEMMA StepFlag == TypeOK /\ FlagFollowsSaves /\ [Next]_vars => FlagFollowsSaves'
<1> SUFFICES ASSUME TypeOK, FlagFollowsSaves, [Next]_vars PROVE FlagFollowsSaves'
  OBVIOUS
<1>w. ASSUME NEW C, C \subseteq DOMAIN session, WritePersistentData(C), UNCHANGED shared
      PROVE  FlagFollowsSaves'
  <2>1. CASE C = {}
    <3>1. DOMAIN save' = DOMAIN save /\ saving' = saving
      BY <1>w, <2>1, WriteFacts DEF TypeOK
    <3> QED
      BY <1>w, <3>1 DEF FlagFollowsSaves
  <2>2. CASE C # {}
    <3>1. PICK c \in C : TRUE
      BY <2>2
    <3>2. \E s \in DOMAIN save' : save'[s] = SaveOf(c)
      BY <1>w, <3>1, WriteFacts
    <3>3. saving' = TRUE
      BY <1>w, <2>2, WriteFacts DEF TypeOK
    <3> QED
      BY <3>2, <3>3 DEF FlagFollowsSaves
  <2> QED
    BY <2>1, <2>2
<1>n. ASSUME NoWrite, UNCHANGED shared PROVE FlagFollowsSaves'
  BY <1>n DEF NoWrite, FlagFollowsSaves
<1>1. ASSUME UNCHANGED <<save, saving, shared>> PROVE FlagFollowsSaves'
  BY <1>1 DEF FlagFollowsSaves
<1>2. ASSUME NEW c \in Clients, ActivatePlayer(c) PROVE FlagFollowsSaves'
  BY <1>2, <1>w, <1>n DEF ActivatePlayer
<1>3. ASSUME NEW c \in Clients, NSEarlyWritePlayerPersistenceForLeave(c) PROVE FlagFollowsSaves'
  BY <1>3, <1>w DEF NSEarlyWritePlayerPersistenceForLeave
<1>4. ASSUME NEW c \in Clients, Disconnect(c) PROVE FlagFollowsSaves'
  BY <1>4, <1>w, <1>n DEF Disconnect
<1>5. CASE HostLeaves
  BY <1>5, <1>w DEF HostLeaves
<1>6. ASSUME NEW s \in Savers, SaveEnds(s) PROVE FlagFollowsSaves'
  <2>1. saving' = FALSE /\ shared' = (shared \cup DOMAIN save) \ {s}
    BY <1>6 DEF SaveEnds
  <2>2. DOMAIN save' = DOMAIN save \ {s}
    BY <1>6, SaveEndsEffect
  <2> QED
    BY <2>1, <2>2 DEF FlagFollowsSaves
<1> QED
  <2>1. CASE \E h \in Handlers : \/ \E t \in Tokens : ReceiveRequest(h, t)
                                 \/ Mark(h) \/ Fetch(h) \/ AddRemotePlayer(h) \/ Answer(h)
    BY <2>1, <1>1 DEF ReceiveRequest, Mark, Fetch, AddRemotePlayer, Answer
  <2>2. CASE \E c \in Clients : \/ \E p \in Players, t \in Tokens : Connect(c, p, t)
                                \/ Play(c) \/ CloseConnection(c)
    BY <2>2, <1>1 DEF Connect, Play, CloseConnection
  <2>3. CASE UNCHANGED vars
    BY <2>3, <1>1 DEF vars
  <2> QED
    BY <2>1, <2>2, <2>3, <1>2, <1>3, <1>4, <1>5, <1>6 DEF Next

(* Whoever waits for m_bSavingPersistentData does not wait for saves that   *)
(* are over, and it is down during a save only if another one ended then.   *)
THEOREM FlagIsReleased == Spec => []FlagFollowsSaves
<1>1. Init => TypeOK /\ FlagFollowsSaves
  BY InitTypeOK, InitFlag
<1>2. TypeOK /\ FlagFollowsSaves /\ [Next]_vars => (TypeOK /\ FlagFollowsSaves)'
  BY StepTypeOK, StepFlag
<1> QED
  BY <1>1, <1>2, PTL DEF Spec

-----------------------------------------------------------------------------
(* Leaving.  A connected client has its entry, and unless the script wrote  *)
(* the data early, an entry made for him asks for the save.                 *)

Listed ==
  \A c \in DOMAIN session :
    /\ c \in DOMAIN needWrite
    /\ session[c].fresh /\ ~session[c].early => needWrite[c]

LEMMA InitListed == Init => Listed
BY DEF Init, Listed, Empty

LEMMA StepListed == TypeOK /\ Listed /\ [Next]_vars => Listed'
<1> SUFFICES ASSUME TypeOK, Listed, [Next]_vars PROVE Listed'
  OBVIOUS
<1> USE DEF Listed, Kept
<1>1. ASSUME UNCHANGED <<session, needWrite>> PROVE Listed'
  BY <1>1
<1>2. ASSUME NEW c \in Clients, NEW p \in Players, NEW t \in Tokens, Connect(c, p, t)
      PROVE  Listed'
  <2>1. /\ DOMAIN session' = DOMAIN session \cup {c}
        /\ session'[c].fresh = (c \notin DOMAIN needWrite)
        /\ \A d \in DOMAIN session : session'[d] = session[d]
    BY <1>2, ConnectEffect
  <2>2. /\ DOMAIN needWrite' = DOMAIN needWrite \cup {c}
        /\ \A d \in DOMAIN needWrite : needWrite'[d] = needWrite[d]
        /\ c \notin DOMAIN needWrite => needWrite'[c]
    BY <1>2, ConnectEffect
  <2>3. c \notin DOMAIN session
    BY <1>2, ConnectEffect
  <2> QED
    BY <2>1, <2>2, <2>3
<1>3. ASSUME NEW c \in Clients, ActivatePlayer(c) PROVE Listed'
  BY <1>3, ActivateEffect DEF ActivatePlayer
<1>4. ASSUME NEW c \in Clients, Play(c) PROVE Listed'
  BY <1>4, PlayEffect DEF Play
<1>5. ASSUME NEW c \in Clients, NSEarlyWritePlayerPersistenceForLeave(c) PROVE Listed'
  BY <1>5, EarlyEffect
<1>6. ASSUME NEW c \in Clients, Disconnect(c) PROVE Listed'
  BY <1>6, DisconnectEffect
<1>7. ASSUME NEW c \in Clients, CloseConnection(c) PROVE Listed'
  BY <1>7, CloseEffect DEF CloseConnection
<1> QED
  <2>1. CASE \E h \in Handlers : \/ \E t \in Tokens : ReceiveRequest(h, t)
                                 \/ Mark(h) \/ Fetch(h) \/ AddRemotePlayer(h) \/ Answer(h)
    BY <2>1, <1>1 DEF ReceiveRequest, Mark, Fetch, AddRemotePlayer, Answer
  <2>2. CASE HostLeaves \/ (\E s \in Savers : SaveEnds(s)) \/ UNCHANGED vars
    BY <2>2, <1>1 DEF HostLeaves, SaveEnds, vars
  <2> QED
    BY <2>1, <2>2, <1>2, <1>3, <1>4, <1>5, <1>6, <1>7 DEF Next

(* Who leaves is saved with what he has, unless the script wrote it early   *)
(* or the slot still had somebody's entry.                                  *)
THEOREM LeaversAreSaved == Spec => SavedOnLeave
<1> DEFINE Saved ==
      \A c \in DOMAIN needWrite \ DOMAIN needWrite' :
        session[c].fresh /\ ~session[c].early =>
          \E s \in DOMAIN save' \ DOMAIN save :
            save'[s] = [player |-> session[c].player, data |-> session[c].data]
<1>1. Init => TypeOK /\ Listed
  BY InitTypeOK, InitListed
<1>2. TypeOK /\ Listed /\ [Next]_vars => (TypeOK /\ Listed)'
  BY StepTypeOK, StepListed
<1>3. TypeOK /\ Listed /\ [Next]_vars => [Saved]_vars
  <2> SUFFICES ASSUME TypeOK, Listed, Next PROVE Saved
    BY DEF vars
  <2>1. ASSUME NEW c \in Clients, Disconnect(c) PROVE Saved
    BY <2>1, DisconnectEffect DEF Listed, SaveOf
  <2>2. ASSUME DOMAIN needWrite \subseteq DOMAIN needWrite' PROVE Saved
    BY <2>2
  <2>3. ASSUME NEW c \in Clients, NEW p \in Players, NEW t \in Tokens, Connect(c, p, t)
        PROVE  Saved
    BY <2>3, <2>2, ConnectEffect
  <2>4. ASSUME NEW c \in Clients, NSEarlyWritePlayerPersistenceForLeave(c) PROVE Saved
    BY <2>4, <2>2, EarlyEffect
  <2>5. CASE \E h \in Handlers : \/ \E t \in Tokens : ReceiveRequest(h, t)
                                 \/ Mark(h) \/ Fetch(h) \/ AddRemotePlayer(h) \/ Answer(h)
    BY <2>5, <2>2 DEF ReceiveRequest, Mark, Fetch, AddRemotePlayer, Answer
  <2>6. CASE \/ HostLeaves \/ (\E s \in Savers : SaveEnds(s))
             \/ (\E c \in Clients : ActivatePlayer(c) \/ Play(c) \/ CloseConnection(c))
    BY <2>6, <2>2 DEF HostLeaves, SaveEnds, ActivatePlayer, Play, CloseConnection
  <2> QED
    BY <2>1, <2>3, <2>4, <2>5, <2>6 DEF Next
<1> QED
  BY <1>1, <1>2, <1>3, PTL DEF Spec, SavedOnLeave

-----------------------------------------------------------------------------
(* Admission.  While a request of a player who is not muddled is handled,   *)
(* nothing else of his is there; then his one entry waits for him, and it   *)
(* is gone when he is on a map.                                             *)

HandledFirst ==
  /\ accepted \subseteq handled
  /\ \A h \in DOMAIN work : work[h].at # "mark" => work[h].token \in handled

Alone(h) ==
  LET p == Owner[work[h].token] IN
    /\ \A k \in DOMAIN work : Owner[work[k].token] = p => k = h
    /\ \A c \in DOMAIN session : session[c].player # p
    /\ \A s \in DOMAIN save : save[s].player # p
    /\ work[h].token \notin accepted
    /\ \A t \in DOMAIN table : Owner[t] = p => work[h].at = "accept" /\ t = work[h].token
    /\ work[h].at = "accept" => work[h].token \in DOMAIN table

HandledAlone == \A h \in DOMAIN work : Owner[work[h].token] \notin muddled => Alone(h)

OneEntry == \A t, u \in DOMAIN table : Owner[t] = Owner[u] /\ Owner[t] \notin muddled => t = u

Waiting ==
  \A t \in accepted \ used : Owner[t] \notin muddled =>
    t \in DOMAIN table /\ \A c \in DOMAIN session : session[c].player # Owner[t]

Gone ==
  \A c \in DOMAIN session : session[c].active /\ session[c].player \notin muddled =>
    \A t \in DOMAIN table : Owner[t] # session[c].player

AdmitInv == HandledFirst /\ HandledAlone /\ OneEntry /\ Waiting /\ Gone

LEMMA InitAdmitInv == Init => AdmitInv
BY DEF Init, AdmitInv, HandledFirst, HandledAlone, OneEntry, Waiting, Gone, Empty

(* The steps of a handler. *)
LEMMA HandlerAdmitInv ==
  ASSUME TypeOK, AdmitInv, NEW h \in Handlers,
         (\E t \in Tokens : ReceiveRequest(h, t))
           \/ Mark(h) \/ Fetch(h) \/ AddRemotePlayer(h) \/ Answer(h)
  PROVE  AdmitInv'
<1> USE DEF AdmitInv
<1>1. ASSUME NEW t \in Tokens, ReceiveRequest(h, t) PROVE AdmitInv'
  <2>1. /\ h \notin DOMAIN work /\ DOMAIN work' = DOMAIN work \cup {h}
        /\ work'[h].token = t /\ work'[h].at = "mark"
        /\ \A k \in DOMAIN work : work'[k] = work[k]
    BY <1>1, ReceiveEffect DEF Kept
  <2>2. muddled \subseteq muddled' /\ t \notin handled
    BY <1>1, ReceiveEffect
  <2>3. Owner[t] \notin muddled' =>
          /\ \A k \in DOMAIN work : Owner[work[k].token] # Owner[t]
          /\ \A c \in DOMAIN session : session[c].player # Owner[t]
          /\ \A s \in DOMAIN save : save[s].player # Owner[t]
          /\ \A u \in DOMAIN table : Owner[u] # Owner[t]
    <3>1. Owner[t] \notin muddled' => Settled(Owner[t])
      BY <1>1, ReceiveEffect
    <3> QED
      BY <3>1 DEF Settled, EntriesOf, InSession, BeingSaved, BeingHandled
  <2>4. UNCHANGED <<handled, accepted, table, session, save, used>>
    BY <1>1 DEF ReceiveRequest
  <2>5. HandledFirst'
    BY <2>1, <2>4 DEF HandledFirst
  <2>6. HandledAlone'
    <3> SUFFICES ASSUME NEW k \in DOMAIN work', (Owner[work[k].token] \notin muddled)' PROVE Alone(k)'
      BY DEF HandledAlone
    <3>1. CASE k = h
      BY <2>1, <2>2, <2>3, <2>4, <3>1 DEF HandledFirst, Alone
    <3>2. CASE k # h
      <4>1. k \in DOMAIN work /\ Alone(k) /\ Owner[work[k].token] # Owner[t] /\ work'[k] = work[k]
        BY <2>1, <2>2, <2>3, <3>2 DEF HandledAlone
      <4> QED
        BY <2>1, <2>4, <4>1 DEF Alone
    <3> QED
      BY <3>1, <3>2
  <2>7. OneEntry' /\ Waiting' /\ Gone'
    BY <2>2, <2>4 DEF OneEntry, Waiting, Gone
  <2> QED
    BY <2>5, <2>6, <2>7
<1>2. CASE Mark(h)
  <2>1. /\ h \in DOMAIN work /\ DOMAIN work' = DOMAIN work
        /\ work'[h].token = work[h].token /\ work'[h].at = "fetch" /\ work[h].at = "mark"
        /\ \A k \in DOMAIN work \ {h} : work'[k] = work[k]
        /\ handled' = handled \cup {work[h].token}
    BY <1>2, MarkEffect DEF Kept
  <2>2. UNCHANGED <<accepted, table, session, save, used, muddled>>
    BY <1>2 DEF Mark
  <2>3. HandledFirst'
    BY <2>1, <2>2 DEF HandledFirst
  <2>4. \A k \in DOMAIN work : /\ work'[k].token = work[k].token
                               /\ work'[k].at = "accept" <=> work[k].at = "accept"
    BY <2>1
  <2>5. HandledAlone'
    BY <2>1, <2>2, <2>4 DEF HandledAlone, Alone
  <2>6. OneEntry' /\ Waiting' /\ Gone'
    BY <2>2 DEF OneEntry, Waiting, Gone
  <2> QED
    BY <2>3, <2>5, <2>6
<1>3. CASE Fetch(h)
  <2>1. /\ h \in DOMAIN work /\ work[h].at = "fetch" /\ DOMAIN work' \subseteq DOMAIN work
        /\ \A k \in DOMAIN work' \ {h} : work'[k] = work[k]
        /\ h \in DOMAIN work' => work'[h].token = work[h].token /\ work'[h].at = "add"
    BY <1>3, FetchEffect DEF Kept
  <2>2. UNCHANGED <<handled, accepted, table, session, save, used, muddled>>
    BY <1>3 DEF Fetch
  <2>3. HandledFirst'
    BY <2>1, <2>2 DEF HandledFirst
  <2>4. \A k \in DOMAIN work' : /\ k \in DOMAIN work /\ work'[k].token = work[k].token
                                /\ work'[k].at = "accept" <=> work[k].at = "accept"
    BY <2>1
  <2>5. HandledAlone'
    BY <2>2, <2>4 DEF HandledAlone, Alone
  <2>6. OneEntry' /\ Waiting' /\ Gone'
    BY <2>2 DEF OneEntry, Waiting, Gone
  <2> QED
    BY <2>3, <2>5, <2>6
<1>4. CASE AddRemotePlayer(h)
  <2> DEFINE t0 == work[h].token
  <2>1. /\ h \in DOMAIN work /\ work[h].at = "add" /\ DOMAIN work' = DOMAIN work
        /\ work'[h].token = t0 /\ work'[h].at = "accept"
        /\ \A k \in DOMAIN work \ {h} : work'[k] = work[k]
        /\ DOMAIN table' = DOMAIN table \cup {t0}
    BY <1>4, AddEffect DEF Kept
  <2>2. UNCHANGED <<handled, accepted, session, save, used, muddled>>
    BY <1>4 DEF AddRemotePlayer
  <2>3. Owner[t0] \notin muddled => Alone(h) /\ \A t \in DOMAIN table : Owner[t] # Owner[t0]
    BY <2>1 DEF HandledAlone, Alone
  <2>4. HandledFirst'
    BY <2>1, <2>2 DEF HandledFirst
  <2>5. HandledAlone'
    <3> SUFFICES ASSUME NEW k \in DOMAIN work', (Owner[work[k].token] \notin muddled)' PROVE Alone(k)'
      BY DEF HandledAlone
    <3>1. CASE k = h
      BY <2>1, <2>2, <2>3, <3>1 DEF Alone
    <3>2. CASE k # h
      <4>1. k \in DOMAIN work /\ Alone(k) /\ work'[k] = work[k]
        BY <2>1, <2>2, <3>2 DEF HandledAlone
      <4>2. Owner[work[k].token] # Owner[t0]
        BY <2>1, <3>2, <4>1 DEF Alone
      <4> QED
        BY <2>1, <2>2, <4>1, <4>2 DEF Alone
    <3> QED
      BY <3>1, <3>2
  <2>6. OneEntry'
    BY <2>1, <2>2, <2>3 DEF OneEntry
  <2>7. Waiting'
    BY <2>1, <2>2 DEF Waiting
  <2>8. Gone'
    BY <2>1, <2>2, <2>3 DEF Gone, Alone
  <2> QED
    BY <2>4, <2>5, <2>6, <2>7, <2>8
<1>5. CASE Answer(h)
  <2> DEFINE t0 == work[h].token
  <2>1. /\ h \in DOMAIN work /\ work[h].at = "accept" /\ DOMAIN work' = DOMAIN work \ {h}
        /\ \A k \in DOMAIN work \ {h} : work'[k] = work[k]
        /\ accepted \subseteq accepted' /\ accepted' \subseteq accepted \cup {t0}
    BY <1>5, AnswerEffect DEF Kept
  <2>2. UNCHANGED <<handled, table, session, save, used, muddled>>
    BY <1>5 DEF Answer
  <2>3. HandledFirst'
    BY <2>1, <2>2 DEF HandledFirst
  <2>4. HandledAlone'
    <3> SUFFICES ASSUME NEW k \in DOMAIN work', (Owner[work[k].token] \notin muddled)' PROVE Alone(k)'
      BY DEF HandledAlone
    <3>1. k \in DOMAIN work /\ k # h /\ Alone(k) /\ work'[k] = work[k]
      BY <2>1, <2>2 DEF HandledAlone
    <3>2. work[k].token # t0
      BY <2>1, <3>1 DEF Alone
    <3> QED
      BY <2>1, <2>2, <3>1, <3>2 DEF Alone
  <2>5. Waiting'
    BY <2>1, <2>2 DEF Waiting, HandledAlone, Alone
  <2>6. OneEntry' /\ Gone'
    BY <2>2 DEF OneEntry, Gone
  <2> QED
    BY <2>3, <2>4, <2>5, <2>6
<1> QED
  BY <1>1, <1>2, <1>3, <1>4, <1>5

(* The steps of the clients, and of the saves. *)
LEMMA ClientAdmitInv ==
  ASSUME TypeOK, AdmitInv, NEW c \in Clients,
         (\E p \in Players, t \in Tokens : Connect(c, p, t))
           \/ ActivatePlayer(c) \/ Play(c) \/ NSEarlyWritePlayerPersistenceForLeave(c)
           \/ Disconnect(c) \/ CloseConnection(c)
  PROVE  AdmitInv'
<1> USE DEF AdmitInv
<1>1. ASSUME NEW p \in Players, NEW t \in Tokens, Connect(c, p, t) PROVE AdmitInv'
  <2>1. /\ c \notin DOMAIN session /\ DOMAIN session' = DOMAIN session \cup {c}
        /\ session'[c].player = p /\ session'[c].active = FALSE
        /\ \A d \in DOMAIN session : session'[d] = session[d]
    BY <1>1, ConnectEffect DEF Kept
  <2>2. t \in accepted /\ t \in DOMAIN table /\ Owner[t] = p /\ used' = used \cup {t}
    BY <1>1 DEF Connect, CheckAuthentication
  <2>3. UNCHANGED <<handled, accepted, work, table, save, muddled>>
    BY <1>1 DEF Connect
  <2>4. HandledFirst'
    BY <2>3 DEF HandledFirst
  <2>5. HandledAlone'
    <3> SUFFICES ASSUME NEW k \in DOMAIN work', (Owner[work[k].token] \notin muddled)' PROVE Alone(k)'
      BY DEF HandledAlone
    <3>1. Alone(k)
      BY <2>3 DEF HandledAlone
    <3>2. Owner[work[k].token] # p
      BY <2>2, <3>1 DEF Alone
    <3> QED
      BY <2>1, <2>3, <3>1, <3>2 DEF Alone
  <2>6. OneEntry'
    BY <2>3 DEF OneEntry
  <2>7. Waiting'
    <3> SUFFICES ASSUME NEW u \in accepted \ used', Owner[u] \notin muddled
                 PROVE  u \in DOMAIN table /\ \A d \in DOMAIN session' : session'[d].player # Owner[u]
      BY <2>3 DEF Waiting
    <3>1. u # t /\ u \in DOMAIN table /\ (\A d \in DOMAIN session : session[d].player # Owner[u])
      BY <2>2 DEF Waiting
    <3>2. Owner[u] # p
      BY <2>2, <3>1 DEF OneEntry
    <3> QED
      BY <2>1, <3>1, <3>2
  <2>8. Gone'
    BY <2>1, <2>3 DEF Gone
  <2> QED
    BY <2>4, <2>5, <2>6, <2>7, <2>8
(* Erasing entries of a connected player, and saving connected players. *)
<1>2. ASSUME NEW d \in DOMAIN session, EntriesShrink(session[d].player), SavesGrow,
             UNCHANGED <<handled, accepted, work, used, muddled>>,
             DOMAIN session' \subseteq DOMAIN session,
             \A e \in DOMAIN session' : session'[e].player = session[e].player
      PROVE  HandledFirst' /\ HandledAlone' /\ OneEntry' /\ Waiting'
  <2>1. /\ DOMAIN table' \subseteq DOMAIN table
        /\ \A t \in DOMAIN table : Owner[t] # session[d].player => t \in DOMAIN table'
    BY <1>2 DEF EntriesShrink
  <2>2. \A s \in DOMAIN save' : \/ s \in DOMAIN save /\ save'[s] = save[s]
                                \/ \E e \in DOMAIN session : save'[s].player = session[e].player
    BY <1>2 DEF SavesGrow, SaveOf, Kept
  <2>3. HandledFirst'
    BY <1>2 DEF HandledFirst
  <2>4. HandledAlone'
    <3> SUFFICES ASSUME NEW k \in DOMAIN work', (Owner[work[k].token] \notin muddled)' PROVE Alone(k)'
      BY DEF HandledAlone
    <3>1. Alone(k)
      BY <1>2 DEF HandledAlone
    <3>2. Owner[work[k].token] # session[d].player
      BY <3>1 DEF Alone
    <3>3. \A s \in DOMAIN save' : save'[s].player # Owner[work[k].token]
      BY <2>2, <3>1 DEF Alone
    <3>4. work[k].at = "accept" => work[k].token \in DOMAIN table'
      BY <2>1, <3>1, <3>2 DEF Alone
    <3> QED
      BY <1>2, <2>1, <3>1, <3>3, <3>4 DEF Alone
  <2>5. OneEntry'
    BY <1>2, <2>1 DEF OneEntry
  <2>6. Waiting'
    BY <1>2, <2>1 DEF Waiting
  <2> QED
    BY <2>3, <2>4, <2>5, <2>6
<1>3. CASE ActivatePlayer(c)
  <2>1. /\ c \in DOMAIN session /\ DOMAIN session' = DOMAIN session
        /\ session'[c].player = session[c].player
        /\ \A d \in DOMAIN session \ {c} : session'[d] = session[d]
    BY <1>3, ActivateEffect DEF Kept
  <2>2. EntriesShrink(session[c].player) /\ SavesGrow
    BY <1>3, ActivateEffect
  <2>3. UNCHANGED <<handled, accepted, work, used, muddled>>
    BY <1>3 DEF ActivatePlayer
  <2>4. HandledFirst' /\ HandledAlone' /\ OneEntry' /\ Waiting'
    BY <1>2, <2>1, <2>2, <2>3
  <2>5. Gone'
    <3> SUFFICES ASSUME NEW d \in DOMAIN session', session'[d].active,
                        session'[d].player \notin muddled
                 PROVE  \A t \in DOMAIN table' : Owner[t] # session'[d].player
      BY <2>3 DEF Gone
    <3>1. DOMAIN table' \subseteq DOMAIN table
      BY <2>2 DEF EntriesShrink
    <3>2. CASE d = c
      <4>1. EntriesOf(session[c].player) # {} =>
              \E t \in EntriesOf(session[c].player) : t \notin DOMAIN table'
        BY <1>3, ActivateEffect
      <4>2. \A t \in DOMAIN table : Owner[t] = session[c].player => t \notin DOMAIN table'
        <5> SUFFICES ASSUME NEW t \in DOMAIN table, Owner[t] = session[c].player
                     PROVE  t \notin DOMAIN table'
          OBVIOUS
        <5>1. PICK u \in DOMAIN table : Owner[u] = session[c].player /\ u \notin DOMAIN table'
          BY <4>1 DEF EntriesOf
        <5> QED
          BY <2>1, <3>2, <5>1 DEF OneEntry
      <4> QED
        BY <2>1, <3>1, <3>2, <4>2
    <3>3. CASE d # c
      BY <2>1, <3>1, <3>3 DEF Gone
    <3> QED
      BY <3>2, <3>3
  <2> QED
    BY <2>4, <2>5
<1>4. CASE Play(c)
  <2>1. /\ c \in DOMAIN session /\ DOMAIN session' = DOMAIN session
        /\ session'[c].player = session[c].player /\ session'[c].active = session[c].active
        /\ \A d \in DOMAIN session \ {c} : session'[d] = session[d]
    BY <1>4, PlayEffect DEF Kept
  <2>2. UNCHANGED <<handled, accepted, work, table, save, used, muddled>>
    BY <1>4 DEF Play
  <2>3. \A d \in DOMAIN session : /\ session'[d].player = session[d].player
                                  /\ session'[d].active = session[d].active
    BY <2>1
  <2>4. HandledFirst' /\ OneEntry' /\ Waiting' /\ Gone'
    BY <2>1, <2>2, <2>3 DEF HandledFirst, OneEntry, Waiting, Gone
  <2>5. HandledAlone'
    BY <2>1, <2>2, <2>3 DEF HandledAlone, Alone
  <2> QED
    BY <2>4, <2>5
<1>5. CASE NSEarlyWritePlayerPersistenceForLeave(c)
  <2>1. /\ c \in DOMAIN session /\ DOMAIN session' = DOMAIN session
        /\ session'[c].player = session[c].player /\ session'[c].active = session[c].active
        /\ \A d \in DOMAIN session \ {c} : session'[d] = session[d]
    BY <1>5, EarlyEffect DEF Kept
  <2>2. SavesGrow /\ UNCHANGED <<handled, accepted, work, table, used, muddled>>
    BY <1>5, EarlyEffect DEF NSEarlyWritePlayerPersistenceForLeave
  <2>3. EntriesShrink(session[c].player)
    BY <2>2 DEF EntriesShrink, Kept
  <2>4. HandledFirst' /\ HandledAlone' /\ OneEntry' /\ Waiting'
    BY <1>2, <2>1, <2>2, <2>3
  <2>5. Gone'
    BY <2>1, <2>2 DEF Gone
  <2> QED
    BY <2>4, <2>5
<1>6. CASE Disconnect(c)
  <2>1. /\ c \in DOMAIN session /\ DOMAIN session' = DOMAIN session \ {c}
        /\ \A d \in DOMAIN session \ {c} : session'[d] = session[d]
    BY <1>6, DisconnectEffect DEF Kept
  <2>2. EntriesShrink(session[c].player) /\ SavesGrow
    BY <1>6, DisconnectEffect
  <2>3. UNCHANGED <<handled, accepted, work, used, muddled>>
    BY <1>6 DEF Disconnect
  <2>4. HandledFirst' /\ HandledAlone' /\ OneEntry' /\ Waiting'
    BY <1>2, <2>1, <2>2, <2>3
  <2>5. Gone'
    BY <2>1, <2>2, <2>3 DEF Gone, EntriesShrink
  <2> QED
    BY <2>4, <2>5
<1>7. CASE CloseConnection(c)
  <2>1. /\ DOMAIN session' = DOMAIN session \ {c}
        /\ \A d \in DOMAIN session \ {c} : session'[d] = session[d]
    BY <1>7, CloseEffect DEF Kept
  <2>2. UNCHANGED <<handled, accepted, work, table, save, used, muddled>>
    BY <1>7 DEF CloseConnection
  <2>3. HandledFirst' /\ OneEntry' /\ Waiting' /\ Gone'
    BY <2>1, <2>2 DEF HandledFirst, OneEntry, Waiting, Gone
  <2>4. HandledAlone'
    BY <2>1, <2>2 DEF HandledAlone, Alone
  <2> QED
    BY <2>3, <2>4
<1> QED
  BY <1>1, <1>3, <1>4, <1>5, <1>6, <1>7

LEMMA SaveAdmitInv ==
  ASSUME TypeOK, AdmitInv, HostLeaves \/ (\E s \in Savers : SaveEnds(s)) \/ UNCHANGED vars
  PROVE  AdmitInv'
<1> USE DEF AdmitInv
<1>1. CASE HostLeaves
  <2>1. \A s \in DOMAIN save' : \/ s \in DOMAIN save /\ save'[s] = save[s]
                                \/ \E e \in DOMAIN session : save'[s].player = session[e].player
    BY <1>1, HostLeavesEffect DEF SavesGrow, SaveOf, Kept
  <2>2. UNCHANGED <<handled, accepted, work, table, session, used, muddled>>
    BY <1>1 DEF HostLeaves
  <2>3. HandledFirst' /\ OneEntry' /\ Waiting' /\ Gone'
    BY <2>2 DEF HandledFirst, OneEntry, Waiting, Gone
  <2>4. HandledAlone'
    BY <2>1, <2>2 DEF HandledAlone, Alone
  <2> QED
    BY <2>3, <2>4
<1>2. ASSUME NEW s \in Savers, SaveEnds(s) PROVE AdmitInv'
  <2>1. /\ DOMAIN save' = DOMAIN save \ {s} /\ muddled \subseteq muddled'
        /\ \A r \in DOMAIN save \ {s} : save'[r] = save[r]
    BY <1>2, SaveEndsEffect DEF Kept
  <2>2. UNCHANGED <<handled, accepted, work, table, session, used>>
    BY <1>2 DEF SaveEnds
  <2>3. HandledFirst' /\ OneEntry' /\ Waiting' /\ Gone'
    BY <2>1, <2>2 DEF HandledFirst, OneEntry, Waiting, Gone
  <2>4. HandledAlone'
    BY <2>1, <2>2 DEF HandledAlone, Alone
  <2> QED
    BY <2>3, <2>4
<1>3. CASE UNCHANGED vars
  BY <1>3 DEF vars, HandledFirst, HandledAlone, Alone, OneEntry, Waiting, Gone
<1> QED
  BY <1>1, <1>2, <1>3

LEMMA StepAdmitInv == TypeOK /\ AdmitInv /\ [Next]_vars => AdmitInv'
BY HandlerAdmitInv, ClientAdmitInv, SaveAdmitInv DEF Next

LEMMA AdmitInvariant == Spec => [](TypeOK /\ AdmitInv)
<1>1. Init => TypeOK /\ AdmitInv
  BY InitTypeOK, InitAdmitInv
<1>2. TypeOK /\ AdmitInv /\ [Next]_vars => (TypeOK /\ AdmitInv)'
  BY StepTypeOK, StepAdmitInv
<1> QED
  BY <1>1, <1>2, PTL DEF Spec

(* Who was told to come and is not muddled finds his entry, however many    *)
(* repeated packets and other players come and go before he does.           *)
THEOREM AcceptedPlayersCanJoin == Spec => []AcceptedCanJoin
<1>1. AdmitInv => AcceptedCanJoin
  BY DEF AdmitInv, Waiting, AcceptedCanJoin
<1> QED
  BY <1>1, AdmitInvariant, PTL

(* Once a player who is not muddled has been on a map, no entry of his is   *)
(* left that could suppress the save of a later map load.                   *)
THEOREM LoadsAfterTheFirstAreSaved == Spec => []LaterLoadsAreSaved
<1>1. AdmitInv => LaterLoadsAreSaved
  BY DEF AdmitInv, Gone, LaterLoadsAreSaved, EntriesOf
<1> QED
  BY <1>1, AdmitInvariant, PTL

-----------------------------------------------------------------------------
(* Versions.  For a player who is not muddled they go up along the way his  *)
(* data takes back: stored, then what is being saved, then his session,     *)
(* which stands at his entry until he is on a map; nothing is newer than    *)
(* the newest.                                                              *)

Bounded ==
  /\ \A p \in Players : stored[p].version <= newest[p]
  /\ \A h \in DOMAIN work : work[h].data.version <= newest[Owner[work[h].token]]
  /\ \A t \in DOMAIN table : table[t].version <= newest[Owner[t]]
  /\ \A s \in DOMAIN save : save[s].data.version <= newest[save[s].player]
  /\ \A c \in DOMAIN session : session[c].data.version <= newest[session[c].player]

SaveOrder ==
  \A s \in DOMAIN save : save[s].player \notin muddled =>
    stored[save[s].player].version <= save[s].data.version

SessionOrder ==
  \A c \in DOMAIN session : session[c].player \notin muddled =>
    /\ stored[session[c].player].version <= session[c].data.version
    /\ \A s \in DOMAIN save : save[s].player = session[c].player =>
         save[s].data.version <= session[c].data.version

EntryOrder ==
  \A t \in DOMAIN table : Owner[t] \notin muddled =>
    /\ stored[Owner[t]].version <= table[t].version
    /\ \A s \in DOMAIN save : save[s].player = Owner[t] =>
         save[s].data.version <= table[t].version
    /\ \A c \in DOMAIN session : session[c].player = Owner[t] =>
         session[c].data.version <= table[t].version

FetchOrder ==
  \A h \in DOMAIN work : work[h].at = "add" /\ Owner[work[h].token] \notin muddled =>
    stored[Owner[work[h].token]].version <= work[h].data.version

KeptInv == Bounded /\ SaveOrder /\ SessionOrder /\ EntryOrder /\ FetchOrder

LEMMA InitKeptInv == Init => KeptInv
BY DEF Init, KeptInv, Bounded, SaveOrder, SessionOrder, EntryOrder, FetchOrder, Empty

LEMMA Versions ==
  ASSUME TypeOK
  PROVE  /\ \A t \in Tokens : Owner[t] \in Players
         /\ \A p \in Players : stored[p].version \in Nat /\ newest[p] \in Nat
         /\ \A h \in DOMAIN work : work[h].data.version \in Nat /\ work[h].token \in Tokens
         /\ \A t \in DOMAIN table : table[t].version \in Nat /\ t \in Tokens
         /\ \A s \in DOMAIN save : save[s].data.version \in Nat /\ save[s].player \in Players
         /\ \A c \in DOMAIN session : session[c].data.version \in Nat /\ session[c].player \in Players
<1>1. \A t \in Tokens : Owner[t] \in Players
  BY SessionsAssumption
<1>2. \A p \in Players : stored[p].version \in Nat /\ newest[p] \in Nat
  BY DEF TypeOK, Data
<1>3. \A h \in DOMAIN work : work[h].data.version \in Nat /\ work[h].token \in Tokens
  BY DEF TypeOK, IsPartial, Work, Data
<1>4. \A t \in DOMAIN table : table[t].version \in Nat /\ t \in Tokens
  BY DEF TypeOK, IsPartial, Data
<1>5. \A s \in DOMAIN save : save[s].data.version \in Nat /\ save[s].player \in Players
  BY DEF TypeOK, IsPartial, Save, Data
<1>6. \A c \in DOMAIN session : session[c].data.version \in Nat /\ session[c].player \in Players
  BY DEF TypeOK, IsPartial, Session, Data
<1> QED
  BY <1>1, <1>2, <1>3, <1>4, <1>5, <1>6

(* Sessions that end, entries that go, and saves of connected players keep  *)
(* the order.                                                               *)
LEMMA LeaveKeptInv ==
  ASSUME TypeOK, SessionOwned, KeptInv, SavesGrow,
         DOMAIN session' \subseteq DOMAIN session,
         \A c \in DOMAIN session' : /\ session'[c].player = session[c].player
                                    /\ session'[c].data = session[c].data,
         DOMAIN table' \subseteq DOMAIN table, \A t \in DOMAIN table' : table'[t] = table[t],
         UNCHANGED <<stored, newest, work, muddled>>
  PROVE  KeptInv'
<1> USE DEF KeptInv
<1>1. \A s \in DOMAIN save' :
        \/ s \in DOMAIN save /\ save'[s] = save[s]
        \/ \E c \in DOMAIN session : /\ save'[s].player = session[c].player
                                     /\ save'[s].data = session[c].data
  BY DEF SavesGrow, SaveOf, Kept
<1>2. Bounded'
  BY <1>1 DEF Bounded
<1>3. SaveOrder'
  BY <1>1 DEF SaveOrder, SessionOrder
<1>4. SessionOrder'
  <2> SUFFICES ASSUME NEW c \in DOMAIN session', session[c].player \notin muddled,
                      NEW s \in DOMAIN save', save'[s].player = session[c].player
               PROVE  save'[s].data.version <= session[c].data.version
    BY DEF SessionOrder
  <2>1. CASE s \in DOMAIN save /\ save'[s] = save[s]
    BY <2>1 DEF SessionOrder
  <2>2. ASSUME NEW d \in DOMAIN session, save'[s].player = session[d].player,
               save'[s].data = session[d].data
        PROVE  save'[s].data.version <= session[c].data.version
    <3>1. d = c
      BY <2>2 DEF SessionOwned
    <3> QED
      BY <2>2, <3>1, Versions
  <2> QED
    BY <1>1, <2>1, <2>2
<1>5. EntryOrder'
  <2> SUFFICES ASSUME NEW t \in DOMAIN table', Owner[t] \notin muddled
               PROVE  /\ \A s \in DOMAIN save' : save'[s].player = Owner[t] =>
                           save'[s].data.version <= table[t].version
                      /\ stored[Owner[t]].version <= table[t].version
                      /\ \A c \in DOMAIN session' : session'[c].player = Owner[t] =>
                           session'[c].data.version <= table[t].version
    BY DEF EntryOrder
  <2>1. \A s \in DOMAIN save' : save'[s].player = Owner[t] =>
          save'[s].data.version <= table[t].version
    BY <1>1 DEF EntryOrder
  <2> QED
    BY <2>1 DEF EntryOrder
<1>6. FetchOrder'
  BY DEF FetchOrder
<1> QED
  BY <1>2, <1>3, <1>4, <1>5, <1>6

LEMMA StepKeptInv ==
  TypeOK /\ SessionOwned /\ AdmitInv /\ KeptInv /\ [Next]_vars => KeptInv'
<1> SUFFICES ASSUME TypeOK, SessionOwned, AdmitInv, KeptInv, [Next]_vars PROVE KeptInv'
  OBVIOUS
<1> USE DEF KeptInv
<1>1. ASSUME NEW h \in Handlers, NEW t \in Tokens, ReceiveRequest(h, t) PROVE KeptInv'
  <2>1. /\ h \notin DOMAIN work /\ DOMAIN work' = DOMAIN work \cup {h}
        /\ work'[h].token = t /\ work'[h].at = "mark" /\ work'[h].data.version = 0
        /\ \A k \in DOMAIN work : work'[k] = work[k]
    BY <1>1, ReceiveEffect DEF Kept
  <2>2. muddled \subseteq muddled' /\ UNCHANGED <<stored, table, session, save, newest>>
    BY <1>1, ReceiveEffect DEF ReceiveRequest
  <2>3. 0 <= newest[Owner[t]]
    BY Versions
  <2>4. Bounded'
    BY <2>1, <2>2, <2>3 DEF Bounded
  <2>5. SaveOrder' /\ SessionOrder' /\ EntryOrder'
    BY <2>2 DEF SaveOrder, SessionOrder, EntryOrder
  <2>6. FetchOrder'
    BY <2>1, <2>2 DEF FetchOrder
  <2> QED
    BY <2>4, <2>5, <2>6
<1>2. ASSUME NEW h \in Handlers, Mark(h) PROVE KeptInv'
  <2>1. /\ h \in DOMAIN work /\ DOMAIN work' = DOMAIN work /\ work'[h].at = "fetch"
        /\ work'[h].token = work[h].token /\ work'[h].data = work[h].data
        /\ \A k \in DOMAIN work \ {h} : work'[k] = work[k]
    BY <1>2, MarkEffect DEF Kept
  <2>2. UNCHANGED <<stored, table, session, save, newest, muddled>>
    BY <1>2 DEF Mark
  <2>3. Bounded' /\ FetchOrder'
    BY <2>1, <2>2 DEF Bounded, FetchOrder
  <2> QED
    BY <2>2, <2>3 DEF SaveOrder, SessionOrder, EntryOrder
<1>3. ASSUME NEW h \in Handlers, Fetch(h) PROVE KeptInv'
  <2>1. /\ h \in DOMAIN work /\ DOMAIN work' \subseteq DOMAIN work
        /\ \A k \in DOMAIN work' \ {h} : work'[k] = work[k]
        /\ h \in DOMAIN work' => /\ work'[h].token = work[h].token
                                 /\ work'[h].data = stored[Owner[work[h].token]]
    BY <1>3, FetchEffect DEF Kept
  <2>2. UNCHANGED <<stored, table, session, save, newest, muddled>>
    BY <1>3 DEF Fetch
  <2>3. /\ Owner[work[h].token] \in Players
        /\ stored[Owner[work[h].token]].version \in Nat
    BY <2>1, Versions
  <2>4. Bounded'
    BY <2>1, <2>2, <2>3 DEF Bounded
  <2>5. FetchOrder'
    BY <2>1, <2>2, <2>3 DEF FetchOrder
  <2> QED
    BY <2>2, <2>4, <2>5 DEF SaveOrder, SessionOrder, EntryOrder
<1>4. ASSUME NEW h \in Handlers, AddRemotePlayer(h) PROVE KeptInv'
  <2> DEFINE t0 == work[h].token
  <2>1. /\ h \in DOMAIN work /\ work[h].at = "add" /\ DOMAIN work' = DOMAIN work
        /\ work'[h].token = t0 /\ work'[h].at = "accept" /\ work'[h].data = work[h].data
        /\ \A k \in DOMAIN work \ {h} : work'[k] = work[k]
    BY <1>4, AddEffect DEF Kept
  <2>2. /\ DOMAIN table' = DOMAIN table \cup {t0} /\ table'[t0] = work[h].data
        /\ \A t \in DOMAIN table \ {t0} : table'[t] = table[t]
    BY <1>4, AddEffect DEF Kept
  <2>3. UNCHANGED <<stored, session, save, newest, muddled>>
    BY <1>4 DEF AddRemotePlayer
  <2>4. Owner[t0] \notin muddled =>
          /\ \A s \in DOMAIN save : save[s].player # Owner[t0]
          /\ \A c \in DOMAIN session : session[c].player # Owner[t0]
          /\ stored[Owner[t0]].version <= work[h].data.version
    BY <2>1 DEF AdmitInv, HandledAlone, Alone, FetchOrder
  <2>5. Bounded'
    BY <2>1, <2>2, <2>3 DEF Bounded
  <2>6. EntryOrder'
    BY <2>2, <2>3, <2>4 DEF EntryOrder
  <2>7. FetchOrder'
    BY <2>1, <2>3 DEF FetchOrder
  <2> QED
    BY <2>3, <2>5, <2>6, <2>7 DEF SaveOrder, SessionOrder
<1>5. ASSUME NEW h \in Handlers, Answer(h) PROVE KeptInv'
  <2>1. DOMAIN work' \subseteq DOMAIN work /\ \A k \in DOMAIN work' : work'[k] = work[k]
    BY <1>5, AnswerEffect DEF Kept
  <2>2. UNCHANGED <<stored, table, session, save, newest, muddled>>
    BY <1>5 DEF Answer
  <2> QED
    BY <2>1, <2>2 DEF Bounded, SaveOrder, SessionOrder, EntryOrder, FetchOrder
<1>6. ASSUME NEW c \in Clients, NEW p \in Players, NEW t \in Tokens, Connect(c, p, t)
      PROVE  KeptInv'
  <2>1. /\ c \notin DOMAIN session /\ DOMAIN session' = DOMAIN session \cup {c}
        /\ session'[c].player = p /\ session'[c].data = table[t]
        /\ \A d \in DOMAIN session : session'[d] = session[d]
    BY <1>6, ConnectEffect DEF Kept
  <2>2. t \in DOMAIN table /\ Owner[t] = p
    BY <1>6, ConnectEffect
  <2>3. UNCHANGED <<stored, work, table, save, newest, muddled>>
    BY <1>6 DEF Connect
  <2>4. Bounded'
    BY <2>1, <2>2, <2>3 DEF Bounded
  <2>5. SaveOrder' /\ FetchOrder'
    BY <2>3 DEF SaveOrder, FetchOrder
  <2>6. SessionOrder'
    BY <2>1, <2>2, <2>3 DEF SessionOrder, EntryOrder
  <2>7. \A u \in DOMAIN table : Owner[u] = p /\ p \notin muddled =>
          table[t].version <= table[u].version
    BY <2>2, Versions DEF AdmitInv, OneEntry
  <2>8. EntryOrder'
    BY <2>1, <2>2, <2>3, <2>7 DEF EntryOrder
  <2> QED
    BY <2>4, <2>5, <2>6, <2>8
<1>7. ASSUME NEW c \in Clients, ActivatePlayer(c) PROVE KeptInv'
  <2>1. /\ DOMAIN session' = DOMAIN session
        /\ \A d \in DOMAIN session' : /\ session'[d].player = session[d].player
                                      /\ session'[d].data = session[d].data
    BY <1>7, ActivateEffect DEF Kept
  <2>2. /\ SavesGrow /\ DOMAIN table' \subseteq DOMAIN table
        /\ \A t \in DOMAIN table' : table'[t] = table[t]
    BY <1>7, ActivateEffect DEF EntriesShrink, Kept
  <2> QED
    BY <1>7, <2>1, <2>2, LeaveKeptInv DEF ActivatePlayer
<1>8. ASSUME NEW c \in Clients, Play(c) PROVE KeptInv'
  <2> DEFINE q == session[c].player
  <2>1. /\ c \in DOMAIN session /\ session[c].active /\ DOMAIN session' = DOMAIN session
        /\ session'[c].player = q /\ session'[c].data.version = newest[q] + 1
        /\ \A d \in DOMAIN session \ {c} : session'[d] = session[d]
    BY <1>8, PlayEffect DEF Kept
  <2>2. newest'[q] = newest[q] + 1 /\ \A p \in Players : p # q => newest'[p] = newest[p]
    BY <1>8, PlayEffect
  <2>3. UNCHANGED <<stored, work, table, save, muddled>>
    BY <1>8 DEF Play
  <2>4. \A p \in Players : newest[p] <= newest'[p]
    BY <2>1, <2>2, Versions
  <2>5. Bounded'
    <3>1. \A d \in DOMAIN session' : session'[d].data.version <= newest'[session'[d].player]
      <4> SUFFICES ASSUME NEW d \in DOMAIN session'
                   PROVE  session'[d].data.version <= newest'[session'[d].player]
        OBVIOUS
      <4>1. CASE d = c
        BY <2>1, <2>2, <4>1, Versions
      <4>2. CASE d # c
        BY <2>1, <2>2, <4>2, Versions DEF SessionOwned, Bounded
      <4> QED
        BY <4>1, <4>2
    <3>2. \A p \in Players, v \in Nat : v <= newest[p] => v <= newest'[p]
      BY <2>1, <2>2, Versions
    <3> QED
      BY <2>3, <3>1, <3>2, Versions DEF Bounded
  <2>6. SaveOrder' /\ FetchOrder'
    BY <2>3 DEF SaveOrder, FetchOrder
  <2>7. /\ stored[q].version <= newest[q] + 1
        /\ \A s \in DOMAIN save : save[s].player = q => save[s].data.version <= newest[q] + 1
    BY <2>1, Versions DEF Bounded
  <2>8. SessionOrder'
    BY <2>1, <2>3, <2>7 DEF SessionOrder
  <2>9. EntryOrder'
    BY <2>1, <2>3 DEF EntryOrder, AdmitInv, Gone
  <2> QED
    BY <2>5, <2>6, <2>8, <2>9
<1>9. ASSUME NEW c \in Clients, NSEarlyWritePlayerPersistenceForLeave(c) PROVE KeptInv'
  <2>1. /\ DOMAIN session' = DOMAIN session
        /\ \A d \in DOMAIN session' : /\ session'[d].player = session[d].player
                                      /\ session'[d].data = session[d].data
    BY <1>9, EarlyEffect DEF Kept
  <2>2. SavesGrow /\ UNCHANGED <<stored, work, table, newest, muddled>>
    BY <1>9, EarlyEffect DEF NSEarlyWritePlayerPersistenceForLeave
  <2> QED
    BY <2>1, <2>2, LeaveKeptInv
<1>10. ASSUME NEW c \in Clients, Disconnect(c) PROVE KeptInv'
  <2>1. /\ DOMAIN session' \subseteq DOMAIN session
        /\ \A d \in DOMAIN session' : session'[d] = session[d]
    BY <1>10, DisconnectEffect DEF Kept
  <2>2. /\ SavesGrow /\ DOMAIN table' \subseteq DOMAIN table
        /\ \A t \in DOMAIN table' : table'[t] = table[t]
    BY <1>10, DisconnectEffect DEF EntriesShrink, Kept
  <2> QED
    BY <1>10, <2>1, <2>2, LeaveKeptInv DEF Disconnect
<1>11. ASSUME NEW c \in Clients, CloseConnection(c) PROVE KeptInv'
  <2>1. /\ DOMAIN session' \subseteq DOMAIN session
        /\ \A d \in DOMAIN session' : session'[d] = session[d]
    BY <1>11, CloseEffect DEF Kept
  <2>2. SavesGrow /\ UNCHANGED <<stored, work, table, newest, muddled>>
    BY <1>11 DEF CloseConnection, SavesGrow, Kept
  <2> QED
    BY <2>1, <2>2, LeaveKeptInv
<1>12. CASE HostLeaves
  <2>1. SavesGrow /\ UNCHANGED <<stored, work, table, session, newest, muddled>>
    BY <1>12, HostLeavesEffect DEF HostLeaves
  <2> QED
    BY <2>1, LeaveKeptInv
<1>13. ASSUME NEW s \in Savers, SaveEnds(s) PROVE KeptInv'
  <2> DEFINE q == save[s].player
  <2>1. /\ s \in DOMAIN save /\ DOMAIN save' = DOMAIN save \ {s} /\ muddled \subseteq muddled'
        /\ \A r \in DOMAIN save' : save'[r] = save[r]
    BY <1>13, SaveEndsEffect DEF Kept
  <2>2. UNCHANGED <<work, table, session, newest>>
    BY <1>13 DEF SaveEnds
  <2>3. CASE stored' = stored
    BY <2>1, <2>2, <2>3 DEF Bounded, SaveOrder, SessionOrder, EntryOrder, FetchOrder
  <2>4. CASE stored' # stored
    <3>1. stored'[q] = save[s].data /\ \A p \in Players \ {q} : stored'[p] = stored[p]
      BY <1>13, <2>4, SaveEndsEffect DEF Kept
    <3>2. q \notin muddled' => \A r \in DOMAIN save : save[r].player = q =>
                                 save[s].data.version <= save[r].data.version
      <4>1. q \notin muddled' => \A r \in DOMAIN save : save[r].player = q =>
                                   ~(save[r].data.version < save[s].data.version)
        BY <1>13, SaveEndsEffect
      <4> QED
        BY <2>1, <4>1, Versions
    <3>3. Bounded'
      BY <2>1, <2>2, <3>1 DEF Bounded
    <3>4. SaveOrder'
      BY <2>1, <3>1, <3>2, Versions DEF SaveOrder
    <3>5. SessionOrder'
      BY <2>1, <2>2, <3>1, Versions DEF SessionOrder
    <3>6. EntryOrder'
      BY <2>1, <2>2, <3>1, Versions DEF EntryOrder
    <3>7. FetchOrder'
      <4>1. \A h \in DOMAIN work : Owner[work[h].token] \notin muddled => Owner[work[h].token] # q
        BY <2>1 DEF AdmitInv, HandledAlone, Alone
      <4> QED
        BY <2>1, <2>2, <3>1, <4>1, Versions DEF FetchOrder
    <3> QED
      BY <3>3, <3>4, <3>5, <3>6, <3>7
  <2> QED
    BY <2>3, <2>4
<1>14. CASE UNCHANGED vars
  BY <1>14 DEF vars, Bounded, SaveOrder, SessionOrder, EntryOrder, FetchOrder
<1> QED
  BY <1>1, <1>2, <1>3, <1>4, <1>5, <1>6, <1>7, <1>8, <1>9, <1>10, <1>11, <1>12, <1>13, <1>14 DEF Next

(* Over any number of sessions the master server's copy of a player's data  *)
(* never goes back, as long as his sessions and saves do not overlap.       *)
THEOREM ProgressIsNeverLost == Spec => ProgressIsKept
<1> DEFINE Inv == TypeOK /\ OwnedInv /\ AdmitInv /\ KeptInv
           Forward == \A p \in Players : p \notin muddled' => stored'[p].version >= stored[p].version
<1>1. Init => Inv
  BY InitTypeOK, InitOwnedInv, InitAdmitInv, InitKeptInv
<1>2. Inv /\ [Next]_vars => Inv'
  BY StepTypeOK, StepOwnedInv, StepAdmitInv, StepKeptInv DEF OwnedInv
<1>3. Inv /\ [Next]_vars => [Forward]_vars
  <2> SUFFICES ASSUME Inv, Next PROVE Forward
    BY DEF vars
  <2>1. CASE stored' = stored
    BY <2>1, Versions
  <2>2. ASSUME NEW s \in Savers, SaveEnds(s) PROVE Forward
    <3> SUFFICES ASSUME NEW p \in Players, p \notin muddled'
                 PROVE  stored'[p].version >= stored[p].version
      OBVIOUS
    <3>1. s \in DOMAIN save /\ muddled \subseteq muddled'
      BY <2>2, SaveEndsEffect
    <3>2. \/ stored'[p] = stored[p]
          \/ p = save[s].player /\ stored'[p] = save[s].data
      <4>1. CASE stored' = stored
        BY <4>1
      <4>2. CASE stored' # stored
        <5>1. /\ stored'[save[s].player] = save[s].data
              /\ \A q \in Players \ {save[s].player} : stored'[q] = stored[q]
          BY <2>2, <4>2, SaveEndsEffect DEF Kept
        <5> QED
          BY <5>1
      <4> QED
        BY <4>1, <4>2
    <3>3. p = save[s].player => stored[p].version <= save[s].data.version
      BY <3>1 DEF KeptInv, SaveOrder
    <3> QED
      BY <3>1, <3>2, <3>3, Versions
  <2>3. CASE \E h \in Handlers : \/ \E t \in Tokens : ReceiveRequest(h, t)
                                 \/ Mark(h) \/ Fetch(h) \/ AddRemotePlayer(h) \/ Answer(h)
    BY <2>3, <2>1 DEF ReceiveRequest, Mark, Fetch, AddRemotePlayer, Answer
  <2>4. CASE HostLeaves \/ \E c \in Clients :
               \/ \E p \in Players, t \in Tokens : Connect(c, p, t)
               \/ ActivatePlayer(c) \/ Play(c) \/ NSEarlyWritePlayerPersistenceForLeave(c)
               \/ Disconnect(c) \/ CloseConnection(c)
    BY <2>4, <2>1 DEF HostLeaves, Connect, ActivatePlayer, Play,
         NSEarlyWritePlayerPersistenceForLeave, Disconnect, CloseConnection
  <2> QED
    BY <2>2, <2>3, <2>4 DEF Next
<1> QED
  BY <1>1, <1>2, <1>3, PTL DEF Spec, ProgressIsKept

=============================================================================
