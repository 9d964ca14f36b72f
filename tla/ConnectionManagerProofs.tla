------------------------ MODULE ConnectionManagerProofs ------------------------
(***************************************************************************)
(* Proofs about ConnectionManager for every set of servers and maps and    *)
(* any number of attempts and commands: the types, the two flags           *)
(* m_bAuthenticatingWithGameServer and m_bMapLoadAuthorized, and what      *)
(* an attempt that starts at rest may rely on.  CleanInv is the inductive  *)
(* invariant behind the last: while such an attempt is the latest,         *)
(* whatever is under way is its own (Own), the manager is what the program *)
(* point of its thread says (Phase), and the token presented and the mods  *)
(* downloaded are those it will join with (Presented).                     *)
(***************************************************************************)
EXTENDS ConnectionManager, SequenceTheorems, TLAPS

(* A connect to a server the player picked from the list names it, also    *)
(* when it is tried again.                                                 *)
RemoteNamed ==
  /\ \A a \in Attempts : thread[a].mode = "Remote" => thread[a].to \in Servers
  /\ "Remote" \in {cm.mode, cm.lastMode} => cm.lastServer \in Servers

TypeInv == TypeOK /\ RemoteNamed

-----------------------------------------------------------------------------
(* Sequences. *)

LEMMA AppendFacts ==
  ASSUME NEW S, NEW s \in Seq(S), NEW e \in S
  PROVE  /\ Append(s, e) \in Seq(S) /\ Append(s, e) # <<>>
         /\ DOMAIN Append(s, e) = (DOMAIN s) \cup {Len(s) + 1}
         /\ \A i \in DOMAIN s : Append(s, e)[i] = s[i]
         /\ Append(s, e)[Len(s) + 1] = e
         /\ \A i \in DOMAIN Append(s, e) : Append(s, e)[i] = e \/ \E j \in DOMAIN s : Append(s, e)[i] = s[j]
  OBVIOUS

LEMMA TailFacts ==
  ASSUME NEW S, NEW s \in Seq(S), s # <<>>
  PROVE  /\ Tail(s) \in Seq(S) /\ Head(s) \in S /\ Head(s) = s[1] /\ 1 \in DOMAIN s
         /\ \A i \in DOMAIN Tail(s) : \E j \in DOMAIN s : Tail(s)[i] = s[j]
         /\ \A i \in DOMAIN s : i # 1 => i - 1 \in DOMAIN Tail(s) /\ Tail(s)[i - 1] = s[i]
<1>1. /\ DOMAIN s = 1 .. Len(s) /\ Len(s) \in Nat
      /\ Head(s) \in S /\ Tail(s) \in Seq(S) /\ Len(Tail(s)) = Len(s) - 1
      /\ \A i \in 1 .. Len(Tail(s)) : Tail(s)[i] = s[i + 1]
  BY LenProperties, HeadTailProperties
<1>2. DOMAIN Tail(s) = 1 .. Len(s) - 1
  BY <1>1, LenProperties
<1>3. Head(s) = s[1] /\ 1 \in DOMAIN s
  OBVIOUS
<1>4. ASSUME NEW i \in DOMAIN Tail(s) PROVE i + 1 \in DOMAIN s /\ Tail(s)[i] = s[i + 1]
  BY <1>1, <1>2, <1>4
<1>5. ASSUME NEW i \in DOMAIN s, i # 1 PROVE i - 1 \in DOMAIN Tail(s) /\ Tail(s)[i - 1] = s[i]
  <2>1. i - 1 \in DOMAIN Tail(s) /\ (i - 1) + 1 = i
    BY <1>1, <1>2, <1>5
  <2> QED
    BY <1>1, <1>2, <2>1
<1> QED
  BY <1>1, <1>3, <1>4, <1>5

-----------------------------------------------------------------------------
(* The fields of the manager. *)

LEMMA ResetFacts ==
  ASSUME NEW c \in Fields
  PROVE  LET r == ResetState(c)
         IN  /\ r \in Fields
             /\ ~r.connecting /\ ~r.authorized /\ r.accept = "NOT_DECIDED"
             /\ r.mode = c.mode /\ r.lastMode = c.lastMode /\ r.lastServer = c.lastServer
  BY DEF Fields, ResetState, Choices

LEMMA InterruptFacts ==
  ASSUME cm \in Fields, cbuf \in Seq(Commands), Interrupt
  PROVE  /\ cm' \in Fields
         /\ ~cm'.connecting /\ ~cm'.authorized /\ cm'.accept = "NOT_DECIDED"
         /\ cm'.mode = cm.lastMode /\ cm'.lastMode = cm.lastMode /\ cm'.lastServer = cm.lastServer
         /\ cbuf' \in Seq(Commands)
         /\ cbuf' = cbuf \/ cbuf' = Append(cbuf, Command("disconnect", "none", 0))
<1>1. Command("disconnect", "none", 0) \in Commands
  BY ConstantsAssumption DEF Command, Commands
<1>2. cm' \in Fields /\ cm'.mode = cm.lastMode /\ cm'.lastMode = cm.lastMode
      /\ ~cm'.connecting /\ ~cm'.authorized /\ cm'.accept = "NOT_DECIDED" /\ cm'.lastServer = cm.lastServer
  BY DEF Interrupt, ResetState, Fields, Choices
<1> QED
  BY <1>1, <1>2, AppendFacts DEF Interrupt

LEMMA JoinLocalFacts ==
  ASSUME NEW c \in Fields, NEW q \in Seq(Commands), JoinLocal(c, q)
  PROVE  /\ cm' \in Fields /\ cbuf' \in Seq(Commands)
         /\ cm'.connecting = c.connecting /\ cm'.accept = c.accept
         /\ cm'.downloadedMods = c.downloadedMods /\ cm'.authSuccessful = c.authSuccessful
         /\ cm'.mode = c.mode /\ cm'.lastMode = c.lastMode /\ cm'.lastServer = c.lastServer
         /\ \/ /\ cbuf' = Append(q, Command("retry", "none", 0))
               /\ cm'.map = c.map /\ cm'.authorized = c.authorized
            \/ /\ cbuf' = Append(q, Command("map", cm'.map, 0)) /\ cm'.map \in Maps /\ cm'.authorized
<1>1. CASE c.retrying
  <2>1. Command("retry", "none", 0) \in Commands
    BY ConstantsAssumption DEF Command, Commands
  <2>2. cm' = [c EXCEPT !.retrying = FALSE] /\ cbuf' = Append(q, Command("retry", "none", 0))
    BY <1>1 DEF JoinLocal
  <2> QED
    BY <2>1, <2>2, AppendFacts DEF Fields
<1>2. CASE ~c.retrying
  <2>1. PICK m : m = IF c.map = "none" THEN Lobby ELSE c.map
    OBVIOUS
  <2>2. m \in Maps /\ m \in Maps \cup {"none"}
    BY <2>1, ConstantsAssumption DEF Fields
  <2>3. Command("map", m, 0) \in Commands
    BY <2>2, ConstantsAssumption DEF Command, Commands
  <2>4. cm' = [c EXCEPT !.map = m, !.authorized = TRUE] /\ cbuf' = Append(q, Command("map", m, 0))
    BY <1>2, <2>1 DEF JoinLocal
  <2>5. cm' \in Fields /\ cm'.map = m /\ cm'.authorized
    BY <2>2, <2>4 DEF Fields
  <2>6. /\ cm'.connecting = c.connecting /\ cm'.accept = c.accept
        /\ cm'.downloadedMods = c.downloadedMods /\ cm'.authSuccessful = c.authSuccessful
        /\ cm'.mode = c.mode /\ cm'.lastMode = c.lastMode /\ cm'.lastServer = c.lastServer
    BY <2>4 DEF Fields
  <2> QED
    BY <2>2, <2>3, <2>4, <2>5, <2>6, AppendFacts
<1> QED
  BY <1>1, <1>2

LEMMA FinaliseFacts ==
  ASSUME cm \in Fields, cbuf \in Seq(Commands), thread \in [Attempts -> ThreadFields],
         NEW a \in Attempts, FinaliseJoiningServer(a)
  PROVE  /\ cm' \in Fields /\ cbuf' \in Seq(Commands)
         /\ cm'.connecting = cm.connecting /\ cm'.accept = cm.accept
         /\ cm'.downloadedMods = cm.downloadedMods /\ cm'.authSuccessful = cm.authSuccessful
         /\ cm'.mode = cm.mode /\ cm'.lastMode = cm.lastMode /\ cm'.lastServer = cm.lastServer
         /\ cm'.map = cm.map /\ cm'.authorized = cm.authorized
         /\ \/ cbuf' = Append(cbuf, Command("retry", "none", a))
            \/ cbuf' = Append(cbuf, Command("connect", thread[a].addr, a))
<1>1. a \in 0 .. MaxAttempts /\ thread[a].addr \in Places
  BY ConstantsAssumption DEF Attempts, ThreadFields
<1>2. Command("retry", "none", a) \in Commands /\ Command("connect", thread[a].addr, a) \in Commands
  BY <1>1 DEF Command, Commands
<1>3. /\ cm' \in Fields /\ cm'.connecting = cm.connecting /\ cm'.accept = cm.accept
      /\ cm'.downloadedMods = cm.downloadedMods /\ cm'.authSuccessful = cm.authSuccessful
      /\ cm'.mode = cm.mode /\ cm'.lastMode = cm.lastMode /\ cm'.lastServer = cm.lastServer
      /\ cm'.map = cm.map /\ cm'.authorized = cm.authorized
  BY DEF FinaliseJoiningServer, Fields
<1>4. \/ cbuf' = Append(cbuf, Command("retry", "none", a))
      \/ cbuf' = Append(cbuf, Command("connect", thread[a].addr, a))
  BY DEF FinaliseJoiningServer
<1>5. cbuf' \in Seq(Commands)
  BY <1>2, <1>4, AppendFacts
<1> QED
  BY <1>3, <1>4, <1>5

LEMMA ToFacts ==
  ASSUME thread \in [Attempts -> ThreadFields], NEW a \in Attempts, NEW p \in Points, To(a, p)
  PROVE  /\ thread' \in [Attempts -> ThreadFields]
         /\ thread'[a].pc = p
         /\ \A b \in Attempts :
              /\ thread'[b].mode = thread[b].mode /\ thread'[b].to = thread[b].to /\ thread'[b].addr = thread[b].addr
              /\ b # a => thread'[b] = thread[b]
  BY DEF To, ThreadFields

(* A new attempt starts with fresh fields. *)
LEMMA ConnectFacts ==
  ASSUME TypeInv, NEW mode \in Modes, NEW to \in Places, NEW map \in Maps \cup {"none"},
         NEW commands \in Seq(Commands), mode = "Remote" => to \in Servers,
         Connect(mode, to, map, commands)
  PROVE  LET a == current + 1
         IN  /\ a \in Attempts /\ current' = a /\ ~cm.connecting
             /\ clean' = IF AtRest(commands) THEN clean \cup {a} ELSE clean
             /\ UNCHANGED <<consent, unloaded>>
             /\ cm' \in Fields /\ cbuf' \in Seq(Commands) /\ thread' \in [Attempts -> ThreadFields]
             /\ thread'[a].mode = mode /\ thread'[a].to = to /\ thread'[a].addr = to
             /\ thread'[a].pc \in {"agreed", "over"}
             /\ \A b \in Attempts : b # a => thread'[b] = thread[b]
             /\ cm'.connecting /\ cm'.mode = mode /\ cm'.accept = "NOT_DECIDED"
             /\ cm'.lastMode = cm.mode
             /\ cm'.lastServer = IF mode = "Remote" THEN to ELSE cm.lastServer
             /\ \/ cbuf' = commands /\ ~cm'.authorized
                \/ /\ thread'[a].pc = "over" /\ mode = "Local" /\ cm'.authSuccessful
                   /\ \/ cbuf' = Append(commands, Command("retry", "none", 0)) /\ ~cm'.authorized
                      \/ cbuf' = Append(commands, Command("map", cm'.map, 0))
<1> DEFINE a == current + 1
           Begun(p) == [ResetState(cm) EXCEPT
             !.connecting = TRUE, !.mode = mode, !.lastMode = cm.mode, !.map = map, !.plaque = p,
             !.lastServer = IF mode = "Remote" THEN to ELSE @]
           Started(pc) == [pc |-> pc, mode |-> mode, to |-> to, addr |-> to]
<1>1. /\ a \in Attempts /\ current' = a /\ ~cm.connecting
      /\ clean' = IF AtRest(commands) THEN clean \cup {a} ELSE clean
      /\ UNCHANGED <<consent, unloaded>>
  BY DEF Connect
<1>2. PICK p \in BOOLEAN :
        \/ cm' = Begun(p) /\ cbuf' = commands /\ thread' = [thread EXCEPT ![a] = Started("agreed")]
        \/ /\ mode = "Local" /\ JoinLocal([Begun(p) EXCEPT !.authSuccessful = TRUE], commands)
           /\ thread' = [thread EXCEPT ![a] = Started("over")]
  BY DEF Connect
<1>3. cm \in Fields /\ thread \in [Attempts -> ThreadFields]
  BY DEF TypeInv, TypeOK
<1>4. PICK server1 \in Servers \cup {"none"} : server1 = IF mode = "Remote" THEN to ELSE cm.lastServer
  BY <1>3 DEF Fields
<1>5. PICK r \in Fields :
        r = ResetState(cm) /\ r.lastServer = cm.lastServer /\ ~r.authorized /\ r.accept = "NOT_DECIDED"
  BY <1>3, ResetFacts
<1>6. Begun(p) = [r EXCEPT !.connecting = TRUE, !.mode = mode, !.lastMode = cm.mode, !.map = map,
                           !.plaque = p, !.lastServer = server1]
  <2>1. server1 = IF mode = "Remote" THEN to ELSE r.lastServer
    BY <1>4, <1>5
  <2> QED
    BY <1>5, <2>1
<1> HIDE DEF Begun
<1>7. PICK f \in Fields :
        /\ f = Begun(p)
        /\ f.connecting /\ f.mode = mode /\ f.accept = "NOT_DECIDED" /\ f.lastMode = cm.mode
        /\ f.lastServer = server1 /\ ~f.authorized
  <2>1. PICK old \in Modes : old = cm.mode
    BY <1>3 DEF Fields
  <2>2. PICK f : f = [r EXCEPT !.connecting = TRUE, !.mode = mode, !.lastMode = old, !.map = map,
                               !.plaque = p, !.lastServer = server1]
    OBVIOUS
  <2>3. f \in Fields
    BY <2>2 DEF Fields
  <2>4. f.connecting /\ f.mode = mode /\ f.accept = "NOT_DECIDED" /\ f.lastMode = old
        /\ f.lastServer = server1 /\ ~f.authorized
    BY <1>5, <2>2 DEF Fields
  <2> QED
    BY <1>6, <2>1, <2>2, <2>3, <2>4
<1>8. PICK g \in Fields :
        /\ g = [f EXCEPT !.authSuccessful = TRUE]
        /\ g.connecting /\ g.mode = mode /\ g.accept = "NOT_DECIDED" /\ g.lastMode = cm.mode
        /\ g.lastServer = server1 /\ ~g.authorized /\ g.authSuccessful
  <2>1. PICK g : g = [f EXCEPT !.authSuccessful = TRUE]
    OBVIOUS
  <2>2. g \in Fields
    BY <2>1 DEF Fields
  <2>3. g.connecting /\ g.mode = mode /\ g.accept = "NOT_DECIDED" /\ g.lastMode = cm.mode
        /\ g.lastServer = server1 /\ ~g.authorized /\ g.authSuccessful
    BY <1>7, <2>1 DEF Fields
  <2> QED
    BY <2>1, <2>2, <2>3
<1>9. ASSUME NEW pc \in {"agreed", "over"}, thread' = [thread EXCEPT ![a] = Started(pc)]
      PROVE  /\ thread' \in [Attempts -> ThreadFields]
             /\ thread'[a].mode = mode /\ thread'[a].to = to /\ thread'[a].addr = to
             /\ thread'[a].pc = pc
             /\ \A b \in Attempts : b # a => thread'[b] = thread[b]
  <2>1. Started(pc) \in ThreadFields
    BY DEF ThreadFields, Points
  <2> QED
    BY <1>1, <1>3, <1>9, <2>1
<1> HIDE DEF Begun, Started, a
<1>10. CASE cm' = Begun(p) /\ cbuf' = commands /\ thread' = [thread EXCEPT ![a] = Started("agreed")]
  BY <1>1, <1>4, <1>7, <1>9, <1>10 DEF a
<1>11. CASE /\ mode = "Local" /\ JoinLocal([Begun(p) EXCEPT !.authSuccessful = TRUE], commands)
            /\ thread' = [thread EXCEPT ![a] = Started("over")]
  <2>1. JoinLocal(g, commands)
    BY <1>7, <1>8, <1>11
  <2>2. /\ cm' \in Fields /\ cbuf' \in Seq(Commands)
        /\ cm'.connecting = g.connecting /\ cm'.accept = g.accept /\ cm'.authSuccessful = g.authSuccessful
        /\ cm'.mode = g.mode /\ cm'.lastMode = g.lastMode /\ cm'.lastServer = g.lastServer
        /\ \/ cbuf' = Append(commands, Command("retry", "none", 0)) /\ cm'.authorized = g.authorized
           \/ cbuf' = Append(commands, Command("map", cm'.map, 0))
    BY <2>1, JoinLocalFacts
  <2> QED
    BY <1>1, <1>4, <1>8, <1>9, <1>11, <2>2 DEF a
<1> QED
  BY <1>2, <1>10, <1>11

-----------------------------------------------------------------------------
(* Where a thread goes on to without touching anything, and where it        *)
(* interrupts the attempt.                                                 *)
MayGoOn(a, p) ==
  \/ p = "over" /\ ~cm.connecting
  \/ thread[a].pc \in {"origin", "origin!"} /\ cm.connecting /\ p = Authenticated(a)
  \/ <<thread[a].pc, p>> \in {<<"agreed", "origin">>, <<"list", "auth">>, <<"mods", "reload">>, <<"mods", "prompt">>, <<"poll", "reload">>}
  \/ thread[a].pc = "auth" /\ p = IF ms.authenticating THEN "authWait" ELSE "request"
  \/ thread[a].pc = "prepare" /\ thread[a].mode = "Remote" /\ p \in {"mods", "join"}
  \/ thread[a].pc = "prepare" /\ thread[a].mode # "Remote" /\ p \in {"askMods", "ask"}
  \/ ms.notified /\ <<thread[a].pc, p>> \in {<<"answer", "join">>, <<"answerMods", "mods">>}
  \/ thread[a].pc = "consent" /\ cm.accept \in {"ACCEPTED", "SKIP_OPTIONAL"} /\ p = "download"
  \/ /\ cm.connecting
     /\ <<thread[a].pc, p>> \in {<<"answer!", "join">>, <<"answerMods!", "mods">>, <<"mods!", "reload">>,
                                 <<"download!", "download">>, <<"final", "finalise">>}

Interrupts ==
  {<<"agreed", "origin!">>, <<"origin", "origin!">>, <<"list", "over">>, <<"authWait", "over">>,
   <<"answer", "answer!">>, <<"answerMods", "answerMods!">>, <<"mods", "mods!">>, <<"prompt", "mods!">>, <<"consent", "download!">>,
   <<"download", "download!">>, <<"download", "mods!">>, <<"poll", "mods!">>}

LEMMA WaitsFacts ==
  ASSUME TypeInv, NEW a \in Attempts, ThreadWaits(a)
  PROVE  /\ thread[a].pc # "over"
         /\ \E p \in Points :
              \/ MayGoOn(a, p) /\ GoOn(a, p)
              \/ <<thread[a].pc, p>> \in Interrupts /\ InterruptAnd(a, p)
<1>1. CASE ReturnIfCancelled(a)
  BY <1>1 DEF ReturnIfCancelled, MayGoOn, IsCancelled, At, Points
<1>2. CASE CheckAgreed(a) \/ AuthenticateToMasterServer(a)
  BY <1>2 DEF CheckAgreed, AuthenticateToMasterServer, MayGoOn, Interrupts, IsCancelled, At, Points, Authenticated
<1>3. CASE RequestServerList(a) \/ TestAuthenticating(a) \/ AuthenticationFailed(a)
  BY <1>3 DEF RequestServerList, TestAuthenticating, AuthenticationFailed, MayGoOn, Interrupts, IsCancelled, At, Points
<1>4. CASE PrepareServerModsAndConnect(a)
  BY <1>4 DEF PrepareServerModsAndConnect, MayGoOn, At, Points
<1>5. CASE AwaitNotify(a)
  BY <1>5 DEF AwaitNotify, MayGoOn, Interrupts, IsCancelled, At, Points, Authenticated
<1>6. CASE CheckRequiredMods(a) \/ CannotConfirm(a) \/ AwaitDownload(a)
  BY <1>6 DEF CheckRequiredMods, CannotConfirm, AwaitDownload, MayGoOn, Interrupts, IsCancelled, At, Points
<1>7. CASE AwaitConsent(a) \/ CannotDownload(a)
  BY <1>7 DEF AwaitConsent, CannotDownload, MayGoOn, Interrupts, IsCancelled, At, Points
<1>8. CASE PastInterrupt(a) \/ PrepareLocal(a)
  BY <1>8 DEF PastInterrupt, PrepareLocal, MayGoOn, IsCancelled, At, Points
<1> QED
  BY <1>1, <1>2, <1>3, <1>4, <1>5, <1>6, <1>7, <1>8 DEF ThreadWaits

-----------------------------------------------------------------------------
(* Types. *)

LEMMA InitType == Init => TypeInv
<1> SUFFICES ASSUME Init PROVE TypeInv
  OBVIOUS
<1>1. cm \in Fields /\ ms \in MasterFields /\ thread \in [Attempts -> ThreadFields]
  <2>1. cm \in Fields
    BY DEF Init, Fields, Choices, Modes
  <2>2. ms \in MasterFields
    BY DEF Init, MasterFields
  <2>3. [pc |-> "over", mode |-> "Direct", to |-> "none", addr |-> "none"] \in ThreadFields
    BY DEF ThreadFields, Modes, Places, Points
  <2> QED
    BY <2>1, <2>2, <2>3 DEF Init
<1>2. cbuf \in Seq(Commands) /\ tasks \in Seq([by : Attempts, reload : BOOLEAN])
  BY DEF Init
<1>3. /\ \A a \in Attempts : thread[a].mode = "Direct"
      /\ cm.mode = "Direct" /\ cm.lastMode = "Direct"
  BY DEF Init
<1>4. /\ request = {} /\ asked = {} /\ filter = "none" /\ main = 0 /\ dialog = 0 /\ current = 0
      /\ joining = "none" /\ lastAddress = "none" /\ server = FALSE /\ typed = 0
      /\ clean = {} /\ consent = {} /\ unloaded = {}
  BY DEF Init
<1>5. 0 \in 0 .. MaxAttempts /\ 0 \in 0 .. MaxTyped /\ "none" \in Places
  BY ConstantsAssumption DEF Places
<1>6. TypeOK
  BY <1>1, <1>2, <1>4, <1>5 DEF TypeOK
<1> QED
  BY <1>3, <1>6 DEF TypeInv, RemoteNamed

LEMMA WaitsType ==
  ASSUME TypeInv, NEW a \in Attempts, ThreadWaits(a) PROVE TypeInv'
<1>1. PICK p \in Points : GoOn(a, p) \/ InterruptAnd(a, p)
  BY WaitsFacts
<1>2. To(a, p) /\ UNCHANGED <<threadOnly, unloaded>>
  BY <1>1 DEF GoOn, InterruptAnd
<1>3. thread' \in [Attempts -> ThreadFields]
      /\ \A b \in Attempts : thread'[b].mode = thread[b].mode /\ thread'[b].to = thread[b].to
  BY <1>2, ToFacts DEF TypeInv, TypeOK
<1>4. CASE UNCHANGED <<cm, cbuf>>
  BY <1>2, <1>3, <1>4 DEF threadOnly, external, TypeInv, TypeOK, RemoteNamed
<1>5. CASE Interrupt
  BY <1>2, <1>3, <1>5, InterruptFacts DEF threadOnly, external, TypeInv, TypeOK, RemoteNamed
<1> QED
  BY <1>1, <1>4, <1>5 DEF GoOn, InterruptAnd

LEMMA ActsType ==
  ASSUME TypeInv, NEW a \in Attempts, ThreadActs(a) PROVE TypeInv'
<1>0. /\ cm \in Fields /\ ms \in MasterFields /\ thread \in [Attempts -> ThreadFields]
      /\ cbuf \in Seq(Commands) /\ a \in 0 .. MaxAttempts
  BY ConstantsAssumption DEF TypeInv, TypeOK, Attempts
<1>1. CASE StartOriginAuth(a)
  <2>1. ms' \in MasterFields
    BY <1>0, <1>1 DEF StartOriginAuth, MasterFields
  <2> QED
    BY <1>1, <2>1 DEF StartOriginAuth, external, history, TypeInv, TypeOK, RemoteNamed
<1>2. CASE SendAuthentication(a)
  <2>1. ms' \in MasterFields
    BY <1>0, <1>2 DEF SendAuthentication, MasterFields
  <2>2. thread' \in [Attempts -> ThreadFields]
        /\ \A b \in Attempts : thread'[b].mode = thread[b].mode /\ thread'[b].to = thread[b].to
    BY <1>0, <1>2, ToFacts DEF SendAuthentication, Points
  <2> QED
    BY <1>2, <2>1, <2>2 DEF SendAuthentication, external, history, TypeInv, TypeOK, RemoteNamed
<1>3. CASE UseAuthentication(a)
  <2>1. /\ cm' \in Fields /\ cm'.mode = cm.mode /\ cm'.lastMode = cm.lastMode /\ cm'.lastServer = cm.lastServer
    BY <1>0, <1>3 DEF UseAuthentication, Fields
  <2>2. ms.pending \in Places /\ "own" \in Places
    BY <1>0 DEF MasterFields, Places
  <2>3. CASE thread' = [thread EXCEPT ![a].pc = "prepare", ![a].addr = ms.pending]
    <3>1. thread' \in [Attempts -> ThreadFields]
          /\ \A b \in Attempts : thread'[b].mode = thread[b].mode /\ thread'[b].to = thread[b].to
      <4> DEFINE joined == [thread[a] EXCEPT !.pc = "prepare", !.addr = ms.pending]
      <4>1. joined \in ThreadFields /\ joined.mode = thread[a].mode /\ joined.to = thread[a].to
        BY <1>0, <2>2 DEF ThreadFields, Points
      <4>2. thread' = [thread EXCEPT ![a] = joined]
        BY <2>3
      <4> QED
        BY <1>0, <4>1, <4>2
    <3> QED
      BY <1>3, <2>1, <2>2, <3>1 DEF UseAuthentication, external, history, TypeInv, TypeOK, RemoteNamed
  <2>4. CASE To(a, "final")
    <3>1. thread' \in [Attempts -> ThreadFields]
          /\ \A b \in Attempts : thread'[b].mode = thread[b].mode /\ thread'[b].to = thread[b].to
      BY <1>0, <2>4, ToFacts DEF Points
    <3> QED
      BY <1>3, <2>1, <2>2, <3>1 DEF UseAuthentication, external, history, TypeInv, TypeOK, RemoteNamed
  <2> QED
    BY <1>3, <2>3, <2>4 DEF UseAuthentication
<1>4. CASE SendInfoRequestPacket(a)
  <2>1. ms' \in MasterFields
    BY <1>0, <1>4 DEF SendInfoRequestPacket, MasterFields
  <2>2. PICK p \in {"answer", "answerMods"} : To(a, p)
    BY <1>4 DEF SendInfoRequestPacket
  <2>3. thread' \in [Attempts -> ThreadFields]
        /\ \A b \in Attempts : thread'[b].mode = thread[b].mode /\ thread'[b].to = thread[b].to
    BY <1>0, <2>2, ToFacts DEF Points
  <2> QED
    BY <1>4, <2>1, <2>3 DEF SendInfoRequestPacket, external, history, TypeInv, TypeOK, RemoteNamed
<1>5. CASE NotifyConfirmDownloadMods(a)
  <2>1. thread' \in [Attempts -> ThreadFields]
        /\ \A b \in Attempts : thread'[b].mode = thread[b].mode /\ thread'[b].to = thread[b].to
    BY <1>0, <1>5, ToFacts DEF NotifyConfirmDownloadMods, Points
  <2> QED
    BY <1>0, <1>5, <2>1 DEF NotifyConfirmDownloadMods, external, history, TypeInv, TypeOK, RemoteNamed
<1>6. CASE DownloadMods(a)
  <2>1. thread' \in [Attempts -> ThreadFields]
        /\ \A b \in Attempts : thread'[b].mode = thread[b].mode /\ thread'[b].to = thread[b].to
    BY <1>0, <1>6, ToFacts DEF DownloadMods, Points
  <2>2. /\ cm' \in Fields /\ cm'.mode = cm.mode /\ cm'.lastMode = cm.lastMode /\ cm'.lastServer = cm.lastServer
    BY <1>0, <1>6 DEF DownloadMods, Fields
  <2> QED
    BY <1>6, <2>1, <2>2 DEF DownloadMods, threadOnly, external, TypeInv, TypeOK, RemoteNamed
<1>7. CASE ReloadModsAndConnect(a)
  <2>1. thread' \in [Attempts -> ThreadFields]
        /\ \A b \in Attempts : thread'[b].mode = thread[b].mode /\ thread'[b].to = thread[b].to
    BY <1>0, <1>7, ToFacts DEF ReloadModsAndConnect, Points
  <2>2. ReloadTask(a) \in [by : Attempts, reload : BOOLEAN]
    BY <1>0 DEF ReloadTask, Fields
  <2>3. tasks' \in Seq([by : Attempts, reload : BOOLEAN])
    BY <1>7, <2>2, AppendFacts DEF ReloadModsAndConnect, TypeInv, TypeOK
  <2> QED
    BY <1>7, <2>1, <2>3 DEF ReloadModsAndConnect, external, history, TypeInv, TypeOK, RemoteNamed
<1>8. CASE JoinFromThread(a)
  <2>1. thread' \in [Attempts -> ThreadFields]
        /\ \A b \in Attempts : thread'[b].mode = thread[b].mode /\ thread'[b].to = thread[b].to
    BY <1>0, <1>8, ToFacts DEF JoinFromThread, Points
  <2> QED
    BY <1>0, <1>8, <2>1, FinaliseFacts DEF JoinFromThread, threadOnly, external, TypeInv, TypeOK, RemoteNamed
<1>9. CASE FinaliseJoiningLocalServer(a)
  <2>1. thread' \in [Attempts -> ThreadFields]
        /\ \A b \in Attempts : thread'[b].mode = thread[b].mode /\ thread'[b].to = thread[b].to
    BY <1>0, <1>9, ToFacts DEF FinaliseJoiningLocalServer, Points
  <2> QED
    BY <1>0, <1>9, <2>1, JoinLocalFacts
       DEF FinaliseJoiningLocalServer, threadOnly, external, TypeInv, TypeOK, RemoteNamed
<1> QED
  BY <1>1, <1>2, <1>3, <1>4, <1>5, <1>6, <1>7, <1>8, <1>9 DEF ThreadActs

LEMMA IncomingType ==
  ASSUME TypeInv,
         \/ OriginAuthDone \/ \E a \in Attempts : AuthResult(a)
         \/ \E s \in Servers : NotifyArrives(s)
  PROVE  TypeInv'
<1>0. ms \in MasterFields /\ thread \in [Attempts -> ThreadFields]
  BY DEF TypeInv, TypeOK
<1>1. CASE OriginAuthDone
  <2>1. ms' \in MasterFields
    BY <1>0, <1>1 DEF OriginAuthDone, MasterFields
  <2> QED
    BY <1>1, <2>1 DEF OriginAuthDone, external, history, TypeInv, TypeOK, RemoteNamed
<1>2. ASSUME NEW a \in Attempts, AuthResult(a) PROVE TypeInv'
  <2>1. thread[a].mode = "Remote" => thread[a].to \in Servers \cup {"nowhere"}
    BY DEF TypeInv, RemoteNamed
  <2>2. PICK to \in Servers \cup {"nowhere"} : to = IF thread[a].mode = "Remote" THEN thread[a].to ELSE ms.pending
    BY <1>0, <2>1 DEF MasterFields
  <2>3. AuthSucceeded(a) = [ms EXCEPT !.authenticating = FALSE, !.success = TRUE, !.pending = to]
    BY <2>2 DEF AuthSucceeded
  <2>4. AuthSucceeded(a) \in MasterFields
    BY <1>0, <2>3 DEF MasterFields
  <2>5. AuthFailed \subseteq MasterFields
    BY <1>0 DEF AuthFailed, MasterFields
  <2>6. ms' \in MasterFields
    BY <1>2, <2>4, <2>5 DEF AuthResult
  <2> QED
    BY <1>2, <2>6 DEF AuthResult, external, history, TypeInv, TypeOK, RemoteNamed
<1>3. ASSUME NEW s \in Servers, NotifyArrives(s) PROVE TypeInv'
  <2>1. ms' \in MasterFields /\ s \in Places
    BY <1>0, <1>3 DEF NotifyArrives, MasterFields, Places
  <2> QED
    BY <1>3, <2>1 DEF NotifyArrives, external, history, TypeInv, TypeOK, RemoteNamed
<1> QED
  BY <1>1, <1>2, <1>3

LEMMA TasksType ==
  ASSUME TypeInv, RunTask \/ FinishTask PROVE TypeInv'
<1>0. /\ cm \in Fields /\ thread \in [Attempts -> ThreadFields] /\ cbuf \in Seq(Commands)
      /\ tasks \in Seq([by : Attempts, reload : BOOLEAN])
  BY DEF TypeInv, TypeOK
<1>1. Attempts \subseteq 0 .. MaxAttempts /\ 0 \in 0 .. MaxAttempts
  BY ConstantsAssumption DEF Attempts
<1>2. CASE RunTask
  <2>1. tasks # <<>> /\ tasks' = Tail(tasks)
    BY <1>2 DEF RunTask
  <2>2. tasks' \in Seq([by : Attempts, reload : BOOLEAN]) /\ Head(tasks) \in [by : Attempts, reload : BOOLEAN]
    BY <1>0, <2>1, TailFacts
  <2>3. Head(tasks).by \in Attempts
    BY <2>2
  <2>4. CASE FinaliseJoiningServer(Head(tasks).by) /\ UNCHANGED <<main, unloaded>>
    BY <1>0, <1>2, <2>2, <2>3, <2>4, FinaliseFacts DEF RunTask, taskOnly, external, TypeInv, TypeOK, RemoteNamed
  <2>5. CASE UNCHANGED <<cm, cbuf>> /\ main' \in {main, Head(tasks).by} /\ unloaded' \in {unloaded, {}}
    BY <1>1, <1>2, <2>2, <2>3, <2>5 DEF RunTask, taskOnly, external, TypeInv, TypeOK, RemoteNamed
  <2> QED
    BY <1>2, <2>4, <2>5 DEF RunTask
<1>3. CASE FinishTask
  <2>1. main \in Attempts /\ main' = 0
    BY <1>3, ConstantsAssumption DEF FinishTask, TypeInv, TypeOK, Attempts
  <2>2. CASE FinaliseJoiningServer(main)
    BY <1>0, <1>1, <1>3, <2>1, <2>2, FinaliseFacts DEF FinishTask, taskOnly, external, TypeInv, TypeOK, RemoteNamed
  <2>3. CASE UNCHANGED <<cm, cbuf>>
    BY <1>1, <1>3, <2>1, <2>3 DEF FinishTask, taskOnly, external, TypeInv, TypeOK, RemoteNamed
  <2> QED
    BY <1>3, <2>2, <2>3 DEF FinishTask
<1> QED
  BY <1>2, <1>3

(* Connect, called by a command or by the UI script. *)
LEMMA ConnectType ==
  ASSUME TypeInv, NEW mode \in Modes, NEW to \in Places, NEW map \in Maps \cup {"none"},
         NEW commands \in Seq(Commands), mode = "Remote" => to \in Servers,
         Connect(mode, to, map, commands), UNCHANGED <<ms, request, asked, filter, tasks, main, external, dialog>>,
         typed' \in 0 .. MaxTyped
  PROVE  TypeInv'
<1>1. LET a == current + 1
      IN  /\ a \in Attempts /\ current' = a
          /\ clean' \subseteq clean \cup {a} /\ UNCHANGED <<consent, unloaded>>
          /\ cm' \in Fields /\ cbuf' \in Seq(Commands) /\ thread' \in [Attempts -> ThreadFields]
          /\ thread'[a].mode = mode /\ thread'[a].to = to
          /\ \A b \in Attempts : b # a => thread'[b] = thread[b]
          /\ cm'.mode = mode /\ cm'.lastMode = cm.mode
          /\ cm'.lastServer = IF mode = "Remote" THEN to ELSE cm.lastServer
  BY ConnectFacts
<1>2. current' \in 0 .. MaxAttempts
  BY <1>1, ConstantsAssumption DEF Attempts
<1>3. TypeOK'
  BY <1>1, <1>2 DEF external, TypeInv, TypeOK
<1>4. RemoteNamed'
  BY <1>1 DEF TypeInv, RemoteNamed
<1> QED
  BY <1>3, <1>4 DEF TypeInv

LEMMA CommandFacts ==
  ASSUME TypeInv, cbuf # <<>>
  PROVE  /\ Tail(cbuf) \in Seq(Commands) /\ Head(cbuf) \in Commands
         /\ Head(cbuf).cmd = "connect" => Head(cbuf).arg \in Places
         /\ Head(cbuf).cmd = "map" => Head(cbuf).arg \in Maps
<1>1. Tail(cbuf) \in Seq(Commands) /\ Head(cbuf) \in Commands
  BY TailFacts DEF TypeInv, TypeOK
<1> QED
  BY <1>1 DEF Commands

LEMMA CommandsType ==
  ASSUME TypeInv, ExecuteCommand PROVE TypeInv'
<1>0. /\ cm \in Fields /\ cbuf # <<>> /\ typed \in 0 .. MaxTyped
      /\ Tail(cbuf) \in Seq(Commands) /\ Head(cbuf) \in Commands
  BY CommandFacts DEF ExecuteCommand, ExecDisconnect, ExecConnect, ExecMap, MapNotFound, LoadOrDefer, ExecRetry, IsNext, TypeInv, TypeOK
<1>1. CASE ExecDisconnect
  <2>1. cm' \in Fields /\ cm'.mode = cm.mode /\ cm'.lastMode = cm.lastMode /\ cm'.lastServer = cm.lastServer
    BY <1>0, <1>1, ResetFacts DEF ExecDisconnect
  <2> QED
    BY <1>0, <1>1, <2>1 DEF ExecDisconnect, commandOnly, history, TypeInv, TypeOK, RemoteNamed, Places
<1>2. CASE ExecConnect
  <2> DEFINE to   == Head(cbuf).arg
             mode == IF cm.retrying THEN cm.mode ELSE IF to = "own" THEN "Local" ELSE "Direct"
  <2>1. to \in Places /\ mode \in Modes
    BY <1>0, <1>2, CommandFacts DEF ExecConnect, IsNext, Fields, Modes
  <2>2. CASE cm' = [cm EXCEPT !.localRetry = FALSE] /\ cbuf' = Tail(cbuf) /\ Joins(to) /\ UNCHANGED <<thread, server, history>>
    <3>1. cm' \in Fields /\ cm'.mode = cm.mode /\ cm'.lastMode = cm.lastMode /\ cm'.lastServer = cm.lastServer
      BY <1>0, <2>2 DEF Fields
    <3> QED
      BY <1>0, <1>2, <2>1, <2>2, <3>1 DEF ExecConnect, commandOnly, history, Joins, TypeInv, TypeOK, RemoteNamed
  <2>3. CASE Connect(mode, IF mode = "Remote" THEN cm.lastServer ELSE to, "none", Tail(cbuf)) /\ UNCHANGED external
    <3>1. mode = "Remote" => cm.lastServer \in Servers
      BY DEF TypeInv, RemoteNamed
    <3>2. PICK place \in Places : place = IF mode = "Remote" THEN cm.lastServer ELSE to
      BY <2>1, <3>1 DEF Places
    <3>3. mode = "Remote" => place \in Servers
      BY <3>1, <3>2
    <3> HIDE DEF mode
    <3>4. Connect(mode, place, "none", Tail(cbuf)) /\ UNCHANGED commandOnly
      BY <1>2, <2>3, <3>2 DEF ExecConnect
    <3> QED
      BY <1>0, <2>1, <2>3, <3>2, <3>3, <3>4, ConnectType DEF commandOnly
  <2> QED
    BY <1>2, <2>2, <2>3 DEF ExecConnect
<1>3. CASE ExecMap
  <2>1. PICK m \in Maps : m = Head(cbuf).arg
    BY <1>0, <1>3, CommandFacts DEF ExecMap, MapNotFound, LoadOrDefer, IsNext
  <2>2. CASE cbuf' = Tail(cbuf) /\ UNCHANGED <<thread, history>> /\ (UNCHANGED cm \/ DeferMapLoad(m))
    <3>1. cm' \in Fields /\ cm'.mode = cm.mode /\ cm'.lastMode = cm.lastMode /\ cm'.lastServer = cm.lastServer
      <4>1. CASE UNCHANGED cm
        BY <1>0, <4>1
      <4>2. CASE cm' = [cm EXCEPT !.authorized = FALSE]
        BY <1>0, <4>2 DEF Fields
      <4>3. CASE cm' = [cm EXCEPT !.map = m]
        BY <1>0, <2>1, <4>3 DEF Fields
      <4> QED
        BY <2>2, <4>1, <4>2, <4>3 DEF DeferMapLoad
    <3>2. UNCHANGED external \/ LoadMap
      BY <1>3, <2>1, <2>2 DEF ExecMap, MapNotFound, LoadOrDefer, DeferMapLoad, Connect
    <3>3. joining' \in Places /\ lastAddress' \in Places /\ server' \in BOOLEAN
      BY <3>2 DEF LoadMap, Joins, external, Places, TypeInv, TypeOK
    <3> QED
      BY <1>0, <1>3, <2>2, <3>1, <3>3 DEF ExecMap, MapNotFound, LoadOrDefer, commandOnly, history, TypeInv, TypeOK, RemoteNamed
  <2>3. CASE Connect("Local", "own", m, Tail(cbuf)) /\ UNCHANGED external
    <3>1. "Local" \in Modes /\ "own" \in Places /\ m \in Maps \cup {"none"}
      BY DEF Modes, Places
    <3>2. UNCHANGED commandOnly
      BY <1>3 DEF ExecMap, MapNotFound, LoadOrDefer
    <3> QED
      BY <1>0, <2>3, <3>1, <3>2, ConnectType DEF commandOnly
  <2> QED
    BY <1>3, <2>1, <2>2, <2>3 DEF ExecMap, MapNotFound, LoadOrDefer
<1>4. CASE ExecRetry
  <2>1. cm' \in Fields /\ cm'.mode = cm.mode /\ cm'.lastMode = cm.lastMode /\ cm'.lastServer = cm.lastServer
    BY <1>0, <1>4 DEF ExecRetry, Fields
  <2>2. Command("connect", lastAddress, 0) \in Commands
    BY ConstantsAssumption DEF Command, Commands, TypeInv, TypeOK
  <2>3. cbuf' \in Seq(Commands)
    BY <1>0, <1>4, <2>2, AppendFacts DEF ExecRetry
  <2> QED
    BY <1>4, <2>1, <2>3 DEF ExecRetry, commandOnly, external, history, TypeInv, TypeOK, RemoteNamed
<1> QED
  BY <1>1, <1>2, <1>3, <1>4 DEF ExecuteCommand

(* What the player types. *)
LEMMA TypedFacts ==
  ASSUME TypeInv, TypeCommand
  PROVE  /\ cbuf = <<>> /\ main = 0 /\ typed' \in 0 .. MaxTyped
         /\ \E c \in Commands : c.by = 0 /\ cbuf' = <<c>>
         /\ UNCHANGED <<cm, thread, ms, request, asked, filter, tasks, main, external, dialog, history>>
<1>1. PICK c : Type(c) /\ c \in Commands /\ c.by = 0
  <2>1. \A s \in Servers : Command("connect", s, 0) \in Commands /\ Command("connect", s, 0).by = 0
    BY ConstantsAssumption DEF Command, Commands, Places
  <2>2. \A m \in Maps : Command("map", m, 0) \in Commands /\ Command("map", m, 0).by = 0
    BY ConstantsAssumption DEF Command, Commands
  <2>3. Command("retry", "none", 0) \in Commands /\ Command("retry", "none", 0).by = 0
    BY ConstantsAssumption DEF Command, Commands
  <2> QED
    BY <2>1, <2>2, <2>3 DEF TypeCommand
<1> QED
  BY <1>1, ConstantsAssumption DEF Type, TypeInv, TypeOK

LEMMA PlayerType ==
  ASSUME TypeInv, Player \/ Answer PROVE TypeInv'
<1>0. cm \in Fields /\ cbuf \in Seq(Commands) /\ typed \in 0 .. MaxTyped
  BY DEF TypeInv, TypeOK
<1>1. CASE TypeCommand
  <2>1. PICK c \in Commands : cbuf' = <<c>>
    BY <1>1, TypedFacts
  <2>2. <<c>> \in Seq(Commands)
    OBVIOUS
  <2> QED
    BY <1>1, <2>1, <2>2, TypedFacts DEF external, history, TypeInv, TypeOK, RemoteNamed
<1>2. ASSUME NEW s \in Servers, ConnectWithRemoteId(s) PROVE TypeInv'
  <2>1. "Remote" \in Modes /\ s \in Places /\ typed' \in 0 .. MaxTyped
    BY <1>0, <1>2, ConstantsAssumption DEF ConnectWithRemoteId, Modes, Places
  <2> QED
    BY <1>0, <1>2, <2>1, ConnectType DEF ConnectWithRemoteId
<1>3. CASE NSCancelConnection
  BY <1>0, <1>3, InterruptFacts DEF NSCancelConnection, commandOnly, external, history, TypeInv, TypeOK, RemoteNamed
<1>4. ASSUME NEW choice \in Choices, NSDecideModDownload(choice) PROVE TypeInv'
  <2>1. cm' \in Fields /\ cm'.mode = cm.mode /\ cm'.lastMode = cm.lastMode /\ cm'.lastServer = cm.lastServer
    BY <1>0, <1>4 DEF NSDecideModDownload, Fields
  <2>2. dialog \in Attempts /\ 0 \in 0 .. MaxAttempts
    BY <1>4, ConstantsAssumption DEF NSDecideModDownload, TypeInv, TypeOK, Attempts
  <2> QED
    BY <1>4, <2>1, <2>2 DEF NSDecideModDownload, external, TypeInv, TypeOK, RemoteNamed
<1> QED
  BY <1>1, <1>2, <1>3, <1>4 DEF Player, Answer

LEMMA EngineType ==
  ASSUME TypeInv, EngineConnected \/ HostDisconnect PROVE TypeInv'
<1>1. cm' \in Fields /\ cm'.mode = cm.mode /\ cm'.lastMode = cm.lastMode /\ cm'.lastServer = cm.lastServer
  BY ResetFacts DEF EngineConnected, HostDisconnect, TypeInv, TypeOK
<1> QED
  BY <1>1 DEF EngineConnected, HostDisconnect, commandOnly, history, Places, TypeInv, TypeOK, RemoteNamed

LEMMA StepType == TypeInv /\ [Next]_vars => TypeInv'
<1> SUFFICES ASSUME TypeInv, [Next]_vars PROVE TypeInv'
  OBVIOUS
<1>1. CASE UNCHANGED vars
  BY <1>1 DEF vars, external, history, TypeInv, TypeOK, RemoteNamed
<1> QED
  BY <1>1, WaitsType, ActsType, IncomingType, TasksType, CommandsType, PlayerType, EngineType DEF Next, ThreadStep

LEMMA TypeInvariant == Spec => []TypeInv
  BY InitType, StepType, PTL DEF Spec

(* The state is well typed; in particular the address and the server that  *)
(* a retry or an authenticated connect uses are places one can go to.      *)
THEOREM TypeCorrectness == Spec => []TypeOK
<1>1. TypeInv => TypeOK
  BY DEF TypeInv
<1> QED
  BY TypeInvariant, <1>1, PTL

-----------------------------------------------------------------------------
(* The flag of the authentication requests. *)

LEMMA StepAuthentication == TypeInv /\ AuthenticationNotStuck /\ [Next]_vars => AuthenticationNotStuck'
<1> SUFFICES ASSUME TypeInv, AuthenticationNotStuck, [Next]_vars PROVE AuthenticationNotStuck'
  OBVIOUS
<1>0. ms \in MasterFields
  BY DEF TypeInv, TypeOK
<1>1. CASE ms'.authenticating = ms.authenticating /\ request \subseteq request'
  BY <1>1 DEF AuthenticationNotStuck
<1>2. ASSUME NEW a \in Attempts, ThreadWaits(a) PROVE AuthenticationNotStuck'
  BY <1>1, <1>2, WaitsFacts DEF GoOn, InterruptAnd, threadOnly
<1>3. ASSUME NEW a \in Attempts, ThreadActs(a) PROVE AuthenticationNotStuck'
  <2>1. CASE SendAuthentication(a)
    BY <2>1 DEF SendAuthentication, AuthenticationNotStuck
  <2>2. CASE StartOriginAuth(a) \/ SendInfoRequestPacket(a)
    <3>1. ms' = [ms EXCEPT !.origin = "pending"] \/ ms' = [ms EXCEPT !.notified = FALSE]
      BY <2>2 DEF StartOriginAuth, SendInfoRequestPacket
    <3>2. ms'.authenticating = ms.authenticating
      BY <1>0, <3>1 DEF MasterFields
    <3>3. UNCHANGED request
      BY <2>2 DEF StartOriginAuth, SendInfoRequestPacket
    <3> QED
      BY <1>1, <3>2, <3>3
  <2> QED
    BY <1>1, <1>3, <2>1, <2>2
       DEF ThreadActs, UseAuthentication, NotifyConfirmDownloadMods, DownloadMods, ReloadModsAndConnect,
           JoinFromThread, FinaliseJoiningLocalServer, threadOnly
<1>4. ASSUME NEW a \in Attempts, AuthResult(a) PROVE AuthenticationNotStuck'
  BY <1>0, <1>4 DEF AuthResult, AuthSucceeded, AuthFailed, MasterFields, AuthenticationNotStuck
<1>5. CASE OriginAuthDone \/ \E s \in Servers : NotifyArrives(s)
  BY <1>0, <1>1, <1>5 DEF OriginAuthDone, NotifyArrives, MasterFields
<1>6. CASE UNCHANGED <<ms, request>>
  BY <1>1, <1>6
<1>7. CASE RunTask \/ FinishTask \/ ExecuteCommand \/ UNCHANGED vars
  BY <1>6, <1>7 DEF RunTask, FinishTask, taskOnly, ExecuteCommand, ExecDisconnect, ExecConnect, ExecMap, MapNotFound, LoadOrDefer, ExecRetry,
                    commandOnly, vars
<1>8. CASE Player \/ Answer \/ EngineConnected \/ HostDisconnect
  BY <1>6, <1>8 DEF Player, Answer, TypeCommand, Type, ConnectWithRemoteId, NSCancelConnection,
                    NSDecideModDownload, EngineConnected, HostDisconnect, commandOnly
<1> QED
  BY <1>2, <1>3, <1>4, <1>5, <1>7, <1>8 DEF Next, ThreadStep

(* However two authentication requests interleave, the flag that keeps     *)
(* others out is not left behind.                                          *)
THEOREM FlagIsReleased == Spec => []AuthenticationNotStuck
<1>1. Init => AuthenticationNotStuck
  BY DEF Init, AuthenticationNotStuck
<1> QED
  BY <1>1, StepAuthentication, TypeInvariant, PTL DEF Spec

-----------------------------------------------------------------------------
(* The map load that was authorised. *)

LEMMA QueueGrows ==
  ASSUME TypeInv, AuthorisedMapQueued, server' = server,
         cm'.authorized => cm.authorized /\ cm'.map = cm.map,
         cbuf' = cbuf \/ \E e \in Commands : cbuf' = Append(cbuf, e)
  PROVE  AuthorisedMapQueued'
<1>1. \A i \in DOMAIN cbuf : i \in DOMAIN cbuf' /\ cbuf'[i] = cbuf[i]
  BY AppendFacts DEF TypeInv, TypeOK
<1> QED
  BY <1>1 DEF AuthorisedMapQueued

(* A command that is no map load leaves the queue. *)
LEMMA QueueMoves ==
  ASSUME TypeInv, AuthorisedMapQueued, cbuf # <<>>, server' = server,
         cm'.authorized => cm.authorized /\ cm'.map = cm.map,
         Head(cbuf).cmd # "map" \/ Head(cbuf).arg # cm.map,
         cbuf' = Tail(cbuf) \/ \E e \in Commands : cbuf' = Append(Tail(cbuf), e)
  PROVE  AuthorisedMapQueued'
<1>1. /\ Tail(cbuf) \in Seq(Commands) /\ Head(cbuf) = cbuf[1]
      /\ \A i \in DOMAIN cbuf : i # 1 => i - 1 \in DOMAIN Tail(cbuf) /\ Tail(cbuf)[i - 1] = cbuf[i]
  BY TailFacts DEF TypeInv, TypeOK
<1>2. \A i \in DOMAIN Tail(cbuf) : i \in DOMAIN cbuf' /\ cbuf'[i] = Tail(cbuf)[i]
  BY <1>1, AppendFacts
<1>3. ASSUME cm.authorized, ~server
      PROVE  \E i \in DOMAIN cbuf' : cbuf'[i].cmd = "map" /\ cbuf'[i].arg = cm.map
  <2>1. PICK i \in DOMAIN cbuf : cbuf[i].cmd = "map" /\ cbuf[i].arg = cm.map
    BY <1>3 DEF AuthorisedMapQueued
  <2>2. i # 1
    BY <1>1, <2>1
  <2>3. i - 1 \in DOMAIN cbuf' /\ cbuf'[i - 1] = cbuf[i]
    BY <1>1, <1>2, <2>2
  <2> QED
    BY <2>1, <2>3
<1> QED
  BY <1>3 DEF AuthorisedMapQueued

(* Loading a local server queues the map it authorises. *)
LEMMA JoinLocalQueues ==
  ASSUME TypeInv, NEW c \in Fields, NEW q \in Seq(Commands), JoinLocal(c, q),
         c.authorized => c = cm /\ q = cbuf, AuthorisedMapQueued, UNCHANGED server
  PROVE  AuthorisedMapQueued'
<1>1. CASE cbuf' = Append(q, Command("map", cm'.map, 0)) /\ cm'.map \in Maps
  <2>1. Command("map", cm'.map, 0) \in Commands /\ Command("map", cm'.map, 0).cmd = "map"
        /\ Command("map", cm'.map, 0).arg = cm'.map
    BY <1>1, ConstantsAssumption DEF Command, Commands
  <2> QED
    BY <1>1, <2>1, AppendFacts DEF AuthorisedMapQueued
<1>2. CASE cbuf' = Append(q, Command("retry", "none", 0)) /\ cm'.map = c.map /\ cm'.authorized = c.authorized
  <2>1. Command("retry", "none", 0) \in Commands
    BY ConstantsAssumption DEF Command, Commands
  <2>2. CASE c.authorized
    BY <1>2, <2>1, <2>2, QueueGrows
  <2>3. CASE ~c.authorized
    BY <1>2, <2>3 DEF AuthorisedMapQueued
  <2> QED
    BY <2>2, <2>3
<1> QED
  BY <1>1, <1>2, JoinLocalFacts

LEMMA ConnectQueues ==
  ASSUME TypeInv, NEW mode \in Modes, NEW to \in Places, NEW map \in Maps \cup {"none"},
         NEW commands \in Seq(Commands), mode = "Remote" => to \in Servers, Connect(mode, to, map, commands)
  PROVE  AuthorisedMapQueued'
<1>1. \/ ~cm'.authorized
      \/ cbuf' = Append(commands, Command("map", cm'.map, 0)) /\ cm' \in Fields /\ cbuf' \in Seq(Commands)
  BY ConnectFacts
<1>2. CASE cbuf' = Append(commands, Command("map", cm'.map, 0))
  <2>1. cbuf'[Len(commands) + 1] = Command("map", cm'.map, 0) /\ Len(commands) + 1 \in DOMAIN cbuf'
    BY <1>2
  <2> QED
    BY <2>1 DEF AuthorisedMapQueued, Command
<1> QED
  BY <1>1, <1>2 DEF AuthorisedMapQueued

LEMMA StepQueued ==
  ASSUME TypeInv, AuthorisedMapQueued, [Next]_vars, ~MapNotFound
  PROVE  AuthorisedMapQueued'
<1>0. cm \in Fields /\ cbuf \in Seq(Commands) /\ thread \in [Attempts -> ThreadFields]
  BY DEF TypeInv, TypeOK
<1>1. CASE UNCHANGED <<cm, cbuf, server>>
  BY <1>1, QueueGrows
<1>2. CASE ~cm'.authorized
  BY <1>2 DEF AuthorisedMapQueued
<1>3. ASSUME NEW a \in Attempts, FinaliseJoiningServer(a), UNCHANGED server PROVE AuthorisedMapQueued'
  <2>1. Command("retry", "none", a) \in Commands /\ Command("connect", thread[a].addr, a) \in Commands
    BY <1>0, ConstantsAssumption DEF Command, Commands, Attempts, ThreadFields
  <2> QED
    BY <1>0, <1>3, <2>1, FinaliseFacts, QueueGrows
<1>4. ASSUME NEW a \in Attempts, ThreadWaits(a) PROVE AuthorisedMapQueued'
  BY <1>0, <1>1, <1>2, <1>4, WaitsFacts, InterruptFacts DEF GoOn, InterruptAnd, threadOnly, external
<1>5. ASSUME NEW a \in Attempts, ThreadActs(a) PROVE AuthorisedMapQueued'
  <2>1. CASE UseAuthentication(a) \/ DownloadMods(a)
    <3>1. cm' = [cm EXCEPT !.authSuccessful = TRUE] \/ cm' = [cm EXCEPT !.downloadedMods = TRUE]
      BY <2>1 DEF UseAuthentication, DownloadMods
    <3>2. cm'.authorized = cm.authorized /\ cm'.map = cm.map
      BY <1>0, <3>1 DEF Fields
    <3>3. UNCHANGED <<cbuf, server>>
      BY <2>1 DEF UseAuthentication, DownloadMods, threadOnly, external
    <3> QED
      BY <3>2, <3>3, QueueGrows
  <2>2. CASE JoinFromThread(a)
    BY <1>3, <2>2 DEF JoinFromThread, threadOnly, external
  <2>3. CASE FinaliseJoiningLocalServer(a)
    BY <1>0, <2>3, JoinLocalQueues DEF FinaliseJoiningLocalServer, threadOnly, external
  <2> QED
    BY <1>1, <1>5, <2>1, <2>2, <2>3
       DEF ThreadActs, StartOriginAuth, SendAuthentication, SendInfoRequestPacket, NotifyConfirmDownloadMods,
           ReloadModsAndConnect, threadOnly, external
<1>6. CASE \/ OriginAuthDone \/ \E a \in Attempts : AuthResult(a)
           \/ \E s \in Servers : NotifyArrives(s)
           \/ UNCHANGED vars
  BY <1>1, <1>6 DEF OriginAuthDone, AuthResult, NotifyArrives, vars, external
<1>7. CASE RunTask \/ FinishTask
  <2>1. UNCHANGED server
    BY <1>7 DEF RunTask, FinishTask, taskOnly, external
  <2>2. CASE UNCHANGED <<cm, cbuf>>
    BY <1>1, <2>1, <2>2
  <2>3. ASSUME RunTask, FinaliseJoiningServer(Head(tasks).by) PROVE AuthorisedMapQueued'
    <3>1. Head(tasks) \in [by : Attempts, reload : BOOLEAN]
      BY <2>3, TailFacts DEF RunTask, TypeInv, TypeOK
    <3> QED
      BY <1>3, <2>1, <2>3, <3>1
  <2>4. ASSUME FinishTask, FinaliseJoiningServer(main) PROVE AuthorisedMapQueued'
    <3>1. main \in Attempts
      BY <2>4, ConstantsAssumption DEF FinishTask, TypeInv, TypeOK, Attempts
    <3> QED
      BY <1>3, <2>1, <2>4, <3>1
  <2> QED
    BY <1>7, <2>2, <2>3, <2>4 DEF RunTask, FinishTask
<1>8. CASE ExecuteCommand
  <2>0. cbuf # <<>> /\ Tail(cbuf) \in Seq(Commands) /\ Head(cbuf) \in Commands
    BY <1>8, CommandFacts DEF ExecuteCommand, ExecDisconnect, ExecConnect, ExecMap, MapNotFound, LoadOrDefer, ExecRetry, IsNext
  <2>1. CASE ExecDisconnect
    BY <1>0, <1>2, <2>1, ResetFacts DEF ExecDisconnect
  <2>2. CASE ExecConnect
    <3> DEFINE to   == Head(cbuf).arg
               mode == IF cm.retrying THEN cm.mode ELSE IF to = "own" THEN "Local" ELSE "Direct"
    <3>1. to \in Places /\ mode \in Modes /\ Head(cbuf).cmd = "connect"
      BY <1>0, <2>2, CommandFacts DEF ExecConnect, IsNext, Fields, Modes
    <3>2. CASE cm' = [cm EXCEPT !.localRetry = FALSE] /\ cbuf' = Tail(cbuf) /\ UNCHANGED server
      <4>1. cm'.authorized = cm.authorized /\ cm'.map = cm.map
        BY <1>0, <3>2 DEF Fields
      <4> QED
        BY <2>0, <3>1, <3>2, <4>1, QueueMoves
    <3>3. CASE Connect(mode, IF mode = "Remote" THEN cm.lastServer ELSE to, "none", Tail(cbuf))
      <4>1. mode = "Remote" => cm.lastServer \in Servers
        BY DEF TypeInv, RemoteNamed
      <4>2. PICK place \in Places : place = IF mode = "Remote" THEN cm.lastServer ELSE to
        BY <3>1, <4>1 DEF Places
      <4>3. mode = "Remote" => place \in Servers
        BY <4>1, <4>2
      <4> HIDE DEF mode
      <4> QED
        BY <2>0, <3>1, <3>3, <4>2, <4>3, ConnectQueues
    <3> QED
      BY <2>2, <3>2, <3>3 DEF ExecConnect
  <2>3. CASE ExecMap
    <3>1. PICK m \in Maps : m = Head(cbuf).arg
      BY <2>0, <2>3, CommandFacts DEF ExecMap, MapNotFound, LoadOrDefer, IsNext
    <3>2. CASE server'
      BY <3>2 DEF AuthorisedMapQueued
    <3>3. CASE cm' = [cm EXCEPT !.map = m] /\ ~cm.authorized
      BY <1>0, <1>2, <3>3 DEF Fields
    <3>4. CASE UNCHANGED cm /\ m # cm.map /\ cbuf' = Tail(cbuf) /\ UNCHANGED server
      BY <2>0, <3>1, <3>4, QueueMoves
    <3>5. CASE Connect("Local", "own", m, Tail(cbuf))
      <4>1. "Local" \in Modes /\ "own" \in Places /\ m \in Maps \cup {"none"}
        BY DEF Modes, Places
      <4> QED
        BY <2>0, <3>5, <4>1, ConnectQueues
    <3>6. LoadOrDefer
      BY <2>3 DEF ExecMap
    <3> QED
      BY <3>1, <3>2, <3>3, <3>4, <3>5, <3>6 DEF LoadOrDefer, DeferMapLoad, LoadMap, external
  <2>4. CASE ExecRetry
    <3>1. cm' = [cm EXCEPT !.localRetry = TRUE] \/ cm' = [cm EXCEPT !.retrying = TRUE]
      BY <2>4 DEF ExecRetry
    <3>2. cm'.authorized = cm.authorized /\ cm'.map = cm.map
      BY <1>0, <3>1 DEF Fields
    <3>3. Command("connect", lastAddress, 0) \in Commands
      BY ConstantsAssumption DEF Command, Commands, TypeInv, TypeOK
    <3> QED
      BY <2>0, <2>4, <3>2, <3>3, QueueMoves DEF ExecRetry, IsNext, external
  <2> QED
    BY <1>8, <2>1, <2>2, <2>3, <2>4 DEF ExecuteCommand
<1>9. CASE Player \/ Answer
  <2>1. CASE TypeCommand
    <3>1. DOMAIN cbuf = {} /\ UNCHANGED <<cm, server>>
      BY <2>1, TypedFacts DEF external
    <3> QED
      BY <3>1 DEF AuthorisedMapQueued
  <2>2. ASSUME NEW s \in Servers, ConnectWithRemoteId(s) PROVE AuthorisedMapQueued'
    <3>1. "Remote" \in Modes /\ s \in Places
      BY DEF Modes, Places
    <3> QED
      BY <1>0, <2>2, <3>1, ConnectQueues DEF ConnectWithRemoteId
  <2>3. CASE NSCancelConnection
    BY <1>0, <1>2, <2>3, InterruptFacts DEF NSCancelConnection
  <2>4. ASSUME NEW choice \in Choices, NSDecideModDownload(choice) PROVE AuthorisedMapQueued'
    <3>1. cm'.authorized = cm.authorized /\ cm'.map = cm.map /\ UNCHANGED <<cbuf, server>>
      BY <1>0, <2>4 DEF NSDecideModDownload, Fields, external
    <3> QED
      BY <3>1, QueueGrows
  <2> QED
    BY <1>9, <2>1, <2>2, <2>3, <2>4 DEF Player, Answer
<1>10. CASE EngineConnected \/ HostDisconnect
  BY <1>0, <1>2, <1>10, ResetFacts DEF EngineConnected, HostDisconnect
<1> QED
  BY <1>4, <1>5, <1>6, <1>7, <1>8, <1>9, <1>10 DEF Next, ThreadStep

(* A new attempt has no token, or one whose command it has just queued. *)
LEMMA NewAttemptQueues ==
  ASSUME TypeInv, Next, current' # current
  PROVE  AuthorisedMapQueued'
<1>0. cm \in Fields
  BY DEF TypeInv, TypeOK
<1>1. ASSUME NEW a \in Attempts PROVE ~ThreadStep(a) /\ ~AuthResult(a)
  <2>1. ~ThreadWaits(a)
    BY WaitsFacts DEF GoOn, InterruptAnd, threadOnly
  <2>2. ~ThreadActs(a)
    BY DEF ThreadActs, StartOriginAuth, SendAuthentication, UseAuthentication, SendInfoRequestPacket,
       NotifyConfirmDownloadMods, DownloadMods, ReloadModsAndConnect, JoinFromThread,
       FinaliseJoiningLocalServer, threadOnly, history
  <2> QED
    BY <2>1, <2>2 DEF ThreadStep, AuthResult, history
<1>2. ~OriginAuthDone /\ ~RunTask /\ ~FinishTask /\ \A s \in Servers : ~NotifyArrives(s)
  BY DEF OriginAuthDone, NotifyArrives, RunTask, FinishTask, taskOnly, history
<1>3. ~TypeCommand /\ ~NSCancelConnection /\ ~Answer /\ ~EngineConnected /\ ~HostDisconnect
  BY DEF TypeCommand, Type, NSCancelConnection, Answer, NSDecideModDownload, EngineConnected, HostDisconnect, history
<1>4. ~ExecDisconnect /\ ~ExecRetry /\ ~MapNotFound
  BY DEF ExecDisconnect, ExecRetry, MapNotFound, history
<1>5. ASSUME NEW s \in Servers, ConnectWithRemoteId(s) PROVE AuthorisedMapQueued'
  <2>1. "Remote" \in Modes /\ s \in Places /\ cbuf \in Seq(Commands)
    BY DEF Modes, Places, TypeInv, TypeOK
  <2> QED
    BY <1>5, <2>1, ConnectQueues DEF ConnectWithRemoteId
<1>6. CASE ExecConnect
  <2> DEFINE to   == Head(cbuf).arg
             mode == IF cm.retrying THEN cm.mode ELSE IF to = "own" THEN "Local" ELSE "Direct"
  <2>1. to \in Places /\ mode \in Modes /\ Tail(cbuf) \in Seq(Commands)
    BY <1>0, <1>6, CommandFacts DEF ExecConnect, IsNext, Fields, Modes
  <2>2. Connect(mode, IF mode = "Remote" THEN cm.lastServer ELSE to, "none", Tail(cbuf))
    BY <1>6 DEF ExecConnect, history
  <2>3. mode = "Remote" => cm.lastServer \in Servers
    BY DEF TypeInv, RemoteNamed
  <2>4. PICK place \in Places : place = IF mode = "Remote" THEN cm.lastServer ELSE to
    BY <2>1, <2>3 DEF Places
  <2>5. mode = "Remote" => place \in Servers
    BY <2>3, <2>4
  <2> HIDE DEF mode
  <2> QED
    BY <2>1, <2>2, <2>4, <2>5, ConnectQueues
<1>7. CASE LoadOrDefer
  <2>1. PICK m \in Maps : m = Head(cbuf).arg
    BY <1>7, CommandFacts DEF LoadOrDefer, IsNext
  <2>2. Connect("Local", "own", m, Tail(cbuf)) /\ Tail(cbuf) \in Seq(Commands)
    BY <1>7, <2>1, CommandFacts DEF LoadOrDefer, IsNext, history
  <2>3. "Local" \in Modes /\ "own" \in Places /\ m \in Maps \cup {"none"}
    BY DEF Modes, Places
  <2> QED
    BY <2>2, <2>3, ConnectQueues
<1> QED
  BY <1>1, <1>2, <1>3, <1>4, <1>5, <1>6, <1>7 DEF Next, Player, ExecuteCommand, ExecMap

(* The token that lets a map load pass DeferMapLoad has its map command    *)
(* still to come, until that command is refused, and no token without a    *)
(* command is left to the next attempt.                                    *)
THEOREM TokenHasItsMap == Spec => TokenKeepsItsMap
<1>1. TypeInv /\ [Next]_vars
        => [AuthorisedMapQueued \/ current' # current => AuthorisedMapQueued' \/ MapNotFound]_vars
  <2> SUFFICES ASSUME TypeInv, Next, AuthorisedMapQueued \/ current' # current, ~MapNotFound
               PROVE  AuthorisedMapQueued'
    OBVIOUS
  <2> QED
    BY StepQueued, NewAttemptQueues
<1> QED
  BY <1>1, TypeInvariant, PTL DEF Spec, TokenKeepsItsMap

-----------------------------------------------------------------------------
(* A clean attempt.  While the latest attempt is one at whose start nothing *)
(* of an earlier one was left, everything that is under way is its own.     *)
Pc     == thread[current].pc
Mode   == thread[current].mode
Target == thread[current].to

Own ==
  /\ current \in Attempts
  /\ \A a \in Attempts : a # current => thread[a].pc = "over"
  /\ request \subseteq {current} /\ dialog \in {0, current} /\ main \in {0, current}
  /\ \A i \in DOMAIN tasks : tasks[i].by = current
  /\ \A i \in DOMAIN cbuf : cbuf[i].by \in {0, current}
  /\ asked \subseteq {Target} /\ thread[current].addr = Target

(* What the program point of its thread says of the manager.  A thread that *)
(* is past an Interrupt of its own finds the attempt over.                  *)
Phase ==
  /\ Pc \in {"agreed", "origin", "origin!", "list", "auth", "request"} => request = {}
  /\ Pc \in {"list", "auth", "request", "authWait"} => Mode # "Direct"
  /\ Pc = "authWait" /\ ms.success /\ Mode = "Remote" => ms.pending = Target
  /\ Pc \in {"origin!", "answer!", "answerMods!", "mods!", "download!"} => ~cm.connecting
  /\ Pc \in {"final", "finalise"} /\ cm.connecting => cm.authSuccessful /\ Mode = "Local"
  /\ cm.connecting => cm.mode = Mode
  /\ cm.connecting /\ cm.authorized => cm.authSuccessful /\ Mode = "Local"
  /\ cm.accept \in {"ACCEPTED", "SKIP_OPTIONAL"} => current \in consent
  /\ Pc = "download" => current \in consent

(* What the attempt has left for the main thread. *)
Left == tasks # <<>> \/ main # 0 \/ \E i \in DOMAIN cbuf : cbuf[i].by # 0

Passed == {"mods", "mods!", "prompt", "consent", "download!", "download", "poll", "reload", "join"}

(* The token presented is that of the target, and no download is forgotten. *)
Presented ==
  /\ ms.notified /\ Pc \in {"answer", "answerMods"} => filter = Target
  /\ Pc \in Passed \/ (Pc = "prepare" /\ Mode = "Remote") \/ Left => filter = Target
  /\ Left => Pc = "over"
  /\ \A i \in DOMAIN cbuf :
       cbuf[i].by # 0 /\ cbuf[i].cmd = "connect" => cbuf[i].arg = Target /\ current \notin unloaded
  /\ current \in unloaded => Pc \in {"poll", "mods!", "reload", "over"}
  /\ current \in unloaded /\ Pc \in {"poll", "reload"} /\ cm.connecting => cm.downloadedMods
  /\ \A i \in DOMAIN tasks : cm.connecting /\ ~tasks[i].reload => current \notin unloaded
  /\ main # 0 => current \notin unloaded

CleanInv == current \in clean => Own /\ Phase /\ Presented

(* No thread runs, and nothing was downloaded, for an attempt to come. *)
Historic ==
  /\ clean \subseteq 1 .. current /\ unloaded \subseteq 1 .. current
  /\ \A a \in Attempts : thread[a].pc # "over" => a <= current

-----------------------------------------------------------------------------
LEMMA FieldTypes ==
  ASSUME TypeInv
  PROVE  /\ cm \in Fields /\ ms \in MasterFields /\ thread \in [Attempts -> ThreadFields]
         /\ cbuf \in Seq(Commands) /\ tasks \in Seq([by : Attempts, reload : BOOLEAN])
         /\ Attempts \subseteq Nat /\ 0 \notin Attempts /\ Attempts \subseteq 0 .. MaxAttempts
         /\ current \in Nat
  BY ConstantsAssumption DEF TypeInv, TypeOK, Attempts

(* The thread rests, and the manager loses the attempt or keeps it. *)
LEMMA QuietStep ==
  ASSUME TypeInv, Own, Phase, Presented,
         UNCHANGED <<current, unloaded, request, asked, thread, tasks, main, filter, dialog, consent>>,
         ms'.success = ms.success /\ ms'.pending = ms.pending /\ ms'.notified = ms.notified,
         \A i \in DOMAIN cbuf' : cbuf'[i].by = 0 \/ \E j \in DOMAIN cbuf : cbuf'[i] = cbuf[j],
         \/ ~cm'.connecting
         \/ /\ cm.connecting /\ cm'.mode = cm.mode
            /\ cm'.authSuccessful = cm.authSuccessful /\ cm'.downloadedMods = cm.downloadedMods
            /\ cm'.authorized => cm.authorized,
         cm'.accept \in {"NOT_DECIDED", cm.accept}
  PROVE  Own' /\ Phase' /\ Presented'
<1>1. Pc' = Pc /\ Mode' = Mode /\ Target' = Target /\ (Left' => Left)
  BY DEF Pc, Mode, Target, Left
<1>2. Own'
  BY <1>1 DEF Own
<1>3. Phase'
  BY <1>1 DEF Phase
<1>4. Presented'
  BY <1>1 DEF Presented
<1> QED
  BY <1>2, <1>3, <1>4

(* Commands in q, then perhaps one of nobody's. *)
LEMMA AppendQuiet ==
  ASSUME NEW q \in Seq(Commands), NEW e \in Commands, e.by = 0, cbuf' = q \/ cbuf' = Append(q, e)
  PROVE  \A i \in DOMAIN cbuf' : cbuf'[i].by = 0 \/ \E j \in DOMAIN q : cbuf'[i] = q[j]
<1>1. CASE cbuf' = q
  BY <1>1
<1>2. CASE cbuf' = Append(q, e)
  <2>1. \A i \in DOMAIN Append(q, e) : Append(q, e)[i] = e \/ \E j \in DOMAIN q : Append(q, e)[i] = q[j]
    BY AppendFacts
  <2> QED
    BY <1>2, <2>1
<1> QED
  BY <1>1, <1>2

(* The thread of the attempt moves to p and nothing else changes hands. *)
LEMMA MovedFacts ==
  ASSUME TypeInv, Own, NEW p \in Points, To(current, p), UNCHANGED current
  PROVE  /\ Pc' = p /\ Mode' = Mode /\ Target' = Target /\ thread'[current].addr = thread[current].addr
         /\ \A a \in Attempts : a # current => thread'[a].pc = "over"
<1>1. \A b \in Attempts :
        /\ thread'[b].mode = thread[b].mode /\ thread'[b].to = thread[b].to /\ thread'[b].addr = thread[b].addr
        /\ b # current => thread'[b] = thread[b]
  BY FieldTypes, ToFacts DEF Own
<1>2. thread'[current].pc = p
  BY FieldTypes, ToFacts DEF Own
<1> QED
  BY <1>1, <1>2 DEF Own, Pc, Mode, Target

LEMMA WaitsClean ==
  ASSUME TypeInv, AuthenticationNotStuck, Own, Phase, Presented,
         NEW a \in Attempts, ThreadWaits(a), UNCHANGED current
  PROVE  Own' /\ Phase' /\ Presented'
<1>1. PICK p \in Points :
        /\ thread[a].pc # "over"
        /\ \/ MayGoOn(a, p) /\ GoOn(a, p)
           \/ <<thread[a].pc, p>> \in Interrupts /\ InterruptAnd(a, p)
  BY WaitsFacts
<1>2. a = current /\ Pc = thread[a].pc /\ Mode = thread[a].mode
  BY <1>1 DEF Own, Pc, Mode
<1>3. To(current, p) /\ UNCHANGED <<threadOnly, unloaded>>
  BY <1>1, <1>2 DEF GoOn, InterruptAnd
<1>4. /\ Pc' = p /\ Mode' = Mode /\ Target' = Target /\ thread'[current].addr = thread[current].addr
      /\ \A b \in Attempts : b # current => thread'[b].pc = "over"
  BY <1>3, MovedFacts
<1>5. ~Left
  BY <1>1, <1>2 DEF Presented
<1>6. Mode \in Modes
  BY <1>2, FieldTypes DEF ThreadFields
<1>7. CASE MayGoOn(a, p) /\ GoOn(a, p)
  <2>1. UNCHANGED <<cm, cbuf>>
    BY <1>7 DEF GoOn
  <2>2. Own'
    BY <1>3, <1>4, <2>1 DEF Own, threadOnly
  <2>3. ~Left'
    BY <1>3, <1>5, <2>1 DEF Left, threadOnly
  <2>4. \/ p = "over" /\ ~cm.connecting
        \/ Pc \in {"origin", "origin!"} /\ cm.connecting /\ p = Authenticated(a)
        \/ <<Pc, p>> \in {<<"agreed", "origin">>, <<"list", "auth">>, <<"mods", "reload">>, <<"mods", "prompt">>, <<"poll", "reload">>}
        \/ Pc = "auth" /\ p = IF ms.authenticating THEN "authWait" ELSE "request"
        \/ Pc = "prepare" /\ Mode = "Remote" /\ p \in {"mods", "join"}
        \/ Pc = "prepare" /\ Mode # "Remote" /\ p \in {"askMods", "ask"}
        \/ ms.notified /\ <<Pc, p>> \in {<<"answer", "join">>, <<"answerMods", "mods">>}
        \/ Pc = "consent" /\ cm.accept \in {"ACCEPTED", "SKIP_OPTIONAL"} /\ p = "download"
        \/ /\ cm.connecting
           /\ <<Pc, p>> \in {<<"answer!", "join">>, <<"answerMods!", "mods">>, <<"mods!", "reload">>,
                             <<"download!", "download">>, <<"final", "finalise">>}
    BY <1>2, <1>7 DEF MayGoOn
  <2>5. Authenticated(a) = IF Mode = "Remote" THEN "list" ELSE IF Mode = "Direct" THEN "prepare" ELSE "auth"
    BY <1>2 DEF Authenticated
  <2>6. Pc = "auth" => p = "request" \/ p = "over"
    BY <2>4 DEF Phase, AuthenticationNotStuck
  <2>7. Phase'
    BY <1>3, <1>4, <1>6, <2>1, <2>4, <2>5, <2>6 DEF Phase, Modes, threadOnly
  <2>8. Presented'
    BY <1>3, <1>4, <1>5, <2>1, <2>3, <2>4, <2>5, <2>6 DEF Phase, Presented, Passed, Left, threadOnly
  <2> QED
    BY <2>2, <2>7, <2>8
<1>8. CASE <<thread[a].pc, p>> \in Interrupts /\ InterruptAnd(a, p)
  <2>1. /\ ~cm'.connecting /\ cm'.accept = "NOT_DECIDED"
        /\ cbuf' = cbuf \/ cbuf' = Append(cbuf, Command("disconnect", "none", 0))
    BY <1>8, FieldTypes, InterruptFacts DEF InterruptAnd
  <2>2. Command("disconnect", "none", 0) \in Commands /\ Command("disconnect", "none", 0).by = 0
    BY ConstantsAssumption DEF Command, Commands
  <2>3. \A i \in DOMAIN cbuf' : cbuf'[i].by = 0 \/ \E j \in DOMAIN cbuf : cbuf'[i] = cbuf[j]
    BY <2>1, <2>2, FieldTypes, AppendQuiet
  <2>4. ~Left'
    BY <1>3, <1>5, <2>3 DEF Left, threadOnly
  <2>5. Own'
    BY <1>3, <1>4, <2>3 DEF Own, threadOnly
  <2>6. <<Pc, p>> \in Interrupts
    BY <1>2, <1>8
  <2>7. Phase'
    BY <1>3, <1>4, <2>1, <2>6 DEF Phase, Interrupts, threadOnly
  <2>8. Presented'
    BY <1>3, <1>4, <2>1, <2>4, <2>6 DEF Presented, Passed, Left, Interrupts, threadOnly
  <2> QED
    BY <2>5, <2>7, <2>8
<1> QED
  BY <1>1, <1>7, <1>8

LEMMA ActsClean ==
  ASSUME TypeInv, Own, Phase, Presented, NEW a \in Attempts, ThreadActs(a), UNCHANGED current
  PROVE  Own' /\ Phase' /\ Presented'
<1>0. /\ cm \in Fields /\ ms \in MasterFields /\ thread \in [Attempts -> ThreadFields]
      /\ cbuf \in Seq(Commands) /\ tasks \in Seq([by : Attempts, reload : BOOLEAN])
      /\ Attempts \subseteq Nat /\ 0 \notin Attempts
  BY FieldTypes
<1>1. a = current /\ Pc # "over"
  BY DEF ThreadActs, StartOriginAuth, SendAuthentication, UseAuthentication, SendInfoRequestPacket,
         NotifyConfirmDownloadMods, DownloadMods, ReloadModsAndConnect, JoinFromThread,
         FinaliseJoiningLocalServer, At, Own, Pc
<1>2. ~Left /\ current \in Attempts /\ Mode \in Modes
  BY <1>0, <1>1 DEF Presented, Own, Mode, ThreadFields
<1>3. CASE StartOriginAuth(a)
  <2>1. ms'.success = ms.success /\ ms'.pending = ms.pending /\ ms'.notified = ms.notified
    BY <1>0, <1>3 DEF StartOriginAuth, MasterFields
  <2>2. UNCHANGED <<cm, cbuf>>
    BY <1>3 DEF StartOriginAuth
  <2>3. \A i \in DOMAIN cbuf' : cbuf'[i].by = 0 \/ \E j \in DOMAIN cbuf : cbuf'[i] = cbuf[j]
    BY <2>2
  <2>4. UNCHANGED <<current, unloaded, request, asked, thread, tasks, main, filter, dialog, consent>>
    BY <1>3 DEF StartOriginAuth, history
  <2>5. cm.connecting
    BY <1>3 DEF StartOriginAuth, IsCancelled
  <2> QED
    BY <2>1, <2>2, <2>3, <2>4, <2>5, QuietStep
<1>4. CASE SendAuthentication(a)
  <2>1. To(current, "authWait") /\ Pc = "request" /\ request' = request \cup {current}
        /\ UNCHANGED <<cm, asked, filter, cbuf, tasks, main, dialog, unloaded, consent>>
    BY <1>1, <1>4 DEF SendAuthentication, At, Pc, history
  <2>2. ~ms'.success /\ ms'.pending = ms.pending /\ ms'.notified = ms.notified
    BY <1>0, <1>4 DEF SendAuthentication, MasterFields
  <2>3. /\ Pc' = "authWait" /\ Mode' = Mode /\ Target' = Target /\ thread'[current].addr = thread[current].addr
        /\ \A b \in Attempts : b # current => thread'[b].pc = "over"
    BY <2>1, MovedFacts DEF Points
  <2>4. Own'
    BY <2>1, <2>3 DEF Own
  <2>5. Phase'
    BY <2>1, <2>2, <2>3 DEF Phase
  <2>6. Presented'
    BY <1>2, <2>1, <2>3 DEF Presented, Passed, Left, Phase
  <2> QED
    BY <2>4, <2>5, <2>6
<1>5. CASE UseAuthentication(a)
  <2>1. /\ Pc = "authWait" /\ ms.success /\ cm.connecting /\ current \notin unloaded
        /\ UNCHANGED <<ms, request, asked, cbuf, tasks, main, dialog, unloaded, consent>>
    BY <1>1, <1>5 DEF UseAuthentication, At, IsCancelled, Pc, history, Presented
  <2>2. /\ cm'.connecting /\ cm'.authSuccessful /\ cm'.mode = cm.mode /\ cm'.accept = cm.accept
        /\ cm'.authorized = cm.authorized /\ cm'.downloadedMods = cm.downloadedMods
    BY <1>0, <1>5, <2>1 DEF UseAuthentication, Fields
  <2>3. CASE /\ Mode = "Remote" /\ filter' = ms.pending
             /\ thread' = [thread EXCEPT ![a].pc = "prepare", ![a].addr = ms.pending]
    <3>1. ms.pending = Target
      BY <2>1, <2>3 DEF Phase
    <3>2. /\ Pc' = "prepare" /\ Mode' = Mode /\ Target' = Target /\ thread'[current].addr = Target
          /\ \A b \in Attempts : b # current => thread'[b].pc = "over"
      BY <1>0, <1>1, <1>2, <2>3, <3>1 DEF Own, Pc, Mode, Target, ThreadFields
    <3>3. Own'
      BY <2>1, <3>2 DEF Own
    <3>4. Phase'
      BY <2>1, <2>2, <3>2 DEF Phase
    <3>5. Presented'
      BY <1>2, <2>1, <2>3, <3>1, <3>2 DEF Presented, Passed, Left
    <3> QED
      BY <3>3, <3>4, <3>5
  <2>4. CASE Mode # "Remote" /\ To(a, "final")
    <3>1. Mode = "Local"
      BY <1>2, <2>1, <2>4 DEF Phase, Modes
    <3>2. /\ Pc' = "final" /\ Mode' = Mode /\ Target' = Target /\ thread'[current].addr = thread[current].addr
          /\ \A b \in Attempts : b # current => thread'[b].pc = "over"
      BY <1>1, <2>4, MovedFacts DEF Points
    <3>3. Own'
      BY <2>1, <3>2 DEF Own
    <3>4. Phase'
      BY <2>1, <2>2, <3>1, <3>2 DEF Phase
    <3>5. Presented'
      BY <1>2, <2>1, <3>2 DEF Presented, Passed, Left
    <3> QED
      BY <3>3, <3>4, <3>5
  <2> QED
    BY <1>1, <1>5, <2>3, <2>4 DEF UseAuthentication, Mode
<1>6. CASE SendInfoRequestPacket(a)
  <2>1. /\ Pc \in {"ask", "askMods"} /\ current \notin unloaded
        /\ asked' = asked \cup ({thread[current].addr} \cap Servers)
        /\ UNCHANGED <<cm, request, filter, cbuf, tasks, main, dialog, unloaded, consent>>
    BY <1>1, <1>6 DEF SendInfoRequestPacket, At, Pc, history, Presented
  <2>2. ms'.success = ms.success /\ ms'.pending = ms.pending /\ ~ms'.notified
    BY <1>0, <1>6 DEF SendInfoRequestPacket, MasterFields
  <2>3. PICK p \in {"answer", "answerMods"} : To(current, p)
    BY <1>1, <1>6 DEF SendInfoRequestPacket
  <2>4. /\ Pc' = p /\ Mode' = Mode /\ Target' = Target /\ thread'[current].addr = thread[current].addr
        /\ \A b \in Attempts : b # current => thread'[b].pc = "over"
    BY <2>3, MovedFacts DEF Points
  <2>5. Own'
    BY <2>1, <2>4 DEF Own
  <2>6. Phase'
    BY <2>1, <2>2, <2>4 DEF Phase
  <2>7. Presented'
    BY <1>2, <2>1, <2>2, <2>4 DEF Presented, Passed, Left
  <2> QED
    BY <2>5, <2>6, <2>7
<1>7. CASE NotifyConfirmDownloadMods(a)
  <2>1. /\ Pc = "prompt" /\ current \notin unloaded /\ dialog' = current /\ To(current, "consent")
        /\ UNCHANGED <<cm, ms, request, asked, filter, cbuf, tasks, main, unloaded, consent>>
    BY <1>1, <1>7 DEF NotifyConfirmDownloadMods, At, Pc, history, Presented
  <2>2. /\ Pc' = "consent" /\ Mode' = Mode /\ Target' = Target /\ thread'[current].addr = thread[current].addr
        /\ \A b \in Attempts : b # current => thread'[b].pc = "over"
    BY <2>1, MovedFacts DEF Points
  <2>3. Own'
    BY <2>1, <2>2 DEF Own
  <2>4. Phase'
    BY <2>1, <2>2 DEF Phase
  <2>5. Presented'
    BY <1>2, <2>1, <2>2 DEF Presented, Passed, Left
  <2> QED
    BY <2>3, <2>4, <2>5
<1>8. CASE DownloadMods(a)
  <2>1. /\ Pc = "download" /\ unloaded' = unloaded \cup {current} /\ To(current, "poll")
        /\ UNCHANGED <<ms, request, asked, filter, cbuf, tasks, main, dialog, consent>>
    BY <1>1, <1>8 DEF DownloadMods, At, Pc, threadOnly
  <2>2. /\ cm'.connecting = cm.connecting /\ cm'.authSuccessful = cm.authSuccessful /\ cm'.mode = cm.mode
        /\ cm'.accept = cm.accept /\ cm'.authorized = cm.authorized /\ cm'.downloadedMods
    BY <1>0, <1>8 DEF DownloadMods, Fields
  <2>3. /\ Pc' = "poll" /\ Mode' = Mode /\ Target' = Target /\ thread'[current].addr = thread[current].addr
        /\ \A b \in Attempts : b # current => thread'[b].pc = "over"
    BY <2>1, MovedFacts DEF Points
  <2>4. Own'
    BY <2>1, <2>3 DEF Own
  <2>5. Phase'
    BY <2>1, <2>2, <2>3 DEF Phase
  <2>6. ~Left' /\ tasks = <<>> /\ main = 0 /\ \A i \in DOMAIN cbuf : cbuf[i].by = 0
    BY <1>2, <2>1 DEF Left
  <2>7. Presented'
    BY <2>1, <2>2, <2>3, <2>6 DEF Presented, Passed
  <2> QED
    BY <2>4, <2>5, <2>7
<1>9. CASE ReloadModsAndConnect(a)
  <2>1. /\ Pc = "reload" /\ To(current, "over") /\ tasks' = Append(tasks, ReloadTask(current))
        /\ UNCHANGED <<cm, ms, request, asked, filter, cbuf, main, dialog, unloaded, consent>>
    BY <1>1, <1>9 DEF ReloadModsAndConnect, At, Pc, history
  <2>2. /\ Pc' = "over" /\ Mode' = Mode /\ Target' = Target /\ thread'[current].addr = thread[current].addr
        /\ \A b \in Attempts : b # current => thread'[b].pc = "over"
    BY <2>1, MovedFacts DEF Points
  <2>3. PICK t : /\ t = ReloadTask(current) /\ t.by = current /\ t.reload = cm.downloadedMods
                 /\ t \in [by : Attempts, reload : BOOLEAN]
    <3>1. cm.downloadedMods \in BOOLEAN
      BY <1>0 DEF Fields
    <3>2. ReloadTask(current) \in [by : Attempts, reload : BOOLEAN]
      BY <1>2, <3>1 DEF ReloadTask
    <3>3. ReloadTask(current).by = current /\ ReloadTask(current).reload = cm.downloadedMods
      BY <3>1 DEF ReloadTask
    <3> QED
      BY <3>2, <3>3
  <2>4. tasks = <<>> /\ main = 0 /\ \A i \in DOMAIN cbuf : cbuf[i].by = 0
    BY <1>2 DEF Left
  <2>5. \A i \in DOMAIN tasks' : tasks'[i] = t
    BY <2>1, <2>3, <2>4
  <2>6. Own'
    BY <2>1, <2>2, <2>3, <2>5 DEF Own
  <2>7. Phase'
    BY <2>1, <2>2 DEF Phase
  <2>8. Presented'
    BY <2>1, <2>2, <2>3, <2>4, <2>5 DEF Presented, Passed
  <2> QED
    BY <2>6, <2>7, <2>8
<1>10. CASE JoinFromThread(a)
  <2>1. /\ Pc = "join" /\ To(current, "over") /\ FinaliseJoiningServer(current) /\ current \notin unloaded
        /\ UNCHANGED <<ms, request, asked, filter, tasks, main, dialog, unloaded, consent>>
    BY <1>1, <1>10 DEF JoinFromThread, At, Pc, threadOnly, Presented
  <2>2. /\ Pc' = "over" /\ Mode' = Mode /\ Target' = Target /\ thread'[current].addr = thread[current].addr
        /\ \A b \in Attempts : b # current => thread'[b].pc = "over"
    BY <2>1, MovedFacts DEF Points
  <2>3. /\ cm'.connecting = cm.connecting /\ cm'.authSuccessful = cm.authSuccessful /\ cm'.mode = cm.mode
        /\ cm'.accept = cm.accept /\ cm'.authorized = cm.authorized /\ cm'.downloadedMods = cm.downloadedMods
        /\ \/ cbuf' = Append(cbuf, Command("retry", "none", current))
           \/ cbuf' = Append(cbuf, Command("connect", thread[current].addr, current))
    BY <1>0, <1>2, <2>1, FinaliseFacts
  <2>4. tasks = <<>> /\ main = 0 /\ \A i \in DOMAIN cbuf : cbuf[i].by = 0
    BY <1>2 DEF Left
  <2>5. PICK c : /\ cbuf' = Append(cbuf, c) /\ c.by = current
                 /\ c.cmd = "connect" => c.arg = thread[current].addr
    BY <2>3 DEF Command
  <2>6. \A i \in DOMAIN cbuf' : cbuf'[i] = c \/ (i \in DOMAIN cbuf /\ cbuf'[i] = cbuf[i])
    BY <1>0, <2>5
  <2>7. thread[current].addr = Target
    BY DEF Own
  <2>8. Own'
    BY <2>1, <2>2, <2>5, <2>6 DEF Own
  <2>9. Phase'
    BY <2>1, <2>2, <2>3 DEF Phase
  <2>10. Presented'
    BY <2>1, <2>2, <2>3, <2>4, <2>5, <2>6, <2>7 DEF Presented, Passed
  <2> QED
    BY <2>8, <2>9, <2>10
<1>11. CASE FinaliseJoiningLocalServer(a)
  <2>1. /\ Pc = "finalise" /\ To(current, "over") /\ JoinLocal(cm, cbuf)
        /\ UNCHANGED <<ms, request, asked, filter, tasks, main, dialog, unloaded, consent>>
    BY <1>1, <1>11 DEF FinaliseJoiningLocalServer, At, Pc, threadOnly
  <2>2. /\ Pc' = "over" /\ Mode' = Mode /\ Target' = Target /\ thread'[current].addr = thread[current].addr
        /\ \A b \in Attempts : b # current => thread'[b].pc = "over"
    BY <2>1, MovedFacts DEF Points
  <2>3. /\ cm'.connecting = cm.connecting /\ cm'.authSuccessful = cm.authSuccessful /\ cm'.mode = cm.mode
        /\ cm'.accept = cm.accept /\ cm'.downloadedMods = cm.downloadedMods
        /\ \/ cbuf' = Append(cbuf, Command("retry", "none", 0))
           \/ cbuf' = Append(cbuf, Command("map", cm'.map, 0)) /\ cm'.map \in Maps
    BY <1>0, <2>1, JoinLocalFacts
  <2>4. PICK c \in Commands : c.by = 0 /\ cbuf' = Append(cbuf, c)
    BY <2>3, ConstantsAssumption DEF Command, Commands
  <2>5. \A i \in DOMAIN cbuf' : cbuf'[i].by = 0 \/ \E j \in DOMAIN cbuf : cbuf'[i] = cbuf[j]
    BY <1>0, <2>4, AppendQuiet
  <2>6. Own'
    BY <2>1, <2>2, <2>5 DEF Own
  <2>7. Phase'
    BY <2>1, <2>2, <2>3 DEF Phase
  <2>8. ~Left'
    BY <1>2, <2>1, <2>5 DEF Left
  <2>9. Presented'
    BY <2>1, <2>2, <2>3, <2>8 DEF Presented, Passed, Left
  <2> QED
    BY <2>6, <2>7, <2>9
<1> QED
  BY <1>3, <1>4, <1>5, <1>6, <1>7, <1>8, <1>9, <1>10, <1>11 DEF ThreadActs

LEMMA IncomingClean ==
  ASSUME TypeInv, Own, Phase, Presented,
         \/ OriginAuthDone \/ \E a \in Attempts : AuthResult(a)
         \/ \E s \in Servers : NotifyArrives(s)
  PROVE  Own' /\ Phase' /\ Presented'
<1>0. ms \in MasterFields /\ UNCHANGED <<cm, thread, cbuf, tasks, main, dialog, current, unloaded, consent>>
  BY FieldTypes DEF OriginAuthDone, AuthResult, NotifyArrives, history
<1>1. Pc' = Pc /\ Mode' = Mode /\ Target' = Target /\ (Left' <=> Left)
  BY <1>0 DEF Pc, Mode, Target, Left
<1>2. CASE OriginAuthDone
  <2>1. /\ ms'.success = ms.success /\ ms'.pending = ms.pending /\ ms'.notified = ms.notified
        /\ UNCHANGED <<request, asked, filter>>
    BY <1>0, <1>2 DEF OriginAuthDone, MasterFields
  <2>2. Own' /\ Phase'
    BY <1>0, <1>1, <2>1 DEF Own, Phase
  <2> QED
    BY <1>0, <1>1, <2>1, <2>2 DEF Presented
<1>3. ASSUME NEW a \in Attempts, AuthResult(a) PROVE Own' /\ Phase' /\ Presented'
  <2>1. a = current /\ request' \subseteq request /\ UNCHANGED <<asked, filter>>
    BY <1>3 DEF AuthResult, Own
  <2>2. /\ ms'.notified = ms.notified
        /\ ms'.success => \/ Mode = "Remote" => ms'.pending = Target
                          \/ ms.success /\ ms'.pending = ms.pending
    BY <1>0, <1>3, <2>1 DEF AuthResult, AuthSucceeded, AuthFailed, MasterFields, Mode, Target
  <2>3. Own'
    BY <1>0, <1>1, <2>1 DEF Own
  <2>4. Phase'
    BY <1>0, <1>1, <2>1, <2>2 DEF Phase
  <2>5. Presented'
    BY <1>0, <1>1, <2>1, <2>2 DEF Presented
  <2> QED
    BY <2>3, <2>4, <2>5
<1>4. ASSUME NEW s \in Servers, NotifyArrives(s) PROVE Own' /\ Phase' /\ Presented'
  <2>1. s = Target /\ request' = request /\ asked' \subseteq asked
    BY <1>4 DEF NotifyArrives, Own
  <2>2. /\ ms'.success = ms.success /\ ms'.pending = ms.pending
        /\ filter' = Target \/ (filter' = filter /\ ms'.notified = ms.notified)
    BY <1>0, <1>4, <2>1 DEF NotifyArrives, MasterFields
  <2>3. Own'
    BY <1>0, <1>1, <2>1 DEF Own
  <2>4. Phase'
    BY <1>0, <1>1, <2>1, <2>2 DEF Phase
  <2>5. Presented'
    BY <1>0, <1>1, <2>1, <2>2 DEF Presented
  <2> QED
    BY <2>3, <2>4, <2>5
<1> QED
  BY <1>2, <1>3, <1>4

(* The main thread queues the connect of the attempt. *)
LEMMA FinaliseClean ==
  ASSUME TypeInv, Own, Phase, Presented, Left, FinaliseJoiningServer(current), current \notin unloaded,
         UNCHANGED <<current, unloaded, request, asked, thread, filter, dialog, consent, ms>>,
         main' = 0, \A i \in DOMAIN tasks' : \E j \in DOMAIN tasks : tasks'[i] = tasks[j]
  PROVE  Own' /\ Phase' /\ Presented'
<1>0. /\ cm \in Fields /\ thread \in [Attempts -> ThreadFields] /\ cbuf \in Seq(Commands)
      /\ 0 \notin Attempts
  BY FieldTypes
<1>1. Pc' = Pc /\ Mode' = Mode /\ Target' = Target /\ Pc = "over" /\ filter = Target
  BY DEF Pc, Mode, Target, Presented
<1>2. /\ cm'.connecting = cm.connecting /\ cm'.authSuccessful = cm.authSuccessful /\ cm'.mode = cm.mode
      /\ cm'.accept = cm.accept /\ cm'.authorized = cm.authorized /\ cm'.downloadedMods = cm.downloadedMods
      /\ \/ cbuf' = Append(cbuf, Command("retry", "none", current))
         \/ cbuf' = Append(cbuf, Command("connect", thread[current].addr, current))
  BY <1>0, FinaliseFacts DEF Own
<1>3. PICK c : /\ cbuf' = Append(cbuf, c) /\ c.by = current
               /\ c.cmd = "connect" => c.arg = Target
  BY <1>2 DEF Command, Own
<1>4. \A i \in DOMAIN cbuf' : cbuf'[i] = c \/ (i \in DOMAIN cbuf /\ cbuf'[i] = cbuf[i])
  BY <1>0, <1>3
<1>5. Own'
  BY <1>1, <1>3, <1>4 DEF Own
<1>6. Phase'
  BY <1>1, <1>2 DEF Phase
<1>7. Presented'
  BY <1>1, <1>2, <1>3, <1>4 DEF Presented, Passed
<1> QED
  BY <1>5, <1>6, <1>7

LEMMA TasksClean ==
  ASSUME TypeInv, Own, Phase, Presented, RunTask \/ FinishTask
  PROVE  Own' /\ Phase' /\ Presented'
<1>0. /\ tasks \in Seq([by : Attempts, reload : BOOLEAN]) /\ 0 \notin Attempts
      /\ UNCHANGED <<current, request, asked, thread, filter, dialog, consent, ms>>
  BY FieldTypes DEF RunTask, FinishTask, taskOnly
<1>1. Pc' = Pc /\ Mode' = Mode /\ Target' = Target
  BY <1>0 DEF Pc, Mode, Target
<1>2. CASE RunTask
  <2>1. tasks # <<>> /\ tasks' = Tail(tasks) /\ main = 0 /\ Left
    BY <1>2 DEF RunTask, Left
  <2>2. /\ 1 \in DOMAIN tasks /\ Head(tasks) = tasks[1]
        /\ \A i \in DOMAIN tasks' : \E j \in DOMAIN tasks : tasks'[i] = tasks[j]
    BY <1>0, <2>1, TailFacts
  <2>3. Head(tasks).by = current
    BY <2>2 DEF Own
  <2>4. CASE UNCHANGED <<cm, cbuf>> /\ \/ UNCHANGED <<main, unloaded>>
                                       \/ main' = Head(tasks).by /\ unloaded' = {}
    <3>1. Own'
      BY <1>0, <1>1, <2>2, <2>3, <2>4 DEF Own
    <3>2. Phase'
      BY <1>0, <1>1, <2>4 DEF Phase
    <3>3. Presented'
      BY <1>0, <1>1, <2>1, <2>2, <2>4 DEF Presented
    <3> QED
      BY <3>1, <3>2, <3>3
  <2>5. CASE /\ cm.connecting /\ ~Head(tasks).reload /\ FinaliseJoiningServer(Head(tasks).by)
             /\ UNCHANGED <<main, unloaded>>
    <3>1. current \notin unloaded
      BY <2>2, <2>5 DEF Presented
    <3> QED
      BY <1>0, <2>1, <2>2, <2>3, <2>5, <3>1, FinaliseClean
  <2> QED
    BY <1>2, <2>4, <2>5 DEF RunTask, IsCancelled
<1>3. CASE FinishTask
  <2>1. main = current /\ main # 0 /\ main' = 0 /\ UNCHANGED <<tasks, unloaded>> /\ Left
    BY <1>3 DEF FinishTask, Own, Left
  <2>2. CASE UNCHANGED <<cm, cbuf>>
    <3>1. Own'
      BY <1>0, <1>1, <2>1, <2>2 DEF Own
    <3>2. Phase'
      BY <1>0, <1>1, <2>2 DEF Phase
    <3>3. Presented'
      BY <1>0, <1>1, <2>1, <2>2 DEF Presented
    <3> QED
      BY <3>1, <3>2, <3>3
  <2>3. CASE FinaliseJoiningServer(main)
    <3>1. current \notin unloaded
      BY <2>1 DEF Presented
    <3> QED
      BY <1>0, <2>1, <2>3, <3>1, FinaliseClean
  <2> QED
    BY <1>3, <2>2, <2>3 DEF FinishTask
<1> QED
  BY <1>2, <1>3

LEMMA ConnectCounts ==
  ASSUME NEW mode, NEW to, NEW map, NEW commands, Connect(mode, to, map, commands)
  PROVE  current' = current + 1 /\ UNCHANGED <<consent, unloaded>>
  BY DEF Connect

(* A command of the queue leaves nothing behind that is not queued already. *)
LEMMA CommandsClean ==
  ASSUME TypeInv, Own, Phase, Presented, ExecuteCommand, UNCHANGED <<current, thread>>
  PROVE  Own' /\ Phase' /\ Presented'
<1>0. /\ cm \in Fields /\ cbuf \in Seq(Commands) /\ cbuf # <<>>
      /\ UNCHANGED <<current, ms, request, asked, thread, tasks, main, filter, dialog>>
  BY FieldTypes DEF ExecuteCommand, ExecDisconnect, ExecConnect, ExecMap, MapNotFound, LoadOrDefer, ExecRetry, IsNext, commandOnly
<1>1. Tail(cbuf) \in Seq(Commands) /\ \A i \in DOMAIN Tail(cbuf) : \E j \in DOMAIN cbuf : Tail(cbuf)[i] = cbuf[j]
  BY <1>0, TailFacts
<1>2. UNCHANGED <<unloaded, consent>>
  BY ConnectCounts DEF ExecuteCommand, ExecDisconnect, ExecConnect, ExecMap, MapNotFound, LoadOrDefer, ExecRetry, history
<1>3. \A i \in DOMAIN cbuf' : cbuf'[i].by = 0 \/ \E j \in DOMAIN cbuf : cbuf'[i] = cbuf[j]
  <2>1. CASE cbuf' = Tail(cbuf)
    BY <1>1, <2>1
  <2>2. CASE cbuf' = Append(Tail(cbuf), Command("connect", lastAddress, 0))
    <3>1. Command("connect", lastAddress, 0) \in Commands
      BY ConstantsAssumption DEF Command, Commands, TypeInv, TypeOK
    <3>2. Command("connect", lastAddress, 0).by = 0
      BY DEF Command
    <3>3. \A i \in DOMAIN cbuf' : cbuf'[i].by = 0 \/ \E j \in DOMAIN Tail(cbuf) : cbuf'[i] = Tail(cbuf)[j]
      BY <1>1, <2>2, <3>1, <3>2, AppendQuiet
    <3> QED
      BY <1>1, <3>3
  <2>3. \A mode, to, map, commands : ~Connect(mode, to, map, commands)
    BY <1>0, FieldTypes, ConnectCounts
  <2> QED
    BY <2>1, <2>2, <2>3 DEF ExecuteCommand, ExecDisconnect, ExecConnect, ExecMap, MapNotFound, LoadOrDefer, ExecRetry
<1>4. CASE ExecDisconnect
  <2>1. ~cm'.connecting /\ cm'.accept = "NOT_DECIDED"
    BY <1>0, <1>4, ResetFacts DEF ExecDisconnect
  <2> QED
    BY <1>0, <1>2, <1>3, <2>1, QuietStep
<1>5. ASSUME \/ UNCHANGED cm
             \/ cm' = [cm EXCEPT !.localRetry = FALSE] \/ cm' = [cm EXCEPT !.localRetry = TRUE]
             \/ cm' = [cm EXCEPT !.retrying = TRUE] \/ cm' = [cm EXCEPT !.authorized = FALSE]
             \/ \E m \in Maps : cm' = [cm EXCEPT !.map = m]
      PROVE  Own' /\ Phase' /\ Presented'
  <2>1. /\ cm'.connecting = cm.connecting /\ cm'.mode = cm.mode /\ cm'.authSuccessful = cm.authSuccessful
        /\ cm'.downloadedMods = cm.downloadedMods /\ cm'.accept = cm.accept
        /\ cm'.authorized => cm.authorized
    BY <1>0, <1>5 DEF Fields
  <2> QED
    BY <1>0, <1>2, <1>3, <2>1, QuietStep
<1>6. \A mode, to, map, commands : ~Connect(mode, to, map, commands)
  BY <1>0, FieldTypes, ConnectCounts
<1>7. CASE ExecConnect \/ ExecRetry
  BY <1>5, <1>6, <1>7 DEF ExecConnect, ExecRetry
<1>8. CASE ExecMap
  <2>1. Head(cbuf).arg \in Maps
    BY <1>0, <1>8, CommandFacts DEF ExecMap, MapNotFound, LoadOrDefer, IsNext
  <2> QED
    BY <1>5, <1>6, <1>8, <2>1 DEF ExecMap, MapNotFound, LoadOrDefer, DeferMapLoad
<1> QED
  BY <1>4, <1>7, <1>8 DEF ExecuteCommand

LEMMA PlayerClean ==
  ASSUME TypeInv, Own, Phase, Presented, TypeCommand \/ NSCancelConnection \/ Answer
  PROVE  Own' /\ Phase' /\ Presented'
<1>0. cm \in Fields /\ cbuf \in Seq(Commands) /\ 0 \notin Attempts
  BY FieldTypes
<1>1. CASE TypeCommand
  <2>1. PICK c \in Commands : c.by = 0 /\ cbuf' = <<c>>
    BY <1>1, TypedFacts
  <2>2. \A i \in DOMAIN cbuf' : cbuf'[i].by = 0 \/ \E j \in DOMAIN cbuf : cbuf'[i] = cbuf[j]
    BY <2>1
  <2>3. UNCHANGED <<cm, thread, ms, request, asked, filter, tasks, main, dialog, current, unloaded, consent>>
    BY <1>1, TypedFacts DEF history
  <2>4. cm.connecting \/ ~cm'.connecting
    BY <2>3
  <2> QED
    BY <2>2, <2>3, <2>4, QuietStep
<1>2. CASE NSCancelConnection
  <2>1. /\ ~cm'.connecting /\ cm'.accept = "NOT_DECIDED"
        /\ cbuf' = cbuf \/ cbuf' = Append(cbuf, Command("disconnect", "none", 0))
    BY <1>0, <1>2, InterruptFacts DEF NSCancelConnection
  <2>2. Command("disconnect", "none", 0) \in Commands /\ Command("disconnect", "none", 0).by = 0
    BY ConstantsAssumption DEF Command, Commands
  <2>3. \A i \in DOMAIN cbuf' : cbuf'[i].by = 0 \/ \E j \in DOMAIN cbuf : cbuf'[i] = cbuf[j]
    BY <1>0, <2>1, <2>2, AppendQuiet
  <2>4. UNCHANGED <<thread, ms, request, asked, filter, tasks, main, dialog, current, unloaded, consent>>
    BY <1>2 DEF NSCancelConnection, commandOnly, history
  <2> QED
    BY <2>1, <2>3, <2>4, QuietStep
<1>3. ASSUME NEW choice \in Choices, NSDecideModDownload(choice) PROVE Own' /\ Phase' /\ Presented'
  <2>1. /\ dialog = current /\ dialog' = 0
        /\ consent' = IF choice = "DENIED" THEN consent ELSE consent \cup {current}
        /\ UNCHANGED <<ms, thread, request, asked, filter, cbuf, tasks, main, current, unloaded>>
    BY <1>3 DEF NSDecideModDownload, Own
  <2>2. /\ cm'.connecting = cm.connecting /\ cm'.authSuccessful = cm.authSuccessful /\ cm'.mode = cm.mode
        /\ cm'.accept = choice /\ cm'.authorized = cm.authorized /\ cm'.downloadedMods = cm.downloadedMods
    BY <1>0, <1>3 DEF NSDecideModDownload, Fields
  <2>3. Pc' = Pc /\ Mode' = Mode /\ Target' = Target /\ Left' = Left
    BY <2>1 DEF Pc, Mode, Target, Left
  <2>4. Own'
    BY <2>1, <2>3 DEF Own
  <2>5. Phase'
    BY <2>1, <2>2, <2>3 DEF Phase
  <2>6. Presented'
    BY <2>1, <2>2, <2>3 DEF Presented
  <2> QED
    BY <2>4, <2>5, <2>6
<1> QED
  BY <1>1, <1>2, <1>3 DEF Answer

LEMMA EngineClean ==
  ASSUME TypeInv, Own, Phase, Presented, EngineConnected \/ HostDisconnect
  PROVE  Own' /\ Phase' /\ Presented'
<1>1. ~cm'.connecting /\ cm'.accept = "NOT_DECIDED"
  BY FieldTypes, ResetFacts DEF EngineConnected, HostDisconnect
<1>2. /\ UNCHANGED <<thread, ms, request, asked, filter, cbuf, tasks, main, dialog, current, unloaded, consent>>
      /\ \A i \in DOMAIN cbuf' : cbuf'[i].by = 0 \/ \E j \in DOMAIN cbuf : cbuf'[i] = cbuf[j]
  BY DEF EngineConnected, HostDisconnect, commandOnly, history
<1> QED
  BY <1>1, <1>2, QuietStep

(* An attempt that starts at rest has nothing but its thread. *)
LEMMA ConnectClean ==
  ASSUME TypeInv, Historic, NEW mode \in Modes, NEW to \in Places, NEW map \in Maps \cup {"none"},
         NEW commands \in Seq(Commands), mode = "Remote" => to \in Servers,
         Connect(mode, to, map, commands), UNCHANGED <<ms, request, asked, tasks, main, dialog>>
  PROVE  Historic' /\ CleanInv'
<1> DEFINE a == current + 1
<1>0. Attempts \subseteq Nat /\ 0 \notin Attempts /\ current \in Nat
  BY FieldTypes
<1>1. /\ a \in Attempts /\ current' = a
      /\ clean' = IF AtRest(commands) THEN clean \cup {a} ELSE clean
      /\ UNCHANGED <<consent, unloaded>>
      /\ thread'[a].mode = mode /\ thread'[a].to = to /\ thread'[a].addr = to
      /\ thread'[a].pc \in {"agreed", "over"}
      /\ \A b \in Attempts : b # a => thread'[b] = thread[b]
      /\ cm'.mode = mode /\ cm'.accept = "NOT_DECIDED"
      /\ \/ cbuf' = commands /\ ~cm'.authorized
         \/ /\ mode = "Local" /\ cm'.authSuccessful
            /\ \/ cbuf' = Append(commands, Command("retry", "none", 0))
               \/ cbuf' = Append(commands, Command("map", cm'.map, 0))
  BY ConnectFacts
<1>2. a \notin clean /\ a \notin unloaded /\ 1 .. current \subseteq 1 .. a /\ a \in 1 .. a
  BY <1>0 DEF Historic
<1>3. Historic'
  <2>1. \A b \in Attempts : thread'[b].pc # "over" => b <= a
    BY <1>0, <1>1 DEF Historic
  <2> QED
    BY <1>1, <1>2, <2>1 DEF Historic
<1>4. ASSUME a \in clean' PROVE Own' /\ Phase' /\ Presented'
  <2>1. AtRest(commands)
    BY <1>1, <1>2, <1>4
  <2>2. /\ \A b \in Attempts : b # a => thread'[b].pc = "over"
        /\ request' = {} /\ asked' = {} /\ dialog' = 0 /\ tasks' = <<>> /\ main' = 0
        /\ commands = <<>>
    BY <1>1, <2>1 DEF AtRest
  <2>3. cbuf' = <<>> \/ \E c : cbuf' = <<c>> /\ c.by = 0
    BY <1>1, <2>2 DEF Command
  <2>4. \A i \in DOMAIN cbuf' : cbuf'[i].by = 0
    BY <2>3
  <2>5. /\ Pc' = thread'[a].pc /\ Mode' = mode /\ Target' = to /\ ~Left'
    BY <1>1, <2>2, <2>4 DEF Pc, Mode, Target, Left
  <2>6. Own'
    BY <1>1, <2>2, <2>4, <2>5 DEF Own
  <2>7. Phase'
    BY <1>1, <2>2, <2>5 DEF Phase
  <2>8. Presented'
    BY <1>1, <1>2, <2>2, <2>4, <2>5 DEF Presented, Passed
  <2> QED
    BY <2>6, <2>7, <2>8
<1> QED
  BY <1>1, <1>3, <1>4 DEF CleanInv

(* A step that starts no attempt. *)
LEMMA HistoricKept ==
  ASSUME TypeInv, Historic, UNCHANGED <<current, clean>>,
         \A a \in unloaded' : a \in unloaded \/ (a \in Attempts /\ thread[a].pc # "over"),
         \A a \in Attempts : thread'[a].pc # "over" => thread[a].pc # "over"
  PROVE  Historic'
<1>0. current \in Nat /\ MaxAttempts \in Nat
  BY FieldTypes, ConstantsAssumption
<1>1. ASSUME NEW a \in Attempts, thread[a].pc # "over" PROVE a \in 1 .. current
  <2>1. a <= current /\ a \in 1 .. MaxAttempts
    BY <1>1 DEF Historic, Attempts
  <2> QED
    BY <1>0, <2>1
<1>2. unloaded' \subseteq 1 .. current
  BY <1>1 DEF Historic
<1> QED
  BY <1>2 DEF Historic

LEMMA ThreadClean ==
  ASSUME TypeInv, AuthenticationNotStuck, Historic, CleanInv, NEW a \in Attempts, ThreadStep(a)
  PROVE  Historic' /\ CleanInv'
<1>0. thread \in [Attempts -> ThreadFields]
  BY FieldTypes
<1>1. /\ UNCHANGED <<current, clean>> /\ unloaded' \subseteq unloaded \cup {a} /\ thread[a].pc # "over"
      /\ \A b \in Attempts : b # a => thread'[b] = thread[b]
  <2>1. CASE ThreadWaits(a)
    <3>1. PICK p \in Points : GoOn(a, p) \/ InterruptAnd(a, p)
      BY <2>1, WaitsFacts
    <3>2. UNCHANGED <<current, clean, unloaded>> /\ To(a, p)
      BY <3>1 DEF GoOn, InterruptAnd, threadOnly
    <3> QED
      BY <1>0, <2>1, <3>2, WaitsFacts, ToFacts
  <2>2. CASE ThreadActs(a)
    <3>1. UNCHANGED <<current, clean>> /\ unloaded' \subseteq unloaded \cup {a}
      BY <2>2 DEF ThreadActs, StartOriginAuth, SendAuthentication, UseAuthentication, SendInfoRequestPacket,
         NotifyConfirmDownloadMods, DownloadMods, ReloadModsAndConnect, JoinFromThread,
         FinaliseJoiningLocalServer, history, threadOnly
    <3>2. thread[a].pc # "over"
      BY <2>2 DEF ThreadActs, StartOriginAuth, SendAuthentication, UseAuthentication, SendInfoRequestPacket,
         NotifyConfirmDownloadMods, DownloadMods, ReloadModsAndConnect, JoinFromThread,
         FinaliseJoiningLocalServer, At
    <3>3. \/ UNCHANGED thread \/ \E p : To(a, p)
          \/ thread' = [thread EXCEPT ![a].pc = "prepare", ![a].addr = ms.pending]
      BY <2>2 DEF ThreadActs, StartOriginAuth, SendAuthentication, UseAuthentication, SendInfoRequestPacket,
         NotifyConfirmDownloadMods, DownloadMods, ReloadModsAndConnect, JoinFromThread,
         FinaliseJoiningLocalServer
    <3> QED
      BY <1>0, <3>1, <3>2, <3>3 DEF To
  <2> QED
    BY <2>1, <2>2 DEF ThreadStep
<1>2. Historic'
  BY <1>1, HistoricKept
<1>3. ASSUME Own, Phase, Presented PROVE Own' /\ Phase' /\ Presented'
  <2>1. UNCHANGED current
    BY <1>1
  <2>2. CASE ThreadWaits(a)
    BY <1>3, <2>1, <2>2, WaitsClean
  <2>3. CASE ThreadActs(a)
    BY <1>3, <2>1, <2>3, ActsClean
  <2> QED
    BY <2>2, <2>3 DEF ThreadStep
<1> QED
  BY <1>1, <1>2, <1>3 DEF CleanInv

(* A command may start the next attempt. *)
LEMMA CommandsHistoric ==
  ASSUME TypeInv, Historic, CleanInv, ExecuteCommand
  PROVE  Historic' /\ CleanInv'
<1>0. cbuf # <<>>
  BY DEF ExecuteCommand, ExecDisconnect, ExecConnect, ExecMap, MapNotFound, LoadOrDefer, ExecRetry, IsNext
<1>1. CASE UNCHANGED <<thread, history>>
  <2>1. Historic'
    BY <1>1, HistoricKept DEF history
  <2>2. CleanInv'
    BY <1>1, CommandsClean DEF history, CleanInv
  <2> QED
    BY <2>1, <2>2
<1>2. ASSUME NEW mode \in Modes, NEW to \in Places, NEW map \in Maps \cup {"none"},
             mode = "Remote" => to \in Servers, Connect(mode, to, map, Tail(cbuf)), UNCHANGED commandOnly
      PROVE  Historic' /\ CleanInv'
  <2>1. Tail(cbuf) \in Seq(Commands) /\ UNCHANGED <<ms, request, asked, tasks, main, dialog>>
    BY <1>0, <1>2, CommandFacts DEF commandOnly
  <2> QED
    BY <1>2, <2>1, ConnectClean
<1>3. CASE ExecConnect
  <2> DEFINE to   == Head(cbuf).arg
             mode == IF cm.retrying THEN cm.mode ELSE IF to = "own" THEN "Local" ELSE "Direct"
  <2>1. to \in Places /\ mode \in Modes
    BY <1>0, <1>3, CommandFacts, FieldTypes DEF ExecConnect, IsNext, Fields, Modes
  <2>2. CASE Connect(mode, IF mode = "Remote" THEN cm.lastServer ELSE to, "none", Tail(cbuf))
    <3>1. mode = "Remote" => cm.lastServer \in Servers
      BY DEF TypeInv, RemoteNamed
    <3>2. PICK place \in Places : place = IF mode = "Remote" THEN cm.lastServer ELSE to
      BY <2>1, <3>1 DEF Places
    <3>3. mode = "Remote" => place \in Servers
      BY <3>1, <3>2
    <3> HIDE DEF mode
    <3>4. Connect(mode, place, "none", Tail(cbuf)) /\ UNCHANGED commandOnly
      BY <1>3, <2>2, <3>2 DEF ExecConnect
    <3> QED
      BY <1>2, <2>1, <3>3, <3>4
  <2> QED
    BY <1>1, <1>3, <2>2 DEF ExecConnect
<1>4. CASE ExecMap
  <2>1. PICK m \in Maps : m = Head(cbuf).arg
    BY <1>0, <1>4, CommandFacts DEF ExecMap, MapNotFound, LoadOrDefer, IsNext
  <2>2. CASE Connect("Local", "own", m, Tail(cbuf))
    <3>1. "Local" \in Modes /\ "own" \in Places /\ m \in Maps \cup {"none"}
      BY DEF Modes, Places
    <3> QED
      BY <1>2, <1>4, <2>2, <3>1 DEF ExecMap, MapNotFound, LoadOrDefer
  <2> QED
    BY <1>1, <1>4, <2>1, <2>2 DEF ExecMap, MapNotFound, LoadOrDefer
<1> QED
  BY <1>1, <1>3, <1>4 DEF ExecuteCommand, ExecDisconnect, ExecRetry

LEMMA StepClean ==
  TypeInv /\ AuthenticationNotStuck /\ Historic /\ CleanInv /\ [Next]_vars => Historic' /\ CleanInv'
<1> SUFFICES ASSUME TypeInv, AuthenticationNotStuck, Historic, CleanInv, [Next]_vars
             PROVE  Historic' /\ CleanInv'
  OBVIOUS
<1>1. ASSUME UNCHANGED <<thread, current, clean>>, unloaded' \subseteq unloaded,
             Own /\ Phase /\ Presented => Own' /\ Phase' /\ Presented'
      PROVE  Historic' /\ CleanInv'
  <2>1. Historic'
    BY <1>1, HistoricKept
  <2> QED
    BY <1>1, <2>1 DEF CleanInv
<1>2. CASE OriginAuthDone \/ (\E a \in Attempts : AuthResult(a)) \/ \E s \in Servers : NotifyArrives(s)
  <2>1. UNCHANGED <<thread, current, clean, unloaded>>
    BY <1>2 DEF OriginAuthDone, AuthResult, NotifyArrives, history
  <2> QED
    BY <1>1, <1>2, <2>1, IncomingClean
<1>3. CASE RunTask \/ FinishTask
  <2>1. UNCHANGED <<thread, current, clean>> /\ unloaded' \subseteq unloaded
    BY <1>3 DEF RunTask, FinishTask, taskOnly
  <2> QED
    BY <1>1, <1>3, <2>1, TasksClean
<1>4. CASE TypeCommand \/ NSCancelConnection \/ Answer
  <2>1. UNCHANGED <<thread, current, clean, unloaded>>
    BY <1>4, TypedFacts DEF NSCancelConnection, Answer, NSDecideModDownload, history
  <2> QED
    BY <1>1, <1>4, <2>1, PlayerClean
<1>5. ASSUME NEW s \in Servers, ConnectWithRemoteId(s) PROVE Historic' /\ CleanInv'
  <2>1. "Remote" \in Modes /\ s \in Places
    BY DEF Modes, Places
  <2> QED
    BY <1>5, <2>1, FieldTypes, ConnectClean DEF ConnectWithRemoteId
<1>6. CASE EngineConnected \/ HostDisconnect
  <2>1. UNCHANGED <<thread, current, clean, unloaded>>
    BY <1>6 DEF EngineConnected, HostDisconnect, history
  <2> QED
    BY <1>1, <1>6, <2>1, EngineClean
<1>7. CASE UNCHANGED vars
  <2>1. Pc' = Pc /\ Mode' = Mode /\ Target' = Target /\ Left' = Left
    BY <1>7 DEF vars, history, Pc, Mode, Target, Left
  <2>2. Own /\ Phase /\ Presented => Own' /\ Phase' /\ Presented'
    BY <1>7, <2>1 DEF vars, history, Own, Phase, Presented
  <2> QED
    BY <1>1, <1>7, <2>2 DEF vars, history
<1> QED
  BY <1>2, <1>3, <1>4, <1>5, <1>6, <1>7, ThreadClean, CommandsHistoric DEF Next, Player

LEMMA CleanInvariant == Spec => []CleanInv
<1>1. Init => Historic /\ CleanInv
  BY ConstantsAssumption DEF Init, Historic, CleanInv
<1> QED
  BY <1>1, StepClean, TypeInvariant, FlagIsReleased, PTL DEF Spec

-----------------------------------------------------------------------------
(* What a clean attempt may rely on. *)

(* The engine joins a server for a clean attempt only at its address, with *)
(* that server's token and the downloaded mods loaded.                     *)
THEOREM CleanAttemptJoinsItsServer == Spec => CleanJoin
<1> DEFINE Joined == joining' # joining /\ joining' \in Servers /\ current \in clean /\ Head(cbuf).by # 0 =>
                       /\ Head(cbuf).by = current
                       /\ joining' = thread[current].to
                       /\ filter = joining'
                       /\ current \notin unloaded
<1>1. TypeInv /\ CleanInv /\ [Next]_vars => [Joined]_vars
  <2> SUFFICES ASSUME TypeInv, CleanInv, Next, joining' # joining, joining' \in Servers,
                      current \in clean, Head(cbuf).by # 0
               PROVE  /\ Head(cbuf).by = current
                      /\ joining' = thread[current].to
                      /\ filter = joining'
                      /\ current \notin unloaded
    OBVIOUS
  <2>1. ExecConnect /\ joining' = Head(cbuf).arg
    <3>1. ~UNCHANGED external /\ ~LoadMap /\ joining' # "none"
      BY ConstantsAssumption DEF external, LoadMap, Joins
    <3>2. ASSUME NEW a \in Attempts PROVE ~ThreadStep(a) /\ ~AuthResult(a)
      <4>1. ~ThreadWaits(a)
        BY <3>1, WaitsFacts DEF GoOn, InterruptAnd, threadOnly
      <4>2. ~ThreadActs(a)
        BY <3>1 DEF ThreadActs, StartOriginAuth, SendAuthentication, UseAuthentication, SendInfoRequestPacket,
         NotifyConfirmDownloadMods, DownloadMods, ReloadModsAndConnect, JoinFromThread,
         FinaliseJoiningLocalServer, threadOnly
      <4> QED
        BY <3>1, <4>1, <4>2 DEF ThreadStep, AuthResult
    <3>3. ~OriginAuthDone /\ ~RunTask /\ ~FinishTask /\ \A s \in Servers : ~NotifyArrives(s)
      BY <3>1 DEF OriginAuthDone, NotifyArrives, RunTask, FinishTask, taskOnly
    <3>4. ~Player /\ ~Answer /\ ~EngineConnected /\ ~HostDisconnect
      BY <3>1 DEF Player, TypeCommand, Type, ConnectWithRemoteId, NSCancelConnection, Answer,
                  NSDecideModDownload, EngineConnected, HostDisconnect
    <3>5. ExecConnect
      BY <3>1, <3>2, <3>3, <3>4 DEF Next, ExecuteCommand, ExecDisconnect, ExecMap, MapNotFound, LoadOrDefer, ExecRetry, DeferMapLoad
    <3> QED
      BY <3>1, <3>5 DEF ExecConnect, Joins
  <2>2. cbuf # <<>> /\ Head(cbuf).cmd = "connect"
    BY <2>1 DEF ExecConnect, IsNext
  <2>3. 1 \in DOMAIN cbuf /\ Head(cbuf) = cbuf[1]
    BY <2>2, FieldTypes, TailFacts
  <2>4. Left
    BY <2>3 DEF Left
  <2> QED
    BY <2>1, <2>2, <2>3, <2>4 DEF CleanInv, Own, Presented, Target
<1> QED
  BY <1>1, TypeInvariant, CleanInvariant, PTL DEF Spec, CleanJoin

(* A clean attempt downloads only what the player agreed to at its own     *)
(* prompt: no answer of another one is left in m_iDownloadAccept.          *)
THEOREM CleanAttemptAsksFirst == Spec => ConsentedDownload
<1> DEFINE Asked == (unloaded' \ unloaded) \cap clean \cap {current} \subseteq consent
<1>1. TypeInv /\ CleanInv /\ [Next]_vars => [Asked]_vars
  <2> SUFFICES ASSUME TypeInv, CleanInv, Next, current \in unloaded' \ unloaded, current \in clean
               PROVE  current \in consent
    OBVIOUS
  <2>1. ~(unloaded' \subseteq unloaded)
    OBVIOUS
  <2>2. ASSUME NEW a \in Attempts PROVE ~ThreadWaits(a)
    BY <2>1, WaitsFacts DEF GoOn, InterruptAnd
  <2>3. ~OriginAuthDone /\ ~RunTask /\ ~FinishTask
        /\ (\A s \in Servers : ~NotifyArrives(s)) /\ \A a \in Attempts : ~AuthResult(a)
    BY <2>1 DEF OriginAuthDone, NotifyArrives, AuthResult, RunTask, FinishTask, history
  <2>4. ~ExecuteCommand
    BY <2>1, ConnectCounts DEF ExecuteCommand, ExecDisconnect, ExecConnect, ExecMap, MapNotFound, LoadOrDefer, ExecRetry, history
  <2>5. ~Player /\ ~Answer /\ ~EngineConnected /\ ~HostDisconnect
    BY <2>1, ConnectCounts DEF Player, TypeCommand, Type, ConnectWithRemoteId, NSCancelConnection, Answer,
                NSDecideModDownload, EngineConnected, HostDisconnect, history
  <2>6. PICK a \in Attempts : ThreadActs(a)
    BY <2>2, <2>3, <2>4, <2>5 DEF Next, ThreadStep
  <2>7. DownloadMods(a)
    BY <2>1, <2>6 DEF ThreadActs, StartOriginAuth, SendAuthentication, UseAuthentication, SendInfoRequestPacket,
         NotifyConfirmDownloadMods, ReloadModsAndConnect, JoinFromThread,
         FinaliseJoiningLocalServer, history
  <2>8. a = current /\ Pc = "download"
    BY <2>7 DEF DownloadMods, At, Pc
  <2> QED
    BY <2>8 DEF CleanInv, Phase
<1> QED
  BY <1>1, TypeInvariant, CleanInvariant, PTL DEF Spec, ConsentedDownload

(* The listen server of a clean attempt starts only after the master       *)
(* server authenticated it, or where insecure play is allowed.             *)
THEOREM CleanAttemptLoadsWhenAuthenticated == Spec => LoadAuthenticated
<1> DEFINE Loaded == ~server /\ server' /\ current \in clean => cm.authSuccessful /\ cm.mode = "Local"
<1>1. TypeInv /\ CleanInv /\ [Next]_vars => [Loaded]_vars
  <2> SUFFICES ASSUME TypeInv, CleanInv, Next, ~server, server', current \in clean
               PROVE  cm.authSuccessful /\ cm.mode = "Local"
    OBVIOUS
  <2>1. ~UNCHANGED external /\ ~UNCHANGED server /\ ~(server' = FALSE)
    BY DEF external
  <2>2. ASSUME NEW a \in Attempts PROVE ~ThreadStep(a) /\ ~AuthResult(a)
    <3>1. ~ThreadWaits(a)
      BY <2>1, WaitsFacts DEF GoOn, InterruptAnd, threadOnly
    <3>2. ~ThreadActs(a)
      BY <2>1 DEF ThreadActs, StartOriginAuth, SendAuthentication, UseAuthentication, SendInfoRequestPacket,
       NotifyConfirmDownloadMods, DownloadMods, ReloadModsAndConnect, JoinFromThread,
       FinaliseJoiningLocalServer, threadOnly
    <3> QED
      BY <2>1, <3>1, <3>2 DEF ThreadStep, AuthResult
  <2>3. ~OriginAuthDone /\ ~RunTask /\ ~FinishTask /\ \A s \in Servers : ~NotifyArrives(s)
    BY <2>1 DEF OriginAuthDone, NotifyArrives, RunTask, FinishTask, taskOnly
  <2>4. ~Player /\ ~Answer /\ ~EngineConnected /\ ~HostDisconnect
    BY <2>1 DEF Player, TypeCommand, Type, ConnectWithRemoteId, NSCancelConnection, Answer,
                NSDecideModDownload, EngineConnected, HostDisconnect
  <2>5. \E m : DeferMapLoad(m) /\ ~UNCHANGED external
    BY <2>1, <2>2, <2>3, <2>4 DEF Next, ExecuteCommand, ExecDisconnect, ExecConnect, ExecMap, MapNotFound, LoadOrDefer, ExecRetry
  <2>6. cm.connecting /\ cm.authorized
    BY <2>5 DEF DeferMapLoad
  <2> QED
    BY <2>6 DEF CleanInv, Phase
<1> QED
  BY <1>1, TypeInvariant, CleanInvariant, PTL DEF Spec, LoadAuthenticated
=============================================================================
