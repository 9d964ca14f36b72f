----------------------------- MODULE ServerPresence -----------------------------
(***************************************************************************)
(* How a server keeps itself on the master server's list                   *)
(* (src/src/engine/server/serverpresence.cpp, MasterServerPresenceReporter *)
(* in masterserver.cpp, and the hooks of engine/host_state.cpp).           *)
(*                                                                         *)
(* While a game runs the main thread registers the server, sends a         *)
(* heartbeat every few seconds, and removes it when the game ends.  The    *)
(* requests run on threads of their own; the main thread looks for their   *)
(* results in every frame.  A game that ends does not wait for them: the   *)
(* next game, or nobody, gets their results.                               *)
(*                                                                         *)
(* A step of the main thread is a whole hook; what the master server does  *)
(* and answers is a choice.                                                *)
(***************************************************************************)
EXTENDS Naturals

CONSTANTS
  Infos,            \* what a server tells of itself: name, map, players, ...
  MaxRegistrations, \* MAX_REGISTRATION_ATTEMPTS
  MaxGames,         \* bound: games of the process
  MaxIds            \* bound: ids the master server gives

ASSUME PresenceAssumption ==
  /\ Infos # {} /\ MaxRegistrations \in Nat \ {0}
  /\ MaxGames \in Nat /\ MaxIds \in Nat

VARIABLES
  hasPresence, \* m_bHasPresence
  firstUpdate, \* m_bFirstPresenceUpdate
  info,        \* m_ServerPresence
  reports,     \* whether the convars have this server reported
  due,         \* the update rate has passed since m_flLastPresenceUpdate
  reporter,    \* the MasterServerPresenceReporter, and m_sOwnServerId
  removals,    \* ids that detached threads ask to be removed
  lastId,      \* the last id the master server gave
  game,        \* history: number of the game
  tries        \* history: registrations begun since the reporter's CreatePresence

presence == <<hasPresence, firstUpdate, info, reports>>
vars == <<presence, due, reporter, removals, lastId, game, tries>>

-----------------------------------------------------------------------------
Ids == 1 .. MaxIds
Failures == {"FailedNoRetry", "FailedNoConnect", "Failed", "FailedDuplicateServer"}

\* A future: nothing, a request under way, or its result.  for is the id a heartbeat is for, id
\* the one in the answer or 0, and of the game in which the request began.
Request == [result : {"none", "pending", "Success"} \cup Failures,
            for : Ids \cup {0}, id : Ids \cup {0}, info : Infos, of : 0 .. MaxGames]

Nothing == [result |-> "none", for |-> 0, id |-> 0, info |-> CHOOSE x \in Infos : TRUE, of |-> 0]
Begun(i) == [result |-> "pending", for |-> i, id |-> 0, info |-> info, of |-> game]

IsValid(f) == f.result # "none"
IsReady(f) == f.result \notin {"none", "pending"}

(* ownId is m_sOwnServerId, 0 when empty; attempts m_nNumRegistrationAttempts; *)
(* cooldown whether m_fNextAddServerAttemptTime is still to come, which nothing *)
(* sets before the first duplicate; add and update are the two futures.         *)
Reporter == [ownId : Ids \cup {0}, attempts : 0 .. MaxRegistrations,
             cooldown : {"over", "running", "garbage"}, add : Request, update : Request]

TypeOK ==
  /\ {hasPresence, firstUpdate, reports, due} \subseteq BOOLEAN /\ info \in Infos
  /\ reporter \in Reporter
  /\ removals \subseteq Ids /\ lastId \in 0 .. MaxIds
  /\ game \in 0 .. MaxGames /\ tries \in Nat

Init ==
  /\ hasPresence = FALSE /\ firstUpdate = FALSE /\ info \in Infos /\ reports \in BOOLEAN
  /\ due = TRUE
  /\ \E c \in {"over", "garbage"} :
       reporter = [ownId |-> 0, attempts |-> 0, cooldown |-> c, add |-> Nothing, update |-> Nothing]
  /\ removals = {} /\ lastId = 0 /\ game = 0 /\ tries = 0

-----------------------------------------------------------------------------
(* The reporter's part of a frame, on its record r.                         *)

AddResult(r) ==
  CASE r.add.result = "Success"         -> [r EXCEPT !.ownId = r.add.id]
    [] r.add.result = "Failed"          -> [r EXCEPT !.attempts = @ + 1]
    [] r.add.result = "FailedDuplicateServer" -> [r EXCEPT !.attempts = @ + 1, !.cooldown = "running"]
    [] OTHER                            -> [r EXCEPT !.attempts = MaxRegistrations]

\* Mutant: the result of a heartbeat that failed stays in the future.
UpdateResult_KeepsFailure(r) ==
  IF r.update.result # "Success" THEN r
  ELSE [r EXCEPT !.update = Nothing, !.ownId = IF r.update.id = 0 THEN @ ELSE r.update.id]

\* A master server that has lost the server registers it again and answers the new id.
UpdateResult(r) ==
  [r EXCEPT !.update = Nothing,
            !.ownId = IF r.update.result = "Success" /\ r.update.id # 0 THEN r.update.id ELSE @]

\* Mutant: the result of a heartbeat is taken while a registration is under way.
Collected_UpdateFirst(r) ==
  IF IsReady(r.update) THEN UpdateResult(r)
  ELSE IF IsReady(r.add) THEN [AddResult(r) EXCEPT !.add = Nothing]
  ELSE r

\* RunFrame: a registration under way keeps the result of a heartbeat waiting.
Collected(r) ==
  IF IsValid(r.add)
  THEN IF IsReady(r.add) THEN [AddResult(r) EXCEPT !.add = Nothing] ELSE r
  ELSE IF IsReady(r.update) THEN UpdateResult(r) ELSE r

CreateReport(r) == [r EXCEPT !.attempts = 0]

\* Mutant: the attempts are compared one too late.
MayRegister_OneMore(r) == r.ownId = 0 /\ r.attempts <= MaxRegistrations /\ r.cooldown = "over"

MayRegister(r) == r.ownId = 0 /\ r.attempts < MaxRegistrations /\ r.cooldown = "over"

ReportPresence(r) ==
  IF MayRegister(r) /\ ~IsValid(r.add) THEN [r EXCEPT !.add = Begun(0)]
  ELSE IF r.ownId # 0 /\ ~IsValid(r.update) THEN [r EXCEPT !.update = Begun(r.ownId)]
  ELSE r

-----------------------------------------------------------------------------
(* The main thread.                                                         *)

\* ServerPresenceManager::RunFrame, in a frame in which the update rate has not passed.
Frame ==
  /\ hasPresence /\ reports /\ ~due
  /\ reporter' = Collected(reporter)
  /\ UNCHANGED <<presence, due, removals, lastId, game, tries>>

\* Mutant: every update is taken for the first one of the game.
FrameReports_AlwaysFirst ==
  /\ hasPresence /\ reports /\ due
  /\ LET created == CreateReport(Collected(reporter))
     IN  /\ reporter' = ReportPresence(created)
         /\ tries' = IF MayRegister(created) /\ ~IsValid(created.add) THEN 1 ELSE 0
  /\ firstUpdate' = FALSE /\ due' = FALSE
  /\ UNCHANGED <<hasPresence, info, reports, removals, lastId, game>>

\* ... and in one in which it has; the first one of a game starts the reporter afresh.
FrameReports ==
  /\ hasPresence /\ reports /\ due
  /\ LET collected == Collected(reporter)
         created   == IF firstUpdate THEN CreateReport(collected) ELSE collected
         begins    == MayRegister(created) /\ ~IsValid(created.add)
         before    == IF firstUpdate THEN 0 ELSE tries
     IN  /\ reporter' = ReportPresence(created)
         /\ tries' = IF begins THEN before + 1 ELSE before
  /\ firstUpdate' = FALSE /\ due' = FALSE
  /\ UNCHANGED <<hasPresence, info, reports, removals, lastId, game>>

\* State_NewGame: CreatePresence and what is set after it.  m_flLastPresenceUpdate stays.
NewGame ==
  /\ ~hasPresence /\ game < MaxGames
  /\ hasPresence' = TRUE /\ firstUpdate' = TRUE
  /\ info' \in Infos /\ reports' \in BOOLEAN
  /\ game' = game + 1
  /\ UNCHANGED <<due, reporter, removals, lastId, tries>>

\* State_GameShutdown: DestroyPresence leaves the futures, the attempts and the cooldown alone.
GameShutdown ==
  /\ hasPresence
  /\ hasPresence' = FALSE
  /\ reporter' = [reporter EXCEPT !.ownId = 0]
  /\ removals' = removals \cup ({reporter.ownId} \ {0})
  /\ UNCHANGED <<firstUpdate, info, reports, due, lastId, game, tries>>

\* The name, the description, the map, the player count, ... change.
SetInfo ==
  /\ info' \in Infos
  /\ UNCHANGED <<hasPresence, firstUpdate, reports, due, reporter, removals, lastId, game, tries>>

SetReports ==
  /\ reports' = ~reports
  /\ UNCHANGED <<hasPresence, firstUpdate, info, due, reporter, removals, lastId, game, tries>>

-----------------------------------------------------------------------------
(* The threads of the requests, and time.                                   *)

\* The master server gives a new id, or refuses, or cannot be reached.
AddServer ==
  /\ reporter.add.result = "pending"
  /\ \/ /\ lastId < MaxIds /\ lastId' = lastId + 1
        /\ reporter' = [reporter EXCEPT !.add.result = "Success", !.add.id = lastId + 1]
     \/ /\ \E result \in Failures : reporter' = [reporter EXCEPT !.add.result = result]
        /\ UNCHANGED lastId
  /\ UNCHANGED <<presence, due, removals, game, tries>>

\* The answer to a heartbeat names no id, the same one, or a new one.
UpdateServer ==
  /\ reporter.update.result = "pending"
  /\ \/ /\ \E i \in {0, reporter.update.for} :
             reporter' = [reporter EXCEPT !.update.result = "Success", !.update.id = i]
        /\ UNCHANGED lastId
     \/ /\ lastId < MaxIds /\ lastId' = lastId + 1
        /\ reporter' = [reporter EXCEPT !.update.result = "Success", !.update.id = lastId + 1]
     \/ /\ reporter' = [reporter EXCEPT !.update.result = "Failed"]
        /\ UNCHANGED lastId
  /\ UNCHANGED <<presence, due, removals, game, tries>>

RemoveServer ==
  /\ \E i \in removals : removals' = removals \ {i}
  /\ UNCHANGED <<presence, due, reporter, lastId, game, tries>>

RatePasses ==
  /\ ~due /\ due' = TRUE
  /\ UNCHANGED <<presence, reporter, removals, lastId, game, tries>>

\* A value that m_fNextAddServerAttemptTime happens to have may be passed too, or never.
CooldownPasses ==
  /\ reporter.cooldown # "over"
  /\ reporter' = [reporter EXCEPT !.cooldown = "over"]
  /\ UNCHANGED <<presence, due, removals, lastId, game, tries>>

Next ==
  \/ Frame \/ FrameReports \/ NewGame \/ GameShutdown \/ SetInfo \/ SetReports
  \/ AddServer \/ UpdateServer \/ RemoveServer \/ RatePasses \/ CooldownPasses

Spec == Init /\ [][Next]_vars

\* Frames come while a server is active, requests end (curl has a time limit) and time passes.
FairSpec ==
  /\ Spec
  /\ WF_vars(Frame) /\ WF_vars(FrameReports)
  /\ WF_vars(AddServer) /\ WF_vars(UpdateServer)
  /\ WF_vars(RatePasses) /\ WF_vars(reporter.cooldown = "running" /\ CooldownPasses)

-----------------------------------------------------------------------------
(* Properties.                                                              *)

\* A game registers its server MAX_REGISTRATION_ATTEMPTS times at most, whatever an earlier game
\* left under way and however results, cooldowns and heartbeats follow each other.
RegistrationsBounded == tries <= MaxRegistrations

\* The server gives up the id it has only with a request to remove it or for the id in the answer
\* to a heartbeat for it; only the answer to a heartbeat of an earlier game can make it forget a
\* server that is listed.
KeepsRegistration ==
  [][ reporter.ownId \notin {0, reporter'.ownId} =>
        \/ reporter.ownId \in removals'
        \/ IsReady(reporter.update) /\ (reporter.update.for = reporter.ownId \/ reporter.update.of < game) ]_vars

Lasts == hasPresence /\ reports
Listed == Lasts /\ reporter.ownId # 0

\* A game that lasts gets its server listed or gives up after its attempts: it never waits for
\* ever for a future, a cooldown or an answer to an earlier game's request.
GetsListed ==
  Lasts /\ reporter.cooldown # "garbage" ~>
    Listed \/ ~Lasts \/ reporter.attempts = MaxRegistrations

\* What a listed server tells of itself is sent some time after it changed, unless it changes again.
ChangesAreSent ==
  \A x \in Infos :
    Listed /\ info = x ~> (IsValid(reporter.update) /\ reporter.update.info = x) \/ info # x \/ ~Listed
=============================================================================
