-------------------------- MODULE ServerPresenceProofs --------------------------
(***************************************************************************)
(* Invariants of ServerPresence.  Good says what holds of the reporter in   *)
(* any state, Fresh what holds of its heartbeat while a game runs, and      *)
(* Counted how many registrations the game may have begun.  Each is         *)
(* preserved by the parts of a frame, for any record they work on.          *)
(***************************************************************************)
EXTENDS ServerPresence, TLAPS

\* While a registration is under way the server has no id and may begin another one.
Good(r) ==
  /\ r \in Reporter
  /\ IsValid(r.add) => r.ownId = 0 /\ r.attempts < MaxRegistrations
  /\ r.add.result = "Success" => r.add.id # 0
  /\ r.update.of <= game

\* A heartbeat that was sent in this game is for the id that the server has.
Fresh(r) == IsValid(r.update) /\ r.update.of = game => r.ownId # 0 /\ r.update.for = r.ownId

\* A registration begun has been counted, is under way, or has brought the id.
Counted(r, n) == n <= IF IsValid(r.add) \/ r.ownId # 0 THEN r.attempts + 1 ELSE r.attempts

PresenceInv ==
  /\ TypeOK /\ Good(reporter)
  /\ hasPresence => Fresh(reporter)
  /\ tries <= MaxRegistrations
  /\ hasPresence /\ ~firstUpdate => Counted(reporter, tries)

-----------------------------------------------------------------------------
(* The future that is none.                                                 *)
LEMMA NothingIsRequest == Nothing \in Request /\ ~IsValid(Nothing) /\ Nothing.of = 0 /\ Nothing.result = "none"
<1>1. (CHOOSE x \in Infos : TRUE) \in Infos
  BY PresenceAssumption
<1> QED
  BY <1>1, PresenceAssumption DEF Nothing, Request, IsValid, Ids

LEMMA BegunIsRequest ==
  ASSUME TypeOK, NEW i \in Ids \cup {0}
  PROVE  Begun(i) \in Request /\ IsValid(Begun(i)) /\ Begun(i).for = i /\ Begun(i).of = game
         /\ Begun(i).result = "pending"
BY DEF Begun, Request, IsValid, TypeOK, Ids

(* The result of a registration: only a success brings an id, and every     *)
(* other one is counted.                                                    *)
LEMMA AddResultIsGood ==
  ASSUME TypeOK, NEW r, Good(r), IsReady(r.add), NEW a, a = [AddResult(r) EXCEPT !.add = Nothing]
  PROVE  /\ a \in Reporter /\ a.add = Nothing /\ a.update = r.update
         /\ a.attempts > r.attempts \/ (a.attempts = r.attempts /\ a.ownId # 0)
<1>1. IsValid(r.add) /\ r.add \in Request /\ r.attempts \in 0 .. MaxRegistrations /\ r.attempts < MaxRegistrations
  BY DEF Good, Reporter, IsReady, IsValid
<1>2. /\ r.attempts + 1 \in 0 .. MaxRegistrations /\ r.attempts + 1 > r.attempts
      /\ MaxRegistrations \in 0 .. MaxRegistrations /\ MaxRegistrations > r.attempts
  BY <1>1, PresenceAssumption
<1>3. CASE r.add.result = "Success"
  <2>1. a = [r EXCEPT !.ownId = r.add.id, !.add = Nothing]
    BY <1>3 DEF AddResult, Good, Reporter
  <2>2. r.add.id \in Ids \cup {0} /\ r.add.id # 0
    BY <1>1, <1>3 DEF Request, Good
  <2> QED
    BY <2>1, <2>2, <1>1, NothingIsRequest DEF Good, Reporter
<1>4. CASE r.add.result = "Failed"
  <2>1. a = [r EXCEPT !.attempts = r.attempts + 1, !.add = Nothing]
    BY <1>4 DEF AddResult, Good, Reporter
  <2> QED
    BY <2>1, <1>1, <1>2, NothingIsRequest DEF Good, Reporter
<1>5. CASE r.add.result = "FailedDuplicateServer"
  <2>1. a = [r EXCEPT !.attempts = r.attempts + 1, !.cooldown = "running", !.add = Nothing]
    BY <1>5 DEF AddResult, Good, Reporter
  <2> QED
    BY <2>1, <1>1, <1>2, NothingIsRequest DEF Good, Reporter
<1>6. CASE r.add.result \notin {"Success", "Failed", "FailedDuplicateServer"}
  <2>1. a = [r EXCEPT !.attempts = MaxRegistrations, !.add = Nothing]
    BY <1>6 DEF AddResult, Good, Reporter
  <2> QED
    BY <2>1, <1>1, <1>2, NothingIsRequest DEF Good, Reporter
<1> QED
  BY <1>3, <1>4, <1>5, <1>6

(* The result of a heartbeat: no id gets lost, one may take its place.      *)
LEMMA UpdateResultIsGood ==
  ASSUME TypeOK, NEW r, Good(r), IsReady(r.update), NEW u, u = UpdateResult(r)
  PROVE  /\ u \in Reporter /\ u.update = Nothing /\ u.add = r.add
         /\ u.attempts = r.attempts /\ (r.ownId # 0 => u.ownId # 0)
<1>1. r.update.id \in Ids \cup {0} /\ r.ownId \in Ids \cup {0}
  BY DEF Good, Reporter, Request
<1> QED
  BY <1>1, NothingIsRequest DEF UpdateResult, Good, Reporter

-----------------------------------------------------------------------------
(* A part of a frame: what it does to a record of which Good holds.         *)
Keeps(r, c) ==
  /\ Good(c)
  /\ Fresh(r) => Fresh(c)

LEMMA CollectedKeeps ==
  ASSUME TypeOK, NEW r, Good(r), NEW c, c = Collected(r)
  PROVE  /\ Keeps(r, c)
         /\ \A n \in Nat : Counted(r, n) => Counted(c, n)
         /\ r.ownId # 0 => c.ownId = r.ownId \/ (IsReady(r.update) /\ ~IsValid(r.add))
<1>0. /\ Nothing.of = 0 /\ ~IsValid(Nothing) /\ Nothing.result # "Success" /\ game \in Nat
      /\ r.attempts \in Nat /\ c.attempts \in Nat
  <2>1. CASE IsReady(r.add)
    <3>1. IsValid(r.add)
      BY <2>1 DEF IsReady, IsValid
    <3>2. c = [AddResult(r) EXCEPT !.add = Nothing]
      BY <2>1, <3>1 DEF Collected
    <3> QED
      BY <2>1, <3>2, AddResultIsGood, NothingIsRequest DEF Good, Reporter, TypeOK
  <2>2. CASE ~IsReady(r.add) /\ IsReady(r.update) /\ ~IsValid(r.add)
    <3>1. c = UpdateResult(r)
      BY <2>2 DEF Collected
    <3> QED
      BY <2>2, <3>1, UpdateResultIsGood, NothingIsRequest DEF Good, Reporter, TypeOK
  <2>3. CASE c = r
    BY <2>3, NothingIsRequest DEF Good, Reporter, TypeOK
  <2> QED
    BY <2>1, <2>2, <2>3 DEF Collected
<1>1. CASE IsReady(r.add)
  <2>1. IsValid(r.add) /\ r.ownId = 0
    BY <1>1 DEF IsReady, IsValid, Good
  <2>2. c = [AddResult(r) EXCEPT !.add = Nothing]
    BY <1>1, <2>1 DEF Collected
  <2>3. /\ c \in Reporter /\ c.add = Nothing /\ c.update = r.update
        /\ c.attempts > r.attempts \/ (c.attempts = r.attempts /\ c.ownId # 0)
    BY <1>1, <2>2, AddResultIsGood
  <2>4. Good(c)
    BY <2>3, <1>0 DEF Good
  <2>5. Fresh(r) => Fresh(c)
    BY <2>1, <2>3 DEF Fresh
  <2>6. \A n \in Nat : Counted(r, n) => Counted(c, n)
    BY <2>1, <2>3, <1>0 DEF Counted
  <2> QED
    BY <2>1, <2>4, <2>5, <2>6 DEF Keeps
<1>2. CASE IsReady(r.update) /\ ~IsValid(r.add)
  <2>1. c = UpdateResult(r)
    BY <1>2 DEF Collected
  <2>2. /\ c \in Reporter /\ c.update = Nothing /\ c.add = r.add
        /\ c.attempts = r.attempts /\ (r.ownId # 0 => c.ownId # 0)
    BY <1>2, <2>1, UpdateResultIsGood
  <2>3. Good(c)
    BY <1>2, <2>2, <1>0 DEF Good, IsValid
  <2>4. Fresh(c)
    BY <2>2, <1>0 DEF Fresh
  <2>5. \A n \in Nat : Counted(r, n) => Counted(c, n)
    BY <1>2, <2>2, <1>0 DEF Counted
  <2> QED
    BY <1>2, <2>3, <2>4, <2>5 DEF Keeps
<1>3. CASE c = r
  BY <1>3 DEF Keeps
<1> QED
  BY <1>1, <1>2, <1>3 DEF Collected, IsReady, IsValid

LEMMA CreatedKeeps ==
  ASSUME TypeOK, NEW r, Good(r), NEW c, c = CreateReport(r)
  PROVE  Keeps(r, c) /\ Counted(c, 0) /\ c.ownId = r.ownId
<1>1. c = [r EXCEPT !.attempts = 0] /\ 0 \in 0 .. MaxRegistrations /\ 0 < MaxRegistrations
  BY PresenceAssumption DEF CreateReport
<1> QED
  BY <1>1 DEF Keeps, Good, Fresh, Counted, Reporter

LEMMA ReportKeeps ==
  ASSUME TypeOK, NEW r, Good(r), NEW p, p = ReportPresence(r)
  PROVE  /\ Keeps(r, p) /\ p.ownId = r.ownId
         /\ \A n \in Nat : Counted(r, n) =>
              IF MayRegister(r) /\ ~IsValid(r.add) THEN n < MaxRegistrations /\ Counted(p, n + 1) ELSE Counted(p, n)
<1>0. r.attempts \in Nat /\ MaxRegistrations \in Nat /\ game \in Nat /\ r.ownId \in Ids \cup {0}
  BY PresenceAssumption DEF Good, Reporter, TypeOK
<1>1. CASE MayRegister(r) /\ ~IsValid(r.add)
  <2>1. /\ Begun(0) \in Request /\ IsValid(Begun(0)) /\ Begun(0).result = "pending"
    BY BegunIsRequest
  <2>2. /\ p = [r EXCEPT !.add = Begun(0)]
    BY <1>1 DEF ReportPresence
  <2>3. /\ p \in Reporter /\ p.add = Begun(0) /\ p.update = r.update /\ p.ownId = r.ownId /\ p.attempts = r.attempts
    BY <2>1, <2>2 DEF Good, Reporter
  <2>4. Good(p)
    BY <1>1, <2>1, <2>3 DEF Good, MayRegister
  <2>5. Fresh(r) => Fresh(p)
    BY <2>3 DEF Fresh
  <2>6. \A n \in Nat : Counted(r, n) => n < MaxRegistrations /\ Counted(p, n + 1)
    BY <1>0, <1>1, <2>1, <2>3 DEF Counted, MayRegister
  <2> QED
    BY <1>1, <2>3, <2>4, <2>5, <2>6 DEF Keeps
<1>2. CASE ~(MayRegister(r) /\ ~IsValid(r.add)) /\ r.ownId # 0 /\ ~IsValid(r.update)
  <2>1. /\ Begun(r.ownId) \in Request /\ IsValid(Begun(r.ownId)) /\ Begun(r.ownId).for = r.ownId
        /\ Begun(r.ownId).of = game
    BY <1>0, BegunIsRequest
  <2>2. /\ p = [r EXCEPT !.update = Begun(r.ownId)]
    BY <1>2 DEF ReportPresence
  <2>3. /\ p \in Reporter /\ p.update = Begun(r.ownId) /\ p.add = r.add /\ p.ownId = r.ownId /\ p.attempts = r.attempts
    BY <2>1, <2>2 DEF Good, Reporter
  <2>4. Good(p)
    BY <1>0, <2>1, <2>3 DEF Good
  <2>5. Fresh(p)
    BY <1>2, <2>1, <2>3 DEF Fresh
  <2>6. \A n \in Nat : Counted(r, n) => Counted(p, n)
    BY <2>3 DEF Counted
  <2> QED
    BY <1>2, <2>3, <2>4, <2>5, <2>6 DEF Keeps
<1>3. CASE ~(MayRegister(r) /\ ~IsValid(r.add)) /\ p = r
  BY <1>3 DEF Keeps
<1> QED
  BY <1>1, <1>2, <1>3 DEF ReportPresence

-----------------------------------------------------------------------------
(* The initial states, and the steps.                                       *)
LEMMA InitPresenceInv == Init => PresenceInv
<1> SUFFICES ASSUME Init PROVE PresenceInv
  OBVIOUS
<1>1. PICK c \in {"over", "garbage"} :
        reporter = [ownId |-> 0, attempts |-> 0, cooldown |-> c, add |-> Nothing, update |-> Nothing]
  BY DEF Init
<1>2. reporter \in Reporter /\ ~IsValid(reporter.add) /\ reporter.add.result # "Success" /\ reporter.update.of = 0
  BY <1>1, NothingIsRequest, PresenceAssumption DEF Reporter
<1>3. TypeOK
  <2>1. 0 \in 0 .. MaxIds /\ 0 \in 0 .. MaxGames /\ 0 \in Nat
    BY PresenceAssumption
  <2>2. {hasPresence, firstUpdate, reports, due} \subseteq BOOLEAN
    BY DEF Init
  <2> QED
    BY <1>2, <2>1, <2>2 DEF Init, TypeOK
<1>4. Good(reporter)
  BY <1>2 DEF Good, Init
<1> QED
  BY <1>3, <1>4, PresenceAssumption DEF PresenceInv, Init

LEMMA FrameStep == PresenceInv /\ Frame => PresenceInv'
<1> SUFFICES ASSUME PresenceInv, Frame PROVE PresenceInv'
  OBVIOUS
<1>1. TypeOK /\ Good(reporter) /\ Fresh(reporter) /\ reporter' = Collected(reporter)
  BY DEF PresenceInv, Frame
<1>2. Keeps(reporter, reporter') /\ \A n \in Nat : Counted(reporter, n) => Counted(reporter', n)
  BY <1>1, CollectedKeeps
<1>3. UNCHANGED <<hasPresence, firstUpdate, info, reports, due, removals, lastId, game, tries>>
  BY DEF Frame, presence
<1>4. Good(reporter)' /\ Fresh(reporter)'
  BY <1>1, <1>2, <1>3 DEF Keeps, Good, Fresh
<1>5. TypeOK'
  BY <1>1, <1>3, <1>4 DEF TypeOK, Good
<1>6. (hasPresence /\ ~firstUpdate => Counted(reporter, tries))'
  BY <1>1, <1>2, <1>3 DEF PresenceInv, Counted, TypeOK
<1> QED
  BY <1>3, <1>4, <1>5, <1>6 DEF PresenceInv

LEMMA FrameReportsStep == PresenceInv /\ FrameReports => PresenceInv'
<1> SUFFICES ASSUME PresenceInv, FrameReports PROVE PresenceInv'
  OBVIOUS
<1> DEFINE collected == Collected(reporter)
           created   == IF firstUpdate THEN CreateReport(collected) ELSE collected
           begins    == MayRegister(created) /\ ~IsValid(created.add)
           before    == IF firstUpdate THEN 0 ELSE tries
<1>1. /\ TypeOK /\ Good(reporter) /\ Fresh(reporter)
      /\ reporter' = ReportPresence(created)
      /\ tries' = IF begins THEN before + 1 ELSE before
      /\ ~firstUpdate => Counted(reporter, tries)
      /\ tries <= MaxRegistrations /\ tries \in Nat /\ before \in Nat
      /\ MaxRegistrations \in Nat \ {0}
  BY PresenceAssumption DEF PresenceInv, FrameReports, TypeOK
<1>2. /\ Keeps(reporter, collected)
      /\ \A n \in Nat : Counted(reporter, n) => Counted(collected, n)
  BY <1>1, CollectedKeeps
<1>3. Good(created) /\ Fresh(created) /\ Counted(created, before)
  <2>1. CASE firstUpdate
    <3>1. Keeps(collected, created) /\ Counted(created, 0)
      BY <1>1, <1>2, <2>1, CreatedKeeps DEF Keeps
    <3> QED
      BY <1>1, <1>2, <2>1, <3>1 DEF Keeps
  <2>2. CASE ~firstUpdate
    BY <1>1, <1>2, <2>2 DEF Keeps
  <2> QED
    BY <2>1, <2>2
<1> HIDE DEF created
<1>4. /\ Keeps(created, reporter')
      /\ \A n \in Nat : Counted(created, n) =>
           IF begins THEN n < MaxRegistrations /\ Counted(reporter', n + 1) ELSE Counted(reporter', n)
  BY <1>1, <1>3, ReportKeeps
<1>5. tries' \in Nat /\ tries' <= MaxRegistrations /\ Counted(reporter', tries')
  BY <1>1, <1>3, <1>4
<1>6. /\ UNCHANGED <<hasPresence, info, reports, removals, lastId, game>>
      /\ firstUpdate' = FALSE /\ due' = FALSE
  BY DEF FrameReports
<1>7. Good(reporter)' /\ Fresh(reporter)'
  BY <1>3, <1>4, <1>6 DEF Keeps, Good, Fresh
<1>8. TypeOK'
  BY <1>1, <1>5, <1>6, <1>7 DEF TypeOK, Good
<1>9. Counted(reporter, tries)'
  BY <1>5 DEF Counted
<1> QED
  BY <1>5, <1>7, <1>8, <1>9 DEF PresenceInv

LEMMA GameStep == PresenceInv /\ (NewGame \/ GameShutdown) => PresenceInv'
<1> SUFFICES ASSUME PresenceInv, NewGame \/ GameShutdown PROVE PresenceInv'
  OBVIOUS
<1> USE DEF PresenceInv
<1>1. CASE NewGame
  <2>1. game \in Nat /\ game' = game + 1 /\ reporter' = reporter /\ reporter.update.of <= game
    BY <1>1 DEF NewGame, TypeOK, Good
  <2>2. reporter.update.of \in Nat
    BY DEF TypeOK, Reporter, Request
  <2>3. Good(reporter)' /\ Fresh(reporter)'
    BY <2>1, <2>2 DEF Good, Fresh
  <2>4. TypeOK'
    BY <1>1, PresenceAssumption DEF NewGame, TypeOK
  <2> QED
    BY <1>1, <2>3, <2>4 DEF NewGame
<1>2. CASE GameShutdown
  <2>1. /\ reporter' = [reporter EXCEPT !.ownId = 0]
        /\ UNCHANGED <<firstUpdate, info, reports, due, lastId, game, tries>>
        /\ removals' = removals \cup ({reporter.ownId} \ {0}) /\ hasPresence' = FALSE
    BY <1>2 DEF GameShutdown
  <2>2. Good(reporter)'
    BY <2>1 DEF Good, Reporter
  <2>3. TypeOK'
    BY <2>1, <2>2 DEF TypeOK, Good, Reporter
  <2> QED
    BY <2>1, <2>2, <2>3
<1> QED
  BY <1>1, <1>2

LEMMA AddServerStep == PresenceInv /\ AddServer => PresenceInv'
<1> SUFFICES ASSUME PresenceInv, AddServer PROVE PresenceInv'
  OBVIOUS
<1>1. TypeOK /\ Good(reporter) /\ UNCHANGED <<hasPresence, firstUpdate, info, reports, due, removals, game, tries>>
  BY DEF PresenceInv, AddServer, presence
<1>2. PICK result \in Failures \cup {"Success"}, i \in Ids \cup {0} :
        /\ reporter' = [reporter EXCEPT !.add.result = result, !.add.id = i]
        /\ result = "Success" => i # 0
        /\ lastId' \in 0 .. MaxIds
  <2>1. CASE lastId < MaxIds /\ lastId' = lastId + 1
             /\ reporter' = [reporter EXCEPT !.add.result = "Success", !.add.id = lastId + 1]
    <3>1. lastId + 1 \in Ids \cup {0} /\ lastId + 1 # 0 /\ lastId' \in 0 .. MaxIds
      BY <1>1, <2>1, PresenceAssumption DEF TypeOK, Ids
    <3> QED
      BY <2>1, <3>1
  <2>2. CASE lastId' = lastId /\ \E result \in Failures : reporter' = [reporter EXCEPT !.add.result = result]
    <3>1. PICK result \in Failures : reporter' = [reporter EXCEPT !.add.result = result]
      BY <2>2
    <3>2. reporter.add.id \in Ids \cup {0} /\ reporter \in Reporter /\ reporter.add \in Request
      BY <1>1 DEF TypeOK, Reporter, Request
    <3>3. reporter' = [reporter EXCEPT !.add.result = result, !.add.id = reporter.add.id]
      BY <3>1, <3>2 DEF Reporter, Request
    <3>4. result # "Success" /\ lastId' \in 0 .. MaxIds
      BY <1>1, <2>2 DEF Failures, TypeOK
    <3> QED
      BY <3>2, <3>3, <3>4
  <2> QED
    BY <2>1, <2>2 DEF AddServer
<1>3. /\ reporter' \in Reporter /\ reporter'.add.result = result /\ reporter'.add.id = i
      /\ reporter'.update = reporter.update /\ reporter'.ownId = reporter.ownId
      /\ reporter'.attempts = reporter.attempts
  <2>1. reporter.add \in Request /\ reporter \in Reporter
    BY <1>1 DEF TypeOK, Reporter
  <2>2. [reporter.add EXCEPT !.result = result, !.id = i] \in Request
    BY <2>1, <1>2 DEF Request
  <2>3. reporter' = [reporter EXCEPT !.add = [reporter.add EXCEPT !.result = result, !.id = i]]
    BY <1>2, <2>1 DEF Reporter, Request
  <2> QED
    BY <2>1, <2>2, <2>3 DEF Reporter, Request
<1>4. IsValid(reporter.add) /\ IsValid(reporter'.add)
  BY <1>2, <1>3 DEF AddServer, IsValid, Failures
<1>5. Good(reporter)'
  BY <1>1, <1>2, <1>3, <1>4 DEF Good
<1>6. (hasPresence => Fresh(reporter))' /\ (hasPresence /\ ~firstUpdate => Counted(reporter, tries))'
  BY <1>1, <1>3, <1>4 DEF PresenceInv, Fresh, Counted
<1>7. TypeOK'
  BY <1>1, <1>2, <1>3 DEF TypeOK
<1> QED
  BY <1>1, <1>5, <1>6, <1>7 DEF PresenceInv

LEMMA UpdateServerStep == PresenceInv /\ UpdateServer => PresenceInv'
<1> SUFFICES ASSUME PresenceInv, UpdateServer PROVE PresenceInv'
  OBVIOUS
<1>1. TypeOK /\ Good(reporter) /\ UNCHANGED <<hasPresence, firstUpdate, info, reports, due, removals, game, tries>>
  BY DEF PresenceInv, UpdateServer, presence
<1>2. reporter.update \in Request /\ reporter \in Reporter /\ reporter.update.for \in Ids \cup {0} /\ reporter.update.id \in Ids \cup {0}
  BY <1>1 DEF TypeOK, Reporter, Request
<1>3. PICK result \in Failures \cup {"Success"}, i \in Ids \cup {0} :
        /\ reporter' = [reporter EXCEPT !.update = [reporter.update EXCEPT !.result = result, !.id = i]]
        /\ lastId' \in 0 .. MaxIds
  <2>1. CASE lastId' = lastId /\ \E i \in {0, reporter.update.for} :
               reporter' = [reporter EXCEPT !.update.result = "Success", !.update.id = i]
    <3>1. PICK i \in {0, reporter.update.for} :
            reporter' = [reporter EXCEPT !.update.result = "Success", !.update.id = i]
      BY <2>1
    <3>2. i \in Ids \cup {0} /\ lastId' \in 0 .. MaxIds
      BY <1>1, <1>2, <2>1 DEF TypeOK
    <3>3. reporter' = [reporter EXCEPT !.update = [reporter.update EXCEPT !.result = "Success", !.id = i]]
      BY <1>2, <3>1 DEF Reporter, Request
    <3> QED
      BY <3>2, <3>3
  <2>2. CASE lastId < MaxIds /\ lastId' = lastId + 1
             /\ reporter' = [reporter EXCEPT !.update.result = "Success", !.update.id = lastId + 1]
    <3>1. lastId + 1 \in Ids /\ lastId' \in 0 .. MaxIds
      BY <1>1, <2>2, PresenceAssumption DEF TypeOK, Ids
    <3> QED
      BY <1>2, <2>2, <3>1 DEF Reporter, Request
  <2>3. CASE lastId' = lastId /\ reporter' = [reporter EXCEPT !.update.result = "Failed"]
    <3>1. reporter' = [reporter EXCEPT !.update = [reporter.update EXCEPT !.result = "Failed", !.id = reporter.update.id]]
      BY <1>2, <2>3 DEF Reporter, Request
    <3> QED
      BY <1>1, <1>2, <2>3, <3>1 DEF TypeOK, Failures
  <2> QED
    BY <2>1, <2>2, <2>3 DEF UpdateServer
<1>4. /\ reporter' \in Reporter /\ reporter'.update.of = reporter.update.of /\ reporter'.update.for = reporter.update.for
      /\ reporter'.add = reporter.add /\ reporter'.ownId = reporter.ownId /\ reporter'.attempts = reporter.attempts
  <2>1. [reporter.update EXCEPT !.result = result, !.id = i] \in Request
    BY <1>2, <1>3 DEF Request
  <2> QED
    BY <1>2, <1>3, <2>1 DEF Reporter, Request
<1>5. IsValid(reporter.update)
  BY DEF UpdateServer, IsValid
<1>6. Good(reporter)'
  BY <1>1, <1>4 DEF Good
<1>7. (hasPresence => Fresh(reporter))' /\ (hasPresence /\ ~firstUpdate => Counted(reporter, tries))'
  BY <1>1, <1>4, <1>5 DEF PresenceInv, Fresh, Counted
<1>8. TypeOK'
  BY <1>1, <1>3, <1>4 DEF TypeOK
<1> QED
  BY <1>1, <1>6, <1>7, <1>8 DEF PresenceInv

LEMMA OtherSteps ==
  ASSUME PresenceInv,
         SetInfo \/ SetReports \/ RemoveServer \/ RatePasses \/ CooldownPasses \/ UNCHANGED vars
  PROVE  PresenceInv'
<1>1. /\ UNCHANGED <<hasPresence, firstUpdate, lastId, game, tries>>
      /\ reporter' = reporter \/ reporter' = [reporter EXCEPT !.cooldown = "over"]
      /\ info' \in Infos /\ removals' \subseteq Ids /\ {reports, due}' \subseteq BOOLEAN
  BY DEF PresenceInv, TypeOK, SetInfo, SetReports, RemoveServer, RatePasses, CooldownPasses, vars, presence
<1>2. /\ reporter' \in Reporter /\ reporter'.add = reporter.add /\ reporter'.update = reporter.update
      /\ reporter'.ownId = reporter.ownId /\ reporter'.attempts = reporter.attempts
  BY <1>1 DEF PresenceInv, Good, Reporter
<1>3. Good(reporter)'
  BY <1>1, <1>2 DEF PresenceInv, Good
<1>4. (hasPresence => Fresh(reporter))' /\ (hasPresence /\ ~firstUpdate => Counted(reporter, tries))'
  BY <1>1, <1>2 DEF PresenceInv, Fresh, Counted
<1>5. TypeOK'
  BY <1>1, <1>2 DEF PresenceInv, TypeOK
<1> QED
  BY <1>1, <1>3, <1>4, <1>5 DEF PresenceInv

LEMMA Invariance == Spec => []PresenceInv
<1>1. PresenceInv /\ [Next]_vars => PresenceInv'
  BY FrameStep, FrameReportsStep, GameStep, AddServerStep, UpdateServerStep, OtherSteps DEF Next
<1> QED
  BY InitPresenceInv, <1>1, PTL DEF Spec

-----------------------------------------------------------------------------
(* The variables and futures of the presence keep their types: no attempt   *)
(* is counted beyond MAX_REGISTRATION_ATTEMPTS.                             *)
THEOREM TypeCorrect == Spec => []TypeOK
<1>1. PresenceInv => TypeOK
  BY DEF PresenceInv
<1> QED
  BY Invariance, <1>1, PTL

(* A game registers its server MAX_REGISTRATION_ATTEMPTS times at most,     *)
(* whatever earlier games left under way (ReportPresence, RunFrame).        *)
THEOREM RegistrationsAreBounded == Spec => []RegistrationsBounded
<1>1. PresenceInv => RegistrationsBounded
  BY DEF PresenceInv, RegistrationsBounded
<1> QED
  BY Invariance, <1>1, PTL

(* A server id is given up only with a request to remove it, or for what a  *)
(* heartbeat for it, or one of an earlier game, answered (DestroyPresence,  *)
(* InternalAddServer, RunFrame).                                            *)
THEOREM RegistrationIsKept == Spec => KeepsRegistration
<1> DEFINE Kept ==
      reporter.ownId \notin {0, reporter'.ownId} =>
        \/ reporter.ownId \in removals'
        \/ IsReady(reporter.update) /\ (reporter.update.for = reporter.ownId \/ reporter.update.of < game)
<1>1. ASSUME PresenceInv, [Next]_vars PROVE Kept
  <2> SUFFICES ASSUME reporter.ownId # 0, reporter'.ownId # reporter.ownId PROVE Kept
    OBVIOUS
  <2>0. /\ TypeOK /\ Good(reporter) /\ reporter \in Reporter /\ reporter.add \in Request /\ reporter.update \in Request
    BY <1>1 DEF PresenceInv, Good, Reporter
  <2>1. CASE Frame \/ FrameReports
    <3> DEFINE collected == Collected(reporter)
               created   == IF firstUpdate THEN CreateReport(collected) ELSE collected
    <3>1. Good(collected) /\ (collected.ownId = reporter.ownId \/ IsReady(reporter.update))
      BY <2>0, CollectedKeeps DEF Keeps
    <3>2. reporter'.ownId = collected.ownId
      <4>1. CASE Frame
        BY <4>1 DEF Frame
      <4>2. CASE FrameReports
        <5>1. Good(created) /\ created.ownId = collected.ownId
          BY <2>0, <3>1, CreatedKeeps DEF Keeps
        <5>2. reporter' = ReportPresence(created)
          BY <4>2 DEF FrameReports
        <5> HIDE DEF created, collected
        <5> QED
          BY <2>0, <5>1, <5>2, ReportKeeps
      <4> QED
        BY <2>1, <4>1, <4>2
    <3>3. IsReady(reporter.update) /\ IsValid(reporter.update)
      BY <3>1, <3>2 DEF IsReady, IsValid
    <3>4. hasPresence /\ Fresh(reporter)
      BY <1>1, <2>1 DEF PresenceInv, Frame, FrameReports
    <3>5. reporter.update.of <= game /\ reporter.update.of \in Nat /\ game \in Nat
      BY <2>0 DEF Good, Request, TypeOK
    <3> QED
      BY <3>3, <3>4, <3>5 DEF Fresh
  <2>2. CASE GameShutdown
    BY <2>2 DEF GameShutdown
  <2>3. CASE AddServer \/ UpdateServer
    BY <2>0, <2>3 DEF AddServer, UpdateServer, Reporter, Request
  <2>4. CASE CooldownPasses
    BY <2>0, <2>4 DEF CooldownPasses, Reporter
  <2>5. CASE NewGame \/ SetInfo \/ SetReports \/ RemoveServer \/ RatePasses \/ UNCHANGED vars
    BY <2>5 DEF NewGame, SetInfo, SetReports, RemoveServer, RatePasses, vars
  <2> QED
    BY <1>1, <2>1, <2>2, <2>3, <2>4, <2>5 DEF Next
<1>2. PresenceInv /\ [Next]_vars => [Kept]_vars
  BY <1>1
<1> QED
  BY Invariance, <1>2, PTL DEF Spec, KeepsRegistration
=============================================================================
