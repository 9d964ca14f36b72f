------------------------ MODULE ModInstallServiceProofs ------------------------
(***************************************************************************)
(* Proofs about ModInstallService for every set of callers and every bound *)
(* on the number of requests and of packages.                              *)
(*                                                                         *)
(* The inductive invariant has six layers, each proved with the help of    *)
(* the ones before it:                                                     *)
(*   TypeInv     types, and what the copies under edit may hold;           *)
(*   OrderInv    who owns the request slot, and which generation is next;  *)
(*   ConsentInv  which decisions can be pending at each worker phase;      *)
(*   CancelInv   a timely cancellation keeps the flag up until the gate;   *)
(*   TerminalInv no copy can report a later request as ended;              *)
(*   WakeInv     nobody lets the worker sleep over what it waits for.      *)
(***************************************************************************)
EXTENDS ModInstallService, TLAPS

(* The copies that callers and the worker hold between reading the snapshot *)
(* and publishing it.                                                       *)
DraftInv ==
  /\ \A c \in Callers :
       /\ cpc[c] \in {"reqClear", "reqPublish", "cancelStore", "cancelNotify", "cancelPublish"}
            => cdraft[c] \in Snapshot
       /\ cdraft[c].state \in Active \cup {"none"}
  /\ wdraft # NoDraft => \/ wpc \in TransitionPhases /\ wdraft.state = PhaseState[wpc]
                         \/ wpc = "report" /\ wdraft.state = wfinal
  /\ wpc = "report" => wfinal \in Terminal

TypeInv == TypeOK /\ DraftInv

(* The request slot, m_Busy and the worker agree on whose turn it is. *)
OrderInv ==
  /\ OneOperation
  /\ pending = 0 => wgen = nextGeneration
  /\ pending # 0 => nextGeneration = wgen + 1

BeforePrompt == {"fetch", "resolve", "current", "stageCheck", "download", "validate", "stage",
                 "migrate", "removeStart", "removeCheck"}

Prompting == Waiting \cup {"prompt"}

ConsentInv ==
  /\ wpc \in Prompting => migGeneration = wgen
  /\ wpc \notin Prompting => migDecision = "None"
  /\ migDecision = "Accepted" => migGeneration \in accepted
  /\ \A g \in prompted : g <= wgen
  /\ wpc \in BeforePrompt => wgen \notin prompted
  /\ wpc \in Committing \cup {"commitCheck"} /\ wgen \in prompted => wgen \in accepted

CancelInv ==
  /\ \A g \in timely : g <= nextGeneration
  /\ nextGeneration \in timely /\ Cancellable => cancelRequested /\ ~RequestUnsettled
  /\ TimelyCancelHonoured

TerminalInv ==
  /\ snapshot.gen <= nextGeneration
  /\ \A c \in Callers :
       cdraft[c] \in Snapshot => cdraft[c].gen <= nextGeneration /\ cdraft[c].state \in Active
  /\ wdraft \in Snapshot => wdraft.gen <= nextGeneration
  /\ TerminalMeansFinished

WillNotify(c) == cpc[c] \in {"reqClear", "reqPublish", "reqNotify"}

WakeInv ==
  /\ wpc = "parked" /\ pending # 0 => \E c \in Callers : WillNotify(c)
  /\ wpc \in {"blocking", "asleep"} => migDecision = "Pending"

-----------------------------------------------------------------------------
(* Types *)

LEMMA ZeroGeneration == 0 \in Generation
  BY BoundsAssumption DEF Generation

LEMMA NoDraftFacts == NoDraft.state = "none" /\ NoDraft \notin Snapshot
  BY DEF NoDraft, Snapshot, OperationState, Active, Terminal

(* Editing the state of a snapshot, or its flag, gives a snapshot. *)
LEMMA EditSnapshot ==
  ASSUME NEW s \in Snapshot
  PROVE  /\ \A state \in OperationState :
              /\ [s EXCEPT !.state = state] \in Snapshot
              /\ [s EXCEPT !.state = state].state = state
              /\ [s EXCEPT !.state = state].gen = s.gen
         /\ [s EXCEPT !.deferred = TRUE] \in Snapshot
         /\ [s EXCEPT !.deferred = TRUE].state = s.state
         /\ [s EXCEPT !.deferred = TRUE].gen = s.gen
  BY DEF Snapshot

LEMMA QueuedFacts ==
  ASSUME NEW g \in Generation
  PROVE  Queued(g) \in Snapshot /\ Queued(g).state = "Queued" /\ Queued(g).gen = g
  BY DEF Queued, Snapshot, OperationState, Active

LEMMA InitTypeInv == Init => TypeInv
<1> SUFFICES ASSUME Init PROVE TypeInv
  OBVIOUS
<1> USE DEF Init
<1>1. 0 \in Generation /\ 0 \in 0..MaxPlans
  BY BoundsAssumption DEF Generation
<1>2. snapshot \in Snapshot
  BY <1>1 DEF Snapshot, OperationState
<1>3. TypeOK
  BY <1>1, <1>2 DEF TypeOK, Resting
<1>4. DraftInv
  BY NoDraftFacts DEF DraftInv
<1> QED
  BY <1>3, <1>4 DEF TypeInv

LEMMA CallerTypeInv ==
  ASSUME TypeInv, NEW c \in Callers, RequestAccept(c) \/ CancelRead(c) \/ Resume(c)
  PROVE  TypeInv'
<1> USE DEF TypeInv, TypeOK, DraftInv, requestVars, migVars, workVars, history, Call
<1>1. CASE RequestAccept(c)
  <2>1. nextGeneration + 1 \in Generation
    BY <1>1, BoundsAssumption DEF RequestAccept, Generation
  <2> QED
    BY <1>1, <2>1, QueuedFacts DEF RequestAccept, Active
<1>2. CASE CancelRead(c)
  BY <1>2 DEF CancelRead
<1>3. CASE RequestClear(c)
  <2>1. /\ c \in Callers /\ cpc[c] = "reqClear" /\ cpc' = [cpc EXCEPT ![c] = "reqPublish"]
        /\ cdraft[c] \in Snapshot
    BY <1>3 DEF RequestClear
  <2>2. cpc' \in [Callers -> {"idle", "reqClear", "reqPublish", "reqNotify",
                             "cancelStore", "cancelNotify", "cancelPublish"}]
    BY <2>1
  <2>3. \A d \in Callers : cpc'[d] = IF d = c THEN "reqPublish" ELSE cpc[d]
    BY <2>1
  <2>4. TypeOK'
    BY <1>3, <2>2 DEF RequestClear
  <2>5. DraftInv'
    BY <1>3, <2>1, <2>3 DEF RequestClear
  <2> QED
    BY <2>4, <2>5
<1>4. CASE RequestPublish(c)
  BY <1>4, NoDraftFacts DEF RequestPublish
<1>5. CASE RequestNotify(c)
  BY <1>5 DEF RequestNotify, Notify, Resting, TransitionPhases, PhaseState
<1>6. CASE CancelStore(c)
  BY <1>6 DEF CancelStore, Cancellable
<1>7. CASE CancelNotify(c)
  BY <1>7, NoDraftFacts DEF CancelNotify, Notify, Executing, Body, BeforeCommit, Waiting,
              TransitionPhases, PhaseState
<1>8. CASE CancelPublish(c)
  <2>1. cpc[c] = "cancelPublish" /\ cdraft[c] \in Snapshot
    BY <1>8 DEF CancelPublish
  <2>2. [cdraft[c] EXCEPT !.deferred = TRUE] \in Snapshot
    BY <2>1, EditSnapshot
  <2> QED
    BY <1>8, <2>2, NoDraftFacts DEF CancelPublish
<1> QED
  BY <1>1, <1>2, <1>3, <1>4, <1>5, <1>6, <1>7, <1>8 DEF Resume

(* The state that each phase publishes is a state of an operation. *)
LEMMA PhaseStateFacts ==
  /\ TransitionPhases = {"fetch", "resolve", "current", "download", "validate", "stage",
                         "prompt", "unload", "commit", "reload"}
  /\ \A phase \in TransitionPhases : PhaseState[phase] \in OperationState \ {"none"}
  /\ Terminal \subseteq OperationState
  /\ TransitionPhases \subseteq Body
  BY DEF TransitionPhases, PhaseState, OperationState, Active, Terminal, Body, BeforeCommit,
         Committing

LEMMA WorkerTypeInv ==
  ASSUME TypeInv, Worker
  PROVE  TypeInv'
<1> USE DEF TypeInv, TypeOK, DraftInv, requestVars, migVars, callerVars, history, GoTo, End
<1>1. CASE Park
  BY <1>1, PhaseStateFacts DEF Park, Resting
<1>2. CASE TakeRequest
  <2>1. wpc' \in {"fetch", "removeStart", "finish"} /\ wresult' \in {"none", "succeeded", "failed", "recovery"}
    BY <1>2 DEF TakeRequest
  <2>2. wpc' \in Executing /\ wpc' # "report"
    BY <2>1 DEF Executing, Body, BeforeCommit, GatePhases, Ending
  <2> QED
    BY <1>2, <2>1, <2>2, ZeroGeneration, PhaseStateFacts DEF TakeRequest
<1>3. CASE Draft
  <2>1. CASE wpc \in TransitionPhases /\ wdraft' = [snapshot EXCEPT !.state = PhaseState[wpc]]
    <3>1. wdraft' \in Snapshot /\ wdraft'.state = PhaseState[wpc]
      BY <2>1, EditSnapshot, PhaseStateFacts
    <3> QED
      BY <1>3, <2>1, <3>1 DEF Draft
  <2>2. CASE wpc = "report" /\ wdraft' = [snapshot EXCEPT !.state = wfinal]
    <3>1. wdraft' \in Snapshot /\ wdraft'.state = wfinal
      BY <2>2, EditSnapshot, PhaseStateFacts
    <3> QED
      BY <1>3, <2>2, <3>1 DEF Draft
  <2> QED
    BY <1>3, <2>1, <2>2 DEF Draft
<1>4. CASE Publish
  <2>1. /\ wpc' \in {"finish", "resolve", "current", "stageCheck", "validate", "stage", "migrate",
                    "commitCheck", "wait", "commit", "reload", "clear"}
        /\ wresult' \in {"none", "succeeded", "failed", "recovery"}
    BY <1>4 DEF Publish, Continue, AfterResolve, AfterStage, AfterCommit, AfterReload
  <2>2. wpc' \in Resting \cup Executing /\ wpc' # "report"
    BY <2>1 DEF Executing, Body, BeforeCommit, Waiting, GatePhases, Committing, Ending
  <2>3. wplans' \in 0..MaxPlans
    <3>1. CASE wpc' = "stageCheck" /\ wpc # "resolve"
      <4>1. wplans > 1 /\ wplans' = wplans - 1
        BY <1>4, <3>1 DEF Publish, PlansAfter, Continue, AfterResolve, AfterStage, AfterCommit,
                          AfterReload
      <4> QED
        BY <4>1, BoundsAssumption
    <3> QED
      BY <1>4, <3>1, BoundsAssumption DEF Publish, PlansAfter
  <2> QED
    BY <1>4, <2>1, <2>2, <2>3 DEF Publish
<1>5. CASE Gate
  BY <1>5, PhaseStateFacts DEF Gate, PassGate, GatePhases, Executing, Body, BeforeCommit,
           Committing, Ending
<1>6. CASE OpenMigration
  BY <1>6, PhaseStateFacts DEF OpenMigration, Executing, Body, BeforeCommit
<1>7. CASE CheckAndBlock
  BY <1>7, PhaseStateFacts DEF CheckAndBlock, Executing, Body, BeforeCommit, Waiting
<1>8. CASE FallAsleep
  BY <1>8, PhaseStateFacts DEF FallAsleep, Executing, Body, BeforeCommit, Waiting
<1>9. CASE TakeDecision
  BY <1>9, PhaseStateFacts, ZeroGeneration DEF TakeDecision, Executing, Body, BeforeCommit, GatePhases,
           Ending
<1>10. CASE Finish
  BY <1>10, PhaseStateFacts DEF Finish, Outcome, Terminal, Executing, Ending
<1>11. CASE ClearCancel
  BY <1>11, PhaseStateFacts DEF ClearCancel, Executing, Ending
<1>12. CASE Release
  BY <1>12, PhaseStateFacts DEF Release, Forget, Resting
<1> QED
  BY <1>1, <1>2, <1>3, <1>4, <1>5, <1>6, <1>7, <1>8, <1>9, <1>10, <1>11, <1>12 DEF Worker

LEMMA OtherTypeInv ==
  ASSUME TypeInv,
         SpuriousWake \/ \E g \in 1..MaxGen, accept \in BOOLEAN : DecideMigration(g, accept)
  PROVE  TypeInv'
<1> USE DEF TypeInv, TypeOK, DraftInv, requestVars, migVars, callerVars, history
<1>1. CASE SpuriousWake
  BY <1>1, PhaseStateFacts DEF SpuriousWake, Resting, Executing, Body, BeforeCommit, Waiting
<1>2. ASSUME NEW g \in 1..MaxGen, NEW accept \in BOOLEAN, DecideMigration(g, accept)
      PROVE  TypeInv'
  <2>1. g \in Generation
    BY BoundsAssumption DEF Generation
  <2>2. /\ wpc' \in Resting \cup Executing /\ wpc' # "report" <=> wpc # "report"
        /\ wpc' = wpc \/ (wpc = "asleep" /\ wpc' = "wait")
    BY <1>2 DEF DecideMigration, Notify, Executing, Body, BeforeCommit, Waiting
  <2> QED
    BY <1>2, <2>1, <2>2, PhaseStateFacts DEF DecideMigration
<1> QED
  BY <1>1, <1>2

LEMMA StutterTypeInv == TypeInv /\ UNCHANGED vars => TypeInv'
  BY DEF TypeInv, TypeOK, DraftInv, vars, requestVars, migVars, workVars, callerVars, history

LEMMA TypeInvariant == Spec => []TypeInv
<1>1. TypeInv /\ [Next]_vars => TypeInv'
  BY CallerTypeInv, WorkerTypeInv, OtherTypeInv, StutterTypeInv DEF Next
<1> QED
  BY InitTypeInv, <1>1, PTL DEF Spec

(* Every variable keeps its type, for any number of callers, requests and  *)
(* packages; in particular what callers and the worker publish is always a *)
(* snapshot (Request, Cancel, Transition).                                 *)
THEOREM TypeCorrect == Spec => []TypeOK
  BY TypeInvariant, PTL DEF TypeInv

-----------------------------------------------------------------------------
(* Order *)

LEMMA InitOrderInv == Init => OrderInv
  BY DEF Init, OrderInv, OneOperation, Executing, Body, BeforeCommit, Waiting, GatePhases,
         Committing, Ending

(* Where the worker can be after a step, given where it was. *)
LEMMA WorkerMoves ==
  /\ TransitionPhases \cup Waiting \cup GatePhases \cup Ending \cup {"migrate"} \subseteq Executing
  /\ Executing \cap Resting = {}
  BY DEF TransitionPhases, PhaseState, Executing, Body, BeforeCommit, Waiting, GatePhases,
         Committing, Ending, Resting

(* Between TakeRequest and Release the worker stays inside the operation. *)
LEMMA ExecutingStays ==
  ASSUME TypeInv,
         Draft \/ Publish \/ Gate \/ OpenMigration \/ CheckAndBlock \/ FallAsleep
           \/ TakeDecision \/ Finish \/ ClearCancel
  PROVE  wpc \in Executing /\ wpc' \in Executing
<1> USE WorkerMoves
<1>1. CASE Draft
  BY <1>1 DEF Draft, Ending
<1>2. CASE Publish
  <2>1. wpc \in Executing
    BY <1>2 DEF Publish, TypeInv, DraftInv, Ending
  <2>2. wpc' \in {"finish", "resolve", "current", "stageCheck", "validate", "stage", "migrate",
                   "commitCheck", "wait", "commit", "reload", "clear"}
    BY <1>2 DEF Publish, Continue, AfterResolve, AfterStage, AfterCommit, AfterReload, GoTo, End
  <2> QED
    BY <2>1, <2>2 DEF TransitionPhases, PhaseState, GatePhases, Waiting, Ending
<1>3. CASE Gate
  <2>1. wpc' \in {"finish", "download", "unload", "commit", "removeCheck"}
    BY <1>3 DEF Gate, PassGate, GoTo, End
  <2> QED
    BY <1>3, <2>1 DEF Gate, TransitionPhases, PhaseState, GatePhases, Ending
<1>4. CASE OpenMigration
  BY <1>4 DEF OpenMigration, GoTo, TransitionPhases, PhaseState
<1>5. CASE CheckAndBlock \/ FallAsleep
  BY <1>5 DEF CheckAndBlock, FallAsleep, Waiting
<1>6. CASE TakeDecision
  <2>1. wpc = "wait" /\ wpc' \in {"finish", "commitCheck"}
    BY <1>6 DEF TakeDecision, GoTo, End
  <2> QED
    BY <2>1 DEF Waiting, GatePhases, Ending
<1>7. CASE Finish \/ ClearCancel
  BY <1>7 DEF Finish, ClearCancel, Ending
<1> QED
  BY <1>1, <1>2, <1>3, <1>4, <1>5, <1>6, <1>7

LEMMA StepOrderInv ==
  ASSUME TypeInv, OrderInv, [Next]_vars
  PROVE  OrderInv' /\ (wgen' # wgen => wgen' = wgen + 1)
<1> USE DEF OrderInv, OneOperation, TypeInv, TypeOK, requestVars, migVars, callerVars, workVars, history
<1>1. ASSUME NEW c \in Callers, RequestAccept(c)
      PROVE  OrderInv' /\ wgen' = wgen
  <2>1. nextGeneration \in Nat
    BY BoundsAssumption DEF Generation
  <2> QED
    BY <1>1, <2>1, WorkerMoves DEF RequestAccept, RequestAllowed
<1>2. ASSUME NEW c \in Callers, CancelRead(c) \/ Resume(c)
      PROVE  OrderInv' /\ wgen' = wgen
  <2>1. UNCHANGED <<requestVars, wgen>>
    BY <1>2 DEF CancelRead, Resume, RequestClear, RequestPublish, RequestNotify, CancelStore,
                CancelNotify, CancelPublish
  <2>2. wpc' = wpc \/ (wpc = "parked" /\ wpc' = "idle") \/ (wpc = "asleep" /\ wpc' = "wait")
    BY <1>2 DEF CancelRead, Resume, RequestClear, RequestPublish, RequestNotify, CancelStore,
                CancelNotify, CancelPublish, Notify
  <2>3. wpc' \in Executing <=> wpc \in Executing
    BY <2>2, WorkerMoves DEF Waiting, Resting
  <2>4. wpc' \in Resting <=> wpc \in Resting
    BY <2>2, WorkerMoves DEF Waiting, Resting
  <2> QED
    BY <2>1, <2>3, <2>4
<1>3. ASSUME SpuriousWake \/ \E g \in 1..MaxGen, accept \in BOOLEAN : DecideMigration(g, accept)
      PROVE  OrderInv' /\ wgen' = wgen
  <2>1. UNCHANGED <<requestVars, wgen>>
    BY <1>3 DEF SpuriousWake, DecideMigration
  <2>2. wpc' = wpc \/ (wpc = "parked" /\ wpc' = "idle") \/ (wpc = "asleep" /\ wpc' = "wait")
    BY <1>3 DEF SpuriousWake, DecideMigration, Notify
  <2>3. wpc' \in Executing <=> wpc \in Executing
    BY <2>2, WorkerMoves DEF Waiting, Resting
  <2>4. wpc' \in Resting <=> wpc \in Resting
    BY <2>2, WorkerMoves DEF Waiting, Resting
  <2> QED
    BY <2>1, <2>3, <2>4
<1>4. CASE Park
  BY <1>4, WorkerMoves DEF Park, Resting
<1>5. CASE TakeRequest
  <2>1. wpc' \in Executing
    BY <1>5, WorkerMoves DEF TakeRequest, GoTo, End, GatePhases, Ending, TransitionPhases, PhaseState
  <2>2. pending = nextGeneration /\ nextGeneration = wgen + 1 /\ busy
    BY <1>5 DEF TakeRequest
  <2>3. wgen' = nextGeneration /\ pending' = 0 /\ UNCHANGED <<busy, nextGeneration>>
    BY <1>5, <2>2 DEF TakeRequest
  <2> QED
    BY <2>1, <2>2, <2>3
<1>6. ASSUME Draft \/ Publish \/ Gate \/ OpenMigration \/ CheckAndBlock \/ FallAsleep
             \/ TakeDecision \/ Finish \/ ClearCancel
      PROVE  OrderInv' /\ wgen' = wgen
  <2>1. UNCHANGED <<busy, pending, nextGeneration, wgen>>
    BY <1>6 DEF Draft, Publish, Gate, OpenMigration, CheckAndBlock, FallAsleep, TakeDecision,
                Finish, ClearCancel
  <2>2. wpc \in Executing /\ wpc' \in Executing
    BY <1>6, ExecutingStays
  <2> QED
    BY <2>1, <2>2, WorkerMoves
<1>7. CASE Release
  BY <1>7, WorkerMoves DEF Release, Resting, Ending
<1>8. CASE UNCHANGED vars
  BY <1>8 DEF vars
<1> QED
  BY <1>1, <1>2, <1>3, <1>4, <1>5, <1>6, <1>7, <1>8 DEF Next, Worker

LEMMA OrderInvariant == Spec => []OrderInv /\ NoRequestSkipped
<1>1. TypeInv /\ OrderInv /\ [Next]_vars => OrderInv'
  BY StepOrderInv
<1>2. TypeInv /\ OrderInv /\ [Next]_vars => [wgen' # wgen => wgen' = wgen + 1]_vars
  BY StepOrderInv
<1> QED
  BY InitOrderInv, TypeInvariant, <1>1, <1>2, PTL DEF Spec, NoRequestSkipped

(* The request slot, m_Busy and the worker agree: no request sits in the   *)
(* slot while the worker executes one, and no two are ever accepted        *)
(* together (Request and RunWorker).                                       *)
THEOREM OneOperationAtATime == Spec => []OneOperation
  BY OrderInvariant, PTL DEF OrderInv

(* The worker executes the accepted requests one by one, skipping none. *)
THEOREM RequestsInOrder == Spec => NoRequestSkipped
  BY OrderInvariant, PTL

-----------------------------------------------------------------------------
(* Consent *)

LEMMA InitConsentInv == Init => ConsentInv
  BY DEF Init, ConsentInv, BeforePrompt, Prompting, Committing, Waiting

(* A step that only moves the worker keeps ConsentInv when it neither      *)
(* enters nor leaves the prompt and goes on to commit only from a point    *)
(* that comes before the prompt or after a consent.                        *)
LEMMA ConsentFrame ==
  ASSUME ConsentInv, UNCHANGED <<migGeneration, migDecision, prompted, accepted, wgen>>,
         wpc' \in Prompting <=> wpc \in Prompting,
         wpc' \in BeforePrompt => wpc \in BeforePrompt,
         wpc' \in Committing \cup {"commitCheck"}
           => wpc \in BeforePrompt \cup Committing \cup {"commitCheck"}
  PROVE  ConsentInv'
  BY DEF ConsentInv

LEMMA StepConsentInv ==
  ASSUME TypeInv, OrderInv, ConsentInv, [Next]_vars
  PROVE  ConsentInv'
<1> USE DEF requestVars, migVars, callerVars, workVars, history
<1>1. ASSUME \/ \E c \in Callers : RequestAccept(c) \/ CancelRead(c) \/ Resume(c)
             \/ SpuriousWake \/ UNCHANGED vars
      PROVE  ConsentInv'
  <2>1. UNCHANGED <<migGeneration, migDecision, prompted, accepted, wgen>>
    BY <1>1 DEF vars, SpuriousWake, RequestAccept, CancelRead, Resume, RequestClear,
                RequestPublish, RequestNotify, CancelStore, CancelNotify, CancelPublish
  <2>2. wpc' = wpc \/ (wpc = "parked" /\ wpc' = "idle") \/ (wpc = "asleep" /\ wpc' = "wait")
    BY <1>1 DEF vars, SpuriousWake, RequestAccept, CancelRead, Resume, RequestClear,
                RequestPublish, RequestNotify, CancelStore, CancelNotify, CancelPublish, Notify
  <2>3. /\ wpc' \in Prompting <=> wpc \in Prompting
        /\ wpc' \in BeforePrompt <=> wpc \in BeforePrompt
        /\ wpc' \in Committing \cup {"commitCheck"} <=> wpc \in Committing \cup {"commitCheck"}
    BY <2>2 DEF Prompting, Waiting, BeforePrompt, Committing
  <2> QED
    BY <2>1, <2>3, ConsentFrame
<1>2. CASE Park
  BY <1>2, ConsentFrame DEF Park, Prompting, Waiting, BeforePrompt, Committing
<1>3. CASE TakeRequest
  <2>1. wgen' = wgen + 1 /\ wgen \in Nat /\ migDecision = "None"
    BY <1>3, BoundsAssumption
       DEF TakeRequest, OrderInv, OneOperation, ConsentInv, Prompting, Waiting, TypeInv, TypeOK, Generation
  <2>2. (\A g \in prompted : g <= wgen') /\ wgen' \notin prompted
    BY <2>1, BoundsAssumption DEF ConsentInv, TypeInv, TypeOK, Generation
  <2>3. wpc' \in {"fetch", "removeStart", "finish"}
    BY <1>3 DEF TakeRequest, GoTo, End
  <2>4. UNCHANGED <<migGeneration, migDecision, prompted, accepted>>
    BY <1>3 DEF TakeRequest
  <2> QED
    BY <2>1, <2>2, <2>3, <2>4 DEF ConsentInv, Prompting, Waiting, Committing
<1>4. CASE Draft \/ Finish \/ ClearCancel
  <2>1. UNCHANGED <<migGeneration, migDecision, prompted, accepted, wgen>>
    BY <1>4 DEF Draft, Finish, ClearCancel
  <2>2. \/ wpc' = wpc
        \/ wpc \in {"finish", "clear"} /\ wpc' \in {"clear", "report", "release"}
    BY <1>4 DEF Draft, Finish, ClearCancel
  <2> QED
    BY <2>1, <2>2, ConsentFrame DEF Prompting, Waiting, BeforePrompt, Committing
<1>5. CASE Publish
  <2>1. UNCHANGED <<migGeneration, migDecision, prompted, accepted, wgen>>
    BY <1>5 DEF Publish
  <2>2. wpc' \in Prompting <=> wpc \in Prompting
    BY <1>5 DEF Publish, Continue, AfterResolve, AfterStage, AfterCommit, AfterReload, GoTo, End,
                Prompting, Waiting
  <2>3. wpc' \in BeforePrompt => wpc \in BeforePrompt
    BY <1>5 DEF Publish, Continue, AfterResolve, AfterStage, AfterCommit, AfterReload, GoTo, End,
                BeforePrompt
  <2>4. wpc' \in Committing \cup {"commitCheck"}
           => wpc \in BeforePrompt \cup Committing \cup {"commitCheck"}
    BY <1>5 DEF Publish, Continue, AfterResolve, AfterStage, AfterCommit, AfterReload, GoTo, End,
                BeforePrompt, Committing
  <2> QED
    BY <2>1, <2>2, <2>3, <2>4, ConsentFrame
<1>6. CASE Gate
  <2>1. UNCHANGED <<migGeneration, migDecision, prompted, accepted, wgen>>
    BY <1>6 DEF Gate
  <2>2. \/ wpc = "commitCheck" /\ wpc' \in {"unload", "commit", "finish"}
        \/ wpc = "stageCheck" /\ wpc' \in {"download", "finish"}
        \/ wpc \in {"removeStart", "removeCheck"} /\ wpc' \in {"removeCheck", "unload", "finish"}
    BY <1>6 DEF Gate, PassGate, GatePhases, GoTo, End
  <2> QED
    BY <2>1, <2>2, ConsentFrame DEF Prompting, Waiting, BeforePrompt, Committing
<1>7. CASE OpenMigration
  <2>1. /\ migGeneration' = wgen /\ migDecision' = "Pending" /\ wpc' = "prompt"
        /\ prompted' = prompted \cup {wgen} /\ UNCHANGED <<wgen, accepted>>
    BY <1>7 DEF OpenMigration, GoTo
  <2>2. wgen \in Nat
    BY BoundsAssumption DEF TypeInv, TypeOK, Generation
  <2>3. \A g \in prompted' : g <= wgen'
    BY <2>1, <2>2 DEF ConsentInv
  <2> QED
    BY <2>1, <2>3 DEF ConsentInv, Prompting, BeforePrompt, Committing
<1>8. CASE CheckAndBlock \/ FallAsleep
  BY <1>8, ConsentFrame DEF CheckAndBlock, FallAsleep, Prompting, Waiting, BeforePrompt, Committing
<1>9. CASE TakeDecision
  <2>1. /\ wpc = "wait" /\ migDecision' = "None" /\ UNCHANGED <<wgen, prompted, accepted>>
        /\ (wpc' = "commitCheck" /\ migDecision = "Accepted") \/ wpc' = "finish"
    BY <1>9 DEF TakeDecision, GoTo, End
  <2>2. migDecision = "Accepted" => wgen \in accepted
    BY <2>1 DEF ConsentInv, Prompting, Waiting
  <2> QED
    BY <2>1, <2>2 DEF ConsentInv, Prompting, Waiting, BeforePrompt, Committing
<1>10. CASE Release
  <2>1. wpc = "release" /\ wpc' = "idle" /\ UNCHANGED <<migVars, wgen>>
    BY <1>10 DEF Release
  <2>2. prompted' \subseteq prompted
    BY <1>10 DEF Release, Forget
  <2>3. migDecision = "None"
    BY <2>1 DEF ConsentInv, Prompting, Waiting
  <2> QED
    BY <2>1, <2>2, <2>3 DEF ConsentInv, Prompting, Waiting, BeforePrompt, Committing
<1>11. ASSUME NEW g \in 1..MaxGen, NEW accept \in BOOLEAN, DecideMigration(g, accept)
       PROVE  ConsentInv'
  <2>1. /\ wpc \in Prompting /\ migGeneration = g /\ UNCHANGED <<migGeneration, wgen, prompted>>
        /\ migDecision' = "Accepted" => g \in accepted'
        /\ wpc' = wpc \/ (wpc = "asleep" /\ wpc' = "wait")
    BY <1>11 DEF DecideMigration, Answers, Notify, ConsentInv
  <2>2. wpc' \in Prompting /\ wpc' \notin BeforePrompt \cup Committing \cup {"commitCheck"}
    BY <2>1 DEF Prompting, Waiting, BeforePrompt, Committing
  <2> QED
    BY <2>1, <2>2 DEF ConsentInv
<1> QED
  BY <1>1, <1>2, <1>3, <1>4, <1>5, <1>6, <1>7, <1>8, <1>9, <1>10, <1>11 DEF Next, Worker

LEMMA ConsentInvariant == Spec => []ConsentInv
  BY InitConsentInv, TypeInvariant, OrderInvariant, StepConsentInv, PTL DEF Spec

(* No operation that asked the user reaches the phases that change         *)
(* packages without the user's acceptance of that very operation           *)
(* (ResolveUnmanagedReplacements, DecideMigration).                        *)
THEOREM NoReplacementWithoutConsent == Spec => []ConsentedReplacement
<1>1. ConsentInv => ConsentedReplacement
  BY DEF ConsentInv, ConsentedReplacement
<1> QED
  BY ConsentInvariant, <1>1, PTL

-----------------------------------------------------------------------------
(* Cancellation *)

LEMMA InitCancelInv == Init => CancelInv
  BY DEF Init, CancelInv, Cancellable, TimelyCancelHonoured

LEMMA CancelFrame ==
  ASSUME CancelInv, nextGeneration' = nextGeneration, wgen' = wgen, timely' \subseteq timely,
         RequestUnsettled' => RequestUnsettled,
         wpc' \in Committing => wpc \in Committing,
         Cancellable' => Cancellable /\ cancelRequested' = cancelRequested
  PROVE  CancelInv'
  BY DEF CancelInv, TimelyCancelHonoured

LEMMA StepCancelInv ==
  ASSUME TypeInv, OrderInv, CancelInv, [Next]_vars
  PROVE  CancelInv'
<1> USE DEF requestVars, migVars, callerVars, workVars, history
<1>1. ASSUME NEW c \in Callers, RequestAccept(c)
      PROVE  CancelInv'
  <2>1. nextGeneration \in Nat /\ nextGeneration' = nextGeneration + 1
    BY <1>1, BoundsAssumption DEF RequestAccept, TypeInv, TypeOK, Generation
  <2>2. timely \subseteq Nat
    BY BoundsAssumption DEF TypeInv, TypeOK, Generation
  <2>3. \A g \in timely : g <= nextGeneration' /\ g # nextGeneration'
    BY <2>1, <2>2 DEF CancelInv
  <2> QED
    BY <1>1, <2>3 DEF RequestAccept, CancelInv, TimelyCancelHonoured
<1>2. ASSUME NEW c \in Callers, RequestClear(c)
      PROVE  CancelInv'
  <2>1. ~(nextGeneration \in timely /\ Cancellable)
    BY <1>2 DEF CancelInv, RequestClear, Call, RequestUnsettled
  <2> QED
    BY <1>2, <2>1 DEF RequestClear, CancelInv, Cancellable, TimelyCancelHonoured
<1>3. ASSUME NEW c \in Callers, CancelStore(c)
      PROVE  CancelInv'
  <2>1. RequestUnsettled' = RequestUnsettled
    BY <1>3 DEF CancelStore, Call, RequestUnsettled, TypeInv, TypeOK
  <2>2. wpc \in Committing => ~Cancellable
    BY WorkerMoves DEF Cancellable, OrderInv, OneOperation, Executing, Body, BeforeCommit, Committing,
                       Waiting, GatePhases
  <2>3. nextGeneration \in Nat
    BY BoundsAssumption DEF TypeInv, TypeOK, Generation
  <2> QED
    BY <1>3, <2>1, <2>2, <2>3 DEF CancelStore, CancelInv, Cancellable, TimelyCancelHonoured
<1>4. ASSUME \/ \E c \in Callers : \/ RequestPublish(c) \/ RequestNotify(c)
                                 \/ CancelRead(c) \/ CancelNotify(c) \/ CancelPublish(c)
             \/ \E g \in 1..MaxGen, accept \in BOOLEAN : DecideMigration(g, accept)
             \/ SpuriousWake \/ Park \/ UNCHANGED vars
      PROVE  CancelInv'
  <2>1. UNCHANGED <<busy, pending, nextGeneration, wgen, timely, cancelRequested>>
    BY <1>4 DEF vars, SpuriousWake, Park, RequestPublish, RequestNotify, CancelRead, CancelNotify,
                CancelPublish, DecideMigration
  <2>2. RequestUnsettled' => RequestUnsettled
    BY <1>4 DEF vars, SpuriousWake, Park, RequestPublish, RequestNotify, CancelRead, CancelNotify,
                CancelPublish, DecideMigration, Call, RequestUnsettled, TypeInv, TypeOK
  <2>3. wpc' = wpc \/ wpc' \in {"idle", "parked"} \/ (wpc = "asleep" /\ wpc' = "wait")
    BY <1>4 DEF vars, SpuriousWake, Park, RequestPublish, RequestNotify, CancelRead, CancelNotify,
                CancelPublish, DecideMigration, Notify
  <2>4. wpc' \in BeforeCommit => wpc \in BeforeCommit
    BY <2>3 DEF BeforeCommit, Waiting, GatePhases
  <2>5. wpc' \in Committing => wpc \in Committing
    BY <2>3 DEF Committing
  <2> QED
    BY <2>1, <2>2, <2>4, <2>5, CancelFrame DEF Cancellable
<1>5. CASE TakeRequest
  <2>1. Cancellable /\ wpc' \notin Committing
    BY <1>5 DEF TakeRequest, Cancellable, OrderInv, OneOperation, Committing, GoTo, End
  <2>2. UNCHANGED <<nextGeneration, timely, cancelRequested, RequestUnsettled>>
    BY <1>5 DEF TakeRequest, RequestUnsettled
  <2> QED
    BY <2>1, <2>2 DEF CancelInv, TimelyCancelHonoured
<1>6. CASE Gate
  <2>1. busy /\ wpc \in BeforeCommit /\ wgen = nextGeneration
    BY <1>6, ExecutingStays DEF Gate, BeforeCommit, OrderInv, OneOperation
  <2>2. wgen \in timely => cancelRequested
    BY <2>1 DEF CancelInv, Cancellable
  <2>3. UNCHANGED <<busy, pending, nextGeneration, wgen, timely, cancelRequested, RequestUnsettled>>
    BY <1>6 DEF Gate, RequestUnsettled
  <2>4. cancelRequested => wpc' = "finish"
    BY <1>6 DEF Gate, IsCancelled, End
  <2> QED
    BY <2>1, <2>2, <2>3, <2>4
       DEF CancelInv, Cancellable, TimelyCancelHonoured, Committing, BeforeCommit
<1>7. CASE Publish
  <2>1. UNCHANGED <<busy, pending, nextGeneration, wgen, timely, cancelRequested, RequestUnsettled>>
    BY <1>7 DEF Publish, RequestUnsettled
  <2>2. wpc' \in Committing => wpc \in Committing
    BY <1>7 DEF Publish, Continue, AfterResolve, AfterStage, AfterCommit, AfterReload, GoTo, End,
                Committing
  <2>3. wpc' \in BeforeCommit => wpc \in BeforeCommit
    BY <1>7 DEF Publish, Continue, AfterResolve, AfterStage, AfterCommit, AfterReload, GoTo, End,
                BeforeCommit, Waiting, GatePhases
  <2> QED
    BY <2>1, <2>2, <2>3, CancelFrame DEF Cancellable
<1>8. CASE Draft \/ OpenMigration \/ CheckAndBlock \/ FallAsleep \/ Finish
  <2>1. UNCHANGED <<busy, pending, nextGeneration, wgen, timely, cancelRequested, RequestUnsettled>>
    BY <1>8 DEF Draft, OpenMigration, CheckAndBlock, FallAsleep, Finish, RequestUnsettled
  <2>2. \/ wpc' = wpc
        \/ wpc \in BeforeCommit /\ wpc' \in {"prompt", "blocking", "asleep"}
        \/ wpc' \in {"clear", "report"}
    BY <1>8 DEF Draft, OpenMigration, CheckAndBlock, FallAsleep, Finish, GoTo, BeforeCommit, Waiting
  <2> QED
    BY <2>1, <2>2, CancelFrame DEF Cancellable, BeforeCommit, Waiting, GatePhases, Committing
<1>9. CASE TakeDecision
  <2>1. UNCHANGED <<busy, pending, nextGeneration, wgen, timely, RequestUnsettled>>
    BY <1>9 DEF TakeDecision, RequestUnsettled
  <2>2. /\ wpc \in BeforeCommit /\ wpc' \in {"finish", "commitCheck"}
        /\ wpc' = "finish" \/ UNCHANGED cancelRequested
    BY <1>9 DEF TakeDecision, GoTo, End, BeforeCommit, Waiting
  <2>3. pending = 0
    BY <1>9, ExecutingStays, WorkerMoves DEF OrderInv, OneOperation
  <2> QED
    BY <2>1, <2>2, <2>3, CancelFrame DEF Cancellable, BeforeCommit, Waiting, GatePhases, Committing
<1>10. CASE ClearCancel \/ Release
  <2>1. UNCHANGED <<nextGeneration, wgen, RequestUnsettled>> /\ timely' \subseteq timely
    BY <1>10 DEF ClearCancel, Release, Forget, RequestUnsettled
  <2>2. wpc' \notin BeforeCommit \cup Committing
    BY <1>10 DEF ClearCancel, Release, BeforeCommit, Waiting, GatePhases, Committing
  <2>3. pending = 0 /\ pending' = 0
    BY <1>10, WorkerMoves DEF ClearCancel, Release, OrderInv, OneOperation, Ending
  <2> QED
    BY <2>1, <2>2, <2>3, CancelFrame DEF Cancellable
<1> QED
  BY <1>1, <1>2, <1>3, <1>4, <1>5, <1>6, <1>7, <1>8, <1>9, <1>10 DEF Next, Worker, Resume

LEMMA CancelInvariant == Spec => []CancelInv
  BY InitCancelInv, TypeInvariant, OrderInvariant, StepCancelInv, PTL DEF Spec

(* A cancellation stored while a check of IsCancelled is still ahead, and  *)
(* not erased by the request it is aimed at, keeps the operation out of    *)
(* the phases that change packages, however the threads interleave         *)
(* (Cancel, Request, ExecuteInstall, ExecuteInstalledRemove).              *)
THEOREM TimelyCancelIsHonoured == Spec => []TimelyCancelHonoured
<1>1. CancelInv => TimelyCancelHonoured
  BY DEF CancelInv
<1> QED
  BY CancelInvariant, <1>1, PTL

-----------------------------------------------------------------------------
(* Terminal snapshots *)

LEMMA InitTerminalInv == Init => TerminalInv
<1>1. 0 <= 0
  OBVIOUS
<1> QED
  BY <1>1, NoDraftFacts DEF Init, TerminalInv, TerminalMeansFinished, Terminal

LEMMA StateKinds ==
  /\ "Queued" \in Active /\ Active \cap Terminal = {}
  /\ \A phase \in TransitionPhases : PhaseState[phase] \in Terminal => phase = "current"
  BY DEF Active, Terminal, TransitionPhases, PhaseState

LEMMA StepTerminalInv ==
  ASSUME TypeInv, OrderInv, TerminalInv, [Next]_vars
  PROVE  TerminalInv'
<1> USE DEF requestVars, migVars, callerVars, workVars, history
<1>a. /\ nextGeneration \in Nat
      /\ \A s \in Snapshot : s.gen \in Nat
  BY BoundsAssumption DEF TypeInv, TypeOK, Generation, Snapshot
<1>1. ASSUME NEW c \in Callers, RequestAccept(c)
      PROVE  TerminalInv'
  <2>1. /\ nextGeneration' = nextGeneration + 1 /\ nextGeneration' \in Generation
        /\ UNCHANGED <<snapshot, wdraft>>
        /\ cdraft' = [cdraft EXCEPT ![c] = Queued(nextGeneration')]
    BY <1>1, BoundsAssumption DEF RequestAccept, TypeInv, TypeOK, Generation
  <2>2. Queued(nextGeneration').gen = nextGeneration' /\ Queued(nextGeneration').state \in Active
    BY <2>1, QueuedFacts, StateKinds
  <2>3. snapshot \in Snapshot /\ cdraft \in [Callers -> Snapshot \cup {NoDraft}]
    BY DEF TypeInv, TypeOK
  <2>4. snapshot.gen < nextGeneration'
    BY <1>a, <2>1, <2>3 DEF TerminalInv
  <2>5. \A d \in Callers :
          cdraft'[d] \in Snapshot => cdraft'[d].gen <= nextGeneration' /\ cdraft'[d].state \in Active
    BY <1>a, <2>1, <2>2, <2>3 DEF TerminalInv
  <2>6. wdraft' \in Snapshot => wdraft'.gen <= nextGeneration'
    BY <1>a, <2>1 DEF TerminalInv
  <2> QED
    BY <1>a, <2>1, <2>3, <2>4, <2>5, <2>6 DEF TerminalInv, TerminalMeansFinished
<1>2. ASSUME NEW c \in Callers, RequestPublish(c) \/ CancelPublish(c)
      PROVE  TerminalInv'
  <2>1. UNCHANGED <<pending, nextGeneration, wpc, wdraft>>
    BY <1>2 DEF RequestPublish, CancelPublish
  <2>2. cdraft[c] \in Snapshot
    BY <1>2 DEF RequestPublish, CancelPublish, Call, TypeInv, DraftInv
  <2>3. snapshot'.gen = cdraft[c].gen /\ snapshot'.state = cdraft[c].state
    BY <1>2, <2>2, EditSnapshot DEF RequestPublish, CancelPublish
  <2>4. \A d \in Callers : cdraft'[d] \in Snapshot => cdraft'[d] = cdraft[d]
    BY <1>2, NoDraftFacts DEF RequestPublish, CancelPublish, TypeInv, TypeOK
  <2>5. snapshot'.gen <= nextGeneration' /\ snapshot'.state \notin Terminal
    BY <2>1, <2>2, <2>3, StateKinds DEF TerminalInv
  <2> QED
    BY <2>1, <2>4, <2>5 DEF TerminalInv, TerminalMeansFinished
<1>3. ASSUME \/ \E c \in Callers : \/ RequestClear(c) \/ RequestNotify(c)
                                 \/ CancelRead(c) \/ CancelStore(c) \/ CancelNotify(c)
             \/ \E g \in 1..MaxGen, accept \in BOOLEAN : DecideMigration(g, accept)
             \/ SpuriousWake \/ Park \/ Gate \/ OpenMigration \/ CheckAndBlock \/ FallAsleep
             \/ TakeDecision \/ Finish \/ ClearCancel \/ Release \/ UNCHANGED vars
      PROVE  TerminalInv'
  <2>1. UNCHANGED <<pending, nextGeneration, snapshot, wdraft>>
    BY <1>3 DEF vars, SpuriousWake, Park, RequestClear, RequestNotify, CancelRead, CancelStore,
                CancelNotify, DecideMigration, Gate, OpenMigration, CheckAndBlock, FallAsleep,
                TakeDecision, Finish, ClearCancel, Release
  <2>2. \A d \in Callers :
          cdraft'[d] \in Snapshot =>
            \/ cdraft'[d] = cdraft[d]
            \/ cdraft'[d] = snapshot /\ snapshot.state \in Active
    <3>1. ASSUME NEW c \in Callers, CancelRead(c)
          PROVE  snapshot.state \in Active /\ cdraft' = [cdraft EXCEPT ![c] = snapshot]
      BY <3>1 DEF CancelRead
    <3>2. ASSUME NEW c \in Callers, CancelNotify(c)
          PROVE  cdraft' = cdraft \/ cdraft' = [cdraft EXCEPT ![c] = NoDraft]
      BY <3>2 DEF CancelNotify
    <3>3. CASE \E c \in Callers : CancelRead(c) \/ CancelNotify(c)
      BY <3>1, <3>2, <3>3, NoDraftFacts DEF TypeInv, TypeOK
    <3>4. CASE UNCHANGED cdraft
      BY <3>4
    <3> QED
      BY <1>3, <3>3, <3>4
         DEF vars, SpuriousWake, Park, RequestClear, RequestNotify, CancelStore,
             DecideMigration, Gate, OpenMigration, CheckAndBlock, FallAsleep,
             TakeDecision, Finish, ClearCancel, Release
  <2>3. \/ wpc' = wpc
        \/ wpc \in Body
        \/ wpc' \in {"idle", "parked", "clear", "report", "release"}
    BY <1>3
       DEF vars, SpuriousWake, Park, RequestClear, RequestNotify, CancelRead, CancelStore,
           CancelNotify, DecideMigration, Notify, Gate, OpenMigration, CheckAndBlock, FallAsleep,
           TakeDecision, Finish, ClearCancel, Release, Body, BeforeCommit, Waiting
  <2>4. wpc' \in Body => wpc \in Body
    BY <2>3 DEF Body, BeforeCommit, Waiting, GatePhases, Committing
  <2>5. \A d \in Callers :
          cdraft'[d] \in Snapshot => cdraft'[d].gen <= nextGeneration' /\ cdraft'[d].state \in Active
    BY <2>1, <2>2 DEF TerminalInv
  <2> QED
    BY <2>1, <2>4, <2>5 DEF TerminalInv, TerminalMeansFinished
<1>4. CASE TakeRequest
  <2>1. pending = nextGeneration /\ nextGeneration # 0 /\ pending # 0
    BY <1>4 DEF TakeRequest, OrderInv, OneOperation
  <2> QED
    BY <1>4, <2>1 DEF TakeRequest, TerminalInv, TerminalMeansFinished
<1>5. CASE Draft
  <2>1. wdraft'.gen = snapshot.gen
    <3>1. snapshot \in Snapshot /\ (wpc = "report" => wfinal \in Terminal)
      BY DEF TypeInv, TypeOK, DraftInv
    <3>2. \E state \in OperationState : wdraft' = [snapshot EXCEPT !.state = state]
      BY <1>5, <3>1, PhaseStateFacts DEF Draft
    <3> QED
      BY <3>1, <3>2, EditSnapshot
  <2>2. UNCHANGED <<pending, nextGeneration, snapshot, cdraft, wpc>>
    BY <1>5 DEF Draft
  <2> QED
    BY <2>1, <2>2 DEF TerminalInv, TerminalMeansFinished
<1>6. CASE Publish
  <2>1. /\ wdraft \in Snapshot /\ snapshot' = wdraft /\ wdraft' \notin Snapshot
        /\ UNCHANGED <<pending, nextGeneration, cdraft>>
    BY <1>6, NoDraftFacts DEF Publish, TypeInv, TypeOK
  <2>2. pending = 0
    BY <1>6, ExecutingStays, WorkerMoves DEF OrderInv, OneOperation
  <2>3. wdraft.state \in Terminal => wpc \in {"current", "report"}
    BY <1>6, StateKinds DEF Publish, TypeInv, DraftInv
  <2>4. wpc \in {"current", "report"} => wpc' \notin Body
    BY <1>6 DEF Publish, Continue, AfterResolve, AfterStage, AfterCommit, AfterReload, GoTo, End,
                Body, BeforeCommit, Waiting, GatePhases, Committing
  <2> QED
    BY <2>1, <2>2, <2>3, <2>4 DEF TerminalInv, TerminalMeansFinished
<1> QED
  BY <1>1, <1>2, <1>3, <1>4, <1>5, <1>6 DEF Next, Worker, Resume

LEMMA TerminalInvariant == Spec => []TerminalInv
  BY InitTerminalInv, TypeInvariant, OrderInvariant, StepTerminalInv, PTL DEF Spec

(* A terminal snapshot of the latest request means that the worker has left *)
(* the operation, so a caller that polls by generation, such as             *)
(* DownloadModWorkshop, never resumes while packages are being changed.     *)
THEOREM TerminalSnapshotIsFinal == Spec => []TerminalMeansFinished
<1>1. TerminalInv => TerminalMeansFinished
  BY DEF TerminalInv
<1> QED
  BY TerminalInvariant, <1>1, PTL
-----------------------------------------------------------------------------
(* Wakeups *)

LEMMA InitWakeInv == Init => WakeInv
  BY DEF Init, WakeInv

(* A request is pending only from its acceptance on, and the worker parks   *)
(* only without one.                                                        *)
LEMMA CallerWakeInv ==
  ASSUME TypeInv, WakeInv, NEW c \in Callers, RequestAccept(c) \/ CancelRead(c) \/ Resume(c)
  PROVE  WakeInv'
<1>1. /\ \A d \in Callers \ {c} : cpc'[d] = cpc[d]
      /\ WillNotify(c) => WillNotify(c)' \/ RequestNotify(c)
  BY DEF RequestAccept, CancelRead, Resume, RequestClear, RequestPublish, RequestNotify, CancelStore,
         CancelNotify, CancelPublish, Call, WillNotify, TypeInv, TypeOK
<1>2. /\ wpc' = wpc \/ (wpc = "parked" /\ wpc' = "idle") \/ (wpc = "asleep" /\ wpc' = "wait")
      /\ migDecision' = migDecision
  BY DEF RequestAccept, CancelRead, Resume, RequestClear, RequestPublish, RequestNotify, CancelStore,
         CancelNotify, CancelPublish, Notify, migVars, workVars
<1>3. wpc' # "parked" \/ pending' = 0 \/ \E d \in Callers : WillNotify(d)'
  <2>1. CASE RequestAccept(c)
    <3>1. WillNotify(c)'
      BY <2>1 DEF RequestAccept, Call, WillNotify, TypeInv, TypeOK
    <3> QED
      BY <3>1
  <2>2. CASE RequestNotify(c)
    BY <2>2 DEF RequestNotify, Notify
  <2>3. CASE CancelRead(c) \/ (Resume(c) /\ ~RequestNotify(c))
    <3>1. pending' = pending
      BY <2>3 DEF CancelRead, Resume, RequestClear, RequestPublish, CancelStore, CancelNotify, CancelPublish,
                  requestVars
    <3>2. \A d \in Callers : WillNotify(d) => WillNotify(d)'
      <4>1. ~RequestNotify(c)
        BY <2>3 DEF CancelRead, RequestNotify, Call, TypeInv, TypeOK
      <4> QED
        BY <1>1, <4>1 DEF WillNotify
    <3> QED
      BY <1>2, <3>1, <3>2 DEF WakeInv
  <2> QED
    BY <2>1, <2>2, <2>3 DEF Resume
<1> QED
  BY <1>2, <1>3 DEF WakeInv

LEMMA StepWakeInv == ASSUME TypeInv, WakeInv, [Next]_vars PROVE WakeInv'
<1>1. ASSUME NEW c \in Callers, RequestAccept(c) \/ CancelRead(c) \/ Resume(c) PROVE WakeInv'
  BY <1>1, CallerWakeInv
<1>2. ASSUME NEW g \in 1..MaxGen, NEW accept \in BOOLEAN, DecideMigration(g, accept) PROVE WakeInv'
  <2>1. wpc' \notin {"blocking", "asleep"} /\ (wpc' = "parked" => wpc = "parked")
    BY <1>2 DEF DecideMigration, Notify
  <2> QED
    BY <1>2, <2>1 DEF DecideMigration, WakeInv, WillNotify, requestVars, callerVars
<1>3. CASE Worker
  <2>1. CASE Park
    BY <2>1 DEF Park, WakeInv, requestVars
  <2>2. CASE CheckAndBlock \/ FallAsleep
    BY <2>2 DEF CheckAndBlock, FallAsleep, Decided, WakeInv, migVars
  <2>3. CASE Draft
    BY <2>3 DEF Draft, WakeInv, WillNotify, requestVars, migVars, callerVars
  <2>4. CASE TakeRequest \/ Publish \/ Gate \/ OpenMigration \/ TakeDecision \/ Finish \/ ClearCancel \/ Release
    <3>1. wpc' \notin {"parked", "blocking", "asleep"}
      BY <2>4 DEF TakeRequest, Publish, Continue, AfterResolve, AfterStage, AfterCommit, AfterReload, Gate, PassGate,
             OpenMigration, TakeDecision, Finish, ClearCancel, Release, GoTo, End
    <3> QED
      BY <3>1 DEF WakeInv
  <2> QED
    BY <1>3, <2>1, <2>2, <2>3, <2>4 DEF Worker
<1>4. CASE SpuriousWake
  BY <1>4 DEF SpuriousWake, WakeInv
<1>5. CASE UNCHANGED vars
  BY <1>5 DEF vars, WakeInv, WillNotify, requestVars, migVars, workVars, callerVars
<1> QED
  BY <1>1, <1>2, <1>3, <1>4, <1>5 DEF Next

(* The worker is never left asleep over a request that nobody will announce *)
(* to it, nor over a prompt that is decided: the safety part of             *)
(* EveryRequestFinishes, for any callers and any number of requests         *)
(* (Request, RunWorker, DecideMigration, ResolveUnmanagedReplacements).     *)
THEOREM NoRequestIsMissed == Spec => []WakeupsArrive
<1>1. Spec => []WakeInv
  BY InitWakeInv, TypeInvariant, StepWakeInv, PTL DEF Spec
<1>2. WakeInv /\ ConsentInv => WakeupsArrive
  BY DEF WakeInv, ConsentInv, WakeupsArrive, WillNotify, Prompting, Waiting
<1> QED
  BY <1>1, <1>2, ConsentInvariant, PTL
=============================================================================
