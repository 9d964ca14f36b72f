--------------------------- MODULE ModInstallService ---------------------------
(***************************************************************************)
(* CModInstallService (src/src/modsystem/modinstaller.cpp): one worker     *)
(* thread installs and removes mod packages on behalf of callers on the    *)
(* main thread (UI script, console), the mod downloader's thread and the   *)
(* r2ns:// URI server thread.                                              *)
(*                                                                         *)
(* The callers and the worker share                                        *)
(*   m_Busy, m_PendingRequest, m_NextGeneration   under m_RequestMutex,    *)
(*   m_MigrationGeneration, m_MigrationDecision   under m_MigrationMutex,  *)
(*   m_CancelRequested                            an atomic flag,          *)
(*   m_Snapshot                                   a pointer that everyone  *)
(*     copies, edits and publishes again, the copy and the publication     *)
(*     being two critical sections.                                        *)
(* A step of this module is one critical section, one atomic access or one *)
(* condition-variable operation.  What the worker does to the network and  *)
(* the disk is a choice of outcome here; ModInstallCommit details it.      *)
(* Shutdown has no caller in the repository, so m_Stopped stays FALSE.     *)
(***************************************************************************)
EXTENDS Naturals, FiniteSets

CONSTANTS
  Callers,   \* threads that call Request and Cancel
  MaxGen,    \* bound: accepted requests in a behaviour
  MaxPlans   \* bound: packages one install resolves to

ASSUME BoundsAssumption == MaxGen \in Nat /\ MaxPlans \in Nat \ {0}

VARIABLES
  busy, pending, nextGeneration,     \* m_RequestMutex; pending = 0 is "no request"
  cancelRequested,                   \* std::atomic_bool
  snapshot,                          \* *m_Snapshot
  migGeneration, migDecision,        \* m_MigrationMutex
  wpc, wgen, wkind, wplans,          \* the worker: program point, request, packages left
  wdraft, wresult, wfinal,           \* the copy being edited, outcome, state to report
  cpc, cdraft,                       \* callers: program point and the copy being edited
  prompted, accepted, timely         \* history variables
                                     \* prompted: requests that asked the user to replace packages
                                     \* accepted: requests whose prompt the user accepted
                                     \* timely:   requests cancelled before their last check

requestVars == <<busy, pending, nextGeneration>>
migVars     == <<migGeneration, migDecision>>
workVars    == <<wpc, wgen, wkind, wplans, wdraft, wresult, wfinal>>
callerVars  == <<cpc, cdraft>>
history     == <<prompted, accepted, timely>>
vars == <<requestVars, cancelRequested, snapshot, migVars, workVars, callerVars, history>>

-----------------------------------------------------------------------------
Generation == 0..MaxGen

Terminal == {"Done", "Failed", "Cancelled"}
Active   == {"Queued", "FetchingDetails", "ResolvingDependencies", "Downloading", "Validating",
             "Staging", "AwaitingMigration", "Committing", "Reloading"}
OperationState == Active \cup Terminal \cup {"Idle"}

Snapshot == [gen : Generation, state : OperationState, deferred : BOOLEAN]
NoDraft  == [gen |-> 0, state |-> "none", deferred |-> FALSE]
Queued(g) == [gen |-> g, state |-> "Queued", deferred |-> FALSE]

(* Phases that begin with a Transition, and the state each one publishes. *)
PhaseState ==
  [fetch    |-> "FetchingDetails",  resolve |-> "ResolvingDependencies", current  |-> "Done",
   download |-> "Downloading",      validate |-> "Validating",           stage    |-> "Staging",
   prompt   |-> "AwaitingMigration", unload  |-> "Reloading",            commit   |-> "Committing",
   reload   |-> "Reloading"]
TransitionPhases == DOMAIN PhaseState

Resting    == {"idle", "parked"}                            \* RunWorker waits for a request
Waiting    == {"wait", "blocking", "asleep"}                \* in m_MigrationChanged.wait
GatePhases == {"stageCheck", "commitCheck", "removeStart", "removeCheck"}
BeforeCommit ==                      \* the last IsCancelled check is still ahead
  {"fetch", "resolve", "download", "validate", "stage", "migrate", "prompt"}
    \cup Waiting \cup GatePhases
Committing == {"unload", "commit", "reload"}                \* packages are being changed
Body       == BeforeCommit \cup Committing \cup {"current"} \* inside Execute...
Ending     == {"finish", "report", "clear", "release"}      \* the tail of RunWorker
Executing  == Body \cup Ending

-----------------------------------------------------------------------------
Init ==
  /\ busy = FALSE /\ pending = 0 /\ nextGeneration = 0
  /\ cancelRequested = FALSE
  /\ snapshot = [gen |-> 0, state |-> "Idle", deferred |-> FALSE]
  /\ migGeneration = 0 /\ migDecision = "None"
  /\ wpc = "idle" /\ wgen = 0 /\ wkind = "install" /\ wplans = 0
  /\ wdraft = NoDraft /\ wresult = "none" /\ wfinal = "none"
  /\ cpc = [c \in Callers |-> "idle"] /\ cdraft = [c \in Callers |-> NoDraft]
  /\ prompted = {} /\ accepted = {} /\ timely = {}

-----------------------------------------------------------------------------
(* Callers: Request, RequestThunderstore, RequestInstalledModRemoval.       *)
(* A refused request changes nothing.                                       *)

Call(c, from, to) == cpc[c] = from /\ cpc' = [cpc EXCEPT ![c] = to]

RequestAllowed_Always == TRUE                 \* mutant: nothing is checked
RequestAllowed == ~busy /\ pending = 0

RequestAccept(c) ==
  /\ Call(c, "idle", "reqClear")
  /\ RequestAllowed
  /\ nextGeneration < MaxGen
  /\ busy' = TRUE
  /\ nextGeneration' = nextGeneration + 1
  /\ pending' = nextGeneration + 1
  /\ cdraft' = [cdraft EXCEPT ![c] = Queued(nextGeneration + 1)]
  /\ UNCHANGED <<cancelRequested, snapshot, migVars, workVars, history>>

RequestClear(c) ==
  /\ Call(c, "reqClear", "reqPublish")
  /\ cancelRequested' = FALSE
  /\ UNCHANGED <<requestVars, snapshot, migVars, workVars, cdraft, history>>

\* mutant: edits the current snapshot instead of starting from an empty one
RequestPublish_KeepsState(c) ==
  /\ Call(c, "reqPublish", "reqNotify")
  /\ snapshot' = [snapshot EXCEPT !.gen = cdraft[c].gen]
  /\ cdraft' = [cdraft EXCEPT ![c] = NoDraft]
  /\ UNCHANGED <<requestVars, cancelRequested, migVars, workVars, history>>

RequestPublish(c) ==
  /\ Call(c, "reqPublish", "reqNotify")
  /\ snapshot' = cdraft[c]
  /\ cdraft' = [cdraft EXCEPT ![c] = NoDraft]
  /\ UNCHANGED <<requestVars, cancelRequested, migVars, workVars, history>>

Notify_Missing(from, to) == wpc' = wpc        \* mutant: the notification is forgotten
Notify(from, to) == wpc' = IF wpc = from THEN to ELSE wpc

RequestNotify(c) ==
  /\ Call(c, "reqNotify", "idle")
  /\ Notify("parked", "idle")
  /\ UNCHANGED <<requestVars, cancelRequested, snapshot, migVars, cdraft, history,
                 wgen, wkind, wplans, wdraft, wresult, wfinal>>

(* Callers: Cancel. *)

CancelRead(c) ==
  /\ Call(c, "idle", "cancelStore")
  /\ snapshot.state \in Active
  /\ cdraft' = [cdraft EXCEPT ![c] = snapshot]
  /\ UNCHANGED <<requestVars, cancelRequested, snapshot, migVars, workVars, history>>

(* An accepted request whose caller has not yet erased the cancel flag. *)
RequestUnsettled == \E c \in Callers : cpc[c] = "reqClear"
Cancellable == busy /\ (pending # 0 \/ wpc \in BeforeCommit)

CancelStore(c) ==
  /\ Call(c, "cancelStore", "cancelNotify")
  /\ cancelRequested' = TRUE
  /\ timely' = IF Cancellable /\ ~RequestUnsettled THEN timely \cup {nextGeneration} ELSE timely
  /\ UNCHANGED <<requestVars, snapshot, migVars, workVars, cdraft, prompted, accepted>>

DefersCancel(c) == cdraft[c].state \in {"Committing", "Reloading"}

(* notify_all without m_MigrationMutex: it wakes a worker that sleeps and  *)
(* misses one that is between its check of the predicate and its sleep.    *)
CancelNotify(c) ==
  /\ Call(c, "cancelNotify", IF DefersCancel(c) THEN "cancelPublish" ELSE "idle")
  /\ cdraft' = IF DefersCancel(c) THEN cdraft ELSE [cdraft EXCEPT ![c] = NoDraft]
  /\ Notify("asleep", "wait")
  /\ UNCHANGED <<requestVars, cancelRequested, snapshot, migVars, history,
                 wgen, wkind, wplans, wdraft, wresult, wfinal>>

CancelPublish(c) ==
  /\ Call(c, "cancelPublish", "idle")
  /\ snapshot' = [cdraft[c] EXCEPT !.deferred = TRUE]
  /\ cdraft' = [cdraft EXCEPT ![c] = NoDraft]
  /\ UNCHANGED <<requestVars, cancelRequested, migVars, workVars, history>>

(* DecideMigration, with whatever generation the script passes.  The        *)
(* notification follows the unlock at once and is part of the step.         *)
Answers_AnyGeneration(g) == migDecision = "Pending"   \* mutant: no generation check
Answers(g) == migGeneration = g /\ migDecision = "Pending"

DecideMigration(g, accept) ==
  /\ wpc # "blocking"                       \* the worker holds m_MigrationMutex there
  /\ Answers(g)
  /\ migDecision' = IF accept THEN "Accepted" ELSE "Declined"
  /\ accepted' = IF accept THEN accepted \cup {g} ELSE accepted
  /\ Notify("asleep", "wait")
  /\ UNCHANGED <<requestVars, cancelRequested, snapshot, migGeneration, callerVars,
                 wgen, wkind, wplans, wdraft, wresult, wfinal, prompted, timely>>

-----------------------------------------------------------------------------
(* The worker: RunWorker's wait and the start of an operation. *)

Park ==
  /\ wpc = "idle" /\ pending = 0
  /\ wpc' = "parked"
  /\ UNCHANGED <<requestVars, cancelRequested, snapshot, migVars, callerVars, history,
                 wgen, wkind, wplans, wdraft, wresult, wfinal>>

SpuriousWake ==
  /\ \/ wpc = "parked" /\ wpc' = "idle"
     \/ wpc = "asleep" /\ wpc' = "wait"
  /\ UNCHANGED <<requestVars, cancelRequested, snapshot, migVars, callerVars, history,
                 wgen, wkind, wplans, wdraft, wresult, wfinal>>

(* Leaving a phase: go on to another one or leave Execute... with a result. *)
GoTo(phase) == wpc' = phase /\ UNCHANGED wresult
End(result) == wpc' = "finish" /\ wresult' = result

(* Which Execute... runs was fixed by the request; nothing reads it before. *)
(* ExecuteRemove may find that the package is not tracked.                  *)
TakeRequest ==
  /\ wpc = "idle" /\ pending # 0
  /\ wgen' = pending /\ pending' = 0
  /\ \/ wkind' = "install" /\ GoTo("fetch")
     \/ wkind' = "remove" /\ (GoTo("removeStart") \/ End("failed"))
  /\ UNCHANGED <<busy, nextGeneration, cancelRequested, snapshot, migVars, wplans, wdraft, wfinal,
                 callerVars, history>>

(* Transition, first half: copy the current snapshot and edit the copy. *)
Draft ==
  /\ wdraft = NoDraft
  /\ \/ wpc \in TransitionPhases /\ wdraft' = [snapshot EXCEPT !.state = PhaseState[wpc]]
     \/ wpc = "report" /\ wdraft' = [snapshot EXCEPT !.state = wfinal]
  /\ UNCHANGED <<requestVars, cancelRequested, snapshot, migVars, callerVars, history,
                 wpc, wgen, wkind, wplans, wresult, wfinal>>

(* What follows the Transition of each phase, once the copy is published. *)
AfterResolve == \/ End("failed")                    \* unresolvable, cancelled, no capture
                \/ GoTo("current")                  \* the update is already installed
                \/ GoTo("stageCheck")
AfterStage   == \/ End("failed")
                \/ wplans > 1 /\ GoTo("stageCheck")
                \/ wplans = 1 /\ (GoTo("migrate") \/ GoTo("commitCheck"))
AfterCommit  == \/ End("failed")                    \* rolled back
                \/ wkind # "remove" /\ End("recovery")
                \/ GoTo("reload")
AfterReload  == End("succeeded") \/ End("failed") \/ End("recovery")

Continue ==
  \/ wpc = "fetch"    /\ (GoTo("resolve") \/ End("failed"))
  \/ wpc = "resolve"  /\ AfterResolve
  \/ wpc = "current"  /\ End("succeeded")
  \/ wpc = "download" /\ (GoTo("validate") \/ End("failed"))
  \/ wpc = "validate" /\ (GoTo("stage") \/ End("failed"))
  \/ wpc = "stage"    /\ AfterStage
  \/ wpc = "prompt"   /\ GoTo("wait")
  \/ wpc = "unload"   /\ (GoTo("commit") \/ End("failed"))
  \/ wpc = "commit"   /\ AfterCommit
  \/ wpc = "reload"   /\ AfterReload
  \/ wpc = "report"   /\ GoTo("clear")

PlansAfter ==
  IF wpc' = "stageCheck"
    THEN IF wpc = "resolve" THEN wplans' \in 1..MaxPlans ELSE wplans' = wplans - 1
    ELSE wplans' = IF wpc \in {"download", "validate"} /\ wpc' # "finish" THEN wplans ELSE 0

(* Transition, second half: publish the copy, then run on to the next point. *)
Publish ==
  /\ wdraft # NoDraft
  /\ snapshot' = wdraft /\ wdraft' = NoDraft
  /\ Continue /\ PlansAfter
  /\ UNCHANGED <<requestVars, cancelRequested, migVars, callerVars, history, wgen, wkind, wfinal>>

(* The checks of IsCancelled that precede every mutation of a package. *)
PassGate ==
  \/ wpc = "stageCheck"  /\ GoTo("download")
  \/ wpc = "commitCheck" /\ (GoTo("unload") \/ GoTo("commit") \/ End("failed"))
  \/ wpc = "removeStart" /\ (GoTo("removeCheck") \/ End("failed"))
  \/ wpc = "removeCheck" /\ GoTo("unload")

IsCancelled_NotBeforeCommit ==                \* mutant: no check after the migration wait
  cancelRequested /\ wpc # "commitCheck"
IsCancelled == cancelRequested

Gate ==
  /\ wpc \in GatePhases
  /\ IF IsCancelled THEN End("failed") ELSE PassGate
  /\ UNCHANGED <<requestVars, cancelRequested, snapshot, migVars, callerVars, history,
                 wgen, wkind, wplans, wdraft, wfinal>>

(* ResolveUnmanagedReplacements: ask the user, then wait on m_MigrationChanged. *)
OpenMigration ==
  /\ wpc = "migrate"
  /\ migGeneration' = wgen /\ migDecision' = "Pending"
  /\ prompted' = prompted \cup {wgen}
  /\ GoTo("prompt")
  /\ UNCHANGED <<requestVars, cancelRequested, snapshot, callerVars, accepted, timely,
                 wgen, wkind, wplans, wdraft, wfinal>>

Decided == migDecision # "Pending" \/ cancelRequested

CheckAndBlock ==
  /\ wpc = "wait" /\ ~Decided
  /\ wpc' = "blocking"
  /\ UNCHANGED <<requestVars, cancelRequested, snapshot, migVars, callerVars, history,
                 wgen, wkind, wplans, wdraft, wresult, wfinal>>

FallAsleep ==
  /\ wpc = "blocking"
  /\ wpc' = "asleep"
  /\ UNCHANGED <<requestVars, cancelRequested, snapshot, migVars, callerVars, history,
                 wgen, wkind, wplans, wdraft, wresult, wfinal>>

TakeDecision ==
  /\ wpc = "wait" /\ Decided
  /\ migDecision' = "None" /\ migGeneration' = 0
  /\ IF migDecision = "Accepted"
       THEN GoTo("commitCheck") /\ wkind' = "replace" /\ UNCHANGED cancelRequested
       ELSE End("failed") /\ cancelRequested' = TRUE /\ UNCHANGED wkind
  /\ UNCHANGED <<requestVars, snapshot, callerVars, history, wgen, wplans, wdraft, wfinal>>

(* The history is kept only for operations that have not ended. *)
Forget(g) ==
  /\ prompted' = prompted \ {g}
  /\ accepted' = accepted \ {g}
  /\ timely' = timely \ {g}

(* The tail of RunWorker: read the flag and the snapshot, report, clear the *)
(* flag, and only then give up m_Busy.                                      *)
Outcome ==
  IF wresult = "succeeded" THEN "Done"
  ELSE IF cancelRequested /\ wresult # "recovery" THEN "Cancelled" ELSE "Failed"

Finish ==
  /\ wpc = "finish"
  /\ IF wresult = "succeeded" /\ snapshot.state = "Done"
       THEN wpc' = "clear" /\ wfinal' = "none"
       ELSE wpc' = "report" /\ wfinal' = Outcome
  /\ UNCHANGED <<requestVars, cancelRequested, snapshot, migVars, callerVars, history,
                 wgen, wkind, wplans, wdraft, wresult>>

ClearCancel ==
  /\ wpc = "clear"
  /\ cancelRequested' = FALSE
  /\ wpc' = "release"
  /\ UNCHANGED <<requestVars, snapshot, migVars, callerVars, history,
                 wgen, wkind, wplans, wdraft, wresult, wfinal>>

Release ==
  /\ wpc = "release"
  /\ busy' = FALSE
  /\ wpc' = "idle" /\ wkind' = "install" /\ wresult' = "none" /\ wfinal' = "none"
  /\ Forget(wgen)
  /\ UNCHANGED <<pending, nextGeneration, cancelRequested, snapshot, migVars, callerVars,
                 wgen, wplans, wdraft>>

-----------------------------------------------------------------------------
Worker ==
  \/ Park \/ TakeRequest \/ Draft \/ Publish \/ Gate
  \/ OpenMigration \/ CheckAndBlock \/ FallAsleep \/ TakeDecision
  \/ Finish \/ ClearCancel \/ Release

Resume(c) ==    \* a caller inside Request or Cancel runs on
  \/ RequestClear(c) \/ RequestPublish(c) \/ RequestNotify(c)
  \/ CancelStore(c) \/ CancelNotify(c) \/ CancelPublish(c)

Next ==
  \/ Worker
  \/ SpuriousWake
  \/ \E c \in Callers : RequestAccept(c) \/ CancelRead(c) \/ Resume(c)
  \/ \E g \in 1..MaxGen, accept \in BOOLEAN : DecideMigration(g, accept)

(* The worker and every thread inside a call are scheduled, and a player    *)
(* who keeps being shown the migration prompt answers it in the end.        *)
Fairness ==
  /\ WF_vars(Worker)
  /\ \A c \in Callers : WF_vars(Resume(c))
  /\ SF_vars(\E g \in 1..MaxGen, accept \in BOOLEAN : DecideMigration(g, accept))

Spec     == Init /\ [][Next]_vars
FairSpec == Spec /\ Fairness
-----------------------------------------------------------------------------
TypeOK ==
  /\ busy \in BOOLEAN /\ pending \in Generation /\ nextGeneration \in Generation
  /\ cancelRequested \in BOOLEAN
  /\ snapshot \in Snapshot
  /\ migGeneration \in Generation
  /\ migDecision \in {"None", "Pending", "Accepted", "Declined"}
  /\ wpc \in Resting \cup Executing
  /\ wgen \in Generation /\ wkind \in {"install", "replace", "remove"}
  /\ wplans \in 0..MaxPlans
  /\ wdraft \in Snapshot \cup {NoDraft}
  /\ wresult \in {"none", "succeeded", "failed", "recovery"}
  /\ wfinal \in Terminal \cup {"none"}
  /\ cpc \in [Callers -> {"idle", "reqClear", "reqPublish", "reqNotify",
                          "cancelStore", "cancelNotify", "cancelPublish"}]
  /\ cdraft \in [Callers -> Snapshot \cup {NoDraft}]
  /\ prompted \subseteq Generation /\ accepted \subseteq Generation
  /\ timely \subseteq Generation

(* One operation at a time: a request is accepted only when the previous   *)
(* one has been taken and finished, so the slot never holds a request      *)
(* while the worker changes packages, and m_Busy is held throughout        *)
(* (m_Busy and m_PendingRequest in Request and RunWorker).                 *)
OneOperation ==
  /\ pending # 0 => busy /\ pending = nextGeneration /\ wpc \in Resting
  /\ wpc \in Executing => busy /\ wgen = nextGeneration
  /\ busy => pending # 0 \/ wpc \in Executing

(* The worker runs accepted requests in order and skips none: a second     *)
(* Request never overwrites the slot of one that was not yet taken.        *)
NoRequestSkipped == [][wgen' # wgen => wgen' = wgen + 1]_vars

(* Packages that the mod browser does not manage are replaced only with    *)
(* the user's consent to this very request, whatever generations the UI    *)
(* answers with and however late (DecideMigration checks the generation,   *)
(* ResolveUnmanagedReplacements consumes the decision).                    *)
ConsentedReplacement ==
  wpc \in Committing /\ wgen \in prompted => wgen \in accepted

(* A cancellation stored while the operation still has a check ahead, and  *)
(* after its Request call has cleared the flag, is honoured: the operation *)
(* never reaches the phases that change packages.                          *)
TimelyCancelHonoured == wpc \in Committing => wgen \notin timely

(* Whoever polls the snapshot for its generation, as DownloadModWorkshop   *)
(* does, sees a terminal state only after the worker left the operation:   *)
(* neither a copy published late by Cancel or Request nor the worker's own *)
(* copy of the previous snapshot reports a running operation as ended.     *)
TerminalMeansFinished ==
  snapshot.state \in Terminal /\ snapshot.gen = nextGeneration /\ nextGeneration # 0
    => pending = 0 /\ wpc \notin Body

(* The worker sleeps only for as long as somebody will wake it: while a     *)
(* request is pending its caller has yet to notify, and in the prompt the   *)
(* decision is open and of this very operation (Request ends with           *)
(* notify_one; DecideMigration decides under m_MigrationMutex).  Only the   *)
(* notification of Cancel can come too early.                              *)
WakeupsArrive ==
  /\ wpc = "parked" /\ pending # 0 => \E c \in Callers : cpc[c] \in {"reqClear", "reqPublish", "reqNotify"}
  /\ wpc = "asleep" => migDecision = "Pending" /\ migGeneration = wgen

(* Every accepted request is taken and its operation ends: no wakeup of    *)
(* RunWorker is lost, and a migration prompt that is answered releases the *)
(* worker (the answer is stored under m_MigrationMutex).                   *)
EveryRequestFinishes ==
  \A g \in 1..MaxGen :
    (nextGeneration = g /\ busy) ~> (nextGeneration = g /\ ~busy)

=============================================================================
