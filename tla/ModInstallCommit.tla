---------------------------- MODULE ModInstallCommit ----------------------------
(***************************************************************************)
(* How CModInstallService changes the packages on disk and the mods in     *)
(* memory (src/src/modsystem/modinstaller.cpp: CommitPlans,                *)
(* ExecuteInstalledRemove and the steps of ExecuteInstall around them).    *)
(*                                                                         *)
(* The worker thread renames folders; everything that touches ModManager   *)
(* is a task it queues for the main thread and waits for, 90 seconds at    *)
(* most.  A task whose wait timed out stays queued and runs all the same.  *)
(* Between frames the user toggles mods, reloads them or cancels.          *)
(*                                                                         *)
(* A step is one rename, one remove_all, one queued task or one answer, so *)
(* every state between two steps is one a killed process can leave behind. *)
(***************************************************************************)
EXTENDS ModRuntime, Sequences

CONSTANTS
  MaxFaults,  \* bound: renames, removals, unloads and waits that fail
  MaxActs     \* bound: what the user does in a behaviour

ASSUME CommitAssumption == MaxFaults \in Nat /\ MaxActs \in Nat

VARIABLES
  wpc, op, plan, idx,            \* the worker: phase, operation, its plans, the current one
  staging, backup,               \* the job directory
  moved, placed,                 \* CommitRecord: oldMoved and replacementsMoved, newPlaced
  rollbackOk, preserve,          \* rollbackSucceeded, preserveRecoveryFiles
  queue, asked, reply,           \* g_TaskQueue and the future the worker waits for
  captured,                      \* enabledStates
  cancelRequested, outcome,
  before, faults, acts,          \* history: the folders at the start of the operation; bounds
  timedOut, gaveUp, partial,     \* history: waits that timed out, LoadMods gave up, a rollback failed
  wanted, exempt                 \* history: the user's choice per mod; mods it is not tracked for,
                                 \* being installed twice or toggled while an operation runs

jobVars     == <<staging, backup, moved, placed>>
waitVars    == <<queue, asked, reply>>
historyVars == <<before, timedOut, gaveUp, partial, wanted, exempt>>
opVars      == <<op, plan, captured, cancelRequested>>
vars == <<disk, runtimeVars, broken, wpc, idx, jobVars, rollbackOk, preserve, waitVars,
          opVars, outcome, faults, acts, historyVars>>

-----------------------------------------------------------------------------
Dest(s) == <<s, "managed">>                      \* plan.destination
InSlot(fs, s) == {f \in fs : SlotOf(f) = s}

(* An operation: the packages that it replaces (oldRoot, replacementRoots)  *)
(* for its slots 1..n; a removal has one old package and no new one.        *)
Plan == [kind : {"install", "remove"}, n : 0..NumSlots, old : SUBSET Folder, repl : SUBSET Folder]
Replaced == plan.old \cup plan.repl
Installs == plan.kind = "install"

AskPhases == {"capture", "unload", "verify", "restore", "restoreOnly"}
Mutating  == {"backupOld", "backupRepl", "place", "verify", "cleanup", "undoNew", "undoOld",
              "undoRepl", "restore", "restoreOnly"}
Phases == {"idle", "check", "report"} \cup AskPhases \cup Mutating

Init ==
  /\ RuntimeInit
  /\ wpc = "idle" /\ op = 0 /\ idx = 0
  /\ plan = [kind |-> "install", n |-> 0, old |-> {}, repl |-> {}]
  /\ staging = {} /\ backup = [f \in Folder |-> Absent] /\ moved = {} /\ placed = {}
  /\ rollbackOk = TRUE /\ preserve = FALSE
  /\ queue = <<>> /\ asked = FALSE /\ reply = "none"
  /\ captured = <<>> /\ cancelRequested = FALSE /\ outcome = "none"
  /\ before = disk /\ faults = 0 /\ acts = 0
  /\ timedOut = {} /\ gaveUp = FALSE /\ partial = FALSE
  /\ wanted = [s \in Slots |-> \A f \in DOMAIN mods : SlotOf(f) = s => mods[f].on]
  /\ exempt = {s \in Slots : \A f \in Folder : SlotOf(f) = s => Present(f)}

Fault == faults < MaxFaults /\ faults' = faults + 1
NoFault == UNCHANGED faults

-----------------------------------------------------------------------------
(* The worker starts an operation with the packages it has resolved and     *)
(* staged; bad ones are those that LoadMods will reject.                    *)
Start(p) ==
  /\ wpc = "idle" /\ op < MaxOps
  /\ op' = op + 1 /\ plan' = p /\ wpc' = "capture"
  /\ backup' = [f \in Folder |-> Absent] /\ moved' = {} /\ placed' = {}
  /\ rollbackOk' = TRUE /\ preserve' = FALSE /\ captured' = <<>>
  /\ cancelRequested' = FALSE /\ outcome' = "none"
  /\ before' = disk
  /\ UNCHANGED <<disk, runtimeVars, waitVars, faults, acts, timedOut, gaveUp, partial, wanted,
                 exempt>>

StartInstall ==
  \E n \in Slots, olds \in SUBSET Folder, bad \in SUBSET Slots :
    /\ \A f \in olds : Present(f) /\ SlotOf(f) <= n
    /\ \A s \in 1..n : Cardinality(InSlot(olds, s)) <= 1
    /\ bad \subseteq 1..n
    /\ Start([kind |-> "install", n |-> n, old |-> olds, repl |-> {}])
    /\ staging' = 1..n /\ idx' = 1
    /\ broken' = broken \cup {<<Dest(s), op + 1>> : s \in bad}

StartRemove ==
  \E f \in DOMAIN mods :
    /\ Present(f)
    /\ Start([kind |-> "remove", n |-> 0, old |-> {f}, repl |-> {}])
    /\ staging' = {} /\ idx' = SlotOf(f)
    /\ UNCHANGED broken

-----------------------------------------------------------------------------
(* RunOnMainThreadAndWait *)

TaskFor ==
  [kind   |-> CASE wpc = "verify" /\ ~Installs -> "verifyRemoval"
                [] wpc = "restoreOnly" -> "restore"
                [] OTHER -> wpc,
   op     |-> op,
   roots  |-> IF wpc = "verify" /\ Installs THEN {Dest(s) : s \in 1..plan.n} ELSE Replaced,
   states |-> IF wpc = "verify" /\ ~Installs THEN <<>> ELSE captured,
   awaited |-> TRUE]

Ask ==
  /\ wpc \in AskPhases /\ ~asked
  /\ queue' = Append(queue, TaskFor) /\ asked' = TRUE /\ reply' = "none"
  /\ UNCHANGED <<disk, runtimeVars, broken, wpc, idx, jobVars, rollbackOk, preserve, opVars,
                 outcome, faults, acts, historyVars>>

Answered(answer) ==
  /\ asked /\ asked' = FALSE /\ reply' = "none"
  /\ \/ reply = answer /\ NoFault /\ UNCHANGED <<queue, timedOut>>
     \/ /\ reply = "none" /\ answer = "no" /\ Fault
        /\ timedOut' = timedOut \cup {wpc}
        /\ queue' = [i \in DOMAIN queue |-> [queue[i] EXCEPT !.awaited = FALSE]]

Tell(t, answer) == reply' = IF t.awaited THEN answer ELSE reply

(* CaptureRuntimeState and the scan of ResolveUnmanagedReplacements, the    *)
(* two waits folded into one.  A loaded package that carries a staged mod   *)
(* is to be replaced, unless it belongs to another managed package.         *)
Capture(t) ==
  LET conflicts == IF Installs THEN {f \in DOMAIN mods : SlotOf(f) <= plan.n} \ plan.old ELSE {} IN
  \/ /\ ~t.awaited /\ UNCHANGED <<reply, captured, plan>>
  \/ /\ t.awaited /\ Tell(t, "yes")
     /\ plan' = [plan EXCEPT !.repl = conflicts]
     /\ captured' = EnabledStates(plan.old, conflicts)
  \/ /\ t.awaited /\ conflicts # {} /\ Tell(t, "no") /\ UNCHANGED <<captured, plan>>

(* The main thread runs the oldest task of g_TaskQueue. *)

RunTask ==
  /\ queue # <<>> /\ queue' = Tail(queue)
  /\ LET t == Head(queue)
         loaded == \A f \in t.roots : f \in DOMAIN mods'
         gone   == t.roots \cap DOMAIN mods' = {}
     IN \/ /\ t.kind = "capture" /\ Capture(t) /\ NoFault
           /\ UNCHANGED <<runtimeVars, gaveUp>>
        \/ /\ t.kind = "unload" /\ UnloadForMutation(t.roots) /\ Tell(t, "yes") /\ NoFault
           /\ UNCHANGED <<captured, plan, gaveUp>>
        \/ /\ t.kind = "unload" /\ UnloadForMutationFails(t.roots) /\ Tell(t, "no") /\ Fault
           /\ UNCHANGED <<captured, plan, gaveUp>>
        \/ /\ t.kind # "capture" /\ t.kind # "unload"
           /\ \/ Reload(t.states) /\ NoFault /\ UNCHANGED gaveUp
              \/ ReloadGivesUp /\ Fault /\ gaveUp' = TRUE
           /\ Tell(t, CASE t.kind = "verify"        -> IF loaded THEN "yes" ELSE "no"
                        [] t.kind = "verifyRemoval" -> IF gone THEN "yes" ELSE "no"
                        [] OTHER                    -> "yes")
           /\ UNCHANGED <<captured, plan>>
  /\ UNCHANGED <<disk, broken, wpc, idx, jobVars, rollbackOk, preserve, asked, op,
                 cancelRequested, outcome, acts, before, timedOut, partial, wanted, exempt>>

-----------------------------------------------------------------------------
(* Worker: the phases before a folder is touched. *)

GoTo(phase) == wpc' = phase /\ UNCHANGED <<outcome, preserve>>
End(result) == wpc' = "report" /\ outcome' = result /\ UNCHANGED preserve
EndPreserving_Discards ==        \* mutant: the job directory goes all the same
  wpc' = "report" /\ outcome' = "failure" /\ UNCHANGED preserve
EndPreserving == wpc' = "report" /\ outcome' = "failure" /\ preserve' = TRUE

Captured ==
  /\ wpc = "capture"
  /\ \/ Answered("yes") /\ GoTo("check")
     \/ Answered("no") /\ End("failure")
  /\ UNCHANGED <<disk, runtimeVars, broken, idx, jobVars, rollbackOk, opVars, acts,
                 before, gaveUp, partial, wanted, exempt>>

DestinationsFree == \A s \in 1..plan.n : disk[Dest(s)] = Absent \/ Dest(s) \in Replaced

(* The last check of IsCancelled and the validation at the start of         *)
(* CommitPlans; the ownership of a replaced package may have changed.       *)
Check ==
  /\ wpc = "check"
  /\ \/ cancelRequested /\ End("failure")
     \/ ~cancelRequested /\ ~DestinationsFree /\ End("failure")
     \/ ~cancelRequested /\ Replaced # {} /\ (End("failure") \/ (DestinationsFree /\ GoTo("unload")))
     \/ ~cancelRequested /\ Replaced = {} /\ DestinationsFree /\ GoTo("backupOld")
  /\ UNCHANGED <<disk, runtimeVars, broken, idx, jobVars, rollbackOk, waitVars, opVars,
                 faults, acts, historyVars>>

Unloaded ==
  /\ wpc = "unload"
  /\ \/ Answered("yes") /\ GoTo("backupOld")
     \/ Answered("no") /\ End("failure")
  /\ UNCHANGED <<disk, runtimeVars, broken, idx, jobVars, rollbackOk, opVars, acts,
                 before, gaveUp, partial, wanted, exempt>>

-----------------------------------------------------------------------------
(* Worker: one plan after the other is committed. *)

MoveToBackup_Deletes(f) ==       \* mutant: the old package is deleted, not renamed
  /\ disk' = [disk EXCEPT ![f] = Absent]
  /\ moved' = moved \cup {f}
  /\ UNCHANGED backup

MoveToBackup(f) ==
  /\ disk' = [disk EXCEPT ![f] = Absent]
  /\ backup' = [backup EXCEPT ![f] = disk[f]]
  /\ moved' = moved \cup {f}

MoveOut(left, next) ==
  \/ left = {} /\ GoTo(next) /\ NoFault /\ UNCHANGED <<disk, backup, moved>>
  \/ \E f \in left :
       \/ disk[f] # Absent /\ MoveToBackup(f) /\ GoTo(wpc) /\ NoFault
       \/ /\ GoTo(IF Installs THEN "undoNew" ELSE "restoreOnly")
          /\ IF disk[f] = Absent THEN NoFault ELSE Fault
          /\ UNCHANGED <<disk, backup, moved>>

(* An install skips an old package that is gone; a replaced one must exist. *)
BackUp ==
  /\ \/ /\ wpc = "backupOld"
        /\ MoveOut({f \in InSlot(plan.old, idx) \ moved : Installs => disk[f] # Absent},
                   IF Installs THEN "backupRepl" ELSE "verify")
     \/ /\ wpc = "backupRepl"
        /\ MoveOut(InSlot(plan.repl, idx) \ moved, "place")
  /\ UNCHANGED <<runtimeVars, broken, idx, staging, placed, rollbackOk, waitVars, opVars,
                 acts, historyVars>>

LastPlan == idx = plan.n

Place ==
  /\ wpc = "place"
  /\ \/ /\ disk[Dest(idx)] = Absent
        /\ disk' = [disk EXCEPT ![Dest(idx)] = op]
        /\ staging' = staging \ {idx} /\ placed' = placed \cup {idx}
        /\ IF LastPlan THEN GoTo("verify") /\ UNCHANGED idx
                           ELSE GoTo("backupOld") /\ idx' = idx + 1
        /\ NoFault
     \/ /\ GoTo("undoNew") /\ Fault
        /\ UNCHANGED <<disk, staging, placed, idx>>
  /\ UNCHANGED <<runtimeVars, broken, backup, moved, rollbackOk, waitVars, opVars, acts,
                 historyVars>>

Verified ==
  /\ wpc = "verify"
  /\ \/ Answered("yes") /\ GoTo("cleanup")
     \/ Answered("no") /\ GoTo(IF Installs THEN "undoNew" ELSE "undoOld")
  /\ UNCHANGED <<disk, runtimeVars, broken, idx, jobVars, rollbackOk, opVars, acts,
                 before, gaveUp, partial, wanted, exempt>>

Discard ==
  /\ wpc = "cleanup"
  /\ \/ \E f \in moved :
          /\ backup' = [backup EXCEPT ![f] = Absent] /\ moved' = moved \ {f}
          /\ GoTo("cleanup")
     \/ moved = {} /\ End("success") /\ UNCHANGED <<backup, moved>>
  /\ UNCHANGED <<disk, runtimeVars, broken, idx, staging, placed, rollbackOk, waitVars, opVars,
                 faults, acts, historyVars>>

-----------------------------------------------------------------------------
(* Worker: rollback, the last plan first. *)

UndoNew ==
  /\ wpc = "undoNew"
  /\ GoTo("undoOld")
  /\ \/ idx \notin placed /\ NoFault /\ UNCHANGED <<disk, rollbackOk, placed>>
     \/ /\ idx \in placed /\ placed' = placed \ {idx}
        /\ \/ disk' = [disk EXCEPT ![Dest(idx)] = Absent] /\ NoFault /\ UNCHANGED rollbackOk
           \/ disk' = [disk EXCEPT ![Dest(idx)] = Remains] /\ Fault /\ rollbackOk' = FALSE
  /\ UNCHANGED <<runtimeVars, broken, idx, staging, backup, moved, waitVars, opVars, acts,
                 historyVars>>

PutBack(f) ==
  /\ moved' = moved \ {f}
  /\ \/ /\ disk[f] = Absent /\ NoFault
        /\ disk' = [disk EXCEPT ![f] = backup[f]]
        /\ backup' = [backup EXCEPT ![f] = Absent]
        /\ UNCHANGED rollbackOk
     \/ /\ IF disk[f] = Absent THEN Fault ELSE NoFault
        /\ rollbackOk' = FALSE
        /\ UNCHANGED <<disk, backup>>

FirstPlan_Current == TRUE            \* mutant: only the plan that failed is rolled back
FirstPlan == idx = 1

(* ReloadAfterRollback follows only a complete rollback. *)
Rolled_NoReload ==                   \* mutant: the rollback is not followed by a reload
  IF rollbackOk THEN End("failure") /\ UNCHANGED partial
                ELSE EndPreserving /\ partial' = TRUE

Rolled ==
  IF rollbackOk THEN GoTo("restore") /\ UNCHANGED partial
                ELSE EndPreserving /\ partial' = TRUE

Undo ==
  /\ wpc \in {"undoOld", "undoRepl"}
  /\ LET left == moved \cap InSlot(IF wpc = "undoOld" THEN plan.old ELSE plan.repl, idx) IN
     \/ \E f \in left : PutBack(f) /\ GoTo(wpc) /\ UNCHANGED <<idx, partial>>
     \/ /\ left = {} /\ NoFault /\ UNCHANGED <<disk, backup, moved, rollbackOk>>
        /\ \/ wpc = "undoOld" /\ Installs /\ GoTo("undoRepl") /\ UNCHANGED <<idx, partial>>
           \/ wpc = "undoRepl" /\ ~FirstPlan /\ GoTo("undoNew") /\ idx' = idx - 1 /\ UNCHANGED partial
           \/ (wpc = "undoRepl" => FirstPlan) /\ (wpc = "undoOld" => ~Installs) /\ Rolled /\ UNCHANGED idx
  /\ UNCHANGED <<runtimeVars, broken, staging, placed, waitVars, opVars, acts,
                 before, timedOut, gaveUp, wanted, exempt>>

Restored ==
  /\ \/ wpc = "restore" /\ Answered("yes") /\ End("failure")
     \/ wpc = "restore" /\ Answered("no") /\ EndPreserving
     \/ wpc = "restoreOnly" /\ (Answered("yes") \/ Answered("no")) /\ End("failure")
  /\ UNCHANGED <<disk, runtimeVars, broken, idx, jobVars, rollbackOk, opVars, acts,
                 before, gaveUp, partial, wanted, exempt>>

(* The job directory goes unless recovery files are kept, and RunWorker     *)
(* reports.  A removed mod, when installed again, starts out enabled.       *)
Report ==
  /\ wpc = "report" /\ wpc' = "idle"
  /\ outcome' = CASE outcome = "success" -> "Done"
                  [] outcome = "failure" /\ cancelRequested /\ ~preserve -> "Cancelled"
                  [] OTHER -> "Failed"
  /\ IF preserve THEN UNCHANGED <<staging, backup, moved>>
                 ELSE staging' = {} /\ backup' = [f \in Folder |-> Absent] /\ moved' = {}
  /\ wanted' = IF outcome = "success" /\ ~Installs
                 THEN [wanted EXCEPT ![idx] = TRUE] ELSE wanted
  /\ UNCHANGED <<disk, runtimeVars, broken, idx, placed, rollbackOk, preserve, waitVars, opVars,
                 faults, acts, before, timedOut, gaveUp, partial, exempt>>

-----------------------------------------------------------------------------
(* The user, on the main thread between two frames. *)

Act == acts < MaxActs /\ acts' = acts + 1

(* The flags that a later reload restores have not been captured yet. *)
FlagsStillOpen == queue = <<>> /\ (wpc = "idle" \/ (wpc = "capture" /\ ~asked))

Toggle ==
  /\ Act
  /\ \E f \in DOMAIN mods :
       /\ SetModEnabled(f, ~mods[f].on)
       /\ wanted' = [wanted EXCEPT ![SlotOf(f)] = ~mods[f].on]
       /\ exempt' = IF FlagsStillOpen THEN exempt ELSE exempt \cup {SlotOf(f)}
  /\ UNCHANGED <<disk, broken, wpc, idx, jobVars, rollbackOk, preserve, waitVars, opVars, outcome,
                 faults, before, timedOut, gaveUp, partial>>

ReloadMods ==
  /\ Act
  /\ \/ LoadMods /\ NoFault /\ UNCHANGED gaveUp
     \/ LoadModsGivesUp /\ Fault /\ gaveUp' = TRUE
  /\ UNCHANGED <<disk, broken, wpc, idx, jobVars, rollbackOk, preserve, waitVars, opVars, outcome,
                 before, timedOut, partial, wanted, exempt>>

Cancel ==
  /\ wpc # "idle" /\ Act
  /\ cancelRequested' = TRUE
  /\ UNCHANGED <<disk, runtimeVars, broken, wpc, idx, jobVars, rollbackOk, preserve, waitVars,
                 op, plan, captured, outcome, faults, historyVars>>

-----------------------------------------------------------------------------
Worker ==
  \/ StartInstall \/ StartRemove \/ Ask \/ Captured \/ Check \/ Unloaded
  \/ BackUp \/ Place \/ Verified \/ Discard
  \/ UndoNew \/ Undo \/ Restored \/ Report

Next == Worker \/ RunTask \/ Toggle \/ ReloadMods \/ Cancel

Spec == Init /\ [][Next]_vars
-----------------------------------------------------------------------------
Task == [kind : {"capture", "unload", "verify", "verifyRemoval", "restore"}, op : 1..MaxOps,
         roots : SUBSET Folder,
         states : UNION {[S -> BOOLEAN] : S \in SUBSET Slots}, awaited : BOOLEAN]

TypeOK ==
  /\ RuntimeTypeOK
  /\ wpc \in Phases /\ op \in 0..MaxOps /\ plan \in Plan /\ idx \in 0..NumSlots
  /\ staging \subseteq Slots /\ placed \subseteq Slots /\ moved \subseteq Folder
  /\ backup \in [Folder -> Content]
  /\ rollbackOk \in BOOLEAN /\ preserve \in BOOLEAN
  /\ \A i \in DOMAIN queue : queue[i] \in Task
  /\ asked \in BOOLEAN /\ reply \in {"none", "yes", "no"}
  /\ DOMAIN captured \subseteq Slots
  /\ cancelRequested \in BOOLEAN
  /\ outcome \in {"none", "success", "failure", "Done", "Failed", "Cancelled"}
  /\ before \in [Folder -> Content]
  /\ faults \in 0..MaxFaults /\ acts \in 0..MaxActs
  /\ timedOut \subseteq AskPhases /\ gaveUp \in BOOLEAN /\ partial \in BOOLEAN
  /\ wanted \in [Slots -> BOOLEAN] /\ exempt \subseteq Slots

(* Until the reload with the new packages has been verified, every package *)
(* that was installed when the operation began is still on disk, in its    *)
(* folder or in the job directory: a process killed between any two        *)
(* renames, or a rollback that fails half-way, loses nothing (CommitPlans, *)
(* ExecuteInstalledRemove, preserveRecoveryFiles).                         *)
Committed == wpc = "cleanup" \/ outcome \in {"success", "Done"}

NothingLost ==
  ~Committed => \A f \in Folder : before[f] \in Version => before[f] \in {disk[f], backup[f]}

(* An operation is a PackageChange: what it takes away it can put back, and *)
(* it throws a package away only once the reload has been verified.         *)
Previous == {f \in Folder : before[f] \in Version}

Change == INSTANCE PackageChange WITH
  Package   <- Folder,
  open      <- wpc # "idle",
  committed <- Committed,
  inPlace   <- {f \in Previous : disk[f] = before[f]},
  kept      <- {f \in Previous : before[f] \in {disk[f], backup[f]}}

ChangeSpec == Change!Spec

(* An operation that reports Done has installed all of its packages and    *)
(* removed what they replace; one that reports Failed or Cancelled has     *)
(* changed no folder unless the rollback itself failed, and Cancelled is   *)
(* not reported then (the rollback in CommitPlans, the tail of RunWorker). *)
After(f) ==
  IF Installs /\ f \in {Dest(s) : s \in 1..plan.n} THEN op
  ELSE IF f \in Replaced THEN Absent ELSE before[f]

AllOrNothing ==
  wpc = "idle" =>
    /\ outcome = "Done" => \A f \in Folder : disk[f] = After(f)
    /\ outcome \in {"Failed", "Cancelled"} /\ rollbackOk => disk = before
    /\ outcome = "Cancelled" => rollbackOk

(* With no operation under way and the task queue drained, the mods in     *)
(* memory are those on disk, also after waits that timed out: the late     *)
(* tasks run in order and the last reload comes after the last rename.     *)
(* Excepted are an unload that outlived its wait, a LoadMods that could    *)
(* not unload, and a rollback that failed.                                 *)
Settled == wpc = "idle" /\ queue = <<>>
Calm    == "unload" \notin timedOut /\ ~gaveUp /\ ~partial

MatchesDisk ==
  /\ DOMAIN mods = {f \in Folder : Present(f)}
  /\ \A f \in DOMAIN mods : mods[f].version = disk[f]

LoadedMatchesDisk == Settled /\ Calm => MatchesDisk

(* An update, a failed one included, leaves a mod enabled or disabled as   *)
(* the user last set it, although the unload writes it as disabled to      *)
(* enabledmods.json (CaptureEnabledStatesForPackages,                      *)
(* ReloadModsWithEnabledStates).  A choice made while an operation runs is *)
(* not covered: the reload overwrites it with the captured one.            *)
UserChoiceKept ==
  Settled /\ Calm =>
    \A f \in DOMAIN mods : SlotOf(f) \notin exempt => mods[f].on = wanted[SlotOf(f)]

(* The worker waits only for a task that is still queued, the youngest, and *)
(* as it would queue it now: no answer is lost, and none is of another      *)
(* phase, however many earlier waits timed out (RunOnMainThreadAndWait).    *)
WaitHasItsTask ==
  asked /\ reply = "none" => queue # <<>> /\ queue[Len(queue)] = TaskFor

(* While an operation changes folders, no task of an earlier operation is  *)
(* left in the queue: the capture at its start waited behind all of them   *)
(* (CaptureRuntimeState, CFrameTask::RunFrame).                            *)
LateTasksAreOver == wpc \in Mutating => \A i \in DOMAIN queue : queue[i].op = op

(* "rollback restored files but mod reload failed" is what                 *)
(* ReloadAfterRollback reports, and recovery files are kept, when the mods *)
(* were not loaded again; a failed operation that keeps none has them      *)
(* loaded.                                                                 *)
RolledBackMeansReloaded ==
  Settled /\ outcome \in {"Failed", "Cancelled"} /\ ~preserve /\ timedOut = {} => MatchesDisk
=============================================================================
