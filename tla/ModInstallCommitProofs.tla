------------------------- MODULE ModInstallCommitProofs -------------------------
(***************************************************************************)
(* Proofs about ModInstallCommit for any number of mods, operations,       *)
(* faults and acts of the user.  Three invariants stand on each other:     *)
(* the types (TypeInv), the order of the tasks in g_TaskQueue (QueueInv),  *)
(* and what the folders and the job directory hold in each phase (JobInv). *)
(* From the last follow NothingLost, AllOrNothing and that an operation is *)
(* a PackageChange; with three more, that memory and disk agree in the end *)
(* (LoadedMatchesDisk); with the last three, ShapeInv, PlanInv and         *)
(* ChoiceInv, that a mod stays enabled or disabled as the user chose       *)
(* (UserChoiceKept).                                                       *)
(***************************************************************************)
EXTENDS ModInstallCommit, SequenceTheorems, TLAPS

States == UNION {[S -> BOOLEAN] : S \in SUBSET Slots}

(* Early phases, and those in which CommitPlans goes forward or back.      *)
Early   == {"capture", "check", "unload"}
Forward == {"backupOld", "backupRepl", "place"}
Back    == {"undoNew", "undoOld", "undoRepl"}

(* The types, and the range in which the loop over the plans stays.        *)
TypeInv ==
  /\ TypeOK
  /\ queue \in Seq(Task) /\ captured \in States
  /\ wpc # "idle" => op >= 1
  /\ wpc \in {"backupRepl", "place", "undoNew", "undoRepl"} => Installs
  /\ Installs /\ wpc \notin {"idle", "report"} => idx \in 1 .. plan.n
  /\ ~Installs => idx \in Slots

(* Only the youngest task is waited for, and it is of the phase the worker *)
(* is in; what was queued before the capture has run when it is answered.  *)
QueueInv ==
  /\ asked => wpc \in AskPhases
  /\ ~asked => reply = "none"
  /\ asked /\ reply # "none" => queue = <<>>
  /\ \A i \in DOMAIN queue :
       queue[i].awaited =>
         /\ asked /\ i = Len(queue)
         /\ queue[i].kind = "capture" => wpc = "capture"
  /\ wpc \in Mutating \cup {"check", "unload"} => \A i \in DOMAIN queue : queue[i].op = op

(* A version is the number of an operation that has begun, and what is in  *)
(* place from this one is told apart from everything before it.            *)
Numbered ==
  /\ \A f \in Folder : disk[f] <= op /\ backup[f] <= op
  /\ wpc # "idle" => \A f \in Folder : before[f] < op
  /\ \A s \in placed : disk[Dest(s)] = op

Planned ==
  /\ Installs => \A f \in Replaced : SlotOf(f) <= plan.n
  /\ ~Installs => plan.n = 0 /\ plan.repl = {} /\ \A f \in plan.old : SlotOf(f) = idx
  /\ ~Installs => \A f, g \in plan.old : f = g
  /\ moved \subseteq Replaced

New(f)  == \E s \in placed : f = Dest(s)
Gone(f) == disk[f] = Absent \/ New(f)

(* While no step of a rollback has failed, a package is in the job         *)
(* directory exactly when the record says that it was moved there.         *)
Consistent ==
  rollbackOk /\ wpc \notin {"idle", "cleanup", "report"} =>
    \A f \in Folder :
      IF f \in moved THEN backup[f] = before[f] /\ Gone(f)
                     ELSE backup[f] = Absent /\ (disk[f] = before[f] \/ (New(f) /\ before[f] = Absent))

(* How far the loop over the plans has come.                               *)
Progress ==
  /\ wpc \in Early => moved = {} /\ placed = {} /\ (Installs => idx = 1)
  /\ wpc \in Forward =>
       /\ placed = (IF Installs THEN 1 .. idx - 1 ELSE {})
       /\ \A f \in moved : SlotOf(f) <= idx
       /\ \A f \in Replaced : SlotOf(f) < idx => Gone(f)
       /\ wpc # "backupOld" => \A f \in InSlot(plan.old, idx) : Gone(f)
       /\ wpc = "place" => \A f \in InSlot(plan.repl, idx) : Gone(f)
  /\ wpc \in Back =>
       /\ \A f \in moved : SlotOf(f) <= idx
       /\ placed \subseteq 1 .. (IF wpc = "undoNew" THEN idx ELSE idx - 1)
       /\ ~Installs => placed = {}
       /\ wpc = "undoRepl" => moved \cap InSlot(plan.old, idx) = {}
  /\ wpc = "verify" => (IF Installs THEN idx = plan.n /\ placed \subseteq 1 .. idx ELSE placed = {})

(* What every phase but those of a rollback may rely on.                   *)
Outcomes ==
  /\ wpc \notin Back \cup {"report", "idle"} => rollbackOk /\ ~preserve
  /\ wpc \in Back => ~preserve
  /\ wpc \notin {"report", "idle"} => outcome = "none"
  /\ wpc = "report" => outcome \in {"success", "failure"}
  /\ wpc = "idle" => outcome \in {"none", "Done", "Failed", "Cancelled"}
  /\ wpc \in {"restore", "restoreOnly"} => disk = before
  /\ wpc \in {"verify", "cleanup"} \/ outcome \in {"success", "Done"} => \A f \in Folder : disk[f] = After(f)
  /\ wpc = "cleanup" \/ outcome = "success" => \A f \in Folder \ moved : backup[f] = Absent
  /\ outcome = "success" => moved = {}
  /\ outcome = "none" /\ wpc = "idle" => disk = before
  /\ outcome \in {"failure", "Failed", "Cancelled"} => (IF rollbackOk THEN disk = before ELSE preserve)
  /\ outcome = "Cancelled" => rollbackOk

JobInv == Numbered /\ Planned /\ Consistent /\ Progress /\ Outcomes /\ NothingLost

-----------------------------------------------------------------------------
(* The mods in memory and enabledmods.json.                                *)

ModsType(m)   == DOMAIN m \subseteq Folder /\ \A f \in DOMAIN m : m[f] \in Mod
ConfigType(c) == DOMAIN c \subseteq Folder \X Version /\ \A e \in DOMAIN c : c[e] \in BOOLEAN

LEMMA NoStates == <<>> \in States
<1>1. <<>> \in [{} -> BOOLEAN] /\ {} \in SUBSET Slots
  OBVIOUS
<1> QED
  BY <1>1 DEF States

LEMMA FolderFacts ==
  /\ \A f \in Folder : SlotOf(f) \in Slots /\ f = <<f[1], f[2]>>
  /\ \A s \in Slots : Dest(s) \in Folder /\ SlotOf(Dest(s)) = s
  /\ \A s, t \in Slots : Dest(s) = Dest(t) => s = t
  BY DEF Folder, SlotOf, Dest

LEMMA SlotFacts == Slots \subseteq Nat /\ \A s \in Slots : 1 <= s /\ s <= NumSlots
  BY RuntimeAssumption DEF Slots

LEMMA ContentFacts == Content \subseteq Int /\ Version \subseteq Content /\ Absent \notin Version /\ Remains \notin Version
  BY RuntimeAssumption DEF Content, Version, Absent, Remains

LEMMA ExportType ==
  ASSUME NEW m, ModsType(m) PROVE ConfigType(Export(m))
<1>1. Entries(m) \subseteq Folder \X Version
  BY DEF ModsType, Entries, Entry, Mod
<1>2. \A e \in Entries(m) : e[1] \in DOMAIN m
  BY DEF Entries, Entry
<1> QED
  BY <1>1, <1>2 DEF Export, ConfigType, ModsType, Mod

LEMMA DiscoverType ==
  ASSUME NEW c, ConfigType(c), NEW states \in States, disk \in [Folder -> Content]
  PROVE  ModsType(Discover(c, states))
<1> DEFINE found    == {f \in Folder : Present(f) /\ <<f, disk[f]>> \notin broken}
           wants(f) == IF SlotOf(f) \in DOMAIN states THEN states[SlotOf(f)]
                       ELSE <<f, disk[f]>> \in DOMAIN c => c[<<f, disk[f]>>]
           rival(f) == \E g \in found \ {f} : SlotOf(g) = SlotOf(f) /\ wants(g)
           mod(f)   == [version |-> disk[f], on |-> wants(f) /\ ~rival(f)]
<1>1. Discover(c, states) = [f \in found |-> mod(f)]
  BY DEF Discover
<1>2. \A f \in found : disk[f] \in Version
  BY DEF Present
<1>3. \A f \in found : mod(f) \in Mod
  <2>1. \A f \in found : (wants(f) /\ ~rival(f)) \in BOOLEAN
    OBVIOUS
  <2> HIDE DEF wants, rival
  <2> QED
    BY <1>2, <2>1 DEF Mod
<1> HIDE DEF mod
<1> QED
  BY <1>1, <1>3 DEF ModsType

LEMMA ExtendedType ==
  ASSUME NEW c, ConfigType(c), NEW m, ModsType(m) PROVE ConfigType(Extended(c, m))
<1>1. Entries(m) \subseteq Folder \X Version
  BY DEF ModsType, Entries, Entry, Mod
<1>2. \A e \in Entries(m) : e[1] \in DOMAIN m
  BY DEF Entries, Entry
<1> QED
  BY <1>1, <1>2 DEF Extended, ConfigType, ModsType, Mod

LEMMA NothingType == ModsType(Nothing)
  BY DEF ModsType, Nothing

LEMMA EnabledStatesType ==
  ASSUME ModsType(mods), NEW first, NEW second PROVE EnabledStates(first, second) \in States
<1> DEFINE S == {SlotOf(f) : f \in DOMAIN mods \cap (first \cup second)}
<1>1. S \in SUBSET Slots
  BY FolderFacts DEF ModsType
<1>2. EnabledStates(first, second) \in [S -> BOOLEAN]
  BY DEF EnabledStates
<1> QED
  BY <1>1, <1>2 DEF States

(* Every reload, unload and toggle leaves mods and configuration typed.    *)
RuntimeSteps ==
  \/ LoadMods \/ LoadModsGivesUp \/ ReloadGivesUp
  \/ \E states \in States : Reload(states)
  \/ \E roots \in SUBSET Folder : UnloadForMutation(roots) \/ UnloadForMutationFails(roots)
  \/ \E f \in Folder, on \in BOOLEAN : SetModEnabled(f, on)
  \/ UNCHANGED runtimeVars

LEMMA RuntimeType ==
  ASSUME disk \in [Folder -> Content], ModsType(mods), ConfigType(config), runtimeUnloaded \in BOOLEAN,
         RuntimeSteps
  PROVE  ModsType(mods') /\ ConfigType(config') /\ runtimeUnloaded' \in BOOLEAN
<1>1. ConfigType(Saved)
  BY ExportType DEF Saved
<1>2. CASE LoadMods
  BY <1>1, <1>2, DiscoverType, ExtendedType, NoStates DEF LoadMods
<1>3. CASE LoadModsGivesUp
  BY <1>1, <1>3, NothingType DEF LoadModsGivesUp
<1>4. CASE ReloadGivesUp
  BY <1>4, NothingType, ExportType DEF ReloadGivesUp
<1>5. ASSUME NEW states \in States, Reload(states)
      PROVE  ModsType(mods') /\ ConfigType(config') /\ runtimeUnloaded' \in BOOLEAN
  BY <1>1, <1>5, DiscoverType, ExportType DEF Reload
<1>6. ASSUME NEW roots \in SUBSET Folder, UnloadForMutation(roots) \/ UnloadForMutationFails(roots)
      PROVE  ModsType(mods') /\ ConfigType(config') /\ runtimeUnloaded' \in BOOLEAN
  <2>1. ModsType(Disabled(roots))
    BY DEF ModsType, Disabled, Mod
  <2>2. ConfigType(Export(Disabled(roots))) /\ EnabledStates(roots, {}) \in States
    BY <2>1, ExportType, EnabledStatesType
  <2> QED
    BY <1>6, <2>2, DiscoverType, ExportType, NothingType DEF UnloadForMutation, UnloadForMutationFails
<1>7. ASSUME NEW f \in Folder, NEW on \in BOOLEAN, SetModEnabled(f, on)
      PROVE  ModsType(mods') /\ ConfigType(config') /\ runtimeUnloaded' \in BOOLEAN
  BY <1>7 DEF SetModEnabled, ModsType, Mod, runtimeVars
<1>8. CASE UNCHANGED runtimeVars
  BY <1>8 DEF runtimeVars
<1> QED
  BY <1>2, <1>3, <1>4, <1>5, <1>6, <1>7, <1>8 DEF RuntimeSteps

-----------------------------------------------------------------------------
(* Types.                                                                  *)

LEMMA SetFacts ==
  /\ Early \subseteq Phases /\ Forward \subseteq Phases /\ Back \subseteq Phases
  /\ AskPhases \subseteq Phases /\ Mutating \subseteq Phases
  /\ {"idle", "check", "report"} \subseteq Phases
  BY DEF Early, Forward, Back, AskPhases, Mutating, Phases

LEMMA StatesDomain == ASSUME NEW s \in States PROVE DOMAIN s \subseteq Slots
  BY DEF States

LEMMA QueueElements == ASSUME NEW q \in Seq(Task) PROVE \A i \in DOMAIN q : q[i] \in Task
  OBVIOUS

LEMMA InitType == Init => TypeInv
<1> SUFFICES ASSUME Init PROVE TypeInv
  OBVIOUS
<1>1. disk \in [Folder -> Content] /\ broken \subseteq Folder \X Version
  BY RuntimeAssumption DEF Init, RuntimeInit, Content, Version, Absent
<1>2. ModsType(mods)
  BY RuntimeAssumption DEF Init, RuntimeInit, ModsType, Mod, Version
<1>3. RuntimeTypeOK
  BY <1>1, <1>2, ExportType DEF Init, RuntimeInit, RuntimeTypeOK, ModsType, ConfigType
<1>4. plan \in Plan /\ Installs
  BY RuntimeAssumption DEF Init, Plan, Installs
<1>5. wanted \in [Slots -> BOOLEAN] /\ exempt \subseteq Slots /\ backup \in [Folder -> Content]
  BY <1>2 DEF Init, ModsType, Mod, Content
<1>6. queue \in Seq(Task) /\ captured \in States
  BY NoStates DEF Init
<1>7. /\ wpc \in Phases /\ op \in 0 .. MaxOps /\ idx \in 0 .. NumSlots
      /\ faults \in 0 .. MaxFaults /\ acts \in 0 .. MaxActs
  BY RuntimeAssumption, CommitAssumption, SetFacts DEF Init
<1>8. /\ staging \subseteq Slots /\ placed \subseteq Slots /\ moved \subseteq Folder
      /\ rollbackOk \in BOOLEAN /\ preserve \in BOOLEAN
      /\ asked \in BOOLEAN /\ reply \in {"none", "yes", "no"} /\ cancelRequested \in BOOLEAN
      /\ outcome \in {"none", "success", "failure", "Done", "Failed", "Cancelled"}
      /\ before \in [Folder -> Content]
      /\ timedOut \subseteq AskPhases /\ gaveUp \in BOOLEAN /\ partial \in BOOLEAN
  BY <1>1 DEF Init
<1>9. TypeOK
  BY <1>3, <1>4, <1>5, <1>6, <1>7, <1>8, StatesDomain, QueueElements DEF TypeOK
<1> QED
  BY <1>4, <1>6, <1>9 DEF Init, TypeInv

LEMMA StartInstallType == ASSUME TypeInv, StartInstall PROVE TypeInv'
<1>1. PICK n \in Slots, olds \in SUBSET Folder, bad \in SUBSET Slots :
        /\ \A f \in olds : SlotOf(f) <= n
        /\ Start([kind |-> "install", n |-> n, old |-> olds, repl |-> {}])
        /\ staging' = 1 .. n /\ idx' = 1
        /\ broken' = broken \cup {<<Dest(s), op + 1>> : s \in bad}
  BY DEF StartInstall
<1>2. n \in Nat /\ 1 <= n /\ n <= NumSlots /\ Slots = 1 .. NumSlots /\ NumSlots \in Nat
  BY SlotFacts, RuntimeAssumption DEF Slots
<1>3. op + 1 \in Version /\ op + 1 \in 0 .. MaxOps /\ op + 1 >= 1
  BY <1>1, RuntimeAssumption DEF Start, TypeInv, TypeOK, Version
<1>4. broken' \subseteq Folder \X Version
  BY <1>1, <1>3, FolderFacts DEF TypeInv, TypeOK, RuntimeTypeOK
<1>5. plan' \in Plan /\ plan'.n = n /\ plan'.kind = "install"
  BY <1>1, <1>2 DEF Start, Plan
<1>6. backup' \in [Folder -> Content]
  BY <1>1 DEF Start, Content
<1>7. captured' \in States /\ DOMAIN captured' \subseteq Slots
  BY <1>1, NoStates, StatesDomain DEF Start
<1>8. wpc' = "capture" /\ wpc' \in Phases /\ idx' \in 1 .. n /\ idx' \in 0 .. NumSlots /\ staging' \subseteq Slots
  BY <1>1, <1>2 DEF Start, Phases, AskPhases
<1>9. TypeOK'
  BY <1>1, <1>3, <1>4, <1>5, <1>6, <1>7, <1>8 DEF Start, TypeInv, TypeOK, RuntimeTypeOK, runtimeVars, waitVars
<1> QED
  BY <1>1, <1>3, <1>5, <1>7, <1>8, <1>9 DEF Start, TypeInv, waitVars, Installs

LEMMA StartRemoveType == ASSUME TypeInv, StartRemove PROVE TypeInv'
<1>1. PICK f \in Folder :
        /\ Start([kind |-> "remove", n |-> 0, old |-> {f}, repl |-> {}])
        /\ staging' = {} /\ idx' = SlotOf(f)
        /\ UNCHANGED broken
  BY DEF StartRemove, TypeInv, TypeOK, RuntimeTypeOK
<1>2. SlotOf(f) \in Slots /\ SlotOf(f) \in 0 .. NumSlots
  BY FolderFacts, SlotFacts, RuntimeAssumption
<1>3. op + 1 \in 0 .. MaxOps /\ op + 1 >= 1
  BY <1>1, RuntimeAssumption DEF Start, TypeInv, TypeOK
<1>5. plan' \in Plan /\ plan'.n = 0 /\ plan'.kind = "remove"
  BY <1>1, RuntimeAssumption DEF Start, Plan
<1>6. backup' \in [Folder -> Content]
  BY <1>1 DEF Start, Content
<1>7. captured' \in States /\ DOMAIN captured' \subseteq Slots
  BY <1>1, NoStates, StatesDomain DEF Start
<1>8. wpc' = "capture" /\ wpc' \in Phases
  BY <1>1 DEF Start, Phases, AskPhases
<1>9. TypeOK'
  BY <1>1, <1>2, <1>3, <1>5, <1>6, <1>7, <1>8 DEF Start, TypeInv, TypeOK, RuntimeTypeOK, runtimeVars, waitVars
<1> QED
  BY <1>1, <1>2, <1>3, <1>5, <1>7, <1>8, <1>9 DEF Start, TypeInv, waitVars, Installs

LEMMA TaskForType == ASSUME TypeInv, wpc \in AskPhases PROVE TaskFor \in Task
<1>1. op \in 1 .. MaxOps /\ captured \in States /\ <<>> \in States
  BY NoStates, RuntimeAssumption DEF TypeInv, TypeOK, AskPhases
<1>2. Replaced \subseteq Folder /\ {Dest(s) : s \in 1 .. plan.n} \subseteq Folder
  <2>1. plan.n \in 0 .. NumSlots /\ Replaced \subseteq Folder
    BY DEF TypeInv, TypeOK, Plan, Replaced
  <2>2. 1 .. plan.n \subseteq Slots
    BY <2>1, RuntimeAssumption DEF Slots
  <2> QED
    BY <2>1, <2>2, FolderFacts
<1>3. TaskFor.kind \in {"capture", "unload", "verify", "verifyRemoval", "restore"}
  BY DEF TaskFor, AskPhases
<1>4. TaskFor.roots \in SUBSET Folder /\ TaskFor.states \in States
  BY <1>1, <1>2 DEF TaskFor
<1> QED
  BY <1>1, <1>3, <1>4 DEF TaskFor, Task, States

LEMMA AskType == ASSUME TypeInv, Ask PROVE TypeInv'
<1>1. TaskFor \in Task
  BY TaskForType DEF Ask
<1>2. queue' \in Seq(Task) /\ asked' = TRUE /\ reply' = "none"
  BY <1>1 DEF Ask, TypeInv
<1>3. \A i \in DOMAIN queue' : queue'[i] \in Task
  BY <1>2, QueueElements
<1>4. /\ UNCHANGED <<disk, mods, config, runtimeUnloaded, broken, wpc, idx, staging, backup, moved, placed>>
      /\ UNCHANGED <<rollbackOk, preserve, op, plan, captured, cancelRequested, outcome, faults, acts>>
      /\ UNCHANGED <<before, timedOut, gaveUp, partial, wanted, exempt>>
  BY DEF Ask, runtimeVars, jobVars, opVars, historyVars
<1>5. TypeOK'
  BY <1>2, <1>3, <1>4 DEF TypeInv, TypeOK, RuntimeTypeOK
<1> QED
  BY <1>2, <1>4, <1>5 DEF TypeInv, Installs

LEMMA UnawaitedTask ==
  ASSUME NEW t \in Task, NEW b \in BOOLEAN PROVE [t EXCEPT !.awaited = b] \in Task
<1> DEFINE T(S) == [kind : {"capture", "unload", "verify", "verifyRemoval", "restore"}, op : 1 .. MaxOps,
                    roots : SUBSET Folder, states : S, awaited : BOOLEAN]
<1>1. ASSUME NEW S, NEW u \in T(S) PROVE [u EXCEPT !.awaited = b] \in T(S)
  OBVIOUS
<1>2. Task = T(States)
  BY DEF Task, States
<1> QED
  BY <1>1, <1>2

(* An answer leaves the worker's queue typed, whichever way the wait ends. *)
LEMMA AnsweredType ==
  ASSUME TypeInv, wpc \in AskPhases, NEW answer, Answered(answer)
  PROVE  /\ queue' \in Seq(Task) /\ (\A i \in DOMAIN queue' : queue'[i] \in Task)
         /\ asked' = FALSE /\ reply' = "none" /\ faults' \in 0 .. MaxFaults /\ timedOut' \subseteq AskPhases
<1>1. asked' = FALSE /\ reply' = "none" /\ faults' \in 0 .. MaxFaults
  BY CommitAssumption DEF Answered, TypeInv, TypeOK, Fault, NoFault
<1>2. CASE UNCHANGED <<queue, timedOut>>
  BY <1>1, <1>2, QueueElements DEF TypeInv, TypeOK
<1>3. CASE /\ timedOut' = timedOut \cup {wpc}
           /\ queue' = [i \in DOMAIN queue |-> [queue[i] EXCEPT !.awaited = FALSE]]
  <2> DEFINE unawaited(i) == [queue[i] EXCEPT !.awaited = FALSE]
  <2>1. queue \in Seq(Task) /\ DOMAIN queue = 1 .. Len(queue) /\ Len(queue) \in Nat
    BY LenProperties DEF TypeInv
  <2>2. \A i \in DOMAIN queue : unawaited(i) \in Task
    BY <2>1, QueueElements, UnawaitedTask
  <2>3. queue' = [i \in 1 .. Len(queue) |-> unawaited(i)]
    BY <1>3, <2>1
  <2> HIDE DEF unawaited
  <2>4. queue' \in Seq(Task)
    BY <2>1, <2>2, <2>3
  <2> QED
    BY <1>1, <1>3, <2>4, QueueElements DEF TypeInv, TypeOK
<1> QED
  BY <1>1, <1>2, <1>3 DEF Answered

LEMMA CapturedType == ASSUME TypeInv, Captured \/ Unloaded PROVE TypeInv'
<1>1. /\ queue' \in Seq(Task) /\ (\A i \in DOMAIN queue' : queue'[i] \in Task)
      /\ asked' = FALSE /\ reply' = "none" /\ faults' \in 0 .. MaxFaults /\ timedOut' \subseteq AskPhases
  BY AnsweredType DEF Captured, Unloaded, AskPhases
<1>2. /\ wpc' \in {"check", "backupOld", "report"} /\ wpc # "idle"  /\ wpc # "report"
      /\ outcome' \in {outcome, "failure"} /\ UNCHANGED preserve
  BY DEF Captured, Unloaded, GoTo, End
<1>3. /\ UNCHANGED <<disk, mods, config, runtimeUnloaded, broken, idx, staging, backup, moved, placed>>
      /\ UNCHANGED <<rollbackOk, op, plan, captured, cancelRequested, acts>>
      /\ UNCHANGED <<before, gaveUp, partial, wanted, exempt>>
  BY DEF Captured, Unloaded, runtimeVars, jobVars, opVars
<1>4. wpc' \in Phases /\ outcome' \in {"none", "success", "failure", "Done", "Failed", "Cancelled"}
  BY <1>2, SetFacts DEF TypeInv, TypeOK, Forward
<1>5. TypeOK'
  BY <1>1, <1>2, <1>3, <1>4 DEF TypeInv, TypeOK, RuntimeTypeOK
<1> QED
  BY <1>1, <1>2, <1>3, <1>5 DEF TypeInv, Installs

LEMMA CheckType == ASSUME TypeInv, Check PROVE TypeInv'
<1>2. /\ wpc' \in {"unload", "backupOld", "report"} /\ wpc = "check"
      /\ outcome' \in {outcome, "failure"} /\ UNCHANGED preserve
  BY DEF Check, GoTo, End
<1>3. /\ UNCHANGED <<disk, mods, config, runtimeUnloaded, broken, idx, staging, backup, moved, placed>>
      /\ UNCHANGED <<rollbackOk, op, plan, captured, cancelRequested, acts, faults>>
      /\ UNCHANGED <<queue, asked, reply, before, timedOut, gaveUp, partial, wanted, exempt>>
  BY DEF Check, runtimeVars, jobVars, opVars, waitVars, historyVars
<1>4. wpc' \in Phases /\ outcome' \in {"none", "success", "failure", "Done", "Failed", "Cancelled"}
  BY <1>2, SetFacts DEF TypeInv, TypeOK, Forward, AskPhases
<1>5. TypeOK'
  BY <1>2, <1>3, <1>4 DEF TypeInv, TypeOK, RuntimeTypeOK
<1> QED
  BY <1>2, <1>3, <1>5 DEF TypeInv, Installs

LEMMA VerifiedType == ASSUME TypeInv, Verified \/ Restored PROVE TypeInv'
<1>1. /\ queue' \in Seq(Task) /\ (\A i \in DOMAIN queue' : queue'[i] \in Task)
      /\ asked' = FALSE /\ reply' = "none" /\ faults' \in 0 .. MaxFaults /\ timedOut' \subseteq AskPhases
  BY AnsweredType DEF Verified, Restored, AskPhases
<1>2. /\ wpc' \in {"cleanup", "undoOld", "report"} \/ (wpc' = "undoNew" /\ Installs)
      /\ wpc # "idle" /\ wpc # "report"
      /\ outcome' \in {outcome, "failure"} /\ preserve' \in BOOLEAN
  BY DEF Verified, Restored, GoTo, End, EndPreserving, TypeInv, TypeOK
<1>3. /\ UNCHANGED <<disk, mods, config, runtimeUnloaded, broken, idx, staging, backup, moved, placed>>
      /\ UNCHANGED <<rollbackOk, op, plan, captured, cancelRequested, acts>>
      /\ UNCHANGED <<before, gaveUp, partial, wanted, exempt>>
  BY DEF Verified, Restored, runtimeVars, jobVars, opVars
<1>4. wpc' \in Phases /\ outcome' \in {"none", "success", "failure", "Done", "Failed", "Cancelled"}
  BY <1>2, SetFacts DEF TypeInv, TypeOK, Back, Mutating
<1>5. TypeOK'
  BY <1>1, <1>2, <1>3, <1>4 DEF TypeInv, TypeOK, RuntimeTypeOK
<1> QED
  BY <1>1, <1>2, <1>3, <1>5 DEF TypeInv, Installs

(* A step that renames or removes folders, or clears the job directory.    *)
LEMMA FolderStepType ==
  ASSUME TypeInv, wpc # "idle",
         disk' \in [Folder -> Content], backup' \in [Folder -> Content], moved' \subseteq Folder,
         placed' \subseteq Slots, staging' \subseteq Slots, rollbackOk' \in BOOLEAN, preserve' \in BOOLEAN,
         faults' \in 0 .. MaxFaults, partial' \in BOOLEAN, wanted' \in [Slots -> BOOLEAN],
         outcome' \in {"none", "success", "failure", "Done", "Failed", "Cancelled"},
         wpc' \in Phases, wpc' \in {"backupRepl", "place", "undoNew", "undoRepl"} => Installs,
         idx' \in 0 .. NumSlots, Installs /\ wpc' \notin {"idle", "report"} => idx' \in 1 .. plan.n,
         ~Installs => idx' = idx,
         UNCHANGED <<runtimeVars, broken, waitVars, opVars, acts, before, timedOut, gaveUp, exempt>>
  PROVE  TypeInv'
<1>1. /\ UNCHANGED <<mods, config, runtimeUnloaded, broken, op, plan, captured, cancelRequested, acts>>
      /\ UNCHANGED <<queue, asked, reply, before, timedOut, gaveUp, exempt>>
  BY DEF runtimeVars, opVars, waitVars
<1>2. TypeOK'
  BY <1>1 DEF TypeInv, TypeOK, RuntimeTypeOK
<1> QED
  BY <1>1, <1>2 DEF TypeInv, Installs

LEMMA FaultType ==
  ASSUME faults \in 0 .. MaxFaults, Fault \/ NoFault PROVE faults' \in 0 .. MaxFaults
  BY CommitAssumption DEF Fault, NoFault

(* MoveOut renames one package at most into the job directory.             *)
LEMMA MoveOutFacts ==
  ASSUME TypeInv, NEW left \in SUBSET Folder, NEW next, MoveOut(left, next)
  PROVE  /\ Fault \/ NoFault
         /\ UNCHANGED <<outcome, preserve>>
         /\ \/ /\ UNCHANGED <<disk, backup, moved>>
               /\ left = {} /\ wpc' = next
            \/ /\ UNCHANGED <<disk, backup, moved>>
               /\ left # {} /\ wpc' = IF Installs THEN "undoNew" ELSE "restoreOnly"
            \/ \E f \in left : disk[f] # Absent /\ MoveToBackup(f) /\ wpc' = wpc
  BY DEF MoveOut, GoTo

LEMMA BackUpType == ASSUME TypeInv, BackUp PROVE TypeInv'
<1>1. PICK left \in SUBSET Folder, next \in {"backupRepl", "verify", "place"} :
        /\ MoveOut(left, next)
        /\ wpc = "backupOld" \/ wpc = "backupRepl"
        /\ next \in {"backupRepl", "place"} => Installs
  BY DEF BackUp, InSlot, TypeInv, TypeOK, Plan
<1>2. wpc \in {"backupOld", "backupRepl"} /\ UNCHANGED <<outcome, preserve>> /\ faults' \in 0 .. MaxFaults
  BY <1>1, MoveOutFacts, FaultType DEF TypeInv, TypeOK
<1>3. /\ wpc' \in {"backupOld", "backupRepl", "place", "verify", "undoNew", "restoreOnly"}
      /\ wpc' \in {"backupRepl", "place", "undoNew", "undoRepl"} => Installs
  BY <1>1, <1>2, MoveOutFacts DEF TypeInv
<1>4. disk' \in [Folder -> Content] /\ backup' \in [Folder -> Content] /\ moved' \subseteq Folder
  <2>1. ASSUME NEW f \in Folder, MoveToBackup(f)
        PROVE  disk' \in [Folder -> Content] /\ backup' \in [Folder -> Content] /\ moved' \subseteq Folder
    BY <2>1 DEF MoveToBackup, TypeInv, TypeOK, RuntimeTypeOK, Content
  <2>2. UNCHANGED <<disk, backup, moved>> \/ \E f \in left : MoveToBackup(f)
    BY <1>1, MoveOutFacts
  <2> QED
    BY <2>1, <2>2 DEF TypeInv, TypeOK, RuntimeTypeOK
<1>5. wpc' \in Phases
  BY <1>3 DEF Phases, Mutating
<1>6. UNCHANGED <<staging, placed, rollbackOk, idx, partial, wanted>>
  BY DEF BackUp, historyVars
<1>7. UNCHANGED <<runtimeVars, broken, waitVars, opVars, acts, before, timedOut, gaveUp, exempt>>
  BY DEF BackUp, historyVars
<1>8. Installs => idx \in 1 .. plan.n
  BY <1>2 DEF TypeInv
<1> QED
  BY <1>2, <1>3, <1>4, <1>5, <1>6, <1>7, <1>8, FolderStepType DEF TypeInv, TypeOK, RuntimeTypeOK

LEMMA PlaceType == ASSUME TypeInv, Place PROVE TypeInv'
<1>1. /\ wpc = "place" /\ Installs /\ idx \in 1 .. plan.n /\ plan.n \in 0 .. NumSlots
      /\ NumSlots \in Nat /\ idx \in Slots /\ Dest(idx) \in Folder
  BY FolderFacts, RuntimeAssumption DEF Place, TypeInv, TypeOK, Plan, Slots
<1>2. op \in Content /\ Content = Version \cup {Absent, Remains}
  BY RuntimeAssumption DEF TypeInv, TypeOK, Content, Version
<1>3. disk' \in [Folder -> Content] /\ staging' \subseteq Slots /\ placed' \subseteq Slots
  BY <1>1, <1>2 DEF Place, TypeInv, TypeOK, RuntimeTypeOK
<1>4. /\ wpc' \in {"verify", "backupOld", "undoNew"} /\ UNCHANGED <<outcome, preserve>>
      /\ faults' \in 0 .. MaxFaults
  BY FaultType DEF Place, GoTo, TypeInv, TypeOK
<1>5. idx' \in 1 .. plan.n /\ idx' \in 0 .. NumSlots
  BY <1>1 DEF Place, LastPlan
<1>6. wpc' \in Phases
  BY <1>4 DEF Phases, Mutating
<1>7. UNCHANGED <<runtimeVars, broken, waitVars, opVars, acts, before, timedOut, gaveUp, exempt>>
  BY DEF Place, historyVars
<1>8. UNCHANGED <<backup, moved, rollbackOk, partial, wanted>>
  BY DEF Place, historyVars
<1> QED
  BY <1>1, <1>3, <1>4, <1>5, <1>6, <1>7, <1>8, FolderStepType DEF TypeInv, TypeOK

LEMMA DiscardType == ASSUME TypeInv, Discard PROVE TypeInv'
<1>1. backup' \in [Folder -> Content] /\ moved' \subseteq Folder
  BY DEF Discard, TypeInv, TypeOK, Content
<1>2. /\ wpc = "cleanup" /\ wpc' \in {"cleanup", "report"} /\ wpc' \in Phases
      /\ outcome' \in {outcome, "success"} /\ UNCHANGED preserve
  BY SetFacts DEF Discard, GoTo, End, Mutating
<1>3. UNCHANGED <<runtimeVars, broken, waitVars, opVars, acts, before, timedOut, gaveUp, exempt>>
  BY DEF Discard, historyVars
<1>4. UNCHANGED <<disk, idx, staging, placed, rollbackOk, faults, partial, wanted>>
  BY DEF Discard, historyVars
<1> QED
  BY <1>1, <1>2, <1>3, <1>4, FolderStepType DEF TypeInv, TypeOK, RuntimeTypeOK

LEMMA UndoNewType == ASSUME TypeInv, UndoNew PROVE TypeInv'
<1>1. disk' \in [Folder -> Content] /\ placed' \subseteq Slots /\ rollbackOk' \in BOOLEAN
  BY DEF UndoNew, TypeInv, TypeOK, RuntimeTypeOK, Content
<1>2. /\ wpc = "undoNew" /\ wpc' = "undoOld" /\ UNCHANGED <<outcome, preserve>>
      /\ faults' \in 0 .. MaxFaults /\ wpc' \in Phases
  BY FaultType, SetFacts DEF UndoNew, GoTo, TypeInv, TypeOK, Back
<1>3. UNCHANGED <<runtimeVars, broken, waitVars, opVars, acts, before, timedOut, gaveUp, exempt>>
  BY DEF UndoNew, historyVars
<1>4. UNCHANGED <<idx, staging, backup, moved, partial, wanted>>
  BY DEF UndoNew, historyVars
<1> QED
  BY <1>1, <1>2, <1>3, <1>4, FolderStepType DEF TypeInv, TypeOK, RuntimeTypeOK

LEMMA UndoType == ASSUME TypeInv, Undo PROVE TypeInv'
<1>1. ASSUME NEW f \in moved, PutBack(f)
      PROVE  /\ disk' \in [Folder -> Content] /\ backup' \in [Folder -> Content] /\ moved' \subseteq Folder
             /\ rollbackOk' \in BOOLEAN /\ faults' \in 0 .. MaxFaults
  BY <1>1, FaultType DEF PutBack, TypeInv, TypeOK, RuntimeTypeOK, Content
<1>2. /\ disk' \in [Folder -> Content] /\ backup' \in [Folder -> Content] /\ moved' \subseteq Folder
      /\ rollbackOk' \in BOOLEAN /\ faults' \in 0 .. MaxFaults
  BY <1>1 DEF Undo, NoFault, TypeInv, TypeOK, RuntimeTypeOK
<1>3. wpc \in {"undoOld", "undoRepl"} /\ (wpc = "undoRepl" => Installs)
  BY DEF Undo, TypeInv
<1>4. /\ wpc' \in {"undoOld", "undoRepl", "undoNew", "restore", "report"}
      /\ wpc' \in {"undoRepl", "undoNew"} => Installs
      /\ outcome' \in {outcome, "failure"} /\ preserve' \in BOOLEAN /\ partial' \in BOOLEAN
  BY <1>3 DEF Undo, Rolled, GoTo, End, EndPreserving, TypeInv, TypeOK
<1>5. wpc' \in Phases
  BY <1>4 DEF Phases, Mutating
<1>6. /\ Installs => idx \in 1 .. plan.n /\ plan.n \in 0 .. NumSlots /\ NumSlots \in Nat
      /\ idx' = idx \/ (idx' = idx - 1 /\ idx # 1 /\ Installs)
  BY <1>3, RuntimeAssumption DEF Undo, FirstPlan, TypeInv, TypeOK, Plan
<1>7. idx' \in 0 .. NumSlots /\ (Installs => idx' \in 1 .. plan.n) /\ (~Installs => idx' = idx)
  BY <1>6 DEF TypeInv, TypeOK
<1>8. UNCHANGED <<runtimeVars, broken, waitVars, opVars, acts, before, timedOut, gaveUp, exempt>>
  BY DEF Undo
<1>9. UNCHANGED <<staging, placed, wanted>>
  BY DEF Undo
<1> QED
  BY <1>2, <1>3, <1>4, <1>5, <1>7, <1>8, <1>9, FolderStepType DEF TypeInv, TypeOK

LEMMA ReportType == ASSUME TypeInv, Report PROVE TypeInv'
<1>1. backup' \in [Folder -> Content] /\ moved' \subseteq Folder /\ staging' \subseteq Slots
  BY DEF Report, TypeInv, TypeOK, Content
<1>2. wanted' \in [Slots -> BOOLEAN]
  BY DEF Report, TypeInv, TypeOK
<1>3. wpc = "report" /\ wpc' = "idle" /\ outcome' \in {"Done", "Failed", "Cancelled"} /\ wpc' \in Phases
  BY SetFacts DEF Report
<1>4. UNCHANGED <<runtimeVars, broken, waitVars, opVars, acts, before, timedOut, gaveUp, exempt>>
  BY DEF Report
<1>5. UNCHANGED <<disk, idx, placed, rollbackOk, preserve, faults, partial>>
  BY DEF Report
<1> QED
  BY <1>1, <1>2, <1>3, <1>4, <1>5, FolderStepType DEF TypeInv, TypeOK, RuntimeTypeOK

LEMMA HeadFacts ==
  ASSUME NEW q \in Seq(Task), q # <<>>
  PROVE  Head(q) \in Task /\ Tail(q) \in Seq(Task) /\ Head(q) = q[1] /\ 1 \in DOMAIN q
<1>1. Head(q) \in Task /\ Tail(q) \in Seq(Task)
  BY HeadTailProperties
<1> QED
  BY <1>1

LEMMA TaskFields ==
  ASSUME NEW t \in Task
  PROVE  t.roots \in SUBSET Folder /\ t.states \in States /\ t.op \in 1 .. MaxOps
  BY DEF Task, States

(* A task changes mods and configuration, and the capture fills in the     *)
(* packages to be replaced; no folder is touched on the main thread.       *)
TaskEffect(t) ==
  \/ /\ t.kind = "capture" /\ Capture(t) /\ UNCHANGED runtimeVars
  \/ /\ t.kind = "unload" /\ UNCHANGED <<captured, plan>>
     /\ UnloadForMutation(t.roots) \/ UnloadForMutationFails(t.roots)
  \/ /\ t.kind \in {"verify", "verifyRemoval", "restore"} /\ UNCHANGED <<captured, plan>>
     /\ Reload(t.states) \/ ReloadGivesUp

LEMMA RunTaskFacts ==
  ASSUME TypeInv, RunTask
  PROVE  \E t \in Task :
           /\ queue # <<>> /\ t = Head(queue) /\ queue' = Tail(queue)
           /\ TaskEffect(t)
           /\ t.awaited => reply' \in {"yes", "no"}
           /\ ~t.awaited => reply' = reply
           /\ Fault \/ NoFault
           /\ gaveUp' \in BOOLEAN
           /\ UNCHANGED <<disk, broken, wpc, idx, staging, backup, moved, placed, rollbackOk>>
           /\ UNCHANGED <<preserve, asked, op, cancelRequested, outcome, acts, before>>
           /\ UNCHANGED <<timedOut, partial, wanted, exempt>>
<1> DEFINE t == Head(queue)
           loaded == \A f \in t.roots : f \in DOMAIN mods'
           gone   == t.roots \cap DOMAIN mods' = {}
<1>1. queue # <<>> /\ queue' = Tail(queue) /\ t \in Task
  BY HeadFacts DEF RunTask, TypeInv
<1>2. t.kind \in {"capture", "unload", "verify", "verifyRemoval", "restore"}
  BY <1>1 DEF Task
<1>3. \/ /\ t.kind = "capture" /\ Capture(t) /\ NoFault
         /\ UNCHANGED <<runtimeVars, gaveUp>>
      \/ /\ t.kind = "unload" /\ UnloadForMutation(t.roots) /\ Tell(t, "yes") /\ NoFault
         /\ UNCHANGED <<captured, plan, gaveUp>>
      \/ /\ t.kind = "unload" /\ UnloadForMutationFails(t.roots) /\ Tell(t, "no") /\ Fault
         /\ UNCHANGED <<captured, plan, gaveUp>>
      \/ /\ t.kind # "capture" /\ t.kind # "unload"
         /\ \/ Reload(t.states) /\ NoFault /\ UNCHANGED gaveUp
            \/ ReloadGivesUp /\ Fault /\ gaveUp' = TRUE
         /\ Tell(t, CASE t.kind = "verify"        -> IF loaded THEN "yes" ELSE "no"
                      [] t.kind = "verifyRemoval" -> IF gone THEN "yes" ELSE "no"
                      [] OTHER                    -> "yes")
         /\ UNCHANGED <<captured, plan>>
  BY DEF RunTask
<1> HIDE DEF t, loaded, gone
<1>4. TaskEffect(t)
  BY <1>2, <1>3 DEF TaskEffect
<1>5. (Fault \/ NoFault) /\ gaveUp' \in BOOLEAN
  BY <1>3 DEF TypeInv, TypeOK
<1>6. (t.awaited => reply' \in {"yes", "no"}) /\ (~t.awaited => reply' = reply)
  BY <1>2, <1>3 DEF Tell, Capture
<1>7. /\ UNCHANGED <<disk, broken, wpc, idx, staging, backup, moved, placed, rollbackOk>>
      /\ UNCHANGED <<preserve, asked, op, cancelRequested, outcome, acts, before>>
      /\ UNCHANGED <<timedOut, partial, wanted, exempt>>
  BY DEF RunTask, jobVars
<1> QED
  BY <1>1, <1>4, <1>5, <1>6, <1>7 DEF t

LEMMA CaptureFacts ==
  ASSUME TypeInv, NEW t, Capture(t)
  PROVE  /\ plan' \in Plan /\ captured' \in States
         /\ \/ UNCHANGED <<plan, captured>>
            \/ /\ t.awaited
               /\ plan' = [plan EXCEPT !.repl = IF Installs THEN {f \in DOMAIN mods : SlotOf(f) <= plan.n} \ plan.old
                                                 ELSE {}]
<1> DEFINE conflicts == IF Installs THEN {f \in DOMAIN mods : SlotOf(f) <= plan.n} \ plan.old ELSE {}
<1>1. conflicts \subseteq Folder /\ ModsType(mods)
  BY DEF TypeInv, TypeOK, RuntimeTypeOK, ModsType
<1>2. [plan EXCEPT !.repl = conflicts] \in Plan
  BY <1>1 DEF TypeInv, TypeOK, Plan
<1>3. EnabledStates(plan.old, conflicts) \in States
  BY <1>1, EnabledStatesType
<1>4. \/ UNCHANGED <<plan, captured>>
      \/ /\ t.awaited /\ plan' = [plan EXCEPT !.repl = conflicts]
         /\ captured' = EnabledStates(plan.old, conflicts)
  BY DEF Capture
<1> QED
  BY <1>2, <1>3, <1>4 DEF TypeInv, TypeOK

LEMMA RuntimeKept ==
  ASSUME TypeInv, RuntimeSteps, UNCHANGED <<disk, broken>>
  PROVE  RuntimeTypeOK'
<1>1. ModsType(mods') /\ ConfigType(config') /\ runtimeUnloaded' \in BOOLEAN
  BY RuntimeType DEF TypeInv, TypeOK, RuntimeTypeOK, ModsType, ConfigType
<1> QED
  BY <1>1 DEF TypeInv, TypeOK, RuntimeTypeOK, ModsType, ConfigType

LEMMA RunTaskType == ASSUME TypeInv, RunTask PROVE TypeInv'
<1>1. PICK t \in Task :
           /\ queue # <<>> /\ t = Head(queue) /\ queue' = Tail(queue)
           /\ TaskEffect(t)
           /\ t.awaited => reply' \in {"yes", "no"}
           /\ ~t.awaited => reply' = reply
           /\ Fault \/ NoFault
           /\ gaveUp' \in BOOLEAN
           /\ UNCHANGED <<disk, broken, wpc, idx, staging, backup, moved, placed, rollbackOk>>
           /\ UNCHANGED <<preserve, asked, op, cancelRequested, outcome, acts, before>>
           /\ UNCHANGED <<timedOut, partial, wanted, exempt>>
  BY RunTaskFacts
<1>2. RuntimeTypeOK'
  <2>1. RuntimeSteps
    BY <1>1, TaskFields DEF TaskEffect, RuntimeSteps
  <2> QED
    BY <1>1, <2>1, RuntimeKept
<1>3. /\ plan' \in Plan /\ captured' \in States /\ DOMAIN captured' \subseteq Slots
      /\ plan'.kind = plan.kind /\ plan'.n = plan.n
  <2>1. plan' \in Plan /\ captured' \in States /\ plan'.kind = plan.kind /\ plan'.n = plan.n
    BY <1>1, CaptureFacts DEF TaskEffect, TypeInv, TypeOK, Plan
  <2> QED
    BY <2>1, StatesDomain
<1>4. queue' \in Seq(Task) /\ (\A i \in DOMAIN queue' : queue'[i] \in Task)
  BY <1>1, HeadFacts, QueueElements DEF TypeInv
<1>5. faults' \in 0 .. MaxFaults /\ reply' \in {"none", "yes", "no"}
  BY <1>1, FaultType DEF TypeInv, TypeOK, Task
<1>6. TypeOK'
  BY <1>1, <1>2, <1>3, <1>4, <1>5 DEF TypeInv, TypeOK
<1> QED
  BY <1>1, <1>3, <1>4, <1>6 DEF TypeInv, Installs

LEMMA UserType == ASSUME TypeInv, Toggle \/ ReloadMods \/ Cancel PROVE TypeInv'
<1>1. acts' \in 0 .. MaxActs /\ faults' \in 0 .. MaxFaults
  BY FaultType, CommitAssumption DEF Toggle, ReloadMods, Cancel, Act, NoFault, TypeInv, TypeOK
<1>2. RuntimeTypeOK'
  <2>1. UNCHANGED <<disk, broken>>
    BY DEF Toggle, ReloadMods, Cancel
  <2>2. RuntimeSteps
    <3>1. ASSUME NEW f \in DOMAIN mods, SetModEnabled(f, ~mods[f].on) PROVE RuntimeSteps
      <4>1. f \in Folder /\ mods[f].on \in BOOLEAN
        BY DEF TypeInv, TypeOK, RuntimeTypeOK, Mod
      <4> QED
        BY <3>1, <4>1 DEF RuntimeSteps
    <3> QED
      BY <3>1 DEF Toggle, ReloadMods, Cancel, RuntimeSteps
  <2> QED
    BY <2>1, <2>2, RuntimeKept
<1>3. wanted' \in [Slots -> BOOLEAN] /\ exempt' \subseteq Slots
  <2>1. CASE Toggle
    <3>1. PICK f \in DOMAIN mods :
            /\ wanted' = [wanted EXCEPT ![SlotOf(f)] = ~mods[f].on]
            /\ exempt' \in {exempt, exempt \cup {SlotOf(f)}}
      BY <2>1 DEF Toggle
    <3>2. SlotOf(f) \in Slots /\ (~mods[f].on) \in BOOLEAN
      BY FolderFacts DEF TypeInv, TypeOK, RuntimeTypeOK, Mod
    <3> QED
      BY <3>1, <3>2 DEF TypeInv, TypeOK
  <2> QED
    BY <2>1 DEF ReloadMods, Cancel, historyVars, TypeInv, TypeOK
<1>4. cancelRequested' \in BOOLEAN /\ gaveUp' \in BOOLEAN
  BY DEF Toggle, ReloadMods, Cancel, opVars, historyVars, TypeInv, TypeOK
<1>5. /\ UNCHANGED <<wpc, idx, staging, backup, moved, placed, rollbackOk, preserve, queue, asked, reply>>
      /\ UNCHANGED <<op, plan, captured, outcome, before, timedOut, partial>>
  BY DEF Toggle, ReloadMods, Cancel, jobVars, waitVars, opVars, historyVars
<1>6. TypeOK'
  BY <1>1, <1>2, <1>3, <1>4, <1>5 DEF TypeInv, TypeOK
<1> QED
  BY <1>5, <1>6 DEF TypeInv, Installs

LEMMA TypeStep == TypeInv /\ [Next]_vars => TypeInv'
<1> SUFFICES ASSUME TypeInv, [Next]_vars PROVE TypeInv'
  OBVIOUS
<1>1. CASE Worker
  BY <1>1, StartInstallType, StartRemoveType, AskType, CapturedType, CheckType, VerifiedType, BackUpType,
     PlaceType, DiscardType, UndoNewType, UndoType, ReportType DEF Worker
<1>2. CASE UNCHANGED vars
  BY <1>2 DEF vars, TypeInv, TypeOK, RuntimeTypeOK, Installs, runtimeVars, jobVars, waitVars, opVars, historyVars
<1> QED
  BY <1>1, <1>2, RunTaskType, UserType DEF Next

(* The types of the worker's, the manager's and the queue's state.         *)
THEOREM TypeCorrect == Spec => []TypeOK
<1>1. TypeInv => TypeOK
  BY DEF TypeInv
<1>2. Spec => []TypeInv
  BY InitType, TypeStep, PTL DEF Spec
<1> QED
  BY <1>1, <1>2, PTL

-----------------------------------------------------------------------------
(* The order of the tasks in g_TaskQueue.                                  *)

Ordered == Mutating \cup {"check", "unload"}   \* no task of an earlier operation is left in them

(* A step of the worker that waits for nothing.                            *)
LEMMA QuietQueue ==
  ASSUME QueueInv, wpc \notin AskPhases \/ ~asked, UNCHANGED waitVars,
         wpc' \in Ordered => wpc \in Ordered /\ op' = op
  PROVE  QueueInv'
<1>1. ~asked /\ queue' = queue /\ asked' = asked /\ reply' = reply
  BY DEF QueueInv, waitVars
<1>2. wpc' \in Ordered => \A i \in DOMAIN queue' : queue'[i].op = op'
  BY <1>1 DEF QueueInv, Ordered
<1> QED
  BY <1>1, <1>2 DEF QueueInv, Ordered

LEMMA AnsweredQueue ==
  ASSUME TypeInv, QueueInv, wpc \in AskPhases, NEW answer \in {"yes", "no"}, Answered(answer),
         wpc' \in Ordered => wpc \in Ordered \/ answer = "yes", op' = op
  PROVE  QueueInv'
<1>1. asked /\ ~asked' /\ reply' = "none"
  BY DEF Answered
<1>2. CASE reply = answer /\ UNCHANGED queue
  BY <1>1, <1>2 DEF QueueInv, Ordered
<1>3. CASE answer = "no" /\ queue' = [i \in DOMAIN queue |-> [queue[i] EXCEPT !.awaited = FALSE]]
  <2>1. DOMAIN queue' = DOMAIN queue
    BY <1>3
  <2>2. ASSUME NEW i \in DOMAIN queue PROVE ~queue'[i].awaited /\ queue'[i].op = queue[i].op
    <3>1. queue[i] \in Task
      BY QueueElements DEF TypeInv
    <3>2. queue'[i] = [queue[i] EXCEPT !.awaited = FALSE]
      BY <1>3
    <3> QED
      BY <3>1, <3>2 DEF Task
  <2>3. wpc' \in Ordered => \A i \in DOMAIN queue : queue[i].op = op
    BY <1>3 DEF QueueInv, Ordered
  <2> QED
    BY <1>1, <2>1, <2>2, <2>3 DEF QueueInv, Ordered
<1> QED
  BY <1>2, <1>3 DEF Answered

LEMMA AskQueue == ASSUME TypeInv, QueueInv, Ask PROVE QueueInv'
<1>1. /\ TaskFor \in Task /\ TaskFor.awaited /\ TaskFor.op = op
      /\ TaskFor.kind = "capture" => wpc = "capture"
  BY TaskForType DEF Ask, TaskFor
<1>2. /\ queue \in Seq(Task) /\ queue' = Append(queue, TaskFor) /\ Len(queue') = Len(queue) + 1
      /\ DOMAIN queue = 1 .. Len(queue) /\ Len(queue) \in Nat /\ queue' \in Seq(Task)
      /\ DOMAIN queue' = 1 .. Len(queue')
  BY <1>1, AppendProperties, LenProperties DEF Ask, TypeInv
<1>3. /\ \A i \in DOMAIN queue : i \in DOMAIN queue' /\ queue'[i] = queue[i] 
      /\ queue'[Len(queue')] = TaskFor
      /\ \A i \in DOMAIN queue' : i \in DOMAIN queue \/ i = Len(queue')
  BY <1>1, <1>2
<1>4. ~asked /\ asked' /\ wpc \in AskPhases /\ wpc' = wpc /\ op' = op /\ reply' = "none"
  BY DEF Ask, opVars
<1>5. ASSUME NEW i \in DOMAIN queue', queue'[i].awaited
      PROVE  i = Len(queue') /\ (queue'[i].kind = "capture" => wpc = "capture")
  BY <1>1, <1>3, <1>4, <1>5 DEF QueueInv
<1>6. wpc \in Ordered => \A i \in DOMAIN queue' : queue'[i].op = op
  BY <1>1, <1>3 DEF QueueInv, Ordered
<1> QED
  BY <1>4, <1>5, <1>6 DEF QueueInv, Ordered

LEMMA RunTaskQueue == ASSUME TypeInv, QueueInv, RunTask PROVE QueueInv'
<1>1. PICK t \in Task :
           /\ queue # <<>> /\ t = Head(queue) /\ queue' = Tail(queue)
           /\ t.awaited => reply' \in {"yes", "no"}
           /\ ~t.awaited => reply' = reply
           /\ UNCHANGED <<wpc, asked, op>>
  BY RunTaskFacts
<1>2. /\ queue \in Seq(Task) /\ Len(queue) \in Nat /\ DOMAIN queue = 1 .. Len(queue) /\ Len(queue) > 0
      /\ queue' \in Seq(Task) /\ Len(queue') = Len(queue) - 1 /\ DOMAIN queue' = 1 .. Len(queue')
      /\ t = queue[1] /\ 1 \in DOMAIN queue
      /\ \A i \in 1 .. Len(queue') : queue'[i] = queue[i + 1]
  BY <1>1, HeadTailProperties, LenProperties, HeadFacts, EmptySeq DEF TypeInv
<1>3. \A i \in DOMAIN queue' : i + 1 \in DOMAIN queue /\ queue'[i] = queue[i + 1]
  BY <1>2
<1>4. asked => reply = "none"
  BY <1>1 DEF QueueInv
<1>5. t.awaited => queue' = <<>> /\ asked
  BY <1>2 DEF QueueInv
<1>6. ASSUME NEW i \in DOMAIN queue', queue'[i].awaited
      PROVE  asked /\ i = Len(queue') /\ (queue'[i].kind = "capture" => wpc = "capture")
  <2>1. i + 1 \in DOMAIN queue /\ queue[i + 1].awaited /\ i \in Nat
    BY <1>2, <1>3, <1>6
  <2>2. asked /\ i + 1 = Len(queue) /\ (queue[i + 1].kind = "capture" => wpc = "capture")
    BY <2>1 DEF QueueInv
  <2> QED
    BY <1>2, <1>3, <2>1, <2>2
<1>7. wpc \in Ordered => \A i \in DOMAIN queue' : queue'[i].op = op
  BY <1>3 DEF QueueInv, Ordered
<1>8. (~asked => reply' = "none") /\ (asked /\ reply' # "none" => queue' = <<>>)
  BY <1>1, <1>4, <1>5 DEF QueueInv
<1> QED
  BY <1>1, <1>6, <1>7, <1>8 DEF QueueInv, Ordered

LEMMA UserQueue == ASSUME QueueInv, Toggle \/ ReloadMods \/ Cancel PROVE QueueInv'
<1>1. UNCHANGED <<queue, asked, reply, wpc, op>>
  BY DEF Toggle, ReloadMods, Cancel, waitVars, opVars
<1> QED
  BY <1>1 DEF QueueInv

LEMMA QueueStep == ASSUME TypeInv, QueueInv, [Next]_vars PROVE QueueInv'
<1>1. CASE StartInstall \/ StartRemove
  <2>1. wpc = "idle" /\ wpc' = "capture" /\ UNCHANGED waitVars
    BY <1>1 DEF StartInstall, StartRemove, Start
  <2> QED
    BY <2>1, QuietQueue DEF AskPhases, Ordered, Mutating
<1>2. CASE Captured \/ Unloaded
  <2>1. PICK answer \in {"yes", "no"} :
          /\ Answered(answer)
          /\ answer = "no" => wpc' = "report"
    BY <1>2 DEF Captured, Unloaded, End
  <2>2. wpc \in AskPhases /\ op' = op
    BY <1>2 DEF Captured, Unloaded, AskPhases, opVars
  <2> QED
    BY <2>1, <2>2, AnsweredQueue DEF Ordered, Mutating
<1>3. CASE Verified \/ Restored
  <2>1. PICK answer \in {"yes", "no"} : Answered(answer)
    BY <1>3 DEF Verified, Restored
  <2>2. wpc \in AskPhases /\ wpc \in Ordered /\ op' = op
    BY <1>3 DEF Verified, Restored, AskPhases, opVars, Ordered, Mutating
  <2> QED
    BY <2>1, <2>2, AnsweredQueue
<1>4. CASE Check \/ BackUp \/ Place \/ Discard \/ UndoNew \/ Undo
  <2>1. wpc \in Ordered /\ wpc \notin AskPhases
    BY <1>4 DEF Check, BackUp, Place, Discard, UndoNew, Undo, Ordered, Mutating, AskPhases
  <2>2. UNCHANGED waitVars /\ op' = op
    BY <1>4 DEF Check, BackUp, Place, Discard, UndoNew, Undo, opVars
  <2> QED
    BY <2>1, <2>2, QuietQueue
<1>5. CASE Report
  <2>1. wpc = "report" /\ wpc' = "idle" /\ UNCHANGED waitVars
    BY <1>5 DEF Report
  <2> QED
    BY <2>1, QuietQueue DEF AskPhases, Ordered, Mutating
<1>6. CASE UNCHANGED vars
  BY <1>6 DEF vars, waitVars, opVars, QueueInv
<1> QED
  BY <1>1, <1>2, <1>3, <1>4, <1>5, <1>6, AskQueue, RunTaskQueue, UserQueue DEF Next, Worker

LEMMA InitQueue == Init => QueueInv
<1> SUFFICES ASSUME Init PROVE QueueInv
  OBVIOUS
<1>1. queue = <<>> /\ ~asked /\ reply = "none" /\ wpc = "idle"
  BY DEF Init
<1> QED
  BY <1>1 DEF QueueInv, Mutating

(* While an operation changes folders, no task of an earlier one is left   *)
(* in the queue, however many waits have timed out: the queue is first in, *)
(* first out, and the capture was answered (CFrameTask::RunFrame).         *)
THEOREM LateTasksOver == Spec => []LateTasksAreOver
<1>1. TypeInv /\ QueueInv /\ [Next]_vars => (TypeInv /\ QueueInv)'
  BY TypeStep, QueueStep
<1>2. QueueInv => LateTasksAreOver
  BY DEF QueueInv, LateTasksAreOver
<1> QED
  BY <1>1, <1>2, InitType, InitQueue, PTL DEF Spec

-----------------------------------------------------------------------------
(* What the folders and the job directory hold.                            *)

folderVars == <<disk, backup, moved, placed, rollbackOk, op, plan, before>>
Closed     == {"idle", "cleanup", "report"}

LEMMA FolderTypes ==
  ASSUME TypeInv
  PROVE  /\ disk \in [Folder -> Content] /\ backup \in [Folder -> Content] /\ before \in [Folder -> Content]
         /\ moved \subseteq Folder /\ placed \subseteq Slots /\ Replaced \subseteq Folder
         /\ op \in Int /\ idx \in Int /\ plan.n \in Int /\ plan.old \subseteq Folder /\ plan.repl \subseteq Folder
  BY DEF TypeInv, TypeOK, RuntimeTypeOK, Replaced, Plan

LEMMA Values ==
  /\ Absent \in Int /\ Remains \in Int /\ Absent < 0 /\ Remains < 0 /\ Absent # Remains
  /\ \A v \in Version : v \in Int /\ v >= 0
  /\ Absent \notin Version /\ Remains \notin Version
  BY RuntimeAssumption DEF Absent, Remains, Version

LEMMA SameJob ==
  ASSUME JobInv, UNCHANGED folderVars, UNCHANGED <<idx, wpc, outcome, preserve>> PROVE JobInv'
  BY DEF folderVars, JobInv, Numbered, Planned, Consistent, Progress, Outcomes, NothingLost, Committed, New, Gone,
         After, Replaced, Installs, InSlot, Early, Forward, Back

LEMMA NumberedKept ==
  ASSUME Numbered, UNCHANGED <<disk, backup, placed, op, before>>, wpc' # "idle" => wpc # "idle"
  PROVE  Numbered'
  BY DEF Numbered

LEMMA PlannedKept ==
  ASSUME Planned, UNCHANGED plan, moved' \subseteq moved, idx' = idx \/ Installs
  PROVE  Planned'
  BY DEF Planned, Replaced, Installs

LEMMA LostKept ==
  ASSUME NothingLost, UNCHANGED <<disk, backup, before>>, Committed => Committed'
  PROVE  NothingLost'
  BY DEF NothingLost

LEMMA ConsistentKept ==
  ASSUME Consistent, UNCHANGED <<disk, backup, before, moved, placed, rollbackOk>>, wpc \notin Closed
  PROVE  Consistent'
  BY DEF Consistent, Closed, New, Gone

LEMMA Untouched ==
  ASSUME TypeInv, Consistent, wpc \notin Closed, rollbackOk, moved = {}, placed = {}
  PROVE  disk = before
<1>1. \A f \in Folder : disk[f] = before[f]
  BY DEF Consistent, Closed, New
<1> QED
  BY <1>1, FolderTypes

(* Where Consistent holds, nothing that was there can have been lost.      *)
LEMMA ConsistentKeeps ==
  ASSUME Consistent, rollbackOk, wpc \notin Closed PROVE NothingLost
  BY Values DEF Consistent, Closed, NothingLost

LEMMA OpenPhases ==
  /\ (Early \cup Forward \cup Back \cup {"verify", "restore", "restoreOnly"}) \cap Closed = {}
  /\ Early \cap (Forward \cup Back) = {} /\ Forward \cap Back = {}
  BY DEF Early, Forward, Back, Closed

LEMMA JobInit == ASSUME Init PROVE JobInv
<1>1. /\ wpc = "idle" /\ op = 0 /\ disk = before /\ moved = {} /\ placed = {} /\ outcome = "none"
      /\ disk \in [Folder -> {0, Absent}] /\ backup = [f \in Folder |-> Absent]
      /\ plan.old = {} /\ plan.repl = {} /\ Installs
  BY DEF Init, RuntimeInit, Installs
<1>2. Numbered
  BY <1>1, Values DEF Numbered
<1>3. Planned /\ Consistent /\ Progress
  BY <1>1 DEF Planned, Replaced, Consistent, Progress, Early, Forward, Back
<1>4. Outcomes /\ NothingLost
  BY <1>1 DEF Outcomes, Back, NothingLost
<1> QED
  BY <1>2, <1>3, <1>4 DEF JobInv

LEMMA StartJob ==
  ASSUME TypeInv, JobInv, NEW p, Start(p), idx' = 1 \/ p.kind # "install",
         p.kind = "install" => \A f \in p.old \cup p.repl : SlotOf(f) <= p.n,
         p.kind # "install" => p.n = 0 /\ p.repl = {} /\ \E f \in Folder : p.old = {f} /\ SlotOf(f) = idx'
  PROVE  JobInv'
<1>1. /\ wpc = "idle" /\ wpc' = "capture" /\ op' = op + 1 /\ plan' = p /\ disk' = disk /\ before' = disk
      /\ backup' = [f \in Folder |-> Absent] /\ moved' = {} /\ placed' = {} /\ rollbackOk' = TRUE
      /\ preserve' = FALSE /\ outcome' = "none"
  BY DEF Start
<1>2. \A f \in Folder : disk[f] \in Int /\ disk[f] <= op
  BY FolderTypes, ContentFacts DEF JobInv, Numbered
<1>3. Numbered'
  <2>1. op \in Int /\ op >= 0
    BY RuntimeAssumption DEF TypeInv, TypeOK
  <2> QED
    BY <1>1, <1>2, <2>1, Values DEF Numbered
<1>4. Planned'
  BY <1>1 DEF Planned, Replaced, Installs
<1>5. Consistent'
  BY <1>1 DEF Consistent
<1>6. Progress'
  BY <1>1 DEF Progress, Early, Forward, Back, Installs
<1>7. Outcomes' /\ NothingLost'
  BY <1>1 DEF Outcomes, Back, NothingLost
<1> QED
  BY <1>3, <1>4, <1>5, <1>6, <1>7 DEF JobInv

LEMMA StartsJob == ASSUME TypeInv, JobInv, StartInstall \/ StartRemove PROVE JobInv'
<1>1. CASE StartInstall
  <2>1. PICK n \in Slots, olds \in SUBSET Folder :
          /\ \A f \in olds : SlotOf(f) <= n
          /\ Start([kind |-> "install", n |-> n, old |-> olds, repl |-> {}])
          /\ idx' = 1
    BY <1>1 DEF StartInstall
  <2> QED
    BY <2>1, StartJob
<1>2. CASE StartRemove
  <2>1. PICK f \in Folder :
          /\ Start([kind |-> "remove", n |-> 0, old |-> {f}, repl |-> {}])
          /\ idx' = SlotOf(f)
    BY <1>2 DEF StartRemove, TypeInv, TypeOK, RuntimeTypeOK
  <2> QED
    BY <2>1, StartJob
<1> QED
  BY <1>1, <1>2

(* Before a folder is touched: the worker goes on or reports a failure.    *)
LEMMA EarlyJob == ASSUME TypeInv, JobInv, Captured \/ Check \/ Unloaded PROVE JobInv'
<1>1. /\ UNCHANGED folderVars /\ UNCHANGED <<idx, preserve>>
      /\ UNCHANGED <<disk, backup, moved, placed, rollbackOk, op, plan, before>>
  BY DEF Captured, Check, Unloaded, folderVars, jobVars, opVars, historyVars, GoTo, End
<1>2. /\ wpc \in Early
      /\ \/ wpc' \in Early \cup {"backupOld"} /\ outcome' = outcome
         \/ wpc' = "report" /\ outcome' = "failure"
  BY DEF Captured, Check, Unloaded, GoTo, End, Early
<1>3. /\ rollbackOk /\ ~preserve /\ outcome = "none" /\ moved = {} /\ placed = {} /\ (Installs => idx = 1)
      /\ wpc \notin Closed /\ disk = before
  <2>1. /\ rollbackOk /\ ~preserve /\ outcome = "none" /\ moved = {} /\ placed = {} /\ (Installs => idx = 1)
        /\ wpc \notin Closed
    BY <1>2, OpenPhases DEF JobInv, Outcomes, Progress, Closed, Early, Back
  <2> QED
    BY <2>1, Untouched DEF JobInv
<1>4. Numbered' /\ Planned' /\ Consistent'
  BY <1>1, <1>2, <1>3, NumberedKept, PlannedKept, ConsistentKept DEF JobInv, Closed
<1>5. NothingLost'
  BY <1>1, <1>2, <1>3, LostKept DEF JobInv, Committed, Closed
<1>6. Progress'
  <2>1. ASSUME wpc' = "backupOld" PROVE Progress'
    <3>1. \A f \in Replaced : ~(SlotOf(f) < idx)
      <4>1. ASSUME NEW f \in Replaced PROVE SlotOf(f) \in Int /\ SlotOf(f) >= 1 /\ (~Installs => SlotOf(f) = idx)
        BY FolderTypes, FolderFacts, SlotFacts DEF JobInv, Planned, Replaced
      <4> QED
        BY <1>3, <4>1
    <3>2. placed = (IF Installs THEN 1 .. idx - 1 ELSE {})
      BY <1>3
    <3>3. Replaced' = Replaced /\ Installs' = Installs /\ idx' = idx /\ placed' = placed /\ moved' = {}
      BY <1>1, <1>3 DEF Replaced, Installs
    <3> QED
      BY <2>1, <3>1, <3>2, <3>3 DEF Progress, Early, Forward, Back
  <2>2. ASSUME wpc' \in Early PROVE Progress'
    BY <1>1, <1>3, <2>2 DEF Progress, Early, Forward, Back, Installs
  <2>3. ASSUME wpc' = "report" PROVE Progress'
    BY <2>3 DEF Progress, Early, Forward, Back
  <2> QED
    BY <1>2, <2>1, <2>2, <2>3
<1>7. Outcomes'
  BY <1>1, <1>2, <1>3 DEF Outcomes, Early, Back
<1> QED
  BY <1>4, <1>5, <1>6, <1>7 DEF JobInv

(* While CommitPlans goes forward, what is placed comes from earlier plans. *)
LEMMA ForwardFacts ==
  ASSUME TypeInv, JobInv, wpc \in Forward
  PROVE  /\ rollbackOk /\ ~preserve /\ outcome = "none" /\ wpc \notin Closed
         /\ \A s \in placed : s < idx /\ s \in Slots
         /\ \A f \in Folder : SlotOf(f) \in Int /\ (SlotOf(f) = idx => ~New(f))
         /\ ~Installs => placed = {}
<1>1. rollbackOk /\ ~preserve /\ outcome = "none" /\ wpc \notin Closed
  BY OpenPhases DEF JobInv, Outcomes, Forward, Back, Closed
<1>2. /\ \A s \in placed : s < idx /\ s \in Slots
      /\ ~Installs => placed = {}
  BY FolderTypes DEF JobInv, Progress
<1>3. \A f \in Folder : SlotOf(f) \in Int /\ (SlotOf(f) = idx => ~New(f))
  BY <1>2, FolderFacts, FolderTypes, SlotFacts DEF New
<1> QED
  BY <1>1, <1>2, <1>3

LEMMA MoveToBackupJob ==
  ASSUME TypeInv, JobInv, wpc \in {"backupOld", "backupRepl"}, NEW f \in Replaced, f \notin moved,
         SlotOf(f) = idx, disk[f] # Absent, MoveToBackup(f), wpc' = wpc,
         UNCHANGED <<placed, rollbackOk, op, plan, before, idx, outcome, preserve>>
  PROVE  JobInv'
<1>1. /\ f \in Folder /\ wpc \in Forward /\ wpc # "place" /\ wpc \notin Early /\ wpc \notin Back
      /\ rollbackOk /\ ~preserve /\ outcome = "none" /\ wpc \notin Closed /\ ~New(f)
      /\ \A s \in placed : Dest(s) # f /\ Dest(s) \in Folder
  <2>1. f \in Folder /\ wpc \in Forward
    BY FolderTypes DEF Forward
  <2> QED
    BY <2>1, ForwardFacts, FolderFacts DEF Forward, Early, Back, New
<1>2. /\ disk'[f] = Absent /\ backup'[f] = disk[f] /\ moved' = moved \cup {f}
      /\ \A g \in Folder : g # f => disk'[g] = disk[g] /\ backup'[g] = backup[g]
  BY <1>1, FolderTypes DEF MoveToBackup
<1>3. backup[f] = Absent /\ disk[f] = before[f]
  BY <1>1 DEF JobInv, Consistent, Closed
<1>4. Replaced' = Replaced /\ Installs' = Installs /\ \A g \in Folder : New(g)' = New(g) /\ (Gone(g) => Gone(g)')
  BY <1>1, <1>2 DEF Replaced, Installs, New, Gone
<1>5. Numbered'
  <2>1. Absent <= op
    BY <1>3, FolderTypes DEF JobInv, Numbered
  <2> QED
    BY <1>1, <1>2, <2>1 DEF JobInv, Numbered, Closed
<1>6. Planned'
  BY <1>2, <1>4 DEF JobInv, Planned
<1>7. Consistent'
  <2>1. ASSUME NEW g \in Folder
        PROVE  IF g \in moved' THEN backup'[g] = before'[g] /\ Gone(g)'
               ELSE backup'[g] = Absent /\ (disk'[g] = before'[g] \/ (New(g)' /\ before'[g] = Absent))
    <3>1. CASE g = f
      BY <1>2, <1>3, <3>1 DEF Gone
    <3>2. CASE g # f
      BY <1>1, <1>2, <1>4, <3>2 DEF JobInv, Consistent, Closed
    <3> QED
      BY <3>1, <3>2
  <2> QED
    BY <2>1 DEF Consistent
<1>8. Progress'
  <2>1. /\ placed = (IF Installs THEN 1 .. idx - 1 ELSE {})
        /\ \A g \in moved : SlotOf(g) <= idx
        /\ \A g \in Replaced : SlotOf(g) < idx => Gone(g)
        /\ wpc # "backupOld" => \A g \in InSlot(plan.old, idx) : Gone(g)
    BY <1>1 DEF JobInv, Progress
  <2>2. \A g \in moved' : SlotOf(g) <= idx
    BY <1>2, <2>1, FolderTypes
  <2>3. /\ \A g \in Replaced : SlotOf(g) < idx => Gone(g)'
        /\ wpc # "backupOld" => \A g \in InSlot(plan.old, idx) : Gone(g)'
    BY <1>4, <2>1, FolderTypes DEF InSlot
  <2>4. InSlot(plan.old, idx)' = InSlot(plan.old, idx)
    BY DEF InSlot
  <2> QED
    BY <1>1, <1>4, <2>1, <2>2, <2>3, <2>4 DEF Progress, Forward, Early, Back
<1>9. Outcomes'
  BY <1>1 DEF Outcomes, Forward, Back
<1>10. NothingLost'
  <2>1. wpc' \notin Closed /\ rollbackOk'
    BY <1>1
  <2>2. Consistent' /\ rollbackOk' /\ wpc' \notin Closed => NothingLost'
    BY Values DEF Consistent, Closed, NothingLost
  <2> QED
    BY <1>7, <2>1, <2>2
<1> QED
  BY <1>5, <1>6, <1>7, <1>8, <1>9, <1>10 DEF JobInv

(* CommitPlans gives up or goes on to the next phase of the current plan.  *)
LEMMA ForwardPhaseJob ==
  ASSUME TypeInv, JobInv, wpc \in Forward, UNCHANGED folderVars, UNCHANGED <<idx, outcome, preserve>>,
         \/ wpc' = "undoNew" /\ Installs
         \/ wpc' = "restoreOnly" /\ disk = before
         \/ wpc' = "backupRepl" /\ wpc = "backupOld" /\ \A f \in InSlot(plan.old, idx) : Gone(f)
         \/ wpc' = "place" /\ wpc = "backupRepl" /\ \A f \in InSlot(plan.repl, idx) : Gone(f)
         \/ wpc' = "verify" /\ ~Installs /\ \A f \in Folder : disk[f] = After(f)
  PROVE  JobInv'
<1>1. UNCHANGED <<disk, backup, moved, placed, rollbackOk, op, plan, before, idx, outcome, preserve>>
  BY DEF folderVars
<1>2. rollbackOk /\ ~preserve /\ outcome = "none" /\ wpc \notin Closed /\ (~Installs => placed = {})
  BY ForwardFacts
<1>3. Numbered' /\ Planned' /\ Consistent'
  BY <1>1, <1>2, NumberedKept, PlannedKept, ConsistentKept DEF JobInv, Closed
<1>4. NothingLost'
  BY <1>1, <1>2, LostKept DEF JobInv, Committed, Closed
<1>5. /\ Replaced' = Replaced /\ Installs' = Installs
      /\ InSlot(plan.old, idx)' = InSlot(plan.old, idx) /\ InSlot(plan.repl, idx)' = InSlot(plan.repl, idx)
      /\ \A f \in Folder : Gone(f)' = Gone(f) /\ After(f)' = After(f)
  BY <1>1 DEF Replaced, Installs, InSlot, Gone, New, After
<1>6. /\ placed = (IF Installs THEN 1 .. idx - 1 ELSE {})
      /\ \A f \in moved : SlotOf(f) <= idx
      /\ \A f \in Replaced : SlotOf(f) < idx => Gone(f)
      /\ wpc # "backupOld" => \A f \in InSlot(plan.old, idx) : Gone(f)
  BY DEF JobInv, Progress
<1>7. Progress'
  <2>1. CASE wpc' \in Forward
    <3>1. /\ wpc' # "backupOld"
          /\ \A f \in InSlot(plan.old, idx) : Gone(f)
          /\ wpc' = "place" => \A f \in InSlot(plan.repl, idx) : Gone(f)
      BY <1>6, <2>1 DEF Forward
    <3>2. /\ \A f \in Replaced : SlotOf(f) < idx => Gone(f)'
          /\ \A f \in InSlot(plan.old, idx) : Gone(f)'
          /\ wpc' = "place" => \A f \in InSlot(plan.repl, idx) : Gone(f)'
      BY <1>5, <1>6, <3>1, FolderTypes DEF InSlot
    <3> QED
      BY <1>1, <1>5, <1>6, <2>1, <3>2 DEF Progress, Early, Forward, Back
  <2>2. CASE wpc' = "undoNew"
    <3>1. placed \subseteq 1 .. idx /\ Installs
      BY <1>6, <2>2, FolderTypes
    <3> QED
      BY <1>1, <1>5, <1>6, <2>2, <3>1 DEF Progress, Early, Forward, Back
  <2>3. CASE wpc' = "verify" \/ wpc' = "restoreOnly"
    BY <1>1, <1>2, <1>5, <2>3 DEF Progress, Early, Forward, Back
  <2> QED
    BY <2>1, <2>2, <2>3 DEF Forward
<1>8. Outcomes'
  BY <1>1, <1>2, <1>5 DEF Outcomes, Back
<1> QED
  BY <1>3, <1>4, <1>7, <1>8 DEF JobInv

LEMMA BackUpJob == ASSUME TypeInv, JobInv, BackUp PROVE JobInv'
<1> DEFINE leftOld  == {f \in InSlot(plan.old, idx) \ moved : Installs => disk[f] # Absent}
           leftRepl == InSlot(plan.repl, idx) \ moved
<1>1. PICK left, next :
        /\ MoveOut(left, next)
        /\ \/ wpc = "backupOld" /\ left = leftOld /\ next = IF Installs THEN "backupRepl" ELSE "verify"
           \/ wpc = "backupRepl" /\ left = leftRepl /\ next = "place"
  BY DEF BackUp
<1>2. left \subseteq Replaced \ moved /\ left \subseteq Folder /\ \A f \in left : SlotOf(f) = idx
  BY <1>1, FolderTypes DEF InSlot, Replaced
<1>3. UNCHANGED <<placed, rollbackOk, op, plan, before, idx, outcome, preserve>>
  BY <1>1, <1>2, MoveOutFacts DEF BackUp, opVars, historyVars
<1>4. wpc \in Forward /\ rollbackOk /\ wpc \notin Closed /\ (~Installs => placed = {})
  BY <1>1, ForwardFacts DEF Forward
<1>5. CASE left = {} /\ UNCHANGED <<disk, backup, moved>> /\ wpc' = next
  <2>1. ASSUME wpc = "backupOld" PROVE \A f \in InSlot(plan.old, idx) : f \in moved \/ (Installs /\ disk[f] = Absent)
    BY <1>1, <1>5, <2>1
  <2>2. ASSUME wpc = "backupOld", Installs PROVE \A f \in InSlot(plan.old, idx) : Gone(f)
    BY <1>4, <2>1, <2>2, FolderTypes DEF JobInv, Consistent, Closed, InSlot, Gone
  <2>3. ASSUME wpc = "backupOld", ~Installs PROVE \A f \in Folder : disk[f] = After(f)
    <3>1. Replaced = moved
      BY <2>1, <2>3, FolderTypes DEF JobInv, Planned, Replaced, InSlot
    <3> QED
      BY <1>4, <2>3, <3>1 DEF JobInv, Consistent, Closed, Gone, New, After
  <2>4. ASSUME wpc = "backupRepl" PROVE \A f \in InSlot(plan.repl, idx) : Gone(f)
    <3>1. \A f \in InSlot(plan.repl, idx) : f \in moved
      BY <1>1, <1>5, <2>4
    <3> QED
      BY <1>4, <3>1, FolderTypes DEF JobInv, Consistent, Closed, InSlot
  <2>5. UNCHANGED folderVars
    BY <1>3, <1>5 DEF folderVars
  <2> QED
    BY <1>1, <1>3, <1>4, <1>5, <2>2, <2>3, <2>4, <2>5, ForwardPhaseJob
<1>6. CASE UNCHANGED <<disk, backup, moved>> /\ wpc' = IF Installs THEN "undoNew" ELSE "restoreOnly"
  <2>1. UNCHANGED folderVars
    BY <1>3, <1>6 DEF folderVars
  <2>2. ASSUME ~Installs PROVE disk = before
    <3>1. left # {} \/ (left = {} /\ wpc' = next)
      BY <1>1, <1>2, MoveOutFacts
    <3>2. wpc = "backupOld" /\ left # {}
      BY <1>1, <1>6, <2>2, <3>1 DEF TypeInv
    <3>3. moved = {}
      BY <1>2, <2>2, <3>2 DEF JobInv, Planned, Replaced
    <3> QED
      BY <1>4, <2>2, <3>3, Untouched DEF JobInv
  <2> QED
    BY <1>3, <1>4, <1>6, <2>1, <2>2, ForwardPhaseJob
<1>7. CASE \E f \in left : disk[f] # Absent /\ MoveToBackup(f) /\ wpc' = wpc
  BY <1>1, <1>2, <1>3, <1>7, MoveToBackupJob
<1> QED
  BY <1>1, <1>2, <1>5, <1>6, <1>7, MoveOutFacts

LEMMA PlaceFailsJob ==
  ASSUME TypeInv, JobInv, Place, wpc' = "undoNew", UNCHANGED <<disk, staging, placed, idx>> PROVE JobInv'
<1>1. UNCHANGED folderVars /\ UNCHANGED <<outcome, preserve>> /\ wpc = "place" /\ Installs
  BY DEF Place, GoTo, folderVars, opVars, historyVars, TypeInv
<1> QED
  BY <1>1, ForwardPhaseJob DEF Forward

LEMMA PlaceJob == ASSUME TypeInv, JobInv, Place PROVE JobInv'
<1>0. PICK d : d = Dest(idx)    \* a folder, not an expression that the step changes
  OBVIOUS
<1>1. /\ wpc = "place" /\ wpc \in Forward /\ wpc \notin Back /\ Installs /\ idx \in 1 .. plan.n /\ idx \in Slots
      /\ d \in Folder /\ SlotOf(d) = idx /\ plan.n \in Int /\ \A s \in Slots : Dest(s) = d => s = idx
  <2>1. wpc = "place" /\ Installs /\ idx \in 1 .. plan.n /\ plan.n \in 0 .. NumSlots /\ NumSlots \in Nat
    BY RuntimeAssumption DEF Place, TypeInv, TypeOK, Plan
  <2>2. idx \in Slots
    BY <2>1 DEF Slots
  <2> QED
    BY <1>0, <2>1, <2>2, FolderFacts DEF Forward, Back
<1>2. CASE wpc' = "undoNew"
  <2>1. UNCHANGED <<disk, staging, placed, idx>>
    BY <1>2 DEF Place, GoTo
  <2> QED
    BY <1>2, <2>1, PlaceFailsJob
<1>3. CASE wpc' # "undoNew"
  <2>1. /\ disk[d] = Absent /\ disk' = [disk EXCEPT ![d] = op] /\ placed' = placed \cup {idx}
        /\ \/ idx = plan.n /\ wpc' = "verify" /\ idx' = idx
           \/ idx # plan.n /\ wpc' = "backupOld" /\ idx' = idx + 1
        /\ UNCHANGED <<backup, moved, rollbackOk, op, plan, before, outcome, preserve>>
    BY <1>0, <1>3 DEF Place, GoTo, LastPlan, opVars, historyVars
  <2>2. /\ rollbackOk /\ ~preserve /\ outcome = "none" /\ wpc \notin Closed
        /\ \A s \in placed : s < idx /\ s \in Slots
        /\ op \in Int /\ idx \in Int /\ wpc' \notin Closed
    BY <1>1, <2>1, ForwardFacts, FolderTypes DEF Closed
  <2>3. /\ disk'[d] = op /\ \A f \in Folder : f # d => disk'[f] = disk[f]
    BY <1>1, <2>1, FolderTypes
  <2>4. /\ Replaced' = Replaced /\ Installs' = Installs /\ New(d)'
        /\ \A f \in Folder : f # d => New(f)' = New(f)
    BY <1>0, <1>1, <2>1 DEF Replaced, Installs, New
  <2>5. \A f \in Folder : Gone(f) => Gone(f)'
    BY <2>3, <2>4 DEF Gone
  <2>6. Numbered'
    <3>1. \A s \in placed : Dest(s) \in Folder /\ disk[Dest(s)] = op
      BY <2>2, FolderFacts DEF JobInv, Numbered
    <3>2. \A s \in placed' : disk'[Dest(s)] = op
      BY <1>0, <2>1, <2>3, <3>1
    <3>3. \A f \in Folder : disk'[f] <= op
      BY <2>2, <2>3 DEF JobInv, Numbered
    <3> QED
      BY <1>1, <2>1, <3>2, <3>3 DEF JobInv, Numbered
  <2>7. Planned'
    BY <1>1, <2>1, PlannedKept DEF JobInv
  <2>8. Consistent'
    <3>1. ASSUME NEW f \in Folder
          PROVE  IF f \in moved THEN backup[f] = before[f] /\ Gone(f)'
                 ELSE backup[f] = Absent /\ (disk'[f] = before[f] \/ (New(f)' /\ before[f] = Absent))
      <4>1. IF f \in moved THEN backup[f] = before[f] /\ Gone(f)
            ELSE backup[f] = Absent /\ (disk[f] = before[f] \/ (New(f) /\ before[f] = Absent))
        BY <2>2 DEF JobInv, Consistent, Closed
      <4> QED
        BY <2>1, <2>3, <2>4, <2>5, <4>1
    <3> QED
      BY <2>1, <3>1 DEF Consistent
  <2>9. NothingLost'
    BY <2>1, <2>2, <2>8, Values DEF Consistent, Closed, NothingLost
  <2>10. /\ placed = 1 .. idx - 1 /\ (\A f \in moved : SlotOf(f) <= idx)
         /\ \A f \in Replaced : SlotOf(f) <= idx => Gone(f)'
    <3>1. /\ placed = 1 .. idx - 1 /\ (\A f \in moved : SlotOf(f) <= idx)
          /\ \A f \in Replaced : SlotOf(f) < idx => Gone(f)
          /\ \A f \in InSlot(plan.old, idx) : Gone(f)
          /\ \A f \in InSlot(plan.repl, idx) : Gone(f)
      BY <1>1 DEF JobInv, Progress
    <3>2. \A f \in Replaced : f \in Folder /\ SlotOf(f) \in Int
      BY FolderTypes, FolderFacts, SlotFacts
    <3>3. \A f \in Replaced : SlotOf(f) <= idx => Gone(f)
      BY <2>2, <3>1, <3>2 DEF InSlot, Replaced
    <3> QED
      BY <2>5, <3>1, <3>2, <3>3
  <2>11. placed' = 1 .. idx
    BY <2>1, <2>10, <1>1
  <2>12. \A f \in Folder : SlotOf(f) \in Int /\ SlotOf(f) >= 1
    BY FolderFacts, SlotFacts
  <2>13. CASE idx # plan.n
    <3>1. wpc' = "backupOld" /\ idx' = idx + 1
      BY <2>1, <2>13
    <3>2. placed' = 1 .. idx' - 1
      BY <2>2, <2>11, <3>1
    <3>3. \A f \in moved : SlotOf(f) <= idx'
      BY <2>2, <2>10, <2>12, <3>1, FolderTypes
    <3>4. \A f \in Replaced : SlotOf(f) < idx' => Gone(f)'
      BY <2>2, <2>10, <2>12, <3>1, FolderTypes
    <3>5. Progress'
      BY <1>1, <2>1, <2>4, <3>1, <3>2, <3>3, <3>4 DEF Progress, Early, Forward, Back
    <3>6. Outcomes'
      BY <2>1, <2>2, <3>1 DEF Outcomes, Back
    <3> QED
      BY <2>6, <2>7, <2>8, <2>9, <3>5, <3>6 DEF JobInv
  <2>14. CASE idx = plan.n
    <3>1. wpc' = "verify" /\ idx' = idx /\ plan' = plan
      BY <2>1, <2>14
    <3>2. Progress'
      BY <1>1, <2>4, <2>11, <2>14, <3>1 DEF Progress, Early, Forward, Back
    <3>3. ASSUME NEW f \in Folder PROVE disk'[f] = After(f)'
      <4>1. After(f)' = After(f)
        BY <2>1, <2>4 DEF After
      <4>2. CASE f \in {Dest(s) : s \in 1 .. plan.n}
        <5>1. disk'[f] = op
          BY <2>1, <2>6, <2>11, <2>14, <4>2 DEF Numbered
        <5> QED
          BY <1>1, <4>1, <4>2, <5>1 DEF After
      <4>3. CASE f \notin {Dest(s) : s \in 1 .. plan.n} /\ f \in Replaced
        <5>1. Gone(f)' /\ ~New(f)'
          BY <1>1, <2>10, <2>11, <2>12, <2>14, <4>3 DEF JobInv, Planned, New
        <5> QED
          BY <4>1, <4>3, <5>1 DEF Gone, After
      <4>4. CASE f \notin {Dest(s) : s \in 1 .. plan.n} /\ f \notin Replaced
        <5>1. f \notin moved /\ ~New(f)'
          BY <2>11, <2>14, <4>4 DEF JobInv, Planned, New
        <5>2. disk'[f] = before[f]
          BY <2>1, <2>2, <2>8, <5>1 DEF Consistent, Closed
        <5> QED
          BY <4>1, <4>4, <5>2 DEF After
      <4> QED
        BY <4>2, <4>3, <4>4
    <3>4. Outcomes'
      BY <2>1, <2>2, <3>1, <3>3 DEF Outcomes, Back
    <3> QED
      BY <2>6, <2>7, <2>8, <2>9, <3>2, <3>4 DEF JobInv
  <2> QED
    BY <2>13, <2>14
<1> QED
  BY <1>2, <1>3

LEMMA VerifiedJob == ASSUME TypeInv, JobInv, Verified PROVE JobInv'
<1>1. /\ UNCHANGED folderVars /\ UNCHANGED <<idx, outcome, preserve>> /\ wpc = "verify"
      /\ UNCHANGED <<disk, backup, moved, placed, rollbackOk, op, plan, before>>
      /\ \/ wpc' = "cleanup"
         \/ wpc' = IF Installs THEN "undoNew" ELSE "undoOld"
  BY DEF Verified, GoTo, folderVars, jobVars, opVars
<1>2. /\ rollbackOk /\ ~preserve /\ outcome = "none" /\ wpc \notin Closed
      /\ \A f \in Folder : disk[f] = After(f)
      /\ IF Installs THEN idx = plan.n /\ placed \subseteq 1 .. idx ELSE placed = {}
  BY <1>1 DEF JobInv, Outcomes, Progress, Back, Closed
<1>3. Numbered' /\ Planned' /\ Consistent'
  BY <1>1, <1>2, NumberedKept, PlannedKept, ConsistentKept DEF JobInv, Closed
<1>4. NothingLost'
  BY <1>1, <1>2, LostKept DEF JobInv, Committed, Closed
<1>5. Replaced' = Replaced /\ Installs' = Installs /\ \A f \in Folder : After(f)' = After(f)
  BY <1>1 DEF Replaced, Installs, After
<1>6. Progress'
  <2>1. \A f \in moved : SlotOf(f) <= idx
    <3>1. \A f \in moved : SlotOf(f) \in Int
      BY FolderTypes, FolderFacts, SlotFacts
    <3>2. ASSUME Installs, NEW f \in moved PROVE SlotOf(f) <= idx
      BY <1>2, <3>2 DEF JobInv, Planned
    <3>3. ASSUME ~Installs, NEW f \in moved PROVE SlotOf(f) = idx
      BY <3>3 DEF JobInv, Planned, Replaced
    <3> QED
      BY <3>1, <3>2, <3>3, FolderTypes
  <2> QED
    BY <1>1, <1>2, <1>5, <2>1 DEF Progress, Early, Forward, Back
<1>7. Outcomes'
  <2>1. \A f \in Folder \ moved : backup[f] = Absent
    BY <1>2 DEF JobInv, Consistent, Closed
  <2> QED
    BY <1>1, <1>2, <1>5, <2>1 DEF Outcomes, Back
<1> QED
  BY <1>3, <1>4, <1>6, <1>7 DEF JobInv

LEMMA DiscardJob == ASSUME TypeInv, JobInv, Discard PROVE JobInv'
<1>1. /\ wpc = "cleanup" /\ UNCHANGED <<disk, placed, rollbackOk, op, plan, before, idx, preserve>>
      /\ \/ \E f \in moved : backup' = [backup EXCEPT ![f] = Absent] /\ moved' = moved \ {f} /\ wpc' = "cleanup"
                             /\ outcome' = outcome
         \/ moved = {} /\ wpc' = "report" /\ outcome' = "success" /\ UNCHANGED <<backup, moved>>
  BY DEF Discard, GoTo, End, opVars, historyVars
<1>2. /\ rollbackOk /\ ~preserve /\ outcome = "none"
      /\ \A f \in Folder : disk[f] = After(f)
      /\ \A f \in Folder \ moved : backup[f] = Absent
  BY <1>1 DEF JobInv, Outcomes, Back
<1>3. moved' \subseteq moved /\ \A f \in Folder : backup'[f] = backup[f] \/ backup'[f] = Absent
  BY <1>1, FolderTypes
<1>4. \A f \in Folder \ moved' : backup'[f] = Absent
  BY <1>1, <1>2, FolderTypes
<1>5. Numbered'
  <2>1. Absent <= op
    BY Values, FolderTypes, RuntimeAssumption DEF TypeInv, TypeOK
  <2> QED
    BY <1>1, <1>3, <2>1 DEF JobInv, Numbered
<1>6. Planned'
  BY <1>1, <1>3, PlannedKept DEF JobInv
<1>7. Consistent' /\ Progress' /\ NothingLost'
  BY <1>1 DEF Consistent, Progress, Early, Forward, Back, NothingLost, Committed
<1>8. Outcomes'
  <2>1. \A f \in Folder : After(f)' = After(f)
    BY <1>1 DEF After, Installs, Replaced
  <2> QED
    BY <1>1, <1>2, <1>4, <2>1 DEF Outcomes, Back
<1> QED
  BY <1>5, <1>6, <1>7, <1>8 DEF JobInv

LEMMA UndoNewJob == ASSUME TypeInv, JobInv, UndoNew PROVE JobInv'
<1>0. PICK d : d = Dest(idx)
  OBVIOUS
<1>1. /\ wpc = "undoNew" /\ wpc' = "undoOld" /\ Installs
      /\ UNCHANGED <<idx, backup, moved, op, plan, before, outcome, preserve>>
  BY DEF UndoNew, GoTo, opVars, historyVars, TypeInv
<1>2. idx \in Slots /\ idx \in Int /\ d \in Folder /\ \A s \in Slots : Dest(s) = d => s = idx
  <2>1. idx \in 1 .. plan.n /\ plan.n \in 0 .. NumSlots /\ NumSlots \in Nat
    BY <1>1, RuntimeAssumption DEF TypeInv, TypeOK, Plan
  <2>2. idx \in Slots
    BY <2>1 DEF Slots
  <2> QED
    BY <1>0, <2>1, <2>2, FolderFacts
<1>3. placed' = placed \ {idx} /\ placed \subseteq Slots
  BY FolderTypes DEF UndoNew
<1>4. \/ UNCHANGED <<disk, rollbackOk>> /\ idx \notin placed
      \/ idx \in placed /\ disk' = [disk EXCEPT ![d] = Absent] /\ rollbackOk' = rollbackOk
      \/ idx \in placed /\ disk' = [disk EXCEPT ![d] = Remains] /\ ~rollbackOk'
  BY <1>0 DEF UndoNew
<1>5. /\ \A f \in Folder : f # d => disk'[f] = disk[f] /\ New(f)' = New(f)
      /\ idx \in placed => disk[d] = op /\ disk'[d] \in {Absent, Remains}
      /\ ~New(d)'
  <2>1. \A f \in Folder : f # d => New(f)' = New(f)
    BY <1>0, <1>2, <1>3 DEF New
  <2>2. idx \in placed => disk[d] = op
    BY <1>0 DEF JobInv, Numbered
  <2>3. ~New(d)'
    BY <1>2, <1>3 DEF New
  <2> QED
    BY <1>2, <1>4, <2>1, <2>2, <2>3, FolderTypes
<1>6. op \in Int /\ 0 <= op /\ before[d] < op
  BY <1>1, <1>2, RuntimeAssumption DEF TypeInv, TypeOK, JobInv, Numbered
<1>7. Numbered'
  <2>1. \A f \in Folder : disk'[f] <= op
    BY <1>4, <1>5, <1>6, Values DEF JobInv, Numbered
  <2>2. \A s \in placed' : disk'[Dest(s)] = op
    BY <1>2, <1>3, <1>5, FolderFacts DEF JobInv, Numbered
  <2> QED
    BY <1>1, <2>1, <2>2 DEF JobInv, Numbered
<1>8. Planned'
  BY <1>1, PlannedKept DEF JobInv
<1>9. Consistent'
  <2>1. ASSUME rollbackOk', NEW f \in Folder
        PROVE  IF f \in moved THEN backup[f] = before[f] /\ Gone(f)'
               ELSE backup[f] = Absent /\ (disk'[f] = before[f] \/ (New(f)' /\ before[f] = Absent))
    <3>1. /\ rollbackOk
          /\ IF f \in moved THEN backup[f] = before[f] /\ Gone(f)
             ELSE backup[f] = Absent /\ (disk[f] = before[f] \/ (New(f) /\ before[f] = Absent))
      BY <1>1, <1>4, <2>1 DEF JobInv, Consistent
    <3>2. CASE f # d
      BY <1>5, <3>1, <3>2 DEF Gone
    <3>3. CASE f = d /\ idx \in placed
      BY <1>2, <1>4, <1>5, <1>6, <2>1, <3>1, <3>3, FolderTypes DEF Gone
    <3>4. CASE f = d /\ idx \notin placed
      <4>1. ~New(d)
        BY <1>2, <3>4, FolderTypes DEF New
      <4> QED
        BY <1>4, <3>1, <3>4, <4>1 DEF Gone
    <3> QED
      BY <3>2, <3>3, <3>4
  <2> QED
    BY <1>1, <2>1 DEF Consistent
<1>10. Progress'
  <2>1. /\ \A f \in moved : SlotOf(f) <= idx
        /\ placed \subseteq 1 .. idx
    BY <1>1 DEF JobInv, Progress, Back
  <2>2. placed' \subseteq 1 .. idx - 1
    BY <1>2, <1>3, <2>1
  <2> QED
    BY <1>1, <2>1, <2>2 DEF Progress, Early, Forward, Back, Installs
<1>11. Outcomes'
  BY <1>1 DEF JobInv, Outcomes, Back
<1>12. NothingLost'
  <2>1. ASSUME NEW f \in Folder, before[f] \in Version PROVE before[f] \in {disk'[f], backup[f]}
    <3>1. before[f] \in {disk[f], backup[f]}
      BY <1>1, <2>1 DEF JobInv, NothingLost, Outcomes, Committed, Back
    <3>2. CASE f = d /\ idx \in placed
      BY <1>5, <1>6, <3>1, <3>2
    <3>3. CASE f # d \/ idx \notin placed
      BY <1>4, <1>5, <3>1, <3>3
    <3> QED
      BY <3>2, <3>3
  <2> QED
    BY <1>1, <2>1 DEF NothingLost
<1> QED
  BY <1>7, <1>8, <1>9, <1>10, <1>11, <1>12 DEF JobInv

LEMMA PutBackJob ==
  ASSUME TypeInv, JobInv, wpc \in {"undoOld", "undoRepl"}, wpc' = wpc, NEW f \in moved, PutBack(f),
         UNCHANGED <<placed, op, plan, before, idx, outcome, preserve>>
  PROVE  JobInv'
<1>1. /\ moved' = moved \ {f} /\ f \in Folder /\ wpc \in Back /\ outcome = "none"
      /\ \/ /\ disk[f] = Absent /\ disk' = [disk EXCEPT ![f] = backup[f]]
            /\ backup' = [backup EXCEPT ![f] = Absent] /\ rollbackOk' = rollbackOk
         \/ ~rollbackOk' /\ UNCHANGED <<disk, backup>>
  BY FolderTypes DEF PutBack, Back, JobInv, Outcomes
<1>2. op \in Int /\ op >= 0 /\ Absent <= op /\ op # Absent
  BY Values, RuntimeAssumption DEF TypeInv, TypeOK
<1>3. \/ /\ disk[f] = Absent /\ disk'[f] = backup[f] /\ backup'[f] = Absent /\ rollbackOk' = rollbackOk
         /\ \A g \in Folder : g # f => disk'[g] = disk[g] /\ backup'[g] = backup[g]
         /\ disk' \in [Folder -> Content] /\ backup' \in [Folder -> Content]
      \/ ~rollbackOk' /\ UNCHANGED <<disk, backup>>
  BY <1>1, FolderTypes DEF Content
<1>4. Numbered'
  <2>1. ASSUME NEW s \in placed PROVE disk'[Dest(s)] = op
    <3>1. Dest(s) \in Folder /\ disk[Dest(s)] = op
      BY FolderTypes, FolderFacts DEF JobInv, Numbered
    <3> QED
      BY <1>1, <1>2, <1>3, <3>1
  <2>2. \A g \in Folder : disk'[g] <= op /\ backup'[g] <= op
    BY <1>1, <1>2, <1>3 DEF JobInv, Numbered
  <2> QED
    BY <1>1, <2>1, <2>2 DEF JobInv, Numbered, Back
<1>5. Planned'
  BY <1>1, PlannedKept DEF JobInv
<1>6. Consistent'
  <2>1. ASSUME rollbackOk', NEW g \in Folder
        PROVE  IF g \in moved' THEN backup'[g] = before[g] /\ Gone(g)'
               ELSE backup'[g] = Absent /\ (disk'[g] = before[g] \/ (New(g)' /\ before[g] = Absent))
    <3>1. /\ rollbackOk
          /\ IF g \in moved THEN backup[g] = before[g] /\ Gone(g)
             ELSE backup[g] = Absent /\ (disk[g] = before[g] \/ (New(g) /\ before[g] = Absent))
      BY <1>1, <1>3, <2>1 DEF JobInv, Consistent, Back
    <3>2. New(g)' = New(g)
      BY DEF New
    <3>3. CASE g = f
      BY <1>1, <1>3, <2>1, <3>1, <3>3
    <3>4. CASE g # f
      BY <1>1, <1>3, <2>1, <3>1, <3>2, <3>4 DEF Gone
    <3> QED
      BY <3>3, <3>4
  <2> QED
    BY <2>1 DEF Consistent
<1>7. Progress'
  BY <1>1 DEF JobInv, Progress, Early, Forward, Back, Installs, InSlot
<1>8. Outcomes'
  BY <1>1 DEF JobInv, Outcomes, Back
<1>9. NothingLost'
  <2>1. ASSUME NEW g \in Folder, before[g] \in Version PROVE before[g] \in {disk'[g], backup'[g]}
    <3>1. before[g] \in {disk[g], backup[g]}
      BY <1>1, <2>1 DEF JobInv, NothingLost, Committed, Back
    <3> QED
      BY <1>1, <1>3, <2>1, <3>1, Values
  <2> QED
    BY <1>1, <2>1 DEF NothingLost
<1> QED
  BY <1>4, <1>5, <1>6, <1>7, <1>8, <1>9 DEF JobInv

(* A plan has been rolled back; the one before it follows, or the end.     *)
LEMMA UndoneJob ==
  ASSUME TypeInv, JobInv, Undo, UNCHANGED <<disk, backup, moved, rollbackOk>>,
         moved \cap InSlot(IF wpc = "undoOld" THEN plan.old ELSE plan.repl, idx) = {},
         \/ wpc = "undoOld" /\ Installs /\ GoTo("undoRepl") /\ UNCHANGED <<idx, partial>>
         \/ wpc = "undoRepl" /\ idx # 1 /\ GoTo("undoNew") /\ idx' = idx - 1
         \/ (wpc = "undoRepl" => idx = 1) /\ (wpc = "undoOld" => ~Installs) /\ Rolled /\ UNCHANGED idx
  PROVE  JobInv'
<1>1. /\ wpc \in {"undoOld", "undoRepl"} /\ wpc \in Back /\ (wpc = "undoRepl" => Installs)
      /\ UNCHANGED <<disk, backup, moved, placed, rollbackOk, op, plan, before>>
      /\ idx \in Int
  BY FolderTypes DEF Undo, Back, TypeInv, opVars
<1>2. \/ wpc' \in {"undoRepl", "undoNew", "restore"} /\ UNCHANGED <<outcome, preserve>>
      \/ wpc' = "report" /\ outcome' = "failure" /\ preserve' = TRUE /\ ~rollbackOk
  BY DEF GoTo, Rolled, EndPreserving
<1>3. /\ ~preserve /\ outcome = "none" /\ wpc \notin Closed
      /\ \A f \in moved : SlotOf(f) <= idx
      /\ placed \subseteq 1 .. idx - 1
      /\ ~Installs => placed = {}
      /\ wpc = "undoRepl" => moved \cap InSlot(plan.old, idx) = {}
  BY <1>1 DEF JobInv, Outcomes, Progress, Back, Closed
<1>4. \A f \in moved : f \in Folder /\ SlotOf(f) \in Int /\ SlotOf(f) >= 1
  BY FolderTypes, FolderFacts, SlotFacts
<1>5. ASSUME wpc = "undoRepl", NEW f \in moved PROVE SlotOf(f) # idx
  BY <1>3, <1>5 DEF JobInv, Planned, Replaced, InSlot
<1>6. CASE wpc' = "undoRepl"
  <2>1. wpc = "undoOld" /\ Installs /\ idx' = idx
    BY <1>6 DEF GoTo, Rolled, EndPreserving
  <2>2. Progress'
    BY <1>1, <1>3, <1>6, <2>1 DEF Progress, Early, Forward, Back, Installs, InSlot
  <2>3. Outcomes'
    BY <1>1, <1>2, <1>3, <1>6 DEF Outcomes, Back
  <2> QED
    BY <1>1, <1>2, <1>3, <1>6, <2>1, <2>2, <2>3, NumberedKept, PlannedKept, ConsistentKept, LostKept
       DEF JobInv, Committed, Closed
<1>7. CASE wpc' = "undoNew"
  <2>1. wpc = "undoRepl" /\ Installs /\ idx' = idx - 1
    BY <1>1, <1>7 DEF GoTo, Rolled, EndPreserving
  <2>2. \A f \in moved : SlotOf(f) <= idx - 1
    BY <1>1, <1>3, <1>4, <1>5, <2>1
  <2>3. Progress'
    BY <1>1, <1>3, <1>7, <2>1, <2>2 DEF Progress, Early, Forward, Back, Installs, InSlot
  <2>4. Outcomes'
    BY <1>1, <1>2, <1>3, <1>7 DEF Outcomes, Back
  <2> QED
    BY <1>1, <1>2, <1>3, <1>7, <2>1, <2>3, <2>4, NumberedKept, PlannedKept, ConsistentKept, LostKept
       DEF JobInv, Committed, Closed
<1>8. CASE wpc' \in {"restore", "report"}
  <2>1. /\ wpc = "undoRepl" => idx = 1
        /\ wpc = "undoOld" => ~Installs
        /\ idx' = idx /\ (wpc' = "restore" => rollbackOk)
    BY <1>8 DEF GoTo, Rolled, EndPreserving
  <2>2. placed = {}
    BY <1>1, <1>3, <2>1
  <2>3. moved = {}
    <3>1. CASE wpc = "undoRepl"
      <4>1. ASSUME NEW f \in moved PROVE FALSE
        BY <1>3, <1>4, <1>5, <2>1, <3>1
      <4> QED
        BY <4>1
    <3>2. CASE wpc = "undoOld"
      <4>1. \A f \in moved : f \in plan.old /\ SlotOf(f) = idx
        BY <2>1, <3>2 DEF JobInv, Planned, Replaced
      <4> QED
        BY <3>2, <4>1 DEF InSlot
    <3> QED
      BY <1>1, <3>1, <3>2
  <2>4. rollbackOk => disk = before
    BY <1>3, <2>2, <2>3, Untouched DEF JobInv
  <2>5. Progress'
    BY <1>8 DEF Progress, Early, Forward, Back
  <2>6. Outcomes'
    BY <1>1, <1>2, <1>3, <1>8, <2>1, <2>4 DEF Outcomes, Back
  <2> QED
    BY <1>1, <1>2, <1>3, <1>8, <2>1, <2>5, <2>6, NumberedKept, PlannedKept, ConsistentKept, LostKept
       DEF JobInv, Committed, Closed
<1> QED
  BY <1>2, <1>6, <1>7, <1>8

LEMMA UndoJob == ASSUME TypeInv, JobInv, Undo PROVE JobInv'
<1>1. CASE \E f \in moved : PutBack(f) /\ GoTo(wpc) /\ UNCHANGED <<idx, partial>>
  BY <1>1, PutBackJob DEF Undo, GoTo, opVars
<1>2. CASE ~\E f \in moved : PutBack(f) /\ GoTo(wpc) /\ UNCHANGED <<idx, partial>>
  BY <1>2, UndoneJob DEF Undo, FirstPlan
<1> QED
  BY <1>1, <1>2

LEMMA RestoredJob == ASSUME TypeInv, JobInv, Restored PROVE JobInv'
<1>1. /\ wpc \in {"restore", "restoreOnly"} /\ wpc' = "report" /\ outcome' = "failure"
      /\ UNCHANGED <<disk, backup, moved, placed, rollbackOk, op, plan, before, idx>>
      /\ preserve' = preserve \/ preserve'
  BY DEF Restored, End, EndPreserving, jobVars, opVars
<1>2. disk = before /\ rollbackOk /\ outcome = "none" /\ wpc \notin Closed
  BY <1>1 DEF JobInv, Outcomes, Back, Closed
<1>3. Numbered' /\ Planned' /\ Consistent' /\ NothingLost'
  BY <1>1, <1>2, NumberedKept, PlannedKept, ConsistentKept, LostKept DEF JobInv, Committed, Closed
<1>4. Progress' /\ Outcomes'
  BY <1>1, <1>2 DEF Progress, Outcomes, Early, Forward, Back
<1> QED
  BY <1>3, <1>4 DEF JobInv

LEMMA ReportJob == ASSUME TypeInv, JobInv, Report PROVE JobInv'
<1>1. /\ wpc = "report" /\ wpc' = "idle" /\ UNCHANGED <<disk, placed, rollbackOk, preserve, op, plan, before, idx>>
      /\ outcome' = CASE outcome = "success" -> "Done"
                      [] outcome = "failure" /\ cancelRequested /\ ~preserve -> "Cancelled"
                      [] OTHER -> "Failed"
      /\ \/ preserve /\ UNCHANGED <<backup, moved>>
         \/ ~preserve /\ backup' = [f \in Folder |-> Absent] /\ moved' = {}
  BY DEF Report, opVars
<1>2. /\ outcome \in {"success", "failure"}
      /\ outcome = "success" => \A f \in Folder : disk[f] = After(f)
      /\ outcome = "failure" => (IF rollbackOk THEN disk = before ELSE preserve)
  BY <1>1 DEF JobInv, Outcomes
<1>3. /\ outcome' \in {"Done", "Failed", "Cancelled"}
      /\ outcome' = "Done" <=> outcome = "success"
      /\ outcome' = "Cancelled" => outcome = "failure" /\ ~preserve
  BY <1>1, <1>2
<1>4. Numbered'
  <2>1. Absent <= op
    BY Values, RuntimeAssumption DEF TypeInv, TypeOK
  <2> QED
    BY <1>1, <2>1 DEF JobInv, Numbered
<1>5. Planned'
  BY <1>1, PlannedKept DEF JobInv
<1>6. Consistent' /\ Progress'
  BY <1>1 DEF Consistent, Progress, Early, Forward, Back
<1>7. Outcomes'
  <2>1. \A f \in Folder : After(f)' = After(f)
    BY <1>1 DEF After, Installs, Replaced
  <2> QED
    BY <1>1, <1>2, <1>3, <2>1 DEF Outcomes, Back
<1>8. NothingLost'
  <2>1. CASE outcome = "success"
    BY <1>3, <2>1 DEF NothingLost, Committed
  <2>2. CASE outcome = "failure" /\ preserve
    BY <1>1, <1>3, <2>2, LostKept DEF JobInv, Committed
  <2>3. CASE outcome = "failure" /\ ~preserve
    BY <1>1, <1>2, <2>3 DEF NothingLost
  <2> QED
    BY <1>2, <2>1, <2>2, <2>3
<1> QED
  BY <1>4, <1>5, <1>6, <1>7, <1>8 DEF JobInv

LEMMA JobStep == ASSUME TypeInv, QueueInv, JobInv, [Next]_vars PROVE JobInv'
<1>1. CASE Ask \/ Toggle \/ ReloadMods \/ Cancel \/ UNCHANGED vars
  <2>1. UNCHANGED folderVars /\ UNCHANGED <<idx, wpc, outcome, preserve>>
    BY <1>1 DEF Ask, Toggle, ReloadMods, Cancel, vars, folderVars, jobVars, opVars, historyVars
  <2> QED
    BY <2>1, SameJob
<1>2. CASE RunTask
  <2>1. PICK t \in Task :
          /\ queue # <<>> /\ t = Head(queue)
          /\ TaskEffect(t)
          /\ UNCHANGED <<disk, broken, wpc, idx, staging, backup, moved, placed, rollbackOk>>
          /\ UNCHANGED <<preserve, asked, op, cancelRequested, outcome, acts, before>>
    BY <1>2, RunTaskFacts
  <2>2. CASE plan' = plan
    <3>1. UNCHANGED folderVars /\ UNCHANGED <<idx, wpc, outcome, preserve>>
      BY <2>1, <2>2 DEF folderVars
    <3> QED
      BY <3>1, SameJob
  <2>3. CASE plan' # plan
    <3>1. /\ t.awaited /\ t.kind = "capture"
          /\ plan' = [plan EXCEPT !.repl = IF Installs THEN {f \in DOMAIN mods : SlotOf(f) <= plan.n} \ plan.old
                                            ELSE {}]
      BY <2>1, <2>3, CaptureFacts DEF TaskEffect
    <3>2. wpc = "capture"
      <4>1. t = queue[1] /\ 1 \in DOMAIN queue
        BY <2>1, HeadFacts DEF TypeInv
      <4> QED
        BY <3>1, <4>1 DEF QueueInv
    <3>3. /\ plan'.old = plan.old /\ plan'.n = plan.n /\ plan'.kind = plan.kind
          /\ Installs => \A f \in plan'.repl : SlotOf(f) <= plan.n
          /\ ~Installs => plan'.repl = {}
      BY <3>1 DEF TypeInv, TypeOK, Plan
    <3>4. moved = {} /\ Installs' = Installs
      BY <3>2, <3>3 DEF JobInv, Progress, Early, Installs
    <3>5. Planned'
      BY <2>1, <3>3, <3>4 DEF JobInv, Planned, Replaced
    <3>6. Numbered' /\ Consistent' /\ NothingLost'
      BY <2>1, <3>2, NumberedKept, ConsistentKept, LostKept DEF JobInv, Closed, Committed
    <3>7. Progress'
      BY <2>1, <3>2, <3>4 DEF JobInv, Progress, Early, Forward, Back
    <3>8. Outcomes'
      BY <2>1, <3>2 DEF JobInv, Outcomes, Back
    <3> QED
      BY <3>5, <3>6, <3>7, <3>8 DEF JobInv
  <2> QED
    BY <2>2, <2>3
<1> QED
  BY <1>1, <1>2, StartsJob, EarlyJob, BackUpJob, PlaceJob, VerifiedJob, DiscardJob, UndoNewJob, UndoJob,
     RestoredJob, ReportJob DEF Next, Worker

IInv == TypeInv /\ QueueInv /\ JobInv

LEMMA Inductive == Spec => []IInv
<1>1. Init => IInv
  BY InitType, InitQueue, JobInit DEF IInv
<1>2. IInv /\ [Next]_vars => IInv'
  BY TypeStep, QueueStep, JobStep DEF IInv
<1> QED
  BY <1>1, <1>2, PTL DEF Spec

(* Whatever fails and whenever the process is killed, a package that was   *)
(* installed when the operation began is in its folder or in the job       *)
(* directory, until the reload with the new ones has been verified         *)
(* (CommitPlans, ExecuteInstalledRemove, preserveRecoveryFiles).           *)
THEOREM NothingIsLost == Spec => []NothingLost
<1>1. IInv => NothingLost
  BY DEF IInv, JobInv
<1> QED
  BY <1>1, Inductive, PTL

(* An operation that reports Done has replaced all of its packages; one    *)
(* that reports Failed or Cancelled has changed no folder unless its       *)
(* rollback failed, and then it is not reported as Cancelled (RunWorker).  *)
THEOREM Atomic == Spec => []AllOrNothing
<1>1. IInv => AllOrNothing
  BY DEF IInv, JobInv, Outcomes, AllOrNothing
<1> QED
  BY <1>1, Inductive, PTL

-----------------------------------------------------------------------------
(* An operation is a PackageChange.                                        *)

InPlace == {f \in Previous : disk[f] = before[f]}
Kept    == {f \in Previous : before[f] \in {disk[f], backup[f]}}

LEMMA ChangeInit == ASSUME Init PROVE Change!Init
<1>1. wpc = "idle" /\ outcome = "none" /\ disk = before
  BY DEF Init
<1> QED
  BY <1>1 DEF Change!Init, Previous, Committed

(* A step that leaves folders and decision alone is a step of nothing.     *)
LEMMA ChangeStutters ==
  ASSUME UNCHANGED <<disk, backup, before>>, (wpc = "idle") <=> (wpc' = "idle"), Committed <=> Committed'
  PROVE  UNCHANGED Change!vars
<1>1. (wpc # "idle")' = (wpc # "idle") /\ Committed' = Committed
  BY DEF Committed
<1>2. Previous' = Previous
  BY DEF Previous
<1>3. InPlace' = InPlace /\ Kept' = Kept
  BY <1>2 DEF InPlace, Kept
<1> QED
  BY <1>1, <1>3 DEF Change!vars, InPlace, Kept

(* One previous package at most is moved, restored or thrown away.         *)
LEMMA TakeStep ==
  ASSUME TypeInv, JobInv, NEW f \in Folder, MoveToBackup(f), disk[f] # Absent, f \notin moved, ~New(f),
         rollbackOk, wpc \in Forward, wpc' = wpc, UNCHANGED <<outcome, before>>
  PROVE  [Change!Next]_(Change!vars)
<1>1. /\ disk'[f] = Absent /\ backup'[f] = disk[f]
      /\ \A g \in Folder : g # f => disk'[g] = disk[g] /\ backup'[g] = backup[g]
  BY FolderTypes DEF MoveToBackup
<1>2. disk[f] = before[f]
  BY OpenPhases DEF JobInv, Consistent, Closed, Forward
<1>3. wpc # "idle" /\ ~Committed /\ Committed' = Committed /\ (wpc # "idle")' = (wpc # "idle")
  BY DEF JobInv, Outcomes, Committed, Forward
<1>4. Previous' = Previous /\ Previous \subseteq Folder
  BY DEF Previous
<1>5. CASE f \in Previous
  <2>1. before[f] \in Version
    BY <1>5 DEF Previous
  <2>2. f \in InPlace /\ InPlace' = InPlace \ {f}
    BY <1>1, <1>2, <1>4, <1>5, <2>1, Values DEF InPlace
  <2>3. Kept' = Kept
    BY <1>1, <1>2, <1>4, <1>5 DEF Kept
  <2>4. Change!Take
    BY <1>3, <2>2, <2>3 DEF Change!Take, InPlace, Kept
  <2> QED
    BY <2>4 DEF Change!Next
<1>6. CASE f \notin Previous
  <2>1. InPlace' = InPlace /\ Kept' = Kept
    BY <1>1, <1>4, <1>6 DEF InPlace, Kept
  <2> QED
    BY <1>3, <2>1 DEF Change!vars, InPlace, Kept
<1> QED
  BY <1>5, <1>6

(* What is placed or taken away again is no previous package.              *)
LEMMA OwnStep ==
  ASSUME TypeInv, JobInv, NEW d \in Folder, wpc \notin {"idle", "cleanup"}, outcome = "none",
         disk[d] = Absent \/ disk[d] = op, disk'[d] = op \/ disk'[d] \notin Version,
         \A g \in Folder : g # d => disk'[g] = disk[g],
         UNCHANGED <<backup, before, outcome>>, wpc' \notin {"idle", "cleanup"}
  PROVE  UNCHANGED Change!vars
<1>1. Previous' = Previous /\ Previous \subseteq Folder
  BY DEF Previous
<1>2. before[d] \in Version => before[d] # disk[d] /\ before[d] # disk'[d]
  <2>1. before[d] < op /\ op \in Int
    BY FolderTypes DEF JobInv, Numbered
  <2> QED
    BY <2>1, Values
<1>3. InPlace' = InPlace /\ Kept' = Kept
  BY <1>1, <1>2 DEF InPlace, Kept, Previous
<1>4. (wpc # "idle")' = (wpc # "idle") /\ Committed' = Committed
  BY DEF Committed
<1> QED
  BY <1>3, <1>4 DEF Change!vars, InPlace, Kept

LEMMA PutBackStep ==
  ASSUME TypeInv, JobInv, NEW f \in moved, PutBack(f), wpc \in Back, wpc' = wpc, UNCHANGED <<outcome, before>>
  PROVE  [Change!Next]_(Change!vars)
<1>1. f \in Folder
  BY FolderTypes
<1>2. wpc # "idle" /\ ~Committed /\ Committed' = Committed /\ (wpc # "idle")' = (wpc # "idle")
  BY DEF JobInv, Outcomes, Committed, Back
<1>3. CASE UNCHANGED <<disk, backup>>
  BY <1>2, <1>3, ChangeStutters
<1>4. CASE /\ disk[f] = Absent /\ disk' = [disk EXCEPT ![f] = backup[f]]
           /\ backup' = [backup EXCEPT ![f] = Absent]
  <2>1. /\ disk'[f] = backup[f] /\ backup'[f] = Absent
        /\ \A g \in Folder : g # f => disk'[g] = disk[g] /\ backup'[g] = backup[g]
    BY <1>1, <1>4, FolderTypes
  <2>2. Previous' = Previous /\ Previous \subseteq Folder
    BY DEF Previous
  <2>3. CASE f \in Previous
    <3>1. before[f] = backup[f] /\ before[f] # Absent
      BY <1>2, <1>4, <2>3, Values DEF JobInv, NothingLost, Previous
    <3>2. f \in Kept \ InPlace /\ InPlace' = InPlace \cup {f} /\ Kept' = Kept
      BY <1>4, <2>1, <2>2, <2>3, <3>1 DEF InPlace, Kept
    <3>3. Change!PutBack
      BY <1>2, <3>2 DEF Change!PutBack, InPlace, Kept
    <3> QED
      BY <3>3 DEF Change!Next
  <2>4. CASE f \notin Previous
    <3>1. InPlace' = InPlace /\ Kept' = Kept
      BY <2>1, <2>2, <2>4 DEF InPlace, Kept
    <3> QED
      BY <1>2, <3>1 DEF Change!vars, InPlace, Kept
  <2> QED
    BY <2>3, <2>4
<1> QED
  BY <1>3, <1>4 DEF PutBack

LEMMA DiscardStep ==
  ASSUME TypeInv, JobInv, NEW f \in moved, backup' = [backup EXCEPT ![f] = Absent],
         wpc = "cleanup", wpc' = "cleanup", UNCHANGED <<disk, before, outcome>>
  PROVE  [Change!Next]_(Change!vars)
<1>1. /\ f \in Folder /\ backup'[f] = Absent
      /\ \A g \in Folder : g # f => backup'[g] = backup[g]
  BY FolderTypes
<1>2. Committed /\ Committed' = Committed /\ (wpc # "idle") /\ (wpc # "idle")' = (wpc # "idle")
  BY DEF Committed
<1>3. Previous' = Previous /\ Previous \subseteq Folder
  BY DEF Previous
<1>4. InPlace' = InPlace
  BY <1>3 DEF InPlace
<1>5. CASE f \in Kept \ InPlace
  <2>1. Kept' = Kept \ {f}
    BY <1>1, <1>3, <1>5, Values DEF InPlace, Kept, Previous
  <2>2. Change!Discard
    BY <1>2, <1>4, <1>5, <2>1 DEF Change!Discard, InPlace, Kept
  <2> QED
    BY <2>2 DEF Change!Next
<1>6. CASE f \notin Kept \ InPlace
  <2>1. Kept' = Kept
    BY <1>1, <1>3, <1>6, Values DEF InPlace, Kept, Previous
  <2> QED
    BY <1>2, <1>4, <2>1 DEF Change!vars, InPlace, Kept
<1> QED
  BY <1>5, <1>6

LEMMA StartStep ==
  ASSUME TypeInv, JobInv, StartInstall \/ StartRemove PROVE Change!Begin
<1>1. /\ wpc = "idle" /\ wpc' = "capture" /\ disk' = disk /\ before' = disk /\ outcome' = "none"
  BY DEF StartInstall, StartRemove, Start
<1>2. ~(wpc # "idle") /\ (wpc # "idle")' = TRUE /\ Committed' = FALSE
  BY <1>1 DEF Committed
<1>3. InPlace' = Kept' /\ Kept' \subseteq Folder
  BY <1>1 DEF InPlace, Kept, Previous
<1> QED
  BY <1>2, <1>3 DEF Change!Begin, InPlace, Kept

LEMMA ReportStep ==
  ASSUME TypeInv, JobInv, Report PROVE Change!End
<1>1. /\ wpc = "report" /\ wpc' = "idle" /\ UNCHANGED <<disk, before, rollbackOk, plan, op, preserve>>
      /\ outcome' = CASE outcome = "success" -> "Done"
                      [] outcome = "failure" /\ cancelRequested /\ ~preserve -> "Cancelled"
                      [] OTHER -> "Failed"
      /\ \/ preserve /\ UNCHANGED backup
         \/ ~preserve /\ backup' = [f \in Folder |-> Absent]
  BY DEF Report, opVars
<1>2. /\ outcome \in {"success", "failure"}
      /\ outcome = "success" => moved = {} /\ \A f \in Folder \ moved : backup[f] = Absent
      /\ outcome = "failure" => (IF rollbackOk THEN disk = before ELSE preserve)
  BY <1>1 DEF JobInv, Outcomes
<1>3. /\ outcome = "success" => backup = [f \in Folder |-> Absent]
      /\ Previous' = Previous /\ Previous \subseteq Folder
  BY <1>1, <1>2, FolderTypes DEF Previous
<1>4. Committed' = Committed /\ (Committed <=> outcome = "success")
  BY <1>1, <1>2 DEF Committed
<1>5. InPlace' = InPlace
  BY <1>1, <1>3 DEF InPlace
<1>6. Kept' = Kept
  <2>1. CASE preserve \/ outcome = "success"
    BY <1>1, <1>3, <2>1 DEF Kept
  <2>2. CASE outcome = "failure" /\ ~preserve
    BY <1>1, <1>2, <1>3, <2>2 DEF Kept
  <2> QED
    BY <1>2, <2>1, <2>2
<1>7. outcome = "success" => Kept = InPlace
  BY <1>3, Values DEF Kept, InPlace, Previous
<1>8. (wpc # "idle") /\ ~(wpc # "idle")'
  BY <1>1
<1> QED
  BY <1>4, <1>5, <1>6, <1>7, <1>8 DEF Change!End, InPlace, Kept

LEMMA ChangeStep ==
  ASSUME IInv, [Next]_vars PROVE [Change!Next]_(Change!vars)
<1>0. TypeInv /\ JobInv
  BY DEF IInv
<1>1. CASE StartInstall \/ StartRemove
  BY <1>0, <1>1, StartStep DEF Change!Next
<1>2. CASE Ask \/ RunTask \/ Toggle \/ ReloadMods \/ Cancel \/ UNCHANGED vars
  <2>1. UNCHANGED <<disk, backup, before, wpc, outcome>>
    BY <1>2 DEF Ask, RunTask, Toggle, ReloadMods, Cancel, vars, jobVars, opVars, historyVars
  <2> QED
    BY <2>1, ChangeStutters DEF Committed
<1>3. CASE Captured \/ Check \/ Unloaded \/ Restored
  <2>1. /\ UNCHANGED <<disk, backup, before>> /\ wpc \notin {"idle", "cleanup", "report"}
        /\ wpc' \notin {"idle", "cleanup"} /\ outcome' \in {outcome, "failure"}
    BY <1>3 DEF Captured, Check, Unloaded, Restored, GoTo, End, EndPreserving, jobVars, historyVars
  <2>2. ~Committed /\ ~Committed'
    BY <1>0, <2>1 DEF JobInv, Outcomes, Committed
  <2> QED
    BY <2>1, <2>2, ChangeStutters
<1>4. CASE BackUp
  <2>1. PICK left \in SUBSET Folder, next \in {"backupRepl", "verify", "place"} :
          /\ MoveOut(left, next)
          /\ wpc \in {"backupOld", "backupRepl"}
          /\ \A f \in left : f \notin moved /\ SlotOf(f) = idx
    BY <1>0, <1>4, FolderTypes DEF BackUp, InSlot
  <2>2. UNCHANGED <<before, outcome>>
    BY <1>0, <1>4, <2>1, MoveOutFacts DEF BackUp, historyVars
  <2>3. wpc \in Forward /\ rollbackOk /\ outcome = "none" /\ wpc # "idle" /\ wpc # "cleanup"
    BY <1>0, <2>1, ForwardFacts DEF Forward
  <2>4. CASE UNCHANGED <<disk, backup, moved>> /\ wpc' \in {next, "undoNew", "restoreOnly"}
    BY <2>1, <2>2, <2>3, <2>4, ChangeStutters DEF Committed
  <2>5. ASSUME NEW f \in left, disk[f] # Absent, MoveToBackup(f), wpc' = wpc
        PROVE  [Change!Next]_(Change!vars)
    <3>1. f \in Folder /\ f \notin moved /\ ~New(f)
      BY <1>0, <2>1, <2>3, ForwardFacts
    <3> QED
      BY <1>0, <2>2, <2>3, <2>5, <3>1, TakeStep
  <2> QED
    BY <1>0, <2>1, <2>4, <2>5, MoveOutFacts
<1>5. CASE Place
  <2>1. /\ wpc = "place" /\ wpc' \in {"verify", "backupOld", "undoNew"} /\ UNCHANGED <<backup, before, outcome>>
        /\ \/ UNCHANGED disk
           \/ disk[Dest(idx)] = Absent /\ disk' = [disk EXCEPT ![Dest(idx)] = op]
    BY <1>5 DEF Place, GoTo, historyVars
  <2>2. outcome = "none" /\ wpc \notin {"idle", "cleanup"} /\ wpc' \notin {"idle", "cleanup"}
    BY <1>0, <2>1 DEF JobInv, Outcomes
  <2>3. CASE UNCHANGED disk
    BY <2>1, <2>2, <2>3, ChangeStutters DEF Committed
  <2>4. CASE disk[Dest(idx)] = Absent /\ disk' = [disk EXCEPT ![Dest(idx)] = op]
    <3>1. Dest(idx) \in Folder
      <4>1. Installs /\ idx \in 1 .. plan.n /\ plan.n \in 0 .. NumSlots /\ NumSlots \in Nat
        BY <1>0, <2>1, RuntimeAssumption DEF TypeInv, TypeOK, Plan
      <4>2. idx \in Slots
        BY <4>1 DEF Slots
      <4> QED
        BY <4>2, FolderFacts
    <3>2. disk'[Dest(idx)] = op /\ \A g \in Folder : g # Dest(idx) => disk'[g] = disk[g]
      BY <1>0, <2>4, <3>1, FolderTypes
    <3> QED
      BY <1>0, <2>1, <2>2, <2>4, <3>1, <3>2, OwnStep
  <2> QED
    BY <2>1, <2>3, <2>4
<1>6. CASE Verified
  <2>1. /\ UNCHANGED <<disk, backup, before, outcome>> /\ wpc = "verify"
        /\ wpc' \in {"cleanup", "undoNew", "undoOld"}
    BY <1>6 DEF Verified, GoTo, jobVars
  <2>2. outcome = "none"
    BY <1>0, <2>1 DEF JobInv, Outcomes
  <2>3. CASE wpc' = "cleanup"
    <3>1. InPlace' = InPlace /\ Kept' = Kept
      BY <2>1 DEF InPlace, Kept, Previous
    <3>2. (wpc # "idle") /\ (wpc # "idle")' = (wpc # "idle") /\ ~Committed /\ Committed' = TRUE
      BY <2>1, <2>2, <2>3 DEF Committed
    <3>3. Change!Commit
      BY <3>1, <3>2 DEF Change!Commit, InPlace, Kept
    <3> QED
      BY <3>3 DEF Change!Next
  <2>4. CASE wpc' # "cleanup"
    BY <2>1, <2>2, <2>4, ChangeStutters DEF Committed
  <2> QED
    BY <2>3, <2>4
<1>7. CASE Discard
  <2>1. ASSUME NEW f \in moved, backup' = [backup EXCEPT ![f] = Absent], wpc' = "cleanup",
               UNCHANGED <<disk, before, outcome>>, wpc = "cleanup"
        PROVE  [Change!Next]_(Change!vars)
    BY <1>0, <2>1, DiscardStep
  <2>2. ASSUME wpc = "cleanup", wpc' = "report", outcome' = "success", UNCHANGED <<disk, backup, before>>
        PROVE  [Change!Next]_(Change!vars)
    BY <2>2, ChangeStutters DEF Committed
  <2> QED
    BY <1>7, <2>1, <2>2 DEF Discard, GoTo, End, historyVars
<1>8. CASE UndoNew
  <2>1. /\ wpc = "undoNew" /\ wpc' = "undoOld" /\ UNCHANGED <<backup, before, outcome>>
        /\ \/ UNCHANGED disk
           \/ /\ idx \in placed
              /\ disk' = [disk EXCEPT ![Dest(idx)] = Absent] \/ disk' = [disk EXCEPT ![Dest(idx)] = Remains]
    BY <1>8 DEF UndoNew, GoTo, historyVars
  <2>2. outcome = "none" /\ wpc \notin {"idle", "cleanup"} /\ wpc' \notin {"idle", "cleanup"}
    BY <1>0, <2>1 DEF JobInv, Outcomes
  <2>3. CASE UNCHANGED disk
    BY <2>1, <2>2, <2>3, ChangeStutters DEF Committed
  <2>4. CASE /\ idx \in placed
             /\ disk' = [disk EXCEPT ![Dest(idx)] = Absent] \/ disk' = [disk EXCEPT ![Dest(idx)] = Remains]
    <3>1. Dest(idx) \in Folder /\ disk[Dest(idx)] = op
      BY <1>0, <2>4, FolderTypes, FolderFacts DEF JobInv, Numbered
    <3>2. disk'[Dest(idx)] \notin Version /\ \A g \in Folder : g # Dest(idx) => disk'[g] = disk[g]
      BY <1>0, <2>4, <3>1, FolderTypes, Values
    <3> QED
      BY <1>0, <2>1, <2>2, <3>1, <3>2, OwnStep
  <2> QED
    BY <2>1, <2>3, <2>4
<1>9. CASE Undo
  <2>1. /\ wpc \in {"undoOld", "undoRepl"} /\ wpc \in Back /\ before' = before
    BY <1>9 DEF Undo, Back
  <2>2. ASSUME NEW f \in moved, PutBack(f), GoTo(wpc) PROVE [Change!Next]_(Change!vars)
    BY <1>0, <2>1, <2>2, PutBackStep DEF GoTo
  <2>3. ASSUME UNCHANGED <<disk, backup>>, wpc' \in {"undoRepl", "undoNew", "restore", "report"},
               outcome' \in {outcome, "failure"}
        PROVE  [Change!Next]_(Change!vars)
    <3>1. ~Committed /\ ~Committed'
      BY <1>0, <2>1, <2>3 DEF JobInv, Outcomes, Committed
    <3> QED
      BY <2>1, <2>3, <3>1, ChangeStutters
  <2> QED
    BY <1>9, <2>2, <2>3 DEF Undo, GoTo, Rolled, EndPreserving
<1>10. CASE Report
  BY <1>0, <1>10, ReportStep DEF Change!Next
<1> QED
  BY <1>1, <1>2, <1>3, <1>4, <1>5, <1>6, <1>7, <1>8, <1>9, <1>10 DEF Next, Worker

(* An operation takes packages away and puts them back one at a time, and  *)
(* throws them away only once it has decided to commit; it ends committed, *)
(* undone, or with what is missing kept aside (PackageChange).             *)
THEOREM Refinement == Spec => ChangeSpec
<1>1. IInv /\ [Next]_vars => [Change!Next]_(Change!vars)
  BY ChangeStep
<1> QED
  BY <1>1, ChangeInit, Inductive, PTL DEF Spec, ChangeSpec, Change!Spec

-----------------------------------------------------------------------------
(* The mods in memory are those on disk once an operation is over and the  *)
(* queue is drained (LoadedMatchesDisk).  The proof rests on IInv and on   *)
(* three more invariants: what is waited for is what the phase asks for    *)
(* (AskedInv); a package that LoadMods rejects is on disk only while the   *)
(* operation that brought it can still take it away (SoundInv); and        *)
(* outside the phases that change folders the mods in memory are those on  *)
(* disk or a reload is queued (LoadedInv).                                 *)

(* What the worker waits for is what its phase asks for.                   *)
AskedInv == \A i \in DOMAIN queue : queue[i].awaited => queue[i] = TaskFor

Undoable    == Forward \cup Back \cup {"verify"}
Rejected(f) == <<f, disk[f]>> \in broken

SoundInv ==
  /\ \A e \in broken : e[2] <= op
  /\ \A f \in Folder : Rejected(f) => wpc \in Undoable /\ New(f)
  /\ \A f \in Folder : <<f, backup[f]>> \notin broken
  /\ wpc = "verify" /\ reply = "yes" => \A f \in Folder : ~Rejected(f)

(* A reload is queued.                                                     *)
Pending == \E i \in DOMAIN queue : queue[i].kind \notin {"capture", "unload"}

(* The phases in which what is loaded is what is on disk, or soon will be. *)
InSync ==
  \/ wpc \in {"idle", "capture", "check", "cleanup", "report"}
  \/ wpc = "unload" /\ reply # "yes"
  \/ wpc \in {"restore", "restoreOnly"} /\ asked
  \/ wpc = "verify" /\ reply = "yes"

Unloads == \A i \in DOMAIN queue : queue[i].kind = "unload" => wpc = "unload" /\ queue[i].awaited

LoadedInv == Calm => Unloads /\ (InSync => MatchesDisk \/ Pending)

-----------------------------------------------------------------------------
LEMMA NoneAwaited ==
  ASSUME QueueInv, ~asked PROVE AskedInv /\ reply = "none"
  BY DEF QueueInv, AskedInv

LEMMA RunTaskPlan ==
  ASSUME TypeInv, QueueInv, RunTask
  PROVE  queue' = <<>> \/ UNCHANGED <<plan, captured>>
<1>1. PICK t \in Task :
        /\ queue # <<>> /\ t = Head(queue) /\ queue' = Tail(queue)
        /\ TaskEffect(t)
  BY RunTaskFacts
<1>2. CASE t.awaited
  <2>1. t = queue[1] /\ 1 \in DOMAIN queue /\ queue \in Seq(Task)
    BY <1>1, HeadFacts DEF TypeInv
  <2>2. Len(queue) = 1
    BY <1>2, <2>1 DEF QueueInv
  <2>3. queue' = <<>>
    BY <1>1, <2>1, <2>2, HeadTailProperties, EmptySeq
  <2> QED
    BY <2>3
<1>3. CASE ~t.awaited
  BY <1>1, <1>3, CaptureFacts DEF TaskEffect
<1> QED
  BY <1>2, <1>3

LEMMA TailElements ==
  ASSUME TypeInv, RunTask
  PROVE  \A i \in DOMAIN queue' : i + 1 \in DOMAIN queue /\ queue'[i] = queue[i + 1]
<1>1. queue \in Seq(Task) /\ queue # <<>> /\ queue' = Tail(queue)
  BY DEF RunTask, TypeInv
<1>2. /\ Len(queue) \in Nat /\ DOMAIN queue = 1 .. Len(queue) /\ Len(queue') = Len(queue) - 1
      /\ queue' \in Seq(Task) /\ DOMAIN queue' = 1 .. Len(queue') 
      /\ \A i \in 1 .. Len(queue') : queue'[i] = queue[i + 1]
  BY <1>1, HeadTailProperties, LenProperties
<1> QED
  BY <1>2

LEMMA AppendElements ==
  ASSUME TypeInv, Ask
  PROVE  /\ \A i \in DOMAIN queue : i \in DOMAIN queue' /\ queue'[i] = queue[i]
         /\ \A i \in DOMAIN queue' : i \in DOMAIN queue \/ queue'[i] = TaskFor
         /\ \E i \in DOMAIN queue' : queue'[i] = TaskFor
<1>1. TaskFor \in Task
  BY TaskForType DEF Ask
<1>2. /\ queue \in Seq(Task) /\ queue' = Append(queue, TaskFor) /\ Len(queue') = Len(queue) + 1
      /\ DOMAIN queue = 1 .. Len(queue) /\ Len(queue) \in Nat /\ queue' \in Seq(Task)
      /\ DOMAIN queue' = 1 .. Len(queue')
  BY <1>1, AppendProperties, LenProperties DEF Ask, TypeInv
<1>3. /\ \A i \in DOMAIN queue : i \in DOMAIN queue' /\ queue'[i] = queue[i]
      /\ queue'[Len(queue')] = TaskFor /\ Len(queue') \in DOMAIN queue'
      /\ \A i \in DOMAIN queue' : i \in DOMAIN queue \/ i = Len(queue')
  BY <1>1, <1>2
<1> QED
  BY <1>3

LEMMA AskedStep == ASSUME TypeInv, QueueInv, QueueInv', AskedInv, [Next]_vars PROVE AskedInv'
<1>1. CASE Ask
  <2>1. TaskFor' = TaskFor /\ wpc' = wpc /\ ~asked
    BY <1>1 DEF Ask, TaskFor, opVars, Installs, Replaced
  <2>2. ASSUME NEW i \in DOMAIN queue', queue'[i].awaited PROVE queue'[i] = TaskFor
    BY <1>1, <2>1, <2>2, AppendElements DEF QueueInv
  <2> QED
    BY <2>1, <2>2 DEF AskedInv
<1>2. CASE RunTask
  <2>1. wpc' = wpc /\ op' = op
    BY <1>2, RunTaskFacts
  <2>2. CASE queue' = <<>>
    <3>1. DOMAIN queue' = {}
      BY <2>2
    <3> QED
      BY <3>1 DEF AskedInv
  <2>3. CASE UNCHANGED <<plan, captured>>
    <3>1. TaskFor' = TaskFor
      BY <2>1, <2>3 DEF TaskFor, Installs, Replaced
    <3> QED
      BY <1>2, <2>1, <3>1, TailElements DEF AskedInv
  <2> QED
    BY <1>2, <2>2, <2>3, RunTaskPlan
<1>3. CASE Toggle \/ ReloadMods \/ Cancel \/ UNCHANGED vars
  <2>1. UNCHANGED <<queue, wpc, op, plan, captured>>
    BY <1>3 DEF Toggle, ReloadMods, Cancel, vars, waitVars, opVars
  <2>2. TaskFor' = TaskFor
    BY <2>1 DEF TaskFor, Installs, Replaced
  <2> QED
    BY <2>1, <2>2 DEF AskedInv
<1>4. CASE Captured \/ Unloaded \/ Verified \/ Restored
  <2>1. ~asked'
    BY <1>4 DEF Captured, Unloaded, Verified, Restored, Answered
  <2> QED
    BY <2>1 DEF QueueInv, AskedInv
<1>5. CASE StartInstall \/ StartRemove \/ Check \/ BackUp \/ Place \/ Discard \/ UndoNew \/ Undo \/ Report
  <2>1. wpc \notin AskPhases /\ UNCHANGED waitVars
    BY <1>5 DEF StartInstall, StartRemove, Start, Check, BackUp, Place, Discard, UndoNew, Undo, Report, AskPhases
  <2>2. ~asked'
    BY <2>1 DEF waitVars, QueueInv
  <2> QED
    BY <2>2 DEF QueueInv, AskedInv
<1> QED
  BY <1>1, <1>2, <1>3, <1>4, <1>5 DEF Next, Worker

-----------------------------------------------------------------------------
(* Packages that LoadMods rejects.                                         *)

LEMMA SoundKept ==
  ASSUME SoundInv, UNCHANGED <<disk, broken, placed, op>>,
         \A f \in Folder : <<f, backup'[f]>> \notin broken,
         (\A f \in Folder : ~New(f)) \/ (wpc \in Undoable => wpc' \in Undoable),
         wpc' = "verify" => (wpc = "verify" /\ reply' = reply) \/ reply' = "none"
  PROVE  SoundInv'
<1>1. \A f \in Folder : New(f)' = New(f) /\ Rejected(f)' = Rejected(f)
  BY DEF New, Rejected
<1> QED
  BY <1>1 DEF SoundInv

LEMMA AbsentIsSound == ASSUME TypeInv PROVE \A f \in Folder : <<f, Absent>> \notin broken /\ <<f, Remains>> \notin broken
  BY Values DEF TypeInv, TypeOK, RuntimeTypeOK

LEMMA SoundInit == ASSUME Init PROVE SoundInv
<1>1. broken = {}
  BY DEF Init, RuntimeInit
<1> QED
  BY <1>1 DEF SoundInv, Rejected

LEMMA SoundStart ==
  ASSUME TypeInv, JobInv, SoundInv, StartInstall \/ StartRemove PROVE SoundInv'
<1>1. /\ wpc = "idle" /\ wpc' = "capture" /\ op' = op + 1 /\ disk' = disk /\ op \in Int
      /\ backup' = [f \in Folder |-> Absent]
      /\ \A e \in broken' : e \in broken \/ e[2] = op + 1
      /\ broken' \subseteq Folder \X Version
  <2>1. /\ wpc = "idle" /\ wpc' = "capture" /\ op' = op + 1 /\ disk' = disk
        /\ backup' = [f \in Folder |-> Absent]
        /\ \A e \in broken' : e \in broken \/ e[2] = op + 1
    BY DEF StartInstall, StartRemove, Start
  <2>2. broken' \subseteq Folder \X Version
    BY StartInstallType, StartRemoveType DEF TypeInv, TypeOK, RuntimeTypeOK
  <2> QED
    BY <2>1, <2>2, FolderTypes
<1>2. \A e \in broken' : e[2] <= op'
  <2>1. \A e \in broken' : e[2] \in Int
    BY <1>1, Values
  <2> QED
    BY <1>1, <2>1 DEF SoundInv
<1>3. ASSUME NEW f \in Folder PROVE <<f, disk'[f]>> \notin broken'
  <2>1. <<f, disk[f]>> \notin broken /\ disk[f] <= op /\ disk[f] \in Int
    BY <1>1, FolderTypes, ContentFacts DEF SoundInv, Rejected, Undoable, Forward, Back, JobInv, Numbered
  <2> QED
    BY <1>1, <2>1
<1>4. \A f \in Folder : <<f, backup'[f]>> \notin broken'
  BY <1>1, Values
<1> QED
  BY <1>1, <1>2, <1>3, <1>4 DEF SoundInv, Rejected

(* The folders change, and with them what may be rejected.                 *)
LEMMA SoundTake ==
  ASSUME TypeInv, JobInv, SoundInv, NEW f \in Folder, MoveToBackup(f), ~New(f), wpc \in Forward, wpc' = wpc,
         reply' = reply, UNCHANGED <<broken, placed, op>>
  PROVE  SoundInv'
<1>1. /\ disk'[f] = Absent /\ backup'[f] = disk[f]
      /\ \A g \in Folder : g # f => disk'[g] = disk[g] /\ backup'[g] = backup[g]
  BY FolderTypes DEF MoveToBackup
<1>2. \A g \in Folder : New(g)' = New(g) /\ (Rejected(g)' => Rejected(g))
  BY <1>1, AbsentIsSound DEF New, Rejected
<1>3. <<f, backup'[f]>> \notin broken
  BY <1>1 DEF SoundInv, Rejected
<1> QED
  BY <1>1, <1>2, <1>3 DEF SoundInv, Forward

LEMMA SoundBackUp ==
  ASSUME TypeInv, QueueInv, JobInv, SoundInv, BackUp PROVE SoundInv'
<1>1. PICK left \in SUBSET Folder, next \in {"backupRepl", "verify", "place"} :
        /\ MoveOut(left, next)
        /\ wpc \in {"backupOld", "backupRepl"}
        /\ \A f \in left : SlotOf(f) = idx
  BY FolderTypes DEF BackUp, InSlot
<1>2. UNCHANGED <<broken, placed, op>> /\ reply' = reply
  BY DEF BackUp, opVars, waitVars
<1>3. wpc \in Forward /\ wpc \in Undoable /\ (~Installs => \A f \in Folder : ~New(f))
  BY <1>1, ForwardFacts DEF Forward, Undoable, New
<1>4. reply = "none"
  BY <1>1 DEF QueueInv, AskPhases
<1>5. CASE UNCHANGED <<disk, backup, moved>> /\ wpc' \in {next, IF Installs THEN "undoNew" ELSE "restoreOnly"}
  <2>1. wpc' \in Undoable \/ ~Installs
    BY <1>5 DEF Undoable, Forward, Back
  <2> QED
    BY <1>2, <1>3, <1>4, <1>5, <2>1, SoundKept DEF SoundInv
<1>6. ASSUME NEW f \in left, MoveToBackup(f), wpc' = wpc PROVE SoundInv'
  BY <1>1, <1>2, <1>3, <1>6, ForwardFacts, SoundTake
<1> QED
  BY <1>1, <1>5, <1>6, MoveOutFacts

LEMMA SoundPlace ==
  ASSUME TypeInv, QueueInv, JobInv, SoundInv, Place PROVE SoundInv'
<1>0. PICK d : d = Dest(idx)
  OBVIOUS
<1>1. /\ wpc = "place" /\ wpc' \in {"verify", "backupOld", "undoNew"}
      /\ UNCHANGED <<broken, backup, op>> /\ reply' = reply
      /\ \/ UNCHANGED <<disk, placed>>
         \/ disk' = [disk EXCEPT ![d] = op] /\ placed' = placed \cup {idx}
  BY <1>0 DEF Place, GoTo, opVars, waitVars
<1>2. reply = "none" /\ wpc' \in Undoable
  BY <1>1 DEF QueueInv, AskPhases, Undoable, Forward, Back
<1>3. ASSUME NEW f \in Folder, Rejected(f)' PROVE New(f)'
  <2>1. CASE f = d /\ placed' = placed \cup {idx}
    BY <1>0, <2>1 DEF New
  <2>2. CASE ~(f = d /\ placed' = placed \cup {idx})
    <3>1. disk'[f] = disk[f]
      BY <1>1, <2>2, FolderTypes
    <3> QED
      BY <1>1, <1>3, <3>1 DEF SoundInv, Rejected, New
  <2> QED
    BY <2>1, <2>2
<1> QED
  BY <1>1, <1>2, <1>3 DEF SoundInv

LEMMA SoundUndoNew ==
  ASSUME TypeInv, QueueInv, JobInv, SoundInv, UndoNew PROVE SoundInv'
<1>0. PICK d : d = Dest(idx)
  OBVIOUS
<1>1. /\ wpc = "undoNew" /\ wpc' = "undoOld" /\ UNCHANGED <<broken, backup, op>>
      /\ placed' = placed \ {idx} /\ placed \subseteq Slots
      /\ \/ idx \notin placed /\ UNCHANGED disk
         \/ idx \in placed /\ disk' = [disk EXCEPT ![d] = Absent]
         \/ idx \in placed /\ disk' = [disk EXCEPT ![d] = Remains]
  BY <1>0, FolderTypes DEF UndoNew, GoTo, opVars
<1>2. ASSUME NEW f \in Folder, Rejected(f)' PROVE New(f)'
  <2>1. disk'[f] = disk[f]
    BY <1>1, <1>2, FolderTypes, AbsentIsSound DEF Rejected
  <2>2. New(f) /\ (idx \in placed => f # d)
    BY <1>1, <1>2, <2>1, FolderTypes, AbsentIsSound DEF SoundInv, Rejected
  <2>3. PICK s \in placed : f = Dest(s)
    BY <2>2 DEF New
  <2>4. s # idx
    BY <1>0, <2>2, <2>3
  <2> QED
    BY <1>1, <2>3, <2>4 DEF New
<1> QED
  BY <1>1, <1>2 DEF SoundInv, Undoable, Back

(* At the end of a rollback nothing that it placed is left.                *)
LEMMA RolledBackClean ==
  ASSUME TypeInv, JobInv, wpc \in {"undoOld", "undoRepl"}, (wpc = "undoRepl" => idx = 1),
         wpc = "undoOld" => ~Installs
  PROVE  placed = {}
<1>1. placed \subseteq 1 .. idx - 1 /\ (~Installs => placed = {})
  BY DEF JobInv, Progress, Back
<1>2. CASE idx = 1
  BY <1>1, <1>2
<1> QED
  BY <1>1, <1>2

LEMMA SoundUndo ==
  ASSUME TypeInv, QueueInv, JobInv, SoundInv, Undo PROVE SoundInv'
<1>1. /\ wpc \in {"undoOld", "undoRepl"} /\ wpc \in Undoable /\ UNCHANGED <<broken, placed, op>>
      /\ wpc' # "verify"
  BY DEF Undo, Undoable, Back, opVars, GoTo, Rolled, EndPreserving
<1>2. ASSUME NEW f \in moved, PutBack(f), wpc' = wpc PROVE SoundInv'
  <2>1. f \in Folder
    BY FolderTypes
  <2>2. CASE UNCHANGED <<disk, backup>>
    BY <1>1, <1>2, <2>2, SoundKept DEF SoundInv
  <2>3. CASE disk' = [disk EXCEPT ![f] = backup[f]] /\ backup' = [backup EXCEPT ![f] = Absent]
    <3>1. /\ disk'[f] = backup[f] /\ backup'[f] = Absent
          /\ \A g \in Folder : g # f => disk'[g] = disk[g] /\ backup'[g] = backup[g]
      BY <2>1, <2>3, FolderTypes
    <3>2. \A g \in Folder : New(g)' = New(g) /\ (Rejected(g)' => Rejected(g))
      BY <1>1, <3>1 DEF New, Rejected, SoundInv
    <3>3. \A g \in Folder : <<g, backup'[g]>> \notin broken
      BY <3>1, AbsentIsSound DEF SoundInv
    <3> QED
      BY <1>1, <1>2, <3>2, <3>3 DEF SoundInv
  <2> QED
    BY <1>2, <2>2, <2>3 DEF PutBack
<1>3. ASSUME UNCHANGED <<disk, backup>>, wpc' \in Undoable \/ placed = {} PROVE SoundInv'
  BY <1>1, <1>3, SoundKept DEF SoundInv, New
<1>4. \/ \E f \in moved : PutBack(f) /\ wpc' = wpc
      \/ UNCHANGED <<disk, backup>> /\ wpc' \in {"undoRepl", "undoNew"}
      \/ UNCHANGED <<disk, backup>> /\ (wpc = "undoRepl" => idx = 1) /\ (wpc = "undoOld" => ~Installs)
  BY DEF Undo, GoTo, FirstPlan
<1> QED
  BY <1>1, <1>2, <1>3, <1>4, RolledBackClean DEF Undoable, Back

(* The task that the main thread runs, and what its answer says.           *)
Reloads(t) == t.kind \in {"verify", "verifyRemoval", "restore"}

LEMMA ReloadFacts ==
  ASSUME TypeInv, RunTask
  PROVE  \E t \in Task :
           /\ queue # <<>> /\ t = Head(queue) /\ queue' = Tail(queue) /\ t = queue[1] /\ 1 \in DOMAIN queue
           /\ \/ t.kind = "capture" /\ UNCHANGED mods
              \/ t.kind = "unload" /\ UnloadForMutation(t.roots) /\ (t.awaited => reply' = "yes")
              \/ t.kind = "unload" /\ UnloadForMutationFails(t.roots)
              \/ Reloads(t) /\ Reload(t.states)
              \/ Reloads(t) /\ ReloadGivesUp /\ gaveUp'
           /\ t.kind = "verify" /\ t.awaited /\ reply' = "yes" => \A f \in t.roots : f \in DOMAIN mods'
           /\ ~t.awaited => reply' = reply
<1> DEFINE t == Head(queue)
           loaded == \A f \in t.roots : f \in DOMAIN mods'
           gone   == t.roots \cap DOMAIN mods' = {}
<1>1. queue # <<>> /\ queue' = Tail(queue) /\ t \in Task /\ t = queue[1] /\ 1 \in DOMAIN queue
  BY HeadFacts DEF RunTask, TypeInv
<1>2. t.kind \in {"capture", "unload", "verify", "verifyRemoval", "restore"}
  BY <1>1 DEF Task
<1>3. \/ /\ t.kind = "capture" /\ Capture(t) /\ NoFault
         /\ UNCHANGED <<runtimeVars, gaveUp>>
      \/ /\ t.kind = "unload" /\ UnloadForMutation(t.roots) /\ Tell(t, "yes") /\ NoFault
         /\ UNCHANGED <<captured, plan, gaveUp>>
      \/ /\ t.kind = "unload" /\ UnloadForMutationFails(t.roots) /\ Tell(t, "no") /\ Fault
         /\ UNCHANGED <<captured, plan, gaveUp>>
      \/ /\ t.kind # "capture" /\ t.kind # "unload"
         /\ \/ Reload(t.states) /\ NoFault /\ UNCHANGED gaveUp
            \/ ReloadGivesUp /\ Fault /\ gaveUp' = TRUE
         /\ Tell(t, CASE t.kind = "verify"        -> IF loaded THEN "yes" ELSE "no"
                      [] t.kind = "verifyRemoval" -> IF gone THEN "yes" ELSE "no"
                      [] OTHER                    -> "yes")
         /\ UNCHANGED <<captured, plan>>
  BY DEF RunTask
<1>4. t.kind = "verify" /\ t.awaited /\ reply' = "yes" => loaded
  <2> HIDE DEF t, loaded, gone
  <2> QED
    BY <1>3 DEF Tell
<1> HIDE DEF t, gone
<1>5. \/ t.kind = "capture" /\ UNCHANGED mods
      \/ t.kind = "unload" /\ UnloadForMutation(t.roots) /\ (t.awaited => reply' = "yes")
      \/ t.kind = "unload" /\ UnloadForMutationFails(t.roots)
      \/ Reloads(t) /\ Reload(t.states)
      \/ Reloads(t) /\ ReloadGivesUp /\ gaveUp'
  BY <1>2, <1>3 DEF Tell, Reloads, runtimeVars
<1>6. ~t.awaited => reply' = reply
  BY <1>2, <1>3 DEF Tell, Capture
<1> QED
  BY <1>1, <1>4, <1>5, <1>6 DEF t

(* No task but an awaited one changes the answer, and none precedes it.    *)
LEMMA AnswerIsOwn ==
  ASSUME TypeInv, QueueInv, AskedInv, RunTask, reply' # "none", NEW t, t = queue[1], 1 \in DOMAIN queue,
         ~t.awaited => reply' = reply
  PROVE  t = TaskFor /\ t.awaited /\ asked /\ wpc \in AskPhases
<1>1. reply = "none"
  <2>1. queue # <<>>
    BY DEF RunTask
  <2> QED
    BY <2>1 DEF QueueInv
<1> QED
  BY <1>1 DEF QueueInv, AskedInv

LEMMA SoundRunTask ==
  ASSUME TypeInv, QueueInv, AskedInv, JobInv, SoundInv, RunTask PROVE SoundInv'
<1>1. PICK t \in Task :
        /\ queue # <<>> /\ t = Head(queue) /\ queue' = Tail(queue) /\ t = queue[1] /\ 1 \in DOMAIN queue
        /\ \/ t.kind = "capture" /\ UNCHANGED mods
           \/ t.kind = "unload" /\ UnloadForMutation(t.roots) /\ (t.awaited => reply' = "yes")
           \/ t.kind = "unload" /\ UnloadForMutationFails(t.roots)
           \/ Reloads(t) /\ Reload(t.states)
           \/ Reloads(t) /\ ReloadGivesUp /\ gaveUp'
        /\ t.kind = "verify" /\ t.awaited /\ reply' = "yes" => \A f \in t.roots : f \in DOMAIN mods'
        /\ ~t.awaited => reply' = reply
  BY ReloadFacts
<1>2. UNCHANGED <<disk, broken, backup, placed, op, wpc>>
  BY RunTaskFacts
<1>3. \A f \in Folder : New(f)' = New(f) /\ Rejected(f)' = Rejected(f)
  BY <1>2 DEF New, Rejected
<1>4. ASSUME wpc = "verify", reply' = "yes", NEW f \in Folder, Rejected(f) PROVE FALSE
  <2>1. t.awaited /\ t.kind = TaskFor.kind /\ t.roots = TaskFor.roots
    BY <1>1, <1>4, AnswerIsOwn
  <2>2. PICK s \in placed : f = Dest(s)
    BY <1>4 DEF SoundInv, New
  <2>3. Installs /\ placed \subseteq 1 .. plan.n
    BY <1>4, <2>2 DEF JobInv, Progress
  <2>4. t.kind = "verify" /\ f \in t.roots
    BY <1>4, <2>1, <2>2, <2>3 DEF TaskFor
  <2>5. f \in DOMAIN mods'
    BY <1>1, <1>4, <2>1, <2>4
  <2>6. Reload(t.states) \/ ReloadGivesUp
    BY <1>1, <2>4
  <2>7. CASE Reload(t.states)
    BY <1>2, <1>4, <2>5, <2>7 DEF Reload, Discover, Rejected
  <2>8. CASE ReloadGivesUp
    BY <2>5, <2>8 DEF ReloadGivesUp, Nothing
  <2> QED
    BY <2>6, <2>7, <2>8
<1> QED
  BY <1>2, <1>3, <1>4 DEF SoundInv

LEMMA SoundStep ==
  ASSUME TypeInv, QueueInv, AskedInv, JobInv, SoundInv, [Next]_vars PROVE SoundInv'
<1>1. CASE Captured \/ Check \/ Unloaded \/ Restored \/ Report
  <2>1. /\ wpc \notin Undoable /\ wpc' # "verify" /\ UNCHANGED <<disk, broken, placed, op>>
        /\ backup' = backup \/ backup' = [f \in Folder |-> Absent]
    BY <1>1 DEF Captured, Check, Unloaded, Restored, Report, Undoable, Forward, Back, GoTo, End, EndPreserving,
                jobVars, opVars
  <2>2. \A f \in Folder : <<f, backup'[f]>> \notin broken
    BY <2>1, AbsentIsSound DEF SoundInv
  <2> QED
    BY <2>1, <2>2, SoundKept
<1>2. CASE Ask \/ Toggle \/ ReloadMods \/ Cancel \/ UNCHANGED vars
  <2>1. UNCHANGED <<disk, broken, backup, placed, op, wpc>> /\ (reply' = reply \/ reply' = "none")
    BY <1>2 DEF Ask, Toggle, ReloadMods, Cancel, vars, jobVars, opVars, waitVars
  <2> QED
    BY <2>1, SoundKept DEF SoundInv
<1>3. CASE Verified
  <2>1. /\ wpc = "verify" /\ wpc' \in {"cleanup", "undoNew", "undoOld"}
        /\ UNCHANGED <<disk, broken, backup, placed, op>>
        /\ wpc' = "cleanup" => reply = "yes"
    BY <1>3 DEF Verified, Answered, GoTo, jobVars, opVars
  <2>2. CASE wpc' = "cleanup"
    BY <2>1, <2>2 DEF SoundInv, Rejected
  <2>3. CASE wpc' # "cleanup"
    BY <2>1, <2>3, SoundKept DEF SoundInv, Undoable, Back
  <2> QED
    BY <2>2, <2>3
<1>4. CASE Discard
  <2>1. /\ wpc = "cleanup" /\ wpc' # "verify" /\ UNCHANGED <<disk, broken, placed, op>>
        /\ backup' = backup \/ \E f \in moved : backup' = [backup EXCEPT ![f] = Absent]
    BY <1>4 DEF Discard, GoTo, End, opVars
  <2>2. \A f \in Folder : backup'[f] = backup[f] \/ backup'[f] = Absent
    BY <2>1, FolderTypes
  <2>3. \A f \in Folder : <<f, backup'[f]>> \notin broken
    BY <2>2, AbsentIsSound DEF SoundInv
  <2> QED
    BY <2>1, <2>3, SoundKept DEF Undoable, Forward, Back
<1> QED
  BY <1>1, <1>2, <1>3, <1>4, SoundStart, SoundBackUp, SoundPlace, SoundUndoNew, SoundUndo, SoundRunTask
     DEF Next, Worker

-----------------------------------------------------------------------------
(* The mods in memory.                                                     *)

LEMMA DiscoverMatches ==
  ASSUME NEW c, NEW states, \A f \in Folder : ~Rejected(f), mods' = Discover(c, states), disk' = disk
  PROVE  MatchesDisk'
<1> DEFINE found    == {f \in Folder : Present(f) /\ <<f, disk[f]>> \notin broken}
           wants(f) == IF SlotOf(f) \in DOMAIN states THEN states[SlotOf(f)]
                       ELSE <<f, disk[f]>> \in DOMAIN c => c[<<f, disk[f]>>]
           rival(f) == \E g \in found \ {f} : SlotOf(g) = SlotOf(f) /\ wants(g)
           on(f)    == wants(f) /\ ~rival(f)
<1>1. mods' = [f \in found |-> [version |-> disk[f], on |-> on(f)]]
  BY DEF Discover
<1> HIDE DEF on
<1>2. found = {f \in Folder : Present(f)} /\ \A f \in Folder : Present(f)' = Present(f)
  BY DEF Rejected, Present
<1>3. DOMAIN mods' = {f \in Folder : Present(f)} /\ \A f \in DOMAIN mods' : mods'[f].version = disk[f]
  BY <1>1, <1>2
<1> QED
  BY <1>2, <1>3 DEF MatchesDisk

LEMMA MatchesKept == ASSUME MatchesDisk, UNCHANGED <<mods, disk>> PROVE MatchesDisk'
  BY DEF MatchesDisk, Present

LEMMA CalmBefore == ASSUME [Next]_vars, Calm' PROVE Calm
<1>1. timedOut \subseteq timedOut'
  BY DEF Next, Worker, StartInstall, StartRemove, Start, Ask, Captured, Check, Unloaded, BackUp, Place, Verified,
         Discard, UndoNew, Undo, Restored, Report, RunTask, Toggle, ReloadMods, Cancel, Answered, historyVars, vars
<1>2. gaveUp => gaveUp'
  BY DEF Next, Worker, StartInstall, StartRemove, Start, Ask, Captured, Check, Unloaded, BackUp, Place, Verified,
         Discard, UndoNew, Undo, Restored, Report, RunTask, Toggle, ReloadMods, Cancel, historyVars, vars
<1>3. partial => partial'
  BY DEF Next, Worker, StartInstall, StartRemove, Start, Ask, Captured, Check, Unloaded, BackUp, Place, Verified,
         Discard, UndoNew, Undo, Restored, Report, RunTask, Toggle, ReloadMods, Cancel, historyVars, vars, Rolled
<1> QED
  BY <1>1, <1>2, <1>3 DEF Calm

LEMMA LoadedInit == ASSUME Init PROVE LoadedInv
<1>1. /\ queue = <<>> /\ DOMAIN queue = {} /\ disk \in [Folder -> {0, Absent}]
      /\ mods \in [{f \in Folder : Present(f)} -> [version : {0}, on : BOOLEAN]]
  BY DEF Init, RuntimeInit
<1>2. MatchesDisk
  BY <1>1, Values DEF MatchesDisk, Present
<1> QED
  BY <1>1, <1>2 DEF LoadedInv, Unloads

(* An answer does not change what is queued, and what is loaded.           *)
LEMMA AnswerKeeps ==
  ASSUME TypeInv, NEW answer, Answered(answer)
  PROVE  /\ Pending => Pending'
         /\ \A i \in DOMAIN queue' : i \in DOMAIN queue /\ queue'[i].kind = queue[i].kind
<1>1. CASE UNCHANGED queue
  BY <1>1 DEF Pending
<1>2. CASE queue' = [i \in DOMAIN queue |-> [queue[i] EXCEPT !.awaited = FALSE]]
  <2>1. DOMAIN queue' = DOMAIN queue
    BY <1>2
  <2>2. ASSUME NEW i \in DOMAIN queue PROVE queue'[i].kind = queue[i].kind
    <3>1. queue[i] \in Task
      BY QueueElements DEF TypeInv
    <3>2. queue'[i] = [queue[i] EXCEPT !.awaited = FALSE]
      BY <1>2
    <3> QED
      BY <3>1, <3>2 DEF Task
  <2> QED
    BY <2>1, <2>2 DEF Pending
<1> QED
  BY <1>1, <1>2 DEF Answered

(* A step of the worker that loads nothing: it is in sync after it only if *)
(* it was before, and then it has left the folders alone.                  *)
LEMMA WorkerLoaded ==
  ASSUME LoadedInv, Calm, UNCHANGED mods, InSync' => InSync /\ disk' = disk,
         Pending => Pending', Unloads => Unloads'
  PROVE  LoadedInv'
  BY MatchesKept DEF LoadedInv

LEMMA LoadedAnswer ==
  ASSUME TypeInv, QueueInv, LoadedInv, Calm, Calm', Captured \/ Unloaded \/ Verified \/ Restored PROVE LoadedInv'
<1>1. PICK answer \in {"yes", "no"} : Answered(answer)
  BY DEF Captured, Unloaded, Verified, Restored
<1>2. /\ Pending => Pending'
      /\ \A i \in DOMAIN queue' : i \in DOMAIN queue /\ queue'[i].kind = queue[i].kind
  BY <1>1, AnswerKeeps
<1>3. UNCHANGED <<mods, disk>>
  BY DEF Captured, Unloaded, Verified, Restored, runtimeVars
<1>4. wpc' # "unload" /\ ~asked' /\ reply' = "none" /\ asked
  BY DEF Captured, Unloaded, Verified, Restored, Answered, GoTo, End, EndPreserving
<1>5. Unloads => Unloads'
  <2>1. ASSUME Unloads, wpc = "unload" PROVE DOMAIN queue' = {}
    <3>1. reply # "none" /\ queue' = queue
      BY <1>1, <2>1 DEF Answered, Calm
    <3>2. queue' = <<>>
      BY <1>4, <3>1 DEF QueueInv
    <3> QED
      BY <3>2
  <2>2. ASSUME Unloads, wpc # "unload" PROVE \A i \in DOMAIN queue' : queue'[i].kind # "unload"
    BY <1>2, <2>2 DEF Unloads
  <2> QED
    BY <2>1, <2>2 DEF Unloads
<1>6. InSync' => InSync
  <2>1. CASE Captured
    BY <2>1 DEF Captured, InSync
  <2>2. CASE Unloaded
    BY <1>4, <2>2 DEF Unloaded, InSync, Answered, GoTo
  <2>3. CASE Verified
    BY <1>4, <2>3 DEF Verified, InSync, Answered, GoTo
  <2>4. CASE Restored
    BY <1>4, <2>4 DEF Restored, InSync
  <2> QED
    BY <2>1, <2>2, <2>3, <2>4
<1> QED
  BY <1>2, <1>3, <1>5, <1>6, WorkerLoaded

LEMMA LoadedAsk ==
  ASSUME TypeInv, QueueInv, LoadedInv, Calm, Ask PROVE LoadedInv'
<1>1. /\ UNCHANGED <<mods, disk, wpc>> /\ wpc \in AskPhases /\ ~asked /\ asked' /\ reply' = "none" /\ reply = "none"
  BY DEF Ask, runtimeVars, QueueInv
<1>2. /\ \A i \in DOMAIN queue : i \in DOMAIN queue' /\ queue'[i] = queue[i]
      /\ \A i \in DOMAIN queue' : i \in DOMAIN queue \/ queue'[i] = TaskFor
      /\ \E i \in DOMAIN queue' : queue'[i] = TaskFor
  BY AppendElements
<1>3. Pending => Pending'
  BY <1>2 DEF Pending
<1>4. Unloads => Unloads'
  <2>1. TaskFor.kind = "unload" => wpc = "unload" /\ TaskFor.awaited
    BY DEF TaskFor
  <2> QED
    BY <1>1, <1>2, <2>1 DEF Unloads
<1>5. CASE wpc \in {"restore", "restoreOnly"}
  <2>1. TaskFor.kind = "restore"
    BY <1>5 DEF TaskFor
  <2>2. Pending'
    BY <1>2, <2>1 DEF Pending
  <2> QED
    BY <1>4, <2>2 DEF LoadedInv, Calm
<1>6. CASE wpc \notin {"restore", "restoreOnly"}
  <2>1. InSync' => InSync
    BY <1>1, <1>6 DEF InSync
  <2> QED
    BY <1>1, <1>3, <1>4, <2>1, WorkerLoaded
<1> QED
  BY <1>5, <1>6

LEMMA LoadedQuiet ==
  ASSUME TypeInv, QueueInv, LoadedInv, Calm, Calm',
         StartInstall \/ StartRemove \/ Check \/ BackUp \/ Place \/ Discard \/ UndoNew \/ Undo \/ Report
  PROVE  LoadedInv'
<1>1. /\ UNCHANGED mods /\ UNCHANGED <<queue, asked, reply>> /\ wpc \notin AskPhases
  BY DEF StartInstall, StartRemove, Start, Check, BackUp, Place, Discard, UndoNew, Undo, Report, AskPhases,
         waitVars, runtimeVars
<1>2. ~asked /\ reply = "none"
  BY <1>1 DEF QueueInv
<1>3. (Pending => Pending') /\ (Unloads => Unloads')
  <2>1. Unloads => \A i \in DOMAIN queue : queue[i].kind # "unload"
    BY <1>1 DEF Unloads, AskPhases
  <2> QED
    BY <1>1, <2>1 DEF Pending, Unloads
<1>4. CASE StartInstall \/ StartRemove \/ Check \/ Discard \/ Report
  <2>1. InSync /\ disk' = disk
    BY <1>4 DEF StartInstall, StartRemove, Start, Check, Discard, Report, InSync
  <2> QED
    BY <1>1, <1>3, <2>1, WorkerLoaded
<1>5. CASE BackUp \/ Place \/ UndoNew
  <2>1. wpc' \in {"backupOld", "backupRepl", "place", "verify", "undoNew", "undoOld", "restoreOnly"}
    BY <1>5 DEF BackUp, MoveOut, Place, UndoNew, GoTo
  <2>2. ~InSync'
    BY <1>1, <1>2, <2>1 DEF InSync
  <2> QED
    BY <1>1, <1>3, <2>2, WorkerLoaded
<1>6. CASE Undo
  <2>1. wpc' \in {"undoOld", "undoRepl", "undoNew", "restore"} \/ partial'
    BY <1>6 DEF Undo, GoTo, Rolled, EndPreserving
  <2>2. ~InSync'
    BY <1>1, <1>2, <2>1 DEF InSync, Calm
  <2> QED
    BY <1>1, <1>3, <2>2, WorkerLoaded
<1> QED
  BY <1>4, <1>5, <1>6

LEMMA LoadedRunTask ==
  ASSUME TypeInv, QueueInv, AskedInv, SoundInv, SoundInv', LoadedInv, Calm, Calm', RunTask PROVE LoadedInv'
<1>1. PICK t \in Task :
        /\ queue # <<>> /\ t = Head(queue) /\ queue' = Tail(queue) /\ t = queue[1] /\ 1 \in DOMAIN queue
        /\ \/ t.kind = "capture" /\ UNCHANGED mods
           \/ t.kind = "unload" /\ UnloadForMutation(t.roots) /\ (t.awaited => reply' = "yes")
           \/ t.kind = "unload" /\ UnloadForMutationFails(t.roots)
           \/ Reloads(t) /\ Reload(t.states)
           \/ Reloads(t) /\ ReloadGivesUp /\ gaveUp'
        /\ t.kind = "verify" /\ t.awaited /\ reply' = "yes" => \A f \in t.roots : f \in DOMAIN mods'
        /\ ~t.awaited => reply' = reply
  BY ReloadFacts
<1>2. UNCHANGED <<disk, broken, wpc, asked>>
  BY RunTaskFacts
<1>3. \A i \in DOMAIN queue' : i + 1 \in DOMAIN queue /\ queue'[i] = queue[i + 1]
  BY TailElements
<1>4. Unloads'
  BY <1>2, <1>3 DEF LoadedInv, Unloads
<1>5. reply = "none"
  BY <1>1 DEF QueueInv
<1>6. reply' # "none" => /\ t.awaited /\ asked /\ t.kind = TaskFor.kind /\ wpc \in AskPhases
  BY <1>1, AnswerIsOwn
<1>7. ASSUME InSync' PROVE \A f \in Folder : ~Rejected(f)
  <2>1. \A f \in Folder : Rejected(f)' = Rejected(f)
    BY <1>2 DEF Rejected
  <2>2. wpc \notin Undoable \/ (wpc = "verify" /\ reply' = "yes")
    BY <1>2, <1>7 DEF InSync, Undoable, Forward, Back
  <2> QED
    BY <1>2, <2>1, <2>2 DEF SoundInv
<1>8. CASE t.kind = "capture"
  <2>1. Pending => Pending'
    <3>1. ASSUME NEW i \in DOMAIN queue, queue[i].kind \notin {"capture", "unload"} PROVE Pending'
      <4>1. i # 1
        BY <1>1, <1>8, <3>1
      <4>2. i - 1 \in DOMAIN queue' /\ queue'[i - 1] = queue[i]
        <5>1. /\ queue \in Seq(Task) /\ Len(queue) \in Nat /\ DOMAIN queue = 1 .. Len(queue)
              /\ Len(queue') = Len(queue) - 1 /\ queue' \in Seq(Task) /\ DOMAIN queue' = 1 .. Len(queue')
          BY <1>1, HeadTailProperties, LenProperties DEF TypeInv
        <5>2. i - 1 \in DOMAIN queue' /\ (i - 1) + 1 = i
          BY <4>1, <5>1
        <5> QED
          BY <1>3, <5>2
      <4> QED
        BY <3>1, <4>2 DEF Pending
    <3> QED
      BY <3>1 DEF Pending
  <2>2. InSync' => InSync
    <3>1. reply' # "none" => wpc = "capture"
      BY <1>6, <1>8 DEF TaskFor, AskPhases
    <3> QED
      BY <1>2, <1>5, <3>1 DEF InSync
  <2>3. UNCHANGED mods
    BY <1>1, <1>8 DEF Reloads
  <2> QED
    BY <1>2, <1>4, <2>1, <2>2, <2>3, WorkerLoaded
<1>9. CASE t.kind = "unload"
  <2>1. wpc = "unload" /\ t.awaited
    BY <1>1, <1>9 DEF LoadedInv, Unloads
  <2>2. CASE UnloadForMutation(t.roots) /\ (t.awaited => reply' = "yes")
    <3>1. ~InSync'
      BY <1>2, <2>1, <2>2 DEF InSync
    <3> QED
      BY <1>4, <3>1 DEF LoadedInv
  <2>3. CASE UnloadForMutationFails(t.roots)
    <3>1. InSync' => MatchesDisk'
      BY <1>2, <1>7, <2>3, DiscoverMatches DEF UnloadForMutationFails
    <3> QED
      BY <1>4, <3>1 DEF LoadedInv
  <2> QED
    BY <1>1, <1>9, <2>2, <2>3 DEF Reloads
<1>10. CASE Reloads(t) /\ Reload(t.states)
  <2>1. InSync' => MatchesDisk'
    BY <1>2, <1>7, <1>10, DiscoverMatches DEF Reload
  <2> QED
    BY <1>4, <2>1 DEF LoadedInv
<1>11. ~gaveUp'
  BY DEF Calm
<1> QED
  BY <1>1, <1>8, <1>9, <1>10, <1>11

LEMMA LoadedUser ==
  ASSUME TypeInv, SoundInv, LoadedInv, Calm, Calm', Toggle \/ ReloadMods \/ Cancel PROVE LoadedInv'
<1>1. UNCHANGED <<disk, wpc, queue, asked, reply>>
  BY DEF Toggle, ReloadMods, Cancel, waitVars
<1>2. (Unloads => Unloads') /\ (Pending => Pending') /\ (InSync' => InSync)
  BY <1>1 DEF Unloads, Pending, InSync
<1>3. CASE Toggle
  <2>1. PICK f \in DOMAIN mods : mods' = [mods EXCEPT ![f].on = ~mods[f].on]
    BY <1>3 DEF Toggle, SetModEnabled
  <2>2. /\ DOMAIN mods' = DOMAIN mods
        /\ \A g \in DOMAIN mods : mods'[g].version = mods[g].version
    BY <2>1 DEF TypeInv, TypeOK, RuntimeTypeOK, Mod
  <2>3. MatchesDisk => MatchesDisk'
    BY <1>1, <2>2 DEF MatchesDisk, Present
  <2> QED
    BY <1>2, <2>3 DEF LoadedInv
<1>4. CASE ReloadMods
  <2>1. LoadMods
    BY <1>4 DEF ReloadMods, Calm
  <2>2. ASSUME InSync PROVE \A f \in Folder : ~Rejected(f)
    BY <2>2 DEF InSync, SoundInv, Undoable, Forward, Back
  <2>3. InSync' => MatchesDisk'
    BY <1>1, <1>2, <2>1, <2>2, DiscoverMatches DEF LoadMods
  <2> QED
    BY <1>2, <2>3 DEF LoadedInv
<1>5. CASE Cancel
  <2>1. UNCHANGED mods
    BY <1>5 DEF Cancel, runtimeVars
  <2> QED
    BY <1>1, <1>2, <2>1, MatchesKept DEF LoadedInv
<1> QED
  BY <1>3, <1>4, <1>5

LEMMA LoadedStep ==
  ASSUME IInv, AskedInv, SoundInv, SoundInv', LoadedInv, [Next]_vars PROVE LoadedInv'
<1> SUFFICES ASSUME Calm' PROVE LoadedInv'
  BY DEF LoadedInv
<1>1. Calm /\ TypeInv /\ QueueInv
  BY CalmBefore DEF IInv
<1>2. CASE UNCHANGED vars
  <2>1. UNCHANGED <<disk, mods, wpc, queue, asked, reply>>
    BY <1>2 DEF vars, runtimeVars, waitVars
  <2>2. (Unloads => Unloads') /\ (Pending => Pending') /\ (InSync' => InSync)
    BY <2>1 DEF Unloads, Pending, InSync
  <2> QED
    BY <1>1, <2>1, <2>2, MatchesKept DEF LoadedInv
<1> QED
  BY <1>1, <1>2, LoadedAnswer, LoadedAsk, LoadedQuiet, LoadedRunTask, LoadedUser DEF Next, Worker

(* With no operation under way and the task queue drained, the mods in     *)
(* memory are those on disk, however many waits timed out: a reload that   *)
(* outlived its wait comes after the last rename (CommitPlans,             *)
(* ReloadAndVerify, ReloadAfterRollback, CFrameTask::RunFrame).            *)
THEOREM LoadedIsDisk == Spec => []LoadedMatchesDisk
<1> DEFINE LInv == IInv /\ AskedInv /\ SoundInv /\ LoadedInv
<1>1. Init => LInv
  BY InitType, InitQueue, JobInit, NoneAwaited, SoundInit, LoadedInit DEF IInv, Init
<1>2. LInv /\ [Next]_vars => LInv'
  BY TypeStep, QueueStep, JobStep, AskedStep, SoundStep, LoadedStep DEF IInv
<1>3. LInv => LoadedMatchesDisk
  <2>1. ASSUME LInv, Settled, Calm PROVE MatchesDisk
    <3>1. InSync /\ DOMAIN queue = {}
      BY <2>1 DEF Settled, InSync
    <3> QED
      BY <2>1, <3>1 DEF LoadedInv, Pending
  <2> QED
    BY <2>1 DEF LoadedMatchesDisk
<1> QED
  BY <1>1, <1>2, <1>3, PTL DEF Spec
-----------------------------------------------------------------------------
(* The wait for the main thread.                                           *)
WaitInv == asked /\ reply = "none" => \E i \in DOMAIN queue : queue[i].awaited

LEMMA WaitStep == ASSUME TypeInv, QueueInv, WaitInv, [Next]_vars PROVE WaitInv'
<1>1. CASE Ask
  <2>1. PICK i \in DOMAIN queue' : queue'[i] = TaskFor
    BY <1>1, AppendElements
  <2>2. TaskFor.awaited
    BY DEF TaskFor
  <2> QED
    BY <2>1, <2>2 DEF WaitInv
<1>2. CASE RunTask
  <2> SUFFICES ASSUME asked', reply' = "none" PROVE \E i \in DOMAIN queue' : queue'[i].awaited
    BY DEF WaitInv
  <2>1. PICK t \in Task :
          /\ queue # <<>> /\ t = Head(queue) /\ queue' = Tail(queue) /\ asked' = asked
          /\ t.awaited => reply' \in {"yes", "no"}
          /\ ~t.awaited => reply' = reply
    BY <1>2, RunTaskFacts
  <2>2. PICK i \in DOMAIN queue : queue[i].awaited
    BY <2>1 DEF WaitInv
  <2>3. /\ queue \in Seq(Task) /\ Len(queue) \in Nat /\ DOMAIN queue = 1 .. Len(queue) /\ t = queue[1]
        /\ queue' \in Seq(Task) /\ Len(queue') = Len(queue) - 1 /\ DOMAIN queue' = 1 .. Len(queue')
        /\ \A j \in 1 .. Len(queue') : queue'[j] = queue[j + 1]
    BY <2>1, HeadTailProperties, LenProperties DEF TypeInv
  <2>4. i # 1
    BY <2>1, <2>2, <2>3
  <2>5. i - 1 \in DOMAIN queue' /\ (i - 1) + 1 = i
    BY <2>2, <2>3, <2>4
  <2>6. queue'[i - 1] = queue[i]
    BY <2>3, <2>5
  <2> QED
    BY <2>2, <2>5, <2>6
<1>3. CASE Captured \/ Unloaded \/ Verified \/ Restored
  <2>1. ~asked'
    BY <1>3 DEF Captured, Unloaded, Verified, Restored, Answered
  <2> QED
    BY <2>1 DEF WaitInv
<1>4. CASE ~(Ask \/ RunTask \/ Captured \/ Unloaded \/ Verified \/ Restored)
  <2>1. UNCHANGED <<queue, asked, reply>>
    BY <1>4 DEF Next, Worker, StartInstall, StartRemove, Start, Check, BackUp, Place, Discard, UndoNew, Undo,
           Report, Toggle, ReloadMods, Cancel, vars, waitVars
  <2> QED
    BY <2>1 DEF WaitInv
<1> QED
  BY <1>1, <1>2, <1>3, <1>4

(* The worker never waits for an answer that nobody will give: the task it *)
(* waits for is the youngest in the queue of the main thread and the one   *)
(* its phase asks for, whatever earlier waits timed out                    *)
(* (RunOnMainThreadAndWait, CFrameTask::RunFrame).                         *)
THEOREM WaitsAreAnswered == Spec => []WaitHasItsTask
<1> DEFINE LInv == IInv /\ AskedInv /\ WaitInv
<1>1. Init => LInv
  BY InitType, InitQueue, JobInit, NoneAwaited DEF IInv, Init, WaitInv
<1>2. LInv /\ [Next]_vars => LInv'
  BY TypeStep, QueueStep, JobStep, AskedStep, WaitStep DEF IInv
<1>3. LInv => WaitHasItsTask
  <2>1. ASSUME LInv, asked, reply = "none" PROVE queue # <<>> /\ queue[Len(queue)] = TaskFor
    <3>1. PICK i \in DOMAIN queue : queue[i].awaited
      BY <2>1 DEF WaitInv
    <3>2. i = Len(queue) /\ queue[i] = TaskFor
      BY <2>1, <3>1 DEF IInv, QueueInv, AskedInv
    <3>3. queue # <<>>
      BY <3>1
    <3> QED
      BY <3>2, <3>3
  <2> QED
    BY <2>1 DEF WaitHasItsTask
<1> QED
  BY <1>1, <1>2, <1>3, PTL DEF Spec

-----------------------------------------------------------------------------
(* The user's choice (UserChoiceKept).  The unload of a package saves it   *)
(* as disabled, so until the mods are loaded again the choice is carried   *)
(* by captured, then by the states of the reload that is queued last.      *)

(* The history and the queue, phase by phase.                              *)
ModsOld(m)   == \A f \in DOMAIN m : m[f].version <= op
ConfigOld(c) == \A e \in DOMAIN c : e[2] <= op

ShapeInv ==
  /\ runtimeUnloaded => mods = Nothing
  /\ ModsOld(mods) /\ ConfigOld(config)
  /\ ~rollbackOk => wpc \in Back \/ partial
  /\ wpc \in {"check", "cleanup"} \/ outcome = "success" => queue = <<>>
  /\ wpc = "unload" => ~Pending
  /\ wpc = "capture" /\ reply # "yes" => captured = <<>>

LEMMA ExportOld ==
  ASSUME NEW m, ModsOld(m) PROVE ConfigOld(Export(m))
  BY DEF ModsOld, ConfigOld, Export, Entries, Entry

LEMMA DiscoverOld ==
  ASSUME NEW c, NEW states, \A f \in Folder : disk[f] <= op PROVE ModsOld(Discover(c, states))
<1> DEFINE found    == {f \in Folder : Present(f) /\ <<f, disk[f]>> \notin broken}
           wants(f) == IF SlotOf(f) \in DOMAIN states THEN states[SlotOf(f)]
                       ELSE <<f, disk[f]>> \in DOMAIN c => c[<<f, disk[f]>>]
           rival(f) == \E g \in found \ {f} : SlotOf(g) = SlotOf(f) /\ wants(g)
           on(f)    == wants(f) /\ ~rival(f)
<1>1. Discover(c, states) = [f \in found |-> [version |-> disk[f], on |-> on(f)]]
  BY DEF Discover
<1> HIDE DEF on
<1> QED
  BY <1>1 DEF ModsOld

LEMMA RuntimeOld ==
  ASSUME TypeInv, ShapeInv, RuntimeSteps, \A f \in Folder : disk[f] <= op, op' = op
  PROVE  /\ ModsOld(mods') /\ ConfigOld(config')
         /\ runtimeUnloaded' => mods' = Nothing
<1>1. ConfigOld(Saved) /\ ModsOld(Nothing)
  BY ExportOld DEF ShapeInv, Saved, ModsOld, Nothing
<1>2. CASE LoadMods
  <2>1. ModsOld(mods') /\ ~runtimeUnloaded'
    BY <1>2, DiscoverOld DEF LoadMods
  <2>2. ConfigOld(config')
    BY <1>1, <1>2, <2>1 DEF LoadMods, Extended, ConfigOld, ModsOld, Entries, Entry
  <2> QED
    BY <2>1, <2>2
<1>3. CASE LoadModsGivesUp
  BY <1>1, <1>3 DEF LoadModsGivesUp, ShapeInv
<1>4. CASE ReloadGivesUp
  BY <1>1, <1>4, ExportOld DEF ReloadGivesUp, ShapeInv
<1>5. ASSUME NEW states \in States, Reload(states)
      PROVE  ModsOld(mods') /\ ConfigOld(config') /\ ~runtimeUnloaded'
  BY <1>5, DiscoverOld, ExportOld DEF Reload
<1>6. ASSUME NEW roots \in SUBSET Folder, UnloadForMutation(roots)
      PROVE  ModsOld(mods') /\ ConfigOld(config') /\ mods' = Nothing
  <2>1. ModsOld(Disabled(roots))
    BY DEF ShapeInv, ModsOld, Disabled, TypeInv, TypeOK, RuntimeTypeOK, Mod
  <2> QED
    BY <1>1, <1>6, <2>1, ExportOld DEF UnloadForMutation
<1>7. ASSUME NEW roots \in SUBSET Folder, UnloadForMutationFails(roots)
      PROVE  ModsOld(mods') /\ ConfigOld(config') /\ ~runtimeUnloaded'
  BY <1>7, DiscoverOld, ExportOld DEF UnloadForMutationFails
<1>8. ASSUME NEW f \in Folder, NEW on \in BOOLEAN, SetModEnabled(f, on)
      PROVE  ModsOld(mods') /\ ConfigOld(config') /\ ~runtimeUnloaded'
  <2>1. ~runtimeUnloaded
    BY <1>8 DEF SetModEnabled, ShapeInv, Nothing
  <2> QED
    BY <1>8, <2>1 DEF SetModEnabled, ShapeInv, ModsOld, runtimeVars, TypeInv, TypeOK, RuntimeTypeOK, Mod
<1>9. CASE UNCHANGED runtimeVars
  BY <1>9 DEF runtimeVars, ShapeInv
<1> QED
  BY <1>2, <1>3, <1>4, <1>5, <1>6, <1>7, <1>8, <1>9 DEF RuntimeSteps

(* Only the main thread changes what is loaded.                            *)
LEMMA StepRuntime ==
  ASSUME TypeInv, [Next]_vars PROVE RuntimeSteps
<1>1. CASE RunTask
  BY <1>1, RunTaskFacts, TaskFields DEF TaskEffect, RuntimeSteps
<1>2. CASE Toggle
  <2>1. PICK f \in DOMAIN mods : SetModEnabled(f, ~mods[f].on)
    BY <1>2 DEF Toggle
  <2>2. f \in Folder /\ (~mods[f].on) \in BOOLEAN
    BY DEF TypeInv, TypeOK, RuntimeTypeOK, Mod
  <2> QED
    BY <2>1, <2>2 DEF RuntimeSteps
<1>3. CASE ReloadMods
  BY <1>3 DEF ReloadMods, RuntimeSteps
<1>4. CASE Worker \/ Cancel \/ UNCHANGED vars
  BY <1>4 DEF Worker, StartInstall, StartRemove, Start, Ask, Captured, Check, Unloaded, BackUp, Place, Verified,
         Discard, UndoNew, Undo, Restored, Report, Cancel, vars, RuntimeSteps
<1> QED
  BY <1>1, <1>2, <1>3, <1>4 DEF Next

LEMMA ShapeInit == ASSUME Init PROVE ShapeInv
<1>1. /\ runtimeUnloaded = FALSE /\ config = Export(mods) /\ op = 0
      /\ mods \in [{f \in Folder : Present(f)} -> [version : {0}, on : BOOLEAN]]
  BY DEF Init, RuntimeInit
<1>2. ModsOld(mods)
  BY <1>1 DEF ModsOld
<1> QED
  BY <1>1, <1>2, ExportOld DEF Init, ShapeInv

LEMMA QueueSteps ==
  ASSUME TypeInv, QueueInv, [Next]_vars
  PROVE  /\ UNCHANGED queue \/ Ask \/ RunTask \/ Captured \/ Unloaded \/ Verified \/ Restored
         /\ RunTask => UNCHANGED <<wpc, outcome, op, rollbackOk, partial>>
         /\ Captured \/ Unloaded \/ Verified \/ Restored =>
              \E answer \in {"yes", "no"} : Answered(answer)
<1>1. RunTask => UNCHANGED <<wpc, outcome, op, rollbackOk, partial>>
  BY DEF RunTask
<1>2. UNCHANGED queue \/ Ask \/ RunTask \/ Captured \/ Unloaded \/ Verified \/ Restored
  BY DEF Next, Worker, StartInstall, StartRemove, Start, Check, BackUp, Place, Discard, UndoNew, Undo, Report,
         Toggle, ReloadMods, Cancel, vars, waitVars
<1>3. Captured \/ Unloaded \/ Verified \/ Restored => \E answer \in {"yes", "no"} : Answered(answer)
  BY DEF Captured, Unloaded, Verified, Restored
<1> QED
  BY <1>1, <1>2, <1>3

LEMMA RollbackShape ==
  ASSUME TypeInv, ShapeInv, [Next]_vars, ~rollbackOk' PROVE wpc' \in Back \/ partial'
<1>1. partial => partial'
  BY DEF Next, Worker, StartInstall, StartRemove, Start, Ask, Captured, Check, Unloaded, BackUp, Place, Verified,
         Discard, UndoNew, Undo, Restored, Report, RunTask, Toggle, ReloadMods, Cancel, historyVars, vars, Rolled
<1>2. CASE UndoNew
  BY <1>2 DEF UndoNew, GoTo, Back
<1>3. CASE Undo
  <2>1. /\ wpc \in {"undoOld", "undoRepl"}
        /\ \/ wpc' = wpc \/ wpc' \in {"undoRepl", "undoNew"}
           \/ rollbackOk' = rollbackOk /\ (rollbackOk \/ partial')
    BY <1>3 DEF Undo, GoTo, Rolled
  <2> QED
    BY <2>1 DEF Back
<1>4. CASE ~(UndoNew \/ Undo)
  <2>1. rollbackOk' = rollbackOk \/ rollbackOk'
    BY <1>4 DEF Next, Worker, StartInstall, StartRemove, Start, Ask, Captured, Check, Unloaded, BackUp, Place,
           Verified, Discard, Restored, Report, RunTask, Toggle, ReloadMods, Cancel, vars
  <2>2. wpc \in Back => wpc' = wpc
    BY <1>4 DEF Next, Worker, StartInstall, StartRemove, Start, Ask, Captured, Check, Unloaded, BackUp, Place,
           Verified, Discard, Restored, Report, RunTask, Toggle, ReloadMods, Cancel, vars, Back, AskPhases
  <2> QED
    BY <1>1, <2>1, <2>2 DEF ShapeInv
<1> QED
  BY <1>2, <1>3, <1>4

(* The phases in which nothing is queued.                                  *)
LEMMA QuietShape ==
  ASSUME TypeInv, QueueInv, JobInv, ShapeInv, [Next]_vars,
         wpc' \in {"check", "cleanup"} \/ outcome' = "success"
  PROVE  queue' = <<>>
<1>1. CASE Captured \/ Unloaded \/ Verified \/ Restored
  <2>1. outcome' # "success"
    BY <1>1 DEF Captured, Unloaded, Verified, Restored, GoTo, End, EndPreserving, JobInv, Outcomes, AskPhases
  <2>2. Answered("yes")
    BY <1>1, <2>1 DEF Captured, Unloaded, Verified, Restored, GoTo, End, EndPreserving
  <2> QED
    BY <2>2 DEF Answered, QueueInv
<1>2. CASE Ask
  BY <1>2 DEF Ask, AskPhases, JobInv, Outcomes
<1>3. CASE RunTask
  BY <1>3 DEF RunTask, ShapeInv
<1>4. CASE UNCHANGED queue /\ ~(Captured \/ Unloaded \/ Verified \/ Restored \/ RunTask \/ Ask)
  <2>1. wpc \in {"check", "cleanup"} \/ outcome = "success"
    BY <1>4 DEF Next, Worker, StartInstall, StartRemove, Start, Check, BackUp, MoveOut, Place, Discard, UndoNew,
           Undo, Rolled, Report, Toggle, ReloadMods, Cancel, vars, GoTo, End, EndPreserving
  <2> QED
    BY <1>4, <2>1 DEF ShapeInv
<1> QED
  BY <1>1, <1>2, <1>3, <1>4, QueueSteps

LEMMA UnloadShape ==
  ASSUME TypeInv, QueueInv, JobInv, ShapeInv, [Next]_vars, wpc' = "unload" PROVE ~Pending'
<1>1. CASE Ask
  <2>1. \A i \in DOMAIN queue' : i \in DOMAIN queue \/ queue'[i] = TaskFor
    BY <1>1, AppendElements
  <2>2. \A i \in DOMAIN queue : queue'[i] = queue[i]
    BY <1>1, AppendElements
  <2>3. wpc = "unload" /\ TaskFor.kind = "unload"
    BY <1>1 DEF Ask, TaskFor
  <2> QED
    BY <2>1, <2>2, <2>3 DEF Pending, ShapeInv
<1>2. CASE RunTask
  <2>1. wpc = "unload"
    BY <1>2 DEF RunTask
  <2> QED
    BY <1>2, <2>1, TailElements DEF Pending, ShapeInv
<1>3. CASE Captured \/ Unloaded \/ Verified \/ Restored
  BY <1>3 DEF Captured, Unloaded, Verified, Restored, GoTo, End, EndPreserving
<1>4. CASE UNCHANGED queue /\ ~(Captured \/ Unloaded \/ Verified \/ Restored \/ RunTask \/ Ask)
  <2>1. wpc = "unload" \/ wpc = "check"
    BY <1>4 DEF Next, Worker, StartInstall, StartRemove, Start, Check, BackUp, MoveOut, Place, Discard, UndoNew,
           Undo, Rolled, Report, Toggle, ReloadMods, Cancel, vars, GoTo, End, EndPreserving
  <2>2. queue = <<>> => DOMAIN queue = {}
    OBVIOUS
  <2> QED
    BY <1>4, <2>1, <2>2 DEF ShapeInv, Pending
<1> QED
  BY <1>1, <1>2, <1>3, <1>4, QueueSteps

LEMMA CaptureShape ==
  ASSUME TypeInv, QueueInv, AskedInv, ShapeInv, [Next]_vars, wpc' = "capture", reply' # "yes"
  PROVE  captured' = <<>>
<1>1. CASE RunTask
  <2>1. wpc = "capture" /\ reply # "yes"
    BY <1>1 DEF RunTask, QueueInv
  <2>2. PICK t \in Task : TaskEffect(t) /\ t = Head(queue) /\ queue # <<>>
    BY <1>1, RunTaskFacts
  <2>3. Capture(t) => captured' = captured \/ (t.awaited /\ Tell(t, "yes"))
    BY DEF Capture
  <2>4. captured' = captured
    BY <1>1, <2>2, <2>3 DEF TaskEffect, Tell
  <2> QED
    BY <2>1, <2>4 DEF ShapeInv
<1>2. CASE StartInstall \/ StartRemove
  BY <1>2 DEF StartInstall, StartRemove, Start
<1>3. CASE ~(RunTask \/ StartInstall \/ StartRemove)
  <2>1. captured' = captured
    BY <1>3 DEF Next, Worker, Ask, Captured, Check, Unloaded, BackUp, Place, Verified,
         Discard, UndoNew, Undo, Restored, Report, Toggle, ReloadMods, Cancel, vars, opVars
  <2>2. wpc = "capture" /\ (reply' = reply \/ Ask)
    BY <1>3 DEF Next, Worker, Ask, Captured, Check, Unloaded, BackUp, MoveOut, Place, Verified,
         Discard, UndoNew, Undo, Rolled, Restored, Report, Toggle, ReloadMods, Cancel, vars, waitVars,
         GoTo, End, EndPreserving
  <2>3. reply # "yes"
    BY <2>2 DEF Ask, QueueInv
  <2> QED
    BY <2>1, <2>2, <2>3 DEF ShapeInv
<1> QED
  BY <1>1, <1>2, <1>3

LEMMA ShapeStep ==
  ASSUME TypeInv, QueueInv, AskedInv, JobInv, ShapeInv, [Next]_vars PROVE ShapeInv'
<1>1. \A f \in Folder : disk[f] <= op
  BY DEF JobInv, Numbered
<1>2. /\ ModsOld(mods)' /\ ConfigOld(config)'
      /\ runtimeUnloaded' => mods' = Nothing
  <2>1. CASE op' = op
    BY <1>1, <2>1, RuntimeOld, StepRuntime DEF ModsOld, ConfigOld
  <2>2. CASE op' # op
    <3>1. StartInstall \/ StartRemove
      BY <2>2 DEF Next, Worker, Ask, Captured, Check, Unloaded, BackUp, Place, Verified,
         Discard, UndoNew, Undo, Restored, Report, RunTask, Toggle, ReloadMods, Cancel, vars, opVars
    <3>2. op' = op + 1 /\ UNCHANGED runtimeVars /\ op \in Int
      BY <3>1, ContentFacts DEF StartInstall, StartRemove, Start, TypeInv, TypeOK
    <3>3. /\ \A f \in DOMAIN mods : mods[f].version \in Int
          /\ \A e \in DOMAIN config : e[2] \in Int
      BY ContentFacts DEF TypeInv, TypeOK, RuntimeTypeOK, Mod
    <3> QED
      BY <3>2, <3>3 DEF runtimeVars, ShapeInv, ModsOld, ConfigOld
  <2> QED
    BY <2>1, <2>2
<1> QED
  BY <1>2, RollbackShape, QuietShape, UnloadShape, CaptureShape DEF ShapeInv

-----------------------------------------------------------------------------
(* What the worker knows once its operation is resolved.                   *)
OnTrack  == Calm /\ rollbackOk
Resolved == wpc \notin {"idle", "capture", "report"} \/ (wpc = "capture" /\ reply = "yes")

PlanInv ==
  OnTrack =>
    /\ wpc # "idle" => (Installs \/ plan.old # {}) /\ \A f \in plan.old : before[f] \in Version
    /\ Resolved =>
         /\ Installs => \A f \in Folder : before[f] \in Version /\ SlotOf(f) <= plan.n => f \in Replaced
         /\ DOMAIN captured = {SlotOf(f) : f \in Replaced}

LEMMA OnTrackBefore == ASSUME ShapeInv, [Next]_vars, OnTrack' PROVE OnTrack
<1>1. Calm /\ ~partial
  BY CalmBefore DEF OnTrack, Calm
<1>2. CASE StartInstall \/ StartRemove
  <2>1. wpc = "idle"
    BY <1>2 DEF StartInstall, StartRemove, Start
  <2> QED
    BY <1>1, <2>1 DEF ShapeInv, Back, OnTrack
<1>3. CASE ~(StartInstall \/ StartRemove)
  <2>1. rollbackOk' => rollbackOk
    BY <1>3 DEF Next, Worker, Ask, Captured, Check, Unloaded, BackUp, Place, Verified, PutBack,
         Discard, UndoNew, Undo, Restored, Report, RunTask, Toggle, ReloadMods, Cancel, vars
  <2> QED
    BY <1>1, <2>1 DEF OnTrack
<1> QED
  BY <1>2, <1>3

(* Before the worker touches a folder.                                     *)
LEMMA EarlyDisk ==
  ASSUME TypeInv, JobInv, wpc \in Early PROVE \A f \in Folder : disk[f] = before[f]
<1>1. rollbackOk /\ moved = {} /\ placed = {} /\ wpc \notin {"idle", "cleanup", "report"}
  BY DEF JobInv, Outcomes, Progress, Early, Back
<1> QED
  BY <1>1 DEF JobInv, Consistent, New

(* The capture is answered when nothing else is queued.                    *)
LEMMA CaptureAnswered ==
  ASSUME TypeInv, QueueInv, AskedInv, JobInv, LoadedInv, Calm, RunTask, wpc = "capture", reply' = "yes"
  PROVE  /\ MatchesDisk /\ UNCHANGED <<runtimeVars, disk, broken, wpc, op, before, wanted, exempt>> /\ queue' = <<>>
         /\ \E conflicts :
              /\ conflicts = (IF Installs THEN {f \in DOMAIN mods : SlotOf(f) <= plan.n} \ plan.old ELSE {})
              /\ plan' = [plan EXCEPT !.repl = conflicts]
              /\ captured' = EnabledStates(plan.old, conflicts)
<1>1. PICK t \in Task :
           /\ queue # <<>> /\ t = Head(queue) /\ queue' = Tail(queue)
           /\ TaskEffect(t)
           /\ t.awaited => reply' \in {"yes", "no"}
           /\ ~t.awaited => reply' = reply
           /\ UNCHANGED <<disk, broken, wpc, before, op, wanted, exempt>>
  BY RunTaskFacts
<1>2. t = queue[1] /\ 1 \in DOMAIN queue /\ queue \in Seq(Task)
  BY <1>1, HeadFacts DEF TypeInv
<1>3. reply = "none"
  BY <1>1 DEF QueueInv
<1>4. t.awaited /\ t = TaskFor
  BY <1>1, <1>2, <1>3, AnswerIsOwn
<1>5. t.kind = "capture"
  BY <1>4 DEF TaskFor
<1>6. Len(queue) = 1 /\ DOMAIN queue = {1}
  <2>1. 1 = Len(queue)
    BY <1>2, <1>4 DEF QueueInv
  <2>2. DOMAIN queue = 1 .. Len(queue)
    BY <1>2, LenProperties
  <2> QED
    BY <2>1, <2>2
<1>7. queue' = <<>>
  BY <1>1, <1>2, <1>6, HeadTailProperties, EmptySeq
<1>8. MatchesDisk
  <2>1. ~Pending
    BY <1>2, <1>5, <1>6 DEF Pending
  <2> QED
    BY <2>1 DEF LoadedInv, InSync
<1>9. Capture(t) /\ UNCHANGED runtimeVars
  BY <1>1, <1>5 DEF TaskEffect
<1>10. reply' = "yes" /\ reply = "none" /\ t.awaited
  BY <1>3, <1>4
<1>11. \E conflicts :
              /\ conflicts = (IF Installs THEN {f \in DOMAIN mods : SlotOf(f) <= plan.n} \ plan.old ELSE {})
              /\ plan' = [plan EXCEPT !.repl = conflicts]
              /\ captured' = EnabledStates(plan.old, conflicts)
  BY <1>9, <1>10 DEF Capture, Tell
<1> QED
  BY <1>1, <1>7, <1>8, <1>9, <1>11

(* No other task fills in what the operation replaces.                     *)
LEMMA TaskLeavesPlan ==
  ASSUME TypeInv, QueueInv, RunTask, ~(wpc = "capture" /\ reply' = "yes")
  PROVE  plan' = plan /\ captured' = captured
<1>1. PICK t \in Task :
           /\ queue # <<>> /\ t = Head(queue)
           /\ TaskEffect(t)
           /\ t.awaited => reply' \in {"yes", "no"}
           /\ ~t.awaited => reply' = reply
           /\ wpc' = wpc
  BY RunTaskFacts
<1>2. t = queue[1] /\ 1 \in DOMAIN queue
  BY <1>1, HeadFacts DEF TypeInv
<1>3. t.kind = "capture" /\ t.awaited => wpc = "capture"
  BY <1>2 DEF QueueInv
<1>4. Capture(t) => (plan' = plan /\ captured' = captured) \/ (t.awaited /\ Tell(t, "yes"))
  BY DEF Capture
<1> QED
  BY <1>1, <1>3, <1>4 DEF TaskEffect, Tell

LEMMA PlanRunTask ==
  ASSUME TypeInv, QueueInv, AskedInv, JobInv, LoadedInv, PlanInv, OnTrack, RunTask
  PROVE  PlanInv'
<1>1. UNCHANGED <<wpc, before>>
  BY RunTaskFacts
<1>2. CASE wpc = "capture" /\ reply' = "yes"
  <2>1. MatchesDisk /\ Calm
    BY <1>2, CaptureAnswered DEF OnTrack
  <2>2. PICK conflicts :
              /\ conflicts = (IF Installs THEN {f \in DOMAIN mods : SlotOf(f) <= plan.n} \ plan.old ELSE {})
              /\ plan' = [plan EXCEPT !.repl = conflicts]
              /\ captured' = EnabledStates(plan.old, conflicts)
    BY <1>2, CaptureAnswered DEF OnTrack
  <2>3. /\ plan'.old = plan.old /\ plan'.n = plan.n /\ plan'.kind = plan.kind /\ plan'.repl = conflicts
        /\ plan.old \subseteq Folder
    BY <2>2 DEF TypeInv, TypeOK, Plan
  <2>4. \A f \in Folder : f \in DOMAIN mods <=> before[f] \in Version
    BY <1>2, <2>1, EarlyDisk DEF Early, MatchesDisk, Present
  <2>5. plan.old \subseteq DOMAIN mods /\ conflicts \subseteq DOMAIN mods /\ DOMAIN mods \subseteq Folder
    BY <1>2, <2>2, <2>3, <2>4 DEF PlanInv, TypeInv, TypeOK, RuntimeTypeOK
  <2>6. DOMAIN captured' = {SlotOf(f) : f \in plan.old \cup conflicts}
    <3>1. DOMAIN mods \cap (plan.old \cup conflicts) = plan.old \cup conflicts
      BY <2>5
    <3> QED
      BY <2>2, <3>1 DEF EnabledStates
  <2>7. Installs => \A f \in Folder : before[f] \in Version /\ SlotOf(f) <= plan.n => f \in plan.old \cup conflicts
    BY <2>2, <2>4
  <2>8. Replaced' = plan.old \cup conflicts /\ Installs' = Installs
    BY <2>3 DEF Replaced, Installs
  <2> QED
    BY <1>1, <1>2, <2>3, <2>6, <2>7, <2>8 DEF PlanInv
<1>3. CASE ~(wpc = "capture" /\ reply' = "yes")
  <2>1. plan' = plan /\ captured' = captured
    BY <1>3, TaskLeavesPlan
  <2>2. Resolved' => Resolved
    BY <1>1, <1>3 DEF Resolved
  <2> QED
    BY <1>1, <2>1, <2>2 DEF PlanInv, Installs, Replaced
<1> QED
  BY <1>2, <1>3

LEMMA PlanStep ==
  ASSUME TypeInv, QueueInv, AskedInv, JobInv, LoadedInv, ShapeInv, PlanInv, [Next]_vars PROVE PlanInv'
<1> SUFFICES ASSUME OnTrack' PROVE PlanInv'
  BY DEF PlanInv
<1>1. OnTrack
  BY OnTrackBefore
<1>2. CASE StartInstall \/ StartRemove
  <2>1. /\ wpc = "idle" /\ wpc' = "capture" /\ before' = disk /\ UNCHANGED waitVars
        /\ \A f \in plan'.old : Present(f)
        /\ Installs' \/ plan'.old # {}
    <3>1. wpc = "idle" /\ wpc' = "capture" /\ before' = disk /\ UNCHANGED waitVars
      BY <1>2 DEF StartInstall, StartRemove, Start
    <3>2. CASE StartInstall
      <4>1. PICK n \in Slots, olds \in SUBSET Folder :
              /\ \A f \in olds : Present(f)
              /\ plan' = [kind |-> "install", n |-> n, old |-> olds, repl |-> {}]
        BY <3>2 DEF StartInstall, Start
      <4> QED
        BY <3>1, <4>1 DEF Installs
    <3>3. CASE StartRemove
      <4>1. PICK f \in DOMAIN mods : Present(f) /\ plan'.old = {f}
        BY <3>3 DEF StartRemove, Start
      <4> QED
        BY <3>1, <4>1
    <3> QED
      BY <1>2, <3>2, <3>3
  <2>2. reply' = "none"
    BY <2>1 DEF QueueInv, AskPhases, waitVars
  <2> QED
    BY <2>1, <2>2 DEF PlanInv, Resolved, Present
<1>3. CASE RunTask
  BY <1>1, <1>3, PlanRunTask
<1>4. CASE ~(StartInstall \/ StartRemove \/ RunTask)
  <2>1. UNCHANGED <<plan, captured, before>>
    BY <1>4 DEF Next, Worker, Ask, Captured, Check, Unloaded, BackUp, Place, Verified,
         Discard, UndoNew, Undo, Restored, Report, Toggle, ReloadMods, Cancel, vars, opVars, historyVars
  <2>2. /\ wpc = "idle" => wpc' = "idle"
        /\ Resolved' => Resolved
    BY <1>4 DEF Next, Worker, Ask, Captured, Check, Unloaded, BackUp, MoveOut, Place, Verified, Answered,
         Discard, UndoNew, Undo, Rolled, Restored, Report, Toggle, ReloadMods, Cancel, vars, waitVars,
         GoTo, End, EndPreserving, Resolved, AskPhases
  <2> QED
    BY <1>1, <2>1, <2>2 DEF PlanInv, Installs, Replaced
<1> QED
  BY <1>2, <1>3, <1>4

-----------------------------------------------------------------------------
(* What a reload makes of the flags that are saved, of a slot in which one *)
(* package at most is present.                                             *)
Lone(fs, s)   == \A f, g \in Folder :
                   SlotOf(f) = s /\ SlotOf(g) = s /\ fs[f] \in Version /\ fs[g] \in Version => f = g
Bare(fs, s)   == \A f \in Folder : SlotOf(f) = s => fs[f] \notin Version
Flag(c, f, v) == <<f, v>> \in DOMAIN c => c[<<f, v>>]
Heeded(s)     == \A f \in Folder : SlotOf(f) = s /\ Present(f) => (Flag(Saved, f, disk[f]) <=> wanted[s])

Wants(c, states, f) == IF SlotOf(f) \in DOMAIN states THEN states[SlotOf(f)] ELSE Flag(c, f, disk[f])

LEMMA DiscoverFacts ==
  ASSUME NEW c, NEW states \in States
  PROVE  /\ DOMAIN Discover(c, states) = {f \in Folder : Present(f) /\ ~Rejected(f)}
         /\ \A f \in DOMAIN Discover(c, states) :
              /\ Discover(c, states)[f].version = disk[f]
              /\ Lone(disk, SlotOf(f)) => (Discover(c, states)[f].on <=> Wants(c, states, f))
<1> DEFINE found    == {f \in Folder : Present(f) /\ <<f, disk[f]>> \notin broken}
           wants(f) == IF SlotOf(f) \in DOMAIN states THEN states[SlotOf(f)]
                       ELSE <<f, disk[f]>> \in DOMAIN c => c[<<f, disk[f]>>]
           rival(f) == \E g \in found \ {f} : SlotOf(g) = SlotOf(f) /\ wants(g)
           on(f)    == wants(f) /\ ~rival(f)
<1>1. Discover(c, states) = [f \in found |-> [version |-> disk[f], on |-> on(f)]]
  BY DEF Discover
<1>2. found = {f \in Folder : Present(f) /\ ~Rejected(f)}
  BY DEF Rejected
<1>3. ASSUME NEW f \in found, Lone(disk, SlotOf(f)) PROVE ~rival(f)
  BY <1>3 DEF Lone, Present
<1>4. \A f : wants(f) <=> Wants(c, states, f)
  BY DEF Wants, Flag
<1> HIDE DEF found
<1>5. ASSUME NEW f \in found, Lone(disk, SlotOf(f)) PROVE on(f) <=> Wants(c, states, f)
  <2> HIDE DEF wants, rival
  <2> QED
    BY <1>3, <1>4, <1>5
<1> HIDE DEF on
<1> QED
  BY <1>1, <1>2, <1>5

LEMMA ExportFlag ==
  ASSUME NEW m, NEW f, NEW v
  PROVE  /\ f \in DOMAIN m /\ m[f].version = v => (Flag(Export(m), f, v) <=> m[f].on)
         /\ ~(f \in DOMAIN m /\ m[f].version = v) => Flag(Export(m), f, v)
<1>1. <<f, v>> \in DOMAIN Export(m) <=> f \in DOMAIN m /\ m[f].version = v
  BY DEF Export, Entries, Entry
<1>2. f \in DOMAIN m /\ m[f].version = v => Export(m)[<<f, v>>] = m[f].on
  BY DEF Export, Entries, Entry
<1> QED
  BY <1>1, <1>2 DEF Flag

(* A reload in which the flag of slot s comes from states or from c.       *)
Right(c, states, s) ==
  IF s \in DOMAIN states THEN states[s] <=> wanted[s]
  ELSE \A f \in Folder : SlotOf(f) = s /\ Present(f) => (Flag(c, f, disk[f]) <=> wanted[s])

LEMMA ReloadHeeds ==
  ASSUME NEW s, NEW c, NEW states \in States, Lone(disk, s), Right(c, states, s),
         \A f \in Folder : SlotOf(f) = s /\ Rejected(f) => wanted[s],
         mods' = Discover(c, states), runtimeUnloaded' = FALSE, disk' = disk, wanted'[s] = wanted[s]
  PROVE  Heeded(s)'
<1>1. Saved' = Export(mods')
  BY DEF Saved
<1>2. ASSUME NEW f \in Folder, SlotOf(f) = s, Present(f) PROVE Flag(Saved', f, disk[f]) <=> wanted[s]
  <2>1. CASE Rejected(f)
    <3>1. f \notin DOMAIN mods'
      BY <2>1, DiscoverFacts
    <3> QED
      BY <1>1, <1>2, <2>1, <3>1, ExportFlag
  <2>2. CASE ~Rejected(f)
    <3>1. f \in DOMAIN mods' /\ mods'[f].version = disk[f] /\ (mods'[f].on <=> Wants(c, states, f))
      BY <1>2, <2>2, DiscoverFacts
    <3>2. Wants(c, states, f) <=> wanted[s]
      BY <1>2 DEF Right, Wants
    <3> QED
      BY <1>1, <3>1, <3>2, ExportFlag
  <2> QED
    BY <2>1, <2>2
<1> QED
  BY <1>2 DEF Heeded, Present

(* A package that the configuration does not know is enabled, and stays so. *)
LEMMA ReloadEnables ==
  ASSUME NEW f \in Folder, NEW c, NEW states \in States, Lone(disk, SlotOf(f)), NEW v,
         IF SlotOf(f) \in DOMAIN states THEN states[SlotOf(f)] ELSE Flag(c, f, v),
         mods' = Discover(c, states), runtimeUnloaded' = FALSE
  PROVE  Flag(Saved', f, v)
<1>1. Saved' = Export(mods')
  BY DEF Saved
<1>2. CASE f \in DOMAIN mods' /\ mods'[f].version = v
  <2>1. v = disk[f] /\ (mods'[f].on <=> Wants(c, states, f))
    BY <1>2, DiscoverFacts
  <2>2. Wants(c, states, f)
    BY <2>1 DEF Wants
  <2> QED
    BY <1>1, <1>2, <2>1, <2>2, ExportFlag
<1>3. CASE ~(f \in DOMAIN mods' /\ mods'[f].version = v)
  BY <1>1, <1>3, ExportFlag
<1> QED
  BY <1>2, <1>3

(* Nothing of an operation that has placed nothing is known yet.           *)
LEMMA UnknownEnabled ==
  ASSUME NEW c, NEW f, NEW v, v \in Int, \A e \in DOMAIN c : e[2] \in Int /\ e[2] < v
  PROVE  Flag(c, f, v)
<1>1. <<f, v>> \notin DOMAIN c
  OBVIOUS
<1> QED
  BY <1>1 DEF Flag

(* With the mods loaded as they are on disk, what is saved is what is on.  *)
LEMMA LoadedFlags ==
  ASSUME TypeInv, ShapeInv, MatchesDisk
  PROVE  \A f \in Folder : Present(f) =>
           /\ ~runtimeUnloaded /\ f \in DOMAIN mods /\ mods[f].version = disk[f]
           /\ Flag(Saved, f, disk[f]) <=> mods[f].on
<1>1. ASSUME NEW f \in Folder, Present(f)
      PROVE  /\ ~runtimeUnloaded /\ f \in DOMAIN mods /\ mods[f].version = disk[f]
             /\ Flag(Saved, f, disk[f]) <=> mods[f].on
  <2>1. f \in DOMAIN mods /\ mods[f].version = disk[f]
    BY <1>1 DEF MatchesDisk
  <2>2. ~runtimeUnloaded
    BY <2>1 DEF ShapeInv, Nothing
  <2>3. Saved = Export(mods)
    BY <2>2 DEF Saved
  <2> QED
    BY <2>1, <2>2, <2>3, ExportFlag
<1> QED
  BY <1>1

(* A package that is not being replaced is saved as it is.                 *)
LEMMA DisabledFlag ==
  ASSUME TypeInv, NEW roots, NEW f, f \in DOMAIN mods, f \notin roots
  PROVE  Flag(Export(Disabled(roots)), f, mods[f].version) <=> mods[f].on
<1>1. f \in DOMAIN Disabled(roots) /\ Disabled(roots)[f].version = mods[f].version /\ (Disabled(roots)[f].on <=> mods[f].on)
  BY DEF Disabled, TypeInv, TypeOK, RuntimeTypeOK, Mod
<1> QED
  BY <1>1, ExportFlag

-----------------------------------------------------------------------------
LastReload(i) ==
  /\ queue[i].kind \notin {"capture", "unload"}
  /\ \A j \in DOMAIN queue : j > i => queue[j].kind \in {"capture", "unload"}

(* A reload that is to come sets the flag of slot s.                       *)
Carried(s) ==
  IF InSync THEN \E i \in DOMAIN queue : LastReload(i) /\ s \in DOMAIN queue[i].states
  ELSE s \in DOMAIN captured

FoldersInv(s) == Lone(disk, s) /\ (wpc # "idle" => Lone(before, s))

BareInv(s) ==
  /\ wpc = "idle" => (Bare(disk, s) => wanted[s])
  /\ wpc # "idle" => (Bare(before, s) => wanted[s] /\ Flag(Saved, Dest(s), op))

StatesInv(s) ==
  /\ \A i \in DOMAIN queue : s \in DOMAIN queue[i].states => (queue[i].states[s] <=> wanted[s])
  /\ wpc # "idle" /\ s \in DOMAIN captured => (captured[s] <=> wanted[s])

SlotInv(s) == FoldersInv(s) /\ BareInv(s) /\ StatesInv(s) /\ (Heeded(s) \/ Carried(s))

ChoiceInv == OnTrack => \A s \in Slots \ exempt : SlotInv(s)

(* What the proof about the choice may use of the state before a step.     *)
Known == /\ TypeInv /\ QueueInv /\ AskedInv /\ JobInv /\ SoundInv /\ LoadedInv /\ ShapeInv /\ PlanInv
         /\ OnTrack

LEMMA SameLoaded ==
  ASSUME NEW s, UNCHANGED <<disk, mods, config, runtimeUnloaded>>, wanted'[s] = wanted[s]
  PROVE  /\ Heeded(s)' <=> Heeded(s)
         /\ Saved' = Saved
         /\ Lone(disk, s)' <=> Lone(disk, s)
         /\ Bare(disk, s)' <=> Bare(disk, s)
<1>1. Saved' = Saved
  BY DEF Saved, Export, Entries, Entry
<1> QED
  BY <1>1 DEF Heeded, Present, Lone, Bare

(* Steps of the worker that touch neither folder nor mods.                 *)
LEMMA SlotQuiet ==
  ASSUME NEW s, SlotInv(s), UNCHANGED <<disk, mods, config, runtimeUnloaded, wanted, before, op, captured>>,
         wpc # "idle", wpc' # "idle", Carried(s) => Carried(s)' \/ Heeded(s),
         \A i \in DOMAIN queue' :
           (\E j \in DOMAIN queue : queue'[i].states = queue[j].states) \/ queue'[i].states \in {captured, <<>>}
  PROVE  SlotInv(s)'
<1>1. (Heeded(s)' <=> Heeded(s)) /\ Saved' = Saved /\ (Lone(disk, s)' <=> Lone(disk, s))
  BY SameLoaded
<1>2. FoldersInv(s)' /\ BareInv(s)'
  BY <1>1 DEF SlotInv, FoldersInv, BareInv, Lone, Bare
<1>3. DOMAIN <<>> = {}
  OBVIOUS
<1>4. StatesInv(s)'
  BY <1>3 DEF SlotInv, StatesInv
<1> QED
  BY <1>1, <1>2, <1>4 DEF SlotInv

LEMMA SlotAsk ==
  ASSUME Known, NEW s, SlotInv(s), Ask PROVE SlotInv(s)'
<1>1. /\ UNCHANGED <<disk, mods, config, runtimeUnloaded, wanted, before, op, captured, wpc>>
      /\ wpc \in AskPhases /\ ~asked /\ asked' /\ reply' = "none"
  BY DEF Ask, runtimeVars, opVars, historyVars
<1>2. /\ \A i \in DOMAIN queue : i \in DOMAIN queue' /\ queue'[i] = queue[i]
      /\ \A i \in DOMAIN queue' : i \in DOMAIN queue \/ queue'[i] = TaskFor
      /\ \E i \in DOMAIN queue' : queue'[i] = TaskFor
  BY AppendElements DEF Known
<1>3. TaskFor.states \in {captured, <<>>}
  BY DEF TaskFor
<1>4. ASSUME Carried(s) PROVE Carried(s)'
  <2>1. CASE wpc \in {"restore", "restoreOnly"}
    <3>1. InSync' /\ s \in DOMAIN captured
      BY <1>1, <1>4, <2>1 DEF InSync, Carried
    <3>2. TaskFor.kind = "restore" /\ TaskFor.states = captured
      BY <2>1 DEF TaskFor
    <3>3. queue \in Seq(Task) /\ TaskFor \in Task /\ queue' = Append(queue, TaskFor)
      BY TaskForType DEF Known, TypeInv, Ask
    <3>4. /\ Len(queue') \in DOMAIN queue' /\ queue'[Len(queue')] = TaskFor
          /\ \A j \in DOMAIN queue' : ~(j > Len(queue'))
      <4>1. /\ queue' \in Seq(Task) /\ Len(queue') = Len(queue) + 1 /\ queue'[Len(queue) + 1] = TaskFor
            /\ Len(queue) \in Nat
        BY <3>3, AppendProperties, LenProperties
      <4>2. DOMAIN queue' = 1 .. Len(queue')
        BY <4>1, LenProperties
      <4> QED
        BY <4>1, <4>2
    <3>5. LastReload(Len(queue))'
      BY <3>2, <3>4 DEF LastReload
    <3> QED
      BY <3>1, <3>2, <3>4, <3>5 DEF Carried
  <2>2. CASE wpc = "verify"
    <3>1. ~InSync /\ ~InSync'
      BY <1>1, <2>2 DEF InSync, Known, QueueInv
    <3> QED
      BY <1>1, <1>4, <3>1 DEF Carried
  <2>3. CASE wpc \in {"capture", "unload"}
    <3>1. InSync /\ InSync' /\ TaskFor.kind \in {"capture", "unload"}
      BY <1>1, <2>3 DEF InSync, Known, QueueInv, TaskFor
    <3>2. PICK i \in DOMAIN queue : LastReload(i) /\ s \in DOMAIN queue[i].states
      BY <1>4, <3>1 DEF Carried
    <3>3. LastReload(i)'
      BY <1>2, <3>1, <3>2 DEF LastReload
    <3> QED
      BY <1>2, <3>1, <3>2, <3>3 DEF Carried
  <2> QED
    BY <1>1, <2>1, <2>2, <2>3 DEF AskPhases
<1>5. \A i \in DOMAIN queue' :
        (\E j \in DOMAIN queue : queue'[i].states = queue[j].states) \/ queue'[i].states \in {captured, <<>>}
  BY <1>2, <1>3
<1>6. wpc # "idle" /\ wpc' # "idle"
  BY <1>1 DEF AskPhases
<1> QED
  BY <1>1, <1>4, <1>5, <1>6, SlotQuiet

(* An answer leaves what is queued in its order, with its flags.           *)
LEMMA AnswerQueue ==
  ASSUME TypeInv, NEW answer, Answered(answer)
  PROVE  /\ DOMAIN queue' = DOMAIN queue
         /\ \A i \in DOMAIN queue : queue'[i].kind = queue[i].kind /\ queue'[i].states = queue[i].states
<1>1. CASE UNCHANGED queue
  BY <1>1
<1>2. CASE queue' = [i \in DOMAIN queue |-> [queue[i] EXCEPT !.awaited = FALSE]]
  <2>1. ASSUME NEW i \in DOMAIN queue PROVE queue'[i].kind = queue[i].kind /\ queue'[i].states = queue[i].states
    <3>1. queue[i] \in Task
      BY QueueElements DEF TypeInv
    <3>2. queue'[i] = [queue[i] EXCEPT !.awaited = FALSE]
      BY <1>2
    <3> QED
      BY <3>1, <3>2 DEF Task
  <2> QED
    BY <1>2, <2>1
<1> QED
  BY <1>1, <1>2 DEF Answered

LEMMA CarriedQueue ==
  ASSUME NEW s, InSync, InSync', DOMAIN queue' = DOMAIN queue,
         \A i \in DOMAIN queue : queue'[i].kind = queue[i].kind /\ queue'[i].states = queue[i].states,
         Carried(s)
  PROVE  Carried(s)'
<1>1. PICK i \in DOMAIN queue : LastReload(i) /\ s \in DOMAIN queue[i].states
  BY DEF Carried
<1>2. LastReload(i)'
  BY <1>1 DEF LastReload
<1> QED
  BY <1>1, <1>2 DEF Carried

LEMMA SlotAnswer ==
  ASSUME Known, OnTrack', NEW s, SlotInv(s), Captured \/ Unloaded \/ Verified \/ Restored PROVE SlotInv(s)'
<1>1. PICK answer \in {"yes", "no"} : Answered(answer)
  BY DEF Captured, Unloaded, Verified, Restored
<1>2. /\ DOMAIN queue' = DOMAIN queue
      /\ \A i \in DOMAIN queue : queue'[i].kind = queue[i].kind /\ queue'[i].states = queue[i].states
  BY <1>1, AnswerQueue DEF Known
<1>3. /\ UNCHANGED <<disk, mods, config, runtimeUnloaded, wanted, before, op, captured>>
      /\ wpc \in AskPhases /\ wpc' # "idle" /\ asked /\ ~asked' /\ reply' = "none"
  BY DEF Captured, Unloaded, Verified, Restored, runtimeVars, opVars, Answered, GoTo, End, EndPreserving, AskPhases
<1>4. (InSync /\ InSync') \/ (~InSync /\ ~InSync')
  <2>1. CASE Captured
    BY <2>1 DEF Captured, InSync, GoTo, End
  <2>2. CASE Unloaded
    <3>1. reply = "yes" \/ reply = "no"
      BY <2>2 DEF Unloaded, Answered, OnTrack, Calm
    <3> QED
      BY <2>2, <3>1 DEF Unloaded, InSync, GoTo, End, Answered
  <2>3. CASE Verified
    BY <2>3 DEF Verified, InSync, GoTo, Answered
  <2>4. CASE Restored
    BY <1>3, <2>4 DEF Restored, InSync, End, EndPreserving
  <2> QED
    BY <2>1, <2>2, <2>3, <2>4
<1>5. Carried(s) => Carried(s)'
  BY <1>2, <1>3, <1>4, CarriedQueue DEF Carried
<1>6. wpc # "idle"
  BY <1>3 DEF AskPhases
<1> QED
  BY <1>2, <1>3, <1>5, <1>6, SlotQuiet

LEMMA SlotCheck ==
  ASSUME Known, NEW s, SlotInv(s), Check \/ Discard \/ Cancel PROVE SlotInv(s)'
<1>1. /\ UNCHANGED <<disk, mods, config, runtimeUnloaded, wanted, before, op, captured, queue, asked, reply>>
      /\ wpc # "idle" /\ wpc' # "idle"
  BY DEF Check, Discard, Cancel, runtimeVars, opVars, waitVars, historyVars, GoTo, End
<1>2. Carried(s) => Carried(s)' \/ Heeded(s)
  <2>1. CASE Check
    <3>1. queue = <<>> /\ InSync
      BY <2>1 DEF Check, Known, ShapeInv, InSync
    <3>2. DOMAIN queue = {}
      BY <3>1
    <3> QED
      BY <3>1, <3>2 DEF Carried
  <2>2. CASE Discard
    <3>1. InSync /\ InSync'
      BY <2>2 DEF Discard, InSync, GoTo, End
    <3> QED
      BY <1>1, <3>1 DEF Carried, LastReload
  <2>3. CASE Cancel
    <3>1. InSync' <=> InSync
      BY <1>1, <2>3 DEF Cancel, InSync
    <3> QED
      BY <1>1, <3>1 DEF Carried, LastReload
  <2> QED
    BY <2>1, <2>2, <2>3
<1> QED
  BY <1>1, <1>2, SlotQuiet

LEMMA SlotStart ==
  ASSUME Known, NEW s, SlotInv(s), StartInstall \/ StartRemove PROVE SlotInv(s)'
<1>1. /\ UNCHANGED <<disk, mods, config, runtimeUnloaded, wanted, queue>>
      /\ wpc = "idle" /\ wpc' = "capture" /\ op' = op + 1 /\ before' = disk /\ captured' = <<>>
  BY DEF StartInstall, StartRemove, Start, runtimeVars, waitVars
<1>2. (Heeded(s)' <=> Heeded(s)) /\ Saved' = Saved /\ (Lone(disk, s)' <=> Lone(disk, s))
  BY <1>1, SameLoaded
<1>3. FoldersInv(s)'
  BY <1>1, <1>2 DEF SlotInv, FoldersInv, Lone
<1>4. Flag(Saved, Dest(s), op + 1)
  <2>1. op \in Int /\ op + 1 \in Int
    BY DEF Known, TypeInv, TypeOK
  <2>2. ConfigOld(Saved) /\ ConfigType(Saved)
    BY ExportOld, ExportType DEF Saved, Known, ShapeInv, TypeInv, TypeOK, RuntimeTypeOK, ConfigType, ModsType
  <2>3. ASSUME NEW e \in DOMAIN Saved PROVE e[2] \in Int /\ e[2] < op + 1
    <3>1. e[2] \in Version /\ e[2] <= op
      BY <2>2 DEF ConfigOld, ConfigType
    <3>2. e[2] \in Int
      BY <3>1, ContentFacts
    <3> QED
      BY <2>1, <3>1, <3>2
  <2> QED
    BY <2>1, <2>3, UnknownEnabled
<1>5. BareInv(s)'
  BY <1>1, <1>2, <1>4 DEF SlotInv, BareInv, Bare
<1>6. StatesInv(s)'
  <2>1. DOMAIN captured' = {}
    BY <1>1
  <2> QED
    BY <1>1, <2>1 DEF SlotInv, StatesInv
<1>7. Carried(s) => Carried(s)'
  <2>1. InSync /\ InSync'
    BY <1>1 DEF InSync
  <2> QED
    BY <1>1, <2>1 DEF Carried, LastReload
<1> QED
  BY <1>2, <1>3, <1>5, <1>6, <1>7 DEF SlotInv

(* A removed package leaves its slot without any.                          *)
LEMMA RemovedIsGone ==
  ASSUME Known, NEW s \in Slots, FoldersInv(s), wpc # "idle", ~Installs, idx = s,
         \A f \in Folder : disk[f] = After(f)
  PROVE  Bare(disk, s)
<1>1. PICK f \in plan.old : before[f] \in Version
  BY DEF Known, PlanInv
<1>2. f \in Folder /\ SlotOf(f) = s
  BY <1>1 DEF Known, TypeInv, TypeOK, Plan, JobInv, Planned
<1>3. ASSUME NEW g \in Folder, SlotOf(g) = s, disk[g] \in Version PROVE FALSE
  <2>1. disk[g] = (IF g \in Replaced THEN Absent ELSE before[g])
    BY DEF After
  <2>2. g \notin Replaced /\ before[g] \in Version
    BY <1>3, <2>1, ContentFacts
  <2>3. g = f
    BY <1>1, <1>2, <1>3, <2>2 DEF FoldersInv, Lone
  <2> QED
    BY <1>1, <2>2, <2>3 DEF Replaced
<1> QED
  BY <1>3 DEF Bare

LEMMA BareHeeded == ASSUME NEW s, Bare(disk, s) PROVE Heeded(s)
  BY DEF Bare, Heeded, Present

LEMMA SlotReport ==
  ASSUME Known, NEW s \in Slots, SlotInv(s), Report PROVE SlotInv(s)'
<1>1. /\ UNCHANGED <<disk, mods, config, runtimeUnloaded, queue>> /\ wpc = "report" /\ wpc' = "idle"
      /\ wanted' = IF outcome = "success" /\ ~Installs THEN [wanted EXCEPT ![idx] = TRUE] ELSE wanted
      /\ wanted \in [Slots -> BOOLEAN] /\ rollbackOk
  BY DEF Report, runtimeVars, waitVars, Known, TypeInv, TypeOK, OnTrack
<1>2. /\ outcome = "success" => \A f \in Folder : disk[f] = After(f)
      /\ outcome # "success" => disk = before
  BY <1>1 DEF Known, JobInv, Outcomes
<1>3. InSync /\ InSync'
  BY <1>1 DEF InSync
<1>4. Carried(s) => Carried(s)'
  BY <1>1, <1>3 DEF Carried, LastReload
<1>5. FoldersInv(s)'
  BY <1>1 DEF SlotInv, FoldersInv, Lone
<1>6. CASE outcome = "success" /\ ~Installs /\ idx = s
  <2>1. Bare(disk, s)' /\ wanted'[s]
    BY <1>1, <1>2, <1>6, RemovedIsGone DEF SlotInv, Bare
  <2>2. Heeded(s)'
    BY <2>1, BareHeeded DEF Heeded, Bare, Present
  <2>3. DOMAIN queue' = {}
    BY <1>1, <1>6 DEF Known, ShapeInv
  <2> QED
    BY <1>1, <1>5, <2>1, <2>2, <2>3 DEF SlotInv, BareInv, StatesInv
<1>7. CASE ~(outcome = "success" /\ ~Installs /\ idx = s)
  <2>1. wanted'[s] = wanted[s]
    BY <1>1, <1>7
  <2>2. Bare(disk, s) => Bare(before, s)
    <3>1. CASE outcome # "success"
      BY <1>2, <3>1 DEF Bare
    <3>2. CASE outcome = "success" /\ Installs /\ s \in 1 .. plan.n
      <4>1. Dest(s) \in Folder /\ SlotOf(Dest(s)) = s /\ op \in Version /\ After(Dest(s)) = op
        BY <3>2, FolderFacts, RuntimeAssumption DEF After, Version, Known, TypeInv, TypeOK
      <4> QED
        BY <1>2, <3>2, <4>1 DEF Bare
    <3>3. CASE outcome = "success" /\ ~(Installs /\ s \in 1 .. plan.n)
      <4>1. ASSUME NEW f \in Folder, SlotOf(f) = s PROVE After(f) = before[f]
        <5>1. f \notin Replaced
          <6>1. CASE Installs
            <7>1. s \in Nat /\ 1 <= s /\ plan.n \in Int
              BY SlotFacts DEF Known, TypeInv, TypeOK, Plan
            <7>2. ~(s <= plan.n)
              BY <3>3, <6>1, <7>1
            <7> QED
              BY <4>1, <6>1, <7>2 DEF Known, JobInv, Planned
          <6>2. CASE ~Installs
            BY <1>7, <3>3, <4>1, <6>2 DEF Known, JobInv, Planned, Replaced
          <6> QED
            BY <6>1, <6>2
        <5>2. ~(Installs /\ f \in {Dest(t) : t \in 1 .. plan.n})
          <6>1. ASSUME NEW t \in 1 .. plan.n, f = Dest(t) PROVE t = s
            BY <4>1, <6>1 DEF SlotOf, Dest
          <6> QED
            BY <3>3, <6>1
        <5> QED
          BY <5>1, <5>2 DEF After
      <4> QED
        BY <1>2, <3>3, <4>1 DEF Bare
    <3> QED
      BY <3>1, <3>2, <3>3
  <2>3. (Heeded(s)' <=> Heeded(s)) /\ (Bare(disk, s)' <=> Bare(disk, s))
    BY <1>1, <2>1, SameLoaded
  <2>4. BareInv(s)'
    BY <1>1, <2>1, <2>2, <2>3 DEF SlotInv, BareInv
  <2>5. StatesInv(s)'
    BY <1>1, <2>1 DEF SlotInv, StatesInv
  <2> QED
    BY <1>4, <1>5, <2>3, <2>4, <2>5 DEF SlotInv
<1> QED
  BY <1>6, <1>7

-----------------------------------------------------------------------------
(* Steps of the worker that move folders.                                  *)

(* The folders change, the mods do not.                                    *)
LEMMA SlotFolders ==
  ASSUME NEW s, SlotInv(s), wpc # "idle", wpc' # "idle", ~InSync, ~InSync',
         UNCHANGED <<mods, config, runtimeUnloaded, wanted, before, op, captured, queue>>,
         Lone(disk', s), s \in DOMAIN captured \/ (Heeded(s) => Heeded(s)')
  PROVE  SlotInv(s)'
<1>1. Saved' = Saved
  BY DEF Saved, Export, Entries, Entry
<1>2. FoldersInv(s)' /\ BareInv(s)'
  BY <1>1 DEF SlotInv, FoldersInv, BareInv, Lone, Bare
<1>3. StatesInv(s)'
  BY DEF SlotInv, StatesInv
<1>4. s \in DOMAIN captured => Carried(s)'
  BY DEF Carried
<1>5. Carried(s) => s \in DOMAIN captured
  BY DEF Carried
<1> QED
  BY <1>2, <1>3, <1>4, <1>5 DEF SlotInv

(* A folder that is emptied takes nothing from what is known of the rest.  *)
LEMMA EmptiedLone ==
  ASSUME NEW s, Lone(disk, s), \A f \in Folder : disk'[f] = disk[f] \/ disk'[f] \notin Version,
         UNCHANGED <<mods, config, runtimeUnloaded, wanted>>
  PROVE  Lone(disk', s) /\ (Heeded(s) => Heeded(s)')
<1>1. Saved' = Saved
  BY DEF Saved, Export, Entries, Entry
<1> QED
  BY <1>1 DEF Lone, Heeded, Present

(* While folders are moved memory is out of step with them.                *)
LEMMA MovingFacts ==
  ASSUME Known, OnTrack', BackUp \/ Place \/ UndoNew \/ Undo
  PROVE  /\ UNCHANGED <<mods, config, runtimeUnloaded, wanted, before, op, captured, queue>>
         /\ wpc # "idle" /\ wpc' # "idle" /\ ~InSync /\ ~InSync' /\ wpc \in Forward \cup Back
         /\ Resolved
<1>1. /\ UNCHANGED <<mods, config, runtimeUnloaded, wanted, before, op, captured>>
      /\ UNCHANGED <<queue, asked, reply>>
      /\ wpc \in Forward \cup Back
  BY DEF BackUp, Place, UndoNew, Undo, runtimeVars, opVars, waitVars, historyVars, Forward, Back
<1>2. ~asked /\ reply = "none"
  BY <1>1 DEF Known, QueueInv, Forward, Back, AskPhases
<1>3. /\ ~InSync
      /\ Resolved
  BY <1>1 DEF InSync, Resolved, Forward, Back
<1>4. \/ wpc' \in {"backupOld", "backupRepl", "place", "verify", "undoNew", "undoOld", "undoRepl", "restore", "restoreOnly"}
      \/ partial'
  <2>1. CASE BackUp \/ Place \/ UndoNew
    BY <2>1 DEF BackUp, MoveOut, Place, UndoNew, GoTo
  <2>2. CASE Undo
    BY <2>2 DEF Undo, GoTo, Rolled, EndPreserving
  <2> QED
    BY <2>1, <2>2
<1>5. ~InSync' /\ wpc' # "idle"
  BY <1>1, <1>2, <1>4 DEF InSync, OnTrack, Calm
<1> QED
  BY <1>1, <1>3, <1>5 DEF Forward, Back

(* The slot of the plan that is placed is empty, and was if nothing of it  *)
(* is replaced.                                                            *)
LEMMA PlaceIsBare ==
  ASSUME Known, wpc = "place"
  PROVE  /\ Bare(disk, idx)
         /\ idx \notin DOMAIN captured => Bare(before, idx)
<1>1. /\ Installs /\ idx \in 1 .. plan.n /\ placed = 1 .. idx - 1 /\ rollbackOk /\ plan.n \in Int
      /\ \A f \in InSlot(plan.old, idx) \cup InSlot(plan.repl, idx) : Gone(f)
      /\ Installs => \A f \in Folder : before[f] \in Version /\ SlotOf(f) <= plan.n => f \in Replaced
      /\ DOMAIN captured = {SlotOf(f) : f \in Replaced}
  <2>1. Installs /\ idx \in 1 .. plan.n /\ plan.n \in Int
    BY DEF Known, TypeInv, TypeOK, Plan
  <2>2. /\ placed = 1 .. idx - 1
        /\ \A f \in InSlot(plan.old, idx) \cup InSlot(plan.repl, idx) : Gone(f)
    <3>1. Progress /\ wpc \in Forward /\ wpc # "backupOld"
      BY DEF Known, JobInv, Forward
    <3>2. \A f \in InSlot(plan.old, idx) : Gone(f)
      BY <3>1 DEF Progress
    <3>3. \A f \in InSlot(plan.repl, idx) : Gone(f)
      BY <3>1 DEF Progress
    <3>4. placed = 1 .. idx - 1
      BY <2>1, <3>1 DEF Progress
    <3> QED
      BY <3>2, <3>3, <3>4
  <2>3. /\ rollbackOk
        /\ Installs => \A f \in Folder : before[f] \in Version /\ SlotOf(f) <= plan.n => f \in Replaced
        /\ DOMAIN captured = {SlotOf(f) : f \in Replaced}
    BY DEF Known, PlanInv, Resolved, OnTrack
  <2> QED
    BY <2>1, <2>2, <2>3
<1>2. ASSUME NEW f \in Folder, SlotOf(f) = idx, before[f] \in Version
      PROVE  f \in Replaced /\ Gone(f)
  <2>1. f \in Replaced
    BY <1>1, <1>2
  <2> QED
    BY <1>1, <1>2, <2>1 DEF Replaced, InSlot
<1>3. ASSUME NEW f \in Folder, SlotOf(f) = idx, disk[f] \in Version PROVE FALSE
  <2>1. ~New(f)
    <3>1. ASSUME NEW t \in placed, f = Dest(t) PROVE FALSE
      <4>1. t = idx
        BY <1>3, <3>1 DEF SlotOf, Dest
      <4> QED
        BY <1>1, <3>1, <4>1
    <3> QED
      BY <3>1 DEF New
  <2>2. ~Gone(f)
    BY <1>3, <2>1, ContentFacts DEF Gone
  <2>3. f \in moved \/ disk[f] = before[f]
    BY <1>1, <2>1 DEF Known, JobInv, Consistent
  <2>4. f \in moved => Gone(f)
    BY <1>1 DEF Known, JobInv, Consistent
  <2> QED
    BY <1>2, <1>3, <2>2, <2>3, <2>4
<1> QED
  BY <1>1, <1>2, <1>3 DEF Bare

LEMMA SlotBackUp ==
  ASSUME Known, OnTrack', NEW s \in Slots, SlotInv(s), BackUp \/ UndoNew PROVE SlotInv(s)'
<1>1. \A f \in Folder : disk'[f] = disk[f] \/ disk'[f] \notin Version
  <2>1. CASE UndoNew
    BY <2>1, FolderTypes, ContentFacts DEF UndoNew, Known
  <2>2. CASE BackUp
    <3>1. disk' = disk \/ \E f : disk' = [disk EXCEPT ![f] = Absent]
      BY <2>2 DEF BackUp, MoveOut, MoveToBackup
    <3> QED
      BY <3>1, FolderTypes, ContentFacts DEF Known
  <2> QED
    BY <2>1, <2>2
<1>2. /\ UNCHANGED <<mods, config, runtimeUnloaded, wanted, before, op, captured, queue>>
      /\ wpc # "idle" /\ wpc' # "idle" /\ ~InSync /\ ~InSync'
  BY MovingFacts
<1>3. Lone(disk', s) /\ (Heeded(s) => Heeded(s)')
  BY <1>1, <1>2, EmptiedLone DEF SlotInv, FoldersInv
<1> QED
  BY <1>2, <1>3, SlotFolders

LEMMA SlotPlace ==
  ASSUME Known, OnTrack', NEW s \in Slots, SlotInv(s), Place PROVE SlotInv(s)'
<1>0. PICK d : d = Dest(idx)
  OBVIOUS
<1>1. /\ UNCHANGED <<mods, config, runtimeUnloaded, wanted, before, op, captured, queue>>
      /\ wpc # "idle" /\ wpc' # "idle" /\ ~InSync /\ ~InSync'
  BY MovingFacts
<1>2. /\ wpc = "place" /\ (disk' = disk \/ disk' = [disk EXCEPT ![d] = op])
      /\ disk \in [Folder -> Content]
  BY <1>0, FolderTypes DEF Place, Known
<1>3. CASE \A f \in Folder : SlotOf(f) = s => disk'[f] = disk[f]
  <2>1. Saved' = Saved
    BY <1>1 DEF Saved, Export, Entries, Entry
  <2>2. Lone(disk', s) /\ (Heeded(s) => Heeded(s)')
    BY <1>1, <1>3, <2>1 DEF Lone, Heeded, Present, SlotInv, FoldersInv
  <2> QED
    BY <1>1, <2>2, SlotFolders
<1>4. CASE ~\A f \in Folder : SlotOf(f) = s => disk'[f] = disk[f]
  <2>1. PICK f \in Folder : SlotOf(f) = s /\ disk'[f] # disk[f]
    BY <1>4
  <2>2. f = d /\ \A g \in Folder : g # d => disk'[g] = disk[g]
    BY <1>2, <2>1
  <2>3. idx = s
    BY <1>0, <2>1, <2>2 DEF SlotOf, Dest
  <2>4. Bare(disk, s) /\ (s \notin DOMAIN captured => Bare(before, s))
    BY <1>2, <2>3, PlaceIsBare
  <2>5. \A g \in Folder : SlotOf(g) = s /\ disk'[g] \in Version => g = d
    BY <2>2, <2>4 DEF Bare
  <2>6. Lone(disk', s)
    BY <2>5 DEF Lone
  <2>7. s \notin DOMAIN captured => Heeded(s)'
    <3>1. ASSUME s \notin DOMAIN captured PROVE wanted[s] /\ Flag(Saved, d, op)
      BY <1>0, <1>2, <2>3, <2>4, <3>1 DEF SlotInv, BareInv
    <3>2. Saved' = Saved
      BY <1>1 DEF Saved, Export, Entries, Entry
    <3>3. disk'[d] = op
      BY <1>2, <2>1, <2>2
    <3>4. ASSUME s \notin DOMAIN captured, NEW g \in Folder, SlotOf(g) = s, disk'[g] \in Version
          PROVE  Flag(Saved, g, disk'[g]) <=> wanted[s]
      BY <2>5, <3>1, <3>3, <3>4
    <3> QED
      BY <1>1, <3>2, <3>4 DEF Heeded, Present
  <2> QED
    BY <1>1, <2>6, <2>7, SlotFolders
<1> QED
  BY <1>3, <1>4

LEMMA SlotUndo ==
  ASSUME Known, OnTrack', NEW s \in Slots, SlotInv(s), Undo PROVE SlotInv(s)'
<1>1. /\ UNCHANGED <<mods, config, runtimeUnloaded, wanted, before, op, captured, queue>>
      /\ wpc # "idle" /\ wpc' # "idle" /\ ~InSync /\ ~InSync' /\ Resolved
  BY MovingFacts
<1>2. CASE \A f \in Folder : SlotOf(f) = s => disk'[f] = disk[f]
  <2>1. Saved' = Saved
    BY <1>1 DEF Saved, Export, Entries, Entry
  <2>2. Lone(disk', s) /\ (Heeded(s) => Heeded(s)')
    BY <1>1, <1>2, <2>1 DEF Lone, Heeded, Present, SlotInv, FoldersInv
  <2> QED
    BY <1>1, <2>2, SlotFolders
<1>3. ASSUME NEW f \in moved, SlotOf(f) = s, SlotOf(f) = idx, disk' = [disk EXCEPT ![f] = backup[f]]
      PROVE  SlotInv(s)'
  <2>1. f \in Folder /\ f \in Replaced /\ disk \in [Folder -> Content]
    BY FolderTypes DEF Known, JobInv, Planned
  <2>2. s \in DOMAIN captured
    BY <1>1, <1>3, <2>1 DEF Known, PlanInv
  <2>3. wpc \in {"undoOld", "undoRepl"} /\ rollbackOk
    BY DEF Undo, Known, OnTrack
  <2>4. backup[f] = before[f]
    BY <2>1, <2>3 DEF Known, JobInv, Consistent
  <2>5. ASSUME NEW g \in Folder, SlotOf(g) = s, g # f, disk[g] \in Version PROVE disk[g] = before[g]
    <3>1. ~New(g)
      <4>1. ASSUME NEW t \in placed, g = Dest(t) PROVE FALSE
        <5>1. t = idx
          BY <1>3, <2>5, <4>1 DEF SlotOf, Dest
        <5>2. placed \subseteq 1 .. idx - 1 /\ idx \in Int
          <6>1. placed \subseteq 1 .. idx - 1
            BY <2>3 DEF Known, JobInv, Progress, Back
          <6> QED
            BY <6>1 DEF Known, TypeInv, TypeOK
        <5> QED
          BY <4>1, <5>1, <5>2
      <4> QED
        BY <4>1 DEF New
    <3> QED
      BY <2>3, <2>5, <3>1, ContentFacts DEF Known, JobInv, Consistent, Gone
  <2>6. ASSUME NEW g \in Folder, SlotOf(g) = s, disk'[g] \in Version PROVE before[g] \in Version
    BY <1>3, <2>1, <2>4, <2>5, <2>6
  <2>7. Lone(disk', s)
    BY <1>1, <2>6 DEF Lone, SlotInv, FoldersInv
  <2> QED
    BY <1>1, <2>2, <2>7, SlotFolders
<1>4. ASSUME NEW f \in Folder, SlotOf(f) = s, disk'[f] # disk[f] PROVE SlotInv(s)'
  <2>1. PICK g \in moved : SlotOf(g) = idx /\ disk' = [disk EXCEPT ![g] = backup[g]]
    BY <1>4 DEF Undo, PutBack, InSlot
  <2>2. g = f
    BY <1>4, <2>1, FolderTypes DEF Known
  <2> QED
    BY <1>3, <1>4, <2>1, <2>2
<1> QED
  BY <1>2, <1>4

-----------------------------------------------------------------------------
(* Steps of the main thread.                                               *)

(* A package that LoadMods rejects belongs to a mod that was not there.    *)
LEMMA RejectedWanted ==
  ASSUME Known, NEW s \in Slots, SlotInv(s), s \notin DOMAIN captured
  PROVE  \A f \in Folder : SlotOf(f) = s /\ Rejected(f) => wanted[s]
<1>1. ASSUME NEW f \in Folder, SlotOf(f) = s, Rejected(f) PROVE wanted[s]
  <2>1. wpc \in Undoable /\ New(f)
    BY <1>1 DEF Known, SoundInv
  <2>2. s \in placed
    <3>1. PICK t \in placed : f = Dest(t)
      BY <2>1 DEF New
    <3>2. t = s
      BY <1>1, <3>1 DEF SlotOf, Dest
    <3> QED
      BY <3>1, <3>2
  <2>3. Installs /\ s \in Int /\ plan.n \in Int /\ idx \in 1 .. plan.n /\ s <= idx
    <3>1. /\ wpc \in Forward => placed = (IF Installs THEN 1 .. idx - 1 ELSE {})
          /\ wpc \in Back => placed \subseteq 1 .. (IF wpc = "undoNew" THEN idx ELSE idx - 1) /\ (~Installs => placed = {})
          /\ wpc = "verify" => (IF Installs THEN placed \subseteq 1 .. idx ELSE placed = {})
      BY DEF Known, JobInv, Progress
    <3>2. Installs
      BY <2>1, <2>2, <3>1 DEF Undoable
    <3>3. s \in Int /\ plan.n \in Int /\ idx \in 1 .. plan.n /\ idx \in Int
      BY <2>1, <3>2, SlotFacts DEF Known, TypeInv, TypeOK, Plan, Undoable, Forward, Back
    <3>4. s <= idx
      BY <2>1, <2>2, <3>1, <3>2, <3>3 DEF Undoable
    <3> QED
      BY <3>2, <3>3, <3>4
  <2>4. Resolved /\ wpc # "idle"
    BY <2>1 DEF Resolved, Undoable, Forward, Back
  <2>5. Bare(before, s)
    <3>1. ASSUME NEW g \in Folder, SlotOf(g) = s, before[g] \in Version PROVE FALSE
      <4>1. SlotOf(g) <= plan.n
        BY <2>3, <3>1
      <4>2. g \in Replaced
        BY <2>3, <2>4, <3>1, <4>1 DEF Known, PlanInv
      <4> QED
        BY <2>4, <3>1, <4>2 DEF Known, PlanInv
    <3> QED
      BY <3>1 DEF Bare
  <2> QED
    BY <2>4, <2>5 DEF SlotInv, BareInv
<1> QED
  BY <1>1

(* The flags that are captured are those of the packages, one in each slot. *)
LEMMA CapturedRight ==
  ASSUME Known, NEW s \in Slots, MatchesDisk, Lone(disk, s), Heeded(s), NEW first, NEW second,
         s \in DOMAIN EnabledStates(first, second)
  PROVE  EnabledStates(first, second)[s] <=> wanted[s]
<1> DEFINE mine   == {f \in first : SlotOf(f) = s /\ f \in DOMAIN mods}
           theirs == {f \in second : SlotOf(f) = s}
           of     == IF mine # {} THEN mine ELSE theirs
           flags  == {mods[f].on : f \in DOMAIN mods \cap of}
<1>1. EnabledStates(first, second)[s] = (TRUE \in flags)
  BY DEF EnabledStates
<1>2. ASSUME NEW f \in DOMAIN mods \cap of PROVE mods[f].on <=> wanted[s]
  <2>1. f \in Folder /\ SlotOf(f) = s /\ Present(f)
    BY DEF MatchesDisk
  <2>2. Flag(Saved, f, disk[f]) <=> mods[f].on
    BY <2>1, LoadedFlags DEF Known
  <2> QED
    BY <2>1, <2>2 DEF Heeded
<1>3. PICK f \in DOMAIN mods \cap (first \cup second) : SlotOf(f) = s
  BY DEF EnabledStates
<1>4. DOMAIN mods \cap of # {}
  BY <1>3
<1>5. \A g \in DOMAIN mods \cap of : mods[g].on \in BOOLEAN
  BY DEF Known, TypeInv, TypeOK, RuntimeTypeOK, Mod
<1>6. TRUE \in flags <=> wanted[s]
  <2> HIDE DEF of
  <2>1. ASSUME wanted[s] PROVE TRUE \in flags
    BY <1>2, <1>4, <1>5, <2>1
  <2>2. ASSUME TRUE \in flags PROVE wanted[s]
    <3>1. PICK g \in DOMAIN mods \cap of : mods[g].on = TRUE
      BY <2>2
    <3> QED
      BY <1>2, <3>1
  <2> QED
    BY <2>1, <2>2
<1> HIDE DEF flags
<1> QED
  BY <1>1, <1>6

(* The task that runs is the head of the queue; the others move up.        *)
LEMMA TaskMoves ==
  ASSUME TypeInv, RunTask
  PROVE  /\ \A i \in DOMAIN queue : i # 1 => i - 1 \in DOMAIN queue' /\ queue'[i - 1] = queue[i]
         /\ \A i \in DOMAIN queue' : i + 1 \in DOMAIN queue /\ queue'[i] = queue[i + 1]
         /\ \A i \in DOMAIN queue : i \in Int
<1>1. /\ queue \in Seq(Task) /\ Len(queue) \in Nat /\ DOMAIN queue = 1 .. Len(queue)
      /\ Len(queue') = Len(queue) - 1 /\ queue' \in Seq(Task) /\ DOMAIN queue' = 1 .. Len(queue')
      /\ \A i \in 1 .. Len(queue') : queue'[i] = queue[i + 1]
  BY HeadTailProperties, LenProperties DEF RunTask, TypeInv
<1>2. ASSUME NEW i \in DOMAIN queue, i # 1 PROVE i - 1 \in DOMAIN queue' /\ queue'[i - 1] = queue[i]
  <2>1. i - 1 \in DOMAIN queue' /\ (i - 1) + 1 = i
    BY <1>1, <1>2
  <2> QED
    BY <1>1, <2>1
<1> QED
  BY <1>1, <1>2

LEMMA CarriedMoves ==
  ASSUME TypeInv, RunTask, NEW s, NEW i \in DOMAIN queue, i # 1, LastReload(i), s \in DOMAIN queue[i].states, InSync'
  PROVE  Carried(s)'
<1>1. /\ i - 1 \in DOMAIN queue' /\ queue'[i - 1] = queue[i] /\ i \in Int
      /\ \A j \in DOMAIN queue' : j + 1 \in DOMAIN queue /\ queue'[j] = queue[j + 1] /\ j + 1 \in Int
  BY TaskMoves
<1>2. ASSUME NEW j \in DOMAIN queue', j > i - 1 PROVE j + 1 > i
  <2>1. j \in Int
    <3>1. queue' \in Seq(Task)
      BY HeadFacts DEF RunTask, TypeInv
    <3> QED
      BY <3>1, LenProperties
  <2> QED
    BY <1>1, <1>2, <2>1
<1>3. LastReload(i - 1)'
  BY <1>1, <1>2 DEF LastReload
<1> QED
  BY <1>1, <1>3 DEF Carried

LEMMA StatesRunTask ==
  ASSUME Known, RunTask, NEW s, SlotInv(s), wanted'[s] = wanted[s],
         captured' = captured \/ (s \in DOMAIN captured' => (captured'[s] <=> wanted[s]))
  PROVE  StatesInv(s)' /\ FoldersInv(s)'
<1>1. UNCHANGED <<wpc, disk, before>>
  BY RunTaskFacts DEF Known
<1>2. \A i \in DOMAIN queue' : i + 1 \in DOMAIN queue /\ queue'[i] = queue[i + 1]
  BY TaskMoves DEF Known
<1>3. StatesInv(s)'
  BY <1>1, <1>2 DEF SlotInv, StatesInv
<1>4. FoldersInv(s)'
  BY <1>1 DEF SlotInv, FoldersInv, Lone
<1> QED
  BY <1>3, <1>4

LEMMA SlotCapture ==
  ASSUME Known, NEW s \in Slots, SlotInv(s), RunTask, wpc = "capture", reply' = "yes" PROVE SlotInv(s)'
<1>1. /\ MatchesDisk /\ UNCHANGED <<runtimeVars, disk, broken, wpc, op, before, wanted, exempt>> /\ queue' = <<>>
      /\ \E conflicts : captured' = EnabledStates(plan.old, conflicts)
  BY CaptureAnswered DEF Known, OnTrack
<1>2. Heeded(s)
  <2>1. ASSUME Carried(s) PROVE FALSE
    <3>1. PICK i \in DOMAIN queue : queue[i].kind \notin {"capture", "unload"}
      BY <2>1 DEF Carried, InSync, LastReload
    <3>2. i = 1
      BY <1>1, <3>1, TaskMoves DEF Known
    <3>3. queue[1].kind = "capture"
      <4>1. reply = "none"
        BY DEF RunTask, Known, QueueInv
      <4>2. PICK t \in Task : t = Head(queue) /\ queue # <<>> /\ (~t.awaited => reply' = reply)
        BY RunTaskFacts DEF Known
      <4>3. t = queue[1] /\ 1 \in DOMAIN queue
        BY <4>2, HeadFacts DEF Known, TypeInv
      <4>4. t = TaskFor
        BY <4>1, <4>2, <4>3, AnswerIsOwn DEF Known
      <4> QED
        BY <4>3, <4>4 DEF TaskFor
    <3> QED
      BY <3>1, <3>2, <3>3
  <2> QED
    BY <2>1 DEF SlotInv
<1>3. s \in DOMAIN captured' => (captured'[s] <=> wanted[s])
  BY <1>1, <1>2, CapturedRight DEF SlotInv, FoldersInv
<1>4. StatesInv(s)' /\ FoldersInv(s)'
  BY <1>1, <1>3, StatesRunTask
<1>5. (Heeded(s)' <=> Heeded(s)) /\ Saved' = Saved
  BY <1>1, SameLoaded DEF runtimeVars
<1>6. BareInv(s)'
  BY <1>1, <1>5 DEF SlotInv, BareInv, Bare
<1> QED
  BY <1>2, <1>4, <1>5, <1>6 DEF SlotInv

LEMMA SlotLateCapture ==
  ASSUME Known, NEW s \in Slots, SlotInv(s), RunTask, ~(wpc = "capture" /\ reply' = "yes"),
         queue[1].kind = "capture"
  PROVE  SlotInv(s)'
<1>1. PICK t \in Task :
        /\ queue # <<>> /\ t = Head(queue)
        /\ TaskEffect(t)
        /\ ~t.awaited => reply' = reply
        /\ UNCHANGED <<disk, wpc, asked, op, before, wanted>>
  BY RunTaskFacts DEF Known
<1>2. t = queue[1] /\ 1 \in DOMAIN queue
  BY <1>1, HeadFacts DEF Known, TypeInv
<1>3. UNCHANGED <<mods, config, runtimeUnloaded>>
  BY <1>1, <1>2 DEF TaskEffect, runtimeVars
<1>4. captured' = captured
  BY TaskLeavesPlan DEF Known
<1>5. InSync' <=> InSync
  <2>1. CASE t.awaited
    BY <1>1, <1>2, <2>1 DEF Known, QueueInv, InSync
  <2>2. CASE ~t.awaited
    BY <1>1, <2>2 DEF InSync
  <2> QED
    BY <2>1, <2>2
<1>6. Carried(s) => Carried(s)'
  <2>1. CASE InSync
    <3>1. \A i \in DOMAIN queue : LastReload(i) => i # 1
      BY DEF LastReload
    <3> QED
      BY <1>5, <2>1, <3>1, CarriedMoves DEF Carried, Known
  <2>2. CASE ~InSync
    BY <1>4, <1>5, <2>2 DEF Carried
  <2> QED
    BY <2>1, <2>2
<1>7. StatesInv(s)' /\ FoldersInv(s)'
  BY <1>1, <1>4, StatesRunTask
<1>8. (Heeded(s)' <=> Heeded(s)) /\ Saved' = Saved
  BY <1>1, <1>3, SameLoaded
<1>9. BareInv(s)'
  BY <1>1, <1>8 DEF SlotInv, BareInv, Bare
<1> QED
  BY <1>6, <1>7, <1>8, <1>9 DEF SlotInv

(* The unload runs when nothing else is queued and memory is as on disk.   *)
LEMMA UnloadRuns ==
  ASSUME Known, RunTask, queue[1].kind = "unload"
  PROVE  /\ wpc = "unload" /\ MatchesDisk /\ queue' = <<>> /\ ~Pending /\ InSync
         /\ UNCHANGED <<plan, captured, disk, broken, wpc, op, before, wanted>>
         /\ (UnloadForMutation(Replaced) /\ reply' = "yes") \/ UnloadForMutationFails(Replaced)
<1>1. PICK t \in Task :
        /\ queue # <<>> /\ t = Head(queue) /\ queue' = Tail(queue) /\ t = queue[1] /\ 1 \in DOMAIN queue
        /\ \/ t.kind = "capture" /\ UNCHANGED mods
           \/ t.kind = "unload" /\ UnloadForMutation(t.roots) /\ (t.awaited => reply' = "yes")
           \/ t.kind = "unload" /\ UnloadForMutationFails(t.roots)
           \/ Reloads(t) /\ Reload(t.states)
           \/ Reloads(t) /\ ReloadGivesUp /\ gaveUp'
        /\ ~t.awaited => reply' = reply
  BY ReloadFacts DEF Known
<1>2. wpc = "unload" /\ t.awaited
  BY <1>1 DEF Known, OnTrack, LoadedInv, Unloads
<1>3. t = TaskFor
  BY <1>1, <1>2 DEF Known, AskedInv
<1>4. queue' = <<>>
  <2>1. queue \in Seq(Task) /\ Len(queue) = 1
    BY <1>1, <1>2 DEF Known, TypeInv, QueueInv
  <2> QED
    BY <1>1, <2>1, HeadTailProperties, EmptySeq
<1>5. ~Pending /\ reply = "none"
  BY <1>1, <1>2 DEF Known, ShapeInv, QueueInv
<1>6. InSync
  BY <1>2, <1>5 DEF InSync
<1>7. MatchesDisk
  BY <1>5, <1>6 DEF Known, OnTrack, LoadedInv
<1>8. UNCHANGED <<disk, broken, wpc, op, before, wanted>>
  BY RunTaskFacts DEF Known
<1>9. plan' = plan /\ captured' = captured
  BY <1>2, TaskLeavesPlan DEF Known
<1>10. t.roots = Replaced
  BY <1>2, <1>3 DEF TaskFor
<1>11. (UnloadForMutation(Replaced) /\ reply' = "yes") \/ UnloadForMutationFails(Replaced)
  BY <1>1, <1>2, <1>10 DEF Reloads
<1> QED
  BY <1>2, <1>4, <1>5, <1>6, <1>7, <1>8, <1>9, <1>11

LEMMA SlotUnload ==
  ASSUME Known, NEW s \in Slots, SlotInv(s), RunTask, queue[1].kind = "unload" PROVE SlotInv(s)'
<1>0. PICK c : c = Export(Disabled(Replaced))
  OBVIOUS
<1>1. /\ wpc = "unload" /\ MatchesDisk /\ queue' = <<>> /\ ~Pending /\ InSync
      /\ UNCHANGED <<plan, captured, disk, broken, wpc, op, before, wanted>>
      /\ (UnloadForMutation(Replaced) /\ reply' = "yes") \/ UnloadForMutationFails(Replaced)
  BY UnloadRuns
<1>2. Heeded(s) /\ Lone(disk, s)
  BY <1>1 DEF SlotInv, FoldersInv, Carried, LastReload, Pending
<1>3. /\ DOMAIN captured = {SlotOf(f) : f \in Replaced}
      /\ \A f \in Folder : disk[f] = before[f] /\ before[f] < op /\ before[f] \in Int /\ op \in Int
  <2>1. Resolved /\ wpc \in Early /\ wpc # "idle"
    BY <1>1 DEF Resolved, Early
  <2>2. DOMAIN captured = {SlotOf(f) : f \in Replaced}
    BY <2>1 DEF Known, PlanInv
  <2>3. \A f \in Folder : disk[f] = before[f]
    BY <2>1, EarlyDisk DEF Known
  <2>4. \A f \in Folder : before[f] < op /\ before[f] \in Int /\ op \in Int
    BY <2>1, FolderTypes, ContentFacts DEF Known, JobInv, Numbered, TypeInv, TypeOK
  <2> QED
    BY <2>2, <2>3, <2>4
<1>4. StatesInv(s)' /\ FoldersInv(s)'
  BY <1>1, StatesRunTask
<1>5. ASSUME NEW f \in Folder, SlotOf(f) = s, Present(f), f \notin Replaced
      PROVE  Flag(c, f, disk[f]) <=> wanted[s]
  <2>1. f \in DOMAIN mods /\ mods[f].version = disk[f] /\ (Flag(Saved, f, disk[f]) <=> mods[f].on)
    BY <1>1, <1>5, LoadedFlags DEF Known
  <2>2. Flag(c, f, disk[f]) <=> mods[f].on
    BY <1>0, <1>5, <2>1, DisabledFlag DEF Known
  <2> QED
    BY <1>2, <1>5, <2>1, <2>2 DEF Heeded
<1>6. CASE UnloadForMutation(Replaced) /\ reply' = "yes"
  <2>1. Saved' = c
    BY <1>0, <1>6 DEF Saved, UnloadForMutation
  <2>2. ~InSync'
    BY <1>1, <1>6 DEF InSync
  <2>3. s \notin DOMAIN captured => Heeded(s)'
    BY <1>1, <1>3, <1>5, <2>1 DEF Heeded, Present
  <2>4. Flag(c, Dest(s), op)
    <3>1. ASSUME <<Dest(s), op>> \in DOMAIN c PROVE FALSE
      <4>1. Dest(s) \in DOMAIN mods /\ mods[Dest(s)].version = op
        BY <1>0, <3>1 DEF Export, Entries, Entry, Disabled, Known, TypeInv, TypeOK, RuntimeTypeOK, Mod
      <4>2. disk[Dest(s)] = op /\ Dest(s) \in Folder
        BY <1>1, <4>1 DEF MatchesDisk
      <4> QED
        BY <1>3, <4>2
    <3> QED
      BY <3>1 DEF Flag
  <2>5. BareInv(s)'
    BY <1>1, <2>1, <2>4 DEF SlotInv, BareInv
  <2> QED
    BY <1>1, <1>4, <2>2, <2>3, <2>5 DEF SlotInv, Carried
<1>7. CASE UnloadForMutationFails(Replaced)
  <2>0. PICK states : states = EnabledStates(Replaced, {})
    OBVIOUS
  <2>1. mods' = Discover(c, states) /\ runtimeUnloaded' = FALSE /\ states \in States
    BY <1>0, <1>7, <2>0, EnabledStatesType DEF UnloadForMutationFails, Known, TypeInv, TypeOK, RuntimeTypeOK, ModsType
  <2>2. s \in DOMAIN states => (states[s] <=> wanted[s])
    BY <1>1, <1>2, <2>0, CapturedRight
  <2>3. ASSUME s \notin DOMAIN states, NEW f \in Folder, SlotOf(f) = s, Present(f) PROVE f \notin Replaced
    <3>1. f \in DOMAIN mods
      BY <1>1, <2>3 DEF MatchesDisk
    <3> QED
      BY <2>0, <2>3, <3>1 DEF EnabledStates
  <2>4. Right(c, states, s)
    BY <1>5, <2>2, <2>3 DEF Right
  <2>5. \A f \in Folder : ~Rejected(f)
    BY <1>1 DEF Known, SoundInv, Undoable, Forward, Back
  <2>6. Heeded(s)'
    BY <1>1, <1>2, <2>1, <2>4, <2>5, ReloadHeeds
  <2>7. Flag(Saved', Dest(s), op)
    <3>1. ~(Dest(s) \in DOMAIN mods' /\ mods'[Dest(s)].version = op)
      <4>1. ASSUME Dest(s) \in DOMAIN mods', mods'[Dest(s)].version = op PROVE FALSE
        <5>1. disk[Dest(s)] = op /\ Dest(s) \in Folder
          BY <2>1, <4>1, DiscoverFacts
        <5> QED
          BY <1>3, <5>1
      <4> QED
        BY <4>1
    <3>2. Saved' = Export(mods')
      BY <2>1 DEF Saved
    <3> QED
      BY <3>1, <3>2, ExportFlag
  <2>8. BareInv(s)'
    BY <1>1, <2>7 DEF SlotInv, BareInv
  <2> QED
    BY <1>4, <2>6, <2>8 DEF SlotInv
<1> QED
  BY <1>1, <1>6, <1>7

LEMMA SlotReload ==
  ASSUME Known, OnTrack', SoundInv', NEW s \in Slots, SlotInv(s), RunTask, Reloads(queue[1]) PROVE SlotInv(s)'
<1>1. PICK t \in Task :
        /\ queue # <<>> /\ t = Head(queue) /\ queue' = Tail(queue) /\ t = queue[1] /\ 1 \in DOMAIN queue
        /\ \/ t.kind = "capture" /\ UNCHANGED mods
           \/ t.kind = "unload" /\ UnloadForMutation(t.roots) /\ (t.awaited => reply' = "yes")
           \/ t.kind = "unload" /\ UnloadForMutationFails(t.roots)
           \/ Reloads(t) /\ Reload(t.states)
           \/ Reloads(t) /\ ReloadGivesUp /\ gaveUp'
        /\ ~t.awaited => reply' = reply
  BY ReloadFacts DEF Known
<1>2. /\ UNCHANGED <<disk, broken, placed, wpc, asked, op, before, wanted>>
      /\ t.states \in States /\ reply = "none"
  BY <1>1, RunTaskFacts, TaskFields DEF Known, QueueInv
<1>3. Reload(t.states)
  BY <1>1 DEF OnTrack, Calm, Reloads
<1>4. mods' = Discover(Saved, t.states) /\ runtimeUnloaded' = FALSE
  BY <1>3 DEF Reload
<1>5. wpc \notin {"unload", "capture"} \/ ~t.awaited
  BY <1>1 DEF Known, AskedInv, TaskFor, Reloads
<1>6. captured' = captured
  <2>1. ~(wpc = "capture" /\ reply' = "yes")
    BY <1>1, <1>2, <1>5
  <2> QED
    BY <2>1, TaskLeavesPlan DEF Known
<1>7. wpc # "unload"
  BY <1>1 DEF Known, ShapeInv, Pending, Reloads
<1>8. InSync => InSync'
  BY <1>2, <1>7 DEF InSync
<1>9. InSync' => InSync \/ (wpc = "verify" /\ t = TaskFor)
  <2>1. reply' # "none" => t.awaited /\ t = TaskFor
    BY <1>1, <1>2 DEF Known, AskedInv
  <2> QED
    BY <1>2, <1>7, <2>1 DEF InSync
<1>10. /\ Lone(disk, s)
       /\ s \in DOMAIN t.states => (t.states[s] <=> wanted[s])
  BY <1>1 DEF SlotInv, FoldersInv, StatesInv
<1>11. BareInv(s)'
  <2>1. CASE wpc = "idle"
    BY <1>2, <2>1 DEF SlotInv, BareInv, Bare
  <2>2. CASE wpc # "idle" /\ Bare(before, s)
    <3>1. wanted[s] /\ Flag(Saved, Dest(s), op)
      BY <2>2 DEF SlotInv, BareInv
    <3>2. Dest(s) \in Folder /\ SlotOf(Dest(s)) = s
      BY FolderFacts
    <3>3. Flag(Saved', Dest(s), op)
      BY <1>2, <1>4, <1>10, <3>1, <3>2, ReloadEnables
    <3> QED
      BY <1>2, <2>2, <3>1, <3>3 DEF BareInv
  <2>3. CASE wpc # "idle" /\ ~Bare(before, s)
    BY <1>2, <2>3 DEF BareInv, Bare
  <2> QED
    BY <2>1, <2>2, <2>3
<1>12. StatesInv(s)' /\ FoldersInv(s)'
  BY <1>2, <1>6, StatesRunTask
<1>13. Heeded(s)' \/ Carried(s)'
  <2>1. CASE ~InSync' /\ s \in DOMAIN captured
    BY <1>6, <2>1 DEF Carried
  <2>2. CASE InSync' \/ s \notin DOMAIN captured
    <3>1. \A f \in Folder : SlotOf(f) = s /\ Rejected(f) => wanted[s]
      <4>1. CASE s \notin DOMAIN captured
        BY <4>1, RejectedWanted
      <4>2. CASE InSync'
        <5>1. \A f \in Folder : Rejected(f)' <=> Rejected(f)
          BY <1>2 DEF Rejected
        <5>2. wpc' \notin Undoable \/ (wpc' = "verify" /\ reply' = "yes")
          BY <4>2 DEF InSync, Undoable, Forward, Back
        <5> QED
          BY <5>1, <5>2 DEF SoundInv
      <4> QED
        BY <2>2, <4>1, <4>2
    <3>2. CASE s \in DOMAIN t.states \/ Heeded(s)
      <4>1. Right(Saved, t.states, s)
        BY <1>10, <3>2 DEF Right, Heeded
      <4> QED
        BY <1>2, <1>4, <1>10, <3>1, <4>1, ReloadHeeds
    <3>3. CASE s \notin DOMAIN t.states /\ ~Heeded(s)
      <4>1. Carried(s)
        BY <3>3 DEF SlotInv
      <4>2. CASE InSync
        <5>1. PICK i \in DOMAIN queue : LastReload(i) /\ s \in DOMAIN queue[i].states
          BY <4>1, <4>2 DEF Carried
        <5>2. i # 1
          BY <1>1, <3>3, <5>1
        <5> QED
          BY <1>8, <4>2, <5>1, <5>2, CarriedMoves DEF Known
      <4>3. CASE ~InSync
        <5>1. s \in DOMAIN captured /\ InSync'
          BY <2>2, <4>1, <4>3 DEF Carried
        <5>2. wpc = "verify" /\ t = TaskFor
          BY <1>9, <4>3, <5>1
        <5>3. ~Installs
          BY <3>3, <5>1, <5>2 DEF TaskFor
        <5>4. \A f \in Folder : disk[f] = After(f)
          BY <5>2 DEF Known, JobInv, Outcomes
        <5>5. idx = s
          <6>1. PICK f \in Replaced : SlotOf(f) = s
            BY <5>1, <5>2 DEF Known, PlanInv, Resolved
          <6> QED
            BY <5>3, <6>1 DEF Known, JobInv, Planned, Replaced
        <5>6. Bare(disk, s)
          BY <5>2, <5>3, <5>4, <5>5, RemovedIsGone DEF SlotInv
        <5> QED
          BY <1>2, <5>6 DEF Bare, Heeded, Present
      <4> QED
        BY <4>2, <4>3
    <3> QED
      BY <3>2, <3>3
  <2> QED
    BY <2>1, <2>2
<1> QED
  BY <1>11, <1>12, <1>13 DEF SlotInv

LEMMA SlotRunTask ==
  ASSUME Known, OnTrack', SoundInv', NEW s \in Slots, SlotInv(s), RunTask PROVE SlotInv(s)'
<1>1. queue[1].kind \in {"capture", "unload"} \/ Reloads(queue[1])
  <2>1. queue[1] \in Task
    BY HeadFacts DEF RunTask, Known, TypeInv
  <2> QED
    BY <2>1 DEF Task, Reloads
<1> QED
  BY <1>1, SlotCapture, SlotLateCapture, SlotUnload, SlotReload

-----------------------------------------------------------------------------
(* The user.                                                               *)

LEMMA SlotToggle ==
  ASSUME Known, NEW s \in Slots, s \notin exempt', SlotInv(s), Toggle PROVE SlotInv(s)'
<1>1. PICK f \in DOMAIN mods :
        /\ mods' = [mods EXCEPT ![f].on = ~mods[f].on]
        /\ wanted' = [wanted EXCEPT ![SlotOf(f)] = ~mods[f].on]
        /\ exempt' = IF FlagsStillOpen THEN exempt ELSE exempt \cup {SlotOf(f)}
        /\ UNCHANGED <<config, runtimeUnloaded>>
  BY DEF Toggle, SetModEnabled
<1>2. /\ UNCHANGED <<disk, wpc, queue, asked, reply, op, captured, before>>
      /\ wanted \in [Slots -> BOOLEAN] /\ DOMAIN mods \subseteq Folder
      /\ \A g \in DOMAIN mods : mods[g] \in Mod
  BY DEF Toggle, waitVars, opVars, Known, TypeInv, TypeOK, RuntimeTypeOK
<1>3. ~runtimeUnloaded /\ Saved = Export(mods) /\ Saved' = Export(mods')
  BY <1>1 DEF Known, ShapeInv, Nothing, Saved
<1>4. /\ DOMAIN mods' = DOMAIN mods
      /\ \A g \in DOMAIN mods : mods'[g].version = mods[g].version /\ (g # f => mods'[g] = mods[g])
      /\ mods'[f].on = ~mods[f].on
  BY <1>1, <1>2 DEF Mod
<1>5. FoldersInv(s)'
  BY <1>2 DEF SlotInv, FoldersInv, Lone
<1>6. (InSync' <=> InSync) /\ (Carried(s)' <=> Carried(s))
  BY <1>2 DEF InSync, Carried, LastReload
<1>7. CASE SlotOf(f) # s
  <2>1. wanted'[s] = wanted[s]
    BY <1>1, <1>2, <1>7
  <2>2. ASSUME NEW g, SlotOf(g) = s, NEW v PROVE Flag(Saved', g, v) <=> Flag(Saved, g, v)
    <3>1. g # f
      BY <1>7, <2>2
    <3>2. CASE g \in DOMAIN mods /\ mods[g].version = v
      BY <1>3, <1>4, <3>1, <3>2, ExportFlag
    <3>3. CASE ~(g \in DOMAIN mods /\ mods[g].version = v)
      <4>1. ~(g \in DOMAIN mods' /\ mods'[g].version = v)
        BY <1>4, <3>3
      <4> QED
        BY <1>3, <3>3, <4>1, ExportFlag
    <3> QED
      BY <3>2, <3>3
  <2>3. SlotOf(Dest(s)) = s
    BY FolderFacts
  <2>4. BareInv(s)'
    BY <1>2, <2>1, <2>2, <2>3 DEF SlotInv, BareInv, Bare
  <2>5. Heeded(s) => Heeded(s)'
    BY <1>2, <2>1, <2>2 DEF Heeded, Present
  <2>6. StatesInv(s)'
    BY <1>2, <2>1 DEF SlotInv, StatesInv
  <2> QED
    BY <1>5, <1>6, <2>4, <2>5, <2>6 DEF SlotInv
<1>8. CASE SlotOf(f) = s
  <2>1. FlagsStillOpen
    BY <1>1, <1>8
  <2>2. queue = <<>> /\ DOMAIN queue = {} /\ InSync /\ (wpc = "idle" \/ (wpc = "capture" /\ ~asked))
    <3>1. queue = <<>> /\ (wpc = "idle" \/ (wpc = "capture" /\ ~asked))
      BY <2>1 DEF FlagsStillOpen
    <3>2. DOMAIN queue = {}
      BY <3>1
    <3>3. InSync
      BY <3>1 DEF InSync
    <3> QED
      BY <3>1, <3>2, <3>3
  <2>3. MatchesDisk
    BY <2>2 DEF Known, OnTrack, LoadedInv, Pending
  <2>4. f \in Folder /\ Present(f) /\ mods[f].version = disk[f]
    BY <2>3 DEF MatchesDisk
  <2>5. \A g \in Folder : SlotOf(g) = s /\ Present(g) => g = f
    BY <1>8, <2>4 DEF SlotInv, FoldersInv, Lone, Present
  <2>6. wanted'[s] = ~mods[f].on
    BY <1>1, <1>2, <1>8
  <2>7. Flag(Saved', f, disk[f]) <=> wanted'[s]
    <3>1. f \in DOMAIN mods' /\ mods'[f].version = disk[f] /\ (mods'[f].on <=> wanted'[s])
      BY <1>4, <2>4, <2>6
    <3> QED
      BY <1>3, <3>1, ExportFlag
  <2>8. Heeded(s)'
    BY <1>2, <2>5, <2>7 DEF Heeded, Present
  <2>9. BareInv(s)'
    <3>1. ~Bare(disk, s)
      BY <1>8, <2>4 DEF Bare, Present
    <3>2. wpc = "capture" => ~Bare(before, s)
      BY <1>8, <2>4, EarlyDisk DEF Bare, Present, Known, Early
    <3> QED
      BY <1>2, <2>2, <3>1, <3>2 DEF BareInv, Bare
  <2>10. StatesInv(s)'
    <3>1. wpc = "capture" => captured = <<>>
      BY <2>2 DEF Known, QueueInv, ShapeInv
    <3>2. DOMAIN <<>> = {}
      OBVIOUS
    <3> QED
      BY <1>2, <2>2, <3>1, <3>2 DEF StatesInv
  <2> QED
    BY <1>5, <2>8, <2>9, <2>10 DEF SlotInv
<1> QED
  BY <1>7, <1>8

LEMMA SlotReloadMods ==
  ASSUME Known, OnTrack', NEW s \in Slots, SlotInv(s), ReloadMods PROVE SlotInv(s)'
<1>1. mods' = Discover(Saved, <<>>) /\ runtimeUnloaded' = FALSE
  BY DEF ReloadMods, OnTrack, Calm, LoadMods
<1>2. UNCHANGED <<disk, broken, wpc, queue, asked, reply, op, captured, before, wanted>>
  BY DEF ReloadMods, waitVars, opVars, historyVars
<1>3. <<>> \in States /\ DOMAIN <<>> = {}
  BY NoStates
<1>4. FoldersInv(s)' /\ StatesInv(s)'
  BY <1>2 DEF SlotInv, FoldersInv, Lone, StatesInv
<1>5. (InSync' <=> InSync) /\ (Carried(s)' <=> Carried(s))
  BY <1>2 DEF InSync, Carried, LastReload
<1>6. Lone(disk, s)
  BY DEF SlotInv, FoldersInv
<1>7. BareInv(s)'
  <2>1. SlotOf(Dest(s)) = s /\ Dest(s) \in Folder
    BY FolderFacts
  <2>2. Flag(Saved, Dest(s), op) => Flag(Saved', Dest(s), op)
    BY <1>1, <1>3, <1>6, <2>1, ReloadEnables
  <2> QED
    BY <1>2, <2>2 DEF SlotInv, BareInv, Bare
<1>8. Heeded(s)' \/ Carried(s)'
  <2>1. CASE Carried(s)
    BY <1>5, <2>1
  <2>2. CASE ~Carried(s)
    <3>1. Heeded(s)
      BY <2>2 DEF SlotInv
    <3>2. \A f \in Folder : SlotOf(f) = s /\ Rejected(f) => wanted[s]
      <4>1. CASE InSync
        BY <4>1 DEF InSync, Known, SoundInv, Undoable, Forward, Back
      <4>2. CASE ~InSync
        BY <2>2, <4>2, RejectedWanted DEF Carried
      <4> QED
        BY <4>1, <4>2
    <3>3. Right(Saved, <<>>, s)
      BY <1>3, <3>1 DEF Right, Heeded
    <3> QED
      BY <1>1, <1>2, <1>3, <1>6, <3>2, <3>3, ReloadHeeds
  <2> QED
    BY <2>1, <2>2
<1> QED
  BY <1>4, <1>7, <1>8 DEF SlotInv

-----------------------------------------------------------------------------
(* The choice at the beginning, and through every step.                    *)
LEMMA ChoiceInit == ASSUME Init PROVE PlanInv /\ ChoiceInv
<1>1. /\ wpc = "idle" /\ queue = <<>> /\ runtimeUnloaded = FALSE /\ config = Export(mods)
      /\ mods \in [{f \in Folder : Present(f)} -> [version : {0}, on : BOOLEAN]]
      /\ disk \in [Folder -> {0, Absent}]
      /\ wanted = [s \in Slots |-> \A f \in DOMAIN mods : SlotOf(f) = s => mods[f].on]
      /\ exempt = {s \in Slots : \A f \in Folder : SlotOf(f) = s => Present(f)}
  BY DEF Init, RuntimeInit
<1>2. PlanInv
  BY <1>1 DEF PlanInv, Resolved
<1>3. Saved = Export(mods) /\ DOMAIN queue = {}
  BY <1>1 DEF Saved
<1>4. ASSUME NEW s \in Slots \ exempt PROVE SlotInv(s)
  <2>1. PICK gap \in Folder : SlotOf(gap) = s /\ ~Present(gap)
    BY <1>1, <1>4
  <2>2. \A f, g \in Folder : SlotOf(f) = s /\ SlotOf(g) = s /\ Present(f) /\ Present(g) => f = g
    <3>1. \A f, g \in Folder :
            SlotOf(f) = s /\ SlotOf(g) = s /\ f # gap /\ g # gap => f = g
      BY <2>1 DEF Folder, SlotOf
    <3> QED
      BY <2>1, <3>1
  <2>3. \A f \in Folder : SlotOf(f) = s /\ Present(f) => (mods[f].on <=> wanted[s])
    BY <1>1, <2>2
  <2>4. \A f \in Folder : Present(f) => (f \in DOMAIN mods /\ mods[f].version = disk[f])
    <3>1. ASSUME NEW f \in Folder, Present(f) PROVE f \in DOMAIN mods /\ mods[f].version = disk[f]
      <4>1. f \in DOMAIN mods /\ mods[f].version = 0
        BY <1>1, <3>1
      <4>2. disk[f] = 0
        BY <1>1, <3>1, ContentFacts DEF Present
      <4> QED
        BY <4>1, <4>2
    <3> QED
      BY <3>1
  <2>5. Heeded(s)
    <3>1. ASSUME NEW f \in Folder, SlotOf(f) = s, Present(f) PROVE Flag(Saved, f, disk[f]) <=> wanted[s]
      <4>1. f \in DOMAIN mods /\ mods[f].version = disk[f] /\ (mods[f].on <=> wanted[s])
        BY <2>3, <2>4, <3>1
      <4> QED
        BY <1>3, <4>1, ExportFlag
    <3> QED
      BY <3>1 DEF Heeded
  <2>6. FoldersInv(s)
    BY <1>1, <2>2 DEF FoldersInv, Lone, Present
  <2>7. BareInv(s)
    BY <1>1 DEF BareInv, Bare, Present
  <2>8. StatesInv(s)
    BY <1>1, <1>3 DEF StatesInv
  <2> QED
    BY <2>5, <2>6, <2>7, <2>8 DEF SlotInv
<1> QED
  BY <1>2, <1>4 DEF ChoiceInv

LEMMA SlotStutter == ASSUME NEW s, SlotInv(s), UNCHANGED vars PROVE SlotInv(s)'
<1>1. UNCHANGED <<disk, mods, config, runtimeUnloaded, wanted, before, op, captured, queue, wpc, asked, reply>>
  BY DEF vars, runtimeVars, opVars, waitVars, historyVars
<1>2. (Heeded(s)' <=> Heeded(s)) /\ Saved' = Saved
  BY <1>1, SameLoaded
<1>3. (InSync' <=> InSync)
  BY <1>1 DEF InSync
<1>4. (Carried(s)' <=> Carried(s))
  BY <1>1, <1>3 DEF Carried, LastReload
<1> QED
  BY <1>1, <1>2, <1>4 DEF SlotInv, FoldersInv, Lone, BareInv, Bare, StatesInv

LEMMA ChoiceStep ==
  ASSUME TypeInv, QueueInv, AskedInv, JobInv, SoundInv, LoadedInv, ShapeInv, PlanInv, ChoiceInv,
         [Next]_vars, SoundInv'
  PROVE  ChoiceInv'
<1> SUFFICES ASSUME OnTrack', NEW s \in Slots \ exempt' PROVE SlotInv(s)'
  BY DEF ChoiceInv
<1>1. OnTrack
  BY OnTrackBefore
<1>2. exempt \subseteq exempt'
  BY DEF Next, Worker, StartInstall, StartRemove, Start, Ask, Captured, Check, Unloaded, BackUp, Place, Verified,
         Discard, UndoNew, Undo, Restored, Report, RunTask, Toggle, ReloadMods, Cancel, vars, historyVars
<1>3. Known /\ s \in Slots /\ s \notin exempt' /\ SlotInv(s)
  BY <1>1, <1>2 DEF Known, ChoiceInv
<1>4. CASE Worker
  <2>1. CASE StartInstall \/ StartRemove
    BY <1>3, <2>1, SlotStart
  <2>2. CASE Ask
    BY <1>3, <2>2, SlotAsk
  <2>3. CASE Captured \/ Unloaded \/ Verified \/ Restored
    BY <1>3, <2>3, SlotAnswer
  <2>4. CASE Check \/ Discard
    BY <1>3, <2>4, SlotCheck
  <2>5. CASE BackUp \/ UndoNew
    BY <1>3, <2>5, SlotBackUp
  <2>6. CASE Place
    BY <1>3, <2>6, SlotPlace
  <2>7. CASE Undo
    BY <1>3, <2>7, SlotUndo
  <2>8. CASE Report
    BY <1>3, <2>8, SlotReport
  <2> QED
    BY <1>4, <2>1, <2>2, <2>3, <2>4, <2>5, <2>6, <2>7, <2>8 DEF Worker
<1>5. CASE RunTask
  BY <1>3, <1>5, SlotRunTask
<1>6. CASE Toggle
  BY <1>3, <1>6, SlotToggle
<1>7. CASE ReloadMods
  BY <1>3, <1>7, SlotReloadMods
<1>8. CASE Cancel
  BY <1>3, <1>8, SlotCheck
<1>9. CASE UNCHANGED vars
  BY <1>3, <1>9, SlotStutter
<1> QED
  BY <1>4, <1>5, <1>6, <1>7, <1>8, <1>9 DEF Next

LEMMA ChoiceSettled ==
  ASSUME TypeInv, LoadedInv, ShapeInv, ChoiceInv, Settled, Calm,
         NEW f \in DOMAIN mods, SlotOf(f) \notin exempt
  PROVE  mods[f].on = wanted[SlotOf(f)]
<1>1. wpc = "idle" /\ queue = <<>> /\ InSync
  BY DEF Settled, InSync
<1>2. DOMAIN queue = {}
  BY <1>1
<1>3. MatchesDisk
  BY <1>1, <1>2 DEF LoadedInv, Pending
<1>4. OnTrack
  BY <1>1 DEF OnTrack, ShapeInv, Back, Calm
<1>5. f \in Folder /\ Present(f) /\ SlotOf(f) \in Slots
  BY <1>3 DEF MatchesDisk, Folder, SlotOf
<1>6. Heeded(SlotOf(f))
  BY <1>1, <1>2, <1>4, <1>5 DEF ChoiceInv, SlotInv, Carried
<1>7. mods[f].on <=> wanted[SlotOf(f)]
  BY <1>3, <1>5, <1>6, LoadedFlags DEF Heeded
<1>8. mods[f].on \in BOOLEAN /\ wanted[SlotOf(f)] \in BOOLEAN
  BY <1>5 DEF TypeInv, TypeOK, RuntimeTypeOK, Mod
<1> QED
  BY <1>7, <1>8

(* An update, also one that failed or was cancelled, leaves every mod      *)
(* enabled or disabled as the user last set it, although the unload saves  *)
(* it as disabled: the flags are captured before the unload and the last   *)
(* reload that is queued carries them (CaptureEnabledStatesForPackages,    *)
(* UnloadModsForFilesystemMutation, ReloadModsWithEnabledStates).          *)
THEOREM UserChoiceIsKept == Spec => []UserChoiceKept
<1> DEFINE LInv == IInv /\ AskedInv /\ SoundInv /\ LoadedInv /\ ShapeInv /\ PlanInv /\ ChoiceInv
<1>1. Init => LInv
  BY InitType, InitQueue, JobInit, NoneAwaited, SoundInit, LoadedInit, ShapeInit, ChoiceInit DEF IInv, Init
<1>2. LInv /\ [Next]_vars => LInv'
  <2> SUFFICES ASSUME LInv, [Next]_vars PROVE LInv'
    OBVIOUS
  <2>1. IInv' /\ AskedInv' /\ SoundInv' /\ LoadedInv'
    BY TypeStep, QueueStep, JobStep, AskedStep, SoundStep, LoadedStep DEF IInv
  <2>2. ShapeInv' /\ PlanInv'
    BY ShapeStep, PlanStep DEF IInv
  <2>3. ChoiceInv'
    BY <2>1, ChoiceStep DEF IInv
  <2> QED
    BY <2>1, <2>2, <2>3
<1>3. LInv => UserChoiceKept
  BY ChoiceSettled DEF UserChoiceKept, IInv
<1> QED
  BY <1>1, <1>2, <1>3, PTL DEF Spec
=============================================================================
