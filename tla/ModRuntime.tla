------------------------------- MODULE ModRuntime -------------------------------
(***************************************************************************)
(* The part of ModManager (src/src/modsystem/modmanager.cpp) that the      *)
(* installer drives from the main thread: the mods in memory, whether they *)
(* are enabled, the file enabledmods.json, and how LoadMods and UnloadMods *)
(* carry the enabled flags across a reload.                                *)
(*                                                                         *)
(* A slot is a mod name.  Two folders can hold a package with that mod:    *)
(* the folder the mod browser manages and one other folder (a manual       *)
(* installation, or a managed one under another name).  A version is the   *)
(* number of the operation that installed it; 0 was there at the start.    *)
(* Packages in different folders have different versions.                  *)
(***************************************************************************)
EXTENDS Integers, FiniteSets

CONSTANTS
  NumSlots,  \* mod names
  MaxOps     \* bound: operations in a behaviour

ASSUME RuntimeAssumption == NumSlots \in Nat \ {0} /\ MaxOps \in Nat

VARIABLES
  disk,             \* what each folder holds
  mods,             \* m_LoadedMods: folder -> version and m_bEnabled
  config,           \* enabledmods.json: folder and version -> enabled
  runtimeUnloaded,  \* m_bRuntimeUnloadedForFilesystemMutation
  broken            \* packages that SearchFilesystemForMods rejects

runtimeVars == <<mods, config, runtimeUnloaded>>

-----------------------------------------------------------------------------
Slots   == 1..NumSlots
Folder  == Slots \X {"managed", "other"}
Version == 0..MaxOps
Absent  == -1
Remains == -2            \* what a remove_all that failed half-way leaves
Content == Version \cup {Absent, Remains}

SlotOf(f) == f[1]
Mod       == [version : Version, on : BOOLEAN]
Nothing   == [f \in {} |-> [version |-> 0, on |-> TRUE]]    \* no mod is loaded

Present(f) == disk[f] \in Version
Entry(m, f) == <<f, m[f].version>>
Entries(m)  == {Entry(m, f) : f \in DOMAIN m}

(* ExportModsConfigurationToFile: exactly the mods in memory. *)
Export(m) == [e \in Entries(m) |-> m[e[1]].on]

(* SearchFilesystemForMods and DisableMultipleModVersions: the flag comes   *)
(* from the overrides, else from the configuration c, else it is set; two  *)
(* enabled versions of one mod disable each other.                          *)
Discover(c, overrides) ==
  LET found    == {f \in Folder : Present(f) /\ <<f, disk[f]>> \notin broken}
      wants(f) == IF SlotOf(f) \in DOMAIN overrides THEN overrides[SlotOf(f)]
                  ELSE <<f, disk[f]>> \in DOMAIN c => c[<<f, disk[f]>>]
      rival(f) == \E g \in found \ {f} : SlotOf(g) = SlotOf(f) /\ wants(g)
  IN [f \in found |-> [version |-> disk[f], on |-> wants(f) /\ ~rival(f)]]

(* DiscoverMods adds the mods it did not know to the configuration. *)
Extended(c, m) ==
  [e \in DOMAIN c \cup Entries(m) |-> IF e \in DOMAIN c THEN c[e] ELSE m[e[1]].on]

(* LoadMods first unloads what is loaded, which saves the configuration,    *)
(* unless UnloadModsForFilesystemMutation has done so.                      *)
Saved == IF runtimeUnloaded THEN config ELSE Export(mods)

LoadMods ==
  LET m == Discover(Saved, <<>>) IN
  mods' = m /\ config' = Extended(Saved, m) /\ runtimeUnloaded' = FALSE

(* LoadMods gives up when UnloadMods fails: the list is empty by then.      *)
CanGiveUp == ~runtimeUnloaded
LoadModsGivesUp ==
  CanGiveUp /\ mods' = Nothing /\ config' = Saved /\ UNCHANGED runtimeUnloaded

Reload_NoOverrides(states) ==       \* mutant: the captured flags are not applied
  LET m == Discover(Saved, <<>>) IN
  mods' = m /\ config' = Export(m) /\ runtimeUnloaded' = FALSE

(* ReloadModsWithEnabledStates *)
Reload(states) ==
  LET m == Discover(Saved, states) IN
  mods' = m /\ config' = Export(m) /\ runtimeUnloaded' = FALSE

ReloadGivesUp ==
  CanGiveUp /\ mods' = Nothing /\ config' = Export(Nothing) /\ UNCHANGED runtimeUnloaded

(* CaptureEnabledStatesForPackages, by mod name; the flag of a package in   *)
(* first goes before the one of the package that it replaces.               *)
EnabledStates(first, second) ==
  LET flags(fs) == {mods[f].on : f \in DOMAIN mods \cap fs}
      of(s)     == LET mine == {f \in first : SlotOf(f) = s /\ f \in DOMAIN mods}
                   IN IF mine # {} THEN mine ELSE {f \in second : SlotOf(f) = s}
  IN [s \in {SlotOf(f) : f \in DOMAIN mods \cap (first \cup second)} |-> TRUE \in flags(of(s))]

(* UnloadModsForFilesystemMutation: the mods of the packages are disabled   *)
(* before UnloadMods saves the configuration and empties the list.          *)
Disabled(roots) ==
  [f \in DOMAIN mods |-> [mods[f] EXCEPT !.on = @ /\ f \notin roots]]

UnloadForMutation(roots) ==
  /\ config' = Export(Disabled(roots))
  /\ mods' = Nothing
  /\ runtimeUnloaded' = TRUE

(* UnloadMods failed: the mods are loaded again with the captured flags. *)
UnloadForMutationFails(roots) ==
  LET m == Discover(Export(Disabled(roots)), EnabledStates(roots, {})) IN
  mods' = m /\ config' = Export(m) /\ runtimeUnloaded' = FALSE

(* NSSetModEnabled *)
SetModEnabled(f, on) ==
  /\ f \in DOMAIN mods
  /\ mods' = [mods EXCEPT ![f].on = on]
  /\ UNCHANGED <<config, runtimeUnloaded>>

RuntimeInit ==
  /\ disk \in [Folder -> {0, Absent}]
  /\ broken = {}
  /\ mods \in [{f \in Folder : Present(f)} -> [version : {0}, on : BOOLEAN]]
  /\ \A f, g \in DOMAIN mods :
       f # g /\ SlotOf(f) = SlotOf(g) => ~(mods[f].on /\ mods[g].on)
  /\ config = Export(mods)
  /\ runtimeUnloaded = FALSE

RuntimeTypeOK ==
  /\ disk \in [Folder -> Content]
  /\ DOMAIN mods \subseteq Folder /\ \A f \in DOMAIN mods : mods[f] \in Mod
  /\ DOMAIN config \subseteq Folder \X Version /\ \A e \in DOMAIN config : config[e] \in BOOLEAN
  /\ runtimeUnloaded \in BOOLEAN
  /\ broken \subseteq Folder \X Version
=============================================================================
