------------------------------ MODULE ModDownloader ------------------------------
(***************************************************************************)
(* Automatic download of the mods a server requires                        *)
(* (src/src/modsystem/moddownloader.cpp, and the loop that drives it in    *)
(* engine/client/connection_manager.cpp).                                  *)
(*                                                                         *)
(* modState.state is a plain field that all of these read and write        *)
(* without a lock:                                                         *)
(*   manifest threads fetch the catalogue of verified mods and set DONE;   *)
(*   the download thread, of which m_bDownloadThreadRunning admits one,    *)
(*     fetches, checks and extracts an archive, and decides by the state   *)
(*     whether to remove the folder again;                                 *)
(*   connection threads, one per attempt, start a download per mod and     *)
(*     poll the state to learn how it went;                                *)
(*   the script on the main thread fetches, downloads and cancels;         *)
(*   whoever interrupts a connection cancels the download.                 *)
(* A step is one access of a shared variable, or several where no other    *)
(* thread can tell the difference.  FAILED stands for all error states.    *)
(* Not part of this module: downloads through ModWorkshop, the player's    *)
(* consent, the removal of older versions.  Every required mod is missing, *)
(* and the UI's virtual machine exists, without which nobody is notified.  *)
(***************************************************************************)
EXTENDS Naturals, FiniteSets

CONSTANTS
  Mods,        \* the mods the server requires
  Advertised,  \* those the server offers a download for
  Attempts,    \* connection attempts, each with a thread of its own
  Script,      \* the script on the main thread, as a caller
  Fetches,     \* bound: as many manifest threads at a time
  Downloads    \* bound: room for as many download threads at a time

ASSUME ConstantsAssumption ==
  /\ Advertised \subseteq Mods
  /\ Script \notin Attempts
  /\ {"none", "manifest"} \cap Mods = {}

VARIABLES
  state,       \* modState.state
  running,     \* m_bDownloadThreadRunning
  shown,       \* m_bDownloadCallbacksActive: the UI was told of a download
  verified,    \* verifiedMods
  fetcher,     \* program point of each manifest thread
  thread,      \* program point and mod of each download thread
  disk,        \* the folder of each mod
  connecting,  \* ConnectionManager::m_bConnecting
  pc,          \* program point of each caller
  current,     \* the mod each caller is about
  left,        \* the mods an attempt has still to download
  doneBy       \* history: while the state is DONE, the mod whose download set it, or "manifest"

catalogue == <<verified, fetcher>>
callers   == <<connecting, pc, current, left>>
modState  == <<state, doneBy>>
vars == <<modState, running, shown, catalogue, thread, disk, callers>>

-----------------------------------------------------------------------------
Callers == Attempts \cup {Script}

InProgress == {"MANIFEST_FETCHING", "DOWNLOADING", "CHECKSUMING", "EXTRACTING"}
Transfer   == {"DOWNLOADING", "CHECKSUMING", "EXTRACTING"}
ModInstallState == InProgress \cup {"DONE", "ABORTED", "FAILED", "NOT_FOUND"}

FetchPoint  == {"none", "empty", "fill"}
ThreadPoint == {"none", "begin", "fetch", "legit", "hash", "fail", "open", "file", "next", "finish",
                "cleanup", "remove", "notify", "release"}
CallPoint   == {"idle", "check", "at", "start", "claim", "announce", "abandon", "abandonCancel", "thrown"}
CallerPoint == CallPoint \cup
               {"list", "listWait", "listed", "required", "choose", "poll", "pollRunning", "left",
                "decide", "after", "giveUp", "giveUpCancel", "final", "ready", "over"}
Folder == {"none", "partial", "whole"}

Live(d) == thread[d].pc # "none"
Thrown  == \E c \in Callers : pc[c] = "thrown"
ToThread(d, p) == thread' = [thread EXCEPT ![d].pc = p]
Step(c, p) == pc' = [pc EXCEPT ![c] = p]

\* A write of modState.state.
Set(s) == state' = s /\ doneBy' = "none"

Init ==
  /\ state = "NOT_FOUND" /\ running = FALSE /\ shown = FALSE
  /\ verified = {} /\ fetcher = [f \in Fetches |-> "none"]
  /\ thread = [d \in Downloads |-> [pc |-> "none", mod |-> "none"]]
  /\ disk = [m \in Mods |-> "none"]
  /\ connecting = FALSE
  /\ pc = [c \in Callers |-> "idle"]
  /\ current = [c \in Callers |-> "none"]
  /\ left = [a \in Attempts |-> Mods]
  /\ doneBy = "none"

-----------------------------------------------------------------------------
(***************************************************************************)
(* Manifest threads (FetchModsListFromAPI).  Any number of them may run,   *)
(* each on the one catalogue.                                              *)
(***************************************************************************)
FetchModsListFromAPI ==
  /\ Set("MANIFEST_FETCHING")
  /\ \E f \in Fetches : fetcher[f] = "none" /\ fetcher' = [fetcher EXCEPT ![f] = "empty"]
  /\ UNCHANGED verified

EmptyCatalogue(f) ==
  /\ fetcher[f] = "empty"
  /\ verified' = {}
  /\ fetcher' = [fetcher EXCEPT ![f] = "fill"]
  /\ UNCHANGED <<modState, running, shown, thread, disk, callers>>

\* One entry of the list; the loop may end early at an entry it does not understand.
FillCatalogue(f) ==
  /\ fetcher[f] = "fill"
  /\ \E m \in Mods \ verified : verified' = verified \cup {m}
  /\ UNCHANGED <<modState, running, shown, fetcher, thread, disk, callers>>

\* The scope guard sets DONE however the request and the parsing went.
FinishFetch(f) ==
  /\ fetcher[f] = "fill"
  /\ fetcher' = [fetcher EXCEPT ![f] = "none"]
  /\ state' = "DONE" /\ doneBy' = "manifest"
  /\ UNCHANGED <<running, shown, verified, thread, disk, callers>>

-----------------------------------------------------------------------------
(***************************************************************************)
(* The download thread (DownloadModInternal and what it calls).            *)
(***************************************************************************)
others == <<catalogue, callers>>

Begin(d) ==
  /\ thread[d].pc = "begin" /\ ToThread(d, "fetch")
  /\ Set("DOWNLOADING")
  /\ UNCHANGED <<running, shown, disk, others>>

\* Mutant: a failed transfer leaves the state as it is.
FetchModFromDistantStore_Silent(d) ==
  /\ thread[d].pc = "fetch"
  /\ ToThread(d, "legit") \/ ToThread(d, "notify")
  /\ UNCHANGED <<modState, running, shown, disk, others>>

\* curl asks the progress callback whether to go on; a cancel may come after it last asked.
FetchModFromDistantStore(d) ==
  /\ thread[d].pc = "fetch"
  /\ \/ ToThread(d, "legit")
     \/ state = "ABORTED" /\ ToThread(d, "notify")
     \/ state # "ABORTED" /\ ToThread(d, "fail")
  /\ UNCHANGED <<modState, running, shown, disk, others>>

IsModLegit(d) ==
  /\ thread[d].pc = "legit"
  /\ \/ ToThread(d, "hash") /\ Set("CHECKSUMING")
     \/ ToThread(d, "open") /\ UNCHANGED modState        \* no checksum to compare with
  /\ UNCHANGED <<running, shown, disk, others>>

Hash(d) ==
  /\ thread[d].pc = "hash"
  /\ ToThread(d, "open") \/ ToThread(d, "fail")
  /\ UNCHANGED <<modState, running, shown, disk, others>>

\* MOD_FETCHING_FAILED or MOD_CORRUPTED; there is no folder to remove yet.
Fail(d) ==
  /\ thread[d].pc = "fail" /\ ToThread(d, "notify")
  /\ Set("FAILED")
  /\ UNCHANGED <<running, shown, disk, others>>

OpenArchive(d) ==
  /\ thread[d].pc = "open"
  /\ \/ ToThread(d, "file") /\ Set("EXTRACTING")
     \/ ToThread(d, "cleanup") /\ Set("FAILED")
  /\ UNCHANGED <<running, shown, disk, others>>

\* One file of the archive, the last one or not, or an error before or in the middle of it.
ExtractFile(d) ==
  LET m == thread[d].mod IN
  /\ thread[d].pc = "file"
  /\ \/ /\ ToThread(d, "next") /\ UNCHANGED modState
        /\ \E folder \in {"partial", "whole"} : disk' = [disk EXCEPT ![m] = folder]
     \/ /\ ToThread(d, "cleanup") /\ Set("FAILED")
        /\ \E folder \in {disk[m], "partial"} : disk' = [disk EXCEPT ![m] = folder]
  /\ UNCHANGED <<running, shown, others>>

\* Mutant: takes the last file but one for the last.
NextFile_OneShort(d) ==
  LET last == disk[thread[d].mod] # "none" IN
  /\ thread[d].pc = "next"
  /\ \/ state = "ABORTED" /\ ToThread(d, "cleanup")
     \/ state # "ABORTED" /\ last /\ ToThread(d, "finish")
     \/ state # "ABORTED" /\ ~last /\ (ToThread(d, "file") \/ ToThread(d, "cleanup"))
  /\ UNCHANGED <<modState, running, shown, disk, others>>

\* unzGoToNextFile can fail too; that return leaves the state at EXTRACTING.
NextFile(d) ==
  LET last == disk[thread[d].mod] = "whole" IN
  /\ thread[d].pc = "next"
  /\ \/ state = "ABORTED" /\ ToThread(d, "cleanup")
     \/ state # "ABORTED" /\ last /\ ToThread(d, "finish")
     \/ state # "ABORTED" /\ ~last /\ (ToThread(d, "file") \/ ToThread(d, "cleanup"))
  /\ UNCHANGED <<modState, running, shown, disk, others>>

Finish(d) ==
  /\ thread[d].pc = "finish" /\ ToThread(d, "cleanup")
  /\ state' = "DONE" /\ doneBy' = thread[d].mod
  /\ UNCHANGED <<running, shown, disk, others>>

\* Mutant: removes the folder after errors only, not after a cancel.
Cleanup_ErrorsOnly(d) ==
  /\ thread[d].pc = "cleanup"
  /\ ToThread(d, IF state \notin {"DONE", "ABORTED"} THEN "remove" ELSE "notify")
  /\ UNCHANGED <<modState, running, shown, disk, others>>

Cleanup(d) ==
  /\ thread[d].pc = "cleanup"
  /\ ToThread(d, IF state # "DONE" THEN "remove" ELSE "notify")
  /\ UNCHANGED <<modState, running, shown, disk, others>>

\* remove_all may fail half-way; the exception is logged.
RemoveFolder(d) ==
  /\ thread[d].pc = "remove" /\ ToThread(d, "notify")
  /\ \E folder \in {"none", "partial"} :
       /\ disk[thread[d].mod] = "none" => folder = "none"
       /\ disk' = [disk EXCEPT ![thread[d].mod] = folder]
  /\ UNCHANGED <<modState, running, shown, others>>

\* Mutant: waits for the main thread, and no longer for ten seconds only.
NotifyDownloadStopped_NoTimeout(d) ==
  /\ thread[d].pc = "notify" /\ ToThread(d, "release")
  /\ pc[Script] = "idle"
  /\ shown' = FALSE
  /\ UNCHANGED <<modState, running, disk, others>>

NotifyDownloadStopped(d) ==
  /\ thread[d].pc = "notify" /\ ToThread(d, "release")
  /\ shown' = FALSE
  /\ UNCHANGED <<modState, running, disk, others>>

\* Mutant: the guard releases the thread before it notifies, and the notification is lost.
Release_First(d) ==
  /\ thread[d].pc \in {"notify", "release"}
  /\ thread' = [thread EXCEPT ![d] = [pc |-> "none", mod |-> "none"]]
  /\ running' = FALSE
  /\ UNCHANGED <<modState, shown, disk, others>>

Release(d) ==
  /\ thread[d].pc = "release" /\ thread' = [thread EXCEPT ![d] = [pc |-> "none", mod |-> "none"]]
  /\ running' = FALSE
  /\ UNCHANGED <<modState, shown, disk, others>>

DownloadThread(d) ==
  \/ Begin(d) \/ FetchModFromDistantStore(d) \/ IsModLegit(d) \/ Hash(d) \/ Fail(d)
  \/ OpenArchive(d) \/ ExtractFile(d) \/ NextFile(d) \/ Finish(d)
  \/ Cleanup(d) \/ RemoveFolder(d) \/ NotifyDownloadStopped(d) \/ Release(d)

-----------------------------------------------------------------------------
(***************************************************************************)
(* DownloadMod and DownloadServerMod, called by an attempt or the script.  *)
(***************************************************************************)
threads == <<running, shown, thread, disk>>

\* A step inside the call; at its end a script returns to its caller and an attempt goes on.
Continue(c, p) == Step(c, p) /\ UNCHANGED current
StepOrReturn(c, p) ==
  \/ c = Script /\ Step(c, "idle") /\ current' = [current EXCEPT ![c] = "none"]
  \/ c # Script /\ Continue(c, p)

Started(c) == StepOrReturn(c, "poll")
Refused(c) == StepOrReturn(c, "abandon")

CheckVerified(c) ==
  /\ pc[c] = "check"
  /\ IF current[c] \in verified THEN Continue(c, "at") /\ UNCHANGED modState
                               ELSE Refused(c) /\ Set("ABORTED")
  /\ UNCHANGED <<threads, catalogue, connecting, left>>

\* verifiedMods.at throws if a manifest thread emptied the catalogue since the check;
\* nothing catches the exception and the process ends.
LookUpVersion(c) ==
  /\ pc[c] = "at"
  /\ Continue(c, IF current[c] \in verified THEN "start" ELSE "thrown")
  /\ UNCHANGED <<modState, threads, catalogue, connecting, left>>

StartModDownload(c) ==
  /\ pc[c] = "start"
  /\ IF state \in InProgress THEN Refused(c) ELSE Continue(c, "claim")
  /\ UNCHANGED <<modState, threads, catalogue, connecting, left>>

ClaimThread(c) ==
  /\ pc[c] = "claim"
  /\ running' = TRUE
  /\ IF running THEN Refused(c) ELSE Continue(c, "announce")
  /\ UNCHANGED <<modState, shown, thread, disk, catalogue, connecting, left>>

StartDownloadThread(c) ==
  /\ pc[c] = "announce" /\ Started(c)
  /\ Set("DOWNLOADING") /\ shown' = TRUE
  /\ \E d \in Downloads : ~Live(d) /\ thread' = [thread EXCEPT ![d] = [pc |-> "begin", mod |-> current[c]]]
  /\ UNCHANGED <<running, disk, catalogue, connecting, left>>

-----------------------------------------------------------------------------
(***************************************************************************)
(* The script: NSFetchVerifiedModsManifesto, NSDownloadMod,                *)
(* NSCancelModDownload, and a user who interrupts the connection.          *)
(***************************************************************************)
ScriptFetch ==
  /\ pc[Script] = "idle"
  /\ FetchModsListFromAPI
  /\ UNCHANGED <<threads, callers>>

ScriptDownload(m) ==
  /\ pc[Script] = "idle" /\ Step(Script, "check")
  /\ current' = [current EXCEPT ![Script] = m]
  /\ UNCHANGED <<modState, threads, catalogue, connecting, left>>

CancelDownload ==
  /\ pc[Script] = "idle"
  /\ Set("ABORTED")
  /\ UNCHANGED <<threads, catalogue, callers>>

ScriptInterrupt ==
  /\ pc[Script] = "idle" /\ connecting /\ Step(Script, "abandon")
  /\ UNCHANGED <<modState, threads, catalogue, connecting, current, left>>

-----------------------------------------------------------------------------
(***************************************************************************)
(* The connection thread of an attempt.                                    *)
(***************************************************************************)
Connect(a) ==
  /\ pc[Script] = "idle" /\ pc[a] = "idle" /\ ~connecting
  /\ connecting' = TRUE /\ Step(a, "list")
  /\ UNCHANGED <<modState, threads, catalogue, current, left>>

FetchList(a) ==
  /\ pc[a] = "list" /\ Step(a, "listWait")
  /\ FetchModsListFromAPI
  /\ UNCHANGED <<threads, connecting, current, left>>

\* Any state but MANIFEST_FETCHING ends the wait, whoever wrote it.
AwaitList(a) ==
  /\ pc[a] = "listWait" /\ (state # "MANIFEST_FETCHING" \/ ~connecting)
  /\ Step(a, "listed")
  /\ UNCHANGED <<modState, threads, catalogue, connecting, current, left>>

\* RETURN_IF_CANCELLED: only the flag is looked at, which a later Connect raises again.
ReturnIfCancelled(a) ==
  LET next == [listed |-> "required", left |-> "decide", final |-> "ready",
               after  |-> IF left[a] = {} THEN "final" ELSE "choose"] IN
  /\ pc[a] \in DOMAIN next
  /\ Step(a, IF connecting THEN next[pc[a]] ELSE "over")
  /\ connecting' = (connecting /\ pc[a] # "final")      \* Finalise
  /\ UNCHANGED <<modState, threads, catalogue, current, left>>

CheckRequired(a) ==
  /\ pc[a] = "required"
  /\ Step(a, IF Mods \subseteq verified \cup Advertised THEN "choose" ELSE "abandon")
  /\ UNCHANGED <<modState, threads, catalogue, connecting, current, left>>

ChooseMod(a) ==
  /\ pc[a] = "choose"
  /\ \E m \in left[a] :
       /\ current' = [current EXCEPT ![a] = m]
       /\ left' = [left EXCEPT ![a] = @ \ {m}]
       /\ Step(a, IF m \in verified THEN "check" ELSE IF m \in Advertised THEN "start" ELSE "abandon")
  /\ UNCHANGED <<modState, threads, catalogue, connecting>>

Poll(a) ==
  /\ pc[a] = "poll" /\ (state \notin Transfer \/ ~connecting)
  /\ Step(a, IF connecting THEN "pollRunning" ELSE "left")
  /\ UNCHANGED <<modState, threads, catalogue, connecting, current, left>>

PollRunning(a) ==
  /\ pc[a] = "pollRunning"
  /\ Step(a, IF running THEN "poll" ELSE "left")
  /\ UNCHANGED <<modState, threads, catalogue, connecting, current, left>>

\* DONE is taken for the end of the download of this mod, whatever set it.
Decide(a) ==
  /\ pc[a] = "decide"
  /\ Step(a, IF state = "DONE" THEN "after" ELSE "giveUp")
  /\ UNCHANGED <<modState, threads, catalogue, connecting, current, left>>

\* Interrupt: the flag, then the download, of whichever attempt they are by now.
InterruptFlag(c) ==
  LET next == [abandon |-> "abandonCancel", giveUp |-> "giveUpCancel"] IN
  /\ pc[c] \in DOMAIN next /\ Step(c, next[pc[c]])
  /\ connecting' = FALSE
  /\ UNCHANGED <<modState, threads, catalogue, current, left>>

InterruptCancel(c) ==
  /\ \/ pc[c] = "abandonCancel" /\ StepOrReturn(c, "final")
     \/ pc[c] = "giveUpCancel" /\ Continue(c, "after")
  /\ Set("ABORTED")
  /\ UNCHANGED <<threads, catalogue, connecting, left>>

-----------------------------------------------------------------------------
Attempt(a) ==
  \/ FetchList(a) \/ AwaitList(a) \/ ReturnIfCancelled(a) \/ CheckRequired(a) \/ ChooseMod(a)
  \/ Poll(a) \/ PollRunning(a) \/ Decide(a)

Call(c) ==
  \/ CheckVerified(c) \/ LookUpVersion(c) \/ StartModDownload(c) \/ ClaimThread(c)
  \/ StartDownloadThread(c) \/ InterruptFlag(c) \/ InterruptCancel(c)

Fetcher(f) == EmptyCatalogue(f) \/ FillCatalogue(f) \/ FinishFetch(f)

\* Once an exception escaped a thread the process is gone.
Next ==
  \/ ~Thrown /\ (\/ \E f \in Fetches : Fetcher(f)
                 \/ \E d \in Downloads : DownloadThread(d)
                 \/ \E c \in Callers : Call(c)
                 \/ \E a \in Attempts : Connect(a) \/ Attempt(a)
                 \/ ScriptFetch \/ (\E m \in Mods : ScriptDownload(m))
                 \/ CancelDownload \/ ScriptInterrupt)
  \/ Thrown /\ UNCHANGED vars

\* Threads are scheduled; curl gives up when the transfer is too slow, a file and an archive end.
Fairness ==
  /\ \A f \in Fetches : WF_vars(~Thrown /\ (EmptyCatalogue(f) \/ FinishFetch(f)))
  /\ \A d \in Downloads : WF_vars(~Thrown /\ DownloadThread(d))
                         /\ SF_vars(~Thrown /\ ExtractFile(d) /\ disk'[thread[d].mod] = "whole")
  /\ \A c \in Callers : WF_vars(~Thrown /\ Call(c))
  /\ \A a \in Attempts : WF_vars(~Thrown /\ Attempt(a))

Spec == Init /\ [][Next]_vars
FairSpec == Spec /\ Fairness

-----------------------------------------------------------------------------
(***************************************************************************)
(* Properties.                                                             *)
(***************************************************************************)

\* Every variable keeps its type; the script, which is the main thread, never polls.
TypeOK ==
  /\ state \in ModInstallState
  /\ {running, shown, connecting} \subseteq BOOLEAN
  /\ verified \subseteq Mods
  /\ fetcher \in [Fetches -> FetchPoint]
  /\ thread \in [Downloads -> [pc : ThreadPoint, mod : Mods \cup {"none"}]]
  /\ disk \in [Mods -> Folder]
  /\ pc \in [Callers -> CallerPoint]
  /\ pc[Script] \in CallPoint
  /\ current \in [Callers -> Mods \cup {"none"}]
  /\ left \in [Attempts -> SUBSET Mods]
  /\ doneBy \in Mods \cup {"none", "manifest"}

\* There is at most one download thread, and while there is one nobody else is between the
\* exchange of m_bDownloadThreadRunning and the start of a thread: no two threads write to the
\* folders, however attempts and scripts call DownloadMod at the same time.
OneDownload ==
  /\ \A d, e \in Downloads : Live(d) /\ Live(e) => d = e
  /\ \A c \in Callers, d \in Downloads : pc[c] = "announce" => ~Live(d)

\* The UI shows a download from before the thread starts until after it is done with the
\* folders, and shows none when no thread is left: the notifications of two downloads that
\* follow each other do not cross.
UIFollowsDownload ==
  /\ \A d \in Downloads : Live(d) /\ thread[d].pc # "release" => shown
  /\ shown => \E d \in Downloads : Live(d)

\* Both: the claim, the thread, the notifications and the UI of successive downloads never cross.
DownloadsInTurn == OneDownload /\ UIFollowsDownload

\* When the state is DONE on account of a mod's download, all files of that mod are there: a
\* cancel, another caller or a second download of the mod cannot leave DONE over a folder that
\* is being written or removed.
DownloadedMeansWhole ==
  state = "DONE" /\ doneBy \in Mods => disk[doneBy] = "whole"

\* A download thread that keeps its folder has extracted all of it, unless a manifest thread
\* wrote DONE over the error or the cancel: no other thread's write makes the cleanup keep the
\* remains of a download that failed.
KeepsOnlyWhole ==
  [][\A d \in Downloads :
       thread[d].pc = "cleanup" /\ thread'[d].pc = "notify"
         => disk[thread[d].mod] = "whole" \/ doneBy = "manifest"]_vars

\* DONE means that the mod can be used in the game (the comment on the enumerator): an attempt
\* takes DONE for the end of its download only if the mod's folder is whole.
DoneMeansInstalled ==
  [][\A a \in Attempts :
       pc[a] = "decide" /\ pc'[a] = "after" => disk[current[a]] = "whole"]_vars

\* A download ends, with its callbacks and its claim given back, whatever is cancelled,
\* fetched or requested meanwhile.
DownloadEnds == \A d \in Downloads : Live(d) ~> ~Live(d) \/ Thrown

Polling(a) == pc[a] \in {"poll", "pollRunning"}
Leftover   == state = "EXTRACTING" /\ ~running

\* An attempt that polls goes on once the downloads are over, except when an archive could not
\* be browsed to its end: that error leaves the state at EXTRACTING with no thread to change it.
PollEnds == \A a \in Attempts :
  Polling(a) ~> ~Polling(a) \/ Leftover \/ Thrown \/ \E d \in Downloads : Live(d)
=============================================================================
