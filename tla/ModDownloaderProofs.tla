--------------------------- MODULE ModDownloaderProofs ---------------------------
(***************************************************************************)
(* Proofs about ModDownloader for any sets of mods, attempts, manifest     *)
(* threads and download threads.                                           *)
(*                                                                         *)
(* The inductive invariant has layers, each proved with the ones before:   *)
(*   TypeOK, NamesInv  types, and that whoever is about a mod names one;   *)
(*   ClaimInv          m_bDownloadThreadRunning covers the time from the   *)
(*                     exchange to the end of the thread;                  *)
(*   ShownInv          the notifications and the thread;                   *)
(*   DoneInv           who wrote DONE, and what is on disk then.           *)
(***************************************************************************)
EXTENDS ModDownloader, TLAPS

(* Who is inside DownloadMod or has a thread names a mod. *)
NamesInv ==
  /\ \A c \in Callers : pc[c] \in {"check", "at", "start", "claim", "announce"} => current[c] \in Mods
  /\ \A d \in Downloads : Live(d) => thread[d].mod \in Mods

(* A caller that won the exchange and a live thread both hold the flag, and *)
(* there is one of them at most.                                           *)
ClaimInv ==
  /\ OneDownload
  /\ \A c \in Callers : pc[c] = "announce" => running
  /\ \A d \in Downloads : Live(d) => running
  /\ \A b, c \in Callers : pc[b] = "announce" /\ pc[c] = "announce" => b = c

(* The UI hears of the end before the flag is given back. *)
ShownInv ==
  /\ UIFollowsDownload
  /\ \A d \in Downloads : thread[d].pc = "release" => ~shown

(* A thread that has not finished is not the one that wrote DONE. *)
Unfinished == {"begin", "fetch", "legit", "hash", "fail", "open", "file", "next", "finish", "remove"}

DoneInv ==
  /\ doneBy = "none" <=> state # "DONE"
  /\ DownloadedMeansWhole
  /\ \A d \in Downloads : thread[d].pc \in Unfinished => doneBy \notin Mods
  /\ \A d \in Downloads : thread[d].pc = "finish" => disk[thread[d].mod] = "whole"
  /\ \A d \in Downloads : thread[d].pc = "cleanup" /\ doneBy \in Mods => doneBy = thread[d].mod

-----------------------------------------------------------------------------
(* A thread's step to another program point, without and with a look at    *)
(* where it was.                                                           *)
LEMMA ToThreadFact ==
  ASSUME TypeOK, NEW d \in Downloads, NEW p \in ThreadPoint, ToThread(d, p)
  PROVE  /\ thread' \in [Downloads -> [pc : ThreadPoint, mod : Mods \cup {"none"}]]
         /\ thread'[d].pc = p /\ thread'[d].mod = thread[d].mod
         /\ \A e \in Downloads : e # d => thread'[e] = thread[e]
  BY DEF TypeOK, ToThread

(* Any step of a caller: what it does to its program point and its mod. *)
LEMMA StepFact ==
  ASSUME TypeOK, NEW c \in Callers, NEW p \in CallerPoint, Step(c, p),
         c = Script => p \in CallPoint
  PROVE  /\ pc' \in [Callers -> CallerPoint]
         /\ pc'[Script] \in CallPoint
         /\ pc'[c] = p
         /\ \A e \in Callers : e # c => pc'[e] = pc[e]
  BY DEF TypeOK, Step, Callers

LEMMA StepOrReturnFact ==
  ASSUME TypeOK, NEW c \in Callers, NEW p \in CallerPoint, StepOrReturn(c, p)
  PROVE  /\ pc' \in [Callers -> CallerPoint]
         /\ pc'[Script] \in CallPoint
         /\ pc'[c] \in {"idle", p}
         /\ \A e \in Callers : e # c => pc'[e] = pc[e] /\ current'[e] = current[e]
         /\ current' \in [Callers -> Mods \cup {"none"}]
         /\ pc'[c] = "idle" \/ current' = current
  BY DEF TypeOK, StepOrReturn, Continue, Step, Callers, CallerPoint, CallPoint

-----------------------------------------------------------------------------
(* Types. *)

LEMMA InitType == Init => TypeOK /\ NamesInv
<1> SUFFICES ASSUME Init PROVE TypeOK /\ NamesInv
  OBVIOUS
<1>1. TypeOK
  BY DEF Init, TypeOK, ModInstallState, InProgress, FetchPoint, ThreadPoint, CallerPoint, CallPoint, Folder, Callers
<1>2. NamesInv
  BY DEF Init, NamesInv, Live
<1> QED
  BY <1>1, <1>2

LEMMA FetcherType ==
  ASSUME TypeOK, NEW f \in Fetches, Fetcher(f)
  PROVE  TypeOK'
<1>1. state' \in ModInstallState /\ doneBy' \in Mods \cup {"none", "manifest"}
  BY DEF TypeOK, Fetcher, EmptyCatalogue, FillCatalogue, FinishFetch, modState, ModInstallState
<1>2. fetcher' \in [Fetches -> FetchPoint] /\ verified' \subseteq Mods
  BY DEF TypeOK, Fetcher, EmptyCatalogue, FillCatalogue, FinishFetch, FetchPoint
<1>3. UNCHANGED <<running, shown, thread, disk, callers>>
  BY DEF Fetcher, EmptyCatalogue, FillCatalogue, FinishFetch
<1> QED
  BY <1>1, <1>2, <1>3 DEF TypeOK, callers

LEMMA ThreadType ==
  ASSUME TypeOK, NamesInv, NEW d \in Downloads, DownloadThread(d)
  PROVE  TypeOK'
<1>1. UNCHANGED <<catalogue, callers>>
  BY DEF DownloadThread, others, Begin, FetchModFromDistantStore, IsModLegit, Hash, Fail, OpenArchive,
         ExtractFile, NextFile, Finish, Cleanup, RemoveFolder, NotifyDownloadStopped, Release
<1>2. {running', shown'} \subseteq BOOLEAN
  BY DEF TypeOK, DownloadThread, others, Begin, FetchModFromDistantStore, IsModLegit, Hash, Fail, OpenArchive,
         ExtractFile, NextFile, Finish, Cleanup, RemoveFolder, NotifyDownloadStopped, Release
<1>3. state' \in ModInstallState /\ doneBy' \in Mods \cup {"none", "manifest"}
  BY DEF TypeOK, NamesInv, Live, DownloadThread, others, Begin, FetchModFromDistantStore, IsModLegit, Hash, Fail, OpenArchive,
         ExtractFile, NextFile, Finish, Cleanup, RemoveFolder, NotifyDownloadStopped, Release,
         modState, Set, ModInstallState, InProgress
<1>4. disk' \in [Mods -> Folder]
  BY DEF TypeOK, DownloadThread, others, Begin, FetchModFromDistantStore, IsModLegit, Hash, Fail, OpenArchive,
         ExtractFile, NextFile, Finish, Cleanup, RemoveFolder, NotifyDownloadStopped, Release, Folder
<1>5. thread' \in [Downloads -> [pc : ThreadPoint, mod : Mods \cup {"none"}]]
  BY DEF TypeOK, DownloadThread, ToThread, Begin, FetchModFromDistantStore, IsModLegit, Hash, Fail, OpenArchive,
         ExtractFile, NextFile, Finish, Cleanup, RemoveFolder, NotifyDownloadStopped, Release, ThreadPoint
<1> QED
  BY <1>1, <1>2, <1>3, <1>4, <1>5 DEF TypeOK, catalogue, callers

LEMMA CallType ==
  ASSUME TypeOK, NamesInv, NEW c \in Callers, Call(c)
  PROVE  TypeOK'
<1>1. UNCHANGED <<catalogue, disk, left>>
  BY DEF Call, CheckVerified, LookUpVersion, StartModDownload, ClaimThread, StartDownloadThread,
         InterruptFlag, InterruptCancel, threads
<1>2. {running', shown', connecting'} \subseteq BOOLEAN
  BY DEF TypeOK, Call, CheckVerified, LookUpVersion, StartModDownload, ClaimThread, StartDownloadThread,
         InterruptFlag, InterruptCancel, threads
<1>3. state' \in ModInstallState /\ doneBy' \in Mods \cup {"none", "manifest"}
  BY DEF TypeOK, Call, CheckVerified, LookUpVersion, StartModDownload, ClaimThread, StartDownloadThread,
         InterruptFlag, InterruptCancel, modState, Set, ModInstallState, InProgress
<1>4. thread' \in [Downloads -> [pc : ThreadPoint, mod : Mods \cup {"none"}]]
  BY DEF TypeOK, Call, CheckVerified, LookUpVersion, StartModDownload, ClaimThread, StartDownloadThread,
         InterruptFlag, InterruptCancel, threads, NamesInv, ThreadPoint
<1>5. /\ pc' \in [Callers -> CallerPoint] /\ pc'[Script] \in CallPoint
      /\ current' \in [Callers -> Mods \cup {"none"}]
  <2>1. CASE CheckVerified(c)
    BY <2>1 DEF TypeOK, CheckVerified, Refused, StepOrReturn, Continue, Step, Callers, CallerPoint, CallPoint
  <2>2. CASE LookUpVersion(c)
    BY <2>2 DEF TypeOK, LookUpVersion, Continue, Step, Callers, CallerPoint, CallPoint
  <2>3. CASE StartModDownload(c)
    BY <2>3 DEF TypeOK, StartModDownload, Refused, StepOrReturn, Continue, Step, Callers, CallerPoint, CallPoint
  <2>4. CASE ClaimThread(c)
    BY <2>4 DEF TypeOK, ClaimThread, Refused, StepOrReturn, Continue, Step, Callers, CallerPoint, CallPoint
  <2>5. CASE StartDownloadThread(c)
    BY <2>5 DEF TypeOK, StartDownloadThread, Started, StepOrReturn, Continue, Step, Callers, CallerPoint, CallPoint
  <2>6. CASE InterruptFlag(c)
    BY <2>6 DEF TypeOK, InterruptFlag, Step, Callers, CallerPoint, CallPoint
  <2>7. CASE InterruptCancel(c)
    BY <2>7 DEF TypeOK, InterruptCancel, StepOrReturn, Continue, Step, Callers, CallerPoint, CallPoint
  <2> QED
    BY <2>1, <2>2, <2>3, <2>4, <2>5, <2>6, <2>7 DEF Call
<1> QED
  BY <1>1, <1>2, <1>3, <1>4, <1>5 DEF TypeOK, catalogue

LEMMA AttemptType ==
  ASSUME TypeOK, NEW a \in Attempts, Connect(a) \/ Attempt(a)
  PROVE  TypeOK'
<1> a # Script /\ a \in Callers
  BY ConstantsAssumption DEF Callers
<1>1. UNCHANGED <<threads, verified>>
  BY DEF Connect, Attempt, FetchList, AwaitList, ReturnIfCancelled, CheckRequired, ChooseMod, Poll,
         PollRunning, Decide, FetchModsListFromAPI, threads, catalogue
<1>2. /\ state' \in ModInstallState /\ doneBy' \in Mods \cup {"none", "manifest"}
      /\ fetcher' \in [Fetches -> FetchPoint]
  BY DEF TypeOK, Connect, Attempt, FetchList, AwaitList, ReturnIfCancelled, CheckRequired, ChooseMod, Poll,
         PollRunning, Decide, FetchModsListFromAPI, Set, modState, catalogue, ModInstallState, InProgress,
         FetchPoint
<1>3. connecting' \in BOOLEAN
  BY DEF TypeOK, Connect, Attempt, FetchList, AwaitList, ReturnIfCancelled, CheckRequired, ChooseMod, Poll,
         PollRunning, Decide
<1>4. left' \in [Attempts -> SUBSET Mods] /\ current' \in [Callers -> Mods \cup {"none"}]
  BY DEF TypeOK, Connect, Attempt, FetchList, AwaitList, ReturnIfCancelled, CheckRequired, ChooseMod, Poll,
         PollRunning, Decide
<1>5. pc' \in [Callers -> CallerPoint] /\ pc'[Script] \in CallPoint
  <2>1. \E p \in CallerPoint : Step(a, p)
    <3>1. CASE ReturnIfCancelled(a)
      BY <3>1 DEF ReturnIfCancelled, CallerPoint
    <3>2. CASE ChooseMod(a)
      BY <3>2 DEF ChooseMod, CallerPoint, CallPoint
    <3>3. CASE Connect(a) \/ FetchList(a) \/ AwaitList(a) \/ CheckRequired(a) \/ Poll(a)
               \/ PollRunning(a) \/ Decide(a)
      BY <3>3 DEF Connect, FetchList, AwaitList, CheckRequired, Poll, PollRunning, Decide, CallerPoint, CallPoint
    <3> QED
      BY <3>1, <3>2, <3>3 DEF Attempt
  <2> QED
    BY <2>1 DEF TypeOK, Step, Callers
<1> QED
  BY <1>1, <1>2, <1>3, <1>4, <1>5 DEF TypeOK, threads

ScriptStep == ScriptFetch \/ (\E m \in Mods : ScriptDownload(m)) \/ CancelDownload \/ ScriptInterrupt

LEMMA ScriptType ==
  ASSUME TypeOK, ScriptStep
  PROVE  TypeOK'
<1>1. /\ state' \in ModInstallState /\ doneBy' \in Mods \cup {"none", "manifest"}
      /\ fetcher' \in [Fetches -> FetchPoint]
  BY DEF TypeOK, ScriptStep, ScriptFetch, ScriptDownload, CancelDownload, ScriptInterrupt,
         FetchModsListFromAPI, Set, modState, catalogue, ModInstallState, InProgress, FetchPoint
<1>2. /\ pc' \in [Callers -> CallerPoint] /\ pc'[Script] \in CallPoint
      /\ current' \in [Callers -> Mods \cup {"none"}]
  BY DEF TypeOK, ScriptStep, ScriptFetch, ScriptDownload, CancelDownload, ScriptInterrupt, callers,
         Step, Callers, CallerPoint, CallPoint
<1>3. UNCHANGED <<threads, verified, connecting, left>>
  BY DEF ScriptStep, ScriptFetch, ScriptDownload, CancelDownload, ScriptInterrupt, callers,
         FetchModsListFromAPI, threads, catalogue
<1> QED
  BY <1>1, <1>2, <1>3 DEF TypeOK, threads

LEMMA NextCases ==
  ASSUME [Next]_vars
  PROVE  \/ \E f \in Fetches : Fetcher(f)
         \/ \E d \in Downloads : DownloadThread(d)
         \/ \E c \in Callers : Call(c)
         \/ \E a \in Attempts : Connect(a) \/ Attempt(a)
         \/ ScriptStep
         \/ UNCHANGED vars
  BY DEF Next, ScriptStep

LEMMA StepType == TypeOK /\ NamesInv /\ [Next]_vars => TypeOK'
<1> SUFFICES ASSUME TypeOK, NamesInv, [Next]_vars PROVE TypeOK'
  OBVIOUS
<1>1. CASE UNCHANGED vars
  BY <1>1 DEF TypeOK, vars, modState, catalogue, callers
<1> QED
  BY <1>1, NextCases, FetcherType, ThreadType, CallType, AttemptType, ScriptType

-----------------------------------------------------------------------------
(* Names. *)

LEMMA StepNames == TypeOK /\ NamesInv /\ [Next]_vars => NamesInv'
<1> SUFFICES ASSUME TypeOK, NamesInv, [Next]_vars PROVE NamesInv'
  OBVIOUS
<1>1. ASSUME NEW f \in Fetches, Fetcher(f) PROVE NamesInv'
  BY <1>1 DEF NamesInv, Live, Fetcher, EmptyCatalogue, FillCatalogue, FinishFetch, callers
<1>2. ASSUME NEW d \in Downloads, DownloadThread(d) PROVE NamesInv'
  <2>1. UNCHANGED <<pc, current>>
    BY <1>2 DEF DownloadThread, others, callers, Begin, FetchModFromDistantStore, IsModLegit, Hash, Fail,
           OpenArchive, ExtractFile, NextFile, Finish, Cleanup, RemoveFolder, NotifyDownloadStopped, Release
  <2>2. \A e \in Downloads : thread'[e].pc # "none" => thread'[e].mod = thread[e].mod /\ Live(e)
    BY <1>2 DEF TypeOK, Live, DownloadThread, ToThread, Begin, FetchModFromDistantStore, IsModLegit, Hash, Fail,
           OpenArchive, ExtractFile, NextFile, Finish, Cleanup, RemoveFolder, NotifyDownloadStopped, Release
  <2> QED
    BY <2>1, <2>2 DEF NamesInv, Live
<1>3. ASSUME NEW c \in Callers, Call(c) PROVE NamesInv'
  <2>1. CASE StartDownloadThread(c)
    BY <1>3, <2>1 DEF TypeOK, NamesInv, Live, StartDownloadThread, Started, StepOrReturn, Continue, Step
  <2>2. CASE ~StartDownloadThread(c)
    <3>1. UNCHANGED thread
      BY <1>3, <2>2 DEF Call, CheckVerified, LookUpVersion, StartModDownload, ClaimThread,
             InterruptFlag, InterruptCancel, threads
    <3>2. \A e \in Callers : pc'[e] \in {"check", "at", "start", "claim", "announce"}
            => current'[e] = current[e] /\ pc[e] \in {"check", "at", "start", "claim", "announce"}
      <4>1. CASE CheckVerified(c)
        BY <4>1 DEF TypeOK, CheckVerified, Refused, StepOrReturn, Continue, Step
      <4>2. CASE LookUpVersion(c)
        BY <4>2 DEF TypeOK, LookUpVersion, Continue, Step
      <4>3. CASE StartModDownload(c)
        BY <4>3 DEF TypeOK, StartModDownload, Refused, StepOrReturn, Continue, Step
      <4>4. CASE ClaimThread(c)
        BY <4>4 DEF TypeOK, ClaimThread, Refused, StepOrReturn, Continue, Step
      <4>5. CASE InterruptFlag(c)
        BY <4>5 DEF TypeOK, InterruptFlag, Step
      <4>6. CASE InterruptCancel(c)
        BY <4>6 DEF TypeOK, InterruptCancel, StepOrReturn, Continue, Step
      <4> QED
        BY <1>3, <2>2, <4>1, <4>2, <4>3, <4>4, <4>5, <4>6 DEF Call
    <3> QED
      BY <3>1, <3>2 DEF NamesInv, Live
  <2> QED
    BY <2>1, <2>2
<1>4. ASSUME NEW a \in Attempts, Connect(a) \/ Attempt(a) PROVE NamesInv'
  <2>1. UNCHANGED thread
    BY <1>4 DEF Connect, Attempt, FetchList, AwaitList, ReturnIfCancelled, CheckRequired, ChooseMod, Poll,
           PollRunning, Decide, threads
  <2>2. CASE ChooseMod(a)
    BY <2>1, <2>2 DEF TypeOK, NamesInv, Live, ChooseMod, Step, Callers
  <2>3. CASE ReturnIfCancelled(a)
    BY <2>1, <2>3 DEF TypeOK, NamesInv, Live, ReturnIfCancelled, Step, Callers
  <2>4. CASE Connect(a) \/ FetchList(a) \/ AwaitList(a) \/ CheckRequired(a) \/ Poll(a) \/ PollRunning(a) \/ Decide(a)
    BY <2>1, <2>4 DEF TypeOK, NamesInv, Live, Connect, FetchList, AwaitList, CheckRequired, Poll,
           PollRunning, Decide, Step, Callers
  <2> QED
    BY <1>4, <2>2, <2>3, <2>4 DEF Attempt
<1>5. CASE ScriptStep
  BY <1>5 DEF TypeOK, NamesInv, Live, ScriptStep, ScriptFetch, ScriptDownload, CancelDownload, ScriptInterrupt,
         callers, threads, Step, Callers
<1>6. CASE UNCHANGED vars
  BY <1>6 DEF NamesInv, Live, vars, callers
<1> QED
  BY <1>1, <1>2, <1>3, <1>4, <1>5, <1>6, NextCases

-----------------------------------------------------------------------------
(* A step that neither claims nor starts a thread nor is one of its steps: *)
(* it leaves the threads and the disk alone, brings nobody to the point    *)
(* after the exchange, and writes DONE for a manifest only.                *)
Quiet ==
  /\ UNCHANGED threads
  /\ \A c \in Callers : pc'[c] = "announce" => pc[c] = "announce"
  /\ \/ UNCHANGED modState
     \/ state' # "DONE" /\ doneBy' = "none"
     \/ state' = "DONE" /\ doneBy' = "manifest"

LEMMA StepCases ==
  ASSUME TypeOK, [Next]_vars
  PROVE  \/ Quiet
         \/ \E d \in Downloads : DownloadThread(d)
         \/ \E c \in Callers : ClaimThread(c) \/ StartDownloadThread(c)
<1>1. ASSUME NEW f \in Fetches, Fetcher(f) PROVE Quiet
  BY <1>1 DEF Quiet, Fetcher, EmptyCatalogue, FillCatalogue, FinishFetch, callers, threads
<1>2. ASSUME NEW c \in Callers, Call(c), ~ClaimThread(c), ~StartDownloadThread(c) PROVE Quiet
  <2>1. UNCHANGED threads
    BY <1>2 DEF Call, CheckVerified, LookUpVersion, StartModDownload, InterruptFlag, InterruptCancel, threads
  <2>3. UNCHANGED <<state, doneBy>> \/ (state' # "DONE" /\ doneBy' = "none")
    BY <1>2 DEF Call, CheckVerified, LookUpVersion, StartModDownload, InterruptFlag, InterruptCancel, Set, modState
  <2>2. \A e \in Callers : pc'[e] = "announce" => pc[e] = "announce"
    <3>1. CASE CheckVerified(c)
      BY <3>1 DEF TypeOK, CheckVerified, Refused, StepOrReturn, Continue, Step
    <3>2. CASE LookUpVersion(c)
      BY <3>2 DEF TypeOK, LookUpVersion, Continue, Step
    <3>3. CASE StartModDownload(c)
      BY <3>3 DEF TypeOK, StartModDownload, Refused, StepOrReturn, Continue, Step
    <3>4. CASE InterruptFlag(c)
      BY <3>4 DEF TypeOK, InterruptFlag, Step
    <3>5. CASE InterruptCancel(c)
      BY <3>5 DEF TypeOK, InterruptCancel, StepOrReturn, Continue, Step
    <3> QED
      BY <1>2, <3>1, <3>2, <3>3, <3>4, <3>5 DEF Call
  <2> QED
    BY <2>1, <2>2, <2>3 DEF Quiet, modState
<1>3. ASSUME NEW a \in Attempts, Connect(a) \/ Attempt(a) PROVE Quiet
  <2>1. UNCHANGED threads
    BY <1>3 DEF Connect, Attempt, FetchList, AwaitList, ReturnIfCancelled, CheckRequired, ChooseMod, Poll,
           PollRunning, Decide, threads
  <2>3. UNCHANGED <<state, doneBy>> \/ (state' # "DONE" /\ doneBy' = "none")
    BY <1>3 DEF Connect, Attempt, FetchList, AwaitList, ReturnIfCancelled, CheckRequired, ChooseMod, Poll,
           PollRunning, Decide, FetchModsListFromAPI, Set, modState
  <2>2. \A e \in Callers : pc'[e] = "announce" => pc[e] = "announce"
    <3>1. CASE ReturnIfCancelled(a)
      BY <3>1 DEF TypeOK, ReturnIfCancelled, Step
    <3>2. CASE ChooseMod(a)
      BY <3>2 DEF TypeOK, ChooseMod, Step
    <3>3. CASE Connect(a) \/ FetchList(a) \/ AwaitList(a) \/ CheckRequired(a) \/ Poll(a) \/ PollRunning(a) \/ Decide(a)
      BY <3>3 DEF TypeOK, Connect, FetchList, AwaitList, CheckRequired, Poll, PollRunning, Decide, Step
    <3> QED
      BY <1>3, <3>1, <3>2, <3>3 DEF Attempt
  <2> QED
    BY <2>1, <2>2, <2>3 DEF Quiet, modState
<1>4. CASE ScriptStep
  BY <1>4 DEF TypeOK, Quiet, ScriptStep, ScriptFetch, ScriptDownload, CancelDownload, ScriptInterrupt,
         FetchModsListFromAPI, Set, callers, Step
<1>5. CASE UNCHANGED vars
  BY <1>5 DEF Quiet, vars, callers, threads
<1> QED
  BY <1>1, <1>2, <1>3, <1>4, <1>5, NextCases

-----------------------------------------------------------------------------
(* Claims. *)

LEMMA StepClaim == TypeOK /\ ClaimInv /\ [Next]_vars => ClaimInv'
<1> SUFFICES ASSUME TypeOK, ClaimInv, [Next]_vars PROVE ClaimInv'
  OBVIOUS
<1>1. CASE Quiet
  BY <1>1 DEF ClaimInv, OneDownload, Live, Quiet, threads
<1>2. ASSUME NEW d \in Downloads, DownloadThread(d) PROVE ClaimInv'
  <2>1. UNCHANGED pc
    BY <1>2 DEF DownloadThread, others, callers, Begin, FetchModFromDistantStore, IsModLegit, Hash, Fail,
           OpenArchive, ExtractFile, NextFile, Finish, Cleanup, RemoveFolder, NotifyDownloadStopped, Release
  <2>2. \A e \in Downloads : thread'[e].pc # "none" => Live(e)
    BY <1>2 DEF TypeOK, Live, DownloadThread, ToThread, Begin, FetchModFromDistantStore, IsModLegit, Hash, Fail,
           OpenArchive, ExtractFile, NextFile, Finish, Cleanup, RemoveFolder, NotifyDownloadStopped, Release
  <2>3. CASE Release(d)
    <3>1. \A e \in Downloads : thread'[e].pc = "none"
      BY <2>2, <2>3 DEF TypeOK, Release, ClaimInv, OneDownload, Live
    <3>2. \A c \in Callers : pc[c] # "announce"
      BY <2>3 DEF Release, ClaimInv, OneDownload, Live
    <3> QED
      BY <2>1, <3>1, <3>2 DEF ClaimInv, OneDownload, Live
  <2>4. CASE ~Release(d)
    <3>1. UNCHANGED running
      BY <1>2, <2>4 DEF DownloadThread, Begin, FetchModFromDistantStore, IsModLegit, Hash, Fail,
           OpenArchive, ExtractFile, NextFile, Finish, Cleanup, RemoveFolder, NotifyDownloadStopped
    <3> QED
      BY <2>1, <2>2, <3>1 DEF ClaimInv, OneDownload, Live
  <2> QED
    BY <2>3, <2>4
<1>3. ASSUME NEW c \in Callers, ClaimThread(c) PROVE ClaimInv'
  <2>1. UNCHANGED thread /\ running'
    BY <1>3 DEF ClaimThread
  <2>2. CASE running
    <3>1. \A e \in Callers : pc'[e] = "announce" => pc[e] = "announce"
      BY <1>3, <2>2 DEF TypeOK, ClaimThread, Refused, StepOrReturn, Continue, Step
    <3> QED
      BY <2>1, <3>1 DEF ClaimInv, OneDownload, Live
  <2>3. CASE ~running
    <3>1. \A e \in Callers : pc'[e] = "announce" => e = c
      BY <1>3, <2>3 DEF TypeOK, ClaimInv, ClaimThread, Continue, Step
    <3>2. \A d \in Downloads : thread'[d].pc = "none"
      BY <2>1, <2>3 DEF ClaimInv, Live
    <3> QED
      BY <2>1, <3>1, <3>2 DEF ClaimInv, OneDownload, Live
  <2> QED
    BY <2>2, <2>3
<1>4. ASSUME NEW c \in Callers, StartDownloadThread(c) PROVE ClaimInv'
  <2>1. running /\ running' /\ \A d \in Downloads : ~Live(d)
    BY <1>4 DEF StartDownloadThread, ClaimInv, OneDownload
  <2>2. \A e \in Callers : pc'[e] # "announce"
    BY <1>4 DEF TypeOK, ClaimInv, StartDownloadThread, Started, StepOrReturn, Continue, Step
  <2>3. PICK d \in Downloads : thread' = [thread EXCEPT ![d] = [pc |-> "begin", mod |-> current[c]]]
    BY <1>4 DEF StartDownloadThread
  <2>4. \A e \in Downloads : thread'[e].pc # "none" => e = d
    BY <2>1, <2>3 DEF TypeOK, Live
  <2> QED
    BY <2>1, <2>2, <2>4 DEF ClaimInv, OneDownload, Live
<1> QED
  BY <1>1, <1>2, <1>3, <1>4, StepCases

-----------------------------------------------------------------------------
(* Notifications. *)

LEMMA StepShown == TypeOK /\ ClaimInv /\ ShownInv /\ [Next]_vars => ShownInv'
<1> SUFFICES ASSUME TypeOK, ClaimInv, ShownInv, [Next]_vars PROVE ShownInv'
  OBVIOUS
<1>1. CASE Quiet
  BY <1>1 DEF ShownInv, UIFollowsDownload, Live, Quiet, threads
<1>2. ASSUME NEW d \in Downloads, DownloadThread(d) PROVE ShownInv'
  <2>1. \A e \in Downloads : e # d => thread'[e] = thread[e] /\ thread[e].pc = "none"
    <3>1. Live(d)
      BY <1>2 DEF Live, DownloadThread, Begin, FetchModFromDistantStore, IsModLegit, Hash, Fail,
           OpenArchive, ExtractFile, NextFile, Finish, Cleanup, RemoveFolder, NotifyDownloadStopped, Release
    <3>2. \A e \in Downloads : e # d => thread'[e] = thread[e]
      BY <1>2 DEF TypeOK, DownloadThread, ToThread, Begin, FetchModFromDistantStore, IsModLegit, Hash, Fail,
           OpenArchive, ExtractFile, NextFile, Finish, Cleanup, RemoveFolder, NotifyDownloadStopped, Release
    <3> QED
      BY <3>1, <3>2 DEF ClaimInv, OneDownload, Live
  <2>2. CASE NotifyDownloadStopped(d)
    <3>1. ~shown' /\ thread'[d].pc = "release"
      BY <2>2 DEF TypeOK, NotifyDownloadStopped, ToThread
    <3> QED
      BY <2>1, <3>1 DEF ShownInv, UIFollowsDownload, Live
  <2>3. CASE Release(d)
    <3>1. ~shown' /\ thread'[d].pc = "none"
      BY <2>3 DEF TypeOK, Release, ShownInv
    <3> QED
      BY <2>1, <3>1 DEF ShownInv, UIFollowsDownload, Live
  <2>4. CASE ~NotifyDownloadStopped(d) /\ ~Release(d)
    <3>1. UNCHANGED shown /\ thread[d].pc \notin {"none", "release"} /\ thread'[d].pc \notin {"none", "release"}
      BY <1>2, <2>4 DEF TypeOK, DownloadThread, ToThread, Begin, FetchModFromDistantStore, IsModLegit, Hash,
             Fail, OpenArchive, ExtractFile, NextFile, Finish, Cleanup, RemoveFolder
    <3> QED
      BY <2>1, <3>1 DEF ShownInv, UIFollowsDownload, Live
  <2> QED
    BY <2>2, <2>3, <2>4
<1>3. ASSUME NEW c \in Callers, ClaimThread(c) PROVE ShownInv'
  BY <1>3 DEF ShownInv, UIFollowsDownload, Live, ClaimThread
<1>4. ASSUME NEW c \in Callers, StartDownloadThread(c) PROVE ShownInv'
  <2>1. shown' /\ \A d \in Downloads : ~Live(d)
    BY <1>4 DEF StartDownloadThread, ClaimInv, OneDownload
  <2>2. PICK d \in Downloads : thread' = [thread EXCEPT ![d] = [pc |-> "begin", mod |-> current[c]]]
    BY <1>4 DEF StartDownloadThread
  <2>3. thread'[d].pc = "begin" /\ \A e \in Downloads : thread'[e].pc # "release"
    BY <2>1, <2>2 DEF TypeOK, Live
  <2> QED
    BY <2>1, <2>3 DEF ShownInv, UIFollowsDownload, Live
<1> QED
  BY <1>1, <1>2, <1>3, <1>4, StepCases

-----------------------------------------------------------------------------
(* Who wrote DONE. *)

LEMMA StepDone == TypeOK /\ NamesInv /\ ClaimInv /\ DoneInv /\ [Next]_vars => DoneInv'
<1> SUFFICES ASSUME TypeOK, NamesInv, ClaimInv, DoneInv, [Next]_vars PROVE DoneInv'
  OBVIOUS
<1>0. "none" \notin Mods /\ "manifest" \notin Mods
  BY ConstantsAssumption
<1>1. CASE Quiet
  <2>1. UNCHANGED <<thread, disk>>
    BY <1>1 DEF Quiet, threads
  <2>2. CASE UNCHANGED modState
    BY <2>1, <2>2 DEF DoneInv, DownloadedMeansWhole, modState
  <2>3. CASE state' # "DONE" /\ doneBy' = "none"
    BY <1>0, <2>1, <2>3 DEF DoneInv, DownloadedMeansWhole
  <2>4. CASE state' = "DONE" /\ doneBy' = "manifest"
    BY <1>0, <2>1, <2>4 DEF DoneInv, DownloadedMeansWhole
  <2> QED
    BY <1>1, <2>2, <2>3, <2>4 DEF Quiet
<1>2. ASSUME NEW d \in Downloads, DownloadThread(d) PROVE DoneInv'
  <2>1. thread[d].mod \in Mods /\ \A e \in Downloads : e # d => thread'[e].pc = "none"
    <3>1. Live(d)
      BY <1>2 DEF Live, DownloadThread, Begin, FetchModFromDistantStore, IsModLegit, Hash, Fail,
           OpenArchive, ExtractFile, NextFile, Finish, Cleanup, RemoveFolder, NotifyDownloadStopped, Release
    <3>2. \A e \in Downloads : e # d => thread'[e] = thread[e]
      BY <1>2 DEF TypeOK, DownloadThread, ToThread, Begin, FetchModFromDistantStore, IsModLegit, Hash, Fail,
           OpenArchive, ExtractFile, NextFile, Finish, Cleanup, RemoveFolder, NotifyDownloadStopped, Release
    <3> QED
      BY <3>1, <3>2 DEF ClaimInv, OneDownload, Live, NamesInv
  <2>2. SUFFICES /\ doneBy' = "none" <=> state' # "DONE"
                 /\ state' = "DONE" /\ doneBy' \in Mods => disk'[doneBy'] = "whole"
                 /\ thread'[d].pc \in Unfinished => doneBy' \notin Mods
                 /\ thread'[d].pc = "finish" => disk'[thread'[d].mod] = "whole"
                 /\ thread'[d].pc = "cleanup" /\ doneBy' \in Mods => doneBy' = thread'[d].mod
    BY <2>1 DEF DoneInv, DownloadedMeansWhole, Unfinished
  <2> USE DEF TypeOK, DoneInv, DownloadedMeansWhole, Unfinished, ToThread, modState, Set
  <2>3. CASE Begin(d)
    BY <1>0, <2>3 DEF Begin
  <2>4. CASE FetchModFromDistantStore(d)
    BY <1>0, <2>4 DEF FetchModFromDistantStore
  <2>5. CASE IsModLegit(d)
    BY <1>0, <2>5 DEF IsModLegit
  <2>6. CASE Hash(d)
    BY <1>0, <2>6 DEF Hash
  <2>7. CASE Fail(d)
    BY <1>0, <2>7 DEF Fail
  <2>8. CASE OpenArchive(d)
    BY <1>0, <2>8 DEF OpenArchive
  <2>9. CASE ExtractFile(d)
    BY <1>0, <2>9 DEF ExtractFile
  <2>10. CASE NextFile(d)
    BY <1>0, <2>10 DEF NextFile
  <2>11. CASE Finish(d)
    BY <1>0, <2>1, <2>11 DEF Finish
  <2>12. CASE Cleanup(d)
    BY <1>0, <2>12 DEF Cleanup
  <2>13. CASE RemoveFolder(d)
    BY <1>0, <2>13 DEF RemoveFolder
  <2>14. CASE NotifyDownloadStopped(d)
    BY <1>0, <2>14 DEF NotifyDownloadStopped
  <2>15. CASE Release(d)
    BY <1>0, <2>15 DEF Release
  <2> QED
    BY <1>2, <2>3, <2>4, <2>5, <2>6, <2>7, <2>8, <2>9, <2>10, <2>11, <2>12, <2>13, <2>14, <2>15 DEF DownloadThread
<1>3. ASSUME NEW c \in Callers, ClaimThread(c) PROVE DoneInv'
  BY <1>3 DEF DoneInv, DownloadedMeansWhole, ClaimThread, modState
<1>4. ASSUME NEW c \in Callers, StartDownloadThread(c) PROVE DoneInv'
  <2>1. state' # "DONE" /\ doneBy' = "none" /\ UNCHANGED disk
    BY <1>4 DEF StartDownloadThread, Set
  <2>2. \A d \in Downloads : ~Live(d)
    BY <1>4 DEF StartDownloadThread, ClaimInv, OneDownload
  <2>3. \A d \in Downloads : thread'[d].pc # "finish"
    BY <1>4, <2>2 DEF TypeOK, StartDownloadThread, Live
  <2> QED
    BY <1>0, <2>1, <2>3 DEF DoneInv, DownloadedMeansWhole
<1> QED
  BY <1>1, <1>2, <1>3, <1>4, StepCases

(* A folder that is kept: the thread saw DONE, written by its own Finish or *)
(* by a manifest thread.                                                   *)
LEMMA StepKeeps ==
  ASSUME TypeOK, ClaimInv, DoneInv, [Next]_vars,
         NEW d \in Downloads, thread[d].pc = "cleanup", thread'[d].pc = "notify"
  PROVE  disk[thread[d].mod] = "whole" \/ doneBy = "manifest"
<1>1. CASE Quiet
  BY <1>1 DEF Quiet, threads
<1>2. ASSUME NEW e \in Downloads, DownloadThread(e)
      PROVE  disk[thread[d].mod] = "whole" \/ doneBy = "manifest"
  <2>1. Cleanup(d)
    BY <1>2 DEF TypeOK, DownloadThread, ToThread, Begin, FetchModFromDistantStore, IsModLegit, Hash, Fail,
           OpenArchive, ExtractFile, NextFile, Finish, Cleanup, RemoveFolder, NotifyDownloadStopped, Release
  <2>2. state = "DONE"
    BY <2>1 DEF TypeOK, Cleanup, ToThread
  <2> QED
    BY <2>2 DEF TypeOK, DoneInv, DownloadedMeansWhole
<1>3. ASSUME NEW c \in Callers, ClaimThread(c) \/ StartDownloadThread(c) PROVE FALSE
  <2>1. CASE ClaimThread(c)
    BY <2>1 DEF ClaimThread
  <2>2. CASE StartDownloadThread(c)
    BY <2>2 DEF StartDownloadThread, TypeOK, ClaimInv, OneDownload, Live
  <2> QED
    BY <1>3, <2>1, <2>2
<1> QED
  BY <1>1, <1>2, <1>3, StepCases

-----------------------------------------------------------------------------
(* The theorems. *)

IInv == TypeOK /\ NamesInv /\ ClaimInv /\ ShownInv /\ DoneInv

LEMMA InitIInv == Init => IInv
<1> SUFFICES ASSUME Init PROVE IInv
  OBVIOUS
<1>1. TypeOK /\ NamesInv
  BY InitType
<1>2. ClaimInv /\ ShownInv
  BY DEF Init, ClaimInv, ShownInv, OneDownload, UIFollowsDownload, Live
<1>3. DoneInv
  BY DEF Init, DoneInv, DownloadedMeansWhole, Unfinished
<1> QED
  BY <1>1, <1>2, <1>3 DEF IInv

THEOREM Invariance == Spec => []IInv
<1>1. Init => IInv
  BY InitIInv
<1>2. IInv /\ [Next]_vars => IInv'
  BY StepType, StepNames, StepClaim, StepShown, StepDone DEF IInv
<1> QED
  BY <1>1, <1>2, PTL DEF Spec

(* Every variable keeps its type, and the main thread never polls.         *)
THEOREM TypeInvariant == Spec => []TypeOK
<1>1. IInv => TypeOK
  BY DEF IInv
<1> QED
  BY <1>1, Invariance, PTL

(* StartDownloadThread admits one thread, for any number of callers.       *)
THEOREM OneDownloadAtATime == Spec => []OneDownload
<1>1. IInv => OneDownload
  BY DEF IInv, ClaimInv
<1> QED
  BY <1>1, Invariance, PTL

(* The UI shows a download exactly while a thread works.                   *)
THEOREM UIIsInStep == Spec => []UIFollowsDownload
<1>1. IInv => UIFollowsDownload
  BY DEF IInv, ShownInv
<1> QED
  BY <1>1, Invariance, PTL

(* Successive downloads do not cross, in their threads or in the UI.       *)
THEOREM DownloadsTakeTurns == Spec => []DownloadsInTurn
  BY OneDownloadAtATime, UIIsInStep, PTL DEF DownloadsInTurn

(* DONE written by a download stands only over a whole folder.             *)
THEOREM DownloadedIsWhole == Spec => []DownloadedMeansWhole
<1>1. IInv => DownloadedMeansWhole
  BY DEF IInv, DoneInv
<1> QED
  BY <1>1, Invariance, PTL

(* Only a manifest thread's DONE makes a download keep an incomplete folder. *)
THEOREM KeptFolderIsWhole == Spec => KeepsOnlyWhole
<1>1. IInv /\ [Next]_vars =>
        [\A d \in Downloads :
           thread[d].pc = "cleanup" /\ thread'[d].pc = "notify"
             => disk[thread[d].mod] = "whole" \/ doneBy = "manifest"]_vars
  BY StepKeeps DEF IInv
<1> QED
  BY <1>1, Invariance, PTL DEF Spec, KeepsOnlyWhole
=============================================================================
