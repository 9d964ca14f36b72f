-------------------------- MODULE ServerModInfoProofs --------------------------
(***************************************************************************)
(* Proofs about ServerModInfo for every set of connection attempts and     *)
(* every number of mods a server may ask for.                              *)
(*                                                                         *)
(* The inductive invariant has three layers, each proved with the help of  *)
(* the ones before it:                                                     *)
(*   TypeOK, PacketInv  types, and the packet in hand;                     *)
(*   ListInv            the list, the indices received and the total agree; *)
(*   RequestInv         what each phase of the request that owns the       *)
(*                      collection says about the collection.              *)
(***************************************************************************)
EXTENDS ServerModInfo, FiniteSetTheorems, TLAPS

(* The packet in hand has passed the check of its index. *)
PacketInv == rx # NoPacket => rx.index < rx.total

(* The indices received are those of the list. *)
ListInv ==
  /\ OneTotal
  /\ OncePerIndex
  /\ \A i \in DOMAIN list : list[i].index \in received

Full == Cardinality(received) = total

(* The owner of the collection is past its Begin; while nobody stopped it,  *)
(* its collection closes only when it is full or a count refused it; and    *)
(* the wait records that.                                                   *)
RequestInv ==
  /\ NoOrphanListening
  /\ owner \in Attempts => pc[owner] \in Collecting \cup {"leaving", "get", "over"}
  /\ \A t \in Attempts :
       pc[t] \in {"none", "check", "begin", "asking", "waiting"} => ~answered[t]
  /\ owner \in Attempts =>
       ((answered[owner] \/ (pc[owner] \in {"asking", "waiting"} /\ ~listening))
          => (~listening /\ (Full \/ refused)))

-----------------------------------------------------------------------------
(* Facts about the data. *)

LEMMA NoPacketFact == NoPacket \notin ModPacket
  BY NamesAssumption, BoundAssumption DEF ModPacket

LEMMA EmptyList == <<>> \in Seq(ModPacket) /\ Len(<<>>) = 0 /\ DOMAIN <<>> = {}
  OBVIOUS

LEMMA IndicesFinite ==
  ASSUME NEW n \in Nat, NEW S \in SUBSET (0..(n - 1))
  PROVE  IsFiniteSet(S) /\ Cardinality(S) \in Nat /\ Cardinality(S) <= n
<1>1. IsFiniteSet(0..(n - 1)) /\ Cardinality(0..(n - 1)) = n
  BY FS_Interval
<1> QED
  BY <1>1, FS_Subset, FS_CardinalityType

(* Adding a packet of a new index keeps a list free of repetitions. *)
LEMMA AppendNew ==
  ASSUME NEW s \in Seq(ModPacket), NEW p \in ModPacket,
         Distinct(s), \A i \in DOMAIN s : s[i].index # p.index
  PROVE  /\ Append(s, p) \in Seq(ModPacket)
         /\ Len(Append(s, p)) = Len(s) + 1
         /\ DOMAIN Append(s, p) = DOMAIN s \cup {Len(s) + 1}
         /\ \A i \in DOMAIN s : Append(s, p)[i] = s[i]
         /\ Append(s, p)[Len(s) + 1] = p
         /\ Distinct(Append(s, p))
<1>1. /\ Append(s, p) \in Seq(ModPacket)
      /\ Len(Append(s, p)) = Len(s) + 1
      /\ DOMAIN Append(s, p) = DOMAIN s \cup {Len(s) + 1}
      /\ \A i \in DOMAIN s : Append(s, p)[i] = s[i]
      /\ Append(s, p)[Len(s) + 1] = p
  OBVIOUS
<1>2. Distinct(Append(s, p))
  BY <1>1 DEF Distinct
<1> QED
  BY <1>1, <1>2

-----------------------------------------------------------------------------
(* Types. *)

LEMMA InitTypeOK == Init => TypeOK
<1> SUFFICES ASSUME Init PROVE TypeOK
  OBVIOUS
<1>1. total \in 0..MaxMods
  BY BoundAssumption DEF Init
<1>2. /\ received \subseteq 0..(MaxMods - 1) /\ replies \subseteq Counts
      /\ rx \in ModPacket \cup {NoPacket}
      /\ pc \in [Attempts -> Phase]
      /\ owner \in Attempts \cup {Script, Nobody}
  BY DEF Init, Phase
<1>3. /\ {listening, connecting, refused} \subseteq BOOLEAN
      /\ answered \in [Attempts -> BOOLEAN]
  BY DEF Init
<1>4. list \in Seq(ModPacket) /\ taken \in [Attempts -> Seq(ModPacket)]
  BY EmptyList DEF Init
<1> QED
  BY <1>1, <1>2, <1>3, <1>4 DEF TypeOK

(* What Open leaves behind is an empty collection. *)
LEMMA OpenTypes ==
  ASSUME NEW who \in Attempts \cup {Script, Nobody}, Open(who)
  PROVE  /\ listening' \in BOOLEAN /\ refused' \in BOOLEAN
         /\ total' \in 0..MaxMods /\ received' \subseteq 0..(MaxMods - 1)
         /\ list' \in Seq(ModPacket)
         /\ owner' \in Attempts \cup {Script, Nobody}
<1>1. listening' \in BOOLEAN /\ refused' \in BOOLEAN
  BY DEF Open
<1>2. total' \in 0..MaxMods /\ received' \subseteq 0..(MaxMods - 1)
  BY BoundAssumption DEF Open
<1>3. list' \in Seq(ModPacket) /\ owner' \in Attempts \cup {Script, Nobody}
  BY EmptyList DEF Open
<1> QED
  BY <1>1, <1>2, <1>3

LEMMA StepTypeOK == TypeOK /\ [Next]_vars => TypeOK'
<1> SUFFICES ASSUME TypeOK, [Next]_vars PROVE TypeOK'
  OBVIOUS
<1> USE DEF TypeOK
<1>1. CASE \E n \in Counts : ServerAnswers(n)
  BY <1>1 DEF ServerAnswers, collection, threads, history
<1>2. CASE \E n \in Counts : SetServerRequestedModCount(n)
  <2>1. PICK n \in Counts : SetServerRequestedModCount(n)
    BY <1>2
  <2>2. total' \in 0..MaxMods
    <3>1. total' = total \/ (n >= 0 /\ total' = n)
      BY <2>1 DEF SetServerRequestedModCount
    <3> QED
      BY <3>1, BoundAssumption DEF Counts, Invalid
  <2>4. listening' \in BOOLEAN /\ refused' \in BOOLEAN
    BY <2>1 DEF SetServerRequestedModCount, ClosesAt
  <2>3. UNCHANGED <<received, list, rx, connecting, pc, answered, taken, replies, owner>>
    BY <2>1 DEF SetServerRequestedModCount, threads
  <2> QED
    BY <2>2, <2>3, <2>4
<1>3. CASE \E p \in ModPacket : RecvModInfo(p)
  BY <1>3 DEF RecvModInfo, collection, threads, history
<1>4. CASE StoreModInfo
  <2>1. rx \in ModPacket /\ rx' = NoPacket
    BY <1>4 DEF StoreModInfo
  <2>2. UNCHANGED <<connecting, pc, answered, taken, replies, owner, refused>>
    BY <1>4 DEF StoreModInfo, threads, history
  <2>3. CASE Accepts(rx)
    <3>1. /\ total' = rx.total /\ received' = received \cup {rx.index}
          /\ list' = Append(list, rx) /\ listening' \in BOOLEAN
      BY <1>4, <2>3 DEF StoreModInfo
    <3>2. rx.total \in 0..MaxMods /\ rx.index \in 0..(MaxMods - 1)
      BY <2>1, BoundAssumption DEF ModPacket
    <3>3. list' \in Seq(ModPacket)
      BY <2>1, <3>1
    <3> QED
      BY <2>1, <2>2, <3>1, <3>2, <3>3
  <2>4. CASE ~Accepts(rx)
    BY <1>4, <2>1, <2>2, <2>4 DEF StoreModInfo, collection
  <2> QED
    BY <2>3, <2>4
<1>5. CASE AllowServerModDownloads
  BY <1>5, OpenTypes DEF AllowServerModDownloads, threads
<1>6. CASE ClearServerRequestedMods
  <2>1. total' \in 0..MaxMods /\ received' \subseteq 0..(MaxMods - 1)
    BY <1>6, BoundAssumption DEF ClearServerRequestedMods
  <2>2. list' \in Seq(ModPacket) /\ listening' \in BOOLEAN
    BY <1>6, EmptyList DEF ClearServerRequestedMods
  <2>3. /\ owner' = Nobody /\ ~refused' /\ refused' \in BOOLEAN
        /\ UNCHANGED <<rx, connecting, pc, answered, taken, replies>>
    BY <1>6 DEF ClearServerRequestedMods, threads
  <2> QED
    BY <2>1, <2>2, <2>3
<1>7. ASSUME NEW t \in Attempts, AttemptStep(t)
      PROVE  TypeOK'
  <2>1. CASE BeginServerModInfoRequest(t)
    BY <2>1, OpenTypes DEF BeginServerModInfoRequest, Goto, Phase
  <2>2. CASE StopServerModInfoRequest(t)
    BY <2>2 DEF StopServerModInfoRequest, Goto, Phase
  <2>3. CASE GetServerRequestedMods(t)
    BY <2>3 DEF GetServerRequestedMods, Goto, Phase, collection, history
  <2>4. CASE LeaveWait(t)
    BY <2>4 DEF LeaveWait, Goto, Phase, collection, history
  <2>5. CASE Connect(t) \/ ReturnIfCancelled(t, "check", "begin") \/ SendInfoRequestPacket(t)
               \/ ReturnIfCancelled(t, "leaving", "get")
    BY <2>5 DEF Connect, ReturnIfCancelled, SendInfoRequestPacket, Goto, Phase, collection, history
  <2> QED
    BY <1>7, <2>1, <2>2, <2>3, <2>4, <2>5 DEF AttemptStep
<1>8. CASE Interrupt
  BY <1>8 DEF Interrupt, collection, history
<1>9. CASE UNCHANGED vars
  BY <1>9 DEF vars, collection, threads, history
<1> QED
  BY <1>1, <1>2, <1>3, <1>4, <1>5, <1>6, <1>7, <1>8, <1>9 DEF Next, MainThread

(* The collection, the attempts and the packet in hand keep their types. *)
THEOREM TypeInvariant == Spec => []TypeOK
  BY InitTypeOK, StepTypeOK, PTL DEF Spec

-----------------------------------------------------------------------------
(* The packet in hand. *)

LEMMA InitPacketInv == Init => PacketInv
  BY DEF Init, PacketInv

LEMMA StepPacketInv == TypeOK /\ PacketInv /\ [Next]_vars => PacketInv'
<1> SUFFICES ASSUME PacketInv, [Next]_vars PROVE PacketInv'
  OBVIOUS
<1>1. CASE \E p \in ModPacket : RecvModInfo(p)
  BY <1>1 DEF RecvModInfo, InFlight, PacketInv
<1>2. CASE rx' = NoPacket \/ UNCHANGED rx
  BY <1>2 DEF PacketInv
<1> QED
  BY <1>1, <1>2
     DEF Next, MainThread, AttemptStep, vars, ServerAnswers, SetServerRequestedModCount,
         StoreModInfo, AllowServerModDownloads, ClearServerRequestedMods, Connect,
         ReturnIfCancelled, BeginServerModInfoRequest, SendInfoRequestPacket, LeaveWait,
         StopServerModInfoRequest, GetServerRequestedMods, Interrupt

-----------------------------------------------------------------------------
(* The list, the indices and the total. *)

(* A total that was not announced yet goes with an empty collection. *)
LEMMA NoTotalNoMods ==
  ASSUME TypeOK, ListInv, total = 0
  PROVE  received = {} /\ Cardinality(received) = 0 /\ DOMAIN list = {} /\ Len(list) = 0
<1>1. received = {}
  BY DEF ListInv, OneTotal
<1>2. Cardinality(received) = 0
  BY <1>1, FS_EmptySet
<1>3. Len(list) = 0
  BY <1>2 DEF ListInv, OncePerIndex
<1>4. DOMAIN list = {}
  BY <1>3 DEF TypeOK
<1> QED
  BY <1>1, <1>2, <1>3, <1>4

LEMMA ReceivedFinite ==
  ASSUME TypeOK, ListInv
  PROVE  IsFiniteSet(received) /\ Cardinality(received) \in Nat /\ Cardinality(received) <= total
<1>1. total \in Nat
  BY BoundAssumption DEF TypeOK
<1>2. received \in SUBSET (0..(total - 1))
  BY DEF ListInv, OneTotal
<1> QED
  BY <1>1, <1>2, IndicesFinite

(* The parts of ListInv about the collection, and the part about what the *)
(* attempts took.                                                          *)
CollectionAgrees ==
  /\ received \subseteq 0..(total - 1)
  /\ \A i \in DOMAIN list : list[i].total = total /\ list[i].index \in received
  /\ Len(list) = Cardinality(received)
  /\ Distinct(list)

TakenAgrees ==
  \A t \in Attempts :
    /\ \A i, j \in DOMAIN taken[t] : taken[t][i].total = taken[t][j].total
    /\ Distinct(taken[t])

LEMMA ListInvParts == ListInv <=> CollectionAgrees /\ TakenAgrees
  BY DEF ListInv, OneTotal, OncePerIndex, CollectionAgrees, TakenAgrees

LEMMA EmptyCollectionAgrees ==
  ASSUME received' = {}, list' = <<>>, total' = 0
  PROVE  CollectionAgrees'
<1>1. DOMAIN list' = {} /\ Len(list') = 0 /\ Cardinality(received') = 0
  BY EmptyList, FS_EmptySet
<1>2. Distinct(list')
  BY <1>1 DEF Distinct
<1> QED
  BY <1>1, <1>2 DEF CollectionAgrees

LEMMA InitListInv == Init => ListInv
<1> SUFFICES ASSUME Init PROVE ListInv
  OBVIOUS
<1>1. DOMAIN <<>> = {} /\ Len(<<>>) = 0 /\ Cardinality({}) = 0
  BY EmptyList, FS_EmptySet
<1>2. Distinct(<<>>)
  BY <1>1 DEF Distinct
<1>3. CollectionAgrees
  BY <1>1, <1>2 DEF Init, CollectionAgrees
<1>4. TakenAgrees
  BY <1>1, <1>2 DEF Init, TakenAgrees
<1> QED
  BY <1>3, <1>4, ListInvParts

(* The locked part of RecvModInfo keeps list, indices and total in step. *)
LEMMA StoreKeepsAgreement ==
  ASSUME TypeOK, PacketInv, ListInv, StoreModInfo, Accepts(rx)
  PROVE  CollectionAgrees' /\ UNCHANGED taken
<1>1. /\ rx \in ModPacket /\ rx.index \notin received /\ rx.index < rx.total
      /\ total = 0 \/ total = rx.total
  BY DEF StoreModInfo, Accepts, Conflicts, TypeOK, PacketInv
<1>2. /\ total' = rx.total /\ received' = received \cup {rx.index}
      /\ list' = Append(list, rx) /\ UNCHANGED taken
  BY DEF StoreModInfo, threads
<1>3. list \in Seq(ModPacket) /\ \A i \in DOMAIN list : list[i].index # rx.index
  BY <1>1 DEF TypeOK, ListInv
<1>4. /\ Len(list') = Len(list) + 1
      /\ DOMAIN list' = DOMAIN list \cup {Len(list) + 1}
      /\ \A i \in DOMAIN list : list'[i] = list[i]
      /\ list'[Len(list) + 1] = rx
      /\ Distinct(list')
  BY <1>1, <1>2, <1>3, AppendNew DEF ListInv, OncePerIndex
<1>5. Cardinality(received') = Cardinality(received) + 1
  BY <1>1, <1>2, ReceivedFinite, FS_AddElement
<1>6. received \subseteq 0..(rx.total - 1) /\ \A i \in DOMAIN list : list[i].total = rx.total
  BY <1>1, NoTotalNoMods DEF ListInv, OneTotal
<1>7. rx.index \in 0..(rx.total - 1)
  BY <1>1, BoundAssumption DEF ModPacket
<1>8. received' \subseteq 0..(total' - 1)
  BY <1>2, <1>6, <1>7
<1>9. \A i \in DOMAIN list' : list'[i].total = total' /\ list'[i].index \in received'
  BY <1>2, <1>4, <1>6 DEF ListInv
<1>10. Len(list') = Cardinality(received')
  BY <1>4, <1>5 DEF ListInv, OncePerIndex
<1> QED
  BY <1>2, <1>4, <1>8, <1>9, <1>10 DEF CollectionAgrees

LEMMA StepListInv == TypeOK /\ PacketInv /\ ListInv /\ [Next]_vars => ListInv'
<1> SUFFICES ASSUME TypeOK, PacketInv, ListInv, [Next]_vars
             PROVE  CollectionAgrees' /\ TakenAgrees'
  BY DEF ListInv, OneTotal, OncePerIndex, CollectionAgrees, TakenAgrees
<1>0. CollectionAgrees /\ TakenAgrees
  BY ListInvParts
<1>a. UNCHANGED <<total, received, list>> => CollectionAgrees'
  BY <1>0 DEF CollectionAgrees, Distinct
<1>b. UNCHANGED taken => TakenAgrees'
  BY <1>0 DEF TakenAgrees, Distinct
<1>1. ASSUME NEW n \in Counts, SetServerRequestedModCount(n)
      PROVE  CollectionAgrees' /\ UNCHANGED taken
  <2>1. /\ UNCHANGED <<received, list, taken>>
        /\ UNCHANGED total \/ (total' = n /\ ~Conflicts(n))
    BY <1>1 DEF SetServerRequestedModCount, threads
  <2>2. CASE UNCHANGED total
    BY <1>a, <2>1, <2>2
  <2>3. CASE total' = n /\ total = 0
    BY <1>0, <2>1, <2>3, NoTotalNoMods DEF CollectionAgrees, Distinct
  <2> QED
    BY <2>1, <2>2, <2>3 DEF Conflicts
<1>2. CASE StoreModInfo
  <2>1. CASE Accepts(rx)
    BY <1>b, <1>2, <2>1, StoreKeepsAgreement
  <2>2. CASE ~Accepts(rx)
    BY <1>a, <1>b, <1>2, <2>2 DEF StoreModInfo, collection, threads
  <2> QED
    BY <2>1, <2>2
<1>3. ASSUME NEW t \in Attempts, GetServerRequestedMods(t)
      PROVE  CollectionAgrees' /\ TakenAgrees'
  <2>1. taken' = [taken EXCEPT ![t] = list] /\ UNCHANGED <<total, received, list>>
    BY <1>3 DEF GetServerRequestedMods, collection
  <2>2. \A i, j \in DOMAIN list : list[i].total = list[j].total
    BY <1>0 DEF CollectionAgrees
  <2>3. TakenAgrees'
    BY <1>0, <2>1, <2>2 DEF TakenAgrees, CollectionAgrees, TypeOK, Distinct
  <2> QED
    BY <1>a, <2>1, <2>3
<1>4. CASE /\ total' = 0 /\ received' = {} /\ list' = <<>> /\ UNCHANGED taken
  BY <1>b, <1>4, EmptyCollectionAgrees
<1>5. CASE UNCHANGED <<total, received, list, taken>>
  BY <1>a, <1>b, <1>5
<1>6. CASE \/ AllowServerModDownloads \/ ClearServerRequestedMods
           \/ \E t \in Attempts : BeginServerModInfoRequest(t)
  BY <1>4, <1>6 DEF AllowServerModDownloads, ClearServerRequestedMods,
                    BeginServerModInfoRequest, Open, threads
<1>7. CASE \/ \E n \in Counts : ServerAnswers(n)
           \/ \E p \in ModPacket : RecvModInfo(p)
           \/ \E t \in Attempts :
                \/ Connect(t) \/ SendInfoRequestPacket(t) \/ LeaveWait(t)
                \/ StopServerModInfoRequest(t)
                \/ ReturnIfCancelled(t, "check", "begin") \/ ReturnIfCancelled(t, "leaving", "get")
           \/ Interrupt
           \/ UNCHANGED vars
  BY <1>5, <1>7 DEF ServerAnswers, RecvModInfo, Connect, SendInfoRequestPacket, LeaveWait,
                    StopServerModInfoRequest, ReturnIfCancelled, Interrupt, vars, collection,
                    threads
<1> QED
  BY <1>b, <1>1, <1>2, <1>3, <1>6, <1>7 DEF Next, MainThread, AttemptStep

LEMMA ListInvariant == Spec => [](TypeOK /\ PacketInv /\ ListInv)
<1>1. Init => TypeOK /\ PacketInv /\ ListInv
  BY InitTypeOK, InitPacketInv, InitListInv
<1>2. TypeOK /\ PacketInv /\ ListInv /\ [Next]_vars => (TypeOK /\ PacketInv /\ ListInv)'
  BY StepTypeOK, StepPacketInv, StepListInv
<1> QED
  BY <1>1, <1>2, PTL DEF Spec

(* Whatever packets of other requests and servers arrive, a list never      *)
(* mixes mods announced under different totals, in the collection or in     *)
(* what an attempt took from it.                                            *)
THEOREM ListsAreOfOneTotal == Spec => []OneTotal
<1>1. ListInv => OneTotal
  BY DEF ListInv
<1> QED
  BY ListInvariant, <1>1, PTL

(* Repeated packets never make a list longer than the number of different  *)
(* mods received.                                                          *)
THEOREM ListsHaveNoRepeats == Spec => []OncePerIndex
<1>1. ListInv => OncePerIndex
  BY DEF ListInv
<1> QED
  BY ListInvariant, <1>1, PTL

(* Both: a list is of one answer and has each of its mods once.            *)
THEOREM ListsAreWellFormed == Spec => []WellFormedLists
<1>1. ListInv => WellFormedLists
  BY DEF ListInv, WellFormedLists
<1> QED
  BY ListInvariant, <1>1, PTL

-----------------------------------------------------------------------------
(* A closed list stays as it is until it is thrown away. *)

LEMMA StepClosedList == [Next]_vars => [~listening => list' \in {list, <<>>}]_vars
<1> SUFFICES ASSUME [Next]_vars, ~listening PROVE list' \in {list, <<>>}
  OBVIOUS
<1>1. CASE StoreModInfo
  BY <1>1 DEF StoreModInfo, Accepts, collection
<1>2. CASE UNCHANGED list \/ list' = <<>>
  BY <1>2
<1> QED
  BY <1>1, <1>2
     DEF Next, MainThread, AttemptStep, vars, collection, ServerAnswers, RecvModInfo,
         SetServerRequestedModCount, AllowServerModDownloads, ClearServerRequestedMods, Open,
         Connect, ReturnIfCancelled, BeginServerModInfoRequest, SendInfoRequestPacket, LeaveWait,
         StopServerModInfoRequest, GetServerRequestedMods, Interrupt

(* A packet that passed the check of the flag outside the lock is not       *)
(* stored once the collection has been closed.                              *)
THEOREM ClosedListIsFrozen == Spec => ClosedListFrozen
  BY StepClosedList, PTL DEF Spec, ClosedListFrozen

-----------------------------------------------------------------------------
(* The request that owns the collection. *)

LEMMA InitRequestInv == Init => RequestInv
  BY NamesAssumption DEF Init, RequestInv, NoOrphanListening

(* Steps that touch neither the threads nor who owns the collection: they   *)
(* may close it only when it is full or refused.                            *)
LEMMA CollectionStep ==
  ASSUME RequestInv, UNCHANGED <<pc, answered, owner>>,
         listening' => listening,
         \/ UNCHANGED <<listening, received, total, refused>>
         \/ listening /\ (~listening' => Full' \/ refused')
  PROVE  RequestInv'
  BY DEF RequestInv, NoOrphanListening, Full

LEMMA StepRequestInv == TypeOK /\ PacketInv /\ ListInv /\ RequestInv /\ [Next]_vars => RequestInv'
<1> SUFFICES ASSUME TypeOK, PacketInv, ListInv, RequestInv, [Next]_vars PROVE RequestInv'
  OBVIOUS
<1>1. ASSUME NEW n \in Counts, SetServerRequestedModCount(n)
      PROVE  RequestInv'
  <2>1. listening /\ UNCHANGED <<received, pc, answered, owner>>
    BY <1>1 DEF SetServerRequestedModCount, threads
  <2>a. CASE n < 0
    <3>1. ~listening' /\ refused'
      BY <1>1, <2>a DEF SetServerRequestedModCount, Counts, Invalid
    <3> QED
      BY <2>1, <3>1, CollectionStep
  <2>b. CASE n >= 0
    <3>1. ~Conflicts(n) /\ total' = n /\ listening' = ~ClosesAt(n) /\ n \in Nat
      BY <1>1, <2>b, BoundAssumption DEF SetServerRequestedModCount, Counts, Invalid
    <3>2. total = 0 => Cardinality(received) = 0
      BY NoTotalNoMods
    <3>3. Cardinality(received) \in Nat /\ Cardinality(received) <= total
      BY ReceivedFinite
    <3>4. total = 0 \/ total = n
      BY <3>1 DEF Conflicts
    <3>5. ClosesAt(n) => Cardinality(received) = n
      BY <3>1, <3>2, <3>3, <3>4 DEF ClosesAt
    <3>6. ~listening' => Full'
      BY <2>1, <3>1, <3>5 DEF Full
    <3> QED
      BY <2>1, <3>6, CollectionStep
  <2> QED
    BY <2>a, <2>b, BoundAssumption DEF Counts, Invalid
<1>2. CASE StoreModInfo
  <2>1. UNCHANGED <<pc, answered, owner, refused>>
    BY <1>2 DEF StoreModInfo, threads, history
  <2>2. CASE Accepts(rx)
    <3>1. /\ listening /\ total' = rx.total
          /\ listening' = (Cardinality(received') # rx.total)
      BY <1>2, <2>2 DEF StoreModInfo, Accepts
    <3>2. ~listening' => Full'
      BY <3>1 DEF Full
    <3> QED
      BY <2>1, <3>1, <3>2, CollectionStep
  <2>3. CASE ~Accepts(rx)
    BY <1>2, <2>1, <2>3, CollectionStep DEF StoreModInfo, collection
  <2> QED
    BY <2>2, <2>3
<1>3. CASE AllowServerModDownloads
  BY <1>3, NamesAssumption DEF AllowServerModDownloads, Open, threads, RequestInv, NoOrphanListening
<1>4. CASE ClearServerRequestedMods
  BY <1>4, NamesAssumption DEF ClearServerRequestedMods, threads, RequestInv, NoOrphanListening
<1>5. ASSUME NEW t \in Attempts, AttemptStep(t)
      PROVE  RequestInv'
  <2> DEFINE Moves(next) == pc' = [pc EXCEPT ![t] = next]
  <2>1. CASE BeginServerModInfoRequest(t)
    <3>1. /\ pc[t] = "begin" /\ owner' = t /\ listening' /\ Moves("asking")
          /\ UNCHANGED answered
      BY <2>1 DEF BeginServerModInfoRequest, Open, Goto
    <3>2. pc'[t] = "asking" /\ \A u \in Attempts \ {t} : pc'[u] = pc[u]
      BY <3>1 DEF TypeOK
    <3> QED
      BY <3>1, <3>2, NamesAssumption DEF RequestInv, NoOrphanListening, Collecting
  <2>2. CASE SendInfoRequestPacket(t)
    <3>1. pc[t] = "asking" /\ Moves("waiting") /\ UNCHANGED <<collection, answered, history>>
      BY <2>2 DEF SendInfoRequestPacket, Goto
    <3>2. pc'[t] = "waiting" /\ \A u \in Attempts \ {t} : pc'[u] = pc[u]
      BY <3>1 DEF TypeOK
    <3> QED
      BY <3>1, <3>2, NamesAssumption
         DEF RequestInv, NoOrphanListening, Collecting, collection, history, Full
  <2>3. CASE LeaveWait(t)
    <3>1. /\ pc[t] = "waiting" /\ Moves("stopping")
          /\ answered' = [answered EXCEPT ![t] = ~listening]
          /\ UNCHANGED <<collection, history>>
      BY <2>3 DEF LeaveWait, Goto
    <3>2. /\ pc'[t] = "stopping" /\ answered'[t] = ~listening
          /\ \A u \in Attempts \ {t} : pc'[u] = pc[u] /\ answered'[u] = answered[u]
      BY <3>1 DEF TypeOK
    <3> QED
      BY <3>1, <3>2, NamesAssumption
         DEF RequestInv, NoOrphanListening, Collecting, collection, history, Full
  <2>4. CASE StopServerModInfoRequest(t)
    <3>1. /\ pc[t] = "stopping" /\ Moves("leaving") /\ ~listening'
          /\ owner' = (IF owner = t THEN t ELSE Nobody)
          /\ UNCHANGED <<total, received, answered, refused>>
      BY <2>4 DEF StopServerModInfoRequest, Goto
    <3>2. pc'[t] = "leaving" /\ \A u \in Attempts \ {t} : pc'[u] = pc[u]
      BY <3>1 DEF TypeOK
    <3> QED
      BY <3>1, <3>2, NamesAssumption DEF RequestInv, NoOrphanListening, Collecting, Full
  <2>5. CASE \/ Connect(t) \/ GetServerRequestedMods(t)
             \/ ReturnIfCancelled(t, "check", "begin") \/ ReturnIfCancelled(t, "leaving", "get")
    <3>1. \/ pc[t] \in {"none", "check"} /\ pc'[t] \in {"check", "begin", "over"}
          \/ pc[t] \in {"leaving", "get"} /\ pc'[t] \in {"get", "over"}
      BY <2>5 DEF Connect, GetServerRequestedMods, ReturnIfCancelled, Goto, TypeOK
    <3>2. \A u \in Attempts \ {t} : pc'[u] = pc[u]
      BY <2>5 DEF Connect, GetServerRequestedMods, ReturnIfCancelled, Goto, TypeOK
    <3>3. UNCHANGED <<collection, answered, history>>
      BY <2>5 DEF Connect, GetServerRequestedMods, ReturnIfCancelled
    <3> QED
      BY <3>1, <3>2, <3>3, NamesAssumption
         DEF RequestInv, NoOrphanListening, Collecting, collection, history, Full
  <2> QED
    BY <1>5, <2>1, <2>2, <2>3, <2>4, <2>5 DEF AttemptStep
<1>6. CASE UNCHANGED <<collection, pc, answered, history>>
  BY <1>6 DEF RequestInv, NoOrphanListening, collection, history, Full
<1> QED
  BY <1>1, <1>2, <1>3, <1>4, <1>5, <1>6
     DEF Next, MainThread, vars, threads, ServerAnswers, RecvModInfo, Interrupt

LEMMA RequestInvariant == Spec => []RequestInv
  BY ListInvariant, InitRequestInv, StepRequestInv, PTL DEF Spec

(* However an attempt's request ends, it does not leave the client listening *)
(* to servers.                                                               *)
THEOREM ListeningHasAnOwner == Spec => []NoOrphanListening
<1>1. RequestInv => NoOrphanListening
  BY DEF RequestInv
<1> QED
  BY RequestInvariant, <1>1, PTL

(* An attempt that saw its own collection close, and was not disturbed, has *)
(* every mod the server announced, or an invalid count closed it.            *)
THEOREM AnswersAreComplete == Spec => []CompleteWhenAnswered
<1>1. ListInv /\ RequestInv => CompleteWhenAnswered
  BY DEF ListInv, OncePerIndex, RequestInv, Full, CompleteWhenAnswered
<1> QED
  BY ListInvariant, RequestInvariant, <1>1, PTL
=============================================================================
