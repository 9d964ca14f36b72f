---------------------------- MODULE EosSessionProofs ----------------------------
(***************************************************************************)
(* Proofs about EosSession for every set of users and packet sizes and for *)
(* all limits.  What the engine receives does not depend on the byte       *)
(* counters, because a queue may lose its oldest packets, and a reassembly *)
(* may be given up, at any time; that the counters are right needs facts   *)
(* about sums, which are cardinalities here.                               *)
(***************************************************************************)
EXTENDS EosSession, SequenceTheorems, FunctionTheorems, FiniteSetTheorems, WellFoundedInduction, TLAPS

(* The part of TypeOK that what follows needs. *)
Typed ==
  /\ sent \in Seq(Message) /\ Len(sent) <= MaxMessages
  /\ queue \in [Sockets -> Seq(Packet)] /\ reassemblies \subseteq Reassembly
  /\ localUser \in Users \cup {"none"}

(* What is so of every session, whatever its three threads have done.      *)
NothingLeft ==
  /\ ~initialized /\ ~ready /\ authState = "IDLE"
  /\ localUser = "none" /\ notification = "none" /\ calls = {}
  /\ reassemblies = {} /\ \A s \in Sockets : queue[s] = <<>>

(* A user is logged in only in the states that follow the device id, and   *)
(* the registration is for that user or for nobody.                        *)
SessionInv ==
  /\ main = "idle" <=> process = "none"
  /\ main = "over" => process = "over"
  /\ process # "loop" => NothingLeft
  /\ process \in {"none", "over"} => ~running
  /\ notification \in {"none", localUser}
  /\ localUser # "none" => authState \notin {"IDLE", "NEED_DEVICE_ID", "CREATING_DEVICE_ID"}
  /\ authState \in {"NEED_NOTIFICATION", "READY"} => localUser # "none"
  /\ ReadyIsRegistered
  /\ OneRequest

-----------------------------------------------------------------------------
(* Facts about the data. *)

LEMMA PartsOfFact ==
  ASSUME NEW D \in SUBSET Fragments, NEW f \in [D -> 1 .. MaxMessages]
  PROVE  f \in PartsOf
  BY DEF PartsOf

(* A set of numbers that is not empty has a least element. *)
LEMMA Least ==
  ASSUME NEW T \in SUBSET Nat, T # {}
  PROVE  \E k \in T : \A j \in 0 .. k - 1 : j \notin T
<1>1. PICK k \in T : \A j \in T : ~(<<j, k>> \in OpToRel(<, Nat))
  BY NatLessThanWellFounded, WFMin, Zenon
<1>2. ASSUME NEW j \in 0 .. k - 1, j \in T PROVE FALSE
  <2>1. <<j, k>> \in Nat \X Nat /\ <<j, k>>[1] < <<j, k>>[2]
    BY <1>2
  <2> QED
    BY <1>1, <1>2, <2>1, Zenon DEF OpToRel
<1> QED
  BY <1>2

-----------------------------------------------------------------------------
(* Sums.  Total(size) counts the pairs of an x and a number up to size[x]. *)

Cells(size) == UNION {{x} \X (1 .. size[x]) : x \in DOMAIN size}

LEMMA CellsFact ==
  ASSUME NEW S, NEW size \in [S -> Nat], NEW c
  PROVE  c \in Cells(size) <=> \E x \in S : \E b \in 1 .. size[x] : c = <<x, b>>
  BY DEF Cells

LEMMA UpTo == ASSUME NEW n \in Nat PROVE IsFiniteSet(1 .. n) /\ Cardinality(1 .. n) = n
<1>1. IsFiniteSet(1 .. n) /\ Cardinality(1 .. n) = IF 1 > n THEN 0 ELSE n - 1 + 1
  BY FS_Interval, 1 \in Int, n \in Int, Zenon
<1> QED
  BY <1>1

LEMMA RowFact ==
  ASSUME NEW x, NEW n \in Nat
  PROVE  IsFiniteSet({x} \X (1 .. n)) /\ Cardinality({x} \X (1 .. n)) = n
<1>1. IsFiniteSet(1 .. n) /\ Cardinality(1 .. n) = n
  BY UpTo
<1>2. IsFiniteSet({x}) /\ Cardinality({x}) = 1
  BY FS_Singleton, Zenon
<1>3. /\ IsFiniteSet({x} \X (1 .. n))
      /\ Cardinality({x} \X (1 .. n)) = Cardinality({x}) * Cardinality(1 .. n)
  BY <1>1, <1>2, FS_Product, Zenon
<1> QED
  BY <1>1, <1>2, <1>3

LEMMA DisjointUnion ==
  ASSUME NEW A, IsFiniteSet(A), NEW B, IsFiniteSet(B), A \cap B = {}
  PROVE  Cardinality(A \cup B) = Cardinality(A) + Cardinality(B)
<1>1. Cardinality(A \cup B) = Cardinality(A) + Cardinality(B) - Cardinality(A \cap B)
  BY FS_Union, Zenon
<1>2. Cardinality(A \cap B) = 0
  BY FS_EmptySet
<1>3. Cardinality(A) \in Nat /\ Cardinality(B) \in Nat
  BY FS_CardinalityType
<1> QED
  BY <1>1, <1>2, <1>3

LEMMA TotalType ==
  ASSUME NEW S, IsFiniteSet(S), NEW size \in [S -> Nat]
  PROVE  IsFiniteSet(Cells(size)) /\ Total(size) \in Nat
<1> DEFINE cells(x) == {x} \X (1 .. size[x])
           g == [x \in S |-> cells(x)]
           C == {cells(x) : x \in S}
<1>1. g \in Surjection(S, C)
  BY Fun_IsSurj
<1> HIDE DEF g
<1>2. IsFiniteSet(C)
  BY <1>1, FS_Surjection
<1>3. \A x \in S : IsFiniteSet(cells(x))
  BY RowFact
<1>4. IsFiniteSet(UNION C)
  BY <1>2, <1>3, FS_UNION
<1>5. Cells(size) = UNION C
  BY DEF Cells
<1> QED
  BY <1>4, <1>5, FS_CardinalityType DEF Total, Cells

LEMMA TotalEmpty == ASSUME NEW size \in [{} -> Nat] PROVE Total(size) = 0
<1>1. Cells(size) = {}
  BY DEF Cells
<1> QED
  BY <1>1, FS_EmptySet DEF Total, Cells

LEMMA TotalSingle ==
  ASSUME NEW x, NEW size \in [{x} -> Nat] PROVE Total(size) = size[x]
<1>1. Cells(size) = {x} \X (1 .. size[x])
  BY DEF Cells
<1> QED
  BY <1>1, RowFact DEF Total, Cells

(* The sum over a set is the sum over a part of it and that over the rest. *)
LEMMA TotalSplit ==
  ASSUME NEW S, NEW T \in SUBSET S, NEW size \in [S -> Nat], IsFiniteSet(S)
  PROVE  Total(size) = Total(Restrict(size, T)) + Total(Restrict(size, S \ T))
<1> DEFINE part == Restrict(size, T)
           rest == Restrict(size, S \ T)
<1>1. /\ IsFiniteSet(T) /\ IsFiniteSet(S \ T)
      /\ part \in [T -> Nat] /\ rest \in [S \ T -> Nat]
      /\ \A x \in T : part[x] = size[x]
      /\ \A x \in S \ T : rest[x] = size[x]
  BY FS_Subset DEF Restrict
<1> HIDE DEF part, rest
<1>2. Cells(size) = Cells(part) \cup Cells(rest)
  BY <1>1, CellsFact
<1>3. Cells(part) \cap Cells(rest) = {}
  BY <1>1, CellsFact
<1>4. IsFiniteSet(Cells(part)) /\ IsFiniteSet(Cells(rest))
  BY <1>1, TotalType
<1>5. Cardinality(Cells(size)) = Cardinality(Cells(part)) + Cardinality(Cells(rest))
  BY <1>2, <1>3, <1>4, DisjointUnion
<1>6. /\ Total(size) = Cardinality(Cells(size)) /\ Total(part) = Cardinality(Cells(part))
      /\ Total(rest) = Cardinality(Cells(rest))
  BY DEF Total, Cells
<1> QED
  BY <1>5, <1>6 DEF part, rest

(* A sum does not change when its numbers are counted off along a bijection. *)
LEMMA TotalMoved ==
  ASSUME NEW S, NEW T, NEW g \in Bijection(S, T), NEW moved \in [T -> Nat], IsFiniteSet(S)
  PROVE  Total(moved) = Total([x \in S |-> moved[g[x]]])
<1> DEFINE size == [x \in S |-> moved[g[x]]]
           h == [c \in Cells(size) |-> <<g[c[1]], c[2]>>]
<1>0. /\ g \in [S -> T] /\ \A a, b \in S : g[a] = g[b] => a = b
      /\ \A t \in T : \E x \in S : g[x] = t
  BY Fun_BijectionProperties
<1>a. size \in [S -> Nat] /\ \A x \in S : size[x] = moved[g[x]]
  BY <1>0
<1> HIDE DEF size
<1>1. \A c \in Cells(size) : c[1] \in S /\ c[2] \in 1 .. size[c[1]] /\ c = <<c[1], c[2]>>
  BY <1>a, CellsFact
<1>2. h \in [Cells(size) -> Cells(moved)]
  <2>1. ASSUME NEW c \in Cells(size) PROVE <<g[c[1]], c[2]>> \in Cells(moved)
    <3>1. g[c[1]] \in T /\ c[2] \in 1 .. moved[g[c[1]]]
      BY <1>0, <1>1, <1>a
    <3> QED
      BY <3>1, CellsFact
  <2> QED
    BY <2>1
<1>3. ASSUME NEW a \in Cells(size), NEW b \in Cells(size), h[a] = h[b] PROVE a = b
  <2>1. g[a[1]] = g[b[1]] /\ a[2] = b[2]
    BY <1>3
  <2> QED
    BY <1>0, <1>1, <2>1
<1>4. ASSUME NEW d \in Cells(moved) PROVE \E c \in Cells(size) : h[c] = d
  <2>1. PICK t \in T : \E b \in 1 .. moved[t] : d = <<t, b>>
    BY CellsFact
  <2>2. PICK b \in 1 .. moved[t] : d = <<t, b>>
    BY <2>1
  <2>3. PICK s \in S : g[s] = t
    BY <1>0
  <2>4. <<s, b>> \in Cells(size)
    BY <1>a, <2>2, <2>3, CellsFact
  <2>5. h[<<s, b>>] = <<g[<<s, b>>[1]], <<s, b>>[2]>>
    BY <2>4
  <2> QED
    BY <2>2, <2>3, <2>4, <2>5
<1> HIDE DEF h
<1>5. h \in Bijection(Cells(size), Cells(moved))
  BY <1>2, <1>3, <1>4, Fun_IsBij
<1>6. IsFiniteSet(Cells(size))
  BY <1>a, TotalType
<1>7. Cardinality(Cells(moved)) = Cardinality(Cells(size))
  BY <1>5, <1>6, FS_Bijection DEF ExistsBijection
<1> QED
  BY <1>7 DEF Total, Cells, size

(* The bytes of sets of reassemblies. *)
LEMMA BytesSplit ==
  ASSUME NEW R, NEW E \in SUBSET R, IsFiniteSet(R), \A r \in R : r.size \in Nat
  PROVE  /\ BytesOf(R \ E) = BytesOf(R) - BytesOf(E)
         /\ BytesOf(R) \in Nat /\ BytesOf(E) \in Nat /\ BytesOf(R \ E) \in Nat
<1> DEFINE size == [r \in R |-> r.size]
           part == [r \in E |-> r.size]
           rest == [r \in R \ E |-> r.size]
<1>1. /\ size \in [R -> Nat] /\ part \in [E -> Nat] /\ rest \in [R \ E -> Nat]
      /\ part = Restrict(size, E) /\ rest = Restrict(size, R \ E)
  BY DEF Restrict
<1>2. BytesOf(R) = Total(size) /\ BytesOf(E) = Total(part) /\ BytesOf(R \ E) = Total(rest)
  BY DEF BytesOf
<1> HIDE DEF size, part, rest
<1>3. Total(size) = Total(part) + Total(rest)
  BY <1>1, TotalSplit
<1>4. IsFiniteSet(E) /\ IsFiniteSet(R \ E)
  BY FS_Subset
<1>5. Total(size) \in Nat /\ Total(part) \in Nat /\ Total(rest) \in Nat
  BY <1>1, <1>4, TotalType
<1> QED
  BY <1>2, <1>3, <1>5

LEMMA BytesAdded ==
  ASSUME NEW R, IsFiniteSet(R), \A o \in R : o.size \in Nat, NEW r, r \notin R, r.size \in Nat
  PROVE  /\ BytesOf(R \cup {r}) = BytesOf(R) + r.size
         /\ BytesOf(R) \in Nat
<1>1. IsFiniteSet(R \cup {r}) /\ \A o \in R \cup {r} : o.size \in Nat
  BY FS_AddElement
<1>2. /\ BytesOf((R \cup {r}) \ R) = BytesOf(R \cup {r}) - BytesOf(R)
      /\ BytesOf(R \cup {r}) \in Nat /\ BytesOf(R) \in Nat
  BY <1>1, BytesSplit
<1>3. (R \cup {r}) \ R = {r}
  OBVIOUS
<1>4. BytesOf({r}) = r.size
  BY TotalSingle DEF BytesOf
<1> QED
  BY <1>2, <1>3, <1>4

LEMMA BytesMoved ==
  ASSUME NEW R, NEW Q, NEW g \in Bijection(R, Q),
         IsFiniteSet(R), \A r \in R : r.size \in Nat, \A r \in R : g[r].size = r.size
  PROVE  BytesOf(Q) = BytesOf(R)
<1> DEFINE size == [r \in R |-> r.size]
           moved == [r \in Q |-> r.size]
<1>1. \A x \in R : g[x] \in Q
  BY Fun_BijectionProperties
<1>2. \A y \in Q : \E x \in R : g[x] = y
  BY Fun_BijectionProperties
<1>3. moved \in [Q -> Nat] /\ size = [x \in R |-> moved[g[x]]]
  BY <1>1, <1>2
<1>4. BytesOf(R) = Total(size) /\ BytesOf(Q) = Total(moved)
  BY DEF BytesOf
<1> HIDE DEF moved
<1>5. Total(moved) = Total([x \in R |-> moved[g[x]]])
  BY <1>3, TotalMoved
<1> QED
  BY <1>3, <1>4, <1>5

(* The bytes of a queue from which packets are dropped or to which one is  *)
(* appended.                                                               *)
LEMMA QueueBytesAppend ==
  ASSUME NEW S, NEW q \in Seq(S), \A x \in S : x.size \in Nat, NEW p \in S
  PROVE  /\ QueueBytes(Append(q, p)) = QueueBytes(q) + p.size
         /\ QueueBytes(q) \in Nat
<1> DEFINE n    == Len(q)
           size == [i \in 1 .. n + 1 |-> Append(q, p)[i].size]
           part == [i \in 1 .. n |-> q[i].size]
           last == [i \in {n + 1} |-> p.size]
<1>1. /\ n \in Nat /\ DOMAIN q = 1 .. n /\ \A i \in 1 .. n : q[i] \in S
  BY LenProperties
<1>2. /\ DOMAIN Append(q, p) = 1 .. n + 1
      /\ \A i \in 1 .. n + 1 : Append(q, p)[i] = IF i = n + 1 THEN p ELSE q[i]
  BY <1>1
<1>3. QueueBytes(Append(q, p)) = Total(size) /\ QueueBytes(q) = Total(part)
  BY <1>1, <1>2 DEF QueueBytes
<1>4. /\ size \in [1 .. n + 1 -> Nat] /\ (1 .. n + 1) \ (1 .. n) = {n + 1}
      /\ \A i \in 1 .. n : size[i] = q[i].size /\ size[n + 1] = p.size
      /\ 1 .. n \subseteq 1 .. n + 1
  BY <1>1, <1>2
<1>5. /\ part = Restrict(size, 1 .. n) /\ part \in [1 .. n -> Nat]
      /\ last = Restrict(size, (1 .. n + 1) \ (1 .. n))
  BY <1>1, <1>4 DEF Restrict
<1>6. IsFiniteSet(1 .. n + 1) /\ IsFiniteSet(1 .. n)
  BY <1>1, UpTo
<1>7. last \in [{n + 1} -> Nat] /\ last[n + 1] = p.size
  OBVIOUS
<1> HIDE DEF size, part, last, n
<1>8. Total(size) = Total(part) + Total(last)
  BY <1>4, <1>5, <1>6, TotalSplit
<1>9. Total(last) = p.size /\ Total(part) \in Nat
  BY <1>5, <1>6, <1>7, TotalSingle, TotalType
<1> QED
  BY <1>3, <1>8, <1>9

LEMMA DroppedFact ==
  ASSUME NEW S, NEW q \in Seq(S), NEW k \in 0 .. Len(q)
  PROVE  LET early == SubSeq(q, 1, k)
             late  == Dropped(q, k)
         IN  /\ early \in Seq(S) /\ Len(early) = k /\ DOMAIN early = 1 .. k
             /\ \A i \in 1 .. k : early[i] = q[i]
             /\ late \in Seq(S) /\ Len(late) = Len(q) - k /\ DOMAIN late = 1 .. Len(q) - k
             /\ \A i \in 1 .. Len(q) - k : late[i] = q[i + k]
<1> DEFINE n     == Len(q)
           early == SubSeq(q, 1, k)
           late  == Dropped(q, k)
<1>1. n \in Nat /\ \A i \in 1 .. n : q[i] \in S
  BY LenProperties
<1>2. /\ early \in Seq(S) /\ Len(early) = k /\ \A i \in 1 .. k : early[i] = q[i]
  <2>1. \A i \in 1 .. k : q[i] \in S
    BY <1>1
  <2>2. /\ early \in Seq(S) /\ Len(early) = IF 1 <= k THEN k - 1 + 1 ELSE 0
        /\ \A i \in 1 .. k - 1 + 1 : early[i] = q[1 + i - 1]
    BY <1>1, <2>1, SubSeqProperties
  <2> QED
    BY <2>2
<1>3. /\ late \in Seq(S) /\ Len(late) = n - k /\ \A i \in 1 .. n - k : late[i] = q[i + k]
  <2>1. \A i \in k + 1 .. n : q[i] \in S
    BY <1>1
  <2>2. /\ late \in Seq(S) /\ Len(late) = IF k + 1 <= n THEN n - (k + 1) + 1 ELSE 0
        /\ \A i \in 1 .. n - (k + 1) + 1 : late[i] = q[k + 1 + i - 1]
    BY <1>1, <2>1, SubSeqProperties DEF Dropped
  <2>3. (IF k + 1 <= n THEN n - (k + 1) + 1 ELSE 0) = n - k
    BY <1>1
  <2>4. ASSUME NEW i \in 1 .. n - k PROVE late[i] = q[i + k]
    <3>1. i \in 1 .. n - (k + 1) + 1 /\ k + 1 + i - 1 = i + k
      BY <1>1
    <3> QED
      BY <2>2, <3>1
  <2> QED
    BY <2>2, <2>3, <2>4
<1> QED
  BY <1>2, <1>3, LenProperties

LEMMA QueueBytesDropped ==
  ASSUME NEW S, NEW q \in Seq(S), \A x \in S : x.size \in Nat, NEW k \in 0 .. Len(q)
  PROVE  /\ QueueBytes(q) = QueueBytes(SubSeq(q, 1, k)) + QueueBytes(Dropped(q, k))
         /\ QueueBytes(q) \in Nat /\ QueueBytes(SubSeq(q, 1, k)) \in Nat /\ QueueBytes(Dropped(q, k)) \in Nat
<1> DEFINE n     == Len(q)
           early == SubSeq(q, 1, k)
           late  == Dropped(q, k)
           size  == [i \in 1 .. n |-> q[i].size]
           part  == [i \in 1 .. k |-> q[i].size]
           left  == (1 .. n) \ (1 .. k)
           front == 1 .. n - k
           rest  == [i \in left |-> q[i].size]
           moved == [i \in front |-> late[i].size]
           g     == [i \in left |-> i - k]
<1>1. /\ n \in Nat /\ DOMAIN q = 1 .. n /\ \A i \in 1 .. n : q[i] \in S
  BY LenProperties
<1>2. /\ early \in Seq(S) /\ DOMAIN early = 1 .. k /\ \A i \in 1 .. k : early[i] = q[i]
      /\ late \in Seq(S) /\ DOMAIN late = 1 .. n - k /\ \A i \in 1 .. n - k : late[i] = q[i + k]
  BY DroppedFact
<1> HIDE DEF early, late
<1>3. QueueBytes(q) = Total(size) /\ QueueBytes(early) = Total(part) /\ QueueBytes(late) = Total(moved)
  BY <1>1, <1>2 DEF QueueBytes
<1>4. /\ size \in [1 .. n -> Nat] /\ 1 .. k \subseteq 1 .. n
      /\ part \in [1 .. k -> Nat] /\ part = Restrict(size, 1 .. k)
      /\ rest \in [left -> Nat] /\ rest = Restrict(size, left)
  BY <1>1 DEF Restrict
<1>5. moved \in [front -> Nat]
  BY <1>1, <1>2
<1>6. IsFiniteSet(1 .. n) /\ IsFiniteSet(1 .. k) /\ IsFiniteSet(left)
  <2>1. IsFiniteSet(1 .. n) /\ IsFiniteSet(1 .. k)
    BY <1>1, UpTo
  <2>2. left \subseteq 1 .. n
    OBVIOUS
  <2> QED
    BY <2>1, <2>2, FS_Subset
<1>7. g \in Bijection(left, front)
  <2>1. g \in [left -> front]
    BY <1>1
  <2>2. ASSUME NEW a \in left, NEW b \in left, g[a] = g[b] PROVE a = b
    BY <1>1, <2>2
  <2>3. ASSUME NEW t \in 1 .. n - k PROVE \E i \in left : g[i] = t
    <3>1. t + k \in left /\ g[t + k] = t
      BY <1>1
    <3> QED
      BY <3>1
  <2> QED
    BY <2>1, <2>2, <2>3, Fun_IsBij
<1>8. rest = [i \in left |-> moved[g[i]]]
  <2>1. ASSUME NEW i \in left PROVE moved[g[i]] = q[i].size
    <3>1. g[i] = i - k /\ i - k \in 1 .. n - k /\ i - k + k = i
      BY <1>1
    <3>2. moved[g[i]] = late[i - k].size /\ late[i - k] = q[i - k + k]
      BY <1>2, <3>1
    <3> QED
      BY <3>1, <3>2
  <2> QED
    BY <2>1
<1> HIDE DEF size, part, rest, moved, g
<1>9. Total(size) = Total(part) + Total(rest)
  BY <1>4, <1>6, TotalSplit
<1>10. Total(size) \in Nat /\ Total(part) \in Nat /\ Total(rest) \in Nat
  BY <1>4, <1>6, TotalType
<1>11. Total(moved) = Total(rest)
  <2> HIDE DEF left, front
  <2>1. Total(moved) = Total([i \in left |-> moved[g[i]]])
    BY <1>5, <1>6, <1>7, TotalMoved
  <2> QED
    BY <1>8, <2>1
<1> QED
  BY <1>3, <1>9, <1>10, <1>11 DEF early, late

-----------------------------------------------------------------------------
(* What enqueueing does: the first k packets are dropped, where k is the   *)
(* least number after which the packet fits, or all.                       *)
Enqueued(s, packet, k) ==
  LET rest  == Dropped(queue[s], k)
      bytes == BytesLeft(queue[s], queuedBytes[s], k)
  IN  /\ k = Len(queue[s]) \/ Fits(rest, bytes, packet.size)
      /\ \/ /\ packet.size <= MaxQueuedBytes
            /\ queue' = [queue EXCEPT ![s] = Append(rest, packet)]
            /\ queuedBytes' = [queuedBytes EXCEPT ![s] = bytes + packet.size]
         \/ /\ ~(packet.size <= MaxQueuedBytes)
            /\ queue' = [queue EXCEPT ![s] = rest]
            /\ queuedBytes' = [queuedBytes EXCEPT ![s] = bytes]

LEMMA EnqueueChoice ==
  ASSUME NEW s \in Sockets, NEW packet, queue \in [Sockets -> Seq(Packet)], EnqueuePacket(s, packet)
  PROVE  \E k \in 0 .. Len(queue[s]) : Enqueued(s, packet, k)
<1> DEFINE q       == queue[s]
           Done(k) == k = Len(q) \/ Fits(Dropped(q, k), BytesLeft(q, queuedBytes[s], k), packet.size)
           First(k) == Done(k) /\ \A j \in 0 .. k - 1 : ~Done(j)
           chosen  == CHOOSE k \in 0 .. Len(q) : First(k)
           T       == {k \in 0 .. Len(q) : Done(k)}
<1>0. Len(q) \in Nat
  BY LenProperties
<1>1. \E k \in 0 .. Len(q) : First(k)
  <2>1. T \subseteq Nat /\ Len(q) \in T
    BY <1>0
  <2>2. PICK k \in T : \A j \in 0 .. k - 1 : j \notin T
    BY <2>1, Least
  <2>3. k \in 0 .. Len(q) /\ Done(k)
    BY <2>2
  <2>4. ASSUME NEW j \in 0 .. k - 1 PROVE ~Done(j)
    <3> HIDE DEF Done
    <3>1. j \in 0 .. Len(q)
      BY <1>0, <2>3, <2>4
    <3> QED
      BY <2>2, <2>4, <3>1
  <2> QED
    BY <2>3, <2>4
<1>2. chosen \in 0 .. Len(q) /\ Done(chosen)
  BY <1>1
<1>3. Enqueued(s, packet, chosen)
  <2>1. PICK k : k = chosen
    OBVIOUS
  <2>2. IF packet.size <= MaxQueuedBytes
        THEN /\ queue' = [queue EXCEPT ![s] = Append(Dropped(q, k), packet)]
             /\ queuedBytes' = [queuedBytes EXCEPT ![s] = BytesLeft(q, queuedBytes[s], k) + packet.size]
        ELSE /\ queue' = [queue EXCEPT ![s] = Dropped(q, k)]
             /\ queuedBytes' = [queuedBytes EXCEPT ![s] = BytesLeft(q, queuedBytes[s], k)]
    BY <2>1, Zenon DEF EnqueuePacket
  <2>3. Done(k)
    BY <1>2, <2>1
  <2>4. Enqueued(s, packet, k)
    BY <2>2, <2>3 DEF Enqueued
  <2> QED
    BY <2>1, <2>4
<1> QED
  BY <1>2, <1>3

(* Whatever the counters say, a packet is put behind a suffix of the queue. *)
LEMMA EnqueueLemma ==
  ASSUME NEW s \in Sockets, NEW packet \in Packet, queue \in [Sockets -> Seq(Packet)],
         EnqueuePacket(s, packet)
  PROVE  /\ queue' \in [Sockets -> Seq(Packet)]
         /\ \A t \in Sockets : \A i \in DOMAIN queue'[t] :
              \/ t = s /\ queue'[t][i] = packet
              \/ \E j \in DOMAIN queue[t] : queue'[t][i] = queue[t][j]
<1>1. PICK k \in 0 .. Len(queue[s]) : Enqueued(s, packet, k)
  BY EnqueueChoice
<1>2. PICK rest : rest = Dropped(queue[s], k)
  OBVIOUS
<1>3. DOMAIN queue[s] = 1 .. Len(queue[s]) /\ Len(queue[s]) \in Nat /\ queue[s] \in Seq(Packet)
  BY LenProperties
<1>4. /\ rest \in Seq(Packet) /\ DOMAIN rest = 1 .. Len(queue[s]) - k
      /\ \A i \in 1 .. Len(queue[s]) - k : rest[i] = queue[s][i + k]
  <2>1. PICK q \in Seq(Packet) : q = queue[s]
    BY <1>3
  <2>2. k \in 0 .. Len(q)
    BY <2>1
  <2>3. /\ Dropped(q, k) \in Seq(Packet) /\ DOMAIN Dropped(q, k) = 1 .. Len(q) - k
        /\ \A i \in 1 .. Len(q) - k : Dropped(q, k)[i] = q[i + k]
    BY <2>2, DroppedFact
  <2> QED
    BY <1>2, <2>1, <2>3
<1>5. \A i \in DOMAIN rest : \E j \in DOMAIN queue[s] : rest[i] = queue[s][j]
  <2>1. ASSUME NEW i \in DOMAIN rest PROVE i + k \in DOMAIN queue[s] /\ rest[i] = queue[s][i + k]
    BY <1>3, <1>4
  <2> QED
    BY <2>1
<1>6. queue'[s] \in {rest, Append(rest, packet)} /\ \A t \in Sockets \ {s} : queue'[t] = queue[t]
  BY <1>1, <1>2 DEF Enqueued
<1>7. DOMAIN queue' = Sockets /\ queue' = [t \in Sockets |-> queue'[t]]
  BY <1>1 DEF Enqueued
<1>8. /\ Append(rest, packet) \in Seq(Packet)
      /\ \A i \in DOMAIN Append(rest, packet) :
           \/ Append(rest, packet)[i] = packet
           \/ i \in DOMAIN rest /\ Append(rest, packet)[i] = rest[i]
  BY <1>4
<1>9. queue'[s] \in Seq(Packet)
  BY <1>4, <1>6, <1>8
<1>10. ASSUME NEW i \in DOMAIN queue'[s]
       PROVE  queue'[s][i] = packet \/ \E j \in DOMAIN queue[s] : queue'[s][i] = queue[s][j]
  BY <1>5, <1>6, <1>8, <1>10
<1> QED
  BY <1>6, <1>7, <1>9, <1>10

-----------------------------------------------------------------------------
(* The session. *)

LEMMA InitSession == Init => SessionInv
  BY DEF Init, InitTransport, SessionInv, NothingLeft, ReadyIsRegistered, OneRequest

LEMMA MainKeepsSession ==
  ASSUME SessionInv, StartThread \/ SetupAwaited \/ Shutdown PROVE SessionInv'
<1>1. CASE StartThread
  BY <1>1 DEF StartThread, SessionInv, NothingLeft, ReadyIsRegistered, OneRequest, packets
<1>2. CASE SetupAwaited
  BY <1>2 DEF SetupAwaited, SessionInv, NothingLeft, ReadyIsRegistered, OneRequest, packets, threads
<1>3. CASE Shutdown
  BY <1>3 DEF Shutdown, SessionInv, NothingLeft, ReadyIsRegistered, OneRequest, packets, threads
<1> QED
  BY <1>1, <1>2, <1>3

LEMMA ProcessKeepsSession ==
  ASSUME SessionInv, Setup \/ ShutdownLocked PROVE SessionInv'
<1>1. CASE Setup
  BY <1>1 DEF Setup, SessionInv, NothingLeft, ReadyIsRegistered, OneRequest, packets
<1>2. CASE ShutdownLocked
  BY <1>2 DEF ShutdownLocked, Uninitialise, ResetPacketQueue, SessionInv, NothingLeft, ReadyIsRegistered,
              OneRequest
<1> QED
  BY <1>1, <1>2

LEMMA RequestsKeepSession ==
  ASSUME SessionInv, ProcessAuthentication \/ CreateDeviceIdComplete PROVE SessionInv'
<1>1. CASE ProcessAuthentication
  BY <1>1 DEF ProcessAuthentication, BeginRequest, AddConnectionNotification, ScheduleRetry, sessionOnly,
              SessionInv, ReadyIsRegistered, OneRequest
<1>2. CASE CreateDeviceIdComplete
  BY <1>2 DEF CreateDeviceIdComplete, Answered, ScheduleRetry, sessionOnly, SessionInv, ReadyIsRegistered,
              OneRequest
<1> QED
  BY <1>1, <1>2

LEMMA LoginKeepsSession ==
  ASSUME SessionInv, LoginComplete PROVE SessionInv'
<1>1. /\ process = "loop" /\ "login" \in calls /\ calls' = calls \ {"login"}
      /\ UNCHANGED <<main, process, initialized, running>>
  BY DEF LoginComplete, Answered, sessionOnly
<1>2. CASE ~running
  BY <1>1, <1>2 DEF LoginComplete, SessionInv, ReadyIsRegistered, OneRequest
<1>3. ASSUME running PROVE calls' = {} /\ authState = "LOGGING_IN"
  BY <1>1, <1>3 DEF SessionInv, OneRequest
<1>4. CASE running /\ ScheduleRetry("NEED_LOGIN") /\ UNCHANGED <<packets, ready, localUser, notification>>
  BY <1>1, <1>3, <1>4 DEF ScheduleRetry, SessionInv, ReadyIsRegistered, OneRequest
<1>5. ASSUME running, NEW u \in Users, localUser' = u, KeepsSession(u), authState' = "READY", UNCHANGED notification
      PROVE  SessionInv'
  BY <1>1, <1>3, <1>5, UsersAssumption DEF KeepsSession, SessionInv, ReadyIsRegistered, OneRequest
<1>6. ASSUME running, NEW u \in Users, localUser' = u, authState' = "NEED_NOTIFICATION", notification' = "none"
      PROVE  SessionInv'
  BY <1>1, <1>3, <1>6, UsersAssumption DEF SessionInv, ReadyIsRegistered, OneRequest
<1> QED
  BY <1>2, <1>4, <1>5, <1>6 DEF LoginComplete

LEMMA LostLoginKeepsSession ==
  ASSUME SessionInv, AuthExpiration \/ AuthLost \/ SendRefused PROVE SessionInv'
<1>1. /\ process = "loop" /\ localUser # "none"
      /\ RequestLogin(FALSE) \/ RequestLogin(TRUE)
  BY DEF AuthExpiration, AuthLost, SendRefused, SessionInv, NothingLeft
<1>2. UNCHANGED <<main, process, initialized, running, localUser, notification, calls>>
  BY <1>1 DEF RequestLogin, sessionOnly
<1>3. authState' = IF authState = "LOGGING_IN" THEN authState ELSE "NEED_LOGIN"
  BY <1>1 DEF RequestLogin, CanRequestLogin
<1>4. OneRequest'
  BY <1>1, <1>2, <1>3 DEF SessionInv, OneRequest
<1> QED
  BY <1>1, <1>2, <1>3, <1>4 DEF SessionInv, ReadyIsRegistered

(* The packets are not the session's business while the process thread runs. *)
LEMMA PacketsKeepSession ==
  ASSUME SessionInv, UNCHANGED <<main, process, initialized, running, ready, authState, localUser, notification, calls>>,
         process # "loop" => reassemblies' = {} /\ \A s \in Sockets : queue'[s] = <<>>
  PROVE  SessionInv'
  BY DEF SessionInv, NothingLeft, ReadyIsRegistered, OneRequest

LEMMA StepSession == SessionInv /\ [Next]_vars => SessionInv'
<1> SUFFICES ASSUME SessionInv, [Next]_vars PROVE SessionInv'
  OBVIOUS
<1>1. CASE ProcessIncoming \/ CleanupReassemblies
  BY <1>1, PacketsKeepSession DEF ProcessIncoming, CleanupReassemblies, session
<1>2. CASE GameShutdown \/ EngineReceives \/ Clock \/ PeerStep
  <2>1. UNCHANGED session
    BY <1>2 DEF GameShutdown, EngineReceives, Clock, PeerStep
  <2>2. ASSUME process # "loop" PROVE reassemblies' = {} /\ \A s \in Sockets : queue'[s] = <<>>
    <3>1. NothingLeft
      BY <2>2 DEF SessionInv
    <3>2. CASE GameShutdown
      BY <3>2 DEF GameShutdown, ResetPacketQueue
    <3>3. CASE EngineReceives
      BY <3>1, <3>3 DEF EngineReceives, ReceivePacket, NothingLeft
    <3>4. CASE Clock
      BY <3>1, <3>4 DEF Clock, Tick, NothingLeft
    <3>5. CASE PeerStep
      BY <3>1, <3>5 DEF PeerStep, PeerSends, packets, NothingLeft
    <3> QED
      BY <1>2, <3>2, <3>3, <3>4, <3>5
  <2> QED
    BY <2>1, <2>2, PacketsKeepSession DEF session
<1>3. CASE DelayPasses \/ UNCHANGED vars
  <2>1. UNCHANGED <<queue, reassemblies, main, process, initialized, running, ready, authState, localUser,
                    notification, calls>>
    BY <1>3 DEF DelayPasses, sessionOnly, vars, packets, session
  <2>2. process # "loop" => NothingLeft
    BY DEF SessionInv
  <2> QED
    BY <2>1, <2>2, PacketsKeepSession DEF NothingLeft
<1> QED
  BY <1>1, <1>2, <1>3, MainKeepsSession, ProcessKeepsSession, RequestsKeepSession, LoginKeepsSession,
     LostLoginKeepsSession DEF Next

(* The invariant of the session holds in every behaviour. *)
LEMMA SessionInvariant == Spec => []SessionInv
  BY InitSession, StepSession, PTL DEF Spec

(* Whenever the session counts as ready, connection requests are accepted  *)
(* for the user it is logged in as.                                        *)
THEOREM RegisteredWhenReady == Spec => []ReadyIsRegistered
<1>1. SessionInv => ReadyIsRegistered
  BY DEF SessionInv
<1> QED
  BY SessionInvariant, <1>1, PTL

(* Expiry, a lost login and refused packets never lead to two requests at  *)
(* a time, nor to a request that the state has forgotten.                  *)
THEOREM RequestsDoNotOverlap == Spec => []OneRequest
<1>1. SessionInv => OneRequest
  BY DEF SessionInv
<1> QED
  BY SessionInvariant, <1>1, PTL

(* State, open request, user and registration never part.                  *)
THEOREM LoginStaysInOrder == Spec => []LoginInOrder
  BY RegisteredWhenReady, RequestsDoNotOverlap, PTL DEF LoginInOrder

(* EOS_ShutdownNetworking leaves no user, request or packet behind,        *)
(* whatever the process thread was doing.                                  *)
THEOREM ShutdownIsClean == Spec => []ShutdownLeavesNothing
<1>1. SessionInv => ShutdownLeavesNothing
  BY DEF SessionInv, NothingLeft, ShutdownLeavesNothing
<1> QED
  BY SessionInvariant, <1>1, PTL

-----------------------------------------------------------------------------
(* Packets and reassemblies consist of fragments of messages with one      *)
(* header, sent to the user that is logged in.                             *)
GoodPacket(s, p) ==
  /\ Complete(p) /\ SameHeader(p, s)
  /\ \A n \in Parts(p) : n \in DOMAIN sent /\ sent[n].to = localUser

GoodReassembly(r) ==
  \A n \in Parts(r) :
    /\ n \in DOMAIN sent /\ sent[n].to = localUser
    /\ SameKey(r, sent[n]) /\ sent[n].size = r.size

Good ==
  /\ \A s \in Sockets : \A i \in DOMAIN queue[s] : GoodPacket(s, queue[s][i])
  /\ \A r \in reassemblies : GoodReassembly(r)

LEMMA EmptyIsGood ==
  ASSUME NEW S, NEW q, q = [s \in Sockets |-> <<>>]
  PROVE  q \in [Sockets -> Seq(S)] /\ \A s \in Sockets : q[s] = <<>> /\ DOMAIN q[s] = {}
  OBVIOUS

LEMMA ResetIsGood ==
  ASSUME ResetPacketQueue
  PROVE  Good' /\ queue' \in [Sockets -> Seq(Packet)] /\ reassemblies' \subseteq Reassembly
<1>1. /\ queue' \in [Sockets -> Seq(Packet)] /\ \A s \in Sockets : DOMAIN queue'[s] = {}
      /\ reassemblies' = {}
  BY EmptyIsGood DEF ResetPacketQueue
<1> QED
  BY <1>1 DEF Good

(* Goodness is about the header and the parts, and sent only grows. *)
LEMMA GoodPacketStays ==
  ASSUME NEW s, NEW p, GoodPacket(s, p), localUser' = localUser,
         \A n \in DOMAIN sent : n \in DOMAIN sent' /\ sent'[n] = sent[n]
  PROVE  GoodPacket(s, p)'
  BY DEF GoodPacket, Complete, SameHeader, Parts

LEMMA GoodReassemblyStays ==
  ASSUME NEW r, NEW o, GoodReassembly(o), localUser' = localUser,
         r.from = o.from /\ r.id = o.id /\ r.socket = o.socket /\ r.size = o.size /\ r.parts = o.parts,
         \A n \in DOMAIN sent : n \in DOMAIN sent' /\ sent'[n] = sent[n]
  PROVE  GoodReassembly(r)'
  BY DEF GoodReassembly, SameKey, Parts

LEMMA GoodStays ==
  ASSUME Good, localUser' = localUser,
         \A n \in DOMAIN sent : n \in DOMAIN sent' /\ sent'[n] = sent[n],
         \A s \in Sockets : \A i \in DOMAIN queue'[s] : \E j \in DOMAIN queue[s] : queue'[s][i] = queue[s][j],
         \A r \in reassemblies' : \E o \in reassemblies :
           r.from = o.from /\ r.id = o.id /\ r.socket = o.socket /\ r.size = o.size /\ r.parts = o.parts
  PROVE  Good'
<1>1. ASSUME NEW s \in Sockets, NEW i \in DOMAIN queue'[s], NEW p, p = queue'[s][i] PROVE GoodPacket(s, p)'
  BY <1>1, GoodPacketStays DEF Good
<1>2. ASSUME NEW r \in reassemblies' PROVE GoodReassembly(r)'
  BY <1>2, GoodReassemblyStays DEF Good
<1> QED
  BY <1>1, <1>2 DEF Good

LEMMA SentFacts ==
  ASSUME Typed
  PROVE  /\ DOMAIN sent = 1 .. Len(sent) /\ DOMAIN sent \subseteq 1 .. MaxMessages
         /\ \A n \in DOMAIN sent : sent[n] \in Message
<1>1. DOMAIN sent = 1 .. Len(sent) /\ Len(sent) \in Nat
  BY LenProperties DEF Typed
<1>2. DOMAIN sent \subseteq 1 .. MaxMessages
  BY <1>1, TransportAssumption DEF Typed
<1>3. \A n \in DOMAIN sent : sent[n] \in Message
  BY <1>1, ElementOfSeq DEF Typed
<1> QED
  BY <1>1, <1>2, <1>3

(* What a reassembly becomes when fragment i of message n arrives. *)
LEMMA ReceivedLemma ==
  ASSUME Typed, NEW r \in Reassembly, NEW n \in DOMAIN sent, NEW i \in Fragments
  PROVE  LET u == Received(r, n, i)
         IN  /\ u \in Reassembly
             /\ u.from = r.from /\ u.id = r.id /\ u.socket = r.socket /\ u.size = r.size
             /\ Parts(u) \subseteq Parts(r) \cup {n}
<1> DEFINE u == Received(r, n, i)
           added == [j \in (DOMAIN r.parts) \cup {i} |-> IF j = i THEN n ELSE r.parts[j]]
<1>0. r \in [from : Peers, id : PacketIds, socket : Sockets, size : Sizes, parts : PartsOf, age : 0 .. Lifetime + 1]
  BY DEF Reassembly
<1>1. PICK D \in SUBSET Fragments : r.parts \in [D -> 1 .. MaxMessages]
  BY <1>0 DEF PartsOf
<1>2. n \in 1 .. MaxMessages
  BY SentFacts
<1>3. added \in [D \cup {i} -> 1 .. MaxMessages] /\ D \cup {i} \subseteq Fragments
  BY <1>1, <1>2
<1>4. added \in PartsOf
  BY <1>3, PartsOfFact
<1>5. u = [r EXCEPT !.age = 0, !.parts = IF i \in DOMAIN r.parts THEN r.parts ELSE added]
  BY DEF Received
<1>6. /\ u.from = r.from /\ u.id = r.id /\ u.socket = r.socket /\ u.size = r.size
      /\ u.parts \in {r.parts, added} /\ u.age = 0
  BY <1>0, <1>5
<1>7. u \in Reassembly
  <2>1. PICK parts \in PartsOf : parts = IF i \in DOMAIN r.parts THEN r.parts ELSE added
    BY <1>0, <1>4
  <2>2. u = [r EXCEPT !.age = 0, !.parts = parts]
    BY <1>5, <2>1
  <2> HIDE DEF u, added
  <2>3. 0 \in 0 .. Lifetime + 1
    BY TransportAssumption
  <2> QED
    BY <1>0, <2>2, <2>3 DEF Reassembly
<1>8. Parts(u) \subseteq Parts(r) \cup {n}
  <2>1. CASE u.parts = r.parts
    BY <2>1 DEF Parts
  <2>2. CASE u.parts = added
    BY <2>2 DEF Parts
  <2> QED
    BY <1>6, <2>1, <2>2
<1> QED
  BY <1>6, <1>7, <1>8

(* The frame of a message for the user goes to a good reassembly. *)
LEMMA StoreLemma ==
  ASSUME Typed, Good, UNCHANGED <<sent, localUser>>,
         NEW n \in DOMAIN sent, NEW i \in Fragments, sent[n].to = localUser,
         NEW r \in Reassembly, GoodReassembly(r), SameKey(r, sent[n]), r.size = sent[n].size,
         NEW others \in SUBSET reassemblies, NEW bytes, Store(others, bytes, r, n, i)
  PROVE  Good' /\ queue' \in [Sockets -> Seq(Packet)] /\ reassemblies' \subseteq Reassembly
<1>1. PICK u : u = Received(r, n, i)
  OBVIOUS
<1>2. /\ u \in Reassembly
      /\ u.from = r.from /\ u.id = r.id /\ u.socket = r.socket /\ u.size = r.size
      /\ Parts(u) \subseteq Parts(r) \cup {n}
  BY <1>1, ReceivedLemma
<1>3. GoodReassembly(u)
  BY <1>2 DEF GoodReassembly, SameKey
<1>4. \A o \in reassemblies : GoodReassembly(o)'
  BY GoodReassemblyStays DEF Good
<1>5. CASE ~Complete(u)
  <2>1. reassemblies' = others \cup {u} /\ UNCHANGED queue
    BY <1>1, <1>5 DEF Store
  <2>2. GoodReassembly(u)'
    BY <1>3, GoodReassemblyStays
  <2>3. ASSUME NEW s \in Sockets, NEW j \in DOMAIN queue[s], NEW p, p = queue[s][j] PROVE GoodPacket(s, p)'
    BY <2>3, GoodPacketStays DEF Good
  <2> QED
    BY <1>2, <1>4, <2>1, <2>2, <2>3 DEF Typed, Good
<1>6. CASE Complete(u)
  <2>1. PICK p : p = [from |-> r.from, size |-> r.size, parts |-> u.parts]
    OBVIOUS
  <2>2. reassemblies' = others /\ EnqueuePacket(r.socket, p)
    BY <1>1, <1>6, <2>1 DEF Store
  <2>3. p \in Packet /\ r.socket \in Sockets
    BY <1>2, <2>1 DEF Reassembly, Packet
  <2>4. GoodPacket(r.socket, p)
    <3>1. Parts(p) = Parts(u) /\ Complete(p)
      BY <1>2, <1>6, <2>1 DEF Parts, Complete
    <3>2. \A k \in Parts(u) :
            /\ k \in DOMAIN sent /\ sent[k].to = localUser
            /\ sent[k].from = r.from /\ sent[k].socket = r.socket /\ sent[k].size = r.size /\ sent[k].id = r.id
      BY <1>2, <1>3 DEF GoodReassembly, SameKey
    <3> QED
      BY <2>1, <3>1, <3>2 DEF GoodPacket, SameHeader
  <2>5. GoodPacket(r.socket, p)'
    BY <2>4, GoodPacketStays
  <2>6. /\ queue' \in [Sockets -> Seq(Packet)]
        /\ \A t \in Sockets : \A j \in DOMAIN queue'[t] :
             \/ t = r.socket /\ queue'[t][j] = p
             \/ \E k \in DOMAIN queue[t] : queue'[t][j] = queue[t][k]
    BY <2>2, <2>3, EnqueueLemma DEF Typed
  <2>7. ASSUME NEW t \in Sockets, NEW j \in DOMAIN queue'[t], NEW x, x = queue'[t][j] PROVE GoodPacket(t, x)'
    BY <2>5, <2>6, <2>7, GoodPacketStays DEF Good
  <2> QED
    BY <1>4, <2>2, <2>6, <2>7 DEF Typed, Good
<1> QED
  BY <1>5, <1>6

LEMMA ProcessFrameLemma ==
  ASSUME Typed, Good, UNCHANGED <<sent, localUser>>,
         NEW n \in DOMAIN sent, NEW i \in 1 .. FragmentCount(sent[n].size), sent[n].to = localUser, ProcessFrame(n, i)
  PROVE  Good' /\ queue' \in [Sockets -> Seq(Packet)] /\ reassemblies' \subseteq Reassembly
<1> DEFINE m     == sent[n]
           live  == reassemblies \ Expired(reassemblies)
           bytes == reassemblyBytes - BytesOf(Expired(reassemblies))
           found == {r \in live : SameKey(r, m)}
           new   == [from |-> m.from, id |-> m.id, socket |-> m.socket, size |-> m.size, parts |-> <<>>, age |-> 0]
<1>1. /\ m \in [from : Peers, to : Users, socket : Sockets, size : Sizes, id : PacketIds]
      /\ n \in 1 .. MaxMessages
  BY SentFacts DEF Message
<1>2. i \in Fragments
  BY <1>1 DEF Fragments
<1>3. live \subseteq reassemblies
  BY DEF Expired
<1>4. CASE FragmentCount(m.size) = 1 /\ EnqueuePacket(m.socket, [from |-> m.from, size |-> m.size, parts |-> <<n>>])
           /\ UNCHANGED reassemblies
  <2>1. PICK p : p = [from |-> m.from, size |-> m.size, parts |-> <<n>>]
    OBVIOUS
  <2>2. DOMAIN <<n>> = 1 .. 1 /\ <<n>> \in [1 .. 1 -> 1 .. MaxMessages] /\ Parts(p) = {n}
    BY <1>1, <2>1 DEF Parts
  <2>3. 1 .. 1 \subseteq Fragments
    BY <1>1, <1>4 DEF Fragments
  <2>4. p \in Packet
    BY <1>1, <2>1, <2>2, <2>3, PartsOfFact DEF Packet
  <2>5. GoodPacket(m.socket, p)
    BY <1>4, <2>1, <2>2 DEF GoodPacket, Complete, SameHeader
  <2>6. GoodPacket(m.socket, p)'
    BY <2>5, GoodPacketStays
  <2>7. /\ queue' \in [Sockets -> Seq(Packet)]
        /\ \A t \in Sockets : \A j \in DOMAIN queue'[t] :
             \/ t = m.socket /\ queue'[t][j] = p
             \/ \E k \in DOMAIN queue[t] : queue'[t][j] = queue[t][k]
    BY <1>1, <1>4, <2>1, <2>4, EnqueueLemma DEF Typed
  <2>8. ASSUME NEW t \in Sockets, NEW j \in DOMAIN queue'[t], NEW x, x = queue'[t][j] PROVE GoodPacket(t, x)'
    BY <2>6, <2>7, <2>8, GoodPacketStays DEF Good
  <2>9. \A o \in reassemblies : GoodReassembly(o)'
    BY GoodReassemblyStays DEF Good
  <2> QED
    BY <1>4, <2>7, <2>8, <2>9 DEF Typed, Good
<1>5. ASSUME NEW E \in SUBSET live, NEW b, Store(live \ E, b, new, n, i)
      PROVE  Good' /\ queue' \in [Sockets -> Seq(Packet)] /\ reassemblies' \subseteq Reassembly
  <2>1. PICK r : r = new
    OBVIOUS
  <2>2. <<>> \in [{} -> 1 .. MaxMessages] /\ 0 \in 0 .. Lifetime + 1 /\ DOMAIN <<>> = {}
    BY TransportAssumption
  <2>3. <<>> \in PartsOf
    BY <2>2, PartsOfFact
  <2>4. r \in Reassembly /\ Parts(r) = {} /\ SameKey(r, sent[n]) /\ r.size = sent[n].size
    BY <1>1, <2>1, <2>2, <2>3 DEF Reassembly, SameKey, Parts
  <2>5. GoodReassembly(r) /\ Store(live \ E, b, r, n, i)
    BY <1>5, <2>1, <2>4 DEF GoodReassembly
  <2> QED
    BY <1>2, <1>3, <2>4, <2>5, StoreLemma
<1>6. ASSUME NEW r \in found, NEW b, r.size = m.size, Store(live \ {r}, b, r, n, i)
      PROVE  Good' /\ queue' \in [Sockets -> Seq(Packet)] /\ reassemblies' \subseteq Reassembly
  <2>1. r \in Reassembly /\ GoodReassembly(r) /\ SameKey(r, sent[n]) /\ live \ {r} \subseteq reassemblies
    BY <1>3 DEF Typed, Good
  <2> QED
    BY <1>2, <1>6, <2>1, StoreLemma
<1>7. CASE reassemblies' \subseteq reassemblies /\ UNCHANGED queue
  BY <1>7, GoodStays DEF Typed
<1>8. \A E \in Evictions(live, bytes, m.size) : E \subseteq live
  BY DEF Evictions
<1> HIDE DEF live, bytes, new
<1> QED
  BY <1>3, <1>4, <1>5, <1>6, <1>7, <1>8 DEF ProcessFrame, live, bytes, new

PacketsInv == Typed /\ Good

LEMMA InitPackets == Init => PacketsInv
<1> SUFFICES ASSUME Init PROVE PacketsInv
  OBVIOUS
<1>1. sent = <<>> /\ reassemblies = {} /\ localUser = "none" /\ queue = [s \in Sockets |-> <<>>]
  BY DEF Init, InitTransport
<1>2. queue \in [Sockets -> Seq(Packet)] /\ \A s \in Sockets : DOMAIN queue[s] = {}
  BY <1>1, EmptyIsGood
<1>3. sent \in Seq(Message) /\ Len(sent) = 0
  BY <1>1
<1> QED
  BY <1>1, <1>2, <1>3, TransportAssumption DEF PacketsInv, Typed, Good

(* A peer's packet is added to those sent. *)
LEMMA PeerKeepsPackets ==
  ASSUME PacketsInv, PeerStep PROVE PacketsInv'
<1>1. PICK p \in Peers, s \in Sockets, size \in Sizes : PeerSends(p, localUser, s, size)
  BY DEF PeerStep
<1>2. PICK id \in PacketIds :
        sent' = Append(sent, [from |-> p, to |-> localUser, socket |-> s, size |-> size, id |-> id])
  BY <1>1 DEF PeerSends
<1>3. PICK m : m = [from |-> p, to |-> localUser, socket |-> s, size |-> size, id |-> id]
  OBVIOUS
<1>4. m \in Message
  BY <1>3 DEF Message, Fragments, PeerStep, PacketsInv, Typed
<1>5. /\ sent' \in Seq(Message) /\ Len(sent') = Len(sent) + 1
      /\ \A n \in DOMAIN sent : n \in DOMAIN sent' /\ sent'[n] = sent[n]
  BY <1>2, <1>3, <1>4 DEF PacketsInv, Typed
<1>6. UNCHANGED <<queue, reassemblies, localUser>> /\ Len(sent) < MaxMessages
  BY <1>1 DEF PeerStep, PeerSends, packets, session
<1>7. Typed'
  BY <1>5, <1>6, LenProperties, TransportAssumption DEF PacketsInv, Typed
<1> QED
  BY <1>5, <1>6, <1>7, GoodStays DEF PacketsInv

(* Nothing is added: reassemblies age or expire, or the engine takes a packet. *)
LEMMA TakingKeepsPackets ==
  ASSUME PacketsInv, CleanupReassemblies \/ Clock \/ EngineReceives PROVE PacketsInv'
<1>1. UNCHANGED <<sent, localUser>>
  BY DEF CleanupReassemblies, Clock, EngineReceives, Cleanup, Tick, ReceivePacket, session
<1>2. CASE CleanupReassemblies
  <2>1. reassemblies' \subseteq reassemblies /\ UNCHANGED queue
    BY <1>2 DEF CleanupReassemblies, Cleanup
  <2> QED
    BY <1>1, <2>1, GoodStays DEF PacketsInv, Typed
<1>3. CASE Clock
  <2>1. /\ reassemblies' = {[r EXCEPT !.age = IF @ > Lifetime THEN @ ELSE @ + 1] : r \in reassemblies}
        /\ UNCHANGED queue
    BY <1>3 DEF Clock, Tick
  <2>2. ASSUME NEW r \in reassemblies'
        PROVE  /\ r \in Reassembly
               /\ \E o \in reassemblies :
                    r.from = o.from /\ r.id = o.id /\ r.socket = o.socket /\ r.size = o.size /\ r.parts = o.parts
    <3>1. PICK o \in reassemblies : r = [o EXCEPT !.age = IF @ > Lifetime THEN @ ELSE @ + 1]
      BY <2>1
    <3>2. o \in [from : Peers, id : PacketIds, socket : Sockets, size : Sizes, parts : PartsOf, age : 0 .. Lifetime + 1]
      BY DEF PacketsInv, Typed, Reassembly
    <3>3. PICK age \in 0 .. Lifetime + 1 : r = [o EXCEPT !.age = age]
      BY <3>1, <3>2, TransportAssumption
    <3> QED
      BY <3>2, <3>3 DEF Reassembly
  <2> QED
    BY <1>1, <2>1, <2>2, GoodStays DEF PacketsInv, Typed
<1>4. CASE EngineReceives
  <2>1. PICK s \in Sockets : ReceivePacket(s)
    BY <1>4 DEF EngineReceives
  <2>2. /\ queue[s] # <<>> /\ queue' = [queue EXCEPT ![s] = Tail(queue[s])]
        /\ UNCHANGED reassemblies
    BY <2>1 DEF ReceivePacket
  <2>3. queue[s] \in Seq(Packet) /\ DOMAIN queue[s] = 1 .. Len(queue[s]) /\ Len(queue[s]) \in Nat
    BY LenProperties DEF PacketsInv, Typed
  <2>4. /\ Tail(queue[s]) \in Seq(Packet) /\ Len(Tail(queue[s])) = Len(queue[s]) - 1
        /\ \A i \in 1 .. Len(Tail(queue[s])) : Tail(queue[s])[i] = queue[s][i + 1]
    BY <2>2, <2>3, HeadTailProperties
  <2>5. DOMAIN Tail(queue[s]) = 1 .. Len(Tail(queue[s]))
    BY <2>4, LenProperties
  <2>6. \A i \in DOMAIN Tail(queue[s]) : i + 1 \in DOMAIN queue[s] /\ Tail(queue[s])[i] = queue[s][i + 1]
    BY <2>3, <2>4, <2>5
  <2>7. queue' \in [Sockets -> Seq(Packet)]
    BY <2>2, <2>4 DEF PacketsInv, Typed
  <2>8. \A t \in Sockets : queue'[t] = IF t = s THEN Tail(queue[s]) ELSE queue[t]
    BY <2>2 DEF PacketsInv, Typed
  <2>9. \A t \in Sockets : \A i \in DOMAIN queue'[t] : \E j \in DOMAIN queue[t] : queue'[t][i] = queue[t][j]
    BY <2>6, <2>8
  <2> QED
    BY <1>1, <2>2, <2>7, <2>9, GoodStays DEF PacketsInv, Typed
<1> QED
  BY <1>2, <1>3, <1>4

LEMMA StepPackets == SessionInv /\ PacketsInv /\ [Next]_vars => PacketsInv'
<1> SUFFICES ASSUME SessionInv, PacketsInv, [Next]_vars PROVE PacketsInv'
  OBVIOUS
<1>1. CASE ProcessIncoming
  <2>1. UNCHANGED <<sent, localUser>> /\ \E n \in DOMAIN sent : \E i \in 1 .. FragmentCount(sent[n].size) :
          sent[n].to = localUser /\ ProcessFrame(n, i)
    BY <1>1 DEF ProcessIncoming, session
  <2> QED
    BY <2>1, ProcessFrameLemma DEF PacketsInv, Typed
<1>2. CASE ShutdownLocked \/ GameShutdown
  <2>1. ResetPacketQueue /\ UNCHANGED sent /\ localUser' \in {localUser, "none"}
    BY <1>2 DEF ShutdownLocked, GameShutdown, session
  <2> QED
    BY <2>1, ResetIsGood DEF PacketsInv, Typed
<1>3. CASE LoginComplete
  <2>1. UNCHANGED sent
    BY <1>3 DEF LoginComplete, Answered
  <2>2. CASE ResetPacketQueue /\ localUser' \in Users
    BY <2>1, <2>2, ResetIsGood DEF PacketsInv, Typed
  <2>3. CASE UNCHANGED <<packets, localUser>>
    BY <2>1, <2>3, GoodStays DEF PacketsInv, Typed, packets
  <2> QED
    BY <1>3, <2>2, <2>3 DEF LoginComplete, KeepsSession
<1>4. CASE UNCHANGED <<sent, queue, reassemblies, localUser>>
  BY <1>4, GoodStays DEF PacketsInv, Typed
<1>5. CASE StartThread \/ SetupAwaited \/ Shutdown \/ Setup \/ DelayPasses \/ UNCHANGED vars
  BY <1>4, <1>5 DEF StartThread, SetupAwaited, Shutdown, Setup, DelayPasses, vars, packets, session, threads
<1>6. CASE ProcessAuthentication \/ CreateDeviceIdComplete
  BY <1>4, <1>6 DEF ProcessAuthentication, BeginRequest, AddConnectionNotification, CreateDeviceIdComplete,
                    Answered, packets
<1>7. CASE AuthExpiration \/ AuthLost \/ SendRefused
  BY <1>4, <1>7 DEF AuthExpiration, AuthLost, SendRefused, RequestLogin, packets
<1> QED
  BY <1>1, <1>2, <1>3, <1>5, <1>6, <1>7, PeerKeepsPackets, TakingKeepsPackets DEF Next

LEMMA PacketsInvariant == Spec => []PacketsInv
  BY InitPackets, StepPackets, SessionInvariant, PTL DEF Spec

(* A packet that the engine receives is one a peer sent for that socket,   *)
(* whole: no loss, repetition, delay or reordering of frames mixes two.    *)
THEOREM PacketsAreDeliveredAsSent == Spec => []DeliveredAsSent
<1>1. PacketsInv => DeliveredAsSent
  BY DEF PacketsInv, Good, GoodPacket, DeliveredAsSent
<1> QED
  BY PacketsInvariant, <1>1, PTL

(* No packet for a user who has left the session reaches the engine.       *)
THEOREM PacketsAreForLocalUser == Spec => []OnlyForLocalUser
<1>1. PacketsInv => OnlyForLocalUser
  BY DEF PacketsInv, Good, GoodPacket, GoodReassembly, OnlyForLocalUser
<1> QED
  BY PacketsInvariant, <1>1, PTL
-----------------------------------------------------------------------------
(* The counters.  Reassemblies differ in their keys: one that changes is   *)
(* never mistaken for another, whose bytes would then be counted once.     *)
QueueAccounted(q, bytes) ==
  bytes = QueueBytes(q) /\ bytes <= MaxQueuedBytes /\ Len(q) <= MaxQueuedPackets

QueuesInv ==
  /\ queuedBytes \in [Sockets -> Nat]
  /\ \A s \in Sockets : QueueAccounted(queue[s], queuedBytes[s])

OneEach(R) == \A a, b \in R : SameKey(a, b) => a = b

Within(R, bytes) ==
  /\ IsFiniteSet(R) /\ OneEach(R)
  /\ bytes = BytesOf(R) /\ Cardinality(R) <= MaxReassemblies
  /\ Cardinality(R) > 1 => bytes <= MaxReassemblyBytes

MemoryInv == QueuesInv /\ Within(reassemblies, reassemblyBytes)

LEMMA SizeFacts ==
  /\ \A x \in Packet : x.size \in Nat
  /\ \A r \in Reassembly : r.size \in Nat
  BY TransportAssumption DEF Packet, Reassembly

LEMMA NoBytes == QueueBytes(<<>>) = 0 /\ BytesOf({}) = 0
<1>1. [i \in DOMAIN <<>> |-> <<>>[i].size] \in [{} -> Nat] /\ [r \in {} |-> r.size] \in [{} -> Nat]
  OBVIOUS
<1> QED
  BY <1>1, TotalEmpty DEF QueueBytes, BytesOf

(* Enqueueing keeps the counter of the queue, whatever it drops.           *)
LEMMA EnqueueMemory ==
  ASSUME NEW s \in Sockets, NEW packet \in Packet, queue \in [Sockets -> Seq(Packet)], QueuesInv,
         EnqueuePacket(s, packet)
  PROVE  QueuesInv'
<1>1. PICK k \in 0 .. Len(queue[s]) : Enqueued(s, packet, k)
  BY EnqueueChoice
<1>2. PICK q \in Seq(Packet) : q = queue[s]
  OBVIOUS
<1>3. PICK rest : rest = Dropped(q, k)
  OBVIOUS
<1>4. PICK bytes : bytes = BytesLeft(q, queuedBytes[s], k)
  OBVIOUS
<1>5. k \in 0 .. Len(q) /\ Len(q) \in Nat /\ packet.size \in Nat
  BY <1>2, LenProperties, SizeFacts
<1>6. rest \in Seq(Packet) /\ Len(rest) = Len(q) - k
  BY <1>3, <1>5, DroppedFact
<1>7. /\ bytes = QueueBytes(rest) /\ bytes \in Nat /\ bytes <= MaxQueuedBytes
  <2>1. /\ QueueBytes(q) = QueueBytes(SubSeq(q, 1, k)) + QueueBytes(Dropped(q, k))
        /\ QueueBytes(q) \in Nat /\ QueueBytes(SubSeq(q, 1, k)) \in Nat /\ QueueBytes(Dropped(q, k)) \in Nat
    BY <1>5, SizeFacts, QueueBytesDropped
  <2>2. queuedBytes[s] = QueueBytes(q) /\ queuedBytes[s] <= MaxQueuedBytes
    BY <1>2 DEF QueuesInv, QueueAccounted
  <2> QED
    BY <1>3, <1>4, <2>1, <2>2, TransportAssumption DEF BytesLeft
<1>8. Len(q) <= MaxQueuedPackets
  BY <1>2 DEF QueuesInv, QueueAccounted
<1>9. ASSUME packet.size <= MaxQueuedBytes
      PROVE  QueueAccounted(Append(rest, packet), bytes + packet.size) /\ bytes + packet.size \in Nat
  <2>1. QueueBytes(Append(rest, packet)) = QueueBytes(rest) + packet.size
    BY <1>6, SizeFacts, QueueBytesAppend
  <2>2. Len(Append(rest, packet)) = Len(rest) + 1
    BY <1>6
  <2>3. CASE Fits(rest, bytes, packet.size)
    BY <1>5, <1>6, <1>7, <2>1, <2>2, <2>3, TransportAssumption DEF Fits, QueueAccounted
  <2>4. CASE k = Len(q)
    <3>1. Len(rest) = 0 /\ rest = <<>>
      BY <1>5, <1>6, <2>4, EmptySeq
    <3> QED
      BY <1>5, <1>7, <1>9, <2>1, <2>2, <3>1, NoBytes, TransportAssumption DEF QueueAccounted
  <2> QED
    BY <1>1, <1>2, <1>3, <1>4, <2>3, <2>4 DEF Enqueued
<1>10. QueueAccounted(rest, bytes)
  BY <1>5, <1>6, <1>7, <1>8, TransportAssumption DEF QueueAccounted
<1>11. /\ \A t \in Sockets \ {s} : queue'[t] = queue[t] /\ queuedBytes'[t] = queuedBytes[t]
       /\ \/ /\ packet.size <= MaxQueuedBytes
             /\ queue'[s] = Append(rest, packet) /\ queuedBytes'[s] = bytes + packet.size
          \/ queue'[s] = rest /\ queuedBytes'[s] = bytes
       /\ queuedBytes' = [t \in Sockets |-> queuedBytes'[t]]
  BY <1>1, <1>2, <1>3, <1>4 DEF Enqueued, QueuesInv
<1>12. QueueAccounted(queue'[s], queuedBytes'[s]) /\ queuedBytes'[s] \in Nat
  BY <1>7, <1>9, <1>10, <1>11
<1>13. \A t \in Sockets : QueueAccounted(queue'[t], queuedBytes'[t]) /\ queuedBytes'[t] \in Nat
  BY <1>11, <1>12 DEF QueuesInv
<1> QED
  BY <1>11, <1>13 DEF QueuesInv, QueueAccounted

(* Part of a set of reassemblies is within the limits if the set is.       *)
LEMMA WithinPart ==
  ASSUME NEW R \in SUBSET Reassembly, NEW bytes, NEW E \in SUBSET R, Within(R, bytes)
  PROVE  Within(R \ E, bytes - BytesOf(E)) /\ bytes - BytesOf(E) \in Nat
<1>1. /\ BytesOf(R \ E) = bytes - BytesOf(E)
      /\ bytes \in Nat /\ BytesOf(E) \in Nat /\ BytesOf(R \ E) \in Nat
  BY BytesSplit, SizeFacts DEF Within
<1>2. /\ IsFiniteSet(R \ E) /\ Cardinality(R \ E) <= Cardinality(R)
      /\ Cardinality(R \ E) \in Nat /\ Cardinality(R) \in Nat
  <2>1. R \ E \in SUBSET R
    OBVIOUS
  <2> QED
    BY <2>1, FS_Subset, FS_CardinalityType DEF Within
<1>3. OneEach(R \ E)
  BY DEF Within, OneEach
<1> QED
  BY <1>1, <1>2, <1>3, TransportAssumption DEF Within

(* A reassembly with a key of its own is added where there is room for it. *)
LEMMA WithinAdded ==
  ASSUME NEW R \in SUBSET Reassembly, NEW bytes, Within(R, bytes),
         NEW r \in Reassembly, \A o \in R : ~SameKey(o, r),
         R = {} \/ (Cardinality(R) < MaxReassemblies /\ bytes + r.size <= MaxReassemblyBytes)
  PROVE  Within(R \cup {r}, bytes + r.size)
<1>1. r \notin R
  BY DEF SameKey
<1>2. BytesOf(R \cup {r}) = bytes + r.size
  BY <1>1, BytesAdded, SizeFacts DEF Within
<1>3. /\ IsFiniteSet(R \cup {r}) /\ Cardinality(R \cup {r}) = Cardinality(R) + 1
      /\ Cardinality(R) \in Nat /\ (R = {} => Cardinality(R) = 0)
  BY <1>1, FS_AddElement, FS_CardinalityType, FS_EmptySet DEF Within
<1>4. OneEach(R \cup {r})
  BY DEF Within, OneEach, SameKey
<1> QED
  BY <1>2, <1>3, <1>4, TransportAssumption DEF Within

(* A frame goes to r, for which the others leave room.                     *)
LEMMA StoreMemory ==
  ASSUME Typed, QueuesInv, NEW n \in DOMAIN sent, NEW i \in Fragments,
         NEW r \in Reassembly, NEW others \in SUBSET Reassembly, NEW bytes, Within(others, bytes),
         \A o \in others : ~SameKey(o, r),
         others = {} \/ (Cardinality(others) < MaxReassemblies /\ bytes + r.size <= MaxReassemblyBytes),
         Store(others, bytes + r.size, r, n, i)
  PROVE  MemoryInv'
<1>1. PICK u : u = Received(r, n, i)
  OBVIOUS
<1>2. /\ u \in Reassembly
      /\ u.from = r.from /\ u.id = r.id /\ u.socket = r.socket /\ u.size = r.size
  BY <1>1, ReceivedLemma
<1>3. CASE ~Complete(u)
  <2>1. /\ reassemblies' = others \cup {u} /\ reassemblyBytes' = bytes + u.size
        /\ UNCHANGED <<queue, queuedBytes>>
    BY <1>1, <1>2, <1>3 DEF Store
  <2>2. \A o \in others : ~SameKey(o, u)
    BY <1>2 DEF SameKey
  <2>3. Within(others \cup {u}, bytes + u.size)
    BY <1>2, <2>2, WithinAdded
  <2> QED
    BY <2>1, <2>3 DEF MemoryInv, QueuesInv, QueueAccounted
<1>4. CASE Complete(u)
  <2>1. PICK p : p = [from |-> r.from, size |-> r.size, parts |-> u.parts]
    OBVIOUS
  <2>2. /\ reassemblies' = others /\ reassemblyBytes' = Unaccount(bytes + r.size, r)
        /\ EnqueuePacket(r.socket, p)
    BY <1>1, <1>4, <2>1 DEF Store
  <2>3. p \in Packet /\ r.socket \in Sockets
    BY <1>2, <2>1 DEF Reassembly, Packet
  <2>4. QueuesInv'
    BY <2>2, <2>3, EnqueueMemory DEF Typed
  <2>5. bytes \in Nat /\ r.size \in Nat
    BY BytesSplit, SizeFacts DEF Within
  <2> QED
    BY <2>2, <2>4, <2>5 DEF MemoryInv, Unaccount
<1> QED
  BY <1>3, <1>4

LEMMA ProcessFrameMemory ==
  ASSUME Typed, MemoryInv, NEW n \in DOMAIN sent, NEW i \in 1 .. FragmentCount(sent[n].size), ProcessFrame(n, i)
  PROVE  MemoryInv'
<1> DEFINE m     == sent[n]
           live  == reassemblies \ Expired(reassemblies)
           bytes == reassemblyBytes - BytesOf(Expired(reassemblies))
           found == {r \in live : SameKey(r, m)}
           new   == [from |-> m.from, id |-> m.id, socket |-> m.socket, size |-> m.size, parts |-> <<>>, age |-> 0]
<1>1. /\ m \in [from : Peers, to : Users, socket : Sockets, size : Sizes, id : PacketIds]
      /\ n \in 1 .. MaxMessages
  BY SentFacts DEF Message
<1>2. i \in Fragments
  BY <1>1 DEF Fragments
<1>3. Within(live, bytes) /\ bytes \in Nat /\ live \in SUBSET Reassembly /\ live \subseteq reassemblies
  BY WithinPart DEF MemoryInv, Expired, Typed
<1>4. CASE /\ EnqueuePacket(m.socket, [from |-> m.from, size |-> m.size, parts |-> <<n>>])
           /\ FragmentCount(m.size) = 1 /\ UNCHANGED <<reassemblies, reassemblyBytes>>
  <2>1. PICK p : p = [from |-> m.from, size |-> m.size, parts |-> <<n>>]
    OBVIOUS
  <2>2. <<n>> \in [1 .. 1 -> 1 .. MaxMessages] /\ 1 .. 1 \subseteq Fragments
    BY <1>1, <1>4 DEF Fragments
  <2>3. p \in Packet
    BY <1>1, <2>1, <2>2, PartsOfFact DEF Packet
  <2>4. QueuesInv'
    BY <1>1, <1>4, <2>1, <2>3, EnqueueMemory DEF Typed, MemoryInv
  <2> QED
    BY <1>4, <2>4 DEF MemoryInv
<1>5. ASSUME found = {}, NEW E \in Evictions(live, bytes, m.size),
             Store(live \ E, bytes - BytesOf(E) + m.size, new, n, i)
      PROVE  MemoryInv'
  <2>1. PICK r : r = new
    OBVIOUS
  <2>2. <<>> \in [{} -> 1 .. MaxMessages] /\ 0 \in 0 .. Lifetime + 1 /\ DOMAIN <<>> = {}
    BY TransportAssumption
  <2>3. r \in Reassembly /\ SameKey(r, m) /\ r.size = m.size
    <3>1. <<>> \in PartsOf
      BY <2>2, PartsOfFact
    <3> QED
      BY <1>1, <2>1, <2>2, <3>1 DEF Reassembly, SameKey
  <2>4. E \in SUBSET live /\ HasRoom(live \ E, bytes - BytesOf(E), m.size)
    BY DEF Evictions
  <2>5. Within(live \ E, bytes - BytesOf(E)) /\ live \ E \in SUBSET Reassembly
    BY <1>3, <2>4, WithinPart
  <2>6. \A o \in live \ E : ~SameKey(o, r)
    BY <1>5, <2>3 DEF SameKey
  <2>7. Store(live \ E, bytes - BytesOf(E) + r.size, r, n, i)
    BY <1>5, <2>1, <2>3
  <2> HIDE DEF live, bytes, new
  <2> QED
    BY <1>2, <2>3, <2>4, <2>5, <2>6, <2>7, StoreMemory DEF HasRoom, MemoryInv
<1>6. ASSUME NEW r \in found PROVE /\ Within(live \ {r}, bytes - r.size) /\ bytes - r.size \in Nat
                                   /\ BytesOf({r}) = r.size /\ r \in Reassembly
  <2>1. r \in live /\ r \in Reassembly /\ r.size \in Nat
    BY <1>3, SizeFacts
  <2>2. BytesOf({r}) = r.size
    BY <2>1, TotalSingle DEF BytesOf
  <2> QED
    BY <1>3, <2>1, <2>2, WithinPart
<1>7. ASSUME NEW r \in found, r.size = m.size, Store(live \ {r}, bytes, r, n, i) PROVE MemoryInv'
  <2>1. /\ Within(live \ {r}, bytes - r.size) /\ bytes - r.size \in Nat /\ r \in Reassembly
        /\ live \ {r} \in SUBSET Reassembly
    BY <1>3, <1>6
  <2>2. \A o \in live \ {r} : ~SameKey(o, r)
    BY <1>3 DEF Within, OneEach
  <2>3. bytes - r.size + r.size = bytes
    BY <1>3, <2>1, SizeFacts
  <2>4. live \ {r} = {} \/ (Cardinality(live \ {r}) < MaxReassemblies /\ bytes <= MaxReassemblyBytes)
    <3>1. /\ Cardinality(live \ {r}) = Cardinality(live) - 1 /\ Cardinality(live) \in Nat
          /\ Cardinality(live \ {r}) \in Nat /\ (Cardinality(live \ {r}) = 0 => live \ {r} = {})
      BY FS_RemoveElement, FS_CardinalityType, FS_EmptySet, <1>3 DEF Within
    <3> QED
      BY <1>3, <3>1, TransportAssumption DEF Within
  <2> HIDE DEF live, bytes
  <2> QED
    BY <1>2, <1>7, <2>1, <2>2, <2>3, <2>4, StoreMemory DEF MemoryInv
<1>8. ASSUME NEW r \in found, reassemblies' = live \ {r}, reassemblyBytes' = Unaccount(bytes, r),
             UNCHANGED <<queue, queuedBytes>>
      PROVE  MemoryInv'
  BY <1>6, <1>8 DEF Unaccount, MemoryInv, QueuesInv, QueueAccounted
<1> HIDE DEF live, bytes, new
<1> QED
  BY <1>4, <1>5, <1>7, <1>8 DEF ProcessFrame, live, bytes, new

LEMMA EmptyMemory ==
  ASSUME NEW q, NEW b, NEW n, q = [s \in Sockets |-> <<>>], b = [s \in Sockets |-> 0], n = 0
  PROVE  /\ b \in [Sockets -> Nat]
         /\ \A s \in Sockets : QueueAccounted(q[s], b[s])
         /\ Within({}, n)
<1>1. \A s \in Sockets : q[s] = <<>> /\ b[s] = 0 /\ Len(<<>>) = 0
  OBVIOUS
<1>2. IsFiniteSet({}) /\ Cardinality({}) = 0
  BY FS_EmptySet
<1> QED
  BY <1>1, <1>2, NoBytes, TransportAssumption DEF QueueAccounted, Within, OneEach

LEMMA ResetMemory == ASSUME ResetPacketQueue PROVE MemoryInv'
<1>1. /\ queue' = [s \in Sockets |-> <<>>] /\ queuedBytes' = [s \in Sockets |-> 0]
      /\ reassemblies' = {} /\ reassemblyBytes' = 0
  BY DEF ResetPacketQueue
<1>2. /\ queuedBytes' \in [Sockets -> Nat]
      /\ \A s \in Sockets : QueueAccounted(queue'[s], queuedBytes'[s])
      /\ Within({}, reassemblyBytes')
  BY <1>1, EmptyMemory, Zenon
<1> QED
  BY <1>1, <1>2 DEF MemoryInv, QueuesInv, QueueAccounted

LEMMA InitMemory == Init => MemoryInv
<1> SUFFICES ASSUME Init PROVE MemoryInv
  OBVIOUS
<1>1. /\ queue = [s \in Sockets |-> <<>>] /\ queuedBytes = [s \in Sockets |-> 0]
      /\ reassemblies = {} /\ reassemblyBytes = 0
  BY DEF Init, InitTransport
<1>2. /\ queuedBytes \in [Sockets -> Nat]
      /\ \A s \in Sockets : QueueAccounted(queue[s], queuedBytes[s])
      /\ Within({}, reassemblyBytes)
  BY <1>1, EmptyMemory, Zenon
<1> QED
  BY <1>1, <1>2 DEF MemoryInv, QueuesInv

(* Ageing keeps the key and the size of every reassembly. *)
LEMMA TickMemory ==
  ASSUME Typed, MemoryInv, Tick PROVE MemoryInv'
<1> DEFINE aged(r) == [r EXCEPT !.age = IF @ > Lifetime THEN @ ELSE @ + 1]
           g == [r \in reassemblies |-> aged(r)]
<1>1. reassemblies' = {aged(r) : r \in reassemblies} /\ UNCHANGED <<queue, queuedBytes, reassemblyBytes>>
  BY DEF Tick
<1>2. \A r \in reassemblies :
        /\ aged(r).from = r.from /\ aged(r).id = r.id /\ aged(r).socket = r.socket /\ aged(r).size = r.size
        /\ r.size \in Nat
  BY SizeFacts DEF Typed, Reassembly
<1> HIDE DEF aged
<1>3. g \in Bijection(reassemblies, reassemblies')
  <2>1. g \in [reassemblies -> reassemblies']
    BY <1>1
  <2>2. ASSUME NEW a \in reassemblies, NEW b \in reassemblies, g[a] = g[b] PROVE a = b
    <3>1. SameKey(a, b)
      BY <1>2, <2>2 DEF SameKey
    <3> QED
      BY <3>1 DEF MemoryInv, Within, OneEach
  <2>3. \A t \in reassemblies' : \E r \in reassemblies : g[r] = t
    BY <1>1
  <2> QED
    BY <2>1, <2>2, <2>3, Fun_IsBij
<1>4. IsFiniteSet(reassemblies') /\ Cardinality(reassemblies') = Cardinality(reassemblies)
  BY <1>3, FS_Bijection DEF ExistsBijection, MemoryInv, Within
<1>5. BytesOf(reassemblies') = BytesOf(reassemblies)
  <2>1. \A r \in reassemblies : r.size \in Nat /\ g[r].size = r.size
    BY <1>2
  <2> HIDE DEF g
  <2> QED
    BY <1>3, <2>1, BytesMoved DEF MemoryInv, Within
<1>6. OneEach(reassemblies')
  <2>1. ASSUME NEW x \in reassemblies', NEW y \in reassemblies', SameKey(x, y) PROVE x = y
    <3>1. PICK a \in reassemblies : x = aged(a)
      BY <1>1
    <3>2. PICK b \in reassemblies : y = aged(b)
      BY <1>1
    <3>3. SameKey(a, b)
      BY <1>2, <2>1, <3>1, <3>2 DEF SameKey
    <3>4. a = b
      BY <3>3 DEF MemoryInv, Within, OneEach
    <3> QED
      BY <3>1, <3>2, <3>4
  <2> QED
    BY <2>1 DEF OneEach
<1> QED
  BY <1>1, <1>4, <1>5, <1>6 DEF MemoryInv, Within, QueuesInv, QueueAccounted

(* The engine takes the oldest packet and its bytes. *)
LEMMA ReceiveMemory ==
  ASSUME Typed, MemoryInv, NEW s \in Sockets, ReceivePacket(s) PROVE MemoryInv'
<1>1. /\ queue[s] # <<>> /\ queue' = [queue EXCEPT ![s] = Tail(queue[s])]
      /\ queuedBytes' = [queuedBytes EXCEPT ![s] = queuedBytes[s] - Head(queue[s]).size]
      /\ UNCHANGED <<reassemblies, reassemblyBytes>>
  BY DEF ReceivePacket
<1>2. PICK q \in Seq(Packet) : q = queue[s]
  BY DEF Typed
<1>3. 1 \in 0 .. Len(q) /\ Len(q) \in Nat /\ Head(q) = q[1]
  BY <1>1, <1>2, EmptySeq
<1>4. Tail(q) = Dropped(q, 1)
  BY <1>1, <1>2, TailIsSubSeq DEF Dropped
<1>5. DOMAIN SubSeq(q, 1, 1) = 1 .. 1 /\ SubSeq(q, 1, 1)[1] = q[1] /\ q[1].size \in Nat
  <2>1. DOMAIN SubSeq(q, 1, 1) = 1 .. 1 /\ \A i \in 1 .. 1 : SubSeq(q, 1, 1)[i] = q[i]
    BY <1>3, DroppedFact
  <2>2. q[1] \in Packet
    BY <1>3, ElementOfSeq
  <2> QED
    BY <2>1, <2>2, SizeFacts
<1>6. QueueBytes(SubSeq(q, 1, 1)) = q[1].size
  <2> DEFINE size == [i \in DOMAIN SubSeq(q, 1, 1) |-> SubSeq(q, 1, 1)[i].size]
  <2>0. DOMAIN SubSeq(q, 1, 1) = {1}
    BY <1>5
  <2>1. size \in [{1} -> Nat] /\ size[1] = q[1].size
    BY <1>5, <2>0
  <2> HIDE DEF size
  <2>2. Total(size) = size[1]
    BY <2>1, TotalSingle
  <2> QED
    BY <2>1, <2>2 DEF QueueBytes, size
<1>7. /\ QueueBytes(q) = QueueBytes(SubSeq(q, 1, 1)) + QueueBytes(Dropped(q, 1))
      /\ QueueBytes(q) \in Nat /\ QueueBytes(Dropped(q, 1)) \in Nat
  BY <1>3, SizeFacts, QueueBytesDropped
<1>8. Len(Tail(q)) = Len(q) - 1
  BY <1>1, <1>2, HeadTailProperties
<1>9. QueueAccounted(Tail(q), queuedBytes[s] - Head(q).size) /\ queuedBytes[s] - Head(q).size \in Nat
  <2>1. QueueAccounted(q, queuedBytes[s])
    BY <1>2 DEF MemoryInv, QueuesInv
  <2>2. queuedBytes[s] = Head(q).size + QueueBytes(Tail(q)) /\ Head(q).size \in Nat /\ QueueBytes(Tail(q)) \in Nat
    BY <1>3, <1>4, <1>5, <1>6, <1>7, <2>1 DEF QueueAccounted
  <2>3. queuedBytes[s] - Head(q).size = QueueBytes(Tail(q))
    BY <2>2
  <2>4. Len(Tail(q)) <= MaxQueuedPackets
    BY <1>3, <1>8, <2>1, TransportAssumption DEF QueueAccounted
  <2>5. QueueBytes(Tail(q)) <= MaxQueuedBytes
    BY <2>1, <2>2, TransportAssumption DEF QueueAccounted
  <2> QED
    BY <2>2, <2>3, <2>4, <2>5 DEF QueueAccounted
<1>10. /\ \A t \in Sockets : queue'[t] = IF t = s THEN Tail(q) ELSE queue[t]
       /\ \A t \in Sockets : queuedBytes'[t] = IF t = s THEN queuedBytes[s] - Head(q).size ELSE queuedBytes[t]
       /\ queuedBytes' = [t \in Sockets |-> queuedBytes'[t]]
  BY <1>1, <1>2 DEF Typed, MemoryInv, QueuesInv
<1>11. \A t \in Sockets : QueueAccounted(queue'[t], queuedBytes'[t]) /\ queuedBytes'[t] \in Nat
  BY <1>9, <1>10 DEF MemoryInv, QueuesInv
<1>12. QueuesInv'
  BY <1>10, <1>11 DEF QueuesInv, QueueAccounted
<1> QED
  BY <1>1, <1>12 DEF MemoryInv

LEMMA StepMemory == PacketsInv /\ MemoryInv /\ [Next]_vars => MemoryInv'
<1> SUFFICES ASSUME PacketsInv, MemoryInv, [Next]_vars PROVE MemoryInv'
  OBVIOUS
<1>1. CASE ProcessIncoming
  BY <1>1, ProcessFrameMemory DEF ProcessIncoming, PacketsInv
<1>2. CASE ShutdownLocked \/ GameShutdown
  BY <1>2, ResetMemory DEF ShutdownLocked, GameShutdown
<1>3. CASE UNCHANGED packets
  BY <1>3 DEF packets, MemoryInv, QueuesInv, QueueAccounted
<1>4. CASE LoginComplete
  BY <1>3, <1>4, ResetMemory DEF LoginComplete
<1>5. CASE EngineReceives
  BY <1>5, ReceiveMemory DEF EngineReceives, PacketsInv
<1>6. CASE CleanupReassemblies
  <2>1. Within(reassemblies \ Expired(reassemblies), reassemblyBytes - BytesOf(Expired(reassemblies)))
    BY WithinPart DEF PacketsInv, Typed, MemoryInv, Expired
  <2> QED
    BY <1>6, <2>1 DEF CleanupReassemblies, Cleanup, MemoryInv, QueuesInv, QueueAccounted
<1>7. CASE Clock
  BY <1>7, TickMemory DEF Clock, PacketsInv
<1>8. CASE StartThread \/ SetupAwaited \/ Shutdown \/ Setup \/ DelayPasses \/ PeerStep \/ UNCHANGED vars
  BY <1>3, <1>8 DEF StartThread, SetupAwaited, Shutdown, Setup, DelayPasses, PeerStep, PeerSends, vars
<1>9. CASE ProcessAuthentication \/ CreateDeviceIdComplete
  BY <1>3, <1>9 DEF ProcessAuthentication, CreateDeviceIdComplete
<1>10. CASE AuthExpiration \/ AuthLost \/ SendRefused
  BY <1>3, <1>10 DEF AuthExpiration, AuthLost, SendRefused, RequestLogin
<1> QED
  BY <1>1, <1>2, <1>4, <1>5, <1>6, <1>7, <1>8, <1>9, <1>10 DEF Next

LEMMA MemoryInvariant == Spec => []MemoryInv
  BY InitMemory, StepMemory, PacketsInvariant, PTL DEF Spec

(* The byte counters are what the queues and the reassemblies hold, and    *)
(* both stay within their limits, for packets of any size and limits of    *)
(* any value: eviction, expiry, dropped packets and completed ones never   *)
(* take too much or too little off a counter.                              *)
THEOREM MemoryIsAccounted == Spec => []MemoryAccounted
<1>1. MemoryInv => MemoryAccounted
  BY DEF MemoryInv, QueuesInv, QueueAccounted, Within, MemoryAccounted
<1> QED
  BY MemoryInvariant, <1>1, PTL

-----------------------------------------------------------------------------
(* The part of TypeOK that packets have no part in. *)
SessionTypes ==
  /\ main \in {"idle", "init", "up", "stop", "stop1", "stop2", "join", "over"}
  /\ process \in {"none", "setup", "loop", "over"}
  /\ {initialized, running, ready, due} \subseteq BOOLEAN
  /\ authState \in States /\ calls \subseteq {"device", "login"}
  /\ {localUser, notification} \subseteq Users \cup {"none"}

LEMMA StepTypes == SessionTypes /\ [Next]_vars => SessionTypes'
<1> SUFFICES ASSUME SessionTypes, [Next]_vars PROVE SessionTypes'
  OBVIOUS
<1> USE DEF SessionTypes, States
<1>1. CASE StartThread \/ SetupAwaited \/ Shutdown
  BY <1>1 DEF StartThread, SetupAwaited, Shutdown, threads
<1>2. CASE Setup \/ ShutdownLocked
  BY <1>2 DEF Setup, ShutdownLocked, Uninitialise
<1>3. CASE ProcessAuthentication \/ DelayPasses
  BY <1>3 DEF ProcessAuthentication, BeginRequest, AddConnectionNotification, ScheduleRetry, DelayPasses, sessionOnly
<1>4. CASE CreateDeviceIdComplete
  BY <1>4 DEF CreateDeviceIdComplete, Answered, ScheduleRetry, sessionOnly
<1>5. CASE LoginComplete
  <2>1. calls' \subseteq {"device", "login"} /\ UNCHANGED <<main, process, initialized, running>>
    BY <1>5 DEF LoginComplete, Answered, sessionOnly
  <2>2. authState' \in States /\ ready' \in BOOLEAN /\ due' \in BOOLEAN
    BY <1>5 DEF LoginComplete, ScheduleRetry
  <2>3. localUser' \in Users \cup {"none"} /\ notification' \in Users \cup {"none"}
    BY <1>5 DEF LoginComplete
  <2> QED
    BY <2>1, <2>2, <2>3
<1>6. CASE AuthExpiration \/ AuthLost \/ SendRefused
  BY <1>6 DEF AuthExpiration, AuthLost, SendRefused, RequestLogin, sessionOnly
<1>7. CASE ProcessIncoming \/ GameShutdown \/ EngineReceives \/ PeerStep \/ CleanupReassemblies \/ Clock \/ UNCHANGED vars
  <2>1. UNCHANGED session
    BY <1>7 DEF ProcessIncoming, GameShutdown, EngineReceives, PeerStep, CleanupReassemblies, Clock, vars
  <2> QED
    BY <2>1 DEF session
<1> QED
  BY <1>1, <1>2, <1>3, <1>4, <1>5, <1>6, <1>7 DEF Next

(* Every variable of the session and of the transport keeps its type: in   *)
(* particular no byte counter is ever driven below zero.                   *)
THEOREM TypesKept == Spec => []TypeOK
<1>1. Init => SessionTypes
  BY DEF Init, SessionTypes, States
<1>2. Spec => []SessionTypes
  BY <1>1, StepTypes, PTL DEF Spec
<1>3. PacketsInv /\ MemoryInv /\ SessionTypes => TypeOK
  <2> SUFFICES ASSUME PacketsInv, MemoryInv, SessionTypes PROVE TypeOK
    OBVIOUS
  <2>1. reassemblyBytes \in Nat
    BY BytesSplit, SizeFacts DEF PacketsInv, Typed, MemoryInv, Within
  <2> QED
    BY <2>1 DEF PacketsInv, Typed, MemoryInv, QueuesInv, SessionTypes, TypeOK
<1> QED
  BY <1>2, <1>3, PacketsInvariant, MemoryInvariant, PTL
=============================================================================
