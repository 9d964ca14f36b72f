------------------------------ MODULE EosTransport ------------------------------
(***************************************************************************)
(* Packets over EOS peer-to-peer (src/src/eos/eos.cpp): how a packet of    *)
(* the engine is cut into frames, how frames that the SDK loses, repeats,  *)
(* delays and reorders are put together again, and the queues from which   *)
(* the engine takes packets.  EosSession adds the login that says whose    *)
(* frames are received.                                                    *)
(*                                                                         *)
(* A frame is the message it was cut from and its index; the content of a  *)
(* packet is, per fragment, the message the bytes came from, so that bytes *)
(* of two messages in one packet are visible.  Frames whose header the     *)
(* sender's code cannot produce are dropped at once and left out.  Time is *)
(* the age of a reassembly in ticks.                                       *)
(***************************************************************************)
EXTENDS Naturals, Sequences, FiniteSets

CONSTANTS
  Peers,               \* the remote users
  Users,               \* the users this process may be logged in as
  Sizes,               \* sizes of the engine's packets
  FragmentSize,        \* EOS_FRAGMENT_PAYLOAD_SIZE
  PacketIds,           \* the values of a packet id
  MaxQueuedBytes,      \* EOS_MAX_QUEUED_BYTES
  MaxQueuedPackets,    \* EOS_MAX_QUEUED_PACKETS
  MaxReassemblyBytes,  \* EOS_MAX_REASSEMBLY_BYTES
  MaxReassemblies,     \* EOS_MAX_REASSEMBLIES
  Lifetime,            \* EOS_REASSEMBLY_LIFETIME, in ticks
  MaxMessages          \* bound: packets the peers send

ASSUME TransportAssumption ==
  /\ Sizes \subseteq Nat /\ FragmentSize \in Nat \ {0}
  /\ MaxQueuedBytes \in Nat /\ MaxQueuedPackets \in Nat \ {0}
  /\ MaxReassemblyBytes \in Nat /\ MaxReassemblies \in Nat \ {0}
  /\ Lifetime \in Nat /\ MaxMessages \in Nat

VARIABLES
  sent,            \* the packets peers sent: header and addressee
  queue,           \* packetQueues
  queuedBytes,     \* queuedBytes
  reassemblies,    \* reassemblies
  reassemblyBytes  \* reassemblyBytes

packets == <<queue, queuedBytes, reassemblies, reassemblyBytes>>

Sockets == {"NS_CLIENT", "NS_SERVER"}

FragmentCount(size) == IF size = 0 THEN 1 ELSE (size + FragmentSize - 1) \div FragmentSize

\* Headers of frames, packets as the engine gets them, and reassemblies: parts names, for each
\* fragment that is there, the message its bytes came from.
Fragments  == UNION {1 .. FragmentCount(size) : size \in Sizes}
PartsOf    == UNION {[D -> 1 .. MaxMessages] : D \in SUBSET Fragments}
Message    == [from : Peers, to : Users, socket : Sockets, size : Sizes, id : PacketIds]
Packet     == [from : Peers, size : Sizes, parts : PartsOf]
Reassembly == [from : Peers, id : PacketIds, socket : Sockets, size : Sizes, parts : PartsOf, age : 0 .. Lifetime + 1]

InitTransport ==
  /\ sent = <<>>
  /\ queue = [s \in Sockets |-> <<>>] /\ queuedBytes = [s \in Sockets |-> 0]
  /\ reassemblies = {} /\ reassemblyBytes = 0

-----------------------------------------------------------------------------
(***************************************************************************)
(* EOS_SendPacket at a peer: ids repeat when the counter wraps or the      *)
(* peer restarts.  When the SDK refuses a frame the rest do not leave,     *)
(* which is as if they were lost.                                          *)
(***************************************************************************)
PeerSends(p, to, socket, size) ==
  /\ Len(sent) < MaxMessages
  /\ \E id \in PacketIds :
       sent' = Append(sent, [from |-> p, to |-> to, socket |-> socket, size |-> size, id |-> id])
  /\ UNCHANGED packets

-----------------------------------------------------------------------------
(***************************************************************************)
(* The queue of a socket drops its oldest packets to make room.            *)
(***************************************************************************)
\* The sum of the numbers size[x], as the number of bytes so that theorems about finite sets apply.
Total(size) == Cardinality(UNION {{x} \X (1 .. size[x]) : x \in DOMAIN size})

BytesOf(R)    == Total([r \in R |-> r.size])
QueueBytes(q) == Total([i \in DOMAIN q |-> q[i].size])

Fits(q, bytes, size) == Len(q) < MaxQueuedPackets /\ bytes + size <= MaxQueuedBytes

\* q without its first k packets, and the counter after they were subtracted from it.
Dropped(q, k)           == SubSeq(q, k + 1, Len(q))
BytesLeft(q, bytes, k)  == bytes - QueueBytes(SubSeq(q, 1, k))

EnqueuePacket(s, packet) ==
  LET q    == queue[s]
      Done(k) == k = Len(q) \/ Fits(Dropped(q, k), BytesLeft(q, queuedBytes[s], k), packet.size)
      k    == CHOOSE k \in 0 .. Len(q) : Done(k) /\ \A j \in 0 .. k - 1 : ~Done(j)
      kept == BytesLeft(q, queuedBytes[s], k)
  IN  IF packet.size <= MaxQueuedBytes
      THEN /\ queue' = [queue EXCEPT ![s] = Append(Dropped(q, k), packet)]
           /\ queuedBytes' = [queuedBytes EXCEPT ![s] = kept + packet.size]
      ELSE /\ queue' = [queue EXCEPT ![s] = Dropped(q, k)]
           /\ queuedBytes' = [queuedBytes EXCEPT ![s] = kept]

\* EOS_ReceivePacket: the engine takes the oldest packet.
ReceivePacket(s) ==
  /\ queue[s] # <<>>
  /\ queue' = [queue EXCEPT ![s] = Tail(@)]
  /\ queuedBytes' = [queuedBytes EXCEPT ![s] = @ - Head(queue[s]).size]
  /\ UNCHANGED <<sent, reassemblies, reassemblyBytes>>

-----------------------------------------------------------------------------
(***************************************************************************)
(* Reassembly.                                                             *)
(***************************************************************************)
Expired(R) == {r \in R : r.age > Lifetime}

Cleanup ==
  /\ reassemblies' = reassemblies \ Expired(reassemblies)
  /\ reassemblyBytes' = reassemblyBytes - BytesOf(Expired(reassemblies))
  /\ UNCHANGED <<sent, queue, queuedBytes>>

\* A tick of the clock.
Tick ==
  /\ reassemblies # {}
  /\ reassemblies' = {[r EXCEPT !.age = IF @ > Lifetime THEN @ ELSE @ + 1] : r \in reassemblies}
  /\ UNCHANGED <<sent, queue, queuedBytes, reassemblyBytes>>

HasRoom(R, bytes, size) ==
  R = {} \/ (Cardinality(R) < MaxReassemblies /\ bytes + size <= MaxReassemblyBytes)

\* What MakeReassemblyRoom may evict from R: the oldest, one by one, until there is room.
Evictions(R, bytes, size) ==
  {E \in SUBSET R :
     /\ \A e \in E, r \in R \ E : e.age >= r.age
     /\ HasRoom(R \ E, bytes - BytesOf(E), size)
     /\ E # {} => \E last \in E :
          /\ \A e \in E : e.age >= last.age
          /\ ~HasRoom((R \ E) \cup {last}, bytes - BytesOf(E \ {last}), size)}

\* Mutant: the destination socket is not part of the key.
SameKey_IgnoresSocket(r, m) == r.from = m.from /\ r.id = m.id

SameKey(r, m) == r.from = m.from /\ r.id = m.id /\ r.socket = m.socket

Complete(r) == DOMAIN r.parts = 1 .. FragmentCount(r.size)

\* Mutant: the reassembly is subtracted again when it is erased.
Unaccount_Twice(bytes, r) == bytes - r.size - r.size

\* Mutant: the counter keeps the bytes of a reassembly that is given up.
Unaccount_Forgets(bytes, r) == bytes

Unaccount(bytes, r) == bytes - r.size

\* Fragment i of message n is copied unless one is there already.
Received(r, n, i) ==
  [r EXCEPT !.age = 0,
            !.parts = IF i \in DOMAIN @ THEN @
                      ELSE [j \in (DOMAIN @) \cup {i} |-> IF j = i THEN n ELSE r.parts[j]]]

\* r, which the others do not include, gets the frame and is handed over if that completes it.
Store(others, bytes, r, n, i) ==
  LET updated == Received(r, n, i)
  IN  IF Complete(updated)
      THEN /\ reassemblies' = others /\ reassemblyBytes' = Unaccount(bytes, r)
           /\ EnqueuePacket(r.socket, [from |-> r.from, size |-> r.size, parts |-> updated.parts])
      ELSE /\ reassemblies' = others \cup {updated} /\ reassemblyBytes' = bytes
           /\ UNCHANGED <<queue, queuedBytes>>

\* EOS_ProcessFrame.
ProcessFrame(n, i) ==
  LET m     == sent[n]
      live  == reassemblies \ Expired(reassemblies)
      bytes == reassemblyBytes - BytesOf(Expired(reassemblies))
      found == {r \in live : SameKey(r, m)}
      new   == [from |-> m.from, id |-> m.id, socket |-> m.socket, size |-> m.size, parts |-> <<>>, age |-> 0]
  IN  \/ /\ FragmentCount(m.size) = 1
         /\ EnqueuePacket(m.socket, [from |-> m.from, size |-> m.size, parts |-> <<n>>])
         /\ UNCHANGED <<reassemblies, reassemblyBytes>>
      \/ /\ FragmentCount(m.size) > 1 /\ found = {}
         /\ \E E \in Evictions(live, bytes, m.size) :
              Store(live \ E, bytes - BytesOf(E) + m.size, new, n, i)
      \/ /\ FragmentCount(m.size) > 1
         /\ \E r \in found :
              \/ r.size = m.size /\ Store(live \ {r}, bytes, r, n, i)
              \/ \* a packet of another size has the same id
                 /\ r.size # m.size
                 /\ reassemblies' = live \ {r} /\ reassemblyBytes' = Unaccount(bytes, r)
                 /\ UNCHANGED <<queue, queuedBytes>>

\* Mutant: what is being put together stays.
ResetPacketQueue_QueuesOnly ==
  /\ queue' = [s \in Sockets |-> <<>>] /\ queuedBytes' = [s \in Sockets |-> 0]
  /\ UNCHANGED <<reassemblies, reassemblyBytes>>

\* EOS_ResetPacketQueue.
ResetPacketQueue ==
  /\ queue' = [s \in Sockets |-> <<>>] /\ queuedBytes' = [s \in Sockets |-> 0]
  /\ reassemblies' = {} /\ reassemblyBytes' = 0

-----------------------------------------------------------------------------
(***************************************************************************)
(* Properties.                                                             *)
(***************************************************************************)
\* The messages the fragments of a packet or a reassembly came from.
Parts(r) == {r.parts[i] : i \in DOMAIN r.parts}

\* Bytes in queues and reassemblies are what the counters say, and within the limits, whatever
\* was evicted, expired, given up or handed over.
MemoryAccounted ==
  /\ \A s \in Sockets :
       /\ queuedBytes[s] = QueueBytes(queue[s])
       /\ queuedBytes[s] <= MaxQueuedBytes /\ Len(queue[s]) <= MaxQueuedPackets
  /\ reassemblyBytes = BytesOf(reassemblies)
  /\ Cardinality(reassemblies) <= MaxReassemblies
  /\ Cardinality(reassemblies) > 1 => reassemblyBytes <= MaxReassemblyBytes

\* Every fragment of r is there and came from a message with the same sender, socket and size, and
\* all of them have the same id: no frame of another packet is mixed in, unless the header cannot tell.
SameHeader(r, socket) ==
  /\ \A n \in Parts(r) : sent[n].from = r.from /\ sent[n].socket = socket /\ sent[n].size = r.size
  /\ \A n, k \in Parts(r) : sent[n].id = sent[k].id

\* A packet the engine receives is one a peer sent, whole, for that socket.
DeliveredAsSent ==
  \A s \in Sockets : \A i \in DOMAIN queue[s] :
    LET p == queue[s][i]
    IN  Complete(p) /\ SameHeader(p, s)
=============================================================================
