----------------------------- MODULE ServerModInfo -----------------------------
(***************************************************************************)
(* How a client learns which mods a server wants: the collection that      *)
(* ModDownloader keeps under m_ServerModInfoMutex                          *)
(* (src/src/modsystem/moddownloader.cpp) and its three kinds of users:     *)
(*   the main thread, which takes the server's packets from the network    *)
(*     (engine/client/clientstate.cpp) and runs the UI scripts;            *)
(*   connection threads (engine/client/connection_manager.cpp), detached,  *)
(*     one per attempt, of which cancelled ones may still be running: the  *)
(*     flag they poll, m_bConnecting, is raised again by the next attempt; *)
(*   servers, which answer a request with a count and one packet per mod.  *)
(*                                                                         *)
(* Packets carry their index and the server's total, and neither the       *)
(* request nor the server they belong to.  The network loses, delays,      *)
(* reorders and duplicates them: a packet once sent can be delivered at    *)
(* any time, any number of times or never.  A packet that parsing rejects  *)
(* (an unknown version or platform) is one that is never delivered.        *)
(* Every wait of a connection thread has a timeout, so a wait may end at   *)
(* any moment; g_bReceivedServerInfo and the resending it ends are covered *)
(* by that.  A step is one critical section or one poll of a flag.         *)
(***************************************************************************)
EXTENDS Integers, Sequences, FiniteSets

CONSTANTS
  Attempts,  \* connection attempts, each with a thread of its own
  MaxMods,   \* bound: mods a server asks for
  NoPacket,  \* the main thread is not inside RecvModInfoConnectionlessPacket
  Script,    \* "the collection was opened by a UI script"
  Nobody     \* "the collection is not the work of one request alone"

ASSUME BoundAssumption == MaxMods \in Nat

ASSUME NamesAssumption ==
  /\ NoPacket \notin [index : Int, total : Int]
  /\ Script \notin Attempts /\ Nobody \notin Attempts /\ Script # Nobody

VARIABLES
  listening,   \* m_bIsListeningForServerMods
  total,       \* m_iTotalServerRequestedMods
  received,    \* m_ReceivedServerModIndices
  list,        \* m_ServerRequestedMods
  rx,          \* the mod packet the main thread has parsed but not yet stored
  connecting,  \* m_bConnecting
  pc,          \* program point of each attempt's thread
  answered,    \* attempts whose wait ended because the collection had closed
  taken,       \* what each attempt took with GetServerRequestedMods
  replies,     \* totals of the answers servers have sent
  owner,       \* history: who opened the collection, if nobody else touched it since
  refused      \* history: an invalid count has closed the collection

collection == <<listening, total, received, list>>
threads    == <<connecting, pc, answered, taken>>
history    == <<owner, refused>>
vars == <<collection, rx, threads, replies, history>>

-----------------------------------------------------------------------------
(* A count packet is taken as it comes: a negative count is one of them, and *)
(* all are treated alike.                                                   *)
Invalid == -1
Counts == 0..MaxMods \cup {Invalid}

ModPacket == [index : 0..(MaxMods - 1), total : 1..MaxMods]
Phase == {"none", "check", "begin", "asking", "waiting", "stopping", "leaving", "get", "over"}

(* A request is under way from BeginServerModInfoRequest to StopServerModInfoRequest. *)
Collecting == {"asking", "waiting", "stopping"}

Init ==
  /\ listening = FALSE /\ total = 0 /\ received = {} /\ list = <<>>
  /\ rx = NoPacket
  /\ connecting = FALSE
  /\ pc = [t \in Attempts |-> "none"]
  /\ answered = [t \in Attempts |-> FALSE]
  /\ taken = [t \in Attempts |-> <<>>]
  /\ replies = {}
  /\ owner = Nobody /\ refused = FALSE

-----------------------------------------------------------------------------
(* Servers.  An answer is the count packet and the mod packets 0..n-1; a    *)
(* request that does not want mods is answered with the count 0, and an     *)
(* invalid count comes without mod packets, whose totals parsing checks.    *)
(* Scripts may send a request at any time (NSRequestServerInfo), to any     *)
(* server, so an answer needs no attempt to be under way.                   *)

ServerAnswers(n) ==
  /\ n \notin replies
  /\ replies' = replies \cup {n}
  /\ UNCHANGED <<collection, rx, threads, history>>

InFlight == {p \in ModPacket : p.total \in replies /\ p.index < p.total}

-----------------------------------------------------------------------------
(* The main thread takes packets.  Its handlers run one after the other:   *)
(* while it is inside one (rx # NoPacket) it does nothing else.            *)

Conflicts(n) == total # 0 /\ total # n

ClosesAt_TooEarly(n) == n = 0 \/ Cardinality(received) + 1 >= n   \* mutant
ClosesAt(n) == n = 0 \/ Cardinality(received) >= n

SetServerRequestedModCount(n) ==
  /\ rx = NoPacket
  /\ n \in replies
  /\ listening
  /\ \/ /\ n < 0
        /\ listening' = FALSE /\ refused' = TRUE
        /\ UNCHANGED total
     \/ /\ n >= 0 /\ ~Conflicts(n)
        /\ total' = n
        /\ listening' = ~ClosesAt(n)
        /\ UNCHANGED refused
  /\ UNCHANGED <<received, list, rx, threads, replies, owner>>

(* The check of the flag without the lock, and the parsing. *)
RecvModInfo(p) ==
  /\ rx = NoPacket
  /\ p \in InFlight
  /\ listening
  /\ rx' = p
  /\ UNCHANGED <<collection, threads, replies, history>>

(* What the locked part makes of the parsed packet. *)
Accepts_NoRecheck(p) == ~Conflicts(p.total) /\ p.index \notin received             \* mutant
Accepts_AnyTotal(p)  == listening /\ p.index \notin received                       \* mutant
Accepts(p)           == listening /\ ~Conflicts(p.total) /\ p.index \notin received

StoreModInfo ==
  /\ rx # NoPacket
  /\ rx' = NoPacket
  /\ IF Accepts(rx)
       THEN /\ total' = rx.total
            /\ received' = received \cup {rx.index}
            /\ list' = Append(list, rx)
            /\ listening' = (Cardinality(received') # rx.total)
       ELSE UNCHANGED collection
  /\ UNCHANGED <<threads, replies, history>>

-----------------------------------------------------------------------------
(* BeginServerModInfoRequest, for a connection thread or a script. *)
Open(who) ==
  /\ listening' = TRUE
  /\ total' = 0 /\ received' = {} /\ list' = <<>>
  /\ owner' = who /\ refused' = FALSE

(* UI scripts, on the main thread: NSAllowServerModDownloads opens the     *)
(* collection and leaves it open, NSClearServerRequestedMods empties it.   *)

AllowServerModDownloads ==
  /\ rx = NoPacket
  /\ Open(Script)
  /\ UNCHANGED <<rx, threads, replies>>

ClearServerRequestedMods ==
  /\ rx = NoPacket
  /\ listening' = FALSE
  /\ total' = 0 /\ received' = {} /\ list' = <<>>
  /\ owner' = Nobody /\ refused' = FALSE
  /\ UNCHANGED <<rx, threads, replies>>

-----------------------------------------------------------------------------
(* Connection attempts.  Connect refuses while another attempt is active;  *)
(* Interrupt, from the user, the engine or any attempt's thread, and       *)
(* Finalise lower the flag.                                                *)

Connect(t) ==
  /\ rx = NoPacket
  /\ pc[t] = "none" /\ ~connecting
  /\ connecting' = TRUE
  /\ pc' = [pc EXCEPT ![t] = "check"]
  /\ UNCHANGED <<collection, rx, answered, taken, replies, history>>

Interrupt ==
  /\ connecting
  /\ connecting' = FALSE
  /\ UNCHANGED <<collection, rx, pc, answered, taken, replies, history>>

Goto(t, point) == pc' = [pc EXCEPT ![t] = point]

(* RETURN_IF_CANCELLED: the flag is everyone's, so a cancelled attempt that  *)
(* finds it raised again by the next one goes on.                            *)
ReturnIfCancelled(t, from, next) ==
  /\ pc[t] = from
  /\ Goto(t, IF connecting THEN next ELSE "over")
  /\ UNCHANGED <<collection, rx, connecting, answered, taken, replies, history>>

BeginServerModInfoRequest(t) ==
  /\ pc[t] = "begin"
  /\ Open(t)
  /\ Goto(t, "asking")
  /\ UNCHANGED <<rx, connecting, answered, taken, replies>>

(* SendInfoRequestPacket, resending included, ends by an answer, a timeout  *)
(* or a cancellation; when the server was to authenticate the client and no *)
(* notice of it came, the thread interrupts the connection and still        *)
(* returns to RequestServerModInfo.                                         *)
SendInfoRequestPacket(t) ==
  /\ pc[t] = "asking"
  /\ Goto(t, "waiting")
  /\ connecting' \in {connecting, FALSE}
  /\ UNCHANGED <<collection, rx, answered, taken, replies, history>>

(* The wait ends when the collection has closed, by cancellation or timeout. *)
LeaveWait(t) ==
  /\ pc[t] = "waiting"
  /\ answered' = [answered EXCEPT ![t] = ~listening]
  /\ Goto(t, "stopping")
  /\ UNCHANGED <<collection, rx, connecting, taken, replies, history>>

StopServerModInfoRequest_IfConnecting(t) ==                            \* mutant
  /\ pc[t] = "stopping"
  /\ listening' = (listening /\ ~connecting)
  /\ owner' = IF owner = t THEN t ELSE Nobody
  /\ Goto(t, "leaving")
  /\ UNCHANGED <<total, received, list, rx, connecting, answered, taken, replies, refused>>

StopServerModInfoRequest(t) ==
  /\ pc[t] = "stopping"
  /\ listening' = FALSE
  /\ owner' = IF owner = t THEN t ELSE Nobody
  /\ Goto(t, "leaving")
  /\ UNCHANGED <<total, received, list, rx, connecting, answered, taken, replies, refused>>

GetServerRequestedMods(t) ==
  /\ pc[t] = "get"
  /\ taken' = [taken EXCEPT ![t] = list]
  /\ Goto(t, "over")
  /\ UNCHANGED <<collection, rx, connecting, answered, replies, history>>

-----------------------------------------------------------------------------
MainThread ==
  \/ \E n \in Counts : SetServerRequestedModCount(n)
  \/ \E p \in ModPacket : RecvModInfo(p)
  \/ StoreModInfo
  \/ AllowServerModDownloads
  \/ ClearServerRequestedMods

AttemptStep(t) ==
  \/ Connect(t)
  \/ ReturnIfCancelled(t, "check", "begin")
  \/ BeginServerModInfoRequest(t)
  \/ SendInfoRequestPacket(t)
  \/ LeaveWait(t)
  \/ StopServerModInfoRequest(t)
  \/ ReturnIfCancelled(t, "leaving", "get")
  \/ GetServerRequestedMods(t)

Next ==
  \/ \E n \in Counts : ServerAnswers(n)
  \/ MainThread
  \/ \E t \in Attempts : AttemptStep(t)
  \/ Interrupt

Spec == Init /\ [][Next]_vars

-----------------------------------------------------------------------------
TypeOK ==
  /\ listening \in BOOLEAN /\ total \in 0..MaxMods
  /\ received \subseteq 0..(MaxMods - 1)
  /\ list \in Seq(ModPacket)
  /\ rx \in ModPacket \cup {NoPacket}
  /\ connecting \in BOOLEAN
  /\ pc \in [Attempts -> Phase]
  /\ answered \in [Attempts -> BOOLEAN]
  /\ taken \in [Attempts -> Seq(ModPacket)]
  /\ replies \subseteq Counts
  /\ owner \in Attempts \cup {Script, Nobody} /\ refused \in BOOLEAN

(* Mods announced under different totals never meet in one list, although  *)
(* packets of other requests arrive at any time: what is collected, and     *)
(* what an attempt took away in a critical section of its own, comes from   *)
(* answers of one size, and the indices collected lie below the total.      *)
OneTotal ==
  /\ received \subseteq 0..(total - 1)
  /\ \A i \in DOMAIN list : list[i].total = total
  /\ \A t \in Attempts : \A i, j \in DOMAIN taken[t] : taken[t][i].total = taken[t][j].total

(* A list has one entry per index, however often packets are repeated: the *)
(* count shown to the user as progress is the number of distinct mods.      *)
Distinct(s) == \A i, j \in DOMAIN s : s[i].index = s[j].index => i = j

OncePerIndex ==
  /\ Len(list) = Cardinality(received)
  /\ Distinct(list)
  /\ \A t \in Attempts : Distinct(taken[t])

(* Both: whatever other requests' packets, repeats and resets come between, *)
(* every list is of one answer and has each of its mods once.               *)
WellFormedLists == OneTotal /\ OncePerIndex

(* An attempt whose wait ended because the collection had closed, and whose *)
(* collection no other thread or script touched, has every mod of its       *)
(* server: nothing but the last mod, or a count that they satisfy, closes,  *)
(* or else an invalid count, after which the list is used short as it is    *)
(* and nothing tells the attempt so.                                        *)
CompleteWhenAnswered ==
  \A t \in Attempts :
    owner = t /\ answered[t] => ~listening /\ (Len(list) = total \/ refused)

(* The client listens to servers only while the request that opened the    *)
(* collection is under way, or when a script asked for it: no way out of a  *)
(* request, cancelled or timed out, leaves it open behind.                  *)
NoOrphanListening ==
  listening => \/ owner = Script
               \/ owner \in Attempts /\ pc[owner] \in Collecting

(* A closed list is only ever thrown away whole: a packet that was read     *)
(* while the collection was open is not stored after it has closed.         *)
ClosedListFrozen == [][~listening => list' \in {list, <<>>}]_vars

=============================================================================
