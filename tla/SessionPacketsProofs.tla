------------------------ MODULE SessionPacketsProofs ------------------------
(***************************************************************************)
(* Proofs about SessionPackets for whatever clients send: no packet that is *)
(* queued or being handled was deleted, packets are handled in order but    *)
(* for the exceptions OrderKept names, and the player comes and goes in the *)
(* world thread alone.                                                      *)
(***************************************************************************)
EXTENDS SessionPackets, TLAPS

\* The types of what concerns packets.
PacketType ==
    /\ stream \in Streams
    /\ arrived \in 0..Len(stream)
    /\ queue \in Seq(Packets)
    /\ packet \in 0..Len(stream) /\ firstDelayed \in 0..Len(stream)
    /\ freed \subseteq Packets /\ delayed \subseteq Packets /\ late \subseteq Packets
    /\ handled \in Seq(Packets)

\* Where Update is, which has a packet in its hands just while it handles it.
TurnType ==
    /\ thread \in {"world", "map"}
    /\ pc \in {"idle", "loop", "handle", "callbacks", "logout", "cleanup"}
    /\ packet # 0 <=> pc = "handle"

\* Every packet that came is in one place at most: in the queue once, in the hands
\* of Update, or deleted.
PlaceInv ==
    /\ \A i \in 1..Len(queue) : queue[i] \in 1..arrived
    /\ \A i, j \in 1..Len(queue) : queue[i] = queue[j] => i = j
    /\ packet \in 0..arrived /\ packet \notin Queued
    /\ freed \subseteq 1..arrived
    /\ freed \cap (Queued \cup {packet}) = {}
    /\ \A i \in 1..Len(handled) : handled[i] \in 1..arrived
    /\ net = "checked" => arrived < Len(stream)

\* The map thread updates only sessions with a player, and takes no packet that
\* could make it leave; a player is loaded only where there is none; packets are
\* put back only by the world thread, which then has no player for the rest of
\* the loop.
PlayerInv ==
    /\ thread = "map" /\ pc = "handle" =>
          PacketProcessing(Kind(packet)) # "PROCESS_THREADUNSAFE"
    /\ thread = "map" => pc \in {"idle", "loop", "handle", "callbacks"}
    /\ thread = "map" /\ pc # "idle" => player # "none"
    /\ login # "none" => loading /\ player = "none"
    /\ firstDelayed # 0 => /\ thread = "world" /\ pc \in {"loop", "handle"}
                           /\ player = "none" /\ ~recentlyLogout
    /\ ~m_Socket => closing

\* a may be handled before b.
MayPrecede(a, b) == b < a => b \in delayed /\ (LoggedIn(a) => a \in late)

\* v was put back in this loop and came before u in the queue, or it came since.
PutBack(v, u) == (v \in delayed /\ MayPrecede(v, u)) \/ (v \in late /\ u < v)

\* Update has still to look at the first m packets in the queue; those behind them
\* were put back in this loop, or came since the first was.
QueueOrder(m) ==
    /\ IF firstDelayed = 0 THEN m = Len(queue)
       ELSE m < Len(queue) /\ queue[m + 1] = firstDelayed
    /\ \A i, j \in 1..Len(queue) : i < j /\ (j <= m \/ m < i) =>
          MayPrecede(queue[i], queue[j])
    /\ \A i, j \in 1..Len(queue) : i <= m /\ m < j => PutBack(queue[j], queue[i])
    /\ packet # 0 => \A i \in 1..Len(queue) :
          IF i <= m THEN MayPrecede(packet, queue[i]) ELSE PutBack(queue[i], packet)
    /\ \A h \in 1..Len(handled) : \A i \in 1..Len(queue) :
          MayPrecede(handled[h], queue[i])

\* Once the socket is closed no packet is taken from the queue any more.
OrderInv ==
    /\ ~closing => \E m \in 0..Len(queue) : QueueOrder(m)
    /\ \A i, j \in 1..Len(handled) : i < j => MayPrecede(handled[i], handled[j])
    /\ packet # 0 => \A h \in 1..Len(handled) : MayPrecede(handled[h], packet)
    /\ \A n \in delayed : LoggedIn(n)

\* The inductive invariant.
Inv ==
    /\ PacketType
    /\ TurnType
    /\ PlaceInv
    /\ PlayerInv
    /\ OrderInv

-----------------------------------------------------------------------------
\* AddSession_ establishes the invariant.
LEMMA InvInit == Init => Inv
<1> SUFFICES ASSUME Init PROVE Inv
  OBVIOUS
<1>1. Len(stream) \in Nat
  BY StreamsAssumption DEF Init
<1>2. PacketType /\ TurnType
  <2>1. /\ stream \in Streams /\ arrived \in 0..Len(stream)
        /\ packet \in 0..Len(stream) /\ firstDelayed \in 0..Len(stream)
        /\ queue \in Seq(Packets) /\ handled \in Seq(Packets)
    BY <1>1 DEF Init
  <2> QED
    BY <2>1 DEF Init, PacketType, TurnType
<1>3. Queued = {}
  BY DEF Init, Queued
<1>4. PlaceInv /\ PlayerInv
  BY <1>3 DEF Init, PlaceInv, PlayerInv
<1>5. QueueOrder(0) /\ 0 \in 0..Len(queue)
  BY DEF Init, QueueOrder
<1>6. OrderInv
  BY <1>5 DEF Init, OrderInv
<1> QED
  BY <1>2, <1>4, <1>6 DEF Inv

-----------------------------------------------------------------------------
(* The kinds of steps, as the packets see them.                            *)

packetVars == <<stream, arrived, late, queue, freed, handled, delayed, packet,
                firstDelayed>>

\* The packet in hand is handled or dropped, and the loop goes on.
PacketLeaves ==
    /\ pc = "handle"
    /\ PacketDone
    /\ \/ handled' = handled
       \/ Accepted /\ handled' = Append(handled, packet)

\* The session is deleted.
SessionLeaves ==
    /\ pc \in {"idle", "cleanup"}
    /\ DeleteSession
    /\ UNCHANGED <<networkVars, handled, delayed, thread, loopVars, inQueue>>

\* Every step is one of these.
LEMMA StepKinds ==
    ASSUME [Next]_vars
    PROVE  \/ UNCHANGED packetVars
           \/ QueuePacket \/ TakePacket \/ EndLoop \/ DelayPacket
           \/ PacketLeaves \/ SessionLeaves
<1> USE DEF networkVars, queueVars, loopVars, packetVars
<1>1. CASE Network
  BY <1>1 DEF Network, ReceivePacket, NoSession, handle_close_Session
<1>2. CASE ReplaceSession
  BY <1>2 DEF ReplaceSession, SessionLeaves, Alive
<1>3. CASE handle_close \/ KickPlayer \/ SendFails \/ LeaveQueue \/ MapTeleports
  BY <1>3 DEF handle_close, KickPlayer, SendFails, LeaveQueue, MapTeleports
<1>4. CASE BeginUpdate \/ MapPasses \/ LogoutIfDue \/ UpdateReturns
  BY <1>4 DEF BeginUpdate, MapPasses, LogoutIfDue, UpdateReturns
<1>5. CASE ProcessQueryCallbacks
  BY <1>5 DEF ProcessQueryCallbacks
<1>6. CASE DropPacket
  BY <1>6 DEF DropPacket, PacketLeaves
<1>7. ASSUME NEW k \in Kinds, Handle(k) PROVE PacketLeaves
  BY <1>7 DEF Handle, PacketLeaves
<1>8. CASE HandleCharEnum \/ HandleInWorld \/ HandleLogoutRequestOpcode
           \/ HandleLogoutCancelOpcode \/ HandleMoveWorldportAckOpcode
           \/ HandlePlayerLoginOpcode
  BY <1>7, <1>8 DEF HandleCharEnum, HandleInWorld, HandleLogoutRequestOpcode, Kinds,
     HandleLogoutCancelOpcode, HandleMoveWorldportAckOpcode, HandlePlayerLoginOpcode
<1>9. CASE DropSession
  BY <1>9 DEF DropSession, SessionLeaves
<1>10. CASE LoginQueryDone \/ UNCHANGED vars
  BY <1>10 DEF LoginQueryDone, vars
<1> QED
  BY <1>1, <1>2, <1>3, <1>4, <1>5, <1>6, <1>8, <1>9, <1>10 DEF Next, Update, Happens

\* A closed socket stays closed.
LEMMA ClosingStays ==
    ASSUME [Next]_vars, closing
    PROVE  closing'
<1> USE DEF socketVars, CloseSocket, SocketStays
<1>1. CASE Network
  BY <1>1 DEF Network, ReceivePacket, NoSession, handle_close_Session, QueuePacket
<1>2. CASE ReplaceSession \/ DropSession
  BY <1>2 DEF ReplaceSession, DropSession, DeleteSession
<1>3. CASE handle_close \/ KickPlayer \/ SendFails \/ LeaveQueue \/ MapTeleports
  BY <1>3 DEF handle_close, KickPlayer, SendFails, LeaveQueue, MapTeleports
<1>4. CASE BeginUpdate
  BY <1>4 DEF BeginUpdate
<1>5. CASE MapPasses \/ LogoutIfDue \/ UpdateReturns
  BY <1>5 DEF MapPasses, LogoutIfDue, UpdateReturns
<1>6. CASE ProcessQueryCallbacks
  BY <1>6 DEF ProcessQueryCallbacks
<1>7. CASE TakePacket \/ EndLoop \/ DelayPacket \/ DropPacket
  BY <1>7 DEF TakePacket, EndLoop, DelayPacket, DropPacket
<1>8. CASE HandleCharEnum \/ HandleInWorld \/ HandleLogoutRequestOpcode
           \/ HandleLogoutCancelOpcode \/ HandleMoveWorldportAckOpcode
  BY <1>8 DEF HandleCharEnum, HandleInWorld, HandleLogoutRequestOpcode,
     HandleLogoutCancelOpcode, HandleMoveWorldportAckOpcode
<1>9. CASE HandlePlayerLoginOpcode
  BY <1>9 DEF HandlePlayerLoginOpcode
<1>10. CASE LoginQueryDone \/ UNCHANGED vars
  BY <1>10 DEF LoginQueryDone, vars
<1> QED
  BY <1>1, <1>2, <1>3, <1>4, <1>5, <1>6, <1>7, <1>8, <1>9, <1>10
     DEF Next, Update, Happens

-----------------------------------------------------------------------------
(* Types.                                                                  *)

\* Packets stay packets of the stream.
LEMMA PacketTypeNext ==
    ASSUME Inv, [Next]_vars
    PROVE  /\ PacketType'
           /\ arrived' >= arrived /\ stream' = stream /\ Packets' = Packets
<1>1. PacketType /\ TurnType /\ Len(stream) \in Nat /\ Packets = 1..Len(stream)
  BY StreamsAssumption DEF Inv, PacketType, Packets
<1>2. CASE UNCHANGED packetVars
  BY <1>1, <1>2 DEF PacketType, packetVars, Packets
<1>3. CASE QueuePacket
  <2>1. /\ arrived' = arrived + 1 /\ queue' = Append(queue, arrived + 1)
        /\ late' \in {late, late \cup {arrived + 1}}
        /\ UNCHANGED <<stream, freed, handled, delayed, packet, firstDelayed>>
    BY <1>3 DEF QueuePacket, loopVars
  <2>2. arrived < Len(stream)
    BY <1>3 DEF Inv, PlaceInv, QueuePacket
  <2>3. arrived + 1 \in Packets
    BY <1>1, <2>2 DEF PacketType
  <2> QED
    BY <1>1, <2>1, <2>3 DEF PacketType, Packets
<1>4. CASE TakePacket
  <2>1. /\ queue # <<>> /\ packet' = Head(queue) /\ queue' = Tail(queue)
        /\ UNCHANGED <<stream, arrived, late, freed, handled, delayed, firstDelayed>>
    BY <1>4 DEF TakePacket, MorePackets, networkVars
  <2>2. Head(queue) \in Packets /\ Tail(queue) \in Seq(Packets)
    BY <1>1, <2>1 DEF PacketType
  <2> QED
    BY <1>1, <2>1, <2>2 DEF PacketType, Packets
<1>5. CASE EndLoop
  BY <1>1, <1>5 DEF EndLoop, PacketType, networkVars, queueVars, Packets
<1>6. CASE DelayPacket
  <2>1. /\ queue' = Append(queue, packet) /\ firstDelayed' \in {packet, firstDelayed}
        /\ delayed' = delayed \cup {packet} /\ freed' = freed /\ packet' = 0
        /\ UNCHANGED <<stream, arrived, late, handled>>
    BY <1>6 DEF DelayPacket, Requeued, FirstDelayed, DeleteFlag, networkVars
  <2>2. packet \in Packets
    BY <1>1, <1>6 DEF DelayPacket, TurnType, PacketType
  <2> QED
    BY <1>1, <2>1, <2>2 DEF PacketType, Packets
<1>7. CASE PacketLeaves
  <2>1. /\ freed' \in {freed, freed \cup {packet}} /\ packet' = 0
        /\ handled' \in {handled, Append(handled, packet)}
        /\ UNCHANGED <<stream, arrived, late, queue, delayed, firstDelayed>>
    BY <1>7 DEF PacketLeaves, PacketDone, networkVars
  <2>2. packet \in Packets
    BY <1>1, <1>7 DEF PacketLeaves, TurnType, PacketType
  <2>3. Append(handled, packet) \in Seq(Packets)
    BY <1>1, <2>2 DEF PacketType
  <2>4. freed' \subseteq Packets /\ handled' \in Seq(Packets)
    BY <1>1, <2>1, <2>2, <2>3 DEF PacketType
  <2> QED
    BY <1>1, <2>1, <2>4 DEF PacketType, Packets
<1>8. CASE SessionLeaves
  <2>1. /\ freed' = freed \cup Queued /\ queue' = <<>>
        /\ UNCHANGED <<stream, arrived, late, handled, delayed, packet, firstDelayed>>
    BY <1>8 DEF SessionLeaves, DeleteSession, networkVars, loopVars
  <2>2. Queued \subseteq Packets
    BY <1>1 DEF PacketType, Queued
  <2> QED
    BY <1>1, <2>1, <2>2 DEF PacketType, Packets
<1> QED
  BY <1>2, <1>3, <1>4, <1>5, <1>6, <1>7, <1>8, StepKinds

\* Update goes from one place to the next, and the threads take turns.
LEMMA TurnTypeNext ==
    ASSUME Inv, [Next]_vars
    PROVE  TurnType'
<1>1. TurnType /\ PacketType /\ Len(stream) \in Nat
  BY StreamsAssumption DEF Inv, PacketType
<1> USE DEF turnVars, loopVars, TurnType
<1>2. CASE UNCHANGED <<turnVars, packet>>
  BY <1>1, <1>2
<1>3. CASE Network
  BY <1>2, <1>3 DEF Network, ReceivePacket, NoSession, handle_close_Session, QueuePacket
<1>4. CASE handle_close \/ KickPlayer \/ SendFails \/ LeaveQueue \/ MapTeleports
  BY <1>2, <1>4 DEF handle_close, KickPlayer, SendFails, LeaveQueue, MapTeleports
<1>5. CASE SessionLeaves
  BY <1>1, <1>5 DEF SessionLeaves, DeleteSession
<1>6. CASE ReplaceSession \/ DropSession
  BY <1>5, <1>6 DEF ReplaceSession, Alive, DropSession, SessionLeaves
<1>7. CASE BeginUpdate \/ MapPasses
  BY <1>1, <1>7 DEF BeginUpdate, MapPasses, Alive
<1>8. CASE LogoutIfDue \/ UpdateReturns
  BY <1>1, <1>8 DEF LogoutIfDue, UpdateReturns, OtherThread
<1>9. CASE ProcessQueryCallbacks
  BY <1>1, <1>9 DEF ProcessQueryCallbacks, AfterCallbacks, OtherThread
<1>10. CASE TakePacket
  <2>1. Head(queue) # 0
    BY <1>1, <1>10 DEF TakePacket, MorePackets, PacketType, Packets
  <2> QED
    BY <1>1, <1>10, <2>1 DEF TakePacket
<1>11. CASE EndLoop \/ DelayPacket \/ PacketLeaves
  BY <1>1, <1>11 DEF EndLoop, DelayPacket, PacketLeaves, PacketDone
<1>12. ASSUME NEW k \in Kinds, Handle(k) PROVE PacketLeaves
  BY <1>12 DEF Handle, PacketLeaves
<1>13. CASE HandleCharEnum \/ HandleInWorld \/ HandleLogoutRequestOpcode
            \/ HandleLogoutCancelOpcode \/ HandleMoveWorldportAckOpcode
            \/ HandlePlayerLoginOpcode \/ DropPacket
  <2>1. PacketLeaves
    BY <1>12, <1>13 DEF HandleCharEnum, HandleInWorld, HandleLogoutRequestOpcode, Kinds,
       HandleLogoutCancelOpcode, HandleMoveWorldportAckOpcode, HandlePlayerLoginOpcode,
       DropPacket, PacketLeaves
  <2> QED
    BY <1>11, <2>1
<1>14. CASE LoginQueryDone \/ UNCHANGED vars
  BY <1>2, <1>14 DEF LoginQueryDone, vars
<1> QED
  BY <1>3, <1>4, <1>6, <1>7, <1>8, <1>9, <1>10, <1>11, <1>13, <1>14
     DEF Next, Update, Happens

-----------------------------------------------------------------------------
(* Where the packets are.                                                  *)

\* The network thread checks that there is a packet before it queues it.
LEMMA CheckedNext ==
    ASSUME Inv, [Next]_vars, net' = "checked"
    PROVE  arrived' < Len(stream')
<1> USE DEF networkVars
<1>1. net = "checked" => arrived < Len(stream)
  BY DEF Inv, PlaceInv
<1>2. CASE Network
  BY <1>1, <1>2 DEF Network, ReceivePacket, NoSession, handle_close_Session, QueuePacket
<1>3. CASE handle_close
  BY <1>3 DEF handle_close
<1>4. ASSUME NEW k, Handle(k) PROVE UNCHANGED networkVars
  BY <1>4 DEF Handle, PacketDone
<1>5. CASE Update
  <2>1. UNCHANGED networkVars
    <3>1. CASE BeginUpdate \/ MapPasses \/ TakePacket \/ EndLoop \/ DelayPacket
               \/ DropPacket
      BY <3>1 DEF BeginUpdate, MapPasses, TakePacket, EndLoop, DelayPacket, DropPacket,
         PacketDone
    <3>2. CASE ProcessQueryCallbacks \/ LogoutIfDue \/ UpdateReturns \/ DropSession
      BY <3>2 DEF ProcessQueryCallbacks, LogoutIfDue, UpdateReturns, DropSession
    <3> QED
      BY <1>4, <1>5, <3>1, <3>2 DEF Update, HandleCharEnum, HandleInWorld,
         HandleLogoutRequestOpcode, HandleLogoutCancelOpcode,
         HandleMoveWorldportAckOpcode, HandlePlayerLoginOpcode
  <2> QED
    BY <1>1, <2>1
<1>6. CASE KickPlayer \/ ReplaceSession \/ SendFails \/ LeaveQueue \/ MapTeleports
  BY <1>1, <1>6 DEF KickPlayer, ReplaceSession, SendFails, LeaveQueue, MapTeleports
<1>7. CASE LoginQueryDone \/ UNCHANGED vars
  BY <1>1, <1>7 DEF LoginQueryDone, vars
<1> QED
  BY <1>2, <1>3, <1>5, <1>6, <1>7 DEF Next, Happens

\* What Append does to a queue.
LEMMA Appended ==
    ASSUME NEW S, NEW q \in Seq(S), NEW x \in S
    PROVE  /\ Append(q, x) \in Seq(S)
           /\ Len(q) \in Nat /\ Len(Append(q, x)) = Len(q) + 1
           /\ \A i \in 1..Len(q) : Append(q, x)[i] = q[i]
           /\ Append(q, x)[Len(q) + 1] = x
           /\ 1..(Len(q) + 1) = 1..Len(q) \cup {Len(q) + 1}
           /\ Len(q) + 1 \notin 1..Len(q)
OBVIOUS

\* What taking the first packet does to it.
LEMMA Taken ==
    ASSUME NEW S, NEW q \in Seq(S), q # <<>>
    PROVE  /\ Tail(q) \in Seq(S)
           /\ Len(q) \in Nat \ {0} /\ Len(Tail(q)) = Len(q) - 1
           /\ \A i \in 1..Len(Tail(q)) : i + 1 \in 1..Len(q) /\ Tail(q)[i] = q[i + 1]
           /\ Head(q) = q[1] /\ 1 \in 1..Len(q) /\ Head(q) \in S
OBVIOUS

\* Every step leaves each packet in one place.
LEMMA PlaceNext == Inv /\ [Next]_vars => PlaceInv'
<1> SUFFICES ASSUME Inv, [Next]_vars PROVE PlaceInv'
  OBVIOUS
<1>1. /\ PacketType /\ TurnType /\ PlaceInv /\ Len(stream) \in Nat
      /\ Packets = 1..Len(stream) /\ arrived \in Nat
  BY StreamsAssumption DEF Inv, PacketType, Packets
<1>2. net' = "checked" => arrived' < Len(stream')
  BY CheckedNext
<1>3. CASE UNCHANGED packetVars
  BY <1>1, <1>2, <1>3 DEF PlaceInv, packetVars, Queued
<1>4. CASE QueuePacket
  <2> DEFINE n == arrived + 1
  <2>1. /\ arrived' = n /\ queue' = Append(queue, n)
        /\ UNCHANGED <<freed, handled, packet>>
    BY <1>4 DEF QueuePacket, loopVars
  <2>2. n \in Packets
    BY <1>1, <1>4 DEF PlaceInv, QueuePacket
  <2>3. /\ Len(queue) \in Nat /\ Len(queue') = Len(queue) + 1
        /\ \A i \in 1..Len(queue) : queue'[i] = queue[i]
        /\ queue'[Len(queue) + 1] = n
        /\ 1..Len(queue') = 1..Len(queue) \cup {Len(queue) + 1}
    BY <1>1, <2>1, <2>2, Appended DEF PacketType
  <2>4. 1..arrived \subseteq 1..n /\ n \in 1..n /\ n \notin 0..arrived /\ n # 0
    BY <1>1
  <2> HIDE DEF n
  <2>5. Queued' = Queued \cup {n}
    BY <2>3 DEF Queued
  <2>6. \A i \in 1..Len(queue) : queue[i] # n
    BY <1>1, <2>4 DEF PlaceInv
  <2>7. \A i, j \in 1..Len(queue') : queue'[i] = queue'[j] => i = j
    BY <1>1, <2>3, <2>6 DEF PlaceInv
  <2>8. n \notin freed /\ packet # n /\ packet \in 0..n
    BY <1>1, <2>4 DEF PlaceInv, n
  <2>9. \A i \in 1..Len(queue') : queue'[i] \in 1..n
    BY <1>1, <2>3, <2>4 DEF PlaceInv
  <2>10. /\ packet \notin Queued' /\ freed \cap (Queued' \cup {packet}) = {}
         /\ freed \subseteq 1..n
         /\ \A i \in 1..Len(handled) : handled[i] \in 1..n
    BY <1>1, <2>4, <2>5, <2>8 DEF PlaceInv
  <2> QED
    BY <1>2, <2>1, <2>7, <2>8, <2>9, <2>10 DEF PlaceInv
<1>5. CASE TakePacket
  <2>1. /\ queue # <<>> /\ packet' = Head(queue) /\ queue' = Tail(queue)
        /\ UNCHANGED <<arrived, freed, handled>>
    BY <1>5 DEF TakePacket, MorePackets, networkVars
  <2>2. /\ Len(queue) \in Nat \ {0} /\ Len(queue') = Len(queue) - 1
        /\ \A i \in 1..Len(queue') : i + 1 \in 1..Len(queue) /\ queue'[i] = queue[i + 1]
        /\ packet' = queue[1] /\ 1 \in 1..Len(queue)
    BY <1>1, <2>1, Taken DEF PacketType
  <2>3. Queued' \subseteq Queued /\ packet' \in Queued
    BY <2>2 DEF Queued
  <2>4. packet' \notin Queued'
    BY <1>1, <2>2 DEF PlaceInv, Queued
  <2>5. \A i, j \in 1..Len(queue') : queue'[i] = queue'[j] => i = j
    BY <1>1, <2>2 DEF PlaceInv
  <2>6. packet' \in 0..arrived
    BY <1>1, <2>2 DEF PlaceInv
  <2>7. \A i \in 1..Len(queue') : queue'[i] \in 1..arrived
    BY <1>1, <2>2 DEF PlaceInv
  <2>8. freed \cap Queued = {} /\ freed \subseteq 1..arrived
        /\ \A i \in 1..Len(handled) : handled[i] \in 1..arrived
    BY <1>1 DEF PlaceInv
  <2>9. freed \cap (Queued' \cup {packet'}) = {}
    BY <2>3, <2>8
  <2> QED
    BY <1>2, <2>1, <2>4, <2>5, <2>6, <2>7, <2>8, <2>9 DEF PlaceInv
<1>6. CASE EndLoop
  BY <1>1, <1>2, <1>6 DEF EndLoop, networkVars, queueVars, PlaceInv, Queued
<1>7. CASE DelayPacket
  <2>1. /\ queue' = Append(queue, packet) /\ freed' = freed /\ packet' = 0
        /\ UNCHANGED <<arrived, handled>>
    BY <1>7 DEF DelayPacket, Requeued, DeleteFlag, networkVars
  <2>2. packet \in Packets /\ packet \in 1..arrived
    BY <1>1, <1>7 DEF DelayPacket, TurnType, PacketType, PlaceInv
  <2>3. /\ Len(queue) \in Nat /\ Len(queue') = Len(queue) + 1
        /\ \A i \in 1..Len(queue) : queue'[i] = queue[i]
        /\ queue'[Len(queue) + 1] = packet
        /\ 1..Len(queue') = 1..Len(queue) \cup {Len(queue) + 1}
    BY <1>1, <2>1, <2>2, Appended DEF PacketType
  <2>4. Queued' = Queued \cup {packet}
    BY <2>3 DEF Queued
  <2>5. \A i \in 1..Len(queue) : queue[i] # packet
    BY <1>1 DEF PlaceInv, Queued
  <2>6. \A i, j \in 1..Len(queue') : queue'[i] = queue'[j] => i = j
    BY <1>1, <2>3, <2>5 DEF PlaceInv
  <2>7. 0 \notin Queued' /\ 0 \notin freed /\ 0 \in 0..arrived
    BY <1>1, <2>2, <2>4 DEF PlaceInv, Queued
  <2>8. \A i \in 1..Len(queue') : queue'[i] \in 1..arrived
    BY <1>1, <2>2, <2>3 DEF PlaceInv
  <2>9. /\ freed \cap (Queued' \cup {0}) = {} /\ freed \subseteq 1..arrived
        /\ \A i \in 1..Len(handled) : handled[i] \in 1..arrived
    BY <1>1, <2>4, <2>7 DEF PlaceInv
  <2> QED
    BY <1>2, <2>1, <2>6, <2>7, <2>8, <2>9 DEF PlaceInv
<1>8. CASE PacketLeaves
  <2>1. /\ freed' \in {freed, freed \cup {packet}} /\ packet' = 0
        /\ handled' = handled \/ handled' = Append(handled, packet)
        /\ UNCHANGED <<arrived, queue>>
    BY <1>8 DEF PacketLeaves, PacketDone, networkVars
  <2>2. packet \in Packets /\ packet \in 1..arrived
    BY <1>1, <1>8 DEF PacketLeaves, TurnType, PacketType, PlaceInv
  <2>3. \A i \in 1..Len(handled') : handled'[i] \in 1..arrived
    <3>1. CASE handled' = handled
      BY <1>1, <3>1 DEF PlaceInv
    <3>2. CASE handled' = Append(handled, packet)
      BY <1>1, <2>2, <3>2, Appended DEF PlaceInv, PacketType
    <3> QED
      BY <2>1, <3>1, <3>2
  <2>4. Queued' = Queued /\ 0 \notin Queued /\ 0 \in 0..arrived
    BY <1>1, <2>1 DEF Queued, PlaceInv
  <2>5. freed' \subseteq 1..arrived /\ freed' \cap (Queued' \cup {packet'}) = {}
    BY <1>1, <2>1, <2>2, <2>4 DEF PlaceInv
  <2> QED
    BY <1>1, <1>2, <2>1, <2>3, <2>4, <2>5 DEF PlaceInv
<1>9. CASE SessionLeaves
  <2>1. /\ freed' = freed \cup Queued /\ queue' = <<>>
        /\ UNCHANGED <<arrived, handled, packet>>
    BY <1>9 DEF SessionLeaves, DeleteSession, networkVars, loopVars
  <2>2. Queued' = {} /\ Len(queue') = 0
    BY <2>1 DEF Queued
  <2>3. Queued \subseteq 1..arrived
    BY <1>1 DEF Queued, PlaceInv
  <2> QED
    BY <1>1, <1>2, <2>1, <2>2, <2>3 DEF PlaceInv
<1> QED
  BY <1>3, <1>4, <1>5, <1>6, <1>7, <1>8, <1>9, StepKinds

-----------------------------------------------------------------------------
(* The player and the threads.                                             *)

\* The kinds whose handlers make a player come or go, or load one, are for the
\* world thread.
LEMMA ForWorldThread ==
    ASSUME PlayerInv, TurnType,
           NEW k \in {"enum", "login", "logout", "cancel", "worldport"}, Handle(k)
    PROVE  thread = "world"
<1>1. PacketProcessing(Kind(packet)) = "PROCESS_THREADUNSAFE"
  BY DEF Handle, PacketProcessing
<1> QED
  BY <1>1 DEF Handle, PlayerInv, TurnType

\* Every step keeps PlayerInv.
LEMMA PlayerNext == Inv /\ [Next]_vars => PlayerInv'
<1> SUFFICES ASSUME PlayerInv, TurnType, [Next]_vars PROVE PlayerInv'
  BY DEF Inv
<1> USE DEF PlayerInv, TurnType
<1>1. CASE UNCHANGED <<thread, pc, stream, packet, player, loading, firstDelayed,
                       recentlyLogout, m_Socket>>
           /\ (closing => closing') /\ (login' = "none" <=> login = "none")
  BY <1>1 DEF Kind
<1>2. closing => closing'
  BY ClosingStays
<1>3. CASE Network \/ handle_close \/ KickPlayer \/ SendFails \/ LeaveQueue
           \/ LoginQueryDone \/ UNCHANGED vars
  BY <1>1, <1>2, <1>3 DEF Network, ReceivePacket, NoSession, handle_close_Session,
     QueuePacket, handle_close, KickPlayer, SendFails, LeaveQueue, LoginQueryDone, vars,
     networkVars, lifeVars, turnVars, loopVars, playerVars
<1>4. CASE MapTeleports
  <2>1. /\ pc = "idle" /\ player = "in" /\ login = "none" /\ firstDelayed = 0
        /\ UNCHANGED <<pc, login, firstDelayed, m_Socket>>
    BY <1>4 DEF MapTeleports, Alive, turnVars, loopVars, lifeVars
  <2> QED
    BY <1>2, <2>1
<1>5. CASE MapPasses \/ UpdateReturns
  BY <1>2, <1>5 DEF MapPasses, UpdateReturns, OtherThread, Alive, lifeVars, loopVars,
     playerVars
<1>6. CASE BeginUpdate
  <2>1. /\ pc = "idle" /\ pc' = "loop" /\ (thread = "map" => player = "in")
        /\ UNCHANGED <<thread, player, login, loading, firstDelayed, recentlyLogout,
                       m_Socket>>
    BY <1>6 DEF BeginUpdate, Alive, lifeVars, playerVars
  <2> QED
    BY <1>2, <2>1
<1>7. CASE TakePacket
  <2>1. /\ pc = "loop" /\ pc' = "handle" /\ Process(Kind(Head(queue)))
        /\ packet' = Head(queue)
        /\ UNCHANGED <<stream, thread, player, login, loading, firstDelayed,
                       recentlyLogout, m_Socket>>
    BY <1>7 DEF TakePacket, MorePackets, lifeVars, playerVars, networkVars
  <2>2. thread = "map" => PacketProcessing(Kind(Head(queue))) # "PROCESS_THREADUNSAFE"
    BY <2>1 DEF Process, MapSessionFilter
  <2>3. Kind(packet)' = Kind(Head(queue))
    BY <2>1 DEF Kind
  <2>4. thread' = "map" => PacketProcessing(Kind(packet)') # "PROCESS_THREADUNSAFE"
    BY <2>1, <2>2, <2>3
  <2> QED
    BY <1>2, <2>1, <2>4 DEF PacketProcessing
<1>8. CASE EndLoop
  BY <1>2, <1>8 DEF EndLoop, lifeVars, playerVars
<1>9. CASE DelayPacket
  BY <1>2, <1>9 DEF DelayPacket, TooEarly, lifeVars, playerVars
<1>10. ASSUME NEW k, Handle(k)
       PROVE  /\ pc = "handle" /\ pc' = "loop" /\ UNCHANGED <<thread, firstDelayed, m_Socket>>
              /\ Kind(packet) = k /\ Accepted
  BY <1>10 DEF Handle, PacketDone, lifeVars
<1>11. CASE DropPacket
  BY <1>2, <1>11 DEF DropPacket, PacketDone, lifeVars, playerVars
<1>12. CASE HandleCharEnum
  BY <1>2, <1>10, <1>12 DEF HandleCharEnum
<1>13. CASE HandlePlayerLoginOpcode
  <2>1. thread = "world"
    BY <1>13, ForWorldThread DEF HandlePlayerLoginOpcode
  <2>2. Handle("login") /\ UNCHANGED <<player, recentlyLogout>>
    BY <1>13 DEF HandlePlayerLoginOpcode
  <2>3. login' # "none" => loading' /\ player' = "none"
    BY <1>13 DEF HandlePlayerLoginOpcode, LoginRefused
  <2> QED
    BY <1>2, <1>10, <2>1, <2>2, <2>3
<1>14. CASE HandleInWorld
  <2>1. player = "in" /\ player' # "none" /\ login' = login /\ pc' = "loop"
    BY <1>10, <1>14 DEF HandleInWorld, Accepted, Status, TeleportFar, TeleportNear
  <2> QED
    BY <1>2, <1>10, <1>14, <2>1 DEF HandleInWorld
<1>15. CASE HandleLogoutRequestOpcode
  <2>1. thread = "world" /\ player = "in"
    BY <1>10, <1>15, ForWorldThread DEF HandleLogoutRequestOpcode, Accepted, Status
  <2>2. login' = login /\ Handle("logout")
    BY <1>15 DEF HandleLogoutRequestOpcode, LogoutPlayer
  <2> QED
    BY <1>2, <1>10, <2>1, <2>2
<1>16. CASE HandleLogoutCancelOpcode
  BY <1>2, <1>10, <1>16 DEF HandleLogoutCancelOpcode
<1>17. CASE HandleMoveWorldportAckOpcode
  <2>1. thread = "world" /\ player = "out"
    BY <1>10, <1>17, ForWorldThread DEF HandleMoveWorldportAckOpcode, Accepted, Status
  <2>2. login' = login /\ Handle("worldport")
    BY <1>17 DEF HandleMoveWorldportAckOpcode, LogoutPlayer, playerVars
  <2> QED
    BY <1>2, <1>10, <2>1, <2>2
<1>18. CASE ProcessQueryCallbacks
  <2>1. /\ pc = "callbacks" /\ firstDelayed = 0 /\ pc' = AfterCallbacks
        /\ thread' = IF AfterCallbacks = "idle" THEN OtherThread ELSE thread
        /\ UNCHANGED <<firstDelayed, m_Socket>>
    BY <1>18 DEF ProcessQueryCallbacks, loopVars, lifeVars
  <2>2. pc' \in {"logout", "idle"} /\ (thread' = "map" => pc' = "idle")
    BY <2>1 DEF AfterCallbacks, ProcessLogout, OtherThread
  <2>3. login' # "none" => loading' /\ player' = "none"
    BY <1>18 DEF ProcessQueryCallbacks
  <2> QED
    BY <1>2, <2>1, <2>2, <2>3
<1>19. CASE LogoutIfDue
  <2>1. /\ pc = "logout" /\ pc' = "cleanup" /\ thread = "world" /\ firstDelayed = 0
        /\ UNCHANGED <<thread, firstDelayed, m_Socket>>
    BY <1>19 DEF LogoutIfDue, lifeVars, loopVars
  <2>2. login' # "none" => loading' /\ player' = "none"
    BY <1>19 DEF LogoutIfDue, LogoutPlayer, playerVars
  <2> QED
    BY <1>2, <2>1, <2>2
<1>20. CASE ReplaceSession \/ DropSession
  <2>1. pc \in {"idle", "cleanup"} /\ pc' = "idle" /\ UNCHANGED <<thread, firstDelayed>>
    BY <1>20 DEF ReplaceSession, DropSession, Alive, DeleteSession, loopVars
  <2>2. login' # "none" => loading' /\ player' = "none"
    BY <1>20 DEF ReplaceSession, DropSession, DeleteSession, LogoutPlayer, playerVars
  <2>3. closing'
    BY <1>2, <1>20 DEF ReplaceSession, DropSession, DeleteSession, CloseSocket
  <2> QED
    BY <2>1, <2>2, <2>3
<1> QED
  BY <1>3, <1>4, <1>5, <1>6, <1>7, <1>8, <1>9, <1>11, <1>12, <1>13, <1>14, <1>15,
     <1>16, <1>17, <1>18, <1>19, <1>20 DEF Next, Update, Happens

-----------------------------------------------------------------------------
(* The order of packets.                                                   *)

\* The relations after a step, which may only grow.
NowMayPrecede(a, b) == b < a => b \in delayed' /\ (LoggedIn(a) => a \in late')
NowPutBack(v, u) == (v \in delayed' /\ NowMayPrecede(v, u)) \/ (v \in late' /\ u < v)

\* What may precede another packet, or was put back, stays so.
LEMMA OrderGrows ==
    ASSUME delayed \subseteq delayed', late \subseteq late'
    PROVE  /\ \A a, b : MayPrecede(a, b) => NowMayPrecede(a, b)
           /\ \A v, u : PutBack(v, u) => NowPutBack(v, u)
BY DEF MayPrecede, PutBack, NowMayPrecede, NowPutBack

\* What has to be shown of the queue after a step.
LEMMA QueueOrderAfter ==
    ASSUME stream' = stream, NEW k,
           IF firstDelayed' = 0 THEN k = Len(queue')
           ELSE k < Len(queue') /\ queue'[k + 1] = firstDelayed',
           \A i, j \in 1..Len(queue') : i < j /\ (j <= k \/ k < i) =>
              NowMayPrecede(queue'[i], queue'[j]),
           \A i, j \in 1..Len(queue') : i <= k /\ k < j =>
              NowPutBack(queue'[j], queue'[i]),
           packet' # 0 => \A i \in 1..Len(queue') :
              IF i <= k THEN NowMayPrecede(packet', queue'[i])
                        ELSE NowPutBack(queue'[i], packet'),
           \A h \in 1..Len(handled') : \A i \in 1..Len(queue') :
              NowMayPrecede(handled'[h], queue'[i])
    PROVE  QueueOrder(k)'
BY DEF QueueOrder, MayPrecede, PutBack, NowMayPrecede, NowPutBack, LoggedIn, Kind

\* And of the rest.
LEMMA OrderAfter ==
    ASSUME stream' = stream,
           ~closing' => \E m \in 0..Len(queue') : QueueOrder(m)',
           \A i, j \in 1..Len(handled') : i < j => NowMayPrecede(handled'[i], handled'[j]),
           packet' # 0 => \A h \in 1..Len(handled') : NowMayPrecede(handled'[h], packet'),
           \A n \in delayed' : LoggedIn(n)
    PROVE  OrderInv'
BY DEF OrderInv, MayPrecede, NowMayPrecede, LoggedIn, Kind

\* A packet that comes is behind all others, and the last in the stream.
LEMMA OrderQueuePacket ==
    ASSUME Inv, QueuePacket, closing => closing'
    PROVE  OrderInv'
<1> DEFINE n == arrived + 1
<1>1. /\ queue' = Append(queue, n)
      /\ late' = IF firstDelayed # 0 THEN late \cup {n} ELSE late
      /\ UNCHANGED <<stream, handled, delayed, packet, firstDelayed>>
  BY DEF QueuePacket, loopVars
<1>2. /\ PacketType /\ PlaceInv /\ OrderInv
      /\ Packets = 1..Len(stream) /\ Len(stream) \in Nat /\ arrived \in Nat
  BY StreamsAssumption DEF Inv, PacketType, Packets
<1>3. n \in Packets
  BY <1>2 DEF PlaceInv, QueuePacket
<1>4. /\ Len(queue) \in Nat /\ Len(queue') = Len(queue) + 1
      /\ \A i \in 1..Len(queue) : queue'[i] = queue[i]
      /\ queue'[Len(queue) + 1] = n
      /\ 1..Len(queue') = 1..Len(queue) \cup {Len(queue) + 1}
  BY <1>1, <1>2, <1>3, Appended DEF PacketType
<1>5. \A a \in 0..arrived : a < n /\ ~(n < a)
  BY <1>2
<1> HIDE DEF n
<1>6. /\ \A i \in 1..Len(queue) : queue[i] \in 0..arrived
      /\ \A h \in 1..Len(handled) : handled[h] \in 0..arrived
      /\ packet \in 0..arrived
  BY <1>2 DEF PlaceInv
<1>7. /\ \A a, b : MayPrecede(a, b) => NowMayPrecede(a, b)
      /\ \A v, u : PutBack(v, u) => NowPutBack(v, u)
  BY <1>1, OrderGrows
<1>8. \A a \in 0..arrived : NowMayPrecede(a, n)
  BY <1>5 DEF NowMayPrecede
<1>9. firstDelayed # 0 => \A a \in 0..arrived : NowPutBack(n, a)
  BY <1>1, <1>5 DEF NowPutBack
<1>10. ASSUME ~closing' PROVE \E m \in 0..Len(queue') : QueueOrder(m)'
  <2>1. PICK m \in 0..Len(queue) : QueueOrder(m)
    BY <1>2, <1>10 DEF OrderInv
  <2>2. PICK k \in Nat : k = IF firstDelayed = 0 THEN m + 1 ELSE m
    BY <1>4
  <2>3. k \in 0..Len(queue') /\ (firstDelayed = 0 => m = Len(queue) /\ k = Len(queue) + 1)
        /\ (firstDelayed # 0 => m < Len(queue) /\ k = m /\ queue[m + 1] = firstDelayed)
    BY <1>4, <2>1, <2>2 DEF QueueOrder
  <2>4. IF firstDelayed' = 0 THEN k = Len(queue')
        ELSE k < Len(queue') /\ queue'[k + 1] = firstDelayed'
    BY <1>1, <1>4, <2>3
  <2>5. ASSUME NEW i \in 1..Len(queue'), NEW j \in 1..Len(queue'), i < j,
               j <= k \/ k < i
        PROVE  NowMayPrecede(queue'[i], queue'[j])
    <3>1. CASE j = Len(queue) + 1
      BY <1>4, <1>6, <1>8, <2>5, <3>1
    <3>2. CASE j \in 1..Len(queue)
      <4>1. i \in 1..Len(queue) /\ (j <= m \/ m < i)
        BY <1>4, <2>1, <2>3, <2>5, <3>2
      <4> QED
        BY <1>4, <1>7, <2>1, <2>5, <3>2, <4>1 DEF QueueOrder
    <3> QED
      BY <1>4, <3>1, <3>2
  <2>6. ASSUME NEW i \in 1..Len(queue'), NEW j \in 1..Len(queue'), i <= k, k < j
        PROVE  NowPutBack(queue'[j], queue'[i])
    <3>1. i \in 1..Len(queue) /\ firstDelayed # 0 /\ k = m
      BY <1>4, <2>1, <2>3, <2>6
    <3>2. CASE j = Len(queue) + 1
      BY <1>4, <1>6, <1>9, <3>1, <3>2
    <3>3. CASE j \in 1..Len(queue)
      BY <1>4, <1>7, <2>1, <2>6, <3>1, <3>3 DEF QueueOrder
    <3> QED
      BY <1>4, <3>2, <3>3
  <2>7. ASSUME packet' # 0, NEW i \in 1..Len(queue')
        PROVE  IF i <= k THEN NowMayPrecede(packet', queue'[i])
                         ELSE NowPutBack(queue'[i], packet')
    <3>1. CASE i = Len(queue) + 1
      BY <1>1, <1>4, <1>6, <1>8, <1>9, <2>1, <2>3, <3>1
    <3>2. CASE i \in 1..Len(queue)
      <4>1. i <= k <=> i <= m
        BY <1>4, <2>1, <2>3, <3>2
      <4> QED
        BY <1>1, <1>4, <1>7, <2>1, <2>7, <3>2, <4>1 DEF QueueOrder
    <3> QED
      BY <1>4, <3>1, <3>2
  <2>8. \A h \in 1..Len(handled') : \A i \in 1..Len(queue') :
           NowMayPrecede(handled'[h], queue'[i])
    BY <1>1, <1>4, <1>6, <1>7, <1>8, <2>1 DEF QueueOrder
  <2>9. QueueOrder(k)'
    BY <1>1, <2>4, <2>5, <2>6, <2>7, <2>8, QueueOrderAfter
  <2> QED
    BY <2>3, <2>9
<1> QED
  BY <1>1, <1>2, <1>7, <1>10, OrderAfter DEF OrderInv

\* Update takes the first packet it has not looked at.
LEMMA OrderTakePacket ==
    ASSUME Inv, TakePacket, closing => closing'
    PROVE  OrderInv'
<1>1. /\ queue # <<>> /\ packet' = Head(queue) /\ queue' = Tail(queue)
      /\ pc = "loop" /\ ~closing /\ Head(queue) # firstDelayed
      /\ UNCHANGED <<stream, late, handled, delayed, firstDelayed>>
  BY DEF TakePacket, MorePackets, networkVars
<1>2. PacketType /\ OrderInv
  BY DEF Inv
<1>3. /\ Len(queue) \in Nat \ {0} /\ Len(queue') = Len(queue) - 1
      /\ \A i \in 1..Len(queue') : i + 1 \in 1..Len(queue) /\ queue'[i] = queue[i + 1]
      /\ packet' = queue[1] /\ 1 \in 1..Len(queue)
  BY <1>1, <1>2, Taken DEF PacketType
<1>4. /\ \A a, b : MayPrecede(a, b) => NowMayPrecede(a, b)
      /\ \A v, u : PutBack(v, u) => NowPutBack(v, u)
  BY <1>1, OrderGrows
<1>5. PICK m \in 0..Len(queue) : QueueOrder(m)
  BY <1>1, <1>2 DEF OrderInv
<1>6. m \in 1..Len(queue)
  <2>1. m # 0
    <3>1. queue[1] # firstDelayed /\ 0 + 1 = 1
      BY <1>1, <1>3
    <3>2. m = 0 => firstDelayed # 0 /\ queue[0 + 1] = firstDelayed
      BY <1>3, <1>5 DEF QueueOrder
    <3> QED
      BY <3>1, <3>2
  <2> QED
    BY <1>3, <1>5, <2>1
<1>7. m - 1 \in 0..Len(queue') /\ (m - 1) + 1 = m
  BY <1>3, <1>6
<1>8. IF firstDelayed' = 0 THEN m - 1 = Len(queue')
      ELSE m - 1 < Len(queue') /\ queue'[(m - 1) + 1] = firstDelayed'
  <2>1. CASE firstDelayed = 0
    BY <1>1, <1>3, <1>5, <2>1 DEF QueueOrder
  <2>2. CASE firstDelayed # 0
    <3>1. m < Len(queue) /\ queue[m + 1] = firstDelayed
      BY <1>5, <2>2 DEF QueueOrder
    <3>2. m \in 1..Len(queue')
      BY <1>3, <1>6, <3>1
    <3> QED
      BY <1>1, <1>3, <1>7, <2>2, <3>1, <3>2
  <2> QED
    BY <2>1, <2>2
<1>9. ASSUME NEW i \in 1..Len(queue'), NEW j \in 1..Len(queue'), i < j,
             j <= m - 1 \/ m - 1 < i
      PROVE  NowMayPrecede(queue'[i], queue'[j])
  <2>1. i + 1 < j + 1 /\ (j + 1 <= m \/ m < i + 1)
    BY <1>3, <1>6, <1>9
  <2> QED
    BY <1>3, <1>4, <1>5, <2>1 DEF QueueOrder
<1>10. ASSUME NEW i \in 1..Len(queue'), NEW j \in 1..Len(queue'), i <= m - 1, m - 1 < j
       PROVE  NowPutBack(queue'[j], queue'[i])
  <2>1. i + 1 <= m /\ m < j + 1
    BY <1>3, <1>6, <1>10
  <2> QED
    BY <1>3, <1>4, <1>5, <2>1 DEF QueueOrder
<1>11. ASSUME NEW i \in 1..Len(queue')
       PROVE  IF i <= m - 1 THEN NowMayPrecede(packet', queue'[i])
                            ELSE NowPutBack(queue'[i], packet')
  <2>1. 1 < i + 1 /\ (i <= m - 1 <=> i + 1 <= m) /\ (~(i <= m - 1) <=> m < i + 1)
        /\ 1 <= m
    BY <1>3, <1>6
  <2>2. CASE i <= m - 1
    <3>1. MayPrecede(queue[1], queue[i + 1])
      BY <1>3, <1>5, <2>1, <2>2 DEF QueueOrder
    <3> QED
      BY <1>3, <1>4, <2>2, <3>1
  <2>3. CASE ~(i <= m - 1)
    <3>1. PutBack(queue[i + 1], queue[1])
      BY <1>3, <1>5, <2>1, <2>3 DEF QueueOrder
    <3> QED
      BY <1>3, <1>4, <2>3, <3>1
  <2> QED
    BY <2>2, <2>3
<1>12. \A h \in 1..Len(handled') : \A i \in 1..Len(queue') :
          NowMayPrecede(handled'[h], queue'[i])
  BY <1>1, <1>3, <1>4, <1>5 DEF QueueOrder
<1>13. QueueOrder(m - 1)'
  BY <1>1, <1>8, <1>9, <1>10, <1>11, <1>12, QueueOrderAfter
<1>14. \A h \in 1..Len(handled') : NowMayPrecede(handled'[h], packet')
  BY <1>1, <1>3, <1>4, <1>5 DEF QueueOrder
<1>15. \E k \in 0..Len(queue') : QueueOrder(k)'
  BY <1>7, <1>13
<1> QED
  BY <1>1, <1>2, <1>4, <1>14, <1>15, OrderAfter DEF OrderInv

\* A packet that is put back comes behind those put back before it, and before
\* those Update has still to look at, as it did.
LEMMA OrderDelayPacket ==
    ASSUME Inv, DelayPacket, closing => closing'
    PROVE  OrderInv'
<1>1. /\ queue' = Append(queue, packet) /\ packet' = 0
      /\ firstDelayed' = IF firstDelayed = 0 THEN packet ELSE firstDelayed
      /\ delayed' = delayed \cup {packet}
      /\ pc = "handle" /\ LoggedIn(packet)
      /\ UNCHANGED <<stream, late, handled>>
  BY DEF DelayPacket, TooEarly, LoggedIn, Requeued, FirstDelayed, networkVars
<1>2. /\ PacketType /\ OrderInv /\ packet \in Packets /\ packet # 0
      /\ Packets = 1..Len(stream) /\ Len(stream) \in Nat
  BY <1>1, StreamsAssumption DEF Inv, TurnType, PacketType, Packets
<1>3. /\ Len(queue) \in Nat /\ Len(queue') = Len(queue) + 1
      /\ \A i \in 1..Len(queue) : queue'[i] = queue[i]
      /\ queue'[Len(queue) + 1] = packet
      /\ 1..Len(queue') = 1..Len(queue) \cup {Len(queue) + 1}
  BY <1>1, <1>2, Appended DEF PacketType
<1>4. /\ \A a, b : MayPrecede(a, b) => NowMayPrecede(a, b)
      /\ \A v, u : PutBack(v, u) => NowPutBack(v, u)
  BY <1>1, OrderGrows
<1>5. ASSUME ~closing' PROVE \E m \in 0..Len(queue') : QueueOrder(m)'
  <2>1. PICK m \in 0..Len(queue) : QueueOrder(m)
    BY <1>2, <1>5 DEF OrderInv
  <2>2. m \in 0..Len(queue') /\ m < Len(queue') /\ m \in Nat
    BY <1>3, <2>1
  <2>3. queue'[m + 1] = firstDelayed' /\ firstDelayed' # 0
    BY <1>1, <1>2, <1>3, <2>1 DEF QueueOrder
  <2>4. ASSUME NEW i \in 1..Len(queue'), NEW j \in 1..Len(queue'), i < j,
               j <= m \/ m < i
        PROVE  NowMayPrecede(queue'[i], queue'[j])
    <3>1. i \in 1..Len(queue)
      BY <1>3, <2>4
    <3>2. CASE j \in 1..Len(queue)
      BY <1>3, <1>4, <2>1, <2>4, <3>1, <3>2 DEF QueueOrder
    <3>3. CASE j = Len(queue) + 1
      <4>1. m < i
        BY <1>3, <2>1, <2>4, <3>3
      <4>2. PutBack(queue[i], packet)
        BY <1>2, <2>1, <2>2, <3>1, <4>1 DEF QueueOrder
      <4>3. NowMayPrecede(queue[i], packet)
        BY <1>1, <1>4, <4>2 DEF PutBack, NowMayPrecede
      <4> QED
        BY <1>3, <3>1, <3>3, <4>3
    <3> QED
      BY <1>3, <3>2, <3>3
  <2>5. ASSUME NEW i \in 1..Len(queue'), NEW j \in 1..Len(queue'), i <= m, m < j
        PROVE  NowPutBack(queue'[j], queue'[i])
    <3>1. i \in 1..Len(queue)
      BY <1>3, <2>1, <2>5
    <3>2. CASE j \in 1..Len(queue)
      BY <1>3, <1>4, <2>1, <2>5, <3>1, <3>2 DEF QueueOrder
    <3>3. CASE j = Len(queue) + 1
      <4>1. MayPrecede(packet, queue[i])
        BY <1>2, <2>1, <2>5, <3>1 DEF QueueOrder
      <4>2. NowPutBack(packet, queue[i])
        BY <1>1, <1>4, <4>1 DEF NowPutBack
      <4> QED
        BY <1>3, <3>1, <3>3, <4>2
    <3> QED
      BY <1>3, <3>2, <3>3
  <2>6. \A h \in 1..Len(handled') : \A i \in 1..Len(queue') :
           NowMayPrecede(handled'[h], queue'[i])
    <3>1. \A h \in 1..Len(handled) : MayPrecede(handled[h], packet)
      BY <1>2 DEF OrderInv
    <3> QED
      BY <1>1, <1>3, <1>4, <2>1, <3>1 DEF QueueOrder
  <2>7. QueueOrder(m)'
    BY <1>1, <2>2, <2>3, <2>4, <2>5, <2>6, QueueOrderAfter
  <2> QED
    BY <2>2, <2>7
<1>6. \A n \in delayed' : LoggedIn(n)
  BY <1>1, <1>2 DEF OrderInv
<1> QED
  BY <1>1, <1>2, <1>4, <1>5, <1>6, OrderAfter DEF OrderInv

\* The loop ends when it meets the first packet that was put back, so nothing is
\* left to look at, or because the socket is closed.
LEMMA OrderEndLoop ==
    ASSUME Inv, EndLoop, closing => closing'
    PROVE  OrderInv'
<1>1. /\ ~MorePackets /\ firstDelayed' = 0 /\ pc = "loop"
      /\ UNCHANGED <<stream, late, queue, packet, handled, delayed>>
  BY DEF EndLoop, networkVars, queueVars
<1>2. PacketType /\ TurnType /\ PlaceInv /\ PlayerInv /\ OrderInv /\ packet = 0
  BY <1>1 DEF Inv, TurnType
<1>3. /\ \A a, b : MayPrecede(a, b) => NowMayPrecede(a, b)
      /\ \A v, u : PutBack(v, u) => NowPutBack(v, u)
  BY <1>1, OrderGrows
<1>4. ASSUME ~closing' PROVE \E m \in 0..Len(queue') : QueueOrder(m)'
  <2>1. PICK m \in 0..Len(queue) : QueueOrder(m)
    BY <1>2, <1>4 DEF OrderInv
  <2>2. Len(queue) \in Nat
    BY <1>2 DEF PacketType
  <2>3. m = Len(queue) \/ m = 0
    <3>1. CASE firstDelayed = 0
      BY <2>1, <3>1 DEF QueueOrder
    <3>2. CASE firstDelayed # 0
      <4>1. m < Len(queue) /\ queue[m + 1] = firstDelayed /\ queue # <<>>
        BY <2>1, <3>2 DEF QueueOrder
      <4>2. Process(Kind(Head(queue)))
        BY <1>2, <3>2 DEF PlayerInv, Process, WorldSessionFilter
      <4>3. Head(queue) = firstDelayed
        BY <1>1, <1>2, <1>4, <4>1, <4>2 DEF MorePackets, PlayerInv
      <4>4. m + 1 \in 1..Len(queue) /\ 1 \in 1..Len(queue) /\ Head(queue) = queue[1]
        BY <1>2, <2>1, <2>2, <4>1 DEF PacketType
      <4>5. m + 1 = 1
        BY <1>2, <4>1, <4>3, <4>4 DEF PlaceInv
      <4> QED
        BY <2>1, <4>5
    <3> QED
      BY <3>1, <3>2
  <2>4. \A i, j \in 1..Len(queue) : i < j => MayPrecede(queue[i], queue[j])
    BY <2>1, <2>2, <2>3 DEF QueueOrder
  <2>5. PICK k \in Nat : k = Len(queue)
    BY <2>2
  <2>6. \A i, j \in 1..Len(queue') : i < j => NowMayPrecede(queue'[i], queue'[j])
    BY <1>1, <1>3, <2>4
  <2>7. \A h \in 1..Len(handled') : \A i \in 1..Len(queue') :
           NowMayPrecede(handled'[h], queue'[i])
    BY <1>1, <1>3, <2>1 DEF QueueOrder
  <2>8. QueueOrder(k)'
    BY <1>1, <1>2, <2>5, <2>6, <2>7, QueueOrderAfter
  <2> QED
    BY <1>1, <2>5, <2>8
<1> QED
  BY <1>1, <1>2, <1>3, <1>4, OrderAfter DEF OrderInv

\* While packets are being put back only packets that need no player in the world
\* are handled; otherwise the packet is the first of all that are left.
LEMMA OrderPacketLeaves ==
    ASSUME Inv, PacketLeaves, closing => closing'
    PROVE  OrderInv'
<1>1. /\ pc = "handle" /\ packet' = 0
      /\ handled' = handled \/ (Accepted /\ handled' = Append(handled, packet))
      /\ UNCHANGED <<stream, late, queue, delayed, firstDelayed>>
  BY DEF PacketLeaves, PacketDone, networkVars
<1>2. /\ PacketType /\ PlayerInv /\ OrderInv /\ packet \in Packets /\ packet # 0
      /\ Packets = 1..Len(stream) /\ Len(stream) \in Nat
  BY <1>1, StreamsAssumption DEF Inv, TurnType, PacketType, Packets
<1>3. /\ \A a, b : MayPrecede(a, b) => NowMayPrecede(a, b)
      /\ \A v, u : PutBack(v, u) => NowPutBack(v, u)
  BY <1>1, OrderGrows
<1>4. ASSUME NEW h \in 1..Len(handled')
      PROVE  \/ h \in 1..Len(handled) /\ handled'[h] = handled[h]
             \/ h = Len(handled) + 1 /\ handled'[h] = packet /\ Accepted
  <2>1. CASE handled' = handled
    BY <2>1
  <2>2. CASE Accepted /\ handled' = Append(handled, packet)
    BY <1>2, <2>2, Appended DEF PacketType
  <2> QED
    BY <1>1, <2>1, <2>2
<1>5. ASSUME ~closing' PROVE \E m \in 0..Len(queue') : QueueOrder(m)'
  <2>1. PICK m \in 0..Len(queue) : QueueOrder(m)
    BY <1>2, <1>5 DEF OrderInv
  <2>2. Len(queue) \in Nat /\ \A i \in 1..Len(queue) : queue[i] \in Nat
    BY <1>2 DEF PacketType
  <2>3. ASSUME Accepted, NEW i \in 1..Len(queue) PROVE MayPrecede(packet, queue[i])
    <3>1. CASE i <= m
      BY <1>2, <2>1, <3>1 DEF QueueOrder
    <3>2. CASE m < i
      <4>1. firstDelayed # 0
        BY <2>1, <2>2, <3>2 DEF QueueOrder
      <4>2. ~LoggedIn(packet)
        BY <1>2, <2>3, <4>1 DEF PlayerInv, Accepted, LoggedIn
      <4>3. PutBack(queue[i], packet)
        BY <1>2, <2>1, <2>2, <3>2 DEF QueueOrder
      <4>4. queue[i] \in delayed \/ packet < queue[i]
        BY <4>3 DEF PutBack
      <4> QED
        BY <1>2, <2>2, <4>2, <4>4 DEF MayPrecede
    <3> QED
      BY <2>1, <2>2, <3>1, <3>2
  <2>4. ASSUME NEW h \in 1..Len(handled'), NEW i \in 1..Len(queue')
        PROVE  NowMayPrecede(handled'[h], queue'[i])
    BY <1>1, <1>3, <1>4, <2>1, <2>3 DEF QueueOrder
  <2>5. IF firstDelayed' = 0 THEN m = Len(queue')
        ELSE m < Len(queue') /\ queue'[m + 1] = firstDelayed'
    BY <1>1, <2>1 DEF QueueOrder
  <2>6. \A i, j \in 1..Len(queue') : i < j /\ (j <= m \/ m < i) =>
           NowMayPrecede(queue'[i], queue'[j])
    BY <1>1, <1>3, <2>1 DEF QueueOrder
  <2>7. \A i, j \in 1..Len(queue') : i <= m /\ m < j => NowPutBack(queue'[j], queue'[i])
    BY <1>1, <1>3, <2>1 DEF QueueOrder
  <2>8. QueueOrder(m)'
    BY <1>1, <2>4, <2>5, <2>6, <2>7, QueueOrderAfter
  <2> QED
    BY <1>1, <2>8
<1>6. ASSUME NEW i \in 1..Len(handled'), NEW j \in 1..Len(handled'), i < j
      PROVE  NowMayPrecede(handled'[i], handled'[j])
  <2>1. i \in 1..Len(handled) /\ handled'[i] = handled[i]
    <3>1. Len(handled) \in Nat /\ (j \in 1..Len(handled) \/ j = Len(handled) + 1)
      BY <1>2, <1>4 DEF PacketType
    <3>2. i # Len(handled) + 1
      BY <1>6, <3>1
    <3> QED
      BY <1>4, <3>2
  <2>2. CASE j \in 1..Len(handled) /\ handled'[j] = handled[j]
    BY <1>2, <1>3, <1>6, <2>1, <2>2 DEF OrderInv
  <2>3. CASE handled'[j] = packet
    BY <1>2, <1>3, <2>1, <2>3 DEF OrderInv
  <2> QED
    BY <1>4, <2>2, <2>3
<1> QED
  BY <1>1, <1>2, <1>5, <1>6, OrderAfter DEF OrderInv

\* Every step keeps OrderInv.
LEMMA OrderNext == Inv /\ [Next]_vars => OrderInv'
<1> SUFFICES ASSUME Inv, [Next]_vars PROVE OrderInv'
  OBVIOUS
<1>1. closing => closing'
  BY ClosingStays
<1>2. CASE UNCHANGED packetVars
  <2>1. \A m : QueueOrder(m) <=> QueueOrder(m)'
    <3>1. \A a, b : MayPrecede(a, b) <=> MayPrecede(a, b)'
      BY <1>2 DEF packetVars, MayPrecede, LoggedIn, Kind
    <3>2. \A v, u : PutBack(v, u) <=> PutBack(v, u)'
      BY <1>2, <3>1 DEF packetVars, PutBack
    <3> QED
      BY <1>2, <3>1, <3>2 DEF packetVars, QueueOrder
  <2>2. ~closing' => \E m \in 0..Len(queue') : QueueOrder(m)'
    BY <1>1, <1>2, <2>1 DEF Inv, OrderInv, packetVars
  <2> QED
    BY <1>2, <2>2 DEF Inv, OrderInv, packetVars, MayPrecede, LoggedIn, Kind
<1>3. CASE SessionLeaves
  <2>1. /\ queue' = <<>> /\ packet = 0 /\ firstDelayed = 0
        /\ UNCHANGED <<stream, late, handled, delayed, packet, firstDelayed>>
    BY <1>3 DEF Inv, TurnType, PlayerInv, SessionLeaves, DeleteSession, networkVars, loopVars
  <2>2. Len(queue') = 0 /\ 1..Len(queue') = {} /\ 0 \in 0..Len(queue')
    BY <2>1
  <2>3. QueueOrder(0)'
    BY <2>1, <2>2, QueueOrderAfter
  <2>4. \E m \in 0..Len(queue') : QueueOrder(m)'
    BY <2>2, <2>3
  <2> QED
    BY <2>1, <2>4 DEF Inv, OrderInv, MayPrecede, LoggedIn, Kind
<1> QED
  BY <1>1, <1>2, <1>3, StepKinds, OrderQueuePacket, OrderTakePacket, OrderDelayPacket,
     OrderEndLoop, OrderPacketLeaves

-----------------------------------------------------------------------------
\* The invariant holds in every state of a session (WorldSession::Update).
THEOREM Invariance == Spec => []Inv
<1>1. Inv /\ [Next]_vars => Inv'
  BY PacketTypeNext, TurnTypeNext, PlaceNext, PlayerNext, OrderNext DEF Inv
<1> QED
  BY <1>1, InvInit, PTL DEF Spec

\* Whatever a client sends, no packet that is queued or being handled has been
\* deleted, although one flag tells Update what to delete for the rest of its loop
\* (deletePacket in WorldSession::Update).
THEOREM PacketsValid == Spec => []NoDanglingPacket
<1>1. Inv => NoDanglingPacket
  BY DEF Inv, PlaceInv, NoDanglingPacket
<1> QED
  BY <1>1, Invariance, PTL

\* Packets are handled in order, but that one that was put back is overtaken by
\* those that need no player in the world and by those that came while packets were
\* being put back (firstDelayedPacket in WorldSession::Update).
THEOREM HandledInOrder == Spec => []OrderKept
<1>1. Inv => OrderKept
  BY DEF Inv, OrderInv, MayPrecede, OrderKept
<1> QED
  BY <1>1, Invariance, PTL

\* A player comes into a session or leaves it only in the world thread.
LEMMA PlayerSteps ==
    ASSUME Inv, [Next]_vars, ~(player = "none" <=> player' = "none")
    PROVE  thread = "world"
<1>1. PlayerInv /\ TurnType
  BY DEF Inv
<1> USE DEF playerVars
<1>2. CASE Network \/ handle_close \/ KickPlayer \/ SendFails \/ LeaveQueue
           \/ LoginQueryDone \/ UNCHANGED vars
  BY <1>2 DEF Network, ReceivePacket, NoSession, handle_close_Session,
     QueuePacket, handle_close, KickPlayer, SendFails, LeaveQueue, LoginQueryDone, vars
<1>3. CASE MapTeleports
  BY <1>3 DEF MapTeleports, TeleportFar, TeleportNear
<1>4. CASE MapPasses \/ UpdateReturns \/ BeginUpdate \/ TakePacket \/ EndLoop
           \/ DelayPacket \/ DropPacket
  BY <1>4 DEF MapPasses, UpdateReturns, BeginUpdate, TakePacket, EndLoop, DelayPacket,
     DropPacket
<1>5. CASE HandleInWorld
  <2>1. player = "in" /\ player' # "none"
    BY <1>5 DEF HandleInWorld, Handle, Accepted, Status, TeleportFar, TeleportNear
  <2> QED
    BY <2>1
<1>6. CASE HandleCharEnum \/ HandlePlayerLoginOpcode \/ HandleLogoutRequestOpcode
           \/ HandleLogoutCancelOpcode \/ HandleMoveWorldportAckOpcode
  BY <1>1, <1>6, ForWorldThread DEF HandleCharEnum, HandlePlayerLoginOpcode,
     HandleLogoutRequestOpcode, HandleLogoutCancelOpcode, HandleMoveWorldportAckOpcode
<1>7. CASE ProcessQueryCallbacks
  <2>1. login = "ready" /\ pc = "callbacks"
    BY <1>7 DEF ProcessQueryCallbacks
  <2> QED
    BY <1>1, <2>1 DEF PlayerInv, TurnType
<1>8. CASE LogoutIfDue \/ DropSession
  BY <1>1, <1>8 DEF LogoutIfDue, DropSession, PlayerInv, TurnType
<1>9. CASE ReplaceSession
  BY <1>9 DEF ReplaceSession
<1> QED
  BY <1>2, <1>3, <1>4, <1>5, <1>6, <1>7, <1>8, <1>9 DEF Next, Update, Happens

\* The player of a session comes and goes in the world thread alone, although the
\* map thread updates the session too ("logout procedure should happen only in
\* World::UpdateSessions() method!!!" in WorldSession::Update), and the answer of a
\* login query never replaces one.
THEOREM PlayerSafe == Spec => PlayerChangesInWorldThread
<1>1. Inv /\ [Next]_vars =>
         [(player = "none") # (player' = "none") => thread = "world"]_vars
  BY PlayerSteps
<1>2. Inv => (login = "ready" => player = "none")
  BY DEF Inv, PlayerInv
<1>3. Inv /\ [Next]_vars =>
         [/\ (player = "none") # (player' = "none") => thread = "world"
          /\ login = "ready" /\ login' = "none" /\ player' # "none" => player = "none"]_vars
  BY <1>1, <1>2
<1> QED
  BY <1>3, Invariance, PTL DEF Spec, PlayerChangesInWorldThread
=============================================================================
