--------------------------- MODULE SessionPackets ---------------------------
(***************************************************************************)
(* One WorldSession and its WorldSocket.  The network thread puts packets   *)
(* into _recvQueue; WorldSession::Update takes them out, called in turn by  *)
(* the world thread (World::UpdateSessions) and by the map thread that      *)
(* updates the player's map (Map::Update), which do not overlap: module     *)
(* MapUpdater.  Packets that come before the player is in the world are put *)
(* back; the player logs in through a database callback, moves between maps *)
(* and logs out; the socket may close under all of this.                    *)
(***************************************************************************)
EXTENDS Naturals, Sequences

CONSTANTS
    Streams,    \* what clients send: a set of sequences of kinds
    MaxPackets  \* bound: the longest of them

(* The kinds of opcodes, by SessionStatus and PacketProcessing, with those  *)
(* whose handlers change the session set apart.                             *)
Kinds == {"enum", "login", "safe", "unsafe", "logout", "cancel", "worldport",
          "unhandled"}

Status(k) ==
    CASE k \in {"enum", "login"} -> "STATUS_AUTHED"
      [] k \in {"safe", "unsafe", "logout"} -> "STATUS_LOGGEDIN"
      [] k = "cancel" -> "STATUS_LOGGEDIN_OR_RECENTLY_LOGGOUT"
      [] k = "worldport" -> "STATUS_TRANSFER"
      [] k = "unhandled" -> "STATUS_UNHANDLED"

PacketProcessing(k) ==
    CASE k = "safe" -> "PROCESS_THREADSAFE"
      [] k = "unhandled" -> "PROCESS_INPLACE"
      [] OTHER -> "PROCESS_THREADUNSAFE"

ASSUME StreamsAssumption ==
    /\ MaxPackets \in Nat
    /\ \A s \in Streams : s \in Seq(Kinds) /\ Len(s) <= MaxPackets

VARIABLES
    stream,         \* what this client sends; packet n is stream[n]
    arrived,        \* packets the network thread has queued
    net,            \* where the network thread is
    closing,        \* WorldSocket::closing_
    socketSession,  \* WorldSocket::m_Session is not NULL
    m_Socket,       \* WorldSession::m_Socket is not NULL
    deleted,        \* the session was deleted
    queue,          \* _recvQueue
    thread,         \* the thread whose turn it is to update the session
    pc,             \* where it is in WorldSession::Update
    packet,         \* the packet it has taken (0: none)
    firstDelayed,   \* firstDelayedPacket (0: NULL)
    deletePacket,   \* the local flag of Update
    player,         \* _player: none, in the world, or out of it
    far,            \* mSemaphoreTeleport_Far
    loading,        \* m_playerLoading
    login,          \* _charLoginCallback: none, pending or ready
    recentlyLogout, \* m_playerRecentlyLogout
    logoutTime,     \* _logoutTime is set
    inQueue,        \* m_inQueue
    freed,          \* packets deleted
    handled,        \* packets whose handler ran, in order
    delayed, late   \* packets put back; packets that came while others were

networkVars == <<stream, arrived, net, late>>
socketVars == <<closing, socketSession>>
lifeVars == <<m_Socket, deleted>>
queueVars == <<queue, freed, handled, delayed>>
turnVars == <<thread, pc>>
loopVars == <<packet, firstDelayed, deletePacket>>
playerVars == <<player, far, loading, login, recentlyLogout, logoutTime>>
vars == <<networkVars, socketVars, lifeVars, queueVars, turnVars, loopVars, playerVars,
          inQueue>>

Packets == 1..Len(stream)
Kind(n) == stream[n]
Queued == {queue[i] : i \in 1..Len(queue)}

TypeOK ==
    /\ stream \in Streams
    /\ arrived \in 0..Len(stream)
    /\ net \in {"idle", "checked", "closing", "done"}
    /\ closing \in BOOLEAN /\ socketSession \in BOOLEAN
    /\ m_Socket \in BOOLEAN /\ deleted \in BOOLEAN
    /\ queue \in Seq(Packets)
    /\ thread \in {"world", "map"}
    /\ pc \in {"idle", "loop", "handle", "callbacks", "logout", "cleanup"}
    /\ packet \in 0..Len(stream) /\ firstDelayed \in 0..Len(stream)
    /\ (packet # 0) <=> (pc = "handle")
    /\ deletePacket \in BOOLEAN
    /\ player \in {"none", "in", "out"}
    /\ far \in BOOLEAN /\ loading \in BOOLEAN
    /\ login \in {"none", "pending", "ready"}
    /\ recentlyLogout \in BOOLEAN /\ logoutTime \in BOOLEAN /\ inQueue \in BOOLEAN
    /\ freed \subseteq Packets /\ delayed \subseteq Packets /\ late \subseteq Packets
    /\ handled \in Seq(Packets)

\* HandleAuthSession created the session and AddSession_ put it into the list,
\* with or without room for it.
Init ==
    /\ stream \in Streams
    /\ arrived = 0
    /\ net = "idle"
    /\ closing = FALSE /\ socketSession = TRUE
    /\ m_Socket = TRUE /\ deleted = FALSE
    /\ queue = <<>>
    /\ thread = "world" /\ pc = "idle"
    /\ packet = 0 /\ firstDelayed = 0 /\ deletePacket = TRUE
    /\ player = "none" /\ far = FALSE
    /\ loading = FALSE /\ login = "none"
    /\ recentlyLogout = FALSE /\ logoutTime = FALSE
    /\ inQueue \in BOOLEAN
    /\ freed = {} /\ delayed = {} /\ late = {}
    /\ handled = <<>>

-----------------------------------------------------------------------------
(* The network thread of the socket.                                       *)

\* ProcessIncoming finds the socket open ...
ReceivePacket ==
    /\ net = "idle"
    /\ ~closing
    /\ arrived < Len(stream)
    /\ net' = "checked"
    /\ UNCHANGED <<stream, arrived, late, socketVars, lifeVars, queueVars, turnVars,
                   loopVars, playerVars, inQueue>>

\* ... and, holding m_SessionLock, gives the packet to the session,
QueuePacket ==
    /\ net = "checked"
    /\ socketSession
    /\ arrived' = arrived + 1
    /\ queue' = Append(queue, arrived + 1)
    /\ late' = IF firstDelayed # 0 THEN late \cup {arrived + 1} ELSE late
    /\ net' = "idle"
    /\ UNCHANGED <<stream, socketVars, lifeVars, freed, handled, delayed, turnVars,
                   loopVars, playerVars, inQueue>>

\* or finds it gone, and gives up.
NoSession ==
    /\ net = "checked"
    /\ ~socketSession
    /\ net' = "idle"
    /\ UNCHANGED <<stream, arrived, late, socketVars, lifeVars, queueVars, turnVars,
                   loopVars, playerVars, inQueue>>

\* handle_close: the peer has gone, or the socket was closed.  Two critical
\* sections: closing_ first,
handle_close ==
    /\ net = "idle"
    /\ net' = "closing"
    /\ closing' = TRUE
    /\ UNCHANGED <<stream, arrived, late, socketSession, lifeVars, queueVars,
                   turnVars, loopVars, playerVars, inQueue>>

\* then m_Session.
handle_close_Session ==
    /\ net = "closing"
    /\ net' = "done"
    /\ socketSession' = FALSE
    /\ UNCHANGED <<stream, arrived, late, closing, lifeVars, queueVars, turnVars,
                   loopVars, playerVars, inQueue>>

-----------------------------------------------------------------------------
(* What the threads that update the session do to it.                       *)

\* WorldSocket::CloseSocket; the network thread can tell its two critical
\* sections apart only by QueuePacket, which would as well have come before.
CloseSocket ==
    /\ closing' = TRUE
    /\ socketSession' = IF closing THEN socketSession ELSE FALSE

SocketStays == UNCHANGED socketVars

\* LogoutPlayer, with the transfers it finishes first (and again before it saves
\* the player), whose destination may be invalid: HandleMoveWorldportAckOpcode
\* then calls it once more.
LogoutPlayer ==
    /\ player' = "none"
    /\ far' = FALSE
    /\ recentlyLogout' = TRUE
    /\ logoutTime' = FALSE
    /\ UNCHANGED <<loading, login>>

\* ~WorldSession; World drops the session from its list.
DeleteSession ==
    /\ deleted' = TRUE
    /\ IF player # "none" THEN LogoutPlayer ELSE UNCHANGED playerVars
    /\ m_Socket' = FALSE
    /\ IF m_Socket THEN CloseSocket ELSE SocketStays
    /\ freed' = freed \cup Queued
    /\ queue' = <<>>
    /\ pc' = "idle"

-----------------------------------------------------------------------------
(* Between two updates.                                                    *)

Alive == ~deleted /\ pc = "idle"

\* KickPlayer, from a command or another handler of the world thread.
KickPlayer ==
    /\ Alive /\ thread = "world"
    /\ ~closing
    /\ CloseSocket
    /\ UNCHANGED <<networkVars, lifeVars, queueVars, turnVars, loopVars, playerVars,
                   inQueue>>

\* A new session of the account replaces this one (AddSession_, RemoveSession).
ReplaceSession ==
    /\ Alive /\ thread = "world"
    /\ ~loading
    /\ DeleteSession
    /\ UNCHANGED <<networkVars, handled, delayed, thread, loopVars, inQueue>>

\* Its turn in the login queue has come (module LoginQueue).
LeaveQueue ==
    /\ Alive /\ thread = "world"
    /\ inQueue
    /\ inQueue' = FALSE
    /\ UNCHANGED <<networkVars, socketVars, lifeVars, queueVars, turnVars, loopVars,
                   playerVars>>

\* A worker has the result of the login query (module DatabaseWorkerPool).
LoginQueryDone ==
    /\ ~deleted
    /\ login = "pending"
    /\ login' = "ready"
    /\ UNCHANGED <<networkVars, socketVars, lifeVars, queueVars, turnVars, loopVars,
                   player, far, loading, recentlyLogout, logoutTime,
                   inQueue>>

\* TeleportTo another map, or within the map, which cancels the former.
TeleportFar == player' = "out" /\ far' = TRUE
TeleportNear == far' = FALSE /\ UNCHANGED player

\* The update of the player's map teleports it.  From within Unit::Update a
\* teleport is delayed, and a dead player stays where it is meanwhile.
MapTeleports ==
    /\ Alive /\ thread = "map"
    /\ player = "in"
    /\ TeleportFar \/ TeleportNear \/ (far' = TRUE /\ UNCHANGED player)
    /\ UNCHANGED <<networkVars, socketVars, lifeVars, queueVars, turnVars, loopVars,
                   loading, login, recentlyLogout, logoutTime, inQueue>>

\* Map::Update passes by players that are not in the world.
MapPasses ==
    /\ Alive /\ thread = "map"
    /\ player # "in"
    /\ thread' = "world"
    /\ UNCHANGED <<networkVars, socketVars, lifeVars, queueVars, pc, loopVars,
                   playerVars, inQueue>>

-----------------------------------------------------------------------------
(* WorldSession::Update(diff, updater).                                     *)

\* Mutant: MapSessionFilter::Process without its test for thread-unsafe packets.
MapSessionFilter_Unsafe(k) == PacketProcessing(k) = "PROCESS_INPLACE" \/ player = "in"
\* An in-place packet, or a thread-safe one of a player in the world.
MapSessionFilter(k) ==
    \/ PacketProcessing(k) = "PROCESS_INPLACE"
    \/ PacketProcessing(k) # "PROCESS_THREADUNSAFE" /\ player = "in"

\* Mutant: thread-safe packets are left to the map thread even out of the world.
WorldSessionFilter_Strict(k) == PacketProcessing(k) # "PROCESS_THREADSAFE"
\* All but the thread-safe packets of a player in the world.
WorldSessionFilter(k) ==
    PacketProcessing(k) # "PROCESS_THREADSAFE" \/ player # "in"

Process(k) == IF thread = "map" THEN MapSessionFilter(k) ELSE WorldSessionFilter(k)

\* The session's turn: the timeout may have passed.
BeginUpdate ==
    /\ Alive
    /\ thread = "map" => player = "in"
    /\ pc' = "loop"
    /\ deletePacket' = TRUE
    /\ \E idle \in BOOLEAN : IF idle /\ ~inQueue THEN CloseSocket ELSE SocketStays
    /\ UNCHANGED <<networkVars, lifeVars, queueVars, thread, packet, firstDelayed,
                   playerVars, inQueue>>

\* Mutant: the loop ends as soon as a packet was put back.
MorePackets_Break ==
    /\ m_Socket /\ ~closing
    /\ queue # <<>>
    /\ firstDelayed = 0
    /\ Process(Kind(Head(queue)))

\* The conditions of the loop.
MorePackets ==
    /\ m_Socket /\ ~closing
    /\ queue # <<>>
    /\ Head(queue) # firstDelayed
    /\ Process(Kind(Head(queue)))

TakePacket ==
    /\ pc = "loop"
    /\ MorePackets
    /\ pc' = "handle"
    /\ packet' = Head(queue)
    /\ queue' = Tail(queue)
    /\ UNCHANGED <<networkVars, socketVars, lifeVars, freed, handled, delayed,
                   thread, firstDelayed, deletePacket, playerVars, inQueue>>

EndLoop ==
    /\ pc = "loop"
    /\ ~MorePackets
    /\ pc' = "callbacks"
    /\ firstDelayed' = 0
    /\ UNCHANGED <<networkVars, socketVars, lifeVars, queueVars, thread, packet,
                   deletePacket, playerVars, inQueue>>

\* Too early: the packet goes back to the end of the queue.
TooEarly ==
    /\ Status(Kind(packet)) = "STATUS_LOGGEDIN"
    /\ player = "none"
    /\ ~recentlyLogout

\* The first packet put back stops the loop.
FirstDelayed == IF firstDelayed = 0 THEN packet ELSE firstDelayed

\* Mutant: the packet that was put back is deleted.
DeleteFlag_Kept == deletePacket
\* A packet that was put back is not deleted.
DeleteFlag == FALSE

\* QueuePacket in the branch.
Requeued == Append(queue, packet)

DelayPacket ==
    /\ pc = "handle"
    /\ TooEarly
    /\ firstDelayed' = FirstDelayed
    /\ deletePacket' = DeleteFlag
    /\ queue' = Requeued
    /\ delayed' = delayed \cup {packet}
    /\ freed' = IF deletePacket' THEN freed \cup {packet} ELSE freed
    /\ packet' = 0
    /\ pc' = "loop"
    /\ UNCHANGED <<networkVars, socketVars, lifeVars, handled, thread, playerVars,
                   inQueue>>

\* The handler of the packet is called.
Accepted ==
    CASE Status(Kind(packet)) = "STATUS_LOGGEDIN" -> player = "in"
      [] Status(Kind(packet)) = "STATUS_LOGGEDIN_OR_RECENTLY_LOGGOUT" ->
             player # "none" \/ recentlyLogout
      [] Status(Kind(packet)) = "STATUS_TRANSFER" -> player = "out"
      [] Status(Kind(packet)) = "STATUS_AUTHED" -> ~inQueue
      [] OTHER -> FALSE

\* The end of the body of the loop.
PacketDone ==
    /\ freed' = IF deletePacket THEN freed \cup {packet} ELSE freed
    /\ packet' = 0
    /\ pc' = "loop"
    /\ UNCHANGED <<networkVars, lifeVars, queue, delayed, thread, firstDelayed,
                   deletePacket, inQueue>>

\* A packet at the wrong time is logged and dropped.
DropPacket ==
    /\ pc = "handle"
    /\ ~TooEarly /\ ~Accepted
    /\ PacketDone /\ SocketStays
    /\ UNCHANGED <<playerVars, handled>>

Handle(k) ==
    /\ pc = "handle"
    /\ Kind(packet) = k
    /\ Accepted
    /\ handled' = Append(handled, packet)
    /\ PacketDone

\* CMSG_CHAR_ENUM: "we are surely no longer during the logout process".
HandleCharEnum ==
    /\ Handle("enum") /\ SocketStays
    /\ recentlyLogout' = FALSE
    /\ UNCHANGED <<player, far, loading, login, logoutTime>>

\* The session already has, or is loading, a player.
LoginRefused == loading \/ player # "none"

\* The packet is too short (ByteBufferException), the character is not one of the
\* account, its queries cannot be prepared, or they are on their way.
HandlePlayerLoginOpcode ==
    /\ Handle("login")
    /\ \/ /\ LoginRefused
          /\ SocketStays /\ UNCHANGED <<loading, login>>
       \/ /\ ~LoginRefused
          /\ loading' = TRUE
          /\ SocketStays \/ CloseSocket
          /\ UNCHANGED login
       \/ /\ ~LoginRefused
          /\ SocketStays /\ UNCHANGED <<loading, login>>
       \/ /\ ~LoginRefused
          /\ loading' = TRUE /\ login' = "pending"
          /\ SocketStays
    /\ UNCHANGED <<player, far, recentlyLogout, logoutTime>>

\* Any other packet of a player in the world; its handler may teleport.
HandleInWorld ==
    /\ Handle("safe") \/ Handle("unsafe")
    /\ SocketStays
    /\ TeleportFar \/ TeleportNear \/ UNCHANGED <<player, far>>
    /\ UNCHANGED <<loading, login, recentlyLogout, logoutTime>>

\* Refused, done at once, or to be done in 20 seconds.
HandleLogoutRequestOpcode ==
    /\ Handle("logout") /\ SocketStays
    /\ \/ /\ logoutTime' \in BOOLEAN
          /\ UNCHANGED <<player, far, loading, login, recentlyLogout>>
       \/ LogoutPlayer

HandleLogoutCancelOpcode ==
    /\ Handle("cancel") /\ SocketStays
    /\ logoutTime' = IF player # "none" THEN FALSE ELSE logoutTime
    /\ UNCHANGED <<player, far, loading, login, recentlyLogout>>

\* MSG_MOVE_WORLDPORT_ACK: the transfer ends in the new map, or at an invalid
\* place, or goes on to the homebind, unless TeleportTo refuses that.
HandleMoveWorldportAckOpcode ==
    /\ Handle("worldport") /\ SocketStays
    /\ \/ /\ ~far /\ UNCHANGED playerVars
       \/ /\ far /\ LogoutPlayer
       \/ /\ far
          /\ \/ player' = "in" /\ far' = FALSE
             \/ player' = "out" /\ far' \in BOOLEAN
          /\ UNCHANGED <<loading, login, recentlyLogout, logoutTime>>

\* Whatever this or another thread's update sends to the client may find its
\* buffer full: SendPacket closes the socket.
SendFails ==
    /\ ~deleted
    /\ ~closing
    /\ CloseSocket
    /\ UNCHANGED <<networkVars, lifeVars, queueVars, turnVars, loopVars, playerVars,
                   inQueue>>

\* MapSessionFilter::ProcessLogout is FALSE: the rest is for the world thread.
ProcessLogout == thread = "world"

AfterCallbacks == IF ProcessLogout THEN "logout" ELSE "idle"
OtherThread == IF thread = "world" THEN "map" ELSE "world"

\* ProcessQueryCallbacks, HandlePlayerLogin: the character cannot be loaded, or
\* is in the world, or cannot enter its map and is teleported out.
ProcessQueryCallbacks ==
    /\ pc = "callbacks"
    /\ pc' = AfterCallbacks
    /\ thread' = IF AfterCallbacks = "idle" THEN OtherThread ELSE thread
    /\ IF login = "ready"
       THEN /\ login' = "none" /\ loading' = FALSE
            /\ \/ CloseSocket /\ UNCHANGED <<player, far>>
               \/ SocketStays /\ player' = "in" /\ far' = FALSE
               \/ SocketStays /\ player' = "out" /\ far' \in BOOLEAN
       ELSE SocketStays /\ UNCHANGED <<login, loading, player, far>>
    /\ UNCHANGED <<networkVars, lifeVars, queueVars, loopVars, recentlyLogout,
                   logoutTime, inQueue>>

\* The 20 seconds may have passed.
LogoutIfDue ==
    /\ pc = "logout"
    /\ pc' = "cleanup"
    /\ \/ UNCHANGED playerVars
       \/ /\ logoutTime /\ ~loading
          /\ LogoutPlayer
    /\ UNCHANGED <<networkVars, socketVars, lifeVars, queueVars, thread, loopVars,
                   inQueue>>

\* Mutant: a closed session stays until its player is loaded.
Removable_NotLoading == closing /\ ~loading
\* The socket is closed.
Removable == closing

\* Update returns true: on to the maps.
UpdateReturns ==
    /\ pc = "cleanup"
    /\ ~Removable
    /\ pc' = "idle"
    /\ thread' = OtherThread
    /\ UNCHANGED <<networkVars, socketVars, lifeVars, queueVars, loopVars,
                   playerVars, inQueue>>

\* Update returns false: UpdateSessions deletes the session.
DropSession ==
    /\ pc = "cleanup"
    /\ Removable
    /\ DeleteSession
    /\ UNCHANGED <<networkVars, handled, delayed, thread, loopVars, inQueue>>

-----------------------------------------------------------------------------

Network == ReceivePacket \/ QueuePacket \/ NoSession \/ handle_close_Session

\* The steps of Update, and of the tick around it.
Update ==
    \/ BeginUpdate \/ MapPasses \/ TakePacket \/ EndLoop
    \/ DelayPacket \/ DropPacket
    \/ HandleCharEnum \/ HandlePlayerLoginOpcode \/ HandleInWorld
    \/ HandleLogoutRequestOpcode \/ HandleLogoutCancelOpcode
    \/ HandleMoveWorldportAckOpcode
    \/ ProcessQueryCallbacks \/ LogoutIfDue \/ UpdateReturns \/ DropSession

\* What may happen to a session and need not.
Happens ==
    \/ handle_close \/ KickPlayer \/ ReplaceSession \/ SendFails
    \/ LeaveQueue \/ MapTeleports

Next ==
    \/ Network \/ Update \/ Happens \/ LoginQueryDone
    \/ deleted /\ net = "done" /\ UNCHANGED vars

Spec == Init /\ [][Next]_vars

(* The world thread ticks, each tick updates the maps, the network thread    *)
(* gets out of its critical sections and the database answers.               *)
Fairness == WF_vars(Update) /\ WF_vars(Network) /\ WF_vars(LoginQueryDone)

FairSpec == Spec /\ Fairness

-----------------------------------------------------------------------------
(* Correctness.                                                            *)

LoggedIn(n) == Status(Kind(n)) = "STATUS_LOGGEDIN"

\* Packets are handled in the order in which they came.  Only a packet that was
\* put back is overtaken, and only by one that needs no player in the world or
\* that came while Update was putting packets back (WorldSession::Update).
OrderKept ==
    \A i, j \in 1..Len(handled) : i < j /\ handled[j] < handled[i] =>
        /\ handled[j] \in delayed
        /\ LoggedIn(handled[i]) => handled[i] \in late

\* No packet that is queued, or in the hands of Update, has been deleted
\* (deletePacket, QueuePacket in WorldSession::Update).
NoDanglingPacket == freed \cap (Queued \cup {packet}) = {}

\* The player of a session comes and goes in the world thread alone ("logout
\* procedure should happen only in World::UpdateSessions() method!!!"), and the
\* answer of a login query, however late, never replaces one (PlayerLoading).
PlayerChangesInWorldThread ==
    [][/\ (player = "none") # (player' = "none") => thread = "world"
       /\ login = "ready" /\ login' = "none" /\ player' # "none" => player = "none"]_vars

\* Every packet is taken from the queue, however the map and the world thread
\* have to take turns for it and whatever packets come too early ("To prevent
\* infinite loop"); a packet for a player in the world waits for one.
PacketsTaken ==
    \A n \in 1..MaxPackets :
        n \in Queued ~> (n \notin Queued \/ (player = "none" /\ LoggedIn(n)))

\* A session whose socket was closed is removed, even while a player is being
\* loaded for it (WorldSession::Update, World::UpdateSessions).
SessionRemoved == closing ~> deleted
=============================================================================
