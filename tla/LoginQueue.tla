----------------------------- MODULE LoginQueue -----------------------------
(***************************************************************************)
(* World's session list and its login queue.  Network threads authenticate  *)
(* clients and leave new sessions in addSessQueue; the world thread takes   *)
(* them into m_sessions (AddSession_), replacing an older session of the    *)
(* account, and lets them in or appends them to m_QueuedPlayer; sessions    *)
(* whose socket has closed are removed by UpdateSessions, which lets the    *)
(* first in the queue in.                                                   *)
(*                                                                         *)
(* WorldSession::m_inQueue is set and cleared together with m_QueuedPlayer  *)
(* and is not kept apart.                                                   *)
(***************************************************************************)
EXTENDS Integers, Sequences, FiniteSets, SequencesExt

CONSTANTS
    Accounts,
    Copies,         \* tells the session objects of an account apart
    SkipQueue,      \* accounts with RBAC_PERM_SKIP_QUEUE
    Limits,         \* values m_playerLimit takes; 0 is "no limit"
    Tolerance,      \* CONFIG_INTERVAL_DISCONNECT_TOLERANCE
    MaxElapsed,     \* bound: the time since a disconnect
    MaxChanges,     \* bound: changes of m_playerLimit
    MaxPending,     \* bound: sessions in addSessQueue
    NoSession

ASSUME LoginQueueAssumption ==
    /\ IsFiniteSet(Accounts)
    /\ IsFiniteSet(Copies)
    /\ SkipQueue \subseteq Accounts
    /\ Limits \subseteq Nat
    /\ Limits # {}
    /\ Tolerance \in Nat
    /\ MaxElapsed \in Nat
    /\ MaxChanges \in Nat
    /\ MaxPending \in Nat
    /\ NoSession \notin Accounts \X Copies

Sessions == Accounts \X Copies

GetAccountId(s) == s[1]

VARIABLES
    alive,          \* session objects that exist
    addSessQueue,   \* sessions the network threads added
    m_sessions,     \* m_sessions[a]: the session of account a
    m_QueuedPlayer, \* sessions waiting, first to enter first
    closed,         \* sessions whose socket is closed
    loading,        \* sessions with m_playerLoading
    m_disconnects,  \* accounts with an entry: an active session was dropped
    m_playerLimit,
    changes,        \* how often the limit was changed
    used,           \* limits in force since the start
    privileged,     \* sessions let in by permission or recent disconnect
    phase,          \* which loop of UpdateSessions the world thread is in
    todo            \* accounts the second loop has still to update

limitVars == <<m_playerLimit, changes, used>>
vars == <<alive, addSessQueue, m_sessions, m_QueuedPlayer, closed, loading,
          m_disconnects, limitVars, privileged, phase, todo>>

\* Accounts in m_sessions, and the session objects it holds.
Online == {a \in Accounts : m_sessions[a] # NoSession}
Listed == {m_sessions[a] : a \in Online}

GetActiveAndQueuedSessionCount == Cardinality(Online)

\* Sessions past the queue.
Active == Listed \ Range(m_QueuedPlayer)

TypeOK ==
    /\ alive \subseteq Sessions
    /\ addSessQueue \in Seq(Sessions)
    /\ m_sessions \in [Accounts -> Sessions \cup {NoSession}]
    /\ m_QueuedPlayer \in Seq(Sessions)
    /\ closed \subseteq alive
    /\ loading \subseteq alive
    /\ m_disconnects \subseteq Accounts
    /\ m_playerLimit \in Limits
    /\ changes \in 0..MaxChanges
    /\ used \subseteq Limits
    /\ privileged \subseteq alive
    /\ phase \in {"add", "update"}
    /\ todo \subseteq Accounts

Init ==
    /\ alive = {}
    /\ addSessQueue = <<>>
    /\ m_sessions = [a \in Accounts |-> NoSession]
    /\ m_QueuedPlayer = <<>>
    /\ closed = {}
    /\ loading = {}
    /\ m_disconnects = {}
    /\ m_playerLimit \in Limits
    /\ changes = 0
    /\ used = {m_playerLimit}
    /\ privileged = {}
    /\ phase = "add"
    /\ todo = {}

-----------------------------------------------------------------------------
\* The active sessions other than s, when total sessions are listed.
OtherActive_CountsLeaver(q, total, s) == total - Len(q)
OtherActive(q, total, s) ==
    LET active == total - Len(q)
    IN  IF s \notin Range(q) /\ active > 0 THEN active - 1 ELSE active

(* The queue a call of RemoveQueuedPlayer(s) leaves, when q is the queue    *)
(* and total the number of listed sessions at the call: s is taken out,     *)
(* and the first in the queue is let in if the active sessions other than s *)
(* are fewer than the limit.                                                *)
RemoveQueuedPlayer(q, total, s) ==
    LET sessions == OtherActive(q, total, s)
        rest     == RemoveFirst(q, s)
    IN  IF (m_playerLimit = 0 \/ sessions < m_playerLimit) /\ rest # <<>>
        THEN Tail(rest)
        ELSE rest

\* difftime(stamp, time(NULL)) < tolerance, as the code computes it, when elapsed
\* seconds have passed since the stamp.
HasRecentlyDisconnected(a, elapsed) ==
    /\ Tolerance > 0
    /\ a \in m_disconnects
    /\ 0 - elapsed < Tolerance

-----------------------------------------------------------------------------
(* Network threads.                                                        *)

\* HandleAuthSession: new WorldSession, World::AddSession.
AddSession(s) ==
    /\ s \notin alive
    /\ Len(addSessQueue) < MaxPending
    /\ alive' = alive \cup {s}
    /\ addSessQueue' = Append(addSessQueue, s)
    /\ UNCHANGED <<m_sessions, m_QueuedPlayer, closed, loading, m_disconnects, limitVars, privileged, phase, todo>>

\* The client goes, or the idle timer closes the socket.
CloseSocket(s) ==
    /\ s \in alive \ closed
    /\ closed' = closed \cup {s}
    /\ UNCHANGED <<alive, addSessQueue, m_sessions, m_QueuedPlayer, loading,
                   m_disconnects, limitVars, privileged, phase, todo>>

-----------------------------------------------------------------------------
(* The world thread: UpdateSessions.                                       *)

\* RemoveSession kicks the old session unless it is loading its player.
RemoveSession(old) == old \notin loading

\* The sessions a newcomer is compared with: all but itself, and when it replaces
\* a queued session all of them.
CountFor_Twice(old, total) == IF old = NoSession THEN total - 1 ELSE total - 2
CountFor(old, total) == IF old \in Range(m_QueuedPlayer) THEN total ELSE total - 1

\* AddSession_, when a session of the account is loading its player: RemoveSession
\* refuses and the newcomer is kicked and deleted.
RefuseSession ==
    /\ phase = "add"
    /\ addSessQueue # <<>>
    /\ LET s == Head(addSessQueue)
           old == m_sessions[GetAccountId(s)]
       IN  /\ ~RemoveSession(old)
           /\ alive' = alive \ {s}
           /\ closed' = closed \ {s}
    /\ addSessQueue' = Tail(addSessQueue)
    /\ UNCHANGED <<m_sessions, m_QueuedPlayer, loading, m_disconnects, 
                   limitVars, privileged, phase, todo>>

\* AddSession_ otherwise: the old session leaves the queue and is deleted, the
\* new one takes its place in m_sessions and is queued or let in.
AddSession_ ==
    /\ phase = "add"
    /\ addSessQueue # <<>>
    /\ \E elapsed \in 0..MaxElapsed :
       LET s == Head(addSessQueue)
           a == GetAccountId(s)
           old == m_sessions[a]
           queue == IF old = NoSession THEN m_QueuedPlayer
                    ELSE RemoveQueuedPlayer(m_QueuedPlayer,
                                            GetActiveAndQueuedSessionCount, old)
           total == Cardinality(Online \cup {a})
           count == CountFor(old, total)
           full == m_playerLimit > 0 /\ count >= m_playerLimit
           skips == a \in SkipQueue \/ HasRecentlyDisconnected(a, elapsed)
       IN  /\ RemoveSession(old)
           /\ m_sessions' = [m_sessions EXCEPT ![a] = s]
           /\ m_QueuedPlayer' = IF full /\ ~skips THEN Append(queue, s) ELSE queue
           /\ privileged' = (IF full /\ skips THEN privileged \cup {s}
                             ELSE privileged) \ {old}
           /\ alive' = alive \ {old}
           /\ closed' = closed \ {old}
    /\ addSessQueue' = Tail(addSessQueue)
    /\ UNCHANGED <<loading, m_disconnects, limitVars, phase, todo>>

\* The first loop found addSessQueue empty.
StartUpdate ==
    /\ phase = "add"
    /\ addSessQueue = <<>>
    /\ phase' = "update"
    /\ todo' = Online
    /\ UNCHANGED <<alive, addSessQueue, m_sessions, m_QueuedPlayer, closed,
                   loading, m_disconnects, limitVars, privileged>>

\* WorldSession::Update returns true; meanwhile the client may have asked for its
\* player (refused while it is queued) or the player may have been loaded.
KeepSession(a) ==
    /\ phase = "update"
    /\ a \in todo
    /\ m_sessions[a] \notin closed
    /\ todo' = todo \ {a}
    /\ loading' \in {loading, loading \ {m_sessions[a]}} \cup
                    (IF m_sessions[a] \in Range(m_QueuedPlayer) THEN {}
                     ELSE {loading \cup {m_sessions[a]}})
    /\ UNCHANGED <<alive, addSessQueue, m_sessions, m_QueuedPlayer, closed,
                   m_disconnects, limitVars, privileged, phase>>

\* The queue after the two calls of RemoveQueuedPlayer in UpdateSessions.
QueueWithout_Kept(s) == m_QueuedPlayer
QueueWithout(s) ==
    LET total == GetActiveAndQueuedSessionCount
    IN  RemoveQueuedPlayer(RemoveQueuedPlayer(m_QueuedPlayer, total, s), total, s)

\* WorldSession::Update returns false: two calls of RemoveQueuedPlayer, then the
\* session is erased and deleted.
DropSession(a) ==
    /\ phase = "update"
    /\ a \in todo
    /\ m_sessions[a] \in closed
    /\ todo' = todo \ {a}
    /\ LET s == m_sessions[a]
       IN  /\ m_QueuedPlayer' = QueueWithout(s)
           /\ m_disconnects' = IF s \notin Range(m_QueuedPlayer) /\ Tolerance > 0
                               THEN m_disconnects \cup {a}
                               ELSE m_disconnects
           /\ alive' = alive \ {s}
           /\ closed' = closed \ {s}
           /\ loading' = loading \ {s}
           /\ privileged' = privileged \ {s}
    /\ m_sessions' = [m_sessions EXCEPT ![a] = NoSession]
    /\ UNCHANGED <<addSessQueue, limitVars, phase>>

EndUpdate ==
    /\ phase = "update"
    /\ todo = {}
    /\ phase' = "add"
    /\ UNCHANGED <<alive, addSessQueue, m_sessions, m_QueuedPlayer, closed,
                   loading, m_disconnects, limitVars, privileged, todo>>

\* ".server plimit <n>" or a reload of the configuration.
SetPlayerAmountLimit(n) ==
    /\ changes < MaxChanges
    /\ n # m_playerLimit
    /\ changes' = changes + 1
    /\ m_playerLimit' = n
    /\ used' = used \cup {n}
    /\ UNCHANGED <<alive, addSessQueue, m_sessions, m_QueuedPlayer, closed,
                   loading, m_disconnects, privileged, phase, todo>>

Next ==
    \/ \E s \in Sessions : AddSession(s) \/ CloseSocket(s)
    \/ RefuseSession \/ AddSession_ \/ StartUpdate \/ EndUpdate
    \/ \E a \in Accounts : KeepSession(a) \/ DropSession(a)
    \/ \E n \in Limits : SetPlayerAmountLimit(n)

Spec == Init /\ [][Next]_vars

-----------------------------------------------------------------------------
(* Correctness.                                                            *)

\* No list holds a session that was deleted, the queue holds only listed
\* sessions and none twice, so GetActiveSessionCount, an unsigned difference of
\* two sizes, never wraps (AddSession_ and UpdateSessions delete sessions).
NoDanglingSession ==
    /\ Range(addSessQueue) \cup Listed \subseteq alive
    /\ Range(m_QueuedPlayer) \subseteq Listed
    /\ \A n, k \in 1..Len(m_QueuedPlayer) :
          m_QueuedPlayer[n] = m_QueuedPlayer[k] => n = k
    /\ Range(addSessQueue) \cap Listed = {}

\* However sessions are replaced, dropped and counted twice on the way, nobody
\* waits while there is room (with players queued, the active sessions fill at
\* least the smallest limit that was in force), and the sessions that were not let
\* in by permission or because they had just disconnected never exceed the largest
\* limit in force (AddSession_, RemoveQueuedPlayer).
SlotsFilledToLimit ==
    /\ m_QueuedPlayer # <<>> => \E n \in used : Cardinality(Active) >= n
    /\ 0 \notin used => \E n \in used : Cardinality(Active \ privileged) <= n

\* While the limit stays what it is, a newcomer that is not let in by permission or
\* because it had just disconnected is let in only when nobody is waiting
\* (AddSession_ compares with active and queued sessions).
NoOvertaking ==
    [][ changes = 0 /\ (Active' \ Listed) \ privileged' # {}
          => m_QueuedPlayer = <<>> ]_vars
=============================================================================
