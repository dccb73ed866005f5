------------------------- MODULE WorldSocketProofs -------------------------
(***************************************************************************)
(* Proofs about WorldSocket for every number of map threads, all sizes and *)
(* whatever the client sends, as long as it logs in once: the reference    *)
(* count is the number of holders, the output buffer is read only when it  *)
(* is there, m_Session does not outlive its session but where the network  *)
(* thread is about to clear it, and a gap in the key stream is only seen   *)
(* on a socket that is about to be closed.  With the order of the output   *)
(* from WorldOutputProofs, that is WireInOrder.                            *)
(***************************************************************************)
EXTENDS WorldOutputProofs, FiniteSetTheorems

-----------------------------------------------------------------------------
(* The invariant.                                                          *)

(* The states of the network thread in which svc has the socket from its   *)
(* list, and those in which the reactor has it.                            *)
SvcStates == {"update_svc", "flush_svc", "drop", "drop_session", "drop_reference"}
InputStates == {"input", "payload", "trace", "process"}
ReactorStates == InputStates \cup {"again", "update_input", "flush_input", "peek",
                                   "crashed", "close", "close_session",
                                   "close_handler"}
AllStates == SvcStates \cup ReactorStates \cup {"reactor"}

TypeInv ==
  /\ accept \in {"start", "added", "allocated", "greeted", "registered",
                 "failed", "done"}
  /\ handler \in [on : BOOLEAN, write : BOOLEAN]
  /\ mgr \in {"none", "new", "in", "out"}
  /\ net \in AllStates
  /\ pc \in [Senders -> {"idle", "closing", "deleting", "closing_session",
                         "deleting_session", "delete"}]
  /\ seen \in Nat

(* open() takes its steps in order. *)
OpenInv ==
  /\ accept = "start" => mgr = "none"
  /\ handler.on => accept \in {"registered", "done"}
  /\ accept \in {"allocated", "greeted", "registered"} \/ handler.on => allocated
  /\ outActive \/ accept = "start" \/ (accept \in {"registered", "done"} /\ allocated)
  /\ net = "flush_svc" => accept \in {"registered", "done"} /\ allocated

(* Who holds the socket, and who is in one of its methods. *)
Holders ==
  {h \in {"acceptor", "manager", "reactor", "session"} :
     CASE h = "acceptor" -> accept # "done"
       [] h = "manager" -> mgr \in {"new", "in"}
       [] h = "reactor" -> handler.on
       [] h = "session" -> session \in {"live", "leaked"}}

HolderInv ==
  /\ net \in SvcStates => mgr = "in"
  /\ net \in ReactorStates => handler.on
  /\ \A t \in Senders : pc[t] # "idle" => session = "live"
  /\ \A t \in MapThreads : pc[t] # "idle" => pc[World] = "idle"

(* m_Session is cleared, or about to be, when the socket is closing; so it *)
(* is when the session is deleted.  A login makes the first session.       *)
SessionInv ==
  /\ session # "none" => \E i \in 1..seen : i \in DOMAIN Client /\ Client[i].kind = "auth"
  /\ mSession => session # "none" /\ accept \in {"registered", "done"}
  /\ session = "none" /\ closing => net \notin InputStates
  /\ mSession /\ session = "gone" => net \in {"close_session", "drop_session"}
  /\ mSession /\ closing /\ session = "live" =>
       \/ net \in {"close_session", "drop_session"}
       \/ \E t \in Senders : pc[t] \in {"closing_session", "deleting_session"}
  /\ pc[World] \in {"delete", "deleting_session"} => closing

(* Once a packet was refused somebody closes the socket, and nothing is    *)
(* sent before open() is through.                                          *)
GapInv ==
  /\ wire.gap => refused # {} /\ accept \in {"registered", "done"}
  /\ refused # {} => \/ closing \/ net = "close" \/ accept = "failed"
                     \/ \E t \in Senders : pc[t] = "closing"

(* The inductive invariant. *)
Inv ==
  /\ TypeInv
  /\ OpenInv
  /\ HolderInv
  /\ SessionInv
  /\ GapInv
  /\ refs = Cardinality(Holders)

-----------------------------------------------------------------------------
(* What single steps do. *)

\* Where the network thread goes when handle_output returns.
LEMMA ReturnType ==
    ASSUME NEW code \in {"fail", "more", "ok"}, Return(code),
           net \in {"reactor", "flush_input", "flush_svc"}
    PROVE  \/ net' = "reactor" \/ net' = net
           \/ net' = "drop" /\ net = "flush_svc"
           \/ net' = "close" /\ net # "flush_svc"
BY DEF Return

\* schedule_wakeup_output and cancel_wakeup_output do not register the handler or
\* remove it.
LEMMA WakeupType ==
    ASSUME TypeInv, NEW on \in BOOLEAN, WakeupOutput(on)
    PROVE  /\ handler' \in [on : BOOLEAN, write : BOOLEAN] /\ handler'.on = handler.on
           /\ Return("ok") \/ Return("fail")
BY DEF TypeInv, WakeupOutput

\* handle_output sends packets, so it opens a gap only after one was refused.
LEMMA TakenGap ==
    ASSUME NEW units, Taken(units), wire'.gap
    PROVE  wire.gap \/ refused # {}
BY DEF Taken

\* handle_output_queue.
LEMMA QueueEffect ==
    ASSUME TypeInv, NEW w, OutputQueue(w), net \in {"reactor", "flush_input", "flush_svc"}
    PROVE  /\ handler' \in [on : BOOLEAN, write : BOOLEAN] /\ handler'.on = handler.on
           /\ \/ net' = "reactor" \/ net' = net
              \/ net' = "drop" /\ net = "flush_svc"
              \/ net' = "close" /\ net # "flush_svc"
           /\ wire'.gap => wire.gap \/ refused # {}
<1>1. handler' \in [on : BOOLEAN, write : BOOLEAN] /\ handler'.on = handler.on
  <2>1. UNCHANGED handler \/ WakeupOutput(TRUE) \/ WakeupOutput(FALSE)
    BY Zenon DEF OutputQueue
  <2> QED
    BY <2>1, WakeupType DEF TypeInv
<1>2. Return("fail") \/ Return("more") \/ Return("ok")
  <2>1. Return("fail") \/ Return("more") \/ WakeupOutput(TRUE) \/ WakeupOutput(FALSE)
    BY Zenon DEF OutputQueue
  <2> QED
    BY <2>1, WakeupType
<1>3. \E units : Taken(units)
  BY Zenon DEF OutputQueue
<1> QED
  BY <1>1, <1>2, <1>3, ReturnType, TakenGap

\* handle_output: whatever the kernel takes, the handler stays registered, and the
\* thread is back in the reactor, goes on, or closes or drops the socket.
LEMMA OutputEffect ==
    ASSUME TypeInv, HandleOutput
    PROVE  /\ net \in {"flush_input", "flush_svc"} \/ (net = "reactor" /\ handler.on)
           /\ handler' \in [on : BOOLEAN, write : BOOLEAN] /\ handler'.on = handler.on
           /\ \/ net' = "reactor" \/ net' = net
              \/ net' = "drop" /\ net = "flush_svc"
              \/ net' = "close" /\ net # "flush_svc"
           /\ wire'.gap => wire.gap \/ refused # {}
           /\ UNCHANGED <<accept, allocated, closing, refs, mgr, session, mSession,
                          seen, pc, refused>>
<1>1. net \in {"flush_input", "flush_svc"} \/ (net = "reactor" /\ handler.on)
  BY DEF HandleOutput
<1>2. UNCHANGED <<accept, allocated, closing, refs, mgr, session, mSession, seen, pc,
                  refused>>
  BY DEF HandleOutput, acceptState, inVars
<1>3. CASE Return("fail") /\ UNCHANGED <<wire, handler>>
  BY <1>1, <1>2, <1>3, ReturnType DEF TypeInv
<1>4. CASE /\ \E n \in 0..Len(outBuffer) - 1 : Taken(SubSeq(outBuffer, 1, n))
           /\ WakeupOutput(TRUE)
  <2>1. wire'.gap => wire.gap \/ refused # {}
    BY <1>4, TakenGap
  <2> QED
    BY <1>1, <1>2, <1>4, <2>1, ReturnType, WakeupType
<1>5. CASE OutputQueue(outBuffer)
  BY <1>1, <1>2, <1>5, QueueEffect
<1>6. \/ Return("fail") /\ UNCHANGED <<wire, handler>>
      \/ /\ \E n \in 0..Len(outBuffer) - 1 : Taken(SubSeq(outBuffer, 1, n))
         /\ WakeupOutput(TRUE)
      \/ OutputQueue(outBuffer)
  BY Zenon DEF HandleOutput
<1> QED
  BY <1>3, <1>4, <1>5, <1>6

\* Update(): the thread leaves it for the branch it came from.
LEMMA UpdateEffect ==
    ASSUME Update
    PROVE  /\ \/ net = "update_svc" /\ net' \in {"drop", "flush_svc", "reactor"}
              \/ net = "update_input" /\ net' \in {"close", "flush_input", "reactor"}
           /\ net' = "flush_svc" => ~outActive
           /\ UNCHANGED <<accept, allocated, closing, outActive, handler, refs, mgr,
                          session, mSession, seen, pc, wire, refused>>
BY DEF Update, acceptState, outVars, inVars

\* The steps of handle_input before ProcessIncoming, and the uses of m_Session that
\* it makes without the lock.
LEMMA InputEffect ==
    ASSUME HandleInput \/ InputHeader \/ InputPayload \/ PeekSession
    PROVE  /\ \/ net \in InputStates \cup {"peek"}
              \/ net \in {"reactor", "again"} /\ handler.on
           /\ net' \in ReactorStates \ {"close_session", "close_handler"}
           /\ net' \in InputStates => net \in InputStates \/ ~closing
           /\ net # "close"
           /\ UNCHANGED <<accept, allocated, closing, outActive, handler, refs, mgr,
                          session, mSession, seen, pc, wire, refused>>
<1> USE DEF acceptState, outState, outVars, InputStates, ReactorStates
<1>1. CASE HandleInput
  BY <1>1 DEF HandleInput
<1>2. CASE InputHeader
  <2>1. net = "input" /\ net' \in {"again", "update_input", "payload", "peek", "close"}
    BY <1>2 DEF InputHeader, ReportError
  <2>2. UNCHANGED <<accept, allocated, closing, outActive, handler, refs, mgr,
                    session, mSession, seen, pc, wire, refused>>
    BY <1>2 DEF InputHeader
  <2> QED
    BY <2>1, <2>2
<1>3. CASE InputPayload
  <2>1. net = "payload" /\ net' \in {"close", "update_input", "process", "trace"}
    BY <1>3 DEF InputPayload
  <2>2. UNCHANGED <<accept, allocated, closing, outActive, handler, refs, mgr,
                    session, mSession, seen, pc, wire, refused>>
    BY <1>3 DEF InputPayload
  <2> QED
    BY <2>1, <2>2
<1>4. CASE PeekSession
  BY <1>4 DEF PeekSession, inVars
<1> QED
  BY <1>1, <1>2, <1>3, <1>4

\* SendPacket does nothing to what the client has got, and when it refuses a packet
\* it says so.
LEMMA SendEffect ==
    ASSUME NEW size, SendPacket(size)
    PROVE  /\ UNCHANGED wire
           /\ Accepted(size) => UNCHANGED refused
           /\ refused # {} => refused' # {}
BY DEF SendPacket

\* ProcessIncoming: a login makes the session, the other packets use it.
LEMMA ProcessEffect ==
    ASSUME ProcessIncoming
    PROVE  /\ net = "process" /\ net' \in {"input", "peek", "close"}
           /\ seen + 1 \in DOMAIN Client /\ seen' = seen + 1
           /\ UNCHANGED <<accept, allocated, closing, outActive, handler, mgr, pc, wire>>
           /\ net' = "close" \/ UNCHANGED refused
           /\ refused # {} => refused' # {}
           /\ \/ /\ Client[seen + 1].kind = "auth" /\ mSession' = TRUE
                 /\ session' \in {"live", "leaked"} /\ refs' = refs + 1
              \/ UNCHANGED <<mSession, session, refs>>
<1> USE DEF acceptState, outState, outVars
<1>1. /\ net = "process" /\ seen + 1 \in DOMAIN Client /\ seen' = seen + 1
      /\ UNCHANGED <<accept, allocated, closing, mgr, pc>>
  BY DEF ProcessIncoming
<1>2. CASE Client[seen + 1].kind = "auth" /\ HandleAuthSession
  BY <1>1, <1>2, SendEffect DEF HandleAuthSession, ReportError
<1>3. CASE HandlePing
  BY <1>1, <1>3, SendEffect DEF HandlePing, ReportError
<1>4. CASE QueuePacket
  BY <1>1, <1>4 DEF QueuePacket
<1>5. Client[seen + 1].kind \in {"auth", "ping", "data"}
  BY <1>1, SocketConstants
<1> QED
  BY <1>2, <1>3, <1>4, <1>5 DEF ProcessIncoming

\* Only the first login makes a session (ProcessIncoming refuses a second one).
LEMMA LoginFirst ==
    ASSUME Inv, ProcessIncoming
    PROVE  /\ Client[seen + 1].kind = "auth" => session = "none"
           /\ UNCHANGED <<mSession, session, refs>> \/ session = "none"
<1>1. TypeInv /\ SessionInv
  BY DEF Inv
<1>2. CASE Client[seen + 1].kind = "auth"
  <2>1. seen \in Nat /\ seen + 1 \in DOMAIN Client
    BY <1>1, ProcessEffect DEF TypeInv
  <2>2. ~\E i \in 1..seen : i \in DOMAIN Client /\ Client[i].kind = "auth"
    BY <1>2, <2>1, SocketConstants
  <2> QED
    BY <1>1, <2>2 DEF SessionInv
<1> QED
  BY <1>2, ProcessEffect

-----------------------------------------------------------------------------
(* The steps preserve the invariant. *)

\* The types of what the proofs use.
LEMMA TypeNext ==
    ASSUME Inv, Next
    PROVE  TypeInv'
<1>1. TypeInv
  BY DEF Inv
<1> USE DEF TypeInv, acceptState, outState, outVars, inVars, netState, ioState,
        senderFrame
<1>2. CASE OpenStep
  <2>1. UNCHANGED handler \/ handler' = [on |-> TRUE, write |-> TRUE]
    BY <1>2 DEF OpenStep, OpenSocket, OpenBuffer, OpenGreet, OpenRegister,
       OpenDone, CloseFailed
  <2>2. /\ accept' \in {"added", "allocated", "greeted", "registered", "failed", "done"}
        /\ mgr' \in {mgr, "new"} /\ UNCHANGED <<net, pc, seen>>
    BY <1>2 DEF OpenStep, OpenSocket, OpenBuffer, OpenGreet, OpenRegister,
       OpenDone, CloseFailed
  <2>3. [on |-> TRUE, write |-> TRUE] \in [on : BOOLEAN, write : BOOLEAN]
    OBVIOUS
  <2>4. handler' \in [on : BOOLEAN, write : BOOLEAN]
    BY <1>1, <2>1, <2>3
  <2> QED
    BY <1>1, <2>2, <2>4
<1>3. CASE HandleOutput
  BY <1>1, <1>3, OutputEffect DEF AllStates, SvcStates, ReactorStates, InputStates
<1>4. CASE Update
  BY <1>1, <1>4, UpdateEffect DEF AllStates, SvcStates, ReactorStates, InputStates
<1>5. CASE HandleInput \/ InputHeader \/ InputPayload \/ PeekSession
  BY <1>1, <1>5, InputEffect DEF AllStates, SvcStates, ReactorStates, InputStates
<1>6. CASE ProcessIncoming
  BY <1>1, <1>6, ProcessEffect DEF AllStates, SvcStates, ReactorStates, InputStates
<1>7. CASE HandleClose \/ HandleCloseSession \/ RemoveHandler
  <2>1. UNCHANGED handler \/ handler' = [on |-> FALSE, write |-> FALSE]
    BY <1>7 DEF HandleClose, HandleCloseSession, RemoveHandler
  <2>2. net' \in AllStates /\ UNCHANGED <<accept, mgr, pc, seen>>
    BY <1>7 DEF HandleClose, HandleCloseSession, RemoveHandler, AllStates,
       ReactorStates
  <2>3. [on |-> FALSE, write |-> FALSE] \in [on : BOOLEAN, write : BOOLEAN]
    OBVIOUS
  <2>4. handler' \in [on : BOOLEAN, write : BOOLEAN]
    BY <1>1, <2>1, <2>3
  <2> QED
    BY <1>1, <2>2, <2>4
<1>8. CASE AddNewSockets \/ DropSocket \/ DropSession \/ DropReference
  BY <1>1, <1>8 DEF AddNewSockets, DropSocket, DropSession, DropReference,
     AllStates, SvcStates, ReactorStates, InputStates
<1>9. ASSUME NEW t \in Senders, SessionSendPacket(t) \/ CloseStep(t)
      PROVE  TypeInv'
  BY <1>1, <1>9 DEF SessionSendPacket, CloseStep, CloseSocket, CloseSocketSession,
     AfterClose
<1>10. CASE CloseOrDelete \/ DeleteSession \/ SessionUpdate
  BY <1>1, <1>10 DEF CloseOrDelete, DeleteSession, SessionUpdate
<1> QED
  BY <1>2, <1>3, <1>4, <1>5, <1>6, <1>7, <1>8, <1>9, <1>10 DEF Next, NetStep

\* open() in order: the output buffer is there before the handler is registered, and
\* m_OutActive is set until then.
LEMMA OpenNext ==
    ASSUME Inv, Next
    PROVE  OpenInv'
<1>1. TypeInv /\ OpenInv /\ HolderInv
  BY DEF Inv
<1> USE DEF OpenInv, acceptState, outState, outVars, inVars, netState, ioState,
        senderFrame
<1>2. CASE OpenStep
  BY <1>1, <1>2 DEF OpenStep, OpenSocket, OpenBuffer, OpenGreet, OpenRegister,
     OpenDone, CloseFailed, HolderInv, SvcStates
<1>3. CASE HandleOutput
  <2>1. handler.on \/ net = "flush_svc"
    BY <1>1, <1>3, OutputEffect DEF HolderInv, ReactorStates
  <2> QED
    BY <1>1, <1>3, <2>1, OutputEffect
<1>4. CASE Update
  BY <1>1, <1>4, UpdateEffect DEF HolderInv, SvcStates
<1>5. CASE HandleInput \/ InputHeader \/ InputPayload \/ PeekSession
  BY <1>1, <1>5, InputEffect DEF ReactorStates, InputStates
<1>6. CASE ProcessIncoming
  BY <1>1, <1>6, ProcessEffect
<1>7. CASE HandleClose \/ HandleCloseSession \/ RemoveHandler
  BY <1>1, <1>7 DEF HandleClose, HandleCloseSession, RemoveHandler, HolderInv, 
     ReactorStates
<1>8. CASE AddNewSockets \/ DropSocket \/ DropSession \/ DropReference
  <2>1. CASE AddNewSockets
    BY <1>1, <2>1 DEF AddNewSockets, HolderInv, SvcStates
  <2>2. CASE DropSocket
    BY <1>1, <2>2 DEF DropSocket, HolderInv, SvcStates
  <2>3. CASE DropSession
    BY <1>1, <2>3 DEF DropSession, HolderInv, SvcStates
  <2>4. CASE DropReference
    BY <1>1, <2>4 DEF DropReference, HolderInv, SvcStates
  <2> QED
    BY <1>8, <2>1, <2>2, <2>3, <2>4
<1>9. ASSUME NEW t \in Senders, SessionSendPacket(t) \/ CloseStep(t)
      PROVE  OpenInv'
  BY <1>1, <1>9 DEF SessionSendPacket, CloseStep, CloseSocket, CloseSocketSession
<1>10. CASE CloseOrDelete \/ DeleteSession \/ SessionUpdate
  BY <1>1, <1>10 DEF CloseOrDelete, DeleteSession, SessionUpdate
<1> QED
  BY <1>2, <1>3, <1>4, <1>5, <1>6, <1>7, <1>8, <1>9, <1>10 DEF Next, NetStep

\* A thread is in a method of the socket only while it holds it, and the world thread
\* and the map threads do not run together.
LEMMA HolderNext ==
    ASSUME Inv, Next
    PROVE  HolderInv'
<1>1. TypeInv /\ OpenInv /\ HolderInv
  BY DEF Inv
<1>2. World \in Senders /\ World \notin MapThreads /\ MapThreads \subseteq Senders
  BY SocketConstants DEF Senders
<1> USE DEF HolderInv, SvcStates, ReactorStates, InputStates,
        acceptState, outState, outVars, inVars, netState, ioState, senderFrame
<1>3. CASE OpenStep
  BY <1>1, <1>3 DEF OpenStep, OpenSocket, OpenBuffer, OpenGreet, OpenRegister,
     OpenDone, CloseFailed, OpenInv
<1>4. CASE HandleOutput
  BY <1>1, <1>4, OutputEffect
<1>5. CASE Update
  BY <1>1, <1>5, UpdateEffect
<1>6. CASE HandleInput \/ InputHeader \/ InputPayload \/ PeekSession
  <2>1. handler.on /\ net' \notin SvcStates
    BY <1>1, <1>6, InputEffect
  <2>2. UNCHANGED <<handler, session, pc>>
    BY <1>6, InputEffect
  <2>3. /\ \A t \in Senders : pc'[t] # "idle" => session' = "live"
        /\ \A t \in MapThreads : pc'[t] # "idle" => pc'[World] = "idle"
    BY <1>1, <2>2
  <2> QED
    BY <2>1, <2>2, <2>3
<1>7. CASE ProcessIncoming
  <2>1. handler.on /\ net' \notin SvcStates /\ UNCHANGED <<handler, pc>>
    BY <1>1, <1>7, ProcessEffect
  <2>2. UNCHANGED session \/ session = "none"
    BY <1>7, LoginFirst
  <2>3. \A t \in Senders : pc'[t] # "idle" => session' = "live"
    BY <1>1, <2>1, <2>2
  <2>4. \A t \in MapThreads : pc'[t] # "idle" => pc'[World] = "idle"
    BY <1>1, <2>1
  <2> QED
    BY <2>1, <2>3, <2>4
<1>8. CASE HandleClose \/ HandleCloseSession \/ RemoveHandler
  BY <1>1, <1>8 DEF HandleClose, HandleCloseSession, RemoveHandler
<1>9. CASE AddNewSockets \/ DropSocket \/ DropSession \/ DropReference
  BY <1>1, <1>9 DEF AddNewSockets, DropSocket, DropSession, DropReference
<1>10. ASSUME NEW t \in Senders, SessionSendPacket(t)
       PROVE  HolderInv'
  BY <1>1, <1>2, <1>10 DEF SessionSendPacket, MayRun, TypeInv
<1>11. ASSUME NEW t \in Senders, CloseStep(t)
       PROVE  HolderInv'
  <2>1. pc[t] # "idle" /\ \A u \in Senders : u # t => pc'[u] = pc[u]
    BY <1>1, <1>11 DEF CloseStep, CloseSocket, CloseSocketSession, TypeInv
  <2>2. UNCHANGED <<net, mgr, handler, session>>
    BY <1>11 DEF CloseStep, CloseSocket, CloseSocketSession
  <2> QED
    BY <1>1, <1>2, <2>1, <2>2
<1>12. CASE CloseOrDelete
  BY <1>1, <1>2, <1>12 DEF CloseOrDelete, MayRun, TypeInv
<1>13. CASE DeleteSession \/ SessionUpdate
  BY <1>1, <1>2, <1>13 DEF DeleteSession, SessionUpdate, MayRun, TypeInv, Senders
<1> QED
  BY <1>3, <1>4, <1>5, <1>6, <1>7, <1>8, <1>9, <1>10, <1>11, <1>12, <1>13
  DEF Next, NetStep

\* A thread that is past its closing_ test in CloseSocket clears m_Session; until
\* then it holds the session, so none is deleted while m_Session names it, but where
\* the network thread is about to clear it.
LEMMA SessionNext ==
    ASSUME Inv, Next
    PROVE  SessionInv'
<1>1. TypeInv /\ OpenInv /\ HolderInv /\ SessionInv
  BY DEF Inv
<1>2. World \in Senders /\ World \notin MapThreads /\ Senders = MapThreads \cup {World}
  BY SocketConstants DEF Senders
<1> USE DEF SessionInv, acceptState, outState, outVars, inVars, netState, ioState,
        senderFrame
<1>3. CASE OpenStep
  <2>1. UNCHANGED <<session, mSession, net, pc, seen>>
    BY <1>3 DEF OpenStep, OpenSocket, OpenBuffer, OpenGreet, OpenRegister,
       OpenDone, CloseFailed
  <2>2. \/ UNCHANGED closing
        \/ accept = "failed" /\ closing' /\ accept' = "done"
    BY <1>3 DEF OpenStep, OpenSocket, OpenBuffer, OpenGreet, OpenRegister,
       OpenDone, CloseFailed
  <2>3. accept \in {"registered", "done"} => accept' = "done"
    BY <1>3 DEF OpenStep, OpenSocket, OpenBuffer, OpenGreet, OpenRegister,
       OpenDone, CloseFailed
  <2>4. accept = "failed" => net \notin InputStates /\ ~mSession
    BY <1>1 DEF OpenInv, HolderInv, ReactorStates
  <2>5. CASE UNCHANGED closing
    BY <1>1, <2>1, <2>3, <2>5
  <2>6. CASE accept = "failed" /\ closing' /\ accept' = "done"
    BY <1>1, <2>1, <2>4, <2>6
  <2> QED
    BY <2>2, <2>5, <2>6
<1>4. CASE HandleOutput
  BY <1>1, <1>4, OutputEffect DEF InputStates
<1>5. CASE Update
  BY <1>1, <1>5, UpdateEffect DEF InputStates
<1>6. CASE HandleInput \/ InputHeader \/ InputPayload \/ PeekSession
  <2>1. /\ net \notin {"close_session", "drop_session"}
        /\ net' \in InputStates => net \in InputStates \/ ~closing
        /\ UNCHANGED <<accept, closing, session, mSession, seen, pc>>
    BY <1>6, InputEffect DEF InputStates
  <2> QED
    BY <1>1, <2>1
<1>7. CASE ProcessIncoming
  <2>1. seen \in Nat /\ handler.on /\ accept \in {"registered", "done"}
    BY <1>1, <1>7, ProcessEffect DEF TypeInv, OpenInv, HolderInv, ReactorStates, InputStates
  <2>2. CASE UNCHANGED <<mSession, session>>
    BY <1>1, <1>7, <2>1, <2>2, ProcessEffect DEF InputStates
  <2>3. CASE /\ Client[seen + 1].kind = "auth"
             /\ mSession' = TRUE /\ session' \in {"live", "leaked"}
    <3>1. session = "none"
      BY <1>7, <2>3, LoginFirst
    <3>2. ~closing'
      BY <1>1, <1>7, <3>1, ProcessEffect DEF InputStates
    <3>3. seen + 1 \in 1..seen' /\ seen + 1 \in DOMAIN Client
      BY <1>7, <2>1, ProcessEffect
    <3> QED
      BY <1>1, <1>7, <2>1, <2>3, <3>2, <3>3, ProcessEffect
  <2> QED
    BY <1>7, <2>2, <2>3, ProcessEffect
<1>8. CASE HandleClose \/ HandleCloseSession \/ RemoveHandler
  <2>1. CASE HandleClose
    BY <1>1, <2>1 DEF HandleClose, InputStates
  <2>2. CASE HandleCloseSession
    BY <1>1, <2>2 DEF HandleCloseSession, InputStates
  <2>3. CASE RemoveHandler
    BY <1>1, <2>3 DEF RemoveHandler, InputStates
  <2> QED
    BY <1>8, <2>1, <2>2, <2>3
<1>9. CASE AddNewSockets \/ DropSocket \/ DropSession \/ DropReference
  <2>1. CASE AddNewSockets
    BY <1>1, <2>1 DEF AddNewSockets, InputStates
  <2>2. CASE DropSocket
    BY <1>1, <2>2 DEF DropSocket, InputStates
  <2>3. CASE DropSession
    BY <1>1, <2>3 DEF DropSession, InputStates
  <2>4. CASE DropReference
    BY <1>1, <2>4 DEF DropReference, InputStates
  <2> QED
    BY <1>9, <2>1, <2>2, <2>3, <2>4
<1>10. ASSUME NEW t \in Senders, SessionSendPacket(t)
       PROVE  SessionInv'
  <2>1. ~closing /\ ~closing' /\ UNCHANGED <<session, mSession, net, seen, accept>>
    BY <1>10 DEF SessionSendPacket
  <2>2. pc' = [pc EXCEPT ![t] = "idle"] \/ pc' = [pc EXCEPT ![t] = "closing"]
    BY <1>10 DEF SessionSendPacket
  <2> QED
    BY <1>1, <1>2, <2>1, <2>2 DEF TypeInv
<1>11. ASSUME NEW t \in Senders, CloseStep(t)
       PROVE  SessionInv'
  <2>1. UNCHANGED <<session, net, seen, accept>>
    BY <1>11 DEF CloseStep, CloseSocket, CloseSocketSession
  <2>2. session = "live"
    BY <1>1, <1>11 DEF CloseStep, CloseSocket, CloseSocketSession, HolderInv
  <2>3. CASE CloseSocket(t) /\ closing
    BY <1>1, <1>2, <2>1, <2>2, <2>3 DEF CloseSocket, AfterClose, TypeInv
  <2>4. CASE CloseSocket(t) /\ ~closing
    BY <1>1, <1>2, <2>1, <2>2, <2>4 DEF CloseSocket, TypeInv
  <2>5. CASE CloseSocketSession(t)
    BY <1>1, <1>2, <2>1, <2>2, <2>5 DEF CloseSocketSession, AfterClose, TypeInv
  <2> QED
    BY <1>11, <2>3, <2>4, <2>5 DEF CloseStep
<1>12. CASE CloseOrDelete
  BY <1>1, <1>2, <1>12 DEF CloseOrDelete, MayRun, TypeInv
<1>13. CASE DeleteSession \/ SessionUpdate
  <2>1. closing /\ \A t \in Senders : pc[t] \notin {"closing_session", "deleting_session"}
    BY <1>1, <1>2, <1>13 DEF DeleteSession, SessionUpdate, MayRun, HolderInv
  <2>2. /\ session = "live" /\ session' = "gone" /\ UNCHANGED <<mSession, closing, net, seen, accept>>
        /\ UNCHANGED pc \/ pc' = [pc EXCEPT ![World] = "idle"]
    BY <1>1, <1>2, <1>13 DEF DeleteSession, SessionUpdate, HolderInv
  <2>3. mSession => net \in {"close_session", "drop_session"}
    BY <1>1, <2>1, <2>2
  <2> QED
    BY <1>1, <1>2, <2>2, <2>3 DEF TypeInv
<1> QED
  BY <1>3, <1>4, <1>5, <1>6, <1>7, <1>8, <1>9, <1>10, <1>11, <1>12, <1>13
  DEF Next, NetStep

\* A refused packet is the business of the thread that sent it: it closes the socket.
LEMMA GapNext ==
    ASSUME Inv, Next
    PROVE  GapInv'
<1>1. TypeInv /\ OpenInv /\ HolderInv /\ GapInv
  BY DEF Inv
<1> USE DEF GapInv, acceptState, outState, outVars, inVars, netState, ioState,
        senderFrame
<1>2. CASE OpenStep
  <2>1. UNCHANGED <<wire, net, pc>>
    BY <1>2, SendEffect DEF OpenStep, OpenSocket, OpenBuffer, OpenGreet, OpenRegister,
       OpenDone, CloseFailed
  <2>2. \/ accept' = "failed"
        \/ accept # "failed" /\ UNCHANGED <<closing, refused>>
        \/ closing' /\ UNCHANGED refused
    BY <1>2, SendEffect DEF OpenStep, OpenSocket, OpenBuffer, OpenGreet, OpenRegister,
       OpenDone, CloseFailed
  <2>3. accept \in {"registered", "done"} => accept' = "done" /\ UNCHANGED refused
    BY <1>2 DEF OpenStep, OpenSocket, OpenBuffer, OpenGreet, OpenRegister,
       OpenDone, CloseFailed
  <2> QED
    BY <1>1, <2>1, <2>2, <2>3
<1>3. CASE HandleOutput
  <2>1. accept \in {"registered", "done"} /\ net # "close"
    BY <1>1, <1>3, OutputEffect DEF OpenInv, HolderInv, ReactorStates
  <2> QED
    BY <1>1, <1>3, <2>1, OutputEffect
<1>4. CASE Update
  BY <1>1, <1>4, UpdateEffect
<1>5. CASE HandleInput \/ InputHeader \/ InputPayload \/ PeekSession
  BY <1>1, <1>5, InputEffect
<1>6. CASE ProcessIncoming
  <2>1. accept \in {"registered", "done"}
    BY <1>1, <1>6, ProcessEffect DEF OpenInv, HolderInv, ReactorStates, InputStates
  <2> QED
    BY <1>1, <1>6, <2>1, ProcessEffect
<1>7. CASE HandleClose \/ HandleCloseSession \/ RemoveHandler
  BY <1>1, <1>7 DEF HandleClose, HandleCloseSession, RemoveHandler
<1>8. CASE AddNewSockets \/ DropSocket \/ DropSession \/ DropReference
  BY <1>1, <1>8 DEF AddNewSockets, DropSocket, DropSession, DropReference
<1>9. ASSUME NEW t \in Senders, SessionSendPacket(t)
      PROVE  GapInv'
  <2>1. PICK size \in Sizes :
           /\ SendPacket(size)
           /\ pc' = [pc EXCEPT ![t] = IF Accepted(size) THEN "idle" ELSE "closing"]
    BY <1>9 DEF SessionSendPacket
  <2>2. pc[t] = "idle" /\ UNCHANGED <<wire, net, accept, closing>>
    BY <1>9, <2>1, SendEffect DEF SessionSendPacket
  <2>3. CASE Accepted(size)
    BY <1>1, <2>1, <2>2, <2>3, SendEffect DEF TypeInv
  <2>4. CASE ~Accepted(size)
    <3>1. pc'[t] = "closing" /\ refused' # {}
      BY <1>1, <2>1, <2>4 DEF TypeInv, SendPacket
    <3> QED
      BY <1>1, <2>2, <3>1
  <2> QED
    BY <2>3, <2>4
<1>10. ASSUME NEW t \in Senders, CloseStep(t)
       PROVE  GapInv'
  <2>1. UNCHANGED <<wire, refused, net, accept>>
    BY <1>10 DEF CloseStep, CloseSocket, CloseSocketSession
  <2>2. closing' \/ (pc[t] # "closing" /\ UNCHANGED closing)
    BY <1>10 DEF CloseStep, CloseSocket, CloseSocketSession
  <2>3. \A u \in Senders : u # t => pc'[u] = pc[u]
    BY <1>1, <1>10 DEF CloseStep, CloseSocket, CloseSocketSession, TypeInv
  <2> QED
    BY <1>1, <2>1, <2>2, <2>3
<1>11. CASE CloseOrDelete \/ DeleteSession \/ SessionUpdate
  <2>1. UNCHANGED <<wire, refused, net, accept, closing>>
    BY <1>11 DEF CloseOrDelete, DeleteSession, SessionUpdate
  <2>2. \A u \in Senders : pc[u] = "closing" => pc'[u] = "closing"
    BY <1>1, <1>11 DEF CloseOrDelete, DeleteSession, SessionUpdate, TypeInv
  <2> QED
    BY <1>1, <2>1, <2>2
<1> QED
  BY <1>2, <1>3, <1>4, <1>5, <1>6, <1>7, <1>8, <1>9, <1>10, <1>11 DEF Next, NetStep

-----------------------------------------------------------------------------
(* The reference count. *)

\* A reference is taken with a new holder and given back with one that was there.
LEMMA HoldersCount ==
    ASSUME NEW S \in SUBSET {"acceptor", "manager", "reactor", "session"},
           NEW T \in SUBSET {"acceptor", "manager", "reactor", "session"}, NEW x
    PROVE  /\ Cardinality(S) \in Nat
           /\ x \notin S /\ T = S \cup {x} => Cardinality(T) = Cardinality(S) + 1
           /\ x \in S /\ T = S \ {x} => Cardinality(T) = Cardinality(S) - 1
<1>1. IsFiniteSet({"acceptor", "manager", "reactor", "session"})
  <2>1. IsFiniteSet({"acceptor"})
    BY FS_Singleton
  <2>2. IsFiniteSet({"acceptor"} \cup {"manager"})
    BY <2>1, FS_AddElement
  <2>3. IsFiniteSet(({"acceptor"} \cup {"manager"}) \cup {"reactor"})
    BY <2>2, FS_AddElement
  <2>4. IsFiniteSet((({"acceptor"} \cup {"manager"}) \cup {"reactor"}) \cup {"session"})
    BY <2>3, FS_AddElement
  <2>5. {"acceptor", "manager", "reactor", "session"} =
          (({"acceptor"} \cup {"manager"}) \cup {"reactor"}) \cup {"session"}
    OBVIOUS
  <2> QED
    BY <2>4, <2>5
<1>2. IsFiniteSet(S)
  BY <1>1, FS_Subset
<1>3. Cardinality(S) \in Nat
  BY <1>2, FS_CardinalityType
<1>4. x \notin S => Cardinality(S \cup {x}) = Cardinality(S) + 1
  BY <1>2, FS_AddElement
<1>5. x \in S => Cardinality(S \ {x}) = Cardinality(S) - 1
  BY <1>2, FS_RemoveElement
<1> QED
  BY <1>3, <1>4, <1>5

\* Who holds the socket, told apart.
LEMMA HoldersAre ==
    /\ Holders \subseteq {"acceptor", "manager", "reactor", "session"}
    /\ "acceptor" \in Holders <=> accept # "done"
    /\ "manager" \in Holders <=> mgr \in {"new", "in"}
    /\ "reactor" \in Holders <=> handler.on
    /\ "session" \in Holders <=> session \in {"live", "leaked"}
BY DEF Holders

\* Nobody takes the socket or lets go of it.
LEMMA HoldersKept ==
    ASSUME accept' = "done" <=> accept = "done",
           mgr' \in {"new", "in"} <=> mgr \in {"new", "in"},
           handler'.on = handler.on, UNCHANGED session
    PROVE  Holders' = Holders
BY DEF Holders

\* What a step does to the holders and to the count: nothing, or one more, or one less.
LEMMA RefsStep ==
    ASSUME Inv, Next
    PROVE  \/ UNCHANGED refs /\ Holders' = Holders
           \/ /\ refs' = refs + 1
              /\ \E x : x \notin Holders /\ Holders' = Holders \cup {x}
           \/ /\ refs' = refs - 1
              /\ \E x : x \in Holders /\ Holders' = Holders \ {x}
<1> DEFINE Same == UNCHANGED refs /\ Holders' = Holders
           More(x) == refs' = refs + 1 /\ x \notin Holders /\ Holders' = Holders \cup {x}
           Less(x) == refs' = refs - 1 /\ x \in Holders /\ Holders' = Holders \ {x}
<1> SUFFICES Same \/ \E x : More(x) \/ Less(x)
  OBVIOUS
<1>1. TypeInv /\ OpenInv /\ HolderInv /\ SessionInv
  BY DEF Inv
<1>2. /\ Holders' \subseteq {"acceptor", "manager", "reactor", "session"}
      /\ "acceptor" \in Holders' <=> accept' # "done"
      /\ "manager" \in Holders' <=> mgr' \in {"new", "in"}
      /\ "reactor" \in Holders' <=> handler'.on
      /\ "session" \in Holders' <=> session' \in {"live", "leaked"}
  BY DEF Holders
<1> USE DEF acceptState, outState, outVars, inVars, netState, ioState, senderFrame
<1>3. CASE OpenSocket
  <2>1. accept = "start" /\ mgr = "none" /\ UNCHANGED <<handler, session>>
    BY <1>1, <1>3 DEF OpenSocket, OpenInv
  <2>2. \/ mgr' = "new" /\ refs' = refs + 1 /\ accept' = "added"
        \/ accept' = "failed" /\ UNCHANGED <<mgr, refs>>
    BY <1>3 DEF OpenSocket
  <2>3. mgr' = "new" /\ refs' = refs + 1 /\ accept' = "added" => More("manager")
    BY <1>2, <2>1, HoldersAre
  <2>4. accept' = "failed" /\ UNCHANGED <<mgr, refs>> => Same
    BY <2>1, HoldersKept
  <2> QED
    BY <2>2, <2>3, <2>4
<1>4. CASE OpenBuffer \/ OpenGreet
  <2>1. Same
    BY <1>4, HoldersKept DEF OpenBuffer, OpenGreet
  <2> QED
    BY <2>1
<1>5. CASE OpenRegister
  <2>1. accept = "greeted" /\ ~handler.on /\ UNCHANGED <<mgr, session>>
    BY <1>1, <1>5 DEF OpenRegister, OpenInv
  <2>2. \/ handler'.on /\ refs' = refs + 1 /\ accept' = "registered"
        \/ accept' = "failed" /\ UNCHANGED <<handler, refs>>
    BY <1>5 DEF OpenRegister
  <2>3. handler'.on /\ refs' = refs + 1 /\ accept' = "registered" => More("reactor")
    BY <1>2, <2>1, HoldersAre
  <2>4. accept' = "failed" /\ UNCHANGED <<handler, refs>> => Same
    BY <2>1, HoldersKept
  <2> QED
    BY <2>2, <2>3, <2>4
<1>6. CASE OpenDone \/ CloseFailed
  <2>1. /\ accept # "done" /\ accept' = "done" /\ refs' = refs - 1
        /\ UNCHANGED <<handler, mgr, session>>
    BY <1>6 DEF OpenDone, CloseFailed
  <2>2. Less("acceptor")
    BY <1>2, <2>1, HoldersAre
  <2> QED
    BY <2>2
<1>7. CASE HandleOutput
  <2>1. Same
    BY <1>1, <1>7, HoldersKept, OutputEffect
  <2> QED
    BY <2>1
<1>8. CASE Update
  <2>1. Same
    BY <1>8, HoldersKept, UpdateEffect
  <2> QED
    BY <2>1
<1>9. CASE HandleInput \/ InputHeader \/ InputPayload \/ PeekSession
  <2>1. Same
    BY <1>9, HoldersKept, InputEffect
  <2> QED
    BY <2>1
<1>10. CASE ProcessIncoming
  <2>1. UNCHANGED <<accept, mgr, handler>>
    BY <1>10, ProcessEffect
  <2>2. UNCHANGED <<session, refs>> => Same
    BY <2>1, HoldersKept
  <2>3. CASE /\ Client[seen + 1].kind = "auth"
             /\ session' \in {"live", "leaked"} /\ refs' = refs + 1
    <3>1. session = "none"
      BY <1>10, <2>3, LoginFirst
    <3>2. More("session")
      BY <1>2, <2>1, <2>3, <3>1, HoldersAre
    <3> QED
      BY <3>2
  <2> QED
    BY <1>10, <2>2, <2>3, ProcessEffect
<1>11. CASE HandleClose \/ HandleCloseSession \/ DropSocket \/ DropSession
  <2>1. Same
    BY <1>11, HoldersKept DEF HandleClose, HandleCloseSession, DropSocket, DropSession
  <2> QED
    BY <2>1
<1>12. CASE RemoveHandler
  <2>1. /\ handler.on /\ ~handler'.on /\ refs' = refs - 1
        /\ UNCHANGED <<accept, mgr, session>>
    BY <1>1, <1>12 DEF RemoveHandler, HolderInv, ReactorStates
  <2>2. Less("reactor")
    BY <1>2, <2>1, HoldersAre
  <2> QED
    BY <2>2
<1>13. CASE AddNewSockets
  <2>1. mgr \in {"new", "in"} /\ UNCHANGED <<accept, handler, session>>
    BY <1>13 DEF AddNewSockets
  <2>2. (mgr' = "out" /\ refs' = refs - 1) \/ (mgr' = "in" /\ UNCHANGED refs)
    BY <1>13 DEF AddNewSockets
  <2>3. mgr' = "out" /\ refs' = refs - 1 => Less("manager")
    BY <1>2, <2>1, HoldersAre
  <2>4. mgr' = "in" /\ UNCHANGED refs => Same
    BY <2>1, HoldersKept
  <2> QED
    BY <2>2, <2>3, <2>4
<1>14. CASE DropReference
  <2>1. /\ mgr = "in" /\ mgr' = "out" /\ refs' = refs - 1
        /\ UNCHANGED <<accept, handler, session>>
    BY <1>1, <1>14 DEF DropReference, HolderInv, SvcStates
  <2>2. Less("manager")
    BY <1>2, <2>1, HoldersAre
  <2> QED
    BY <2>2
<1>15. ASSUME NEW t \in Senders, SessionSendPacket(t) \/ CloseStep(t)
       PROVE  Same
  BY <1>15, HoldersKept DEF SessionSendPacket, CloseStep, CloseSocket,
     CloseSocketSession
<1>16. CASE CloseOrDelete
  <2>1. Same
    BY <1>16, HoldersKept DEF CloseOrDelete
  <2> QED
    BY <2>1
<1>17. CASE DeleteSession \/ SessionUpdate
  <2>1. /\ session = "live" /\ session' = "gone" /\ refs' = refs - 1
        /\ UNCHANGED <<accept, mgr, handler>>
    BY <1>1, <1>17 DEF DeleteSession, SessionUpdate, HolderInv, Senders
  <2>2. Less("session")
    BY <1>2, <2>1, HoldersAre
  <2> QED
    BY <2>2
<1> QED
  BY <1>3, <1>4, <1>5, <1>6, <1>7, <1>8, <1>9, <1>10, <1>11, <1>12, <1>13, <1>14,
     <1>15, <1>16, <1>17 DEF Next, NetStep, OpenStep

\* The invariant is inductive.
LEMMA InvNext ==
    ASSUME Inv, [Next]_vars
    PROVE  Inv'
<1>1. CASE Next
  <2>1. refs' = Cardinality(Holders')
    <3>1. /\ refs = Cardinality(Holders)
          /\ Holders \in SUBSET {"acceptor", "manager", "reactor", "session"}
          /\ Holders' \in SUBSET {"acceptor", "manager", "reactor", "session"}
      BY DEF Inv, Holders
    <3> QED
      BY <1>1, <3>1, RefsStep, HoldersCount
  <2> QED
    BY <1>1, <2>1, TypeNext, OpenNext, HolderNext, SessionNext, GapNext DEF Inv
<1>2. CASE UNCHANGED vars
  <2> USE DEF vars, outVars, inVars
  <2>1. Holders' = Holders
    BY <1>2 DEF Holders
  <2>2. TypeInv' /\ OpenInv' /\ HolderInv'
    BY <1>2 DEF Inv, TypeInv, OpenInv, HolderInv
  <2>3. SessionInv' /\ GapInv'
    BY <1>2 DEF Inv, SessionInv, GapInv
  <2> QED
    BY <1>2, <2>1, <2>2, <2>3 DEF Inv
<1> QED
  BY <1>1, <1>2

\* The initial state.
LEMMA InvInit ==
    ASSUME Init
    PROVE  Inv
<1>1. TypeInv
  BY DEF Init, TypeInv, AllStates
<1>2. OpenInv /\ HolderInv
  BY DEF Init, OpenInv, HolderInv, SvcStates, ReactorStates, InputStates, Senders
<1>3. SessionInv /\ GapInv
  BY DEF Init, SessionInv, GapInv, Senders
<1>4. Holders = {"acceptor"}
  BY DEF Init, Holders
<1> QED
  BY <1>1, <1>2, <1>3, <1>4, FS_Singleton DEF Inv, Init

-----------------------------------------------------------------------------
(* The theorems. *)

\* The invariant holds of every state, whatever the client sends.
THEOREM Invariance ==
    Spec => []Inv
<1>1. Init => Inv
  BY InvInit
<1>2. Inv /\ [Next]_vars => Inv'
  BY InvNext
<1> QED
  BY <1>1, <1>2, PTL DEF Spec

\* The reference count of the socket (AddReference, RemoveReference) is the number of
\* the parties that hold it, and every thread in one of its methods is such a party.
THEOREM CountIsHolders ==
    Spec => []ReferencesHeld
<1>1. Inv => ReferencesHeld
  BY DEF Inv, TypeInv, HolderInv, Holders, ReferencesHeld, AllStates, SvcStates,
     ReactorStates, InputStates
<1> QED
  BY <1>1, Invariance, PTL

\* The network thread reads m_OutBuffer only after open() has allocated it.
THEOREM BufferBeforeUpdate ==
    Spec => []NoUpdateBeforeBuffer
<1>1. Inv => NoUpdateBeforeBuffer
  BY DEF Inv, OpenInv, HolderInv, NoUpdateBeforeBuffer, SvcStates, ReactorStates
<1> QED
  BY <1>1, Invariance, PTL

\* m_Session outlives its session only while the network thread is about to clear it,
\* although CloseSocket may return before m_Session is cleared: whoever finds it set
\* under m_SessionLock uses a session that exists.
THEOREM SessionAlive ==
    Spec => []NoUseAfterDelete
<1>1. Inv => NoUseAfterDelete
  BY DEF Inv, SessionInv, NoUseAfterDelete
<1> QED
  BY <1>1, Invariance, PTL

\* The client is sent packets after one that was encrypted and then refused only
\* while the thread that was refused is about to close the socket
\* (WorldSession::SendPacket, handle_input_payload).
THEOREM GapClosed ==
    Spec => []GapWhileClosing
<1>1. Inv => GapWhileClosing
  BY DEF Inv, GapInv, GapWhileClosing
<1> QED
  BY <1>1, Invariance, PTL

\* The client gets what SendPacket accepted in the order of encryption, unless
\* handle_output_queue has dropped a block, and a gap in the key stream only while the
\* socket is about to be closed (WorldSocket.cpp, SendPacket and handle_output).
THEOREM WireOrdered == Spec => []WireInOrder
<1>1. (wire.inOrder \/ dropped) /\ GapWhileClosing => WireInOrder
  BY DEF WireInOrder
<1> QED
  BY <1>1, OutputInOrder, GapClosed, PTL

=============================================================================
