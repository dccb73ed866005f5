---------------------------- MODULE WorldSocket ----------------------------
(***************************************************************************)
(* One client connection: WorldSocket, the two parties of WorldSocketMgr   *)
(* that drive it and the WorldSession that writes to it.                   *)
(*                                                                         *)
(*   acceptor   runs open(): makes the socket known to a network thread    *)
(*              (AddSocket), allocates the output buffer, sends the first  *)
(*              packet and registers the handler with the reactor;         *)
(*   network    runs ReactorRunnable::svc: dispatches handle_input and     *)
(*              handle_output, then AddNewSockets and Update();            *)
(*   world,     send packets through WorldSession::SendPacket and close    *)
(*   maps       the socket; only the world thread, while no map thread     *)
(*              runs, updates and deletes the session.                     *)
(*                                                                         *)
(* Bytes are abstracted to units.  An outgoing packet is a run of units    *)
(* that all carry its number, which is also its place in the stream cipher *)
(* of the packet headers.  A step is what one thread does under one        *)
(* acquisition of m_OutBufferLock or of m_SessionLock.                     *)
(***************************************************************************)
EXTENDS Integers, FiniteSets, Sequences, Functions

CONSTANTS
  MapThreads,    \* the threads of MapUpdater that may send to the client
  BufferSize,    \* m_OutBufferSize, in units
  HighWater,     \* high_water_mark of msg_queue(), in units
  GreetSize,     \* the size of SMSG_AUTH_CHALLENGE
  ReplySize,     \* the size of SMSG_PONG and of SMSG_AUTH_RESPONSE
  Sizes,         \* the sizes of the packets of the session
  MaxPackets,    \* bound: the session sends while fewer packets were encrypted
  HeaderSize,    \* sizeof(ClientPktHeader)
  RecvSize,      \* the buffer of handle_input_missing_data
  Client         \* what the client sends: a sequence of [kind, size]

World == "world"
Senders == MapThreads \cup {World}

ASSUME SocketConstants ==
  /\ World \notin MapThreads
  /\ {BufferSize, HighWater, GreetSize, ReplySize, MaxPackets, HeaderSize,
      RecvSize} \cup Sizes \subseteq Nat \ {0}
  /\ \A i \in DOMAIN Client : /\ Client[i].kind \in {"auth", "ping", "data"}
                              /\ Client[i].size \in Nat
  /\ \A i, j \in DOMAIN Client :
       Client[i].kind = "auth" /\ Client[j].kind = "auth" => i = j

VARIABLES
  accept,     \* where open() stands
  allocated,  \* m_OutBuffer # NULL
  closing,    \* closing_
  outActive,  \* m_OutActive
  outBuffer,  \* the units in m_OutBuffer
  queue,      \* msg_queue(): a sequence of blocks
  handler,    \* the reactor's [on, write]: registered, and for WRITE_MASK
  refs,       \* the reference count; the socket is deleted at 0
  mgr,        \* the network thread's list that holds the socket
  session,    \* the WorldSession: "none", "live", "gone", or "leaked": made
              \* but never given to the world
  mSession,   \* m_Session # NULL
  net,        \* where the network thread stands
  chunk,      \* [left, full]: the units left in message_block, n = recv_size
  header,     \* m_Header.length()
  payload,    \* m_RecvPct.space()
  toCome,     \* how many of the client's units have not been received
  seen,       \* how many packets handle_input_payload has taken
  pc,         \* where each sender stands
  sent,       \* how many headers EncryptSend has encrypted
  refused,    \* the packets SendPacket encrypted and then refused
  awaited,    \* the units SendPacket has accepted, less as many as were sent
  wire,       \* what the client sees, [inOrder, gap]: the units it gets are
              \* those awaited; one is encrypted after one that was refused
  dropped     \* a queued block was lost by an ignored enqueue_head

outVars == <<outBuffer, queue, awaited, wire, dropped, sent, refused>>
inVars == <<chunk, header, payload, toCome, seen>>
vars == <<accept, allocated, closing, outActive, outVars, handler, refs, mgr,
          session, mSession, net, inVars, pc>>

Length(packets) == FoldFunction(LAMBDA p, n : n + HeaderSize + p.size, 0, packets)

Init ==
  /\ accept = "start" /\ allocated = FALSE /\ closing = FALSE
  /\ outActive = FALSE /\ outBuffer = <<>> /\ queue = <<>>
  /\ handler = [on |-> FALSE, write |-> FALSE]
  /\ refs = 1 /\ mgr = "none"
  /\ session = "none" /\ mSession = FALSE
  /\ net = "reactor" /\ chunk = [left |-> 0, full |-> FALSE]
  /\ header = 0 /\ payload = 0 /\ toCome = Length(Client) /\ seen = 0
  /\ pc = [t \in Senders |-> "idle"]
  /\ sent = 0 /\ refused = {} /\ dropped = FALSE
  /\ awaited = <<>> /\ wire = [inOrder |-> TRUE, gap |-> FALSE]

-----------------------------------------------------------------------------
(* Sending. *)

Bytes(blocks) == FoldFunction(LAMBDA block, n : n + Len(block), 0, blocks)

(* ACE_Message_Queue::is_full_i: the bytes queued, not those to be added. *)
IsFull(blocks) == Bytes(blocks) >= HighWater

(* The packet goes into the buffer: there is space and nothing is queued.  *)
(* Mutant: the queue is not looked at.                                     *)
FitsBuffer_AnyQueue(size) == BufferSize - Len(outBuffer) >= size

FitsBuffer(size) ==
  /\ BufferSize - Len(outBuffer) >= size
  /\ queue = <<>>

(* SendPacket past its closing_ test: the header is encrypted first, so a  *)
(* packet the queue then refuses has used its part of the key stream.      *)
Accepted(size) == FitsBuffer(size) \/ ~IsFull(queue)

SendPacket(size) ==
  LET unit == [i \in 1..size |-> sent + 1] IN
  /\ sent' = sent + 1
  /\ IF FitsBuffer(size)
       THEN outBuffer' = outBuffer \o unit /\ UNCHANGED queue
       ELSE /\ queue' = IF IsFull(queue) THEN queue ELSE Append(queue, unit)
            /\ UNCHANGED outBuffer
  /\ awaited' = IF Accepted(size) THEN awaited \o unit ELSE awaited
  /\ refused' = IF Accepted(size) THEN refused ELSE refused \cup {sent + 1}
  /\ UNCHANGED <<wire, dropped>>

-----------------------------------------------------------------------------
(* The acceptor thread: ACE_Acceptor calls open(), and close() if it fails. *)

netState == <<net, inVars>>

(* m_OutActive keeps Update() away until open() is through.                *)
(* Mutant: it is not set.                                                  *)
OpenSocket_Inactive ==
  /\ accept = "start"
  /\ \/ /\ mgr' = "new" /\ refs' = refs + 1 /\ accept' = "added"
     \/ /\ accept' = "failed" /\ UNCHANGED <<mgr, refs>>
  /\ UNCHANGED <<allocated, closing, outActive, outVars, handler, session,
                 mSession, netState, pc>>

OpenSocket ==
  /\ accept = "start"
  /\ outActive' = TRUE
  /\ \/ /\ mgr' = "new" /\ refs' = refs + 1 /\ accept' = "added"
     \/ /\ accept' = "failed" /\ UNCHANGED <<mgr, refs>>
  /\ UNCHANGED <<allocated, closing, outVars, handler, session, mSession,
                 netState, pc>>

OpenBuffer ==
  /\ accept = "added"
  /\ allocated' = TRUE
  /\ accept' \in {"allocated", "failed"}
  /\ UNCHANGED <<closing, outActive, outVars, handler, refs, mgr, session,
                 mSession, netState, pc>>

OpenGreet ==
  /\ accept = "allocated"
  /\ SendPacket(GreetSize)
  /\ accept' = IF Accepted(GreetSize) THEN "greeted" ELSE "failed"
  /\ UNCHANGED <<allocated, closing, outActive, handler, refs, mgr, session,
                 mSession, netState, pc>>

OpenRegister ==
  /\ accept = "greeted"
  /\ \/ /\ handler' = [on |-> TRUE, write |-> TRUE]
        /\ refs' = refs + 1 /\ accept' = "registered"
     \/ /\ accept' = "failed" /\ UNCHANGED <<handler, refs>>
  /\ UNCHANGED <<allocated, closing, outActive, outVars, mgr, session, mSession,
                 netState, pc>>

OpenDone ==
  /\ accept = "registered"
  /\ refs' = refs - 1 /\ accept' = "done"
  /\ UNCHANGED <<allocated, closing, outActive, outVars, handler, mgr, session,
                 mSession, netState, pc>>

CloseFailed ==
  /\ accept = "failed"
  /\ closing' = TRUE
  /\ refs' = refs - 1 /\ accept' = "done"
  /\ UNCHANGED <<allocated, outActive, outVars, handler, mgr, session, mSession,
                 netState, pc>>

-----------------------------------------------------------------------------
(* The network thread, output. *)

acceptState == <<accept, allocated>>

(* Where the thread goes when the handle_output it is in returns -1, 0 or  *)
(* WRITE_MASK.  handle_output is called by the reactor (net = "reactor"),  *)
(* or by Update(), itself called by handle_input or by svc.                *)
Return(code) ==
  net' = CASE code = "fail" /\ net = "flush_svc" -> "drop"
           [] code = "fail" /\ net # "flush_svc" -> "close"
           [] code = "more" -> net
           [] code = "ok" -> "reactor"

(* schedule_wakeup_output and cancel_wakeup_output, whose result           *)
(* handle_output returns: the reactor may refuse.                          *)
(* Mutant: cancelling leaves m_OutActive set.                              *)
WakeupOutput_StaysActive(on) ==
  /\ outActive' = TRUE
  /\ handler' = [handler EXCEPT !.write = on]
  /\ Return("ok")

WakeupOutput(on) ==
  /\ outActive' = on
  /\ \/ /\ handler' = IF outActive = on THEN handler
                       ELSE [handler EXCEPT !.write = on]
        /\ Return("ok")
     \/ /\ outActive # on
        /\ Return("fail") /\ UNCHANGED handler

IsPrefix(s, t) == Len(s) <= Len(t) /\ \A i \in DOMAIN s : s[i] = t[i]

(* The kernel takes these units. *)
Taken(units) ==
  /\ awaited' = SubSeq(awaited, Len(units) + 1, Len(awaited))
  /\ wire' = [inOrder |-> wire.inOrder /\ IsPrefix(units, awaited),
              gap |-> wire.gap \/ \E i \in DOMAIN units :
                                   \E r \in refused : r < units[i]]

(* handle_output_queue, the units w having been sent already: the kernel   *)
(* takes n units of the first block, or the send fails.                    *)
OutputQueue(w) ==
  \/ /\ queue = <<>>
     /\ Taken(w) /\ WakeupOutput(FALSE)
     /\ UNCHANGED <<queue, dropped>>
  \/ /\ queue # <<>>
     /\ \E n \in 0..Len(Head(queue)) :
          LET rest == Tail(queue)
              left == SubSeq(Head(queue), n + 1, Len(Head(queue)))
          IN  /\ Taken(w \o SubSeq(Head(queue), 1, n))
              /\ \/ /\ left = <<>> /\ rest = <<>>
                    /\ queue' = rest /\ WakeupOutput(FALSE)
                    /\ UNCHANGED dropped
                 \/ /\ left = <<>> /\ rest # <<>>
                    /\ queue' = rest /\ Return("more")
                    /\ UNCHANGED <<outActive, handler, dropped>>
                 \/ /\ left # <<>> /\ ~IsFull(rest)
                    /\ queue' = <<left>> \o rest /\ WakeupOutput(TRUE)
                    /\ UNCHANGED dropped
                 \/ /\ n = 0 /\ IsFull(rest)
                    /\ queue' = rest /\ dropped' = TRUE /\ WakeupOutput(TRUE)
                 \/ /\ n > 0 /\ left # <<>> /\ IsFull(rest)
                    /\ queue' = rest /\ Return("fail")
                    /\ UNCHANGED <<outActive, handler, dropped>>
  \/ /\ queue # <<>>
     /\ queue' = Tail(queue) /\ Taken(w) /\ Return("fail")
     /\ UNCHANGED <<outActive, handler, dropped>>

(* handle_output: the buffer first, all of it or n units, and then, if it  *)
(* is empty, the first block of the queue.                                 *)
HandleOutput ==
  /\ \/ net \in {"flush_input", "flush_svc"}
     \/ net = "reactor" /\ handler.on /\ handler.write
  /\ \/ /\ closing
        /\ Return("fail")
        /\ UNCHANGED <<outBuffer, queue, awaited, wire, dropped, outActive, handler>>
     \/ /\ ~closing /\ outBuffer # <<>>
        /\ Return("fail")
        /\ UNCHANGED <<outBuffer, queue, awaited, wire, dropped, outActive, handler>>
     \/ /\ ~closing
        /\ \E n \in 0..Len(outBuffer) - 1 :
             /\ n > 0 \/ net # "reactor"
             /\ Taken(SubSeq(outBuffer, 1, n))
             /\ outBuffer' = SubSeq(outBuffer, n + 1, Len(outBuffer))
        /\ WakeupOutput(TRUE)
        /\ UNCHANGED <<queue, dropped>>
     \/ /\ ~closing
        /\ outBuffer' = <<>>
        /\ OutputQueue(outBuffer)
  /\ UNCHANGED <<acceptState, closing, refs, mgr, session, mSession, inVars, pc,
                 sent, refused>>

(* Update(), called by handle_input or by svc.                             *)
(* Mutant: a closing socket is nothing to report.                          *)
Update_IgnoreClosing ==
  /\ net \in {"update_input", "update_svc"}
  /\ net' = IF ~closing /\ ~outActive /\ (outBuffer # <<>> \/ queue # <<>>)
              THEN IF net = "update_svc" THEN "flush_svc" ELSE "flush_input"
              ELSE "reactor"
  /\ UNCHANGED <<acceptState, closing, outActive, outVars, handler, refs, mgr,
                 session, mSession, inVars, pc>>

Update ==
  /\ net \in {"update_input", "update_svc"}
  /\ net' = CASE closing ->
                   IF net = "update_svc" THEN "drop" ELSE "close"
              [] ~closing /\ ~outActive /\ (outBuffer # <<>> \/ queue # <<>>) ->
                   IF net = "update_svc" THEN "flush_svc" ELSE "flush_input"
              [] OTHER -> "reactor"
  /\ UNCHANGED <<acceptState, closing, outActive, outVars, handler, refs, mgr,
                 session, mSession, inVars, pc>>

-----------------------------------------------------------------------------
(* The network thread, input. *)

outState == <<outActive, outVars, handler>>

Lesser(m, n) == IF m <= n THEN m ELSE n

(* handle_input up to recv(): some of the client's units, the end of the   *)
(* connection or an error, or nothing more when handle_input had returned  *)
(* 1 and is called again.                                                  *)
HandleInput ==
  /\ net \in {"reactor", "again"} /\ handler.on
  /\ \/ /\ net' = "close"
        /\ UNCHANGED <<chunk, toCome>>
     \/ /\ ~closing /\ net = "again"
        /\ net' = "update_input"
        /\ UNCHANGED <<chunk, toCome>>
     \/ /\ ~closing
        /\ \E n \in 1..Lesser(RecvSize, toCome) :
             /\ chunk' = [left |-> n, full |-> n = RecvSize]
             /\ toCome' = toCome - n
        /\ net' = "input"
  /\ UNCHANGED <<acceptState, closing, outState, refs, mgr, session, mSession,
                 header, payload, seen, pc>>

(* The way out of an error that is reported with the client's account:     *)
(* m_Session is tested, without m_SessionLock, and then used (PeekSession). *)
ReportError == net' = IF mSession THEN "peek" ELSE "close"

(* The head of the loop of handle_input_missing_data and the header part:  *)
(* a header may be malformed.                                              *)
InputHeader ==
  /\ net = "input"
  /\ LET take == Lesser(chunk.left, HeaderSize - header)
         whole == take > 0 /\ header + take = HeaderSize
     IN
       /\ header' = header + take
       /\ chunk' = [chunk EXCEPT !.left = @ - take]
       /\ \/ /\ whole
             /\ ReportError /\ UNCHANGED payload
          \/ /\ payload' = IF whole THEN Client[seen + 1].size ELSE payload
             /\ net' = CASE chunk.left = 0 ->
                               IF chunk.full THEN "again" ELSE "update_input"
                         [] chunk.left > 0 /\ header' < HeaderSize -> "update_input"
                         [] OTHER -> "payload"
  /\ UNCHANGED <<acceptState, closing, outState, refs, mgr, session, mSession,
                 toCome, seen, pc>>

(* The payload part, and the closing_ test at the head of ProcessIncoming. *)
(* With tracing on, the packet is logged with the client's account, again  *)
(* without m_SessionLock.                                                  *)
InputPayload ==
  /\ net = "payload"
  /\ LET take == Lesser(chunk.left, payload) IN
       /\ payload' = payload - take
       /\ chunk' = [chunk EXCEPT !.left = @ - take]
  /\ \/ /\ payload' = 0 /\ ~closing /\ mSession
        /\ net' = "trace"
     \/ net' = CASE payload' > 0 -> "update_input"
                 [] payload' = 0 /\ closing -> "close"
                 [] OTHER -> "process"
  /\ UNCHANGED <<acceptState, closing, outState, refs, mgr, session, mSession,
                 header, toCome, seen, pc>>

(* m_Session was seen without m_SessionLock and is used now.  If it has    *)
(* been cleared since, this is a null pointer or, if the compiler kept the *)
(* pointer, a session that may have been deleted: the server crashes, or   *)
(* the memory still serves.                                                *)
PeekSession ==
  /\ net \in {"peek", "trace"}
  /\ \/ net' = IF net = "peek" THEN "close" ELSE "process"
     \/ ~mSession /\ net' = "crashed"
  /\ UNCHANGED <<acceptState, closing, outState, refs, mgr, session, mSession,
                 inVars, pc>>

(* ProcessIncoming past that test, and the rest of handle_input_payload.   *)
(* The session is made and given to the world; or the login is refused,    *)
(* answered (SendAuthResponseError) and returns -1; or the packet ends too *)
(* soon (ByteBufferException), in its login part or, the session having    *)
(* been made, in the list of addons: then AddSession is not reached.       *)
HandleAuthSession ==
  \/ /\ mSession' = TRUE /\ refs' = refs + 1
     /\ \/ session' = "live" /\ net' = "input"
        \/ session' = "leaked" /\ net' = "peek"
     /\ UNCHANGED outState
  \/ /\ SendPacket(ReplySize)
     /\ net' = "close"
     /\ UNCHANGED <<mSession, session, refs, outActive, handler>>
  \/ /\ ReportError
     /\ UNCHANGED <<mSession, session, refs, outState>>

(* The session's latency is set under m_SessionLock and the answer sent    *)
(* under m_OutBufferLock: what another thread does in between shows in     *)
(* closing_.  A client that pings too often is dropped, and so is one      *)
(* whose packet ends too soon.                                             *)
HandlePing ==
  /\ UNCHANGED <<mSession, session, refs, outActive, handler>>
  /\ \/ /\ ~mSession \/ closing
        /\ net' = "close" /\ UNCHANGED outVars
     \/ /\ mSession
        /\ net' = "close" /\ UNCHANGED outVars
     \/ /\ ReportError /\ UNCHANGED outVars
     \/ /\ mSession /\ ~closing
        /\ SendPacket(ReplySize)
        /\ net' = IF Accepted(ReplySize) THEN "input" ELSE "close"

QueuePacket ==
  /\ net' = IF mSession THEN "input" ELSE "close"
  /\ UNCHANGED <<mSession, session, refs, outState>>

ProcessIncoming ==
  /\ net = "process" /\ seen + 1 \in DOMAIN Client
  /\ CASE Client[seen + 1].kind = "auth" -> HandleAuthSession
       [] Client[seen + 1].kind = "ping" -> HandlePing
       [] Client[seen + 1].kind = "data" -> QueuePacket
  /\ seen' = seen + 1 /\ header' = 0
  /\ UNCHANGED <<acceptState, closing, mgr, chunk, payload, toCome, pc>>

-----------------------------------------------------------------------------
(* The network thread, closing. *)

ioState == <<outState, inVars>>

(* handle_close, called by the reactor when a handler returns -1.          *)
HandleClose ==
  /\ net = "close"
  /\ closing' = TRUE
  /\ net' = "close_session"
  /\ UNCHANGED <<acceptState, ioState, refs, mgr, session, mSession, pc>>

HandleCloseSession ==
  /\ net = "close_session"
  /\ mSession' = FALSE
  /\ net' = "close_handler"
  /\ UNCHANGED <<acceptState, closing, ioState, refs, mgr, session, pc>>

(* remove_handler gives the reactor's reference back.                      *)
(* Mutant: the handler is not removed.                                     *)
RemoveHandler_Kept ==
  /\ net = "close_handler"
  /\ refs' = refs - 1
  /\ net' = "reactor"
  /\ UNCHANGED <<acceptState, closing, ioState, mgr, session, mSession, pc>>

RemoveHandler ==
  /\ net = "close_handler"
  /\ handler' = [on |-> FALSE, write |-> FALSE]
  /\ refs' = refs - 1
  /\ net' = "reactor"
  /\ UNCHANGED <<acceptState, closing, outActive, outVars, inVars, mgr, session,
                 mSession, pc>>

(* ReactorRunnable::svc after the event loop: AddNewSockets, then Update   *)
(* for the sockets it has.                                                 *)
AddNewSockets ==
  /\ net = "reactor" /\ mgr \in {"new", "in"}
  /\ mgr' = IF mgr = "new" /\ closing THEN "out" ELSE "in"
  /\ refs' = IF mgr' = "out" THEN refs - 1 ELSE refs
  /\ net' = IF mgr' = "out" THEN "reactor" ELSE "update_svc"
  /\ UNCHANGED <<acceptState, closing, ioState, session, mSession, pc>>

(* svc when Update() returned -1: CloseSocket, then RemoveReference.       *)
DropSocket ==
  /\ net = "drop"
  /\ closing' = TRUE
  /\ net' = IF closing THEN "drop_reference" ELSE "drop_session"
  /\ UNCHANGED <<acceptState, ioState, refs, mgr, session, mSession, pc>>

DropSession ==
  /\ net = "drop_session"
  /\ mSession' = FALSE
  /\ net' = "drop_reference"
  /\ UNCHANGED <<acceptState, closing, ioState, refs, mgr, session, pc>>

DropReference ==
  /\ net = "drop_reference"
  /\ refs' = refs - 1 /\ mgr' = "out"
  /\ net' = "reactor"
  /\ UNCHANGED <<acceptState, closing, ioState, session, mSession, pc>>

NetStep ==
  \/ HandleOutput \/ Update \/ HandleInput \/ InputHeader \/ InputPayload
  \/ PeekSession \/ ProcessIncoming \/ HandleClose \/ HandleCloseSession
  \/ RemoveHandler \/ AddNewSockets \/ DropSocket \/ DropSession
  \/ DropReference

-----------------------------------------------------------------------------
(* The world thread and the map threads.  MapManager::Update waits for the *)
(* map threads, so the world thread runs only while they are idle.         *)

senderFrame == <<acceptState, outActive, handler, mgr, net, inVars>>

MayRun(t) == \A u \in Senders : u # t /\ World \in {t, u} => pc[u] = "idle"

(* WorldSession::SendPacket closes the socket when SendPacket returns -1.  *)
SessionSendPacket(t) ==
  /\ pc[t] = "idle" /\ MayRun(t) /\ session = "live" /\ ~closing
  /\ sent < MaxPackets
  /\ \E size \in Sizes :
       /\ SendPacket(size)
       /\ pc' = [pc EXCEPT ![t] = IF Accepted(size) THEN "idle" ELSE "closing"]
  /\ UNCHANGED <<senderFrame, closing, refs, session, mSession>>

(* KickPlayer, the idle timeout of Update, or ~WorldSession for a session  *)
(* that still has its socket (AddSession_): each begins with CloseSocket.  *)
(* A kick does nothing to a socket that is closing.                        *)
CloseOrDelete ==
  /\ pc[World] = "idle" /\ MayRun(World) /\ session = "live"
  /\ \E task \in {"closing", "deleting"} :
       /\ task = "closing" => ~closing
       /\ pc' = [pc EXCEPT ![World] = task]
  /\ UNCHANGED <<senderFrame, closing, outVars, refs, session, mSession>>

(* CloseSocket, one step for each of its two locks. *)
AfterClose(t) == IF pc[t] \in {"closing", "closing_session"} THEN "idle" ELSE "delete"

CloseSocket(t) ==
  /\ pc[t] \in {"closing", "deleting"}
  /\ closing' = TRUE
  /\ pc' = [pc EXCEPT ![t] =
        CASE closing -> AfterClose(t)
          [] ~closing /\ @ = "closing" -> "closing_session"
          [] ~closing /\ @ = "deleting" -> "deleting_session"]
  /\ UNCHANGED <<senderFrame, outVars, refs, session, mSession>>

(* Mutant: m_Session is left as it is. *)
CloseSocketSession_Kept(t) ==
  /\ pc[t] \in {"closing_session", "deleting_session"}
  /\ pc' = [pc EXCEPT ![t] = AfterClose(t)]
  /\ UNCHANGED <<senderFrame, closing, outVars, refs, session, mSession>>

CloseSocketSession(t) ==
  /\ pc[t] \in {"closing_session", "deleting_session"}
  /\ mSession' = FALSE
  /\ pc' = [pc EXCEPT ![t] = AfterClose(t)]
  /\ UNCHANGED <<senderFrame, closing, outVars, refs, session>>

(* The rest of ~WorldSession. *)
DeleteSession ==
  /\ pc[World] = "delete"
  /\ refs' = refs - 1 /\ session' = "gone"
  /\ pc' = [pc EXCEPT ![World] = "idle"]
  /\ UNCHANGED <<senderFrame, closing, outVars, mSession>>

(* WorldSession::Update finds its socket closed: it lets go of it and      *)
(* returns false, and UpdateSessions deletes the session.                  *)
SessionUpdate ==
  /\ pc[World] = "idle" /\ MayRun(World) /\ session = "live" /\ closing
  /\ refs' = refs - 1 /\ session' = "gone"
  /\ UNCHANGED <<senderFrame, closing, outVars, mSession, pc>>

-----------------------------------------------------------------------------
OpenStep == \/ OpenSocket \/ OpenBuffer \/ OpenGreet \/ OpenRegister
            \/ OpenDone \/ CloseFailed

CloseStep(t) == CloseSocket(t) \/ CloseSocketSession(t)

Next ==
  /\ net # "crashed"
  /\ \/ OpenStep \/ NetStep
     \/ \E t \in Senders : SessionSendPacket(t) \/ CloseStep(t)
     \/ CloseOrDelete \/ DeleteSession \/ SessionUpdate

(* The acceptor finishes open(); the network thread keeps running its loop *)
(* (svc) and the steps it has begun; epoll reports a writable socket, if   *)
(* the peer keeps reading; the world thread keeps updating sessions.       *)
Fairness ==
  /\ WF_vars(OpenStep)
  /\ WF_vars(NetStep /\ net # "reactor")
  /\ WF_vars(AddNewSockets)
  /\ SF_vars(HandleOutput /\ net = "reactor")
  /\ \A t \in Senders : WF_vars(CloseStep(t))
  /\ WF_vars(DeleteSession) /\ WF_vars(SessionUpdate)

Spec == Init /\ [][Next]_vars /\ Fairness

-----------------------------------------------------------------------------
TypeOK ==
  /\ accept \in {"start", "added", "allocated", "greeted", "registered",
                 "failed", "done"}
  /\ {allocated, closing, outActive, mSession, dropped} \subseteq BOOLEAN
  /\ handler \in [on : BOOLEAN, write : BOOLEAN]
  /\ refs \in 0..4 /\ mgr \in {"none", "new", "in", "out"}
  /\ session \in {"none", "live", "leaked", "gone"}
  /\ net \in {"reactor", "again", "update_input", "update_svc", "flush_input",
              "flush_svc", "input", "payload", "peek", "trace", "process",
              "crashed", "close", "close_session", "close_handler", "drop",
              "drop_session", "drop_reference"}
  /\ header \in 0..HeaderSize /\ seen \in 0..Len(Client) /\ sent \in Nat
  /\ Len(outBuffer) <= BufferSize

(* A packet that was encrypted and then refused leaves a gap in the key    *)
(* stream the client decrypts with: later packets can still reach the      *)
(* wire, but only while the thread that was refused is about to close the  *)
(* socket (WorldSession.cpp:222, WorldSocket.cpp:1014).                    *)
GapWhileClosing ==
  wire.gap => \/ closing
              \/ \E t \in Senders : pc[t] = "closing"
              \/ net = "close"

(* The client gets what SendPacket accepted, in the order in which the     *)
(* headers were encrypted and without a hole, although the packets come    *)
(* from several threads and go through a buffer and a queue and the kernel *)
(* takes them in any portions.  The exception is the enqueue_head of       *)
(* WorldSocket.cpp:390, whose failure is ignored: it fails when the blocks *)
(* behind the one taken out reach the high-water mark by themselves.       *)
(* A gap in the key stream means that the socket is about to be closed.    *)
WireInOrder == (wire.inOrder \/ dropped) /\ GapWhileClosing

(* The reference count is the number of those that hold the socket (the    *)
(* acceptor until open() is over, the network thread's list, the reactor,  *)
(* the session), and a thread that is inside one of its methods is one of  *)
(* them: the socket is deleted exactly when the last one lets go.          *)
ReferencesHeld ==
  /\ refs = Cardinality({h \in {"acceptor", "manager", "reactor", "session"} :
               CASE h = "acceptor" -> accept # "done"
                 [] h = "manager" -> mgr \in {"new", "in"}
                 [] h = "reactor" -> handler.on
                 [] h = "session" -> session \in {"live", "leaked"}})
  /\ net \in {"update_svc", "flush_svc", "drop", "drop_session", "drop_reference"}
       => mgr = "in"
  /\ net \notin {"reactor", "update_svc", "flush_svc", "drop", "drop_session",
                 "drop_reference"} => handler.on
  /\ (\E t \in Senders : pc[t] # "idle") => session = "live"

(* "This will also prevent the socket from being Updated while we are      *)
(* initializing it" (WorldSocket.cpp:228): the network thread reads        *)
(* m_OutBuffer only after open() has allocated it, although AddSocket gave *)
(* it the socket before.                                                   *)
NoUpdateBeforeBuffer ==
  ( \/ net \in {"flush_svc", "flush_input"}
    \/ net \in {"update_svc", "update_input"} /\ ~closing /\ ~outActive
    \/ net = "reactor" /\ handler.on /\ handler.write )
  => allocated

(* m_Session outlives its session only while the network thread itself is  *)
(* between the two critical sections of handle_close or CloseSocket: no    *)
(* other thread can delete the session before the thread that set closing_ *)
(* has cleared m_Session, although CloseSocket returns early when closing_ *)
(* is set.  So a network thread that finds m_Session set under             *)
(* m_SessionLock (WorldSocket.cpp:694-707, 983-1000) uses a session that   *)
(* exists.  It says nothing of the uses without that lock (:474-478,       *)
(* :670-671, :717), which PeekSession models: the pointer they have tested *)
(* may be cleared, and the session deleted, before they use it.            *)
NoUseAfterDelete ==
  mSession /\ session = "gone" => net \in {"close_session", "drop_session"}

(* What was accepted is sent in the end, or the connection is closed (or a *)
(* block was dropped): no output waits for a wakeup that does not come,    *)
(* whichever of Update(), handle_output and handle_input ran last.         *)
OutputFlushed == <>[](closing \/ dropped \/ awaited = <<>>)

(* A socket that is closed, by whichever side, is let go in the end by the *)
(* acceptor, by the network thread's list and by the session, unless the   *)
(* session was leaked; and by the reactor too, so that it is deleted, once *)
(* an event handler has returned -1, as handle_input does when the peer    *)
(* answers the close.  (Unless the server crashes.)                        *)
SocketFreed ==
  LET leaked == IF session = "leaked" THEN 1 ELSE 0
      registered == IF handler.on THEN 1 ELSE 0
  IN  /\ closing ~> (net = "crashed" \/ refs = leaked + registered)
      /\ net = "close" ~> (net = "crashed" \/ refs = leaked)

=============================================================================
