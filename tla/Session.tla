------------------------------- MODULE Session --------------------------------
(***************************************************************************)
(* One debugging session: the connection handler and the break-in worker   *)
(* of the server, a GDB client at the other end of the connection, and the *)
(* properties of the three together.                                       *)
(*                                                                         *)
(* The client is the environment the server is written for: it sends one   *)
(* request at a time and waits for the answer, acknowledges every reply in *)
(* acknowledgment mode, and sends a break-in byte only while it waits for  *)
(* a resumed target.  It may close the connection at any moment.           *)
(***************************************************************************)
EXTENDS ConnectionHandler, SequencesExt

CONSTANTS
  MaxRequests,  \* bound: requests the client makes
  MaxBreakIns,  \* bound: break-in bytes it sends
  Kinds         \* the requests it makes

ASSUME SessionAssumption ==
  /\ MaxRequests \in Nat
  /\ MaxBreakIns \in Nat
  /\ Kinds \subseteq Requests

VARIABLES
  cpc,          \* where the client is
  cAck,         \* the client is in acknowledgment mode
  gotAck,       \* its current request was acknowledged
  creq,         \* its current (or last) request
  nreq,         \* requests made
  nbrk,         \* break-in bytes sent
  lost,         \* its current request was damaged and not sent again
  noisy,        \* history: a packet was damaged in this session
  clientError   \* it received what the protocol does not allow

clientBooks == <<nreq, nbrk>>
clientVars  == <<cpc, cAck, gotAck, creq, clientBooks, lost, noisy, clientError>>
vars        == <<breakVars, handlerVars, clientVars>>

ClientPC == {"connect", "idle", "midpacket", "await", "closed"}

ClientTypeOK ==
  /\ cpc \in ClientPC
  /\ cAck \in BOOLEAN
  /\ gotAck \in BOOLEAN
  /\ creq \in Requests \cup {NoRequest}
  /\ nreq \in 0 .. MaxRequests
  /\ nbrk \in 0 .. MaxBreakIns
  /\ lost \in BOOLEAN
  /\ noisy \in BOOLEAN
  /\ clientError \in BOOLEAN

ClientInit ==
  /\ cpc = "connect"
  /\ cAck = TRUE
  /\ gotAck = FALSE
  /\ creq = NoRequest
  /\ nreq = 0
  /\ nbrk = 0
  /\ lost = FALSE
  /\ noisy = FALSE
  /\ clientError = FALSE

-----------------------------------------------------------------------------
(* The client.                                                             *)

\* Bytes arrive at the server in the order they are sent.
ClientSends(bytes) ==
  /\ rx' = rx \o bytes
  /\ UNCHANGED <<eof, closed, mutex, semaphore, terminating, target, workerVars>>
  /\ UNCHANGED handlerVars

\* On connecting, gdb sends an acknowledgment that belongs to no reply.
ClientGreets ==
  /\ cpc = "connect"
  /\ cpc' = "idle"
  /\ ClientSends(<<kACK>>)
  /\ UNCHANGED <<cAck, gotAck, creq, clientBooks, lost, noisy, clientError>>

\* The packet start and the rest of the packet may arrive apart.
ClientStartsPacket ==
  /\ cpc = "idle"
  /\ nreq < MaxRequests
  /\ cpc' = "midpacket"
  /\ nreq' = nreq + 1
  /\ gotAck' = FALSE
  /\ lost' = FALSE
  /\ \E kind \in Kinds : (kind = "noack" => cAck) /\ creq' = kind
  /\ ClientSends(<<kPacketStart>>)
  /\ UNCHANGED <<cAck, nbrk, noisy, clientError>>

\* It may be damaged on its way, unless the client has switched to the mode for
\* lines that do not damage packets.
ClientEndsPacket ==
  /\ cpc = "midpacket"
  /\ cpc' = "await"
  /\ \/ ClientSends(<<creq>>) /\ UNCHANGED <<lost, noisy>>
     \/ cAck /\ ClientSends(<<"corrupt">>) /\ lost' = TRUE /\ noisy' = TRUE
  /\ UNCHANGED <<cAck, gotAck, creq, clientBooks, clientError>>

\* No acknowledgment in time: send the packet again.
ClientResends ==
  /\ cpc = "await"
  /\ lost
  /\ cAck
  /\ ~gotAck
  /\ lost' = FALSE
  /\ ClientSends(<<kPacketStart, creq>>)
  /\ UNCHANGED <<cpc, cAck, gotAck, creq, clientBooks, noisy, clientError>>

ClientBreaksIn ==
  /\ cpc = "await"
  /\ creq = "resume"
  /\ cAck => gotAck
  /\ nbrk < MaxBreakIns
  /\ nbrk' = nbrk + 1
  /\ ClientSends(<<kBreakInByte>>)
  /\ UNCHANGED <<cpc, cAck, gotAck, creq, nreq, lost, noisy, clientError>>

ClientReceivesAck ==
  /\ cpc # "closed"
  /\ tx # <<>> /\ Head(tx) = kACK
  /\ tx' = Tail(tx)
  /\ gotAck' = TRUE
  /\ clientError' = (clientError \/ ~(cpc = "await" /\ cAck /\ ~gotAck))
  /\ UNCHANGED <<breakVars, hpc, handlerLocals, targetVars, protocolError>>
  /\ UNCHANGED <<cpc, cAck, creq, clientBooks, lost, noisy>>

\* The reply is acknowledged; the one to QStartNoAckMode is the last to be.
ClientReceivesReply ==
  /\ cpc # "closed"
  /\ tx # <<>> /\ Head(tx) = Reply
  /\ tx' = Tail(tx)
  /\ rx' = IF cAck THEN Append(rx, kACK) ELSE rx
  /\ cAck' = (cAck /\ creq # "noack")
  /\ cpc' = "idle"
  /\ clientError' = (clientError \/ cpc # "await" \/ (cAck /\ ~gotAck))
  /\ UNCHANGED <<eof, closed, mutex, semaphore, terminating, target, workerVars>>
  /\ UNCHANGED <<hpc, handlerLocals, targetVars, protocolError>>
  /\ UNCHANGED <<gotAck, creq, clientBooks, lost, noisy>>

\* The client goes away, in the middle of a packet perhaps.
ClientCloses ==
  /\ cpc # "closed"
  /\ cpc' = "closed"
  /\ eof' = TRUE
  /\ \/ UNCHANGED rx
     \/ cpc = "midpacket" /\ rx' = Append(rx, "cut")
  /\ UNCHANGED <<closed, mutex, semaphore, terminating, target, workerVars>>
  /\ UNCHANGED handlerVars
  /\ UNCHANGED <<cAck, gotAck, creq, clientBooks, lost, noisy, clientError>>

ClientReceives == ClientReceivesAck \/ ClientReceivesReply

-----------------------------------------------------------------------------
(* The session.                                                            *)

Init == BreakInInit /\ HandlerInit /\ ClientInit

ServerStep ==
  \/ HandlerProgress
  \/ CreateWrapper
  \/ TargetStops
  \/ TargetBreaksIn
  \/ WorkerStep
  \/ WorkerBreaksIn

ClientStep ==
  \/ ClientGreets
  \/ ClientStartsPacket
  \/ ClientEndsPacket
  \/ ClientResends
  \/ ClientBreaksIn
  \/ ClientReceives
  \/ ClientCloses

WorkerOver == wpc \in {"unborn", "done"}

\* The connection is over and both threads have ended.
Terminated ==
  /\ hpc = "done"
  /\ WorkerOver
  /\ cpc = "closed"
  /\ UNCHANGED vars

Next ==
  \/ ServerStep /\ UNCHANGED clientVars
  \/ ClientStep
  \/ Terminated

Spec == Init /\ [][Next]_vars

(***************************************************************************)
(* Threads run.  m_RecvMutex is released and taken again in a loop by the  *)
(* worker and once per packet by the handler, so a thread that waits for   *)
(* it is served only if the mutex does not starve its waiters: strong      *)
(* fairness.  A target that was asked to break in does so, and the client  *)
(* reads what it is sent.  Nothing else is promised: the target need not   *)
(* stop by itself, the client need not say anything more.                  *)
(***************************************************************************)
Fairness ==
  /\ WF_vars(HandlerProgress /\ UNCHANGED clientVars)
  /\ SF_vars(CreateWrapper /\ UNCHANGED clientVars)
  /\ WF_vars(TargetBreaksIn /\ UNCHANGED clientVars)
  /\ WF_vars(WorkerStep /\ UNCHANGED clientVars)
  /\ SF_vars(WorkerLock /\ UNCHANGED handlerVars /\ UNCHANGED clientVars)
  /\ WF_vars(WorkerBreaksIn /\ UNCHANGED clientVars)
  /\ WF_vars(ClientReceives)

FairSpec == Spec /\ Fairness

-----------------------------------------------------------------------------
(* Properties.                                                             *)

\* Every variable keeps its type; the bounds on the client hold.
TypeOK == BreakInTypeOK /\ HandlerTypeOK /\ ClientTypeOK

\* The worker does not touch the socket while a SocketWrapper exists, the
\* promise of BreakInSocket.h ("does not interfere with the socket").
SocketExclusive ==
  ~(hpc \in HandlerInSocket /\ wpc \in WorkerInSocket)

\* A byte that one thread has peeked and is about to interpret or discard is
\* still the first of the buffer: neither thread consumes the other's bytes.
PeekedByteStillThere ==
  /\ hpc \in {"examine", "examine2", "verify"} /\ hdata # NoData
       => rx # <<>> /\ Head(rx) = hdata
  /\ wpc = "examine" /\ wdata # NoData
       => rx # <<>> /\ Head(rx) = wdata

\* m_pTarget never points to a deleted stub, in whatever order the handler
\* tears the connection down.
TargetNeverDangles == target = Stub => stub = "live"

\* m_pTarget is used after it was copied, so a stub may be called after it was
\* deleted (BreakInOnLiveStub, below).  But a break-in is taken only for a stub
\* that lives, and a call that comes too late was begun before, on a connection
\* that is closed, and is over when the destructor of the BreakInSocket has
\* joined the worker.  So there is at most one.
LateCallBeforeJoin ==
  [][/\ WorkerBreaksIn => stub = "live" \/ (closed /\ hpc \in {"terminate", "wake", "join"})
     /\ wpc # "call" /\ wpc' = "call" => stub = "live"]_vars

\* What the handler works on is what the client waits for: no request is
\* handled twice, skipped, or handled although it arrived corrupted.
HandlesWhatIsAwaited ==
  hpc \in {"handle", "wait", "reply"} =>
    /\ cpc \in {"await", "closed"}
    /\ request = creq
    /\ Reply \notin ToSet(tx)

\* A client that keeps to the protocol makes the server report a packet error
\* only if a packet was damaged, whatever the worker does to the stream and however the break-in
\* bytes fall between the packets.
NoProtocolError == protocolError => noisy

\* The server keeps to the protocol too: each request is acknowledged exactly
\* once before its reply in acknowledgment mode and never after it, through
\* the switch that QStartNoAckMode makes.
ClientUnderstands == ~clientError

\* A closed connection ends the session, even while the target runs and the
\* handler waits for it: both threads return.
SessionEnds == cpc = "closed" ~> (hpc = "done" /\ WorkerOver)

(***************************************************************************)
(* The session implements DebugSession.  A request is asked once it is     *)
(* sent, unless it was damaged, and answered once the handler is about to send the reply; an      *)
(* interrupt is wanted from the byte in the stream, through the worker's   *)
(* or the handler's hands, to the target's latch.                          *)
(***************************************************************************)
Over == cpc = "closed" \/ closed

Phase ==
  IF Over THEN "over"
  ELSE IF cpc # "await" \/ noisy THEN "idle"
  ELSE IF running THEN "running"
  ELSE IF hpc = "reply" \/ Reply \in ToSet(tx) THEN "answered"
  ELSE "asked"

Underway == kBreakInByte \in ToSet(rx) \/ wpc = "call" \/ breakPending

Wanted == ~Over /\ Underway

DS == INSTANCE DebugSession WITH phase <- Phase, wanted <- Wanted

\* Each request is answered exactly once and no interrupt is lost on the way;
\* requests are taken up, replies arrive, and a break-in byte stops a running
\* target although the handler thread is blocked in it.
ImplementsFairDebugSession == DS!FairSpec

-----------------------------------------------------------------------------
(* What the documentation says and the code does not do.                   *)

\* BreakInSocket.h:23: a break-in is delivered to the break-in target "while
\* the packet is being processed".  The pointer the worker copied must still
\* be a stub when the worker calls it; the handler may have deleted it.
BreakInOnLiveStub == [][WorkerBreaksIn => stub = "live"]_vars
=============================================================================
