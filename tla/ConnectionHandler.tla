------------------------- MODULE ConnectionHandler --------------------------
(***************************************************************************)
(* GDBServer.cpp: the thread that serves one connection                    *)
(* (GDBServer::ConnectionHandler, FindPacketStart and                      *)
(* HandleGDBPacketAndSendReply), over the break-in socket it shares with   *)
(* the worker thread.  The inside of a packet is one symbol here: how its  *)
(* bytes are scanned, checked and unescaped is not this module's subject.  *)
(*                                                                         *)
(* The stub is the one GDBStub gives: OnBreakInRequest forwards to         *)
(* ISyncGDBTarget::SendBreakInRequestAsync, and a "resume" request blocks  *)
(* in ResumeAndWait until the target stops.  The target latches a break-in *)
(* request that finds it stopped, as DebugBreakProcess does.               *)
(***************************************************************************)
EXTENDS BreakInSocket

VARIABLES
  hpc,            \* where the handler thread is
  hdata,          \* the byte (or packet tail) its last peek returned
  ackEnabled,     \* the acknowledgment mode in force
  newAckEnabled,  \* the mode in force from the next packet on
  request,        \* what the handler is about to do with the packet it read
  stub,           \* the life of the IGDBStub and of the target it owns
  running,        \* the target is running, the handler waits for it
  breakPending,   \* the target was asked to stop and has not stopped for it
  tx,             \* what was sent and not yet received by the client
  protocolError   \* OnPacketError was called

handlerLocals == <<hdata, ackEnabled, newAckEnabled, request>>
targetVars    == <<stub, running, breakPending>>
handlerVars   == <<hpc, handlerLocals, targetVars, tx, protocolError>>

HandlerPC == {"create", "setTarget", "acquire", "find", "examine", "find2",
              "examine2", "packet", "verify", "unlock", "signal", "handle",
              "wait", "reply", "clearTarget", "close", "delete", "terminate",
              "wake", "join", "done"}

\* A SocketWrapper exists: its constructor has returned, its destructor has
\* not begun.
HandlerInSocket == {"find", "examine", "find2", "examine2", "packet",
                    "verify", "unlock"}

NoRequest == "nothing"   \* go back for the next packet without a reply
Leave     == "leave"     \* break out of the receive loop

HandlerTypeOK ==
  /\ hpc \in HandlerPC
  /\ hdata \in Bytes \cup {NoData}
  /\ ackEnabled \in BOOLEAN
  /\ newAckEnabled \in BOOLEAN
  /\ request \in Requests \cup {NoRequest, Leave}
  /\ stub \in {"none", "live", "deleted"}
  /\ running \in BOOLEAN
  /\ breakPending \in BOOLEAN
  /\ tx \in Seq(Sent)
  /\ protocolError \in BOOLEAN

HandlerInit ==
  /\ hpc = "create"
  /\ hdata = NoData
  /\ ackEnabled = TRUE
  /\ newAckEnabled = TRUE
  /\ request = NoRequest
  /\ stub = "none"
  /\ running = FALSE
  /\ breakPending = FALSE
  /\ tx = <<>>
  /\ protocolError = FALSE

-----------------------------------------------------------------------------
(* Helpers.                                                                *)

Goto(from, to) == hpc = from /\ hpc' = to

\* GDBStub::OnBreakInRequest, on behalf of either thread.
OnBreakInRequest ==
  /\ breakPending' = TRUE
  /\ UNCHANGED <<stub, running>>

\* OnPacketError(...); continue -- FindPacketStart starts over.
StartOver ==
  /\ protocolError' = TRUE
  /\ hpc' = "find"

\* Mutant: the new mode is never adopted.
TakePacketStartSameMode ==
  \/ /\ hdata = kPacketStart
     /\ hpc' = "packet"
     /\ UNCHANGED <<ackEnabled, protocolError>>
  \/ /\ hdata # kPacketStart
     /\ StartOver
     /\ UNCHANGED ackEnabled

\* The tail of FindPacketStart, common to both acknowledgment modes: take
\* one byte, which must be a packet start, and adopt the new mode.
TakePacketStart ==
  \/ /\ hdata = kPacketStart
     /\ hpc' = "packet"
     /\ ackEnabled' = newAckEnabled
     /\ UNCHANGED protocolError
  \/ /\ hdata # kPacketStart
     /\ StartOver
     /\ UNCHANGED ackEnabled

\* A break out of the receive loop; the wrapper is destroyed on the way.
LeaveLoop ==
  /\ request' = Leave
  /\ hpc' = "unlock"

-----------------------------------------------------------------------------
(* Setting up.                                                             *)

\* No factory, or CreateStub() returned NULL: close and return.
RefuseConnection ==
  /\ Goto("create", "done")
  /\ closed' = TRUE
  /\ UNCHANGED <<rx, eof, mutex, semaphore, terminating, target, workerVars>>
  /\ UNCHANGED <<handlerLocals, targetVars, tx, protocolError>>

\* CreateStub() succeeded; the BreakInSocket is constructed.
AcceptConnection ==
  /\ Goto("create", "setTarget")
  /\ Construct
  /\ stub' = "live"
  /\ UNCHANGED <<handlerLocals, running, breakPending, tx, protocolError>>

InstallTarget ==
  /\ Goto("setTarget", "acquire")
  /\ SetTarget(Stub)
  /\ UNCHANGED <<handlerLocals, targetVars, tx, protocolError>>

-----------------------------------------------------------------------------
(* FindPacketStart.                                                        *)

CreateWrapper ==
  /\ Goto("acquire", "find")
  /\ AcquireWrapper
  /\ UNCHANGED <<handlerLocals, targetVars, tx, protocolError>>

PeekByte(from, to) ==
  /\ Goto(from, to)
  /\ \E byte \in Bytes \cup {NoData} : PeekReturns(byte) /\ hdata' = byte
  /\ UNCHANGED breakVars
  /\ UNCHANGED <<ackEnabled, newAckEnabled, request, targetVars, tx, protocolError>>

PeekFirst  == PeekByte("find", "examine")
PeekSecond == PeekByte("find2", "examine2")

\* if (!pPacket || !available) return false;
ConnectionLost ==
  /\ hpc \in {"examine", "examine2"}
  /\ hdata = NoData
  /\ LeaveLoop
  /\ UNCHANGED breakVars
  /\ UNCHANGED <<hdata, ackEnabled, newAckEnabled, targetVars, tx, protocolError>>

ExamineBreakIn ==
  /\ Goto("examine", "find")
  /\ hdata = kBreakInByte
  /\ OnBreakInRequest
  /\ DiscardPeeked(hdata)
  /\ UNCHANGED <<eof, closed, mutex, semaphore, terminating, target, workerVars>>
  /\ UNCHANGED <<handlerLocals, tx, protocolError>>

ExamineAck ==
  /\ hpc = "examine"
  /\ hdata \notin {NoData, kBreakInByte}
  /\ ackEnabled
  /\ DiscardPeeked(hdata)
  /\ \/ hdata = kACK /\ hpc' = "find2" /\ UNCHANGED protocolError
     \/ hdata # kACK /\ StartOver
  /\ UNCHANGED <<eof, closed, mutex, semaphore, terminating, target, workerVars>>
  /\ UNCHANGED <<handlerLocals, targetVars, tx>>

ExamineStart ==
  /\ \/ hpc = "examine" /\ ~ackEnabled /\ hdata # kBreakInByte
     \/ hpc = "examine2"
  /\ hdata # NoData
  /\ DiscardPeeked(hdata)
  /\ TakePacketStart
  /\ UNCHANGED <<eof, closed, mutex, semaphore, terminating, target, workerVars>>
  /\ UNCHANGED <<hdata, newAckEnabled, request, targetVars, tx>>

-----------------------------------------------------------------------------
(* The rest of the packet.                                                 *)

\* The peeks that find the end of the packet and its checksum; they wait for
\* the whole tail, which a "cut" one never becomes.
PeekPacket ==
  /\ Goto("packet", "verify")
  /\ \/ rx # <<>> /\ Head(rx) \in Tails \ {"cut"} /\ hdata' = Head(rx)
     \/ rx \in {<<>>, <<"cut">>} /\ (eof \/ closed) /\ hdata' = NoData
  /\ UNCHANGED breakVars
  /\ UNCHANGED <<ackEnabled, newAckEnabled, request, targetVars, tx, protocolError>>

PacketLost ==
  /\ hpc = "verify"
  /\ hdata = NoData
  /\ LeaveLoop
  /\ UNCHANGED breakVars
  /\ UNCHANGED <<hdata, ackEnabled, newAckEnabled, targetVars, tx, protocolError>>

\* Mutant: the checksum is not compared.
ChecksumIgnored ==
  /\ Goto("verify", "unlock")
  /\ hdata = "corrupt"
  /\ request' = "query"
  /\ DiscardPeeked(hdata)
  /\ tx' = IF ackEnabled THEN Append(tx, kACK) ELSE tx
  /\ UNCHANGED <<eof, closed, mutex, semaphore, terminating, target, workerVars>>
  /\ UNCHANGED <<hdata, ackEnabled, newAckEnabled, targetVars, protocolError>>

\* OnPacketError(...); continue -- nothing is discarded, nothing is sent, and
\* the wrapper is destroyed and created anew.
ChecksumMismatch ==
  /\ Goto("verify", "unlock")
  /\ hdata = "corrupt"
  /\ protocolError' = TRUE
  /\ request' = NoRequest
  /\ UNCHANGED breakVars
  /\ UNCHANGED <<hdata, ackEnabled, newAckEnabled, targetVars, tx>>

PacketReceived ==
  /\ Goto("verify", "unlock")
  /\ hdata \in Requests
  /\ DiscardPeeked(hdata)
  /\ tx' = IF ackEnabled THEN Append(tx, kACK) ELSE tx
  /\ request' = hdata
  /\ UNCHANGED <<eof, closed, mutex, semaphore, terminating, target, workerVars>>
  /\ UNCHANGED <<hdata, ackEnabled, newAckEnabled, targetVars, protocolError>>

\* SocketWrapper::~SocketWrapper
ReleaseMutex ==
  /\ Goto("unlock", "signal")
  /\ UnlockWrapper
  /\ UNCHANGED <<handlerLocals, targetVars, tx, protocolError>>

SignalWorker ==
  /\ hpc = "signal"
  /\ SignalWrapper
  /\ hpc' = CASE request = Leave     -> "clearTarget"
              [] request = NoRequest -> "acquire"
              [] OTHER               -> "handle"
  /\ UNCHANGED <<handlerLocals, targetVars, tx, protocolError>>

-----------------------------------------------------------------------------
(* HandleGDBPacketAndSendReply.                                            *)

HandleQuery ==
  /\ Goto("handle", "reply")
  /\ request = "query"
  /\ UNCHANGED breakVars
  /\ UNCHANGED <<handlerLocals, targetVars, tx, protocolError>>

\* Mutant: the new mode takes effect at once.
QStartNoAckModeAtOnce ==
  /\ Goto("handle", "reply")
  /\ request = "noack"
  /\ newAckEnabled' = FALSE
  /\ ackEnabled' = FALSE
  /\ UNCHANGED breakVars
  /\ UNCHANGED <<hdata, request, targetVars, tx, protocolError>>

QStartNoAckMode ==
  /\ Goto("handle", "reply")
  /\ request = "noack"
  /\ newAckEnabled' = FALSE
  /\ UNCHANGED breakVars
  /\ UNCHANGED <<hdata, ackEnabled, request, targetVars, tx, protocolError>>

\* The stub calls ResumeAndWait (or Step).
HandleResume ==
  /\ Goto("handle", "wait")
  /\ request = "resume"
  /\ running' = TRUE
  /\ UNCHANGED breakVars
  /\ UNCHANGED <<handlerLocals, stub, breakPending, tx, protocolError>>

\* ResumeAndWait returns because of an event of the target's own.
TargetStops ==
  /\ Goto("wait", "reply")
  /\ running' = FALSE
  /\ UNCHANGED breakVars
  /\ UNCHANGED <<handlerLocals, stub, breakPending, tx, protocolError>>

\* ResumeAndWait returns because of a break-in request.
TargetBreaksIn ==
  /\ Goto("wait", "reply")
  /\ breakPending
  /\ running' = FALSE
  /\ breakPending' = FALSE
  /\ UNCHANGED breakVars
  /\ UNCHANGED <<handlerLocals, stub, tx, protocolError>>

SendReply ==
  /\ Goto("reply", "acquire")
  /\ tx' = Append(tx, Reply)
  /\ request' = NoRequest
  /\ UNCHANGED breakVars
  /\ UNCHANGED <<hdata, ackEnabled, newAckEnabled, targetVars, protocolError>>

-----------------------------------------------------------------------------
(* Tearing down, in the order of the code after the loop: SetTarget(NULL), *)
(* Close(), delete pStub, and then the destructor of the BreakInSocket.    *)

\* Mutant: the target stays set.
ClearTargetForgotten ==
  /\ Goto("clearTarget", "close")
  /\ UNCHANGED <<breakVars, handlerLocals, targetVars, tx, protocolError>>

ClearTarget ==
  /\ Goto("clearTarget", "close")
  /\ SetTarget(Null)
  /\ UNCHANGED <<handlerLocals, targetVars, tx, protocolError>>

CloseSocket ==
  /\ Goto("close", "delete")
  /\ closed' = TRUE
  /\ UNCHANGED <<rx, eof, mutex, semaphore, terminating, target, workerVars>>
  /\ UNCHANGED <<handlerLocals, targetVars, tx, protocolError>>

DeleteStub ==
  /\ Goto("delete", "terminate")
  /\ stub' = "deleted"
  /\ UNCHANGED breakVars
  /\ UNCHANGED <<handlerLocals, running, breakPending, tx, protocolError>>

BeginDestruction ==
  /\ Goto("terminate", "wake")
  /\ RaiseTerminating
  /\ UNCHANGED <<handlerLocals, targetVars, tx, protocolError>>

WakeWorker ==
  /\ Goto("wake", "join")
  /\ SignalTermination
  /\ UNCHANGED <<handlerLocals, targetVars, tx, protocolError>>

Join ==
  /\ Goto("join", "done")
  /\ JoinWorker
  /\ UNCHANGED <<handlerLocals, targetVars, tx, protocolError>>

-----------------------------------------------------------------------------
(* The two threads.                                                        *)

WorkerStep ==
  /\ WorkerInternal
  /\ UNCHANGED handlerVars

\* OnBreakInRequest from the worker thread, on the pointer it copied.
WorkerBreaksIn ==
  /\ WorkerCalls
  /\ OnBreakInRequest
  /\ UNCHANGED <<hpc, handlerLocals, tx, protocolError>>

\* The steps of the handler that wait for nobody but the mutex and the peer.
HandlerProgress ==
  \/ RefuseConnection \/ AcceptConnection \/ InstallTarget
  \/ PeekFirst \/ PeekSecond \/ ConnectionLost
  \/ ExamineBreakIn \/ ExamineAck \/ ExamineStart
  \/ PeekPacket \/ PacketLost \/ ChecksumMismatch \/ PacketReceived
  \/ ReleaseMutex \/ SignalWorker
  \/ HandleQuery \/ QStartNoAckMode \/ HandleResume \/ SendReply
  \/ ClearTarget \/ CloseSocket \/ DeleteStub
  \/ BeginDestruction \/ WakeWorker \/ Join
=============================================================================
