---------------------------- MODULE SessionProofs -----------------------------
(***************************************************************************)
(* Theorems about Session, for any number of requests and break-in bytes,  *)
(* with and without damaged packets.                                       *)
(*                                                                         *)
(* There are two inductive invariants.  IInv is the type invariant with    *)
(* what each thread's program point says about m_RecvMutex, about the byte *)
(* it has peeked, and about the life of the stub: mutual exclusion and the *)
(* safety of the peeked bytes and of the break-in target follow from it.   *)
(* SessionInv says how far the client and the handler are in their         *)
(* exchange, and what is on its way between them at that point: that they  *)
(* never misunderstand each other follows from it, and that the session    *)
(* implements DebugSession.                                                *)
(***************************************************************************)
EXTENDS Session, TLAPS

\* The owner of the mutex is the thread that is at a point inside it.
MutexOwned ==
  /\ mutex = Handler <=> hpc \in HandlerInSocket
  /\ mutex = Worker  <=> wpc \in WorkerInSocket

\* The pointer is installed after the stub is created and cleared before the
\* stub is deleted.
StubLife ==
  /\ hpc = "create" => stub = "none" /\ target = Null /\ wpc = "unborn"
  /\ hpc \in {"close", "delete", "terminate", "wake", "join",
              "done"} => target = Null
  /\ hpc \notin {"create", "terminate", "wake", "join", "done"} => stub = "live"
  /\ hpc \notin {"create", "setTarget", "close", "delete", "terminate", "wake",
                 "join", "done"}
       => target = Stub

\* Whoever sends or awaits a packet knows what is in it.
RequestKnown == cpc \in {"midpacket", "await"} => creq \in Requests

IInv ==
  /\ TypeOK
  /\ RequestKnown
  /\ MutexOwned
  /\ PeekedByteStillThere
  /\ StubLife

-----------------------------------------------------------------------------
(* Type correctness.                                                       *)

LEMMA TypeInit == Init => TypeOK
PROOF
  <1> SUFFICES ASSUME Init PROVE TypeOK
    OBVIOUS
  <1> USE DEF Init, BreakInInit, HandlerInit, ClientInit
  <1>1. /\ eof \in BOOLEAN /\ closed \in BOOLEAN /\ terminating \in BOOLEAN
        /\ running \in BOOLEAN
        /\ breakPending \in BOOLEAN /\ protocolError \in BOOLEAN
        /\ gotAck \in BOOLEAN /\ lost \in BOOLEAN /\ noisy \in BOOLEAN /\ clientError \in BOOLEAN
    OBVIOUS
  <1>2. BreakInTypeOK
    BY <1>1 DEF BreakInTypeOK, WorkerPC, Free, Null, Stub
  <1>3. HandlerTypeOK
    BY <1>1 DEF HandlerTypeOK, HandlerPC
  <1>4. ClientTypeOK
    BY <1>1, SessionAssumption DEF ClientTypeOK, ClientPC, SessionAssumption
  <1> QED
    BY <1>2, <1>3, <1>4 DEF TypeOK

LEMMA TypeWorker ==
  ASSUME TypeOK, PeekedByteStillThere,
         WorkerStep \/ WorkerBreaksIn, UNCHANGED clientVars
  PROVE  TypeOK'
PROOF
  <1> USE DEF TypeOK, BreakInTypeOK, HandlerTypeOK, ClientTypeOK, WorkerPC,
              socketVars, clientVars, clientBooks, handlerVars, handlerLocals,
              targetVars, Free, Handler, Worker
  <1>1. CASE WorkerLock /\ UNCHANGED handlerVars
    BY <1>1 DEF WorkerLock
  <1>2. CASE WorkerCheck /\ UNCHANGED handlerVars
    BY <1>2 DEF WorkerCheck
  <1>3. CASE WorkerPeek /\ UNCHANGED handlerVars
    BY <1>3 DEF WorkerPeek
  <1>4. CASE WorkerTakesBreakIn /\ UNCHANGED handlerVars
    <2>1. rx' \in Seq(Bytes)
      BY <1>4 DEF WorkerTakesBreakIn, DiscardPeeked, PeekedByteStillThere
    <2> QED
      BY <1>4, <2>1 DEF WorkerTakesBreakIn
  <1>5. CASE WorkerSuspends /\ UNCHANGED handlerVars
    BY <1>5 DEF WorkerSuspends
  <1>6. CASE WorkerWakes /\ UNCHANGED handlerVars
    BY <1>6 DEF WorkerWakes
  <1>7. CASE WorkerBreaksIn
    BY <1>7 DEF WorkerBreaksIn, WorkerCalls, OnBreakInRequest
  <1> QED
    BY <1>1, <1>2, <1>3, <1>4, <1>5, <1>6, <1>7 DEF WorkerStep, WorkerInternal

LEMMA TypeHandler ==
  ASSUME TypeOK, PeekedByteStillThere, UNCHANGED clientVars,
         HandlerProgress \/ CreateWrapper \/ TargetStops \/ TargetBreaksIn
  PROVE  TypeOK'
PROOF
  <1> USE DEF TypeOK, BreakInTypeOK, HandlerTypeOK, ClientTypeOK, HandlerPC,
              WorkerPC, breakVars, socketVars, workerVars, clientVars,
              clientBooks, handlerLocals, targetVars, Goto, Free, Handler, Null,
              Stub, Requests
  <1>1. CASE RefuseConnection
    BY <1>1 DEF RefuseConnection
  <1>2. CASE AcceptConnection
    BY <1>2 DEF AcceptConnection, Construct
  <1>3. CASE InstallTarget
    BY <1>3 DEF InstallTarget, SetTarget
  <1>4. CASE CreateWrapper
    BY <1>4 DEF CreateWrapper, AcquireWrapper
  <1>5. CASE PeekFirst
    BY <1>5 DEF PeekFirst, PeekByte
  <1>6. CASE PeekSecond
    BY <1>6 DEF PeekSecond, PeekByte
  <1>7. CASE ConnectionLost
    BY <1>7 DEF ConnectionLost, LeaveLoop
  <1>8. CASE ExamineBreakIn
    <2>1. rx' \in Seq(Bytes)
      BY <1>8 DEF ExamineBreakIn, DiscardPeeked, PeekedByteStillThere
    <2> QED
      BY <1>8, <2>1 DEF ExamineBreakIn, OnBreakInRequest
  <1>9. CASE ExamineAck
    <2>1. rx' \in Seq(Bytes)
      BY <1>9 DEF ExamineAck, DiscardPeeked, PeekedByteStillThere
    <2>2. protocolError' \in BOOLEAN /\ hpc' \in {"find", "find2"}
      BY <1>9 DEF ExamineAck, StartOver
    <2> QED
      BY <1>9, <2>1, <2>2 DEF ExamineAck, StartOver
  <1>10. CASE ExamineStart
    <2>1. rx' \in Seq(Bytes)
      BY <1>10 DEF ExamineStart, DiscardPeeked, PeekedByteStillThere
    <2>2. /\ protocolError' \in BOOLEAN
          /\ ackEnabled' \in BOOLEAN
          /\ hpc' \in {"find", "packet"}
      BY <1>10 DEF ExamineStart, TakePacketStart, StartOver
    <2> QED
      BY <1>10, <2>1, <2>2 DEF ExamineStart, TakePacketStart, StartOver
  <1>11. CASE PeekPacket
    BY <1>11 DEF PeekPacket, Bytes, Tails
  <1>12. CASE PacketLost
    BY <1>12 DEF PacketLost, LeaveLoop
  <1>13. CASE ChecksumMismatch
    BY <1>13 DEF ChecksumMismatch
  <1>14. CASE PacketReceived
    <2>1. rx' \in Seq(Bytes)
      BY <1>14 DEF PacketReceived, DiscardPeeked, PeekedByteStillThere, NoData
    <2>2. tx' \in Seq(Sent)
      BY <1>14 DEF PacketReceived, Sent
    <2> QED
      BY <1>14, <2>1, <2>2 DEF PacketReceived
  <1>15. CASE ReleaseMutex
    BY <1>15 DEF ReleaseMutex, UnlockWrapper
  <1>16. CASE SignalWorker
    BY <1>16 DEF SignalWorker, SignalWrapper
  <1>17. CASE HandleQuery
    BY <1>17 DEF HandleQuery
  <1>18. CASE QStartNoAckMode
    <2>1. newAckEnabled' \in BOOLEAN
      BY <1>18 DEF QStartNoAckMode
    <2> QED
      BY <1>18, <2>1 DEF QStartNoAckMode
  <1>19. CASE HandleResume
    BY <1>19 DEF HandleResume
  <1>20. CASE TargetStops
    <2>1. running' \in BOOLEAN
      BY <1>20 DEF TargetStops
    <2> QED
      BY <1>20, <2>1 DEF TargetStops
  <1>21. CASE TargetBreaksIn
    <2>1. running' \in BOOLEAN /\ breakPending' \in BOOLEAN
      BY <1>21 DEF TargetBreaksIn
    <2> QED
      BY <1>21, <2>1 DEF TargetBreaksIn
  <1>22. CASE SendReply
    BY <1>22 DEF SendReply, Sent
  <1>23. CASE ClearTarget
    BY <1>23 DEF ClearTarget, SetTarget
  <1>24. CASE CloseSocket
    BY <1>24 DEF CloseSocket
  <1>25. CASE DeleteStub
    BY <1>25 DEF DeleteStub
  <1>26. CASE BeginDestruction
    BY <1>26 DEF BeginDestruction, RaiseTerminating
  <1>27. CASE WakeWorker
    BY <1>27 DEF WakeWorker, SignalTermination
  <1>28. CASE Join
    BY <1>28 DEF Join, JoinWorker
  <1> QED
    BY <1>1, <1>2, <1>3, <1>4, <1>5, <1>6, <1>7, <1>8, <1>9, <1>10, <1>11,
       <1>12, <1>13, <1>14, <1>15, <1>16, <1>17, <1>18, <1>19, <1>20, <1>21,
       <1>22, <1>23, <1>24, <1>25, <1>26, <1>27, <1>28
    DEF HandlerProgress

LEMMA TypeClient ==
  ASSUME TypeOK, RequestKnown, ClientStep
  PROVE  TypeOK'
PROOF
  <1> USE SessionAssumption
      DEF TypeOK, BreakInTypeOK, HandlerTypeOK, ClientTypeOK, ClientPC, Bytes,
          Tails, Requests, breakVars, socketVars, workerVars, handlerVars,
          handlerLocals, targetVars, clientBooks, ClientSends, SessionAssumption
  <1>1. CASE ClientGreets
    BY <1>1 DEF ClientGreets
  <1>2. CASE ClientStartsPacket
    <2>1. gotAck' \in BOOLEAN /\ lost' \in BOOLEAN /\ noisy' \in BOOLEAN
      BY <1>2 DEF ClientStartsPacket
    <2> QED
      BY <1>2, <2>1 DEF ClientStartsPacket
  <1>3. CASE ClientEndsPacket
    <2>1. lost' \in BOOLEAN /\ noisy' \in BOOLEAN
      BY <1>3 DEF ClientEndsPacket
    <2>2. creq \in Bytes /\ "corrupt" \in Bytes
      BY <1>3 DEF ClientEndsPacket, RequestKnown
    <2>3. rx' \in Seq(Bytes)
      <3>1. CASE rx' = rx \o <<creq>>
        BY <2>2, <3>1
      <3>2. CASE rx' = rx \o <<"corrupt">>
        BY <2>2, <3>2
      <3> QED
        BY <1>3, <3>1, <3>2 DEF ClientEndsPacket
    <2> QED
      BY <1>3, <2>1, <2>3 DEF ClientEndsPacket
  <1>4. CASE ClientResends
    <2>1. lost' \in BOOLEAN /\ noisy' \in BOOLEAN
      BY <1>4 DEF ClientResends
    <2>2. rx' \in Seq(Bytes)
      BY <1>4 DEF ClientResends, RequestKnown
    <2> QED
      BY <1>4, <2>1, <2>2 DEF ClientResends
  <1>5. CASE ClientBreaksIn
    BY <1>5 DEF ClientBreaksIn
  <1>6. CASE ClientReceivesAck
    BY <1>6 DEF ClientReceivesAck
  <1>7. CASE ClientReceivesReply
    BY <1>7 DEF ClientReceivesReply
  <1>8. CASE ClientCloses
    BY <1>8 DEF ClientCloses
  <1> QED
    BY <1>1, <1>2, <1>3, <1>4, <1>5, <1>6, <1>7, <1>8
    DEF ClientStep, ClientReceives

LEMMA TypeStep ==
  ASSUME TypeOK, PeekedByteStillThere, RequestKnown, [Next]_vars
  PROVE  TypeOK'
PROOF
  <1>1. CASE ServerStep /\ UNCHANGED clientVars
    BY <1>1, TypeWorker, TypeHandler DEF ServerStep
  <1>2. CASE ClientStep
    BY <1>2, TypeClient
  <1>3. CASE UNCHANGED vars
    BY <1>3
    DEF vars, breakVars, socketVars, workerVars, handlerVars, handlerLocals,
        targetVars, clientVars, clientBooks, TypeOK, BreakInTypeOK,
        HandlerTypeOK, ClientTypeOK
  <1> QED
    BY <1>1, <1>2, <1>3 DEF Next, Terminated

LEMMA RequestKnownStep ==
  ASSUME RequestKnown, [Next]_vars, SessionAssumption
  PROVE  RequestKnown'
PROOF
  <1> USE DEF RequestKnown, clientVars
  <1>1. CASE UNCHANGED clientVars
    BY <1>1
  <1>2. CASE ClientStep
    BY <1>2
    DEF ClientStep, ClientGreets, ClientStartsPacket, ClientEndsPacket,
        ClientResends, ClientBreaksIn, ClientReceives, ClientReceivesAck,
        ClientReceivesReply, ClientCloses, SessionAssumption
  <1> QED
    BY <1>1, <1>2 DEF Next, Terminated, vars

-----------------------------------------------------------------------------
(* Mutual exclusion.                                                       *)

LEMMA MutexStep ==
  ASSUME TypeOK, MutexOwned, [Next]_vars
  PROVE  MutexOwned'
PROOF
  <1> USE DEF MutexOwned, HandlerInSocket, WorkerInSocket, Free, Handler,
              Worker, workerVars, handlerVars, breakVars
  <1>1. CASE WorkerStep
    BY <1>1
    DEF WorkerStep, WorkerInternal, WorkerLock, WorkerCheck, WorkerPeek,
        WorkerTakesBreakIn, WorkerSuspends, WorkerWakes
  <1>2. CASE WorkerBreaksIn
    BY <1>2 DEF WorkerBreaksIn, WorkerCalls
  <1>3. CASE HandlerProgress
    BY <1>3
    DEF HandlerProgress, Goto, RefuseConnection, AcceptConnection, Construct,
        InstallTarget, SetTarget, PeekFirst, PeekSecond, PeekByte,
        ConnectionLost, LeaveLoop, ExamineBreakIn, ExamineAck, StartOver,
        ExamineStart, TakePacketStart, PeekPacket, PacketLost,
        ChecksumMismatch, PacketReceived, ReleaseMutex, UnlockWrapper,
        SignalWorker, SignalWrapper, HandleQuery, QStartNoAckMode,
        HandleResume, SendReply, ClearTarget, CloseSocket, DeleteStub,
        BeginDestruction, RaiseTerminating, WakeWorker, SignalTermination,
        Join, JoinWorker
  <1>4. CASE CreateWrapper
    BY <1>4 DEF CreateWrapper, AcquireWrapper, Goto
  <1>5. CASE TargetStops \/ TargetBreaksIn
    BY <1>5 DEF TargetStops, TargetBreaksIn, Goto
  <1>6. CASE ClientStep
    BY <1>6
    DEF ClientStep, ClientGreets, ClientStartsPacket, ClientEndsPacket,
        ClientResends, ClientBreaksIn, ClientReceives, ClientReceivesAck,
        ClientReceivesReply, ClientCloses, ClientSends
  <1>7. CASE UNCHANGED vars
    BY <1>7 DEF vars
  <1> QED
    BY <1>1, <1>2, <1>3, <1>4, <1>5, <1>6, <1>7
    DEF Next, ServerStep, Terminated

LEMMA MutexExcludes == MutexOwned => SocketExclusive
  BY DEF MutexOwned, SocketExclusive, Handler, Worker

-----------------------------------------------------------------------------
(* A peeked byte stays in place.                                           *)

\* More bytes behind a buffer's first one leave it where it is.
LEMMA HeadStays ==
  ASSUME NEW s \in Seq(Bytes), NEW t \in Seq(Bytes), s # <<>>
  PROVE  s \o t # <<>> /\ Head(s \o t) = Head(s)
  OBVIOUS

\* The client only ever adds to the end of what the server receives.
LEMMA ClientAppends ==
  ASSUME TypeOK, RequestKnown, ClientStep
  PROVE  /\ rx' = rx \/ \E t \in Seq(Bytes) : rx' = rx \o t
         /\ UNCHANGED <<hpc, hdata, wpc, wdata>>
PROOF
  <1>1. UNCHANGED <<hpc, hdata, wpc, wdata>>
    BY DEF ClientStep, ClientGreets, ClientStartsPacket, ClientEndsPacket,
       ClientResends, ClientBreaksIn, ClientReceives, ClientReceivesAck,
       ClientReceivesReply, ClientCloses, ClientSends, workerVars, handlerVars,
       handlerLocals, breakVars
  <1>2. rx' = rx \/ \E t \in Seq(Bytes) : rx' = rx \o t
    <2> USE DEF ClientSends, Tails
    <2>1. rx \in Seq(Bytes) /\ \A b \in Bytes : Append(rx, b) = rx \o <<b>>
      BY DEF TypeOK, BreakInTypeOK
    <2>2. \A b, c \in Bytes : <<b>> \in Seq(Bytes) /\ <<b, c>> \in Seq(Bytes)
      OBVIOUS
    <2>3. {kACK, kPacketStart, kBreakInByte, "corrupt", "cut"} \subseteq Bytes
      BY DEF Bytes
    <2>4. CASE ClientGreets
      BY <2>2, <2>3, <2>4 DEF ClientGreets
    <2>5. CASE ClientStartsPacket
      BY <2>2, <2>3, <2>5 DEF ClientStartsPacket
    <2>6. CASE ClientEndsPacket
      <3>1. creq \in Bytes
        BY <2>6 DEF ClientEndsPacket, RequestKnown, Bytes
      <3> QED
        BY <2>2, <2>3, <2>6, <3>1 DEF ClientEndsPacket
    <2>7. CASE ClientResends
      <3>1. creq \in Bytes
        BY <2>7 DEF ClientResends, RequestKnown, Bytes
      <3> QED
        BY <2>2, <2>3, <2>7, <3>1 DEF ClientResends
    <2>8. CASE ClientBreaksIn
      BY <2>2, <2>3, <2>8 DEF ClientBreaksIn
    <2>9. CASE ClientReceivesAck
      BY <2>9 DEF ClientReceivesAck, breakVars, socketVars
    <2>10. CASE ClientReceivesReply
      BY <2>1, <2>2, <2>3, <2>10 DEF ClientReceivesReply
    <2>11. CASE ClientCloses
      BY <2>1, <2>2, <2>3, <2>11 DEF ClientCloses
    <2> QED
      BY <2>4, <2>5, <2>6, <2>7, <2>8, <2>9, <2>10, <2>11
      DEF ClientStep, ClientReceives
  <1> QED
    BY <1>1, <1>2

LEMMA PeekStep ==
  ASSUME TypeOK, RequestKnown, MutexOwned, PeekedByteStillThere, [Next]_vars
  PROVE  PeekedByteStillThere'
PROOF
  <1> USE DEF PeekedByteStillThere, MutexOwned, HandlerInSocket,
              WorkerInSocket, Handler, Worker, breakVars, socketVars,
              workerVars, handlerVars, handlerLocals
  <1>1. CASE WorkerStep
    BY <1>1
    DEF WorkerStep, WorkerInternal, WorkerLock, WorkerCheck, WorkerPeek,
        PeekReturns, WorkerTakesBreakIn, WorkerSuspends, WorkerWakes
  <1>2. CASE WorkerBreaksIn
    BY <1>2 DEF WorkerBreaksIn, WorkerCalls
  <1>3. CASE PeekFirst \/ PeekSecond \/ PeekPacket
    BY <1>3 DEF PeekFirst, PeekSecond, PeekPacket, PeekByte, PeekReturns, Goto
  <1>4. CASE ExamineBreakIn \/ ExamineAck \/ ExamineStart \/ PacketReceived
    BY <1>4
    DEF ExamineBreakIn, ExamineAck, ExamineStart, PacketReceived, StartOver,
        TakePacketStart, Goto
  <1>5. CASE \/ RefuseConnection \/ AcceptConnection \/ InstallTarget
             \/ CreateWrapper \/ ConnectionLost \/ PacketLost
             \/ ChecksumMismatch \/ ReleaseMutex \/ SignalWorker
             \/ HandleQuery \/ QStartNoAckMode \/ HandleResume
             \/ TargetStops \/ TargetBreaksIn \/ SendReply
             \/ ClearTarget \/ CloseSocket \/ DeleteStub
             \/ BeginDestruction \/ WakeWorker \/ Join
    <2>1. UNCHANGED <<rx, wdata>> /\ (wpc' = wpc \/ wpc' = "lock")
      BY <1>5
      DEF RefuseConnection, AcceptConnection, Construct, InstallTarget,
          SetTarget, CreateWrapper, AcquireWrapper, ConnectionLost, PacketLost,
          ChecksumMismatch, ReleaseMutex, UnlockWrapper, SignalWorker,
          SignalWrapper, HandleQuery, QStartNoAckMode, HandleResume,
          TargetStops, TargetBreaksIn, SendReply, ClearTarget, CloseSocket,
          DeleteStub, BeginDestruction, RaiseTerminating, WakeWorker,
          SignalTermination, Join, JoinWorker
    <2>2. hpc' \notin {"examine", "examine2", "verify"}
      BY <1>5
      DEF RefuseConnection, AcceptConnection, InstallTarget, CreateWrapper,
          ConnectionLost, LeaveLoop, PacketLost, ChecksumMismatch,
          ReleaseMutex, SignalWorker, HandleQuery, QStartNoAckMode,
          HandleResume, TargetStops, TargetBreaksIn, SendReply, ClearTarget,
          CloseSocket, DeleteStub, BeginDestruction, WakeWorker, Join, Goto
    <2> QED
      BY <2>1, <2>2
  <1>6. CASE ClientStep
    <2>1. rx \in Seq(Bytes)
      BY DEF TypeOK, BreakInTypeOK
    <2> QED
      BY <1>6, <2>1, ClientAppends, HeadStays
  <1>7. CASE UNCHANGED vars
    BY <1>7 DEF vars
  <1> QED
    BY <1>1, <1>2, <1>3, <1>4, <1>5, <1>6, <1>7
    DEF Next, ServerStep, HandlerProgress, Terminated

-----------------------------------------------------------------------------
(* The life of the stub and of the pointer to it.                          *)

LEMMA StubStep ==
  ASSUME StubLife, [Next]_vars
  PROVE  StubLife'
PROOF
  <1> USE DEF StubLife, breakVars, workerVars, handlerVars, targetVars, Null
  <1>1. CASE WorkerStep \/ WorkerBreaksIn
    BY <1>1
    DEF WorkerStep, WorkerInternal, WorkerLock, WorkerCheck, WorkerPeek,
        WorkerTakesBreakIn, WorkerSuspends, WorkerWakes, WorkerBreaksIn,
        WorkerCalls, OnBreakInRequest
  <1>2. CASE \/ RefuseConnection \/ AcceptConnection \/ InstallTarget
             \/ ClearTarget \/ CloseSocket \/ DeleteStub
             \/ BeginDestruction \/ WakeWorker \/ Join
    BY <1>2
    DEF Goto, RefuseConnection, AcceptConnection, Construct, InstallTarget,
        SetTarget, ClearTarget, CloseSocket, DeleteStub, BeginDestruction,
        RaiseTerminating, WakeWorker, SignalTermination, Join, JoinWorker
  <1>3. CASE \/ CreateWrapper \/ PeekFirst \/ PeekSecond \/ ConnectionLost
             \/ ExamineBreakIn \/ ExamineAck \/ ExamineStart \/ PeekPacket
             \/ PacketLost \/ ChecksumMismatch \/ PacketReceived
             \/ ReleaseMutex \/ SignalWorker \/ HandleQuery
             \/ QStartNoAckMode \/ HandleResume \/ TargetStops
             \/ TargetBreaksIn \/ SendReply
    BY <1>3
    DEF Goto, CreateWrapper, AcquireWrapper, PeekFirst, PeekSecond, PeekByte,
        ConnectionLost, LeaveLoop, ExamineBreakIn, OnBreakInRequest,
        ExamineAck, StartOver, ExamineStart, TakePacketStart, PeekPacket,
        PacketLost, ChecksumMismatch, PacketReceived, ReleaseMutex,
        UnlockWrapper, SignalWorker, SignalWrapper, HandleQuery,
        QStartNoAckMode, HandleResume, TargetStops, TargetBreaksIn, SendReply
  <1>4. CASE ClientStep
    BY <1>4
    DEF ClientStep, ClientGreets, ClientStartsPacket, ClientEndsPacket,
        ClientResends, ClientBreaksIn, ClientReceives, ClientReceivesAck,
        ClientReceivesReply, ClientCloses, ClientSends
  <1>5. CASE UNCHANGED vars
    BY <1>5 DEF vars
  <1> QED
    BY <1>1, <1>2, <1>3, <1>4, <1>5
    DEF Next, ServerStep, HandlerProgress, Terminated

LEMMA StubLifeHolds == TypeOK /\ StubLife => TargetNeverDangles
  BY DEF StubLife, TargetNeverDangles, TypeOK, HandlerTypeOK, HandlerPC, Null,
     Stub

-----------------------------------------------------------------------------
(* The threads: theorems.                                                  *)

\* Every step of either thread and of the client preserves the invariant.
THEOREM Inductive == Spec => []IInv
PROOF
  <1>1. Init => IInv
    <2> SUFFICES ASSUME Init PROVE IInv
      OBVIOUS
    <2> USE DEF Init, BreakInInit, HandlerInit, ClientInit
    <2>1. TypeOK
      BY TypeInit
    <2>2. RequestKnown
      BY DEF RequestKnown
    <2>3. MutexOwned
      BY DEF MutexOwned, HandlerInSocket, WorkerInSocket, Free, Handler, Worker
    <2>4. PeekedByteStillThere
      BY DEF PeekedByteStillThere
    <2>5. StubLife
      BY DEF StubLife
    <2> QED
      BY <2>1, <2>2, <2>3, <2>4, <2>5 DEF IInv
  <1>2. IInv /\ [Next]_vars => IInv'
    BY TypeStep, RequestKnownStep, MutexStep, PeekStep, StubStep,
       SessionAssumption
    DEF IInv
  <1> QED
    BY <1>1, <1>2, PTL DEF Spec

\* Type correctness, for every number of requests and break-in bytes.
THEOREM TypeCorrect == Spec => []TypeOK
PROOF
  <1>1. IInv => TypeOK
    BY DEF IInv
  <1> QED
    BY <1>1, Inductive, PTL

\* The worker never touches the socket while a SocketWrapper exists.
THEOREM Exclusion == Spec => []SocketExclusive
PROOF
  <1>1. IInv => SocketExclusive
    BY MutexExcludes DEF IInv
  <1> QED
    BY <1>1, Inductive, PTL

\* A byte that was peeked is still there when it is interpreted or discarded.
THEOREM PeekedByteSafe == Spec => []PeekedByteStillThere
PROOF
  <1>1. IInv => PeekedByteStillThere
    BY DEF IInv
  <1> QED
    BY <1>1, Inductive, PTL

\* The break-in target is a live stub whenever it is set.
THEOREM TargetSafe == Spec => []TargetNeverDangles
PROOF
  <1>1. IInv => TargetNeverDangles
    BY StubLifeHolds DEF IInv
  <1> QED
    BY <1>1, Inductive, PTL

\* What a late call finds: the worker is past its last call when it is joined,
\* and the socket is closed before the stub is deleted.
LateCall ==
  /\ hpc = "done" => wpc # "call"
  /\ hpc \in {"delete", "terminate", "wake", "join"} => closed

LEMMA LateCallStep ==
  ASSUME IInv, LateCall, [Next]_vars
  PROVE  LateCall'
PROOF
  <1> USE DEF LateCall, breakVars, socketVars, workerVars, handlerVars, Null
  <1>1. CASE WorkerStep \/ WorkerBreaksIn
    BY <1>1
    DEF WorkerStep, WorkerInternal, WorkerLock, WorkerCheck, WorkerPeek,
        WorkerTakesBreakIn, WorkerSuspends, WorkerWakes, WorkerBreaksIn,
        WorkerCalls, OnBreakInRequest, IInv, StubLife
  <1>2. CASE \/ RefuseConnection \/ AcceptConnection \/ InstallTarget
             \/ ClearTarget \/ CloseSocket \/ DeleteStub
             \/ BeginDestruction \/ WakeWorker \/ Join
    BY <1>2
    DEF Goto, RefuseConnection, AcceptConnection, Construct, InstallTarget,
        SetTarget, ClearTarget, CloseSocket, DeleteStub, BeginDestruction,
        RaiseTerminating, WakeWorker, SignalTermination, Join, JoinWorker,
        IInv, StubLife
  <1>3. CASE \/ CreateWrapper \/ PeekFirst \/ PeekSecond \/ ConnectionLost
             \/ ExamineBreakIn \/ ExamineAck \/ ExamineStart \/ PeekPacket
             \/ PacketLost \/ ChecksumMismatch \/ PacketReceived
             \/ ReleaseMutex \/ SignalWorker \/ HandleQuery
             \/ QStartNoAckMode \/ HandleResume \/ TargetStops
             \/ TargetBreaksIn \/ SendReply
    BY <1>3
    DEF Goto, CreateWrapper, AcquireWrapper, PeekFirst, PeekSecond, PeekByte,
        ConnectionLost, LeaveLoop, ExamineBreakIn, OnBreakInRequest,
        ExamineAck, StartOver, ExamineStart, TakePacketStart, PeekPacket,
        PacketLost, ChecksumMismatch, PacketReceived, ReleaseMutex,
        UnlockWrapper, SignalWorker, SignalWrapper, HandleQuery,
        QStartNoAckMode, HandleResume, TargetStops, TargetBreaksIn, SendReply
  <1>4. CASE ClientStep
    BY <1>4
    DEF ClientStep, ClientGreets, ClientStartsPacket, ClientEndsPacket,
        ClientResends, ClientBreaksIn, ClientReceives, ClientReceivesAck,
        ClientReceivesReply, ClientCloses, ClientSends
  <1>5. CASE UNCHANGED vars
    BY <1>5 DEF vars
  <1> QED
    BY <1>1, <1>2, <1>3, <1>4, <1>5
    DEF Next, ServerStep, HandlerProgress, Terminated

\* Only a worker that holds the pointer already makes a call on a deleted stub,
\* and it does so before it is joined.
LEMMA LateCallHolds ==
  ASSUME IInv, LateCall, Next
  PROVE  /\ WorkerBreaksIn => stub = "live" \/ (closed /\ hpc \in {"terminate", "wake", "join"})
         /\ wpc # "call" /\ wpc' = "call" => stub = "live"
PROOF
  <1>1. WorkerBreaksIn => stub = "live" \/ (closed /\ hpc \in {"terminate", "wake", "join"})
    BY DEF WorkerBreaksIn, WorkerCalls, LateCall, IInv, StubLife, TypeOK, HandlerTypeOK, HandlerPC
  <1>2. wpc # "call" /\ wpc' = "call" => target = Stub
    <2> USE DEF breakVars, workerVars, handlerVars
    <2>1. CASE WorkerStep \/ WorkerBreaksIn
      BY <2>1
      DEF WorkerStep, WorkerInternal, WorkerLock, WorkerCheck, WorkerPeek,
          WorkerTakesBreakIn, WorkerSuspends, WorkerWakes, WorkerBreaksIn,
          WorkerCalls, Null, IInv, TypeOK, BreakInTypeOK
    <2>2. CASE \/ RefuseConnection \/ AcceptConnection \/ InstallTarget
               \/ ClearTarget \/ CloseSocket \/ DeleteStub
               \/ BeginDestruction \/ WakeWorker \/ Join
      BY <2>2
      DEF RefuseConnection, AcceptConnection, Construct, InstallTarget,
          SetTarget, ClearTarget, CloseSocket, DeleteStub, BeginDestruction,
          RaiseTerminating, WakeWorker, SignalTermination, Join, JoinWorker
    <2>3. CASE \/ CreateWrapper \/ PeekFirst \/ PeekSecond \/ ConnectionLost
               \/ ExamineBreakIn \/ ExamineAck \/ ExamineStart \/ PeekPacket
               \/ PacketLost \/ ChecksumMismatch \/ PacketReceived
               \/ ReleaseMutex \/ SignalWorker \/ HandleQuery
               \/ QStartNoAckMode \/ HandleResume \/ TargetStops
               \/ TargetBreaksIn \/ SendReply
      BY <2>3
      DEF CreateWrapper, AcquireWrapper, PeekFirst, PeekSecond, PeekByte,
          ConnectionLost, ExamineBreakIn, ExamineAck, ExamineStart, PeekPacket,
          PacketLost, ChecksumMismatch, PacketReceived, ReleaseMutex,
          UnlockWrapper, SignalWorker, SignalWrapper, HandleQuery,
          QStartNoAckMode, HandleResume, TargetStops, TargetBreaksIn, SendReply
    <2>4. CASE ClientStep
      BY <2>4
      DEF ClientStep, ClientGreets, ClientStartsPacket, ClientEndsPacket,
          ClientResends, ClientBreaksIn, ClientReceives, ClientReceivesAck,
          ClientReceivesReply, ClientCloses, ClientSends
    <2>5. CASE Terminated
      BY <2>5 DEF Terminated, vars
    <2> QED
      BY <2>1, <2>2, <2>3, <2>4, <2>5 DEF Next, ServerStep, HandlerProgress
  <1>3. target = Stub => stub = "live"
    BY StubLifeHolds DEF IInv, TargetNeverDangles
  <1> QED
    BY <1>1, <1>2, <1>3

\* The stub that was deleted is called at most once, by a worker that is still
\* to be joined.
THEOREM LateCallAtMostOnce == Spec => LateCallBeforeJoin
PROOF
  <1>1. Init => LateCall
    BY DEF Init, BreakInInit, HandlerInit, LateCall
  <1> QED
    BY <1>1, LateCallStep, LateCallHolds, Inductive, PTL DEF Spec, LateCallBeforeJoin

-----------------------------------------------------------------------------
(* Streams of bytes.                                                       *)

\* Break-in bytes, then a message, then bytes out of a set.
Stream(s, msg, behind) ==
  \E n \in 0 .. Len(s) :
    /\ n + Len(msg) <= Len(s)
    /\ \A j \in 1 .. n : s[j] = kBreakInByte
    /\ \A j \in 1 .. Len(msg) : s[n + j] = msg[j]
    /\ \A j \in n + Len(msg) + 1 .. Len(s) : s[j] \in behind

\* Nothing but break-in bytes.
OnlyBreakIns(s) == \A j \in 1 .. Len(s) : s[j] = kBreakInByte

\* The head of a sequence is its first element.
LEMMA HeadIsFirst ==
  ASSUME NEW s \in Seq(Bytes), Len(s) # 0
  PROVE  s # <<>> /\ Head(s) = s[1]
  OBVIOUS

\* A break-in byte in front of the message can be taken away.
LEMMA StreamSkips ==
  ASSUME NEW s \in Seq(Bytes), NEW msg \in Seq(Bytes), NEW behind, Stream(s, msg,
                                                                          behind),
         s # <<>>, Head(s) = kBreakInByte, msg # <<>> => Head(msg) # kBreakInByte
  PROVE  Stream(Tail(s), msg, behind)
PROOF
  <1>1. PICK n \in 0 .. Len(s) :
          /\ n + Len(msg) <= Len(s)
          /\ \A j \in 1 .. n : s[j] = kBreakInByte
          /\ \A j \in 1 .. Len(msg) : s[n + j] = msg[j]
          /\ \A j \in n + Len(msg) + 1 .. Len(s) : s[j] \in behind
    BY DEF Stream
  <1>2. /\ Len(s) \in Nat /\ Len(Tail(s)) = Len(s) - 1 /\ Len(msg) \in Nat
        /\ \A j \in 1 .. Len(Tail(s)) : Tail(s)[j] = s[j + 1]
        /\ Head(s) = s[1]
    OBVIOUS
  <1>3. CASE n = 0
    <2>1. Len(msg) = 0
      <3>1. SUFFICES ASSUME msg # <<>> PROVE FALSE
        OBVIOUS
      <3>2. Head(msg) = msg[1] /\ 1 \in 1 .. Len(msg)
        BY <3>1
      <3> QED
        BY <1>1, <1>2, <1>3, <3>2
    <2>2. \A j \in 0 + Len(msg) + 1 .. Len(Tail(s)) : Tail(s)[j] \in behind
      BY <1>1, <1>2, <1>3, <2>1
    <2>3. 0 \in 0 .. Len(Tail(s)) /\ 0 + Len(msg) <= Len(Tail(s))
      BY <1>2, <2>1
    <2>4. /\ \A j \in 1 .. 0 : Tail(s)[j] = kBreakInByte
          /\ \A j \in 1 .. Len(msg) : Tail(s)[0 + j] = msg[j]
      BY <2>1
    <2> QED
      BY <2>2, <2>3, <2>4 DEF Stream
  <1>4. CASE n # 0
    <2> DEFINE m == n - 1
    <2>1. m \in 0 .. Len(Tail(s)) /\ m + Len(msg) <= Len(Tail(s)) /\ n = m + 1
      BY <1>1, <1>2, <1>4
    <2>2. \A j \in 1 .. m : Tail(s)[j] = kBreakInByte
      BY <1>1, <1>2, <2>1
    <2>3. ASSUME NEW j \in 1 .. Len(msg) PROVE Tail(s)[m + j] = msg[j]
      <3>1. m + j \in 1 .. Len(Tail(s)) /\ (m + j) + 1 = n + j
        BY <1>2, <2>1
      <3> QED
        BY <1>1, <1>2, <3>1
    <2>4. ASSUME NEW j \in m + Len(msg) + 1 .. Len(Tail(s))
          PROVE  Tail(s)[j] \in behind
      BY <1>1, <1>2, <2>1
    <2> HIDE DEF m
    <2> QED
      BY <2>1, <2>2, <2>3, <2>4 DEF Stream
  <1> QED
    BY <1>3, <1>4

\* What is taken from the front otherwise is the message's first byte.
LEMMA StreamTakes ==
  ASSUME NEW s \in Seq(Bytes), NEW msg \in Seq(Bytes), NEW behind, Stream(s, msg,
                                                                          behind),
         s # <<>>, Head(s) # kBreakInByte, msg # <<>>
  PROVE  /\ Head(s) = Head(msg)
         /\ Stream(Tail(s), Tail(msg), behind)
         /\ Len(msg) > 1 => Tail(s) # <<>> /\ Head(Tail(s)) = msg[2]
         /\ Len(msg) = 1 /\ behind = {} => Tail(s) = <<>>
PROOF
  <1>1. PICK n \in 0 .. Len(s) :
          /\ n + Len(msg) <= Len(s)
          /\ \A j \in 1 .. n : s[j] = kBreakInByte
          /\ \A j \in 1 .. Len(msg) : s[n + j] = msg[j]
          /\ \A j \in n + Len(msg) + 1 .. Len(s) : s[j] \in behind
    BY DEF Stream
  <1>2. /\ Len(s) \in Nat /\ Len(Tail(s)) = Len(s) - 1 /\ Len(msg) \in Nat \ {0}
        /\ \A j \in 1 .. Len(Tail(s)) : Tail(s)[j] = s[j + 1]
        /\ \A j \in 1 .. Len(Tail(msg)) : Tail(msg)[j] = msg[j + 1]
        /\ Len(Tail(msg)) = Len(msg) - 1
        /\ Head(s) = s[1] /\ Head(msg) = msg[1]
    OBVIOUS
  <1>3. n = 0
    BY <1>1, <1>2
  <1>4. \A j \in 1 .. Len(msg) : s[j] = msg[j]
    BY <1>1, <1>3
  <1>5. \A j \in 1 .. Len(Tail(msg)) : Tail(s)[0 + j] = Tail(msg)[j]
    BY <1>1, <1>2, <1>3, <1>4
  <1>6. \A j \in 0 + Len(Tail(msg)) + 1 .. Len(Tail(s)) : Tail(s)[j] \in behind
    BY <1>1, <1>2, <1>3
  <1>7. 0 + Len(Tail(msg)) <= Len(Tail(s))
    BY <1>1, <1>2, <1>3
  <1>8. Stream(Tail(s), Tail(msg), behind)
    BY <1>2, <1>5, <1>6, <1>7 DEF Stream
  <1>9. ASSUME Len(msg) > 1 PROVE Tail(s) # <<>> /\ Head(Tail(s)) = msg[2]
    <2>1. 2 \in 1 .. Len(msg) /\ 1 \in 1 .. Len(Tail(s))
      BY <1>1, <1>2, <1>3, <1>9
    <2>2. Tail(s)[1] = msg[2]
      BY <1>2, <1>4, <2>1
    <2>3. Tail(s) # <<>> /\ Head(Tail(s)) = Tail(s)[1]
      BY <1>2, <2>1, HeadIsFirst
    <2> QED
      BY <2>2, <2>3
  <1>10. Len(msg) = 1 /\ behind = {} => Tail(s) = <<>>
    BY <1>1, <1>2, <1>3
  <1> QED
    BY <1>2, <1>4, <1>8, <1>9, <1>10

\* A byte sent behind a message that is all there makes the message longer.
LEMMA StreamGrows ==
  ASSUME NEW s \in Seq(Bytes), NEW msg \in Seq(Bytes), NEW b \in Bytes, NEW behind,
         Stream(s, msg, {})
  PROVE  Stream(Append(s, b), Append(msg, b), behind)
PROOF
  <1>1. PICK n \in 0 .. Len(s) :
          /\ n + Len(msg) <= Len(s)
          /\ \A j \in 1 .. n : s[j] = kBreakInByte
          /\ \A j \in 1 .. Len(msg) : s[n + j] = msg[j]
          /\ \A j \in n + Len(msg) + 1 .. Len(s) : s[j] \in {}
    BY DEF Stream
  <1>2. Len(s) = n + Len(msg)
    BY <1>1
  <1> DEFINE t == Append(s, b)
             u == Append(msg, b)
  <1>3. /\ Len(t) = n + Len(u) /\ n \in 0 .. Len(t)
        /\ Len(u) = Len(msg) + 1 /\ Len(msg) \in Nat
        /\ \A j \in 1 .. Len(s) : t[j] = s[j]
        /\ t[Len(s) + 1] = b
        /\ \A j \in 1 .. Len(msg) : u[j] = msg[j]
        /\ u[Len(msg) + 1] = b
    BY <1>2
  <1>4. \A j \in 1 .. n : t[j] = kBreakInByte
    BY <1>1, <1>3
  <1>5. \A j \in 1 .. Len(u) : t[n + j] = u[j]
    BY <1>1, <1>2, <1>3
  <1>6. \A j \in n + Len(u) + 1 .. Len(t) : t[j] \in behind
    BY <1>3
  <1> HIDE DEF t, u
  <1>7. Stream(t, u, behind)
    BY <1>3, <1>4, <1>5, <1>6 DEF Stream
  <1> QED
    BY <1>7 DEF t, u

\* A byte that may come behind the message may be sent.
LEMMA StreamFollowed ==
  ASSUME NEW s \in Seq(Bytes), NEW msg \in Seq(Bytes), NEW behind,
         NEW b \in Bytes \cap behind,
         Stream(s, msg, behind)
  PROVE  Stream(Append(s, b), msg, behind)
PROOF
  <1>1. PICK n \in 0 .. Len(s) :
          /\ n + Len(msg) <= Len(s)
          /\ \A j \in 1 .. n : s[j] = kBreakInByte
          /\ \A j \in 1 .. Len(msg) : s[n + j] = msg[j]
          /\ \A j \in n + Len(msg) + 1 .. Len(s) : s[j] \in behind
    BY DEF Stream
  <1> DEFINE t == Append(s, b)
  <1>2. /\ Len(t) = Len(s) + 1 /\ Len(s) \in Nat /\ Len(msg) \in Nat
        /\ \A j \in 1 .. Len(s) : t[j] = s[j]
        /\ t[Len(s) + 1] = b
    OBVIOUS
  <1>3. n \in 0 .. Len(t) /\ n + Len(msg) <= Len(t)
    BY <1>1, <1>2
  <1>4. \A j \in 1 .. n : t[j] = kBreakInByte
    BY <1>1, <1>2
  <1>5. \A j \in 1 .. Len(msg) : t[n + j] = msg[j]
    BY <1>1, <1>2
  <1>6. \A j \in n + Len(msg) + 1 .. Len(t) : t[j] \in behind
    BY <1>1, <1>2
  <1> HIDE DEF t
  <1>7. Stream(t, msg, behind)
    BY <1>3, <1>4, <1>5, <1>6 DEF Stream
  <1> QED
    BY <1>7 DEF t

\* A stream of no message is a stream of break-in bytes.
LEMMA StreamNothing ==
  ASSUME NEW s \in Seq(Bytes), NEW behind
  PROVE  /\ OnlyBreakIns(s) => Stream(s, <<>>, behind)
         /\ behind \subseteq {kBreakInByte} /\ Stream(s, <<>>,
                                                      behind) => OnlyBreakIns(s)
PROOF
  <1>1. Len(<<>>) = 0 /\ Len(s) \in Nat
    OBVIOUS
  <1>2. ASSUME OnlyBreakIns(s) PROVE Stream(s, <<>>, behind)
    BY <1>1, <1>2 DEF OnlyBreakIns, Stream
  <1>3. ASSUME behind \subseteq {kBreakInByte}, Stream(s, <<>>, behind)
        PROVE  OnlyBreakIns(s)
    BY <1>1, <1>3 DEF OnlyBreakIns, Stream
  <1> QED
    BY <1>2, <1>3

\* What is in a stream is a break-in byte, a part of the message or comes behind it.
LEMMA StreamHolds ==
  ASSUME NEW s \in Seq(Bytes), NEW msg \in Seq(Bytes), NEW behind, Stream(s, msg,
                                                                          behind)
  PROVE  /\ \A b \in ToSet(s) : b = kBreakInByte \/ b \in ToSet(msg) \/ b \in behind
         /\ msg # <<>> => s # <<>>
PROOF
  <1>1. PICK n \in 0 .. Len(s) :
          /\ n + Len(msg) <= Len(s)
          /\ \A j \in 1 .. n : s[j] = kBreakInByte
          /\ \A j \in 1 .. Len(msg) : s[n + j] = msg[j]
          /\ \A j \in n + Len(msg) + 1 .. Len(s) : s[j] \in behind
    BY DEF Stream
  <1>2. /\ Len(s) \in Nat /\ Len(msg) \in Nat
        /\ DOMAIN s = 1 .. Len(s) /\ DOMAIN msg = 1 .. Len(msg)
    OBVIOUS
  <1>3. ASSUME NEW i \in 1 .. Len(s)
        PROVE  s[i] = kBreakInByte \/ s[i] \in ToSet(msg) \/ s[i] \in behind
    <2>1. CASE i \in 1 .. n
      BY <1>1, <2>1
    <2>2. CASE i \in n + Len(msg) + 1 .. Len(s)
      BY <1>1, <2>2
    <2>3. CASE i \in n + 1 .. n + Len(msg)
      <3>1. (i - n) \in 1 .. Len(msg) /\ n + (i - n) = i
        BY <1>2, <2>3
      <3> QED
        BY <1>1, <1>2, <3>1 DEF ToSet
    <2> QED
      BY <1>2, <2>1, <2>2, <2>3
  <1>4. \A b \in ToSet(s) : b = kBreakInByte \/ b \in ToSet(msg) \/ b \in behind
    BY <1>2, <1>3 DEF ToSet
  <1>5. msg # <<>> => s # <<>>
    BY <1>1, <1>2
  <1> QED
    BY <1>4, <1>5

\* The bytes of the front, of the rest and of an extension.
LEMMA BytesOfTail ==
  ASSUME NEW s \in Seq(Bytes), s # <<>>
  PROVE  /\ ToSet(Tail(s)) \subseteq ToSet(s)
         /\ Head(s) \in ToSet(s)
  BY DEF ToSet

LEMMA BytesOfAppend ==
  ASSUME NEW s \in Seq(Bytes), NEW b \in Bytes
  PROVE  ToSet(Append(s, b)) = ToSet(s) \cup {b}
PROOF
  <1> DEFINE t == Append(s, b)
  <1>1. /\ DOMAIN t = 1 .. Len(s) + 1 /\ DOMAIN s = 1 .. Len(s) /\ Len(s) \in Nat
        /\ \A i \in 1 .. Len(s) : t[i] = s[i]
        /\ t[Len(s) + 1] = b
    OBVIOUS
  <1> HIDE DEF t
  <1>2. ToSet(t) = ToSet(s) \cup {b}
    <2>1. ASSUME NEW x \in ToSet(t) PROVE x \in ToSet(s) \cup {b}
      BY <1>1, <2>1 DEF ToSet
    <2>2. ASSUME NEW x \in ToSet(s) PROVE x \in ToSet(t)
      BY <1>1, <2>2 DEF ToSet
    <2>3. b \in ToSet(t)
      <3>1. Len(s) + 1 \in 1 .. Len(s) + 1
        BY <1>1
      <3> QED
        BY <1>1, <3>1 DEF ToSet
    <2> QED
      BY <2>1, <2>2, <2>3
  <1> QED
    BY <1>2 DEF t

\* A stream of break-in bytes shrinks and grows.
LEMMA OnlyBreakInsChange ==
  ASSUME NEW s \in Seq(Bytes), OnlyBreakIns(s)
  PROVE  /\ s # <<>> => Head(s) = kBreakInByte /\ OnlyBreakIns(Tail(s))
         /\ OnlyBreakIns(Append(s, kBreakInByte))
  BY DEF OnlyBreakIns

\* Taking a byte that is no break-in from the front of the buffer takes none.
LEMMA OthersTaken ==
  ASSUME NEW s \in Seq(Bytes), s # <<>>, Head(s) # kBreakInByte
  PROVE  kBreakInByte \in ToSet(Tail(s)) <=> kBreakInByte \in ToSet(s)
PROOF
  <1>1. /\ DOMAIN s = 1 .. Len(s) /\ DOMAIN Tail(s) = 1 .. Len(Tail(s))
        /\ Len(Tail(s)) = Len(s) - 1 /\ Len(s) \in Nat \ {0}
        /\ \A i \in 1 .. Len(Tail(s)) : Tail(s)[i] = s[i + 1]
        /\ Head(s) = s[1]
    OBVIOUS
  <1>2. ASSUME NEW i \in 1 .. Len(s), s[i] = kBreakInByte
        PROVE  kBreakInByte \in ToSet(Tail(s))
    <2>1. i # 1
      BY <1>1, <1>2
    <2>2. (i - 1) \in 1 .. Len(Tail(s)) /\ (i - 1) + 1 = i
      BY <1>1, <2>1
    <2>3. Tail(s)[i - 1] = kBreakInByte
      BY <1>1, <1>2, <2>2
    <2> QED
      BY <1>1, <2>2, <2>3 DEF ToSet
  <1>3. kBreakInByte \in ToSet(s) => kBreakInByte \in ToSet(Tail(s))
    BY <1>1, <1>2 DEF ToSet
  <1> QED
    BY <1>3, BytesOfTail

\* Short sequences are built byte by byte.
LEMMA AppendsFirst ==
  ASSUME NEW S, NEW e \in S
  PROVE  Append(<<>>, e) = <<e>>
  OBVIOUS

LEMMA AppendsSecond ==
  ASSUME NEW S, NEW d \in S, NEW e \in S
  PROVE  Append(<<d>>, e) = <<d, e>>
PROOF
  <1> DEFINE s == <<d>>
             t == Append(s, e)
  <1>1. s \in Seq(S) /\ Len(s) = 1 /\ s[1] = d
    OBVIOUS
  <1> HIDE DEF s
  <1>2. /\ t \in Seq(S) /\ Len(t) = Len(s) + 1
        /\ t[Len(s) + 1] = e
        /\ \A i \in 1 .. Len(s) : t[i] = s[i]
    BY <1>1
  <1> HIDE DEF t
  <1>3. t \in Seq(S) /\ Len(t) = 2 /\ t[1] = d /\ t[2] = e
    BY <1>1, <1>2
  <1>4. t = <<d, e>>
    BY <1>3
  <1> QED
    BY <1>4 DEF t, s

LEMMA AppendsThird ==
  ASSUME NEW S, NEW c \in S, NEW d \in S, NEW e \in S
  PROVE  Append(<<c, d>>, e) = <<c, d, e>>
PROOF
  <1> DEFINE s == <<c, d>>
             t == Append(s, e)
  <1>1. s \in Seq(S) /\ Len(s) = 2 /\ s[1] = c /\ s[2] = d
    OBVIOUS
  <1> HIDE DEF s
  <1>2. /\ t \in Seq(S) /\ Len(t) = Len(s) + 1
        /\ t[Len(s) + 1] = e
        /\ \A i \in 1 .. Len(s) : t[i] = s[i]
    <2>1. s \in Seq(S)
      BY <1>1
    <2> QED
      BY <2>1
  <1> HIDE DEF t
  <1>3. t \in Seq(S) /\ Len(t) = 3 /\ t[1] = c /\ t[2] = d /\ t[3] = e
    BY <1>1, <1>2
  <1>4. t = <<c, d, e>>
    BY <1>3
  <1> QED
    BY <1>4 DEF t, s

\* Sending bytes appends them one after the other.
LEMMA SendsOne ==
  ASSUME NEW s \in Seq(Bytes), NEW b \in Bytes
  PROVE  s \o <<b>> = Append(s, b)
  OBVIOUS

LEMMA SendsTwo ==
  ASSUME NEW s \in Seq(Bytes), NEW a \in Bytes, NEW b \in Bytes
  PROVE  s \o <<a, b>> = Append(Append(s, a), b)
PROOF
  <1> DEFINE t == <<a, b>>
             u == s \o t
             v == Append(Append(s, a), b)
  <1>1. t \in Seq(Bytes) /\ Len(t) = 2 /\ t[1] = a /\ t[2] = b
    OBVIOUS
  <1> HIDE DEF t
  <1>2. /\ u \in Seq(Bytes) /\ Len(u) = Len(s) + 2
        /\ \A i \in 1 .. Len(s) : u[i] = s[i]
        /\ u[Len(s) + 1] = a
        /\ u[Len(s) + 2] = b
    <2>1. /\ u \in Seq(Bytes) /\ Len(u) = Len(s) + Len(t) /\ Len(s) \in Nat
          /\ \A i \in 1 .. Len(s) : u[i] = s[i]
          /\ \A i \in 1 .. Len(t) : u[Len(s) + i] = t[i]
      <3>1. t \in Seq(Bytes)
        BY <1>1
      <3> QED
        BY <3>1
    <2> HIDE DEF u
    <2>2. 1 \in 1 .. Len(t) /\ 2 \in 1 .. Len(t)
      BY <1>1
    <2> QED
      BY <1>1, <2>1, <2>2
  <1>3. /\ v \in Seq(Bytes) /\ Len(v) = Len(s) + 2
        /\ \A i \in 1 .. Len(s) : v[i] = s[i]
        /\ v[Len(s) + 1] = a
        /\ v[Len(s) + 2] = b
    <2> DEFINE w == Append(s, a)
    <2>1. /\ w \in Seq(Bytes) /\ Len(w) = Len(s) + 1 /\ Len(s) \in Nat
          /\ \A i \in 1 .. Len(s) : w[i] = s[i]
          /\ w[Len(s) + 1] = a
      OBVIOUS
    <2> HIDE DEF w
    <2>2. /\ v \in Seq(Bytes) /\ Len(v) = Len(w) + 1
          /\ \A i \in 1 .. Len(w) : v[i] = w[i]
          /\ v[Len(w) + 1] = b
      <3> DEFINE x == Append(w, b)
      <3>1. /\ x \in Seq(Bytes) /\ Len(x) = Len(w) + 1
            /\ \A i \in 1 .. Len(w) : x[i] = w[i]
            /\ x[Len(w) + 1] = b
        BY <2>1
      <3> QED
        BY <3>1 DEF w
    <2> QED
      BY <2>1, <2>2
  <1> HIDE DEF u, v
  <1>4. u = v
    <2>1. \A i \in 1 .. Len(s) + 2 : u[i] = v[i]
      <3>1. \A i \in 1 .. Len(s) + 2 : i \in 1 .. Len(s) \/ i = Len(s) + 1 \/ i = Len(s) + 2
        OBVIOUS
      <3> QED
        BY <1>2, <1>3, <3>1
    <2> QED
      BY <1>2, <1>3, <2>1
  <1> QED
    BY <1>4 DEF u, v, t

-----------------------------------------------------------------------------
(* The exchange of the client and the handler.                             *)

\* The phases of an exchange: those of the client, except that one that went
\* away is in the phase it went away from, "cut" if a part of a packet arrived.
Phases == {"connect", "idle", "midpacket", "await", "cut"}

SentTail(c) == IF c = "cut" THEN "cut" ELSE IF noisy THEN "corrupt" ELSE creq

\* The message the server has still to read: a packet, the acknowledgment of
\* the last reply before it, or what is left behind the packet start.
SentPacket(c) ==
  CASE c = "midpacket"        -> <<kPacketStart>>
    [] c \in {"await", "cut"} -> <<kPacketStart, SentTail(c)>>
    [] OTHER                  -> <<>>

SentAckAndPacket(c) ==
  CASE c = "connect"   -> <<>>
    [] c = "idle"      -> <<kACK>>
    [] c = "midpacket" -> <<kACK, kPacketStart>>
    [] OTHER           -> <<kACK, kPacketStart, SentTail(c)>>

SentRest(c) == IF c = "midpacket" THEN <<>> ELSE <<SentTail(c)>>

\* Break-in bytes may follow a packet that is awaited, and copies of itself a
\* damaged one.
SentBehind(c) ==
  IF noisy THEN Bytes \ {kACK} ELSE IF c = "await" THEN {kBreakInByte} ELSE {}

\* Nothing is on its way to the client, and its packet is not acknowledged.
NothingSent(c) ==
  /\ tx = <<>>
  /\ c \in {"midpacket", "await", "cut"} => ~gotAck

\* The request is acknowledged.
Acknowledged ==
  IF cAck THEN (tx = <<kACK>> /\ ~gotAck) \/ (tx = <<>> /\ gotAck) ELSE tx = <<>>

\* And the reply is on its way.
Answered ==
  IF cAck THEN (tx = <<kACK, Reply>> /\ ~gotAck) \/ (tx = <<Reply>> /\ gotAck)
          ELSE tx = <<Reply>>

\* The stages of the handler: it looks for an acknowledgment or a packet start,
AwaitsPacket(c) ==
  /\ hpc \in {"create", "setTarget", "acquire", "find", "examine"}
  /\ NothingSent(c)
  /\ newAckEnabled = cAck
  /\ cAck => ackEnabled
  /\ c = "connect" => cAck
  /\ Stream(rx, IF ackEnabled THEN SentAckAndPacket(c) ELSE SentPacket(c),
            SentBehind(c))
  /\ hpc \in {"create", "setTarget"} => newAckEnabled /\ kBreakInByte \notin ToSet(rx)

\* for a packet start behind the acknowledgment,
AwaitsStart(c) ==
  /\ hpc \in {"find2", "examine2"}
  /\ c # "connect"
  /\ NothingSent(c)
  /\ ackEnabled /\ newAckEnabled = cAck
  /\ Stream(rx, SentPacket(c), SentBehind(c))
  /\ rx # <<>> => Head(rx) = kPacketStart

\* for the rest of the packet;
AwaitsRest(c) ==
  /\ hpc \in {"packet", "verify"}
  /\ c \in {"midpacket", "await", "cut"}
  /\ NothingSent(c)
  /\ newAckEnabled = cAck /\ ackEnabled = cAck
  /\ Stream(rx, SentRest(c), SentBehind(c))

\* it has the request,
HasRequest(c) ==
  /\ \/ hpc \in {"unlock", "signal"} /\ request \in Requests
     \/ hpc \in {"handle", "wait", "reply"}
  /\ c = "await" /\ ~noisy
  /\ request = creq /\ (hpc = "wait" => creq = "resume")
  /\ Acknowledged
  /\ ackEnabled = cAck
  /\ newAckEnabled = (cAck /\ ~(hpc = "reply" /\ creq = "noack"))
  /\ OnlyBreakIns(rx)

\* it has answered and the answer is on its way;
HasAnswered(c) ==
  /\ hpc \in {"acquire", "find", "examine"}
  /\ c = "await" /\ ~noisy
  /\ Answered
  /\ ackEnabled = cAck
  /\ newAckEnabled = (cAck /\ creq # "noack")
  /\ OnlyBreakIns(rx)

\* or it has met a damaged packet, in front of which no acknowledgment comes.
WaitsInVain(c) ==
  /\ \/ hpc \in {"unlock", "signal"} /\ request = NoRequest
     \/ hpc \in {"acquire", "find", "examine"}
  /\ c = "await" /\ noisy
  /\ NothingSent(c)
  /\ cAck /\ ackEnabled /\ newAckEnabled
  /\ kACK \notin ToSet(rx)

Stage(c) ==
  \/ AwaitsPacket(c) \/ AwaitsStart(c) \/ AwaitsRest(c)
  \/ HasRequest(c) \/ HasAnswered(c) \/ WaitsInVain(c)

\* What the client knows of the exchange.
ClientIn(c) ==
  /\ cpc # "closed" => c = cpc
  /\ noisy => c = "await" /\ cAck
  /\ c \in {"midpacket", "await"} => creq \in Requests /\ (creq = "noack" => cAck)

Exchange(c) == ClientIn(c) /\ Stage(c)

\* The connection is over, or was refused.
IsLeaving ==
  /\ \/ hpc \in {"unlock", "signal"} /\ request = Leave
     \/ hpc \in {"clearTarget", "close", "delete", "terminate", "wake", "join",
                 "done"}
  /\ cpc = "closed" \/ (hpc = "done" /\ tx = <<>>)

InStep == IsLeaving \/ \E c \in Phases : Exchange(c)

\* Who may find the connection at its end, and when the target runs.
EndsKnown ==
  /\ eof <=> cpc = "closed"
  /\ closed <=> hpc \in {"delete", "terminate", "wake", "join", "done"}
  /\ hpc \in {"examine", "examine2", "verify"} /\ hdata = NoData => eof
  /\ wpc = "examine" /\ wdata = NoData => eof \/ closed
  /\ lost => noisy
  /\ running <=> hpc = "wait"

\* The second inductive invariant.
SessionInv == EndsKnown /\ InStep /\ NoProtocolError /\ ClientUnderstands

-----------------------------------------------------------------------------
(* What the handler finds in the stream.                                   *)

\* The messages are sequences of bytes.
LEMMA SentTypes ==
  ASSUME NEW c \in Phases, ClientIn(c)
  PROVE  /\ SentPacket(c) \in Seq(Bytes)
         /\ SentAckAndPacket(c) \in Seq(Bytes)
         /\ c \in {"midpacket", "await", "cut"} => SentRest(c) \in Seq(Bytes)
PROOF
  <1>1. /\ {kACK, kPacketStart, "corrupt", "cut"} \subseteq Bytes
        /\ c \in {"await", "cut"} => SentTail(c) \in Bytes
    BY DEF ClientIn, SentTail, Bytes, Tails, Requests
  <1>2. SentPacket(c) \in Seq(Bytes)
    BY <1>1 DEF SentPacket, Phases
  <1>3. SentAckAndPacket(c) \in Seq(Bytes)
    BY <1>1 DEF SentAckAndPacket, Phases
  <1>4. c \in {"midpacket", "await", "cut"} => SentRest(c) \in Seq(Bytes)
    BY <1>1 DEF SentRest
  <1> QED
    BY <1>2, <1>3, <1>4

\* Where no message is due, only a break-in byte can come first.
LEMMA NothingBut ==
  ASSUME NEW s \in Seq(Bytes), Stream(s, <<>>, {}), s # <<>>
  PROVE  Head(s) = kBreakInByte
  BY StreamNothing, OnlyBreakInsChange

\* In front of an acknowledgment or of a packet start there are only break-in
\* bytes: what else is found there is what was expected.
LEMMA FindsAck ==
  ASSUME NEW c \in Phases, ClientIn(c), NEW s \in Seq(Bytes),
         Stream(s, SentAckAndPacket(c), SentBehind(c)), s # <<>>, Head(s) # kBreakInByte
  PROVE  /\ c # "connect"
         /\ Head(s) = kACK
         /\ Stream(Tail(s), SentPacket(c), SentBehind(c))
         /\ Tail(s) # <<>> => Head(Tail(s)) = kPacketStart
PROOF
  <1>1. c # "connect"
    <2> SUFFICES ASSUME c = "connect" PROVE FALSE
      OBVIOUS
    <2>1. SentAckAndPacket(c) = <<>> /\ SentBehind(c) = {}
      BY DEF SentAckAndPacket, SentBehind, ClientIn
    <2> QED
      BY <2>1, NothingBut
  <1> DEFINE m == SentAckAndPacket(c)
  <1>2. /\ m # <<>> /\ Head(m) = kACK /\ Tail(m) = SentPacket(c)
        /\ Len(m) > 1 => m[2] = kPacketStart
        /\ Len(m) = 1 => c = "idle"
        /\ Len(m) >= 1
    BY <1>1 DEF Phases, SentAckAndPacket, SentPacket
  <1>3. c = "idle" => SentBehind(c) = {}
    BY DEF SentBehind, ClientIn
  <1>4. m \in Seq(Bytes)
    BY SentTypes
  <1>5. Stream(s, m, SentBehind(c))
    OBVIOUS
  <1> HIDE DEF m
  <1>6. m # <<>>
    BY <1>2
  <1>7. /\ Head(s) = Head(m)
        /\ Stream(Tail(s), Tail(m), SentBehind(c))
        /\ Len(m) > 1 => Head(Tail(s)) = m[2]
        /\ Len(m) = 1 /\ SentBehind(c) = {} => Tail(s) = <<>>
    BY <1>4, <1>5, <1>6, StreamTakes
  <1>8. Len(m) = 1 \/ Len(m) > 1
    BY <1>4, <1>6
  <1>9. Tail(s) # <<>> => Head(Tail(s)) = kPacketStart
    BY <1>2, <1>3, <1>7, <1>8
  <1> QED
    BY <1>1, <1>2, <1>7, <1>9

\* In front of a packet start there are only break-in bytes.
LEMMA FindsStart ==
  ASSUME NEW c \in Phases, ClientIn(c), NEW s \in Seq(Bytes),
         Stream(s, SentPacket(c), SentBehind(c)), s # <<>>, Head(s) # kBreakInByte
  PROVE  /\ c \in {"midpacket", "await", "cut"}
         /\ Head(s) = kPacketStart
         /\ Stream(Tail(s), SentRest(c), SentBehind(c))
PROOF
  <1>1. c \in {"midpacket", "await", "cut"}
    <2> SUFFICES ASSUME c \in {"connect", "idle"} PROVE FALSE
      BY DEF Phases
    <2>1. SentPacket(c) = <<>> /\ SentBehind(c) = {}
      BY DEF SentPacket, SentBehind, ClientIn
    <2> QED
      BY <2>1, NothingBut
  <1> DEFINE m == SentPacket(c)
  <1>2. m # <<>> /\ Head(m) = kPacketStart /\ Tail(m) = SentRest(c)
    BY <1>1 DEF SentPacket, SentRest
  <1>3. m \in Seq(Bytes)
    BY SentTypes
  <1>4. Stream(s, m, SentBehind(c))
    OBVIOUS
  <1> HIDE DEF m
  <1>5. m # <<>>
    BY <1>2
  <1>6. Head(s) = Head(m) /\ Stream(Tail(s), Tail(m), SentBehind(c))
    BY <1>3, <1>4, <1>5, StreamTakes
  <1> QED
    BY <1>1, <1>2, <1>6

\* Behind the packet start comes what the client sent, or nothing yet.
LEMMA FindsTail ==
  ASSUME NEW c \in {"midpacket", "await", "cut"}, ClientIn(c), NEW s \in Seq(Bytes),
         Stream(s, SentRest(c), SentBehind(c)), s # <<>>, Head(s) # kBreakInByte
  PROVE  /\ c \in {"await", "cut"}
         /\ Head(s) = SentTail(c)
         /\ c = "await" /\ ~noisy => OnlyBreakIns(Tail(s))
         /\ noisy => kACK \notin ToSet(s)
PROOF
  <1>1. c \in {"await", "cut"}
    <2> SUFFICES ASSUME c = "midpacket" PROVE FALSE
      OBVIOUS
    <2>1. SentRest(c) = <<>> /\ SentBehind(c) = {}
      BY DEF SentRest, SentBehind, ClientIn
    <2> QED
      BY <2>1, NothingBut
  <1> DEFINE m == SentRest(c)
  <1>2. m # <<>> /\ Head(m) = SentTail(c) /\ Tail(m) = <<>> /\ ToSet(m) = {SentTail(c)}
    BY <1>1 DEF SentRest, ToSet
  <1>3. m \in Seq(Bytes)
    BY SentTypes DEF Phases
  <1>4. Stream(s, m, SentBehind(c))
    OBVIOUS
  <1> HIDE DEF m
  <1>5. m # <<>>
    BY <1>2
  <1>6. Head(s) = Head(m) /\ Stream(Tail(s), Tail(m), SentBehind(c))
    BY <1>3, <1>4, <1>5, StreamTakes
  <1>7. ASSUME c = "await", ~noisy PROVE OnlyBreakIns(Tail(s))
    <2>1. SentBehind(c) = {kBreakInByte} /\ Tail(s) \in Seq(Bytes)
      BY <1>7 DEF SentBehind
    <2>2. Stream(Tail(s), <<>>, {kBreakInByte})
      BY <1>2, <1>6, <2>1
    <2> QED
      BY <2>1, <2>2, StreamNothing
  <1>8. ASSUME noisy PROVE kACK \notin ToSet(s)
    <2>1. SentBehind(c) = Bytes \ {kACK} /\ SentTail(c) # kACK
      BY <1>8, <1>1 DEF SentBehind, SentTail, kACK
    <2>2. \A b \in ToSet(s) : b = kBreakInByte \/ b \in ToSet(m) \/ b \in SentBehind(c)
      BY <1>3, <1>4, StreamHolds
    <2> QED
      BY <1>2, <2>1, <2>2 DEF kACK, kBreakInByte
  <1> QED
    BY <1>1, <1>2, <1>6, <1>7, <1>8

\* The client's part of an exchange stays as it is while the server works.
LEMMA ClientStays ==
  ASSUME NEW c \in Phases, UNCHANGED clientVars
  PROVE  /\ ClientIn(c)' <=> ClientIn(c)
         /\ SentTail(c)' = SentTail(c)
         /\ SentPacket(c)' = SentPacket(c)
         /\ SentAckAndPacket(c)' = SentAckAndPacket(c)
         /\ SentRest(c)' = SentRest(c)
         /\ SentBehind(c)' = SentBehind(c)
  BY DEF clientVars, ClientIn, SentTail, SentPacket, SentAckAndPacket,
     SentRest, SentBehind

-----------------------------------------------------------------------------
(* The server's steps.                                                     *)

\* Steps of the handler that neither read nor send leave the exchange in its
\* stage or take it to the next one.
LEMMA HandlerPasses ==
  ASSUME TypeOK, NEW c \in Phases, Exchange(c), UNCHANGED clientVars,
         \/ AcceptConnection \/ InstallTarget \/ CreateWrapper
         \/ PeekFirst \/ PeekSecond \/ PeekPacket
         \/ (ReleaseMutex \/ SignalWorker) /\ request # Leave
         \/ HandleQuery \/ QStartNoAckMode \/ HandleResume
         \/ TargetStops \/ TargetBreaksIn
  PROVE  Exchange(c)' /\ UNCHANGED protocolError
PROOF
  <1>1. /\ UNCHANGED <<rx, tx, ackEnabled, request, protocolError>>
        /\ ~QStartNoAckMode => UNCHANGED newAckEnabled
    BY DEF AcceptConnection, Construct, InstallTarget, SetTarget,
       CreateWrapper, AcquireWrapper, PeekFirst, PeekSecond, PeekByte,
       PeekPacket, ReleaseMutex, UnlockWrapper, SignalWorker, SignalWrapper,
       HandleQuery, QStartNoAckMode, HandleResume, TargetStops, TargetBreaksIn,
       breakVars, socketVars, handlerLocals
  <1>2. ClientIn(c)'
    BY ClientStays DEF Exchange
  <1> USE <1>1, ClientStays DEF clientVars
  <1>3. CASE AwaitsPacket(c)
    <2>1. hpc' \in {"setTarget", "acquire", "find",
                    "examine"} /\ (hpc' = "setTarget" => hpc = "create")
      BY <1>3
      DEF AwaitsPacket, Goto, AcceptConnection, InstallTarget, CreateWrapper,
          PeekFirst, PeekSecond, PeekByte, PeekPacket, ReleaseMutex,
          SignalWorker, HandleQuery, QStartNoAckMode, HandleResume,
          TargetStops, TargetBreaksIn
    <2>2. UNCHANGED newAckEnabled
      BY <1>3 DEF AwaitsPacket, QStartNoAckMode, Goto
    <2> QED
      BY <1>2, <1>3, <2>1, <2>2 DEF Exchange, Stage, AwaitsPacket, NothingSent
  <1>4. CASE AwaitsStart(c)
    <2>1. hpc' = "examine2" /\ UNCHANGED newAckEnabled
      BY <1>4
      DEF AwaitsStart, Goto, AcceptConnection, InstallTarget, CreateWrapper,
          PeekFirst, PeekSecond, PeekByte, PeekPacket, ReleaseMutex,
          SignalWorker, HandleQuery, QStartNoAckMode, HandleResume,
          TargetStops, TargetBreaksIn
    <2> QED
      BY <1>2, <1>4, <2>1 DEF Exchange, Stage, AwaitsStart, NothingSent
  <1>5. CASE AwaitsRest(c)
    <2>1. hpc' = "verify" /\ UNCHANGED newAckEnabled
      BY <1>5
      DEF AwaitsRest, Goto, AcceptConnection, InstallTarget, CreateWrapper,
          PeekFirst, PeekSecond, PeekByte, PeekPacket, ReleaseMutex,
          SignalWorker, HandleQuery, QStartNoAckMode, HandleResume,
          TargetStops, TargetBreaksIn
    <2> QED
      BY <1>2, <1>5, <2>1 DEF Exchange, Stage, AwaitsRest, NothingSent
  <1>6. CASE HasRequest(c)
    <2>1. CASE ReleaseMutex
      BY <1>2, <1>6, <2>1
      DEF Exchange, Stage, HasRequest, Acknowledged, ReleaseMutex,
          QStartNoAckMode, Goto
    <2>2. CASE SignalWorker
      <3>1. hpc = "signal" /\ request \in Requests
        BY <1>6, <2>2 DEF HasRequest, SignalWorker
      <3>2. hpc' = "handle"
        BY <2>2, <3>1 DEF SignalWorker, Requests, NoRequest, Leave
      <3> QED
        BY <1>2, <1>6, <3>1, <3>2
        DEF Exchange, Stage, HasRequest, Acknowledged, QStartNoAckMode, Goto
    <2>3. CASE HandleQuery \/ HandleResume
      BY <1>2, <1>6, <2>3
      DEF Exchange, Stage, HasRequest, Acknowledged, HandleQuery, HandleResume,
          QStartNoAckMode, Goto
    <2>4. CASE QStartNoAckMode
      BY <1>2, <1>6, <2>4
      DEF Exchange, Stage, HasRequest, Acknowledged, QStartNoAckMode, Goto
    <2>5. CASE TargetStops \/ TargetBreaksIn
      BY <1>2, <1>6, <2>5
      DEF Exchange, Stage, HasRequest, Acknowledged, TargetStops,
          TargetBreaksIn, QStartNoAckMode, Goto
    <2> QED
      BY <1>6, <2>1, <2>2, <2>3, <2>4, <2>5
      DEF HasRequest, Goto, AcceptConnection, InstallTarget, CreateWrapper,
          PeekFirst, PeekSecond, PeekByte, PeekPacket
  <1>7. CASE HasAnswered(c)
    <2>1. hpc' \in {"find", "examine"} /\ UNCHANGED newAckEnabled
      BY <1>7
      DEF HasAnswered, Goto, AcceptConnection, InstallTarget, CreateWrapper,
          PeekFirst, PeekSecond, PeekByte, PeekPacket, ReleaseMutex,
          SignalWorker, HandleQuery, QStartNoAckMode, HandleResume,
          TargetStops, TargetBreaksIn
    <2> QED
      BY <1>2, <1>7, <2>1 DEF Exchange, Stage, HasAnswered, Answered
  <1>8. CASE WaitsInVain(c)
    <2>1. /\ \/ hpc' = "signal" /\ request = NoRequest
             \/ hpc' \in {"acquire", "find", "examine"}
          /\ UNCHANGED newAckEnabled
      BY <1>8
      DEF WaitsInVain, Goto, AcceptConnection, InstallTarget, CreateWrapper,
          PeekFirst, PeekSecond, PeekByte, PeekPacket, ReleaseMutex,
          SignalWorker, HandleQuery, QStartNoAckMode, HandleResume,
          TargetStops, TargetBreaksIn, NoRequest, Leave
    <2> QED
      BY <1>2, <1>8, <2>1 DEF Exchange, Stage, WaitsInVain, NothingSent
  <1> QED
    BY <1>1, <1>3, <1>4, <1>5, <1>6, <1>7, <1>8 DEF Exchange, Stage

\* The handler leaves a connection that has ended, or that it refuses.
LEMMA HandlerLeaves ==
  ASSUME EndsKnown, NEW c \in Phases, Exchange(c), UNCHANGED clientVars,
         RefuseConnection \/ ConnectionLost \/ PacketLost
  PROVE  IsLeaving' /\ UNCHANGED protocolError
PROOF
  <1>1. CASE RefuseConnection
    BY <1>1
    DEF Exchange, Stage, AwaitsPacket, AwaitsStart, AwaitsRest, HasRequest,
        HasAnswered, WaitsInVain, NothingSent, RefuseConnection, Goto,
        IsLeaving
  <1>2. CASE ConnectionLost \/ PacketLost
    BY <1>2
    DEF EndsKnown, ConnectionLost, PacketLost, LeaveLoop, IsLeaving, clientVars
  <1> QED
    BY <1>1, <1>2

\* The reply follows the acknowledgment, if there is one.
LEMMA SendsReply ==
  ASSUME TypeOK, NEW c \in Phases, Exchange(c), UNCHANGED clientVars, SendReply
  PROVE  Exchange(c)' /\ UNCHANGED protocolError
PROOF
  <1>1. HasRequest(c)
    BY DEF Exchange, Stage, AwaitsPacket, AwaitsStart, AwaitsRest, HasAnswered,
       WaitsInVain, SendReply, Goto
  <1>2. /\ UNCHANGED <<rx, ackEnabled, newAckEnabled, protocolError>>
        /\ hpc' = "acquire" /\ hpc = "reply"
        /\ tx' = Append(tx, Reply)
    BY DEF SendReply, Goto, breakVars, socketVars
  <1>3. Answered'
    <2>1. Append(<<>>, Reply) = <<Reply>>
      BY DEF Reply
    <2>2. Append(<<kACK>>, Reply) = <<kACK, Reply>>
      <3>1. kACK \in Sent /\ Reply \in Sent
        BY DEF Sent
      <3> QED
        BY <3>1, AppendsSecond
    <2> QED
      BY <1>1, <1>2, <2>1, <2>2
      DEF HasRequest, Acknowledged, Answered, clientVars
  <1>4. HasAnswered(c)'
    BY <1>1, <1>2, <1>3 DEF HasRequest, HasAnswered, clientVars
  <1>5. ClientIn(c)'
    BY ClientStays DEF Exchange
  <1> QED
    BY <1>2, <1>4, <1>5 DEF Exchange, Stage

\* The byte the handler examines is a break-in, the awaited acknowledgment or
\* the packet start, unless it waits in vain.
LEMMA HandlerReads ==
  ASSUME TypeOK, PeekedByteStillThere, NoProtocolError,
         NEW c \in Phases, Exchange(c), UNCHANGED clientVars,
         ExamineBreakIn \/ ExamineAck \/ ExamineStart
  PROVE  Exchange(c)' /\ NoProtocolError'
PROOF
  <1>1. /\ hpc \in {"examine", "examine2"}
        /\ hdata # NoData /\ rx # <<>> /\ Head(rx) = hdata
        /\ rx \in Seq(Bytes) /\ rx' = Tail(rx) /\ rx' \in Seq(Bytes)
        /\ UNCHANGED <<tx, newAckEnabled, request>>
    <2>1. hpc \in {"examine", "examine2"} /\ hdata # NoData
      BY DEF ExamineBreakIn, ExamineAck, ExamineStart, Goto, NoData,
         kBreakInByte
    <2>2. UNCHANGED <<tx, newAckEnabled, request>> /\ DiscardPeeked(hdata)
      BY DEF ExamineBreakIn, ExamineAck, ExamineStart, handlerLocals
    <2>3. rx # <<>> /\ Head(rx) = hdata /\ rx \in Seq(Bytes)
      BY <2>1 DEF PeekedByteStillThere, TypeOK, BreakInTypeOK
    <2>4. rx' = Tail(rx) /\ rx' \in Seq(Bytes)
      BY <2>1, <2>2, <2>3 DEF DiscardPeeked
    <2> QED
      BY <2>1, <2>2, <2>3, <2>4
  <1>2. ClientIn(c) /\ ClientIn(c)'
    BY ClientStays DEF Exchange
  <1> USE <1>1, <1>2, ClientStays DEF clientVars
  <1>3. CASE ExamineBreakIn
    <2>1. /\ hpc = "examine" /\ hpc' = "find" /\ Head(rx) = kBreakInByte
          /\ UNCHANGED <<ackEnabled, protocolError>>
      BY <1>3 DEF ExamineBreakIn, Goto, handlerLocals
    <2>2. CASE AwaitsPacket(c)
      <3> DEFINE m == IF ackEnabled THEN SentAckAndPacket(c) ELSE SentPacket(c)
      <3>1. m \in Seq(Bytes)
        BY SentTypes
      <3>2. m # <<>> => Head(m) # kBreakInByte
        BY DEF SentAckAndPacket, SentPacket, kACK, kPacketStart, kBreakInByte
      <3>3. Stream(rx, m, SentBehind(c))
        BY <2>2 DEF AwaitsPacket
      <3> HIDE DEF m
      <3>4. Stream(Tail(rx), m, SentBehind(c))
        BY <2>1, <3>1, <3>2, <3>3, StreamSkips
      <3>5. AwaitsPacket(c)'
        BY <2>1, <2>2, <3>4 DEF AwaitsPacket, NothingSent, m
      <3> QED
        BY <2>1, <3>5 DEF Exchange, Stage, NoProtocolError
    <2>3. CASE HasAnswered(c)
      <3>1. HasAnswered(c)'
        BY <2>1, <2>3, OnlyBreakInsChange DEF HasAnswered, Answered
      <3> QED
        BY <2>1, <3>1 DEF Exchange, Stage, NoProtocolError
    <2>4. CASE WaitsInVain(c)
      <3>1. WaitsInVain(c)'
        BY <2>1, <2>4, BytesOfTail DEF WaitsInVain, NothingSent
      <3> QED
        BY <2>1, <3>1 DEF Exchange, Stage, NoProtocolError
    <2> QED
      BY <2>1, <2>2, <2>3, <2>4
      DEF Exchange, Stage, AwaitsStart, AwaitsRest, HasRequest
  <1>4. CASE ExamineAck
    <2>1. /\ hpc = "examine" /\ Head(rx) # kBreakInByte /\ ackEnabled
          /\ UNCHANGED ackEnabled
          /\ \/ Head(rx) = kACK /\ hpc' = "find2" /\ UNCHANGED protocolError
             \/ Head(rx) # kACK /\ hpc' = "find" /\ protocolError' = TRUE
      BY <1>4 DEF ExamineAck, handlerLocals, StartOver
    <2>2. CASE AwaitsPacket(c)
      <3>1. Stream(rx, SentAckAndPacket(c), SentBehind(c))
        BY <2>1, <2>2 DEF AwaitsPacket
      <3>2. /\ c # "connect" /\ Head(rx) = kACK
            /\ Stream(Tail(rx), SentPacket(c), SentBehind(c))
            /\ Tail(rx) # <<>> => Head(Tail(rx)) = kPacketStart
        BY <2>1, <3>1, FindsAck
      <3>3. AwaitsStart(c)'
        BY <2>1, <2>2, <3>2 DEF AwaitsPacket, AwaitsStart, NothingSent
      <3> QED
        BY <2>1, <3>2, <3>3 DEF Exchange, Stage, NoProtocolError
    <2>3. CASE WaitsInVain(c)
      <3>1. WaitsInVain(c)'
        BY <2>1, <2>3, BytesOfTail DEF WaitsInVain, NothingSent
      <3> QED
        BY <2>1, <2>3, <3>1 DEF Exchange, Stage, NoProtocolError, WaitsInVain
    <2>4. ~HasAnswered(c)
      BY <2>1, OnlyBreakInsChange DEF HasAnswered
    <2> QED
      BY <2>1, <2>2, <2>3, <2>4
      DEF Exchange, Stage, AwaitsStart, AwaitsRest, HasRequest
  <1>5. CASE ExamineStart
    <2>1. /\ Head(rx) = kPacketStart =>
               hpc' = "packet" /\ ackEnabled' = newAckEnabled /\ UNCHANGED protocolError
          /\ hpc = "examine" => ~ackEnabled /\ Head(rx) # kBreakInByte
      BY <1>5 DEF ExamineStart, TakePacketStart
    <2>2. CASE AwaitsPacket(c) \/ AwaitsStart(c)
      <3>1. Stream(rx, SentPacket(c), SentBehind(c))
        BY <2>1, <2>2 DEF AwaitsPacket, AwaitsStart
      <3>2. Head(rx) # kBreakInByte
        BY <2>1, <2>2 DEF AwaitsPacket, AwaitsStart, kPacketStart, kBreakInByte
      <3>3. /\ c \in {"midpacket", "await", "cut"} /\ Head(rx) = kPacketStart
            /\ Stream(Tail(rx), SentRest(c), SentBehind(c))
        BY <3>1, <3>2, FindsStart
      <3>4. AwaitsRest(c)'
        BY <2>1, <2>2, <3>3
        DEF AwaitsPacket, AwaitsStart, AwaitsRest, NothingSent
      <3> QED
        BY <2>1, <3>3, <3>4 DEF Exchange, Stage, NoProtocolError
    <2>3. ~HasAnswered(c)
      BY <2>1, OnlyBreakInsChange DEF HasAnswered
    <2>4. ~WaitsInVain(c)
      BY <2>1 DEF WaitsInVain
    <2> QED
      BY <2>1, <2>2, <2>3, <2>4 DEF Exchange, Stage, AwaitsRest, HasRequest
  <1> QED
    BY <1>3, <1>4, <1>5

\* The packet it takes is the one the client sent.
LEMMA HandlerTakes ==
  ASSUME TypeOK, PeekedByteStillThere, NoProtocolError,
         NEW c \in Phases, Exchange(c), UNCHANGED clientVars,
         ChecksumMismatch \/ PacketReceived
  PROVE  Exchange(c)' /\ NoProtocolError'
PROOF
  <1>1. /\ hpc = "verify" /\ hpc' = "unlock"
        /\ rx # <<>> /\ Head(rx) = hdata /\ hdata \in Tails
        /\ rx \in Seq(Bytes)
        /\ UNCHANGED <<ackEnabled, newAckEnabled>>
    BY DEF ChecksumMismatch, PacketReceived, PeekedByteStillThere, TypeOK,
       BreakInTypeOK, Goto, Tails, Requests, NoData
  <1>2. ClientIn(c) /\ ClientIn(c)'
    BY ClientStays DEF Exchange
  <1>3. AwaitsRest(c)
    BY <1>1
    DEF Exchange, Stage, AwaitsPacket, AwaitsStart, HasRequest, HasAnswered,
        WaitsInVain
  <1>4. /\ c \in {"await", "cut"} /\ Head(rx) = SentTail(c)
        /\ c = "await" /\ ~noisy => OnlyBreakIns(Tail(rx))
        /\ noisy => kACK \notin ToSet(rx)
    <2>1. Head(rx) # kBreakInByte
      BY <1>1 DEF kBreakInByte, Tails, Requests
    <2> QED
      BY <1>1, <1>2, <1>3, <2>1, FindsTail DEF AwaitsRest
  <1> USE <1>1, <1>2, <1>3, <1>4, ClientStays DEF clientVars, AwaitsRest
  <1>5. CASE ChecksumMismatch
    <2>1. noisy /\ c = "await" /\ cAck
      BY <1>5 DEF ChecksumMismatch, SentTail, ClientIn, Requests
    <2>2. WaitsInVain(c)'
      BY <1>5, <2>1
      DEF ChecksumMismatch, WaitsInVain, NothingSent, breakVars, socketVars
    <2> QED
      BY <2>1, <2>2 DEF Exchange, Stage, NoProtocolError
  <1>6. CASE PacketReceived
    <2>1. /\ hdata \in Requests /\ rx' = Tail(rx) /\ request' = hdata
          /\ tx' = IF ackEnabled THEN Append(tx, kACK) ELSE tx
          /\ UNCHANGED protocolError
      BY <1>6 DEF PacketReceived, DiscardPeeked, Requests, NoData
    <2>2. ~noisy /\ c = "await" /\ hdata = creq
      BY <2>1 DEF SentTail, ClientIn, Requests
    <2>3. Acknowledged'
      <3>1. Append(<<>>, kACK) = <<kACK>>
        BY DEF kACK
      <3> QED
        BY <2>1, <2>2, <3>1 DEF Acknowledged, NothingSent
    <2>4. OnlyBreakIns(rx')
      BY <2>1, <2>2
    <2>5. HasRequest(c)'
      <3>1. newAckEnabled' = (cAck /\ ~(hpc' = "reply" /\ creq = "noack"))
        BY DEF TypeOK, ClientTypeOK
      <3> QED
        BY <2>1, <2>2, <2>3, <2>4, <3>1 DEF HasRequest
    <2> QED
      BY <2>1, <2>5 DEF Exchange, Stage, NoProtocolError
  <1> QED
    BY <1>5, <1>6

\* The way out has no way back.
LEMMA HandlerTearsDown ==
  ASSUME IsLeaving, UNCHANGED clientVars,
         HandlerProgress \/ CreateWrapper \/ TargetStops \/ TargetBreaksIn
  PROVE  IsLeaving' /\ UNCHANGED protocolError
PROOF
  <1>1. \/ (ReleaseMutex \/ SignalWorker) /\ request = Leave
        \/ ClearTarget \/ CloseSocket \/ DeleteStub \/ BeginDestruction \/ WakeWorker \/ Join
    BY DEF IsLeaving, HandlerProgress, Goto, RefuseConnection,
       AcceptConnection, InstallTarget, CreateWrapper, PeekFirst, PeekSecond,
       PeekByte, ConnectionLost, ExamineBreakIn, ExamineAck, ExamineStart,
       PeekPacket, PacketLost, ChecksumMismatch, PacketReceived, HandleQuery,
       QStartNoAckMode, HandleResume, TargetStops, TargetBreaksIn, SendReply,
       ReleaseMutex, SignalWorker
  <1>2. cpc = "closed" /\ cpc' = "closed" /\ UNCHANGED protocolError
    BY <1>1
    DEF IsLeaving, Goto, ReleaseMutex, SignalWorker, ClearTarget, CloseSocket,
        DeleteStub, BeginDestruction, WakeWorker, Join, clientVars
  <1>3. CASE (ReleaseMutex \/ SignalWorker) /\ request = Leave
    <2>1. (hpc' = "signal" /\ request' = Leave) \/ hpc' = "clearTarget"
      BY <1>3
      DEF ReleaseMutex, SignalWorker, Goto, handlerLocals, Leave, NoRequest
    <2> QED
      BY <1>2, <2>1 DEF IsLeaving
  <1>4. CASE \/ ClearTarget \/ CloseSocket \/ DeleteStub
             \/ BeginDestruction \/ WakeWorker \/ Join
    BY <1>2, <1>4
    DEF IsLeaving, Goto, ClearTarget, CloseSocket, DeleteStub,
        BeginDestruction, WakeWorker, Join
  <1> QED
    BY <1>1, <1>2, <1>3, <1>4

\* The worker takes break-in bytes only, and only while no wrapper exists.
LEMMA WorkerReads ==
  ASSUME TypeOK, MutexOwned, PeekedByteStillThere, WorkerStep \/ WorkerBreaksIn
  PROVE  /\ UNCHANGED <<hpc, tx, ackEnabled, newAckEnabled, request, protocolError>>
         /\ UNCHANGED rx \/ /\ rx # <<>> /\ Head(rx) = kBreakInByte /\ rx' = Tail(rx)
                            /\ hpc \notin HandlerInSocket
PROOF
  <1> USE DEF handlerVars, handlerLocals
  <1>1. CASE WorkerTakesBreakIn /\ UNCHANGED handlerVars
    <2>1. wpc = "examine" /\ SeesBreakIn /\ DiscardPeeked(wdata)
      BY <1>1 DEF WorkerTakesBreakIn
    <2>2. hpc \notin HandlerInSocket
      BY <2>1 DEF MutexOwned, WorkerInSocket, Handler, Worker
    <2>3. wdata # NoData => rx # <<>> /\ Head(rx) = wdata
      BY <2>1 DEF PeekedByteStillThere
    <2> QED
      BY <1>1, <2>1, <2>2, <2>3 DEF SeesBreakIn, DiscardPeeked
  <1>2. CASE (WorkerLock \/ WorkerCheck \/ WorkerPeek \/ WorkerSuspends \/ WorkerWakes) /\ UNCHANGED handlerVars
    BY <1>2
    DEF WorkerLock, WorkerCheck, WorkerPeek, WorkerSuspends, WorkerWakes,
        socketVars
  <1>3. CASE WorkerBreaksIn
    BY <1>3 DEF WorkerBreaksIn, WorkerCalls, socketVars
  <1> QED
    BY <1>1, <1>2, <1>3 DEF WorkerStep, WorkerInternal

\* The exchange does not notice the worker.
LEMMA WorkerInStep ==
  ASSUME TypeOK, MutexOwned, PeekedByteStillThere, NEW c \in Phases, Exchange(c),
         UNCHANGED clientVars, WorkerStep \/ WorkerBreaksIn
  PROVE  Exchange(c)'
PROOF
  <1>1. /\ UNCHANGED <<hpc, tx, ackEnabled, newAckEnabled, request, protocolError>>
        /\ UNCHANGED rx \/ /\ rx # <<>> /\ Head(rx) = kBreakInByte /\ rx' = Tail(rx)
                           /\ hpc \notin HandlerInSocket
    BY WorkerReads
  <1>2. ClientIn(c) /\ ClientIn(c)'
    BY ClientStays DEF Exchange
  <1>3. rx \in Seq(Bytes)
    BY DEF TypeOK, BreakInTypeOK
  <1> USE <1>1, <1>2, <1>3, ClientStays DEF clientVars
  <1>4. CASE UNCHANGED rx
    BY <1>4
    DEF Exchange, Stage, AwaitsPacket, AwaitsStart, AwaitsRest, HasRequest,
        HasAnswered, WaitsInVain, NothingSent, Acknowledged, Answered
  <1>5. CASE /\ rx # <<>> /\ Head(rx) = kBreakInByte /\ rx' = Tail(rx)
             /\ hpc \notin HandlerInSocket
    <2>1. CASE AwaitsPacket(c)
      <3> DEFINE m == IF ackEnabled THEN SentAckAndPacket(c) ELSE SentPacket(c)
      <3>1. m \in Seq(Bytes)
        BY SentTypes
      <3>2. m # <<>> => Head(m) # kBreakInByte
        BY DEF SentAckAndPacket, SentPacket, kACK, kPacketStart, kBreakInByte
      <3>3. Stream(rx, m, SentBehind(c))
        BY <2>1 DEF AwaitsPacket
      <3> HIDE DEF m
      <3>4. Stream(Tail(rx), m, SentBehind(c))
        BY <1>5, <3>1, <3>2, <3>3, StreamSkips
      <3>5. kBreakInByte \notin ToSet(rx) => kBreakInByte \notin ToSet(Tail(rx))
        BY <1>5, BytesOfTail
      <3>6. AwaitsPacket(c)'
        BY <1>5, <2>1, <3>4, <3>5 DEF AwaitsPacket, NothingSent, m
      <3> QED
        BY <3>6 DEF Exchange, Stage
    <2>2. CASE HasRequest(c) \/ HasAnswered(c)
      <3>1. OnlyBreakIns(rx')
        BY <1>5, <2>2, OnlyBreakInsChange DEF HasRequest, HasAnswered
      <3> QED
        BY <2>2, <3>1
        DEF Exchange, Stage, HasRequest, HasAnswered, Acknowledged, Answered
    <2>3. CASE WaitsInVain(c)
      <3>1. kACK \notin ToSet(rx')
        BY <1>5, <2>3, BytesOfTail DEF WaitsInVain
      <3> QED
        BY <2>3, <3>1 DEF Exchange, Stage, WaitsInVain, NothingSent
    <2> QED
      BY <1>5, <2>1, <2>2, <2>3
      DEF Exchange, Stage, AwaitsStart, AwaitsRest, HandlerInSocket
  <1> QED
    BY <1>4, <1>5

\* Every step of the server keeps the two in step.
LEMMA ServerInStep ==
  ASSUME IInv, EndsKnown, InStep, NoProtocolError, ServerStep, UNCHANGED clientVars
  PROVE  InStep' /\ NoProtocolError'
PROOF
  <1> USE DEF IInv
  <1>1. CASE IsLeaving
    <2>1. CASE WorkerStep \/ WorkerBreaksIn
      <3>1. UNCHANGED <<hpc, request, protocolError, tx>>
        BY <2>1, WorkerReads
      <3> QED
        BY <1>1, <3>1 DEF IsLeaving, InStep, NoProtocolError, clientVars
    <2>2. CASE HandlerProgress \/ CreateWrapper \/ TargetStops \/ TargetBreaksIn
      BY <1>1, <2>2, HandlerTearsDown DEF InStep, NoProtocolError, clientVars
    <2> QED
      BY <2>1, <2>2 DEF ServerStep
  <1>2. ASSUME NEW c \in Phases, Exchange(c)
        PROVE  InStep' /\ NoProtocolError'
    <2> USE <1>2
    <2>1. UNCHANGED noisy
      BY DEF clientVars
    <2>2. CASE WorkerStep \/ WorkerBreaksIn
      <3>1. Exchange(c)' /\ UNCHANGED protocolError
        BY <2>2, WorkerInStep, WorkerReads
      <3> QED
        BY <2>1, <3>1 DEF InStep, NoProtocolError
    <2>3. CASE RefuseConnection \/ ConnectionLost \/ PacketLost
      BY <2>1, <2>3, HandlerLeaves DEF InStep, NoProtocolError
    <2>4. CASE ExamineBreakIn \/ ExamineAck \/ ExamineStart
      BY <2>4, HandlerReads DEF InStep
    <2>5. CASE ChecksumMismatch \/ PacketReceived
      BY <2>5, HandlerTakes DEF InStep
    <2>6. CASE SendReply
      BY <2>1, <2>6, SendsReply DEF InStep, NoProtocolError
    <2>7. CASE \/ AcceptConnection \/ InstallTarget \/ CreateWrapper
               \/ PeekFirst \/ PeekSecond \/ PeekPacket
               \/ (ReleaseMutex \/ SignalWorker) /\ request # Leave
               \/ HandleQuery \/ QStartNoAckMode \/ HandleResume
               \/ TargetStops \/ TargetBreaksIn
      BY <2>1, <2>7, HandlerPasses DEF InStep, NoProtocolError
    <2>8. CASE (ReleaseMutex \/ SignalWorker) /\ request = Leave
      BY <2>8
      DEF Exchange, Stage, AwaitsPacket, AwaitsStart, AwaitsRest, HasRequest,
          HasAnswered, WaitsInVain, ReleaseMutex, SignalWorker, Goto, Requests,
          NoRequest, Leave
    <2>9. ~(ClearTarget \/ CloseSocket \/ DeleteStub \/ BeginDestruction \/ WakeWorker \/ Join)
      BY DEF Exchange, Stage, AwaitsPacket, AwaitsStart, AwaitsRest,
         HasRequest, HasAnswered, WaitsInVain, ClearTarget, CloseSocket,
         DeleteStub, BeginDestruction, WakeWorker, Join, Goto
    <2> QED
      BY <2>2, <2>3, <2>4, <2>5, <2>6, <2>7, <2>8, <2>9
      DEF ServerStep, HandlerProgress
  <1> QED
    BY <1>1, <1>2 DEF InStep

-----------------------------------------------------------------------------
(* The client's steps.                                                     *)

\* What the server keeps while the client speaks.
LEMMA ClientSpeaks ==
  ASSUME ClientGreets \/ ClientStartsPacket \/ ClientEndsPacket \/ ClientResends \/ ClientBreaksIn
  PROVE  /\ UNCHANGED <<hpc, tx, ackEnabled, newAckEnabled, request, protocolError>>
         /\ UNCHANGED <<cAck, clientError>>
         /\ cpc # "closed" /\ cpc' # "closed"
  BY DEF ClientGreets, ClientStartsPacket, ClientEndsPacket, ClientResends,
     ClientBreaksIn, ClientSends, handlerVars, handlerLocals

\* The client's steps, one by one.
LEMMA GreetsInStep ==
  ASSUME TypeOK, NEW c \in Phases, Exchange(c), ClientGreets
  PROVE  Exchange("idle")'
PROOF
  <1>1. /\ c = "connect" /\ cpc' = "idle" /\ UNCHANGED <<gotAck, creq, noisy, cAck>>
        /\ ~noisy /\ UNCHANGED <<hpc, tx, ackEnabled, newAckEnabled, request>>
    BY ClientSpeaks DEF ClientGreets, Exchange, ClientIn
  <1>2. AwaitsPacket(c) /\ cAck /\ ackEnabled
    BY <1>1
    DEF Exchange, Stage, AwaitsStart, AwaitsRest, HasRequest, HasAnswered,
        WaitsInVain, AwaitsPacket
  <1>3. rx \in Seq(Bytes) /\ kACK \in Bytes /\ <<>> \in Seq(Bytes)
    BY DEF TypeOK, BreakInTypeOK, Bytes
  <1>4. rx' = Append(rx, kACK)
    BY <1>3, SendsOne DEF ClientGreets, ClientSends
  <1>5. Stream(rx, <<>>, {})
    BY <1>1, <1>2 DEF AwaitsPacket, SentAckAndPacket, SentBehind
  <1>6. Stream(rx', <<kACK>>, {})
    <2>1. Append(<<>>, kACK) = <<kACK>>
      BY DEF kACK
    <2>2. Stream(Append(rx, kACK), Append(<<>>, kACK), {})
      BY <1>3, <1>5, StreamGrows
    <2> QED
      BY <1>4, <2>1, <2>2
  <1>7. kBreakInByte \notin ToSet(rx) => kBreakInByte \notin ToSet(rx')
    BY <1>3, <1>4, BytesOfAppend DEF kACK, kBreakInByte
  <1>8. AwaitsPacket("idle")'
    BY <1>1, <1>2, <1>6, <1>7
    DEF AwaitsPacket, NothingSent, SentAckAndPacket, SentBehind
  <1> QED
    BY <1>1, <1>8 DEF Exchange, Stage, ClientIn

LEMMA StartsInStep ==
  ASSUME TypeOK, NEW c \in Phases, Exchange(c), ClientStartsPacket
  PROVE  Exchange("midpacket")'
PROOF
  <1>1. /\ c = "idle" /\ cpc' = "midpacket" /\ UNCHANGED <<noisy, cAck>>
        /\ creq' \in Requests /\ (creq' = "noack" => cAck)
        /\ gotAck' = FALSE
        /\ ~noisy /\ UNCHANGED <<hpc, tx, ackEnabled, newAckEnabled, request>>
    BY ClientSpeaks, SessionAssumption
    DEF ClientStartsPacket, Exchange, ClientIn, SessionAssumption
  <1>2. rx \in Seq(Bytes) /\ kACK \in Bytes /\ kPacketStart \in Bytes
    BY DEF TypeOK, BreakInTypeOK, Bytes
  <1>3. rx' = Append(rx, kPacketStart)
    BY <1>2, SendsOne DEF ClientStartsPacket, ClientSends
  <1>4. /\ SentPacket("midpacket")' = Append(SentPacket(c), kPacketStart)
        /\ SentAckAndPacket("midpacket")' = Append(SentAckAndPacket(c),
                                                   kPacketStart)
        /\ SentBehind("midpacket")' = {} /\ SentBehind(c) = {}
    <2>1. Append(<<>>, kPacketStart) = <<kPacketStart>>
      BY DEF kPacketStart
    <2>2. Append(<<kACK>>, kPacketStart) = <<kACK, kPacketStart>>
      BY <1>2, AppendsSecond
    <2> QED
      BY <1>1, <2>1, <2>2 DEF SentPacket, SentAckAndPacket, SentBehind
  <1>5. SentPacket(c) \in Seq(Bytes) /\ SentAckAndPacket(c) \in Seq(Bytes)
    BY SentTypes DEF Exchange
  <1>6. ClientIn("midpacket")'
    BY <1>1 DEF ClientIn
  <1>7. CASE AwaitsPacket(c)
    <2> DEFINE m == IF ackEnabled THEN SentAckAndPacket(c) ELSE SentPacket(c)
    <2>1. m \in Seq(Bytes) /\ Stream(rx, m, {})
      BY <1>4, <1>5, <1>7 DEF AwaitsPacket
    <2> HIDE DEF m
    <2>2. Stream(rx', Append(m, kPacketStart), {})
      BY <1>2, <1>3, <2>1, StreamGrows
    <2>3. Append(m, kPacketStart) = IF ackEnabled THEN SentAckAndPacket("midpacket")' ELSE SentPacket("midpacket")'
      BY <1>4 DEF m
    <2>4. kBreakInByte \notin ToSet(rx) => kBreakInByte \notin ToSet(rx')
      BY <1>2, <1>3, BytesOfAppend DEF kPacketStart, kBreakInByte
    <2>5. AwaitsPacket("midpacket")'
      BY <1>1, <1>4, <1>7, <2>2, <2>3, <2>4 DEF AwaitsPacket, NothingSent
    <2> QED
      BY <1>6, <2>5 DEF Exchange, Stage
  <1>8. CASE AwaitsStart(c)
    <2>1. Stream(rx, SentPacket(c), {}) /\ SentPacket(c) = <<>>
      BY <1>1, <1>4, <1>8 DEF AwaitsStart, SentPacket
    <2>2. Stream(rx', SentPacket("midpacket")', {})
      BY <1>2, <1>3, <1>4, <1>5, <2>1, StreamGrows
    <2>3. rx = <<>>
      BY <1>2, <1>8, <2>1, NothingBut
      DEF AwaitsStart, kPacketStart, kBreakInByte
    <2>4. Head(rx') = kPacketStart
      BY <1>3, <2>3 DEF kPacketStart
    <2>5. AwaitsStart("midpacket")'
      BY <1>1, <1>4, <1>8, <2>2, <2>4 DEF AwaitsStart, NothingSent
    <2> QED
      BY <1>6, <2>5 DEF Exchange, Stage
  <1> QED
    BY <1>1, <1>7, <1>8
    DEF Exchange, Stage, AwaitsRest, HasRequest, HasAnswered, WaitsInVain

\* The rest of a packet arrives, whole, damaged or cut off.
LEMMA TailInStep ==
  ASSUME TypeOK, NEW c \in Phases, c = "midpacket", Exchange(c),
         NEW d \in {"await", "cut"},
         UNCHANGED <<hpc, tx, ackEnabled, newAckEnabled, request, cAck, gotAck>>,
         SentTail(d)' \in Bytes \ {kBreakInByte},
         rx' = Append(rx, SentTail(d)'), ClientIn(d)'
  PROVE  Exchange(d)'
PROOF
  <1> DEFINE t == SentTail(d)'
  <1>1. rx \in Seq(Bytes) /\ {kACK, kPacketStart} \subseteq Bytes /\ t \in Bytes /\ t # kBreakInByte
    BY DEF TypeOK, BreakInTypeOK, Bytes
  <1>2. /\ SentPacket(d)' = Append(SentPacket(c), t)
        /\ SentAckAndPacket(d)' = Append(SentAckAndPacket(c), t)
        /\ SentRest(d)' = Append(SentRest(c), t)
        /\ SentBehind(c) = {}
    <2>1. /\ SentPacket(d)' = <<kPacketStart, t>>
          /\ SentAckAndPacket(d)' = <<kACK, kPacketStart, t>>
          /\ SentRest(d)' = <<t>>
          /\ SentPacket(c) = <<kPacketStart>>
          /\ SentAckAndPacket(c) = <<kACK, kPacketStart>>
          /\ SentRest(c) = <<>>
          /\ SentBehind(c) = {}
      BY DEF SentPacket, SentAckAndPacket, SentRest, SentBehind, Exchange,
         ClientIn
    <2> HIDE DEF t
    <2>2. Append(<<>>, t) = <<t>>
      BY <1>1, AppendsFirst
    <2>3. Append(<<kPacketStart>>, t) = <<kPacketStart, t>>
      BY <1>1, AppendsSecond
    <2>4. Append(<<kACK, kPacketStart>>, t) = <<kACK, kPacketStart, t>>
      BY <1>1, AppendsThird
    <2> QED
      BY <2>1, <2>2, <2>3, <2>4
  <1>3. /\ SentPacket(c) \in Seq(Bytes) /\ SentAckAndPacket(c) \in Seq(Bytes)
        /\ SentRest(c) \in Seq(Bytes)
    BY SentTypes DEF Exchange
  <1>4. rx' = Append(rx, t)
    OBVIOUS
  <1> HIDE DEF t
  <1>5. CASE AwaitsPacket(c)
    <2> DEFINE m == IF ackEnabled THEN SentAckAndPacket(c) ELSE SentPacket(c)
    <2>1. m \in Seq(Bytes) /\ Stream(rx, m, {})
      BY <1>2, <1>3, <1>5 DEF AwaitsPacket
    <2> HIDE DEF m
    <2>2. Stream(rx', Append(m, t), SentBehind(d)')
      BY <1>1, <1>4, <2>1, StreamGrows
    <2>3. Append(m, t) = IF ackEnabled THEN SentAckAndPacket(d)' ELSE SentPacket(d)'
      BY <1>2 DEF m
    <2>4. kBreakInByte \notin ToSet(rx) => kBreakInByte \notin ToSet(rx')
      BY <1>1, <1>4, BytesOfAppend
    <2>5. AwaitsPacket(d)'
      BY <1>5, <2>2, <2>3, <2>4 DEF AwaitsPacket, NothingSent
    <2> QED
      BY <2>5 DEF Exchange, Stage
  <1>6. CASE AwaitsStart(c)
    <2>1. Stream(rx, SentPacket(c), {})
      BY <1>2, <1>6 DEF AwaitsStart
    <2>2. Stream(rx', SentPacket(d)', SentBehind(d)')
      BY <1>1, <1>2, <1>3, <1>4, <2>1, StreamGrows
    <2>3. rx # <<>>
      <3>1. SentPacket(c) # <<>>
        BY DEF SentPacket
      <3> QED
        BY <1>1, <1>3, <2>1, <3>1, StreamHolds
    <2>4. Head(rx') = Head(rx)
      BY <1>1, <1>4, <2>3
    <2>5. AwaitsStart(d)'
      BY <1>6, <2>2, <2>3, <2>4 DEF AwaitsStart, NothingSent
    <2> QED
      BY <2>5 DEF Exchange, Stage
  <1>7. CASE AwaitsRest(c)
    <2>1. Stream(rx, SentRest(c), {})
      BY <1>2, <1>7 DEF AwaitsRest
    <2>2. Stream(rx', SentRest(d)', SentBehind(d)')
      BY <1>1, <1>2, <1>3, <1>4, <2>1, StreamGrows
    <2>3. AwaitsRest(d)'
      BY <1>7, <2>2 DEF AwaitsRest, NothingSent
    <2> QED
      BY <2>3 DEF Exchange, Stage
  <1> QED
    BY <1>5, <1>6, <1>7
    DEF Exchange, Stage, HasRequest, HasAnswered, WaitsInVain

LEMMA EndsInStep ==
  ASSUME TypeOK, NEW c \in Phases, Exchange(c), ClientEndsPacket
  PROVE  Exchange("await")'
PROOF
  <1>1. /\ c = "midpacket" /\ cpc' = "await" /\ UNCHANGED <<creq, cAck, gotAck>>
        /\ creq \in Requests /\ (creq = "noack" => cAck)
        /\ noisy' => cAck
        /\ ~noisy /\ UNCHANGED <<hpc, tx, ackEnabled, newAckEnabled, request>>
    <2>1. cpc = "midpacket" /\ cpc' = "await" /\ UNCHANGED <<creq, cAck, gotAck>>
      BY DEF ClientEndsPacket
    <2>2. c = "midpacket" /\ ~noisy /\ creq \in Requests /\ (creq = "noack" => cAck)
      BY <2>1 DEF Exchange, ClientIn
    <2>3. noisy' => cAck
      BY <2>2 DEF ClientEndsPacket
    <2> QED
      BY <2>1, <2>2, <2>3, ClientSpeaks
  <1>2. SentTail("await")' \in Bytes \ {kBreakInByte}
    BY <1>1 DEF Bytes, Tails, SentTail, Requests, kBreakInByte
  <1>3. rx' = Append(rx, SentTail("await")')
    <2>1. rx' = rx \o <<SentTail("await")'>>
      BY <1>1 DEF ClientEndsPacket, ClientSends, SentTail
    <2>2. rx \in Seq(Bytes)
      BY DEF TypeOK, BreakInTypeOK
    <2> QED
      BY <1>2, <2>1, <2>2, SendsOne
  <1>4. ClientIn("await")'
    BY <1>1 DEF ClientIn
  <1> QED
    BY <1>1, <1>2, <1>3, <1>4, TailInStep

LEMMA ResendsInStep ==
  ASSUME TypeOK, EndsKnown, NEW c \in Phases, Exchange(c), ClientResends
  PROVE  Exchange("await")'
PROOF
  <1>1. /\ c = "await" /\ cpc' = "await" /\ UNCHANGED <<creq, cAck, gotAck, noisy>>
        /\ creq \in Requests /\ noisy /\ cAck
        /\ UNCHANGED <<hpc, tx, ackEnabled, newAckEnabled, request>>
    <2>1. cpc = "await" /\ cpc' = "await" /\ UNCHANGED <<creq, cAck, gotAck,
                                                         noisy>> /\ noisy
      BY DEF ClientResends, EndsKnown
    <2>2. c = "await" /\ creq \in Requests /\ cAck
      BY <2>1 DEF Exchange, ClientIn
    <2> QED
      BY <2>1, <2>2, ClientSpeaks
  <1>2. /\ rx \in Seq(Bytes) /\ kPacketStart \in Bytes \ {kACK, kBreakInByte}
        /\ creq \in Bytes \ {kACK, kBreakInByte}
    BY <1>1
    DEF TypeOK, BreakInTypeOK, Bytes, Tails, Requests, kBreakInByte,
        kPacketStart, kACK
  <1> DEFINE s == Append(rx, kPacketStart)
  <1>3. s \in Seq(Bytes) /\ rx' = Append(s, creq)
    BY <1>2, SendsTwo DEF ClientResends, ClientSends
  <1>4. /\ ClientIn("await")'
        /\ SentPacket("await")' = SentPacket("await")
        /\ SentAckAndPacket("await")' = SentAckAndPacket("await")
        /\ SentRest("await")' = SentRest("await")
        /\ SentBehind("await")' = SentBehind("await")
        /\ SentBehind("await") = Bytes \ {kACK}
    BY <1>1
    DEF Exchange, ClientIn, SentPacket, SentAckAndPacket, SentRest, SentBehind,
        SentTail
  <1>5. ASSUME NEW m \in Seq(Bytes), Stream(rx, m, SentBehind("await"))
        PROVE  Stream(rx', m, SentBehind("await"))
    <2>1. Stream(s, m, SentBehind("await"))
      BY <1>2, <1>4, <1>5, StreamFollowed
    <2> HIDE DEF s
    <2> QED
      BY <1>2, <1>3, <1>4, <2>1, StreamFollowed
  <1>6. /\ kACK \notin ToSet(rx) => kACK \notin ToSet(rx')
        /\ kBreakInByte \notin ToSet(rx) => kBreakInByte \notin ToSet(rx')
    <2>1. ToSet(s) = ToSet(rx) \cup {kPacketStart}
      BY <1>2, BytesOfAppend
    <2> HIDE DEF s
    <2>2. ToSet(rx') = ToSet(s) \cup {creq}
      BY <1>2, <1>3, BytesOfAppend
    <2> QED
      BY <1>2, <2>1, <2>2
  <1>7. /\ SentPacket("await") \in Seq(Bytes) /\ SentAckAndPacket("await") \in Seq(Bytes)
        /\ SentRest("await") \in Seq(Bytes) /\ SentPacket("await") # <<>>
    BY <1>1, SentTypes DEF Exchange, SentPacket
  <1>8. CASE AwaitsPacket(c)
    <2>1. AwaitsPacket("await")'
      BY <1>1, <1>4, <1>5, <1>6, <1>7, <1>8 DEF AwaitsPacket, NothingSent
    <2> QED
      BY <1>4, <2>1 DEF Exchange, Stage
  <1>9. CASE AwaitsStart(c)
    <2>1. rx # <<>>
      BY <1>1, <1>2, <1>7, <1>9, StreamHolds DEF AwaitsStart
    <2>2. Head(rx') = Head(rx)
      <3>1. s # <<>> /\ Head(s) = Head(rx)
        BY <1>2, <2>1
      <3> HIDE DEF s
      <3> QED
        BY <1>2, <1>3, <3>1
    <2>3. AwaitsStart("await")'
      BY <1>1, <1>4, <1>5, <1>7, <1>9, <2>1, <2>2 DEF AwaitsStart, NothingSent
    <2> QED
      BY <1>4, <2>3 DEF Exchange, Stage
  <1>10. CASE AwaitsRest(c)
    <2>1. AwaitsRest("await")'
      BY <1>1, <1>4, <1>5, <1>7, <1>10 DEF AwaitsRest, NothingSent
    <2> QED
      BY <1>4, <2>1 DEF Exchange, Stage
  <1>11. CASE WaitsInVain(c)
    <2>1. WaitsInVain("await")'
      BY <1>1, <1>6, <1>11 DEF WaitsInVain, NothingSent
    <2> QED
      BY <1>4, <2>1 DEF Exchange, Stage
  <1> QED
    BY <1>1, <1>8, <1>9, <1>10, <1>11
    DEF Exchange, Stage, HasRequest, HasAnswered

LEMMA BreaksInInStep ==
  ASSUME TypeOK, NEW c \in Phases, Exchange(c), ClientBreaksIn
  PROVE  Exchange("await")'
PROOF
  <1>1. /\ c = "await" /\ cpc' = "await" /\ UNCHANGED <<creq, cAck, gotAck, noisy>>
        /\ cAck => gotAck
        /\ UNCHANGED <<hpc, tx, ackEnabled, newAckEnabled, request>>
    <2>1. cpc = "await" /\ cpc' = "await" /\ UNCHANGED <<creq, cAck, gotAck,
                                                         noisy>> /\ (cAck => gotAck)
      BY DEF ClientBreaksIn
    <2>2. c = "await"
      BY <2>1 DEF Exchange, ClientIn
    <2> QED
      BY <2>1, <2>2, ClientSpeaks
  <1>2. rx \in Seq(Bytes) /\ kBreakInByte \in Bytes
    BY DEF TypeOK, BreakInTypeOK, Bytes
  <1>3. rx' = Append(rx, kBreakInByte)
    BY <1>2, SendsOne DEF ClientBreaksIn, ClientSends
  <1>4. ~noisy
    <2> SUFFICES ASSUME noisy PROVE FALSE
      OBVIOUS
    <2>1. cAck /\ gotAck
      BY <1>1 DEF Exchange, ClientIn
    <2> QED
      BY <1>1, <2>1
      DEF Exchange, Stage, AwaitsPacket, AwaitsStart, AwaitsRest, HasRequest,
          HasAnswered, WaitsInVain, NothingSent
  <1>5. /\ ClientIn("await")'
        /\ SentPacket("await")' = SentPacket("await")
        /\ SentAckAndPacket("await")' = SentAckAndPacket("await")
        /\ SentRest("await")' = SentRest("await")
        /\ SentBehind("await")' = SentBehind("await")
        /\ SentBehind("await") = {kBreakInByte}
    BY <1>1, <1>4
    DEF Exchange, ClientIn, SentPacket, SentAckAndPacket, SentRest, SentBehind,
        SentTail
  <1>6. ASSUME NEW m \in Seq(Bytes), Stream(rx, m, SentBehind("await"))
        PROVE  Stream(rx', m, SentBehind("await"))
    BY <1>2, <1>3, <1>5, <1>6, StreamFollowed
  <1>7. /\ SentPacket("await") \in Seq(Bytes) /\ SentAckAndPacket("await") \in Seq(Bytes)
        /\ SentRest("await") \in Seq(Bytes) /\ SentPacket("await") # <<>>
    BY <1>1, SentTypes DEF Exchange, SentPacket
  <1>8. CASE AwaitsPacket(c)
    <2>1. hpc \notin {"create", "setTarget"}
      BY <1>1, <1>8 DEF AwaitsPacket, NothingSent
    <2>2. AwaitsPacket("await")'
      BY <1>1, <1>5, <1>6, <1>7, <1>8, <2>1 DEF AwaitsPacket, NothingSent
    <2> QED
      BY <1>5, <2>2 DEF Exchange, Stage
  <1>9. CASE AwaitsStart(c)
    <2>1. rx # <<>>
      BY <1>1, <1>2, <1>7, <1>9, StreamHolds DEF AwaitsStart
    <2>2. Head(rx') = Head(rx)
      BY <1>2, <1>3, <2>1
    <2>3. AwaitsStart("await")'
      BY <1>1, <1>5, <1>6, <1>7, <1>9, <2>1, <2>2 DEF AwaitsStart, NothingSent
    <2> QED
      BY <1>5, <2>3 DEF Exchange, Stage
  <1>10. CASE AwaitsRest(c)
    <2>1. AwaitsRest("await")'
      BY <1>1, <1>5, <1>6, <1>7, <1>10 DEF AwaitsRest, NothingSent
    <2> QED
      BY <1>5, <2>1 DEF Exchange, Stage
  <1>11. CASE HasRequest(c) \/ HasAnswered(c)
    <2>1. OnlyBreakIns(rx')
      BY <1>2, <1>3, <1>11, OnlyBreakInsChange DEF HasRequest, HasAnswered
    <2> QED
      BY <1>1, <1>5, <1>11, <2>1
      DEF Exchange, Stage, HasRequest, HasAnswered, Acknowledged, Answered
  <1> QED
    BY <1>4, <1>8, <1>9, <1>10, <1>11 DEF Exchange, Stage, WaitsInVain

LEMMA AckInStep ==
  ASSUME TypeOK, NEW c \in Phases, Exchange(c), ClientReceivesAck
  PROVE  Exchange(c)' /\ UNCHANGED clientError
PROOF
  <1>1. /\ c = cpc /\ UNCHANGED <<cpc, creq, cAck, noisy>> /\ gotAck' = TRUE
        /\ tx # <<>> /\ Head(tx) = kACK /\ tx' = Tail(tx)
        /\ UNCHANGED <<rx, hpc, ackEnabled, newAckEnabled, request>>
    BY DEF ClientReceivesAck, Exchange, ClientIn, breakVars, socketVars,
       handlerLocals
  <1>2. ClientIn(c)'
    BY <1>1 DEF Exchange, ClientIn
  <1>3. kACK # Reply
    BY DEF kACK, Reply
  <1>4. CASE HasRequest(c)
    <2>1. cAck /\ ~gotAck /\ tx' = <<>>
      BY <1>1, <1>3, <1>4 DEF HasRequest, Acknowledged
    <2>2. HasRequest(c)'
      BY <1>1, <1>4, <2>1 DEF HasRequest, Acknowledged
    <2> QED
      BY <1>1, <1>2, <1>4, <2>1, <2>2
      DEF Exchange, Stage, ClientReceivesAck, HasRequest, TypeOK, ClientTypeOK
  <1>5. CASE HasAnswered(c)
    <2>1. cAck /\ ~gotAck /\ tx' = <<Reply>>
      <3>1. Tail(<<kACK, Reply>>) = <<Reply>>
        OBVIOUS
      <3>2. Head(<<Reply>>) = Reply
        OBVIOUS
      <3> QED
        BY <1>1, <1>3, <1>5, <3>1, <3>2 DEF HasAnswered, Answered
    <2>2. HasAnswered(c)'
      BY <1>1, <1>5, <2>1 DEF HasAnswered, Answered
    <2> QED
      BY <1>1, <1>2, <1>5, <2>1, <2>2
      DEF Exchange, Stage, ClientReceivesAck, HasAnswered, TypeOK, ClientTypeOK
  <1> QED
    BY <1>1, <1>4, <1>5
    DEF Exchange, Stage, AwaitsPacket, AwaitsStart, AwaitsRest, WaitsInVain,
        NothingSent

LEMMA ReplyInStep ==
  ASSUME TypeOK, NEW c \in Phases, Exchange(c), ClientReceivesReply
  PROVE  Exchange("idle")' /\ UNCHANGED clientError
PROOF
  <1>1. /\ c = cpc /\ cpc' = "idle" /\ UNCHANGED <<creq, noisy>>
        /\ tx # <<>> /\ Head(tx) = Reply /\ tx' = Tail(tx)
        /\ UNCHANGED <<hpc, ackEnabled, newAckEnabled, request>>
        /\ cAck' = (cAck /\ creq # "noack")
    BY DEF ClientReceivesReply, Exchange, ClientIn, handlerLocals
  <1>2. rx' = IF cAck THEN Append(rx, kACK) ELSE rx
    BY DEF ClientReceivesReply
  <1>3. kACK # Reply
    BY DEF kACK, Reply
  <1>4. HasAnswered(c)
    BY <1>1, <1>3
    DEF Exchange, Stage, AwaitsPacket, AwaitsStart, AwaitsRest, WaitsInVain,
        NothingSent, HasRequest, Acknowledged
  <1>5. c = "await" /\ ~noisy /\ tx' = <<>> /\ (cAck => gotAck)
    BY <1>1, <1>3, <1>4 DEF HasAnswered, Answered
  <1>6. rx \in Seq(Bytes) /\ kACK \in Bytes /\ <<>> \in Seq(Bytes)
    BY DEF TypeOK, BreakInTypeOK, Bytes
  <1>7. Stream(rx, <<>>, {})
    BY <1>4, <1>6, StreamNothing DEF HasAnswered
  <1>8. Stream(rx', IF cAck THEN <<kACK>> ELSE <<>>, {})
    <2>1. Append(<<>>, kACK) = <<kACK>>
      BY DEF kACK
    <2>2. Stream(Append(rx, kACK), Append(<<>>, kACK), {})
      BY <1>6, <1>7, StreamGrows
    <2> QED
      BY <1>2, <1>7, <2>1, <2>2
  <1>9. AwaitsPacket("idle")'
    BY <1>1, <1>4, <1>5, <1>8
    DEF HasAnswered, AwaitsPacket, NothingSent, SentAckAndPacket, SentPacket,
        SentBehind
  <1>10. ClientIn("idle")'
    BY <1>1, <1>5 DEF ClientIn
  <1> QED
    BY <1>1, <1>5, <1>9, <1>10
    DEF Exchange, Stage, ClientReceivesReply, TypeOK, ClientTypeOK

LEMMA CloseInStep ==
  ASSUME TypeOK, NEW c \in Phases, Exchange(c), ClientCloses
  PROVE  Exchange(c)' \/ Exchange("cut")'
PROOF
  <1>1. /\ c = cpc /\ cpc' = "closed" /\ UNCHANGED <<creq, noisy, cAck, gotAck>>
        /\ UNCHANGED <<tx, hpc, ackEnabled, newAckEnabled, request>>
    BY DEF ClientCloses, Exchange, ClientIn, handlerVars, handlerLocals
  <1>2. CASE UNCHANGED rx
    <2>1. /\ ClientIn(c)'
          /\ SentPacket(c)' = SentPacket(c) /\ SentAckAndPacket(c)' = SentAckAndPacket(c)
          /\ SentRest(c)' = SentRest(c) /\ SentBehind(c)' = SentBehind(c)
      BY <1>1
      DEF Exchange, ClientIn, SentPacket, SentAckAndPacket, SentRest,
          SentBehind, SentTail
    <2> QED
      BY <1>1, <1>2, <2>1
      DEF Exchange, Stage, AwaitsPacket, AwaitsStart, AwaitsRest, HasRequest,
          HasAnswered, WaitsInVain, NothingSent, Acknowledged, Answered
  <1>3. CASE c = "midpacket" /\ rx' = Append(rx, "cut")
    <2>1. SentTail("cut")' = "cut" /\ "cut" \in Bytes \ {kBreakInByte}
      BY DEF SentTail, Bytes, Tails, kBreakInByte
    <2>2. ClientIn("cut")'
      BY <1>1, <1>3 DEF Exchange, ClientIn
    <2> QED
      BY <1>1, <1>3, <2>1, <2>2, TailInStep
  <1> QED
    BY <1>1, <1>2, <1>3 DEF ClientCloses

\* Every step keeps what is known of the end of the connection.
LEMMA EndsKnownStep ==
  ASSUME TypeOK, EndsKnown, [Next]_vars
  PROVE  EndsKnown'
PROOF
  <1> USE DEF EndsKnown, breakVars, socketVars, workerVars, handlerVars,
              handlerLocals, targetVars, clientVars
  <1>1. CASE WorkerStep /\ UNCHANGED clientVars
    <2>1. UNCHANGED <<eof, closed, hpc, hdata, running, cpc, lost, noisy>>
      BY <1>1
      DEF WorkerStep, WorkerInternal, WorkerLock, WorkerCheck, WorkerPeek,
          WorkerTakesBreakIn, WorkerSuspends, WorkerWakes
    <2>2. wpc' = "examine" /\ wdata' = NoData => eof \/ closed
      BY <1>1
      DEF WorkerStep, WorkerInternal, WorkerLock, WorkerCheck, WorkerPeek,
          PeekReturns, WorkerTakesBreakIn, WorkerSuspends, WorkerWakes, TypeOK,
          BreakInTypeOK, Bytes, Tails, Requests, NoData, kBreakInByte, kACK,
          kPacketStart
    <2> QED
      BY <2>1, <2>2
  <1>2. CASE WorkerBreaksIn /\ UNCHANGED clientVars
    BY <1>2 DEF WorkerBreaksIn, WorkerCalls, OnBreakInRequest
  <1>3. CASE (PeekFirst \/ PeekSecond \/ PeekPacket) /\ UNCHANGED clientVars
    <2>1. /\ ~closed /\ hpc # "wait" /\ hpc' \in {"examine", "examine2", "verify"}
          /\ UNCHANGED <<eof, closed, wpc, wdata, running, cpc, lost, noisy>>
      BY <1>3 DEF PeekFirst, PeekSecond, PeekPacket, PeekByte, Goto
    <2>2. NoData \notin Bytes /\ NoData \notin Tails
      BY DEF Bytes, Tails, Requests, NoData, kBreakInByte, kACK, kPacketStart
    <2>3. rx # <<>> => Head(rx) # NoData
      BY <2>2 DEF TypeOK, BreakInTypeOK
    <2>4. CASE PeekFirst \/ PeekSecond
      BY <2>1, <2>3, <2>4 DEF PeekFirst, PeekSecond, PeekByte, PeekReturns
    <2>5. CASE PeekPacket
      BY <2>1, <2>3, <2>5 DEF PeekPacket
    <2> QED
      BY <1>3, <2>4, <2>5
  <1>4. CASE /\ \/ ExamineBreakIn \/ ExamineAck \/ ExamineStart \/ PacketReceived
             /\ UNCHANGED clientVars
    BY <1>4
    DEF ExamineBreakIn, OnBreakInRequest, ExamineAck, ExamineStart,
        PacketReceived, StartOver, TakePacketStart, Goto
  <1>5. CASE /\ \/ RefuseConnection \/ CloseSocket
             /\ UNCHANGED clientVars
    BY <1>5 DEF RefuseConnection, CloseSocket, Goto
  <1>6. CASE /\ \/ HandleResume \/ TargetStops \/ TargetBreaksIn
             /\ UNCHANGED clientVars
    BY <1>6 DEF HandleResume, TargetStops, TargetBreaksIn, Goto
  <1>7. CASE /\ \/ AcceptConnection \/ InstallTarget
                \/ CreateWrapper \/ ConnectionLost \/ PacketLost
                \/ ChecksumMismatch \/ ReleaseMutex \/ SignalWorker
                \/ HandleQuery \/ QStartNoAckMode \/ SendReply
                \/ ClearTarget \/ DeleteStub
                \/ BeginDestruction \/ WakeWorker \/ Join
             /\ UNCHANGED clientVars
    <2>1. UNCHANGED <<eof, closed, wdata, running>> /\ (wpc' = wpc \/ wpc' = "lock")
      BY <1>7
      DEF AcceptConnection, Construct, InstallTarget, SetTarget, CreateWrapper,
          AcquireWrapper, ConnectionLost, PacketLost, ChecksumMismatch,
          ReleaseMutex, UnlockWrapper, SignalWorker, SignalWrapper,
          HandleQuery, QStartNoAckMode, SendReply, ClearTarget, DeleteStub,
          BeginDestruction, RaiseTerminating, WakeWorker, SignalTermination,
          Join, JoinWorker
    <2>2. /\ hpc' \notin {"examine", "examine2", "verify", "wait"} /\ hpc # "wait"
          /\ hpc' \in {"delete", "terminate", "wake", "join", "done"}
               <=> hpc \in {"delete", "terminate", "wake", "join", "done"}
      BY <1>7
      DEF AcceptConnection, InstallTarget, CreateWrapper, ConnectionLost,
          LeaveLoop, PacketLost, ChecksumMismatch, ReleaseMutex, SignalWorker,
          HandleQuery, QStartNoAckMode, SendReply, ClearTarget, DeleteStub,
          BeginDestruction, WakeWorker, Join, Goto
    <2> QED
      BY <1>7, <2>1, <2>2
  <1>8. CASE ClientStep
    <2>1. UNCHANGED <<closed, hpc, hdata, wpc, wdata, running>>
      BY <1>8
      DEF ClientStep, ClientGreets, ClientStartsPacket, ClientEndsPacket,
          ClientResends, ClientBreaksIn, ClientReceives, ClientReceivesAck,
          ClientReceivesReply, ClientCloses, ClientSends
    <2>2. (eof => eof') /\ (eof' <=> cpc' = "closed") /\ (lost' => noisy')
      BY <1>8
      DEF ClientStep, ClientGreets, ClientStartsPacket, ClientEndsPacket,
          ClientResends, ClientBreaksIn, ClientReceives, ClientReceivesAck,
          ClientReceivesReply, ClientCloses, ClientSends
    <2> QED
      BY <2>1, <2>2
  <1>9. CASE UNCHANGED vars
    BY <1>9 DEF vars
  <1> QED
    BY <1>1, <1>2, <1>3, <1>4, <1>5, <1>6, <1>7, <1>8, <1>9
    DEF Next, ServerStep, HandlerProgress, Terminated

\* Every step of the client keeps the two in step.
LEMMA ClientInStep ==
  ASSUME TypeOK, EndsKnown, InStep, NoProtocolError, ClientUnderstands, ClientStep
  PROVE  InStep' /\ NoProtocolError' /\ ClientUnderstands'
PROOF
  <1>1. NoProtocolError'
    BY DEF NoProtocolError, ClientStep, ClientGreets, ClientStartsPacket,
       ClientEndsPacket, ClientResends, ClientBreaksIn, ClientReceives,
       ClientReceivesAck, ClientReceivesReply, ClientCloses, ClientSends,
       handlerVars
  <1>2. CASE IsLeaving
    <2>1. IsLeaving' /\ UNCHANGED clientError
      BY <1>2
      DEF IsLeaving, ClientStep, ClientGreets, ClientStartsPacket,
          ClientEndsPacket, ClientResends, ClientBreaksIn, ClientReceives,
          ClientReceivesAck, ClientReceivesReply, ClientCloses, ClientSends,
          handlerVars, handlerLocals
    <2> QED
      BY <1>1, <2>1 DEF InStep, ClientUnderstands
  <1>3. ASSUME NEW c \in Phases, Exchange(c) PROVE InStep' /\ ClientUnderstands'
    <2> USE <1>3
    <2>1. CASE ClientGreets
      BY <2>1, GreetsInStep, ClientSpeaks DEF InStep, ClientUnderstands, Phases
    <2>2. CASE ClientStartsPacket
      BY <2>2, StartsInStep, ClientSpeaks DEF InStep, ClientUnderstands, Phases
    <2>3. CASE ClientEndsPacket
      BY <2>3, EndsInStep, ClientSpeaks DEF InStep, ClientUnderstands, Phases
    <2>4. CASE ClientResends
      BY <2>4, ResendsInStep, ClientSpeaks
      DEF InStep, ClientUnderstands, Phases
    <2>5. CASE ClientBreaksIn
      BY <2>5, BreaksInInStep, ClientSpeaks
      DEF InStep, ClientUnderstands, Phases
    <2>6. CASE ClientReceivesAck
      BY <2>6, AckInStep DEF InStep, ClientUnderstands
    <2>7. CASE ClientReceivesReply
      BY <2>7, ReplyInStep DEF InStep, ClientUnderstands, Phases
    <2>8. CASE ClientCloses
      <3>1. UNCHANGED clientError
        BY <2>8 DEF ClientCloses
      <3> QED
        BY <2>8, <3>1, CloseInStep DEF InStep, ClientUnderstands, Phases
    <2> QED
      BY <2>1, <2>2, <2>3, <2>4, <2>5, <2>6, <2>7, <2>8
      DEF ClientStep, ClientReceives
  <1> QED
    BY <1>1, <1>2, <1>3 DEF InStep

-----------------------------------------------------------------------------
(* The exchange: theorems.                                                 *)

\* The client and the handler keep in step, through every interleaving with the
\* worker, break-in bytes and damaged packets included.
THEOREM SessionInductive == Spec => []SessionInv
PROOF
  <1>1. Init => SessionInv
    <2> SUFFICES ASSUME Init PROVE SessionInv
      OBVIOUS
    <2> USE DEF Init, BreakInInit, HandlerInit, ClientInit
    <2>1. EndsKnown
      BY DEF EndsKnown
    <2>2. NoProtocolError /\ ClientUnderstands
      BY DEF NoProtocolError, ClientUnderstands
    <2>3. Stream(<<>>, <<>>, {})
      <3>1. <<>> \in Seq(Bytes) /\ OnlyBreakIns(<<>>)
        BY DEF OnlyBreakIns
      <3> QED
        BY <3>1, StreamNothing
    <2>4. AwaitsPacket("connect")
      BY <2>3
      DEF AwaitsPacket, NothingSent, SentAckAndPacket, SentBehind, ToSet
    <2>5. ClientIn("connect")
      BY DEF ClientIn
    <2> QED
      BY <2>1, <2>2, <2>4, <2>5 DEF SessionInv, InStep, Exchange, Stage, Phases
  <1>2. IInv /\ SessionInv /\ [Next]_vars => SessionInv'
    <2> SUFFICES ASSUME IInv, SessionInv, [Next]_vars PROVE SessionInv'
      OBVIOUS
    <2> USE DEF SessionInv
    <2>1. EndsKnown'
      BY EndsKnownStep DEF IInv
    <2>2. CASE ServerStep /\ UNCHANGED clientVars
      <3>1. ClientUnderstands'
        BY <2>2 DEF clientVars, ClientUnderstands
      <3> QED
        BY <2>1, <2>2, <3>1, ServerInStep
    <2>3. CASE ClientStep
      BY <2>1, <2>3, ClientInStep DEF IInv
    <2>4. CASE UNCHANGED vars
      <3> USE <2>4 DEF vars, breakVars, socketVars, handlerVars, handlerLocals
      <3>1. UNCHANGED clientVars
        OBVIOUS
      <3>2. NoProtocolError' /\ ClientUnderstands' /\ (IsLeaving => IsLeaving')
        BY <3>1 DEF NoProtocolError, ClientUnderstands, IsLeaving, clientVars
      <3>3. ASSUME NEW c \in Phases, Exchange(c) PROVE Exchange(c)'
        BY <3>1, <3>3, ClientStays
        DEF Exchange, Stage, AwaitsPacket, AwaitsStart, AwaitsRest, HasRequest,
            HasAnswered, WaitsInVain, NothingSent, Acknowledged, Answered,
            clientVars
      <3> QED
        BY <2>1, <3>2, <3>3 DEF InStep
    <2> QED
      BY <2>2, <2>3, <2>4 DEF Next, Terminated
  <1> QED
    BY <1>1, <1>2, Inductive, PTL DEF Spec

\* The server reports a packet error only if a packet was damaged.
THEOREM NoFalseAlarm == Spec => []NoProtocolError
PROOF
  <1>1. SessionInv => NoProtocolError
    BY DEF SessionInv
  <1> QED
    BY <1>1, SessionInductive, PTL

\* Each request is acknowledged once, before its reply, in acknowledgment mode,
\* and never outside it.
THEOREM ClientNeverPuzzled == Spec => []ClientUnderstands
PROOF
  <1>1. SessionInv => ClientUnderstands
    BY DEF SessionInv
  <1> QED
    BY <1>1, SessionInductive, PTL

\* The handler works on a request only in the stage HasRequest.
LEMMA AwaitedIsHandled ==
  ASSUME InStep
  PROVE  HandlesWhatIsAwaited
PROOF
  <1> SUFFICES ASSUME hpc \in {"handle", "wait", "reply"}
               PROVE  /\ cpc \in {"await", "closed"}
                      /\ request = creq
                      /\ Reply \notin ToSet(tx)
    BY DEF HandlesWhatIsAwaited
  <1>1. PICK c \in Phases : Exchange(c)
    BY DEF InStep, IsLeaving
  <1>2. HasRequest(c)
    BY <1>1
    DEF Exchange, Stage, AwaitsPacket, AwaitsStart, AwaitsRest, HasAnswered,
        WaitsInVain
  <1>3. tx \in {<<>>, <<kACK>>}
    BY <1>2 DEF HasRequest, Acknowledged
  <1>4. Reply \notin ToSet(tx)
    BY <1>3 DEF ToSet, Reply, kACK
  <1> QED
    BY <1>1, <1>2, <1>4 DEF HasRequest, Exchange, ClientIn

\* The request the handler works on is the one the client waits for.
THEOREM HandlesAwaited == Spec => []HandlesWhatIsAwaited
PROOF
  <1>1. SessionInv => HandlesWhatIsAwaited
    BY AwaitedIsHandled DEF SessionInv
  <1> QED
    BY <1>1, SessionInductive, PTL

-----------------------------------------------------------------------------
(* The refinement of DebugSession.                                         *)

\* Until the session is over, the exchange is in the client's phase.
LEMMA InPhase ==
  ASSUME TypeOK, EndsKnown, InStep, ~Over
  PROVE  cpc \in Phases /\ Exchange(cpc)
PROOF
  <1>1. ~IsLeaving
    BY DEF Over, IsLeaving, EndsKnown
  <1>2. PICK c \in Phases : Exchange(c)
    BY <1>1 DEF InStep
  <1>3. c = cpc
    BY <1>2 DEF Exchange, ClientIn, Over
  <1> QED
    BY <1>2, <1>3

\* A session that is over stays over.
LEMMA OverForever ==
  ASSUME Over, [Next]_vars
  PROVE  Over'
PROOF
  <1> USE DEF Over, breakVars, socketVars, handlerVars, clientVars
  <1>1. CASE ServerStep /\ UNCHANGED clientVars
    <2>1. UNCHANGED cpc
      BY <1>1
    <2>2. closed => closed'
      BY <1>1
      DEF ServerStep, WorkerStep, WorkerInternal, WorkerLock, WorkerCheck,
          WorkerPeek, WorkerTakesBreakIn, WorkerSuspends, WorkerWakes,
          WorkerBreaksIn, WorkerCalls, HandlerProgress, RefuseConnection,
          AcceptConnection, Construct, InstallTarget, SetTarget, CreateWrapper,
          AcquireWrapper, PeekFirst, PeekSecond, PeekByte, ConnectionLost,
          ExamineBreakIn, ExamineAck, ExamineStart, PeekPacket, PacketLost,
          ChecksumMismatch, PacketReceived, ReleaseMutex, UnlockWrapper,
          SignalWorker, SignalWrapper, HandleQuery, QStartNoAckMode,
          HandleResume, TargetStops, TargetBreaksIn, SendReply, ClearTarget,
          CloseSocket, DeleteStub, BeginDestruction, RaiseTerminating,
          WakeWorker, SignalTermination, Join, JoinWorker
    <2> QED
      BY <2>1, <2>2
  <1>2. CASE ClientStep
    BY <1>2
    DEF ClientStep, ClientGreets, ClientStartsPacket, ClientEndsPacket,
        ClientResends, ClientBreaksIn, ClientReceives, ClientReceivesAck,
        ClientReceivesReply, ClientCloses, ClientSends
  <1>3. CASE UNCHANGED vars
    BY <1>3 DEF vars
  <1> QED
    BY <1>1, <1>2, <1>3 DEF Next, Terminated

\* The worker and the handler pass an interrupt on and lose none.
LEMMA WorkerPassesOn ==
  ASSUME IInv, EndsKnown, InStep, ~Over, UNCHANGED clientVars,
         WorkerStep \/ WorkerBreaksIn
  PROVE  Underway' <=> Underway
PROOF
  <1> USE DEF IInv
  <1>1. UNCHANGED clientVars /\ rx \in Seq(Bytes)
    BY DEF TypeOK, BreakInTypeOK
  <1>2. CASE WorkerTakesBreakIn /\ UNCHANGED handlerVars
    <2>1. wdata = kBreakInByte /\ rx # <<>> /\ Head(rx) = kBreakInByte
      BY <1>2
      DEF WorkerTakesBreakIn, SeesBreakIn, EndsKnown, Over,
          PeekedByteStillThere
    <2>2. kBreakInByte \in ToSet(rx)
      BY <1>1, <2>1, BytesOfTail
    <2>3. target = Stub
      <3>1. Exchange(cpc)
        BY InPhase
      <3>2. hpc \notin {"create", "setTarget", "close", "delete", "terminate",
                        "wake", "join", "done"}
        BY <2>2, <3>1
        DEF Exchange, Stage, AwaitsPacket, AwaitsStart, AwaitsRest, HasRequest,
            HasAnswered, WaitsInVain
      <3> QED
        BY <3>2 DEF StubLife
    <2>4. wpc' = "call"
      BY <1>2, <2>3 DEF WorkerTakesBreakIn, Null, Stub
    <2> QED
      BY <2>2, <2>4 DEF Underway
  <1>3. CASE (WorkerLock \/ WorkerCheck \/ WorkerPeek \/ WorkerSuspends \/ WorkerWakes) /\ UNCHANGED handlerVars
    BY <1>3
    DEF WorkerLock, WorkerCheck, WorkerPeek, WorkerSuspends, WorkerWakes,
        socketVars, Underway, handlerVars, targetVars
  <1>4. CASE WorkerBreaksIn
    BY <1>4 DEF WorkerBreaksIn, WorkerCalls, OnBreakInRequest, Underway
  <1> QED
    BY <1>2, <1>3, <1>4 DEF WorkerStep, WorkerInternal

LEMMA HandlerPassesOn ==
  ASSUME IInv, EndsKnown, InStep, ~Over,
         HandlerProgress \/ CreateWrapper \/ TargetStops
  PROVE  Underway' <=> Underway
PROOF
  <1> USE DEF IInv
  <1>1. rx \in Seq(Bytes)
    BY DEF TypeOK, BreakInTypeOK
  <1>2. CASE ExamineBreakIn
    <2>1. rx # <<>> /\ Head(rx) = kBreakInByte
      BY <1>2
      DEF ExamineBreakIn, Goto, PeekedByteStillThere, kBreakInByte, NoData
    <2>2. kBreakInByte \in ToSet(rx)
      BY <1>1, <2>1, BytesOfTail
    <2> QED
      BY <1>2, <2>2 DEF ExamineBreakIn, OnBreakInRequest, Underway
  <1>3. CASE ExamineAck \/ ExamineStart \/ PacketReceived
    <2>1. /\ hpc \in {"examine", "examine2", "verify"} /\ hdata # NoData
          /\ DiscardPeeked(hdata) /\ UNCHANGED <<wpc, breakPending>>
      BY <1>3
      DEF ExamineAck, ExamineStart, PacketReceived, Goto, Requests, NoData,
          workerVars, targetVars
    <2>2. rx # <<>> /\ Head(rx) = hdata /\ rx' = Tail(rx)
      BY <2>1 DEF PeekedByteStillThere, DiscardPeeked
    <2>3. hdata # kBreakInByte
      <3>1. hpc = "examine2" => Head(rx) = kPacketStart
        <4>1. Exchange(cpc)
          BY InPhase
        <4> QED
          BY <2>2, <4>1
          DEF Exchange, Stage, AwaitsPacket, AwaitsStart, AwaitsRest,
              HasRequest, HasAnswered, WaitsInVain
      <3> QED
        BY <1>3, <2>2, <3>1
        DEF ExamineAck, ExamineStart, PacketReceived, Requests, kBreakInByte,
            kPacketStart
    <2> QED
      BY <1>1, <2>1, <2>2, <2>3, OthersTaken DEF Underway
  <1>4. CASE \/ RefuseConnection \/ InstallTarget
             \/ CreateWrapper \/ PeekFirst \/ PeekSecond \/ ConnectionLost
             \/ PeekPacket \/ PacketLost \/ ChecksumMismatch
             \/ ReleaseMutex \/ SignalWorker \/ HandleQuery
             \/ QStartNoAckMode \/ HandleResume \/ TargetStops \/ SendReply
             \/ ClearTarget \/ CloseSocket \/ DeleteStub
             \/ BeginDestruction \/ WakeWorker \/ Join
    <2>1. UNCHANGED <<rx, wpc, breakPending>>
      BY <1>4
      DEF RefuseConnection, InstallTarget, SetTarget, CreateWrapper,
          AcquireWrapper, PeekFirst, PeekSecond, PeekByte, ConnectionLost,
          PeekPacket, PacketLost, ChecksumMismatch, ReleaseMutex,
          UnlockWrapper, SignalWorker, SignalWrapper, HandleQuery,
          QStartNoAckMode, HandleResume, TargetStops, SendReply, ClearTarget,
          CloseSocket, DeleteStub, BeginDestruction, RaiseTerminating,
          WakeWorker, SignalTermination, Join, JoinWorker, breakVars,
          socketVars, workerVars, targetVars
    <2> QED
      BY <2>1 DEF Underway
  <1>5. CASE AcceptConnection
    BY <1>5 DEF AcceptConnection, Construct, Underway, socketVars
  <1> QED
    BY <1>2, <1>3, <1>4, <1>5 DEF HandlerProgress

\* The client adds no interrupt but by breaking in.
LEMMA ClientPassesOn ==
  ASSUME TypeOK, RequestKnown, ~Over', ClientStep, ~ClientBreaksIn
  PROVE  Underway' <=> Underway
PROOF
  <1>1. rx \in Seq(Bytes) /\ {kACK, kPacketStart, "corrupt",
                              "cut"} \subseteq Bytes \ {kBreakInByte}
    BY DEF TypeOK, BreakInTypeOK, Bytes, Tails, kACK, kPacketStart,
       kBreakInByte
  <1>2. UNCHANGED <<wpc, breakPending>>
    BY DEF ClientStep, ClientGreets, ClientStartsPacket, ClientEndsPacket,
       ClientResends, ClientReceives, ClientReceivesAck, ClientReceivesReply,
       ClientCloses, ClientSends, ClientBreaksIn, handlerVars, targetVars,
       workerVars, breakVars
  <1>3. ASSUME NEW b \in Bytes \ {kBreakInByte}
        PROVE  /\ kBreakInByte \in ToSet(Append(rx,
                                                b)) <=> kBreakInByte \in ToSet(rx)
               /\ rx \o <<b>> = Append(rx, b)
    BY <1>1, BytesOfAppend, SendsOne
  <1>4. \/ UNCHANGED rx
        \/ \E b \in Bytes \ {kBreakInByte} : rx' = Append(rx, b)
        \/ \E a, b \in Bytes \ {kBreakInByte} : rx' = Append(Append(rx, a), b)
    <2> USE DEF ClientSends
    <2>1. CASE ClientGreets
      BY <1>1, <1>3, <2>1 DEF ClientGreets
    <2>2. CASE ClientStartsPacket
      BY <1>1, <1>3, <2>2 DEF ClientStartsPacket
    <2>3. CASE ClientEndsPacket
      <3>1. creq \in Bytes \ {kBreakInByte}
        BY <2>3
        DEF ClientEndsPacket, RequestKnown, Bytes, Tails, Requests,
            kBreakInByte
      <3> QED
        BY <1>1, <1>3, <2>3, <3>1 DEF ClientEndsPacket
    <2>4. CASE ClientResends
      <3>1. creq \in Bytes \ {kBreakInByte}
        BY <2>4
        DEF ClientResends, RequestKnown, Bytes, Tails, Requests, kBreakInByte
      <3> QED
        BY <1>1, <2>4, <3>1, SendsTwo DEF ClientResends
    <2>5. CASE ClientReceivesAck
      BY <2>5 DEF ClientReceivesAck, breakVars, socketVars
    <2>6. CASE ClientReceivesReply
      BY <1>1, <2>6 DEF ClientReceivesReply
    <2>7. CASE ClientCloses
      BY <2>7 DEF ClientCloses, Over
    <2> QED
      BY <2>1, <2>2, <2>3, <2>4, <2>5, <2>6, <2>7
      DEF ClientStep, ClientReceives
  <1>5. ASSUME NEW a \in Bytes \ {kBreakInByte}, NEW b \in Bytes \ {kBreakInByte}
        PROVE  kBreakInByte \in ToSet(Append(Append(rx, a),
                                             b)) <=> kBreakInByte \in ToSet(rx)
    <2> DEFINE s == Append(rx, a)
    <2>1. s \in Seq(Bytes) /\ (kBreakInByte \in ToSet(s) <=> kBreakInByte \in ToSet(rx))
      BY <1>1, <1>3
    <2> HIDE DEF s
    <2>2. kBreakInByte \in ToSet(Append(s, b)) <=> kBreakInByte \in ToSet(s)
      BY <2>1, BytesOfAppend
    <2> QED
      BY <2>1, <2>2 DEF s
  <1>6. kBreakInByte \in ToSet(rx') <=> kBreakInByte \in ToSet(rx)
    BY <1>3, <1>4, <1>5
  <1> QED
    BY <1>2, <1>6 DEF Underway

\* Every step of the session is a step of DebugSession, or none.
LEMMA AbstractStep ==
  ASSUME IInv, SessionInv, SessionInv', [Next]_vars
  PROVE  [DS!Next]_(DS!dsVars)
PROOF
  <1> USE DEF IInv, SessionInv, DS!dsVars
  <1>1. CASE Over
    BY <1>1, OverForever DEF Phase, Wanted
  <1>2. CASE ~Over /\ Over'
    <2>1. Phase # "over" /\ Phase' = "over" /\ Wanted' = FALSE
      BY <1>2 DEF Phase, Wanted
    <2> QED
      BY <2>1 DEF DS!Next, DS!End
  <1>3. CASE ~Over /\ ~Over'
    <2> USE <1>3
    <2>1. Exchange(cpc) /\ cpc \in Phases
      BY InPhase
    <2>2. CASE (WorkerStep \/ WorkerBreaksIn) /\ UNCHANGED clientVars
      <3>1. UNCHANGED <<hpc, tx, running>>
        BY <2>2, WorkerReads
        DEF WorkerStep, handlerVars, targetVars, WorkerBreaksIn,
            OnBreakInRequest
      <3> QED
        BY <2>2, <3>1, WorkerPassesOn DEF Phase, Wanted, clientVars
    <2>3. CASE (HandleQuery \/ QStartNoAckMode \/ HandleResume \/ TargetStops \/ TargetBreaksIn) /\ UNCHANGED clientVars
      <3>1. /\ hpc \in {"handle", "wait"} /\ UNCHANGED tx
            /\ \/ hpc = "handle" /\ hpc' \in {"reply", "wait"}
               \/ hpc = "wait" /\ hpc' = "reply"
        BY <2>3
        DEF HandleQuery, QStartNoAckMode, HandleResume, TargetStops,
            TargetBreaksIn, Goto
      <3>2. HasRequest(cpc)
        BY <2>1, <3>1
        DEF Exchange, Stage, AwaitsPacket, AwaitsStart, AwaitsRest,
            HasAnswered, WaitsInVain
      <3>3. cpc = "await" /\ ~noisy /\ Reply \notin ToSet(tx)
        BY <3>1, <3>2, AwaitedIsHandled DEF HasRequest, HandlesWhatIsAwaited
      <3>4. (running <=> hpc = "wait") /\ (running' <=> hpc' = "wait")
        BY DEF EndsKnown
      <3>5. /\ Phase = IF hpc = "wait" THEN "running" ELSE "asked"
            /\ Phase' = IF hpc' = "wait" THEN "running" ELSE "answered"
        BY <2>3, <3>1, <3>3, <3>4 DEF Phase, clientVars
      <3>6. CASE ~TargetBreaksIn
        <4>1. Wanted' = Wanted
          BY <2>3, <3>6, HandlerPassesOn DEF HandlerProgress, Wanted
        <4> QED
          BY <3>1, <3>5, <4>1
          DEF DS!Next, DS!Answer, DS!Resume, DS!Stop, DS!Advance
      <3>7. CASE TargetBreaksIn
        <4>1. Wanted = TRUE /\ Wanted' \in {TRUE, FALSE}
          BY <3>7 DEF TargetBreaksIn, Wanted, Underway
        <4>2. Phase = "running" /\ Phase' = "answered"
          BY <3>5, <3>7 DEF TargetBreaksIn, Goto
        <4> QED
          BY <4>1, <4>2 DEF DS!Next, DS!Stop, DS!Advance
      <3> QED
        BY <3>6, <3>7
    <2>4. CASE SendReply /\ UNCHANGED clientVars
      <3>1. hpc = "reply" /\ hpc' = "acquire" /\ tx' = Append(tx, Reply)
        BY <2>4 DEF SendReply, Goto
      <3>2. ~running /\ ~running'
        BY <3>1 DEF EndsKnown
      <3>3. Reply \in ToSet(tx')
        <4>1. tx \in Seq(Sent) /\ Reply \in Sent
          BY DEF TypeOK, HandlerTypeOK, Sent
        <4>2. Len(tx') \in DOMAIN tx' /\ tx'[Len(tx')] = Reply
          BY <3>1, <4>1
        <4> QED
          BY <4>2 DEF ToSet
      <3> QED
        BY <2>4, <3>1, <3>2, <3>3, HandlerPassesOn
        DEF HandlerProgress, Phase, Wanted, clientVars
    <2>5. CASE PacketReceived /\ UNCHANGED clientVars
      <3>1. hpc # "reply" /\ hpc' # "reply" /\ UNCHANGED running
        BY <2>5 DEF PacketReceived, Goto, targetVars
      <3>2. Reply \in ToSet(tx') <=> Reply \in ToSet(tx)
        <4>1. tx = <<>>
          BY <2>1, <2>5
          DEF PacketReceived, Goto, Exchange, Stage, AwaitsPacket, AwaitsStart,
              AwaitsRest, HasRequest, HasAnswered, WaitsInVain, NothingSent
        <4>2. tx' \in {<<>>, <<kACK>>}
          <5>1. Append(<<>>, kACK) = <<kACK>>
            BY DEF kACK
          <5> QED
            BY <2>5, <4>1, <5>1 DEF PacketReceived
        <4> QED
          BY <4>1, <4>2 DEF ToSet, kACK, Reply
      <3> QED
        BY <2>5, <3>1, <3>2, HandlerPassesOn
        DEF HandlerProgress, Phase, Wanted, clientVars
    <2>6. CASE /\ \/ AcceptConnection \/ InstallTarget \/ CreateWrapper
                  \/ PeekFirst \/ PeekSecond \/ ConnectionLost
                  \/ ExamineBreakIn \/ ExamineAck \/ ExamineStart
                  \/ PeekPacket \/ PacketLost \/ ChecksumMismatch
                  \/ ReleaseMutex \/ SignalWorker
                  \/ ClearTarget \/ DeleteStub \/ BeginDestruction \/ WakeWorker \/ Join
                  \/ RefuseConnection \/ CloseSocket
               /\ UNCHANGED clientVars
      <3>1. hpc # "reply" /\ hpc' # "reply" /\ UNCHANGED <<tx, running>>
        BY <2>6
        DEF AcceptConnection, InstallTarget, CreateWrapper, PeekFirst,
            PeekSecond, PeekByte, ConnectionLost, LeaveLoop, ExamineBreakIn,
            OnBreakInRequest, ExamineAck, StartOver, ExamineStart,
            TakePacketStart, PeekPacket, PacketLost, ChecksumMismatch,
            ReleaseMutex, SignalWorker, ClearTarget, DeleteStub,
            BeginDestruction, WakeWorker, Join, RefuseConnection, CloseSocket,
            Goto, targetVars
      <3> QED
        BY <2>6, <3>1, HandlerPassesOn
        DEF HandlerProgress, Phase, Wanted, clientVars
    <2>7. CASE ClientBreaksIn
      <3>1. cpc = "await" /\ ~noisy /\ Phase' = Phase /\ Phase \in {"asked",
                                                                    "running", "answered"}
        <4>1. cpc = "await" /\ (cAck => gotAck) /\ UNCHANGED <<cpc, noisy, hpc, tx,
                                                               running>>
          BY <2>7 DEF ClientBreaksIn, ClientSends, handlerVars, targetVars
        <4>2. ~noisy
          BY <2>1, <4>1
          DEF Exchange, ClientIn, Stage, AwaitsPacket, AwaitsStart, AwaitsRest,
              HasRequest, HasAnswered, WaitsInVain, NothingSent
        <4> QED
          BY <4>1, <4>2 DEF Phase
      <3>2. Wanted' = TRUE
        <4>1. rx \in Seq(Bytes) /\ kBreakInByte \in Bytes
          BY DEF TypeOK, BreakInTypeOK, Bytes
        <4>2. rx' = Append(rx, kBreakInByte)
          BY <2>7, <4>1, SendsOne DEF ClientBreaksIn, ClientSends
        <4> QED
          BY <4>1, <4>2, BytesOfAppend DEF Wanted, Underway
      <3> QED
        BY <3>1, <3>2 DEF DS!Next, DS!Interrupt
    <2>8. CASE ClientStep /\ ~ClientBreaksIn
      <3>1. Wanted' = Wanted
        BY <2>8, ClientPassesOn DEF Wanted
      <3>2. CASE ClientGreets \/ ClientStartsPacket
        <4>1. cpc # "await" /\ cpc' # "await"
          BY <3>2 DEF ClientGreets, ClientStartsPacket
        <4> QED
          BY <3>1, <4>1 DEF Phase
      <3>3. CASE ClientResends
        <4>1. noisy /\ noisy'
          BY <3>3 DEF ClientResends, EndsKnown
        <4> QED
          BY <3>1, <4>1 DEF Phase
      <3>4. CASE ClientEndsPacket
        <4>1. Phase = "idle"
          BY <3>4 DEF ClientEndsPacket, Phase
        <4>2. CASE noisy'
          BY <3>1, <4>1, <4>2 DEF Phase
        <4>3. CASE ~noisy'
          <5>1. cpc' = "await" /\ UNCHANGED <<hpc, tx, running>>
            BY <3>4 DEF ClientEndsPacket, ClientSends, handlerVars, targetVars
          <5>2. hpc \notin {"reply", "wait"} /\ tx = <<>>
            BY <2>1, <3>4
            DEF ClientEndsPacket, Exchange, Stage, AwaitsPacket, AwaitsStart,
                AwaitsRest, HasRequest, HasAnswered, WaitsInVain, NothingSent
          <5>3. Phase' = "asked"
            BY <4>3, <5>1, <5>2 DEF Phase, EndsKnown, ToSet
          <5> QED
            BY <3>1, <4>1, <5>3 DEF DS!Next, DS!Ask, DS!Advance
        <4> QED
          BY <4>2, <4>3
      <3>5. CASE ClientReceivesAck
        <4>1. /\ UNCHANGED <<cpc, noisy, hpc, running>>
              /\ tx # <<>> /\ Head(tx) = kACK /\ tx' = Tail(tx)
          BY <3>5 DEF ClientReceivesAck, targetVars
        <4>2. tx \in {<<kACK>>, <<kACK, Reply>>}
          BY <2>1, <4>1
          DEF Exchange, Stage, AwaitsPacket, AwaitsStart, AwaitsRest,
              HasRequest, HasAnswered, WaitsInVain, NothingSent, Acknowledged,
              Answered, kACK, Reply
        <4>3. Reply \in ToSet(tx') <=> Reply \in ToSet(tx)
          <5>1. Tail(<<kACK>>) = <<>> /\ Tail(<<kACK, Reply>>) = <<Reply>>
            OBVIOUS
          <5> QED
            BY <4>1, <4>2, <5>1 DEF ToSet, kACK, Reply
        <4> QED
          BY <3>1, <4>1, <4>3 DEF Phase
      <3>6. CASE ClientReceivesReply
        <4>1. tx # <<>> /\ Head(tx) = Reply /\ cpc' = "idle"
          BY <3>6 DEF ClientReceivesReply
        <4>2. HasAnswered(cpc)
          BY <2>1, <4>1
          DEF Exchange, Stage, AwaitsPacket, AwaitsStart, AwaitsRest,
              HasRequest, WaitsInVain, NothingSent, Acknowledged, kACK, Reply
        <4>3. Reply \in ToSet(tx)
          BY <4>2 DEF HasAnswered, Answered, ToSet
        <4>4. Phase = "answered"
          BY <4>2, <4>3 DEF HasAnswered, Phase, EndsKnown
        <4>5. Phase' = "idle"
          BY <4>1 DEF Phase
        <4> QED
          BY <3>1, <4>4, <4>5 DEF DS!Next, DS!Receive, DS!Advance
      <3>7. CASE ClientCloses
        BY <3>7 DEF ClientCloses, Over
      <3> QED
        BY <2>8, <3>2, <3>3, <3>4, <3>5, <3>6, <3>7
        DEF ClientStep, ClientReceives
    <2>9. CASE UNCHANGED vars
      BY <2>9
      DEF vars, breakVars, socketVars, workerVars, handlerVars, targetVars,
          clientVars, Phase, Wanted, Underway
    <2> QED
      BY <2>2, <2>3, <2>4, <2>5, <2>6, <2>7, <2>8, <2>9
      DEF Next, ServerStep, HandlerProgress, Terminated
  <1> QED
    BY <1>1, <1>2, <1>3

\* The session implements DebugSession: each request is answered exactly once,
\* and an interrupt on its way is wanted until a stop uses it up.
THEOREM ImplementsDebugSession == Spec => DS!Spec
PROOF
  <1>1. Init => DS!Init
    BY DEF Init, BreakInInit, HandlerInit, ClientInit, DS!Init, Phase, Wanted,
       Underway, Over, ToSet, kBreakInByte
  <1>2. IInv /\ SessionInv /\ SessionInv' /\ [Next]_vars => [DS!Next]_(DS!dsVars)
    BY AbstractStep
  <1> QED
    BY <1>1, <1>2, Inductive, SessionInductive, PTL DEF Spec, DS!Spec
=============================================================================
