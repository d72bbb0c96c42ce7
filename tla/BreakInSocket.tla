--------------------------- MODULE BreakInSocket ----------------------------
(***************************************************************************)
(* BreakInSocket.h: a buffered socket shared by the connection handler,    *)
(* which owns it while a SocketWrapper exists, and a worker thread that    *)
(* watches it for the break-in byte the rest of the time.  The module      *)
(* holds the members of the class, the worker thread's steps and the       *)
(* operations the handler calls; ConnectionHandler puts them in sequence.  *)
(*                                                                         *)
(* A blocking call is a guard.  A peek and the use made of the peeked byte *)
(* are separate steps: only m_RecvMutex keeps the byte at the head of the  *)
(* buffer in between.                                                      *)
(***************************************************************************)
EXTENDS Wire

VARIABLES
  rx,           \* bytes received by TCPSocketEx and not discarded yet
  eof,          \* the peer has closed its end: nothing more will arrive
  closed,       \* TCPSocketEx::Close() was called
  mutex,        \* owner of m_RecvMutex
  semaphore,    \* count of m_Semaphore
  terminating,  \* m_bTerminating
  target,       \* m_pTarget
  wpc,          \* where the worker thread is
  wdata,        \* the byte its last peek returned
  wtarget       \* its local pTarget

socketVars == <<rx, eof, closed>>
workerVars == <<wpc, wdata, wtarget>>
breakVars  == <<socketVars, mutex, semaphore, terminating, target, workerVars>>

Null == "null"
Stub == "stub"
Free == "free"
Handler == "handler"
Worker  == "worker"

WorkerPC == {"unborn", "lock", "check", "peek", "examine", "call",
             "suspended", "done"}

\* The program points at which the worker may touch the socket.
WorkerInSocket == {"check", "peek", "examine"}

BreakInTypeOK ==
  /\ rx \in Seq(Bytes)
  /\ eof \in BOOLEAN
  /\ closed \in BOOLEAN
  /\ mutex \in {Free, Handler, Worker}
  /\ semaphore \in Nat
  /\ terminating \in BOOLEAN
  /\ target \in {Null, Stub}
  /\ wpc \in WorkerPC
  /\ wdata \in Bytes \cup {NoData}
  /\ wtarget \in {Null, Stub}

BreakInInit ==
  /\ rx = <<>>
  /\ eof = FALSE
  /\ closed = FALSE
  /\ mutex = Free
  /\ semaphore = 0
  /\ terminating = FALSE
  /\ target = Null
  /\ wpc = "unborn"
  /\ wdata = NoData
  /\ wtarget = Null

-----------------------------------------------------------------------------
(***************************************************************************)
(* TCPSocketEx::PeekAbs(1): blocks until a byte is buffered or the         *)
(* connection is over.  After Close() a byte that was still on its way     *)
(* through the socket may be gone.                                         *)
(***************************************************************************)
PeekReturns(byte) ==
  \/ rx # <<>> /\ byte = Head(rx)
  \/ rx = <<>> /\ (eof \/ closed) /\ byte = NoData
  \/ closed /\ byte = NoData

\* TCPSocketEx::Discard(p, 1), which does nothing when there is no byte.
DiscardPeeked(byte) ==
  rx' = IF byte = NoData THEN rx ELSE Tail(rx)

-----------------------------------------------------------------------------
(* The worker thread: WorkerThreadBody.                                    *)

WorkerLock ==
  /\ wpc = "lock"
  /\ mutex = Free
  /\ mutex' = Worker
  /\ wpc' = "check"
  /\ UNCHANGED <<socketVars, semaphore, terminating, target, wdata, wtarget>>

\* while (!m_bTerminating); leaving the function unlocks the mutex.
WorkerCheck ==
  /\ wpc = "check"
  /\ \/ /\ terminating
        /\ mutex' = Free
        /\ wpc' = "done"
     \/ /\ ~terminating
        /\ wpc' = "peek"
        /\ UNCHANGED mutex
  /\ UNCHANGED <<socketVars, semaphore, terminating, target, wdata, wtarget>>

\* Mutant: the mutex is given up between the peek and the use of the byte.
WorkerPeekUnlocked ==
  /\ wpc = "peek"
  /\ \E byte \in Bytes \cup {NoData} : PeekReturns(byte) /\ wdata' = byte
  /\ wpc' = "examine"
  /\ mutex' = Free
  /\ UNCHANGED <<socketVars, semaphore, terminating, target, wtarget>>

WorkerPeek ==
  /\ wpc = "peek"
  /\ \E byte \in Bytes \cup {NoData} : PeekReturns(byte) /\ wdata' = byte
  /\ wpc' = "examine"
  /\ UNCHANGED <<socketVars, mutex, semaphore, terminating, target, wtarget>>

\* Mutant: the end of the connection does not count as a break-in.
SeesBreakInByteOnly == wdata = kBreakInByte

\* A break-in byte, or no byte at all: both are taken for a break-in request.
SeesBreakIn == wdata \in {kBreakInByte, NoData}

\* Discard the byte, copy m_pTarget, and unlock only if there is one to call.
WorkerTakesBreakIn ==
  /\ wpc = "examine"
  /\ SeesBreakIn
  /\ DiscardPeeked(wdata)
  /\ wtarget' = target
  /\ \/ target # Null /\ mutex' = Free /\ wpc' = "call"
     \/ target = Null /\ UNCHANGED mutex /\ wpc' = "check"
  /\ UNCHANGED <<eof, closed, semaphore, terminating, target, wdata>>

\* Anything else is the start of a packet: leave it alone and suspend.
WorkerSuspends ==
  /\ wpc = "examine"
  /\ ~SeesBreakIn
  /\ mutex' = Free
  /\ wpc' = "suspended"
  /\ UNCHANGED <<socketVars, semaphore, terminating, target, wdata, wtarget>>

\* pTarget->OnBreakInRequest(): its effect is conjoined by the composition.
WorkerCalls ==
  /\ wpc = "call"
  /\ wpc' = "lock"
  /\ UNCHANGED <<socketVars, mutex, semaphore, terminating, target, wdata, wtarget>>

\* Mutant: Wait() is not waited for.
WorkerWakesUnsignalled ==
  /\ wpc = "suspended"
  /\ semaphore' = semaphore - 1
  /\ wpc' = "lock"
  /\ UNCHANGED <<socketVars, mutex, terminating, target, wdata, wtarget>>

\* m_Semaphore.Wait() returns.
WorkerWakes ==
  /\ wpc = "suspended"
  /\ semaphore > 0
  /\ semaphore' = semaphore - 1
  /\ wpc' = "lock"
  /\ UNCHANGED <<socketVars, mutex, terminating, target, wdata, wtarget>>

\* The worker's steps other than the call into the break-in target.
WorkerInternal ==
  \/ WorkerLock
  \/ WorkerCheck
  \/ WorkerPeek
  \/ WorkerTakesBreakIn
  \/ WorkerSuspends
  \/ WorkerWakes

-----------------------------------------------------------------------------
(* The operations of the class, called by the connection handler.          *)

\* The constructor: the members are set, then the worker is started.
Construct ==
  /\ wpc = "unborn"
  /\ wpc' = "lock"
  /\ UNCHANGED <<socketVars, mutex, semaphore, terminating, target, wdata, wtarget>>

SetTarget(t) ==
  /\ target' = t
  /\ UNCHANGED <<socketVars, mutex, semaphore, terminating, workerVars>>

\* Mutant: the wrapper does not wait for the worker to leave the socket.
AcquireWrapperUnguarded ==
  /\ mutex' = Handler
  /\ UNCHANGED <<socketVars, semaphore, terminating, target, workerVars>>

\* SocketWrapper::SocketWrapper
AcquireWrapper ==
  /\ mutex = Free
  /\ mutex' = Handler
  /\ UNCHANGED <<socketVars, semaphore, terminating, target, workerVars>>

\* SocketWrapper::~SocketWrapper, in two steps: Unlock, then Signal.
UnlockWrapper ==
  /\ mutex' = Free
  /\ UNCHANGED <<socketVars, semaphore, terminating, target, workerVars>>

\* Mutant: the destructor only unlocks.
SignalWrapperForgotten == UNCHANGED breakVars

SignalWrapper ==
  /\ semaphore' = semaphore + 1
  /\ UNCHANGED <<socketVars, mutex, terminating, target, workerVars>>

\* BreakInSocket::~BreakInSocket: raise the flag, signal, join.
RaiseTerminating ==
  /\ terminating' = TRUE
  /\ UNCHANGED <<socketVars, mutex, semaphore, target, workerVars>>

SignalTermination ==
  /\ semaphore' = semaphore + 1
  /\ UNCHANGED <<socketVars, mutex, terminating, target, workerVars>>

\* Mutant: the members are destroyed under the running worker.
JoinWorkerNotAwaited == UNCHANGED breakVars

JoinWorker ==
  /\ wpc = "done"
  /\ UNCHANGED breakVars
=============================================================================
