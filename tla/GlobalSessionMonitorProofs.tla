---------------------- MODULE GlobalSessionMonitorProofs -----------------------
(***************************************************************************)
(* Theorems about GlobalSessionMonitor, for any connections and any number *)
(* of console events.                                                      *)
(*                                                                         *)
(* The inductive invariant ties m_Mutex to the program points inside it,   *)
(* and says what each of these points knows of pSession.  That CtrlHandler *)
(* does not fail on a null s_pMainMonitor holds only if events come while  *)
(* there is a monitor, and is proved under that assumption.  A second      *)
(* invariant follows a console event from the session that was active when *)
(* it came to the end of the process.                                      *)
(***************************************************************************)
EXTENDS GlobalSessionMonitor, TLAPS

InMutex == {"check", "set", "clear"}
HandlerInMutex == {"check", "call", "calling", "unlock"}

\* The mutex belongs to the thread that is at a point inside it.
MutexOwned ==
  /\ \A s \in Sessions : sess[s] \in InMutex => mutex = s
  /\ \A h \in Handlers : hpc[h] \in HandlerInMutex => mutex = h

\* What a thread has seen of pSession under the mutex is still so.
SeenStillTrue ==
  /\ \A s \in Sessions : sess[s] = "set" => pSession = NoSession
  /\ \A h \in Handlers : hpc[h] \in {"call", "calling"} => pSession # NoSession

IInv == TypeOK /\ MutexOwned /\ ActiveIsRegistered /\ SeenStillTrue

\* Handlers run and return while there is a monitor, and none has failed.
MonitorThere ==
  /\ \A h \in Handlers : hpc[h] # "crashed"
  /\ InFlight # {} => mainMonitor

-----------------------------------------------------------------------------

LEMMA InitInv == Init => IInv
<1> SUFFICES ASSUME Init PROVE IInv
    OBVIOUS
<1> USE MonitorAssumption DEF Init
<1>1. TypeOK
      BY DEF TypeOK, SessionPoints, HandlerPoints, Kinds
<1>2. MutexOwned
      BY DEF MutexOwned, InMutex, HandlerInMutex
<1>3. ActiveIsRegistered
      BY DEF ActiveIsRegistered, Registered
<1>4. SeenStillTrue
      BY DEF SeenStillTrue
<1> QED BY <1>1, <1>2, <1>3, <1>4 DEF IInv

LEMMA TypeStep == TypeOK /\ [Next]_vars => TypeOK'
<1> SUFFICES ASSUME TypeOK, [Next]_vars PROVE TypeOK'
    OBVIOUS
<1> USE MonitorAssumption
        DEF TypeOK, SessionPoints, HandlerPoints, Kinds, monitorVars, handlerVars
<1>1. CASE MainStep
      BY <1>1 DEF MainStep, InstallHandler, PublishMonitor, DestroyMonitor
<1>2. ASSUME NEW s \in Sessions,
             StartSession(s) \/ StopServing(s) \/ AcquiresAsSession(s)
      PROVE  TypeOK'
      BY <1>2 DEF StartSession, StopServing, AcquiresAsSession, RegisterLock,
                  UnregisterLock, SessionStep
<1>3. ASSUME NEW s \in Sessions, SessionGoesOn(s) PROVE TypeOK'
      BY <1>3 DEF SessionGoesOn, RegisterCheck, RegisterSet, UnregisterClear,
                  DeleteTarget, SessionStep
<1>4. ASSUME NEW h \in Handlers, RaiseEvent(h) \/ HandlerLock(h) PROVE TypeOK'
      BY <1>4 DEF RaiseEvent, HandlerLock, HandlerStep
<1>5. ASSUME NEW h \in Handlers, HandlerCheck(h) PROVE TypeOK'
      BY <1>5 DEF HandlerCheck, HandlerStep
<1>6. ASSUME NEW h \in Handlers, HandlerCall(h) PROVE TypeOK'
  <2>1. Request(h) \in {"break", "close"}
        BY DEF Request
  <2>2. asked' \in [Sessions -> SUBSET {"break", "close"}]
        BY <1>6, <2>1 DEF HandlerCall
  <2> QED BY <1>6, <2>2 DEF HandlerCall, HandlerStep
<1>7. ASSUME NEW h \in Handlers, CallReturns(h) \/ HandlerUnlock(h) \/ ExitProcess(h)
      PROVE  TypeOK'
      BY <1>7 DEF CallReturns, HandlerUnlock, ExitProcess, HandlerStep
<1>8. CASE UNCHANGED vars
      BY <1>8 DEF vars
<1> QED BY <1>1, <1>2, <1>3, <1>4, <1>5, <1>6, <1>7, <1>8
        DEF Next, HandlerGoesOn, Finished

LEMMA SessionKeeps ==
  ASSUME IInv, NEW s \in Sessions,
         StartSession(s) \/ StopServing(s) \/ AcquiresAsSession(s) \/ SessionGoesOn(s)
  PROVE  (MutexOwned /\ ActiveIsRegistered /\ SeenStillTrue)'
<1> USE MonitorAssumption
        DEF IInv, TypeOK, MutexOwned, ActiveIsRegistered, Registered, SeenStillTrue,
            InMutex, HandlerInMutex, SessionStep, monitorVars, handlerVars
<1>1. CASE StartSession(s)
      BY <1>1 DEF StartSession
<1>2. CASE StopServing(s)
      BY <1>2 DEF StopServing
<1>3. CASE RegisterLock(s)
      BY <1>3 DEF RegisterLock
<1>4. CASE UnregisterLock(s)
      BY <1>4 DEF UnregisterLock
<1>5. CASE RegisterCheck(s)
      BY <1>5 DEF RegisterCheck
<1>6. CASE RegisterSet(s)
      BY <1>6 DEF RegisterSet
<1>7. CASE UnregisterClear(s)
      BY <1>7 DEF UnregisterClear
<1>8. CASE DeleteTarget(s)
      BY <1>8 DEF DeleteTarget
<1> QED BY <1>1, <1>2, <1>3, <1>4, <1>5, <1>6, <1>7, <1>8
        DEF AcquiresAsSession, SessionGoesOn

LEMMA HandlerKeeps ==
  ASSUME IInv, NEW h \in Handlers,
         RaiseEvent(h) \/ HandlerLock(h) \/ HandlerGoesOn(h)
  PROVE  (MutexOwned /\ ActiveIsRegistered /\ SeenStillTrue)'
<1> USE MonitorAssumption
        DEF IInv, TypeOK, MutexOwned, ActiveIsRegistered, Registered, SeenStillTrue,
            InMutex, HandlerInMutex, HandlerStep, monitorVars
<1>1. CASE RaiseEvent(h)
      BY <1>1 DEF RaiseEvent
<1>2. CASE HandlerLock(h)
      BY <1>2 DEF HandlerLock
<1>3. CASE HandlerCheck(h)
      BY <1>3 DEF HandlerCheck
<1>4. CASE HandlerCall(h)
      BY <1>4 DEF HandlerCall
<1>5. CASE CallReturns(h)
      BY <1>5 DEF CallReturns
<1>6. CASE HandlerUnlock(h)
      BY <1>6 DEF HandlerUnlock
<1>7. CASE ExitProcess(h)
      BY <1>7 DEF ExitProcess
<1> QED BY <1>1, <1>2, <1>3, <1>4, <1>5, <1>6, <1>7 DEF HandlerGoesOn

LEMMA StepInv == IInv /\ [Next]_vars => IInv'
<1> SUFFICES ASSUME IInv, [Next]_vars PROVE IInv'
    OBVIOUS
<1>1. TypeOK'
      BY TypeStep DEF IInv
<1>2. (MutexOwned /\ ActiveIsRegistered /\ SeenStillTrue)'
  <2>1. CASE MainStep
        BY <2>1 DEF MainStep, InstallHandler, PublishMonitor, DestroyMonitor, handlerVars,
                    IInv, MutexOwned, ActiveIsRegistered, Registered, SeenStillTrue
  <2>2. CASE UNCHANGED vars
        BY <2>2 DEF vars, IInv, MutexOwned, ActiveIsRegistered, Registered, SeenStillTrue
  <2> QED BY <2>1, <2>2, SessionKeeps, HandlerKeeps DEF Next, Finished
<1> QED BY <1>1, <1>2 DEF IInv

\* The monitor's variables have their types, whatever threads run
\* (GlobalSessionMonitor.cpp).
THEOREM TypeCorrect == Spec => []TypeOK
<1>1. IInv => TypeOK
      BY DEF IInv
<1> QED BY InitInv, StepInv, <1>1, PTL DEF Spec

\* Whatever sessions start, are refused and end while the console handlers run,
\* the active one is the one pSession points to, until its own
\* UnregisterSession has undone that (GlobalSessionMonitor.cpp:9-23).
THEOREM OneActiveSession == Spec => []ActiveIsRegistered
<1>1. IInv => ActiveIsRegistered
      BY DEF IInv
<1> QED BY InitInv, StepInv, <1>1, PTL DEF Spec

-----------------------------------------------------------------------------

LEMMA MonitorThereStep ==
  ASSUME ~EventsOutside, IInv, MonitorThere, [Next]_vars
  PROVE  MonitorThere'
<1> USE MonitorAssumption
        DEF IInv, TypeOK, MonitorThere, InFlight, handlerVars, monitorVars
<1>1. CASE MainStep
      BY <1>1 DEF MainStep, InstallHandler, PublishMonitor, DestroyMonitor
<1>2. ASSUME NEW s \in Sessions,
             StartSession(s) \/ StopServing(s) \/ AcquiresAsSession(s) \/ SessionGoesOn(s)
      PROVE  MonitorThere'
      BY <1>2 DEF StartSession, StopServing, AcquiresAsSession, SessionGoesOn,
                  RegisterLock, UnregisterLock, RegisterCheck, RegisterSet,
                  UnregisterClear, DeleteTarget
<1>3. ASSUME NEW h \in Handlers, RaiseEvent(h) PROVE MonitorThere'
      BY <1>3 DEF RaiseEvent, HandlerStep
<1>4. ASSUME NEW h \in Handlers, HandlerLock(h) \/ HandlerCheck(h) PROVE MonitorThere'
      BY <1>4 DEF HandlerLock, HandlerCheck, HandlerStep
<1>5. ASSUME NEW h \in Handlers, HandlerCall(h) PROVE MonitorThere'
      BY <1>5 DEF HandlerCall, HandlerStep, SeenStillTrue
<1>6. ASSUME NEW h \in Handlers, CallReturns(h) \/ HandlerUnlock(h) \/ ExitProcess(h)
      PROVE  MonitorThere'
      BY <1>6 DEF CallReturns, HandlerUnlock, ExitProcess, HandlerStep
<1>7. CASE UNCHANGED vars
      BY <1>7 DEF vars
<1> QED BY <1>1, <1>2, <1>3, <1>4, <1>5, <1>6, <1>7 DEF Next, HandlerGoesOn, Finished

\* CtrlHandler calls a target only while it is registered, hence before its own
\* thread deletes it, if no event comes outside the monitor's life
\* (GlobalSessionMonitor.cpp:32-53).
THEOREM CallsAreSafe == ~EventsOutside => (Spec => []CallsLiveTarget)
<1> SUFFICES ASSUME ~EventsOutside PROVE Spec => []CallsLiveTarget
    OBVIOUS
<1>1. Init => IInv /\ MonitorThere
      BY InitInv DEF Init, MonitorThere, InFlight
<1>2. IInv /\ MonitorThere /\ [Next]_vars => (IInv /\ MonitorThere)'
      BY StepInv, MonitorThereStep
<1>3. IInv /\ MonitorThere => CallsLiveTarget
      BY DEF IInv, TypeOK, MonitorThere, SeenStillTrue, ActiveIsRegistered, CallsLiveTarget
<1> QED BY <1>1, <1>2, <1>3, PTL DEF Spec

-----------------------------------------------------------------------------
(* What becomes of a console event.                                        *)

\* A session that was active when an event came does not become active again.
SeenWasActive ==
  \A h \in Handlers, s \in Sessions :
    seen[h] = s => sess[s] \in {"active", "unregister", "clear", "unregistered", "gone"}

\* Behind the call, or when there was nobody to call.
AskedToClose ==
  \A h \in Handlers :
    (kind[h] = "ctrl_break" /\ hpc[h] \in {"calling", "unlock", "exiting", "exited"}) =>
      \A s \in Sessions :
        (seen[h] = s /\ sess[s] = "active") => "close" \in asked[s]

EventInv == SeenWasActive /\ AskedToClose

\* A session leaves "active" but does not come back to it.
LEMMA EventSession ==
  ASSUME IInv, EventInv, NEW s \in Sessions,
         StartSession(s) \/ StopServing(s) \/ AcquiresAsSession(s) \/ SessionGoesOn(s)
  PROVE  EventInv'
<1> USE DEF IInv, TypeOK, EventInv, SeenWasActive, AskedToClose, SessionStep, handlerVars
<1>1. CASE StartSession(s)
      BY <1>1 DEF StartSession
<1>2. CASE StopServing(s)
      BY <1>2 DEF StopServing
<1>3. CASE AcquiresAsSession(s)
      BY <1>3 DEF AcquiresAsSession, RegisterLock, UnregisterLock
<1>4. CASE RegisterCheck(s)
      BY <1>4 DEF RegisterCheck
<1>5. CASE RegisterSet(s)
      BY <1>5 DEF RegisterSet
<1>6. CASE UnregisterClear(s) \/ DeleteTarget(s)
      BY <1>6 DEF UnregisterClear, DeleteTarget
<1> QED BY <1>1, <1>2, <1>3, <1>4, <1>5, <1>6 DEF SessionGoesOn

\* The session that is called under the mutex is the one that is active.
LEMMA EventHandler ==
  ASSUME IInv, EventInv, NEW h \in Handlers,
         RaiseEvent(h) \/ HandlerLock(h) \/ HandlerGoesOn(h)
  PROVE  EventInv'
<1> USE MonitorAssumption
        DEF IInv, TypeOK, EventInv, SeenWasActive, AskedToClose, HandlerStep,
            ActiveIsRegistered, Registered
<1>1. CASE RaiseEvent(h)
      BY <1>1 DEF RaiseEvent
<1>2. CASE HandlerLock(h)
      BY <1>2 DEF HandlerLock
<1>3. CASE HandlerCheck(h)
      BY <1>3 DEF HandlerCheck
<1>4. CASE HandlerCall(h)
  <2>1. \A s \in Sessions : asked[s] \subseteq asked'[s]
        BY <1>4 DEF HandlerCall
  <2>2. \A s \in Sessions :
          kind[h] = "ctrl_break" /\ sess[s] = "active" => "close" \in asked'[s]
        BY <1>4 DEF HandlerCall, Request
  <2> QED BY <1>4, <2>1, <2>2 DEF HandlerCall
<1>5. CASE CallReturns(h) \/ HandlerUnlock(h) \/ ExitProcess(h)
      BY <1>5 DEF CallReturns, HandlerUnlock, ExitProcess
<1> QED BY <1>1, <1>2, <1>3, <1>4, <1>5 DEF HandlerGoesOn

LEMMA EventStep == IInv /\ EventInv /\ [Next]_vars => EventInv'
<1> SUFFICES ASSUME IInv, EventInv, [Next]_vars PROVE EventInv'
    OBVIOUS
<1>1. CASE MainStep
      BY <1>1 DEF MainStep, InstallHandler, PublishMonitor, DestroyMonitor, handlerVars,
                  EventInv, SeenWasActive, AskedToClose
<1>2. CASE UNCHANGED vars
      BY <1>2 DEF vars, EventInv, SeenWasActive, AskedToClose
<1> QED BY <1>1, <1>2, EventSession, EventHandler DEF Next, Finished

\* When Ctrl+Break ends the process, the session that was active when the key
\* was pressed has been asked to close or is active no more, although it went
\* on while the event waited for m_Mutex (GlobalSessionMonitor.cpp:32-53).
THEOREM AskedBeforeExit == Spec => []ClosedBeforeExit
<1>1. Init => EventInv
      BY MonitorAssumption
      DEF Init, EventInv, SeenWasActive, AskedToClose
<1>2. EventInv => ClosedBeforeExit
      BY DEF EventInv, AskedToClose, ClosedBeforeExit
<1> QED BY InitInv, StepInv, EventStep, <1>1, <1>2, PTL DEF Spec
=============================================================================
