------------------------- MODULE GlobalSessionMonitor --------------------------
(***************************************************************************)
(* GlobalSessionMonitor: at most one session is active, and the console's  *)
(* control events go to it.                                                *)
(*                                                                         *)
(* Three kinds of thread meet in it.  The main thread constructs and       *)
(* destroys the monitor.  The thread of a connection registers its target, *)
(* serves, unregisters and deletes the target.  For every control event    *)
(* Windows starts a thread that runs CtrlHandler, which finds the monitor  *)
(* through s_pMainMonitor and calls the active session's target with       *)
(* m_Mutex held.  When CtrlHandler returns FALSE the default handler ends  *)
(* the process.                                                            *)
(***************************************************************************)
EXTENDS FiniteSets

CONSTANTS
  Sessions,       \* the targets, one per connection
  Handlers,       \* the threads Windows starts, one per control event
  NoSession,      \* the null pointer
  CloseWaits,     \* CloseSessionSafely waits until its session has ended
  EventsOutside   \* events may come while there is no monitor

ASSUME MonitorAssumption ==
  /\ NoSession \notin Sessions \cup Handlers
  /\ Sessions \cap Handlers = {}
  /\ CloseWaits \in BOOLEAN /\ EventsOutside \in BOOLEAN

VARIABLES
  installed,     \* SetConsoleCtrlHandler has been called; it is never undone
  mainMonitor,   \* s_pMainMonitor points to the monitor
  pSession,      \* the active session's target
  mutex,         \* the thread that holds m_Mutex
  sess,          \* the program point of each connection's thread
  hpc,           \* the program point of each console handler's thread
  kind,          \* the event it was started for
  seen,          \* the session that was active when the event came
  asked          \* what the targets were asked to do: "break", "close"

vars == <<installed, mainMonitor, pSession, mutex, sess, hpc, kind, seen, asked>>

monitorVars == <<installed, mainMonitor>>
handlerVars == <<hpc, kind, seen, asked>>

\* CTRL_C_EVENT, and CTRL_BREAK_EVENT or CTRL_CLOSE_EVENT, and the others.
Kinds == {"ctrl_c", "ctrl_break", "other"}

\* The points of RegisterSession, of serving, of UnregisterSession and of the
\* target's destruction.
SessionPoints ==
  {"none", "register", "check", "set", "active", "unregister", "clear",
   "unregistered", "refused", "gone"}

\* The points of CtrlHandler.
HandlerPoints ==
  {"idle", "lock", "check", "call", "calling", "unlock", "returned",
   "exiting", "exited", "crashed"}

TypeOK ==
  /\ installed \in BOOLEAN /\ mainMonitor \in BOOLEAN
  /\ pSession \in Sessions \cup {NoSession}
  /\ mutex \in Sessions \cup Handlers \cup {NoSession}
  /\ sess \in [Sessions -> SessionPoints]
  /\ hpc \in [Handlers -> HandlerPoints]
  /\ kind \in [Handlers -> Kinds]
  /\ seen \in [Handlers -> Sessions \cup {NoSession}]
  /\ asked \in [Sessions -> SUBSET {"break", "close"}]

\* The process lives until a handler has returned FALSE or crashed.
Running == \A h \in Handlers : hpc[h] \notin {"exited", "crashed"}

InFlight == {h \in Handlers : hpc[h] \notin {"idle", "returned"}}

Init ==
  /\ installed = FALSE /\ mainMonitor = FALSE
  /\ pSession = NoSession
  /\ mutex = NoSession
  /\ sess = [s \in Sessions |-> "none"]
  /\ hpc = [h \in Handlers |-> "idle"]
  /\ kind = [h \in Handlers |-> "other"]
  /\ seen = [h \in Handlers |-> NoSession]
  /\ asked = [s \in Sessions |-> {}]

-----------------------------------------------------------------------------
\* The main thread.

\* The constructor installs the handler before the pointer it uses is set.
InstallHandler ==
  /\ Running /\ ~installed
  /\ installed' = TRUE
  /\ UNCHANGED <<mainMonitor, pSession, mutex, sess, handlerVars>>

PublishMonitor ==
  /\ Running /\ installed /\ ~mainMonitor
  /\ \A s \in Sessions : sess[s] = "none"
  /\ mainMonitor' = TRUE
  /\ UNCHANGED <<installed, pSession, mutex, sess, handlerVars>>

\* The destructor, after the last session.  It takes no mutex and leaves the
\* handler installed.
DestroyMonitor ==
  /\ Running /\ mainMonitor
  /\ \A s \in Sessions : sess[s] = "gone"
  /\ EventsOutside \/ InFlight = {}
  /\ mainMonitor' = FALSE
  /\ UNCHANGED <<installed, pSession, mutex, sess, handlerVars>>

-----------------------------------------------------------------------------
\* The thread of a connection.

SessionStep(s, from, to) ==
  /\ Running
  /\ sess[s] = from
  /\ sess' = [sess EXCEPT ![s] = to]

\* The target is created.
StartSession(s) ==
  /\ mainMonitor
  /\ SessionStep(s, "none", "register")
  /\ UNCHANGED <<monitorVars, pSession, mutex, handlerVars>>

RegisterLock(s) ==
  /\ SessionStep(s, "register", "check")
  /\ mutex = NoSession
  /\ mutex' = s
  /\ UNCHANGED <<monitorVars, pSession, handlerVars>>

\* Mutant: the session that is already registered is not looked for.
RegisterOverwrites(s) ==
  /\ SessionStep(s, "check", "set")
  /\ UNCHANGED <<monitorVars, pSession, mutex, handlerVars>>

\* Mutant: the early return leaves the mutex locked.
RefusalKeepsMutex(s) ==
  \/ /\ pSession # NoSession
     /\ SessionStep(s, "check", "refused")
     /\ UNCHANGED <<monitorVars, pSession, mutex, handlerVars>>
  \/ /\ pSession = NoSession
     /\ SessionStep(s, "check", "set")
     /\ UNCHANGED <<monitorVars, pSession, mutex, handlerVars>>

RegisterCheck(s) ==
  \/ /\ pSession # NoSession
     /\ SessionStep(s, "check", "refused")
     /\ mutex' = NoSession
     /\ UNCHANGED <<monitorVars, pSession, handlerVars>>
  \/ /\ pSession = NoSession
     /\ SessionStep(s, "check", "set")
     /\ UNCHANGED <<monitorVars, pSession, mutex, handlerVars>>

RegisterSet(s) ==
  /\ SessionStep(s, "set", "active")
  /\ pSession' = s
  /\ mutex' = NoSession
  /\ UNCHANGED <<monitorVars, handlerVars>>

\* The client leaves, or the target was asked to close.
StopServing(s) ==
  /\ SessionStep(s, "active", "unregister")
  /\ UNCHANGED <<monitorVars, pSession, mutex, handlerVars>>

UnregisterLock(s) ==
  /\ SessionStep(s, "unregister", "clear")
  /\ mutex = NoSession
  /\ mutex' = s
  /\ UNCHANGED <<monitorVars, pSession, handlerVars>>

UnregisterClear(s) ==
  /\ SessionStep(s, "clear", "unregistered")
  /\ pSession' = NoSession
  /\ mutex' = NoSession
  /\ UNCHANGED <<monitorVars, handlerVars>>

\* The target is deleted; a refused session's target was never registered.
DeleteTarget(s) ==
  /\ SessionStep(s, "unregistered", "gone") \/ SessionStep(s, "refused", "gone")
  /\ UNCHANGED <<monitorVars, pSession, mutex, handlerVars>>

-----------------------------------------------------------------------------
\* CtrlHandler, on a thread of its own.

HandlerStep(h, from, to) ==
  /\ Running
  /\ hpc[h] = from
  /\ hpc' = [hpc EXCEPT ![h] = to]

\* The user presses a key, or the system ends; CtrlHandler leaves the other
\* events to the next handler, which ends the process.
RaiseEvent(h) ==
  /\ installed /\ (EventsOutside \/ mainMonitor)
  /\ \E k \in Kinds :
       /\ kind' = [kind EXCEPT ![h] = k]
       /\ HandlerStep(h, "idle", IF k = "other" THEN "exiting" ELSE "lock")
  /\ seen' = [seen EXCEPT ![h] = pSession]
  /\ UNCHANGED <<monitorVars, pSession, mutex, sess, asked>>

\* Mutant: the session is looked up without the mutex.
HandlerDoesNotLock(h) ==
  /\ HandlerStep(h, "lock", IF mainMonitor THEN "check" ELSE "crashed")
  /\ UNCHANGED <<monitorVars, pSession, mutex, sess, kind, seen, asked>>

\* s_pMainMonitor->m_Mutex.
HandlerLock(h) ==
  /\ mainMonitor => mutex = NoSession
  /\ HandlerStep(h, "lock", IF mainMonitor THEN "check" ELSE "crashed")
  /\ mutex' = IF mainMonitor THEN h ELSE mutex
  /\ UNCHANGED <<monitorVars, pSession, sess, kind, seen, asked>>

\* The pointer is read from s_pMainMonitor afresh for the test and for the call.
HandlerCheck(h) ==
  /\ HandlerStep(h, "check",
       IF ~mainMonitor THEN "crashed"
       ELSE IF pSession # NoSession THEN "call" ELSE "unlock")
  /\ UNCHANGED <<monitorVars, pSession, mutex, sess, kind, seen, asked>>

\* Mutants: a target that is terminated, the two requests swapped, and one
\* request for all events.
RequestTerminates(h) == IF kind[h] = "ctrl_c" THEN "break" ELSE "terminate"
RequestSwapped(h) == IF kind[h] = "ctrl_c" THEN "close" ELSE "break"
RequestCloses(h) == IF kind[h] = "ctrl_c" THEN "close" ELSE "close"

Request(h) == IF kind[h] = "ctrl_c" THEN "break" ELSE "close"

HandlerCall(h) ==
  /\ HandlerStep(h, "call",
       IF mainMonitor /\ pSession # NoSession THEN "calling" ELSE "crashed")
  /\ asked' = [s \in Sessions |->
                 IF s = pSession THEN asked[s] \cup {Request(h)} ELSE asked[s]]
  /\ UNCHANGED <<monitorVars, pSession, mutex, sess, kind, seen>>

\* SendBreakInRequestAsync returns at once; CloseSessionSafely need not.
CallReturns(h) ==
  /\ (CloseWaits /\ kind[h] = "ctrl_break") =>
        \A s \in Sessions : s = pSession => sess[s] \notin {"active", "unregister"}
  /\ HandlerStep(h, "calling", "unlock")
  /\ UNCHANGED <<monitorVars, pSession, mutex, sess, kind, seen, asked>>

\* TRUE ends the event, FALSE passes it on to the handler that ends the process.
HandlerUnlock(h) ==
  /\ HandlerStep(h, "unlock", IF kind[h] = "ctrl_c" THEN "returned" ELSE "exiting")
  /\ mutex' = NoSession
  /\ UNCHANGED <<monitorVars, pSession, sess, kind, seen, asked>>

\* ExitProcess, by the default handler.  The mutex has long been released.
ExitProcess(h) ==
  /\ HandlerStep(h, "exiting", "exited")
  /\ UNCHANGED <<monitorVars, pSession, mutex, sess, kind, seen, asked>>

-----------------------------------------------------------------------------

\* The process has ended, or the program has closed the monitor.
Finished ==
  /\ ~Running \/ (installed /\ ~mainMonitor /\ InFlight = {})
  /\ UNCHANGED vars

MainStep == InstallHandler \/ PublishMonitor \/ DestroyMonitor

AcquiresAsSession(s) == RegisterLock(s) \/ UnregisterLock(s)

SessionGoesOn(s) ==
  \/ RegisterCheck(s) \/ RegisterSet(s)
  \/ UnregisterClear(s) \/ DeleteTarget(s)

HandlerGoesOn(h) ==
  \/ HandlerCheck(h) \/ HandlerCall(h) \/ CallReturns(h)
  \/ HandlerUnlock(h) \/ ExitProcess(h)

Next ==
  \/ MainStep
  \/ \E s \in Sessions :
       StartSession(s) \/ StopServing(s) \/ AcquiresAsSession(s) \/ SessionGoesOn(s)
  \/ \E h \in Handlers : RaiseEvent(h) \/ HandlerLock(h) \/ HandlerGoesOn(h)
  \/ Finished

Spec == Init /\ [][Next]_vars

\* Threads are scheduled, and the mutex lets no waiter starve.  When sessions
\* start and end, and whether a key is ever pressed, is left open.
Fairness ==
  /\ \A s \in Sessions : SF_vars(AcquiresAsSession(s)) /\ WF_vars(SessionGoesOn(s))
  /\ \A h \in Handlers : SF_vars(HandlerLock(h)) /\ WF_vars(HandlerGoesOn(h))

FairSpec == Spec /\ Fairness

-----------------------------------------------------------------------------
(* Properties *)

\* Registered: from the return of RegisterSession with TRUE to the assignment
\* that undoes it.
Registered(s) == sess[s] \in {"active", "unregister", "clear"}

\* One session is active at a time, and it is the one the monitor points to
\* until the end of its own UnregisterSession: the assertion there holds, and
\* no session that was refused or has left undoes another's registration.
ActiveIsRegistered ==
  \A s \in Sessions : Registered(s) <=> pSession = s

\* CtrlHandler is never inside a target that is being deleted, although the
\* target belongs to another thread, and never calls through a null pointer.
CallsLiveTarget ==
  \A h \in Handlers :
    /\ hpc[h] # "crashed"
    /\ hpc[h] = "calling" => \E s \in Sessions : pSession = s /\ Registered(s)

\* Ctrl+Break ends the process only after the session that was active when the
\* key was pressed has been asked to close, or has left by itself.
ClosedBeforeExit ==
  \A h \in Handlers :
    (hpc[h] = "exited" /\ kind[h] = "ctrl_break") =>
      \A s \in Sessions :
        (seen[h] = s /\ sess[s] = "active") => "close" \in asked[s]

\* Ctrl+C is heard: the session that was active when the key was pressed is
\* asked to break in, unless it leaves or the process ends.
BreakInArrives ==
  \A h \in Handlers, s \in Sessions :
    (hpc[h] = "lock" /\ kind[h] = "ctrl_c" /\ seen[h] = s)
      ~> ("break" \in asked[s] \/ sess[s] # "active" \/ ~Running)

\* Nobody waits for ever on the mutex: a session that ends is deleted, one that
\* starts is answered, and CtrlHandler returns.
NobodyStuck ==
  /\ \A s \in Sessions : sess[s] = "unregister" ~> (sess[s] = "gone" \/ ~Running)
  /\ \A s \in Sessions :
       sess[s] = "register" ~> (Registered(s) \/ sess[s] = "gone" \/ ~Running)
  /\ \A h \in Handlers : hpc[h] = "lock" ~> (hpc[h] = "returned" \/ ~Running)
=============================================================================
