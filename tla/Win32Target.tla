------------------------------ MODULE Win32Target ------------------------------
(***************************************************************************)
(* The sample's target (SimpleWin32Server.cpp): a process under the        *)
(* Windows debugging API, driven by the calls a GDBStub makes.  Windows    *)
(* freezes the process at each debug event until ContinueDebugEvent is     *)
(* called; the target hides some events from the stub and continues.       *)
(***************************************************************************)
EXTENDS Naturals, SequencesExt

CONSTANTS
  Threads,              \* thread identifiers, which Windows uses again
  Main,                 \* the thread the process starts with
  MaximumSuspendCount,  \* how often Windows suspends one thread
  Failures              \* the calls that may fail for no reason of their own

ASSUME Win32Assumption ==
  /\ Main \in Threads
  /\ MaximumSuspendCount \in Nat \ {0}
  /\ Failures \subseteq {"continue", "mode", "restore"}

VARIABLES
  \* The process.
  living,      \* its threads
  newborn,     \* those whose creation was not reported yet
  injected,    \* those made by DebugBreakProcess that have yet to break
  suspended,   \* how often each is suspended
  unrestored,  \* history: how many of its suspensions could not be undone
  trap,        \* those with the trap flag in EFlags
  event,       \* the debug event the process is frozen at, or NoEvent
  \* The target.
  m_DebugEvent,
  m_Threads,
  \* The stub that calls it.
  pc,            \* "stopped", "vCont", "waiting" in ResumeAndWait, "restore"
  set,           \* the threads whose mode this vCont has set
  restoreQueue,
  breakIn        \* a break-in was requested since the last stop

suspensions == <<suspended, unrestored>>
process == <<living, newborn, injected, suspensions, trap>>
calls == <<pc, set, restoreQueue>>
vars == <<process, event, m_DebugEvent, m_Threads, calls, breakIn>>

NoEvent == [code |-> "none", thread |-> Main]

Codes == {"createProcess", "createThread", "exitThread", "exception", "singleStep", "loadDll", "exitProcess"}

\* The constructor: attaching injects a thread, and the first event is the
\* creation of the process.
Init ==
  /\ injected \in {{}} \cup {{t} : t \in Threads \ {Main}}
  /\ living = {Main} \cup injected
  /\ newborn = injected
  /\ suspended = [t \in Threads |-> 0] /\ unrestored = suspended
  /\ trap = {}
  /\ event = [code |-> "createProcess", thread |-> Main]
  /\ m_DebugEvent = event
  /\ m_Threads = {}
  /\ pc = "stopped" /\ set = {} /\ restoreQueue = <<>>
  /\ breakIn = FALSE

-----------------------------------------------------------------------------
(* The process.                                                            *)

Running == event = NoEvent
Runs(t) == Running /\ t \in living \ newborn /\ suspended[t] = 0

Occurs(code, t) == event' = [code |-> code, thread |-> t]

targetAndStub == <<m_DebugEvent, m_Threads, calls, breakIn>>

\* A thread that is made by another, or by DebugBreakProcess; bound: the
\* identifier of the first thread is not used again.
NewThread(t) ==
  /\ t \notin living \cup {Main}
  /\ living' = living \cup {t}
  /\ newborn' = newborn \cup {t}
  /\ UNCHANGED <<suspensions, trap>>

Spawn(t) ==
  /\ \E parent \in living : Runs(parent)
  /\ NewThread(t)
  /\ UNCHANGED <<injected, event, targetAndStub>>

\* A new thread reports its creation before it runs.
ThreadCreated(t) ==
  /\ Running /\ t \in newborn
  /\ Occurs("createThread", t)
  /\ newborn' = newborn \ {t}
  /\ UNCHANGED <<living, injected, suspensions, trap, targetAndStub>>

\* A thread ends, or is ended by another although it is suspended, and its
\* suspensions with it; nobody knows of the injected one before it breaks.
ThreadExits(t) ==
  /\ Running /\ t \in living \ (newborn \cup injected) /\ living # {t}
  /\ Occurs("exitThread", t)
  /\ living' = living \ {t}
  /\ trap' = trap \ {t}
  /\ suspended' = [suspended EXCEPT ![t] = 0]
  /\ unrestored' = [unrestored EXCEPT ![t] = 0]
  /\ UNCHANGED <<newborn, injected, targetAndStub>>

\* An injected thread does nothing but break.
Breaks(t) ==
  /\ Runs(t)
  /\ Occurs("exception", t)
  /\ injected' = injected \ {t}
  /\ UNCHANGED <<living, newborn, suspensions, trap, targetAndStub>>

\* Windows clears the flag when it reports the step.
Steps(t) ==
  /\ Runs(t) /\ t \in trap
  /\ Occurs("singleStep", t)
  /\ trap' = trap \ {t}
  /\ UNCHANGED <<living, newborn, injected, suspensions, targetAndStub>>

LoadsLibrary(t) ==
  /\ Runs(t) /\ t \notin injected
  /\ Occurs("loadDll", t)
  /\ UNCHANGED <<process, targetAndStub>>

ProcessExits(t) ==
  /\ Runs(t) /\ t \notin injected
  /\ Occurs("exitProcess", t)
  /\ living' = {} /\ newborn' = {} /\ injected' = {} /\ trap' = {}
  /\ suspended' = [u \in Threads |-> 0] /\ unrestored' = suspended'
  /\ UNCHANGED targetAndStub

Process ==
  \E t \in Threads :
    Spawn(t) \/ ThreadCreated(t) \/ ThreadExits(t) \/ Breaks(t) \/ Steps(t) \/ LoadsLibrary(t) \/ ProcessExits(t)

-----------------------------------------------------------------------------
(* The target.                                                             *)

IsDebugEventSupportedByGDB(code) == code \in {"exception", "singleStep", "loadDll", "exitProcess"}

\* Mutant: a thread that ends stays in the list.
ThreadsAfterAll(ev) == IF ev.code = "createThread" THEN m_Threads \cup {ev.thread} ELSE m_Threads

ThreadsAfter(ev) ==
  CASE ev.code = "createThread" -> m_Threads \cup {ev.thread}
    [] ev.code = "exitThread"   -> m_Threads \ {ev.thread}
    [] OTHER                    -> m_Threads

\* It fails for a thread there is none of.
EnableSingleStep(t) ==
  /\ t \in living
  /\ trap' = trap \cup {t}

ReturnsToStub ==
  /\ pc' = "restore"
  /\ breakIn' = FALSE

\* Mutants: the event that is not reported is not continued; the one that is, too.
WaitWithoutContinuing ==
  IF IsDebugEventSupportedByGDB(event.code)
  THEN ReturnsToStub /\ UNCHANGED event
  ELSE UNCHANGED <<event, pc, breakIn>>

ContinueThenReturn ==
  /\ event' = NoEvent
  /\ IF IsDebugEventSupportedByGDB(event.code) THEN ReturnsToStub ELSE UNCHANGED <<pc, breakIn>>

\* An event that is not for the stub is continued; if that fails, so does the
\* wait.
ReturnOrContinue ==
  \/ /\ IsDebugEventSupportedByGDB(event.code) \/ "continue" \in Failures
     /\ ReturnsToStub
     /\ UNCHANGED event
  \/ /\ ~IsDebugEventSupportedByGDB(event.code)
     /\ event' = NoEvent
     /\ UNCHANGED <<pc, breakIn>>

\* One iteration of the loop in WaitForDebugEvent.
WaitForDebugEvent ==
  /\ pc = "waiting" /\ event # NoEvent
  /\ m_DebugEvent' = event
  /\ m_Threads' = ThreadsAfter(event)
  /\ trap' = IF event.code = "singleStep" THEN trap \ {event.thread} ELSE trap
  /\ ReturnOrContinue
  /\ UNCHANGED <<living, newborn, injected, suspensions, set, restoreQueue>>

StopReason ==
  CASE m_DebugEvent.code \in {"exception", "singleStep"} -> "signal"
    [] m_DebugEvent.code = "loadDll"                     -> "library"
    [] m_DebugEvent.code = "exitProcess"                 -> "exited"
    [] OTHER                                             -> "unspecified"

\* DebugBreakProcess, from the worker thread.
SendBreakInRequestAsync(t) ==
  /\ living # {}
  /\ NewThread(t)
  /\ injected' = injected \cup {t}
  /\ breakIn' = TRUE
  /\ UNCHANGED <<event, m_DebugEvent, m_Threads, calls>>

-----------------------------------------------------------------------------
(* The stub's calls.                                                       *)

\* A client does not resume what has exited.
MayResume == pc \in {"stopped", "vCont"} /\ StopReason # "exited"

\* ContinueDebugEvent, up to the wait; if it fails, nothing runs.
Continue ==
  \/ /\ event' = NoEvent
     /\ pc' = "waiting"
  \/ /\ "continue" \in Failures
     /\ pc' = "restore"
     /\ UNCHANGED event

ResumeAndWait ==
  /\ MayResume
  /\ Continue
  /\ UNCHANGED <<process, m_DebugEvent, m_Threads, set, restoreQueue, breakIn>>

\* The trap flag stays set if the process is not resumed.
Step(t) ==
  /\ MayResume /\ pc = "stopped"
  /\ EnableSingleStep(t)
  /\ Continue
  /\ UNCHANGED <<living, newborn, injected, suspensions, m_DebugEvent, m_Threads, set, restoreQueue, breakIn>>

\* SetThreadModeForNextCont, once for each thread the client was told of.
Named(t) == t \in m_Threads \cup {Main} /\ t \notin set

SetSingleStep(t) ==
  /\ MayResume /\ Named(t)
  /\ EnableSingleStep(t)
  /\ pc' = "vCont" /\ set' = set \cup {t}
  /\ UNCHANGED <<living, newborn, injected, suspensions, event, m_DebugEvent, m_Threads, restoreQueue, breakIn>>

SetSuspend(t) ==
  /\ MayResume /\ Named(t)
  /\ t \in living /\ suspended[t] < MaximumSuspendCount
  /\ suspended' = [suspended EXCEPT ![t] = @ + 1]
  /\ restoreQueue' = Append(restoreQueue, t)
  /\ pc' = "vCont" /\ set' = set \cup {t}
  /\ UNCHANGED <<living, newborn, injected, unrestored, trap, event, m_DebugEvent, m_Threads, breakIn>>

\* The thread is not there, or suspended too often already: what was set is
\* restored, and nothing is resumed.
SetModeFails(t) ==
  /\ MayResume /\ Named(t)
  /\ t \notin living \/ suspended[t] = MaximumSuspendCount \/ "mode" \in Failures
  /\ pc' = "restore"
  /\ UNCHANGED <<process, event, m_DebugEvent, m_Threads, set, restoreQueue, breakIn>>

\* What a ResumeThread has to undo: nothing if the thread is not suspended, being
\* a new one, perhaps, with the identifier of the one that was.
Undoable(t) == IF suspended[t] > 0 THEN 1 ELSE 0

\* The dtmRestore call for the next thread in the queue.
Restore ==
  /\ pc = "restore" /\ restoreQueue # <<>>
  /\ suspended' = [suspended EXCEPT ![Head(restoreQueue)] = @ - Undoable(Head(restoreQueue))]
  /\ restoreQueue' = Tail(restoreQueue)
  /\ UNCHANGED <<living, newborn, injected, unrestored, trap, event, m_DebugEvent, m_Threads, pc, set, breakIn>>

MayFailToRestore ==
  /\ pc = "restore" /\ restoreQueue # <<>>
  /\ Head(restoreQueue) \notin living \/ "restore" \in Failures

\* Mutant: the first thread that cannot be restored ends the loop.
RestoreFailsForAll ==
  /\ MayFailToRestore
  /\ unrestored' = [unrestored EXCEPT ![Head(restoreQueue)] = @ + Undoable(Head(restoreQueue))]
  /\ restoreQueue' = <<>>
  /\ UNCHANGED <<living, newborn, injected, suspended, trap, event, m_DebugEvent, m_Threads, pc, set, breakIn>>

\* OpenThread or ResumeThread fails.  The stub ignores what the call returns: the
\* thread is not tried again.
RestoreFails ==
  /\ MayFailToRestore
  /\ unrestored' = [unrestored EXCEPT ![Head(restoreQueue)] = @ + Undoable(Head(restoreQueue))]
  /\ restoreQueue' = Tail(restoreQueue)
  /\ UNCHANGED <<living, newborn, injected, suspended, trap, event, m_DebugEvent, m_Threads, pc, set, breakIn>>

Reply ==
  /\ pc = "restore" /\ restoreQueue = <<>>
  /\ pc' = "stopped" /\ set' = {}
  /\ UNCHANGED <<process, event, m_DebugEvent, m_Threads, restoreQueue, breakIn>>

StubThread == WaitForDebugEvent \/ Restore \/ RestoreFails \/ Reply

Client ==
  \/ ResumeAndWait
  \/ \E t \in Threads : Step(t) \/ SetSingleStep(t) \/ SetSuspend(t) \/ SetModeFails(t)

Next ==
  \/ Process
  \/ \E t \in Threads : SendBreakInRequestAsync(t)
  \/ Client
  \/ StubThread

\* Windows lets some injected thread run however busy the others are.
Injected == \E t \in injected : ThreadCreated(t) \/ Breaks(t)

Spec == Init /\ [][Next]_vars /\ WF_vars(StubThread) /\ SF_vars(Injected)

-----------------------------------------------------------------------------
(* Properties.                                                             *)

TypeOK ==
  /\ living \subseteq Threads
  /\ newborn \subseteq living /\ injected \subseteq living /\ trap \subseteq living
  /\ suspended \in [Threads -> Nat] /\ unrestored \in [Threads -> Nat]
  /\ event \in [code : Codes, thread : Threads] \cup {NoEvent}
  /\ m_DebugEvent \in [code : Codes, thread : Threads]
  /\ m_Threads \subseteq Threads
  /\ pc \in {"stopped", "vCont", "waiting", "restore"}
  /\ set \subseteq Threads
  /\ restoreQueue \in Seq(Threads)
  /\ breakIn \in BOOLEAN

\* IGDBTarget.h:338, "waits till a next debug event occurs": while the client
\* holds the process to be stopped, it is frozen, at the event that is reported,
\* and an exit is reported as one, whichever events were hidden before.
StoppedIsFrozen ==
  pc # "waiting" =>
    /\ event = m_DebugEvent
    /\ (StopReason = "exited") = (living = {})

\* The threads a client can list, select and give modes to are those that run
\* besides the one the process started with, although creations and exits are
\* hidden from it.
ListsTheOthers ==
  pc # "waiting" /\ living # {} => m_Threads \ {Main} = living \ (newborn \cup {Main})

\* How many of a thread's suspensions are still to be undone.
Owed(t) == IF t \in ToSet(restoreQueue) THEN 1 ELSE 0

\* What a vCont suspends is resumed before it is answered, whichever mode failed
\* and whether the process was resumed; a thread stays suspended for restoring
\* calls of its own that failed, never for another's, nor for those of a thread
\* that had its identifier.
SuspendedAsAsked ==
  /\ \A t \in living : suspended[t] <= unrestored[t] + Owed(t)
  /\ pc = "stopped" => restoreQueue = <<>>

\* IGDBTarget.h:28, "Keep the thread stopped until next debug event from another
\* thread": no thread is suspended behind an answered stop.  So it is if no
\* restoring call fails; Handle_vCont ignores one that does, and SuspendedAsAsked
\* is what then holds.
SuspensionsEndWithStop ==
  pc = "stopped" => \A t \in living : suspended[t] = 0

\* IGDBTarget.h:351, "forces a breakpoint": a break-in stops the process,
\* although its thread's creation is an event of its own, which is hidden.
BreakInStops == (breakIn /\ pc = "waiting") ~> pc # "waiting"
=============================================================================
