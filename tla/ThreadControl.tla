----------------------------- MODULE ThreadControl -----------------------------
(***************************************************************************)
(* GDBStub and BasicGDBStub: which thread a command is about, the cache of *)
(* the thread list, and c, s and vCont with the modes they arm and restore *)
(* in the target.  The stub serves one packet at a time; a packet that     *)
(* calls the target several times is one step per call, because each call  *)
(* may fail.  While the target runs, its threads come and go.              *)
(***************************************************************************)
EXTENDS Naturals, Sequences, FiniteSets, FiniteSetsExt, SequencesExt

CONSTANTS
  Threads,        \* thread identifiers
  Junk,           \* a value no thread has, found in uninitialised memory
  VContRequests,  \* the vCont packets: a default mode, modes of named threads
  Probes,         \* the client asks vCont?
  SelfResetting,  \* modes the target undoes itself at the next debug event
  Failures        \* target calls that may fail: "list", "mode", "resume", "record"

Modes == {"run", "step", "suspend"}

ASSUME ThreadControlAssumption ==
  /\ Threads \subseteq Nat \ {0} /\ IsFiniteSet(Threads)
  /\ Junk \in Nat \ ({0} \cup Threads)
  /\ \A req \in VContRequests :
       /\ req.default \in Modes
       /\ DOMAIN req.named \subseteq Threads
       /\ \A t \in DOMAIN req.named : req.named[t] \in Modes
  /\ SelfResetting \subseteq Modes

VARIABLES
  m_ThreadIDForCont, m_ThreadIDForReg,  \* what H selected, 0 for none
  m_LastReportedCurrentThreadID,
  m_CachedThreadInfo,                   \* the identifiers in it
  m_bThreadCacheValid,
  pc,            \* "idle", "apply", "running", "restore"
  todo,          \* modes not yet passed to SetThreadModeForNextCont
  restoreQueue,  \* threads whose mode must be restored
  failed,        \* status # kGDBSuccess
  \* The target.
  alive,         \* its threads
  mode,          \* the mode each will continue in
  owed,          \* threads for which it asked to be called with dtmRestore
  stopThread,    \* the thread of the last debug event
  \* The client.
  asked,         \* the modes of the resuming packet that is being served
  selected       \* the thread it selected with Hg since the last stop

selection == <<m_ThreadIDForCont, m_ThreadIDForReg>>
cache     == <<m_CachedThreadInfo, m_bThreadCacheValid>>
call      == <<todo, restoreQueue, failed>>
target    == <<alive, mode, owed, stopThread>>
tcVars == <<selection, m_LastReportedCurrentThreadID, cache, pc, call, target, asked, selected>>

\* What a client that has selected nothing yet has selected.
Unset == Junk

AllRun == [default |-> "run", named |-> <<>>]

Init ==
  /\ alive \in SUBSET Threads \ {{}}
  /\ stopThread \in alive
  /\ m_ThreadIDForCont \in Threads \cup {0, Junk}
  /\ m_ThreadIDForReg \in Threads \cup {0, Junk}
  /\ m_LastReportedCurrentThreadID \in Threads \cup {0, Junk}
  /\ m_CachedThreadInfo = alive
  /\ m_bThreadCacheValid = FALSE
  /\ pc = "idle"
  /\ todo = <<>>
  /\ restoreQueue = <<>>
  /\ failed = FALSE
  /\ mode = [t \in Threads |-> "run"]
  /\ owed = {}
  /\ asked = AllRun
  /\ selected = Unset

\* GetThreadIDForOp: the selected thread, else the last reported one.
ThreadIDForOp(id) == IF id = 0 THEN m_LastReportedCurrentThreadID ELSE id

-----------------------------------------------------------------------------
(* Queries and selection.                                                  *)

\* What GetThreadList leaves in an empty list.
ThreadList == {alive} \cup (IF "list" \in Failures THEN {{}} ELSE {})

\* Mutant: the target is asked every time.
ProvideThreadInfoUncached ==
  /\ m_CachedThreadInfo' \in ThreadList
  /\ m_bThreadCacheValid' = TRUE

\* The cache after ProvideThreadInfo.  A failure is cached like an answer.
ProvideThreadInfo ==
  /\ m_CachedThreadInfo' \in IF m_bThreadCacheValid THEN {m_CachedThreadInfo} ELSE ThreadList
  /\ m_bThreadCacheValid' = TRUE

\* Handle_T, Handle_qfThreadInfo and Handle_qThreadExtraInfo answer from it.
QueryThreads ==
  /\ pc = "idle"
  /\ ProvideThreadInfo
  /\ UNCHANGED <<selection, m_LastReportedCurrentThreadID, pc, call, target, asked, selected>>

\* Mutant: the check of the thread is dropped.
SelectThreadUnchecked(isRegOp, id) ==
  /\ pc = "idle"
  /\ UNCHANGED cache
  /\ m_ThreadIDForReg' = IF isRegOp THEN id ELSE m_ThreadIDForReg
  /\ m_ThreadIDForCont' = IF isRegOp THEN m_ThreadIDForCont ELSE id
  /\ selected' = IF isRegOp THEN id ELSE selected
  /\ UNCHANGED <<m_LastReportedCurrentThreadID, pc, call, target, asked>>

\* Hg and Hc with a thread that Handle_T finds.
SelectThread(isRegOp, id) ==
  /\ pc = "idle"
  /\ ProvideThreadInfo
  /\ id \in m_CachedThreadInfo'
  /\ m_ThreadIDForReg' = IF isRegOp THEN id ELSE m_ThreadIDForReg
  /\ m_ThreadIDForCont' = IF isRegOp THEN m_ThreadIDForCont ELSE id
  /\ selected' = IF isRegOp THEN id ELSE selected
  /\ UNCHANGED <<m_LastReportedCurrentThreadID, pc, call, target, asked>>

\* Hg0, Hc0 and Hc-1: no thread in particular.
SelectAny(isRegOp) ==
  /\ pc = "idle"
  /\ m_ThreadIDForReg' = IF isRegOp THEN 0 ELSE m_ThreadIDForReg
  /\ m_ThreadIDForCont' = IF isRegOp THEN m_ThreadIDForCont ELSE 0
  /\ selected' = IF isRegOp THEN 0 ELSE selected
  /\ UNCHANGED <<m_LastReportedCurrentThreadID, cache, pc, call, target, asked>>

\* Handle_QueryStopReason, when GetLastStopRecord answers.
QueryStopReason ==
  /\ pc = "idle"
  /\ m_LastReportedCurrentThreadID' = stopThread
  /\ UNCHANGED <<selection, cache, pc, call, target, asked, selected>>

\* Mutant: the cache is emptied but the selection is kept.
ResetOnlyThreadList ==
  /\ m_bThreadCacheValid' = FALSE
  /\ UNCHANGED selection

\* Mutant: only the selection for registers is reset.
ResetAllButCont ==
  /\ m_ThreadIDForReg' = 0
  /\ m_bThreadCacheValid' = FALSE
  /\ UNCHANGED m_ThreadIDForCont

\* ResetAllCachesWhenResumingTarget.
ResetAllCaches ==
  /\ m_ThreadIDForCont' = 0
  /\ m_ThreadIDForReg' = 0
  /\ m_bThreadCacheValid' = FALSE

\* vCont?: the caches are reset although nothing is resumed.
ProbeVCont ==
  /\ Probes
  /\ pc = "idle"
  /\ ResetAllCaches
  /\ UNCHANGED <<m_LastReportedCurrentThreadID, m_CachedThreadInfo, pc, call, target, asked, selected>>

-----------------------------------------------------------------------------
(* Resuming.                                                               *)

\* Handle_c and Handle_s, up to ResumeAndWait or Step.
ResumeAll ==
  /\ pc = "idle"
  /\ ResetAllCaches
  /\ pc' = "running"
  /\ failed' = FALSE
  /\ asked' = AllRun
  /\ UNCHANGED <<m_LastReportedCurrentThreadID, m_CachedThreadInfo, todo, restoreQueue, target, selected>>

Named(req, t) == IF t \in DOMAIN req.named THEN req.named[t] ELSE "run"

\* Mutant: the letter t is taken for the wrong enumerator.
EffectiveModeRestores(req, t) ==
  LET asTold == IF Named(req, t) = "run" THEN req.default ELSE Named(req, t)
  IN  IF asTold = "suspend" THEN "restore" ELSE asTold

\* Mutant: the default wins.
EffectiveModeDefaultFirst(req, t) ==
  IF req.default = "run" THEN Named(req, t) ELSE req.default

\* What threadMap and the default make of a thread: dtmProbe is both 'continue'
\* and 'no action', so the default replaces it.
EffectiveMode(req, t) ==
  IF Named(req, t) = "run" THEN req.default ELSE Named(req, t)

\* Handle_vCont, up to the first SetThreadModeForNextCont: the list is read
\* before the target runs and stays marked as valid.
Handle_vCont(req) ==
  /\ pc = "idle"
  /\ m_ThreadIDForCont' = 0
  /\ m_ThreadIDForReg' = 0
  /\ m_CachedThreadInfo' \in ThreadList
  /\ m_bThreadCacheValid' = TRUE
  /\ todo' = LET threadMap == m_CachedThreadInfo' \cup DOMAIN req.named
             IN  [t \in {u \in threadMap : EffectiveMode(req, u) # "run"} |-> EffectiveMode(req, t)]
  /\ failed' = FALSE
  /\ pc' = "apply"
  /\ asked' = req
  /\ UNCHANGED <<m_LastReportedCurrentThreadID, restoreQueue, target, selected>>

\* The map is walked by increasing thread identifier.
NextThread == Min(DOMAIN todo)

ModeSet ==
  /\ pc = "apply"
  /\ DOMAIN todo # {}
  /\ NextThread \in alive
  /\ mode' = [mode EXCEPT ![NextThread] = todo[NextThread]]
  /\ IF todo[NextThread] \in SelfResetting
     THEN UNCHANGED <<owed, restoreQueue>>
     ELSE /\ owed' = owed \cup {NextThread}
          /\ restoreQueue' = Append(restoreQueue, NextThread)
  /\ todo' = [t \in DOMAIN todo \ {NextThread} |-> todo[t]]
  /\ UNCHANGED <<selection, m_LastReportedCurrentThreadID, cache, pc, failed, alive, stopThread, asked, selected>>

\* Mutant: an error is answered at once.
ModeFailedReturnsAtOnce ==
  /\ pc = "apply"
  /\ DOMAIN todo # {}
  /\ "mode" \in Failures \/ NextThread \notin alive
  /\ failed' = FALSE
  /\ todo' = <<>>
  /\ restoreQueue' = <<>>
  /\ pc' = "idle"
  /\ asked' = AllRun
  /\ UNCHANGED <<selection, m_LastReportedCurrentThreadID, cache, target, selected>>

\* The call fails; the modes set so far are restored, the target is not resumed.
ModeFailed ==
  /\ pc = "apply"
  /\ DOMAIN todo # {}
  /\ "mode" \in Failures \/ NextThread \notin alive
  /\ failed' = TRUE
  /\ todo' = <<>>
  /\ pc' = "restore"
  /\ UNCHANGED <<selection, m_LastReportedCurrentThreadID, cache, restoreQueue, target, asked, selected>>

Resume ==
  /\ pc = "apply"
  /\ DOMAIN todo = {}
  /\ pc' = "running"
  /\ UNCHANGED <<selection, m_LastReportedCurrentThreadID, cache, call, target, asked, selected>>

\* A debug event: threads have come and gone, one of those there is reported.
\* The target undoes the modes it did not ask to have restored.
TargetStops ==
  /\ pc = "running"
  /\ alive' \in SUBSET Threads \ {{}}
  /\ stopThread' \in alive'
  /\ mode' = [t \in Threads |-> IF t \in owed THEN mode[t] ELSE "run"]
  /\ pc' = "restore"
  /\ UNCHANGED <<selection, m_LastReportedCurrentThreadID, cache, call, owed, asked, selected>>

\* ResumeAndWait or Step fails, and nothing has run.
ResumeFails ==
  /\ pc = "running"
  /\ "resume" \in Failures
  /\ failed' = TRUE
  /\ pc' = "restore"
  /\ UNCHANGED <<selection, m_LastReportedCurrentThreadID, cache, todo, restoreQueue, target, asked, selected>>

\* One dtmRestore call.  What it returns is ignored; a target that fails it is
\* modelled in Win32Target.
RestoreMode ==
  /\ pc = "restore"
  /\ restoreQueue # <<>>
  /\ mode' = [mode EXCEPT ![Head(restoreQueue)] = "run"]
  /\ owed' = owed \ {Head(restoreQueue)}
  /\ restoreQueue' = Tail(restoreQueue)
  /\ UNCHANGED <<selection, m_LastReportedCurrentThreadID, cache, pc, todo, failed, alive, stopThread, asked, selected>>

\* The stop reply: the client takes the thread it names as the current one.
ReplyStopped ==
  /\ pc = "restore"
  /\ restoreQueue = <<>>
  /\ ~failed
  /\ m_LastReportedCurrentThreadID' = stopThread
  /\ pc' = "idle"
  /\ asked' = AllRun
  /\ selected' = 0
  /\ UNCHANGED <<selection, cache, call, target>>

\* An error, or no answer because GetLastStopRecord failed.
ReplyError ==
  /\ pc = "restore"
  /\ restoreQueue = <<>>
  /\ failed \/ "record" \in Failures
  /\ failed' = FALSE
  /\ pc' = "idle"
  /\ asked' = AllRun
  /\ UNCHANGED <<selection, m_LastReportedCurrentThreadID, cache, todo, restoreQueue, target, selected>>

-----------------------------------------------------------------------------
Queries ==
  \/ QueryThreads
  \/ QueryStopReason
  \/ ProbeVCont
  \/ \E isRegOp \in BOOLEAN : SelectAny(isRegOp)
  \/ \E isRegOp \in BOOLEAN, id \in Threads : SelectThread(isRegOp, id)

Next ==
  \/ Queries
  \/ ResumeAll
  \/ \E req \in VContRequests : Handle_vCont(req)
  \/ ModeSet \/ ModeFailed \/ Resume
  \/ TargetStops \/ ResumeFails
  \/ RestoreMode
  \/ ReplyStopped \/ ReplyError

Spec == Init /\ [][Next]_tcVars

-----------------------------------------------------------------------------
(* Properties.                                                             *)

TypeOK ==
  /\ m_ThreadIDForCont \in Threads \cup {0, Junk}
  /\ m_ThreadIDForReg \in Threads \cup {0, Junk}
  /\ m_LastReportedCurrentThreadID \in Threads \cup {0, Junk}
  /\ m_CachedThreadInfo \subseteq Threads
  /\ m_bThreadCacheValid \in BOOLEAN
  /\ pc \in {"idle", "apply", "running", "restore"}
  /\ DOMAIN todo \subseteq Threads
  /\ \A t \in DOMAIN todo : todo[t] \in Modes
  /\ restoreQueue \in Seq(Threads)
  /\ failed \in BOOLEAN
  /\ alive \subseteq Threads
  /\ mode \in [Threads -> Modes]
  /\ owed \subseteq Threads
  /\ stopThread \in alive
  /\ asked \in VContRequests \cup {AllRun}
  /\ selected \in Threads \cup {0, Unset}

\* For every mode the target asked to have restored the restoring call is made,
\* once, by the time the vCont that set it is answered: when a mode or the
\* resumption failed too, and when the thread has gone since.
ModesRestored ==
  /\ IsInjective(restoreQueue)
  /\ ToSet(restoreQueue) = owed
  /\ pc = "idle" => owed = {}

\* BasicGDBStub.h:76, "Sets step mode for each thread independently": when the
\* target runs, every thread is in the mode the client gave it in this packet:
\* the one it named the thread with, else the default.  Nothing is left armed
\* by an earlier packet.
RunsAsAsked ==
  pc = "running" =>
    \A t \in alive :
      mode[t] = IF t \in DOMAIN asked.named THEN asked.named[t] ELSE asked.default

\* BasicGDBStub.cpp:171, "If the thread does not exist, abort the command":
\* the thread selected for an operation is one the stopped target has.
SelectionAlive ==
  pc = "idle" /\ selected \in Threads => selected \in alive

\* The stub and the client agree which thread registers are read from: the one
\* the client selected, or the one the last stop reply named if it selected
\* none since.
SelectionHonoured ==
  pc = "idle" /\ selected # Unset => m_ThreadIDForReg = selected

\* BasicGDBStub.h:57, "Continue executing selected thread": after a stop that
\* was reported, and after every Hc, the thread that c and s would name to the
\* target exists, whatever was selected before the target ran.  (What was never
\* assigned may be any number.)
ContinuedThreadAlive ==
  [][(/\ pc # "idle" \/ m_ThreadIDForCont' # m_ThreadIDForCont
      /\ pc' = "idle" /\ m_LastReportedCurrentThreadID' = stopThread')
       => ThreadIDForOp(m_ThreadIDForCont)' \in alive']_tcVars
=============================================================================
