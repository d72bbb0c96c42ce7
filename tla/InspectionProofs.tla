---------------------------- MODULE InspectionProofs ----------------------------
(***************************************************************************)
(* Theorems about ThreadControl, for any set of threads, any vCont packets *)
(* and any choice of target calls that fail, and about Inspection, which   *)
(* adds any list of registers of any sizes, and any reports.               *)
(*                                                                         *)
(* ThreadControl.  The invariant: what is still to be set is never already *)
(* to be restored.  It makes the queue free of duplicates, which           *)
(* ModesRestored needs to survive a step of RestoreMode.  Three more       *)
(* properties hold for some clients and targets only, which each theorem   *)
(* names: the others are the ones the stub disappoints.  Each has an       *)
(* invariant of its own on top of the first one.                           *)
(*                                                                         *)
(* Inspection.  The client and the stub must mean the same thread, and the *)
(* same place of a register in a block.  The first is an invariant         *)
(* (AgreeInv): what was selected or listed does not outlive a stop, and    *)
(* what the client was told last is what the stub fell back to.  The       *)
(* second is a fact about Offset and FlattenSeq, which are recursive       *)
(* functions: that they satisfy their equations, and where a block has     *)
(* each register, is shown by induction over the number of registers.      *)
(*                                                                         *)
(* The induction is over a set and rests on the well-foundedness of the    *)
(* numbers, for the provers cannot instantiate a rule about a predicate.   *)
(***************************************************************************)
EXTENDS Inspection, TLAPS, SequenceTheorems, FiniteSetTheorems, WellFoundedInduction

SetOnce == DOMAIN todo \cap owed = {}

IInv ==
  /\ TypeOK
  /\ ModesRestored
  /\ SetOnce

-----------------------------------------------------------------------------
(* The walk over the map.                                                  *)

\* A non-empty set of thread identifiers has a least element.
LEMMA LeastThread ==
  ASSUME NEW S, S \subseteq Threads, S # {}
  PROVE  Min(S) \in S
PROOF
  <1> DEFINE less == OpToRel(<, Nat)
  <1>1. S \subseteq Nat
    BY ThreadControlAssumption DEF ThreadControlAssumption
  <1>2. PICK least \in S : \A s \in S : <<s, least>> \notin less
    <2>1. IsWellFoundedOn(less, Nat)
      BY NatLessThanWellFounded
    <2> HIDE DEF less
    <2> QED
      BY <1>1, <2>1, WFMin
  <1>3. less = {ss \in Nat \X Nat : ss[1] < ss[2]}
    BY Zenon DEF OpToRel
  <1>4. \A s \in S : least =< s
    <2> HIDE DEF less
    <2> SUFFICES ASSUME NEW s \in S PROVE least =< s
      OBVIOUS
    <2>1. s \in Nat /\ least \in Nat
      BY <1>1
    <2>2. <<s, least>> \notin {ss \in Nat \X Nat : ss[1] < ss[2]}
      BY <1>2, <1>3
    <2> QED
      BY <2>1, <2>2
  <1> QED
    BY <1>4 DEF Min

LEMMA NextThreadToDo ==
  ASSUME TypeOK, DOMAIN todo # {}
  PROVE  NextThread \in DOMAIN todo
  BY LeastThread DEF NextThread, TypeOK

-----------------------------------------------------------------------------
(* The queue.                                                              *)

\* Adding a thread that is not in it keeps the queue free of duplicates.
LEMMA AppendToQueue ==
  ASSUME NEW q \in Seq(Threads), NEW t \in Threads,
         IsInjective(q), t \notin ToSet(q)
  PROVE  /\ Append(q, t) \in Seq(Threads)
         /\ IsInjective(Append(q, t))
         /\ ToSet(Append(q, t)) = ToSet(q) \cup {t}
  BY DEF IsInjective, ToSet

\* The head of a queue without duplicates is not in its tail.
LEMMA TailOfQueue ==
  ASSUME NEW q \in Seq(Threads), q # <<>>, IsInjective(q)
  PROVE  /\ Head(q) \in Threads
         /\ Tail(q) \in Seq(Threads)
         /\ IsInjective(Tail(q))
         /\ ToSet(Tail(q)) = ToSet(q) \ {Head(q)}
PROOF
  <1>1. /\ Len(Tail(q)) = Len(q) - 1
        /\ \A i \in 1 .. Len(Tail(q)) : Tail(q)[i] = q[i + 1]
        /\ Head(q) = q[1]
        /\ Len(q) \in Nat \ {0}
    OBVIOUS
  <1>2. IsInjective(Tail(q))
    BY <1>1 DEF IsInjective
  <1>3. ToSet(Tail(q)) = {q[i] : i \in 2 .. Len(q)}
    <2>0. DOMAIN Tail(q) = 1 .. Len(Tail(q))
      OBVIOUS
    <2>1. \A i \in 1 .. Len(Tail(q)) : i + 1 \in 2 .. Len(q) /\ Tail(q)[i] = q[i + 1]
      BY <1>1
    <2>2. \A i \in 2 .. Len(q) : i - 1 \in 1 .. Len(Tail(q)) /\ Tail(q)[i - 1] = q[i]
      BY <1>1
    <2> QED
      BY <2>0, <2>1, <2>2, Zenon DEF ToSet
  <1>4. \A i \in 2 .. Len(q) : q[i] # q[1]
    BY <1>1 DEF IsInjective
  <1>5. ToSet(q) = {q[i] : i \in 2 .. Len(q)} \cup {q[1]}
    <2>1. 1 .. Len(q) = (2 .. Len(q)) \cup {1}
      BY <1>1
    <2> QED
      BY <2>1 DEF ToSet
  <1> QED
    BY <1>1, <1>2, <1>3, <1>4, <1>5

-----------------------------------------------------------------------------
(* The invariant.                                                          *)

LEMMA InvInit == Init => IInv
PROOF
  <1> SUFFICES ASSUME Init PROVE IInv
    OBVIOUS
  <1> USE DEF Init
  <1>1. failed \in BOOLEAN /\ m_bThreadCacheValid \in BOOLEAN
    OBVIOUS
  <1>2. mode \in [Threads -> Modes]
    BY DEF Modes
  <1>3. DOMAIN todo = {} /\ restoreQueue \in Seq(Threads)
    OBVIOUS
  <1>4. TypeOK
    BY <1>1, <1>2, <1>3 DEF TypeOK, Unset
  <1>5. ModesRestored
    BY DEF ModesRestored, IsInjective, ToSet
  <1> QED
    BY <1>3, <1>4, <1>5 DEF IInv, SetOnce

\* Queries and selections leave the modes and the queue alone.
LEMMA InvQueries ==
  ASSUME IInv, Queries
  PROVE  IInv'
PROOF
  <1> USE DEF IInv
  <1>1. UNCHANGED <<pc, call, target, asked>>
    BY DEF Queries, QueryThreads, QueryStopReason, ProbeVCont, SelectAny, SelectThread
  <1>2. m_bThreadCacheValid' \in BOOLEAN
    <2>1. CASE QueryThreads
      BY <2>1 DEF QueryThreads, ProvideThreadInfo
    <2>2. CASE QueryStopReason
      BY <2>2 DEF QueryStopReason, cache, TypeOK
    <2>3. CASE ProbeVCont
      BY <2>3 DEF ProbeVCont, ResetAllCaches
    <2>4. CASE \E isRegOp \in BOOLEAN : SelectAny(isRegOp)
      BY <2>4 DEF SelectAny, cache, TypeOK
    <2>5. CASE \E isRegOp \in BOOLEAN, id \in Threads : SelectThread(isRegOp, id)
      BY <2>5 DEF SelectThread, ProvideThreadInfo
    <2> QED
      BY <2>1, <2>2, <2>3, <2>4, <2>5 DEF Queries
  <1>3. /\ m_ThreadIDForCont' \in Threads \cup {0, Junk}
        /\ m_ThreadIDForReg' \in Threads \cup {0, Junk}
        /\ m_LastReportedCurrentThreadID' \in Threads \cup {0, Junk}
        /\ selected' \in Threads \cup {0, Unset}
        /\ m_CachedThreadInfo' \subseteq Threads
    <2> USE DEF TypeOK
    <2>1. CASE QueryThreads
      BY <2>1 DEF QueryThreads, ProvideThreadInfo, ThreadList, selection
    <2>2. CASE QueryStopReason
      BY <2>2 DEF QueryStopReason, cache, selection
    <2>3. CASE ProbeVCont
      BY <2>3 DEF ProbeVCont, ResetAllCaches
    <2>4. CASE \E isRegOp \in BOOLEAN : SelectAny(isRegOp)
      BY <2>4 DEF SelectAny, cache
    <2>5. CASE \E isRegOp \in BOOLEAN, id \in Threads : SelectThread(isRegOp, id)
      BY <2>5 DEF SelectThread, ProvideThreadInfo, ThreadList
    <2> QED
      BY <2>1, <2>2, <2>3, <2>4, <2>5 DEF Queries
  <1>4. TypeOK'
    BY <1>1, <1>2, <1>3 DEF TypeOK, call, target
  <1>5. ModesRestored' /\ SetOnce'
    BY <1>1 DEF ModesRestored, SetOnce, call, target
  <1> QED
    BY <1>4, <1>5

\* What every resuming step and every step of the target leaves alone.
LEMMA InvRest ==
  ASSUME IInv,
         UNCHANGED <<todo, restoreQueue, owed>>,
         m_ThreadIDForCont' \in Threads \cup {0, Junk},
         m_ThreadIDForReg' \in Threads \cup {0, Junk},
         m_LastReportedCurrentThreadID' \in Threads \cup {0, Junk},
         m_CachedThreadInfo' \subseteq Threads,
         m_bThreadCacheValid' \in BOOLEAN,
         pc' \in {"idle", "apply", "running", "restore"},
         pc' = "idle" => owed = {},
         failed' \in BOOLEAN,
         alive' \subseteq Threads, stopThread' \in alive',
         mode' \in [Threads -> Modes],
         asked' \in VContRequests \cup {AllRun},
         selected' \in Threads \cup {0, Unset}
  PROVE  IInv'
PROOF
  <1>1. TypeOK'
    BY DEF IInv, TypeOK
  <1>2. ModesRestored' /\ SetOnce'
    BY DEF IInv, ModesRestored, SetOnce
  <1> QED
    BY <1>1, <1>2 DEF IInv

\* Nothing is owed when a packet is taken up.
LEMMA InvVCont ==
  ASSUME IInv, NEW req \in VContRequests, Handle_vCont(req)
  PROVE  IInv'
PROOF
  <1> USE DEF IInv
  <1>1. DOMAIN todo' \subseteq Threads /\ \A t \in DOMAIN todo' : todo'[t] \in Modes
    <2> DEFINE threadMap == m_CachedThreadInfo' \cup DOMAIN req.named
    <2> DEFINE acted == {u \in threadMap : EffectiveMode(req, u) # "run"}
    <2>1. m_CachedThreadInfo' \subseteq Threads
      BY DEF Handle_vCont, ThreadList, TypeOK
    <2>2. acted \subseteq Threads
      BY <2>1, ThreadControlAssumption DEF ThreadControlAssumption
    <2>3. \A t \in Threads : EffectiveMode(req, t) \in Modes
      BY ThreadControlAssumption DEF ThreadControlAssumption, EffectiveMode, Named
    <2>4. todo' = [t \in acted |-> EffectiveMode(req, t)]
      BY DEF Handle_vCont
    <2> HIDE DEF acted
    <2> QED
      BY <2>2, <2>3, <2>4
  <1>2. m_bThreadCacheValid' \in BOOLEAN /\ failed' \in BOOLEAN
    BY DEF Handle_vCont
  <1>3. TypeOK'
    BY <1>1, <1>2 DEF TypeOK, Handle_vCont, ThreadList, target
  <1>4. owed = {} /\ UNCHANGED <<owed, restoreQueue>> /\ pc' = "apply"
    BY DEF Handle_vCont, ModesRestored, target
  <1>5. ModesRestored' /\ SetOnce'
    BY <1>4 DEF ModesRestored, SetOnce
  <1> QED
    BY <1>3, <1>5

\* A thread is set once: it is not owed yet and no longer to be set afterwards.
LEMMA InvModeSet ==
  ASSUME IInv, ModeSet
  PROVE  IInv'
PROOF
  <1> USE DEF IInv
  <1>1. NextThread \in DOMAIN todo
    BY NextThreadToDo DEF ModeSet
  <1>2. NextThread \in Threads /\ todo[NextThread] \in Modes /\ NextThread \notin owed
    BY <1>1 DEF TypeOK, SetOnce
  <1> DEFINE t == NextThread
  <1>3. /\ DOMAIN todo' = DOMAIN todo \ {t}
        /\ \A u \in DOMAIN todo' : todo'[u] = todo[u]
    BY DEF ModeSet
  <1>4. mode' \in [Threads -> Modes]
    BY <1>2 DEF ModeSet, TypeOK
  <1>5. pc' = "apply" /\ pc = "apply"
    BY DEF ModeSet
  <1>6. /\ restoreQueue' \in Seq(Threads)
        /\ IsInjective(restoreQueue')
        /\ ToSet(restoreQueue') = owed'
        /\ owed' \subseteq owed \cup {t}
    <2>1. CASE todo[t] \in SelfResetting
      BY <2>1 DEF ModeSet, TypeOK, ModesRestored
    <2>2. CASE todo[t] \notin SelfResetting
      <3>1. owed' = owed \cup {t} /\ restoreQueue' = Append(restoreQueue, t)
        BY <2>2 DEF ModeSet
      <3>2. restoreQueue \in Seq(Threads) /\ IsInjective(restoreQueue) /\ ToSet(restoreQueue) = owed
        BY DEF TypeOK, ModesRestored
      <3> HIDE DEF t
      <3> QED
        BY <3>1, <3>2, <1>2, AppendToQueue DEF t
    <2> QED
      BY <2>1, <2>2
  <1>7. UNCHANGED <<selection, m_LastReportedCurrentThreadID, cache, failed, alive, stopThread, asked, selected>>
    BY DEF ModeSet
  <1> HIDE DEF t
  <1>8. TypeOK'
    <2>1. DOMAIN todo' \subseteq Threads /\ \A u \in DOMAIN todo' : todo'[u] \in Modes
      BY <1>3 DEF TypeOK
    <2>2. owed' \subseteq Threads
      BY <1>2, <1>6 DEF TypeOK, t
    <2> QED
      BY <2>1, <2>2, <1>4, <1>5, <1>6, <1>7 DEF TypeOK, selection, cache
  <1>9. ModesRestored' /\ SetOnce'
    BY <1>3, <1>5, <1>6 DEF ModesRestored, SetOnce
  <1> QED
    BY <1>8, <1>9

LEMMA InvRestoreMode ==
  ASSUME IInv, RestoreMode
  PROVE  IInv'
PROOF
  <1> USE DEF IInv
  <1> DEFINE t == Head(restoreQueue)
  <1>1. /\ t \in Threads
        /\ restoreQueue' \in Seq(Threads)
        /\ IsInjective(restoreQueue')
        /\ ToSet(restoreQueue') = ToSet(restoreQueue) \ {t}
    BY TailOfQueue DEF RestoreMode, TypeOK, ModesRestored
  <1>2. owed' = owed \ {t} /\ pc' = "restore"
    BY DEF RestoreMode
  <1>3. mode' \in [Threads -> Modes]
    BY <1>1 DEF RestoreMode, TypeOK, Modes
  <1>4. UNCHANGED <<selection, m_LastReportedCurrentThreadID, cache, todo, failed, alive, stopThread, asked, selected>>
    BY DEF RestoreMode
  <1> HIDE DEF t
  <1>5. TypeOK'
    BY <1>1, <1>2, <1>3, <1>4 DEF TypeOK, selection, cache
  <1>6. ModesRestored' /\ SetOnce'
    BY <1>1, <1>2, <1>4 DEF ModesRestored, SetOnce
  <1> QED
    BY <1>5, <1>6

LEMMA InvStep == IInv /\ [Next]_tcVars => IInv'
PROOF
  <1> SUFFICES ASSUME IInv, [Next]_tcVars PROVE IInv'
    OBVIOUS
  <1>1. CASE Queries
    BY <1>1, InvQueries
  <1>2. CASE ResumeAll
    <2>1. m_bThreadCacheValid' \in BOOLEAN /\ failed' \in BOOLEAN
      BY <1>2 DEF ResumeAll, ResetAllCaches
    <2> QED
      BY <1>2, <2>1, InvRest DEF ResumeAll, ResetAllCaches, target, IInv, TypeOK
  <1>3. CASE \E req \in VContRequests : Handle_vCont(req)
    BY <1>3, InvVCont
  <1>4. CASE ModeSet
    BY <1>4, InvModeSet
  <1>5. CASE ModeFailed
    <2>1. failed' \in BOOLEAN
      BY <1>5 DEF ModeFailed
    <2>2. DOMAIN todo' = {} /\ pc' = "restore"
      BY <1>5 DEF ModeFailed
    <2>3. TypeOK'
      BY <1>5, <2>1, <2>2 DEF ModeFailed, IInv, TypeOK, selection, cache, target
    <2>4. ModesRestored' /\ SetOnce'
      BY <1>5, <2>2 DEF ModeFailed, IInv, ModesRestored, SetOnce, target
    <2> QED
      BY <2>3, <2>4 DEF IInv
  <1>6. CASE Resume
    BY <1>6, InvRest DEF Resume, selection, cache, call, target, IInv, TypeOK
  <1>7. CASE TargetStops
    <2>1. mode' \in [Threads -> Modes]
      BY <1>7 DEF TargetStops, IInv, TypeOK, Modes
    <2> QED
      BY <1>7, <2>1, InvRest DEF TargetStops, selection, cache, call, IInv, TypeOK
  <1>8. CASE ResumeFails
    <2>1. failed' \in BOOLEAN
      BY <1>8 DEF ResumeFails
    <2> QED
      BY <1>8, <2>1, InvRest DEF ResumeFails, selection, cache, target, IInv, TypeOK
  <1>9. CASE RestoreMode
    BY <1>9, InvRestoreMode
  <1>10. CASE ReplyStopped
    <2>1. owed = {}
      BY <1>10 DEF ReplyStopped, IInv, ModesRestored, ToSet
    <2> QED
      BY <1>10, <2>1, InvRest DEF ReplyStopped, selection, cache, call, target, IInv, TypeOK
  <1>11. CASE ReplyError
    <2>1. owed = {}
      BY <1>11 DEF ReplyError, IInv, ModesRestored, ToSet
    <2>2. failed' \in BOOLEAN
      BY <1>11 DEF ReplyError
    <2> QED
      BY <1>11, <2>1, <2>2, InvRest DEF ReplyError, selection, cache, target, IInv, TypeOK
  <1>12. CASE UNCHANGED tcVars
    BY <1>12, InvRest DEF tcVars, selection, cache, call, target, IInv, TypeOK, ModesRestored
  <1> QED
    BY <1>1, <1>2, <1>3, <1>4, <1>5, <1>6, <1>7, <1>8, <1>9, <1>10, <1>11, <1>12 DEF Next

\* The invariant holds in every reachable state.
THEOREM Inductive == Spec => []IInv
PROOF
  <1> QED
    BY InvInit, InvStep, PTL DEF Spec

\* Every variable keeps its type, whatever the client asks and the target does.
THEOREM TypeCorrect == Spec => []TypeOK
PROOF
  <1>1. IInv => TypeOK
    BY DEF IInv
  <1> QED
    BY <1>1, Inductive, PTL

\* Handle_vCont: each mode the target asked to have restored is restored exactly
\* once before the packet is answered, whichever call fails.
THEOREM EveryModeRestored == Spec => []ModesRestored
PROOF
  <1>1. IInv => ModesRestored
    BY DEF IInv
  <1> QED
    BY <1>1, Inductive, PTL

-----------------------------------------------------------------------------
(* The modes the threads run in.                                           *)

\* The packets in which a thread is told to continue by name only if the others
\* continue by default.
GdbForm ==
  \A req \in VContRequests :
    req.default = "run" \/ \A t \in DOMAIN req.named : req.named[t] # "run"

\* The mode the packet being served gave a thread.
AskedMode(t) == IF t \in DOMAIN asked.named THEN asked.named[t] ELSE asked.default

\* A thread is in a mode other than "run" only while the target is owed its
\* restoration.
OnlyOwedArmed == \A t \in Threads \ owed : mode[t] = "run"

\* While the modes are applied, each thread has its mode, will get it, or needs
\* none.
ApplyInv ==
  pc = "apply" =>
    \A t \in alive :
      /\ t \in DOMAIN todo => todo[t] = AskedMode(t)
      /\ t \in owed => mode[t] = AskedMode(t)
      /\ t \notin DOMAIN todo \cup owed => AskedMode(t) = "run"

RunInv == OnlyOwedArmed /\ ApplyInv /\ RunsAsAsked

\* The mode worked out for a thread is the one the client gave it: the default
\* replaces "run" only where it is itself "run".
LEMMA EffectiveIsAsked ==
  ASSUME GdbForm, NEW req \in VContRequests, NEW t
  PROVE  EffectiveMode(req, t) = IF t \in DOMAIN req.named THEN req.named[t] ELSE req.default
  BY DEF GdbForm, EffectiveMode, Named

\* Every living thread is in the list, so every one is considered.
LEMMA RunVCont ==
  ASSUME GdbForm, "list" \notin Failures, IInv, RunInv,
         NEW req \in VContRequests, Handle_vCont(req)
  PROVE  RunInv'
PROOF
  <1>1. owed = {} /\ UNCHANGED <<mode, owed, alive>> /\ pc' = "apply" /\ asked' = req
    BY DEF Handle_vCont, IInv, ModesRestored, target
  <1>2. m_CachedThreadInfo' = alive
    BY DEF Handle_vCont, ThreadList
  <1> DEFINE threadMap == m_CachedThreadInfo' \cup DOMAIN req.named
  <1> DEFINE acted == {u \in threadMap : EffectiveMode(req, u) # "run"}
  <1>3. todo' = [t \in acted |-> EffectiveMode(req, t)]
    BY DEF Handle_vCont
  <1>4. \A t \in alive : t \notin acted => EffectiveMode(req, t) = "run"
    BY <1>2
  <1> HIDE DEF acted
  <1>5. \A t : AskedMode(t)' = EffectiveMode(req, t)
    BY <1>1, EffectiveIsAsked DEF AskedMode
  <1>6. ApplyInv'
    BY <1>1, <1>3, <1>4, <1>5 DEF ApplyInv
  <1>7. OnlyOwedArmed' /\ RunsAsAsked'
    BY <1>1 DEF RunInv, OnlyOwedArmed, RunsAsAsked
  <1> QED
    BY <1>6, <1>7 DEF RunInv

\* The thread that is set next gets the mode it was given and is owed it.
LEMMA RunModeSet ==
  ASSUME SelfResetting = {}, IInv, RunInv, ModeSet
  PROVE  RunInv'
PROOF
  <1> DEFINE t == NextThread
  <1>1. t \in DOMAIN todo /\ t \in Threads /\ t \in alive
    BY NextThreadToDo DEF ModeSet, IInv, TypeOK
  <1>2. /\ mode' = [mode EXCEPT ![t] = todo[t]]
        /\ owed' = owed \cup {t}
        /\ todo' = [u \in DOMAIN todo \ {t} |-> todo[u]]
        /\ pc = "apply" /\ pc' = "apply" /\ UNCHANGED <<alive, asked>>
    BY DEF ModeSet
  <1>3. mode \in [Threads -> Modes] /\ alive \subseteq Threads
    BY DEF IInv, TypeOK
  <1> HIDE DEF t
  <1>4. OnlyOwedArmed'
    BY <1>1, <1>2, <1>3 DEF RunInv, OnlyOwedArmed
  <1>5. ASSUME NEW u \in alive
        PROVE  /\ u \in DOMAIN todo' => todo'[u] = AskedMode(u)
               /\ u \in owed' => mode'[u] = AskedMode(u)
               /\ u \notin DOMAIN todo' \cup owed' => AskedMode(u) = "run"
    <2>1. DOMAIN todo' = DOMAIN todo \ {t} /\ \A v \in DOMAIN todo' : todo'[v] = todo[v]
      BY <1>2
    <2>2. mode'[u] = IF u = t THEN todo[t] ELSE mode[u]
      BY <1>2, <1>3
    <2> QED
      BY <1>1, <1>2, <2>1, <2>2 DEF RunInv, ApplyInv
  <1>6. ApplyInv'
    BY <1>2, <1>5 DEF ApplyInv, AskedMode
  <1> QED
    BY <1>2, <1>4, <1>6 DEF RunInv, RunsAsAsked

LEMMA RunStep ==
  ASSUME SelfResetting = {}, "list" \notin Failures, GdbForm,
         IInv, RunInv, [Next]_tcVars
  PROVE  RunInv'
PROOF
  <1> USE DEF RunInv
  <1>1. CASE Queries \/ UNCHANGED tcVars
    <2>1. UNCHANGED <<pc, todo, owed, mode, alive, asked>>
      BY <1>1
      DEF Queries, QueryThreads, QueryStopReason, ProbeVCont, SelectAny, SelectThread,
          call, target, tcVars
    <2> QED
      BY <2>1 DEF OnlyOwedArmed, ApplyInv, RunsAsAsked, AskedMode
  <1>2. CASE ResumeAll
    <2>1. owed = {} /\ UNCHANGED <<mode, owed, alive>> /\ pc' = "running" /\ asked' = AllRun
      BY <1>2 DEF ResumeAll, target, IInv, ModesRestored
    <2>2. \A t \in alive : mode[t] = "run"
      BY <2>1 DEF OnlyOwedArmed, IInv, TypeOK
    <2> QED
      BY <2>1, <2>2 DEF OnlyOwedArmed, ApplyInv, RunsAsAsked, AllRun
  <1>3. CASE \E req \in VContRequests : Handle_vCont(req)
    BY <1>3, RunVCont
  <1>4. CASE ModeSet
    BY <1>4, RunModeSet
  <1>5. CASE ModeFailed \/ ResumeFails
    BY <1>5 DEF ModeFailed, ResumeFails, target, OnlyOwedArmed, ApplyInv, RunsAsAsked
  <1>6. CASE Resume
    <2>1. UNCHANGED <<mode, owed, alive, asked>> /\ pc' = "running" /\ DOMAIN todo = {}
      BY <1>6 DEF Resume, target, call
    <2>2. \A t \in alive : mode[t] = AskedMode(t)
      BY <1>6, <2>1 DEF Resume, ApplyInv, OnlyOwedArmed, IInv, TypeOK
    <2> QED
      BY <2>1, <2>2 DEF OnlyOwedArmed, ApplyInv, RunsAsAsked, AskedMode
  <1>7. CASE TargetStops
    BY <1>7 DEF TargetStops, OnlyOwedArmed, ApplyInv, RunsAsAsked
  <1>8. CASE RestoreMode
    <2>1. Head(restoreQueue) \in Threads /\ mode \in [Threads -> Modes]
      BY <1>8, TailOfQueue DEF RestoreMode, IInv, TypeOK, ModesRestored
    <2> QED
      BY <1>8, <2>1 DEF RestoreMode, OnlyOwedArmed, ApplyInv, RunsAsAsked
  <1>9. CASE ReplyStopped \/ ReplyError
    BY <1>9 DEF ReplyStopped, ReplyError, target, OnlyOwedArmed, ApplyInv, RunsAsAsked
  <1> QED
    BY <1>1, <1>2, <1>3, <1>4, <1>5, <1>6, <1>7, <1>8, <1>9 DEF Next

\* Handle_vCont: whichever calls fail and whatever was set before, every thread
\* runs in the mode the packet gives it, if the target can list its threads and
\* has each mode restored, and if the client sends what gdb sends.  A mode that
\* needs no restoration stays armed when a later call fails, and the default
\* replaces a "c" given to one thread (BasicGDBStub.h:76).
THEOREM ThreadsRunAsAsked ==
  ASSUME SelfResetting = {}, "list" \notin Failures, GdbForm
  PROVE  Spec => []RunsAsAsked
PROOF
  <1>1. Init => RunInv
    <2> SUFFICES ASSUME Init PROVE RunInv
      OBVIOUS
    <2> QED
      BY DEF Init, RunInv, OnlyOwedArmed, ApplyInv, RunsAsAsked
  <1>2. IInv /\ RunInv /\ [Next]_tcVars => RunInv'
    BY RunStep
  <1>3. RunInv => RunsAsAsked
    BY DEF RunInv
  <1> QED
    BY <1>1, <1>2, <1>3, InvInit, InvStep, PTL DEF Spec

-----------------------------------------------------------------------------
(* The selected thread.                                                    *)

\* What resuming resets stays reset until the packet is answered; without vCont
\* the thread list is read while the target is stopped and not kept.
ResetInv ==
  /\ pc # "apply"
  /\ pc # "idle" => m_ThreadIDForCont = 0 /\ m_ThreadIDForReg = 0
  /\ m_bThreadCacheValid => pc = "idle" /\ m_CachedThreadInfo \subseteq alive

LEMMA ResetInit == Init => ResetInv
  BY DEF Init, ResetInv

LEMMA ResetStep ==
  ASSUME VContRequests = {}, ResetInv, [Next]_tcVars
  PROVE  ResetInv'
PROOF
  <1> USE DEF ResetInv
  <1>1. CASE QueryThreads
    BY <1>1 DEF QueryThreads, ProvideThreadInfo, ThreadList, target
  <1>2. CASE QueryStopReason
    BY <1>2 DEF QueryStopReason, cache, target
  <1>3. CASE ProbeVCont
    BY <1>3 DEF ProbeVCont, ResetAllCaches
  <1>4. CASE \E isRegOp \in BOOLEAN : SelectAny(isRegOp)
    BY <1>4 DEF SelectAny, cache, target
  <1>5. CASE \E isRegOp \in BOOLEAN, id \in Threads : SelectThread(isRegOp, id)
    BY <1>5 DEF SelectThread, ProvideThreadInfo, ThreadList, target
  <1>6. CASE ResumeAll
    BY <1>6 DEF ResumeAll, ResetAllCaches
  <1>7. CASE TargetStops \/ ResumeFails \/ RestoreMode \/ ReplyStopped \/ ReplyError
    BY <1>7 DEF TargetStops, ResumeFails, RestoreMode, ReplyStopped, ReplyError, selection, cache
  <1>8. CASE ModeSet \/ ModeFailed \/ Resume
    BY <1>8 DEF ModeSet, ModeFailed, Resume
  <1>9. CASE UNCHANGED tcVars
    BY <1>9 DEF tcVars, selection, cache, target
  <1> QED
    BY <1>1, <1>2, <1>3, <1>4, <1>5, <1>6, <1>7, <1>8, <1>9 DEF Next, Queries

\* Only a resumption that fails is answered with an error.
FailedInv == failed => pc = "restore" /\ "resume" \in Failures

LEMMA FailedStep ==
  ASSUME VContRequests = {}, ResetInv, FailedInv, [Next]_tcVars
  PROVE  FailedInv'
PROOF
  <1> USE DEF FailedInv
  <1>1. CASE Queries
    BY <1>1 DEF Queries, QueryThreads, QueryStopReason, ProbeVCont, SelectAny, SelectThread, call
  <1>2. CASE ResumeAll \/ ResumeFails \/ ReplyError
    BY <1>2 DEF ResumeAll, ResumeFails, ReplyError
  <1>3. CASE TargetStops \/ RestoreMode \/ ReplyStopped
    BY <1>3 DEF TargetStops, RestoreMode, ReplyStopped, call
  <1>4. CASE ModeSet \/ ModeFailed \/ Resume
    BY <1>4 DEF ModeSet, ModeFailed, Resume, ResetInv
  <1>5. CASE UNCHANGED tcVars
    BY <1>5 DEF tcVars, call
  <1> QED
    BY <1>1, <1>2, <1>3, <1>4, <1>5 DEF Next

\* The thread the client selected is there until the target has run.
SelectedInv ==
  (pc \in {"idle", "running"} \/ failed) => (selected \in Threads => selected \in alive)

LEMMA SelectedStep ==
  ASSUME VContRequests = {}, "record" \notin Failures,
         ResetInv, FailedInv, SelectedInv, [Next]_tcVars
  PROVE  SelectedInv'
PROOF
  <1> USE DEF SelectedInv
  <1>1. CASE QueryThreads \/ QueryStopReason \/ ProbeVCont
    BY <1>1 DEF QueryThreads, QueryStopReason, ProbeVCont, call, target
  <1>2. CASE \E isRegOp \in BOOLEAN : SelectAny(isRegOp)
    <2>1. 0 \notin Threads
      BY ThreadControlAssumption DEF ThreadControlAssumption
    <2> QED
      BY <1>2, <2>1 DEF SelectAny, call, target
  <1>3. CASE \E isRegOp \in BOOLEAN, id \in Threads : SelectThread(isRegOp, id)
    BY <1>3 DEF SelectThread, ProvideThreadInfo, ThreadList, call, target, ResetInv
  <1>4. CASE ResumeAll \/ ResumeFails \/ RestoreMode
    BY <1>4 DEF ResumeAll, ResumeFails, RestoreMode, target
  <1>5. CASE TargetStops
    BY <1>5 DEF TargetStops, call, FailedInv
  <1>6. CASE ReplyStopped
    <2>1. 0 \notin Threads
      BY ThreadControlAssumption DEF ThreadControlAssumption
    <2> QED
      BY <1>6, <2>1 DEF ReplyStopped
  <1>7. CASE ReplyError
    BY <1>7 DEF ReplyError, target
  <1>8. CASE ModeSet \/ ModeFailed \/ Resume
    BY <1>8 DEF ModeSet, ModeFailed, Resume, ResetInv
  <1>9. CASE UNCHANGED tcVars
    BY <1>9 DEF tcVars, call, target
  <1> QED
    BY <1>1, <1>2, <1>3, <1>4, <1>5, <1>6, <1>7, <1>8, <1>9 DEF Next, Queries

\* H selects only threads that the stopped target has, and a stop that is
\* reported ends the selection, if the client does without vCont, behind which
\* the list of threads is stale, and if each stop can be reported
\* (BasicGDBStub.cpp:171).
THEOREM SelectedThreadAlive ==
  ASSUME VContRequests = {}, "record" \notin Failures
  PROVE  Spec => []SelectionAlive
PROOF
  <1>1. Init => FailedInv /\ SelectedInv
    <2>1. Unset \notin Threads
      BY ThreadControlAssumption DEF ThreadControlAssumption, Unset
    <2> QED
      BY <2>1 DEF Init, FailedInv, SelectedInv
  <1>2. ResetInv /\ [Next]_tcVars => ResetInv'
    BY ResetStep
  <1>3. ResetInv /\ FailedInv /\ [Next]_tcVars => FailedInv'
    BY FailedStep
  <1>4. ResetInv /\ FailedInv /\ SelectedInv /\ [Next]_tcVars => SelectedInv'
    BY SelectedStep
  <1>5. SelectedInv => SelectionAlive
    BY DEF SelectedInv, SelectionAlive
  <1> QED
    BY ResetInit, <1>1, <1>2, <1>3, <1>4, <1>5, PTL DEF Spec

\* The stub reads registers from the thread the client selected, until the next
\* stop, if every resumption succeeds and is reported and the client neither
\* uses vCont nor asks for it, which resets the selection
\* (BasicGDBStub.cpp:163-192, GDBStub.cpp:458-462).
THEOREM StubHonoursSelection ==
  ASSUME VContRequests = {}, ~Probes, Failures \cap {"resume", "record"} = {}
  PROVE  Spec => []SelectionHonoured
PROOF
  <1>1. Init => FailedInv /\ SelectionHonoured
    BY DEF Init, FailedInv, SelectionHonoured
  <1>2. ResetInv /\ [Next]_tcVars => ResetInv'
    BY ResetStep
  <1>3. ResetInv /\ FailedInv /\ [Next]_tcVars => FailedInv'
    BY FailedStep
  <1>4. ASSUME ResetInv, FailedInv, SelectionHonoured, [Next]_tcVars
        PROVE  SelectionHonoured'
    <2> USE <1>4 DEF SelectionHonoured
    <2>1. CASE QueryThreads \/ QueryStopReason \/ ProbeVCont
      BY <2>1 DEF QueryThreads, QueryStopReason, ProbeVCont, selection
    <2>2. CASE \E isRegOp \in BOOLEAN : SelectAny(isRegOp)
      BY <2>2 DEF SelectAny
    <2>3. CASE \E isRegOp \in BOOLEAN, id \in Threads : SelectThread(isRegOp, id)
      BY <2>3 DEF SelectThread
    <2>4. CASE ResumeAll \/ TargetStops \/ ResumeFails \/ RestoreMode
      BY <2>4 DEF ResumeAll, TargetStops, ResumeFails, RestoreMode
    <2>5. CASE ReplyStopped
      BY <2>5 DEF ReplyStopped, ResetInv, selection
    <2>6. CASE ReplyError
      BY <2>6 DEF ReplyError, FailedInv
    <2>7. CASE ModeSet \/ ModeFailed \/ Resume
      BY <2>7 DEF ModeSet, ModeFailed, Resume, ResetInv
    <2>8. CASE UNCHANGED tcVars
      BY <2>8 DEF tcVars, selection
    <2> QED
      BY <2>1, <2>2, <2>3, <2>4, <2>5, <2>6, <2>7, <2>8 DEF Next, Queries
  <1> QED
    BY ResetInit, <1>1, <1>2, <1>3, <1>4, PTL DEF Spec

\* After a stop that was reported and after every H, the thread that c and s
\* would name exists, whichever calls fail, if the client does without vCont
\* (BasicGDBStub.cpp:163-192, BasicGDBStub.cpp:239-245).
THEOREM ContinuesLivingThread ==
  ASSUME VContRequests = {}
  PROVE  Spec => ContinuedThreadAlive
PROOF
  <1> DEFINE answered ==
        /\ pc # "idle" \/ m_ThreadIDForCont' # m_ThreadIDForCont
        /\ pc' = "idle" /\ m_LastReportedCurrentThreadID' = stopThread'
  <1>1. ResetInv /\ [Next]_tcVars => ResetInv'
    BY ResetStep
  <1>2. ASSUME IInv, ResetInv, [Next]_tcVars, answered
        PROVE  ThreadIDForOp(m_ThreadIDForCont)' \in alive'
    <2> USE <1>2 DEF ThreadIDForOp
    <2>1. stopThread' \in alive'
      BY InvStep DEF IInv, TypeOK
    <2>2. m_ThreadIDForCont' = 0 => ThreadIDForOp(m_ThreadIDForCont)' \in alive'
      BY <2>1
    <2>3. CASE pc = "idle"
      <3>1. m_ThreadIDForCont' # m_ThreadIDForCont
        BY <2>3
      <3>2. CASE QueryThreads \/ QueryStopReason \/ UNCHANGED tcVars
        BY <3>1, <3>2 DEF QueryThreads, QueryStopReason, tcVars, selection
      <3>3. CASE ProbeVCont
        BY <2>2, <3>3 DEF ProbeVCont, ResetAllCaches
      <3>4. CASE \E isRegOp \in BOOLEAN : SelectAny(isRegOp)
        BY <2>2, <3>1, <3>4 DEF SelectAny
      <3>5. CASE \E isRegOp \in BOOLEAN, id \in Threads : SelectThread(isRegOp, id)
        BY <2>2, <3>1, <3>5 DEF SelectThread, ProvideThreadInfo, ThreadList, target, ResetInv
      <3> QED
        BY <2>3, <3>2, <3>3, <3>4, <3>5
        DEF Next, Queries, ResumeAll, ModeSet, ModeFailed, Resume, TargetStops, ResumeFails,
            RestoreMode, ReplyStopped, ReplyError
    <2>4. CASE pc # "idle"
      <3>1. m_ThreadIDForCont = 0
        BY <2>4 DEF ResetInv
      <3>2. ReplyStopped \/ ReplyError
        BY <2>4
        DEF Next, Queries, QueryThreads, QueryStopReason, ProbeVCont, SelectAny, SelectThread,
            ResumeAll, ModeSet, ModeFailed, Resume, TargetStops, ResumeFails, RestoreMode, tcVars
      <3> QED
        BY <2>2, <3>1, <3>2 DEF ReplyStopped, ReplyError, selection
    <2> QED
      BY <2>3, <2>4
  <1>3. IInv /\ ResetInv /\ [Next]_tcVars =>
          [answered => ThreadIDForOp(m_ThreadIDForCont)' \in alive']_tcVars
    BY <1>2
  <1> QED
    BY ResetInit, InvInit, InvStep, <1>1, <1>3, PTL DEF Spec, ContinuedThreadAlive

-----------------------------------------------------------------------------
(* Recursive functions.                                                    *)

\* Induction over the numbers: the least of those that are missing would have
\* a predecessor that is not.
LEMMA InductionOverNat ==
  ASSUME NEW S, 0 \in S, \A n \in Nat : n \in S => n + 1 \in S
  PROVE  Nat \subseteq S
PROOF
  <1> DEFINE less == OpToRel(<, Nat)
             rest == Nat \ S
  <1>1. SUFFICES ASSUME rest # {} PROVE FALSE
    OBVIOUS
  <1>2. PICK least \in rest : \A n \in rest : <<n, least>> \notin less
    <2>1. IsWellFoundedOn(less, Nat)
      BY NatLessThanWellFounded
    <2>2. rest \subseteq Nat
      OBVIOUS
    <2> HIDE DEF less, rest
    <2> QED
      BY <1>1, <2>1, <2>2, WFMin
  <1>3. less = {ss \in Nat \X Nat : ss[1] < ss[2]}
    BY Zenon DEF OpToRel
  <1>4. least \in Nat /\ least # 0 /\ least \notin S
    OBVIOUS
  <1>5. least - 1 \in Nat /\ least - 1 \notin S
    BY <1>4
  <1>6. <<least - 1, least>> \in {ss \in Nat \X Nat : ss[1] < ss[2]}
    BY <1>4, <1>5
  <1>7. least - 1 \in rest
    BY <1>5
  <1> QED
    BY <1>2, <1>3, <1>6, <1>7

\* There is a function for which the equation of Offset holds, so Offset is one.
LEMMA OffsetExists ==
  \A n \in Nat : \E f : f = [i \in 1 .. n + 1 |-> IF i = 1 THEN 0 ELSE f[i - 1] + RegisterList[i - 1].bytes]
PROOF
  <1> DEFINE S == {n \in Nat : \E f :
                     f = [i \in 1 .. n + 1 |->
                            IF i = 1 THEN 0 ELSE f[i - 1] + RegisterList[i - 1].bytes]}
  <1>1. 0 \in S
    <2> DEFINE f == [i \in 1 .. 1 |-> 0]
    <2>1. f = [i \in 1 .. 0 + 1 |-> IF i = 1 THEN 0 ELSE f[i - 1] + RegisterList[i - 1].bytes]
      OBVIOUS
    <2> HIDE DEF f
    <2> QED
      BY <2>1
  <1>2. ASSUME NEW n \in Nat, n \in S PROVE n + 1 \in S
    <2>1. PICK f : f = [i \in 1 .. n + 1 |-> IF i = 1 THEN 0 ELSE f[i - 1] + RegisterList[i - 1].bytes]
      BY <1>2
    <2> DEFINE g == [i \in 1 .. n + 2 |-> IF i = n + 2 THEN f[n + 1] + RegisterList[n + 1].bytes ELSE f[i]]
    <2>2. g = [i \in 1 .. n + 2 |-> IF i = 1 THEN 0 ELSE g[i - 1] + RegisterList[i - 1].bytes]
      <3>1. \A i \in 1 .. n + 2 : g[i] = IF i = 1 THEN 0 ELSE g[i - 1] + RegisterList[i - 1].bytes
        BY <2>1
      <3> QED
        BY <3>1
    <2> HIDE DEF g
    <2>3. n + 2 = (n + 1) + 1 /\ n + 1 \in Nat
      OBVIOUS
    <2> QED
      BY <2>2, <2>3
  <1> HIDE DEF S
  <1>3. Nat \subseteq S
    BY <1>1, <1>2, InductionOverNat
  <1> QED
    BY <1>3 DEF S

\* The equation of Offset.
LEMMA OffsetDef ==
  Offset = [i \in 1 .. Len(RegisterList) + 1 |->
              IF i = 1 THEN 0 ELSE Offset[i - 1] + RegisterList[i - 1].bytes]
PROOF
  <1>1. Len(RegisterList) \in Nat
    BY RegisterAssumption DEF RegisterAssumption
  <1>2. \E f : f = [i \in 1 .. Len(RegisterList) + 1 |->
                      IF i = 1 THEN 0 ELSE f[i - 1] + RegisterList[i - 1].bytes]
    BY <1>1, OffsetExists
  <1> QED
    BY <1>2, Zenon DEF Offset

\* The same for the function inside FlattenSeq.
LEMMA FlattenExists ==
  ASSUME NEW s
  PROVE \A n \in Nat : \E f : f = [i \in 1 .. n |-> IF i = 1 THEN s[i] ELSE f[i - 1] \o s[i]]
PROOF
  <1> DEFINE S == {n \in Nat : \E f : f = [i \in 1 .. n |-> IF i = 1 THEN s[i] ELSE f[i - 1] \o s[i]]}
  <1>1. 0 \in S
    <2> DEFINE f == [i \in 1 .. 0 |-> 0]
    <2>1. f = [i \in 1 .. 0 |-> IF i = 1 THEN s[i] ELSE f[i - 1] \o s[i]]
      OBVIOUS
    <2> HIDE DEF f
    <2> QED
      BY <2>1
  <1>2. ASSUME NEW n \in Nat, n \in S PROVE n + 1 \in S
    <2>1. PICK f : f = [i \in 1 .. n |-> IF i = 1 THEN s[i] ELSE f[i - 1] \o s[i]]
      BY <1>2
    <2> DEFINE g == [i \in 1 .. n + 1 |->
                       IF i = n + 1 THEN IF i = 1 THEN s[i] ELSE f[n] \o s[n + 1] ELSE f[i]]
    <2>2. g = [i \in 1 .. n + 1 |-> IF i = 1 THEN s[i] ELSE g[i - 1] \o s[i]]
      <3> DEFINE step(x, i) == x \o s[i]
                 G(i) == IF i = n + 1 THEN IF i = 1 THEN s[i] ELSE step(f[n], n + 1) ELSE f[i]
                 F(i) == IF i = 1 THEN s[i] ELSE step(f[i - 1], i)
      <3>1. g = [i \in 1 .. n + 1 |-> G(i)] /\ f = [i \in 1 .. n |-> F(i)]
        BY <2>1
      <3> HIDE DEF step, g
      <3>2. \A i \in 1 .. n : g[i] = f[i] /\ f[i] = F(i)
        BY <3>1
      <3>3. \A i \in 1 .. n + 1 : g[i] = IF i = 1 THEN s[i] ELSE step(g[i - 1], i)
        BY <3>1, <3>2
      <3>4. g = [i \in 1 .. n + 1 |-> IF i = 1 THEN s[i] ELSE step(g[i - 1], i)]
        BY <3>1, <3>3
      <3> QED
        BY <3>4, Zenon DEF step
    <2> HIDE DEF g
    <2>3. n + 1 \in Nat
      OBVIOUS
    <2> QED
      BY <2>2, <2>3, Zenon
  <1> HIDE DEF S
  <1>3. Nat \subseteq S
    BY <1>1, <1>2, InductionOverNat
  <1> QED
    BY <1>3 DEF S

\* FlattenSeq is the last value of a function that appends one after the other.
LEMMA FlattenDef ==
  ASSUME NEW s, Len(s) \in Nat \ {0}
  PROVE  \E f : /\ f = [i \in 1 .. Len(s) |-> IF i = 1 THEN s[i] ELSE f[i - 1] \o s[i]]
                /\ FlattenSeq(s) = f[Len(s)]
PROOF
  <1> DEFINE flatten[i \in 1 .. Len(s)] == IF i = 1 THEN s[i] ELSE flatten[i - 1] \o s[i]
  <1>1. \E f : f = [i \in 1 .. Len(s) |-> IF i = 1 THEN s[i] ELSE f[i - 1] \o s[i]]
    BY FlattenExists
  <1>2. flatten = [i \in 1 .. Len(s) |-> IF i = 1 THEN s[i] ELSE flatten[i - 1] \o s[i]]
    BY <1>1, Zenon
  <1>3. FlattenSeq(s) = flatten[Len(s)]
    BY DEF FlattenSeq
  <1> HIDE DEF flatten
  <1> QED
    BY <1>2, <1>3
-----------------------------------------------------------------------------
(* Where a block has each register.                                        *)

\* The offsets grow by the sizes of the registers.
LEMMA Offsets ==
  /\ Registers = 1 .. Len(RegisterList) /\ Len(RegisterList) \in Nat
  /\ \A i \in Registers : RegisterList[i].bytes \in Nat \ {0}
  /\ Offset[1] = 0
  /\ \A i \in Registers : Offset[i + 1] = Offset[i] + RegisterList[i].bytes
  /\ \A i \in 1 .. Len(RegisterList) + 1 : Offset[i] \in Nat
PROOF
  <1> DEFINE n == Len(RegisterList)
  <1>1. /\ Registers = 1 .. n /\ n \in Nat
        /\ \A i \in 1 .. n : RegisterList[i].bytes \in Nat \ {0}
    <2> DEFINE R == [index : Nat, bytes : Nat \ {0}]
    <2>1. RegisterList \in Seq(R)
      BY RegisterAssumption DEF RegisterAssumption
    <2>2. \A r \in R : r.bytes \in Nat \ {0}
      OBVIOUS
    <2> HIDE DEF R
    <2> QED
      BY <2>1, <2>2 DEF Registers
  <1> HIDE DEF n
  <1>2. Offset = [i \in 1 .. n + 1 |-> IF i = 1 THEN 0 ELSE Offset[i - 1] + RegisterList[i - 1].bytes]
    BY OffsetDef DEF n
  <1>3. Offset[1] = 0
    BY <1>1, <1>2
  <1>4. ASSUME NEW i \in 1 .. n
        PROVE  Offset[i + 1] = Offset[i] + RegisterList[i].bytes
    <2>1. i + 1 \in 1 .. n + 1 /\ (i + 1) - 1 = i /\ i + 1 # 1
      BY <1>1
    <2> QED
      BY <1>2, <2>1
  <1> DEFINE S == {i \in Nat : i + 1 \in 1 .. n + 1 => Offset[i + 1] \in Nat}
  <1>5. Nat \subseteq S
    <2>1. 0 \in S
      BY <1>3
    <2>2. ASSUME NEW i \in Nat, i \in S PROVE i + 1 \in S
      <3>1. CASE i + 2 \in 1 .. n + 1
        <4>1. i + 1 \in 1 .. n /\ i + 1 \in 1 .. n + 1
          BY <1>1, <3>1
        <4>2. Offset[i + 2] = Offset[i + 1] + RegisterList[i + 1].bytes
          BY <1>4, <4>1
        <4> QED
          BY <1>1, <2>2, <4>1, <4>2
      <3> QED
        BY <3>1
    <2> HIDE DEF S
    <2> QED
      BY <2>1, <2>2, InductionOverNat
  <1>6. \A i \in 1 .. n + 1 : Offset[i] \in Nat
    <2> SUFFICES ASSUME NEW i \in 1 .. n + 1 PROVE Offset[i] \in Nat
      OBVIOUS
    <2>1. i - 1 \in Nat /\ (i - 1) + 1 = i
      BY <1>1
    <2> QED
      BY <1>5, <2>1
  <1> QED
    BY <1>1, <1>3, <1>4, <1>6 DEF n

\* Registers do not overlap, and come in order.
LEMMA OffsetsGrow ==
  ASSUME NEW j \in Registers, NEW i \in 1 .. Len(RegisterList) + 1, j < i
  PROVE  Offset[j] + RegisterList[j].bytes <= Offset[i]
PROOF
  <1> DEFINE S == {d \in Nat : j + 1 + d <= Len(RegisterList) + 1 => Offset[j + 1] <= Offset[j + 1 + d]}
  <1>1. 0 \in S
    BY Offsets
  <1>2. ASSUME NEW d \in Nat, d \in S PROVE d + 1 \in S
    <2>1. CASE j + 1 + (d + 1) <= Len(RegisterList) + 1
      <3>1. j + 1 + d \in Registers /\ j + 1 + (d + 1) = (j + 1 + d) + 1
            /\ j + 1 \in 1 .. Len(RegisterList) + 1
            /\ j + 1 + d \in 1 .. Len(RegisterList) + 1
        BY <2>1, Offsets
      <3>2. Offset[j + 1 + (d + 1)] = Offset[j + 1 + d] + RegisterList[j + 1 + d].bytes
        BY <3>1, Offsets
      <3>3. /\ Offset[j + 1] \in Nat /\ Offset[j + 1 + d] \in Nat
            /\ RegisterList[j + 1 + d].bytes \in Nat
        BY <3>1, Offsets
      <3>4. Offset[j + 1] <= Offset[j + 1 + d]
        BY <1>2, <3>1, Offsets
      <3> QED
        BY <3>2, <3>3, <3>4
    <2> QED
      BY <2>1
  <1>3. Nat \subseteq S
    <2> HIDE DEF S
    <2> QED
      BY <1>1, <1>2, InductionOverNat
  <1>4. i - j - 1 \in Nat /\ j + 1 + (i - j - 1) = i /\ i <= Len(RegisterList) + 1
    BY Offsets
  <1>5. Offset[j + 1] <= Offset[i]
    BY <1>3, <1>4
  <1> QED
    BY <1>5, Offsets

\* Each register is found at its offset in what FlattenSeq makes of them.
LEMMA Flattened ==
  ASSUME NEW S, NEW s \in [Registers -> Seq(S)],
         \A i \in Registers : Len(s[i]) = RegisterList[i].bytes
  PROVE  /\ FlattenSeq(s) \in Seq(S)
         /\ Len(FlattenSeq(s)) = Offset[Len(RegisterList) + 1]
         /\ \A i \in Registers : \A k \in 1 .. RegisterList[i].bytes :
              FlattenSeq(s)[Offset[i] + k] = s[i][k]
PROOF
  <1> DEFINE n == Len(RegisterList)
  <1>1. n \in Nat /\ Registers = 1 .. n
    BY Offsets
  <1>2. DOMAIN s = 1 .. n /\ s \in Seq(Seq(S)) /\ Len(s) = n
    BY <1>1
  <1>3. CASE n = 0
    <2>1. FlattenSeq(s) = s /\ s = << >>
      BY <1>2, <1>3 DEF FlattenSeq
    <2> QED
      BY <1>1, <1>3, <2>1, Offsets
  <1>4. CASE n # 0
    <2>1. PICK f : /\ f = [i \in 1 .. n |-> IF i = 1 THEN s[i] ELSE f[i - 1] \o s[i]]
                   /\ FlattenSeq(s) = f[n]
      BY <1>1, <1>2, <1>4, FlattenDef
    <2> HIDE DEF n
    <2> DEFINE Good(m) == /\ f[m] \in Seq(S)
                          /\ Len(f[m]) = Offset[m + 1]
                          /\ \A i \in 1 .. m : \A k \in 1 .. RegisterList[i].bytes :
                               f[m][Offset[i] + k] = s[i][k]
    <2>2. f[1] = s[1] /\ \A m \in 1 .. n : m + 1 \in 1 .. n => f[m + 1] = f[m] \o s[m + 1]
      <3> DEFINE step(x, i) == x \o s[i]
      <3>1. f = [i \in 1 .. n |-> IF i = 1 THEN s[i] ELSE step(f[i - 1], i)]
        BY <2>1, Zenon
      <3> HIDE DEF step
      <3>2. f[1] = s[1] /\ \A m \in 1 .. n : m + 1 \in 1 .. n => f[m + 1] = step(f[m], m + 1)
        BY <1>1, <1>4, <3>1
      <3> QED
        BY <3>2, Zenon DEF step
    <2> DEFINE T == {m \in Nat : m + 1 \in 1 .. n => Good(m + 1)}
    <2>3. Good(1)
      <3>1. 1 \in Registers /\ Offset[1] = 0 /\ Offset[1 + 1] = Offset[1] + RegisterList[1].bytes
            /\ RegisterList[1].bytes \in Nat
        BY <1>1, <1>4, Offsets
      <3>2. \A i \in 1 .. 1 : i = 1
        OBVIOUS
      <3> QED
        BY <2>2, <3>1, <3>2
    <2>4. ASSUME NEW m \in 1 .. n, m + 1 \in 1 .. n, Good(m)
          PROVE  Good(m + 1)
      <3>1. /\ m \in Registers /\ m + 1 \in Registers /\ m + 1 \in 1 .. Len(RegisterList) + 1
            /\ m + 2 \in 1 .. Len(RegisterList) + 1
        BY <1>1, <2>4 DEF n
      <3>2. /\ Offset[m + 2] = Offset[m + 1] + RegisterList[m + 1].bytes
            /\ Offset[m + 1] \in Nat /\ Offset[m + 2] \in Nat
            /\ RegisterList[m + 1].bytes \in Nat
        BY <3>1, Offsets
      <3> DEFINE x == f[m]
                 y == s[m + 1]
      <3>3. f[m + 1] = x \o y
        BY <2>2, <2>4
      <3>4. x \in Seq(S) /\ y \in Seq(S) /\ Len(x) = Offset[m + 1] /\ Len(y) = RegisterList[m + 1].bytes
        BY <2>4, <3>1
      <3> HIDE DEF x, y
      <3>5. /\ x \o y \in Seq(S) /\ Len(x \o y) = Len(x) + Len(y)
            /\ \A p \in 1 .. Len(x) + Len(y) : (x \o y)[p] = IF p <= Len(x) THEN x[p] ELSE y[p - Len(x)]
        BY <3>4, ConcatProperties
      <3>6. ASSUME NEW i \in 1 .. m + 1, NEW k \in 1 .. RegisterList[i].bytes
            PROVE  (x \o y)[Offset[i] + k] = s[i][k]
        <4>1. CASE i = m + 1
          <5>1. Offset[i] + k \in 1 .. Len(x) + Len(y) /\ ~(Offset[i] + k <= Len(x))
                /\ Offset[i] + k - Len(x) = k
            BY <3>2, <3>4, <4>1
          <5> DEFINE p == Offset[i] + k
          <5>2. p \in 1 .. Len(x) + Len(y) /\ ~(p <= Len(x)) /\ p - Len(x) = k
            BY <3>2, <3>4, <4>1, <5>1
          <5> HIDE DEF p
          <5>3. (x \o y)[p] = y[p - Len(x)]
            BY <3>5, <5>2
          <5> QED
            BY <4>1, <5>2, <5>3 DEF y, p
        <4>2. CASE i # m + 1
          <5>1. i \in Registers /\ i \in 1 .. m /\ i < m + 1
            BY <1>1, <4>2
          <5>2. /\ Offset[i] + RegisterList[i].bytes <= Offset[m + 1]
                /\ Offset[i] \in Nat /\ RegisterList[i].bytes \in Nat
            <6>1. Offset[i] + RegisterList[i].bytes <= Offset[m + 1]
              BY <3>1, <5>1, OffsetsGrow
            <6>2. i \in 1 .. Len(RegisterList) + 1
              BY <5>1, Offsets
            <6> QED
              BY <5>1, <6>1, <6>2, Offsets
          <5>3. Offset[i] + k \in 1 .. Len(x) + Len(y) /\ Offset[i] + k <= Len(x)
            <6>1. Len(x) \in Nat /\ Len(y) \in Nat /\ Offset[i] + RegisterList[i].bytes <= Len(x)
              BY <3>4, <5>2
            <6>2. k \in Nat /\ 1 <= k /\ k <= RegisterList[i].bytes
              BY <5>2
            <6> QED
              BY <5>2, <6>1, <6>2
          <5> QED
            BY <2>4, <3>5, <5>1, <5>3 DEF x
        <4> QED
          BY <4>1, <4>2
      <3>7. (m + 1) + 1 = m + 2
        OBVIOUS
      <3> QED
        BY <3>2, <3>3, <3>4, <3>5, <3>6, <3>7
    <2> HIDE DEF Good
    <2>5. Nat \subseteq T
      <3>1. 0 \in T
        BY <2>3
      <3>2. ASSUME NEW m \in Nat, m \in T PROVE m + 1 \in T
        <4>1. CASE (m + 1) + 1 \in 1 .. n
          <5>1. m + 1 \in 1 .. n
            BY <1>1, <4>1
          <5>2. Good(m + 1)
            BY <3>2, <5>1
          <5> QED
            BY <2>4, <4>1, <5>1, <5>2
        <4> QED
          BY <4>1
      <3> HIDE DEF T
      <3> QED
        BY <3>1, <3>2, InductionOverNat
    <2>6. Good(n)
      <3>1. n - 1 \in Nat /\ (n - 1) + 1 = n /\ n \in 1 .. n
        BY <1>1, <1>4
      <3> QED
        BY <2>5, <3>1
    <2> QED
      BY <1>1, <2>1, <2>6 DEF Good, n
  <1> QED
    BY <1>3, <1>4

-----------------------------------------------------------------------------
(* Blocks of registers.                                                    *)

\* What stands for a byte.
Digits == STRING \cup {"xx"}

\* A value of each register: as long as the register, digits or "xx".
Readings == {v \in [Registers -> Seq(Digits)] :
               \A i \in Registers : Len(v[i]) = RegisterList[i].bytes}

\* What is not known is an empty row of bytes.
LEMMA UnknownIsEmpty == Unknown \in Seq(Digits)
  BY DEF Unknown

\* FlattenSeq of such values has each at its offset.
LEMMA BlockOfReadings ==
  ASSUME NEW v \in Readings, NEW block, block = FlattenSeq(v)
  PROVE  /\ block \in Seq(Digits)
         /\ Len(block) = Offset[Len(RegisterList) + 1]
         /\ \A i \in Registers : \A k \in 1 .. RegisterList[i].bytes :
              block[Offset[i] + k] = v[i][k]
  BY Flattened DEF Readings

\* A row of equal bytes.
LEMMA Repeated ==
  ASSUME NEW S, NEW x \in S, NEW b \in Nat
  PROVE  LET h == [j \in 1 .. b |-> x]
         IN  /\ h \in Seq(S) /\ Len(h) = b /\ DOMAIN h = 1 .. b
             /\ \A j \in 1 .. b : h[j] = x
  OBVIOUS

\* Hex fills in what is not valid.
LEMMA HexOf ==
  ASSUME NEW i \in Registers, NEW value \in Seq(Digits),
         value = Unknown \/ Len(value) = RegisterList[i].bytes
  PROVE  LET h == Hex(value, RegisterList[i].bytes)
         IN  /\ h \in Seq(Digits) /\ Len(h) = RegisterList[i].bytes
             /\ value # Unknown => h = value
             /\ value = Unknown => "xx" \in ToSet(h)
PROOF
  <1>1. RegisterList[i].bytes \in Nat \ {0}
    BY Offsets
  <1>2. CASE value = Unknown
    <2> DEFINE b == RegisterList[i].bytes
               h == [j \in 1 .. b |-> "xx"]
    <2>1. Hex(value, b) = h
      BY <1>2 DEF Hex
    <2>2. b \in Nat /\ 1 \in 1 .. b
      BY <1>1
    <2> HIDE DEF b
    <2>3. /\ h \in Seq(Digits) /\ Len(h) = b
          /\ DOMAIN h = 1 .. b /\ h[1] = "xx"
      <3>1. "xx" \in Digits
        BY DEF Digits
      <3> QED
        BY <2>2, <3>1, Repeated
    <2>4. "xx" \in ToSet(h)
      BY <2>2, <2>3 DEF ToSet
    <2> HIDE DEF h
    <2> QED
      BY <1>2, <2>1, <2>3, <2>4 DEF b
  <1>3. CASE value # Unknown
    BY <1>3 DEF Hex
  <1> QED
    BY <1>2, <1>3

\* What stands at a register's place in a block that is long enough.
LEMMA FieldIs ==
  ASSUME NEW i \in Registers, NEW block \in Seq(Digits), NEW value \in Seq(Digits),
         Len(value) = RegisterList[i].bytes,
         Offset[i] + RegisterList[i].bytes <= Len(block),
         \A k \in 1 .. RegisterList[i].bytes : block[Offset[i] + k] = value[k]
  PROVE  Field(block, i) = value
PROOF
  <1> DEFINE o == Offset[i]
             b == RegisterList[i].bytes
             part == SubSeq(block, o + 1, o + b)
  <1>1. o \in Nat /\ b \in Nat \ {0} /\ o + b <= Len(block) /\ Len(block) \in Nat
    BY Offsets
  <1>2. \A k \in 1 .. b : block[o + k] = value[k]
    OBVIOUS
  <1>3. Len(value) = b
    OBVIOUS
  <1> HIDE DEF o, b
  <1>4. /\ part \in Seq(Digits) /\ Len(part) = b
        /\ \A k \in 1 .. b : part[k] = block[o + k]
    <2>1. \A k \in o + 1 .. o + b : block[k] \in Digits
      BY <1>1
    <2>2. /\ part \in Seq(Digits)
          /\ Len(part) = IF o + 1 <= o + b THEN (o + b) - (o + 1) + 1 ELSE 0
          /\ \A k \in 1 .. (o + b) - (o + 1) + 1 : part[k] = block[(o + 1) + k - 1]
      BY <1>1, <2>1, SubSeqProperties
    <2> HIDE DEF part
    <2>3. (o + b) - (o + 1) + 1 = b /\ o + 1 <= o + b
      BY <1>1
    <2>4. \A k \in 1 .. b : (o + 1) + k - 1 = o + k
      BY <1>1
    <2> QED
      BY <2>2, <2>3, <2>4
  <1> HIDE DEF part
  <1>5. part = value
    BY <1>2, <1>3, <1>4, SeqEqual
  <1> QED
    BY <1>5 DEF Field, part, o, b

\* What Handle_g shows the client: the registers that were valid.
LEMMA BlockShows ==
  ASSUME NEW values \in [Registers -> Seq(Digits)],
         \A i \in Registers : values[i] = Unknown \/ Len(values[i]) = RegisterList[i].bytes,
         NEW i \in Registers
  PROVE  Shown(Block(values), i) \in {Unknown, values[i]}
PROOF
  <1> DEFINE v == [j \in Registers |-> Hex(values[j], RegisterList[j].bytes)]
             block == Block(values)
  <1>1. v \in Readings
    BY HexOf DEF Readings
  <1>2. block = FlattenSeq(v)
    BY DEF Block
  <1> HIDE DEF block
  <1>3. v[i] = Hex(values[i], RegisterList[i].bytes)
    OBVIOUS
  <1> HIDE DEF v
  <1>4. /\ block \in Seq(Digits) /\ Len(block) = Offset[Len(RegisterList) + 1]
        /\ \A k \in 1 .. RegisterList[i].bytes : block[Offset[i] + k] = v[i][k]
    BY <1>1, <1>2, BlockOfReadings
  <1>5. Offset[i] + RegisterList[i].bytes <= Len(block)
    BY <1>4, Offsets, OffsetsGrow
  <1>6. v[i] \in Seq(Digits) /\ Len(v[i]) = RegisterList[i].bytes
    BY <1>1 DEF Readings
  <1>7. Field(block, i) = v[i]
    BY <1>4, <1>5, <1>6, FieldIs
  <1>8. CASE values[i] = Unknown
    BY <1>3, <1>7, <1>8, HexOf DEF Shown, block
  <1>9. CASE values[i] # Unknown
    BY <1>3, <1>7, <1>9, HexOf DEF Shown, block
  <1> QED
    BY <1>8, <1>9

\* What Handle_G takes from a block that was cut: the registers before the cut.
LEMMA ParsedIsSent ==
  ASSUME NEW c \in Readings, NEW k \in 0 .. Len(RegisterList), NEW n \in CutsBehind(k)
  PROVE  Parsed(SubSeq(Block(c), 1, Offset[k + 1] + n)) = [i \in 1 .. k |-> c[i]]
PROOF
  <1> DEFINE block == Block(c)
             m == Offset[k + 1] + n
             cut == SubSeq(block, 1, m)
  <1>1. /\ Registers = 1 .. Len(RegisterList) /\ Len(RegisterList) \in Nat
        /\ k + 1 \in 1 .. Len(RegisterList) + 1
        /\ Len(RegisterList) + 1 \in 1 .. Len(RegisterList) + 1
    BY Offsets
  <1>2. \A i \in Registers : c[i] \in Seq(Digits) /\ Len(c[i]) = RegisterList[i].bytes
                              /\ c[i] # Unknown
    <2>1. \A i \in Registers : RegisterList[i].bytes # 0
      BY Offsets
    <2> QED
      BY <2>1 DEF Readings, Unknown
  <1>3. block = FlattenSeq(c)
    <2>1. [i \in Registers |-> Hex(c[i], RegisterList[i].bytes)] = [i \in Registers |-> c[i]]
      BY <1>2 DEF Hex
    <2>2. [i \in Registers |-> c[i]] = c
      BY DEF Readings
    <2> QED
      BY <2>1, <2>2 DEF Block
  <1> HIDE DEF block
  <1>4. /\ block \in Seq(Digits) /\ Len(block) = Offset[Len(RegisterList) + 1]
        /\ \A i \in Registers : \A j \in 1 .. RegisterList[i].bytes : block[Offset[i] + j] = c[i][j]
    BY <1>3, BlockOfReadings
  <1>5. n \in Nat /\ Offset[k + 1] \in Nat /\ Offset[Len(RegisterList) + 1] \in Nat
    <2>1. k < Len(RegisterList) => RegisterList[k + 1].bytes \in Nat
      BY <1>1, Offsets
    <2> QED
      BY <1>1, <2>1, Offsets DEF CutsBehind
  <1>6. m <= Len(block) /\ (k < Len(RegisterList) => m < Offset[k + 1] + RegisterList[k + 1].bytes)
    <2>1. CASE k = Len(RegisterList)
      BY <1>4, <1>5, <2>1 DEF CutsBehind
    <2>2. CASE k < Len(RegisterList)
      <3>1. /\ k + 1 \in Registers /\ RegisterList[k + 1].bytes \in Nat \ {0}
            /\ n <= RegisterList[k + 1].bytes - 1
        BY <1>1, <2>2, Offsets DEF CutsBehind
      <3>2. Offset[k + 1] + RegisterList[k + 1].bytes <= Offset[Len(RegisterList) + 1]
        BY <1>1, <2>2, <3>1, OffsetsGrow
      <3> QED
        BY <1>4, <1>5, <3>1, <3>2
    <2> QED
      BY <1>1, <2>1, <2>2
  <1>7. m \in Nat
    BY <1>5
  <1> HIDE DEF m
  <1>8. cut \in Seq(Digits) /\ Len(cut) = m /\ \A p \in 1 .. m : cut[p] = block[p]
    BY <1>4, <1>6, <1>7
  <1> HIDE DEF cut
  <1>9. ASSUME NEW i \in 1 .. k
        PROVE  i \in Registers /\ Offset[i] + RegisterList[i].bytes <= m
    <2>1. i \in Registers /\ i < k + 1 /\ k + 1 \in 1 .. Len(RegisterList) + 1
      BY <1>1
    <2>2. Offset[i] + RegisterList[i].bytes <= Offset[k + 1]
      BY <2>1, OffsetsGrow
    <2>3. Offset[i] \in Nat /\ RegisterList[i].bytes \in Nat
      BY <1>1, <2>1, Offsets
    <2> QED
      BY <1>5, <2>1, <2>2, <2>3 DEF m
  <1>10. ASSUME NEW i \in Registers, Offset[i] + RegisterList[i].bytes <= m
         PROVE  i \in 1 .. k
    <2> SUFFICES ASSUME ~(i <= k) PROVE FALSE
      BY <1>1
    <2>1. k < Len(RegisterList) /\ k + 1 \in Registers
      BY <1>1
    <2>2. m < Offset[k + 1] + RegisterList[k + 1].bytes
      BY <1>6, <2>1
    <2>3. CASE i = k + 1
      <3>1. Offset[i] \in Nat /\ RegisterList[i].bytes \in Nat
        BY <1>1, Offsets
      <3> QED
        BY <1>7, <1>10, <2>2, <2>3, <3>1
    <2>4. CASE i # k + 1
      <3>1. k + 1 < i /\ i \in 1 .. Len(RegisterList) + 1
        BY <1>1, <2>4
      <3>2. Offset[k + 1] + RegisterList[k + 1].bytes <= Offset[i]
        BY <2>1, <3>1, OffsetsGrow
      <3>3. /\ Offset[i] \in Nat /\ RegisterList[i].bytes \in Nat
            /\ RegisterList[k + 1].bytes \in Nat
        BY <1>1, <2>1, <3>1, Offsets
      <3>4. m < Offset[i]
        BY <1>5, <1>7, <2>2, <3>2, <3>3
      <3>5. Offset[i] <= m
        BY <1>7, <1>10, <3>3
      <3> QED
        BY <1>7, <3>3, <3>4, <3>5
    <2> QED
      BY <2>3, <2>4
  <1>11. {i \in Registers : Offset[i] + RegisterList[i].bytes <= Len(cut)} = 1 .. k
    BY <1>8, <1>9, <1>10
  <1>12. ASSUME NEW i \in 1 .. k PROVE Field(cut, i) = c[i]
    <2>1. i \in Registers /\ Offset[i] + RegisterList[i].bytes <= m
      BY <1>9
    <2>2. \A j \in 1 .. RegisterList[i].bytes : cut[Offset[i] + j] = c[i][j]
      <3>1. Offset[i] \in Nat /\ RegisterList[i].bytes \in Nat
        BY <1>1, <2>1, Offsets
      <3>2. \A j \in 1 .. RegisterList[i].bytes : Offset[i] + j \in 1 .. m
        BY <1>7, <2>1, <3>1
      <3> QED
        BY <1>4, <1>8, <2>1, <3>2
    <2> QED
      BY <1>2, <1>8, <2>1, <2>2, FieldIs
  <1>13. Parsed(cut) = [i \in 1 .. k |-> Field(cut, i)]
    BY <1>11, Zenon DEF Parsed
  <1>14. [i \in 1 .. k |-> Field(cut, i)] = [i \in 1 .. k |-> c[i]]
    BY <1>12
  <1> QED
    BY <1>13, <1>14 DEF cut, block, m

-----------------------------------------------------------------------------
(* Which thread is meant.                                                  *)

\* Nothing that was selected or listed outlives a stop; what is selected since
\* is a living thread, and the same for both sides.
AgreeInv ==
  /\ pc \in {"idle", "running", "restore"}
  /\ pc # "idle" => m_ThreadIDForReg = 0 /\ ~m_bThreadCacheValid
  /\ m_bThreadCacheValid => m_CachedThreadInfo \in ThreadList
  /\ SelectionAlive
  /\ SelectionHonoured
  /\ named \in Threads \cup {Unset}
  /\ named # Unset => m_LastReportedCurrentThreadID = named

\* A report is read while the target is stopped and nothing else is asked.
Transferring ==
  /\ transfer \in {"none", "reading", "whole"}
  /\ transfer # "none" => pc = "idle"

\* No thread is numbered 0, or as uninitialised memory is.
LEMMA JunkIsNoThread ==
  /\ 0 \notin Threads /\ Unset \notin Threads /\ Unset # 0
  BY ThreadControlAssumption DEF ThreadControlAssumption, Unset

\* A window of the thread list fills the cache as any other query does.
LEMMA WindowQueries ==
  ASSUME pc = "idle", NEW length \in 1 .. MaxWindow, Handle_qXfer(length)
  PROVE  QueryThreads \/ UNCHANGED tcVars
PROOF
  <1>1. CASE object = "threads"
    BY <1>1 DEF Handle_qXfer, QueryThreads
  <1>2. CASE object # "threads"
    BY <1>2 DEF Handle_qXfer, tcVars, cache
  <1> QED
    BY <1>1, <1>2

\* Packets about registers select nothing.
LEMMA RegisterPacketSteps ==
  ASSUME RegisterPacket
  PROVE  UNCHANGED tcVars /\ UNCHANGED named /\ ClientMayAsk
  BY DEF RegisterPacket, Handle_g, Handle_G, Handle_P, Write

\* Every step is one of ThreadControl, or none.
LEMMA StepsOfThreadControl ==
  ASSUME Transferring, [InspectionNext]_vars
  PROVE  [Next]_tcVars
PROOF
  <1>1. CASE UNCHANGED vars
    BY <1>1 DEF vars
  <1>2. CASE RegNext
    <2>1. CASE Selecting
      BY <2>1 DEF Selecting, Next, Queries
    <2>2. CASE QueryStopReason \/ ResumeAll \/ TargetStops \/ ReplyStopped
      BY <2>2 DEF Next, Queries
    <2>3. CASE RegisterPacket
      BY <2>3, RegisterPacketSteps
    <2> QED
      BY <1>2, <2>1, <2>2, <2>3 DEF RegNext
  <1>3. CASE XferNext
    <2>1. CASE NextWindow
      <3>1. PICK length \in 1 .. MaxWindow : Handle_qXfer(length)
        BY <2>1 DEF NextWindow
      <3>2. pc = "idle"
        BY <3>1 DEF Handle_qXfer, Transferring
      <3> QED
        BY <3>1, <3>2, WindowQueries DEF Next, Queries
    <2>2. CASE ~NextWindow
      BY <1>3, <2>2 DEF XferNext, StartTransfer, TakeReport
    <2> QED
      BY <2>1, <2>2
  <1> QED
    BY <1>1, <1>2, <1>3 DEF InspectionNext

\* Nothing but the report is asked for while it is read.
LEMMA TransferringStep ==
  ASSUME Transferring, [InspectionNext]_vars
  PROVE  Transferring'
PROOF
  <1>1. CASE UNCHANGED vars
    BY <1>1 DEF vars, tcVars, xferVars, Transferring
  <1>2. CASE transfer = "none" /\ UNCHANGED xferVars
    BY <1>2 DEF Transferring, xferVars
  <1>3. CASE XferNext
    <2>1. CASE NextWindow
      BY <2>1 DEF NextWindow, Handle_qXfer, Transferring
    <2>2. CASE ~NextWindow
      BY <1>3, <2>2 DEF XferNext, StartTransfer, TakeReport, Transferring, tcVars
    <2> QED
      BY <2>1, <2>2
  <1> QED
    BY <1>1, <1>2, <1>3 DEF InspectionNext

\* The client of this module is one ThreadControl allows for: what is proved of
\* every client of it holds here.
THEOREM InspectsAsThreadControl == InspectionSpec => Spec
PROOF
  <1>1. InspectionInit => Transferring
    BY DEF InspectionInit, XferInit, Transferring
  <1>2. InspectionInit => Init
    BY DEF InspectionInit
  <1>3. Transferring /\ [InspectionNext]_vars => Transferring'
    BY TransferringStep
  <1>4. Transferring /\ [InspectionNext]_vars => [Next]_tcVars
    BY StepsOfThreadControl
  <1> QED
    BY <1>1, <1>2, <1>3, <1>4, PTL DEF InspectionSpec, Spec

\* What a query leaves in the cache.
LEMMA Listed ==
  ASSUME AgreeInv, ProvideThreadInfo, UNCHANGED alive
  PROVE  /\ m_CachedThreadInfo' \in ThreadList /\ m_bThreadCacheValid'
         /\ ThreadList' = ThreadList
         /\ m_CachedThreadInfo' \subseteq alive
  BY DEF AgreeInv, ProvideThreadInfo, ThreadList

\* A query changes the cache only.
LEMMA AgreeOnQuery ==
  ASSUME AgreeInv, QueryThreads, UNCHANGED named
  PROVE  AgreeInv'
PROOF
  <1>1. UNCHANGED <<pc, m_ThreadIDForReg, alive, selected, m_LastReportedCurrentThreadID>>
        /\ ProvideThreadInfo
    BY DEF QueryThreads, selection, target
  <1> QED
    BY <1>1, Listed DEF AgreeInv, SelectionAlive, SelectionHonoured, Unset, QueryThreads

\* What is selected is in a list of the living threads.
LEMMA AgreeOnSelection ==
  ASSUME AgreeInv, Selecting, UNCHANGED named
  PROVE  AgreeInv'
PROOF
  <1> USE JunkIsNoThread DEF Unset
  <1>1. CASE QueryThreads
    BY <1>1, AgreeOnQuery
  <1>2. ASSUME NEW isRegOp \in BOOLEAN, SelectAny(isRegOp)
        PROVE  AgreeInv'
    BY <1>2 DEF SelectAny, AgreeInv, SelectionAlive, SelectionHonoured, ThreadList, cache, target
  <1>3. ASSUME NEW isRegOp \in BOOLEAN, NEW id \in Threads, SelectThread(isRegOp, id)
        PROVE  AgreeInv'
    <2>1. /\ UNCHANGED <<pc, alive, m_LastReportedCurrentThreadID>>
          /\ ProvideThreadInfo /\ id \in m_CachedThreadInfo' /\ pc = "idle"
          /\ m_ThreadIDForReg' = IF isRegOp THEN id ELSE m_ThreadIDForReg
          /\ selected' = IF isRegOp THEN id ELSE selected
      BY <1>3 DEF SelectThread, target
    <2>2. id \in alive
      BY <2>1, Listed
    <2> QED
      BY <2>1, <2>2, Listed DEF AgreeInv, SelectionAlive, SelectionHonoured
  <1> QED
    BY <1>1, <1>2, <1>3 DEF Selecting

\* Each step keeps the selection alive and shared.
LEMMA AgreeStep ==
  ASSUME TypeOK, Transferring, AgreeInv, [InspectionNext]_vars
  PROVE  AgreeInv'
PROOF
  <1> USE JunkIsNoThread DEF Unset
  <1>1. CASE UNCHANGED <<tcVars, named>>
    BY <1>1 DEF tcVars, selection, cache, target, AgreeInv, SelectionAlive, SelectionHonoured, ThreadList
  <1>2. CASE RegNext
    <2>1. CASE Selecting /\ UNCHANGED regVars
      BY <2>1, AgreeOnSelection DEF regVars
    <2>2. CASE QueryStopReason /\ Told
      BY <2>2 DEF QueryStopReason, Told, AgreeInv, SelectionAlive, SelectionHonoured, ThreadList,
                  selection, cache, target, TypeOK
    <2>3. CASE ResumeAll /\ Forget
      BY <2>3 DEF ResumeAll, ResetAllCaches, Forget, AgreeInv, SelectionAlive, SelectionHonoured, ThreadList
    <2>4. CASE TargetStops /\ Running
      BY <2>4 DEF TargetStops, Running, AgreeInv, SelectionAlive, SelectionHonoured, selection, cache
    <2>5. CASE ReplyStopped /\ Told
      BY <2>5 DEF ReplyStopped, Told, AgreeInv, SelectionAlive, SelectionHonoured, ThreadList,
                  selection, cache, target, TypeOK
    <2>6. CASE RegisterPacket
      BY <1>1, <2>6, RegisterPacketSteps
    <2> QED
      BY <1>2, <2>1, <2>2, <2>3, <2>4, <2>5, <2>6 DEF RegNext
  <1>3. CASE XferNext /\ UNCHANGED regVars
    <2>1. CASE NextWindow
      <3>1. PICK length \in 1 .. MaxWindow : Handle_qXfer(length)
        BY <2>1 DEF NextWindow
      <3>2. pc = "idle"
        BY <3>1 DEF Handle_qXfer, Transferring
      <3> QED
        BY <1>1, <1>3, <3>1, <3>2, WindowQueries, AgreeOnQuery DEF regVars
    <2>2. CASE ~NextWindow
      BY <1>1, <1>3, <2>2 DEF XferNext, StartTransfer, TakeReport, regVars
    <2> QED
      BY <2>1, <2>2
  <1>4. CASE UNCHANGED vars
    BY <1>1, <1>4 DEF vars, regVars
  <1> QED
    BY <1>2, <1>3, <1>4 DEF InspectionNext

\* At first nothing is selected and nothing cached.
LEMMA AgreeInit == InspectionInit => AgreeInv
  BY JunkIsNoThread
     DEF InspectionInit, Init, RegInit, AgreeInv, SelectionAlive, SelectionHonoured, ThreadList, Unset

\* The stub takes a packet about registers for the thread the client means.
LEMMA SameThread ==
  ASSUME TypeOK, AgreeInv, ClientMayAsk
  PROVE  StubThread = ClientThread /\ ClientThread \in Threads
  BY JunkIsNoThread
     DEF ClientMayAsk, ClientThread, StubThread, ThreadIDForOp, AgreeInv, SelectionHonoured, TypeOK, Unset

-----------------------------------------------------------------------------
(* What the client believes.                                               *)

\* Every register holds as many bytes as the list says, and what the client
\* knows of it is what it holds; while the target runs it knows nothing.
Believes(b, r) ==
  /\ r \in [Threads -> Readings]
  /\ b \in [Threads -> [Registers -> Seq(Digits)]]
  /\ \A t \in Threads : \A i \in Registers : b[t][i] # Unknown => r[t][i] = b[t][i]

BeliefInv ==
  /\ Believes(believed, regs)
  /\ pc # "idle" => believed = NothingKnown

\* What the target's registers hold fits them.
LEMMA ContentsAreReadings == AllContents \subseteq Readings
PROOF
  <1>1. ASSUME NEW c \in AllContents, NEW i \in Registers
        PROVE  c[i] \in Seq(Digits) /\ Len(c[i]) = RegisterList[i].bytes
    <2> DEFINE b == RegisterList[i].bytes
    <2>1. c[i] \in [1 .. b -> STRING]
      BY RegisterAssumption DEF AllContents, RegisterAssumption
    <2>2. b \in Nat
      BY Offsets
    <2> HIDE DEF b
    <2>3. c[i] \in [1 .. b -> Digits]
      BY <2>1 DEF Digits
    <2> HIDE DEF Digits
    <2> QED
      BY <2>2, <2>3 DEF b
  <1>2. \A c \in AllContents : DOMAIN c = Registers /\ c = [i \in Registers |-> c[i]]
    BY DEF AllContents
  <1> QED
    BY <1>1, <1>2 DEF Readings

\* Over, register by register.
LEMMA OverFacts ==
  ASSUME NEW values, NEW old, NEW new, new = Over(values, old)
  PROVE  /\ new = [i \in Registers |-> new[i]]
         /\ \A i \in Registers : new[i] = IF i \in DOMAIN values THEN values[i] ELSE old[i]
  BY DEF Over

\* A thread's registers r and the client's view of them b may be replaced by
\* others that agree with each other.
LEMMA Replaced ==
  ASSUME NEW b, NEW r, Believes(b, r), NEW t \in Threads, NEW newR, NEW newB,
         newR = [i \in Registers |-> newR[i]], newB = [i \in Registers |-> newB[i]],
         \A i \in Registers :
           /\ newR[i] \in Seq(Digits) /\ Len(newR[i]) = RegisterList[i].bytes
           /\ newB[i] \in {Unknown, newR[i]}
  PROVE  Believes([b EXCEPT ![t] = newB], [r EXCEPT ![t] = newR])
PROOF
  <1> DEFINE r2 == [r EXCEPT ![t] = newR]
             b2 == [b EXCEPT ![t] = newB]
  <1>1. /\ r \in [Threads -> Readings]
        /\ b \in [Threads -> [Registers -> Seq(Digits)]]
        /\ \A u \in Threads : \A i \in Registers : b[u][i] # Unknown => r[u][i] = b[u][i]
    BY DEF Believes
  <1>2. newR \in Readings
    <2>1. newR \in [Registers -> Seq(Digits)]
      OBVIOUS
    <2> QED
      BY <2>1 DEF Readings
  <1>3. newB \in [Registers -> Seq(Digits)]
    <2>1. \A i \in Registers : newB[i] \in Seq(Digits)
      BY UnknownIsEmpty
    <2> QED
      BY <2>1
  <1>4. /\ r2 \in [Threads -> Readings] /\ b2 \in [Threads -> [Registers -> Seq(Digits)]]
        /\ \A u \in Threads : /\ r2[u] = IF u = t THEN newR ELSE r[u]
                              /\ b2[u] = IF u = t THEN newB ELSE b[u]
    BY <1>1, <1>2, <1>3
  <1> HIDE DEF r2, b2
  <1>5. \A u \in Threads : \A i \in Registers : b2[u][i] # Unknown => r2[u][i] = b2[u][i]
    BY <1>1, <1>4
  <1> QED
    BY <1>4, <1>5 DEF Believes, r2, b2

\* A thread's registers and the client's view of them, after some were written.
LEMMA Written ==
  ASSUME NEW b, NEW r, Believes(b, r), NEW t \in Threads,
         NEW values, DOMAIN values \subseteq Registers,
         \A i \in DOMAIN values : values[i] \in Seq(Digits) /\ Len(values[i]) = RegisterList[i].bytes,
         NEW done, DOMAIN done \subseteq DOMAIN values,
         \A i \in DOMAIN done : done[i] = values[i],
         NEW sent, DOMAIN sent = DOMAIN values,
         \/ \A i \in DOMAIN sent : sent[i] = Unknown
         \/ sent = values /\ done = values
  PROVE  Believes([b EXCEPT ![t] = Over(sent, @)], [r EXCEPT ![t] = Over(done, @)])
PROOF
  <1> DEFINE newR == Over(done, r[t])
             newB == Over(sent, b[t])
  <1>1. /\ newR = [i \in Registers |-> newR[i]]
        /\ \A i \in Registers : newR[i] = IF i \in DOMAIN done THEN done[i] ELSE r[t][i]
    BY OverFacts
  <1>2. /\ newB = [i \in Registers |-> newB[i]]
        /\ \A i \in Registers : newB[i] = IF i \in DOMAIN sent THEN sent[i] ELSE b[t][i]
    BY OverFacts
  <1> HIDE DEF newR, newB
  <1>3. \A i \in Registers : /\ r[t][i] \in Seq(Digits) /\ Len(r[t][i]) = RegisterList[i].bytes
                             /\ b[t][i] \in {Unknown, r[t][i]}
    BY DEF Believes, Readings
  <1>4. \A i \in Registers : newR[i] \in Seq(Digits) /\ Len(newR[i]) = RegisterList[i].bytes
    BY <1>1, <1>3
  <1>5. \A i \in Registers : newB[i] \in {Unknown, newR[i]}
    BY <1>1, <1>2, <1>3
  <1>6. Believes([b EXCEPT ![t] = newB], [r EXCEPT ![t] = newR])
    BY <1>1, <1>2, <1>4, <1>5, Replaced
  <1>7. /\ [b EXCEPT ![t] = Over(sent, @)] = [b EXCEPT ![t] = newB]
        /\ [r EXCEPT ![t] = Over(done, @)] = [r EXCEPT ![t] = newR]
    BY DEF newR, newB
  <1> QED
    BY <1>6, <1>7

\* WriteTargetRegisters, when the client sends what the stub writes.
LEMMA BeliefWrite ==
  ASSUME TypeOK, AgreeInv, BeliefInv, ClientMayAsk,
         NEW values, DOMAIN values \subseteq Registers,
         \A i \in DOMAIN values : values[i] \in Seq(Digits) /\ Len(values[i]) = RegisterList[i].bytes,
         Write(values, values)
  PROVE  BeliefInv'
PROOF
  <1>1. StubThread = ClientThread /\ ClientThread \in Threads
    BY SameThread
  <1>2. pc' = "idle"
    BY DEF Write, tcVars, ClientMayAsk
  <1>3. Believes(believed, regs)
    BY DEF BeliefInv
  <1> DEFINE t == ClientThread
  <1> HIDE DEF t
  <1>4. CASE /\ regs' = [regs EXCEPT ![t] = Over(values, @)]
             /\ believed' = [believed EXCEPT ![t] = Over(values, @)]
    <2>1. Believes(believed', regs')
      BY <1>1, <1>3, <1>4, Written DEF t
    <2> QED
      BY <1>2, <2>1 DEF BeliefInv, Believes
  <1>5. ASSUME NEW done \in SUBSET DOMAIN values,
               regs' = [regs EXCEPT ![t] = Over([i \in done |-> values[i]], @)],
               believed' = [believed EXCEPT ![t] = Over([i \in DOMAIN values |-> Unknown], @)]
        PROVE  BeliefInv'
    <2> DEFINE part == [i \in done |-> values[i]]
               none == [i \in DOMAIN values |-> Unknown]
    <2>1. /\ DOMAIN part \subseteq DOMAIN values /\ \A i \in DOMAIN part : part[i] = values[i]
          /\ DOMAIN none = DOMAIN values /\ \A i \in DOMAIN none : none[i] = Unknown
      OBVIOUS
    <2>2. /\ regs' = [regs EXCEPT ![t] = Over(part, @)]
          /\ believed' = [believed EXCEPT ![t] = Over(none, @)]
      BY <1>5
    <2> HIDE DEF part, none
    <2>3. Believes(believed', regs')
      BY <1>1, <1>3, <2>1, <2>2, Written DEF t
    <2> QED
      BY <1>2, <2>3 DEF BeliefInv, Believes
  <1> QED
    BY <1>1, <1>4, <1>5 DEF Write, t

\* Handle_g: registers the target could not read are not known.
LEMMA BeliefHandle_g ==
  ASSUME TypeOK, AgreeInv, BeliefInv, Handle_g
  PROVE  BeliefInv'
PROOF
  <1>1. StubThread = ClientThread /\ ClientThread \in Threads
    BY SameThread DEF Handle_g
  <1> DEFINE t == ClientThread
  <1>2. PICK valid \in SUBSET Registers :
          believed' = [believed EXCEPT ![t] =
            [i \in Registers |->
               Shown(Block([j \in Registers |-> IF j \in valid THEN regs[t][j] ELSE Unknown]), i)]]
    BY <1>1 DEF Handle_g
  <1>3. pc' = "idle" /\ regs' = regs
    BY DEF Handle_g, ClientMayAsk, tcVars
  <1> DEFINE values == [j \in Registers |-> IF j \in valid THEN regs[t][j] ELSE Unknown]
  <1>4. /\ values \in [Registers -> Seq(Digits)]
        /\ \A i \in Registers : values[i] = Unknown \/ Len(values[i]) = RegisterList[i].bytes
        /\ \A i \in Registers : values[i] \in {Unknown, regs[t][i]}
    <2>1. regs[t] \in Readings
      BY <1>1 DEF BeliefInv, Believes
    <2>2. Unknown \in Seq(Digits)
      BY DEF Unknown
    <2> QED
      BY <2>1, <2>2 DEF Readings
  <1> DEFINE shown == [i \in Registers |-> Shown(Block(values), i)]
  <1>5. believed' = [believed EXCEPT ![t] = shown]
    BY <1>2
  <1> HIDE DEF values, t
  <1>6. \A i \in Registers : shown[i] \in {Unknown, values[i]}
    BY <1>4, BlockShows
  <1>7. shown = [i \in Registers |-> shown[i]]
    OBVIOUS
  <1> HIDE DEF shown
  <1>8. Unknown \in Seq(Digits)
    BY DEF Unknown
  <1>9. shown \in [Registers -> Seq(Digits)]
    BY <1>4, <1>6, <1>7, <1>8
  <1>10. Believes(believed', regs)
    BY <1>1, <1>4, <1>5, <1>6, <1>9 DEF BeliefInv, Believes, t
  <1> QED
    BY <1>3, <1>10 DEF BeliefInv, Believes

\* Handle_G: what is written is what was sent, up to the cut.
LEMMA BeliefHandle_G ==
  ASSUME TypeOK, AgreeInv, BeliefInv, NEW c \in AllContents, NEW k \in 0 .. Len(RegisterList),
         NEW n \in CutsBehind(k), Handle_G(c, k, n)
  PROVE  BeliefInv'
PROOF
  <1> DEFINE sent == [i \in 1 .. k |-> c[i]]
  <1>1. c \in Readings
    BY ContentsAreReadings
  <1>2. Parsed(SubSeq(Block(c), 1, Offset[k + 1] + n)) = sent
    BY <1>1, ParsedIsSent
  <1>3. Write(sent, sent) /\ ClientMayAsk
    BY <1>2 DEF Handle_G
  <1>4. /\ DOMAIN sent \subseteq Registers
        /\ \A i \in DOMAIN sent : sent[i] \in Seq(Digits) /\ Len(sent[i]) = RegisterList[i].bytes
    <2>1. DOMAIN sent = 1 .. k /\ \A i \in 1 .. k : sent[i] = c[i]
      OBVIOUS
    <2> HIDE DEF sent
    <2>2. 1 .. k \subseteq Registers
      BY Offsets
    <2>3. \A i \in Registers : c[i] \in Seq(Digits) /\ Len(c[i]) = RegisterList[i].bytes
      BY <1>1 DEF Readings
    <2> QED
      BY <2>1, <2>2, <2>3
  <1> HIDE DEF sent
  <1> QED
    BY <1>3, <1>4, BeliefWrite

\* Handle_P: the one register, cut to its size.
LEMMA BeliefHandle_P ==
  ASSUME TypeOK, AgreeInv, BeliefInv, NEW n \in 0 .. Len(RegisterList),
         NEW value \in UNION {Contents[i] : i \in Registers}, Handle_P(n, value)
  PROVE  BeliefInv'
PROOF
  <1> DEFINE i == n + 1
             b == RegisterList[i].bytes
             values == [j \in {i} |-> SubSeq(value, 1, b)]
  <1>1. i \in Registers /\ Len(value) >= b /\ Write(values, values) /\ ClientMayAsk
    BY Offsets DEF Handle_P
  <1>2. b \in Nat \ {0}
    BY <1>1, Offsets
  <1>3. value \in Seq(Digits)
    <2>1. PICK j \in Registers : value \in Contents[j]
      OBVIOUS
    <2> DEFINE len == RegisterList[j].bytes
    <2>2. len \in Nat /\ value \in [1 .. len -> STRING]
      BY <2>1, Offsets, RegisterAssumption DEF RegisterAssumption
    <2> HIDE DEF len
    <2>3. value \in [1 .. len -> Digits]
      BY <2>2 DEF Digits
    <2> HIDE DEF Digits
    <2> QED
      BY <2>2, <2>3
  <1> HIDE DEF b
  <1>4. SubSeq(value, 1, b) \in Seq(Digits) /\ Len(SubSeq(value, 1, b)) = b
    BY <1>1, <1>2, <1>3
  <1>5. /\ DOMAIN values \subseteq Registers
        /\ \A j \in DOMAIN values : values[j] \in Seq(Digits) /\ Len(values[j]) = RegisterList[j].bytes
    BY <1>1, <1>4 DEF b
  <1> HIDE DEF values
  <1> QED
    BY <1>1, <1>5, BeliefWrite

\* The registers a stop reply brings are those of the thread it names.
LEMMA ReportedTruly ==
  ASSUME NEW valid \in SUBSET FrameRelated
  PROVE  Reported(valid) = [i \in valid |-> regs[stopThread][i]]
PROOF
  <1>1. /\ valid \subseteq Registers
        /\ \A i \in valid : i \in Nat /\ RegisterList[i].index = i - 1
    BY RegisterAssumption, Offsets DEF RegisterAssumption
  <1> DEFINE Place(index) == CHOOSE j \in valid : RegisterList[j].index = index
             all == {RegisterList[j].index + 1 : j \in valid}
  <1>2. all = valid
    <2>1. \A j \in valid : RegisterList[j].index + 1 = j
      BY <1>1
    <2> QED
      BY <2>1
  <1>3. \A i \in valid : Place(i - 1) = i
    <2> SUFFICES ASSUME NEW i \in valid PROVE Place(i - 1) = i
      OBVIOUS
    <2>1. \A j \in valid : RegisterList[j].index = i - 1 <=> j = i
      BY <1>1
    <2> QED
      BY <2>1
  <1>4. Reported(valid) = [i \in all |-> regs[stopThread][Place(i - 1)]]
    BY DEF Reported
  <1> HIDE DEF Place, all
  <1> QED
    BY <1>2, <1>3, <1>4

\* The registers of a stop reply.
LEMMA BeliefTold ==
  ASSUME TypeOK, BeliefInv, Told, pc' = "idle"
  PROVE  BeliefInv'
PROOF
  <1>1. PICK valid \in SUBSET FrameRelated :
          believed' = [believed EXCEPT ![stopThread] = Over(Reported(valid), @)]
    BY DEF Told
  <1>2. regs' = regs
    BY DEF Told
  <1>3. stopThread \in Threads /\ valid \subseteq Registers
    BY RegisterAssumption DEF TypeOK, RegisterAssumption
  <1>4. /\ believed \in [Threads -> [Registers -> Seq(Digits)]]
        /\ regs \in [Threads -> Readings]
        /\ \A t \in Threads : \A i \in Registers : believed[t][i] # Unknown => regs[t][i] = believed[t][i]
        /\ \A t \in Threads : \A i \in Registers : regs[t][i] \in Seq(Digits)
    BY DEF BeliefInv, Believes, Readings
  <1> DEFINE shown == Reported(valid)
             new == Over(shown, believed[stopThread])
  <1>5. DOMAIN shown = valid /\ \A i \in valid : shown[i] = regs[stopThread][i]
    BY ReportedTruly
  <1> HIDE DEF shown
  <1>6. /\ new = [i \in Registers |-> new[i]]
        /\ \A i \in Registers : new[i] = IF i \in valid THEN shown[i] ELSE believed[stopThread][i]
    BY <1>5, OverFacts
  <1> HIDE DEF new
  <1>7. \A i \in Registers : new[i] \in {Unknown, regs[stopThread][i]}
    BY <1>3, <1>4, <1>5, <1>6
  <1>8. new \in [Registers -> Seq(Digits)]
    <2>1. \A i \in Registers : new[i] \in Seq(Digits)
      BY <1>3, <1>4, <1>7, UnknownIsEmpty
    <2> QED
      BY <1>6, <2>1
  <1>9. believed' = [believed EXCEPT ![stopThread] = new]
    BY <1>1 DEF new, shown
  <1>10. Believes(believed', regs)
    BY <1>3, <1>4, <1>7, <1>8, <1>9 DEF Believes
  <1> QED
    BY <1>2, <1>10 DEF BeliefInv, Believes

\* Each step keeps what the client believes true.
LEMMA BeliefStep ==
  ASSUME TypeOK, AgreeInv, BeliefInv, [InspectionNext]_vars
  PROVE  BeliefInv'
PROOF
  <1>1. CASE UNCHANGED regVars /\ pc' = pc
    BY <1>1 DEF regVars, BeliefInv, Believes
  <1>2. CASE RegNext
    <2>1. CASE Selecting /\ UNCHANGED regVars
      BY <1>1, <2>1 DEF Selecting, QueryThreads, SelectAny, SelectThread
    <2>2. CASE QueryStopReason /\ Told
      BY <2>2, BeliefTold DEF QueryStopReason
    <2>3. CASE ResumeAll /\ Forget
      <3>1. NothingKnown \in [Threads -> [Registers -> Seq(Digits)]]
            /\ \A t \in Threads : \A i \in Registers : NothingKnown[t][i] = Unknown
        BY DEF NothingKnown, Unknown
      <3> QED
        BY <2>3, <3>1 DEF Forget, BeliefInv, Believes
    <2>4. CASE TargetStops /\ Running
      <3>1. regs' \in [Threads -> Readings] /\ believed' = believed /\ believed = NothingKnown
        BY <2>4, ContentsAreReadings DEF Running, TargetStops, BeliefInv
      <3>2. \A t \in Threads : \A i \in Registers : believed[t][i] = Unknown
        BY <3>1 DEF NothingKnown
      <3> QED
        BY <3>1, <3>2 DEF BeliefInv, Believes
    <2>5. CASE ReplyStopped /\ Told
      BY <2>5, BeliefTold DEF ReplyStopped
    <2>6. CASE RegisterPacket
      <3>1. CASE Handle_g
        BY <3>1, BeliefHandle_g
      <3>2. ASSUME NEW c \in AllContents, NEW k \in 0 .. Len(RegisterList), NEW n \in CutsBehind(k),
                   Handle_G(c, k, n)
            PROVE  BeliefInv'
        BY <3>2, BeliefHandle_G
      <3>3. ASSUME NEW n \in 0 .. Len(RegisterList),
                   NEW value \in UNION {Contents[i] : i \in Registers}, Handle_P(n, value)
            PROVE  BeliefInv'
        BY <3>3, BeliefHandle_P
      <3> QED
        BY <2>6, <3>1, <3>2, <3>3 DEF RegisterPacket
    <2> QED
      BY <1>2, <2>1, <2>2, <2>3, <2>4, <2>5, <2>6 DEF RegNext
  <1>3. CASE XferNext /\ UNCHANGED regVars
    <2>1. pc' = pc
      BY <1>3 DEF XferNext, StartTransfer, NextWindow, Handle_qXfer, TakeReport, tcVars
    <2> QED
      BY <1>1, <1>3, <2>1
  <1>4. CASE UNCHANGED vars
    BY <1>1, <1>4 DEF vars, tcVars
  <1> QED
    BY <1>2, <1>3, <1>4 DEF InspectionNext

\* At first the client knows nothing.
LEMMA BeliefInit == InspectionInit => BeliefInv
PROOF
  <1> SUFFICES ASSUME InspectionInit PROVE BeliefInv
    OBVIOUS
  <1>1. regs \in [Threads -> Readings]
    BY ContentsAreReadings DEF InspectionInit, RegInit
  <1>2. /\ believed \in [Threads -> [Registers -> Seq(Digits)]]
        /\ \A t \in Threads : \A i \in Registers : believed[t][i] = Unknown
    BY DEF InspectionInit, RegInit, NothingKnown, Unknown
  <1> QED
    BY <1>1, <1>2 DEF BeliefInv, Believes, InspectionInit, RegInit

-----------------------------------------------------------------------------
(* Reports.                                                                *)

\* The report of this name, given the list of threads.
ReportOf(name, ids) ==
  CASE name = "threads"    -> Document(ThreadEntries(ids))
    [] name = "memory-map" -> Document(Regions)
    [] name = "libraries"  -> Document(Libraries)

Objects == {"threads", "memory-map", "libraries"}

\* What the client has so far is the beginning of the report, and a list of
\* threads that it has begun to read is in the cache.
ReportInv ==
  /\ transfer = "none" => assembled = <<>>
  /\ transfer # "none" =>
       LET report == ReportOf(object, m_CachedThreadInfo)
       IN  /\ object \in Objects
           /\ Len(assembled) \in 0 .. Len(report)
           /\ assembled = SubSeq(report, 1, Len(assembled))
           /\ transfer = "whole" => Len(assembled) = Len(report)
           /\ object = "threads" /\ Len(assembled) > 0 => m_bThreadCacheValid

\* The tags around the entries make it a sequence of at least two.
LEMMA DocumentIs ==
  ASSUME NEW S, NEW entries \in Seq(S)
  PROVE  /\ Document(entries) \in Seq(S \cup {<<"open">>, <<"close">>})
         /\ Len(Document(entries)) >= 2
  BY DEF Document

\* A set of threads has a list, for it is finite.
LEMMA ThreadEntriesAre ==
  ASSUME NEW ids \in SUBSET Threads
  PROVE  \E S : ThreadEntries(ids) \in Seq(S)
PROOF
  <1> DEFINE n == Cardinality(ids)
             entries == ThreadEntries(ids)
  <1>1. n \in Nat
    <2>1. IsFiniteSet(ids)
      BY ThreadControlAssumption, FS_Subset DEF ThreadControlAssumption
    <2> QED
      BY <2>1, FS_CardinalityType
  <1>2. DOMAIN entries = 1 .. n /\ entries = [k \in 1 .. n |-> entries[k]]
    BY DEF ThreadEntries
  <1> HIDE DEF n, entries
  <1>3. entries \in Seq({entries[k] : k \in 1 .. n})
    BY <1>1, <1>2
  <1> QED
    BY <1>3 DEF entries

\* A report is a sequence, and never empty.
LEMMA ReportIs ==
  ASSUME NEW name \in Objects, NEW ids \in SUBSET Threads
  PROVE  \E S : ReportOf(name, ids) \in Seq(S) /\ Len(ReportOf(name, ids)) >= 2
PROOF
  <1>1. CASE name = "threads"
    <2>1. PICK S : ThreadEntries(ids) \in Seq(S)
      BY ThreadEntriesAre
    <2>2. ReportOf(name, ids) = Document(ThreadEntries(ids))
      BY <1>1 DEF ReportOf
    <2> QED
      BY <2>1, <2>2, DocumentIs
  <1>2. CASE name = "memory-map"
    <2>1. ReportOf(name, ids) = Document(Regions)
      BY <1>2 DEF ReportOf
    <2> QED
      BY <2>1, DocumentIs, XferAssumption DEF XferAssumption
  <1>3. CASE name = "libraries"
    <2>1. ReportOf(name, ids) = Document(Libraries)
      BY <1>3 DEF ReportOf
    <2> QED
      BY <2>1, DocumentIs, XferAssumption DEF XferAssumption
  <1> QED
    BY <1>1, <1>2, <1>3 DEF Objects

\* How long the beginning of a report is.
LEMMA Beginning ==
  ASSUME NEW S, NEW str \in Seq(S), NEW n \in 0 .. Len(str)
  PROVE  Len(SubSeq(str, 1, n)) = n
  OBVIOUS

\* A window continues what the client has of the report.
LEMMA WindowFollows ==
  ASSUME NEW S, NEW str \in Seq(S), NEW n \in 0 .. Len(str), NEW length \in Nat \ {0}
  PROVE  LET m == IF ReachesEnd(str, n, length) THEN Len(str) ELSE n + length
         IN  /\ m \in n .. Len(str)
             /\ SubSeq(str, 1, n) \o Window(str, n, length) = SubSeq(str, 1, m)
             /\ Len(SubSeq(str, 1, m)) = m
PROOF
  <1> DEFINE m == IF ReachesEnd(str, n, length) THEN Len(str) ELSE n + length
  <1>1. Len(str) \in Nat
    OBVIOUS
  <1>2. m \in n .. Len(str)
    BY <1>1 DEF ReachesEnd
  <1>3. Window(str, n, length) = SubSeq(str, n + 1, m)
    BY DEF Window, ReachesEnd
  <1> HIDE DEF m
  <1>4. 1 \in 1 .. Len(str) + 1 /\ n \in 1 - 1 .. Len(str)
    BY <1>1
  <1>5. SubSeq(str, 1, n) \o SubSeq(str, n + 1, m) = SubSeq(str, 1, m)
    BY <1>2, <1>4, ConcatAdjacentSubSeq
  <1>6. m \in 0 .. Len(str)
    BY <1>1, <1>2
  <1>7. Len(SubSeq(str, 1, m)) = m
    BY <1>6, Beginning
  <1> QED
    BY <1>2, <1>3, <1>5, <1>7 DEF m

\* The report is built again for every window, from the same list of threads.
LEMMA ReportWindow ==
  ASSUME "libraries" \notin Failures, TypeOK, TypeOK', AgreeInv, Transferring, ReportInv,
         NEW length \in 1 .. MaxWindow, Handle_qXfer(length)
  PROVE  ReportInv'
PROOF
  <1> DEFINE n == Len(assembled)
             str == ReportOf(object, m_CachedThreadInfo')
             old == ReportOf(object, m_CachedThreadInfo)
             m == IF ReachesEnd(str, n, length) THEN Len(str) ELSE n + length
  <1>1. /\ object \in Objects /\ object' = object /\ transfer = "reading"
        /\ n \in 0 .. Len(old) /\ assembled = SubSeq(old, 1, n)
        /\ object = "threads" /\ n > 0 => m_bThreadCacheValid
    BY DEF Handle_qXfer, ReportInv
  <1>2. length \in Nat \ {0}
    BY XferAssumption DEF XferAssumption
  <1>3. m_CachedThreadInfo \in SUBSET Threads /\ m_CachedThreadInfo' \in SUBSET Threads
    BY DEF TypeOK
  <1>4. PICK S : str \in Seq(S) /\ Len(str) >= 2
    BY <1>1, <1>3, ReportIs
  <1>5. /\ object = "threads" => m_bThreadCacheValid'
        /\ n > 0 => str = old
    <2>1. CASE object = "threads"
      BY <1>1, <2>1 DEF Handle_qXfer, ProvideThreadInfo
    <2>2. CASE object # "threads"
      BY <2>2 DEF Handle_qXfer, cache
    <2> QED
      BY <2>1, <2>2
  <1>6. n \in 0 .. Len(str) /\ assembled = SubSeq(str, 1, n)
    <2>1. CASE n > 0
      BY <1>1, <1>5, <2>1
    <2>2. CASE ~(n > 0)
      <3>1. n = 0
        BY <1>1, <2>2
      <3>2. SubSeq(old, 1, 0) = <<>> /\ SubSeq(str, 1, 0) = <<>>
        BY SubSeqEmpty
      <3> QED
        BY <1>1, <1>4, <3>1, <3>2
    <2> QED
      BY <2>1, <2>2
  <1>7. Reports(object) = {str}
    BY <1>1 DEF Reports, ReportOf, Objects
  <1>8. /\ assembled' = assembled \o Window(str, n, length)
        /\ transfer' = IF ReachesEnd(str, n, length) THEN "whole" ELSE "reading"
    <2>1. ~(Len(assembled) > Len(str))
      BY <1>4, <1>6
    <2> HIDE DEF str
    <2> QED
      BY <1>7, <2>1 DEF Handle_qXfer
  <1> HIDE DEF str, old, n
  <1>9. /\ m \in n .. Len(str) /\ Len(str) \in Nat
        /\ assembled' = SubSeq(str, 1, m) /\ Len(assembled') = m
    <2>1. /\ m \in n .. Len(str)
          /\ SubSeq(str, 1, n) \o Window(str, n, length) = SubSeq(str, 1, m)
          /\ Len(SubSeq(str, 1, m)) = m
      BY <1>2, <1>4, <1>6, WindowFollows
    <2>2. Len(str) \in Nat
      BY <1>4
    <2> HIDE DEF m
    <2>3. assembled' = SubSeq(str, 1, m)
      BY <1>6, <1>8, <2>1
    <2> QED
      BY <2>1, <2>2, <2>3
  <1>10. transfer' = "whole" => m = Len(str)
    BY <1>8
  <1>11. transfer' # "none" /\ m \in 0 .. Len(str)
    BY <1>6, <1>8, <1>9
  <1> HIDE DEF m
  <1> QED
    BY <1>1, <1>5, <1>9, <1>10, <1>11 DEF ReportInv, str

\* Each step keeps the windows read so far one beginning.
LEMMA ReportStep ==
  ASSUME "libraries" \notin Failures, TypeOK, TypeOK', AgreeInv, Transferring, ReportInv,
         [InspectionNext]_vars
  PROVE  ReportInv'
PROOF
  <1>1. CASE UNCHANGED vars
    BY <1>1 DEF vars, tcVars, cache, xferVars, ReportInv
  <1>2. CASE transfer = "none" /\ UNCHANGED xferVars
    BY <1>2 DEF xferVars, ReportInv
  <1>3. CASE XferNext
    <2>1. ASSUME NEW name \in Objects, StartTransfer(name)
          PROVE  ReportInv'
      <3>1. PICK S : ReportOf(name, m_CachedThreadInfo) \in Seq(S)
        BY ReportIs DEF TypeOK
      <3> DEFINE report == ReportOf(name, m_CachedThreadInfo)
      <3>2. Len(report) \in Nat
        BY <3>1
      <3>3. SubSeq(report, 1, 0) = <<>>
        BY SubSeqEmpty
      <3> HIDE DEF report
      <3>4. /\ assembled' = <<>> /\ Len(assembled') = 0 /\ transfer' = "reading" /\ object' = name
            /\ m_CachedThreadInfo' = m_CachedThreadInfo
        BY <2>1 DEF StartTransfer, ReportInv, tcVars, cache
      <3> QED
        BY <3>2, <3>3, <3>4 DEF ReportInv, report
    <2>2. CASE NextWindow
      BY <2>2, ReportWindow DEF NextWindow
    <2>3. CASE TakeReport
      BY <2>3 DEF TakeReport, ReportInv
    <2> QED
      BY <1>3, <2>1, <2>2, <2>3 DEF XferNext, Objects
  <1> QED
    BY <1>1, <1>2, <1>3 DEF InspectionNext

-----------------------------------------------------------------------------
(* The theorems.                                                           *)

\* The inductive invariant.
InspectionInv == TypeOK /\ Transferring /\ AgreeInv /\ BeliefInv

\* Every packet, and every stop of the target, preserves the invariant.
THEOREM InspectionInductive == InspectionSpec => []InspectionInv
PROOF
  <1>1. InspectionInit => InspectionInv
    <2>1. InspectionInit => TypeOK
      BY InvInit DEF InspectionInit, IInv
    <2>2. InspectionInit => Transferring
      BY DEF InspectionInit, XferInit, Transferring
    <2> QED
      BY <2>1, <2>2, AgreeInit, BeliefInit DEF InspectionInv
  <1>2. InspectionInv /\ TypeOK' /\ [InspectionNext]_vars => InspectionInv'
    BY TransferringStep, AgreeStep, BeliefStep DEF InspectionInv
  <1>3. InspectionSpec => []TypeOK
    BY InspectsAsThreadControl, TypeCorrect
  <1> QED
    BY <1>1, <1>2, <1>3, PTL DEF InspectionSpec

\* GDBStub.cpp:40-112, BasicGDBStub.cpp:239-260: the client's idea of a
\* register is what the stopped target has there, whichever thread H or a stop
\* reply selected, whatever could not be read, wherever a block was cut and
\* however far a write came before it failed.
THEOREM ClientKnowsRegisters == InspectionSpec => []RegistersAsBelieved
PROOF
  <1>1. InspectionInv => RegistersAsBelieved
    BY DEF InspectionInv, BeliefInv, Believes, RegistersAsBelieved
  <1> QED
    BY <1>1, InspectionInductive, PTL

\* BasicGDBStub.cpp:163-192: the thread a client without vCont has selected
\* exists and is the one the stub reads from, although the threads cannot always
\* be listed.  Here resumptions are reported; SelectedThreadAlive and
\* StubHonoursSelection say what is left of it otherwise.
THEOREM InspectsSelectedThread == InspectionSpec => [](SelectionAlive /\ SelectionHonoured)
PROOF
  <1>1. InspectionInv => SelectionAlive /\ SelectionHonoured
    BY DEF InspectionInv, AgreeInv
  <1> QED
    BY <1>1, InspectionInductive, PTL

\* GDBStub.cpp:186-206: the windows of a report make up one report, although
\* each is cut from one built for it alone and the target may fail to list its
\* threads.  A list of libraries that cannot be had is reported as an empty
\* one, hence the hypothesis.
THEOREM WindowsMakeReport ==
  ASSUME "libraries" \notin Failures
  PROVE  InspectionSpec => []ReportIsWhole
PROOF
  <1>1. InspectionInit => ReportInv
    BY DEF InspectionInit, XferInit, ReportInv
  <1>2. InspectionInv /\ InspectionInv' /\ ReportInv /\ [InspectionNext]_vars => ReportInv'
    BY ReportStep DEF InspectionInv
  <1>3. InspectionInv /\ ReportInv => ReportIsWhole
    <2> SUFFICES ASSUME InspectionInv, ReportInv, transfer = "whole" PROVE ReportIsWhole
      BY DEF ReportIsWhole
    <2> DEFINE report == ReportOf(object, m_CachedThreadInfo)
    <2>1. object \in Objects /\ m_CachedThreadInfo \in SUBSET Threads
      BY DEF InspectionInv, TypeOK, ReportInv
    <2>2. PICK S : report \in Seq(S) /\ Len(report) >= 2
      BY <2>1, ReportIs
    <2>3. /\ assembled = SubSeq(report, 1, Len(report)) /\ Len(assembled) = Len(report)
          /\ object = "threads" /\ Len(assembled) > 0 => m_bThreadCacheValid
      BY DEF ReportInv
    <2>4. assembled = report /\ Len(report) > 0
      <3> HIDE DEF report
      <3>1. SubSeq(report, 1, Len(report)) = report
        BY <2>2, SubSeqFull
      <3>2. Len(report) \in Nat
        BY <2>2
      <3> QED
        BY <2>2, <2>3, <3>1, <3>2
    <2>5. object = "threads" => m_CachedThreadInfo \in ThreadList
      BY <2>3, <2>4 DEF InspectionInv, AgreeInv
    <2> QED
      BY <2>1, <2>4, <2>5 DEF ReportIsWhole, ReportOf, Objects
  <1> QED
    BY <1>1, <1>2, <1>3, InspectionInductive, PTL DEF InspectionSpec
=============================================================================
