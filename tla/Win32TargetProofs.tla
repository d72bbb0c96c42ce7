--------------------------- MODULE Win32TargetProofs ---------------------------
(***************************************************************************)
(* Theorems about Win32Target, for any thread identifiers, with and        *)
(* without calls that fail.                                                *)
(***************************************************************************)
EXTENDS Win32Target, TLAPS

\* The process has no thread from its exit on, and only then.
Lifecycle == (event.code = "exitProcess") <=> (living = {})

\* StoppedIsFrozen's first half.
Frozen == pc # "waiting" => event = m_DebugEvent

\* ListsTheOthers, whatever the target is doing: what it has not seen yet is
\* the event the process is frozen at.
ListKept ==
  living # {} =>
    (IF pc = "waiting" THEN ThreadsAfter(event) ELSE m_Threads) \ {Main}
      = living \ (newborn \cup {Main})

\* SuspendedAsAsked, with what each part needs of the others: a queued thread is
\* one this vCont has set, so that none is suspended twice in it, and nothing of a
\* thread that ended is left for the next one with its identifier.
SuspensionsKept ==
  /\ \A t \in Threads : suspended[t] <= unrestored[t] + 1
  /\ \A t \in Threads : suspended[t] > unrestored[t] => \E i \in 1 .. Len(restoreQueue) : restoreQueue[i] = t
  /\ \A t \in Threads \ living : suspended[t] = 0
  /\ \A i \in 1 .. Len(restoreQueue) : restoreQueue[i] \in set
  /\ pc = "stopped" => restoreQueue = <<>>

IInv == TypeOK /\ Lifecycle /\ Frozen /\ ListKept /\ SuspensionsKept

-----------------------------------------------------------------------------

\* The process has just been created, or attached to: all of its threads but the
\* first are yet to be reported.
LEMMA InvInit == Init => IInv
PROOF
  <1> SUFFICES ASSUME Init PROVE IInv
    OBVIOUS
  <1> USE Win32Assumption
  <1>1. Main \in living /\ living \subseteq Threads /\ newborn = injected /\ injected \subseteq living
        /\ living = {Main} \cup newborn
    BY DEF Init
  <1>2. event \in [code : Codes, thread : Threads] /\ m_DebugEvent = event
    BY DEF Init, Codes
  <1>3. suspended \in [Threads -> Nat] /\ restoreQueue \in Seq(Threads)
    BY DEF Init
  <1>4. TypeOK
    BY <1>1, <1>2, <1>3 DEF Init, TypeOK
  <1>5. Lifecycle /\ Frozen /\ ListKept
    BY <1>1 DEF Init, Lifecycle, Frozen, ListKept
  <1>6. SuspensionsKept
    BY <1>1 DEF Init, SuspensionsKept
  <1> QED
    BY <1>4, <1>5, <1>6 DEF IInv

\* What a restoring call that succeeds does to the thread, and to no other.
LEMMA RestoreEffect ==
  ASSUME TypeOK, Restore, NEW h, h = Head(restoreQueue)
  PROVE  /\ h \in Threads /\ restoreQueue' \in Seq(Threads)
         /\ suspended' \in [Threads -> Nat]
         /\ suspended'[h] = suspended[h] - Undoable(h)
         /\ \A t \in Threads \ {h} : suspended'[t] = suspended[t]
PROOF
  <1>1. restoreQueue \in Seq(Threads) /\ suspended \in [Threads -> Nat]
    BY DEF TypeOK
  <1>2. /\ restoreQueue # <<>> /\ restoreQueue' = Tail(restoreQueue)
        /\ suspended' = [suspended EXCEPT ![h] = @ - Undoable(h)]
    BY DEF Restore
  <1>3. h \in Threads /\ restoreQueue' \in Seq(Threads)
    BY <1>1, <1>2
  <1>4. suspended[h] \in Nat
    BY <1>1, <1>3
  <1>5. suspended[h] - Undoable(h) \in Nat
    BY <1>4 DEF Undoable
  <1> HIDE DEF Undoable
  <1> QED
    BY <1>1, <1>2, <1>3, <1>5

\* And one that fails.
LEMMA RestoreFailsEffect ==
  ASSUME TypeOK, RestoreFails, NEW h, h = Head(restoreQueue)
  PROVE  /\ h \in Threads /\ restoreQueue' \in Seq(Threads)
         /\ unrestored' \in [Threads -> Nat]
         /\ unrestored'[h] = unrestored[h] + Undoable(h)
         /\ \A t \in Threads \ {h} : unrestored'[t] = unrestored[t]
PROOF
  <1>1. restoreQueue \in Seq(Threads) /\ unrestored \in [Threads -> Nat]
    BY DEF TypeOK
  <1>2. /\ restoreQueue # <<>> /\ restoreQueue' = Tail(restoreQueue)
        /\ unrestored' = [unrestored EXCEPT ![h] = @ + Undoable(h)]
    BY DEF RestoreFails, MayFailToRestore
  <1>3. h \in Threads /\ restoreQueue' \in Seq(Threads)
    BY <1>1, <1>2
  <1>4. unrestored[h] \in Nat
    BY <1>1, <1>3
  <1>5. unrestored[h] + Undoable(h) \in Nat
    BY <1>4 DEF Undoable
  <1> QED
    BY <1>1, <1>2, <1>3, <1>5

\* Every step keeps the types.
LEMMA TypeStep ==
  ASSUME TypeOK, [Next]_vars
  PROVE  TypeOK'
PROOF
  <1> USE Win32Assumption DEF suspensions, TypeOK, NoEvent, Codes
  <1>1. ASSUME NEW t \in Threads, Spawn(t) PROVE TypeOK'
    BY <1>1 DEF Spawn, NewThread, targetAndStub, calls
  <1>2. ASSUME NEW t \in Threads, ThreadCreated(t) PROVE TypeOK'
    BY <1>2 DEF ThreadCreated, Running, Occurs, targetAndStub, calls
  <1>3. ASSUME NEW t \in Threads, ThreadExits(t) PROVE TypeOK'
    BY <1>3 DEF ThreadExits, Running, Occurs, targetAndStub, calls
  <1>4. ASSUME NEW t \in Threads, Breaks(t) PROVE TypeOK'
    BY <1>4 DEF Breaks, Runs, Running, Occurs, targetAndStub, calls
  <1>5. ASSUME NEW t \in Threads, Steps(t) PROVE TypeOK'
    BY <1>5 DEF Steps, Runs, Running, Occurs, targetAndStub, calls
  <1>6. ASSUME NEW t \in Threads, LoadsLibrary(t) PROVE TypeOK'
    BY <1>6 DEF LoadsLibrary, Runs, Running, Occurs, process, targetAndStub, calls
  <1>7. ASSUME NEW t \in Threads, ProcessExits(t) PROVE TypeOK'
    BY <1>7 DEF ProcessExits, Runs, Running, Occurs, targetAndStub, calls
  <1>8. ASSUME NEW t \in Threads, SendBreakInRequestAsync(t) PROVE TypeOK'
    BY <1>8 DEF SendBreakInRequestAsync, NewThread, calls
  <1>9. ASSUME ResumeAndWait PROVE TypeOK'
    BY <1>9 DEF ResumeAndWait, Continue, MayResume, StopReason, process
  <1>10. ASSUME RestoreFails PROVE TypeOK'
    BY <1>10, RestoreFailsEffect DEF RestoreFails
  <1>11. ASSUME NEW t \in Threads, Step(t) PROVE TypeOK'
    BY <1>11 DEF Step, Continue, MayResume, StopReason, EnableSingleStep
  <1>12. ASSUME NEW t \in Threads, SetSingleStep(t) PROVE TypeOK'
    BY <1>12 DEF SetSingleStep, MayResume, EnableSingleStep
  <1>13. ASSUME NEW t \in Threads, SetSuspend(t) PROVE TypeOK'
    BY <1>13 DEF SetSuspend, MayResume, Named
  <1>14. ASSUME NEW t \in Threads, SetModeFails(t) PROVE TypeOK'
    BY <1>14 DEF SetModeFails, MayResume, process
  <1>15. ASSUME WaitForDebugEvent PROVE TypeOK'
    BY <1>15 DEF WaitForDebugEvent, ReturnOrContinue, ReturnsToStub, IsDebugEventSupportedByGDB, ThreadsAfter
  <1>16. ASSUME Restore PROVE TypeOK'
    BY <1>16, RestoreEffect DEF Restore
  <1>17. ASSUME Reply PROVE TypeOK'
    BY <1>17 DEF Reply, process
  <1>18. CASE UNCHANGED vars
    BY <1>18 DEF vars, process, calls
  <1> QED
    BY <1>1, <1>2, <1>3, <1>4, <1>5, <1>6, <1>7, <1>8, <1>9, <1>10, <1>11, <1>12, <1>13, <1>14, <1>15, <1>16, <1>17, <1>18 DEF Next, Process, Client, StubThread

\* A process that is frozen stays at its event until the target continues it, and
\* only its exit takes its threads away.
LEMMA LifeStep ==
  ASSUME TypeOK, Lifecycle, Frozen, [Next]_vars
  PROVE  Lifecycle' /\ Frozen'
PROOF
  <1> USE Win32Assumption DEF suspensions, TypeOK, Lifecycle, Frozen, NoEvent, Codes
  <1>1. ASSUME NEW t \in Threads, Spawn(t) PROVE Lifecycle' /\ Frozen'
    BY <1>1 DEF Spawn, NewThread, targetAndStub, calls
  <1>2. ASSUME NEW t \in Threads, ThreadCreated(t) PROVE Lifecycle' /\ Frozen'
    BY <1>2 DEF ThreadCreated, Running, Occurs, targetAndStub, calls
  <1>3. ASSUME NEW t \in Threads, ThreadExits(t) PROVE Lifecycle' /\ Frozen'
    BY <1>3 DEF ThreadExits, Running, Occurs, targetAndStub, calls
  <1>4. ASSUME NEW t \in Threads, Breaks(t) PROVE Lifecycle' /\ Frozen'
    BY <1>4 DEF Breaks, Runs, Running, Occurs, targetAndStub, calls
  <1>5. ASSUME NEW t \in Threads, Steps(t) PROVE Lifecycle' /\ Frozen'
    BY <1>5 DEF Steps, Runs, Running, Occurs, targetAndStub, calls
  <1>6. ASSUME NEW t \in Threads, LoadsLibrary(t) PROVE Lifecycle' /\ Frozen'
    BY <1>6 DEF LoadsLibrary, Runs, Running, Occurs, process, targetAndStub, calls
  <1>7. ASSUME NEW t \in Threads, ProcessExits(t) PROVE Lifecycle' /\ Frozen'
    BY <1>7 DEF ProcessExits, Runs, Running, Occurs, targetAndStub, calls
  <1>8. ASSUME NEW t \in Threads, SendBreakInRequestAsync(t) PROVE Lifecycle' /\ Frozen'
    BY <1>8 DEF SendBreakInRequestAsync, NewThread, calls
  <1>9. ASSUME ResumeAndWait PROVE Lifecycle' /\ Frozen'
    BY <1>9 DEF ResumeAndWait, Continue, MayResume, StopReason, process
  <1>10. ASSUME RestoreFails PROVE Lifecycle' /\ Frozen'
    BY <1>10 DEF RestoreFails, MayFailToRestore, Undoable
  <1>11. ASSUME NEW t \in Threads, Step(t) PROVE Lifecycle' /\ Frozen'
    BY <1>11 DEF Step, Continue, MayResume, StopReason, EnableSingleStep
  <1>12. ASSUME NEW t \in Threads, SetSingleStep(t) PROVE Lifecycle' /\ Frozen'
    BY <1>12 DEF SetSingleStep, MayResume, EnableSingleStep
  <1>13. ASSUME NEW t \in Threads, SetSuspend(t) PROVE Lifecycle' /\ Frozen'
    BY <1>13 DEF SetSuspend, MayResume, Named
  <1>14. ASSUME NEW t \in Threads, SetModeFails(t) PROVE Lifecycle' /\ Frozen'
    BY <1>14 DEF SetModeFails, MayResume, process
  <1>15. ASSUME WaitForDebugEvent PROVE Lifecycle' /\ Frozen'
    BY <1>15 DEF WaitForDebugEvent, ReturnOrContinue, ReturnsToStub, IsDebugEventSupportedByGDB, ThreadsAfter
  <1>16. ASSUME Restore PROVE Lifecycle' /\ Frozen'
    BY <1>16 DEF Restore, Undoable
  <1>17. ASSUME Reply PROVE Lifecycle' /\ Frozen'
    BY <1>17 DEF Reply, process
  <1>18. CASE UNCHANGED vars
    BY <1>18 DEF vars, process, calls
  <1> QED
    BY <1>1, <1>2, <1>3, <1>4, <1>5, <1>6, <1>7, <1>8, <1>9, <1>10, <1>11, <1>12, <1>13, <1>14, <1>15, <1>16, <1>17, <1>18 DEF Next, Process, Client, StubThread

\* The target's list and the threads there are change by the same event: the
\* process by reporting it, the list when it is seen.
LEMMA ListStep ==
  ASSUME TypeOK, Frozen, ListKept, [Next]_vars
  PROVE  ListKept'
PROOF
  <1> USE Win32Assumption DEF suspensions, TypeOK, ListKept, Frozen, NoEvent, Codes, ThreadsAfter
  <1>1. ASSUME NEW t \in Threads, Spawn(t) PROVE ListKept'
    BY <1>1 DEF Spawn, NewThread, targetAndStub, calls
  <1>2. ASSUME NEW t \in Threads, ThreadCreated(t) PROVE ListKept'
    BY <1>2 DEF ThreadCreated, Running, Occurs, targetAndStub, calls
  <1>3. ASSUME NEW t \in Threads, ThreadExits(t) PROVE ListKept'
    BY <1>3 DEF ThreadExits, Running, Occurs, targetAndStub, calls
  <1>4. ASSUME NEW t \in Threads, Breaks(t) PROVE ListKept'
    BY <1>4 DEF Breaks, Runs, Running, Occurs, targetAndStub, calls
  <1>5. ASSUME NEW t \in Threads, Steps(t) PROVE ListKept'
    BY <1>5 DEF Steps, Runs, Running, Occurs, targetAndStub, calls
  <1>6. ASSUME NEW t \in Threads, LoadsLibrary(t) PROVE ListKept'
    BY <1>6 DEF LoadsLibrary, Runs, Running, Occurs, process, targetAndStub, calls
  <1>7. ASSUME NEW t \in Threads, ProcessExits(t) PROVE ListKept'
    BY <1>7 DEF ProcessExits, Runs, Running, Occurs, targetAndStub, calls
  <1>8. ASSUME NEW t \in Threads, SendBreakInRequestAsync(t) PROVE ListKept'
    BY <1>8 DEF SendBreakInRequestAsync, NewThread, calls
  <1>9. ASSUME ResumeAndWait PROVE ListKept'
    BY <1>9 DEF ResumeAndWait, Continue, MayResume, StopReason, process
  <1>10. ASSUME RestoreFails PROVE ListKept'
    BY <1>10 DEF RestoreFails, MayFailToRestore, Undoable
  <1>11. ASSUME NEW t \in Threads, Step(t) PROVE ListKept'
    BY <1>11 DEF Step, Continue, MayResume, StopReason, EnableSingleStep
  <1>12. ASSUME NEW t \in Threads, SetSingleStep(t) PROVE ListKept'
    BY <1>12 DEF SetSingleStep, MayResume, EnableSingleStep
  <1>13. ASSUME NEW t \in Threads, SetSuspend(t) PROVE ListKept'
    BY <1>13 DEF SetSuspend, MayResume, Named
  <1>14. ASSUME NEW t \in Threads, SetModeFails(t) PROVE ListKept'
    BY <1>14 DEF SetModeFails, MayResume, process
  <1>15. ASSUME WaitForDebugEvent PROVE ListKept'
    BY <1>15 DEF WaitForDebugEvent, ReturnOrContinue, ReturnsToStub, IsDebugEventSupportedByGDB, ThreadsAfter
  <1>16. ASSUME Restore PROVE ListKept'
    BY <1>16 DEF Restore, Undoable
  <1>17. ASSUME Reply PROVE ListKept'
    BY <1>17 DEF Reply, process
  <1>18. CASE UNCHANGED vars
    BY <1>18 DEF vars, process, calls
  <1> QED
    BY <1>1, <1>2, <1>3, <1>4, <1>5, <1>6, <1>7, <1>8, <1>9, <1>10, <1>11, <1>12, <1>13, <1>14, <1>15, <1>16, <1>17, <1>18 DEF Next, Process, Client, StubThread

\* A restoring call, whether it succeeds or not, settles what is owed to the thread
\* at the head of the queue, and nothing of what is owed to another.
LEMMA Dequeued ==
  ASSUME TypeOK, SuspensionsKept,
         restoreQueue # <<>>, restoreQueue' = Tail(restoreQueue),
         suspended' \in [Threads -> Nat], unrestored' \in [Threads -> Nat],
         suspended'[Head(restoreQueue)] <= unrestored'[Head(restoreQueue)],
         \A t \in Threads \ {Head(restoreQueue)} : suspended'[t] = suspended[t] /\ unrestored'[t] = unrestored[t],
         \A t \in Threads \ living : suspended'[t] = 0,
         living' = living, set' = set, pc = "restore", pc' = pc
  PROVE  SuspensionsKept'
PROOF
  <1> DEFINE h == restoreQueue[1]
  <1>1. restoreQueue \in Seq(Threads) /\ suspended \in [Threads -> Nat] /\ unrestored \in [Threads -> Nat]
    BY DEF TypeOK
  <1>2. /\ h \in Threads /\ Head(restoreQueue) = h
        /\ Len(restoreQueue) \in Nat /\ Len(restoreQueue') = Len(restoreQueue) - 1
        /\ \A i \in 1 .. Len(restoreQueue') : restoreQueue'[i] = restoreQueue[i + 1]
    BY <1>1
  <1> HIDE DEF h
  <1>3. suspended'[h] <= unrestored'[h]
    BY <1>2
  <1>4. ASSUME NEW t \in Threads, t # h
        PROVE  suspended'[t] = suspended[t] /\ unrestored'[t] = unrestored[t]
    BY <1>2, <1>4
  <1>5. ASSUME NEW t \in Threads PROVE suspended'[t] <= unrestored'[t] + 1
    <2>1. suspended'[t] \in Nat /\ unrestored'[t] \in Nat
      OBVIOUS
    <2>2. CASE t = h
      BY <1>3, <2>1, <2>2
    <2>3. CASE t # h
      BY <1>4, <2>3 DEF SuspensionsKept
    <2> QED
      BY <2>2, <2>3
  <1>6. ASSUME NEW t \in Threads, suspended'[t] > unrestored'[t]
        PROVE  \E i \in 1 .. Len(restoreQueue') : restoreQueue'[i] = t
    <2>1. suspended'[t] \in Nat /\ unrestored'[t] \in Nat
      OBVIOUS
    <2>2. t # h
      BY <1>3, <1>6, <2>1
    <2>3. suspended[t] > unrestored[t]
      BY <1>4, <1>6, <2>2
    <2>4. PICK i \in 1 .. Len(restoreQueue) : restoreQueue[i] = t
      BY <2>3 DEF SuspensionsKept
    <2>5. i \in Nat /\ i # 1 /\ i - 1 \in 1 .. Len(restoreQueue')
      BY <1>2, <2>2, <2>4 DEF h
    <2>6. restoreQueue'[i - 1] = restoreQueue[(i - 1) + 1]
      BY <1>2, <2>5
    <2>7. (i - 1) + 1 = i
      BY <2>5
    <2>8. restoreQueue'[i - 1] = t
      BY <2>4, <2>6, <2>7
    <2> QED
      BY <2>5, <2>8
  <1>7. ASSUME NEW i \in 1 .. Len(restoreQueue') PROVE restoreQueue'[i] \in set'
    <2>1. i + 1 \in 1 .. Len(restoreQueue)
      BY <1>2
    <2>2. restoreQueue[i + 1] \in set
      BY <2>1 DEF SuspensionsKept
    <2> QED
      BY <1>2, <2>2
  <1>8. pc' # "stopped" /\ \A t \in Threads \ living' : suspended'[t] = 0
    OBVIOUS
  <1> QED
    BY <1>5, <1>6, <1>7, <1>8 DEF SuspensionsKept

\* A thread that is suspended is not in the queue yet, and is put there.
LEMMA Enqueued ==
  ASSUME TypeOK, SuspensionsKept, NEW t \in living, t \notin set,
         suspended' = [suspended EXCEPT ![t] = @ + 1], unrestored' = unrestored,
         restoreQueue' = Append(restoreQueue, t), set' = set \cup {t},
         living' = living, pc' = "vCont"
  PROVE  SuspensionsKept'
PROOF
  <1>1. /\ restoreQueue \in Seq(Threads) /\ suspended \in [Threads -> Nat] /\ unrestored \in [Threads -> Nat]
        /\ t \in Threads
    BY DEF TypeOK
  <1>2. /\ Len(restoreQueue) \in Nat /\ Len(restoreQueue') = Len(restoreQueue) + 1
        /\ restoreQueue'[Len(restoreQueue')] = t
        /\ \A i \in 1 .. Len(restoreQueue) : restoreQueue'[i] = restoreQueue[i]
    BY <1>1
  <1>3. suspended[t] <= unrestored[t]
    <2>1. suspended[t] \in Nat /\ unrestored[t] \in Nat
      BY <1>1
    <2>2. ~(suspended[t] > unrestored[t])
      BY <1>1 DEF SuspensionsKept
    <2> QED
      BY <2>1, <2>2
  <1>4. suspended'[t] = suspended[t] + 1 /\ \A u \in Threads \ {t} : suspended'[u] = suspended[u]
    BY <1>1
  <1>5. ASSUME NEW u \in Threads PROVE suspended'[u] <= unrestored'[u] + 1
    <2>1. suspended[u] \in Nat /\ unrestored[u] \in Nat
      BY <1>1
    <2>2. CASE u = t
      BY <1>3, <1>4, <2>1, <2>2
    <2>3. CASE u # t
      BY <1>4, <2>3 DEF SuspensionsKept
    <2> QED
      BY <2>2, <2>3
  <1>6. ASSUME NEW u \in Threads, suspended'[u] > unrestored'[u]
        PROVE  \E i \in 1 .. Len(restoreQueue') : restoreQueue'[i] = u
    <2>1. CASE u = t
      BY <1>2, <2>1
    <2>2. CASE u # t
      <3>1. suspended[u] > unrestored[u]
        BY <1>4, <1>6, <2>2
      <3>2. PICK i \in 1 .. Len(restoreQueue) : restoreQueue[i] = u
        BY <3>1 DEF SuspensionsKept
      <3> QED
        BY <1>2, <3>2
    <2> QED
      BY <2>1, <2>2
  <1>7. \A i \in 1 .. Len(restoreQueue') : restoreQueue'[i] \in set'
    BY <1>2 DEF SuspensionsKept
  <1>8. \A u \in Threads \ living' : suspended'[u] = 0
    BY <1>4 DEF SuspensionsKept
  <1> QED
    BY <1>5, <1>6, <1>7, <1>8 DEF SuspensionsKept

\* A mode is set once for a thread, so that one resumption for each suspension
\* lets it run.
LEMMA SuspensionStep ==
  ASSUME TypeOK, SuspensionsKept, [Next]_vars
  PROVE  SuspensionsKept'
PROOF
  <1> USE Win32Assumption DEF suspensions, TypeOK, SuspensionsKept
  <1>1. ASSUME NEW t \in Threads, Spawn(t) PROVE SuspensionsKept'
    BY <1>1 DEF Spawn, NewThread, targetAndStub, calls
  <1>2. ASSUME NEW t \in Threads, ThreadCreated(t) PROVE SuspensionsKept'
    BY <1>2 DEF ThreadCreated, Running, Occurs, targetAndStub, calls
  <1>3. ASSUME NEW t \in Threads, ThreadExits(t) PROVE SuspensionsKept'
    <2>1. /\ suspended' = [suspended EXCEPT ![t] = 0] /\ unrestored' = [unrestored EXCEPT ![t] = 0]
          /\ living' = living \ {t} /\ restoreQueue' = restoreQueue /\ set' = set /\ pc' = pc
      BY <1>3 DEF ThreadExits, targetAndStub, calls
    <2>2. suspended'[t] = 0 /\ unrestored'[t] = 0
      BY <2>1
    <2>3. ASSUME NEW u \in Threads \ {t} PROVE suspended'[u] = suspended[u] /\ unrestored'[u] = unrestored[u]
      BY <2>1
    <2> HIDE DEF TypeOK
    <2> QED
      BY <2>1, <2>2, <2>3
  <1>4. ASSUME NEW t \in Threads, Breaks(t) PROVE SuspensionsKept'
    BY <1>4 DEF Breaks, Runs, Running, Occurs, targetAndStub, calls
  <1>5. ASSUME NEW t \in Threads, Steps(t) PROVE SuspensionsKept'
    BY <1>5 DEF Steps, Runs, Running, Occurs, targetAndStub, calls
  <1>6. ASSUME NEW t \in Threads, LoadsLibrary(t) PROVE SuspensionsKept'
    BY <1>6 DEF LoadsLibrary, Runs, Running, Occurs, process, targetAndStub, calls
  <1>7. ASSUME NEW t \in Threads, ProcessExits(t) PROVE SuspensionsKept'
    BY <1>7 DEF ProcessExits, Runs, Running, Occurs, targetAndStub, calls
  <1>8. ASSUME NEW t \in Threads, SendBreakInRequestAsync(t) PROVE SuspensionsKept'
    BY <1>8 DEF SendBreakInRequestAsync, NewThread, calls
  <1>9. ASSUME ResumeAndWait PROVE SuspensionsKept'
    BY <1>9 DEF ResumeAndWait, Continue, MayResume, StopReason, process
  <1>10. ASSUME RestoreFails PROVE SuspensionsKept'
    <2> DEFINE h == Head(restoreQueue)
    <2> HIDE DEF TypeOK, SuspensionsKept
    <2>1. /\ h \in Threads /\ unrestored' \in [Threads -> Nat]
          /\ unrestored'[h] = unrestored[h] + Undoable(h)
          /\ \A t \in Threads \ {h} : unrestored'[t] = unrestored[t]
      BY <1>10, RestoreFailsEffect
    <2>2. suspended[h] \in Nat /\ unrestored[h] \in Nat /\ suspended[h] <= unrestored[h] + 1
      BY <2>1 DEF TypeOK, SuspensionsKept
    <2>3. /\ restoreQueue # <<>> /\ restoreQueue' = Tail(restoreQueue) /\ pc = "restore"
          /\ suspended' = suspended /\ living' = living /\ set' = set /\ pc' = pc
      BY <1>10 DEF RestoreFails, MayFailToRestore
    <2>4. suspended'[h] <= unrestored'[h]
      BY <2>1, <2>2, <2>3 DEF Undoable
    <2>5. suspended' \in [Threads -> Nat] /\ \A t \in Threads \ living : suspended'[t] = 0
      BY <2>3 DEF TypeOK, SuspensionsKept
    <2> QED
      BY <2>1, <2>3, <2>4, <2>5, Dequeued
  <1>11. ASSUME NEW t \in Threads, Step(t) PROVE SuspensionsKept'
    BY <1>11 DEF Step, Continue, MayResume, StopReason, EnableSingleStep
  <1>12. ASSUME NEW t \in Threads, SetSingleStep(t) PROVE SuspensionsKept'
    BY <1>12 DEF SetSingleStep, MayResume, EnableSingleStep
  <1>13. ASSUME NEW t \in Threads, SetSuspend(t) PROVE SuspensionsKept'
    <2>1. t \in living /\ t \notin set
      BY <1>13 DEF SetSuspend, Named
    <2>2. /\ suspended' = [suspended EXCEPT ![t] = @ + 1] /\ unrestored' = unrestored
          /\ restoreQueue' = Append(restoreQueue, t) /\ set' = set \cup {t}
          /\ living' = living /\ pc' = "vCont"
      BY <1>13 DEF SetSuspend
    <2> HIDE DEF TypeOK, SuspensionsKept
    <2> QED
      BY <2>1, <2>2, Enqueued
  <1>14. ASSUME NEW t \in Threads, SetModeFails(t) PROVE SuspensionsKept'
    BY <1>14 DEF SetModeFails, MayResume, process
  <1>15. ASSUME WaitForDebugEvent PROVE SuspensionsKept'
    BY <1>15 DEF WaitForDebugEvent, ReturnOrContinue, ReturnsToStub, IsDebugEventSupportedByGDB, ThreadsAfter
  <1>16. ASSUME Restore PROVE SuspensionsKept'
    <2> DEFINE h == Head(restoreQueue)
    <2> HIDE DEF TypeOK, SuspensionsKept
    <2>1. /\ h \in Threads /\ suspended' \in [Threads -> Nat]
          /\ suspended'[h] = suspended[h] - Undoable(h)
          /\ \A t \in Threads \ {h} : suspended'[t] = suspended[t]
      BY <1>16, RestoreEffect
    <2>2. suspended[h] \in Nat /\ unrestored[h] \in Nat /\ suspended[h] <= unrestored[h] + 1
      BY <2>1 DEF TypeOK, SuspensionsKept
    <2>3. /\ restoreQueue # <<>> /\ restoreQueue' = Tail(restoreQueue) /\ pc = "restore"
          /\ unrestored' = unrestored /\ living' = living /\ set' = set /\ pc' = pc
      BY <1>16 DEF Restore
    <2>4. suspended'[h] <= unrestored'[h]
      BY <2>1, <2>2, <2>3 DEF Undoable
    <2>5. unrestored' \in [Threads -> Nat]
      BY <2>3 DEF TypeOK
    <2>6. \A t \in Threads \ living : suspended'[t] = 0
      BY <2>1, <2>2 DEF Undoable, SuspensionsKept
    <2> QED
      BY <2>1, <2>3, <2>4, <2>5, <2>6, Dequeued
  <1>17. ASSUME Reply PROVE SuspensionsKept'
    BY <1>17 DEF Reply, process
  <1>18. CASE UNCHANGED vars
    BY <1>18 DEF vars, process, calls
  <1> QED
    BY <1>1, <1>2, <1>3, <1>4, <1>5, <1>6, <1>7, <1>8, <1>9, <1>10, <1>11, <1>12, <1>13, <1>14, <1>15, <1>16, <1>17, <1>18 DEF Next, Process, Client, StubThread

-----------------------------------------------------------------------------

\* Every step of the process, the client and the stub's thread keeps the invariant.
LEMMA InvStep == IInv /\ [Next]_vars => IInv'
  BY TypeStep, LifeStep, ListStep, SuspensionStep DEF IInv

\* The inductive invariant holds in every reachable state of the target.
THEOREM Invariance == Spec => []IInv
PROOF
  BY InvInit, InvStep, PTL DEF Spec

\* The types of the target's state.
THEOREM TypeCorrect == Spec => []TypeOK
PROOF
  <1>1. IInv => TypeOK
    BY DEF IInv
  <1> QED
    BY <1>1, Invariance, PTL

\* What the client holds to be stopped is frozen at the event that is reported.
THEOREM StopsAreStops == Spec => []StoppedIsFrozen
PROOF
  <1>1. IInv => StoppedIsFrozen
    BY DEF IInv, TypeOK, Lifecycle, Frozen, StoppedIsFrozen, StopReason, Codes
  <1> QED
    BY <1>1, Invariance, PTL

\* The thread list is that of the threads there are, whatever was hidden.
THEOREM ListIsRight == Spec => []ListsTheOthers
PROOF
  <1>1. IInv => ListsTheOthers
    BY DEF IInv, ListKept, ListsTheOthers
  <1> QED
    BY <1>1, Invariance, PTL

\* Outside the restoring loop a thread is suspended for nothing but restoring calls
\* of its own that failed, and never for one more than those and the one owed.
THEOREM SuspensionsEnd == Spec => []SuspendedAsAsked
PROOF
  <1>1. ASSUME IInv PROVE SuspendedAsAsked
    <2>0. restoreQueue \in Seq(Threads)
      BY <1>1 DEF IInv, TypeOK
    <2>1. ToSet(restoreQueue) = {restoreQueue[i] : i \in 1 .. Len(restoreQueue)}
      BY <2>0 DEF ToSet
    <2>2. ASSUME NEW t \in living PROVE suspended[t] <= unrestored[t] + Owed(t)
      <3>1. t \in Threads /\ suspended[t] \in Nat /\ unrestored[t] \in Nat
        BY <1>1 DEF IInv, TypeOK
      <3>2. CASE suspended[t] > unrestored[t]
        <4>1. t \in ToSet(restoreQueue)
          BY <1>1, <2>1, <3>1, <3>2 DEF IInv, SuspensionsKept
        <4> QED
          BY <1>1, <3>1, <4>1 DEF IInv, SuspensionsKept, Owed
      <3>3. CASE ~(suspended[t] > unrestored[t])
        BY <3>1, <3>3 DEF Owed
      <3> QED
        BY <3>2, <3>3
    <2> QED
      BY <1>1, <2>2 DEF IInv, SuspensionsKept, SuspendedAsAsked
  <1> QED
    BY <1>1, Invariance, PTL

-----------------------------------------------------------------------------

\* Nothing has been left suspended.
NoneUnrestored == \A t \in Threads : unrestored[t] = 0

\* If no restoring call fails but for threads that have ended, every step restores
\* what it takes from the queue.
LEMMA NoneUnrestoredStep ==
  ASSUME "restore" \notin Failures, IInv, NoneUnrestored, [Next]_vars
  PROVE  NoneUnrestored'
PROOF
  <1> USE DEF IInv, TypeOK, NoneUnrestored, suspensions
  <1>1. ASSUME RestoreFails PROVE NoneUnrestored'
    <2> DEFINE h == Head(restoreQueue)
    <2>1. /\ h \in Threads
          /\ unrestored'[h] = unrestored[h] + Undoable(h)
          /\ \A t \in Threads \ {h} : unrestored'[t] = unrestored[t]
      BY <1>1, RestoreFailsEffect
    <2>2. h \notin living
      BY <1>1 DEF RestoreFails, MayFailToRestore
    <2>3. Undoable(h) = 0
      BY <2>1, <2>2 DEF SuspensionsKept, Undoable
    <2>4. unrestored'[h] = 0
      BY <2>1, <2>3
    <2> QED
      BY <2>1, <2>4
  <1>2. ASSUME NEW t \in Threads, ThreadExits(t) PROVE NoneUnrestored'
    BY <1>2 DEF ThreadExits
  <1>3. ASSUME NEW t \in Threads, ProcessExits(t) PROVE NoneUnrestored'
    BY <1>3 DEF ProcessExits
  <1>4. CASE UNCHANGED unrestored
    BY <1>4
  <1>5. RestoreFails \/ (\E t \in Threads : ThreadExits(t) \/ ProcessExits(t)) \/ UNCHANGED unrestored
    BY DEF Next, Process, Client, StubThread, vars, process, calls, targetAndStub,
           Spawn, NewThread, ThreadCreated, Breaks, Steps, LoadsLibrary, SendBreakInRequestAsync,
           ResumeAndWait, Step, SetSingleStep, SetSuspend, SetModeFails, WaitForDebugEvent, Restore, Reply
  <1> QED
    BY <1>1, <1>2, <1>3, <1>4, <1>5

\* No thread stays suspended behind an answered stop if each restoring call for a
\* living thread succeeds, whichever other call failed.
THEOREM NoneLeftSuspended ==
  ASSUME "restore" \notin Failures
  PROVE  Spec => []SuspensionsEndWithStop
PROOF
  <1>1. Init => NoneUnrestored
    BY DEF Init, NoneUnrestored
  <1>2. IInv /\ NoneUnrestored /\ [Next]_vars => NoneUnrestored'
    BY NoneUnrestoredStep
  <1>3. ASSUME IInv, NoneUnrestored PROVE SuspensionsEndWithStop
    BY <1>3 DEF IInv, TypeOK, SuspensionsKept, NoneUnrestored, SuspensionsEndWithStop
  <1> QED
    BY <1>1, <1>2, <1>3, Invariance, PTL DEF Spec
=============================================================================
