# GDBServerFoundation in TLA+

GDBServerFoundation is a C++ library for writing GDB servers: it takes care of
the connection and the remote protocol, and the program that uses it supplies a
*target*, an implementation of `ISyncGDBTarget`. This directory holds TLA+
models of the library, TLC configurations that check them on small instances
and proofs, checked by TLAPS, that the most important properties hold for every
value of the constants.

Source references such as `GDBServer.cpp:66` are relative to `src/`.

## 1. The system

```
 gdb  <--TCP-->  GDBServer::ConnectionHandler  --HandleRequest-->  BasicGDBStub / GDBStub
                   |            |  packets and replies                |
                   |            v                                     v
                   |      BreakInSocket  <-- worker thread        ISyncGDBTarget
                   |      (socket, m_RecvMutex, m_Semaphore)          ^
                   |                        `---OnBreakInRequest------'
                   +-- creates the stub, deletes it at the end        |
                                                  GlobalSessionMonitor (Ctrl-C)
```

One thread per connection runs `ConnectionHandler`. It reads a packet, hands it
to the stub, and sends the reply; a request that resumes the target blocks the
thread inside the target until the target stops. Meanwhile a second thread, the
worker of `BreakInSocket`, watches the socket for the byte 0x03 by which gdb
asks a running target to stop. The two share the socket through a mutex and a
counting semaphore. That is where the library is concurrent; the stub itself
serves one packet at a time, and what is hard about it is state that outlives
the packet and target calls that fail halfway through one.

| Component | State | Operations | What is hard | What makes it correct |
|---|---|---|---|---|
| `BreakInSocket` (`BreakInSocket.h`) | `m_RecvMutex`, `m_Semaphore`, `m_bTerminating`, `m_pTarget`, the worker's locals | worker loop; `SocketWrapper` constructor and destructor; `SetTarget`; constructor, destructor | two threads read one stream; wake-ups may be early or late; the worker uses a pointer after unlocking; teardown | neither thread takes the other's bytes; no break-in is lost; the target is stopped although the handler is blocked; both threads end |
| Connection handler (`GDBServer.cpp:31-193, 212-319`) | acknowledgment modes, the packet in hand, the stub's life | accept, `FindPacketStart`, handle, reply, `QStartNoAckMode`, teardown | mode switches one packet late; a damaged packet is not discarded; connection lost anywhere | each request handled once and answered once; no protocol error with a well-behaved client |
| Packet reader (`GDBServer.cpp:66-129, 195-210`) | search positions over the receive buffer | search for `#` piece by piece, checksum, unescape, discard | an escape or the checksum split between two pieces | what was sent is delivered, as soon as it is complete |
| Reply encoder (`GDBServer.cpp:233-310`) | `internalBuf`, checksum, position | frame, escape, run-length encode, flush | buffer boundary; counts that would be framing characters | no overrun; the client decodes the response |
| Request dispatch (`BasicGDBStub.cpp`) | none of its own | choose the handler of a packet | overlapping names | each packet reaches its handler |
| Thread control (`BasicGDBStub.cpp:150-260`, `GDBStub.cpp:325-600`) | selected threads, last reported thread, thread cache; modes armed in the target | `H`, `T`, `?`, `qfThreadInfo`, `c`, `s`, `vCont` | caches that outlive a resumption; a target call that fails halfway; members that are not initialised | threads run as the packet says; modes are restored; commands are about existing, selected threads |
| Breakpoints (`GDBStub.cpp:602-640`) | `m_BreakpointMap` | `Z`, `z` | a removal the target refuses; several types at one address | map, target and client agree |
| Memory, `qCRC` and FLASH packets (`GDBStub.cpp:114-179, 643-679, 713-740`, `crc32.cpp`) | `qCRC`'s loop; what the programmer holds back | `m M X qCRC vFlashErase vFlashWrite vFlashDone` | short reads, writes that fail halfway or are put off, chunk boundaries | what the client believes is in memory; a checksum is that of the range |
| Register packets (`GDBStub.cpp:7-112`) | none; the thread comes from thread control | `g G P`, registers in stop replies | blocks that end inside a register, registers that cannot be read, the thread of a packet that names none | what the client believes of a thread's registers is so |
| `qXfer` reports (`GDBStub.cpp:181-332`) | none; the thread list comes from the cache | windowed reads | window arithmetic, a report built anew for each window | windows put together are one report |
| `qRcmd` | none | pass-through | | |
| `GlobalSessionMonitor` | `s_pMainMonitor`, the session list | console handler, register, unregister | the handler runs on a thread of its own, against registration and destruction | one session is active; no call on a destroyed one; events reach the session they were meant for |
| Win32 sample (`SimpleWin32Server.cpp:83-402`) | the last debug event, `m_Threads`; trap flags and suspensions in the process | resume, step, break in, thread modes, the event loop | events hidden from the stub, threads that end or share an identifier with an earlier one, calls that fail halfway, the restoring ones unnoticed | a stop is one; the thread list is right; a thread stays suspended only if its own restoration failed; a break-in stops the process |

`PROJECT.json` lists every component with what is modelled of it, and every
hazard at its line with the properties that would catch it.

## 2. Modules

| Module | Models |
|---|---|
| `Wire` | the symbols of the connection, as far as the two threads tell bytes apart |
| `BreakInSocket` | the socket, the mutex, the semaphore and the worker thread |
| `ConnectionHandler` | the connection thread, EXTENDS `BreakInSocket` |
| `Session` | handler, worker and a gdb client together, and their properties |
| `DebugSession` | the abstract specification `Session` implements |
| `PacketReader` | the end of a packet found byte by byte, checksum, unescaping |
| `PacketIntake` | the abstract specification `PacketReader` implements |
| `ReplyEncoder` | a reply framed, escaped and run-length encoded through the buffer |
| `ThreadControl` | thread selection, thread cache, `c`, `s`, `vCont` |
| `Breakpoints` | `Handle_Zz` with client and target |
| `RegisterPackets` | `g`, `G`, `P`, registers in stop replies; EXTENDS `ThreadControl` |
| `XferReport` | `qXfer`; EXTENDS `ThreadControl` |
| `Inspection` | `ThreadControl`, `RegisterPackets` and `XferReport` together: a client with a stopped target |
| `MemoryPackets` | `m`, `M`, `X`, `qCRC`, `vFlash...` with client and target, the checksum |
| `Win32Target` | the sample's target, the process it debugs, the calls a stub makes |
| `GlobalSessionMonitor` | the monitor, the threads of connections, console handlers |
| `MC...` | model-checking instances |
| `...Proofs` | theorems and proofs |

### Session

`rx` is the stream towards the server, `tx` the one back. The first bytes of a
packet are symbols of their own, because `FindPacketStart` and the worker look
at them; the rest of a packet is one symbol, named for what the handler does
with it: a `query` returns at once, a `resume` blocks in the target, `noack` is
`QStartNoAckMode`, `corrupt` fails the checksum, `cut` never becomes complete.
Every step of either thread that another can observe is an action: the handler
peeks (`PeekFirst`), examines (`ExamineBreakIn`, `ExamineAck`, `ExamineStart`),
reads the packet (`PeekPacket`, `PacketReceived`, `ChecksumMismatch`), unlocks
and signals (`ReleaseMutex`, `SignalWorker`: `~SocketWrapper` does the two one
after the other), handles and replies. The worker's actions follow
`BreakInSocket.h:46-86` in the same way. The copy of `m_pTarget` taken under
the mutex and used after it is a variable of its own.

`Session` adds the client: a gdb that sends one request at a time, may send the
packet's start and its rest apart, acknowledges replies, sends break-in bytes
while the target runs, resends a packet that was damaged, and closes the
connection at any moment. It is part of the model because the server is
correct only for clients like it (an arbitrary stream makes `FindPacketStart`
skip bytes by design).

`DebugSession` states what a session is for, in two variables: a request is
answered exactly once; one that resumes the target is answered when it stops;
an interrupt is not forgotten before a stop. The refinement mapping (`Phase`,
`Wanted` in `Session`) reads the request's progress from the handler's program
counter and finds the interrupt wherever it travels: in the stream, in the
worker's or handler's hands, in the target's latch.

### PacketReader

Starts where `FindPacketStart` ends. Bytes are numbers; `arrived` grows by any
amount at any time. One `ScanByte` is one iteration of the inner loop, one
`PeekMore` the peek that waits for the next piece and restarts the search at
`searchRestartPosition`. `PeekReturns` is what the code relies on from the
socket library: a peek returns when it has what it wants, or what there is when
the connection is over.

What the client sends is a `message`: the payload it means, a `body` that stands
for it (`StandsFor`: each letter itself or escaped, as the client likes, except
that `#` and `}` must be escaped), an `error` that is added to the checksum on the
way, and the bytes that follow. `packet` is what arrives: the body, `#` and the
digits of the checksum, which the client computes modulo 256 byte by byte
(`Checksum`), where the code sums up and masks the sum (`computeChecksum`).

`PacketIntake` says what that comes to for the rest of the server: a packet is
there or not, and is delivered, rejected because it is damaged and left where it
is, or known to be lost. `Handed` and `Left` are the refinement mapping: what the
stub is given, and where the socket's buffer starts afterwards.

### ReplyEncoder

One `EncodeNext` is one iteration of the loop over the response; `Flush` is
the `Send` of a filled buffer. `BufSize` is a constant, 4996 in the code's build.
The reference decoder in the module is gdb's reading of the format, written
independently of the encoder.

### ThreadControl

`H`, `c`, `s`, `vCont?`, `qfThreadInfo` and stop replies are a step each; a
`vCont` is one step per target call (`SetThreadModeForNextCont` per thread,
`ResumeAndWait`, the restoring calls), because each may fail, as `Failures`
allows. While the target runs, its threads come and go. The constructors
initialise neither of the selected threads nor the last reported one, so
`Init` chooses them from any thread identifier, 0, and a value that is no thread.
`SelfResetting` says which modes the target ends by itself; the contract of
`SetThreadModeForNextCont` lets a target ask for a restoring call or not. What the
call returns is ignored by the stub, and here it restores the mode; that it may
fail is modelled in `Win32Target`.

### RegisterPackets, XferReport, Inspection

These use `ThreadControl`'s state and actions: `Inspection`'s next-state relation
conjoins them with what they mean for registers and reports. A packet that makes
one target call is one step.

`RegisterPackets` keeps the target's registers and what the client believes of
each (`believed`). A packet is about the thread the stub takes (`StubThread`),
the client files the answer under the thread it means (`ClientThread`):
that the two are the same is for `RegistersAsBelieved` to find out, not assumed.
Resumptions succeed and are reported here (`RegNext`); `ThreadControl` has them fail.
`RegisterList` has, like the code, an index besides the place in the list;
the stop reply uses the one (`GDBStub.cpp:29`) and the packets the other. A
block is a sequence of bytes, which are pairs of digits or `xx`; `G` may end
anywhere, `WriteTargetRegisters` may fail after any of the registers. The
client knows the sizes of the registers and so what a block it cut short wrote.

`XferReport` builds the report again for every window, as `Handle_qXfer` does,
from the cached thread list, a list of libraries or the memory regions. The
client asks from where it is until a window is marked `l`; `transfer`,
`object` and `assembled` are its. Between windows it resumes nothing.

### Win32Target

Windows stops a process at every debug event until `ContinueDebugEvent`:
`event` is that event, `NoEvent` while the process runs. A thread's creation is
an event before the thread runs; a break-in is a new thread that breaks
(`injected`). `WaitForDebugEvent` is one iteration of the target's loop, which
shows the stub some events and continues the others. The stub's side is
`Handle_vCont` seen from the target (modes, resumption, restoring) and `c` and
`s`. `Failures` says which calls may fail for no reason of their own:
`ContinueDebugEvent`, setting a mode, restoring one (`RestoreFails`). Modes and
restorations of a thread that has ended fail in any case, and Windows suspends a
thread `MaximumSuspendCount` times at most. `suspended` is Windows' count for each
thread; `unrestored` is a history variable, how much of it is due to restoring
calls that failed. `WaitForDebugEvent(INFINITE)` of Windows does not fail.
`EXCEPTION_DEBUG_EVENT` is two codes here, breakpoint and single step;
`loadDll` stands for the four other events that are shown.

### Breakpoints

One step per packet; the target issues cookies and may refuse a removal.

### MemoryPackets

One step per target call: `m`, `M` and `X` make one, `qCRC` one per chunk
(`CrcRead`). The target reads any beginning of what it is asked for and may give
up in the middle of a write (`WriteFails`). The client keeps what it has read
or was told it had written, and forgets a range after a write that failed.
The FLASH programmer (`IGDBTarget.h:111-138`) may write at once or hold bytes
back until `vFlashDone` (`held`), and may fail in the middle of either; the
client believes what it loads (`loading`) only when `vFlashDone` is answered OK.
Words are sets of bit numbers: exclusive or is the symmetric difference, and the
reference definition, `Remainder`, is polynomial division. `s_CRC32Table` is
computed from the polynomial; that the code's 256 numbers are that table is not checked.

### GlobalSessionMonitor

Three kinds of thread: the main thread (constructor, whose two statements are
two steps, and destructor), the connections (`RegisterSession`, serving,
`UnregisterSession`, deletion), and a thread for each console event, which runs
`CtrlHandler` statement by statement and, when that returns `FALSE`, ends the
process. Nothing in the repository uses the class; the order in which a
connection calls it is taken from the comments in `GlobalSessionMonitor.h`.

## 3. Runs

| Run | Shows |
|---|---|
| `session` | three requests of every kind, two break-in bytes, damaged and resent packets: the threads exclude each other on the socket, no byte is taken by the wrong thread, `m_pTarget` is never stale, no packet error unless a packet was damaged, no request handled damaged or twice, acknowledgments in order, a break-in that comes too late is over when the worker is joined, and `DebugSession` is implemented; under fairness, requests are answered, a break-in stops a running target, and a closed connection ends both threads |
| `packet_reader` | whatever the pieces, the packet is delivered whole and in time, only a damaged one is rejected, and a connection that ends before is noticed: `PacketIntake` is implemented, under fairness |
| `reply_encoder` | no overrun, the reply decodes to the response, no framing character inside |
| `thread_modes` | each mode's restoring call is made exactly once, and threads run as asked, with target calls that fail |
| `inspection` | without `vCont`, `H` selects existing threads, `c` and `s` are about one that exists; registers are those of the thread the client means and what it believes them to be; reports come whole, and to an end |
| `breakpoints` | map, target and client agree, with removals that are refused |
| `memory_packets` | what the client has read, written or loaded is in memory; `qCRC` gives the remainder of the range; every packet is answered |
| `win32_target` | a stop is at the event that is reported; the thread list follows hidden events; a thread stays suspended only for restoring calls of its own that failed; a break-in stops the process |
| `session_monitor` | one active session; handlers call its living target only; Ctrl+C and Ctrl+Break reach the session they were meant for; nobody stays behind the mutex |

The runs that are expected to fail are disagreements between the code and what
its documentation or comments say; each checks one property.

| Run | Shows |
|---|---|
| `break_in_on_deleted_stub` | the worker calls `OnBreakInRequest` on a stub that was deleted after the connection was lost (`BreakInSocket.h:68`) |
| `breakpoint_retry` | a removal the target refused is repeated without its cookie (`GDBStub.cpp:634`) |
| `stale_thread_list` | the list `vCont` cached before the target ran is used after it (`GDBStub.cpp:506`) |

A passing run excludes what a violating one shows by a constant (the `vCont`
packets gdb really sends, or none), never by weakening the property, and the
constant is in the cfg.

More was met while modelling and has no run of its own:

- Every `~SocketWrapper` signals `m_Semaphore`, whether or not the worker is
  suspended, so signals accumulate and a worker that suspends wakes at once,
  where `BreakInSocket.h:30-32` has it sleep until the packet is handled. The run
  `session` shows that the surplus wake-ups do no harm: the worker looks at the
  packet again and goes back to sleep.
- `vCont;c:1;s` steps thread 1 and `vCont;c:1;t` suspends it: `dtmProbe` stands both for
  the action `c` and for no action (`GDBStub.cpp:509, 549`), so the default mode
  replaces it, where `BasicGDBStub.h:76` has the packet set the "step mode for each
  thread independently". gdb sends no such packet; with `AllVCont` for `GdbVCont`,
  `RunsAsAsked` fails.
- A failure to list the libraries is reported as an empty list
  (`GDBStub.cpp:279`), and if it happens at a later window, the windows are of
  different reports: with `"libraries"` in `Failures`, `ReportIsWhole` fails. A
  failure to list the threads is cached, so all windows agree on it.
- `HTMLEncode` is applied to the names of threads, not to the paths of libraries
  (`GDBStub.cpp:282, 297`).
- `RegisterIndex` (`GDBRegisters.h:9`, "should be sequential") repeats in the sample's
  list (`registers-i386.h:43-47`). Only stop replies use it, and the sample
  reports none of those registers in them; `RegisterAssumption` asks for no more.
- `Handle_vCont` ignores what the `dtmRestore` calls return (`GDBStub.cpp:573`), and the
  sample's may fail (`SimpleWin32Server.cpp:390-397`): the stop is reported, the pair has
  left the restore queue, and the thread stays suspended from then on, where
  `IGDBTarget.h:28` keeps it stopped "until next debug event". With `"restore"` in
  `Failures` the model does so too: `SuspensionsEndWithStop` fails, which
  `NoneLeftSuspended` proves for targets that restore; `win32_target` has these calls
  fail and checks what holds nevertheless, `SuspendedAsAsked`: the failure stays with
  its thread.
- The sample's main thread is created with the process, not with a thread event, so
  `m_Threads` never has it (`SimpleWin32Server.cpp:145-148`) and `H` rejects it.
  `ListsTheOthers` says what the list has.
- The sample's trap flag stays set when another event comes before the step
  (`SimpleWin32Server.cpp:138-144`): the thread steps when it is resumed with `c`
  the next time, where `IGDBTarget.h:241` puts a thread in a mode "until the next
  debug event".
- The sample waits for ever if it is resumed after the process has exited
  (`SimpleWin32Server.cpp:133`); a client does not do that (`MayResume`). It compares
  what `OpenThread` returns with `INVALID_HANDLE_VALUE`, which `OpenThread` never
  returns (245, 257, 391); the call after it fails instead.
- A second `QStartNoAckMode` fails `ASSERT(*ackEnabled)` in a debug build
  (`GDBServer.cpp:316`); a client has no reason to send it.
- `vCont?` resets the thread selection although it resumes nothing
  (`GDBStub.cpp:494`); with `Probes = TRUE`, `SelectionHonoured` fails.
- A `vCont` refused halfway leaves the threads armed whose mode the target said
  it would end by itself (`GDBStub.cpp:560`); with
  `SelfResetting = {"step"}`, `RunsAsAsked` fails in `thread_modes`.
- While acknowledgments are enabled, a packet with a wrong checksum is neither
  discarded nor answered with `-` (`GDBServer.cpp:119`): the `$` of the packet the
  client sends again is taken for a bad acknowledgment and the rest is skipped.
  The run `session` shows that the session still ends and that nothing is
  handled twice; it cannot show that the request is served, because it is not.
- A client that asks for the stop reason and then sends `c` without an `Hc` before
  it continues whatever positive number is in the uninitialised
  `m_ThreadIDForCont` (`BasicGDBStub.cpp:241`, constructor at 157).
- A console event between the two statements of the monitor's constructor, or
  after its destructor, dereferences a null `s_pMainMonitor`
  (`GlobalSessionMonitor.cpp:28, 36, 58`); with `EventsOutside = TRUE`,
  `CallsLiveTarget` fails.
- A target whose `CloseSessionSafely` waits for its session to end waits for ever
  (`GlobalSessionMonitor.cpp:47`); with `CloseWaits = TRUE`, `NobodyStuck` fails.
  `IGDBTarget.h:353` forbids `SendBreakInRequestAsync` to wait, nothing forbids
  this one.
- A session that registers between `CtrlHandler`'s return and the end of the
  process is not closed (`GlobalSessionMonitor.cpp:50`). `ClosedBeforeExit` is
  about the session that was active when the key was pressed.

### Bounds

- *Session*: three requests make every ordered pair of consecutive kinds and
  the mode switch with a request before and behind it; two break-in bytes allow one that
  is consumed by the worker and one by the handler. The semaphore and the streams have no bound of their
  own; they are bounded through the client.
- *PacketReader*: payloads of up to three bytes over a plain letter, `#`, the
  escape character and 0x03 (which, escaped, is `#`'s byte), each in every form a
  client may send it; two escapes in a row and one at either end occur. Up to
  two bytes for the damaged packets, with either digit of the checksum wrong, and
  for packets that nothing follows; the others are followed by the next
  acknowledgment and start. The proofs cover payloads of any length, any error
  and anything that follows.
- *ReplyEncoder*: a buffer of 9 bytes, so that every flush boundary is met at every
  offset; the run lengths around which the encoder changes its mind. The proof
  covers 4996 and every other size.
- *ThreadControl*: two threads, three for the modes, so that a call can fail
  before, at and behind a thread whose mode was set.
- *Inspection*: two threads, a register of one byte and one of two, so that a block can
  end before, inside and behind each; reports of two to four entries and windows of
  one to three, so that windows end inside, at and beyond the report's end. Reports
  are read while no thread is selected and no register is known (`NothingRead`), which
  keeps the two from multiplying; they share only the thread cache.
- *Win32Target*: three identifiers: two threads besides the main one, one of which may be the
  break-in's, and an identifier that is free to be used again. That of the main
  thread is not. A thread can be suspended twice, so that a restoration that failed is
  followed by a vCont that suspends the thread again, and by one that cannot.
- *Breakpoints*: two addresses, two types, three cookies.
- *MemoryPackets*: four bytes with two values, chunks of two: ranges of zero, one
  and two chunks, with and without a remainder, and beyond the end. Bytes of two
  bits and checksums of four keep the proportion that matters: a byte is shorter
  than the register. Two of the bytes are FLASH, so that a load can fail between
  two; FLASH is loaded while the client knows nothing of the other two
  (`Loading`), and they are left alone until then.
- *GlobalSessionMonitor*: two connections and two events: one connection is
  refused or waits while the other is active, and both handlers meet. The proofs
  cover any number.

Deadlock is checked except where the modelled thing ends: `packet_reader` and
`reply_encoder` stop when the packet is delivered or sent, and `win32_target`
when the process has exited. A finished session
stutters explicitly.

### Fairness

- The handler's and the worker's steps are weakly fair: the operating system
  schedules runnable threads.
- `CreateWrapper` and `WorkerLock`, the two acquisitions of `m_RecvMutex`, are
  strongly fair: each is enabled and disabled again by the other thread, and a
  mutex lets no waiter starve for ever.
- The client's reception is weakly fair. Nothing is assumed of what it sends.
- The target stops when it has been asked to (`TargetBreaksIn`). Nothing is
  assumed of its stopping by itself, nor of the client's closing.
- `MemoryPackets`: the serving thread is weakly fair.
- `GlobalSessionMonitor`: threads are weakly fair, acquisitions of `m_Mutex`
  strongly fair. Nothing is assumed of when sessions start or end, nor of keys.
- `Inspection`: a client that reads a report asks for the next window.
- `Win32Target`: the stub's thread is weakly fair. Some injected thread is created and
  breaks if it can again and again (strong fairness of `Injected`): Windows
  reports one event at a time, those of other threads may come first, but not
  always. Nothing is assumed of the process's own threads.
- `PacketReader`: the reader's thread is weakly fair, the network promises nothing.

## 4. Proofs

| Module | Theorem | For every |
|---|---|---|
| `SessionProofs` | `TypeCorrect`, `Exclusion`, `PeekedByteSafe`, `TargetSafe`, `NoFalseAlarm`, `ClientNeverPuzzled`, `HandlesAwaited`, `LateCallAtMostOnce`, `ImplementsDebugSession` | number of requests and break-ins, set of kinds, with and without noise |
| `ReplyEncoderProofs` | `BufferSafe`, `CountsStayInside`, `DecodesToResponse`, `PacketIsFramed` | response, buffer of six bytes or more |
| `PacketReaderProofs` | `DeliversSent`, `RejectsDamaged`, `LooksAtReceived`, `ImplementsIntake` | payload, way to escape it, error of the checksum, bytes that follow, and way to cut them into pieces |
| `BreakpointsProofs` | `CookiesAreLive`, `ClientIsRight` | addresses, types, cookies, whatever removals are refused |
| | `CookieIfNoneRefused` | addresses, types, cookies, if no removal is refused |
| `InspectionProofs`, about `ThreadControl` | `TypeCorrect`, `EveryModeRestored` | set of threads, set of `vCont` packets, combination of failures |
| | `ThreadsRunAsAsked`, `SelectedThreadAlive`, `StubHonoursSelection`, `ContinuesLivingThread` | set of threads; packets and failures as each theorem says |
| and about `Inspection` | `InspectsAsThreadControl`, `ClientKnowsRegisters`, `InspectsSelectedThread`, `WindowsMakeReport` | set of threads, list of registers and their sizes, contents, libraries, regions, window sizes, failures; the last one if libraries can be listed |
| `MemoryPacketsProofs` | `BeliefsAreTrue` | memory, FLASH, chunk size, failures |
| | `ChecksumIsRemainder` | the same; bytes and registers of any width, polynomial of that width |
| `GlobalSessionMonitorProofs` | `TypeCorrect`, `OneActiveSession`, `CallsAreSafe`, `AskedBeforeExit` | connections, console events; `CallsAreSafe` without events outside the monitor's life |
| `Win32TargetProofs` | `TypeCorrect`, `StopsAreStops`, `ListIsRight`, `SuspensionsEnd` | set of thread identifiers, bound on suspensions, combination of failures |
| | `NoneLeftSuspended` | the same, if restoring calls for living threads succeed |

*Session.* The exclusion of the two threads is not inductive as it stands: it
holds because whoever is at the socket owns the mutex. `IInv` is `TypeOK /\
RequestKnown /\ MutexOwned /\ PeekedByteStillThere /\ StubLife`. `MutexOwned`
ties the mutex's owner to both program counters; from it follows that the bytes
a thread has peeked stay first in the stream, since the only other thread that
discards needs the mutex and the client only appends. `StubLife` follows the
stub from `create` to `delete` along the handler's program counter, which is
what makes `TargetNeverDangles` inductive; it says nothing of the worker's
*copy* of the pointer, and the run `break_in_on_deleted_stub` shows why it
cannot. `LateCallAtMostOnce` says what is true of the copy: a break-in is taken
only while the stub lives, and `LateCall` (the socket is closed before the stub
is deleted, a joined worker is not in a call) confines a call that was already
begun to the time before the join.

A second invariant, `SessionInv`, is about the exchange. `InStep` lists the
points at which client and handler can be at the same time and, for each, what
is on its way between them: what is left of the packet in `rx`, with break-in
bytes and acknowledgments around it, and what the client has yet to read in
`tx`. `NoProtocolError` and `ClientUnderstands` are parts of it, for a packet
error would put the two out of step; `HandlesWhatIsAwaited` follows. So does
`ImplementsDebugSession`: each step of handler, worker or client maps to a step
of `DebugSession` or leaves `Phase` and `Wanted` as they are. It is
`ImplementsFairDebugSession` without its fairness.

*ReplyEncoder.* The invariant is the room left: at the head of each iteration at
least the bytes one iteration may append plus the trailer still fit. The proof
needs only that the buffer has six bytes. What is written is followed by
`CodeInv`: the bytes behind the `$`, sent or still in the buffer, are what a
client decodes to the characters before `i`; its sum is `checksum`; none of them
looks like framing. `EncodedMeans` is the step: the three forms an iteration may
write (escaped, alone, with a count) add the characters they cover to what the
client has decoded. A count stands for characters that are equal because the
lengths of equal runs are closed downwards (`DownwardClosed`), so that there are
as many of them as the longest says.

*PacketReader.* The search may resume anywhere an earlier piece ended, and skips
what follows an escape character before that has arrived. `IInv` says that it
stands only at the boundaries of letters or at the `#` (`Starts`): from one such
place an iteration goes to the next (`SearchGoesOn`), so the first `#` it looks
at is the packet's. The rest is about functions of the bytes. `ChecksumsAgree`:
masking the sum is summing modulo 256. `DigitsRead`: two digits read as the byte
they were written for, so a checksum matches exactly if nothing was added to it
(`DamageShows`, for errors below 256). `UnescapesToPayload`: an induction over the
letters, in which the bytes of the first `k` letters are unescaped to them and no
escape is pending. The assumption is that a message's body stands for its payload in
some way (`Places`), which is what the protocol asks of a client; the run's
messages satisfy it. With these, `ImplementsIntake` maps each verdict to an
action of `PacketIntake` and every other step but the arrival of the last byte and the end of the
connection to a stutter.

*Breakpoints.* `OnePerKey`, at most one live breakpoint for each address and
type, is the strengthening: it makes the cookie in the map the one cookie of the
live breakpoint. `CookieIfNoneRefused` is the counterpart of the run
`breakpoint_retry`: with no removal refused, no entry is missing (`NoneMissing`),
and the removal has its cookie. So that is the only way to the violation.

*ThreadControl.* A queue entry stands for a mode that is owed, once. `SetOnce`
adds what keeps it so while modes are set: a thread still in `todo` is not yet
in the restore queue, and no thread is in `todo` twice.

The other four theorems hold for some targets and clients only. For the first
three, no hypothesis can be left out: with any one of them dropped, TLC finds
the property violated for two threads. `ThreadsRunAsAsked` assumes a target that
has every mode restored and can list its threads, and a client that sends what
gdb sends; it is the configuration of `thread_modes`. Its invariant says which
modes are armed: those owed, and no others between packets. The rest is about clients without `vCont`, which leaves a stale list behind
(`stale_thread_list`); `SelectedThreadAlive` adds that stops can be recorded,
`StubHonoursSelection` that resumptions succeed and `vCont?` is not asked.
`ContinuesLivingThread` is a property of steps and needs neither. They rest on
`ResetInv`, that a valid cache lists living threads and a resumption finds the
selection reset, and on what a failed resumption leaves behind (`FailedInv`).

*Inspection.* `InspectsAsThreadControl`: conjoining registers and reports leaves
the steps of `ThreadControl` what they are, so its invariant can be used here.
`AgreeInv` says why client and stub mean the same thread; it needs no hypothesis
because in `Inspection` resumptions succeed and are reported (`RegNext`), and it
does not depend on the list of threads. `BeliefInv` is `RegistersAsBelieved` and
that nothing is believed while the target runs; the work is in what a block
means: a register is at the same place for both, wherever the block was cut
(`Offset`, `FlattenSeq`). `ReportInv` says that what was assembled is the
beginning of the report that would be built now, and that the list of threads
stays cached once a window was cut from it.

*MemoryPackets.* The client takes a reply after the memory has changed, so in
between `BelievedIsThere` is about a belief that is out of date. `Sound` is said
of what the client is about to make of the reply that is there, and adds where a
loaded byte is: in memory, or still held back, and no byte is held back that the
client did not load.

The checksum is a loop in three layers: over the bits of a byte, from which the
table is made, over the bytes of a chunk, and over chunks; the reference
(`Remainder`) is a long division of the whole range, bit by bit. `ByteDivided`:
one look into the table is the division of one byte, wherever it stands.
`ChecksumIsDivision`: after the division has dealt with `m` bytes, what is left
of the message is the register after `m` bytes in front of the bytes to come; an
induction over the bytes. `CRC32Continues`: two chunks one after the other are
one. `CrcOK` is the invariant of the loop in `Handle_qCRC`: the register holds
the checksum of the beginning of the range, so the reply holds that of all of
it, wherever the chunks end. The target's memory does not change while it is summed up,
because the packet is served to its end by one thread and the target is stopped.

*GlobalSessionMonitor.* `MutexOwned` ties the mutex to the program points inside
it; `SeenStillTrue` says what a thread there knows of `pSession`. With
`OneActiveSession` it follows that a handler that is inside a target holds the
mutex its `UnregisterSession` waits for. `EventInv` follows an event to the end
of the process: the session it saw is the active one, was asked to close, or is
over.

*Win32Target.* Each property is about the moments when the client looks, and the
invariant says what holds in between. `Lifecycle` ties the exit event to having
no thread, `Frozen` the target's copy to the process's event; `ListKept` counts
the event the target has not seen yet as if it had, and uses that the first
thread's identifier is not used again. `SuspensionsKept` adds that only a thread
whose mode is set is owed a restoration, so that none is suspended twice in one
vCont, and that a thread's suspensions end with it, so that the next one with
its identifier inherits none. `Enqueued` and `Dequeued` show that what is put into
the queue and what is taken from it, restored or not, concerns one thread. For
`NoneLeftSuspended`, `NoneUnrestored` is added: a restoring call that fails is then
one for a thread that has ended.

The assumptions are those named in the modules (`SessionAssumption`,
`EncoderAssumption` and so on): constants have their types, a buffer has room
for the shortest packet, 0 is no cookie, threads are finitely many, there is an
uninitialised value that is no thread.

The modules that are proved about use recursive functions, not `RECURSIVE`
operators. What such a function computes is shown by induction over a *set* of
numbers (`InductionOverNat`, from the well-foundedness of the naturals): the
library's rule about a predicate cannot be used by the provers at hand.
`Offset`, `FlattenSeq`, the client's decoder and its sum, both checksums of a
packet, `UnescapePacket`, the CRC and the division are treated in this way. Where
the function is a loop (a value passed from step to step), `LoopExists` shows
once that there is a function that satisfies its equation, from which TLA+'s
`CHOOSE` then takes it.

Every invariant of the passing runs is proved, some under the hypotheses the
theorem names, and so are the action properties and the safety part of the two
refinements. Only model-checked: what rests on fairness (`SessionEnds`, the fairness
of `ImplementsFairDebugSession` and `ImplementsPacketIntake`, `Answered`,
`BreakInArrives`, `NobodyStuck`, `TransferEnds`, `BreakInStops`), which is out
of the prover's reach. The violating runs are about particular behaviours and
need no proof; how far they reach is what `LateCallAtMostOnce`,
`CookieIfNoneRefused` and `SelectedThreadAlive` say.

## 5. What is not modelled

- `BasicTCPServer`, `TCPSocketEx`, `Mutex`, `Semaphore` and threads belong to
  the BazisLib library, which is not in the repository; they are modelled from
  how they are used (a peek waits and may return less at the end of the
  connection, a semaphore counts).
- Text: stop records, the wording of reports, error texts, `qSupported`.
- The exit of the debugged process, targets without a thread list, and `qC`, in
  `ThreadControl`.
- `qRcmd`: one target call, no state.
- Of the Win32 sample: contexts and memory, which are one system call each and
  stand behind `RegisterPackets` and `MemoryPackets` as the target; `Terminate`,
  after which the session ends; failures to attach; the command line.
- A `Send` that fails: the return value is ignored and the end of the
  connection shows at the next peek.
- Build files and precompiled headers.

## 6. Plan

Built so far, in this order: the session and its abstract specification, the reply
encoder, breakpoints, thread control, the packet reader, the session monitor,
the memory packets, registers and reports over thread control, FLASH, the
Win32 sample. What would come next:

1. The packet reader under `ConnectionHandler`'s `PeekPacket`: that one step of
   the session is what the reader does in many.
2. The exit of the process in `ThreadControl`, and `Win32Target` as an
   implementation of the target it assumes, as far as the trap flag allows.

Proofs that would follow: that `Win32Target` implements the target
`ThreadControl` assumes (2), and that a reader that implements
`PacketIntake` can take the place of `PeekPacket` in the session (1).
