---------------------------- MODULE MemoryPackets ------------------------------
(***************************************************************************)
(* The packets m, M, X, qCRC and vFlash: how a client reads, loads and     *)
(* verifies the target's memory, with a target that may refuse, read less  *)
(* than it was asked for, or fail in the middle of a write.  The first     *)
(* addresses are FLASH memory, whose programmer may put off what it is     *)
(* told to write until vFlashDone.                                         *)
(*                                                                         *)
(* Words are sets of bit numbers, which makes exclusive or the symmetric   *)
(* difference.  The code has 32-bit checksums, 8-bit bytes and chunks of   *)
(* 65536 bytes; the three widths are constants here.                       *)
(***************************************************************************)
EXTENDS Integers, SequencesExt

CONSTANTS
  Size,         \* the memory has the addresses 0 .. Size - 1
  FlashSize,    \* of these, 0 .. FlashSize - 1 are FLASH
  Values,       \* the bytes that occur
  ByteBits,     \* bits of a byte
  CrcBits,      \* bits of a checksum
  Polynomial,   \* of the checksum, without its leading term
  Chunk,        \* bytes Handle_qCRC reads at a time
  MaxData,      \* bytes a write packet carries at most
  Erased,       \* the byte erased FLASH holds
  Unknown,      \* no byte
  None          \* no byte, and none on its way

ASSUME MemoryAssumption ==
  /\ Size \in Nat /\ MaxData \in Nat /\ Chunk \in Nat \ {0}
  /\ FlashSize \in 0 .. Size
  /\ ByteBits \in Nat \ {0} /\ CrcBits \in Nat /\ CrcBits >= ByteBits
  /\ Values \subseteq SUBSET (0 .. ByteBits - 1)
  /\ Polynomial \subseteq 0 .. CrcBits - 1
  /\ Erased \in Values /\ Unknown \notin Values /\ None \notin Values \cup {Unknown}

VARIABLES
  memory,     \* the target's memory
  held,       \* what the programmer was told to write and has not written
  believed,   \* what the client holds each byte to be
  loading,    \* what it has written to FLASH since the last vFlashDone
  pc,         \* "idle", "handle", "crc", "replied"
  request,    \* the packet in hand
  reply,      \* the response to it
  crcValue,   \* Handle_qCRC: the checksum so far,
  ullAddr,    \* the next address,
  uLength     \* and the bytes still to be read

vars == <<memory, held, believed, loading, pc, request, reply, crcValue, ullAddr, uLength>>
crcVars == <<crcValue, ullAddr, uLength>>
flashAndClient == <<held, believed, loading>>

Addresses == 0 .. Size - 1
Flash == 0 .. FlashSize - 1
Lengths == 0 .. Size + 1

Reads == [kind : {"m", "qCRC"}, addr : Addresses, length : Lengths]

\* The length of a write is given besides the data, and need not be the data's.
Writes ==
  [kind : {"M", "X"}, addr : Addresses \ Flash, length : 0 .. MaxData,
   data : BoundedSeq(Values, MaxData)]

\* The client knows from the memory map where FLASH ends.
FlashRequests ==
  {req \in [kind : {"vFlashErase"}, addr : Flash, length : 0 .. FlashSize] :
     req.addr + req.length <= FlashSize}
    \cup {req \in [kind : {"vFlashWrite"}, addr : Flash, data : BoundedSeq(Values, FlashSize)] :
            req.addr + Len(req.data) <= FlashSize}
    \cup [kind : {"vFlashDone"}]

Requests == Reads \cup Writes \cup FlashRequests

Error == [kind |-> "error"]
Unsupported == [kind |-> "unsupported"]
OK == [kind |-> "ok"]

Init ==
  /\ memory \in [Addresses -> Values]
  /\ held = [a \in Flash |-> None]
  /\ believed = [a \in Addresses |-> Unknown]
  /\ loading = [a \in Flash |-> None]
  /\ pc = "idle"
  /\ request = <<>> /\ reply = <<>>
  /\ crcValue = {} /\ ullAddr = 0 /\ uLength = 0

-----------------------------------------------------------------------------
(* The checksum *)

Xor(x, y) == (x \ y) \cup (y \ x)

ShiftLeft(x, k) == {i + k : i \in x} \cap (0 .. CrcBits - 1)
ShiftRight(x, k) == {i - k : i \in {j \in x : j >= k}}

AllOnes == 0 .. CrcBits - 1

\* The table: what a byte at the head of the register becomes when it is
\* shifted out bit by bit.
ShiftOut(x) ==
  IF CrcBits - 1 \in x THEN Xor(ShiftLeft(x, 1), Polynomial) ELSE ShiftLeft(x, 1)

\* After k bits.
ShiftedOut(x, k) ==
  LET after[n \in 0 .. k] == IF n = 0 THEN x ELSE ShiftOut(after[n - 1])
  IN  after[k]

s_CRC32Table ==
  [byte \in SUBSET (0 .. ByteBits - 1) |-> ShiftedOut(ShiftLeft(byte, CrcBits - ByteBits), ByteBits)]

NextCrc(x, byte) ==
  Xor(ShiftLeft(x, ByteBits), s_CRC32Table[Xor(ShiftRight(x, CrcBits - ByteBits), byte)])

CRC32(initial, data) ==
  LET after[n \in 0 .. Len(data)] == IF n = 0 THEN initial ELSE NextCrc(after[n - 1], data[n])
  IN  after[Len(data)]

\* Reference: the remainder of the message as a polynomial, its first CrcBits
\* coefficients inverted, by long division.
Coefficients(data) ==
  UNION {{(Len(data) - k) * ByteBits + CrcBits + j : j \in data[k]} : k \in DOMAIN data}

Divide(x, e) ==
  IF e \in x THEN Xor(x, {i + (e - CrcBits) : i \in Polynomial \cup {CrcBits}}) ELSE x

Remainder(data) ==
  LET bits == Len(data) * ByteBits
      left[k \in 0 .. bits] ==
        IF k = 0 THEN Xor(Coefficients(data), {i + bits : i \in AllOnes})
        ELSE Divide(left[k - 1], bits + CrcBits - k)
  IN  left[bits]

-----------------------------------------------------------------------------
(* The target *)

Slice(mem, addr, n) == [i \in 1 .. n |-> mem[addr + i - 1]]

Stored(mem, addr, data) ==
  [a \in DOMAIN mem |->
     IF a >= addr /\ a < addr + Len(data) THEN data[a - addr + 1] ELSE mem[a]]

\* What ReadTargetMemory may put into the buffer: any beginning of what it was
\* asked for, as far as there is memory.
ReadableLengths(addr, n) == {k \in 0 .. n : addr + k <= Size}

Fits(addr, n) == addr + n <= Size

-----------------------------------------------------------------------------
(* The stub *)

Reply(r) ==
  /\ pc' = "replied"
  /\ reply' = r

\* malloc and EnsureSize may fail, before the target is called.
OutOfMemory ==
  /\ pc = "handle" /\ request.kind \in {"m", "M", "qCRC"}
  /\ Reply(Error)
  /\ UNCHANGED <<memory, flashAndClient, request, crcVars>>

\* Reads with one call; only as many bytes as the target reports are sent.
Handle_m ==
  /\ pc = "handle" /\ request.kind = "m"
  /\ \/ Reply(Error)
     \/ \E n \in ReadableLengths(request.addr, request.length) :
          Reply([kind |-> "data", data |-> Slice(memory, request.addr, n)])
  /\ UNCHANGED <<memory, flashAndClient, request, crcVars>>

\* The packets whose data have the announced length, and X for 0 bytes, by
\* which the client asks whether there is an X.
IsProbe == request.kind = "X" /\ request.length = 0
LengthAgrees == Len(request.data) = request.length

RejectWrite ==
  /\ pc = "handle" /\ request.kind \in {"M", "X"}
  /\ ~IsProbe /\ ~LengthAgrees
  /\ Reply(Error)
  /\ UNCHANGED <<memory, flashAndClient, request, crcVars>>

AnswerProbe ==
  /\ pc = "handle" /\ IsProbe
  /\ Reply(OK)
  /\ UNCHANGED <<memory, flashAndClient, request, crcVars>>

WriteSucceeds ==
  /\ pc = "handle" /\ request.kind \in {"M", "X"}
  /\ ~IsProbe /\ LengthAgrees
  /\ Fits(request.addr, request.length)
  /\ memory' = Stored(memory, request.addr, request.data)
  /\ Reply(OK)
  /\ UNCHANGED <<flashAndClient, request, crcVars>>

\* Mutant: the status of WriteTargetMemory is not looked at.
WriteFailsUnnoticed ==
  /\ pc = "handle" /\ request.kind \in {"M", "X"}
  /\ ~IsProbe /\ LengthAgrees
  /\ \E n \in ReadableLengths(request.addr, request.length) :
       memory' = Stored(memory, request.addr, SubSeq(request.data, 1, n))
  /\ Reply(OK)
  /\ UNCHANGED <<flashAndClient, request, crcVars>>

\* The target gives up in the middle, or has no such operation.
WriteFails ==
  /\ pc = "handle" /\ request.kind \in {"M", "X"}
  /\ ~IsProbe /\ LengthAgrees
  /\ \E n \in ReadableLengths(request.addr, request.length) :
       memory' = Stored(memory, request.addr, SubSeq(request.data, 1, n))
  /\ \E r \in {Error, Unsupported} : Reply(r)
  /\ UNCHANGED <<flashAndClient, request, crcVars>>

StartCrc ==
  /\ pc = "handle" /\ request.kind = "qCRC"
  /\ pc' = "crc"
  /\ crcValue' = AllOnes
  /\ ullAddr' = request.addr
  /\ uLength' = request.length
  /\ UNCHANGED <<memory, flashAndClient, request, reply>>

Todo == IF uLength > Chunk THEN Chunk ELSE uLength

\* Mutant: each chunk is summed up by itself.
CrcReadRestarts ==
  /\ pc = "crc" /\ uLength > 0
  /\ Fits(ullAddr, Todo)
  /\ crcValue' = CRC32(AllOnes, Slice(memory, ullAddr, Todo))
  /\ uLength' = uLength - Todo
  /\ ullAddr' = ullAddr + Todo
  /\ UNCHANGED <<memory, flashAndClient, pc, request, reply>>

CrcRead ==
  /\ pc = "crc" /\ uLength > 0
  /\ Fits(ullAddr, Todo)
  /\ crcValue' = CRC32(crcValue, Slice(memory, ullAddr, Todo))
  /\ uLength' = uLength - Todo
  /\ ullAddr' = ullAddr + Todo
  /\ UNCHANGED <<memory, flashAndClient, pc, request, reply>>

\* The target refuses, or reads less than the chunk.
CrcFails ==
  /\ pc = "crc" /\ uLength > 0
  /\ \E r \in {Error, Unsupported} : Reply(r)
  /\ UNCHANGED <<memory, flashAndClient, request, crcVars>>

\* Mutant: the checksum is computed again.
CrcDoneRestarts ==
  /\ pc = "crc" /\ uLength = 0
  /\ crcValue' = AllOnes
  /\ ullAddr' = request.addr
  /\ uLength' = request.length
  /\ UNCHANGED <<memory, flashAndClient, pc, request, reply>>

CrcDone ==
  /\ pc = "crc" /\ uLength = 0
  /\ Reply([kind |-> "crc", value |-> crcValue])
  /\ UNCHANGED <<memory, flashAndClient, request, crcVars>>

-----------------------------------------------------------------------------
(* FLASH.  The programmer writes at once or holds the bytes back, and may  *)
(* give up in the middle of whatever it does; without one nothing is done. *)

Filled(value, n) == [i \in 1 .. n |-> value]

NoneHeld == [a \in Flash |-> None]

\* Those bytes of A that are held back get into memory.
Committed(A) == [a \in Addresses |-> IF a \in A /\ held[a] # None THEN held[a] ELSE memory[a]]

Fails == \E r \in {Error, Unsupported} : Reply(r)

\* The first n bytes are erased; what was held back for them is void.
Handle_vFlashErase ==
  /\ pc = "handle" /\ request.kind = "vFlashErase"
  /\ \E n \in 0 .. request.length :
       /\ memory' = Stored(memory, request.addr, Filled(Erased, n))
       /\ held' = Stored(held, request.addr, Filled(None, n))
       /\ Fails \/ (n = request.length /\ Reply(OK))
  /\ UNCHANGED <<believed, loading, request, crcVars>>

\* No data are OK without a call, if there is a programmer.
Handle_vFlashWrite ==
  /\ pc = "handle" /\ request.kind = "vFlashWrite"
  /\ \E n \in 0 .. Len(request.data), atOnce \in BOOLEAN :
       LET data == SubSeq(request.data, 1, n)
       IN  /\ memory' = IF atOnce THEN Stored(memory, request.addr, data) ELSE memory
           /\ held' = Stored(held, request.addr, IF atOnce THEN Filled(None, n) ELSE data)
           /\ \/ Reply(Unsupported)
              \/ request.data # <<>> /\ Reply(Error)
              \/ n = Len(request.data) /\ Reply(OK)
  /\ UNCHANGED <<believed, loading, request, crcVars>>

\* After a failure, what is left to be written is dropped or still held back.
Handle_vFlashDone ==
  /\ pc = "handle" /\ request.kind = "vFlashDone"
  /\ \/ Reply(OK) /\ memory' = Committed(Flash) /\ held' = NoneHeld
     \/ /\ Fails
        /\ \E A \in SUBSET Flash : memory' = Committed(A)
        /\ held' \in {held, NoneHeld}
  /\ UNCHANGED <<believed, loading, request, crcVars>>

-----------------------------------------------------------------------------
(* The client *)

\* Bound: FLASH is loaded while the client knows nothing of the rest, and the
\* rest is left alone until it is loaded.
Loading == loading # NoneHeld \/ held # NoneHeld

ClientSends ==
  /\ pc = "idle"
  /\ request' \in FlashRequests \cup {req \in Reads : Loading => req.kind = "m" /\ req.addr \in Flash}
                    \cup (IF Loading THEN {} ELSE Writes)
  /\ request'.kind \in {"vFlashErase", "vFlashWrite", "vFlashDone"} =>
       \A a \in Addresses \ Flash : believed[a] = Unknown
  /\ pc' = "handle"
  /\ UNCHANGED <<memory, flashAndClient, reply, crcVars>>

Refused == reply.kind \in {"error", "unsupported"}

Settled(a) == a \notin Flash \/ loading[a] = None

\* After a write that failed the client knows nothing of the range, and before
\* vFlashDone nothing of the FLASH it has written to.
Learned ==
  CASE reply.kind = "data" ->
         LET read == Stored(believed, request.addr, reply.data)
         IN  [a \in Addresses |-> IF Settled(a) THEN read[a] ELSE Unknown]
    [] reply.kind = "ok" /\ request.kind \in {"M", "X"} ->
         Stored(believed, request.addr, SubSeq(request.data, 1, request.length))
    [] (Refused /\ request.kind \in {"M", "X"}) \/ request.kind = "vFlashWrite" ->
         Stored(believed, request.addr, Filled(Unknown, Len(request.data)))
    [] request.kind = "vFlashErase" ->
         Stored(believed, request.addr, Filled(IF Refused THEN Unknown ELSE Erased, request.length))
    [] reply.kind = "ok" /\ request.kind = "vFlashDone" ->
         [a \in Addresses |-> IF Settled(a) THEN believed[a] ELSE loading[a]]
    [] OTHER -> believed

\* Once something failed, what is still held back may be anything.
Lost(A) == [a \in Flash |-> IF a \in A /\ ~Settled(a) THEN Unknown ELSE loading[a]]

Loaded ==
  CASE request.kind = "vFlashErase" ->
         IF Refused
         THEN Lost(request.addr .. request.addr + request.length - 1)
         ELSE Stored(loading, request.addr, Filled(None, request.length))
    [] request.kind = "vFlashWrite" ->
         Stored(loading, request.addr,
                IF Refused THEN Filled(Unknown, Len(request.data)) ELSE request.data)
    [] request.kind = "vFlashDone" -> IF Refused THEN Lost(Flash) ELSE NoneHeld
    [] OTHER -> loading

ClientTakesReply ==
  /\ pc = "replied"
  /\ believed' = Learned
  /\ loading' = Loaded
  /\ pc' = "idle"
  /\ request' = <<>> /\ reply' = <<>>
  /\ crcValue' = {} /\ ullAddr' = 0 /\ uLength' = 0
  /\ UNCHANGED <<memory, held>>

StubStep ==
  \/ OutOfMemory
  \/ Handle_m
  \/ RejectWrite \/ AnswerProbe \/ WriteSucceeds \/ WriteFails
  \/ StartCrc \/ CrcRead \/ CrcFails \/ CrcDone
  \/ Handle_vFlashErase \/ Handle_vFlashWrite \/ Handle_vFlashDone

Next == ClientSends \/ StubStep \/ ClientTakesReply

Spec == Init /\ [][Next]_vars

\* The thread that serves the connection is scheduled.
FairSpec == Spec /\ WF_vars(StubStep)

-----------------------------------------------------------------------------
(* Properties *)

\* Between two packets, what the client has read or was told it had written is
\* in the target's memory, although reads are cut short, writes fail in the
\* middle and FLASH is written late or in part (GDBStub.cpp:114-179, 713-740).
BelievedIsThere ==
  pc = "idle" => \A a \in Addresses : believed[a] # Unknown => memory[a] = believed[a]

\* A checksum that is reported is that of the whole range, whatever the chunks.
ChecksumIsOfRange ==
  (pc = "replied" /\ reply.kind = "crc") =>
    /\ Fits(request.addr, request.length) \/ request.length = 0
    /\ reply.value = Remainder(Slice(memory, request.addr, request.length))

\* Every packet is answered: Handle_qCRC makes progress with each chunk.
Answered == pc = "handle" ~> pc = "replied"
=============================================================================
