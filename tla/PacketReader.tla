----------------------------- MODULE PacketReader ------------------------------
(***************************************************************************)
(* GDBServer.cpp: the part of ConnectionHandler between the packet start   *)
(* and the request, which finds the '#' that ends the packet while its     *)
(* bytes arrive piece by piece, compares the checksum, and UnescapePacket. *)
(* One step is one iteration of the search or one call into the socket.    *)
(* Bytes are numbers, positions count from 0 as in the code.               *)
(***************************************************************************)
EXTENDS Integers, Sequences

\* What the client may send after a '$': the payload it means, the bytes that
\* stand for it, what is added to the checksum on its way, and what follows.
CONSTANT Messages

VARIABLES
  message,    \* what the client sends
  arrived,    \* how many of its bytes are in the socket's buffer
  eof,        \* the connection is over, no more will arrive
  pc,         \* "peek", "scan", "complete", "verify", "end"
  available,  \* how many bytes the last peek has shown
  i,          \* the position the search has come to
  searchRestartPosition,
  endOfPacket,
  discarded,  \* how many bytes were taken out of the socket's buffer
  outcome     \* "none", "delivered", "mismatch", "lost"

rdVars == <<message, arrived, eof, pc, available, i, searchRestartPosition, endOfPacket, discarded, outcome>>

kPacketEnd  == 35    \* '#'
kEscapeChar == 125   \* '}'

\* ch ^ kEscapeMask, the mask being the single bit 0x20.
Masked(ch) == IF (ch \div 32) % 2 = 1 THEN ch - 32 ELSE ch + 32

hexToInt(ch) ==
  CASE ch \in 48 .. 57  -> ch - 48
    [] ch \in 65 .. 70  -> ch - 55
    [] ch \in 97 .. 102 -> ch - 87
    [] OTHER            -> 0

ParseHexValue(first, second) == hexToInt(first) * 16 + hexToInt(second)

\* Summed up as numbers, of which the last byte counts.
computeChecksum(bytes) ==
  LET sum[k \in 0 .. Len(bytes)] == IF k = 0 THEN 0 ELSE sum[k - 1] + bytes[k]
  IN  sum[Len(bytes)] % 256

\* Mutant: what follows an escape character is not unmasked.
UnescapeUnmasked(bytes) == SelectSeq(bytes, LAMBDA b : b # kEscapeChar)

NothingTaken == [out |-> <<>>, escape |-> FALSE]

TakeByte(taken, b) ==
  CASE taken.escape -> [out |-> Append(taken.out, Masked(b)), escape |-> FALSE]
    [] ~taken.escape /\ b = kEscapeChar -> [out |-> taken.out, escape |-> TRUE]
    [] OTHER -> [out |-> Append(taken.out, b), escape |-> FALSE]

\* An escape character at the very end stands for itself.
UnescapePacket(bytes) ==
  LET taken[k \in 0 .. Len(bytes)] ==
        IF k = 0 THEN NothingTaken ELSE TakeByte(taken[k - 1], bytes[k])
      all == taken[Len(bytes)]
  IN  IF all.escape THEN Append(all.out, kEscapeChar) ELSE all.out

-----------------------------------------------------------------------------
(* The client.                                                             *)

\* The bytes stand for the payload, at[k] being how many of them stand for its
\* first k letters: an escape character and the letter masked, or the letter
\* itself, unless it would be taken for an escape character or for the end.
StandsFor(at, bytes, payload) ==
  /\ at[0] = 0 /\ at[Len(payload)] = Len(bytes)
  /\ \A k \in 1 .. Len(payload) :
       \/ /\ at[k] = at[k - 1] + 2
          /\ bytes[at[k] - 1] = kEscapeChar /\ bytes[at[k]] = Masked(payload[k])
       \/ /\ at[k] = at[k - 1] + 1
          /\ bytes[at[k]] = payload[k] /\ payload[k] \notin {kPacketEnd, kEscapeChar}

Places(bytes, payload) ==
  {at \in [0 .. Len(payload) -> 0 .. Len(bytes)] : StandsFor(at, bytes, payload)}

ASSUME PacketReaderAssumption ==
  \A msg \in Messages :
    /\ msg.payload \in Seq(0 .. 255)
    /\ msg.body \in Seq(0 .. 255)
    /\ Places(msg.body, msg.payload) # {}
    /\ msg.error \in 0 .. 255
    /\ msg.next \in Seq(0 .. 255)

hexDigit(d) == IF d < 10 THEN 48 + d ELSE 87 + d

\* The sum modulo 256, as the protocol defines it.
Checksum(bytes) ==
  LET sum[k \in 0 .. Len(bytes)] == IF k = 0 THEN 0 ELSE (sum[k - 1] + bytes[k]) % 256
  IN  sum[Len(bytes)]

\* The packet's end and its checksum, as they arrive.
Ending(bytes, error) ==
  LET sum == (Checksum(bytes) + error) % 256
  IN  <<kPacketEnd, hexDigit(sum \div 16), hexDigit(sum % 16)>>

packet == message.body \o Ending(message.body, message.error)

stream == packet \o message.next

\* pPacket[k]
ByteAt(k) == stream[k + 1]

Init ==
  /\ message \in Messages
  /\ arrived = 0
  /\ eof = FALSE
  /\ pc = "peek"
  /\ available = 0
  /\ i = 0
  /\ searchRestartPosition = 0
  /\ endOfPacket = -1
  /\ discarded = 0
  /\ outcome = "none"

-----------------------------------------------------------------------------
(* The network.                                                            *)

\* Some more bytes are received, however the packet was cut on its way.
Receive ==
  /\ ~eof
  /\ arrived' \in (arrived + 1) .. Len(stream)
  /\ UNCHANGED <<message, eof, pc, available, i, searchRestartPosition, endOfPacket, discarded, outcome>>

\* The connection ends, in the middle of the packet perhaps.
Disconnect ==
  /\ ~eof
  /\ eof' = TRUE
  /\ UNCHANGED <<message, arrived, pc, available, i, searchRestartPosition, endOfPacket, discarded, outcome>>

-----------------------------------------------------------------------------
(* The reader.                                                             *)

\* A peek that wants the given number of bytes returns when they are there, or
\* when the connection is over with what there is.
PeekReturns(wanted) == arrived >= wanted \/ eof

GiveUp ==
  /\ pc' = "end"
  /\ outcome' = "lost"

\* PeekAbs(3): the shortest packet is '#' and the checksum.
PeekShortest ==
  /\ pc = "peek"
  /\ PeekReturns(3)
  /\ available' = arrived
  /\ IF arrived = 0 THEN GiveUp ELSE pc' = "scan" /\ UNCHANGED outcome
  /\ UNCHANGED <<message, arrived, eof, i, searchRestartPosition, endOfPacket, discarded>>

\* Mutant: the search is resumed behind the last byte looked at.
ScanByteRestartBehind ==
  /\ pc = "scan"
  /\ i < available
  /\ searchRestartPosition' = i + 1
  /\ IF ByteAt(i) = kPacketEnd
     THEN endOfPacket' = i /\ pc' = "complete" /\ UNCHANGED i
     ELSE /\ i' = i + (IF ByteAt(i) = kEscapeChar THEN 2 ELSE 1)
          /\ UNCHANGED <<endOfPacket, pc>>
  /\ UNCHANGED <<message, arrived, eof, available, discarded, outcome>>

\* One iteration of the search: the byte after an escape character is skipped,
\* whether or not it has arrived.
ScanByte ==
  /\ pc = "scan"
  /\ i < available
  /\ searchRestartPosition' = i
  /\ IF ByteAt(i) = kPacketEnd
     THEN endOfPacket' = i /\ pc' = "complete" /\ UNCHANGED i
     ELSE /\ i' = i + (IF ByteAt(i) = kEscapeChar THEN 2 ELSE 1)
          /\ UNCHANGED <<endOfPacket, pc>>
  /\ UNCHANGED <<message, arrived, eof, available, discarded, outcome>>

\* PeekRel(kBytesToReceiveAtOnce): wait for at least one byte more.
PeekMore ==
  /\ pc = "scan"
  /\ i >= available
  /\ PeekReturns(available + 1)
  /\ IF arrived = available
     THEN GiveUp /\ UNCHANGED <<available, i>>
     ELSE available' = arrived /\ i' = searchRestartPosition /\ UNCHANGED <<pc, outcome>>
  /\ UNCHANGED <<message, arrived, eof, searchRestartPosition, endOfPacket, discarded>>

packetWithChecksumLength == endOfPacket + 3

\* Mutant: the checksum is taken to have arrived with the '#'.
PeekChecksumNotAwaited ==
  /\ pc = "complete"
  /\ pc' = "verify"
  /\ UNCHANGED <<message, arrived, eof, available, i, searchRestartPosition, endOfPacket, discarded, outcome>>

\* The two digits behind the '#', which may still be on their way.
PeekChecksum ==
  /\ pc = "complete"
  /\ available >= packetWithChecksumLength \/ PeekReturns(packetWithChecksumLength)
  /\ available' = IF available >= packetWithChecksumLength THEN available ELSE arrived
  /\ IF available' < packetWithChecksumLength
     THEN GiveUp
     ELSE pc' = "verify" /\ UNCHANGED outcome
  /\ UNCHANGED <<message, arrived, eof, i, searchRestartPosition, endOfPacket, discarded>>

Body == SubSeq(stream, 1, endOfPacket)

ChecksumMatches ==
  ParseHexValue(ByteAt(endOfPacket + 1), ByteAt(endOfPacket + 2)) = computeChecksum(Body)

\* A packet whose checksum is wrong stays in the socket's buffer.
Verify ==
  /\ pc = "verify"
  /\ IF ChecksumMatches
     THEN outcome' = "delivered" /\ discarded' = packetWithChecksumLength
     ELSE outcome' = "mismatch" /\ UNCHANGED discarded
  /\ pc' = "end"
  /\ UNCHANGED <<message, arrived, eof, available, i, searchRestartPosition, endOfPacket>>

Reader == PeekShortest \/ ScanByte \/ PeekMore \/ PeekChecksum \/ Verify

Next == Reader \/ Receive \/ Disconnect

\* The thread runs; the network promises nothing.
Spec == Init /\ [][Next]_rdVars /\ WF_rdVars(Reader)

-----------------------------------------------------------------------------
(* Properties.                                                             *)

\* A packet that is delivered is the one that was sent, whole and unescaped,
\* and what is discarded ends where the next packet starts, however the bytes
\* were cut into pieces and wherever escape characters fell.
DeliversWhatWasSent ==
  outcome = "delivered" =>
    /\ message.error = 0
    /\ UnescapePacket(Body) = message.payload
    /\ discarded = Len(packet)

\* Bytes are looked at only once they have been received.
LooksOnlyAtReceived ==
  /\ available <= arrived
  /\ pc = "verify" => packetWithChecksumLength <= available

(***************************************************************************)
(* The reader implements PacketIntake.  The packet is whole when its last  *)
(* byte is in the socket's buffer, whether or not the reader knows.        *)
(***************************************************************************)
Handed == IF outcome = "delivered" THEN UnescapePacket(Body) ELSE <<>>

Left ==
  IF discarded = 0 THEN "all" ELSE IF discarded = Len(packet) THEN "next" ELSE "torn"

PI == INSTANCE PacketIntake WITH
        Payloads <- {msg.payload : msg \in Messages},
        payload  <- message.payload,
        damaged  <- (message.error # 0),
        whole    <- (arrived >= Len(packet)),
        over     <- eof,
        verdict  <- outcome,
        handed   <- Handed,
        left     <- Left

\* Searching byte by byte through pieces that end anywhere comes to the same as
\* looking at the packet when it is there: one verdict, the right one, and no
\* byte of the next packet or of a rejected one is lost.  It comes as soon as
\* the last byte has arrived, for the reader waits for nothing behind it, even
\* if the connection ends then; and a connection that ends before is noticed.
ImplementsPacketIntake == PI!FairSpec
=============================================================================
