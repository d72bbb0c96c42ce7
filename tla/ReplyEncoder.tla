----------------------------- MODULE ReplyEncoder ------------------------------
(***************************************************************************)
(* GDBServer.cpp: the second half of HandleGDBPacketAndSendReply, which    *)
(* frames a reply, escapes it, run-length encodes it and sends it through  *)
(* a fixed buffer that is flushed whenever the next character might not    *)
(* fit.  One step is one iteration of the loop over the response; bytes    *)
(* are numbers.                                                            *)
(***************************************************************************)
EXTENDS Integers, Sequences, FiniteSets, SequencesExt

CONSTANTS
  BufSize,    \* sizeof(internalBuf), 4996 in the code
  Responses   \* the responses the stub may give

ASSUME EncoderAssumption ==
  /\ BufSize \in Nat
  /\ BufSize >= 6
  /\ Responses \subseteq Seq(0 .. 255)

VARIABLES
  response,   \* what the stub answered
  i,          \* index of the next character to encode, from 1
  buf,        \* internalBuf[0 .. internalBufSize - 1]
  sent,       \* what socket.Send was given so far
  checksum,   \* the unsigned char checksum
  pc          \* "encode" in the loop, "done" after it

encVars == <<response, i, buf, sent, checksum, pc>>

kPacketStart == 36    \* '$'
kPacketEnd   == 35    \* '#'
kEscapeChar  == 125   \* '}'
kRLEMarker   == 42    \* '*'
kRLEBase     == 29

\* The last count a printable character stands for: '~' - kRLEBase.
MaxMoreCharacters == 126 - kRLEBase

\* ch ^ kEscapeMask, the mask being the single bit 0x20.
Masked(ch) == IF (ch \div 32) % 2 = 1 THEN ch - 32 ELSE ch + 32

\* strchr("#$}*", ch), which also finds the terminator of the string.
MustEscape(ch) == ch \in {kPacketEnd, kPacketStart, kEscapeChar, kRLEMarker, 0}

hexTable(digit) == IF digit < 10 THEN 48 + digit ELSE 87 + digit

\* The number of equal characters that begin at position k: as many as there
\* are lengths for which they are all equal.
RunLength(k) ==
  Cardinality({n \in 1 .. (Len(response) - k + 1) :
                 \A j \in k .. (k + n - 1) : response[j] = response[k]})

\* Mutant: every count is written, the ones that look like framing too.
MoreCharactersUnchecked(run) ==
  IF run <= 3 THEN 0
  ELSE IF run - 1 >= MaxMoreCharacters THEN MaxMoreCharacters ELSE run - 1

\* How many further characters one count stands for: none if the run is short
\* or if its count would be written as a framing character.
MoreCharacters(run) ==
  LET more == IF run - 1 >= MaxMoreCharacters THEN MaxMoreCharacters ELSE run - 1
  IN  IF run <= 3 \/ kRLEBase + more \in {kPacketStart, kPacketEnd, kEscapeChar}
      THEN 0 ELSE more

\* An escaped character is never followed by a count.
More(k) == IF MustEscape(response[k]) THEN 0 ELSE MoreCharacters(RunLength(k))

\* What the iteration at position k appends.
Encoded(k) ==
  IF MustEscape(response[k]) THEN <<kEscapeChar, Masked(response[k])>>
  ELSE IF More(k) = 0 THEN <<response[k]>>
  ELSE <<response[k], kRLEMarker, kRLEBase + More(k)>>

\* What it adds to the checksum, an unsigned char.
ChecksumStep(k) ==
  IF MustEscape(response[k]) THEN kEscapeChar + Masked(response[k])
  ELSE response[k] + (IF More(k) = 0 THEN 0 ELSE kRLEMarker + kRLEBase + More(k))

\* Mutant: the flush test is off by two.
FlushLate(reserve) ==
  IF Len(buf) >= BufSize - reserve + 2
  THEN [buf |-> <<>>, sent |-> sent \o buf]
  ELSE [buf |-> buf, sent |-> sent]

\* if (internalBufSize >= sizeof(internalBuf) - reserve) send it all.
Flush(reserve) ==
  IF Len(buf) >= BufSize - reserve
  THEN [buf |-> <<>>, sent |-> sent \o buf]
  ELSE [buf |-> buf, sent |-> sent]

-----------------------------------------------------------------------------
Init ==
  /\ response \in Responses
  /\ i = 1
  /\ buf = <<kPacketStart>>
  /\ sent = <<>>
  /\ checksum = 0
  /\ pc = "encode"

\* Mutant: the characters of a run are encoded again.
EncodeNextNoSkip ==
  /\ pc = "encode"
  /\ i <= Len(response)
  /\ buf' = Flush(4).buf \o Encoded(i)
  /\ sent' = Flush(4).sent
  /\ checksum' = (checksum + ChecksumStep(i)) % 256
  /\ i' = i + 1
  /\ UNCHANGED <<response, pc>>

\* One character of the response, with what its run-length count covers.
EncodeNext ==
  /\ pc = "encode"
  /\ i <= Len(response)
  /\ buf' = Flush(4).buf \o Encoded(i)
  /\ sent' = Flush(4).sent
  /\ checksum' = (checksum + ChecksumStep(i)) % 256
  /\ i' = i + 1 + More(i)
  /\ UNCHANGED <<response, pc>>

\* '#' and the two hexadecimal digits; everything is sent, the buffer is empty.
Finish ==
  /\ pc = "encode"
  /\ i > Len(response)
  /\ pc' = "done"
  /\ buf' = Flush(3).buf \o <<kPacketEnd, hexTable(checksum \div 16), hexTable(checksum % 16)>>
  /\ UNCHANGED <<response, i, checksum>>
  /\ sent' = Flush(3).sent

\* The last Send.
SendRest ==
  /\ pc = "done"
  /\ buf # <<>>
  /\ sent' = sent \o buf
  /\ buf' = <<>>
  /\ UNCHANGED <<response, i, checksum, pc>>

Next == EncodeNext \/ Finish \/ SendRest

Spec == Init /\ [][Next]_encVars

-----------------------------------------------------------------------------
(* Properties.                                                             *)

\* internalBuf is never written past its end, whatever is escaped or run-length
\* encoded when it is nearly full.
NeverOverruns == Len(buf) <= BufSize

\* What a client makes of the next byte between '$' and '#': an escape character
\* unmasks the one behind it, a marker repeats the one before it.
DecodeStep(acc, b) ==
  CASE acc.mode = "escape" -> [out |-> Append(acc.out, Masked(b)), mode |-> "plain"]
    [] acc.mode = "count"  -> [out |-> acc.out \o [j \in 1 .. (b - kRLEBase) |-> Last(acc.out)],
                               mode |-> "plain"]
    [] acc.mode = "plain" /\ b = kEscapeChar -> [out |-> acc.out, mode |-> "escape"]
    [] acc.mode = "plain" /\ b = kRLEMarker  -> [out |-> acc.out, mode |-> "count"]
    [] OTHER -> [out |-> Append(acc.out, b), mode |-> "plain"]

Decoded(bytes) ==
  LET after[n \in 0 .. Len(bytes)] ==
        IF n = 0 THEN [out |-> <<>>, mode |-> "plain"] ELSE DecodeStep(after[n - 1], bytes[n])
  IN  after[Len(bytes)]

Decode(bytes) == Decoded(bytes).out

\* The sum of the bytes, as a client adds them up.
Sum(bytes) ==
  LET sum[n \in 0 .. Len(bytes)] == IF n = 0 THEN 0 ELSE (sum[n - 1] + bytes[n]) % 256
  IN  sum[Len(bytes)]

\* The bytes between the packet start and the packet end.
Body == SubSeq(sent, 2, Len(sent) - 3)

Complete == pc = "done" /\ buf = <<>>

\* The client decodes the reply to what the stub answered, byte for byte,
\* however it was cut into sends.
DecodesBack == Complete => Decode(Body) = response

\* A client that looks for the first '#', starts over at a '$' and compares the
\* checksum accepts the packet: no byte between the framing characters, the
\* run-length counts included, is one of them or a string terminator, and the
\* sum of them is the one the last two digits give.
FramedSafely ==
  Complete =>
    /\ Head(sent) = kPacketStart
    /\ sent[Len(sent) - 2] = kPacketEnd
    /\ ToSet(Body) \cap {kPacketStart, kPacketEnd, 0} = {}
    /\ SubSeq(sent, Len(sent) - 1, Len(sent))
         = <<hexTable(Sum(Body) \div 16), hexTable(Sum(Body) % 16)>>
=============================================================================
