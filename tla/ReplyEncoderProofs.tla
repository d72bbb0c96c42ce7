-------------------------- MODULE ReplyEncoderProofs ---------------------------
(***************************************************************************)
(* Theorems about ReplyEncoder, for every response and every buffer of six *)
(* bytes or more.                                                          *)
(*                                                                         *)
(* Between two iterations at most BufSize - 2 bytes are in the buffer: the *)
(* flush test leaves room for four, and an iteration appends at most three.*)
(*                                                                         *)
(* What was written so far, sent or still in the buffer, stands for the    *)
(* characters before the next one: a client that read just that would have *)
(* decoded these, and its sum would be the server's (CodeInv).  Each       *)
(* iteration extends this by the characters it covers (EncodedMeans).  The *)
(* client's decoder and sum are recursive functions of the bytes; that     *)
(* they satisfy their equations is shown by induction, over a set and by   *)
(* the well-foundedness of the numbers, for the provers cannot instantiate *)
(* a rule about a predicate.                                               *)
(***************************************************************************)
EXTENDS ReplyEncoder, FiniteSetTheorems, SequenceTheorems, WellFoundedInduction, TLAPS

EncTypeOK ==
  /\ response \in Seq(0 .. 255)
  /\ i \in Nat \ {0}
  /\ buf \in Seq(Int)
  /\ sent \in Seq(Int)
  /\ checksum \in 0 .. 255
  /\ pc \in {"encode", "done"}

\* Room for what is still to be appended.
RoomLeft == pc = "encode" => Len(buf) <= BufSize - 2

EInv == EncTypeOK /\ RoomLeft /\ NeverOverruns

-----------------------------------------------------------------------------
(* What an iteration appends.                                              *)

LEMMA CharacterRead ==
  ASSUME EncTypeOK, NEW k \in Nat \ {0}, k <= Len(response)
  PROVE  response[k] \in 0 .. 255
PROOF
  <1>1. k \in 1 .. Len(response)
    BY DEF EncTypeOK
  <1> QED
    BY <1>1, ElementOfSeq DEF EncTypeOK

\* A run that begins inside the response ends inside it.
LEMMA RunLengthBounded ==
  ASSUME EncTypeOK, NEW k \in Nat \ {0}, k <= Len(response)
  PROVE  RunLength(k) \in 0 .. (Len(response) - k + 1)
PROOF
  <1> DEFINE L == 1 .. (Len(response) - k + 1)
             R == {n \in L : \A j \in k .. (k + n - 1) : response[j] = response[k]}
  <1>1. Len(response) \in Nat
    BY DEF EncTypeOK
  <1>2. IsFiniteSet(L) /\ Cardinality(L) = Len(response) - k + 1
    BY <1>1, FS_Interval
  <1>3. R \in SUBSET L
    OBVIOUS
  <1>4. IsFiniteSet(R) /\ Cardinality(R) <= Cardinality(L)
    BY <1>2, <1>3, FS_Subset
  <1>5. Cardinality(R) \in Nat
    BY <1>4, FS_CardinalityType
  <1> QED
    BY <1>1, <1>2, <1>4, <1>5 DEF RunLength

\* One count never stands for characters beyond the end of the response.
LEMMA MoreBounded ==
  ASSUME EncTypeOK, NEW k \in Nat \ {0}, k <= Len(response)
  PROVE  More(k) \in 0 .. (Len(response) - k)
PROOF
  <1>1. Len(response) \in Nat
    BY DEF EncTypeOK
  <1>2. RunLength(k) \in 0 .. (Len(response) - k + 1)
    BY RunLengthBounded
  <1> QED
    BY <1>1, <1>2 DEF More, MoreCharacters, MaxMoreCharacters, kRLEBase

\* At most three bytes are appended for one character and its count.
LEMMA EncodedLength ==
  ASSUME EncTypeOK, NEW k \in Nat \ {0}, k <= Len(response)
  PROVE  Encoded(k) \in Seq(Int) /\ Len(Encoded(k)) <= 3
PROOF
  <1>0. response[k] \in 0 .. 255
    BY CharacterRead
  <1>1. response[k] \in Int
    <2>1. \A x \in 0 .. 255 : x \in Int
      OBVIOUS
    <2> QED
      BY <1>0, <2>1, Zenon
  <1>2. Masked(response[k]) \in Int
    BY <1>1 DEF Masked
  <1>3. Len(response) \in Nat /\ More(k) \in Int
    BY MoreBounded DEF EncTypeOK
  <1>4. CASE MustEscape(response[k])
    <2>1. Encoded(k) = <<kEscapeChar, Masked(response[k])>>
      BY <1>4 DEF Encoded
    <2> QED
      BY <1>2, <2>1 DEF kEscapeChar
  <1>5. CASE ~MustEscape(response[k]) /\ More(k) = 0
    <2>1. Encoded(k) = <<response[k]>>
      BY <1>5 DEF Encoded
    <2> QED
      BY <1>1, <2>1
  <1>6. CASE ~MustEscape(response[k]) /\ More(k) # 0
    <2>1. Encoded(k) = <<response[k], kRLEMarker, kRLEBase + More(k)>>
      BY <1>6 DEF Encoded
    <2> QED
      BY <1>1, <1>3, <2>1 DEF kRLEMarker, kRLEBase
  <1> QED
    BY <1>4, <1>5, <1>6

\* The flush test leaves room for reserve bytes.
LEMMA FlushMakesRoom ==
  ASSUME EncTypeOK, NEW reserve \in 0 .. 5
  PROVE  /\ Flush(reserve).buf \in Seq(Int)
         /\ Flush(reserve).sent \in Seq(Int)
         /\ Len(Flush(reserve).buf) <= BufSize - reserve - 1
  BY EncoderAssumption DEF EncTypeOK, Flush, EncoderAssumption

-----------------------------------------------------------------------------
LEMMA EncodeNextKeeps ==
  ASSUME EInv, EncodeNext
  PROVE  EInv'
PROOF
  <1> USE DEF EInv
  <1>1. Flush(4).buf \in Seq(Int) /\ Flush(4).sent \in Seq(Int)
          /\ Len(Flush(4).buf) <= BufSize - 5
    BY FlushMakesRoom, EncoderAssumption DEF EncoderAssumption
  <1>2. Encoded(i) \in Seq(Int) /\ Len(Encoded(i)) <= 3
    BY EncodedLength DEF EncTypeOK, EncodeNext
  <1>3. buf' \in Seq(Int) /\ Len(buf') <= BufSize - 2
    BY <1>1, <1>2, EncoderAssumption DEF EncodeNext, EncoderAssumption
  <1>4. i' \in Nat \ {0}
    BY MoreBounded DEF EncTypeOK, EncodeNext
  <1>5. checksum' \in 0 .. 255
    <2>1. response[i] \in 0 .. 255 /\ More(i) \in Int
      BY CharacterRead, MoreBounded DEF EncTypeOK, EncodeNext
    <2>2. Masked(response[i]) \in Int
      BY <2>1 DEF Masked
    <2>3. ChecksumStep(i) \in Int
      BY <2>1, <2>2 DEF ChecksumStep, kEscapeChar, kRLEMarker, kRLEBase
    <2>4. \A a, b \in Int : (a + b) % 256 \in 0 .. 255
      OBVIOUS
    <2>5. checksum \in Int
      BY DEF EncTypeOK
    <2> QED
      BY <2>3, <2>4, <2>5, Zenon DEF EncodeNext
  <1> QED
    BY <1>1, <1>3, <1>4, <1>5, EncoderAssumption
    DEF EncTypeOK, EncodeNext, RoomLeft, NeverOverruns, EncoderAssumption

LEMMA FinishKeeps ==
  ASSUME EInv, Finish
  PROVE  EInv'
PROOF
  <1> USE DEF EInv
  <1>1. Flush(3).buf \in Seq(Int) /\ Flush(3).sent \in Seq(Int)
          /\ Len(Flush(3).buf) <= BufSize - 4
    BY FlushMakesRoom, EncoderAssumption DEF EncoderAssumption
  <1>2. hexTable(checksum \div 16) \in Int /\ hexTable(checksum % 16) \in Int
    BY DEF hexTable, EncTypeOK
  <1>3. <<kPacketEnd, hexTable(checksum \div 16), hexTable(checksum % 16)>> \in Seq(Int)
    BY <1>2 DEF kPacketEnd
  <1>4. buf' \in Seq(Int) /\ Len(buf') <= BufSize - 1
    BY <1>1, <1>3, EncoderAssumption DEF Finish, EncoderAssumption
  <1> QED
    BY <1>1, <1>4, EncoderAssumption
    DEF EncTypeOK, Finish, RoomLeft, NeverOverruns, EncoderAssumption

LEMMA SendRestKeeps ==
  ASSUME EInv, SendRest
  PROVE  EInv'
  BY EncoderAssumption
  DEF EInv, SendRest, EncTypeOK, RoomLeft, NeverOverruns, EncoderAssumption

LEMMA EInvInit == Init => EInv
  BY EncoderAssumption
  DEF Init, EInv, EncTypeOK, RoomLeft, NeverOverruns, EncoderAssumption,
      kPacketStart

LEMMA EInvStep ==
  ASSUME EInv, [Next]_encVars
  PROVE  EInv'
PROOF
  <1>1. CASE UNCHANGED encVars
    BY <1>1 DEF encVars, EInv, EncTypeOK, RoomLeft, NeverOverruns
  <1> QED
    BY <1>1, EncodeNextKeeps, FinishKeeps, SendRestKeeps DEF Next

\* internalBuf is never overrun, for every buffer size and every response.
THEOREM BufferSafe == Spec => []NeverOverruns
PROOF
  <1>1. Init => EInv
    BY EInvInit
  <1>2. EInv /\ [Next]_encVars => EInv'
    BY EInvStep
  <1>3. EInv => NeverOverruns
    BY DEF EInv
  <1> QED
    BY <1>1, <1>2, <1>3, PTL DEF Spec

\* The encoder never looks past the end of the response: a run-length count
\* stands only for characters that are there.
THEOREM CountsStayInside ==
  ASSUME EncTypeOK, NEW k \in Nat \ {0}, k <= Len(response)
  PROVE  k + 1 + More(k) <= Len(response) + 1
PROOF
  <1>1. Len(response) \in Nat
    BY DEF EncTypeOK
  <1> QED
    BY <1>1, MoreBounded

-----------------------------------------------------------------------------
(* What the client makes of the bytes.                                     *)

\* Induction over the numbers: the least of those that are missing would have
\* a predecessor that is not.
LEMMA InductionOverNat ==
  ASSUME NEW S, 0 \in S, \A n \in Nat : n \in S => n + 1 \in S
  PROVE  Nat \subseteq S
PROOF
  <1> DEFINE less == OpToRel(<, Nat)
             rest == Nat \ S
  <1>1. SUFFICES ASSUME rest # {} PROVE FALSE
    OBVIOUS
  <1>2. PICK least \in rest : \A n \in rest : <<n, least>> \notin less
    <2>1. IsWellFoundedOn(less, Nat)
      BY NatLessThanWellFounded
    <2>2. rest \subseteq Nat
      OBVIOUS
    <2> HIDE DEF less, rest
    <2> QED
      BY <1>1, <2>1, <2>2, WFMin
  <1>3. less = {ss \in Nat \X Nat : ss[1] < ss[2]}
    BY Zenon DEF OpToRel
  <1>4. least \in Nat /\ least # 0 /\ least \notin S
    OBVIOUS
  <1>5. least - 1 \in Nat /\ least - 1 \notin S
    BY <1>4
  <1>6. <<least - 1, least>> \in {ss \in Nat \X Nat : ss[1] < ss[2]}
    BY <1>4, <1>5
  <1>7. least - 1 \in rest
    BY <1>5
  <1> QED
    BY <1>2, <1>3, <1>6, <1>7

\* A client that has seen nothing.
Nothing == [out |-> <<>>, mode |-> "plain"]

\* There is a function for which the equation inside Decoded holds.
LEMMA DecodedExists ==
  ASSUME NEW bytes
  PROVE  \A n \in Nat : \E f : f = [m \in 0 .. n |-> IF m = 0 THEN Nothing ELSE DecodeStep(f[m - 1], bytes[m])]
PROOF
  <1> DEFINE S == {n \in Nat : \E f :
                     f = [m \in 0 .. n |-> IF m = 0 THEN Nothing ELSE DecodeStep(f[m - 1], bytes[m])]}
  <1>1. 0 \in S
    <2> DEFINE f == [m \in 0 .. 0 |-> Nothing]
    <2>1. f = [m \in 0 .. 0 |-> IF m = 0 THEN Nothing ELSE DecodeStep(f[m - 1], bytes[m])]
      OBVIOUS
    <2> HIDE DEF f
    <2> QED
      BY <2>1
  <1>2. ASSUME NEW n \in Nat, n \in S PROVE n + 1 \in S
    <2>1. PICK f : f = [m \in 0 .. n |-> IF m = 0 THEN Nothing ELSE DecodeStep(f[m - 1], bytes[m])]
      BY <1>2
    <2> DEFINE g == [m \in 0 .. n + 1 |-> IF m = n + 1 THEN DecodeStep(f[n], bytes[n + 1]) ELSE f[m]]
    <2>2. g = [m \in 0 .. n + 1 |-> IF m = 0 THEN Nothing ELSE DecodeStep(g[m - 1], bytes[m])]
      <3>1. \A m \in 0 .. n + 1 : g[m] = IF m = 0 THEN Nothing ELSE DecodeStep(g[m - 1], bytes[m])
        BY <2>1
      <3> QED
        BY <3>1
    <2> HIDE DEF g
    <2>3. n + 1 \in Nat
      OBVIOUS
    <2> QED
      BY <2>2, <2>3, Zenon
  <1> HIDE DEF S
  <1>3. Nat \subseteq S
    BY <1>1, <1>2, InductionOverNat
  <1> QED
    BY <1>3 DEF S

LEMMA DecodedDef ==
  ASSUME NEW bytes, Len(bytes) \in Nat
  PROVE  \E f : /\ f = [m \in 0 .. Len(bytes) |-> IF m = 0 THEN Nothing ELSE DecodeStep(f[m - 1], bytes[m])]
                /\ Decoded(bytes) = f[Len(bytes)]
PROOF
  <1> DEFINE after[m \in 0 .. Len(bytes)] == IF m = 0 THEN Nothing ELSE DecodeStep(after[m - 1], bytes[m])
  <1>1. \E f : f = [m \in 0 .. Len(bytes) |-> IF m = 0 THEN Nothing ELSE DecodeStep(f[m - 1], bytes[m])]
    BY DecodedExists
  <1>2. after = [m \in 0 .. Len(bytes) |-> IF m = 0 THEN Nothing ELSE DecodeStep(after[m - 1], bytes[m])]
    BY <1>1, Zenon
  <1>3. Decoded(bytes) = after[Len(bytes)]
    BY DEF Decoded, Nothing
  <1> HIDE DEF after
  <1> QED
    BY <1>2, <1>3

\* One more byte is one more step of the client.
LEMMA DecodedAppend ==
  ASSUME NEW bytes \in Seq(Int), NEW b \in Int
  PROVE  Decoded(Append(bytes, b)) = DecodeStep(Decoded(bytes), b)
PROOF
  <1> DEFINE n == Len(bytes)
             more == Append(bytes, b)
  <1>1. n \in Nat /\ Len(more) = n + 1 /\ more[n + 1] = b /\ \A m \in 1 .. n : more[m] = bytes[m]
    OBVIOUS
  <1>2. PICK f : /\ f = [m \in 0 .. n |-> IF m = 0 THEN Nothing ELSE DecodeStep(f[m - 1], bytes[m])]
                 /\ Decoded(bytes) = f[n]
    BY DecodedDef
  <1> HIDE DEF more
  <1>3. PICK g : /\ g = [m \in 0 .. n + 1 |-> IF m = 0 THEN Nothing ELSE DecodeStep(g[m - 1], more[m])]
                 /\ Decoded(more) = g[n + 1]
    BY <1>1, DecodedDef
  <1> HIDE DEF n
  <1> DEFINE S == {m \in Nat : m <= n => g[m] = f[m]}
  <1>4. 0 \in S
    BY <1>1, <1>2, <1>3
  <1>5. ASSUME NEW m \in Nat, m \in S PROVE m + 1 \in S
    <2>1. CASE m + 1 <= n
      <3>1. m \in 0 .. n /\ m + 1 \in 0 .. n /\ m + 1 \in 0 .. n + 1 /\ m + 1 \in 1 .. n /\ m + 1 # 0 /\ (m + 1) - 1 = m
        BY <1>1, <2>1
      <3>2. g[m + 1] = DecodeStep(g[m], more[m + 1])
        BY <1>3, <3>1
      <3>3. f[m + 1] = DecodeStep(f[m], bytes[m + 1])
        BY <1>2, <3>1
      <3> QED
        BY <1>1, <1>5, <3>1, <3>2, <3>3
    <2> QED
      BY <2>1
  <1>6. Nat \subseteq S
    <2> HIDE DEF S
    <2> QED
      BY <1>4, <1>5, InductionOverNat
  <1>7. g[n] = f[n]
    BY <1>1, <1>6
  <1>8. g[n + 1] = DecodeStep(g[n], more[n + 1])
    <2>1. n + 1 \in 0 .. n + 1 /\ n + 1 # 0 /\ (n + 1) - 1 = n
      BY <1>1
    <2> QED
      BY <1>3, <2>1
  <1> QED
    BY <1>1, <1>2, <1>3, <1>7, <1>8 DEF more

LEMMA DecodedEmpty == Decoded(<<>>) = Nothing
PROOF
  <1>1. Len(<<>>) = 0
    OBVIOUS
  <1>2. PICK f : /\ f = [m \in 0 .. 0 |-> IF m = 0 THEN Nothing ELSE DecodeStep(f[m - 1], <<>>[m])]
                 /\ Decoded(<<>>) = f[0]
    BY <1>1, DecodedDef
  <1> QED
    BY <1>2

\* The sum, likewise.
LEMMA SumExists ==
  ASSUME NEW bytes
  PROVE  \A n \in Nat : \E f : f = [m \in 0 .. n |-> IF m = 0 THEN 0 ELSE (f[m - 1] + bytes[m]) % 256]
PROOF
  <1> DEFINE S == {n \in Nat : \E f : f = [m \in 0 .. n |-> IF m = 0 THEN 0 ELSE (f[m - 1] + bytes[m]) % 256]}
  <1>1. 0 \in S
    <2> DEFINE f == [m \in 0 .. 0 |-> 0]
    <2>1. f = [m \in 0 .. 0 |-> IF m = 0 THEN 0 ELSE (f[m - 1] + bytes[m]) % 256]
      OBVIOUS
    <2> HIDE DEF f
    <2> QED
      BY <2>1
  <1>2. ASSUME NEW n \in Nat, n \in S PROVE n + 1 \in S
    <2>1. PICK f : f = [m \in 0 .. n |-> IF m = 0 THEN 0 ELSE (f[m - 1] + bytes[m]) % 256]
      BY <1>2
    <2> DEFINE step(x, m) == (x + bytes[m]) % 256
               g == [m \in 0 .. n + 1 |-> IF m = n + 1 THEN step(f[n], n + 1) ELSE f[m]]
    <2>2. f = [m \in 0 .. n |-> IF m = 0 THEN 0 ELSE step(f[m - 1], m)]
      BY <2>1, Zenon
    <2> HIDE DEF step
    <2>3. g = [m \in 0 .. n + 1 |-> IF m = 0 THEN 0 ELSE step(g[m - 1], m)]
      <3>1. \A m \in 0 .. n + 1 : g[m] = IF m = 0 THEN 0 ELSE step(g[m - 1], m)
        BY <2>2
      <3> QED
        BY <3>1
    <2> HIDE DEF g
    <2>4. n + 1 \in Nat
      OBVIOUS
    <2> QED
      BY <2>3, <2>4, Zenon DEF step
  <1> HIDE DEF S
  <1>3. Nat \subseteq S
    BY <1>1, <1>2, InductionOverNat
  <1> QED
    BY <1>3 DEF S

LEMMA SumDef ==
  ASSUME NEW bytes, Len(bytes) \in Nat
  PROVE  \E f : /\ f = [m \in 0 .. Len(bytes) |-> IF m = 0 THEN 0 ELSE (f[m - 1] + bytes[m]) % 256]
                /\ Sum(bytes) = f[Len(bytes)]
PROOF
  <1> DEFINE sum[m \in 0 .. Len(bytes)] == IF m = 0 THEN 0 ELSE (sum[m - 1] + bytes[m]) % 256
  <1>1. \E f : f = [m \in 0 .. Len(bytes) |-> IF m = 0 THEN 0 ELSE (f[m - 1] + bytes[m]) % 256]
    BY SumExists
  <1>2. sum = [m \in 0 .. Len(bytes) |-> IF m = 0 THEN 0 ELSE (sum[m - 1] + bytes[m]) % 256]
    BY <1>1, Zenon
  <1>3. Sum(bytes) = sum[Len(bytes)]
    BY DEF Sum
  <1> HIDE DEF sum
  <1> QED
    BY <1>2, <1>3

\* One more byte is added to the sum.
LEMMA SumAppend ==
  ASSUME NEW bytes \in Seq(Int), NEW b \in Int
  PROVE  Sum(Append(bytes, b)) = (Sum(bytes) + b) % 256
PROOF
  <1> DEFINE n == Len(bytes)
             more == Append(bytes, b)
             step(x, y) == (x + y) % 256
  <1>1. n \in Nat /\ Len(more) = n + 1 /\ more[n + 1] = b /\ \A m \in 1 .. n : more[m] = bytes[m]
    OBVIOUS
  <1>2. PICK f : /\ f = [m \in 0 .. n |-> IF m = 0 THEN 0 ELSE step(f[m - 1], bytes[m])]
                 /\ Sum(bytes) = f[n]
    BY SumDef
  <1> HIDE DEF more
  <1>3. PICK g : /\ g = [m \in 0 .. n + 1 |-> IF m = 0 THEN 0 ELSE step(g[m - 1], more[m])]
                 /\ Sum(more) = g[n + 1]
    BY <1>1, SumDef
  <1> HIDE DEF n, step
  <1> DEFINE S == {m \in Nat : m <= n => g[m] = f[m]}
  <1>4. 0 \in S
    BY <1>1, <1>2, <1>3
  <1>5. ASSUME NEW m \in Nat, m \in S PROVE m + 1 \in S
    <2>1. CASE m + 1 <= n
      <3>1. m \in 0 .. n /\ m + 1 \in 0 .. n /\ m + 1 \in 0 .. n + 1 /\ m + 1 \in 1 .. n /\ m + 1 # 0 /\ (m + 1) - 1 = m
        BY <1>1, <2>1
      <3>2. g[m + 1] = step(g[m], more[m + 1])
        BY <1>3, <3>1
      <3>3. f[m + 1] = step(f[m], bytes[m + 1])
        BY <1>2, <3>1
      <3> QED
        BY <1>1, <1>5, <3>1, <3>2, <3>3
    <2> QED
      BY <2>1
  <1>6. Nat \subseteq S
    <2> HIDE DEF S
    <2> QED
      BY <1>4, <1>5, InductionOverNat
  <1>7. g[n] = f[n]
    BY <1>1, <1>6
  <1>8. g[n + 1] = step(g[n], more[n + 1])
    <2>1. n + 1 \in 0 .. n + 1 /\ n + 1 # 0 /\ (n + 1) - 1 = n
      BY <1>1
    <2> QED
      BY <1>3, <2>1
  <1> QED
    BY <1>1, <1>2, <1>3, <1>7, <1>8 DEF more, step

LEMMA SumEmpty == Sum(<<>>) = 0
PROOF
  <1>1. Len(<<>>) = 0
    OBVIOUS
  <1>2. PICK f : /\ f = [m \in 0 .. 0 |-> IF m = 0 THEN 0 ELSE (f[m - 1] + <<>>[m]) % 256]
                 /\ Sum(<<>>) = f[0]
    BY <1>1, SumDef
  <1> QED
    BY <1>2

\* Wrapping after every byte is wrapping once.
LEMMA AddedOneByOne ==
  /\ \A s, a, b \in Int : (((s + a) % 256) + b) % 256 = (s + (a + b)) % 256
  /\ \A s, a, b, c \in Int : (((((s + a) % 256) + b) % 256) + c) % 256 = (s + (a + (b + c))) % 256
PROOF
  <1>1. \A s, a, b \in Int : (((s + a) % 256) + b) % 256 = (s + (a + b)) % 256
    OBVIOUS
  <1>2. \A s, a, b, c \in Int : (((((s + a) % 256) + b) % 256) + c) % 256 = (s + (a + (b + c))) % 256
    OBVIOUS
  <1> QED
    BY <1>1, <1>2

-----------------------------------------------------------------------------
(* What an iteration means to the client.                                  *)

\* It has read this much and waits for a character.
Plain(out) == [out |-> out, mode |-> "plain"]

LEMMA PlainStep ==
  ASSUME NEW out, NEW b, b # kEscapeChar, b # kRLEMarker
  PROVE  DecodeStep(Plain(out), b) = Plain(Append(out, b))
  BY DEF DecodeStep, Plain

LEMMA EscapeSteps ==
  ASSUME NEW out, NEW b
  PROVE  DecodeStep(DecodeStep(Plain(out), kEscapeChar), b) = Plain(Append(out, Masked(b)))
PROOF
  <1>1. DecodeStep(Plain(out), kEscapeChar) = [out |-> out, mode |-> "escape"]
    BY DEF DecodeStep, Plain, kEscapeChar, kRLEMarker
  <1>2. DecodeStep([out |-> out, mode |-> "escape"], b) = Plain(Append(out, Masked(b)))
    BY DEF DecodeStep, Plain
  <1> QED
    BY <1>1, <1>2

LEMMA CountSteps ==
  ASSUME NEW out, NEW b
  PROVE  DecodeStep(DecodeStep(Plain(out), kRLEMarker), b)
           = Plain(out \o [j \in 1 .. (b - kRLEBase) |-> Last(out)])
PROOF
  <1>1. DecodeStep(Plain(out), kRLEMarker) = [out |-> out, mode |-> "count"]
    BY DEF DecodeStep, Plain, kRLEMarker, kEscapeChar
  <1>2. DecodeStep([out |-> out, mode |-> "count"], b)
          = Plain(out \o [j \in 1 .. (b - kRLEBase) |-> Last(out)])
    BY DEF DecodeStep, Plain
  <1> QED
    BY <1>1, <1>2

\* The mask undoes itself, and no masked character is a framing one.
LEMMA MaskedTwice ==
  ASSUME NEW ch \in Int, MustEscape(ch)
  PROVE  /\ Masked(Masked(ch)) = ch
         /\ Masked(ch) \in Int /\ Masked(ch) \notin {kPacketStart, kPacketEnd, 0}
PROOF
  <1>1. ch \in {35, 36, 125, 42, 0}
    BY DEF MustEscape, kPacketEnd, kPacketStart, kEscapeChar, kRLEMarker
  <1>2. Masked(35) = 3 /\ Masked(3) = 35
    BY DEF Masked
  <1>3. Masked(36) = 4 /\ Masked(4) = 36
    BY DEF Masked
  <1>4. Masked(125) = 93 /\ Masked(93) = 125
    BY DEF Masked
  <1>5. Masked(42) = 10 /\ Masked(10) = 42
    BY DEF Masked
  <1>6. Masked(0) = 32 /\ Masked(32) = 0
    BY DEF Masked
  <1> QED
    BY <1>1, <1>2, <1>3, <1>4, <1>5, <1>6 DEF kPacketStart, kPacketEnd

\* A set of lengths that holds every smaller one holds as many as it says.
LEMMA DownwardClosed ==
  ASSUME NEW m \in Nat, NEW R \in SUBSET (1 .. m),
         \A x \in R : \A y \in 1 .. m : y <= x => y \in R
  PROVE  Cardinality(R) > 0 => Cardinality(R) \in R
PROOF
  <1> DEFINE c == Cardinality(R)
  <1>1. IsFiniteSet(1 .. m) /\ IsFiniteSet(R) /\ c \in Nat /\ c <= m
    <2>1. IsFiniteSet(1 .. m) /\ Cardinality(1 .. m) = m
      BY FS_Interval
    <2> QED
      BY <2>1, FS_Subset, FS_CardinalityType
  <1>2. ASSUME c > 0, c \notin R PROVE FALSE
    <2>1. PICK d \in Nat : c = d + 1
      <3>1. c - 1 \in Nat /\ c = (c - 1) + 1
        BY <1>1, <1>2
      <3> QED
        BY <3>1
    <2>2. R \in SUBSET (1 .. d)
      <3>1. ASSUME NEW x \in R, x > d PROVE FALSE
        <4>1. c \in 1 .. m /\ c <= x
          BY <1>1, <2>1, <3>1
        <4> QED
          BY <1>2, <4>1
      <3> QED
        BY <3>1
    <2>3. IsFiniteSet(1 .. d) /\ Cardinality(1 .. d) = d
      <3>1. 1 \in Int /\ d \in Int /\ (IF 1 > d THEN 0 ELSE d - 1 + 1) = d
        OBVIOUS
      <3> QED
        BY <3>1, FS_Interval
    <2>4. Cardinality(R) <= Cardinality(1 .. d)
      BY <2>2, <2>3, FS_Subset
    <2> QED
      BY <1>1, <2>1, <2>3, <2>4
  <1> QED
    BY <1>2

\* The characters of a run are equal.
LEMMA RunIsEqual ==
  ASSUME EncTypeOK, NEW k \in Nat \ {0}, k <= Len(response)
  PROVE  \A j \in k .. (k + RunLength(k) - 1) : response[j] = response[k]
PROOF
  <1> DEFINE m == Len(response) - k + 1
             R == {n \in 1 .. m : \A j \in k .. (k + n - 1) : response[j] = response[k]}
  <1>1. Len(response) \in Nat /\ m \in Nat
    BY DEF EncTypeOK
  <1>2. RunLength(k) = Cardinality(R)
    BY DEF RunLength
  <1>3. RunLength(k) \in Nat
    BY <1>1, RunLengthBounded
  <1>4. R \in SUBSET (1 .. m)
    OBVIOUS
  <1>5. \A x \in R : \A y \in 1 .. m : y <= x => y \in R
    BY <1>1
  <1>6. CASE RunLength(k) > 0
    <2>1. RunLength(k) \in R
      <3> HIDE DEF R, m
      <3> QED
        BY <1>1, <1>2, <1>4, <1>5, <1>6, DownwardClosed
    <2> QED
      BY <2>1
  <1>7. CASE ~(RunLength(k) > 0)
    BY <1>3, <1>7
  <1> QED
    BY <1>6, <1>7

\* What a count stands for, and how it is written.
LEMMA MoreStandsFor ==
  ASSUME EncTypeOK, NEW k \in Nat \ {0}, k <= Len(response)
  PROVE  /\ More(k) \in 0 .. (Len(response) - k)
         /\ \A j \in k .. (k + More(k)) : response[j] = response[k]
         /\ More(k) # 0 => kRLEBase + More(k) \notin {kPacketStart, kPacketEnd, 0}
PROOF
  <1>1. More(k) \in 0 .. (Len(response) - k) /\ Len(response) \in Nat
    BY MoreBounded DEF EncTypeOK
  <1>2. RunLength(k) \in Nat
    BY <1>1, RunLengthBounded
  <1>3. More(k) = 0 \/ More(k) <= RunLength(k) - 1
    BY <1>2 DEF More, MoreCharacters, MaxMoreCharacters, kRLEBase
  <1>4. More(k) # 0 => kRLEBase + More(k) \notin {kPacketStart, kPacketEnd, 0}
    BY <1>1, <1>2 DEF More, MoreCharacters, MaxMoreCharacters, kRLEBase, kPacketStart, kPacketEnd
  <1>5. \A j \in k .. (k + More(k)) : response[j] = response[k]
    BY <1>1, <1>2, <1>3, RunIsEqual
  <1> QED
    BY <1>1, <1>4, <1>5


\* Three bytes behind others, one after the other.
LEMMA AppendedTogether ==
  ASSUME NEW E \in Seq(Int), NEW a \in Int, NEW b \in Int, NEW c \in Int
  PROVE  /\ E \o <<a>> = Append(E, a)
         /\ E \o <<a, b>> = Append(Append(E, a), b)
         /\ E \o <<a, b, c>> = Append(Append(Append(E, a), b), c)
         /\ Append(E, a) \in Seq(Int)
         /\ Append(Append(E, a), b) \in Seq(Int)
  OBVIOUS

\* One more character, and the copies of it a count stands for.
LEMMA OneMore ==
  ASSUME EncTypeOK, NEW k \in Nat \ {0}, k <= Len(response)
  PROVE  Append(SubSeq(response, 1, k - 1), response[k]) = SubSeq(response, 1, k)
  BY DEF EncTypeOK

LEMMA PrefixIs ==
  ASSUME EncTypeOK, NEW n \in Nat, n <= Len(response)
  PROVE  /\ SubSeq(response, 1, n) \in Seq(0 .. 255)
         /\ Len(SubSeq(response, 1, n)) = n
         /\ \A j \in 1 .. n : SubSeq(response, 1, n)[j] = response[j]
PROOF
  <1> DEFINE s == SubSeq(response, 1, n)
  <1>1. \A j \in 1 .. n : response[j] \in 0 .. 255
    <2> SUFFICES ASSUME NEW j \in 1 .. n PROVE response[j] \in 0 .. 255
      OBVIOUS
    <2>1. j \in Nat \ {0} /\ j <= Len(response)
      BY DEF EncTypeOK
    <2> QED
      BY <2>1, CharacterRead
  <1>2. /\ s \in Seq(0 .. 255)
        /\ Len(s) = IF 1 <= n THEN n - 1 + 1 ELSE 0
        /\ \A j \in 1 .. n - 1 + 1 : s[j] = response[1 + j - 1]
    <2>1. 1 \in Int /\ n \in Int
      OBVIOUS
    <2> QED
      BY <1>1, <2>1, SubSeqProperties
  <1> HIDE DEF s
  <1>3. \A j \in 1 .. n : s[j] = response[j]
    <2>1. \A j \in 1 .. n : j \in 1 .. n - 1 + 1 /\ 1 + j - 1 = j
      OBVIOUS
    <2> QED
      BY <1>2, <2>1
  <1>4. Len(s) = n
    BY <1>2
  <1> QED
    BY <1>2, <1>3, <1>4 DEF s

LEMMA CopiesOfIt ==
  ASSUME EncTypeOK, NEW k \in Nat \ {0}, k <= Len(response), NEW n \in 0 .. (Len(response) - k),
         \A j \in k .. (k + n) : response[j] = response[k]
  PROVE  SubSeq(response, 1, k) \o [j \in 1 .. n |-> Last(SubSeq(response, 1, k))]
           = SubSeq(response, 1, k + n)
PROOF
  <1> DEFINE s == SubSeq(response, 1, k)
             copies == [j \in 1 .. n |-> response[k]]
             t == SubSeq(response, 1, k + n)
  <1>1. Len(response) \in Nat /\ k + n <= Len(response) /\ k + n \in Nat
    BY DEF EncTypeOK
  <1>2. s \in Seq(0 .. 255) /\ Len(s) = k /\ \A j \in 1 .. k : s[j] = response[j]
    BY PrefixIs
  <1>3. t \in Seq(0 .. 255) /\ Len(t) = k + n /\ \A j \in 1 .. k + n : t[j] = response[j]
    BY <1>1, PrefixIs
  <1>4. Last(s) = response[k]
    BY <1>2 DEF Last
  <1>5. copies \in Seq(0 .. 255) /\ Len(copies) = n /\ \A j \in 1 .. n : copies[j] = response[k]
    BY CharacterRead
  <1> HIDE DEF s, copies, t
  <1>6. s \o copies = t
    <2>1. s \o copies \in Seq(0 .. 255) /\ Len(s \o copies) = k + n
      BY <1>2, <1>5
    <2>2. \A j \in 1 .. k + n : (s \o copies)[j] = t[j]
      <3>1. \A j \in 1 .. Len(s) + Len(copies) :
              (s \o copies)[j] = IF j <= Len(s) THEN s[j] ELSE copies[j - Len(s)]
        BY <1>2, <1>5, ConcatProperties
      <3> SUFFICES ASSUME NEW j \in 1 .. k + n PROVE (s \o copies)[j] = t[j]
        OBVIOUS
      <3>2. (s \o copies)[j] = IF j <= k THEN s[j] ELSE copies[j - k]
        BY <1>2, <1>5, <3>1
      <3>3. t[j] = response[j]
        BY <1>3
      <3>4. CASE j <= k
        BY <1>2, <3>2, <3>3, <3>4
      <3>5. CASE ~(j <= k)
        <4>1. j \in k .. (k + n) /\ j - k \in 1 .. n
          BY <3>5
        <4> QED
          BY <1>5, <3>2, <3>3, <3>5, <4>1
      <3> QED
        BY <3>4, <3>5
    <2>3. \A j \in 1 .. Len(s \o copies) : (s \o copies)[j] = t[j]
      BY <2>1, <2>2
    <2> QED
      BY <1>3, <2>1, <2>3, SeqEqual
  <1> QED
    BY <1>4, <1>6 DEF s, copies, t

\* What an iteration appends decodes to the characters it covers, adds to the
\* client's sum what it adds to the server's, and looks like no framing.
LEMMA EncodedMeans ==
  ASSUME EncTypeOK, NEW k \in Nat \ {0}, k <= Len(response),
         NEW E \in Seq(Int), Sum(E) \in Int, Decoded(E) = Plain(SubSeq(response, 1, k - 1))
  PROVE  /\ Decoded(E \o Encoded(k)) = Plain(SubSeq(response, 1, k + More(k)))
         /\ Sum(E \o Encoded(k)) = (Sum(E) + ChecksumStep(k)) % 256
         /\ \A n \in 1 .. Len(Encoded(k)) : Encoded(k)[n] \notin {kPacketStart, kPacketEnd, 0}
PROOF
  <1> DEFINE ch == response[k]
             out == SubSeq(response, 1, k - 1)
  <1>1. ch \in Int /\ k + 0 = k
    <2>1. ch \in 0 .. 255
      BY CharacterRead
    <2>2. \A x \in 0 .. 255 : x \in Int
      OBVIOUS
    <2>3. k + 0 = k
      OBVIOUS
    <2> QED
      BY <2>1, <2>2, <2>3, Zenon
  <1>2. More(k) \in 0 .. (Len(response) - k) /\ More(k) \in Int
    BY MoreStandsFor DEF EncTypeOK
  <1>3. Append(out, ch) = SubSeq(response, 1, k)
    BY OneMore
  <1> HIDE DEF ch, out
  <1>4. CASE MustEscape(ch)
    <2>1. Encoded(k) = <<kEscapeChar, Masked(ch)>> /\ ChecksumStep(k) = kEscapeChar + Masked(ch) /\ More(k) = 0
      BY <1>4 DEF Encoded, ChecksumStep, More, ch
    <2>2. Masked(Masked(ch)) = ch /\ Masked(ch) \in Int /\ Masked(ch) \notin {kPacketStart, kPacketEnd, 0}
      BY <1>1, <1>4, MaskedTwice
    <2>3. kEscapeChar \in Int /\ kEscapeChar \notin {kPacketStart, kPacketEnd, 0}
      BY DEF kEscapeChar, kPacketStart, kPacketEnd
    <2> DEFINE mid == Append(E, kEscapeChar)
    <2>4. mid \in Seq(Int) /\ E \o Encoded(k) = Append(mid, Masked(ch))
      BY <2>1, <2>2, <2>3, AppendedTogether
    <2>5. Decoded(mid) = DecodeStep(Plain(out), kEscapeChar) /\ Sum(mid) = (Sum(E) + kEscapeChar) % 256
      BY <2>3, DecodedAppend, SumAppend DEF out
    <2> HIDE DEF mid
    <2>6. Decoded(Append(mid, Masked(ch))) = DecodeStep(Decoded(mid), Masked(ch))
            /\ Sum(Append(mid, Masked(ch))) = (Sum(mid) + Masked(ch)) % 256
      BY <2>2, <2>4, DecodedAppend, SumAppend
    <2>7. Decoded(E \o Encoded(k)) = Plain(Append(out, Masked(Masked(ch))))
      BY <2>4, <2>5, <2>6, EscapeSteps
    <2>8. (((Sum(E) + kEscapeChar) % 256) + Masked(ch)) % 256 = (Sum(E) + (kEscapeChar + Masked(ch))) % 256
      BY <2>2, <2>3, AddedOneByOne
    <2>9. Sum(E \o Encoded(k)) = (Sum(E) + ChecksumStep(k)) % 256
      BY <2>1, <2>4, <2>5, <2>6, <2>8
    <2>10. \A n \in 1 .. Len(Encoded(k)) : Encoded(k)[n] \notin {kPacketStart, kPacketEnd, 0}
      BY <2>1, <2>2, <2>3
    <2> QED
      BY <1>1, <1>3, <2>1, <2>2, <2>7, <2>9, <2>10
  <1>5. CASE ~MustEscape(ch)
    <2>1. ch # kEscapeChar /\ ch # kRLEMarker /\ ch \notin {kPacketStart, kPacketEnd, 0}
      BY <1>5 DEF MustEscape
    <2> DEFINE mid == Append(E, ch)
    <2>2. mid \in Seq(Int) /\ E \o <<ch>> = mid
      BY <1>1, AppendedTogether
    <2>3. Decoded(mid) = Plain(SubSeq(response, 1, k)) /\ Sum(mid) = (Sum(E) + ch) % 256
      <3>1. Decoded(mid) = DecodeStep(Plain(out), ch)
        BY <1>1, DecodedAppend DEF out
      <3>2. DecodeStep(Plain(out), ch) = Plain(Append(out, ch))
        BY <2>1, PlainStep
      <3>3. Sum(mid) = (Sum(E) + ch) % 256
        BY <1>1, SumAppend
      <3> HIDE DEF mid
      <3> QED
        BY <1>3, <3>1, <3>2, <3>3, Zenon
    <2> HIDE DEF mid
    <2>4. CASE More(k) = 0
      <3>1. Encoded(k) = <<ch>> /\ ChecksumStep(k) = ch + 0
        BY <1>5, <2>4 DEF Encoded, ChecksumStep, ch
      <3>2. \A n \in 1 .. Len(Encoded(k)) : Encoded(k)[n] \notin {kPacketStart, kPacketEnd, 0}
        BY <2>1, <3>1
      <3>3. ch + 0 = ch
        BY <1>1
      <3> QED
        BY <1>1, <2>2, <2>3, <2>4, <3>1, <3>2, <3>3
    <2>5. CASE More(k) # 0
      <3> DEFINE count == kRLEBase + More(k)
                 marked == Append(mid, kRLEMarker)
      <3>1. Encoded(k) = <<ch, kRLEMarker, count>> /\ ChecksumStep(k) = ch + (kRLEMarker + count)
        <4>1. Encoded(k) = <<ch, kRLEMarker, count>>
          BY <1>5, <2>5 DEF Encoded, ch
        <4>2. ChecksumStep(k) = ch + (kRLEMarker + kRLEBase + More(k))
          BY <1>5, <2>5 DEF ChecksumStep, ch
        <4> QED
          BY <1>2, <4>1, <4>2 DEF kRLEMarker, kRLEBase
      <3>2. count \in Int /\ count - kRLEBase = More(k) /\ kRLEMarker \in Int
              /\ kRLEMarker \notin {kPacketStart, kPacketEnd, 0}
        BY <1>2 DEF kRLEBase, kRLEMarker, kPacketStart, kPacketEnd
      <3>3. count \notin {kPacketStart, kPacketEnd, 0}
        BY <2>5, MoreStandsFor
      <3> HIDE DEF count
      <3>4. marked \in Seq(Int) /\ E \o Encoded(k) = Append(marked, count)
        BY <1>1, <2>2, <3>1, <3>2, AppendedTogether DEF mid
      <3>5. Decoded(marked) = DecodeStep(Decoded(mid), kRLEMarker) /\ Sum(marked) = (Sum(mid) + kRLEMarker) % 256
        BY <2>2, <3>2, DecodedAppend, SumAppend
      <3> HIDE DEF marked
      <3>6. Decoded(Append(marked, count)) = DecodeStep(Decoded(marked), count)
              /\ Sum(Append(marked, count)) = (Sum(marked) + count) % 256
        BY <3>2, <3>4, DecodedAppend, SumAppend
      <3>7. Decoded(E \o Encoded(k))
              = Plain(SubSeq(response, 1, k) \o [j \in 1 .. More(k) |-> Last(SubSeq(response, 1, k))])
        BY <2>3, <3>2, <3>4, <3>5, <3>6, CountSteps
      <3>8. Decoded(E \o Encoded(k)) = Plain(SubSeq(response, 1, k + More(k)))
        BY <1>2, <3>7, CopiesOfIt, MoreStandsFor
      <3>9. (((((Sum(E) + ch) % 256) + kRLEMarker) % 256) + count) % 256 = (Sum(E) + (ch + (kRLEMarker + count))) % 256
        BY <1>1, <3>2, AddedOneByOne
      <3>10. Sum(E \o Encoded(k)) = (Sum(E) + ChecksumStep(k)) % 256
        <4>1. Sum(E \o Encoded(k)) = (Sum(marked) + count) % 256
          BY <3>4, <3>6, Zenon
        <4>2. Sum(marked) = (((Sum(E) + ch) % 256) + kRLEMarker) % 256
          BY <2>3, <3>5, Zenon
        <4>3. Sum(E \o Encoded(k)) = (Sum(E) + (ch + (kRLEMarker + count))) % 256
          BY <3>9, <4>1, <4>2, Zenon
        <4> QED
          BY <3>1, <4>3, Zenon
      <3>11. \A n \in 1 .. Len(Encoded(k)) : Encoded(k)[n] \notin {kPacketStart, kPacketEnd, 0}
        <4>1. \A n \in 1 .. 3 : Encoded(k)[n] \in {ch, kRLEMarker, count}
          BY <3>1
        <4>2. Len(Encoded(k)) = 3
          BY <3>1
        <4> QED
          BY <2>1, <3>2, <3>3, <4>1, <4>2, Zenon
      <3> QED
        BY <3>8, <3>10, <3>11
    <2> QED
      BY <2>4, <2>5
  <1> QED
    BY <1>4, <1>5

-----------------------------------------------------------------------------
(* What is between the framing characters, wherever the flushes fell.      *)

Framing == {kPacketStart, kPacketEnd, 0}

\* The bytes of E are the first n characters, their sum is the server's, and
\* none of them is a framing character.
StandsFor(E, n) ==
  /\ E \in Seq(Int)
  /\ Decoded(E) = Plain(SubSeq(response, 1, n))
  /\ Sum(E) = checksum
  /\ \A k \in 1 .. Len(E) : E[k] \notin Framing

Trailer == <<kPacketEnd, hexTable(checksum \div 16), hexTable(checksum % 16)>>

\* What was written so far, in the buffer or already on its way.
Written == sent \o buf

CodeInv ==
  /\ i <= Len(response) + 1
  /\ pc = "encode" => \E E : StandsFor(E, i - 1) /\ Written = <<kPacketStart>> \o E
  /\ pc = "done" =>
       \E E : StandsFor(E, Len(response)) /\ Written = (<<kPacketStart>> \o E) \o Trailer

\* A flush moves bytes and loses none.
LEMMA FlushLosesNothing ==
  ASSUME EncTypeOK, NEW reserve \in 0 .. 5, NEW more \in Seq(Int)
  PROVE  Flush(reserve).sent \o (Flush(reserve).buf \o more) = Written \o more
PROOF
  <1>1. buf \in Seq(Int) /\ sent \in Seq(Int) /\ <<>> \in Seq(Int)
    BY DEF EncTypeOK
  <1>2. CASE Len(buf) >= BufSize - reserve
    <2>1. Flush(reserve).sent = sent \o buf /\ Flush(reserve).buf = <<>>
      BY <1>2 DEF Flush
    <2>2. <<>> \o more = more
      OBVIOUS
    <2> QED
      BY <2>1, <2>2 DEF Written
  <1>3. CASE ~(Len(buf) >= BufSize - reserve)
    <2>1. Flush(reserve).sent = sent /\ Flush(reserve).buf = buf
      BY <1>3 DEF Flush
    <2>2. sent \o (buf \o more) = (sent \o buf) \o more
      BY <1>1, ConcatAssociative
    <2> QED
      BY <2>1, <2>2 DEF Written
  <1> QED
    BY <1>2, <1>3

LEMMA CodeInit == Init => CodeInv
PROOF
  <1> SUFFICES ASSUME Init PROVE CodeInv
    OBVIOUS
  <1>1. response \in Seq(0 .. 255) /\ Len(response) \in Nat
    BY EncoderAssumption DEF Init, EncoderAssumption
  <1>2. SubSeq(response, 1, 0) = <<>>
    BY <1>1
  <1>3. StandsFor(<<>>, 0)
    <2>1. Decoded(<<>>) = Plain(<<>>)
      BY DecodedEmpty DEF Nothing, Plain
    <2>2. <<>> \in Seq(Int) /\ \A k \in 1 .. Len(<<>>) : <<>>[k] \notin Framing
      OBVIOUS
    <2>3. Sum(<<>>) = checksum
      BY SumEmpty DEF Init
    <2>4. Decoded(<<>>) = Plain(SubSeq(response, 1, 0))
      BY <1>2, <2>1
    <2> QED
      BY <2>2, <2>3, <2>4, Zenon DEF StandsFor
  <1>4. Written = <<kPacketStart>> \o <<>>
    BY DEF Written, Init, kPacketStart
  <1>5. i - 1 = 0 /\ i <= Len(response) + 1 /\ pc = "encode"
    BY <1>1 DEF Init
  <1> QED
    BY <1>3, <1>4, <1>5 DEF CodeInv

LEMMA CodeEncodeNext ==
  ASSUME EInv, CodeInv, EncodeNext
  PROVE  CodeInv'
PROOF
  <1>1. EncTypeOK /\ i \in Nat \ {0} /\ i <= Len(response) /\ Len(response) \in Nat /\ pc = "encode"
    BY DEF EInv, EncTypeOK, EncodeNext
  <1>2. More(i) \in 0 .. (Len(response) - i)
    BY <1>1, MoreBounded
  <1>3. PICK E : StandsFor(E, i - 1) /\ Written = <<kPacketStart>> \o E
    BY <1>1 DEF CodeInv
  <1>4. E \in Seq(Int) /\ Encoded(i) \in Seq(Int) /\ Sum(E) = checksum /\ checksum \in Int
    BY <1>1, <1>3, EncodedLength DEF StandsFor, EncTypeOK
  <1>0. PICK F : F = E \o Encoded(i)
    OBVIOUS
  <1>5. /\ Decoded(F) = Plain(SubSeq(response, 1, i + More(i)))
        /\ Sum(F) = (Sum(E) + ChecksumStep(i)) % 256
        /\ \A n \in 1 .. Len(Encoded(i)) : Encoded(i)[n] \notin Framing
    BY <1>0, <1>1, <1>3, <1>4, EncodedMeans DEF StandsFor, Framing
  <1>6. F \in Seq(Int) /\ \A k \in 1 .. Len(F) : F[k] \notin Framing
    <2>1. /\ F \in Seq(Int)
          /\ Len(F) = Len(E) + Len(Encoded(i))
          /\ \A k \in 1 .. Len(E) + Len(Encoded(i)) :
                F[k] = IF k <= Len(E) THEN E[k] ELSE Encoded(i)[k - Len(E)]
      BY <1>0, <1>4, ConcatProperties
    <2>2. \A k \in 1 .. Len(E) : E[k] \notin Framing
      BY <1>3 DEF StandsFor
    <2>3. Len(E) \in Nat /\ Len(Encoded(i)) \in Nat
      BY <1>4
    <2> SUFFICES ASSUME NEW k \in 1 .. Len(F) PROVE F[k] \notin Framing
      BY <2>1
    <2>4. CASE k <= Len(E)
      BY <2>1, <2>2, <2>3, <2>4
    <2>5. CASE ~(k <= Len(E))
      <3>1. k - Len(E) \in 1 .. Len(Encoded(i)) /\ k \in 1 .. Len(E) + Len(Encoded(i))
        BY <2>1, <2>3, <2>5
      <3> QED
        BY <1>5, <2>1, <2>5, <3>1, Zenon
    <2> QED
      BY <2>4, <2>5
  <1>7. Written' = <<kPacketStart>> \o F
    <2>1. Written' = Flush(4).sent \o (Flush(4).buf \o Encoded(i))
      BY DEF Written, EncodeNext
    <2>2. Written' = Written \o Encoded(i)
      <3>1. 4 \in 0 .. 5
        OBVIOUS
      <3> QED
        BY <1>1, <1>4, <2>1, <3>1, FlushLosesNothing
    <2>3. (<<kPacketStart>> \o E) \o Encoded(i) = <<kPacketStart>> \o (E \o Encoded(i))
      <3>1. <<kPacketStart>> \in Seq(Int)
        BY DEF kPacketStart
      <3> QED
        BY <1>4, <3>1, ConcatAssociative
    <2> QED
      BY <1>0, <1>3, <2>2, <2>3
  <1>8. i' = i + 1 + More(i) /\ response' = response /\ pc' = pc
          /\ checksum' = (checksum + ChecksumStep(i)) % 256
    BY DEF EncodeNext
  <1>9. i' - 1 = i + More(i) /\ i' <= Len(response') + 1
    BY <1>1, <1>2, <1>8
  <1>10. StandsFor(F, i - 1)'
    <2>1. Decoded(F) = Plain(SubSeq(response', 1, i' - 1))
      BY <1>5, <1>8, <1>9
    <2>2. Sum(F) = checksum'
      BY <1>4, <1>5, <1>8, Zenon
    <2> QED
      BY <1>6, <2>1, <2>2 DEF StandsFor, Framing
  <1> QED
    BY <1>1, <1>7, <1>8, <1>9, <1>10 DEF CodeInv

LEMMA CodeFinish ==
  ASSUME EInv, CodeInv, Finish
  PROVE  CodeInv'
PROOF
  <1>1. EncTypeOK /\ Len(response) \in Nat /\ i \in Nat /\ i > Len(response) /\ pc = "encode"
    BY DEF EInv, EncTypeOK, Finish
  <1>2. i - 1 = Len(response)
    BY <1>1 DEF CodeInv
  <1>3. PICK E : StandsFor(E, Len(response)) /\ Written = <<kPacketStart>> \o E
    BY <1>1, <1>2 DEF CodeInv
  <1>4. Trailer \in Seq(Int)
    <2>1. hexTable(checksum \div 16) \in Int /\ hexTable(checksum % 16) \in Int
      BY <1>1 DEF hexTable, EncTypeOK
    <2> QED
      BY <2>1 DEF Trailer, kPacketEnd
  <1>5. Written' = Written \o Trailer
    <2>1. Written' = Flush(3).sent \o (Flush(3).buf \o Trailer)
      BY DEF Written, Finish, Trailer
    <2>2. 3 \in 0 .. 5
      OBVIOUS
    <2> QED
      BY <1>1, <1>4, <2>1, <2>2, FlushLosesNothing
  <1>6. response' = response /\ checksum' = checksum /\ i' = i /\ pc' = "done"
    BY DEF Finish
  <1>7. StandsFor(E, Len(response))' /\ Trailer' = Trailer
    BY <1>3, <1>6 DEF StandsFor, Trailer
  <1> QED
    BY <1>3, <1>5, <1>6, <1>7 DEF CodeInv

LEMMA CodeSendRest ==
  ASSUME EInv, CodeInv, SendRest
  PROVE  CodeInv'
PROOF
  <1>1. buf \in Seq(Int) /\ sent \in Seq(Int)
    BY DEF EInv, EncTypeOK
  <1>2. response' = response /\ checksum' = checksum /\ i' = i /\ pc' = pc /\ pc = "done"
    BY DEF SendRest
  <1>3. Written' = Written
    <2>1. Written' = (sent \o buf) \o <<>>
      BY DEF Written, SendRest
    <2>2. sent \o buf \in Seq(Int)
      BY <1>1
    <2> QED
      BY <2>1, <2>2, ConcatEmptySeq DEF Written
  <1>4. PICK E : StandsFor(E, Len(response)) /\ Written = (<<kPacketStart>> \o E) \o Trailer
    BY <1>2 DEF CodeInv
  <1>5. StandsFor(E, Len(response))' /\ Trailer' = Trailer
    BY <1>2, <1>4 DEF StandsFor, Trailer
  <1> QED
    BY <1>2, <1>3, <1>4, <1>5 DEF CodeInv

\* Everything above is an invariant of the encoder.
LEMMA CodeHolds == Spec => [](EInv /\ CodeInv)
PROOF
  <1>1. Init => EInv /\ CodeInv
    BY EInvInit, CodeInit
  <1>2. EInv /\ CodeInv /\ [Next]_encVars => (EInv /\ CodeInv)'
    <2> SUFFICES ASSUME EInv, CodeInv, [Next]_encVars PROVE EInv' /\ CodeInv'
      OBVIOUS
    <2>1. CASE UNCHANGED encVars
      <3>1. EInv'
        BY <2>1, EInvStep
      <3>2. CodeInv'
        BY <2>1 DEF encVars, CodeInv, StandsFor, Trailer, Written
      <3> QED
        BY <3>1, <3>2
    <2> QED
      BY <2>1, EInvStep, CodeEncodeNext, CodeFinish, CodeSendRest DEF Next
  <1> QED
    BY <1>1, <1>2, PTL DEF Spec

\* The complete packet, taken apart.
LEMMA PacketParts ==
  ASSUME EInv, CodeInv, Complete
  PROVE  /\ Head(sent) = kPacketStart
         /\ sent[Len(sent) - 2] = kPacketEnd
         /\ StandsFor(Body, Len(response))
         /\ SubSeq(sent, Len(sent) - 1, Len(sent))
              = <<hexTable(checksum \div 16), hexTable(checksum % 16)>>
PROOF
  <1>1. PICK E : StandsFor(E, Len(response)) /\ Written = (<<kPacketStart>> \o E) \o Trailer
    BY DEF CodeInv, Complete
  <1> DEFINE x == hexTable(checksum \div 16)
             y == hexTable(checksum % 16)
  <1>2. E \in Seq(Int) /\ sent \in Seq(Int) /\ x \in Int /\ y \in Int
    BY <1>1 DEF StandsFor, EInv, EncTypeOK, hexTable
  <1>3. sent = (<<36>> \o E) \o <<35, x, y>>
    <2>1. Written = sent
      BY <1>2 DEF Written, Complete
    <2> QED
      BY <1>1, <2>1 DEF Trailer, kPacketStart, kPacketEnd
  <1> HIDE DEF x, y
  <1> DEFINE n == Len(E)
  <1>4. n \in Nat /\ \A k \in 1 .. n : E[k] \in Int
    BY <1>2
  <1>5. /\ Len(sent) = n + 4
        /\ sent[1] = 36
        /\ \A k \in 2 .. n + 1 : sent[k] = E[k - 1]
        /\ sent[n + 2] = 35 /\ sent[n + 3] = x /\ sent[n + 4] = y
    <2> DEFINE head == <<36>> \o E
               tail == <<35, x, y>>
    <2>1. <<36>> \in Seq(Int) /\ Len(<<36>>) = 1 /\ <<36>>[1] = 36
      OBVIOUS
    <2>2. tail \in Seq(Int) /\ Len(tail) = 3 /\ tail[1] = 35 /\ tail[2] = x /\ tail[3] = y
      BY <1>2
    <2>3. /\ head \in Seq(Int) /\ Len(head) = Len(<<36>>) + n
          /\ \A k \in 1 .. Len(<<36>>) + n : head[k] = IF k <= Len(<<36>>) THEN <<36>>[k] ELSE E[k - Len(<<36>>)]
      BY <1>2, <2>1, ConcatProperties
    <2> HIDE DEF head, tail, n
    <2>4. /\ Len(head) = n + 1 /\ head[1] = 36
          /\ \A k \in 2 .. n + 1 : head[k] = E[k - 1]
      BY <1>4, <2>1, <2>3
    <2>5. sent = head \o tail
      BY <1>3 DEF head, tail
    <2>6. /\ Len(head \o tail) = Len(head) + Len(tail)
          /\ \A k \in 1 .. Len(head) + Len(tail) :
                (head \o tail)[k] = IF k <= Len(head) THEN head[k] ELSE tail[k - Len(head)]
      <3>1. head \in Seq(Int) /\ tail \in Seq(Int)
        BY <2>2, <2>3
      <3> QED
        BY <3>1, ConcatProperties
    <2>7. Len(sent) = n + 4 /\ \A k \in 1 .. n + 4 : sent[k] = IF k <= n + 1 THEN head[k] ELSE tail[k - (n + 1)]
      BY <1>4, <2>2, <2>4, <2>5, <2>6
    <2>8. sent[1] = 36 /\ \A k \in 2 .. n + 1 : sent[k] = E[k - 1]
      BY <1>4, <2>4, <2>7
    <2>9. sent[n + 2] = tail[1] /\ sent[n + 3] = tail[2] /\ sent[n + 4] = tail[3]
      BY <1>4, <2>7
    <2> QED
      BY <2>2, <2>7, <2>8, <2>9
  <1> HIDE DEF n
  <1>6. Body = E
    <2>1. PICK l \in Int : l = n + 1 /\ Len(sent) - 3 = l
      <3>1. n + 1 \in Int /\ Len(sent) - 3 = n + 1
        BY <1>4, <1>5
      <3> QED
        BY <3>1
    <2>2. 2 \in Int /\ \A k \in 2 .. l : sent[k] \in Int
      BY <1>4, <1>5, <2>1
    <2> DEFINE b == SubSeq(sent, 2, l)
    <2>3. /\ b \in Seq(Int)
          /\ Len(b) = IF 2 <= l THEN l - 2 + 1 ELSE 0
          /\ \A k \in 1 .. l - 2 + 1 : b[k] = sent[2 + k - 1]
      BY <2>2, SubSeqProperties
    <2> HIDE DEF b
    <2>4. b \in Seq(Int) /\ Len(b) = n
      BY <1>4, <2>1, <2>3
    <2>5. \A k \in 1 .. n : b[k] = E[k]
      <3> SUFFICES ASSUME NEW k \in 1 .. n PROVE b[k] = E[k]
        OBVIOUS
      <3>1. k \in 1 .. l - 2 + 1 /\ 2 + k - 1 = k + 1 /\ k + 1 \in 2 .. n + 1 /\ (k + 1) - 1 = k
        BY <1>4, <2>1
      <3>2. b[k] = sent[k + 1]
        BY <2>3, <3>1
      <3> QED
        BY <1>5, <3>1, <3>2
    <2>6. b = E
      BY <1>2, <2>4, <2>5, SeqEqual DEF n
    <2> QED
      BY <2>1, <2>6 DEF Body, b
  <1>7. Head(sent) = kPacketStart /\ sent[Len(sent) - 2] = kPacketEnd
    BY <1>2, <1>4, <1>5 DEF kPacketStart, kPacketEnd
  <1>8. SubSeq(sent, Len(sent) - 1, Len(sent)) = <<x, y>>
    <2>1. Len(sent) - 1 = n + 3 /\ Len(sent) = n + 4
      BY <1>4, <1>5
    <2>2. n + 3 \in Int /\ n + 4 \in Int /\ \A k \in n + 3 .. n + 4 : sent[k] \in Int
      <3>1. \A k \in n + 3 .. n + 4 : k = n + 3 \/ k = n + 4
        BY <1>4
      <3>2. n + 3 \in Int /\ n + 4 \in Int
        BY <1>4
      <3> QED
        BY <1>2, <1>5, <3>1, <3>2, Zenon
    <2> DEFINE p == n + 3
               q == n + 4
               r == SubSeq(sent, p, q)
    <2>3. p \in Int /\ q \in Int /\ q = p + 1 /\ sent[p] = x /\ sent[q] = y /\ \A k \in p .. q : sent[k] \in Int
      BY <1>4, <1>5, <2>2
    <2> HIDE DEF p, q
    <2>4. /\ r \in Seq(Int)
          /\ Len(r) = IF p <= q THEN q - p + 1 ELSE 0
          /\ \A k \in 1 .. q - p + 1 : r[k] = sent[p + k - 1]
      BY <2>3, SubSeqProperties
    <2> HIDE DEF r
    <2>5. Len(r) = 2 /\ r[1] = x /\ r[2] = y
      BY <2>3, <2>4
    <2>6. <<x, y>> \in Seq(Int) /\ Len(<<x, y>>) = 2 /\ <<x, y>>[1] = x /\ <<x, y>>[2] = y
      BY <1>2
    <2>7. \A k \in 1 .. 2 : k = 1 \/ k = 2
      OBVIOUS
    <2>8. r = <<x, y>>
      BY <2>4, <2>5, <2>6, <2>7, SeqEqual
    <2> QED
      BY <2>1, <2>8 DEF p, q, r
  <1> QED
    BY <1>1, <1>6, <1>7, <1>8 DEF x, y

\* What the client decodes is what the stub answered, for every response, every
\* buffer size and wherever the flushes fall.
THEOREM DecodesToResponse == Spec => []DecodesBack
PROOF
  <1>1. EInv /\ CodeInv => DecodesBack
    <2> SUFFICES ASSUME EInv, CodeInv, Complete PROVE Decode(Body) = response
      BY DEF DecodesBack
    <2>1. Decoded(Body) = Plain(SubSeq(response, 1, Len(response)))
      BY PacketParts DEF StandsFor
    <2>2. SubSeq(response, 1, Len(response)) = response
      BY DEF EInv, EncTypeOK
    <2> QED
      BY <2>1, <2>2 DEF Decode, Plain
  <1> QED
    BY <1>1, CodeHolds, PTL

\* The client finds the packet, and its own sum of the bytes is the one the
\* packet ends with.
THEOREM PacketIsFramed == Spec => []FramedSafely
PROOF
  <1>1. EInv /\ CodeInv => FramedSafely
    <2> SUFFICES ASSUME EInv, CodeInv, Complete
                 PROVE  /\ Head(sent) = kPacketStart
                        /\ sent[Len(sent) - 2] = kPacketEnd
                        /\ ToSet(Body) \cap {kPacketStart, kPacketEnd, 0} = {}
                        /\ SubSeq(sent, Len(sent) - 1, Len(sent))
                              = <<hexTable(Sum(Body) \div 16), hexTable(Sum(Body) % 16)>>
      BY DEF FramedSafely
    <2>1. StandsFor(Body, Len(response))
      BY PacketParts
    <2>2. ToSet(Body) \cap {kPacketStart, kPacketEnd, 0} = {}
      <3>1. DOMAIN Body = 1 .. Len(Body) /\ \A k \in 1 .. Len(Body) : Body[k] \notin Framing
        BY <2>1 DEF StandsFor
      <3> QED
        BY <3>1, Zenon DEF ToSet, Framing
    <2> QED
      BY <2>1, <2>2, PacketParts, Zenon DEF StandsFor
  <1> QED
    BY <1>1, CodeHolds, PTL
=============================================================================
