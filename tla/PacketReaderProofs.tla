--------------------------- MODULE PacketReaderProofs ---------------------------
(***************************************************************************)
(* Theorems about PacketReader, for any payload, any legal way to escape   *)
(* it, any error of the checksum, and whatever follows the packet.         *)
(*                                                                         *)
(* The search for the '#' is resumed where an earlier piece ended, and     *)
(* jumps over escape characters and what follows them even if that has     *)
(* not arrived.  The invariant says where it may stand: in front of the    *)
(* bytes of a letter or of the '#' (Starts), so the first '#' it looks at  *)
(* is the packet's.  That the packet then has the right checksum, and is   *)
(* unescaped to the payload, are facts about recursive functions, shown by *)
(* induction over the bytes and over the letters.  With them a verdict of  *)
(* the reader is a verdict of PacketIntake, and everything in between a    *)
(* stutter.                                                                *)
(***************************************************************************)
EXTENDS PacketReader, TLAPS, WellFoundedInduction, SequenceTheorems

-----------------------------------------------------------------------------
(* Loops over bytes.                                                       *)

\* Induction over the numbers: the least of those that are missing would have
\* a predecessor that is not.
LEMMA InductionOverNat ==
  ASSUME NEW S, 0 \in S, \A n \in Nat : n \in S => n + 1 \in S
  PROVE  Nat \subseteq S
PROOF
  <1> DEFINE less == OpToRel(<, Nat)
             rest == Nat \ S
  <1>1. SUFFICES ASSUME rest # {} PROVE FALSE
    OBVIOUS
  <1>2. PICK least \in rest : \A n \in rest : <<n, least>> \notin less
    <2>1. IsWellFoundedOn(less, Nat)
      BY NatLessThanWellFounded
    <2>2. rest \subseteq Nat
      OBVIOUS
    <2> HIDE DEF less, rest
    <2> QED
      BY <1>1, <2>1, <2>2, WFMin
  <1>3. less = {ss \in Nat \X Nat : ss[1] < ss[2]}
    BY Zenon DEF OpToRel
  <1>4. least \in Nat /\ least # 0 /\ least \notin S
    OBVIOUS
  <1>5. least - 1 \in Nat /\ least - 1 \notin S
    BY <1>4
  <1>6. <<least - 1, least>> \in {ss \in Nat \X Nat : ss[1] < ss[2]}
    BY <1>4, <1>5
  <1>7. least - 1 \in rest
    BY <1>5
  <1> QED
    BY <1>2, <1>3, <1>6, <1>7

\* The values x and those after each of N steps, which are the values of F.
Loops(D, x, N, F) ==
  {f \in [0 .. N -> D] : f[0] = x /\ \A m \in 1 .. N : f[m] = F[m][f[m - 1]]}

\* There are such values, so a recursive function of this form satisfies its equation.
LEMMA LoopExists ==
  ASSUME NEW D, NEW x \in D, NEW N \in Nat, NEW F \in [1 .. N -> [D -> D]]
  PROVE  Loops(D, x, N, F) # {}
PROOF
  <1> DEFINE S == {n \in Nat : n <= N =>
                     \E f \in [0 .. n -> D] :
                       f[0] = x /\ \A m \in 1 .. n : f[m] = F[m][f[m - 1]]}
  <1>1. 0 \in S
    <2> DEFINE f == [m \in 0 .. 0 |-> x]
    <2>1. f \in [0 .. 0 -> D] /\ f[0] = x /\ \A m \in 1 .. 0 : f[m] = F[m][f[m - 1]]
      OBVIOUS
    <2> HIDE DEF f
    <2> QED
      BY <2>1
  <1>2. ASSUME NEW n \in Nat, n \in S PROVE n + 1 \in S
    <2>1. SUFFICES ASSUME n + 1 <= N
                   PROVE  \E f \in [0 .. n + 1 -> D] :
                            f[0] = x /\ \A m \in 1 .. n + 1 : f[m] = F[m][f[m - 1]]
      OBVIOUS
    <2>2. PICK f \in [0 .. n -> D] : f[0] = x /\ \A m \in 1 .. n : f[m] = F[m][f[m - 1]]
      BY <1>2, <2>1
    <2> DEFINE last == F[n + 1][f[n]]
    <2>3. last \in D
      <3>1. f[n] \in D /\ n + 1 \in 1 .. N
        BY <2>1
      <3> QED
        BY <3>1
    <2> HIDE DEF last
    <2> DEFINE g == [m \in 0 .. n + 1 |-> IF m = n + 1 THEN last ELSE f[m]]
    <2>4. g \in [0 .. n + 1 -> D] /\ g[0] = x
      BY <2>2, <2>3
    <2>5. g[n + 1] = last /\ \A m \in 0 .. n : g[m] = f[m]
      OBVIOUS
    <2> HIDE DEF g
    <2>6. ASSUME NEW m \in 1 .. n + 1 PROVE g[m] = F[m][g[m - 1]]
      <3>1. CASE m = n + 1
        <4>1. m - 1 = n /\ n \in 0 .. n
          BY <3>1
        <4> QED
          BY <2>5, <3>1, <4>1 DEF last
      <3>2. CASE m # n + 1
        <4>1. m \in 1 .. n /\ m \in 0 .. n /\ m - 1 \in 0 .. n
          BY <3>2
        <4> QED
          BY <2>2, <2>5, <4>1, Zenon
      <3> QED
        BY <3>1, <3>2
    <2> QED
      BY <2>4, <2>6
  <1> HIDE DEF S
  <1>3. Nat \subseteq S
    BY <1>1, <1>2, InductionOverNat
  <1>4. N \in S
    BY <1>3
  <1> QED
    BY <1>4 DEF S, Loops

\* Bytes.
Octets == 0 .. 255

\* What the sums are.
LEMMA OctetSums ==
  /\ 0 \in Octets /\ 0 \in Nat /\ Octets \subseteq Nat
  /\ \A a \in Nat, b \in Octets : a + b \in Nat
  /\ \A a \in Octets, b \in Octets : (a + b) % 256 \in Octets
PROOF
  <1>1. 0 \in Octets /\ 0 \in Nat /\ Octets \subseteq Nat
    BY DEF Octets
  <1>2. \A a \in Nat, b \in Octets : a + b \in Nat
    BY <1>1
  <1>3. \A a \in Nat : a % 256 \in Octets
    BY DEF Octets
  <1> QED
    BY <1>1, <1>2, <1>3

\* A sum grows byte by byte.
LEMMA TotalSteps ==
  ASSUME NEW bytes \in Seq(Octets)
  PROVE  \E f \in [0 .. Len(bytes) -> Nat] :
           /\ f[0] = 0
           /\ \A n \in 1 .. Len(bytes) : f[n] = f[n - 1] + bytes[n]
           /\ computeChecksum(bytes) = f[Len(bytes)] % 256
PROOF
  <1> DEFINE N == Len(bytes)
             F == [n \in 1 .. N |-> [y \in Nat |-> y + bytes[n]]]
  <1>0. N \in Nat /\ \A n \in 1 .. N : bytes[n] \in Octets
    OBVIOUS
  <1>1. F \in [1 .. N -> [Nat -> Nat]]
    BY <1>0, OctetSums
  <1>2. \A y \in Nat, n \in 1 .. N : F[n][y] = y + bytes[n]
    OBVIOUS
  <1> HIDE DEF F
  <1>3. PICK f \in [0 .. N -> Nat] : f[0] = 0 /\ \A n \in 1 .. N : f[n] = F[n][f[n - 1]]
    <2>1. Loops(Nat, 0, N, F) # {}
      BY <1>0, <1>1, LoopExists, OctetSums
    <2> QED
      BY <2>1 DEF Loops
  <1>4. f = [n \in 0 .. N |-> IF n = 0 THEN 0 ELSE f[n - 1] + bytes[n]]
    <2>1. \A n \in 0 .. N : n # 0 => n \in 1 .. N /\ f[n - 1] \in Nat
      BY <1>0
    <2>2. \A n \in 0 .. N : f[n] = IF n = 0 THEN 0 ELSE f[n - 1] + bytes[n]
      BY <1>2, <1>3, <2>1
    <2> QED
      BY <2>2
  <1> DEFINE sum[n \in 0 .. N] == IF n = 0 THEN 0 ELSE sum[n - 1] + bytes[n]
  <1>5. sum = [n \in 0 .. N |-> IF n = 0 THEN 0 ELSE sum[n - 1] + bytes[n]]
    BY <1>4, Zenon
  <1>6. computeChecksum(bytes) = sum[N] % 256
    BY DEF computeChecksum
  <1> HIDE DEF sum
  <1>7. \A n \in 0 .. N : sum[n] = IF n = 0 THEN 0 ELSE sum[n - 1] + bytes[n]
    BY <1>5, Zenon
  <1> DEFINE S == {n \in Nat : n <= N => sum[n] \in Nat}
  <1>8. 0 \in S
    BY <1>0, <1>7, OctetSums
  <1>9. ASSUME NEW n \in Nat, n \in S PROVE n + 1 \in S
    <2>1. SUFFICES ASSUME n + 1 <= N PROVE sum[n + 1] \in Nat
      OBVIOUS
    <2>2. n + 1 \in 0 .. N /\ n + 1 \in 1 .. N /\ n + 1 # 0 /\ (n + 1) - 1 = n /\ sum[n] \in Nat
      BY <1>0, <1>9, <2>1
    <2>3. sum[n + 1] = sum[n] + bytes[n + 1]
      BY <1>7, <2>2
    <2> QED
      BY <1>0, <2>2, <2>3, OctetSums
  <1>10. Nat \subseteq S
    <2> HIDE DEF S
    <2> QED
      BY <1>8, <1>9, InductionOverNat
  <1>11. sum \in [0 .. N -> Nat]
    BY <1>5, <1>10
  <1>12. sum[0] = 0
    BY <1>0, <1>7
  <1>13. \A n \in 1 .. N : sum[n] = sum[n - 1] + bytes[n]
    BY <1>7
  <1> QED
    BY <1>6, <1>11, <1>12, <1>13
\* The client's sum is never more than a byte.
LEMMA ChecksumSteps ==
  ASSUME NEW bytes \in Seq(Octets)
  PROVE  \E f \in [0 .. Len(bytes) -> Octets] :
           /\ f[0] = 0
           /\ \A n \in 1 .. Len(bytes) : f[n] = (f[n - 1] + bytes[n]) % 256
           /\ Checksum(bytes) = f[Len(bytes)]
PROOF
  <1> DEFINE N == Len(bytes)
             F == [n \in 1 .. N |-> [y \in Octets |-> (y + bytes[n]) % 256]]
  <1>0. N \in Nat /\ \A n \in 1 .. N : bytes[n] \in Octets
    OBVIOUS
  <1>1. F \in [1 .. N -> [Octets -> Octets]]
    BY <1>0, OctetSums
  <1>2. \A y \in Octets, n \in 1 .. N : F[n][y] = (y + bytes[n]) % 256
    OBVIOUS
  <1> HIDE DEF F
  <1>3. PICK f \in [0 .. N -> Octets] : f[0] = 0 /\ \A n \in 1 .. N : f[n] = F[n][f[n - 1]]
    <2>1. Loops(Octets, 0, N, F) # {}
      BY <1>0, <1>1, LoopExists, OctetSums
    <2> QED
      BY <2>1 DEF Loops
  <1>4. f = [n \in 0 .. N |-> IF n = 0 THEN 0 ELSE (f[n - 1] + bytes[n]) % 256]
    <2>1. \A n \in 0 .. N : n # 0 => n \in 1 .. N /\ f[n - 1] \in Octets
      BY <1>0
    <2>2. \A n \in 0 .. N : f[n] = IF n = 0 THEN 0 ELSE (f[n - 1] + bytes[n]) % 256
      BY <1>2, <1>3, <2>1
    <2> QED
      BY <2>2
  <1> DEFINE sum[n \in 0 .. N] == IF n = 0 THEN 0 ELSE (sum[n - 1] + bytes[n]) % 256
  <1>5. sum = [n \in 0 .. N |-> IF n = 0 THEN 0 ELSE (sum[n - 1] + bytes[n]) % 256]
    BY <1>4, Zenon
  <1>6. Checksum(bytes) = sum[N]
    BY DEF Checksum
  <1> HIDE DEF sum
  <1>7. \A n \in 0 .. N : sum[n] = IF n = 0 THEN 0 ELSE (sum[n - 1] + bytes[n]) % 256
    BY <1>5, Zenon
  <1> DEFINE S == {n \in Nat : n <= N => sum[n] \in Octets}
  <1>8. 0 \in S
    BY <1>0, <1>7, OctetSums
  <1>9. ASSUME NEW n \in Nat, n \in S PROVE n + 1 \in S
    <2>1. SUFFICES ASSUME n + 1 <= N PROVE sum[n + 1] \in Octets
      OBVIOUS
    <2>2. n + 1 \in 0 .. N /\ n + 1 \in 1 .. N /\ n + 1 # 0 /\ (n + 1) - 1 = n /\ sum[n] \in Octets
      BY <1>0, <1>9, <2>1
    <2>3. sum[n + 1] = (sum[n] + bytes[n + 1]) % 256
      BY <1>7, <2>2
    <2>4. bytes[n + 1] \in Octets
      BY <1>0, <2>2
    <2>5. (sum[n] + bytes[n + 1]) % 256 \in Octets
      BY <2>2, <2>4, OctetSums
    <2> QED
      BY <2>3, <2>5
  <1>10. Nat \subseteq S
    <2> HIDE DEF S
    <2> QED
      BY <1>8, <1>9, InductionOverNat
  <1>11. sum \in [0 .. N -> Octets]
    BY <1>5, <1>10
  <1>12. sum[0] = 0
    BY <1>0, <1>7
  <1>13. \A n \in 1 .. N : sum[n] = (sum[n - 1] + bytes[n]) % 256
    BY <1>7
  <1> QED
    BY <1>6, <1>11, <1>12, <1>13
\* What UnescapePacket has taken so far.
Takings == [out : Seq(Octets), escape : BOOLEAN]

\* Bytes stay bytes, and masking twice is not masking.
LEMMA MaskedBytes ==
  ASSUME NEW b \in Octets
  PROVE  Masked(b) \in Octets /\ Masked(Masked(b)) = b
  BY DEF Masked, Octets

\* It takes bytes.
LEMMA TakingsClosed ==
  /\ NothingTaken \in Takings
  /\ \A taken \in Takings, b \in Octets : TakeByte(taken, b) \in Takings
PROOF
  <1>1. NothingTaken \in Takings
    BY DEF NothingTaken, Takings
  <1>2. ASSUME NEW taken \in Takings, NEW b \in Octets PROVE TakeByte(taken, b) \in Takings
    <2>1. taken.out \in Seq(Octets) /\ taken.escape \in BOOLEAN
      BY DEF Takings
    <2>2. \A c \in Octets : Append(taken.out, c) \in Seq(Octets)
      BY <2>1
    <2>3. Append(taken.out, Masked(b)) \in Seq(Octets)
      BY <2>2, MaskedBytes
    <2>4. Append(taken.out, b) \in Seq(Octets)
      BY <2>2
    <2> QED
      BY <2>1, <2>3, <2>4 DEF TakeByte, Takings
  <1> QED
    BY <1>1, <1>2

\* What has been unescaped after each byte.
LEMMA UnescapeSteps ==
  ASSUME NEW bytes \in Seq(Octets)
  PROVE  \E f \in [0 .. Len(bytes) -> Takings] :
           /\ f[0] = NothingTaken
           /\ \A n \in 1 .. Len(bytes) : f[n] = TakeByte(f[n - 1], bytes[n])
           /\ UnescapePacket(bytes) = IF f[Len(bytes)].escape THEN Append(f[Len(bytes)].out, kEscapeChar) ELSE f[Len(bytes)].out
PROOF
  <1> DEFINE N == Len(bytes)
             F == [n \in 1 .. N |-> [y \in Takings |-> TakeByte(y, bytes[n])]]
  <1>0. N \in Nat /\ \A n \in 1 .. N : bytes[n] \in Octets
    OBVIOUS
  <1>1. F \in [1 .. N -> [Takings -> Takings]]
    BY <1>0, TakingsClosed
  <1>2. \A y \in Takings, n \in 1 .. N : F[n][y] = TakeByte(y, bytes[n])
    OBVIOUS
  <1> HIDE DEF F
  <1>3. PICK f \in [0 .. N -> Takings] : f[0] = NothingTaken /\ \A n \in 1 .. N : f[n] = F[n][f[n - 1]]
    <2>1. Loops(Takings, NothingTaken, N, F) # {}
      BY <1>0, <1>1, LoopExists, TakingsClosed
    <2> QED
      BY <2>1 DEF Loops
  <1>4. f = [n \in 0 .. N |-> IF n = 0 THEN NothingTaken ELSE TakeByte(f[n - 1], bytes[n])]
    <2>1. \A n \in 0 .. N : n # 0 => n \in 1 .. N /\ f[n - 1] \in Takings
      BY <1>0
    <2>2. \A n \in 0 .. N : f[n] = IF n = 0 THEN NothingTaken ELSE TakeByte(f[n - 1], bytes[n])
      BY <1>2, <1>3, <2>1
    <2> QED
      BY <2>2
  <1> DEFINE sum[n \in 0 .. N] == IF n = 0 THEN NothingTaken ELSE TakeByte(sum[n - 1], bytes[n])
  <1>5. sum = [n \in 0 .. N |-> IF n = 0 THEN NothingTaken ELSE TakeByte(sum[n - 1], bytes[n])]
    BY <1>4, Zenon
  <1>6. UnescapePacket(bytes) = IF sum[N].escape THEN Append(sum[N].out, kEscapeChar) ELSE sum[N].out
    BY DEF UnescapePacket
  <1> HIDE DEF sum
  <1>7. \A n \in 0 .. N : sum[n] = IF n = 0 THEN NothingTaken ELSE TakeByte(sum[n - 1], bytes[n])
    BY <1>5, Zenon
  <1> DEFINE S == {n \in Nat : n <= N => sum[n] \in Takings}
  <1>8. 0 \in S
    BY <1>0, <1>7, TakingsClosed
  <1>9. ASSUME NEW n \in Nat, n \in S PROVE n + 1 \in S
    <2>1. SUFFICES ASSUME n + 1 <= N PROVE sum[n + 1] \in Takings
      OBVIOUS
    <2>2. n + 1 \in 0 .. N /\ n + 1 \in 1 .. N /\ n + 1 # 0 /\ (n + 1) - 1 = n /\ sum[n] \in Takings
      BY <1>0, <1>9, <2>1
    <2>3. sum[n + 1] = TakeByte(sum[n], bytes[n + 1])
      BY <1>7, <2>2
    <2> QED
      BY <1>0, <2>2, <2>3, TakingsClosed
  <1>10. Nat \subseteq S
    <2> HIDE DEF S
    <2> QED
      BY <1>8, <1>9, InductionOverNat
  <1>11. sum \in [0 .. N -> Takings]
    BY <1>5, <1>10
  <1>12. sum[0] = NothingTaken
    BY <1>0, <1>7
  <1>13. \A n \in 1 .. N : sum[n] = TakeByte(sum[n - 1], bytes[n])
    BY <1>7
  <1> QED
    BY <1>6, <1>11, <1>12, <1>13

-----------------------------------------------------------------------------
(* The checksum and the payload.                                           *)

\* The stub's checksum is the client's.
LEMMA ChecksumsAgree ==
  ASSUME NEW bytes \in Seq(Octets)
  PROVE  computeChecksum(bytes) = Checksum(bytes) /\ Checksum(bytes) \in Octets
PROOF
  <1> DEFINE N == Len(bytes)
  <1>0. N \in Nat /\ \A n \in 1 .. N : bytes[n] \in Octets
    OBVIOUS
  <1>1. PICK f \in [0 .. N -> Nat] :
          /\ f[0] = 0
          /\ \A n \in 1 .. N : f[n] = f[n - 1] + bytes[n]
          /\ computeChecksum(bytes) = f[N] % 256
    BY TotalSteps
  <1>2. PICK g \in [0 .. N -> Octets] :
          /\ g[0] = 0
          /\ \A n \in 1 .. N : g[n] = (g[n - 1] + bytes[n]) % 256
          /\ Checksum(bytes) = g[N]
    BY ChecksumSteps
  <1> HIDE DEF N
  <1> DEFINE S == {n \in Nat : n <= N => f[n] % 256 = g[n]}
  <1>3. 0 \in S
    BY <1>1, <1>2
  <1>4. ASSUME NEW n \in Nat, n \in S PROVE n + 1 \in S
    <2> SUFFICES ASSUME n + 1 <= N PROVE f[n + 1] % 256 = g[n + 1]
      OBVIOUS
    <2>1. n + 1 \in 1 .. N /\ n \in 0 .. N /\ (n + 1) - 1 = n /\ n <= N
      BY <1>0
    <2>2. f[n + 1] = f[n] + bytes[n + 1]
      BY <1>1, <2>1
    <2>3. g[n + 1] = (g[n] + bytes[n + 1]) % 256
      BY <1>2, <2>1
    <2>4. f[n] \in Nat /\ bytes[n + 1] \in Nat /\ f[n] % 256 = g[n]
      BY <1>0, <1>4, <2>1, OctetSums
    <2>5. \A a \in Nat, b \in Nat : ((a % 256) + b) % 256 = (a + b) % 256
      OBVIOUS
    <2> QED
      BY <2>2, <2>3, <2>4, <2>5
  <1>5. Nat \subseteq S
    <2> HIDE DEF S
    <2> QED
      BY <1>3, <1>4, InductionOverNat
  <1>6. f[N] % 256 = g[N] /\ g[N] \in Octets
    BY <1>0, <1>5
  <1> QED
    BY <1>1, <1>2, <1>6

\* The stub reads the digits the client writes.
LEMMA DigitsRead ==
  ASSUME NEW sum \in Octets
  PROVE  ParseHexValue(hexDigit(sum \div 16), hexDigit(sum % 16)) = sum
PROOF
  <1>1. ASSUME NEW d \in 0 .. 15 PROVE hexToInt(hexDigit(d)) = d
    <2>1. CASE d < 10
      BY <2>1 DEF hexToInt, hexDigit
    <2>2. CASE d >= 10
      BY <2>2 DEF hexToInt, hexDigit
    <2> QED
      BY <2>1, <2>2
  <1>2. sum \div 16 \in 0 .. 15 /\ sum % 16 \in 0 .. 15 /\ (sum \div 16) * 16 + (sum % 16) = sum
    BY DEF Octets
  <1> QED
    BY <1>1, <1>2 DEF ParseHexValue

\* A checksum is the right one only if nothing was added to it on its way.
LEMMA DamageShows ==
  ASSUME NEW sum \in Octets, NEW error \in Octets
  PROVE  (sum + error) % 256 \in Octets /\ ((sum + error) % 256 = sum <=> error = 0)
  BY DEF Octets

\* Bytes that stand for a payload are unescaped to it.
LEMMA UnescapesToPayload ==
  ASSUME NEW bytes \in Seq(Octets), NEW payload \in Seq(Octets),
         NEW at \in [0 .. Len(payload) -> 0 .. Len(bytes)], StandsFor(at, bytes, payload)
  PROVE  UnescapePacket(bytes) = payload
PROOF
  <1> DEFINE N == Len(bytes)
             L == Len(payload)
  <1>0. /\ N \in Nat /\ L \in Nat
        /\ \A n \in 1 .. N : bytes[n] \in Octets
        /\ \A k \in 1 .. L : payload[k] \in Octets
    OBVIOUS
  <1>1. PICK f \in [0 .. N -> Takings] :
          /\ f[0] = NothingTaken
          /\ \A n \in 1 .. N : f[n] = TakeByte(f[n - 1], bytes[n])
          /\ UnescapePacket(bytes) = IF f[N].escape THEN Append(f[N].out, kEscapeChar) ELSE f[N].out
    BY UnescapeSteps
  <1>2. at[0] = 0 /\ at[L] = N
    BY DEF StandsFor
  <1> HIDE DEF N, L
  <1> DEFINE So(k) == [out |-> SubSeq(payload, 1, k), escape |-> FALSE]
             S == {k \in Nat : k <= L => f[at[k]] = So(k)}
  <1>3. 0 \in S
    <2>1. SubSeq(payload, 1, 0) = <<>>
      OBVIOUS
    <2> QED
      BY <1>1, <1>2, <2>1 DEF NothingTaken
  <1>4. ASSUME NEW k \in Nat, k \in S PROVE k + 1 \in S
    <2> SUFFICES ASSUME k + 1 <= L PROVE f[at[k + 1]] = So(k + 1)
      OBVIOUS
    <2> DEFINE a == at[k]
               z == at[k + 1]
               c == payload[k + 1]
    <2>1. k + 1 \in 1 .. L /\ k \in 0 .. L /\ k + 1 \in 0 .. L /\ (k + 1) - 1 = k /\ k <= L
      BY <1>0
    <2>2. a \in 0 .. N /\ z \in 0 .. N /\ c \in Octets
      BY <1>0, <2>1 DEF N, L
    <2>3. f[a] = So(k)
      BY <1>4, <2>1
    <2>4. \/ z = a + 2 /\ bytes[z - 1] = kEscapeChar /\ bytes[z] = Masked(c)
          \/ z = a + 1 /\ bytes[z] = c /\ c \notin {kPacketEnd, kEscapeChar}
      <3>1. \A m \in 1 .. L :
              \/ /\ at[m] = at[m - 1] + 2
                 /\ bytes[at[m] - 1] = kEscapeChar /\ bytes[at[m]] = Masked(payload[m])
              \/ /\ at[m] = at[m - 1] + 1
                 /\ bytes[at[m]] = payload[m] /\ payload[m] \notin {kPacketEnd, kEscapeChar}
        BY DEF StandsFor, L
      <3> QED
        BY <2>1, <3>1
    <2>5. So(k + 1) = [out |-> Append(SubSeq(payload, 1, k), c), escape |-> FALSE]
      <3>1. SubSeq(payload, 1, k + 1) = Append(SubSeq(payload, 1, k), payload[k + 1])
        BY <1>0, <2>1 DEF L
      <3> QED
        BY <3>1
    <2> DEFINE out == SubSeq(payload, 1, k)
    <2>6. So(k) = [out |-> out, escape |-> FALSE]
      OBVIOUS
    <2> HIDE DEF a, z, c, So, out
    <2>7. CASE z = a + 1 /\ bytes[z] = c /\ c \notin {kPacketEnd, kEscapeChar}
      <3>1. z \in 1 .. N /\ z - 1 = a
        BY <1>0, <2>2, <2>7
      <3>2. f[z] = TakeByte(f[a], c)
        BY <1>1, <2>7, <3>1
      <3>3. TakeByte([out |-> out, escape |-> FALSE], c) = [out |-> Append(out, c), escape |-> FALSE]
        BY <2>7 DEF TakeByte
      <3> QED
        BY <2>3, <2>5, <2>6, <3>2, <3>3 DEF z, out, c
    <2>8. CASE z = a + 2 /\ bytes[z - 1] = kEscapeChar /\ bytes[z] = Masked(c)
      <3>1. z \in 1 .. N /\ z - 1 \in 1 .. N /\ (z - 1) - 1 = a
        BY <1>0, <2>2, <2>8
      <3>2. f[z - 1] = TakeByte(f[a], kEscapeChar)
        BY <1>1, <2>8, <3>1
      <3>3. f[z] = TakeByte(f[z - 1], Masked(c))
        BY <1>1, <2>8, <3>1
      <3>4. TakeByte([out |-> out, escape |-> FALSE], kEscapeChar) = [out |-> out, escape |-> TRUE]
        BY DEF TakeByte
      <3>5. TakeByte([out |-> out, escape |-> TRUE], Masked(c)) = [out |-> Append(out, c), escape |-> FALSE]
        <4>1. Masked(Masked(c)) = c
          BY <2>2, MaskedBytes
        <4> QED
          BY <4>1 DEF TakeByte
      <3> QED
        BY <2>3, <2>5, <2>6, <3>2, <3>3, <3>4, <3>5 DEF z, out, c
    <2> QED
      BY <2>4, <2>7, <2>8
  <1>5. Nat \subseteq S
    <2> HIDE DEF S
    <2> QED
      BY <1>3, <1>4, InductionOverNat
  <1>6. f[N] = So(L)
    <2>1. L \in S
      BY <1>0, <1>5
    <2>2. L <= L
      BY <1>0
    <2>3. f[at[L]] = So(L)
      BY <2>1, <2>2
    <2> QED
      BY <1>2, <2>3
  <1>7. SubSeq(payload, 1, L) = payload
    BY DEF L
  <1> QED
    BY <1>1, <1>6, <1>7

-----------------------------------------------------------------------------
(* The bytes of the connection.                                            *)

\* Where the search may stand: in front of the bytes of a letter, or of the '#'.
Starts ==
  {n \in 0 .. Len(message.body) :
     \E at \in Places(message.body, message.payload) : \E k \in 0 .. Len(message.payload) : at[k] = n}

\* What a message consists of.
LEMMA MessageParts ==
  ASSUME message \in Messages
  PROVE  /\ message.payload \in Seq(Octets) /\ message.body \in Seq(Octets)
         /\ message.error \in Octets /\ message.next \in Seq(Octets)
         /\ Places(message.body, message.payload) # {}
  BY PacketReaderAssumption DEF PacketReaderAssumption, Octets

\* The packet is its body, the '#' and two digits.
LEMMA StreamBytes ==
  ASSUME message \in Messages
  PROVE  LET n   == Len(message.body)
             sum == (Checksum(message.body) + message.error) % 256
         IN  /\ n \in Nat /\ Len(packet) = n + 3 /\ Len(stream) \in Nat /\ Len(stream) >= n + 3
             /\ \A k \in 0 .. n - 1 : ByteAt(k) = message.body[k + 1]
             /\ ByteAt(n) = kPacketEnd
             /\ ByteAt(n + 1) = hexDigit(sum \div 16) /\ ByteAt(n + 2) = hexDigit(sum % 16)
             /\ SubSeq(stream, 1, n) = message.body
PROOF
  <1> DEFINE body == message.body
             more == message.next
             n    == Len(message.body)
             sum  == (Checksum(message.body) + message.error) % 256
             d1   == hexDigit(sum \div 16)
             d2   == hexDigit(sum % 16)
             tail == <<kPacketEnd, d1, d2>>
  <1>1. body \in Seq(Int) /\ more \in Seq(Int)
    <2>1. Octets \subseteq Int
      BY DEF Octets
    <2>2. body \in Seq(Octets) /\ more \in Seq(Octets)
      BY MessageParts
    <2>3. ASSUME NEW s \in Seq(Octets) PROVE s \in Seq(Int)
      <3>1. Len(s) \in Nat /\ s = [k \in 1 .. Len(s) |-> s[k]] /\ \A k \in 1 .. Len(s) : s[k] \in Octets
        OBVIOUS
      <3>2. \A k \in 1 .. Len(s) : s[k] \in Int
        BY <2>1, <3>1
      <3> QED
        BY <3>1, <3>2
    <2> HIDE DEF body, more
    <2> QED
      BY <2>2, <2>3
  <1>2. d1 \in Int /\ d2 \in Int
    <2>1. sum \in Octets
      BY MessageParts, ChecksumsAgree, DamageShows
    <2> HIDE DEF sum
    <2> QED
      BY <2>1 DEF hexDigit, Octets
  <1>3. packet = body \o tail /\ stream = packet \o more
    BY DEF packet, Ending, stream
  <1> HIDE DEF body, more, d1, d2
  <1>4. tail \in Seq(Int) /\ Len(tail) = 3 /\ tail[1] = kPacketEnd /\ tail[2] = d1 /\ tail[3] = d2
    BY <1>2 DEF kPacketEnd
  <1> HIDE DEF tail
  <1>5. /\ packet \in Seq(Int) /\ Len(packet) = Len(body) + 3
        /\ \A k \in 1 .. Len(body) : packet[k] = body[k]
        /\ packet[Len(body) + 1] = kPacketEnd /\ packet[Len(body) + 2] = d1 /\ packet[Len(body) + 3] = d2
    <2>1. packet = body \o tail
      BY <1>3
    <2>2. /\ Len(body \o tail) = Len(body) + Len(tail) /\ body \o tail \in Seq(Int)
          /\ \A k \in 1 .. Len(body) + Len(tail) :
               (body \o tail)[k] = IF k <= Len(body) THEN body[k] ELSE tail[k - Len(body)]
      BY <1>1, <1>4, ConcatProperties
    <2>3. Len(body) \in Nat
      BY <1>1
    <2>4. \A k \in 1 .. Len(body) + 3 :
            packet[k] = IF k <= Len(body) THEN body[k] ELSE tail[k - Len(body)]
      BY <1>4, <2>1, <2>2, Zenon
    <2>5. packet \in Seq(Int) /\ Len(packet) = Len(body) + 3
      BY <1>4, <2>1, <2>2, Zenon
    <2>6. \A k \in 1 .. Len(body) : packet[k] = body[k]
      BY <2>3, <2>4
    <2>7. packet[Len(body) + 1] = tail[1] /\ packet[Len(body) + 2] = tail[2] /\ packet[Len(body) + 3] = tail[3]
      BY <2>3, <2>4
    <2> QED
      BY <1>4, <2>5, <2>6, <2>7
  <1>6. /\ stream \in Seq(Int) /\ Len(stream) = Len(packet) + Len(more)
        /\ \A k \in 1 .. Len(packet) : stream[k] = packet[k]
    <2>1. /\ Len(packet \o more) = Len(packet) + Len(more) /\ packet \o more \in Seq(Int)
          /\ \A k \in 1 .. Len(packet) + Len(more) :
               (packet \o more)[k] = IF k <= Len(packet) THEN packet[k] ELSE more[k - Len(packet)]
      BY <1>1, <1>5, ConcatProperties
    <2>2. Len(packet) \in Nat /\ Len(more) \in Nat
      BY <1>1, <1>5
    <2>3. \A k \in 1 .. Len(packet) + Len(more) :
            stream[k] = IF k <= Len(packet) THEN packet[k] ELSE more[k - Len(packet)]
      BY <1>3, <2>1, Zenon
    <2>4. stream \in Seq(Int) /\ Len(stream) = Len(packet) + Len(more)
      BY <1>3, <2>1, Zenon
    <2>5. \A k \in 1 .. Len(packet) : stream[k] = packet[k]
      BY <2>2, <2>3
    <2> QED
      BY <2>4, <2>5
  <1>7. Len(body) \in Nat /\ Len(more) \in Nat /\ n = Len(body)
    BY <1>1 DEF body
  <1> HIDE DEF n
  <1>8. \A k \in 0 .. n - 1 : ByteAt(k) = body[k + 1]
    <2> TAKE k \in 0 .. n - 1
    <2>1. k + 1 \in 1 .. Len(body) /\ k + 1 \in 1 .. Len(packet)
      BY <1>5, <1>7
    <2> QED
      BY <1>5, <1>6, <2>1 DEF ByteAt
  <1>9. ByteAt(n) = kPacketEnd /\ ByteAt(n + 1) = d1 /\ ByteAt(n + 2) = d2
    <2>1. /\ n + 1 \in 1 .. Len(packet) /\ n + 2 \in 1 .. Len(packet) /\ n + 3 \in 1 .. Len(packet)
          /\ n + 1 + 1 = n + 2 /\ n + 2 + 1 = n + 3
      BY <1>5, <1>7
    <2> QED
      BY <1>5, <1>6, <1>7, <2>1 DEF ByteAt
  <1>10. SubSeq(stream, 1, n) = body
    <2> DEFINE front == SubSeq(stream, 1, n)
    <2>1. n \in 0 .. Len(stream)
      BY <1>5, <1>6, <1>7
    <2>2. front \in Seq(Int) /\ Len(front) = n /\ \A k \in 1 .. n : front[k] = stream[k]
      BY <1>6, <2>1
    <2>3. \A k \in 1 .. n : stream[k] = body[k]
      BY <1>5, <1>6, <1>7
    <2> HIDE DEF front
    <2>4. front = body
      BY <1>1, <1>7, <2>2, <2>3, SeqEqual
    <2> QED
      BY <2>4 DEF front
  <1> QED
    <2>1. n \in Nat /\ Len(packet) = n + 3 /\ Len(stream) \in Nat /\ Len(stream) >= n + 3
      BY <1>5, <1>6, <1>7
    <2> QED
      BY <1>8, <1>9, <1>10, <2>1, Zenon DEF body, d1, d2, n

\* From where it stands the search gets to the next letter, or finds the '#'.
LEMMA SearchGoesOn ==
  ASSUME message \in Messages, NEW p \in Starts
  PROVE  /\ ByteAt(p) = kPacketEnd => p = Len(message.body)
         /\ ByteAt(p) = kEscapeChar => p + 2 \in Starts
         /\ ByteAt(p) \notin {kPacketEnd, kEscapeChar} => p + 1 \in Starts
PROOF
  <1> DEFINE body    == message.body
             payload == message.payload
             n       == Len(body)
             L       == Len(payload)
  <1>1. body \in Seq(Octets) /\ payload \in Seq(Octets) /\ n \in Nat /\ L \in Nat
    BY MessageParts
  <1>2. PICK at \in Places(body, payload), k \in 0 .. L : at[k] = p
    BY DEF Starts
  <1>3. at \in [0 .. L -> 0 .. n] /\ StandsFor(at, body, payload)
    BY DEF Places
  <1>4. /\ \A m \in 0 .. n - 1 : ByteAt(m) = body[m + 1]
        /\ ByteAt(n) = kPacketEnd
    BY StreamBytes
  <1> HIDE DEF n, L
  <1>5. kPacketEnd # kEscapeChar
    BY DEF kPacketEnd, kEscapeChar
  <1>6. CASE k = L
    <2>1. p = n
      BY <1>2, <1>3, <1>6 DEF StandsFor, n, L
    <2> QED
      BY <1>4, <1>5, <2>1 DEF n
  <1>7. CASE k # L
    <2>1. k + 1 \in 1 .. L /\ k + 1 \in 0 .. L /\ (k + 1) - 1 = k
      BY <1>1, <1>7
    <2> DEFINE z == at[k + 1]
               c == payload[k + 1]
    <2>2. z \in 0 .. n
      BY <1>3, <2>1
    <2>3. z \in Starts
      BY <1>2, <2>1, <2>2 DEF Starts, n, L
    <2>4. \/ z = p + 2 /\ body[z - 1] = kEscapeChar
          \/ z = p + 1 /\ body[z] = c /\ c \notin {kPacketEnd, kEscapeChar}
      <3>1. \A m \in 1 .. L :
              \/ /\ at[m] = at[m - 1] + 2
                 /\ body[at[m] - 1] = kEscapeChar /\ body[at[m]] = Masked(payload[m])
              \/ /\ at[m] = at[m - 1] + 1
                 /\ body[at[m]] = payload[m] /\ payload[m] \notin {kPacketEnd, kEscapeChar}
        BY <1>3 DEF StandsFor, L
      <3> QED
        BY <1>2, <2>1, <3>1
    <2>5. p \in 0 .. n
      BY DEF Starts, n
    <2> HIDE DEF z, c, body
    <2>6. CASE z = p + 2 /\ body[z - 1] = kEscapeChar
      <3>1. p \in 0 .. n - 1 /\ z - 1 = p + 1
        BY <1>1, <2>2, <2>5, <2>6
      <3>2. ByteAt(p) = kEscapeChar
        BY <1>4, <2>6, <3>1
      <3> QED
        BY <1>5, <2>3, <2>6, <3>2
    <2>7. CASE z = p + 1 /\ body[z] = c /\ c \notin {kPacketEnd, kEscapeChar}
      <3>1. p \in 0 .. n - 1
        BY <1>1, <2>2, <2>5, <2>7
      <3>2. ByteAt(p) = c
        BY <1>4, <2>7, <3>1
      <3> QED
        BY <2>3, <2>7, <3>2
    <2> QED
      BY <2>4, <2>6, <2>7
  <1> QED
    BY <1>6, <1>7

-----------------------------------------------------------------------------
(* The invariant.                                                          *)

\* A packet is rejected only if it was damaged, and given up only if the
\* connection ended before it was complete.
RejectsOnlyDamaged ==
  /\ outcome = "mismatch" => message.error # 0
  /\ outcome = "lost" => eof /\ arrived < Len(packet)

ReaderOK ==
  /\ message \in Messages
  /\ arrived \in Nat /\ eof \in BOOLEAN
  /\ pc \in {"peek", "scan", "complete", "verify", "end"}
  /\ outcome \in {"none", "delivered", "mismatch", "lost"}
  /\ pc # "end" => outcome = "none"
  /\ available \in Nat /\ available <= arrived

\* The search never stands behind an escape character, so the '#' it finds is
\* the packet's; and a packet is given up only with a reason.
SearchOK ==
  /\ i \in Starts /\ searchRestartPosition \in Starts
  /\ pc \in {"complete", "verify"} \/ outcome \in {"delivered", "mismatch"} =>
       endOfPacket = Len(message.body)
  /\ pc = "verify" => packetWithChecksumLength <= available
  /\ outcome = "delivered" => message.error = 0 /\ discarded = packetWithChecksumLength
  /\ RejectsOnlyDamaged

IInv == ReaderOK /\ SearchOK

\* The search starts in front of the first letter.
LEMMA InvInit == Init => IInv
PROOF
  <1> SUFFICES ASSUME Init PROVE IInv
    OBVIOUS
  <1>1. message \in Messages
    BY DEF Init
  <1>2. 0 \in Starts
    <2>1. PICK at \in Places(message.body, message.payload) : TRUE
      BY <1>1, MessageParts
    <2>2. at[0] = 0
      BY DEF Places, StandsFor
    <2>3. 0 \in 0 .. Len(message.body) /\ 0 \in 0 .. Len(message.payload)
      BY <1>1, MessageParts
    <2> QED
      BY <2>2, <2>3 DEF Starts
  <1> QED
    <2>1. /\ arrived = 0 /\ eof = FALSE /\ pc = "peek" /\ available = 0 /\ outcome = "none"
          /\ i = 0 /\ searchRestartPosition = 0
      BY DEF Init
    <2>2. ReaderOK
      <3>1. 0 \in Nat /\ 0 <= 0
        OBVIOUS
      <3> QED
        BY <1>1, <2>1, <3>1, Zenon DEF ReaderOK
    <2>3. SearchOK
      BY <1>2, <2>1 DEF SearchOK, RejectsOnlyDamaged
    <2> QED
      BY <2>2, <2>3 DEF IInv

\* The digits match exactly if the packet was not damaged.
LEMMA MatchesIfIntact ==
  ASSUME message \in Messages, endOfPacket = Len(message.body)
  PROVE  ChecksumMatches <=> message.error = 0
PROOF
  <1> DEFINE sum  == Checksum(message.body)
             sent == (sum + message.error) % 256
  <1>1. /\ message.body \in Seq(Octets) /\ message.error \in Octets
    BY MessageParts
  <1>2. sum \in Octets /\ computeChecksum(message.body) = sum
    BY <1>1, ChecksumsAgree
  <1> HIDE DEF sum
  <1>3. sent \in Octets /\ (sent = sum <=> message.error = 0)
    BY <1>1, <1>2, DamageShows
  <1>4. ByteAt(endOfPacket + 1) = hexDigit(sent \div 16) /\ ByteAt(endOfPacket + 2) = hexDigit(sent % 16)
        /\ Body = message.body
    BY StreamBytes DEF Body, sum
  <1> HIDE DEF sent
  <1>5. ParseHexValue(hexDigit(sent \div 16), hexDigit(sent % 16)) = sent
    BY <1>3, DigitsRead
  <1> QED
    BY <1>2, <1>3, <1>4, <1>5 DEF ChecksumMatches

\* Each step keeps the invariant.
LEMMA InvStep == IInv /\ [Next]_rdVars => IInv'
PROOF
  <1> SUFFICES ASSUME IInv, [Next]_rdVars PROVE IInv'
    OBVIOUS
  <1> USE DEF IInv, ReaderOK, SearchOK
  <1>0. message \in Messages
    OBVIOUS
  <1>1. message' = message /\ Starts' = Starts /\ packet' = packet /\ stream' = stream
    <2>1. message' = message
      BY DEF Next, Reader, PeekShortest, ScanByte, PeekMore, PeekChecksum, Verify, Receive, Disconnect, rdVars
    <2> QED
      BY <2>1 DEF Starts, packet, stream
  <1> DEFINE n == Len(message.body)
  <1>2. n \in Nat /\ Len(packet) = n + 3 /\ Len(stream) \in Nat
    BY <1>0, StreamBytes
  <1>3. \A p \in Starts : p \in 0 .. n
    BY DEF Starts
  <1>4. CASE Receive
    BY <1>1, <1>2, <1>4 DEF Receive, RejectsOnlyDamaged, packetWithChecksumLength
  <1>5. CASE Disconnect
    BY <1>1, <1>2, <1>5 DEF Disconnect, RejectsOnlyDamaged, packetWithChecksumLength
  <1>6. CASE PeekShortest
    BY <1>1, <1>2, <1>6 DEF PeekShortest, GiveUp, PeekReturns, RejectsOnlyDamaged, packetWithChecksumLength
  <1>7. CASE ScanByte
    <2>1. \/ ByteAt(i) = kPacketEnd /\ endOfPacket' = i /\ i' = i /\ pc' = "complete" /\ i = n
          \/ i' \in Starts /\ pc' = "scan"
      BY <1>0, <1>7, SearchGoesOn DEF ScanByte, kPacketEnd, kEscapeChar
    <2> QED
      BY <1>1, <1>2, <1>7, <2>1 DEF ScanByte, RejectsOnlyDamaged, packetWithChecksumLength
  <1>8. CASE PeekMore
    <2>1. i \in 0 .. n
      BY <1>3
    <2> QED
      BY <1>1, <1>2, <1>8, <2>1 DEF PeekMore, GiveUp, PeekReturns, RejectsOnlyDamaged, packetWithChecksumLength
  <1>9. CASE PeekChecksum
    BY <1>1, <1>2, <1>9 DEF PeekChecksum, GiveUp, PeekReturns, RejectsOnlyDamaged, packetWithChecksumLength
  <1>10. CASE Verify
    <2>1. ChecksumMatches <=> message.error = 0
      BY <1>0, <1>10, MatchesIfIntact DEF Verify
    <2> QED
      BY <1>1, <1>2, <1>10, <2>1 DEF Verify, RejectsOnlyDamaged, packetWithChecksumLength
  <1>11. CASE UNCHANGED rdVars
    BY <1>1, <1>11 DEF rdVars, RejectsOnlyDamaged, packetWithChecksumLength
  <1> QED
    BY <1>4, <1>5, <1>6, <1>7, <1>8, <1>9, <1>10, <1>11 DEF Next, Reader

\* The invariant holds in every reachable state.
THEOREM Inductive == Spec => []IInv
PROOF
  <1> QED
    BY InvInit, InvStep, PTL DEF Spec

\* The packet that is delivered is unescaped to the payload.
LEMMA DeliveredIsSent == IInv => DeliversWhatWasSent
PROOF
  <1> SUFFICES ASSUME IInv, outcome = "delivered"
               PROVE  /\ message.error = 0
                      /\ UnescapePacket(Body) = message.payload
                      /\ discarded = Len(packet)
    BY DEF DeliversWhatWasSent
  <1>1. /\ message \in Messages /\ message.error = 0 /\ endOfPacket = Len(message.body)
        /\ discarded = packetWithChecksumLength
    BY DEF IInv, ReaderOK, SearchOK
  <1>2. Body = message.body /\ Len(packet) = Len(message.body) + 3
    BY <1>1, StreamBytes DEF Body
  <1>3. PICK at \in Places(message.body, message.payload) : TRUE
    BY <1>1, MessageParts
  <1>4. /\ at \in [0 .. Len(message.payload) -> 0 .. Len(message.body)]
        /\ StandsFor(at, message.body, message.payload)
    BY <1>3 DEF Places
  <1>5. UnescapePacket(message.body) = message.payload
    BY <1>1, <1>4, MessageParts, UnescapesToPayload
  <1> QED
    BY <1>1, <1>2, <1>5 DEF packetWithChecksumLength

\* A packet that is delivered is the one that was sent, for any payload, any
\* legal way to escape it and any way to cut it into pieces; what is discarded
\* ends where the next packet starts (GDBServer.cpp:66-129, 195-210).
THEOREM DeliversSent == Spec => []DeliversWhatWasSent
PROOF
  <1> QED
    BY DeliveredIsSent, Inductive, PTL

\* No undamaged packet is rejected, and none is given up that has arrived
\* (GDBServer.cpp:97-123).
THEOREM RejectsDamaged == Spec => []RejectsOnlyDamaged
PROOF
  <1>1. IInv => RejectsOnlyDamaged
    BY DEF IInv, SearchOK
  <1> QED
    BY <1>1, Inductive, PTL

\* No byte is looked at before it has arrived (GDBServer.cpp:108-117).
THEOREM LooksAtReceived == Spec => []LooksOnlyAtReceived
PROOF
  <1>1. IInv => LooksOnlyAtReceived
    BY DEF IInv, ReaderOK, SearchOK, LooksOnlyAtReceived
  <1> QED
    BY <1>1, Inductive, PTL

-----------------------------------------------------------------------------
(* The abstract specification.                                             *)

\* The initial states are initial states of PacketIntake.
LEMMA IntakeInit == Init => PI!Init
PROOF
  <1> SUFFICES ASSUME Init PROVE PI!Init
    OBVIOUS
  <1>1. message \in Messages /\ arrived = 0 /\ eof = FALSE /\ discarded = 0 /\ outcome = "none"
    BY DEF Init
  <1>2. Len(packet) \in Nat /\ Len(packet) >= 3
    BY <1>1, StreamBytes
  <1>3. (arrived >= Len(packet)) = FALSE
    BY <1>1, <1>2
  <1>4. Handed = <<>> /\ Left = "all"
    BY <1>1 DEF Handed, Left
  <1>5. (message.error # 0) \in BOOLEAN
    OBVIOUS
  <1> QED
    BY <1>1, <1>3, <1>4, <1>5 DEF PI!Init

\* A step that changes nothing PacketIntake speaks of is a stutter.
LEMMA IntakeUndecided ==
  ASSUME outcome' = outcome, discarded' = discarded, message' = message,
         arrived' = arrived, eof' = eof,
         outcome = "delivered" => endOfPacket' = endOfPacket
  PROVE  UNCHANGED PI!piVars
PROOF
  <1>1. stream' = stream /\ packet' = packet
    BY DEF stream, packet
  <1>2. Handed' = Handed
    <2>1. CASE outcome = "delivered"
      <3>1. Body' = Body
        BY <1>1, <2>1 DEF Body
      <3> QED
        BY <2>1, <3>1 DEF Handed
    <2>2. CASE outcome # "delivered"
      BY <2>2 DEF Handed
    <2> QED
      BY <2>1, <2>2
  <1>3. Left' = Left
    BY <1>1 DEF Left
  <1> QED
    BY <1>1, <1>2, <1>3 DEF PI!piVars

\* A verdict of the reader is the one PacketIntake asks for.
LEMMA IntakeDecided ==
  ASSUME IInv, IInv', Reader, outcome' # outcome
  PROVE  PI!Next
PROOF
  <1>1. /\ message' = message /\ arrived' = arrived /\ eof' = eof
        /\ outcome = "none" /\ endOfPacket' = endOfPacket
    BY DEF Reader, PeekShortest, ScanByte, PeekMore, PeekChecksum, Verify, IInv, ReaderOK
  <1>2. stream' = stream /\ packet' = packet
    BY <1>1 DEF stream, packet
  <1>3. message \in Messages
    BY DEF IInv, ReaderOK
  <1>4. Len(packet) = Len(message.body) + 3 /\ Len(message.body) \in Nat
    BY <1>3, StreamBytes
  <1>5. Handed = <<>>
    BY <1>1 DEF Handed
  <1>6. CASE outcome' = "delivered"
    <2>1. pc = "verify"
      BY <1>1, <1>6 DEF Reader, PeekShortest, ScanByte, PeekMore, PeekChecksum, Verify, GiveUp
    <2>2. arrived >= Len(packet)
      BY <1>4, <2>1 DEF IInv, ReaderOK, SearchOK, packetWithChecksumLength
    <2>3. DeliversWhatWasSent'
      BY DeliveredIsSent, PTL
    <2>4. message.error = 0 /\ Handed' = message.payload /\ discarded' = Len(packet)
      BY <1>1, <1>2, <1>6, <2>3 DEF DeliversWhatWasSent, Handed
    <2>5. Left' = "next"
      BY <1>2, <1>4, <2>4 DEF Left
    <2> QED
      BY <1>1, <1>2, <1>6, <2>2, <2>4, <2>5 DEF PI!Next, PI!Deliver, PI!Decide
  <1>7. CASE outcome' = "mismatch"
    <2>1. pc = "verify" /\ discarded' = discarded
      BY <1>1, <1>7 DEF Reader, PeekShortest, ScanByte, PeekMore, PeekChecksum, Verify, GiveUp
    <2>2. arrived >= Len(packet)
      BY <1>4, <2>1 DEF IInv, ReaderOK, SearchOK, packetWithChecksumLength
    <2>3. message.error # 0
      BY <1>1, <1>7 DEF IInv, SearchOK, RejectsOnlyDamaged
    <2>4. Left' = Left /\ Handed' = Handed
      BY <1>2, <1>5, <1>7, <2>1 DEF Left, Handed
    <2> QED
      BY <1>1, <1>2, <1>7, <2>2, <2>3, <2>4 DEF PI!Next, PI!Reject, PI!Decide
  <1>8. CASE outcome' = "lost"
    <2>1. discarded' = discarded
      BY <1>1, <1>8 DEF Reader, PeekShortest, ScanByte, PeekMore, PeekChecksum, Verify
    <2>2. eof /\ ~(arrived >= Len(packet))
      <3>1. eof' /\ arrived' < Len(packet')
        BY <1>8 DEF IInv, SearchOK, RejectsOnlyDamaged
      <3> QED
        BY <1>1, <1>2, <1>4, <3>1 DEF IInv, ReaderOK
    <2>3. Left' = Left /\ Handed' = Handed
      BY <1>2, <1>5, <1>8, <2>1 DEF Left, Handed
    <2> QED
      BY <1>1, <1>2, <1>8, <2>2, <2>3 DEF PI!Next, PI!Lose, PI!Decide
  <1> QED
    BY <1>1, <1>6, <1>7, <1>8 DEF IInv, ReaderOK

\* Each step of the reader or of the network is one of PacketIntake, or none.
LEMMA IntakeStep ==
  ASSUME IInv, IInv', [Next]_rdVars
  PROVE  [PI!Next]_PI!piVars
PROOF
  <1>1. CASE Reader /\ outcome' # outcome
    BY <1>1, IntakeDecided
  <1>2. CASE Reader /\ outcome' = outcome
    <2>1. /\ outcome # "delivered" /\ discarded' = discarded /\ message' = message
          /\ arrived' = arrived /\ eof' = eof
      BY <1>2 DEF Reader, PeekShortest, ScanByte, PeekMore, PeekChecksum, Verify, IInv, ReaderOK
    <2> QED
      BY <1>2, <2>1, IntakeUndecided
  <1>3. CASE Receive
    <2>1. /\ ~eof /\ message' = message /\ eof' = eof /\ outcome' = outcome
          /\ discarded' = discarded /\ endOfPacket' = endOfPacket
      BY <1>3 DEF Receive
    <2>2. stream' = stream /\ packet' = packet /\ Handed' = Handed /\ Left' = Left
      BY <2>1 DEF stream, packet, Handed, Left, Body
    <2>3. message \in Messages /\ arrived \in Nat
      BY DEF IInv, ReaderOK
    <2>4. Len(packet) \in Nat /\ Len(stream) \in Nat
      BY <2>3, StreamBytes
    <2>5. arrived' > arrived /\ arrived' \in Nat
      BY <1>3, <2>3, <2>4 DEF Receive
    <2>6. CASE arrived < Len(packet) /\ arrived' >= Len(packet)
      BY <2>1, <2>2, <2>3, <2>4, <2>6 DEF PI!Next, PI!Arrive
    <2>7. CASE ~(arrived < Len(packet) /\ arrived' >= Len(packet))
      <3>1. (arrived' >= Len(packet')) = (arrived >= Len(packet))
        BY <2>2, <2>3, <2>4, <2>5, <2>7
      <3> QED
        BY <2>1, <2>2, <3>1 DEF PI!piVars
    <2> QED
      BY <2>6, <2>7
  <1>4. CASE Disconnect
    <2>1. /\ ~eof /\ eof' = TRUE /\ message' = message /\ arrived' = arrived /\ outcome' = outcome
          /\ discarded' = discarded /\ endOfPacket' = endOfPacket
      BY <1>4 DEF Disconnect
    <2>2. stream' = stream /\ packet' = packet /\ Handed' = Handed /\ Left' = Left
      BY <2>1 DEF stream, packet, Handed, Left, Body
    <2> QED
      BY <2>1, <2>2 DEF PI!Next, PI!End
  <1>5. CASE UNCHANGED rdVars
    BY <1>5, IntakeUndecided DEF rdVars
  <1> QED
    BY <1>1, <1>2, <1>3, <1>4, <1>5 DEF Next

\* The reader implements PacketIntake, for any packet however it is cut: the
\* part of ImplementsPacketIntake that is not about fairness
\* (GDBServer.cpp:66-129).
THEOREM ImplementsIntake == Spec => PI!Spec
PROOF
  <1> QED
    BY IntakeInit, IntakeStep, Inductive, PTL DEF Spec, PI!Spec
=================================================================================
