-------------------------- MODULE MemoryPacketsProofs --------------------------
(***************************************************************************)
(* Theorems about MemoryPackets, for memories of any size, with or without *)
(* FLASH, and whatever the target refuses, cuts short or puts off.         *)
(*                                                                         *)
(* What the client believes is true between packets only, because it takes *)
(* the reply after the memory has changed.  The invariant therefore speaks *)
(* of what the client is about to conclude: as soon as there is a reply,   *)
(* of what it makes of this reply.  It also says why vFlashDone may turn   *)
(* what was loaded into something known: each byte that was acknowledged   *)
(* is in memory or still held back by the programmer.                      *)
(*                                                                         *)
(* The checksum is a loop in three layers, over the bits of a byte (from   *)
(* which the table is made), over the bytes of a chunk and over chunks,    *)
(* and the reference is a long division bit by bit.  After the division    *)
(* has dealt with m bytes, what is left of the message is the register     *)
(* after m bytes, in front of the bytes to come (IsSum); this is shown     *)
(* by induction over the bytes, and for one byte over its bits.            *)
(***************************************************************************)
EXTENDS MemoryPackets, TLAPS, WellFoundedInduction

\* The variables' types.
DataOK ==
  /\ memory \in [Addresses -> Values]
  /\ held \in [Flash -> Values \cup {None}]
  /\ pc \in {"idle", "handle", "crc", "replied"}
  /\ pc # "idle" => request \in Requests
  /\ pc = "crc" => request.kind = "qCRC"

\* What a client may hold that believes b and has loaded l.
Sound(b, l) ==
  /\ b \in [Addresses -> Values \cup {Unknown}]
  /\ l \in [Flash -> Values \cup {Unknown, None}]
  /\ \A a \in Addresses : b[a] # Unknown => memory[a] = b[a]
  /\ \A a \in Flash :
       /\ l[a] # None => b[a] = Unknown
       /\ l[a] = None => held[a] = None
       /\ l[a] \in Values => l[a] = IF held[a] # None THEN held[a] ELSE memory[a]

\* It holds of the client as it is, and of what it makes of the reply.
ClientSound ==
  /\ pc # "replied" => Sound(believed, loading)
  /\ pc = "replied" => Sound(Learned, Loaded)

IInv == DataOK /\ ClientSound

-----------------------------------------------------------------------------
(* Bytes stored in a row.                                                  *)

\* The addresses are numbers, the FLASH addresses are among them.
LEMMA AddressesAreNumbers ==
  Addresses \subseteq Int /\ Flash \subseteq Addresses
  BY MemoryAssumption DEF MemoryAssumption, Addresses, Flash

\* What is stored is found in its place, and everything else is left alone.
LEMMA StoredBytes ==
  ASSUME NEW D \in SUBSET Int, NEW S, NEW f \in [D -> S],
         NEW addr \in Int, NEW data \in Seq(S)
  PROVE  /\ Stored(f, addr, data) \in [D -> S]
         /\ \A a \in D :
              Stored(f, addr, data)[a] =
                IF a >= addr /\ a < addr + Len(data) THEN data[a - addr + 1] ELSE f[a]
PROOF
  <1>1. DOMAIN f = D
    OBVIOUS
  <1>2. Stored(f, addr, data) =
          [a \in D |-> IF a >= addr /\ a < addr + Len(data) THEN data[a - addr + 1] ELSE f[a]]
    BY <1>1 DEF Stored
  <1>3. \A a \in D : a >= addr /\ a < addr + Len(data) => data[a - addr + 1] \in S
    OBVIOUS
  <1> QED
    BY <1>2, <1>3

\* A row of equal bytes.
LEMMA FilledBytes ==
  ASSUME NEW v, NEW n \in Nat
  PROVE  /\ Filled(v, n) \in Seq({v})
         /\ Len(Filled(v, n)) = n
         /\ \A i \in 1 .. n : Filled(v, n)[i] = v
  BY DEF Filled

LEMMA StoredFilled ==
  ASSUME NEW f, DOMAIN f \subseteq Int, NEW addr \in Int, NEW v, NEW n \in Nat
  PROVE  LET g == Stored(f, addr, Filled(v, n))
         IN  /\ g = [a \in DOMAIN f |-> g[a]]
             /\ \A a \in DOMAIN f : g[a] = IF a >= addr /\ a < addr + n THEN v ELSE f[a]
PROOF
  <1> DEFINE row == Filled(v, n)
  <1>1. Len(row) = n /\ \A i \in 1 .. n : row[i] = v
    BY FilledBytes
  <1> HIDE DEF row
  <1>2. Stored(f, addr, row) =
          [a \in DOMAIN f |-> IF a >= addr /\ a < addr + n THEN row[a - addr + 1] ELSE f[a]]
    BY <1>1 DEF Stored
  <1>3. \A a \in DOMAIN f : a >= addr /\ a < addr + n => row[a - addr + 1] = v
    BY <1>1
  <1> QED
    BY <1>2, <1>3 DEF row

\* The bytes of a packet.
LEMMA BoundedBytes ==
  ASSUME NEW S, NEW n \in Nat, NEW data \in BoundedSeq(S, n)
  PROVE  data \in Seq(S) /\ Len(data) \in 0 .. n
PROOF
  <1>1. PICK m \in 0 .. n : data \in [1 .. m -> S]
    BY DEF BoundedSeq, SeqOf
  <1> QED
    BY <1>1

\* The beginning of a packet's bytes.
LEMMA Beginning ==
  ASSUME NEW S, NEW data \in Seq(S), NEW n \in 0 .. Len(data)
  PROVE  /\ SubSeq(data, 1, n) \in Seq(S)
         /\ Len(SubSeq(data, 1, n)) = n
         /\ \A i \in 1 .. n : SubSeq(data, 1, n)[i] = data[i]
  OBVIOUS

-----------------------------------------------------------------------------
(* The requests.                                                           *)

\* What each packet carries.
LEMMA RequestParts ==
  ASSUME NEW r \in Requests
  PROVE  /\ r.kind \in {"m", "qCRC", "M", "X", "vFlashErase", "vFlashWrite", "vFlashDone"}
         /\ r.kind \in {"m", "qCRC"} => r.addr \in Addresses /\ r.length \in Nat
         /\ r.kind \in {"M", "X"} =>
              r.addr \in Addresses \ Flash /\ r.length \in Nat /\ r.data \in Seq(Values)
         /\ r.kind = "vFlashErase" =>
              r.addr \in Flash /\ r.length \in Nat /\ r.addr + r.length <= FlashSize
         /\ r.kind = "vFlashWrite" =>
              r.addr \in Flash /\ r.data \in Seq(Values) /\ r.addr + Len(r.data) <= FlashSize
PROOF
  <1>0. Size \in Nat /\ FlashSize \in Nat /\ MaxData \in Nat
    BY MemoryAssumption DEF MemoryAssumption
  <1>1. CASE r \in Reads
    BY <1>0, <1>1 DEF Reads, Lengths
  <1>2. CASE r \in Writes
    <2>1. r.data \in BoundedSeq(Values, MaxData) /\ r.kind \in {"M", "X"}
          /\ r.addr \in Addresses \ Flash /\ r.length \in Nat
      BY <1>0, <1>2 DEF Writes
    <2>2. r.data \in Seq(Values)
      BY <1>0, <2>1, BoundedBytes
    <2> QED
      BY <2>1, <2>2
  <1>3. CASE r \in FlashRequests
    <2>1. CASE r \in [kind : {"vFlashErase"}, addr : Flash, length : 0 .. FlashSize]
      BY <1>0, <1>3, <2>1 DEF FlashRequests
    <2>2. CASE r \in [kind : {"vFlashWrite"}, addr : Flash, data : BoundedSeq(Values, FlashSize)]
      <3>1. r.kind = "vFlashWrite" /\ r.addr \in Flash /\ r.data \in BoundedSeq(Values, FlashSize)
        BY <2>2
      <3>2. r.addr + Len(r.data) <= FlashSize
        BY <1>3, <3>1 DEF FlashRequests
      <3>3. r.data \in Seq(Values)
        BY <1>0, <3>1, BoundedBytes
      <3> QED
        BY <3>1, <3>2, <3>3
    <2>3. CASE r \in [kind : {"vFlashDone"}]
      BY <2>3
    <2> QED
      BY <1>3, <2>1, <2>2, <2>3 DEF FlashRequests
  <1> QED
    BY <1>1, <1>2, <1>3 DEF Requests

-----------------------------------------------------------------------------
(* The client's conclusions.                                               *)

\* What the client makes of each kind of reply.
LEMMA Conclusions ==
  ASSUME request.kind \in {"m", "qCRC", "M", "X", "vFlashErase", "vFlashWrite", "vFlashDone"},
         UNCHANGED <<believed, loading, request>>
  PROVE  /\ reply'.kind = "data" /\ request.kind = "m" =>
              Learned' = [a \in Addresses |-> IF Settled(a)
                                              THEN Stored(believed, request.addr, reply'.data)[a]
                                              ELSE Unknown]
         /\ reply'.kind = "ok" /\ request.kind \in {"M", "X"} =>
              Learned' = Stored(believed, request.addr, SubSeq(request.data, 1, request.length))
         /\ Refused' /\ request.kind \in {"M", "X"} =>
              Learned' = Stored(believed, request.addr, Filled(Unknown, Len(request.data)))
         /\ (reply'.kind = "ok" \/ Refused') /\ request.kind = "vFlashWrite" =>
              Learned' = Stored(believed, request.addr, Filled(Unknown, Len(request.data)))
         /\ Refused' /\ request.kind = "vFlashErase" =>
              Learned' = Stored(believed, request.addr, Filled(Unknown, request.length))
         /\ reply'.kind = "ok" /\ request.kind = "vFlashErase" =>
              Learned' = Stored(believed, request.addr, Filled(Erased, request.length))
         /\ reply'.kind = "ok" /\ request.kind = "vFlashDone" =>
              Learned' = [a \in Addresses |-> IF Settled(a) THEN believed[a] ELSE loading[a]]
         /\ Refused' /\ request.kind \in {"m", "qCRC", "vFlashDone"} => Learned' = believed
         /\ reply'.kind = "crc" /\ request.kind = "qCRC" => Learned' = believed
PROOF
  <1> DEFINE r == reply'.kind
  <1> USE DEF Learned, Refused, Settled
  <1>1. CASE r = "data"
    BY <1>1
  <1>2. CASE r = "ok"
    BY <1>2
  <1>3. CASE r \in {"error", "unsupported"}
    BY <1>3
  <1>4. CASE r = "crc"
    BY <1>4
  <1> QED
    BY <1>1, <1>2, <1>3, <1>4

\* And how it keeps account of what it loads.
LEMMA Accounts ==
  ASSUME UNCHANGED <<loading, request>>
  PROVE  /\ request.kind \in {"m", "qCRC", "M", "X"} => Loaded' = loading
         /\ request.kind = "vFlashErase" =>
              Loaded' = IF Refused'
                        THEN Lost(request.addr .. request.addr + request.length - 1)
                        ELSE Stored(loading, request.addr, Filled(None, request.length))
         /\ request.kind = "vFlashWrite" =>
              Loaded' = Stored(loading, request.addr,
                               IF Refused' THEN Filled(Unknown, Len(request.data))
                               ELSE request.data)
         /\ request.kind = "vFlashDone" =>
              Loaded' = IF Refused' THEN Lost(Flash) ELSE NoneHeld
  BY DEF Loaded, Lost, Settled, Refused

\* The stub answers: the invariant is what the client will conclude.
LEMMA Replies ==
  ASSUME IInv, pc \in {"handle", "crc"}, pc' = "replied", UNCHANGED request,
         memory' \in [Addresses -> Values],
         held' \in [Flash -> Values \cup {None}],
         Sound(Learned, Loaded)'
  PROVE  IInv'
  BY DEF IInv, DataOK, ClientSound

-----------------------------------------------------------------------------
(* The stub's steps.                                                       *)

\* Nothing was written, and the client concludes nothing.
LEMMA NothingLearned ==
  ASSUME IInv, pc \in {"handle", "crc"}, pc' = "replied",
         UNCHANGED <<memory, held, believed, loading, request>>,
         request.kind \in {"m", "qCRC"},
         reply'.kind \in {"error", "unsupported", "crc"},
         reply'.kind = "crc" => request.kind = "qCRC"
  PROVE  IInv'
PROOF
  <1>1. Learned' = believed /\ Loaded' = loading
    BY Conclusions, Accounts DEF Refused
  <1>2. Sound(believed, loading)
    BY DEF IInv, ClientSound
  <1>3. Sound(Learned, Loaded)'
    BY <1>1, <1>2 DEF Sound
  <1> QED
    BY <1>3, Replies DEF IInv, DataOK

\* The client takes over what was read, except for FLASH that is being loaded.
LEMMA ReadsLearned ==
  ASSUME IInv, Handle_m
  PROVE  IInv'
PROOF
  <1>1. request \in Requests /\ pc = "handle" /\ pc' = "replied" /\ request.kind = "m"
        /\ UNCHANGED <<memory, held, believed, loading, request>>
    BY DEF IInv, DataOK, Handle_m, Reply, flashAndClient
  <1>2. CASE Reply(Error)
    BY <1>1, <1>2, NothingLearned DEF Reply, Error
  <1>3. ASSUME NEW n \in ReadableLengths(request.addr, request.length),
               Reply([kind |-> "data", data |-> Slice(memory, request.addr, n)])
        PROVE  IInv'
    <2> DEFINE addr == request.addr
    <2> DEFINE data == Slice(memory, addr, n)
    <2>1. addr \in Addresses /\ request.length \in Nat
      BY <1>1, RequestParts
    <2>2. addr \in Int /\ addr >= 0 /\ Size \in Nat
      BY <2>1, MemoryAssumption DEF MemoryAssumption, Addresses
    <2>3. n \in Nat /\ addr + n <= Size
      BY <2>1, <2>2 DEF ReadableLengths
    <2>4. \A i \in 1 .. n : addr + i - 1 \in Addresses
      BY <2>2, <2>3 DEF Addresses
    <2>5. memory \in [Addresses -> Values] /\ Sound(believed, loading)
      BY <1>1 DEF IInv, DataOK, ClientSound
    <2>6. /\ data \in Seq(Values) /\ Len(data) = n
          /\ \A i \in 1 .. n : data[i] = memory[addr + i - 1]
      BY <2>3, <2>4, <2>5 DEF Slice
    <2>7. reply'.kind = "data" /\ reply'.data = data
      BY <1>3 DEF Reply
    <2> DEFINE read == Stored(believed, addr, data)
    <2>8. /\ Learned' = [a \in Addresses |-> IF Settled(a) THEN read[a] ELSE Unknown]
          /\ Loaded' = loading
      BY <1>1, <2>7, Conclusions, Accounts
    <2> HIDE DEF data
    <2>9. /\ read \in [Addresses -> Values \cup {Unknown}]
          /\ \A a \in Addresses :
               read[a] = IF a >= addr /\ a < addr + n THEN data[a - addr + 1] ELSE believed[a]
      <3>1. believed \in [Addresses -> Values \cup {Unknown}]
        BY <2>5 DEF Sound
      <3>2. Addresses \in SUBSET Int
        BY AddressesAreNumbers
      <3>3. addr \in Int
        BY <2>2
      <3>4. data \in Seq(Values \cup {Unknown})
        BY <2>6
      <3> HIDE DEF addr
      <3> QED
        BY <2>6, <3>1, <3>2, <3>3, <3>4, StoredBytes
    <2>10. ASSUME NEW a \in Addresses, read[a] # Unknown PROVE memory[a] = read[a]
      <3>1. CASE a >= addr /\ a < addr + n
        <4>1. a \in Int /\ a - addr + 1 \in 1 .. n
          BY <2>2, <2>3, <3>1, AddressesAreNumbers
        <4>2. read[a] = data[a - addr + 1]
          BY <2>9, <3>1
        <4>3. addr + (a - addr + 1) - 1 = a
          BY <2>2, <4>1
        <4> QED
          BY <2>6, <4>1, <4>2, <4>3
      <3>2. CASE ~(a >= addr /\ a < addr + n)
        BY <2>5, <2>9, <2>10, <3>2 DEF Sound
      <3> QED
        BY <3>1, <3>2
    <2> HIDE DEF read, addr
    <2>11. Learned' \in [Addresses -> Values \cup {Unknown}]
      BY <2>8, <2>9
    <2>12. \A a \in Addresses : Learned'[a] = IF Settled(a) THEN read[a] ELSE Unknown
      BY <2>8
    <2>13. \A a \in Flash : loading[a] # None => Learned'[a] = Unknown
      BY <2>12, AddressesAreNumbers DEF Settled
    <2>14. Sound(Learned, Loaded)'
      BY <1>1, <2>5, <2>8, <2>10, <2>11, <2>12, <2>13 DEF Sound
    <2> QED
      BY <1>1, <2>14, Replies DEF IInv, DataOK
  <1> QED
    BY <1>2, <1>3 DEF Handle_m

\* After M and X: the bytes were written, or the client takes none for known.
LEMMA WritesLearned ==
  ASSUME IInv,
         \/ RejectWrite \/ AnswerProbe \/ WriteSucceeds \/ WriteFails
         \/ OutOfMemory /\ request.kind = "M"
  PROVE  IInv'
PROOF
  <1> DEFINE addr == request.addr
  <1> DEFINE data == request.data
  <1>1. request \in Requests /\ pc = "handle" /\ pc' = "replied" /\ request.kind \in {"M", "X"}
        /\ UNCHANGED <<held, believed, loading, request>>
    BY DEF IInv, DataOK, RejectWrite, AnswerProbe, WriteSucceeds, WriteFails, OutOfMemory,
           Reply, flashAndClient, IsProbe
  <1>2. addr \in Addresses \ Flash /\ request.length \in Nat /\ data \in Seq(Values)
    BY <1>1, RequestParts
  <1>3. memory \in [Addresses -> Values] /\ Sound(believed, loading)
    BY <1>1 DEF IInv, DataOK, ClientSound
  <1>4. believed \in [Addresses -> Values \cup {Unknown}]
    BY <1>3 DEF Sound
  <1>5. addr \in Int /\ Addresses \in SUBSET Int /\ Len(data) \in Nat
    <2> HIDE DEF addr, data
    <2> QED
      BY <1>2, AddressesAreNumbers
  <1>6. Loaded' = loading
    BY <1>1, Accounts
  <1>7. data \in Seq(Values \cup {Unknown})
    BY <1>2
  <1> DEFINE Covers(a, n) == a >= addr /\ a < addr + n
  <1>8. \A a \in Flash : a < addr
    <2>1. FlashSize \in Nat /\ Size \in Nat
      BY MemoryAssumption DEF MemoryAssumption
    <2> QED
      BY <1>2, <1>5, <2>1 DEF Addresses, Flash
  <1> HIDE DEF addr, data
  \* The client's account of FLASH is not touched.
  <1>9. ASSUME memory' \in [Addresses -> Values],
               Learned' \in [Addresses -> Values \cup {Unknown}],
               \A a \in Flash : memory'[a] = memory[a] /\ Learned'[a] = believed[a],
               \A a \in Addresses : Learned'[a] # Unknown => memory'[a] = Learned'[a]
        PROVE  IInv'
    <2>1. Sound(Learned, Loaded)'
      BY <1>1, <1>3, <1>6, <1>9 DEF Sound
    <2> QED
      BY <1>1, <1>9, <2>1, Replies DEF IInv, DataOK
  <1>10. ASSUME NEW m, NEW n \in 0 .. Len(data), m = Stored(memory, addr, SubSeq(data, 1, n))
         PROVE  /\ m \in [Addresses -> Values]
                /\ \A a \in Addresses :
                     m[a] = IF Covers(a, n) THEN data[a - addr + 1] ELSE memory[a]
    <2> DEFINE part == SubSeq(data, 1, n)
    <2>1. part \in Seq(Values) /\ Len(part) = n /\ \A i \in 1 .. n : part[i] = data[i]
      BY <1>2, Beginning DEF data
    <2>0. m = Stored(memory, addr, part)
      BY <1>10
    <2> HIDE DEF part
    <2>2. /\ m \in [Addresses -> Values]
          /\ \A a \in Addresses :
               m[a] = IF a >= addr /\ a < addr + n THEN part[a - addr + 1] ELSE memory[a]
      BY <1>3, <1>5, <2>0, <2>1, StoredBytes
    <2>3. \A a \in Addresses : Covers(a, n) => part[a - addr + 1] = data[a - addr + 1]
      BY <1>5, <2>1
    <2> QED
      BY <2>2, <2>3
  \* What was written is believed.
  <1>11. CASE WriteSucceeds
    <2>1. request.length = Len(data) /\ memory' = Stored(memory, addr, data) /\ reply'.kind = "ok"
      BY <1>11 DEF WriteSucceeds, LengthAgrees, Reply, OK, addr, data
    <2>2. Learned' = Stored(believed, addr, SubSeq(data, 1, Len(data)))
      BY <1>1, <2>1, Conclusions DEF addr, data
    <2>3. SubSeq(data, 1, Len(data)) = data
      BY <1>2 DEF data
    <2>4. /\ memory' \in [Addresses -> Values]
          /\ \A a \in Addresses :
               memory'[a] = IF Covers(a, Len(data)) THEN data[a - addr + 1] ELSE memory[a]
      <3>1. data \in Seq(Values)
        BY <1>2 DEF data
      <3> QED
        BY <1>3, <1>5, <2>1, <3>1, StoredBytes
    <2>5. /\ Learned' \in [Addresses -> Values \cup {Unknown}]
          /\ \A a \in Addresses :
               Learned'[a] = IF Covers(a, Len(data)) THEN data[a - addr + 1] ELSE believed[a]
      <3>1. Learned' = Stored(believed, addr, data)
        BY <2>2, <2>3
      <3> QED
        BY <1>4, <1>5, <1>7, <3>1, StoredBytes
    <2> QED
      BY <1>3, <1>5, <1>8, <1>9, <2>4, <2>5, AddressesAreNumbers DEF Sound
  \* Nothing in the range is believed any more.
  <1>12. ASSUME Refused',
                \E n \in 0 .. Len(data) : memory' = Stored(memory, addr, SubSeq(data, 1, n))
         PROVE  IInv'
    <2>1. PICK n \in 0 .. Len(data) : memory' = Stored(memory, addr, SubSeq(data, 1, n))
      BY <1>12
    <2>2. /\ memory' \in [Addresses -> Values]
          /\ \A a \in Addresses :
               memory'[a] = IF Covers(a, n) THEN data[a - addr + 1] ELSE memory[a]
      BY <1>10, <2>1
    <2>3. Learned' = Stored(believed, addr, Filled(Unknown, Len(data)))
      BY <1>1, <1>12, Conclusions DEF addr, data
    <2>4. /\ Learned' \in [Addresses -> Values \cup {Unknown}]
          /\ \A a \in Addresses :
               Learned'[a] = IF Covers(a, Len(data)) THEN Unknown ELSE believed[a]
      BY <1>4, <1>5, <2>3, StoredFilled
    <2>5. \A a \in Addresses : Covers(a, n) => Covers(a, Len(data))
      BY <1>5
    <2> QED
      BY <1>3, <1>5, <1>8, <1>9, <2>2, <2>4, <2>5, AddressesAreNumbers DEF Sound
  <1>13. CASE WriteFails
    <2>1. PICK n \in ReadableLengths(addr, request.length) :
            memory' = Stored(memory, addr, SubSeq(data, 1, n))
      BY <1>13 DEF WriteFails, addr, data
    <2>2. n \in 0 .. Len(data)
      BY <1>13 DEF WriteFails, LengthAgrees, ReadableLengths, data
    <2>3. Refused'
      BY <1>13 DEF WriteFails, Reply, Error, Unsupported, Refused
    <2> QED
      BY <1>12, <2>1, <2>2, <2>3
  <1>14. CASE RejectWrite \/ OutOfMemory
    <2>1. Refused' /\ memory' = memory
      BY <1>14 DEF RejectWrite, OutOfMemory, Reply, Error, Refused
    <2>2. memory = Stored(memory, addr, SubSeq(data, 1, 0))
      <3>1. SubSeq(data, 1, 0) = <<>>
        BY <1>2 DEF data
      <3>2. Stored(memory, addr, <<>>) = [a \in Addresses |-> memory[a]]
        BY <1>3, <1>5 DEF Stored
      <3> QED
        BY <1>3, <3>1, <3>2
    <2>3. 0 \in 0 .. Len(data)
      BY <1>5
    <2> QED
      BY <1>12, <2>1, <2>2, <2>3
  <1>15. CASE AnswerProbe
    <2>1. reply'.kind = "ok" /\ memory' = memory /\ request.length = 0
      BY <1>15 DEF AnswerProbe, Reply, OK, IsProbe
    <2>2. SubSeq(data, 1, 0) = <<>>
      BY <1>2 DEF data
    <2>3. Learned' = Stored(believed, addr, <<>>)
      BY <1>1, <2>1, <2>2, Conclusions DEF addr, data
    <2>4. Learned' = [a \in Addresses |-> believed[a]]
      BY <1>4, <1>5, <2>3 DEF Stored
    <2>5. Learned' = believed
      BY <1>4, <2>4
    <2> QED
      BY <1>3, <1>4, <1>9, <2>1, <2>5 DEF Sound
  <1> QED
    BY <1>11, <1>13, <1>14, <1>15

\* What the types and the ranges of a FLASH packet amount to.
LEMMA FlashFacts ==
  ASSUME IInv, pc = "handle", request.kind \in {"vFlashErase", "vFlashWrite"}
  PROVE  /\ request.addr \in Int /\ request.addr >= 0
         /\ request.kind = "vFlashErase" =>
              request.length \in Nat /\ request.addr + request.length <= FlashSize
         /\ request.kind = "vFlashWrite" =>
              /\ request.data \in Seq(Values)
              /\ request.addr + Len(request.data) <= FlashSize
         /\ memory \in [Addresses -> Values]
         /\ held \in [Flash -> Values \cup {None}]
         /\ believed \in [Addresses -> Values \cup {Unknown}]
         /\ loading \in [Flash -> Values \cup {Unknown, None}]
         /\ Sound(believed, loading)
PROOF
  <1>1. request \in Requests
    BY DEF IInv, DataOK
  <1>2. request.addr \in Flash
    BY <1>1, RequestParts
  <1>3. FlashSize \in Int
    BY MemoryAssumption DEF MemoryAssumption
  <1>4. Sound(believed, loading)
    BY DEF IInv, ClientSound
  <1> QED
    BY <1>1, <1>2, <1>3, <1>4, RequestParts DEF IInv, DataOK, Sound, Flash

\* Three values that are never the same.
LEMMA NoSuchByte ==
  /\ Unknown \notin Values /\ None \notin Values /\ Unknown # None /\ Erased \in Values
  BY MemoryAssumption DEF MemoryAssumption

\* FLASH is at the beginning of the memory.
LEMMA FlashFirst ==
  /\ Addresses \subseteq Int /\ Flash \subseteq Addresses
  /\ FlashSize \in Nat
  /\ \A a \in Addresses : a \in Flash <=> a < FlashSize
PROOF
  <1>1. Size \in Nat /\ FlashSize \in Nat /\ FlashSize <= Size
    BY MemoryAssumption DEF MemoryAssumption
  <1> QED
    BY <1>1, AddressesAreNumbers DEF Addresses, Flash

\* What was held back for the range that was erased is void.
LEMMA ErasesLearned ==
  ASSUME IInv, Handle_vFlashErase
  PROVE  IInv'
PROOF
  <1> DEFINE addr == request.addr
  <1> DEFINE length == request.length
  <1> DEFINE Covers(a, n) == a >= addr /\ a < addr + n
  <1>1. /\ request.kind = "vFlashErase" /\ pc = "handle" /\ pc' = "replied"
        /\ UNCHANGED <<believed, loading, request>>
    BY DEF Handle_vFlashErase, Reply, Fails
  <1>2. PICK n \in 0 .. length :
          /\ memory' = Stored(memory, addr, Filled(Erased, n))
          /\ held' = Stored(held, addr, Filled(None, n))
          /\ Fails \/ (n = length /\ Reply(OK))
    BY DEF Handle_vFlashErase
  <1>3. addr \in Int /\ length \in Nat /\ addr + length <= FlashSize
    BY <1>1, FlashFacts
  <1>4. /\ memory \in [Addresses -> Values]
        /\ held \in [Flash -> Values \cup {None}]
        /\ believed \in [Addresses -> Values \cup {Unknown}]
        /\ loading \in [Flash -> Values \cup {Unknown, None}]
        /\ Sound(believed, loading)
    BY <1>1, FlashFacts
  <1>5. n \in Nat /\ n <= length /\ Addresses \subseteq Int /\ Flash \subseteq Int
    BY <1>3, FlashFirst
  <1> HIDE DEF addr, length
  <1>6. /\ memory' \in [Addresses -> Values]
        /\ \A a \in Addresses : memory'[a] = IF Covers(a, n) THEN Erased ELSE memory[a]
    <2>1. DOMAIN memory = Addresses /\ Addresses \subseteq Int /\ addr \in Int /\ n \in Nat
      BY <1>3, <1>4, <1>5
    <2>2. /\ memory' = [a \in Addresses |-> memory'[a]]
         /\ \A a \in Addresses : memory'[a] = IF a >= addr /\ a < addr + n THEN Erased ELSE memory[a]
      BY <2>1, <1>2, StoredFilled
    <2> QED
      BY <1>4, <2>2, NoSuchByte
  <1>7. /\ held' \in [Flash -> Values \cup {None}]
        /\ \A a \in Flash : held'[a] = IF Covers(a, n) THEN None ELSE held[a]
    <2>1. DOMAIN held = Flash /\ Flash \subseteq Int /\ addr \in Int /\ n \in Nat
      BY <1>3, <1>4, <1>5
    <2>2. /\ held' = [a \in Flash |-> held'[a]]
         /\ \A a \in Flash : held'[a] = IF a >= addr /\ a < addr + n THEN None ELSE held[a]
      BY <2>1, <1>2, StoredFilled
    <2> QED
      BY <1>4, <2>2
  <1>8. \A a \in Addresses : Covers(a, length) => a \in Flash
    BY <1>3, FlashFirst
  <1>9. \A a \in Addresses : Covers(a, n) => Covers(a, length)
    BY <1>3, <1>5
  <1>10. CASE Fails
    <2>1. Refused'
      BY <1>10 DEF Fails, Reply, Error, Unsupported, Refused
    <2>2. Learned' = Stored(believed, addr, Filled(Unknown, length))
      BY <1>1, <2>1, Conclusions DEF addr, length
    <2>3. /\ Learned' \in [Addresses -> Values \cup {Unknown}]
          /\ \A a \in Addresses :
               Learned'[a] = IF Covers(a, length) THEN Unknown ELSE believed[a]
      <3>1. DOMAIN believed = Addresses /\ Addresses \subseteq Int /\ addr \in Int /\ length \in Nat
        BY <1>3, <1>4, <1>5
      <3>2. /\ Learned' = [a \in Addresses |-> Learned'[a]]
           /\ \A a \in Addresses : Learned'[a] = IF a >= addr /\ a < addr + length THEN Unknown ELSE believed[a]
        BY <3>1, <2>2, StoredFilled
      <3> QED
        BY <1>4, <3>2
    <2>4. Loaded' = Lost(addr .. addr + length - 1)
      BY <1>1, <2>1, Accounts DEF addr, length
    <2>5. /\ Loaded' \in [Flash -> Values \cup {Unknown, None}]
          /\ \A a \in Flash :
               Loaded'[a] = IF Covers(a, length) /\ loading[a] # None THEN Unknown
                            ELSE loading[a]
      BY <1>3, <1>4, <1>5, <2>4 DEF Lost, Settled
    <2>6. Sound(Learned, Loaded)'
      BY <1>4, <1>6, <1>7, <1>8, <1>9, <2>3, <2>5, NoSuchByte, FlashFirst DEF Sound
    <2> QED
      BY <1>1, <1>6, <1>7, <2>6, Replies
  <1>11. CASE n = length /\ Reply(OK)
    <2>1. reply'.kind = "ok" /\ ~Refused'
      BY <1>11 DEF Reply, OK, Refused
    <2>2. Learned' = Stored(believed, addr, Filled(Erased, length))
      BY <1>1, <2>1, Conclusions DEF addr, length
    <2>3. /\ Learned' \in [Addresses -> Values \cup {Unknown}]
          /\ \A a \in Addresses :
               Learned'[a] = IF Covers(a, length) THEN Erased ELSE believed[a]
      <3>1. DOMAIN believed = Addresses /\ Addresses \subseteq Int /\ addr \in Int /\ length \in Nat
        BY <1>3, <1>4, <1>5
      <3>2. /\ Learned' = [a \in Addresses |-> Learned'[a]]
           /\ \A a \in Addresses : Learned'[a] = IF a >= addr /\ a < addr + length THEN Erased ELSE believed[a]
        BY <3>1, <2>2, StoredFilled
      <3> QED
        BY <1>4, <3>2, NoSuchByte
    <2>4. Loaded' = Stored(loading, addr, Filled(None, length))
      BY <1>1, <2>1, Accounts DEF addr, length
    <2>5. /\ Loaded' \in [Flash -> Values \cup {Unknown, None}]
          /\ \A a \in Flash : Loaded'[a] = IF Covers(a, length) THEN None ELSE loading[a]
      <3>1. DOMAIN loading = Flash /\ Flash \subseteq Int /\ addr \in Int /\ length \in Nat
        BY <1>3, <1>4, <1>5
      <3>2. /\ Loaded' = [a \in Flash |-> Loaded'[a]]
           /\ \A a \in Flash : Loaded'[a] = IF a >= addr /\ a < addr + length THEN None ELSE loading[a]
        BY <3>1, <2>4, StoredFilled
      <3> QED
        BY <1>4, <3>2
    <2>6. Sound(Learned, Loaded)'
      BY <1>4, <1>6, <1>7, <1>11, <2>3, <2>5, NoSuchByte, FlashFirst DEF Sound
    <2> QED
      BY <1>1, <1>6, <1>7, <2>6, Replies
  <1> QED
    BY <1>2, <1>10, <1>11

\* What is acknowledged is in memory or held back; nothing is believed yet.
LEMMA LoadsLearned ==
  ASSUME IInv, Handle_vFlashWrite
  PROVE  IInv'
PROOF
  <1> DEFINE addr == request.addr
  <1> DEFINE data == request.data
  <1> DEFINE Covers(a, n) == a >= addr /\ a < addr + n
  <1>1. /\ request.kind = "vFlashWrite" /\ pc = "handle" /\ pc' = "replied"
        /\ UNCHANGED <<believed, loading, request>>
    BY DEF Handle_vFlashWrite, Reply
  <1>2. PICK n \in 0 .. Len(data), atOnce \in BOOLEAN :
          /\ memory' = IF atOnce THEN Stored(memory, addr, SubSeq(data, 1, n)) ELSE memory
          /\ held' = Stored(held, addr, IF atOnce THEN Filled(None, n) ELSE SubSeq(data, 1, n))
          /\ \/ Reply(Unsupported)
             \/ data # <<>> /\ Reply(Error)
             \/ n = Len(data) /\ Reply(OK)
    BY DEF Handle_vFlashWrite
  <1>3. addr \in Int /\ data \in Seq(Values) /\ addr + Len(data) <= FlashSize
    BY <1>1, FlashFacts
  <1>4. /\ memory \in [Addresses -> Values]
        /\ held \in [Flash -> Values \cup {None}]
        /\ believed \in [Addresses -> Values \cup {Unknown}]
        /\ loading \in [Flash -> Values \cup {Unknown, None}]
        /\ Sound(believed, loading)
    BY <1>1, FlashFacts
  <1>5. /\ n \in Nat /\ n <= Len(data) /\ Len(data) \in Nat
        /\ Addresses \subseteq Int /\ Flash \subseteq Int
    BY <1>3, FlashFirst
  <1> DEFINE part == SubSeq(data, 1, n)
  <1>6. part \in Seq(Values) /\ Len(part) = n /\ \A i \in 1 .. n : part[i] = data[i]
    <2> HIDE DEF data
    <2> QED
      BY <1>3, Beginning
  <1> HIDE DEF addr, data, part
  <1>7. \A a \in Int : Covers(a, n) => part[a - addr + 1] = data[a - addr + 1]
    BY <1>3, <1>5, <1>6
  <1>8. \A a \in Int : Covers(a, Len(data)) => data[a - addr + 1] \in Values
    BY <1>3, <1>5
  <1>9. /\ memory' \in [Addresses -> Values]
        /\ \A a \in Addresses :
             memory'[a] = IF atOnce /\ Covers(a, n) THEN data[a - addr + 1] ELSE memory[a]
    <2>1. CASE atOnce
      <3>1. memory' = Stored(memory, addr, part)
        BY <1>2, <2>1 DEF part
      <3>2. /\ memory' \in [Addresses -> Values]
            /\ \A a \in Addresses :
                 memory'[a] = IF a >= addr /\ a < addr + n THEN part[a - addr + 1] ELSE memory[a]
        BY <1>3, <1>4, <1>5, <1>6, <3>1, StoredBytes
      <3> QED
        BY <1>5, <1>7, <2>1, <3>2
    <2>2. CASE ~atOnce
      BY <1>2, <1>4, <2>2
    <2> QED
      BY <2>1, <2>2
  <1>10. /\ held' \in [Flash -> Values \cup {None}]
         /\ \A a \in Flash :
              held'[a] = IF ~Covers(a, n) THEN held[a]
                         ELSE IF atOnce THEN None ELSE data[a - addr + 1]
    <2>1. CASE atOnce
      <3>1. held' = Stored(held, addr, Filled(None, n))
        BY <1>2, <2>1
      <3> QED
        <4>1. DOMAIN held = Flash /\ Flash \subseteq Int /\ addr \in Int /\ n \in Nat
          BY <1>3, <1>4, <1>5
        <4>2. /\ held' = [a \in Flash |-> held'[a]]
             /\ \A a \in Flash : held'[a] = IF a >= addr /\ a < addr + n THEN None ELSE held[a]
          BY <4>1, <3>1, StoredFilled
        <4> QED
          BY <1>4, <4>2, <2>1
    <2>2. CASE ~atOnce
      <3>1. held' = Stored(held, addr, part)
        BY <1>2, <2>2 DEF part
      <3>2. part \in Seq(Values \cup {None})
        BY <1>6
      <3>3. /\ held' \in [Flash -> Values \cup {None}]
            /\ \A a \in Flash :
                 held'[a] = IF a >= addr /\ a < addr + n THEN part[a - addr + 1] ELSE held[a]
        BY <1>3, <1>4, <1>5, <1>6, <3>1, <3>2, StoredBytes
      <3> QED
        BY <1>5, <1>7, <2>2, <3>3
    <2> QED
      BY <2>1, <2>2
  <1>11. /\ reply'.kind = "ok" \/ Refused'
         /\ ~Refused' => n = Len(data)
    BY <1>2 DEF Reply, OK, Error, Unsupported, Refused
  <1>12. Learned' = Stored(believed, addr, Filled(Unknown, Len(data)))
    BY <1>1, <1>11, Conclusions DEF addr, data
  <1>13. /\ Learned' \in [Addresses -> Values \cup {Unknown}]
         /\ \A a \in Addresses :
              Learned'[a] = IF Covers(a, Len(data)) THEN Unknown ELSE believed[a]
    <2> DEFINE whole == Len(data)
               next  == Learned'
    <2>1. /\ DOMAIN believed = Addresses /\ Addresses \subseteq Int /\ addr \in Int
          /\ whole \in Nat /\ next = Stored(believed, addr, Filled(Unknown, whole))
      BY <1>3, <1>4, <1>5, <1>12
    <2> HIDE DEF whole, next
    <2>2. /\ next = [a \in Addresses |-> next[a]]
          /\ \A a \in Addresses :
               next[a] = IF a >= addr /\ a < addr + whole THEN Unknown ELSE believed[a]
      BY <2>1, StoredFilled
    <2> QED
      BY <1>4, <2>2 DEF whole, next
  <1>14. /\ Loaded' \in [Flash -> Values \cup {Unknown, None}]
         /\ \A a \in Flash :
              Loaded'[a] = IF ~Covers(a, Len(data)) THEN loading[a]
                           ELSE IF Refused' THEN Unknown ELSE data[a - addr + 1]
    <2>1. Loaded' = Stored(loading, addr, IF Refused' THEN Filled(Unknown, Len(data)) ELSE data)
      BY <1>1, Accounts DEF addr, data
    <2>2. CASE Refused'
      <3>1. Loaded' = Stored(loading, addr, Filled(Unknown, Len(data)))
        BY <2>1, <2>2
      <3> QED
        <4> DEFINE whole == Len(data)
                   next  == Loaded'
        <4>1. /\ DOMAIN loading = Flash /\ Flash \subseteq Int /\ addr \in Int
              /\ whole \in Nat /\ next = Stored(loading, addr, Filled(Unknown, whole))
          BY <1>3, <1>4, <1>5, <3>1
        <4> HIDE DEF whole, next
        <4>2. /\ next = [a \in Flash |-> next[a]]
              /\ \A a \in Flash :
                   next[a] = IF a >= addr /\ a < addr + whole THEN Unknown ELSE loading[a]
          BY <4>1, StoredFilled
        <4> QED
          BY <1>4, <4>2, <2>2 DEF whole, next
    <2>3. CASE ~Refused'
      <3>1. Loaded' = Stored(loading, addr, data)
        BY <2>1, <2>3
      <3>2. data \in Seq(Values \cup {Unknown, None})
        BY <1>3
      <3>3. /\ Loaded' \in [Flash -> Values \cup {Unknown, None}]
            /\ \A a \in Flash :
                 Loaded'[a] = IF a >= addr /\ a < addr + Len(data) THEN data[a - addr + 1]
                              ELSE loading[a]
        BY <1>3, <1>4, <1>5, <3>1, <3>2, StoredBytes
      <3> QED
        BY <2>3, <3>3
    <2> QED
      BY <2>2, <2>3
  <1>15. \A a \in Addresses : Covers(a, Len(data)) => a \in Flash
    BY <1>3, <1>5, FlashFirst
  <1>16. \A a \in Int : Covers(a, n) => Covers(a, Len(data))
    BY <1>3, <1>5
  <1> HIDE DEF Covers
  <1>17. Sound(Learned, Loaded)'
    <2>1. \A a \in Addresses : Learned'[a] # Unknown => memory'[a] = Learned'[a]
      BY <1>4, <1>5, <1>9, <1>13, <1>16 DEF Sound
    <2>2. ASSUME NEW a \in Flash
          PROVE  /\ Loaded'[a] # None => Learned'[a] = Unknown
                 /\ Loaded'[a] = None => held'[a] = None
                 /\ Loaded'[a] \in Values =>
                      Loaded'[a] = IF held'[a] # None THEN held'[a] ELSE memory'[a]
      <3>1. a \in Addresses /\ a \in Int
        BY FlashFirst
      <3>2. CASE Covers(a, Len(data))
        <4>1. data[a - addr + 1] \in Values
          BY <1>8, <3>1, <3>2
        <4> QED
          BY <1>9, <1>10, <1>11, <1>13, <1>14, <3>1, <3>2, <4>1, NoSuchByte
      <3>3. CASE ~Covers(a, Len(data))
        <4>1. ~Covers(a, n)
          BY <1>16, <3>1, <3>3
        <4> QED
          BY <1>4, <1>9, <1>10, <1>13, <1>14, <3>1, <3>3, <4>1 DEF Sound
      <3> QED
        BY <3>2, <3>3
    <2> QED
      BY <1>13, <1>14, <2>1, <2>2 DEF Sound
  <1> QED
    BY <1>1, <1>9, <1>10, <1>17, Replies

\* What was loaded and acknowledged becomes known when all of it was written.
LEMMA FinishesLearned ==
  ASSUME IInv, Handle_vFlashDone
  PROVE  IInv'
PROOF
  <1>1. /\ request.kind = "vFlashDone" /\ pc = "handle" /\ pc' = "replied"
        /\ UNCHANGED <<believed, loading, request>>
    BY DEF Handle_vFlashDone, Reply, Fails
  <1>2. /\ memory \in [Addresses -> Values]
        /\ held \in [Flash -> Values \cup {None}]
        /\ believed \in [Addresses -> Values \cup {Unknown}]
        /\ loading \in [Flash -> Values \cup {Unknown, None}]
        /\ Sound(believed, loading)
    BY <1>1 DEF IInv, DataOK, ClientSound, Sound
  <1>3. ASSUME NEW A \in SUBSET Flash
        PROVE  /\ Committed(A) \in [Addresses -> Values]
               /\ \A a \in Addresses :
                    Committed(A)[a] = IF a \in A /\ held[a] # None THEN held[a] ELSE memory[a]
    BY <1>2 DEF Committed
  <1>4. NoneHeld \in [Flash -> Values \cup {None}] /\ \A a \in Flash : NoneHeld[a] = None
    BY DEF NoneHeld
  <1>5. CASE Reply(OK) /\ memory' = Committed(Flash) /\ held' = NoneHeld
    <2>1. reply'.kind = "ok" /\ ~Refused'
      BY <1>5 DEF Reply, OK, Refused
    <2>2. Learned' = [a \in Addresses |-> IF Settled(a) THEN believed[a] ELSE loading[a]]
      BY <1>1, <2>1, Conclusions
    <2>3. Loaded' = NoneHeld
      BY <1>1, <2>1, Accounts
    <2>4. /\ Learned' \in [Addresses -> Values \cup {Unknown}]
          /\ \A a \in Addresses :
               Learned'[a] = IF a \in Flash /\ loading[a] # None THEN loading[a] ELSE believed[a]
      BY <1>2, <2>2 DEF Settled
    <2>5. \A a \in Addresses :
            memory'[a] = IF a \in Flash /\ held[a] # None THEN held[a] ELSE memory[a]
      BY <1>3, <1>5
    <2>6. ASSUME NEW a \in Addresses, Learned'[a] # Unknown PROVE memory'[a] = Learned'[a]
      BY <1>2, <2>4, <2>5, <2>6 DEF Sound
    <2>7. Sound(Learned, Loaded)'
      BY <1>4, <1>5, <2>3, <2>4, <2>6, NoSuchByte DEF Sound
    <2> QED
      BY <1>1, <1>3, <1>4, <1>5, <2>7, Replies
  <1>6. ASSUME Fails, NEW A \in SUBSET Flash, memory' = Committed(A), held' \in {held, NoneHeld}
        PROVE  IInv'
    <2>1. Refused'
      BY <1>6 DEF Fails, Reply, Error, Unsupported, Refused
    <2>2. Learned' = believed
      BY <1>1, <2>1, Conclusions
    <2>3. Loaded' = Lost(Flash)
      BY <1>1, <2>1, Accounts
    <2>4. /\ Loaded' \in [Flash -> Values \cup {Unknown, None}]
          /\ \A a \in Flash : Loaded'[a] = IF loading[a] # None THEN Unknown ELSE None
      BY <1>2, <2>3 DEF Lost, Settled
    <2>5. held' \in [Flash -> Values \cup {None}] /\ \A a \in Flash : held'[a] \in {held[a], None}
      BY <1>2, <1>4, <1>6
    <2>6. \A a \in Addresses :
            memory'[a] = IF a \in A /\ held[a] # None THEN held[a] ELSE memory[a]
      BY <1>3, <1>6
    <2>7. ASSUME NEW a \in Addresses, believed[a] # Unknown PROVE memory'[a] = believed[a]
      BY <1>2, <2>6, <2>7 DEF Sound
    <2>8. Sound(Learned, Loaded)'
      BY <1>2, <2>2, <2>4, <2>5, <2>7, NoSuchByte DEF Sound
    <2> QED
      BY <1>1, <1>3, <1>6, <2>5, <2>8, Replies
  <1> QED
    BY <1>5, <1>6 DEF Handle_vFlashDone

-----------------------------------------------------------------------------
(* The invariant.                                                          *)

LEMMA InvInit == Init => IInv
PROOF
  <1> SUFFICES ASSUME Init PROVE IInv
    OBVIOUS
  <1>1. DataOK
    BY DEF Init, DataOK
  <1>2. Sound(believed, loading)
    BY NoSuchByte DEF Init, Sound
  <1> QED
    BY <1>1, <1>2 DEF Init, IInv, ClientSound

LEMMA InvStep == IInv /\ [Next]_vars => IInv'
PROOF
  <1> SUFFICES ASSUME IInv, [Next]_vars PROVE IInv'
    OBVIOUS
  <1>1. CASE ClientSends
    <2>1. UNCHANGED <<memory, held, believed, loading>> /\ pc = "idle" /\ pc' = "handle"
          /\ request' \in Requests
      BY <1>1 DEF ClientSends, flashAndClient, Requests
    <2> QED
      BY <2>1 DEF IInv, DataOK, ClientSound, Sound
  <1>2. CASE ClientTakesReply
    BY <1>2 DEF ClientTakesReply, IInv, DataOK, ClientSound, Sound
  <1>3. CASE OutOfMemory
    <2>1. /\ pc = "handle" /\ pc' = "replied" /\ reply' = Error
          /\ request.kind \in {"m", "M", "qCRC"}
          /\ UNCHANGED <<memory, held, believed, loading, request>>
      BY <1>3 DEF OutOfMemory, Reply, flashAndClient
    <2>2. CASE request.kind \in {"m", "qCRC"}
      BY <2>1, <2>2, NothingLearned DEF Error
    <2>3. CASE request.kind = "M"
      BY <1>3, <2>3, WritesLearned
    <2> QED
      BY <2>1, <2>2, <2>3
  <1>4. CASE Handle_m
    BY <1>4, ReadsLearned
  <1>5. CASE RejectWrite \/ AnswerProbe \/ WriteSucceeds \/ WriteFails
    BY <1>5, WritesLearned
  <1>6. CASE StartCrc \/ CrcRead
    <2>1. UNCHANGED <<memory, held, believed, loading, request>> /\ pc' = "crc"
          /\ pc \in {"handle", "crc"} /\ request.kind = "qCRC"
      BY <1>6 DEF StartCrc, CrcRead, flashAndClient, IInv, DataOK
    <2> QED
      BY <2>1 DEF IInv, DataOK, ClientSound, Sound
  <1>7. CASE CrcFails \/ CrcDone
    <2>1. /\ UNCHANGED <<memory, held, believed, loading, request>>
          /\ pc = "crc" /\ pc' = "replied" /\ request.kind = "qCRC"
      BY <1>7 DEF CrcFails, CrcDone, Reply, flashAndClient, IInv, DataOK
    <2>2. reply'.kind \in {"error", "unsupported", "crc"}
      BY <1>7 DEF CrcFails, CrcDone, Reply, Error, Unsupported
    <2> QED
      BY <2>1, <2>2, NothingLearned
  <1>8. CASE Handle_vFlashErase \/ Handle_vFlashWrite \/ Handle_vFlashDone
    BY <1>8, ErasesLearned, LoadsLearned, FinishesLearned
  <1>9. CASE UNCHANGED vars
    BY <1>9 DEF vars, IInv, DataOK, ClientSound, Sound, Learned, Loaded, Refused, Settled, Lost
  <1> QED
    BY <1>1, <1>2, <1>3, <1>4, <1>5, <1>6, <1>7, <1>8, <1>9 DEF Next, StubStep

\* The invariant holds in every reachable state.
THEOREM Inductive == Spec => []IInv
PROOF
  <1> QED
    BY InvInit, InvStep, PTL DEF Spec

\* Between two packets, what the client has read, was told it had written or has
\* loaded into FLASH is in the target's memory, whatever the target refuses,
\* cuts short, gives up in the middle or puts off (GDBStub.cpp:114-179, 713-740).
THEOREM BeliefsAreTrue == Spec => []BelievedIsThere
PROOF
  <1>1. IInv => BelievedIsThere
    BY DEF IInv, ClientSound, Sound, BelievedIsThere
  <1> QED
    BY <1>1, Inductive, PTL

-----------------------------------------------------------------------------
(* The checksum.                                                           *)

\* The values of the register, the bytes, and polynomials over the bits.
Registers == SUBSET (0 .. CrcBits - 1)
Bytes == SUBSET (0 .. ByteBits - 1)
Polynomials == SUBSET Int

-----------------------------------------------------------------------------
(* Loops.                                                                  *)

\* Induction over the numbers: the least of those that are missing would have
\* a predecessor that is not.
LEMMA InductionOverNat ==
  ASSUME NEW S, 0 \in S, \A n \in Nat : n \in S => n + 1 \in S
  PROVE  Nat \subseteq S
PROOF
  <1> DEFINE less == OpToRel(<, Nat)
             rest == Nat \ S
  <1>1. SUFFICES ASSUME rest # {} PROVE FALSE
    OBVIOUS
  <1>2. PICK least \in rest : \A n \in rest : <<n, least>> \notin less
    <2>1. IsWellFoundedOn(less, Nat)
      BY NatLessThanWellFounded
    <2>2. rest \subseteq Nat
      OBVIOUS
    <2> HIDE DEF less, rest
    <2> QED
      BY <1>1, <2>1, <2>2, WFMin
  <1>3. less = {ss \in Nat \X Nat : ss[1] < ss[2]}
    BY Zenon DEF OpToRel
  <1>4. least \in Nat /\ least # 0 /\ least \notin S
    OBVIOUS
  <1>5. least - 1 \in Nat /\ least - 1 \notin S
    BY <1>4
  <1>6. <<least - 1, least>> \in {ss \in Nat \X Nat : ss[1] < ss[2]}
    BY <1>4, <1>5
  <1>7. least - 1 \in rest
    BY <1>5
  <1> QED
    BY <1>2, <1>3, <1>6, <1>7

\* The values x and those after each of N steps, which are the values of F.
Loops(D, x, N, F) ==
  {f \in [0 .. N -> D] : f[0] = x /\ \A m \in 1 .. N : f[m] = F[m][f[m - 1]]}

\* There are such values, so a recursive function of this form satisfies its equation.
LEMMA LoopExists ==
  ASSUME NEW D, NEW x \in D, NEW N \in Nat, NEW F \in [1 .. N -> [D -> D]]
  PROVE  Loops(D, x, N, F) # {}
PROOF
  <1> DEFINE S == {n \in Nat : n <= N =>
                     \E f \in [0 .. n -> D] :
                       f[0] = x /\ \A m \in 1 .. n : f[m] = F[m][f[m - 1]]}
  <1>1. 0 \in S
    <2> DEFINE f == [m \in 0 .. 0 |-> x]
    <2>1. f \in [0 .. 0 -> D] /\ f[0] = x /\ \A m \in 1 .. 0 : f[m] = F[m][f[m - 1]]
      OBVIOUS
    <2> HIDE DEF f
    <2> QED
      BY <2>1
  <1>2. ASSUME NEW n \in Nat, n \in S PROVE n + 1 \in S
    <2>1. SUFFICES ASSUME n + 1 <= N
                   PROVE  \E f \in [0 .. n + 1 -> D] :
                            f[0] = x /\ \A m \in 1 .. n + 1 : f[m] = F[m][f[m - 1]]
      OBVIOUS
    <2>2. PICK f \in [0 .. n -> D] : f[0] = x /\ \A m \in 1 .. n : f[m] = F[m][f[m - 1]]
      BY <1>2, <2>1
    <2> DEFINE last == F[n + 1][f[n]]
    <2>3. last \in D
      <3>1. f[n] \in D /\ n + 1 \in 1 .. N
        BY <2>1
      <3> QED
        BY <3>1
    <2> HIDE DEF last
    <2> DEFINE g == [m \in 0 .. n + 1 |-> IF m = n + 1 THEN last ELSE f[m]]
    <2>4. g \in [0 .. n + 1 -> D] /\ g[0] = x
      BY <2>2, <2>3
    <2>5. g[n + 1] = last /\ \A m \in 0 .. n : g[m] = f[m]
      OBVIOUS
    <2> HIDE DEF g
    <2>6. ASSUME NEW m \in 1 .. n + 1 PROVE g[m] = F[m][g[m - 1]]
      <3>1. CASE m = n + 1
        <4>1. m - 1 = n /\ n \in 0 .. n
          BY <3>1
        <4> QED
          BY <2>5, <3>1, <4>1 DEF last
      <3>2. CASE m # n + 1
        <4>1. m \in 1 .. n /\ m \in 0 .. n /\ m - 1 \in 0 .. n
          BY <3>2
        <4> QED
          BY <2>2, <2>5, <4>1, Zenon
      <3> QED
        BY <3>1, <3>2
    <2> QED
      BY <2>4, <2>6
  <1> HIDE DEF S
  <1>3. Nat \subseteq S
    BY <1>1, <1>2, InductionOverNat
  <1>4. N \in S
    BY <1>3
  <1> QED
    BY <1>4 DEF S, Loops

-----------------------------------------------------------------------------
(* Words.                                                                  *)

\* The widths, and that the bytes in memory have theirs.
LEMMA Widths ==
  /\ CrcBits \in Nat /\ ByteBits \in Nat /\ 0 < ByteBits /\ ByteBits <= CrcBits
  /\ Polynomial \subseteq 0 .. CrcBits - 1 /\ Values \subseteq Bytes
  BY MemoryAssumption DEF MemoryAssumption, Bytes

\* The terms of sums and of shifted words.
LEMMA XorBits ==
  ASSUME NEW x, NEW y, NEW i
  PROVE  i \in Xor(x, y) <=> ~(i \in x <=> i \in y)
  BY DEF Xor

LEMMA ShiftLeftBits ==
  ASSUME NEW x \in SUBSET Int, NEW k \in Int, NEW i \in Int
  PROVE  i \in ShiftLeft(x, k) <=> i - k \in x /\ i \in 0 .. CrcBits - 1
PROOF
  <1>1. i \in {j + k : j \in x} <=> i - k \in x
    <2>1. ASSUME NEW j \in x PROVE i = j + k <=> j = i - k
      OBVIOUS
    <2>2. i - k \in x => i = (i - k) + k
      OBVIOUS
    <2> QED
      BY <2>1, <2>2
  <1> QED
    BY <1>1 DEF ShiftLeft

LEMMA ShiftRightBits ==
  ASSUME NEW x \in SUBSET Int, NEW k \in Int, NEW i \in Int
  PROVE  i \in ShiftRight(x, k) <=> i + k \in x /\ i >= 0
PROOF
  <1>1. \A j \in x : (i = j - k <=> j = i + k) /\ (j >= k <=> j - k >= 0)
    OBVIOUS
  <1>2. i + k \in x /\ i >= 0 => i + k \in {j \in x : j >= k} /\ i = (i + k) - k
    BY <1>1
  <1> QED
    BY <1>1, <1>2 DEF ShiftRight

\* What stays in the register.
LEMMA XorClosed ==
  ASSUME NEW x \in Registers, NEW y \in Registers
  PROVE  Xor(x, y) \in Registers
  BY DEF Xor, Registers

LEMMA ShiftLeftClosed ==
  ASSUME NEW x, NEW k
  PROVE  ShiftLeft(x, k) \in Registers
  BY DEF ShiftLeft, Registers

LEMMA ShiftOutClosed ==
  ASSUME NEW x
  PROVE  ShiftOut(x) \in Registers
PROOF
  <1> DEFINE y == ShiftLeft(x, 1)
  <1>1. y \in Registers
    BY ShiftLeftClosed
  <1>2. Polynomial \in Registers
    BY Widths DEF Registers
  <1> HIDE DEF y
  <1>3. Xor(y, Polynomial) \in Registers
    BY <1>1, <1>2, XorClosed
  <1> QED
    BY <1>1, <1>3 DEF ShiftOut, y

\* The register after each bit.
LEMMA ShiftedOutSteps ==
  ASSUME NEW x \in Registers, NEW k \in Nat
  PROVE  \E f \in [0 .. k -> Registers] :
           /\ f[0] = x
           /\ \A n \in 1 .. k : f[n] = ShiftOut(f[n - 1])
           /\ ShiftedOut(x, k) = f[k]
PROOF
  <1> DEFINE F == [n \in 1 .. k |-> [y \in Registers |-> ShiftOut(y)]]
  <1>1. F \in [1 .. k -> [Registers -> Registers]]
    BY ShiftOutClosed
  <1>2. \A y \in Registers, n \in 1 .. k : F[n][y] = ShiftOut(y)
    OBVIOUS
  <1> HIDE DEF F
  <1>3. PICK f \in [0 .. k -> Registers] : f[0] = x /\ \A n \in 1 .. k : f[n] = F[n][f[n - 1]]
    <2>1. Loops(Registers, x, k, F) # {}
      BY <1>1, LoopExists
    <2> QED
      BY <2>1 DEF Loops
  <1>4. f = [n \in 0 .. k |-> IF n = 0 THEN x ELSE ShiftOut(f[n - 1])]
    <2>1. \A n \in 0 .. k : n # 0 => n \in 1 .. k /\ f[n - 1] \in Registers
      OBVIOUS
    <2>2. \A n \in 0 .. k : f[n] = IF n = 0 THEN x ELSE ShiftOut(f[n - 1])
      BY <1>2, <1>3, <2>1, Zenon
    <2> QED
      BY <2>2
  <1> DEFINE after[n \in 0 .. k] == IF n = 0 THEN x ELSE ShiftOut(after[n - 1])
  <1>5. after = [n \in 0 .. k |-> IF n = 0 THEN x ELSE ShiftOut(after[n - 1])]
    BY <1>4, Zenon
  <1>6. ShiftedOut(x, k) = after[k]
    BY DEF ShiftedOut
  <1> HIDE DEF after
  <1>7. \A n \in 0 .. k : after[n] = IF n = 0 THEN x ELSE ShiftOut(after[n - 1])
    BY <1>5, Zenon
  <1> DEFINE S == {n \in Nat : n <= k => after[n] \in Registers}
  <1>8. 0 \in S
    BY <1>7
  <1>9. ASSUME NEW n \in Nat, n \in S PROVE n + 1 \in S
    <2>1. SUFFICES ASSUME n + 1 <= k PROVE after[n + 1] \in Registers
      OBVIOUS
    <2>2. n + 1 \in 0 .. k /\ n + 1 # 0 /\ (n + 1) - 1 = n /\ after[n] \in Registers
      BY <1>9, <2>1
    <2>3. after[n + 1] = ShiftOut(after[n])
      BY <1>7, <2>2
    <2> QED
      BY <2>2, <2>3, ShiftOutClosed
  <1>10. Nat \subseteq S
    <2> HIDE DEF S
    <2> QED
      BY <1>8, <1>9, InductionOverNat
  <1>11. after \in [0 .. k -> Registers]
    BY <1>5, <1>10
  <1>12. after[0] = x
    BY <1>7
  <1>13. \A n \in 1 .. k : after[n] = ShiftOut(after[n - 1])
    BY <1>7
  <1> QED
    BY <1>6, <1>11, <1>12, <1>13
\* A byte's way through the register.
LEMMA HeadIsByte ==
  ASSUME NEW x \in Registers, NEW byte \in Bytes
  PROVE  Xor(ShiftRight(x, CrcBits - ByteBits), byte) \in Bytes
PROOF
  <1> DEFINE y == ShiftRight(x, CrcBits - ByteBits)
  <1>1. \A j \in x : j \in Int /\ (j >= CrcBits - ByteBits => j - (CrcBits - ByteBits) \in 0 .. ByteBits - 1)
    BY Widths DEF Registers
  <1>2. y \in Bytes
    BY <1>1 DEF ShiftRight, Bytes
  <1> HIDE DEF y
  <1> QED
    BY <1>2 DEF Xor, Bytes, y

\* The table has an entry for each byte.
LEMMA TableEntry ==
  ASSUME NEW byte \in Bytes
  PROVE  /\ s_CRC32Table[byte] = ShiftedOut(ShiftLeft(byte, CrcBits - ByteBits), ByteBits)
         /\ s_CRC32Table[byte] \in Registers
PROOF
  <1> DEFINE x == ShiftLeft(byte, CrcBits - ByteBits)
  <1>1. x \in Registers /\ ByteBits \in Nat
    BY ShiftLeftClosed, Widths
  <1>2. s_CRC32Table[byte] = ShiftedOut(x, ByteBits)
    BY DEF s_CRC32Table, Bytes
  <1> HIDE DEF x
  <1>3. ShiftedOut(x, ByteBits) \in Registers
    <2>1. PICK f \in [0 .. ByteBits -> Registers] : ShiftedOut(x, ByteBits) = f[ByteBits]
      BY <1>1, ShiftedOutSteps
    <2> QED
      BY <1>1, <2>1
  <1> QED
    BY <1>2, <1>3 DEF x

\* A byte leaves a word in the register.
LEMMA NextCrcClosed ==
  ASSUME NEW x \in Registers, NEW byte \in Bytes
  PROVE  NextCrc(x, byte) \in Registers
PROOF
  <1> DEFINE shifted == ShiftLeft(x, ByteBits)
             entry   == s_CRC32Table[Xor(ShiftRight(x, CrcBits - ByteBits), byte)]
  <1>1. shifted \in Registers /\ entry \in Registers
    BY ShiftLeftClosed, HeadIsByte, TableEntry
  <1>2. NextCrc(x, byte) = Xor(shifted, entry)
    BY DEF NextCrc
  <1> HIDE DEF shifted, entry
  <1> QED
    BY <1>1, <1>2, XorClosed

\* The register after each byte.
LEMMA CRC32Steps ==
  ASSUME NEW initial \in Registers, NEW data \in Seq(Bytes)
  PROVE  \E f \in [0 .. Len(data) -> Registers] :
           /\ f[0] = initial
           /\ \A n \in 1 .. Len(data) : f[n] = NextCrc(f[n - 1], data[n])
           /\ CRC32(initial, data) = f[Len(data)]
PROOF
  <1>0. Len(data) \in Nat /\ \A n \in 1 .. Len(data) : data[n] \in Bytes
    OBVIOUS
  <1> DEFINE F == [n \in 1 .. Len(data) |-> [y \in Registers |-> NextCrc(y, data[n])]]
  <1>1. F \in [1 .. Len(data) -> [Registers -> Registers]]
    BY <1>0, NextCrcClosed
  <1>2. \A y \in Registers, n \in 1 .. Len(data) : F[n][y] = NextCrc(y, data[n])
    OBVIOUS
  <1> HIDE DEF F
  <1>3. PICK f \in [0 .. Len(data) -> Registers] : f[0] = initial /\ \A n \in 1 .. Len(data) : f[n] = F[n][f[n - 1]]
    <2>1. Loops(Registers, initial, Len(data), F) # {}
      BY <1>0, <1>1, LoopExists
    <2> QED
      BY <2>1 DEF Loops
  <1>4. f = [n \in 0 .. Len(data) |-> IF n = 0 THEN initial ELSE NextCrc(f[n - 1], data[n])]
    <2>1. \A n \in 0 .. Len(data) : n # 0 => n \in 1 .. Len(data) /\ f[n - 1] \in Registers
      OBVIOUS
    <2>2. \A n \in 0 .. Len(data) : f[n] = IF n = 0 THEN initial ELSE NextCrc(f[n - 1], data[n])
      BY <1>2, <1>3, <2>1, Zenon
    <2> QED
      BY <2>2
  <1> DEFINE after[n \in 0 .. Len(data)] == IF n = 0 THEN initial ELSE NextCrc(after[n - 1], data[n])
  <1>5. after = [n \in 0 .. Len(data) |-> IF n = 0 THEN initial ELSE NextCrc(after[n - 1], data[n])]
    BY <1>4, Zenon
  <1>6. CRC32(initial, data) = after[Len(data)]
    BY DEF CRC32
  <1> HIDE DEF after
  <1>7. \A n \in 0 .. Len(data) : after[n] = IF n = 0 THEN initial ELSE NextCrc(after[n - 1], data[n])
    BY <1>5, Zenon
  <1> DEFINE S == {n \in Nat : n <= Len(data) => after[n] \in Registers}
  <1>8. 0 \in S
    BY <1>0, <1>7
  <1>9. ASSUME NEW n \in Nat, n \in S PROVE n + 1 \in S
    <2>1. SUFFICES ASSUME n + 1 <= Len(data) PROVE after[n + 1] \in Registers
      OBVIOUS
    <2>2. n + 1 \in 0 .. Len(data) /\ n + 1 # 0 /\ (n + 1) - 1 = n /\ after[n] \in Registers
      BY <1>0, <1>9, <2>1
    <2>3. after[n + 1] = NextCrc(after[n], data[n + 1])
      BY <1>7, <2>2
    <2> QED
      BY <1>0, <2>1, <2>2, <2>3, NextCrcClosed
  <1>10. Nat \subseteq S
    <2> HIDE DEF S
    <2> QED
      BY <1>8, <1>9, InductionOverNat
  <1>11. after \in [0 .. Len(data) -> Registers]
    BY <1>5, <1>10
  <1>12. after[0] = initial
    BY <1>0, <1>7
  <1>13. \A n \in 1 .. Len(data) : after[n] = NextCrc(after[n - 1], data[n])
    BY <1>7
  <1> QED
    BY <1>6, <1>11, <1>12, <1>13
-----------------------------------------------------------------------------
(* Long division.                                                          *)

\* Division leaves a polynomial.
LEMMA DivideClosed ==
  ASSUME NEW x \in Polynomials, NEW e \in Int
  PROVE  Divide(x, e) \in Polynomials
PROOF
  <1>1. {i + (e - CrcBits) : i \in Polynomial \cup {CrcBits}} \in Polynomials
    <2>1. \A i \in Polynomial \cup {CrcBits} : i + (e - CrcBits) \in Int
      BY Widths
    <2> QED
      BY <2>1 DEF Polynomials
  <1> QED
    BY <1>1 DEF Divide, Xor, Polynomials

\* The places of a message's terms.
LEMMA CoefficientBits ==
  ASSUME NEW data \in Seq(Bytes)
  PROVE  \A k \in DOMAIN data :
           {(Len(data) - k) * ByteBits + CrcBits + j : j \in data[k]} \subseteq Int
PROOF
  <1> SUFFICES ASSUME NEW k \in DOMAIN data, NEW j \in data[k]
               PROVE  (Len(data) - k) * ByteBits + CrcBits + j \in Int
    OBVIOUS
  <1>1. k \in Int /\ Len(data) \in Nat /\ data[k] \in Bytes
    OBVIOUS
  <1>2. j \in Int /\ ByteBits \in Int /\ CrcBits \in Int
    BY <1>1, Widths DEF Bytes
  <1>3. (Len(data) - k) * ByteBits \in Int
    BY <1>1, <1>2
  <1> QED
    BY <1>2, <1>3

\* What is left after each step of the division.
LEMMA RemainderSteps ==
  ASSUME NEW data \in Seq(Bytes)
  PROVE  LET k == Len(data) * ByteBits
         IN  \E f \in [0 .. k -> Polynomials] :
               /\ f[0] = Xor(Coefficients(data), {i + k : i \in AllOnes})
               /\ \A n \in 1 .. k : f[n] = Divide(f[n - 1], k + CrcBits - n)
               /\ Remainder(data) = f[k]
PROOF
  <1> DEFINE k == Len(data) * ByteBits
             x == Xor(Coefficients(data), {i + k : i \in AllOnes})
  <1>0. k \in Nat /\ CrcBits \in Nat /\ x \in Polynomials
    <2>1. k \in Nat
      <3>1. Len(data) \in Nat /\ ByteBits \in Nat
        BY Widths
      <3> QED
        BY <3>1
    <2>2. Coefficients(data) \in Polynomials
      BY CoefficientBits DEF Coefficients, Polynomials
    <2>3. {i + k : i \in AllOnes} \in Polynomials
      BY <2>1, Widths DEF AllOnes, Polynomials
    <2> QED
      BY <2>1, <2>2, <2>3, Widths DEF Xor, Polynomials
  <1>00. Remainder(data) = LET after[n \in 0 .. k] == IF n = 0 THEN x ELSE Divide(after[n - 1], k + CrcBits - n) IN after[k]
    BY DEF Remainder
  <1> HIDE DEF k, x
  <1> DEFINE F == [n \in 1 .. k |-> [y \in Polynomials |-> Divide(y, k + CrcBits - n)]]
  <1>1. F \in [1 .. k -> [Polynomials -> Polynomials]]
    BY <1>0, DivideClosed
  <1>2. \A y \in Polynomials, n \in 1 .. k : F[n][y] = Divide(y, k + CrcBits - n)
    OBVIOUS
  <1> HIDE DEF F
  <1>3. PICK f \in [0 .. k -> Polynomials] : f[0] = x /\ \A n \in 1 .. k : f[n] = F[n][f[n - 1]]
    <2>1. Loops(Polynomials, x, k, F) # {}
      BY <1>0, <1>1, LoopExists
    <2> QED
      BY <2>1 DEF Loops
  <1>4. f = [n \in 0 .. k |-> IF n = 0 THEN x ELSE Divide(f[n - 1], k + CrcBits - n)]
    <2>1. \A n \in 0 .. k : n # 0 => n \in 1 .. k /\ f[n - 1] \in Polynomials
      BY <1>0
    <2>2. \A n \in 0 .. k : f[n] = IF n = 0 THEN x ELSE Divide(f[n - 1], k + CrcBits - n)
      BY <1>2, <1>3, <2>1
    <2> QED
      BY <2>2
  <1> DEFINE after[n \in 0 .. k] == IF n = 0 THEN x ELSE Divide(after[n - 1], k + CrcBits - n)
  <1>5. after = [n \in 0 .. k |-> IF n = 0 THEN x ELSE Divide(after[n - 1], k + CrcBits - n)]
    BY <1>4, Zenon
  <1>6. Remainder(data) = after[k]
    BY <1>00
  <1> HIDE DEF after
  <1>7. \A n \in 0 .. k : after[n] = IF n = 0 THEN x ELSE Divide(after[n - 1], k + CrcBits - n)
    BY <1>5, Zenon
  <1> DEFINE S == {n \in Nat : n <= k => after[n] \in Polynomials}
  <1>8. 0 \in S
    BY <1>0, <1>7
  <1>9. ASSUME NEW n \in Nat, n \in S PROVE n + 1 \in S
    <2>1. SUFFICES ASSUME n + 1 <= k PROVE after[n + 1] \in Polynomials
      OBVIOUS
    <2>2. n + 1 \in 0 .. k /\ n + 1 # 0 /\ (n + 1) - 1 = n /\ after[n] \in Polynomials
      BY <1>0, <1>9, <2>1
    <2>3. after[n + 1] = Divide(after[n], k + CrcBits - (n + 1))
      BY <1>7, <2>2
    <2> QED
      BY <1>0, <2>1, <2>2, <2>3, DivideClosed
  <1>10. Nat \subseteq S
    <2> HIDE DEF S
    <2> QED
      BY <1>8, <1>9, InductionOverNat
  <1>11. after \in [0 .. k -> Polynomials]
    BY <1>5, <1>10
  <1>12. after[0] = x
    BY <1>0, <1>7
  <1>13. \A n \in 1 .. k : after[n] = Divide(after[n - 1], k + CrcBits - n)
    BY <1>7
  <1> QED
    BY <1>6, <1>11, <1>12, <1>13 DEF k, x

-----------------------------------------------------------------------------
(* A step of the division is a step of the register.                       *)

\* In the register, the term that leaves at the head is replaced by Polynomial.
LEMMA ShiftOutBits ==
  ASSUME NEW x \in Registers, NEW i \in Int
  PROVE  i \in ShiftOut(x) <=>
           ~((i - 1 \in x /\ i \in 0 .. CrcBits - 1) <=> (CrcBits - 1 \in x /\ i \in Polynomial))
PROOF
  <1> DEFINE y == ShiftLeft(x, 1)
  <1>1. x \in SUBSET Int
    BY Widths DEF Registers
  <1>2. i \in y <=> i - 1 \in x /\ i \in 0 .. CrcBits - 1
    BY <1>1, ShiftLeftBits
  <1> HIDE DEF y
  <1>3. i \in Xor(y, Polynomial) <=> ~(i \in y <=> i \in Polynomial)
    BY XorBits
  <1> QED
    BY <1>2, <1>3 DEF ShiftOut, y

\* In the division, its multiple is taken away.
LEMMA DivideBits ==
  ASSUME NEW x \in Polynomials, NEW e \in Int, NEW i \in Int
  PROVE  i \in Divide(x, e) <=>
           ~(i \in x <=> (e \in x /\ (i - (e - CrcBits) \in Polynomial \/ i = e)))
PROOF
  <1> DEFINE y == {j + (e - CrcBits) : j \in Polynomial \cup {CrcBits}}
  <1>1. i \in y <=> (i - (e - CrcBits) \in Polynomial \/ i = e)
    <2>1. \A j \in Polynomial \cup {CrcBits} : j \in Int /\ (i = j + (e - CrcBits) <=> j = i - (e - CrcBits))
      BY Widths
    <2>2. i = e <=> i - (e - CrcBits) = CrcBits
      BY Widths
    <2> QED
      BY <2>1, <2>2
  <1>2. Divide(x, e) = IF e \in x THEN Xor(x, y) ELSE x
    BY DEF Divide
  <1> HIDE DEF y
  <1>3. i \in Xor(x, y) <=> ~(i \in x <=> i \in y)
    BY XorBits
  <1> QED
    BY <1>1, <1>2, <1>3

\* P is the sum of x, moved to place d, and q.
IsSum(P, x, d, q) == \A i \in Int : i \in P <=> ~(i - d \in x <=> i \in q)

\* One step of the division shifts one bit out of the part t, as long as the
\* rest q has no term in this place.
LEMMA BitDivided ==
  ASSUME NEW t \in Registers, NEW d \in Int, NEW P \in Polynomials, NEW q \in Polynomials,
         IsSum(P, t, d + 1, q), d + CrcBits \notin q
  PROVE  IsSum(Divide(P, d + CrcBits), ShiftOut(t), d, q)
PROOF
  <1> SUFFICES \A i \in Int : i \in Divide(P, d + CrcBits) <=> ~(i - d \in ShiftOut(t) <=> i \in q)
    BY DEF IsSum
  <1> TAKE i \in Int
  <1> DEFINE e == d + CrcBits
             u == i - d
  <1>1. e \in Int /\ u \in Int /\ CrcBits \in Nat /\ e - CrcBits = d /\ (i = e <=> u = CrcBits)
        /\ i - (d + 1) = u - 1 /\ e - (d + 1) = CrcBits - 1
    BY Widths
  <1>2. i \in Divide(P, e) <=> ~(i \in P <=> (e \in P /\ (i - (e - CrcBits) \in Polynomial \/ i = e)))
    BY <1>1, DivideBits
  <1>3. e \in P <=> CrcBits - 1 \in t
    BY <1>1 DEF IsSum
  <1>4. i \in P <=> ~(u - 1 \in t <=> i \in q)
    BY <1>1 DEF IsSum
  <1>5. u \in ShiftOut(t) <=>
          ~((u - 1 \in t /\ u \in 0 .. CrcBits - 1) <=> (CrcBits - 1 \in t /\ u \in Polynomial))
    BY <1>1, ShiftOutBits
  <1>6. u - 1 \in t => (u \in 0 .. CrcBits - 1 \/ u = CrcBits)
    BY <1>1 DEF Registers
  <1>7. u = CrcBits => u \notin Polynomial /\ (u - 1 \in t <=> CrcBits - 1 \in t) /\ u \notin 0 .. CrcBits - 1
    BY <1>1, Widths
  <1> HIDE DEF e, u
  <1>8. i \in Divide(P, e) <=> ~(i \in P <=> (CrcBits - 1 \in t /\ (u \in Polynomial \/ u = CrcBits)))
    BY <1>1, <1>2, <1>3 DEF u
  <1>9. i \in Divide(P, e) <=> ~(u \in ShiftOut(t) <=> i \in q)
    BY <1>4, <1>5, <1>6, <1>7, <1>8
  <1> QED
    BY <1>9 DEF e, u

\* What does not fit into the register.
LEMMA BeyondRegister ==
  ASSUME NEW w \in Int, w >= 0
  PROVE  w >= CrcBits <=> w \notin 0 .. CrcBits - 1
PROOF
  <1>1. CrcBits \in Int
    BY Widths
  <1> QED
    BY <1>1

\* All the steps for one byte turn the register r, at place s + ByteBits, into
\* NextCrc of it at place s.
LEMMA ByteDivided ==
  ASSUME NEW r \in Registers, NEW byte \in Bytes, NEW s \in Int, NEW q \in Polynomials,
         \A i \in Int : i \in q => i < s + CrcBits,
         NEW p \in [0 .. ByteBits -> Polynomials],
         \A i \in Int : i \in p[0] <=>
           ~(i - (s + ByteBits) \in r <=> (i - (s + CrcBits) \in byte \/ i \in q)),
         \A j \in 1 .. ByteBits : p[j] = Divide(p[j - 1], s + ByteBits + CrcBits - j)
  PROVE  IsSum(p[ByteBits], NextCrc(r, byte), s, q)
PROOF
  <1> DEFINE head == Xor(ShiftRight(r, CrcBits - ByteBits), byte)
             x    == ShiftLeft(head, CrcBits - ByteBits)
             tail == ShiftLeft(r, ByteBits)
             Q    == {i \in Int : ~(i - s \in tail <=> i \in q)}
  <1>0. /\ ByteBits \in Nat /\ CrcBits \in Nat /\ ByteBits > 0 /\ CrcBits >= ByteBits
        /\ CrcBits - ByteBits \in Int
    BY Widths
  <1>1. r \in SUBSET Int /\ byte \in SUBSET Int /\ head \in Bytes /\ head \in SUBSET Int
    <2>1. head \in Bytes
      BY HeadIsByte
    <2>2. Registers \subseteq SUBSET Int /\ Bytes \subseteq SUBSET Int
      BY <1>0 DEF Registers, Bytes
    <2> HIDE DEF head
    <2> QED
      BY <2>1, <2>2
  <1>2. x \in Registers /\ tail \in Registers
    BY ShiftLeftClosed
  <1>3. PICK t \in [0 .. ByteBits -> Registers] :
          /\ t[0] = x
          /\ \A n \in 1 .. ByteBits : t[n] = ShiftOut(t[n - 1])
          /\ ShiftedOut(x, ByteBits) = t[ByteBits]
    BY <1>0, <1>2, ShiftedOutSteps
  <1>4. \A i \in Int : NextCrc(r, byte) = Xor(tail, t[ByteBits])
    BY <1>1, <1>3, TableEntry DEF NextCrc
  <1>5. \A i \in Int : i \in head <=> ~((i + (CrcBits - ByteBits) \in r /\ i >= 0) <=> i \in byte)
    <2> TAKE i \in Int
    <2> DEFINE y == ShiftRight(r, CrcBits - ByteBits)
    <2>1. i \in y <=> i + (CrcBits - ByteBits) \in r /\ i >= 0
      BY <1>0, <1>1, ShiftRightBits
    <2> HIDE DEF y
    <2>2. i \in Xor(y, byte) <=> ~(i \in y <=> i \in byte)
      BY XorBits
    <2> QED
      BY <2>1, <2>2 DEF y
  <1> HIDE DEF head
  <1>6. \A i \in Int : i \in x <=> i - (CrcBits - ByteBits) \in head
    <2> TAKE i \in Int
    <2>1. i \in x <=> i - (CrcBits - ByteBits) \in head /\ i \in 0 .. CrcBits - 1
      <3>1. head \in SUBSET Int /\ CrcBits - ByteBits \in Int
        BY <1>0, <1>1
      <3> QED
        BY <3>1, ShiftLeftBits
    <2>2. i - (CrcBits - ByteBits) \in head => i \in 0 .. CrcBits - 1
      <3>1. \A j \in head : j \in 0 .. ByteBits - 1
        BY <1>1 DEF Bytes
      <3> QED
        BY <1>0, <3>1
    <2> QED
      BY <2>1, <2>2
  <1>7. \A v \in Int : v + ByteBits \in tail <=> v \in r /\ v + ByteBits \in 0 .. CrcBits - 1
    <2> TAKE v \in Int
    <2>1. r \in SUBSET Int /\ ByteBits \in Int /\ v + ByteBits \in Int
      BY <1>0, <1>1
    <2>2. (v + ByteBits) - ByteBits = v
      BY <1>0
    <2>3. \A i \in Int : i \in tail <=> i - ByteBits \in r /\ i \in 0 .. CrcBits - 1
      BY <2>1, ShiftLeftBits
    <2> HIDE DEF tail
    <2>4. v + ByteBits \in tail <=> (v + ByteBits) - ByteBits \in r /\ v + ByteBits \in 0 .. CrcBits - 1
      BY <2>1, <2>3
    <2> QED
      BY <2>2, <2>4
  <1> HIDE DEF x, tail
  <1>8. \A i \in Int : i \in p[0] <=> ~(i - (s + ByteBits) \in x <=> i \in Q)
    <2> TAKE i \in Int
    <2> DEFINE v == i - (s + ByteBits)
    <2>1. v \in Int /\ i - s = v + ByteBits /\ i - (s + CrcBits) = v - (CrcBits - ByteBits)
          /\ v - (CrcBits - ByteBits) \in Int /\ v + ByteBits \in Int
      BY <1>0
    <2>2. v \in x <=> ~((v \in r /\ v - (CrcBits - ByteBits) >= 0) <=> v - (CrcBits - ByteBits) \in byte)
      <3>1. v - (CrcBits - ByteBits) + (CrcBits - ByteBits) = v
        BY <1>0, <2>1
      <3> HIDE DEF v
      <3> QED
        BY <1>5, <1>6, <2>1, <3>1
    <2>3. i - s \in tail <=> v \in r /\ v + ByteBits \in 0 .. CrcBits - 1
      <3> HIDE DEF v
      <3>2. v \in Int
        BY <2>1
      <3>3. i - s = v + ByteBits
        BY <2>1
      <3>4. v + ByteBits \in tail <=> v \in r /\ v + ByteBits \in 0 .. CrcBits - 1
        BY <1>7, <3>2, Zenon
      <3> QED
        BY <3>3, <3>4, Zenon
    <2>4. v \in r => (v - (CrcBits - ByteBits) >= 0 <=> v + ByteBits \notin 0 .. CrcBits - 1)
      <3>1. \A j \in r : j \in 0 .. CrcBits - 1
        BY DEF Registers
      <3> HIDE DEF v
      <3>2. v \in r => v \in 0 .. CrcBits - 1
        BY <3>1, Zenon
      <3>3. v \in 0 .. CrcBits - 1 => (v - (CrcBits - ByteBits) >= 0 <=> v + ByteBits >= CrcBits)
        BY <1>0
      <3>4. v \in 0 .. CrcBits - 1 => (v + ByteBits >= CrcBits <=> v + ByteBits \notin 0 .. CrcBits - 1)
        <4>1. ASSUME NEW w \in Int, w >= 0 PROVE w >= CrcBits <=> w \notin 0 .. CrcBits - 1
          BY <4>1, BeyondRegister
        <4>2. v \in 0 .. CrcBits - 1 => v + ByteBits \in Int /\ v + ByteBits >= 0
          BY <1>0
        <4> QED
          BY <4>1, <4>2, Zenon
      <3> QED
        BY <3>2, <3>3, <3>4, Zenon
    <2>5. i \in Q <=> ~(i - s \in tail <=> i \in q)
      OBVIOUS
    <2>6. v - (CrcBits - ByteBits) \in byte => i \notin q
      <3>1. v - (CrcBits - ByteBits) \in byte => v - (CrcBits - ByteBits) >= 0
        <4>1. \A j \in byte : j \in 0 .. ByteBits - 1
          BY DEF Bytes
        <4> HIDE DEF v
        <4> QED
          BY <1>0, <2>1, <4>1
      <3>2. i \in q => v - (CrcBits - ByteBits) < 0
        BY <1>0
      <3> QED
        BY <1>0, <2>1, <3>1, <3>2
    <2>7. i \in p[0] <=> ~(v \in r <=> (v - (CrcBits - ByteBits) \in byte \/ i \in q))
      BY <2>1
    <2> HIDE DEF v, Q
    <2>8. i \in p[0] <=> ~(v \in x <=> i \in Q)
      BY <2>2, <2>3, <2>4, <2>5, <2>6, <2>7
    <2> QED
      BY <2>8 DEF v
  <1>9. \A i \in Int : i \in Q => i < s + CrcBits
    <2> TAKE i \in Int
    <2>1. i - s \in tail => i - s < CrcBits
      <3>1. \A j \in tail : j \in 0 .. CrcBits - 1
        BY <1>2 DEF Registers
      <3> QED
        BY <1>0, <3>1
    <2>2. i \in Q => i - s \in tail \/ i \in q
      OBVIOUS
    <2>3. i - s < CrcBits => i < s + CrcBits
      BY <1>0
    <2> QED
      BY <2>1, <2>2, <2>3
  <1>Q. Q \in Polynomials
    BY DEF Polynomials
  <1> HIDE DEF Q
  <1> DEFINE S == {j \in Nat : j <= ByteBits => IsSum(p[j], t[j], s + ByteBits - j, Q)}
  <1>10. 0 \in S
    <2>1. s + ByteBits - 0 = s + ByteBits
      BY <1>0
    <2>2. IsSum(p[0], t[0], s + ByteBits, Q)
      BY <1>3, <1>8 DEF IsSum
    <2> QED
      BY <2>1, <2>2
  <1>11. ASSUME NEW j \in Nat, j \in S PROVE j + 1 \in S
    <2>1. SUFFICES ASSUME j + 1 <= ByteBits
                   PROVE  IsSum(p[j + 1], t[j + 1], s + ByteBits - (j + 1), Q)
      OBVIOUS
    <2> DEFINE d == s + ByteBits - (j + 1)
    <2>2. /\ d \in Int /\ d + 1 = s + ByteBits - j /\ d >= s
          /\ s + ByteBits + CrcBits - (j + 1) = d + CrcBits
          /\ j + 1 \in 1 .. ByteBits /\ (j + 1) - 1 = j /\ j \in 0 .. ByteBits
      BY <1>0, <2>1
    <2>3. t[j] \in Registers /\ p[j] \in Polynomials
      BY <2>2
    <2>4. t[j + 1] = ShiftOut(t[j]) /\ p[j + 1] = Divide(p[j], d + CrcBits)
      <3>1. t[j + 1] = ShiftOut(t[j + 1 - 1])
        BY <1>3, <2>2
      <3>2. p[j + 1] = Divide(p[j + 1 - 1], s + ByteBits + CrcBits - (j + 1))
        BY <2>2
      <3> HIDE DEF d
      <3> QED
        BY <2>2, <3>1, <3>2
    <2>5. IsSum(p[j], t[j], d + 1, Q)
      <3>1. j <= ByteBits
        BY <1>0, <2>1
      <3>2. IsSum(p[j], t[j], s + ByteBits - j, Q)
        BY <1>11, <3>1
      <3> HIDE DEF d
      <3> QED
        BY <2>2, <3>2
    <2>6. d + CrcBits \notin Q
      <3>1. d + CrcBits \in Int /\ ~(d + CrcBits < s + CrcBits)
        BY <1>0, <2>2
      <3> HIDE DEF d
      <3> QED
        BY <1>9, <3>1
    <2> HIDE DEF d, S
    <2>7. IsSum(Divide(p[j], d + CrcBits), ShiftOut(t[j]), d, Q)
      BY <1>Q, <2>2, <2>3, <2>5, <2>6, BitDivided
    <2>8. IsSum(p[j + 1], t[j + 1], d, Q)
      BY <2>4, <2>7
    <2> QED
      BY <2>8 DEF d
  <1>12. ByteBits \in S
    <2> HIDE DEF S
    <2>1. Nat \subseteq S
      BY <1>10, <1>11, InductionOverNat
    <2> QED
      BY <1>0, <2>1
  <1> SUFFICES ASSUME NEW i \in Int
               PROVE  i \in p[ByteBits] <=> ~(i - s \in NextCrc(r, byte) <=> i \in q)
    BY DEF IsSum
  <1>13. i \in p[ByteBits] <=> ~(i - s \in t[ByteBits] <=> i \in Q)
    <2>1. s + ByteBits - ByteBits = s
      BY <1>0
    <2> QED
      <3>1. IsSum(p[ByteBits], t[ByteBits], s + ByteBits - ByteBits, Q)
        BY <1>0, <1>12
      <3>2. IsSum(p[ByteBits], t[ByteBits], s, Q)
        BY <2>1, <3>1, Zenon
      <3> QED
        BY <3>2 DEF IsSum
  <1>14. i - s \in NextCrc(r, byte) <=> ~(i - s \in tail <=> i - s \in t[ByteBits])
    BY <1>4, XorBits
  <1>15. i \in Q <=> ~(i - s \in tail <=> i \in q)
    BY DEF Q
  <1> QED
    BY <1>13, <1>14, <1>15

-----------------------------------------------------------------------------
(* The checksum of a message.                                              *)

\* Where the register is after m bytes, and the terms of the bytes to come.
Place(data, m) == (Len(data) - m) * ByteBits

Terms(data, m) ==
  UNION {{Place(data, k) + CrcBits + j : j \in data[k]} : k \in m + 1 .. Len(data)}

\* Each byte moves the register by ByteBits places, down to 0.
LEMMA Places ==
  ASSUME NEW data \in Seq(Bytes)
  PROVE  /\ \A m \in Int : Place(data, m) \in Int /\ Place(data, m) = Place(data, m + 1) + ByteBits
         /\ \A m \in Int : Len(data) * ByteBits - m * ByteBits = Place(data, m)
         /\ \A m \in Nat : m * ByteBits \in Nat
         /\ Place(data, Len(data)) = 0
         /\ Len(data) * ByteBits \in Nat
         /\ \A m \in 0 .. Len(data), k \in 0 .. Len(data) :
              m < k => Place(data, k) + ByteBits <= Place(data, m)
PROOF
  <1> DEFINE n == Len(data)
  <1>1. n \in Nat /\ ByteBits \in Nat
    BY Widths
  <1> HIDE DEF n
  <1> USE DEF Place
  <1>2. \A a \in Int, b \in Int : a * b \in Int
    OBVIOUS
  <1>3. \A a \in Nat, b \in Nat : a * b \in Nat
    OBVIOUS
  <1>4. ASSUME NEW m \in Int
        PROVE  /\ (n - m) * ByteBits \in Int
               /\ (n - m) * ByteBits = (n - (m + 1)) * ByteBits + ByteBits
               /\ n * ByteBits - m * ByteBits = (n - m) * ByteBits
    BY <1>1
  <1>5. (n - n) * ByteBits = 0
    BY <1>1
  <1>6. ASSUME NEW m \in 0 .. n, NEW k \in 0 .. n, m < k
        PROVE  (n - k) * ByteBits + ByteBits <= (n - m) * ByteBits
    <2>1. k - m - 1 \in Nat
      BY <1>1, <1>6
    <2>2. (k - m - 1) * ByteBits >= 0
      BY <1>1, <2>1
    <2>3. (n - m) * ByteBits - (n - k) * ByteBits - ByteBits = (k - m - 1) * ByteBits
      BY <1>1
    <2>4. (n - k) * ByteBits \in Int /\ (n - m) * ByteBits \in Int
      BY <1>1
    <2> QED
      BY <1>1, <2>2, <2>3, <2>4
  <1> QED
    BY <1>1, <1>2, <1>3, <1>4, <1>5, <1>6 DEF n

\* Which terms those are,
LEMMA TermsBits ==
  ASSUME NEW data \in Seq(Bytes), NEW m \in Nat, NEW i \in Int
  PROVE  i \in Terms(data, m) <=>
           \E k \in m + 1 .. Len(data) : i - (Place(data, k) + CrcBits) \in data[k]
PROOF
  <1>1. ASSUME NEW k \in m + 1 .. Len(data), NEW j \in data[k]
        PROVE  i = Place(data, k) + CrcBits + j <=> j = i - (Place(data, k) + CrcBits)
    <2>1. k \in Int /\ data[k] \in Bytes
      OBVIOUS
    <2>2. j \in Int
      BY <2>1, Widths DEF Bytes
    <2>3. Place(data, k) \in Int /\ CrcBits \in Int
      BY <2>1, Places, Widths
    <2> QED
      BY <2>2, <2>3
  <1>2. ASSUME NEW k \in m + 1 .. Len(data), i - (Place(data, k) + CrcBits) \in data[k]
        PROVE  i = Place(data, k) + CrcBits + (i - (Place(data, k) + CrcBits))
    BY <1>1, <1>2
  <1>3. i \in Terms(data, m) <=>
          \E k \in m + 1 .. Len(data) : \E j \in data[k] : i = Place(data, k) + CrcBits + j
    BY DEF Terms
  <1> QED
    BY <1>1, <1>2, <1>3

\* The byte that is next has the highest terms.
LEMMA TermsOfNext ==
  ASSUME NEW data \in Seq(Bytes), NEW m \in Nat, m < Len(data), NEW i \in Int
  PROVE  i \in Terms(data, m) <=>
           (i - (Place(data, m + 1) + CrcBits) \in data[m + 1] \/ i \in Terms(data, m + 1))
PROOF
  <1>1. \A k : k \in m + 1 .. Len(data) <=> (k = m + 1 \/ k \in m + 1 + 1 .. Len(data))
    OBVIOUS
  <1>2. m + 1 \in Nat
    OBVIOUS
  <1>3. i \in Terms(data, m + 1) <=>
          \E k \in m + 1 + 1 .. Len(data) : i - (Place(data, k) + CrcBits) \in data[k]
    BY <1>2, TermsBits
  <1>4. i \in Terms(data, m) <=>
          \E k \in m + 1 .. Len(data) : i - (Place(data, k) + CrcBits) \in data[k]
    BY TermsBits
  <1> QED
    BY <1>1, <1>3, <1>4, Zenon

\* and all of them are below the head of the register.
LEMMA TermsBelow ==
  ASSUME NEW data \in Seq(Bytes), NEW m \in Nat, m <= Len(data), NEW i \in Int, i \in Terms(data, m)
  PROVE  i < Place(data, m) + CrcBits
PROOF
  <1>1. PICK k \in m + 1 .. Len(data) : i - (Place(data, k) + CrcBits) \in data[k]
    BY TermsBits
  <1>2. k \in 0 .. Len(data) /\ m \in 0 .. Len(data) /\ m < k /\ data[k] \in Bytes
    OBVIOUS
  <1>3. Place(data, k) + ByteBits <= Place(data, m)
    BY <1>2, Places
  <1>4. Place(data, k) \in Int /\ Place(data, m) \in Int /\ CrcBits \in Int /\ ByteBits \in Int
    BY <1>2, Places, Widths
  <1>5. i - (Place(data, k) + CrcBits) <= ByteBits - 1
    BY <1>1, <1>2 DEF Bytes
  <1> QED
    BY <1>3, <1>4, <1>5

\* They are a polynomial.
LEMMA TermsType ==
  ASSUME NEW data \in Seq(Bytes), NEW m \in Nat
  PROVE  Terms(data, m) \in Polynomials
PROOF
  <1> SUFFICES ASSUME NEW k \in m + 1 .. Len(data), NEW j \in data[k]
               PROVE  Place(data, k) + CrcBits + j \in Int
    BY DEF Terms, Polynomials
  <1>1. k \in Int /\ data[k] \in Bytes
    OBVIOUS
  <1>2. j \in Int
    BY <1>1, Widths DEF Bytes
  <1>3. Place(data, k) \in Int /\ CrcBits \in Int
    BY <1>1, Places, Widths
  <1> QED
    BY <1>2, <1>3

\* The checksum of a message is the remainder of its polynomial.
LEMMA ChecksumIsDivision ==
  ASSUME NEW data \in Seq(Bytes)
  PROVE  CRC32(AllOnes, data) = Remainder(data)
PROOF
  <1> DEFINE n == Len(data)
             bits == n * ByteBits
  <1>1. n \in Nat /\ bits \in Nat /\ \A m \in 1 .. n : data[m] \in Bytes
    <2>1. n \in Nat /\ \A m \in 1 .. n : data[m] \in Bytes
      OBVIOUS
    <2>2. bits \in Nat
      BY Places
    <2> HIDE DEF n, bits
    <2> QED
      BY <2>1, <2>2
  <1>2. AllOnes \in Registers
    BY DEF AllOnes, Registers
  <1>3. PICK after \in [0 .. n -> Registers] :
          /\ after[0] = AllOnes
          /\ \A m \in 1 .. n : after[m] = NextCrc(after[m - 1], data[m])
          /\ CRC32(AllOnes, data) = after[n]
    BY <1>2, CRC32Steps
  <1>4. PICK left \in [0 .. bits -> Polynomials] :
          /\ left[0] = Xor(Coefficients(data), {i + bits : i \in AllOnes})
          /\ \A k \in 1 .. bits : left[k] = Divide(left[k - 1], bits + CrcBits - k)
          /\ Remainder(data) = left[bits]
    BY RemainderSteps
  <1>5. \A m \in Int : Place(data, m) \in Int /\ bits - m * ByteBits = Place(data, m)
                       /\ Place(data, m) = Place(data, m + 1) + ByteBits
    BY Places
  <1>6. Place(data, n) = 0 /\ Place(data, 0) = bits
    <2>1. Place(data, n) = 0 /\ bits - 0 * ByteBits = Place(data, 0)
      BY Places
    <2>2. 0 * ByteBits = 0
      BY Widths
    <2> QED
      BY <1>1, <2>1, <2>2
  <1> DEFINE S == {m \in Nat : m <= n =>
                     IsSum(left[m * ByteBits], after[m], Place(data, m), Terms(data, m))}
  <1>7. 0 \in S
    <2>1. Coefficients(data) = Terms(data, 0)
      BY DEF Coefficients, Terms, Place
    <2>2. ASSUME NEW i \in Int PROVE i \in {j + bits : j \in AllOnes} <=> i - bits \in AllOnes
      <3>1. \A j \in AllOnes : i = j + bits <=> j = i - bits
        BY <1>1, Widths DEF AllOnes
      <3> QED
        BY <3>1
    <2> HIDE DEF bits
    <2>3. IsSum(left[0], AllOnes, bits, Terms(data, 0))
      <3> SUFFICES ASSUME NEW i \in Int
                   PROVE  i \in left[0] <=> ~(i - bits \in AllOnes <=> i \in Terms(data, 0))
        BY DEF IsSum
      <3>1. i \in left[0] <=> ~(i \in Terms(data, 0) <=> i \in {j + bits : j \in AllOnes})
        BY <1>4, <2>1, XorBits
      <3> QED
        BY <2>2, <3>1
    <2>4. 0 * ByteBits = 0
      BY Widths
    <2> QED
      BY <1>3, <1>6, <2>3, <2>4
  <1>8. ASSUME NEW m \in Nat, m \in S PROVE m + 1 \in S
    <2>1. SUFFICES ASSUME m + 1 <= n
                   PROVE  IsSum(left[(m + 1) * ByteBits], after[m + 1], Place(data, m + 1), Terms(data, m + 1))
      OBVIOUS
    <2> DEFINE z == m * ByteBits
               s == Place(data, m + 1)
               q == Terms(data, m + 1)
    <2>2. /\ m + 1 \in 1 .. n /\ m + 1 \in 0 .. n /\ m \in 0 .. n /\ (m + 1) - 1 = m
          /\ m < n /\ m + 1 \in Nat
      BY <1>1, <2>1
    <2>3. /\ s \in Nat /\ z \in Nat /\ bits - z = s + ByteBits /\ Place(data, m) = s + ByteBits
          /\ (m + 1) * ByteBits = z + ByteBits /\ ByteBits \in Nat /\ CrcBits \in Nat
      <3>1. s \in Int /\ bits - z = Place(data, m) /\ Place(data, m) = s + ByteBits
            /\ bits - (m + 1) * ByteBits = s
        BY <1>5, <2>2
      <3>2. z \in Nat /\ (m + 1) * ByteBits \in Nat /\ ByteBits \in Nat /\ CrcBits \in Nat
        BY <2>2, Places, Widths
      <3>3. s >= 0
        <4>1. CASE m + 1 = n
          BY <1>6, <4>1
        <4>2. CASE m + 1 # n
          <5>1. m + 1 < n /\ n \in 0 .. n
            BY <1>1, <2>2, <4>2
          <5>2. 0 + ByteBits <= s
            BY <1>6, <2>2, <5>1, Places
          <5> QED
            BY <3>1, <3>2, <5>2
        <4> QED
          BY <4>1, <4>2
      <3> HIDE DEF s, z
      <3> QED
        BY <1>1, <3>1, <3>2, <3>3
    <2>4. q \in Polynomials /\ \A i \in Int : i \in q => i < s + CrcBits
      BY <2>2, TermsType, TermsBelow
    <2>5. after[m] \in Registers /\ data[m + 1] \in Bytes
      BY <1>1, <2>2
    <2>6. IsSum(left[z], after[m], s + ByteBits, Terms(data, m))
      <3>1. IsSum(left[z], after[m], Place(data, m), Terms(data, m))
        BY <1>8, <2>2
      <3> QED
        BY <2>3, <3>1
    <2>7. \A i \in Int : i \in Terms(data, m) <=> (i - (s + CrcBits) \in data[m + 1] \/ i \in q)
      BY <2>2, TermsOfNext
    <2> HIDE DEF s, z, q
    <2> DEFINE p == [j \in 0 .. ByteBits |-> left[z + j]]
    <2>8. \A j \in 0 .. ByteBits : z + j \in 0 .. bits
      BY <1>1, <2>3
    <2>9. p \in [0 .. ByteBits -> Polynomials]
      BY <2>8
    <2>10. \A j \in 1 .. ByteBits : p[j] = Divide(p[j - 1], s + ByteBits + CrcBits - j)
      <3> TAKE j \in 1 .. ByteBits
      <3> HIDE DEF bits, p
      <3>1. /\ z + j \in 1 .. bits /\ j \in 0 .. ByteBits /\ j - 1 \in 0 .. ByteBits
            /\ (z + j) - 1 = z + (j - 1)
            /\ bits + CrcBits - (z + j) = s + ByteBits + CrcBits - j
        BY <1>1, <2>3
      <3>2. left[z + j] = Divide(left[(z + j) - 1], bits + CrcBits - (z + j))
        BY <1>4, <3>1
      <3>3. p[j] = left[z + j] /\ p[j - 1] = left[z + (j - 1)]
        BY <3>1 DEF p
      <3> QED
        BY <3>1, <3>2, <3>3
    <2>11. p[0] = left[z] /\ p[ByteBits] = left[z + ByteBits]
      BY <2>3
    <2> HIDE DEF p
    <2>12. \A i \in Int : i \in p[0] <=>
             ~(i - (s + ByteBits) \in after[m] <=> (i - (s + CrcBits) \in data[m + 1] \/ i \in q))
      BY <2>6, <2>7, <2>11 DEF IsSum
    <2>13. IsSum(p[ByteBits], NextCrc(after[m], data[m + 1]), s, q)
      <3> DEFINE r    == after[m]
                 byte == data[m + 1]
      <3>1. /\ r \in Registers /\ byte \in Bytes /\ s \in Int /\ q \in Polynomials
            /\ p \in [0 .. ByteBits -> Polynomials]
        BY <2>3, <2>4, <2>5, <2>9
      <3>2. \A i \in Int : i \in p[0] <=>
              ~(i - (s + ByteBits) \in r <=> (i - (s + CrcBits) \in byte \/ i \in q))
        BY <2>12
      <3> HIDE DEF r, byte
      <3>3. IsSum(p[ByteBits], NextCrc(r, byte), s, q)
        BY <2>4, <2>10, <3>1, <3>2, ByteDivided
      <3> QED
        BY <3>3 DEF r, byte
    <2>14. after[m + 1] = NextCrc(after[m], data[m + 1])
      BY <1>3, <2>2
    <2> QED
      BY <2>3, <2>11, <2>13, <2>14 DEF s, q
  <1>9. IsSum(left[bits], after[n], 0, Terms(data, n))
    <2> HIDE DEF S
    <2>1. n \in S
      BY <1>1, <1>7, <1>8, InductionOverNat
    <2> QED
      BY <1>1, <1>6, <2>1 DEF S
  <1>10. Terms(data, n) = {}
    BY <1>1 DEF Terms
  <1>11. left[bits] \in SUBSET Int /\ after[n] \in SUBSET Int
    BY <1>1, Widths DEF Polynomials, Registers
  <1> HIDE DEF bits, n
  <1>12. \A i \in Int : i \in left[bits] <=> i \in after[n]
    <2> TAKE i \in Int
    <2>1. i \in left[bits] <=> ~(i - 0 \in after[n] <=> i \in {})
      BY <1>9, <1>10 DEF IsSum
    <2>2. i - 0 = i
      OBVIOUS
    <2> QED
      BY <2>1, <2>2
  <1>13. left[bits] = after[n]
    BY <1>11, <1>12
  <1> QED
    BY <1>3, <1>4, <1>13

-----------------------------------------------------------------------------
(* Chunks.                                                                 *)

\* A checksum is continued by the bytes that follow.
LEMMA CRC32Continues ==
  ASSUME NEW initial \in Registers, NEW data \in Seq(Bytes), NEW more \in Seq(Bytes),
         NEW whole \in Seq(Bytes), Len(whole) = Len(data) + Len(more),
         \A m \in 1 .. Len(data) : whole[m] = data[m],
         \A m \in 1 .. Len(more) : whole[Len(data) + m] = more[m]
  PROVE  CRC32(CRC32(initial, data), more) = CRC32(initial, whole)
PROOF
  <1>0. Len(data) \in Nat /\ Len(more) \in Nat
    OBVIOUS
  <1>1. PICK f \in [0 .. Len(data) -> Registers] :
          /\ f[0] = initial
          /\ \A m \in 1 .. Len(data) : f[m] = NextCrc(f[m - 1], data[m])
          /\ CRC32(initial, data) = f[Len(data)]
    BY CRC32Steps
  <1>2. f[Len(data)] \in Registers
    BY <1>0
  <1>3. PICK g \in [0 .. Len(more) -> Registers] :
          /\ g[0] = f[Len(data)]
          /\ \A m \in 1 .. Len(more) : g[m] = NextCrc(g[m - 1], more[m])
          /\ CRC32(f[Len(data)], more) = g[Len(more)]
    BY <1>2, CRC32Steps
  <1>4. PICK h \in [0 .. Len(whole) -> Registers] :
          /\ h[0] = initial
          /\ \A m \in 1 .. Len(whole) : h[m] = NextCrc(h[m - 1], whole[m])
          /\ CRC32(initial, whole) = h[Len(whole)]
    BY CRC32Steps
  <1> DEFINE n == Len(data)
             k == Len(more)
             S == {m \in Nat : m <= n => h[m] = f[m]}
             T == {m \in Nat : m <= k => h[n + m] = g[m]}
  <1>5. n \in S
    <2> HIDE DEF n, k
    <2>1. 0 \in S
      BY <1>1, <1>4
    <2>2. ASSUME NEW m \in Nat, m \in S PROVE m + 1 \in S
      <3> SUFFICES ASSUME m + 1 <= n PROVE h[m + 1] = f[m + 1]
        OBVIOUS
      <3>1. m + 1 \in 1 .. n /\ m + 1 \in 1 .. n + k /\ (m + 1) - 1 = m /\ m <= n
        BY <1>0 DEF n, k
      <3>2. h[m + 1] = NextCrc(h[m], whole[m + 1])
        BY <1>4, <3>1 DEF n, k
      <3>3. f[m + 1] = NextCrc(f[m], data[m + 1])
        BY <1>1, <3>1 DEF n
      <3>4. whole[m + 1] = data[m + 1] /\ h[m] = f[m]
        BY <2>2, <3>1 DEF n
      <3> QED
        BY <3>2, <3>3, <3>4
    <2> HIDE DEF S
    <2>3. Nat \subseteq S
      BY <2>1, <2>2, InductionOverNat
    <2> QED
      BY <1>0, <2>3 DEF n
  <1>6. k \in T
    <2>1. 0 \in T
      <3>1. n + 0 = n /\ n <= n /\ n \in Nat
        BY <1>0
      <3> QED
        BY <1>3, <1>5, <3>1
    <2> HIDE DEF n, k
    <2>2. ASSUME NEW m \in Nat, m \in T PROVE m + 1 \in T
      <3> SUFFICES ASSUME m + 1 <= k PROVE h[n + (m + 1)] = g[m + 1]
        OBVIOUS
      <3>1. /\ m + 1 \in 1 .. k /\ n + (m + 1) \in 1 .. n + k /\ (m + 1) - 1 = m /\ m <= k
            /\ n + (m + 1) - 1 = n + m
        BY <1>0 DEF n, k
      <3>2. h[n + (m + 1)] = NextCrc(h[n + m], whole[n + (m + 1)])
        <4> DEFINE x == n + (m + 1)
        <4>1. x \in 1 .. Len(whole) /\ x - 1 = n + m
          BY <1>0, <3>1 DEF n, k
        <4> HIDE DEF x
        <4>2. h[x] = NextCrc(h[x - 1], whole[x])
          BY <1>4, <4>1
        <4> QED
          BY <4>1, <4>2 DEF x
      <3>3. g[m + 1] = NextCrc(g[m], more[m + 1])
        BY <1>3, <3>1 DEF k
      <3>4. whole[n + (m + 1)] = more[m + 1] /\ h[n + m] = g[m]
        BY <2>2, <3>1 DEF n, k
      <3> QED
        BY <3>2, <3>3, <3>4
    <2> HIDE DEF T
    <2>3. Nat \subseteq T
      BY <2>1, <2>2, InductionOverNat
    <2> QED
      BY <1>0, <2>3 DEF k
  <1>7. h[n + k] = g[k]
    BY <1>0, <1>6
  <1> QED
    BY <1>1, <1>3, <1>4, <1>7

\* The bytes of a range of memory.
LEMMA SliceBytes ==
  ASSUME NEW mem \in [Addresses -> Values], NEW addr \in Nat, NEW n \in Nat,
         n = 0 \/ Fits(addr, n)
  PROVE  /\ Slice(mem, addr, n) \in Seq(Bytes)
         /\ Len(Slice(mem, addr, n)) = n
         /\ \A i \in 1 .. n : Slice(mem, addr, n)[i] = mem[addr + i - 1]
PROOF
  <1>1. Size \in Nat
    BY MemoryAssumption DEF MemoryAssumption
  <1>2. \A i \in 1 .. n : addr + i - 1 \in Addresses
    BY <1>1 DEF Addresses, Fits
  <1>3. \A i \in 1 .. n : mem[addr + i - 1] \in Bytes
    BY <1>2, Widths
  <1> QED
    BY <1>3 DEF Slice

\* Two ranges, one after the other.
LEMMA SlicesFollow ==
  ASSUME NEW mem \in [Addresses -> Values], NEW addr \in Nat, NEW n \in Nat, NEW k \in Nat,
         n + k = 0 \/ Fits(addr, n + k), NEW initial \in Registers
  PROVE  CRC32(CRC32(initial, Slice(mem, addr, n)), Slice(mem, addr + n, k)) =
           CRC32(initial, Slice(mem, addr, n + k))
PROOF
  <1> DEFINE data  == Slice(mem, addr, n)
             more  == Slice(mem, addr + n, k)
             whole == Slice(mem, addr, n + k)
  <1>1. Size \in Nat
    BY MemoryAssumption DEF MemoryAssumption
  <1>2. /\ n = 0 \/ Fits(addr, n)
        /\ k = 0 \/ Fits(addr + n, k)
        /\ addr + n \in Nat /\ n + k \in Nat
    BY <1>1 DEF Fits
  <1>3. /\ data \in Seq(Bytes) /\ Len(data) = n
        /\ \A i \in 1 .. n : data[i] = mem[addr + i - 1]
    BY <1>2, SliceBytes
  <1>4. /\ more \in Seq(Bytes) /\ Len(more) = k
        /\ \A i \in 1 .. k : more[i] = mem[addr + n + i - 1]
    BY <1>2, SliceBytes
  <1>5. /\ whole \in Seq(Bytes) /\ Len(whole) = n + k
        /\ \A i \in 1 .. n + k : whole[i] = mem[addr + i - 1]
    BY <1>2, SliceBytes
  <1> HIDE DEF data, more, whole
  <1>6. \A m \in 1 .. n : whole[m] = data[m]
    <2> TAKE m \in 1 .. n
    <2>1. m \in 1 .. n + k
      OBVIOUS
    <2> QED
      BY <1>3, <1>5, <2>1
  <1>7. \A m \in 1 .. k : whole[n + m] = more[m]
    <2> TAKE m \in 1 .. k
    <2>1. n + m \in 1 .. n + k /\ addr + (n + m) - 1 = addr + n + m - 1
      OBVIOUS
    <2> QED
      BY <1>4, <1>5, <2>1
  <1>8. CRC32(CRC32(initial, data), more) = CRC32(initial, whole)
    <2>1. /\ Len(whole) = Len(data) + Len(more)
          /\ \A m \in 1 .. Len(data) : whole[m] = data[m]
          /\ \A m \in 1 .. Len(more) : whole[Len(data) + m] = more[m]
      BY <1>3, <1>4, <1>5, <1>6, <1>7
    <2>2. data \in Seq(Bytes) /\ more \in Seq(Bytes) /\ whole \in Seq(Bytes)
      BY <1>3, <1>4, <1>5
    <2> QED
      BY <2>1, <2>2, CRC32Continues
  <1> QED
    BY <1>8 DEF data, more, whole

-----------------------------------------------------------------------------
(* Handle_qCRC.                                                            *)

\* The bytes whose checksum has been taken.
Done == request.length - uLength

\* The loop has summed up the beginning of the range, wherever the chunks end.
CrcOK ==
  /\ pc = "crc" =>
       /\ uLength \in Nat /\ uLength <= request.length
       /\ ullAddr = request.addr + Done
       /\ Done = 0 \/ Fits(request.addr, Done)
       /\ crcValue = CRC32(AllOnes, Slice(memory, request.addr, Done))
  /\ pc = "replied" /\ reply.kind = "crc" =>
       /\ request.kind = "qCRC"
       /\ request.length = 0 \/ Fits(request.addr, request.length)
       /\ reply.value = CRC32(AllOnes, Slice(memory, request.addr, request.length))

\* Before the first chunk.
LEMMA NothingSummed ==
  ASSUME NEW mem, NEW addr
  PROVE  CRC32(AllOnes, Slice(mem, addr, 0)) = AllOnes
PROOF
  <1>1. Slice(mem, addr, 0) = <<>>
    BY DEF Slice
  <1>2. <<>> \in Seq(Bytes) /\ Len(<<>>) = 0 /\ AllOnes \in Registers
    BY DEF AllOnes, Registers
  <1>3. CRC32(AllOnes, <<>>) = AllOnes
    <2> DEFINE none == <<>>
    <2>1. none \in Seq(Bytes) /\ Len(none) = 0 /\ AllOnes \in Registers
      BY <1>2
    <2> HIDE DEF none
    <2>2. PICK f \in [0 .. Len(none) -> Registers] :
            f[0] = AllOnes /\ CRC32(AllOnes, none) = f[Len(none)]
      BY <2>1, CRC32Steps
    <2> QED
      BY <2>1, <2>2 DEF none
  <1> QED
    BY <1>1, <1>3

\* Each step of the stub keeps this.
LEMMA CrcStep == IInv /\ CrcOK /\ [Next]_vars => CrcOK'
PROOF
  <1> SUFFICES ASSUME IInv, CrcOK, [Next]_vars PROVE CrcOK'
    OBVIOUS
  <1>0. /\ pc = "crc" => request.kind = "qCRC" /\ request.addr \in Nat /\ request.length \in Nat
        /\ request.kind = "qCRC" /\ pc # "idle" => request.addr \in Nat /\ request.length \in Nat
        /\ memory \in [Addresses -> Values]
    <2>1. request \in Requests /\ request.kind = "qCRC" =>
            request.addr \in Nat /\ request.length \in Nat
      BY RequestParts, MemoryAssumption DEF Addresses, MemoryAssumption
    <2> QED
      BY <2>1 DEF IInv, DataOK
  <1>1. CASE StartCrc
    <2>1. /\ request.kind = "qCRC" /\ pc = "handle" /\ pc' = "crc"
          /\ crcValue' = AllOnes /\ ullAddr' = request.addr /\ uLength' = request.length
          /\ request' = request /\ memory' = memory
      BY <1>1 DEF StartCrc
    <2>2. request.addr \in Nat /\ request.length \in Nat
      BY <1>0, <2>1
    <2>3. Done' = 0
      BY <2>1, <2>2 DEF Done
    <2>4. request.addr + 0 = request.addr
      BY <2>2
    <2> QED
      BY <2>1, <2>2, <2>3, <2>4, NothingSummed DEF CrcOK
  <1>2. CASE CrcRead
    <2> DEFINE addr == request.addr
               n    == Done
               k    == Todo
    <2>1. /\ pc = "crc" /\ pc' = "crc" /\ uLength > 0 /\ Fits(ullAddr, k)
          /\ crcValue' = CRC32(crcValue, Slice(memory, ullAddr, k))
          /\ uLength' = uLength - k /\ ullAddr' = ullAddr + k
          /\ request' = request /\ memory' = memory
      BY <1>2 DEF CrcRead
    <2>2. /\ uLength \in Nat /\ uLength <= request.length /\ ullAddr = addr + n
          /\ crcValue = CRC32(AllOnes, Slice(memory, addr, n))
      BY <2>1 DEF CrcOK
    <2>3. addr \in Nat /\ request.length \in Nat /\ Chunk \in Nat /\ Size \in Nat
      BY <1>0, <2>1, MemoryAssumption DEF MemoryAssumption
    <2>4. k \in Nat /\ k <= uLength
      BY <2>2, <2>3 DEF Todo
    <2>5. n \in Nat /\ Done' = n + k
      BY <2>1, <2>2, <2>3, <2>4 DEF Done
    <2> HIDE DEF addr, n, k
    <2>6. Fits(addr, n + k)
      BY <2>1, <2>2, <2>3, <2>4, <2>5 DEF Fits
    <2>7. AllOnes \in Registers
      BY DEF AllOnes, Registers
    <2>8. CRC32(CRC32(AllOnes, Slice(memory, addr, n)), Slice(memory, addr + n, k)) =
            CRC32(AllOnes, Slice(memory, addr, n + k))
      BY <1>0, <2>3, <2>4, <2>5, <2>6, <2>7, SlicesFollow
    <2>9. crcValue' = CRC32(AllOnes, Slice(memory, addr, n + k))
      BY <2>1, <2>2, <2>8
    <2>10. /\ uLength' \in Nat /\ uLength' <= request.length
           /\ ullAddr' = addr + (n + k)
      BY <2>1, <2>2, <2>3, <2>4, <2>5
    <2> QED
      BY <2>1, <2>5, <2>6, <2>9, <2>10 DEF CrcOK, addr, Fits
  <1>3. CASE CrcDone
    <2>1. /\ pc = "crc" /\ uLength = 0 /\ pc' = "replied" /\ reply'.value = crcValue
          /\ request' = request /\ memory' = memory
      BY <1>3 DEF CrcDone, Reply
    <2>2. Done = request.length
      BY <1>0, <2>1 DEF Done
    <2> QED
      BY <1>0, <2>1, <2>2 DEF CrcOK, Fits
  <1>4. ASSUME pc' # "crc", pc' = "replied" => reply'.kind # "crc" PROVE CrcOK'
    BY <1>4 DEF CrcOK
  <1>5. CASE ClientSends \/ ClientTakesReply
    BY <1>5, <1>4 DEF ClientSends, ClientTakesReply
  <1>6. CASE CrcFails \/ OutOfMemory \/ Handle_m \/ RejectWrite \/ AnswerProbe \/ WriteSucceeds \/ WriteFails
    <2>1. pc' = "replied" /\ reply'.kind # "crc"
      BY <1>6 DEF CrcFails, OutOfMemory, Handle_m, RejectWrite, AnswerProbe, WriteSucceeds, WriteFails,
                  Reply, Error, OK, Unsupported
    <2> QED
      BY <1>4, <2>1
  <1>7. CASE Handle_vFlashErase \/ Handle_vFlashWrite \/ Handle_vFlashDone
    <2>1. pc' = "replied" /\ reply'.kind # "crc"
      BY <1>7 DEF Handle_vFlashErase, Handle_vFlashWrite, Handle_vFlashDone, Fails,
                  Reply, Error, OK, Unsupported
    <2> QED
      BY <1>4, <2>1
  <1>8. CASE UNCHANGED vars
    BY <1>8 DEF vars, CrcOK, Done, Fits
  <1> QED
    BY <1>1, <1>2, <1>3, <1>5, <1>6, <1>7, <1>8 DEF Next, StubStep

\* A checksum that is reported is the remainder of the whole range, in one
\* piece, taken as a polynomial: neither the table, nor the shifting of the
\* register, nor the chunks make a difference (GDBStub.cpp:682-711, crc32.cpp).
THEOREM ChecksumIsRemainder == Spec => []ChecksumIsOfRange
PROOF
  <1>1. Init => CrcOK
    BY DEF Init, CrcOK
  <1>2. Spec => []CrcOK
    BY <1>1, Inductive, CrcStep, PTL DEF Spec
  <1>3. IInv /\ CrcOK => ChecksumIsOfRange
    <2> SUFFICES ASSUME IInv, CrcOK, pc = "replied", reply.kind = "crc"
                 PROVE  /\ Fits(request.addr, request.length) \/ request.length = 0
                        /\ reply.value = Remainder(Slice(memory, request.addr, request.length))
      BY DEF ChecksumIsOfRange
    <2>1. /\ request.kind = "qCRC" /\ request \in Requests /\ memory \in [Addresses -> Values]
          /\ request.length = 0 \/ Fits(request.addr, request.length)
          /\ reply.value = CRC32(AllOnes, Slice(memory, request.addr, request.length))
      BY DEF CrcOK, IInv, DataOK
    <2>2. request.addr \in Nat /\ request.length \in Nat
      BY <2>1, RequestParts, MemoryAssumption DEF Addresses, MemoryAssumption
    <2>3. Slice(memory, request.addr, request.length) \in Seq(Bytes)
      BY <2>1, <2>2, SliceBytes
    <2> QED
      BY <2>1, <2>3, ChecksumIsDivision
  <1> QED
    BY <1>2, <1>3, Inductive, PTL
=============================================================================
