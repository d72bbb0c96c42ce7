-------------------------------- MODULE Wire --------------------------------
(***************************************************************************)
(* What travels on a GDB connection, at the granularity the connection     *)
(* threads tell apart.  A byte that FindPacketStart or the break-in worker *)
(* compares with a constant is a symbol of its own; the rest of a packet   *)
(* ("<data>#<checksum>") is one symbol, named after what the connection    *)
(* handler will do with it.                                                *)
(***************************************************************************)
EXTENDS Naturals, Sequences

kBreakInByte == "0x03"
kACK         == "+"
kPacketStart == "$"

(***************************************************************************)
(* Packet tails.  "query" stands for every request whose handler returns   *)
(* without running the target, "resume" for the ones that block in         *)
(* ISyncGDBTarget::ResumeAndWait or Step (c, s, vCont), "noack" is         *)
(* QStartNoAckMode, "corrupt" fails the checksum test, and "cut" is a tail *)
(* the connection ended in the middle of.                                  *)
(***************************************************************************)
Requests == {"query", "resume", "noack"}
Tails    == Requests \cup {"corrupt", "cut"}
Bytes    == {kBreakInByte, kACK, kPacketStart} \cup Tails

\* What PeekAbs yields once the connection has failed: no pointer, no byte.
NoData == "none"

\* What the server sends: an acknowledgment or a whole reply packet.
Reply == "reply"
Sent  == {kACK, Reply}
=============================================================================
