---------------------------- MODULE MCMemoryPackets ----------------------------
(* Four bytes of two bits, a checksum of four, chunks of two bytes. *)
EXTENDS MemoryPackets

CONSTANTS unknown, none

MCValues == {{0}, {0, 1}}
MCErased == {0, 1}
\* x^4 + x + 1.
MCPolynomial == {0, 1}
=============================================================================
