---------------------------- MODULE MCPacketReader -----------------------------
(***************************************************************************)
(* Payloads of up to three bytes.  A client must escape '#', '$' and '}'   *)
(* and may escape anything: byte 3, escaped, looks like '#'.               *)
(***************************************************************************)
EXTENDS PacketReader, SequencesExt

Letters == {97, 35, 125, 3}

\* A letter and the bytes that may stand for it.
Forms ==
  {[letter |-> ch, bytes |-> <<kEscapeChar, Masked(ch)>>] : ch \in Letters}
    \cup {[letter |-> ch, bytes |-> <<ch>>] : ch \in Letters \ {35, 36, 125}}

Message(forms, error, next) ==
  [payload |-> [k \in DOMAIN forms |-> forms[k].letter],
   body    |-> FlattenSeq([k \in DOMAIN forms |-> forms[k].bytes]),
   error   |-> error,
   next    |-> next]

\* The acknowledgment and the start of another packet follow, or nothing does.
\* Damage shows as a checksum that differs in its first digit or its second.
MCMessages ==
  {Message(forms, 0, <<43, 36>>) : forms \in UNION {[1 .. n -> Forms] : n \in 0 .. 3}}
    \cup {Message(forms, error, <<>>) :
            forms \in UNION {[1 .. n -> Forms] : n \in 0 .. 2},
            error \in {0, 1, 16}}
=============================================================================
