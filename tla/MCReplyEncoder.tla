---------------------------- MODULE MCReplyEncoder -----------------------------
(***************************************************************************)
(* Replies of one, two and three runs of equal characters.  The lengths are*)
(* the ones at which the encoder changes its mind: 3 and 4 around the      *)
(* shortest run it counts, 7 and 8 whose counts would be '#' and '$', 97   *)
(* whose count would be '}', 98 and 99 around the longest run one count    *)
(* stands for.                                                             *)
(***************************************************************************)
EXTENDS ReplyEncoder

Repeat(ch, n) == [k \in 1 .. n |-> ch]

\* A plain character, an escaped one and the terminator.
Runs(Lengths) == {Repeat(ch, n) : ch \in {97, 98, 35, 0}, n \in Lengths}

ShortRuns == Runs({1, 2, 3, 4, 5, 7, 8, 9})
LongRuns  == {Repeat(97, n) : n \in {96, 97, 98, 99, 100, 104, 195}}

MCResponses ==
  {<<>>}
    \cup ShortRuns
    \cup LongRuns
    \cup {a \o b : a \in ShortRuns, b \in ShortRuns}
    \cup {a \o b : a \in LongRuns, b \in ShortRuns}
    \cup {a \o b \o c : a \in Runs({1, 4}), b \in Runs({3, 7}), c \in Runs({1, 5})}
=============================================================================
