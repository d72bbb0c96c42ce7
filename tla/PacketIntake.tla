----------------------------- MODULE PacketIntake ------------------------------
(***************************************************************************)
(* What the packet reader promises the rest of the server, without bytes,  *)
(* pieces, escapes or checksum digits: a packet that has arrived is taken  *)
(* once, as it was meant, and the next one is left; or it is rejected      *)
(* because it was damaged, and stays; or the connection ended before the   *)
(* packet was there, and that is noticed.                                  *)
(***************************************************************************)
CONSTANT Payloads

VARIABLES
  payload,  \* what the client means
  damaged,  \* something happens to the packet on its way
  whole,    \* all of it has arrived
  over,     \* nothing more will arrive
  verdict,  \* "none", "delivered", "mismatch", "lost"
  handed,   \* what the server is given to handle
  left      \* what is left in the socket's buffer: "all", "next"

piVars == <<payload, damaged, whole, over, verdict, handed, left>>

Init ==
  /\ payload \in Payloads
  /\ damaged \in BOOLEAN
  /\ whole = FALSE
  /\ over = FALSE
  /\ verdict = "none"
  /\ handed = <<>>
  /\ left = "all"

Arrive ==
  /\ ~over /\ ~whole
  /\ whole' = TRUE
  /\ UNCHANGED <<payload, damaged, over, verdict, handed, left>>

End ==
  /\ ~over
  /\ over' = TRUE
  /\ UNCHANGED <<payload, damaged, whole, verdict, handed, left>>

Decide(v) ==
  /\ verdict = "none"
  /\ verdict' = v
  /\ UNCHANGED <<payload, damaged, whole, over>>

Deliver ==
  /\ whole /\ ~damaged
  /\ Decide("delivered")
  /\ handed' = payload
  /\ left' = "next"

Reject ==
  /\ whole /\ damaged
  /\ Decide("mismatch")
  /\ UNCHANGED <<handed, left>>

Lose ==
  /\ over /\ ~whole
  /\ Decide("lost")
  /\ UNCHANGED <<handed, left>>

Next == Arrive \/ End \/ Deliver \/ Reject \/ Lose

Spec == Init /\ [][Next]_piVars

\* Once the packet has arrived, or cannot any more, the reader decides.
FairSpec == Spec /\ WF_piVars(Deliver \/ Reject \/ Lose)
=============================================================================
