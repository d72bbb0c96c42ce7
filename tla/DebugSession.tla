----------------------------- MODULE DebugSession -----------------------------
(***************************************************************************)
(* What a GDB session promises its client, without threads, sockets or     *)
(* acknowledgments: each request is answered once; one that resumes the    *)
(* target is answered when the target stops; and an interrupt is never     *)
(* forgotten before a stop, which it must bring about if the target runs.  *)
(***************************************************************************)

VARIABLES
  phase,   \* how far the client's current request is
  wanted   \* an interrupt was sent and no stop has consumed it

dsVars == <<phase, wanted>>

Phase == {"idle", "asked", "running", "answered", "over"}

Init == phase = "idle" /\ wanted = FALSE

Advance(from, to) == phase = from /\ phase' = to

Ask     == Advance("idle", "asked") /\ UNCHANGED wanted
Answer  == Advance("asked", "answered") /\ UNCHANGED wanted
Resume  == Advance("asked", "running") /\ UNCHANGED wanted
Receive == Advance("answered", "idle") /\ UNCHANGED wanted

Interrupt ==
  /\ phase \in {"asked", "running", "answered"}
  /\ wanted' = TRUE
  /\ UNCHANGED phase

\* The target stops by itself or for an interrupt; only the latter uses it up,
\* and another one may be on its way.
Stop ==
  /\ Advance("running", "answered")
  /\ wanted' \in {FALSE, wanted}

End ==
  /\ phase # "over"
  /\ phase' = "over"
  /\ wanted' = FALSE

Next == Ask \/ Answer \/ Resume \/ Receive \/ Interrupt \/ Stop \/ End

Spec == Init /\ [][Next]_dsVars

\* A request is taken up, an answer arrives, and an interrupted target stops.
Fairness ==
  /\ WF_dsVars(Answer \/ Resume)
  /\ WF_dsVars(Receive)
  /\ WF_dsVars(wanted /\ Stop)

FairSpec == Spec /\ Fairness
=============================================================================
