------------------------------ MODULE Inspection -------------------------------
(***************************************************************************)
(* What a client does with a stopped target: it selects threads, reads and *)
(* writes registers, and reads reports, one packet at a time.              *)
(***************************************************************************)
EXTENDS RegisterPackets, XferReport

vars == <<tcVars, regVars, xferVars>>

\* Bound: reports are read before a thread is selected and its registers are
\* read, so that the two do not multiply.
NothingRead == selected \notin Threads /\ believed = NothingKnown

InspectionNext ==
  \/ transfer = "none" /\ RegNext /\ UNCHANGED xferVars
  \/ NothingRead /\ XferNext /\ UNCHANGED regVars

InspectionInit == Init /\ RegInit /\ XferInit

\* The client asks for window after window.
InspectionSpec ==
  InspectionInit /\ [][InspectionNext]_vars /\ WF_vars(NextWindow /\ UNCHANGED regVars)
=============================================================================
