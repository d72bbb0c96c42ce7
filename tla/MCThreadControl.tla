---------------------------- MODULE MCThreadControl ----------------------------
(* Two or three threads. *)
EXTENDS ThreadControl

MCThreads == {1, 2}
ThreeThreads == {1, 2, 3}
MCJunk == 9

Assignments == UNION {[T -> Modes] : T \in SUBSET Threads}

AllVCont == [default : Modes, named : Assignments]

\* The requests in which no thread is to continue although the others are not:
\* what gdb sends for stepping, continuing and scheduler locking.
GdbVCont ==
  {req \in AllVCont :
     req.default = "run" \/ \A t \in DOMAIN req.named : req.named[t] # "run"}

NoVCont == {}
=============================================================================
