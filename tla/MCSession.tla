------------------------------ MODULE MCSession -------------------------------
(* Sets of requests for the runs of Session. *)
EXTENDS Session

QueryAndResume == {"query", "resume"}
=============================================================================
