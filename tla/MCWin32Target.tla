----------------------------- MODULE MCWin32Target -----------------------------
(* Three identifiers: two threads and one that is made, or breaks in. *)
EXTENDS Win32Target

MCThreads == {1, 2, 3}
=============================================================================
