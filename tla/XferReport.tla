------------------------------ MODULE XferReport -------------------------------
(***************************************************************************)
(* qXfer: a report that a client reads window by window.  The stub builds  *)
(* the whole report again for each window.  A report is a sequence of      *)
(* entries between an opening and a closing tag; a window may end behind   *)
(* any of them.                                                            *)
(***************************************************************************)
EXTENDS ThreadControl

CONSTANTS
  Libraries,   \* what GetDynamicLibraryList lists
  Regions,     \* m_EmbeddedMemoryRegions, of the types that are reported
  MaxWindow    \* the longest window the client asks for

ASSUME XferAssumption ==
  /\ Libraries \in Seq(STRING \X Nat) /\ Regions \in Seq(STRING \X Nat)
  /\ MaxWindow \in Nat \ {0}

VARIABLES
  transfer,    \* "none", "reading", "whole"
  object,      \* the report being read
  assembled    \* what the client has of it

xferVars == <<transfer, object, assembled>>

Document(entries) == << <<"open">> >> \o entries \o << <<"close">> >>

ThreadEntries(ids) ==
  LET inOrder == SetToSortSeq(ids, LAMBDA x, y : x < y)
  IN  [k \in 1 .. Cardinality(ids) |-> <<"thread", inOrder[k]>>]

XferInit ==
  /\ transfer = "none"
  /\ object = "none"
  /\ assembled = <<>>

-----------------------------------------------------------------------------
\* BuildGDBReportByName.  A list of libraries that cannot be had is reported
\* as an empty one.
Reports(name) ==
  CASE name = "threads"    -> {Document(ThreadEntries(m_CachedThreadInfo'))}
    [] name = "memory-map" -> {Document(Regions)}
    [] name = "libraries"  -> {Document(Libraries)}
                                \cup (IF "libraries" \in Failures THEN {Document(<<>>)} ELSE {})

\* Mutant: the length is compared with that of the whole report.
ReachesEndOfWhole(str, offset, length) == length >= Len(str)

\* Whether a window takes all that is left.
ReachesEnd(str, offset, length) == length >= Len(str) - offset

Window(str, offset, length) ==
  IF length >= Len(str) - offset
  THEN SubSeq(str, offset + 1, Len(str))
  ELSE SubSeq(str, offset + 1, offset + length)

StartTransfer(name) ==
  /\ pc = "idle" /\ transfer = "none"
  /\ transfer' = "reading"
  /\ object' = name
  /\ UNCHANGED <<tcVars, assembled>>

\* The client asks for what follows what it has; a window marked l is the last.
Handle_qXfer(length) ==
  /\ transfer = "reading"
  /\ IF object = "threads" THEN ProvideThreadInfo ELSE UNCHANGED cache
  /\ \E str \in Reports(object) :
       LET offset == IF Len(assembled) > Len(str) THEN Len(str) ELSE Len(assembled)
       IN  /\ assembled' = assembled \o Window(str, offset, length)
           /\ transfer' = IF ReachesEnd(str, offset, length) THEN "whole" ELSE "reading"
  /\ UNCHANGED <<selection, m_LastReportedCurrentThreadID, pc, call, target, asked, selected, object>>

\* The client has read the report.
TakeReport ==
  /\ transfer = "whole"
  /\ transfer' = "none"
  /\ object' = "none"
  /\ assembled' = <<>>
  /\ UNCHANGED tcVars

NextWindow == \E length \in 1 .. MaxWindow : Handle_qXfer(length)

XferNext ==
  \/ \E name \in {"threads", "memory-map", "libraries"} : StartTransfer(name)
  \/ NextWindow
  \/ TakeReport

-----------------------------------------------------------------------------
(* Properties.                                                             *)

\* The windows put together are one report of what the stopped target has,
\* although each comes from a report of its own, the target may fail to list
\* its threads for one of them, and a window may end anywhere
\* (GDBStub.cpp:186-206).
ReportIsWhole ==
  transfer = "whole" =>
    CASE object = "threads"    -> assembled \in {Document(ThreadEntries(ids)) : ids \in ThreadList}
      [] object = "memory-map" -> assembled = Document(Regions)
      [] object = "libraries"  -> assembled = Document(Libraries)

\* A client that keeps asking comes to the last window.
TransferEnds == transfer = "reading" ~> transfer = "whole"
=============================================================================
