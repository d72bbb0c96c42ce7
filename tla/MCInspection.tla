----------------------------- MODULE MCInspection -----------------------------
(* Two threads with a register of one byte and one of two, and two libraries. *)
EXTENDS Inspection

MCThreads == {1, 2}
MCJunk == 9
NoVCont == {}

\* As in the sample, a later register repeats an earlier one's index.
MCRegisterList == << [index |-> 0, bytes |-> 1], [index |-> 0, bytes |-> 2] >>
MCContents == << {<<"00">>, <<"ff">>}, {<<"00", "00">>, <<"ff", "00">>} >>
MCFrameRelated == {1}

MCLibraries == << <<"library", 1>>, <<"library", 2>> >>
MCRegions == << <<"flash", 1>> >>
=============================================================================
