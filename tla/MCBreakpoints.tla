----------------------------- MODULE MCBreakpoints -----------------------------
(* Two addresses, a software and a hardware breakpoint at each. *)
EXTENDS Breakpoints

CONSTANTS a1, a2

MCAddresses == {a1, a2}
MCTypes     == {0, 1}
MCCookies   == {1, 2, 3}
=============================================================================
