------------------------------ MODULE Breakpoints ------------------------------
(***************************************************************************)
(* GDBStub.cpp: Handle_Zz and m_BreakpointMap, between a client that sets  *)
(* and removes breakpoints and a target that issues a cookie for each and  *)
(* asks for it back.  Handle_Zz runs to completion on the one thread that  *)
(* serves the connection, so each packet is one step; what may go wrong is *)
(* the target's answer.                                                    *)
(***************************************************************************)
EXTENDS Naturals, Functions

CONSTANTS
  Addresses,
  Types,      \* breakpoint types, 0 to 4
  Cookies     \* what CreateBreakpoint may put into *pCookie

\* 0 is what Handle_Zz passes when it has no cookie; no target issues it here.
ASSUME BreakpointsAssumption == 0 \notin Cookies

VARIABLES
  m_BreakpointMap,  \* cookies, by address and type
  live,             \* the target's breakpoints: <<address, type, cookie>>
  inserted          \* what the client believes to be inserted

bpVars == <<m_BreakpointMap, live, inserted>>

NoCookie == 0

Key(addr, type) == <<addr, type>>

Init ==
  /\ m_BreakpointMap = <<>>
  /\ live = {}
  /\ inserted = {}

\* The cookie that goes with the removal.
CookieFor(addr, type) ==
  IF Key(addr, type) \in DOMAIN m_BreakpointMap
  THEN m_BreakpointMap[Key(addr, type)]
  ELSE NoCookie

\* m_BreakpointMap[key] = cookie.
Assigned(key, cookie) ==
  [k \in DOMAIN m_BreakpointMap \cup {key} |-> IF k = key THEN cookie ELSE m_BreakpointMap[k]]

\* CreateBreakpoint succeeds with a cookie of the target's choice.
BreakpointCreated(addr, type) ==
  /\ <<addr, type>> \notin inserted
  /\ \E cookie \in Cookies :
       /\ live' = live \cup {<<addr, type, cookie>>}
       /\ m_BreakpointMap' = Assigned(Key(addr, type), cookie)
  /\ inserted' = inserted \cup {<<addr, type>>}

\* Mutant: the entry survives the breakpoint.
BreakpointRemovedEntryKept(addr, type) ==
  /\ <<addr, type>> \in inserted
  /\ <<addr, type, CookieFor(addr, type)>> \in live
  /\ live' = live \ {<<addr, type, CookieFor(addr, type)>>}
  /\ UNCHANGED m_BreakpointMap
  /\ inserted' = inserted \ {<<addr, type>>}

\* RemoveBreakpoint finds the breakpoint the cookie stands for.
BreakpointRemoved(addr, type) ==
  /\ <<addr, type>> \in inserted
  /\ <<addr, type, CookieFor(addr, type)>> \in live
  /\ live' = live \ {<<addr, type, CookieFor(addr, type)>>}
  /\ m_BreakpointMap' = Restrict(m_BreakpointMap, DOMAIN m_BreakpointMap \ {Key(addr, type)})
  /\ inserted' = inserted \ {<<addr, type>>}

\* Mutant: the reply is OK whatever RemoveBreakpoint returned.
RemovalFailedReportedOK(addr, type) ==
  /\ <<addr, type>> \in inserted
  /\ m_BreakpointMap' = Restrict(m_BreakpointMap, DOMAIN m_BreakpointMap \ {Key(addr, type)})
  /\ inserted' = inserted \ {<<addr, type>>}
  /\ UNCHANGED live

\* RemoveBreakpoint may fail whatever the cookie: the client is told, the entry is erased all the same.
RemovalFailed(addr, type) ==
  /\ <<addr, type>> \in inserted
  /\ m_BreakpointMap' = Restrict(m_BreakpointMap, DOMAIN m_BreakpointMap \ {Key(addr, type)})
  /\ UNCHANGED <<live, inserted>>

Next ==
  \E addr \in Addresses, type \in Types :
    \/ BreakpointCreated(addr, type)
    \/ BreakpointRemoved(addr, type)
    \/ RemovalFailed(addr, type)

Spec == Init /\ [][Next]_bpVars

-----------------------------------------------------------------------------
(* Properties.                                                             *)

\* Every cookie the stub keeps stands for a breakpoint the target still has at
\* that address and of that type, through failures of either call.
MapMatchesTarget ==
  \A key \in DOMAIN m_BreakpointMap :
    <<key[1], key[2], m_BreakpointMap[key]>> \in live

\* The client believes a breakpoint inserted exactly when the target has it,
\* and the target has it once.
ClientViewAgrees ==
  \A addr \in Addresses, type \in Types :
    LET here == {b \in live : b[1] = addr /\ b[2] = type}
    IN  IF <<addr, type>> \in inserted
        THEN \E b \in here : here = {b}
        ELSE here = {}

\* IGDBTarget.h:273: RemoveBreakpoint's Cookie "contains the arbitrary INT_PTR
\* value provided by the CreateBreakpoint() method", whichever breakpoint the
\* client removes next.
RemoveCarriesCookie ==
  \A addr \in Addresses, type \in Types :
    <<addr, type>> \in inserted =>
      <<addr, type, CookieFor(addr, type)>> \in live
=============================================================================
