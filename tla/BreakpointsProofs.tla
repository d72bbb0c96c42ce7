--------------------------- MODULE BreakpointsProofs ---------------------------
(***************************************************************************)
(* Theorems about Breakpoints, for any addresses, types and cookies and    *)
(* for targets that may refuse removals.                                   *)
(***************************************************************************)
EXTENDS Breakpoints, TLAPS

TypesOK ==
  /\ DOMAIN m_BreakpointMap \subseteq Addresses \X Types
  /\ live \subseteq Addresses \X Types \X Cookies
  /\ inserted \subseteq Addresses \X Types

\* ClientViewAgrees in the form the steps preserve: what is inserted is live,
\* what is live is inserted, and no two cookies are live at one key.
OnePerKey ==
  /\ \A key \in inserted : \E c \in Cookies : <<key[1], key[2], c>> \in live
  /\ \A b \in live : <<b[1], b[2]>> \in inserted
  /\ \A b, d \in live : b[1] = d[1] /\ b[2] = d[2] => b = d

IInv ==
  /\ TypesOK
  /\ MapMatchesTarget
  /\ OnePerKey

LEMMA OnePerKeyAgrees == TypesOK /\ OnePerKey => ClientViewAgrees
PROOF
  <1> SUFFICES ASSUME TypesOK, OnePerKey, NEW addr \in Addresses, NEW type \in Types
               PROVE  LET here == {b \in live : b[1] = addr /\ b[2] = type}
                      IN  IF <<addr, type>> \in inserted
                          THEN \E b \in here : here = {b}
                          ELSE here = {}
    BY DEF ClientViewAgrees
  <1> DEFINE here == {b \in live : b[1] = addr /\ b[2] = type}
  <1>1. ASSUME <<addr, type>> \in inserted PROVE \E b \in here : here = {b}
    <2>1. PICK c \in Cookies : <<addr, type, c>> \in live
      BY <1>1 DEF OnePerKey
    <2>2. <<addr, type, c>> \in here
      BY <2>1
    <2>3. \A b \in here : b = <<addr, type, c>>
      BY <2>1 DEF OnePerKey
    <2> QED
      BY <2>2, <2>3
  <1>2. ASSUME <<addr, type>> \notin inserted PROVE here = {}
    BY <1>2 DEF OnePerKey
  <1> QED
    BY <1>1, <1>2

LEMMA InvInit == Init => IInv
  BY DEF Init, IInv, TypesOK, MapMatchesTarget, OnePerKey

\* Dropping the entry of one key leaves the others as they are.
LEMMA EntryErased ==
  ASSUME TypesOK, MapMatchesTarget,
         NEW addr \in Addresses, NEW type \in Types,
         m_BreakpointMap' = Restrict(m_BreakpointMap, DOMAIN m_BreakpointMap \ {Key(addr, type)}),
         \A b \in live : ~ (b[1] = addr /\ b[2] = type) => b \in live'
  PROVE  /\ DOMAIN m_BreakpointMap' \subseteq Addresses \X Types
         /\ MapMatchesTarget'
PROOF
  <1>1. /\ DOMAIN m_BreakpointMap' = DOMAIN m_BreakpointMap \ {<<addr, type>>}
        /\ \A key \in DOMAIN m_BreakpointMap' : m_BreakpointMap'[key] = m_BreakpointMap[key]
    BY DEF Restrict, Key
  <1>2. \A key \in DOMAIN m_BreakpointMap' : ~ (key[1] = addr /\ key[2] = type)
    BY <1>1 DEF TypesOK
  <1> QED
    BY <1>1, <1>2 DEF TypesOK, MapMatchesTarget

LEMMA InvCreated ==
  ASSUME IInv, NEW addr \in Addresses, NEW type \in Types, BreakpointCreated(addr, type)
  PROVE  IInv'
PROOF
  <1> USE DEF IInv
  <1>1. PICK cookie \in Cookies :
          /\ live' = live \cup {<<addr, type, cookie>>}
          /\ m_BreakpointMap' = Assigned(Key(addr, type), cookie)
    BY DEF BreakpointCreated
  <1>2. inserted' = inserted \cup {<<addr, type>>} /\ <<addr, type>> \notin inserted
    BY DEF BreakpointCreated
  <1>3. /\ DOMAIN m_BreakpointMap' = DOMAIN m_BreakpointMap \cup {<<addr, type>>}
        /\ m_BreakpointMap'[<<addr, type>>] = cookie
        /\ \A key \in DOMAIN m_BreakpointMap : key # <<addr, type>> => m_BreakpointMap'[key] = m_BreakpointMap[key]
    BY <1>1 DEF Key, Assigned
  <1>4. TypesOK'
    BY <1>1, <1>2, <1>3 DEF TypesOK
  <1>5. MapMatchesTarget'
    BY <1>1, <1>3 DEF MapMatchesTarget
  <1>6. OnePerKey'
    <2>1. \A b \in live : ~ (b[1] = addr /\ b[2] = type)
      BY <1>2 DEF OnePerKey
    <2> QED
      BY <1>1, <1>2, <2>1 DEF OnePerKey, TypesOK
  <1> QED
    BY <1>4, <1>5, <1>6

LEMMA InvRemoved ==
  ASSUME IInv, NEW addr \in Addresses, NEW type \in Types, BreakpointRemoved(addr, type)
  PROVE  IInv'
PROOF
  <1> USE DEF IInv
  <1> DEFINE gone == <<addr, type, CookieFor(addr, type)>>
  <1>1. gone \in live /\ live' = live \ {gone} /\ inserted' = inserted \ {<<addr, type>>}
    BY DEF BreakpointRemoved
  <1>2. gone[1] = addr /\ gone[2] = type
    OBVIOUS
  <1> HIDE DEF gone
  <1>3. \A b \in live : ~ (b[1] = addr /\ b[2] = type) => b \in live'
    BY <1>1, <1>2
  <1>4. DOMAIN m_BreakpointMap' \subseteq Addresses \X Types /\ MapMatchesTarget'
    BY <1>3, EntryErased DEF BreakpointRemoved
  <1>5. TypesOK'
    BY <1>1, <1>4 DEF TypesOK
  <1>6. OnePerKey'
    <2>1. \A b \in live' : ~ (b[1] = addr /\ b[2] = type)
      BY <1>1, <1>2 DEF OnePerKey
    <2>2. \A key \in inserted' : ~ (key[1] = addr /\ key[2] = type)
      BY <1>1 DEF TypesOK
    <2>3. \A key \in inserted' : \E c \in Cookies : <<key[1], key[2], c>> \in live'
      <3> SUFFICES ASSUME NEW key \in inserted'
                   PROVE  \E c \in Cookies : <<key[1], key[2], c>> \in live'
        OBVIOUS
      <3>1. PICK c \in Cookies : <<key[1], key[2], c>> \in live
        BY <1>1 DEF OnePerKey
      <3> QED
        BY <3>1, <2>2, <1>3
    <2>4. \A b \in live' : <<b[1], b[2]>> \in inserted'
      BY <1>1, <2>1 DEF OnePerKey
    <2> QED
      BY <1>1, <2>3, <2>4 DEF OnePerKey
  <1> QED
    BY <1>4, <1>5, <1>6

LEMMA InvRemovalFailed ==
  ASSUME IInv, NEW addr \in Addresses, NEW type \in Types, RemovalFailed(addr, type)
  PROVE  IInv'
PROOF
  <1> USE DEF IInv
  <1>1. UNCHANGED <<live, inserted>>
    BY DEF RemovalFailed
  <1>2. DOMAIN m_BreakpointMap' \subseteq Addresses \X Types /\ MapMatchesTarget'
    BY <1>1, EntryErased DEF RemovalFailed
  <1> QED
    BY <1>1, <1>2 DEF TypesOK, OnePerKey

LEMMA InvStep == IInv /\ [Next]_bpVars => IInv'
PROOF
  <1> SUFFICES ASSUME IInv, [Next]_bpVars PROVE IInv'
    OBVIOUS
  <1>1. ASSUME NEW addr \in Addresses, NEW type \in Types,
               \/ BreakpointCreated(addr, type)
               \/ BreakpointRemoved(addr, type)
               \/ RemovalFailed(addr, type)
        PROVE  IInv'
    BY <1>1, InvCreated, InvRemoved, InvRemovalFailed
  <1>2. CASE UNCHANGED bpVars
    BY <1>2 DEF bpVars, IInv, TypesOK, MapMatchesTarget, OnePerKey
  <1> QED
    BY <1>1, <1>2 DEF Next

\* m_BreakpointMap: every cookie kept stands for a live breakpoint, through
\* creations, removals and refused removals.
THEOREM CookiesAreLive == Spec => []MapMatchesTarget
PROOF
  <1>1. IInv => MapMatchesTarget
    BY DEF IInv
  <1> QED
    BY <1>1, InvInit, InvStep, PTL DEF Spec

\* Handle_Zz: what the client is told makes it believe exactly what the target
\* has, each breakpoint once.
THEOREM ClientIsRight == Spec => []ClientViewAgrees
PROOF
  <1>1. IInv => ClientViewAgrees
    BY OnePerKeyAgrees DEF IInv
  <1> QED
    BY <1>1, InvInit, InvStep, PTL DEF Spec

-----------------------------------------------------------------------------
(* Removals that are not refused.                                          *)

\* No call of RemoveBreakpoint fails.
NothingRefused ==
  [][\A addr \in Addresses, type \in Types : ~RemovalFailed(addr, type)]_bpVars

\* No entry is missing from the map.
NoneMissing == inserted \subseteq DOMAIN m_BreakpointMap

LEMMA MissingStep ==
  ASSUME IInv, NoneMissing, [Next]_bpVars,
         [\A addr \in Addresses, type \in Types : ~RemovalFailed(addr, type)]_bpVars
  PROVE  NoneMissing'
PROOF
  <1>1. CASE UNCHANGED bpVars
    BY <1>1 DEF bpVars, NoneMissing
  <1>2. ASSUME NEW addr \in Addresses, NEW type \in Types, BreakpointCreated(addr, type)
        PROVE  NoneMissing'
    BY <1>2 DEF BreakpointCreated, Assigned, Key, NoneMissing
  <1>3. ASSUME NEW addr \in Addresses, NEW type \in Types, BreakpointRemoved(addr, type)
        PROVE  NoneMissing'
    BY <1>3 DEF BreakpointRemoved, Restrict, Key, NoneMissing
  <1> QED
    BY <1>1, <1>2, <1>3 DEF Next

\* A refused removal is the only way to the behaviour that violates
\* RemoveCarriesCookie: as long as the target refuses none, whatever cookies it
\* issues, Handle_Zz gives it back the cookie of the breakpoint it removes.
THEOREM CookieIfNoneRefused == Spec /\ NothingRefused => []RemoveCarriesCookie
PROOF
  <1>1. Init => NoneMissing
    BY DEF Init, NoneMissing
  <1>2. IInv /\ NoneMissing => RemoveCarriesCookie
    BY DEF IInv, MapMatchesTarget, NoneMissing, RemoveCarriesCookie, CookieFor, Key
  <1> QED
    BY <1>1, <1>2, InvInit, InvStep, MissingStep, PTL DEF Spec, NothingRefused
=============================================================================
