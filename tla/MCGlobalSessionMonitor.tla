------------------------ MODULE MCGlobalSessionMonitor -------------------------
(* Connections and console events as model values. *)
EXTENDS GlobalSessionMonitor, TLC

CONSTANTS a, b, h1, h2

MCSessions == {a, b}
MCHandlers == {h1, h2}
=============================================================================
