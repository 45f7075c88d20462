--------------------------- MODULE MCWebSocketHub ---------------------------
(***************************************************************************)
(* WebSocketHub for TLC: one browser, which connects as one user and then  *)
(* as another, an event for the first and one for the administrators.      *)
(***************************************************************************)
EXTENDS WebSocketHub

CONSTANTS b1, c1, c2, u1, u2, e1, e2

MCBrowserOf == [c \in Conn |-> b1]
MCTokenOf == [c \in Conn |-> IF c = c1 THEN u1 ELSE u2]
MCAddressee == [e \in Event |-> IF e = e1 THEN u1 ELSE Admins]

=============================================================================
