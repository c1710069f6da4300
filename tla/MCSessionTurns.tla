--------------------------- MODULE MCSessionTurns ---------------------------
(* SessionTurns for TLC: sessions that begin empty. *)
EXTENDS SessionTurns

NoEvents == <<>>
=============================================================================
