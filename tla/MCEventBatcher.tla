--------------------------- MODULE MCEventBatcher ---------------------------
(* Finite instances of EventBatcher: the third event is large enough to      *)
(* reach the size threshold alone.                                           *)
EXTENDS EventBatcher

CONSTANTS c1

MCBig == {3}
MCCallers == {c1}

=============================================================================
