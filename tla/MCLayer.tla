------------------------------ MODULE MCLayer ------------------------------
(***************************************************************************)
(* Model checking the window system: windows opened and reports of the     *)
(* mouse are bounded together, so that one run has two windows and a       *)
(* click, one window and a drag, and a longer use of the mouse alone.      *)
(***************************************************************************)
EXTENDS Layer

CONSTANTS MaxOpened, MaxEvents  \* bounds: windows opened; windows opened and reports of the mouse

Opened == mgr.latest - IF mgr.mouse = NoLayer THEN TextWindow ELSE MouseLayer
Bounded == Opened <= MaxOpened /\ Opened + mouse.moves <= MaxEvents
=============================================================================
