------------------------------- MODULE Layer -------------------------------
(***************************************************************************)
(* The window system: the layer stack (layer.cpp), what a draw does to the *)
(* back buffer and the screen (window.cpp, frame_buffer.cpp), the active   *)
(* layer, and its clients: the mouse (mouse.cpp), the main loop (main.cpp),*)
(* applications and terminals that open, redraw and close windows.         *)
(*                                                                         *)
(* The screen is one row of pixels.  A window is an interval of it whose   *)
(* first pixel is the title bar, whose second is the close button and      *)
(* whose others are content.  A pixel shows a layer and, in a title bar,   *)
(* whether the window is drawn as active.                                  *)
(*                                                                         *)
(* Applications change the stack, and everybody closes a window, with      *)
(* interrupts disabled: one step each.  The main task does not disable     *)
(* interrupts, and a terminal that opens its window has enabled them by    *)
(* printing its prompt: their calls are split into the steps between which *)
(* they can be preempted (todo).                                           *)
(***************************************************************************)
EXTENDS Integers, FiniteSets, SequencesExt

CONSTANTS
  ScreenWidth,  \* pixels of the screen
  WindowWidth,  \* pixels of a top-level window
  OpenAt,       \* places at which programs open their window
  Programs,     \* tasks that open a window with the OpenWindow system call
  Terminals,    \* tasks that run TaskTerminal
  MaxLayer,     \* bound: ids NewLayer gives out
  MaxMoves,     \* bound: mouse reports
  MainTask

ASSUME LayerAssumption ==
  /\ ScreenWidth \in Nat \ {0} /\ WindowWidth \in Nat \ {0, 1} /\ OpenAt \subseteq Int
  /\ MaxLayer \in Nat /\ MaxLayer >= 5 /\ MaxMoves \in Nat  \* the boot makes five layers
  /\ Programs \cap Terminals = {} /\ MainTask \notin Programs \cup Terminals

VARIABLES
  mgr,     \* LayerManager, ActiveLayer, layer_task_map, back buffer and screen
  mouse,   \* Mouse: position_, drag_layer_id_, previous_buttons_, reports so far
  todo,    \* what is left of the current call of a task that can be preempted, as steps
  window,  \* per task the layer it opened (0: none)
  closing, \* per task the CloseLayer call between its reads and its cli
  inbox,   \* layers the main task has kLayer messages for
  fault,   \* the undefined behaviour reached, if any
  raced,   \* a window came or went while a task used what it had read before (history)
  asked    \* tasks with a kWindowClose in their queue

vars == <<mgr, mouse, todo, window, closing, inbox, fault, raced, asked>>

Tasks == Programs \cup Terminals
Threads == {MainTask} \cup Terminals
Pixels == 0 .. ScreenWidth - 1
AnyArea == {a .. b : a, b \in Pixels}

NoLayer == 0
BgLayer == 1
ConsoleLayer == 2
MainWindow == 3
TextWindow == 4
MouseLayer == 5

Kinds == {"desktop", "console", "window", "cursor"}

(***************************************************************************)
(* Layers and windows.                                                     *)
(***************************************************************************)
Width(kind) ==
  CASE kind = "desktop" -> ScreenWidth
    [] kind = "console" -> ScreenWidth - 1
    [] kind = "window"  -> WindowWidth
    [] kind = "cursor"  -> 2      \* its second pixel is transparent

Area(layer) == layer.pos .. layer.pos + Width(layer.kind) - 1

\* ToplevelWindow::GetWindowRegion; offset is relative to the window
GetWindowRegion(offset) ==
  CASE offset = 0 -> "TitleBar"
    [] offset = 1 -> "CloseButton"
    [] OTHER      -> "Other"

Content(m, id, p) ==
  [layer |-> id,
   lit   |-> m.layers[id].kind = "window" /\ p = m.layers[id].pos /\ m.layers[id].lit]

\* Window::DrawTo: an opaque window is clipped to the area, a window with a
\* transparent colour draws all its other pixels whatever the area is
Drawn(m, id, area) ==
  IF m.layers[id].kind = "cursor" THEN {m.layers[id].pos} ELSE Area(m.layers[id]) \cap area
DrawTo(m, id, area) ==
  [m EXCEPT !.back = [p \in Pixels |-> IF p \in Drawn(m, id, area) THEN Content(m, id, p) ELSE m.back[p]]]

\* FrameBuffer::Copy of the back buffer to the same place of the screen
CopyToScreen(m, area) ==
  [m EXCEPT !.screen = [p \in Pixels |-> IF p \in area THEN m.back[p] ELSE m.screen[p]]]

(***************************************************************************)
(* LayerManager.                                                           *)
(***************************************************************************)
Live(m) == DOMAIN m.layers
Height(m, id) == SelectInSeq(m.stack, LAMBDA l : l = id)  \* 1 is the bottom, 0: not shown

NewLayer(m, pos) ==
  [m EXCEPT !.latest = @ + 1,
            !.layers = [l \in Live(m) \cup {m.latest + 1} |->
                          IF l = m.latest + 1 THEN [pos |-> pos, kind |-> "window", lit |-> FALSE] ELSE m.layers[l]]]

Hide(m, id) == [m EXCEPT !.stack = RemoveFirst(@, id)]

RemoveLayer(m, id) ==
  LET h == Hide(m, id)
  IN [h EXCEPT !.layers = [l \in Live(h) \ {id} |-> h.layers[l]]]

\* UpDown(id, new_height): height counts from 0; the iterator to the new place
\* is taken before the layer is erased
UpDown(m, id, new_height) ==
  IF new_height < 0 THEN Hide(m, id)
  ELSE LET h == Min({new_height, Len(m.stack)})
           rest == Hide(m, id).stack
           at == IF Height(m, id) = 0 THEN h ELSE Min({h, Len(m.stack) - 1})
       IN [m EXCEPT !.stack = InsertAt(rest, at + 1, id)]

\* the loop over layer_stack_ from height h up, each layer over the ones before
Over(m, h, area, p) == {k \in h .. Len(m.stack) : p \in Drawn(m, m.stack[k], area)}
Painted(m, h, area) ==
  [p \in Pixels |-> IF Over(m, h, area, p) = {} THEN m.back[p]
                    ELSE Content(m, m.stack[Max(Over(m, h, area, p))], p)]
DrawFrom(m, h, area) == CopyToScreen([m EXCEPT !.back = Painted(m, h, area)], area)

DrawArea(m, area) == DrawFrom(m, 1, area)

\* Draw(id) of a layer that is not in the stack copies an area that was never
\* initialised: the same pixels of the back buffer, whichever they are
DrawOutcomes(m, id) ==
  IF Height(m, id) > 0 THEN {DrawFrom(m, Height(m, id), Area(m.layers[id]))}
  ELSE {CopyToScreen(m, area) : area \in AnyArea}

\* FindLayerByPosition: the highest layer over the pixel, the cursor excluded
FindLayerByPosition(m, p) ==
  LET over == {h \in DOMAIN m.stack : /\ m.stack[h] # m.mouse
                                      /\ p \in Area(m.layers[m.stack[h]])}
  IN IF over = {} THEN NoLayer ELSE m.stack[Max(over)]

(***************************************************************************)
(* ActiveLayer.  The two halves of Activate, each up to its Draw.          *)
(***************************************************************************)
Light(m, id, lit) == [m EXCEPT !.layers[id].lit = lit]

\* SendWindowActiveMessage: ignored when no task is registered for the layer
SendWindowActive(m, id, activate) ==
  IF id \in DOMAIN m.owner THEN [m EXCEPT !.told[m.owner[id]] = activate] ELSE m

\* Mutant: the active window is put at the height of the cursor.
AtCursor(m) == Height(m, m.mouse) - 1

\* GetHeight(mouse_layer_) - 1, counted from 0: without a cursor it is negative,
\* and UpDown hides the window
BelowCursor(m) == Height(m, m.mouse) - 2

Raise(m, id) ==
  LET bottom == UpDown(m, id, 0)
  IN UpDown(bottom, id, BelowCursor(bottom))

Deactivated(m) ==
  IF m.active = NoLayer THEN {m}
  ELSE {SendWindowActive(d, m.active, FALSE) : d \in DrawOutcomes(Light(m, m.active, FALSE), m.active)}

Activated(m, id) ==
  LET set == [m EXCEPT !.active = id]
  IN IF id = NoLayer THEN {set}
     ELSE {SendWindowActive(d, id, TRUE) : d \in DrawOutcomes(Raise(Light(set, id, TRUE), id), id)}

\* Activate as a masked section runs it
Activate(m, id) ==
  IF m.active = id THEN {m} ELSE UNION {Activated(d, id) : d \in Deactivated(m)}

(***************************************************************************)
(* InitializeLayer, InitializeMainWindow, InitializeTextWindow,            *)
(* the first draw of the whole screen and InitializeMouse, which puts the  *)
(* cursor on top of the stack but does not draw it.  main.cpp has the last *)
(* one commented out: the kernel boots with the cursor or without.         *)
(***************************************************************************)
BootLayers ==  \* by id: BgLayer, ConsoleLayer, MainWindow, TextWindow, MouseLayer
  << [pos |-> 0, kind |-> "desktop", lit |-> FALSE],
     [pos |-> 0, kind |-> "console", lit |-> FALSE],
     [pos |-> 1, kind |-> "window",  lit |-> FALSE],
     [pos |-> 2, kind |-> "window",  lit |-> FALSE],
     [pos |-> 0, kind |-> "cursor",  lit |-> FALSE] >>

NoPixel == [layer |-> NoLayer, lit |-> FALSE]

BootMgr(cursor) ==
  LET n == IF cursor THEN MouseLayer ELSE TextWindow
      m == [layers |-> [l \in 1 .. n |-> BootLayers[l]], latest |-> n,
            stack  |-> <<BgLayer, ConsoleLayer, MainWindow, TextWindow>>,
            mouse  |-> IF cursor THEN MouseLayer ELSE NoLayer,
            active |-> NoLayer, owner |-> <<>>, told |-> [t \in Tasks |-> FALSE],
            back   |-> [p \in Pixels |-> NoPixel], screen |-> [p \in Pixels |-> NoPixel]]
  IN IF cursor THEN UpDown(DrawArea(m, Pixels), MouseLayer, Len(m.stack)) ELSE DrawArea(m, Pixels)

Idle == [op |-> "idle"]

Init ==
  /\ \E cursor \in BOOLEAN : mgr = BootMgr(cursor)
  /\ mouse = [pos |-> 0, drag |-> NoLayer, pressed |-> FALSE, moves |-> 0]
  /\ todo = [k \in Threads |-> <<>>]
  /\ window = [t \in Tasks |-> NoLayer]
  /\ closing = [t \in Tasks |-> Idle]
  /\ inbox = {}
  /\ fault = "none"
  /\ raced = FALSE
  /\ asked = {}

(***************************************************************************)
(* Tasks that can be preempted in the middle of a call.  todo[k] is the    *)
(* rest of the current call of task k; Push puts the steps of a callee in  *)
(* front of it.                                                            *)
(***************************************************************************)
Run == fault = "none"
Idling(k) == Run /\ todo[k] = <<>>
Doing(k, op) == Run /\ todo[k] # <<>> /\ Head(todo[k]).op = op
Push(k, steps) == todo' = [todo EXCEPT ![k] = steps \o Tail(@)]

DrawStep(id) == [op |-> "draw", id |-> id]
AreaStep(area) == [op |-> "area", area |-> area]
PaintStep(h, area) == [op |-> "paint", h |-> h, area |-> area]
CopyStep(area) == [op |-> "copy", area |-> area]

\* A change of layer_stack_ while the loop of another task holds an iterator
\* into it is undefined behaviour.
Iterating(others) == \E k \in others : Doing(k, "paint")
ChangesStack(others) == fault' = IF Iterating(others) THEN "iterator" ELSE fault

\* Another task is inside Activate, which reads active_layer_ again and again.
Activating(others) ==
  \E k \in others : \E i \in DOMAIN todo[k] : todo[k][i].op \in {"activateNew", "raise", "drawActive", "tell"}
Intrudes(others, hazard) == raced' = (raced \/ hazard \/ Activating(others))

\* Mutant: the place the layer left is not drawn.
MovesLeavesTrail(k) ==
  /\ Doing(k, "move")
  /\ LET id == Head(todo[k]).id
     IN IF id \notin Live(mgr)
        THEN fault' = "null" /\ UNCHANGED <<mgr, todo>>
        ELSE /\ mgr' = [mgr EXCEPT !.layers[id].pos = @ + Head(todo[k]).by]
             /\ Push(k, <<DrawStep(id)>>)
             /\ UNCHANGED fault
  /\ UNCHANGED <<mouse, window, closing, inbox, raced, asked>>

\* Move and MoveRelative: a layer that is gone is dereferenced as a null pointer
Moves(k) ==
  /\ Doing(k, "move")
  /\ LET id == Head(todo[k]).id
     IN IF id \notin Live(mgr)
        THEN fault' = "null" /\ UNCHANGED <<mgr, todo>>
        ELSE /\ mgr' = [mgr EXCEPT !.layers[id].pos = @ + Head(todo[k]).by]
             /\ Push(k, <<AreaStep(Area(mgr.layers[id])), DrawStep(id)>>)
             /\ UNCHANGED fault
  /\ UNCHANGED <<mouse, window, closing, inbox, raced, asked>>

\* Draw(area): the loop begins
BeginsArea(k) ==
  /\ Doing(k, "area")
  /\ Push(k, <<PaintStep(1, Head(todo[k]).area)>>)
  /\ UNCHANGED <<mgr, mouse, window, closing, inbox, fault, raced, asked>>

\* Draw(id): the loop reaches the layer and reads its area, or never does
BeginsDraw(k) ==
  /\ Doing(k, "draw")
  /\ LET h == Height(mgr, Head(todo[k]).id)
     IN \/ /\ h > 0
           /\ Push(k, <<PaintStep(h, Area(mgr.layers[Head(todo[k]).id]))>>)
        \/ /\ h = 0
           /\ \E area \in AnyArea : Push(k, <<CopyStep(area)>>)
  /\ UNCHANGED <<mgr, mouse, window, closing, inbox, fault, raced, asked>>

\* one turn of the loop over layer_stack_, and the Copy after it
Paints(k) ==
  /\ Doing(k, "paint")
  /\ LET s == Head(todo[k])
     IN \/ /\ s.h <= Len(mgr.stack)
           /\ mgr' = DrawTo(mgr, mgr.stack[s.h], s.area)
           /\ Push(k, <<PaintStep(s.h + 1, s.area)>>)
        \/ /\ s.h > Len(mgr.stack)
           /\ mgr' = CopyToScreen(mgr, s.area)
           /\ Push(k, <<>>)
  /\ UNCHANGED <<mouse, window, closing, inbox, fault, raced, asked>>

Copies(k) ==
  /\ Doing(k, "copy")
  /\ mgr' = CopyToScreen(mgr, Head(todo[k]).area)
  /\ Push(k, <<>>)
  /\ UNCHANGED <<mouse, window, closing, inbox, fault, raced, asked>>

\* Activate: the old window first
Activates(k) ==
  /\ Doing(k, "activate")
  /\ LET id == Head(todo[k]).id
         on == [op |-> "activateNew", id |-> id]
     IN \/ /\ mgr.active = id
           /\ Push(k, <<>>) /\ UNCHANGED <<mgr, fault, raced>>
        \/ /\ mgr.active # id /\ mgr.active = NoLayer
           /\ Push(k, <<on>>) /\ UNCHANGED <<mgr, fault>> /\ Intrudes(Threads \ {k}, FALSE)
        \/ /\ mgr.active # id /\ mgr.active # NoLayer
           /\ mgr' = Light(mgr, mgr.active, FALSE)
           /\ fault' = IF mgr.active \in Live(mgr) THEN fault ELSE "null"
           /\ Push(k, <<[op |-> "drawActive"], [op |-> "tell", activate |-> FALSE], on>>)
           /\ Intrudes(Threads \ {k}, FALSE)
  /\ UNCHANGED <<mouse, window, closing, inbox, asked>>

\* ... then active_layer_ is set and the new window raised below the cursor
ActivatesNew(k) ==
  /\ Doing(k, "activateNew")
  /\ LET id == Head(todo[k]).id
     IN \/ /\ id = NoLayer
           /\ mgr' = [mgr EXCEPT !.active = NoLayer]
           /\ Push(k, <<>>) /\ UNCHANGED fault
        \/ /\ id \in Live(mgr)
           /\ mgr' = Light([mgr EXCEPT !.active = id], id, TRUE)
           /\ Push(k, <<[op |-> "raise", to |-> "bottom"], [op |-> "raise", to |-> "cursor"],
                        [op |-> "drawActive"], [op |-> "tell", activate |-> TRUE]>>)
           /\ UNCHANGED fault
        \/ /\ id \notin {NoLayer} \cup Live(mgr)
           /\ fault' = "null" /\ UNCHANGED <<mgr, todo>>
  /\ UNCHANGED <<mouse, window, closing, inbox, raced, asked>>

\* ... by two calls of UpDown; the null pointer of a layer that is gone would
\* enter the stack
Raises(k) ==
  /\ Doing(k, "raise")
  /\ LET id == mgr.active
         h == IF Head(todo[k]).to = "bottom" THEN 0 ELSE BelowCursor(mgr)
     IN \/ /\ id \in Live(mgr)
           /\ mgr' = UpDown(mgr, id, h) /\ Push(k, <<>>) /\ ChangesStack(Threads \ {k})
        \/ /\ id \notin Live(mgr)
           /\ fault' = "null" /\ UNCHANGED <<mgr, todo>>
  /\ UNCHANGED <<mouse, window, closing, inbox, raced, asked>>

\* the Draw of either half, of the layer that is the active one by then
DrawsActive(k) ==
  /\ Doing(k, "drawActive")
  /\ Push(k, <<DrawStep(mgr.active)>>)
  /\ UNCHANGED <<mgr, mouse, window, closing, inbox, fault, raced, asked>>

Tells(k) ==
  /\ Doing(k, "tell")
  /\ mgr' = SendWindowActive(mgr, mgr.active, Head(todo[k]).activate)
  /\ Push(k, <<>>)
  /\ UNCHANGED <<mouse, window, closing, inbox, fault, raced, asked>>

Step(k) ==
  \/ Moves(k) \/ BeginsArea(k) \/ BeginsDraw(k) \/ Paints(k) \/ Copies(k)
  \/ Activates(k) \/ ActivatesNew(k) \/ Raises(k) \/ DrawsActive(k) \/ Tells(k)

(***************************************************************************)
(* The main task.                                                          *)
(***************************************************************************)
\* the loop's own Draw(main_window_layer_id), and the text box redrawn when its
\* cursor blinks or a key is typed into it
MainDraws ==
  /\ Idling(MainTask)
  /\ \E id \in {MainWindow, TextWindow} : todo' = [todo EXCEPT ![MainTask] = <<DrawStep(id)>>]
  /\ UNCHANGED <<mgr, mouse, window, closing, inbox, fault, raced, asked>>

\* ProcessLayerMessage: Draw and DrawArea of a layer a terminal printed to
MainReceivesLayer ==
  /\ Idling(MainTask)
  /\ \E id \in inbox : inbox' = inbox \ {id} /\ todo' = [todo EXCEPT ![MainTask] = <<DrawStep(id)>>]
  /\ UNCHANGED <<mgr, mouse, window, closing, fault, raced, asked>>

\* ElementMin and ElementMax of OnInterrupt
Clamp(x) == Max({Min({x, ScreenWidth - 1}), 0})

\* Mouse::OnInterrupt, up to the Move of the cursor
OnInterrupt ==
  /\ Idling(MainTask) /\ mgr.mouse # NoLayer /\ mouse.moves < MaxMoves
  /\ \E dx \in {-1, 0, 1}, left \in BOOLEAN :
       LET p == Clamp(mouse.pos + dx)
       IN /\ mouse' = [mouse EXCEPT !.pos = p, !.moves = @ + 1]
          /\ todo' = [todo EXCEPT ![MainTask] =
                        <<[op |-> "move", id |-> mgr.mouse, by |-> p - mouse.pos],
                          [op |-> "button", left |-> left, by |-> p - mouse.pos]>>]
  /\ UNCHANGED <<mgr, window, closing, inbox, fault, raced, asked>>

\* the press, hold and release branches of OnInterrupt
MainButton ==
  /\ Doing(MainTask, "button")
  /\ LET left == Head(todo[MainTask]).left
         id == FindLayerByPosition(mgr, mouse.pos)
         window_hit == id # NoLayer /\ mgr.layers[id].kind = "window"
         region == IF window_hit THEN GetWindowRegion(mouse.pos - mgr.layers[id].pos) ELSE "Other"
         drag == IF region = "TitleBar" THEN id ELSE mouse.drag
         send(clicked) == [op |-> "send", clicked |-> clicked]
     IN \/ /\ ~mouse.pressed /\ left
           /\ mouse' = [mouse EXCEPT !.drag = drag, !.pressed = TRUE]
           /\ Push(MainTask, <<[op |-> "activate", id |-> IF window_hit THEN id ELSE NoLayer],
                              send(IF region = "CloseButton" THEN id ELSE NoLayer)>>)
        \/ /\ mouse.pressed /\ left
           /\ UNCHANGED mouse
           /\ Push(MainTask, IF mouse.drag # NoLayer
                             THEN <<[op |-> "move", id |-> mouse.drag, by |-> Head(todo[MainTask]).by], send(NoLayer)>>
                             ELSE <<send(NoLayer)>>)
        \/ /\ mouse.pressed /\ ~left
           /\ mouse' = [mouse EXCEPT !.drag = NoLayer, !.pressed = FALSE]
           /\ Push(MainTask, <<send(NoLayer)>>)
        \/ /\ ~mouse.pressed /\ ~left
           /\ UNCHANGED mouse
           /\ Push(MainTask, <<send(NoLayer)>>)
  /\ UNCHANGED <<mgr, window, closing, inbox, fault, raced, asked>>

\* the end of OnInterrupt: while nothing is dragged, a mouse message or, after
\* a click on a close button, kWindowClose to the active layer's task
MainSends ==
  /\ Doing(MainTask, "send")
  /\ LET clicked == Head(todo[MainTask]).clicked
     IN asked' = IF mouse.drag = NoLayer /\ clicked # NoLayer /\ mgr.active \in DOMAIN mgr.owner
                 THEN asked \cup {mgr.owner[mgr.active]} ELSE asked
  /\ Push(MainTask, <<>>)
  /\ UNCHANGED <<mgr, mouse, window, closing, inbox, fault, raced>>

(***************************************************************************)
(* Applications and terminals.                                             *)
(***************************************************************************)
\* a masked section that changes the stack
Masked(outcomes, hazard) ==
  /\ mgr' \in outcomes
  /\ ChangesStack(Threads)
  /\ Intrudes(Threads, hazard)

Register(m, id, t) == [m EXCEPT !.owner = [l \in DOMAIN @ \cup {id} |-> IF l = id THEN t ELSE m.owner[l]]]

\* OpenWindow: the owner is registered after Activate
OpenWindow(t) ==
  /\ Run /\ t \in Programs /\ window[t] \notin Live(mgr) /\ mgr.latest < MaxLayer
  /\ \E pos \in OpenAt :
       LET m == NewLayer(mgr, pos)
       IN Masked({Register(a, m.latest, t) : a \in Activate(m, m.latest)}, FALSE)
  /\ window' = [window EXCEPT ![t] = mgr.latest + 1]
  /\ UNCHANGED <<mouse, todo, closing, inbox, asked>>

\* TaskTerminal: the constructor makes the layer and prints the prompt, which
\* ends with sti; then the layer, not in the stack yet, is moved, the owner
\* registered and the window activated
OpenTerminal(t) ==
  /\ Idling(t) /\ t \in Terminals /\ window[t] \notin Live(mgr) /\ mgr.latest < MaxLayer
  /\ LET id == mgr.latest + 1
     IN /\ mgr' = [NewLayer(mgr, 0) EXCEPT !.told[t] = FALSE]
        /\ window' = [window EXCEPT ![t] = id]
        /\ inbox' = inbox \cup {id}
        /\ todo' = [todo EXCEPT ![t] = <<[op |-> "move", id |-> id, by |-> 1], [op |-> "register", id |-> id],
                                         [op |-> "activate", id |-> id]>>]
  /\ UNCHANGED <<mouse, closing, fault, raced, asked>>

Registers(t) ==
  /\ Doing(t, "register")
  /\ mgr' = Register(mgr, Head(todo[t]).id, t)
  /\ Push(t, <<>>)
  /\ UNCHANGED <<mouse, window, closing, inbox, fault, raced, asked>>

\* DoWinFunc's masked Draw after the application wrote to its window
WinRedraw(t) ==
  /\ Run /\ t \in Programs /\ window[t] \in Live(mgr)
  /\ mgr' \in DrawOutcomes(mgr, window[t])
  /\ UNCHANGED <<mouse, todo, window, closing, inbox, fault, raced, asked>>

\* a terminal prints, reads a key or blinks: a kLayer message to the main task
SendLayerMessage(t) ==
  /\ t \in Terminals /\ Idling(t) /\ window[t] \in Live(mgr)
  /\ inbox' = inbox \cup {window[t]}
  /\ UNCHANGED <<mgr, mouse, todo, window, closing, fault, raced, asked>>

\* CloseLayer, before cli: the layer is found and its area read.  A terminal
\* calls it for a kWindowClose, a program whenever it likes.
CloseBegin(t) ==
  /\ Run /\ closing[t] = Idle /\ window[t] \in Live(mgr)
  /\ t \in Terminals => t \in asked /\ Idling(t)
  /\ asked' = asked \ {t}
  /\ closing' = [closing EXCEPT ![t] = [op |-> "close", area |-> Area(mgr.layers[window[t]])]]
  /\ UNCHANGED <<mgr, mouse, todo, window, inbox, fault, raced>>

\* Somebody still uses what it knows of the layer: it is being dragged, its place
\* is not the one read before cli, or a task is about to activate it.
InUse(id, area) ==
  \/ mouse.drag = id \/ area # Area(mgr.layers[id])
  \/ \E k \in Threads : \E i \in DOMAIN todo[k] : todo[k][i].op = "activate" /\ todo[k][i].id = id

\* Mutant: the closed layer stays the active one.
CloseFinishKeepsActive(t) ==
  /\ Run /\ closing[t] # Idle
  /\ LET id == window[t]
         closed == DrawArea(RemoveLayer(mgr, id), closing[t].area)
     IN Masked({[closed EXCEPT !.owner = [l \in DOMAIN closed.owner \ {id} |-> closed.owner[l]]]},
               InUse(id, closing[t].area))
  /\ closing' = [closing EXCEPT ![t] = Idle]
  /\ UNCHANGED <<mouse, todo, window, inbox, asked>>

\* ... and the masked section
CloseFinish(t) ==
  /\ Run /\ closing[t] # Idle
  /\ LET id == window[t]
         closed(a) == DrawArea(RemoveLayer(a, id), closing[t].area)
         forget(m) == [m EXCEPT !.owner = [l \in DOMAIN m.owner \ {id} |-> m.owner[l]]]
     IN Masked({forget(closed(a)) : a \in Activate(mgr, NoLayer)}, InUse(id, closing[t].area))
  /\ closing' = [closing EXCEPT ![t] = Idle]
  /\ UNCHANGED <<mouse, todo, window, inbox, asked>>

Next ==
  \/ MainDraws \/ MainReceivesLayer \/ OnInterrupt \/ MainButton \/ MainSends
  \/ \E k \in Threads : Step(k)
  \/ \E t \in Terminals : OpenTerminal(t) \/ Registers(t) \/ SendLayerMessage(t)
  \/ \E t \in Programs : OpenWindow(t) \/ WinRedraw(t)
  \/ \E t \in Tasks : CloseBegin(t) \/ CloseFinish(t)

Spec == Init /\ [][Next]_vars

(***************************************************************************)
(* Correctness.                                                            *)
(***************************************************************************)
TypeOK ==
  /\ DOMAIN mgr.layers \subseteq 1 .. MaxLayer
  /\ \A l \in Live(mgr) : mgr.layers[l] \in [pos : Int, kind : Kinds, lit : BOOLEAN]
  /\ mgr.stack \in Seq(1 .. MaxLayer)
  /\ mgr.latest \in 0 .. MaxLayer /\ mgr.active \in 0 .. MaxLayer
  /\ mgr.back \in [Pixels -> [layer : 0 .. MaxLayer, lit : BOOLEAN]]
  /\ mgr.screen \in [Pixels -> [layer : 0 .. MaxLayer, lit : BOOLEAN]]
  /\ mgr.told \in [Tasks -> BOOLEAN]
  /\ mouse \in [pos : Pixels, drag : 0 .. MaxLayer, pressed : BOOLEAN, moves : 0 .. MaxMoves]
  /\ window \in [Tasks -> 0 .. MaxLayer]
  /\ fault \in {"none", "null", "iterator"} /\ raced \in BOOLEAN
  /\ asked \subseteq Tasks /\ inbox \subseteq 1 .. MaxLayer

\* The stack holds live layers, each once, and the cursor, if there is one, is
\* above them all; the active layer is alive: whatever tasks do between the
\* steps of others, as long as no iterator breaks (UpDown, Hide, Activate).
StackIntact ==
  /\ TypeOK
  /\ fault = "none" =>
       /\ IsInjective(mgr.stack)
       /\ Range(mgr.stack) \subseteq Live(mgr)
       /\ mgr.active \in {NoLayer} \cup Live(mgr)
       /\ mgr.mouse # NoLayer => Last(mgr.stack) = mgr.mouse

\* When no task is inside Activate, the active window lies right below the cursor
\* and is the one window whose title is drawn as active, and a terminal's last
\* kWindowActive says whether it is its own; without a cursor the active window
\* is hidden (Activate, CloseLayer).  Windows that come or go while another task
\* is inside Activate are excluded: that task then raises or tells a wrong one.
ActiveOnTop ==
  (fault = "none" /\ ~raced /\ ~Activating(Threads)) =>
    /\ mgr.active # NoLayer =>
         Height(mgr, mgr.active) = IF mgr.mouse = NoLayer THEN 0 ELSE Len(mgr.stack) - 1
    /\ {l \in Live(mgr) : mgr.layers[l].lit} = {mgr.active} \ {NoLayer}
    /\ \A t \in Terminals :
         window[t] \in Live(mgr) => mgr.told[t] = (mgr.active = window[t])

\* the pixel the stack defines
TopPixel(m, p) == Content(m, m.stack[Max(Over(m, 1, Pixels, p))], p)

\* pixels a task is still about to draw
StepArea(m, s) ==
  CASE s.op \in {"area", "paint"} -> s.area
    [] s.op \in {"draw", "move"} /\ s.id \in Live(m) -> Area(m.layers[s.id])
    [] s.op \in {"raise", "drawActive"} /\ m.active \in Live(m) -> Area(m.layers[m.active])
    [] OTHER -> {}
Pending == UNION {StepArea(mgr, s) : s \in UNION {Range(todo[k]) : k \in Threads}}

\* Drawing only what changed is enough: every pixel no task is busy with shows
\* the highest layer over it, although draws start in the middle of the stack,
\* redraw no lower layer, may copy an uninitialised area, and run in several
\* tasks at once on one back buffer, between whose steps windows come and go.
\* Excluded is what raced records: a window that comes or goes while another
\* task is inside Activate, and one closed that has been moved since CloseLayer
\* read its place, is dragged, or is about to be activated.  (The cursor appears
\* with its first move.)
ScreenIsStack ==
  (fault = "none" /\ ~raced) =>
    \A p \in Pixels \ Pending :
      mgr.screen[p] = TopPixel(mgr, p) \/ (mouse.moves = 0 /\ p = mouse.pos)

\* A layer that is gone is dereferenced only in the cases raced records; draws,
\* moves and messages of the main task and of terminals never do it otherwise,
\* whoever closes windows in between.
NullNeedsRace == fault = "null" => raced

=============================================================================
