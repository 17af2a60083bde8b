------------------------------- MODULE Layers -------------------------------
(***************************************************************************)
(* The layers and windows on the display (src/graphics.rs) and kproc()     *)
(* (src/kmain.rs), which turns mouse events into moves of layers.          *)
(*                                                                         *)
(* A layer is a rectangle with a buffer.  layer_stack is its place from    *)
(* bottom (desktop) to top (mouse cursor).  The display is never composed  *)
(* anew: update() repaints what one layer uncovered and what lies above    *)
(* it.  A pixel is the layer it came from, with a mark for the contents of *)
(* a window's frame.                                                       *)
(*                                                                         *)
(* Nothing locks the layer manager.  One call is a step here, and calls of *)
(* user processes come between the events that kproc() takes from the      *)
(* queue of the mouse: moves, the left clicks, and EV_SYN.                 *)
(***************************************************************************)
EXTENDS Integers, Sequences, FiniteSets, SequencesExt

CONSTANTS
    Width, Height,    \* of the display
    MouseShape,       \* the pixels of the cursor that are not transparent
    MouseWidth, MouseHeight,
    TitleBar,         \* title_bar_height
    Sizes,            \* sizes of the frames of windows
    Places,           \* where windows are created
    Moves,            \* relative moves of the mouse
    MaxClicks,        \* bound on the events of the left button
    MaxRel,           \* bound on the moves between two EV_SYN
    MaxLayer          \* bound on the layer ids

ASSUME DisplayAssumption ==
    /\ Width \in Nat \ {0} /\ Height \in Nat \ {0} /\ TitleBar \in Nat
    /\ MouseWidth \in Nat /\ MouseHeight \in Nat
    /\ MaxClicks \in Nat /\ MaxRel \in Nat /\ MaxLayer \in Nat /\ MaxLayer >= 1

ASSUME InputAssumption ==
    Sizes \subseteq Nat \X Nat /\ Places \subseteq Nat \X Nat /\ Moves \subseteq Int \X Int

VARIABLES
    layers,       \* LayerManager.layers
    layer_stack,  \* LayerManager.layer_stack, from bottom to top
    pressed,      \* LayerManager.event_info: pressed_id, pressed_x, pressed_y
    frame,        \* the contents of the buffer of each layer
    screen,       \* the frame buffer of the display
    clicks,       \* events of the left button so far, presses and releases in turn
    rels,         \* moves since the last EV_SYN
    missed,       \* history: some press of the button met no layer
    trail         \* history: the pixels of the cursor that were drawn and not noted

vars == <<layers, layer_stack, pressed, frame, screen, clicks, rels, missed, trail>>

MOUSE_LAYER_ID   == 0
DESKTOP_LAYER_ID == 1
Windows          == DOMAIN layers \ {MOUSE_LAYER_ID, DESKTOP_LAYER_ID}

Display == (0 .. Width - 1) \X (0 .. Height - 1)

-----------------------------------------------------------------------------
(***************************************************************************)
(* Drawing.                                                                *)
(***************************************************************************)

Rect(x, y, w, h)  == [x |-> x, y |-> y, w |-> w, h |-> h]
Now(l)            == Rect(l.x, l.y, l.w, l.h)
InRect(px, r)     == px[1] \in r.x .. r.x + r.w - 1 /\ px[2] \in r.y .. r.y + r.h - 1

\* The pixel of a layer's buffer: the title bar of a window has no frame.
Pixel(ls, fr, id, px) == <<id, IF px[2] - ls[id].y < TitleBar THEN 0 ELSE fr[id]>>

\* A pixel of the cursor with the transparent color is skipped.
Opaque(ls, id, px) ==
    id = MOUSE_LAYER_ID => <<px[1] - ls[id].x, px[2] - ls[id].y>> \in MouseShape

\* transfer_buffer_range(): the part of the layer in a rectangle.
Transfer(scr, ls, fr, id, r) ==
    [px \in Display |->
        IF InRect(px, r) /\ InRect(px, Now(ls[id])) /\ Opaque(ls, id, px)
        THEN Pixel(ls, fr, id, px) ELSE scr[px]]

\* The layers of a stack, one after the other, each in its rectangle of rects.
TransferAll(scr, ls, fr, stack, rects) ==
    LET drawn[i \in 0 .. Len(stack)] ==
            IF i = 0 THEN scr ELSE Transfer(drawn[i - 1], ls, fr, stack[i], rects[stack[i]])
    IN  drawn[Len(stack)]

\* Every layer where it is.
Everywhere(ls) == [k \in DOMAIN ls |-> Now(ls[k])]

\* update_prev_info()
Settled(ls, id) == [ls EXCEPT ![id].prev = Now(ls[id])]

PosIn(stack, id) == CHOOSE i \in DOMAIN stack : stack[i] = id

\* Mutations of Update: what the layer uncovered is not repainted, or what lies
\* above it is not.
Update_NoUncover(ls, fr, stack, id, scr) ==
    LET i == PosIn(stack, id)
    IN  TransferAll(scr, ls, fr, SubSeq(stack, i, Len(stack)), Everywhere(ls))
Update_NoneAbove(ls, fr, stack, id, scr) ==
    LET i     == PosIn(stack, id)
        below == TransferAll(scr, ls, fr, SubSeq(stack, 1, i - 1), [k \in DOMAIN ls |-> ls[id].prev])
    IN  TransferAll(below, ls, fr, <<id>>, Everywhere(ls))

\* update(): the layers below in the rectangle the layer was last drawn in, then
\* the layer and all above it.  Layers that are updated are on the stack.
Update(ls, fr, stack, id, scr) ==
    LET i     == PosIn(stack, id)
        below == TransferAll(scr, ls, fr, SubSeq(stack, 1, i - 1), [k \in DOMAIN ls |-> ls[id].prev])
    IN  TransferAll(below, ls, fr, SubSeq(stack, i, Len(stack)), Everywhere(ls))

\* The pixels of the cursor where it is.
CursorPixel  == <<MOUSE_LAYER_ID, 0>>
CursorAt(ls) ==
    {px \in Display : InRect(px, Now(ls[MOUSE_LAYER_ID])) /\ Opaque(ls, MOUSE_LAYER_ID, px)}

\* update() of another layer draws the cursor too, and does not note where.
Unnoted ==
    LET m == layers[MOUSE_LAYER_ID] IN IF m.prev = Now(m) THEN {} ELSE CursorAt(layers)

\* The trail that is seen once some pixels have been drawn and not noted.
Trailed(drawn) == {px \in trail \cup drawn : screen'[px] = CursorPixel}

-----------------------------------------------------------------------------
(***************************************************************************)
(* The stack.                                                              *)
(***************************************************************************)

\* get_layer_height(): 0 for a layer that is not shown.
GetLayerHeight(stack, id) == IF id \in Range(stack) THEN PosIn(stack, id) - 1 ELSE 0

\* Mutation of MoveLayer: a layer that is shown is not taken out first.
MoveLayer_Twice(stack, id, new_height) ==
    InsertAt(stack, Min({new_height, Len(stack)}) + 1, id)

\* move_layer() to a height that is not negative.
MoveLayer(stack, id, new_height) ==
    LET rest == IF id \in Range(stack) THEN RemoveAt(stack, PosIn(stack, id)) ELSE stack
    IN  InsertAt(rest, Min({new_height, Len(stack)}) + 1, id)

\* Layer::move_abs(): a layer may be moved to the edge, not beyond.
Clamp(v, limit) == IF v < 0 THEN 0 ELSE IF v > limit THEN limit ELSE v
MoveAbs(ls, id, x, y) == [ls EXCEPT ![id].x = Clamp(x, Width), ![id].y = Clamp(y, Height)]

\* Layer::move_rel()
MoveRel(ls, id, dx, dy) == MoveAbs(ls, id, ls[id].x + dx, ls[id].y + dy)

\* layers.insert()
With(f, id, x) == [k \in DOMAIN f \cup {id} |-> IF k = id THEN x ELSE f[k]]

\* Layer::new()
NewLayer(x, y, w, h) == [x |-> x, y |-> y, w |-> w, h |-> h, prev |-> Rect(0, 0, 0, 0)]

-----------------------------------------------------------------------------
(***************************************************************************)
(* init(): the cursor and the desktop are shown and drawn.                 *)
(***************************************************************************)

LmInit ==
    /\ layers = [id \in {MOUSE_LAYER_ID, DESKTOP_LAYER_ID} |->
                    IF id = MOUSE_LAYER_ID THEN NewLayer(0, 0, MouseWidth, MouseHeight)
                                           ELSE NewLayer(0, 0, Width, Height)]
    /\ layer_stack = MoveLayer(MoveLayer(<< >>, MOUSE_LAYER_ID, MaxLayer), DESKTOP_LAYER_ID, 0)
    /\ frame = [id \in {MOUSE_LAYER_ID, DESKTOP_LAYER_ID} |-> 0]
    /\ screen = TransferAll([px \in Display |-> << >>], layers, frame, layer_stack, Everywhere(layers))
    /\ pressed = [id |-> 0, x |-> 0, y |-> 0]
    /\ clicks = 0
    /\ rels = 0
    /\ missed = FALSE
    /\ trail = CursorAt(layers)

-----------------------------------------------------------------------------
(***************************************************************************)
(* Windows: calls of user processes.                                       *)
(***************************************************************************)

\* sys_create_window(): create_window() and show_window(), right above the
\* desktop.
CreateWindow ==
    LET id == Cardinality(DOMAIN layers)
    IN  /\ id <= MaxLayer
        /\ layer_stack' = MoveLayer(layer_stack, id, 1)
        /\ frame' = With(frame, id, 0)
        /\ \E place \in Places, size \in Sizes :
              LET created == With(layers, id, NewLayer(place[1], place[2], size[1], size[2] + TitleBar))
              IN  /\ layers' = Settled(created, id)
                  /\ screen' = Update(created, frame', layer_stack', id, screen)
        /\ trail' = Trailed(Unnoted)
        /\ UNCHANGED <<pressed, clicks, rels, missed>>

\* sys_sync_window(): the program has drawn in its frame, and update_frame()
\* copies it below the title bar.
SyncWindow ==
    \E id \in Windows :
        /\ frame' = [frame EXCEPT ![id] = 1 - @]
        /\ layers' = Settled(layers, id)
        /\ screen' = Update(layers, frame', layer_stack, id, screen)
        /\ trail' = Trailed(Unnoted)
        /\ UNCHANGED <<layer_stack, pressed, clicks, rels, missed>>

-----------------------------------------------------------------------------
(***************************************************************************)
(* Events.                                                                 *)
(***************************************************************************)

\* on_event() looks for a layer strictly right of and below its corner.
IsOverlapping(x1, x2, x3, x4) == x4 > x1 /\ x2 > x3
Under(l, x, y) == IsOverlapping(x, x, l.x, l.x + l.w) /\ IsOverlapping(y, y, l.y, l.y + l.h)

\* Mutation of Hit: only the desktop is met.
Hit_Lowest(ls, x, y) == {i \in {1} : Under(ls[layer_stack[i]], x, y)}

\* The positions below the cursor of the layers that a press meets.  The last
\* one counts.
Hit(ls, x, y) ==
    {i \in 1 .. PosIn(layer_stack, MOUSE_LAYER_ID) - 1 : Under(ls[layer_stack[i]], x, y)}

\* Window::on_event(MouseLeftPress): the window is raised to just below the
\* cursor, unless it is there.  The desktop takes no events.
Raise(id) ==
    LET top == GetLayerHeight(layer_stack, MOUSE_LAYER_ID) - 1
    IN  IF id \in Windows /\ GetLayerHeight(layer_stack, id) # top
        THEN /\ layer_stack' = MoveLayer(layer_stack, id, top)
             /\ layers' = Settled(layers, id)
             /\ screen' = Update(layers, frame, layer_stack', id, screen)
             /\ trail' = Trailed(Unnoted)
        ELSE UNCHANGED <<layers, layer_stack, screen, trail>>

\* on_event(MouseLeftPress): a press that meets no layer leaves pressed_id alone.
MouseLeftPress ==
    LET m   == layers[MOUSE_LAYER_ID]
        hit == Hit(layers, m.x, m.y)
    IN  /\ clicks < MaxClicks /\ clicks % 2 = 0 /\ clicks' = clicks + 1
        /\ \/ /\ hit # {}
              /\ pressed' = [id |-> layer_stack[Max(hit)], x |-> m.x, y |-> m.y]
              /\ Raise(layer_stack[Max(hit)])
              /\ UNCHANGED missed
           \/ /\ hit = {}
              /\ pressed' = [pressed EXCEPT !.x = m.x, !.y = m.y]
              /\ missed' = TRUE
              /\ UNCHANGED <<layers, layer_stack, screen, trail>>
        /\ UNCHANGED <<frame, rels>>

\* Mutation of Drop: the window is put where the cursor is.
Drop_AtCursor(l, x, y) == <<x, y>>

\* Where a window goes whose title bar was dragged to (x, y).
Drop(l, x, y) == <<x - (pressed.x - l.x), y - (pressed.y - l.y)>>

\* on_event(MouseLeftRelease): the window of the last press that met a layer is
\* moved, if its title bar was pressed.
MouseLeftRelease ==
    LET id      == pressed.id
        m       == layers[MOUSE_LAYER_ID]
        to      == Drop(layers[id], m.x, m.y)
        moved   == MoveAbs(layers, id, to[1], to[2])
        dragged == id \in Windows /\ pressed.y <= layers[id].y + TitleBar
    IN  /\ clicks < MaxClicks /\ clicks % 2 = 1 /\ clicks' = clicks + 1
        /\ \/ /\ dragged
              /\ layers' = Settled(moved, id)
              /\ screen' = Update(moved, frame, layer_stack, id, screen)
              /\ trail' = Trailed(Unnoted)
           \/ ~dragged /\ UNCHANGED <<layers, screen, trail>>
        /\ UNCHANGED <<layer_stack, pressed, frame, rels, missed>>

\* EV_REL: the cursor is moved and not drawn.
MouseRel ==
    /\ rels < MaxRel
    /\ \E d \in Moves : layers' = MoveRel(layers, MOUSE_LAYER_ID, d[1], d[2])
    /\ rels' = rels + 1
    /\ UNCHANGED <<layer_stack, pressed, frame, screen, clicks, missed, trail>>

\* EV_SYN: the cursor is drawn.
MouseSyn ==
    /\ layers' = Settled(layers, MOUSE_LAYER_ID)
    /\ screen' = Update(layers, frame, layer_stack, MOUSE_LAYER_ID, screen)
    /\ trail' = Trailed({})
    /\ rels' = 0
    /\ UNCHANGED <<layer_stack, pressed, frame, clicks, missed>>

LmNext == CreateWindow \/ SyncWindow \/ MouseRel \/ MouseLeftPress \/ MouseLeftRelease \/ MouseSyn

LmSpec == LmInit /\ [][LmNext]_vars

-----------------------------------------------------------------------------
(***************************************************************************)
(* Properties.                                                             *)
(***************************************************************************)

\* Every layer is shown once, with the desktop at the bottom and the cursor on
\* top: get_layer_height() answers 0 for a layer it does not find, and
\* Window::on_event() subtracts one from the height of the cursor.
StackSound ==
    /\ Range(layer_stack) = DOMAIN layers
    /\ Len(layer_stack) = Cardinality(DOMAIN layers)
    /\ Head(layer_stack) = DESKTOP_LAYER_ID
    /\ Last(layer_stack) = MOUSE_LAYER_ID

\* The topmost layer with a pixel at px.
Visible(px, ids) ==
    LET at == {i \in DOMAIN layer_stack : LET id == layer_stack[i] IN
                    id \in ids /\ InRect(px, Now(layers[id])) /\ Opaque(layers, id, px)}
    IN  layer_stack[Max(at)]

\* Once EV_SYN has drawn the cursor where it is, the screen is the composition of
\* all layers, although every update() repaints a part of it only.  The one
\* exception is an image of the cursor whose place was not noted and that is
\* therefore not removed: that of draw_all() at boot, and that of an update() of
\* a window between a move of the cursor and its EV_SYN.
ScreenExact ==
    rels = 0 =>
        \A px \in Display :
            \/ screen[px] = Pixel(layers, frame, Visible(px, DOMAIN layers), px)
            \/ px \in trail /\ screen[px] = CursorPixel

\* A press goes to the layer that is seen at the cursor and brings it to the
\* top, unless the cursor is on its left or upper edge or off the display.
PressHitsVisible ==
    [][ pressed' # pressed /\ <<pressed'.x, pressed'.y>> \in Display =>
            LET id == Visible(<<pressed'.x, pressed'.y>>, DOMAIN layers \ {MOUSE_LAYER_ID})
            IN  pressed'.x # layers[id].x /\ pressed'.y # layers[id].y =>
                    /\ pressed'.id = id
                    /\ id \in Windows => layer_stack'[Len(layer_stack') - 1] = id ]_vars

\* A window cannot be dragged out of sight, as long as every press has met a
\* layer: the cursor holds it right of and below its corner.
WindowsStayVisible ==
    ~missed => \A id \in Windows : layers[id].x < Width /\ layers[id].y < Height

=============================================================================
