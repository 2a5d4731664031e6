---------------------------- MODULE WriterShell ----------------------------
(* The view of the canvas, and the window of the writer around it.          *)
(*                                                                          *)
(* First what pointer, wheel, pinch, finger and key events do to the view:  *)
(* ViewportTransform, TrackpadGestureController,                            *)
(* CanvasNavigationController and the CanvasGestureHandler in front of the  *)
(* notation tool, its delegate.  Points have one coordinate, an integer.  A *)
(* zoom is a power of two, so that the arithmetic is exact: rounding,       *)
(* absorption and overflow of doubles, and the refusals they lead to, are   *)
(* left out.  None is nullopt.                                              *)
(*                                                                          *)
(* Then the window: WriterShell's open_window with its event loop, the      *)
(* dispatch of SDL's events to the gesture handler, text input, and the     *)
(* texture that shows the notation surface.                                 *)
(* SDL is external: a queue of events, stamped when they happen with the    *)
(* keyboard's modifiers, and calls any of which may fail.  Scaling, colours *)
(* and rectangles of a frame are left out, the failure of a frame is not.   *)
EXTENDS Integers, Sequences

CONSTANTS None,
          Focused,   \* the centre of what the focus provider names, or None
          MaxZoom,   \* bound: zooms are 2^-MaxZoom to 2^MaxZoom
          MaxTravel  \* bound: how far the view is panned

VARIABLE canvas      \* CanvasGestureHandler, with the delegate's knowledge
\* [view:    ViewportTransform,
\*  fingers: fingers_, two slots, each [id, at] or None,
\*  centre:  window_center_,
\*  middle:  middle_drag_position_,
\*  focus:   keyboard_focus_,
\*  told:    where in the world the delegate last saw the pointer, or None,
\*  seen:    where in the window the last pointer event was]

CONSTANTS Points,     \* where pointer, fingers and pinches are
          Widths,     \* of the window
          FingerIds,
          Surfaces,   \* of the notation: "empty", "invalid" and others
          MaxEvents,  \* bound: events of SDL
          MaxQueue,   \* bound: of them waiting
          MaxUploads  \* bound: textures created

\* A position is a number and never std::nullopt; no surface is a null texture.
ASSUME WindowIsFormed ==
  /\ Points \subseteq Int /\ Points # {} /\ None \notin Points
  /\ Widths \subseteq Int /\ Widths # {}
  /\ None \notin Surfaces

VARIABLES shell,      \* WriterShell::Impl
          platform,   \* SDL's side: what exists, and events to come
          lost        \* an event was dropped as its position had no meaning
shellVars == <<canvas, shell, platform, lost>>

KeyboardPanStep == 64   \* kKeyboardPanStep

----------------------------------------------------------------------------
(* ViewportTransform                                                        *)
Scaled(d, k) == IF k >= 0 THEN d * 2^k ELSE d \div 2^(-k)
ToWorld(view, p)    == view.world + Scaled(p - view.viewport, -view.zoom)
ToViewport(view, p) == view.viewport + Scaled(p - view.world, view.zoom)

PanBy(view, d) == [view EXCEPT !.viewport = @ + d]
\* zoom_by(2^k, focal)
ZoomBy(view, k, focal) ==
  IF k = 0 THEN view
  ELSE [world |-> ToWorld(view, focal), viewport |-> focal, zoom |-> view.zoom + k]

----------------------------------------------------------------------------
(* TrackpadGestureController                                                *)
SlotOf(fingers, id) == {s \in {1, 2} : fingers[s] # None /\ fingers[s].id = id}
FreeSlots(fingers)  == {s \in {1, 2} : fingers[s] = None}
FirstOf(S) == CHOOSE s \in S : \A t \in S : s <= t

FingerDown(fingers, id, p) ==
  LET slots == IF SlotOf(fingers, id) # {} THEN SlotOf(fingers, id) ELSE FreeSlots(fingers)
  IN  IF slots = {} THEN fingers
      ELSE [fingers EXCEPT ![FirstOf(slots)] = [id |-> id, at |-> p]]
FingerMove(fingers, id, p) ==
  IF SlotOf(fingers, id) = {} THEN fingers
  ELSE [fingers EXCEPT ![FirstOf(SlotOf(fingers, id))] = [id |-> id, at |-> p]]
\* Mutant of FingerUp: only the first slot is looked at.
FingerUp_FirstSlot(fingers, id) ==
  IF fingers[1] # None /\ fingers[1].id = id THEN [fingers EXCEPT ![1] = None] ELSE fingers

FingerUp(fingers, id) ==
  IF SlotOf(fingers, id) = {} THEN fingers
  ELSE [fingers EXCEPT ![FirstOf(SlotOf(fingers, id))] = None]
NoFingers == <<None, None>>

ActiveCentroid(fingers) ==
  IF FreeSlots(fingers) # {} THEN None
  ELSE (fingers[1].at + fingers[2].at) \div 2
\* The point a pinch keeps in place: the event's, the fingers', the window's.
ResolveFocal(focal) ==
  IF focal # None THEN focal
  ELSE IF ActiveCentroid(canvas.fingers) # None THEN ActiveCentroid(canvas.fingers)
  ELSE canvas.centre

----------------------------------------------------------------------------
(* CanvasGestureHandler.  Each operator is canvas after the event.          *)
Viewing(view) == [canvas EXCEPT !.view = view]
Within(view) == view.zoom \in -MaxZoom..MaxZoom /\ view.viewport \in -MaxTravel..MaxTravel

\* The delegate gets a pointer event in world coordinates.
Forwarded(p) == [canvas EXCEPT !.told = ToWorld(canvas.view, p), !.seen = p]

\* What moves the view with the pointer at rest leaves the delegate behind.
Steered(view) == [Viewing(view) EXCEPT !.told = IF view = canvas.view THEN @ ELSE None]

OnWheel(modifiers, delta, p) ==
  CASE modifiers = "primary" -> Steered(ZoomBy(canvas.view, delta, p))
    [] modifiers = "none"    -> Steered(PanBy(canvas.view, delta * KeyboardPanStep))
    [] OTHER                 -> canvas
OnPinch(scale, focal) == Steered(ZoomBy(canvas.view, scale, ResolveFocal(focal)))

OnPointerPress(button, p) ==
  IF button = "middle" THEN [canvas EXCEPT !.middle = p, !.seen = p] ELSE Forwarded(p)

OnPointerMove(p) ==
  IF canvas.middle # None
    THEN [Viewing(PanBy(canvas.view, p - canvas.middle)) EXCEPT !.middle = p, !.seen = p]
    ELSE Forwarded(p)
OnPointerRelease(button, p) ==
  IF button = "middle" THEN [canvas EXCEPT !.middle = None, !.seen = p] ELSE Forwarded(p)
OnCancel == [canvas EXCEPT !.fingers = NoFingers, !.middle = None]

KeyboardZoomFocal == IF Focused = None THEN canvas.centre ELSE ToViewport(canvas.view, Focused)
OnKeyPress(modifiers, key) ==
  CASE canvas.focus # "canvas" -> canvas
    [] key = "equals" /\ modifiers \in {"none", "shift"} -> Steered(ZoomBy(canvas.view, 1, KeyboardZoomFocal))
    [] key = "minus" /\ modifiers = "none" -> Steered(ZoomBy(canvas.view, -1, KeyboardZoomFocal))
    [] key = "left"  /\ modifiers = "none" -> Steered(PanBy(canvas.view, KeyboardPanStep))
    [] key = "right" /\ modifiers = "none" -> Steered(PanBy(canvas.view, -KeyboardPanStep))
    [] OTHER -> canvas

OnViewportSizeChanged(width) == [canvas EXCEPT !.centre = width \div 2]

CanvasStart(focus) ==
  [view |-> [world |-> 0, viewport |-> 0, zoom |-> 0], fingers |-> NoFingers,
   centre |-> 0, middle |-> None, focus |-> focus, told |-> None, seen |-> None]

----------------------------------------------------------------------------
(* The window                                                               *)

Modifiers == {"none", "primary", "shift"}

ShellStart(surface) ==
  [stage |-> "built", window |-> FALSE, renderer |-> FALSE, text |-> FALSE,
   handler |-> TRUE, modifiers |-> "none", surface |-> surface, texture |-> None]
PlatformStart(keyboard) ==
  [keyboard |-> keyboard, pointer |-> CHOOSE p \in Points : TRUE,
   down |-> [f \in FingerIds |-> None], queue |-> <<>>, happened |-> 0,
   width |-> CHOOSE w \in Widths : TRUE, composing |-> FALSE, created |-> 0, destroyed |-> 0]

Stage(s) == shell.stage = s
Running == shell.stage \in {"loop", "drain"}

----------------------------------------------------------------------------
(* The surface and its texture.  An upload is a pair: the shell and the     *)
(* platform after it.  It fails before the texture exists, or after.        *)
IsValidSurface(s) == s # "invalid"
Shows(s) == IF s = "empty" THEN None ELSE s

\* Mutant of UploadFails: the texture that could not be filled is kept.
UploadFails_Leaks(s) ==
  {<<shell, platform>>, <<shell, [platform EXCEPT !.created = @ + 1]>>}

UploadFails(s) ==
  {<<shell, platform>>} \union
  {<<shell, [platform EXCEPT !.created = @ + 1, !.destroyed = @ + 1]>> : t \in {s} \ {"empty"}}
Uploaded(s) ==
  <<[shell EXCEPT !.texture = Shows(s)],
    [platform EXCEPT !.created = @ + (IF s = "empty" THEN 0 ELSE 1),
                     !.destroyed = @ + (IF shell.texture = None THEN 0 ELSE 1)]>>

SetNotationSurface(s) ==
  /\ Stage("built") \/ Running
  /\ platform.created < MaxUploads
  /\ \/ /\ ~IsValidSurface(s)
        /\ UNCHANGED <<shell, platform>>
     \/ /\ IsValidSurface(s) /\ ~shell.renderer
        /\ shell' = [shell EXCEPT !.surface = s]
        /\ UNCHANGED platform
     \/ /\ IsValidSurface(s) /\ shell.renderer
        /\ shell' = [Uploaded(s)[1] EXCEPT !.surface = s]
        /\ platform' = Uploaded(s)[2]
     \/ /\ IsValidSurface(s) /\ shell.renderer /\ s # "empty"
        /\ \E u \in UploadFails(s) : shell' = u[1] /\ platform' = u[2]
  /\ UNCHANGED <<canvas, lost>>

SetTextInputActive(active) ==
  /\ ~Stage("gone") /\ shell.text # active
  /\ \/ /\ shell' = [shell EXCEPT !.text = active]
        /\ platform' = [platform EXCEPT !.composing = active /\ shell.window]
     \/ /\ active /\ shell.window   \* SDL_StartTextInput fails
        /\ UNCHANGED <<shell, platform>>
  /\ UNCHANGED <<canvas, lost>>

----------------------------------------------------------------------------
(* open_window, in the order of its calls; it may stop after any of them.   *)
Opened(loop) ==
  /\ shell' = [Uploaded(shell.surface)[1] EXCEPT
                 !.stage = IF loop THEN "loop" ELSE "drain", !.window = TRUE,
                 !.renderer = TRUE, !.modifiers = platform.keyboard]
  /\ platform' = [Uploaded(shell.surface)[2] EXCEPT !.composing = shell.text]
  /\ canvas' = OnViewportSizeChanged(platform.width)
OpenStops ==
  /\ \E window, renderer, composing, scaled \in BOOLEAN :
       /\ scaled => composing = shell.text
       /\ composing => shell.text /\ renderer
       /\ scaled => renderer
       /\ renderer => window
       /\ \E uploaded \in (IF scaled THEN UploadFails(shell.surface) ELSE {<<shell, platform>>}) :
            /\ shell' = [uploaded[1] EXCEPT !.stage = "returned", !.window = window,
                           !.renderer = renderer,
                           !.modifiers = IF scaled THEN platform.keyboard ELSE @]
            /\ platform' = [uploaded[2] EXCEPT !.composing = composing]
       /\ canvas' = IF scaled THEN OnViewportSizeChanged(platform.width) ELSE canvas
OpenWindow(loop) == /\ Stage("built")
                    /\ Opened(loop) \/ OpenStops
                    /\ UNCHANGED lost

----------------------------------------------------------------------------
(* What happens at the window: SDL puts an event in the queue.              *)
Happens(event, p) ==
  /\ Running /\ platform.happened < MaxEvents /\ Len(platform.queue) < MaxQueue
  /\ platform' = [p EXCEPT !.queue = Append(@, event), !.happened = @ + 1]
  /\ UNCHANGED <<canvas, shell, lost>>

ModifierTurns(m) == /\ platform.keyboard # m
                    /\ Happens([type |-> "key", held |-> m, key |-> None],
                               [platform EXCEPT !.keyboard = m])
KeyGoesDown(key) == Happens([type |-> "key", held |-> platform.keyboard, key |-> key], platform)
PointerMoves(p) == /\ p # platform.pointer
                   /\ Happens([type |-> "move", at |-> p, held |-> platform.keyboard],
                              [platform EXCEPT !.pointer = p])
ButtonTurns(type, b) == Happens([type |-> type, button |-> b, at |-> platform.pointer,
                                 held |-> platform.keyboard], platform)
WheelTurns(delta) == Happens([type |-> "wheel", delta |-> delta, at |-> platform.pointer,
                              held |-> platform.keyboard], platform)
Pinches(scale, focal) == Happens([type |-> "pinch", scale |-> scale, focal |-> focal], platform)
FingerLands(f, p) == /\ platform.down[f] # p
                     /\ Happens([type |-> IF platform.down[f] = None THEN "finger_down" ELSE "finger_move",
                                 id |-> f, at |-> p],
                                [platform EXCEPT !.down[f] = p])
FingerLifts(f) == /\ platform.down[f] # None
                  /\ Happens([type |-> "finger_up", id |-> f], [platform EXCEPT !.down[f] = None])
WindowResizes(w) == /\ w # platform.width
                    /\ Happens([type |-> "resized", width |-> w], [platform EXCEPT !.width = w])
\* SDL lets go of all keys first: their key-up event comes before the loss.
FocusGoes == /\ platform.keyboard = "none"
             /\ Happens([type |-> "focus_lost"], platform)
CloseAsked == Happens([type |-> "quit"], platform)

----------------------------------------------------------------------------
(* process_event: cancel, refresh the scale, dispatch.                      *)
Event == Head(platform.queue)
Cancels == \/ Event.type = "focus_lost"
           \/ Event.type = "quit" /\ Stage("loop")
\* Mutant of OrderedModifiers: the keyboard as it is by now.
OrderedModifiers_Live == platform.keyboard

OrderedModifiers == CASE Event.type = "key" -> Event.held
                      [] Event.type \in {"focus_lost", "quit"} -> "none"
                      [] OTHER -> shell.modifiers

\* What the handler makes of an event.
Dispatched ==
  CASE Event.type = "press"       -> OnPointerPress(Event.button, Event.at)
    [] Event.type = "move"        -> OnPointerMove(Event.at)
    [] Event.type = "release"     -> OnPointerRelease(Event.button, Event.at)
    [] Event.type = "key"         -> IF Event.key = None THEN canvas ELSE OnKeyPress(Event.held, Event.key)
    [] Event.type = "wheel"       -> OnWheel(OrderedModifiers, Event.delta, Event.at)
    [] Event.type = "pinch"       -> OnPinch(Event.scale, Event.focal)
    [] Event.type = "finger_down" -> [canvas EXCEPT !.fingers = FingerDown(@, Event.id, Event.at)]
    [] Event.type = "finger_move" -> [canvas EXCEPT !.fingers = FingerMove(@, Event.id, Event.at)]
    [] Event.type = "finger_up"   -> [canvas EXCEPT !.fingers = FingerUp(@, Event.id)]
    [] OTHER -> IF Cancels THEN OnCancel ELSE canvas

Handle(stage) ==
  /\ Running /\ platform.queue # <<>>
  /\ shell' = [shell EXCEPT !.stage = stage, !.modifiers = OrderedModifiers]
  /\ platform' = [platform EXCEPT !.queue = Tail(@)]
\* After an event a frame is drawn; one that fails ends the loop.
AfterEvent == IF Stage("drain") THEN {"drain"}
              ELSE IF Event.type = "quit" THEN {"returned"} ELSE {"loop", "returned"}

DispatchEvent == /\ Running /\ platform.queue # <<>>
                 /\ Event.type # "resized" \/ Stage("drain")
                 /\ \E stage \in AfterEvent : Handle(stage)
                 /\ canvas' = Dispatched /\ Within(canvas'.view)
                 /\ UNCHANGED lost
\* The event's position cannot be converted; a cancel came before that.
DropEvent == /\ Running /\ platform.queue # <<>>
             /\ Event.type \in {"press", "move", "release", "wheel", "pinch", "finger_down", "finger_move", "finger_up"}
             /\ \E stage \in AfterEvent : Handle(stage)
             /\ lost' = TRUE
             /\ UNCHANGED canvas
ResizeEvent == /\ Stage("loop") /\ platform.queue # <<>> /\ Event.type = "resized"
               /\ \/ /\ \E stage \in AfterEvent : Handle(stage)
                     /\ canvas' = OnViewportSizeChanged(platform.width)
                  \/ Handle("returned") /\ UNCHANGED canvas   \* no new scale
               /\ UNCHANGED lost
\* Nothing waits: one frame, drawn or not.
Drained == /\ Stage("drain") /\ platform.queue = <<>>
           /\ shell' = [shell EXCEPT !.stage = "returned"]
           /\ UNCHANGED <<canvas, platform, lost>>

\* set_input_handler(nullptr)
Deregister == /\ Stage("returned") /\ shell.handler
              /\ shell' = [shell EXCEPT !.handler = FALSE, !.text = FALSE]
              /\ platform' = [platform EXCEPT !.composing = @ /\ ~(shell.text /\ shell.window)]
              /\ UNCHANGED <<canvas, lost>>
\* ~Impl
Destroy == /\ Stage("returned") /\ ~shell.handler
           /\ shell' = [shell EXCEPT !.stage = "gone", !.text = FALSE, !.texture = None,
                                     !.renderer = FALSE, !.window = FALSE]
           /\ platform' = [platform EXCEPT
                             !.composing = @ /\ ~(shell.text /\ shell.window),
                             !.destroyed = @ + (IF shell.texture = None THEN 0 ELSE 1)]
           /\ UNCHANGED <<canvas, lost>>

----------------------------------------------------------------------------
ShellInit == /\ \E s \in Surfaces \ {"invalid"} : shell = ShellStart(s)
             /\ \E m \in Modifiers : platform = PlatformStart(m)
             /\ \E focus \in {"notation", "canvas"} : canvas = CanvasStart(focus)
             /\ lost = FALSE

UserNext == \/ \E m \in Modifiers : ModifierTurns(m)
            \/ \E key \in {"equals", "minus", "left", "right"} : KeyGoesDown(key)
            \/ \E p \in Points : PointerMoves(p)
            \/ \E b \in {"primary", "middle"} : ButtonTurns("press", b) \/ ButtonTurns("release", b)
            \/ \E delta \in {-1, 1} : WheelTurns(delta)
            \/ \E scale \in {-1, 1}, focal \in Points \union {None} : Pinches(scale, focal)
            \/ \E f \in FingerIds : FingerLifts(f) \/ \E p \in Points : FingerLands(f, p)
            \/ \E w \in Widths : WindowResizes(w)
            \/ FocusGoes \/ CloseAsked
LoopNext == \/ \E loop \in BOOLEAN : OpenWindow(loop)
            \/ DispatchEvent \/ DropEvent \/ ResizeEvent \/ Drained
            \/ Deregister \/ Destroy
ClientNext == \/ \E s \in Surfaces : SetNotationSurface(s)
              \/ \E active \in BOOLEAN : SetTextInputActive(active)
ShellNext == UserNext \/ LoopNext \/ ClientNext
ShellSpec == ShellInit /\ [][ShellNext]_shellVars

----------------------------------------------------------------------------
DelegateKnowsPointer ==
  ~lost /\ canvas.told # None => canvas.told = ToWorld(canvas.view, canvas.seen)

TrackedFingersAreDown ==
  ~lost /\ Running /\ platform.queue = <<>> =>
    \A s \in {1, 2} : canvas.fingers[s] # None =>
      /\ platform.down[canvas.fingers[s].id] = canvas.fingers[s].at
      /\ canvas.fingers[1] # canvas.fingers[2]

(* The delegate misses nothing by not being told of a middle drag, nor by   *)
(* the cancel that may end it: where it last saw the pointer in the world   *)
(* is where the pointer is, unless the view was moved under it by wheel,    *)
(* pinch or key (on_pointer_move, to_world_pointer).  And once every event  *)
(* is handled, a finger that is tracked is on the pad and is where it is    *)
(* thought to be, so that no pinch turns about a point between fingers that *)
(* have gone (finger_down, finger_up, on_cancel).                           *)
GesturesFollowHands == DelegateKnowsPointer /\ TrackedFingersAreDown

(* An event is handled with the modifiers that were held when it happened,  *)
(* not with those held by the time its turn comes (ordered_modifiers).      *)
HandledAsHeld ==
  Stage("loop") /\ platform.queue # <<>> /\ "held" \in DOMAIN Event =>
    Event.held = OrderedModifiers

(* However uploads and the opening fail, no texture is leaked or lost: the  *)
(* one there is shows the surface that was last accepted, text is composed  *)
(* exactly while it is asked for, and nothing outlives the shell            *)
(* (upload_notation_surface, set_notation_surface, ~Impl).                  *)
ResourcesAreKept ==
  /\ platform.created - platform.destroyed = (IF shell.texture = None THEN 0 ELSE 1)
  /\ Running => /\ shell.texture = Shows(shell.surface)
                /\ platform.composing = shell.text
  /\ Stage("gone") => ~platform.composing /\ platform.created = platform.destroyed
=============================================================================
