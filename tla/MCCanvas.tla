------------------------------ MODULE MCCanvas ------------------------------
(* Four parts that share no state: the retained scene, the editing of a     *)
(* graph through the canvas, the window with its gestures, and the selection *)
(* tool.                                                                    *)
EXTENDS CanvasScene, CanvasEditing, WriterShell, SelectionTool

CONSTANTS i1, i2, i3, i4, i5, i6,        \* items of the scene
          na, nb, nc, nd,                 \* nodes of the graph
          o1, o2, o3, in1, in2,           \* its outputs and inputs
          f1, f2, f3                      \* fingers

VARIABLES part,    \* which of the four runs
          topic,   \* what the window's events are about
          budget   \* how many changes of the scene are left
windowVars == <<shellVars, topic>>
mcVars == <<sceneVars, editVars, windowVars, toolVars, part, budget>>

----------------------------------------------------------------------------
(* The scene starts with one to six items, inserted in order with any       *)
(* bounds; a few more changes follow.  The item after an absent one stays   *)
(* away.                                                                    *)
Box(x, y, w, h) == [x |-> x, y |-> y, w |-> w, h |-> h]
MCBoxes == {Box(0, 0, 1, 1), Box(6, 0, 1, 0), Box(1, 1, 6, 0), Box(3, 3, -1, 1)}
MCItems == <<i1, i2, i3, i4, i5, i6>>
Budget  == <<3, 2, 1, 1, 0, 1>>

Built(bs) == FoldLeft(LAMBDA t, k : IndexInsert(t, MCItems[k], bs[k]), EmptyIndex,
                      [k \in DOMAIN bs |-> k])
MCSceneInit == \E k \in DOMAIN Budget : \E bs \in [1..k -> {x \in Boxes : IsValidBox(x)}] :
                 /\ budget = Budget[k] /\ index = Built(bs)
                 /\ regions = {} /\ damage = {}
MCSceneNext == /\ budget > 0 /\ SceneNext
               /\ budget' = IF damage' = {} THEN budget ELSE budget - 1
               /\ \A k \in 1..5 : Present(index', MCItems[k + 1]) =>
                    Present(index, MCItems[k]) \/ Present(index, MCItems[k + 1])

----------------------------------------------------------------------------
(* na and nb move, so that nc and nd and the other of the two can close     *)
(* na's outputs in; nc can be removed.                                      *)
MCOrder   == <<na, nb, nc, nd>>
MCSize    == (na :> [w |-> 3, h |-> 6]) @@ (nb :> [w |-> 6, h |-> 4])
               @@ (nc :> [w |-> 3, h |-> 6]) @@ (nd :> [w |-> 6, h |-> 4])
MCPlaces  == (na :> <<At(-6, 0), At(0, 0), At(0, -3)>>) @@ (nb :> <<At(2, -3), At(2, -5)>>)
               @@ (nc :> <<At(6, 0)>>) @@ (nd :> <<At(2, 5)>>)
MCInputs  == (na :> <<in2>>) @@ (nb :> <<in1>>) @@ (nc :> <<>>) @@ (nd :> <<>>)
MCOutputs == (na :> <<o1, o2>>) @@ (nb :> <<o3>>) @@ (nc :> <<>>) @@ (nd :> <<>>)
MCReach   == -8..10
MCStarts  == {(o1 :> in1) @@ (o2 :> Absent) @@ (o3 :> in2)}

Fresh == StartProject(<<>>)
(* Bounds: the type of o1 alone is changed, the name and the value of o2,   *)
(* its value between gestures; a transaction is held during the first       *)
(* gesture; a second command moves or connects.                             *)
Small ==
  /\ \A o \in AllOutputs \ {o1} : project.type[o] = Fresh.type[o]
  /\ \A o \in AllOutputs \ {o2} : project.name[o] = Fresh.name[o] /\ project.value[o] = Fresh.value[o]
  /\ \A o \in DOMAIN scene.names \ {o2} : scene.names[o] = Fresh.name[o]
  /\ drag # Absent => drag.node \in {na, nb}
  /\ project.value # Fresh.value => drag = Absent /\ attach = Absent
  /\ held => (drag # Absent \/ attach # Absent) /\ past = <<>> /\ future = <<>>
  /\ Len(past) = 2 => project.at # past[2].at \/ project.dest # past[2].dest
(* A scene that is stale is laid out anew before anything else begins, but  *)
(* gestures end and the history moves back and forth over it.               *)
Quiet == stale => /\ drag = Absent => drag' = Absent
                  /\ attach = Absent => attach' = Absent
                  /\ held' => held
                  /\ project' = project \/ future = <<>> \/ future' # future
                  /\ past' # past => future' # future

----------------------------------------------------------------------------
(* The window: events of one topic at a time, more of them the fewer other  *)
(* things can happen; an event is dropped only as the last one, and the     *)
(* fifth of the fingers finds an empty queue.                               *)
EventsOf == [pointer |-> {"press", "move", "release", "wheel", "focus_lost"},
             fingers |-> {"finger_down", "finger_move", "finger_up", "pinch", "focus_lost"},
             keys    |-> {"key", "wheel", "press", "focus_lost"},
             window  |-> {"resized", "quit", "key", "press"}]
BoundOf == [pointer |-> 5, fingers |-> 5, keys |-> 3, window |-> 2]
MCWindowInit == /\ ShellInit /\ topic \in DOMAIN EventsOf
                /\ topic = "keys" \/ (platform.keyboard = "none" /\ canvas.focus = "notation")
                /\ topic = "window" \/ shell.surface = "empty"
MCWindowNext ==
  /\ ShellNext /\ UNCHANGED topic
  /\ platform'.happened <= BoundOf[topic]
  /\ platform'.happened > platform.happened =>
       Last(platform'.queue).type \in EventsOf[topic] /\ ~lost
  /\ lost' = lost \/ platform'.queue = <<>>
  /\ \/ topic = "window"
     \/ shell.surface = shell'.surface /\ ~shell'.text /\ shell.stage # "drain"
  /\ topic = "pointer" => Len(platform'.queue) <= 1
  /\ topic = "fingers" /\ platform'.happened = 5 => Len(platform'.queue) <= 1

Fingers == Permutations(FingerIds)

----------------------------------------------------------------------------
(* Three staves, the measures and voices of which are chosen so that a      *)
(* stave, or a voice of it, drops out of a range and comes back.            *)
Lengths(n, m) == [v1 |-> n, v2 |-> m]
MCContents == {<<Lengths(0, 0), Lengths(3, 0), Lengths(3, 0)>>,
               <<Lengths(3, 1), Lengths(3, 0), Lengths(0, 0)>>}
MCBars  == <<0, 2, 3>>
MCNamed == {[kind |-> "note"]}
Spot(staff, time, measure, area, names) ==
  [finite |-> TRUE, staff |-> staff, time |-> time, measure |-> measure,
   area |-> area, names |-> names]
MCSpots == {[Spot(Unset, 0, 1, FALSE, Nothing) EXCEPT !.finite = FALSE],
            Spot(1, 0, 1, FALSE, [kind |-> "note"]),
            Spot(2, 2, 2, TRUE, Nothing), Spot(2, 1, 1, TRUE, Nothing)}
(* Bound: the accessible control names the staves in order.                 *)
Ordered == scope' # Unset => scope'[1] <= scope'[2]

----------------------------------------------------------------------------
NoScene  == SceneInit /\ budget = 0
NoGraph  == /\ project = <<>> /\ past = <<>> /\ future = <<>> /\ held = FALSE
            /\ scene = <<>> /\ drag = Absent /\ attach = Absent /\ stale = TRUE /\ reverted = FALSE
NoWindow == /\ canvas = CanvasStart("canvas") /\ shell = ShellStart("empty")
            /\ platform = PlatformStart("none") /\ lost = FALSE /\ topic = "none"
NoTool   == /\ activeTool = "none" /\ filled = <<>> /\ selection = Nothing /\ highlight = {}
            /\ rangeDrag = Unset /\ measureDrag = Unset /\ moved = FALSE /\ pending = FALSE
            /\ scope = Unset /\ focusEdge = "end" /\ gesture = Unset /\ stray = FALSE

MCInit == \/ part = "scene"   /\ MCSceneInit /\ NoGraph /\ NoWindow /\ NoTool
          \/ part = "editing" /\ NoScene /\ EditInit /\ NoWindow /\ NoTool
          \/ part = "window"  /\ NoScene /\ NoGraph /\ MCWindowInit /\ NoTool
          \/ part = "tool"    /\ NoScene /\ NoGraph /\ NoWindow /\ ToolInit
MCNext == \/ part = "scene" /\ MCSceneNext /\ UNCHANGED <<editVars, windowVars, toolVars, part>>
          \/ part = "editing" /\ EditNext /\ Small' /\ Quiet
               /\ UNCHANGED <<sceneVars, windowVars, toolVars, part, budget>>
          \/ part = "window" /\ MCWindowNext
               /\ UNCHANGED <<sceneVars, editVars, toolVars, part, budget>>
          \/ part = "tool" /\ ToolNext /\ Ordered
               /\ UNCHANGED <<sceneVars, editVars, windowVars, part, budget>>
MCSpec == MCInit /\ [][MCNext]_mcVars
=============================================================================
