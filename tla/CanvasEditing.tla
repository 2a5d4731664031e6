--------------------------- MODULE CanvasEditing ---------------------------
(* The graph canvas: the scene laid out from a project (Canvas::layout_nodes*)
(* and the controllers that edit the project through its history and keep   *)
(* the scene in step: node drag, connector attachment, connector type and   *)
(* the connector inspector.  Each may act between any two steps of another, *)
(* and so may undo, redo, a transaction that somebody else holds open, the  *)
(* removal of a node and a new layout.                                      *)
(* A command is its effect on the project and history is the projects it    *)
(* leads through (see CommandHistory and GraphCommands).  The event, the    *)
(* priority and the weight of an output are one value.  Notation, headers   *)
(* and styles, which follow from the type, are left out of the scene.       *)
EXTENDS Integers, SequencesExt, FiniteSets, TLC

CONSTANTS Absent,         \* no route, no drag, no attachment
          Order,        \* the nodes, in project order
          Size,           \* node -> [w, h]
          Places,         \* node -> where it can be, the first of them at the start
          Inputs,         \* node -> its inputs in order
          Outputs,        \* node -> its outputs in order
          Types, Names, Values,
          Reach,        \* the coordinates the reference search looks at
          Starts,       \* where the outputs lead at the start
          Removable,    \* bound: the nodes somebody removes
          MaxEdits      \* bound: commands in the history

VARIABLES project,      \* nodes, places, destinations, types, names and values
          past, future, \* the projects undo and redo lead to
          held,         \* a transaction is open, so the history takes no command
          scene,        \* CanvasNotationScene
          drag,         \* CanvasNodeDragController, Absent when inactive
          attach,       \* CanvasConnectorAttachmentController's output, or Absent
          stale,        \* history: the scene may differ from a new layout anywhere
          reverted      \* history: its connectors may be those of an earlier project
editVars == <<project, past, future, held, scene, drag, attach, stale, reverted>>

Nodes == ToSet(Order)
OutputsOf(nodes) == FlattenSeq([k \in 1..Len(nodes) |-> Outputs[nodes[k]]])
AllOutputs == ToSet(OutputsOf(Order))
AllInputs  == UNION {ToSet(Inputs[n]) : n \in Nodes}
SourceOf(o) == CHOOSE n \in Nodes : o \in ToSet(Outputs[n])
TargetOf(i) == CHOOSE n \in Nodes : i \in ToSet(Inputs[n])

----------------------------------------------------------------------------
(* The automatic route of a connector (automatic_route): a shortest way     *)
(* from one point to another along the lines through both points and the    *)
(* edges of the obstacles, with the fewest bends among the shortest.        *)
(* A point is [x, y], an obstacle [left, top, right, bottom] whose inside   *)
(* no route may enter; its edges are free.  Absent is no route.               *)
At(x, y) == [x |-> x, y |-> y]

Inside(p, o) == p.x > o.left /\ p.x < o.right /\ p.y > o.top /\ p.y < o.bottom
PointClear(p, O) == \A o \in O : ~Inside(p, o)

Lesser(a, b)  == IF a < b THEN a ELSE b
Greater(a, b) == IF a < b THEN b ELSE a
SegmentClear(p, q, O) ==
  \/ /\ p.x = q.x
     /\ \A o \in O : ~(/\ p.x > o.left /\ p.x < o.right
                       /\ Lesser(p.y, q.y) < o.bottom /\ Greater(p.y, q.y) > o.top)
  \/ /\ p.y = q.y
     /\ \A o \in O : ~(/\ p.y > o.top /\ p.y < o.bottom
                       /\ Lesser(p.x, q.x) < o.right /\ Greater(p.x, q.x) > o.left)

\* An obstacle over one of the ends cannot be avoided and is ignored.
Effective(O, start, finish) == {o \in O : ~Inside(start, o) /\ ~Inside(finish, o)}

----------------------------------------------------------------------------
(* The search.  A place of it is a point and the direction it was reached   *)
(* in; a cost is <<distance, bends>>, and ties go to the lower place.       *)
Still      == 0
Horizontal == 1
Vertical   == 2

Precedes(s, t) == \E k \in DOMAIN s : /\ s[k] < t[k]
                                      /\ \A j \in 1..(k - 1) : s[j] = t[j]
Place(p, d) == [x |-> p.x, y |-> p.y, turn |-> d]

\* The points next to p on the lines of the grid, each with its direction.
Neighbours(p, xs, ys) ==
  LET beside(v, V) == {w \in V \ {v} : \A u \in V \ {v} :
                         ~(Lesser(v, w) < u /\ u < Greater(v, w))}
  IN  {Place(At(x, p.y), Horizontal) : x \in beside(p.x, xs)}
        \union {Place(At(p.x, y), Vertical) : y \in beside(p.y, ys)}

Length(p, q) == Greater(p.x, q.x) - Lesser(p.x, q.x) + Greater(p.y, q.y) - Lesser(p.y, q.y)

\* Mutant of CostBy: bends cost nothing.
CostBy_Straight(c, s, t) == <<c[1] + Length(s, t), c[2]>>

\* The cost of t by way of s, whose cost is c.
CostBy(c, s, t) ==
  <<c[1] + Length(s, t), c[2] + (IF s.turn # Still /\ s.turn # t.turn THEN 1 ELSE 0)>>

\* The places one segment of the grid [xs, ys, O] away from s.
Segments(s, grid) == {t \in Neighbours(s, grid.xs, grid.ys) :
                    PointClear(t, grid.O) /\ SegmentClear(s, t, grid.O)}

\* Lowers costs from the nearest open place until none is open.
RECURSIVE Settled(_, _, _, _)
Settled(cost, parent, open, grid) ==
  IF open = {} THEN [cost |-> cost, parent |-> parent]
  ELSE
    LET rank(s) == cost[s] \o <<s.y, s.x, s.turn>>
        here    == CHOOSE s \in open : \A t \in open \ {s} : Precedes(rank(s), rank(t))
        better  == {t \in Segments(here, grid) : \/ t \notin DOMAIN cost
                                       \/ Precedes(CostBy(cost[here], here, t), cost[t])}
    IN  Settled([t \in better |-> CostBy(cost[here], here, t)] @@ cost,
                [t \in better |-> here] @@ parent,
                (open \ {here}) \union better, grid)

RECURSIVE WayTo(_, _)
WayTo(parent, s) ==
  IF s \in DOMAIN parent THEN Append(WayTo(parent, parent[s]), At(s.x, s.y))
                         ELSE <<At(s.x, s.y)>>

\* Without the points in the middle of a straight stretch.
Straightened(way) ==
  LET aligned(p, q, r) == (p.x = q.x /\ q.x = r.x) \/ (p.y = q.y /\ q.y = r.y)
      extend(kept, p) ==
        IF Len(kept) >= 2 /\ aligned(kept[Len(kept) - 1], kept[Len(kept)], p)
          THEN [kept EXCEPT ![Len(kept)] = p] ELSE Append(kept, p)
  IN  FoldLeft(extend, <<>>, way)

AutomaticRoute(start, finish, obstacles) ==
  LET O    == Effective(obstacles, start, finish)
      xs   == {start.x, finish.x} \union {o.left : o \in O} \union {o.right : o \in O}
      ys   == {start.y, finish.y} \union {o.top : o \in O} \union {o.bottom : o \in O}
      first == Place(start, Still)
      found == Settled(first :> <<0, 0>>, <<>>, {first}, [xs |-> xs, ys |-> ys, O |-> O])
      ends == {Place(finish, d) : d \in {Horizontal, Vertical}} \intersect DOMAIN found.cost
      end  == CHOOSE s \in ends : \A t \in ends \ {s} :
                Precedes(found.cost[s] \o <<s.turn>>, found.cost[t] \o <<t.turn>>)
  IN  IF start = finish THEN <<start>>
      ELSE IF SegmentClear(start, finish, O) THEN <<start, finish>>
      ELSE IF ends = {} THEN Absent
      ELSE Straightened(WayTo(found.parent, end))

----------------------------------------------------------------------------
(* What a route is for, without the search: on the grid of every whole      *)
(* coordinate, the places first reached after d unit steps and the bends    *)
(* each takes at least.                                                     *)
UnitSteps(s, grid) ==
  {t \in {Place(At(s.x + 1, s.y), Horizontal), Place(At(s.x - 1, s.y), Horizontal),
          Place(At(s.x, s.y + 1), Vertical),   Place(At(s.x, s.y - 1), Vertical)} :
     t.x \in grid.range /\ t.y \in grid.range /\ SegmentClear(s, t, grid.O)}

Reached(layer, seen, grid) ==
  LET next == UNION {UnitSteps(s, grid) : s \in DOMAIN layer} \ seen
  IN  [t \in next |-> Min({layer[s] + (IF s.turn \in {Still, t.turn} THEN 0 ELSE 1)
                            : s \in {r \in DOMAIN layer : Length(r, t) = 1 /\ t \in UnitSteps(r, grid)}})]
RECURSIVE BestFrom(_, _, _, _, _)
BestFrom(d, layer, seen, finish, grid) ==
  LET here == {s \in DOMAIN layer : s.x = finish.x /\ s.y = finish.y}
  IN  IF layer = <<>> THEN Absent
      ELSE IF here # {} THEN <<d, Min({layer[s] : s \in here})>>
      ELSE BestFrom(d + 1, Reached(layer, seen, grid), seen \union DOMAIN layer, finish, grid)

BestRoute(start, finish, obstacles, range) ==
  BestFrom(0, Place(start, Still) :> 0, {}, finish,
           [range |-> range, O |-> Effective(obstacles, start, finish)])

RouteCost(way) ==
  <<FoldLeftDomain(LAMBDA sum, k : sum + (IF k = 1 THEN 0 ELSE Length(way[k - 1], way[k])), 0, way),
    Greater(Len(way) - 2, 0)>>

----------------------------------------------------------------------------
(* Geometry.  `at' gives the place of each node that is shown.              *)
Clearance == 1
PortHeight(ports, p, h) ==
  (h * (CHOOSE k \in DOMAIN ports : ports[k] = p)) \div (Len(ports) + 1)
\* The ends of a leg: on the edge of the node, and outside it.
SourceLeg(o, at) ==
  LET n == SourceOf(o)
      a == At(at[n].x + Size[n].w, at[n].y + PortHeight(Outputs[n], o, Size[n].h))
  IN  [attachment |-> a, outer |-> At(a.x + Clearance, a.y)]
DestinationLeg(i, at) ==
  LET n == TargetOf(i)
      a == At(at[n].x, at[n].y + PortHeight(Inputs[n], i, Size[n].h))
  IN  [attachment |-> a, outer |-> At(a.x - Clearance, a.y)]
Obstacles(at) == {[left |-> at[n].x, top |-> at[n].y,
                   right |-> at[n].x + Size[n].w, bottom |-> at[n].y + Size[n].h]
                    : n \in DOMAIN at}

\* Every way the nodes can be shown, and the route of every connector then.
Shown == UNION {[N -> UNION {ToSet(Places[n]) : n \in Nodes}] : N \in {Nodes \ R : R \in SUBSET Removable}}
Layouts == {at \in Shown : \A n \in DOMAIN at : at[n] \in ToSet(Places[n])}
Ends(o, i, at) == <<SourceLeg(o, at).outer, DestinationLeg(i, at).outer, Obstacles(at)>>
Wires(at) == {w \in AllOutputs \X AllInputs :
               /\ {SourceOf(w[1]), TargetOf(w[2])} \subseteq DOMAIN at
               /\ \E dest \in Starts : \/ dest[w[1]] \in {Absent, w[2]}
                                      \/ TargetOf(dest[w[1]]) \in Removable}
Cases == {<<at, w[1], w[2]>> : <<at, w>> \in {z \in Layouts \X (AllOutputs \X AllInputs) : z[2] \in Wires(z[1])}}
\* Tables, which are made once: of the routes, and of what they should cost.
RouteTable == [z \in Cases |-> LET e == Ends(z[2], z[3], z[1])
                              IN  AutomaticRoute(e[1], e[2], e[3])] @@ <<>>
BestTable  == [z \in Cases |-> LET e == Ends(z[2], z[3], z[1])
                              IN  BestRoute(e[1], e[2], e[3], Reach)] @@ <<>>

\* The connector from o to i, or Absent when no route exists.
ConnectorGeometry(at, o, i, type) ==
  IF RouteTable[<<at, o, i>>] = Absent THEN Absent
  ELSE [source |-> o, destination |-> i, type |-> type,
        points |-> <<SourceLeg(o, at).attachment>> \o RouteTable[<<at, o, i>>]
                     \o <<DestinationLeg(i, at).attachment>>]

----------------------------------------------------------------------------
(* The scene.                                                               *)
Connected(p) == SelectSeq(OutputsOf(p.nodes), LAMBDA o : p.dest[o] # Absent)
Drawable(c) == c # Absent

LayoutNodes(p) ==
  LET at == [n \in ToSet(p.nodes) |-> p.at[n]]
      geometry(o) == ConnectorGeometry(at, o, p.dest[o], p.type[o])
  IN  [at |-> at,
       names |-> [o \in ToSet(OutputsOf(p.nodes)) |-> p.name[o]],
       connectors |-> SelectSeq([k \in 1..Len(Connected(p)) |-> geometry(Connected(p)[k])],
                                Drawable)]

\* Mutant of ConnectorsMatch: any type will do.
ConnectorsMatch_AnyType(s, p) ==
  /\ Len(s.connectors) = Len(Connected(p))
  /\ \A k \in DOMAIN s.connectors :
       s.connectors[k].source = Connected(p)[k] /\ s.connectors[k].destination = p.dest[Connected(p)[k]]

ConnectorsMatch(s, p) ==
  /\ Len(s.connectors) = Len(Connected(p))
  /\ \A k \in DOMAIN s.connectors :
       LET c == s.connectors[k]
           o == Connected(p)[k]
       IN  c.source = o /\ c.destination = p.dest[o] /\ c.type = p.type[o]

\* Every route drawn anew, or Absent when one of them cannot be.
Refreshed(connectors, at) ==
  LET geometry(c) == ConnectorGeometry(at, c.source, c.destination, c.type)
      fresh == [k \in DOMAIN connectors |-> geometry(connectors[k])]
  IN  IF \A k \in DOMAIN fresh : Drawable(fresh[k]) THEN fresh ELSE Absent

----------------------------------------------------------------------------
(* The history.                                                             *)
Runs == ~held /\ Len(past) < MaxEdits
Execute(p) == /\ project' = p
              /\ past' = Append(past, project) /\ future' = <<>>
NoCommand == UNCHANGED <<project, past, future>>

HasNode(p, n) == n \in ToSet(p.nodes)
HasPort(o) == HasNode(project, SourceOf(o)) /\ o \in DOMAIN scene.names

----------------------------------------------------------------------------
(* CanvasNodeDragController.  cancel() brings back the connectors and the   *)
(* place of begin(), whatever has happened since: `overtaken' notes whether *)
(* another controller edited a connector under the drag, or the scene was   *)
(* laid out anew.                                                           *)
DragBegin(n) ==
  /\ drag = Absent
  /\ HasNode(project, n) /\ n \in DOMAIN scene.at /\ scene.at[n] = project.at[n]
  /\ drag' = [node |-> n, start |-> scene.at[n], connectors |-> scene.connectors,
              overtaken |-> "no"]
  /\ NoCommand /\ UNCHANGED <<held, scene, attach, stale, reverted>>

DragUpdate(q) ==
  LET moved == [scene.at EXCEPT ![drag.node] = q]
      fresh == Refreshed(scene.connectors, moved)
  IN  /\ drag # Absent /\ drag.node \in DOMAIN scene.at
      /\ fresh # Absent
      /\ scene' = [scene EXCEPT !.at = moved, !.connectors = fresh]
      /\ NoCommand /\ UNCHANGED <<held, drag, attach, stale, reverted>>

\* Mutant of Cancelled: the node goes back, the routes stay.
Cancelled_KeepsRoutes == [scene EXCEPT
                !.at = [n \in DOMAIN @ |-> IF n = drag.node THEN drag.start ELSE @[n]]]

Cancelled == [scene EXCEPT
                !.at = [n \in DOMAIN @ |-> IF n = drag.node THEN drag.start ELSE @[n]],
                !.connectors = drag.connectors]
DragCancel == /\ drag # Absent
              /\ scene' = Cancelled /\ drag' = Absent
              /\ stale' = (stale \/ drag.overtaken = "laid out")
              /\ reverted' = (reverted \/ drag.overtaken = "edited")
              /\ NoCommand /\ UNCHANGED <<held, attach>>

CanFinish == /\ drag.node \in DOMAIN scene.at /\ HasNode(project, drag.node)
             /\ project.at[drag.node] = drag.start
DragFinish ==
  /\ drag # Absent /\ CanFinish
  /\ drag' = Absent
  /\ \/ /\ scene.at[drag.node] = drag.start
        /\ NoCommand
     \/ /\ scene.at[drag.node] # drag.start
        /\ Runs
        /\ Execute([project EXCEPT !.at[drag.node] = scene.at[drag.node]])
  /\ UNCHANGED <<held, scene, attach, stale, reverted>>
DragFinishRefused ==
  /\ drag # Absent
  /\ ~CanFinish \/ (CanFinish /\ held /\ scene.at[drag.node] # drag.start)
  /\ DragCancel

Overtaking(how) ==
  drag' = IF drag = Absent THEN Absent
          ELSE [drag EXCEPT !.overtaken = IF @ = "laid out" THEN @ ELSE how]

----------------------------------------------------------------------------
(* CanvasConnectorAttachmentController.                                     *)
AttachBegin(o) ==
  /\ attach = Absent
  /\ ConnectorsMatch(scene, project)
  /\ HasPort(o) /\ project.dest[o] = Absent
  /\ attach' = o
  /\ NoCommand /\ UNCHANGED <<held, scene, drag, stale, reverted>>

AttachCancel == /\ attach # Absent /\ attach' = Absent
                /\ NoCommand /\ UNCHANGED <<held, scene, drag, stale, reverted>>

Before(o) == Cardinality({k \in DOMAIN Connected(project) :
               \E j, m \in DOMAIN OutputsOf(project.nodes) :
                 /\ j < m /\ OutputsOf(project.nodes)[m] = o
                 /\ OutputsOf(project.nodes)[j] = Connected(project)[k]})
CanAttach(i) ==
  /\ HasNode(project, SourceOf(attach)) /\ project.dest[attach] = Absent
  /\ ConnectorsMatch(scene, project)
  /\ {SourceOf(attach), TargetOf(i)} \subseteq DOMAIN scene.at
  /\ RouteTable[<<scene.at, attach, i>>] # Absent
  /\ HasNode(project, TargetOf(i)) /\ ~held
AttachFinish(i) ==
  /\ attach # Absent /\ CanAttach(i) /\ Runs
  /\ Execute([project EXCEPT !.dest[attach] = i])
  /\ scene' = [scene EXCEPT !.connectors =
                InsertAt(@, Before(attach) + 1,
                         ConnectorGeometry(scene.at, attach, i, project.type[attach]))]
  /\ attach' = Absent
  /\ Overtaking("edited") /\ UNCHANGED <<held, stale, reverted>>
AttachRefused(i) == /\ attach # Absent /\ ~CanAttach(i)
                    /\ attach' = Absent
                    /\ NoCommand /\ UNCHANGED <<held, scene, drag, stale, reverted>>

----------------------------------------------------------------------------
(* CanvasConnectorTypeController and CanvasConnectorInspectorController.    *)
SetType(o, type) ==
  /\ ConnectorsMatch(scene, project)
  /\ HasPort(o) /\ project.type[o] # type
  /\ Runs
  /\ Execute([project EXCEPT !.type[o] = type])
  /\ scene' = [scene EXCEPT !.connectors =
                [k \in DOMAIN @ |-> IF @[k].source = o THEN [@[k] EXCEPT !.type = type] ELSE @[k]]]
  /\ Overtaking("edited") /\ UNCHANGED <<held, attach, stale, reverted>>

\* find_output(): the port shows the name the output has.
FindOutput(o) == HasPort(o) /\ scene.names[o] = project.name[o]

SetName(o, name) ==
  /\ FindOutput(o) /\ project.name[o] # name
  /\ Runs
  /\ Execute([project EXCEPT !.name[o] = name])
  /\ scene' = [scene EXCEPT !.names[o] = name]
  /\ UNCHANGED <<held, drag, attach, stale, reverted>>

\* set_event_binding(), set_priority(), set_random_weight()
SetValue(o, value) ==
  /\ FindOutput(o) /\ project.value[o] # value
  /\ Runs
  /\ Execute([project EXCEPT !.value[o] = value])
  /\ UNCHANGED <<held, scene, drag, attach, stale, reverted>>

----------------------------------------------------------------------------
(* Everybody else.                                                          *)
Relayout == /\ scene' = LayoutNodes(project)
            /\ stale' = FALSE /\ reverted' = ~ConnectorsMatch(scene', project)
            /\ Overtaking("laid out")
            /\ NoCommand /\ UNCHANGED <<held, attach>>

Removed(p, n) ==
  [p EXCEPT !.nodes = SelectSeq(@, LAMBDA m : m # n),
            !.dest = [o \in AllOutputs |->
              IF @[o] \in ToSet(Inputs[n]) THEN Absent ELSE @[o]]]
RemoveNode(n) == /\ HasNode(project, n) /\ Runs
                 /\ Execute(Removed(project, n))
                 /\ stale' = TRUE
                 /\ UNCHANGED <<held, scene, drag, attach, reverted>>

Undo == /\ past # <<>> /\ ~held
        /\ project' = Last(past)
        /\ past' = Front(past) /\ future' = <<project>> \o future
        /\ stale' = TRUE
        /\ UNCHANGED <<held, scene, drag, attach, reverted>>
Redo == /\ future # <<>> /\ ~held
        /\ project' = Head(future)
        /\ past' = Append(past, project) /\ future' = Tail(future)
        /\ stale' = TRUE
        /\ UNCHANGED <<held, scene, drag, attach, reverted>>

Hold == /\ held' = ~held
        /\ NoCommand /\ UNCHANGED <<scene, drag, attach, stale, reverted>>

----------------------------------------------------------------------------
StartProject(dest) ==
  [nodes |-> Order, at |-> [n \in Nodes |-> Places[n][1]], dest |-> dest,
   type |-> [o \in AllOutputs |-> CHOOSE t \in Types : TRUE],
   name |-> [o \in AllOutputs |-> CHOOSE s \in Names : TRUE],
   value |-> [o \in AllOutputs |-> CHOOSE v \in Values : TRUE]]

EditInit == /\ \E dest \in Starts : project = StartProject(dest)
            /\ past = <<>> /\ future = <<>> /\ held = FALSE
            /\ scene = LayoutNodes(project) /\ stale = FALSE /\ reverted = ~ConnectorsMatch(scene, project)
            /\ drag = Absent /\ attach = Absent

DragNext == \/ \E n \in Nodes : DragBegin(n)
            \/ drag # Absent /\ \E q \in ToSet(Places[drag.node]) : DragUpdate(q)
            \/ DragFinish \/ DragFinishRefused \/ DragCancel
OutputNext == \E o \in AllOutputs :
                \/ AttachBegin(o)
                \/ \E t \in Types : SetType(o, t)
                \/ \E s \in Names : SetName(o, s)
                \/ \E v \in Values : SetValue(o, v)
AttachNext == AttachCancel \/ \E i \in AllInputs : AttachFinish(i) \/ AttachRefused(i)
OtherNext == Relayout \/ Undo \/ Redo \/ Hold \/ \E n \in Removable : RemoveNode(n)
EditNext == DragNext \/ OutputNext \/ AttachNext \/ OtherNext

----------------------------------------------------------------------------
\* The project with the dragged node where the drag shows it.
Previewed == IF drag # Absent /\ drag.node \in DOMAIN scene.at
               THEN [project EXCEPT !.at[drag.node] = scene.at[drag.node]] ELSE project

(* Until the project is changed past the controllers (or a drag cancelled   *)
(* over a new layout), what they made of the scene step by step is what a   *)
(* new layout of the project gives, routes and order of the connectors      *)
(* included.  A drag cancelled over a connector edited meanwhile takes that *)
(* edit out of the scene; then too nodes and ports are as they should be,   *)
(* and so are the connectors, or the controllers of connectors can tell     *)
(* that they are not and refuse (scene_connectors_match_project).           *)
SceneIsFresh == ~stale =>
  LET fresh == LayoutNodes(Previewed)
  IN  /\ scene.at = fresh.at /\ scene.names = fresh.names
      /\ ~reverted \/ ConnectorsMatch(scene, project) => scene.connectors = fresh.connectors

(* Every connector runs orthogonally round the nodes that do not cover its  *)
(* ends, and no such way is shorter or as short with fewer bends; a         *)
(* connector is missing from a new layout only when there is none           *)
(* (automatic_route, refresh_connector_routes).                             *)
RoutesAreBest ==
  /\ ~stale => \A k \in DOMAIN scene.connectors :
       LET c   == scene.connectors[k]
           way == SubSeq(c.points, 2, Len(c.points) - 1)
           O   == Effective(Obstacles(scene.at), way[1], Last(way))
       IN  /\ \A j \in 2..Len(way) : SegmentClear(way[j - 1], way[j], O)
           /\ RouteCost(way) = BestTable[<<scene.at, c.source, c.destination>>]
  /\ \A o \in AllOutputs : (~stale /\ scene = LayoutNodes(project) /\ HasNode(project, SourceOf(o)) /\ project.dest[o] # Absent
                             /\ BestTable[<<scene.at, o, project.dest[o]>>] # Absent) =>
       \E k \in DOMAIN scene.connectors : scene.connectors[k].source = o
=============================================================================
