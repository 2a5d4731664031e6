----------------------------- MODULE GraphCommands -----------------------------
(***************************************************************************)
(* The commands that edit the graph, its events and its tracks, run        *)
(* through a linear history: execute, undo and redo of each command file.  *)
(* A done command is a record of what it saved; its undo and redo are      *)
(* operators on a project, which may fail part way.  An undo or redo that  *)
(* fails leaves the stacks alone and whatever it did to the project.       *)
(***************************************************************************)
EXTENDS ProjectGraph

CONSTANTS
  Base,            \* the project the history starts from
  BaseTop,         \* the largest id in it
  Routes,          \* customized routes an edit may set
  ListenerConfigs, \* policies and capacities an edit may set
  Contents,        \* what a notation edit may leave in a lane
  AttributeValues, \* what an attribute may be set to
  MaxCopied,       \* bound: nodes duplicated at once
  MaxEdits,        \* bound: commands on the two stacks
  Enabled          \* bound: the commands a run explores

VARIABLES
  project,
  done,    \* the undo stack, oldest first
  undone   \* the redo stack, oldest first

vars == <<project, done, undone>>

Init == project = Base /\ done = <<>> /\ undone = <<>>

NodeIds   == DOMAIN project.node
OutputIds == UNION {{<<n, o>> : o \in DOMAIN project.node[n].output} : n \in NodeIds}
Output(x) == project.node[x[1]].output[x[2]]
Destinations == UNION {InputsAsDestinations(project, n) : n \in NodeIds}

(* generate(): an id nothing in the project or on the undo stack has.      *)
Top     == IF done = <<>> THEN BaseTop ELSE Last(done).top
FreshId == Top + 1

(* A command that executed is pushed and what was undone is forgotten.     *)
PushAs(c, r, top) ==
  /\ c.op \in Enabled
  /\ Len(done) + Len(undone) < MaxEdits
  /\ r.ok
  /\ project' = r.project
  /\ done' = Append(done, c @@ [top |-> top])
  /\ undone' = <<>>

Push(c, r)     == PushAs(c, r, Top)
PushMade(c, r) == PushAs(c, r, FreshId)

-----------------------------------------------------------------------------
(* Nodes *)
AddNodeCommand ==
  LET v == NewNode(ToSet(project.active))
  IN  PushMade([op |-> "add_node", node |-> FreshId, created |-> v],
               RestoreNode(project, FreshId, v))
UndoAddNode(p, c) == RemoveNode(p, c.node)
RedoAddNode(p, c) == RestoreNode(p, c.node, c.created)

(* The edges of p that Test admits, in the order of nodes and outputs.     *)
Edges(p, Test(_)) ==
  FlattenSeq([k \in DOMAIN p.nodes |->
    LET v == p.node[p.nodes[k]]
    IN  SelectSeq([j \in DOMAIN v.outputs |->
          [source |-> p.nodes[k], output |-> v.outputs[j],
           dest |-> v.output[v.outputs[j]].dest, route |-> v.output[v.outputs[j]].route]], Test)])

Inbound(p, n) ==
  Edges(p, LAMBDA e : e.source # n /\ e.dest \in InputsAsDestinations(p, n))

Reconnect(p, e) ==
  Then(Connect(p, e.source, e.output, e.dest), LAMBDA q : SetRoute(q, e.source, e.output, e.route))

RemoveNodeCommand(n) ==
  Push([op |-> "remove_node", node |-> n, removed |-> project.node[n],
        wasStart |-> project.start = n, cleared |-> Inbound(project, n)],
       RemoveNode(project, n))

UndoRemoveNode(p, c) ==
  ForEach(Then(RestoreNode(p, c.node, c.removed),
               LAMBDA q : IF c.wasStart THEN SetStartNode(q, c.node) ELSE Ok(q)),
          c.cleared, Reconnect)
RedoRemoveNode(p, c) == RemoveNode(p, c.node)

(* The duplicate of n in a selection S: id x becomes x + shift, edges      *)
(* inside S follow, all other edges and every route are dropped.           *)
CopiedDest(p, S, shift, d) ==
  IF d # None /\ d.node \in S /\ d.connector \in ToSet(p.node[d.node].inputs)
  THEN [node |-> d.node + shift, connector |-> d.connector + shift] ELSE None

Copy(p, S, shift, n) ==
  LET v == p.node[n]
      copied(o) == [v.output[o] EXCEPT !.dest = CopiedDest(p, S, shift, @), !.route = Automatic]
  IN  [v EXCEPT !.inputs = [k \in DOMAIN @ |-> @[k] + shift],
                !.inputName = [i \in {j + shift : j \in DOMAIN @} |-> v.inputName[i - shift]],
                !.attr.position = <<"offset", @>>,
                !.outputs = [k \in DOMAIN @ |-> @[k] + shift],
                !.output = [x \in {o + shift : o \in DOMAIN @} |-> copied(x - shift)]]

Publish(p, nodes) == ForEach(Ok(p), nodes, LAMBDA q, x : RestoreNode(q, x.node, x.value))

DuplicateNodesCommand(S) ==
  LET sources == SelectSeq(project.nodes, LAMBDA n : n \in S)
      created == [k \in DOMAIN sources |->
                   [node |-> sources[k] + Top, value |-> Copy(project, S, Top, sources[k])]]
  IN  /\ \A n \in S : DOMAIN project.node[n].lane
                        \subseteq ToSet(project.active) \union ToSet(project.archived)
      /\ PushAs([op |-> "duplicate_nodes", created |-> created], Publish(project, created), 2 * Top)
UndoDuplicateNodes(p, c) ==
  IF \A k \in DOMAIN c.created : HasNode(p, c.created[k].node)
  THEN ForEach(Ok(p), c.created, LAMBDA q, x : RemoveNode(q, x.node)) ELSE Refused(p)
RedoDuplicateNodes(p, c) ==
  IF \A k \in DOMAIN c.created : ~HasNode(p, c.created[k].node)
  THEN Publish(p, c.created) ELSE Refused(p)

SetStartTo(p, n) == IF n = None THEN ClearStartNode(p) ELSE SetStartNode(p, n)
SetStartNodeCommand(n) ==
  Push([op |-> "set_start_node", old |-> project.start, new |-> n], SetStartTo(project, n))
UndoSetStartNode(p, c) == SetStartTo(p, c.old)
RedoSetStartNode(p, c) == SetStartTo(p, c.new)

-----------------------------------------------------------------------------
(* Connectors and edges *)
AddInputConnectorCommand(n) ==
  PushMade([op |-> "add_input", node |-> n, input |-> FreshId], AddInput(project, n, FreshId))
UndoAddInputConnector(p, c) == RemoveInput(p, c.node, c.input)
RedoAddInputConnector(p, c) == RestoreInput(p, c.node, c.input, Plain)

RemoveInputConnectorCommand(n, i) ==
  Push([op |-> "remove_input", node |-> n, input |-> i, name |-> project.node[n].inputName[i],
        cleared |-> Edges(project, LAMBDA e : e.dest = [node |-> n, connector |-> i])],
       RemoveInput(project, n, i))
UndoRemoveInputConnector(p, c) ==
  ForEach(RestoreInput(p, c.node, c.input, c.name), c.cleared, Reconnect)
RedoRemoveInputConnector(p, c) == RemoveInput(p, c.node, c.input)

AddOutputConnectorCommand(n, t) ==
  PushMade([op |-> "add_output", node |-> n, output |-> FreshId, created |-> NewOutput(t)],
           AddOutput(project, n, FreshId, t))
UndoAddOutputConnector(p, c) == RemoveOutput(p, c.node, c.output)
RedoAddOutputConnector(p, c) == RestoreOutput(p, c.node, c.output, c.created, None)

RemoveOutputConnectorCommand(x) ==
  LET e == Output(x).event
  IN  Push([op |-> "remove_output", node |-> x[1], output |-> x[2], removed |-> Output(x),
            listener |-> IF e # None /\ HasListener(project, x[1], e)
                         THEN project.node[x[1]].listener[e] ELSE None],
           RemoveOutput(project, x[1], x[2]))
UndoRemoveOutputConnector(p, c) == RestoreOutput(p, c.node, c.output, c.removed, c.listener)
RedoRemoveOutputConnector(p, c) == RemoveOutput(p, c.node, c.output)

ConnectCommand(x, d) ==
  Push([op |-> "connect", node |-> x[1], output |-> x[2], dest |-> d, route |-> Output(x).route],
       Connect(project, x[1], x[2], d))
UndoConnect(p, c) ==
  Then(Disconnect(p, c.node, c.output), LAMBDA q : SetRoute(q, c.node, c.output, c.route))
RedoConnect(p, c) == Connect(p, c.node, c.output, c.dest)

DisconnectCommand(x) ==
  Push([op |-> "disconnect", node |-> x[1], output |-> x[2], dest |-> Output(x).dest,
        route |-> Output(x).route], Disconnect(project, x[1], x[2]))
UndoDisconnect(p, c) ==
  Then(Connect(p, c.node, c.output, c.dest), LAMBDA q : SetRoute(q, c.node, c.output, c.route))
RedoDisconnect(p, c) == Disconnect(p, c.node, c.output)

SetCustomRouteCommand(x, r) ==
  Push([op |-> "set_custom_route", node |-> x[1], output |-> x[2], old |-> Output(x).route,
        new |-> r], SetRoute(project, x[1], x[2], r))
UndoSetCustomRoute(p, c) == SetRoute(p, c.node, c.output, c.old)
RedoSetCustomRoute(p, c) == SetRoute(p, c.node, c.output, c.new)

ResetRouteCommand(x) ==
  Push([op |-> "reset_route", node |-> x[1], output |-> x[2], old |-> Output(x).route],
       SetRoute(project, x[1], x[2], Automatic))
UndoResetRoute(p, c) == SetRoute(p, c.node, c.output, c.old)
RedoResetRoute(p, c) == SetRoute(p, c.node, c.output, Automatic)

SetOutputTypeCommand(x, t) ==
  Push([op |-> "set_output_type", node |-> x[1], output |-> x[2], old |-> Output(x).type,
        new |-> t], SetOutputType(project, x[1], x[2], t))
UndoSetOutputType(p, c) == SetOutputType(p, c.node, c.output, c.old)
RedoSetOutputType(p, c) == SetOutputType(p, c.node, c.output, c.new)

-----------------------------------------------------------------------------
(* Events and listeners *)
RegisterEventCommand ==
  PushMade([op |-> "register_event", event |-> FreshId], AddEvent(project, FreshId))
UndoRegisterEvent(p, c) == RemoveEvent(p, c.event)
RedoRegisterEvent(p, c) == AddEvent(p, c.event)

Listening(p, e) == SelectSeq(p.nodes, LAMBDA n : e \in DOMAIN p.node[n].listener)

(* The outputs bound to e, in the order of nodes and outputs. *)
BoundOutputs(p, e) ==
  FlattenSeq([k \in DOMAIN p.nodes |->
    LET v == p.node[p.nodes[k]]
    IN  SelectSeq([j \in DOMAIN v.outputs |-> [node |-> p.nodes[k], output |-> v.outputs[j]]],
                  LAMBDA b : v.output[b.output].event = e)])

RemoveEventCommand(e) ==
  Push([op |-> "remove_event", event |-> e, bound |-> BoundOutputs(project, e),
        listeners |-> [k \in DOMAIN Listening(project, e) |->
          LET n == Listening(project, e)[k] IN [node |-> n, was |-> project.node[n].listener[e]]]],
       RemoveEvent(project, e))

(* Mutant of UndoRemoveEvent: listeners come back with their defaults. *)
UndoRemoveEvent_DefaultListeners(p, c) ==
  ForEach(AddEvent(p, c.event), c.bound,
          LAMBDA q, b : BindOutputEvent(q, b.node, b.output, c.event))

UndoRemoveEvent(p, c) ==
  ForEach(ForEach(AddEvent(p, c.event), c.bound,
                  LAMBDA q, b : BindOutputEvent(q, b.node, b.output, c.event)),
          c.listeners,
          LAMBDA q, l : SetListenerPolicy(q, l.node, c.event, l.was.policy, l.was.capacity))
RedoRemoveEvent(p, c) == RemoveEvent(p, c.event)

BindOutputEventCommand(x, e) ==
  LET old == Output(x).event
  IN  Push([op |-> "bind_output_event", node |-> x[1], output |-> x[2], old |-> old, new |-> e,
            listener |-> IF old # None /\ HasListener(project, x[1], old)
                         THEN project.node[x[1]].listener[old] ELSE None],
           BindOutputEvent(project, x[1], x[2], e))
UndoBindOutputEvent(p, c) ==
  Then(BindOutputEvent(p, c.node, c.output, c.old),
       LAMBDA q : IF c.listener = None THEN Ok(q)
                  ELSE SetListenerPolicy(q, c.node, c.old, c.listener.policy, c.listener.capacity))
RedoBindOutputEvent(p, c) == BindOutputEvent(p, c.node, c.output, c.new)

SetListenerPolicyCommand(n, e, config) ==
  Push([op |-> "set_listener_policy", node |-> n, event |-> e,
        old |-> project.node[n].listener[e], new |-> config],
       SetListenerPolicy(project, n, e, config.policy, config.capacity))
UndoSetListenerPolicy(p, c) == SetListenerPolicy(p, c.node, c.event, c.old.policy, c.old.capacity)
RedoSetListenerPolicy(p, c) == SetListenerPolicy(p, c.node, c.event, c.new.policy, c.new.capacity)

-----------------------------------------------------------------------------
(* Tracks and what the lanes hold *)
AddTrackCommand ==
  PushMade([op |-> "add_track", track |-> FreshId], AddTrack(project, FreshId))
UndoAddTrack(p, c) == HardRemoveTrack(p, c.track)
RedoAddTrack(p, c) == AddTrack(p, c.track)

ArchiveTrackCommand(t) ==
  Push([op |-> "archive_track", track |-> t], ArchiveTrack(project, t))
UndoArchiveTrack(p, c) == RestoreTrack(p, c.track)
RedoArchiveTrack(p, c) == ArchiveTrack(p, c.track)

RestoreTrackCommand(t) ==
  Push([op |-> "restore_track", track |-> t], RestoreTrack(project, t))
UndoRestoreTrack(p, c) == ArchiveTrack(p, c.track)
RedoRestoreTrack(p, c) == RestoreTrack(p, c.track)

(* A notation command replaces the voice it resolves, and undoes and       *)
(* redoes only where the voice still is what it left.                      *)
Rewrite(p, n, t, from, to) ==
  Try(HasNode(p, n) /\ t \in DOMAIN p.node[n].lane /\ p.node[n].lane[t] = from,
      p, [p EXCEPT !.node[n].lane[t] = to])
SetEventCommand(n, t, content) ==
  /\ t \in ToSet(project.active)
  /\ t \in DOMAIN project.node[n].lane
  /\ Push([op |-> "set_event", node |-> n, track |-> t, old |-> project.node[n].lane[t],
           new |-> content], Rewrite(project, n, t, project.node[n].lane[t], content))
UndoSetEvent(p, c) == Rewrite(p, c.node, c.track, c.new, c.old)
RedoSetEvent(p, c) == Rewrite(p, c.node, c.track, c.old, c.new)

-----------------------------------------------------------------------------
(* Attributes: a command saves the value it replaces, and writes that one  *)
(* or its own to the owner it finds by id.                                 *)
WriteAttribute(p, c, v) ==
  CASE c.of = "node"    -> SetNodeAttribute(p, c.owner, c.name, v)
    [] c.of = "input"   -> SetInputName(p, c.owner[1], c.owner[2], v)
    [] c.of = "output"  -> SetOutputAttribute(p, c.owner[1], c.owner[2], c.name, v)
    [] c.of = "track"   -> SetTrackAttribute(p, c.owner, c.name, v)
    [] c.of = "project" -> SetProjectAttribute(p, c.name, v)

UndoSetAttribute(p, c) == WriteAttribute(p, c, c.old)
RedoSetAttribute(p, c) == WriteAttribute(p, c, c.new)

SetAttribute(of, owner, a, old, v) ==
  LET c == [op |-> "set_attribute", of |-> of, owner |-> owner, name |-> a, old |-> old, new |-> v]
  IN  Push(c, WriteAttribute(project, c, v))

OfNode(n, a, v)   == SetAttribute("node", n, a, project.node[n].attr[a], v)
OfOutput(x, a, v) == SetAttribute("output", x, a, Output(x).attr[a], v)
OfTrack(t, a, v)  == SetAttribute("track", t, a, project.track[t][a], v)
OfProject(a, v)   == SetAttribute("project", None, a, project.attr[a], v)

SetNodeNameCommand(n, v)            == OfNode(n, "name", v)
SetNodeColorCommand(n, v)           == OfNode(n, "color", v)
SetNodeNotesCommand(n, v)           == OfNode(n, "notes", v)
SetNodePositionCommand(n, v)        == OfNode(n, "position", v)
SetOutputConnectorNameCommand(x, v) == OfOutput(x, "name", v)
SetOutputPriorityCommand(x, v)      == OfOutput(x, "priority", v)
SetOutputWeightCommand(x, v)        == OfOutput(x, "weight", v)
SetOutputExportEnabledCommand(x, v) == OfOutput(x, "export", v)
SetTrackNameCommand(t, v)           == OfTrack(t, "name", v)
SetTrackGainCommand(t, v)           == OfTrack(t, "gain", v)
SetTrackPanCommand(t, v)            == OfTrack(t, "pan", v)
SetTrackMuteCommand(t, v)           == OfTrack(t, "mute", v)
SetTrackSoloCommand(t, v)           == OfTrack(t, "solo", v)
SetProjectNameCommand(v)            == OfProject("name", v)
SetProjectTempoCommand(v)           == OfProject("tempo", v)
SetProjectDynamicCommand(v)         == OfProject("dynamic", v)
SetInputConnectorNameCommand(d, v) ==
  SetAttribute("input", <<d.node, d.connector>>, "name", project.node[d.node].inputName[d.connector], v)

EditAttribute ==
  \E v \in AttributeValues :
    \/ \E n \in NodeIds : \/ SetNodeNameCommand(n, v)
                          \/ SetNodeColorCommand(n, v)
                          \/ SetNodeNotesCommand(n, v)
                          \/ SetNodePositionCommand(n, v)
    \/ \E x \in OutputIds : \/ SetOutputConnectorNameCommand(x, v)
                            \/ SetOutputPriorityCommand(x, v)
                            \/ SetOutputExportEnabledCommand(x, v)
    \/ \E t \in ToSet(project.active) : \/ SetTrackNameCommand(t, v)
                                        \/ SetTrackGainCommand(t, v)
                                        \/ SetTrackPanCommand(t, v)
                                        \/ SetTrackMuteCommand(t, v)
                                        \/ SetTrackSoloCommand(t, v)
    \/ \E x \in OutputIds, w \in {v, Negative} : SetOutputWeightCommand(x, w)
    \/ SetProjectNameCommand(v)
    \/ SetProjectTempoCommand(v)
    \/ SetProjectDynamicCommand(v)
    \/ \E d \in Destinations : SetInputConnectorNameCommand(d, v)

-----------------------------------------------------------------------------
UndoOf(p, c) ==
  CASE c.op = "add_node"          -> UndoAddNode(p, c)
    [] c.op = "remove_node"       -> UndoRemoveNode(p, c)
    [] c.op = "duplicate_nodes"   -> UndoDuplicateNodes(p, c)
    [] c.op = "set_start_node"    -> UndoSetStartNode(p, c)
    [] c.op = "add_input"         -> UndoAddInputConnector(p, c)
    [] c.op = "remove_input"      -> UndoRemoveInputConnector(p, c)
    [] c.op = "add_output"        -> UndoAddOutputConnector(p, c)
    [] c.op = "remove_output"     -> UndoRemoveOutputConnector(p, c)
    [] c.op = "connect"           -> UndoConnect(p, c)
    [] c.op = "disconnect"        -> UndoDisconnect(p, c)
    [] c.op = "set_custom_route"  -> UndoSetCustomRoute(p, c)
    [] c.op = "reset_route"       -> UndoResetRoute(p, c)
    [] c.op = "set_output_type"   -> UndoSetOutputType(p, c)
    [] c.op = "register_event"    -> UndoRegisterEvent(p, c)
    [] c.op = "remove_event"      -> UndoRemoveEvent(p, c)
    [] c.op = "bind_output_event" -> UndoBindOutputEvent(p, c)
    [] c.op = "set_listener_policy" -> UndoSetListenerPolicy(p, c)
    [] c.op = "add_track"         -> UndoAddTrack(p, c)
    [] c.op = "archive_track"     -> UndoArchiveTrack(p, c)
    [] c.op = "restore_track"     -> UndoRestoreTrack(p, c)
    [] c.op = "set_event"         -> UndoSetEvent(p, c)
    [] c.op = "set_attribute"     -> UndoSetAttribute(p, c)

RedoOf(p, c) ==
  CASE c.op = "add_node"          -> RedoAddNode(p, c)
    [] c.op = "remove_node"       -> RedoRemoveNode(p, c)
    [] c.op = "duplicate_nodes"   -> RedoDuplicateNodes(p, c)
    [] c.op = "set_start_node"    -> RedoSetStartNode(p, c)
    [] c.op = "add_input"         -> RedoAddInputConnector(p, c)
    [] c.op = "remove_input"      -> RedoRemoveInputConnector(p, c)
    [] c.op = "add_output"        -> RedoAddOutputConnector(p, c)
    [] c.op = "remove_output"     -> RedoRemoveOutputConnector(p, c)
    [] c.op = "connect"           -> RedoConnect(p, c)
    [] c.op = "disconnect"        -> RedoDisconnect(p, c)
    [] c.op = "set_custom_route"  -> RedoSetCustomRoute(p, c)
    [] c.op = "reset_route"       -> RedoResetRoute(p, c)
    [] c.op = "set_output_type"   -> RedoSetOutputType(p, c)
    [] c.op = "register_event"    -> RedoRegisterEvent(p, c)
    [] c.op = "remove_event"      -> RedoRemoveEvent(p, c)
    [] c.op = "bind_output_event" -> RedoBindOutputEvent(p, c)
    [] c.op = "set_listener_policy" -> RedoSetListenerPolicy(p, c)
    [] c.op = "add_track"         -> RedoAddTrack(p, c)
    [] c.op = "archive_track"     -> RedoArchiveTrack(p, c)
    [] c.op = "restore_track"     -> RedoRestoreTrack(p, c)
    [] c.op = "set_event"         -> RedoSetEvent(p, c)
    [] c.op = "set_attribute"     -> RedoSetAttribute(p, c)

Undo ==
  /\ done # <<>>
  /\ LET r == UndoOf(project, Last(done))
     IN  /\ project' = r.project
         /\ IF r.ok THEN done' = Front(done) /\ undone' = Append(undone, Last(done))
            ELSE UNCHANGED <<done, undone>>

Redo ==
  /\ undone # <<>>
  /\ LET r == RedoOf(project, Last(undone))
     IN  /\ project' = r.project
         /\ IF r.ok THEN undone' = Front(undone) /\ done' = Append(done, Last(undone))
            ELSE UNCHANGED <<done, undone>>

Next ==
  \/ AddNodeCommand
  \/ \E n \in NodeIds : RemoveNodeCommand(n)
  \/ \E S \in kSubset(1, NodeIds) \union kSubset(MaxCopied, NodeIds) : DuplicateNodesCommand(S)
  \/ \E n \in NodeIds \union {None} : SetStartNodeCommand(n)
  \/ \E n \in NodeIds : AddInputConnectorCommand(n)
  \/ \E d \in Destinations : RemoveInputConnectorCommand(d.node, d.connector)
  \/ \E n \in NodeIds, t \in ConnectorTypes : AddOutputConnectorCommand(n, t)
  \/ \E x \in OutputIds : RemoveOutputConnectorCommand(x)
  \/ \E x \in OutputIds, d \in Destinations : ConnectCommand(x, d)
  \/ \E x \in OutputIds : DisconnectCommand(x)
  \/ \E x \in OutputIds, r \in Routes : SetCustomRouteCommand(x, r)
  \/ \E x \in OutputIds : ResetRouteCommand(x)
  \/ \E x \in OutputIds, t \in ConnectorTypes : SetOutputTypeCommand(x, t)
  \/ RegisterEventCommand
  \/ \E e \in project.events : RemoveEventCommand(e)
  \/ \E x \in OutputIds, e \in project.events \union {None} : BindOutputEventCommand(x, e)
  \/ \E n \in NodeIds : \E e \in DOMAIN project.node[n].listener, config \in ListenerConfigs :
       SetListenerPolicyCommand(n, e, config)
  \/ AddTrackCommand
  \/ \E t \in ToSet(project.active) : ArchiveTrackCommand(t)
  \/ \E t \in ToSet(project.archived) : RestoreTrackCommand(t)
  \/ \E n \in NodeIds, t \in ToSet(project.active), content \in Contents :
       SetEventCommand(n, t, content)
  \/ EditAttribute
  \/ Undo
  \/ Redo

Spec == Init /\ [][Next]_vars

-----------------------------------------------------------------------------
(* When memory runs out: the projects that the next undo, redo or execute  *)
(* can leave if an allocation fails after it has begun to change the       *)
(* project.  (One before the first change fails the command with nothing   *)
(* done.)  An undo that gives up leaves its stacks untouched.  Left out    *)
(* are the half-made entries of EventRegistry and the copy of a connector  *)
(* just added: nothing refers to what they leave behind.                   *)
NewestIs(stack, op) == stack # <<>> /\ Last(stack).op = op

(* Reconnecting `cleared' in turn, the copy of route k fails: the edge is  *)
(* back, its route is automatic, and later edges are missing.              *)
ReconnectedUpTo(r, cleared, k) ==
  Then(ForEach(r, SubSeq(cleared, 1, k - 1), Reconnect),
       LAMBDA q : Connect(q, cleared[k].source, cleared[k].output, cleared[k].dest))
LosingRoutes(r, cleared) ==
  {ReconnectedUpTo(r, cleared, k) : k \in {j \in DOMAIN cleared : cleared[j].route # Automatic}}

UndoRemoveNodeRunsOut(c) ==
  LosingRoutes(Then(RestoreNode(project, c.node, c.removed),
                    LAMBDA q : IF c.wasStart THEN SetStartNode(q, c.node) ELSE Ok(q)),
               c.cleared)

UndoRemoveInputRunsOut(c) == LosingRoutes(RestoreInput(project, c.node, c.input, c.name), c.cleared)

(* The output is back in outputs_ when the map of listeners cannot grow.   *)
UndoRemoveOutputRunsOut(c) ==
  IF c.listener # None /\ ~HasListener(project, c.node, c.removed.event)
  THEN {RestoreOutput(project, c.node, c.output, c.removed, None)} ELSE {}

(* bind_output_event() when the map of listeners cannot grow: the output   *)
(* is bound to an event that has no listener.                              *)
BindRunsOut(p, n, o, e) ==
  IF e = None \/ HasListener(p, n, e) THEN {}
  ELSE {Then(BindOutputEvent(p, n, o, e),
             LAMBDA q : Ok([q EXCEPT !.node[n].listener = Without(@, e)]))}

ExecuteBindOutputRunsOut ==
  UNION {BindRunsOut(project, x[1], x[2], e) : x \in OutputIds, e \in project.events}
UndoBindOutputRunsOut(c) == BindRunsOut(project, c.node, c.output, c.old)
RedoBindOutputRunsOut(c) == BindRunsOut(project, c.node, c.output, c.new)

UndoRemoveEventRunsOut(c) ==
  LET Rebound(k) == ForEach(AddEvent(project, c.event), SubSeq(c.bound, 1, k - 1),
                          LAMBDA q, b : BindOutputEvent(q, b.node, b.output, c.event))
  IN  UNION {BindRunsOut(Rebound(k).project, c.bound[k].node, c.bound[k].output, c.event)
                : k \in {j \in DOMAIN c.bound : Rebound(j).ok}}

(* The project a call that ran out of memory may leave from here.          *)
Wrecks ==
  LET ByUndo == CASE NewestIs(done, "remove_node")   -> UndoRemoveNodeRunsOut(Last(done))
                  [] NewestIs(done, "remove_input")  -> UndoRemoveInputRunsOut(Last(done))
                  [] NewestIs(done, "remove_output") -> UndoRemoveOutputRunsOut(Last(done))
                  [] NewestIs(done, "remove_event")  -> UndoRemoveEventRunsOut(Last(done))
                  [] NewestIs(done, "bind_output_event") -> UndoBindOutputRunsOut(Last(done))
                  [] OTHER -> {}
      ByRedo == IF NewestIs(undone, "bind_output_event")
                THEN RedoBindOutputRunsOut(Last(undone)) ELSE {}
  IN  {r.project : r \in {s \in ByUndo \union ByRedo \union ExecuteBindOutputRunsOut : s.ok}}

-----------------------------------------------------------------------------
(* Properties *)

(* No command, undo or redo leaves an edge to an input that is gone, or a  *)
(* start node that is gone: a restored node is put back verbatim, edges    *)
(* and all (project.hpp), with no check of where they lead.                *)
EdgesLand == ReferencesLand(project)

(* Listeners mirror bindings through every command, undo and redo          *)
(* (node.hpp: one listener per bound event, of one type).                  *)
ListenersServeBindings == BindingsServed(project)

(* Every node has a lane for every active track, and none for a track in   *)
(* neither set, which duplicate_nodes_command.cpp holds to be unreachable; *)
(* restore_node() realigns nothing and relies on the linear history.       *)
NodesAligned == LanesAligned(project)

(* Nothing dangles, no listener is without a binding or a binding without  *)
(* its listener, and every node has exactly the lanes it should have.      *)
GraphIsSound == EdgesLand /\ ListenersServeBindings /\ NodesAligned

\* Under a linear history the newest undo and the newest redo succeed.
NeverBlocked ==
  /\ done # <<>> => UndoOf(project, Last(done)).ok
  /\ undone # <<>> => RedoOf(project, Last(undone)).ok

(* What the project holds apart from the order of its vectors and of empty *)
(* lanes of archived tracks.                                               *)
Content(p) ==
  [node |-> [n \in DOMAIN p.node |->
     [p.node[n] EXCEPT !.inputs = ToSet(@), !.outputs = ToSet(@),
                       !.lane = Restrict(@, {t \in DOMAIN @ : t \in ToSet(p.active) \/ @[t] # Empty})]],
   start |-> p.start, events |-> p.events,
   active |-> ToSet(p.active), archived |-> ToSet(p.archived),
   track |-> p.track, attr |-> p.attr]

Replayed == FoldLeft(LAMBDA p, c : RedoOf(p, c).project, Base, done)

(* Undo takes back the whole edit and redo makes the same edit again, and  *)
(* neither is ever refused, so that a history never blocks on a command    *)
(* (command.hpp): the project always holds what redoing the commands that  *)
(* are done makes of the project the history began with.                   *)
UndoIsInverse == NeverBlocked /\ Content(project) = Content(Replayed)

(* Whatever a call that runs out of memory leaves behind, its edges still  *)
(* end at inputs that exist and only registered events are bound: the      *)
(* damage is lost edges, routes and listeners, never a dangling reference. *)
DamageDoesNotDangle ==
  \A p \in Wrecks :
    /\ ReferencesLand(p)
    /\ \A n \in DOMAIN p.node : \A o \in DOMAIN p.node[n].output :
         p.node[n].output[o].event \in p.events \union {None}
=============================================================================
