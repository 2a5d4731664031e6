----------------------------- MODULE ProjectGraph -----------------------------
(***************************************************************************)
(* The authoring graph: Project, Graph, Node and EventRegistry             *)
(* (project.cpp, graph.cpp, node.cpp, event_registry.cpp) as operators on  *)
(* one project value.  Every mutator returns an outcome: the project it    *)
(* leaves, and whether it succeeded.  Ids of all kinds are numbers, and no *)
(* two things share one.                                                   *)
(***************************************************************************)
EXTENDS EventQueue, SequencesExt

CONSTANTS
  None,             \* std::nullopt
  Automatic,        \* a RouteGeometry that is not customized
  Empty,            \* the content of a lane nothing was written to
  MaxActiveTracks   \* Project::kMaxActiveTracks

Sequential == "sequential"
Vertical   == "vertical"
ConnectorTypes == {Sequential, Vertical}

Without(f, x) == Restrict(f, DOMAIN f \ {x})
With(f, x, v) == [y \in DOMAIN f \union {x} |-> IF y = x THEN v ELSE f[y]]

-----------------------------------------------------------------------------
(* Outcomes *)
Ok(p)           == [ok |-> TRUE, project |-> p]
Refused(p)      == [ok |-> FALSE, project |-> p]
Try(guard, p, q) == IF guard THEN Ok(q) ELSE Refused(p)

(* The next call, made only when the one before succeeded. *)
Then(r, Call(_)) == IF r.ok THEN Call(r.project) ELSE r

(* The same call for each element of xs in turn, up to the first failure.  *)
ForEach(r, xs, Call(_, _)) ==
  FoldLeft(LAMBDA s, x : IF s.ok THEN Call(s.project, x) ELSE s, r, xs)

-----------------------------------------------------------------------------
(* Values.  node[n] is the Node value found under id n, nodes the order of *)
(* nodes_; a Node keeps its outputs the same way.  Tracks are ids in the   *)
(* order of the two track vectors, which is also their TrackIndex.         *)
(* What an edit sets and nothing else in the graph reads is an attribute.  *)
Plain == "plain"
Attributes(names) == [a \in names |-> Plain]

EmptyProject ==
  [nodes |-> <<>>, node |-> <<>>, start |-> None, events |-> {},
   active |-> <<>>, archived |-> <<>>, track |-> <<>>,
   attr |-> Attributes({"name", "tempo", "dynamic"})]

NewNode(lanes) ==
  [inputs |-> <<>>, inputName |-> <<>>, outputs |-> <<>>, output |-> <<>>, listener |-> <<>>,
   lane |-> [t \in lanes |-> Empty],
   attr |-> Attributes({"name", "color", "notes", "position"})]

NewOutput(t) ==
  [type |-> t, event |-> None, dest |-> None, route |-> Automatic,
   attr |-> Attributes({"name", "priority", "weight", "export"})]

(* AuditionMixSettings and the name of a track. *)
NewTrack == Attributes({"name", "gain", "pan", "mute", "solo"})
NewListener(t) == [boundType |-> t, policy |-> LatestValidWins, capacity |-> 1]

HasNode(p, n)      == n \in DOMAIN p.node
HasInput(p, n, i)  == HasNode(p, n) /\ i \in ToSet(p.node[n].inputs)
HasOutput(p, n, o) == HasNode(p, n) /\ o \in DOMAIN p.node[n].output
HasListener(p, n, e) == HasNode(p, n) /\ e \in DOMAIN p.node[n].listener

-----------------------------------------------------------------------------
(* Node *)
PutInput(p, n, i, name) ==
  [p EXCEPT !.node[n].inputs = Append(@, i), !.node[n].inputName = With(@, i, name)]

AddInput(p, n, i) == Try(HasNode(p, n), p, PutInput(p, n, i, Plain))

RestoreInput(p, n, i, name) ==
  Try(HasNode(p, n) /\ ~HasInput(p, n, i), p, PutInput(p, n, i, name))

PutOutput(v, o, out) ==
  [v EXCEPT !.outputs = Append(@, o), !.output = With(@, o, out)]

AddOutput(p, n, o, t) ==
  Try(HasNode(p, n), p, [p EXCEPT !.node[n] = PutOutput(@, o, NewOutput(t))])

(* Mutant of RestoreOutput: a destroyed listener is not recreated. *)
RestoreOutput_NoListener(p, n, o, out, listener) ==
  Try(HasNode(p, n) /\ ~HasOutput(p, n, o), p, [p EXCEPT !.node[n] = PutOutput(@, o, out)])

RestoreOutput(p, n, o, out, listener) ==
  Try(HasNode(p, n) /\ ~HasOutput(p, n, o), p,
      [p EXCEPT !.node[n] =
        [PutOutput(@, o, out) EXCEPT !.listener =
          IF out.event # None /\ listener # None /\ out.event \notin DOMAIN @
          THEN With(@, out.event, listener) ELSE @]])

(* cleanup_listener_if_unused() on a node whose outputs are v's. *)
Cleaned(v, e) ==
  IF e # None /\ \A o \in DOMAIN v.output : v.output[o].event # e
  THEN [v EXCEPT !.listener = Without(@, e)] ELSE v

RemoveOutput(p, n, o) ==
  Try(HasOutput(p, n, o), p,
      [p EXCEPT !.node[n] =
        Cleaned([@ EXCEPT !.outputs = Remove(@, o), !.output = Without(@, o)],
                @.output[o].event)])

(* No other output bound to e has a type other than t. *)
NoClash(v, o, e, t) ==
  \A x \in DOMAIN v.output \ {o} : v.output[x].event = e => v.output[x].type = t

Bound(v, o, e) ==
  LET w == Cleaned([v EXCEPT !.output[o].event = e], v.output[o].event)
  IN  IF e = None \/ e \in DOMAIN w.listener THEN w
      ELSE [w EXCEPT !.listener = With(@, e, NewListener(v.output[o].type))]

BindOnNode(p, n, o, e) ==
  IF HasOutput(p, n, o) /\ p.node[n].output[o].event = e THEN Ok(p)
  ELSE Try(/\ HasOutput(p, n, o)
           /\ e # None => NoClash(p.node[n], o, e, p.node[n].output[o].type),
           p, [p EXCEPT !.node[n] = Bound(@, o, e)])

Retyped(v, o, t) ==
  LET e == v.output[o].event
      w == [v EXCEPT !.output[o].type = t]
  IN  IF e \in DOMAIN v.listener THEN [w EXCEPT !.listener[e].boundType = t] ELSE w

SetOutputType(p, n, o, t) ==
  Try(/\ HasOutput(p, n, o)
      /\ LET out == p.node[n].output[o]
         IN  out.type = t \/ out.event = None \/ NoClash(p.node[n], o, out.event, t),
      p, [p EXCEPT !.node[n] = Retyped(@, o, t)])

SetListenerPolicy(p, n, e, policy, capacity) ==
  Try(HasListener(p, n, e) /\ ~(policy = Fifo /\ capacity = 0), p,
      [p EXCEPT !.node[n].listener[e].policy = policy,
                !.node[n].listener[e].capacity = capacity])

SetRoute(p, n, o, r) ==
  Try(HasOutput(p, n, o), p, [p EXCEPT !.node[n].output[o].route = r])

SetNodeAttribute(p, n, a, v) == Try(HasNode(p, n), p, [p EXCEPT !.node[n].attr[a] = v])
SetInputName(p, n, i, v) == Try(HasInput(p, n, i), p, [p EXCEPT !.node[n].inputName[i] = v])

(* OutputConnector's setters; only set_weight() rejects a value. *)
Negative == "negative"
SetOutputAttribute(p, n, o, a, v) ==
  Try(HasOutput(p, n, o) /\ ~(a = "weight" /\ v = Negative), p,
      [p EXCEPT !.node[n].output[o].attr[a] = v])

-----------------------------------------------------------------------------
(* Graph *)
Connect(p, n, o, d) ==
  Try(/\ HasOutput(p, n, o) /\ p.node[n].output[o].dest = None
      /\ HasInput(p, d.node, d.connector),
      p, [p EXCEPT !.node[n].output[o].dest = d])

(* set_destination(nullopt) *)
Unwired(out) == [out EXCEPT !.dest = None, !.route = Automatic]

Disconnect(p, n, o) ==
  Try(HasOutput(p, n, o) /\ p.node[n].output[o].dest # None, p,
      [p EXCEPT !.node[n].output[o] = Unwired(@)])

(* clear_destinations_to(), for each destination in `lost'. *)
ClearedDestinations(v, lost) ==
  [v EXCEPT !.output = [o \in DOMAIN v.output |->
    IF v.output[o].dest \in lost THEN Unwired(v.output[o]) ELSE v.output[o]]]

InputsAsDestinations(p, n) ==
  {[node |-> n, connector |-> i] : i \in ToSet(p.node[n].inputs)}

(* Mutant of RemoveInput: only other nodes lose their edge. *)
RemoveInput_SparesSelf(p, n, i) ==
  Try(HasInput(p, n, i), p,
      [p EXCEPT !.node = [m \in DOMAIN @ |->
        IF m = n THEN [@[n] EXCEPT !.inputs = Remove(@, i), !.inputName = Without(@, i)]
        ELSE ClearedDestinations(@[m], {[node |-> n, connector |-> i]})]])

RemoveInput(p, n, i) ==
  LET cut == [p EXCEPT !.node = [m \in DOMAIN @ |->
               ClearedDestinations(@[m], {[node |-> n, connector |-> i]})]]
  IN  Try(HasInput(p, n, i), p, [cut EXCEPT !.node[n].inputs = Remove(@, i),
                                            !.node[n].inputName = Without(@, i)])

BindOutputEvent(p, n, o, e) ==
  IF e # None /\ e \notin p.events THEN Refused(p) ELSE BindOnNode(p, n, o, e)

(* Every output of v bound to e is unbound. *)
Unbound(v, e) ==
  Cleaned([v EXCEPT !.output = [o \in DOMAIN v.output |->
    IF v.output[o].event = e THEN [v.output[o] EXCEPT !.event = None] ELSE v.output[o]]], e)

RemoveEvent(p, e) ==
  Try(e \in p.events, p,
      [p EXCEPT !.node = [n \in DOMAIN @ |-> Unbound(@[n], e)], !.events = @ \ {e}])

-----------------------------------------------------------------------------
(* EventRegistry *)
AddEvent(p, e) == Try(e \notin p.events, p, [p EXCEPT !.events = @ \union {e}])

-----------------------------------------------------------------------------
(* Project *)
SetStartNode(p, n) == Try(HasNode(p, n), p, [p EXCEPT !.start = n])
ClearStartNode(p)  == Ok([p EXCEPT !.start = None])

RestoreNode(p, n, v) ==
  Try(~HasNode(p, n), p, [p EXCEPT !.nodes = Append(@, n), !.node = With(@, n, v)])

RemoveNode(p, n) ==
  Try(HasNode(p, n), p,
      [p EXCEPT !.nodes = Remove(@, n),
                !.node = [m \in DOMAIN @ \ {n} |->
                            ClearedDestinations(@[m], InputsAsDestinations(p, n))],
                !.start = IF @ = n THEN None ELSE @])

(* align_track() on every node: a lane, with its staves and clef lanes,    *)
(* for each node that has none.                                            *)
Aligned(p, t) ==
  [p EXCEPT !.node = [n \in DOMAIN @ |->
    IF t \in DOMAIN @[n].lane THEN @[n] ELSE [@[n] EXCEPT !.lane = With(@, t, Empty)]]]

AddTrack(p, t) ==
  Try(Len(p.active) < MaxActiveTracks /\ t \notin ToSet(p.active) \union ToSet(p.archived), p,
      [Aligned(p, t) EXCEPT !.active = Append(@, t), !.track = With(@, t, NewTrack)])

ArchiveTrack(p, t) ==
  Try(t \in ToSet(p.active), p,
      [p EXCEPT !.active = Remove(@, t), !.archived = Append(@, t)])

RestoreTrack(p, t) ==
  Try(Len(p.active) < MaxActiveTracks /\ t \in ToSet(p.archived), p,
      [Aligned(p, t) EXCEPT !.active = Append(@, t), !.archived = Remove(@, t)])

HardRemoveTrack(p, t) ==
  Try(t \in ToSet(p.active), p,
      [p EXCEPT !.node = [n \in DOMAIN @ |-> [@[n] EXCEPT !.lane = Without(@, t)]],
                !.active = Remove(@, t), !.track = Without(@, t)])

(* Track's setters, of a track that find_active_track() finds. *)
SetTrackAttribute(p, t, a, v) == Try(t \in ToSet(p.active), p, [p EXCEPT !.track[t][a] = v])

SetProjectAttribute(p, a, v) == Ok([p EXCEPT !.attr[a] = v])

-----------------------------------------------------------------------------
(* What a well-formed graph is *)

(* Every edge ends at an input that exists, and the start node exists.     *)
ReferencesLand(p) ==
  /\ p.start # None => HasNode(p, p.start)
  /\ \A n \in DOMAIN p.node : \A o \in DOMAIN p.node[n].output :
       LET d == p.node[n].output[o].dest IN d # None => HasInput(p, d.node, d.connector)

(* Only registered events are bound, and a node's listeners mirror its     *)
(* bindings, one per bound event and of the one type of its outputs.       *)
BindingsServed(p) ==
  \A n \in DOMAIN p.node :
    LET v == p.node[n] IN
      /\ {v.output[o].event : o \in DOMAIN v.output} \ {None} = DOMAIN v.listener
      /\ DOMAIN v.listener \subseteq p.events
      /\ \A o \in DOMAIN v.output :
           v.output[o].event # None => v.listener[v.output[o].event].boundType = v.output[o].type

(* Every node has a lane for every active track, and none for a track the  *)
(* project does not know.                                                  *)
LanesAligned(p) ==
  \A n \in DOMAIN p.node :
    /\ ToSet(p.active) \subseteq DOMAIN p.node[n].lane
    /\ DOMAIN p.node[n].lane \subseteq ToSet(p.active) \union ToSet(p.archived)
=============================================================================
