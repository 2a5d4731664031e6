--------------------------- MODULE ValidationService ---------------------------
(***************************************************************************)
(* The diagnostics of a project (validation_service.cpp), complete and     *)
(* incremental, and a cache of them kept the way validation_service.hpp    *)
(* asks of a caller: an editor changes the project, reports the stable ids *)
(* it changed, and replaces from time to time what the report covers.      *)
(*                                                                         *)
(* The service is functions of a project, here of p, the project without   *)
(* its nodes, and ns, its nodes by id.  An entity is <<kind, UUID>>: two   *)
(* of different kinds may share a UUID, which is itself a finding.  What   *)
(* validate_voice_references(), check_complete() and the legality tests of *)
(* measures, pickdown and tempo say of a node is data of the node;         *)
(* NotationValidation models the first.                                    *)
(***************************************************************************)
EXTENDS Integers, FiniteSetsExt

CONSTANTS
  None,          \* std::nullopt
  Nil,           \* the UUID of zeros
  ThisProject,   \* Project::id_
  NodeIds, ConnectorIds, NotationIds,
  Illegal,       \* a Clef outside the enumeration
  Whole,         \* a weight of one
  Projects,      \* what a project may be besides its nodes ...
  NodeValues,    \* ... and what an editor makes of a node
  MaxEdits       \* bound: edits

Sequential == "sequential"
Vertical   == "vertical"

\* notation_code(), and what is found about measures, pickdown and tempo
NotationCodes ==
  {"DanglingTie", "TiePitchMismatch", "ConflictingDurationArticulation", "HairpinDanglingEndpoint",
   "HairpinNotOrdered", "SlurDanglingEndpoint", "SlurNotOrdered", "SlurAttachedToRest",
   "PedalSpanNotOrdered", "PedalSpanOutOfRange", "IncompleteTupletGroup", "InvalidBeamOverride",
   "DynamicDanglingReference", "GraceGroupPrincipalNotSounding", "DuplicateArticulation"}
TimelineCodes ==
  {"IllegalTimeSignature", "IllegalKeySignature", "IllegalPickdown", "IllegalTempoLane"}

(* A stave of a lane: the ids in its voices and spans, those that two of   *)
(* its things have, the findings about them, the ids its markings refer to *)
(* and whether its voices tile the timeline.                               *)
FormedStave(s) == s.repeated \subseteq s.ids /\ s.faults \subseteq s.ids \X NotationCodes
FormedNode(v) ==
  /\ DOMAIN v = {"inputs", "output", "listener", "lane", "timeline"}
  /\ \A t \in DOMAIN v.lane : \A s \in DOMAIN v.lane[t] : FormedStave(v.lane[t][s])
  /\ v.timeline = None \/ v.timeline.faults \subseteq TimelineCodes
ASSUME ValuesAreFormed ==
  /\ \A v \in NodeValues : FormedNode(v)
  /\ None \notin NodeIds /\ MaxEdits \in Nat

VARIABLES
  project,   \* Project without its nodes
  start,     \* Project::start_node_
  node,      \* Project::nodes_, by id
  cached,    \* the caller's cache of diagnostics
  changes,   \* the ValidationChanges since it was last brought up to date
  edits

vars == <<project, start, node, cached, changes, edits>>

-----------------------------------------------------------------------------
(* Entities, scopes, diagnostics *)
TheProject     == <<"project", ThisProject>>
TrackOf(t)     == <<"track", t>>
StaveOf(s)     == <<"stave", s>>
NodeOf(n)      == <<"node", n>>
ConnectorOf(c) == <<"connector", c>>
EventOf(e)     == <<"event", e>>
NotationOf(e)  == <<"notation", e>>
Uuid(entity)   == entity[2]

At(entity, n, t) == [entity |-> entity, node |-> n, track |-> t]
Diagnostic(at, code) == [at |-> at, code |-> code]
If(condition, at, code) == IF condition THEN {Diagnostic(at, code)} ELSE {}

Tracks(p) == p.active \union p.archived

\* The staves of a node's lanes, each as <<track, stave>>.
Staves(v) == UNION {{<<t, s>> : s \in DOMAIN v.lane[t]} : t \in DOMAIN v.lane}

-----------------------------------------------------------------------------
(* The namespace: <<scope, place>> for every use of an identity *)
StaveOccurrences(n, t, s, stave) ==
  {<<At(NotationOf(e), n, t), <<s, 1>>>> : e \in stave.ids}
    \union {<<At(NotationOf(e), n, t), <<s, 2>>>> : e \in stave.repeated}

NodeOccurrences(n, v) ==
  {<<At(NodeOf(n), n, None), "node">>}
    \union {<<At(ConnectorOf(c), n, None), "input">> : c \in v.inputs}
    \union {<<At(ConnectorOf(c), n, None), "output">> : c \in DOMAIN v.output}
    \union (UNION {StaveOccurrences(n, x[1], x[2], v.lane[x[1]][x[2]]) : x \in Staves(v)})

ProjectOccurrences(p) ==
  {<<At(TheProject, None, None), "project">>}
    \union {<<At(TrackOf(t), None, None), "track">> : t \in Tracks(p)}
    \union (UNION {{<<At(StaveOf(s), None, t), "stave">> : s \in DOMAIN p.layout[t]} : t \in Tracks(p)})
    \union {<<At(EventOf(e), None, None), "event">> : e \in p.events}

Occurrences(p, ns) ==
  ProjectOccurrences(p) \union (UNION {NodeOccurrences(n, ns[n]) : n \in DOMAIN ns})

Duplicated(p, ns) ==
  {x \in Occurrences(p, ns) :
     \E y \in Occurrences(p, ns) : x # y /\ Uuid(x[1].entity) = Uuid(y[1].entity)}

DuplicateFindings(p, ns) == {Diagnostic(x[1], "DuplicateUuid") : x \in Duplicated(p, ns)}
NilFindings(p, ns) ==
  {Diagnostic(x[1], "NilUuid") : x \in {y \in Occurrences(p, ns) : Uuid(y[1].entity) = Nil}}

-----------------------------------------------------------------------------
(* Project references and the event registry *)
StartFindings(first, ns) ==
  If(first # None /\ first \notin DOMAIN ns, At(NodeOf(first), None, None), "DanglingStartNode")
RegistryFindings(p) ==
  If(p.illegalTempo, At(TheProject, None, None), "IllegalTempoLane")
    \union (UNION {UNION {If(p.layout[t][s] = Illegal, At(StaveOf(s), None, None), "IllegalClefChange")
                         : s \in DOMAIN p.layout[t]} : t \in Tracks(p)})
    \union {Diagnostic(At(EventOf(e), None, None), "DuplicateEventName") : e \in p.namesakes}

-----------------------------------------------------------------------------
(* One node: lanes.  The staves of the fixed layout that are not there.    *)
MissingStaves(p, v, t) ==
  IF t \in Tracks(p) /\ (v.timeline # None \/ DOMAIN v.lane[t] # {})
  THEN DOMAIN p.layout[t] \ DOMAIN v.lane[t] ELSE {}

AlignmentFindings(p, n, v) ==
  {Diagnostic(At(NodeOf(n), n, t), "MissingTrackLane") : t \in p.active \ DOMAIN v.lane}
    \union {Diagnostic(At(TrackOf(t), n, t), "UnexpectedTrackLane") : t \in DOMAIN v.lane \ Tracks(p)}
    \union (UNION {{Diagnostic(At(StaveOf(s), n, t), "MissingStave") : s \in MissingStaves(p, v, t)}
                  : t \in DOMAIN v.lane})

\* validate_lane(), for a track of the project, and validate_stave_contents()
StaveFindings(p, n, v, t, s) ==
  LET at    == At(StaveOf(s), n, t)
      stave == v.lane[t][s]
      laidOut == t \in Tracks(p) /\ s \in DOMAIN p.layout[t]
      counts(f) == v.timeline # None \/ f[2] # "PedalSpanOutOfRange"
  IN  If(t \in Tracks(p) /\ ~laidOut, at, "UnexpectedStave")
        \union If(laidOut /\ p.layout[t][s] = Illegal, at, "IllegalClefChange")
        \union If(laidOut /\ v.timeline # None /\ s \notin DOMAIN v.timeline.clef, at, "MissingClefLane")
        \union If(v.timeline # None /\ ~stave.tiles, at, "RhythmIncomplete")
        \union {Diagnostic(At(NotationOf(f[1]), n, t), f[2]) : f \in {g \in stave.faults : counts(g)}}

(* One node: timeline.  find_stave() takes the first layout that has it.   *)
ClefFindings(p, n, v, s) ==
  LET at   == At(StaveOf(s), n, None)
      lane == v.timeline.clef[s]
      defaults == {p.layout[t][s] : t \in {u \in Tracks(p) : s \in DOMAIN p.layout[u]}}
  IN  If(defaults = {}, at, "UnexpectedClefLane")
        \union If(defaults # {} /\ (lane.clef = Illegal \/ lane.strayChange), at, "IllegalClefChange")
        \union If(defaults # {} /\ lane.clef # Illegal /\ lane.clef # (CHOOSE c \in defaults : TRUE),
                  at, "ClefDefaultMismatch")

TimelineFindings(p, n, v) ==
  IF v.timeline = None THEN {}
  ELSE {Diagnostic(At(NodeOf(n), n, None), code) : code \in v.timeline.faults}
         \union (UNION {ClefFindings(p, n, v, s) : s \in DOMAIN v.timeline.clef})

(* One node: outputs *)
LeadsInto(out, n) == out.dest # None /\ out.dest.node = n
DanglingFindings(ns, n, v, o) ==
  LET d == v.output[o].dest
  IN  If(d # None /\ ~(d.node \in DOMAIN ns /\ d.connector \in ns[d.node].inputs),
         At(ConnectorOf(o), n, None), "DanglingGraphDestination")

BindingFindings(p, n, v, o) ==
  LET out == v.output[o]
      at  == At(ConnectorOf(o), n, None)
      heard == out.event # None /\ out.event \in DOMAIN v.listener
  IN  If(out.export /\ out.dest = None, at, "ExportDestinationRequired")
        \union If(out.export /\ out.type = Vertical /\ out.event = None, at, "VerticalEventRequired")
        \union If(out.event # None /\ out.event \notin p.events, at, "DanglingEventBinding")
        \union If(out.event # None /\ ~heard, at, "MissingEventListener")
        \union If(heard /\ v.listener[out.event].type # out.type, at, "EventListenerTypeMismatch")
        \union If(heard /\ v.listener[out.event].emptyFifo, at, "InvalidListenerCapacity")

OutputFindings(p, ns, n, v, o) == DanglingFindings(ns, n, v, o) \union BindingFindings(p, n, v, o)

\* validate_weight_group() of the sequential outputs that lead somewhere
Candidates(v) == {o \in DOMAIN v.output : v.output[o].type = Sequential /\ v.output[o].dest # None}
WeightsAreWrong(v) ==
  \/ \E o \in Candidates(v) : v.output[o].weight < 0
  \/ /\ \E o \in Candidates(v) : v.output[o].weight > 0
     /\ MapThenSumSet(LAMBDA o : v.output[o].weight, Candidates(v)) # Whole

WeightFindings(n, v) == If(WeightsAreWrong(v), At(NodeOf(n), n, None), "InvalidRandomWeightTotal")

NodeFindings(p, ns, n, v) ==
  AlignmentFindings(p, n, v) \union TimelineFindings(p, n, v)
    \union (UNION {StaveFindings(p, n, v, x[1], x[2]) : x \in Staves(v)})
    \union (UNION {OutputFindings(p, ns, n, v, o) : o \in DOMAIN v.output})
    \union WeightFindings(n, v)

(* What validating a node marks as affected, with or without findings.     *)
MarkedNotations(n, v) ==
  UNION {{At(NotationOf(e), n, x[1]) : e \in v.lane[x[1]][x[2]].ids} : x \in Staves(v)}
Marked(p, n, v) ==
  {At(NodeOf(n), n, None)}
    \union {At(TrackOf(t), n, None) : t \in Tracks(p)}
    \union {At(StaveOf(x[2]), n, x[1]) : x \in Staves(v)}
    \union MarkedNotations(n, v)
    \union (IF v.timeline = None THEN {} ELSE {At(StaveOf(s), n, None) : s \in DOMAIN v.timeline.clef})
    \union {At(ConnectorOf(c), n, None) : c \in v.inputs \union DOMAIN v.output}

\* validate_complete()
Complete(p, first, ns) ==
  NilFindings(p, ns) \union DuplicateFindings(p, ns) \union StartFindings(first, ns) \union RegistryFindings(p)
    \union (UNION {NodeFindings(p, ns, n, ns[n]) : n \in DOMAIN ns})

-----------------------------------------------------------------------------
(* validate_incremental() of the changes cs *)

\* A ValidationChange; prior is None where it names no node.
Change(kind, id, prior) == [kind |-> kind, id |-> id, prior |-> prior]
NodeChange(n)         == Change("node", n, n)
ProjectChange         == Change("project", ThisProject, None)

(* A change that no part of the project can be picked for: a global one, a *)
(* bare connector or notation id, or one whose node is gone or nil.        *)
Unscoped(ns, c) == c.prior \notin DOMAIN ns \/ (c.kind # "node" /\ c.prior = Nil)
Expands(p, ns, cs) == cs = {} \/ Duplicated(p, ns) # {} \/ \E c \in cs : Unscoped(ns, c)

Notations(v) == UNION {v.lane[x[1]][x[2]].ids : x \in Staves(v)}
Referred(v)  == UNION {v.lane[x[1]][x[2]].refs : x \in Staves(v)}

(* Every node that has the changed thing now, or depends on it.            *)
Concerned(ns, c) ==
  {n \in DOMAIN ns :
     \/ c.kind = "connector" /\ c.id \in ns[n].inputs \union DOMAIN ns[n].output
     \/ c.kind = "notation" /\ c.id \in Notations(ns[n])
     \/ c.kind = "connector" /\ \E o \in DOMAIN ns[n].output :
          ns[n].output[o].dest # None /\ ns[n].output[o].dest.connector = c.id
     \/ c.kind = "notation" /\ c.id \in Referred(ns[n])}
Selected(ns, cs) == UNION {{c.prior} \union Concerned(ns, c) : c \in cs}

(* Mutant of Inbound: only the outputs whose destination is still there.   *)
Inbound_Resolved(ns, cs) ==
  {x \in UNION {{<<n, o>> : o \in DOMAIN ns[n].output} : n \in DOMAIN ns \ Selected(ns, cs)} :
     \E n \in Selected(ns, cs) : LeadsInto(ns[x[1]].output[x[2]], n)
                                  /\ ns[x[1]].output[x[2]].dest.connector \in ns[n].inputs}

\* The outputs of other nodes that lead into a selected one.
Inbound(ns, cs) ==
  {x \in UNION {{<<n, o>> : o \in DOMAIN ns[n].output} : n \in DOMAIN ns \ Selected(ns, cs)} :
     \E n \in Selected(ns, cs) : LeadsInto(ns[x[1]].output[x[2]], n)}

(* Mutant of Findings: of such an output only whether its destination is   *)
(* there.                                                                  *)
Findings_InboundDangling(p, ns, cs) ==
  NilFindings(p, ns)
    \union (UNION {DanglingFindings(ns, x[1], ns[x[1]], x[2]) : x \in Inbound(ns, cs)})
    \union (UNION {NodeFindings(p, ns, n, ns[n]) : n \in Selected(ns, cs)})

Findings(p, ns, cs) ==
  NilFindings(p, ns)
    \union (UNION {OutputFindings(p, ns, x[1], ns[x[1]], x[2]) : x \in Inbound(ns, cs)})
    \union (UNION {NodeFindings(p, ns, n, ns[n]) : n \in Selected(ns, cs)})

AffectedScopes(p, ns, cs) ==
  {d.at : d \in Findings(p, ns, cs)}
    \union {At(ConnectorOf(x[2]), x[1], None) : x \in Inbound(ns, cs)}
    \union (UNION {Marked(p, n, ns[n]) : n \in Selected(ns, cs)})

\* diagnostic_matches_invalidation(), of the entity a change names
Matches(d, c) ==
  \/ d.at.entity = <<c.kind, c.id>>
  \/ c.kind = "node" /\ d.at.node = c.id
Replaced(p, ns, cs) ==
  {d \in cached : d.at \notin AffectedScopes(p, ns, cs) /\ \A c \in cs : ~Matches(d, c)}
    \union Findings(p, ns, cs)

(* The caller replaces what the report covers, or everything.              *)
Validate ==
  /\ cached' = IF Expands(project, node, changes) THEN Complete(project, start, node)
               ELSE Replaced(project, node, changes)
  /\ changes' = {}
  /\ UNCHANGED <<project, start, node, edits>>

-----------------------------------------------------------------------------
(* The editor: any change, reported by what it changed *)
Report(made) ==
  /\ edits < MaxEdits /\ edits' = edits + 1
  /\ changes' = changes \union made
  /\ UNCHANGED cached

EditNode(n, v) ==
  /\ node' = [node EXCEPT ![n] = v]
  /\ Report({NodeChange(n)})
  /\ UNCHANGED <<project, start>>

(* Connector c is added, removed or changed, with the listeners of n; who  *)
(* does not know where it was names no node.                               *)
SameButConnector(u, v, c) ==
  /\ v.lane = u.lane /\ v.timeline = u.timeline
  /\ v.inputs \ {c} = u.inputs \ {c}
  /\ DOMAIN v.output \ {c} = DOMAIN u.output \ {c}
  /\ \A o \in DOMAIN v.output \ {c} : v.output[o] = u.output[o]
EditConnector(n, c, v, prior) ==
  /\ SameButConnector(node[n], v, c)
  /\ node' = [node EXCEPT ![n] = v]
  /\ Report({Change("connector", c, prior)})
  /\ UNCHANGED <<project, start>>

(* Notation e is added, removed or changed: what is found about the rest   *)
(* of the lanes may change with it, which ids they have may not.           *)
SameButNotation(u, v, e) ==
  /\ v.inputs = u.inputs /\ v.output = u.output /\ v.listener = u.listener
  /\ v.timeline = u.timeline /\ DOMAIN v.lane = DOMAIN u.lane
  /\ \A t \in DOMAIN v.lane :
       /\ DOMAIN v.lane[t] = DOMAIN u.lane[t]
       /\ \A s \in DOMAIN v.lane[t] : v.lane[t][s].ids \ {e} = u.lane[t][s].ids \ {e}
EditNotation(n, e, v, prior) ==
  /\ SameButNotation(node[n], v, e)
  /\ node' = [node EXCEPT ![n] = v]
  /\ Report({Change("notation", e, prior)})
  /\ UNCHANGED <<project, start>>

AddNode(n, v) ==
  /\ n \notin DOMAIN node
  /\ node' = [m \in DOMAIN node \union {n} |-> IF m = n THEN v ELSE node[m]]
  /\ Report({NodeChange(n)})
  /\ UNCHANGED <<project, start>>

(* Project::remove_node() disconnects what led to the node's inputs, which *)
(* changes those nodes as well.                                            *)
Disconnects(m, o, n) ==
  LeadsInto(node[m].output[o], n) /\ node[m].output[o].dest.connector \in node[n].inputs
Disconnected(m, n) ==
  [node[m] EXCEPT !.output = [o \in DOMAIN node[m].output |->
     IF Disconnects(m, o, n) THEN [node[m].output[o] EXCEPT !.dest = None] ELSE node[m].output[o]]]
RemoveNode(n) ==
  LET others == DOMAIN node \ {n}
      cut    == {m \in others : \E o \in DOMAIN node[m].output : Disconnects(m, o, n)}
  IN  /\ node' = [m \in others |-> IF m \in cut THEN Disconnected(m, n) ELSE node[m]]
      /\ start' = IF start = n THEN None ELSE start
      /\ Report({NodeChange(m) : m \in cut \union {n}})
      /\ UNCHANGED project

(* Tracks, staves, events, the start node or the project's own values      *)
(* change, and whatever that changes in the nodes.                         *)
EditProject ==
  /\ project' \in Projects /\ start' \in NodeIds \union {None}
  /\ node' \in [DOMAIN node -> NodeValues]
  /\ Report({ProjectChange})

Init ==
  /\ project \in Projects /\ start \in NodeIds \union {None}
  /\ \E present \in SUBSET NodeIds : node \in [present -> NodeValues]
  /\ cached = Complete(project, start, node) /\ changes = {} /\ edits = 0

Next ==
  \/ Validate
  \/ EditProject
  \/ \E n \in NodeIds \ DOMAIN node : \E v \in NodeValues : AddNode(n, v)
  \/ \E n \in DOMAIN node :
       \/ RemoveNode(n)
       \/ \E v \in NodeValues :
            \/ EditNode(n, v)
            \/ \E c \in ConnectorIds, prior \in {n, None} : EditConnector(n, c, v, prior)
            \/ \E e \in NotationIds, prior \in {n, None} : EditNotation(n, e, v, prior)
Spec == Init /\ [][Next]_vars

-----------------------------------------------------------------------------
(* Properties *)

(* Once nothing waits to be validated the cache holds what a complete pass *)
(* would find, but for two things: of a duplicate that was repaired, the   *)
(* other occurrence may still be blamed, and about an entity that has no   *)
(* identity findings may be missing.                                       *)
CacheIsCurrent ==
  changes = {} =>
    /\ \A d \in cached \ Complete(project, start, node) : d.code = "DuplicateUuid"
    /\ \A d \in Complete(project, start, node) \ cached : Uuid(d.at.entity) = Nil

(* validation_service.hpp: "Returns exactly the current findings for       *)
(* affected_scopes".                                                       *)
Due == {d \in Complete(project, start, node) : d.at \in AffectedScopes(project, node, changes)}
ReportIsExact == Expands(project, node, changes) \/ Findings(project, node, changes) = Due

(* It does so for everything that has an identity.                         *)
Named(findings) == {d \in findings : Uuid(d.at.entity) # Nil}
ReportIsExactWhereNamed ==
  Expands(project, node, changes) \/ Named(Findings(project, node, changes)) = Named(Due)

-----------------------------------------------------------------------------
(* The inductive invariant: what the cache and a complete pass disagree on *)
(* is owed to a change that is still to be validated.                      *)
TypeOK ==
  /\ node = [n \in DOMAIN node |-> node[n]] /\ DOMAIN node \subseteq NodeIds
  /\ \A n \in DOMAIN node : FormedNode(node[n])
  /\ \A c \in changes :
       \/ \E n \in NodeIds : c = NodeChange(n)
       \/ c = ProjectChange
       \/ \E kind \in {"connector", "notation"}, x \in ConnectorIds \union NotationIds,
             n \in NodeIds \union {None} : c = Change(kind, x, n)

Priors(cs) == {c.prior : c \in cs}
Global == \E c \in changes : c.prior = None

\* Where a scoped change looks for findings about a node.
Placed(p, n, v) == Marked(p, n, v) \union {d.at : d \in AlignmentFindings(p, n, v)}

LeadsToChange(ns, cs, d) ==
  \E n \in DOMAIN ns : \E o \in DOMAIN ns[n].output :
    /\ d.at = At(ConnectorOf(o), n, None)
    /\ \E m \in Priors(cs) : LeadsInto(ns[n].output[o], m)

WillGo(p, ns, cs, d) ==
  \/ \E n \in NodeIds : NodeChange(n) \in cs /\ (d.at.node = n \/ d.at.entity = NodeOf(n))
  \/ /\ d.at.node \in Priors(cs) /\ d.at.node \in DOMAIN ns
     /\ \/ d.at \in Placed(p, d.at.node, ns[d.at.node])
        \/ \E c \in cs : d.at.entity = <<c.kind, c.id>>
  \/ LeadsToChange(ns, cs, d)

StaleIsCovered ==
  \A d \in cached \ Complete(project, start, node) :
    d.code = "DuplicateUuid" \/ Global \/ WillGo(project, node, changes, d)
MissingIsCovered ==
  \A d \in Complete(project, start, node) \ cached :
    \/ Uuid(d.at.entity) = Nil
    \/ d.code = "DuplicateUuid" /\ changes # {}
    \/ Global \/ d.at.node \in Priors(changes) \/ LeadsToChange(node, changes, d)

IInv == TypeOK /\ StaleIsCovered /\ MissingIsCovered
================================================================================
