------------------------ MODULE ValidationService_proofs ------------------------
(***************************************************************************)
(* A cache of diagnostics that follows the project by incremental reports  *)
(* is what a complete pass finds, whatever is in the nodes.  The invariant *)
(* that is inductive says it while changes wait: a finding the cache has   *)
(* too much lies where some waiting change will make the next report erase *)
(* it, one it lacks where some waiting change will make it be found.       *)
(***************************************************************************)
EXTENDS ValidationService, TLAPS

(* The kind and the id of an entity can be told from it.                    *)
LEMMA Kinds ==
  /\ TheProject[1] = "project"
  /\ \A x : /\ TrackOf(x)[1] = "track" /\ StaveOf(x)[1] = "stave" /\ NodeOf(x)[1] = "node"
            /\ ConnectorOf(x)[1] = "connector" /\ EventOf(x)[1] = "event" /\ NotationOf(x)[1] = "notation"
            /\ ConnectorOf(x)[2] = x /\ NotationOf(x)[2] = x /\ NodeOf(x)[2] = x
BY DEF TheProject, TrackOf, StaveOf, NodeOf, ConnectorOf, EventOf, NotationOf

(* A stave of a node is one of its lanes, and formed.                       *)
LEMMA StavesOfNode ==
  ASSUME NEW v, FormedNode(v), NEW x \in Staves(v)
  PROVE  /\ x = <<x[1], x[2]>> /\ x[1] \in DOMAIN v.lane /\ x[2] \in DOMAIN v.lane[x[1]]
         /\ FormedStave(v.lane[x[1]][x[2]])
<1>1. PICK t \in DOMAIN v.lane : x \in {<<t, s>> : s \in DOMAIN v.lane[t]}
  BY DEF Staves
<1>2. PICK s \in DOMAIN v.lane[t] : x = <<t, s>>
  BY <1>1
<1> QED BY <1>2 DEF FormedNode

(* validate_output() reports about the output alone, in its node.           *)
LEMMA OutputScope ==
  ASSUME NEW p, NEW ns, NEW n, NEW v, NEW o, NEW d \in OutputFindings(p, ns, n, v, o)
  PROVE  d.at = At(ConnectorOf(o), n, None)
BY SMTT(30) DEF OutputFindings, DanglingFindings, BindingFindings, If, Diagnostic

(* Validating a stave reports about the stave or a notation in it, in its   *)
(* lane.                                                                    *)
LEMMA StaveScope ==
  ASSUME NEW p, NEW n, NEW v, NEW t, NEW s, FormedStave(v.lane[t][s]),
         NEW d \in StaveFindings(p, n, v, t, s)
  PROVE  \/ d.at = At(StaveOf(s), n, t)
         \/ \E e \in v.lane[t][s].ids : d.at = At(NotationOf(e), n, t)
BY DEF StaveFindings, FormedStave, If, Diagnostic

(* validate_timeline() reports about the node or a stave with a clef lane.  *)
LEMMA TimelineScope ==
  ASSUME NEW p, NEW n, NEW v, NEW d \in TimelineFindings(p, n, v)
  PROVE  /\ v.timeline # None
         /\ \/ d.at = At(NodeOf(n), n, None)
            \/ \E s \in DOMAIN v.timeline.clef : d.at = At(StaveOf(s), n, None)
BY DEF TimelineFindings, ClefFindings, If, Diagnostic

(* validate_lane_alignment() reports about the node, a track or a stave, in *)
(* that node.                                                               *)
LEMMA AlignmentScope ==
  ASSUME NEW p, NEW n, NEW v, NEW d \in AlignmentFindings(p, n, v)
  PROVE  \/ \E t : d.at = At(NodeOf(n), n, t)
         \/ \E t : d.at = At(TrackOf(t), n, t)
         \/ \E s, t : d.at = At(StaveOf(s), n, t)
BY DEF AlignmentFindings, Diagnostic

(* The five sources of what validate_node() finds.                          *)
LEMMA NodeFindingCases ==
  ASSUME NEW p, NEW ns, NEW n, NEW v, NEW d \in NodeFindings(p, ns, n, v)
  PROVE  \/ d \in AlignmentFindings(p, n, v)
         \/ d \in TimelineFindings(p, n, v)
         \/ \E x \in Staves(v) : d \in StaveFindings(p, n, v, x[1], x[2])
         \/ \E o \in DOMAIN v.output : d \in OutputFindings(p, ns, n, v, o)
         \/ d \in WeightFindings(n, v)
BY DEF NodeFindings

(* A wrong weight group is reported about the node.                         *)
LEMMA WeightScope ==
  ASSUME NEW n, NEW v, NEW d \in WeightFindings(n, v)
  PROVE  d.at = At(NodeOf(n), n, None)
BY DEF WeightFindings, If, Diagnostic

(* The scopes validate_node() marks, one by one.                            *)
LEMMA MarkedCases ==
  ASSUME NEW p, NEW n, NEW v, NEW at
  PROVE  at \in Marked(p, n, v) <=>
           \/ at = At(NodeOf(n), n, None)
           \/ \E t \in Tracks(p) : at = At(TrackOf(t), n, None)
           \/ \E x \in Staves(v) : at = At(StaveOf(x[2]), n, x[1])
           \/ \E x \in Staves(v) : \E e \in v.lane[x[1]][x[2]].ids : at = At(NotationOf(e), n, x[1])
           \/ v.timeline # None /\ \E s \in DOMAIN v.timeline.clef : at = At(StaveOf(s), n, None)
           \/ \E c \in v.inputs \union DOMAIN v.output : at = At(ConnectorOf(c), n, None)
<1>1. at \in MarkedNotations(n, v) <=>
        \E x \in Staves(v) : \E e \in v.lane[x[1]][x[2]].ids : at = At(NotationOf(e), n, x[1])
  BY DEF MarkedNotations
<1> QED BY <1>1 DEF Marked

(* Whatever validate_node() finds lies at a scope it marks, or is about the *)
(* alignment of lanes.                                                      *)
LEMMA FindingsArePlaced ==
  ASSUME NEW p, NEW ns, NEW n, NEW v, FormedNode(v), NEW d \in NodeFindings(p, ns, n, v)
  PROVE  d.at \in Placed(p, n, v)
<1>1. CASE d \in AlignmentFindings(p, n, v)
  BY <1>1 DEF Placed
<1>2. CASE d.at \in Marked(p, n, v)
  BY <1>2 DEF Placed
<1>3. CASE d \in TimelineFindings(p, n, v)
  BY <1>2, <1>3, TimelineScope, MarkedCases
<1>4. ASSUME NEW x \in Staves(v), d \in StaveFindings(p, n, v, x[1], x[2])
      PROVE  d.at \in Placed(p, n, v)
  <2>1. FormedStave(v.lane[x[1]][x[2]])
    BY StavesOfNode
  <2>2. \/ d.at = At(StaveOf(x[2]), n, x[1])
        \/ \E e \in v.lane[x[1]][x[2]].ids : d.at = At(NotationOf(e), n, x[1])
    BY <1>4, <2>1, StaveScope
  <2> QED BY <1>2, <2>2, MarkedCases
<1>5. ASSUME NEW o \in DOMAIN v.output, d \in OutputFindings(p, ns, n, v, o)
      PROVE  d.at \in Placed(p, n, v)
  BY <1>2, <1>5, OutputScope, MarkedCases
<1>6. CASE d \in WeightFindings(n, v)
  BY <1>2, <1>6, WeightScope, MarkedCases
<1> QED BY <1>1, <1>3, <1>4, <1>5, <1>6, NodeFindingCases

(* All those scopes are in the node that is validated ...                   *)
LEMMA PlacedAt ==
  ASSUME NEW p, NEW n, NEW v, NEW at \in Placed(p, n, v)
  PROVE  at.node = n
<1>1. CASE at \in Marked(p, n, v)
  BY <1>1, MarkedCases DEF At
<1>2. ASSUME NEW d \in AlignmentFindings(p, n, v), at = d.at
      PROVE  at.node = n
  <2>1. CASE \E t : d.at = At(NodeOf(n), n, t)
    BY <1>2, <2>1 DEF At
  <2>2. CASE \E t : d.at = At(TrackOf(t), n, t)
    BY <1>2, <2>2 DEF At
  <2>3. CASE \E s, t : d.at = At(StaveOf(s), n, t)
    BY <1>2, <2>3 DEF At
  <2> QED BY <2>1, <2>2, <2>3, AlignmentScope
<1> QED BY <1>1, <1>2 DEF Placed

(* ... and so is everything found there.                                    *)
LEMMA NodeFindingAt ==
  ASSUME NEW p, NEW ns, NEW n, NEW v, FormedNode(v), NEW d \in NodeFindings(p, ns, n, v)
  PROVE  d.at.node = n
BY FindingsArePlaced, PlacedAt

(* The identity of a notation is at the notation, also when it is repeated. *)
LEMMA StaveOccurrenceAt ==
  ASSUME NEW n, NEW t, NEW s, NEW stave, FormedStave(stave),
         NEW x \in StaveOccurrences(n, t, s, stave)
  PROVE  \E e \in stave.ids : x[1] = At(NotationOf(e), n, t)
<1>1. CASE \E e \in stave.ids : x = <<At(NotationOf(e), n, t), <<s, 1>>>>
  BY <1>1
<1>2. CASE \E e \in stave.repeated : x = <<At(NotationOf(e), n, t), <<s, 2>>>>
  <2>1. stave.repeated \subseteq stave.ids
    BY DEF FormedStave
  <2> QED BY <1>2, <2>1
<1> QED BY <1>1, <1>2 DEF StaveOccurrences

(* Every identity of a node is at a scope that validating the node marks.   *)
LEMMA OccurrenceIsMarked ==
  ASSUME NEW p, NEW n, NEW v, FormedNode(v), NEW x \in NodeOccurrences(n, v)
  PROVE  x[1] \in Marked(p, n, v)
<1>1. CASE x = <<At(NodeOf(n), n, None), "node">>
  BY <1>1, MarkedCases
<1>2. ASSUME NEW c \in v.inputs \union DOMAIN v.output, x[1] = At(ConnectorOf(c), n, None)
      PROVE  x[1] \in Marked(p, n, v)
  BY <1>2, MarkedCases
<1>3. ASSUME NEW y \in Staves(v), x \in StaveOccurrences(n, y[1], y[2], v.lane[y[1]][y[2]])
      PROVE  x[1] \in Marked(p, n, v)
  <2>1. FormedStave(v.lane[y[1]][y[2]])
    BY <1>3, StavesOfNode
  <2>2. \E e \in v.lane[y[1]][y[2]].ids : x[1] = At(NotationOf(e), n, y[1])
    BY <1>3, <2>1, StaveOccurrenceAt
  <2> QED BY <1>3, <2>2, MarkedCases, SMTT(40)
<1> QED BY <1>1, <1>2, <1>3 DEF NodeOccurrences

(* The identities of the project itself are in no node.                     *)
LEMMA ProjectOccurrenceAt ==
  ASSUME NEW p, NEW x \in ProjectOccurrences(p)
  PROVE  x[1].node = None
BY DEF ProjectOccurrences, At

(* A nil id is found for an occurrence, in the project or in a node.        *)
LEMMA NilCases ==
  ASSUME NEW p, NEW ns, NEW d
  PROVE  d \in NilFindings(p, ns) <=>
           \/ \E x \in ProjectOccurrences(p) :
                d = Diagnostic(x[1], "NilUuid") /\ Uuid(x[1].entity) = Nil
           \/ \E n \in DOMAIN ns : \E x \in NodeOccurrences(n, ns[n]) :
                d = Diagnostic(x[1], "NilUuid") /\ Uuid(x[1].entity) = Nil
BY DEF NilFindings, Occurrences

(* The sources of what a complete pass finds.                               *)
LEMMA CompleteCases ==
  ASSUME NEW p, NEW first, NEW ns, NEW d
  PROVE  d \in Complete(p, first, ns) <=>
           \/ d \in NilFindings(p, ns)
           \/ d \in DuplicateFindings(p, ns)
           \/ d \in StartFindings(first, ns)
           \/ d \in RegistryFindings(p)
           \/ \E n \in DOMAIN ns : d \in NodeFindings(p, ns, n, ns[n])
BY DEF Complete

(* What is found about events, clefs of the layout and the start node is in *)
(* no node.                                                                 *)
LEMMA OutsideNodes ==
  ASSUME NEW p, NEW first, NEW ns, NEW d
  PROVE  /\ d \in RegistryFindings(p) =>
              /\ d.at.node = None
              /\ \A x : d.at.entity # NodeOf(x) /\ d.at.entity # ConnectorOf(x) /\ d.at.entity # NotationOf(x)
         /\ d \in StartFindings(first, ns) =>
              first # None /\ first \notin DOMAIN ns /\ d.at = At(NodeOf(first), None, None)
<1>1. ASSUME d \in StartFindings(first, ns)
      PROVE  first # None /\ first \notin DOMAIN ns /\ d.at = At(NodeOf(first), None, None)
  BY <1>1 DEF StartFindings, If, Diagnostic
<1>2. ASSUME d \in RegistryFindings(p)
      PROVE  \/ d.at = At(TheProject, None, None)
             \/ \E s : d.at = At(StaveOf(s), None, None)
             \/ \E e : d.at = At(EventOf(e), None, None)
  BY <1>2 DEF RegistryFindings, If, Diagnostic
<1>3. ASSUME d \in RegistryFindings(p)
      PROVE  d.at.node = None /\ d.at.entity[1] \in {"project", "stave", "event"}
  <2>1. CASE d.at = At(TheProject, None, None)
    BY <2>1, Kinds DEF At
  <2>2. CASE \E s : d.at = At(StaveOf(s), None, None)
    BY <2>2, Kinds DEF At
  <2>3. CASE \E e : d.at = At(EventOf(e), None, None)
    BY <2>3, Kinds DEF At
  <2> QED BY <1>2, <1>3, <2>1, <2>2, <2>3
<1> QED BY <1>1, <1>3, Kinds

-----------------------------------------------------------------------------
(* Two projects that differ in the nodes K *)
Same(ns, ms, K) ==
  \A n : n \notin K => (n \in DOMAIN ns <=> n \in DOMAIN ms) /\ (n \in DOMAIN ns => ns[n] = ms[n])

(* A finding about an output that another project does not have is about a  *)
(* destination in K.                                                        *)
LEMMA OutputsFollow ==
  ASSUME NEW p, NEW ns, NEW ms, NEW K, Same(ns, ms, K), NEW n, NEW v, NEW o,
         NEW d \in OutputFindings(p, ns, n, v, o), d \notin OutputFindings(p, ms, n, v, o)
  PROVE  v.output[o].dest # None /\ v.output[o].dest.node \in K
BY DEF OutputFindings, DanglingFindings, If, Same

(* A finding in a node, without its twin in the other project, is about an  *)
(* output that leads into K.                                                *)
LEMMA NodesFollow ==
  ASSUME NEW p, NEW ns, NEW ms, NEW K, Same(ns, ms, K), NEW n, NEW v,
         NEW d \in NodeFindings(p, ns, n, v), d \notin NodeFindings(p, ms, n, v)
  PROVE  \E o \in DOMAIN v.output :
           /\ d.at = At(ConnectorOf(o), n, None)
           /\ \E m \in K : LeadsInto(v.output[o], m)
<1>1. PICK o \in DOMAIN v.output : d \in OutputFindings(p, ns, n, v, o)
  BY NodeFindingCases DEF NodeFindings
<1>2. d \notin OutputFindings(p, ms, n, v, o)
  BY DEF NodeFindings
<1>3. d.at = At(ConnectorOf(o), n, None)
  BY <1>1, OutputScope
<1>4. v.output[o].dest # None /\ v.output[o].dest.node \in K
  BY <1>1, <1>2, OutputsFollow
<1> QED BY <1>3, <1>4 DEF LeadsInto

(* Between two projects that differ in K, findings differ in K, at outputs  *)
(* that lead into K, at the start node or as duplicates.                    *)
LEMMA Differs ==
  ASSUME NEW p, NEW first, NEW next, NEW ns, NEW ms, NEW K, Same(ns, ms, K),
         \A n \in DOMAIN ns : FormedNode(ns[n]),
         NEW d \in Complete(p, first, ns), d \notin Complete(p, next, ms), d \notin DuplicateFindings(p, ns)
  PROVE  \/ d.at.node \in K
         \/ \E n \in DOMAIN ms : \E o \in DOMAIN ms[n].output :
              /\ n \notin K /\ d.at = At(ConnectorOf(o), n, None)
              /\ \E m \in K : LeadsInto(ms[n].output[o], m)
         \/ d \in StartFindings(first, ns) /\ d \notin StartFindings(next, ms)
<1>1. ASSUME d \in NilFindings(p, ns)
      PROVE  d.at.node \in K
  <2>1. ASSUME NEW x \in ProjectOccurrences(p), d = Diagnostic(x[1], "NilUuid"), Uuid(x[1].entity) = Nil
        PROVE  FALSE
    BY <2>1, NilCases, CompleteCases
  <2>2. PICK n \in DOMAIN ns : \E x \in NodeOccurrences(n, ns[n]) :
                d = Diagnostic(x[1], "NilUuid") /\ Uuid(x[1].entity) = Nil
    BY <1>1, <2>1, NilCases
  <2>3. PICK x \in NodeOccurrences(n, ns[n]) : d = Diagnostic(x[1], "NilUuid") /\ Uuid(x[1].entity) = Nil
    BY <2>2
  <2>4. x[1] \in Placed(p, n, ns[n])
    BY OccurrenceIsMarked DEF Placed
  <2>5. d.at.node = n
    BY <2>3, <2>4, PlacedAt DEF Diagnostic
  <2>6. CASE n \notin K
    <3>1. n \in DOMAIN ms /\ ms[n] = ns[n]
      BY <2>6 DEF Same
    <3>2. d \in NilFindings(p, ms)
      BY <2>3, <3>1, NilCases
    <3> QED BY <3>2, CompleteCases
  <2> QED BY <2>5, <2>6
<1>2. ASSUME NEW n \in DOMAIN ns, d \in NodeFindings(p, ns, n, ns[n]), n \notin K
      PROVE  \E k \in DOMAIN ms : \E o \in DOMAIN ms[k].output :
               /\ k \notin K /\ d.at = At(ConnectorOf(o), k, None)
               /\ \E m \in K : LeadsInto(ms[k].output[o], m)
  <2>1. n \in DOMAIN ms /\ ms[n] = ns[n]
    BY <1>2 DEF Same
  <2>2. d \notin NodeFindings(p, ms, n, ns[n])
    BY <2>1, CompleteCases
  <2>3. PICK o \in DOMAIN ns[n].output :
          d.at = At(ConnectorOf(o), n, None) /\ \E m \in K : LeadsInto(ns[n].output[o], m)
    BY <1>2, <2>2, NodesFollow
  <2> QED BY <1>2, <2>1, <2>3
<1>3. ASSUME NEW n \in DOMAIN ns, d \in NodeFindings(p, ns, n, ns[n]), n \in K
      PROVE  d.at.node \in K
  BY <1>3, NodeFindingAt
<1> QED BY <1>1, <1>2, <1>3, CompleteCases

-----------------------------------------------------------------------------
(* Which findings are about what *)
(* A finding about a connector, a notation or a node is made where that is. *)
LEMMA EntityOfFinding ==
  ASSUME NEW p, NEW ns, NEW n, NEW v, FormedNode(v), NEW d \in NodeFindings(p, ns, n, v)
  PROVE  /\ \A o : d.at.entity = ConnectorOf(o) =>
              o \in DOMAIN v.output /\ d \in OutputFindings(p, ns, n, v, o)
         /\ \A e : d.at.entity = NotationOf(e) => e \in Notations(v)
         /\ \A m : d.at.entity = NodeOf(m) => m = n
<1>1. CASE d \in AlignmentFindings(p, n, v)
  <2>1. CASE \E t : d.at = At(NodeOf(n), n, t)
    BY <2>1, Kinds DEF At
  <2>2. CASE \E t : d.at = At(TrackOf(t), n, t)
    BY <2>2, Kinds DEF At
  <2>3. CASE \E s, t : d.at = At(StaveOf(s), n, t)
    BY <2>3, Kinds DEF At
  <2> QED BY <1>1, <2>1, <2>2, <2>3, AlignmentScope
<1>2. CASE d \in TimelineFindings(p, n, v)
  <2>1. CASE d.at = At(NodeOf(n), n, None)
    BY <2>1, Kinds DEF At
  <2>2. CASE \E s \in DOMAIN v.timeline.clef : d.at = At(StaveOf(s), n, None)
    BY <2>2, Kinds DEF At
  <2> QED BY <1>2, <2>1, <2>2, TimelineScope
<1>3. ASSUME NEW x \in Staves(v), d \in StaveFindings(p, n, v, x[1], x[2])
      PROVE  /\ \A o : d.at.entity # ConnectorOf(o)
             /\ \A e : d.at.entity = NotationOf(e) => e \in Notations(v)
             /\ \A m : d.at.entity # NodeOf(m)
  <2>1. FormedStave(v.lane[x[1]][x[2]])
    BY StavesOfNode
  <2>2. CASE d.at = At(StaveOf(x[2]), n, x[1])
    BY <2>2, Kinds DEF At
  <2>3. ASSUME NEW e \in v.lane[x[1]][x[2]].ids, d.at = At(NotationOf(e), n, x[1])
        PROVE  /\ \A o : d.at.entity # ConnectorOf(o)
               /\ \A f : d.at.entity = NotationOf(f) => f \in Notations(v)
               /\ \A m : d.at.entity # NodeOf(m)
    <3>1. e \in Notations(v)
      BY DEF Notations
    <3>2. d.at.entity = NotationOf(e)
      BY <2>3 DEF At
    <3> QED BY <3>1, <3>2, Kinds
  <2> QED BY <1>3, <2>1, <2>2, <2>3, StaveScope
<1>4. ASSUME NEW o \in DOMAIN v.output, d \in OutputFindings(p, ns, n, v, o)
      PROVE  /\ \A x : d.at.entity = ConnectorOf(x) => x = o
             /\ \A e : d.at.entity # NotationOf(e)
             /\ \A m : d.at.entity # NodeOf(m)
  <2>1. d.at = At(ConnectorOf(o), n, None)
    BY <1>4, OutputScope
  <2>2. d.at.entity = ConnectorOf(o)
    BY <2>1 DEF At
  <2> QED BY <2>2, Kinds
<1>5. CASE d \in WeightFindings(n, v)
  <2>1. d.at = At(NodeOf(n), n, None)
    BY <1>5, WeightScope
  <2>2. d.at.entity = NodeOf(n)
    BY <2>1 DEF At
  <2> QED BY <2>2, Kinds
<1>6. CASE \E x \in Staves(v) : d \in StaveFindings(p, n, v, x[1], x[2])
  BY <1>3, <1>6
<1>7. CASE \E o \in DOMAIN v.output : d \in OutputFindings(p, ns, n, v, o)
  BY <1>4, <1>7
<1> QED BY <1>1, <1>2, <1>5, <1>6, <1>7, NodeFindingCases

-----------------------------------------------------------------------------
(* An incremental pass *)
Scoped(ns, cs) == \A c \in cs : ~Unscoped(ns, c)
Touched(ns, cs, d) ==
  \/ d.at.node \in Selected(ns, cs)
  \/ \E n \in DOMAIN ns : \E o \in DOMAIN ns[n].output :
       /\ d.at = At(ConnectorOf(o), n, None)
       /\ \E m \in Selected(ns, cs) : LeadsInto(ns[n].output[o], m)

(* The nodes of scoped changes are there: the others made the pass complete.*)
LEMMA SelectedArePresent ==
  ASSUME NEW ns, NEW cs, Scoped(ns, cs)
  PROVE  Selected(ns, cs) \subseteq DOMAIN ns /\ Priors(cs) \subseteq Selected(ns, cs)
BY DEF Scoped, Unscoped, Selected, Priors, Concerned

(* The sources of what an incremental pass finds.                           *)
LEMMA FindingCases ==
  ASSUME NEW p, NEW ns, NEW cs, NEW d
  PROVE  d \in Findings(p, ns, cs) <=>
           \/ d \in NilFindings(p, ns)
           \/ \E x \in Inbound(ns, cs) : d \in OutputFindings(p, ns, x[1], ns[x[1]], x[2])
           \/ \E n \in Selected(ns, cs) : d \in NodeFindings(p, ns, n, ns[n])
BY DEF Findings

(* validate_inbound_dependencies() takes exactly the outputs of other nodes *)
(* that lead into a selected one.                                           *)
LEMMA InboundCases ==
  ASSUME NEW ns, NEW cs
  PROVE  /\ \A x \in Inbound(ns, cs) :
              /\ x[1] \in DOMAIN ns /\ x[1] \notin Selected(ns, cs) /\ x[2] \in DOMAIN ns[x[1]].output
              /\ \E m \in Selected(ns, cs) : LeadsInto(ns[x[1]].output[x[2]], m)
         /\ \A n \in DOMAIN ns : \A o \in DOMAIN ns[n].output :
              n \notin Selected(ns, cs) /\ (\E m \in Selected(ns, cs) : LeadsInto(ns[n].output[o], m))
                => <<n, o>> \in Inbound(ns, cs)
<1> DEFINE Ends == UNION {{<<n, o>> : o \in DOMAIN ns[n].output} : n \in DOMAIN ns \ Selected(ns, cs)}
<1>1. \A x : x \in Ends <=> \E n \in DOMAIN ns \ Selected(ns, cs) : \E o \in DOMAIN ns[n].output : x = <<n, o>>
  OBVIOUS
<1>2. \A x \in Ends : x[1] \in DOMAIN ns \ Selected(ns, cs) /\ x[2] \in DOMAIN ns[x[1]].output
  BY <1>1
<1>3. Inbound(ns, cs) = {x \in Ends : \E n \in Selected(ns, cs) : LeadsInto(ns[x[1]].output[x[2]], n)}
  BY DEF Inbound
<1> QED BY <1>1, <1>2, <1>3

(* The sources of affected_scopes.                                          *)
LEMMA ScopeCases ==
  ASSUME NEW p, NEW ns, NEW cs, NEW at
  PROVE  at \in AffectedScopes(p, ns, cs) <=>
           \/ \E d \in Findings(p, ns, cs) : at = d.at
           \/ \E x \in Inbound(ns, cs) : at = At(ConnectorOf(x[2]), x[1], None)
           \/ \E n \in Selected(ns, cs) : at \in Marked(p, n, ns[n])
BY DEF AffectedScopes

(* An incremental report makes no finding that a complete one does not.     *)
LEMMA ReportIsSound ==
  ASSUME NEW p, NEW first, NEW ns, NEW cs, Scoped(ns, cs), NEW d \in Findings(p, ns, cs)
  PROVE  d \in Complete(p, first, ns)
<1>1. ASSUME NEW x \in Inbound(ns, cs), d \in OutputFindings(p, ns, x[1], ns[x[1]], x[2])
      PROVE  d \in Complete(p, first, ns)
  <2>1. x[1] \in DOMAIN ns /\ x[2] \in DOMAIN ns[x[1]].output
    BY InboundCases
  <2>2. d \in NodeFindings(p, ns, x[1], ns[x[1]])
    BY <1>1, <2>1 DEF NodeFindings
  <2> QED BY <2>1, <2>2, CompleteCases
<1>2. ASSUME NEW n \in Selected(ns, cs), d \in NodeFindings(p, ns, n, ns[n])
      PROVE  d \in Complete(p, first, ns)
  BY <1>2, SelectedArePresent, CompleteCases
<1> QED BY <1>1, <1>2, FindingCases, CompleteCases

(* It makes every one that touches a selected node, when no id has a twin.  *)
LEMMA ReportIsComplete ==
  ASSUME NEW p, NEW first, NEW ns, NEW cs, Scoped(ns, cs), None \notin DOMAIN ns,
         \A n \in DOMAIN ns : FormedNode(ns[n]), Duplicated(p, ns) = {},
         NEW d \in Complete(p, first, ns), Touched(ns, cs, d)
  PROVE  d \in Findings(p, ns, cs)
<1>1. d \notin DuplicateFindings(p, ns)
  BY DEF DuplicateFindings
<1>2. d.at.node # None
  <2>1. CASE d.at.node \in Selected(ns, cs)
    BY <2>1, SelectedArePresent
  <2>2. ASSUME NEW n \in DOMAIN ns, NEW o, d.at = At(ConnectorOf(o), n, None)
        PROVE  d.at.node # None
    BY <2>2 DEF At
  <2> QED BY <2>1, <2>2 DEF Touched
<1>3. CASE d \in NilFindings(p, ns)
  BY <1>3, FindingCases
<1>4. ASSUME NEW n \in DOMAIN ns, d \in NodeFindings(p, ns, n, ns[n])
      PROVE  d \in Findings(p, ns, cs)
  <2>1. d.at.node = n
    BY <1>4, NodeFindingAt
  <2>2. CASE n \in Selected(ns, cs)
    BY <1>4, <2>2, FindingCases
  <2>3. ASSUME NEW m \in DOMAIN ns, NEW o \in DOMAIN ns[m].output, d.at = At(ConnectorOf(o), m, None),
               \E k \in Selected(ns, cs) : LeadsInto(ns[m].output[o], k), n \notin Selected(ns, cs)
        PROVE  d \in Findings(p, ns, cs)
    <3>1. m = n /\ d.at.entity = ConnectorOf(o)
      BY <2>1, <2>3 DEF At
    <3>2. d \in OutputFindings(p, ns, n, ns[n], o)
      BY <1>4, <3>1, EntityOfFinding
    <3>3. <<n, o>> \in Inbound(ns, cs)
      BY <2>3, <3>1, InboundCases
    <3> QED BY <3>2, <3>3, FindingCases
  <2> QED BY <2>1, <2>2, <2>3 DEF Touched
<1>5. d \notin RegistryFindings(p) /\ d \notin StartFindings(first, ns)
  <2>1. At(NodeOf(first), None, None).node = None
    BY DEF At
  <2> QED BY <1>2, <2>1, OutsideNodes
<1> QED BY <1>1, <1>3, <1>4, <1>5, CompleteCases

(* A finding that touches no selected node is not erased from the cache,    *)
(* unless its entity has no id.                                             *)
LEMMA KeptIsUntouched ==
  ASSUME NEW p, NEW first, NEW ns, NEW cs, Scoped(ns, cs), None \notin DOMAIN ns,
         \A n \in DOMAIN ns : FormedNode(ns[n]),
         \A c \in cs : \/ \E n \in NodeIds : c = NodeChange(n)
                       \/ \E kind \in {"connector", "notation"} : \E x, n : c = Change(kind, x, n),
         NEW d \in Complete(p, first, ns), ~Touched(ns, cs, d), Uuid(d.at.entity) # Nil,
         d \notin DuplicateFindings(p, ns)
  PROVE  d.at \notin AffectedScopes(p, ns, cs) /\ \A c \in cs : ~Matches(d, c)
<1>1. d \notin NilFindings(p, ns)
  BY NilCases DEF Diagnostic
<1>2. ASSUME NEW e \in Findings(p, ns, cs), d.at = e.at
      PROVE  FALSE
  <2>1. CASE e \in NilFindings(p, ns)
    BY <1>2, <2>1, NilCases DEF Diagnostic
  <2>2. ASSUME NEW x \in Inbound(ns, cs), e \in OutputFindings(p, ns, x[1], ns[x[1]], x[2])
        PROVE  FALSE
    <3>1. d.at = At(ConnectorOf(x[2]), x[1], None)
      BY <1>2, <2>2, OutputScope
    <3> QED BY <3>1, InboundCases DEF Touched
  <2>3. ASSUME NEW n \in Selected(ns, cs), e \in NodeFindings(p, ns, n, ns[n])
        PROVE  FALSE
    <3>1. d.at.node = n
      BY <1>2, <2>3, NodeFindingAt, SelectedArePresent
    <3> QED BY <3>1 DEF Touched
  <2> QED BY <2>1, <2>2, <2>3, FindingCases
<1>3. ASSUME NEW x \in Inbound(ns, cs), d.at = At(ConnectorOf(x[2]), x[1], None)
      PROVE  FALSE
  BY <1>3, InboundCases DEF Touched
<1>4. ASSUME NEW n \in Selected(ns, cs), d.at \in Marked(p, n, ns[n])
      PROVE  FALSE
  <2>1. d.at.node = n
    BY <1>4, PlacedAt DEF Placed
  <2> QED BY <2>1 DEF Touched
<1>5. ASSUME NEW n \in NodeIds, NodeChange(n) \in cs, Matches(d, NodeChange(n))
      PROVE  FALSE
  <2>1. n \in Selected(ns, cs) /\ n \in DOMAIN ns
    BY <1>5, SelectedArePresent DEF Priors, NodeChange, Change
  <2>2. d.at.entity = NodeOf(n) \/ d.at.node = n
    BY <1>5 DEF Matches, NodeChange, Change, NodeOf
  <2>3. CASE d.at.entity = NodeOf(n)
    <3>1. ASSUME NEW m \in DOMAIN ns, d \in NodeFindings(p, ns, m, ns[m])
          PROVE  FALSE
      <4>1. m = n /\ d.at.node = m
        BY <2>3, <3>1, EntityOfFinding, NodeFindingAt
      <4> QED BY <2>1, <4>1 DEF Touched
    <3>2. ASSUME d \in StartFindings(first, ns)
          PROVE  FALSE
      <4>1. first \notin DOMAIN ns /\ d.at = At(NodeOf(first), None, None)
        BY <3>2, OutsideNodes
      <4>2. NodeOf(first) = NodeOf(n)
        BY <2>3, <4>1 DEF At
      <4>3. first = n
        BY <4>2, Kinds
      <4> QED BY <2>1, <4>1, <4>3
    <3>3. d \notin RegistryFindings(p)
      BY <2>3, OutsideNodes
    <3> QED BY <1>1, <3>1, <3>2, <3>3, CompleteCases
  <2> QED BY <2>1, <2>2, <2>3 DEF Touched
<1>6. ASSUME NEW kind \in {"connector", "notation"}, NEW x, NEW k, Change(kind, x, k) \in cs,
             Matches(d, Change(kind, x, k))
      PROVE  FALSE
  <2>1. \/ kind = "connector" /\ d.at.entity = ConnectorOf(x)
        \/ kind = "notation" /\ d.at.entity = NotationOf(x)
    BY <1>6 DEF Matches, Change, ConnectorOf, NotationOf
  <2>2. At(NodeOf(first), None, None).entity = NodeOf(first)
    BY DEF At
  <2>3. d \notin RegistryFindings(p) /\ d \notin StartFindings(first, ns)
    BY <2>1, <2>2, OutsideNodes, Kinds, SMTT(30)
  <2>4. PICK m \in DOMAIN ns : d \in NodeFindings(p, ns, m, ns[m])
    BY <1>1, <2>3, CompleteCases
  <2>5. \/ kind = "connector" /\ x \in DOMAIN ns[m].output
        \/ kind = "notation" /\ x \in Notations(ns[m])
    BY <2>1, <2>4, EntityOfFinding
  <2>6. m \in Concerned(ns, Change(kind, x, k))
    BY <2>5 DEF Concerned, Change
  <2>7. m \in Selected(ns, cs)
    BY <1>6, <2>6 DEF Selected
  <2>8. d.at.node = m
    BY <2>4, NodeFindingAt
  <2> QED BY <2>7, <2>8 DEF Touched
<1> QED BY <1>2, <1>3, <1>4, <1>5, <1>6, ScopeCases

(* Only the namespace pass reports a duplicate id.                          *)
LEMMA OnlyDuplicates ==
  ASSUME NEW p, NEW first, NEW ns, \A n \in DOMAIN ns : FormedNode(ns[n]),
         NEW d \in Complete(p, first, ns), d.code = "DuplicateUuid"
  PROVE  d \in DuplicateFindings(p, ns)
<1>1. d \notin NilFindings(p, ns)
  BY NilCases DEF Diagnostic
<1>2. d \notin StartFindings(first, ns)
  BY DEF StartFindings, If, Diagnostic
<1>3. d \notin RegistryFindings(p)
  BY DEF RegistryFindings, If, Diagnostic
<1>4. ASSUME NEW n \in DOMAIN ns, d \in NodeFindings(p, ns, n, ns[n])
      PROVE  FALSE
  <2>1. d \notin AlignmentFindings(p, n, ns[n])
    BY DEF AlignmentFindings, Diagnostic
  <2>2. d \notin TimelineFindings(p, n, ns[n])
    BY SMTT(30) DEF TimelineFindings, ClefFindings, FormedNode, TimelineCodes, If, Diagnostic
  <2>3. ASSUME NEW x \in Staves(ns[n])
        PROVE  d \notin StaveFindings(p, n, ns[n], x[1], x[2])
    <3>1. FormedStave(ns[n].lane[x[1]][x[2]])
      BY StavesOfNode
    <3> QED BY <3>1, SMTT(30) DEF StaveFindings, FormedStave, NotationCodes, If, Diagnostic
  <2>4. ASSUME NEW o \in DOMAIN ns[n].output
        PROVE  d \notin OutputFindings(p, ns, n, ns[n], o)
    BY SMTT(30) DEF OutputFindings, DanglingFindings, BindingFindings, If, Diagnostic
  <2>5. d \notin WeightFindings(n, ns[n])
    BY DEF WeightFindings, If, Diagnostic
  <2> QED BY <1>4, <2>1, <2>2, <2>3, <2>4, <2>5, NodeFindingCases
<1> QED BY <1>1, <1>2, <1>3, <1>4, CompleteCases

(* When a pass stays incremental every change is scoped, and no id has a    *)
(* twin.                                                                    *)
LEMMA NotExpanded ==
  ASSUME TypeOK, ~Expands(project, node, changes)
  PROVE  /\ Scoped(node, changes) /\ ~Global /\ None \notin DOMAIN node
         /\ Duplicated(project, node) = {} /\ DuplicateFindings(project, node) = {}
         /\ \A c \in changes : \/ \E n \in NodeIds : c = NodeChange(n)
                               \/ \E kind \in {"connector", "notation"} : \E x, n : c = Change(kind, x, n)
<1>1. None \notin DOMAIN node
  BY ValuesAreFormed DEF TypeOK
<1>2. Scoped(node, changes) /\ Duplicated(project, node) = {}
  BY DEF Expands, Scoped
<1>3. DuplicateFindings(project, node) = {}
  BY <1>2 DEF DuplicateFindings
<1>4. \A c \in changes : c.prior # None
  BY <1>1, <1>2 DEF Scoped, Unscoped
<1>5. ProjectChange.prior = None
  BY DEF ProjectChange, Change
<1>6. \A c \in changes : \/ \E n \in NodeIds : c = NodeChange(n)
                        \/ \E kind \in {"connector", "notation"} : \E x, n : c = Change(kind, x, n)
  BY <1>4, <1>5 DEF TypeOK
<1> QED BY <1>1, <1>2, <1>3, <1>4, <1>6 DEF Global

(* After an incremental pass the cache lacks nothing but findings about nil *)
(* ids.                                                                     *)
LEMMA NothingIsLost ==
  ASSUME TypeOK, MissingIsCovered, ~Expands(project, node, changes),
         NEW d \in Complete(project, start, node), d \notin Replaced(project, node, changes)
  PROVE  Uuid(d.at.entity) = Nil
<1> SUFFICES ASSUME Uuid(d.at.entity) # Nil  PROVE FALSE
  OBVIOUS
<1>1. d \notin Findings(project, node, changes)
  BY DEF Replaced
<1>2. ~Touched(node, changes, d)
  BY <1>1, NotExpanded, ReportIsComplete DEF TypeOK
<1>3. d \notin DuplicateFindings(project, node)
  BY NotExpanded
<1>4. d.at \notin AffectedScopes(project, node, changes) /\ \A c \in changes : ~Matches(d, c)
  BY <1>2, <1>3, NotExpanded, KeptIsUntouched DEF TypeOK
<1>5. d \notin cached
  BY <1>4 DEF Replaced
<1>6. d.code # "DuplicateUuid"
  BY <1>3, OnlyDuplicates DEF TypeOK
<1>7. d.at.node \in Priors(changes) \/ LeadsToChange(node, changes, d)
  BY <1>5, <1>6, NotExpanded DEF MissingIsCovered
<1>8. Touched(node, changes, d)
  BY <1>7, NotExpanded, SelectedArePresent DEF Touched, LeadsToChange
<1> QED BY <1>2, <1>8

(* It keeps nothing that is not found any more but duplicates.              *)
LEMMA NothingStaleStays ==
  ASSUME TypeOK, StaleIsCovered, ~Expands(project, node, changes),
         NEW d \in Replaced(project, node, changes), d \notin Complete(project, start, node)
  PROVE  d.code = "DuplicateUuid"
<1> SUFFICES ASSUME d.code # "DuplicateUuid"  PROVE FALSE
  OBVIOUS
<1>1. d \notin Findings(project, node, changes)
  BY NotExpanded, ReportIsSound
<1>2. d \in cached /\ d.at \notin AffectedScopes(project, node, changes) /\ \A c \in changes : ~Matches(d, c)
  BY <1>1 DEF Replaced
<1>3. WillGo(project, node, changes, d)
  BY <1>2, NotExpanded DEF StaleIsCovered
<1>4. ASSUME NEW n \in NodeIds, NodeChange(n) \in changes, d.at.node = n \/ d.at.entity = NodeOf(n)
      PROVE  FALSE
  <2>1. Matches(d, NodeChange(n))
    BY <1>4 DEF Matches, NodeChange, Change, NodeOf
  <2> QED BY <1>2, <1>4, <2>1
<1>5. ASSUME NEW n \in Priors(changes), d.at \in Placed(project, n, node[n])
      PROVE  FALSE
  <2>1. n \in Selected(node, changes)
    BY <1>5, NotExpanded, SelectedArePresent
  <2>2. CASE d.at \in Marked(project, n, node[n])
    BY <1>2, <2>1, <2>2, ScopeCases
  <2>3. ASSUME NEW e \in AlignmentFindings(project, n, node[n]), d.at = e.at
        PROVE  FALSE
    <3>1. e \in NodeFindings(project, node, n, node[n])
      BY <2>3 DEF NodeFindings
    <3>2. e \in Findings(project, node, changes)
      BY <2>1, <3>1, FindingCases
    <3> QED BY <1>2, <2>3, <3>2, ScopeCases
  <2> QED BY <1>5, <2>2, <2>3 DEF Placed
<1>6. ASSUME NEW c \in changes, d.at.entity = <<c.kind, c.id>>
      PROVE  FALSE
  BY <1>2, <1>6 DEF Matches
<1>7. ASSUME NEW n \in DOMAIN node, NEW o \in DOMAIN node[n].output, d.at = At(ConnectorOf(o), n, None),
             NEW m \in Priors(changes), LeadsInto(node[n].output[o], m)
      PROVE  FALSE
  <2>1. m \in Selected(node, changes)
    BY NotExpanded, SelectedArePresent
  <2>2. CASE n \in Selected(node, changes)
    <3>1. d.at \in Marked(project, n, node[n])
      BY <1>7, MarkedCases
    <3> QED BY <1>2, <2>2, <3>1, ScopeCases
  <2>3. CASE n \notin Selected(node, changes)
    <3>1. <<n, o>> \in Inbound(node, changes)
      BY <1>7, <2>1, <2>3, InboundCases
    <3> QED BY <1>2, <1>7, <3>1, ScopeCases
  <2> QED BY <2>2, <2>3
<1> QED BY <1>3, <1>4, <1>5, <1>6, <1>7 DEF WillGo, LeadsToChange

(* Bringing the cache up to date, incrementally or not, keeps the invariant.*)
LEMMA ValidatePreserves ==
  ASSUME IInv, Validate
  PROVE  IInv'
<1>1. TypeOK'
  BY DEF IInv, TypeOK, Validate
<1>2. CASE Expands(project, node, changes)
  <2>1. cached' = Complete(project, start, node)' 
    BY <1>2 DEF Validate
  <2> QED BY <1>1, <2>1 DEF IInv, StaleIsCovered, MissingIsCovered
<1>3. CASE ~Expands(project, node, changes)
  <2>1. cached' = Replaced(project, node, changes)
    BY <1>3 DEF Validate
  <2>2. Complete(project, start, node)' = Complete(project, start, node)
    BY DEF Validate
  <2>3. StaleIsCovered'
    BY <1>3, <2>1, <2>2, NothingStaleStays DEF IInv, StaleIsCovered
  <2>4. MissingIsCovered'
    BY <1>3, <2>1, <2>2, NothingIsLost DEF IInv, MissingIsCovered
  <2> QED BY <1>1, <2>3, <2>4 DEF IInv
<1> QED BY <1>2, <1>3
-----------------------------------------------------------------------------
(* What an edit owes *)
(* A finding with another code is not a duplicate.                          *)
LEMMA DuplicateCode ==
  ASSUME NEW p, NEW ns, NEW d, d.code # "DuplicateUuid"
  PROVE  d \notin DuplicateFindings(p, ns)
BY DEF DuplicateFindings, Diagnostic

(* A finding of a complete pass is placed in its node, in none, or at the   *)
(* start node.                                                              *)
LEMMA CompletePlaced ==
  ASSUME NEW p, NEW first, NEW ns, \A n \in DOMAIN ns : FormedNode(ns[n]),
         NEW d \in Complete(p, first, ns), d \notin DuplicateFindings(p, ns), d.at.node # None
  PROVE  d.at.node \in DOMAIN ns /\ d.at \in Placed(p, d.at.node, ns[d.at.node])
<1>1. ASSUME NEW n \in DOMAIN ns, d.at \in Placed(p, n, ns[n])
      PROVE  d.at.node \in DOMAIN ns /\ d.at \in Placed(p, d.at.node, ns[d.at.node])
  <2>1. d.at.node = n
    BY <1>1, PlacedAt
  <2> QED BY <1>1, <2>1
<1>2. CASE d \in NilFindings(p, ns)
  <2>1. ASSUME NEW x \in ProjectOccurrences(p), d = Diagnostic(x[1], "NilUuid")
        PROVE  FALSE
    BY <2>1, ProjectOccurrenceAt DEF Diagnostic
  <2>2. PICK n \in DOMAIN ns : \E x \in NodeOccurrences(n, ns[n]) : d = Diagnostic(x[1], "NilUuid")
    BY <1>2, <2>1, NilCases
  <2>3. PICK x \in NodeOccurrences(n, ns[n]) : d = Diagnostic(x[1], "NilUuid")
    BY <2>2
  <2>4. d.at \in Placed(p, n, ns[n])
    BY <2>3, OccurrenceIsMarked DEF Placed, Diagnostic
  <2> QED BY <1>1, <2>4
<1>3. ASSUME NEW n \in DOMAIN ns, d \in NodeFindings(p, ns, n, ns[n])
      PROVE  d.at.node \in DOMAIN ns /\ d.at \in Placed(p, d.at.node, ns[d.at.node])
  BY <1>1, <1>3, FindingsArePlaced
<1>4. d \notin RegistryFindings(p)
  BY OutsideNodes
<1>5. d \notin StartFindings(first, ns)
  <2>1. At(NodeOf(first), None, None).node = None
    BY DEF At
  <2> QED BY <2>1, OutsideNodes
<1> QED BY <1>2, <1>3, <1>4, <1>5, CompleteCases

(* Edits of the nodes K that report them owe what the cache lacks.          *)
LEMMA MissingStaysOwed ==
  ASSUME NEW K, TypeOK, TypeOK', MissingIsCovered, Same(node', node, K),
         cached' = cached, project' = project, changes \subseteq changes', K \subseteq Priors(changes'),
         \A d \in StartFindings(start', node') : d \in StartFindings(start, node), changes' # {}
  PROVE  MissingIsCovered'
<1> SUFFICES ASSUME NEW d \in Complete(project, start', node'), d \notin cached,
                    Uuid(d.at.entity) # Nil, d.code # "DuplicateUuid", ~Global'
             PROVE  d.at.node \in Priors(changes') \/ LeadsToChange(node', changes', d)
  BY DEF MissingIsCovered
<1>1. ~Global /\ Priors(changes) \subseteq Priors(changes')
  BY DEF Global, Priors
<1>2. ASSUME NEW n \in DOMAIN node, NEW o \in DOMAIN node[n].output, d.at = At(ConnectorOf(o), n, None),
             NEW m \in Priors(changes'), LeadsInto(node[n].output[o], m)
      PROVE  d.at.node \in Priors(changes') \/ LeadsToChange(node', changes', d)
  <2>1. CASE n \in K
    BY <1>2, <2>1 DEF At
  <2>2. CASE n \notin K
    BY <1>2, <2>2 DEF Same, LeadsToChange
  <2> QED BY <2>1, <2>2
<1>3. CASE d \in Complete(project, start, node)
  <2>1. d.at.node \in Priors(changes) \/ LeadsToChange(node, changes, d)
    BY <1>1, <1>3 DEF MissingIsCovered
  <2> QED BY <1>1, <1>2, <2>1 DEF LeadsToChange
<1>4. CASE d \notin Complete(project, start, node)
  <2>1. \/ d.at.node \in K
        \/ \E n \in DOMAIN node : \E o \in DOMAIN node[n].output :
             /\ n \notin K /\ d.at = At(ConnectorOf(o), n, None)
             /\ \E m \in K : LeadsInto(node[n].output[o], m)
    <3>1. \A n \in DOMAIN node' : FormedNode(node'[n])
      BY DEF TypeOK
    <3>2. d \notin DuplicateFindings(project, node')
      BY DuplicateCode
    <3> QED BY <1>4, <3>1, <3>2, Differs
  <2> QED BY <1>2, <2>1
<1> QED BY <1>3, <1>4

(* Edits of the nodes K, each reported as changed, owe what the cache has   *)
(* too much.                                                                *)
LEMMA StaleOfNodes ==
  ASSUME NEW K \in SUBSET NodeIds, TypeOK, TypeOK', StaleIsCovered, Same(node, node', K),
         cached' = cached, project' = project, changes \subseteq changes',
         \A m \in K : NodeChange(m) \in changes',
         \A d \in StartFindings(start, node) :
           d \in StartFindings(start', node') \/ \E m \in K : d.at.entity = NodeOf(m)
  PROVE  StaleIsCovered'
<1> SUFFICES ASSUME NEW d \in cached, d \notin Complete(project, start', node'),
                    d.code # "DuplicateUuid", ~Global'
             PROVE  WillGo(project, node', changes', d)
  BY DEF StaleIsCovered
<1>1. ~Global /\ Priors(changes) \subseteq Priors(changes') /\ K \subseteq Priors(changes')
  <2>1. ~Global /\ Priors(changes) \subseteq Priors(changes')
    BY DEF Global, Priors
  <2>2. \A m : NodeChange(m).prior = m
    BY DEF NodeChange, Change
  <2>3. \A c \in changes' : c.prior \in Priors(changes')
    BY DEF Priors
  <2> QED BY <2>1, <2>2, <2>3
<1>2. ASSUME NEW m \in K, d.at.node = m \/ d.at.entity = NodeOf(m)
      PROVE  WillGo(project, node', changes', d)
  BY <1>2 DEF WillGo
<1>3. CASE d \notin Complete(project, start, node)
  <2>1. WillGo(project, node, changes, d)
    BY <1>1, <1>3 DEF StaleIsCovered
  <2>2. CASE \E n \in NodeIds : NodeChange(n) \in changes /\ (d.at.node = n \/ d.at.entity = NodeOf(n))
    BY <2>2 DEF WillGo
  <2>3. CASE /\ d.at.node \in Priors(changes) /\ d.at.node \in DOMAIN node
             /\ \/ d.at \in Placed(project, d.at.node, node[d.at.node])
                \/ \E c \in changes : d.at.entity = <<c.kind, c.id>>
    <3>1. CASE d.at.node \notin K
      BY <1>1, <2>3, <3>1 DEF WillGo, Same
    <3> QED BY <1>2, <3>1
  <2>4. CASE LeadsToChange(node, changes, d)
    <3>1. PICK n \in DOMAIN node : \E o \in DOMAIN node[n].output :
            d.at = At(ConnectorOf(o), n, None) /\ \E m \in Priors(changes) : LeadsInto(node[n].output[o], m)
      BY <2>4 DEF LeadsToChange
    <3>2. CASE n \notin K
      <4>1. n \in DOMAIN node' /\ node'[n] = node[n]
        BY <3>2 DEF Same
      <4>2. LeadsToChange(node', changes', d)
        BY <1>1, <3>1, <4>1 DEF LeadsToChange
      <4> QED BY <4>2 DEF WillGo
    <3>3. d.at.node = n
      BY <3>1 DEF At
    <3> QED BY <1>2, <3>2, <3>3
  <2> QED BY <2>1, <2>2, <2>3, <2>4 DEF WillGo
<1>4. CASE d \in Complete(project, start, node)
  <2>1. \/ d.at.node \in K
        \/ \E n \in DOMAIN node' : \E o \in DOMAIN node'[n].output :
             /\ n \notin K /\ d.at = At(ConnectorOf(o), n, None)
             /\ \E m \in K : LeadsInto(node'[n].output[o], m)
        \/ d \in StartFindings(start, node) /\ d \notin StartFindings(start', node')
    <3>1. \A n \in DOMAIN node : FormedNode(node[n])
      BY DEF TypeOK
    <3>2. d \notin DuplicateFindings(project, node)
      BY DuplicateCode
    <3> QED BY <1>4, <3>1, <3>2, Differs
  <2>2. ASSUME NEW n \in DOMAIN node', NEW o \in DOMAIN node'[n].output, d.at = At(ConnectorOf(o), n, None),
               NEW m \in K, LeadsInto(node'[n].output[o], m)
        PROVE  WillGo(project, node', changes', d)
    BY <1>1, <2>2 DEF WillGo, LeadsToChange
  <2> QED BY <1>2, <2>1, <2>2
<1> QED BY <1>3, <1>4

(* An edit of one connector or notation leaves the other places of the node.*)
LEMMA SamePlaces ==
  ASSUME NEW p, NEW n, NEW u, NEW v, NEW x, NEW entity,
         \/ entity = ConnectorOf(x) /\ SameButConnector(u, v, x)
         \/ entity = NotationOf(x) /\ SameButNotation(u, v, x),
         NEW at \in Placed(p, n, u)
  PROVE  at \in Placed(p, n, v) \/ at.entity = entity
<1>1. DOMAIN u.lane = DOMAIN v.lane /\ \A t \in DOMAIN v.lane : DOMAIN u.lane[t] = DOMAIN v.lane[t]
  BY DEF SameButConnector, SameButNotation
<1>2. u.timeline = v.timeline
  BY DEF SameButConnector, SameButNotation
<1>3. Staves(u) = Staves(v)
  BY <1>1 DEF Staves
<1>4. AlignmentFindings(p, n, u) = AlignmentFindings(p, n, v)
  BY <1>1, <1>2 DEF AlignmentFindings, MissingStaves
<1>5. CASE at \in Marked(p, n, u)
  <2>1. ASSUME NEW c \in u.inputs \union DOMAIN u.output, at = At(ConnectorOf(c), n, None)
        PROVE  at \in Marked(p, n, v) \/ at.entity = entity
    <3>1. at.entity = ConnectorOf(c)
      BY <2>1 DEF At
    <3>2. c \in v.inputs \union DOMAIN v.output \/ (entity = ConnectorOf(x) /\ c = x)
      BY DEF SameButConnector, SameButNotation
    <3> QED BY <2>1, <3>1, <3>2, MarkedCases
  <2>2. ASSUME NEW y \in Staves(u), NEW e \in u.lane[y[1]][y[2]].ids, at = At(NotationOf(e), n, y[1])
        PROVE  at \in Marked(p, n, v) \/ at.entity = entity
    <3>1. at.entity = NotationOf(e)
      BY <2>2 DEF At
    <3>2. PICK t \in DOMAIN u.lane : \E s \in DOMAIN u.lane[t] : y = <<t, s>>
      BY DEF Staves
    <3>3. e \in v.lane[y[1]][y[2]].ids \/ (entity = NotationOf(x) /\ e = x)
      BY <1>1, <3>2 DEF SameButConnector, SameButNotation
    <3> QED BY <1>3, <2>2, <3>1, <3>3, MarkedCases
  <2>3. \/ at \in Marked(p, n, v)
        \/ \E c \in u.inputs \union DOMAIN u.output : at = At(ConnectorOf(c), n, None)
        \/ \E y \in Staves(u) : \E e \in u.lane[y[1]][y[2]].ids : at = At(NotationOf(e), n, y[1])
    BY <1>2, <1>3, <1>5, MarkedCases
  <2> QED BY <2>1, <2>2, <2>3 DEF Placed
<1> QED BY <1>4, <1>5 DEF Placed

(* The same, one kind at a time.                                            *)
LEMMA OtherPlacesStay ==
  ASSUME NEW p, NEW n, NEW u, NEW v, NEW x, NEW at \in Placed(p, n, u)
  PROVE  /\ SameButConnector(u, v, x) => at \in Placed(p, n, v) \/ at.entity = ConnectorOf(x)
         /\ SameButNotation(u, v, x) => at \in Placed(p, n, v) \/ at.entity = NotationOf(x)
BY SamePlaces

(* The edit of an occurrence that names its node owes what the cache has too*)
(* much.                                                                    *)
LEMMA StaleOfOccurrence ==
  ASSUME NEW n \in DOMAIN node, NEW kind, NEW x,
         TypeOK, TypeOK', StaleIsCovered,
         DOMAIN node' = DOMAIN node, \A m \in DOMAIN node : m # n => node'[m] = node[m],
         \/ kind = "connector" /\ SameButConnector(node[n], node'[n], x)
         \/ kind = "notation" /\ SameButNotation(node[n], node'[n], x),
         cached' = cached, project' = project, start' = start,
         changes' = changes \union {Change(kind, x, n)}
  PROVE  StaleIsCovered'
<1> SUFFICES ASSUME NEW d \in cached, d \notin Complete(project, start, node'),
                    d.code # "DuplicateUuid", ~Global'
             PROVE  WillGo(project, node', changes', d)
  BY DEF StaleIsCovered
<1>1. ~Global /\ Priors(changes) \subseteq Priors(changes') /\ n \in Priors(changes')
  <2>1. ~Global /\ Priors(changes) \subseteq Priors(changes')
    BY DEF Global, Priors
  <2>2. Change(kind, x, n).prior = n
    BY DEF Change
  <2>3. \A c \in changes' : c.prior \in Priors(changes')
    BY DEF Priors
  <2> QED BY <2>1, <2>2, <2>3
<1>2. DOMAIN node' = DOMAIN node /\ \A m \in DOMAIN node : m # n => node'[m] = node[m]
  OBVIOUS
<1>3. Same(node, node', {n})
  BY <1>2 DEF Same
<1>4. ASSUME d.at.node = n, d.at.entity = <<kind, x>>
      PROVE  WillGo(project, node', changes', d)
  <2>1. Change(kind, x, n).kind = kind /\ Change(kind, x, n).id = x
    BY DEF Change
  <2> QED BY <1>1, <1>2, <1>4, <2>1 DEF WillGo
<1>5. ASSUME d.at.node = n, d.at \in Placed(project, n, node[n])
      PROVE  WillGo(project, node', changes', d)
  <2>1. d.at \in Placed(project, n, node'[n]) \/ d.at.entity = <<kind, x>>
    <3>1. CASE kind = "connector" /\ SameButConnector(node[n], node'[n], x)
      <4>1. d.at \in Placed(project, n, node'[n]) \/ d.at.entity = ConnectorOf(x)
        BY <1>5, <3>1, OtherPlacesStay
      <4> QED BY <3>1, <4>1 DEF ConnectorOf
    <3>2. CASE kind = "notation" /\ SameButNotation(node[n], node'[n], x)
      <4>1. d.at \in Placed(project, n, node'[n]) \/ d.at.entity = NotationOf(x)
        BY <1>5, <3>2, OtherPlacesStay
      <4> QED BY <3>2, <4>1 DEF NotationOf
    <3> QED BY <3>1, <3>2
  <2> QED BY <1>1, <1>2, <1>4, <1>5, <2>1 DEF WillGo
<1>6. CASE d \notin Complete(project, start, node)
  <2>1. WillGo(project, node, changes, d)
    BY <1>1, <1>6 DEF StaleIsCovered
  <2>2. CASE \E m \in NodeIds : NodeChange(m) \in changes /\ (d.at.node = m \/ d.at.entity = NodeOf(m))
    BY <2>2 DEF WillGo
  <2>3. CASE /\ d.at.node \in Priors(changes) /\ d.at.node \in DOMAIN node
             /\ \/ d.at \in Placed(project, d.at.node, node[d.at.node])
                \/ \E c \in changes : d.at.entity = <<c.kind, c.id>>
    <3>1. CASE d.at.node = n /\ d.at \in Placed(project, n, node[n])
      BY <1>5, <3>1
    <3>2. CASE \E c \in changes : d.at.entity = <<c.kind, c.id>>
      BY <1>1, <1>2, <2>3, <3>2 DEF WillGo
    <3>3. CASE d.at.node # n /\ d.at \in Placed(project, d.at.node, node[d.at.node])
      BY <1>1, <1>2, <2>3, <3>3 DEF WillGo
    <3> QED BY <2>3, <3>1, <3>2, <3>3
  <2>4. ASSUME NEW m \in DOMAIN node, NEW o \in DOMAIN node[m].output, d.at = At(ConnectorOf(o), m, None),
               NEW k \in Priors(changes), LeadsInto(node[m].output[o], k)
        PROVE  WillGo(project, node', changes', d)
    <3>1. d.at.node = m /\ d.at.entity = <<"connector", o>>
      BY <2>4 DEF At, ConnectorOf
    <3>2. CASE m = n /\ kind = "connector" /\ o = x
      BY <1>4, <3>1, <3>2
    <3>3. CASE ~(m = n /\ kind = "connector" /\ o = x)
      <4>1. o \in DOMAIN node'[m].output /\ node'[m].output[o] = node[m].output[o]
        BY <1>2, <3>3 DEF SameButConnector, SameButNotation
      <4>2. LeadsToChange(node', changes', d)
        BY <1>1, <1>2, <2>4, <4>1 DEF LeadsToChange
      <4> QED BY <4>2 DEF WillGo
    <3> QED BY <3>2, <3>3
  <2> QED BY <2>1, <2>2, <2>3, <2>4 DEF WillGo, LeadsToChange
<1>7. CASE d \in Complete(project, start, node)
  <2>1. d \notin DuplicateFindings(project, node) /\ \A m \in DOMAIN node : FormedNode(node[m])
    BY DuplicateCode DEF TypeOK
  <2>2. \/ d.at.node = n
        \/ \E m \in DOMAIN node' : \E o \in DOMAIN node'[m].output :
             d.at = At(ConnectorOf(o), m, None) /\ LeadsInto(node'[m].output[o], n)
        \/ d \in StartFindings(start, node) /\ d \notin StartFindings(start, node')
    <3> DEFINE K == {n}
    <3>1. Same(node, node', K)
      BY <1>3
    <3>2. \A k \in K : k = n
      OBVIOUS
    <3> HIDE DEF K
    <3>3. \/ d.at.node \in K
          \/ \E m \in DOMAIN node' : \E o \in DOMAIN node'[m].output :
               /\ m \notin K /\ d.at = At(ConnectorOf(o), m, None)
               /\ \E k \in K : LeadsInto(node'[m].output[o], k)
          \/ d \in StartFindings(start, node) /\ d \notin StartFindings(start, node')
      BY <1>7, <2>1, <3>1, Differs, SMTT(40)
    <3> QED BY <3>2, <3>3
  <2>3. CASE d.at.node = n
    <3>1. n # None
      BY ValuesAreFormed DEF TypeOK
    <3>2. d.at \in Placed(project, n, node[n])
      BY <1>7, <2>1, <2>3, <3>1, CompletePlaced
    <3> QED BY <1>5, <2>3, <3>2
  <2>4. ASSUME NEW m \in DOMAIN node', NEW o \in DOMAIN node'[m].output, d.at = At(ConnectorOf(o), m, None),
               LeadsInto(node'[m].output[o], n)
        PROVE  WillGo(project, node', changes', d)
    BY <1>1, <2>4 DEF WillGo, LeadsToChange
  <2>5. d \in StartFindings(start, node) => d \in StartFindings(start, node')
    BY <1>2 DEF StartFindings, If
  <2> QED BY <2>2, <2>3, <2>4, <2>5
<1> QED BY <1>6, <1>7
-----------------------------------------------------------------------------
(* The steps *)
ChangeIsNamed(c) ==
  \/ \E n \in NodeIds : c = NodeChange(n)
  \/ c = ProjectChange
  \/ \E kind \in {"connector", "notation"}, x \in ConnectorIds \union NotationIds,
        n \in NodeIds \union {None} : c = Change(kind, x, n)

(* Formed nodes and named changes keep the types.                           *)
LEMMA TypeStaysOK ==
  ASSUME TypeOK, NEW made, \A c \in made : ChangeIsNamed(c), changes' = changes \union made,
         DOMAIN node' \subseteq NodeIds, node' = [n \in DOMAIN node' |-> node'[n]],
         \A n \in DOMAIN node' : FormedNode(node'[n])
  PROVE  TypeOK'
BY DEF TypeOK, ChangeIsNamed

(* A change that names no node makes the next pass complete: nothing more is*)
(* owed.                                                                    *)
LEMMA GlobalPreserves ==
  ASSUME IInv, TypeOK', changes \subseteq changes', NEW c \in changes', c.prior = None
  PROVE  IInv'
BY DEF IInv, Global, StaleIsCovered, MissingIsCovered

(* A node is edited and reported.                                           *)
LEMMA EditNodePreserves ==
  ASSUME IInv, NEW n \in DOMAIN node, NEW v \in NodeValues, EditNode(n, v)
  PROVE  IInv'
<1> DEFINE K == {n}
<1>1. /\ n \in NodeIds /\ DOMAIN node' = DOMAIN node /\ node'[n] = v
      /\ \A m \in DOMAIN node : m # n => node'[m] = node[m]
      /\ node' = [m \in DOMAIN node' |-> node'[m]]
  BY DEF EditNode, IInv, TypeOK
<1>2. /\ changes' = changes \union {NodeChange(n)} /\ changes' # {}
      /\ cached' = cached /\ project' = project /\ start' = start
  BY DEF EditNode, Report
<1>3. TypeOK'
  <2>1. \A m \in DOMAIN node' : FormedNode(node'[m])
    BY <1>1, ValuesAreFormed DEF IInv, TypeOK
  <2>2. \A c \in {NodeChange(n)} : ChangeIsNamed(c)
    BY <1>1 DEF ChangeIsNamed
  <2> QED BY <1>1, <1>2, <2>1, <2>2, TypeStaysOK DEF IInv, TypeOK
<1>4. Same(node, node', K) /\ Same(node', node, K)
  BY <1>1 DEF Same
<1>5. NodeChange(n) \in changes' /\ \A m \in K : NodeChange(m) \in changes' 
  BY <1>2
<1>6. K \subseteq Priors(changes') /\ K \in SUBSET NodeIds
  BY <1>1, <1>5 DEF Priors, NodeChange, Change
<1>7. \A first : StartFindings(first, node') = StartFindings(first, node)
  BY <1>1 DEF StartFindings
<1> HIDE DEF K
<1>8. StaleIsCovered'
  BY <1>2, <1>3, <1>4, <1>5, <1>6, <1>7, StaleOfNodes DEF IInv
<1>9. MissingIsCovered'
  BY <1>2, <1>3, <1>4, <1>6, <1>7, MissingStaysOwed DEF IInv
<1> QED BY <1>3, <1>8, <1>9 DEF IInv

(* An occurrence is edited and reported, with its node or without.          *)
LEMMA OccurrencePreserves ==
  ASSUME IInv, NEW n \in DOMAIN node, NEW v \in NodeValues, NEW x \in ConnectorIds \union NotationIds,
         NEW kind, NEW prior \in {n, None},
         \/ kind = "connector" /\ SameButConnector(node[n], v, x)
         \/ kind = "notation" /\ SameButNotation(node[n], v, x),
         node' = [node EXCEPT ![n] = v], UNCHANGED <<project, start>>,
         Report({Change(kind, x, prior)})
  PROVE  IInv'
<1> DEFINE K == {n}
<1>1. /\ n \in NodeIds /\ DOMAIN node' = DOMAIN node /\ node'[n] = v
      /\ \A m \in DOMAIN node : m # n => node'[m] = node[m]
      /\ node' = [m \in DOMAIN node' |-> node'[m]]
  BY DEF IInv, TypeOK
<1>2. /\ changes' = changes \union {Change(kind, x, prior)} /\ changes' # {}
      /\ cached' = cached /\ project' = project /\ start' = start
  BY DEF Report
<1>3. TypeOK'
  <2>1. \A m \in DOMAIN node' : FormedNode(node'[m])
    BY <1>1, ValuesAreFormed DEF IInv, TypeOK
  <2>2. \A c \in {Change(kind, x, prior)} : ChangeIsNamed(c)
    BY <1>1 DEF ChangeIsNamed
  <2> QED BY <1>1, <1>2, <2>1, <2>2, TypeStaysOK DEF IInv, TypeOK
<1>4. CASE prior = None
  <2>1. Change(kind, x, prior).prior = None
    BY <1>4 DEF Change
  <2> QED BY <1>2, <1>3, <2>1, GlobalPreserves
<1>5. CASE prior = n
  <2>1. Same(node', node, K)
    BY <1>1 DEF Same
  <2>2. K \subseteq Priors(changes')
    <3>1. Change(kind, x, n) \in changes' /\ Change(kind, x, n).prior = n
      BY <1>2, <1>5 DEF Change
    <3> QED BY <3>1 DEF Priors
  <2>3. \A first : StartFindings(first, node') = StartFindings(first, node)
    BY <1>1 DEF StartFindings
  <2>4. StaleIsCovered'
    BY <1>1, <1>2, <1>3, <1>5, StaleOfOccurrence DEF IInv
  <2> HIDE DEF K
  <2>5. MissingIsCovered'
    BY <1>2, <1>3, <2>1, <2>2, <2>3, MissingStaysOwed DEF IInv
  <2> QED BY <1>3, <2>4, <2>5 DEF IInv
<1> QED BY <1>4, <1>5

(* A connector is added, removed or changed.                                *)
LEMMA EditConnectorPreserves ==
  ASSUME IInv, NEW n \in DOMAIN node, NEW v \in NodeValues, NEW c \in ConnectorIds,
         NEW prior \in {n, None}, EditConnector(n, c, v, prior)
  PROVE  IInv'
BY OccurrencePreserves DEF EditConnector

(* A notation is added, removed or changed.                                 *)
LEMMA EditNotationPreserves ==
  ASSUME IInv, NEW n \in DOMAIN node, NEW v \in NodeValues, NEW e \in NotationIds,
         NEW prior \in {n, None}, EditNotation(n, e, v, prior)
  PROVE  IInv'
BY OccurrencePreserves DEF EditNotation

(* A node is added: outputs that led to nowhere may lead to it.             *)
LEMMA AddNodePreserves ==
  ASSUME IInv, NEW n \in NodeIds \ DOMAIN node, NEW v \in NodeValues, AddNode(n, v)
  PROVE  IInv'
<1> DEFINE K == {n}
<1>1. /\ DOMAIN node' = DOMAIN node \union {n} /\ node'[n] = v
      /\ \A m \in DOMAIN node : node'[m] = node[m]
      /\ node' = [m \in DOMAIN node' |-> node'[m]]
  BY DEF AddNode
<1>2. /\ changes' = changes \union {NodeChange(n)} /\ changes' # {}
      /\ cached' = cached /\ project' = project /\ start' = start
  BY DEF AddNode, Report
<1>3. TypeOK'
  <2>1. \A m \in DOMAIN node' : FormedNode(node'[m])
    BY <1>1, ValuesAreFormed DEF IInv, TypeOK
  <2>2. \A c \in {NodeChange(n)} : ChangeIsNamed(c)
    BY DEF ChangeIsNamed
  <2> QED BY <1>1, <1>2, <2>1, <2>2, TypeStaysOK DEF IInv, TypeOK
<1>4. Same(node, node', K) /\ Same(node', node, K)
  BY <1>1 DEF Same
<1>5. NodeChange(n) \in changes' /\ \A m \in K : NodeChange(m) \in changes'
  BY <1>2
<1>6. K \subseteq Priors(changes') /\ K \in SUBSET NodeIds
  BY <1>5 DEF Priors, NodeChange, Change
<1>7. \A d \in StartFindings(start', node') : d \in StartFindings(start, node)
  BY <1>1, <1>2 DEF StartFindings, If
<1>8. \A d \in StartFindings(start, node) :
        d \in StartFindings(start', node') \/ \E m \in K : d.at.entity = NodeOf(m)
  <2> SUFFICES ASSUME NEW d \in StartFindings(start, node), d \notin StartFindings(start', node')
               PROVE  d.at.entity = NodeOf(n)
    OBVIOUS
  <2>1. start = n
    BY <1>1, <1>2 DEF StartFindings, If
  <2>2. d.at = At(NodeOf(start), None, None)
    BY OutsideNodes
  <2> QED BY <2>1, <2>2 DEF At
<1> HIDE DEF K
<1>9. StaleIsCovered'
  BY <1>2, <1>3, <1>4, <1>5, <1>6, <1>8, StaleOfNodes DEF IInv
<1>10. MissingIsCovered'
  BY <1>2, <1>3, <1>4, <1>6, <1>7, MissingStaysOwed DEF IInv
<1> QED BY <1>3, <1>9, <1>10 DEF IInv

(* A node whose outputs are disconnected is formed.                         *)
LEMMA DisconnectedIsFormed ==
  ASSUME NEW m, NEW n, FormedNode(node[m])
  PROVE  FormedNode(Disconnected(m, n))
<1>1. /\ DOMAIN Disconnected(m, n) = DOMAIN node[m]
      /\ Disconnected(m, n).lane = node[m].lane /\ Disconnected(m, n).timeline = node[m].timeline
  BY DEF Disconnected, FormedNode
<1> QED BY <1>1 DEF FormedNode

(* A node is removed with the edges that lead to it, and the start node with*)
(* it.                                                                      *)
LEMMA RemoveNodePreserves ==
  ASSUME IInv, NEW n \in DOMAIN node, RemoveNode(n)
  PROVE  IInv'
<1> DEFINE others == DOMAIN node \ {n}
           cut == {m \in others : \E o \in DOMAIN node[m].output : Disconnects(m, o, n)}
           K == cut \union {n}
<1>1. /\ node' = [m \in others |-> IF m \in cut THEN Disconnected(m, n) ELSE node[m]]
      /\ start' = IF start = n THEN None ELSE start
      /\ changes' = changes \union {NodeChange(m) : m \in K}
      /\ cached' = cached /\ project' = project
  BY DEF RemoveNode, Report
<1>2. K \in SUBSET NodeIds /\ others \subseteq NodeIds
  BY DEF IInv, TypeOK
<1>3. Same(node, node', K) /\ Same(node', node, K)
  BY <1>1 DEF Same
<1>4. n \in K /\ \A m \in K : NodeChange(m) \in changes'
  BY <1>1
<1>5. DOMAIN node' = others /\ node' = [m \in DOMAIN node' |-> node'[m]]
  BY <1>1
<1>6. \A m \in DOMAIN node' : FormedNode(node'[m])
  BY <1>1, DisconnectedIsFormed DEF IInv, TypeOK
<1>7. DOMAIN node' = DOMAIN node \ {n}
  BY <1>5
<1> HIDE DEF others, cut, K
<1>8. K \subseteq Priors(changes') /\ changes' # {}
  <2>1. \A m : NodeChange(m).prior = m
    BY DEF NodeChange, Change
  <2>2. \A c \in changes' : c.prior \in Priors(changes')
    BY DEF Priors
  <2> QED BY <1>4, <2>1, <2>2
<1>9. TypeOK'
  <2>1. \A c \in {NodeChange(m) : m \in K} : ChangeIsNamed(c)
    BY <1>2 DEF ChangeIsNamed
  <2> QED BY <1>1, <1>2, <1>5, <1>6, <2>1, TypeStaysOK DEF IInv
<1>10. \A d \in StartFindings(start', node') : d \in StartFindings(start, node)
  BY <1>1, <1>7 DEF StartFindings, If
<1>11. \A d \in StartFindings(start, node) : d \in StartFindings(start', node')
  BY <1>1, <1>7 DEF StartFindings, If
<1>12. StaleIsCovered'
  BY <1>1, <1>2, <1>3, <1>4, <1>9, <1>11, StaleOfNodes DEF IInv
<1>13. MissingIsCovered'
  BY <1>1, <1>3, <1>8, <1>9, <1>10, MissingStaysOwed DEF IInv
<1> QED BY <1>9, <1>12, <1>13 DEF IInv

(* The project changes, whatever that does to its nodes.                    *)
LEMMA EditProjectPreserves ==
  ASSUME IInv, EditProject
  PROVE  IInv'
<1>1. /\ node' = [n \in DOMAIN node' |-> node'[n]] /\ DOMAIN node' = DOMAIN node
      /\ \A n \in DOMAIN node' : node'[n] \in NodeValues
      /\ changes' = changes \union {ProjectChange}
  BY DEF EditProject, Report
<1>2. TypeOK'
  <2>1. \A n \in DOMAIN node' : FormedNode(node'[n])
    BY <1>1, ValuesAreFormed
  <2> DEFINE made == {ProjectChange}
  <2>2. (\A c \in made : ChangeIsNamed(c)) /\ changes' = changes \union made
    BY <1>1 DEF ChangeIsNamed
  <2>3. DOMAIN node' \subseteq NodeIds
    BY <1>1 DEF IInv, TypeOK
  <2> HIDE DEF made
  <2> QED BY <1>1, <2>1, <2>2, <2>3, TypeStaysOK DEF IInv
<1>3. ProjectChange \in changes' /\ ProjectChange.prior = None
  BY <1>1 DEF ProjectChange, Change
<1> QED BY <1>1, <1>2, <1>3, GlobalPreserves

(* The cache starts as a complete pass.                                     *)
LEMMA InitIInv == Init => IInv
<1> SUFFICES ASSUME Init PROVE IInv
  OBVIOUS
<1>1. PICK present \in SUBSET NodeIds : node \in [present -> NodeValues]
  BY DEF Init
<1>2. TypeOK
  BY <1>1, ValuesAreFormed DEF Init, TypeOK
<1>3. cached = Complete(project, start, node)
  BY DEF Init
<1> QED BY <1>2, <1>3 DEF IInv, StaleIsCovered, MissingIsCovered

(* Every edit and every validation keeps the invariant.                     *)
LEMMA StepIInv == IInv /\ [Next]_vars => IInv'
<1> SUFFICES ASSUME IInv, [Next]_vars PROVE IInv'
  OBVIOUS
<1>1. CASE Validate
  BY <1>1, ValidatePreserves
<1>2. CASE EditProject
  BY <1>2, EditProjectPreserves
<1>3. ASSUME NEW n \in NodeIds \ DOMAIN node, NEW v \in NodeValues, AddNode(n, v)
      PROVE  IInv'
  BY <1>3, AddNodePreserves
<1>4. ASSUME NEW n \in DOMAIN node, RemoveNode(n)
      PROVE  IInv'
  BY <1>4, RemoveNodePreserves
<1>5. ASSUME NEW n \in DOMAIN node, NEW v \in NodeValues, EditNode(n, v)
      PROVE  IInv'
  BY <1>5, EditNodePreserves
<1>6. ASSUME NEW n \in DOMAIN node, NEW v \in NodeValues, NEW c \in ConnectorIds, NEW prior \in {n, None},
             EditConnector(n, c, v, prior)
      PROVE  IInv'
  BY <1>6, EditConnectorPreserves
<1>7. ASSUME NEW n \in DOMAIN node, NEW v \in NodeValues, NEW e \in NotationIds, NEW prior \in {n, None},
             EditNotation(n, e, v, prior)
      PROVE  IInv'
  BY <1>7, EditNotationPreserves
<1>8. CASE UNCHANGED vars
  BY <1>8 DEF vars, IInv, TypeOK, StaleIsCovered, MissingIsCovered, Global
<1> QED BY <1>1, <1>2, <1>3, <1>4, <1>5, <1>6, <1>7, <1>8 DEF Next

(* What the cache of validate_incremental()'s caller and validate_complete()*)
(* disagree on is always owed to a change that is still to be validated.    *)
THEOREM IInvHolds == Spec => []IInv
BY InitIInv, StepIInv, PTL DEF Spec

(* Once no change waits, a cache kept as validation_service.hpp asks holds  *)
(* what validate_complete() would report, except for repaired duplicates and*)
(* entities with a nil id.                                                  *)
THEOREM CacheStaysCurrent == Spec => []CacheIsCurrent
<1>1. IInv => CacheIsCurrent
  <2> SUFFICES ASSUME IInv, changes = {} PROVE CacheIsCurrent
    BY DEF CacheIsCurrent
  <2>1. ~Global /\ Priors(changes) = {}
    BY DEF Global, Priors
  <2>2. \A d : ~WillGo(project, node, changes, d) /\ ~LeadsToChange(node, changes, d)
    BY <2>1 DEF WillGo, LeadsToChange
  <2> QED BY <2>1, <2>2 DEF IInv, StaleIsCovered, MissingIsCovered, CacheIsCurrent
<1> QED BY <1>1, IInvHolds, PTL

(* validate_incremental() returns exactly the current findings for          *)
(* affected_scopes, for every entity that has an id.                        *)
THEOREM ReportsAreExactWhereNamed == Spec => []ReportIsExactWhereNamed
<1>1. TypeOK => ReportIsExactWhereNamed
  <2> SUFFICES ASSUME TypeOK, ~Expands(project, node, changes)
               PROVE  Named(Findings(project, node, changes)) = Named(Due)
    BY DEF ReportIsExactWhereNamed
  <2>1. ASSUME NEW d \in Findings(project, node, changes)
        PROVE  d \in Due
    <3>1. d \in Complete(project, start, node)
      BY NotExpanded, ReportIsSound
    <3>2. d.at \in AffectedScopes(project, node, changes)
      BY ScopeCases
    <3> QED BY <3>1, <3>2 DEF Due
  <2>2. ASSUME NEW d \in Due, Uuid(d.at.entity) # Nil
        PROVE  d \in Findings(project, node, changes)
    <3>1. d \in Complete(project, start, node) /\ d.at \in AffectedScopes(project, node, changes)
      BY DEF Due
    <3>2. d \notin DuplicateFindings(project, node)
      BY NotExpanded
    <3>3. Touched(node, changes, d)
      BY <2>2, <3>1, <3>2, NotExpanded, KeptIsUntouched DEF TypeOK
    <3> QED BY <3>1, <3>3, NotExpanded, ReportIsComplete DEF TypeOK
  <2> QED BY <2>1, <2>2 DEF Named
<1>2. IInv => TypeOK
  BY DEF IInv
<1> QED BY <1>1, <1>2, IInvHolds, PTL
================================================================================
