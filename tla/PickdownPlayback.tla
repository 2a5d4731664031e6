--------------------------- MODULE PickdownPlayback ---------------------------
(* How many pickdown tails can sound at once.  A node plays its measures to *)
(* the boundary; crossing it starts the destination and leaves the node's   *)
(* pickdown sounding as a tail; a vertical jump carries the position over   *)
(* to a node with the same measures (vertical_transition.cpp, over the      *)
(* timelines of node_timeline.cpp and measure_map.cpp).  The oracle of      *)
(* pickdown_bound_oracle.cpp promises the runtime one tail for each node    *)
(* that has a pickdown, whatever the graph.                                 *)
(*                                                                          *)
(* Time passes in one unit of musical position for the active node and all  *)
(* tails: tempo is the same around every cycle, the case the oracle covers. *)
EXTENDS Integers, Sequences, FiniteSets

CONSTANTS
  Nodes,
  None,
  Signatures,      \* time signatures: two of one length may still differ
  MeasureLength,
  Measures,        \* MeasureMap::measures_, as the time signature of each
  Starts,          \* MeasureMap::starts_
  Pickdown,        \* NodeTimeline::pickdown_duration_, 0 for none
  Leads,           \* <<source, destination>> of the sequential outputs
  Verticals,       \* of the vertical outputs
  MaxCrossings     \* bound: boundaries crossed

Last(n) == Len(Measures[n])
\* MeasureMap::total_length(), NodeTimeline::boundary_position()
Boundary(n) == Starts[n][Last(n)] + MeasureLength[Measures[n][Last(n)]]

\* What MeasureMap::create() and NodeTimeline::set_pickdown() accept, and
\* compute_derived_state() leaves.
ASSUME Timelines ==
  /\ IsFiniteSet(Nodes) /\ None \notin Nodes /\ MaxCrossings \in Nat
  /\ MeasureLength \in [Signatures -> Nat \ {0}]
  /\ Leads \subseteq Nodes \X Nodes /\ Verticals \subseteq Nodes \X Nodes
  /\ DOMAIN Measures = Nodes /\ DOMAIN Starts = Nodes
  /\ Pickdown \in [Nodes -> Nat]
  /\ \A n \in Nodes :
       /\ Measures[n] \in Seq(Signatures) /\ Measures[n] # <<>>
       /\ Starts[n] \in [1..Len(Measures[n]) -> Nat]
       /\ Starts[n][1] = 0
       /\ \A i \in 1..Len(Measures[n]) - 1 :
            Starts[n][i + 1] = Starts[n][i] + MeasureLength[Measures[n][i]]
       /\ Pickdown[n] < MeasureLength[Measures[n][Len(Measures[n])]]

VARIABLES
  active,      \* the active node, None once playback has stopped
  position,    \* in the active node's main region
  jumped,      \* a vertical jump happened at this instant
  tails,       \* the tails that sound, each with what is left of it
  crossings    \* how many boundaries were crossed: the number of the last tail

vars == <<active, position, jumped, tails, crossings>>

Tails == [node : Nodes, number : Nat, left : Nat]

\* Node play: everything that sounds is cleared first.
Play(n) ==
  /\ active' = n /\ position' = 0 /\ jumped' = FALSE
  /\ tails' = {}

Init ==
  /\ active \in Nodes /\ position = 0 /\ jumped = FALSE
  /\ tails = {} /\ crossings = 0

-----------------------------------------------------------------------------
(* Vertical transitions *)

\* vertical_regions_compatible()
RegionsCompatible(n, m) == Measures[n] = Measures[m]

\* MeasureMap::measure_index_at()
InMeasure(n, p, i) ==
  /\ i \in 1..Last(n)
  /\ Starts[n][i] <= p /\ p < Starts[n][i] + MeasureLength[Measures[n][i]]
MeasureIndexAt(n, p) == CHOOSE i \in 1..Last(n) : InMeasure(n, p, i)

(* Mutant of MapVerticalPosition: the whole position, not its offset in    *)
(* the measure, is added to the start of the measure.                      *)
MapVerticalPosition_WholePosition(n, m, p) ==
  Starts[m][MeasureIndexAt(n, p)] + p
\* map_vertical_position(), for compatible nodes and a position in a measure.
MapVerticalPosition(n, m, p) ==
  Starts[m][MeasureIndexAt(n, p)] + (p - Starts[n][MeasureIndexAt(n, p)])

\* resolve_vertical_transition(): at most one jump at an instant.
Jump ==
  \E d \in Nodes :
    /\ active # None /\ <<active, d>> \in Verticals
    /\ ~jumped
    /\ RegionsCompatible(active, d)
    /\ position < Boundary(active)
    /\ active' = d /\ jumped' = TRUE
    /\ position' = MapVerticalPosition(active, d, position)
    /\ UNCHANGED <<tails, crossings>>

-----------------------------------------------------------------------------
(* Time, and sequential transitions *)

\* A tail that has nothing left is complete, and retired.
Sounded == {[t EXCEPT !.left = @ - 1] : t \in {u \in tails : u.left > 1}}

Advance ==
  /\ active # None => position < Boundary(active)
  /\ position' = IF active = None THEN position ELSE position + 1
  /\ jumped' = FALSE
  /\ tails' = Sounded
  /\ UNCHANGED <<active, crossings>>

(* Mutant of TailOf: the whole main region is left sounding as the tail.   *)
TailOf_WholeNode(n) == {[node |-> n, number |-> crossings', left |-> Boundary(n) + Pickdown[n]]}
\* The pickdown of the node that is left sounds from the boundary to node_end().
TailOf(n) ==
  IF Pickdown[n] = 0 THEN {} ELSE {[node |-> n, number |-> crossings', left |-> Pickdown[n]]}

\* resolve_sequential_transition() selects a destination, or playback stops.
CrossBoundary ==
  /\ active # None /\ position = Boundary(active)
  /\ crossings < MaxCrossings
  /\ active' \in {d \in Nodes : <<active, d>> \in Leads} \union {None}
  /\ position' = 0
  /\ crossings' = crossings + 1
  /\ tails' = tails \union TailOf(active)
  /\ UNCHANGED jumped

PlayNode == (\E n \in Nodes : Play(n)) /\ UNCHANGED crossings

Next == Jump \/ Advance \/ CrossBoundary \/ PlayNode
Spec == Init /\ [][Next]_vars

-----------------------------------------------------------------------------
(* Properties *)

TypeOK ==
  /\ active \in Nodes \union {None} /\ jumped \in BOOLEAN
  /\ position \in Nat
  /\ active # None => position <= Boundary(active)
  /\ crossings \in Nat
  /\ tails \subseteq Tails
  /\ \A t \in tails : t.left \in 1..Pickdown[t.node] /\ t.number <= crossings

(* A node's tail has ended before the node starts another, on whatever     *)
(* route through sequential and vertical outputs playback comes back to    *)
(* its boundary (the header of the oracle: "concurrency per pickdown-      *)
(* bearing node is at most 1").                                            *)
OneTailPerNode == \A t, u \in tails : t.node = u.node => t = u

\* prove_pickdown_overlap_bound()
PickdownBound == Cardinality({n \in Nodes : Pickdown[n] # 0})

(* The tails that sound at once are within the bound the oracle reports.   *)
TailsWithinBound == Cardinality(tails) <= PickdownBound
=============================================================================
