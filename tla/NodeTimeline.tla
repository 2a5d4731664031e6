----------------------------- MODULE NodeTimeline -----------------------------
(* The timeline of a node (node_timeline.cpp, measure_map.cpp, clef_lane.cpp *)
(* and tempo_lane.cpp) and the commands on its pickdown, clefs and tempo.    *)
(*                                                                           *)
(* A node is a record of measures, each with its time signature; a pickdown, *)
(* 0 for none; a tempo, the value at each point, no point for no lane; clefs,*)
(* for each stave that has a lane the clef at each change; and lanes (see    *)
(* VoiceClipping).  Positions are in units of the smallest duration.  What   *)
(* an operation leaves is a set: empty when it refuses, else of one node.    *)
EXTENDS Integers, Sequences, SequencesExt, FiniteSetsExt, Functions, TLC

CONSTANTS
  MeterLength,  \* the length of a measure of each time signature
  DefaultClef   \* the clef of each stave before any change

ASSUME TimelineConstants == \A m \in DOMAIN MeterLength : MeterLength[m] \in Nat \ {0}

Meters == DOMAIN MeterLength
Count(n) == Len(n.measures)
MeasureLength(n, i) == MeterLength[n.measures[i]]

\* compute_derived_state(): where each measure starts, and where the last ends.
Starts(n) ==
  LET at[i \in 1..Count(n) + 1] == IF i = 1 THEN 0 ELSE at[i - 1] + MeasureLength(n, i - 1) IN at
Boundary(n) == Starts(n)[Count(n) + 1]
NodeEnd(n)  == Boundary(n) + n.pickdown
\* measure_index_at(), for a position in the main region.
MeasureAt(n, p) == CHOOSE i \in 1..Count(n) : Starts(n)[i] <= p /\ p < Starts(n)[i + 1]

ClefAt(n, s, p) ==
  LET changes == IF s \in DOMAIN n.clefs THEN n.clefs[s] ELSE <<>>
      before == {q \in DOMAIN changes : q <= p}
  IN  IF before = {} THEN DefaultClef[s] ELSE changes[Max(before)]

-----------------------------------------------------------------------------
(* Tempo and pickdown *)

\* TempoLane::create(), when there is a lane.
TempoHolds(tempo, end) ==
  DOMAIN tempo # {} => 0 \in DOMAIN tempo /\ \A p \in DOMAIN tempo : p \in 0..end - 1

SetTempo(n, tempo) ==
  IF DOMAIN tempo # {} /\ TempoHolds(tempo, NodeEnd(n)) THEN {[n EXCEPT !.tempo = tempo]} ELSE {}

AddTempoPoint(n, p, value) ==
  IF p \in DOMAIN n.tempo THEN {} ELSE SetTempo(n, n.tempo @@ (p :> value))
RemoveTempoPoint(n, p) ==
  LET rest == Restrict(n.tempo, DOMAIN n.tempo \ {p})
  IN  IF p \notin DOMAIN n.tempo THEN {}
      ELSE IF DOMAIN rest = {} THEN {[n EXCEPT !.tempo = rest]}
      ELSE SetTempo(n, rest)
MoveTempoPoint(n, from, to) ==
  LET rest == Restrict(n.tempo, DOMAIN n.tempo \ {from})
  IN  IF from \notin DOMAIN n.tempo \/ to \in DOMAIN rest THEN {}
      ELSE SetTempo(n, rest @@ (to :> n.tempo[from]))
SetTempoPoint(n, p, value) ==
  IF p \notin DOMAIN n.tempo THEN {} ELSE SetTempo(n, [n.tempo EXCEPT ![p] = value])

WithPickdown(n, d) ==
  IF TempoHolds(n.tempo, Boundary(n) + d) THEN {[n EXCEPT !.pickdown = d]} ELSE {}
SetPickdown(n, d) ==
  IF 0 < d /\ d < MeasureLength(n, Count(n)) THEN WithPickdown(n, d) ELSE {}
ClearPickdown(n) == WithPickdown(n, 0)
\* apply_pickdown_snapshot()
ApplyPickdown(n, d) == IF d = 0 THEN ClearPickdown(n) ELSE SetPickdown(n, d)

-----------------------------------------------------------------------------
(* Clefs *)

WithClefs(n, s, changes) == [n EXCEPT !.clefs[s] = changes]
AddClefChange(n, s, p, clef) ==
  IF s \notin DOMAIN n.clefs THEN {}
  ELSE IF p < 0 \/ p \in DOMAIN n.clefs[s] THEN {}
  ELSE {WithClefs(n, s, n.clefs[s] @@ (p :> clef))}
RemoveClefChange(n, s, p) ==
  IF s \notin DOMAIN n.clefs THEN {}
  ELSE IF p \notin DOMAIN n.clefs[s] THEN {}
  ELSE {WithClefs(n, s, Restrict(n.clefs[s], DOMAIN n.clefs[s] \ {p}))}
MoveClefChange(n, s, from, to) ==
  LET rest == Restrict(n.clefs[s], DOMAIN n.clefs[s] \ {from})
  IN  IF s \notin DOMAIN n.clefs THEN {}
      ELSE IF to < 0 \/ from \notin DOMAIN n.clefs[s] \/ to \in DOMAIN rest THEN {}
      ELSE {WithClefs(n, s, rest @@ (to :> n.clefs[s][from]))}

-----------------------------------------------------------------------------
(* Measures *)

\* An edit of the measures puts [start, old) to [start, new) in time: `removed'
\* is where what follows the edit began, `shift' how far it moves.
Edit(n, start, removed, shift) ==
  [start |-> start, removed |-> removed, shift |-> shift,
   oldEnd |-> NodeEnd(n), newEnd |-> NodeEnd(n) + shift]

\* The changes of a lane after the edit: those in [start, removed) are gone.
Carried(changes, edit) ==
  LET later == {p \in DOMAIN changes : p >= edit.removed}
      kept == {p \in DOMAIN changes : p < edit.start}
  IN  [p \in kept \union {q + edit.shift : q \in later} |->
        IF p \in kept THEN changes[p] ELSE changes[p - edit.shift]]

\* transform_absolute_lanes(): the clefs, then the pickdown, then the tempo,
\* which keeps a point at the origin.
TransformLanes(n, edit) ==
  LET clefs == [s \in DOMAIN n.clefs |-> Carried(n.clefs[s], edit)]
      tempo == Carried(n.tempo, edit)
      Moved == [n EXCEPT !.clefs = clefs]
  IN  IF n.pickdown >= MeasureLength(n, Count(n)) THEN {}
      ELSE IF DOMAIN n.tempo = {} THEN {Moved}
      ELSE SetTempo(Moved, IF 0 \in DOMAIN tempo THEN tempo ELSE tempo @@ (0 :> n.tempo[0]))

InsertMeasureEdit(n, i, meter) == Edit(n, Starts(n)[i], Starts(n)[i], MeterLength[meter])
RemoveMeasureEdit(n, i) == Edit(n, Starts(n)[i], Starts(n)[i + 1], -MeasureLength(n, i))
TimeSignatureEdit(n, i, meter) ==
  LET old == Starts(n)[i + 1]  new == Starts(n)[i] + MeterLength[meter]
  IN  Edit(n, Min({old, new}), old, new - old)

WithMeasures(n, measures, edit) ==
  IF measures = <<>> THEN {} ELSE TransformLanes([n EXCEPT !.measures = measures], edit)
InsertMeasure(n, i, meter) ==
  WithMeasures(n, InsertAt(n.measures, i, meter), InsertMeasureEdit(n, i, meter))
RemoveMeasure(n, i) == WithMeasures(n, RemoveAt(n.measures, i), RemoveMeasureEdit(n, i))
\* A signature of the same length moves nothing, and nothing is looked at again.
SetMeasureTimeSignature(n, i, meter) ==
  IF MeterLength[meter] = MeasureLength(n, i) THEN {[n EXCEPT !.measures[i] = meter]}
  ELSE WithMeasures(n, ReplaceAt(n.measures, i, meter), TimeSignatureEdit(n, i, meter))
=============================================================================
