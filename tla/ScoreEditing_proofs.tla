------------------------- MODULE ScoreEditing_proofs -------------------------
(* Undo and redo of the commands on one node, for every node, layout and    *)
(* selection: what a command captures is all that it changes.               *)
(*                                                                          *)
(* Every command leaves a node that differs from the one before in its      *)
(* scope alone, so that putting the scope of one snapshot into the other    *)
(* gives the first again; and the snapshots of the history are one chain,   *)
(* which ends and begins at the node there is.                              *)
EXTENDS ScoreEditing, TLAPS

-----------------------------------------------------------------------------
(* Nodes                                                                    *)

IsClefs(clefs) == clefs = [s \in DOMAIN clefs |-> clefs[s]]
IsLanes(lanes) == /\ lanes = [t \in Tracks |-> lanes[t]]
                  /\ \A t \in Tracks : IsLane(lanes[t], t)

(* A node is given by its fields.                                           *)
LEMMA NodesEqual ==
  ASSUME NEW n, NEW m, IsNode(n), IsNode(m), n.measures = m.measures, n.pickdown = m.pickdown,
         n.tempo = m.tempo, n.clefs = m.clefs, n.lanes = m.lanes
  PROVE  n = m
BY DEF IsNode

(* Giving a node another measure map, pickdown or tempo leaves it a node.   *)
LEMMA ScalarChange ==
  ASSUME NEW n, IsNode(n), NEW x
  PROVE  /\ IsNode([n EXCEPT !.measures = x])
         /\ IsNode([n EXCEPT !.pickdown = x])
         /\ IsNode([n EXCEPT !.tempo = x])
<1> DEFINE M == [n EXCEPT !.measures = x]
           P == [n EXCEPT !.pickdown = x]
           T == [n EXCEPT !.tempo = x]
<1>1. IsNode(M)
  <2>1. M.clefs = n.clefs /\ M.lanes = n.lanes
    BY DEF IsNode
  <2>2. M = [measures |-> M.measures, pickdown |-> M.pickdown, tempo |-> M.tempo,
             clefs |-> M.clefs, lanes |-> M.lanes]
    BY DEF IsNode
  <2> QED BY <2>1, <2>2 DEF IsNode
<1>2. IsNode(P)
  <2>1. P.clefs = n.clefs /\ P.lanes = n.lanes
    BY DEF IsNode
  <2>2. P = [measures |-> P.measures, pickdown |-> P.pickdown, tempo |-> P.tempo,
             clefs |-> P.clefs, lanes |-> P.lanes]
    BY DEF IsNode
  <2> QED BY <2>1, <2>2 DEF IsNode
<1>3. IsNode(T)
  <2>1. T.clefs = n.clefs /\ T.lanes = n.lanes
    BY DEF IsNode
  <2>2. T = [measures |-> T.measures, pickdown |-> T.pickdown, tempo |-> T.tempo,
             clefs |-> T.clefs, lanes |-> T.lanes]
    BY DEF IsNode
  <2> QED BY <2>1, <2>2 DEF IsNode
<1> QED BY <1>1, <1>2, <1>3

(* So does giving it other clef lanes.                                      *)
LEMMA ClefChange ==
  ASSUME NEW n, IsNode(n), NEW clefs, IsClefs(clefs)
  PROVE  LET m == [n EXCEPT !.clefs = clefs]
         IN  /\ IsNode(m) /\ m.clefs = clefs /\ m.measures = n.measures /\ m.pickdown = n.pickdown
             /\ m.tempo = n.tempo /\ m.lanes = n.lanes
<1> DEFINE m == [n EXCEPT !.clefs = clefs]
<1>1. m = [measures |-> n.measures, pickdown |-> n.pickdown, tempo |-> n.tempo,
           clefs |-> clefs, lanes |-> n.lanes]
  BY DEF IsNode
<1>2. IsNode(m)
  BY <1>1 DEF IsNode, IsClefs
<1> QED BY <1>1, <1>2

(* A node given other lanes is a node.                                      *)
LEMMA LaneChange ==
  ASSUME NEW n, IsNode(n), NEW lanes, IsLanes(lanes)
  PROVE  LET m == [n EXCEPT !.lanes = lanes]
         IN  /\ IsNode(m) /\ m.clefs = n.clefs /\ m.measures = n.measures /\ m.pickdown = n.pickdown
             /\ m.tempo = n.tempo /\ m.lanes = lanes
<1> DEFINE m == [n EXCEPT !.lanes = lanes]
<1>1. m = [measures |-> n.measures, pickdown |-> n.pickdown, tempo |-> n.tempo,
           clefs |-> n.clefs, lanes |-> lanes]
  BY DEF IsNode
<1>2. IsNode(m)
  BY <1>1 DEF IsNode, IsLanes
<1> QED BY <1>1, <1>2

(* A stave belongs to one track, and the lane of a track has its staves.    *)
LEMMA TrackOfStave ==
  ASSUME NEW t \in Tracks, NEW s \in Range(Layout[t])
  PROVE  TrackOf(s) = t
BY SelectionConstants DEF TrackOf, Tracks

(* Every stave is in the layout of the track that is found for it.          *)
LEMMA TrackOfAnyStave ==
  ASSUME NEW s \in Staves
  PROVE  TrackOf(s) \in Tracks /\ s \in Range(Layout[TrackOf(s)])
BY DEF TrackOf, Staves

-----------------------------------------------------------------------------
(* Scopes                                                                   *)

(* Two nodes that differ in the scope alone.                                *)
SameBut(scope, n, m) ==
  /\ n.measures = m.measures /\ n.pickdown = m.pickdown /\ n.tempo = m.tempo
  /\ \A t \in Tracks \ scope.tracks : n.lanes[t] = m.lanes[t]
  /\ \A s : s \notin scope.staves => ClefsOf(n, s) = ClefsOf(m, s)

Restorable(scope, before, after) ==
  /\ Restored(scope, after, after, before, FALSE) \subseteq {before}
  /\ Restored(scope, before, before, after, TRUE) \subseteq {after}

(* Putting back what differs gives the node that it is taken from.          *)
LEMMA PutBack ==
  ASSUME NEW scope, NEW n, NEW m, IsNode(n), IsNode(m), SameBut(scope, n, m)
  PROVE  WithScope(scope, n, m) = m
<1> DEFINE lanes == [t \in DOMAIN n.lanes |-> IF t \in scope.tracks THEN m.lanes[t] ELSE n.lanes[t]]
           clefs == [s \in (DOMAIN m.clefs \intersect scope.staves) \union (DOMAIN n.clefs \ scope.staves) |->
                      IF s \in scope.staves THEN m.clefs[s] ELSE n.clefs[s]]
<1>1. lanes = m.lanes
  <2>1. DOMAIN n.lanes = Tracks /\ m.lanes = [t \in Tracks |-> m.lanes[t]]
    BY DEF IsNode
  <2> QED BY <2>1 DEF SameBut
<1>2. clefs = m.clefs
  <2>1. \A s : s \notin scope.staves => /\ s \in DOMAIN n.clefs <=> s \in DOMAIN m.clefs
                                        /\ s \in DOMAIN m.clefs => n.clefs[s] = m.clefs[s]
    BY DEF SameBut, ClefsOf
  <2>2. m.clefs = [s \in DOMAIN m.clefs |-> m.clefs[s]]
    BY DEF IsNode
  <2> QED BY <2>1, <2>2
<1>3. WithScope(scope, n, m) = [n EXCEPT !.lanes = lanes, !.clefs = clefs]
  BY DEF WithScope, IsNode
<1> HIDE DEF lanes, clefs
<1> QED BY <1>1, <1>2, <1>3 DEF IsNode, SameBut

(* So a scope of lanes and clefs can be put back and put again.             *)
LEMMA LanesRestorable ==
  ASSUME NEW scope, scope.kind \in {"clefs", "pedals", "lanes"},
         NEW before, NEW after, IsNode(before), IsNode(after), SameBut(scope, before, after)
  PROVE  Restorable(scope, before, after)
<1>1. WithScope(scope, after, before) = before /\ WithScope(scope, before, after) = after
  BY PutBack DEF SameBut
<1>2. ASSUME NEW n, NEW from, NEW to, NEW redoing \in BOOLEAN
      PROVE  Restored(scope, n, from, to, redoing) \subseteq {WithScope(scope, n, to)}
  BY DEF Restored
<1> QED BY <1>1, <1>2 DEF Restorable

(* The whole node is put back as it was.                                    *)
LEMMA NodeRestorable ==
  ASSUME NEW before, NEW after
  PROVE  Restorable(OfNode, before, after)
<1>1. OfNode.kind = "node"
  BY DEF OfNode, Nothing
<1> QED BY <1>1 DEF Restorable, Restored

(* The commands on the tempo keep the whole map, which undo puts back in    *)
(* one go.                                                                  *)
LEMMA TempoRestorable ==
  ASSUME NEW n, IsNode(n), NEW tempo
  PROVE  LET m == [n EXCEPT !.tempo = tempo] IN IsNode(m) /\ Restorable(OfTempo, n, m)
<1> DEFINE m == [n EXCEPT !.tempo = tempo]
<1>1. OfTempo.kind = "tempo"
  BY DEF OfTempo, Nothing
<1>2. IsNode(m)
  BY ScalarChange
<1>3. m = [measures |-> n.measures, pickdown |-> n.pickdown, tempo |-> tempo,
           clefs |-> n.clefs, lanes |-> n.lanes]
  BY DEF IsNode
<1>5. m.tempo = tempo
  BY <1>3
<1>6. [m EXCEPT !.tempo = n.tempo] = n
  <2> HIDE DEF m
  <2>1. [m EXCEPT !.tempo = n.tempo] = [measures |-> n.measures, pickdown |-> n.pickdown,
           tempo |-> n.tempo, clefs |-> n.clefs, lanes |-> n.lanes]
    BY <1>3
  <2> QED BY <2>1 DEF IsNode
<1>4. ASSUME NEW x, NEW from, NEW to, NEW redoing \in BOOLEAN
      PROVE  Restored(OfTempo, x, from, to, redoing) \subseteq {[x EXCEPT !.tempo = to.tempo]}
  BY <1>1 DEF Restored, SetTempo
<1> QED BY <1>2, <1>4, <1>5, <1>6 DEF Restorable

(* A pickdown is put back as it was, set or cleared.                        *)
LEMMA PickdownRestorable ==
  ASSUME NEW n, IsNode(n), NEW d
  PROVE  LET m == [n EXCEPT !.pickdown = d] IN IsNode(m) /\ Restorable(OfPickdown, n, m)
<1> DEFINE m == [n EXCEPT !.pickdown = d]
<1>1. OfPickdown.kind = "pickdown"
  BY DEF OfPickdown, Nothing
<1>2. IsNode(m)
  BY ScalarChange
<1>3. m = [measures |-> n.measures, pickdown |-> d, tempo |-> n.tempo,
           clefs |-> n.clefs, lanes |-> n.lanes]
  BY DEF IsNode
<1>5. m.pickdown = d
  BY <1>3
<1>6. [m EXCEPT !.pickdown = n.pickdown] = n
  <2> HIDE DEF m
  <2>1. [m EXCEPT !.pickdown = n.pickdown] = [measures |-> n.measures, pickdown |-> n.pickdown,
           tempo |-> n.tempo, clefs |-> n.clefs, lanes |-> n.lanes]
    BY <1>3
  <2> QED BY <2>1 DEF IsNode
<1>4. ASSUME NEW x, NEW from, NEW to, NEW redoing \in BOOLEAN
      PROVE  Restored(OfPickdown, x, from, to, redoing) \subseteq {[x EXCEPT !.pickdown = to.pickdown]}
  BY <1>1 DEF Restored, ApplyPickdown, ClearPickdown, SetPickdown, WithPickdown
<1> QED BY <1>2, <1>4, <1>5, <1>6 DEF Restorable

(* A clef command touches the clef lane of its stave and no other.          *)
LEMMA ClefsRestorable ==
  ASSUME NEW n, IsNode(n), NEW s, NEW changes
  PROVE  LET m == WithClefs(n, s, changes) IN IsNode(m) /\ Restorable(OfClefs(s), n, m)
<1> DEFINE clefs == [n.clefs EXCEPT ![s] = changes]
           m == [n EXCEPT !.clefs = clefs]
<1>1. IsClefs(clefs) /\ \A x : x # s => ClefsOf([n EXCEPT !.clefs = clefs], x) = ClefsOf(n, x)
  <2>1. IsClefs(clefs)
    BY DEF IsClefs
  <2>2. m.clefs = clefs
    BY DEF IsNode
  <2>3. \A x : x # s => /\ x \in DOMAIN clefs <=> x \in DOMAIN n.clefs
                        /\ x \in DOMAIN n.clefs => clefs[x] = n.clefs[x]
    OBVIOUS
  <2> HIDE DEF clefs, m
  <2> QED BY <2>1, <2>2, <2>3 DEF ClefsOf, m
<1>2. m = WithClefs(n, s, changes)
  BY DEF WithClefs, IsNode
<1>3. /\ IsNode(m) /\ m.clefs = clefs /\ m.measures = n.measures /\ m.pickdown = n.pickdown
      /\ m.tempo = n.tempo /\ m.lanes = n.lanes
  <2> HIDE DEF clefs
  <2> QED BY <1>1, ClefChange
<1>4. OfClefs(s).kind = "clefs" /\ OfClefs(s).staves = {s} /\ OfClefs(s).tracks = {}
  BY DEF OfClefs, Nothing
<1>5. SameBut(OfClefs(s), n, m)
  BY <1>1, <1>3, <1>4 DEF SameBut
<1> HIDE DEF m
<1> QED BY <1>2, <1>3, <1>4, <1>5, LanesRestorable

LanesWith(lanes, t, s, x) == [lanes EXCEPT ![t] = [lanes[t] EXCEPT ![s] = x]]

(* Another stave in a lane: what the lanes are, and that the old stave in   *)
(* its place gives the old lanes.                                           *)
LEMMA StaveChange ==
  ASSUME NEW n, IsNode(n), NEW t \in Tracks, NEW s \in DOMAIN n.lanes[t], NEW x, IsStave(x)
  PROVE  LET lanes == LanesWith(n.lanes, t, s, x)
         IN  /\ IsLanes(lanes) /\ lanes[t][s] = x
             /\ \A u \in Tracks \ {t} : lanes[u] = n.lanes[u]
             /\ LanesWith(lanes, t, s, n.lanes[t][s]) = n.lanes
<1> DEFINE lane == [n.lanes[t] EXCEPT ![s] = x]
           lanes == [n.lanes EXCEPT ![t] = lane]
<1>1. /\ n.lanes = [u \in Tracks |-> n.lanes[u]]
      /\ \A u \in Tracks : IsLane(n.lanes[u], u)
  BY DEF IsNode
<1>2. /\ lane = [y \in DOMAIN n.lanes[t] |-> IF y = s THEN x ELSE n.lanes[t][y]]
      /\ IsLane(lane, t) /\ lane[s] = x
  BY <1>1 DEF IsLane
<1>3. [lane EXCEPT ![s] = n.lanes[t][s]] = n.lanes[t]
  BY <1>1 DEF IsLane
<1> HIDE DEF lane
<1>4. lanes = [u \in Tracks |-> IF u = t THEN lane ELSE n.lanes[u]]
  BY <1>1
<1>5. IsLanes(lanes) /\ lanes[t] = lane /\ \A u \in Tracks \ {t} : lanes[u] = n.lanes[u]
  BY <1>1, <1>2, <1>4 DEF IsLanes
<1>6. [lanes EXCEPT ![t] = n.lanes[t]] = n.lanes
  BY <1>1, <1>4
<1> HIDE DEF lanes
<1>7. LanesWith(lanes, t, s, n.lanes[t][s]) = n.lanes
  BY <1>3, <1>5, <1>6 DEF LanesWith
<1>8. lanes = LanesWith(n.lanes, t, s, x)
  BY DEF lanes, lane, LanesWith
<1> QED BY <1>2, <1>5, <1>7, <1>8

(* A pedal command touches the spans of its stave, and its scope is the     *)
(* whole lane of the track.                                                 *)
LEMMA PedalsRestorable ==
  ASSUME NEW n, IsNode(n), NEW s \in Staves, s \in DOMAIN n.lanes[TrackOf(s)], NEW spans
  PROVE  LET m == [n EXCEPT !.lanes[TrackOf(s)][s].pedals = spans]
         IN  IsNode(m) /\ Restorable(OfPedals(s), n, m)
<1> DEFINE t == TrackOf(s)
           x == [n.lanes[t][s] EXCEPT !.pedals = spans]
           lanes == LanesWith(n.lanes, t, s, x)
           m == [n EXCEPT !.lanes = lanes]
<1>1. t \in Tracks /\ s \in DOMAIN n.lanes[t]
  BY TrackOfAnyStave
<1> HIDE DEF t
<1>2. IsStave(x)
  <2>1. IsStave(n.lanes[t][s])
    BY <1>1 DEF IsNode, IsLane, t
  <2>2. x = [voices |-> n.lanes[t][s].voices, pedals |-> spans]
    BY <2>1 DEF IsStave
  <2> QED BY <2>1, <2>2 DEF IsStave
<1> HIDE DEF x
<1>3. IsLanes(lanes) /\ \A u \in Tracks \ {t} : lanes[u] = n.lanes[u]
  BY <1>1, <1>2, StaveChange
<1> HIDE DEF lanes
<1>4. /\ IsNode(m) /\ m.clefs = n.clefs /\ m.measures = n.measures /\ m.pickdown = n.pickdown
      /\ m.tempo = n.tempo /\ m.lanes = lanes
  BY <1>3, LaneChange
<1>5. OfPedals(s).kind = "pedals" /\ OfPedals(s).staves = {} /\ OfPedals(s).tracks = {t}
  BY DEF OfPedals, Nothing, t
<1> HIDE DEF m
<1>6. SameBut(OfPedals(s), n, m)
  BY <1>3, <1>4, <1>5 DEF SameBut, ClefsOf
<1>7. m = [n EXCEPT !.lanes[TrackOf(s)][s].pedals = spans]
  BY DEF m, lanes, x, t, LanesWith
<1> QED BY <1>4, <1>5, <1>6, <1>7, LanesRestorable

(* Another voice in a stave, and the old one in its place again.            *)
LEMMA VoiceRestorable ==
  ASSUME NEW n, IsNode(n), NEW s \in Staves, s \in DOMAIN n.lanes[TrackOf(s)],
         NEW v \in Voices, NEW content
  PROVE  LET m == [n EXCEPT !.lanes[TrackOf(s)][s].voices[v] = content]
         IN  IsNode(m) /\ Restorable(OfVoice(s, v), n, m)
<1> DEFINE t == TrackOf(s)
           old == n.lanes[t][s]
           new == [old EXCEPT !.voices = [old.voices EXCEPT ![v] = content]]
           lanes == LanesWith(n.lanes, t, s, new)
           m == [n EXCEPT !.lanes = lanes]
           Put(y, c) == [y EXCEPT !.lanes[t][s].voices[v] = c]
           Inner(y, c) == [y EXCEPT !.voices = [y.voices EXCEPT ![v] = c]]
<1>1. t \in Tracks /\ s \in DOMAIN n.lanes[t]
  BY TrackOfAnyStave
<1> HIDE DEF t
<1>2. IsStave(old)
  BY <1>1 DEF IsNode, IsLane, t
<1> HIDE DEF old
<1>3. /\ IsStave(new) /\ new.voices[v] = content
      /\ Inner(new, old.voices[v]) = old
  <2>1. /\ old = [voices |-> old.voices, pedals |-> old.pedals]
        /\ old.voices = [w \in Voices |-> old.voices[w]]
    BY <1>2 DEF IsStave
  <2>2. new = [voices |-> [old.voices EXCEPT ![v] = content], pedals |-> old.pedals]
    BY <2>1
  <2>3. new.voices = [w \in Voices |-> IF w = v THEN content ELSE old.voices[w]]
    BY <2>1, <2>2
  <2>4. [new.voices EXCEPT ![v] = old.voices[v]] = old.voices
    BY <2>1, <2>3
  <2> HIDE DEF new
  <2>5. Inner(new, old.voices[v]) = [voices |-> [new.voices EXCEPT ![v] = old.voices[v]], pedals |-> old.pedals]
    BY <2>2
  <2> QED BY <2>1, <2>2, <2>3, <2>4, <2>5 DEF IsStave
<1> HIDE DEF new
<1>4. /\ IsLanes(lanes) /\ lanes[t][s] = new
      /\ LanesWith(lanes, t, s, old) = n.lanes
  BY <1>1, <1>3, StaveChange DEF old
<1> HIDE DEF lanes
<1>5. IsNode(m) /\ m.lanes = lanes
  BY <1>4, LaneChange
<1>6. [m EXCEPT !.lanes = n.lanes] = n
  <2>1. m = [measures |-> n.measures, pickdown |-> n.pickdown, tempo |-> n.tempo,
             clefs |-> n.clefs, lanes |-> lanes]
    BY DEF IsNode
  <2> HIDE DEF m
  <2>2. [m EXCEPT !.lanes = n.lanes] = [measures |-> n.measures, pickdown |-> n.pickdown,
             tempo |-> n.tempo, clefs |-> n.clefs, lanes |-> n.lanes]
    BY <2>1
  <2> QED BY <2>2 DEF IsNode
<1>7. ASSUME NEW y, NEW c
      PROVE  Put(y, c) = [y EXCEPT !.lanes = LanesWith(y.lanes, t, s, Inner(y.lanes[t][s], c))]
  BY DEF LanesWith
<1>8. Put(n, content) = m
  BY <1>7 DEF m, lanes, new, old
<1>9. Put(m, old.voices[v]) = n
  <2> HIDE DEF m, Put
  <2>1. Put(m, old.voices[v]) = [m EXCEPT !.lanes = LanesWith(lanes, t, s, Inner(new, old.voices[v]))]
    BY <1>4, <1>5, <1>7
  <2> QED BY <1>3, <1>4, <1>6, <2>1
<1>10. VoiceAt(m, s, v) = content /\ VoiceAt(n, s, v) = old.voices[v]
  BY <1>3, <1>4, <1>5 DEF VoiceAt, t, old
<1>11. ASSUME NEW y, NEW from, NEW to, NEW redoing \in BOOLEAN
       PROVE  Restored(OfVoice(s, v), y, from, to, redoing) \subseteq {Put(y, VoiceAt(to, s, v))}
  <2>1. OfVoice(s, v).kind = "voice" /\ OfVoice(s, v).voices = {<<s, v>>}
    BY DEF OfVoice, Nothing
  <2>2. (CHOOSE x \in OfVoice(s, v).voices : TRUE) = <<s, v>>
    BY <2>1
  <2> DEFINE scope == OfVoice(s, v)
             voice == CHOOSE x \in scope.voices : TRUE
  <2>3. voice[1] = s /\ voice[2] = v /\ scope.kind = "voice"
    BY <2>1, <2>2
  <2> HIDE DEF scope
  <2>4. Restored(scope, y, from, to, redoing)
          \subseteq {[y EXCEPT !.lanes[TrackOf(voice[1])][voice[1]].voices[voice[2]] =
                       VoiceAt(to, voice[1], voice[2])]}
    BY <2>3 DEF Restored
  <2> HIDE DEF voice
  <2>5. [y EXCEPT !.lanes[TrackOf(voice[1])][voice[1]].voices[voice[2]] = VoiceAt(to, voice[1], voice[2])]
          = Put(y, VoiceAt(to, s, v))
    BY <2>3 DEF t
  <2> QED BY <2>4, <2>5 DEF scope
<1> HIDE DEF m, Put
<1>12. Restorable(OfVoice(s, v), n, m)
  BY <1>8, <1>9, <1>10, <1>11, ZenonT(30) DEF Restorable
<1> QED BY <1>5, <1>8, <1>12 DEF Put, t

-----------------------------------------------------------------------------
(* What the commands leave                                                  *)

(* An edit of the timeline leaves a node, with the lanes it had.            *)
LEMMA TransformLanesNode ==
  ASSUME NEW n, IsNode(n), NEW edit, NEW m \in TransformLanes(n, edit)
  PROVE  IsNode(m)
<1> DEFINE clefs == [s \in DOMAIN n.clefs |-> Carried(n.clefs[s], edit)]
           moved == [n EXCEPT !.clefs = clefs]
<1>1. IsClefs(clefs)
  BY DEF IsClefs
<1> HIDE DEF clefs
<1>2. IsNode(moved)
  BY <1>1, ClefChange
<1> HIDE DEF moved
<1>3. m = moved \/ \E tempo : m \in SetTempo(moved, tempo)
  BY DEF TransformLanes, moved, clefs
<1>4. m = moved \/ \E tempo : m = [moved EXCEPT !.tempo = tempo]
  BY <1>3 DEF SetTempo
<1>5. ASSUME NEW tempo PROVE IsNode([moved EXCEPT !.tempo = tempo])
  BY <1>2, ScalarChange
<1> QED BY <1>2, <1>4, <1>5

(* Inserting, removing or resizing a measure leaves a node, whether or not  *)
(* the lanes follow it.                                                     *)
LEMMA TimelineNode ==
  ASSUME NEW n, IsNode(n), NEW i, NEW meter, NEW m,
         m \in InsertMeasure(n, i, meter) \union RemoveMeasure(n, i) \union SetMeasureTimeSignature(n, i, meter)
  PROVE  IsNode(m)
<1>1. ASSUME NEW measures, NEW edit, m \in WithMeasures(n, measures, edit) PROVE IsNode(m)
  <2> DEFINE k == [n EXCEPT !.measures = measures]
  <2>1. IsNode(k)
    BY ScalarChange
  <2>2. m \in TransformLanes(k, edit)
    BY <1>1 DEF WithMeasures
  <2> HIDE DEF k
  <2> QED BY <2>1, <2>2, TransformLanesNode
<1>2. CASE m \in InsertMeasure(n, i, meter)
  BY <1>1, <1>2 DEF InsertMeasure
<1>3. CASE m \in RemoveMeasure(n, i)
  BY <1>1, <1>3 DEF RemoveMeasure
<1>4. CASE m \in SetMeasureTimeSignature(n, i, meter)
  <2>1. CASE MeterLength[meter] = MeasureLength(n, i)
    <3>1. m = [n EXCEPT !.measures[i] = meter]
      BY <1>4, <2>1 DEF SetMeasureTimeSignature
    <3> DEFINE measures == [n.measures EXCEPT ![i] = meter]
    <3>2. m = [n EXCEPT !.measures = measures]
      BY <3>1
    <3> HIDE DEF measures
    <3> QED BY <3>2, ScalarChange
  <2>2. CASE MeterLength[meter] # MeasureLength(n, i)
    <3>1. m \in WithMeasures(n, ReplaceAt(n.measures, i, meter), TimeSignatureEdit(n, i, meter))
      BY <1>4, <2>2 DEF SetMeasureTimeSignature
    <3> QED BY <1>1, <3>1
  <2> QED BY <2>1, <2>2
<1> QED BY <1>2, <1>3, <1>4

(* The staves added to the lanes are empty ones.                            *)
LEMMA EnsuredLanes ==
  ASSUME NEW lanes, IsLanes(lanes), NEW staves
  PROVE  /\ IsLanes(Ensured(lanes, staves))
         /\ \A t \in Tracks : staves \intersect Range(Layout[t]) = {} => Ensured(lanes, staves)[t] = lanes[t]
<1>1. IsStave(EmptyStave(Voices))
  BY DEF IsStave, EmptyStave
<1> DEFINE Lane(t) == [s \in DOMAIN lanes[t] \union (staves \intersect Range(Layout[t])) |->
                        IF s \in DOMAIN lanes[t] THEN lanes[t][s] ELSE EmptyStave(Voices)]
<1>2. ASSUME NEW t \in Tracks PROVE IsLane(Lane(t), t)
  BY <1>1 DEF IsLane, IsLanes
<1>3. ASSUME NEW t \in Tracks, staves \intersect Range(Layout[t]) = {} PROVE Lane(t) = lanes[t]
  BY <1>3 DEF IsLane, IsLanes
<1>4. Ensured(lanes, staves) = [t \in Tracks |-> Lane(t)]
  BY DEF Ensured, IsLanes
<1> HIDE DEF Lane
<1> QED BY <1>2, <1>3, <1>4 DEF IsLanes

(* So does carrying every lane over such an edit, with the staves that a    *)
(* lane lacked.                                                             *)
LEMMA ProjectLanesNode ==
  ASSUME NEW n, IsNode(n), NEW edit, NEW m \in TransformProjectLanes(n, edit)
  PROVE  IsNode(m)
<1> DEFINE lanes == [t \in Tracks |-> Ensured(n.lanes, Range(Layout[t]))[t]]
           moved == [t \in Tracks |-> [s \in DOMAIN lanes[t] |-> TransformStave(lanes[t][s], edit)]]
<1>1. IsLanes(n.lanes)
  BY DEF IsNode, IsLanes
<1>2. \A t \in Tracks : IsLane(lanes[t], t)
  BY <1>1, EnsuredLanes DEF IsLanes
<1> HIDE DEF lanes
<1>3. \A x : IsStave(TransformStave(x, edit))
  BY DEF IsStave, TransformStave
<1>4. \A t \in Tracks : IsLane(moved[t], t)
  BY <1>2, <1>3 DEF IsLane
<1>5. IsLanes(moved)
  BY <1>4 DEF IsLanes
<1>6. m = [n EXCEPT !.lanes = moved]
  BY DEF TransformProjectLanes, moved, lanes
<1> HIDE DEF moved
<1> QED BY <1>5, <1>6, LaneChange

(* A cut and a paste change the lanes of the tracks whose staves they name. *)
LEMMA CutRestorable ==
  ASSUME NEW n, IsNode(n), NEW sel, NEW m \in Cut(n, sel)
  PROVE  IsNode(m) /\ Restorable(OfLanes(SelectedStaves(sel), {}), n, m)
<1> DEFINE from == RangeStart(n, sel)
           to == RangeEnd(n, sel)
           staves == SelectedStaves(sel)
           Rebuilt(s, v) ==
             UNION {RebuildRange(VoiceAt(n, s, v), from, to, NodeEnd(n), part) :
                      part \in Silence(VoiceAt(n, s, v), to - from)}
           CutStave(s, stave) ==
             [voices |-> [v \in Voices |-> IF <<s, v>> \in SelectedVoices(sel) THEN The(Rebuilt(s, v))
                                           ELSE stave.voices[v]],
              pedals |-> ClippedPedals(stave.pedals, from, to)]
           lanes == [t \in DOMAIN n.lanes |-> [s \in DOMAIN n.lanes[t] |->
                      IF s \in staves THEN CutStave(s, n.lanes[t][s]) ELSE n.lanes[t][s]]]
           scope == OfLanes(staves, {})
<1>1. m = [n EXCEPT !.lanes = lanes]
  BY DEF Cut
<1>2. \A s, x : IsStave(CutStave(s, x))
  BY DEF IsStave
<1> HIDE DEF CutStave
<1>3. n.lanes = [t \in Tracks |-> n.lanes[t]] /\ \A t \in Tracks : IsLane(n.lanes[t], t)
  BY DEF IsNode
<1>4. \A t \in Tracks : IsLane(lanes[t], t)
  BY <1>2, <1>3 DEF IsLane
<1>5. IsLanes(lanes)
  BY <1>3, <1>4 DEF IsLanes
<1>6. scope.kind = "lanes" /\ scope.staves = {} /\ scope.tracks = {TrackOf(s) : s \in staves}
  BY DEF OfLanes, Nothing
<1>7. ASSUME NEW t \in Tracks \ scope.tracks PROVE n.lanes[t] = lanes[t]
  <2>1. ASSUME NEW s \in DOMAIN n.lanes[t], s \in staves PROVE FALSE
    <3>1. TrackOf(s) = t
      BY <1>3, TrackOfStave DEF IsLane
    <3> HIDE DEF staves, scope
    <3> QED BY <1>6, <2>1, <3>1
  <2>2. lanes[t] = [s \in DOMAIN n.lanes[t] |-> n.lanes[t][s]]
    BY <1>3, <2>1
  <2> QED BY <1>3, <2>2 DEF IsLane
<1> HIDE DEF lanes, scope
<1>8. /\ IsNode(m) /\ m.clefs = n.clefs /\ m.measures = n.measures /\ m.pickdown = n.pickdown
      /\ m.tempo = n.tempo /\ m.lanes = lanes
  BY <1>1, <1>5, LaneChange
<1>9. SameBut(scope, n, m)
  BY <1>6, <1>7, <1>8 DEF SameBut, ClefsOf
<1> QED BY <1>6, <1>8, <1>9, LanesRestorable DEF scope

(* A fragment goes to one place.                                            *)
LEMMA MappingIsOne ==
  ASSUME NEW frag, NEW anchor, NEW map \in Mapping(frag, anchor)
  PROVE  The(Mapping(frag, anchor)) = map
<1>1. \E x : Mapping(frag, anchor) = {x}
  <2> DEFINE used == Used(frag)
             Scope(key) == anchor.scopes[Cardinality({k \in used : Before(k, key)})]
             DestTrack(key) == PositionOf(TrackOf(anchor.stave)) + key[1] - 1
             DestStave(key) == (IF key[1] = 1 THEN Ordinal(anchor.stave) - 1 ELSE 0)
                                 + Rank(key[2], {k[2] : k \in {u \in used : u[1] = key[1]}})
             scoped == [key \in used |-> Scope(key)]
             below == [key \in used |-> Layout[Active[DestTrack(key)]][DestStave(key)]]
  <2>1. Mapping(frag, anchor) \subseteq {scoped} \/ Mapping(frag, anchor) \subseteq {below}
    BY DEF Mapping
  <2> HIDE DEF scoped, below
  <2> QED BY <2>1
<1> QED BY <1>1 DEF The

(* A paste touches the lanes of the tracks it goes to, and the clef lanes   *)
(* of the staves whose clefs it changes: these alone are in its clef        *)
(* snapshot.                                                                *)
LEMMA PasteIntoRestorable ==
  ASSUME NEW n, IsNode(n), NEW frag, NEW map, NEW from, NEW to,
         NEW m \in PasteInto(n, frag, map, from, to)
  PROVE  LET changed == {s \in Range(map) : ClefsOf(m, s) # ClefsOf(n, s)}
         IN  IsNode(m) /\ Restorable(OfLanes(Range(map), changed), n, m)
<1> DEFINE staves == Range(map)
           KeyOf(s) == CHOOSE key \in DOMAIN map : map[key] = s
           ensured == Ensured(n.lanes, staves)
           Voice(s, v) == ensured[TrackOf(s)][s].voices[v]
           Named(s, v) == <<KeyOf(s), v>> \in DOMAIN frag.parts
           Rebuilt(s, v) ==
             RebuildRange(Voice(s, v), from, to, NodeEnd(n),
                          Copied(Voice(s, v), frag.parts[<<KeyOf(s), v>>]))
           Offset(spans) == [k \in DOMAIN spans |-> [start |-> spans[k].start + from, end |-> spans[k].end + from]]
           Pasted(s, stave) ==
             [voices |-> [v \in Voices |-> IF Named(s, v) THEN The(Rebuilt(s, v)) ELSE stave.voices[v]],
              pedals |-> ClippedPedals(stave.pedals, from, to) \o Offset(frag.pedals[KeyOf(s)])]
           pasted == [s \in staves |-> PastedClefs(n, s, frag.clefs[KeyOf(s)], from, to)]
           given == {s \in staves : pasted[s] # IF s \in DOMAIN n.clefs THEN n.clefs[s] ELSE <<>>}
           lanes == [t \in DOMAIN ensured |-> [s \in DOMAIN ensured[t] |->
                      IF s \in staves THEN Pasted(s, ensured[t][s]) ELSE ensured[t][s]]]
           clefs == [s \in DOMAIN n.clefs \union given |-> IF s \in given THEN pasted[s] ELSE n.clefs[s]]
           k == [n EXCEPT !.lanes = lanes]
           changed == {s \in staves : ClefsOf(m, s) # ClefsOf(n, s)}
           scope == OfLanes(staves, changed)
<1>1. m = [n EXCEPT !.lanes = lanes, !.clefs = clefs]
  BY DEF PasteInto
<1>2. \A s, x : IsStave(Pasted(s, x))
  BY DEF IsStave
<1> HIDE DEF Pasted
<1>3. /\ IsLanes(ensured)
      /\ \A t \in Tracks : staves \intersect Range(Layout[t]) = {} => ensured[t] = n.lanes[t]
  <2>1. IsLanes(n.lanes)
    BY DEF IsNode, IsLanes
  <2> QED BY <2>1, EnsuredLanes
<1> HIDE DEF ensured
<1>4. \A t \in Tracks : IsLane(lanes[t], t)
  BY <1>2, <1>3 DEF IsLane, IsLanes
<1>5. IsLanes(lanes)
  BY <1>3, <1>4 DEF IsLanes
<1>6. scope.kind = "lanes" /\ scope.staves = changed /\ scope.tracks = {TrackOf(s) : s \in staves}
  BY DEF OfLanes, Nothing
<1>7. ASSUME NEW t \in Tracks \ scope.tracks PROVE n.lanes[t] = lanes[t]
  <2>1. ASSUME NEW s \in Range(Layout[t]), s \in staves PROVE FALSE
    <3>1. TrackOf(s) = t
      BY TrackOfStave
    <3> HIDE DEF staves, scope
    <3> QED BY <1>6, <2>1, <3>1
  <2>2. ensured[t] = n.lanes[t] /\ IsLane(n.lanes[t], t)
    BY <1>3, <2>1 DEF IsNode
  <2>3. lanes[t] = [s \in DOMAIN n.lanes[t] |-> n.lanes[t][s]]
    BY <1>3, <2>1, <2>2 DEF IsLane, IsLanes
  <2> QED BY <2>2, <2>3 DEF IsLane
<1>8. IsClefs(clefs) /\ \A s : s \notin staves => /\ s \in DOMAIN clefs <=> s \in DOMAIN n.clefs
                                                  /\ s \in DOMAIN n.clefs => clefs[s] = n.clefs[s]
  BY DEF IsClefs
<1> HIDE DEF lanes, clefs, scope
<1>9. /\ m = [k EXCEPT !.clefs = clefs]
      /\ IsNode(k) /\ k.clefs = n.clefs /\ k.measures = n.measures /\ k.pickdown = n.pickdown
      /\ k.tempo = n.tempo /\ k.lanes = lanes
  BY <1>1, <1>5, LaneChange
<1> HIDE DEF k
<1>10. /\ IsNode(m) /\ m.clefs = clefs /\ m.measures = n.measures /\ m.pickdown = n.pickdown
       /\ m.tempo = n.tempo /\ m.lanes = lanes
  BY <1>8, <1>9, ClefChange
<1>11. \A s : s \notin changed => ClefsOf(n, s) = ClefsOf(m, s)
  BY <1>8, <1>10 DEF ClefsOf
<1> HIDE DEF changed
<1>12. SameBut(scope, n, m)
  BY <1>6, <1>7, <1>10, <1>11 DEF SameBut
<1>13. Restorable(scope, n, m)
  BY <1>6, <1>10, <1>12, LanesRestorable
<1> QED BY <1>10, <1>13 DEF scope, changed

(* So a paste is put back wherever its anchor sends the fragment.           *)
LEMMA PasteRestorable ==
  ASSUME NEW n, IsNode(n), NEW frag, NEW anchor, NEW m \in Paste(n, frag, anchor)
  PROVE  LET map == The(Mapping(frag, anchor))
             changed == {s \in Range(map) : ClefsOf(m, s) # ClefsOf(n, s)}
         IN  IsNode(m) /\ Restorable(OfLanes(Range(map), changed), n, m)
<1>1. PICK map \in Mapping(frag, anchor) : m \in PasteInto(n, frag, map, anchor.at, anchor.at + frag.length)
  BY DEF Paste
<1>2. The(Mapping(frag, anchor)) = map
  BY MappingIsOne
<1> QED BY <1>1, <1>2, PasteIntoRestorable

-----------------------------------------------------------------------------
(* The history                                                              *)

(* What holds of an entry, and of a history: a chain of snapshots, from the *)
(* node after the last entry that is done to the first that is undone.      *)
EntryHolds(e) == IsNode(e.before) /\ IsNode(e.after) /\ Restorable(e.scope, e.before, e.after)
IsHistory(s) ==
  /\ \E X : s \in Seq(X)
  /\ \A k \in 1..Len(s) : EntryHolds(s[k])
HistoryHolds ==
  /\ IsNode(node)
  /\ IsHistory(done) /\ IsHistory(undone)
  /\ \A k \in 1..Len(done) - 1 : done[k].after = done[k + 1].before
  /\ \A k \in 1..Len(undone) - 1 : undone[k].before = undone[k + 1].after
  /\ done # <<>> => done[Len(done)].after = node
  /\ undone # <<>> => undone[Len(undone)].before = node

(* A command that can be put back is one more entry.                        *)
LEMMA ExecuteKeeps ==
  ASSUME HistoryHolds, undone = <<>>,
         NEW after, NEW scope, NEW about, Execute(after, scope, about),
         IsNode(after), Restorable(scope, node, after)
  PROVE  HistoryHolds'
<1> DEFINE e == [scope |-> scope, about |-> about, before |-> node, after |-> after]
<1>1. /\ node' = after /\ done' = Append(done, e) /\ undone' = undone
  BY DEF Execute
<1>2. e.before = node /\ e.after = after /\ e.scope = scope
  OBVIOUS
<1> HIDE DEF e
<1>3. EntryHolds(e)
  BY <1>2 DEF EntryHolds, HistoryHolds
<1>4. /\ \E X : done' \in Seq(X)
      /\ Len(done) \in Nat /\ Len(done') = Len(done) + 1 /\ done'[Len(done) + 1] = e
      /\ \A k \in 1..Len(done) : done'[k] = done[k]
      /\ done # <<>> => Len(done) > 0
      /\ done = <<>> => Len(done) = 0
  <2>1. PICK X : done \in Seq(X)
    BY DEF HistoryHolds, IsHistory
  <2>2. done \in Seq(X \union {e})
    BY <2>1
  <2> QED BY <1>1, <2>2
<1>5. undone = <<>> /\ undone' = <<>>
  BY <1>1
<1>6. IsHistory(done)'
  <2>1. \A k \in 1..Len(done') : k \in 1..Len(done) \/ k = Len(done) + 1
    BY <1>4
  <2>2. \A k \in 1..Len(done') : EntryHolds(done'[k])
    BY <1>3, <1>4, <2>1 DEF HistoryHolds, IsHistory
  <2> QED BY <1>4, <2>2 DEF IsHistory
<1>7. \A k \in 1..Len(done') - 1 : done'[k].after = done'[k + 1].before
  <2>1. SUFFICES ASSUME NEW k \in 1..Len(done) PROVE done'[k].after = done'[k + 1].before
    BY <1>4
  <2>2. CASE k = Len(done)
    BY <1>2, <1>4, <2>2 DEF HistoryHolds
  <2>3. CASE k # Len(done)
    <3>1. k \in 1..Len(done) - 1 /\ k + 1 \in 1..Len(done)
      BY <1>4, <2>3
    <3> QED BY <1>4, <3>1 DEF HistoryHolds
  <2> QED BY <2>2, <2>3
<1>8. IsHistory(undone)' /\ Len(undone') = 0
  BY <1>5, <1>1 DEF HistoryHolds, IsHistory
<1>9. IsNode(node') /\ done'[Len(done')].after = node'
  BY <1>1, <1>2, <1>4
<1> QED BY <1>5, <1>6, <1>7, <1>8, <1>9 DEF HistoryHolds

(* What is left of a sequence without its last element.                     *)
LEMMA WithoutLast ==
  ASSUME NEW X, NEW s \in Seq(X), s # <<>>
  PROVE  /\ Len(s) \in Nat \ {0} /\ Last(s) = s[Len(s)] /\ Last(s) \in X
         /\ Front(s) \in Seq(X) /\ Len(Front(s)) = Len(s) - 1
         /\ \A k \in 1..Len(s) - 1 : Front(s)[k] = s[k]
<1> DEFINE n == Len(s)
<1>1. n \in Nat \ {0} /\ DOMAIN s = 1..n /\ s[n] \in X
  OBVIOUS
<1>2. LET front == SubSeq(s, 1, n - 1)
      IN  front \in Seq(X) /\ Len(front) = n - 1 /\ \A k \in 1..n - 1 : front[k] = s[k]
  BY <1>1
<1> QED BY <1>1, <1>2 DEF Front, Last

(* Undo takes the last entry that is done, and the node before it.          *)
LEMMA UndoKeeps ==
  ASSUME HistoryHolds, Undo
  PROVE  HistoryHolds'
<1> DEFINE e == Last(done)
           n == Len(done)
<1>1. PICK X : done \in Seq(X) /\ undone \in Seq(X)
  <2>1. PICK X : done \in Seq(X)
    BY DEF HistoryHolds, IsHistory
  <2>2. PICK Y : undone \in Seq(Y)
    BY DEF HistoryHolds, IsHistory
  <2>3. done \in Seq(X \union Y) /\ undone \in Seq(X \union Y)
    BY <2>1, <2>2
  <2> QED BY <2>3
<1>2. /\ n \in Nat \ {0} /\ e = done[n] /\ e \in X
      /\ done' \in Seq(X) /\ Len(done') = n - 1
      /\ \A k \in 1..n - 1 : done'[k] = done[k]
  BY <1>1, WithoutLast DEF Undo
<1>3. /\ undone' \in Seq(X) /\ Len(undone) \in Nat /\ Len(undone') = Len(undone) + 1
      /\ undone'[Len(undone) + 1] = e /\ \A k \in 1..Len(undone) : undone'[k] = undone[k]
      /\ undone = <<>> <=> Len(undone) = 0
      /\ undone' # <<>> /\ (done' # <<>> => n - 1 > 0)
  BY <1>1, <1>2 DEF Undo
<1>4. EntryHolds(e) /\ e.after = node
  BY <1>2 DEF HistoryHolds, IsHistory
<1>5. node' = e.before
  <2>1. node' \in Restored(e.scope, e.after, e.after, e.before, FALSE)
    BY <1>4 DEF Undo, UndoOutcome
  <2> QED BY <1>4, <2>1 DEF EntryHolds, Restorable
<1> HIDE DEF e, n
<1>6. IsHistory(done)'
  BY <1>2 DEF IsHistory, HistoryHolds, n
<1>7. IsHistory(undone)'
  <2>1. \A k \in 1..Len(undone') : k \in 1..Len(undone) \/ k = Len(undone) + 1
    BY <1>3
  <2>2. \A k \in 1..Len(undone') : EntryHolds(undone'[k])
    BY <1>3, <1>4, <2>1 DEF HistoryHolds, IsHistory
  <2> QED BY <1>3, <2>2 DEF IsHistory
<1>8. \A k \in 1..Len(done') - 1 : done'[k].after = done'[k + 1].before
  <2>1. SUFFICES ASSUME NEW k \in 1..n - 2 PROVE done'[k].after = done'[k + 1].before
    BY <1>2
  <2>2. k \in 1..n - 1 /\ k + 1 \in 1..n - 1
    BY <1>2
  <2> QED BY <1>2, <2>2 DEF HistoryHolds, n
<1>9. \A k \in 1..Len(undone') - 1 : undone'[k].before = undone'[k + 1].after
  <2>1. SUFFICES ASSUME NEW k \in 1..Len(undone) PROVE undone'[k].before = undone'[k + 1].after
    BY <1>3
  <2>2. CASE k = Len(undone)
    BY <1>3, <1>4, <2>2 DEF HistoryHolds
  <2>3. CASE k # Len(undone)
    <3>1. k \in 1..Len(undone) - 1 /\ k + 1 \in 1..Len(undone)
      BY <1>3, <2>3
    <3> QED BY <1>3, <3>1 DEF HistoryHolds
  <2> QED BY <2>2, <2>3
<1>10. IsNode(node') /\ undone'[Len(undone')].before = node'
  BY <1>3, <1>4, <1>5 DEF EntryHolds
<1>11. done' # <<>> => done'[Len(done')].after = node'
  <2>1. SUFFICES ASSUME done' # <<>> PROVE done'[n - 1].after = node'
    BY <1>2
  <2>2. n - 1 \in 1..n - 1 /\ (n - 1) + 1 = n
    BY <1>2, <1>3, <2>1
  <2> QED BY <1>2, <1>5, <2>2 DEF HistoryHolds, n
<1> QED BY <1>6, <1>7, <1>8, <1>9, <1>10, <1>11 DEF HistoryHolds

(* Redo takes the last entry that is undone, and the node after it.         *)
LEMMA RedoKeeps ==
  ASSUME HistoryHolds, Redo
  PROVE  HistoryHolds'
<1> DEFINE e == Last(undone)
           n == Len(undone)
<1>1. PICK X : done \in Seq(X) /\ undone \in Seq(X)
  <2>1. PICK X : done \in Seq(X)
    BY DEF HistoryHolds, IsHistory
  <2>2. PICK Y : undone \in Seq(Y)
    BY DEF HistoryHolds, IsHistory
  <2>3. done \in Seq(X \union Y) /\ undone \in Seq(X \union Y)
    BY <2>1, <2>2
  <2> QED BY <2>3
<1>2. /\ n \in Nat \ {0} /\ e = undone[n] /\ e \in X
      /\ undone' \in Seq(X) /\ Len(undone') = n - 1
      /\ \A k \in 1..n - 1 : undone'[k] = undone[k]
  BY <1>1, WithoutLast DEF Redo
<1>3. /\ done' \in Seq(X) /\ Len(done) \in Nat /\ Len(done') = Len(done) + 1
      /\ done'[Len(done) + 1] = e /\ \A k \in 1..Len(done) : done'[k] = done[k]
      /\ done = <<>> <=> Len(done) = 0
      /\ done' # <<>> /\ (undone' # <<>> => n - 1 > 0)
  BY <1>1, <1>2, SMTT(30) DEF Redo
<1>4. EntryHolds(e) /\ e.before = node
  BY <1>2 DEF HistoryHolds, IsHistory
<1>5. node' = e.after
  <2>1. node' \in Restored(e.scope, e.before, e.before, e.after, TRUE)
    BY <1>4 DEF Redo, RedoOutcome
  <2> QED BY <1>4, <2>1 DEF EntryHolds, Restorable
<1> HIDE DEF e, n
<1>6. IsHistory(undone)'
  BY <1>2 DEF IsHistory, HistoryHolds, n
<1>7. IsHistory(done)'
  <2>1. \A k \in 1..Len(done') : k \in 1..Len(done) \/ k = Len(done) + 1
    BY <1>3
  <2>2. \A k \in 1..Len(done') : EntryHolds(done'[k])
    BY <1>3, <1>4, <2>1 DEF HistoryHolds, IsHistory
  <2> QED BY <1>3, <2>2 DEF IsHistory
<1>8. \A k \in 1..Len(undone') - 1 : undone'[k].before = undone'[k + 1].after
  <2>1. SUFFICES ASSUME NEW k \in 1..n - 2 PROVE undone'[k].before = undone'[k + 1].after
    BY <1>2
  <2>2. k \in 1..n - 1 /\ k + 1 \in 1..n - 1
    BY <1>2
  <2> QED BY <1>2, <2>2 DEF HistoryHolds, n
<1>9. \A k \in 1..Len(done') - 1 : done'[k].after = done'[k + 1].before
  <2>1. SUFFICES ASSUME NEW k \in 1..Len(done) PROVE done'[k].after = done'[k + 1].before
    BY <1>3
  <2>2. CASE k = Len(done)
    BY <1>3, <1>4, <2>2 DEF HistoryHolds
  <2>3. CASE k # Len(done)
    <3>1. k \in 1..Len(done) - 1 /\ k + 1 \in 1..Len(done)
      BY <1>3, <2>3
    <3> QED BY <1>3, <3>1 DEF HistoryHolds
  <2> QED BY <2>2, <2>3
<1>10. IsNode(node') /\ done'[Len(done')].after = node'
  BY <1>3, <1>4, <1>5 DEF EntryHolds
<1>11. undone' # <<>> => undone'[Len(undone')].before = node'
  <2>1. SUFFICES ASSUME undone' # <<>> PROVE undone'[n - 1].before = node'
    BY <1>2
  <2>2. n - 1 \in 1..n - 1 /\ (n - 1) + 1 = n
    BY <1>2, <1>3, <2>1
  <2> QED BY <1>2, <1>5, <2>2 DEF HistoryHolds, n
<1> QED BY <1>6, <1>7, <1>8, <1>9, <1>10, <1>11 DEF HistoryHolds

-----------------------------------------------------------------------------
(* The steps                                                                *)

(* The commands on measures replace the node as a whole.                    *)
LEMMA MeasuresKeep ==
  ASSUME HistoryHolds, NEW i, NEW meter,
         InsertMeasureCommand(i, meter) \/ DeleteMeasureCommand(i) \/ SetMeasureTimeSignatureCommand(i, meter)
  PROVE  HistoryHolds'
<1>1. IsNode(node)
  BY DEF HistoryHolds
<1>2. ASSUME undone = <<>>, NEW after, IsNode(after), NEW about, Execute(after, OfNode, about)
      PROVE  HistoryHolds'
  BY <1>2, NodeRestorable, ExecuteKeeps
<1>3. ASSUME NEW edit, NEW kind, NEW timeline, EditMeasures(timeline, edit, kind, i),
             timeline \subseteq InsertMeasure(node, i, meter) \union RemoveMeasure(node, i)
                                  \union SetMeasureTimeSignature(node, i, meter)
      PROVE  HistoryHolds'
  <2>1. PICK n \in timeline : \E after \in TransformProjectLanes(n, edit) : \E about : Execute(after, OfNode, about)
    BY <1>3 DEF EditMeasures
  <2>2. PICK after \in TransformProjectLanes(n, edit) : \E about : Execute(after, OfNode, about)
    BY <2>1
  <2>3. IsNode(n)
    BY <1>1, <1>3, TimelineNode
  <2>4. IsNode(after)
    BY <2>2, <2>3, ProjectLanesNode
  <2>5. undone = <<>>
    BY <1>3 DEF EditMeasures, Open
  <2> QED BY <1>2, <2>2, <2>4, <2>5
<1>4. CASE InsertMeasureCommand(i, meter)
  BY <1>3, <1>4 DEF InsertMeasureCommand
<1>5. CASE DeleteMeasureCommand(i)
  BY <1>3, <1>5 DEF DeleteMeasureCommand
<1>6. CASE SetMeasureTimeSignatureCommand(i, meter)
  <2>1. CASE EditTimeline(SetMeasureTimeSignature(node, i, meter), OfNode)
    <3>1. PICK after \in SetMeasureTimeSignature(node, i, meter) : Execute(after, OfNode, Simple)
      BY <2>1 DEF EditTimeline
    <3>2. IsNode(after)
      BY <1>1, TimelineNode
    <3>3. undone = <<>>
      BY <2>1 DEF EditTimeline, Open
    <3> QED BY <1>2, <3>1, <3>2, <3>3
  <2>2. CASE EditMeasures(SetMeasureTimeSignature(node, i, meter), TimeSignatureEdit(node, i, meter), "resize", i)
    BY <1>3, <2>2
  <2> QED BY <1>6, <2>1, <2>2 DEF SetMeasureTimeSignatureCommand
<1> QED BY <1>4, <1>5, <1>6

(* An edit of the timeline whose outcomes can all be put back.              *)
LEMMA TimelineKeeps ==
  ASSUME HistoryHolds, NEW outcome, NEW scope, EditTimeline(outcome, scope),
         \A m \in outcome : IsNode(m) /\ Restorable(scope, node, m)
  PROVE  HistoryHolds'
<1>1. undone = <<>> /\ \E after \in outcome : Execute(after, scope, Simple)
  BY DEF EditTimeline, Open
<1> QED BY <1>1, ExecuteKeeps

(* The commands on the pickdown.                                            *)
LEMMA PickdownKeeps ==
  ASSUME HistoryHolds, NEW d, SetPickdownCommand(d) \/ ClearPickdownCommand
  PROVE  HistoryHolds'
<1>1. \A m \in SetPickdown(node, d) \union ClearPickdown(node) : IsNode(m) /\ Restorable(OfPickdown, node, m)
  <2>1. SUFFICES ASSUME NEW m \in SetPickdown(node, d) \union ClearPickdown(node)
                 PROVE  IsNode(m) /\ Restorable(OfPickdown, node, m)
    OBVIOUS
  <2>2. \E x : m = [node EXCEPT !.pickdown = x]
    BY <2>1 DEF SetPickdown, ClearPickdown, WithPickdown
  <2>3. PICK x : m = [node EXCEPT !.pickdown = x]
    BY <2>2
  <2>4. LET k == [node EXCEPT !.pickdown = x] IN IsNode(k) /\ Restorable(OfPickdown, node, k)
    BY PickdownRestorable DEF HistoryHolds
  <2> QED BY <2>3, <2>4
<1> QED BY <1>1, TimelineKeeps DEF SetPickdownCommand, ClearPickdownCommand

(* The commands on the tempo map.                                           *)
LEMMA TempoKeeps ==
  ASSUME HistoryHolds, NEW p, NEW q, NEW value,
         \/ AddTempoPointCommand(p, value) \/ RemoveTempoPointCommand(p)
         \/ MoveTempoPointCommand(p, q) \/ SetTempoPointCommand(p, value)
  PROVE  HistoryHolds'
<1> DEFINE outcomes == AddTempoPoint(node, p, value) \union RemoveTempoPoint(node, p)
                         \union MoveTempoPoint(node, p, q) \union SetTempoPoint(node, p, value)
<1>1. \A m \in outcomes : IsNode(m) /\ Restorable(OfTempo, node, m)
  <2>1. SUFFICES ASSUME NEW m \in outcomes PROVE IsNode(m) /\ Restorable(OfTempo, node, m)
    OBVIOUS
  <2>2. (\E x : m \in SetTempo(node, x)) \/ \E x : m = [node EXCEPT !.tempo = x]
    BY <2>1 DEF AddTempoPoint, RemoveTempoPoint, MoveTempoPoint, SetTempoPoint
  <2>3. PICK x : m = [node EXCEPT !.tempo = x]
    BY <2>2 DEF SetTempo
  <2>4. LET k == [node EXCEPT !.tempo = x] IN IsNode(k) /\ Restorable(OfTempo, node, k)
    BY TempoRestorable DEF HistoryHolds
  <2> QED BY <2>3, <2>4
<1>2. ASSUME NEW outcome, outcome \subseteq outcomes, EditTimeline(outcome, OfTempo) PROVE HistoryHolds'
  BY <1>1, <1>2, TimelineKeeps
<1> QED BY <1>2 DEF AddTempoPointCommand, RemoveTempoPointCommand, MoveTempoPointCommand, SetTempoPointCommand

(* The commands on clef changes.                                            *)
LEMMA ClefsKeep ==
  ASSUME HistoryHolds, NEW s, NEW p, NEW q, NEW clef,
         AddClefChangeCommand(s, p, clef) \/ RemoveClefChangeCommand(s, p) \/ MoveClefChangeCommand(s, p, q)
  PROVE  HistoryHolds'
<1> DEFINE outcomes == AddClefChange(node, s, p, clef) \union RemoveClefChange(node, s, p)
                         \union MoveClefChange(node, s, p, q)
<1>1. \A m \in outcomes : IsNode(m) /\ Restorable(OfClefs(s), node, m)
  <2>1. SUFFICES ASSUME NEW m \in outcomes PROVE IsNode(m) /\ Restorable(OfClefs(s), node, m)
    OBVIOUS
  <2>2. PICK x : m = WithClefs(node, s, x)
    BY <2>1 DEF AddClefChange, RemoveClefChange, MoveClefChange
  <2> QED BY <2>2, ClefsRestorable DEF HistoryHolds
<1>2. ASSUME NEW outcome, outcome \subseteq outcomes, EditTimeline(outcome, OfClefs(s)) PROVE HistoryHolds'
  BY <1>1, <1>2, TimelineKeeps
<1> QED BY <1>2 DEF AddClefChangeCommand, RemoveClefChangeCommand, MoveClefChangeCommand

(* The commands on pedal spans.                                             *)
LEMMA PedalsKeep ==
  ASSUME HistoryHolds, NEW s \in Staves, NEW span, NEW k, AddPedalSpan(s, span) \/ RemovePedalSpan(s, k)
  PROVE  HistoryHolds'
<1>1. IsNode(node) /\ s \in DOMAIN node.lanes[TrackOf(s)]
  BY DEF HistoryHolds, AddPedalSpan, RemovePedalSpan, HasStave
<1>2. PICK spans : PedalCommand(s, spans)
  BY DEF AddPedalSpan, RemovePedalSpan
<1>3. /\ undone = <<>>
      /\ \E after : after = WithPedals(s, spans) /\ Execute(after, OfPedals(s), Simple)
  BY <1>2 DEF PedalCommand, Open
<1>4. \A after : after = WithPedals(s, spans) => IsNode(after) /\ Restorable(OfPedals(s), node, after)
  BY <1>1, PedalsRestorable DEF WithPedals
<1> QED BY <1>3, <1>4, ExecuteKeeps

(* Filling an empty voice with rests puts back the voice alone.             *)
LEMMA VoiceKeeps ==
  ASSUME HistoryHolds, NEW s \in Staves, NEW v \in Voices, CreateVoiceStream(s, v)
  PROVE  HistoryHolds'
<1>1. IsNode(node) /\ s \in DOMAIN node.lanes[TrackOf(s)]
  BY DEF HistoryHolds, CreateVoiceStream, HasStave
<1>2. PICK content : Execute([node EXCEPT !.lanes[TrackOf(s)][s].voices[v] = content], OfVoice(s, v), Simple)
  BY DEF CreateVoiceStream
<1> DEFINE after == [node EXCEPT !.lanes[TrackOf(s)][s].voices[v] = content]
<1>3. IsNode(after) /\ Restorable(OfVoice(s, v), node, after)
  BY <1>1, VoiceRestorable
<1>4. Execute(after, OfVoice(s, v), Simple) /\ undone = <<>>
  BY <1>2 DEF CreateVoiceStream, Open
<1> HIDE DEF after
<1> QED BY <1>3, <1>4, ExecuteKeeps

(* A cut.                                                                   *)
LEMMA CutKeeps ==
  ASSUME HistoryHolds, NEW sel, CutFragment(sel)
  PROVE  HistoryHolds'
<1>1. PICK after \in Cut(node, sel) : \E about : Execute(after, OfLanes(SelectedStaves(sel), {}), about)
  BY DEF CutFragment
<1>2. IsNode(after) /\ Restorable(OfLanes(SelectedStaves(sel), {}), node, after)
  BY CutRestorable DEF HistoryHolds
<1>3. undone = <<>>
  BY DEF CutFragment, Open
<1> QED BY <1>1, <1>2, <1>3, ExecuteKeeps

(* A paste, from wherever the selection anchors it.                         *)
LEMMA PasteKeeps ==
  ASSUME HistoryHolds, NEW sel, PasteFragment(sel)
  PROVE  HistoryHolds'
<1> DEFINE Scope(anchor, after) ==
             OfLanes(Range(The(Mapping(clipboard, anchor))),
                     {s \in Range(The(Mapping(clipboard, anchor))) : ClefsOf(after, s) # ClefsOf(node, s)})
<1>1. PICK anchor : \E after \in Paste(node, clipboard, anchor) : \E about : Execute(after, Scope(anchor, after), about)
  BY DEF PasteFragment
<1>2. PICK after \in Paste(node, clipboard, anchor) : \E about : Execute(after, Scope(anchor, after), about)
  BY <1>1
<1>3. IsNode(after) /\ Restorable(Scope(anchor, after), node, after)
  BY PasteRestorable DEF HistoryHolds
<1>4. undone = <<>>
  BY DEF PasteFragment, Open
<1> HIDE DEF Scope
<1> QED BY <1>2, <1>3, <1>4, ExecuteKeeps

(* Every step keeps the history.                                            *)
LEMMA NextKeeps ==
  ASSUME HistoryHolds, [Next]_vars
  PROVE  HistoryHolds'
<1>1. CASE UNCHANGED vars
  BY <1>1 DEF vars, HistoryHolds, IsHistory
<1>2. ASSUME NEW i, NEW m,
             InsertMeasureCommand(i, m) \/ DeleteMeasureCommand(i) \/ SetMeasureTimeSignatureCommand(i, m)
      PROVE  HistoryHolds'
  BY <1>2, MeasuresKeep
<1>3. ASSUME NEW d, SetPickdownCommand(d) \/ ClearPickdownCommand PROVE HistoryHolds'
  BY <1>3, PickdownKeeps
<1>4. ASSUME NEW p, NEW q, NEW value,
             \/ AddTempoPointCommand(p, value) \/ RemoveTempoPointCommand(p)
             \/ MoveTempoPointCommand(p, q) \/ SetTempoPointCommand(p, value)
      PROVE  HistoryHolds'
  BY <1>4, TempoKeeps
<1>5. ASSUME NEW s, NEW p, NEW q, NEW clef,
             AddClefChangeCommand(s, p, clef) \/ RemoveClefChangeCommand(s, p) \/ MoveClefChangeCommand(s, p, q)
      PROVE  HistoryHolds'
  BY <1>5, ClefsKeep
<1>6. ASSUME NEW s \in Staves, NEW span, NEW k, AddPedalSpan(s, span) \/ RemovePedalSpan(s, k) PROVE HistoryHolds'
  BY <1>6, PedalsKeep
<1>7. ASSUME NEW s \in Staves, NEW v \in Voices, CreateVoiceStream(s, v) PROVE HistoryHolds'
  BY <1>7, VoiceKeeps
<1>8. ASSUME NEW sel, Copy(sel) PROVE HistoryHolds'
  <2>1. UNCHANGED <<node, done, undone>>
    BY <1>8 DEF Copy
  <2> QED BY <2>1 DEF HistoryHolds, IsHistory
<1>9. ASSUME NEW sel, CutFragment(sel) \/ PasteFragment(sel) PROVE HistoryHolds'
  BY <1>9, CutKeeps, PasteKeeps
<1>10. CASE Undo \/ Redo
  BY <1>10, UndoKeeps, RedoKeeps
<1> QED BY <1>1, <1>2, <1>3, <1>4, <1>5, <1>6, <1>7, <1>8, <1>9, <1>10 DEF Next

(* In such a history the entry to undo begins where the node is to go back  *)
(* to, and its scope reads the same in its snapshot and in the node.        *)
LEMMA HistoryGivesUndo ==
  HistoryHolds => UndoRestores
<1>1. \A scope, n : Agree(scope, n, n)
  BY DEF Agree
<1>2. ASSUME HistoryHolds, done # <<>>
      PROVE  /\ Agree(Latest.scope, Latest.after, node)
             /\ \A n \in UndoOutcome(Latest) : n = Latest.before
  <2>1. Len(done) \in Nat \ {0} /\ Latest = done[Len(done)]
    BY <1>2, WithoutLast DEF Latest, HistoryHolds, IsHistory
  <2>2. EntryHolds(Latest) /\ Latest.after = node
    BY <1>2, <2>1 DEF HistoryHolds, IsHistory
  <2> QED BY <1>1, <2>2 DEF UndoOutcome, EntryHolds, Restorable
<1>3. ASSUME HistoryHolds, undone # <<>>
      PROVE  /\ Agree(Last(undone).scope, Last(undone).before, node)
             /\ \A n \in RedoOutcome(Last(undone)) : n = Last(undone).after
  <2>1. Len(undone) \in Nat \ {0} /\ Last(undone) = undone[Len(undone)]
    BY <1>3, WithoutLast DEF HistoryHolds, IsHistory
  <2>2. EntryHolds(Last(undone)) /\ Last(undone).before = node
    BY <1>3, <2>1 DEF HistoryHolds, IsHistory
  <2> QED BY <1>1, <2>2 DEF RedoOutcome, EntryHolds, Restorable
<1> QED BY <1>2, <1>3 DEF UndoRestores

(* The snapshots of the commands on a node are one chain, through           *)
(* everything that is done, undone and redone: each begins where the one    *)
(* before it ended, the last one done ends at the node there is, and each   *)
(* can be put back from its scope (the snapshots the commands capture       *)
(* before and after they apply).                                            *)
THEOREM HistoryIsAChain == Spec => []HistoryHolds
<1>1. Init => HistoryHolds
  <2>1. ASSUME Init PROVE IsHistory(done) /\ IsHistory(undone) /\ Len(done) = 0 /\ Len(undone) = 0
    BY <2>1 DEF Init, IsHistory
  <2> QED BY <2>1, StartIsNode DEF Init, HistoryHolds
<1> QED BY <1>1, NextKeeps, PTL DEF Spec

(* The undo of the last command, when it is not refused, leaves the node    *)
(* exactly as the command found it, and redo as the command left it;        *)
(* neither is ever refused by the stale-context check                       *)
(* (clipboard_command_helpers.hpp:946).                                     *)
THEOREM UndoAndRedoRestore == Spec => []UndoRestores
BY HistoryIsAChain, HistoryGivesUndo, PTL
=============================================================================
