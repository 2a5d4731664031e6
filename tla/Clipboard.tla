------------------------------ MODULE Clipboard ------------------------------
(* Copying a selection into a fragment (notation_fragment.cpp), and pasting  *)
(* and cutting (paste_fragment_command.cpp, cut_fragment_command.cpp).       *)
(*                                                                           *)
(* A fragment has the length of its range, the context of each measure in    *)
(* it, and by ordinals, <<track, stave>>, the voices, pedals and interior    *)
(* clef changes.                                                             *)
EXTENDS Selection

Ordinal(s) == CHOOSE k \in DOMAIN Layout[TrackOf(s)] : Layout[TrackOf(s)][k] = s
Rank(x, xs) == Cardinality({y \in xs : y <= x})
PositionOf(t) == CHOOSE k \in DOMAIN Active : Active[k] = t

-----------------------------------------------------------------------------
(* Copying *)

\* The checks of the two extractions, on top of validate_selection().
SelectionHolds(n, sel) ==
  /\ OfMeasures(sel) \/ OfRange(sel)
  /\ Validates(n, sel)
  /\ OfRange(sel) => sel.start < sel.end /\ sel.end <= NodeEnd(n)

\* clip_events(): a tuplet is copied as a whole or not at all; what began
\* before the range is silent in it; what ends after it becomes a tie chain.
PartOfTuplet(events, from, to) ==
  \E e \in Range(events) :
    e.tuplet # None /\
      LET members == {i \in DOMAIN events : events[i].tuplet # None
                                            /\ events[i].tuplet.group = e.tuplet.group}
          start == Onsets(events)[Min(members)]
          end == Onsets(events)[Max(members) + 1]
      IN  start < to /\ from < end /\ ~(from <= start /\ end <= to)
(* Mutant of Excerpt: what began before the range is struck in it.           *)
Excerpt_StrikesRemainder(e, start, end, from, to, mint) ==
  LET inside == Min({end, to}) - Max({start, from})
  IN  CASE e.tuplet # None -> {<<e>>}
        [] e.tuplet = None /\ IsRest(e) -> Rested(inside, mint)
        [] e.tuplet = None /\ ~IsRest(e) -> Pieces(e, inside, mint)
Excerpt(e, start, end, from, to, mint) ==
  LET inside == Rested(Min({end, to}) - Max({start, from}), mint)
  IN  CASE e.tuplet # None -> {<<e>>}
        [] e.tuplet = None /\ (IsRest(e) \/ start < from) -> inside
        [] e.tuplet = None /\ ~IsRest(e) /\ from <= start ->
             IF end <= to THEN {<<e>>} ELSE Pieces(e, to - start, mint)
ClipEvents(c, from, to) ==
  LET onset == Onsets(c.events)
      places == {i \in DOMAIN c.events : onset[i] < to /\ onset[i + 1] > from}
      Of(i) == Excerpt(c.events[i], onset[i], onset[i + 1], from, to, Fresh(c) + i * Step)
      Ends(events) == IF events = <<>> THEN <<>> ELSE [events EXCEPT ![Len(events)] = Untied(@)]
  IN  IF PartOfTuplet(c.events, from, to) \/ \E i \in places : Of(i) = {} THEN {}
      ELSE {Ends(FlattenSeq([k \in 1..Cardinality(places) |-> The(Of(Min(places) + k - 1))]))}

\* What sounds and begins in the range survives, under its id.
Survivors(c, from, to) ==
  {i \in DOMAIN c.events : ~IsRest(c.events[i]) /\ from <= Onsets(c.events)[i] /\ Onsets(c.events)[i] < to}

\* clip_span_endpoints(): a span that crosses a boundary ends at the nearest
\* survivor, and is dropped when fewer than two are left.
ClipSpan(c, survivors, r) ==
  LET after  == {i \in survivors : i >= Place(c, r.anchors[1])}
      before == {i \in survivors : i <= Place(c, r.anchors[2])}
  IN  IF after = {} \/ before = {} THEN {}
      ELSE IF Min(after) >= Max(before) THEN {}
      ELSE {[r EXCEPT !.anchors = <<c.events[Min(after)].id, c.events[Max(before)].id>>]}
\* clip_beam_override(), and the markings of one event.
ClipAnchors(c, survivors, r, least) ==
  LET left == SelectSeq(r.anchors, LAMBDA id : Place(c, id) \in survivors)
  IN  IF Len(left) < least THEN {} ELSE {[r EXCEPT !.anchors = left]}
ClipRef(c, survivors, f, r) ==
  CASE f \in {"hairpins", "slurs"} -> ClipSpan(c, survivors, r)
    [] f = "beams" -> ClipAnchors(c, survivors, r, 2)
    [] OTHER -> ClipAnchors(c, survivors, r, 1)
ClipRefs(c, survivors, f) ==
  LET Left(r) == ClipRef(c, survivors, f, r)
      left == SelectSeq(c.refs[f], LAMBDA r : Left(r) # {})
  IN  [k \in DOMAIN left |-> The(Left(left[k]))]

\* clip_voice(): a source that is shorter than the range is filled up.
ClipVoice(c, from, to) ==
  LET refs == [f \in Families |-> ClipRefs(c, Survivors(c, from, to), f)]
  IN  UNION {{[events |-> all, refs |-> refs] : all \in Filled(events, to - from, Fresh(c) + 99 * Step)} :
               events \in ClipEvents(c, from, to)}

\* append_stave_scoped_fragments()
CopiedPedals(spans, from, to) ==
  LET cut == [k \in DOMAIN spans |-> [start |-> Max({spans[k].start, from}) - from,
                                      end |-> Min({spans[k].end, to}) - from]]
  IN  SelectSeq(cut, LAMBDA p : p.start < p.end)
CopiedClefs(n, s, from, to) ==
  LET inside == {p \in DOMAIN n.clefs[s] : from < p /\ p < to}
  IN  IF s \notin DOMAIN n.clefs THEN <<>> ELSE [p \in {q - from : q \in inside} |-> n.clefs[s][p + from]]

\* build_measure_contexts(): in the pickdown the last measure still governs.
Contexts(n, from, to) ==
  LET first == IF from < Boundary(n) THEN MeasureAt(n, from) ELSE Count(n)
      inside == {i \in 1..Count(n) : i > first /\ Starts(n)[i] < to}
      Context(i) == [at |-> Max({Starts(n)[i] - from, 0}), meter |-> n.measures[i]]
  IN  IF from >= Boundary(n) THEN <<[at |-> 0, meter |-> n.measures[first]]>>
      ELSE [k \in 1..Cardinality(inside) + 1 |-> Context(first + k - 1)]

\* extract_fragment(), and what NotationFragment::create() refuses.
Extract(n, sel) ==
  LET from == RangeStart(n, sel)  to == RangeEnd(n, sel)
      ranks == {PositionOf(TrackOf(s)) : s \in SelectedStaves(sel)}
      Key(s) == <<Rank(PositionOf(TrackOf(s)), ranks), Ordinal(s)>>
      Part(x) == ClipVoice(VoiceAt(n, x[1], x[2]), from, to)
      keys == {Key(s) : s \in SelectedStaves(sel)}
      StaveOf(key) == CHOOSE s \in SelectedStaves(sel) : Key(s) = key
      Pedals(key) == CopiedPedals(n.lanes[TrackOf(StaveOf(key))][StaveOf(key)].pedals, from, to)
      TwoStart(spans) == \E j, k \in DOMAIN spans : j # k /\ spans[j].start = spans[k].start
  IN  IF ~SelectionHolds(n, sel) THEN {}
      ELSE IF \/ \E x \in SelectedVoices(sel) : Part(x) = {}
              \/ \E key \in keys : TwoStart(Pedals(key))
      THEN {}
      ELSE {[length |-> to - from, contexts |-> Contexts(n, from, to), tracks |-> Cardinality(ranks),
             parts  |-> [k \in {<<Key(x[1]), x[2]>> : x \in SelectedVoices(sel)} |->
                          The(Part(<<StaveOf(k[1]), k[2]>>))],
             pedals |-> [key \in keys |-> SortSeq(Pedals(key), LAMBDA a, b : a.start < b.start)],
             clefs  |-> [key \in keys |-> CopiedClefs(n, StaveOf(key), from, to)]]}

-----------------------------------------------------------------------------
(* Where a fragment goes                                                     *)
(*                                                                           *)
(* An anchor is [stave, at, scopes]: the scopes name a stave for each that   *)
(* the fragment uses, in the order of its ordinals; without any, the first   *)
(* goes to the anchor's stave and the others below it, track by track.       *)

Used(frag) == {k[1] : k \in DOMAIN frag.parts} \union {k \in DOMAIN frag.pedals : frag.pedals[k] # <<>>}
                \union {k \in DOMAIN frag.clefs : DOMAIN frag.clefs[k] # {}}
Before(a, b) == a[1] < b[1] \/ (a[1] = b[1] /\ a[2] <= b[2])

\* resolve_paste_mapping()
ScopesHold(used, scopes) ==
  /\ Len(scopes) = Cardinality(used) /\ IsInjective(scopes)
  /\ \A k \in DOMAIN scopes : ActiveStave(scopes[k])
Mapping(frag, anchor) ==
  LET used == Used(frag)
      Scope(key) == anchor.scopes[Cardinality({k \in used : Before(k, key)})]
      DestTrack(key) == PositionOf(TrackOf(anchor.stave)) + key[1] - 1
      DestStave(key) == (IF key[1] = 1 THEN Ordinal(anchor.stave) - 1 ELSE 0)
                          + Rank(key[2], {k[2] : k \in {u \in used : u[1] = key[1]}})
      Below == \A key \in used : /\ DestTrack(key) \in DOMAIN Active
                                 /\ DestStave(key) \in DOMAIN Layout[Active[DestTrack(key)]]
  IN  IF ~ActiveStave(anchor.stave) THEN {}
      ELSE IF anchor.scopes # <<>> THEN
             IF ScopesHold(used, anchor.scopes) THEN {[key \in used |-> Scope(key)]} ELSE {}
      ELSE IF Below THEN {[key \in used |-> Layout[Active[DestTrack(key)]][DestStave(key)]]} ELSE {}

\* meter_compatible(): one signature on both sides, or the same measures.
MetersAgree(n, frag, from, to) ==
  LET here == {i \in 1..Count(n) : Starts(n)[i] < to /\ Starts(n)[i + 1] > from}
                \union (IF to > Boundary(n) THEN {Count(n)} ELSE {})
      there == {frag.contexts[k].meter : k \in DOMAIN frag.contexts}
      meters == {n.measures[i] : i \in here}
  IN  IF Cardinality(there) = 1 /\ Cardinality(meters) = 1 THEN there = meters
      ELSE from < Boundary(n) /\ frag.contexts = Contexts(n, from, to)

-----------------------------------------------------------------------------
(* Pasting *)

(* Mutant of PastedClefs: what follows the range is left to the clef that    *)
(* the paste ends with.                                                      *)
PastedClefs_NoReassertion(n, s, new, from, to) ==
  LET old == IF s \in DOMAIN n.clefs THEN n.clefs[s] ELSE <<>>
  IN  Restrict(old, {p \in DOMAIN old : p < from \/ p >= to})
        @@ [p \in {q + from : q \in DOMAIN new} |-> new[p - from]]
\* build_clef_edits(), for one stave: the changes in the range are replaced,
\* and what follows it keeps its clef.
PastedClefs(n, s, new, from, to) ==
  LET old == IF s \in DOMAIN n.clefs THEN n.clefs[s] ELSE <<>>
      outside == Restrict(old, {p \in DOMAIN old : p < from \/ p >= to})
      pasted == outside @@ [p \in {q + from : q \in DOMAIN new} |-> new[p - from]]
      after == ClefAt([n EXCEPT !.clefs = (s :> pasted)], s, to)
  IN  IF to = NodeEnd(n) \/ to \in DOMAIN pasted \/ after = ClefAt(n, s, to) THEN pasted
      ELSE pasted @@ (to :> ClefAt(n, s, to))

\* The lanes of the node with the staves of `map' in them.
Ensured(lanes, staves) ==
  [t \in DOMAIN lanes |->
    [s \in DOMAIN lanes[t] \union (staves \intersect Range(Layout[t])) |->
      IF s \in DOMAIN lanes[t] THEN lanes[t][s] ELSE EmptyStave(Voices)]]

PasteInto(n, frag, map, from, to) ==
  LET staves == Range(map)
      KeyOf(s) == CHOOSE key \in DOMAIN map : map[key] = s
      lanes == Ensured(n.lanes, staves)
      Voice(s, v) == lanes[TrackOf(s)][s].voices[v]
      Named(s, v) == <<KeyOf(s), v>> \in DOMAIN frag.parts
      Rebuilt(s, v) ==
        RebuildRange(Voice(s, v), from, to, NodeEnd(n),
                     Copied(Voice(s, v), frag.parts[<<KeyOf(s), v>>]))
      Offset(spans) == [k \in DOMAIN spans |-> [start |-> spans[k].start + from, end |-> spans[k].end + from]]
      Pasted(s, stave) ==
        [voices |-> [v \in Voices |-> IF Named(s, v) THEN The(Rebuilt(s, v)) ELSE stave.voices[v]],
         pedals |-> ClippedPedals(stave.pedals, from, to) \o Offset(frag.pedals[KeyOf(s)])]
      clefs == [s \in staves |-> PastedClefs(n, s, frag.clefs[KeyOf(s)], from, to)]
      changed == {s \in staves : clefs[s] # IF s \in DOMAIN n.clefs THEN n.clefs[s] ELSE <<>>}
      Result == [n EXCEPT
        !.lanes = [t \in DOMAIN lanes |-> [s \in DOMAIN lanes[t] |->
                    IF s \in staves THEN Pasted(s, lanes[t][s]) ELSE lanes[t][s]]],
        !.clefs = [s \in DOMAIN @ \union changed |-> IF s \in changed THEN clefs[s] ELSE @[s]]]
      touched == {TrackOf(s) : s \in staves}
  IN  IF \E s \in staves, v \in Voices : Named(s, v) /\ Rebuilt(s, v) = {} THEN {}
      ELSE {r \in {Result} : \A t \in touched : LaneHolds(r.lanes[t], NodeEnd(n))}

\* PasteFragmentCommand::execute()
Paste(n, frag, anchor) ==
  LET to == anchor.at + frag.length
  IN  IF to > NodeEnd(n) THEN {}
      ELSE UNION {IF MetersAgree(n, frag, anchor.at, to) THEN PasteInto(n, frag, map, anchor.at, to) ELSE {} :
                    map \in Mapping(frag, anchor)}

-----------------------------------------------------------------------------
(* Cutting *)

\* CutFragmentCommand::execute(): whole measures are cut one at a time.  The
\* clefs stay.
Cut(n, sel) ==
  LET from == RangeStart(n, sel)  to == RangeEnd(n, sel)
      Rebuilt(s, v) ==
        UNION {RebuildRange(VoiceAt(n, s, v), from, to, NodeEnd(n), part) :
                 part \in Silence(VoiceAt(n, s, v), to - from)}
      CutStave(s, stave) ==
        [voices |-> [v \in Voices |-> IF <<s, v>> \in SelectedVoices(sel) THEN The(Rebuilt(s, v))
                                      ELSE stave.voices[v]],
         pedals |-> ClippedPedals(stave.pedals, from, to)]
      Result == [n EXCEPT !.lanes = [t \in DOMAIN @ |-> [s \in DOMAIN @[t] |->
                   IF s \in SelectedStaves(sel) THEN CutStave(s, @[t][s]) ELSE @[t][s]]]]
      touched == {TrackOf(s) : s \in SelectedStaves(sel)}
  IN  IF OfMeasures(sel) /\ sel.count # 1 THEN {}
      ELSE IF Extract(n, sel) = {} THEN {}
      ELSE IF \E x \in SelectedVoices(sel) : Rebuilt(x[1], x[2]) = {} THEN {}
      ELSE {r \in {Result} : \A t \in touched : LaneHolds(r.lanes[t], NodeEnd(n))}
=============================================================================
