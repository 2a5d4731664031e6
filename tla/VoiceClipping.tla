---------------------------- MODULE VoiceClipping ----------------------------
(* Taking a voice apart at a position and putting it together again          *)
(* (clipboard_command_helpers.hpp, measure_command_helpers.hpp): the edits   *)
(* of a measure, cut and paste all keep what is left of a position and what  *)
(* is right of another, and put something else between them.                 *)
(*                                                                           *)
(* What is rebuilt is a set: empty when it is refused, else of one element.  *)
(* Ids are unique within their voice; what a step makes anew is named after  *)
(* the `mint' it is given.                                                   *)
EXTENDS NotationValidation

The(outcome) == CHOOSE x \in outcome : TRUE

\* The groups of the tuplets are ids as well.
VoiceIds(c) ==
  IdsOf(c.events) \union RefIds(c.refs)
    \union {e.tuplet.group : e \in {x \in Range(c.events) : x.tuplet # None}}
Fresh(c) == Max({0} \union VoiceIds(c))
\* Each step of a rebuilding makes fewer new ids than this.
Step == 50

-----------------------------------------------------------------------------
(* Pieces *)

\* Rests for `length', none where there is nothing to fill.
Rested(length, mint) ==
  CASE length <= 0 -> {<<>>}
    [] length > 0 /\ Decomposable(length) -> {FreshRests(length, mint)}
    [] OTHER -> {}

Untied(e) == [e EXCEPT !.notes = [h \in DOMAIN @ |-> [@[h] EXCEPT !.tied = FALSE]]]
\* One piece of a tie chain; only the first keeps the ids and the articulations.
Piece(e, length, first, last, id) ==
  LET Tied(h) == [e.notes[h] EXCEPT !.tied = ~last, !.id = IF first THEN @
                                                          ELSE IF Len(e.notes) = 1 THEN id ELSE id + h]
      tied == [e EXCEPT !.base = length, !.notes = [h \in DOMAIN @ |-> Tied(h)]]
  IN  IF first THEN tied ELSE [tied EXCEPT !.id = id, !.style = Plain]
\* truncate_note_left(), truncate_chord_left(): the attack of e, over `length'.
Pieces(e, length, mint) ==
  LET Chain(terms) == [k \in DOMAIN terms |->
                        Piece(e, terms[k], k = 1, k = Len(terms), mint + k * (Len(e.notes) + 1))]
  IN  IF Decomposable(length) THEN {Chain(DecomposeRest(length))} ELSE {}

\* The event that a position is in the middle of, 0 for none.
Straddler(events, p) ==
  LET onset == Onsets(events)
  IN  First({i \in DOMAIN events : onset[i] < p /\ p < onset[i + 1]})

Region(events, kept) == [events |-> events, kept |-> {e.id : e \in Range(kept)}]

\* clip_left_region(): what begins before p, which is cut off there.
ClipLeft(events, p, mint) ==
  LET onset == Onsets(events)
      whole == SubSeq(events, 1, Cardinality({i \in DOMAIN events : onset[i + 1] <= p}))
      last == Straddler(events, p)
      short == p - onset[Len(whole) + 1]
      plays == last # 0 /\ ~IsRest(events[last])
      Ends == IF plays THEN Pieces(events[last], short, mint) ELSE Rested(short, mint)
  IN  IF last # 0 /\ events[last].tuplet # None THEN {}
      ELSE {Region(whole \o end, IF plays THEN Append(whole, events[last]) ELSE whole) : end \in Ends}

\* clip_right_region(): what begins from p on; the rest of what began before
\* p is silence, and so is what is missing up to `end'.
ClipRight(events, p, end, mint) ==
  LET onset == Onsets(events)
      cut == Straddler(events, p)
      whole == SelectSeq([i \in DOMAIN events |-> [at |-> onset[i], event |-> events[i]]],
                         LAMBDA x : p <= x.at /\ x.at < end)
      kept == [k \in DOMAIN whole |-> whole[k].event]
      Opening == IF cut = 0 THEN {<<>>} ELSE Rested(Min({onset[cut + 1], end}) - p, mint)
      Filling == Rested(end - Max({p, TotalLength(events)}), mint + Step \div 2)
  IN  IF cut # 0 /\ events[cut].tuplet # None THEN {}
      ELSE {Region(head \o kept \o tail, kept) : head \in Opening, tail \in Filling}

\* The last event before a gap is not tied into it, nor into what follows an
\* insertion.
Severed(before, events, kept, inserting) ==
  LET last == Len(before)
      i == First({j \in DOMAIN events : before # <<>> /\ events[j].id = before[last].id})
      parted == i # 0 /\ i < Len(events) /\ (inserting \/ events[i + 1].id \notin kept)
  IN  IF parted THEN [before EXCEPT ![last] = Untied(@)] ELSE before

\* add_surviving_markings(): what is anchored to kept events only.
Surviving(refs, kept) ==
  [f \in Families |-> SelectSeq(refs[f], LAMBDA r : Range(r.anchors) \subseteq kept)]

-----------------------------------------------------------------------------
(* Replacing a range *)

\* rebuild_voice_range(): `part' takes the place of [from, to).
RebuildRange(c, from, to, end, part) ==
  LET mint == Fresh(c)
      Joined(before, after, kept) ==
        [events |-> Severed(before.events, c.events, kept, FALSE) \o part.events \o after.events,
         refs   |-> [f \in Families |-> Surviving(c.refs, kept)[f] \o part.refs[f]]]
      Whole(joined) == {[joined EXCEPT !.events = all] : all \in Filled(joined.events, end, mint + 2 * Step)}
  IN  UNION {Whole(Joined(before, after, before.kept \union after.kept)) :
               before \in ClipLeft(c.events, from, mint),
               after \in ClipRight(c.events, to, end, mint + Step)}

Silence(c, length) ==
  {[EmptyContent EXCEPT !.events = rests] : rests \in Rested(length, Fresh(c) + 3 * Step)}

\* regenerate_events(), add_regenerated_markings(): the same under new ids.
Regenerated(part, by) ==
  LET Notes(notes) == [h \in DOMAIN notes |-> [notes[h] EXCEPT !.id = @ + by]]
      Event(e) == [[e EXCEPT !.id = @ + by, !.notes = Notes(@)]
                     EXCEPT !.tuplet = IF @ = None THEN None ELSE [@ EXCEPT !.group = @ + by]]
      Ref(f, r) == [r EXCEPT !.id = @ + by, !.anchors = [k \in DOMAIN @ |-> @[k] + by],
                             !.value = IF f = "graces" THEN Notes(@) ELSE @]
  IN  [events |-> [i \in DOMAIN part.events |-> Event(part.events[i])],
       refs |-> [f \in Families |-> [k \in DOMAIN part.refs[f] |-> Ref(f, part.refs[f][k])]]]
Copied(c, part) == Regenerated(part, Fresh(c) + 4 * Step)

-----------------------------------------------------------------------------
(* Inserting into a voice, and taking a range out of it *)

\* boundary_cuts_tuplet_group()
CutsTuplet(events, p) ==
  LET onset == Onsets(events)
      Joins(i) == i < Len(events) /\ events[i + 1].tuplet # None
                  /\ events[i + 1].tuplet.group = events[i].tuplet.group
  IN  \E i \in DOMAIN events :
        /\ events[i].tuplet # None /\ onset[i] < p
        /\ (p < onset[i + 1] \/ (p = onset[i + 1] /\ Joins(i)))

\* add_repaired_beam_overrides(): the runs of what is left of a beam.
RepairedBeams(beams, events, mint) ==
  LET Left(r) == {i \in DOMAIN events : events[i].id \in Range(r.anchors) /\ Beamable(events[i])}
      Run(left, i) == i..Max({j \in left : i..j \subseteq left})
      Heads(left) == {i \in left : i - 1 \notin left /\ i + 1 \in left}
      Beam(r, k, run) ==
        [r EXCEPT !.id = IF k = 1 THEN @ ELSE mint + k,
                  !.anchors = [j \in 1..Cardinality(run) |-> events[Min(run) + j - 1].id]]
      Beams(r, left, heads) == [k \in DOMAIN heads |-> Beam(r, k, Run(left, heads[k]))]
  IN  FlattenSeq([b \in DOMAIN beams |->
        LET left == Left(beams[b]) IN Beams(beams[b], left, SetToSortSeq(Heads(left), <))])

\* rebuild_voice_for_measure_edit(): [edit.start, edit.removed) goes, and an
\* insertion is silent.
RebuildAround(c, edit) ==
  LET mint == Fresh(c)
      inserting == edit.removed = edit.start
      Joined(before, between, after, kept) ==
        [events |-> Severed(before.events, c.events, kept, inserting) \o between \o after.events,
         refs   |-> Surviving(c.refs, kept)]
      Beamed(joined) == [joined EXCEPT !.refs["beams"] =
                           RepairedBeams(c.refs["beams"], joined.events, mint + 4 * Step)]
      Whole(joined) == {[joined EXCEPT !.events = all] :
                            all \in Filled(joined.events, edit.newEnd, mint + 2 * Step)}
  IN  IF CutsTuplet(c.events, edit.start) \/ CutsTuplet(c.events, edit.removed) THEN {}
      ELSE UNION {Whole(Beamed(Joined(before, between, after, before.kept \union after.kept))) :
                    before  \in ClipLeft(c.events, edit.start, mint),
                    between \in Rested(edit.shift, mint + 3 * Step),
                    after   \in ClipRight(c.events, edit.removed, edit.oldEnd, mint + Step)}

-----------------------------------------------------------------------------
(* The lane of a track: for each stave it has, the four voices and the pedal *)
(* spans, [start, end], in the order in which they were added.               *)

EmptyStave(voices) == [voices |-> [v \in voices |-> EmptyContent], pedals |-> <<>>]

PedalsHold(spans, end) == \A p \in Range(spans) : 0 <= p.start /\ p.start < p.end /\ p.end <= end

\* validate_clipboard_lane_candidate(): a voice without music need not be full.
LaneHolds(lane, end) ==
  \A s \in DOMAIN lane :
    /\ PedalsHold(lane[s].pedals, end)
    /\ \A c \in Range(lane[s].voices) : /\ ReferencesHold(c)
                                        /\ TotalLength(c.events) \in {0, end}
\* validate_pedal_stave_candidate(): here it must.
StaveHolds(stave, end) ==
  /\ PedalsHold(stave.pedals, end)
  /\ \A c \in Range(stave.voices) : ReferencesHold(c) /\ TotalLength(c.events) = end

(* Mutant of CarriedPedals: a span that begins where a measure is inserted   *)
(* stays there.                                                              *)
CarriedPedals_StaysAtSeam(spans, edit) ==
  LET From(p) == IF p > edit.removed THEN p + edit.shift ELSE Min({p, edit.start})
      To(p) == CASE p <= edit.start -> p [] p > edit.removed -> p + edit.shift [] OTHER -> edit.start
      moved == [k \in DOMAIN spans |-> [start |-> From(spans[k].start), end |-> To(spans[k].end)]]
  IN  SelectSeq(moved, LAMBDA p : p.start < p.end)
\* transform_pedal_span(), for a span that is left.
CarriedPedals(spans, edit) ==
  LET From(p) == CASE p < edit.start -> p [] p >= edit.removed -> p + edit.shift [] OTHER -> edit.start
      To(p) == CASE p <= edit.start -> p [] p > edit.removed -> p + edit.shift [] OTHER -> edit.start
      moved == [k \in DOMAIN spans |-> [start |-> From(spans[k].start), end |-> To(spans[k].end)]]
  IN  SelectSeq(moved, LAMBDA p : p.start < p.end)

\* clip_pedal_spans_in_range(): what is left of a span comes last.
ClippedPedals(spans, from, to) ==
  LET Meets(p) == p.end > from /\ p.start < to
      Left(p) == SelectSeq(<<[start |-> p.start, end |-> from], [start |-> to, end |-> p.end]>>,
                           LAMBDA q : q.start < q.end)
      met == SelectSeq(spans, Meets)
  IN  SelectSeq(spans, LAMBDA p : ~Meets(p)) \o FlattenSeq([k \in DOMAIN met |-> Left(met[k])])
=============================================================================
