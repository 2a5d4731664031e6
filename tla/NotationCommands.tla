--------------------------- MODULE NotationCommands ---------------------------
(* The commands on one voice - noteheads, tuplets, styles, markings, note   *)
(* entry - and the factories the writer gets them from: an operator called  *)
(* ...Edit.  Each is an outcome (see VoiceContent): it works on a copy of   *)
(* the voice and installs it only when it holds, so that a refusal leaves   *)
(* the voice as it was.  What it found and what it left are its two         *)
(* snapshots: undo and redo find the one and install the other.  A factory  *)
(* asks for more than its command does, and one that refuses makes no       *)
(* command.                                                                 *)
EXTENDS NotationValidation, VoiceIndex

CONSTANT
  BeatRests        \* what decompose_measure_aligned_rests() fills the node with

\* validate_voice_candidate()
VoiceHolds(c) == TotalLength(c.events) = NodeEnd /\ ReferencesHold(c)

\* A command installs its candidate only when the whole of it holds.
Checked(c, r) == IF r.ok /\ VoiceHolds(r.content) THEN r ELSE Refused(c)

NoteIndex(c, id) == First({i \in DOMAIN c.events : \E n \in Range(c.events[i].notes) : n.id = id})
NoteheadIds(c) == UNION {{n.id : n \in Range(e.notes)} : e \in Range(c.events)}
GraceIds(c) == UNION {{n.id : n \in Range(r.value)} : r \in Range(c.refs["graces"])}

Notes(c) == UNION {{[at |-> i, note |-> n] : n \in Range(c.events[i].notes)} : i \in DOMAIN c.events}
PitchOf(c, id) ==
  LET graces == UNION {Range(r.value) : r \in Range(c.refs["graces"])}
  IN  (CHOOSE n \in graces \union {h.note : h \in Notes(c)} : n.id = id).pitch
PitchIn(notes, id) == (CHOOSE n \in Range(notes) : n.id = id).pitch

PutEvent(c, i, e, mint) == ReplaceEvent(c, Onsets(c.events)[i], e, NodeEnd, mint)

-----------------------------------------------------------------------------
(* Deleting a notehead, converting an event to a rest *)

\* clear_incoming_ties(): the event before i may be tied into what is gone.
ClearIncomingTies(c, i, new) ==
  [c EXCEPT !.events = [k \in DOMAIN @ |->
     IF k + 1 # i THEN @[k]
     ELSE [@[k] EXCEPT !.notes = [h \in DOMAIN @ |->
            [@[h] EXCEPT !.tied = @ /\ SoundsPitch(new, c.events[k].notes[h].pitch)]]]]]

(* Mutant of NormalizeReferences: the grace groups are forgotten.           *)
NormalizeReferences_KeepsGraces(c, id) ==
  [c EXCEPT !.refs["slurs"] = SelectSeq(@, LAMBDA r : id \notin Range(r.anchors)),
            !.refs["beams"] = SelectSeq(@, LAMBDA r : id \notin Range(r.anchors))]
\* normalize_references_for_replaced_event(): `id' is a rest now.
NormalizeReferences(c, id) ==
  LET Spared(r) == id \notin Range(r.anchors)
      left(r) == SelectSeq(r.anchors, LAMBDA a : a # id)
      RunHolds(run) ==
        /\ Len(run) >= 2
        /\ \A a \in Range(run) : Exists(c, a) /\ Beamable(EventOf(c, a))
        /\ \A k \in 2..Len(run) : Place(c, run[k]) = Place(c, run[k - 1]) + 1
      kept == SelectSeq(c.refs["beams"], LAMBDA r : Spared(r) \/ RunHolds(left(r)))
  IN  [c EXCEPT !.refs["slurs"]  = SelectSeq(@, Spared),
                !.refs["graces"] = SelectSeq(@, Spared),
                !.refs["beams"]  = [k \in DOMAIN kept |-> [kept[k] EXCEPT !.anchors = left(kept[k])]]]

Silenced(e) == [id |-> e.id, notes |-> <<>>, base |-> e.base, tuplet |-> e.tuplet]

\* Event i becomes `new', and nothing refers to it that no longer may.
Substitute(c, i, new, mint) ==
  LET Repaired(r) == IF r.ok /\ IsRest(new) THEN [r EXCEPT !.content = NormalizeReferences(@, new.id)]
                     ELSE r
  IN  Checked(c, Repaired(PutEvent(ClearIncomingTies(c, i, new), i, new, mint)))

\* A chord of two becomes the note that is left, under that note's id.
Without(e, left) ==
  CASE left = <<>> -> Silenced(e)
    [] Len(left) = 1 -> [e EXCEPT !.id = left[1].id, !.notes = left]
    [] Len(left) > 1 -> [e EXCEPT !.notes = left]
DeleteNotehead(c, id, mint) ==
  LET At(i, e) == Substitute(c, i, Without(e, SelectSeq(e.notes, LAMBDA n : n.id # id)), mint)
      From(i) == IF i = 0 THEN Checked(c, RemoveGraceNote(c, id)) ELSE At(i, c.events[i])
  IN  From(NoteIndex(c, id))

ConvertEventToRest(c, i, mint) ==
  IF IsRest(c.events[i]) THEN Checked(c, PutEvent(c, i, c.events[i], mint))
  ELSE Substitute(c, i, Silenced(c.events[i]), mint)

\* What the writer selects then: an event by its kind, or a caret.
AnEvent(e) ==
  [arm |-> IF IsRest(e) THEN "rest" ELSE IF Len(e.notes) = 1 THEN "notehead" ELSE "chord", id |-> e.id]
IsSelectable(c, sel) ==
  IF sel.arm = "caret" THEN sel.at \in Range(Onsets(c.events)) ELSE sel \in {AnEvent(e) : e \in Range(c.events)}

\* selection_after_notehead_delete(): the event before it or, where the voice
\* begins, a caret; a grace note is where its principal is.
SelectionAfterDelete(c, id) ==
  LET principals == {r.anchors[1] : r \in {g \in Range(c.refs["graces"]) : \E n \in Range(g.value) : n.id = id}}
      i == IF NoteIndex(c, id) # 0 THEN NoteIndex(c, id) ELSE Place(c, CHOOSE x \in principals : TRUE)
  IN  IF i = 1 THEN [arm |-> "caret", at |-> 0] ELSE AnEvent(c.events[i - 1])
\* selection_after_convert_to_rest(): the rest has the id of the event.
SelectionAfterConvert(c, i) == [arm |-> "rest", id |-> c.events[i].id]

-----------------------------------------------------------------------------
(* Ties *)

SetTie(c, id, tied, mint) ==
  LET Tied(notes) == [k \in DOMAIN notes |->
                       [notes[k] EXCEPT !.tied = IF notes[k].id = id THEN tied ELSE @]]
      At(i) == IF i = 0 THEN Refused(c)
               ELSE Checked(c, PutEvent(c, i, [c.events[i] EXCEPT !.notes = Tied(@)], mint))
  IN  At(NoteIndex(c, id))

\* build_tie_chain(): all that is reached through ties either way.
TieChain(c, id) ==
  LET all == Notes(c)
      Ties(a, b) == a.note.tied /\ b.at = a.at + 1 /\ a.note.pitch = b.note.pitch
      reach[n \in 0..Cardinality(all)] ==
        IF n = 0 THEN {h \in all : h.note.id = id}
        ELSE LET near == reach[n - 1]
             IN  near \union {b \in all : \E a \in near : Ties(a, b) \/ Ties(b, a)}
  IN  {h.note.id : h \in reach[Cardinality(all)]}
\* Noteheads that move together: a grace note is on its own.
MovesWith(c, id) == IF id \in GraceIds(c) THEN {id} ELSE TieChain(c, id)

-----------------------------------------------------------------------------
(* Pitches *)

\* step_notehead_pitch(), diatonic_pitch(): the letter moves, the accidental stays.
Diatonic(p, by) == [p EXCEPT !.step = @ + by]
\* step_notehead_accidental()
Altered(p, by) == [p EXCEPT !.alter = @ + by]
\* chromatic_pitch(): the nearest accidental, then the nearest letter, then
\* the lowest octave and letter; None outside the range.
LetterValue(step) == (step + 2) % 7
Distance(a, b) == IF a < b THEN b - a ELSE a - b
Chromatic(p, by) ==
  LET hits == {q \in Pitches : Semitones(q) = Semitones(p) + by}
      Cost(q) == ((Distance(q.alter, 0) * 7 + Distance(LetterValue(q.step), LetterValue(p.step))) * 16
                   + q.step \div 7) * 7 + LetterValue(q.step)
  IN  IF hits = {} THEN None ELSE CHOOSE q \in hits : \A o \in hits : Cost(q) <= Cost(o)
\* interval_target_pitch(): in the key of the instance, which has no accidental.
AtInterval(p, interval, sign) == [step |-> p.step + sign * (interval - 1), alter |-> 0]

\* The pitch `new' gives to each id becomes its pitch, or nothing changes.
Respelled(c, new) ==
  IF DOMAIN new = {} \/ \E id \in DOMAIN new : new[id] \notin Pitches THEN Refused(c)
  ELSE Checked(c, Done(FoldSet(LAMBDA id, d : SetNoteheadPitch(d, id, new[id]).content, c, DOMAIN new),
                       NoDelta))

MoveNotehead(c, id, by) ==
  IF id \notin NoteheadIds(c) \union GraceIds(c) THEN Refused(c)
  ELSE Respelled(c, [i \in MovesWith(c, id) |-> Diatonic(PitchOf(c, i), by)])
StepAccidental(c, id, by) ==
  IF id \notin NoteheadIds(c) \union GraceIds(c) THEN Refused(c)
  ELSE Respelled(c, [i \in MovesWith(c, id) |-> Altered(PitchOf(c, i), by)])

\* transpose_voice(): the events that begin in [from, to), whole chains, their graces.
TransposedIds(c, from, to) ==
  LET chosen == {i \in DOMAIN c.events : from <= Onsets(c.events)[i] /\ Onsets(c.events)[i] < to}
      heads == UNION {{n.id : n \in Range(c.events[i].notes)} : i \in chosen}
      graces == {r \in Range(c.refs["graces"]) : \E i \in chosen : c.events[i].id = r.anchors[1]}
  IN  UNION {TieChain(c, id) : id \in heads} \union UNION {{n.id : n \in Range(r.value)} : r \in graces}
Transpose(c, from, to, chromatic, by) ==
  IF by = 0 \/ from >= to \/ from < 0 \/ to > NodeEnd THEN Refused(c)
  ELSE Respelled(c, [i \in TransposedIds(c, from, to) |->
                       IF chromatic THEN Chromatic(PitchOf(c, i), by) ELSE Diatonic(PitchOf(c, i), by)])

-----------------------------------------------------------------------------
(* Intervals *)

\* The duration of an event in a tuplet is copied, its group is not.
Ungrouped(e) == IF e.tuplet = None THEN e ELSE [e EXCEPT !.tuplet.group = None]

\* A note becomes a chord under a new id, a chord grows under its own.
Chorded(e, pitch, mint) ==
  LET notes == Append(e.notes, [id |-> mint + 1, pitch |-> pitch, tied |-> FALSE])
  IN  Ungrouped([e EXCEPT !.notes = notes, !.id = IF Len(e.notes) > 1 THEN @ ELSE mint])

AddInterval(c, id, interval, sign, mint) ==
  LET With(i, e, pitch) ==
        IF pitch \notin Pitches \/ SoundsPitch(e, pitch) THEN Refused(c)
        ELSE Checked(c, PutEvent(c, i, Chorded(e, pitch, mint), mint + 1))
      At(i) ==
        IF i = 0 THEN Refused(c)
        ELSE IF Onsets(c.events)[i] >= Boundary THEN Refused(c)
        ELSE With(i, c.events[i], AtInterval(PitchIn(c.events[i].notes, id), interval, sign))
  IN  At(NoteIndex(c, id))

-----------------------------------------------------------------------------
Members(c, group) == {i \in DOMAIN c.events : c.events[i].tuplet # None /\ c.events[i].tuplet.group = group}
\* A range that coincides with whole events is named by the first and their number.
IsRun(c, first, n) == n > 0 /\ first \in DOMAIN c.events /\ first + n - 1 \in DOMAIN c.events
RunIds(c, first, n) == [k \in 1..n |-> c.events[first + k - 1].id]

-----------------------------------------------------------------------------
(* Tuplets *)

\* TupletCommand::create_group(), change_group(), remove_group(): with no
\* ratio the group is dissolved.
CreateGroup(c, first, n, ratio, mint) ==
  Checked(c, SetTupletGroup(c, first, n, [ratio EXCEPT !.group = mint], NodeEnd, mint))
ChangeGroup(c, group, ratio, mint) ==
  LET Of(members) ==
        IF members = {} \/ members # Min(members)..Max(members) THEN Refused(c)
        ELSE Checked(c, SetTupletGroup(c, Min(members), Cardinality(members),
                                       IF ratio = None THEN None ELSE [ratio EXCEPT !.group = group],
                                       NodeEnd, mint))
  IN  Of(Members(c, group))

TupletCreateEdit(c, first, n, ratio, mint) ==
  IF \/ ~IsRun(c, first, n) \/ ratio.actual = ratio.normal
     \/ \E i \in first..first + n - 1 : c.events[i].tuplet # None
  THEN Refused(c)
  ELSE CreateGroup(c, first, n, ratio, mint)

-----------------------------------------------------------------------------
(* Styles of an event *)

\* EventStyleCommand: an event that sounds gets another style.
Styled(c, id, style, mint) ==
  LET Referenced(r) == IF r.ok /\ ReferencesHold(r.content) THEN r ELSE Refused(c)
      At(i) == ReplaceEvent(c, Onsets(c.events)[i], [c.events[i] EXCEPT !.style = style],
                            TotalLength(c.events), mint)
  IN  IF Plays(c, id) THEN Referenced(At(Place(c, id))) ELSE Refused(c)

\* The articulation takes the place of `replaced', None for an addition; it
\* may not be there already, nor be one of duration next to another.
ArticulationEdit(c, id, a, replaced, mint) ==
  LET had == EventOf(c, id).style.articulations
      others == {b \in Range(had) : b # replaced}
      clashes == a \in DurationArticulations /\ others \intersect DurationArticulations # {}
      new == IF replaced = None THEN Append(had, a)
             ELSE [k \in DOMAIN had |-> IF had[k] = replaced THEN a ELSE had[k]]
  IN  IF ~Plays(c, id) THEN Refused(c)
      ELSE IF a \in Range(had) \/ clashes \/ replaced \notin Range(had) \union {None} THEN Refused(c)
      ELSE Styled(c, id, [EventOf(c, id).style EXCEPT !.articulations = new], mint)
ArticulationRemoval(c, id, a, mint) ==
  LET style == EventOf(c, id).style
  IN  IF ~Plays(c, id) THEN Refused(c)
      ELSE IF a \notin Range(style.articulations) THEN Refused(c)
      ELSE Styled(c, id, [style EXCEPT !.articulations = SelectSeq(@, LAMBDA b : b # a)], mint)
StemEdit(c, id, stem, mint) ==
  IF ~Plays(c, id) THEN Refused(c)
  ELSE IF EventOf(c, id).style.stem = stem THEN Refused(c)
  ELSE Styled(c, id, [EventOf(c, id).style EXCEPT !.stem = stem], mint)

-----------------------------------------------------------------------------
(* Markings: one command to add and one to remove a record of a family, and *)
(* MarkingStyleCommand to change the value of a dynamic or a hairpin.       *)

AddDynamic(c, r)         == Checked(c, AddRef(c, "dynamics", r))
RemoveDynamic(c, id)     == Checked(c, RemoveRef(c, "dynamics", id))
AddHairpin(c, r)         == Checked(c, AddRef(c, "hairpins", r))
RemoveHairpin(c, id)     == Checked(c, RemoveRef(c, "hairpins", id))
AddSlur(c, r)            == Checked(c, AddRef(c, "slurs", r))
RemoveSlur(c, id)        == Checked(c, RemoveRef(c, "slurs", id))
AddBeamOverride(c, r)    == Checked(c, AddRef(c, "beams", r))
RemoveBeamOverride(c, id) == Checked(c, RemoveRef(c, "beams", id))
ReplaceBeamOverride(c, r) == Checked(c, ReplaceRef(c, "beams", r))
MarkingStyle(c, f, id, value) ==
  LET At(k) == IF k = 0 THEN Refused(c)
               ELSE Checked(c, ReplaceRef(c, f, [c.refs[f][k] EXCEPT !.value = value]))
  IN  At(RefIndex(c, f, id))

\* The value of a marking that is there is changed to another.
Changed(c, f, id, value) ==
  IF \E r \in Range(c.refs[f]) : r.id = id /\ r.value # value THEN MarkingStyle(c, f, id, value)
  ELSE Refused(c)
DynamicEdit(c, id, value, mint) ==
  IF ~Plays(c, id) THEN Refused(c)
  ELSE AddDynamic(c, [id |-> mint, anchors |-> <<id>>, value |-> value])

SpanOf(c, first, n, value, mint) ==
  LET run == RunIds(c, first, n) IN [id |-> mint, anchors |-> <<run[1], run[n]>>, value |-> value]
HairpinEdit(c, first, n, value, mint) ==
  IF ~IsRun(c, first, n) \/ n < 2 THEN Refused(c) ELSE AddHairpin(c, SpanOf(c, first, n, value, mint))
SlurEdit(c, first, n, mint) ==
  LET slur == SpanOf(c, first, n, None, mint)
  IN  IF ~IsRun(c, first, n) \/ n < 2 THEN Refused(c)
      ELSE IF IsRest(c.events[first]) \/ IsRest(c.events[first + n - 1])
              \/ \E r \in Range(c.refs["slurs"]) : r.anchors = slur.anchors
      THEN Refused(c)
      ELSE AddSlur(c, slur)

\* A beam override of exactly these events is changed to the other kind, or
\* removed (a kind of None).
BeamOverrideEdit(c, first, n, kind, mint) ==
  LET run == RunIds(c, first, n)
      exact == {r \in Range(c.refs["beams"]) : r.anchors = run}
      old == CHOOSE r \in exact : TRUE
  IN  IF ~IsRun(c, first, n) \/ n < 2 THEN Refused(c)
      ELSE IF (\E k \in 0..n - 1 : ~Beamable(c.events[first + k])) \/ Cardinality(exact) > 1
      THEN Refused(c)
      ELSE IF exact = {}
      THEN IF kind = None THEN Refused(c)
           ELSE AddBeamOverride(c, [id |-> mint, anchors |-> run, value |-> kind])
      ELSE IF kind = None THEN RemoveBeamOverride(c, old.id)
      ELSE IF old.value = kind THEN Refused(c)
      ELSE ReplaceBeamOverride(c, [old EXCEPT !.value = kind])

\* A tie is applied where the next event can take it, removed where there is one.
TieEdit(c, id, tied, mint) ==
  LET CanTie(i, pitch) == i < Len(c.events) /\ SoundsPitch(c.events[i + 1], pitch)
  IN  IF \E h \in Notes(c) : /\ h.note.id = id /\ h.note.tied # tied
                             /\ tied => CanTie(h.at, h.note.pitch)
      THEN SetTie(c, id, tied, mint) ELSE Refused(c)

-----------------------------------------------------------------------------
(* Note entry *)

MakeNote(pitch, length, mint) ==
  [id |-> mint, notes |-> <<[id |-> mint, pitch |-> pitch, tied |-> FALSE]>>,
   base |-> length, tuplet |-> None, style |-> Plain]

\* SetEventCommand: within a tuplet an event can only be replaced by one of it.
SetEvent(c, position, e, mint) ==
  LET At(i) == IF i \notin DOMAIN c.events \/ c.events[i].tuplet # e.tuplet THEN Refused(c)
               ELSE Checked(c, ReplaceEvent(c, position, e, NodeEnd, mint))
  IN  At(IndexAt(c.events, position))

\* The event to put where `old' is, for an armed pitch (None: a rest) and length.
Entered(old, pitch, length, mint) ==
  CASE pitch = None /\ IsRest(old)  -> [old EXCEPT !.base = length]
    [] pitch = None /\ ~IsRest(old) -> Resting(mint, length)
    [] pitch # None /\ IsRest(old)  -> MakeNote(pitch, length, mint)
    [] pitch # None /\ ~IsRest(old) /\ SoundsPitch(old, pitch)  -> [old EXCEPT !.base = length]
    [] pitch # None /\ ~IsRest(old) /\ ~SoundsPitch(old, pitch) ->
         [Chorded(old, pitch, mint) EXCEPT !.base = length, !.tuplet = None]

\* An untupleted duration on an event of a tuplet keeps its group in three
\* branches and drops it in the others: either way SetEvent refuses it.
EnterAt(c, position, pitch, length, mint) ==
  LET At(i) == IF i \notin DOMAIN c.events THEN Refused(c)
               ELSE IF c.events[i].tuplet # None THEN Refused(c)
               ELSE SetEvent(c, position, Entered(c.events[i], pitch, length, mint), mint + 1)
  IN  At(IndexAt(c.events, position))

\* CreateVoiceStreamCommand: an empty voice is filled with rests, bar by bar.
CreateVoiceStream(c, mint) ==
  IF c.events # <<>> \/ Total(BeatRests) # NodeEnd THEN Refused(c)
  ELSE Done([c EXCEPT !.events = [k \in DOMAIN BeatRests |-> Resting(mint + k, BeatRests[k])]], NoDelta)

\* make_note_entry_command(), and what it does: an empty voice is created first.
NoteEntry(c, position, pitch, length, mint) ==
  LET Into(stream, top) ==
        SetEvent(stream.content, position,
                 IF pitch = None THEN Resting(top, length) ELSE MakeNote(pitch, length, top), top)
      Both(stream, put) == IF stream.ok /\ put.ok THEN put ELSE Refused(c)
      Created(stream) == Both(stream, Into(stream, mint + Len(BeatRests) + 1))
  IN  IF c.events # <<>> THEN EnterAt(c, position, pitch, length, mint)
      ELSE Created(CreateVoiceStream(c, mint))
=============================================================================
